--------------------------- MODULE ChatQueueProofs ---------------------------
(***************************************************************************)
(* What ChatQueue promises, for any number of messages, sessions,          *)
(* requests, failures and reloads: its types, that a message is held       *)
(* exactly once while its fate is open, that a reload brings back the      *)
(* queue, that what the page shows as sent the gateway has received, and   *)
(* that page, route and gateway implement Delivery, so that the gateway    *)
(* first sees the messages of a session in their order.                    *)
(*                                                                         *)
(* The inductive invariant has four parts.  TypeInv: the types, and that   *)
(* an attempt carries a message unless it is free.  QueueInv: the queue    *)
(* and the item in flight hold the open messages, once each; those of a    *)
(* session are sorted, the one in flight first; what is stored and has not *)
(* expired is the front of the queue.  AttemptInv: the attempt the page    *)
(* waits for carries the message of its turn, and what was served or       *)
(* answered with a success was received.  OrderInv: the message of an      *)
(* attempt is one whose predecessors were received or never will be.       *)
(*                                                                         *)
(* Kept, which filters a sequence, is a recursive function.  What it       *)
(* returns is proved by induction: SequenceInduction is stated for a set   *)
(* of sequences and follows from the least element of a set of naturals.   *)
(***************************************************************************)
EXTENDS ChatQueue, FiniteSetTheorems, SequenceTheorems, WellFoundedInduction, TLAPS

------------------------------------------------------------------------------
(* Induction *)

\* A set of natural numbers has a least element.
LEMMA LeastNatural ==
    ASSUME NEW T \in SUBSET Nat, T # {}
    PROVE  \E x \in T : \A y \in T : x <= y
<1>1. IsWellFoundedOn(OpToRel(<, Nat), Nat)
  BY NatLessThanWellFounded, Zenon
<1>2. PICK x \in T : \A y \in T : ~(<<y, x>> \in OpToRel(<, Nat))
  BY <1>1, WFMin, Zenon
<1>3. \A y \in T : ~(y < x)
  BY <1>2 DEF OpToRel
<1>. QED
  BY <1>3

\* The natural numbers are in a set that has 0 and with n also n + 1.
LEMMA Induction ==
    ASSUME NEW T, 0 \in T, \A n \in Nat : n \in T => n + 1 \in T
    PROVE  \A n \in Nat : n \in T
<1>. SUFFICES ASSUME Nat \ T # {} PROVE FALSE
  OBVIOUS
<1>1. PICK x \in Nat \ T : \A y \in Nat \ T : x <= y
  <2>1. Nat \ T \in SUBSET Nat
    OBVIOUS
  <2>. QED
    BY <2>1, LeastNatural
<1>2. x # 0 /\ x - 1 \in Nat /\ x = (x - 1) + 1
  BY <1>1
<1>. QED
  BY <1>1, <1>2

\* The sequences are in a set that has <<>> and with s also Append(s, e).
LEMMA SequenceInduction ==
    ASSUME NEW I, NEW P, <<>> \in P,
           \A s \in Seq(I), e \in I : s \in P => Append(s, e) \in P
    PROVE  \A s \in Seq(I) : s \in P
<1>. DEFINE T == {n \in Nat : \A s \in Seq(I) : Len(s) = n => s \in P}
<1>1. 0 \in T
  <2>1. \A s \in Seq(I) : Len(s) = 0 => s = <<>>
    OBVIOUS
  <2>. QED
    BY <2>1
<1>2. ASSUME NEW n \in Nat, n \in T PROVE n + 1 \in T
  <2>. SUFFICES ASSUME NEW s \in Seq(I), Len(s) = n + 1 PROVE s \in P
    OBVIOUS
  <2>1. s # <<>>
    OBVIOUS
  <2>2. PICK r \in Seq(I), e \in I : s = Append(r, e)
    BY <2>1, SequenceEmptyOrAppend
  <2>3. Len(r) = n
    BY <2>2
  <2>. QED
    BY <1>2, <2>2, <2>3
<1>. HIDE DEF T
<1>3. \A n \in Nat : n \in T
  BY <1>1, <1>2, Induction
<1>. QED
  BY <1>3 DEF T

------------------------------------------------------------------------------
(* Kept *)

\* f is the function that Kept computes for q, up to n
Steps(f, q, S, n) ==
    /\ f[0] = <<>>
    /\ \A k \in 1 .. n :
          f[k] = IF q[k] \in S THEN Append(f[k - 1], q[k]) ELSE f[k - 1]
Keeping(f, q, S, n) == f = [k \in 0 .. n |-> f[k]] /\ Steps(f, q, S, n)

LEMMA KeepingExists ==
    ASSUME NEW q, NEW S
    PROVE  \A n \in Nat : \E f : Keeping(f, q, S, n)
<1>. DEFINE T == {n \in Nat : \E f : Keeping(f, q, S, n)}
<1>1. 0 \in T
  <2>1. Keeping([k \in 0 .. 0 |-> <<>>], q, S, 0)
    BY DEF Keeping, Steps
  <2>. QED
    BY <2>1
<1>2. ASSUME NEW n \in Nat, n \in T
      PROVE  n + 1 \in T
  <2>1. PICK f : Keeping(f, q, S, n)
    BY <1>2
  <2>2. PICK g : g = [k \in 0 .. (n + 1) |->
                        IF k <= n THEN f[k]
                        ELSE IF q[k] \in S THEN Append(f[k - 1], q[k]) ELSE f[k - 1]]
    OBVIOUS
  <2>3. /\ \A k \in 0 .. n : g[k] = f[k]
        /\ g[n + 1] = IF q[n + 1] \in S THEN Append(f[n], q[n + 1]) ELSE f[n]
        /\ g = [k \in 0 .. (n + 1) |-> g[k]]
    BY <2>2
  <2>4. \A k \in 1 .. (n + 1) :
           g[k] = IF q[k] \in S THEN Append(g[k - 1], q[k]) ELSE g[k - 1]
    <3>. SUFFICES ASSUME NEW k \in 1 .. (n + 1)
                  PROVE  g[k] = IF q[k] \in S THEN Append(g[k - 1], q[k]) ELSE g[k - 1]
      OBVIOUS
    <3>1. CASE k = n + 1
      <4>1. k - 1 = n /\ n \in 0 .. n
        BY <3>1
      <4>2. g[k - 1] = f[n] /\ g[k] = g[n + 1] /\ q[k] = q[n + 1]
        BY <2>3, <3>1, <4>1
      <4>. QED
        BY <2>3, <4>2
    <3>2. CASE k # n + 1
      <4>1. k \in 1 .. n /\ k \in 0 .. n /\ k - 1 \in 0 .. n
        BY <3>2
      <4>. QED
        BY <2>1, <2>3, <4>1 DEF Keeping, Steps
    <3>. QED
      BY <3>1, <3>2
  <2>5. g[0] = <<>>
    <3>1. 0 \in 0 .. n
      OBVIOUS
    <3>. QED
      BY <2>1, <2>3, <3>1 DEF Keeping, Steps
  <2>6. Keeping(g, q, S, n + 1)
    BY <2>3, <2>4, <2>5 DEF Keeping, Steps
  <2>. QED
    BY <2>6
<1>. HIDE DEF T
<1>3. \A n \in Nat : n \in T
  BY <1>1, <1>2, Induction
<1>. QED
  BY <1>3 DEF T

\* Two such functions agree as far as both go.
LEMMA KeepingAgrees ==
    ASSUME NEW q, NEW S, NEW f, NEW g, NEW n \in Nat, Steps(f, q, S, n), Steps(g, q, S, n)
    PROVE  f[n] = g[n]
<1>. DEFINE T == {k \in Nat : k <= n => f[k] = g[k]}
<1>1. 0 \in T
  BY DEF Steps
<1>2. ASSUME NEW k \in Nat, k \in T PROVE k + 1 \in T
  <2>. SUFFICES ASSUME k + 1 <= n PROVE f[k + 1] = g[k + 1]
    OBVIOUS
  <2>1. k + 1 \in 1 .. n /\ (k + 1) - 1 = k /\ f[k] = g[k]
    BY <1>2
  <2>. QED
    BY <2>1 DEF Steps
<1>. HIDE DEF T
<1>3. \A k \in Nat : k \in T
  BY <1>1, <1>2, Induction
<1>. QED
  BY <1>3 DEF T

LEMMA KeptIsKeeping ==
    ASSUME NEW q, NEW S, Len(q) \in Nat
    PROVE  \E f : Keeping(f, q, S, Len(q)) /\ Kept(q, S) = f[Len(q)]
<1>. DEFINE E(f) == [n \in 0 .. Len(q) |->
                       IF n = 0 THEN <<>>
                       ELSE IF q[n] \in S THEN Append(f[n - 1], q[n]) ELSE f[n - 1]]
            kept == CHOOSE f : f = E(f)
<1>1. PICK g : Keeping(g, q, S, Len(q))
  BY KeepingExists
<1>2. g = E(g)
  <2>1. ASSUME NEW n \in 0 .. Len(q)
        PROVE  g[n] = E(g)[n]
    <3>1. E(g)[n] = IF n = 0 THEN <<>>
                    ELSE IF q[n] \in S THEN Append(g[n - 1], q[n]) ELSE g[n - 1]
      OBVIOUS
    <3>2. n = 0 \/ n \in 1 .. Len(q)
      OBVIOUS
    <3>. HIDE DEF E
    <3>. QED
      BY <1>1, <3>1, <3>2 DEF Keeping, Steps
  <2>2. g = [n \in 0 .. Len(q) |-> g[n]]
    BY <1>1 DEF Keeping, Steps
  <2>3. E(g) = [n \in 0 .. Len(q) |-> E(g)[n]]
    OBVIOUS
  <2>. QED
    BY <2>1, <2>2, <2>3
<1>3. kept = E(kept)
  <2>. HIDE DEF E
  <2>. QED
    BY <1>2, Zenon
<1>4. Kept(q, S) = kept[Len(q)]
  BY DEF Kept
<1>. HIDE DEF kept
<1>5. Keeping(kept, q, S, Len(q))
  <2>1. \A n \in 0 .. Len(q) :
           kept[n] = IF n = 0 THEN <<>>
                     ELSE IF q[n] \in S THEN Append(kept[n - 1], q[n]) ELSE kept[n - 1]
    BY <1>3
  <2>2. kept = [n \in 0 .. Len(q) |-> kept[n]]
    BY <1>3
  <2>. QED
    BY <2>1, <2>2 DEF Keeping, Steps
<1>. QED
  BY <1>4, <1>5

LEMMA KeptOfEmpty == \A S : Kept(<<>>, S) = <<>>
<1>. SUFFICES ASSUME NEW S PROVE Kept(<<>>, S) = <<>>
  OBVIOUS
<1>1. Len(<<>>) = 0
  OBVIOUS
<1>. QED
  BY <1>1, KeptIsKeeping DEF Keeping, Steps

LEMMA KeptOfAppend ==
    ASSUME NEW I, NEW q \in Seq(I), NEW e \in I, NEW S
    PROVE  Kept(Append(q, e), S) = IF e \in S THEN Append(Kept(q, S), e) ELSE Kept(q, S)
<1>. DEFINE r == Append(q, e)
<1>1. /\ Len(q) \in Nat /\ Len(r) = Len(q) + 1 /\ r[Len(q) + 1] = e
      /\ \A k \in 1 .. Len(q) : q[k] = r[k]
  OBVIOUS
<1>. HIDE DEF r
<1>2. PICK f : Keeping(f, q, S, Len(q)) /\ Kept(q, S) = f[Len(q)]
  BY <1>1, KeptIsKeeping
<1>3. PICK g : Keeping(g, r, S, Len(r)) /\ Kept(r, S) = g[Len(r)]
  BY <1>1, KeptIsKeeping
<1>4. f[Len(q)] = g[Len(q)]
  <2>1. Steps(f, r, S, Len(q)) /\ Steps(g, r, S, Len(q))
    <3>1. Steps(f, r, S, Len(q))
      BY <1>1, <1>2 DEF Keeping, Steps
    <3>2. \A k \in 1 .. Len(q) : k \in 1 .. Len(r)
      BY <1>1
    <3>3. Steps(g, r, S, Len(q))
      BY <1>3, <3>2 DEF Keeping, Steps
    <3>. QED
      BY <3>1, <3>3
  <2>. QED
    BY <1>1, <2>1, KeepingAgrees
<1>5. g[Len(r)] = IF r[Len(r)] \in S THEN Append(g[Len(r) - 1], r[Len(r)]) ELSE g[Len(r) - 1]
  BY <1>1, <1>3 DEF Keeping, Steps
<1>. QED
  BY <1>1, <1>2, <1>3, <1>4, <1>5 DEF r

\* The items of r are items of s, in the order of s.
Within(r, s) ==
    /\ \A i \in 1 .. Len(r) : \E p \in 1 .. Len(s) : s[p] = r[i]
    /\ \A i, j \in 1 .. Len(r) : i < j =>
          \E p, q \in 1 .. Len(s) : p < q /\ s[p] = r[i] /\ s[q] = r[j]

\* What Kept returns: items of s that are in S, all of them, in the order of s.
KeepsOf(r, s, S) ==
    /\ Len(r) <= Len(s) /\ Within(r, s)
    /\ \A i \in 1 .. Len(r) : r[i] \in S
    /\ \A p \in 1 .. Len(s) : s[p] \in S => \E i \in 1 .. Len(r) : r[i] = s[p]

LEMMA KeptProperties ==
    ASSUME NEW I, NEW S
    PROVE  \A s \in Seq(I) : Kept(s, S) \in Seq(I) /\ KeepsOf(Kept(s, S), s, S)
<1>. DEFINE P == {s \in Seq(I) : Kept(s, S) \in Seq(I) /\ KeepsOf(Kept(s, S), s, S)}
<1>1. <<>> \in P
  <2>1. <<>> \in Seq(I) /\ Len(<<>>) = 0 /\ Kept(<<>>, S) = <<>>
    BY KeptOfEmpty
  <2>2. KeepsOf(<<>>, <<>>, S)
    BY <2>1 DEF KeepsOf, Within
  <2>. QED
    BY <2>1, <2>2
<1>2. ASSUME NEW s \in Seq(I), NEW e \in I, s \in P
      PROVE  Append(s, e) \in P
  <2>1. PICK r \in Seq(I) : r = Kept(s, S) /\ KeepsOf(r, s, S)
    BY <1>2
  <2>2. PICK t \in Seq(I) : t = Append(s, e)
    BY AppendProperties
  <2>3. /\ Len(t) = Len(s) + 1 /\ t[Len(t)] = e /\ Len(s) \in Nat
        /\ \A p \in 1 .. Len(s) : t[p] = s[p] /\ p \in 1 .. Len(t) /\ p < Len(t)
        /\ Len(t) \in 1 .. Len(t)
        /\ \A p \in 1 .. Len(t) : p = Len(t) \/ p \in 1 .. Len(s)
    BY <2>2
  <2>4. Kept(t, S) = IF e \in S THEN Append(r, e) ELSE r
    BY <2>1, <2>2, KeptOfAppend
  <2>5. CASE e \in S
    <3>1. PICK u \in Seq(I) : u = Append(r, e)
      BY AppendProperties
    <3>2. /\ Len(u) = Len(r) + 1 /\ u[Len(u)] = e /\ Len(r) \in Nat
          /\ \A i \in 1 .. Len(r) : u[i] = r[i] /\ i \in 1 .. Len(u) /\ i < Len(u)
          /\ Len(u) \in 1 .. Len(u)
          /\ \A i \in 1 .. Len(u) : i = Len(u) \/ i \in 1 .. Len(r)
      BY <3>1
    <3>3. ASSUME NEW i \in 1 .. Len(u)
          PROVE  u[i] \in S /\ \E p \in 1 .. Len(t) : t[p] = u[i]
      <4>1. CASE i = Len(u)
        BY <2>3, <2>5, <3>2, <4>1
      <4>2. CASE i \in 1 .. Len(r)
        <5>1. r[i] \in S /\ \E p \in 1 .. Len(s) : s[p] = r[i]
          BY <2>1, <4>2 DEF KeepsOf, Within
        <5>. QED
          BY <2>3, <3>2, <4>2, <5>1
      <4>. QED
        BY <3>2, <4>1, <4>2
    <3>4. ASSUME NEW p \in 1 .. Len(t), t[p] \in S
          PROVE  \E i \in 1 .. Len(u) : u[i] = t[p]
      <4>1. CASE p = Len(t)
        BY <2>3, <3>2, <4>1
      <4>2. CASE p \in 1 .. Len(s)
        <5>1. \E i \in 1 .. Len(r) : r[i] = s[p]
          BY <2>1, <2>3, <3>4, <4>2 DEF KeepsOf, Within
        <5>. QED
          BY <2>3, <3>2, <4>2, <5>1
      <4>. QED
        BY <2>3, <4>1, <4>2
    <3>5. ASSUME NEW i \in 1 .. Len(u), NEW j \in 1 .. Len(u), i < j
          PROVE  \E p, q \in 1 .. Len(t) : p < q /\ t[p] = u[i] /\ t[q] = u[j]
      <4>1. i \in 1 .. Len(r)
        BY <3>2, <3>5
      <4>2. CASE j = Len(u)
        <5>1. PICK p \in 1 .. Len(s) : s[p] = r[i]
          BY <2>1, <4>1 DEF KeepsOf, Within
        <5>2. p \in 1 .. Len(t) /\ p < Len(t) /\ t[p] = u[i] /\ t[Len(t)] = u[j]
          BY <2>3, <3>2, <4>1, <4>2, <5>1
        <5>. QED
          BY <2>3, <5>2
      <4>3. CASE j \in 1 .. Len(r)
        <5>1. PICK p \in 1 .. Len(s), q \in 1 .. Len(s) : p < q /\ s[p] = r[i] /\ s[q] = r[j]
          BY <2>1, <3>5, <4>1, <4>3 DEF KeepsOf, Within
        <5>. QED
          BY <2>3, <3>2, <4>1, <4>3, <5>1
      <4>. QED
        BY <3>2, <4>2, <4>3
    <3>6. Len(u) <= Len(t)
      BY <2>1, <2>3, <3>2 DEF KeepsOf, Within
    <3>7. KeepsOf(u, t, S)
      BY <3>3, <3>4, <3>5, <3>6 DEF KeepsOf, Within
    <3>. QED
      BY <2>2, <2>4, <2>5, <3>1, <3>7
  <2>6. CASE e \notin S
    <3>1. KeepsOf(r, t, S)
      <4>1. Len(r) <= Len(t) /\ \A i \in 1 .. Len(r) : r[i] \in S /\ \E p \in 1 .. Len(t) : t[p] = r[i]
        BY <2>1, <2>3 DEF KeepsOf, Within
      <4>2. \A p \in 1 .. Len(t) : t[p] \in S => \E i \in 1 .. Len(r) : r[i] = t[p]
        <5>. SUFFICES ASSUME NEW p \in 1 .. Len(t), t[p] \in S
                      PROVE  \E i \in 1 .. Len(r) : r[i] = t[p]
          OBVIOUS
        <5>1. p # Len(t)
          BY <2>3, <2>6
        <5>2. p \in 1 .. Len(s) /\ t[p] = s[p]
          BY <2>3, <5>1
        <5>. QED
          BY <2>1, <5>2 DEF KeepsOf, Within
      <4>3. \A i, j \in 1 .. Len(r) : i < j =>
               \E p, q \in 1 .. Len(t) : p < q /\ t[p] = r[i] /\ t[q] = r[j]
        BY <2>1, <2>3 DEF KeepsOf, Within
      <4>. QED
        BY <4>1, <4>2, <4>3 DEF KeepsOf, Within
    <3>. QED
      BY <2>2, <2>4, <2>6, <3>1
  <2>. QED
    BY <2>5, <2>6
<1>. HIDE DEF P
<1>3. \A s \in Seq(I) : s \in P
  BY <1>1, <1>2, SequenceInduction
<1>. QED
  BY <1>3 DEF P

\* Only what S says of the items of s matters.
LEMMA KeptAgrees ==
    ASSUME NEW I, NEW S, NEW U
    PROVE  \A s \in Seq(I) :
              (\A p \in 1 .. Len(s) : s[p] \in S <=> s[p] \in U) => Kept(s, S) = Kept(s, U)
<1>. DEFINE P == {s \in Seq(I) :
              (\A p \in 1 .. Len(s) : s[p] \in S <=> s[p] \in U) => Kept(s, S) = Kept(s, U)}
<1>1. <<>> \in P
  BY KeptOfEmpty
<1>2. ASSUME NEW s \in Seq(I), NEW e \in I, s \in P
      PROVE  Append(s, e) \in P
  <2>1. PICK t \in Seq(I) : t = Append(s, e)
    BY AppendProperties
  <2>2. SUFFICES ASSUME \A p \in 1 .. Len(t) : t[p] \in S <=> t[p] \in U
                 PROVE  Kept(t, S) = Kept(t, U)
    BY <2>1
  <2>3. /\ Len(t) \in 1 .. Len(t) /\ t[Len(t)] = e
        /\ \A p \in 1 .. Len(s) : t[p] = s[p] /\ p \in 1 .. Len(t)
    BY <2>1
  <2>4. (e \in S <=> e \in U) /\ Kept(s, S) = Kept(s, U)
    BY <1>2, <2>2, <2>3
  <2>. QED
    BY <2>1, <2>4, KeptOfAppend
<1>. HIDE DEF P
<1>3. \A s \in Seq(I) : s \in P
  BY <1>1, <1>2, SequenceInduction
<1>. QED
  BY <1>3 DEF P

LEMMA KeptAll ==
    ASSUME NEW I, NEW S, NEW q \in Seq(I), \A p \in 1 .. Len(q) : q[p] \in S
    PROVE  Kept(q, S) = q
<1>. DEFINE P == {s \in Seq(I) : Kept(s, I) = s}
<1>1. <<>> \in P
  BY KeptOfEmpty
<1>2. ASSUME NEW s \in Seq(I), NEW e \in I, s \in P
      PROVE  Append(s, e) \in P
  BY <1>2, KeptOfAppend
<1>. HIDE DEF P
<1>3. \A s \in Seq(I) : s \in P
  BY <1>1, <1>2, SequenceInduction
<1>4. Kept(q, I) = q /\ \A p \in 1 .. Len(q) : q[p] \in I
  BY <1>3 DEF P
<1>. QED
  BY <1>4, KeptAgrees

\* What is kept twice might as well be kept once.
LEMMA KeptTwice ==
    ASSUME NEW I, NEW S, NEW U, U \subseteq S
    PROVE  \A s \in Seq(I) : Kept(Kept(s, S), U) = Kept(s, U)
<1>. DEFINE P == {s \in Seq(I) : Kept(Kept(s, S), U) = Kept(s, U)}
<1>1. <<>> \in P
  BY KeptOfEmpty
<1>2. ASSUME NEW s \in Seq(I), NEW e \in I, s \in P
      PROVE  Append(s, e) \in P
  <2>1. PICK r \in Seq(I) : r = Kept(s, S) /\ Kept(r, U) = Kept(s, U)
    BY <1>2, KeptProperties
  <2>2. Kept(Append(r, e), U) = IF e \in U THEN Append(Kept(s, U), e) ELSE Kept(s, U)
    BY <2>1, KeptOfAppend
  <2>3. Kept(Append(s, e), U) = IF e \in U THEN Append(Kept(s, U), e) ELSE Kept(s, U)
    BY KeptOfAppend
  <2>4. Kept(Append(s, e), S) = IF e \in S THEN Append(r, e) ELSE r
    BY <2>1, KeptOfAppend
  <2>5. Kept(Kept(Append(s, e), S), U) = Kept(Append(s, e), U)
    <3>1. CASE e \in S
      BY <2>2, <2>3, <2>4, <3>1
    <3>2. CASE e \notin S
      BY <2>1, <2>3, <2>4, <3>2
    <3>. QED
      BY <3>1, <3>2
  <2>6. Append(s, e) \in Seq(I)
    BY AppendProperties
  <2>. QED
    BY <2>5, <2>6
<1>. HIDE DEF P
<1>3. \A s \in Seq(I) : s \in P
  BY <1>1, <1>2, SequenceInduction
<1>. QED
  BY <1>3 DEF P

------------------------------------------------------------------------------
(* Types *)

LEMMA RemoveAtProperties ==
    ASSUME NEW I, NEW s \in Seq(I), NEW i \in 1 .. Len(s)
    PROVE  /\ RemoveAt(s, i) \in Seq(I)
           /\ Len(RemoveAt(s, i)) = Len(s) - 1
           /\ \A j \in 1 .. Len(s) - 1 : RemoveAt(s, i)[j] = IF j < i THEN s[j] ELSE s[j + 1]
<1>1. PICK a \in Seq(I), b \in Seq(I) : a = SubSeq(s, 1, i - 1) /\ b = SubSeq(s, i + 1, Len(s))
  <2>1. \A m, n \in Nat : m >= 1 /\ n <= Len(s) => SubSeq(s, m, n) \in Seq(I)
    OBVIOUS
  <2>2. SubSeq(s, 1, i - 1) \in Seq(I) /\ SubSeq(s, i + 1, Len(s)) \in Seq(I)
    BY <2>1
  <2>. QED
    BY <2>2
<1>2. /\ Len(a) = i - 1 /\ \A j \in 1 .. i - 1 : a[j] = s[j]
      /\ Len(b) = Len(s) - i /\ \A j \in 1 .. Len(s) - i : b[j] = s[i + j]
  BY <1>1
<1>3. RemoveAt(s, i) = a \o b
  BY <1>1 DEF RemoveAt
<1>4. PICK r \in Seq(I) : r = a \o b
  BY ConcatProperties
<1>5. /\ Len(r) = Len(a) + Len(b)
      /\ \A j \in 1 .. Len(r) : r[j] = IF j <= Len(a) THEN a[j] ELSE b[j - Len(a)]
  BY <1>4
<1>6. ASSUME NEW j \in 1 .. Len(s) - 1
      PROVE  r[j] = IF j < i THEN s[j] ELSE s[j + 1]
  <2>1. j \in 1 .. Len(r)
    BY <1>2, <1>5
  <2>2. CASE j < i
    <3>1. j \in 1 .. i - 1 /\ j <= Len(a)
      BY <1>2, <2>2
    <3>. QED
      BY <1>2, <1>5, <2>1, <2>2, <3>1
  <2>3. CASE j >= i
    <3>1. PICK k \in 1 .. Len(s) - i : k = j - (i - 1) /\ i + k = j + 1 /\ ~(j <= Len(a))
      BY <1>2, <2>3
    <3>2. r[j] = b[k]
      BY <1>2, <1>5, <2>1, <3>1
    <3>. QED
      BY <1>2, <2>3, <3>1, <3>2
  <2>. QED
    BY <2>2, <2>3
<1>7. r = RemoveAt(s, i) /\ Len(r) = Len(s) - 1
  BY <1>2, <1>3, <1>4, <1>5
<1>. QED
  BY <1>6, <1>7

LEMMA TrimmedProperties ==
    ASSUME NEW I, NEW s \in Seq(I)
    PROVE  /\ Trimmed(s) \in Seq(I)
           /\ Len(Trimmed(s)) <= Len(s) /\ Len(Trimmed(s)) <= MaxQueueSize
           /\ \A j \in 1 .. Len(Trimmed(s)) : Trimmed(s)[j] = s[j]
           /\ Len(s) <= MaxQueueSize => Trimmed(s) = s
<1>1. PICK n \in Nat : /\ n = IF Len(s) < MaxQueueSize THEN Len(s) ELSE MaxQueueSize
                       /\ n <= Len(s) /\ n <= MaxQueueSize
  BY BoundsAssumption
<1>2. /\ SubSeq(s, 1, n) \in Seq(I) /\ Len(SubSeq(s, 1, n)) = n
      /\ \A j \in 1 .. n : SubSeq(s, 1, n)[j] = s[j]
  BY <1>1
<1>3. Trimmed(s) = SubSeq(s, 1, n)
  BY <1>1 DEF Trimmed
<1>4. Len(s) <= MaxQueueSize => Trimmed(s) = s
  BY <1>1, <1>3, SubSeqFull, BoundsAssumption
<1>. QED
  BY <1>1, <1>2, <1>3, <1>4

\* findIndex and splice: the first item of the session, and the others stay.
LEMMA FirstOfSession ==
    ASSUME NEW q \in Seq(Item), NEW s, OfSession(q, s) # {}
    PROVE  /\ Min(OfSession(q, s)) \in OfSession(q, s)
           /\ Min(OfSession(q, s)) \in 1 .. Len(q)
           /\ \A j \in OfSession(q, s) : Min(OfSession(q, s)) <= j
<1>1. OfSession(q, s) \in SUBSET Nat /\ \A i \in OfSession(q, s) : i \in 1 .. Len(q)
  BY DEF OfSession
<1>2. \E x \in OfSession(q, s) : \A y \in OfSession(q, s) : x <= y
  BY <1>1, LeastNatural
<1>. QED
  BY <1>1, <1>2 DEF Min

LEMMA FreshAttempt ==
    ASSUME NEW m, NEW new, new = [FreeAttempt EXCEPT !.st = "sent", !.msg = m]
    PROVE  new = [st |-> "sent", msg |-> m, ws |-> "none", http |-> "none"]
BY DEF FreeAttempt

\* What the page sends is a message, and an attempt carries one unless it is free.
Carries(r) == IF r.st = "free" THEN r.ws = "none" /\ r.http = "none" ELSE r.msg \in Messages

TurnIsTyped ==
    /\ turn.phase # "none" => turn.item \in Item
    /\ turn.phase \in {"request", "token", "retry"} =>
          turn.att \in Attempts /\ attempt[turn.att].st # "free"
    /\ \A a \in Attempts : Carries(attempt[a])

\* The types of the queue, the turn and the attempts
QueueTypes ==
    /\ queue \in Seq(Item) /\ stored \in Seq(Item)
    /\ turn \in Turn /\ timer \in BOOLEAN /\ attempt \in [Attempts -> Attempt]
    /\ TurnIsTyped

\* The types of everything else
OtherTypes ==
    /\ cur \in Sessions \cup {NoSession}
    /\ loading \in [Sessions -> {"no", "key", "history"}]
    /\ online \in BOOLEAN
    /\ sentTo \in [Messages -> Sessions \cup {NoSession}]
    /\ fate \in [Messages -> {"unsent", "open", "confirmed", "refused", "expired", "lost"}]
    /\ executed \subseteq Messages
    /\ reloads \in 0 .. MaxReloads /\ failures \in 0 .. MaxFailures

TypeInv == QueueTypes /\ OtherTypes

LEMMA IdleTypes ==
    /\ IdleTurn \in Turn /\ IdleTurn.phase = "none"
    /\ FreeAttempt \in Attempt /\ FreeAttempt.st = "free"
    /\ FreeAttempt.ws = "none" /\ FreeAttempt.http = "none"
BY DEF IdleTurn, Turn, FreeAttempt, Attempt, Copy, NoItem

LEMMA InitTypes == Init => TypeInv
<1>. SUFFICES ASSUME Init PROVE TypeInv
  OBVIOUS
<1>1. queue \in Seq(Item) /\ stored \in Seq(Item) /\ executed \subseteq Messages
  BY DEF Init
<1>2. cur \in Sessions \cup {NoSession} /\ timer \in BOOLEAN /\ online \in BOOLEAN
  BY DEF Init
<1>3. loading \in [Sessions -> {"no", "key", "history"}]
  BY DEF Init
<1>4. turn \in Turn /\ TurnIsTyped /\ attempt \in [Attempts -> Attempt]
  <2>1. turn = IdleTurn /\ attempt = [a \in Attempts |-> FreeAttempt]
    BY DEF Init
  <2>2. turn.phase = "none" /\ \A a \in Attempts : Carries(attempt[a])
    BY <2>1, IdleTypes DEF Carries
  <2>3. TurnIsTyped
    BY <2>2 DEF TurnIsTyped
  <2>. QED
    BY <2>1, <2>3, IdleTypes
<1>5. /\ sentTo \in [Messages -> Sessions \cup {NoSession}]
      /\ fate \in [Messages -> {"unsent", "open", "confirmed", "refused", "expired", "lost"}]
  BY DEF Init
<1>6. reloads \in 0 .. MaxReloads /\ failures \in 0 .. MaxFailures
  BY BoundsAssumption DEF Init
<1>. QED
  BY <1>1, <1>2, <1>3, <1>4, <1>5, <1>6 DEF TypeInv, QueueTypes, OtherTypes

LEMMA SaveTypes ==
    ASSUME NEW q \in Seq(Item), Save(q)
    PROVE  queue' \in Seq(Item) /\ stored' \in Seq(Item)
BY TrimmedProperties DEF Save

LEMMA TakeTypes ==
    ASSUME TypeInv, NEW q \in Seq(Item), Queued(q), Take(q)
    PROVE  QueueTypes'
<1>1. PICK i \in 1 .. Len(q), next \in Item : i = Min(OfSession(q, cur)) /\ next = q[i]
  BY FirstOfSession DEF Queued
<1>2. Unused # {} /\ Unused \subseteq Attempts
  BY DEF Take, Unused
<1>3. PICK a \in Attempts : a = CHOOSE b \in Unused : TRUE
  BY <1>2
<1>4. /\ Save(RemoveAt(q, i)) /\ timer' = FALSE
      /\ turn' = [phase |-> "request", item |-> next, att |-> a]
      /\ attempt' = [attempt EXCEPT ![a] = [FreeAttempt EXCEPT !.st = "sent", !.msg = next.msg]]
  BY <1>1, <1>3 DEF Take, TakeOut
<1>5. queue' \in Seq(Item) /\ stored' \in Seq(Item)
  BY <1>4, RemoveAtProperties, SaveTypes
<1>6. PICK new \in Attempt : /\ new = [FreeAttempt EXCEPT !.st = "sent", !.msg = next.msg]
                             /\ new.st = "sent" /\ new.msg \in Messages
  <2>1. PICK n : n = [FreeAttempt EXCEPT !.st = "sent", !.msg = next.msg]
    OBVIOUS
  <2>2. next.msg \in Messages
    BY DEF Item
  <2>3. PICK m \in Messages : m = next.msg
    BY <2>2
  <2>4. [st |-> "sent", msg |-> m, ws |-> "none", http |-> "none"] \in Attempt
    BY DEF Attempt, Copy
  <2>5. n = [st |-> "sent", msg |-> m, ws |-> "none", http |-> "none"]
    BY <2>1, <2>3, FreshAttempt
  <2>. QED
    BY <2>1, <2>3, <2>4, <2>5
<1>7. attempt' \in [Attempts -> Attempt] /\ attempt' = [attempt EXCEPT ![a] = new]
  BY <1>4, <1>6 DEF TypeInv, QueueTypes
<1>8. turn' \in Turn /\ TurnIsTyped'
  <2>1. turn' \in Turn /\ turn'.att = a /\ turn'.item = next
    BY <1>4 DEF Turn
  <2>2. \A b \in Attempts : attempt'[b] = IF b = a THEN new ELSE attempt[b]
    BY <1>7 DEF TypeInv, QueueTypes
  <2>. QED
    BY <1>6, <2>1, <2>2 DEF TypeInv, QueueTypes, TurnIsTyped, Carries
<1>. QED
  BY <1>4, <1>5, <1>7, <1>8 DEF QueueTypes

LEMMA ProcessQueueTypes ==
    ASSUME TypeInv, NEW busy \in BOOLEAN, NEW retry \in BOOLEAN, ProcessQueue(busy, retry)
    PROVE  QueueTypes'
<1>1. CASE Blocked(queue, busy)
  <2>1. timer' = retry /\ turn' \in {turn, IdleTurn} /\ UNCHANGED <<queue, stored, attempt>>
    BY <1>1 DEF ProcessQueue
  <2>. QED
    BY <2>1, IdleTypes DEF TypeInv, QueueTypes, TurnIsTyped
<1>2. CASE ~Blocked(queue, busy)
  BY <1>2, TakeTypes DEF ProcessQueue, Blocked, TypeInv, QueueTypes
<1>. QED
  BY <1>1, <1>2

LEMMA EndTurnTypes ==
    ASSUME TypeInv, EndTurn
    PROVE  QueueTypes'
<1>1. CASE ProcessQueue(FALSE, timer)
  BY <1>1, ProcessQueueTypes DEF TypeInv, QueueTypes
<1>2. CASE turn' = IdleTurn /\ UNCHANGED <<queue, stored, timer, attempt>>
  BY <1>2, IdleTypes DEF TypeInv, QueueTypes, TurnIsTyped
<1>. QED
  BY <1>1, <1>2 DEF EndTurn

LEMMA PageTypes ==
    ASSUME TypeInv,
           \/ HistoryPolled \/ RetryTimerFires \/ HealthPolled \/ GoOffline \/ GoOnline
           \/ \E s \in Sessions : SessionStep(s)
    PROVE  TypeInv'
<1>1. QueueTypes /\ OtherTypes
  BY DEF TypeInv
<1>2. CASE HistoryPolled
  <2>1. QueueTypes'
    BY <1>2, EndTurnTypes DEF HistoryPolled
  <2>2. OtherTypes'
    BY <1>1, <1>2 DEF HistoryPolled, history, bounds, OtherTypes
  <2>. QED
    BY <2>1, <2>2 DEF TypeInv
<1>3. CASE RetryTimerFires
  <2>1. QueueTypes'
    BY <1>3, ProcessQueueTypes DEF RetryTimerFires, Sending
  <2>2. OtherTypes'
    BY <1>1, <1>3 DEF RetryTimerFires, history, bounds, OtherTypes
  <2>. QED
    BY <2>1, <2>2 DEF TypeInv
<1>4. CASE HealthPolled
  <2>1. QueueTypes'
    BY <1>4, ProcessQueueTypes DEF HealthPolled
  <2>2. OtherTypes'
    BY <1>1, <1>4 DEF HealthPolled, history, bounds, OtherTypes
  <2>. QED
    BY <2>1, <2>2 DEF TypeInv
<1>5. CASE GoOffline
  <2>1. QueueTypes'
    BY <1>1, <1>5 DEF GoOffline, QueueTypes, TurnIsTyped
  <2>2. OtherTypes'
    BY <1>1, <1>5 DEF GoOffline, history, bounds, OtherTypes
  <2>. QED
    BY <2>1, <2>2 DEF TypeInv
<1>6. CASE GoOnline
  <2>1. QueueTypes'
    <3>1. CASE Queued(queue) /\ Take(queue)
      BY <1>1, <3>1, TakeTypes DEF QueueTypes
    <3>2. CASE timer' = (timer /\ ~Queued(queue)) /\ UNCHANGED <<queue, stored, turn, attempt>>
      BY <1>1, <3>2 DEF QueueTypes, TurnIsTyped
    <3>. QED
      BY <1>6, <3>1, <3>2 DEF GoOnline
  <2>2. OtherTypes'
    BY <1>1, <1>6 DEF GoOnline, history, bounds, OtherTypes
  <2>. QED
    BY <2>1, <2>2 DEF TypeInv
<1>7. ASSUME NEW s \in Sessions, SessionStep(s)
      PROVE  TypeInv'
  <2>1. CASE SelectSession(s)
    <3>1. QueueTypes'
      BY <1>1, <2>1 DEF SelectSession, queueVars, QueueTypes, TurnIsTyped
    <3>2. OtherTypes'
      BY <1>1, <2>1 DEF SelectSession, history, bounds, OtherTypes
    <3>. QED
      BY <3>1, <3>2 DEF TypeInv
  <2>2. CASE SessionKeyStored(s)
    <3>1. QueueTypes'
      BY <1>1, <2>2 DEF SessionKeyStored, QueueTypes, TurnIsTyped
    <3>2. OtherTypes'
      BY <1>1, <2>2 DEF SessionKeyStored, history, bounds, OtherTypes
    <3>. QED
      BY <3>1, <3>2 DEF TypeInv
  <2>3. CASE HistoryLoaded(s)
    <3>1. QueueTypes'
      BY <1>1, <2>3, ProcessQueueTypes DEF HistoryLoaded, Sending, QueueTypes
    <3>2. OtherTypes'
      BY <1>1, <2>3 DEF HistoryLoaded, history, bounds, OtherTypes
    <3>. QED
      BY <3>1, <3>2 DEF TypeInv
  <2>. QED
    BY <1>7, <2>1, <2>2, <2>3 DEF SessionStep
<1>. QED
  BY <1>2, <1>3, <1>4, <1>5, <1>6, <1>7

LEMMA SendMessageTypes ==
    ASSUME TypeInv, NEW m \in Messages, SendMessage(m)
    PROVE  TypeInv'
<1>1. QueueTypes /\ OtherTypes
  BY DEF TypeInv
<1>2. cur \in Sessions
  BY <1>1 DEF SendMessage, OtherTypes
<1>3. PICK q \in Seq(Item) : q = Append(queue, [msg |-> m, session |-> cur])
  <2>1. [msg |-> m, session |-> cur] \in Item
    BY <1>2 DEF Item
  <2>. QED
    BY <1>1, <2>1, AppendProperties DEF QueueTypes
<1>4. CASE Save(q) /\ UNCHANGED <<timer, turn, attempt>>
  <2>1. QueueTypes'
    BY <1>1, <1>4, SaveTypes DEF QueueTypes, TurnIsTyped
  <2>2. OtherTypes'
    BY <1>1, <1>2 DEF SendMessage, bounds, OtherTypes
  <2>. QED
    BY <2>1, <2>2 DEF TypeInv
<1>5. CASE Queued(q) /\ Take(q)
  <2>1. QueueTypes'
    BY <1>5, TakeTypes
  <2>2. OtherTypes'
    BY <1>1, <1>2 DEF SendMessage, bounds, OtherTypes
  <2>. QED
    BY <2>1, <2>2 DEF TypeInv
<1>. QED
  BY <1>3, <1>4, <1>5 DEF SendMessage, Blocked

LEMMA ReloadTypes ==
    ASSUME TypeInv, Reload
    PROVE  TypeInv'
<1>1. QueueTypes /\ OtherTypes
  BY DEF TypeInv
<1>2. QueueTypes'
  <2>1. queue' \in Seq(Item)
    BY <1>1, KeptProperties DEF Reload, QueueTypes
  <2>. QED
    BY <1>1, <2>1, IdleTypes DEF Reload, QueueTypes, TurnIsTyped
<1>3. fate' \in [Messages -> {"unsent", "open", "confirmed", "refused", "expired", "lost"}]
  BY <1>1 DEF Reload, OtherTypes
<1>4. loading' \in [Sessions -> {"no", "key", "history"}] /\ cur' \in Sessions \cup {NoSession}
  BY DEF Reload
<1>5. reloads' \in 0 .. MaxReloads
  BY <1>1, BoundsAssumption DEF Reload, OtherTypes
<1>6. OtherTypes'
  BY <1>1, <1>3, <1>4, <1>5 DEF Reload, OtherTypes
<1>. QED
  BY <1>2, <1>6 DEF TypeInv

LEMMA AnswerTypes ==
    ASSUME TypeInv, NEW a \in Attempts, TurnStep(a)
    PROVE  TypeInv'
<1>1. QueueTypes /\ OtherTypes
  BY DEF TypeInv
<1>3. CASE Confirmed(a)
  <2>1. turn.phase # "none"
    BY <1>3 DEF Confirmed, Awaits
  <2>2. turn' \in Turn /\ TurnIsTyped'
    BY <1>1, <1>3, <2>1 DEF Confirmed, QueueTypes, Turn, TurnIsTyped
  <2>3. QueueTypes'
    BY <1>1, <1>3, <2>2 DEF Confirmed, QueueTypes
  <2>4. OtherTypes'
    BY <1>1, <1>3 DEF Confirmed, bounds, OtherTypes
  <2>. QED
    BY <2>3, <2>4 DEF TypeInv
<1>4. CASE Forbidden(a)
  <2>1. turn' \in Turn /\ TurnIsTyped'
    BY <1>1, <1>4 DEF Forbidden, QueueTypes, Turn, TurnIsTyped
  <2>2. QueueTypes'
    BY <1>1, <1>4, <2>1 DEF Forbidden, QueueTypes
  <2>3. OtherTypes'
    BY <1>1, <1>4 DEF Forbidden, history, bounds, OtherTypes
  <2>. QED
    BY <2>2, <2>3 DEF TypeInv
<1>5. CASE TokenFetched(a)
  <2>1. turn' \in Turn /\ turn'.item = turn.item /\ turn'.att = a /\ turn.phase = "token" /\ turn.att = a
    BY <1>1, <1>5 DEF TokenFetched, QueueTypes, Turn
  <2>2. attempt' \in [Attempts -> Attempt]
    BY <1>1, <1>5 DEF TokenFetched, QueueTypes, Attempt
  <2>3. /\ \A b \in Attempts : b # a => attempt'[b] = attempt[b]
        /\ attempt'[a].st = "sent" /\ attempt'[a].msg = attempt[a].msg
    BY <1>1, <1>5 DEF TokenFetched, QueueTypes, Attempt
  <2>4. TurnIsTyped'
    BY <1>1, <2>1, <2>3 DEF QueueTypes, TurnIsTyped, Carries
  <2>5. QueueTypes'
    BY <1>1, <1>5, <2>1, <2>2, <2>4 DEF TokenFetched, QueueTypes
  <2>6. OtherTypes'
    BY <1>1, <1>5 DEF TokenFetched, history, bounds, OtherTypes
  <2>. QED
    BY <2>5, <2>6 DEF TypeInv
<1>6. CASE Refused(a)
  <2>1. QueueTypes'
    BY <1>6, EndTurnTypes DEF Refused
  <2>2. OtherTypes'
    BY <1>1, <1>6 DEF Refused, bounds, OtherTypes
  <2>. QED
    BY <2>1, <2>2 DEF TypeInv
<1>7. CASE SendFailed(a)
  <2>1. PICK q \in Seq(Item) : q = PutBack
    <3>1. turn.item \in Item
      BY <1>1, <1>7 DEF SendFailed, Awaits, QueueTypes, TurnIsTyped
    <3>2. <<turn.item>> \in Seq(Item)
      BY <3>1
    <3>. QED
      BY <1>1, <3>2, ConcatProperties DEF PutBack, QueueTypes
  <2>2. Save(q) /\ ScheduleRetry(q) /\ turn' = IdleTurn /\ UNCHANGED attempt
    BY <1>7, <2>1 DEF SendFailed
  <2>3. QueueTypes'
    BY <1>1, <2>2, SaveTypes, IdleTypes DEF ScheduleRetry, QueueTypes, TurnIsTyped
  <2>4. failures' \in 0 .. MaxFailures
    BY <1>1, <1>7, BoundsAssumption DEF SendFailed, Fail, OtherTypes
  <2>5. OtherTypes'
    BY <1>1, <1>7, <2>4 DEF SendFailed, history, OtherTypes
  <2>. QED
    BY <2>3, <2>5 DEF TypeInv
<1>. QED
  BY <1>3, <1>4, <1>5, <1>6, <1>7 DEF TurnStep

\* Of the attempts only a changes.
Only(a) == \A b \in Attempts : b # a => attempt'[b] = attempt[b]

LEMMA ServerTypes ==
    ASSUME TypeInv, NEW a \in Attempts, ServerStep(a)
    PROVE  TypeInv'
<1>1. QueueTypes /\ OtherTypes
  BY DEF TypeInv
<1>2. UNCHANGED <<queue, stored, timer, turn, cur, loading, online, sentTo, fate, reloads>>
  BY DEF ServerStep
<1>3. /\ executed \subseteq Messages /\ failures \in 0 .. MaxFailures /\ attempt[a] \in Attempt
      /\ Carries(attempt[a])
  BY <1>1 DEF QueueTypes, OtherTypes, TurnIsTyped
<1>4. ASSUME attempt' \in [Attempts -> Attempt],
             Only(a),
             Carries(attempt'[a]), attempt'[a].st = "free" => turn.att # a,
             executed' \subseteq Messages, failures' \in 0 .. MaxFailures
      PROVE  TypeInv'
  <2>1. TurnIsTyped'
    <3>1. turn' = turn
      BY <1>2
    <3>2. ASSUME turn.phase \in {"request", "token", "retry"}
          PROVE  turn.att \in Attempts /\ attempt'[turn.att].st # "free"
      BY <1>1, <1>4, <3>2 DEF QueueTypes, TurnIsTyped, Only
    <3>3. ASSUME NEW b \in Attempts
          PROVE  Carries(attempt'[b])
      <4>1. CASE b = a
        BY <1>4, <4>1
      <4>2. CASE b # a
        <5>1. attempt'[b] = attempt[b]
          BY <1>4, <4>2 DEF Only
        <5>2. Carries(attempt[b])
          BY <1>1 DEF QueueTypes, TurnIsTyped
        <5>. QED
          BY <5>1, <5>2
      <4>. QED
        BY <4>1, <4>2
    <3>. QED
      BY <1>1, <3>1, <3>2, <3>3 DEF QueueTypes, TurnIsTyped
  <2>2. QueueTypes'
    BY <1>1, <1>2, <1>4, <2>1 DEF QueueTypes
  <2>3. OtherTypes'
    BY <1>1, <1>2, <1>4 DEF OtherTypes
  <2>. QED
    BY <2>2, <2>3 DEF TypeInv
<1>5. Fail => failures' \in 0 .. MaxFailures
  BY <1>3, BoundsAssumption DEF Fail
<1>6. ASSUME NEW way \in {"ws", "http"}, Try(a, way), attempt[a].st # "free",
             UNCHANGED executed, failures' \in 0 .. MaxFailures
      PROVE  TypeInv'
  <2>1. attempt' \in [Attempts -> Attempt]
    BY <1>1, <1>6 DEF Try, QueueTypes, Attempt, Copy
  <2>2. /\ Only(a)
        /\ attempt'[a].st = way /\ attempt'[a].msg = attempt[a].msg
    BY <1>1, <1>6 DEF Try, QueueTypes, Attempt, Only
  <2>3. Carries(attempt'[a]) /\ attempt'[a].st # "free" /\ executed' \subseteq Messages
    BY <1>3, <1>6, <2>2 DEF Carries
  <2>. QED
    BY <1>4, <1>6, <2>1, <2>2, <2>3
<1>7. ASSUME NEW st \in {"ok", "error", "refused"}, attempt' = [attempt EXCEPT ![a].st = st],
             attempt[a].st # "free", UNCHANGED executed, failures' \in 0 .. MaxFailures
      PROVE  TypeInv'
  <2>1. attempt' \in [Attempts -> Attempt]
    BY <1>1, <1>7 DEF QueueTypes, Attempt
  <2>2. /\ Only(a)
        /\ attempt'[a].st = st /\ attempt'[a].msg = attempt[a].msg
    BY <1>1, <1>7 DEF QueueTypes, Attempt, Only
  <2>3. Carries(attempt'[a]) /\ attempt'[a].st # "free" /\ executed' \subseteq Messages
    BY <1>3, <1>7, <2>2 DEF Carries
  <2>. QED
    BY <1>4, <1>7, <2>1, <2>2, <2>3
<1>8. CASE Arrives(a) \/ WsFails(a)
  BY <1>3, <1>5, <1>6, <1>8 DEF Arrives, WsFails
<1>9. CASE TurnedDown(a) \/ HttpFails(a) \/ Answered(a)
  BY <1>3, <1>5, <1>7, <1>9 DEF TurnedDown, HttpFails, Answered
<1>10. CASE Over(a)
  <2>1. attempt' \in [Attempts -> Attempt]
    BY <1>1, <1>10, IdleTypes DEF Over, QueueTypes
  <2>2. Only(a) /\ attempt'[a] = FreeAttempt
    BY <1>1, <1>10 DEF Over, QueueTypes, Only
  <2>3. Carries(attempt'[a]) /\ turn.att # a
    BY <1>10, <2>2, IdleTypes DEF Over, Carries
  <2>. QED
    BY <1>3, <1>4, <1>10, <2>1, <2>2, <2>3 DEF Over
<1>11. CASE GatewayReceives(a)
  <2>1. attempt' \in [Attempts -> Attempt]
    BY <1>1, <1>11 DEF GatewayReceives, QueueTypes, Attempt, Copy
  <2>2. /\ Only(a)
        /\ attempt'[a].st = attempt[a].st /\ attempt'[a].msg = attempt[a].msg
    BY <1>1, <1>11 DEF GatewayReceives, QueueTypes, Attempt, Only
  <2>3. "pending" \in {attempt[a].ws, attempt[a].http}
    BY <1>11 DEF GatewayReceives
  <2>4. attempt[a].st # "free" /\ attempt[a].msg \in Messages
    BY <1>3, <2>3 DEF Carries
  <2>5. /\ Carries(attempt'[a]) /\ attempt'[a].st # "free"
        /\ executed' \subseteq Messages /\ failures' \in 0 .. MaxFailures
    BY <1>3, <1>11, <2>2, <2>4 DEF GatewayReceives, Carries
  <2>. QED
    BY <1>4, <2>1, <2>2, <2>5
<1>. QED
  BY <1>8, <1>9, <1>10, <1>11 DEF ServerStep, Progress, Failure

LEMMA NextTypes == TypeInv /\ [Next]_vars => TypeInv'
<1>. SUFFICES ASSUME TypeInv, [Next]_vars PROVE TypeInv'
  OBVIOUS
<1>1. CASE UNCHANGED vars
  BY <1>1 DEF vars, queueVars, history, bounds, TypeInv, QueueTypes, OtherTypes, TurnIsTyped
<1>. QED
  BY <1>1, PageTypes, SendMessageTypes, ReloadTypes, AnswerTypes, ServerTypes DEF Next

------------------------------------------------------------------------------
(* What the queue and the message in flight have to be *)

\* Every message of q is there once, and those of a session in the order in
\* which they were sent.
Sorted(q) ==
    \A i, j \in 1 .. Len(q) : i < j =>
        q[i].msg # q[j].msg /\ (q[i].session = q[j].session => q[i].msg < q[j].msg)

Opens(q, f) == \A i \in 1 .. Len(q) : f[q[i].msg] = "open"

\* Item x is not in q and comes before the items of its session there.
Precedes(x, q) ==
    \A i \in 1 .. Len(q) :
        q[i].msg # x.msg /\ (q[i].session = x.session => x.msg < q[i].msg)

\* With the fates f, queue q and the items in flight are what has to be there.
QueueOK(q, flying, f) ==
    /\ Sorted(q) /\ Opens(q, f)
    /\ \A x \in flying : f[x.msg] = "open" /\ Precedes(x, q)
    /\ \A m \in Messages : f[m] = "open" =>
          (\E i \in 1 .. Len(q) : q[i].msg = m) \/ (\E x \in flying : x.msg = m)

Addressed(q, to) == \A i \in 1 .. Len(q) : q[i].session = to[q[i].msg]

LEMMA WithinKeeps ==
    ASSUME NEW q \in Seq(Item), NEW r \in Seq(Item), Within(r, q), NEW f, NEW to
    PROVE  /\ Sorted(q) => Sorted(r)
           /\ Opens(q, f) => Opens(r, f)
           /\ Addressed(q, to) => Addressed(r, to)
<1>1. Sorted(q) => Sorted(r)
  <2>. SUFFICES ASSUME Sorted(q), NEW i \in 1 .. Len(r), NEW j \in 1 .. Len(r), i < j
                PROVE  r[i].msg # r[j].msg /\ (r[i].session = r[j].session => r[i].msg < r[j].msg)
    BY DEF Sorted
  <2>1. PICK k \in 1 .. Len(q), l \in 1 .. Len(q) : k < l /\ q[k] = r[i] /\ q[l] = r[j]
    BY DEF Within
  <2>2. q[k].msg # q[l].msg /\ (q[k].session = q[l].session => q[k].msg < q[l].msg)
    BY <2>1 DEF Sorted
  <2>. QED
    BY <2>1, <2>2
<1>2. Opens(q, f) => Opens(r, f)
  BY DEF Opens, Within
<1>3. Addressed(q, to) => Addressed(r, to)
  BY DEF Addressed, Within
<1>. QED
  BY <1>1, <1>2, <1>3

LEMMA ItemFields ==
    /\ \A x \in Item : x.msg \in Messages /\ x.session \in Sessions
    /\ \A q \in Seq(Item) : \A i \in 1 .. Len(q) :
          q[i] \in Item /\ q[i].msg \in Messages /\ q[i].session \in Sessions
<1>1. \A x \in Item : x.msg \in Messages /\ x.session \in Sessions
  BY DEF Item
<1>2. \A q \in Seq(Item) : \A i \in 1 .. Len(q) : q[i] \in Item
  OBVIOUS
<1>. QED
  BY <1>1, <1>2

\* What is left when the item at i is taken out
Without(r, q, i) ==
    /\ r \in Seq(Item) /\ Within(r, q)
    /\ \A j \in 1 .. Len(r) : \E k \in 1 .. Len(q) : k # i /\ r[j] = q[k]
    /\ \A k \in 1 .. Len(q) : k # i => \E j \in 1 .. Len(r) : r[j] = q[k]

LEMMA RemoveAtKeeps ==
    ASSUME NEW q \in Seq(Item), NEW i \in 1 .. Len(q), NEW r, r = RemoveAt(q, i)
    PROVE  Without(r, q, i)
<1>1. /\ r \in Seq(Item) /\ Len(r) = Len(q) - 1
      /\ \A j \in 1 .. Len(r) : r[j] = IF j < i THEN q[j] ELSE q[j + 1]
  BY RemoveAtProperties
<1>2. ASSUME NEW j \in 1 .. Len(r)
      PROVE  \E k \in 1 .. Len(q) : /\ k # i /\ r[j] = q[k]
                                    /\ k = IF j < i THEN j ELSE j + 1
  <2>1. CASE j < i
    BY <1>1, <2>1
  <2>2. CASE ~(j < i)
    BY <1>1, <2>2
  <2>. QED
    BY <2>1, <2>2
<1>3. ASSUME NEW j \in 1 .. Len(r), NEW l \in 1 .. Len(r), j < l
      PROVE  \E k, m \in 1 .. Len(q) : k < m /\ q[k] = r[j] /\ q[m] = r[l]
  <2>1. PICK k \in 1 .. Len(q) : r[j] = q[k] /\ k = IF j < i THEN j ELSE j + 1
    BY <1>2
  <2>2. PICK m \in 1 .. Len(q) : r[l] = q[m] /\ m = IF l < i THEN l ELSE l + 1
    BY <1>2
  <2>3. k < m
    BY <1>3, <2>1, <2>2
  <2>. QED
    BY <2>1, <2>2, <2>3
<1>4. ASSUME NEW k \in 1 .. Len(q), k # i
      PROVE  \E j \in 1 .. Len(r) : r[j] = q[k]
  <2>1. CASE k < i
    BY <1>1, <2>1
  <2>2. CASE k > i
    <3>1. k - 1 \in 1 .. Len(r) /\ ~(k - 1 < i) /\ (k - 1) + 1 = k
      BY <1>1, <2>2
    <3>. QED
      BY <1>1, <3>1
  <2>. QED
    BY <1>4, <2>1, <2>2
<1>5. Within(r, q)
  BY <1>2, <1>3 DEF Within
<1>. QED
  BY <1>1, <1>2, <1>4, <1>5 DEF Without

\* The first message of session s is taken.
LEMMA FirstTaken ==
    ASSUME NEW q \in Seq(Item), NEW s \in Sessions, OfSession(q, s) # {}, NEW f,
           QueueOK(q, {}, f), NEW i, i = Min(OfSession(q, s))
    PROVE  /\ i \in 1 .. Len(q) /\ q[i].session = s
           /\ QueueOK(RemoveAt(q, i), {q[i]}, f)
<1>1. /\ i \in 1 .. Len(q) /\ q[i].session = s
      /\ \A j \in 1 .. Len(q) : q[j].session = s => i <= j
  <2>1. \A j : j \in OfSession(q, s) <=> j \in 1 .. Len(q) /\ q[j].session = s
    BY NullAssumption DEF OfSession
  <2>. QED
    BY <2>1, FirstOfSession
<1>2. PICK r : r = RemoveAt(q, i)
  OBVIOUS
<1>3. /\ r \in Seq(Item) /\ Within(r, q)
      /\ \A j \in 1 .. Len(r) : \E k \in 1 .. Len(q) : k # i /\ r[j] = q[k]
      /\ \A k \in 1 .. Len(q) : k # i => \E j \in 1 .. Len(r) : r[j] = q[k]
  <2>1. Without(r, q, i)
    BY <1>1, <1>2, RemoveAtKeeps
  <2>. QED
    BY <2>1 DEF Without
<1>4. Sorted(r) /\ Opens(r, f)
  BY <1>3, WithinKeeps DEF QueueOK
<1>5. f[q[i].msg] = "open"
  BY <1>1 DEF QueueOK, Opens
<1>6. Precedes(q[i], r)
  <2>. SUFFICES ASSUME NEW j \in 1 .. Len(r)
                PROVE  r[j].msg # q[i].msg /\ (r[j].session = q[i].session => q[i].msg < r[j].msg)
    BY DEF Precedes
  <2>1. PICK k \in 1 .. Len(q) : k # i /\ r[j] = q[k]
    BY <1>3
  <2>2. CASE k < i
    BY <1>1, <2>1, <2>2 DEF QueueOK, Sorted
  <2>3. CASE i < k
    BY <1>1, <2>1, <2>3 DEF QueueOK, Sorted
  <2>. QED
    BY <1>1, <2>1, <2>2, <2>3
<1>7. ASSUME NEW m \in Messages, f[m] = "open"
      PROVE  (\E j \in 1 .. Len(r) : r[j].msg = m) \/ q[i].msg = m
  <2>1. PICK k \in 1 .. Len(q) : q[k].msg = m
    BY <1>7 DEF QueueOK
  <2>2. CASE k = i
    BY <2>1, <2>2
  <2>3. CASE k # i
    <3>1. \E j \in 1 .. Len(r) : r[j] = q[k]
      BY <1>3, <2>3
    <3>. QED
      BY <2>1, <3>1
  <2>. QED
    BY <2>2, <2>3
<1>8. QueueOK(r, {q[i]}, f)
  BY <1>4, <1>5, <1>6, <1>7 DEF QueueOK
<1>. QED
  BY <1>1, <1>2, <1>8

\* Message m comes after all that are open.
Latest(m, f) == \A l \in Messages : f[l] = "open" => l < m

\* A message is sent: it comes after all others.
LEMMA Appended ==
    ASSUME NEW q \in Seq(Item), NEW flying, NEW f, QueueOK(q, flying, f),
           NEW m \in Messages, NEW s \in Sessions,
           NEW F, f \in [Messages -> F], Latest(m, f), flying \subseteq Item
    PROVE  QueueOK(Append(q, [msg |-> m, session |-> s]), flying, [f EXCEPT ![m] = "open"])
<1>. DEFINE e == [msg |-> m, session |-> s]
<1>1. e \in Item /\ e.msg = m
  BY DEF Item
<1>. HIDE DEF e
<1>2. PICK r \in Seq(Item) : r = Append(q, e)
  BY <1>1, AppendProperties
<1>3. /\ Len(r) = Len(q) + 1 /\ r[Len(r)] = e /\ Len(r) \in 1 .. Len(r)
      /\ \A i \in 1 .. Len(q) : r[i] = q[i] /\ i \in 1 .. Len(r)
      /\ \A i \in 1 .. Len(r) : i = Len(r) \/ i \in 1 .. Len(q)
  BY <1>2
<1>4. PICK g : g = [f EXCEPT ![m] = "open"]
  OBVIOUS
<1>5. g[m] = "open" /\ \A l \in Messages : l # m => g[l] = f[l]
  BY <1>4
<1>6. \A i \in 1 .. Len(q) : q[i].msg \in Messages /\ f[q[i].msg] = "open" /\ q[i].msg < m
  <2>1. Opens(q, f)
    BY DEF QueueOK
  <2>. QED
    BY <2>1, ItemFields DEF Opens, Latest
<1>7. Sorted(r)
  <2>. SUFFICES ASSUME NEW i \in 1 .. Len(r), NEW j \in 1 .. Len(r), i < j
                PROVE  r[i].msg # r[j].msg /\ (r[i].session = r[j].session => r[i].msg < r[j].msg)
    BY DEF Sorted
  <2>1. i \in 1 .. Len(q) /\ r[i] = q[i]
    BY <1>3
  <2>2. CASE j = Len(r)
    <3>1. q[i].msg < m /\ m \in Nat /\ q[i].msg \in Nat /\ r[j].msg = m
      BY <1>1, <1>3, <1>6, <2>1, <2>2, BoundsAssumption DEF Messages
    <3>. QED
      BY <2>1, <3>1
  <2>3. CASE j \in 1 .. Len(q)
    BY <1>3, <2>1, <2>3 DEF QueueOK, Sorted
  <2>. QED
    BY <1>3, <2>2, <2>3
<1>8. Opens(r, g)
  <2>. SUFFICES ASSUME NEW i \in 1 .. Len(r) PROVE g[r[i].msg] = "open"
    BY DEF Opens
  <2>1. CASE i = Len(r)
    BY <1>1, <1>3, <1>5, <2>1
  <2>2. CASE i \in 1 .. Len(q)
    BY <1>3, <1>5, <1>6, <2>2
  <2>. QED
    BY <1>3, <2>1, <2>2
<1>9. ASSUME NEW x \in flying
      PROVE  g[x.msg] = "open" /\ Precedes(x, r)
  <2>1. x.msg \in Messages /\ f[x.msg] = "open" /\ x.msg < m /\ Precedes(x, q)
    BY ItemFields DEF QueueOK, Latest
  <2>2. g[x.msg] = "open"
    BY <1>5, <2>1
  <2>. SUFFICES ASSUME NEW i \in 1 .. Len(r)
                PROVE  r[i].msg # x.msg /\ (r[i].session = x.session => x.msg < r[i].msg)
    BY <2>2 DEF Precedes
  <2>3. CASE i = Len(r)
    <3>1. r[i].msg = m /\ m \in Nat /\ x.msg \in Nat
      BY <1>1, <1>3, <2>1, <2>3, BoundsAssumption DEF Messages
    <3>. QED
      BY <2>1, <3>1
  <2>4. CASE i \in 1 .. Len(q)
    BY <1>3, <2>1, <2>4 DEF Precedes
  <2>. QED
    BY <1>3, <2>3, <2>4
<1>10. ASSUME NEW l \in Messages, g[l] = "open"
       PROVE  (\E i \in 1 .. Len(r) : r[i].msg = l) \/ (\E x \in flying : x.msg = l)
  <2>1. CASE l = m
    BY <1>1, <1>3, <2>1
  <2>2. CASE l # m
    <3>1. (\E i \in 1 .. Len(q) : q[i].msg = l) \/ (\E x \in flying : x.msg = l)
      BY <1>5, <1>10, <2>2 DEF QueueOK
    <3>. QED
      BY <1>3, <3>1
  <2>. QED
    BY <2>1, <2>2
<1>11. QueueOK(r, flying, g)
  BY <1>7, <1>8, <1>9, <1>10 DEF QueueOK
<1>. QED
  BY <1>2, <1>4, <1>11 DEF e

\* The message in flight goes back to the front.
LEMMA PutBackKeeps ==
    ASSUME NEW q \in Seq(Item), NEW x \in Item, NEW f, QueueOK(q, {x}, f)
    PROVE  /\ <<x>> \o q \in Seq(Item)
           /\ QueueOK(<<x>> \o q, {}, f)
           /\ \A to : Addressed(q, to) /\ x.session = to[x.msg] => Addressed(<<x>> \o q, to)
<1>1. PICK r \in Seq(Item) : r = <<x>> \o q
  <2>1. <<x>> \in Seq(Item)
    OBVIOUS
  <2>. QED
    BY <2>1, ConcatProperties
<1>2. /\ Len(r) = Len(q) + 1 /\ r[1] = x /\ 1 \in 1 .. Len(r)
      /\ \A i \in 1 .. Len(q) : r[i + 1] = q[i] /\ i + 1 \in 1 .. Len(r)
      /\ \A i \in 1 .. Len(r) : i = 1 \/ \E j \in 1 .. Len(q) : i = j + 1 /\ r[i] = q[j]
  <2>1. /\ Len(r) = Len(q) + 1 /\ r[1] = x /\ 1 \in 1 .. Len(r)
        /\ \A i \in 1 .. Len(q) : r[i + 1] = q[i] /\ i + 1 \in 1 .. Len(r)
    BY <1>1
  <2>2. ASSUME NEW i \in 1 .. Len(r), i # 1
        PROVE  \E j \in 1 .. Len(q) : i = j + 1 /\ r[i] = q[j]
    <3>1. i - 1 \in 1 .. Len(q) /\ i = (i - 1) + 1
      BY <2>1, <2>2
    <3>. QED
      BY <2>1, <3>1
  <2>. QED
    BY <2>1, <2>2
<1>3. Sorted(q) /\ Opens(q, f) /\ f[x.msg] = "open" /\ Precedes(x, q)
  BY DEF QueueOK
<1>4. Sorted(r)
  <2>. SUFFICES ASSUME NEW i \in 1 .. Len(r), NEW j \in 1 .. Len(r), i < j
                PROVE  r[i].msg # r[j].msg /\ (r[i].session = r[j].session => r[i].msg < r[j].msg)
    BY DEF Sorted
  <2>1. PICK l \in 1 .. Len(q) : j = l + 1 /\ r[j] = q[l]
    <3>1. j # 1
      OBVIOUS
    <3>. QED
      BY <1>2, <3>1
  <2>2. CASE i = 1
    BY <1>2, <1>3, <2>1, <2>2 DEF Precedes
  <2>3. CASE i # 1
    <3>1. PICK k \in 1 .. Len(q) : i = k + 1 /\ r[i] = q[k]
      BY <1>2, <2>3
    <3>. QED
      BY <1>3, <2>1, <3>1 DEF Sorted
  <2>. QED
    BY <2>2, <2>3
<1>5. Opens(r, f)
  <2>. SUFFICES ASSUME NEW i \in 1 .. Len(r) PROVE f[r[i].msg] = "open"
    BY DEF Opens
  <2>1. CASE i = 1
    BY <1>2, <1>3, <2>1
  <2>2. CASE i # 1
    <3>1. PICK j \in 1 .. Len(q) : r[i] = q[j]
      BY <1>2, <2>2
    <3>. QED
      BY <1>3, <3>1 DEF Opens
  <2>. QED
    BY <2>1, <2>2
<1>6. ASSUME NEW m \in Messages, f[m] = "open"
      PROVE  \E i \in 1 .. Len(r) : r[i].msg = m
  <2>1. (\E i \in 1 .. Len(q) : q[i].msg = m) \/ x.msg = m
    BY <1>6 DEF QueueOK
  <2>. QED
    BY <1>2, <2>1
<1>7. QueueOK(r, {}, f)
  BY <1>4, <1>5, <1>6 DEF QueueOK
<1>8. ASSUME NEW to, Addressed(q, to), x.session = to[x.msg]
      PROVE  Addressed(r, to)
  BY <1>2, <1>8 DEF Addressed
<1>. QED
  BY <1>1, <1>7, <1>8

\* The message in flight is done with.
LEMMA Concluded ==
    ASSUME NEW q \in Seq(Item), NEW x \in Item, NEW f, QueueOK(q, {x}, f),
           NEW F, f \in [Messages -> F], NEW v, v # "open"
    PROVE  QueueOK(q, {}, [f EXCEPT ![x.msg] = v])
<1>1. PICK g : g = [f EXCEPT ![x.msg] = v]
  OBVIOUS
<1>2. x.msg \in Messages /\ \A i \in 1 .. Len(q) : q[i].msg \in Messages
  BY ItemFields
<1>3. g[x.msg] = v /\ \A l \in Messages : l # x.msg => g[l] = f[l]
  BY <1>1, <1>2
<1>4. Sorted(q) /\ Opens(q, f) /\ Precedes(x, q)
  BY DEF QueueOK
<1>5. Opens(q, g)
  BY <1>2, <1>3, <1>4 DEF Opens, Precedes
<1>6. ASSUME NEW m \in Messages, g[m] = "open"
      PROVE  \E i \in 1 .. Len(q) : q[i].msg = m
  <2>1. m # x.msg /\ f[m] = "open"
    BY <1>3, <1>6
  <2>. QED
    BY <2>1 DEF QueueOK
<1>7. QueueOK(q, {}, g)
  BY <1>4, <1>5, <1>6 DEF QueueOK
<1>. QED
  BY <1>1, <1>7

------------------------------------------------------------------------------
(* The queue, the turn and the storage *)

InFlight == IF turn.phase \in {"none", "poll"} THEN {} ELSE {turn.item}

\* What is stored is the front of the queue, apart from what a reload found too old.
StoredOK ==
    /\ StoredIsQueue
    /\ Addressed(stored, sentTo) /\ Len(stored) <= MaxQueueSize

TurnAddressed == turn.phase # "none" => turn.item.session = sentTo[turn.item.msg]

\* Messages are sent in their order, and those sent have a fate.
SentInOrder ==
    \A m \in Messages :
        /\ sentTo[m] = NoSession <=> fate[m] = "unsent"
        /\ sentTo[m] # NoSession => \A l \in 1 .. m - 1 : sentTo[l] # NoSession

QueueInv ==
    /\ QueueOK(queue, InFlight, fate) /\ Addressed(queue, sentTo)
    /\ TurnAddressed /\ StoredOK /\ SentInOrder

LEMMA InitQueue == Init => QueueInv
<1>. SUFFICES ASSUME Init PROVE QueueInv
  OBVIOUS
<1>1. queue = <<>> /\ stored = <<>> /\ <<>> \in Seq(Item) /\ Len(<<>>) = 0
  BY DEF Init
<1>2. turn.phase = "none" /\ InFlight = {}
  BY IdleTypes DEF Init, InFlight
<1>3. \A m \in Messages : sentTo[m] = NoSession /\ fate[m] = "unsent"
  BY DEF Init
<1>4. QueueOK(queue, InFlight, fate)
  <2>1. Len(queue) = 0 /\ \A i \in 1 .. Len(queue) : FALSE
    BY <1>1
  <2>2. Sorted(queue) /\ Opens(queue, fate)
    BY <2>1 DEF Sorted, Opens
  <2>. QED
    BY <1>2, <1>3, <2>2 DEF QueueOK
<1>5. StoredOK
  <2>1. Trimmed(<<>>) = <<>>
    <3>1. PICK e \in Seq(Item) : e = <<>>
      BY <1>1
    <3>2. Len(e) <= MaxQueueSize
      BY <1>1, <3>1, BoundsAssumption
    <3>. QED
      BY <3>1, <3>2, TrimmedProperties
  <2>. QED
    BY <1>1, <2>1, KeptOfEmpty, BoundsAssumption DEF StoredOK, StoredIsQueue, Addressed
<1>6. SentInOrder /\ TurnAddressed /\ Addressed(queue, sentTo)
  BY <1>1, <1>2, <1>3 DEF SentInOrder, TurnAddressed, Addressed
<1>. QED
  BY <1>4, <1>5, <1>6 DEF QueueInv

\* What is saved is open, so it is what a reload would bring back.
LEMMA Saved ==
    ASSUME NEW q \in Seq(Item), Save(q), Opens(q, fate'), Addressed(q, sentTo')
    PROVE  StoredOK'
<1>1. PICK t \in Seq(Item) : /\ t = Trimmed(q) /\ Len(t) <= Len(q) /\ Len(t) <= MaxQueueSize
                             /\ \A j \in 1 .. Len(t) : t[j] = q[j]
  BY TrimmedProperties
<1>2. stored' = t /\ queue' = q
  BY <1>1 DEF Save
<1>3. \A j \in 1 .. Len(t) : j \in 1 .. Len(q)
  BY <1>1
<1>4. \A j \in 1 .. Len(t) : t[j] \in Unexpired'
  <2>1. ASSUME NEW j \in 1 .. Len(t) PROVE t[j] \in Item /\ fate'[t[j].msg] = "open"
    BY <1>1, <1>3, ItemFields DEF Opens
  <2>. QED
    BY <2>1 DEF Unexpired
<1>5. Kept(t, Unexpired') = t
  BY <1>4, KeptAll
<1>6. Addressed(t, sentTo')
  BY <1>1, <1>3 DEF Addressed
<1>. QED
  BY <1>1, <1>2, <1>5, <1>6 DEF StoredOK, StoredIsQueue

\* Nothing is stored anew, and nothing becomes too old or fresh again.
LEMMA StoredStays ==
    ASSUME StoredOK, UNCHANGED <<queue, stored>>, Unexpired' = Unexpired,
           Addressed(stored, sentTo')
    PROVE  StoredOK'
BY DEF StoredOK, StoredIsQueue

\* processQueue takes a message of a queue that is as it has to be.
LEMMA TakeQueue ==
    ASSUME NEW q \in Seq(Item), cur \in Sessions, Queued(q), Take(q),
           QueueOK(q, {}, fate'), Addressed(q, sentTo')
    PROVE  /\ QueueOK(queue', InFlight', fate') /\ Addressed(queue', sentTo')
           /\ TurnAddressed' /\ StoredOK'
<1>1. PICK i : i = Min(OfSession(q, cur))
  OBVIOUS
<1>2. i \in 1 .. Len(q) /\ QueueOK(RemoveAt(q, i), {q[i]}, fate')
  BY <1>1, FirstTaken DEF Queued
<1>3. PICK r : r = RemoveAt(q, i) /\ r \in Seq(Item) /\ Within(r, q)
  BY <1>2, RemoveAtKeeps DEF Without
<1>4. Save(r) /\ turn'.phase = "request" /\ turn'.item = q[i]
  BY <1>1, <1>3 DEF Take, TakeOut
<1>5. Opens(r, fate') /\ Addressed(r, sentTo')
  BY <1>2, <1>3, WithinKeeps DEF QueueOK
<1>6. StoredOK'
  BY <1>3, <1>4, <1>5, Saved
<1>7. queue' = r /\ InFlight' = {q[i]}
  BY <1>4 DEF Save, InFlight
<1>8. TurnAddressed'
  BY <1>2, <1>4 DEF TurnAddressed, Addressed
<1>. QED
  BY <1>2, <1>3, <1>5, <1>6, <1>7, <1>8

\* processQueue, called when the queue is as it has to be: with the turn going on
\* (busy), or with nothing in flight
LEMMA Processed ==
    ASSUME TypeInv, NEW busy, NEW retry, ProcessQueue(busy, retry),
           QueueOK(queue, IF busy THEN InFlight ELSE {}, fate'),
           Addressed(queue, sentTo), TurnAddressed, UNCHANGED sentTo,
           StoredOK, Unexpired' = Unexpired
    PROVE  /\ QueueOK(queue', InFlight', fate') /\ Addressed(queue', sentTo')
           /\ TurnAddressed' /\ StoredOK'
<1>1. CASE Blocked(queue, busy)
  <2>1. turn' = (IF busy THEN turn ELSE IdleTurn) /\ UNCHANGED <<queue, stored>>
    BY <1>1 DEF ProcessQueue
  <2>2. InFlight' = (IF busy THEN InFlight ELSE {}) /\ TurnAddressed'
    BY <2>1, IdleTypes DEF InFlight, TurnAddressed
  <2>3. StoredOK'
    BY <2>1, StoredStays DEF StoredOK
  <2>. QED
    BY <2>1, <2>2, <2>3
<1>2. CASE ~Blocked(queue, busy)
  <2>1. Take(queue) /\ ~busy /\ Queued(queue) /\ cur \in Sessions /\ queue \in Seq(Item)
    BY <1>2 DEF ProcessQueue, Blocked, TypeInv, QueueTypes, OtherTypes
  <2>. QED
    BY <2>1, TakeQueue
<1>. QED
  BY <1>1, <1>2

LEMMA TurnEnded ==
    ASSUME TypeInv, EndTurn, QueueOK(queue, {}, fate'),
           Addressed(queue, sentTo), TurnAddressed, UNCHANGED sentTo,
           StoredOK, Unexpired' = Unexpired
    PROVE  /\ QueueOK(queue', InFlight', fate') /\ Addressed(queue', sentTo')
           /\ TurnAddressed' /\ StoredOK'
<1>1. CASE ProcessQueue(FALSE, timer)
  BY <1>1, Processed
<1>2. CASE turn' = IdleTurn /\ UNCHANGED <<queue, stored, timer, attempt>>
  <2>1. InFlight' = {} /\ TurnAddressed'
    BY <1>2, IdleTypes DEF InFlight, TurnAddressed
  <2>2. StoredOK'
    BY <1>2, StoredStays DEF StoredOK
  <2>. QED
    BY <1>2, <2>1, <2>2
<1>. QED
  BY <1>1, <1>2 DEF EndTurn

\* Steps that leave the fates and the addresses alone
Quiet == UNCHANGED <<fate, sentTo>>

LEMMA QuietKeeps ==
    ASSUME QueueInv, Quiet,
           QueueOK(queue', InFlight', fate'), Addressed(queue', sentTo'),
           TurnAddressed', StoredOK'
    PROVE  QueueInv'
BY DEF QueueInv, SentInOrder, Quiet

LEMMA NothingInFlight ==
    ASSUME turn.phase \in {"none", "poll"}
    PROVE  InFlight = {}
BY DEF InFlight

LEMMA TriggersKeepQueue ==
    ASSUME TypeInv, QueueInv,
           \/ HistoryPolled \/ RetryTimerFires \/ HealthPolled \/ GoOffline \/ GoOnline
           \/ \E s \in Sessions : SessionStep(s)
    PROVE  QueueInv'
<1>1. Quiet /\ Unexpired' = Unexpired
  BY DEF HistoryPolled, RetryTimerFires, HealthPolled, GoOffline, GoOnline, SessionStep,
         SelectSession, SessionKeyStored, HistoryLoaded, history, Quiet, Unexpired
<1>2. /\ QueueOK(queue, InFlight, fate') /\ Addressed(queue, sentTo)
      /\ TurnAddressed /\ StoredOK /\ UNCHANGED sentTo
  BY <1>1 DEF QueueInv, Quiet
<1>3. ASSUME NEW busy, NEW retry, ProcessQueue(busy, retry), busy \/ InFlight = {}
      PROVE  QueueInv'
  BY <1>1, <1>2, <1>3, Processed, QuietKeeps
<1>4. ASSUME UNCHANGED <<queue, stored, turn>>
      PROVE  QueueInv'
  <2>1. InFlight' = InFlight /\ TurnAddressed'
    BY <1>2, <1>4 DEF InFlight, TurnAddressed
  <2>2. StoredOK'
    BY <1>1, <1>2, <1>4, StoredStays DEF StoredOK
  <2>. QED
    BY <1>1, <1>2, <1>4, <2>1, <2>2, QuietKeeps
<1>5. Sending \/ InFlight = {}
  BY DEF Sending, InFlight
<1>6. CASE HistoryPolled
  <2>1. InFlight = {} /\ EndTurn
    BY <1>6, NothingInFlight DEF HistoryPolled
  <2>. QED
    BY <1>1, <1>2, <2>1, TurnEnded, QuietKeeps
<1>7. CASE RetryTimerFires
  BY <1>3, <1>5, <1>7 DEF RetryTimerFires
<1>8. CASE HealthPolled
  BY <1>3, <1>5, <1>8 DEF HealthPolled
<1>9. CASE GoOffline
  BY <1>4, <1>9 DEF GoOffline
<1>10. CASE GoOnline
  <2>1. CASE cur # NoSession /\ Queued(queue) /\ ~Sending /\ Take(queue)
    <3>1. InFlight = {} /\ cur \in Sessions /\ queue \in Seq(Item)
      BY <1>5, <2>1 DEF TypeInv, QueueTypes, OtherTypes
    <3>. QED
      BY <1>1, <1>2, <2>1, <3>1, TakeQueue, QuietKeeps
  <2>. QED
    BY <1>4, <1>10, <2>1 DEF GoOnline
<1>11. ASSUME NEW s \in Sessions, SessionStep(s)
       PROVE  QueueInv'
  <2>1. CASE SelectSession(s) \/ SessionKeyStored(s)
    BY <1>4, <2>1 DEF SelectSession, SessionKeyStored, queueVars
  <2>2. CASE HistoryLoaded(s)
    BY <1>3, <1>5, <2>2 DEF HistoryLoaded
  <2>. QED
    BY <1>11, <2>1, <2>2 DEF SessionStep
<1>. QED
  BY <1>6, <1>7, <1>8, <1>9, <1>10, <1>11

\* A message becomes open, the others stay as they are.
LEMMA SendKeepsQueue ==
    ASSUME TypeInv, QueueInv, NEW m \in Messages, SendMessage(m)
    PROVE  QueueInv'
<1>1. /\ queue \in Seq(Item) /\ stored \in Seq(Item) /\ cur \in Sessions
      /\ fate = [l \in Messages |-> fate[l]] /\ sentTo = [l \in Messages |-> sentTo[l]]
      /\ InFlight \subseteq Item
  BY DEF SendMessage, TypeInv, QueueTypes, OtherTypes, TurnIsTyped, InFlight
<1>2. /\ sentTo[m] = NoSession /\ \A l \in 1 .. m - 1 : sentTo[l] # NoSession
      /\ sentTo' = [sentTo EXCEPT ![m] = cur] /\ fate' = [fate EXCEPT ![m] = "open"]
  BY DEF SendMessage
<1>3. /\ sentTo'[m] = cur /\ \A l \in Messages : l # m => sentTo'[l] = sentTo[l]
      /\ fate'[m] = "open" /\ \A l \in Messages : l # m => fate'[l] = fate[l]
  BY <1>1, <1>2
<1>4. fate[m] = "unsent"
  BY <1>2 DEF QueueInv, SentInOrder
<1>5. ASSUME NEW l \in Messages, sentTo[l] # NoSession
      PROVE  l < m
  <2>1. m \notin 1 .. l - 1 /\ l # m
    BY <1>2, <1>5 DEF QueueInv, SentInOrder
  <2>. QED
    BY <2>1, BoundsAssumption DEF Messages
<1>6. Latest(m, fate)
  <2>1. \A l \in Messages : fate[l] = "open" => sentTo[l] # NoSession
    BY DEF QueueInv, SentInOrder
  <2>. QED
    BY <1>5, <2>1 DEF Latest
<1>7. PICK q : q = Append(queue, [msg |-> m, session |-> cur])
  OBVIOUS
<1>8. QueueOK(q, InFlight, fate')
  <2>1. PICK F : fate \in [Messages -> F]
    BY DEF TypeInv, OtherTypes
  <2>2. QueueOK(queue, InFlight, fate) /\ InFlight \subseteq Item
    BY <1>1 DEF QueueInv
  <2>3. QueueOK(q, InFlight, [fate EXCEPT ![m] = "open"])
    BY <1>1, <1>6, <1>7, <2>1, <2>2, Appended
  <2>. QED
    BY <1>2, <2>3
<1>9. q \in Seq(Item) /\ Addressed(q, sentTo')
  <2>1. PICK e \in Item : e = [msg |-> m, session |-> cur] /\ e.session = cur /\ e.msg = m
    <3>1. [msg |-> m, session |-> cur] \in Item
      BY <1>1 DEF Item
    <3>. QED
      BY <3>1
  <2>2. q \in Seq(Item)
    BY <1>1, <1>7, <2>1, AppendProperties
  <2>3. ASSUME NEW i \in 1 .. Len(q)
        PROVE  q[i].session = sentTo'[q[i].msg]
    <3>1. CASE i = Len(queue) + 1
      BY <1>1, <1>3, <1>7, <2>1, <3>1
    <3>2. CASE i # Len(queue) + 1
      <4>1. i \in 1 .. Len(queue) /\ q[i] = queue[i]
        BY <1>1, <1>7, <2>1, <3>2
      <4>2. queue[i].session = sentTo[queue[i].msg] /\ fate[queue[i].msg] = "open"
        BY <4>1 DEF QueueInv, QueueOK, Addressed, Opens
      <4>. QED
        BY <1>1, <1>3, <1>4, <4>1, <4>2, ItemFields
    <3>. QED
      BY <3>1, <3>2
  <2>. QED
    BY <2>2, <2>3 DEF Addressed
<1>10. SentInOrder'
  <2>1. cur # NoSession
    BY <1>1, NullAssumption
  <2>. SUFFICES ASSUME NEW l \in Messages
                PROVE  /\ sentTo'[l] = NoSession <=> fate'[l] = "unsent"
                       /\ sentTo'[l] # NoSession => \A k \in 1 .. l - 1 : sentTo'[k] # NoSession
    BY DEF SentInOrder
  <2>2. \A k \in Messages : sentTo[k] # NoSession => sentTo'[k] # NoSession
    BY <1>3, <2>1
  <2>3. \A k \in 1 .. l - 1 : k \in Messages
    BY BoundsAssumption DEF Messages
  <2>4. CASE l = m
    BY <1>2, <1>3, <2>1, <2>2, <2>3, <2>4
  <2>5. CASE l # m
    <3>1. /\ sentTo[l] = NoSession <=> fate[l] = "unsent"
          /\ sentTo[l] # NoSession => \A k \in 1 .. l - 1 : sentTo[k] # NoSession
      BY DEF QueueInv, SentInOrder
    <3>. QED
      BY <1>3, <2>2, <2>3, <2>5, <3>1
  <2>. QED
    BY <2>4, <2>5
<1>11. CASE Save(q) /\ UNCHANGED <<timer, turn, attempt>>
  <2>1. InFlight' = InFlight /\ queue' = q
    BY <1>11 DEF InFlight, Save
  <2>2. StoredOK'
    BY <1>8, <1>9, <1>11, Saved DEF QueueOK
  <2>3. TurnAddressed'
    <3>. SUFFICES ASSUME turn.phase # "none"
                  PROVE  turn.item.session = sentTo'[turn.item.msg]
      BY <1>11 DEF TurnAddressed
    <3>1. turn.item \in Item /\ turn.item.session = sentTo[turn.item.msg]
      BY DEF TypeInv, QueueTypes, TurnIsTyped, QueueInv, TurnAddressed
    <3>2. turn.item.msg # m
      BY <1>2, <3>1, ItemFields, NullAssumption
    <3>. QED
      BY <1>3, <3>1, <3>2, ItemFields
  <2>. QED
    BY <1>8, <1>9, <1>10, <2>1, <2>2, <2>3 DEF QueueInv
<1>12. CASE ~Sending /\ Queued(q) /\ Take(q)
  <2>1. InFlight = {}
    BY <1>12 DEF Sending, InFlight
  <2>. QED
    BY <1>1, <1>8, <1>9, <1>10, <1>12, <2>1, TakeQueue DEF QueueInv
<1>. QED
  BY <1>7, <1>11, <1>12 DEF SendMessage, Blocked

\* The queue of the page that is loaded again: young items that were stored, and
\* nothing is in flight.
LEMMA ReloadKeepsQueue ==
    ASSUME TypeInv, QueueInv, Reload
    PROVE  QueueInv'
<1>1. /\ queue \in Seq(Item) /\ stored \in Seq(Item)
      /\ sentTo' = sentTo /\ stored' = stored /\ turn'.phase = "none" /\ InFlight' = {}
  BY IdleTypes DEF TypeInv, QueueTypes, Reload, InFlight
<1>2. PICK young \in SUBSET (ToSet(stored) \cap Unexpired) :
        /\ queue' = Kept(stored, young)
        /\ fate' = [m \in Messages |->
              IF fate[m] # "open" \/ \E item \in young : item.msg = m THEN fate[m]
              ELSE IF \E item \in ToSet(stored) : item.msg = m THEN "expired"
              ELSE "lost"]
  BY DEF Reload
<1>3. PICK t \in Seq(Item) : /\ t = Trimmed(queue) /\ Len(t) <= Len(queue)
                             /\ \A j \in 1 .. Len(t) : t[j] = queue[j]
  BY <1>1, TrimmedProperties
<1>4. Kept(stored, Unexpired) = t /\ Addressed(stored, sentTo) /\ Len(stored) <= MaxQueueSize
  BY <1>3 DEF QueueInv, StoredOK, StoredIsQueue
<1>5. PICK r \in Seq(Item) : r = Kept(stored, young) /\ KeepsOf(r, stored, young)
  BY <1>1, KeptProperties
<1>6. Within(r, t)
  <2>1. r = Kept(t, young)
    BY <1>1, <1>2, <1>4, <1>5, KeptTwice
  <2>. QED
    BY <2>1, KeptProperties DEF KeepsOf
<1>7. Within(t, queue)
  <2>1. \A j \in 1 .. Len(t) : j \in 1 .. Len(queue)
    BY <1>1, <1>3
  <2>. QED
    BY <1>3, <2>1 DEF Within
<1>8. Sorted(r) /\ Opens(r, fate) /\ Addressed(r, sentTo)
  <2>1. Sorted(queue) /\ Opens(queue, fate) /\ Addressed(queue, sentTo)
    BY DEF QueueInv, QueueOK
  <2>. QED
    BY <1>1, <1>6, <1>7, <2>1, WithinKeeps
<1>9. \A i \in 1 .. Len(r) : r[i] \in young
  BY <1>5 DEF KeepsOf
<1>10. \A m \in Messages :
          fate'[m] = IF fate[m] # "open" \/ \E item \in young : item.msg = m THEN fate[m]
                     ELSE IF \E item \in ToSet(stored) : item.msg = m THEN "expired"
                     ELSE "lost"
  BY <1>2
<1>11. Opens(r, fate')
  <2>. SUFFICES ASSUME NEW i \in 1 .. Len(r) PROVE fate'[r[i].msg] = "open"
    BY DEF Opens
  <2>1. r[i] \in young /\ r[i].msg \in Messages /\ fate[r[i].msg] = "open"
    BY <1>8, <1>9, ItemFields DEF Opens
  <2>. QED
    BY <1>10, <2>1
<1>12. ASSUME NEW m \in Messages, fate'[m] = "open"
       PROVE  \E i \in 1 .. Len(r) : r[i].msg = m
  <2>1. PICK item \in young : item.msg = m
    BY <1>10, <1>12
  <2>2. PICK p \in 1 .. Len(stored) : stored[p] = item
    BY <1>1 DEF ToSet
  <2>3. PICK i \in 1 .. Len(r) : r[i] = stored[p]
    BY <1>5, <2>2 DEF KeepsOf
  <2>. QED
    BY <2>1, <2>2, <2>3
<1>13. QueueOK(r, {}, fate')
  BY <1>8, <1>11, <1>12 DEF QueueOK
<1>14. \A p \in 1 .. Len(stored) : stored[p] \in young <=> stored[p] \in Unexpired'
  <2>. SUFFICES ASSUME NEW p \in 1 .. Len(stored)
                PROVE  stored[p] \in young <=> stored[p] \in Unexpired'
    OBVIOUS
  <2>1. PICK item \in Item : item = stored[p] /\ item.msg \in Messages /\ item \in ToSet(stored)
    BY <1>1, ItemFields DEF ToSet
  <2>2. item \in Unexpired <=> fate[item.msg] # "expired"
    BY DEF Unexpired
  <2>3. item \in Unexpired' <=> fate'[item.msg] # "expired"
    BY DEF Unexpired
  <2>4. ASSUME item \in young PROVE item \in Unexpired'
    BY <1>10, <2>1, <2>2, <2>3, <2>4
  <2>5. ASSUME item \in Unexpired' PROVE item \in young
    <3>1. CASE fate[item.msg] # "open"
      <4>1. item \in Unexpired
        BY <1>10, <2>1, <2>2, <2>3, <2>5, <3>1
      <4>2. KeepsOf(t, stored, Unexpired)
        BY <1>1, <1>4, KeptProperties
      <4>3. PICK i \in 1 .. Len(t) : t[i] = item
        BY <2>1, <4>1, <4>2 DEF KeepsOf
      <4>4. Opens(t, fate)
        BY <1>1, <1>7, WithinKeeps DEF QueueInv, QueueOK
      <4>. QED
        BY <3>1, <4>3, <4>4 DEF Opens
    <3>2. CASE fate[item.msg] = "open"
      <4>1. PICK other \in young : other.msg = item.msg
        BY <1>10, <2>1, <2>3, <2>5, <3>2
      <4>2. PICK l \in 1 .. Len(stored) : stored[l] = other
        BY <1>1 DEF ToSet
      <4>3. other \in Item /\ other.session = sentTo[other.msg] /\ item.session = sentTo[item.msg]
        BY <1>1, <1>4, <2>1, <4>2, ItemFields DEF Addressed
      <4>4. other = item
        BY <4>1, <4>3 DEF Item
      <4>. QED
        BY <4>4
    <3>. QED
      BY <3>1, <3>2
  <2>. QED
    BY <2>1, <2>4, <2>5
<1>15. Kept(stored, Unexpired') = r
  <2>1. Kept(stored, young) = Kept(stored, Unexpired')
    BY <1>1, <1>14, KeptAgrees
  <2>. QED
    BY <1>5, <2>1
<1>16. Trimmed(r) = r
  <2>1. Len(r) <= MaxQueueSize
    BY <1>1, <1>4, <1>5, BoundsAssumption DEF KeepsOf
  <2>. QED
    BY <2>1, TrimmedProperties
<1>17. StoredOK'
  BY <1>1, <1>2, <1>4, <1>5, <1>15, <1>16 DEF StoredOK, StoredIsQueue
<1>18. SentInOrder'
  <2>1. \A m \in Messages : fate'[m] = "unsent" <=> fate[m] = "unsent"
    BY <1>10
  <2>. QED
    BY <1>1, <2>1 DEF QueueInv, SentInOrder
<1>. QED
  BY <1>1, <1>2, <1>5, <1>8, <1>13, <1>17, <1>18 DEF QueueInv, TurnAddressed

\* The end of a turn: the message in flight is done with.
LEMMA FateSettled ==
    ASSUME TypeInv, QueueInv, InFlight = {turn.item}, NEW v \in {"confirmed", "refused"},
           turn.phase # "none",
           fate' = [fate EXCEPT ![turn.item.msg] = v], UNCHANGED sentTo
    PROVE  QueueOK(queue, {}, fate') /\ SentInOrder' /\ Unexpired' = Unexpired
<1>1. queue \in Seq(Item) /\ turn.item \in Item /\ turn.item.msg \in Messages
  BY ItemFields DEF TypeInv, QueueTypes, TurnIsTyped
<1>2. PICK F : fate \in [Messages -> F]
  BY DEF TypeInv, OtherTypes
<1>3. QueueOK(queue, {turn.item}, fate)
  BY DEF QueueInv
<1>4. QueueOK(queue, {}, fate')
  BY <1>1, <1>2, <1>3, Concluded
<1>5. fate[turn.item.msg] = "open"
  BY <1>3 DEF QueueOK
<1>6. \A m \in Messages : fate'[m] = IF m = turn.item.msg THEN v ELSE fate[m]
  BY <1>1, <1>2
<1>7. \A m \in Messages : /\ fate'[m] = "unsent" <=> fate[m] = "unsent"
                          /\ fate'[m] = "expired" <=> fate[m] = "expired"
  BY <1>5, <1>6
<1>8. SentInOrder'
  BY <1>7 DEF QueueInv, SentInOrder
<1>9. Unexpired' = Unexpired
  BY <1>7, ItemFields DEF Unexpired
<1>. QED
  BY <1>4, <1>8, <1>9

LEMMA AnswersKeepQueue ==
    ASSUME TypeInv, QueueInv, NEW a \in Attempts, TurnStep(a)
    PROVE  QueueInv'
<1>1. /\ queue \in Seq(Item) /\ stored \in Seq(Item) /\ turn \in Turn
      /\ Addressed(queue, sentTo) /\ TurnAddressed /\ StoredOK
  BY DEF TypeInv, QueueTypes, QueueInv
<1>2. turn.phase \in {"request", "token", "retry"} => InFlight = {turn.item}
  BY DEF InFlight
<1>3. CASE Confirmed(a)
  <2>1. turn.phase \in {"request", "retry"}
    BY <1>3 DEF Confirmed, Awaits
  <2>2. /\ turn' = [turn EXCEPT !.phase = "poll", !.att = NoAttempt]
        /\ fate' = [fate EXCEPT ![turn.item.msg] = "confirmed"]
        /\ UNCHANGED <<queue, stored, sentTo>>
    BY <1>3 DEF Confirmed
  <2>3. QueueOK(queue, {}, fate') /\ SentInOrder' /\ Unexpired' = Unexpired
    BY <1>2, <2>1, <2>2, FateSettled
  <2>4. InFlight' = {} /\ TurnAddressed'
    <3>1. turn'.phase = "poll" /\ turn'.item = turn.item
      BY <1>1, <2>2 DEF Turn
    <3>. QED
      BY <1>1, <2>1, <2>2, <3>1 DEF InFlight, TurnAddressed
  <2>5. StoredOK'
    BY <1>1, <2>2, <2>3, StoredStays DEF StoredOK
  <2>. QED
    BY <1>1, <2>2, <2>3, <2>4, <2>5 DEF QueueInv
<1>4. CASE Forbidden(a) \/ TokenFetched(a)
  <2>1. Quiet /\ UNCHANGED <<queue, stored>>
    BY <1>4 DEF Forbidden, TokenFetched, history, Quiet
  <2>2. /\ turn.phase \in {"request", "token"} /\ turn'.phase \in {"token", "retry"}
        /\ turn'.item = turn.item
    BY <1>1, <1>4 DEF Forbidden, TokenFetched, Turn
  <2>3. InFlight' = InFlight /\ TurnAddressed'
    BY <1>1, <2>1, <2>2 DEF InFlight, TurnAddressed, Quiet
  <2>4. StoredOK'
    BY <1>1, <2>1, StoredStays DEF StoredOK, Quiet, Unexpired
  <2>5. QueueOK(queue', InFlight', fate') /\ Addressed(queue', sentTo')
    BY <1>1, <2>1, <2>3 DEF QueueInv, Quiet
  <2>. QED
    BY <2>1, <2>3, <2>4, <2>5, QuietKeeps
<1>5. CASE Refused(a)
  <2>1. turn.phase \in {"request", "token", "retry"}
    BY <1>5 DEF Refused, Awaits
  <2>2. /\ fate' = [fate EXCEPT ![turn.item.msg] = "refused"]
        /\ EndTurn /\ UNCHANGED sentTo
    BY <1>5 DEF Refused
  <2>3. QueueOK(queue, {}, fate') /\ SentInOrder' /\ Unexpired' = Unexpired
    BY <1>2, <2>1, <2>2, FateSettled
  <2>. QED
    BY <1>1, <2>2, <2>3, TurnEnded DEF QueueInv
<1>6. CASE SendFailed(a)
  <2>1. turn.phase \in {"request", "retry"} /\ turn.item \in Item
    BY <1>6 DEF SendFailed, Awaits, TypeInv, QueueTypes, TurnIsTyped
  <2>2. Save(PutBack) /\ turn' = IdleTurn /\ Quiet
    BY <1>6 DEF SendFailed, history, Quiet
  <2>3. QueueOK(queue, {turn.item}, fate) /\ turn.item.session = sentTo[turn.item.msg]
    BY <1>1, <1>2, <2>1 DEF QueueInv, TurnAddressed
  <2>4. PutBack \in Seq(Item) /\ QueueOK(PutBack, {}, fate) /\ Addressed(PutBack, sentTo)
    BY <1>1, <2>1, <2>3, PutBackKeeps DEF PutBack
  <2>5. QueueOK(PutBack, {}, fate') /\ Opens(PutBack, fate') /\ Addressed(PutBack, sentTo')
    BY <2>2, <2>4 DEF Quiet, QueueOK
  <2>6. StoredOK'
    BY <2>2, <2>4, <2>5, Saved
  <2>7. InFlight' = {} /\ TurnAddressed' /\ queue' = PutBack
    BY <2>2, IdleTypes DEF InFlight, TurnAddressed, Save
  <2>. QED
    BY <2>2, <2>5, <2>6, <2>7, QuietKeeps
<1>. QED
  BY <1>3, <1>4, <1>5, <1>6 DEF TurnStep

LEMMA NextQueue == TypeInv /\ QueueInv /\ [Next]_vars => QueueInv'
<1>. SUFFICES ASSUME TypeInv, QueueInv, [Next]_vars PROVE QueueInv'
  OBVIOUS
<1>1. ASSUME UNCHANGED <<queue, stored, turn, sentTo, fate>>
      PROVE  QueueInv'
  <2>1. InFlight' = InFlight /\ TurnAddressed' /\ Quiet
    BY <1>1 DEF QueueInv, InFlight, TurnAddressed, Quiet
  <2>2. StoredOK'
    BY <1>1, StoredStays DEF QueueInv, StoredOK, Unexpired
  <2>3. QueueOK(queue', InFlight', fate') /\ Addressed(queue', sentTo')
    BY <1>1, <2>1 DEF QueueInv
  <2>. QED
    BY <2>1, <2>2, <2>3, QuietKeeps
<1>2. CASE UNCHANGED vars
  BY <1>1, <1>2 DEF vars, queueVars, history
<1>3. ASSUME NEW a \in Attempts, ServerStep(a)
      PROVE  QueueInv'
  BY <1>1, <1>3 DEF ServerStep
<1>. QED
  BY <1>2, <1>3, TriggersKeepQueue, SendKeepsQueue, ReloadKeepsQueue, AnswersKeepQueue DEF Next

LEMMA HeldOnce == TypeInv /\ QueueInv => HeldExactlyOnce
<1>. SUFFICES ASSUME TypeInv, QueueInv, NEW m \in Messages
              PROVE  Cardinality({i \in DOMAIN queue : queue[i].msg = m})
                        + (IF turn.phase \notin {"none", "poll"} /\ turn.item.msg = m THEN 1 ELSE 0)
                     = IF fate[m] = "open" THEN 1 ELSE 0
  BY DEF HeldExactlyOnce
<1>. DEFINE P == {i \in 1 .. Len(queue) : queue[i].msg = m}
            held == IF turn.phase \notin {"none", "poll"} /\ turn.item.msg = m THEN 1 ELSE 0
<1>1. {i \in DOMAIN queue : queue[i].msg = m} = P
  BY DEF TypeInv, QueueTypes
<1>2. QueueOK(queue, InFlight, fate)
  BY DEF QueueInv
<1>3. held = 1 => fate[m] = "open" /\ P = {}
  BY <1>2 DEF QueueOK, InFlight, Precedes
<1>4. P = {} \/ \E i : P = {i}
  <2>1. \A i, j \in P : i = j
    BY <1>2 DEF QueueOK, Sorted
  <2>. QED
    BY <2>1
<1>5. P # {} => fate[m] = "open"
  BY <1>2 DEF QueueOK, Opens
<1>6. fate[m] = "open" => P # {} \/ held = 1
  BY <1>2 DEF QueueOK, InFlight
<1>7. Cardinality(P) = IF P = {} THEN 0 ELSE 1
  <2>. HIDE DEF P
  <2>. QED
    BY <1>4, FS_EmptySet, FS_Singleton
<1>8. held \in {0, 1}
  OBVIOUS
<1>. HIDE DEF P, held
<1>9. Cardinality(P) + held = IF fate[m] = "open" THEN 1 ELSE 0
  BY <1>3, <1>5, <1>6, <1>7, <1>8
<1>. QED
  BY <1>1, <1>9 DEF held

------------------------------------------------------------------------------
(* Attempts: what the page shows as sent, the gateway has received *)

\* The attempt the page waits for carries the message of its turn.
TurnHasAttempt ==
    turn.phase \in {"request", "token", "retry"} =>
        turn.att \in Attempts /\ attempt[turn.att].msg = turn.item.msg

\* What was answered with a success was served, and the gateway has received it.
Received(r, ex) == r.st = "ok" \/ "served" \in {r.ws, r.http} => r.msg \in ex
ServedIsExecuted == \A a \in Attempts : Received(attempt[a], executed)

AttemptInv == TurnHasAttempt /\ ServedIsExecuted /\ ConfirmedIsExecuted

LEMMA InitAttempts == Init => AttemptInv
<1>. SUFFICES ASSUME Init PROVE AttemptInv
  OBVIOUS
<1>1. turn.phase = "none" /\ \A a \in Attempts : Received(attempt[a], executed)
  BY IdleTypes DEF Init, Received
<1>. QED
  BY <1>1 DEF Init, AttemptInv, TurnHasAttempt, ServedIsExecuted, ConfirmedIsExecuted

\* What the page does to its turn and its attempts: nothing, the turn ends, or
\* the next message is taken.
TurnMoves ==
    \/ UNCHANGED <<turn, attempt>>
    \/ turn' = IdleTurn /\ UNCHANGED attempt
    \/ \E q : Take(q)

\* An unused attempt carries the message that is taken.
LEMMA Taken ==
    ASSUME TypeInv, NEW q, Take(q)
    PROVE  \E a \in Attempts :
              /\ attempt[a].st = "free" /\ Only(a)
              /\ turn'.phase = "request" /\ turn'.att = a
              /\ attempt'[a].msg = turn'.item.msg
              /\ attempt'[a].st = "sent" /\ attempt'[a].ws = "none" /\ attempt'[a].http = "none"
<1>. DEFINE next == q[Min(OfSession(q, cur))]
            new == [FreeAttempt EXCEPT !.st = "sent", !.msg = next.msg]
<1>1. PICK a \in Attempts : /\ attempt[a].st = "free"
                            /\ turn' = [phase |-> "request", item |-> next, att |-> a]
                            /\ attempt' = [attempt EXCEPT ![a] = new]
  <2>1. Unused # {} /\ \A b \in Unused : b \in Attempts /\ attempt[b].st = "free"
    BY DEF Take, Unused
  <2>2. (CHOOSE b \in Unused : TRUE) \in Unused
    BY <2>1
  <2>. QED
    BY <2>1, <2>2 DEF Take
<1>2. new.st = "sent" /\ new.msg = next.msg /\ new.ws = "none" /\ new.http = "none"
  <2>. HIDE DEF next
  <2>1. new = [st |-> "sent", msg |-> next.msg, ws |-> "none", http |-> "none"]
    BY FreshAttempt
  <2>. HIDE DEF new
  <2>. QED
    BY <2>1
<1>. HIDE DEF next, new
<1>3. \A b \in Attempts : attempt'[b] = IF b = a THEN new ELSE attempt[b]
  BY <1>1 DEF TypeInv, QueueTypes
<1>. QED
  BY <1>1, <1>2, <1>3 DEF Only

LEMMA ProcessQueueMoves ==
    ASSUME NEW busy, NEW retry, ProcessQueue(busy, retry)
    PROVE  TurnMoves
BY DEF ProcessQueue, TurnMoves

LEMMA EndTurnMoves == EndTurn => TurnMoves
BY ProcessQueueMoves DEF EndTurn, TurnMoves

\* An attempt that is not free goes on with its message, or was taken just now.
Continues ==
    \A b \in Attempts : attempt'[b].st # "free" =>
        \/ attempt[b].st # "free" /\ attempt'[b].msg = attempt[b].msg
        \/ turn'.phase = "request" /\ turn'.att = b

\* A step of the page that tells the user nothing new about what was sent.
LEMMA PageStep ==
    ASSUME TypeInv, AttemptInv, TurnMoves, UNCHANGED executed,
           \A m \in Messages : fate'[m] = "confirmed" => fate[m] = "confirmed"
    PROVE  AttemptInv' /\ Continues
<1>1. ConfirmedIsExecuted'
  BY DEF AttemptInv, ConfirmedIsExecuted
<1>2. CASE UNCHANGED <<turn, attempt>>
  BY <1>1, <1>2 DEF AttemptInv, TurnHasAttempt, ServedIsExecuted, Continues
<1>3. CASE turn' = IdleTurn /\ UNCHANGED attempt
  BY <1>1, <1>3, IdleTypes DEF AttemptInv, TurnHasAttempt, ServedIsExecuted, Continues
<1>4. ASSUME NEW q, Take(q) PROVE AttemptInv' /\ Continues
  <2>1. PICK a \in Attempts :
              /\ Only(a) /\ turn'.phase = "request" /\ turn'.att = a
              /\ attempt'[a].msg = turn'.item.msg
              /\ attempt'[a].st = "sent" /\ attempt'[a].ws = "none" /\ attempt'[a].http = "none"
    BY <1>4, Taken
  <2>2. Received(attempt'[a], executed)
    BY <2>1 DEF Received
  <2>3. ServedIsExecuted'
    BY <2>1, <2>2 DEF AttemptInv, ServedIsExecuted, Only
  <2>4. Continues
    BY <2>1 DEF Continues, Only
  <2>. QED
    BY <1>1, <2>1, <2>3, <2>4 DEF AttemptInv, TurnHasAttempt
<1>. QED
  BY <1>2, <1>3, <1>4 DEF TurnMoves

LEMMA TriggersKeepAttempts ==
    ASSUME TypeInv, AttemptInv,
           \/ HistoryPolled \/ RetryTimerFires \/ HealthPolled \/ GoOffline \/ GoOnline
           \/ \E s \in Sessions : SessionStep(s)
    PROVE  AttemptInv' /\ Continues
<1>1. TurnMoves
  BY ProcessQueueMoves, EndTurnMoves
     DEF HistoryPolled, RetryTimerFires, HealthPolled, GoOffline, GoOnline, SessionStep,
         SelectSession, SessionKeyStored, HistoryLoaded, queueVars, TurnMoves
<1>2. UNCHANGED <<executed, fate>>
  BY DEF HistoryPolled, RetryTimerFires, HealthPolled, GoOffline, GoOnline, SessionStep,
         SelectSession, SessionKeyStored, HistoryLoaded, history
<1>. QED
  BY <1>1, <1>2, PageStep

LEMMA SendKeepsAttempts ==
    ASSUME TypeInv, AttemptInv, NEW m \in Messages, SendMessage(m)
    PROVE  AttemptInv' /\ Continues
<1>1. TurnMoves /\ UNCHANGED executed /\ fate' = [fate EXCEPT ![m] = "open"]
  BY DEF SendMessage, TurnMoves
<1>2. \A l \in Messages : fate'[l] = "confirmed" => fate[l] = "confirmed"
  BY <1>1 DEF TypeInv, OtherTypes
<1>. QED
  BY <1>1, <1>2, PageStep

LEMMA ReloadKeepsAttempts ==
    ASSUME TypeInv, AttemptInv, Reload
    PROVE  AttemptInv' /\ Continues
<1>1. TurnMoves /\ UNCHANGED executed
  BY DEF Reload, TurnMoves
<1>2. \A m \in Messages : fate'[m] \in {fate[m], "expired", "lost"}
  BY DEF Reload
<1>. QED
  BY <1>1, <1>2, PageStep

LEMMA AnswersKeepAttempts ==
    ASSUME TypeInv, AttemptInv, NEW a \in Attempts, TurnStep(a)
    PROVE  AttemptInv' /\ Continues
<1>. turn \in Turn
  BY DEF TypeInv, QueueTypes
<1>1. CASE Confirmed(a)
  <2>1. turn' = [turn EXCEPT !.phase = "poll", !.att = NoAttempt] /\ UNCHANGED <<attempt, executed>>
    BY <1>1 DEF Confirmed
  <2>2. turn.item.msg \in executed /\ fate' = [fate EXCEPT ![turn.item.msg] = "confirmed"]
    BY <1>1 DEF Confirmed, Awaits, AttemptInv, TurnHasAttempt, ServedIsExecuted, Received
  <2>3. turn'.phase = "poll" /\ turn'.att = NoAttempt
    BY <2>1 DEF Turn
  <2>4. ConfirmedIsExecuted'
    BY <2>1, <2>2 DEF TypeInv, OtherTypes, AttemptInv, ConfirmedIsExecuted
  <2>. QED
    BY <2>1, <2>3, <2>4 DEF AttemptInv, TurnHasAttempt, ServedIsExecuted, Continues
<1>2. CASE Forbidden(a)
  <2>1. turn' = [turn EXCEPT !.phase = "token"] /\ UNCHANGED <<attempt, executed, fate>>
    BY <1>2 DEF Forbidden, history
  <2>2. turn'.item = turn.item /\ turn'.att = turn.att /\ turn.phase = "request"
    BY <1>2, <2>1 DEF Forbidden, Turn
  <2>. QED
    BY <2>1, <2>2 DEF AttemptInv, TurnHasAttempt, ServedIsExecuted, ConfirmedIsExecuted, Continues
<1>3. CASE TokenFetched(a)
  <2>1. /\ turn' = [turn EXCEPT !.phase = "retry"] /\ UNCHANGED <<executed, fate>>
        /\ attempt' = [attempt EXCEPT ![a].st = "sent"] /\ turn.phase = "token"
        /\ turn.att = a
    BY <1>3 DEF TokenFetched, history
  <2>2. turn'.item = turn.item /\ turn'.att = turn.att
    BY <2>1 DEF Turn
  <2>3. /\ Only(a) /\ attempt'[a].st = "sent" /\ attempt'[a].msg = attempt[a].msg
        /\ attempt'[a].ws = attempt[a].ws /\ attempt'[a].http = attempt[a].http
    BY <2>1 DEF TypeInv, QueueTypes, Attempt, Only
  <2>4. Received(attempt'[a], executed)
    BY <2>3 DEF AttemptInv, ServedIsExecuted, Received
  <2>5. ServedIsExecuted'
    BY <2>1, <2>3, <2>4 DEF AttemptInv, ServedIsExecuted, Only
  <2>6. TurnHasAttempt'
    BY <2>1, <2>2, <2>3 DEF AttemptInv, TurnHasAttempt
  <2>7. ConfirmedIsExecuted'
    BY <2>1 DEF AttemptInv, ConfirmedIsExecuted
  <2>8. attempt[a].st # "free"
    BY <2>1 DEF TypeInv, QueueTypes, TurnIsTyped
  <2>9. Continues
    BY <2>3, <2>8 DEF Only, Continues
  <2>. QED
    BY <2>5, <2>6, <2>7, <2>9 DEF AttemptInv
<1>4. CASE Refused(a)
  <2>1. TurnMoves /\ UNCHANGED executed /\ fate' = [fate EXCEPT ![turn.item.msg] = "refused"]
    BY <1>4, EndTurnMoves DEF Refused
  <2>2. \A l \in Messages : fate'[l] = "confirmed" => fate[l] = "confirmed"
    BY <2>1 DEF TypeInv, OtherTypes
  <2>. QED
    BY <2>1, <2>2, PageStep
<1>5. CASE SendFailed(a)
  <2>1. TurnMoves /\ UNCHANGED <<executed, fate>>
    BY <1>5 DEF SendFailed, TurnMoves, history
  <2>. QED
    BY <2>1, PageStep
<1>. QED
  BY <1>1, <1>2, <1>3, <1>4, <1>5 DEF TurnStep

\* One attempt goes on with the same message, or is over.
LEMMA ServerMoves ==
    ASSUME AttemptInv, NEW a \in Attempts, Only(a),
           UNCHANGED <<turn, fate>>, executed \subseteq executed',
           Received(attempt'[a], executed'),
           turn.att # a \/ attempt'[a].msg = attempt[a].msg
    PROVE  AttemptInv'
<1>1. ServedIsExecuted'
  BY DEF AttemptInv, ServedIsExecuted, Received, Only
<1>2. TurnHasAttempt'
  BY DEF AttemptInv, TurnHasAttempt, Only
<1>3. ConfirmedIsExecuted'
  BY DEF AttemptInv, ConfirmedIsExecuted
<1>. QED
  BY <1>1, <1>2, <1>3 DEF AttemptInv

\* An assignment to fields of one attempt
LEMMA FieldsSet ==
    ASSUME TypeInv, NEW a \in Attempts
    PROVE  /\ \A v : attempt' = [attempt EXCEPT ![a].st = v] =>
                 /\ Only(a) /\ attempt'[a].st = v /\ attempt'[a].msg = attempt[a].msg
                 /\ attempt'[a].ws = attempt[a].ws /\ attempt'[a].http = attempt[a].http
           /\ \A way \in {"ws", "http"} : Try(a, way) =>
                 /\ Only(a) /\ attempt'[a].st = way /\ attempt'[a].msg = attempt[a].msg
                 /\ attempt'[a].ws \in {"pending", attempt[a].ws}
                 /\ attempt'[a].http \in {"pending", attempt[a].http}
           /\ GatewayReceives(a) =>
                 /\ Only(a) /\ attempt'[a].st = attempt[a].st
                 /\ attempt'[a].msg = attempt[a].msg
           /\ attempt' = [attempt EXCEPT ![a] = FreeAttempt] =>
                 Only(a) /\ attempt'[a] = FreeAttempt
<1>. attempt \in [Attempts -> Attempt]
  BY DEF TypeInv, QueueTypes
<1>1. ASSUME NEW v, attempt' = [attempt EXCEPT ![a].st = v]
      PROVE  /\ Only(a) /\ attempt'[a].st = v /\ attempt'[a].msg = attempt[a].msg
             /\ attempt'[a].ws = attempt[a].ws /\ attempt'[a].http = attempt[a].http
  BY <1>1 DEF Only, Attempt
<1>2. ASSUME NEW way \in {"ws", "http"}, Try(a, way)
      PROVE  /\ Only(a) /\ attempt'[a].st = way /\ attempt'[a].msg = attempt[a].msg
             /\ attempt'[a].ws \in {"pending", attempt[a].ws}
             /\ attempt'[a].http \in {"pending", attempt[a].http}
  BY <1>2 DEF Only, Attempt, Try
<1>3. ASSUME GatewayReceives(a)
      PROVE  Only(a) /\ attempt'[a].st = attempt[a].st /\ attempt'[a].msg = attempt[a].msg
  BY <1>3 DEF Only, Attempt, GatewayReceives
<1>4. ASSUME attempt' = [attempt EXCEPT ![a] = FreeAttempt]
      PROVE  Only(a) /\ attempt'[a] = FreeAttempt
  BY <1>4 DEF Only
<1>. QED
  BY <1>1, <1>2, <1>3, <1>4

LEMMA ServerKeepsAttempts ==
    ASSUME TypeInv, AttemptInv, NEW a \in Attempts, ServerStep(a)
    PROVE  AttemptInv' /\ Continues
<1>1. UNCHANGED <<turn, fate>>
  BY DEF ServerStep
<1>2. Carries(attempt[a]) /\ Received(attempt[a], executed)
  BY DEF TypeInv, QueueTypes, TurnIsTyped, AttemptInv, ServedIsExecuted
<1>3. ASSUME Only(a), executed \subseteq executed', Received(attempt'[a], executed'),
             \/ attempt[a].st # "free" /\ attempt'[a].msg = attempt[a].msg
             \/ attempt'[a].st = "free" /\ turn.att # a
      PROVE  AttemptInv' /\ Continues
  <2>1. AttemptInv'
    BY <1>1, <1>3, ServerMoves
  <2>. QED
    BY <1>3, <2>1 DEF Only, Continues
<1>4. ASSUME NEW st, attempt' = [attempt EXCEPT ![a].st = st], UNCHANGED executed,
             attempt[a].st # "free",
             st = "ok" => "served" \in {attempt[a].ws, attempt[a].http}
      PROVE  Only(a) /\ Received(attempt'[a], executed') /\ attempt'[a].msg = attempt[a].msg
  <2>1. /\ Only(a) /\ attempt'[a].st = st /\ attempt'[a].msg = attempt[a].msg
        /\ attempt'[a].ws = attempt[a].ws /\ attempt'[a].http = attempt[a].http
    BY <1>4, FieldsSet
  <2>2. Received(attempt'[a], executed')
    BY <1>2, <1>4, <2>1 DEF Received
  <2>. QED
    BY <2>1, <2>2
<1>5. ASSUME NEW way \in {"ws", "http"}, Try(a, way), UNCHANGED executed, attempt[a].st # "free"
      PROVE  Only(a) /\ Received(attempt'[a], executed') /\ attempt'[a].msg = attempt[a].msg
  BY <1>2, <1>5, FieldsSet DEF Received
<1>6. CASE Arrives(a) \/ WsFails(a)
  BY <1>3, <1>5, <1>6 DEF Arrives, WsFails
<1>7. CASE TurnedDown(a) \/ HttpFails(a) \/ Answered(a)
  BY <1>3, <1>4, <1>7 DEF TurnedDown, HttpFails, Answered
<1>8. CASE GatewayReceives(a)
  <2>1. executed' = executed \cup {attempt[a].msg} /\ "pending" \in {attempt[a].ws, attempt[a].http}
    BY <1>8 DEF GatewayReceives
  <2>2. Only(a) /\ attempt'[a].msg = attempt[a].msg /\ attempt[a].st # "free"
    BY <1>2, <1>8, <2>1, FieldsSet DEF Carries
  <2>3. Received(attempt'[a], executed')
    BY <2>1, <2>2 DEF Received
  <2>. QED
    BY <1>3, <2>1, <2>2, <2>3
<1>9. CASE Over(a)
  <2>1. Only(a) /\ attempt'[a] = FreeAttempt /\ turn.att # a /\ UNCHANGED executed
    BY <1>9, FieldsSet DEF Over
  <2>2. Received(attempt'[a], executed') /\ attempt'[a].st = "free"
    BY <2>1, IdleTypes DEF Received
  <2>. QED
    BY <1>3, <2>1, <2>2
<1>. QED
  BY <1>6, <1>7, <1>8, <1>9 DEF ServerStep, Progress, Failure

LEMMA NextAttempts == TypeInv /\ AttemptInv /\ [Next]_vars => AttemptInv' /\ Continues
<1>. SUFFICES ASSUME TypeInv, AttemptInv, [Next]_vars PROVE AttemptInv' /\ Continues
  OBVIOUS
<1>1. CASE UNCHANGED vars
  BY <1>1, PageStep DEF vars, queueVars, history, TurnMoves
<1>. QED
  BY <1>1, TriggersKeepAttempts, SendKeepsAttempts, ReloadKeepsAttempts, AnswersKeepAttempts,
     ServerKeepsAttempts DEF Next

------------------------------------------------------------------------------
(* The order in which the gateway sees the messages *)

\* The gateway may see message m: the earlier ones of its session it has seen,
\* or it will never.
Foremost(m, to, f, ex) ==
    /\ to[m] # NoSession
    /\ \A l \in 1 .. m - 1 : to[l] = to[m] => l \in ex \/ f[l] \notin {"open", "confirmed"}

OrderInv ==
    \A a \in Attempts :
        attempt[a].st # "free" => Foremost(attempt[a].msg, sentTo, fate, executed)

\* The message in flight is the next one of its session, since the queue holds
\* all others that are open.
LEMMA InFlightIsForemost ==
    ASSUME NEW q \in Seq(Item), NEW x \in Item, NEW f, NEW to, NEW ex,
           QueueOK(q, {x}, f), Addressed(q, to), x.session = to[x.msg],
           \A m \in Messages : f[m] = "confirmed" => m \in ex
    PROVE  Foremost(x.msg, to, f, ex)
<1>1. x.msg \in Messages /\ to[x.msg] \in Sessions /\ to[x.msg] # NoSession
  BY ItemFields, NullAssumption
<1>2. ASSUME NEW l \in 1 .. x.msg - 1, to[l] = to[x.msg], f[l] \in {"open", "confirmed"}
      PROVE  l \in ex
  <2>1. l \in Messages /\ l < x.msg /\ x.msg \in Nat /\ l \in Nat
    BY <1>1, BoundsAssumption DEF Messages
  <2>2. f[l] # "open"
    <3>. SUFFICES ASSUME f[l] = "open" PROVE FALSE
      OBVIOUS
    <3>1. PICK i \in 1 .. Len(q) : q[i].msg = l
      BY <2>1 DEF QueueOK
    <3>2. q[i].session = x.session
      BY <1>2, <3>1 DEF Addressed
    <3>3. x.msg < l
      BY <3>1, <3>2 DEF QueueOK, Precedes
    <3>. QED
      BY <2>1, <3>3
  <2>. QED
    BY <1>2, <2>1, <2>2
<1>. QED
  BY <1>1, <1>2 DEF Foremost

\* What a step leaves of the history
Onward ==
    /\ executed \subseteq executed'
    /\ \A m \in Messages : sentTo[m] # NoSession => sentTo'[m] = sentTo[m]
    /\ \A m \in Messages : fate[m] \in {"refused", "expired", "lost"} => fate'[m] = fate[m]

LEMMA NextIsOnward == TypeInv /\ QueueInv /\ [Next]_vars => Onward
<1>. SUFFICES ASSUME TypeInv, QueueInv, [Next]_vars PROVE Onward
  OBVIOUS
<1>1. /\ sentTo = [l \in Messages |-> sentTo[l]]
      /\ \E F : fate \in [Messages -> F]
  BY DEF TypeInv, OtherTypes
<1>2. CASE UNCHANGED history
  BY <1>2 DEF history, Onward
<1>3. ASSUME NEW m \in Messages, SendMessage(m)
      PROVE  Onward
  <2>1. /\ sentTo[m] = NoSession /\ UNCHANGED executed
        /\ sentTo' = [sentTo EXCEPT ![m] = cur] /\ fate' = [fate EXCEPT ![m] = "open"]
    BY <1>3 DEF SendMessage
  <2>2. fate[m] = "unsent"
    BY <2>1 DEF QueueInv, SentInOrder
  <2>. QED
    BY <1>1, <2>1, <2>2 DEF Onward
<1>4. ASSUME NEW a \in Attempts, TurnStep(a)
      PROVE  Onward
  <2>1. CASE Forbidden(a) \/ TokenFetched(a) \/ SendFailed(a)
    BY <1>2, <2>1 DEF Forbidden, TokenFetched, SendFailed
  <2>2. CASE Confirmed(a) \/ Refused(a)
    <3>1. PICK v : fate' = [fate EXCEPT ![turn.item.msg] = v] /\ UNCHANGED <<sentTo, executed>>
      BY <2>2 DEF Confirmed, Refused
    <3>2. turn.phase \in {"request", "token", "retry"}
      BY <2>2 DEF Confirmed, Refused, Awaits
    <3>3. fate[turn.item.msg] = "open"
      BY <3>2 DEF QueueInv, QueueOK, InFlight
    <3>. QED
      BY <1>1, <3>1, <3>3 DEF Onward
  <2>. QED
    BY <1>4, <2>1, <2>2 DEF TurnStep
<1>5. ASSUME NEW a \in Attempts, ServerStep(a)
      PROVE  Onward
  <2>1. executed \subseteq executed'
    BY <1>5 DEF ServerStep, Progress, Failure, Arrives, GatewayReceives, Answered, Over,
                TurnedDown, WsFails, HttpFails
  <2>. QED
    BY <1>5, <2>1 DEF ServerStep, Onward
<1>6. CASE Reload
  <2>1. UNCHANGED <<sentTo, executed>>
    BY <1>6 DEF Reload
  <2>2. \A m \in Messages : fate[m] # "open" => fate'[m] = fate[m]
    BY <1>6 DEF Reload
  <2>. QED
    BY <2>1, <2>2 DEF Onward
<1>7. CASE \/ HistoryPolled \/ RetryTimerFires \/ HealthPolled \/ GoOffline \/ GoOnline
           \/ \E s \in Sessions : SessionStep(s)
  BY <1>2, <1>7 DEF HistoryPolled, RetryTimerFires, HealthPolled, GoOffline, GoOnline,
                    SessionStep, SelectSession, SessionKeyStored, HistoryLoaded
<1>8. CASE UNCHANGED vars
  BY <1>2, <1>8 DEF vars
<1>. QED
  BY <1>3, <1>4, <1>5, <1>6, <1>7, <1>8 DEF Next

\* A message that the gateway may see, it may see later on.
LEMMA ForemostStays ==
    ASSUME TypeInv, QueueInv, Onward, NEW m \in Messages, Foremost(m, sentTo, fate, executed)
    PROVE  Foremost(m, sentTo', fate', executed')
<1>1. sentTo'[m] = sentTo[m] /\ sentTo'[m] # NoSession
  BY DEF Foremost, Onward
<1>2. ASSUME NEW l \in 1 .. m - 1, sentTo'[l] = sentTo'[m]
      PROVE  l \in executed' \/ fate'[l] \notin {"open", "confirmed"}
  <2>1. l \in Messages
    BY BoundsAssumption DEF Messages
  <2>2. sentTo[l] # NoSession
    BY <1>1 DEF QueueInv, SentInOrder
  <2>3. sentTo'[l] = sentTo[l] /\ fate[l] # "unsent"
    BY <2>1, <2>2 DEF QueueInv, SentInOrder, Onward
  <2>4. CASE l \in executed
    BY <2>4 DEF Onward
  <2>5. CASE fate[l] \notin {"open", "confirmed"}
    <3>1. fate[l] \in {"refused", "expired", "lost"}
      BY <2>1, <2>3, <2>5 DEF TypeInv, OtherTypes
    <3>. QED
      BY <2>1, <3>1 DEF Onward
  <2>. QED
    BY <1>1, <1>2, <2>3, <2>4, <2>5 DEF Foremost
<1>. QED
  BY <1>1, <1>2 DEF Foremost

\* The inductive invariant
Inv == TypeInv /\ QueueInv /\ AttemptInv /\ OrderInv

LEMMA InitInv == Init => Inv
<1>. SUFFICES ASSUME Init PROVE Inv
  OBVIOUS
<1>1. \A a \in Attempts : attempt[a].st = "free"
  BY IdleTypes DEF Init
<1>. QED
  BY <1>1, InitTypes, InitQueue, InitAttempts DEF Inv, OrderInv

LEMMA NextInv == Inv /\ [Next]_vars => Inv'
<1>. SUFFICES ASSUME Inv, [Next]_vars PROVE Inv'
  OBVIOUS
<1>1. /\ TypeInv /\ QueueInv /\ AttemptInv /\ OrderInv
      /\ TypeInv' /\ QueueInv' /\ AttemptInv' /\ Continues /\ Onward
  BY NextTypes, NextQueue, NextAttempts, NextIsOnward DEF Inv
<1>2. ASSUME NEW a \in Attempts, attempt'[a].st # "free"
      PROVE  Foremost(attempt'[a].msg, sentTo', fate', executed')
  <2>1. CASE attempt[a].st # "free" /\ attempt'[a].msg = attempt[a].msg
    <3>1. attempt[a].msg \in Messages /\ Foremost(attempt[a].msg, sentTo, fate, executed)
      BY <1>1, <2>1 DEF TypeInv, QueueTypes, TurnIsTyped, Carries, OrderInv
    <3>. QED
      BY <1>1, <2>1, <3>1, ForemostStays
  <2>2. CASE turn'.phase = "request" /\ turn'.att = a
    <3>1. PICK q \in Seq(Item), x \in Item : q = queue' /\ x = turn'.item
      BY <1>1, <2>2 DEF TypeInv, QueueTypes, TurnIsTyped
    <3>2. attempt'[a].msg = x.msg
      BY <1>1, <2>2, <3>1 DEF AttemptInv, TurnHasAttempt
    <3>3. /\ QueueOK(q, {x}, fate') /\ Addressed(q, sentTo')
          /\ x.session = sentTo'[x.msg]
      BY <1>1, <2>2, <3>1 DEF QueueInv, InFlight, TurnAddressed
    <3>4. \A m \in Messages : fate'[m] = "confirmed" => m \in executed'
      BY <1>1 DEF AttemptInv, ConfirmedIsExecuted
    <3>5. Foremost(x.msg, sentTo', fate', executed')
      BY <3>3, <3>4, InFlightIsForemost
    <3>. QED
      BY <3>2, <3>5
  <2>. QED
    BY <1>1, <1>2, <2>1, <2>2 DEF Continues
<1>. QED
  BY <1>1, <1>2 DEF Inv, OrderInv

LEMMA InvHolds == Spec => []Inv
BY InitInv, NextInv, PTL DEF Spec

------------------------------------------------------------------------------
(* Refinement: ChatQueue implements Delivery.  Every step is one of its steps,  *)
(* or leaves the history alone.                                                 *)

LEMMA HistoryIsPromised ==
    UNCHANGED history => UNCHANGED Promise!vars
BY DEF history, Promise!vars

LEMMA InitPromise == Init => Promise!Init
BY DEF Init, Promise!Init

\* A message is sent to the session that is selected.
LEMMA SendIsPromised ==
    ASSUME Inv, NEW m \in Messages, SendMessage(m)
    PROVE  Promise!Next
<1>1. cur \in Sessions
  BY DEF SendMessage, Inv, TypeInv, OtherTypes
<1>2. Promise!Send(m, cur)
  BY DEF SendMessage, Promise!Send
<1>. QED
  BY <1>1, <1>2 DEF Promise!Next

\* The end of a turn settles the fate of the message in flight.
LEMMA AnswerIsPromised ==
    ASSUME Inv, NEW a \in Attempts, TurnStep(a)
    PROVE  [Promise!Next]_(Promise!vars)
<1>1. CASE Forbidden(a) \/ TokenFetched(a) \/ SendFailed(a)
  BY <1>1, HistoryIsPromised DEF Forbidden, TokenFetched, SendFailed
<1>2. CASE Confirmed(a) \/ Refused(a)
  <2>1. turn.phase \in {"request", "token", "retry"} /\ turn.att = a
    BY <1>2 DEF Confirmed, Refused, Awaits
  <2>2. turn.item.msg \in Messages /\ fate[turn.item.msg] = "open"
    BY <2>1, ItemFields
       DEF Inv, TypeInv, QueueTypes, TurnIsTyped, QueueInv, QueueOK, InFlight
  <2>3. CASE Confirmed(a)
    <3>1. turn.item.msg \in executed
      BY <2>1, <2>3 DEF Inv, AttemptInv, TurnHasAttempt, ServedIsExecuted, Received, Confirmed
    <3>2. Promise!Confirm(turn.item.msg)
      BY <2>2, <2>3, <3>1 DEF Confirmed, Promise!Confirm
    <3>. QED
      BY <2>2, <3>2 DEF Promise!Next
  <2>4. CASE Refused(a)
    <3>1. Promise!Refuse(turn.item.msg)
      BY <2>2, <2>4 DEF Refused, Promise!Refuse
    <3>. QED
      BY <2>2, <3>1 DEF Promise!Next
  <2>. QED
    BY <1>2, <2>3, <2>4
<1>. QED
  BY <1>1, <1>2 DEF TurnStep

\* What the gateway receives is the message of an attempt that is not free.
LEMMA ReceiptIsPromised ==
    ASSUME Inv, NEW a \in Attempts, ServerStep(a)
    PROVE  [Promise!Next]_(Promise!vars)
<1>1. UNCHANGED <<sentTo, fate>>
  BY DEF ServerStep
<1>2. CASE GatewayReceives(a)
  <2>1. /\ executed' = executed \cup {attempt[a].msg}
        /\ "pending" \in {attempt[a].ws, attempt[a].http}
    BY <1>2 DEF GatewayReceives
  <2>2. attempt[a].st # "free" /\ attempt[a].msg \in Messages
    BY <2>1 DEF Inv, TypeInv, QueueTypes, TurnIsTyped, Carries
  <2>3. Foremost(attempt[a].msg, sentTo, fate, executed)
    BY <2>2 DEF Inv, OrderInv
  <2>4. Promise!Receive(attempt[a].msg)
    BY <1>1, <2>1, <2>3 DEF Foremost, Promise!Receive
  <2>. QED
    BY <2>2, <2>4 DEF Promise!Next
<1>3. CASE ~GatewayReceives(a)
  <2>1. UNCHANGED executed
    BY <1>3 DEF ServerStep, Progress, Failure, Arrives, Answered, Over, TurnedDown, WsFails,
                HttpFails
  <2>. QED
    BY <1>1, <2>1 DEF Promise!vars
<1>. QED
  BY <1>2, <1>3

\* A reload forgets the open messages it does not bring back.
LEMMA ReloadIsPromised ==
    ASSUME Inv, Reload
    PROVE  Promise!Next
<1>. DEFINE S == {m \in Messages : fate'[m] # fate[m]}
<1>1. UNCHANGED <<sentTo, executed>>
  BY DEF Reload
<1>2. /\ fate' = [m \in Messages |-> fate'[m]]
      /\ \A m \in S : fate[m] = "open" /\ fate'[m] \in {"expired", "lost"}
  BY DEF Reload
<1>3. [m \in S |-> fate'[m]] \in [S -> {"expired", "lost"}]
  BY <1>2
<1>4. fate' = [m \in Messages |-> IF m \in S THEN [l \in S |-> fate'[l]][m] ELSE fate[m]]
  BY <1>2
<1>5. Promise!Forget(S)
  BY <1>1, <1>2, <1>3, <1>4 DEF Promise!Forget
<1>. QED
  BY <1>5 DEF Promise!Next

LEMMA NextIsPromised == Inv /\ [Next]_vars => [Promise!Next]_(Promise!vars)
<1>. SUFFICES ASSUME Inv, [Next]_vars PROVE [Promise!Next]_(Promise!vars)
  OBVIOUS
<1>1. CASE \/ HistoryPolled \/ RetryTimerFires \/ HealthPolled \/ GoOffline \/ GoOnline
           \/ \E s \in Sessions : SessionStep(s)
  BY <1>1, HistoryIsPromised
     DEF HistoryPolled, RetryTimerFires, HealthPolled, GoOffline, GoOnline, SessionStep,
         SelectSession, SessionKeyStored, HistoryLoaded
<1>2. CASE UNCHANGED vars
  BY <1>2, HistoryIsPromised DEF vars
<1>. QED
  BY <1>1, <1>2, SendIsPromised, AnswerIsPromised, ReceiptIsPromised, ReloadIsPromised DEF Next

------------------------------------------------------------------------------
(* Theorems *)

\* The variables always have their types.
THEOREM MessageTypes == Spec => []TypeOK
<1>1. Inv => TypeOK
  BY DEF Inv, TypeInv, QueueTypes, OtherTypes, TypeOK
<1>. QED
  BY <1>1, InvHolds, PTL

\* A message whose fate is open is in the queue or being sent, exactly once, and
\* one that is done with is nowhere (index.html:4081-4170).
THEOREM MessagesHeldOnce == Spec => []HeldExactlyOnce
<1>1. Inv => HeldExactlyOnce
  BY HeldOnce DEF Inv
<1>. QED
  BY <1>1, InvHolds, PTL

\* What a reload would bring back is the front of the queue, apart from items too
\* old to come back (index.html:2041-2072, 4097-4098, 4117, 4150).
THEOREM StorageIsTheQueue == Spec => []StoredIsQueue
<1>1. Inv => StoredIsQueue
  BY DEF Inv, QueueInv, StoredOK
<1>. QED
  BY <1>1, InvHolds, PTL

\* What the page shows as sent, the gateway has received, whichever of the two
\* ways the server used, after whatever retries (server.js:1250-1262).
THEOREM ConfirmedMessagesWereReceived == Spec => []ConfirmedIsExecuted
<1>1. Inv => ConfirmedIsExecuted
  BY DEF Inv, AttemptInv
<1>. QED
  BY <1>1, InvHolds, PTL

\* The page, the route and the gateway together implement Delivery: the gateway
\* first sees the messages of a session in the order the user sent them, through
\* failures, retries, changes of session and reloads, and what became of a message
\* stays so; only one that was refused, or that a reload caught unsaved or too old,
\* is overtaken (index.html:4081-4170, server.js:1231-1275).
THEOREM ImplementsDelivery == Spec => DeliversInOrder
<1>. QED
  BY InitPromise, InvHolds, NextIsPromised, PTL DEF Spec, DeliversInOrder, Promise!Spec
==============================================================================
