--------------------------- MODULE LinkPreviewProofs ---------------------------
(***************************************************************************)
(* The limiter of the link previews never leaks, exceeds or idles a slot,  *)
(* a shared fetch is a running one and the only one of its URL, for any    *)
(* number of requests, hosts, slots, retries and redirects.  The argument: *)
(* the queue of a host holds exactly the fetches that wait for it, each    *)
(* once, so the one _release wakes takes over the very slot that was given *)
(* up.                                                                     *)
(*                                                                         *)
(* The cache stays within its size: the keys in it are ordered by age, so  *)
(* a full one has an oldest key, and that one goes before another comes.   *)
(***************************************************************************)
EXTENDS LinkPreview, FiniteSetTheorems, SequenceTheorems, WellFoundedInduction, TLAPS

\* The queue of a host holds the fetches that wait for it, once.
QueueIsExact ==
    /\ \A h \in Hosts :
          /\ \A i \in 1..Len(waiters[h]) :
                phase[waiters[h][i]] = "queued" /\ HostAt(waiters[h][i]) = h
          /\ \A i, j \in 1..Len(waiters[h]) : waiters[h][i] = waiters[h][j] => i = j
    /\ \A q \in Requests : phase[q] = "queued" =>
          \E i \in 1..Len(waiters[HostAt(q)]) : waiters[HostAt(q)][i] = q

HoldingIsFinite == \A h \in Hosts : IsFiniteSet(Holding(h))

Limiter == HoldingIsFinite /\ SlotsAccounted /\ QueueIsExact
IInv == TypeOfRequests /\ Limiter /\ JoinedToRunningFetch

InLimiter == {"fetching", "queued"}

LEMMA HostOfHop ==
    ASSUME TypeOfRequests, NEW q \in Requests
    PROVE  HostAt(q) \in Hosts
BY HostAssumption DEF HostAt, TypeOfRequests

LEMMA QueuedFields ==
    ASSUME TypeOfRequests, NEW h \in Hosts
    PROVE  /\ Len(waiters[h]) \in Nat
           /\ \A i \in 1..Len(waiters[h]) : waiters[h][i] \in Requests
           /\ waiters[h] # <<>> <=> Len(waiters[h]) > 0
<1>1. waiters[h] \in Seq(Requests)
  BY DEF TypeOfRequests
<1>. QED
  BY <1>1, ElementOfSeq, EmptySeq, LenProperties

------------------------------------------------------------------------------
(* What a step does to the limiter *)

\* Requests move outside of the limiter.
LEMMA LimiterUntouched ==
    ASSUME TypeOfRequests, Limiter, UNCHANGED limiterVars,
           \A r \in Requests : \/ phase'[r] = phase[r] /\ hop'[r] = hop[r]
                               \/ phase[r] \notin InLimiter /\ phase'[r] \notin InLimiter
    PROVE  Limiter'
<1>1. \A r \in Requests : phase[r] \in InLimiter \/ phase'[r] \in InLimiter =>
         phase'[r] = phase[r] /\ HostAt(r)' = HostAt(r)
  BY DEF HostAt
<1>2. \A h \in Hosts : Holding(h)' = Holding(h)
  BY <1>1 DEF Holding, InLimiter
<1>3. HoldingIsFinite' /\ SlotsAccounted'
  BY <1>2 DEF Limiter, HoldingIsFinite, SlotsAccounted, NoIdleSlot, limiterVars
<1>4. QueueIsExact'
  <2>1. \A h \in Hosts : /\ Len(waiters[h]) \in Nat
                         /\ \A i \in 1..Len(waiters[h]) : waiters[h][i] \in Requests
    BY QueuedFields
  <2>2. waiters' = waiters
    BY DEF limiterVars
  <2>. QED
    BY <1>1, <2>1, <2>2 DEF Limiter, QueueIsExact, InLimiter
<1>. QED
  BY <1>3, <1>4 DEF Limiter

\* A fetch takes a slot of its host or queues for one.
LEMMA EnterKeepsLimiter ==
    ASSUME TypeOfRequests, Limiter, NEW q \in Requests, phase[q] \notin InLimiter,
           EnterLimiter(q), hop' = hop
    PROVE  Limiter'
<1>. DEFINE h == HostAt(q)
<1>1. h \in Hosts /\ MaxConcurrent \in Nat /\ active[h] \in Nat
  BY HostOfHop, LimitAssumption DEF TypeOfRequests
<1>2. \A r \in Requests : HostAt(r)' = HostAt(r)
  BY DEF HostAt
<1>3. CASE active[h] < MaxConcurrent
  <2>1. /\ phase' = [phase EXCEPT ![q] = "fetching"]
        /\ active' = [active EXCEPT ![h] = @ + 1] /\ waiters' = waiters
    BY <1>3 DEF EnterLimiter
  <2>2. \A r \in Requests : phase'[r] = IF r = q THEN "fetching" ELSE phase[r]
    BY <2>1 DEF TypeOfRequests
  <2>3. \A k \in Hosts : active'[k] = IF k = h THEN active[k] + 1 ELSE active[k]
    BY <1>1, <2>1 DEF TypeOfRequests
  <2>4. ASSUME NEW k \in Hosts
        PROVE  /\ IsFiniteSet(Holding(k)') /\ active'[k] = Cardinality(Holding(k)')
               /\ active'[k] <= MaxConcurrent /\ NoIdleSlot(k)'
    <3>1. CASE k = h
      <4>1. Holding(k)' = Holding(k) \cup {q} /\ q \notin Holding(k)
        BY <1>2, <2>2, <3>1 DEF Holding, InLimiter
      <4>2. IsFiniteSet(Holding(k)) /\ active[k] = Cardinality(Holding(k))
        BY DEF Limiter, HoldingIsFinite, SlotsAccounted
      <4>3. IsFiniteSet(Holding(k)') /\ Cardinality(Holding(k)') = active[k] + 1
        BY <4>1, <4>2, FS_AddElement
      <4>4. waiters[k] = <<>>
        BY <1>1, <1>3, <3>1 DEF Limiter, SlotsAccounted, NoIdleSlot
      <4>. QED
        BY <1>1, <1>3, <2>1, <2>3, <3>1, <4>3, <4>4 DEF NoIdleSlot
    <3>2. CASE k # h
      <4>1. Holding(k)' = Holding(k)
        BY <1>2, <2>2, <3>2 DEF Holding, InLimiter
      <4>. QED
        BY <2>1, <2>3, <3>2, <4>1 DEF Limiter, HoldingIsFinite, SlotsAccounted, NoIdleSlot
    <3>. QED
      BY <3>1, <3>2
  <2>5. QueueIsExact'
    <3>1. \A k \in Hosts : \A i \in 1..Len(waiters[k]) : waiters[k][i] \in Requests /\ waiters[k][i] # q
      BY QueuedFields DEF Limiter, QueueIsExact, InLimiter
    <3>2. /\ \A k \in Hosts : \A i \in 1..Len(waiters[k]) :
                phase'[waiters[k][i]] = "queued" /\ HostOf[hop[waiters[k][i]]] = k
          /\ \A k \in Hosts : \A i, j \in 1..Len(waiters[k]) : waiters[k][i] = waiters[k][j] => i = j
      BY <2>2, <3>1 DEF Limiter, QueueIsExact, HostAt
    <3>3. \A r \in Requests : phase'[r] = "queued" =>
             \E i \in 1..Len(waiters[HostAt(r)]) : waiters[HostAt(r)][i] = r
      BY <2>2 DEF Limiter, QueueIsExact
    <3>. QED
      BY <1>2, <2>1, <3>2, <3>3 DEF QueueIsExact, HostAt
  <2>. QED
    BY <2>4, <2>5 DEF Limiter, HoldingIsFinite, SlotsAccounted
<1>4. CASE ~(active[h] < MaxConcurrent)
  <2>1. /\ phase' = [phase EXCEPT ![q] = "queued"]
        /\ waiters' = [waiters EXCEPT ![h] = Append(@, q)] /\ active' = active
    BY <1>4 DEF EnterLimiter
  <2>2. \A r \in Requests : phase'[r] = IF r = q THEN "queued" ELSE phase[r]
    BY <2>1 DEF TypeOfRequests
  <2>3. \A k \in Hosts : waiters'[k] = IF k = h THEN Append(waiters[h], q) ELSE waiters[k]
    BY <1>1, <2>1 DEF TypeOfRequests
  <2>4. \A k \in Hosts : Holding(k)' = Holding(k)
    BY <1>2, <2>2 DEF Holding, InLimiter
  <2>5. active[h] = MaxConcurrent
    BY <1>1, <1>4 DEF Limiter, SlotsAccounted
  <2>6. HoldingIsFinite' /\ SlotsAccounted'
    BY <2>1, <2>3, <2>4, <2>5 DEF Limiter, HoldingIsFinite, SlotsAccounted, NoIdleSlot
  <2>. DEFINE n == Len(waiters[h])
              a == Append(waiters[h], q)
  <2>7. /\ n \in Nat /\ Len(a) = n + 1 /\ a[n + 1] = q
        /\ \A i \in 1..n : a[i] = waiters[h][i]
    BY <1>1, AppendProperties, QueuedFields DEF TypeOfRequests
  <2>. HIDE DEF a, n
  <2>8. \A k \in Hosts : \A i \in 1..Len(waiters[k]) : waiters[k][i] \in Requests /\ waiters[k][i] # q
    BY QueuedFields DEF Limiter, QueueIsExact, InLimiter
  <2>9. ASSUME NEW k \in Hosts
        PROVE  /\ \A i \in 1..Len(waiters'[k]) :
                     phase'[waiters'[k][i]] = "queued" /\ HostOf[hop[waiters'[k][i]]] = k
               /\ \A i, j \in 1..Len(waiters'[k]) : waiters'[k][i] = waiters'[k][j] => i = j
    <3>1. CASE k # h
      BY <2>2, <2>3, <2>8, <3>1 DEF Limiter, QueueIsExact, HostAt
    <3>2. CASE k = h
      <4>1. waiters'[k] = a
        BY <2>3, <3>2 DEF a
      <4>2. \A i \in 1..n : /\ phase[waiters[h][i]] = "queued" /\ HostOf[hop[waiters[h][i]]] = h
                            /\ waiters[h][i] \in Requests /\ waiters[h][i] # q
        BY <1>1, <2>8 DEF n, Limiter, QueueIsExact, HostAt
      <4>3. \A i, j \in 1..n : waiters[h][i] = waiters[h][j] => i = j
        BY <1>1 DEF n, Limiter, QueueIsExact
      <4>4. \A i \in 1..(n + 1) : i \in 1..n \/ i = n + 1
        BY <2>7
      <4>5. \A i \in 1..(n + 1) : phase'[a[i]] = "queued" /\ HostOf[hop[a[i]]] = h
        BY <2>2, <2>7, <4>2, <4>4 DEF HostAt
      <4>6. \A i, j \in 1..(n + 1) : a[i] = a[j] => i = j
        BY <2>7, <4>2, <4>3, <4>4
      <4>. QED
        BY <2>7, <3>2, <4>1, <4>5, <4>6
    <3>. QED
      BY <3>1, <3>2
  <2>10. ASSUME NEW r \in Requests, phase'[r] = "queued"
         PROVE  \E i \in 1..Len(waiters'[HostAt(r)]) : waiters'[HostAt(r)][i] = r
    <3>. DEFINE k == HostAt(r)
    <3>1. k \in Hosts
      BY HostOfHop
    <3>2. CASE r = q
      <4>1. waiters'[k] = a
        BY <2>3, <3>1, <3>2 DEF a
      <4>2. n + 1 \in 1..Len(a)
        BY <2>7
      <4>. QED
        BY <2>7, <3>2, <4>1, <4>2
    <3>3. CASE r # q
      <4>1. PICK i \in 1..Len(waiters[k]) : waiters[k][i] = r
        BY <2>2, <2>10, <3>3 DEF Limiter, QueueIsExact
      <4>2. CASE k = h
        <5>1. waiters'[k] = a
          BY <2>3, <3>1, <4>2 DEF a
        <5>2. i \in 1..n /\ waiters[h][i] = r
          BY <4>1, <4>2 DEF n
        <5>3. i \in 1..Len(a) /\ a[i] = r
          BY <2>7, <5>2
        <5>. QED
          BY <5>1, <5>3
      <4>3. CASE k # h
        BY <2>3, <3>1, <4>1, <4>3
      <4>. QED
        BY <4>2, <4>3
    <3>. QED
      BY <3>2, <3>3
  <2>11. QueueIsExact'
    BY <1>2, <2>9, <2>10 DEF QueueIsExact, HostAt
  <2>. QED
    BY <2>6, <2>11 DEF Limiter
<1>. QED
  BY <1>3, <1>4

\* Only the first fetch in the queue of a host is woken.
LEMMA WokenIsQueued ==
    ASSUME TypeOfRequests, Limiter, NEW h \in Hosts
    PROVE  /\ \A r \in Woken(h) : /\ r \in Requests /\ phase[r] = "queued" /\ HostAt(r) = h
                                  /\ r = waiters[h][1]
           /\ IF waiters[h] = <<>> THEN Woken(h) = {} ELSE Woken(h) = {waiters[h][1]}
<1>1. CASE waiters[h] = <<>>
  BY <1>1 DEF Woken
<1>2. CASE waiters[h] # <<>>
  <2>1. waiters[h] \in Seq(Requests)
    BY DEF TypeOfRequests
  <2>2. Woken(h) = {waiters[h][1]}
    BY <1>2, <2>1, HeadTailProperties DEF Woken
  <2>3. 1 \in 1..Len(waiters[h]) /\ waiters[h][1] \in Requests
    BY <1>2, QueuedFields
  <2>. QED
    BY <1>2, <2>2, <2>3 DEF Limiter, QueueIsExact
<1>. QED
  BY <1>1, <1>2

\* A fetch gives its slot back; the first in the queue of its host takes it over.
LEMMA ReleaseKeepsLimiter ==
    ASSUME TypeOfRequests, Limiter, NEW q \in Requests, phase[q] = "fetching",
           Release(HostAt(q)),
           phase'[q] \notin InLimiter,
           \A r \in Requests \ {q} :
              /\ hop'[r] = hop[r]
              /\ IF r \in Woken(HostAt(q)) THEN phase'[r] = "fetching"
                 ELSE \/ phase'[r] = phase[r]
                      \/ phase[r] \notin InLimiter /\ phase'[r] \notin InLimiter
    PROVE  Limiter' /\ active' \in [Hosts -> Nat] /\ waiters' \in [Hosts -> Seq(Requests)]
<1>0. PICK h \in Hosts : h = HostAt(q)
  BY HostOfHop
<1>. DEFINE W == Woken(h)
<1>1. h \in Hosts /\ active[h] \in Nat
  BY DEF TypeOfRequests
<1>2. \A r \in Requests \ {q} : HostAt(r)' = HostAt(r)
  BY DEF HostAt
<1>3. /\ \A k \in Hosts : active'[k] = IF k = h THEN (active[h] - 1) + Cardinality(W) ELSE active[k]
      /\ \A k \in Hosts : waiters'[k] = IF k = h /\ waiters[h] # <<>> THEN Tail(waiters[h]) ELSE waiters[k]
  BY <1>0, <1>1 DEF Release, TypeOfRequests
<1>4. /\ \A r \in W : /\ r \in Requests /\ r # q /\ phase[r] = "queued" /\ HostAt(r) = h
                      /\ r = waiters[h][1]
      /\ IF waiters[h] = <<>> THEN W = {} ELSE W = {waiters[h][1]}
  BY <1>1, WokenIsQueued
<1>5. /\ IsFiniteSet(W)
      /\ Cardinality(W) = IF waiters[h] = <<>> THEN 0 ELSE 1
  <2>1. CASE waiters[h] = <<>>
    BY <1>4, <2>1, FS_EmptySet
  <2>2. CASE waiters[h] # <<>>
    <3>1. W = {waiters[h][1]}
      BY <1>4, <2>2
    <3>2. \A x : IsFiniteSet({x}) /\ Cardinality({x}) = 1
      BY FS_Singleton
    <3>. QED
      BY <2>2, <3>1, <3>2
  <2>. QED
    BY <2>1, <2>2
<1>. HIDE DEF W
<1>6. \A r \in Requests \ {q} :
         IF r \in W THEN phase'[r] = "fetching"
         ELSE \/ phase'[r] = phase[r]
              \/ phase[r] \notin InLimiter /\ phase'[r] \notin InLimiter
  BY <1>0 DEF W
<1>7. HostAt(q) = h
  BY <1>0
<1>8. \A k \in Hosts \ {h} : Holding(k)' = Holding(k)
  BY <1>2, <1>4, <1>6, <1>7 DEF Holding, InLimiter
<1>9. Holding(h)' = (Holding(h) \ {q}) \cup W
  <2>1. ASSUME NEW r \in Requests
        PROVE  r \in Holding(h)' <=> r \in (Holding(h) \ {q}) \cup W
    <3>1. CASE r = q
      BY <1>4, <3>1 DEF Holding, InLimiter
    <3>2. CASE r # q
      BY <1>2, <1>4, <1>6, <3>2 DEF Holding, InLimiter
    <3>. QED
      BY <3>1, <3>2
  <2>2. Holding(h)' \subseteq Requests /\ Holding(h) \subseteq Requests /\ W \subseteq Requests
    BY <1>4 DEF Holding
  <2>. QED
    BY <2>1, <2>2
<1>10. /\ IsFiniteSet(Holding(h)') /\ Cardinality(Holding(h)') = (active[h] - 1) + Cardinality(W)
       /\ Cardinality(Holding(h)') \in Nat
  <2>1. IsFiniteSet(Holding(h)) /\ Cardinality(Holding(h)) = active[h] /\ q \in Holding(h)
    BY <1>1, <1>7 DEF Limiter, HoldingIsFinite, SlotsAccounted, Holding
  <2>2. IsFiniteSet(Holding(h) \ {q}) /\ Cardinality(Holding(h) \ {q}) = active[h] - 1
    BY <2>1, FS_RemoveElement
  <2>3. CASE waiters[h] = <<>>
    <3>1. Holding(h)' = Holding(h) \ {q} /\ Cardinality(W) = 0
      BY <1>4, <1>5, <1>9, <2>3
    <3>. QED
      BY <1>1, <2>2, <3>1, FS_CardinalityType
  <2>4. CASE waiters[h] # <<>>
    <3>. DEFINE w == waiters[h][1]
    <3>1. Holding(h)' = (Holding(h) \ {q}) \cup {w} /\ w \notin Holding(h) /\ Cardinality(W) = 1
      BY <1>4, <1>5, <1>9, <2>4 DEF Holding
    <3>. HIDE DEF w
    <3>2. w \notin Holding(h) \ {q}
      BY <3>1
    <3>3. /\ IsFiniteSet((Holding(h) \ {q}) \cup {w})
          /\ Cardinality((Holding(h) \ {q}) \cup {w}) = (active[h] - 1) + 1
      BY <2>2, <3>2, FS_AddElement
    <3>. QED
      BY <3>1, <3>3, FS_CardinalityType
  <2>. QED
    BY <2>3, <2>4
<1>11. HoldingIsFinite'
  BY <1>8, <1>10 DEF HoldingIsFinite, Limiter
<1>12. SlotsAccounted'
  <2>1. ASSUME NEW k \in Hosts
        PROVE  /\ active'[k] = Cardinality(Holding(k)') /\ active'[k] <= MaxConcurrent
               /\ NoIdleSlot(k)'
    <3>1. CASE k # h
      BY <1>3, <1>8, <3>1 DEF Limiter, SlotsAccounted, NoIdleSlot
    <3>2. CASE k = h
      <4>1. active'[h] = Cardinality(Holding(h)')
        BY <1>1, <1>3, <1>10
      <4>2. active[h] <= MaxConcurrent /\ MaxConcurrent \in Nat
        BY <1>1, LimitAssumption DEF Limiter, SlotsAccounted
      <4>3. active'[h] <= MaxConcurrent
        BY <1>1, <1>3, <1>5, <4>2
      <4>4. waiters'[h] # <<>> => active'[h] = MaxConcurrent
        <5>1. CASE waiters[h] = <<>>
          BY <1>1, <1>3, <5>1
        <5>2. CASE waiters[h] # <<>>
          BY <1>1, <1>3, <1>5, <4>2, <5>2 DEF Limiter, SlotsAccounted, NoIdleSlot
        <5>. QED
          BY <5>1, <5>2
      <4>. QED
        BY <3>2, <4>1, <4>3, <4>4 DEF NoIdleSlot
    <3>. QED
      BY <3>1, <3>2
  <2>. QED
    BY <2>1 DEF SlotsAccounted
<1>13. ASSUME NEW k \in Hosts
       PROVE  /\ Len(waiters'[k]) \in Nat
              /\ \A i \in 1..Len(waiters'[k]) :
                    \E j \in 1..Len(waiters[k]) :
                       waiters'[k][i] = waiters[k][j] /\ waiters[k][j] \notin W
              /\ \A i, j \in 1..Len(waiters'[k]) : waiters'[k][i] = waiters'[k][j] => i = j
              /\ \A j \in 1..Len(waiters[k]) : waiters[k][j] \notin W =>
                    \E i \in 1..Len(waiters'[k]) : waiters'[k][i] = waiters[k][j]
  <2>. DEFINE n == Len(waiters[k])
  <2>1. /\ n \in Nat
        /\ \A i, j \in 1..n : waiters[k][i] = waiters[k][j] => i = j
        /\ \A i \in 1..n : HostAt(waiters[k][i]) = k
    BY QueuedFields DEF Limiter, QueueIsExact
  <2>2. CASE k = h /\ waiters[h] # <<>>
    <3>. DEFINE t == Tail(waiters[k])
    <3>1. Len(t) = n - 1 /\ \A i \in 1..Len(t) : t[i] = waiters[k][i + 1]
      BY <2>2, HeadTailProperties DEF TypeOfRequests
    <3>2. waiters'[k] = t /\ W = {waiters[k][1]} /\ n > 0
      BY <1>3, <1>4, <2>2, QueuedFields
    <3>. HIDE DEF t, n
    <3>3. \A i \in 1..Len(t) : /\ i + 1 \in 1..n /\ t[i] = waiters[k][i + 1]
                               /\ waiters[k][i + 1] \notin W
      BY <2>1, <3>1, <3>2
    <3>4. \A i, j \in 1..Len(t) : t[i] = t[j] => i = j
      <4>1. \A i, j \in 1..Len(t) : t[i] = t[j] => i + 1 = j + 1
        BY <2>1, <3>3
      <4>. QED
        BY <2>1, <3>1, <4>1
    <3>5. ASSUME NEW j \in 1..n, waiters[k][j] \notin W
          PROVE  \E i \in 1..Len(t) : t[i] = waiters[k][j]
      <4>1. j # 1
        BY <3>2, <3>5
      <4>2. j - 1 \in 1..Len(t) /\ (j - 1) + 1 = j
        BY <2>1, <3>1, <4>1
      <4>. QED
        BY <3>1, <4>2
    <3>6. Len(t) \in Nat
      BY <2>1, <3>1, <3>2
    <3>7. \A i \in 1..Len(t) : \E j \in 1..n : t[i] = waiters[k][j] /\ waiters[k][j] \notin W
      BY <3>3
    <3>. QED
      BY <3>2, <3>4, <3>5, <3>6, <3>7 DEF n
  <2>3. CASE ~(k = h /\ waiters[h] # <<>>)
    <3>1. waiters'[k] = waiters[k]
      BY <1>1, <1>3, <2>3
    <3>2. \A i \in 1..n : waiters[k][i] \notin W
      BY <1>1, <1>4, <2>1, <2>3
    <3>. QED
      BY <2>1, <3>1, <3>2
  <2>. QED
    BY <2>2, <2>3
<1>14. QueueIsExact'
  <2>1. ASSUME NEW k \in Hosts, NEW i \in 1..Len(waiters'[k])
        PROVE  phase'[waiters'[k][i]] = "queued" /\ HostOf[hop'[waiters'[k][i]]] = k
    <3>1. PICK j \in 1..Len(waiters[k]) :
             waiters'[k][i] = waiters[k][j] /\ waiters[k][j] \notin W
      BY <1>13, <2>1
    <3>. DEFINE r == waiters[k][j]
    <3>2. r \in Requests /\ phase[r] = "queued" /\ HostOf[hop[r]] = k
      BY QueuedFields DEF Limiter, QueueIsExact, HostAt
    <3>3. r # q
      BY <3>2
    <3>. HIDE DEF r
    <3>4. hop'[r] = hop[r] /\ phase'[r] = phase[r]
      BY <1>6, <3>1, <3>2, <3>3 DEF InLimiter, r
    <3>. QED
      BY <3>1, <3>2, <3>4 DEF r
  <2>2. ASSUME NEW r \in Requests, phase'[r] = "queued"
        PROVE  \E i \in 1..Len(waiters'[HostAt(r)']) : waiters'[HostAt(r)'][i] = r
    <3>1. r # q /\ r \notin W /\ phase[r] = "queued"
      BY <1>6, <2>2 DEF InLimiter
    <3>2. HostAt(r)' = HostAt(r) /\ HostAt(r) \in Hosts
      BY <1>2, <3>1, HostOfHop
    <3>3. PICK j \in 1..Len(waiters[HostAt(r)]) : waiters[HostAt(r)][j] = r
      BY <3>1 DEF Limiter, QueueIsExact
    <3>. QED
      BY <1>13, <3>1, <3>2, <3>3
  <2>. QED
    BY <1>13, <2>1, <2>2 DEF QueueIsExact, HostAt
<1>15. active' \in [Hosts -> Nat]
  <2>1. active'[h] \in Nat
    BY <1>1, <1>3, <1>10
  <2>2. active' = [active EXCEPT ![h] = active'[h]]
    BY <1>0, <1>1 DEF Release, TypeOfRequests
  <2>. QED
    BY <1>1, <2>1, <2>2 DEF TypeOfRequests
<1>16. waiters' \in [Hosts -> Seq(Requests)]
  <2>1. CASE waiters[h] = <<>>
    <3>1. waiters' = waiters
      BY <1>0, <1>1, <2>1 DEF Release, TypeOfRequests
    <3>. QED
      BY <3>1 DEF TypeOfRequests
  <2>2. CASE waiters[h] # <<>>
    <3>1. waiters' = [waiters EXCEPT ![h] = Tail(waiters[h])]
      BY <1>0, <1>1, <2>2 DEF Release, TypeOfRequests
    <3>2. Tail(waiters[h]) \in Seq(Requests)
      BY <1>1, <2>2, HeadTailProperties DEF TypeOfRequests
    <3>. QED
      BY <3>1, <3>2 DEF TypeOfRequests
  <2>. QED
    BY <2>1, <2>2
<1>. QED
  BY <1>11, <1>12, <1>14, <1>15, <1>16 DEF Limiter

------------------------------------------------------------------------------
(* What a step does to the requests *)

LEMMA EnterKeepsTypes ==
    ASSUME TypeOfRequests, NEW q \in Requests, EnterLimiter(q)
    PROVE  /\ phase' \in [Requests -> Phases]
           /\ active' \in [Hosts -> Nat] /\ waiters' \in [Hosts -> Seq(Requests)]
           /\ \A r \in Requests \ {q} : phase'[r] = phase[r]
           /\ phase'[q] \in Fetching
<1>. DEFINE h == HostAt(q)
<1>1. h \in Hosts /\ active[h] \in Nat /\ waiters[h] \in Seq(Requests)
  BY HostOfHop DEF TypeOfRequests
<1>2. Append(waiters[h], q) \in Seq(Requests)
  BY <1>1, AppendProperties
<1>3. CASE active[h] < MaxConcurrent
  <2>1. /\ phase' = [phase EXCEPT ![q] = "fetching"]
        /\ active' = [active EXCEPT ![h] = @ + 1] /\ waiters' = waiters
    BY <1>3 DEF EnterLimiter
  <2>2. active[h] + 1 \in Nat
    BY <1>1
  <2>. QED
    BY <1>1, <2>1, <2>2 DEF TypeOfRequests, Phases, Fetching
<1>4. CASE ~(active[h] < MaxConcurrent)
  BY <1>1, <1>2, <1>4 DEF EnterLimiter, TypeOfRequests, Phases, Fetching
<1>. QED
  BY <1>3, <1>4

\* No fetch ends.
LEMMA JoinedKept ==
    ASSUME TypeOfRequests, JoinedToRunningFetch,
           \A r \in Requests : phase[r] \in Fetching => phase'[r] \in Fetching /\ url'[r] = url[r],
           \A r \in Requests : phase'[r] = "joined" =>
              phase[r] = "joined" /\ leader'[r] = leader[r] /\ url'[r] = url[r]
    PROVE  JoinedToRunningFetch'
BY DEF TypeOfRequests, JoinedToRunningFetch

\* The end of a fetch: whoever shares it is answered with it.
LEMMA FinishKeeps ==
    ASSUME TypeOfRequests, JoinedToRunningFetch, NEW q \in Requests, phase[q] \in Fetching,
           NEW kind \in {"failed", "page"}, NEW woken, Finish(q, kind, woken),
           \A r \in woken : phase[r] = "queued"
    PROVE  /\ phase' \in [Requests -> Phases] /\ url' \in [Requests -> Urls]
           /\ leader' \in [Requests -> Requests] /\ hop' \in [Requests -> Urls]
           /\ redirects' \in [Requests -> 0..MaxRedirects]
           /\ retries' \in [Requests -> 0..MaxRetries]
           /\ aborted' \in [Requests -> BOOLEAN]
           /\ phase'[q] = "done"
           /\ \A r \in Requests \ {q} :
                 /\ hop'[r] = hop[r]
                 /\ IF r \in woken THEN phase'[r] = "fetching"
                    ELSE \/ phase'[r] = phase[r]
                         \/ phase[r] = "joined" /\ phase'[r] = "done"
           /\ JoinedToRunningFetch'
<1>1. /\ phase' = [r \in Requests |-> IF r \in Sharing(q) THEN "done"
                                      ELSE IF r \in woken THEN "fetching" ELSE phase[r]]
      /\ url' = url /\ leader' = leader
      /\ hop' = [hop EXCEPT ![q] = url[q]]
      /\ redirects' = [redirects EXCEPT ![q] = 0]
      /\ retries' = [retries EXCEPT ![q] = 0]
      /\ aborted' = [aborted EXCEPT ![q] = FALSE]
  BY DEF Finish
<1>2. /\ phase' \in [Requests -> Phases] /\ url' \in [Requests -> Urls]
      /\ leader' \in [Requests -> Requests] /\ hop' \in [Requests -> Urls]
  BY <1>1 DEF TypeOfRequests, Phases, Fetching
<1>3. /\ redirects' \in [Requests -> 0..MaxRedirects]
      /\ retries' \in [Requests -> 0..MaxRetries]
      /\ aborted' \in [Requests -> BOOLEAN]
  BY <1>1, LimitAssumption DEF TypeOfRequests
<1>4. \A r \in Requests : (r \in Sharing(q)) <=> (r = q \/ (phase[r] = "joined" /\ leader[r] = q))
  BY DEF Sharing
<1>5. \A r \in Requests :
         phase'[r] = IF r = q \/ (phase[r] = "joined" /\ leader[r] = q) THEN "done"
                     ELSE IF r \in woken THEN "fetching" ELSE phase[r]
  BY <1>1, <1>4
<1>6. phase'[q] = "done"
  BY <1>1 DEF Sharing
<1>7. ASSUME NEW r \in Requests \ {q}
      PROVE  /\ hop'[r] = hop[r]
             /\ IF r \in woken THEN phase'[r] = "fetching"
                ELSE \/ phase'[r] = phase[r]
                     \/ phase[r] = "joined" /\ phase'[r] = "done"
  BY <1>1, <1>5 DEF TypeOfRequests
<1>8. JoinedToRunningFetch'
  <2>1. ASSUME NEW r \in Requests, phase'[r] = "joined"
        PROVE  phase'[leader[r]] \in Fetching /\ url[leader[r]] = url[r]
    <3>1. phase[r] = "joined" /\ leader[r] # q /\ leader[r] \in Requests
      BY <1>5, <2>1 DEF TypeOfRequests
    <3>2. phase[leader[r]] \in Fetching /\ url[leader[r]] = url[r]
      BY <3>1 DEF JoinedToRunningFetch
    <3>. QED
      BY <1>5, <3>1, <3>2 DEF Fetching
  <2>. QED
    BY <1>1, <2>1 DEF JoinedToRunningFetch
<1>. QED
  BY <1>2, <1>3, <1>6, <1>7, <1>8

\* A fetch that gives its slot back and goes on.
LEMMA LeavingKeeps ==
    ASSUME TypeOfRequests, JoinedToRunningFetch, Limiter, NEW q \in Requests,
           phase[q] = "fetching", NEW next \in {"backoff", "resolving", "reading"},
           Release(HostAt(q)),
           phase' = [r \in Requests |-> IF r = q THEN next
                                        ELSE IF r \in Woken(HostAt(q)) THEN "fetching" ELSE phase[r]],
           url' = url, leader' = leader, \A r \in Requests \ {q} : hop'[r] = hop[r]
    PROVE  /\ phase' \in [Requests -> Phases]
           /\ active' \in [Hosts -> Nat] /\ waiters' \in [Hosts -> Seq(Requests)]
           /\ Limiter' /\ JoinedToRunningFetch'
<1>1. \A r \in Woken(HostAt(q)) : phase[r] = "queued"
  BY HostOfHop, WokenIsQueued
<1>2. phase' \in [Requests -> Phases]
  BY DEF TypeOfRequests, Phases, Fetching
<1>3. phase'[q] \notin InLimiter
  BY DEF InLimiter
<1>4. Limiter' /\ active' \in [Hosts -> Nat] /\ waiters' \in [Hosts -> Seq(Requests)]
  <2>1. \A r \in Requests \ {q} :
              /\ hop'[r] = hop[r]
              /\ IF r \in Woken(HostAt(q)) THEN phase'[r] = "fetching"
                 ELSE \/ phase'[r] = phase[r]
                      \/ phase[r] \notin InLimiter /\ phase'[r] \notin InLimiter
    OBVIOUS
  <2>. QED
    BY <1>3, <2>1, ReleaseKeepsLimiter
<1>5. JoinedToRunningFetch'
  <2>1. \A r \in Requests : phase[r] \in Fetching => phase'[r] \in Fetching /\ url'[r] = url[r]
    BY DEF Fetching
  <2>2. \A r \in Requests : phase'[r] = "joined" =>
           phase[r] = "joined" /\ leader'[r] = leader[r] /\ url'[r] = url[r]
    OBVIOUS
  <2>. QED
    BY <2>1, <2>2, JoinedKept
<1>. QED
  BY <1>2, <1>4, <1>5

------------------------------------------------------------------------------
(* The invariant *)

LEMMA InitIInv == Init => IInv
<1>. SUFFICES ASSUME Init PROVE IInv
  OBVIOUS
<1>1. /\ phase = [q \in Requests |-> "idle"] /\ hop = url
      /\ active = [h \in Hosts |-> 0] /\ waiters = [h \in Hosts |-> <<>>]
  BY DEF Init
<1>2. url \in [Requests -> Urls]
  BY HostAssumption DEF Init
<1>3. waiters \in [Hosts -> Seq(Requests)]
  BY <1>1
<1>4. TypeOfRequests
  BY <1>1, <1>2, <1>3, LimitAssumption DEF Init, TypeOfRequests, Phases, Fetching
<1>5. \A h \in Hosts : Holding(h) = {} /\ waiters[h] = <<>> /\ Len(waiters[h]) = 0
  BY <1>1 DEF Holding
<1>6. HoldingIsFinite /\ SlotsAccounted
  <2>1. IsFiniteSet({}) /\ Cardinality({}) = 0
    BY FS_EmptySet
  <2>2. HoldingIsFinite
    BY <1>5, <2>1 DEF HoldingIsFinite
  <2>3. \A h \in Hosts : active[h] = 0 /\ 0 <= MaxConcurrent /\ NoIdleSlot(h)
    BY <1>1, LimitAssumption DEF NoIdleSlot
  <2>. QED
    BY <1>5, <2>1, <2>2, <2>3 DEF SlotsAccounted
<1>7. QueueIsExact /\ JoinedToRunningFetch
  BY <1>1, <1>5 DEF QueueIsExact, JoinedToRunningFetch
<1>. QED
  BY <1>4, <1>6, <1>7 DEF IInv, Limiter

LEMMA RouteIInv ==
    ASSUME IInv, NEW q \in Requests, Route(q)
    PROVE  IInv'
<1>. USE DEF IInv
<1>1. PICK u \in Urls : Refuse(q, u) \/ AnswerFromCache(q, u) \/ JoinFetch(q, u) \/ StartFetch(q, u)
  BY DEF Route
<1>2. /\ phase[q] = "idle" /\ UNCHANGED limiterVars
      /\ phase' = [phase EXCEPT ![q] = phase'[q]]
      /\ phase'[q] \in {"done", "joined", "resolving"}
      /\ \A r \in Requests \ {q} : phase'[r] = phase[r] /\ hop'[r] = hop[r] /\ url'[r] = url[r]
                                   /\ leader'[r] = leader[r]
  <2>1. CASE Refuse(q, u)
    BY <2>1 DEF Refuse, Answer, fetchVars, TypeOfRequests
  <2>2. CASE AnswerFromCache(q, u)
    BY <2>2 DEF AnswerFromCache, Answer, fetchVars, TypeOfRequests
  <2>3. CASE JoinFetch(q, u)
    BY <2>3 DEF JoinFetch, fetchVars, TypeOfRequests
  <2>4. CASE StartFetch(q, u)
    BY <2>4 DEF StartFetch, TypeOfRequests
  <2>. QED
    BY <1>1, <2>1, <2>2, <2>3, <2>4
<1>3. Limiter'
  <2>1. \A r \in Requests : \/ phase'[r] = phase[r] /\ hop'[r] = hop[r]
                            \/ phase[r] \notin InLimiter /\ phase'[r] \notin InLimiter
    BY <1>2 DEF InLimiter
  <2>. QED
    BY <1>2, <2>1, LimiterUntouched
<1>4. TypeOfRequests'
  <2>1. phase' \in [Requests -> Phases]
    BY <1>2 DEF TypeOfRequests, Phases, Fetching
  <2>2. active' \in [Hosts -> Nat] /\ waiters' \in [Hosts -> Seq(Requests)]
    BY <1>2 DEF limiterVars, TypeOfRequests
  <2>3. CASE Refuse(q, u)
    BY <2>1, <2>2, <2>3 DEF Refuse, Answer, fetchVars, TypeOfRequests
  <2>4. CASE AnswerFromCache(q, u)
    <3>1. PICK e \in Hits(u) : Answer(q, u, "page", e.url)
      BY <2>4 DEF AnswerFromCache
    <3>. QED
      BY <2>1, <2>2, <3>1 DEF Answer, fetchVars, TypeOfRequests
  <2>5. CASE JoinFetch(q, u)
    BY <2>1, <2>2, <2>5 DEF JoinFetch, fetchVars, TypeOfRequests
  <2>6. CASE StartFetch(q, u)
    BY <2>1, <2>2, <2>6 DEF StartFetch, TypeOfRequests
  <2>. QED
    BY <1>1, <2>3, <2>4, <2>5, <2>6
<1>5. JoinedToRunningFetch'
  <2>1. \A r \in Requests : phase[r] \in Fetching =>
           r # q /\ phase'[r] \in Fetching /\ url'[r] = url[r]
    BY <1>2 DEF Fetching
  <2>2. CASE ~JoinFetch(q, u)
    <3>1. phase'[q] # "joined"
      BY <1>1, <2>2 DEF Refuse, AnswerFromCache, Answer, StartFetch, TypeOfRequests
    <3>2. \A r \in Requests : phase'[r] = "joined" =>
             phase[r] = "joined" /\ leader'[r] = leader[r] /\ url'[r] = url[r]
      BY <1>2, <3>1
    <3>. QED
      BY <2>1, <3>2, JoinedKept
  <2>3. CASE JoinFetch(q, u)
    <3>1. PICK l \in Requests : phase[l] \in Fetching /\ url[l] = u /\ leader'[q] = l /\ url'[q] = u
      BY <2>3 DEF JoinFetch, TypeOfRequests
    <3>2. ASSUME NEW r \in Requests, phase'[r] = "joined"
          PROVE  phase'[leader'[r]] \in Fetching /\ url'[leader'[r]] = url'[r]
      <4>1. CASE r = q
        BY <2>1, <3>1, <4>1
      <4>2. CASE r # q
        <5>1. phase[r] = "joined" /\ leader'[r] = leader[r] /\ url'[r] = url[r]
          BY <1>2, <3>2, <4>2
        <5>2. leader[r] \in Requests /\ phase[leader[r]] \in Fetching /\ url[leader[r]] = url[r]
          BY <5>1 DEF JoinedToRunningFetch, TypeOfRequests
        <5>. QED
          BY <2>1, <5>1, <5>2
      <4>. QED
        BY <4>1, <4>2
    <3>. QED
      BY <3>2 DEF JoinedToRunningFetch
  <2>. QED
    BY <2>2, <2>3
<1>. QED
  BY <1>3, <1>4, <1>5

\* A step of a fetch that neither enters nor leaves its host.
LEMMA FinishOutsideIInv ==
    ASSUME IInv, NEW q \in Requests, phase[q] \in Fetching \ InLimiter,
           NEW kind \in {"failed", "page"}, Finish(q, kind, {}), UNCHANGED limiterVars
    PROVE  IInv'
<1>. USE DEF IInv
<1>1. /\ phase' \in [Requests -> Phases] /\ url' \in [Requests -> Urls]
      /\ leader' \in [Requests -> Requests] /\ hop' \in [Requests -> Urls]
      /\ redirects' \in [Requests -> 0..MaxRedirects]
      /\ retries' \in [Requests -> 0..MaxRetries]
      /\ aborted' \in [Requests -> BOOLEAN]
      /\ phase'[q] = "done"
      /\ \A r \in Requests \ {q} :
            /\ hop'[r] = hop[r]
            /\ IF r \in {} THEN phase'[r] = "fetching"
               ELSE \/ phase'[r] = phase[r]
                    \/ phase[r] = "joined" /\ phase'[r] = "done"
      /\ JoinedToRunningFetch'
  <2>1. phase[q] \in Fetching /\ \A r \in {} : phase[r] = "queued"
    OBVIOUS
  <2>. QED
    BY <2>1, FinishKeeps
<1>2. TypeOfRequests'
  BY <1>1 DEF TypeOfRequests, limiterVars
<1>3. Limiter'
  <2>1. \A r \in Requests : \/ phase'[r] = phase[r] /\ hop'[r] = hop[r]
                            \/ phase[r] \notin InLimiter /\ phase'[r] \notin InLimiter
    BY <1>1 DEF InLimiter
  <2>. QED
    BY <2>1, LimiterUntouched
<1>. QED
  BY <1>1, <1>2, <1>3

LEMMA FinishHoldingIInv ==
    ASSUME IInv, NEW q \in Requests, phase[q] = "fetching", Release(HostAt(q)),
           Finish(q, "failed", Woken(HostAt(q)))
    PROVE  IInv'
<1>. USE DEF IInv
<1>1. phase[q] \in Fetching /\ \A r \in Woken(HostAt(q)) : phase[r] = "queued"
  BY HostOfHop, WokenIsQueued DEF Fetching
<1>2. /\ phase' \in [Requests -> Phases] /\ url' \in [Requests -> Urls]
      /\ leader' \in [Requests -> Requests] /\ hop' \in [Requests -> Urls]
      /\ redirects' \in [Requests -> 0..MaxRedirects]
      /\ retries' \in [Requests -> 0..MaxRetries]
      /\ aborted' \in [Requests -> BOOLEAN]
      /\ phase'[q] = "done"
      /\ \A r \in Requests \ {q} :
            /\ hop'[r] = hop[r]
            /\ IF r \in Woken(HostAt(q)) THEN phase'[r] = "fetching"
               ELSE \/ phase'[r] = phase[r]
                    \/ phase[r] = "joined" /\ phase'[r] = "done"
      /\ JoinedToRunningFetch'
  <2>1. "failed" \in {"failed", "page"}
    OBVIOUS
  <2>. QED
    BY <1>1, <2>1, FinishKeeps, Zenon
<1>3. Limiter' /\ active' \in [Hosts -> Nat] /\ waiters' \in [Hosts -> Seq(Requests)]
  <2>1. phase'[q] \notin InLimiter
    BY <1>2 DEF InLimiter
  <2>2. \A r \in Requests \ {q} :
              /\ hop'[r] = hop[r]
              /\ IF r \in Woken(HostAt(q)) THEN phase'[r] = "fetching"
                 ELSE \/ phase'[r] = phase[r]
                      \/ phase[r] \notin InLimiter /\ phase'[r] \notin InLimiter
    BY <1>2 DEF InLimiter
  <2>. QED
    BY <2>1, <2>2, ReleaseKeepsLimiter
<1>4. TypeOfRequests'
  BY <1>2, <1>3 DEF TypeOfRequests
<1>. QED
  BY <1>2, <1>3, <1>4

LEMMA EnterIInv ==
    ASSUME IInv, NEW q \in Requests, phase[q] \in Fetching \ InLimiter, EnterLimiter(q),
           UNCHANGED <<url, leader, fetchVars>>
    PROVE  IInv'
<1>. USE DEF IInv
<1>1. /\ phase' \in [Requests -> Phases]
      /\ active' \in [Hosts -> Nat] /\ waiters' \in [Hosts -> Seq(Requests)]
      /\ \A r \in Requests \ {q} : phase'[r] = phase[r]
      /\ phase'[q] \in Fetching
  BY EnterKeepsTypes
<1>2. TypeOfRequests'
  BY <1>1 DEF TypeOfRequests, fetchVars
<1>3. Limiter'
  BY EnterKeepsLimiter DEF fetchVars
<1>4. JoinedToRunningFetch'
  <2>1. \A r \in Requests : phase[r] \in Fetching => phase'[r] \in Fetching /\ url'[r] = url[r]
    BY <1>1
  <2>2. \A r \in Requests : phase'[r] = "joined" =>
           phase[r] = "joined" /\ leader'[r] = leader[r] /\ url'[r] = url[r]
    BY <1>1 DEF Fetching
  <2>. QED
    BY <2>1, <2>2, JoinedKept
<1>. QED
  BY <1>2, <1>3, <1>4

LEMMA FetchIInv ==
    ASSUME IInv, NEW q \in Requests, Fetch(q)
    PROVE  IInv'
<1>. USE DEF IInv
<1>1. CASE Resolve(q)
  <2>1. phase[q] \in Fetching \ InLimiter
    BY <1>1 DEF Resolve, Fetching, InLimiter
  <2>2. CASE EnterLimiter(q) /\ UNCHANGED <<url, leader, fetchVars, answer, cacheVars>>
    BY <2>1, <2>2, EnterIInv
  <2>3. CASE Finish(q, "failed", {}) /\ UNCHANGED limiterVars
    BY <2>1, <2>3, FinishOutsideIInv
  <2>. QED
    BY <1>1, <2>2, <2>3 DEF Resolve
<1>2. CASE FetchFails(q)
  BY <1>2, FinishHoldingIInv DEF FetchFails
<1>3. CASE ServerError(q)
  <2>1. /\ phase' \in [Requests -> Phases]
        /\ active' \in [Hosts -> Nat] /\ waiters' \in [Hosts -> Seq(Requests)]
        /\ Limiter' /\ JoinedToRunningFetch'
    BY <1>3, LeavingKeeps DEF ServerError
  <2>2. retries' \in [Requests -> 0..MaxRetries]
    BY <1>3, LimitAssumption DEF ServerError, TypeOfRequests
  <2>. QED
    BY <1>3, <2>1, <2>2 DEF ServerError, TypeOfRequests
<1>4. CASE BackoffEnds(q)
  <2>1. phase[q] \in Fetching \ InLimiter
    BY <1>4 DEF BackoffEnds, Fetching, InLimiter
  <2>. QED
    BY <1>4, <2>1, EnterIInv DEF BackoffEnds
<1>5. CASE PageStarts(q)
  <2>1. /\ phase' \in [Requests -> Phases]
        /\ active' \in [Hosts -> Nat] /\ waiters' \in [Hosts -> Seq(Requests)]
        /\ Limiter' /\ JoinedToRunningFetch'
    BY <1>5, LeavingKeeps DEF PageStarts, fetchVars
  <2>. QED
    BY <1>5, <2>1 DEF PageStarts, fetchVars, TypeOfRequests
<1>6. CASE ReadEnds(q)
  <2>1. phase[q] \in Fetching \ InLimiter
    BY <1>6 DEF ReadEnds, Fetching, InLimiter
  <2>. QED
    BY <1>6, <2>1, FinishOutsideIInv DEF ReadEnds
<1>7. ASSUME NEW u \in Urls, Redirect(q, u)
      PROVE  IInv'
  <2>1. CASE redirects[q] + 1 < MaxRedirects
    <3>1. /\ redirects' = [redirects EXCEPT ![q] = @ + 1]
          /\ hop' = [hop EXCEPT ![q] = u] /\ retries' = [retries EXCEPT ![q] = 0]
          /\ url' = url /\ leader' = leader /\ aborted' = aborted
      BY <1>7, <2>1 DEF Redirect
    <3>2. \A r \in Requests \ {q} : hop'[r] = hop[r]
      BY <3>1 DEF TypeOfRequests
    <3>3. /\ phase' \in [Requests -> Phases]
          /\ active' \in [Hosts -> Nat] /\ waiters' \in [Hosts -> Seq(Requests)]
          /\ Limiter' /\ JoinedToRunningFetch'
      BY <1>7, <2>1, <3>1, <3>2, LeavingKeeps DEF Redirect
    <3>4. redirects[q] + 1 \in 0..MaxRedirects /\ 0 \in 0..MaxRetries
      BY <2>1, LimitAssumption DEF TypeOfRequests
    <3>. QED
      BY <3>1, <3>3, <3>4 DEF TypeOfRequests
  <2>2. CASE ~(redirects[q] + 1 < MaxRedirects)
    BY <1>7, <2>2, FinishHoldingIInv DEF Redirect
  <2>. QED
    BY <2>1, <2>2
<1>. QED
  BY <1>1, <1>2, <1>3, <1>4, <1>5, <1>6, <1>7 DEF Fetch

LEMMA NextIInv == IInv /\ [Next]_vars => IInv'
<1>. SUFFICES ASSUME IInv, [Next]_vars PROVE IInv'
  OBVIOUS
<1>. USE DEF IInv
<1>1. ASSUME NEW q \in Requests, Route(q) PROVE IInv'
  BY <1>1, RouteIInv
<1>2. ASSUME NEW q \in Requests, Fetch(q) PROVE IInv'
  BY <1>2, FetchIInv
<1>3. ASSUME UNCHANGED <<phase, url, leader, hop, redirects, retries, limiterVars>>,
             aborted' \in [Requests -> BOOLEAN]
      PROVE  IInv'
  <2>1. TypeOfRequests'
    BY <1>3 DEF TypeOfRequests, limiterVars
  <2>2. Limiter'
    BY <1>3, LimiterUntouched
  <2>3. JoinedToRunningFetch'
    BY <1>3 DEF JoinedToRunningFetch
  <2>. QED
    BY <2>1, <2>2, <2>3
<1>4. ASSUME NEW q \in Requests, TimerFires(q) PROVE IInv'
  BY <1>3, <1>4 DEF TimerFires, TypeOfRequests
<1>5. CASE Expire \/ Cleanup \/ UNCHANGED vars
  BY <1>3, <1>5 DEF Expire, Cleanup, vars, fetchVars, TypeOfRequests
<1>. QED
  BY <1>1, <1>2, <1>4, <1>5 DEF Next

THEOREM Invariance == Spec => []IInv
<1>. QED
  BY InitIInv, NextIInv, PTL DEF Spec

------------------------------------------------------------------------------
(* The cache *)

\* Of two entries of the cache one is older than the other at most, and what is
\* older than the older one is older than both.
ByAge ==
    /\ \A k \in DOMAIN cache : k \notin older[k]
    /\ \A k, l, n \in DOMAIN cache : k \in older[l] /\ l \in older[n] => k \in older[n]

CacheTypes == cache \in CacheEntries /\ older \in [Keys -> SUBSET Keys]

Bounded == IsFiniteSet(DOMAIN cache) /\ Cardinality(DOMAIN cache) <= MaxSize

CacheInv == CacheTypes /\ Bounded /\ ByAge

\* What the type of the cache says.
LEMMA CacheFields ==
    ASSUME CacheTypes
    PROVE  /\ DOMAIN cache \subseteq Keys
           /\ cache = [k \in DOMAIN cache |-> cache[k]]
           /\ \A k \in DOMAIN cache : cache[k] \in [url : Urls, fresh : BOOLEAN]
           /\ \A k \in Keys : older[k] \subseteq Keys
<1>1. PICK keys \in SUBSET Keys : cache \in [keys -> [url : Urls, fresh : BOOLEAN]]
  BY DEF CacheTypes, CacheEntries
<1>2. DOMAIN cache = keys
  BY <1>1
<1>. QED
  BY <1>1, <1>2 DEF CacheTypes

LEMMA CacheIsTyped ==
    ASSUME NEW keys \in SUBSET Keys, NEW c \in [keys -> [url : Urls, fresh : BOOLEAN]]
    PROVE  c \in CacheEntries /\ DOMAIN c = keys
BY DEF CacheEntries

\* A set of natural numbers has a least element.
LEMMA LeastNatural ==
    ASSUME NEW T \in SUBSET Nat, T # {}
    PROVE  \E x \in T : \A y \in T : x <= y
<1>1. IsWellFoundedOn(OpToRel(<, Nat), Nat)
  BY NatLessThanWellFounded, Zenon
<1>2. PICK x \in T : \A y \in T : ~(<<y, x>> \in OpToRel(<, Nat))
  BY <1>1, WFMin, Zenon
<1>3. \A y \in T : ~(y < x)
  BY <1>2 DEF OpToRel
<1>. QED
  BY <1>3

\* A full cache has an entry without elders, which set() removes.
LEMMA FullCacheEvicts ==
    ASSUME CacheInv, Cardinality(DOMAIN cache) = MaxSize
    PROVE  Evicted # {}
<1>. DEFINE Ages == {Cardinality(Elders(k)) : k \in DOMAIN cache}
<1>1. IsFiniteSet(DOMAIN cache) /\ DOMAIN cache # {}
  <2>1. IsFiniteSet(DOMAIN cache) /\ Cardinality(DOMAIN cache) # 0
    BY LimitAssumption DEF CacheInv, Bounded
  <2>. QED
    BY <2>1, FS_EmptySet
<1>2. \A k \in DOMAIN cache : IsFiniteSet(Elders(k)) /\ Cardinality(Elders(k)) \in Nat
  <2>1. \A k \in DOMAIN cache : Elders(k) \in SUBSET DOMAIN cache
    BY DEF Elders
  <2>2. \A k \in DOMAIN cache : IsFiniteSet(Elders(k))
    BY <1>1, <2>1, FS_Subset
  <2>. QED
    BY <2>2, FS_CardinalityType
<1>3. Ages \in SUBSET Nat /\ Ages # {}
  BY <1>1, <1>2
<1>4. PICK n \in Ages : \A a \in Ages : n <= a
  <2>. HIDE DEF Ages
  <2>. QED
    BY <1>3, LeastNatural
<1>5. PICK k \in DOMAIN cache : n = Cardinality(Elders(k))
  BY <1>4
<1>6. Elders(k) = {}
  <2>. SUFFICES ASSUME NEW j \in Elders(k) PROVE FALSE
    OBVIOUS
  <2>1. j \in DOMAIN cache /\ j \in older[k]
    BY DEF Elders
  <2>2. Elders(j) \subseteq Elders(k) /\ j \notin Elders(j)
    BY <1>5, <2>1 DEF Elders, CacheInv, ByAge
  <2>3. Cardinality(Elders(j)) <= Cardinality(Elders(k)) /\ Elders(j) # Elders(k)
    BY <1>2, <1>5, <2>2, FS_Subset
  <2>4. Cardinality(Elders(j)) # Cardinality(Elders(k))
    BY <1>2, <1>5, <2>2, <2>3, FS_Subset
  <2>5. Cardinality(Elders(k)) <= Cardinality(Elders(j))
    BY <1>4, <1>5, <2>1
  <2>. QED
    BY <1>2, <1>5, <2>1, <2>3, <2>4, <2>5
<1>7. Cardinality(Elders(k)) = 0
  BY <1>6, FS_EmptySet
<1>8. Cardinality(Elders(k)) + MaxSize <= Cardinality(DOMAIN cache)
  BY <1>7, LimitAssumption
<1>. QED
  BY <1>5, <1>8 DEF Evicted

LEMMA DeleteKeepsCache ==
    ASSUME CacheInv, NEW keys, Delete(keys)
    PROVE  CacheInv'
<1>1. /\ cache' = [k \in DOMAIN cache \ keys |-> cache[k]] /\ older' = older
      /\ DOMAIN cache' = DOMAIN cache \ keys
  BY DEF Delete, Restrict
<1>2. CacheTypes'
  <2>1. /\ DOMAIN cache \ keys \in SUBSET Keys
        /\ cache' \in [DOMAIN cache \ keys -> [url : Urls, fresh : BOOLEAN]]
    BY <1>1, CacheFields DEF CacheInv
  <2>. QED
    BY <1>1, <2>1, CacheIsTyped DEF CacheInv, CacheTypes
<1>3. Bounded'
  <2>1. /\ IsFiniteSet(DOMAIN cache) /\ Cardinality(DOMAIN cache) <= MaxSize
        /\ DOMAIN cache \ keys \in SUBSET DOMAIN cache
    BY DEF CacheInv, Bounded
  <2>2. IsFiniteSet(DOMAIN cache \ keys)
        /\ Cardinality(DOMAIN cache \ keys) <= Cardinality(DOMAIN cache)
    BY <2>1, FS_Subset
  <2>3. Cardinality(DOMAIN cache \ keys) \in Nat /\ Cardinality(DOMAIN cache) \in Nat
    BY <2>1, <2>2, FS_CardinalityType
  <2>. QED
    BY <1>1, <2>1, <2>2, <2>3, LimitAssumption DEF Bounded
<1>4. ByAge'
  BY <1>1 DEF CacheInv, ByAge
<1>. QED
  BY <1>2, <1>3, <1>4 DEF CacheInv

LEMMA StoreKeepsCache ==
    ASSUME CacheInv, NEW u \in Urls, Store(u)
    PROVE  CacheInv'
<1>. DEFINE key == KeyOf[u]
            others == IF key \in DOMAIN cache THEN DOMAIN cache ELSE DOMAIN cache \ Evicted
<1>1. /\ cache' = [k \in others \cup {key} |-> IF k = key THEN Entry(u) ELSE cache[k]]
      /\ older' = IF key \in DOMAIN cache THEN older
                  ELSE [k \in Keys |-> IF k = key THEN others ELSE older[k] \ {key}]
  BY DEF Store
<1>2. key \in Keys /\ others \subseteq DOMAIN cache /\ DOMAIN cache \subseteq Keys
  BY CacheFields DEF CacheInv, Keys
<1>3. IsFiniteSet(DOMAIN cache) /\ Cardinality(DOMAIN cache) <= MaxSize
      /\ Cardinality(DOMAIN cache) \in Nat
  BY FS_CardinalityType DEF CacheInv, Bounded
<1>4. IsFiniteSet(others) /\ Cardinality(others) <= Cardinality(DOMAIN cache)
      /\ Cardinality(others) \in Nat
  BY <1>2, <1>3, FS_Subset, FS_CardinalityType
<1>5. key \notin DOMAIN cache => Cardinality(others) < MaxSize
  <2>. SUFFICES ASSUME key \notin DOMAIN cache PROVE Cardinality(others) < MaxSize
    OBVIOUS
  <2>1. CASE Cardinality(DOMAIN cache) < MaxSize
    BY <1>3, <1>4, <2>1, LimitAssumption
  <2>2. CASE Cardinality(DOMAIN cache) = MaxSize
    <3>1. others # DOMAIN cache
      BY <2>2, FullCacheEvicts DEF Evicted
    <3>2. Cardinality(others) # Cardinality(DOMAIN cache)
      BY <1>2, <1>3, <3>1, FS_Subset
    <3>. QED
      BY <1>3, <1>4, <2>2, <3>2, LimitAssumption
  <2>. QED
    BY <1>3, <2>1, <2>2, LimitAssumption
<1>6. key \in DOMAIN cache => others = DOMAIN cache
  OBVIOUS
<1>7. \A k \in others : cache[k] \in [url : Urls, fresh : BOOLEAN]
  BY <1>2, CacheFields DEF CacheInv
<1>8. key \in DOMAIN cache \/ key \notin others
  BY <1>2
<1>. HIDE DEF key, others
<1>9. DOMAIN cache' = others \cup {key}
  BY <1>1
<1>10. CacheTypes'
  <2>1. cache' \in [others \cup {key} -> [url : Urls, fresh : BOOLEAN]]
    BY <1>1, <1>7 DEF Entry
  <2>2. others \cup {key} \in SUBSET Keys
    BY <1>2
  <2>3. older' \in [Keys -> SUBSET Keys]
    BY <1>1, <1>2 DEF CacheInv, CacheTypes
  <2>. QED
    BY <2>1, <2>2, <2>3, CacheIsTyped DEF CacheTypes
<1>11. Bounded'
  <2>1. IsFiniteSet(others \cup {key})
        /\ Cardinality(others \cup {key})
             = IF key \in others THEN Cardinality(others) ELSE Cardinality(others) + 1
    BY <1>4, FS_AddElement
  <2>2. Cardinality(others \cup {key}) <= MaxSize
    <3>1. CASE key \in DOMAIN cache
      BY <1>3, <1>6, <2>1, <3>1
    <3>2. CASE key \notin DOMAIN cache
      BY <1>4, <1>5, <1>8, <2>1, <3>2, LimitAssumption
    <3>. QED
      BY <3>1, <3>2
  <2>. QED
    BY <1>9, <2>1, <2>2 DEF Bounded
<1>12. ByAge'
  <2>1. CASE key \in DOMAIN cache
    <3>1. DOMAIN cache' = DOMAIN cache /\ older' = older
      BY <1>1, <1>6, <1>9, <2>1
    <3>. QED
      BY <3>1 DEF CacheInv, ByAge
  <2>2. CASE key \notin DOMAIN cache
    <3>1. /\ key \notin others /\ older'[key] = others
          /\ \A k \in others : older'[k] = older[k] \ {key}
      BY <1>1, <1>2, <1>8, <2>2
    <3>2. /\ \A k \in others : k \notin older[k]
          /\ \A k, l, n \in others : k \in older[l] /\ l \in older[n] => k \in older[n]
      BY <1>2 DEF CacheInv, ByAge
    <3>3. \A k \in others \cup {key} : k \notin older'[k]
      BY <3>1, <3>2
    <3>4. ASSUME NEW k \in others \cup {key}, NEW l \in others \cup {key},
                 NEW n \in others \cup {key}, k \in older'[l], l \in older'[n]
          PROVE  k \in older'[n]
      BY <3>1, <3>2, <3>4
    <3>. QED
      BY <1>9, <3>3, <3>4 DEF ByAge
  <2>. QED
    BY <2>1, <2>2
<1>. QED
  BY <1>10, <1>11, <1>12 DEF CacheInv

LEMMA ExpireKeepsCache ==
    ASSUME CacheInv, Expire
    PROVE  CacheInv'
<1>1. PICK k \in DOMAIN cache : cache' = [cache EXCEPT ![k].fresh = FALSE]
  BY DEF Expire
<1>2. older' = older /\ DOMAIN cache' = DOMAIN cache
  BY <1>1 DEF Expire
<1>3. CacheTypes'
  <2>1. DOMAIN cache \in SUBSET Keys /\ cache' \in [DOMAIN cache -> [url : Urls, fresh : BOOLEAN]]
    BY <1>1, CacheFields DEF CacheInv
  <2>. QED
    BY <1>2, <2>1, CacheIsTyped DEF CacheInv, CacheTypes
<1>. QED
  BY <1>2, <1>3 DEF CacheInv, Bounded, ByAge

LEMMA InitCache == Init => CacheInv
<1>. SUFFICES ASSUME Init PROVE CacheInv
  OBVIOUS
<1>1. cache = <<>> /\ older = [k \in Keys |-> {}] /\ DOMAIN cache = {}
  BY DEF Init
<1>2. CacheTypes
  <2>1. cache \in [{} -> [url : Urls, fresh : BOOLEAN]]
    BY <1>1
  <2>. QED
    BY <1>1, <2>1, CacheIsTyped DEF CacheTypes
<1>3. Bounded
  BY <1>1, FS_EmptySet, LimitAssumption DEF Bounded
<1>. QED
  BY <1>1, <1>2, <1>3 DEF CacheInv, ByAge

------------------------------------------------------------------------------
(* The types *)

Answers == [kind : {"none", "refused", "failed", "page"}, of : Urls]
AnswerTypes == answer \in [Requests -> Answers]

TypeInv == TypeOfRequests /\ AnswerTypes /\ CacheInv

LEMMA TypeInvImplies == TypeInv => TypeOK
BY DEF TypeInv, TypeOK, AnswerTypes, Answers, CacheInv, CacheTypes, Bounded

LEMMA FinishKeepsCache ==
    ASSUME TypeInv, NEW q \in Requests, NEW kind \in {"failed", "page"}, NEW woken,
           Finish(q, kind, woken)
    PROVE  AnswerTypes' /\ CacheInv'
<1>1. url[q] \in Urls
  BY DEF TypeInv, TypeOfRequests
<1>2. AnswerTypes'
  BY <1>1 DEF Finish, TypeInv, AnswerTypes, Answers
<1>3. CASE Store(url[q])
  BY <1>1, <1>2, <1>3, StoreKeepsCache DEF TypeInv
<1>4. CASE UNCHANGED cacheVars
  BY <1>2, <1>4 DEF cacheVars, TypeInv, CacheInv, CacheTypes, Bounded, ByAge
<1>. QED
  BY <1>3, <1>4 DEF Finish

LEMMA NextTypes == TypeInv /\ TypeOfRequests' /\ [Next]_vars => TypeInv'
<1>0. SUFFICES ASSUME TypeInv, TypeOfRequests', [Next]_vars PROVE AnswerTypes' /\ CacheInv'
  BY DEF TypeInv
<1>1. ASSUME UNCHANGED cacheVars PROVE CacheInv'
  BY <1>0, <1>1 DEF cacheVars, TypeInv, CacheInv, CacheTypes, Bounded, ByAge
<1>2. ASSUME UNCHANGED answer PROVE AnswerTypes'
  BY <1>0, <1>2 DEF TypeInv, AnswerTypes
<1>3. ASSUME NEW q \in Requests, NEW u \in Urls, NEW kind \in {"refused", "page"}, NEW of \in Urls,
             Answer(q, u, kind, of)
      PROVE  AnswerTypes'
  BY <1>0, <1>3 DEF Answer, TypeInv, AnswerTypes, Answers
<1>4. ASSUME NEW q \in Requests, NEW u \in Urls, Refuse(q, u)
      PROVE  AnswerTypes' /\ CacheInv'
  BY <1>1, <1>3, <1>4 DEF Refuse
<1>5. ASSUME NEW q \in Requests, NEW u \in Urls, AnswerFromCache(q, u)
      PROVE  AnswerTypes' /\ CacheInv'
  <2>1. \A e \in Hits(u) : e.url \in Urls
    BY <1>0, CacheFields DEF Hits, TypeInv, CacheInv
  <2>2. AnswerTypes'
    BY <1>3, <1>5, <2>1 DEF AnswerFromCache
  <2>. QED
    BY <1>1, <1>5, <2>2 DEF AnswerFromCache
<1>6. ASSUME NEW q \in Requests, NEW u \in Urls, JoinFetch(q, u) \/ StartFetch(q, u)
      PROVE  AnswerTypes' /\ CacheInv'
  <2>1. Delete({KeyOf[u]}) /\ UNCHANGED answer
    BY <1>6 DEF JoinFetch, StartFetch, Miss
  <2>. QED
    BY <1>0, <1>2, <2>1, DeleteKeepsCache DEF TypeInv
<1>7. ASSUME NEW q \in Requests, Fetch(q)
      PROVE  AnswerTypes' /\ CacheInv'
  <2>1. \/ UNCHANGED <<answer, cacheVars>>
        \/ \E kind \in {"failed", "page"}, woken \in {{}, Woken(HostAt(q))} : Finish(q, kind, woken)
    BY <1>7 DEF Fetch, Resolve, FetchFails, ServerError, BackoffEnds, PageStarts, ReadEnds, Redirect
  <2>. QED
    BY <1>0, <1>1, <1>2, <2>1, FinishKeepsCache
<1>8. ASSUME NEW q \in Requests, TimerFires(q)
      PROVE  AnswerTypes' /\ CacheInv'
  BY <1>1, <1>2, <1>8 DEF TimerFires
<1>9. CASE Expire
  BY <1>0, <1>2, <1>9, ExpireKeepsCache DEF Expire, TypeInv
<1>10. CASE Cleanup
  BY <1>0, <1>2, <1>10, DeleteKeepsCache DEF Cleanup, TypeInv
<1>11. CASE UNCHANGED vars
  BY <1>1, <1>2, <1>11 DEF vars
<1>. QED
  BY <1>0, <1>4, <1>5, <1>6, <1>7, <1>8, <1>9, <1>10, <1>11 DEF Next, Route

LEMMA InitTypes == Init => TypeInv
<1>. SUFFICES ASSUME Init PROVE TypeInv
  OBVIOUS
<1>1. TypeOfRequests
  BY InitIInv DEF IInv
<1>2. AnswerTypes
  BY <1>1 DEF Init, AnswerTypes, Answers, TypeOfRequests
<1>. QED
  BY <1>1, <1>2, InitCache DEF TypeInv

------------------------------------------------------------------------------
\* Every variable keeps its type, and the cache never has more entries than its
\* limit, for any limit, whatever expires, is replaced and evicted.
THEOREM PreviewTypesHold == Spec => []TypeOK
<1>1. TypeInv /\ IInv /\ [Next]_vars => (TypeInv /\ IInv)'
  BY NextIInv, NextTypes DEF IInv
<1>. QED
  BY <1>1, InitIInv, InitTypes, TypeInvImplies, PTL DEF Spec

\* No slot is leaked, exceeded or idle while somebody waits for it.
THEOREM LimiterNeverLeaks == Spec => []SlotsAccounted
<1>. IInv => SlotsAccounted
  BY DEF IInv, Limiter
<1>. QED
  BY Invariance, PTL

\* The queue of a host holds the fetches that wait for it, each once.
THEOREM QueuesAreExact == Spec => []QueueIsExact
<1>. IInv => QueueIsExact
  BY DEF IInv, Limiter
<1>. QED
  BY Invariance, PTL

FetchStarts == \E q \in Requests, u \in Urls : StartFetch(q, u)

\* A fetch that runs after a step ran before it, or has just been started.
LEMMA FetchesStart ==
    ASSUME IInv, [Next]_vars
    PROVE  \/ \A r \in Requests : phase'[r] \in Fetching => phase[r] \in Fetching /\ url'[r] = url[r]
           \/ FetchStarts
<1>. DEFINE NoneStarts ==
               \A r \in Requests : phase'[r] \in Fetching => phase[r] \in Fetching /\ url'[r] = url[r]
<1>1. phase \in [Requests -> Phases] /\ url \in [Requests -> Urls]
  BY DEF IInv, TypeOfRequests
<1>2. \A q \in Requests : \A r \in Woken(HostAt(q)) : phase[r] \in Fetching
  BY HostOfHop, WokenIsQueued DEF IInv, Fetching
<1>3. ASSUME NEW q \in Requests, phase[q] \in Fetching, NEW kind, NEW woken \in {{}, Woken(HostAt(q))},
             Finish(q, kind, woken)
      PROVE  NoneStarts
  BY <1>1, <1>2, <1>3 DEF Finish, Fetching
<1>4. ASSUME NEW q \in Requests, phase[q] \in Fetching, EnterLimiter(q), url' = url
      PROVE  NoneStarts
  BY <1>1, <1>4 DEF EnterLimiter, Fetching
<1>5. ASSUME NEW q \in Requests, phase[q] = "fetching", NEW next \in Phases, url' = url,
             phase' = [r \in Requests |-> IF r = q THEN next
                                          ELSE IF r \in Woken(HostAt(q)) THEN "fetching" ELSE phase[r]]
      PROVE  NoneStarts
  BY <1>1, <1>2, <1>5 DEF Fetching
<1>6. ASSUME NEW q \in Requests, NEW u \in Urls, Refuse(q, u) \/ AnswerFromCache(q, u) \/ JoinFetch(q, u)
      PROVE  NoneStarts
  <2>1. PICK new \in {"done", "joined"} :
           phase' = [phase EXCEPT ![q] = new] /\ url' = [url EXCEPT ![q] = u]
    BY <1>6 DEF Refuse, AnswerFromCache, JoinFetch, Answer
  <2>. QED
    BY <1>1, <2>1 DEF Fetching
<1>7. ASSUME NEW q \in Requests, Fetch(q)
      PROVE  NoneStarts
  <2>1. CASE Resolve(q)
    BY <1>3, <1>4, <2>1 DEF Resolve, Fetching
  <2>2. CASE FetchFails(q)
    BY <1>3, <2>2 DEF FetchFails, Fetching
  <2>3. CASE ServerError(q)
    BY <1>5, <2>3 DEF ServerError, Phases, Fetching
  <2>4. CASE BackoffEnds(q)
    BY <1>4, <2>4 DEF BackoffEnds, Fetching
  <2>5. CASE PageStarts(q)
    BY <1>5, <2>5 DEF PageStarts, Phases, Fetching
  <2>6. CASE ReadEnds(q)
    BY <1>3, <2>6 DEF ReadEnds, Fetching
  <2>7. ASSUME NEW u \in Urls, Redirect(q, u)
        PROVE  NoneStarts
    BY <1>3, <1>5, <2>7 DEF Redirect, Phases, Fetching
  <2>. HIDE DEF NoneStarts
  <2>. QED
    BY <1>7, <2>1, <2>2, <2>3, <2>4, <2>5, <2>6, <2>7 DEF Fetch
<1>8. ASSUME phase' = phase, url' = url
      PROVE  NoneStarts
  BY <1>8
<1>. HIDE DEF NoneStarts
<1>9. ASSUME NEW q \in Requests, TimerFires(q)
      PROVE  NoneStarts
  BY <1>8, <1>9 DEF TimerFires
<1>10. ASSUME Expire \/ Cleanup \/ UNCHANGED vars
       PROVE  NoneStarts
  BY <1>8, <1>10 DEF Expire, Cleanup, vars
<1>11. ASSUME NEW q \in Requests, Route(q)
       PROVE  NoneStarts \/ FetchStarts
  <2>1. ASSUME NEW u \in Urls, StartFetch(q, u)
        PROVE  FetchStarts
    BY <2>1 DEF FetchStarts
  <2>. QED
    BY <1>6, <1>11, <2>1 DEF Route
<1>12. NoneStarts \/ FetchStarts
  BY <1>7, <1>9, <1>10, <1>11 DEF Next
<1>. QED
  BY <1>12 DEF NoneStarts

LEMMA NextOneFetch == IInv /\ OneFetchPerUrl /\ [Next]_vars => OneFetchPerUrl'
<1>. SUFFICES ASSUME IInv, OneFetchPerUrl, [Next]_vars PROVE OneFetchPerUrl'
  OBVIOUS
<1>1. CASE \A r \in Requests : phase'[r] \in Fetching => phase[r] \in Fetching /\ url'[r] = url[r]
  BY <1>1 DEF OneFetchPerUrl
<1>2. ASSUME NEW q \in Requests, NEW u \in Urls, StartFetch(q, u)
      PROVE  OneFetchPerUrl'
  <2>1. /\ phase' = [phase EXCEPT ![q] = "resolving"] /\ url' = [url EXCEPT ![q] = u]
        /\ \A l \in Requests : phase[l] \in Fetching => url[l] # u
    BY <1>2 DEF StartFetch
  <2>. QED
    BY <2>1 DEF OneFetchPerUrl, IInv, TypeOfRequests
<1>. QED
  BY <1>1, <1>2, FetchesStart DEF FetchStarts

\* No URL is fetched twice at the same time, and whoever shares a fetch shares a
\* running one, of its own URL.
THEOREM FetchesShared == Spec => []FetchesAreShared
<1>1. Init => OneFetchPerUrl
  BY DEF Init, OneFetchPerUrl, Fetching
<1>2. IInv /\ OneFetchPerUrl => FetchesAreShared
  BY DEF IInv, FetchesAreShared
<1>. QED
  BY <1>1, <1>2, InitIInv, NextIInv, NextOneFetch, PTL DEF Spec
==============================================================================
