-------------------------- MODULE AuthSessionProofs --------------------------
(***************************************************************************)
(* The shared set-up and the handoff of a sign-in, for any agents, users,  *)
(* tokens, processes and restarts.  The argument for the handoff: a token  *)
(* is issued once, for one user and one expiry, and every copy of its      *)
(* entry, in the memory of a process, in Redis or on its way from there,   *)
(* agrees with what was issued.                                            *)
(***************************************************************************)
EXTENDS AuthSession, TLAPS

\* A discovery is under way exactly while its promise is kept.
SetupInv ==
    /\ SetupIsShared
    /\ \A i \in Instances : oidcSetup[i] <=> discoveries[i] > 0

\* An entry of t, if it is one, is what was issued.
AsIssued(entry, t) ==
    entry # None =>
        /\ issued[t] # None
        /\ entry.user = issued[t].user /\ entry.expiresAt = issued[t].expiresAt

EntriesAreIssued ==
    /\ \A t \in Tokens :
          /\ AsIssued(redis[t], t)
          /\ \A i \in Instances : AsIssued(handoffs[i][t], t)
          /\ t \in setting \cup stored => issued[t] # None
    /\ \A a \in Agents : request[a].at = "reply" => AsIssued(request[a].raw, request[a].token)

\* Whoever is redeeming a token has presented it.
RedeemedIsPresented ==
    \A a \in Agents : request[a].at \in {"getDel", "reply"} => request[a].token \in presented

TokenInv == EntriesAreIssued /\ RedeemedIsPresented /\ TokenIsOfTheSession /\ UnpresentedIsRedeemable

IInv == TypeOK /\ SetupInv /\ TokenInv

------------------------------------------------------------------------------
(* Types *)

\* What an agent is in the middle of determines the fields there are.
LEMMA RequestFields ==
    ASSUME NEW r \in Request
    PROVE  /\ r.at = "setup" =>
                r \in [at : {"setup"}, inst : Instances, asked : Targets, mobile : BOOLEAN]
           /\ r.at = "complete" => r \in [at : {"complete"}, returnTo : Targets]
           /\ r.at = "getDel" => r \in [at : {"getDel"}, inst : Instances, token : Tokens]
           /\ r.at = "reply" => r \in [at : {"reply"}, inst : Instances, token : Tokens,
                                       raw : Entry \cup {None}]
BY DEF Request, Idle, Provider

LEMMA SimpleRequests ==
    /\ Idle \in Request /\ Idle.at = "idle"
    /\ Provider \in Request /\ Provider.at = "provider"
BY DEF Request, Idle, Provider

LEMMA TargetsAreKept ==
    ASSUME NEW raw \in Targets, NEW fallback \in Targets, NEW mode
    PROVE  GetReturnTo(raw, fallback, mode) \in Targets
BY DEF GetReturnTo, Targets

LEMMA AskedAreTargets == Asked \cup {Login(r) : r \in Asked} \subseteq Targets
<1>1. \A r \in Asked : Login(r) \in Targets
  BY AuthAssumption, TargetsAreKept DEF Login, Targets
<1>. QED
  BY <1>1, AuthAssumption

LEMMA NewSessionType ==
    ASSUME NEW u \in Users \cup {None}
    PROVE  /\ NewSession(u) \in Session
           /\ NewSession(u).user = u /\ NewSession(u).mobileAuthToken = None
BY DEF NewSession, SessionWith, Session, Targets

LEMMA FlowNotedType ==
    ASSUME NEW s \in Session, NEW asked \in Targets, NEW mobile \in BOOLEAN
    PROVE  /\ FlowNoted(s, asked, mobile) \in Session
           /\ FlowNoted(s, asked, mobile).user = s.user
           /\ FlowNoted(s, asked, mobile).mobileAuthToken = s.mobileAuthToken
<1>1. GetReturnTo(asked, "path", "web") \in Targets
  BY TargetsAreKept DEF Targets
<1>. QED
  BY <1>1 DEF FlowNoted, Session

LEMMA HoldingType ==
    ASSUME NEW s \in Session, NEW t \in Tokens \cup {None}
    PROVE  /\ [s EXCEPT !.mobileAuthToken = t] \in Session
           /\ [s EXCEPT !.mobileAuthToken = t].user = s.user
           /\ [s EXCEPT !.mobileAuthToken = t].mobileAuthToken = t
BY DEF Session

\* What establishing a session makes of it
LEMMA EstablishType ==
    ASSUME session \in [Agents -> Session], NEW a \in Agents, NEW u \in Users, NEW t \in Tokens \cup {None},
           Establish(a, u, t)
    PROVE  /\ session' \in [Agents -> Session]
           /\ session'[a].user = u /\ session'[a].mobileAuthToken = t
           /\ t = None => session'[a] = NewSession(u)
           /\ \A b \in Agents \ {a} : session'[b] = session[b]
<1>1. SessionWith(u, t) \in Session
  BY DEF SessionWith, Session, Targets
<1>2. SessionWith(u, t).user = u /\ SessionWith(u, t).mobileAuthToken = t
  BY DEF SessionWith
<1>. QED
  BY <1>1, <1>2 DEF Establish, NewSession

LEMMA NotEstablishedType ==
    ASSUME session \in [Agents -> Session], NEW a \in Agents, NotEstablished(a)
    PROVE  /\ session' \in [Agents -> Session]
           /\ session'[a] \in {session[a], NewSession(None)}
           /\ \A b \in Agents \ {a} : session'[b] = session[b]
BY NewSessionType DEF NotEstablished

LEMMA InitIInv == Init => IInv
<1>. SUFFICES ASSUME Init PROVE IInv
  OBVIOUS
<1>1. TypeOK
  BY AuthAssumption, SimpleRequests, NewSessionType DEF Init, TypeOK, Targets
<1>2. SetupInv
  BY SimpleRequests DEF Init, SetupInv, SetupIsShared
<1>3. TokenInv
  BY SimpleRequests, NewSessionType
  DEF Init, TokenInv, EntriesAreIssued, AsIssued, RedeemedIsPresented, TokenIsOfTheSession, UnpresentedIsRedeemable
<1>. QED
  BY <1>1, <1>2, <1>3 DEF IInv

LEMMA NextType == TypeOK /\ EntriesAreIssued /\ [Next]_vars => TypeOK'
<1>. SUFFICES ASSUME TypeOK, EntriesAreIssued, [Next]_vars PROVE TypeOK'
  OBVIOUS
<1>. USE AuthAssumption, SimpleRequests
<1>1. CASE UNCHANGED vars
  BY <1>1 DEF vars, oidcVars, tokenVars, TypeOK
<1>2. ASSUME NEW a \in Agents, NEW i \in Instances, NEW mobile \in BOOLEAN, NEW asked \in Targets,
             BeginOidc(a, i, asked, mobile)
      PROVE  TypeOK'
  <2>1. session' \in [Agents -> Session]
    <3>1. session' = session \/ session' = [session EXCEPT ![a] = FlowNoted(session[a], asked, mobile)]
      <4>1. CASE oidcConfig[i]
        BY <1>2, <4>1 DEF BeginOidc, ToProvider
      <4>2. CASE ~oidcConfig[i]
        BY <1>2, <4>2 DEF BeginOidc
      <4>. QED
        BY <4>1, <4>2
    <3>2. session[a] \in Session
      BY DEF TypeOK
    <3>3. FlowNoted(session[a], asked, mobile) \in Session
      BY <3>2, FlowNotedType
    <3>. QED
      BY <3>1, <3>3 DEF TypeOK
  <2>2. request' \in [Agents -> Request]
    <3>1. [at |-> "setup", inst |-> i, asked |-> asked, mobile |-> mobile] \in Request
      BY DEF Request
    <3>. QED
      BY <1>2, <3>1 DEF BeginOidc, ToProvider, Become, TypeOK
  <2>3. oidcConfig' \in [Instances -> BOOLEAN] /\ oidcSetup' \in [Instances -> BOOLEAN]
        /\ discoveries' \in [Instances -> Nat]
    <3>1. UNCHANGED oidcVars \/ StartSetup(i)
      BY <1>2 DEF BeginOidc
    <3>2. CASE UNCHANGED oidcVars
      BY <3>2 DEF oidcVars, TypeOK
    <3>3. CASE StartSetup(i)
      BY <3>3 DEF StartSetup, TypeOK
    <3>. QED
      BY <3>1, <3>2, <3>3
  <2>. QED
    BY <1>2, <2>1, <2>2, <2>3 DEF BeginOidc, tokenVars, TypeOK
<1>3. ASSUME NEW i \in Instances, DiscoverySucceeds(i) PROVE TypeOK'
  <2>1. session' \in [Agents -> Session]
    <3>1. \A a \in WaitingForSetup(i) : request[a].asked \in Targets /\ request[a].mobile \in BOOLEAN
      BY RequestFields DEF WaitingForSetup, TypeOK
    <3>2. \A a \in WaitingForSetup(i) :
              FlowNoted(session[a], request[a].asked, request[a].mobile) \in Session
      BY <3>1, FlowNotedType DEF WaitingForSetup, TypeOK
    <3>. QED
      BY <1>3, <3>2 DEF DiscoverySucceeds, TypeOK
  <2>2. request' \in [Agents -> Request]
    BY <1>3 DEF DiscoverySucceeds, TypeOK
  <2>3. oidcConfig' \in [Instances -> BOOLEAN] /\ oidcSetup' \in [Instances -> BOOLEAN]
        /\ discoveries' \in [Instances -> Nat]
    BY <1>3 DEF DiscoverySucceeds, TypeOK
  <2>. QED
    BY <1>3, <2>1, <2>2, <2>3 DEF DiscoverySucceeds, tokenVars, TypeOK
<1>4. ASSUME NEW i \in Instances, DiscoveryFails(i) PROVE TypeOK'
  BY <1>4 DEF DiscoveryFails, tokenVars, TypeOK
<1>5. ASSUME NEW a \in Agents, NEW i \in Instances, NEW u \in Users, Callback(a, i, u) PROVE TypeOK'
  <2>1. CASE Establish(a, u, None) /\ Become(a, Idle) /\ UNCHANGED tokenVars
    BY <1>5, <2>1, EstablishType DEF Callback, Become, oidcVars, tokenVars, TypeOK
  <2>2. ASSUME NEW t \in Tokens, NEW mobileFlow, IssueToken(a, i, u, t, SafeReturnTo(session[a].oidcReturnTo, mobileFlow))
        PROVE  TypeOK'
    <3>. DEFINE returnTo == SafeReturnTo(session[a].oidcReturnTo, mobileFlow)
                entry == [user |-> u, expiresAt |-> clock + MobileAuthTtl]
    <3>1. [at |-> "complete", returnTo |-> returnTo] \in Request
      <4>1. returnTo \in Targets
        BY TargetsAreKept DEF SafeReturnTo, TypeOK, Session, Targets
      <4>. HIDE DEF returnTo
      <4>. QED
        BY <4>1 DEF Request
    <3>2. entry \in Entry /\ [user |-> u, expiresAt |-> entry.expiresAt, by |-> i] \in Issue
      BY DEF TypeOK, Entry, Issue
    <3>3. issued' \in [Tokens -> Issue \cup {None}] /\ handoffs' \in [Instances -> [Tokens -> Entry \cup {None}]]
      BY <2>2, <3>2 DEF IssueToken, TypeOK
    <3>4. session' \in [Agents -> Session] /\ request' \in [Agents -> Request]
      BY <2>2, <3>1, EstablishType DEF IssueToken, Become, TypeOK
    <3>. QED
      BY <1>5, <2>2, <3>3, <3>4 DEF Callback, IssueToken, oidcVars, TypeOK
  <2>. QED
    BY <1>5, <2>1, <2>2 DEF Callback
<1>6. ASSUME NEW a \in Agents, CallbackFails(a) PROVE TypeOK'
  BY <1>6, NotEstablishedType DEF CallbackFails, Become, oidcVars, tokenVars, TypeOK
<1>7. ASSUME NEW a \in Agents, NEW returnTo \in Targets, MobileComplete(a, returnTo) PROVE TypeOK'
  <2>1. GetReturnTo(returnTo, "path", "mobile") \in Targets
    BY TargetsAreKept DEF Targets
  <2>. QED
    BY <1>7, <2>1, HoldingType DEF MobileComplete, Become, oidcVars, TypeOK
<1>8. ASSUME NEW a \in Agents, Leave(a) \/ Logout(a) PROVE TypeOK'
  BY <1>8, NewSessionType DEF Leave, Logout, Become, oidcVars, tokenVars, TypeOK
<1>9. ASSUME NEW a \in Agents, NEW i \in Instances, NEW t \in Tokens, Present(a, i, t) PROVE TypeOK'
  <2>1. [at |-> "getDel", inst |-> i, token |-> t] \in Request
    BY DEF Request
  <2>. QED
    BY <1>9, <2>1 DEF Present, Become, oidcVars, TypeOK
<1>10. ASSUME NEW a \in Agents, GetDel(a) PROVE TypeOK'
  <2>. DEFINE t == request[a].token
  <2>1. request[a] \in [at : {"getDel"}, inst : Instances, token : Tokens]
    BY <1>10, RequestFields DEF GetDel, TypeOK
  <2>2. \A raw \in {redis[t], None} :
           [at |-> "reply", inst |-> request[a].inst, token |-> t, raw |-> raw] \in Request
    BY <2>1 DEF Request, TypeOK
  <2>3. request' \in [Agents -> Request]
    BY <1>10, <2>2 DEF GetDel, Become, TypeOK
  <2>4. redis' \in [Tokens -> Entry \cup {None}]
    BY <1>10 DEF GetDel, TypeOK
  <2>. QED
    BY <1>10, <2>3, <2>4 DEF GetDel, oidcVars, TypeOK
<1>11. ASSUME NEW a \in Agents, Reply(a) PROVE TypeOK'
  <2>1. request[a] \in [at : {"reply"}, inst : Instances, token : Tokens, raw : Entry \cup {None}]
    BY <1>11, RequestFields DEF Reply, TypeOK
  <2>2. handoffs' \in [Instances -> [Tokens -> Entry \cup {None}]]
    BY <1>11, <2>1 DEF Reply, TypeOK
  <2>3. Redeemed(a) \in Users \cup {None}
    BY <2>1 DEF Redeemed, Live, TypeOK, Entry
  <2>4. session' \in [Agents -> Session]
    BY <1>11, <2>3, EstablishType, NotEstablishedType DEF Reply, TypeOK
  <2>. QED
    BY <1>11, <2>2, <2>4 DEF Reply, Become, oidcVars, TypeOK
<1>12. ASSUME NEW t \in Tokens, RedisStep(t) PROVE TypeOK'
  <2>1. CASE SetArrives(t)
    <3>1. issued[t] \in Issue
      BY <2>1 DEF SetArrives, EntriesAreIssued, TypeOK
    <3>2. [user |-> issued[t].user, expiresAt |-> issued[t].expiresAt] \in Entry
      BY <3>1 DEF Issue, Entry
    <3>. QED
      BY <2>1, <3>2 DEF SetArrives, oidcVars, TypeOK
  <2>2. CASE SetLost(t) \/ RedisExpires(t)
    BY <2>2 DEF SetLost, RedisExpires, oidcVars, TypeOK
  <2>. QED
    BY <1>12, <2>1, <2>2 DEF RedisStep
<1>13. ASSUME NEW i \in Instances, CleanUp(i) PROVE TypeOK'
  BY <1>13 DEF CleanUp, oidcVars, TypeOK
<1>14. CASE Tick
  BY <1>14 DEF Tick, oidcVars, tokenVars, TypeOK
<1>15. ASSUME NEW i \in Instances, Restart(i) PROVE TypeOK'
  <2>1. issued' \in [Tokens -> Issue \cup {None}]
    BY <1>15 DEF Restart, TypeOK, Issue
  <2>2. handoffs' \in [Instances -> [Tokens -> Entry \cup {None}]] /\ request' \in [Agents -> Request]
    BY <1>15 DEF Restart, TypeOK
  <2>3. oidcConfig' \in [Instances -> BOOLEAN] /\ oidcSetup' \in [Instances -> BOOLEAN]
        /\ discoveries' \in [Instances -> Nat] /\ setting' \subseteq Tokens /\ restarts' \in 0..MaxRestarts
    BY <1>15 DEF Restart, TypeOK
  <2>. QED
    BY <1>15, <2>1, <2>2, <2>3 DEF Restart, TypeOK
<1>. QED
  BY <1>1, <1>2, <1>3, <1>4, <1>5, <1>6, <1>7, <1>8, <1>9, <1>10, <1>11, <1>12, <1>13, <1>14, <1>15,
     AskedAreTargets
  DEF Next, AgentStep, InstanceStep

------------------------------------------------------------------------------
(* The set-up *)

\* Steps that leave the set-up alone and make nobody wait for it
LEMMA SetupUntouched ==
    ASSUME SetupInv, UNCHANGED oidcVars,
           \A a \in Agents : request'[a] = request[a] \/ request'[a].at # "setup"
    PROVE  SetupInv'
BY DEF SetupInv, SetupIsShared, oidcVars

LEMMA NextSetup == TypeOK /\ SetupInv /\ [Next]_vars => SetupInv'
<1>. SUFFICES ASSUME TypeOK, SetupInv, [Next]_vars PROVE SetupInv'
  OBVIOUS
<1>. USE SimpleRequests
<1>1. ASSUME NEW a \in Agents, NEW i \in Instances, NEW mobile \in BOOLEAN, NEW asked \in Targets,
             BeginOidc(a, i, asked, mobile)
      PROVE  SetupInv'
  <2>1. CASE oidcConfig[i]
    BY <1>1, <2>1, SetupUntouched DEF BeginOidc, ToProvider, Become, TypeOK
  <2>2. CASE ~oidcConfig[i]
    <3>. DEFINE r == [at |-> "setup", inst |-> i, asked |-> asked, mobile |-> mobile]
    <3>1. r.at = "setup" /\ r.inst = i
      OBVIOUS
    <3>. HIDE DEF r
    <3>2. request' = [request EXCEPT ![a] = r]
      BY <1>1, <2>2 DEF BeginOidc, Become, r
    <3>3. CASE oidcSetup[i]
      <4>1. UNCHANGED oidcVars
        BY <1>1, <2>2, <3>3 DEF BeginOidc
      <4>. QED
        BY <3>1, <3>2, <3>3, <4>1 DEF SetupInv, SetupIsShared, oidcVars, TypeOK
    <3>4. CASE ~oidcSetup[i]
      <4>1. StartSetup(i) /\ discoveries[i] = 0
        BY <1>1, <2>2, <3>4 DEF BeginOidc, SetupInv, TypeOK
      <4>2. /\ oidcSetup' = [oidcSetup EXCEPT ![i] = TRUE]
            /\ discoveries' = [discoveries EXCEPT ![i] = 1]
        BY <4>1 DEF StartSetup, TypeOK
      <4>. QED
        BY <3>1, <3>2, <4>2, RequestFields DEF SetupInv, SetupIsShared, TypeOK
    <3>. QED
      BY <3>3, <3>4
  <2>. QED
    BY <2>1, <2>2
<1>2. ASSUME NEW i \in Instances, DiscoverySucceeds(i) \/ DiscoveryFails(i) PROVE SetupInv'
  <2>1. /\ discoveries' = [discoveries EXCEPT ![i] = 0]
        /\ oidcSetup' = [oidcSetup EXCEPT ![i] = FALSE]
    BY <1>2 DEF DiscoverySucceeds, DiscoveryFails, SetupInv, SetupIsShared, TypeOK
  <2>2. \A a \in Agents : request'[a].at = "setup" => request'[a] = request[a] /\ request[a].inst # i
    BY <1>2 DEF DiscoverySucceeds, DiscoveryFails, WaitingForSetup
  <2>. QED
    BY <2>1, <2>2, RequestFields DEF SetupInv, SetupIsShared, TypeOK
<1>3. ASSUME NEW i \in Instances, Restart(i) PROVE SetupInv'
  <2>1. /\ discoveries' = [discoveries EXCEPT ![i] = 0]
        /\ oidcSetup' = [oidcSetup EXCEPT ![i] = FALSE]
    BY <1>3 DEF Restart
  <2>2. \A a \in Agents : request'[a].at = "setup" => request'[a] = request[a] /\ request[a].inst # i
    <3>1. \A a \in Agents : request[a].at = "setup" => "inst" \in DOMAIN request[a]
      BY RequestFields DEF TypeOK
    <3>. QED
      BY <1>3, <3>1 DEF Restart, AtInstance
  <2>. QED
    BY <2>1, <2>2, RequestFields DEF SetupInv, SetupIsShared, TypeOK
<1>4. ASSUME NEW a \in Agents, AgentStep(a),
             ~ \E i \in Instances, mobile \in BOOLEAN, asked \in Asked \cup {Login(r) : r \in Asked} :
                   BeginOidc(a, i, asked, mobile)
      PROVE  SetupInv'
  <2>1. UNCHANGED oidcVars
    BY <1>4 DEF AgentStep, Callback, CallbackFails, MobileComplete, Leave, Logout, Present, GetDel, Reply
  <2>2. \/ request' = request
        \/ \E r : r.at # "setup" /\ request' = [request EXCEPT ![a] = r]
    <3>. DEFINE Goal == request' = request \/ \E r : r.at # "setup" /\ request' = [request EXCEPT ![a] = r]
    <3>. SUFFICES Goal
      OBVIOUS
    <3>1. ASSUME NEW i \in Instances, NEW u \in Users, Callback(a, i, u) PROVE Goal
      <4>1. CASE Become(a, Idle)
        BY <4>1 DEF Become
      <4>2. ASSUME NEW t \in Tokens, NEW returnTo, IssueToken(a, i, u, t, returnTo) PROVE Goal
        <5>1. Become(a, [at |-> "complete", returnTo |-> returnTo])
          BY <4>2 DEF IssueToken
        <5>. QED
          BY <5>1 DEF Become
      <4>. QED
        BY <3>1, <4>1, <4>2 DEF Callback
    <3>2. ASSUME NEW i \in Instances, NEW t \in Tokens, Present(a, i, t) PROVE Goal
      BY <3>2 DEF Present, Become
    <3>3. CASE GetDel(a)
      BY <3>3 DEF GetDel, Become
    <3>4. CASE CallbackFails(a) \/ (\E returnTo \in Targets : MobileComplete(a, returnTo))
               \/ Leave(a) \/ Logout(a) \/ Reply(a)
      BY <3>4 DEF CallbackFails, MobileComplete, Leave, Logout, Reply, Become
    <3>. HIDE DEF Goal
    <3>. QED
      BY <1>4, <3>1, <3>2, <3>3, <3>4 DEF AgentStep
  <2>. QED
    BY <2>1, <2>2, SetupUntouched DEF TypeOK
<1>5. ASSUME \/ Tick \/ UNCHANGED vars
             \/ \E i \in Instances : CleanUp(i)
             \/ \E t \in Tokens : RedisStep(t)
      PROVE  SetupInv'
  BY <1>5, SetupUntouched DEF Tick, vars, CleanUp, RedisStep, SetArrives, SetLost, RedisExpires
<1>6. ASSUME NEW a \in Agents, AgentStep(a) PROVE SetupInv'
  <2>1. CASE \E i \in Instances, mobile \in BOOLEAN, asked \in Asked \cup {Login(r) : r \in Asked} :
                BeginOidc(a, i, asked, mobile)
    <3>1. PICK i \in Instances, mobile \in BOOLEAN, asked \in Asked \cup {Login(r) : r \in Asked} :
               BeginOidc(a, i, asked, mobile)
      BY <2>1
    <3>2. asked \in Targets
      BY AskedAreTargets
    <3>. QED
      BY <1>1, <3>1, <3>2
  <2>. QED
    BY <1>4, <1>6, <2>1
<1>7. ASSUME NEW i \in Instances, InstanceStep(i) PROVE SetupInv'
  BY <1>2, <1>3, <1>5, <1>7 DEF InstanceStep
<1>. QED
  BY <1>5, <1>6, <1>7 DEF Next

------------------------------------------------------------------------------
(* The handoff *)

entryVars == <<clock, handoffs, redis, setting, issued, stored, presented>>

\* A session keeps its user and its token, or it holds none.
HoldsNoMore(a) ==
    \/ session'[a].mobileAuthToken = None
    \/ session'[a].user = session[a].user /\ session'[a].mobileAuthToken = session[a].mobileAuthToken

\* Steps that leave every entry alone and redeem nothing
LEMMA TokensUntouched ==
    ASSUME TokenInv, UNCHANGED entryVars, \A a \in Agents : HoldsNoMore(a),
           \A a \in Agents : request'[a] = request[a] \/ request'[a].at \notin {"getDel", "reply"}
    PROVE  TokenInv'
<1>1. EntriesAreIssued' /\ RedeemedIsPresented'
  BY DEF TokenInv, EntriesAreIssued, AsIssued, RedeemedIsPresented, entryVars
<1>2. TokenIsOfTheSession'
  BY DEF TokenInv, TokenIsOfTheSession, HoldsNoMore, entryVars
<1>3. UnpresentedIsRedeemable'
  BY DEF TokenInv, UnpresentedIsRedeemable, Live, entryVars
<1>. QED
  BY <1>1, <1>2, <1>3 DEF TokenInv

\* A process issues a token that was not issued before.
LEMMA IssueKeepsTokens ==
    ASSUME TypeOK, TokenInv, UNCHANGED clock, NEW a \in Agents, NEW i \in Instances, NEW u \in Users,
           NEW t \in Tokens, NEW returnTo, IssueToken(a, i, u, t, returnTo)
    PROVE  TokenInv'
<1>. USE AuthAssumption
<1>. DEFINE entry == [user |-> u, expiresAt |-> clock + MobileAuthTtl]
            issue == [user |-> u, expiresAt |-> entry.expiresAt, by |-> i]
            r == [at |-> "complete", returnTo |-> returnTo]
<1>1. /\ entry \in Entry /\ issue \in Issue /\ entry # None /\ issue # None
      /\ entry.user = u /\ entry.expiresAt = clock + MobileAuthTtl
      /\ issue.user = u /\ issue.expiresAt = clock + MobileAuthTtl /\ issue.by = i
      /\ entry.expiresAt >= clock
  <2>1. entry \in Entry /\ issue \in Issue
    BY DEF TypeOK, Entry, Issue
  <2>. QED
    BY <2>1 DEF TypeOK
<1>2. /\ issued[t] = None /\ issued' = [issued EXCEPT ![t] = issue]
      /\ handoffs' = [handoffs EXCEPT ![i][t] = entry]
      /\ setting' = setting \cup {t} /\ UNCHANGED <<redis, stored, page, presented>>
      /\ request' = [request EXCEPT ![a] = r] /\ Establish(a, u, t)
  BY DEF IssueToken, Become
<1>3. r.at = "complete"
  OBVIOUS
<1>. HIDE DEF entry, issue, r
<1>4. EntriesAreIssued'
  BY <1>1, <1>2, <1>3 DEF TokenInv, EntriesAreIssued, AsIssued, TypeOK
<1>5. RedeemedIsPresented'
  BY <1>2, <1>3 DEF TokenInv, RedeemedIsPresented, TypeOK
<1>6. TokenIsOfTheSession'
  <2>1. /\ session'[a].user = u /\ session'[a].mobileAuthToken = t
        /\ \A b \in Agents \ {a} : session'[b] = session[b]
    BY <1>2, EstablishType DEF TypeOK
  <2>2. \A b \in Agents \ {a} : session[b].mobileAuthToken # None => session[b].mobileAuthToken # t
    BY <1>2 DEF TokenInv, TokenIsOfTheSession
  <2>. QED
    BY <1>1, <1>2, <2>1, <2>2 DEF TokenInv, TokenIsOfTheSession, TypeOK, Session
<1>7. UnpresentedIsRedeemable'
  BY <1>1, <1>2 DEF TokenInv, UnpresentedIsRedeemable, EntriesAreIssued, Live, TypeOK
<1>. QED
  BY <1>4, <1>5, <1>6, <1>7 DEF TokenInv

\* The token is redeemed: Redis hands its entry over, then the process answers.
LEMMA GetDelKeepsTokens ==
    ASSUME TypeOK, TokenInv, NEW a \in Agents, GetDel(a)
    PROVE  TokenInv'
<1>. DEFINE t == request[a].token
<1>1. request[a] \in [at : {"getDel"}, inst : Instances, token : Tokens] /\ t \in presented
  BY RequestFields DEF GetDel, TypeOK, TokenInv, RedeemedIsPresented
<1>2. PICK raw \in {redis[t], None} :
          request' = [request EXCEPT ![a] = [at |-> "reply", inst |-> request[a].inst, token |-> t, raw |-> raw]]
  BY DEF GetDel, Become
<1>. DEFINE r == [at |-> "reply", inst |-> request[a].inst, token |-> t, raw |-> raw]
<1>3. r.at = "reply" /\ r.token = t /\ r.raw = raw
  OBVIOUS
<1>4. /\ request' = [request EXCEPT ![a] = r] /\ redis' \in {redis, [redis EXCEPT ![t] = None]}
      /\ UNCHANGED <<clock, session, handoffs, setting, issued, stored, presented>>
  BY <1>2 DEF GetDel
<1>. HIDE DEF r
<1>5. EntriesAreIssued'
  <2>1. AsIssued(raw, t)
    BY <1>1, <1>2 DEF TokenInv, EntriesAreIssued, AsIssued
  <2>2. \A x \in Tokens : redis'[x] = redis[x] \/ redis'[x] = None
    BY <1>1, <1>4 DEF TypeOK
  <2>3. \A b \in Agents : request'[b] = request[b] \/ (request'[b].token = t /\ request'[b].raw = raw)
    BY <1>3, <1>4 DEF TypeOK
  <2>4. \A b \in Agents : request'[b].at = "reply" => AsIssued(request'[b].raw, request'[b].token)
    BY <2>1, <2>3 DEF TokenInv, EntriesAreIssued
  <2>. QED
    BY <1>4, <2>2, <2>4 DEF TokenInv, EntriesAreIssued, AsIssued
<1>6. RedeemedIsPresented'
  BY <1>1, <1>3, <1>4 DEF TokenInv, RedeemedIsPresented, TypeOK
<1>7. TokenIsOfTheSession'
  BY <1>4 DEF TokenInv, TokenIsOfTheSession
<1>8. UnpresentedIsRedeemable'
  BY <1>1, <1>4 DEF TokenInv, UnpresentedIsRedeemable, Live, TypeOK
<1>. QED
  BY <1>5, <1>6, <1>7, <1>8 DEF TokenInv

LEMMA ReplyKeepsTokens ==
    ASSUME TypeOK, TokenInv, NEW a \in Agents, Reply(a)
    PROVE  TokenInv'
<1>. DEFINE i == request[a].inst
            t == request[a].token
            raw == request[a].raw
<1>1. /\ request[a] \in [at : {"reply"}, inst : Instances, token : Tokens, raw : Entry \cup {None}]
      /\ t \in presented /\ AsIssued(raw, t)
  BY RequestFields DEF Reply, TypeOK, TokenInv, RedeemedIsPresented, EntriesAreIssued
<1>2. /\ handoffs' \in {handoffs, [handoffs EXCEPT ![i][t] = None], [handoffs EXCEPT ![i][t] = raw]}
      /\ request' = [request EXCEPT ![a] = Idle]
      /\ UNCHANGED <<clock, redis, setting, issued, stored, presented>>
  BY DEF Reply, Become
<1>3. \A b \in Agents : HoldsNoMore(b)
  <2>1. Redeemed(a) \in Users \cup {None}
    BY <1>1 DEF Redeemed, Live, TypeOK, Entry
  <2>. QED
    BY <2>1, EstablishType, NotEstablishedType, NewSessionType DEF Reply, HoldsNoMore, TypeOK
<1>4. EntriesAreIssued'
  <2>1. \A x \in Tokens, j \in Instances :
           handoffs'[j][x] \in {handoffs[j][x], None} \/ (x = t /\ handoffs'[j][x] = raw)
    BY <1>1, <1>2 DEF TypeOK
  <2>2. \A x \in Tokens, j \in Instances : AsIssued(handoffs'[j][x], x)
    BY <1>1, <2>1 DEF TokenInv, EntriesAreIssued, AsIssued
  <2>3. \A b \in Agents : request'[b] = request[b] \/ request'[b].at # "reply"
    BY <1>2, SimpleRequests DEF TypeOK
  <2>. QED
    BY <1>2, <2>2, <2>3 DEF TokenInv, EntriesAreIssued, AsIssued
<1>5. RedeemedIsPresented'
  BY <1>2, SimpleRequests DEF TokenInv, RedeemedIsPresented, TypeOK
<1>6. TokenIsOfTheSession'
  BY <1>2, <1>3 DEF TokenInv, TokenIsOfTheSession, HoldsNoMore
<1>7. UnpresentedIsRedeemable'
  <2>1. \A x \in Tokens \ presented, j \in Instances : handoffs'[j][x] = handoffs[j][x]
    <3>. SUFFICES ASSUME NEW x \in Tokens \ presented, NEW j \in Instances
                  PROVE  handoffs'[j][x] = handoffs[j][x]
      OBVIOUS
    <3>1. x # t /\ i \in Instances /\ t \in Tokens
      BY <1>1
    <3>. HIDE DEF i, t, raw
    <3>2. \A e : [handoffs EXCEPT ![i][t] = e][j][x] = handoffs[j][x]
      BY <3>1 DEF TypeOK
    <3>. QED
      BY <1>2, <3>2
  <2>2. \A x \in Tokens \ presented : issued[x] # None /\ issued[x].by # None => issued[x].by \in Instances
    BY DEF TypeOK, Issue
  <2>. QED
    BY <1>2, <2>1, <2>2 DEF TokenInv, UnpresentedIsRedeemable, Live
<1>. QED
  BY <1>4, <1>5, <1>6, <1>7 DEF TokenInv

\* What Redis, the interval, the clock and restarts do to the entries
LEMMA EntriesAge ==
    ASSUME TypeOK, TokenInv,
           Tick \/ (\E t \in Tokens : RedisStep(t)) \/ (\E i \in Instances : CleanUp(i) \/ Restart(i))
    PROVE  TokenInv'
<1>. USE AuthAssumption
<1>1. UNCHANGED <<session, presented>>
  BY DEF Tick, RedisStep, SetArrives, SetLost, RedisExpires, CleanUp, Restart, tokenVars
<1>2. \A a \in Agents : request'[a] = request[a] \/ request'[a] = Idle
  BY DEF Tick, RedisStep, SetArrives, SetLost, RedisExpires, CleanUp, Restart
<1>3. \A t \in Tokens :
         /\ issued[t] = None <=> issued'[t] = None
         /\ issued[t] # None =>
               /\ issued'[t].user = issued[t].user /\ issued'[t].expiresAt = issued[t].expiresAt
               /\ issued'[t].by # None => issued'[t].by = issued[t].by
  <2>1. ASSUME NEW i \in Instances, Restart(i), NEW t \in Tokens
        PROVE  /\ issued[t] = None <=> issued'[t] = None
               /\ issued[t] # None =>
                     /\ issued'[t].user = issued[t].user /\ issued'[t].expiresAt = issued[t].expiresAt
                     /\ issued'[t].by # None => issued'[t].by = issued[t].by /\ issued[t].by # i
    <3>1. CASE issued[t] # None /\ issued[t].by = i
      <4>1. issued'[t] = [issued[t] EXCEPT !.by = None]
        BY <2>1, <3>1 DEF Restart
      <4>2. issued[t] \in Issue
        BY <3>1 DEF TypeOK
      <4>3. \A x \in Issue : LET y == [x EXCEPT !.by = None]
                            IN  /\ y \in Issue /\ y.by = None
                                /\ y.user = x.user /\ y.expiresAt = x.expiresAt
        BY DEF Issue
      <4>4. /\ issued'[t] \in Issue /\ issued'[t].by = None
            /\ issued'[t].user = issued[t].user /\ issued'[t].expiresAt = issued[t].expiresAt
        BY <4>1, <4>2, <4>3
      <4>5. issued'[t] # None
        BY <4>4
      <4>. QED
        BY <3>1, <4>4, <4>5
    <3>2. CASE ~(issued[t] # None /\ issued[t].by = i)
      BY <2>1, <3>2 DEF Restart
    <3>. QED
      BY <3>1, <3>2
  <2>2. CASE Tick \/ (\E t \in Tokens : RedisStep(t)) \/ (\E i \in Instances : CleanUp(i))
    BY <2>2 DEF Tick, RedisStep, SetArrives, SetLost, RedisExpires, CleanUp, tokenVars
  <2>. QED
    BY <2>1, <2>2
<1>4. \A t \in Tokens :
         /\ AsIssued(redis'[t], t)
         /\ \A i \in Instances : handoffs'[i][t] \in {handoffs[i][t], None}
         /\ t \in setting' \cup stored' => issued[t] # None
  <2>1. ASSUME NEW t \in Tokens, RedisStep(t) PROVE <1>4
    <3>1. CASE SetArrives(t)
      <4>1. issued[t] # None /\ issued[t] \in Issue
        BY <3>1 DEF SetArrives, TokenInv, EntriesAreIssued, TypeOK
      <4>2. AsIssued([user |-> issued[t].user, expiresAt |-> issued[t].expiresAt], t)
        BY <4>1 DEF AsIssued
      <4>. QED
        BY <3>1, <4>1, <4>2 DEF SetArrives, TokenInv, EntriesAreIssued, TypeOK
    <3>2. CASE SetLost(t) \/ RedisExpires(t)
      BY <3>2 DEF SetLost, RedisExpires, TokenInv, EntriesAreIssued, AsIssued, TypeOK
    <3>. QED
      BY <2>1, <3>1, <3>2 DEF RedisStep
  <2>2. ASSUME NEW i \in Instances, CleanUp(i) PROVE <1>4
    BY <2>2 DEF CleanUp, TokenInv, EntriesAreIssued, TypeOK
  <2>3. ASSUME NEW i \in Instances, Restart(i) PROVE <1>4
    BY <2>3 DEF Restart, TokenInv, EntriesAreIssued, TypeOK
  <2>4. CASE Tick
    BY <2>4 DEF Tick, tokenVars, TokenInv, EntriesAreIssued, TypeOK
  <2>. QED
    BY <2>1, <2>2, <2>3, <2>4
<1>5. EntriesAreIssued'
  <2>1. ASSUME NEW entry, NEW t \in Tokens, AsIssued(entry, t)
        PROVE  entry # None => /\ issued'[t] # None
                               /\ entry.user = issued'[t].user /\ entry.expiresAt = issued'[t].expiresAt
    BY <1>3, <2>1 DEF AsIssued
  <2>2. \A t \in Tokens, i \in Instances : AsIssued(handoffs'[i][t], t)
    <3>. SUFFICES ASSUME NEW t \in Tokens, NEW i \in Instances PROVE AsIssued(handoffs'[i][t], t)
      OBVIOUS
    <3>1. CASE handoffs'[i][t] = None
      BY <3>1 DEF AsIssued
    <3>2. CASE handoffs'[i][t] = handoffs[i][t]
      BY <3>2 DEF TokenInv, EntriesAreIssued, AsIssued
    <3>. QED
      BY <1>4, <3>1, <3>2
  <2>3. \A a \in Agents : request'[a].at = "reply" =>
           /\ request'[a].token \in Tokens /\ AsIssued(request'[a].raw, request'[a].token)
    <3>1. \A a \in Agents : request'[a].at = "reply" => request'[a] = request[a]
      BY <1>2, SimpleRequests
    <3>2. \A a \in Agents : request[a].at = "reply" =>
             /\ request[a].token \in Tokens /\ AsIssued(request[a].raw, request[a].token)
      BY RequestFields DEF TypeOK, TokenInv, EntriesAreIssued
    <3>. QED
      BY <3>1, <3>2
  <2>4. \A t \in Tokens : t \in setting' \cup stored' => issued'[t] # None
    BY <1>3, <1>4
  <2>5. \A t \in Tokens : AsIssued(redis[t], t)'
    BY <1>4, <2>1 DEF AsIssued
  <2>6. \A t \in Tokens, i \in Instances : AsIssued(handoffs[i][t], t)'
    BY <2>1, <2>2 DEF AsIssued
  <2>7. \A a \in Agents : request'[a].at = "reply" => AsIssued(request[a].raw, request[a].token)'
    BY <2>1, <2>3 DEF AsIssued
  <2>. QED
    BY <2>4, <2>5, <2>6, <2>7 DEF EntriesAreIssued
<1>6. RedeemedIsPresented'
  BY <1>1, <1>2, SimpleRequests DEF TokenInv, RedeemedIsPresented
<1>7. TokenIsOfTheSession'
  BY <1>1, <1>3 DEF TokenInv, TokenIsOfTheSession, TypeOK, Session
<1>8. UnpresentedIsRedeemable'
  <2>. SUFFICES ASSUME NEW t \in Tokens \ presented, issued[t] # None, issued[t].expiresAt >= clock'
                PROVE  /\ issued'[t].by # None => Live(handoffs[issued[t].by][t])' /\ issued'[t].by = issued[t].by
                       /\ t \in stored' => Live(redis[t])'
    BY <1>1, <1>3 DEF UnpresentedIsRedeemable
  <2>1. /\ issued[t] \in Issue /\ issued[t].expiresAt \in Nat /\ clock' \in Nat /\ clock' >= clock
        /\ issued[t].expiresAt >= clock
    <3>1. issued[t] \in Issue /\ issued[t].expiresAt \in Nat
      BY DEF TypeOK, Issue
    <3>2. clock' \in Nat /\ clock' >= clock /\ clock \in Nat
      BY DEF Tick, RedisStep, SetArrives, SetLost, RedisExpires, CleanUp, Restart, TypeOK
    <3>. QED
      BY <3>1, <3>2
  <2>2. /\ issued[t].by # None => Live(handoffs[issued[t].by][t])
        /\ t \in stored => Live(redis[t])
    BY <2>1 DEF TokenInv, UnpresentedIsRedeemable
  <2>3. issued'[t].by # None => issued'[t].by = issued[t].by /\ issued[t].by \in Instances
    BY <1>3, <2>1 DEF Issue
  <2>4. issued'[t].by # None => handoffs'[issued[t].by][t] = handoffs[issued[t].by][t]
    <3>1. ASSUME NEW i \in Instances, CleanUp(i) PROVE <2>4
      BY <2>2, <2>3, <3>1 DEF CleanUp, TypeOK
    <3>2. ASSUME NEW i \in Instances, Restart(i), issued'[t].by # None PROVE issued[t].by # i
      BY <1>3, <2>1, <3>2 DEF Restart, Issue, TypeOK
    <3>3. ASSUME NEW i \in Instances, Restart(i) PROVE <2>4
      BY <2>3, <3>2, <3>3 DEF Restart, TypeOK
    <3>4. CASE Tick \/ \E x \in Tokens : RedisStep(x)
      BY <3>4 DEF Tick, RedisStep, SetArrives, SetLost, RedisExpires, tokenVars
    <3>. QED
      BY <3>1, <3>3, <3>4
  <2>5. issued'[t].by # None => Live(handoffs[issued[t].by][t])'
    <3>1. issued'[t].by # None => AsIssued(handoffs[issued[t].by][t], t)
      BY <2>3 DEF TokenInv, EntriesAreIssued
    <3>. QED
      BY <2>1, <2>2, <2>3, <2>4, <3>1 DEF AsIssued, Live
  <2>6. t \in stored' => Live(redis[t])'
    <3>1. t \in stored' => redis'[t] # None
      <4>1. ASSUME NEW x \in Tokens, SetArrives(x) PROVE <3>1
        <5>1. [user |-> issued[x].user, expiresAt |-> issued[x].expiresAt] # None
          <6>1. issued[x] \in Issue
            BY <4>1 DEF SetArrives, TokenInv, EntriesAreIssued, TypeOK
          <6>2. [user |-> issued[x].user, expiresAt |-> issued[x].expiresAt] \in Entry
            BY <6>1 DEF Issue, Entry
          <6>. QED
            BY <6>2
        <5>. QED
          BY <2>2, <4>1, <5>1 DEF SetArrives, TypeOK, Live
      <4>2. ASSUME NEW x \in Tokens, SetLost(x) \/ RedisExpires(x) PROVE <3>1
        BY <2>2, <4>2 DEF SetLost, RedisExpires, TypeOK, Live
      <4>3. CASE Tick \/ \E i \in Instances : CleanUp(i) \/ Restart(i)
        BY <2>2, <4>3 DEF Tick, CleanUp, Restart, tokenVars, Live
      <4>. QED
        BY <4>1, <4>2, <4>3 DEF RedisStep
    <3>2. redis'[t] # None => redis'[t].expiresAt = issued[t].expiresAt
      BY <1>3, <1>4 DEF AsIssued
    <3>. QED
      BY <2>1, <3>1, <3>2 DEF Live
  <2>. QED
    BY <1>3, <2>3, <2>5, <2>6
<1>. QED
  BY <1>5, <1>6, <1>7, <1>8 DEF TokenInv

LEMMA NextToken == TypeOK /\ TokenInv /\ [Next]_vars => TokenInv'
<1>. SUFFICES ASSUME TypeOK, TokenInv, [Next]_vars PROVE TokenInv'
  OBVIOUS
<1>. USE SimpleRequests
<1>1. CASE UNCHANGED vars
  BY <1>1, TokensUntouched DEF vars, tokenVars, entryVars, HoldsNoMore
<1>2. ASSUME NEW a \in Agents, NEW i \in Instances, NEW mobile \in BOOLEAN, NEW asked \in Targets,
             BeginOidc(a, i, asked, mobile)
      PROVE  TokenInv'
  <2>1. \A b \in Agents : HoldsNoMore(b)
    <3>1. CASE oidcConfig[i]
      <4>1. LET s == FlowNoted(session[a], asked, mobile)
            IN  s.user = session[a].user /\ s.mobileAuthToken = session[a].mobileAuthToken
        BY FlowNotedType DEF TypeOK
      <4>2. session' = [session EXCEPT ![a] = FlowNoted(session[a], asked, mobile)]
        BY <1>2, <3>1 DEF BeginOidc, ToProvider
      <4>. QED
        BY <4>1, <4>2 DEF HoldsNoMore, TypeOK
    <3>2. CASE ~oidcConfig[i]
      BY <1>2, <3>2 DEF BeginOidc, HoldsNoMore
    <3>. QED
      BY <3>1, <3>2
  <2>2. \A b \in Agents : request'[b] = request[b] \/ request'[b].at \notin {"getDel", "reply"}
    <3>. DEFINE r == [at |-> "setup", inst |-> i, asked |-> asked, mobile |-> mobile]
    <3>1. r.at = "setup"
      OBVIOUS
    <3>2. request' \in {[request EXCEPT ![a] = r], [request EXCEPT ![a] = Provider]}
      BY <1>2 DEF BeginOidc, ToProvider, Become
    <3>. HIDE DEF r
    <3>. QED
      BY <3>1, <3>2 DEF TypeOK
  <2>. QED
    BY <1>2, <2>1, <2>2, TokensUntouched DEF BeginOidc, tokenVars, entryVars
<1>3. ASSUME NEW i \in Instances, DiscoverySucceeds(i) \/ DiscoveryFails(i) PROVE TokenInv'
  <2>1. \A b \in Agents : HoldsNoMore(b)
    <3>1. \A b \in WaitingForSetup(i) : request[b].asked \in Targets /\ request[b].mobile \in BOOLEAN
      BY RequestFields DEF WaitingForSetup, TypeOK
    <3>2. \A b \in WaitingForSetup(i) :
             LET s == FlowNoted(session[b], request[b].asked, request[b].mobile)
             IN  s.user = session[b].user /\ s.mobileAuthToken = session[b].mobileAuthToken
      BY <3>1, FlowNotedType DEF WaitingForSetup, TypeOK
    <3>. QED
      BY <1>3, <3>2 DEF DiscoverySucceeds, DiscoveryFails, HoldsNoMore
  <2>2. \A b \in Agents : request'[b] \in {request[b], Provider, Idle}
    BY <1>3 DEF DiscoverySucceeds, DiscoveryFails
  <2>. QED
    BY <1>3, <2>1, <2>2, TokensUntouched DEF DiscoverySucceeds, DiscoveryFails, tokenVars, entryVars
<1>4. ASSUME NEW a \in Agents, NEW i \in Instances, NEW u \in Users, Callback(a, i, u) PROVE TokenInv'
  <2>1. CASE Establish(a, u, None) /\ Become(a, Idle) /\ UNCHANGED tokenVars
    <3>1. \A b \in Agents : HoldsNoMore(b)
      BY <2>1, EstablishType DEF HoldsNoMore, TypeOK
    <3>. QED
      BY <1>4, <2>1, <3>1, TokensUntouched DEF Callback, Become, tokenVars, entryVars, TypeOK
  <2>2. ASSUME NEW t \in Tokens, NEW returnTo, IssueToken(a, i, u, t, returnTo) PROVE TokenInv'
    BY <1>4, <2>2, IssueKeepsTokens DEF Callback
  <2>. QED
    BY <1>4, <2>1, <2>2 DEF Callback
<1>5. ASSUME NEW a \in Agents,
             CallbackFails(a) \/ Logout(a) \/ (\E returnTo \in Targets : MobileComplete(a, returnTo)) \/ Leave(a)
      PROVE  TokenInv'
  <2>1. \A b \in Agents : HoldsNoMore(b)
    <3>1. CASE CallbackFails(a)
      BY <3>1, NotEstablishedType, NewSessionType DEF CallbackFails, HoldsNoMore, TypeOK
    <3>2. CASE Logout(a)
      <4>1. session' = [session EXCEPT ![a] = NewSession(None)]
        BY <3>2 DEF Logout
      <4>. QED
        BY <4>1, NewSessionType DEF HoldsNoMore, TypeOK
    <3>3. ASSUME NEW returnTo \in Targets, MobileComplete(a, returnTo)
          PROVE  \A b \in Agents : HoldsNoMore(b)
      <4>1. session' = [session EXCEPT ![a] = [session[a] EXCEPT !.mobileAuthToken = None]]
        BY <3>3 DEF MobileComplete
      <4>2. [session[a] EXCEPT !.mobileAuthToken = None].mobileAuthToken = None
        BY HoldingType DEF TypeOK
      <4>. QED
        BY <4>1, <4>2 DEF HoldsNoMore, TypeOK
    <3>4. CASE Leave(a)
      BY <3>4 DEF Leave, HoldsNoMore
    <3>. QED
      BY <1>5, <3>1, <3>2, <3>3, <3>4
  <2>2. \A b \in Agents : request'[b] \in {request[b], Idle}
    BY <1>5 DEF CallbackFails, Logout, MobileComplete, Leave, Become, TypeOK
  <2>. QED
    BY <1>5, <2>1, <2>2, TokensUntouched
    DEF CallbackFails, Logout, MobileComplete, Leave, tokenVars, entryVars
<1>6. ASSUME NEW a \in Agents, NEW i \in Instances, NEW t \in Tokens, Present(a, i, t) PROVE TokenInv'
  <2>. DEFINE r == [at |-> "getDel", inst |-> i, token |-> t]
  <2>1. r.at = "getDel" /\ r.token = t
    OBVIOUS
  <2>2. /\ request' = [request EXCEPT ![a] = r] /\ presented' = presented \cup {t}
        /\ UNCHANGED <<clock, session, handoffs, redis, setting, issued, stored>>
    BY <1>6 DEF Present, Become
  <2>. HIDE DEF r
  <2>3. EntriesAreIssued'
    BY <2>1, <2>2 DEF TokenInv, EntriesAreIssued, AsIssued, TypeOK
  <2>4. RedeemedIsPresented'
    BY <2>1, <2>2 DEF TokenInv, RedeemedIsPresented, TypeOK
  <2>5. TokenIsOfTheSession' /\ UnpresentedIsRedeemable'
    BY <2>2 DEF TokenInv, TokenIsOfTheSession, UnpresentedIsRedeemable, Live
  <2>. QED
    BY <2>3, <2>4, <2>5 DEF TokenInv
<1>7. ASSUME NEW a \in Agents, GetDel(a) \/ Reply(a) PROVE TokenInv'
  BY <1>7, GetDelKeepsTokens, ReplyKeepsTokens
<1>8. ASSUME NEW a \in Agents, AgentStep(a) PROVE TokenInv'
  BY <1>2, <1>4, <1>5, <1>6, <1>7, <1>8, AskedAreTargets DEF AgentStep
<1>9. ASSUME NEW i \in Instances, InstanceStep(i) PROVE TokenInv'
  BY <1>3, <1>9, EntriesAge DEF InstanceStep
<1>. QED
  BY <1>1, <1>8, <1>9, EntriesAge DEF Next

------------------------------------------------------------------------------
LEMMA Inductive == Spec => []IInv
<1>1. IInv /\ [Next]_vars => IInv'
  BY NextType, NextSetup, NextToken DEF IInv, TokenInv
<1>. QED
  BY <1>1, InitIInv, PTL DEF Spec

\* Every variable keeps its type, however the sign-ins interleave.
THEOREM TypeCorrect == Spec => []TypeOK
<1>1. IInv => TypeOK
  BY DEF IInv
<1>. QED
  BY <1>1, Inductive, PTL

\* Sign-ins share the discovery that is under way, and each that waits waits
\* for one: ensureOidcSetup.
THEOREM SetupShared == Spec => []SetupIsShared
<1>1. IInv => SetupIsShared
  BY DEF IInv, SetupInv
<1>. QED
  BY <1>1, Inductive, PTL

\* The token a session holds was issued for the session's user: the callback.
THEOREM TokenOfItsSession == Spec => []TokenIsOfTheSession
<1>1. IInv => TokenIsOfTheSession
  BY DEF IInv, TokenInv
<1>. QED
  BY <1>1, Inductive, PTL

\* A token nobody has presented can be redeemed until it expires, where its
\* entry was kept: issueMobileAuthToken, the interval and the restarts.
THEOREM Redeemable == Spec => []UnpresentedIsRedeemable
<1>1. IInv => UnpresentedIsRedeemable
  BY DEF IInv, TokenInv
<1>. QED
  BY <1>1, Inductive, PTL

\* Only its own answer changes the session of an agent that is redeeming.
LEMMA OnlyReplyChanges ==
    ASSUME TypeOK, [Next]_vars, NEW a \in Agents, request[a].at = "reply", session'[a] # session[a]
    PROVE  Reply(a)
<1>1. ~ UNCHANGED session
  OBVIOUS
<1>2. ASSUME NEW b \in Agents, AgentStep(b) PROVE Reply(a)
  <2>1. ASSUME NEW c \in Agents, c # b PROVE session'[c] = session[c]
    <3>1. ASSUME NEW u \in Users \cup {None}, NEW t, Establish(b, u, t) PROVE session'[c] = session[c]
      BY <2>1, <3>1 DEF Establish, TypeOK
    <3>2. CASE NotEstablished(b)
      BY <2>1, <3>2 DEF NotEstablished, TypeOK
    <3>3. ASSUME NEW i \in Instances, NEW u \in Users, Callback(b, i, u) PROVE session'[c] = session[c]
      BY <3>1, <3>3 DEF Callback, IssueToken
    <3>4. CASE Reply(b)
      <4>1. CASE UNCHANGED session
        BY <4>1
      <4>2. CASE Establish(b, Redeemed(b), None)
        BY <2>1, <4>2 DEF Establish, TypeOK
      <4>. QED
        BY <3>2, <3>4, <4>1, <4>2 DEF Reply
    <3>5. CASE \E i \in Instances, mobile \in BOOLEAN, asked \in Asked \cup {Login(r) : r \in Asked} :
                  BeginOidc(b, i, asked, mobile)
      BY <2>1, <3>5 DEF BeginOidc, ToProvider, TypeOK
    <3>6. CASE CallbackFails(b) \/ (\E returnTo \in Targets : MobileComplete(b, returnTo))
               \/ Leave(b) \/ Logout(b) \/ GetDel(b)
               \/ \E i \in Instances, t \in Tokens : Present(b, i, t)
      BY <2>1, <3>2, <3>6 DEF CallbackFails, MobileComplete, Leave, Logout, GetDel, Present, TypeOK
    <3>. QED
      BY <1>2, <3>3, <3>4, <3>5, <3>6 DEF AgentStep
  <2>2. request[b].at = "reply"
    BY <2>1
  <2>3. ASSUME NEW returnTo \in Targets PROVE ~ MobileComplete(b, returnTo)
    <3>1. [at |-> "complete", returnTo |-> returnTo].at = "complete"
      OBVIOUS
    <3>. QED
      BY <2>2, <3>1, SimpleRequests DEF MobileComplete
  <2>. QED
    BY <1>2, <2>1, <2>2, <2>3, SimpleRequests
    DEF AgentStep, BeginOidc, Callback, CallbackFails, Leave, Logout, Present, GetDel
<1>3. ASSUME NEW i \in Instances, InstanceStep(i) PROVE Reply(a)
  BY <1>1, <1>3 DEF InstanceStep, DiscoverySucceeds, DiscoveryFails, CleanUp, Restart, WaitingForSetup
<1>. QED
  BY <1>1, <1>2, <1>3 DEF Next, RedisStep, SetArrives, SetLost, RedisExpires, Tick, vars

\* A consume request signs its agent in as the user the token was issued for,
\* while the token is valid, or leaves it signed out: consumeMobileAuthToken
\* and its route.
THEOREM RedemptionAsIssued == Spec => RedeemsAsIssued
<1>. DEFINE Redeems == \A a \in Agents : request[a].at = "reply" /\ session'[a] # session[a] =>
                          \/ session'[a] = NewSession(None)
                          \/ /\ issued[request[a].token].expiresAt >= clock
                             /\ session'[a] = NewSession(issued[request[a].token].user)
<1>1. IInv /\ [Next]_vars => Redeems
  <2>. SUFFICES ASSUME IInv, [Next]_vars, NEW a \in Agents, request[a].at = "reply", session'[a] # session[a]
                PROVE  \/ session'[a] = NewSession(None)
                       \/ /\ issued[request[a].token].expiresAt >= clock
                          /\ session'[a] = NewSession(issued[request[a].token].user)
    OBVIOUS
  <2>. USE DEF IInv
  <2>. DEFINE t == request[a].token
              raw == request[a].raw
              entry == IF raw # None THEN raw ELSE handoffs[request[a].inst][t]
  <2>1. Reply(a)
    BY OnlyReplyChanges
  <2>2. /\ request[a] \in [at : {"reply"}, inst : Instances, token : Tokens, raw : Entry \cup {None}]
        /\ AsIssued(raw, t) /\ AsIssued(handoffs[request[a].inst][t], t)
    BY RequestFields DEF TypeOK, TokenInv, EntriesAreIssued
  <2>3. AsIssued(entry, t) /\ entry \in Entry \cup {None}
    BY <2>2 DEF TypeOK
  <2>4. CASE Live(entry)
    <3>1. /\ Redeemed(a) = issued[t].user /\ Redeemed(a) \in Users
          /\ issued[t].expiresAt >= clock
      <4>1. Redeemed(a) = entry.user
        BY <2>4 DEF Redeemed
      <4>. HIDE DEF entry
      <4>. QED
        BY <2>3, <2>4, <4>1 DEF Live, AsIssued, Entry
    <3>2. Establish(a, Redeemed(a), None) \/ NotEstablished(a)
      BY <2>1, <3>1, AuthAssumption DEF Reply
    <3>3. CASE Establish(a, Redeemed(a), None)
      BY <3>1, <3>3, EstablishType DEF TypeOK
    <3>4. CASE NotEstablished(a)
      BY <3>4, NotEstablishedType DEF TypeOK
    <3>. QED
      BY <3>2, <3>3, <3>4
  <2>5. CASE ~Live(entry)
    BY <2>1, <2>5 DEF Reply, Redeemed
  <2>. QED
    BY <2>4, <2>5
<1>2. IInv /\ [Next]_vars => [Redeems]_vars
  BY <1>1
<1>. QED
  BY <1>2, Inductive, PTL DEF Spec, RedeemsAsIssued
==============================================================================
