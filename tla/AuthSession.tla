---------------------------- MODULE AuthSession ----------------------------
(***************************************************************************)
(* Sign-in (lib/auth-session.js): the OIDC set-up each server process does *)
(* on demand, the login routes, and the handoff of a sign-in made in the   *)
(* system browser to the mobile app by a token, kept in the memory of the  *)
(* issuing process and, best effort, in Redis.                             *)
(*                                                                         *)
(* An agent is a cookie jar: the system browser, or the app's web view.    *)
(* It makes one request at a time, so a handler reads and writes its       *)
(* session at its own points; express-session and passport are external.   *)
(* Any agent may present any token a completion page was made with.        *)
(***************************************************************************)
EXTENDS Integers, FiniteSets

CONSTANTS
    Agents,         \* cookie jars
    Users,          \* people known to the identity provider
    Tokens,         \* tokens crypto.randomBytes may return (bounds the issues)
    Instances,      \* server processes that share Redis
    None,
    Asked,          \* the kinds of return_to that sign-ins are begun with
    MobileAuthTtl,  \* MOBILE_AUTH_TTL_MS, in ticks
    MaxClock,       \* bound on the clock
    MaxRestarts     \* bound on the restarts of all processes together

\* What a return_to may be: absent, a path, a URL of this server, one of
\* ALLOWED_RETURN_ORIGINS, a deep link into the app, anything else.
Targets == {"none", "path", "own", "allowed", "app", "other"}

Entry == [user : Users, expiresAt : 0..(MaxClock + MobileAuthTtl)]
Issue == [user : Users, expiresAt : 0..(MaxClock + MobileAuthTtl),
          by : Instances \cup {None}]      \* None once the issuer has restarted

ASSUME AuthAssumption ==
    /\ Asked \subseteq Targets
    /\ MobileAuthTtl \in Nat /\ MaxClock \in Nat /\ MaxRestarts \in Nat
    /\ None \notin Users \cup Tokens \cup Instances \cup Entry \cup Issue

VARIABLES
    clock, restarts,
    oidcConfig,     \* _oidcConfig is set, and the strategy registered, by process
    oidcSetup,      \* _oidcSetupPromise is set, by process
    discoveries,    \* discoveries under way, by process
    session,        \* the session in the store, by agent
    request,        \* what the agent is in the middle of
    handoffs,       \* mobileAuthHandoffs, by process
    redis,          \* the handoff entries in Redis
    setting,        \* tokens whose SET is on its way to Redis
    issued,         \* what was issued, and who still remembers: see Issue
    stored,         \* tokens whose SET reached Redis
    page,           \* by token: where its completion page leads
    presented       \* tokens some agent has presented

oidcVars == <<oidcConfig, oidcSetup, discoveries>>
tokenVars == <<handoffs, redis, setting, issued, stored, page, presented>>
vars == <<clock, restarts, oidcVars, session, request, tokenVars>>

Session == [user : Users \cup {None}, oidcReturnTo : Targets,
            oidcMobileFlow : BOOLEAN, mobileAuthToken : Tokens \cup {None}]
SessionWith(u, token) == [user |-> u, oidcReturnTo |-> "none",
                          oidcMobileFlow |-> FALSE, mobileAuthToken |-> token]
NewSession(u) == SessionWith(u, None)

Idle == [at |-> "idle"]
Provider == [at |-> "provider"]
Request ==
    {Idle, Provider}
    \cup [at : {"setup"}, inst : Instances, asked : Targets, mobile : BOOLEAN]
    \cup [at : {"complete"}, returnTo : Targets]
    \cup [at : {"getDel"}, inst : Instances, token : Tokens]
    \cup [at : {"reply"}, inst : Instances, token : Tokens, raw : Entry \cup {None}]

Become(a, r) == request' = [request EXCEPT ![a] = r]
AtInstance(a, i) == "inst" \in DOMAIN request[a] /\ request[a].inst = i
WaitingForSetup(i) == {a \in Agents : request[a].at = "setup" /\ request[a].inst = i}

\* getReturnTo for a return_to of the given kind; "path" is '/' as well.
GetReturnTo(raw, fallback, mode) ==
    CASE raw = "path"                        -> "path"
      [] raw = "own" /\ mode = "web"         -> "path"
      [] raw = "allowed" /\ mode = "web"     -> "allowed"
      [] raw = "app" /\ mode = "mobile"      -> "app"
      [] OTHER                               -> fallback

-----------------------------------------------------------------------------
(* GET /login and GET /auth/oidc *)

\* In OIDC mode the login page passes return_to on, already reduced.
Login(asked) == GetReturnTo(asked, "path", "web")

\* The rest of GET /auth/oidc once the set-up is there: the flow is noted in
\* the session and the agent is sent to the provider.
FlowNoted(s, asked, mobile) ==
    [s EXCEPT !.oidcReturnTo = GetReturnTo(asked, "path", "web"), !.oidcMobileFlow = mobile]

ToProvider(a, asked, mobile) ==
    /\ session' = [session EXCEPT ![a] = FlowNoted(@, asked, mobile)]
    /\ Become(a, Provider)

\* Mutant of StartSetup: the promise is not kept for the next caller.
StartSetupUncached(i) ==
    /\ discoveries' = [discoveries EXCEPT ![i] = @ + 1]
    /\ UNCHANGED <<oidcConfig, oidcSetup>>

StartSetup(i) ==
    /\ oidcSetup' = [oidcSetup EXCEPT ![i] = TRUE]
    /\ discoveries' = [discoveries EXCEPT ![i] = @ + 1]
    /\ UNCHANGED oidcConfig

\* A sign-in with OIDC begins, from the app directly or by way of /login.
BeginOidc(a, i, asked, mobile) ==
    /\ request[a] = Idle
    /\ IF oidcConfig[i]
       THEN /\ ToProvider(a, asked, mobile)
            /\ UNCHANGED oidcVars
       ELSE /\ Become(a, [at |-> "setup", inst |-> i, asked |-> asked, mobile |-> mobile])
            /\ IF oidcSetup[i] THEN UNCHANGED oidcVars ELSE StartSetup(i)
            /\ UNCHANGED session
    /\ UNCHANGED <<clock, restarts, tokenVars>>

\* Discovery succeeds: everyone who waited goes on to the provider.
DiscoverySucceeds(i) ==
    /\ discoveries[i] > 0
    /\ discoveries' = [discoveries EXCEPT ![i] = @ - 1]
    /\ oidcConfig' = [oidcConfig EXCEPT ![i] = TRUE]
    /\ oidcSetup' = [oidcSetup EXCEPT ![i] = FALSE]
    /\ session' = [a \in Agents |->
            IF a \in WaitingForSetup(i)
            THEN FlowNoted(session[a], request[a].asked, request[a].mobile)
            ELSE session[a]]
    /\ request' = [a \in Agents |->
            IF a \in WaitingForSetup(i) THEN Provider ELSE request[a]]
    /\ UNCHANGED <<clock, restarts, tokenVars>>

\* Mutant of DiscoveryFails: no finally, the rejected promise is kept.
DiscoveryFailsKept(i) ==
    /\ discoveries[i] > 0
    /\ discoveries' = [discoveries EXCEPT ![i] = @ - 1]
    /\ request' = [a \in Agents |-> IF a \in WaitingForSetup(i) THEN Idle ELSE request[a]]
    /\ UNCHANGED <<clock, restarts, oidcConfig, oidcSetup, session, tokenVars>>

\* Discovery fails: those who waited go back to the login page.
DiscoveryFails(i) ==
    /\ discoveries[i] > 0
    /\ discoveries' = [discoveries EXCEPT ![i] = @ - 1]
    /\ oidcSetup' = [oidcSetup EXCEPT ![i] = FALSE]
    /\ request' = [a \in Agents |-> IF a \in WaitingForSetup(i) THEN Idle ELSE request[a]]
    /\ UNCHANGED <<clock, restarts, oidcConfig, session, tokenVars>>

-----------------------------------------------------------------------------
(* Establishing a session *)

\* Mutant of Establish: the session is not regenerated, only its user set.
EstablishKeeping(a, u, token) ==
    session' = [session EXCEPT ![a].user = u,
                               ![a].mobileAuthToken = IF token = None THEN @ ELSE token]

\* establishLoginSession and persistLoginSession, both successful: a fresh
\* session of this user.  A handoff token is added to it afterwards.
Establish(a, u, token) ==
    session' = [session EXCEPT ![a] = SessionWith(u, token)]

\* One of the two failed: the old session is still there, or none is.
NotEstablished(a) == session' \in {session, [session EXCEPT ![a] = NewSession(None)]}

\* POST /logout.
Logout(a) ==
    /\ request[a] = Idle
    /\ session[a].user # None
    /\ session' = [session EXCEPT ![a] = NewSession(None)]
    /\ UNCHANGED <<clock, restarts, oidcVars, request, tokenVars>>

-----------------------------------------------------------------------------
(* GET /auth/oidc/callback and GET /auth/mobile-complete *)

\* Where the completed sign-in leads.
SafeReturnTo(storedReturnTo, mobileFlow) ==
    IF storedReturnTo # "none" THEN GetReturnTo(storedReturnTo, "path", "web")
    ELSE IF mobileFlow THEN "app" ELSE "path"

\* issueMobileAuthToken, and the token's way into the new session.
IssueToken(a, i, u, t, returnTo) ==
    LET entry == [user |-> u, expiresAt |-> clock + MobileAuthTtl]
    IN  /\ issued[t] = None
        /\ issued' = [issued EXCEPT ![t] = [user |-> u, expiresAt |-> entry.expiresAt, by |-> i]]
        /\ handoffs' = [handoffs EXCEPT ![i][t] = entry]
        /\ setting' = setting \cup {t}
        /\ Establish(a, u, t)
        /\ Become(a, [at |-> "complete", returnTo |-> returnTo])
        /\ UNCHANGED <<redis, stored, page, presented>>

\* The provider's answer reaches a process that knows the strategy, and the
\* session is established; with a mobile flow a token is issued as well.
Callback(a, i, u) ==
    /\ request[a].at = "provider"
    /\ oidcConfig[i]
    /\ \E isMobileUa \in BOOLEAN :
        LET storedReturnTo == session[a].oidcReturnTo
            mobileFlow == session[a].oidcMobileFlow \/ (isMobileUa /\ storedReturnTo = "none")
        IN  IF mobileFlow
            THEN \E t \in Tokens : IssueToken(a, i, u, t, SafeReturnTo(storedReturnTo, mobileFlow))
            ELSE Establish(a, u, None) /\ Become(a, Idle) /\ UNCHANGED tokenVars
    /\ UNCHANGED <<clock, restarts, oidcVars>>

\* The provider refused, the process does not know the strategy (a restart, or
\* another process began the flow), or the session could not be established.
CallbackFails(a) ==
    /\ request[a].at = "provider"
    /\ NotEstablished(a)
    /\ Become(a, Idle)
    /\ UNCHANGED <<clock, restarts, oidcVars, tokenVars>>

\* The completion page, led to by the callback or visited later with any
\* return_to while the session still holds a token: the token goes into a page
\* that leads to the return_to, with the token in the fragment.
MobileComplete(a, returnTo) ==
    LET t == session[a].mobileAuthToken
    IN  /\ request[a] \in {Idle, [at |-> "complete", returnTo |-> returnTo]}
        /\ t # None
        /\ page' = [page EXCEPT ![t] = GetReturnTo(returnTo, "path", "mobile")]
        /\ session' = [session EXCEPT ![a].mobileAuthToken = None]
        /\ Become(a, Idle)
        /\ UNCHANGED <<clock, restarts, oidcVars, handoffs, redis, setting, issued, stored, presented>>

\* The agent leaves the completion page for another time, or a flow for good.
Leave(a) ==
    /\ request[a].at \in {"provider", "complete"}
    /\ Become(a, Idle)
    /\ UNCHANGED <<clock, restarts, oidcVars, session, tokenVars>>

-----------------------------------------------------------------------------
(* POST /api/mobile-auth/consume *)

Live(entry) == entry # None /\ entry.expiresAt >= clock

\* consumeMobileAuthToken up to its await.
Present(a, i, t) ==
    /\ request[a] = Idle
    /\ page[t] # "none"
    /\ Become(a, [at |-> "getDel", inst |-> i, token |-> t])
    /\ presented' = presented \cup {t}
    /\ UNCHANGED <<clock, restarts, oidcVars, session, handoffs, redis, setting, issued, stored, page>>

\* Redis answers GETDEL; or it fails, with or without having executed it.
GetDel(a) ==
    /\ request[a].at = "getDel"
    /\ \E executed, answered \in BOOLEAN :
        LET t == request[a].token
        IN  /\ redis' = IF executed THEN [redis EXCEPT ![t] = None] ELSE redis
            /\ Become(a, [at |-> "reply", inst |-> request[a].inst, token |-> t,
                          raw |-> IF executed /\ answered THEN redis[t] ELSE None])
    /\ UNCHANGED <<clock, restarts, oidcVars, session, handoffs, setting, issued, stored, page, presented>>

\* Mutant of Redeemed: Redis' own expiry is trusted.
RedeemedUnchecked(a) ==
    LET entry == handoffs[request[a].inst][request[a].token]
    IN  IF request[a].raw # None THEN request[a].raw.user
        ELSE IF Live(entry) THEN entry.user ELSE None

\* The user consumeMobileAuthToken returns: the entry of Redis if there was
\* one, else the one in memory, unless it has expired.
Redeemed(a) ==
    LET entry == IF request[a].raw # None THEN request[a].raw
                 ELSE handoffs[request[a].inst][request[a].token]
    IN  IF Live(entry) THEN entry.user ELSE None

\* The rest of the consume route: an entry of Redis is mirrored in memory, one
\* of memory is removed, and its user's session is established, or not.
Reply(a) ==
    LET i == request[a].inst
        t == request[a].token
        raw == request[a].raw
    IN  /\ request[a].at = "reply"
        /\ handoffs' = IF raw = None THEN [handoffs EXCEPT ![i][t] = None]
                       ELSE IF Live(raw) THEN [handoffs EXCEPT ![i][t] = raw]
                       ELSE handoffs
        /\ IF Redeemed(a) = None THEN UNCHANGED session
           ELSE Establish(a, Redeemed(a), None) \/ NotEstablished(a)
        /\ Become(a, Idle)
        /\ UNCHANGED <<clock, restarts, oidcVars, redis, setting, issued, stored, page, presented>>

-----------------------------------------------------------------------------
(* Redis, timers, time and restarts *)

\* The SET of a token reaches Redis, or is lost.
SetArrives(t) ==
    /\ t \in setting
    /\ setting' = setting \ {t}
    /\ redis' = [redis EXCEPT ![t] = [user |-> issued[t].user, expiresAt |-> issued[t].expiresAt]]
    /\ stored' = stored \cup {t}
    /\ UNCHANGED <<clock, restarts, oidcVars, session, request, handoffs, issued, page, presented>>

SetLost(t) ==
    /\ t \in setting
    /\ setting' = setting \ {t}
    /\ UNCHANGED <<clock, restarts, oidcVars, session, request, handoffs, redis, issued, stored, page, presented>>

\* EX: Redis drops an entry, at the earliest once it has expired.
RedisExpires(t) ==
    /\ redis[t] # None /\ ~Live(redis[t])
    /\ redis' = [redis EXCEPT ![t] = None]
    /\ UNCHANGED <<clock, restarts, oidcVars, session, request, handoffs, setting, issued, stored, page, presented>>

\* Mutant of CleanUp: what has not expired is dropped.
CleanUpLive(i) ==
    /\ handoffs' = [handoffs EXCEPT ![i] = [t \in Tokens |-> IF Live(@[t]) THEN None ELSE @[t]]]
    /\ UNCHANGED <<clock, restarts, oidcVars, session, request, redis, setting, issued, stored, page, presented>>

\* The interval that drops expired entries.
CleanUp(i) ==
    /\ handoffs' = [handoffs EXCEPT ![i] = [t \in Tokens |-> IF Live(@[t]) THEN @[t] ELSE None]]
    /\ UNCHANGED <<clock, restarts, oidcVars, session, request, redis, setting, issued, stored, page, presented>>

Tick ==
    /\ clock < MaxClock
    /\ clock' = clock + 1
    /\ UNCHANGED <<restarts, oidcVars, session, request, tokenVars>>

\* A process restarts: its memory is gone and its requests are broken off.
Restart(i) ==
    /\ restarts < MaxRestarts
    /\ restarts' = restarts + 1
    /\ oidcConfig' = [oidcConfig EXCEPT ![i] = FALSE]
    /\ oidcSetup' = [oidcSetup EXCEPT ![i] = FALSE]
    /\ discoveries' = [discoveries EXCEPT ![i] = 0]
    /\ handoffs' = [handoffs EXCEPT ![i] = [t \in Tokens |-> None]]
    /\ setting' = {t \in setting : issued[t].by # i}
    /\ issued' = [t \in Tokens |-> IF issued[t] # None /\ issued[t].by = i
                                    THEN [issued[t] EXCEPT !.by = None] ELSE issued[t]]
    /\ request' = [a \in Agents |-> IF AtInstance(a, i) THEN Idle ELSE request[a]]
    /\ UNCHANGED <<clock, session, redis, stored, page, presented>>

-----------------------------------------------------------------------------
Init ==
    /\ clock = 0
    /\ restarts = 0
    /\ oidcConfig = [i \in Instances |-> FALSE]
    /\ oidcSetup = [i \in Instances |-> FALSE]
    /\ discoveries = [i \in Instances |-> 0]
    /\ session = [a \in Agents |-> NewSession(None)]
    /\ request = [a \in Agents |-> Idle]
    /\ handoffs = [i \in Instances |-> [t \in Tokens |-> None]]
    /\ redis = [t \in Tokens |-> None]
    /\ setting = {}
    /\ issued = [t \in Tokens |-> None]
    /\ stored = {}
    /\ page = [t \in Tokens |-> "none"]
    /\ presented = {}

AgentStep(a) ==
    \/ \E i \in Instances, mobile \in BOOLEAN, asked \in Asked \cup {Login(r) : r \in Asked} :
            BeginOidc(a, i, asked, mobile)
    \/ \E i \in Instances, u \in Users : Callback(a, i, u)
    \/ CallbackFails(a)
    \/ \E returnTo \in Targets : MobileComplete(a, returnTo)
    \/ Leave(a)
    \/ Logout(a)
    \/ \E i \in Instances, t \in Tokens : Present(a, i, t)
    \/ GetDel(a)
    \/ Reply(a)

InstanceStep(i) == DiscoverySucceeds(i) \/ DiscoveryFails(i) \/ CleanUp(i) \/ Restart(i)

RedisStep(t) == SetArrives(t) \/ SetLost(t) \/ RedisExpires(t)

Next ==
    \/ \E a \in Agents : AgentStep(a)
    \/ \E i \in Instances : InstanceStep(i)
    \/ \E t \in Tokens : RedisStep(t)
    \/ Tick

Spec == Init /\ [][Next]_vars

-----------------------------------------------------------------------------
(* Properties *)

\* Every variable keeps its type.
TypeOK ==
    /\ clock \in 0..MaxClock
    /\ restarts \in 0..MaxRestarts
    /\ oidcConfig \in [Instances -> BOOLEAN]
    /\ oidcSetup \in [Instances -> BOOLEAN]
    /\ discoveries \in [Instances -> Nat]
    /\ session \in [Agents -> Session]
    /\ request \in [Agents -> Request]
    /\ handoffs \in [Instances -> [Tokens -> Entry \cup {None}]]
    /\ redis \in [Tokens -> Entry \cup {None}]
    /\ setting \subseteq Tokens
    /\ issued \in [Tokens -> Issue \cup {None}]
    /\ stored \subseteq Tokens
    /\ page \in [Tokens -> Targets]
    /\ presented \subseteq Tokens

\* Sign-ins that come while OIDC is being set up share one discovery, and each
\* of them waits for a discovery that is really under way, also after earlier
\* ones failed: ensureOidcSetup with its cached promise and its finally.
SetupIsShared ==
    /\ \A i \in Instances : discoveries[i] <= 1
    /\ \A a \in Agents : request[a].at = "setup" => discoveries[request[a].inst] > 0

\* The token a session holds for the completion page was issued for the user
\* the session belongs to, whatever sign-ins were begun, left and repeated in
\* it: the callback and establishLoginSession.
TokenIsOfTheSession ==
    \A a \in Agents : session[a].mobileAuthToken # None =>
        /\ issued[session[a].mobileAuthToken] # None
        /\ issued[session[a].mobileAuthToken].user = session[a].user

\* A token nobody has presented can be redeemed until it expires: the process
\* that issued it remembers it, and once that process has restarted Redis does
\* if the SET got there.
UnpresentedIsRedeemable ==
    \A t \in Tokens \ presented :
        issued[t] # None /\ issued[t].expiresAt >= clock =>
            /\ issued[t].by # None => Live(handoffs[issued[t].by][t])
            /\ t \in stored => Live(redis[t])

\* A consume request changes the session of its agent only to one of the user
\* the token was issued for, while the token is valid, or to none; wherever
\* the entry came from and whoever else presented the token meanwhile.
RedeemsAsIssued ==
    [][\A a \in Agents : request[a].at = "reply" /\ session'[a] # session[a] =>
            \/ session'[a] = NewSession(None)
            \/ /\ issued[request[a].token].expiresAt >= clock
               /\ session'[a] = NewSession(issued[request[a].token].user)]_vars
=============================================================================
