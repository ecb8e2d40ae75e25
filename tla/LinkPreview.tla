----------------------------- MODULE LinkPreview -----------------------------
(***************************************************************************)
(* GET /api/link-preview (server.js) with the three structures of          *)
(* lib/link-preview-cache.js: PreviewCache, PreviewCoalescer and           *)
(* HostConcurrencyLimiter.  Many requests run at once on one event loop; a *)
(* step is what happens between two awaits.                                *)
(*                                                                         *)
(* A slot the limiter frees is taken by the waiter it wakes in the same    *)
(* step: between the two lies only a promise reaction queued first, and no *)
(* caller of run() gets a turn before it.                                  *)
(***************************************************************************)
EXTENDS Naturals, FiniteSets, Sequences, Functions

CONSTANTS
    Requests,       \* the HTTP requests of a run
    Urls, Hosts,
    HostOf,         \* host of each URL
    KeyOf,          \* _normalizeKey: the URL in lower case
    MaxConcurrent,  \* LINK_PREVIEW_MAX_CONCURRENT_PER_HOST
    MaxRetries,     \* LINK_PREVIEW_RETRY_MAX_ATTEMPTS
    MaxRedirects,   \* MAX_REDIRECTS
    MaxSize         \* LINK_PREVIEW_CACHE_MAX_SIZE

ASSUME LimitAssumption ==
    /\ MaxConcurrent \in Nat \ {0}
    /\ MaxRetries \in Nat
    /\ MaxRedirects \in Nat \ {0}
    /\ MaxSize \in Nat \ {0}
ASSUME HostAssumption == Urls # {} /\ HostOf \in [Urls -> Hosts]

VARIABLES
    phase,      \* how far each request is
    url,        \* the URL it asks for
    leader,     \* the request whose fetch it shares
    hop,        \* the URL its fetch is at
    redirects, retries,
    aborted,    \* a timer of its fetch has fired
    answer,     \* what it was answered
    active,     \* HostConcurrencyLimiter.active
    waiters,    \* HostConcurrencyLimiter.waiters
    cache,      \* PreviewCache.store, a map from keys to entries
    older       \* the keys that were in it when each was inserted

fetchVars == <<hop, redirects, retries, aborted>>
limiterVars == <<active, waiters>>
cacheVars == <<cache, older>>
vars == <<phase, url, leader, fetchVars, answer, limiterVars, cacheVars>>

Fetching == {"resolving", "queued", "fetching", "backoff", "reading"}
Phases == Fetching \cup {"idle", "joined", "done"}

------------------------------------------------------------------------------
(* PreviewCache *)

Keys == {KeyOf[u] : u \in Urls}
Entry(u) == [url |-> u, fresh |-> TRUE]

\* get(): the entry of a URL, unless it has expired
Hits(u) == {cache[k] : k \in {l \in DOMAIN cache : l = KeyOf[u] /\ cache[l].fresh}}

Delete(keys) ==
    /\ cache' = Restrict(cache, DOMAIN cache \ keys)
    /\ UNCHANGED older

\* get() without a hit: an expired entry is removed on the way
Miss(u) == Hits(u) = {} /\ Delete({KeyOf[u]})

\* set(): the oldest entries, which go until there is room for one more
Elders(k) == older[k] \cap DOMAIN cache
Evicted == {k \in DOMAIN cache : Cardinality(Elders(k)) + MaxSize <= Cardinality(DOMAIN cache)}

\* set(): a key that is there keeps its place
Store(u) ==
    LET key == KeyOf[u]
        others == IF key \in DOMAIN cache THEN DOMAIN cache ELSE DOMAIN cache \ Evicted
    IN  /\ cache' = [k \in others \cup {key} |-> IF k = key THEN Entry(u) ELSE cache[k]]
        /\ older' = IF key \in DOMAIN cache THEN older
                    ELSE [k \in Keys |-> IF k = key THEN others ELSE older[k] \ {key}]

------------------------------------------------------------------------------
(* HostConcurrencyLimiter *)

HostAt(q) == HostOf[hop[q]]

\* Mutant: the limit counts the newcomer as well.
EnterOneBelow(q) ==
    LET h == HostAt(q)
    IN IF active[h] + 1 < MaxConcurrent
       THEN /\ phase' = [phase EXCEPT ![q] = "fetching"]
            /\ active' = [active EXCEPT ![h] = @ + 1]
            /\ UNCHANGED waiters
       ELSE /\ phase' = [phase EXCEPT ![q] = "queued"]
            /\ waiters' = [waiters EXCEPT ![h] = Append(@, q)]
            /\ UNCHANGED active

\* run(): take a slot or wait for one
EnterLimiter(q) ==
    LET h == HostAt(q)
    IN IF active[h] < MaxConcurrent
       THEN /\ phase' = [phase EXCEPT ![q] = "fetching"]
            /\ active' = [active EXCEPT ![h] = @ + 1]
            /\ UNCHANGED waiters
       ELSE /\ phase' = [phase EXCEPT ![q] = "queued"]
            /\ waiters' = [waiters EXCEPT ![h] = Append(@, q)]
            /\ UNCHANGED active

\* _release(): the first waiter takes the slot over
Woken(h) == IF waiters[h] = <<>> THEN {} ELSE {Head(waiters[h])}

\* Mutant: a waiter that takes the slot over does not count.
ReleaseUncounted(h) ==
    /\ active' = [active EXCEPT ![h] = @ - 1]
    /\ waiters' = [waiters EXCEPT ![h] = IF @ = <<>> THEN @ ELSE Tail(@)]

Release(h) ==
    /\ active' = [active EXCEPT ![h] = (@ - 1) + Cardinality(Woken(h))]
    /\ waiters' = [waiters EXCEPT ![h] = IF @ = <<>> THEN @ ELSE Tail(@)]

------------------------------------------------------------------------------
(* The end of a fetch: everyone who shares it is answered, the page cached, *)
(* and its locals are gone                                                  *)

\* Mutant: the coalescer answers only the request that started the fetch.
SharingAlone(q) == {q}

Sharing(q) == {q} \cup {j \in Requests : phase[j] = "joined" /\ leader[j] = q}

Finish(q, kind, woken) ==
    /\ phase' = [r \in Requests |-> IF r \in Sharing(q) THEN "done"
                                    ELSE IF r \in woken THEN "fetching" ELSE phase[r]]
    /\ answer' = [r \in Requests |-> IF r \in Sharing(q)
                                     THEN [kind |-> kind, of |-> url[q]] ELSE answer[r]]
    /\ IF kind = "page" THEN Store(url[q]) ELSE UNCHANGED cacheVars
    /\ hop' = [hop EXCEPT ![q] = url[q]]
    /\ redirects' = [redirects EXCEPT ![q] = 0]
    /\ retries' = [retries EXCEPT ![q] = 0]
    /\ aborted' = [aborted EXCEPT ![q] = FALSE]
    /\ UNCHANGED <<url, leader>>

Answer(q, u, kind, of) ==
    /\ phase' = [phase EXCEPT ![q] = "done"]
    /\ url' = [url EXCEPT ![q] = u]
    /\ answer' = [answer EXCEPT ![q] = [kind |-> kind, of |-> of]]
    /\ UNCHANGED <<leader, fetchVars, limiterVars>>

------------------------------------------------------------------------------
(* The route *)

\* 400: not an http(s) URL, or a host previews are not allowed for
Refuse(q, u) ==
    /\ phase[q] = "idle"
    /\ Answer(q, u, "refused", u)
    /\ UNCHANGED cacheVars

AnswerFromCache(q, u) ==
    /\ phase[q] = "idle"
    /\ \E e \in Hits(u) : Answer(q, u, "page", e.url)
    /\ UNCHANGED cacheVars

\* PreviewCoalescer.run() with a fetch of this URL pending
JoinFetch(q, u) ==
    /\ phase[q] = "idle"
    /\ Miss(u)
    /\ \E l \in Requests :
          /\ phase[l] \in Fetching /\ url[l] = u
          /\ leader' = [leader EXCEPT ![q] = l]
    /\ phase' = [phase EXCEPT ![q] = "joined"]
    /\ url' = [url EXCEPT ![q] = u]
    /\ UNCHANGED <<fetchVars, answer, limiterVars>>

\* PreviewCoalescer.run() without one
StartFetch(q, u) ==
    /\ phase[q] = "idle"
    /\ Miss(u)
    /\ \A l \in Requests : phase[l] \in Fetching => url[l] # u
    /\ phase' = [phase EXCEPT ![q] = "resolving"]
    /\ url' = [url EXCEPT ![q] = u]
    /\ hop' = [hop EXCEPT ![q] = u]
    /\ UNCHANGED <<leader, redirects, retries, aborted, answer, limiterVars>>

------------------------------------------------------------------------------
(* _fetchLinkPreview *)

\* The overall timer of the fetch, the headers timer of its hop or the timer of
\* its body read fires and aborts what is in flight.  The overall timer runs
\* during all of the fetch.
TimerFires(q) ==
    /\ phase[q] \in Fetching
    /\ ~aborted[q]
    /\ aborted' = [aborted EXCEPT ![q] = TRUE]
    /\ UNCHANGED <<phase, url, leader, hop, redirects, retries, answer, limiterVars, cacheVars>>

\* The host of the hop is checked and resolved.  An abort is noticed only when
\* the lookup failed; otherwise the request is made with an aborted signal.
Resolve(q) ==
    /\ phase[q] = "resolving"
    /\ \/ EnterLimiter(q) /\ UNCHANGED <<url, leader, fetchVars, answer, cacheVars>>
       \/ Finish(q, "failed", {}) /\ UNCHANGED limiterVars

\* Mutant: a fetch that fails keeps its slot.
FetchFailsHolding(q) ==
    /\ phase[q] = "fetching"
    /\ Finish(q, "failed", {})
    /\ UNCHANGED limiterVars

\* The request ends without a page to read: it was aborted, the connection
\* failed, or the answer is an error or an unusable redirect.
FetchFails(q) ==
    /\ phase[q] = "fetching"
    /\ Release(HostAt(q))
    /\ Finish(q, "failed", Woken(HostAt(q)))

\* 5xx: the slot is given back during the wait before the next attempt
ServerError(q) ==
    /\ phase[q] = "fetching" /\ ~aborted[q]
    /\ Release(HostAt(q))
    /\ retries[q] < MaxRetries
    /\ retries' = [retries EXCEPT ![q] = @ + 1]
    /\ phase' = [r \in Requests |-> IF r = q THEN "backoff"
                                    ELSE IF r \in Woken(HostAt(q)) THEN "fetching" ELSE phase[r]]
    /\ UNCHANGED <<url, leader, hop, redirects, aborted, answer, cacheVars>>

BackoffEnds(q) ==
    /\ phase[q] = "backoff"
    /\ EnterLimiter(q)
    /\ UNCHANGED <<url, leader, fetchVars, answer, cacheVars>>

\* 3xx: the next hop starts over, unless the chain is exhausted
Redirect(q, u) ==
    /\ phase[q] = "fetching" /\ ~aborted[q]
    /\ Release(HostAt(q))
    /\ IF redirects[q] + 1 < MaxRedirects
       THEN /\ redirects' = [redirects EXCEPT ![q] = @ + 1]
            /\ hop' = [hop EXCEPT ![q] = u]
            /\ retries' = [retries EXCEPT ![q] = 0]
            /\ phase' = [r \in Requests |->
                            IF r = q THEN "resolving"
                            ELSE IF r \in Woken(HostAt(q)) THEN "fetching" ELSE phase[r]]
            /\ UNCHANGED <<url, leader, aborted, answer, cacheVars>>
       ELSE Finish(q, "failed", Woken(HostAt(q)))

\* 2xx: the slot is given back before the host is checked again and the body,
\* if it is HTML, is read.
PageStarts(q) ==
    /\ phase[q] = "fetching" /\ ~aborted[q]
    /\ Release(HostAt(q))
    /\ phase' = [r \in Requests |-> IF r = q THEN "reading"
                                    ELSE IF r \in Woken(HostAt(q)) THEN "fetching" ELSE phase[r]]
    /\ UNCHANGED <<url, leader, fetchVars, answer, cacheVars>>

\* The body is read to its end; or it was not HTML, or the read was aborted,
\* broken or truncated.
ReadEnds(q) ==
    /\ phase[q] = "reading"
    /\ \E kind \in {"page", "failed"} :
          /\ kind = "page" => ~aborted[q]
          /\ Finish(q, kind, {})
    /\ UNCHANGED limiterVars

------------------------------------------------------------------------------
(* Time *)

Expire ==
    /\ \E k \in DOMAIN cache : cache[k].fresh /\ cache' = [cache EXCEPT ![k].fresh = FALSE]
    /\ UNCHANGED <<phase, url, leader, fetchVars, answer, limiterVars, older>>

Expired == {k \in DOMAIN cache : ~cache[k].fresh}

\* The interval that cleans the cache up
Cleanup ==
    /\ Expired # {}
    /\ Delete(Expired)
    /\ UNCHANGED <<phase, url, leader, fetchVars, answer, limiterVars>>

------------------------------------------------------------------------------
Init ==
    /\ phase = [q \in Requests |-> "idle"]
    /\ url = [q \in Requests |-> CHOOSE u \in Urls : TRUE]
    /\ leader = [q \in Requests |-> q]
    /\ hop = url
    /\ redirects = [q \in Requests |-> 0]
    /\ retries = [q \in Requests |-> 0]
    /\ aborted = [q \in Requests |-> FALSE]
    /\ answer = [q \in Requests |-> [kind |-> "none", of |-> url[q]]]
    /\ active = [h \in Hosts |-> 0]
    /\ waiters = [h \in Hosts |-> <<>>]
    /\ cache = <<>> /\ older = [k \in Keys |-> {}]

Route(q) ==
    \E u \in Urls :
        Refuse(q, u) \/ AnswerFromCache(q, u) \/ JoinFetch(q, u) \/ StartFetch(q, u)

Fetch(q) ==
    \/ Resolve(q) \/ FetchFails(q) \/ ServerError(q) \/ BackoffEnds(q)
    \/ PageStarts(q) \/ ReadEnds(q)
    \/ \E u \in Urls : Redirect(q, u)

Next ==
    \/ \E q \in Requests : Route(q) \/ Fetch(q) \/ TimerFires(q)
    \/ Expire \/ Cleanup

Spec == Init /\ [][Next]_vars

\* Timers fire, lookups end, and what was aborted ends.  Nothing is assumed of
\* the hosts that are previewed.
Fairness ==
    \A q \in Requests :
        /\ WF_vars(TimerFires(q))
        /\ WF_vars(Resolve(q))
        /\ WF_vars(BackoffEnds(q))
        /\ WF_vars(aborted[q] /\ FetchFails(q))
        /\ WF_vars(aborted[q] /\ ReadEnds(q))

FairSpec == Spec /\ Fairness

------------------------------------------------------------------------------
(* Properties *)

TypeOfRequests ==
    /\ phase \in [Requests -> Phases]
    /\ url \in [Requests -> Urls]
    /\ leader \in [Requests -> Requests]
    /\ hop \in [Requests -> Urls]
    /\ redirects \in [Requests -> 0..MaxRedirects]
    /\ retries \in [Requests -> 0..MaxRetries]
    /\ aborted \in [Requests -> BOOLEAN]
    /\ active \in [Hosts -> Nat]
    /\ waiters \in [Hosts -> Seq(Requests)]

CacheEntries == UNION {[keys -> [url : Urls, fresh : BOOLEAN]] : keys \in SUBSET Keys}

\* Every variable holds a value of its type; the cache never has more entries than
\* its limit, whichever are removed, replaced and evicted in between
\* (lib/link-preview-cache.js:49-92).
TypeOK ==
    /\ TypeOfRequests
    /\ answer \in [Requests -> [kind : {"none", "refused", "failed", "page"}, of : Urls]]
    /\ cache \in CacheEntries /\ Cardinality(DOMAIN cache) <= MaxSize
    /\ older \in [Keys -> SUBSET Keys]

Holding(h) == {q \in Requests : phase[q] = "fetching" /\ HostAt(q) = h}

\* Nobody waits for a slot of a host that has one free.
NoIdleSlot(h) == waiters[h] # <<>> => active[h] = MaxConcurrent

\* The limiter's count is the number of requests in flight to the host and never
\* above the limit, and no slot is idle while somebody waits for it, through
\* aborts, retries, redirects and slots handed over to the next in the queue
\* (lib/link-preview-cache.js:196-245).
SlotsAccounted ==
    \A h \in Hosts :
        /\ active[h] = Cardinality(Holding(h)) /\ active[h] <= MaxConcurrent
        /\ NoIdleSlot(h)

\* A request that shares a fetch shares a running one, of its own URL.
JoinedToRunningFetch ==
    \A q \in Requests : phase[q] = "joined" =>
        phase[leader[q]] \in Fetching /\ url[leader[q]] = url[q]

OneFetchPerUrl ==
    \A q, r \in Requests :
        phase[q] \in Fetching /\ phase[r] \in Fetching /\ url[q] = url[r] => q = r

\* No URL is fetched twice at the same time, and whoever waits for the fetch of
\* another request waits for one that is running, of its own URL, through failures,
\* retries and redirects (lib/link-preview-cache.js:145-155).
FetchesAreShared == JoinedToRunningFetch /\ OneFetchPerUrl

\* Whatever the previewed hosts do, also when they never answer and others wait
\* for their slots, every request is answered.
EveryRequestAnswered ==
    \A q \in Requests : phase[q] # "idle" ~> phase[q] = "done"
==============================================================================
