# Verification of miso-chat

miso-chat is a chat front end for an OpenClaw gateway: a Node/Express server
(`server.js`, `lib/`) keeps one WebSocket to the gateway and serves a
single-page client (`public/`) over HTTP and server-sent events (SSE). This
directory holds TLA+ models of its parts, the TLC configurations that check
them and the theorems TLAPS proves about them. Paths such as
`lib/gateway-ws.js:119` are relative to the repository root; `PROJECT.json` maps
every definition to the lines it models.

## 1. Inventory

Everything on the server runs on one event loop and everything in the page on
another, so what interleaves is the code between two awaits, timers, socket
events and the messages between browser, server and gateway. Several server
processes may share one SQLite file and one Redis.

| Part | Source | State it keeps | Operations | What is hard | What makes it correct |
|---|---|---|---|---|---|
| Gateway connection manager | `lib/gateway-ws.js` | socket, handshake, reconnect timer and counter, two request maps | `connect`, `send`, `disconnect`, socket events, three kinds of timers | drops with requests in flight, resending, late events of replaced sockets, the challenge against its timeout | no request forgotten, at most one resend, never stranded offline, every caller answered |
| Gateway subscriptions | `server.js` 660-728, 2062-2130, `lib/gateway-session-subscriptions.js` | active keys, last-seen times, a shared promise | subscribe to the list or a session, reconnect, prune | promises shared across a reconnect, resent calls, late answers | nothing stale believed, no session in use forgotten, no caller left waiting |
| SSE and shutdown | `server.js` 2023-2060, 2178-2235 | set of clients, what each has not read | open, close, broadcast, drop, shut down | slow readers, order of the shutdown steps | no stream is open and not written to |
| Link previews | `lib/link-preview-cache.js`, `server.js` 1480-1760 | cache, running fetches, slots per host | request, fetch with retries and redirects, expire | slots lost on error paths, woken waiters, joined fetches, aborts | slots exact and never idle, a shared fetch runs, everyone answered |
| Chat delivery | `public/index.html` 2041-2072, 3117-3214, 4045-4170, `public/lib/api-client.js`, `server.js` 730-749, 1230-1275 | send queue, its stored copy, retry timer, the turn being sent | send, retry, poll health, select a session, reload; the route and its HTTP fallback | seven callers of `processQueue`, copies still under way after a timeout, the retry after a 403, reload | held exactly once, confirmed only if executed, in order, leaves in the end |
| Session view | `public/index.html` 3216-3332, 3699-3947, 3949-4079, `public/lib/session-key-hydration.js`, `public/lib/secure-storage.js` | history, local echoes, live turn, event stream, selected session, its stored key | poll, merge events, render, select, load the list, reload, log out | answers for a session no longer selected, three sources for one answer, echoes that expire, two storages of which one fails | what is shown belongs to the selected session; polls show no answer a second time; polling goes on; the key is found again |
| Authentication | `lib/auth-session.js`, `public/lib/api-client.js` | login sessions, handoff tokens in memory and Redis, the OIDC setup promise | log in, hand off to the app, redeem, log out | two stores for a token, discovery that fails and is retried, expiry, restarts | a handoff signs in who it was issued for; a failed setup does not block the next |
| Reactions | `lib/db.js`, `lib/migrate.js`, `lib/routes/reactions.js`, `lib/reaction-events.js` | SQLite table, applied migrations | toggle, list, migrate | two writers, a busy database, migrations of two processes, crashes | a toggle is atomic; listings show what the answers add up to; every process comes up |
| Mobile updates | `server.js` 405-478, `lib/mobile-manifest-validator.js`, `public/mobile/update-manager.js` | manifest cache, `availableUpdate`, the installed bundle | serve the manifest, check, verify, install | requests that overlap, checks that end out of order, a check during an update, a bundle fetched twice | what is served is recent; what is installed is newer, and verified if it is what was hashed |
| Health and read routes | `server.js` 753-795, 1119-1230 | none of their own | report and reshape | a state derived from three flags | what is reported is what goes on |
| Request validation | `lib/ssrf-validation.js`, `lib/trusted-proxies.js`, `security.js` | none | pure functions | | |
| Rendering | `public/lib/render-utils.js`, `lib/emoji-shortcodes.js` | none | pure functions | | |
| Android shell, scripts | `android/`, `scripts/` | | build | | |

How they interact: the routes of `server.js` call `send()` of the manager;
its `connected`, `close` and `gateway-event` events drive the subscriptions and
the SSE broadcast; the page posts messages to the send route, polls the history
and `/api/health`, and listens to the stream. Reactions travel by their own
route and back over the stream. Link previews, sign-in and updates are
independent of the gateway.

## 2. Modules and plan

| Module | Models | Theorems |
|---|---|---|
| `RequestLedger` | what a caller of `send()` is promised (abstract) | |
| `GatewayWs` | the manager, its use by `server.js`, and what `/api/health` says of it; implements `RequestLedger` | `GatewayWsProofs` |
| `Subscriptions` | gateway subscriptions; uses the manager as `GatewayWs` describes it | `RealtimeProofs` |
| `Realtime` | extends `Subscriptions` with SSE and the shutdown | `RealtimeProofs` |
| `LinkPreview` | previews | `LinkPreviewProofs` |
| `AuthSession` | OIDC setup, sign-in, handoff, restarts | `AuthSessionProofs` |
| `MobileUpdate` | manifest cache and update flow | `MobileUpdateProofs` |
| `Reactions` | migrations, toggles and listings over SQLite | `ReactionsProofs` |
| `Delivery` | what the user is promised of the messages sent (abstract) | |
| `ChatQueue` | chat delivery, page and route; implements `Delivery` | `ChatQueueProofs` |
| `SessionView` | the session view of the page and its stored key | `SessionViewProofs` |
| `MC*` | interchangeable identities and constants for TLC | |

All modules planned are there. What the plan has left: a second tab on the same
stored queue; the reconnect timers of the event stream.

## 3. How the models correspond to the code

One action is one run of the event loop from an event, a timer or a resumed
await to the next await. Identities of sockets, requests and calls are drawn
from small sets and reused when their owner is gone.

**GatewayWs.** `sock` and the other network variables are the `ws` library and
the gateway; the manager's fields keep their names (`ws`, `connectId`,
`connected`, `connecting`, `manualClose`, `reconnectAttempts`, `pending` and
`recovery` for the two maps). Each handler is an action: `SocketOpen`,
`SocketClose`, `SocketFail`, `SocketError`, `Challenge`, `ConnectAccepted`,
`ConnectRefused`, `Reply`; each timer is another: `ReconnectTimerFires`,
`ChallengeTimeout`, `RequestTimeout`. The handlers do not ask which socket
fired, and neither do the actions: a socket that was replaced still acts on the
manager. `framed` says whether an entry still holds its frame, since a resent
entry does not and is rejected at the next drop. A challenge timer whose handle
was overwritten stays armed in `orphanTimers`. `served` and `writes` only record
history. `RealtimeState` is what `GET /api/health` computes from the manager.

**RequestLedger.** The promise of `send()`: it settles once, and is fulfilled only
when the gateway served the request. `GatewayWs` maps `req` to `outcome`.

**Subscriptions.** `UseSession` and `UseSessionList` are the routes that call
`subscribeToGatewaySession(s)`. A call is a task: `all` while
`sessions.subscribe` runs, `wait` while it shares another's promise, `key` while
`sessions.messages.subscribe` runs. Of the manager what the code can see is
left: a call in flight at a drop is stored, sent again at the next reconnect and
rejected at the one after; `Reconnect` runs the `connected` handler with the
promise reactions that follow it. `gw` is what the gateway has subscribed the
present connection to.

**Realtime** adds to every step the SSE clients (what each leaves unread is one of
three levels: under the socket's mark, over it, over `SSE_MAX_WRITABLE_BYTES`)
and `shutdown`. The routes stop with the signal, everything else at the exit.

**LinkPreview.** `phase` follows a request through `_fetchLinkPreview`; `cache` is
the `Map` of `PreviewCache`, a function from keys to entries, and `older` its order:
for each key those that were in the map when it was inserted. A slot the limiter frees is
taken by the waiter it wakes in the same step, which the order of promise
reactions guarantees. What a page contains is left out.

**ChatQueue.** `queue`, `stored`, `timer` and `turn` are `sendQueue`,
`localStorage`, `queueRetryTimer` and the call of `processQueue` under way.
`attempt` is one POST as the server handles it; the page may have given it up
while a copy of the message is still on its way to the gateway (`ws`, `http`).
After a first refusal, which may be a 403, `apiFetch` asks for a fresh CSRF token
and sends the POST once more: `Forbidden`, then `TokenFetched`, or `Refused` when
there is no token. The attempt taken for a POST is any unused one; unused ones have
no state, so treating attempts as interchangeable is sound in spite of the `CHOOSE`.
The same holds for the calls of `Subscriptions`. `fate` and `executed` record history.

**Delivery.** For which session each message is (`sentTo`), what became of it (`fate`)
and which messages the gateway has received (`executed`): it receives a message only
after all earlier ones of its session, but for those the page has given up; a message
counts as sent only if the gateway has it, and what became of a message stays so.
`ChatQueue` has these variables itself, so it maps to `Delivery` by name.

**SessionView.** A task is one asynchronous function of the page: a selection
(`key`, `select`, `selected`: it waits for the secure storage, for the history,
and has got it), a poll (`poll`, `polled`), the list of sessions (`load`, `clear`)
or the logout (`bye`). `view` counts what is on the page, a bubble being the set of
messages whose text it shows, from the first part of it on; the order of the bubbles is
left out, since no property is about it and no step of the page depends on it. `keys`,
`live` and `echoes` are `historyMessageKeys`, `liveAssistantTurn` and the counts of
`localAssistantEchoes`. Time is left out: an echo goes `stale`, past its `expiresAt`, at
any time (`EchoExpires`), and remembering the text again renews it. A message comes as an
event, as the answer of its POST, or as both: when its call over the WebSocket failed, the
server answers the POST with what HTTP brought, while the stream goes on telling of the
run (`RunEnds`). A live turn whose bubble a rendering removed is not `attached` and goes
on unseen, as it does in the page. Two messages never have the same text, and the last
event of a run carries all of it (section 7). Only the assistant's messages are modelled:
those of the user are shown when sent and skipped by polls. `heard` and `answered` record
how a message came; `early`, `expired`, `strays`, `wiped` and `torn` record what the
properties except. The stored key is that of `storedSessionKey`, `secure` and `local` the
two storages; calls to the secure storage are answered in order (`writing`). `Places` says
where the page may run: in the app, which has a secure storage, in a browser, or either.

**AuthSession.** An agent is a cookie jar with one session and at most one request
under way; `request` says where its handler waits: for the OIDC setup (`setup`), at
the provider, for `redis.getDel` (`getDel`) or before its answer (`reply`).
`oidcConfig`, `oidcSetup` and `handoffs` are the module variables of each process;
`discoveries` counts the discoveries really under way. `redis` and `setting` are
Redis and the SETs on their way to it, which may be lost. `GetReturnTo` is the
function of that name over the kinds of `return_to` it tells apart. The completion page
follows the callback, or is visited later, with any `return_to`, while the session still
holds a token; without one the route answers 400 and changes nothing. `issued`,
`stored` and `presented` record history.

**MobileUpdate.** A release and its manifest go by one number; its bundle is a `file`,
which may be replaced under its URL (`Rebuild`). `Verify` hashes what one fetch brings,
`Download` fetches once more, and `Install` runs what that brought, as the plug-in does.
A check learns the running version or takes `0.0.0` for it (`CurrentVersion`); `blind`
says which it was for the update on offer. Versions are sequences of numbers, as
`compareVersions` reads them. `serving` is the manifest
request of a check at the server, `check` the check in the app, which may have gone
on to GitHub when the server still works. `cache` and `cacheTime` are the module
variables; the cache is dated with the start of the request that fills it.
`manifest` may be absent at first: the release workflow uploads it after the release
is published. It is not replaced after that.

**Reactions.** `rows` and `applied` are the two tables, `lock` SQLite's write lock
and `stale` the processes whose read snapshot somebody has written past: such a
transaction cannot write any more (`SQLITE_BUSY` without waiting). `runMigrations`
reads the applied migrations outside the transactions, so a process may apply one
again. A toggle is committed (`CommitToggle`) before it is answered (`AnswerToggle`), and
its process may die in between. `balance` counts the answers given, `lost` those that
died with a process. The listings are operators over the
committed rows: each is one statement and changes nothing.

## 4. Runs

| Run | Specification | Bounds | Distinct states | Result |
|---|---|---|---|---|
| `gateway_api` | whole interface, any order | 2 sockets, 1 request, 2 callers, 1 reconnect attempt | 1,745,194 | holds |
| `gateway_server` | as `server.js` drives it, fair | 2 sockets, 1 request, 1 caller, unlimited attempts | 43,562 | holds |
| `link_preview` | fair | 3 requests, 2 hosts, 1 slot, 1 retry, 1 redirect followed, cache of 1 | 98,639 | holds |
| `subscriptions` | fair | 1 session and the list, 3 calls at a time | 114,475 | holds |
| `realtime` | | the same with 2 calls, 2 browsers | 117,095 | holds |
| `realtime_forwarded` | | 1 browser | - | violated |
| `chat_queue` | | 2 messages, 2 sessions, 2 POSTs, 2 reloads, 1 failure, storage for 1 | 731,056 | holds |
| `chat_live` | fair | 2 messages, 2 sessions, 1 failure | 230,224 | holds |
| `auth_session` | | 2 agents, 2 users, 2 processes, 1 token that lives 1 tick of 2, 1 restart | 2,316,645 | holds |
| `mobile_update` | | 2 releases, 4 manifests, 2 checks, a file that is replaced, a cache that lives 1 tick of 1 | 3,018,251 | holds |
| `reactions` | fair | 3 processes, 1 user in 2 sessions, 2 attempts, 1 crash | 583,626 | holds |
| `session_view` | | the app, 2 sessions, 2 tasks, 2 messages, 1 mishap | 2,840,438 | holds |

Why the bounds are enough to be interesting. Two sockets let an old one fire
into its successor; requests do not share entries, so one shows every path
through the two maps, and the theorems cover the rest. One reconnect attempt
reaches the limit (`MaxReconnectAttempts = 1`) and the other run has none (0).
Three preview requests fill a slot, wait for it, and join either fetch; a cache
of one evicts at every second page. One session already has two topics, itself
and the list, and three calls let an old one, its successor and a sharer overlap.
Two messages can be of one session or of two, the storage of one loses the second
at a reload, and the second reload finds what the first did not take and nobody has
saved over. One failure reaches HTTP after WebSocket, with a copy of the message still
on its way on both, the retry of a POST that was given up, or a 403 and the fresh
token. With two failures and two reloads, which add HTTP failing after WebSocket and a
refusal after the fresh token, the run has 3,395,750 states and holds as well; the
smaller one is kept for its time, and the theorems cover the rest. Two agents are the system browser and the
app; with two processes the issuer restarts while the other redeems; one token can be
presented by both. Two releases, tagged 1.9 and 1.10, are ordered as versions and
not as texts; the manifests of 1.10 record the digest
of the replaced file, or none, or are of another tag. Two overlapping checks already
fill the cache in the wrong order. Three processes: one serves and toggles while a
second waits for its lock and a third applies a migration again. Two tasks let a
selection overtake a selection, or a poll; two messages are an answer and its
successor, and one mishap is a failed call, a lost stream, an echo that expires, a POST
that went by HTTP, or a reload. The page runs in the app, where a selection has one more
await than in a browser and the key two storages. In a browser (`Places = {FALSE}`) what it
shows has 1,758,328 states and holds as well. A refresh of the current session begins
while no task is under way (`RefreshesAmid = FALSE`); allowed at any time, the run has
3,619,431 states in the app and 2,017,188 in a browser, and holds. The theorems are of
all of these. One crash falls anywhere, also between a commit and its answer.

Bounds that end a behaviour rather than size a set: `AttemptCap` saturates the
reconnect counter, `MaxMessages`, `MaxReloads`, `MaxFailures` and `MaxMishaps`
limit the user and the network, `MaxCrashes` and `MaxRestarts` the processes,
`MaxClock` the time, `Rebuilt` the files that are replaced; each request identity of `LinkPreview`, each caller of
`GatewayWs` and each token is used once. A drop in `Subscriptions` needs enough free
identities for the calls the reconnect makes. Deadlock is not checked where every
request of the bounded run may be finished or the process have exited.

What each passing run checks:

- `gateway_api`: `NoRequestLost`, `AtMostOneResend` (request maps),
  `NeverStranded`, `OpenersAnswered` (connection), `KeepsLedger` (refinement).
- `gateway_server`: `SingleSocket`, `HandshakeDriven`, `HealthIsTruthful` and the
  liveness properties `RequestsSettle` and `KeepsReconnecting`. These hold only of
  the use `server.js` makes of the manager: with `disconnect()` and `connect()` in
  any order sockets overlap.
- `link_preview`: `TypeOK`, `SlotsAccounted`, `FetchesAreShared`,
  `EveryRequestAnswered`.
- `subscriptions`: `BelievedIsSubscribed`, `NoSessionForgotten`, `EveryCallEnds`.
- `realtime`: `NoSilentStream`.
- `chat_queue`: `TypeOK`, `HeldExactlyOnce`, `StoredIsQueue`, `ConfirmedIsExecuted`,
  `DeliversInOrder` (refinement); `chat_live`: `MessagesLeave`.
- `auth_session`: `SetupIsShared`, `TokenIsOfTheSession`, `UnpresentedIsRedeemable`,
  `RedeemsAsIssued`.
- `mobile_update`: `ServedIsRecent`, `OnlyForward`, `VerifiedIfUnchanged`.
- `reactions`: `AnswersAddUp`, `ServesMigrated`, `EventuallyServes`.
- `session_view`: `TypeOK`, `ShowsSelected`, `ShownOnce`, `KnownIsShown`,
  `PollsGoOn`, `RestoresStored`.

The type invariants that only say so are proved and not repeated by the runs (section
6). For each
property `PROJECT.json` names a mutant, a plausible bug of the code that breaks it;
its definition stands before the one it replaces.

## 5. Fairness

- `GatewayWs`: timers fire, and a socket that is going down delivers its close
  event (`LocalFairness`, weak: Node's timers and the `ws` library).
  `RequestsSettle` and `KeepsReconnecting` need a gateway that is not gone for
  good (`GatewayReturns`, strong: tried again and again, one socket opens, outlives
  the challenge wait and is accepted). Without it a request in flight at a drop
  waits for ever (section 7).
- `LinkPreview`: timers fire, DNS lookups end, and what was aborted ends. Nothing
  is assumed of the previewed hosts: everyone is answered although they need never
  do anything.
- `Subscriptions`: requests have a timeout (`EveryPendingRequestIsTimed`), and the
  gateway comes back, which is `KeepsReconnecting`.
- `ChatQueue`: timers and polls fire (the health poll runs every 15 s), requests
  end, and the network and the gateway do their part, failing only `MaxFailures`
  times. The user need not do anything, so `MessagesLeave` speaks of a session that
  stays selected and a browser that stays online.
- `Reactions`: the code of each process runs on and a supervisor starts a process
  that ended (`StartUp`, `Request`, weak). A migration that fails ends the process,
  so `EventuallyServes` is about processes that fail each other's migrations and try
  again.
- `AuthSession`, `MobileUpdate`, `SessionView` and `Realtime` state safety only.

## 6. Proofs

All theorems hold for every value of the constants that satisfies the assumption
named in the module. Those say that a null value is none of the values it stands
beside, that bounds are natural numbers, and in `Subscriptions` that the sessions and
the identities of calls are finite (`FiniteAssumption`), without which counting the
identities left for a reconnect means nothing; in `Reactions` the processes are finite,
since the answers they have yet to give are counted.

`GatewayWsProofs`, for the whole public interface (`Spec`):

- `TypeCorrect`: `TypeOK`.
- `NoRequestIsLost`, `EveryPendingRequestIsTimed`, `RecoveryIsOffline`,
  `ResendBound`: the request invariants, from `RequestInv`. They are not
  inductive alone: a drop overwrites the recovery map, and is harmless only because
  nothing is pending while the manager is offline (`OfflineHoldsNothingPending`);
  a resend stays within its bound because an entry that holds its frame was written
  at most once and never gets the frame back (`FrameNotYetResent`).
- `ManagerIsNeverStranded`, `OpenersAreAnswered`: from `LinkInv`, whose extra part
  says that a connecting manager has a socket whose close event is still to come.
- `ManagerImplementsLedger`: `Spec => Ledger!Spec`. Each handler is one step of the
  ledger or none; the argument rests on `LedgerInv`, that answers in flight belong to
  requests the gateway served.

The same module, for the manager as `server.js` uses it (`ServerSpec`):

- `NeverASecondSocket`, `ConnectedMeansSocket`: from `ServerInv`; a reconnect timer
  is armed only when every socket is gone.
- `HandshakeNeverStalls` and `SettledRequestsAreForgotten`, which build on it.
- `HealthTellsTheTruth`: `HealthIsTruthful`. The endpoint knows three flags and a
  counter; that they say what goes on needs `HealthInv`: before the first connection
  was lost nothing waits for a reconnect, and every close counts as an attempt.

`RealtimeProofs`, of the subscriptions: `TypeCorrect`, `OnlySubscribedIsBelieved`,
`NoSessionIsForgotten`, `WaitersHaveACall`. A call is in flight only while the
connection is up (`DownIsSilent`), what the gateway answered it has subscribed
(`ServedIsSubscribed`), and `NoSessionForgotten` survives a reconnect because a drop
leaves more free identities than sessions (`RoomForReconnect`), so that every session
gets a call of its own.

The same module, of the streams: `RealtimeTypeCorrect`, `OpenStreamsAreServed` and, since the
streams and the shutdown leave the subscriptions alone, `SubscriptionsWhileAlive`.

`LinkPreviewProofs`: `PreviewTypesHold`, `LimiterNeverLeaks`, `QueuesAreExact`,
`FetchesShared`. `SlotsAccounted` compares a counter with the cardinality of the
fetches in flight to a host. It is inductive only with `QueueIsExact`: the queue of a
host holds exactly the fetches that wait for it, each once, so the one that is woken
takes over the slot that was given up and no other. `TypeOK` says that the cache never
outgrows its limit; that needs `ByAge`, that the keys in it are ordered, from which it
follows that a full cache has an oldest key to evict (`FullCacheEvicts`): the one with
the fewest elders has none.

`AuthSessionProofs`: `TypeCorrect`, `SetupShared`, `TokenOfItsSession`, `Redeemable`,
`RedemptionAsIssued`. Every copy of a token's entry, in the memory of a process, in
Redis or on its way from there, agrees with what was issued (`EntriesAreIssued`), and
whoever is redeeming a token has presented it (`RedeemedIsPresented`).

`MobileUpdateProofs`: `TypeCorrect`, `CacheServesRecent`, `InstallsForward`,
`InstallsVerified`. Whatever is on its way into
the cache was the latest release at some time since its request began
(`FoundIsRecent`), and the cache is dated with that beginning (`CachedIsRecent`). For the app `AppInv`
says that what is on offer, and the update under way, is newer than what runs unless it is
`blind`, that every offer has a digest recorded, and that what was hashed has the recorded
one. Nothing can be proved of what the second fetch brings (section 7).

`ReactionsProofs`: `TypeCorrect`, `TogglesAreAtomic`, `OnlyMigratedServe`. Whoever has
selected a row or applies a migration holds the write lock (`LockIsHeld`), so what it
read is what it changes (`SelectedIsTrue`). `TogglesAreAtomic` counts the processes that
have committed and not answered: a commit adds one, the answer or a crash takes it away and
adds as much to `balance` or `lost`. A process knows at most the migrations
that are committed (`DoneIsApplied`).

`ChatQueueProofs`: `MessageTypes`, `MessagesHeldOnce`, `StorageIsTheQueue`,
`ConfirmedMessagesWereReceived` and the refinement `ImplementsDelivery`. The invariant
has four parts, each needing the one before it:

- `TypeInv`: the types, and that an attempt carries a message unless it is free.
- `QueueInv`: queue and turn hold the open messages once each; those of a session are
  sorted, the one in flight first; what is stored and has not expired is the front of
  the queue. That a message is held once is inductive only with the last of these, since
  a reload makes the queue out of the storage.
- `AttemptInv`: the attempt the page waits for carries the message of its turn, also on
  the retry after a fresh token, and an attempt is answered with a success only when a
  copy of its message was served.
- `OrderInv`: whoever carries a message, the attempt or a copy still on its way to the
  gateway, came after all earlier ones of the session were received or never will be.
  So whichever copy the gateway sees next, `Delivery` allows it.

What `Kept`, the filter of the stored queue, returns is proved once (`KeptProperties`).
The library states induction for an operator that is a parameter, which cannot be
used here; `SequenceInduction` states it for a set of sequences instead and follows
from `WFMin`, that a set of natural numbers has a least element.

`SessionViewProofs`, of what is shown: `ViewTypesHold`, `PageShowsSelected`,
`MessagesAreShownOnce` and `KnownMessagesAreShown`, from `PageInv`:

- `WhereInv` says where a message can be. Histories, and what tasks read from them, are of
  their session; what is on its way to the page has not come that way before, and nothing
  of a message follows its last event on the wire.
- `OnceInv` says of a message what `Once` does: it has no more bubbles than ways it came,
  and, once it came, none but that of the live turn unless polls know it or an echo makes
  them skip it. So the poll that finds it, whenever it began, adds no second bubble. A poll
  that adds what a stale echo no longer swallows puts it among the `expired`.
- `KnownInv` extends `KnownIsShown` to echoes and to a live turn whose bubble a
  rendering removed, which later become what polls know.

The same module, of the polls and the key: `PollFlagIsOfAPoll` and `ReloadFindsTheKey`.
A task that waits for the secure storage stands in its queue once (`QueueIsOfTasks`) and
the last one writes the key the page has (`LastIsStored`); so whatever of the calls
before it failed, the storage agrees with the page when the queue is empty.

Every invariant the runs check is proved, and both refinements. Only model-checked:
liveness (`RequestsSettle`, `KeepsReconnecting`, `EveryRequestAnswered`,
`EveryCallEnds`, `MessagesLeave`, `EventuallyServes`), which the prover does not reach.

## 7. Where the documentation and the code differ

Shown by a run: `realtime_forwarded`. `REALTIME-CONTRACT.md:59` says gateway events
are broadcast. After a first `connect()` that failed no handler is ever installed
(`server.js:2068-2129`).

Met while modelling; the models do what the code does.

The gateway and the server:

- `README.md:258` says requests in flight at a disconnect time out. They move to the
  recovery map, where their timeout does nothing (`lib/gateway-ws.js:119-122,
  371-376`), and wait until the gateway is back.
- `README.md:233` says a clean close does not reconnect; the close handler
  (`lib/gateway-ws.js:267`) treats every code alike.
- `README.md:260` says a reconnect does not retry requests; the manager resends them
  once (`lib/gateway-ws.js:136-156`).
- `README.md:209` and `231` say five reconnect attempts by default; the manager's
  default is no limit (`lib/gateway-ws.js:31`), and `server.js` passes none.
- `disconnect()` then `connect()` before the old close event clears
  `_manualClose` (`lib/gateway-ws.js:226`), so the old socket's handler schedules a
  reconnect. `server.js` never does this.
- `/api/health` goes on saying `reconnecting` when `MaxReconnectAttempts` are used up
  and nothing reconnects any more (`Exhausted` in `HealthIsTruthful`).
- The comment at `server.js:2180` says clients are drained; the shutdown first waits
  for `server.close()` (2196-2204), which waits for their streams, so with a stream
  open it ends by its timeout.
- A client is dropped as soon as `write()` returns false (`server.js:2054`), also for
  a single large event, where the comment at 2036 speaks of a backlog.
- `lib/link-preview-cache.js:61, 72` speak of evicting the least recently used entry;
  a hit does not renew an entry's place, so the one inserted first goes.
- The comment at `lib/link-preview-cache.js:120` says URLs are case-sensitive; the
  key lowercases all of the URL.

The page:

- `REALTIME-CONTRACT.md:47` says the page reads the health endpoint for its
  indicator. `public/index.html:3156, 3163` reads `gatewayWsConnected` and
  `gatewayWsReconnectAttempts`; `/api/health` sends `gatewayWs.connected`. Every
  health poll counts as connected and replays the queue. `HealthPolled` models that,
  and `MessagesLeave` leans on it.
- The text of a POST's answer is shown in whichever session is selected by then
  (`strays`).
- A selection that was overtaken by another still renders its history over it
  (`index.html:4063`).
- A history fetch that fails on selection empties the view, and polls do not bring
  back the user's own messages. One that fails during a live turn leaves the turn in a
  bubble that is no longer on the page, and the echo it leaves behind then swallows
  the answer the poll brings (`wiped`).
- A write to the secure storage that fails puts the key into `localStorage`, but the
  older key in the secure storage is read first at the next start (`torn`); a removal
  that fails at logout keeps the key.
- A message that a poll finds in the history before the page has its last event, or the
  answer of its POST, is shown again when that comes (`early`). One that a poll finds
  more than 30 s after the page showed it is shown again as well
  (`index.html:3223, 3232-3235`; `expired`). One that comes as an event and as the answer
  of its POST gets a bubble for each: nothing compares the two. `ShownOnce` excepts the
  first two and allows the third; it counts the bubbles that show nothing but the message.
- A delta that repeats the end of the turn is dropped, though it may be a further part of
  the text (`index.html:3714`). If the last event then does not carry the whole text, the
  echo is of a text no history has, and the poll shows the message again.
- `loadSessions` that fails stops polling until the next selection or stream error.
- `reconnectToBackendWithStatus` and `clearChatDisplay` are never called.

Sign-in, updates and reactions:

- A deep link as `return_to` does not survive the sign-in: GET `/auth/oidc` and the
  callback reduce it in the mode 'web' to '/', the completion page then gives `/` to
  `new URL`, which throws, and the app does not get the token
  (`lib/auth-session.js:684`, `public/lib/api-client.js:182`).
- OIDC is set up only in GET `/auth/oidc`, so a callback that reaches a restarted
  process, or another one, fails.
- A handoff entry redeemed from Redis is written back to the memory of the process;
  it stays there until it is presented again or expires.
- The comment at `public/mobile/update-manager.js:223-226` says the bundle's bytes are
  verified before `updater.set()`, so that a bundle swapped at the URL is blocked. It is
  not: what is hashed is a fetch of its own (184-193), `updater.download` (241) fetches the
  URL again without a digest, and what that brings is installed. `update()` also reads
  `availableUpdate` again for it, which a check may have set meanwhile. Without its
  condition `update.bundle = update.hashed`, `VerifiedIfUnchanged` is violated by `Rebuild`
  between `Verify` and `Download`.
- Where the plug-in has no `getCurrent`, or it fails, the running version is taken for
  `0.0.0` (`public/mobile/update-manager.js:63-72, 132`), so the same release or an older
  one is offered and installed. `OnlyForward` excepts what such a check offers (`blind`).
- A toggle whose process dies after the COMMIT and before the answer stays, and the user is
  not told (`lost`): tried again, it takes back what it did.
- The comment at `lib/db.js:29-31` says the retry loop covers the case that the wait for
  the lock is exhausted. `BEGIN IMMEDIATE` (35) stands outside the `try`, so that case is
  not tried again (`BeginFails`).
- `release.body` is optional according to line 89 of that file; without a release the
  check throws there.
- `sha384` and `sha512` pass validation, but the names made of them (`SHA384`) are
  none that `SubtleCrypto` accepts, so such a bundle is never installed.
- A listing of reactions without a session counts a user once for every session.

## 8. Not modelled

- Of chat delivery: slash commands, a second tab on the same storage
  (`public/index.html:1422`), and `logout()` while a message is being sent (4314). A
  message whose answer was lost is executed twice; the code does not try to prevent
  it (`server.js:1254-1262`), so no property speaks of it. A message being sent at a
  reload is not stored (4098): fate `lost`. `send-stream`, which the page does not
  use for its queue.
- Of the session view: the timers between a failed stream and the next
  (`index.html:3941`), tool calls, reactions and system lines in the view.
- Of link previews: the sockets of answers that are not read (`server.js:1626`) and
  the parsing of pages.
- Of subscriptions: the clock. A reconnect notes every key as just seen
  (`server.js:2110`); how long a key then lives is not said.
- Of authentication: the password login, which never exists beside OIDC (`authMode`
  is one or the other) and has no state but the session; its limiter; the tokens of
  the CSRF check, of which `ChatQueue` models what a 403 makes the page do.
- Of updates: the banner and its timers, the service worker, the splash screen.
- Of reactions: the events to the page, and `removeForMessage`, which nothing calls.
- Read routes, request validation and rendering: without state of their own. Android
  shell and scripts: run at build time.
