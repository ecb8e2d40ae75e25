------------------------------- MODULE Realtime -------------------------------
(***************************************************************************)
(* The realtime half of server.js: the subscriptions at the gateway        *)
(* (module Subscriptions), the SSE clients its events are broadcast to,    *)
(* and the graceful shutdown, which stops the routes, the streams and the  *)
(* gateway manager.                                                        *)
(***************************************************************************)
EXTENDS Subscriptions

CONSTANT Clients   \* SSE connections

VARIABLES
    queue,     \* what is buffered for each SSE client
    sseClients,
    stream,    \* state of each SSE connection
    shutdown

sseVars == <<queue, sseClients, stream>>
allVars == <<vars, sseVars, shutdown>>

Running == shutdown = "no"
Alive == shutdown # "exited"   \* process.exit() was not called

------------------------------------------------------------------------------
(* Server-sent events *)

\* What a client leaves unread: less than the socket's own mark, more, or more
\* than SSE_MAX_WRITABLE_BYTES.
Levels == {"below mark", "above mark", "above bound"}

\* GET /api/events
OpenStream(c) ==
    /\ Running
    /\ stream[c] = "none"
    /\ stream' = [stream EXCEPT ![c] = "open"]
    /\ sseClients' = sseClients \cup {c}
    /\ UNCHANGED <<vars, queue, shutdown>>

\* The browser goes away, or the socket of an ended response closes.
CloseStream(c) ==
    /\ Alive
    /\ stream[c] \in {"open", "ended"}
    /\ stream' = [stream EXCEPT ![c] = "none"]
    /\ sseClients' = sseClients \ {c}
    /\ queue' = [queue EXCEPT ![c] = "below mark"]
    /\ UNCHANGED <<vars, shutdown>>

Drain(c) ==
    /\ Alive
    /\ queue[c] # "below mark"
    /\ queue' = [queue EXCEPT ![c] = "below mark"]
    /\ UNCHANGED <<vars, sseClients, stream, shutdown>>

\* Mutant of DropStreams: the response is not ended.
ForgetStreams(dropped) == sseClients' = sseClients \ dropped /\ UNCHANGED stream

\* dropSseClient
DropStreams(dropped) ==
    /\ sseClients' = sseClients \ dropped
    /\ stream' = [c \in Clients |-> IF c \in dropped THEN "ended" ELSE stream[c]]

\* 'gateway-event' and broadcastToSseClients: each client is written to, and
\* dropped when write() answers false or too much is buffered.
GatewayEvent ==
    /\ Alive
    /\ up /\ init = "ready"
    /\ gw # {}
    /\ \E level \in [sseClients -> Levels] :
          /\ queue' = [c \in Clients |-> IF c \in sseClients THEN level[c] ELSE queue[c]]
          /\ DropStreams({c \in sseClients : level[c] # "below mark"})
    /\ UNCHANGED <<vars, shutdown>>

------------------------------------------------------------------------------
(* gracefulShutdown *)

Connections == {c \in Clients : stream[c] # "none"}

Signal ==
    /\ Running
    /\ shutdown' = "closing"
    /\ UNCHANGED <<vars, sseVars>>

\* server.close() calls back once every connection has ended; only then are the
\* SSE clients drained and the manager is disconnected.
ServerClosed ==
    /\ shutdown = "closing"
    /\ Connections = {}
    /\ sseClients' = {}
    /\ up' = FALSE
    /\ shutdown' = "exited"
    /\ UNCHANGED <<init, subVars, queue, stream>>

ShutdownTimeout ==
    /\ shutdown = "closing"
    /\ shutdown' = "exited"
    /\ UNCHANGED <<vars, sseVars>>

------------------------------------------------------------------------------
InitRealtime ==
    /\ Init
    /\ queue = [c \in Clients |-> "below mark"] /\ sseClients = {}
    /\ stream = [c \in Clients |-> "none"]
    /\ shutdown = "no"

StreamStep ==
    \/ \E c \in Clients : OpenStream(c) \/ CloseStream(c) \/ Drain(c)
    \/ GatewayEvent

\* A closed server accepts no request.
RouteStepWhileRunning == Running /\ RouteStep /\ UNCHANGED <<sseVars, shutdown>>
OwnStepWhileAlive == Alive /\ OwnStep /\ UNCHANGED <<sseVars, shutdown>>

NextRealtime ==
    \/ RouteStepWhileRunning \/ OwnStepWhileAlive
    \/ StreamStep
    \/ Signal \/ ServerClosed \/ ShutdownTimeout

SpecRealtime == InitRealtime /\ [][NextRealtime]_allVars

------------------------------------------------------------------------------
(* Properties *)

TypeOKRealtime ==
    /\ TypeOK
    /\ queue \in [Clients -> Levels] /\ sseClients \subseteq Clients
    /\ stream \in [Clients -> {"none", "open", "ended"}]
    /\ shutdown \in {"no", "closing", "exited"}

\* A browser's open stream is one that events are broadcast to, until the
\* server itself ends it: a stream that stays open while nothing is written to
\* it would never be reopened by the browser (server.js:2030-2047).
NoSilentStream ==
    Alive => \A c \in Clients : stream[c] = "open" <=> c \in sseClients

\* REALTIME-CONTRACT.md:59 "Gateway WS manager emits 'gateway-event' -> server
\* broadcasts to all SSE clients".  Violated after a first connect() that
\* failed: the handlers are installed only after it (server.js:2068-2124).
EventsAreForwarded ==
    \A c \in Clients : stream[c] = "open" /\ up => init = "ready"
===============================================================================
