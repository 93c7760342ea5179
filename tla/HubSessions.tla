---------------------------- MODULE HubSessions ----------------------------
(***************************************************************************)
(* The browser sessions multiplexed on one tunnel, on both of its ends:    *)
(* the Hub's WebSocket bridge (hub/src/ws_bridge.rs) and HTTP proxy        *)
(* (hub/src/http_proxy.rs) over the slot table of hub/src/state.rs, the    *)
(* two frame queues of the tunnel, and the PC's link loop and session      *)
(* tasks (daemon/src/hub/link.rs, session.rs).                             *)
(*                                                                         *)
(* A session number is allocated once (Hub.alloc_session) and names one    *)
(* browser WebSocket (Ws) or one proxied request (Http).  Hub.tunnels is   *)
(* module HubTunnels' business: here the tunnel is simply displaced or     *)
(* ends at some moment, while browsers still hold it.                      *)
(***************************************************************************)
EXTENDS Integers, FiniteSets, Sequences, SequencesExt

CONSTANTS
    Ws,       \* the sessions that are browser WebSockets
    Http,     \* the sessions that are proxied requests
    Ceiling,  \* config sessions_per_tunnel
    Length,   \* chunks of an immutable asset, its declared content-length
    MaxUp     \* bound: frames a browser sends on one WebSocket, its HELLO first

ASSUME SessionAssumption == IsFiniteSet(Ws \cup Http) /\ Ws \cap Http = {}
ASSUME LimitAssumption == Ceiling \in Nat /\ Length \in Nat \ {0} /\ MaxUp \in Nat

Session == Ws \cup Http

VARIABLES
    conns,    \* Tunnel.conns of the Hub: the sessions that hold a slot
    hubTask,  \* where the Hub's task of each session stands
    writer,   \* the bridge's writer task of each WebSocket
    mail,     \* conn_rx: what the pump queued for each session's task
    browser,  \* the browser's end: here, left (it closed), vanished (no FIN)
    up,       \* frames each browser sent on its WebSocket
    stored,   \* chunks of the answer put in the shared asset cache
    got,      \* chunks of the answer ProxyBody buffered
    hub,      \* the Hub's half: serving, drained by close_all, gone
    toPc,     \* tunnel frames on their way to the PC
    fromPc,   \* tunnel frames on their way to the Hub
    link,     \* the PC's link loop: up or down
    bound,    \* Tunnel.sessions of the PC: the sessions with an inbound pump
    pump,     \* pump_rx: the frames routed to each session's task
    pcTask,   \* where the PC's task of each session stands
    sent      \* chunks of the answer the PC sent

hubVars  == <<conns, hubTask, writer, mail, got, stored>>
pcVars   == <<bound, pump, pcTask, sent>>
edgeVars == <<browser, up>>
vars == <<hubVars, pcVars, edgeVars, hub, toPc, fromPc, link>>

\* A WebSocket's task: upgraded, slot reserved, reading.  A request's task:
\* slot reserved, waiting for the head, streaming the body.
HubPhase == {"idle", "upgraded", "reserved", "reading", "awaiting", "streaming", "done"}
PcPhase  == {"none", "hello", "serving", "body", "answering", "done"}
Mail     == {"down", "head", "chunk", "fin", "kick", "close"}
UpFrame  == [ty : {"open", "up", "req", "reqFin", "close", "replaced"}, session : Session \cup {0}]
DownFrame == [ty : Mail, session : Session]

TypeOK ==
    /\ conns \subseteq Session
    /\ hubTask \in [Session -> HubPhase]
    /\ writer \in [Ws -> {"none", "running", "done"}]
    /\ \A s \in Session : mail[s] \in Seq(Mail) /\ pump[s] \in Seq({"up", "reqFin"})
    /\ browser \in [Session -> {"here", "left", "vanished"}]
    /\ up \in [Ws -> 0..MaxUp]
    /\ stored \in [Http -> 0..Length]
    /\ got \in [Http -> 0..Length]
    /\ hub \in {"up", "drained", "gone"}
    /\ toPc \in Seq(UpFrame)
    /\ fromPc \in Seq(DownFrame)
    /\ link \in {"up", "down"}
    /\ bound \subseteq Session
    /\ pcTask \in [Session -> PcPhase]
    /\ sent \in [Http -> 0..Length]

Init ==
    /\ conns = {}
    /\ hubTask = [s \in Session |-> "idle"]
    /\ writer = [s \in Ws |-> "none"]
    /\ mail = [s \in Session |-> <<>>]
    /\ browser = [s \in Session |-> "here"]
    /\ up = [s \in Ws |-> 0]
    /\ stored = [s \in Http |-> 0]
    /\ got = [s \in Http |-> 0]
    /\ hub = "up"
    /\ toPc = <<>>
    /\ fromPc = <<>>
    /\ link = "up"
    /\ bound = {}
    /\ pump = [s \in Session |-> <<>>]
    /\ pcTask = [s \in Session |-> "none"]
    /\ sent = [s \in Http |-> 0]

-----------------------------------------------------------------------------
(* The tunnel's two queues *)

Frame(ty, s) == [ty |-> ty, session |-> s]

\* The writer half of each end refuses once its owner is gone.
HubSends(frames) == toPc' = IF hub = "gone" THEN toPc ELSE toPc \o frames
PcSends(frames)  == fromPc' = IF link = "down" THEN fromPc ELSE fromPc \o frames

\* Mutant: the ceiling was checked at the upgrade, and never again.
ReserveUnchecked(s) == conns' = conns \cup {s}

\* Tunnel::reserve_conn, the check and the insert under one lock.
Full == Cardinality(conns) >= Ceiling
Reserve(s) == ~Full /\ conns' = conns \cup {s}

\* Mutant: a request abandoned before its head arrived kept its slot.
FreeSlotAfterHead(s) ==
    /\ conns' = IF hubTask[s] = "awaiting" THEN conns ELSE conns \ {s}
    /\ HubSends(<<Frame("close", s)>>)
    /\ hubTask' = [hubTask EXCEPT ![s] = "done"]
    /\ mail' = [mail EXCEPT ![s] = <<>>]

\* Mutant: the PC never hears that the browser went away.
FreeSlotSilently(s) ==
    /\ conns' = conns \ {s}
    /\ toPc' = toPc
    /\ hubTask' = [hubTask EXCEPT ![s] = "done"]
    /\ mail' = [mail EXCEPT ![s] = <<>>]

\* A session's task ends on the Hub: its slot is freed and the PC is told.
FreeSlot(s) ==
    /\ conns' = conns \ {s}
    /\ HubSends(<<Frame("close", s)>>)
    /\ hubTask' = [hubTask EXCEPT ![s] = "done"]
    /\ mail' = [mail EXCEPT ![s] = <<>>]

-----------------------------------------------------------------------------
(* The WebSocket bridge *)

\* bridge(): a full tunnel answers 429, else the upgrade starts.
Upgrade(s) ==
    /\ hubTask[s] = "idle" /\ browser[s] = "here" /\ ~Full
    /\ hubTask' = [hubTask EXCEPT ![s] = "upgraded"]
    /\ UNCHANGED <<conns, writer, mail, got, stored, pcVars, edgeVars, hub, toPc, fromPc, link>>

\* run(): the slot is claimed after the upgrade's arbitrary gap.
WsReserve(s) ==
    /\ hubTask[s] = "upgraded"
    /\ Reserve(s)
    /\ hubTask' = [hubTask EXCEPT ![s] = "reserved"]
    /\ UNCHANGED <<writer, mail, got, stored, pcVars, edgeVars, hub, toPc, fromPc, link>>

\* The browser's socket closes.
BrowserHears(s) ==
    IF browser[s] = "here"
    THEN browser' = [browser EXCEPT ![s] = "left"] /\ up' = up
    ELSE UNCHANGED edgeVars

WsRefused(s) ==
    /\ hubTask[s] = "upgraded" /\ Full
    /\ hubTask' = [hubTask EXCEPT ![s] = "done"]
    /\ BrowserHears(s)
    /\ UNCHANGED <<conns, writer, mail, got, stored, pcVars, hub, toPc, fromPc, link>>

\* CONN_OPEN leaves and the writer starts; a tunnel that is gone rolls back.
WsOpen(s) ==
    /\ hubTask[s] = "reserved" /\ hub # "gone" /\ s \in Ws
    /\ HubSends(<<Frame("open", s)>>)
    /\ hubTask' = [hubTask EXCEPT ![s] = "reading"]
    /\ writer' = [writer EXCEPT ![s] = "running"]
    /\ UNCHANGED <<conns, mail, got, stored, pcVars, edgeVars, hub, fromPc, link>>

WsOpenFails(s) ==
    /\ hubTask[s] = "reserved" /\ hub = "gone" /\ s \in Ws
    /\ conns' = conns \ {s}
    /\ hubTask' = [hubTask EXCEPT ![s] = "done"]
    /\ BrowserHears(s)
    /\ UNCHANGED <<writer, mail, got, stored, pcVars, hub, toPc, fromPc, link>>

\* The reader's one exit: slot freed, PC told, writer aborted where it stands.
LeaveReader(s) ==
    /\ FreeSlot(s)
    /\ writer' = [writer EXCEPT ![s] = "done"]
    /\ BrowserHears(s)
    /\ UNCHANGED <<got, stored, pcVars, hub, fromPc, link>>

\* A browser frame, stamped and queued while the session is registered.
WsUp(s) ==
    /\ hubTask[s] = "reading" /\ browser[s] = "here" /\ up[s] < MaxUp
    /\ s \in conns /\ hub # "gone"
    /\ HubSends(<<Frame("up", s)>>)
    /\ up' = [up EXCEPT ![s] = @ + 1]
    /\ UNCHANGED <<hubVars, pcVars, browser, hub, fromPc, link>>

\* A browser frame that ends the reading: the session is no longer registered,
\* or the tunnel is gone, or (any time) the daily budget does not cover it.
WsUpRefused(s) ==
    /\ hubTask[s] = "reading" /\ browser[s] = "here"
    /\ LeaveReader(s)

\* The browser's close, or its socket's end, reaches the reader.
WsLeft(s) ==
    /\ hubTask[s] = "reading" /\ browser[s] = "left"
    /\ LeaveReader(s)

\* Mutant: no idle deadline on the browser's leg.
NoWsIdle(s) == FALSE /\ UNCHANGED vars

\* SESSION_IDLE: nothing heard, not even the pong of a keepalive ping.
WsIdle(s) ==
    /\ hubTask[s] = "reading" /\ browser[s] = "vanished"
    /\ LeaveReader(s)

\* The writer: the next downlink message, or the close that ends it.
WsWrite(s) ==
    /\ writer[s] = "running" /\ mail[s] # <<>> /\ Head(mail[s]) = "down"
    /\ mail' = [mail EXCEPT ![s] = Tail(@)]
    /\ UNCHANGED <<conns, hubTask, writer, got, stored, pcVars, edgeVars, hub, toPc, fromPc, link>>

WsWriteClose(s) ==
    /\ writer[s] = "running" /\ mail[s] # <<>> /\ Head(mail[s]) # "down"
    /\ mail' = [mail EXCEPT ![s] = <<>>]
    /\ writer' = [writer EXCEPT ![s] = "done"]
    /\ BrowserHears(s)
    /\ UNCHANGED <<conns, hubTask, got, stored, pcVars, hub, toPc, fromPc, link>>

\* A write or a keepalive ping fails, and conn_rx goes with the task.
WsWriteFails(s) ==
    /\ writer[s] = "running" /\ browser[s] = "left"
    /\ writer' = [writer EXCEPT ![s] = "done"]
    /\ mail' = [mail EXCEPT ![s] = <<>>]
    /\ UNCHANGED <<conns, hubTask, got, stored, pcVars, edgeVars, hub, toPc, fromPc, link>>

-----------------------------------------------------------------------------
(* The HTTP proxy *)

\* The slot is claimed before anything reaches the PC; a full tunnel answers 429.
HttpReserve(s) ==
    /\ hubTask[s] = "idle" /\ browser[s] = "here"
    /\ Reserve(s)
    /\ hubTask' = [hubTask EXCEPT ![s] = "reserved"]
    /\ UNCHANGED <<writer, mail, got, stored, pcVars, edgeVars, hub, toPc, fromPc, link>>

\* The head and the body's FIN, when the daily budget covers them.
HttpSend(s) ==
    /\ hubTask[s] = "reserved" /\ hub # "gone" /\ s \in Http
    /\ HubSends(<<Frame("req", s), Frame("reqFin", s)>>)
    /\ hubTask' = [hubTask EXCEPT ![s] = "awaiting"]
    /\ UNCHANGED <<conns, writer, mail, got, stored, pcVars, edgeVars, hub, fromPc, link>>

\* The slot's or the body's drop: budget spent, tunnel gone, head or body
\* timeout, PC closed, browser gone mid-request.  What was buffered is stored
\* when it is the whole asset.
Complete(s) == got[s] = Length

HttpLeave(s) ==
    /\ FreeSlot(s)
    /\ stored' = [stored EXCEPT ![s] = IF Complete(s) THEN got[s] ELSE @]
    /\ UNCHANGED <<writer, got, pcVars, edgeVars, hub, fromPc, link>>

\* Nothing holds the request back: budget or tunnel refuse it, a timer
\* (HEAD_TIMEOUT, BODY_IDLE) runs out, the browser's connection drops.
HttpGivesUp(s) ==
    /\ hubTask[s] \in {"reserved", "awaiting", "streaming"} /\ s \in Http
    /\ HttpLeave(s)

\* wait_head takes the next message; a close ends the request.
HttpHead(s) ==
    /\ hubTask[s] = "awaiting" /\ mail[s] # <<>> /\ Head(mail[s]) = "head"
    /\ mail' = [mail EXCEPT ![s] = Tail(@)]
    /\ hubTask' = [hubTask EXCEPT ![s] = "streaming"]
    /\ UNCHANGED <<conns, writer, got, stored, pcVars, edgeVars, hub, toPc, fromPc, link>>

\* ProxyBody::poll_next, tee'd into the buffer of an immutable asset.
HttpChunk(s) ==
    /\ hubTask[s] = "streaming" /\ mail[s] # <<>> /\ Head(mail[s]) = "chunk"
    /\ mail' = [mail EXCEPT ![s] = Tail(@)]
    /\ got' = [got EXCEPT ![s] = @ + 1]
    /\ UNCHANGED <<conns, hubTask, writer, stored, pcVars, edgeVars, hub, toPc, fromPc, link>>

\* A FIN or a close ends the body, whose drop frees the session.
HttpEnd(s) ==
    /\ hubTask[s] \in {"awaiting", "streaming"} /\ mail[s] # <<>>
    /\ Head(mail[s]) \in {"fin", "kick", "close"}
    /\ HttpLeave(s)

-----------------------------------------------------------------------------
(* The Hub's pump, and the tunnel's end *)

\* Whether conn_rx still exists: to_conn's send fails once it does not.
Receiver(s) ==
    IF s \in Ws
    THEN writer[s] = "running" \/ hubTask[s] = "reserved"
    ELSE hubTask[s] \in {"reserved", "awaiting", "streaming"}

\* route(): CONN_CLOSE takes the slot and says so to its task; any other
\* frame goes to the slot's task, and a dead one leaves the table.
Route ==
    /\ hub = "up" /\ fromPc # <<>>
    /\ fromPc' = Tail(fromPc)
    /\ LET s == Head(fromPc).session
           ty == Head(fromPc).ty
       IN /\ conns' = IF ty \in {"kick", "close"} \/ ~Receiver(s) THEN conns \ {s} ELSE conns
          /\ mail' = IF s \in conns /\ Receiver(s) THEN [mail EXCEPT ![s] = Append(@, ty)] ELSE mail
    /\ UNCHANGED <<hubTask, writer, got, stored, pcVars, edgeVars, hub, toPc, link>>

\* Tunnel::close_all.
CloseAll ==
    /\ conns' = {}
    /\ mail' = [s \in Session |-> IF s \in conns /\ Receiver(s) THEN Append(mail[s], "close") ELSE mail[s]]

\* A newer connection of the same PC displaced this one.
Displaced ==
    /\ hub = "up" /\ Frame("replaced", 0) \notin ToSet(toPc)
    /\ HubSends(<<Frame("replaced", 0)>>)
    /\ CloseAll
    /\ UNCHANGED <<hubTask, writer, got, stored, pcVars, edgeVars, hub, fromPc, link>>

\* The pump's loop ended: stream over, heartbeats missed, budget, blocklist.
HubDrains ==
    /\ hub = "up"
    /\ hub' = "drained"
    /\ CloseAll
    /\ UNCHANGED <<hubTask, writer, got, stored, pcVars, edgeVars, toPc, fromPc, link>>

\* writer.abort(): from here on nobody reads the tunnel's queue.
HubGone ==
    /\ hub = "drained"
    /\ hub' = "gone"
    /\ UNCHANGED <<hubVars, pcVars, edgeVars, toPc, fromPc, link>>

-----------------------------------------------------------------------------
(* The PC: the link loop *)

\* inbound(): one frame from the Hub.
Open(s, phase) ==
    /\ bound' = bound \cup {s}
    /\ pcTask' = [pcTask EXCEPT ![s] = phase]
    /\ UNCHANGED <<pump, sent, link>>

RouteToPump(s, ty) ==
    /\ pump' = IF s \in bound THEN [pump EXCEPT ![s] = Append(@, ty)] ELSE pump
    /\ UNCHANGED <<bound, pcTask, sent, link>>

Unbind(s) == bound' = bound \ {s}

Inbound ==
    /\ link = "up" /\ toPc # <<>>
    /\ toPc' = Tail(toPc)
    /\ LET s == Head(toPc).session
           ty == Head(toPc).ty
       IN \/ ty = "open" /\ Open(s, "hello")
          \/ ty = "req" /\ Open(s, "body")
          \/ ty \in {"up", "reqFin"} /\ RouteToPump(s, ty)
          \/ ty = "close" /\ Unbind(s) /\ UNCHANGED <<pump, pcTask, sent, link>>
          \/ ty = "replaced" /\ link' = "down" /\ UNCHANGED pcVars
    /\ UNCHANGED <<hubVars, edgeVars, hub, fromPc>>

\* The loop ends: the Hub is gone or quiet, or the settings changed.  The
\* session tasks are left to themselves, their pumps still bound.
LinkEnds ==
    /\ link = "up"
    /\ link' = "down"
    /\ UNCHANGED <<hubVars, pcVars, edgeVars, hub, toPc, fromPc>>

-----------------------------------------------------------------------------
(* The PC: the session tasks *)

\* Tunnel::close_session as the task's last act.
CloseSession(s, frames) ==
    /\ Unbind(s)
    /\ PcSends(frames)
    /\ pcTask' = [pcTask EXCEPT ![s] = "done"]
    /\ pump' = [pump EXCEPT ![s] = <<>>]
    /\ UNCHANGED <<hubVars, edgeVars, sent, hub, toPc, link>>

\* The HELLO and its CSRF value are right: the connection is established, and
\* its HELLO_ACK leaves.
Hello(s) ==
    /\ pcTask[s] = "hello" /\ pump[s] # <<>>
    /\ pump' = [pump EXCEPT ![s] = Tail(@)]
    /\ pcTask' = [pcTask EXCEPT ![s] = "serving"]
    /\ PcSends(<<Frame("down", s)>>)
    /\ UNCHANGED <<hubVars, edgeVars, bound, sent, hub, toPc, link>>

\* No valid session, a foreign origin, a bad HELLO, none within HELLO_TIMEOUT.
HelloRefused(s) ==
    /\ pcTask[s] = "hello"
    /\ CloseSession(s, <<Frame("kick", s)>>)

WsFrame(s) ==
    /\ pcTask[s] = "serving" /\ pump[s] # <<>>
    /\ pump' = [pump EXCEPT ![s] = Tail(@)]
    /\ UNCHANGED <<hubVars, edgeVars, bound, pcTask, sent, hub, toPc, fromPc, link>>

\* The browser's side closed: the pump is unbound and drained.  Or the link
\* is down and a downlink send fails.  Either way nothing is left to close.
WsParted(s) ==
    /\ pcTask[s] = "serving"
    /\ (s \notin bound /\ pump[s] = <<>>) \/ link = "down"
    /\ pcTask' = [pcTask EXCEPT ![s] = "done"]
    /\ pump' = [pump EXCEPT ![s] = <<>>]
    /\ UNCHANGED <<hubVars, edgeVars, bound, sent, hub, toPc, fromPc, link>>

\* A kick, or the recheck finding the session invalid: the CLOSE frame of the
\* connection, the tunnel session's close with the same code, and, as for every
\* task that ends its connection, a last close.
Kick(s) ==
    /\ pcTask[s] = "serving"
    /\ CloseSession(s, <<Frame("down", s), Frame("kick", s), Frame("close", s)>>)

\* A message of the browser that does not decode.
BadFrame(s) ==
    /\ pcTask[s] = "serving" /\ pump[s] # <<>>
    /\ CloseSession(s, <<Frame("close", s)>>)

\* Mutant: the idle exit left the session bound and the Hub untold.
PcIdleSilently(s) ==
    /\ pcTask[s] = "serving" /\ pump[s] = <<>>
    /\ pcTask' = [pcTask EXCEPT ![s] = "done"]
    /\ UNCHANGED <<hubVars, edgeVars, bound, pump, sent, hub, toPc, fromPc, link>>

\* Mutant: the idle deadline is looked at only while the link is up.
PcIdleWhileLinked(s) ==
    /\ pcTask[s] = "serving" /\ pump[s] = <<>> /\ link = "up"
    /\ CloseSession(s, <<Frame("close", s)>>)

\* IDLE_TIMEOUT without a frame, on a tunnel that may be long gone.
PcIdle(s) ==
    /\ pcTask[s] = "serving" /\ pump[s] = <<>>
    /\ CloseSession(s, <<Frame("close", s)>>)

\* The request's body is whole; the router's answer begins with its head.
HttpAnswer(s) ==
    /\ pcTask[s] = "body" /\ pump[s] # <<>>
    /\ pump' = [pump EXCEPT ![s] = Tail(@)]
    /\ pcTask' = [pcTask EXCEPT ![s] = "answering"]
    /\ PcSends(<<Frame("head", s)>>)
    /\ UNCHANGED <<hubVars, edgeVars, bound, sent, hub, toPc, link>>

\* 504: the body never reached its FIN (30 s, or the browser went away).
BodyIncomplete(s) ==
    /\ pcTask[s] = "body"
    /\ CloseSession(s, <<Frame("head", s), Frame("close", s)>>)

\* Mutant: the answer runs past its declared length.
HttpPieceUnlimited(s) ==
    /\ pcTask[s] = "answering" /\ link = "up" /\ sent[s] <= Length
    /\ sent' = [sent EXCEPT ![s] = @ + 1]
    /\ PcSends(<<Frame("chunk", s)>>)
    /\ UNCHANGED <<hubVars, edgeVars, bound, pump, pcTask, hub, toPc, link>>

\* Mutant: a piece is queued again after a send that only seemed to fail.
HttpPieceTwice(s) ==
    /\ pcTask[s] = "answering" /\ link = "up" /\ sent[s] < Length
    /\ sent' = [sent EXCEPT ![s] = @ + 1]
    /\ PcSends(<<Frame("chunk", s), Frame("chunk", s)>>)
    /\ UNCHANGED <<hubVars, edgeVars, bound, pump, pcTask, hub, toPc, link>>

HttpPiece(s) ==
    /\ pcTask[s] = "answering" /\ link = "up" /\ sent[s] < Length
    /\ sent' = [sent EXCEPT ![s] = @ + 1]
    /\ PcSends(<<Frame("chunk", s)>>)
    /\ UNCHANGED <<hubVars, edgeVars, bound, pump, pcTask, hub, toPc, link>>

\* The FIN follows the last chunk, and an interrupted read too.
HttpDone(s) ==
    /\ pcTask[s] = "answering"
    /\ CloseSession(s, <<Frame("fin", s), Frame("close", s)>>)

-----------------------------------------------------------------------------
(* The browsers *)

BrowserLeaves(s) ==
    /\ hubTask[s] \notin {"idle", "done"} /\ browser[s] = "here"
    /\ \E how \in {"left", "vanished"} : browser' = [browser EXCEPT ![s] = how]
    /\ UNCHANGED <<hubVars, pcVars, up, hub, toPc, fromPc, link>>

WsStep(s) ==
    \/ Upgrade(s) \/ WsReserve(s) \/ WsRefused(s) \/ WsOpen(s) \/ WsOpenFails(s)
    \/ WsUp(s) \/ WsUpRefused(s) \/ WsLeft(s) \/ WsIdle(s) \/ WsWrite(s)
    \/ WsWriteClose(s) \/ WsWriteFails(s)
    \/ Hello(s) \/ HelloRefused(s) \/ WsFrame(s) \/ WsParted(s) \/ Kick(s) \/ BadFrame(s)
    \/ PcIdle(s)

HttpStep(s) ==
    \/ HttpReserve(s) \/ HttpSend(s) \/ HttpGivesUp(s)
    \/ HttpHead(s) \/ HttpChunk(s) \/ HttpEnd(s)
    \/ HttpAnswer(s) \/ BodyIncomplete(s) \/ HttpPiece(s) \/ HttpDone(s)

Next ==
    \/ \E s \in Ws : WsStep(s)
    \/ \E s \in Http : HttpStep(s)
    \/ \E s \in Session : BrowserLeaves(s)
    \/ Route \/ Displaced \/ HubDrains \/ HubGone \/ Inbound \/ LinkEnds

Spec == Init /\ [][Next]_vars

\* Every task runs on, timers fire, and each end of the tunnel notices that
\* the other is gone.  A browser that is there sends its next heartbeat
\* (transport.ts, every 20 s or 60 s): owed here only on a tunnel that is gone.
\* Browsers' leaving, kicks and displacements are never owed.
Fairness ==
    /\ \A s \in Ws :
         /\ WF_vars(WsReserve(s)) /\ WF_vars(WsRefused(s)) /\ WF_vars(WsOpen(s))
         /\ WF_vars(WsOpenFails(s)) /\ WF_vars(WsLeft(s)) /\ WF_vars(WsIdle(s))
         /\ WF_vars(WsWrite(s)) /\ WF_vars(WsWriteClose(s)) /\ WF_vars(hub = "gone" /\ WsUpRefused(s))
         /\ WF_vars(HelloRefused(s)) /\ WF_vars(WsFrame(s))
         /\ WF_vars(s \notin bound /\ WsParted(s)) /\ WF_vars(link = "down" /\ PcIdle(s))
    /\ WF_vars(Route) /\ WF_vars(Inbound) /\ WF_vars(HubGone)
    /\ WF_vars(link = "down" /\ HubDrains) /\ WF_vars(hub = "gone" /\ LinkEnds)

FairSpec == Spec /\ Fairness

-----------------------------------------------------------------------------
(* Properties *)

\* The slots in use never pass sessions_per_tunnel, however many upgrades and
\* requests saw room before any of them claimed its slot.
CeilingKept == Cardinality(conns) <= Ceiling

\* No ghost holds a slot: behind every entry of the table stands a task that
\* has yet to run its exit path, however its predecessors left.
NoGhostSlot ==
    \A s \in conns : hubTask[s] \in {"reserved", "reading", "awaiting", "streaming"}

\* While both halves of the tunnel serve, a session that ended on the Hub and
\* is still bound on the PC has its close on the way there.
NoOrphanBinding ==
    \A s \in bound :
        hub = "up" /\ link = "up" /\ hubTask[s] = "done" => Frame("close", s) \in ToSet(toPc)

\* While both halves serve, a session whose task ended on the PC and that still
\* holds a slot on the Hub has its close on the way there.
PcEndFreesSlot ==
    \A s \in conns :
        hub = "up" /\ link = "up" /\ pcTask[s] = "done"
            => {Frame("close", s), Frame("kick", s)} \cap ToSet(fromPc) # {}

\* What the Hub's shared cache holds is what the PC sent, all of it: whichever
\* way the answer ended, the chunks crossed two queues and a drop of any of the
\* tasks between them without one lost, repeated or invented.
CachedWasSent == \A s \in Http : stored[s] # 0 => sent[s] = Length /\ stored[s] = sent[s]

\* A WebSocket's slot does not outlive its browser, whether it said goodbye or
\* vanished, nor the tunnel.
SlotFreed ==
    \A s \in Ws : s \in conns /\ (browser[s] # "here" \/ hub = "gone") ~> s \notin conns

\* The PC's WebSocket tasks of a tunnel that went down end too, though its end
\* unbinds nothing and no pump of theirs ever closes.
TasksEnd ==
    \A s \in Ws : link = "down" /\ pcTask[s] # "none" ~> pcTask[s] = "done"

=============================================================================
