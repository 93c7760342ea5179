------------------------------- MODULE MCLive -------------------------------
(***************************************************************************)
(* What six components owe in the end, each on an instance small enough    *)
(* for temporal checking.  A behaviour chooses one component (part) and is *)
(* a behaviour of it, under its own fairness; the others stand still in a  *)
(* state in which nothing of theirs is owed, so that their fairness asks   *)
(* nothing: what one owes does not depend on another.                      *)
(***************************************************************************)
EXTENDS Blocklist, Integers, Sequences

CONSTANTS Login, Password, Conn, Instance, Job, Token, Serial, Config, Task, Gone

VARIABLES
    part, \* the component that runs
    \* HubSessions
    conns, hubTask, writer, mail, browser, toHub, stored, got, hub, toPc,
    fromPc, sessionLink, sessionBound, pump, pcTask, sent,
    \* JointLogin
    auth, clearing, pcSessions, permit, pcLink, pcJob, wire, open, tunnel, used,
    cred, links, login, top,
    \* RelayRouter
    known, bound, job, entry, serving, ctl, control, gate, webview, link,
    \* HubClient
    config, importing, unannounced, password, generation, wakes, loop, with,
    under, status,
    \* ResumableConn
    table, conn, task, serves, gen, hello, down, upl, page, recv, foreign, skipped

sessionVars == <<conns, hubTask, writer, mail, browser, toHub, stored, got, hub, toPc,
    fromPc, sessionLink, sessionBound, pump, pcTask, sent>>
loginVars == <<auth, clearing, pcSessions, permit, pcLink, pcJob, wire, open, tunnel, used,
    cred, links, login, top>>
relayVars == <<known, bound, job, entry, serving, ctl, control, gate, webview, link>>
clientVars == <<config, importing, unannounced, password, generation, wakes, loop, with,
    under, status>>
connVars == <<table, conn, task, serves, gen, hello, down, upl, page, recv, foreign, skipped>>
all == <<part, vars, sessionVars, loginVars, relayVars, clientVars, connVars>>

Sessions == INSTANCE HubSessions WITH
    Ws <- {1}, Http <- {}, Ceiling <- 1, Length <- 1, MaxUp <- 2,
    up <- toHub, link <- sessionLink, bound <- sessionBound
Logins == INSTANCE JointLogin WITH
    Cap <- 1, MaxTunnels <- 2, MaxEpoch <- 2, link <- pcLink, job <- pcJob
Relays == INSTANCE RelayRouter WITH MaxQueue <- 2
Client == INSTANCE HubClient WITH MaxGeneration <- 4
Pages == INSTANCE ResumableConn WITH
    InitialCredit <- 1, CreditEvery <- 1, RingFrames <- 1, MaxHeld <- 1,
    MaxPush <- 2, MaxSeq <- 1, MaxGen <- 2, known <- table

\* The blocklist's cache already answers for its file.
BlocklistAtRest ==
    /\ file = [listed |-> {}, stamp |-> 0]
    /\ set = {} /\ stamp = 0
    /\ pc = [r \in Refresher |-> "idle"]
    /\ seen = [r \in Refresher |-> None]
    /\ text = [r \in Refresher |-> {}]
    /\ raced = FALSE

\* The client's loop is parked and no Hub is configured.
ClientAtRest ==
    /\ config = None /\ importing = FALSE /\ unannounced = FALSE /\ password = FALSE
    /\ generation = 0 /\ under = 0 /\ wakes = 0
    /\ loop = "unconfigured" /\ with = None /\ status = "unconfigured"

LiveInit ==
    /\ part \in {"sessions", "logins", "relays", "client", "pages", "blocklist"}
    /\ Sessions!Init /\ Logins!Init /\ Relays!Init /\ Pages!Init
    /\ IF part = "blocklist" THEN Init ELSE BlocklistAtRest
    /\ IF part = "client" THEN Client!Init ELSE ClientAtRest

LiveNext ==
    \/ /\ part = "sessions" /\ Sessions!Next
       /\ UNCHANGED <<part, vars, loginVars, relayVars, clientVars, connVars>>
    \/ /\ part = "logins" /\ Logins!Next
       /\ UNCHANGED <<part, vars, sessionVars, relayVars, clientVars, connVars>>
    \/ /\ part = "relays" /\ Relays!Next
       /\ UNCHANGED <<part, vars, sessionVars, loginVars, clientVars, connVars>>
    \/ /\ part = "client" /\ Client!Next
       /\ UNCHANGED <<part, vars, sessionVars, loginVars, relayVars, connVars>>
    \/ /\ part = "pages" /\ Pages!Next
       /\ UNCHANGED <<part, vars, sessionVars, loginVars, relayVars, clientVars>>
    \/ /\ part = "blocklist" /\ Next
       /\ UNCHANGED <<part, sessionVars, loginVars, relayVars, clientVars, connVars>>

LiveSpec ==
    LiveInit /\ [][LiveNext]_all
        /\ Sessions!Fairness /\ Logins!Fairness /\ Relays!Fairness
        /\ Client!Fairness /\ Pages!Fairness /\ Fairness

-----------------------------------------------------------------------------
(* Properties, each stated and commented in its component's module *)

\* A WebSocket's slot does not outlive its browser or the tunnel (HubSessions).
SlotFreed == Sessions!SlotFreed
\* The PC's tasks of a tunnel that went down end too (HubSessions).
TasksEnd == Sessions!TasksEnd
\* A change of the credential reaches the Hub (JointLogin).
ChangeReachesHub == Logins!ChangeReachesHub
\* A bound browser gets its relay back (RelayRouter).
BoundGetsRelay == Relays!BoundGetsRelay
\* A relay that lost its last session goes (RelayRouter).
MarkedRelayGoes == Relays!MarkedRelayGoes
\* No change of the settings or the key is lost on the client's loop (HubClient).
StaleTunnelEnds == Client!StaleTunnelEnds
\* A PC with a Hub and a password gets its tunnel tried (HubClient).
ConfigIsTried == Client!ConfigIsTried
\* Held frames leave (ResumableConn).
HeldDrains == Pages!HeldDrains

=============================================================================
