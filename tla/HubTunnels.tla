----------------------------- MODULE HubTunnels -----------------------------
(***************************************************************************)
(* The Hub's side of a PC's tunnel: the handshake tasks of                 *)
(* hub/src/tunnel.rs, the registry of hub/src/state.rs they fight over,    *)
(* the operator's blocklist (hub/src/blocklist.rs) and the daily byte      *)
(* budget a tunnel carries.                                                *)
(*                                                                         *)
(* A member of Conn is one tunnel connection and the task `run` serving    *)
(* it.  Tasks interleave at every lock they take and at every await, so    *)
(* each critical section of `run` is an action of its own.  Tunnel ids are *)
(* never reused in the code; here a member of Conn serves a new connection *)
(* only when nothing holds the old one any more (Unreferenced).            *)
(***************************************************************************)
EXTENDS Integers, FiniteSets

CONSTANTS
    Uuid,        \* the PCs, each named by the uuid its device key derives to
    Conn,        \* tunnel connections that may exist at once
    None,        \* no tunnel, no uuid
    MaxTunnels,  \* config max_tunnels
    Misses,      \* MISSES: heartbeats a PC may leave unanswered
    BytesPerDay, \* config bytes_per_day_per_tunnel, 0 switches the budget off
    Listable,    \* bound: the uuids the operator's file may name
    MaxFrame,    \* bound: the largest frame, in units of bytes
    MaxDay,      \* bound: days the run may see
    MaxLate      \* bound: spenders of one tunnel that midnight finds between the
                 \* clock and the budget's lock

ASSUME UuidAssumption == IsFiniteSet(Uuid)
ASSUME ListableAssumption == Listable \subseteq Uuid
ASSUME NoneAssumption == None \notin Conn \cup Uuid
ASSUME LimitAssumption ==
    /\ MaxTunnels \in Nat
    /\ Misses \in Nat \ {0}
    /\ BytesPerDay \in Nat
    /\ MaxFrame \in Nat
    /\ MaxDay \in Nat
    /\ MaxLate \in Nat

VARIABLES
    tunnels,    \* Hub.tunnels: the registered tunnel of each uuid
    pc,         \* where each connection's task stands
    uuid,       \* the uuid each connection proved it owns
    displaced,  \* the tunnel a registration pushed out, until it is told
    replaced,   \* T_REPLACED is in the tunnel's writer queue
    killed,     \* Tunnel.killed holds a permit
    missed,     \* heartbeats unanswered so far
    silent,     \* the PC is gone and no FIN will ever say so
    file,       \* the uuids in the operator's blocklist file
    held,       \* lists read before the file's last edit that a refresh under way may
                \* still store, or has stored since
    blocklist,  \* Blocklist.set, the cached copy of the file
    tick,       \* the 30 s pass: between two passes, or past its refresh
    doomed,     \* the tunnels enforce_blocklist collected and has yet to kill
    budget,     \* Tunnel.budget
    today,      \* the UTC day
    late,       \* spenders of each tunnel that read an earlier day off the clock and
                \* have yet to take the budget's lock
    relayed,    \* history: bytes each tunnel carried on today's account
    strays,     \* history: spends of each tunnel today on an earlier day's account
    linkTotal   \* history: bytes each link carried on today's account, over its tunnels

registry == <<tunnels, displaced, replaced>>
blocking == <<file, held, blocklist, tick, doomed>>
bytes    == <<budget, today, late, relayed, strays, linkTotal>>
vars == <<registry, pc, uuid, killed, missed, silent, blocking, bytes>>

\* The states of one task: no connection; the signature verified; the
\* blocklist refreshed; past it; the tunnel built; registered; serving; out of
\* the loop.
Phase == {"idle", "verified", "refreshed", "checked", "built", "admitted", "pump", "leaving"}

\* The phases in which a task may own an entry of the registry.
Owning == {"admitted", "pump", "leaving"}

Budget == [day: 0..MaxDay, left: 0..BytesPerDay]

TypeOK ==
    /\ tunnels \in [Uuid -> Conn \cup {None}]
    /\ pc \in [Conn -> Phase]
    /\ uuid \in [Conn -> Uuid \cup {None}]
    /\ displaced \in [Conn -> Conn \cup {None}]
    /\ replaced \in [Conn -> BOOLEAN]
    /\ killed \in [Conn -> BOOLEAN]
    /\ missed \in [Conn -> 0..Misses]
    /\ silent \in [Conn -> BOOLEAN]
    /\ file \in SUBSET Uuid
    /\ held \in SUBSET (SUBSET Uuid)
    /\ blocklist \in SUBSET Uuid
    /\ tick \in {"rest", "look"}
    /\ doomed \in SUBSET Conn
    /\ budget \in [Conn -> Budget]
    /\ today \in 0..MaxDay
    /\ late \in [Conn -> [0..MaxDay -> 0..MaxLate]]
    /\ relayed \in [Conn -> Nat]
    /\ strays \in [Conn -> Nat]
    /\ linkTotal \in [Uuid -> 0..BytesPerDay + 1]

Registered == {u \in Uuid : tunnels[u] # None}

NobodyLate == [d \in 0..MaxDay |-> 0]

Init ==
    /\ tunnels = [u \in Uuid |-> None]
    /\ pc = [c \in Conn |-> "idle"]
    /\ uuid = [c \in Conn |-> None]
    /\ displaced = [c \in Conn |-> None]
    /\ replaced = [c \in Conn |-> FALSE]
    /\ killed = [c \in Conn |-> FALSE]
    /\ missed = [c \in Conn |-> 0]
    /\ silent = [c \in Conn |-> FALSE]
    /\ file = {}
    /\ held = {}
    /\ blocklist = {}
    /\ tick = "rest"
    /\ doomed = {}
    /\ budget = [c \in Conn |-> [day |-> 0, left |-> 0]]
    /\ today = 0
    /\ late = [c \in Conn |-> NobodyLate]
    /\ relayed = [c \in Conn |-> 0]
    /\ strays = [c \in Conn |-> 0]
    /\ linkTotal = [u \in Uuid |-> 0]

-----------------------------------------------------------------------------
(* The handshake *)

\* The task returns, and its locals go with it.
Return(c) ==
    /\ pc' = [pc EXCEPT ![c] = "idle"]
    /\ uuid' = [uuid EXCEPT ![c] = None]
    /\ missed' = [missed EXCEPT ![c] = 0]
    /\ silent' = [silent EXCEPT ![c] = FALSE]

GoOn(c, next) ==
    /\ pc' = [pc EXCEPT ![c] = next]
    /\ UNCHANGED <<uuid, missed, silent>>

\* No task, registry entry or pending kill still holds the tunnel.
Unreferenced(c) ==
    /\ pc[c] = "idle"
    /\ c \notin doomed
    /\ \A d \in Conn : displaced[d] # c

\* T_HELLO, T_CHALLENGE and T_AUTH were exchanged and the signature proves
\* that this connection owns u.  A refusal on the way touches no shared state.
Handshake(c, u) ==
    /\ Unreferenced(c)
    /\ pc' = [pc EXCEPT ![c] = "verified"]
    /\ uuid' = [uuid EXCEPT ![c] = u]
    /\ replaced' = [replaced EXCEPT ![c] = FALSE]
    /\ killed' = [killed EXCEPT ![c] = FALSE]
    /\ relayed' = [relayed EXCEPT ![c] = 0]
    /\ strays' = [strays EXCEPT ![c] = 0]
    /\ UNCHANGED <<tunnels, displaced, missed, silent, blocking, budget, today, late, linkTotal>>

\* What one Blocklist::refresh may leave in the cached set: what was there (the
\* stamp said "unchanged", or the file could not be read), the file's list, or
\* one that was read before the last edit and is stored after it.  Blocklist
\* has the steps this stands for.
RefreshBlocklist(list) ==
    /\ list \in {blocklist, file} \cup held
    /\ blocklist' = list

\* The handshake refreshes first.
RefreshFirst(c, list) ==
    /\ pc[c] = "verified"
    /\ RefreshBlocklist(list)
    /\ GoOn(c, "refreshed")
    /\ UNCHANGED <<registry, killed, file, held, tick, doomed, bytes>>

\* A listed uuid is refused with `banned`, on the list as it is by now.
CheckBlocklist(c) ==
    /\ pc[c] = "refreshed"
    /\ IF uuid[c] \in blocklist THEN Return(c) ELSE GoOn(c, "checked")
    /\ UNCHANGED <<registry, killed, blocking, bytes>>

\* Hub::new_tunnel: the allowance of the tunnel registered at this moment
\* crosses over, a link with no tunnel starts with the day's full one.
BuildTunnel(c) ==
    /\ pc[c] = "checked"
    /\ pc' = [pc EXCEPT ![c] = "built"]
    /\ LET old == tunnels[uuid[c]]
       IN  budget' = [budget EXCEPT ![c] =
                         IF old # None THEN budget[old]
                         ELSE [day |-> today, left |-> BytesPerDay]]
    /\ UNCHANGED <<registry, uuid, killed, missed, silent, blocking>>
    /\ UNCHANGED <<today, late, relayed, strays, linkTotal>>

\* Mutant: the ceiling compared one too late.
AtCapacityLate(u) == tunnels[u] = None /\ Cardinality(Registered) > MaxTunnels

\* Hub::register_within_limit: the ceiling counts distinct PCs; the check and
\* the insert are one critical section.
AtCapacity(u) == tunnels[u] = None /\ Cardinality(Registered) >= MaxTunnels

Register(c) ==
    /\ pc[c] = "built"
    /\ \/ /\ AtCapacity(uuid[c])
          /\ Return(c)
          /\ UNCHANGED <<tunnels, displaced>>
       \/ /\ ~AtCapacity(uuid[c])
          /\ GoOn(c, "admitted")
          /\ tunnels' = [tunnels EXCEPT ![uuid[c]] = c]
          /\ displaced' = [displaced EXCEPT ![c] = tunnels[uuid[c]]]
    /\ UNCHANGED <<replaced, killed, blocking, bytes>>

\* Mutant: the old tunnel's browsers are closed, the old PC is not told.
DisplaceSilently(c) ==
    /\ pc[c] = "admitted"
    /\ displaced[c] # None
    /\ displaced' = [displaced EXCEPT ![c] = None]
    /\ UNCHANGED <<tunnels, replaced, pc, uuid, killed, missed, silent, blocking, bytes>>

\* The newcomer tells the tunnel it pushed out, through that tunnel's writer.
Displace(c) ==
    /\ pc[c] = "admitted"
    /\ displaced[c] # None
    /\ replaced' = [replaced EXCEPT ![displaced[c]] = TRUE]
    /\ displaced' = [displaced EXCEPT ![c] = None]
    /\ UNCHANGED <<tunnels, pc, uuid, killed, missed, silent, blocking, bytes>>

\* Mutant: a failed T_READY returns without unregistering.
SendReadyLeaks(c) ==
    /\ pc[c] = "admitted"
    /\ displaced[c] = None
    /\ GoOn(c, "pump") \/ Return(c)
    /\ UNCHANGED <<registry, killed, blocking, bytes>>

\* T_READY leaves after the registration; a dead socket sends the task
\* straight to the exit path.
SendReady(c) ==
    /\ pc[c] = "admitted"
    /\ displaced[c] = None
    /\ \E next \in {"pump", "leaving"} : pc' = [pc EXCEPT ![c] = next]
    /\ UNCHANGED <<registry, uuid, killed, missed, silent, blocking, bytes>>

-----------------------------------------------------------------------------
(* The daily budget *)

\* `spend` reads the day off the clock before it takes the budget's lock, and
\* midnight may fall in between: the days a spender may charge to.
DayRead(c) == {today} \cup {d \in 0..MaxDay : late[c][d] > 0}

\* What is left on day d: a day that is not the budget's, later or earlier,
\* refills it.
LeftOn(c, d) == IF budget[c].day = d THEN budget[c].left ELSE BytesPerDay

Fits(c, d, n) == BytesPerDay = 0 \/ n <= LeftOn(c, d)

\* A spend that does not fit deducts nothing.
Taken(c, d, n) == IF n <= LeftOn(c, d) THEN n ELSE 0

\* The link's history stops counting once it is past the allowance.
Carried(sum, n) == IF sum + n > BytesPerDay THEN BytesPerDay + 1 ELSE sum + n

\* The spender has charged; the histories follow the day it charged to.
Account(c, d, n) ==
    IF d = today
    THEN /\ relayed' = [relayed EXCEPT ![c] = @ + n]
         /\ linkTotal' = [linkTotal EXCEPT ![uuid[c]] = Carried(@, n)]
         /\ UNCHANGED <<late, strays>>
    ELSE /\ late' = [late EXCEPT ![c][d] = @ - 1]
         /\ strays' = [strays EXCEPT ![c] = @ + 1]
         /\ UNCHANGED <<relayed, linkTotal>>

\* Mutant: the refill forgets to stamp the new day.
SpendUnstamped(c, d, n) ==
    IF BytesPerDay = 0 THEN UNCHANGED <<budget, late, relayed, strays, linkTotal>>
    ELSE /\ budget' = [budget EXCEPT ![c].left = LeftOn(c, d) - Taken(c, d, n)]
         /\ Account(c, d, Taken(c, d, n))

\* Tunnel::spend_on_day, charging n bytes to the day the spender read.
SpendOnDay(c, d, n) ==
    IF BytesPerDay = 0 THEN UNCHANGED <<budget, late, relayed, strays, linkTotal>>
    ELSE /\ budget' = [budget EXCEPT ![c] = [day |-> d, left |-> LeftOn(c, d) - Taken(c, d, n)]]
         /\ Account(c, d, Taken(c, d, n))

-----------------------------------------------------------------------------
(* The serving loop: what its select! may wake on *)

\* A message from the PC that spends nothing: a pong, a credential, a close.
Hear(c) ==
    /\ pc[c] = "pump"
    /\ ~silent[c]
    /\ missed' = [missed EXCEPT ![c] = 0]
    /\ UNCHANGED <<registry, pc, uuid, killed, silent, blocking, bytes>>

\* A session frame from the PC is spent before it is delivered; one that does
\* not fit stops the tunnel.
RouteFrame(c, d, n) ==
    /\ pc[c] = "pump"
    /\ ~silent[c]
    /\ d \in DayRead(c)
    /\ missed' = [missed EXCEPT ![c] = 0]
    /\ SpendOnDay(c, d, n)
    /\ pc' = [pc EXCEPT ![c] = IF Fits(c, d, n) THEN "pump" ELSE "leaving"]
    /\ UNCHANGED <<registry, uuid, killed, silent, blocking, today>>

\* A browser that found the tunnel in the registry spends on it as well, also
\* after a newcomer took its place; a refused spend only ends that browser.
BrowserSpends(c, d, n) ==
    /\ pc[c] \in Owning
    /\ d \in DayRead(c)
    /\ SpendOnDay(c, d, n)
    /\ UNCHANGED <<registry, pc, uuid, killed, missed, silent, blocking, today>>

\* The PC closed the socket, or it failed.
StreamEnd(c) ==
    /\ pc[c] = "pump"
    /\ pc' = [pc EXCEPT ![c] = "leaving"]
    /\ UNCHANGED <<registry, uuid, killed, missed, silent, blocking, bytes>>

\* The daemon closes its end on T_REPLACED.
HearReplaced(c) == replaced[c] /\ ~silent[c] /\ StreamEnd(c)

\* Mutant: the limit compared one too late.
BeatLate(c) ==
    /\ pc[c] = "pump"
    /\ missed' = [missed EXCEPT ![c] = @ + 1]
    /\ pc' = [pc EXCEPT ![c] = IF missed[c] + 1 > Misses THEN "leaving" ELSE "pump"]
    /\ UNCHANGED <<registry, uuid, killed, silent, blocking, bytes>>

\* Mutant: the ping itself counts as a sign of life.
BeatForgets(c) ==
    /\ pc[c] = "pump"
    /\ missed' = [missed EXCEPT ![c] = 0]
    /\ UNCHANGED <<registry, pc, uuid, killed, silent, blocking, bytes>>

\* The heartbeat: the third unanswered one, or a failed send, ends the loop.
Beat(c) ==
    /\ pc[c] = "pump"
    /\ missed' = [missed EXCEPT ![c] = @ + 1]
    /\ \/ /\ missed[c] + 1 >= Misses
          /\ pc' = [pc EXCEPT ![c] = "leaving"]
       \/ /\ missed[c] + 1 < Misses
          /\ \E next \in {"pump", "leaving"} : pc' = [pc EXCEPT ![c] = next]
    /\ UNCHANGED <<registry, uuid, killed, silent, blocking, bytes>>

\* The blocklist's kill: the stored permit is consumed.
HearKill(c) ==
    /\ pc[c] = "pump"
    /\ killed[c]
    /\ killed' = [killed EXCEPT ![c] = FALSE]
    /\ pc' = [pc EXCEPT ![c] = "leaving"]
    /\ UNCHANGED <<registry, uuid, missed, silent, blocking, bytes>>

\* Mutant: the entry of the uuid goes, whoever holds it now.
UnregisterBlindly(c) ==
    /\ pc[c] = "leaving"
    /\ tunnels' = [tunnels EXCEPT ![uuid[c]] = None]
    /\ Return(c)
    /\ late' = [late EXCEPT ![c] = NobodyLate]
    /\ UNCHANGED <<displaced, replaced, killed, blocking, budget, today, relayed, strays, linkTotal>>

\* Hub::unregister and the rest of the exit path: the entry goes only when it
\* is still this tunnel's.  Who still spends on a tunnel that ended is of no
\* account.
Unregister(c) ==
    /\ pc[c] = "leaving"
    /\ tunnels' = [tunnels EXCEPT ![uuid[c]] = IF @ = c THEN None ELSE @]
    /\ Return(c)
    /\ late' = [late EXCEPT ![c] = NobodyLate]
    /\ UNCHANGED <<displaced, replaced, killed, blocking, budget, today, relayed, strays, linkTotal>>

-----------------------------------------------------------------------------
(* The operator, the network and the clock *)

\* Mutant: a refresh that changed nothing ends the pass.
TickWhenRead(list) ==
    /\ tick = "rest" /\ doomed = {}
    /\ RefreshBlocklist(list)
    /\ tick' = IF list # blocklist THEN "look" ELSE "rest"
    /\ UNCHANGED <<registry, pc, uuid, killed, missed, silent, file, held, doomed, bytes>>

\* enforce_blocklist, every 30 s: its refresh.
TickRefresh(list) ==
    /\ tick = "rest" /\ doomed = {}
    /\ RefreshBlocklist(list)
    /\ tick' = "look"
    /\ UNCHANGED <<registry, pc, uuid, killed, missed, silent, file, held, doomed, bytes>>

\* Its look at the registry, on the list as it is by now.
Enforce ==
    /\ tick = "look"
    /\ tick' = "rest"
    /\ doomed' = {tunnels[u] : u \in Registered \cap blocklist}
    /\ UNCHANGED <<registry, pc, uuid, killed, missed, silent, file, held, blocklist, bytes>>

\* The rest of the pass, outside the registry's lock: Tunnel::kill.
Kill(c) ==
    /\ c \in doomed
    /\ killed' = [killed EXCEPT ![c] = TRUE]
    /\ doomed' = doomed \ {c}
    /\ UNCHANGED <<registry, pc, uuid, missed, silent, file, held, blocklist, tick, bytes>>

\* The operator edits the file.  The edit may fall between some refreshers'
\* read and their store, and finds no more old lists in flight than these.
EditBlocklist(list) ==
    /\ file' = list
    /\ held' \in SUBSET (held \cup {file})
    /\ UNCHANGED <<registry, pc, uuid, killed, missed, silent, blocklist, tick, doomed, bytes>>

\* The PC drops off the network without a word; dropping off before the loop
\* starts shows no earlier than in it.
Vanish(c) ==
    /\ pc[c] = "pump"
    /\ silent' = [silent EXCEPT ![c] = TRUE]
    /\ UNCHANGED <<registry, pc, uuid, killed, missed, blocking, bytes>>

\* Midnight, UTC: some spenders of the tunnels in use have read the old day.
NextDay ==
    /\ today < MaxDay
    /\ today' = today + 1
    /\ \E n \in [Conn -> 0..MaxLate] :
        /\ \A c \in Conn : pc[c] \notin Owning => n[c] = 0
        /\ late' = [c \in Conn |-> [late[c] EXCEPT ![today] = n[c]]]
    /\ relayed' = [c \in Conn |-> 0]
    /\ strays' = [c \in Conn |-> 0]
    /\ linkTotal' = [u \in Uuid |-> 0]
    /\ UNCHANGED <<registry, pc, uuid, killed, missed, silent, blocking, budget>>

-----------------------------------------------------------------------------

Step(c) ==
    \/ \E list \in SUBSET Uuid : RefreshFirst(c, list)
    \/ CheckBlocklist(c)
    \/ BuildTunnel(c)
    \/ Register(c)
    \/ Displace(c)
    \/ SendReady(c)
    \/ Hear(c)
    \/ \E d \in 0..MaxDay, n \in 1..MaxFrame : RouteFrame(c, d, n) \/ BrowserSpends(c, d, n)
    \/ StreamEnd(c)
    \/ Beat(c)
    \/ HearKill(c)
    \/ Unregister(c)

Next ==
    \/ \E c \in Conn, u \in Uuid : Handshake(c, u)
    \/ \E c \in Conn : Step(c) \/ Kill(c) \/ Vanish(c)
    \/ Enforce
    \/ \E list \in SUBSET Uuid : TickRefresh(list)
    \/ \E list \in SUBSET Listable : EditBlocklist(list)
    \/ NextDay

Spec == Init /\ [][Next]_vars

\* The runtime polls every task that can move; the timers fire; the daemon
\* hangs up when told it was replaced; the blocklist file is not unreadable
\* for ever.  That a pass enforces the file's own list is only owed while no
\* old list is in flight (Blocklist's runs and theorem).
Fairness ==
    /\ \A c \in Conn :
        /\ WF_vars(\E list \in SUBSET Uuid : RefreshFirst(c, list))
        /\ WF_vars(CheckBlocklist(c))
        /\ WF_vars(BuildTunnel(c))
        /\ WF_vars(Register(c))
        /\ WF_vars(Displace(c))
        /\ WF_vars(SendReady(c))
        /\ WF_vars(HearReplaced(c))
        /\ WF_vars(Beat(c))
        /\ WF_vars(HearKill(c))
        /\ WF_vars(Unregister(c))
        /\ WF_vars(Kill(c))
    /\ SF_vars(held = {} /\ TickRefresh(file))
    /\ WF_vars(Enforce)

FairSpec == Spec /\ Fairness

-----------------------------------------------------------------------------
(* Safety *)

\* max_tunnels is a ceiling on the PCs online, however handshakes interleave.
CapacityRespected == Cardinality(Registered) <= MaxTunnels

\* An entry of the registry belongs to a task that still runs and that proved
\* it owns that uuid: no exit path leaves a dead registration behind.
RegisteredIsLive ==
    \A u \in Uuid : tunnels[u] # None =>
        pc[tunnels[u]] \in Owning /\ uuid[tunnels[u]] = u

\* A task that serves its PC is the registered one, or was told it was
\* replaced, or is about to be: no connection is cut off from its browsers in
\* silence, and no exit of an old tunnel takes its successor off the table.
ServingIsKnown ==
    \A c \in Conn : pc[c] \in {"admitted", "pump"} =>
        \/ tunnels[uuid[c]] = c
        \/ replaced[c]
        \/ \E d \in Conn : displaced[d] = c

\* One tunnel carries no more than a day's allowance on a day's account, plus
\* one for each spend that read the clock before midnight and the budget after
\* it: such a spend sets the budget's day back, and the next one refills it.
\* Nothing else refills, a budget inherited from yesterday included.
TunnelBudget ==
    BytesPerDay > 0 => \A c \in Conn : relayed[c] <= BytesPerDay * (1 + strays[c])

\* What the comment on new_tunnel and the test beside it promise of the link
\* as a whole: reconnecting never yields a fresh allowance.
LinkBudget ==
    BytesPerDay > 0 => \A u \in Uuid : linkTotal[u] <= BytesPerDay

\* A PC goes off the air only by the exit of the very connection that was its
\* registered tunnel.
OfflineByOwnExit ==
    [][\A u \in Uuid : tunnels[u] # None /\ tunnels'[u] = None =>
          pc[tunnels[u]] = "leaving" /\ pc'[tunnels[u]] = "idle"]_vars

-----------------------------------------------------------------------------
(* Liveness *)

\* A PC that vanished without a FIN leaves the registry, by the heartbeat.
VanishedIsDropped ==
    \A c \in Conn : (pc[c] = "pump" /\ silent[c]) ~> pc[c] = "idle"

\* A tunnel that lost its place to a newer one ends.
ReplacedUnwinds ==
    \A c \in Conn :
        (pc[c] = "pump" /\ tunnels[uuid[c]] # c) ~> pc[c] = "idle"

\* A PC that stays on the operator's list goes off the air and stays off, a
\* handshake already past the check included, unless the last edit crossed a
\* refresh under way: then the old list may be stored over the new one, and
\* stay (Blocklist!EditTakesEffect and its run).
BlockedGoesOffAir ==
    \A u \in Uuid :
        <>[](u \in file) /\ <>[](held = {}) => <>[](tunnels[u] = None)

=============================================================================
