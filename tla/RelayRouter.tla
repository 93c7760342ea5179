---------------------------- MODULE RelayRouter ----------------------------
(***************************************************************************)
(* The daemon's instances and their relays: the registry (registry.rs),    *)
(* the control connections (control.rs), the router that binds browser     *)
(* connections to instances (router.rs), the relay links (relay_link.rs),  *)
(* and the application's end of them (src-tauri/src/remote_host.rs).       *)
(*                                                                         *)
(* The daemon's tasks run on one thread: what lies between two awaits is   *)
(* one action.  A token names the webview that gets it and the link that   *)
(* webview opens; tokens and serials are fresh in the code, here they are  *)
(* taken again once nothing holds them.                                    *)
(***************************************************************************)
EXTENDS Naturals, FiniteSets, Sequences, SequencesExt

CONSTANTS
    Conn,     \* browser connections
    Instance, \* instance ids
    Job,      \* tasks that serve an ATTACH
    Token,    \* one-time relay tokens
    Serial,   \* serials of the control connections
    None,
    MaxQueue  \* bound: messages on their way to an instance

ASSUME FiniteAssumption == IsFiniteSet(Conn)
ASSUME QueueAssumption == MaxQueue \in Nat

VARIABLES
    known,   \* Daemon.conns
    bound,   \* Conn.instance; history: the registration it was bound under
    job,     \* the tasks that serve an ATTACH
    entry,   \* Registry.instances
    serving, \* the control connections serve_instance still reads, by instance
    ctl,     \* messages on their way to the application, per control connection
    control, \* the application's control connection
    gate,    \* Link.sessions; history: whether this connection has told it
    webview, \* the application's relay webview, by its token
    link     \* the relay link of each token

daemonVars == <<known, bound, job, entry>>
appVars == <<control, gate, webview>>
vars == <<daemonVars, serving, ctl, appVars, link>>

Binding == [inst : Instance, serial : Serial]
Entry ==
    [serial : Serial, relay : Token \cup {None}, token : Token \cup {None}, idle : BOOLEAN,
     sessions : 0..Cardinality(Conn), late : BOOLEAN]
ASSUME NoneAssumption == None \notin Conn \cup Instance \cup Token \cup Serial \cup Binding \cup Entry

Ensure(t) == [kind |-> "ensure", token |-> t]
Drop == [kind |-> "drop"]
Sessions(n) == [kind |-> "sessions", count |-> n]
Message == {Ensure(t) : t \in Token} \cup {Drop} \cup {Sessions(n) : n \in 0..Cardinality(Conn)}

TypeOK ==
    /\ known \subseteq Conn
    /\ bound \in [Conn -> Binding \cup {None}]
    /\ job \in [Job -> [st : {"none", "asked", "waiting"}, conn : Conn \cup {None},
                        inst : Instance \cup {None}, serial : Serial \cup {None}, left : BOOLEAN]]
    /\ entry \in [Instance -> Entry \cup {None}]
    /\ serving \in [Serial -> Instance \cup {None}]
    /\ ctl \in [Serial -> Seq(Message)]
    /\ control \in [Instance -> Serial \cup {None}]
    /\ gate \in [Instance -> [count : 0..Cardinality(Conn), told : BOOLEAN]]
    /\ webview \in [Instance -> Token \cup {None}]
    /\ link \in [Token -> [st : {"none", "page", "claimed", "up"}, inst : Instance \cup {None}]]

NoJob == [st |-> "none", conn |-> None, inst |-> None, serial |-> None, left |-> FALSE]
NoLink == [st |-> "none", inst |-> None]

\* The daemon has started; no instance has found it yet.
Init ==
    /\ known = {}
    /\ bound = [c \in Conn |-> None]
    /\ job = [j \in Job |-> NoJob]
    /\ entry = [i \in Instance |-> None]
    /\ serving = [s \in Serial |-> None]
    /\ ctl = [s \in Serial |-> <<>>]
    /\ control = [i \in Instance |-> None]
    /\ gate = [i \in Instance |-> [count |-> 0, told |-> FALSE]]
    /\ webview = [i \in Instance |-> None]
    /\ link = [t \in Token |-> NoLink]

-----------------------------------------------------------------------------
(* The router's helpers, on the state they leave behind *)

\* The connections of Daemon.conns that are bound to i.
Attached(kn, bnd, i) == {c \in kn : bnd[c] # None /\ bnd[c].inst = i}

\* Mutant: the window's own page is counted with the remote ones.
CountWithOwn(kn, bnd, i) == Cardinality(Attached(kn, bnd, i)) + 1

Count(kn, bnd, i) == Cardinality(Attached(kn, bnd, i))

\* A message for the instance goes to the control connection of its entry.
Queue(messages) ==
    [s \in Serial |->
       ctl[s] \o (IF \E i \in Instance : entry[i] # None /\ entry[i].serial = s
                  THEN messages[CHOOSE i \in Instance : entry[i] # None /\ entry[i].serial = s]
                  ELSE <<>>)]

\* Mutant: the delta runs over the instances that have sessions.
CountMessagesOfSome(kn, bnd) ==
    [i \in Instance |->
       IF entry[i] # None /\ entry[i].sessions # Count(kn, bnd, i) /\ Count(kn, bnd, i) > 0
       THEN <<Sessions(Count(kn, bnd, i))>> ELSE <<>>]

\* refresh_session_counts tells each instance whose count changed.
CountMessages(kn, bnd) ==
    [i \in Instance |->
       IF entry[i] # None /\ entry[i].sessions # Count(kn, bnd, i)
       THEN <<Sessions(Count(kn, bnd, i))>> ELSE <<>>]

\* refresh_session_counts writes the counts, and marks the relays without a
\* session.
Counted(kn, bnd) ==
    [i \in Instance |->
       IF entry[i] = None THEN None
       ELSE [entry[i] EXCEPT !.sessions = Count(kn, bnd, i),
                             !.idle = Count(kn, bnd, i) = 0 /\ (@ \/ entry[i].relay # None)]]

Refresh(kn, bnd) == entry' = Counted(kn, bnd) /\ ctl' = Queue(CountMessages(kn, bnd))

\* The bound on what is on its way.
Bounded == \A s \in Serial : Len(ctl'[s]) <= MaxQueue

\* A token nothing remembers.
Unused(t) ==
    /\ link[t] = NoLink
    /\ \A i \in Instance : webview[i] # t /\ (entry[i] # None => t \notin {entry[i].relay, entry[i].token})
    /\ \A s \in Serial, n \in 1..MaxQueue : n \in DOMAIN ctl[s] => ctl[s][n] # Ensure(t)

\* ensure_relay on an entry: the mark goes, and unless a relay is connected or
\* asked for a token is issued; <<entry, messages>>, one for each free token.
Ensured(e) ==
    IF e.relay = None /\ e.token = None
    THEN {<<[e EXCEPT !.idle = FALSE, !.token = t], <<Ensure(t)>>>> : t \in {u \in Token : Unused(u)}}
    ELSE {<<[e EXCEPT !.idle = FALSE], <<>>>>}

-----------------------------------------------------------------------------
(* Browser connections *)

\* A connection is made (its number is new).
Hello(c) ==
    /\ c \notin known /\ \A j \in Job : job[j].conn # c
    /\ known' = known \cup {c}
    /\ bound' = [bound EXCEPT ![c] = None]
    /\ UNCHANGED <<job, entry, serving, ctl, appVars, link>>

\* ATTACH: a task of its own serves it.
Ask(j, c, i) ==
    /\ job[j].st = "none" /\ c \in known
    /\ job' = [job EXCEPT ![j] = [NoJob EXCEPT !.st = "asked", !.conn = c, !.inst = i]]
    /\ UNCHANGED <<known, bound, entry, serving, ctl, appVars, link>>

Unbind(c) == [bound EXCEPT ![c] = None]

\* attach, up to its await: the connection leaves another instance, is bound,
\* and the relay asked for; with the relay up, ATTACHED goes out at once.
Attach(j) ==
    /\ job[j].st = "asked"
    /\ LET c == job[j].conn
           i == job[j].inst
       IN IF entry[i] = None
          THEN /\ IF bound[c] # None /\ bound[c].inst # i
                  THEN bound' = Unbind(c) /\ Refresh(known, Unbind(c)) ELSE UNCHANGED <<bound, entry, ctl>>
               /\ job' = [job EXCEPT ![j] = NoJob]
          ELSE LET bnd == [bound EXCEPT ![c] = [inst |-> i, serial |-> entry[i].serial]]
                   counted == Counted(known, bnd)
                   told == CountMessages(known, bnd)
               IN \E r \in Ensured(counted[i]) :
                    /\ bound' = bnd
                    /\ entry' = [counted EXCEPT ![i] = r[1]]
                    /\ ctl' = Queue([told EXCEPT ![i] = @ \o r[2]])
                    /\ job' = [k \in Job |->
                         IF k = j
                         THEN IF entry[i].relay # None THEN NoJob
                              ELSE [job[j] EXCEPT !.st = "waiting", !.serial = entry[i].serial]
                         ELSE IF job[k].conn = c /\ job[k].inst # i
                              THEN [job[k] EXCEPT !.left = TRUE] ELSE job[k]]
    /\ Bounded
    /\ UNCHANGED <<known, serving, appVars, link>>

\* The watch the task subscribed to is that of the entry, which is still there.
Watches(j) == LET e == entry[job[j].inst] IN e # None /\ e.serial = job[j].serial

\* The relay is up: ATTACHED.
AttachOk(j) ==
    /\ job[j].st = "waiting" /\ Watches(j) /\ entry[job[j].inst].relay # None
    /\ job' = [job EXCEPT ![j] = NoJob]
    /\ UNCHANGED <<known, bound, entry, serving, ctl, appVars, link>>

\* RELAY_WAIT has passed, or the entry with its watch is gone: the binding is
\* undone, whichever it is by now.
AttachFails(j) ==
    /\ job[j].st = "waiting" /\ ~(Watches(j) /\ entry[job[j].inst].relay # None)
    /\ LET bnd == [bound EXCEPT ![job[j].conn] = None]
       IN bound' = bnd /\ Refresh(known, bnd)
    /\ job' = [job EXCEPT ![j] = NoJob]
    /\ Bounded
    /\ UNCHANGED <<known, serving, appVars, link>>

Leave(c) == [j \in Job |-> IF job[j].conn = c THEN [job[j] EXCEPT !.left = TRUE] ELSE job[j]]

\* DETACH.
Detach(c) ==
    /\ c \in known /\ bound[c] # None
    /\ bound' = Unbind(c)
    /\ Refresh(known, Unbind(c))
    /\ job' = Leave(c)
    /\ Bounded
    /\ UNCHANGED <<known, serving, appVars, link>>

\* end_conn: the resume window has passed, a logout, a kick; a connection that
\* is bound is detached first.
EndConn(c) ==
    /\ c \in known
    /\ known' = known \ {c}
    /\ bound' = Unbind(c)
    /\ IF bound[c] # None THEN Refresh(known', Unbind(c)) ELSE UNCHANGED <<entry, ctl>>
    /\ job' = Leave(c)
    /\ Bounded
    /\ UNCHANGED <<serving, appVars, link>>

-----------------------------------------------------------------------------
(* Control connections *)

NewEntry(s) ==
    [serial |-> s, relay |-> None, token |-> None, idle |-> FALSE, sessions |-> 0, late |-> FALSE]

\* A serial nothing remembers.
Fresh(s) ==
    /\ serving[s] = None
    /\ \A i \in Instance : control[i] # s /\ (entry[i] # None => entry[i].serial # s)
    /\ \A j \in Job : job[j].serial # s
    /\ \A c \in Conn : bound[c] # None => bound[c].serial # s

\* The application connects and registers; an entry of its id is replaced.
Register(i) ==
    /\ control[i] = None
    /\ \E s \in Serial :
         /\ Fresh(s)
         /\ control' = [control EXCEPT ![i] = s]
         /\ serving' = [serving EXCEPT ![s] = i]
         /\ entry' = [entry EXCEPT ![i] = NewEntry(s)]
    /\ UNCHANGED <<known, bound, job, ctl, gate, webview, link>>

\* The control connection breaks, or the application ends: its relay webview
\* is destroyed, the count stays as it was.
ControlBreaks(i) ==
    /\ control[i] # None
    /\ control' = [control EXCEPT ![i] = None]
    /\ webview' = [webview EXCEPT ![i] = None]
    /\ gate' = [gate EXCEPT ![i].told = FALSE]
    /\ UNCHANGED <<daemonVars, serving, ctl, link>>

\* Mutant: the entry goes, its connections keep their binding.
ControlEndsQuietly(s) ==
    /\ serving[s] # None /\ control[serving[s]] # s
    /\ LET i == serving[s]
       IN entry' = IF entry[i] # None /\ entry[i].serial = s THEN [entry EXCEPT ![i] = None] ELSE entry
    /\ serving' = [serving EXCEPT ![s] = None]
    /\ ctl' = [ctl EXCEPT ![s] = <<>>]
    /\ UNCHANGED <<known, bound, job, appVars, link>>

\* The daemon sees the connection's end: unregister by its own serial, and
\* instance_gone for the connections that were bound, which refreshes the
\* counts of the instances that remain.
ControlEnds(s) ==
    /\ serving[s] # None /\ control[serving[s]] # s
    /\ LET i == serving[s]
           own == entry[i] # None /\ entry[i].serial = s
           bnd == [c \in Conn |-> IF own /\ c \in Attached(known, bound, i) THEN None ELSE bound[c]]
       IN /\ bound' = bnd
          /\ entry' = IF own THEN [Counted(known, bnd) EXCEPT ![i] = None] ELSE entry
          /\ ctl' = [IF own THEN Queue(CountMessages(known, bnd)) ELSE ctl EXCEPT ![s] = <<>>]
    /\ serving' = [serving EXCEPT ![s] = None]
    /\ Bounded
    /\ UNCHANGED <<known, job, appVars, link>>

\* The application handles a message: EnsureRelay replaces the webview (and
\* the new page is on its way), DropRelay destroys it, Sessions is noted.
AppHandles(i) ==
    /\ control[i] # None /\ ctl[control[i]] # <<>>
    /\ LET s == control[i]
           m == Head(ctl[s])
       IN /\ ctl' = [ctl EXCEPT ![s] = Tail(@)]
          /\ webview' = CASE m.kind = "ensure" -> [webview EXCEPT ![i] = m.token]
                          [] m.kind = "drop" -> [webview EXCEPT ![i] = None]
                          [] OTHER -> webview
          /\ link' = IF m.kind = "ensure" THEN [link EXCEPT ![m.token] = [st |-> "page", inst |-> i]] ELSE link
          /\ gate' = IF m.kind = "sessions" THEN [gate EXCEPT ![i] = [count |-> m.count, told |-> TRUE]] ELSE gate
    /\ UNCHANGED <<daemonVars, serving, control>>

-----------------------------------------------------------------------------
(* Relay links *)

Alive(t) == webview[link[t].inst] = t

\* relay_handler: the token is consumed, or the page refused.
RelayConnects(t) ==
    /\ link[t].st = "page" /\ Alive(t)
    /\ LET i == link[t].inst
       IN IF entry[i] # None /\ entry[i].token = t /\ entry[i].relay = None
          THEN /\ entry' = [entry EXCEPT ![i].token = None]
               /\ link' = [link EXCEPT ![t].st = "claimed"]
          ELSE /\ link' = [link EXCEPT ![t] = NoLink]
               /\ UNCHANGED entry
    /\ UNCHANGED <<known, bound, job, serving, ctl, appVars>>

\* A page whose webview went before it connected.
PageGone(t) ==
    /\ link[t].st = "page" /\ ~Alive(t)
    /\ link' = [link EXCEPT ![t] = NoLink]
    /\ UNCHANGED <<daemonVars, serving, ctl, appVars>>

\* The upgrade is done: relay_up, which asks nobody which link was there.
RelayUp(t) ==
    /\ link[t].st = "claimed"
    /\ LET i == link[t].inst
       IN entry' = IF entry[i] # None THEN [entry EXCEPT ![i].relay = t, ![i].token = None] ELSE entry
    /\ link' = [link EXCEPT ![t].st = "up"]
    /\ UNCHANGED <<known, bound, job, serving, ctl, appVars>>

\* The upgrade fails: the page is gone.
UpgradeFails(t) ==
    /\ link[t].st = "claimed" /\ ~Alive(t)
    /\ link' = [link EXCEPT ![t] = NoLink]
    /\ UNCHANGED <<daemonVars, serving, ctl, appVars>>

\* Mutant: a relay's end asks for no other.
RelayEndsForGood(t) ==
    /\ link[t].st = "up"
    /\ LET i == link[t].inst
       IN entry' = IF entry[i] # None THEN [entry EXCEPT ![i].relay = None] ELSE entry
    /\ link' = [link EXCEPT ![t] = NoLink]
    /\ UNCHANGED <<known, bound, job, serving, ctl, appVars>>

\* The link's end: relay_down, which takes whatever relay the entry has and
\* asks for another one while connections are bound.
RelayEnds(t) ==
    /\ link[t].st = "up"
    /\ LET i == link[t].inst
           had == entry[i] # None /\ entry[i].relay # None
           gone == [entry[i] EXCEPT !.relay = None]
       IN IF ~had THEN UNCHANGED <<entry, ctl>>
          ELSE IF Attached(known, bound, i) = {}
          THEN entry' = [entry EXCEPT ![i] = gone] /\ UNCHANGED ctl
          ELSE \E r \in Ensured(gone) :
                 /\ entry' = [entry EXCEPT ![i] = r[1]]
                 /\ ctl' = Queue([k \in Instance |-> IF k = i THEN r[2] ELSE <<>>])
    /\ link' = [link EXCEPT ![t] = NoLink]
    /\ Bounded
    /\ UNCHANGED <<known, bound, job, serving, appVars>>

\* The webview is gone, or the daemon has dropped the link's sender.
Doomed(t) == link[t].st = "up" /\ (~Alive(t) \/ \A i \in Instance : entry[i] # None => entry[i].relay # t)

\* RELAY_TOKEN_TTL has passed.
TokenExpires(i) ==
    /\ entry[i] # None /\ entry[i].token # None
    /\ entry' = [entry EXCEPT ![i].token = None, ![i].late = TRUE]
    /\ UNCHANGED <<known, bound, job, serving, ctl, appVars, link>>

\* Mutant: the mark is taken, the application is not told.
LingerPassesUntold(i) ==
    /\ entry[i] # None /\ entry[i].idle
    /\ entry' = [entry EXCEPT ![i].idle = FALSE]
    /\ UNCHANGED <<known, bound, job, serving, ctl, appVars, link>>

\* drop_idle_relays: RELAY_LINGER has passed since the mark.
LingerPasses(i) ==
    /\ entry[i] # None /\ entry[i].idle
    /\ entry' = [entry EXCEPT ![i].idle = FALSE]
    /\ ctl' = Queue([k \in Instance |-> IF k = i THEN <<Drop>> ELSE <<>>])
    /\ Bounded
    /\ UNCHANGED <<known, bound, job, serving, appVars, link>>

Next ==
    \/ \E c \in Conn : Hello(c) \/ Detach(c) \/ EndConn(c)
    \/ \E j \in Job :
         \/ \E c \in Conn, i \in Instance : Ask(j, c, i)
         \/ Attach(j) \/ AttachOk(j) \/ AttachFails(j)
    \/ \E i \in Instance :
         Register(i) \/ ControlBreaks(i) \/ AppHandles(i) \/ TokenExpires(i) \/ LingerPasses(i)
    \/ \E s \in Serial : ControlEnds(s)
    \/ \E t \in Token : RelayConnects(t) \/ PageGone(t) \/ RelayUp(t) \/ UpgradeFails(t) \/ RelayEnds(t)

Spec == Init /\ [][Next]_vars

\* The runtime serves every task that is ready and the application its
\* messages; a page connects; timers fire.  Nobody has to attach, to detach,
\* to register or to break anything.
Fairness ==
    /\ \A j \in Job : WF_vars(Attach(j)) /\ WF_vars(AttachOk(j) \/ AttachFails(j))
    /\ \A i \in Instance : WF_vars(AppHandles(i)) /\ WF_vars(LingerPasses(i))
    /\ \A s \in Serial : WF_vars(ControlEnds(s))
    /\ \A t \in Token :
         /\ WF_vars(RelayConnects(t)) /\ WF_vars(PageGone(t))
         /\ WF_vars(RelayUp(t) \/ UpgradeFails(t))
         /\ WF_vars(Doomed(t) /\ RelayEnds(t))

FairSpec == Spec /\ Fairness

-----------------------------------------------------------------------------
(* Safety *)

\* A browser's connection is never bound to an instance the registry has lost,
\* whatever an attach was waiting for and whichever control connection ends.
BoundToRegistered ==
    \A c \in known : bound[c] # None => entry[bound[c].inst] # None

\* The counts on their way to the application's control connection.
OnTheirWay(i) == {m \in DOMAIN ctl[control[i]] : ctl[control[i]][m].kind = "sessions"}

\* What the application will believe once it has read its messages is n: the
\* last count on its way, or the one it has, which a reconnect does not clear.
Announced(i, n) ==
    IF OnTheirWay(i) = {} THEN n = gate[i].count
    ELSE \E m \in OnTheirWay(i) : ctl[control[i]][m].count = n /\ \A k \in OnTheirWay(i) : k <= m

\* The application has a control connection, and the registry counts for it.
InService(i) == control[i] # None /\ entry[i] # None /\ entry[i].serial = control[i]

\* The application's close button asks how many remote sessions it has.  Once
\* it has read its messages it knows what the registry counts, unless that is
\* none and this connection has not said a word of it: a count of before the
\* reconnect may then be too high, but no session is ever missing from it.
CountTold ==
    \A i \in Instance :
      InService(i) =>
        \/ Announced(i, entry[i].sessions)
        \/ entry[i].sessions = 0 /\ ~gate[i].told /\ OnTheirWay(i) = {}

\* Whoever is told ATTACHED, and has neither left nor asked for another window
\* since, is bound to it.
AttachedIsBound ==
    [][\A j \in Job :
         AttachOk(j) /\ ~job[j].left /\ job[j].conn \in known
           => bound[job[j].conn] # None /\ bound[job[j].conn].inst = job[j].inst]_vars

-----------------------------------------------------------------------------
(* Liveness *)

Bound(c, i) == c \in known /\ bound[c] # None /\ bound[c].inst = i
Registration(c, i) == Bound(c, i) /\ entry[i] # None /\ bound[c].serial = entry[i].serial

\* A bound connection gets a relay, if its instance stays registered and
\* answers for it in a token's time: the relay may end as often as it likes.
BoundGetsRelay ==
    \A c \in Conn, i \in Instance :
      Registration(c, i) ~> ~Registration(c, i) \/ entry[i].relay # None \/ entry[i].late

\* A relay that lost its last session goes, or serves another one, or somebody
\* is asking for it.
MarkedRelayGoes ==
    \A i \in Instance, t \in Token :
      entry[i] # None /\ entry[i].idle /\ entry[i].relay = t
        ~> \/ entry[i] = None \/ entry[i].relay # t \/ entry[i].sessions > 0
           \/ \E j \in Job : job[j].st # "none"

=============================================================================
