--------------------------- MODULE ResumableConn ---------------------------
(***************************************************************************)
(* A browser connection of the PC's daemon that outlives its sockets: the  *)
(* downlink state of daemon/src/ws/conn.rs with its resume ring            *)
(* (resume.rs), the socket tasks that carry it (ws/socket.rs; the tunnel   *)
(* tasks of hub/session.rs run the same establishment), the housekeeping   *)
(* that drops it (server.rs), and the page's end of it                     *)
(* (src/remote/transport.ts).                                              *)
(*                                                                         *)
(* The daemon runs on one thread (daemon/src/main.rs), so what a task does *)
(* between two awaits is one action.  A frame is its sequence number and   *)
(* its body; every workload frame is one unit of credit, of hold queue and *)
(* of ring.                                                                *)
(***************************************************************************)
EXTENDS Integers, FiniteSets, Sequences, SequencesExt

CONSTANTS
    Conn,        \* connections the daemon may hold at once
    Task,        \* socket tasks alive at once
    None,
    Gone,          \* a live sender whose receiver is dropped
    InitialCredit, \* INITIAL_CREDIT
    CreditEvery,   \* CREDIT_EVERY of the page
    RingFrames,    \* MAX_FRAMES (and MAX_BYTES) of the ring
    MaxHeld,       \* MAX_HELD_BYTES
    MaxPush,       \* bound: workload frames per connection
    MaxSeq,        \* bound: control frames stop at this sequence number
    MaxGen         \* bound: sockets one connection is carried by

ASSUME NoneAssumption == {None, Gone} \cap (Conn \cup Task) = {} /\ None # Gone
ASSUME SizeAssumption ==
    /\ {InitialCredit, CreditEvery, RingFrames} \subseteq Nat \ {0}
    /\ {MaxHeld, MaxPush, MaxSeq, MaxGen} \subseteq Nat

VARIABLES
    known,   \* Daemon.conns: the connections the router can reach
    conn,    \* the state of each connection, known or not
    task,    \* where each socket task stands
    serves,  \* the connection each task serves
    gen,     \* the generation of the live binding each task owns
    hello,   \* the HELLO.resume each task heard
    down,    \* frames on their way to the browser, per socket
    upl,     \* frames on their way to the daemon, per socket
    page,    \* the browser's transport
    recv,    \* history: the last frame of page.sid the page received
    foreign, \* history: the page began page.sid with another connection's lastSeq
    skipped  \* history: whether frames never reached the page, its lastSeq its own or foreign

daemonVars == <<known, conn>>
taskVars == <<task, serves, gen, hello>>
pageVars == <<page, recv, foreign, skipped>>
vars == <<daemonVars, taskVars, down, upl, pageVars>>

\* Bodies: workload frames are numbered as the relay pushed them, control
\* frames (PONG, NOTICE) are alike, and two of them matter to the page.
Control == 0
Windows == -1
Attached == -2
Body == {Control, Windows, Attached} \cup 1..MaxPush
DataFrame == [seq : Nat, body : Body]
Ack == [sid : Conn, resumed : BOOLEAN]

TypeOK ==
    /\ known \subseteq Conn
    /\ \A c \in Conn :
         /\ conn[c].live \in Task \cup {None, Gone}
         /\ conn[c].gen \in Nat /\ conn[c].seq \in Nat /\ conn[c].acked \in Nat
         /\ conn[c].ring \in Seq(DataFrame) /\ Len(conn[c].ring) <= RingFrames
         /\ conn[c].lost \in Nat /\ conn[c].credit \in Int
         /\ conn[c].held \in Seq(1..MaxPush) /\ Len(conn[c].held) <= MaxHeld
         /\ {conn[c].detached, conn[c].attached} \subseteq BOOLEAN
         /\ conn[c].attaching \in Nat /\ conn[c].pushed \in 0..MaxPush
    /\ task \in [Task -> {"idle", "hello", "serving", "ending"}]
    /\ serves \in [Task -> Conn \cup {None}]
    /\ \A t \in Task : gen[t] \in Nat /\ down[t] \in Seq(Ack \cup DataFrame)
    /\ page.sid \in Conn \cup {None} /\ page.sock \in Task \cup {None, Gone}
    /\ page.lastSeq \in Nat /\ page.consumed \in Nat /\ page.attached \in BOOLEAN
    /\ recv \in Nat /\ foreign \in BOOLEAN /\ skipped \in {"no", "own", "foreign"}

\* Conn::new.  lost is lost_through, 0 for none.
NewConn ==
    [live |-> None, gen |-> 0, seq |-> 0, ring |-> <<>>, lost |-> 0, acked |-> 0,
     credit |-> InitialCredit, held |-> <<>>, detached |-> FALSE, attached |-> FALSE,
     attaching |-> 0, pushed |-> 0]

NewPage == [sid |-> None, lastSeq |-> 0, attached |-> FALSE, sock |-> None, consumed |-> 0]
NoResume == [sid |-> None, lastSeq |-> 0]

Init ==
    /\ known = {}
    /\ conn = [c \in Conn |-> NewConn]
    /\ task = [t \in Task |-> "idle"]
    /\ serves = [t \in Task |-> None]
    /\ gen = [t \in Task |-> 0]
    /\ hello = [t \in Task |-> NoResume]
    /\ down = [t \in Task |-> <<>>]
    /\ upl = [t \in Task |-> <<>>]
    /\ page = NewPage
    /\ recv = 0
    /\ foreign = FALSE
    /\ skipped = "no"

-----------------------------------------------------------------------------
(* The downlink state *)

NewFrames(r, bodies) == [i \in DOMAIN bodies |-> [seq |-> r.seq + i, body |-> bodies[i]]]

\* Mutant: what falls out of the ring is forgotten.
RingPushForgetful(r, frames) ==
    LET all == r.ring \o frames
        out == IF Len(all) > RingFrames THEN Len(all) - RingFrames ELSE 0
    IN [r EXCEPT !.ring = SubSeq(all, out + 1, Len(all))]

\* ResumeBuffer::push of each frame: the oldest fall out, and the newest of
\* them the browser had not acknowledged is the ring's horizon.
RingPush(r, frames) ==
    LET all == r.ring \o frames
        out == IF Len(all) > RingFrames THEN Len(all) - RingFrames ELSE 0
    IN [r EXCEPT !.ring = SubSeq(all, out + 1, Len(all)),
                 !.lost = IF out > 0 /\ all[out].seq > r.acked THEN all[out].seq ELSE @]

\* The ring's frames past seq: they stand in order, those up to it in front.
Past(ring, seq) ==
    LET upTo == {i \in DOMAIN ring : \A j \in 1..i : ring[j].seq <= seq}
    IN SubSeq(ring, Cardinality(upTo) + 1, Len(ring))

\* ResumeBuffer::ack: the acknowledged frames leave.
RingAck(r, seq) ==
    IF seq <= r.acked THEN r ELSE [r EXCEPT !.acked = seq, !.ring = Past(@, seq)]

\* Conn::emit of each body: numbered, kept in the ring, and sent to the live
\* socket, behind what `queued` holds for it; a socket that is gone leaves the
\* connection detached.
EmitOn(queued, c, r, bodies, counted) ==
    LET frames == NewFrames(r, bodies)
        next == [RingPush(r, frames) EXCEPT !.seq = @ + Len(bodies),
                                            !.credit = IF counted THEN @ - Len(bodies) ELSE @]
    IN IF bodies = <<>> \/ r.live = None
       THEN /\ conn' = [conn EXCEPT ![c] = next]
            /\ down' = queued
       ELSE IF r.live # Gone
       THEN /\ conn' = [conn EXCEPT ![c] = next]
            /\ down' = [queued EXCEPT ![r.live] = @ \o frames]
       ELSE /\ conn' = [conn EXCEPT ![c] = [next EXCEPT !.live = None, !.detached = TRUE]]
            /\ down' = queued

Emit(c, r, bodies, counted) == EmitOn(down, c, r, bodies, counted)

\* Mutant: the hold queue has no cap.
PushWorkloadUncapped(c) ==
    LET r == [conn[c] EXCEPT !.pushed = @ + 1]
    IN IF r.credit > 0 /\ r.held = <<>>
       THEN Emit(c, r, <<r.pushed>>, TRUE)
       ELSE /\ conn' = [conn EXCEPT ![c] = [r EXCEPT !.held = Append(@, r.pushed)]]
            /\ down' = down

\* Conn::push of a workload frame: it waits behind what is held, or once the
\* credit is spent; over the hold queue's cap it is dropped and a NOTICE goes.
PushWorkload(c) ==
    LET r == [conn[c] EXCEPT !.pushed = @ + 1]
    IN IF r.credit > 0 /\ r.held = <<>>
       THEN Emit(c, r, <<r.pushed>>, TRUE)
       ELSE IF Len(r.held) >= MaxHeld
       THEN Emit(c, r, <<Control>>, FALSE)
       ELSE /\ conn' = [conn EXCEPT ![c] = [r EXCEPT !.held = Append(@, r.pushed)]]
            /\ down' = down

\* Mutant: the newest held frames leave first.
FlushHeldNewest(queued, c, r) ==
    LET n == IF r.credit <= 0 THEN 0
             ELSE IF r.credit < Len(r.held) THEN r.credit ELSE Len(r.held)
        kept == Len(r.held) - n
    IN EmitOn(queued, c, [r EXCEPT !.held = SubSeq(@, 1, kept)],
              SubSeq(r.held, kept + 1, Len(r.held)), TRUE)

\* Conn::flush_held of the state r: held frames leave while there is credit.
FlushHeld(queued, c, r) ==
    LET n == IF r.credit <= 0 THEN 0
             ELSE IF r.credit < Len(r.held) THEN r.credit ELSE Len(r.held)
    IN EmitOn(queued, c, [r EXCEPT !.held = SubSeq(@, n + 1, Len(@))], SubSeq(r.held, 1, n), TRUE)

\* The relay's frame for a connection: the router finds it in the table, or
\* drops the frame.
FromRelay(c) ==
    /\ c \in known /\ conn[c].attached /\ conn[c].pushed < MaxPush
    /\ PushWorkload(c)
    /\ UNCHANGED <<known, taskVars, upl, pageVars>>

-----------------------------------------------------------------------------
(* The socket task: establishment *)

\* Nothing refers to the connection any more: its place serves a new one.
Unused(c) ==
    /\ c \notin known
    /\ page.sid # c /\ conn[c].attaching = 0
    /\ \A t \in Task : serves[t] # c /\ hello[t].sid # c

Enter(t, where, c, g) ==
    /\ task' = [task EXCEPT ![t] = where]
    /\ serves' = [serves EXCEPT ![t] = c]
    /\ gen' = [gen EXCEPT ![t] = g]
    /\ hello' = [hello EXCEPT ![t] = NoResume]

\* new_conn, the {resumed: false} ack, go_live, and the WINDOWS frame.  The
\* ack of a resume that was tried first is drained.
Establish(t, c, gone) ==
    /\ known' = (known \ gone) \cup {c}
    /\ conn' = [x \in Conn |->
                  IF x = c THEN [RingPush(NewConn, NewFrames(NewConn, <<Windows>>)) EXCEPT
                                   !.live = t, !.gen = 1, !.seq = 1]
                  ELSE [conn[x] EXCEPT !.attached = @ /\ x \notin gone]]
    /\ down' = [down EXCEPT ![t] = <<[sid |-> c, resumed |-> FALSE],
                                     [seq |-> 1, body |-> Windows]>>]
    /\ Enter(t, "serving", c, 1)

\* No resume asked for, or conn_by_sid does not find it.
HelloFresh(t) ==
    /\ task[t] = "hello" /\ hello[t].sid \notin known
    /\ \E c \in Conn : Unused(c) /\ Establish(t, c, {})
    /\ UNCHANGED <<upl, pageVars>>

\* Mutant: off by one at the ring's horizon.
CoveredOrLast(r, lastSeq) == r.lost <= lastSeq + 1

\* ResumeBuffer::replay_after answers.
Covered(r, lastSeq) == r.lost <= lastSeq

\* The {resumed: true} ack, and Conn::resume: what the page missed, a new
\* generation, full credit, and as many held frames as it covers.
Resume(t) ==
    /\ task[t] = "hello" /\ hello[t].sid \in known
    /\ LET c == hello[t].sid
           last == hello[t].lastSeq
           replay == Past(conn[c].ring, last)
       IN /\ Covered(conn[c], last)
          /\ FlushHeld([down EXCEPT ![t] = <<[sid |-> c, resumed |-> TRUE]>> \o replay], c,
                       [RingAck(conn[c], last) EXCEPT !.live = t, !.gen = @ + 1,
                           !.detached = FALSE, !.credit = InitialCredit])
          /\ Enter(t, "serving", c, conn[c].gen + 1)
    /\ UNCHANGED <<known, upl, pageVars>>

\* The ring no longer covers the gap: the old connection ends and a fresh one
\* starts.
ResumeFails(t) ==
    /\ task[t] = "hello" /\ hello[t].sid \in known
    /\ ~Covered(conn[hello[t].sid], hello[t].lastSeq)
    /\ \E c \in Conn : Unused(c) /\ Establish(t, c, {hello[t].sid})
    /\ UNCHANGED <<upl, pageVars>>

-----------------------------------------------------------------------------
(* The socket task: its loop and its exits *)

\* Mutant: a grant raises the credit and releases nothing.
CreditOnly(t) ==
    /\ task[t] = "serving" /\ upl[t] # <<>> /\ Head(upl[t]).ty = "credit"
    /\ conn' = [conn EXCEPT ![serves[t]] =
                  [RingAck(@, Head(upl[t]).ack) EXCEPT !.credit = @ + Head(upl[t]).n]]
    /\ upl' = [upl EXCEPT ![t] = Tail(@)]
    /\ UNCHANGED <<known, taskVars, down, pageVars>>

\* CREDIT: Conn::grant acknowledges, grows the window and flushes.
Credit(t) ==
    /\ task[t] = "serving" /\ upl[t] # <<>> /\ Head(upl[t]).ty = "credit"
    /\ FlushHeld(down, serves[t],
                 [RingAck(conn[serves[t]], Head(upl[t]).ack) EXCEPT !.credit = @ + Head(upl[t]).n])
    /\ upl' = [upl EXCEPT ![t] = Tail(@)]
    /\ UNCHANGED <<known, taskVars, pageVars>>

\* PING acknowledges too, and PONG takes a sequence number.
Ping(t) ==
    /\ task[t] = "serving" /\ upl[t] # <<>> /\ Head(upl[t]).ty = "ping"
    /\ Emit(serves[t], RingAck(conn[serves[t]], Head(upl[t]).ack), <<Control>>, FALSE)
    /\ upl' = [upl EXCEPT ![t] = Tail(@)]
    /\ UNCHANGED <<known, taskVars, pageVars>>

\* ATTACH binds the instance and waits for its relay in a task of its own.
Attach(t) ==
    /\ task[t] = "serving" /\ upl[t] # <<>> /\ Head(upl[t]).ty = "attach"
    /\ conn' = [conn EXCEPT ![serves[t]].attached = TRUE, ![serves[t]].attaching = @ + 1]
    /\ upl' = [upl EXCEPT ![t] = Tail(@)]
    /\ UNCHANGED <<known, taskVars, down, pageVars>>

\* The relay is up: ATTACHED, on whatever carries the connection by then.  Or
\* it did not come in time: the binding is undone and a NOTICE says so.
AttachAnswers(c) ==
    /\ conn[c].attaching > 0
    /\ LET r == [conn[c] EXCEPT !.attaching = @ - 1]
       IN \/ Emit(c, r, <<Attached>>, FALSE)
          \/ Emit(c, [r EXCEPT !.attached = FALSE], <<Control>>, FALSE)
    /\ UNCHANGED <<known, taskVars, upl, pageVars>>

\* Mutant: any task that ends takes the connection's binding down.
OwnsAnyLive(t) == conn[serves[t]].live # None

OwnsLive(t) == conn[serves[t]].live # None /\ conn[serves[t]].gen = gen[t]

Leave(t) ==
    /\ Enter(t, "idle", None, 0)
    /\ upl' = [upl EXCEPT ![t] = <<>>]

\* Mutant: go_offline forgets when it happened.
SocketDroppedUnstamped(t) ==
    /\ task[t] = "serving" /\ page.sock # t
    /\ conn' = IF OwnsLive(t) THEN [conn EXCEPT ![serves[t]].live = None] ELSE conn
    /\ Leave(t)
    /\ down' = [down EXCEPT ![t] = <<>>]
    /\ UNCHANGED <<known, pageVars>>

\* Exit::Dropped, noticed at once or by the idle check: go_offline.
SocketDropped(t) ==
    /\ task[t] = "serving" /\ page.sock # t
    /\ conn' = IF OwnsLive(t)
               THEN [conn EXCEPT ![serves[t]].live = None, ![serves[t]].detached = TRUE]
               ELSE conn
    /\ Leave(t)
    /\ down' = [down EXCEPT ![t] = <<>>]
    /\ UNCHANGED <<known, pageVars>>

\* The page navigates away (login, a reload).  What follows it is another
\* page, with a connection of its own.
Navigate == page' = [NewPage EXCEPT !.sock = Gone] /\ recv' = 0 /\ foreign' = FALSE

\* The socket is closed with a code that sends the page away.
PageLeaves(t) ==
    IF page.sock = t THEN Navigate /\ UNCHANGED skipped ELSE UNCHANGED pageVars

\* A HELLO that is refused, or that never comes within HELLO_TIMEOUT.
HelloRefused(t) ==
    /\ task[t] = "hello"
    /\ PageLeaves(t)
    /\ Leave(t)
    /\ UNCHANGED <<daemonVars, down>>

\* Exit::Ended (kick, expired session, bad frame): the close is written to the
\* socket, which awaits, and meanwhile the connection may be resumed elsewhere.
Ended(t) ==
    /\ task[t] = "serving"
    /\ PageLeaves(t)
    /\ down' = [down EXCEPT ![t] = <<>>]
    /\ task' = [task EXCEPT ![t] = "ending"]
    /\ UNCHANGED <<daemonVars, serves, gen, hello, upl>>

\* Then end_conn, when the live binding is still this task's own.  The task's
\* receiver goes with it.
EndConn(t) ==
    /\ task[t] = "ending"
    /\ known' = IF OwnsLive(t) THEN known \ {serves[t]} ELSE known
    /\ conn' = IF OwnsLive(t)
               THEN [conn EXCEPT ![serves[t]].live = Gone, ![serves[t]].attached = FALSE]
               ELSE conn
    /\ Leave(t)
    /\ down' = [down EXCEPT ![t] = <<>>]
    /\ UNCHANGED pageVars

-----------------------------------------------------------------------------
(* Housekeeping *)

\* RESUME_WINDOW may have passed, or the login ended, for any connection that
\* is offline: it is ended.
Sweep ==
    /\ \E expired \in SUBSET {c \in known : conn[c].detached} :
         /\ expired # {}
         /\ known' = known \ expired
         /\ conn' = [c \in Conn |-> [conn[c] EXCEPT !.attached = @ /\ c \notin expired]]
    /\ UNCHANGED <<taskVars, down, upl, pageVars>>

-----------------------------------------------------------------------------
(* The page *)

\* A new socket and its HELLO, with what to resume when a session is known.
Connect(t) ==
    /\ page.sock = None /\ task[t] = "idle"
    /\ page.sid # None => conn[page.sid].gen < MaxGen
    /\ task' = [task EXCEPT ![t] = "hello"]
    /\ hello' = [hello EXCEPT ![t] = [sid |-> page.sid, lastSeq |-> page.lastSeq]]
    /\ down' = [down EXCEPT ![t] = <<>>]
    /\ page' = [page EXCEPT !.sock = t]
    /\ UNCHANGED <<daemonVars, serves, gen, upl, recv, foreign, skipped>>

\* The network drops the socket under the page; its task may notice much later.
NetworkDrops ==
    /\ page.sock \in Task
    /\ page' = [page EXCEPT !.sock = None]
    /\ UNCHANGED <<daemonVars, taskVars, down, upl, recv, foreign, skipped>>

Say(t, frame) == upl' = [upl EXCEPT ![t] = Append(@, frame)]

\* The loop that writes the downlink starts once the connection is established.
Arrives(t) ==
    /\ page.sock = t /\ task[t] = "serving" /\ down[t] # <<>>
    /\ down' = [down EXCEPT ![t] = Tail(@)]
    /\ UNCHANGED <<daemonVars, taskVars>>

\* HELLO_ACK of a session the daemon lost, for a page that was attached: the
\* page reloads.  Otherwise the sid is the page's from now on.
HearAck(t) ==
    /\ Arrives(t) /\ "resumed" \in DOMAIN Head(down[t])
    /\ LET ack == Head(down[t])
       IN IF ~ack.resumed /\ page.attached
          THEN Navigate /\ upl' = upl
          ELSE /\ page' = [page EXCEPT !.sid = ack.sid]
               /\ recv' = IF ack.resumed THEN recv ELSE 0
               /\ foreign' = IF ack.resumed THEN foreign ELSE page.lastSeq # 0
               /\ IF page.attached THEN upl' = upl ELSE Say(t, [ty |-> "attach"])
    /\ UNCHANGED skipped

\* A numbered frame: lastSeq is taken from it, and CREDIT goes when due.
HearFrame(t) ==
    /\ Arrives(t) /\ "seq" \in DOMAIN Head(down[t])
    /\ LET f == Head(down[t])
           due == page.consumed + 1 >= CreditEvery
       IN /\ page' = [page EXCEPT !.lastSeq = f.seq,
                                  !.attached = @ \/ f.body = Attached,
                                  !.consumed = IF due THEN 0 ELSE @ + 1]
          /\ IF due
             THEN Say(t, [ty |-> "credit", n |-> page.consumed + 1, ack |-> f.seq])
             ELSE upl' = upl
          /\ recv' = f.seq
          /\ skipped' = IF f.seq <= recv + 1 \/ skipped = "own" THEN skipped
                        ELSE IF foreign THEN "foreign" ELSE "own"
    /\ UNCHANGED foreign

\* The heartbeat.
Heartbeat(t) ==
    /\ page.sock = t /\ task[t] = "serving" /\ upl[t] = <<>>
    /\ conn[serves[t]].seq < MaxSeq
    /\ Say(t, [ty |-> "ping", ack |-> page.lastSeq])
    /\ UNCHANGED <<daemonVars, taskVars, down, pageVars>>

TaskStep(t) ==
    \/ HelloFresh(t) \/ Resume(t) \/ ResumeFails(t) \/ HelloRefused(t)
    \/ Credit(t) \/ Ping(t) \/ Attach(t) \/ SocketDropped(t) \/ Ended(t) \/ EndConn(t)

PageStep(t) == Connect(t) \/ HearAck(t) \/ HearFrame(t) \/ Heartbeat(t)

Next ==
    \/ \E t \in Task : TaskStep(t) \/ PageStep(t)
    \/ \E c \in Conn : FromRelay(c) \/ AttachAnswers(c)
    \/ Sweep \/ NetworkDrops

Spec == Init /\ [][Next]_vars

\* Tasks run on and notice dead sockets in the end, and a page that is
\* connected hears what was sent to it.  Sockets, pages, drops, kicks and the
\* relay's frames are never owed.
Fairness ==
    \A t \in Task :
        /\ WF_vars(HelloFresh(t)) /\ WF_vars(Resume(t)) /\ WF_vars(ResumeFails(t))
        /\ WF_vars(Credit(t)) /\ WF_vars(Ping(t)) /\ WF_vars(Attach(t))
        /\ WF_vars(SocketDropped(t)) /\ WF_vars(EndConn(t))
        /\ WF_vars(HearAck(t)) /\ WF_vars(HearFrame(t))

FairSpec == Spec /\ Fairness

-----------------------------------------------------------------------------
(* Properties *)

SeqsOf(frames) == {frames[i].seq : i \in DOMAIN frames}
Increasing(s) == \A i, j \in DOMAIN s : i < j => s[i] < s[j]
Later(a, b) == IF a > b THEN a ELSE b

\* What all of it amounts to for the page: ReliableDownlink, which has neither
\* sockets nor ring, nor credit.
Downlink == INSTANCE ReliableDownlink WITH
    Session <- Conn,
    sent <- [c \in Conn |-> conn[c].seq],
    sid <- page.sid

\* Each page hears each frame of its session exactly once, in order, over any
\* number of sockets, drops and resumes.
ImplementsDownlink == Downlink!Spec

\* The ring can replay everything the browser may still need: each frame past
\* the acknowledged one and past the horizon lost_through is in it.
RingCoversTheGap ==
    \A c \in Conn :
        (Later(conn[c].acked, conn[c].lost) + 1)..conn[c].seq \subseteq SeqsOf(conn[c].ring)

\* Credit, hold queue and resume never reorder the workload: in the ring it
\* stands in the relay's order, and what is held comes after all of it.
WorkloadInOrder ==
    \A c \in Conn :
        LET ring == conn[c].ring
            held == conn[c].held
        IN /\ \A i, j \in DOMAIN ring :
                i < j /\ {ring[i].body, ring[j].body} \subseteq 1..MaxPush
                    => ring[i].body < ring[j].body
           /\ \A i \in DOMAIN ring, k \in DOMAIN held : ring[i].body < held[k]
           /\ Increasing(held)

\* No connection is stranded in the router's table: each is carried by a task
\* that owns its binding and will take it down, or waits for the housekeeping.
NoStrandedConn ==
    \A c \in known :
        \/ conn[c].live = None /\ conn[c].detached
        \/ \E t \in Task : conn[c].live = t /\ serves[t] = c /\ OwnsLive(t)

\* A superseded socket never tears down its successor's binding: a binding is
\* lost, without a newer one, only when the task it belongs to has left.
BindingOutlivesStrangers ==
    [][\A c \in Conn, t \in Task :
        /\ conn[c].live = t /\ task[t] = "serving"
        /\ conn'[c].live = None
        => task'[t] # "serving"]_vars

\* Held frames leave: the page's CREDIT reaches the daemon and releases them,
\* unless the socket under it goes.
HeldDrains ==
    \A c \in Conn :
        conn[c].held # <<>> ~>
            \/ conn[c].held = <<>>
            \/ conn[c].live \notin Task \/ page.sock # conn[c].live

\* "A resume replays everything after lastSeq, or fails": a page receives
\* every frame of the session it is told it resumed.
ResumeLosesNothing == skipped = "no"

=============================================================================
