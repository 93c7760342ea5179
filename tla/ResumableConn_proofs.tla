----------------------- MODULE ResumableConn_proofs -----------------------
(***************************************************************************)
(* Proofs about ResumableConn, for any number of connections and sockets   *)
(* and any sizes of credit, hold queue and ring: no connection is stranded *)
(* in the router's table, no task takes down the binding of another, the   *)
(* ring covers whatever a resume may still need, the workload stays in the *)
(* relay's order, and each page hears each frame of its session exactly    *)
(* once and in order (ReliableDownlink).                                   *)
(***************************************************************************)
EXTENDS ResumableConn, FiniteSetTheorems, SequenceTheorems, TLAPS

\* A task that has a connection.
Busy(t) == task[t] \in {"serving", "ending"}

Fields ==
    {"live", "gen", "seq", "ring", "lost", "acked", "credit", "held", "detached", "attached",
     "attaching", "pushed"}
Shape(r) == DOMAIN r = Fields /\ r.gen \in Nat

Shapes ==
    /\ known \subseteq Conn
    /\ DOMAIN conn = Conn /\ \A c \in Conn : Shape(conn[c])
    /\ DOMAIN task = Task /\ DOMAIN serves = Task /\ DOMAIN gen = Task
    /\ \A t \in Task : Busy(t) => serves[t] \in Conn /\ gen[t] \in Nat

\* No task is ahead of its connection, and the one that is level with a live
\* binding is the one it names.
Generations ==
    \A t \in Task : Busy(t) =>
        /\ gen[t] <= conn[serves[t]].gen
        /\ OwnsLive(t) => conn[serves[t]].live \in {t, Gone}

\* A connection the router can reach waits for the housekeeping, or has a task
\* that will take its binding down.
Carried(c) ==
    \/ conn[c].live = None /\ conn[c].detached
    \/ /\ conn[c].live \in Task /\ Busy(conn[c].live)
       /\ serves[conn[c].live] = c /\ gen[conn[c].live] = conn[c].gen

BInv == Shapes /\ Generations /\ \A c \in known : Carried(c)

\* What most steps do to a connection: at most its lost receiver is noticed.
Same(a, b) ==
    /\ Shape(b) /\ b.gen = a.gen
    /\ \/ b.live = a.live /\ b.detached = a.detached
       \/ a.live = Gone /\ b.live = None /\ b.detached = TRUE

\* A step after which every connection has the binding it had, and every task
\* the connection it had.
Quiet ==
    /\ known' \subseteq known
    /\ DOMAIN conn' = Conn /\ \A c \in Conn : Same(conn[c], conn'[c])
    /\ DOMAIN task' = Task /\ DOMAIN serves' = Task /\ DOMAIN gen' = Task
    /\ \A t \in Task : Busy(t)' => Busy(t)
    /\ \A t \in Task : Busy(t) => Busy(t)' /\ serves'[t] = serves[t] /\ gen'[t] = gen[t]

-----------------------------------------------------------------------------
(* What the downlink's helpers leave alone *)

\* ResumeBuffer::push keeps the binding.
LEMMA RingPushKeeps ==
    ASSUME NEW r, NEW frames, Shape(r)
    PROVE  LET p == RingPush(r, frames) IN
           /\ Shape(p) /\ p.gen = r.gen /\ p.live = r.live /\ p.detached = r.detached
           /\ DOMAIN p = DOMAIN r
<1>. DEFINE all == r.ring \o frames
            out == IF Len(all) > RingFrames THEN Len(all) - RingFrames ELSE 0
            ring == SubSeq(all, out + 1, Len(all))
            lost == IF out > 0 /\ all[out].seq > r.acked THEN all[out].seq ELSE r.lost
<1>1. RingPush(r, frames) = [r EXCEPT !.ring = ring, !.lost = lost]
  BY DEF RingPush
<1>. HIDE DEF ring, lost
<1>. QED BY <1>1 DEF Shape, Fields

\* ResumeBuffer::ack keeps the binding.
LEMMA RingAckKeeps ==
    ASSUME NEW r, NEW seq, Shape(r)
    PROVE  LET p == RingAck(r, seq) IN
           /\ Shape(p) /\ p.gen = r.gen /\ p.live = r.live /\ p.detached = r.detached
<1>. DEFINE ring == Past(r.ring, seq)
<1>1. RingAck(r, seq) = IF seq <= r.acked THEN r ELSE [r EXCEPT !.acked = seq, !.ring = ring]
  BY DEF RingAck
<1>. HIDE DEF ring
<1>. QED BY <1>1 DEF Shape, Fields

\* Conn::emit keeps the binding, or notices that its receiver is dropped.
LEMMA EmitKeeps ==
    ASSUME NEW queued, NEW c, NEW r, NEW bodies, NEW counted, Shape(r),
           EmitOn(queued, c, r, bodies, counted)
    PROVE  \E n : Same(r, n) /\ conn' = [conn EXCEPT ![c] = n]
<1>. DEFINE pushed == RingPush(r, NewFrames(r, bodies))
            next == [pushed EXCEPT !.seq = @ + Len(bodies),
                                   !.credit = IF counted THEN @ - Len(bodies) ELSE @]
            off == [next EXCEPT !.live = None, !.detached = TRUE]
<1>1. /\ Shape(pushed) /\ pushed.gen = r.gen /\ pushed.live = r.live
      /\ pushed.detached = r.detached
  BY RingPushKeeps
<1>2. \/ conn' = [conn EXCEPT ![c] = next]
      \/ r.live = Gone /\ conn' = [conn EXCEPT ![c] = off]
  BY DEF EmitOn
<1>. HIDE DEF pushed
<1>3. Shape(next) /\ next.gen = r.gen /\ next.live = r.live /\ next.detached = r.detached
  BY <1>1 DEF Shape, Fields
<1>. HIDE DEF next
<1>4. Shape(off) /\ off.gen = r.gen /\ off.live = None /\ off.detached = TRUE
  BY <1>3 DEF Shape, Fields
<1>. HIDE DEF off
<1>5. Same(r, next)
  BY <1>3 DEF Same
<1>6. r.live = Gone => Same(r, off)
  BY <1>4, <1>3 DEF Same
<1>. QED BY <1>2, <1>5, <1>6

\* Conn::flush_held too.
LEMMA FlushKeeps ==
    ASSUME NEW queued, NEW c, NEW r, Shape(r), FlushHeld(queued, c, r)
    PROVE  \E n : Same(r, n) /\ conn' = [conn EXCEPT ![c] = n]
<1>. DEFINE k == IF r.credit <= 0 THEN 0
                 ELSE IF r.credit < Len(r.held) THEN r.credit ELSE Len(r.held)
            s == [r EXCEPT !.held = SubSeq(@, k + 1, Len(@))]
            bodies == SubSeq(r.held, 1, k)
            counted == TRUE
<1>1. EmitOn(queued, c, s, bodies, counted)
  BY DEF FlushHeld
<1>. HIDE DEF k, bodies, counted
<1>2. Shape(s) /\ s.gen = r.gen /\ s.live = r.live /\ s.detached = r.detached
  BY DEF Shape, Fields
<1>. HIDE DEF s
<1>3. PICK n : Same(s, n) /\ conn' = [conn EXCEPT ![c] = n]
  BY <1>1, <1>2, EmitKeeps
<1>4. Same(r, n)
  BY <1>2, <1>3 DEF Same
<1>. QED BY <1>3, <1>4

\* A connection whose other fields changed before it was written back.
LEMMA SameTrans ==
    ASSUME NEW a, NEW b, NEW n, Same(b, n),
           b.gen = a.gen, b.live = a.live, b.detached = a.detached
    PROVE  Same(a, n)
  BY DEF Same

LEMMA SameRefl == ASSUME NEW a, Shape(a) PROVE Same(a, a)
  BY DEF Same

\* One connection written back, the rest as they were.
LEMMA OneWritten ==
    ASSUME Shapes, NEW c \in Conn, NEW n, Same(conn[c], n), conn' = [conn EXCEPT ![c] = n]
    PROVE  DOMAIN conn' = Conn /\ \A x \in Conn : Same(conn[x], conn'[x])
<1>1. DOMAIN conn' = Conn /\ \A x \in Conn : conn'[x] = IF x = c THEN n ELSE conn[x]
  BY DEF Shapes
<1>2. ASSUME NEW x \in Conn PROVE Same(conn[x], conn'[x])
  BY <1>1, SameRefl DEF Shapes
<1>. QED BY <1>1, <1>2

-----------------------------------------------------------------------------
(* The steps *)

\* A step that moves no binding strands nothing.
LEMMA QuietKeeps == BInv /\ Quiet => BInv'
<1>. SUFFICES ASSUME BInv, Quiet PROVE BInv'
  OBVIOUS
<1>1. Shapes'
  BY DEF BInv, Quiet, Shapes, Same
<1>2. Generations'
  <2>. SUFFICES ASSUME NEW t \in Task, Busy(t)'
                PROVE  /\ gen'[t] <= conn'[serves'[t]].gen
                       /\ OwnsLive(t)' => conn'[serves'[t]].live \in {t, Gone}
    BY DEF Generations
  <2>1. Busy(t) /\ serves'[t] = serves[t] /\ gen'[t] = gen[t] /\ serves[t] \in Conn
    BY DEF Quiet, BInv, Shapes
  <2>2. Same(conn[serves[t]], conn'[serves[t]])
    BY <2>1 DEF Quiet
  <2>. QED BY <2>1, <2>2 DEF BInv, Generations, Same, OwnsLive
<1>3. ASSUME NEW c \in known' PROVE Carried(c)'
  <2>1. c \in known /\ c \in Conn /\ Carried(c) /\ Same(conn[c], conn'[c])
    BY DEF Quiet, BInv, Shapes
  <2>2. CASE conn[c].live = None /\ conn[c].detached
    BY <2>1, <2>2, NoneAssumption DEF Same, Carried
  <2>3. CASE /\ conn[c].live \in Task /\ Busy(conn[c].live)
             /\ serves[conn[c].live] = c /\ gen[conn[c].live] = conn[c].gen
    <3>1. conn'[c].live = conn[c].live /\ conn'[c].gen = conn[c].gen
      BY <2>1, <2>3, NoneAssumption DEF Same
    <3>2. Busy(conn[c].live)' /\ serves'[conn'[c].live] = c /\ gen'[conn'[c].live] = conn'[c].gen
      BY <2>3, <3>1 DEF Quiet, Busy
    <3>. QED BY <3>1, <3>2, <2>3 DEF Carried
  <2>. QED BY <2>1, <2>2, <2>3 DEF Carried
<1>. QED BY <1>1, <1>2, <1>3 DEF BInv

\* The relay's frames, and the answers to an attach.
LEMMA RelayIsQuiet ==
    ASSUME BInv, NEW c \in Conn, FromRelay(c) \/ AttachAnswers(c)
    PROVE  Quiet
<1>. Shapes /\ \A x \in Conn : Shape(conn[x])
  BY DEF BInv, Shapes
<1>1. SUFFICES DOMAIN conn' = Conn /\ \A x \in Conn : Same(conn[x], conn'[x])
  <2>1. UNCHANGED <<known, task, serves, gen>>
    BY DEF FromRelay, AttachAnswers, taskVars
  <2>. QED BY <2>1 DEF Quiet, Shapes, Busy
<1>2. CASE FromRelay(c)
  <2>. DEFINE r == [conn[c] EXCEPT !.pushed = @ + 1]
              h == [r EXCEPT !.held = Append(@, r.pushed)]
              counted == TRUE
              uncounted == FALSE
  <2>1. /\ Shape(r) /\ r.gen = conn[c].gen /\ r.live = conn[c].live
        /\ r.detached = conn[c].detached
    BY DEF Shape, Fields
  <2>2. \/ EmitOn(down, c, r, <<r.pushed>>, counted)
        \/ EmitOn(down, c, r, <<Control>>, uncounted)
        \/ conn' = [conn EXCEPT ![c] = h]
    BY <1>2 DEF FromRelay, PushWorkload, Emit
  <2>. HIDE DEF r, counted, uncounted
  <2>3. Same(r, h)
    BY <2>1 DEF Shape, Fields, Same
  <2>. HIDE DEF h
  <2>4. \E n : Same(r, n) /\ conn' = [conn EXCEPT ![c] = n]
    BY <2>1, <2>2, <2>3, EmitKeeps
  <2>. QED BY <2>1, <2>4, SameTrans, OneWritten
<1>3. CASE AttachAnswers(c)
  <2>. DEFINE r == [conn[c] EXCEPT !.attaching = @ - 1]
              u == [r EXCEPT !.attached = FALSE]
              uncounted == FALSE
  <2>1. /\ Shape(r) /\ r.gen = conn[c].gen /\ r.live = conn[c].live
        /\ r.detached = conn[c].detached
    BY DEF Shape, Fields
  <2>2. \/ EmitOn(down, c, r, <<Attached>>, uncounted)
        \/ EmitOn(down, c, u, <<Control>>, uncounted)
    BY <1>3 DEF AttachAnswers, Emit
  <2>. HIDE DEF r, uncounted
  <2>3. /\ Shape(u) /\ u.gen = conn[c].gen /\ u.live = conn[c].live
        /\ u.detached = conn[c].detached
    BY <2>1 DEF Shape, Fields
  <2>. HIDE DEF u
  <2>4. \E n : Same(conn[c], n) /\ conn' = [conn EXCEPT ![c] = n]
    BY <2>1, <2>2, <2>3, EmitKeeps, SameTrans
  <2>. QED BY <2>4, OneWritten
<1>. QED BY <1>2, <1>3

\* Credit, pings and attaches.
LEMMA TaskIsQuiet ==
    ASSUME BInv, NEW t \in Task, Credit(t) \/ Ping(t) \/ Attach(t)
    PROVE  Quiet
<1>. Shapes /\ \A x \in Conn : Shape(conn[x])
  BY DEF BInv, Shapes
<1>1. SUFFICES DOMAIN conn' = Conn /\ \A x \in Conn : Same(conn[x], conn'[x])
  <2>1. UNCHANGED <<known, task, serves, gen>>
    BY DEF Credit, Ping, Attach, taskVars
  <2>. QED BY <2>1 DEF Quiet, Shapes, Busy
<1>4. CASE Credit(t)
  <2>. DEFINE s == serves[t]
              ack == RingAck(conn[s], Head(upl[t]).ack)
              r == [ack EXCEPT !.credit = @ + Head(upl[t]).n]
  <2>0. s \in Conn
    BY <1>4 DEF BInv, Shapes, Credit, Busy
  <2>1. FlushHeld(down, s, r)
    BY <1>4 DEF Credit
  <2>2. /\ Shape(ack) /\ ack.gen = conn[s].gen /\ ack.live = conn[s].live
        /\ ack.detached = conn[s].detached
    BY <2>0, RingAckKeeps
  <2>. HIDE DEF ack
  <2>3. /\ Shape(r) /\ r.gen = conn[s].gen /\ r.live = conn[s].live
        /\ r.detached = conn[s].detached
    BY <2>2 DEF Shape, Fields
  <2>. HIDE DEF r, s
  <2>4. \E n : Same(conn[s], n) /\ conn' = [conn EXCEPT ![s] = n]
    BY <2>1, <2>3, FlushKeeps, SameTrans
  <2>. QED BY <2>0, <2>4, OneWritten
<1>5. CASE Ping(t)
  <2>. DEFINE s == serves[t]
              r == RingAck(conn[s], Head(upl[t]).ack)
              uncounted == FALSE
  <2>0. s \in Conn
    BY <1>5 DEF BInv, Shapes, Ping, Busy
  <2>1. EmitOn(down, s, r, <<Control>>, uncounted)
    BY <1>5 DEF Ping, Emit
  <2>2. /\ Shape(r) /\ r.gen = conn[s].gen /\ r.live = conn[s].live
        /\ r.detached = conn[s].detached
    BY <2>0, RingAckKeeps
  <2>. HIDE DEF r, s, uncounted
  <2>4. \E n : Same(conn[s], n) /\ conn' = [conn EXCEPT ![s] = n]
    BY <2>1, <2>2, EmitKeeps, SameTrans
  <2>. QED BY <2>0, <2>4, OneWritten
<1>6. CASE Attach(t)
  <2>0. serves[t] \in Conn
    BY <1>6 DEF BInv, Shapes, Attach, Busy
  <2>. DEFINE s == serves[t]
              n == [conn[s] EXCEPT !.attached = TRUE, !.attaching = @ + 1]
  <2>1. conn' = [conn EXCEPT ![s] = n]
    BY <1>6, <2>0 DEF Attach, Shapes, Shape, Fields
  <2>2. Same(conn[s], n)
    BY <2>0 DEF Same, Shape, Fields
  <2>. HIDE DEF n, s
  <2>. QED BY <2>0, <2>1, <2>2, OneWritten DEF s
<1>. QED BY <1>4, <1>5, <1>6

\* What the page does, the network, the housekeeping, a refused HELLO, and a
\* close that is still being written.
LEMMA OthersAreQuiet ==
    ASSUME BInv, NEW t,
           HelloRefused(t) \/ Ended(t) \/ PageStep(t) \/ Sweep \/ NetworkDrops \/ UNCHANGED vars
    PROVE  Quiet
<1>. Shapes /\ \A x \in Conn : Shape(conn[x])
  BY DEF BInv, Shapes
<1>1. CASE Sweep
  <2>1. PICK expired \in SUBSET {c \in known : conn[c].detached} :
          /\ known' = known \ expired
          /\ conn' = [c \in Conn |-> [conn[c] EXCEPT !.attached = @ /\ c \notin expired]]
          /\ UNCHANGED taskVars
    BY <1>1 DEF Sweep
  <2>2. ASSUME NEW x \in Conn PROVE Same(conn[x], conn'[x])
    <3>. DEFINE at == conn[x].attached /\ x \notin expired
    <3>1. conn'[x] = [conn[x] EXCEPT !.attached = at]
      BY <2>1
    <3>. HIDE DEF at
    <3>. QED BY <3>1 DEF Same, Shape, Fields
  <2>. QED BY <2>1, <2>2 DEF Quiet, Shapes, Busy, taskVars
<1>2. CASE HelloRefused(t) \/ Ended(t) \/ PageStep(t) \/ NetworkDrops \/ UNCHANGED vars
  <2>1. UNCHANGED <<known, conn>>
    BY <1>2 DEF HelloRefused, Ended, PageStep, Connect, HearAck, HearFrame, Arrives, Heartbeat,
                NetworkDrops, vars, daemonVars
  <2>2. ASSUME NEW x \in Conn PROVE Same(conn[x], conn'[x])
    BY <2>1, SameRefl
  <2>3. /\ DOMAIN task' = Task /\ DOMAIN serves' = Task /\ DOMAIN gen' = Task
        /\ \A u \in Task : Busy(u)' => Busy(u)
        /\ \A u \in Task : Busy(u) => Busy(u)' /\ serves'[u] = serves[u] /\ gen'[u] = gen[u]
    BY <1>2 DEF HelloRefused, Leave, Enter, Ended, PageStep, Connect, HearAck, HearFrame, Arrives,
                Heartbeat, NetworkDrops, vars, taskVars, Shapes, Busy
  <2>. QED BY <2>1, <2>2, <2>3 DEF Quiet, Shapes
<1>. QED BY <1>1, <1>2

\* new_conn: its first task owns its first binding.
LEMMA EstablishKeeps ==
    ASSUME BInv, NEW t \in Task, NEW c \in Conn, NEW gone,
           task[t] = "hello", Unused(c), Establish(t, c, gone)
    PROVE  BInv'
<1>. DEFINE pushed == RingPush(NewConn, NewFrames(NewConn, <<Windows>>))
            n == [pushed EXCEPT !.live = t, !.gen = 1, !.seq = 1]
<1>1. Shape(pushed)
  BY RingPushKeeps DEF NewConn, Shape, Fields
<1>2. conn'[c] = n /\ DOMAIN conn' = Conn
  BY DEF Establish
<1>3. \A x \in Conn \ {c} : conn'[x] = [conn[x] EXCEPT !.attached = @ /\ x \notin gone]
  BY DEF Establish
<1>. HIDE DEF pushed
<1>4. Shape(conn'[c]) /\ conn'[c].live = t /\ conn'[c].gen = 1
  BY <1>1, <1>2 DEF Shape, Fields
<1>. HIDE DEF n
<1>5. ASSUME NEW x \in Conn \ {c} PROVE Same(conn[x], conn'[x])
  <2>. DEFINE at == conn[x].attached /\ x \notin gone
  <2>1. conn'[x] = [conn[x] EXCEPT !.attached = at]
    BY <1>3
  <2>. HIDE DEF at
  <2>. QED BY <2>1 DEF Same, Shape, Fields, BInv, Shapes
<1>6. /\ DOMAIN task' = Task /\ DOMAIN serves' = Task /\ DOMAIN gen' = Task
      /\ Busy(t)' /\ serves'[t] = c /\ gen'[t] = 1
      /\ \A u \in Task \ {t} : task'[u] = task[u] /\ serves'[u] = serves[u] /\ gen'[u] = gen[u]
  BY DEF Establish, Enter, BInv, Shapes, Busy
<1>7. known' \subseteq known \cup {c}
  BY DEF Establish
<1>8. \A u \in Task : Busy(u) => u # t /\ serves[u] # c
  BY DEF Busy, Unused
<1>9. Shapes'
  <2>1. \A x \in Conn : Shape(conn'[x])
    BY <1>4, <1>5 DEF Same
  <2>. QED BY <2>1, <1>2, <1>6, <1>7 DEF Shapes, BInv, Busy
<1>10. Generations'
  <2>. SUFFICES ASSUME NEW u \in Task, Busy(u)'
                PROVE  /\ gen'[u] <= conn'[serves'[u]].gen
                       /\ OwnsLive(u)' => conn'[serves'[u]].live \in {u, Gone}
    BY DEF Generations
  <2>1. CASE u = t
    BY <2>1, <1>4, <1>6
  <2>2. CASE u # t
    <3>1. Busy(u) /\ serves'[u] = serves[u] /\ gen'[u] = gen[u] /\ serves[u] \in Conn \ {c}
      BY <2>2, <1>6, <1>8 DEF Busy, BInv, Shapes
    <3>2. Same(conn[serves[u]], conn'[serves[u]])
      BY <3>1, <1>5
    <3>. QED BY <3>1, <3>2 DEF BInv, Generations, Same, OwnsLive
  <2>. QED BY <2>1, <2>2
<1>11. ASSUME NEW x \in known' PROVE Carried(x)'
  <2>1. CASE x = c
    BY <2>1, <1>4, <1>6 DEF Carried
  <2>2. CASE x # c
    <3>1. x \in known /\ x \in Conn \ {c} /\ Carried(x) /\ Same(conn[x], conn'[x])
      BY <2>2, <1>7, <1>5 DEF BInv, Shapes
    <3>2. CASE conn[x].live = None /\ conn[x].detached
      BY <3>1, <3>2, NoneAssumption DEF Same, Carried
    <3>3. CASE /\ conn[x].live \in Task /\ Busy(conn[x].live)
               /\ serves[conn[x].live] = x /\ gen[conn[x].live] = conn[x].gen
      <4>1. conn'[x].live = conn[x].live /\ conn'[x].gen = conn[x].gen /\ conn[x].live # t
        BY <3>1, <3>3, <1>8, NoneAssumption DEF Same
      <4>2. Busy(conn[x].live)' /\ serves'[conn'[x].live] = x /\ gen'[conn'[x].live] = conn'[x].gen
        BY <3>3, <4>1, <1>6 DEF Busy
      <4>. QED BY <4>1, <4>2, <3>3 DEF Carried
    <3>. QED BY <3>1, <3>2, <3>3 DEF Carried
  <2>. QED BY <2>1, <2>2
<1>. QED BY <1>9, <1>10, <1>11 DEF BInv

\* Conn::resume puts its own task, with a new generation, in the binding.
LEMMA ResumeSets ==
    ASSUME BInv, NEW t \in Task, Resume(t)
    PROVE  LET c == hello[t].sid IN
           /\ c \in known /\ c \in Conn
           /\ DOMAIN conn' = Conn /\ Shape(conn'[c])
           /\ conn'[c].live = t /\ conn'[c].gen = conn[c].gen + 1
           /\ \A x \in Conn \ {c} : conn'[x] = conn[x]
<1>. DEFINE c == hello[t].sid
            ack == RingAck(conn[c], hello[t].lastSeq)
            r == [ack EXCEPT !.live = t, !.gen = @ + 1, !.detached = FALSE,
                             !.credit = InitialCredit]
            queued == [down EXCEPT ![t] =
                         <<[sid |-> c, resumed |-> TRUE]>> \o Past(conn[c].ring, hello[t].lastSeq)]
<1>1. c \in known /\ c \in Conn /\ Shape(conn[c]) /\ task[t] = "hello"
  BY DEF Resume, BInv, Shapes
<1>2. FlushHeld(queued, c, r)
  BY DEF Resume
<1>3. Shape(ack) /\ ack.gen = conn[c].gen
  BY <1>1, RingAckKeeps
<1>. HIDE DEF ack, queued, c
<1>4. Shape(r) /\ r.live = t /\ r.gen = conn[c].gen + 1
  BY <1>3 DEF Shape, Fields
<1>. HIDE DEF r
<1>5. PICK n : Same(r, n) /\ conn' = [conn EXCEPT ![c] = n]
  BY <1>2, <1>4, FlushKeeps
<1>6. /\ c \in known /\ c \in Conn
      /\ DOMAIN conn' = Conn /\ Shape(conn'[c])
      /\ conn'[c].live = t /\ conn'[c].gen = conn[c].gen + 1
      /\ \A x \in Conn \ {c} : conn'[x] = conn[x]
  BY <1>1, <1>4, <1>5, NoneAssumption DEF Same, BInv, Shapes
<1>. QED BY <1>6 DEF c

\* Conn::resume: the successor's generation is past every other task's.
LEMMA ResumeKeeps == ASSUME BInv, NEW t \in Task, Resume(t) PROVE BInv'
<1>. DEFINE c == hello[t].sid
<1>1. c \in known /\ c \in Conn /\ Shape(conn[c]) /\ task[t] = "hello"
  BY DEF Resume, BInv, Shapes
<1>2. Enter(t, "serving", c, conn[c].gen + 1) /\ UNCHANGED known
  BY DEF Resume
<1>6. /\ DOMAIN conn' = Conn /\ Shape(conn'[c])
      /\ conn'[c].live = t /\ conn'[c].gen = conn[c].gen + 1
      /\ \A x \in Conn \ {c} : conn'[x] = conn[x]
  BY ResumeSets
<1>. HIDE DEF c
<1>7. /\ DOMAIN task' = Task /\ DOMAIN serves' = Task /\ DOMAIN gen' = Task
      /\ Busy(t)' /\ serves'[t] = c /\ gen'[t] = conn[c].gen + 1
      /\ \A u \in Task \ {t} : task'[u] = task[u] /\ serves'[u] = serves[u] /\ gen'[u] = gen[u]
  BY <1>2 DEF Enter, BInv, Shapes, Busy
<1>8. Shapes'
  BY <1>1, <1>2, <1>6, <1>7 DEF Shapes, BInv, Busy, Shape
<1>9. Generations'
  <2>. SUFFICES ASSUME NEW u \in Task, Busy(u)'
                PROVE  /\ gen'[u] <= conn'[serves'[u]].gen
                       /\ OwnsLive(u)' => conn'[serves'[u]].live \in {u, Gone}
    BY DEF Generations
  <2>1. CASE u = t
    BY <2>1, <1>1, <1>6, <1>7 DEF Shape
  <2>2. CASE u # t
    <3>1. /\ Busy(u) /\ serves'[u] = serves[u] /\ gen'[u] = gen[u] /\ serves[u] \in Conn
          /\ gen[u] \in Nat /\ gen[u] <= conn[serves[u]].gen
      BY <2>2, <1>7 DEF Busy, BInv, Shapes, Generations
    <3>2. CASE serves[u] = c
      BY <3>1, <3>2, <1>1, <1>6 DEF OwnsLive, Shape
    <3>3. CASE serves[u] # c
      BY <3>1, <3>3, <1>6 DEF BInv, Generations, OwnsLive
    <3>. QED BY <3>2, <3>3
  <2>. QED BY <2>1, <2>2
<1>10. ASSUME NEW x \in known' PROVE Carried(x)'
  <2>0. x \in known /\ x \in Conn /\ Carried(x)
    BY <1>2 DEF BInv, Shapes
  <2>1. CASE x = c
    BY <2>1, <1>6, <1>7 DEF Carried
  <2>2. CASE x # c
    BY <2>0, <2>2, <1>1, <1>6, <1>7 DEF Carried, Busy
  <2>. QED BY <2>1, <2>2
<1>. QED BY <1>8, <1>9, <1>10 DEF BInv

\* A task that goes, and what it owned with it.
LEMMA LeaveKeeps ==
    ASSUME BInv, NEW t \in Task, SocketDropped(t) \/ EndConn(t)
    PROVE  BInv'
<1>. DEFINE c == serves[t]
            dropped == [conn[c] EXCEPT !.live = None, !.detached = TRUE]
            ended == [conn[c] EXCEPT !.live = Gone, !.attached = FALSE]
<1>1. Busy(t) /\ c \in Conn /\ Shape(conn[c])
  BY DEF SocketDropped, EndConn, BInv, Shapes, Busy
<1>2. \/ conn' = conn /\ ~OwnsLive(t) /\ known' = known
      \/ conn' = [conn EXCEPT ![c] = dropped] /\ OwnsLive(t) /\ known' = known
      \/ conn' = [conn EXCEPT ![c] = ended] /\ OwnsLive(t) /\ known' = known \ {c}
  <2>1. CASE SocketDropped(t)
    BY <2>1, <1>1 DEF SocketDropped, BInv, Shapes, Shape, Fields
  <2>2. CASE EndConn(t)
    BY <2>2, <1>1 DEF EndConn, BInv, Shapes, Shape, Fields
  <2>. QED BY <2>1, <2>2
<1>3. /\ Shape(dropped) /\ dropped.gen = conn[c].gen /\ dropped.live = None /\ dropped.detached
      /\ Shape(ended) /\ ended.gen = conn[c].gen /\ ended.live = Gone
  BY <1>1 DEF Shape, Fields
<1>4. /\ DOMAIN task' = Task /\ DOMAIN serves' = Task /\ DOMAIN gen' = Task /\ ~Busy(t)'
      /\ \A u \in Task \ {t} : task'[u] = task[u] /\ serves'[u] = serves[u] /\ gen'[u] = gen[u]
  BY DEF SocketDropped, EndConn, Leave, Enter, BInv, Shapes, Busy
<1>. HIDE DEF dropped, ended, c
<1>5. /\ DOMAIN conn' = Conn
      /\ \A x \in Conn : Shape(conn'[x]) /\ conn'[x].gen = conn[x].gen
      /\ \A x \in Conn \ {c} : conn'[x] = conn[x]
      /\ ~OwnsLive(t) => conn' = conn /\ known' = known
      /\ OwnsLive(t) =>
           \/ conn'[c].live = None /\ conn'[c].detached /\ known' = known
           \/ conn'[c].live = Gone /\ known' = known \ {c}
  <2>1. /\ DOMAIN conn = Conn /\ \A x \in Conn : Shape(conn[x])
        /\ known \subseteq Conn
    BY DEF BInv, Shapes
  <2>2. CASE conn' = conn /\ ~OwnsLive(t) /\ known' = known
    BY <2>1, <2>2
  <2>3. CASE conn' = [conn EXCEPT ![c] = dropped] /\ OwnsLive(t) /\ known' = known
    <3>1. conn'[c] = dropped /\ DOMAIN conn' = Conn /\ \A x \in Conn \ {c} : conn'[x] = conn[x]
      BY <1>1, <2>1, <2>3
    <3>. QED BY <2>1, <2>3, <3>1, <1>3
  <2>4. CASE conn' = [conn EXCEPT ![c] = ended] /\ OwnsLive(t) /\ known' = known \ {c}
    <3>1. conn'[c] = ended /\ DOMAIN conn' = Conn /\ \A x \in Conn \ {c} : conn'[x] = conn[x]
      BY <1>1, <2>1, <2>4
    <3>. QED BY <2>1, <2>4, <3>1, <1>3
  <2>. QED BY <1>2, <2>2, <2>3, <2>4
<1>6. Shapes'
  BY <1>4, <1>5 DEF Shapes, BInv, Busy
<1>7. Generations'
  <2>. SUFFICES ASSUME NEW u \in Task, Busy(u)'
                PROVE  /\ gen'[u] <= conn'[serves'[u]].gen
                       /\ OwnsLive(u)' => conn'[serves'[u]].live \in {u, Gone}
    BY DEF Generations
  <2>1. /\ Busy(u) /\ serves'[u] = serves[u] /\ gen'[u] = gen[u] /\ serves[u] \in Conn
        /\ gen[u] <= conn[serves[u]].gen
        /\ OwnsLive(u) => conn[serves[u]].live \in {u, Gone}
    BY <1>4 DEF Busy, BInv, Shapes, Generations
  <2>2. CASE serves[u] = c /\ OwnsLive(t)
    BY <2>1, <2>2, <1>5 DEF OwnsLive
  <2>3. CASE conn'[serves[u]] = conn[serves[u]]
    BY <2>1, <2>3 DEF OwnsLive
  <2>. QED BY <2>1, <2>2, <2>3, <1>5
<1>8. ASSUME NEW x \in known' PROVE Carried(x)'
  <2>0. x \in known /\ x \in Conn /\ Carried(x)
    BY <1>5 DEF BInv, Shapes
  <2>1. CASE x = c /\ OwnsLive(t)
    BY <2>1, <1>5 DEF Carried
  <2>2. CASE conn'[x] = conn[x] /\ (x = c => ~OwnsLive(t))
    <3>1. CASE conn[x].live = None /\ conn[x].detached
      BY <2>2, <3>1 DEF Carried
    <3>2. CASE /\ conn[x].live \in Task /\ Busy(conn[x].live)
               /\ serves[conn[x].live] = x /\ gen[conn[x].live] = conn[x].gen
      <4>1. conn[x].live # t
        BY <2>2, <3>2, NoneAssumption DEF OwnsLive, c
      <4>2. Busy(conn[x].live)' /\ serves'[conn'[x].live] = x /\ gen'[conn'[x].live] = conn'[x].gen
        BY <2>2, <3>2, <4>1, <1>4 DEF Busy
      <4>. QED BY <2>2, <3>2, <4>2 DEF Carried
    <3>. QED BY <2>0, <3>1, <3>2 DEF Carried
  <2>. QED BY <2>0, <2>1, <2>2, <1>5
<1>. QED BY <1>6, <1>7, <1>8 DEF BInv

-----------------------------------------------------------------------------
(* The theorems *)

\* At the start nobody has a connection.
LEMMA InitBInv == Init => BInv
<1>. SUFFICES ASSUME Init PROVE BInv
  OBVIOUS
<1>1. Shape(NewConn)
  BY DEF Shape, Fields, NewConn
<1>. QED BY <1>1 DEF Init, BInv, Shapes, Generations, Carried, Busy

\* Each step is quiet, or one of the four that move a binding.
LEMMA NextCases ==
    ASSUME BInv, [Next]_vars
    PROVE  \/ Quiet
           \/ \E t \in Task : \E c \in Conn, gone \in {{}, {hello[t].sid}} :
                 task[t] = "hello" /\ Unused(c) /\ Establish(t, c, gone)
           \/ \E t \in Task : Resume(t) \/ SocketDropped(t) \/ EndConn(t)
<1>1. ASSUME NEW t \in Task, HelloFresh(t) \/ ResumeFails(t)
      PROVE  \E c \in Conn, gone \in {{}, {hello[t].sid}} :
                task[t] = "hello" /\ Unused(c) /\ Establish(t, c, gone)
  BY <1>1 DEF HelloFresh, ResumeFails
<1>2. ASSUME NEW t \in Task, HelloRefused(t) \/ Ended(t) \/ PageStep(t) PROVE Quiet
  BY <1>2, OthersAreQuiet
<1>3. ASSUME NEW t \in Task, Credit(t) \/ Ping(t) \/ Attach(t) PROVE Quiet
  BY <1>3, TaskIsQuiet
<1>4. ASSUME NEW c \in Conn, FromRelay(c) \/ AttachAnswers(c) PROVE Quiet
  BY <1>4, RelayIsQuiet
<1>5. ASSUME Sweep \/ NetworkDrops \/ UNCHANGED vars PROVE Quiet
  BY <1>5, OthersAreQuiet
<1>. QED BY <1>1, <1>2, <1>3, <1>4, <1>5 DEF Next, TaskStep

\* Every step keeps the strengthened invariant.
LEMMA NextBInv == BInv /\ [Next]_vars => BInv'
<1>. SUFFICES ASSUME BInv, [Next]_vars PROVE BInv'
  OBVIOUS
<1>. QED BY NextCases, QuietKeeps, EstablishKeeps, ResumeKeeps, LeaveKeeps

\* Every reachable state satisfies the strengthened invariant.
THEOREM ConnBInv == Spec => []BInv
<1>. QED BY InitBInv, NextBInv, PTL DEF Spec

\* Whatever sockets, kicks, failed resumes and sweeps do, each connection of
\* the router's table is carried by a task that owns its binding or waits for
\* the housekeeping.
THEOREM NoneStranded == Spec => []NoStrandedConn
<1>1. BInv => NoStrandedConn
  <2>. SUFFICES ASSUME BInv, NEW c \in known
                PROVE  \/ conn[c].live = None /\ conn[c].detached
                       \/ \E t \in Task : conn[c].live = t /\ serves[t] = c /\ OwnsLive(t)
    BY DEF NoStrandedConn
  <2>. QED BY NoneAssumption DEF BInv, Carried, OwnsLive
<1>. QED BY <1>1, ConnBInv, PTL

\* No step takes a binding from a task that goes on serving, unless it puts a
\* newer one in its place.
LEMMA NextOutlives ==
    ASSUME BInv, [Next]_vars, NEW c \in Conn, NEW t \in Task,
           conn[c].live = t, task[t] = "serving", conn'[c].live = None
    PROVE  task'[t] # "serving"
<1>1. CASE Quiet
  BY <1>1, NoneAssumption DEF Quiet, Same
<1>2. ASSUME NEW u \in Task, NEW x \in Conn, NEW gone,
             Unused(x), Establish(u, x, gone)
      PROVE  FALSE
  <2>. DEFINE pushed == RingPush(NewConn, NewFrames(NewConn, <<Windows>>))
              n == [pushed EXCEPT !.live = u, !.gen = 1, !.seq = 1]
              at == conn[c].attached /\ c \notin gone
  <2>1. Shape(pushed)
    BY RingPushKeeps DEF NewConn, Shape, Fields
  <2>2. conn'[c] = IF c = x THEN n ELSE [conn[c] EXCEPT !.attached = at]
    BY <1>2 DEF Establish
  <2>. HIDE DEF pushed, at
  <2>3. n.live = u /\ [conn[c] EXCEPT !.attached = at].live = t
    BY <2>1 DEF Shape, Fields, BInv, Shapes
  <2>. QED BY <2>2, <2>3, NoneAssumption
<1>3. ASSUME NEW u \in Task, SocketDropped(u) \/ EndConn(u) PROVE task'[t] # "serving"
  <2>1. serves[u] \in Conn /\ Shape(conn[serves[u]]) /\ Shape(conn[c]) /\ task'[u] = "idle"
    BY <1>3 DEF SocketDropped, EndConn, Leave, Enter, BInv, Shapes, Busy
  <2>2. OwnsLive(u) => conn[serves[u]].live \in {u, Gone}
    BY <1>3 DEF SocketDropped, EndConn, BInv, Generations, Busy
  <2>3. OwnsLive(u) /\ serves[u] = c
    BY <1>3, <2>1, NoneAssumption DEF SocketDropped, EndConn, BInv, Shapes, Shape, Fields
  <2>. QED BY <2>1, <2>2, <2>3, NoneAssumption
<1>4. ASSUME NEW u \in Task, Resume(u) PROVE FALSE
  <2>1. \E n : n.live \in {u, conn[c].live} /\ conn'[c] = n
    BY <1>4, ResumeSets
  <2>. QED BY <2>1, NoneAssumption
<1>. QED BY <1>1, <1>2, <1>3, <1>4, NextCases

\* The binding of a connection is lost, without a successor, only by the task
\* it belongs to, and only as that task leaves.
THEOREM OnlyOwnersUnbind == Spec => BindingOutlivesStrangers
<1>1. BInv /\ [Next]_vars =>
        [\A c \in Conn, t \in Task :
            /\ conn[c].live = t /\ task[t] = "serving"
            /\ conn'[c].live = None
            => task'[t] # "serving"]_vars
  BY NextOutlives
<1>. QED BY <1>1, ConnBInv, PTL DEF Spec, BindingOutlivesStrangers

-----------------------------------------------------------------------------
(* What the ring and the hold queue hold *)

\* A connection's state: what each field may hold.
Typed(r) ==
    /\ DOMAIN r = Fields
    /\ r.live \in Task \cup {None, Gone}
    /\ r.gen \in Nat /\ r.seq \in Nat /\ r.acked \in Nat /\ r.lost \in Nat /\ r.credit \in Int
    /\ r.ring \in Seq(DataFrame) /\ Len(r.ring) <= RingFrames
    /\ r.held \in Seq(1..MaxPush) /\ Len(r.held) <= MaxHeld
    /\ r.detached \in BOOLEAN /\ r.attached \in BOOLEAN
    /\ r.attaching \in Nat /\ r.pushed \in 0..MaxPush

\* The ring is the end of what was sent, without a gap, and what is missing
\* before it was acknowledged or is at the horizon.
Window(r) ==
    /\ Len(r.ring) <= r.seq
    /\ \A i \in 1..Len(r.ring) : r.ring[i].seq = r.seq - Len(r.ring) + i
    /\ r.seq - Len(r.ring) <= Later(r.acked, r.lost)

\* Workload frames stand in the relay's order: those sent, then those held.
Line(frames, held, pushed) ==
    /\ \A i, j \in 1..Len(frames) :
         i < j /\ frames[i].body >= 1 /\ frames[j].body >= 1 => frames[i].body < frames[j].body
    /\ \A i \in 1..Len(frames) :
         frames[i].body <= pushed /\ \A k \in 1..Len(held) : frames[i].body < held[k]
    /\ \A k, l \in 1..Len(held) : k < l => held[k] < held[l]
    /\ \A k \in 1..Len(held) : held[k] <= pushed

Good(r) == Typed(r) /\ Window(r) /\ Line(r.ring, r.held, r.pushed)

\* The frames of one emit.
LEMMA FramesNumbered ==
    ASSUME NEW r, Typed(r), NEW bodies \in Seq(Body)
    PROVE  LET f == NewFrames(r, bodies) IN
           /\ f \in Seq(DataFrame) /\ Len(f) = Len(bodies)
           /\ \A i \in 1..Len(bodies) : f[i].seq = r.seq + i /\ f[i].body = bodies[i]
<1>. DEFINE f == NewFrames(r, bodies)
<1>1. DOMAIN bodies = 1..Len(bodies) /\ Len(bodies) \in Nat
  OBVIOUS
<1>2. f = [i \in 1..Len(bodies) |-> [seq |-> r.seq + i, body |-> bodies[i]]]
  BY <1>1 DEF NewFrames
<1>3. \A i \in 1..Len(bodies) : [seq |-> r.seq + i, body |-> bodies[i]] \in DataFrame
  BY <1>1 DEF Typed, DataFrame
<1>. QED BY <1>1, <1>2, <1>3

\* The ring after an emit's frames went in is the end of what it held and they.
LEMMA RingPushTail ==
    ASSUME NEW r, Typed(r), NEW frames \in Seq(DataFrame)
    PROVE  LET all == r.ring \o frames
               p == RingPush(r, frames)
           IN \E out \in 0..Len(all) :
                /\ p.ring \in Seq(DataFrame) /\ Len(p.ring) = Len(all) - out
                /\ Len(p.ring) <= RingFrames
                /\ \A i \in 1..Len(p.ring) : out + i \in 1..Len(all) /\ p.ring[i] = all[out + i]
                /\ DOMAIN p = Fields
                /\ \A x \in Fields \ {"ring", "lost"} : p[x] = r[x]
                /\ out = 0 => p.lost = r.lost
                /\ out > 0 => p.lost = IF all[out].seq > r.acked THEN all[out].seq ELSE r.lost
<1>. DEFINE all == r.ring \o frames
            out == IF Len(all) > RingFrames THEN Len(all) - RingFrames ELSE 0
            ring == SubSeq(all, out + 1, Len(all))
            lost == IF out > 0 /\ all[out].seq > r.acked THEN all[out].seq ELSE r.lost
            p == RingPush(r, frames)
<1>1. p = [r EXCEPT !.ring = ring, !.lost = lost]
  BY DEF RingPush
<1>2. all \in Seq(DataFrame) /\ Len(all) \in Nat
  <2>1. r.ring \in Seq(DataFrame)
    BY DEF Typed
  <2>. QED BY <2>1, ConcatProperties
<1>. HIDE DEF all
<1>3. /\ out \in Nat /\ out <= Len(all) /\ Len(all) - out <= RingFrames
  BY <1>2, SizeAssumption
<1>. HIDE DEF out
<1>4. /\ ring \in Seq(DataFrame) /\ Len(ring) = Len(all) - out
      /\ \A i \in 1..Len(ring) : out + i \in 1..Len(all) /\ ring[i] = all[out + i]
  BY <1>2, <1>3
<1>. HIDE DEF ring, lost
<1>5. /\ DOMAIN p = Fields /\ p.ring = ring /\ p.lost = lost
      /\ \A x \in Fields \ {"ring", "lost"} : p[x] = r[x]
  BY <1>1 DEF Typed, Fields
<1>6. /\ out = 0 => p.lost = r.lost
      /\ out > 0 => p.lost = IF all[out].seq > r.acked THEN all[out].seq ELSE r.lost
  BY <1>3, <1>5 DEF lost
<1>. HIDE DEF p
<1>7. out \in 0..Len(all) /\ Len(p.ring) <= RingFrames
  BY <1>2, <1>3, <1>4, <1>5
<1>. QED BY <1>4, <1>5, <1>6, <1>7 DEF all, p
\* The end of a line of frames is one.
LEMMA LineEnd ==
    ASSUME NEW all \in Seq(DataFrame), NEW ring \in Seq(DataFrame), NEW held, NEW pushed,
           NEW out \in 0..Len(all), Len(ring) = Len(all) - out,
           \A i \in 1..Len(ring) : out + i \in 1..Len(all) /\ ring[i] = all[out + i],
           Line(all, held, pushed)
    PROVE  Line(ring, held, pushed)
<1>1. ASSUME NEW i \in 1..Len(ring), NEW j \in 1..Len(ring), i < j
      PROVE  out + i \in 1..Len(all) /\ out + j \in 1..Len(all) /\ out + i < out + j
  BY <1>1
<1>. QED BY <1>1 DEF Line

\* Numbers run on from one sequence of frames to the next.
LEMMA Numbered ==
    ASSUME NEW a \in Seq(DataFrame), NEW b \in Seq(DataFrame), NEW base \in Nat,
           \A i \in 1..Len(a) : a[i].seq = base + i,
           \A i \in 1..Len(b) : b[i].seq = base + Len(a) + i
    PROVE  /\ a \o b \in Seq(DataFrame) /\ Len(a \o b) = Len(a) + Len(b)
           /\ \A i \in 1..Len(a \o b) : (a \o b)[i].seq = base + i
<1>. DEFINE all == a \o b
<1>1. /\ all \in Seq(DataFrame) /\ Len(all) = Len(a) + Len(b)
      /\ \A i \in 1..Len(a) + Len(b) : all[i] = IF i <= Len(a) THEN a[i] ELSE b[i - Len(a)]
  BY ConcatProperties
<1>. HIDE DEF all
<1>2. ASSUME NEW i \in 1..Len(all), i <= Len(a) PROVE all[i].seq = base + i
  <2>1. i \in 1..Len(a) /\ i \in 1..Len(a) + Len(b)
    BY <1>1, <1>2
  <2>2. all[i] = a[i]
    BY <1>1, <2>1
  <2>. QED BY <2>1, <2>2
<1>3. ASSUME NEW i \in 1..Len(all), ~(i <= Len(a)) PROVE all[i].seq = base + i
  <2>1. i - Len(a) \in 1..Len(b) /\ i \in 1..Len(a) + Len(b)
    BY <1>1, <1>3
  <2>2. all[i] = b[i - Len(a)]
    BY <1>1, <2>1, <1>3
  <2>3. b[i - Len(a)].seq = base + Len(a) + (i - Len(a))
    BY <2>1
  <2>. QED BY <2>2, <2>3
<1>. QED BY <1>1, <1>2, <1>3 DEF all

\* ResumeBuffer::push of an emit's frames: the window moves with them.
LEMMA EmitGood ==
    ASSUME NEW r, Typed(r), Window(r), NEW bodies \in Seq(Body), NEW counted,
           Line(r.ring \o NewFrames(r, bodies), r.held, r.pushed)
    PROVE  Good([RingPush(r, NewFrames(r, bodies)) EXCEPT
                    !.seq = @ + Len(bodies),
                    !.credit = IF counted THEN @ - Len(bodies) ELSE @])
<1>. DEFINE frames == NewFrames(r, bodies)
            all == r.ring \o frames
            p == RingPush(r, frames)
            next == [p EXCEPT !.seq = @ + Len(bodies),
                              !.credit = IF counted THEN @ - Len(bodies) ELSE @]
<1>1. PICK n \in Nat, m \in Nat, base \in Nat :
        /\ n = Len(r.ring) /\ m = Len(bodies) /\ r.seq = base + n
        /\ base <= Later(r.acked, r.lost)
        /\ \A i \in 1..n : r.ring[i].seq = base + i
  <2>1. Len(r.ring) \in Nat /\ Len(bodies) \in Nat /\ r.seq \in Nat
    BY DEF Typed
  <2>2. r.seq - Len(r.ring) \in Nat /\ r.seq = (r.seq - Len(r.ring)) + Len(r.ring)
    BY <2>1 DEF Window
  <2>. QED BY <2>1, <2>2 DEF Window
<1>2. /\ frames \in Seq(DataFrame) /\ Len(frames) = m
      /\ \A i \in 1..m : frames[i].seq = base + n + i
  BY <1>1, FramesNumbered
<1>3. r.ring \in Seq(DataFrame)
  BY DEF Typed
<1>4. /\ all \in Seq(DataFrame) /\ Len(all) = n + m
      /\ \A i \in 1..(n + m) : all[i].seq = base + i
  <2>. HIDE DEF frames
  <2>1. \A i \in 1..Len(frames) : frames[i].seq = base + Len(r.ring) + i
    BY <1>1, <1>2
  <2>2. \A i \in 1..Len(r.ring) : r.ring[i].seq = base + i
    BY <1>1
  <2>3. /\ all \in Seq(DataFrame) /\ Len(all) = Len(r.ring) + Len(frames)
        /\ \A i \in 1..Len(all) : all[i].seq = base + i
    BY <1>2, <1>3, <2>1, <2>2, Numbered
  <2>. HIDE DEF all
  <2>. QED BY <1>1, <1>2, <2>3
<1>5. PICK out \in 0..Len(all) :
        /\ p.ring \in Seq(DataFrame) /\ Len(p.ring) = Len(all) - out
        /\ Len(p.ring) <= RingFrames
        /\ \A i \in 1..Len(p.ring) : out + i \in 1..Len(all) /\ p.ring[i] = all[out + i]
        /\ DOMAIN p = Fields
        /\ \A x \in Fields \ {"ring", "lost"} : p[x] = r[x]
        /\ out = 0 => p.lost = r.lost
        /\ out > 0 => p.lost = IF all[out].seq > r.acked THEN all[out].seq ELSE r.lost
  BY <1>2, RingPushTail
<1>6. Line(p.ring, r.held, r.pushed)
  <2>1. Line(all, r.held, r.pushed)
    OBVIOUS
  <2>. HIDE DEF all, p
  <2>. QED BY <1>4, <1>5, <2>1, LineEnd
<1>. HIDE DEF frames, all, p
<1>7. PICK k \in Nat :
        /\ k = Len(p.ring) /\ out \in 0..(n + m) /\ k + out = n + m
        /\ \A i \in 1..k : p.ring[i].seq = base + out + i
  <2>1. out \in 0..(n + m) /\ Len(p.ring) = n + m - out /\ Len(p.ring) \in Nat
    BY <1>4, <1>5
  <2>2. ASSUME NEW i \in 1..Len(p.ring) PROVE p.ring[i].seq = base + out + i
    <3>1. out + i \in 1..(n + m) /\ p.ring[i] = all[out + i]
      BY <1>4, <1>5, <2>1
    <3>2. all[out + i].seq = base + (out + i)
      BY <1>4, <3>1
    <3>. QED BY <2>1, <3>1, <3>2
  <2>. QED BY <2>1, <2>2
<1>8. /\ DOMAIN next = Fields /\ next.seq = p.seq + m
      /\ next.credit = IF counted THEN p.credit - m ELSE p.credit
      /\ \A x \in Fields \ {"seq", "credit"} : next[x] = p[x]
  BY <1>1, <1>5 DEF Fields
<1>. HIDE DEF next
<1>9. /\ next.seq = base + n + m /\ next.ring = p.ring /\ next.lost = p.lost
      /\ next.credit = IF counted THEN r.credit - m ELSE r.credit
      /\ \A x \in Fields \ {"ring", "lost", "seq", "credit"} : next[x] = r[x]
  BY <1>1, <1>5, <1>8 DEF Fields
<1>10. /\ next.live = r.live /\ next.gen = r.gen /\ next.acked = r.acked /\ next.held = r.held
       /\ next.detached = r.detached /\ next.attached = r.attached
       /\ next.attaching = r.attaching /\ next.pushed = r.pushed
  BY <1>9 DEF Fields
<1>11. out > 0 => all[out].seq = base + out
  BY <1>4, <1>7
<1>12. r.lost \in Nat /\ r.acked \in Nat /\ r.credit \in Int
  BY DEF Typed
<1>13. next.lost \in Nat /\ (out > 0 => base + out <= Later(r.acked, next.lost))
  <2>1. CASE out = 0
    BY <1>5, <1>9, <1>12, <2>1
  <2>2. CASE out > 0
    <3>1. next.lost = IF base + out > r.acked THEN base + out ELSE r.lost
      BY <1>5, <1>9, <1>11, <2>2
    <3>2. base + out \in Nat
      BY <1>7
    <3>. QED BY <1>12, <3>1, <3>2 DEF Later
  <2>. QED BY <1>7, <2>1, <2>2
<1>14. next.credit \in Int /\ next.seq \in Nat
  BY <1>9, <1>12
<1>15. Typed(next)
  <2>1. next.ring \in Seq(DataFrame) /\ Len(next.ring) <= RingFrames
    BY <1>5, <1>9
  <2>2. DOMAIN next = Fields
    BY <1>8
  <2>. QED BY <1>10, <1>12, <1>13, <1>14, <2>1, <2>2 DEF Typed
<1>16. Window(next)
  <2>1. Len(next.ring) = k /\ next.seq - k = base + out /\ k <= next.seq
    <3>1. out \in Nat /\ k + out = n + m
      BY <1>7
    <3>2. next.seq = base + n + m
      BY <1>9
    <3>3. next.seq = base + out + k
      BY <3>1, <3>2
    <3>4. next.seq - k = base + out /\ k <= next.seq
      BY <3>1, <3>3
    <3>5. Len(next.ring) = k
      BY <1>7, <1>9
    <3>. QED BY <3>4, <3>5
  <2>2. \A i \in 1..k : next.ring[i].seq = base + out + i
    BY <1>7, <1>9
  <2>3. base + out <= Later(next.acked, next.lost)
    <3>1. CASE out = 0
      BY <1>1, <1>5, <1>9, <1>10, <3>1
    <3>2. CASE out > 0
      BY <1>10, <1>13, <3>2
    <3>. QED BY <1>7, <3>1, <3>2
  <2>. QED BY <2>1, <2>2, <2>3 DEF Window
<1>17. Line(next.ring, next.held, next.pushed)
  BY <1>6, <1>9, <1>10
<1>. QED BY <1>15, <1>16, <1>17 DEF Good, next, p, frames

\* Frames that stand after a line of frames make it longer.
LEMMA LineOn ==
    ASSUME NEW ring \in Seq(DataFrame), NEW frames \in Seq(DataFrame), NEW held, NEW pushed,
           Line(ring, held, pushed), Line(frames, held, pushed),
           \A i \in 1..Len(ring), j \in 1..Len(frames) :
             frames[j].body >= 1 => ring[i].body < frames[j].body
    PROVE  Line(ring \o frames, held, pushed)
<1>. DEFINE all == ring \o frames
<1>1. PICK n \in Nat, m \in Nat : n = Len(ring) /\ m = Len(frames)
  OBVIOUS
<1>2. /\ Len(all) = n + m
      /\ \A i \in 1..(n + m) : all[i] = IF i <= n THEN ring[i] ELSE frames[i - n]
  BY <1>1, ConcatProperties
<1>. HIDE DEF all
<1>3. ASSUME NEW i \in 1..(n + m)
      PROVE  \/ i \in 1..n /\ all[i] = ring[i]
             \/ i - n \in 1..m /\ ~(i <= n) /\ all[i] = frames[i - n]
  BY <1>2
<1>4. ASSUME NEW i \in 1..(n + m), NEW j \in 1..(n + m),
             i < j, all[i].body >= 1, all[j].body >= 1
      PROVE  all[i].body < all[j].body
  <2>1. CASE i \in 1..n /\ all[i] = ring[i] /\ j \in 1..n /\ all[j] = ring[j]
    BY <1>1, <1>4, <2>1 DEF Line
  <2>2. CASE /\ i \in 1..n /\ all[i] = ring[i]
             /\ j - n \in 1..m /\ all[j] = frames[j - n]
    BY <1>1, <1>4, <2>2
  <2>3. CASE /\ i - n \in 1..m /\ all[i] = frames[i - n]
             /\ j - n \in 1..m /\ all[j] = frames[j - n]
    <3>1. i - n < j - n
      BY <1>4
    <3>. QED BY <1>1, <1>4, <2>3, <3>1 DEF Line
  <2>4. ~(~(i <= n) /\ j \in 1..n)
    BY <1>4
  <2>. QED BY <1>3, <2>1, <2>2, <2>3, <2>4
<1>5. ASSUME NEW i \in 1..(n + m)
      PROVE  all[i].body <= pushed /\ \A k \in 1..Len(held) : all[i].body < held[k]
  <2>1. CASE i \in 1..n /\ all[i] = ring[i]
    BY <1>1, <2>1 DEF Line
  <2>2. CASE i - n \in 1..m /\ all[i] = frames[i - n]
    BY <1>1, <2>2 DEF Line
  <2>. QED BY <1>3, <2>1, <2>2
<1>6. /\ \A k, l \in 1..Len(held) : k < l => held[k] < held[l]
      /\ \A k \in 1..Len(held) : held[k] <= pushed
  BY DEF Line
<1>. QED BY <1>2, <1>4, <1>5, <1>6 DEF Line, all

\* Writing a connection's other fields leaves its ring and its line alone.
LEMMA TouchedGood ==
    ASSUME NEW r, Good(r), NEW n, DOMAIN n = Fields,
           \A x \in {"seq", "ring", "lost", "acked", "held", "pushed"} : n[x] = r[x],
           n.live \in Task \cup {None, Gone}, n.gen \in Nat, n.credit \in Int,
           n.detached \in BOOLEAN, n.attached \in BOOLEAN, n.attaching \in Nat
    PROVE  Good(n)
<1>1. /\ n.seq = r.seq /\ n.ring = r.ring /\ n.lost = r.lost /\ n.acked = r.acked
      /\ n.held = r.held /\ n.pushed = r.pushed
  OBVIOUS
<1>2. Typed(n)
  BY <1>1 DEF Good, Typed
<1>3. Window(n)
  BY <1>1 DEF Good, Window
<1>4. Line(n.ring, n.held, n.pushed)
  BY <1>1 DEF Good
<1>. QED BY <1>2, <1>3, <1>4 DEF Good

\* ring is the last m of r's n frames, past s, and the k before them are up to s.
Ends(r, s, ring, n, base, k, m) ==
    /\ n = Len(r.ring) /\ m + k = n /\ r.seq = base + n
    /\ base <= Later(r.acked, r.lost)
    /\ \A i \in 1..n : r.ring[i].seq = base + i
    /\ k > 0 => base + k <= s
    /\ m > 0 => s < base + k + 1
    /\ ring \in Seq(DataFrame) /\ Len(ring) = m
    /\ \A i \in 1..m : k + i \in 1..n /\ ring[i] = r.ring[k + i]

\* A good ring's frames past s are its end; those before it are up to s.
LEMMA PastEnd ==
    ASSUME NEW r, Good(r), NEW s \in Nat
    PROVE  \E n \in Nat, base \in Nat, k \in Nat, m \in Nat :
             Ends(r, s, Past(r.ring, s), n, base, k, m)
<1>. DEFINE acked == {i \in DOMAIN r.ring : \A j \in 1..i : r.ring[j].seq <= s}
            out == Cardinality(acked)
            ring == Past(r.ring, s)
<1>2. PICK n \in Nat, base \in Nat :
        /\ n = Len(r.ring) /\ r.seq = base + n
        /\ base <= Later(r.acked, r.lost)
        /\ \A i \in 1..n : r.ring[i].seq = base + i
  <2>1. Len(r.ring) \in Nat /\ r.seq \in Nat
    BY DEF Good, Typed
  <2>2. r.seq - Len(r.ring) \in Nat /\ r.seq = (r.seq - Len(r.ring)) + Len(r.ring)
    BY <2>1 DEF Good, Window
  <2>. QED BY <2>1, <2>2 DEF Good, Window
<1>3. r.ring \in Seq(DataFrame) /\ n <= RingFrames /\ RingFrames \in Nat
  BY <1>2, SizeAssumption DEF Good, Typed
<1>4. \E k \in 0..n : /\ acked = 1..k /\ (k > 0 => base + k <= s)
                      /\ k < n => s < base + k + 1
  <2>1. DOMAIN r.ring = 1..n
    BY <1>2, <1>3
  <2>2. CASE s < base
    <3>1. \A i \in 1..n : ~(r.ring[1].seq <= s)
      BY <1>2, <2>2
    <3>2. acked = {}
      BY <2>1, <3>1
    <3>3. acked = 1..0 /\ 0 \in 0..n
      BY <3>2
    <3>4. (0 > 0 => base + 0 <= s) /\ s < base + 0 + 1
      BY <1>2, <2>2
    <3>. HIDE DEF acked
    <3>. QED BY <3>3, <3>4
  <2>3. CASE s >= base /\ s < base + n
    <3>1. s - base \in 0..n
      BY <1>2, <2>3
    <3>2. acked = 1..(s - base)
      <4>1. ASSUME NEW i \in 1..n
            PROVE  (\A j \in 1..i : r.ring[j].seq <= s) <=> i <= s - base
        <5>1. \A j \in 1..i : r.ring[j].seq = base + j
          BY <1>2
        <5>2. r.ring[i].seq <= s <=> i <= s - base
          BY <1>2, <2>3
        <5>3. ASSUME i <= s - base, NEW j \in 1..i PROVE r.ring[j].seq <= s
          <6>1. r.ring[j].seq = base + j /\ j <= s - base
            BY <5>1, <5>3, <2>3
          <6>. QED BY <2>3, <6>1
        <5>4. i \in 1..i
          OBVIOUS
        <5>. QED BY <5>2, <5>3, <5>4
      <4>2. 1..(s - base) = {i \in 1..n : i <= s - base}
        BY <2>3
      <4>. QED BY <2>1, <4>1, <4>2
    <3>3. base + (s - base) <= s /\ s < base + (s - base) + 1
      BY <1>2
    <3>. HIDE DEF acked
    <3>. QED BY <3>1, <3>2, <3>3
  <2>4. CASE s >= base + n
    <3>1. acked = 1..n
      BY <1>2, <2>1, <2>4
    <3>. HIDE DEF acked
    <3>2. n \in 0..n /\ (n > 0 => base + n <= s) /\ ~(n < n)
      BY <1>2, <2>4
    <3>. QED BY <3>1, <3>2
  <2>. HIDE DEF acked
  <2>. QED BY <1>2, <2>2, <2>3, <2>4
<1>5. PICK k \in 0..n : out = k /\ (k > 0 => base + k <= s) /\ (k < n => s < base + k + 1)
  <2>. HIDE DEF out, acked
  <2>1. PICK k \in 0..n : /\ acked = 1..k /\ (k > 0 => base + k <= s)
                          /\ k < n => s < base + k + 1
    BY <1>4
  <2>2. Cardinality(1..k) = k
    BY FS_Interval
  <2>3. out = k
    BY <2>1, <2>2 DEF out
  <2>. QED BY <2>1, <2>3
<1>6. PICK m \in Nat :
        /\ m + k = n
        /\ ring \in Seq(DataFrame) /\ Len(ring) = m
        /\ \A i \in 1..m : k + i \in 1..n /\ ring[i] = r.ring[k + i]
  <2>1. n - k \in Nat
    OBVIOUS
  <2>2. \A i \in (k + 1)..n : r.ring[i] \in DataFrame
    BY <1>2, <1>3
  <2>3. ring = SubSeq(r.ring, k + 1, n)
    BY <1>2, <1>5 DEF Past
  <2>. HIDE DEF ring
  <2>4. /\ ring \in Seq(DataFrame)
        /\ Len(ring) = IF k + 1 <= n THEN n - (k + 1) + 1 ELSE 0
        /\ \A i \in 1..(n - (k + 1) + 1) : ring[i] = r.ring[(k + 1) + i - 1]
    BY <2>2, <2>3, SubSeqProperties
  <2>5. Len(ring) = n - k
    BY <2>4
  <2>6. ASSUME NEW i \in 1..(n - k)
        PROVE  k + i \in 1..n /\ ring[i] = r.ring[k + i]
    <3>1. i \in 1..(n - (k + 1) + 1) /\ (k + 1) + i - 1 = k + i
      OBVIOUS
    <3>. QED BY <2>4, <3>1
  <2>. QED BY <2>1, <2>4, <2>5, <2>6
<1>. HIDE DEF ring, out, acked
<1>7. k \in Nat /\ (k > 0 => base + k <= s) /\ (m > 0 => s < base + k + 1)
  BY <1>5, <1>6
<1>8. Ends(r, s, ring, n, base, k, m)
  <2>1. n = Len(r.ring) /\ m + k = n /\ r.seq = base + n /\ base <= Later(r.acked, r.lost)
    BY <1>2, <1>6
  <2>2. /\ \A i \in 1..n : r.ring[i].seq = base + i
        /\ ring \in Seq(DataFrame) /\ Len(ring) = m
        /\ \A i \in 1..m : k + i \in 1..n /\ ring[i] = r.ring[k + i]
    BY <1>2, <1>6
  <2>. QED BY <1>7, <2>1, <2>2 DEF Ends
<1>. QED BY <1>7, <1>8 DEF ring

\* ResumeBuffer::ack: what leaves in front was acknowledged.
LEMMA AckGood ==
    ASSUME NEW r, Good(r), NEW s \in Nat
    PROVE  Good(RingAck(r, s))
<1>. DEFINE ring == Past(r.ring, s)
            next == [r EXCEPT !.acked = s, !.ring = ring]
<1>1. CASE s <= r.acked
  BY <1>1 DEF RingAck
<1>2. CASE ~(s <= r.acked)
  <2>1. RingAck(r, s) = next
    BY <1>2 DEF RingAck
  <2>. HIDE DEF next
  <2>2. PICK n \in Nat, base \in Nat, k \in Nat, m \in Nat : Ends(r, s, ring, n, base, k, m)
    BY PastEnd
  <2>. HIDE DEF ring
  <2>3. r.ring \in Seq(DataFrame) /\ n <= RingFrames /\ RingFrames \in Nat
    BY <2>2, SizeAssumption DEF Good, Typed, Ends
  <2>4. Line(ring, r.held, r.pushed)
    <3>1. Line(r.ring, r.held, r.pushed)
      BY DEF Good
    <3>2. k \in 0..Len(r.ring) /\ Len(ring) = Len(r.ring) - k
      BY <2>2 DEF Ends
    <3>3. \A i \in 1..Len(ring) : k + i \in 1..Len(r.ring) /\ ring[i] = r.ring[k + i]
      BY <2>2 DEF Ends
    <3>. QED BY <2>3, <2>2, <3>1, <3>2, <3>3, LineEnd DEF Ends
  <2>5. /\ DOMAIN next = Fields /\ next.ring = ring /\ next.acked = s
        /\ \A x \in Fields \ {"ring", "acked"} : next[x] = r[x]
    BY DEF Fields, Good, Typed, next
  <2>6. /\ next.live = r.live /\ next.gen = r.gen /\ next.held = r.held /\ next.seq = r.seq
        /\ next.lost = r.lost /\ next.credit = r.credit
        /\ next.detached = r.detached /\ next.attached = r.attached
        /\ next.attaching = r.attaching /\ next.pushed = r.pushed
    BY <2>5 DEF Fields
  <2>. HIDE DEF next
  <2>7. Typed(next)
    <3>1. Len(ring) <= RingFrames
      BY <2>3, <2>2 DEF Ends
    <3>. QED BY <2>2, <2>5, <2>6, <3>1 DEF Good, Typed, Ends
  <2>8. Window(next)
    <3>1. Len(next.ring) = m /\ next.seq = base + k + m
      <4>1. next.seq = base + n /\ Len(next.ring) = m
        BY <2>2, <2>5, <2>6 DEF Ends
      <4>2. base + n = base + k + m
        <5>1. m + k = n
          BY <2>2 DEF Ends
        <5>. QED BY <5>1
      <4>. QED BY <4>1, <4>2
    <3>2. next.seq - m = base + k /\ m <= next.seq
      BY <3>1
    <3>3. ASSUME NEW i \in 1..m PROVE next.ring[i].seq = base + k + i
      <4>1. next.ring[i] = r.ring[k + i] /\ k + i \in 1..n
        BY <2>2, <2>5 DEF Ends
      <4>2. r.ring[k + i].seq = base + (k + i)
        BY <2>2, <4>1 DEF Ends
      <4>. QED BY <4>1, <4>2
    <3>4. base + k <= Later(s, r.lost)
      <4>1. r.acked \in Nat /\ r.lost \in Nat
        BY DEF Good, Typed
      <4>2. CASE k = 0
        BY <1>2, <2>2, <4>1, <4>2 DEF Later, Ends
      <4>3. CASE k > 0
        BY <2>2, <4>1, <4>3 DEF Later, Ends
      <4>. QED BY <4>2, <4>3
    <3>. QED BY <2>5, <2>6, <3>1, <3>2, <3>3, <3>4 DEF Window
  <2>9. Line(next.ring, next.held, next.pushed)
    BY <2>4, <2>5, <2>6
  <2>. QED BY <2>1, <2>7, <2>8, <2>9 DEF Good, next, ring
<1>. QED BY <1>1, <1>2

\* It numbers nothing, and acknowledges what it is told at most.
LEMMA AckKeeps ==
    ASSUME NEW r, Typed(r), NEW s
    PROVE  LET p == RingAck(r, s) IN
           p.live = r.live /\ p.seq = r.seq /\ p.acked \in {r.acked, s}
<1>. DEFINE ring == Past(r.ring, s)
<1>1. RingAck(r, s) = IF s <= r.acked THEN r ELSE [r EXCEPT !.acked = s, !.ring = ring]
  BY DEF RingAck
<1>. HIDE DEF ring
<1>. QED BY <1>1 DEF Typed, Fields

\* What may be on its way to the browser.
Downlinks == [Task -> Seq(Ack \cup DataFrame)]

\* What the downlink's operations leave: a good connection and typed queues.
Kept(c) == (\E n : Good(n) /\ conn' = [conn EXCEPT ![c] = n]) /\ down' \in Downlinks

\* Conn::emit, for bodies that keep the line.
LEMMA EmitOnGood ==
    ASSUME NEW queued \in Downlinks, NEW c, NEW r, Typed(r), Window(r),
           NEW bodies \in Seq(Body), NEW counted,
           Line(r.ring \o NewFrames(r, bodies), r.held, r.pushed),
           EmitOn(queued, c, r, bodies, counted)
    PROVE  Kept(c)
<1>. DEFINE frames == NewFrames(r, bodies)
            next == [RingPush(r, frames) EXCEPT
                       !.seq = @ + Len(bodies), !.credit = IF counted THEN @ - Len(bodies) ELSE @]
            off == [next EXCEPT !.live = None, !.detached = TRUE]
<1>1. Good(next)
  BY EmitGood
<1>2. frames \in Seq(DataFrame)
  BY FramesNumbered
<1>3. /\ \/ conn' = [conn EXCEPT ![c] = next]
         \/ conn' = [conn EXCEPT ![c] = off]
      /\ \/ down' = queued
         \/ r.live \in Task /\ down' = [queued EXCEPT ![r.live] = @ \o frames]
  BY DEF EmitOn, Typed
<1>. HIDE DEF frames, next
<1>4. Good(off)
  <2>1. /\ DOMAIN off = Fields /\ off.live = None /\ off.detached = TRUE
        /\ \A x \in Fields \ {"live", "detached"} : off[x] = next[x]
    BY <1>1 DEF Good, Typed, Fields
  <2>2. /\ off.gen = next.gen /\ off.credit = next.credit
        /\ off.attached = next.attached /\ off.attaching = next.attaching
    BY <2>1 DEF Fields
  <2>3. \A x \in {"seq", "ring", "lost", "acked", "held", "pushed"} : off[x] = next[x]
    BY <2>1 DEF Fields
  <2>4. /\ next.gen \in Nat /\ next.credit \in Int
        /\ next.attached \in BOOLEAN /\ next.attaching \in Nat
    BY <1>1 DEF Good, Typed
  <2>. HIDE DEF off
  <2>. QED BY <1>1, <2>1, <2>2, <2>3, <2>4, TouchedGood
<1>. HIDE DEF off
<1>5. down' \in Downlinks
  <2>1. CASE down' = queued
    BY <2>1
  <2>2. CASE r.live \in Task /\ down' = [queued EXCEPT ![r.live] = @ \o frames]
    <3>1. queued[r.live] \in Seq(Ack \cup DataFrame) /\ frames \in Seq(Ack \cup DataFrame)
      BY <1>2, <2>2 DEF Downlinks
    <3>2. queued[r.live] \o frames \in Seq(Ack \cup DataFrame)
      BY <3>1, ConcatProperties
    <3>. QED BY <2>2, <3>2 DEF Downlinks
  <2>. QED BY <1>3, <2>1, <2>2
<1>. QED BY <1>1, <1>3, <1>4, <1>5 DEF Kept

\* One frame that is not the workload's, or the workload's newest when nothing
\* is held.
LEMMA OneBodyLine ==
    ASSUME NEW r, Good(r), NEW b \in Body,
           \/ b <= 0
           \/ b <= r.pushed /\ r.held = <<>> /\ \A i \in 1..Len(r.ring) : r.ring[i].body < b
    PROVE  Line(r.ring \o NewFrames(r, <<b>>), r.held, r.pushed)
<1>. DEFINE frames == NewFrames(r, <<b>>)
<1>1. <<b>> \in Seq(Body) /\ Len(<<b>>) = 1 /\ <<b>>[1] = b
  OBVIOUS
<1>2. frames \in Seq(DataFrame) /\ Len(frames) = 1 /\ frames[1].body = b
  <2>. DEFINE bodies == <<b>>
  <2>1. bodies \in Seq(Body) /\ Len(bodies) = 1 /\ bodies[1] = b /\ 1 \in 1..1
    BY <1>1
  <2>2. Typed(r)
    BY DEF Good
  <2>. HIDE DEF bodies
  <2>3. /\ NewFrames(r, bodies) \in Seq(DataFrame) /\ Len(NewFrames(r, bodies)) = 1
        /\ NewFrames(r, bodies)[1].body = b
    BY <2>1, <2>2, FramesNumbered
  <2>. QED BY <2>3 DEF bodies
<1>3. r.ring \in Seq(DataFrame) /\ r.held \in Seq(1..MaxPush) /\ r.pushed \in 0..MaxPush
  BY DEF Good, Typed
<1>4. b \in Int /\ MaxPush \in Nat
  BY SizeAssumption DEF Body, Control, Windows, Attached
<1>. HIDE DEF frames
<1>5. Line(r.ring, r.held, r.pushed)
  BY DEF Good
<1>6. Line(frames, r.held, r.pushed)
  <2>1. b <= r.pushed
    BY <1>3, <1>4
  <2>2. \A k \in 1..Len(r.held) : b < r.held[k]
    <3>1. CASE b <= 0
      BY <1>3, <1>4, <3>1
    <3>2. CASE r.held = <<>>
      BY <3>2
    <3>. QED BY <3>1, <3>2
  <2>. QED BY <1>2, <1>5, <2>1, <2>2 DEF Line
<1>7. \A i \in 1..Len(r.ring), j \in 1..Len(frames) :
        frames[j].body >= 1 => r.ring[i].body < frames[j].body
  <2>1. b >= 1 => ~(b <= 0)
    BY <1>4
  <2>. QED BY <1>2, <2>1
<1>. QED BY <1>2, <1>3, <1>5, <1>6, <1>7, LineOn DEF frames

\* Conn::flush_held emits the oldest of what is held: it comes before what
\* stays, and nothing else of the connection changes before the emit.
LEMMA FlushEmits ==
    ASSUME NEW queued \in Downlinks, NEW c, NEW r, Good(r), FlushHeld(queued, c, r)
    PROVE  \E s, bodies, counted :
             /\ EmitOn(queued, c, s, bodies, counted)
             /\ Typed(s) /\ Window(s) /\ bodies \in Seq(Body)
             /\ Line(s.ring \o NewFrames(s, bodies), s.held, s.pushed)
             /\ s.live = r.live /\ s.seq = r.seq /\ s.acked = r.acked
<1>. DEFINE k == IF r.credit <= 0 THEN 0
                 ELSE IF r.credit < Len(r.held) THEN r.credit ELSE Len(r.held)
            held == SubSeq(r.held, k + 1, Len(r.held))
            bodies == SubSeq(r.held, 1, k)
            s == [r EXCEPT !.held = held]
            counted == TRUE
<1>1. EmitOn(queued, c, s, bodies, counted)
  BY DEF FlushHeld
<1>2. r.held \in Seq(1..MaxPush) /\ r.credit \in Int /\ MaxPush \in Nat /\ Len(r.held) <= MaxHeld
  BY SizeAssumption DEF Good, Typed
<1>3. PICK n \in Nat : n = Len(r.held)
  BY <1>2
<1>4. k \in 0..n
  BY <1>2, <1>3
<1>. HIDE DEF k, counted
<1>5. /\ held \in Seq(1..MaxPush) /\ Len(held) = n - k
      /\ \A i \in 1..(n - k) : k + i \in 1..n /\ held[i] = r.held[k + i]
  <2>1. \A i \in (k + 1)..n : r.held[i] \in 1..MaxPush
    BY <1>2, <1>3, <1>4
  <2>2. held = SubSeq(r.held, k + 1, n)
    BY <1>3
  <2>. HIDE DEF held
  <2>3. /\ held \in Seq(1..MaxPush)
        /\ Len(held) = IF k + 1 <= n THEN n - (k + 1) + 1 ELSE 0
        /\ \A i \in 1..(n - (k + 1) + 1) : held[i] = r.held[(k + 1) + i - 1]
    BY <1>4, <2>1, <2>2, SubSeqProperties
  <2>4. Len(held) = n - k
    BY <1>4, <2>3
  <2>5. ASSUME NEW i \in 1..(n - k) PROVE k + i \in 1..n /\ held[i] = r.held[k + i]
    <3>1. i \in 1..(n - (k + 1) + 1) /\ (k + 1) + i - 1 = k + i
      BY <1>4
    <3>. QED BY <1>4, <2>3, <3>1
  <2>. QED BY <2>3, <2>4, <2>5
<1>6. /\ bodies \in Seq(1..MaxPush) /\ Len(bodies) = k
      /\ \A i \in 1..k : i \in 1..n /\ bodies[i] = r.held[i]
  <2>1. \A i \in 1..k : r.held[i] \in 1..MaxPush
    BY <1>2, <1>3, <1>4
  <2>2. /\ bodies \in Seq(1..MaxPush)
        /\ Len(bodies) = IF 1 <= k THEN k - 1 + 1 ELSE 0
        /\ \A i \in 1..(k - 1 + 1) : bodies[i] = r.held[1 + i - 1]
    BY <1>4, <2>1, SubSeqProperties
  <2>. HIDE DEF bodies
  <2>3. Len(bodies) = k
    BY <1>4, <2>2
  <2>4. ASSUME NEW i \in 1..k PROVE i \in 1..n /\ bodies[i] = r.held[i]
    <3>1. i \in 1..(k - 1 + 1) /\ 1 + i - 1 = i
      BY <1>4
    <3>. QED BY <1>4, <2>2, <3>1
  <2>. QED BY <2>2, <2>3, <2>4
<1>. HIDE DEF held, bodies
<1>7. /\ DOMAIN s = Fields /\ s.held = held
      /\ \A x \in Fields \ {"held"} : s[x] = r[x]
  BY DEF Good, Typed, Fields
<1>8. /\ s.live = r.live /\ s.gen = r.gen /\ s.ring = r.ring /\ s.seq = r.seq
      /\ s.lost = r.lost /\ s.acked = r.acked /\ s.credit = r.credit
      /\ s.detached = r.detached /\ s.attached = r.attached
      /\ s.attaching = r.attaching /\ s.pushed = r.pushed
  BY <1>7 DEF Fields
<1>. HIDE DEF s
<1>9. Typed(s)
  <2>1. Len(held) <= MaxHeld
    BY <1>2, <1>3, <1>4, <1>5, SizeAssumption
  <2>. QED BY <1>5, <1>7, <1>8, <2>1 DEF Good, Typed
<1>10. Window(s)
  BY <1>8 DEF Good, Window
<1>11. bodies \in Seq(Body)
  <2>1. 1..MaxPush \subseteq Body
    BY DEF Body
  <2>2. bodies \in Seq(1..MaxPush) /\ Len(bodies) \in Nat
    BY <1>6
  <2>3. ASSUME NEW i \in 1..Len(bodies) PROVE bodies[i] \in Body
    <3>1. bodies[i] \in 1..MaxPush
      BY <2>2, ElementOfSeq
    <3>. QED BY <2>1, <3>1
  <2>4. bodies = [i \in 1..Len(bodies) |-> bodies[i]]
    BY <2>2
  <2>. QED BY <2>2, <2>3, <2>4
<1>12. /\ Line(r.ring, r.held, r.pushed) /\ r.ring \in Seq(DataFrame)
  BY DEF Good, Typed
<1>13. Line(r.ring, held, r.pushed)
  <2>1. ASSUME NEW i \in 1..Len(held) PROVE k + i \in 1..Len(r.held) /\ held[i] = r.held[k + i]
    BY <1>3, <1>5
  <2>2. ASSUME NEW i \in 1..Len(held), NEW j \in 1..Len(held), i < j PROVE held[i] < held[j]
    <3>1. k + i < k + j
      BY <1>4, <2>2
    <3>. QED BY <1>12, <2>1, <3>1 DEF Line
  <2>. QED BY <1>12, <2>1, <2>2 DEF Line
<1>14. Line(s.ring \o NewFrames(s, bodies), s.held, s.pushed)
  <2>. DEFINE frames == NewFrames(s, bodies)
  <2>1. /\ frames \in Seq(DataFrame) /\ Len(frames) = k
        /\ \A i \in 1..k : frames[i].body = r.held[i] /\ i \in 1..Len(r.held)
    BY <1>3, <1>6, <1>9, <1>11, FramesNumbered
  <2>. HIDE DEF frames
  <2>2. Line(frames, held, r.pushed)
    <3>1. ASSUME NEW i \in 1..k, NEW l \in 1..Len(held) PROVE frames[i].body < held[l]
      <4>1. k + l \in 1..Len(r.held) /\ held[l] = r.held[k + l] /\ i < k + l
        BY <1>3, <1>4, <1>5
      <4>. QED BY <1>12, <2>1, <4>1 DEF Line
    <3>. QED BY <1>12, <1>13, <2>1, <3>1 DEF Line
  <2>3. \A i \in 1..Len(r.ring), j \in 1..Len(frames) : r.ring[i].body < frames[j].body
    BY <1>12, <2>1 DEF Line
  <2>4. Line(r.ring \o frames, held, r.pushed)
    BY <1>12, <1>13, <2>1, <2>2, <2>3, LineOn
  <2>. QED BY <1>7, <1>8, <2>4 DEF frames
<1>. QED BY <1>1, <1>8, <1>9, <1>10, <1>11, <1>14

\* So it leaves a good connection.
LEMMA FlushGood ==
    ASSUME NEW queued \in Downlinks, NEW c, NEW r, Good(r), FlushHeld(queued, c, r)
    PROVE  Kept(c)
<1>1. PICK s, bodies, counted :
        /\ EmitOn(queued, c, s, bodies, counted)
        /\ Typed(s) /\ Window(s) /\ bodies \in Seq(Body)
        /\ Line(s.ring \o NewFrames(s, bodies), s.held, s.pushed)
  BY FlushEmits
<1>. QED BY <1>1, EmitOnGood

-----------------------------------------------------------------------------
(* The steps *)

\* What the page sends.
UpFrame ==
    [ty : {"attach"}] \cup [ty : {"ping"}, ack : Nat] \cup [ty : {"credit"}, n : Nat, ack : Nat]

\* The page's transport.
PageType == [sid : Conn \cup {None}, lastSeq : Nat, attached : BOOLEAN,
             sock : Task \cup {None, Gone}, consumed : Nat]

\* What stands around the connections is typed.
Around ==
    /\ task \in [Task -> {"idle", "hello", "serving", "ending"}]
    /\ serves \in [Task -> Conn \cup {None}] /\ gen \in [Task -> Nat]
    /\ hello \in [Task -> [sid : Conn \cup {None}, lastSeq : Nat]]
    /\ upl \in [Task -> Seq(UpFrame)]
    /\ page \in PageType
    /\ recv \in Nat /\ foreign \in BOOLEAN /\ skipped \in {"no", "own", "foreign"}

\* Every connection is good, and so is what is on its way from them.
AllGood == down \in Downlinks /\ \A c \in Conn : Good(conn[c])

GInv == BInv /\ AllGood /\ Around

\* A new connection.
LEMMA NewGood == Good(NewConn)
<1>1. Typed(NewConn)
  <2>1. DOMAIN NewConn = Fields
    BY DEF NewConn, Fields
  <2>2. <<>> \in Seq(DataFrame) /\ <<>> \in Seq(1..MaxPush) /\ Len(<<>>) = 0
    OBVIOUS
  <2>. QED BY <2>1, <2>2, SizeAssumption DEF Typed, NewConn
<1>2. Window(NewConn) /\ Line(NewConn.ring, NewConn.held, NewConn.pushed)
  BY DEF NewConn, Window, Line, Later
<1>. QED BY <1>1, <1>2 DEF Good

\* One connection written back.
LEMMA WrittenGood ==
    ASSUME AllGood, DOMAIN conn = Conn, NEW c \in Conn, Kept(c)
    PROVE  AllGood'
<1>1. PICK n : Good(n) /\ conn' = [conn EXCEPT ![c] = n]
  BY DEF Kept
<1>2. ASSUME NEW x \in Conn PROVE Good(conn'[x])
  <2>1. conn'[x] = IF x = c THEN n ELSE conn[x]
    BY <1>1
  <2>2. Good(conn[x])
    BY DEF AllGood
  <2>. QED BY <1>1, <2>1, <2>2
<1>. QED BY <1>2 DEF AllGood, Kept

\* A frame of the daemon's own.
LEMMA ControlGood ==
    ASSUME AllGood, DOMAIN conn = Conn, NEW c \in Conn, NEW r, Good(r),
           NEW b \in {Control, Attached}, NEW counted, EmitOn(down, c, r, <<b>>, counted)
    PROVE  AllGood'
<1>. DEFINE bodies == <<b>>
<1>1. b \in Body /\ b <= 0
  BY DEF Body, Control, Attached
<1>2. bodies \in Seq(Body)
  BY <1>1
<1>3. Line(r.ring \o NewFrames(r, <<b>>), r.held, r.pushed)
  BY <1>1, OneBodyLine
<1>4. Typed(r) /\ Window(r) /\ down \in Downlinks
  BY DEF Good, AllGood
<1>. HIDE DEF bodies
<1>5. Kept(c)
  BY <1>2, <1>3, <1>4, EmitOnGood DEF bodies
<1>. QED BY <1>5, WrittenGood

\* The relay's frame takes a number, and goes out, waits, or is dropped.
LEMMA RelayGood ==
    ASSUME GInv, NEW c \in Conn, FromRelay(c)
    PROVE  AllGood'
<1>. DEFINE r == [conn[c] EXCEPT !.pushed = @ + 1]
            h == [r EXCEPT !.held = Append(@, r.pushed)]
            counted == TRUE
            uncounted == FALSE
<1>1. Good(conn[c]) /\ down \in Downlinks /\ DOMAIN conn = Conn /\ AllGood
  BY DEF GInv, AllGood, BInv, Shapes
<1>2. PICK p \in Nat : p = conn[c].pushed /\ p < MaxPush /\ MaxPush \in Nat
  BY <1>1, SizeAssumption DEF FromRelay, Good, Typed
<1>3. /\ DOMAIN r = Fields /\ r.pushed = p + 1
      /\ \A x \in Fields \ {"pushed"} : r[x] = conn[c][x]
  BY <1>1, <1>2 DEF Good, Typed, Fields
<1>4. /\ r.live = conn[c].live /\ r.gen = conn[c].gen /\ r.ring = conn[c].ring
      /\ r.seq = conn[c].seq /\ r.lost = conn[c].lost /\ r.acked = conn[c].acked
      /\ r.credit = conn[c].credit /\ r.held = conn[c].held
      /\ r.detached = conn[c].detached /\ r.attached = conn[c].attached
      /\ r.attaching = conn[c].attaching
  BY <1>3 DEF Fields
<1>5. (\/ EmitOn(down, c, r, <<r.pushed>>, counted) /\ r.held = <<>>
       \/ EmitOn(down, c, r, <<Control>>, uncounted)
       \/ conn' = [conn EXCEPT ![c] = h] /\ down' = down /\ ~(Len(r.held) >= MaxHeld))
  BY DEF FromRelay, PushWorkload, Emit
<1>. HIDE DEF r, counted, uncounted
<1>6. /\ Line(conn[c].ring, conn[c].held, p)
      /\ conn[c].ring \in Seq(DataFrame) /\ conn[c].held \in Seq(1..MaxPush)
      /\ Len(conn[c].held) <= MaxHeld
  BY <1>1, <1>2 DEF Good, Typed
<1>7. \A i \in 1..Len(r.ring) : r.ring[i].body \in Int /\ r.ring[i].body < p + 1
  <2>1. ASSUME NEW i \in 1..Len(conn[c].ring)
        PROVE  conn[c].ring[i].body \in Int /\ conn[c].ring[i].body <= p
    <3>1. conn[c].ring[i] \in DataFrame
      BY <1>6, ElementOfSeq
    <3>. QED BY <1>2, <1>6, <3>1 DEF Line, DataFrame, Body, Control, Windows, Attached
  <2>. QED BY <1>4, <2>1
<1>8. \A i \in 1..Len(r.held) : r.held[i] \in Int /\ r.held[i] < p + 1
  <2>1. ASSUME NEW i \in 1..Len(conn[c].held)
        PROVE  conn[c].held[i] \in Int /\ conn[c].held[i] <= p
    <3>1. conn[c].held[i] \in 1..MaxPush
      BY <1>6, ElementOfSeq
    <3>. QED BY <1>6, <3>1 DEF Line
  <2>. QED BY <1>4, <2>1
<1>9. Good(r)
  <2>1. Typed(r)
    BY <1>1, <1>2, <1>3, <1>4 DEF Good, Typed
  <2>2. Window(r)
    BY <1>1, <1>4 DEF Good, Window
  <2>3. Line(r.ring, r.held, r.pushed)
    <3>1. \A i \in 1..Len(r.ring) : r.ring[i].body <= p + 1
      BY <1>7
    <3>2. \A i \in 1..Len(r.held) : r.held[i] <= p + 1
      BY <1>8
    <3>. QED BY <1>3, <1>4, <1>6, <3>1, <3>2 DEF Line
  <2>. QED BY <2>1, <2>2, <2>3 DEF Good
<1>10. Typed(r) /\ Window(r)
  BY <1>9 DEF Good
<1>11. CASE EmitOn(down, c, r, <<r.pushed>>, counted) /\ r.held = <<>>
  <2>1. r.pushed \in Body /\ r.pushed <= r.pushed
    BY <1>2, <1>3 DEF Body
  <2>2. \A i \in 1..Len(r.ring) : r.ring[i].body < r.pushed
    BY <1>3, <1>7
  <2>3. Line(r.ring \o NewFrames(r, <<r.pushed>>), r.held, r.pushed)
    BY <1>9, <1>11, <2>1, <2>2, OneBodyLine
  <2>. DEFINE bodies == <<r.pushed>>
  <2>4. bodies \in Seq(Body)
    BY <2>1
  <2>. HIDE DEF bodies
  <2>5. Kept(c)
    BY <1>1, <1>10, <1>11, <2>3, <2>4, EmitOnGood DEF bodies
  <2>. QED BY <1>1, <2>5, WrittenGood
<1>12. CASE EmitOn(down, c, r, <<Control>>, uncounted)
  BY <1>1, <1>9, <1>12, ControlGood
<1>13. CASE conn' = [conn EXCEPT ![c] = h] /\ down' = down /\ ~(Len(r.held) >= MaxHeld)
  <2>1. /\ DOMAIN h = Fields /\ h.held = Append(r.held, p + 1)
        /\ \A x \in Fields \ {"held"} : h[x] = r[x]
    BY <1>3 DEF Fields
  <2>2. /\ h.live = r.live /\ h.gen = r.gen /\ h.ring = r.ring /\ h.seq = r.seq
        /\ h.lost = r.lost /\ h.acked = r.acked /\ h.credit = r.credit
        /\ h.detached = r.detached /\ h.attached = r.attached
        /\ h.attaching = r.attaching /\ h.pushed = r.pushed
    BY <2>1 DEF Fields
  <2>. HIDE DEF h
  <2>3. PICK n \in Nat : n = Len(r.held)
    BY <1>4, <1>6
  <2>4. /\ r.held \in Seq(1..MaxPush) /\ p + 1 \in 1..MaxPush
    BY <1>2, <1>4, <1>6
  <2>5. /\ h.held \in Seq(1..MaxPush) /\ Len(h.held) = n + 1
        /\ \A i \in 1..n : h.held[i] = r.held[i]
        /\ h.held[n + 1] = p + 1
    BY <2>1, <2>3, <2>4, AppendProperties
  <2>6. Typed(h)
    <3>1. Len(h.held) <= MaxHeld
      BY <1>13, <2>3, <2>5, SizeAssumption
    <3>. QED BY <1>10, <2>1, <2>2, <2>5, <3>1 DEF Typed
  <2>7. Window(h)
    BY <1>10, <2>2 DEF Window
  <2>8. Line(h.ring, h.held, h.pushed)
    <3>1. ASSUME NEW k \in 1..(n + 1)
          PROVE  \/ k \in 1..n /\ h.held[k] = r.held[k]
                 \/ k = n + 1 /\ h.held[k] = p + 1
      BY <2>5
    <3>2. Line(r.ring, r.held, p + 1)
      BY <1>3, <1>9 DEF Good
    <3>3. ASSUME NEW i \in 1..Len(r.ring), NEW k \in 1..(n + 1)
          PROVE  r.ring[i].body < h.held[k]
      <4>1. CASE k \in 1..n /\ h.held[k] = r.held[k]
        BY <2>3, <3>2, <4>1 DEF Line
      <4>2. CASE k = n + 1 /\ h.held[k] = p + 1
        BY <1>7, <4>2
      <4>. QED BY <3>1, <4>1, <4>2
    <3>4. ASSUME NEW k \in 1..(n + 1), NEW l \in 1..(n + 1), k < l
          PROVE  h.held[k] < h.held[l]
      <4>1. k \in 1..n /\ h.held[k] = r.held[k]
        BY <3>1, <3>4
      <4>2. CASE l \in 1..n /\ h.held[l] = r.held[l]
        BY <2>3, <3>2, <3>4, <4>1, <4>2 DEF Line
      <4>3. CASE l = n + 1 /\ h.held[l] = p + 1
        BY <1>8, <2>3, <4>1, <4>3
      <4>. QED BY <3>1, <4>2, <4>3
    <3>5. ASSUME NEW k \in 1..(n + 1) PROVE h.held[k] <= p + 1
      <4>1. CASE k \in 1..n /\ h.held[k] = r.held[k]
        BY <2>3, <3>2, <4>1 DEF Line
      <4>2. CASE k = n + 1 /\ h.held[k] = p + 1
        BY <4>2
      <4>. QED BY <3>1, <4>1, <4>2
    <3>. QED BY <1>3, <2>2, <2>5, <3>2, <3>3, <3>4, <3>5 DEF Line
  <2>9. Good(h)
    BY <2>6, <2>7, <2>8 DEF Good
  <2>10. Kept(c)
    BY <1>1, <1>13, <2>9 DEF Kept
  <2>. QED BY <1>1, <2>10, WrittenGood
<1>. QED BY <1>5, <1>11, <1>12, <1>13

\* A connection whose binding is gone.
LEMMA UnboundGood ==
    ASSUME NEW r, Good(r), NEW bound \in BOOLEAN
    PROVE  Good([r EXCEPT !.attached = bound])
<1>. DEFINE n == [r EXCEPT !.attached = bound]
<1>1. /\ DOMAIN r = Fields /\ r.live \in Task \cup {None, Gone}
      /\ r.gen \in Nat /\ r.credit \in Int /\ r.detached \in BOOLEAN /\ r.attaching \in Nat
  BY DEF Good, Typed
<1>2. /\ DOMAIN n = Fields /\ n.live = r.live /\ n.gen = r.gen /\ n.credit = r.credit
      /\ n.detached = r.detached /\ n.attached = bound /\ n.attaching = r.attaching
      /\ \A x \in {"seq", "ring", "lost", "acked", "held", "pushed"} : n[x] = r[x]
  BY <1>1 DEF Fields
<1>. HIDE DEF n
<1>3. Good(n)
  BY <1>1, <1>2, TouchedGood
<1>. QED BY <1>3 DEF n

\* ATTACHED, or the NOTICE that the relay did not come.
LEMMA AnswerGood ==
    ASSUME GInv, NEW c \in Conn, AttachAnswers(c)
    PROVE  AllGood'
<1>. DEFINE r == [conn[c] EXCEPT !.attaching = @ - 1]
            u == [r EXCEPT !.attached = FALSE]
            uncounted == FALSE
<1>1. Good(conn[c]) /\ DOMAIN conn = Conn /\ AllGood
  BY DEF GInv, AllGood, BInv, Shapes
<1>2. /\ DOMAIN conn[c] = Fields /\ conn[c].live \in Task \cup {None, Gone}
      /\ conn[c].gen \in Nat /\ conn[c].credit \in Int /\ conn[c].detached \in BOOLEAN
      /\ conn[c].attached \in BOOLEAN /\ conn[c].attaching - 1 \in Nat
  BY <1>1 DEF AttachAnswers, Good, Typed
<1>3. \/ EmitOn(down, c, r, <<Attached>>, uncounted)
      \/ EmitOn(down, c, u, <<Control>>, uncounted)
  BY DEF AttachAnswers, Emit
<1>4. Good(r)
  <2>1. /\ DOMAIN r = Fields /\ r.live = conn[c].live /\ r.gen = conn[c].gen
        /\ r.credit = conn[c].credit /\ r.detached = conn[c].detached
        /\ r.attached = conn[c].attached /\ r.attaching = conn[c].attaching - 1
        /\ \A x \in {"seq", "ring", "lost", "acked", "held", "pushed"} : r[x] = conn[c][x]
    BY <1>2 DEF Fields
  <2>. HIDE DEF r
  <2>. QED BY <1>1, <1>2, <2>1, TouchedGood
<1>5. Good(u)
  <2>1. FALSE \in BOOLEAN
    OBVIOUS
  <2>. HIDE DEF r
  <2>. QED BY <1>4, <2>1, UnboundGood
<1>. HIDE DEF r, u, uncounted
<1>6. Control \in {Control, Attached} /\ Attached \in {Control, Attached}
  OBVIOUS
<1>. QED BY <1>1, <1>3, <1>4, <1>5, <1>6, ControlGood

\* What the page says is what it says it is.
LEMMA Said ==
    ASSUME GInv, NEW t \in Task, upl[t] # <<>>
    PROVE  /\ Head(upl[t]) \in UpFrame /\ Tail(upl[t]) \in Seq(UpFrame)
           /\ Head(upl[t]).ty = "ping" => Head(upl[t]).ack \in Nat
           /\ Head(upl[t]).ty = "credit" => Head(upl[t]).ack \in Nat /\ Head(upl[t]).n \in Nat
<1>1. upl[t] \in Seq(UpFrame)
  BY DEF GInv, Around
<1>2. Head(upl[t]) \in UpFrame /\ Tail(upl[t]) \in Seq(UpFrame)
  BY <1>1, HeadTailProperties
<1>. QED BY <1>2 DEF UpFrame

\* A serving task has a connection, and that is good.
LEMMA ServedGood ==
    ASSUME GInv, NEW t \in Task, Busy(t)
    PROVE  serves[t] \in Conn /\ Good(conn[serves[t]]) /\ DOMAIN conn = Conn /\ AllGood
  BY DEF GInv, BInv, Shapes, AllGood

\* Conn::grant: what it flushes afterwards.
Granted(r, s, n) == [RingAck(r, s) EXCEPT !.credit = @ + n]

LEMMA GrantGood ==
    ASSUME NEW r, Good(r), NEW s \in Nat, NEW n \in Nat
    PROVE  LET g == Granted(r, s, n) IN
           Good(g) /\ g.live = r.live /\ g.seq = r.seq /\ g.acked \in {r.acked, s}
<1>. DEFINE ack == RingAck(r, s)
            g == [ack EXCEPT !.credit = @ + n]
<1>1. /\ Good(ack) /\ ack.live = r.live /\ ack.seq = r.seq /\ ack.acked \in {r.acked, s}
  BY AckGood, AckKeeps DEF Good
<1>. HIDE DEF ack
<1>2. /\ DOMAIN ack = Fields /\ ack.live \in Task \cup {None, Gone}
      /\ ack.gen \in Nat /\ ack.credit \in Int /\ ack.detached \in BOOLEAN
      /\ ack.attached \in BOOLEAN /\ ack.attaching \in Nat
  BY <1>1 DEF Good, Typed
<1>3. /\ DOMAIN g = Fields /\ g.live = ack.live /\ g.gen = ack.gen
      /\ g.credit = ack.credit + n /\ g.detached = ack.detached
      /\ g.attached = ack.attached /\ g.attaching = ack.attaching
      /\ \A x \in {"seq", "ring", "lost", "acked", "held", "pushed"} : g[x] = ack[x]
  BY <1>2 DEF Fields
<1>4. g.credit \in Int /\ g.seq = ack.seq /\ g.acked = ack.acked
  BY <1>2, <1>3
<1>. HIDE DEF g
<1>5. Good(g)
  BY <1>1, <1>2, <1>3, <1>4, TouchedGood
<1>6. g = Granted(r, s, n)
  BY DEF g, ack, Granted
<1>. QED BY <1>1, <1>3, <1>4, <1>5, <1>6

\* CREDIT, PING and ATTACH.
LEMMA HeardGood ==
    ASSUME GInv, NEW t \in Task, Credit(t) \/ Ping(t) \/ Attach(t)
    PROVE  AllGood'
<1>. DEFINE s == serves[t]
            ack == RingAck(conn[s], Head(upl[t]).ack)
            credited == [ack EXCEPT !.credit = @ + Head(upl[t]).n]
            bound == [conn[s] EXCEPT !.attached = TRUE, !.attaching = @ + 1]
            uncounted == FALSE
<1>1. s \in Conn /\ Good(conn[s]) /\ DOMAIN conn = Conn /\ AllGood /\ upl[t] # <<>>
  BY ServedGood DEF Credit, Ping, Attach, Busy
<1>2. CASE Credit(t)
  <2>1. /\ FlushHeld(down, s, credited)
        /\ Head(upl[t]).ack \in Nat /\ Head(upl[t]).n \in Nat
    BY <1>1, <1>2, Said DEF Credit
  <2>2. Good(credited)
    BY <1>1, <2>1, GrantGood DEF Granted
  <2>. HIDE DEF credited, s
  <2>3. Kept(s)
    BY <1>1, <2>1, <2>2, FlushGood DEF AllGood
  <2>. QED BY <1>1, <2>3, WrittenGood
<1>3. CASE Ping(t)
  <2>1. EmitOn(down, s, ack, <<Control>>, uncounted) /\ Head(upl[t]).ack \in Nat
    BY <1>1, <1>3, Said DEF Ping, Emit
  <2>2. Good(ack)
    BY <1>1, <2>1, AckGood
  <2>. HIDE DEF ack, s, uncounted
  <2>. QED BY <1>1, <2>1, <2>2, ControlGood
<1>4. CASE Attach(t)
  <2>1. conn' = [conn EXCEPT ![s] = bound] /\ down' = down
    BY <1>1, <1>4 DEF Attach, Good, Typed, Fields
  <2>2. Good(bound)
    <3>1. /\ DOMAIN conn[s] = Fields /\ conn[s].live \in Task \cup {None, Gone}
          /\ conn[s].gen \in Nat /\ conn[s].credit \in Int /\ conn[s].detached \in BOOLEAN
          /\ conn[s].attaching \in Nat
      BY <1>1 DEF Good, Typed
    <3>2. /\ DOMAIN bound = Fields /\ bound.live = conn[s].live /\ bound.gen = conn[s].gen
          /\ bound.credit = conn[s].credit /\ bound.detached = conn[s].detached
          /\ bound.attached = TRUE /\ bound.attaching = conn[s].attaching + 1
          /\ \A x \in {"seq", "ring", "lost", "acked", "held", "pushed"} : bound[x] = conn[s][x]
      BY <3>1 DEF Fields
    <3>3. bound.attaching \in Nat
      BY <3>1, <3>2
    <3>. HIDE DEF bound, s
    <3>. QED BY <1>1, <3>1, <3>2, <3>3, TouchedGood
  <2>. HIDE DEF bound, s
  <2>3. Kept(s)
    BY <1>1, <2>1, <2>2 DEF Kept, AllGood
  <2>. QED BY <1>1, <2>3, WrittenGood
<1>. QED BY <1>2, <1>3, <1>4

\* Conn::resume: the ack and the replay it queues, and the state it flushes.
Replayed(t) ==
    [down EXCEPT ![t] = <<[sid |-> hello[t].sid, resumed |-> TRUE]>>
                          \o Past(conn[hello[t].sid].ring, hello[t].lastSeq)]
Resumed(t) ==
    [RingAck(conn[hello[t].sid], hello[t].lastSeq) EXCEPT
        !.live = t, !.gen = @ + 1, !.detached = FALSE, !.credit = InitialCredit]

LEMMA ResumeFlushes ==
    ASSUME GInv, NEW t \in Task, Resume(t)
    PROVE  LET c == hello[t].sid
               r == Resumed(t)
           IN /\ c \in Conn /\ Good(conn[c]) /\ DOMAIN conn = Conn
              /\ FlushHeld(Replayed(t), c, r) /\ Replayed(t) \in Downlinks
              /\ Good(r) /\ r.live = t /\ r.seq = conn[c].seq
              /\ r.acked \in {conn[c].acked, hello[t].lastSeq}
<1>. DEFINE c == hello[t].sid
            last == hello[t].lastSeq
            ack == RingAck(conn[c], last)
            r == [ack EXCEPT !.live = t, !.gen = @ + 1, !.detached = FALSE,
                             !.credit = InitialCredit]
            said == <<[sid |-> c, resumed |-> TRUE]>>
            replay == Past(conn[c].ring, last)
            queued == [down EXCEPT ![t] = said \o replay]
<1>1. /\ c \in Conn /\ last \in Nat /\ Good(conn[c]) /\ DOMAIN conn = Conn /\ AllGood
  BY DEF Resume, GInv, BInv, Shapes, Around, AllGood
<1>2. FlushHeld(queued, c, r) /\ r = Resumed(t) /\ queued = Replayed(t)
  BY DEF Resume, Resumed, Replayed
<1>3. Good(ack) /\ ack.seq = conn[c].seq /\ ack.acked \in {conn[c].acked, last}
  BY <1>1, AckGood, AckKeeps DEF Good
<1>4. queued \in Downlinks
  <2>1. replay \in Seq(DataFrame)
    <3>1. PICK n \in Nat, base \in Nat, k \in Nat, m \in Nat :
            Ends(conn[c], last, replay, n, base, k, m)
      BY <1>1, PastEnd
    <3>. QED BY <3>1 DEF Ends
  <2>2. [sid |-> c, resumed |-> TRUE] \in Ack
    BY <1>1 DEF Ack
  <2>3. said \in Seq(Ack \cup DataFrame) /\ replay \in Seq(Ack \cup DataFrame)
    BY <2>1, <2>2
  <2>. HIDE DEF said, replay
  <2>4. said \o replay \in Seq(Ack \cup DataFrame)
    BY <2>3, ConcatProperties
  <2>. QED BY <1>1, <2>4 DEF AllGood, Downlinks
<1>. HIDE DEF ack, queued, c
<1>5. Good(r) /\ r.live = t /\ r.seq = ack.seq /\ r.acked = ack.acked
  <2>1. /\ DOMAIN ack = Fields /\ ack.gen \in Nat
        /\ ack.attached \in BOOLEAN /\ ack.attaching \in Nat
    BY <1>3 DEF Good, Typed
  <2>2. /\ DOMAIN r = Fields /\ r.live = t /\ r.gen = ack.gen + 1
        /\ r.credit = InitialCredit /\ r.detached = FALSE
        /\ r.attached = ack.attached /\ r.attaching = ack.attaching
        /\ \A x \in {"seq", "ring", "lost", "acked", "held", "pushed"} : r[x] = ack[x]
    BY <2>1 DEF Fields
  <2>3. r.gen \in Nat /\ r.credit \in Int
    BY <2>1, <2>2, SizeAssumption
  <2>. HIDE DEF r
  <2>4. Good(r)
    BY <1>3, <2>1, <2>2, <2>3, TouchedGood
  <2>. QED BY <2>2, <2>4
<1>. HIDE DEF r
<1>6. /\ FlushHeld(Replayed(t), c, Resumed(t)) /\ Replayed(t) \in Downlinks
      /\ Good(Resumed(t)) /\ Resumed(t).live = t /\ Resumed(t).seq = conn[c].seq
      /\ Resumed(t).acked \in {conn[c].acked, last}
  BY <1>2, <1>3, <1>4, <1>5
<1>. QED BY <1>1, <1>6 DEF c

\* So it leaves a good connection.
LEMMA ResumeGood ==
    ASSUME GInv, NEW t \in Task, Resume(t)
    PROVE  AllGood'
<1>1. /\ hello[t].sid \in Conn /\ Good(Resumed(t)) /\ Replayed(t) \in Downlinks
      /\ FlushHeld(Replayed(t), hello[t].sid, Resumed(t))
  BY ResumeFlushes
<1>2. Kept(hello[t].sid)
  BY <1>1, FlushGood
<1>. QED BY <1>1, <1>2, WrittenGood DEF GInv, BInv, Shapes

\* new_conn, its ack and its WINDOWS.
LEMMA EstablishGood ==
    ASSUME GInv, NEW t \in Task, NEW c \in Conn, NEW gone, Establish(t, c, gone)
    PROVE  AllGood'
<1>. DEFINE frames == NewFrames(NewConn, <<Windows>>)
            pushed == RingPush(NewConn, frames)
            bodies == <<Windows>>
            uncounted == FALSE
            emitted == [pushed EXCEPT !.seq = @ + Len(bodies),
                                      !.credit = IF uncounted THEN @ - Len(bodies) ELSE @]
            fresh == [pushed EXCEPT !.live = t, !.gen = 1, !.seq = 1]
            said == [sid |-> c, resumed |-> FALSE]
            windows == [seq |-> 1, body |-> Windows]
<1>1. AllGood /\ DOMAIN conn = Conn
  BY DEF GInv, BInv, Shapes
<1>2. /\ Windows \in Body /\ Windows <= 0 /\ bodies \in Seq(Body) /\ Len(bodies) = 1
  BY DEF Body, Windows
<1>3. Typed(NewConn) /\ Window(NewConn)
  BY NewGood DEF Good
<1>4. Line(NewConn.ring \o NewFrames(NewConn, <<Windows>>), NewConn.held, NewConn.pushed)
  BY <1>2, NewGood, OneBodyLine
<1>5. Good(emitted)
  <2>. HIDE DEF uncounted
  <2>1. bodies \in Seq(Body)
    BY <1>2
  <2>. QED BY <1>3, <1>4, <2>1, EmitGood
<1>6. /\ DOMAIN pushed = Fields /\ pushed.seq = 0 /\ pushed.credit = InitialCredit
      /\ pushed.detached = FALSE /\ pushed.attached = FALSE /\ pushed.attaching = 0
  <2>1. frames \in Seq(DataFrame)
    BY <1>2, <1>3, FramesNumbered
  <2>. HIDE DEF frames
  <2>2. DOMAIN pushed = Fields /\ \A x \in Fields \ {"ring", "lost"} : pushed[x] = NewConn[x]
    BY <1>3, <2>1, RingPushTail
  <2>. HIDE DEF pushed
  <2>. QED BY <2>2 DEF NewConn, Fields
<1>. HIDE DEF pushed, frames
<1>7. Good(fresh)
  <2>1. /\ DOMAIN fresh = Fields /\ fresh.live = t /\ fresh.gen = 1 /\ fresh.credit = InitialCredit
        /\ fresh.detached = FALSE /\ fresh.attached = FALSE /\ fresh.attaching = 0
    BY <1>6 DEF Fields
  <2>2. \A x \in {"seq", "ring", "lost", "acked", "held", "pushed"} : fresh[x] = emitted[x]
    <3>1. fresh.seq = 1 /\ \A x \in Fields \ {"live", "gen", "seq"} : fresh[x] = pushed[x]
      BY <1>6 DEF Fields
    <3>2. /\ emitted.seq = 0 + Len(bodies)
          /\ \A x \in Fields \ {"seq", "credit"} : emitted[x] = pushed[x]
      BY <1>6 DEF Fields
    <3>3. emitted.seq = 1
      BY <1>2, <3>2
    <3>. HIDE DEF fresh, emitted
    <3>. QED BY <3>1, <3>2, <3>3 DEF Fields
  <2>3. fresh.credit \in Int /\ fresh.gen \in Nat /\ fresh.attaching \in Nat
    BY <2>1, SizeAssumption
  <2>. HIDE DEF fresh, emitted
  <2>. QED BY <1>5, <2>1, <2>2, <2>3, TouchedGood
<1>8. conn' = [x \in Conn |-> IF x = c THEN fresh
                               ELSE [conn[x] EXCEPT !.attached = @ /\ x \notin gone]]
  BY DEF Establish, fresh, pushed, frames
<1>. HIDE DEF fresh
<1>9. ASSUME NEW x \in Conn PROVE Good(conn'[x])
  <2>. DEFINE bound == conn[x].attached /\ x \notin gone
  <2>1. conn'[x] = IF x = c THEN fresh ELSE [conn[x] EXCEPT !.attached = bound]
    BY <1>8
  <2>2. bound \in BOOLEAN /\ Good(conn[x])
    BY <1>1 DEF AllGood
  <2>. HIDE DEF bound
  <2>. QED BY <1>7, <2>1, <2>2, UnboundGood
<1>10. down' \in Downlinks
  <2>1. said \in Ack /\ windows \in DataFrame
    BY <1>2 DEF Ack, DataFrame
  <2>2. down' = [down EXCEPT ![t] = <<said, windows>>]
    BY DEF Establish
  <2>. HIDE DEF said, windows
  <2>3. <<said, windows>> \in Seq(Ack \cup DataFrame)
    BY <2>1
  <2>. QED BY <1>1, <2>2, <2>3 DEF AllGood, Downlinks
<1>. QED BY <1>9, <1>10 DEF AllGood

\* A task that leaves, with or without the binding it owned.
LEMMA LeaveGood ==
    ASSUME GInv, NEW t \in Task, SocketDropped(t) \/ EndConn(t)
    PROVE  AllGood'
<1>. DEFINE c == serves[t]
            dropped == [conn[c] EXCEPT !.live = None, !.detached = TRUE]
            ended == [conn[c] EXCEPT !.live = Gone, !.attached = FALSE]
<1>1. c \in Conn /\ Good(conn[c]) /\ DOMAIN conn = Conn /\ AllGood
  BY ServedGood DEF SocketDropped, EndConn, Busy
<1>2. /\ DOMAIN conn[c] = Fields /\ conn[c].gen \in Nat /\ conn[c].credit \in Int
      /\ conn[c].detached \in BOOLEAN /\ conn[c].attached \in BOOLEAN
      /\ conn[c].attaching \in Nat
  BY <1>1 DEF Good, Typed
<1>3. Good(dropped)
  <2>1. /\ DOMAIN dropped = Fields /\ dropped.live = None /\ dropped.gen = conn[c].gen
        /\ dropped.credit = conn[c].credit /\ dropped.detached = TRUE
        /\ dropped.attached = conn[c].attached /\ dropped.attaching = conn[c].attaching
        /\ \A x \in {"seq", "ring", "lost", "acked", "held", "pushed"} : dropped[x] = conn[c][x]
    BY <1>2 DEF Fields
  <2>. HIDE DEF dropped, c
  <2>. QED BY <1>1, <1>2, <2>1, TouchedGood
<1>4. Good(ended)
  <2>1. /\ DOMAIN ended = Fields /\ ended.live = Gone /\ ended.gen = conn[c].gen
        /\ ended.credit = conn[c].credit /\ ended.detached = conn[c].detached
        /\ ended.attached = FALSE /\ ended.attaching = conn[c].attaching
        /\ \A x \in {"seq", "ring", "lost", "acked", "held", "pushed"} : ended[x] = conn[c][x]
    BY <1>2 DEF Fields
  <2>. HIDE DEF ended, c
  <2>. QED BY <1>1, <1>2, <2>1, TouchedGood
<1>5. \/ conn' = conn
      \/ conn' = [conn EXCEPT ![c] = dropped]
      \/ conn' = [conn EXCEPT ![c] = ended]
  <2>1. CASE SocketDropped(t)
    BY <1>1, <1>2, <2>1 DEF SocketDropped, Fields
  <2>2. CASE EndConn(t)
    BY <1>1, <1>2, <2>2 DEF EndConn, Fields
  <2>. QED BY <2>1, <2>2
<1>6. down' \in Downlinks
  <2>1. down' = [down EXCEPT ![t] = <<>>]
    BY DEF SocketDropped, EndConn
  <2>. QED BY <1>1, <2>1 DEF AllGood, Downlinks
<1>. HIDE DEF dropped, ended, c
<1>7. CASE conn' = conn
  BY <1>1, <1>6, <1>7 DEF AllGood
<1>8. CASE ~(conn' = conn)
  <2>1. Kept(c)
    BY <1>3, <1>4, <1>5, <1>6, <1>8 DEF Kept
  <2>. QED BY <1>1, <2>1, WrittenGood
<1>. QED BY <1>7, <1>8

\* The housekeeping unbinds what it ends.
LEMMA SweepGood ==
    ASSUME GInv, Sweep
    PROVE  AllGood'
<1>1. PICK expired :
        conn' = [c \in Conn |-> [conn[c] EXCEPT !.attached = @ /\ c \notin expired]]
  BY DEF Sweep
<1>2. AllGood /\ down' = down
  BY DEF GInv, Sweep
<1>3. ASSUME NEW x \in Conn PROVE Good(conn'[x])
  <2>. DEFINE bound == conn[x].attached /\ x \notin expired
  <2>1. conn'[x] = [conn[x] EXCEPT !.attached = bound]
    BY <1>1
  <2>2. bound \in BOOLEAN /\ Good(conn[x])
    BY <1>2 DEF AllGood
  <2>. HIDE DEF bound
  <2>. QED BY <2>1, <2>2, UnboundGood
<1>. QED BY <1>2, <1>3 DEF AllGood

\* Entering and leaving a socket task's stages keeps their types.
LEMMA EnterTyped ==
    ASSUME Around, NEW t \in Task, NEW where \in {"idle", "hello", "serving", "ending"},
           NEW c \in Conn \cup {None}, NEW g \in Nat, Enter(t, where, c, g)
    PROVE  /\ task' \in [Task -> {"idle", "hello", "serving", "ending"}]
           /\ serves' \in [Task -> Conn \cup {None}] /\ gen' \in [Task -> Nat]
           /\ hello' \in [Task -> [sid : Conn \cup {None}, lastSeq : Nat]]
<1>1. NoResume \in [sid : Conn \cup {None}, lastSeq : Nat]
  BY DEF NoResume
<1>. QED BY <1>1 DEF Around, Enter

\* What the page says is appended to what it said.
LEMMA SayTyped ==
    ASSUME Around, NEW t \in Task, NEW f \in UpFrame, Say(t, f)
    PROVE  upl' \in [Task -> Seq(UpFrame)]
<1>1. Append(upl[t], f) \in Seq(UpFrame)
  BY AppendProperties DEF Around
<1>. QED BY <1>1 DEF Around, Say

\* The page before its first connection, or after it left.
LEMMA NewPageTyped == \A sock \in {None, Gone} : [NewPage EXCEPT !.sock = sock] \in PageType
  BY DEF NewPage, PageType

\* The steps of the socket tasks.
LEMMA TaskAround ==
    ASSUME GInv, NEW t \in Task, TaskStep(t)
    PROVE  Around'
<1>. Around
  BY DEF GInv
<1>1. ASSUME HelloFresh(t) \/ ResumeFails(t) PROVE Around'
  <2>1. PICK c \in Conn : \E gone \in {{}, {hello[t].sid}} : Establish(t, c, gone)
    BY <1>1 DEF HelloFresh, ResumeFails
  <2>2. Enter(t, "serving", c, 1) /\ 1 \in Nat
    BY <2>1 DEF Establish
  <2>3. UNCHANGED <<upl, pageVars>>
    BY <1>1 DEF HelloFresh, ResumeFails
  <2>. QED BY <2>2, <2>3, EnterTyped DEF Around, pageVars
<1>2. ASSUME Resume(t) PROVE Around'
  <2>1. /\ hello[t].sid \in Conn /\ conn[hello[t].sid].gen + 1 \in Nat
        /\ Enter(t, "serving", hello[t].sid, conn[hello[t].sid].gen + 1)
    <3>1. /\ hello[t].sid \in known
          /\ Enter(t, "serving", hello[t].sid, conn[hello[t].sid].gen + 1)
      BY <1>2 DEF Resume
    <3>2. hello[t].sid \in Conn /\ conn[hello[t].sid].gen \in Nat
      BY <3>1 DEF GInv, BInv, Shapes, Shape
    <3>. QED BY <3>1, <3>2
  <2>2. UNCHANGED <<upl, pageVars>>
    BY <1>2 DEF Resume
  <2>. QED BY <2>1, <2>2, EnterTyped DEF Around, pageVars
<1>3. ASSUME Leave(t) PROVE /\ task' \in [Task -> {"idle", "hello", "serving", "ending"}]
                            /\ serves' \in [Task -> Conn \cup {None}] /\ gen' \in [Task -> Nat]
                            /\ hello' \in [Task -> [sid : Conn \cup {None}, lastSeq : Nat]]
                            /\ upl' \in [Task -> Seq(UpFrame)]
  <2>1. Enter(t, "idle", None, 0) /\ 0 \in Nat /\ upl' = [upl EXCEPT ![t] = <<>>]
    BY <1>3 DEF Leave
  <2>2. "idle" \in {"idle", "hello", "serving", "ending"} /\ None \in Conn \cup {None}
    OBVIOUS
  <2>3. upl' \in [Task -> Seq(UpFrame)]
    BY <2>1 DEF Around
  <2>. QED BY <2>1, <2>2, <2>3, EnterTyped
<1>4. ASSUME HelloRefused(t) \/ Ended(t)
      PROVE  page' \in PageType /\ recv' \in Nat /\ foreign' \in BOOLEAN /\ skipped' = skipped
  <2>1. PageLeaves(t)
    BY <1>4 DEF HelloRefused, Ended
  <2>2. CASE Navigate /\ UNCHANGED skipped
    BY <2>2, NewPageTyped DEF Navigate
  <2>3. CASE UNCHANGED pageVars
    BY <2>3 DEF Around, pageVars
  <2>. QED BY <2>1, <2>2, <2>3 DEF PageLeaves
<1>5. ASSUME HelloRefused(t) PROVE Around'
  BY <1>3, <1>4, <1>5 DEF HelloRefused, Around
<1>6. ASSUME Ended(t) PROVE Around'
  BY <1>4, <1>6 DEF Ended, Around
<1>7. ASSUME SocketDropped(t) \/ EndConn(t) PROVE Around'
  BY <1>3, <1>7 DEF SocketDropped, EndConn, Around, pageVars
<1>8. ASSUME Credit(t) \/ Ping(t) \/ Attach(t) PROVE Around'
  <2>1. upl' = [upl EXCEPT ![t] = Tail(@)] /\ Tail(upl[t]) \in Seq(UpFrame)
    BY <1>8, Said DEF Credit, Ping, Attach
  <2>. QED BY <1>8, <2>1 DEF Credit, Ping, Attach, Around, taskVars, pageVars
<1>. QED BY <1>1, <1>2, <1>5, <1>6, <1>7, <1>8 DEF TaskStep

\* The steps of the page.
LEMMA PageAround ==
    ASSUME GInv, NEW t \in Task, PageStep(t)
    PROVE  Around'
<1>. Around /\ down \in Downlinks
  BY DEF GInv, AllGood
<1>1. ASSUME Connect(t) PROVE Around'
  <2>1. [sid |-> page.sid, lastSeq |-> page.lastSeq] \in [sid : Conn \cup {None}, lastSeq : Nat]
    BY DEF Around, PageType
  <2>2. page' \in PageType
    BY <1>1 DEF Connect, Around, PageType
  <2>. QED BY <1>1, <2>1, <2>2 DEF Connect, Around
<1>2. ASSUME Arrives(t) PROVE Head(down[t]) \in Ack \cup DataFrame
  <2>1. down[t] \in Seq(Ack \cup DataFrame) /\ down[t] # <<>>
    BY <1>2 DEF Arrives, Downlinks
  <2>. QED BY <2>1, HeadTailProperties
<1>3. ASSUME HearAck(t) PROVE Around'
  <2>1. Head(down[t]).sid \in Conn
    BY <1>2, <1>3 DEF HearAck, Ack, DataFrame
  <2>2. [ty |-> "attach"] \in UpFrame
    BY DEF UpFrame
  <2>3. upl' \in [Task -> Seq(UpFrame)]
    BY <1>3, <2>2, SayTyped DEF HearAck, Around
  <2>4. /\ task' = task /\ serves' = serves /\ gen' = gen /\ hello' = hello
        /\ skipped' = skipped
    BY <1>3 DEF HearAck, Arrives, taskVars
  <2>5. /\ page' \in PageType
        /\ recv' \in Nat /\ foreign' \in BOOLEAN
    <3>1. CASE Navigate
      BY <3>1, NewPageTyped DEF Navigate
    <3>2. CASE ~Navigate
      <4>1. /\ page' = [page EXCEPT !.sid = Head(down[t]).sid]
            /\ recv' = IF Head(down[t]).resumed THEN recv ELSE 0
            /\ foreign' = IF Head(down[t]).resumed THEN foreign ELSE page.lastSeq # 0
        BY <1>3, <3>2 DEF HearAck
      <4>2. page' \in PageType
        BY <2>1, <4>1 DEF Around, PageType
      <4>. QED BY <4>1, <4>2 DEF Around
    <3>. QED BY <3>1, <3>2
  <2>. QED BY <2>3, <2>4, <2>5 DEF Around
<1>4. ASSUME HearFrame(t) PROVE Around'
  <2>. DEFINE f == Head(down[t])
  <2>1. f.seq \in Nat
    BY <1>2, <1>4 DEF HearFrame, Ack, DataFrame
  <2>2. page.consumed + 1 \in Nat
    BY DEF Around, PageType
  <2>3. [ty |-> "credit", n |-> page.consumed + 1, ack |-> f.seq] \in UpFrame
    BY <2>1, <2>2 DEF UpFrame
  <2>4. upl' \in [Task -> Seq(UpFrame)]
    BY <1>4, <2>3, SayTyped DEF HearFrame, Around
  <2>5. /\ task' = task /\ serves' = serves /\ gen' = gen /\ hello' = hello
        /\ foreign' = foreign /\ recv' = f.seq
    BY <1>4 DEF HearFrame, Arrives, taskVars
  <2>6. skipped' \in {"no", "own", "foreign"}
    BY <1>4 DEF HearFrame, Around
  <2>7. page' \in PageType
    BY <1>4, <2>1, <2>2 DEF HearFrame, Around, PageType
  <2>. QED BY <2>1, <2>4, <2>5, <2>6, <2>7 DEF Around
<1>5. ASSUME Heartbeat(t) PROVE Around'
  <2>1. [ty |-> "ping", ack |-> page.lastSeq] \in UpFrame
    BY DEF UpFrame, Around, PageType
  <2>2. upl' \in [Task -> Seq(UpFrame)]
    BY <1>5, <2>1, SayTyped DEF Heartbeat
  <2>. QED BY <1>5, <2>2 DEF Heartbeat, Around, taskVars, pageVars
<1>. QED BY <1>1, <1>3, <1>4, <1>5 DEF PageStep

\* Every step keeps what the ring, the hold queue and the messages hold.
LEMMA NextGInv == GInv /\ [Next]_vars => GInv'
<1>. SUFFICES ASSUME GInv, [Next]_vars PROVE GInv'
  OBVIOUS
<1>1. BInv'
  BY NextBInv DEF GInv
<1>2. ASSUME UNCHANGED <<conn, down>> PROVE AllGood'
  BY <1>2 DEF GInv, AllGood
<1>3. ASSUME UNCHANGED <<taskVars, upl, pageVars>> PROVE Around'
  BY <1>3 DEF GInv, Around, taskVars, pageVars
<1>4. ASSUME NEW t \in Task, TaskStep(t) PROVE AllGood'
  <2>1. CASE HelloFresh(t) \/ ResumeFails(t)
    BY <2>1, EstablishGood DEF HelloFresh, ResumeFails
  <2>2. CASE HelloRefused(t)
    BY <1>2, <2>2 DEF HelloRefused, daemonVars
  <2>3. CASE Ended(t)
    <3>1. conn' = conn /\ down' = [down EXCEPT ![t] = <<>>]
      BY <2>3 DEF Ended, daemonVars
    <3>. QED BY <3>1 DEF GInv, AllGood, Downlinks
  <2>. QED BY <1>4, <2>1, <2>2, <2>3, ResumeGood, HeardGood, LeaveGood DEF TaskStep
<1>5. ASSUME NEW t \in Task, PageStep(t) PROVE AllGood'
  <2>1. CASE Heartbeat(t)
    BY <1>2, <2>1 DEF Heartbeat, daemonVars
  <2>2. CASE Connect(t) \/ HearAck(t) \/ HearFrame(t)
    <3>1. /\ conn' = conn
          /\ \/ down' = [down EXCEPT ![t] = <<>>]
             \/ down[t] # <<>> /\ down' = [down EXCEPT ![t] = Tail(@)]
      <4>1. CASE Connect(t)
        BY <4>1 DEF Connect, daemonVars
      <4>2. CASE HearAck(t) \/ HearFrame(t)
        <5>1. Arrives(t)
          BY <4>2 DEF HearAck, HearFrame
        <5>. QED BY <5>1 DEF Arrives, daemonVars
      <4>. QED BY <2>2, <4>1, <4>2
    <3>2. down \in Downlinks /\ down[t] \in Seq(Ack \cup DataFrame)
      BY DEF GInv, AllGood, Downlinks
    <3>3. down[t] # <<>> => Tail(down[t]) \in Seq(Ack \cup DataFrame)
      BY <3>2, HeadTailProperties
    <3>4. down' \in Downlinks
      <4>1. <<>> \in Seq(Ack \cup DataFrame)
        OBVIOUS
      <4>2. CASE down' = [down EXCEPT ![t] = <<>>]
        BY <3>2, <4>1, <4>2 DEF Downlinks
      <4>3. CASE down[t] # <<>> /\ down' = [down EXCEPT ![t] = Tail(@)]
        BY <3>2, <3>3, <4>3 DEF Downlinks
      <4>. QED BY <3>1, <4>2, <4>3
    <3>. QED BY <3>1, <3>4 DEF GInv, AllGood
  <2>. QED BY <1>5, <2>1, <2>2 DEF PageStep
<1>6. ASSUME NEW c \in Conn, FromRelay(c) \/ AttachAnswers(c) PROVE AllGood' /\ Around'
  <2>1. UNCHANGED <<taskVars, upl, pageVars>>
    BY <1>6 DEF FromRelay, AttachAnswers
  <2>. QED BY <1>3, <1>6, <2>1, RelayGood, AnswerGood
<1>7. ASSUME Sweep PROVE AllGood' /\ Around'
  BY <1>3, <1>7, SweepGood DEF Sweep
<1>8. ASSUME NetworkDrops PROVE AllGood' /\ Around'
  <2>1. page' \in PageType
    BY <1>8 DEF NetworkDrops, GInv, Around, PageType
  <2>. QED BY <1>2, <1>8, <2>1 DEF NetworkDrops, GInv, Around, daemonVars, taskVars
<1>9. ASSUME UNCHANGED vars PROVE AllGood' /\ Around'
  BY <1>2, <1>3, <1>9 DEF vars, daemonVars
<1>10. AllGood' /\ Around'
  BY <1>4, <1>5, <1>6, <1>7, <1>8, <1>9, TaskAround, PageAround DEF Next
<1>. QED BY <1>1, <1>10 DEF GInv

\* The start: no connection, no message, no page's session.
LEMMA InitGInv == Init => GInv
<1>. SUFFICES ASSUME Init PROVE GInv
  OBVIOUS
<1>1. BInv
  BY InitBInv
<1>2. AllGood
  <2>1. \A c \in Conn : conn[c] = NewConn
    BY DEF Init
  <2>2. down \in Downlinks
    BY DEF Init, Downlinks
  <2>. QED BY <2>1, <2>2, NewGood DEF AllGood
<1>3. Around
  <2>1. page \in PageType
    BY DEF Init, NewPage, PageType
  <2>2. hello \in [Task -> [sid : Conn \cup {None}, lastSeq : Nat]]
    BY DEF Init, NoResume
  <2>3. upl \in [Task -> Seq(UpFrame)]
    BY DEF Init
  <2>. QED BY <2>1, <2>2, <2>3 DEF Init, Around
<1>. QED BY <1>1, <1>2, <1>3 DEF GInv

\* Every reachable state has good connections and typed messages.
THEOREM GoodInv == Spec => []GInv
<1>. QED BY InitGInv, NextGInv, PTL DEF Spec

\* Every variable keeps its type: credit, numbers and queues within the bounds
\* that emit, push, resume and the page's frames give them.
THEOREM TypeCorrect == Spec => []TypeOK
<1>1. GInv => TypeOK
  <2>. SUFFICES ASSUME GInv PROVE TypeOK
    OBVIOUS
  <2>1. ASSUME NEW c \in Conn PROVE Typed(conn[c])
    BY DEF GInv, AllGood, Good
  <2>2. known \subseteq Conn
    BY DEF GInv, BInv, Shapes
  <2>. QED BY <2>1, <2>2 DEF TypeOK, Typed, GInv, AllGood, Around, Downlinks, PageType
<1>. QED BY <1>1, GoodInv, PTL

\* Whatever the page acknowledged, lost or resumed, the ring holds each frame
\* past the acknowledged ones and past its horizon.
THEOREM RingCovers == Spec => []RingCoversTheGap
<1>1. GInv => RingCoversTheGap
  <2>. SUFFICES ASSUME GInv, NEW c \in Conn,
                       NEW x \in (Later(conn[c].acked, conn[c].lost) + 1)..conn[c].seq
                PROVE  x \in SeqsOf(conn[c].ring)
    BY DEF RingCoversTheGap
  <2>. DEFINE r == conn[c]
  <2>1. Typed(r) /\ Window(r)
    BY DEF GInv, AllGood, Good
  <2>2. PICK n \in Nat : n = Len(r.ring) /\ DOMAIN r.ring = 1..n
    BY <2>1 DEF Typed
  <2>3. r.seq \in Nat /\ Later(r.acked, r.lost) \in Nat
    BY <2>1 DEF Typed, Later
  <2>4. /\ r.seq - n <= Later(r.acked, r.lost)
        /\ \A i \in 1..n : r.ring[i].seq = r.seq - n + i
    BY <2>1, <2>2 DEF Window
  <2>. HIDE DEF r
  <2>5. x \in Int /\ Later(r.acked, r.lost) + 1 <= x /\ x <= r.seq
    BY <2>3 DEF r
  <2>6. x - (r.seq - n) \in 1..n
    <3>. DEFINE l == Later(r.acked, r.lost)
                q == r.seq
    <3>1. /\ l \in Nat /\ q \in Nat /\ n \in Nat /\ x \in Int
          /\ q - n <= l /\ l + 1 <= x /\ x <= q
      BY <2>2, <2>3, <2>4, <2>5
    <3>. HIDE DEF l, q
    <3>2. x - (q - n) \in 1..n
      BY <3>1
    <3>. QED BY <3>2 DEF q
  <2>7. r.ring[x - (r.seq - n)].seq = x
    <3>1. r.ring[x - (r.seq - n)].seq = r.seq - n + (x - (r.seq - n))
      BY <2>4, <2>6
    <3>. QED BY <2>2, <2>3, <2>5, <3>1
  <2>. QED BY <2>2, <2>6, <2>7 DEF SeqsOf, r
<1>. QED BY <1>1, GoodInv, PTL

\* Credit, hold queue, drops and resumes never put a workload frame before an
\* older one.
THEOREM WorkloadKept == Spec => []WorkloadInOrder
<1>1. GInv => WorkloadInOrder
  <2>. SUFFICES ASSUME GInv, NEW c \in Conn
                PROVE  /\ \A i, j \in DOMAIN conn[c].ring :
                            i < j /\ {conn[c].ring[i].body, conn[c].ring[j].body} \subseteq 1..MaxPush
                                => conn[c].ring[i].body < conn[c].ring[j].body
                       /\ \A i \in DOMAIN conn[c].ring, k \in DOMAIN conn[c].held :
                            conn[c].ring[i].body < conn[c].held[k]
                       /\ Increasing(conn[c].held)
    BY DEF WorkloadInOrder
  <2>1. Typed(conn[c]) /\ Line(conn[c].ring, conn[c].held, conn[c].pushed)
    BY DEF GInv, AllGood, Good
  <2>2. DOMAIN conn[c].ring = 1..Len(conn[c].ring) /\ DOMAIN conn[c].held = 1..Len(conn[c].held)
    BY <2>1 DEF Typed
  <2>3. \A b \in 1..MaxPush : b >= 1
    BY SizeAssumption
  <2>. QED BY <2>1, <2>2, <2>3 DEF Line, Increasing
<1>. QED BY <1>1, GoodInv, PTL

-----------------------------------------------------------------------------
(* What the page hears *)

\* f is numbered on from base.
From(f, base) == f \in Seq(DataFrame) /\ \A i \in 1..Len(f) : f[i].seq = base + i

\* An emit of r: its frames go behind what is queued for the live socket, and
\* nothing is acknowledged by it.
Sends(queued, c, r, f) ==
    /\ From(f, r.seq)
    /\ conn'[c].seq = r.seq + Len(f) /\ conn'[c].acked = r.acked
    /\ conn'[c].live = r.live \/ (r.live = Gone /\ conn'[c].live = None)
    /\ \A u \in Task : down'[u] = IF r.live = u THEN queued[u] \o f ELSE queued[u]
    /\ \A x \in Conn \ {c} : conn'[x] = conn[x]

\* Conn::emit sends what it numbers.
LEMMA EmitSends ==
    ASSUME NEW queued \in Downlinks, DOMAIN conn = Conn, NEW c \in Conn, NEW r, Typed(r),
           NEW bodies \in Seq(Body), NEW counted, EmitOn(queued, c, r, bodies, counted)
    PROVE  \E f : Sends(queued, c, r, f)
<1>. DEFINE frames == NewFrames(r, bodies)
            p == RingPush(r, frames)
            next == [p EXCEPT !.seq = @ + Len(bodies),
                              !.credit = IF counted THEN @ - Len(bodies) ELSE @]
            off == [next EXCEPT !.live = None, !.detached = TRUE]
<1>1. /\ frames \in Seq(DataFrame) /\ Len(frames) = Len(bodies)
      /\ \A i \in 1..Len(frames) : frames[i].seq = r.seq + i
  BY FramesNumbered
<1>2. DOMAIN p = Fields /\ \A x \in Fields \ {"ring", "lost"} : p[x] = r[x]
  <2>. HIDE DEF frames
  <2>. QED BY <1>1, RingPushTail
<1>3. /\ bodies = <<>> \/ r.live = None => conn' = [conn EXCEPT ![c] = next] /\ down' = queued
      /\ ~(bodies = <<>> \/ r.live = None) /\ r.live # Gone =>
           /\ conn' = [conn EXCEPT ![c] = next]
           /\ down' = [queued EXCEPT ![r.live] = @ \o frames]
      /\ ~(bodies = <<>> \/ r.live = None) /\ r.live = Gone =>
           conn' = [conn EXCEPT ![c] = off] /\ down' = queued
  BY DEF EmitOn
<1>. HIDE DEF p, frames
<1>4. /\ DOMAIN next = Fields /\ next.seq = r.seq + Len(frames)
      /\ next.acked = r.acked /\ next.live = r.live
  <2>1. /\ DOMAIN next = Fields /\ next.seq = p.seq + Len(bodies)
        /\ next.acked = p.acked /\ next.live = p.live
    BY <1>2 DEF Fields
  <2>. QED BY <1>1, <1>2, <2>1 DEF Fields
<1>. HIDE DEF next
<1>5. off.seq = next.seq /\ off.acked = next.acked /\ off.live = None
  BY <1>4 DEF Fields
<1>. HIDE DEF off
<1>6. /\ \/ conn' = [conn EXCEPT ![c] = next]
         \/ r.live = Gone /\ conn' = [conn EXCEPT ![c] = off]
      /\ \/ r.live \in Task /\ down' = [queued EXCEPT ![r.live] = @ \o frames]
         \/ (r.live \notin Task \/ frames = <<>>) /\ down' = queued
  <2>1. r.live \in Task \cup {None, Gone} /\ {None, Gone} \cap Task = {}
    BY NoneAssumption DEF Typed
  <2>2. bodies = <<>> => frames = <<>>
    BY <1>1
  <2>. QED BY <1>3, <2>1, <2>2
<1>7. /\ conn'[c].seq = r.seq + Len(frames) /\ conn'[c].acked = r.acked
      /\ conn'[c].live = r.live \/ (r.live = Gone /\ conn'[c].live = None)
      /\ \A x \in Conn \ {c} : conn'[x] = conn[x]
  BY <1>4, <1>5, <1>6
<1>8. ASSUME NEW u \in Task
      PROVE  down'[u] = IF r.live = u THEN queued[u] \o frames ELSE queued[u]
  <2>1. queued[u] \in Seq(Ack \cup DataFrame) /\ queued[u] \o <<>> = queued[u]
    BY ConcatEmptySeq DEF Downlinks
  <2>. QED BY <1>6, <2>1 DEF Downlinks
<1>. QED BY <1>1, <1>7, <1>8 DEF Sends, From

\* Conn::flush_held too.
LEMMA FlushSends ==
    ASSUME NEW queued \in Downlinks, DOMAIN conn = Conn, NEW c \in Conn, NEW r, Good(r),
           FlushHeld(queued, c, r)
    PROVE  \E f : Sends(queued, c, r, f)
<1>1. PICK s, bodies, counted :
        /\ EmitOn(queued, c, s, bodies, counted) /\ Typed(s) /\ bodies \in Seq(Body)
        /\ s.live = r.live /\ s.seq = r.seq /\ s.acked = r.acked
  BY FlushEmits
<1>2. PICK f : Sends(queued, c, s, f)
  BY <1>1, EmitSends
<1>3. Sends(queued, c, r, f)
  BY <1>1, <1>2 DEF Sends
<1>. QED BY <1>3

\* A connection that a live socket carries is the one its task serves.
BoundByOwner ==
    \A c \in Conn : conn[c].live \in Task =>
        Busy(conn[c].live) /\ serves[conn[c].live] = c /\ gen[conn[c].live] = conn[c].gen

\* Nothing is said before the connection is established.
QuietStart == \A t \in Task : task[t] \in {"idle", "hello"} => upl[t] = <<>>

\* Nobody has acknowledged a frame of c past n, or is about to.
AckedUpTo(c, n) ==
    /\ conn[c].acked <= n
    /\ \A t \in Task :
         /\ task[t] = "serving" /\ serves[t] = c =>
              \A i \in 1..Len(upl[t]) : upl[t][i].ty \in {"ping", "credit"} => upl[t][i].ack <= n
         /\ task[t] = "hello" /\ hello[t].sid = c => hello[t].lastSeq <= n

\* The page knows what it heard, and nobody acknowledged more than that.
PageStands ==
    /\ page.sid = None => page.lastSeq = 0 /\ recv = 0
    /\ ~foreign => recv = page.lastSeq
    /\ ~foreign /\ page.sid # None =>
         AckedUpTo(page.sid, page.lastSeq) /\ page.lastSeq <= conn[page.sid].seq

\* Behind its first k, what is on its way to the page's socket t are frames
\* its connection sent; when `own`, those after what the page heard, and all of
\* them as long as t carries the connection.
Follows(t, k, own) ==
    LET r == conn[serves[t]]
        d == down[t]
    IN /\ k <= Len(d)
       /\ \A i \in 1..Len(d) : i > k =>
            d[i] \in DataFrame /\ d[i].seq <= r.seq /\ (own => d[i].seq = page.lastSeq + (i - k))
       /\ own /\ r.live = t => page.lastSeq + (Len(d) - k) = r.seq

\* The page heard the ack of t; or the ack of a resume is on its way; or that
\* of a new session.
Acknowledged(t) == page.sid = serves[t] /\ Follows(t, 0, ~foreign)
Resuming(t) ==
    /\ Follows(t, 1, ~foreign)
    /\ down[t][1] = [sid |-> serves[t], resumed |-> TRUE] /\ page.sid = serves[t]
Beginning(t) ==
    /\ Follows(t, 1, page.lastSeq = 0)
    /\ down[t][1] = [sid |-> serves[t], resumed |-> FALSE]
    /\ page.lastSeq = 0 => AckedUpTo(serves[t], 0)

\* Where the page's socket stands.
SocketStands(t) ==
    \/ task[t] = "hello" /\ hello[t] = [sid |-> page.sid, lastSeq |-> page.lastSeq]
    \/ task[t] = "serving" /\ (Acknowledged(t) \/ Resuming(t) \/ Beginning(t))

LInv ==
    /\ BoundByOwner /\ QuietStart /\ PageStands
    /\ \A t \in Task : page.sock = t => SocketStands(t)

\* The tasks that go on serving c hear what it sends from the one that carries
\* it, and nothing else.
Carries(c, f) ==
    /\ From(f, conn[c].seq) /\ conn'[c].seq = conn[c].seq + Len(f)
    /\ \A t \in Task : task[t] = "serving" /\ serves[t] = c /\ task'[t] = "serving" =>
         /\ serves'[t] = c
         /\ IF conn'[c].live = t
            THEN conn[c].live = t /\ down'[t] = down[t] \o f
            ELSE down'[t] = down[t]

\* What the daemon does without the page.
DaemonStep ==
    \/ \E t \in Task : TaskStep(t)
    \/ \E c \in Conn : FromRelay(c) \/ AttachAnswers(c)
    \/ Sweep

\* A step that numbers nothing.
LEMMA SilentCarries ==
    ASSUME GInv, NEW c \in Conn,
           conn'[c].seq = conn[c].seq, conn'[c].live = conn[c].live \/ conn'[c].live \notin Task,
           \A t \in Task : task[t] = "serving" /\ serves[t] = c /\ task'[t] = "serving" =>
              serves'[t] = c /\ down'[t] = down[t]
    PROVE  \E f : Carries(c, f)
<1>. DEFINE f == <<>>
<1>1. From(f, conn[c].seq) /\ conn'[c].seq = conn[c].seq + Len(f)
  <2>1. conn[c].seq \in Nat
    BY DEF GInv, AllGood, Good, Typed
  <2>. QED BY <2>1 DEF From
<1>2. \A t \in Task : down[t] \o f = down[t]
  BY ConcatEmptySeq DEF GInv, AllGood, Downlinks
<1>. HIDE DEF f
<1>. QED BY <1>1, <1>2 DEF Carries

\* A step that emits for one connection, whatever its tasks do.
LEMMA SentCarries ==
    ASSUME GInv, LInv, NEW c \in Conn, NEW r, NEW f, Sends(down, c, r, f),
           r.live = conn[c].live, r.seq = conn[c].seq, UNCHANGED <<task, serves>>,
           NEW x \in Conn
    PROVE  \E g : Carries(x, g)
<1>0. /\ conn[x].live \in Task \cup {None, Gone} /\ {None, Gone} \cap Task = {}
      /\ conn[c].live \in Task \cup {None, Gone} /\ None # Gone
  BY NoneAssumption DEF GInv, AllGood, Good, Typed
<1>1. CASE x = c
  <2>1. Carries(c, f)
    BY <1>0 DEF Sends, Carries
  <2>. QED BY <1>1, <2>1
<1>2. CASE x # c
  <2>1. ASSUME NEW t \in Task, serves[t] = x PROVE down'[t] = down[t]
    <3>1. conn[c].live # t
      BY <1>2, <2>1 DEF LInv, BoundByOwner
    <3>. QED BY <3>1 DEF Sends
  <2>2. conn'[x] = conn[x]
    BY <1>2 DEF Sends
  <2>. QED BY <2>1, <2>2, SilentCarries
<1>. QED BY <1>1, <1>2

\* What c may count as acknowledged after a step: what it did, or what a task
\* that serves it is about to hear.
Acks(c, a) ==
    \/ a = conn[c].acked
    \/ \E t \in Task :
         /\ task[t] = "serving" /\ serves[t] = c /\ upl[t] # <<>>
         /\ Head(upl[t]).ty \in {"ping", "credit"} /\ a = Head(upl[t]).ack

\* The steps that emit for one connection, without a change of tasks.
LEMMA EmittersSend ==
    ASSUME GInv, NEW c \in Conn,
           \/ FromRelay(c) \/ AttachAnswers(c)
           \/ \E t \in Task : serves[t] = c /\ (Credit(t) \/ Ping(t))
    PROVE  /\ UNCHANGED <<task, serves>>
           /\ \/ \E r, f : /\ Sends(down, c, r, f)
                           /\ r.live = conn[c].live /\ r.seq = conn[c].seq
              \/ /\ down' = down /\ \A x \in Conn \ {c} : conn'[x] = conn[x]
                 /\ conn'[c].live = conn[c].live /\ conn'[c].seq = conn[c].seq
           /\ Acks(c, conn'[c].acked)
<1>. DEFINE Sent == \E r, f : /\ Sends(down, c, r, f)
                              /\ r.live = conn[c].live /\ r.seq = conn[c].seq
            Acked == Acks(c, conn'[c].acked)
            yes == TRUE
            no == FALSE
<1>1. /\ Good(conn[c]) /\ Typed(conn[c]) /\ DOMAIN conn[c] = Fields
      /\ down \in Downlinks /\ DOMAIN conn = Conn
  BY DEF GInv, AllGood, BInv, Shapes, Good, Typed
<1>2. ASSUME NEW r, Typed(r), r.live = conn[c].live, r.seq = conn[c].seq, Acks(c, r.acked),
             NEW b \in Body, NEW counted, EmitOn(down, c, r, <<b>>, counted)
      PROVE  Sent /\ Acked
  <2>. DEFINE bodies == <<b>>
  <2>1. bodies \in Seq(Body)
    OBVIOUS
  <2>. HIDE DEF bodies
  <2>2. PICK f : Sends(down, c, r, f)
    BY <1>1, <1>2, <2>1, EmitSends DEF bodies
  <2>3. conn'[c].acked = r.acked
    BY <2>2 DEF Sends
  <2>. QED BY <1>2, <2>2, <2>3
<1>3. Control \in Body /\ Attached \in Body
  BY DEF Body
<1>. HIDE DEF Sent
<1>4. CASE FromRelay(c)
  <2>. DEFINE r == [conn[c] EXCEPT !.pushed = @ + 1]
              h == [r EXCEPT !.held = Append(@, r.pushed)]
  <2>1. conn[c].pushed \in 0..MaxPush /\ conn[c].pushed < MaxPush /\ MaxPush \in Nat
    BY <1>1, <1>4, SizeAssumption DEF FromRelay, Typed
  <2>2. /\ DOMAIN r = Fields /\ r.pushed = conn[c].pushed + 1
        /\ \A x \in Fields \ {"pushed"} : r[x] = conn[c][x]
    BY <1>1 DEF Fields
  <2>3. \/ EmitOn(down, c, r, <<r.pushed>>, yes)
        \/ EmitOn(down, c, r, <<Control>>, no)
        \/ conn' = [conn EXCEPT ![c] = h] /\ down' = down
    BY <1>4 DEF FromRelay, PushWorkload, Emit
  <2>. HIDE DEF r, yes, no
  <2>4. /\ r.live = conn[c].live /\ r.gen = conn[c].gen /\ r.ring = conn[c].ring
        /\ r.seq = conn[c].seq /\ r.lost = conn[c].lost /\ r.acked = conn[c].acked
        /\ r.credit = conn[c].credit /\ r.held = conn[c].held
        /\ r.detached = conn[c].detached /\ r.attached = conn[c].attached
        /\ r.attaching = conn[c].attaching
    BY <2>2 DEF Fields
  <2>5. r.pushed \in 1..MaxPush
    BY <2>1, <2>2
  <2>6. Typed(r) /\ r.pushed \in Body
    BY <1>1, <2>2, <2>4, <2>5 DEF Typed, Body
  <2>7. h.live = r.live /\ h.seq = r.seq /\ h.acked = r.acked
    BY <2>2 DEF Fields
  <2>. HIDE DEF h
  <2>8. UNCHANGED <<task, serves>>
    BY <1>4 DEF FromRelay, taskVars
  <2>9. CASE conn' = [conn EXCEPT ![c] = h] /\ down' = down
    <3>1. conn'[c] = h /\ \A x \in Conn \ {c} : conn'[x] = conn[x]
      BY <1>1, <2>9
    <3>. QED BY <2>4, <2>7, <2>8, <2>9, <3>1 DEF Acks
  <2>10. CASE ~(conn' = [conn EXCEPT ![c] = h] /\ down' = down)
    <3>1. Acks(c, r.acked)
      BY <2>4 DEF Acks
    <3>2. Sent /\ Acked
      BY <1>2, <1>3, <2>3, <2>4, <2>6, <2>10, <3>1
    <3>. QED BY <2>8, <3>2 DEF Sent
  <2>. QED BY <2>9, <2>10
<1>5. CASE AttachAnswers(c)
  <2>. DEFINE r == [conn[c] EXCEPT !.attaching = @ - 1]
              u == [r EXCEPT !.attached = FALSE]
  <2>1. conn[c].attaching - 1 \in Nat
    BY <1>1, <1>5 DEF AttachAnswers, Typed
  <2>2. \/ EmitOn(down, c, r, <<Attached>>, no)
        \/ EmitOn(down, c, u, <<Control>>, no)
    BY <1>5 DEF AttachAnswers, Emit
  <2>3. /\ DOMAIN r = Fields /\ r.attaching = conn[c].attaching - 1
        /\ \A x \in Fields \ {"attaching"} : r[x] = conn[c][x]
    BY <1>1 DEF Fields
  <2>. HIDE DEF r, no
  <2>4. Typed(r) /\ r.live = conn[c].live /\ r.seq = conn[c].seq /\ Acks(c, r.acked)
    BY <1>1, <2>1, <2>3 DEF Typed, Fields, Acks
  <2>5. /\ DOMAIN u = Fields /\ u.attached = FALSE
        /\ \A x \in Fields \ {"attached"} : u[x] = r[x]
    BY <2>3 DEF Fields
  <2>. HIDE DEF u
  <2>6. Typed(u) /\ u.live = conn[c].live /\ u.seq = conn[c].seq /\ Acks(c, u.acked)
    BY <2>4, <2>5 DEF Typed, Fields
  <2>7. Sent /\ Acked
    BY <1>2, <1>3, <2>2, <2>4, <2>6
  <2>. QED BY <1>5, <2>7 DEF AttachAnswers, taskVars, Sent
<1>6. ASSUME NEW t \in Task, serves[t] = c, Credit(t) \/ Ping(t)
      PROVE  UNCHANGED <<task, serves>> /\ Sent /\ Acked
  <2>. DEFINE a == Head(upl[t]).ack
              n == Head(upl[t]).n
              ack == RingAck(conn[c], a)
              g == Granted(conn[c], a, n)
  <2>1. CASE Credit(t)
    <3>1. FlushHeld(down, c, g) /\ a \in Nat /\ n \in Nat /\ UNCHANGED <<task, serves>>
      BY <1>6, <2>1, Said DEF Credit, Granted, taskVars
    <3>2. Acks(c, a)
      BY <1>6, <2>1 DEF Credit, Acks
    <3>. HIDE DEF a, n
    <3>3. Good(g) /\ g.live = conn[c].live /\ g.seq = conn[c].seq /\ Acks(c, g.acked)
      BY <1>1, <3>1, <3>2, GrantGood DEF Acks
    <3>. HIDE DEF g
    <3>4. PICK f : Sends(down, c, g, f)
      BY <1>1, <3>1, <3>3, FlushSends
    <3>5. conn'[c].acked = g.acked
      BY <3>4 DEF Sends
    <3>. QED BY <3>1, <3>3, <3>4, <3>5 DEF Sent
  <2>2. CASE Ping(t)
    <3>1. EmitOn(down, c, ack, <<Control>>, no) /\ a \in Nat /\ UNCHANGED <<task, serves>>
      BY <1>6, <2>2, Said DEF Ping, Emit, taskVars
    <3>2. Acks(c, a)
      BY <1>6, <2>2 DEF Ping, Acks
    <3>. HIDE DEF a, no
    <3>3. Good(ack) /\ ack.live = conn[c].live /\ ack.seq = conn[c].seq /\ Acks(c, ack.acked)
      BY <1>1, <3>1, <3>2, AckGood, AckKeeps DEF Acks
    <3>. HIDE DEF ack
    <3>4. Sent /\ Acked
      BY <1>2, <1>3, <3>1, <3>3 DEF Good
    <3>. QED BY <3>1, <3>4
  <2>. QED BY <1>6, <2>1, <2>2
<1>. QED BY <1>4, <1>5, <1>6 DEF Sent

\* new_conn: the first frame of a connection is its first task's.
LEMMA EstablishSets ==
    ASSUME GInv, NEW t \in Task, NEW c \in Conn, NEW gone, Establish(t, c, gone)
    PROVE  /\ conn'[c].seq = 1 /\ conn'[c].acked = 0 /\ conn'[c].live = t
           /\ \A x \in Conn \ {c} : /\ conn'[x].seq = conn[x].seq
                                    /\ conn'[x].acked = conn[x].acked
                                    /\ conn'[x].live = conn[x].live
<1>. DEFINE frames == NewFrames(NewConn, <<Windows>>)
            pushed == RingPush(NewConn, frames)
            fresh == [pushed EXCEPT !.live = t, !.gen = 1, !.seq = 1]
            bodies == <<Windows>>
<1>1. DOMAIN pushed = Fields /\ pushed.acked = 0
  <2>1. bodies \in Seq(Body) /\ Typed(NewConn)
    BY NewGood DEF Body, Good
  <2>. HIDE DEF bodies
  <2>2. NewFrames(NewConn, bodies) \in Seq(DataFrame)
    BY <2>1, FramesNumbered
  <2>3. frames \in Seq(DataFrame)
    BY <2>2 DEF bodies
  <2>. HIDE DEF frames
  <2>4. DOMAIN pushed = Fields /\ \A x \in Fields \ {"ring", "lost"} : pushed[x] = NewConn[x]
    BY <2>1, <2>3, RingPushTail
  <2>. QED BY <2>4 DEF NewConn, Fields
<1>2. conn' = [x \in Conn |-> IF x = c THEN fresh
                               ELSE [conn[x] EXCEPT !.attached = @ /\ x \notin gone]]
  BY DEF Establish
<1>. HIDE DEF pushed
<1>3. fresh.seq = 1 /\ fresh.acked = 0 /\ fresh.live = t
  BY <1>1 DEF Fields
<1>. HIDE DEF fresh
<1>4. ASSUME NEW x \in Conn \ {c}
      PROVE  /\ conn'[x].seq = conn[x].seq /\ conn'[x].acked = conn[x].acked
             /\ conn'[x].live = conn[x].live
  <2>. DEFINE at == conn[x].attached /\ x \notin gone
  <2>1. conn'[x] = [conn[x] EXCEPT !.attached = at]
    BY <1>2
  <2>2. DOMAIN conn[x] = Fields
    BY DEF GInv, AllGood, Good, Typed
  <2>. HIDE DEF at
  <2>. QED BY <2>1, <2>2 DEF Fields
<1>. QED BY <1>2, <1>3, <1>4

\* The steps that number and acknowledge nothing.
Still(t) ==
    \/ Sweep
    \/ t \in Task /\ (SocketDropped(t) \/ EndConn(t) \/ Attach(t) \/ HelloRefused(t) \/ Ended(t))

LEMMA StillSteps ==
    ASSUME GInv, NEW t, Still(t), NEW x \in Conn
    PROVE  /\ conn'[x].seq = conn[x].seq /\ conn'[x].acked = conn[x].acked
           /\ conn'[x].live = conn[x].live \/ conn'[x].live \notin Task
<1>. DEFINE c == serves[t]
            off == [conn[c] EXCEPT !.live = None, !.detached = TRUE]
            ended == [conn[c] EXCEPT !.live = Gone, !.attached = FALSE]
            bound == [conn[c] EXCEPT !.attached = TRUE, !.attaching = @ + 1]
<1>1. /\ {None, Gone} \cap Task = {}
      /\ DOMAIN conn = Conn /\ DOMAIN conn[x] = Fields
  BY NoneAssumption DEF GInv, AllGood, BInv, Shapes, Good, Typed
<1>2. CASE Sweep
  <2>1. PICK expired :
          conn' = [y \in Conn |-> [conn[y] EXCEPT !.attached = @ /\ y \notin expired]]
    BY <1>2 DEF Sweep
  <2>. DEFINE at == conn[x].attached /\ x \notin expired
  <2>2. conn'[x] = [conn[x] EXCEPT !.attached = at]
    BY <2>1
  <2>. HIDE DEF at
  <2>. QED BY <1>1, <2>2 DEF Fields
<1>3. CASE conn' = conn
  BY <1>3
<1>4. CASE t \in Task /\ Busy(t) /\ (SocketDropped(t) \/ EndConn(t) \/ Attach(t)) /\ ~(conn' = conn)
  <2>1. c \in Conn /\ DOMAIN conn[c] = Fields
    BY <1>4 DEF GInv, BInv, Shapes, AllGood, Good, Typed
  <2>2. \/ conn' = [conn EXCEPT ![c] = off]
        \/ conn' = [conn EXCEPT ![c] = ended]
        \/ conn' = [conn EXCEPT ![c] = bound]
    <3>1. CASE SocketDropped(t)
      BY <1>1, <1>4, <2>1, <3>1 DEF SocketDropped, Fields
    <3>2. CASE EndConn(t)
      BY <1>1, <1>4, <2>1, <3>2 DEF EndConn, Fields
    <3>3. CASE Attach(t)
      BY <1>1, <1>4, <2>1, <3>3 DEF Attach, Fields
    <3>. QED BY <1>4, <3>1, <3>2, <3>3
  <2>3. /\ off.seq = conn[c].seq /\ off.acked = conn[c].acked /\ off.live = None
        /\ ended.seq = conn[c].seq /\ ended.acked = conn[c].acked /\ ended.live = Gone
        /\ bound.seq = conn[c].seq /\ bound.acked = conn[c].acked /\ bound.live = conn[c].live
    BY <2>1 DEF Fields
  <2>. HIDE DEF off, ended, bound, c
  <2>4. \/ conn'[x] = conn[x]
        \/ x = c /\ conn'[x] \in {off, ended, bound}
    BY <1>1, <2>1, <2>2
  <2>. QED BY <1>1, <2>3, <2>4
<1>. QED BY <1>2, <1>3, <1>4 DEF Still, SocketDropped, EndConn, Attach, HelloRefused, Ended,
                                Busy, daemonVars

\* None of them, nor an establishment, touches another task that serves.
LEMMA StillBeside ==
    ASSUME GInv, NEW t, Still(t) \/ (t \in Task /\ (HelloFresh(t) \/ ResumeFails(t))),
           NEW u \in Task, task[u] = "serving", task'[u] = "serving"
    PROVE  serves'[u] = serves[u] /\ down'[u] = down[u]
<1>1. CASE t \in Task /\ (HelloFresh(t) \/ ResumeFails(t))
  <2>1. PICK c \in Conn, gone \in {{}, {hello[t].sid}} : Establish(t, c, gone)
    BY <1>1 DEF HelloFresh, ResumeFails
  <2>2. u # t
    BY <1>1 DEF HelloFresh, ResumeFails
  <2>. QED BY <2>1, <2>2 DEF Establish, Enter
<1>2. CASE t \in Task /\ (SocketDropped(t) \/ EndConn(t) \/ HelloRefused(t) \/ Ended(t))
  <2>1. u # t
    BY <1>2 DEF GInv, Around, SocketDropped, EndConn, HelloRefused, Ended, Leave, Enter
  <2>2. /\ u \in DOMAIN task /\ u \in DOMAIN serves /\ u \in DOMAIN down
    BY DEF GInv, Around, AllGood, Downlinks
  <2>3. /\ serves' = serves \/ serves' = [serves EXCEPT ![t] = None]
        /\ down' = down \/ down' = [down EXCEPT ![t] = <<>>]
    BY <1>2 DEF SocketDropped, EndConn, HelloRefused, Ended, Leave, Enter
  <2>. QED BY <2>1, <2>2, <2>3
<1>3. CASE Attach(t) \/ Sweep
  BY <1>3 DEF Attach, Sweep, taskVars
<1>. QED BY <1>1, <1>2, <1>3 DEF Still

\* Conn::resume sends behind the replay what its credit releases.
LEMMA ResumeSends ==
    ASSUME GInv, NEW t \in Task, Resume(t)
    PROVE  \E f : Sends(Replayed(t), hello[t].sid, Resumed(t), f)
<1>1. /\ hello[t].sid \in Conn /\ DOMAIN conn = Conn /\ Good(Resumed(t))
      /\ FlushHeld(Replayed(t), hello[t].sid, Resumed(t)) /\ Replayed(t) \in Downlinks
  BY ResumeFlushes
<1>. QED BY <1>1, FlushSends

\* What the daemon does falls into four kinds of step.
LEMMA DaemonCases ==
    ASSUME GInv, DaemonStep
    PROVE  \/ \E c \in Conn : \/ FromRelay(c) \/ AttachAnswers(c)
                              \/ \E t \in Task : serves[t] = c /\ (Credit(t) \/ Ping(t))
           \/ \E t : Still(t)
           \/ \E t \in Task : /\ HelloFresh(t) \/ ResumeFails(t)
                              /\ task[t] = "hello"
                              /\ \E c \in Conn : \E gone \in {{}, {hello[t].sid}} :
                                    Unused(c) /\ Establish(t, c, gone)
           \/ \E t \in Task : Resume(t)
<1>1. ASSUME NEW t \in Task, Credit(t) \/ Ping(t) PROVE serves[t] \in Conn
  BY <1>1 DEF Credit, Ping, GInv, BInv, Shapes, Busy
<1>2. ASSUME NEW t \in Task, HelloFresh(t) \/ ResumeFails(t)
      PROVE  /\ task[t] = "hello"
             /\ \E c \in Conn : \E gone \in {{}, {hello[t].sid}} :
                   Unused(c) /\ Establish(t, c, gone)
  BY <1>2 DEF HelloFresh, ResumeFails
<1>. QED BY <1>1, <1>2 DEF DaemonStep, TaskStep, Still

\* Whatever the daemon does, a connection that somebody uses sends in order, to
\* the task that carries it.
LEMMA DaemonCarries ==
    ASSUME GInv, LInv, DaemonStep, NEW x \in Conn, ~Unused(x)
    PROVE  \E f : Carries(x, f)
<1>1. ASSUME NEW c \in Conn,
             \/ FromRelay(c) \/ AttachAnswers(c)
             \/ \E t \in Task : serves[t] = c /\ (Credit(t) \/ Ping(t))
      PROVE  \E f : Carries(x, f)
  <2>1. UNCHANGED <<task, serves>>
    BY <1>1, EmittersSend
  <2>2. CASE \E r, f : Sends(down, c, r, f) /\ r.live = conn[c].live /\ r.seq = conn[c].seq
    BY <2>1, <2>2, SentCarries
  <2>3. CASE /\ down' = down /\ \A y \in Conn \ {c} : conn'[y] = conn[y]
             /\ conn'[c].live = conn[c].live /\ conn'[c].seq = conn[c].seq
    BY <2>1, <2>3, SilentCarries
  <2>. QED BY <1>1, <2>2, <2>3, EmittersSend
<1>2. ASSUME NEW t, Still(t) PROVE \E f : Carries(x, f)
  <2>1. /\ conn'[x].seq = conn[x].seq
        /\ conn'[x].live = conn[x].live \/ conn'[x].live \notin Task
    BY <1>2, StillSteps
  <2>2. ASSUME NEW u \in Task, task[u] = "serving", task'[u] = "serving"
        PROVE  serves'[u] = serves[u] /\ down'[u] = down[u]
    BY <1>2, <2>2, StillBeside
  <2>. QED BY <2>1, <2>2, SilentCarries
<1>3. ASSUME NEW t \in Task, HelloFresh(t) \/ ResumeFails(t), NEW c \in Conn, NEW gone,
             Unused(c), Establish(t, c, gone)
      PROVE  \E f : Carries(x, f)
  <2>1. /\ conn'[x].seq = conn[x].seq /\ conn'[x].live = conn[x].live
    BY <1>3, EstablishSets
  <2>2. ASSUME NEW u \in Task, task[u] = "serving", task'[u] = "serving"
        PROVE  serves'[u] = serves[u] /\ down'[u] = down[u]
    BY <1>3, <2>2, StillBeside
  <2>. QED BY <2>1, <2>2, SilentCarries
<1>4. ASSUME NEW t \in Task, Resume(t) PROVE \E f : Carries(x, f)
  <2>. DEFINE c == hello[t].sid
              r == Resumed(t)
  <2>1. PICK f : Sends(Replayed(t), c, r, f)
    BY <1>4, ResumeSends
  <2>2. c \in Conn /\ r.live = t /\ r.seq = conn[c].seq
    BY <1>4, ResumeFlushes
  <2>. HIDE DEF r, c
  <2>3. ASSUME NEW u \in Task, task[u] = "serving"
        PROVE  u # t /\ serves'[u] = serves[u] /\ down'[u] = down[u]
    <3>1. u # t /\ u \in DOMAIN down /\ u \in DOMAIN serves
      BY <1>4, <2>3 DEF Resume, GInv, AllGood, Around, Downlinks
    <3>2. Replayed(t)[u] = down[u]
      BY <3>1 DEF Replayed
    <3>3. serves'[u] = serves[u]
      BY <1>4, <3>1 DEF Resume, Enter
    <3>. QED BY <2>1, <2>2, <3>1, <3>2, <3>3 DEF Sends
  <2>4. CASE x = c
    <3>1. conn'[c].live = t
      BY <2>1, <2>2, NoneAssumption DEF Sends
    <3>2. Carries(c, f)
      BY <2>1, <2>2, <2>3, <3>1 DEF Sends, Carries
    <3>. QED BY <2>4, <3>2
  <2>5. CASE x # c
    <3>1. conn'[x] = conn[x]
      BY <2>1, <2>5 DEF Sends
    <3>. QED BY <2>3, <3>1, SilentCarries
  <2>. QED BY <2>4, <2>5
<1>. QED BY <1>1, <1>2, <1>3, <1>4, DaemonCases

\* What the daemon does to its tasks: none begins a HELLO, and one that comes
\* to serve has heard nothing yet.
LEMMA DaemonTasks ==
    ASSUME GInv, DaemonStep, NEW u \in Task
    PROVE  /\ task'[u] = "hello" => task[u] = "hello" /\ hello'[u] = hello[u]
           /\ task'[u] = "serving" =>
                \/ /\ task[u] = "serving" /\ serves'[u] = serves[u]
                   /\ upl'[u] = upl[u] \/ (upl[u] # <<>> /\ upl'[u] = Tail(upl[u]))
                \/ task[u] = "hello" /\ upl'[u] = upl[u]
           /\ task'[u] = "idle" => upl'[u] = <<>> \/ (task[u] = "idle" /\ upl'[u] = upl[u])
           /\ task'[u] = "hello" => upl'[u] = upl[u]
<1>. u \in DOMAIN task /\ u \in DOMAIN serves /\ u \in DOMAIN hello /\ u \in DOMAIN upl
  BY DEF GInv, Around
<1>1. CASE Sweep \/ \E c \in Conn : FromRelay(c) \/ AttachAnswers(c)
  BY <1>1 DEF Sweep, FromRelay, AttachAnswers, taskVars, GInv, Around
<1>2. ASSUME NEW t \in Task, HelloFresh(t) \/ Resume(t) \/ ResumeFails(t)
      PROVE  /\ task[t] = "hello" /\ upl' = upl /\ task'[t] = "serving"
             /\ u # t => task'[u] = task[u] /\ serves'[u] = serves[u] /\ hello'[u] = hello[u]
  <2>1. task[t] = "hello" /\ upl' = upl /\ \E c, g : Enter(t, "serving", c, g)
    BY <1>2 DEF HelloFresh, Resume, ResumeFails, Establish
  <2>. QED BY <2>1 DEF Enter, GInv, Around
<1>3. ASSUME NEW t \in Task, HelloRefused(t) \/ SocketDropped(t) \/ EndConn(t)
      PROVE  /\ task'[t] = "idle" /\ upl'[t] = <<>>
             /\ u # t => /\ task'[u] = task[u] /\ serves'[u] = serves[u] /\ hello'[u] = hello[u]
                         /\ upl'[u] = upl[u]
  <2>1. Leave(t)
    BY <1>3 DEF HelloRefused, SocketDropped, EndConn
  <2>. QED BY <2>1 DEF Leave, Enter, GInv, Around
<1>4. ASSUME NEW t \in Task, Ended(t)
      PROVE  /\ task'[t] = "ending" /\ UNCHANGED <<serves, hello, upl>>
             /\ u # t => task'[u] = task[u]
  BY <1>4 DEF Ended, GInv, Around
<1>5. ASSUME NEW t \in Task, Credit(t) \/ Ping(t) \/ Attach(t)
      PROVE  /\ UNCHANGED <<task, serves, hello>> /\ task[t] = "serving"
             /\ upl[t] # <<>> /\ upl'[t] = Tail(upl[t])
             /\ u # t => upl'[u] = upl[u]
  BY <1>5 DEF Credit, Ping, Attach, GInv, Around, taskVars
<1>6. ASSUME NEW t \in Task, TaskStep(t)
      PROVE  /\ task'[u] = "hello" => task[u] = "hello" /\ hello'[u] = hello[u]
             /\ task'[u] = "serving" =>
                  \/ /\ task[u] = "serving" /\ serves'[u] = serves[u]
                     /\ upl'[u] = upl[u] \/ (upl[u] # <<>> /\ upl'[u] = Tail(upl[u]))
                  \/ task[u] = "hello" /\ upl'[u] = upl[u]
             /\ task'[u] = "idle" => upl'[u] = <<>> \/ (task[u] = "idle" /\ upl'[u] = upl[u])
             /\ task'[u] = "hello" => upl'[u] = upl[u]
  <2>1. task[u] \in {"idle", "hello", "serving", "ending"}
    BY DEF GInv, Around
  <2>2. CASE HelloFresh(t) \/ Resume(t) \/ ResumeFails(t)
    BY <1>2, <2>1, <2>2
  <2>3. CASE HelloRefused(t) \/ SocketDropped(t) \/ EndConn(t)
    BY <1>3, <2>1, <2>3
  <2>4. CASE Ended(t)
    BY <1>4, <2>1, <2>4
  <2>5. CASE Credit(t) \/ Ping(t) \/ Attach(t)
    BY <1>5, <2>1, <2>5
  <2>. QED BY <1>6, <2>2, <2>3, <2>4, <2>5 DEF TaskStep
<1>. QED BY <1>1, <1>6 DEF DaemonStep

\* The daemon acknowledges what it is told, and only that.
LEMMA DaemonAcks ==
    ASSUME GInv, LInv, DaemonStep, NEW c \in Conn, NEW n \in Nat, AckedUpTo(c, n)
    PROVE  AckedUpTo(c, n)'
<1>1. conn'[c].acked <= n
  <2>0. conn[c].acked <= n
    BY DEF AckedUpTo
  <2>1. ASSUME NEW d \in Conn,
               \/ FromRelay(d) \/ AttachAnswers(d)
               \/ \E t \in Task : serves[t] = d /\ (Credit(t) \/ Ping(t))
        PROVE  conn'[c].acked <= n
    <3>1. CASE d = c
      <4>1. Acks(c, conn'[c].acked)
        BY <2>1, <3>1, EmittersSend
      <4>2. ASSUME NEW t \in Task, task[t] = "serving", serves[t] = c, upl[t] # <<>>,
                   Head(upl[t]).ty \in {"ping", "credit"}
            PROVE  Head(upl[t]).ack <= n
        <5>1. upl[t] \in Seq(UpFrame)
          BY DEF GInv, Around
        <5>2. 1 \in 1..Len(upl[t]) /\ Head(upl[t]) = upl[t][1]
          BY <4>2, <5>1
        <5>. QED BY <4>2, <5>2 DEF AckedUpTo
      <4>. QED BY <2>0, <4>1, <4>2 DEF Acks
    <3>2. CASE d # c
      <4>1. conn'[c] = conn[c]
        BY <2>1, <3>2, EmittersSend DEF Sends
      <4>. QED BY <2>0, <4>1
    <3>. QED BY <3>1, <3>2
  <2>2. ASSUME NEW t, Still(t) PROVE conn'[c].acked <= n
    BY <2>0, <2>2, StillSteps
  <2>3. ASSUME NEW t \in Task, NEW d \in Conn, NEW gone, Establish(t, d, gone)
        PROVE  conn'[c].acked <= n
    <3>1. conn'[d].acked = 0 /\ \A x \in Conn \ {d} : conn'[x].acked = conn[x].acked
      BY <2>3, EstablishSets
    <3>. QED BY <2>0, <3>1
  <2>4. ASSUME NEW t \in Task, Resume(t) PROVE conn'[c].acked <= n
    <3>1. PICK f : Sends(Replayed(t), hello[t].sid, Resumed(t), f)
      BY <2>4, ResumeSends
    <3>2. /\ Resumed(t).acked \in {conn[hello[t].sid].acked, hello[t].lastSeq}
          /\ task[t] = "hello"
      BY <2>4, ResumeFlushes DEF Resume
    <3>3. CASE hello[t].sid = c
      <4>1. conn'[c].acked = Resumed(t).acked /\ hello[t].lastSeq <= n
        BY <3>1, <3>2, <3>3 DEF Sends, AckedUpTo
      <4>. QED BY <2>0, <3>2, <3>3, <4>1
    <3>4. CASE hello[t].sid # c
      BY <2>0, <3>1, <3>4 DEF Sends
    <3>. QED BY <3>3, <3>4
  <2>. QED BY <2>1, <2>2, <2>3, <2>4, DaemonCases
<1>2. ASSUME NEW u \in Task, task'[u] = "serving", serves'[u] = c, NEW i \in 1..Len(upl'[u]),
             upl'[u][i].ty \in {"ping", "credit"}
      PROVE  upl'[u][i].ack <= n
  <2>1. upl[u] \in Seq(UpFrame)
    BY DEF GInv, Around
  <2>2. CASE task[u] = "hello" /\ upl'[u] = upl[u]
    <3>1. upl'[u] = <<>>
      BY <2>2 DEF LInv, QuietStart
    <3>. QED BY <3>1
  <2>3. CASE task[u] = "serving" /\ serves'[u] = serves[u] /\ upl'[u] = upl[u]
    BY <1>2, <2>3 DEF AckedUpTo
  <2>4. CASE /\ task[u] = "serving" /\ serves'[u] = serves[u]
             /\ upl[u] # <<>> /\ upl'[u] = Tail(upl[u])
    <3>1. i + 1 \in 1..Len(upl[u]) /\ upl'[u][i] = upl[u][i + 1]
      BY <2>1, <2>4, <1>2
    <3>. QED BY <1>2, <2>4, <3>1 DEF AckedUpTo
  <2>. QED BY <1>2, <2>2, <2>3, <2>4, DaemonTasks
<1>3. ASSUME NEW u \in Task, task'[u] = "hello", hello'[u].sid = c
      PROVE  hello'[u].lastSeq <= n
  BY <1>3, DaemonTasks DEF AckedUpTo
<1>. QED BY <1>1, <1>2, <1>3 DEF AckedUpTo

\* Every step leaves each live binding with the task it belongs to.
LEMMA BoundKept ==
    ASSUME BInv, BoundByOwner, [Next]_vars
    PROVE  BoundByOwner'
<1>. {None, Gone} \cap Task = {} /\ \A c \in Conn : conn[c].gen \in Nat
  BY NoneAssumption DEF BInv, Shapes, Shape
<1>. SUFFICES ASSUME NEW c \in Conn, conn'[c].live \in Task
              PROVE  /\ Busy(conn[c].live)' /\ serves'[conn'[c].live] = c
                     /\ gen'[conn'[c].live] = conn'[c].gen
  BY DEF BoundByOwner, Busy
<1>1. CASE Quiet
  <2>1. conn'[c].live = conn[c].live /\ conn'[c].gen = conn[c].gen
    BY <1>1 DEF Quiet, Same
  <2>2. /\ Busy(conn[c].live) /\ serves[conn[c].live] = c
        /\ gen[conn[c].live] = conn[c].gen
    BY <2>1 DEF BoundByOwner
  <2>. QED BY <1>1, <2>1, <2>2 DEF Quiet, Busy
<1>2. ASSUME NEW t \in Task, NEW d \in Conn, NEW gone, task[t] = "hello", Establish(t, d, gone)
      PROVE  /\ Busy(conn[c].live)' /\ serves'[conn'[c].live] = c
             /\ gen'[conn'[c].live] = conn'[c].gen
  <2>. DEFINE pushed == RingPush(NewConn, NewFrames(NewConn, <<Windows>>))
              n == [pushed EXCEPT !.live = t, !.gen = 1, !.seq = 1]
  <2>1. /\ task'[t] = "serving" /\ serves'[t] = d /\ gen'[t] = 1
        /\ \A u \in Task \ {t} : task'[u] = task[u] /\ serves'[u] = serves[u] /\ gen'[u] = gen[u]
    BY <1>2 DEF Establish, Enter, BInv, Shapes
  <2>2. CASE c = d
    <3>1. Shape(pushed)
      BY RingPushKeeps DEF NewConn, Shape, Fields
    <3>2. conn'[c] = n
      BY <1>2, <2>2 DEF Establish
    <3>. HIDE DEF pushed
    <3>3. conn'[c].live = t /\ conn'[c].gen = 1
      BY <3>1, <3>2 DEF Shape, Fields
    <3>. QED BY <2>1, <2>2, <3>3 DEF Busy
  <2>3. CASE c # d
    <3>. DEFINE at == conn[c].attached /\ c \notin gone
    <3>1. conn'[c] = [conn[c] EXCEPT !.attached = at]
      BY <1>2, <2>3 DEF Establish
    <3>. HIDE DEF at
    <3>2. conn'[c].live = conn[c].live /\ conn'[c].gen = conn[c].gen
      BY <3>1 DEF BInv, Shapes, Shape, Fields
    <3>3. /\ Busy(conn[c].live) /\ serves[conn[c].live] = c
          /\ gen[conn[c].live] = conn[c].gen
      BY <3>2 DEF BoundByOwner
    <3>. QED BY <1>2, <2>1, <3>2, <3>3 DEF Busy
  <2>. QED BY <2>2, <2>3
<1>3. ASSUME NEW t \in Task, Resume(t)
      PROVE  /\ Busy(conn[c].live)' /\ serves'[conn'[c].live] = c
             /\ gen'[conn'[c].live] = conn'[c].gen
  <2>1. /\ hello[t].sid \in Conn
        /\ conn'[hello[t].sid].live = t
        /\ conn'[hello[t].sid].gen = conn[hello[t].sid].gen + 1
        /\ \A x \in Conn \ {hello[t].sid} : conn'[x] = conn[x]
    BY <1>3, ResumeSets
  <2>2. Enter(t, "serving", hello[t].sid, conn[hello[t].sid].gen + 1) /\ task[t] = "hello"
    BY <1>3 DEF Resume
  <2>3. /\ task'[t] = "serving" /\ serves'[t] = hello[t].sid
        /\ gen'[t] = conn[hello[t].sid].gen + 1
        /\ \A u \in Task \ {t} : task'[u] = task[u] /\ serves'[u] = serves[u] /\ gen'[u] = gen[u]
    BY <2>2 DEF Enter, BInv, Shapes
  <2>. QED BY <2>1, <2>2, <2>3 DEF BoundByOwner, Busy
<1>4. ASSUME NEW t \in Task, SocketDropped(t) \/ EndConn(t)
      PROVE  /\ Busy(conn[c].live)' /\ serves'[conn'[c].live] = c
             /\ gen'[conn'[c].live] = conn'[c].gen
  <2>. DEFINE d == serves[t]
              off == [conn[d] EXCEPT !.live = None, !.detached = TRUE]
              ended == [conn[d] EXCEPT !.live = Gone, !.attached = FALSE]
  <2>1. Busy(t) /\ d \in Conn /\ Shape(conn[d])
    BY <1>4 DEF SocketDropped, EndConn, BInv, Shapes, Busy
  <2>2. \A u \in Task \ {t} : task'[u] = task[u] /\ serves'[u] = serves[u] /\ gen'[u] = gen[u]
    BY <1>4 DEF SocketDropped, EndConn, Leave, Enter, BInv, Shapes
  <2>3. \/ conn' = conn /\ ~OwnsLive(t)
        \/ conn' = [conn EXCEPT ![d] = off] /\ OwnsLive(t)
        \/ conn' = [conn EXCEPT ![d] = ended] /\ OwnsLive(t)
    <3>1. CASE SocketDropped(t)
      BY <2>1, <3>1 DEF SocketDropped, BInv, Shapes, Shape, Fields
    <3>2. CASE EndConn(t)
      BY <2>1, <3>2 DEF EndConn, BInv, Shapes, Shape, Fields
    <3>. QED BY <1>4, <3>1, <3>2
  <2>4. off.live = None /\ ended.live = Gone
    BY <2>1 DEF Shape, Fields
  <2>. HIDE DEF off, ended
  <2>5. conn'[c] = conn[c] /\ (c = d => ~OwnsLive(t))
    BY <2>1, <2>3, <2>4 DEF BInv, Shapes
  <2>6. /\ Busy(conn[c].live) /\ serves[conn[c].live] = c
        /\ gen[conn[c].live] = conn[c].gen
    BY <2>5 DEF BoundByOwner
  <2>7. conn[c].live # t
    BY <2>5, <2>6, NoneAssumption DEF OwnsLive
  <2>. QED BY <2>2, <2>5, <2>6, <2>7 DEF Busy
<1>. QED BY <1>1, <1>2, <1>3, <1>4, NextCases

\* Nothing is said before the connection is established, whoever steps.
LEMMA QuietStartKept ==
    ASSUME GInv, LInv, [Next]_vars
    PROVE  QuietStart'
<1>. SUFFICES ASSUME NEW u \in Task, task'[u] \in {"idle", "hello"} PROVE upl'[u] = <<>>
  BY DEF QuietStart
<1>0. u \in DOMAIN task /\ u \in DOMAIN upl /\ (task[u] \in {"idle", "hello"} => upl[u] = <<>>)
  BY DEF GInv, Around, LInv, QuietStart
<1>1. CASE DaemonStep
  BY <1>0, <1>1, DaemonTasks
<1>2. ASSUME NEW t \in Task, Connect(t) PROVE upl'[u] = <<>>
  <2>1. upl' = upl /\ task[t] = "idle" /\ (u # t => task'[u] = task[u])
    BY <1>0, <1>2 DEF Connect
  <2>. QED BY <1>0, <2>1
<1>3. ASSUME NEW t \in Task, HearAck(t) \/ HearFrame(t) \/ Heartbeat(t) PROVE upl'[u] = <<>>
  <2>1. task[t] = "serving" /\ task' = task /\ (u # t => upl'[u] = upl[u])
    BY <1>0, <1>3 DEF HearAck, HearFrame, Heartbeat, Arrives, Say, taskVars
  <2>. QED BY <1>0, <2>1
<1>4. CASE NetworkDrops \/ UNCHANGED vars
  <2>1. task' = task /\ upl' = upl
    BY <1>4 DEF NetworkDrops, vars, taskVars
  <2>. QED BY <1>0, <2>1
<1>. QED BY <1>1, <1>2, <1>3, <1>4 DEF Next, PageStep, DaemonStep

\* A bound on what is acknowledged may be raised.
LEMMA AcksMore ==
    ASSUME GInv, NEW c \in Conn, NEW m \in Nat, NEW n \in Nat, m <= n, AckedUpTo(c, m)
    PROVE  AckedUpTo(c, n)
<1>1. conn[c].acked \in Nat
  BY DEF GInv, AllGood, Good, Typed
<1>2. ASSUME NEW t \in Task, task[t] = "serving", serves[t] = c, NEW i \in 1..Len(upl[t]),
             upl[t][i].ty \in {"ping", "credit"}
      PROVE  upl[t][i].ack <= n
  <2>1. upl[t] \in Seq(UpFrame)
    BY DEF GInv, Around
  <2>2. upl[t][i] \in UpFrame
    BY <2>1
  <2>3. upl[t][i].ack \in Nat /\ upl[t][i].ack <= m
    BY <1>2, <2>2 DEF AckedUpTo, UpFrame
  <2>. QED BY <2>3
<1>3. ASSUME NEW t \in Task, task[t] = "hello", hello[t].sid = c
      PROVE  hello[t].lastSeq <= n
  <2>1. hello[t].lastSeq \in Nat /\ hello[t].lastSeq <= m
    BY <1>3 DEF AckedUpTo, GInv, Around
  <2>. QED BY <2>1
<1>. QED BY <1>1, <1>2, <1>3 DEF AckedUpTo

\* The page says something that acknowledges no more.
LEMMA SaidAcks ==
    ASSUME GInv, NEW c \in Conn, NEW n \in Nat, AckedUpTo(c, n),
           UNCHANGED <<conn, task, serves, hello>>, NEW t \in Task, NEW f \in UpFrame,
           upl' = upl \/ Say(t, f),
           serves[t] = c /\ f.ty \in {"ping", "credit"} => f.ack <= n
    PROVE  AckedUpTo(c, n)'
<1>1. ASSUME NEW u \in Task, task[u] = "serving", serves[u] = c, NEW i \in 1..Len(upl'[u]),
             upl'[u][i].ty \in {"ping", "credit"}
      PROVE  upl'[u][i].ack <= n
  <2>1. upl[u] \in Seq(UpFrame) /\ u \in DOMAIN upl
    BY DEF GInv, Around
  <2>2. CASE upl'[u] = upl[u]
    BY <1>1, <2>2 DEF AckedUpTo
  <2>3. CASE u = t /\ upl'[u] = Append(upl[u], f)
    <3>1. \/ i \in 1..Len(upl[u]) /\ upl'[u][i] = upl[u][i]
          \/ upl'[u][i] = f
      BY <1>1, <2>1, <2>3, AppendProperties
    <3>. QED BY <1>1, <2>3, <3>1 DEF AckedUpTo
  <2>. QED BY <2>1, <2>2, <2>3 DEF Say
<1>. QED BY <1>1 DEF AckedUpTo

\* What the daemon sends keeps the line to the page unbroken.
LEMMA FollowsOn ==
    ASSUME GInv, NEW t \in Task, NEW k \in {0, 1}, NEW own, Follows(t, k, own),
           task[t] = "serving", task'[t] = "serving", page' = page,
           NEW f, Carries(serves[t], f)
    PROVE  Follows(t, k, own)'
<1>. DEFINE c == serves[t]
            d == down[t]
<1>1. /\ c \in Conn /\ conn[c].seq \in Nat /\ page.lastSeq \in Nat
      /\ d \in Seq(Ack \cup DataFrame)
  BY DEF GInv, BInv, Shapes, Busy, AllGood, Good, Typed, Around, PageType, Downlinks
<1>2. /\ f \in Seq(DataFrame) /\ conn'[c].seq = conn[c].seq + Len(f) /\ serves'[t] = c
      /\ \A i \in 1..Len(f) : f[i].seq = conn[c].seq + i
      /\ IF conn'[c].live = t THEN conn[c].live = t /\ down'[t] = d \o f ELSE down'[t] = d
  BY DEF Carries, From
<1>3. /\ k <= Len(d)
      /\ \A i \in 1..Len(d) : i > k =>
           /\ d[i] \in DataFrame /\ d[i].seq <= conn[c].seq
           /\ own => d[i].seq = page.lastSeq + (i - k)
      /\ own /\ conn[c].live = t => page.lastSeq + (Len(d) - k) = conn[c].seq
  BY DEF Follows
<1>4. PICK s \in Nat, m \in Nat, l \in Nat, p \in Nat :
        s = conn[c].seq /\ m = Len(f) /\ l = Len(d) /\ p = page.lastSeq
  <2>1. Len(f) \in Nat /\ Len(d) \in Nat
    BY <1>1, <1>2
  <2>. HIDE DEF c, d
  <2>. QED BY <1>1, <2>1
<1>. HIDE DEF c, d
<1>5. ASSUME NEW i \in 1..l, i > k
      PROVE  /\ d[i] \in DataFrame /\ d[i].seq <= s + m
             /\ own => d[i].seq = p + (i - k)
  <2>1. d[i] \in DataFrame /\ d[i].seq <= s /\ (own => d[i].seq = p + (i - k))
    BY <1>3, <1>4, <1>5
  <2>2. d[i].seq \in Nat
    BY <2>1 DEF DataFrame
  <2>. QED BY <2>1, <2>2
<1>6. CASE conn'[c].live # t
  BY <1>2, <1>3, <1>4, <1>5, <1>6 DEF Follows
<1>7. CASE conn'[c].live = t
  <2>1. conn[c].live = t /\ down'[t] = d \o f
    BY <1>2, <1>7
  <2>2. /\ Len(d \o f) = l + m
        /\ \A i \in 1..(l + m) : (d \o f)[i] = IF i <= l THEN d[i] ELSE f[i - l]
    <3>1. f \in Seq(Ack \cup DataFrame)
      BY <1>2
    <3>. QED BY <1>1, <1>4, <3>1, ConcatProperties
  <2>3. ASSUME NEW i \in 1..(l + m), i > k
        PROVE  /\ down'[t][i] \in DataFrame /\ down'[t][i].seq <= s + m
               /\ own => down'[t][i].seq = p + (i - k)
    <3>1. CASE i <= l
      BY <1>5, <2>1, <2>2, <2>3, <3>1
    <3>2. CASE ~(i <= l)
      <4>1. i - l \in 1..m /\ down'[t][i] = f[i - l]
        BY <2>1, <2>2, <3>2
      <4>2. f[i - l] \in DataFrame /\ f[i - l].seq = s + (i - l)
        <5>1. i - l \in 1..Len(f)
          BY <1>4, <4>1
        <5>2. f[i - l] \in DataFrame
          BY <1>2, <5>1, ElementOfSeq
        <5>. QED BY <1>2, <1>4, <5>1, <5>2
      <4>3. own => p + (l - k) = s
        BY <1>3, <1>4, <2>1
      <4>4. s + (i - l) <= s + m /\ (own => s + (i - l) = p + (i - k))
        BY <4>1, <4>3
      <4>. QED BY <4>1, <4>2, <4>4
    <3>. QED BY <3>1, <3>2
  <2>4. own => p + (l + m - k) = s + m
    <3>1. own => p + (l - k) = s
      BY <1>3, <1>4, <2>1
    <3>. QED BY <3>1
  <2>5. k <= l + m
    BY <1>3, <1>4
  <2>. QED BY <1>2, <1>4, <2>1, <2>2, <2>3, <2>4, <2>5 DEF Follows
<1>. QED BY <1>6, <1>7

\* What becomes of the page's socket in a step of the daemon that leaves the
\* page where it is: it serves on, waits on, or is established.
LEMMA PageSocketStays ==
    ASSUME GInv, DaemonStep, UNCHANGED pageVars, NEW t \in Task, page.sock = t
    PROVE  /\ task[t] = "serving" => task'[t] = "serving" /\ serves'[t] = serves[t]
           /\ task[t] = "hello" => \/ task'[t] = "hello" /\ hello'[t] = hello[t]
                                   \/ HelloFresh(t) \/ ResumeFails(t) \/ Resume(t)
<1>. t \in DOMAIN task /\ t \in DOMAIN serves /\ t \in DOMAIN hello
  BY DEF GInv, Around
<1>0. ASSUME NEW u \in Task, HelloRefused(u) \/ Ended(u) PROVE u # t
  <2>1. u = t => Navigate
    BY <1>0 DEF HelloRefused, Ended, PageLeaves
  <2>2. Navigate => page'.sock = Gone
    BY DEF Navigate, NewPage
  <2>. QED BY <2>1, <2>2, NoneAssumption DEF pageVars
<1>1. CASE Sweep \/ \E c \in Conn : FromRelay(c) \/ AttachAnswers(c)
  BY <1>1 DEF Sweep, FromRelay, AttachAnswers, taskVars
<1>2. ASSUME NEW u \in Task, TaskStep(u)
      PROVE  /\ task[t] = "serving" => task'[t] = "serving" /\ serves'[t] = serves[t]
             /\ task[t] = "hello" => \/ task'[t] = "hello" /\ hello'[t] = hello[t]
                                     \/ HelloFresh(t) \/ ResumeFails(t) \/ Resume(t)
  <2>1. CASE HelloFresh(u) \/ ResumeFails(u) \/ Resume(u)
    <3>1. task[u] = "hello" /\ \E c, g : Enter(u, "serving", c, g)
      BY <2>1 DEF HelloFresh, Resume, ResumeFails, Establish
    <3>. QED BY <2>1, <3>1 DEF Enter
  <2>2. CASE HelloRefused(u) \/ Ended(u) \/ SocketDropped(u) \/ EndConn(u)
    <3>1. u # t \/ task[t] = "ending"
      BY <1>0, <2>2 DEF SocketDropped, EndConn
    <3>. QED BY <2>2, <3>1 DEF HelloRefused, Ended, SocketDropped, EndConn, Leave, Enter
  <2>3. CASE Credit(u) \/ Ping(u) \/ Attach(u)
    BY <2>3 DEF Credit, Ping, Attach, taskVars
  <2>. QED BY <1>2, <2>1, <2>2, <2>3 DEF TaskStep
<1>. QED BY <1>1, <1>2 DEF DaemonStep

\* new_conn: its ack is on its way to the page, and its first frame.
LEMMA EstablishStands ==
    ASSUME GInv, LInv, NEW t \in Task, task[t] = "hello", NEW c \in Conn, NEW gone, Unused(c),
           Establish(t, c, gone), UNCHANGED <<upl, page>>
    PROVE  task'[t] = "serving" /\ Beginning(t)'
<1>. t \in DOMAIN task /\ t \in DOMAIN serves /\ t \in DOMAIN hello /\ t \in DOMAIN down
  BY DEF GInv, Around, AllGood, Downlinks
<1>. DEFINE windows == [seq |-> 1, body |-> Windows]
            said == [sid |-> c, resumed |-> FALSE]
<1>1. /\ conn'[c].seq = 1 /\ conn'[c].acked = 0
      /\ task'[t] = "serving" /\ serves'[t] = c
      /\ down'[t] = <<said, windows>>
      /\ \A u \in Task \ {t} : task'[u] = task[u] /\ serves'[u] = serves[u] /\ hello'[u] = hello[u]
  <2>1. conn'[c].seq = 1 /\ conn'[c].acked = 0
    BY EstablishSets
  <2>2. down' = [down EXCEPT ![t] = <<said, windows>>] /\ Enter(t, "serving", c, 1)
    BY DEF Establish
  <2>. HIDE DEF said, windows
  <2>3. down'[t] = <<said, windows>>
    BY <2>2
  <2>4. /\ task'[t] = "serving" /\ serves'[t] = c
        /\ \A u \in Task \ {t} :
             task'[u] = task[u] /\ serves'[u] = serves[u] /\ hello'[u] = hello[u]
    BY <2>2 DEF Enter, GInv, Around
  <2>. QED BY <2>1, <2>3, <2>4
<1>2. windows \in DataFrame /\ windows.seq = 1
  BY DEF DataFrame, Body
<1>. HIDE DEF windows
<1>3. /\ Len(down'[t]) = 2 /\ down'[t][1] = said /\ down'[t][2] = windows
  BY <1>1
<1>4. Follows(t, 1, page.lastSeq = 0)'
  <2>1. /\ 1 <= Len(down'[t])
        /\ \A i \in 1..Len(down'[t]) : i > 1 => i = 2
    BY <1>3
  <2>2. page.lastSeq = 0 => 1 = page.lastSeq + (2 - 1)
    OBVIOUS
  <2>. QED BY <1>1, <1>2, <1>3, <2>1, <2>2 DEF Follows
<1>5. AckedUpTo(c, 0)'
  <2>1. ASSUME NEW u \in Task, task'[u] = "serving", serves'[u] = c PROVE upl'[u] = <<>>
    <3>1. u = t
      BY <1>1, <2>1 DEF Unused
    <3>. QED BY <3>1 DEF LInv, QuietStart
  <2>2. ASSUME NEW u \in Task, task'[u] = "hello" PROVE hello'[u].sid # c
    BY <1>1, <2>2 DEF Unused
  <2>. QED BY <1>1, <2>1, <2>2 DEF AckedUpTo
<1>. QED BY <1>1, <1>3, <1>4, <1>5 DEF Beginning, said

\* Conn::resume: the replay begins where the page stopped, and what it flushes
\* goes on where the replay ends.
LEMMA ResumeStands ==
    ASSUME GInv, LInv, NEW t \in Task, Resume(t), UNCHANGED pageVars, page.sid = hello[t].sid,
           page.lastSeq = hello[t].lastSeq
    PROVE  task'[t] = "serving" /\ Resuming(t)'
<1>. t \in DOMAIN task /\ t \in DOMAIN serves /\ t \in DOMAIN down
  BY DEF GInv, Around, AllGood, Downlinks
<1>. DEFINE c == hello[t].sid
            last == hello[t].lastSeq
            r == conn[c]
            replay == Past(r.ring, last)
            said == [sid |-> c, resumed |-> TRUE]
            own == ~foreign
<1>1. /\ c \in Conn /\ Good(r) /\ last \in Nat /\ Covered(r, last)
      /\ task'[t] = "serving" /\ serves'[t] = c
  BY ResumeFlushes DEF Resume, Enter, GInv, Around
<1>2. PICK n \in Nat, base \in Nat, k \in Nat, m \in Nat : Ends(r, last, replay, n, base, k, m)
  BY <1>1, PastEnd
<1>3. PICK f : Sends(Replayed(t), c, Resumed(t), f)
  BY ResumeSends
<1>4. Resumed(t).live = t /\ Resumed(t).seq = r.seq
  BY ResumeFlushes
<1>5. PICK s \in Nat, l \in Nat :
        /\ s = r.seq /\ l = Len(f) /\ conn'[c].seq = s + l /\ conn'[c].live = t
        /\ f \in Seq(DataFrame) /\ \A i \in 1..l : f[i].seq = s + i
  <2>1. r.seq \in Nat /\ f \in Seq(DataFrame)
    BY <1>1, <1>3 DEF Good, Typed, Sends, From
  <2>. QED BY <1>3, <1>4, <2>1, NoneAssumption DEF Sends, From
<1>6. /\ replay \in Seq(DataFrame) /\ Len(replay) = m
      /\ s = base + n /\ n = m + k
      /\ \A i \in 1..m : replay[i].seq = base + k + i
  <2>1. ASSUME NEW i \in 1..m PROVE replay[i].seq = base + k + i
    <3>1. k + i \in 1..n /\ replay[i] = r.ring[k + i]
      BY <1>2 DEF Ends
    <3>2. r.ring[k + i].seq = base + (k + i)
      BY <1>2, <3>1 DEF Ends
    <3>. QED BY <3>1, <3>2
  <2>. QED BY <1>2, <1>5, <2>1 DEF Ends
<1>7. own => base + k = last
  <2>. SUFFICES ASSUME own PROVE base + k = last
    OBVIOUS
  <2>1. r.acked <= last /\ last <= s
    <3>1. page.sid # None
      BY <1>1, NoneAssumption
    <3>2. AckedUpTo(c, last) /\ last <= s
      BY <1>5, <3>1 DEF LInv, PageStands
    <3>. QED BY <3>2 DEF AckedUpTo
  <2>2. r.lost <= last /\ r.lost \in Nat /\ r.acked \in Nat
    BY <1>1 DEF Covered, Good, Typed
  <2>3. base <= last
    <3>1. base <= Later(r.acked, r.lost)
      BY <1>2 DEF Ends
    <3>. HIDE DEF last, r
    <3>. QED BY <1>1, <2>1, <2>2, <3>1 DEF Later
  <2>4. (k > 0 => base + k <= last) /\ (m > 0 => last < base + k + 1)
    BY <1>2 DEF Ends
  <2>. HIDE DEF last
  <2>5. last \in Nat
    BY <1>1 DEF last
  <2>6. CASE m > 0
    BY <2>3, <2>4, <2>5, <2>6
  <2>7. CASE m = 0
    <3>1. s = base + k
      BY <1>6, <2>7
    <3>. QED BY <2>1, <2>3, <2>4, <2>5, <3>1
  <2>. QED BY <2>6, <2>7
<1>. HIDE DEF replay, r
<1>8. down'[t] = (<<said>> \o replay) \o f
  BY <1>3, <1>4 DEF Sends, Replayed, replay, r
<1>9. /\ Len(down'[t]) = 1 + m + l
      /\ down'[t][1] = said
      /\ \A i \in 1..m : down'[t][1 + i] = replay[i]
      /\ \A i \in 1..l : down'[t][1 + m + i] = f[i]
  <2>. DEFINE all == Ack \cup DataFrame
              one == <<said>>
              queued == one \o replay
  <2>1. said \in Ack
    BY <1>1 DEF Ack
  <2>2. one \in Seq(all) /\ Len(one) = 1 /\ one[1] = said
    BY <2>1
  <2>3. replay \in Seq(all) /\ f \in Seq(all) /\ Len(f) = l /\ Len(replay) = m
    <3>1. replay \in Seq(DataFrame) /\ Len(replay) = m
      BY <1>6
    <3>2. f \in Seq(DataFrame) /\ Len(f) = l
      BY <1>5
    <3>3. \A q \in Seq(DataFrame) : q \in Seq(all)
      OBVIOUS
    <3>. QED BY <3>1, <3>2, <3>3
  <2>. HIDE DEF one, all
  <2>4. /\ queued \in Seq(all) /\ Len(queued) = 1 + m
        /\ \A i \in 1..(1 + m) : queued[i] = IF i <= 1 THEN one[i] ELSE replay[i - 1]
    <3>1. /\ queued \in Seq(all) /\ Len(queued) = Len(one) + Len(replay)
          /\ \A i \in 1..(Len(one) + Len(replay)) :
               queued[i] = IF i <= Len(one) THEN one[i] ELSE replay[i - Len(one)]
      BY <2>2, <2>3, ConcatProperties
    <3>. HIDE DEF queued
    <3>. QED BY <2>2, <2>3, <3>1
  <2>5. down'[t] = queued \o f
    BY <1>8 DEF one
  <2>. HIDE DEF queued
  <2>6. /\ Len(queued \o f) = 1 + m + l
        /\ \A i \in 1..(1 + m + l) :
             (queued \o f)[i] = IF i <= 1 + m THEN queued[i] ELSE f[i - (1 + m)]
    <3>1. /\ Len(queued \o f) = Len(queued) + Len(f)
          /\ \A i \in 1..(Len(queued) + Len(f)) :
               (queued \o f)[i] = IF i <= Len(queued) THEN queued[i] ELSE f[i - Len(queued)]
      BY <2>3, <2>4, ConcatProperties
    <3>. QED BY <2>3, <2>4, <3>1
  <2>7. down'[t][1] = said
    <3>1. 1 \in 1..(1 + m + l) /\ 1 \in 1..(1 + m) /\ 1 <= 1 + m
      OBVIOUS
    <3>2. queued[1] = one[1] /\ (queued \o f)[1] = queued[1]
      BY <2>4, <2>6, <3>1
    <3>. QED BY <2>2, <2>5, <3>2
  <2>8. ASSUME NEW i \in 1..m PROVE down'[t][1 + i] = replay[i]
    <3>1. /\ 1 + i \in 1..(1 + m + l) /\ 1 + i \in 1..(1 + m) /\ 1 + i <= 1 + m
          /\ ~(1 + i <= 1) /\ (1 + i) - 1 = i
      OBVIOUS
    <3>. QED BY <2>4, <2>5, <2>6, <3>1
  <2>9. ASSUME NEW i \in 1..l PROVE down'[t][1 + m + i] = f[i]
    <3>1. /\ 1 + m + i \in 1..(1 + m + l) /\ ~(1 + m + i <= 1 + m)
          /\ (1 + m + i) - (1 + m) = i
      OBVIOUS
    <3>. QED BY <2>5, <2>6, <3>1
  <2>. QED BY <2>5, <2>6, <2>7, <2>8, <2>9
<1>10. ASSUME NEW i \in 1..(1 + m + l), i > 1
       PROVE  /\ down'[t][i] \in DataFrame /\ down'[t][i].seq = base + k + (i - 1)
  <2>1. CASE i <= 1 + m
    <3>1. PICK j \in 1..m : i = 1 + j
      <4>1. i - 1 \in 1..m /\ i = 1 + (i - 1)
        BY <1>10, <2>1
      <4>. QED BY <4>1
    <3>2. replay[j] \in DataFrame
      BY <1>6, ElementOfSeq
    <3>3. replay[j].seq = base + k + j
      BY <1>6
    <3>4. down'[t][i] = replay[j]
      BY <1>9, <3>1
    <3>5. i - 1 = j
      BY <3>1
    <3>. QED BY <3>2, <3>3, <3>4, <3>5
  <2>2. CASE ~(i <= 1 + m)
    <3>1. PICK j \in 1..l : i = 1 + m + j
      <4>1. i - (1 + m) \in 1..l /\ i = 1 + m + (i - (1 + m))
        BY <1>10, <2>2
      <4>. QED BY <4>1
    <3>2. f[j] \in DataFrame
      BY <1>5, ElementOfSeq
    <3>3. s + j = base + k + (i - 1)
      BY <1>6, <3>1
    <3>. QED BY <1>5, <1>9, <3>1, <3>2, <3>3
  <2>. QED BY <2>1, <2>2
<1>11. ASSUME NEW i \in 1..(1 + m + l), i > 1
       PROVE  base + k + (i - 1) <= s + l
  BY <1>6, <1>11
<1>12. base + k + (1 + m + l - 1) = s + l
  BY <1>6
<1>13. page'.lastSeq = last /\ page'.sid = c /\ foreign' = foreign
  BY DEF pageVars
<1>14. Follows(t, 1, own)'
  <2>1. 1 <= 1 + m + l
    OBVIOUS
  <2>. HIDE DEF last, said, c
  <2>2. \A i \in 1..(1 + m + l) : i > 1 =>
          /\ down'[t][i] \in DataFrame /\ down'[t][i].seq <= s + l
          /\ own => down'[t][i].seq = last + (i - 1)
    BY <1>7, <1>10, <1>11
  <2>3. own => last + (1 + m + l - 1) = s + l
    BY <1>7, <1>12
  <2>. HIDE DEF own
  <2>4. own' = own
    BY <1>13 DEF own
  <2>. QED BY <1>1, <1>5, <1>9, <1>13, <2>1, <2>2, <2>3, <2>4 DEF Follows
<1>. QED BY <1>1, <1>9, <1>13, <1>14 DEF Resuming

\* The daemon's own steps, under a page that stays.
LEMMA DaemonPage ==
    ASSUME GInv, LInv, DaemonStep, UNCHANGED pageVars
    PROVE  PageStands' /\ \A t \in Task : page'.sock = t => SocketStands(t)'
<1>0. /\ page' = page /\ recv' = recv /\ foreign' = foreign
      /\ page.lastSeq \in Nat /\ page.sid \in Conn \cup {None}
      /\ foreign \in BOOLEAN
  BY DEF pageVars, GInv, Around, PageType
<1>1. PageStands'
  <2>1. ASSUME ~foreign, page.sid # None
        PROVE  AckedUpTo(page.sid, page.lastSeq)' /\ page.lastSeq <= conn'[page.sid].seq
    <3>. DEFINE c == page.sid
                n == page.lastSeq
    <3>1. c \in Conn /\ n \in Nat /\ AckedUpTo(c, n) /\ n <= conn[c].seq /\ ~Unused(c)
      BY <1>0, <2>1 DEF LInv, PageStands, Unused
    <3>2. PICK f : Carries(c, f)
      BY <3>1, DaemonCarries
    <3>3. conn'[c].seq = conn[c].seq + Len(f) /\ conn[c].seq \in Nat /\ Len(f) \in Nat
      BY <3>1, <3>2 DEF Carries, From, GInv, AllGood, Good, Typed
    <3>4. n <= conn'[c].seq
      BY <3>1, <3>3
    <3>5. c' = c /\ n' = n
      BY <1>0
    <3>. HIDE DEF c, n
    <3>6. \A d \in Conn, m \in Nat : AckedUpTo(d, m) => AckedUpTo(d, m)'
      BY DaemonAcks
    <3>7. AckedUpTo(c, n)'
      BY <3>1, <3>5, <3>6 DEF AckedUpTo
    <3>. QED BY <3>4, <3>7 DEF c, n
  <2>. QED BY <1>0, <2>1 DEF LInv, PageStands
<1>2. ASSUME NEW t \in Task, page.sock = t PROVE SocketStands(t)'
  <2>1. SocketStands(t)
    BY <1>2 DEF LInv
  <2>2. CASE task[t] = "hello" /\ hello[t] = [sid |-> page.sid, lastSeq |-> page.lastSeq]
    <3>1. CASE task'[t] = "hello" /\ hello'[t] = hello[t]
      BY <1>0, <2>2, <3>1 DEF SocketStands
    <3>2. CASE HelloFresh(t) \/ ResumeFails(t)
      <4>1. PICK c \in Conn, gone \in {{}, {hello[t].sid}} :
              /\ Unused(c) /\ Establish(t, c, gone) /\ UNCHANGED upl
        BY <3>2 DEF HelloFresh, ResumeFails
      <4>2. task'[t] = "serving" /\ Beginning(t)'
        BY <1>0, <2>2, <4>1, EstablishStands
      <4>. QED BY <4>2 DEF SocketStands
    <3>3. CASE Resume(t)
      <4>1. task'[t] = "serving" /\ Resuming(t)'
        BY <2>2, <3>3, ResumeStands
      <4>. QED BY <4>1 DEF SocketStands
    <3>. QED BY <1>2, <2>2, <3>1, <3>2, <3>3, PageSocketStays
  <2>3. CASE task[t] = "serving" /\ (Acknowledged(t) \/ Resuming(t) \/ Beginning(t))
    <3>1. task'[t] = "serving" /\ serves'[t] = serves[t]
      BY <1>2, <2>3, PageSocketStays
    <3>2. serves[t] \in Conn /\ ~Unused(serves[t]) /\ down[t] \in Seq(Ack \cup DataFrame)
      BY <2>3 DEF Unused, GInv, BInv, Shapes, Busy, AllGood, Downlinks
    <3>3. PICK f : Carries(serves[t], f)
      BY <3>2, DaemonCarries
    <3>4. ASSUME NEW k \in {0, 1}, NEW own, Follows(t, k, own) PROVE Follows(t, k, own)'
      BY <1>0, <2>3, <3>1, <3>3, <3>4, FollowsOn
    <3>5. ASSUME 1 <= Len(down[t]) PROVE down'[t][1] = down[t][1]
      <4>1. f \in Seq(Ack \cup DataFrame) /\ (down'[t] = down[t] \/ down'[t] = down[t] \o f)
        BY <2>3, <3>1, <3>3 DEF Carries, From
      <4>2. (down[t] \o f)[1] = down[t][1]
        BY <3>2, <3>5, <4>1, ConcatProperties
      <4>. QED BY <4>1, <4>2
    <3>6. CASE Acknowledged(t)
      <4>1. Follows(t, 0, ~foreign)'
        BY <1>0, <3>4, <3>6 DEF Acknowledged
      <4>. QED BY <1>0, <3>1, <3>6, <4>1 DEF Acknowledged, SocketStands
    <3>7. CASE Resuming(t)
      <4>1. Follows(t, 1, ~foreign)'
        BY <1>0, <3>4, <3>7 DEF Resuming
      <4>2. down'[t][1] = down[t][1]
        BY <3>5, <3>7 DEF Resuming, Follows
      <4>. QED BY <1>0, <3>1, <3>7, <4>1, <4>2 DEF Resuming, SocketStands
    <3>8. CASE Beginning(t)
      <4>1. Follows(t, 1, page.lastSeq = 0)'
        BY <1>0, <3>4, <3>8 DEF Beginning
      <4>2. down'[t][1] = down[t][1]
        BY <3>5, <3>8 DEF Beginning, Follows
      <4>3. page.lastSeq = 0 => AckedUpTo(serves[t], 0)'
        <5>1. 0 \in Nat /\ serves[t]' = serves[t]
          BY <3>1
        <5>2. \A d \in Conn : AckedUpTo(d, 0) => AckedUpTo(d, 0)'
          BY DaemonAcks
        <5>. QED BY <3>2, <3>8, <5>1, <5>2 DEF Beginning, AckedUpTo
      <4>. QED BY <1>0, <3>1, <3>8, <4>1, <4>2, <4>3 DEF Beginning, SocketStands
    <3>. QED BY <2>3, <3>6, <3>7, <3>8
  <2>. QED BY <2>1, <2>2, <2>3 DEF SocketStands
<1>. QED BY <1>0, <1>1, <1>2

\* A page that leaves asks for nothing of the session.
LEMMA LeftStands ==
    ASSUME Navigate
    PROVE  PageStands' /\ \A t \in Task : page'.sock = t => SocketStands(t)'
<1>1. /\ page'.sid = None /\ page'.lastSeq = 0 /\ page'.sock = Gone
      /\ recv' = 0 /\ foreign' = FALSE
  BY DEF Navigate, NewPage
<1>. QED BY <1>1, NoneAssumption DEF PageStands

\* A new socket says what the page heard.
LEMMA ConnectStands ==
    ASSUME GInv, LInv, NEW t \in Task, Connect(t)
    PROVE  PageStands' /\ \A u \in Task : page'.sock = u => SocketStands(u)'
<1>1. /\ page'.sid = page.sid /\ page'.lastSeq = page.lastSeq /\ page'.sock = t
      /\ recv' = recv /\ foreign' = foreign /\ conn' = conn
      /\ page.lastSeq \in Nat
  BY DEF Connect, daemonVars, GInv, Around, PageType
<1>2. /\ task[t] = "idle" /\ task'[t] = "hello"
      /\ hello'[t] = [sid |-> page.sid, lastSeq |-> page.lastSeq]
      /\ upl' = upl /\ serves' = serves
      /\ \A u \in Task \ {t} : task'[u] = task[u] /\ hello'[u] = hello[u]
  BY DEF Connect, GInv, Around
<1>3. AckedUpTo(page.sid, page.lastSeq) =>
        /\ conn'[page.sid].acked <= page.lastSeq
        /\ \A u \in Task :
             /\ task'[u] = "serving" /\ serves'[u] = page.sid =>
                  \A i \in 1..Len(upl'[u]) :
                     upl'[u][i].ty \in {"ping", "credit"} => upl'[u][i].ack <= page.lastSeq
             /\ task'[u] = "hello" /\ hello'[u].sid = page.sid =>
                  hello'[u].lastSeq <= page.lastSeq
  <2>. SUFFICES ASSUME AckedUpTo(page.sid, page.lastSeq)
                PROVE  /\ conn'[page.sid].acked <= page.lastSeq
                       /\ \A u \in Task :
                            /\ task'[u] = "serving" /\ serves'[u] = page.sid =>
                                 \A i \in 1..Len(upl'[u]) :
                                    upl'[u][i].ty \in {"ping", "credit"} =>
                                       upl'[u][i].ack <= page.lastSeq
                            /\ task'[u] = "hello" /\ hello'[u].sid = page.sid =>
                                 hello'[u].lastSeq <= page.lastSeq
    OBVIOUS
  <2>1. ASSUME NEW u \in Task, task'[u] = "hello", hello'[u].sid = page.sid
        PROVE  hello'[u].lastSeq <= page.lastSeq
    <3>1. CASE u = t
      BY <1>1, <1>2, <3>1
    <3>2. CASE u # t
      BY <1>2, <2>1, <3>2 DEF AckedUpTo
    <3>. QED BY <3>1, <3>2
  <2>2. ASSUME NEW u \in Task, task'[u] = "serving" PROVE task[u] = "serving"
    BY <1>2, <2>2
  <2>. QED BY <1>1, <1>2, <2>1, <2>2 DEF AckedUpTo
<1>4. PageStands'
  BY <1>1, <1>3 DEF LInv, PageStands, AckedUpTo
<1>5. SocketStands(t)'
  BY <1>1, <1>2 DEF SocketStands
<1>. QED BY <1>1, <1>4, <1>5

\* What the page's socket holds first.
LEMMA ArrivesFirst ==
    ASSUME GInv, LInv, NEW t \in Task, Arrives(t)
    PROVE  /\ Head(down[t]) = down[t][1] /\ 1 \in 1..Len(down[t])
           /\ Len(down'[t]) = Len(down[t]) - 1 /\ Len(down[t]) \in Nat
           /\ \A i \in 1..Len(down'[t]) : i + 1 \in 1..Len(down[t]) /\ down'[t][i] = down[t][i + 1]
           /\ UNCHANGED <<conn, task, serves, hello>>
           /\ task[t] = "serving" /\ page.sock = t /\ serves[t] \in Conn
           /\ Acknowledged(t) \/ Resuming(t) \/ Beginning(t)
<1>1. /\ down[t] \in Seq(Ack \cup DataFrame) /\ down[t] # <<>> /\ t \in DOMAIN down
      /\ down'[t] = Tail(down[t])
  BY DEF Arrives, GInv, AllGood, Downlinks
<1>2. /\ UNCHANGED <<conn, task, serves, hello>>
      /\ task[t] = "serving" /\ page.sock = t /\ serves[t] \in Conn
  BY DEF Arrives, daemonVars, taskVars, GInv, BInv, Shapes, Busy
<1>3. Acknowledged(t) \/ Resuming(t) \/ Beginning(t)
  BY <1>2 DEF LInv, SocketStands
<1>4. /\ Head(down[t]) = down[t][1] /\ 1 \in 1..Len(down[t])
      /\ Len(down'[t]) = Len(down[t]) - 1 /\ Len(down[t]) \in Nat
      /\ \A i \in 1..Len(down'[t]) : i + 1 \in 1..Len(down[t]) /\ down'[t][i] = down[t][i + 1]
  BY <1>1
<1>. QED BY <1>2, <1>3, <1>4

\* What is behind it follows on.
LEMMA FollowsBehind ==
    ASSUME GInv, LInv, NEW t \in Task, Arrives(t), NEW own, Follows(t, 1, own),
           page'.lastSeq = page.lastSeq
    PROVE  Follows(t, 0, own)'
<1>1. /\ 1 \in 1..Len(down[t]) /\ Len(down[t]) \in Nat
      /\ Len(down'[t]) = Len(down[t]) - 1
      /\ \A i \in 1..Len(down'[t]) : i + 1 \in 1..Len(down[t]) /\ down'[t][i] = down[t][i + 1]
      /\ UNCHANGED <<conn, task, serves, hello>>
  BY ArrivesFirst
<1>2. page.lastSeq \in Nat
  BY DEF GInv, Around, PageType
<1>3. ASSUME NEW i \in 1..Len(down'[t])
      PROVE  /\ down'[t][i] \in DataFrame /\ down'[t][i].seq <= conn[serves[t]].seq
             /\ own => down'[t][i].seq = page.lastSeq + (i - 0)
  <2>1. i + 1 \in 1..Len(down[t]) /\ i + 1 > 1 /\ (i + 1) - 1 = i - 0
    BY <1>1
  <2>. QED BY <1>1, <2>1 DEF Follows
<1>4. own /\ conn[serves[t]].live = t => page.lastSeq + (Len(down'[t]) - 0) = conn[serves[t]].seq
  BY <1>1, <1>2 DEF Follows
<1>5. 0 <= Len(down'[t])
  BY <1>1
<1>. QED BY <1>1, <1>3, <1>4, <1>5 DEF Follows

\* The ack: the page is on the connection of its socket from now on.
LEMMA HearAckStands ==
    ASSUME GInv, LInv, NEW t \in Task, HearAck(t)
    PROVE  PageStands' /\ \A u \in Task : page'.sock = u => SocketStands(u)'
<1>. DEFINE s == serves[t]
            attach == [ty |-> "attach"]
<1>1. Arrives(t) /\ "resumed" \in DOMAIN down[t][1] /\ Head(down[t]) = down[t][1]
  BY ArrivesFirst DEF HearAck
<1>2. /\ 1 \in 1..Len(down[t]) /\ UNCHANGED <<conn, task, serves, hello>>
      /\ task[t] = "serving" /\ page.sock = t /\ s \in Conn
      /\ Acknowledged(t) \/ Resuming(t) \/ Beginning(t)
  BY <1>1, ArrivesFirst
<1>3. ~Acknowledged(t)
  <2>1. Acknowledged(t) => down[t][1] \in DataFrame
    BY <1>2 DEF Acknowledged, Follows
  <2>. QED BY <1>1, <2>1 DEF DataFrame
<1>4. attach \in UpFrame /\ attach.ty \notin {"ping", "credit"}
  BY DEF UpFrame
<1>5. page \in PageType /\ foreign \in BOOLEAN
  BY DEF GInv, Around
<1>6. CASE Navigate
  BY <1>6, LeftStands
<1>7. CASE ~Navigate
  <2>. DEFINE ack == down[t][1]
  <2>1. /\ ~(~ack.resumed /\ page.attached)
        /\ page' = [page EXCEPT !.sid = ack.sid]
        /\ recv' = IF ack.resumed THEN recv ELSE 0
        /\ foreign' = IF ack.resumed THEN foreign ELSE page.lastSeq # 0
        /\ upl' = upl \/ Say(t, attach)
    BY <1>1, <1>7 DEF HearAck
  <2>2. ack.sid = s
    BY <1>2, <1>3 DEF Resuming, Beginning
  <2>3. /\ page'.sid = s /\ page'.lastSeq = page.lastSeq /\ page'.sock = t
        /\ page.lastSeq \in Nat
    BY <1>2, <1>5, <2>1, <2>2 DEF PageType
  <2>. HIDE DEF attach
  <2>4. \A n \in Nat : AckedUpTo(s, n) => AckedUpTo(s, n)'
    BY <1>2, <1>4, <2>1, SaidAcks
  <2>5. s # None /\ serves' = serves /\ task' = task /\ conn' = conn
    BY <1>2, NoneAssumption
  <2>6. CASE Resuming(t)
    <3>1. recv' = recv /\ foreign' = foreign /\ page.sid = s /\ Follows(t, 1, ~foreign)
      BY <2>1, <2>6 DEF Resuming
    <3>2. PageStands'
      <4>1. ~foreign => AckedUpTo(s, page.lastSeq) /\ page.lastSeq <= conn[s].seq
        BY <2>5, <3>1 DEF LInv, PageStands
      <4>2. ~foreign => AckedUpTo(s, page.lastSeq)'
        <5>. DEFINE n == page.lastSeq
        <5>1. n \in Nat /\ (~foreign => AckedUpTo(s, n)) /\ n' = n /\ s' = s
          BY <2>3, <2>5, <4>1
        <5>. HIDE DEF n, s
        <5>2. ~foreign => AckedUpTo(s, n)'
          BY <2>4, <5>1 DEF AckedUpTo
        <5>. QED BY <5>2 DEF n, s
      <4>. QED BY <2>3, <2>5, <3>1, <4>1, <4>2 DEF LInv, PageStands, AckedUpTo
    <3>3. Acknowledged(t)'
      <4>1. Follows(t, 0, ~foreign)'
        BY <1>1, <2>3, <3>1, FollowsBehind DEF Follows
      <4>. QED BY <2>3, <2>5, <4>1 DEF Acknowledged
    <3>. QED BY <1>2, <2>3, <3>2, <3>3 DEF SocketStands
  <2>7. CASE Beginning(t)
    <3>1. /\ recv' = 0 /\ foreign' = (page.lastSeq # 0)
          /\ Follows(t, 1, page.lastSeq = 0)
          /\ page.lastSeq = 0 => AckedUpTo(s, 0)
      BY <2>1, <2>7 DEF Beginning
    <3>2. PageStands'
      <4>1. page.lastSeq = 0 => AckedUpTo(s, 0)'
        <5>1. AckedUpTo(s, 0) => AckedUpTo(s, 0)'
          <6>1. 0 \in Nat /\ s' = s
            BY <2>5
          <6>. QED BY <2>4, <6>1 DEF AckedUpTo
        <5>. QED BY <3>1, <5>1
      <4>2. 0 <= conn'[s].seq
        BY <1>2, <2>5 DEF GInv, AllGood, Good, Typed
      <4>. QED BY <2>3, <2>5, <3>1, <4>1, <4>2 DEF PageStands, AckedUpTo
    <3>3. Acknowledged(t)'
      <4>1. Follows(t, 0, page.lastSeq = 0)'
        BY <1>1, <2>3, <3>1, FollowsBehind DEF Follows
      <4>2. Follows(t, 0, ~foreign)'
        BY <2>3, <3>1, <4>1 DEF Follows
      <4>. QED BY <2>3, <2>5, <4>2 DEF Acknowledged
    <3>. QED BY <1>2, <2>3, <3>2, <3>3 DEF SocketStands
  <2>. QED BY <1>2, <1>3, <2>6, <2>7
<1>. QED BY <1>6, <1>7

\* A frame comes from the connection the page is on, and is the next one unless
\* the page began with another's number.
LEMMA FrameNext ==
    ASSUME GInv, LInv, NEW t \in Task, HearFrame(t)
    PROVE  LET f == down[t][1] IN
           /\ Arrives(t) /\ Head(down[t]) = f /\ f \in DataFrame /\ f.seq \in Nat
           /\ page.sid = serves[t] /\ page.sid \in Conn /\ Follows(t, 0, ~foreign)
           /\ f.seq <= conn[page.sid].seq /\ (~foreign => f.seq = page.lastSeq + 1)
<1>1. Arrives(t) /\ "seq" \in DOMAIN down[t][1] /\ Head(down[t]) = down[t][1]
  BY ArrivesFirst DEF HearFrame
<1>2. /\ 1 \in 1..Len(down[t]) /\ serves[t] \in Conn
      /\ Acknowledged(t) \/ Resuming(t) \/ Beginning(t)
  BY <1>1, ArrivesFirst
<1>3. Acknowledged(t)
  BY <1>1, <1>2 DEF Resuming, Beginning
<1>4. /\ down[t][1] \in DataFrame /\ down[t][1].seq <= conn[serves[t]].seq
      /\ ~foreign => down[t][1].seq = page.lastSeq + (1 - 0)
  BY <1>2, <1>3 DEF Acknowledged, Follows
<1>5. down[t][1].seq \in Nat
  BY <1>4 DEF DataFrame
<1>. QED BY <1>1, <1>2, <1>3, <1>4, <1>5 DEF Acknowledged

\* What the page heard is one more, and it may say so.
LEMMA HearFrameStands ==
    ASSUME GInv, LInv, NEW t \in Task, HearFrame(t)
    PROVE  PageStands' /\ \A u \in Task : page'.sock = u => SocketStands(u)'
<1>. DEFINE f == down[t][1]
            s == serves[t]
            said == [ty |-> "credit", n |-> page.consumed + 1, ack |-> f.seq]
<1>1. /\ Arrives(t) /\ Head(down[t]) = f /\ f \in DataFrame /\ f.seq \in Nat
      /\ page.sid = s /\ s \in Conn /\ Follows(t, 0, ~foreign)
      /\ f.seq <= conn[s].seq /\ (~foreign => f.seq = page.lastSeq + 1)
  BY FrameNext
<1>2. /\ Len(down'[t]) = Len(down[t]) - 1 /\ Len(down[t]) \in Nat /\ 1 \in 1..Len(down[t])
      /\ \A i \in 1..Len(down'[t]) : i + 1 \in 1..Len(down[t]) /\ down'[t][i] = down[t][i + 1]
      /\ UNCHANGED <<conn, task, serves, hello>>
      /\ task[t] = "serving" /\ page.sock = t
  BY <1>1, ArrivesFirst
<1>3. page \in PageType /\ page.lastSeq \in Nat /\ page.consumed + 1 \in Nat
  BY DEF GInv, Around, PageType
<1>4. /\ page'.sid = s /\ page'.lastSeq = f.seq /\ page'.sock = t
      /\ recv' = f.seq /\ foreign' = foreign /\ (upl' = upl \/ Say(t, said))
  BY <1>1, <1>2, <1>3 DEF HearFrame, PageType
<1>5. s # None
  BY <1>1, NoneAssumption
<1>6. PICK n \in Nat, c \in Conn, p \in Nat : n = f.seq /\ c = s /\ p = page.lastSeq
  BY <1>1, <1>3
<1>7. ASSUME ~foreign PROVE AckedUpTo(c, n)' /\ n <= conn'[c].seq
  <2>1. AckedUpTo(c, p) /\ p <= n
    BY <1>1, <1>3, <1>5, <1>6, <1>7 DEF LInv, PageStands
  <2>2. said \in UpFrame /\ said.ack = n
    BY <1>1, <1>3, <1>6 DEF UpFrame
  <2>3. said.ack <= n /\ AckedUpTo(c, n)
    BY <2>1, <2>2, AcksMore
  <2>. HIDE DEF said
  <2>4. AckedUpTo(c, n)'
    BY <1>2, <1>4, <2>2, <2>3, SaidAcks
  <2>. QED BY <1>1, <1>2, <1>6, <2>4
<1>8. page'.sid = c /\ page'.lastSeq = n /\ recv' = n /\ foreign' = foreign /\ c # None
  BY <1>4, <1>5, <1>6
<1>9. PageStands'
  <2>1. (AckedUpTo(c, n) /\ n <= conn[c].seq)' =>
          AckedUpTo(page.sid, page.lastSeq)' /\ page'.lastSeq <= conn'[page'.sid].seq
    BY <1>8 DEF AckedUpTo
  <2>. QED BY <1>7, <1>8, <2>1 DEF PageStands
<1>10. Follows(t, 0, ~foreign)'
  <2>0. PICK l \in Nat : l = Len(down'[t]) /\ Len(down[t]) = l + 1
    <3>1. Len(down[t]) - 1 \in Nat
      BY <1>2
    <3>. QED BY <1>2, <3>1
  <2>1. \A i \in 1..l :
          /\ down'[t][i] \in DataFrame /\ down'[t][i].seq <= conn[c].seq
          /\ ~foreign => down'[t][i].seq = n + (i - 0)
    <3>. SUFFICES ASSUME NEW i \in 1..l
                  PROVE  /\ down'[t][i] \in DataFrame /\ down'[t][i].seq <= conn[c].seq
                         /\ ~foreign => down'[t][i].seq = n + (i - 0)
      OBVIOUS
    <3>1. i + 1 \in 1..Len(down[t]) /\ i + 1 > 0 /\ down'[t][i] = down[t][i + 1]
      BY <1>2, <2>0
    <3>2. /\ down[t][i + 1] \in DataFrame /\ down[t][i + 1].seq <= conn[c].seq
          /\ ~foreign => down[t][i + 1].seq = p + ((i + 1) - 0)
      BY <1>1, <1>6, <3>1 DEF Follows
    <3>3. ~foreign => n + (i - 0) = p + ((i + 1) - 0)
      <4>1. ~foreign => n = p + 1
        BY <1>1, <1>6
      <4>. QED BY <4>1
    <3>. QED BY <3>1, <3>2, <3>3
  <2>2. ~foreign /\ conn[c].live = t => n + (l - 0) = conn[c].seq
    <3>1. ~foreign /\ conn[c].live = t => p + (Len(down[t]) - 0) = conn[c].seq
      BY <1>1, <1>6 DEF Follows
    <3>2. ~foreign => n = p + 1
      BY <1>1, <1>6
    <3>3. ~foreign => p + (Len(down[t]) - 0) = n + (l - 0)
      BY <2>0, <3>2
    <3>. QED BY <3>1, <3>3
  <2>. QED BY <1>2, <1>6, <1>8, <2>0, <2>1, <2>2 DEF Follows
<1>11. SocketStands(t)'
  <2>1. Acknowledged(t)'
    BY <1>2, <1>4, <1>10 DEF Acknowledged
  <2>. QED BY <1>2, <2>1 DEF SocketStands
<1>. QED BY <1>4, <1>9, <1>11

\* The heartbeat acknowledges what the page heard.
LEMMA HeartbeatStands ==
    ASSUME GInv, LInv, NEW t \in Task, Heartbeat(t)
    PROVE  PageStands' /\ \A u \in Task : page'.sock = u => SocketStands(u)'
<1>. DEFINE f == [ty |-> "ping", ack |-> page.lastSeq]
<1>1. /\ UNCHANGED <<conn, task, serves, hello, down, page, recv, foreign>>
      /\ Say(t, f) /\ page.lastSeq \in Nat /\ page.sid \in Conn \cup {None}
      /\ task[t] = "serving" /\ page.sock = t /\ serves[t] \in Conn
  BY DEF Heartbeat, daemonVars, taskVars, pageVars, GInv, Around, PageType, BInv, Shapes, Busy
<1>2. f \in UpFrame /\ f.ack = page.lastSeq
  BY <1>1 DEF UpFrame
<1>. HIDE DEF f
<1>3. ASSUME NEW c \in Conn, NEW n \in Nat, page.lastSeq <= n, AckedUpTo(c, n)
      PROVE  AckedUpTo(c, n)'
  BY <1>1, <1>2, <1>3, SaidAcks
<1>4. PageStands'
  <2>1. ASSUME ~foreign, page.sid # None
        PROVE  AckedUpTo(page.sid, page.lastSeq)' /\ page.lastSeq <= conn'[page.sid].seq
    <3>. DEFINE c == page.sid
                n == page.lastSeq
    <3>1. c \in Conn /\ n \in Nat /\ AckedUpTo(c, n) /\ n <= conn[c].seq /\ c' = c /\ n' = n
      BY <1>1, <2>1 DEF LInv, PageStands
    <3>2. page.lastSeq <= n
      BY <3>1
    <3>. HIDE DEF c, n
    <3>3. AckedUpTo(c, n)'
      BY <1>3, <3>1, <3>2 DEF AckedUpTo
    <3>. QED BY <1>1, <3>1, <3>3 DEF c, n
  <2>. QED BY <1>1, <2>1 DEF LInv, PageStands
<1>5. SocketStands(t)'
  <2>1. \A k, own : Follows(t, k, own) <=> Follows(t, k, own)'
    BY <1>1 DEF Follows
  <2>2. Acknowledged(t) \/ Resuming(t) \/ Beginning(t)
    BY <1>1 DEF LInv, SocketStands
  <2>3. Acknowledged(t) => Acknowledged(t)'
    BY <1>1 DEF Acknowledged, Follows
  <2>4. Resuming(t) => Resuming(t)'
    BY <1>1 DEF Resuming, Follows
  <2>5. Beginning(t) => Beginning(t)'
    <3>1. page.lastSeq = 0 /\ AckedUpTo(serves[t], 0) => AckedUpTo(serves[t], 0)'
      <4>1. 0 \in Nat /\ serves[t]' = serves[t]
        BY <1>1
      <4>2. page.lastSeq = 0 => page.lastSeq <= 0
        OBVIOUS
      <4>. QED BY <1>1, <1>3, <4>1, <4>2 DEF AckedUpTo
    <3>. QED BY <1>1, <3>1 DEF Beginning, Follows
  <2>. QED BY <1>1, <2>2, <2>3, <2>4, <2>5 DEF SocketStands
<1>. QED BY <1>1, <1>4, <1>5

\* The daemon's steps leave the page alone, or send it away.
LEMMA PageOrLeaves ==
    ASSUME DaemonStep
    PROVE  UNCHANGED pageVars \/ (Navigate /\ conn' = conn)
<1>1. ASSUME NEW t \in Task, HelloRefused(t) \/ Ended(t)
      PROVE  UNCHANGED pageVars \/ (Navigate /\ conn' = conn)
  BY <1>1 DEF HelloRefused, Ended, PageLeaves, daemonVars
<1>2. ASSUME NEW t \in Task, TaskStep(t), ~HelloRefused(t), ~Ended(t)
      PROVE  UNCHANGED pageVars
  BY <1>2 DEF TaskStep, HelloFresh, Resume, ResumeFails, Credit, Ping, Attach, SocketDropped,
              EndConn
<1>3. CASE Sweep \/ \E c \in Conn : FromRelay(c) \/ AttachAnswers(c)
  BY <1>3 DEF Sweep, FromRelay, AttachAnswers
<1>. QED BY <1>1, <1>2, <1>3 DEF DaemonStep

\* The steps of the page, and those of the daemon.
LEMMA StepCases ==
    ASSUME [Next]_vars
    PROVE  \/ DaemonStep /\ UNCHANGED pageVars
           \/ Navigate /\ conn' = conn
           \/ \E t \in Task : Connect(t) \/ HearAck(t) \/ HearFrame(t) \/ Heartbeat(t)
           \/ NetworkDrops
           \/ UNCHANGED vars
BY PageOrLeaves DEF Next, PageStep, DaemonStep

\* Whatever happens, the page knows what it heard, and what is on its way to it
\* goes on from there.
LEMMA NextLInv == GInv /\ LInv /\ [Next]_vars => LInv'
<1>. SUFFICES ASSUME GInv, LInv, [Next]_vars PROVE LInv'
  OBVIOUS
<1>1. BoundByOwner' /\ QuietStart'
  BY BoundKept, QuietStartKept DEF GInv, LInv
<1>2. PageStands' /\ \A t \in Task : page'.sock = t => SocketStands(t)'
  <2>1. CASE NetworkDrops
    <3>1. /\ page'.sid = page.sid /\ page'.lastSeq = page.lastSeq /\ page'.sock = None
          /\ UNCHANGED <<conn, task, serves, hello, upl, recv, foreign>>
      BY <2>1 DEF NetworkDrops, daemonVars, taskVars, GInv, Around, PageType
    <3>2. PageStands'
      BY <3>1 DEF LInv, PageStands, AckedUpTo
    <3>. QED BY <3>1, <3>2, NoneAssumption
  <2>2. CASE UNCHANGED vars
    <3>1. UNCHANGED <<conn, task, serves, hello, down, upl, page, recv, foreign>>
      BY <2>2 DEF vars, daemonVars, taskVars, pageVars
    <3>2. PageStands'
      BY <3>1 DEF LInv, PageStands, AckedUpTo
    <3>3. ASSUME NEW t \in Task, page'.sock = t PROVE SocketStands(t)'
      <4>1. SocketStands(t)
        BY <3>1, <3>3 DEF LInv
      <4>. QED BY <3>1, <4>1 DEF SocketStands, Acknowledged, Resuming, Beginning, Follows, AckedUpTo
    <3>. QED BY <3>2, <3>3
  <2>. QED BY <2>1, <2>2, StepCases, DaemonPage, LeftStands, ConnectStands, HearAckStands,
             HearFrameStands, HeartbeatStands
<1>. QED BY <1>1, <1>2 DEF LInv

LEMMA InitLInv == Init => LInv
<1>. SUFFICES ASSUME Init PROVE LInv
  OBVIOUS
<1>1. /\ page.sid = None /\ page.lastSeq = 0 /\ page.sock = None
      /\ recv = 0 /\ foreign = FALSE
  BY DEF Init, NewPage
<1>2. \A c \in Conn : conn[c].live = None
  BY DEF Init, NewConn
<1>. QED BY <1>1, <1>2, NoneAssumption DEF Init, LInv, BoundByOwner, QuietStart, PageStands

-----------------------------------------------------------------------------
(* The refinement *)

\* What the daemon does on its own, the abstract downlink produces.
LEMMA DaemonProduces ==
    ASSUME GInv, LInv, GInv', DaemonStep, UNCHANGED pageVars
    PROVE  Downlink!Produce
<1>1. [c \in Conn |-> conn[c].seq]' \in [Conn -> Nat]
  <2>1. \A c \in Conn : conn'[c].seq \in Nat
    BY DEF GInv, AllGood, Good, Typed
  <2>. QED BY <2>1
<1>2. ASSUME page.sid # None PROVE conn'[page.sid].seq >= conn[page.sid].seq
  <2>1. page.sid \in Conn /\ ~Unused(page.sid)
    BY <1>2 DEF GInv, Around, PageType, Unused
  <2>2. PICK f : Carries(page.sid, f)
    BY <2>1, DaemonCarries
  <2>3. conn[page.sid].seq \in Nat /\ Len(f) \in Nat
    BY <2>1, <2>2 DEF GInv, AllGood, Good, Typed, Carries, From
  <2>. QED BY <2>2, <2>3 DEF Carries
<1>3. page.sid \in Conn \cup {None} /\ UNCHANGED <<page, recv, foreign>>
  BY DEF GInv, Around, PageType, pageVars
<1>. QED BY <1>1, <1>2, <1>3 DEF Downlink!Produce

\* A page that navigates leaves.
LEMMA LeavesDownlink == Navigate /\ conn' = conn => Downlink!LeavePage
BY DEF Navigate, NewPage, Downlink!LeavePage

\* The ack tells the page that its session goes on, or that one begins.
LEMMA AckBegins ==
    ASSUME GInv, LInv, NEW t \in Task, HearAck(t)
    PROVE  [Downlink!Next]_(Downlink!vars)
<1>1. /\ Arrives(t) /\ "resumed" \in DOMAIN down[t][1] /\ Head(down[t]) = down[t][1]
      /\ 1 \in 1..Len(down[t]) /\ conn' = conn /\ serves[t] \in Conn
      /\ Acknowledged(t) \/ Resuming(t) \/ Beginning(t)
  BY ArrivesFirst DEF HearAck
<1>2. ~Acknowledged(t)
  <2>1. Acknowledged(t) => down[t][1] \in DataFrame
    BY <1>1 DEF Acknowledged, Follows
  <2>. QED BY <1>1, <2>1 DEF DataFrame
<1>3. CASE Navigate
  BY <1>1, <1>3, LeavesDownlink DEF Downlink!Next
<1>4. CASE ~Navigate
  <2>1. /\ page'.sid = down[t][1].sid /\ foreign \in BOOLEAN
        /\ recv' = IF down[t][1].resumed THEN recv ELSE 0
        /\ foreign' = IF down[t][1].resumed THEN foreign ELSE page.lastSeq # 0
    BY <1>1, <1>4 DEF HearAck, GInv, Around, PageType
  <2>2. CASE Resuming(t)
    BY <1>1, <2>1, <2>2 DEF Resuming, Downlink!vars
  <2>3. CASE Beginning(t)
    <3>1. page'.sid \in Conn /\ recv' = 0 /\ foreign' \in BOOLEAN
      BY <1>1, <2>1, <2>3 DEF Beginning
    <3>. QED BY <1>1, <3>1 DEF Downlink!Begin, Downlink!Next
  <2>. QED BY <1>1, <1>2, <2>2, <2>3
<1>. QED BY <1>3, <1>4

\* A frame is the next one, or of a session begun with another's number.
LEMMA FrameHeard ==
    ASSUME GInv, LInv, NEW t \in Task, HearFrame(t)
    PROVE  Downlink!Hear
<1>. DEFINE f == down[t][1]
<1>1. /\ Head(down[t]) = f /\ f.seq \in Nat /\ page.sid \in Conn /\ conn' = conn
      /\ f.seq <= conn[page.sid].seq /\ (~foreign => f.seq = page.lastSeq + 1)
  BY FrameNext, ArrivesFirst
<1>2. /\ page'.sid = page.sid /\ recv' = f.seq /\ foreign' = foreign /\ foreign \in BOOLEAN
      /\ ~foreign => recv = page.lastSeq
  BY <1>1 DEF HearFrame, GInv, Around, PageType, LInv, PageStands
<1>. HIDE DEF f
<1>3. recv' = recv + 1 \/ (foreign /\ recv' \in Nat)
  BY <1>1, <1>2
<1>4. page.sid # None /\ recv' <= [c \in Conn |-> conn[c].seq][page.sid]
  BY <1>1, <1>2, NoneAssumption
<1>. QED BY <1>1, <1>2, <1>3, <1>4 DEF Downlink!Hear

\* Each step of the daemon and its page is a step of the abstract downlink, or
\* none that it can tell.
LEMMA NextMaps ==
    ASSUME GInv, LInv, [Next]_vars
    PROVE  [Downlink!Next]_(Downlink!vars)
<1>1. GInv'
  BY NextGInv
<1>2. CASE DaemonStep /\ UNCHANGED pageVars
  BY <1>1, <1>2, DaemonProduces DEF Downlink!Next
<1>3. CASE Navigate /\ conn' = conn
  BY <1>3, LeavesDownlink DEF Downlink!Next
<1>4. ASSUME NEW t \in Task, HearFrame(t) PROVE Downlink!Next
  BY <1>4, FrameHeard DEF Downlink!Next
<1>5. CASE NetworkDrops \/ (\E t \in Task : Connect(t) \/ Heartbeat(t)) \/ UNCHANGED vars
  <2>1. page'.sid = page.sid /\ UNCHANGED <<conn, recv, foreign>>
    BY <1>5 DEF NetworkDrops, Connect, Heartbeat, vars, pageVars, daemonVars, GInv, Around,
                PageType
  <2>. QED BY <2>1 DEF Downlink!vars
<1>. QED BY <1>2, <1>3, <1>4, <1>5, AckBegins, StepCases

\* Each page hears each frame of its session exactly once and in order, over
\* any number of sockets, drops and resumes: conn.rs, resume.rs and the page's
\* transport implement the abstract downlink.
THEOREM Refines == Spec => ImplementsDownlink
<1>1. Init => Downlink!Init
  BY DEF Init, NewConn, NewPage, Downlink!Init
<1>2. GInv /\ LInv /\ [Next]_vars => [Downlink!Next]_(Downlink!vars)
  BY NextMaps
<1>. QED BY <1>1, <1>2, InitGInv, NextGInv, InitLInv, NextLInv, PTL
         DEF Spec, ImplementsDownlink, Downlink!Spec

=============================================================================
