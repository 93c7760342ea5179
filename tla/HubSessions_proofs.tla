------------------------- MODULE HubSessions_proofs -------------------------
(***************************************************************************)
(* Proofs about the slots of a tunnel, the closes between its two ends and *)
(* the chunks of an answer, for every number of browsers, every ceiling    *)
(* and every length of an asset.                                           *)
(***************************************************************************)
EXTENDS HubSessions, FiniteSetTheorems, TLAPS

\* The steps that touch neither the slots nor the Hub's session tasks: the
\* browsers', the bridge's writer, the PC's, and the two ends of the tunnel.
Elsewhere == UNCHANGED <<conns, hubTask>>

\* A WebSocket's task moves on.
WsProgress(s) ==
    \/ Upgrade(s) \/ WsReserve(s) \/ WsRefused(s) \/ WsOpen(s) \/ WsOpenFails(s)
    \/ WsUpRefused(s) \/ WsLeft(s) \/ WsIdle(s)

\* A proxied request's task moves on.
HttpProgress(s) ==
    HttpReserve(s) \/ HttpSend(s) \/ HttpGivesUp(s) \/ HttpHead(s) \/ HttpEnd(s)

\* The pump takes slots away and moves no task.
Pump == conns' \subseteq conns /\ UNCHANGED hubTask

\* Every step is one of these.
LEMMA StepKinds ==
    ASSUME [Next]_vars
    PROVE  \/ Elsewhere
           \/ \E s \in Ws : WsProgress(s)
           \/ \E s \in Http : HttpProgress(s)
           \/ Pump
<1> USE DEF Elsewhere, hubVars, pcVars
<1>1. ASSUME NEW s \in Ws, WsStep(s) PROVE WsProgress(s) \/ Elsewhere
  BY <1>1 DEF WsStep, WsProgress, WsUp, WsWrite, WsWriteClose, WsWriteFails, Hello,
       HelloRefused, WsFrame, WsParted, Kick, BadFrame, PcIdle, CloseSession
<1>2. ASSUME NEW s \in Http, HttpStep(s) PROVE HttpProgress(s) \/ Elsewhere
  BY <1>2 DEF HttpStep, HttpProgress, HttpChunk, HttpAnswer, BodyIncomplete, HttpPiece,
       HttpDone, CloseSession
<1>3. ASSUME NEW s \in Session, BrowserLeaves(s) PROVE Elsewhere
  BY <1>3 DEF BrowserLeaves
<1>4. CASE Route
  <2>1. UNCHANGED hubTask
    BY <1>4 DEF Route
  <2>2. conns' \subseteq conns
    BY <1>4 DEF Route
  <2> QED
    BY <2>1, <2>2 DEF Pump
<1>5. CASE Displaced
  BY <1>5 DEF Displaced, CloseAll, Pump
<1>6. CASE HubDrains
  BY <1>6 DEF HubDrains, CloseAll, Pump
<1>7. CASE HubGone \/ Inbound \/ LinkEnds
  BY <1>7 DEF HubGone, Inbound, LinkEnds
<1>8. CASE UNCHANGED vars
  BY <1>8 DEF vars
<1> QED
  BY <1>1, <1>2, <1>3, <1>4, <1>5, <1>6, <1>7, <1>8 DEF Next

-----------------------------------------------------------------------------
(* No ghost holds a slot *)

\* Inductive as it stands, once the tasks have their type.
SlotInv ==
    /\ conns \subseteq Session
    /\ hubTask \in [Session -> HubPhase]
    /\ NoGhostSlot

LEMMA SlotStep == SlotInv /\ [Next]_vars => SlotInv'
<1> SUFFICES ASSUME SlotInv, [Next]_vars PROVE SlotInv'
  OBVIOUS
<1> USE DEF SlotInv, NoGhostSlot, HubPhase
<1>1. CASE Elsewhere
  BY <1>1 DEF Elsewhere
<1>2. ASSUME NEW s \in Ws, WsProgress(s) PROVE SlotInv'
  <2>0. s \in Session
    BY DEF Session
  <2>1. CASE Upgrade(s)
    BY <2>0, <2>1 DEF Upgrade
  <2>2. CASE WsReserve(s)
    BY <2>0, <2>2 DEF WsReserve, Reserve
  <2>3. CASE WsRefused(s)
    BY <2>0, <2>3 DEF WsRefused
  <2>4. CASE WsOpen(s)
    BY <2>0, <2>4 DEF WsOpen
  <2>5. CASE WsOpenFails(s)
    BY <2>0, <2>5 DEF WsOpenFails
  <2>6. CASE WsUpRefused(s) \/ WsLeft(s) \/ WsIdle(s)
    <3>1. FreeSlot(s)
      BY <2>6 DEF WsUpRefused, WsLeft, WsIdle, LeaveReader
    <3> QED
      BY <2>0, <3>1 DEF FreeSlot
  <2> QED
    BY <1>2, <2>1, <2>2, <2>3, <2>4, <2>5, <2>6 DEF WsProgress
<1>3. ASSUME NEW s \in Http, HttpProgress(s) PROVE SlotInv'
  <2>0. s \in Session
    BY DEF Session
  <2>1. CASE HttpReserve(s)
    BY <2>0, <2>1 DEF HttpReserve, Reserve
  <2>2. CASE HttpSend(s)
    BY <2>0, <2>2 DEF HttpSend
  <2>3. CASE HttpHead(s)
    BY <2>0, <2>3 DEF HttpHead
  <2>4. CASE HttpGivesUp(s) \/ HttpEnd(s)
    <3>1. FreeSlot(s)
      BY <2>4 DEF HttpGivesUp, HttpEnd, HttpLeave
    <3> QED
      BY <2>0, <3>1 DEF FreeSlot
  <2> QED
    BY <1>3, <2>1, <2>2, <2>3, <2>4 DEF HttpProgress
<1>4. CASE Pump
  BY <1>4 DEF Pump
<1> QED
  BY <1>1, <1>2, <1>3, <1>4, StepKinds

LEMMA SlotsCorrect == Spec => []SlotInv
<1>1. Init => SlotInv
  BY DEF Init, SlotInv, NoGhostSlot, HubPhase
<1> QED
  BY <1>1, SlotStep, PTL DEF Spec

\* Behind every slot of the table stands a task that has yet to run its exit
\* path, whatever ended before it.
THEOREM NoGhosts == Spec => []NoGhostSlot
<1>1. SlotInv => NoGhostSlot
  BY DEF SlotInv
<1> QED
  BY <1>1, SlotsCorrect, PTL

-----------------------------------------------------------------------------
(* The ceiling *)

\* A table of sessions is finite.
LEMMA SlotsFinite ==
    ASSUME SlotInv
    PROVE  IsFiniteSet(conns) /\ Cardinality(conns) \in Nat
BY SessionAssumption, FS_Subset, FS_CardinalityType DEF SlotInv, Session

\* A table that grows grows by one session, with room for it.
LEMMA GrowsByReserve ==
    ASSUME [Next]_vars
    PROVE  conns' \subseteq conns \/ \E s \in Session : Reserve(s)
<1>1. CASE Elsewhere
  BY <1>1 DEF Elsewhere
<1>2. ASSUME NEW s \in Ws, WsProgress(s)
      PROVE  conns' \subseteq conns \/ Reserve(s)
  BY <1>2 DEF WsProgress, Upgrade, WsReserve, WsRefused, WsOpen, WsOpenFails, WsUpRefused,
       WsLeft, WsIdle, LeaveReader, FreeSlot
<1>3. ASSUME NEW s \in Http, HttpProgress(s)
      PROVE  conns' \subseteq conns \/ Reserve(s)
  BY <1>3 DEF HttpProgress, HttpReserve, HttpSend, HttpGivesUp, HttpHead, HttpEnd, HttpLeave,
       FreeSlot
<1>4. CASE Pump
  BY <1>4 DEF Pump
<1> QED
  BY <1>1, <1>2, <1>3, <1>4, StepKinds DEF Session

LEMMA CeilingStep == SlotInv /\ CeilingKept /\ [Next]_vars => CeilingKept'
<1> SUFFICES ASSUME SlotInv, CeilingKept, [Next]_vars PROVE CeilingKept'
  OBVIOUS
<1>1. CASE conns' \subseteq conns
  <2>1. Cardinality(conns') <= Cardinality(conns) /\ Cardinality(conns') \in Nat
    BY <1>1, SlotsFinite, FS_Subset, FS_CardinalityType
  <2> QED
    BY <2>1, SlotsFinite, LimitAssumption DEF CeilingKept
<1>2. ASSUME NEW s \in Session, Reserve(s) PROVE CeilingKept'
  <2>1. Cardinality(conns) < Ceiling /\ conns' = conns \cup {s}
    BY <1>2, SlotsFinite, LimitAssumption DEF Reserve, Full
  <2>2. Cardinality(conns') \in {Cardinality(conns), Cardinality(conns) + 1}
    BY <2>1, SlotsFinite, FS_AddElement
  <2> QED
    BY <2>1, <2>2, SlotsFinite, LimitAssumption DEF CeilingKept
<1> QED
  BY <1>1, <1>2, GrowsByReserve

\* However many upgrades and requests saw room before any claimed its slot,
\* the slots in use never pass sessions_per_tunnel.
THEOREM Ceilings == Spec => []CeilingKept
<1>1. Init => CeilingKept
  BY FS_EmptySet, LimitAssumption DEF Init, CeilingKept
<1> QED
  BY <1>1, SlotsCorrect, CeilingStep, PTL DEF Spec

-----------------------------------------------------------------------------
(* The closes between the two ends *)

\* A task that has sent nothing to the PC yet.
Unsent == {"idle", "upgraded", "reserved"}
Opens(f, s) == f.session = s /\ f.ty \in {"open", "req"}

\* Only the last word of a displaced Hub names no session.
Told == [ty : {"open", "up", "req", "reqFin", "close"}, session : Session]
           \cup {Frame("replaced", 0)}

Queues ==
    /\ toPc \in Seq(Told) /\ fromPc \in Seq(DownFrame)
    /\ bound \subseteq Session
    /\ pcTask \in [Session -> PcPhase]

\* What the PC knows of a session, or will hear, came from a task that sent it.
SentFirst ==
    \A s \in Session : hubTask[s] \in Unsent =>
        /\ s \notin bound /\ pcTask[s] = "none"
        /\ \A i \in DOMAIN toPc : ~Opens(toPc[i], s)

\* While the Hub serves, the close of a session that ended there is behind
\* every open of it.
ClosesFollow ==
    \A s \in Session : hub = "up" /\ hubTask[s] = "done" =>
        \A i \in DOMAIN toPc : Opens(toPc[i], s) =>
            \E j \in DOMAIN toPc : j > i /\ toPc[j] = Frame("close", s)

\* A close is sent as the last thing the Hub's task does.
ClosesAreLast ==
    \A s \in Session, i \in DOMAIN toPc : toPc[i] = Frame("close", s) => hubTask[s] = "done"

\* The PC unbinds a session under a running task only at the Hub's word.
UnboundByHub ==
    \A s \in Session : s \notin bound /\ pcTask[s] \notin {"none", "done"} => hubTask[s] = "done"

CloseInv ==
    /\ SlotInv /\ Queues
    /\ SentFirst /\ ClosesFollow /\ ClosesAreLast /\ UnboundByHub
    /\ NoOrphanBinding /\ PcEndFreesSlot

\* HubSends: what was queued stays where it is, and the frames come after it.
LEMMA SendsBehind ==
    ASSUME Queues, NEW frames \in Seq(Told), HubSends(frames)
    PROVE  /\ toPc' \in Seq(Told)
           /\ \A i \in DOMAIN toPc : i \in DOMAIN toPc' /\ toPc'[i] = toPc[i]
           /\ \A i \in DOMAIN toPc' :
                i \in DOMAIN toPc \/ \E k \in DOMAIN frames : toPc'[i] = frames[k]
           /\ hub # "gone" => \A k \in DOMAIN frames :
                \E j \in DOMAIN toPc' : toPc'[j] = frames[k] /\ \A i \in DOMAIN toPc : j > i
<1>1. CASE hub = "gone"
  BY <1>1 DEF HubSends, Queues
<1>2. CASE hub # "gone"
  <2>1. toPc' = toPc \o frames /\ toPc \in Seq(Told)
    BY <1>2 DEF HubSends, Queues
  <2>2. /\ toPc' \in Seq(Told) /\ Len(toPc') = Len(toPc) + Len(frames)
        /\ \A i \in 1..Len(toPc') :
             toPc'[i] = IF i <= Len(toPc) THEN toPc[i] ELSE frames[i - Len(toPc)]
    BY <2>1
  <2>3. \A i \in DOMAIN toPc' : i \in DOMAIN toPc \/ i - Len(toPc) \in DOMAIN frames
    BY <2>1, <2>2
  <2>4. ASSUME NEW k \in DOMAIN frames
        PROVE  \E j \in DOMAIN toPc' : toPc'[j] = frames[k] /\ \A i \in DOMAIN toPc : j > i
    <3>1. /\ Len(toPc) + k \in 1..Len(toPc')
          /\ toPc'[Len(toPc) + k] = frames[k]
          /\ \A i \in DOMAIN toPc : Len(toPc) + k > i
      BY <2>1, <2>2
    <3>. QED BY <3>1, <2>2
  <2>. QED BY <2>1, <2>2, <2>3, <2>4
<1>. QED BY <1>1, <1>2

\* Steps of the Hub's half that queue nothing, and the ends of either half.
LEMMA HubMovesKeeps ==
    ASSUME CloseInv, SlotInv',
           UNCHANGED <<toPc, fromPc, bound, pcTask>>,
           hub' = "up" => hub = "up", link' = "up" => link = "up",
           \A s \in Session :
             \/ hubTask'[s] = hubTask[s]
             \/ hubTask[s] \in Unsent /\ hubTask'[s] \in Unsent \cup {"done"}
             \/ hubTask[s] = "awaiting" /\ hubTask'[s] = "streaming",
           \A s \in conns' : s \in conns \/ hubTask[s] \in Unsent
    PROVE  CloseInv'
<1>. USE DEF CloseInv, Unsent
<1>1. Queues' /\ SentFirst'
  BY DEF Queues, SentFirst, Opens
<1>2. ClosesFollow'
  BY DEF SentFirst, ClosesFollow, Opens, Frame
<1>3. ClosesAreLast' /\ UnboundByHub'
  BY DEF ClosesAreLast, UnboundByHub, SentFirst
<1>4. NoOrphanBinding'
  BY DEF NoOrphanBinding, SentFirst, Queues, Frame
<1>5. PcEndFreesSlot'
  BY DEF PcEndFreesSlot, SentFirst, SlotInv, Frame
<1>. QED BY <1>1, <1>2, <1>3, <1>4, <1>5

\* Steps of the PC's half: what it unbinds it closes, and it says so.
LEMMA PcMovesKeeps ==
    ASSUME CloseInv, UNCHANGED <<conns, hubTask, toPc, hub, link>>, NEW s \in Session,
           bound' = bound \/ (bound' = bound \ {s} /\ pcTask'[s] = "done"),
           pcTask' \in [Session -> PcPhase],
           \A x \in Session \ {s} : pcTask'[x] = pcTask[x],
           pcTask[s] \notin {"none", "done"}, pcTask'[s] # "none",
           fromPc' \in Seq(DownFrame), ToSet(fromPc) \subseteq ToSet(fromPc'),
           pcTask'[s] = "done" /\ hub = "up" /\ link = "up" /\ s \in conns
             => {Frame("close", s), Frame("kick", s)} \cap ToSet(fromPc') # {}
    PROVE  CloseInv'
<1>. USE DEF CloseInv, Unsent
<1>1. Queues' /\ SentFirst'
  BY DEF Queues, SentFirst, Opens
<1>2. ClosesFollow' /\ ClosesAreLast' /\ SlotInv'
  BY DEF ClosesFollow, ClosesAreLast, Opens, Frame, SlotInv, NoGhostSlot
<1>3. UnboundByHub'
  <2>. SUFFICES ASSUME NEW x \in Session, x \notin bound', pcTask'[x] \notin {"none", "done"}
                PROVE  hubTask[x] = "done"
    BY DEF UnboundByHub
  <2>1. x \notin bound /\ pcTask[x] \notin {"none", "done"}
    OBVIOUS
  <2>. QED BY <2>1 DEF UnboundByHub
<1>4. NoOrphanBinding'
  BY DEF NoOrphanBinding, Frame
<1>5. PcEndFreesSlot'
  <2>. SUFFICES ASSUME NEW x \in conns', hub' = "up", link' = "up", pcTask'[x] = "done"
                PROVE  {Frame("close", x), Frame("kick", x)} \cap ToSet(fromPc') # {}
    BY DEF PcEndFreesSlot, Frame
  <2>1. CASE x = s
    BY <2>1
  <2>2. CASE x # s
    <3>1. {Frame("close", x), Frame("kick", x)} \cap ToSet(fromPc) # {}
      BY <2>2 DEF PcEndFreesSlot, SlotInv
    <3>. QED BY <3>1
  <2>. QED BY <2>1, <2>2
<1>. QED BY <1>1, <1>2, <1>3, <1>4, <1>5

\* A task of the Hub sends: its opens first, then its frames, then its close.
LEMMA HubSendsKeeps ==
    ASSUME CloseInv, SlotInv', UNCHANGED <<fromPc, bound, pcTask, link, hub>>,
           NEW s \in Session, hubTask[s] # "done",
           NEW frames \in Seq(Told), HubSends(frames),
           conns' \subseteq conns,
           \A x \in Session \ {s} : hubTask'[x] = hubTask[x],
           hubTask'[s] \notin Unsent,
           \A k \in DOMAIN frames : frames[k].session = s,
           \A k \in DOMAIN frames : frames[k] = Frame("close", s) => hubTask'[s] = "done",
           hubTask'[s] = "done" => frames = <<Frame("close", s)>>
    PROVE  CloseInv'
<1>. USE DEF CloseInv
<1>1. /\ toPc' \in Seq(Told)
      /\ \A i \in DOMAIN toPc : i \in DOMAIN toPc' /\ toPc'[i] = toPc[i]
      /\ \A i \in DOMAIN toPc' :
           i \in DOMAIN toPc \/ \E k \in DOMAIN frames : toPc'[i] = frames[k]
  BY SendsBehind
<1>2. hub # "gone" => \A k \in DOMAIN frames :
        \E j \in DOMAIN toPc' : toPc'[j] = frames[k] /\ \A i \in DOMAIN toPc : j > i
  BY SendsBehind
<1>3. Queues'
  BY <1>1 DEF Queues
<1>4. SentFirst'
  <2>. SUFFICES ASSUME NEW x \in Session, hubTask'[x] \in Unsent
                PROVE  /\ x \notin bound' /\ pcTask'[x] = "none"
                       /\ \A i \in DOMAIN toPc' : ~Opens(toPc'[i], x)
    BY DEF SentFirst
  <2>1. x # s /\ hubTask[x] \in Unsent
    OBVIOUS
  <2>. QED BY <1>1, <2>1 DEF SentFirst, Opens
<1>5. ClosesFollow'
  <2>. SUFFICES ASSUME NEW x \in Session, hub' = "up", hubTask'[x] = "done",
                       NEW i \in DOMAIN toPc', Opens(toPc'[i], x)
                PROVE  \E j \in DOMAIN toPc' : j > i /\ toPc'[j] = Frame("close", x)
    BY DEF ClosesFollow
  <2>1. i \in DOMAIN toPc
    <3>1. CASE x = s
      BY <1>1, <3>1 DEF Opens, Frame
    <3>2. CASE x # s
      BY <1>1, <3>2 DEF Opens
    <3>. QED BY <3>1, <3>2
  <2>2. CASE x = s
    <3>1. 1 \in DOMAIN frames /\ frames[1] = Frame("close", s)
      BY <2>2
    <3>. QED BY <1>2, <2>1, <2>2, <3>1
  <2>3. CASE x # s
    <3>1. \E j \in DOMAIN toPc : j > i /\ toPc[j] = Frame("close", x)
      BY <1>1, <2>1, <2>3 DEF ClosesFollow
    <3>. QED BY <1>1, <3>1
  <2>. QED BY <2>2, <2>3
<1>6. ClosesAreLast'
  <2>. SUFFICES ASSUME NEW x \in Session, NEW i \in DOMAIN toPc', toPc'[i] = Frame("close", x)
                PROVE  hubTask'[x] = "done"
    BY DEF ClosesAreLast
  <2>1. CASE i \in DOMAIN toPc
    BY <1>1, <2>1 DEF ClosesAreLast
  <2>2. CASE \E k \in DOMAIN frames : toPc'[i] = frames[k]
    BY <2>2 DEF Frame
  <2>. QED BY <1>1, <2>1, <2>2
<1>7. UnboundByHub'
  BY DEF UnboundByHub
<1>8. NoOrphanBinding'
  <2>. SUFFICES ASSUME NEW x \in bound, hub = "up", link = "up", hubTask'[x] = "done"
                PROVE  \E j \in DOMAIN toPc' : toPc'[j] = Frame("close", x)
    BY DEF NoOrphanBinding, ToSet
  <2>1. CASE x = s
    <3>1. 1 \in DOMAIN frames /\ frames[1] = Frame("close", s)
      BY <2>1
    <3>. QED BY <1>2, <2>1, <3>1
  <2>2. CASE x # s
    <3>1. \E j \in DOMAIN toPc : toPc[j] = Frame("close", x)
      BY <2>2 DEF NoOrphanBinding, ToSet, Queues
    <3>. QED BY <1>1, <3>1
  <2>. QED BY <2>1, <2>2
<1>9. PcEndFreesSlot'
  BY DEF PcEndFreesSlot, Frame
<1>. QED BY <1>3, <1>4, <1>5, <1>6, <1>7, <1>8, <1>9

\* The Hub says one last word to the PC while every task stands still.
LEMMA DisplacedKeeps == CloseInv /\ SlotInv' /\ Displaced => CloseInv'
<1>. SUFFICES ASSUME CloseInv, SlotInv', Displaced PROVE CloseInv'
  OBVIOUS
<1>. USE DEF CloseInv
<1>. DEFINE frames == <<Frame("replaced", 0)>>
<1>0. /\ HubSends(frames) /\ frames \in Seq(Told)
      /\ UNCHANGED <<hubTask, fromPc, bound, pcTask, link, hub>> /\ conns' = {}
  BY DEF Displaced, CloseAll, Frame, Told, pcVars
<1>1. /\ toPc' \in Seq(Told)
      /\ \A i \in DOMAIN toPc : i \in DOMAIN toPc' /\ toPc'[i] = toPc[i]
      /\ \A i \in DOMAIN toPc' :
           i \in DOMAIN toPc \/ \E k \in DOMAIN frames : toPc'[i] = frames[k]
  <2>. HIDE DEF frames
  <2>. QED BY <1>0, SendsBehind
<1>2. \A i \in DOMAIN toPc' : i \in DOMAIN toPc \/ toPc'[i].ty = "replaced"
  BY <1>1 DEF Frame
<1>. HIDE DEF frames
<1>3. Queues' /\ SentFirst'
  BY <1>0, <1>1, <1>2 DEF Queues, SentFirst, Opens
<1>4. ClosesFollow'
  BY <1>0, <1>1, <1>2 DEF ClosesFollow, Opens
<1>5. ClosesAreLast' /\ UnboundByHub'
  BY <1>0, <1>1, <1>2 DEF ClosesAreLast, UnboundByHub, Frame
<1>6. NoOrphanBinding'
  <2>. SUFFICES ASSUME NEW x \in bound, hub = "up", link = "up", hubTask[x] = "done"
                PROVE  \E j \in DOMAIN toPc' : toPc'[j] = Frame("close", x)
    BY <1>0 DEF NoOrphanBinding, ToSet, Frame
  <2>1. \E j \in DOMAIN toPc : toPc[j] = Frame("close", x)
    BY DEF NoOrphanBinding, ToSet
  <2>. QED BY <1>1, <2>1
<1>7. PcEndFreesSlot'
  BY <1>0 DEF PcEndFreesSlot
<1>. QED BY <1>3, <1>4, <1>5, <1>6, <1>7

\* What the PC sent leaves the queue only to be acted on.
LEMMA RouteKeeps == CloseInv /\ SlotInv' /\ Route => CloseInv'
<1>. SUFFICES ASSUME CloseInv, SlotInv', Route PROVE CloseInv'
  OBVIOUS
<1>. USE DEF CloseInv
<1>1. /\ UNCHANGED <<hubTask, toPc, bound, pcTask, link, hub>>
      /\ conns' \subseteq conns /\ fromPc # <<>> /\ fromPc' = Tail(fromPc)
      /\ Head(fromPc).ty \in {"kick", "close"} => Head(fromPc).session \notin conns'
  BY DEF Route, pcVars
<1>2. fromPc' \in Seq(DownFrame)
  BY <1>1 DEF Queues
<1>3. \A f \in ToSet(fromPc) : f = Head(fromPc) \/ f \in ToSet(fromPc')
  <2>. SUFFICES ASSUME NEW i \in DOMAIN fromPc
                PROVE  fromPc[i] = Head(fromPc) \/ \E j \in DOMAIN fromPc' : fromPc'[j] = fromPc[i]
    BY DEF ToSet
  <2>1. CASE i = 1
    BY <2>1, <1>1 DEF Queues
  <2>2. CASE i # 1
    <3>1. i - 1 \in DOMAIN fromPc' /\ fromPc'[i - 1] = fromPc[i]
      BY <2>2, <1>1 DEF Queues
    <3>. QED BY <3>1
  <2>. QED BY <2>1, <2>2
<1>4. Queues' /\ SentFirst' /\ ClosesFollow' /\ ClosesAreLast' /\ UnboundByHub'
  BY <1>1, <1>2 DEF Queues, SentFirst, ClosesFollow, ClosesAreLast, UnboundByHub
<1>5. NoOrphanBinding'
  BY <1>1 DEF NoOrphanBinding
<1>6. PcEndFreesSlot'
  <2>. SUFFICES ASSUME NEW x \in conns', hub = "up", link = "up", pcTask[x] = "done"
                PROVE  {Frame("close", x), Frame("kick", x)} \cap ToSet(fromPc') # {}
    BY <1>1 DEF PcEndFreesSlot, Frame
  <2>1. PICK f \in {Frame("close", x), Frame("kick", x)} : f \in ToSet(fromPc)
    BY <1>1 DEF PcEndFreesSlot
  <2>2. f.ty \in {"kick", "close"} /\ f.session = x
    BY DEF Frame
  <2>3. f # Head(fromPc)
    BY <1>1, <2>2
  <2>. QED BY <1>3, <2>1, <2>3
<1>. QED BY <1>4, <1>5, <1>6, <1>1

\* What the Hub sent leaves the queue only to be acted on.
LEMMA InboundKeeps == CloseInv /\ SlotInv' /\ Inbound => CloseInv'
<1>. SUFFICES ASSUME CloseInv, SlotInv', Inbound PROVE CloseInv'
  OBVIOUS
<1>. USE DEF CloseInv
<1>. DEFINE s == Head(toPc).session
            ty == Head(toPc).ty
<1>0. /\ UNCHANGED <<conns, hubTask, hub, fromPc>>
      /\ link = "up" /\ toPc # <<>> /\ toPc' = Tail(toPc)
  BY DEF Inbound, hubVars
<1>1. /\ toPc \in Seq(Told) /\ toPc' \in Seq(Told)
      /\ 1 \in DOMAIN toPc /\ toPc[1] = Head(toPc) /\ Head(toPc) \in Told
      /\ \A i \in DOMAIN toPc' : i + 1 \in DOMAIN toPc /\ toPc'[i] = toPc[i + 1]
      /\ \A i \in DOMAIN toPc : i # 1 => i - 1 \in DOMAIN toPc' /\ toPc'[i - 1] = toPc[i]
      /\ \A i \in DOMAIN toPc : i \in Nat \ {0}
      /\ \A i \in DOMAIN toPc' : i \in Nat \ {0}
  BY <1>0 DEF Queues
<1>2. \/ ty \in {"open", "req"} /\ bound' = bound \cup {s} /\ link' = link
            /\ \E phase \in {"hello", "body"} : pcTask' = [pcTask EXCEPT ![s] = phase]
      \/ ty \in {"up", "reqFin"} /\ UNCHANGED <<bound, pcTask, link>>
      \/ ty = "close" /\ bound' = bound \ {s} /\ UNCHANGED <<pcTask, link>>
      \/ ty = "replaced" /\ link' = "down" /\ UNCHANGED <<bound, pcTask>>
  BY DEF Inbound, Open, RouteToPump, Unbind, pcVars
<1>3. ty \in {"open", "req"} => s \in Session /\ hubTask[s] \notin Unsent
  <2>. SUFFICES ASSUME ty \in {"open", "req"} PROVE s \in Session /\ hubTask[s] \notin Unsent
    OBVIOUS
  <2>1. toPc[1] = Head(toPc) /\ Opens(toPc[1], s)
    BY <1>1 DEF Opens
  <2>2. s \in Session
    BY <1>1 DEF Told, Frame
  <2>. QED BY <1>1, <2>1, <2>2 DEF SentFirst
<1>4. \A x \in Session : toPc[1] = Frame("close", x) => x = s /\ ty = "close"
  BY <1>1 DEF Frame
<1>5. ty = "close" /\ s \in Session => hubTask[s] = "done"
  <2>1. ty = "close" => toPc[1] = Frame("close", s)
    BY <1>1 DEF Frame, Told
  <2>. QED BY <1>1, <2>1 DEF ClosesAreLast
<1>. HIDE DEF s, ty
<1>6. Queues'
  BY <1>0, <1>1, <1>2, <1>3 DEF Queues, PcPhase
<1>7. SentFirst'
  BY <1>0, <1>1, <1>2, <1>3 DEF SentFirst, Queues
<1>8. ClosesFollow'
  <2>. SUFFICES ASSUME NEW x \in Session, hub = "up", hubTask[x] = "done",
                       NEW i \in DOMAIN toPc', Opens(toPc'[i], x)
                PROVE  \E j \in DOMAIN toPc' : j > i /\ toPc'[j] = Frame("close", x)
    BY <1>0 DEF ClosesFollow
  <2>1. PICK j \in DOMAIN toPc : j > i + 1 /\ toPc[j] = Frame("close", x)
    BY <1>1 DEF ClosesFollow
  <2>2. j - 1 \in DOMAIN toPc' /\ toPc'[j - 1] = Frame("close", x) /\ j - 1 > i
    BY <1>1, <2>1
  <2>. QED BY <2>2
<1>9. ClosesAreLast'
  BY <1>0, <1>1 DEF ClosesAreLast
<1>10. UnboundByHub'
  BY <1>0, <1>2, <1>5 DEF UnboundByHub, Queues
<1>11. NoOrphanBinding'
  <2>. SUFFICES ASSUME NEW x \in bound', hub = "up", link = "up", hubTask[x] = "done", link' = "up"
                PROVE  \E j \in DOMAIN toPc' : toPc'[j] = Frame("close", x)
    BY <1>0 DEF NoOrphanBinding, ToSet, Frame
  <2>0. x \in Session
    BY <1>6 DEF Queues
  <2>1. CASE ty \in {"open", "req"} /\ x = s
    <3>1. Opens(toPc[1], x)
      BY <1>1, <2>1 DEF Opens, s, ty
    <3>2. PICK j \in DOMAIN toPc : j > 1 /\ toPc[j] = Frame("close", x)
      BY <1>1, <2>0, <3>1 DEF ClosesFollow
    <3>. QED BY <1>1, <3>2
  <2>2. CASE ~(ty \in {"open", "req"} /\ x = s)
    <3>1. x \in bound /\ ~(ty = "close" /\ x = s)
      BY <1>2, <2>2
    <3>2. PICK j \in DOMAIN toPc : toPc[j] = Frame("close", x)
      BY <3>1 DEF NoOrphanBinding, ToSet
    <3>3. j # 1
      BY <1>4, <2>0, <3>1, <3>2
    <3>. QED BY <1>1, <3>2, <3>3
  <2>. QED BY <2>1, <2>2
<1>12. PcEndFreesSlot'
  BY <1>0, <1>2, <1>3 DEF PcEndFreesSlot, Frame, Queues, SlotInv
<1>. QED BY <1>6, <1>7, <1>8, <1>9, <1>10, <1>11, <1>12

\* A session whose task leaves sends one close, and nothing behind it.
LEMMA LeavingKeeps ==
    ASSUME CloseInv, SlotInv', UNCHANGED <<fromPc, bound, pcTask, link, hub>>,
           NEW s \in Session, hubTask[s] # "done", FreeSlot(s)
    PROVE  CloseInv'
<1>1. HubSends(<<Frame("close", s)>>) /\ <<Frame("close", s)>> \in Seq(Told)
  BY DEF FreeSlot, Told, Frame
<1>2. /\ conns' \subseteq conns /\ hubTask'[s] = "done"
      /\ \A x \in Session \ {s} : hubTask'[x] = hubTask[x]
  BY DEF FreeSlot, CloseInv, SlotInv
<1>3. \A k \in DOMAIN <<Frame("close", s)>> : <<Frame("close", s)>>[k].session = s
  BY DEF Frame
<1>. QED BY <1>1, <1>2, <1>3, HubSendsKeeps DEF Unsent

\* One step of a WebSocket's or a request's task on the Hub.
LEMMA HubTasksKeep ==
    ASSUME CloseInv, SlotInv',
           (\E s \in Ws : WsProgress(s) \/ WsUp(s)) \/ (\E s \in Http : HttpProgress(s))
    PROVE  CloseInv'
<1>0. hubTask \in [Session -> HubPhase] /\ Ws \subseteq Session /\ Http \subseteq Session
  BY DEF CloseInv, SlotInv, Session
<1>. USE DEF hubVars, pcVars, edgeVars
<1>1. ASSUME NEW s \in Ws, Upgrade(s) \/ WsReserve(s) \/ WsRefused(s) \/ WsOpenFails(s)
      PROVE  CloseInv'
  <2>1. UNCHANGED <<toPc, fromPc, bound, pcTask, hub, link>>
    BY <1>1 DEF Upgrade, WsReserve, WsRefused, WsOpenFails
  <2>2. /\ hubTask[s] \in Unsent
        /\ \E p \in Unsent \cup {"done"} : hubTask' = [hubTask EXCEPT ![s] = p]
    BY <1>1 DEF Upgrade, WsReserve, WsRefused, WsOpenFails, Unsent
  <2>3. conns' \subseteq conns \cup {s}
    BY <1>1 DEF Upgrade, WsReserve, Reserve, WsRefused, WsOpenFails
  <2>. QED BY <1>0, <2>1, <2>2, <2>3, HubMovesKeeps
<1>2. ASSUME NEW s \in Ws, WsOpen(s) PROVE CloseInv'
  <2>1. HubSends(<<Frame("open", s)>>) /\ <<Frame("open", s)>> \in Seq(Told)
    BY <1>0, <1>2 DEF WsOpen, Told, Frame
  <2>2. /\ hubTask[s] = "reserved" /\ hubTask' = [hubTask EXCEPT ![s] = "reading"]
        /\ UNCHANGED <<conns, fromPc, bound, pcTask, link, hub>>
    BY <1>2 DEF WsOpen
  <2>3. \A k \in DOMAIN <<Frame("open", s)>> :
          LET f == <<Frame("open", s)>>[k] IN f.session = s /\ f # Frame("close", s)
    BY DEF Frame
  <2>. QED BY <1>0, <2>1, <2>2, <2>3, HubSendsKeeps DEF Unsent
<1>3. ASSUME NEW s \in Ws, WsUp(s) PROVE CloseInv'
  <2>1. HubSends(<<Frame("up", s)>>) /\ <<Frame("up", s)>> \in Seq(Told)
    BY <1>0, <1>3 DEF WsUp, Told, Frame
  <2>2. hubTask[s] = "reading" /\ UNCHANGED <<conns, hubTask, fromPc, bound, pcTask, link, hub>>
    BY <1>3 DEF WsUp
  <2>3. \A k \in DOMAIN <<Frame("up", s)>> :
          LET f == <<Frame("up", s)>>[k] IN f.session = s /\ f # Frame("close", s)
    BY DEF Frame
  <2>. QED BY <1>0, <2>1, <2>2, <2>3, HubSendsKeeps DEF Unsent
<1>4. ASSUME NEW s \in Ws, WsUpRefused(s) \/ WsLeft(s) \/ WsIdle(s) PROVE CloseInv'
  <2>1. /\ hubTask[s] # "done" /\ FreeSlot(s)
        /\ UNCHANGED <<fromPc, bound, pcTask, link, hub>>
    BY <1>4 DEF WsUpRefused, WsLeft, WsIdle, LeaveReader
  <2>. QED BY <1>0, <2>1, LeavingKeeps
<1>5. ASSUME NEW s \in Http, HttpReserve(s) \/ HttpHead(s) PROVE CloseInv'
  <2>1. UNCHANGED <<toPc, fromPc, bound, pcTask, hub, link>>
    BY <1>5 DEF HttpReserve, HttpHead
  <2>2. \/ hubTask[s] = "idle" /\ hubTask' = [hubTask EXCEPT ![s] = "reserved"]
        \/ hubTask[s] = "awaiting" /\ hubTask' = [hubTask EXCEPT ![s] = "streaming"]
    BY <1>5 DEF HttpReserve, HttpHead
  <2>3. conns' = conns \/ (conns' = conns \cup {s} /\ hubTask[s] = "idle")
    BY <1>5 DEF HttpReserve, Reserve, HttpHead
  <2>. QED BY <1>0, <2>1, <2>2, <2>3, HubMovesKeeps DEF Unsent
<1>6. ASSUME NEW s \in Http, HttpSend(s) PROVE CloseInv'
  <2>. DEFINE frames == <<Frame("req", s), Frame("reqFin", s)>>
  <2>1. HubSends(frames) /\ frames \in Seq(Told)
    BY <1>0, <1>6 DEF HttpSend, Told, Frame
  <2>2. /\ hubTask[s] = "reserved" /\ hubTask' = [hubTask EXCEPT ![s] = "awaiting"]
        /\ UNCHANGED <<conns, fromPc, bound, pcTask, link, hub>>
    BY <1>6 DEF HttpSend
  <2>3. \A k \in DOMAIN frames : frames[k].session = s /\ frames[k] # Frame("close", s)
    BY DEF Frame
  <2>. HIDE DEF frames
  <2>. QED BY <1>0, <2>1, <2>2, <2>3, HubSendsKeeps DEF Unsent
<1>7. ASSUME NEW s \in Http, HttpGivesUp(s) \/ HttpEnd(s) PROVE CloseInv'
  <2>1. /\ hubTask[s] # "done" /\ FreeSlot(s)
        /\ UNCHANGED <<fromPc, bound, pcTask, link, hub>>
    BY <1>7 DEF HttpGivesUp, HttpEnd, HttpLeave
  <2>. QED BY <1>0, <2>1, LeavingKeeps
<1>. QED BY <1>1, <1>2, <1>3, <1>4, <1>5, <1>6, <1>7 DEF WsProgress, HttpProgress

\* What the PC queues comes after what it queued before.
LEMMA PcSendsBehind ==
    ASSUME Queues, NEW frames \in Seq(DownFrame), PcSends(frames)
    PROVE  /\ fromPc' \in Seq(DownFrame) /\ ToSet(fromPc) \subseteq ToSet(fromPc')
           /\ link = "up" => \A k \in DOMAIN frames : frames[k] \in ToSet(fromPc')
<1>1. CASE link = "down"
  BY <1>1 DEF PcSends, Queues
<1>2. CASE link # "down"
  <2>1. fromPc' = fromPc \o frames /\ fromPc \in Seq(DownFrame)
    BY <1>2 DEF PcSends, Queues
  <2>2. /\ fromPc' \in Seq(DownFrame) /\ Len(fromPc') = Len(fromPc) + Len(frames)
        /\ \A i \in 1..Len(fromPc) : i \in DOMAIN fromPc' /\ fromPc'[i] = fromPc[i]
        /\ \A k \in 1..Len(frames) :
             Len(fromPc) + k \in DOMAIN fromPc' /\ fromPc'[Len(fromPc) + k] = frames[k]
    BY <2>1
  <2>3. \A i \in DOMAIN fromPc' : fromPc'[i] \in ToSet(fromPc')
    BY DEF ToSet
  <2>4. ToSet(fromPc) \subseteq ToSet(fromPc')
    <3>. SUFFICES ASSUME NEW i \in DOMAIN fromPc PROVE fromPc[i] \in ToSet(fromPc')
      BY DEF ToSet
    <3>1. i \in 1..Len(fromPc)
      BY <2>1
    <3>. QED BY <2>2, <2>3, <3>1
  <2>5. \A k \in DOMAIN frames : frames[k] \in ToSet(fromPc')
    <3>1. DOMAIN frames = 1..Len(frames)
      OBVIOUS
    <3>. QED BY <2>2, <2>3, <3>1
  <2>. QED BY <2>2, <2>4, <2>5
<1>. QED BY <1>1, <1>2

\* A task of the PC that closes its session says so.
LEMMA ClosingKeeps ==
    ASSUME CloseInv, NEW s \in Session, pcTask[s] \notin {"none", "done"},
           NEW frames \in Seq(DownFrame), CloseSession(s, frames),
           \E k \in DOMAIN frames : frames[k] \in {Frame("close", s), Frame("kick", s)}
    PROVE  CloseInv'
<1>1. /\ UNCHANGED <<conns, hubTask, toPc, hub, link>> /\ PcSends(frames)
      /\ bound' = bound \ {s} /\ pcTask' = [pcTask EXCEPT ![s] = "done"]
  BY DEF CloseSession, Unbind, hubVars
<1>2. Queues /\ pcTask \in [Session -> PcPhase]
  BY DEF CloseInv, Queues
<1>3. pcTask' \in [Session -> PcPhase] /\ pcTask'[s] = "done"
  BY <1>1, <1>2 DEF PcPhase
<1>4. /\ fromPc' \in Seq(DownFrame) /\ ToSet(fromPc) \subseteq ToSet(fromPc')
      /\ link = "up" => {Frame("close", s), Frame("kick", s)} \cap ToSet(fromPc') # {}
  BY <1>1, <1>2, PcSendsBehind
<1>. QED BY <1>1, <1>2, <1>3, <1>4, PcMovesKeeps

\* A task of the PC that goes on binds and unbinds nothing.
LEMMA PcGoesOnKeeps ==
    ASSUME CloseInv, NEW s \in Session, pcTask[s] \notin {"none", "done"},
           UNCHANGED <<conns, hubTask, toPc, hub, link, bound>>,
           NEW phase \in PcPhase \ {"none", "done"}, pcTask' = [pcTask EXCEPT ![s] = phase],
           NEW frames \in Seq(DownFrame), PcSends(frames)
    PROVE  CloseInv'
<1>1. Queues /\ pcTask \in [Session -> PcPhase]
  BY DEF CloseInv, Queues
<1>2. fromPc' \in Seq(DownFrame) /\ ToSet(fromPc) \subseteq ToSet(fromPc')
  BY <1>1, PcSendsBehind
<1>3. pcTask' \in [Session -> PcPhase] /\ pcTask'[s] \notin {"none", "done"}
  BY <1>1
<1>. QED BY <1>1, <1>2, <1>3, PcMovesKeeps

\* One step of a task on the PC.
LEMMA PcTasksKeep ==
    ASSUME CloseInv, SlotInv',
           \/ \E s \in Ws : \/ Hello(s) \/ HelloRefused(s) \/ WsFrame(s) \/ WsParted(s)
                             \/ Kick(s) \/ BadFrame(s) \/ PcIdle(s)
           \/ \E s \in Http : HttpAnswer(s) \/ BodyIncomplete(s) \/ HttpPiece(s) \/ HttpDone(s)
    PROVE  CloseInv'
<1>0. /\ Ws \subseteq Session /\ Http \subseteq Session /\ Queues
      /\ pcTask \in [Session -> PcPhase]
  BY DEF CloseInv, Queues, Session
<1>. USE DEF hubVars, pcVars, edgeVars
<1>2. ASSUME NEW s \in Ws, Hello(s) PROVE CloseInv'
  <2>1. /\ pcTask[s] = "hello" /\ pcTask' = [pcTask EXCEPT ![s] = "serving"]
        /\ UNCHANGED <<conns, hubTask, toPc, hub, link, bound>>
        /\ PcSends(<<Frame("down", s)>>)
    BY <1>2 DEF Hello
  <2>2. <<Frame("down", s)>> \in Seq(DownFrame)
    BY <1>0 DEF DownFrame, Frame, Mail
  <2>. QED BY <1>0, <2>1, <2>2, PcGoesOnKeeps DEF PcPhase
<1>3. ASSUME NEW s \in Ws, WsFrame(s) PROVE CloseInv'
  <2>1. UNCHANGED <<conns, hubTask, toPc, fromPc, hub, link, bound, pcTask>>
    BY <1>3 DEF WsFrame
  <2>. QED BY <2>1, HubMovesKeeps
<1>4. ASSUME NEW s \in Ws, WsParted(s) PROVE CloseInv'
  <2>1. /\ pcTask[s] = "serving" /\ pcTask' = [pcTask EXCEPT ![s] = "done"]
        /\ UNCHANGED <<conns, hubTask, toPc, fromPc, hub, link, bound>>
        /\ s \notin bound \/ link = "down"
    BY <1>4 DEF WsParted
  <2>2. pcTask' \in [Session -> PcPhase] /\ pcTask'[s] = "done"
    BY <1>0, <2>1 DEF PcPhase
  <2>3. link = "down" \/ s \notin conns
    BY <1>0, <2>1 DEF CloseInv, UnboundByHub, SlotInv, NoGhostSlot
  <2>4. fromPc' \in Seq(DownFrame)
    BY <1>0, <2>1 DEF Queues
  <2>. QED BY <1>0, <2>1, <2>2, <2>3, <2>4, PcMovesKeeps
<1>5. \A s \in Session, m \in Mail : Frame(m, s) \in DownFrame
  BY DEF DownFrame, Frame
<1>6. ASSUME NEW s \in Ws, HelloRefused(s) PROVE CloseInv'
  <2>. DEFINE frames == <<Frame("kick", s)>>
  <2>1. pcTask[s] \notin {"none", "done"} /\ CloseSession(s, frames)
    BY <1>6 DEF HelloRefused
  <2>2. frames \in Seq(DownFrame) /\ 1 \in DOMAIN frames /\ frames[1] = Frame("kick", s)
    BY <1>0, <1>5 DEF Mail
  <2>. HIDE DEF frames
  <2>. QED BY <1>0, <2>1, <2>2, ClosingKeeps
<1>7. ASSUME NEW s \in Ws, Kick(s) PROVE CloseInv'
  <2>. DEFINE frames == <<Frame("down", s), Frame("kick", s), Frame("close", s)>>
  <2>1. pcTask[s] \notin {"none", "done"} /\ CloseSession(s, frames)
    BY <1>7 DEF Kick
  <2>2. frames \in Seq(DownFrame) /\ 2 \in DOMAIN frames /\ frames[2] = Frame("kick", s)
    BY <1>0, <1>5 DEF Mail
  <2>. HIDE DEF frames
  <2>. QED BY <1>0, <2>1, <2>2, ClosingKeeps
<1>8. ASSUME NEW s \in Ws, BadFrame(s) \/ PcIdle(s) PROVE CloseInv'
  <2>. DEFINE frames == <<Frame("close", s)>>
  <2>1. pcTask[s] \notin {"none", "done"} /\ CloseSession(s, frames)
    BY <1>8 DEF BadFrame, PcIdle
  <2>2. frames \in Seq(DownFrame) /\ 1 \in DOMAIN frames /\ frames[1] = Frame("close", s)
    BY <1>0, <1>5 DEF Mail
  <2>. HIDE DEF frames
  <2>. QED BY <1>0, <2>1, <2>2, ClosingKeeps
<1>9. ASSUME NEW s \in Http, BodyIncomplete(s) PROVE CloseInv'
  <2>. DEFINE frames == <<Frame("head", s), Frame("close", s)>>
  <2>1. pcTask[s] \notin {"none", "done"} /\ CloseSession(s, frames)
    BY <1>9 DEF BodyIncomplete
  <2>2. frames \in Seq(DownFrame) /\ 2 \in DOMAIN frames /\ frames[2] = Frame("close", s)
    BY <1>0, <1>5 DEF Mail
  <2>. HIDE DEF frames
  <2>. QED BY <1>0, <2>1, <2>2, ClosingKeeps
<1>10. ASSUME NEW s \in Http, HttpDone(s) PROVE CloseInv'
  <2>. DEFINE frames == <<Frame("fin", s), Frame("close", s)>>
  <2>1. pcTask[s] \notin {"none", "done"} /\ CloseSession(s, frames)
    BY <1>10 DEF HttpDone
  <2>2. frames \in Seq(DownFrame) /\ 2 \in DOMAIN frames /\ frames[2] = Frame("close", s)
    BY <1>0, <1>5 DEF Mail
  <2>. HIDE DEF frames
  <2>. QED BY <1>0, <2>1, <2>2, ClosingKeeps
<1>11. ASSUME NEW s \in Http, HttpAnswer(s) PROVE CloseInv'
  <2>1. /\ pcTask[s] = "body" /\ pcTask' = [pcTask EXCEPT ![s] = "answering"]
        /\ UNCHANGED <<conns, hubTask, toPc, hub, link, bound>>
        /\ PcSends(<<Frame("head", s)>>)
    BY <1>11 DEF HttpAnswer
  <2>2. <<Frame("head", s)>> \in Seq(DownFrame)
    BY <1>0, <1>5 DEF Mail
  <2>. QED BY <1>0, <2>1, <2>2, PcGoesOnKeeps DEF PcPhase
<1>12. ASSUME NEW s \in Http, HttpPiece(s) PROVE CloseInv'
  <2>1. /\ pcTask[s] = "answering" /\ pcTask' = [pcTask EXCEPT ![s] = "answering"]
        /\ UNCHANGED <<conns, hubTask, toPc, hub, link, bound>>
        /\ PcSends(<<Frame("chunk", s)>>)
    BY <1>0, <1>12 DEF HttpPiece
  <2>2. <<Frame("chunk", s)>> \in Seq(DownFrame)
    BY <1>0, <1>5 DEF Mail
  <2>. QED BY <1>0, <2>1, <2>2, PcGoesOnKeeps DEF PcPhase
<1>. QED BY <1>2, <1>3, <1>4, <1>6, <1>7, <1>8, <1>9, <1>10, <1>11, <1>12

LEMMA CloseStep == CloseInv /\ [Next]_vars => CloseInv'
<1>. SUFFICES ASSUME CloseInv, [Next]_vars PROVE CloseInv'
  OBVIOUS
<1>0. SlotInv'
  BY SlotStep DEF CloseInv
<1>. USE DEF hubVars, pcVars, edgeVars
<1>1. ASSUME NEW s \in Ws, WsStep(s) PROVE CloseInv'
  <2>1. CASE WsWrite(s) \/ WsWriteClose(s) \/ WsWriteFails(s)
    <3>1. UNCHANGED <<conns, hubTask, toPc, fromPc, hub, link, bound, pcTask>>
      BY <2>1 DEF WsWrite, WsWriteClose, WsWriteFails
    <3>. QED BY <1>0, <3>1, HubMovesKeeps
  <2>2. \/ WsWrite(s) \/ WsWriteClose(s) \/ WsWriteFails(s)
        \/ WsProgress(s) \/ WsUp(s)
        \/ Hello(s) \/ HelloRefused(s) \/ WsFrame(s) \/ WsParted(s) \/ Kick(s)
        \/ BadFrame(s) \/ PcIdle(s)
    BY <1>1 DEF WsStep, WsProgress
  <2>. QED BY <1>0, <2>1, <2>2, HubTasksKeep, PcTasksKeep
<1>2. ASSUME NEW s \in Http, HttpStep(s) PROVE CloseInv'
  <2>1. CASE HttpChunk(s)
    <3>1. UNCHANGED <<conns, hubTask, toPc, fromPc, hub, link, bound, pcTask>>
      BY <2>1 DEF HttpChunk
    <3>. QED BY <1>0, <3>1, HubMovesKeeps
  <2>2. \/ HttpChunk(s) \/ HttpProgress(s)
        \/ HttpAnswer(s) \/ BodyIncomplete(s) \/ HttpPiece(s) \/ HttpDone(s)
    BY <1>2 DEF HttpStep, HttpProgress
  <2>. QED BY <1>0, <2>1, <2>2, HubTasksKeep, PcTasksKeep
<1>3. CASE UNCHANGED vars \/ LinkEnds \/ HubGone \/ HubDrains
           \/ \E s \in Session : BrowserLeaves(s)
  <2>1. /\ UNCHANGED <<toPc, fromPc, bound, pcTask, hubTask>> /\ conns' \subseteq conns
        /\ hub' = "up" => hub = "up"
        /\ link' = "up" => link = "up"
    BY <1>3 DEF vars, LinkEnds, HubGone, HubDrains, CloseAll, BrowserLeaves
  <2>. QED BY <1>0, <2>1, HubMovesKeeps
<1>. QED BY <1>0, <1>1, <1>2, <1>3, RouteKeeps, DisplacedKeeps, InboundKeeps DEF Next

LEMMA ClosesCorrect == Spec => []CloseInv
<1>1. Init => CloseInv
  BY DEF Init, CloseInv, SlotInv, NoGhostSlot, HubPhase, Queues, PcPhase, SentFirst,
       ClosesFollow, ClosesAreLast, UnboundByHub, NoOrphanBinding, PcEndFreesSlot, Unsent
<1>. QED BY <1>1, CloseStep, PTL DEF Spec

\* While both ends serve, a session that ended on the Hub and is still bound on
\* the PC has its close on the way, whatever overtook it.
THEOREM NoOrphans == Spec => []NoOrphanBinding
<1>1. CloseInv => NoOrphanBinding
  BY DEF CloseInv
<1>. QED BY <1>1, ClosesCorrect, PTL

\* While both ends serve, a session whose task ended on the PC and that holds a
\* slot on the Hub has the word that frees it on the way.
THEOREM PcEndsHeard == Spec => []PcEndFreesSlot
<1>1. CloseInv => PcEndFreesSlot
  BY DEF CloseInv
<1>. QED BY <1>1, ClosesCorrect, PTL

-----------------------------------------------------------------------------
(* Counting what a queue holds *)

\* The places of a queue that hold x.
Held(q, x) == {i \in DOMAIN q : q[i] = x}

\* A queue holds something finitely often, an empty one never.
LEMMA HeldFinite ==
    ASSUME NEW S, NEW q \in Seq(S), NEW x
    PROVE  /\ IsFiniteSet(Held(q, x)) /\ Cardinality(Held(q, x)) \in Nat
           /\ q = <<>> => Cardinality(Held(q, x)) = 0
<1>1. DOMAIN q = 1..Len(q) /\ Len(q) \in Nat /\ Held(q, x) \in SUBSET (1..Len(q))
  BY DEF Held
<1>2. IsFiniteSet(1..Len(q))
  BY <1>1, FS_Interval
<1>3. IsFiniteSet(Held(q, x))
  BY <1>1, <1>2, FS_Subset
<1>4. q = <<>> => Held(q, x) = {}
  BY DEF Held
<1>. QED BY <1>3, <1>4, FS_CardinalityType, FS_EmptySet

\* What is queued is held once more.
LEMMA HeldAppend ==
    ASSUME NEW S, NEW q \in Seq(S), NEW e \in S, NEW x
    PROVE  Cardinality(Held(Append(q, e), x))
             = Cardinality(Held(q, x)) + (IF e = x THEN 1 ELSE 0)
<1>1. /\ DOMAIN q = 1..Len(q) /\ Len(q) \in Nat
      /\ DOMAIN Append(q, e) = 1..Len(q) + 1
      /\ \A i \in 1..Len(q) : Append(q, e)[i] = q[i]
      /\ Append(q, e)[Len(q) + 1] = e
  OBVIOUS
<1>2. Len(q) + 1 \notin Held(q, x)
  BY <1>1 DEF Held
<1>5. IsFiniteSet(Held(q, x)) /\ Cardinality(Held(q, x)) \in Nat
  BY HeldFinite
<1>3. CASE e = x
  <2>1. Held(Append(q, e), x) = Held(q, x) \cup {Len(q) + 1}
    BY <1>1, <1>3 DEF Held
  <2>. QED BY <1>2, <1>3, <1>5, <2>1, FS_AddElement
<1>4. CASE e # x
  <2>1. Held(Append(q, e), x) = Held(q, x)
    BY <1>1, <1>4 DEF Held
  <2>. QED BY <1>4, <1>5, <2>1
<1>. QED BY <1>3, <1>4

\* What leaves the queue is held once less.
LEMMA HeldTail ==
    ASSUME NEW S, NEW q \in Seq(S), q # <<>>, NEW x
    PROVE  Cardinality(Held(q, x))
             = Cardinality(Held(Tail(q), x)) + (IF Head(q) = x THEN 1 ELSE 0)
<1>1. /\ DOMAIN q = 1..Len(q) /\ Len(q) \in Nat /\ Len(q) >= 1
      /\ Tail(q) \in Seq(S)
      /\ DOMAIN Tail(q) = 1..Len(q) - 1
      /\ \A i \in 1..Len(q) - 1 : Tail(q)[i] = q[i + 1]
      /\ Head(q) = q[1]
  OBVIOUS
<1>. DEFINE later == Held(q, x) \ {1}
            Shift == [i \in Held(Tail(q), x) |-> i + 1]
<1>2. \A i \in Held(Tail(q), x) : i \in Nat /\ i >= 1 /\ i + 1 \in later
  BY <1>1 DEF Held
<1>3. \A j \in later : j \in Nat /\ j - 1 \in Held(Tail(q), x)
  BY <1>1 DEF Held
<1>4. ExistsBijection(Held(Tail(q), x), later)
  <2>1. Shift \in [Held(Tail(q), x) -> later]
    BY <1>2
  <2>2. \A i, j \in Held(Tail(q), x) : Shift[i] = Shift[j] => i = j
    BY <1>2
  <2>3. \A j \in later : \E i \in Held(Tail(q), x) : Shift[i] = j
    <3>. TAKE j \in later
    <3>1. j - 1 \in Held(Tail(q), x) /\ Shift[j - 1] = j
      BY <1>3
    <3>. QED BY <3>1
  <2>4. Shift \in Bijection(Held(Tail(q), x), later)
    BY <2>1, <2>2, <2>3 DEF Bijection, Injection, Surjection, IsInjective
  <2>. QED BY <2>4 DEF ExistsBijection
<1>. HIDE DEF Shift
<1>5. IsFiniteSet(Held(Tail(q), x)) /\ Cardinality(Held(Tail(q), x)) \in Nat
  BY <1>1, HeldFinite
<1>6. IsFiniteSet(later) /\ Cardinality(later) = Cardinality(Held(Tail(q), x))
  BY <1>4, <1>5, FS_Bijection
<1>7. CASE Head(q) = x
  <2>1. Held(q, x) = later \cup {1} /\ 1 \notin later
    BY <1>1, <1>7 DEF Held
  <2>. HIDE DEF later
  <2>2. Cardinality(Held(q, x)) = Cardinality(later) + 1
    BY <1>6, <2>1, FS_AddElement
  <2>. QED BY <1>5, <1>6, <1>7, <2>2
<1>8. CASE Head(q) # x
  <2>1. Held(q, x) = later
    BY <1>1, <1>8 DEF Held
  <2>. HIDE DEF later
  <2>. QED BY <1>5, <1>6, <1>8, <2>1
<1>. QED BY <1>7, <1>8

\* Other things behind a queue change nothing.
LEMMA HeldBeside ==
    ASSUME NEW S, NEW q \in Seq(S), NEW r \in Seq(S), NEW x, \A k \in DOMAIN r : r[k] # x
    PROVE  Held(q \o r, x) = Held(q, x)
<1>1. /\ DOMAIN q = 1..Len(q) /\ DOMAIN r = 1..Len(r) /\ Len(q) \in Nat /\ Len(r) \in Nat
      /\ DOMAIN (q \o r) = 1..Len(q) + Len(r)
      /\ \A i \in 1..Len(q) + Len(r) : (q \o r)[i] = IF i <= Len(q) THEN q[i] ELSE r[i - Len(q)]
  OBVIOUS
<1>2. \A i \in 1..Len(q) + Len(r) : i <= Len(q) \/ i - Len(q) \in DOMAIN r
  BY <1>1
<1>. QED BY <1>1, <1>2 DEF Held

-----------------------------------------------------------------------------
(* The chunks of an answer, from the PC to the body of the response *)

\* Chunks of the answer to s: in its task's mail, and on the tunnel.
InMail(s)   == Cardinality(Held(mail[s], "chunk"))
OnTunnel(s) == Cardinality(Held(fromPc, Frame("chunk", s)))

\* What the browser got and what is still on its way was sent by the PC.
ChunksConserved == \A s \in Http : got[s] + InMail(s) + OnTunnel(s) <= sent[s]

ChunkTypes ==
    /\ mail \in [Session -> Seq(Mail)]
    /\ fromPc \in Seq(DownFrame)
    /\ got \in [Http -> Nat]
    /\ sent \in [Http -> 0..Length]

ChunkInv == ChunkTypes /\ ChunksConserved

\* What a step does to the chunks: nothing; a session's mail is dropped, or its
\* first message, no chunk, is taken; a chunk is taken into the body; a frame is
\* routed; close_all; the PC sends no chunk; it sends one.
Still     == UNCHANGED <<mail, fromPc, got, sent>>
Dropped(s) == mail' = [mail EXCEPT ![s] = <<>>] /\ UNCHANGED <<fromPc, got, sent>>
Taken(s) ==
    /\ mail[s] # <<>> /\ Head(mail[s]) # "chunk"
    /\ mail' = [mail EXCEPT ![s] = Tail(@)] /\ UNCHANGED <<fromPc, got, sent>>
Buffered(s) ==
    /\ mail[s] # <<>> /\ Head(mail[s]) = "chunk"
    /\ mail' = [mail EXCEPT ![s] = Tail(@)] /\ got' = [got EXCEPT ![s] = @ + 1]
    /\ UNCHANGED <<fromPc, sent>>
Routed == Route /\ UNCHANGED <<got, sent>>
AllTold == CloseAll /\ UNCHANGED <<fromPc, got, sent>>
Answers(s, frames) ==
    /\ frames \in Seq(DownFrame) /\ \A k \in DOMAIN frames : frames[k].ty # "chunk"
    /\ PcSends(frames) /\ UNCHANGED <<mail, got, sent>>
Pieced(s) ==
    /\ link = "up" /\ sent[s] < Length /\ sent' = [sent EXCEPT ![s] = @ + 1]
    /\ PcSends(<<Frame("chunk", s)>>) /\ UNCHANGED <<mail, got>>

LEMMA AnswersOne ==
    ASSUME NEW s \in Session, NEW m \in Mail \ {"chunk"}, PcSends(<<Frame(m, s)>>),
           UNCHANGED <<mail, got, sent>>
    PROVE  Answers(s, <<Frame(m, s)>>)
BY DEF Answers, Frame, DownFrame

LEMMA ChunkSteps ==
    ASSUME [Next]_vars
    PROVE  \/ Still
           \/ \E s \in Session : Dropped(s) \/ Taken(s)
           \/ \E s \in Http : Buffered(s) \/ Pieced(s)
           \/ \E s \in Session, frames \in Seq(DownFrame) : Answers(s, frames)
           \/ Routed \/ AllTold
<1>. USE DEF hubVars, pcVars, edgeVars
<1>0. Ws \subseteq Session /\ Http \subseteq Session
  BY DEF Session
<1>1. ASSUME NEW s \in Session, NEW m1 \in Mail \ {"chunk"}, NEW m2 \in Mail \ {"chunk"}
      PROVE  /\ <<Frame(m1, s), Frame(m2, s)>> \in Seq(DownFrame)
             /\ \A k \in DOMAIN <<Frame(m1, s), Frame(m2, s)>> :
                   <<Frame(m1, s), Frame(m2, s)>>[k].ty # "chunk"
  BY DEF Frame, DownFrame
<1>2. ASSUME NEW s \in Ws, WsStep(s)
      PROVE  Still \/ Dropped(s) \/ Taken(s) \/ \E f \in Seq(DownFrame) : Answers(s, f)
  <2>1. CASE \/ Upgrade(s) \/ WsReserve(s) \/ WsRefused(s) \/ WsOpen(s) \/ WsOpenFails(s)
             \/ WsUp(s) \/ WsFrame(s) \/ WsParted(s)
    BY <2>1 DEF Still, Upgrade, WsReserve, WsRefused, WsOpen, WsOpenFails, WsUp, WsFrame, WsParted
  <2>2. CASE WsUpRefused(s) \/ WsLeft(s) \/ WsIdle(s) \/ WsWriteClose(s) \/ WsWriteFails(s)
    BY <2>2 DEF Dropped, WsUpRefused, WsLeft, WsIdle, LeaveReader, FreeSlot, WsWriteClose,
         WsWriteFails
  <2>3. CASE WsWrite(s)
    BY <2>3 DEF Taken, WsWrite
  <2>4. CASE Hello(s) \/ HelloRefused(s) \/ BadFrame(s) \/ PcIdle(s)
    <3>1. /\ \E m \in Mail \ {"chunk"} : PcSends(<<Frame(m, s)>>)
          /\ UNCHANGED <<mail, got, sent>>
      BY <2>4 DEF Hello, HelloRefused, BadFrame, PcIdle, CloseSession, Mail
    <3>. QED BY <1>0, <3>1, AnswersOne DEF Answers
  <2>5. CASE Kick(s)
    <3>. DEFINE frames == <<Frame("down", s), Frame("kick", s), Frame("close", s)>>
    <3>1. PcSends(frames) /\ UNCHANGED <<mail, got, sent>>
      BY <2>5 DEF Kick, CloseSession
    <3>2. frames \in Seq(DownFrame)
      BY <1>0 DEF Frame, DownFrame, Mail
    <3>3. \A k \in DOMAIN frames : frames[k].ty # "chunk"
      BY DEF Frame
    <3>. HIDE DEF frames
    <3>. QED BY <3>1, <3>2, <3>3 DEF Answers
  <2>. QED BY <1>2, <2>1, <2>2, <2>3, <2>4, <2>5 DEF WsStep
<1>3. ASSUME NEW s \in Http, HttpStep(s)
      PROVE  \/ Still \/ Dropped(s) \/ Taken(s) \/ Buffered(s) \/ Pieced(s)
             \/ \E f \in Seq(DownFrame) : Answers(s, f)
  <2>1. CASE HttpReserve(s) \/ HttpSend(s)
    BY <2>1 DEF Still, HttpReserve, HttpSend
  <2>2. CASE HttpGivesUp(s) \/ HttpEnd(s)
    BY <2>2 DEF Dropped, HttpGivesUp, HttpEnd, HttpLeave, FreeSlot
  <2>3. CASE HttpHead(s)
    BY <2>3 DEF Taken, HttpHead
  <2>4. CASE HttpChunk(s)
    BY <2>4 DEF Buffered, HttpChunk
  <2>5. CASE HttpPiece(s)
    BY <2>5 DEF Pieced, HttpPiece
  <2>6. CASE HttpAnswer(s)
    <3>1. PcSends(<<Frame("head", s)>>) /\ UNCHANGED <<mail, got, sent>>
      BY <2>6 DEF HttpAnswer
    <3>. QED BY <1>0, <3>1, AnswersOne DEF Answers, Mail
  <2>7. CASE BodyIncomplete(s) \/ HttpDone(s)
    <3>1. PICK m \in {"head", "fin"} :
             PcSends(<<Frame(m, s), Frame("close", s)>>) /\ UNCHANGED <<mail, got, sent>>
      BY <2>7 DEF BodyIncomplete, HttpDone, CloseSession
    <3>2. m \in Mail \ {"chunk"} /\ "close" \in Mail \ {"chunk"} /\ s \in Session
      BY <1>0 DEF Mail
    <3>. DEFINE frames == <<Frame(m, s), Frame("close", s)>>
    <3>3. frames \in Seq(DownFrame) /\ \A k \in DOMAIN frames : frames[k].ty # "chunk"
      BY <1>1, <3>2
    <3>4. PcSends(frames)
      BY <3>1
    <3>. HIDE DEF frames
    <3>. QED BY <3>1, <3>3, <3>4 DEF Answers
  <2>. QED BY <1>3, <2>1, <2>2, <2>3, <2>4, <2>5, <2>6, <2>7 DEF HttpStep
<1>4. CASE UNCHANGED vars \/ LinkEnds \/ HubGone \/ Inbound \/ \E s \in Session : BrowserLeaves(s)
  BY <1>4 DEF Still, vars, LinkEnds, HubGone, Inbound, BrowserLeaves, Open, RouteToPump
<1>5. CASE Route
  BY <1>5 DEF Routed, Route
<1>6. CASE Displaced \/ HubDrains
  BY <1>6 DEF AllTold, Displaced, HubDrains
<1>. QED BY <1>0, <1>2, <1>3, <1>4, <1>5, <1>6 DEF Next

LEMMA ChunkStep == ChunkInv /\ [Next]_vars => ChunkInv'
<1>. SUFFICES ASSUME ChunkInv, [Next]_vars PROVE ChunkInv'
  OBVIOUS
<1>0. /\ Http \subseteq Session /\ Length \in Nat
      /\ ChunkTypes
      /\ \A s \in Http : got[s] \in Nat /\ sent[s] \in Nat
      /\ \A s \in Http : InMail(s) \in Nat /\ OnTunnel(s) \in Nat
      /\ \A s \in Http : got[s] + InMail(s) + OnTunnel(s) <= sent[s]
  <2>1. Http \subseteq Session /\ Length \in Nat /\ ChunkTypes
    BY LimitAssumption DEF ChunkInv, Session
  <2>2. \A s \in Http : got[s] \in Nat /\ sent[s] \in Nat
    BY <2>1 DEF ChunkTypes
  <2>3. \A s \in Http : InMail(s) \in Nat /\ OnTunnel(s) \in Nat
    BY <2>1, HeldFinite DEF ChunkTypes, InMail, OnTunnel
  <2>. QED BY <2>1, <2>2, <2>3 DEF ChunkInv, ChunksConserved
<1>1. CASE Still
  BY <1>0, <1>1 DEF Still, ChunkInv, ChunkTypes, ChunksConserved, InMail, OnTunnel
<1>2. ASSUME NEW x \in Session, Dropped(x) \/ Taken(x) PROVE ChunkInv'
  <2>1. UNCHANGED <<fromPc, got, sent>> /\ \A s \in Http : OnTunnel(s)' = OnTunnel(s)
    BY <1>2 DEF Dropped, Taken, OnTunnel
  <2>2. ChunkTypes'
    <3>1. mail \in [Session -> Seq(Mail)] /\ mail[x] \in Seq(Mail)
      BY <1>0 DEF ChunkTypes
    <3>2. CASE Dropped(x)
      <4>1. mail' = [mail EXCEPT ![x] = <<>>] /\ <<>> \in Seq(Mail)
        BY <3>2 DEF Dropped
      <4>. QED BY <1>0, <2>1, <3>1, <4>1 DEF ChunkTypes
    <3>3. CASE Taken(x)
      <4>1. mail' = [mail EXCEPT ![x] = Tail(mail[x])] /\ Tail(mail[x]) \in Seq(Mail)
        BY <3>1, <3>3 DEF Taken
      <4>. QED BY <1>0, <2>1, <3>1, <4>1 DEF ChunkTypes
    <3>. QED BY <1>2, <3>2, <3>3
  <2>3. \A s \in Http : InMail(s)' \in Nat /\ InMail(s)' <= InMail(s)
    <3>. SUFFICES ASSUME NEW s \in Http PROVE InMail(s)' \in Nat /\ InMail(s)' <= InMail(s)
      OBVIOUS
    <3>1. mail[s] \in Seq(Mail) /\ s \in Session /\ x \in Session
      BY <1>0 DEF ChunkTypes
    <3>2. CASE mail'[s] = mail[s]
      BY <1>0, <3>2 DEF InMail
    <3>3. CASE mail'[s] = <<>>
      <4>1. InMail(s)' = 0
        <5>1. mail'[s] \in Seq(Mail)
          BY <3>3
        <5>. QED BY <3>3, <5>1, HeldFinite DEF InMail
      <4>. QED BY <1>0, <4>1
    <3>4. CASE s = x /\ Taken(x)
      <4>1. mail[s] # <<>> /\ Head(mail[s]) # "chunk" /\ mail'[s] = Tail(mail[s])
        BY <1>0, <3>4 DEF Taken, ChunkTypes
      <4>2. InMail(s) = InMail(s)' + 0
        BY <3>1, <4>1, HeldTail DEF InMail
      <4>3. InMail(s)' \in Nat
        BY <2>2, <3>1, HeldFinite DEF InMail, ChunkTypes
      <4>. QED BY <4>2, <4>3
    <3>. QED BY <1>0, <1>2, <3>1, <3>2, <3>3, <3>4 DEF Dropped, Taken, ChunkTypes
  <2>. QED BY <1>0, <2>1, <2>2, <2>3 DEF ChunkInv, ChunksConserved
<1>3. ASSUME NEW x \in Http, Buffered(x) PROVE ChunkInv'
  <2>1. /\ UNCHANGED <<fromPc, sent>> /\ \A s \in Http : OnTunnel(s)' = OnTunnel(s)
        /\ mail[x] # <<>> /\ Head(mail[x]) = "chunk" /\ mail[x] \in Seq(Mail) /\ x \in Session
        /\ mail'[x] = Tail(mail[x]) /\ got'[x] = got[x] + 1
        /\ \A s \in Http \ {x} : mail'[s] = mail[s] /\ got'[s] = got[s]
    BY <1>0, <1>3 DEF Buffered, OnTunnel, ChunkTypes
  <2>2. ChunkTypes'
    <3>1. mail' = [mail EXCEPT ![x] = Tail(mail[x])] /\ Tail(mail[x]) \in Seq(Mail)
      BY <1>3, <2>1 DEF Buffered
    <3>2. got' \in [Http -> Nat]
      BY <1>0, <1>3 DEF Buffered, ChunkTypes
    <3>. QED BY <1>0, <2>1, <3>1, <3>2 DEF ChunkTypes
  <2>3. InMail(x) = InMail(x)' + 1
    BY <2>1, HeldTail DEF InMail
  <2>4. InMail(x)' \in Nat
    BY <2>1, <2>2, HeldFinite DEF InMail, ChunkTypes
  <2>5. \A s \in Http \ {x} : InMail(s)' = InMail(s)
    BY <2>1 DEF InMail
  <2>6. got'[x] + InMail(x)' + OnTunnel(x)' <= sent'[x]
    <3>1. /\ got[x] \in Nat /\ sent[x] \in Nat /\ OnTunnel(x) \in Nat
          /\ got[x] + InMail(x) + OnTunnel(x) <= sent[x]
      BY <1>0
    <3>. QED BY <2>1, <2>3, <2>4, <3>1
  <2>. QED BY <1>0, <2>1, <2>2, <2>5, <2>6 DEF ChunkInv, ChunksConserved
<1>4. ASSUME NEW x \in Session, NEW frames \in Seq(DownFrame), Answers(x, frames) PROVE ChunkInv'
  <2>1. /\ UNCHANGED <<mail, got, sent>> /\ fromPc \in Seq(DownFrame)
        /\ fromPc' = fromPc \/ fromPc' = fromPc \o frames
        /\ \A k \in DOMAIN frames : frames[k].ty # "chunk"
    BY <1>0, <1>4 DEF Answers, PcSends, ChunkTypes
  <2>2. ChunkTypes'
    <3>1. fromPc \o frames \in Seq(DownFrame)
      BY <2>1
    <3>. QED BY <1>0, <2>1, <3>1 DEF ChunkTypes
  <2>3. ASSUME NEW s \in Http PROVE OnTunnel(s)' = OnTunnel(s)
    <3>1. \A k \in DOMAIN frames : frames[k] # Frame("chunk", s)
      BY <2>1 DEF Frame
    <3>2. Held(fromPc \o frames, Frame("chunk", s)) = Held(fromPc, Frame("chunk", s))
      BY <2>1, <3>1, HeldBeside
    <3>. QED BY <2>1, <3>2 DEF OnTunnel
  <2>. QED BY <1>0, <2>1, <2>2, <2>3 DEF ChunkInv, ChunksConserved, InMail
<1>5. ASSUME NEW x \in Http, Pieced(x) PROVE ChunkInv'
  <2>1. /\ UNCHANGED <<mail, got>> /\ fromPc \in Seq(DownFrame) /\ Frame("chunk", x) \in DownFrame
        /\ fromPc' = Append(fromPc, Frame("chunk", x))
        /\ sent[x] < Length /\ sent' = [sent EXCEPT ![x] = @ + 1]
    BY <1>0, <1>5 DEF Pieced, PcSends, ChunkTypes, Frame, DownFrame, Mail
  <2>2. sent'[x] = sent[x] + 1 /\ \A s \in Http \ {x} : sent'[s] = sent[s]
    BY <1>0, <2>1 DEF ChunkTypes
  <2>3. ChunkTypes'
    <3>1. fromPc' \in Seq(DownFrame)
      BY <2>1
    <3>2. sent' \in [Http -> 0..Length]
      BY <1>0, <2>1 DEF ChunkTypes
    <3>. QED BY <1>0, <2>1, <3>1, <3>2 DEF ChunkTypes
  <2>4. \A s \in Http : OnTunnel(s)' = OnTunnel(s) + (IF s = x THEN 1 ELSE 0)
    <3>. SUFFICES ASSUME NEW s \in Http
                  PROVE OnTunnel(s)' = OnTunnel(s) + (IF s = x THEN 1 ELSE 0)
      OBVIOUS
    <3>1. (Frame("chunk", x) = Frame("chunk", s)) <=> (s = x)
      BY DEF Frame
    <3>. QED BY <2>1, <3>1, HeldAppend DEF OnTunnel
  <2>5. \A s \in Http : InMail(s)' = InMail(s)
    BY <2>1 DEF InMail
  <2>6. ASSUME NEW s \in Http PROVE got'[s] + InMail(s)' + OnTunnel(s)' <= sent'[s]
    <3>1. /\ got[s] \in Nat /\ sent[s] \in Nat /\ InMail(s) \in Nat /\ OnTunnel(s) \in Nat
          /\ got[s] + InMail(s) + OnTunnel(s) <= sent[s]
      BY <1>0
    <3>2. got'[s] = got[s] /\ InMail(s)' = InMail(s)
      BY <2>1, <2>5
    <3>3. \/ OnTunnel(s)' = OnTunnel(s) + 1 /\ sent'[s] = sent[s] + 1
          \/ OnTunnel(s)' = OnTunnel(s) /\ sent'[s] = sent[s]
      <4>1. CASE s = x
        BY <2>2, <2>4, <4>1
      <4>2. CASE s # x
        BY <2>2, <2>4, <3>1, <4>2
      <4>. QED BY <4>1, <4>2
    <3>. QED BY <3>1, <3>2, <3>3
  <2>. QED BY <2>3, <2>6 DEF ChunkInv, ChunksConserved
<1>6. CASE Routed
  <2>. DEFINE f == Head(fromPc)
  <2>1. /\ UNCHANGED <<got, sent>> /\ fromPc \in Seq(DownFrame)
        /\ fromPc # <<>> /\ fromPc' = Tail(fromPc) /\ f \in DownFrame
    BY <1>0, <1>6 DEF Routed, Route, ChunkTypes
  <2>2. mail' = mail \/ mail' = [mail EXCEPT ![f.session] = Append(@, f.ty)]
    BY <1>6 DEF Routed, Route
  <2>3. f.session \in Session /\ f.ty \in Mail /\ f = Frame(f.ty, f.session)
    BY <2>1 DEF DownFrame, Frame
  <2>. HIDE DEF f
  <2>4. ChunkTypes'
    <3>1. mail \in [Session -> Seq(Mail)] /\ Append(mail[f.session], f.ty) \in Seq(Mail)
      BY <1>0, <2>3 DEF ChunkTypes
    <3>2. mail' \in [Session -> Seq(Mail)]
      BY <2>2, <2>3, <3>1
    <3>3. fromPc' \in Seq(DownFrame)
      BY <2>1
    <3>. QED BY <1>0, <2>1, <3>2, <3>3 DEF ChunkTypes
  <2>5. ASSUME NEW s \in Http PROVE got'[s] + InMail(s)' + OnTunnel(s)' <= sent'[s]
    <3>1. mail[s] \in Seq(Mail) /\ s \in Session
      BY <1>0 DEF ChunkTypes
    <3>2. f = Frame("chunk", s) <=> f.ty = "chunk" /\ f.session = s
      BY <2>3 DEF Frame
    <3>3. OnTunnel(s) = OnTunnel(s)' + (IF f = Frame("chunk", s) THEN 1 ELSE 0)
      BY <2>1, HeldTail DEF OnTunnel, f
    <3>4. OnTunnel(s)' \in Nat /\ InMail(s)' \in Nat
      BY <2>4, <3>1, HeldFinite DEF OnTunnel, InMail, ChunkTypes
    <3>5. InMail(s)' = InMail(s) \/ (f = Frame("chunk", s) /\ InMail(s)' = InMail(s) + 1)
      <4>1. CASE mail'[s] = mail[s]
        BY <4>1 DEF InMail
      <4>2. CASE f.session = s /\ mail'[s] = Append(mail[s], f.ty)
        <5>1. InMail(s)' = InMail(s) + (IF f.ty = "chunk" THEN 1 ELSE 0)
          BY <2>3, <3>1, <4>2, HeldAppend DEF InMail
        <5>. QED BY <1>0, <3>2, <4>2, <5>1
      <4>. QED BY <1>0, <2>2, <2>3, <3>1, <4>1, <4>2 DEF ChunkTypes
    <3>6. /\ got'[s] = got[s] /\ sent'[s] = sent[s]
          /\ got[s] \in Nat /\ sent[s] \in Nat /\ InMail(s) \in Nat /\ OnTunnel(s) \in Nat
          /\ got[s] + InMail(s) + OnTunnel(s) <= sent[s]
      BY <1>0, <2>1
    <3>7. InMail(s)' + OnTunnel(s)' <= InMail(s) + OnTunnel(s)
      <4>1. CASE f = Frame("chunk", s)
        BY <3>3, <3>4, <3>5, <3>6, <4>1
      <4>2. CASE f # Frame("chunk", s)
        BY <3>3, <3>4, <3>5, <3>6, <4>2
      <4>. QED BY <4>1, <4>2
    <3>. QED BY <3>4, <3>6, <3>7
  <2>. QED BY <2>4, <2>5 DEF ChunkInv, ChunksConserved
<1>7. CASE AllTold
  <2>1. /\ UNCHANGED <<fromPc, got, sent>> /\ mail \in [Session -> Seq(Mail)]
        /\ mail' = [s \in Session |->
                      IF s \in conns /\ Receiver(s) THEN Append(mail[s], "close") ELSE mail[s]]
    BY <1>0, <1>7 DEF AllTold, CloseAll, ChunkTypes
  <2>2. \A s \in Session : mail'[s] = mail[s] \/ mail'[s] = Append(mail[s], "close")
    BY <2>1
  <2>3. "close" \in Mail
    BY DEF Mail
  <2>4. ChunkTypes'
    BY <1>0, <2>1, <2>2, <2>3 DEF ChunkTypes
  <2>5. ASSUME NEW s \in Http PROVE InMail(s)' = InMail(s)
    <3>1. mail[s] \in Seq(Mail) /\ s \in Session
      BY <1>0, <2>1
    <3>2. CASE mail'[s] = Append(mail[s], "close")
      BY <1>0, <2>3, <3>1, <3>2, HeldAppend DEF InMail
    <3>. QED BY <2>2, <3>1, <3>2 DEF InMail
  <2>. QED BY <1>0, <2>1, <2>4, <2>5 DEF ChunkInv, ChunksConserved, OnTunnel
<1>. QED BY <1>1, <1>2, <1>3, <1>4, <1>5, <1>6, <1>7, ChunkSteps

-----------------------------------------------------------------------------
(* Types, and what reaches the shared cache *)

TaskTypes ==
    /\ writer \in [Ws -> {"none", "running", "done"}]
    /\ browser \in [Session -> {"here", "left", "vanished"}]
    /\ up \in [Ws -> 0..MaxUp]
    /\ hub \in {"up", "drained", "gone"}
    /\ link \in {"up", "down"}
    /\ pump \in [Session -> Seq({"up", "reqFin"})]

\* The cache holds nothing or a whole asset, and never more than the body got.
WholeAssets ==
    /\ stored \in [Http -> {0, Length}]
    /\ \A s \in Http : stored[s] <= got[s]

\* What a step does to the pumps: nothing, one is emptied, its first frame is
\* taken, or one more is routed to it.
LEMMA PumpSteps ==
    ASSUME [Next]_vars
    PROVE  \/ pump' = pump
           \/ \E s \in Session : pump' = [pump EXCEPT ![s] = <<>>]
           \/ \E s \in Session : pump[s] # <<>> /\ pump' = [pump EXCEPT ![s] = Tail(@)]
           \/ \E s \in bound, ty \in {"up", "reqFin"} : pump' = [pump EXCEPT ![s] = Append(@, ty)]
<1>. USE DEF hubVars, pcVars, edgeVars
<1>0. Ws \subseteq Session /\ Http \subseteq Session
  BY DEF Session
<1>1. ASSUME NEW s \in Ws, WsStep(s)
      PROVE  \/ pump' = pump \/ pump' = [pump EXCEPT ![s] = <<>>]
             \/ pump[s] # <<>> /\ pump' = [pump EXCEPT ![s] = Tail(@)]
  BY <1>1 DEF WsStep, Upgrade, WsReserve, WsRefused, WsOpen, WsOpenFails, WsUp, WsUpRefused, WsLeft,
       WsIdle, LeaveReader, WsWrite, WsWriteClose, WsWriteFails, Hello, HelloRefused, WsFrame,
       WsParted, Kick, BadFrame, PcIdle, CloseSession
<1>2. ASSUME NEW s \in Http, HttpStep(s)
      PROVE  \/ pump' = pump \/ pump' = [pump EXCEPT ![s] = <<>>]
             \/ pump[s] # <<>> /\ pump' = [pump EXCEPT ![s] = Tail(@)]
  BY <1>2 DEF HttpStep, HttpReserve, HttpSend, HttpGivesUp, HttpHead, HttpChunk, HttpEnd, HttpLeave,
       HttpAnswer, BodyIncomplete, HttpPiece, HttpDone, CloseSession
<1>3. CASE Inbound
  BY <1>3 DEF Inbound, Open, RouteToPump
<1>4. CASE \/ UNCHANGED vars \/ LinkEnds \/ HubGone \/ HubDrains \/ Displaced \/ Route
           \/ \E s \in Session : BrowserLeaves(s)
  BY <1>4 DEF vars, LinkEnds, HubGone, HubDrains, Displaced, Route, BrowserLeaves
<1>. QED BY <1>0, <1>1, <1>2, <1>3, <1>4 DEF Next

\* What a step does to everything else: the WebSocket's writer and browser move,
\* a request's task stores what it has as it leaves, an end of the tunnel goes.
WriterMoves(s) == \E p \in {"running", "done"} : writer' = [writer EXCEPT ![s] = p]
BrowserGoes(s) ==
    /\ \E how \in {"left", "vanished"} : browser' = [browser EXCEPT ![s] = how]
    /\ up' = up
BrowserSpeaks(s) == browser' = browser /\ up[s] < MaxUp /\ up' = [up EXCEPT ![s] = @ + 1]

LEMMA WsEdges ==
    ASSUME NEW s \in Ws, WsStep(s)
    PROVE  /\ UNCHANGED <<stored, hub, link>>
           /\ writer' = writer \/ WriterMoves(s)
           /\ UNCHANGED edgeVars \/ BrowserGoes(s) \/ BrowserSpeaks(s)
<1>. USE DEF hubVars, pcVars, edgeVars, WriterMoves, BrowserGoes, BrowserSpeaks
<1>1. CASE \/ Upgrade(s) \/ WsReserve(s) \/ WsRefused(s) \/ WsOpen(s) \/ WsOpenFails(s) \/ WsUp(s)
  BY <1>1 DEF Upgrade, WsReserve, WsRefused, WsOpen, WsOpenFails, WsUp, BrowserHears
<1>2. CASE \/ WsUpRefused(s) \/ WsLeft(s) \/ WsIdle(s) \/ WsWrite(s) \/ WsWriteClose(s)
           \/ WsWriteFails(s)
  BY <1>2 DEF WsUpRefused, WsLeft, WsIdle, LeaveReader, WsWrite, WsWriteClose, WsWriteFails,
       BrowserHears
<1>3. CASE \/ Hello(s) \/ HelloRefused(s) \/ WsFrame(s) \/ WsParted(s) \/ Kick(s) \/ BadFrame(s)
           \/ PcIdle(s)
  BY <1>3 DEF Hello, HelloRefused, WsFrame, WsParted, Kick, BadFrame, PcIdle, CloseSession
<1>. QED BY <1>1, <1>2, <1>3 DEF WsStep

LEMMA HttpEdges ==
    ASSUME NEW s \in Http, HttpStep(s)
    PROVE  UNCHANGED <<writer, edgeVars, hub, link>> /\ (stored' = stored \/ HttpLeave(s))
<1>. USE DEF hubVars, pcVars, edgeVars
<1>1. CASE HttpReserve(s) \/ HttpSend(s) \/ HttpGivesUp(s) \/ HttpHead(s) \/ HttpChunk(s) \/ HttpEnd(s)
  BY <1>1 DEF HttpReserve, HttpSend, HttpGivesUp, HttpHead, HttpChunk, HttpEnd, HttpLeave
<1>2. CASE HttpAnswer(s) \/ BodyIncomplete(s) \/ HttpPiece(s) \/ HttpDone(s)
  BY <1>2 DEF HttpAnswer, BodyIncomplete, HttpPiece, HttpDone, CloseSession
<1>. QED BY <1>1, <1>2 DEF HttpStep

LEMMA TunnelEdges ==
    ASSUME \/ Route \/ Displaced \/ HubDrains \/ HubGone \/ Inbound \/ LinkEnds \/ UNCHANGED vars
           \/ \E s \in Session : BrowserLeaves(s)
    PROVE  /\ UNCHANGED <<writer, stored>>
           /\ UNCHANGED edgeVars \/ \E s \in Session : BrowserGoes(s)
           /\ hub' \in {hub, "drained", "gone"} /\ link' \in {link, "down"}
<1>. USE DEF hubVars, pcVars, edgeVars, BrowserGoes
<1>1. CASE Route \/ Displaced \/ HubDrains \/ HubGone \/ LinkEnds \/ UNCHANGED vars
  BY <1>1 DEF Route, Displaced, HubDrains, HubGone, LinkEnds, vars
<1>2. CASE Inbound
  BY <1>2 DEF Inbound, Open, RouteToPump
<1>3. CASE \E s \in Session : BrowserLeaves(s)
  BY <1>3 DEF BrowserLeaves
<1>. QED BY <1>1, <1>2, <1>3

LEMMA TaskTypesStep == Queues /\ TaskTypes /\ [Next]_vars => TaskTypes'
<1>. SUFFICES ASSUME Queues, TaskTypes, [Next]_vars PROVE TaskTypes'
  OBVIOUS
<1>0. Ws \subseteq Session /\ Http \subseteq Session /\ bound \subseteq Session
  BY DEF Session, Queues
<1>1. pump' \in [Session -> Seq({"up", "reqFin"})]
  <2>1. pump \in [Session -> Seq({"up", "reqFin"})]
    BY DEF TaskTypes
  <2>2. ASSUME NEW s \in Session, pump' = [pump EXCEPT ![s] = <<>>]
        PROVE  pump' \in [Session -> Seq({"up", "reqFin"})]
    BY <2>1, <2>2
  <2>3. ASSUME NEW s \in Session, pump[s] # <<>>, pump' = [pump EXCEPT ![s] = Tail(@)]
        PROVE  pump' \in [Session -> Seq({"up", "reqFin"})]
    <3>1. Tail(pump[s]) \in Seq({"up", "reqFin"})
      BY <2>1, <2>3
    <3>. QED BY <2>1, <2>3, <3>1
  <2>4. ASSUME NEW s \in Session, NEW ty \in {"up", "reqFin"},
               pump' = [pump EXCEPT ![s] = Append(@, ty)]
        PROVE  pump' \in [Session -> Seq({"up", "reqFin"})]
    <3>1. Append(pump[s], ty) \in Seq({"up", "reqFin"})
      BY <2>1, <2>4
    <3>. QED BY <2>1, <2>4, <3>1
  <2>. QED BY <1>0, <2>1, <2>2, <2>3, <2>4, PumpSteps
<1>2. /\ writer' = writer \/ \E s \in Ws : WriterMoves(s)
      /\ UNCHANGED edgeVars \/ (\E s \in Session : BrowserGoes(s)) \/ (\E s \in Ws : BrowserSpeaks(s))
      /\ hub' \in {hub, "drained", "gone"} /\ link' \in {link, "down"}
  BY <1>0, WsEdges, HttpEdges, TunnelEdges DEF Next
<1>3. writer' \in [Ws -> {"none", "running", "done"}]
  BY <1>2 DEF WriterMoves, TaskTypes
<1>4. browser' \in [Session -> {"here", "left", "vanished"}] /\ up' \in [Ws -> 0..MaxUp]
  <2>1. CASE UNCHANGED edgeVars \/ \E s \in Session : BrowserGoes(s)
    BY <2>1 DEF edgeVars, BrowserGoes, TaskTypes
  <2>2. ASSUME NEW s \in Ws, BrowserSpeaks(s)
        PROVE  browser' = browser /\ up' \in [Ws -> 0..MaxUp]
    BY <2>2, LimitAssumption DEF BrowserSpeaks, TaskTypes
  <2>. QED BY <1>2, <2>1, <2>2 DEF TaskTypes
<1>. QED BY <1>1, <1>2, <1>3, <1>4 DEF TaskTypes

\* The cache is written where a request's task leaves, and nowhere else; the
\* body's count only grows.
LEMMA WholeAssetsStep == ChunkTypes /\ WholeAssets /\ [Next]_vars => WholeAssets'
<1>. SUFFICES ASSUME ChunkTypes, WholeAssets, [Next]_vars PROVE WholeAssets'
  OBVIOUS
<1>0. /\ got \in [Http -> Nat] /\ Length \in Nat
      /\ stored \in [Http -> {0, Length}] /\ \A s \in Http : stored[s] <= got[s]
  BY LimitAssumption DEF ChunkTypes, WholeAssets
<1>1. stored' = stored \/ \E s \in Http : HttpLeave(s)
  BY WsEdges, HttpEdges, TunnelEdges DEF Next
<1>2. ASSUME NEW s \in Http, HttpLeave(s) PROVE WholeAssets'
  <2>1. /\ stored' = [stored EXCEPT ![s] = IF got[s] = Length THEN got[s] ELSE @]
        /\ got' = got
    BY <1>2 DEF HttpLeave, Complete
  <2>. QED BY <1>0, <2>1 DEF WholeAssets
<1>3. CASE stored' = stored
  <2>1. got' = got \/ \E s \in Http : got' = [got EXCEPT ![s] = @ + 1]
    BY ChunkSteps DEF Still, Dropped, Taken, Buffered, Pieced, Answers, Routed, AllTold
  <2>2. \A s \in Http : got[s] <= got'[s]
    BY <1>0, <2>1
  <2>3. got' \in [Http -> Nat]
    BY <1>0, <2>1
  <2>4. \A s \in Http : stored'[s] <= got'[s]
    <3>. SUFFICES ASSUME NEW s \in Http PROVE stored[s] <= got'[s]
      BY <1>3
    <3>1. stored[s] \in Nat /\ got[s] \in Nat /\ got'[s] \in Nat
      BY <1>0, <2>3
    <3>. QED BY <1>0, <2>2, <3>1
  <2>. QED BY <1>0, <1>3, <2>4 DEF WholeAssets
<1>. QED BY <1>1, <1>2, <1>3

-----------------------------------------------------------------------------
FlowInv == CloseInv /\ TaskTypes /\ ChunkInv /\ WholeAssets

LEMMA FlowsCorrect == Spec => []FlowInv
<1>1. Init => TaskTypes /\ WholeAssets
  BY LimitAssumption DEF Init, TaskTypes, WholeAssets
<1>2. Init => ChunkTypes
  BY LimitAssumption DEF Init, ChunkTypes
<1>3. Init => ChunksConserved
  <2>. SUFFICES ASSUME Init, NEW s \in Http PROVE got[s] + InMail(s) + OnTunnel(s) <= sent[s]
    BY DEF ChunksConserved
  <2>1. got[s] = 0 /\ sent[s] = 0 /\ mail[s] = <<>> /\ fromPc = <<>>
    BY DEF Init, Session
  <2>2. InMail(s) = 0
    <3>1. mail[s] \in Seq(Mail)
      BY <2>1
    <3>. QED BY <2>1, <3>1, HeldFinite DEF InMail
  <2>3. OnTunnel(s) = 0
    <3>1. fromPc \in Seq(DownFrame)
      BY <2>1
    <3>. QED BY <2>1, <3>1, HeldFinite DEF OnTunnel
  <2>. QED BY <2>1, <2>2, <2>3
<1>4. TaskTypes /\ ChunkInv /\ WholeAssets /\ CloseInv /\ [Next]_vars
        => (TaskTypes /\ ChunkInv /\ WholeAssets)'
  BY TaskTypesStep, ChunkStep, WholeAssetsStep DEF CloseInv, ChunkInv
<1>. QED BY <1>1, <1>2, <1>3, <1>4, ClosesCorrect, PTL DEF Spec, FlowInv, ChunkInv

\* A displaced or draining Hub, a writer that fails, a body that gives up: none
\* of them leaves a task, a queue or a counter outside its type, nor a body
\* with more chunks than its asset has.
THEOREM Types == Spec => []TypeOK
<1>1. ASSUME FlowInv PROVE TypeOK
  <2>1. /\ conns \subseteq Session /\ hubTask \in [Session -> HubPhase]
        /\ bound \subseteq Session /\ pcTask \in [Session -> PcPhase] /\ fromPc \in Seq(DownFrame)
    BY <1>1 DEF FlowInv, CloseInv, SlotInv, Queues
  <2>2. toPc \in Seq(UpFrame)
    <3>1. Told \subseteq UpFrame
      BY DEF Told, UpFrame, Frame
    <3>2. toPc \in Seq(Told)
      BY <1>1 DEF FlowInv, CloseInv, Queues
    <3>. QED BY <3>1, <3>2
  <2>3. /\ writer \in [Ws -> {"none", "running", "done"}] /\ up \in [Ws -> 0..MaxUp]
        /\ browser \in [Session -> {"here", "left", "vanished"}]
        /\ hub \in {"up", "drained", "gone"} /\ link \in {"up", "down"}
        /\ pump \in [Session -> Seq({"up", "reqFin"})]
    BY <1>1 DEF FlowInv, TaskTypes
  <2>4. mail \in [Session -> Seq(Mail)] /\ sent \in [Http -> 0..Length] /\ got \in [Http -> Nat]
    BY <1>1 DEF FlowInv, ChunkInv, ChunkTypes
  <2>5. stored \in [Http -> 0..Length]
    BY <1>1, LimitAssumption DEF FlowInv, WholeAssets
  <2>6. got \in [Http -> 0..Length]
    <3>. SUFFICES ASSUME NEW s \in Http PROVE got[s] \in 0..Length
      BY <2>4
    <3>1. InMail(s) \in Nat /\ OnTunnel(s) \in Nat
      <4>1. mail[s] \in Seq(Mail) /\ fromPc \in Seq(DownFrame)
        BY <2>1, <2>4 DEF Session
      <4>. QED BY <4>1, HeldFinite DEF InMail, OnTunnel
    <3>2. got[s] + InMail(s) + OnTunnel(s) <= sent[s]
      BY <1>1 DEF FlowInv, ChunkInv, ChunksConserved
    <3>3. got[s] \in Nat /\ sent[s] \in 0..Length /\ Length \in Nat
      BY <2>4, LimitAssumption
    <3>. QED BY <3>1, <3>2, <3>3
  <2>. QED BY <2>1, <2>2, <2>3, <2>4, <2>5, <2>6 DEF TypeOK
<1>. QED BY <1>1, FlowsCorrect, PTL

\* A chunk on the Hub's side was sent by the PC once: what the cache holds of
\* an answer, the body got (WholeAssets), what the body got, the PC sent
\* (ChunksConserved), and the PC sends no more than the asset has.
THEOREM CachedAssetsWereSent == Spec => []CachedWasSent
<1>1. FlowInv => CachedWasSent
  <2>. SUFFICES ASSUME FlowInv, NEW s \in Http, stored[s] # 0
                PROVE  sent[s] = Length /\ stored[s] = sent[s]
    BY DEF CachedWasSent
  <2>1. stored[s] = Length /\ stored[s] <= got[s]
    BY DEF FlowInv, WholeAssets
  <2>2. got[s] \in Nat /\ sent[s] \in 0..Length /\ Length \in Nat
    BY LimitAssumption DEF FlowInv, ChunkInv, ChunkTypes
  <2>3. InMail(s) \in Nat /\ OnTunnel(s) \in Nat
    <3>1. mail[s] \in Seq(Mail) /\ fromPc \in Seq(DownFrame)
      BY DEF FlowInv, ChunkInv, ChunkTypes, Session
    <3>. QED BY <3>1, HeldFinite DEF InMail, OnTunnel
  <2>4. got[s] + InMail(s) + OnTunnel(s) <= sent[s]
    BY DEF FlowInv, ChunkInv, ChunksConserved
  <2>. QED BY <2>1, <2>2, <2>3, <2>4
<1>. QED BY <1>1, FlowsCorrect, PTL

=============================================================================
