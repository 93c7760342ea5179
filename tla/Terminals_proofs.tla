------------------------- MODULE Terminals_proofs -------------------------
(***************************************************************************)
(* Proofs about Terminals: a running shell is accounted for or was let go  *)
(* at a known end, and no page's terminal is the price of another page's   *)
(* collision, for any number of calls and ids.                             *)
(***************************************************************************)
EXTENDS Terminals, TLAPS

\* An entry of the map is under its own id.
UnderOwnId == \A i \in Id : sessions[i] # None => id[sessions[i]] = i

\* Only a create that went through has threads.
TellersFollow == \A c \in Create : teller[c] # "none" => call[c] = "done"

\* A session leaves the map at the end of its threads or into a close, and a
\* close that has seen the exit has seen right.
EndsFollow ==
    \A c \in Create :
        /\ teller[c] = "over" => sessions[id[c]] # c
        /\ closing[c] = "over" => c \notin alive
        /\ call[c] \in {"idle", "admitted", "spawned"} => closing[c] = "none" /\ sessions[id[c]] # c
        /\ call[c] \in {"idle", "admitted"} => c \notin alive

\* What the proofs carry along every step.
IInv == TypeOK /\ UnderOwnId /\ TellersFollow /\ EndsFollow /\ OrphansAreKnown

LEMMA InitIInv == Init => IInv
BY NoneAssumption DEF Init, IInv, TypeOK, UnderOwnId, TellersFollow, EndsFollow, OrphansAreKnown

\* Steps that leave the map and the closings alone.
LEMMA QuietKeeps ==
    ASSUME IInv, NEW c \in Create,
           \/ PtyCreate(c) \/ Spawn(c) \/ PipesFail(c) \/ ShellExits(c) \/ ShellWrites(c)
           \/ Gather(c) \/ EmitOutput(c) \/ StreamEnds(c) \/ EmitExit(c)
    PROVE  IInv'
<1>1. TypeOK'
  <2>1. CASE PtyCreate(c) \/ Spawn(c) \/ PipesFail(c)
    BY <2>1, NoneAssumption DEF IInv, TypeOK, PtyCreate, Refuses, Admits, Occupied, Spawn, PipesFail
  <2>2. CASE ShellExits(c) \/ ShellWrites(c) \/ Gather(c)
    BY <2>2 DEF IInv, TypeOK, ShellExits, ShellWrites, Gather
  <2>3. CASE EmitOutput(c) \/ StreamEnds(c) \/ EmitExit(c)
    BY <2>3 DEF IInv, TypeOK, EmitOutput, StreamEnds, EmitExit
  <2>. QED BY <2>1, <2>2, <2>3
<1>2. UnderOwnId'
  BY DEF IInv, UnderOwnId, PtyCreate, Spawn, PipesFail, ShellExits, ShellWrites, Gather, EmitOutput,
     StreamEnds, EmitExit
<1>3. TellersFollow' /\ EndsFollow'
  <2>1. CASE PtyCreate(c) \/ Spawn(c) \/ PipesFail(c)
    BY <2>1 DEF IInv, TypeOK, TellersFollow, EndsFollow, PtyCreate, Spawn, PipesFail
  <2>2. CASE ShellExits(c) \/ ShellWrites(c)
    BY <2>2 DEF IInv, TypeOK, TellersFollow, EndsFollow, OrphansAreKnown, ShellExits, ShellWrites
  <2>3. CASE Gather(c) \/ EmitOutput(c) \/ StreamEnds(c) \/ EmitExit(c)
    BY <2>3 DEF IInv, TypeOK, TellersFollow, EndsFollow, Gather, EmitOutput, StreamEnds, EmitExit
  <2>. QED BY <2>1, <2>2, <2>3
<1>4. OrphansAreKnown'
  <2>1. CASE PtyCreate(c) \/ Spawn(c) \/ PipesFail(c)
    BY <2>1 DEF IInv, TypeOK, TellersFollow, EndsFollow, OrphansAreKnown, LetGo, PtyCreate, Spawn, PipesFail
  <2>2. CASE ShellExits(c) \/ ShellWrites(c)
    BY <2>2 DEF IInv, TypeOK, OrphansAreKnown, LetGo, ShellExits, ShellWrites
  <2>3. CASE Gather(c) \/ EmitOutput(c) \/ StreamEnds(c) \/ EmitExit(c)
    BY <2>3 DEF IInv, TypeOK, OrphansAreKnown, LetGo, Gather, EmitOutput, StreamEnds, EmitExit
  <2>. QED BY <2>1, <2>2, <2>3
<1>. QED BY <1>1, <1>2, <1>3, <1>4 DEF IInv

LEMMA ClosesKeep ==
    ASSUME IInv, NEW c \in Create, CloseKills(c) \/ CloseReturns(c)
    PROVE  IInv'
<1>1. TypeOK' /\ UnderOwnId' /\ TellersFollow'
  BY DEF IInv, TypeOK, UnderOwnId, TellersFollow, CloseKills, CloseReturns
<1>2. EndsFollow'
  BY DEF IInv, TypeOK, EndsFollow, CloseKills, CloseReturns
<1>3. OrphansAreKnown'
  BY DEF IInv, TypeOK, OrphansAreKnown, LetGo, CloseKills, CloseReturns
<1>. QED BY <1>1, <1>2, <1>3 DEF IInv

\* A session that goes in replaces one that is closed, a refused call's shell
\* is closed.
LEMMA InsertKeeps ==
    ASSUME IInv, NEW c \in Create, Insert(c)
    PROVE  IInv'
<1>0. PICK fails \in BOOLEAN :
        \/ /\ Refuses(id[c], fails)
           /\ call' = [call EXCEPT ![c] = "refused"]
           /\ closing' = [closing EXCEPT ![c] = "polite"]
           /\ UNCHANGED <<sessions, teller>>
        \/ Admits(id[c], fails) /\ GoesIn(c)
  BY DEF Insert
<1>1. CASE Refuses(id[c], fails)
  <2>1. /\ call' = [call EXCEPT ![c] = "refused"]
        /\ closing' = [closing EXCEPT ![c] = "polite"]
        /\ UNCHANGED <<sessions, teller, id, alive, out, misread>>
    BY <1>0, <1>1 DEF Refuses, Admits, Insert
  <2>2. TypeOK' /\ UnderOwnId' /\ TellersFollow'
    BY <2>1 DEF IInv, TypeOK, UnderOwnId, TellersFollow, Insert
  <2>3. EndsFollow'
    BY <2>1 DEF IInv, TypeOK, EndsFollow
  <2>4. OrphansAreKnown'
    BY <2>1 DEF IInv, TypeOK, OrphansAreKnown, LetGo
  <2>. QED BY <2>2, <2>3, <2>4 DEF IInv
<1>2. CASE Admits(id[c], fails) /\ GoesIn(c)
  <2>1. TypeOK'
    BY <1>2, NoneAssumption DEF IInv, TypeOK, Insert, Admits, Occupied, GoesIn
  <2>2. UnderOwnId'
    BY <1>2, NoneAssumption DEF IInv, TypeOK, UnderOwnId, Insert, GoesIn
  <2>3. TellersFollow'
    BY <1>2 DEF IInv, TypeOK, TellersFollow, Insert, GoesIn
  <2>4. sessions[id[c]] # c /\ call[c] = "spawned" /\ teller[c] = "none"
    BY DEF Insert, IInv, TypeOK, EndsFollow, TellersFollow
  <2>5. EndsFollow'
    BY <1>2, <2>4, NoneAssumption DEF IInv, TypeOK, UnderOwnId, EndsFollow, Insert, GoesIn
  <2>6. OrphansAreKnown'
    BY <1>2, <2>4, NoneAssumption DEF IInv, TypeOK, UnderOwnId, OrphansAreKnown, LetGo, Insert, GoesIn
  <2>. QED BY <2>1, <2>2, <2>3, <2>5, <2>6 DEF IInv
<1>. QED BY <1>0, <1>1, <1>2

LEMMA KillKeeps ==
    ASSUME IInv, NEW i \in Id, Kill(i)
    PROVE  IInv'
<1>1. TypeOK' /\ UnderOwnId' /\ TellersFollow'
  BY NoneAssumption DEF IInv, TypeOK, UnderOwnId, TellersFollow, Kill
<1>2. EndsFollow'
  BY NoneAssumption DEF IInv, TypeOK, UnderOwnId, EndsFollow, Kill
<1>3. OrphansAreKnown'
  BY NoneAssumption DEF IInv, TypeOK, UnderOwnId, OrphansAreKnown, LetGo, Kill
<1>. QED BY <1>1, <1>2, <1>3 DEF IInv

LEMMA ReapKeeps ==
    ASSUME IInv, NEW c \in Create, Reap(c)
    PROVE  IInv'
<1>1. TypeOK' /\ UnderOwnId' /\ TellersFollow'
  BY NoneAssumption DEF IInv, TypeOK, UnderOwnId, TellersFollow, Reap
<1>2. EndsFollow'
  BY NoneAssumption DEF IInv, TypeOK, UnderOwnId, EndsFollow, Reap
<1>3. OrphansAreKnown'
  BY NoneAssumption DEF IInv, TypeOK, UnderOwnId, EndsFollow, OrphansAreKnown, LetGo, Reap
<1>. QED BY <1>1, <1>2, <1>3 DEF IInv

LEMMA NextIInv == IInv /\ [Next]_vars => IInv'
<1>. SUFFICES ASSUME IInv, [Next]_vars PROVE IInv'
  OBVIOUS
<1>1. CASE UNCHANGED vars
  BY <1>1 DEF IInv, TypeOK, UnderOwnId, TellersFollow, EndsFollow, OrphansAreKnown, LetGo, vars
<1>2. ASSUME NEW c \in Create,
             \/ PtyCreate(c) \/ Spawn(c) \/ PipesFail(c) \/ Insert(c)
             \/ ShellExits(c) \/ CloseKills(c) \/ CloseReturns(c) \/ ShellWrites(c)
             \/ Gather(c) \/ EmitOutput(c) \/ StreamEnds(c) \/ EmitExit(c) \/ Reap(c)
      PROVE  IInv'
  BY <1>2, QuietKeeps, InsertKeeps, ClosesKeep, ReapKeeps
<1>3. ASSUME NEW i \in Id, Kill(i) PROVE IInv'
  BY <1>3, KillKeeps
<1>. QED BY <1>1, <1>2, <1>3 DEF Next

\* Every reachable state satisfies the strengthened invariant.
THEOREM TerminalsIInv == Spec => []IInv
<1>. QED BY InitIInv, NextIInv, PTL DEF Spec

\* The state stays within its types.
THEOREM TerminalsTyped == Spec => []TypeOK
<1>1. IInv => TypeOK
  BY DEF IInv
<1>. QED BY <1>1, TerminalsIInv, PTL

\* A shell that runs is a terminal, about to become one or being closed,
\* whatever creates and kills collide, or it was let go: its create failed after
\* the spawn, its close returned blind, or its stream ended before it did.
THEOREM ShellsAccountedFor == Spec => []OrphansAreKnown
<1>1. IInv => OrphansAreKnown
  BY DEF IInv
<1>. QED BY <1>1, TerminalsIInv, PTL

\* What one step may begin to close: the shell of a refused call, the one a
\* kill of its id takes out of the map, or one whose wait the gate saw fail.
LEMMA StepClosesItsOwn ==
    ASSUME IInv, [Next]_vars, NEW d \in alive, closing[d] = "none", closing'[d] # "none"
    PROVE  \/ call[d] = "spawned"
           \/ sessions[id[d]] = d /\ sessions'[id[d]] = None
           \/ d \in misread'
<1>0. d \in Create
  BY DEF IInv, TypeOK
<1>1. CASE UNCHANGED vars
  BY <1>1 DEF vars
<1>2. ASSUME NEW c \in Create, Insert(c)
      PROVE  call[d] = "spawned" \/ d \in misread'
  <2>1. PICK fails \in BOOLEAN :
          \/ closing' = [closing EXCEPT ![c] = "polite"]
          \/ Admits(id[c], fails) /\ GoesIn(c)
    BY <1>2 DEF Insert
  <2>2. CASE closing' = [closing EXCEPT ![c] = "polite"]
    BY <1>0, <1>2, <2>2 DEF Insert, IInv, TypeOK
  <2>3. CASE Admits(id[c], fails) /\ GoesIn(c)
    <3>1. sessions[id[c]] = d /\ d # None
      BY <1>0, <2>3, NoneAssumption DEF GoesIn, IInv, TypeOK
    <3>. QED BY <2>3, <3>1 DEF Admits, Occupied
  <2>. QED BY <2>1, <2>2, <2>3
<1>3. ASSUME NEW c \in Create,
             \/ PtyCreate(c) \/ Spawn(c) \/ PipesFail(c) \/ ShellExits(c) \/ ShellWrites(c)
             \/ Gather(c) \/ EmitOutput(c) \/ StreamEnds(c) \/ EmitExit(c) \/ Reap(c)
      PROVE  FALSE
  BY <1>3 DEF PtyCreate, Spawn, PipesFail, ShellExits, ShellWrites, Gather, EmitOutput, StreamEnds,
     EmitExit, Reap
<1>4. ASSUME NEW c \in Create, CloseKills(c) \/ CloseReturns(c)
      PROVE  FALSE
  BY <1>0, <1>4 DEF CloseKills, CloseReturns, IInv, TypeOK
<1>5. ASSUME NEW i \in Id, Kill(i)
      PROVE  sessions[id[d]] = d /\ sessions'[id[d]] = None
  BY <1>0, <1>5 DEF Kill, IInv, TypeOK, UnderOwnId
<1>. QED BY <1>1, <1>2, <1>3, <1>4, <1>5 DEF Next

\* A page that creates a terminal under an id in use gets an error; the shell
\* that has the id is closed only by a kill, or if the gate's wait for it fails.
THEOREM CollisionHarmless == Spec => CollisionKillsNobody
<1>1. IInv /\ [Next]_vars =>
        [\A c \in alive :
           closing[c] = "none" /\ closing'[c] # "none" =>
             \/ call[c] = "spawned"
             \/ sessions[id[c]] = c /\ sessions'[id[c]] = None
             \/ c \in misread']_vars
  BY StepClosesItsOwn
<1>. QED BY <1>1, TerminalsIInv, PTL DEF Spec, CollisionKillsNobody

=============================================================================
