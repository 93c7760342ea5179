------------------------- MODULE HubTunnels_proofs -------------------------
(***************************************************************************)
(* Proofs about HubTunnels, for every number of PCs and connections and    *)
(* every limit the configuration may set.                                  *)
(***************************************************************************)
EXTENDS HubTunnels, FiniteSetTheorems, TLAPS

-----------------------------------------------------------------------------
(* Type correctness *)

LEMMA CarriedType ==
    ASSUME NEW sum \in 0..BytesPerDay + 1, NEW n \in Nat
    PROVE  Carried(sum, n) \in 0..BytesPerDay + 1
BY LimitAssumption DEF Carried

\* What is left on a day is a part of the day's allowance, and so is what a
\* spend takes of it.
LEMMA LeftType ==
    ASSUME TypeOK, NEW c \in Conn, NEW d \in 0..MaxDay, NEW n \in 1..MaxFrame
    PROVE  /\ LeftOn(c, d) \in 0..BytesPerDay
           /\ Taken(c, d, n) \in 0..LeftOn(c, d)
<1>1. LeftOn(c, d) \in 0..BytesPerDay
  BY LimitAssumption DEF TypeOK, Budget, LeftOn
<1> QED
  BY <1>1 DEF Taken

\* A spender's day is today, or one on which it was counted as late.
LEMMA DayReadType ==
    ASSUME TypeOK, NEW c \in Conn, NEW d \in DayRead(c)
    PROVE  d \in 0..MaxDay /\ (d # today => late[c][d] - 1 \in 0..MaxLate)
BY LimitAssumption DEF TypeOK, DayRead

LEMMA SpendType ==
    ASSUME TypeOK, NEW c \in Conn, NEW d \in DayRead(c),
           NEW n \in 1..MaxFrame, SpendOnDay(c, d, n)
    PROVE  /\ budget' \in [Conn -> Budget]
           /\ late' \in [Conn -> [0..MaxDay -> 0..MaxLate]]
           /\ relayed' \in [Conn -> Nat]
           /\ strays' \in [Conn -> Nat]
           /\ linkTotal' \in [Uuid -> 0..BytesPerDay + 1]
<1> DEFINE left == LeftOn(c, d)
           taken == Taken(c, d, n)
<1>1. /\ d \in 0..MaxDay
      /\ d # today => late[c][d] - 1 \in 0..MaxLate
  BY DayReadType
<1>2. left \in 0..BytesPerDay /\ taken \in 0..left
  BY <1>1, LeftType
<1>3. CASE BytesPerDay = 0
  BY <1>3 DEF SpendOnDay, TypeOK
<1>4. CASE BytesPerDay # 0
  <2>1. [day |-> d, left |-> left - taken] \in Budget
    BY <1>1, <1>2, LimitAssumption DEF Budget
  <2>2. /\ budget' = [budget EXCEPT ![c] = [day |-> d, left |-> left - taken]]
        /\ Account(c, d, taken)
    BY <1>4 DEF SpendOnDay
  <2>3. budget' \in [Conn -> Budget]
    BY <2>1, <2>2 DEF TypeOK
  <2>4. CASE d = today
    <3>1. /\ relayed' = [relayed EXCEPT ![c] = @ + taken]
          /\ linkTotal' = [linkTotal EXCEPT ![uuid[c]] = Carried(@, taken)]
          /\ UNCHANGED <<late, strays>>
      BY <2>2, <2>4 DEF Account
    <3>2. /\ relayed[c] + taken \in Nat
          /\ uuid[c] \in Uuid => Carried(linkTotal[uuid[c]], taken) \in 0..BytesPerDay + 1
      BY <1>2, CarriedType DEF TypeOK
    <3> QED
      BY <2>3, <3>1, <3>2 DEF TypeOK
  <2>5. CASE d # today
    <3>1. /\ late' = [late EXCEPT ![c][d] = @ - 1]
          /\ strays' = [strays EXCEPT ![c] = @ + 1]
          /\ UNCHANGED <<relayed, linkTotal>>
      BY <2>2, <2>5 DEF Account
    <3>2. late' \in [Conn -> [0..MaxDay -> 0..MaxLate]]
      BY <1>1, <2>5, <3>1 DEF TypeOK
    <3> QED
      BY <2>3, <3>1, <3>2 DEF TypeOK
  <2> QED
    BY <2>4, <2>5
<1> QED
  BY <1>3, <1>4

\* The types in two parts: what the spends write, and the rest.
BytesTyped ==
    /\ budget \in [Conn -> Budget]
    /\ today \in 0..MaxDay
    /\ late \in [Conn -> [0..MaxDay -> 0..MaxLate]]
    /\ relayed \in [Conn -> Nat]
    /\ strays \in [Conn -> Nat]
    /\ linkTotal \in [Uuid -> 0..BytesPerDay + 1]

RestTyped ==
    /\ tunnels \in [Uuid -> Conn \cup {None}]
    /\ pc \in [Conn -> Phase]
    /\ uuid \in [Conn -> Uuid \cup {None}]
    /\ displaced \in [Conn -> Conn \cup {None}]
    /\ replaced \in [Conn -> BOOLEAN]
    /\ killed \in [Conn -> BOOLEAN]
    /\ missed \in [Conn -> 0..Misses]
    /\ silent \in [Conn -> BOOLEAN]
    /\ file \in SUBSET Uuid
    /\ held \in SUBSET (SUBSET Uuid)
    /\ blocklist \in SUBSET Uuid
    /\ tick \in {"rest", "look"}
    /\ doomed \in SUBSET Conn

LEMMA TypeSplit == TypeOK <=> BytesTyped /\ RestTyped
BY DEF TypeOK, BytesTyped, RestTyped

\* What makes the types inductive: a task past its handshake has a uuid, and
\* only a task on its way out has missed its last heartbeat.
TaskOK(c) ==
    /\ pc[c] # "idle" => uuid[c] \in Uuid
    /\ pc[c] # "leaving" => missed[c] < Misses

TaskInv == TypeOK /\ \A c \in Conn : TaskOK(c)

LEMMA BytesStep == TaskInv /\ [Next]_vars => BytesTyped'
<1> SUFFICES ASSUME TaskInv, [Next]_vars PROVE BytesTyped'
  OBVIOUS
<1>0. TypeOK /\ BytesTyped /\ RestTyped
  BY TypeSplit DEF TaskInv
<1> USE LimitAssumption DEF BytesTyped
<1>1. ASSUME NEW c \in Conn, NEW u \in Uuid, Handshake(c, u) PROVE BytesTyped'
  BY <1>0, <1>1 DEF Handshake
<1>2. ASSUME NEW c \in Conn, BuildTunnel(c) PROVE BytesTyped'
  <2>1. [day |-> today, left |-> BytesPerDay] \in Budget
    BY <1>0 DEF Budget
  <2>2. tunnels[uuid[c]] # None => budget[tunnels[uuid[c]]] \in Budget
    <3>1. uuid[c] \in Uuid
      BY <1>0, <1>2 DEF TaskInv, TaskOK, BuildTunnel
    <3> QED
      BY <1>0, <3>1 DEF RestTyped
  <2>3. PICK b \in Budget : budget' = [budget EXCEPT ![c] = b]
    BY <1>2, <2>1, <2>2 DEF BuildTunnel
  <2> QED
    BY <1>0, <1>2, <2>3 DEF BuildTunnel
<1>3. ASSUME NEW c \in Conn, NEW d \in 0..MaxDay, NEW n \in 1..MaxFrame,
             RouteFrame(c, d, n) \/ BrowserSpends(c, d, n)
      PROVE  BytesTyped'
  <2>1. d \in DayRead(c) /\ SpendOnDay(c, d, n) /\ today' = today
    BY <1>3 DEF RouteFrame, BrowserSpends
  <2> QED
    BY <1>0, <2>1, SpendType
<1>4. ASSUME NEW c \in Conn, Unregister(c) PROVE BytesTyped'
  <2>1. NobodyLate \in [0..MaxDay -> 0..MaxLate]
    BY DEF NobodyLate
  <2> QED
    BY <1>0, <1>4, <2>1 DEF Unregister
<1>5. CASE NextDay
  <2>1. PICK n \in [Conn -> 0..MaxLate] :
          late' = [c \in Conn |-> [late[c] EXCEPT ![today] = n[c]]]
    BY <1>5 DEF NextDay
  <2>2. late' \in [Conn -> [0..MaxDay -> 0..MaxLate]]
    BY <1>0, <2>1
  <2>3. /\ today < MaxDay /\ today' = today + 1 /\ budget' = budget
        /\ relayed' = [c \in Conn |-> 0] /\ strays' = [c \in Conn |-> 0]
        /\ linkTotal' = [u \in Uuid |-> 0]
    BY <1>5 DEF NextDay
  <2>4. 0 \in 0..BytesPerDay + 1 /\ today' \in 0..MaxDay
    BY <1>0, <2>3
  <2> QED
    BY <1>0, <2>2, <2>3, <2>4
<1>6. CASE UNCHANGED bytes
  BY <1>0, <1>6 DEF bytes
<1> QED
  BY <1>1, <1>2, <1>3, <1>4, <1>5, <1>6
     DEF Next, Step, vars, RefreshFirst, CheckBlocklist, Register, Displace, SendReady,
         Hear, StreamEnd, Beat, HearKill, Kill, Vanish, TickRefresh, Enforce,
         EditBlocklist

\* Every step keeps every variable in its type.
LEMMA TaskStep == TaskInv /\ [Next]_vars => TaskInv'
<1> SUFFICES ASSUME TaskInv, [Next]_vars PROVE TaskInv'
  OBVIOUS
<1> DEFINE Kept == RestTyped /\ \A c \in Conn : TaskOK(c)
<1> SUFFICES Kept'
  <2>1. BytesTyped'
    BY BytesStep
  <2>2. TypeOK' <=> BytesTyped' /\ RestTyped'
    BY DEF TypeOK, BytesTyped, RestTyped
  <2> QED
    BY <2>1, <2>2 DEF TaskInv
<1>0. Kept
  BY TypeSplit DEF TaskInv
<1> USE NoneAssumption, LimitAssumption
<1> USE DEF RestTyped, TaskOK, Phase, GoOn, Return, registry, blocking
<1>1. ASSUME NEW c \in Conn, NEW u \in Uuid, Handshake(c, u) PROVE Kept'
  BY <1>0, <1>1 DEF Handshake, Unreferenced
<1>2. ASSUME NEW c \in Conn, NEW list \in SUBSET Uuid, RefreshFirst(c, list) PROVE Kept'
  BY <1>0, <1>2 DEF RefreshFirst, RefreshBlocklist
<1>3. ASSUME NEW c \in Conn, CheckBlocklist(c) PROVE Kept'
  <2>1. /\ pc[c] = "refreshed" /\ UNCHANGED <<registry, killed, blocking>>
        /\ Return(c) \/ GoOn(c, "checked")
    BY <1>3 DEF CheckBlocklist
  <2>2. CASE Return(c)
    BY <1>0, <2>1, <2>2
  <2>3. CASE GoOn(c, "checked")
    BY <1>0, <2>1, <2>3
  <2> QED
    BY <2>1, <2>2, <2>3
<1>4. ASSUME NEW c \in Conn, BuildTunnel(c) PROVE Kept'
  BY <1>0, <1>4 DEF BuildTunnel
<1>5. ASSUME NEW c \in Conn, Register(c) PROVE Kept'
  <2>1. CASE AtCapacity(uuid[c])
    <3>1. Return(c) /\ UNCHANGED <<registry, killed, blocking>>
      BY <1>5, <2>1 DEF Register
    <3> QED
      BY <1>0, <3>1
  <2>2. CASE ~AtCapacity(uuid[c])
    BY <1>0, <1>5, <2>2 DEF Register
  <2> QED
    BY <2>1, <2>2
<1>6. ASSUME NEW c \in Conn, Displace(c) PROVE Kept'
  BY <1>0, <1>6 DEF Displace
<1>7. ASSUME NEW c \in Conn, SendReady(c) PROVE Kept'
  BY <1>0, <1>7 DEF SendReady
<1>8. ASSUME NEW c \in Conn, Hear(c) PROVE Kept'
  BY <1>0, <1>8 DEF Hear
<1>9. ASSUME NEW c \in Conn, NEW d \in 0..MaxDay, NEW n \in 1..MaxFrame, RouteFrame(c, d, n)
      PROVE  Kept'
  <2>1. PICK next \in {"pump", "leaving"} : pc' = [pc EXCEPT ![c] = next]
    BY <1>9 DEF RouteFrame
  <2>2. /\ missed' = [missed EXCEPT ![c] = 0]
        /\ pc[c] = "pump"
        /\ UNCHANGED <<registry, uuid, killed, silent, blocking>>
    BY <1>9 DEF RouteFrame
  <2> QED
    BY <1>0, <2>1, <2>2
<1>10. ASSUME NEW c \in Conn, NEW d \in 0..MaxDay, NEW n \in 1..MaxFrame,
              BrowserSpends(c, d, n)
       PROVE  Kept'
  <2>1. UNCHANGED <<registry, pc, uuid, killed, missed, silent, blocking>>
    BY <1>10 DEF BrowserSpends
  <2> QED
    BY <1>0, <2>1
<1>11. ASSUME NEW c \in Conn, StreamEnd(c) PROVE Kept'
  BY <1>0, <1>11 DEF StreamEnd
<1>12. ASSUME NEW c \in Conn, Beat(c) PROVE Kept'
  <2>1. missed[c] < Misses /\ missed[c] \in Nat
    BY <1>0, <1>12 DEF Beat
  <2>2. missed' \in [Conn -> 0..Misses]
    BY <1>0, <1>12, <2>1 DEF Beat
  <2> QED
    BY <1>0, <1>12, <2>1, <2>2 DEF Beat
<1>13. ASSUME NEW c \in Conn, HearKill(c) PROVE Kept'
  BY <1>0, <1>13 DEF HearKill
<1>14. ASSUME NEW c \in Conn, Unregister(c) PROVE Kept'
  BY <1>0, <1>14 DEF Unregister
<1>15. ASSUME NEW c \in Conn, Kill(c) PROVE Kept'
  BY <1>0, <1>15 DEF Kill
<1>16. ASSUME NEW c \in Conn, Vanish(c) PROVE Kept'
  BY <1>0, <1>16 DEF Vanish
<1>17. ASSUME NEW list \in SUBSET Uuid, TickRefresh(list) PROVE Kept'
  BY <1>0, <1>17 DEF TickRefresh, RefreshBlocklist
<1>18. CASE Enforce
  BY <1>0, <1>18 DEF Enforce, Registered
<1>19. ASSUME NEW list \in SUBSET Listable, EditBlocklist(list) PROVE Kept'
  <2>1. list \in SUBSET Uuid /\ held' \in SUBSET (SUBSET Uuid)
    BY <1>0, <1>19, ListableAssumption DEF EditBlocklist
  <2> QED
    BY <1>0, <1>19, <2>1 DEF EditBlocklist
<1>20. CASE UNCHANGED <<registry, pc, uuid, killed, missed, silent, blocking>>
  BY <1>0, <1>20
<1> QED
  BY <1>1, <1>2, <1>3, <1>4, <1>5, <1>6, <1>7, <1>8, <1>9, <1>10, <1>11, <1>12,
     <1>13, <1>14, <1>15, <1>16, <1>17, <1>18, <1>19, <1>20 DEF Next, Step, NextDay, vars

LEMMA TasksCorrect == Spec => []TaskInv
<1>1. Init => TaskInv
  BY LimitAssumption DEF Init, TaskInv, TaskOK, TypeOK, Phase, Budget, NobodyLate
<1> QED
  BY <1>1, TaskStep, PTL DEF Spec

\* Every variable of the Hub's tunnel side keeps its type, whatever the
\* limits: no heartbeat count passes MISSES, no allowance is over-spent below
\* zero or refilled above the configured one.
THEOREM TypeCorrect == Spec => []TypeOK
<1>1. TaskInv => TypeOK
  BY DEF TaskInv
<1> QED
  BY <1>1, TasksCorrect, PTL

-----------------------------------------------------------------------------
(* The registry *)

\* Only a registration and an exit write the registry, only a registration
\* and its Displace write what it pushed out.
LEMMA RegistryFrame ==
    ASSUME [Next]_vars,
           \A c \in Conn : ~Register(c) /\ ~Unregister(c)
    PROVE  tunnels' = tunnels
BY DEF Next, Step, vars, registry, Handshake, RefreshFirst, CheckBlocklist, TickRefresh, BuildTunnel, Displace,
       SendReady, Hear, RouteFrame, BrowserSpends, StreamEnd, Beat, HearKill, Kill,
       Vanish, Enforce, EditBlocklist, NextDay

\* The strengthening: a tunnel pushed out is remembered by a newcomer that is
\* still on its way to T_READY.
Succession ==
    /\ RegisteredIsLive
    /\ ServingIsKnown
    /\ \A c \in Conn : displaced[c] # None => pc[c] = "admitted"

LEMMA SuccessionStep == TaskInv /\ Succession /\ [Next]_vars => Succession'
<1> SUFFICES ASSUME TaskInv, Succession, [Next]_vars PROVE Succession'
  OBVIOUS
<1> USE NoneAssumption
<1>t. RestTyped /\ \A c \in Conn : TaskOK(c)
  BY TypeSplit DEF TaskInv
<1> USE <1>t DEF RestTyped, TaskOK, Succession, RegisteredIsLive, ServingIsKnown, Owning,
            GoOn, Return, registry
\* A step that moves no task and leaves the registry alone disturbs nothing.
<1>0. ASSUME UNCHANGED <<registry, pc, uuid>> PROVE Succession'
  BY <1>0
<1>1. ASSUME NEW c \in Conn, NEW u \in Uuid, Handshake(c, u) PROVE Succession'
  BY <1>1 DEF Handshake, Unreferenced
<1>2. ASSUME NEW c \in Conn, CheckBlocklist(c) PROVE Succession'
  <2>1. pc[c] = "refreshed" /\ UNCHANGED registry /\ (Return(c) \/ GoOn(c, "checked"))
    BY <1>2 DEF CheckBlocklist
  <2> QED
    BY <2>1
<1>16. ASSUME NEW c \in Conn, NEW list \in SUBSET Uuid, RefreshFirst(c, list) PROVE Succession'
  BY <1>16 DEF RefreshFirst
<1>3. ASSUME NEW c \in Conn, BuildTunnel(c) PROVE Succession'
  BY <1>3 DEF BuildTunnel
<1>4. ASSUME NEW c \in Conn, Register(c) PROVE Succession'
  <2>1. CASE AtCapacity(uuid[c])
    <3>1. pc[c] = "built" /\ Return(c) /\ UNCHANGED registry
      BY <1>4, <2>1 DEF Register
    <3> QED
      BY <3>1
  <2>2. CASE ~AtCapacity(uuid[c])
    <3>1. /\ pc[c] = "built"
          /\ GoOn(c, "admitted")
          /\ tunnels' = [tunnels EXCEPT ![uuid[c]] = c]
          /\ displaced' = [displaced EXCEPT ![c] = tunnels[uuid[c]]]
          /\ UNCHANGED replaced
      BY <1>4, <2>2 DEF Register
    <3>2. RegisteredIsLive'
      BY <3>1
    <3>3. ServingIsKnown'
      <4> SUFFICES ASSUME NEW d \in Conn, pc'[d] \in {"admitted", "pump"}
                   PROVE  \/ tunnels'[uuid'[d]] = d
                          \/ replaced'[d]
                          \/ \E e \in Conn : displaced'[e] = d
        OBVIOUS
      <4>1. CASE d = c
        BY <3>1, <4>1
      <4>2. CASE d # c /\ tunnels[uuid[d]] = d
        BY <3>1, <4>2
      <4>3. CASE d # c /\ \E e \in Conn : displaced[e] = d
        BY <3>1, <4>3
      <4> QED
        BY <3>1, <4>1, <4>2, <4>3
    <3>4. \A d \in Conn : displaced'[d] # None => pc'[d] = "admitted"
      BY <3>1
    <3> QED
      BY <3>2, <3>3, <3>4
  <2> QED
    BY <2>1, <2>2
<1>5. ASSUME NEW c \in Conn, Displace(c) PROVE Succession'
  BY <1>5 DEF Displace
<1>6. ASSUME NEW c \in Conn, SendReady(c) PROVE Succession'
  BY <1>6 DEF SendReady
<1>7. ASSUME NEW c \in Conn, NEW next \in {"pump", "leaving"}, pc[c] = "pump",
             pc' = [pc EXCEPT ![c] = next], UNCHANGED <<registry, uuid>>
      PROVE  Succession'
  BY <1>7
<1>8. ASSUME NEW c \in Conn, NEW d \in 0..MaxDay, NEW n \in 1..MaxFrame, RouteFrame(c, d, n)
      PROVE  Succession'
  <2>1. PICK next \in {"pump", "leaving"} : pc' = [pc EXCEPT ![c] = next]
    BY <1>8 DEF RouteFrame
  <2>2. pc[c] = "pump" /\ UNCHANGED <<registry, uuid>>
    BY <1>8 DEF RouteFrame
  <2> QED
    BY <1>7, <2>1, <2>2
<1>9. ASSUME NEW c \in Conn, StreamEnd(c) \/ Beat(c) \/ HearKill(c) PROVE Succession'
  BY <1>7, <1>9 DEF StreamEnd, Beat, HearKill
<1>10. ASSUME NEW c \in Conn, Unregister(c) PROVE Succession'
  BY <1>10 DEF Unregister
<1>11. ASSUME NEW c \in Conn, NEW d \in 0..MaxDay, NEW n \in 1..MaxFrame,
              BrowserSpends(c, d, n)
       PROVE  Succession'
  BY <1>0, <1>11 DEF BrowserSpends
<1>12. ASSUME NEW c \in Conn, Hear(c) \/ Kill(c) \/ Vanish(c) PROVE Succession'
  BY <1>0, <1>12 DEF Hear, Kill, Vanish
<1>13. ASSUME NEW list \in SUBSET Uuid, Enforce \/ TickRefresh(list) PROVE Succession'
  BY <1>0, <1>13 DEF Enforce, TickRefresh
<1>14. ASSUME NEW list \in SUBSET Listable, EditBlocklist(list) PROVE Succession'
  BY <1>0, <1>14 DEF EditBlocklist
<1>15. CASE NextDay \/ UNCHANGED vars
  BY <1>0, <1>15 DEF NextDay, vars
<1> QED
  BY <1>1, <1>2, <1>3, <1>4, <1>5, <1>6, <1>8, <1>9, <1>10, <1>11, <1>12, <1>13,
     <1>14, <1>15, <1>16 DEF Next, Step

LEMMA SuccessionCorrect == Spec => []Succession
<1>1. Init => Succession
  BY NoneAssumption DEF Init, Succession, RegisteredIsLive, ServingIsKnown
<1> QED
  BY <1>1, TasksCorrect, SuccessionStep, PTL DEF Spec

\* No exit path of a tunnel leaves a registration behind, and the registry
\* names a connection that proved it owns the uuid.
THEOREM RegistryIsLive == Spec => []RegisteredIsLive
<1>1. Succession => RegisteredIsLive
  BY DEF Succession
<1> QED
  BY <1>1, SuccessionCorrect, PTL

\* A tunnel still serving its PC is the registered one or hears T_REPLACED:
\* an old tunnel's exit never takes its successor off the table.
THEOREM ServingTunnelsAreKnown == Spec => []ServingIsKnown
<1>1. Succession => ServingIsKnown
  BY DEF Succession
<1> QED
  BY <1>1, SuccessionCorrect, PTL

\* A PC leaves the registry only by the exit of its own registered tunnel.
THEOREM OfflineOnlyByOwnExit == Spec => OfflineByOwnExit
<1> DEFINE Own == \A u \in Uuid : tunnels[u] # None /\ tunnels'[u] = None =>
                     pc[tunnels[u]] = "leaving" /\ pc'[tunnels[u]] = "idle"
<1>1. TaskInv /\ [Next]_vars => [Own]_vars
  <2> SUFFICES ASSUME TaskInv, [Next]_vars PROVE Own
    OBVIOUS
  <2> USE NoneAssumption DEF TaskInv, TaskOK, TypeOK
  <2>1. ASSUME NEW c \in Conn, Register(c) PROVE Own
    BY <2>1 DEF Register
  <2>2. ASSUME NEW c \in Conn, Unregister(c) PROVE Own
    BY <2>2 DEF Unregister, Return
  <2> QED
    BY <2>1, <2>2, RegistryFrame
<1> QED
  BY <1>1, TasksCorrect, PTL DEF Spec, OfflineByOwnExit

-----------------------------------------------------------------------------
(* Capacity *)

LEMMA RegisteredFinite == IsFiniteSet(Registered) /\ Cardinality(Registered) \in Nat
<1>1. Registered \subseteq Uuid
  BY DEF Registered
<1> QED
  BY <1>1, UuidAssumption, FS_Subset, FS_CardinalityType

\* The check and the insert are one step, so the ceiling cannot be overshot.
LEMMA RegisterWithinLimit ==
    ASSUME TaskInv, CapacityRespected, NEW c \in Conn, Register(c)
    PROVE  CapacityRespected'
<1> DEFINE u == uuid[c]
<1> USE DEF TaskInv, TaskOK, TypeOK
<1>1. CASE AtCapacity(u)
  <2>1. Registered' = Registered
    BY <1>1 DEF Register, Registered
  <2> QED
    BY <2>1 DEF CapacityRespected
<1>2. CASE ~AtCapacity(u)
  <2>1. u \in Uuid /\ tunnels' = [tunnels EXCEPT ![u] = c]
    BY <1>2 DEF Register
  <2>2. Registered' = Registered \cup {u}
    BY <2>1, NoneAssumption DEF Registered
  <2>3. CASE tunnels[u] # None
    <3>1. Registered' = Registered
      BY <2>1, <2>2, <2>3 DEF Registered
    <3> QED
      BY <3>1 DEF CapacityRespected
  <2>4. CASE tunnels[u] = None
    <3>1. u \notin Registered
      BY <2>4 DEF Registered
    <3>2. Cardinality(Registered) < MaxTunnels
      BY <1>2, <2>4, RegisteredFinite, LimitAssumption DEF AtCapacity
    <3>3. Cardinality(Registered \cup {u}) = Cardinality(Registered) + 1
      BY <3>1, RegisteredFinite, FS_AddElement
    <3> QED
      BY <2>2, <3>2, <3>3, RegisteredFinite, LimitAssumption DEF CapacityRespected
  <2> QED
    BY <2>3, <2>4
<1> QED
  BY <1>1, <1>2

LEMMA CapacityStep == TaskInv /\ CapacityRespected /\ [Next]_vars => CapacityRespected'
<1> SUFFICES ASSUME TaskInv, CapacityRespected, [Next]_vars PROVE CapacityRespected'
  OBVIOUS
<1>1. ASSUME NEW c \in Conn, Register(c) PROVE CapacityRespected'
  BY <1>1, RegisterWithinLimit
<1>2. ASSUME NEW c \in Conn, Unregister(c) PROVE CapacityRespected'
  <2>1. Registered' \subseteq Registered
    BY <1>2 DEF Unregister, Registered, TaskInv, TypeOK
  <2>2. Cardinality(Registered') <= Cardinality(Registered) /\ Cardinality(Registered') \in Nat
    BY <2>1, RegisteredFinite, FS_Subset, FS_CardinalityType
  <2> QED
    BY <2>2, RegisteredFinite, LimitAssumption DEF CapacityRespected
<1>3. CASE tunnels' = tunnels
  <2>1. Registered' = Registered
    BY <1>3 DEF Registered
  <2> QED
    BY <2>1 DEF CapacityRespected
<1> QED
  BY <1>1, <1>2, <1>3, RegistryFrame

\* However many handshakes race, the PCs online never outnumber max_tunnels.
THEOREM Capacity == Spec => []CapacityRespected
<1>1. Init => CapacityRespected
  <2> SUFFICES ASSUME Init PROVE CapacityRespected
    OBVIOUS
  <2>1. Registered = {}
    BY DEF Init, Registered
  <2> QED
    BY <2>1, FS_EmptySet, LimitAssumption DEF CapacityRespected
<1> QED
  BY <1>1, TasksCorrect, CapacityStep, PTL DEF Spec

-----------------------------------------------------------------------------
(* The daily budget of one tunnel *)

\* What a tunnel carried on today's account and what it may still carry add up
\* to one allowance and one for each stray spend; a budget that stands on
\* another day has carried no more than the strays are worth.
Covered(c) ==
    /\ pc[c] \in {"verified", "refreshed", "checked", "built"} => relayed[c] = 0
    /\ budget[c].day <= today
    /\ budget[c].day = today =>
          relayed[c] + budget[c].left <= BytesPerDay * (1 + strays[c])
    /\ budget[c].day # today => relayed[c] <= BytesPerDay * strays[c]

\* A spender that is late read a day that is over.
LateIsPast == \A c \in Conn, d \in 0..MaxDay : late[c][d] > 0 => d < today

BudgetInv == LateIsPast /\ \A c \in Conn : Covered(c)

LEMMA BudgetNumbers ==
    ASSUME TypeOK, NEW c \in Conn
    PROVE  /\ budget[c].day \in Nat /\ today \in Nat
           /\ budget[c].left \in 0..BytesPerDay
           /\ relayed[c] \in Nat /\ strays[c] \in Nat
           /\ BytesPerDay * strays[c] \in Nat
           /\ BytesPerDay * (1 + strays[c]) = BytesPerDay + BytesPerDay * strays[c]
           /\ BytesPerDay * (1 + (strays[c] + 1)) =
                 BytesPerDay + BytesPerDay + BytesPerDay * strays[c]
           /\ BytesPerDay * (strays[c] + 1) = BytesPerDay + BytesPerDay * strays[c]
<1>1. /\ budget[c] \in Budget /\ today \in 0..MaxDay
      /\ relayed[c] \in Nat /\ strays[c] \in Nat
  BY DEF TypeOK
<1>2. \A b, n \in Nat : /\ b * n \in Nat
                        /\ b * (1 + n) = b + b * n
                        /\ b * (1 + (n + 1)) = b + b + b * n
                        /\ b * (n + 1) = b + b * n
  OBVIOUS
<1> QED
  BY <1>1, <1>2, LimitAssumption DEF Budget

\* What is left on a day is covered: today's by the allowances granted so far,
\* an earlier day's by the one the stray spend adds.
LEMMA LeftCovered ==
    ASSUME TypeOK, NEW c \in Conn, Covered(c), NEW d \in 0..MaxDay, d <= today
    PROVE  /\ d = today => relayed[c] + LeftOn(c, d) <= BytesPerDay * (1 + strays[c])
           /\ d # today => relayed[c] <= BytesPerDay * (strays[c] + 1)
<1> USE BudgetNumbers, LimitAssumption DEF Covered
<1>1. CASE budget[c].day = today
  BY <1>1 DEF LeftOn
<1>2. CASE budget[c].day # today
  BY <1>2 DEF LeftOn
<1> QED
  BY <1>1, <1>2

LEMMA SpendStep ==
    ASSUME TaskInv, BudgetInv, NEW c \in Conn, pc[c] \in Owning,
           NEW d \in DayRead(c), NEW n \in 1..MaxFrame, SpendOnDay(c, d, n), today' = today,
           \/ UNCHANGED pc
           \/ \E next \in {"pump", "leaving"} : pc' = [pc EXCEPT ![c] = next]
    PROVE  BudgetInv'
<1> USE LimitAssumption DEF TaskInv, TypeOK
<1> DEFINE left == LeftOn(c, d)
           taken == Taken(c, d, n)
           early == {"verified", "refreshed", "checked", "built"}
<1>1. d \in 0..MaxDay /\ d <= today
  BY DayReadType DEF DayRead, BudgetInv, LateIsPast
<1>2. /\ left \in 0..BytesPerDay /\ taken \in 0..left
      /\ d = today => relayed[c] + left <= BytesPerDay * (1 + strays[c])
      /\ d # today => relayed[c] <= BytesPerDay * (strays[c] + 1)
  BY <1>1, LeftCovered, LeftType DEF BudgetInv
<1>3. \A e \in Conn : pc'[e] \in early => pc'[e] = pc[e] /\ e # c
  BY DEF Owning
<1>4. CASE BytesPerDay = 0
  BY <1>3, <1>4 DEF SpendOnDay, BudgetInv, Covered, LateIsPast
<1>5. CASE BytesPerDay # 0
  <2>1. /\ budget' = [budget EXCEPT ![c] = [day |-> d, left |-> left - taken]]
        /\ Account(c, d, taken)
    BY <1>5 DEF SpendOnDay
  <2>2. budget'[c] = [day |-> d, left |-> left - taken]
    BY <2>1
  <2>3. /\ d = today => /\ relayed' = [relayed EXCEPT ![c] = @ + taken]
                        /\ UNCHANGED <<late, strays>>
        /\ d # today => /\ late' = [late EXCEPT ![c][d] = @ - 1]
                        /\ strays' = [strays EXCEPT ![c] = @ + 1]
                        /\ UNCHANGED relayed
    BY <2>1 DEF Account
  <2>4. \A e \in Conn \ {c} :
          budget'[e] = budget[e] /\ relayed'[e] = relayed[e] /\ strays'[e] = strays[e]
    BY <2>1, <2>3
  <2>5. \A e \in Conn \ {c} : Covered(e)'
    BY <1>3, <2>4 DEF BudgetInv, Covered
  <2>6. Covered(c)'
    <3>1. pc'[c] \notin early
      BY <1>3
    <3>2. CASE d = today
      <4>1. relayed'[c] = relayed[c] + taken /\ strays'[c] = strays[c]
        BY <2>3, <3>2
      <4>2. budget'[c].day = today' /\ budget'[c].left = left - taken
        BY <2>2, <3>2
      <4>3. relayed[c] \in Nat
        OBVIOUS
      <4>4. relayed'[c] + budget'[c].left = relayed[c] + left
        BY <1>2, <4>1, <4>2, <4>3
      <4>5. /\ budget'[c].day <= today'
            /\ relayed'[c] + budget'[c].left <= BytesPerDay * (1 + strays'[c])
        BY <1>2, <3>2, <4>1, <4>2, <4>4
      <4> QED
        BY <3>1, <4>2, <4>5 DEF Covered
    <3>3. CASE d # today
      <4>1. relayed'[c] = relayed[c] /\ strays'[c] = strays[c] + 1
        BY <2>3, <3>3
      <4>2. budget'[c].day = d /\ d # today'
        BY <2>2, <3>3
      <4>3. relayed'[c] <= BytesPerDay * strays'[c]
        BY <1>2, <3>3, <4>1
      <4> QED
        BY <1>1, <3>1, <4>2, <4>3 DEF Covered
    <3> QED
      BY <3>2, <3>3
  <2>7. LateIsPast'
    <3>1. CASE d = today
      BY <2>3, <3>1 DEF BudgetInv, LateIsPast
    <3>2. CASE d # today
      <4> SUFFICES ASSUME NEW e \in Conn, NEW f \in 0..MaxDay, late'[e][f] > 0
                   PROVE  f < today
        BY DEF LateIsPast
      <4>1. late[e][f] > 0
        <5>1. late' = [late EXCEPT ![c][d] = late[c][d] - 1]
          BY <2>3, <3>2
        <5>2. CASE e = c /\ f = d
          <6>1. late[c][d] \in Nat /\ late'[e][f] = late[c][d] - 1
            BY <1>1, <5>1, <5>2
          <6> QED
            BY <5>2, <6>1
        <5>3. CASE ~(e = c /\ f = d)
          BY <1>1, <5>1, <5>3
        <5> QED
          BY <5>2, <5>3
      <4> QED
        BY <4>1 DEF BudgetInv, LateIsPast
    <3> QED
      BY <3>1, <3>2
  <2> QED
    BY <2>5, <2>6, <2>7 DEF BudgetInv
<1> QED
  BY <1>4, <1>5

\* Midnight: every budget stands on another day, and whoever is late now read
\* the day that ended.
LEMMA NextDayStep == TaskInv /\ BudgetInv /\ NextDay => BudgetInv'
<1> SUFFICES ASSUME TaskInv, BudgetInv, NextDay PROVE BudgetInv'
  OBVIOUS
<1> USE LimitAssumption DEF TaskInv, TypeOK, BudgetInv
<1>1. PICK n \in [Conn -> 0..MaxLate] :
        late' = [c \in Conn |-> [late[c] EXCEPT ![today] = n[c]]]
  BY DEF NextDay
<1>2. /\ today' = today + 1 /\ UNCHANGED <<pc, budget>>
      /\ relayed' = [c \in Conn |-> 0] /\ strays' = [c \in Conn |-> 0]
  BY DEF NextDay
<1>3. LateIsPast'
  <2> SUFFICES ASSUME NEW c \in Conn, NEW d \in 0..MaxDay, late'[c][d] > 0
               PROVE  d < today + 1
    BY <1>2 DEF LateIsPast
  <2>1. CASE d = today
    BY <2>1
  <2>2. CASE d # today
    BY <1>1, <2>2 DEF LateIsPast
  <2> QED
    BY <2>1, <2>2
<1>4. ASSUME NEW c \in Conn PROVE Covered(c)'
  <2>1. relayed'[c] = 0 /\ strays'[c] = 0 /\ budget'[c] = budget[c]
    BY <1>2
  <2>2. budget[c].day \in Nat /\ budget[c].day <= today /\ today \in Nat
    BY BudgetNumbers DEF Covered
  <2>3. budget'[c].day < today'
    BY <1>2, <2>1, <2>2
  <2>4. BytesPerDay * 0 = 0
    OBVIOUS
  <2> QED
    BY <2>1, <2>2, <2>3, <2>4, <1>2 DEF Covered
<1> QED
  BY <1>3, <1>4

LEMMA BudgetStep == TaskInv /\ BudgetInv /\ [Next]_vars => BudgetInv'
<1> SUFFICES ASSUME TaskInv, BudgetInv, [Next]_vars PROVE BudgetInv'
  OBVIOUS
<1> USE NoneAssumption, LimitAssumption
<1> USE DEF TaskInv, TaskOK, TypeOK, BudgetInv, Covered, LateIsPast, GoOn, Return, bytes
<1> DEFINE early == {"verified", "refreshed", "checked", "built"}
\* A step of a task that spends nothing and does not go back behind the
\* registration.
<1>0. ASSUME NEW c \in Conn, NEW next \in Phase, pc' = [pc EXCEPT ![c] = next],
             next \in early => relayed[c] = 0,
             UNCHANGED bytes
      PROVE  BudgetInv'
  BY <1>0
<1>1. ASSUME NEW c \in Conn, NEW u \in Uuid, Handshake(c, u) PROVE BudgetInv'
  <2>1. /\ pc' = [pc EXCEPT ![c] = "verified"]
        /\ relayed' = [relayed EXCEPT ![c] = 0]
        /\ strays' = [strays EXCEPT ![c] = 0]
        /\ UNCHANGED <<budget, today, late>>
    BY <1>1 DEF Handshake
  <2>2. Covered(c)'
    <3>1. /\ relayed'[c] = 0 /\ strays'[c] = 0
          /\ budget'[c] = budget[c] /\ today' = today
      BY <2>1
    <3>2. budget[c].day <= today /\ budget[c].left \in 0..BytesPerDay
      BY BudgetNumbers
    <3>3. BytesPerDay * 0 = 0 /\ BytesPerDay * (1 + 0) = BytesPerDay
      OBVIOUS
    <3> QED
      BY <3>1, <3>2, <3>3
  <2>3. \A d \in Conn \ {c} :
          pc'[d] = pc[d] /\ relayed'[d] = relayed[d] /\ strays'[d] = strays[d]
    BY <2>1
  <2>4. \A d \in Conn \ {c} : Covered(d)'
    BY <2>1, <2>3
  <2>5. LateIsPast'
    BY <2>1
  <2> QED
    BY <2>2, <2>4, <2>5
<1>2. ASSUME NEW c \in Conn, CheckBlocklist(c) PROVE BudgetInv'
  <2>1. pc[c] = "refreshed" /\ UNCHANGED bytes /\ (Return(c) \/ GoOn(c, "checked"))
    BY <1>2 DEF CheckBlocklist
  <2> QED
    BY <1>0, <2>1 DEF Phase
<1>13. ASSUME NEW c \in Conn, NEW list \in SUBSET Uuid, RefreshFirst(c, list) PROVE BudgetInv'
  BY <1>0, <1>13 DEF RefreshFirst, Phase
<1>3. ASSUME NEW c \in Conn, BuildTunnel(c) PROVE BudgetInv'
  <2> DEFINE old == tunnels[uuid[c]]
             b == IF old # None THEN budget[old] ELSE [day |-> today, left |-> BytesPerDay]
  <2>1. /\ pc[c] = "checked" /\ relayed[c] = 0
        /\ pc' = [pc EXCEPT ![c] = "built"]
        /\ budget' = [budget EXCEPT ![c] = b]
        /\ UNCHANGED <<today, late, relayed, strays>>
    BY <1>3 DEF BuildTunnel
  <2>2. old # None => old \in Conn
    BY <1>3 DEF BuildTunnel
  <2>3. b.day <= today /\ b.left \in 0..BytesPerDay
    <3>1. CASE old # None
      BY <2>2, <3>1 DEF Budget
    <3>2. CASE old = None
      BY <3>2
    <3> QED
      BY <3>1, <3>2
  <2>4. budget'[c] = b /\ \A d \in Conn \ {c} : budget'[d] = budget[d] /\ pc'[d] = pc[d]
    BY <2>1
  <2>5. Covered(c)'
    <3>1. /\ BytesPerDay * strays[c] \in Nat
          /\ BytesPerDay * (1 + strays[c]) = BytesPerDay + BytesPerDay * strays[c]
      BY BudgetNumbers
    <3> HIDE DEF b
    <3> QED
      BY <2>1, <2>3, <2>4, <3>1
  <2>6. \A d \in Conn \ {c} : Covered(d)'
    BY <2>1, <2>4
  <2> QED
    BY <2>1, <2>5, <2>6
<1>4. ASSUME NEW c \in Conn, Register(c) PROVE BudgetInv'
  <2>1. pc[c] = "built" /\ UNCHANGED bytes /\ (Return(c) \/ GoOn(c, "admitted"))
    BY <1>4 DEF Register
  <2> QED
    BY <1>0, <2>1 DEF Phase
<1>5. ASSUME NEW c \in Conn, NEW d \in 0..MaxDay, NEW n \in 1..MaxFrame,
             RouteFrame(c, d, n) \/ BrowserSpends(c, d, n)
      PROVE  BudgetInv'
  <2>1. pc[c] \in Owning /\ d \in DayRead(c) /\ SpendOnDay(c, d, n) /\ today' = today
    BY <1>5 DEF RouteFrame, BrowserSpends, Owning
  <2>2. \/ UNCHANGED pc
        \/ \E next \in {"pump", "leaving"} : pc' = [pc EXCEPT ![c] = next]
    BY <1>5 DEF RouteFrame, BrowserSpends
  <2> QED
    BY <2>1, <2>2, SpendStep
<1>6. ASSUME NEW c \in Conn,
             SendReady(c) \/ StreamEnd(c) \/ Beat(c) \/ HearKill(c)
      PROVE  BudgetInv'
  BY <1>0, <1>6 DEF SendReady, StreamEnd, Beat, HearKill, Phase
<1>14. ASSUME NEW c \in Conn, Unregister(c) PROVE BudgetInv'
  <2>1. /\ pc' = [pc EXCEPT ![c] = "idle"]
        /\ late' = [late EXCEPT ![c] = NobodyLate]
        /\ UNCHANGED <<budget, today, relayed, strays>>
    BY <1>14 DEF Unregister
  <2>2. \A d \in Conn : Covered(d)'
    BY <2>1
  <2>3. LateIsPast'
    BY <2>1 DEF NobodyLate
  <2> QED
    BY <2>2, <2>3
<1>7. ASSUME UNCHANGED <<pc, bytes>> PROVE BudgetInv'
  BY <1>7
<1>8. ASSUME NEW c \in Conn, Displace(c) \/ Hear(c) \/ Kill(c) \/ Vanish(c) PROVE BudgetInv'
  BY <1>7, <1>8 DEF Displace, Hear, Kill, Vanish
<1>9. ASSUME NEW list \in SUBSET Uuid, Enforce \/ TickRefresh(list) PROVE BudgetInv'
  BY <1>7, <1>9 DEF Enforce, TickRefresh
<1>10. ASSUME NEW list \in SUBSET Listable, EditBlocklist(list) PROVE BudgetInv'
  BY <1>7, <1>10 DEF EditBlocklist
<1>11. CASE NextDay
  BY <1>11, NextDayStep
<1>12. CASE UNCHANGED vars
  BY <1>7, <1>12 DEF vars
<1> QED
  BY <1>1, <1>2, <1>3, <1>4, <1>5, <1>6, <1>8, <1>9, <1>10, <1>11, <1>12, <1>13, <1>14
     DEF Next, Step

\* Midnight, a carried-over budget and concurrent spenders included, a tunnel
\* carries no more than the allowance on a day's account and one more for each
\* spend that came with yesterday's number: no other path refills a budget.
THEOREM TunnelBudgetKept == Spec => []TunnelBudget
<1>1. Init => BudgetInv
  <2> SUFFICES ASSUME Init PROVE BudgetInv
    OBVIOUS
  <2>1. \A b \in Nat : b * 0 = 0 /\ b * (1 + 0) = b
    OBVIOUS
  <2> QED
    BY <2>1, LimitAssumption DEF Init, BudgetInv, Covered, LateIsPast, NobodyLate
<1>2. TaskInv /\ BudgetInv => TunnelBudget
  <2> SUFFICES ASSUME TaskInv, BudgetInv, NEW c \in Conn
               PROVE  relayed[c] <= BytesPerDay * (1 + strays[c])
    BY DEF TunnelBudget
  <2>1. TypeOK /\ Covered(c)
    BY DEF TaskInv, BudgetInv
  <2> QED
    BY <2>1, BudgetNumbers, LimitAssumption DEF Covered
<1> QED
  BY <1>1, <1>2, TasksCorrect, BudgetStep, PTL DEF Spec

=============================================================================
