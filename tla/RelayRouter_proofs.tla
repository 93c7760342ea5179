------------------------ MODULE RelayRouter_proofs ------------------------
(***************************************************************************)
(* Proofs about RelayRouter: its types, that no connection outlives the    *)
(* registration of the instance it is bound to, that the application is    *)
(* told how many sessions it has, and that a relay is asked for or on its  *)
(* way while a connection waits for one, for any number of connections,    *)
(* instances, attach tasks, tokens and control connections.                *)
(***************************************************************************)
EXTENDS RelayRouter, TLAPS, FiniteSetTheorems

Messages == [Instance -> Seq(Message)]

\* What is served has a connection and an instance, what is connected one too.
JobsNamed == \A j \in Job : job[j].st # "none" => job[j].conn \in Conn /\ job[j].inst \in Instance
LinksNamed == \A t \in Token : link[t].st # "none" => link[t].inst \in Instance

-----------------------------------------------------------------------------
(* The helpers *)

\* A count never passes the number of connections.
LEMMA CountType ==
    ASSUME NEW kn \in SUBSET Conn, NEW bnd, NEW i
    PROVE  Count(kn, bnd, i) \in 0..Cardinality(Conn)
<1>1. Attached(kn, bnd, i) \in SUBSET Conn
  BY DEF Attached
<1>2. /\ Cardinality(Conn) \in Nat
      /\ Cardinality(Attached(kn, bnd, i)) \in Nat
      /\ Cardinality(Attached(kn, bnd, i)) <= Cardinality(Conn)
  BY <1>1, FiniteAssumption, FS_Subset, FS_CardinalityType
<1>. QED BY <1>2 DEF Count

LEMMA SessionsType ==
    ASSUME NEW n \in 0..Cardinality(Conn)
    PROVE  Sessions(n) \in Message
BY DEF Message

LEMMA EnsureType ==
    ASSUME NEW t \in Token
    PROVE  Ensure(t) \in Message
BY DEF Message

\* Writing the counts registers and unregisters nobody.
LEMMA CountedType ==
    ASSUME NEW kn \in SUBSET Conn, NEW bnd, entry \in [Instance -> Entry \cup {None}]
    PROVE  /\ Counted(kn, bnd) \in [Instance -> Entry \cup {None}]
           /\ \A i \in Instance : Counted(kn, bnd)[i] = None <=> entry[i] = None
           /\ \A i \in Instance : entry[i] # None => Counted(kn, bnd)[i] \in Entry
<1> DEFINE E(i) == [entry[i] EXCEPT !.sessions = Count(kn, bnd, i),
                                    !.idle = Count(kn, bnd, i) = 0 /\ (@ \/ entry[i].relay # None)]
<1>1. ASSUME NEW i \in Instance, entry[i] # None
      PROVE  E(i) \in Entry
  <2>1. entry[i] \in Entry
    BY <1>1
  <2>2. (Count(kn, bnd, i) = 0 /\ (entry[i].idle \/ entry[i].relay # None)) \in BOOLEAN
    OBVIOUS
  <2>3. Count(kn, bnd, i) \in 0..Cardinality(Conn)
    BY CountType
  <2>. QED BY <2>1, <2>2, <2>3 DEF Entry
<1>2. \A i \in Instance : Counted(kn, bnd)[i] = IF entry[i] = None THEN None ELSE E(i)
  BY DEF Counted
<1>3. \A i \in Instance : E(i) = None => entry[i] = None
  BY <1>1, NoneAssumption
<1>4. Counted(kn, bnd) = [i \in Instance |-> IF entry[i] = None THEN None ELSE E(i)]
  BY DEF Counted
<1> HIDE DEF E
<1>. QED BY <1>1, <1>2, <1>3, <1>4

LEMMA CountMessagesType ==
    ASSUME NEW kn \in SUBSET Conn, NEW bnd
    PROVE  CountMessages(kn, bnd) \in Messages
<1>1. ASSUME NEW i \in Instance PROVE <<Sessions(Count(kn, bnd, i))>> \in Seq(Message)
  <2>1. Sessions(Count(kn, bnd, i)) \in Message
    BY CountType, SessionsType
  <2>. QED BY <2>1
<1>2. <<>> \in Seq(Message)
  OBVIOUS
<1>. QED BY <1>1, <1>2 DEF CountMessages, Messages

LEMMA QueueType ==
    ASSUME NEW m \in Messages, ctl \in [Serial -> Seq(Message)]
    PROVE  Queue(m) \in [Serial -> Seq(Message)]
<1> DEFINE Q(s) == IF \E i \in Instance : entry[i] # None /\ entry[i].serial = s
                   THEN m[CHOOSE i \in Instance : entry[i] # None /\ entry[i].serial = s]
                   ELSE <<>>
<1>1. ASSUME NEW s \in Serial PROVE Q(s) \in Seq(Message)
  <2>1. CASE \E i \in Instance : entry[i] # None /\ entry[i].serial = s
    <3>1. (CHOOSE i \in Instance : entry[i] # None /\ entry[i].serial = s) \in Instance
      BY <2>1
    <3>. QED BY <2>1, <3>1 DEF Messages
  <2>2. CASE ~\E i \in Instance : entry[i] # None /\ entry[i].serial = s
    BY <2>2
  <2>. QED BY <2>1, <2>2
<1>2. Queue(m) = [s \in Serial |-> ctl[s] \o Q(s)]
  BY DEF Queue
<1> HIDE DEF Q
<1>3. ASSUME NEW s \in Serial PROVE ctl[s] \o Q(s) \in Seq(Message)
  BY <1>1
<1>. QED BY <1>2, <1>3

\* ensure_relay leaves an entry an entry.
LEMMA EnsuredType ==
    ASSUME NEW e \in Entry, NEW r \in Ensured(e)
    PROVE  r[1] \in Entry /\ r[2] \in Seq(Message)
<1>1. CASE e.relay = None /\ e.token = None
  <2>1. PICK t \in Token : r = <<[e EXCEPT !.idle = FALSE, !.token = t], <<Ensure(t)>>>>
    BY <1>1 DEF Ensured
  <2>2. <<Ensure(t)>> \in Seq(Message)
    BY EnsureType
  <2>. QED BY <2>1, <2>2 DEF Entry
<1>2. CASE ~(e.relay = None /\ e.token = None)
  <2>1. r = <<[e EXCEPT !.idle = FALSE], <<>>>>
    BY <1>2 DEF Ensured
  <2>2. [e EXCEPT !.idle = FALSE] \in Entry
    BY DEF Entry
  <2>. QED BY <2>1, <2>2
<1>. QED BY <1>1, <1>2

\* The registry and the queues after a refresh.
LEMMA RefreshType ==
    ASSUME TypeOK, NEW kn \in SUBSET Conn, NEW bnd, Refresh(kn, bnd)
    PROVE  /\ entry' \in [Instance -> Entry \cup {None}]
           /\ ctl' \in [Serial -> Seq(Message)]
           /\ \A i \in Instance : entry'[i] = None <=> entry[i] = None
<1>1. CountMessages(kn, bnd) \in Messages
  BY CountMessagesType
<1>2. ctl' \in [Serial -> Seq(Message)]
  BY <1>1, QueueType DEF TypeOK, Refresh
<1>3. entry \in [Instance -> Entry \cup {None}]
  BY DEF TypeOK
<1>. QED BY <1>2, <1>3, CountedType DEF Refresh

-----------------------------------------------------------------------------
(* The types *)

LEMMA UnbindType ==
    ASSUME TypeOK, NEW c
    PROVE  [bound EXCEPT ![c] = None] \in [Conn -> Binding \cup {None}]
BY DEF TypeOK

JobType ==
    [st : {"none", "asked", "waiting"}, conn : Conn \cup {None},
     inst : Instance \cup {None}, serial : Serial \cup {None}, left : BOOLEAN]

LEMMA LeaveType ==
    ASSUME job \in [Job -> JobType], NEW c
    PROVE  Leave(c) \in [Job -> JobType]
<1>1. ASSUME NEW j \in Job PROVE [job[j] EXCEPT !.left = TRUE] \in JobType
  BY DEF JobType
<1>. QED BY <1>1 DEF Leave

\* The steps of browser connections that are not an ATTACH.
LEMMA ConnTypes ==
    ASSUME TypeOK, NEW c \in Conn, Hello(c) \/ Detach(c) \/ EndConn(c)
    PROVE  TypeOK'
<1>1. CASE Hello(c)
  BY <1>1, UnbindType DEF Hello, TypeOK, appVars
<1>2. CASE Detach(c)
  <2>1. known \in SUBSET Conn /\ Refresh(known, Unbind(c))
    BY <1>2 DEF Detach, TypeOK
  <2>2. entry' \in [Instance -> Entry \cup {None}] /\ ctl' \in [Serial -> Seq(Message)]
    BY <2>1, RefreshType
  <2>. QED BY <1>2, <2>2, UnbindType, LeaveType DEF Detach, TypeOK, JobType, appVars, Unbind
<1>3. CASE EndConn(c)
  <2>1. /\ known \ {c} \in SUBSET Conn
        /\ Refresh(known \ {c}, Unbind(c)) \/ UNCHANGED <<entry, ctl>>
    BY <1>3 DEF EndConn, TypeOK
  <2>2. entry' \in [Instance -> Entry \cup {None}] /\ ctl' \in [Serial -> Seq(Message)]
    BY <2>1, RefreshType DEF TypeOK
  <2>. QED BY <1>3, <2>2, UnbindType, LeaveType DEF EndConn, TypeOK, JobType, appVars, Unbind
<1>. QED BY <1>1, <1>2, <1>3

\* What a successful ATTACH leaves: r is what ensure_relay made of the entry.
LEMMA AttachBinds ==
    ASSUME TypeOK, NEW j \in Job, job[j].st = "asked", Attach(j), job[j].conn \in Conn,
           job[j].inst \in Instance, entry[job[j].inst] # None
    PROVE  /\ bound' = [bound EXCEPT ![job[j].conn] =
                         [inst |-> job[j].inst, serial |-> entry[job[j].inst].serial]]
           /\ bound' \in [Conn -> Binding \cup {None}]
           /\ entry' \in [Instance -> Entry \cup {None}]
           /\ \A i \in Instance : entry'[i] = None <=> entry[i] = None
           /\ ctl' \in [Serial -> Seq(Message)]
<1> DEFINE c == job[j].conn
           i == job[j].inst
           bnd == [bound EXCEPT ![c] = [inst |-> i, serial |-> entry[i].serial]]
           counted == Counted(known, bnd)
           told == CountMessages(known, bnd)
<1>1. PICK r \in Ensured(counted[i]) :
        /\ bound' = bnd
        /\ entry' = [counted EXCEPT ![i] = r[1]]
        /\ ctl' = Queue([told EXCEPT ![i] = @ \o r[2]])
  BY DEF Attach
<1>2. known \in SUBSET Conn /\ entry \in [Instance -> Entry \cup {None}]
  BY DEF TypeOK
<1>3. /\ counted \in [Instance -> Entry \cup {None}]
      /\ \A k \in Instance : counted[k] = None <=> entry[k] = None
      /\ \A k \in Instance : entry[k] # None => counted[k] \in Entry
  BY <1>2, CountedType
<1>4. counted[i] \in Entry
  BY <1>3
<1>5. r[1] \in Entry /\ r[2] \in Seq(Message)
  BY <1>4, EnsuredType
<1>6. told \in Messages
  BY <1>2, CountMessagesType
<1>7. [told EXCEPT ![i] = @ \o r[2]] \in Messages
  <2>1. told[i] \o r[2] \in Seq(Message)
    <3>1. told[i] \in Seq(Message)
      BY <1>6 DEF Messages
    <3> HIDE DEF told
    <3>. QED BY <1>5, <3>1
  <2> HIDE DEF told
  <2>. QED BY <1>6, <2>1 DEF Messages
<1>8. ctl' \in [Serial -> Seq(Message)]
  BY <1>1, <1>7, QueueType DEF TypeOK
<1>9. entry[i].serial \in Serial
  BY <1>2 DEF Entry
<1>10. bnd \in [Conn -> Binding \cup {None}]
  BY <1>9 DEF TypeOK, Binding
<1> HIDE DEF counted, told
<1>11. r[1] # None
  BY <1>5, NoneAssumption
<1>. QED BY <1>1, <1>3, <1>5, <1>8, <1>10, <1>11

LEMMA AttachTypes ==
    ASSUME TypeOK, NEW j \in Job, Attach(j), job[j].conn \in Conn, job[j].inst \in Instance
    PROVE  TypeOK'
<1> DEFINE c == job[j].conn
           i == job[j].inst
<1>0. job \in [Job -> JobType]
  BY DEF TypeOK, JobType
<1>1. CASE entry[i] = None
  <2>1. CASE bound[c] # None /\ bound[c].inst # i
    <3>1. bound' = Unbind(c) /\ Refresh(known, Unbind(c)) /\ job' = [job EXCEPT ![j] = NoJob]
      BY <1>1, <2>1 DEF Attach
    <3>2. known \in SUBSET Conn
      BY DEF TypeOK
    <3>3. entry' \in [Instance -> Entry \cup {None}] /\ ctl' \in [Serial -> Seq(Message)]
      BY <3>1, <3>2, RefreshType
    <3>4. bound' \in [Conn -> Binding \cup {None}]
      BY <3>1, UnbindType DEF Unbind
    <3>5. job' \in [Job -> JobType]
      BY <3>1, <1>0 DEF NoJob, JobType
    <3>. QED BY <3>3, <3>4, <3>5 DEF Attach, TypeOK, JobType, appVars
  <2>2. CASE ~(bound[c] # None /\ bound[c].inst # i)
    <3>1. UNCHANGED <<bound, entry, ctl>> /\ job' = [job EXCEPT ![j] = NoJob]
      BY <1>1, <2>2 DEF Attach
    <3>2. job' \in [Job -> JobType]
      BY <3>1, <1>0 DEF NoJob, JobType
    <3>. QED BY <3>1, <3>2 DEF Attach, TypeOK, JobType, appVars
  <2>. QED BY <2>1, <2>2
<1>2. CASE entry[i] # None
  <2>1. /\ bound' \in [Conn -> Binding \cup {None}]
        /\ entry' \in [Instance -> Entry \cup {None}]
        /\ ctl' \in [Serial -> Seq(Message)]
    BY <1>2, AttachBinds DEF Attach
  <2>2. job' = [k \in Job |->
                  IF k = j
                  THEN IF entry[i].relay # None THEN NoJob
                       ELSE [job[j] EXCEPT !.st = "waiting", !.serial = entry[i].serial]
                  ELSE IF job[k].conn = c /\ job[k].inst # i
                       THEN [job[k] EXCEPT !.left = TRUE] ELSE job[k]]
    BY <1>2 DEF Attach
  <2>3. NoJob \in JobType
    BY DEF NoJob, JobType
  <2>4. [job[j] EXCEPT !.st = "waiting", !.serial = entry[i].serial] \in JobType
    <3>1. entry[i].serial \in Serial
      BY <1>2 DEF TypeOK, Entry
    <3>. QED BY <1>0, <3>1 DEF JobType
  <2>5. \A k \in Job : [job[k] EXCEPT !.left = TRUE] \in JobType
    BY <1>0 DEF JobType
  <2>6. job' \in [Job -> JobType]
    BY <1>0, <2>2, <2>3, <2>4, <2>5
  <2>. QED BY <2>1, <2>6 DEF Attach, TypeOK, JobType, appVars
<1>. QED BY <1>1, <1>2

\* The other steps of the tasks that serve an ATTACH.
LEMMA JobTypes ==
    ASSUME TypeOK, NEW j \in Job,
           \/ \E c \in Conn, i \in Instance : Ask(j, c, i)
           \/ AttachOk(j) \/ AttachFails(j)
    PROVE  TypeOK'
<1>0. job \in [Job -> JobType]
  BY DEF TypeOK, JobType
<1>1. NoJob \in JobType
  BY DEF NoJob, JobType
<1>2. CASE \E c \in Conn, i \in Instance : Ask(j, c, i)
  <2>1. PICK c \in Conn, i \in Instance : Ask(j, c, i)
    BY <1>2
  <2>2. [NoJob EXCEPT !.st = "asked", !.conn = c, !.inst = i] \in JobType
    BY <1>1 DEF JobType
  <2>3. job' \in [Job -> JobType]
    BY <1>0, <2>1, <2>2 DEF Ask
  <2>. QED BY <2>1, <2>3 DEF Ask, TypeOK, JobType, appVars
<1>3. CASE AttachOk(j)
  <2>1. job' \in [Job -> JobType]
    BY <1>0, <1>1, <1>3 DEF AttachOk
  <2>. QED BY <1>3, <2>1 DEF AttachOk, TypeOK, JobType, appVars
<1>4. CASE AttachFails(j)
  <2>1. bound' = [bound EXCEPT ![job[j].conn] = None] /\ Refresh(known, bound')
    BY <1>4 DEF AttachFails
  <2>2. known \in SUBSET Conn
    BY DEF TypeOK
  <2>3. entry' \in [Instance -> Entry \cup {None}] /\ ctl' \in [Serial -> Seq(Message)]
    BY <2>1, <2>2, RefreshType
  <2>4. bound' \in [Conn -> Binding \cup {None}]
    BY <2>1, UnbindType
  <2>5. job' \in [Job -> JobType]
    BY <1>0, <1>1, <1>4 DEF AttachFails
  <2>. QED BY <1>4, <2>3, <2>4, <2>5 DEF AttachFails, TypeOK, JobType, appVars
<1>. QED BY <1>2, <1>3, <1>4

\* The control connections and the application's end of them.
LEMMA ControlTypes ==
    ASSUME TypeOK
    PROVE  /\ \A i \in Instance : Register(i) \/ ControlBreaks(i) \/ AppHandles(i) => TypeOK'
           /\ \A s \in Serial : ControlEnds(s) => TypeOK'
<1>0. Cardinality(Conn) \in Nat
  BY FiniteAssumption, FS_CardinalityType
<1>1. ASSUME NEW i \in Instance, Register(i) PROVE TypeOK'
  <2>1. PICK s \in Serial :
          /\ control' = [control EXCEPT ![i] = s]
          /\ serving' = [serving EXCEPT ![s] = i]
          /\ entry' = [entry EXCEPT ![i] = NewEntry(s)]
    BY <1>1 DEF Register
  <2>2. NewEntry(s) \in Entry
    BY <1>0 DEF NewEntry, Entry
  <2>. QED BY <1>1, <2>1, <2>2 DEF Register, TypeOK
<1>2. ASSUME NEW i \in Instance, ControlBreaks(i) PROVE TypeOK'
  <2>1. gate' \in [Instance -> [count : 0..Cardinality(Conn), told : BOOLEAN]]
    BY <1>2 DEF ControlBreaks, TypeOK
  <2>. QED BY <1>2, <2>1 DEF ControlBreaks, TypeOK, daemonVars
<1>3. ASSUME NEW i \in Instance, AppHandles(i) PROVE TypeOK'
  <2> DEFINE s == control[i]
             m == Head(ctl[s])
  <2>1. s \in Serial /\ ctl[s] \in Seq(Message) /\ ctl[s] # <<>>
    BY <1>3 DEF AppHandles, TypeOK
  <2>2. m \in Message /\ Tail(ctl[s]) \in Seq(Message)
    BY <2>1
  <2>3. ctl' \in [Serial -> Seq(Message)]
    BY <1>3, <2>2 DEF AppHandles, TypeOK
  <2>4. /\ m.kind = "ensure" => m.token \in Token
        /\ m.kind = "sessions" => m.count \in 0..Cardinality(Conn)
    BY <2>2 DEF Message, Ensure, Drop, Sessions
  <2>5. webview' \in [Instance -> Token \cup {None}]
    BY <1>3, <2>4 DEF AppHandles, TypeOK
  <2>6. link' \in [Token -> [st : {"none", "page", "claimed", "up"}, inst : Instance \cup {None}]]
    BY <1>3, <2>4 DEF AppHandles, TypeOK
  <2>7. gate' \in [Instance -> [count : 0..Cardinality(Conn), told : BOOLEAN]]
    BY <1>3, <2>4 DEF AppHandles, TypeOK
  <2>. QED BY <1>3, <2>3, <2>5, <2>6, <2>7 DEF AppHandles, TypeOK, daemonVars
<1>4. ASSUME NEW s \in Serial, ControlEnds(s) PROVE TypeOK'
  <2> DEFINE i == serving[s]
             own == entry[i] # None /\ entry[i].serial = s
             bnd == [c \in Conn |-> IF own /\ c \in Attached(known, bound, i) THEN None ELSE bound[c]]
  <2>1. /\ bound' = bnd
        /\ entry' = IF own THEN [Counted(known, bnd) EXCEPT ![i] = None] ELSE entry
    BY <1>4 DEF ControlEnds
  <2>2. bnd \in [Conn -> Binding \cup {None}]
    BY DEF TypeOK
  <2>3. known \in SUBSET Conn /\ entry \in [Instance -> Entry \cup {None}]
    BY DEF TypeOK
  <2>4. Counted(known, bnd) \in [Instance -> Entry \cup {None}]
    BY <2>3, CountedType
  <2>5. entry' \in [Instance -> Entry \cup {None}]
    BY <2>1, <2>3, <2>4
  <2>6. serving' \in [Serial -> Instance \cup {None}] /\ ctl' \in [Serial -> Seq(Message)]
    <3>1. ctl' = [IF own THEN Queue(CountMessages(known, bnd)) ELSE ctl EXCEPT ![s] = <<>>]
      BY <1>4 DEF ControlEnds
    <3>2. Queue(CountMessages(known, bnd)) \in [Serial -> Seq(Message)]
      BY <2>3, CountMessagesType, QueueType DEF TypeOK
    <3>3. ctl \in [Serial -> Seq(Message)] /\ <<>> \in Seq(Message)
      BY DEF TypeOK
    <3> HIDE DEF own, bnd
    <3>4. ctl' \in [Serial -> Seq(Message)]
      BY <3>1, <3>2, <3>3
    <3>. QED BY <1>4, <3>4 DEF ControlEnds, TypeOK
  <2> HIDE DEF bnd
  <2>. QED BY <1>4, <2>1, <2>2, <2>5, <2>6 DEF ControlEnds, TypeOK, appVars
<1>. QED BY <1>1, <1>2, <1>3, <1>4

\* What is asked of a single instance is a family of messages.
LEMMA OneMessage ==
    ASSUME NEW i \in Instance, NEW q \in Seq(Message)
    PROVE  [k \in Instance |-> IF k = i THEN q ELSE <<>>] \in Messages
<1>1. <<>> \in Seq(Message)
  OBVIOUS
<1>. QED BY <1>1 DEF Messages

\* The relay links and the timers.
LEMMA RelayTypes ==
    ASSUME TypeOK, LinksNamed
    PROVE  /\ \A t \in Token : RelayConnects(t) \/ PageGone(t) \/ RelayUp(t) \/ UpgradeFails(t) => TypeOK'
           /\ \A i \in Instance : TokenExpires(i) \/ LingerPasses(i) => TypeOK'
<1> DEFINE LinkType == [st : {"none", "page", "claimed", "up"}, inst : Instance \cup {None}]
<1>0. NoLink \in LinkType /\ link \in [Token -> LinkType]
  BY DEF NoLink, TypeOK
<1>1. ASSUME NEW i \in Instance, entry[i] # None
      PROVE  /\ [entry[i] EXCEPT !.token = None] \in Entry
             /\ [entry[i] EXCEPT !.idle = FALSE] \in Entry
             /\ \A t \in Token : [[entry[i] EXCEPT !.relay = t] EXCEPT !.token = None] \in Entry
             /\ [[entry[i] EXCEPT !.token = None] EXCEPT !.late = TRUE] \in Entry
  <2>1. entry[i] \in Entry
    BY <1>1 DEF TypeOK
  <2>. QED BY <2>1 DEF Entry
<1>2. ASSUME NEW t \in Token, RelayConnects(t) PROVE TypeOK'
  <2>1. link' \in [Token -> LinkType]
    BY <1>2, <1>0 DEF RelayConnects
  <2>2. entry' \in [Instance -> Entry \cup {None}]
    <3>1. link[t].inst \in Instance
      BY <1>2 DEF RelayConnects, LinksNamed
    <3>2. CASE entry[link[t].inst] # None /\ entry[link[t].inst].token = t /\ entry[link[t].inst].relay = None
      <4>1. entry' = [entry EXCEPT ![link[t].inst].token = None]
        BY <1>2, <3>2 DEF RelayConnects
      <4>2. [entry[link[t].inst] EXCEPT !.token = None] \in Entry
        BY <1>1, <3>1, <3>2
      <4>. QED BY <4>1, <4>2 DEF TypeOK
    <3>3. CASE ~(entry[link[t].inst] # None /\ entry[link[t].inst].token = t /\ entry[link[t].inst].relay = None)
      BY <1>2, <3>3 DEF RelayConnects, TypeOK
    <3>. QED BY <3>2, <3>3
  <2>. QED BY <1>2, <2>1, <2>2 DEF RelayConnects, TypeOK, appVars
<1>3. ASSUME NEW t \in Token, PageGone(t) \/ UpgradeFails(t) PROVE TypeOK'
  <2>1. link' \in [Token -> LinkType]
    BY <1>3, <1>0 DEF PageGone, UpgradeFails
  <2>. QED BY <1>3, <2>1 DEF PageGone, UpgradeFails, TypeOK, appVars, daemonVars
<1>4. ASSUME NEW t \in Token, RelayUp(t) PROVE TypeOK'
  <2>1. link' \in [Token -> LinkType]
    BY <1>4, <1>0 DEF RelayUp
  <2>2. entry' \in [Instance -> Entry \cup {None}]
    BY <1>4, <1>1 DEF RelayUp, TypeOK
  <2>. QED BY <1>4, <2>1, <2>2 DEF RelayUp, TypeOK, appVars
<1>5. ASSUME NEW i \in Instance, TokenExpires(i) PROVE TypeOK'
  <2>1. entry' \in [Instance -> Entry \cup {None}]
    BY <1>5, <1>1 DEF TokenExpires, TypeOK
  <2>. QED BY <1>5, <2>1 DEF TokenExpires, TypeOK, appVars
<1>6. ASSUME NEW i \in Instance, LingerPasses(i) PROVE TypeOK'
  <2>1. entry' \in [Instance -> Entry \cup {None}]
    BY <1>6, <1>1 DEF LingerPasses, TypeOK
  <2>2. Drop \in Message
    BY DEF Message
  <2>3. <<Drop>> \in Seq(Message)
    BY <2>2
  <2>4. ctl' \in [Serial -> Seq(Message)]
    BY <1>6, <2>3, OneMessage, QueueType DEF LingerPasses, TypeOK
  <2>. QED BY <1>6, <2>1, <2>4 DEF LingerPasses, TypeOK, appVars
<1>. QED BY <1>2, <1>3, <1>4, <1>5, <1>6

LEMMA RelayEndsTypes ==
    ASSUME TypeOK, LinksNamed, NEW t \in Token, RelayEnds(t)
    PROVE  TypeOK' /\ \A k \in Instance : entry'[k] = None => entry[k] = None
<1> DEFINE i == link[t].inst
           gone == [entry[i] EXCEPT !.relay = None]
<1>0. /\ link' \in [Token -> [st : {"none", "page", "claimed", "up"}, inst : Instance \cup {None}]]
      /\ i \in Instance
  BY DEF RelayEnds, TypeOK, NoLink, LinksNamed
<1>1. CASE ~(entry[i] # None /\ entry[i].relay # None)
  <2>1. UNCHANGED <<entry, ctl>>
    BY <1>1 DEF RelayEnds
  <2>. QED BY <1>0, <2>1 DEF RelayEnds, TypeOK, appVars
<1>2. CASE entry[i] # None /\ entry[i].relay # None
  <2>1. gone \in Entry
    <3>1. entry[i] \in Entry
      BY <1>0, <1>2 DEF TypeOK
    <3>. QED BY <3>1 DEF Entry
  <2>2. CASE Attached(known, bound, i) = {}
    <3>1. entry' = [entry EXCEPT ![i] = gone] /\ UNCHANGED ctl
      BY <1>2, <2>2 DEF RelayEnds
    <3> HIDE DEF gone
    <3>. QED BY <1>0, <1>2, <2>1, <3>1, NoneAssumption DEF RelayEnds, TypeOK, appVars
  <2>3. CASE Attached(known, bound, i) # {}
    <3>1. PICK r \in Ensured(gone) :
            /\ entry' = [entry EXCEPT ![i] = r[1]]
            /\ ctl' = Queue([k \in Instance |-> IF k = i THEN r[2] ELSE <<>>])
      BY <1>2, <2>3 DEF RelayEnds
    <3>2. r[1] \in Entry /\ r[2] \in Seq(Message)
      BY <2>1, <3>1, EnsuredType
    <3>3. ctl' \in [Serial -> Seq(Message)]
      BY <1>0, <3>1, <3>2, OneMessage, QueueType DEF TypeOK
    <3> HIDE DEF gone
    <3>. QED BY <1>0, <1>2, <3>1, <3>2, <3>3, NoneAssumption DEF RelayEnds, TypeOK, appVars
  <2>. QED BY <2>2, <2>3
<1>. QED BY <1>1, <1>2

-----------------------------------------------------------------------------
(* The invariant *)

IInv == TypeOK /\ JobsNamed /\ LinksNamed /\ BoundToRegistered

LEMMA InitIInv == Init => IInv
<1> SUFFICES ASSUME Init PROVE IInv
  OBVIOUS
<1>1. Cardinality(Conn) \in Nat
  BY FiniteAssumption, FS_CardinalityType
<1>2. <<>> \in Seq(Message)
  OBVIOUS
<1>3. TypeOK
  BY <1>1, <1>2 DEF Init, TypeOK, NoJob, NoLink
<1>4. JobsNamed /\ LinksNamed /\ BoundToRegistered
  BY DEF Init, JobsNamed, LinksNamed, BoundToRegistered, NoJob, NoLink
<1>. QED BY <1>3, <1>4 DEF IInv

LEMMA NextTypes ==
    ASSUME IInv, [Next]_vars
    PROVE  TypeOK'
<1>0. TypeOK /\ JobsNamed /\ LinksNamed
  BY DEF IInv
<1>1. CASE UNCHANGED vars
  BY <1>0, <1>1 DEF vars, daemonVars, appVars, TypeOK
<1>2. ASSUME NEW j \in Job, Attach(j) PROVE TypeOK'
  BY <1>0, <1>2, AttachTypes DEF Attach, JobsNamed
<1>. QED BY <1>0, <1>1, <1>2, ConnTypes, JobTypes, ControlTypes, RelayTypes, RelayEndsTypes DEF Next

\* A job keeps its names, unless Ask gives it new ones.
LEMMA NextJobs ==
    ASSUME TypeOK, JobsNamed, [Next]_vars
    PROVE  JobsNamed'
<1>0. job \in [Job -> JobType]
  BY DEF TypeOK, JobType
<1>1. ASSUME NEW j \in Job, NEW c \in Conn, NEW i \in Instance, Ask(j, c, i)
      PROVE  JobsNamed'
  BY <1>0, <1>1 DEF Ask, JobsNamed, JobType, NoJob
<1>2. ASSUME NEW j \in Job, Attach(j)
      PROVE  JobsNamed'
  <2>1. CASE entry[job[j].inst] = None
    <3>1. job' = [job EXCEPT ![j] = NoJob]
      BY <1>2, <2>1 DEF Attach
    <3>. QED BY <1>0, <3>1 DEF JobsNamed, NoJob
  <2>2. CASE entry[job[j].inst] # None
    <3>1. job' = [k \in Job |->
                    IF k = j
                    THEN IF entry[job[j].inst].relay # None THEN NoJob
                         ELSE [job[j] EXCEPT !.st = "waiting", !.serial = entry[job[j].inst].serial]
                    ELSE IF job[k].conn = job[j].conn /\ job[k].inst # job[j].inst
                         THEN [job[k] EXCEPT !.left = TRUE] ELSE job[k]]
      BY <1>2, <2>2 DEF Attach
    <3>2. job[j].st # "none"
      BY <1>2 DEF Attach
    <3>3. ASSUME NEW k \in Job, job'[k].st # "none"
          PROVE  job[k].st # "none" /\ job'[k].conn = job[k].conn /\ job'[k].inst = job[k].inst
      BY <1>0, <3>1, <3>2, <3>3 DEF NoJob, JobType
    <3>. QED BY <3>3 DEF JobsNamed
  <2>. QED BY <2>1, <2>2
<1>3. ASSUME NEW j \in Job, AttachOk(j) \/ AttachFails(j)
      PROVE  JobsNamed'
  BY <1>0, <1>3 DEF AttachOk, AttachFails, JobsNamed, NoJob
<1>4. ASSUME NEW c \in Conn, Detach(c) \/ EndConn(c)
      PROVE  JobsNamed'
  <2>1. job' = Leave(c)
    BY <1>4 DEF Detach, EndConn
  <2>2. ASSUME NEW k \in Job
        PROVE  job'[k].st = job[k].st /\ job'[k].conn = job[k].conn /\ job'[k].inst = job[k].inst
    BY <1>0, <2>1 DEF Leave, JobType
  <2>. QED BY <2>2 DEF JobsNamed
<1>5. ASSUME UNCHANGED job
      PROVE  JobsNamed'
  BY <1>5 DEF JobsNamed
<1>6. ASSUME NEW c \in Conn, Hello(c)
      PROVE  UNCHANGED job
  BY <1>6 DEF Hello
<1>7. ASSUME NEW i \in Instance,
             Register(i) \/ ControlBreaks(i) \/ AppHandles(i) \/ TokenExpires(i) \/ LingerPasses(i)
      PROVE  UNCHANGED job
  BY <1>7 DEF Register, ControlBreaks, AppHandles, TokenExpires, LingerPasses, daemonVars
<1>8. ASSUME NEW s \in Serial, ControlEnds(s)
      PROVE  UNCHANGED job
  BY <1>8 DEF ControlEnds
<1>9. ASSUME NEW t \in Token,
             RelayConnects(t) \/ PageGone(t) \/ RelayUp(t) \/ UpgradeFails(t) \/ RelayEnds(t)
      PROVE  UNCHANGED job
  BY <1>9 DEF RelayConnects, PageGone, RelayUp, UpgradeFails, RelayEnds, daemonVars
<1>10. CASE UNCHANGED vars
  BY <1>5, <1>10 DEF vars, daemonVars
<1>. QED BY <1>1, <1>2, <1>3, <1>4, <1>5, <1>6, <1>7, <1>8, <1>9, <1>10 DEF Next

\* A link keeps its instance until it is nothing.
LEMMA NextLinks ==
    ASSUME TypeOK, LinksNamed, [Next]_vars
    PROVE  LinksNamed'
<1>1. ASSUME NEW i \in Instance, AppHandles(i)
      PROVE  LinksNamed'
  BY <1>1 DEF AppHandles, LinksNamed, TypeOK
<1>2. ASSUME NEW t \in Token,
             RelayConnects(t) \/ PageGone(t) \/ RelayUp(t) \/ UpgradeFails(t) \/ RelayEnds(t)
      PROVE  LinksNamed'
  <2>1. \/ link' = [link EXCEPT ![t] = NoLink]
        \/ link[t].st # "none" /\ link' = [link EXCEPT ![t].st = "claimed"]
        \/ link[t].st # "none" /\ link' = [link EXCEPT ![t].st = "up"]
    BY <1>2 DEF RelayConnects, PageGone, RelayUp, UpgradeFails, RelayEnds
  <2>2. link \in [Token -> [st : {"none", "page", "claimed", "up"}, inst : Instance \cup {None}]]
    BY DEF TypeOK
  <2>3. ASSUME NEW u \in Token, link'[u].st # "none"
        PROVE  link[u].st # "none" /\ link'[u].inst = link[u].inst
    <3>1. CASE link' = [link EXCEPT ![t] = NoLink]
      BY <2>2, <2>3, <3>1 DEF NoLink
    <3>2. CASE link[t].st # "none" /\ link' = [link EXCEPT ![t].st = "claimed"]
      BY <2>2, <2>3, <3>2
    <3>3. CASE link[t].st # "none" /\ link' = [link EXCEPT ![t].st = "up"]
      BY <2>2, <2>3, <3>3
    <3>. QED BY <2>1, <3>1, <3>2, <3>3
  <2>. QED BY <2>3 DEF LinksNamed
<1>3. ASSUME UNCHANGED link
      PROVE  LinksNamed'
  BY <1>3 DEF LinksNamed
<1>4. ASSUME NEW c \in Conn, Hello(c) \/ Detach(c) \/ EndConn(c)
      PROVE  UNCHANGED link
  BY <1>4 DEF Hello, Detach, EndConn
<1>5. ASSUME NEW j \in Job,
             \/ \E c \in Conn, i \in Instance : Ask(j, c, i)
             \/ Attach(j) \/ AttachOk(j) \/ AttachFails(j)
      PROVE  UNCHANGED link
  BY <1>5 DEF Ask, Attach, AttachOk, AttachFails
<1>6. ASSUME NEW i \in Instance,
             Register(i) \/ ControlBreaks(i) \/ TokenExpires(i) \/ LingerPasses(i)
      PROVE  UNCHANGED link
  BY <1>6 DEF Register, ControlBreaks, TokenExpires, LingerPasses
<1>7. ASSUME NEW s \in Serial, ControlEnds(s)
      PROVE  UNCHANGED link
  BY <1>7 DEF ControlEnds
<1>8. CASE UNCHANGED vars
  BY <1>3, <1>8 DEF vars
<1>. QED BY <1>1, <1>2, <1>3, <1>4, <1>5, <1>6, <1>7, <1>8 DEF Next

\* What a step does to the registry and to the bindings: entries stay, and so
\* do the bindings of connections that stay, but for the steps named here.
LEMMA OthersKeepBound ==
    ASSUME BoundToRegistered, TypeOK,
           \A c \in known' : bound'[c] # None => c \in known /\ bound'[c] = bound[c],
           \A i \in Instance : entry'[i] = None => entry[i] = None
    PROVE  BoundToRegistered'
<1> SUFFICES ASSUME NEW c \in known', bound'[c] # None PROVE entry'[bound'[c].inst] # None
  BY DEF BoundToRegistered
<1>1. c \in known /\ bound[c] # None /\ bound'[c] = bound[c]
  OBVIOUS
<1>2. bound[c].inst \in Instance
  BY <1>1 DEF TypeOK, Binding
<1>. QED BY <1>1, <1>2 DEF BoundToRegistered

LEMMA NextBound ==
    ASSUME IInv, [Next]_vars
    PROVE  BoundToRegistered'
<1>0. TypeOK /\ JobsNamed /\ LinksNamed /\ BoundToRegistered
  BY DEF IInv
<1>1. known \in SUBSET Conn /\ bound \in [Conn -> Binding \cup {None}] /\ entry \in [Instance -> Entry \cup {None}]
  BY <1>0 DEF TypeOK
<1>2. ASSUME NEW c \in Conn, Hello(c) PROVE BoundToRegistered'
  <2>1. known' = known \cup {c} /\ bound' = [bound EXCEPT ![c] = None] /\ entry' = entry
    BY <1>2 DEF Hello
  <2>. QED BY <1>0, <1>1, <2>1, OthersKeepBound
<1>3. ASSUME NEW c \in Conn, Detach(c) PROVE BoundToRegistered'
  <2>1. known' = known /\ bound' = [bound EXCEPT ![c] = None] /\ Refresh(known, bound')
    BY <1>3 DEF Detach, Unbind
  <2>2. \A i \in Instance : entry'[i] = None <=> entry[i] = None
    BY <1>0, <1>1, <2>1, RefreshType
  <2>. QED BY <1>0, <1>1, <2>1, <2>2, OthersKeepBound
<1>4. ASSUME NEW c \in Conn, EndConn(c) PROVE BoundToRegistered'
  <2>1. /\ known' = known \ {c} /\ bound' = [bound EXCEPT ![c] = None]
        /\ Refresh(known', bound') \/ entry' = entry
    BY <1>4 DEF EndConn, Unbind
  <2>2. \A i \in Instance : entry'[i] = None <=> entry[i] = None
    BY <1>0, <1>1, <2>1, RefreshType
  <2>. QED BY <1>0, <1>1, <2>1, <2>2, OthersKeepBound
<1>5. ASSUME NEW j \in Job, Attach(j) PROVE BoundToRegistered'
  <2> DEFINE c == job[j].conn
             i == job[j].inst
  <2>1. c \in Conn /\ i \in Instance /\ known' = known
    BY <1>0, <1>5 DEF Attach, JobsNamed
  <2>2. CASE entry[i] # None
    <3>1. /\ bound' = [bound EXCEPT ![c] = [inst |-> i, serial |-> entry[i].serial]]
          /\ \A k \in Instance : entry'[k] = None <=> entry[k] = None
      BY <1>0, <1>5, <2>1, <2>2, AttachBinds DEF Attach
    <3>2. ASSUME NEW d \in known, bound'[d] # None PROVE entry'[bound'[d].inst] # None
      <4>1. CASE d = c
        BY <1>1, <2>1, <2>2, <3>1, <4>1
      <4>2. CASE d # c
        <5>1. bound'[d] = bound[d] /\ bound[d].inst \in Instance
          BY <1>1, <3>1, <3>2, <4>2 DEF Binding
        <5>. QED BY <1>0, <3>1, <3>2, <5>1 DEF BoundToRegistered
      <4>. QED BY <4>1, <4>2
    <3>. QED BY <2>1, <3>2 DEF BoundToRegistered
  <2>3. CASE entry[i] = None
    <3>1. \/ bound' = Unbind(c) /\ Refresh(known, Unbind(c))
          \/ UNCHANGED <<bound, entry>>
      BY <1>5, <2>3 DEF Attach
    <3>2. \A k \in Instance : entry'[k] = None <=> entry[k] = None
      BY <1>0, <1>1, <3>1, RefreshType
    <3>3. \A d \in known : bound'[d] # None => bound'[d] = bound[d]
      BY <1>1, <3>1 DEF Unbind
    <3>. QED BY <1>0, <2>1, <3>2, <3>3, OthersKeepBound
  <2>. QED BY <2>2, <2>3
<1>6. ASSUME NEW j \in Job, AttachFails(j) PROVE BoundToRegistered'
  <2>1. known' = known /\ bound' = [bound EXCEPT ![job[j].conn] = None] /\ Refresh(known, bound')
    BY <1>6 DEF AttachFails
  <2>2. \A i \in Instance : entry'[i] = None <=> entry[i] = None
    BY <1>0, <1>1, <2>1, RefreshType
  <2>. QED BY <1>0, <1>1, <2>1, <2>2, OthersKeepBound
<1>7. ASSUME NEW s \in Serial, ControlEnds(s) PROVE BoundToRegistered'
  <2> DEFINE i == serving[s]
             own == entry[i] # None /\ entry[i].serial = s
             bnd == [c \in Conn |-> IF own /\ c \in Attached(known, bound, i) THEN None ELSE bound[c]]
  <2>1. known' = known /\ bound' = bnd /\ entry' = IF own THEN [Counted(known, bnd) EXCEPT ![i] = None] ELSE entry
    BY <1>7 DEF ControlEnds
  <2>2. CASE ~own
    <3>1. bound' = bound /\ entry' = entry
      BY <1>1, <2>1, <2>2
    <3>. QED BY <1>0, <2>1, <3>1, OthersKeepBound
  <2>3. CASE own
    <3>1. /\ \A k \in Instance : Counted(known, bnd)[k] = None <=> entry[k] = None
          /\ Counted(known, bnd) \in [Instance -> Entry \cup {None}]
      BY <1>1, CountedType
    <3>2. ASSUME NEW d \in known, bound'[d] # None PROVE entry'[bound'[d].inst] # None
      <4>1. d \notin Attached(known, bound, i) /\ bound'[d] = bound[d] /\ bound[d].inst \in Instance
        BY <1>1, <2>1, <2>3, <3>2 DEF Binding
      <4>2. bound[d].inst # i
        BY <3>2, <4>1 DEF Attached
      <4>3. entry'[bound[d].inst] = Counted(known, bnd)[bound[d].inst]
        <5> HIDE DEF bnd
        <5>. QED BY <2>1, <2>3, <3>1, <4>1, <4>2
      <4> HIDE DEF bnd
      <4>. QED BY <1>0, <3>1, <3>2, <4>1, <4>3 DEF BoundToRegistered
    <3>. QED BY <2>1, <3>2 DEF BoundToRegistered
  <2>. QED BY <2>2, <2>3
<1>8. ASSUME NEW t \in Token, RelayEnds(t) PROVE BoundToRegistered'
  BY <1>0, <1>8, RelayEndsTypes, OthersKeepBound DEF RelayEnds
<1>9. ASSUME NEW i \in Instance, Register(i) PROVE BoundToRegistered'
  <2>1. PICK s \in Serial : entry' = [entry EXCEPT ![i] = NewEntry(s)]
    BY <1>9 DEF Register
  <2>2. NewEntry(s) \in Entry
    BY FiniteAssumption, FS_CardinalityType DEF NewEntry, Entry
  <2>3. known' = known /\ bound' = bound
    BY <1>9 DEF Register
  <2>. QED BY <1>0, <1>1, <2>1, <2>2, <2>3, NoneAssumption, OthersKeepBound
<1>10. ASSUME NEW i \in Instance, TokenExpires(i) \/ LingerPasses(i) PROVE BoundToRegistered'
  <2>1. /\ known' = known /\ bound' = bound
        /\ \A k \in Instance : k # i => entry'[k] = entry[k]
        /\ entry[i] # None
    BY <1>1, <1>10 DEF TokenExpires, LingerPasses
  <2>2. entry[i] \in Entry
    BY <1>1, <2>1
  <2>3. entry'[i] \in Entry
    <3>1. [entry[i] EXCEPT !.idle = FALSE] \in Entry /\ [[entry[i] EXCEPT !.token = None] EXCEPT !.late = TRUE] \in Entry
      BY <2>2 DEF Entry
    <3>2. CASE TokenExpires(i)
      BY <1>1, <3>1, <3>2 DEF TokenExpires
    <3>3. CASE LingerPasses(i)
      BY <1>1, <3>1, <3>3 DEF LingerPasses
    <3>. QED BY <1>10, <3>2, <3>3
  <2>. QED BY <1>0, <2>1, <2>3, NoneAssumption, OthersKeepBound
<1>11. ASSUME NEW t \in Token, RelayConnects(t) \/ RelayUp(t) PROVE BoundToRegistered'
  <2>1. link[t].inst \in Instance /\ known' = known /\ bound' = bound
    BY <1>0, <1>11 DEF RelayConnects, RelayUp, LinksNamed
  <2>2. \A k \in Instance : k # link[t].inst => entry'[k] = entry[k]
    BY <1>1, <1>11 DEF RelayConnects, RelayUp
  <2>3. CASE entry[link[t].inst] # None
    <3>1. entry[link[t].inst] \in Entry
      BY <1>1, <2>1, <2>3
    <3>2. /\ [entry[link[t].inst] EXCEPT !.token = None] \in Entry
          /\ [[entry[link[t].inst] EXCEPT !.relay = t] EXCEPT !.token = None] \in Entry
      BY <3>1 DEF Entry
    <3>3. entry'[link[t].inst] \in Entry
      BY <1>1, <1>11, <2>1, <3>1, <3>2 DEF RelayConnects, RelayUp
    <3>. QED BY <1>0, <2>1, <2>2, <3>3, NoneAssumption, OthersKeepBound
  <2>4. CASE entry[link[t].inst] = None
    <3>1. entry' = entry
      BY <1>11, <2>4 DEF RelayConnects, RelayUp
    <3>. QED BY <1>0, <2>1, <3>1, OthersKeepBound
  <2>. QED BY <2>3, <2>4
<1>12. ASSUME UNCHANGED <<known, bound, entry>>
       PROVE  BoundToRegistered'
  BY <1>0, <1>12 DEF BoundToRegistered
<1>13. ASSUME \/ UNCHANGED vars
              \/ \E j \in Job : AttachOk(j) \/ \E c \in Conn, i \in Instance : Ask(j, c, i)
              \/ \E i \in Instance : ControlBreaks(i) \/ AppHandles(i)
              \/ \E t \in Token : PageGone(t) \/ UpgradeFails(t)
       PROVE  UNCHANGED <<known, bound, entry>>
  BY <1>13 DEF vars, daemonVars, AttachOk, Ask, ControlBreaks, AppHandles, PageGone, UpgradeFails
<1>. QED BY <1>2, <1>3, <1>4, <1>5, <1>6, <1>7, <1>8, <1>9, <1>10, <1>11, <1>12, <1>13 DEF Next

\* Every reachable state satisfies the strengthened invariant.
THEOREM RouterIInv == Spec => []IInv
<1>1. IInv /\ [Next]_vars => IInv'
  <2> SUFFICES ASSUME IInv, [Next]_vars PROVE IInv'
    OBVIOUS
  <2>. QED BY NextTypes, NextJobs, NextLinks, NextBound DEF IInv
<1>. QED BY InitIInv, <1>1, PTL DEF Spec

\* The daemon's tables, the messages and the application's state stay within
\* their types; a session count never passes the number of connections.
THEOREM TypeCorrect == Spec => []TypeOK
<1>1. IInv => TypeOK
  BY DEF IInv
<1>. QED BY <1>1, RouterIInv, PTL

\* A browser's connection is never bound to an instance the registry has lost:
\* whatever an attach waited for, and whichever control connection ended.
THEOREM BoundIsRegistered == Spec => []BoundToRegistered
<1>1. IInv => BoundToRegistered
  BY DEF IInv
<1>. QED BY <1>1, RouterIInv, PTL

-----------------------------------------------------------------------------
(* What a queue will have told once it is read *)

Counts(m) == m.kind = "sessions"
Quiet(q) == \A m \in DOMAIN q : ~Counts(q[m])
Tells(q, n) == \E m \in DOMAIN q : Counts(q[m]) /\ q[m].count = n /\ \A k \in DOMAIN q : Counts(q[k]) => k <= m
Known(g) == IF g.told THEN g.count ELSE 0
Says(q, g, n) == Tells(q, n) \/ (Quiet(q) /\ n = Known(g))

\* The strengthening of CountTold: a connection that has said nothing, and has
\* nothing on its way, belongs to an entry that counts none.
AllTold ==
    \A i \in Instance :
      control[i] # None /\ entry[i] # None /\ entry[i].serial = control[i]
        => Says(ctl[control[i]], gate[i], entry[i].sessions)

LEMMA AllToldSuffices == AllTold => CountTold
<1> SUFFICES ASSUME AllTold, NEW i \in Instance, InService(i)
             PROVE  \/ Announced(i, entry[i].sessions)
                    \/ entry[i].sessions = 0 /\ ~gate[i].told /\ OnTheirWay(i) = {}
  BY DEF CountTold
<1>1. Says(ctl[control[i]], gate[i], entry[i].sessions)
  BY DEF AllTold, InService
<1>2. CASE Tells(ctl[control[i]], entry[i].sessions)
  BY <1>2 DEF Tells, Counts, Announced, OnTheirWay
<1>3. CASE Quiet(ctl[control[i]]) /\ entry[i].sessions = Known(gate[i])
  <2>1. OnTheirWay(i) = {}
    BY <1>3 DEF Quiet, Counts, OnTheirWay
  <2>. QED BY <1>3, <2>1 DEF Announced, Known
<1>. QED BY <1>1, <1>2, <1>3 DEF Says

\* A message that is no count changes nothing of what is told.
LEMMA QuietAppend ==
    ASSUME NEW q \in Seq(Message), NEW r \in Seq(Message), Quiet(r), NEW n
    PROVE  /\ Tells(q, n) => Tells(q \o r, n)
           /\ Quiet(q) => Quiet(q \o r)
<1>1. /\ Len(q) \in Nat /\ Len(r) \in Nat /\ Len(q \o r) = Len(q) + Len(r)
      /\ DOMAIN q = 1..Len(q) /\ DOMAIN r = 1..Len(r) /\ DOMAIN (q \o r) = 1..Len(q \o r)
      /\ \A m \in 1..Len(q) : (q \o r)[m] = q[m]
      /\ \A m \in DOMAIN (q \o r) : m \notin 1..Len(q) => (q \o r)[m] = r[m - Len(q)]
  OBVIOUS
<1>2. \A m \in DOMAIN (q \o r) : Counts((q \o r)[m]) => m \in DOMAIN q
  <2>1. ASSUME NEW m \in DOMAIN (q \o r), m \notin 1..Len(q) PROVE ~Counts((q \o r)[m])
    <3>1. m - Len(q) \in DOMAIN r
      BY <1>1, <2>1
    <3>. QED BY <1>1, <2>1, <3>1 DEF Quiet
  <2>. QED BY <1>1, <2>1
<1>3. ASSUME Tells(q, n) PROVE Tells(q \o r, n)
  <2>1. PICK m \in DOMAIN q : Counts(q[m]) /\ q[m].count = n /\ \A k \in DOMAIN q : Counts(q[k]) => k <= m
    BY <1>3 DEF Tells
  <2>2. m \in DOMAIN (q \o r) /\ (q \o r)[m] = q[m]
    BY <1>1
  <2>3. ASSUME NEW k \in DOMAIN (q \o r), Counts((q \o r)[k]) PROVE k <= m
    BY <1>1, <1>2, <2>1, <2>3
  <2>. QED BY <2>1, <2>2, <2>3 DEF Tells
<1>4. ASSUME Quiet(q) PROVE Quiet(q \o r)
  BY <1>1, <1>2, <1>4 DEF Quiet
<1>. QED BY <1>3, <1>4

\* What ends in a count tells it, whatever was told before.
LEMMA TellsAppend ==
    ASSUME NEW q \in Seq(Message), NEW r \in Seq(Message), NEW g, NEW n, Tells(r, n)
    PROVE  Says(q \o r, g, n)
<1>1. /\ Len(q) \in Nat /\ Len(r) \in Nat /\ Len(q \o r) = Len(q) + Len(r)
      /\ DOMAIN q = 1..Len(q) /\ DOMAIN r = 1..Len(r) /\ DOMAIN (q \o r) = 1..Len(q \o r)
      /\ \A m \in 1..Len(r) : (q \o r)[Len(q) + m] = r[m]
  OBVIOUS
<1>2. PICK m \in DOMAIN r : Counts(r[m]) /\ r[m].count = n /\ \A k \in DOMAIN r : Counts(r[k]) => k <= m
  BY DEF Tells
<1>3. Len(q) + m \in DOMAIN (q \o r) /\ (q \o r)[Len(q) + m] = r[m]
  BY <1>1
<1>4. ASSUME NEW k \in DOMAIN (q \o r), Counts((q \o r)[k]) PROVE k <= Len(q) + m
  <2>1. CASE k <= Len(q)
    BY <1>1, <2>1
  <2>2. CASE k > Len(q)
    <3>1. k - Len(q) \in DOMAIN r /\ k = Len(q) + (k - Len(q))
      BY <1>1, <2>2
    <3>2. Counts(r[k - Len(q)])
      BY <1>1, <1>4, <3>1
    <3>3. k - Len(q) <= m
      BY <1>2, <3>1, <3>2
    <3>. QED BY <1>1, <3>1, <3>3
  <2>. QED BY <1>1, <2>1, <2>2
<1>. QED BY <1>2, <1>3, <1>4 DEF Says, Tells

\* The application reads a message: what it will have been told is the same.
LEMMA SaysTail ==
    ASSUME NEW q \in Seq(Message), q # <<>>, NEW g, NEW n, Says(q, g, n)
    PROVE  Says(Tail(q), IF Counts(Head(q)) THEN [count |-> Head(q).count, told |-> TRUE] ELSE g, n)
<1> DEFINE h == IF Counts(Head(q)) THEN [count |-> Head(q).count, told |-> TRUE] ELSE g
<1>1. /\ Len(q) \in Nat \ {0} /\ DOMAIN q = 1..Len(q) /\ Head(q) = q[1]
      /\ Tail(q) \in Seq(Message) /\ Len(Tail(q)) = Len(q) - 1 /\ DOMAIN Tail(q) = 1..(Len(q) - 1)
      /\ \A m \in 1..(Len(q) - 1) : Tail(q)[m] = q[m + 1]
  OBVIOUS
<1>2. CASE Tells(q, n)
  <2>1. PICK m \in DOMAIN q : Counts(q[m]) /\ q[m].count = n /\ \A k \in DOMAIN q : Counts(q[k]) => k <= m
    BY <1>2 DEF Tells
  <2>2. CASE m = 1
    <3>1. Quiet(Tail(q))
      <4>1. ASSUME NEW k \in DOMAIN Tail(q) PROVE ~Counts(Tail(q)[k])
        <5>1. k + 1 \in DOMAIN q /\ Tail(q)[k] = q[k + 1] /\ ~(k + 1 <= m)
          BY <1>1, <2>2
        <5>. QED BY <2>1, <5>1
      <4>. QED BY <4>1 DEF Quiet
    <3>2. n = Known(h)
      BY <1>1, <2>1, <2>2 DEF Known
    <3>. QED BY <3>1, <3>2 DEF Says
  <2>3. CASE m # 1
    <3>1. m - 1 \in DOMAIN Tail(q) /\ Tail(q)[m - 1] = q[m]
      BY <1>1, <2>1, <2>3
    <3>2. ASSUME NEW k \in DOMAIN Tail(q), Counts(Tail(q)[k]) PROVE k <= m - 1
      <4>1. k + 1 \in DOMAIN q /\ Tail(q)[k] = q[k + 1]
        BY <1>1
      <4>2. k + 1 <= m
        BY <2>1, <3>2, <4>1
      <4>. QED BY <1>1, <4>2
    <3>. QED BY <2>1, <3>1, <3>2 DEF Says, Tells
  <2>. QED BY <2>2, <2>3
<1>3. CASE Quiet(q) /\ n = Known(g)
  <2>1. ~Counts(Head(q))
    BY <1>1, <1>3 DEF Quiet
  <2>2. Quiet(Tail(q))
    <3>1. ASSUME NEW k \in DOMAIN Tail(q) PROVE ~Counts(Tail(q)[k])
      <4>1. k + 1 \in DOMAIN q /\ Tail(q)[k] = q[k + 1]
        BY <1>1
      <4>. QED BY <1>3, <4>1 DEF Quiet
    <3>. QED BY <3>1 DEF Quiet
  <2>. QED BY <1>3, <2>1, <2>2 DEF Says
<1>. QED BY <1>2, <1>3 DEF Says

-----------------------------------------------------------------------------
(* Control connections and their entries *)

\* Every entry is served under its own serial, so no two have the same; so is
\* the application's connection; an ended one has nothing on its way, and who
\* is not connected has been told nothing.
EntriesServed == \A i \in Instance : entry[i] # None => serving[entry[i].serial] = i
ControlsServed == \A i \in Instance : control[i] # None => serving[control[i]] = i
UnservedSilent == \A s \in Serial : serving[s] = None => ctl[s] = <<>>
UnconnectedUntold == \A i \in Instance : control[i] = None => ~gate[i].told
Served == EntriesServed /\ ControlsServed /\ UnservedSilent /\ UnconnectedUntold

\* A message for an instance is queued for the serial of its entry.
LEMMA QueueOf ==
    ASSUME TypeOK, EntriesServed, NEW M \in Messages
    PROVE  /\ \A i \in Instance : entry[i] # None
                => Queue(M)[entry[i].serial] = ctl[entry[i].serial] \o M[i]
           /\ \A s \in Serial : (\A i \in Instance : entry[i] # None => entry[i].serial # s)
                => Queue(M)[s] = ctl[s]
<1>0. entry \in [Instance -> Entry \cup {None}] /\ ctl \in [Serial -> Seq(Message)]
  BY DEF TypeOK
<1>1. ASSUME NEW i \in Instance, entry[i] # None
      PROVE  Queue(M)[entry[i].serial] = ctl[entry[i].serial] \o M[i]
  <2>1. entry[i].serial \in Serial
    BY <1>0, <1>1 DEF Entry
  <2>2. \A k \in Instance : entry[k] # None /\ entry[k].serial = entry[i].serial <=> k = i
    BY <1>1 DEF EntriesServed
  <2>3. (CHOOSE k \in Instance : entry[k] # None /\ entry[k].serial = entry[i].serial) = i
    BY <2>2
  <2>. QED BY <2>1, <2>2, <2>3 DEF Queue
<1>2. ASSUME NEW s \in Serial, \A i \in Instance : entry[i] # None => entry[i].serial # s
      PROVE  Queue(M)[s] = ctl[s]
  <2>1. Queue(M)[s] = ctl[s] \o <<>>
    BY <1>2 DEF Queue
  <2>2. ctl[s] \in Seq(Message)
    BY <1>0
  <2>. QED BY <2>1, <2>2
<1>. QED BY <1>1, <1>2

\* What a step may do to the entries and say to them: nobody is registered, the
\* serials stay, and a changed count is told.
Told(M) ==
    \A k \in Instance :
      entry'[k] # None
        => /\ entry[k] # None /\ entry'[k].serial = entry[k].serial
           /\ \/ Quiet(M[k]) /\ entry'[k].sessions = entry[k].sessions
              \/ Tells(M[k], entry'[k].sessions)

LEMMA ToldByQueue ==
    ASSUME TypeOK, Served, AllTold, NEW M \in Messages, Told(M), ctl' = Queue(M),
           UNCHANGED <<serving, control, gate>>
    PROVE  Served' /\ AllTold'
<1>0. entry \in [Instance -> Entry \cup {None}] /\ ctl \in [Serial -> Seq(Message)]
  BY DEF TypeOK
<1>1. EntriesServed'
  BY DEF Served, EntriesServed, Told
<1>2. ControlsServed' /\ UnconnectedUntold'
  BY DEF Served, ControlsServed, UnconnectedUntold
<1>3. UnservedSilent'
  <2> SUFFICES ASSUME NEW s \in Serial, serving[s] = None PROVE ctl'[s] = <<>>
    BY DEF UnservedSilent
  <2>1. \A i \in Instance : entry[i] # None => entry[i].serial # s
    BY NoneAssumption DEF Served, EntriesServed
  <2>. QED BY <2>1, QueueOf DEF Served, UnservedSilent
<1>4. AllTold'
  <2> SUFFICES ASSUME NEW i \in Instance, control[i] # None, entry'[i] # None,
                      entry'[i].serial = control[i]
               PROVE  Says(ctl'[control[i]], gate[i], entry'[i].sessions)
    BY DEF AllTold
  <2> DEFINE s == control[i]
             n == entry'[i].sessions
  <2>1. entry[i] # None /\ entry[i].serial = s /\ s \in Serial
    BY <1>0 DEF Told, Entry
  <2>2. ctl'[s] = ctl[s] \o M[i] /\ ctl[s] \in Seq(Message) /\ M[i] \in Seq(Message)
    BY <1>0, <2>1, QueueOf DEF Served, Messages
  <2>3. Says(ctl[s], gate[i], entry[i].sessions)
    BY <2>1 DEF AllTold
  <2>4. CASE Quiet(M[i]) /\ n = entry[i].sessions
    BY <2>2, <2>3, <2>4, QuietAppend DEF Says
  <2>5. CASE Tells(M[i], n)
    BY <2>2, <2>5, TellsAppend
  <2>. QED BY <2>4, <2>5 DEF Told
<1>. QED BY <1>1, <1>2, <1>3, <1>4 DEF Served

\* refresh_session_counts tells whom it counts anew.
LEMMA CountedTold ==
    ASSUME TypeOK, NEW kn \in SUBSET Conn, NEW bnd, NEW k \in Instance, Counted(kn, bnd)[k] # None
    PROVE  /\ entry[k] # None /\ Counted(kn, bnd)[k].serial = entry[k].serial
           /\ \/ Quiet(CountMessages(kn, bnd)[k]) /\ Counted(kn, bnd)[k].sessions = entry[k].sessions
              \/ Tells(CountMessages(kn, bnd)[k], Counted(kn, bnd)[k].sessions)
<1> DEFINE n == Count(kn, bnd, k)
<1>1. entry \in [Instance -> Entry \cup {None}]
  BY DEF TypeOK
<1>2. entry[k] \in Entry /\ entry[k] # None
  BY <1>1, CountedType
<1>3. Counted(kn, bnd)[k].serial = entry[k].serial /\ Counted(kn, bnd)[k].sessions = n
  BY <1>2 DEF Counted, Entry
<1>4. CASE entry[k].sessions = n
  <2>1. CountMessages(kn, bnd)[k] = <<>>
    BY <1>4 DEF CountMessages
  <2>2. Quiet(<<>>)
    BY DEF Quiet
  <2>. QED BY <1>2, <1>3, <1>4, <2>1, <2>2
<1>5. CASE entry[k].sessions # n
  <2>1. CountMessages(kn, bnd)[k] = <<Sessions(n)>>
    BY <1>2, <1>5 DEF CountMessages
  <2>2. Counts(Sessions(n)) /\ Sessions(n).count = n
    BY DEF Counts, Sessions
  <2>3. Tells(<<Sessions(n)>>, n)
    <3>1. /\ DOMAIN <<Sessions(n)>> = {1} /\ <<Sessions(n)>>[1] = Sessions(n)
          /\ \A m \in {1} : m <= 1
      OBVIOUS
    <3> HIDE DEF n
    <3>. QED BY <2>2, <3>1 DEF Tells
  <2>. QED BY <1>2, <1>3, <2>1, <2>3
<1>. QED BY <1>4, <1>5

LEMMA RefreshTold ==
    ASSUME TypeOK, Served, AllTold, NEW kn \in SUBSET Conn, NEW bnd, Refresh(kn, bnd),
           UNCHANGED <<serving, control, gate>>
    PROVE  Served' /\ AllTold'
<1>1. CountMessages(kn, bnd) \in Messages
  BY CountMessagesType
<1>2. Told(CountMessages(kn, bnd))
  BY CountedTold DEF Told, Refresh
<1>. QED BY <1>1, <1>2, ToldByQueue DEF Refresh

\* ensure_relay tells no count.
LEMMA EnsuredQuiet ==
    ASSUME NEW e \in Entry, NEW r \in Ensured(e)
    PROVE  r[1].serial = e.serial /\ r[1].sessions = e.sessions /\ Quiet(r[2])
<1>1. CASE e.relay = None /\ e.token = None
  <2>1. PICK t \in Token : r = <<[e EXCEPT !.idle = FALSE, !.token = t], <<Ensure(t)>>>>
    BY <1>1 DEF Ensured
  <2>2. DOMAIN <<Ensure(t)>> = {1} /\ <<Ensure(t)>>[1].kind = "ensure"
    BY DEF Ensure
  <2>. QED BY <2>1, <2>2 DEF Entry, Quiet, Counts
<1>2. CASE ~(e.relay = None /\ e.token = None)
  <2>1. r = <<[e EXCEPT !.idle = FALSE], <<>>>>
    BY <1>2 DEF Ensured
  <2>. QED BY <2>1 DEF Entry, Quiet
<1>. QED BY <1>1, <1>2

\* Writing to the entries what is no business of the application's.
LEMMA ToldAnyway ==
    ASSUME TypeOK, Served, AllTold, UNCHANGED <<serving, control, gate, ctl>>,
           \A k \in Instance : entry'[k] # None
             => entry[k] # None /\ entry'[k].serial = entry[k].serial /\ entry'[k].sessions = entry[k].sessions
    PROVE  Served' /\ AllTold'
<1>1. Served'
  BY DEF Served, EntriesServed, ControlsServed, UnservedSilent, UnconnectedUntold
<1>2. AllTold'
  BY DEF AllTold
<1>. QED BY <1>1, <1>2

LEMMA AttachTold ==
    ASSUME TypeOK, Served, AllTold, NEW j \in Job, Attach(j), job[j].conn \in Conn,
           job[j].inst \in Instance
    PROVE  Served' /\ AllTold'
<1> DEFINE c == job[j].conn
           i == job[j].inst
<1>0. known \in SUBSET Conn /\ entry \in [Instance -> Entry \cup {None}] /\ UNCHANGED <<serving, control, gate>>
  BY DEF TypeOK, Attach, appVars
<1>1. CASE entry[i] = None
  <2>1. Refresh(known, Unbind(c)) \/ UNCHANGED <<entry, ctl>>
    BY <1>1 DEF Attach
  <2>. QED BY <1>0, <2>1, RefreshTold, ToldAnyway
<1>2. CASE entry[i] # None
  <2> DEFINE bnd == [bound EXCEPT ![c] = [inst |-> i, serial |-> entry[i].serial]]
             counted == Counted(known, bnd)
             told == CountMessages(known, bnd)
  <2>1. PICK r \in Ensured(counted[i]) :
          /\ entry' = [counted EXCEPT ![i] = r[1]]
          /\ ctl' = Queue([told EXCEPT ![i] = @ \o r[2]])
    BY <1>2 DEF Attach
  <2>2. counted[i] \in Entry /\ counted \in [Instance -> Entry \cup {None}] /\ told \in Messages
    BY <1>0, <1>2, CountedType, CountMessagesType
  <2>3. r[1] \in Entry /\ r[2] \in Seq(Message)
    BY <2>2, EnsuredType
  <2>4. r[1].serial = counted[i].serial /\ r[1].sessions = counted[i].sessions /\ Quiet(r[2])
    BY <2>2, EnsuredQuiet
  <2>5. \A k \in Instance : counted[k] # None
          => /\ entry[k] # None /\ counted[k].serial = entry[k].serial
             /\ \/ Quiet(told[k]) /\ counted[k].sessions = entry[k].sessions
                \/ Tells(told[k], counted[k].sessions)
    BY <1>0, CountedTold
  <2> DEFINE M == [told EXCEPT ![i] = @ \o r[2]]
  <2>6. told[i] \in Seq(Message) /\ counted[i] # None
    BY <1>0, <2>2, NoneAssumption DEF Messages
  <2> HIDE DEF counted, told
  <2>7. told[i] \o r[2] \in Seq(Message)
    BY <2>3, <2>6
  <2>8. M \in Messages /\ M[i] = told[i] \o r[2] /\ \A k \in Instance : k # i => M[k] = told[k]
    BY <2>2, <2>7 DEF Messages
  <2>9. \/ Quiet(M[i]) /\ r[1].sessions = entry[i].sessions
        \/ Tells(M[i], r[1].sessions)
    <3>1. CASE Quiet(told[i]) /\ counted[i].sessions = entry[i].sessions
      BY <2>3, <2>4, <2>6, <2>8, <3>1, QuietAppend
    <3>2. CASE Tells(told[i], counted[i].sessions)
      BY <2>3, <2>4, <2>6, <2>8, <3>2, QuietAppend
    <3>. QED BY <2>5, <2>6, <3>1, <3>2
  <2>10. ctl' = Queue(M)
    BY <2>1
  <2> HIDE DEF M
  <2>11. entry'[i] = r[1] /\ \A k \in Instance : k # i => entry'[k] = counted[k]
    BY <2>1, <2>2
  <2>12. Told(M)
    <3> SUFFICES ASSUME NEW k \in Instance, entry'[k] # None
                 PROVE  /\ entry[k] # None /\ entry'[k].serial = entry[k].serial
                        /\ \/ Quiet(M[k]) /\ entry'[k].sessions = entry[k].sessions
                           \/ Tells(M[k], entry'[k].sessions)
      BY DEF Told
    <3>1. CASE k = i
      BY <2>4, <2>5, <2>6, <2>9, <2>11, <3>1
    <3>2. CASE k # i
      BY <2>5, <2>8, <2>11, <3>2
    <3>. QED BY <3>1, <3>2
  <2>. QED BY <1>0, <2>8, <2>10, <2>12, ToldByQueue
<1>. QED BY <1>1, <1>2

\* A control connection begins, breaks, is read or ends.
LEMMA RegisterTold ==
    ASSUME TypeOK, Served, AllTold, NEW i \in Instance, Register(i)
    PROVE  Served' /\ AllTold'
<1>0. /\ entry \in [Instance -> Entry \cup {None}] /\ control \in [Instance -> Serial \cup {None}]
      /\ serving \in [Serial -> Instance \cup {None}]
  BY DEF TypeOK
<1>1. PICK s \in Serial :
        /\ Fresh(s)
        /\ control' = [control EXCEPT ![i] = s]
        /\ serving' = [serving EXCEPT ![s] = i]
        /\ entry' = [entry EXCEPT ![i] = NewEntry(s)]
  BY DEF Register
<1>2. control[i] = None /\ ctl' = ctl /\ gate' = gate
  BY DEF Register
<1>3. NewEntry(s).serial = s /\ NewEntry(s).sessions = 0 /\ entry'[i] = NewEntry(s) /\ control'[i] = s
  BY <1>0, <1>1 DEF NewEntry
<1>4. serving[s] = None /\ \A k \in Instance : control[k] # s /\ (entry[k] # None => entry[k].serial # s)
  BY <1>1 DEF Fresh
<1>5. ctl[s] = <<>> /\ ~gate[i].told
  BY <1>2, <1>4 DEF Served, UnservedSilent, UnconnectedUntold
<1>6. \A k \in Instance : k # i => entry'[k] = entry[k] /\ control'[k] = control[k]
  BY <1>0, <1>1
<1>7. \A k \in Instance : entry[k] # None => entry[k].serial \in Serial
  BY <1>0 DEF Entry
<1>8. \A k \in Instance : control[k] # None => control[k] \in Serial
  BY <1>0
<1>9. \A u \in Serial : u # s => serving'[u] = serving[u]
  BY <1>0, <1>1
<1>10. serving'[s] = i
  BY <1>0, <1>1
<1>11. EntriesServed'
  BY <1>3, <1>4, <1>6, <1>7, <1>9, <1>10 DEF Served, EntriesServed
<1>12. ControlsServed'
  BY <1>3, <1>4, <1>6, <1>8, <1>9, <1>10 DEF Served, ControlsServed
<1>13. UnservedSilent'
  BY <1>2, <1>9, <1>10, NoneAssumption DEF Served, UnservedSilent
<1>14. UnconnectedUntold'
  BY <1>2, <1>5, <1>6 DEF Served, UnconnectedUntold
<1>15. AllTold'
  <2> SUFFICES ASSUME NEW k \in Instance, control'[k] # None, entry'[k] # None,
                      entry'[k].serial = control'[k]
               PROVE  Says(ctl[control'[k]], gate[k], entry'[k].sessions)
    BY <1>2 DEF AllTold
  <2>1. CASE k = i
    BY <1>3, <1>5, <2>1 DEF Says, Quiet, Known
  <2>2. CASE k # i
    BY <1>6, <2>2 DEF AllTold
  <2>. QED BY <2>1, <2>2
<1>. QED BY <1>11, <1>12, <1>13, <1>14, <1>15 DEF Served

LEMMA ControlBreaksTold ==
    ASSUME TypeOK, Served, AllTold, NEW i \in Instance, ControlBreaks(i)
    PROVE  Served' /\ AllTold'
<1>0. /\ control \in [Instance -> Serial \cup {None}]
      /\ gate \in [Instance -> [count : 0..Cardinality(Conn), told : BOOLEAN]]
  BY DEF TypeOK
<1>1. control'[i] = None /\ UNCHANGED <<entry, serving, ctl>> /\ ~gate'[i].told
  BY <1>0 DEF ControlBreaks, daemonVars
<1>2. \A k \in Instance : k # i => control'[k] = control[k] /\ gate'[k] = gate[k]
  BY <1>0 DEF ControlBreaks
<1>3. Served'
  BY <1>1, <1>2 DEF Served, EntriesServed, ControlsServed, UnservedSilent, UnconnectedUntold
<1>4. AllTold'
  BY <1>1, <1>2 DEF AllTold
<1>. QED BY <1>3, <1>4

LEMMA AppHandlesTold ==
    ASSUME TypeOK, Served, AllTold, NEW i \in Instance, AppHandles(i)
    PROVE  Served' /\ AllTold'
<1> DEFINE s == control[i]
           m == Head(ctl[s])
<1>0. /\ control \in [Instance -> Serial \cup {None}] /\ ctl \in [Serial -> Seq(Message)]
      /\ gate \in [Instance -> [count : 0..Cardinality(Conn), told : BOOLEAN]]
      /\ s \in Serial /\ ctl[s] # <<>>
  BY DEF TypeOK, AppHandles
<1>1. UNCHANGED <<entry, serving, control>>
  BY DEF AppHandles, daemonVars
<1>2. ctl'[s] = Tail(ctl[s]) /\ \A u \in Serial : u # s => ctl'[u] = ctl[u]
  BY <1>0 DEF AppHandles
<1>3. /\ gate'[i] = IF Counts(m) THEN [count |-> m.count, told |-> TRUE] ELSE gate[i]
      /\ \A k \in Instance : k # i => gate'[k] = gate[k]
  BY <1>0 DEF AppHandles, Counts
<1>4. \A k \in Instance : control[k] # None /\ k # i => control[k] \in Serial /\ control[k] # s
  BY <1>0, NoneAssumption DEF Served, ControlsServed
<1>5. Served'
  <2>1. UnservedSilent'
    BY <1>0, <1>1, <1>2, NoneAssumption DEF Served, UnservedSilent, ControlsServed
  <2>2. UnconnectedUntold'
    BY <1>0, <1>1, <1>3, NoneAssumption DEF Served, UnconnectedUntold
  <2>. QED BY <1>1, <2>1, <2>2 DEF Served, EntriesServed, ControlsServed
<1>6. AllTold'
  <2> SUFFICES ASSUME NEW k \in Instance, control[k] # None, entry[k] # None, entry[k].serial = control[k]
               PROVE  Says(ctl'[control[k]], gate'[k], entry[k].sessions)
    BY <1>1 DEF AllTold
  <2>1. Says(ctl[control[k]], gate[k], entry[k].sessions)
    BY DEF AllTold
  <2>2. CASE k = i
    BY <1>0, <1>2, <1>3, <2>1, <2>2, SaysTail
  <2>3. CASE k # i
    BY <1>2, <1>3, <1>4, <2>1, <2>3
  <2>. QED BY <2>2, <2>3
<1>. QED BY <1>5, <1>6

\* The ended connection's queue goes with it; its entry, when it still has it,
\* goes too, and the others are counted anew.
LEMMA ControlEndsTold ==
    ASSUME TypeOK, Served, AllTold, NEW s \in Serial, ControlEnds(s)
    PROVE  Served' /\ AllTold'
<1> DEFINE i == serving[s]
           own == entry[i] # None /\ entry[i].serial = s
           bnd == [c \in Conn |-> IF own /\ c \in Attached(known, bound, i) THEN None ELSE bound[c]]
           M == CountMessages(known, bnd)
           counted == Counted(known, bnd)
<1>0. /\ known \in SUBSET Conn /\ entry \in [Instance -> Entry \cup {None}]
      /\ ctl \in [Serial -> Seq(Message)] /\ serving \in [Serial -> Instance \cup {None}]
      /\ control \in [Instance -> Serial \cup {None}]
  BY DEF TypeOK
<1>1. i \in Instance /\ control[i] # s
  BY <1>0 DEF ControlEnds
<1>2. /\ entry' = IF own THEN [counted EXCEPT ![i] = None] ELSE entry
      /\ ctl' = [IF own THEN Queue(M) ELSE ctl EXCEPT ![s] = <<>>]
      /\ serving' = [serving EXCEPT ![s] = None]
  BY DEF ControlEnds
<1>3. UNCHANGED <<control, gate>>
  BY DEF ControlEnds, appVars
<1>4. M \in Messages /\ counted \in [Instance -> Entry \cup {None}]
  BY <1>0, CountMessagesType, CountedType
<1>5. Queue(M) \in [Serial -> Seq(Message)]
  BY <1>0, <1>4, QueueType
<1>6. \A k \in Instance : counted[k] # None
        => /\ entry[k] # None /\ counted[k].serial = entry[k].serial
           /\ \/ Quiet(M[k]) /\ counted[k].sessions = entry[k].sessions
              \/ Tells(M[k], counted[k].sessions)
  BY <1>0, CountedTold
<1>7. /\ \A k \in Instance : entry[k] # None => Queue(M)[entry[k].serial] = ctl[entry[k].serial] \o M[k]
      /\ \A u \in Serial : (\A k \in Instance : entry[k] # None => entry[k].serial # u) => Queue(M)[u] = ctl[u]
  BY <1>4, QueueOf DEF Served
<1> HIDE DEF bnd, M, counted
<1>8. serving'[s] = None /\ \A u \in Serial : u # s => serving'[u] = serving[u]
  BY <1>0, <1>2
<1>9. ctl'[s] = <<>> /\ \A u \in Serial : u # s => ctl'[u] = IF own THEN Queue(M)[u] ELSE ctl[u]
  BY <1>0, <1>2, <1>5
\* Who still has an entry had it, under another serial.
<1>10. ASSUME NEW k \in Instance, entry'[k] # None
       PROVE  /\ entry[k] # None /\ entry'[k].serial = entry[k].serial /\ entry[k].serial \in Serial \ {s}
              /\ entry'[k] = IF own THEN counted[k] ELSE entry[k]
  <2>1. CASE own
    <3>1. k # i /\ entry'[k] = counted[k]
      BY <1>0, <1>1, <1>2, <1>4, <1>10, <2>1
    <3>2. entry[k] # None /\ counted[k].serial = entry[k].serial
      BY <1>6, <1>10, <3>1
    <3>3. serving[entry[k].serial] = k /\ entry[k].serial \in Serial
      BY <1>0, <3>2 DEF Served, EntriesServed, Entry
    <3>. QED BY <2>1, <3>1, <3>2, <3>3
  <2>2. CASE ~own
    <3>1. entry'[k] = entry[k] /\ entry[k] # None
      BY <1>2, <1>10, <2>2
    <3>2. serving[entry[k].serial] = k /\ entry[k].serial \in Serial
      BY <1>0, <3>1 DEF Served, EntriesServed, Entry
    <3>3. entry[k].serial # s
      BY <2>2, <3>1, <3>2
    <3>. QED BY <2>2, <3>1, <3>2, <3>3
  <2>. QED BY <2>1, <2>2
<1>11. EntriesServed'
  BY <1>8, <1>10 DEF Served, EntriesServed
<1>12. ControlsServed'
  <2> SUFFICES ASSUME NEW k \in Instance, control[k] # None PROVE serving'[control[k]] = k
    BY <1>3 DEF ControlsServed
  <2>1. serving[control[k]] = k /\ control[k] \in Serial
    BY <1>0 DEF Served, ControlsServed
  <2>. QED BY <1>1, <1>8, <2>1
<1>13. UnservedSilent'
  <2> SUFFICES ASSUME NEW u \in Serial, u # s, serving[u] = None PROVE ctl'[u] = <<>>
    BY <1>8, <1>9 DEF UnservedSilent
  <2>1. \A k \in Instance : entry[k] # None => entry[k].serial # u
    BY NoneAssumption DEF Served, EntriesServed
  <2>2. ctl[u] = <<>>
    BY DEF Served, UnservedSilent
  <2>. QED BY <1>7, <1>9, <2>1, <2>2
<1>14. UnconnectedUntold'
  BY <1>3 DEF Served, UnconnectedUntold
<1>15. AllTold'
  <2> SUFFICES ASSUME NEW k \in Instance, control[k] # None, entry'[k] # None,
                      entry'[k].serial = control[k]
               PROVE  Says(ctl'[control[k]], gate[k], entry'[k].sessions)
    BY <1>3 DEF AllTold
  <2> DEFINE u == control[k]
  <2>1. /\ entry[k] # None /\ entry[k].serial = u /\ u \in Serial \ {s}
        /\ entry'[k] = IF own THEN counted[k] ELSE entry[k]
    BY <1>10
  <2>2. Says(ctl[u], gate[k], entry[k].sessions)
    BY <2>1 DEF AllTold
  <2>3. CASE ~own
    BY <1>9, <2>1, <2>2, <2>3
  <2>4. CASE own
    <3>1. ctl'[u] = ctl[u] \o M[k] /\ ctl[u] \in Seq(Message) /\ M[k] \in Seq(Message)
      <4>1. ctl'[u] = Queue(M)[u] /\ Queue(M)[entry[k].serial] = ctl[entry[k].serial] \o M[k]
        BY <1>7, <1>9, <2>1, <2>4
      <4>2. ctl[u] \in Seq(Message) /\ M[k] \in Seq(Message)
        BY <1>0, <1>4, <2>1 DEF Messages
      <4>. QED BY <2>1, <4>1, <4>2
    <3>2. counted[k] # None /\ entry'[k] = counted[k]
      BY <2>1, <2>4
    <3>3. CASE Quiet(M[k]) /\ counted[k].sessions = entry[k].sessions
      BY <2>2, <3>1, <3>2, <3>3, QuietAppend DEF Says
    <3>4. CASE Tells(M[k], counted[k].sessions)
      BY <3>1, <3>2, <3>4, TellsAppend
    <3>. QED BY <1>6, <3>2, <3>3, <3>4
  <2>. QED BY <2>3, <2>4
<1>. QED BY <1>11, <1>12, <1>13, <1>14, <1>15 DEF Served

\* Something other than a count is asked of one instance.
LEMMA AskedTold ==
    ASSUME TypeOK, Served, AllTold, NEW i \in Instance, entry[i] # None,
           NEW e, NEW q \in Seq(Message), Quiet(q),
           e # None => e.serial = entry[i].serial /\ e.sessions = entry[i].sessions,
           entry' = [entry EXCEPT ![i] = e],
           ctl' = Queue([k \in Instance |-> IF k = i THEN q ELSE <<>>]),
           UNCHANGED <<serving, control, gate>>
    PROVE  Served' /\ AllTold'
<1> DEFINE M == [k \in Instance |-> IF k = i THEN q ELSE <<>>]
<1>1. M \in Messages
  BY OneMessage
<1>2. \A k \in Instance : Quiet(M[k])
  BY DEF Quiet
<1>3. \A k \in Instance : entry'[k] = IF k = i THEN e ELSE entry[k]
  BY DEF TypeOK
<1> HIDE DEF M
<1>4. Told(M)
  BY <1>2, <1>3 DEF Told
<1>5. ctl' = Queue(M)
  BY DEF M
<1>. QED BY <1>1, <1>4, <1>5, ToldByQueue

LEMMA RelaysTold ==
    ASSUME TypeOK, LinksNamed, Served, AllTold, NEW t \in Token,
           RelayConnects(t) \/ RelayUp(t) \/ RelayEnds(t)
    PROVE  Served' /\ AllTold'
<1> DEFINE i == link[t].inst
<1>0. entry \in [Instance -> Entry \cup {None}] /\ i \in Instance /\ UNCHANGED <<serving, control, gate>>
  BY DEF TypeOK, LinksNamed, RelayConnects, RelayUp, RelayEnds, appVars
<1>1. CASE entry[i] = None
  <2>1. UNCHANGED <<entry, ctl>>
    BY <1>1 DEF RelayConnects, RelayUp, RelayEnds
  <2>. QED BY <1>0, <2>1, ToldAnyway
<1>2. CASE entry[i] # None
  <2>1. entry[i] \in Entry
    BY <1>0, <1>2
  <2>2. CASE RelayConnects(t) \/ RelayUp(t)
    <3>1. ctl' = ctl /\ \A k \in Instance : k # i => entry'[k] = entry[k]
      BY <1>0, <2>2 DEF RelayConnects, RelayUp
    <3>2. entry'[i].serial = entry[i].serial /\ entry'[i].sessions = entry[i].sessions
      BY <1>0, <2>1, <2>2 DEF RelayConnects, RelayUp, Entry
    <3>. QED BY <1>0, <1>2, <3>1, <3>2, ToldAnyway
  <2>3. CASE RelayEnds(t)
    <3> DEFINE gone == [entry[i] EXCEPT !.relay = None]
    <3>0. gone \in Entry /\ gone.serial = entry[i].serial /\ gone.sessions = entry[i].sessions
      BY <2>1 DEF Entry
    <3>1. CASE UNCHANGED <<entry, ctl>>
      BY <1>0, <3>1, ToldAnyway
    <3>2. CASE entry' = [entry EXCEPT ![i] = gone] /\ UNCHANGED ctl
      <4>1. \A k \in Instance : entry'[k] = IF k = i THEN gone ELSE entry[k]
        BY <1>0, <3>2
      <4> HIDE DEF gone
      <4>. QED BY <1>0, <1>2, <3>0, <3>2, <4>1, ToldAnyway
    <3>3. CASE \E r \in Ensured(gone) :
                 /\ entry' = [entry EXCEPT ![i] = r[1]]
                 /\ ctl' = Queue([k \in Instance |-> IF k = i THEN r[2] ELSE <<>>])
      <4>1. PICK r \in Ensured(gone) :
              /\ entry' = [entry EXCEPT ![i] = r[1]]
              /\ ctl' = Queue([k \in Instance |-> IF k = i THEN r[2] ELSE <<>>])
        BY <3>3
      <4> HIDE DEF gone
      <4>2. r[1].serial = entry[i].serial /\ r[1].sessions = entry[i].sessions /\ Quiet(r[2])
            /\ r[2] \in Seq(Message)
        BY <3>0, EnsuredQuiet, EnsuredType
      <4>. QED BY <1>0, <1>2, <4>1, <4>2, AskedTold
    <3>. QED BY <2>3, <3>1, <3>2, <3>3 DEF RelayEnds
  <2>. QED BY <2>2, <2>3
<1>. QED BY <1>1, <1>2

LEMMA TimersTold ==
    ASSUME TypeOK, Served, AllTold, NEW i \in Instance, TokenExpires(i) \/ LingerPasses(i)
    PROVE  Served' /\ AllTold'
<1>0. entry \in [Instance -> Entry \cup {None}] /\ entry[i] \in Entry /\ entry[i] # None
      /\ UNCHANGED <<serving, control, gate>>
  BY DEF TypeOK, TokenExpires, LingerPasses, appVars
<1>1. CASE TokenExpires(i)
  <2>1. ctl' = ctl /\ \A k \in Instance : k # i => entry'[k] = entry[k]
    BY <1>0, <1>1 DEF TokenExpires
  <2>2. entry'[i].serial = entry[i].serial /\ entry'[i].sessions = entry[i].sessions
    BY <1>0, <1>1 DEF TokenExpires, Entry
  <2>. QED BY <1>0, <2>1, <2>2, ToldAnyway
<1>2. CASE LingerPasses(i)
  <2> DEFINE e == [entry[i] EXCEPT !.idle = FALSE]
  <2>1. entry' = [entry EXCEPT ![i] = e]
    BY <1>0, <1>2 DEF LingerPasses
  <2>2. e.serial = entry[i].serial /\ e.sessions = entry[i].sessions
    BY <1>0 DEF Entry
  <2>3. Drop \in Message /\ Quiet(<<Drop>>)
    BY DEF Message, Drop, Quiet, Counts
  <2>4. ctl' = Queue([k \in Instance |-> IF k = i THEN <<Drop>> ELSE <<>>])
    BY <1>2 DEF LingerPasses
  <2>5. <<Drop>> \in Seq(Message)
    BY <2>3
  <2> HIDE DEF e
  <2>. QED BY <1>0, <2>1, <2>2, <2>3, <2>4, <2>5, AskedTold
<1>. QED BY <1>1, <1>2

LEMMA NextTold ==
    ASSUME IInv, Served, AllTold, [Next]_vars
    PROVE  Served' /\ AllTold'
<1>0. TypeOK /\ JobsNamed /\ LinksNamed /\ known \in SUBSET Conn
  BY DEF IInv, TypeOK
<1>1. ASSUME NEW c \in Conn, Detach(c) \/ EndConn(c) PROVE Served' /\ AllTold'
  <2>1. UNCHANGED <<serving, control, gate>>
    BY <1>1 DEF Detach, EndConn, appVars
  <2>2. \/ Refresh(known, Unbind(c)) \/ Refresh(known \ {c}, Unbind(c))
        \/ UNCHANGED <<entry, ctl>>
    BY <1>1 DEF Detach, EndConn
  <2>3. known \ {c} \in SUBSET Conn
    BY <1>0
  <2>. QED BY <1>0, <2>1, <2>2, <2>3, RefreshTold, ToldAnyway
<1>2. ASSUME NEW j \in Job, Attach(j) PROVE Served' /\ AllTold'
  <2>1. job[j].conn \in Conn /\ job[j].inst \in Instance
    BY <1>0, <1>2 DEF Attach, JobsNamed
  <2>. QED BY <1>0, <1>2, <2>1, AttachTold
<1>3. ASSUME NEW j \in Job, AttachFails(j) PROVE Served' /\ AllTold'
  <2>1. UNCHANGED <<serving, control, gate>> /\ Refresh(known, [bound EXCEPT ![job[j].conn] = None])
    BY <1>3 DEF AttachFails, appVars
  <2>. QED BY <1>0, <2>1, RefreshTold
<1>4. CASE UNCHANGED <<entry, serving, ctl, control, gate>>
  BY <1>0, <1>4, ToldAnyway
<1>5. ASSUME \/ UNCHANGED vars
             \/ \E c \in Conn : Hello(c)
             \/ \E j \in Job : AttachOk(j) \/ \E c \in Conn, i \in Instance : Ask(j, c, i)
             \/ \E t \in Token : PageGone(t) \/ UpgradeFails(t)
      PROVE  UNCHANGED <<entry, serving, ctl, control, gate>>
  BY <1>5 DEF vars, daemonVars, appVars, Hello, AttachOk, Ask, PageGone, UpgradeFails
<1>. QED
  BY <1>0, <1>1, <1>2, <1>3, <1>4, <1>5, RegisterTold, ControlBreaksTold, AppHandlesTold,
     ControlEndsTold, RelaysTold, TimersTold
  DEF Next

\* Every count is told, before the application's messages are read.
LEMMA AllToldAlways == Spec => []AllTold
<1>1. Init => Served /\ AllTold
  BY NoneAssumption DEF Init, Served, EntriesServed, ControlsServed, UnservedSilent,
     UnconnectedUntold, AllTold
<1>2. IInv /\ IInv' /\ Served /\ AllTold /\ [Next]_vars => (Served /\ AllTold)'
  BY NextTold
<1>. QED BY <1>1, <1>2, RouterIInv, PTL DEF Spec

\* The application's close button asks how many remote sessions it has.  Once
\* it has read what is on its way, it knows what the registry counts; only
\* where the registry counts none, and this connection has not been told so, it
\* may still believe the count of an earlier one.  However control connections,
\* reconnects and changes of counts cross, no session is missing from it.
THEOREM CountIsTold == Spec => []CountTold
<1>. QED BY AllToldAlways, AllToldSuffices, PTL

-----------------------------------------------------------------------------
(* What the last order in a queue is *)

\* What the application acts on: the relay webview is opened or destroyed.
IsOrder(m) == m.kind # "sessions"
Unordered(q) == \A n \in DOMAIN q : ~IsOrder(q[n])
Orders(q, m) == \E n \in DOMAIN q : q[n] = m /\ \A k \in DOMAIN q : IsOrder(q[k]) => k <= n
Asks(r, t) == Len(r) \in DOMAIN r /\ r[Len(r)] = Ensure(t) /\ \A n \in DOMAIN r : IsOrder(r[n]) => n = Len(r)

LEMMA Appended ==
    ASSUME NEW q \in Seq(Message), NEW r \in Seq(Message)
    PROVE  /\ Len(q) \in Nat /\ Len(r) \in Nat /\ Len(q \o r) = Len(q) + Len(r)
           /\ DOMAIN q = 1..Len(q) /\ DOMAIN r = 1..Len(r) /\ DOMAIN (q \o r) = 1..(Len(q) + Len(r))
           /\ \A n \in DOMAIN q : n \in DOMAIN (q \o r) /\ (q \o r)[n] = q[n]
           /\ \A n \in DOMAIN r : Len(q) + n \in DOMAIN (q \o r) /\ (q \o r)[Len(q) + n] = r[n]
           /\ \A n \in DOMAIN (q \o r) :
                n \notin DOMAIN q => n - Len(q) \in DOMAIN r /\ (q \o r)[n] = r[n - Len(q)]
OBVIOUS

\* Counts change nothing of what is ordered.
LEMMA UnorderedAppend ==
    ASSUME NEW q \in Seq(Message), NEW r \in Seq(Message), Unordered(r), NEW m
    PROVE  /\ Orders(q, m) => Orders(q \o r, m)
           /\ Unordered(q) => Unordered(q \o r)
<1> DEFINE qr == q \o r
<1>1. /\ \A n \in DOMAIN q : n \in DOMAIN qr /\ qr[n] = q[n]
      /\ \A n \in DOMAIN qr : n \notin DOMAIN q => n - Len(q) \in DOMAIN r /\ qr[n] = r[n - Len(q)]
  BY Appended
<1> HIDE DEF qr
<1>2. \A n \in DOMAIN qr : IsOrder(qr[n]) => n \in DOMAIN q /\ qr[n] = q[n]
  BY <1>1 DEF Unordered
<1>3. Orders(q, m) => Orders(qr, m)
  BY <1>1, <1>2 DEF Orders
<1>4. Unordered(q) => Unordered(qr)
  BY <1>1, <1>2 DEF Unordered
<1>. QED BY <1>3, <1>4 DEF qr

\* What ends in a token's order orders it, whatever was ordered before.
LEMMA AsksAppend ==
    ASSUME NEW q \in Seq(Message), NEW r \in Seq(Message), NEW t, Asks(r, t)
    PROVE  Orders(q \o r, Ensure(t))
<1> DEFINE qr == q \o r
<1>1. /\ Len(q) \in Nat /\ Len(r) \in Nat /\ DOMAIN r = 1..Len(r) /\ DOMAIN qr = 1..(Len(q) + Len(r))
      /\ \A n \in DOMAIN r : Len(q) + n \in DOMAIN qr /\ qr[Len(q) + n] = r[n]
  BY Appended
<1> HIDE DEF qr
<1>2. Len(q) + Len(r) \in DOMAIN qr /\ qr[Len(q) + Len(r)] = Ensure(t)
  BY <1>1 DEF Asks
<1>3. \A k \in DOMAIN qr : k <= Len(q) + Len(r)
  BY <1>1
<1>4. Orders(qr, Ensure(t))
  BY <1>2, <1>3 DEF Orders
<1>. QED BY <1>4 DEF qr

\* The application reads a message: the last order is the one it got, or is
\* still to come.
LEMMA OrdersTail ==
    ASSUME NEW q \in Seq(Message), q # <<>>, NEW m
    PROVE  /\ Tail(q) \in Seq(Message)
           /\ \A n \in DOMAIN Tail(q) : n + 1 \in DOMAIN q /\ Tail(q)[n] = q[n + 1]
           /\ 1 \in DOMAIN q /\ Head(q) = q[1]
           /\ Unordered(q) => ~IsOrder(Head(q)) /\ Unordered(Tail(q))
           /\ Orders(q, m) => (Head(q) = m /\ Unordered(Tail(q))) \/ Orders(Tail(q), m)
<1> DEFINE r == Tail(q)
<1>1. /\ Len(q) \in Nat \ {0} /\ DOMAIN q = 1..Len(q) /\ Head(q) = q[1]
      /\ r \in Seq(Message) /\ DOMAIN r = 1..(Len(q) - 1)
      /\ \A n \in 1..(Len(q) - 1) : r[n] = q[n + 1]
  OBVIOUS
<1>2. /\ \A n \in DOMAIN r : n + 1 \in DOMAIN q /\ r[n] = q[n + 1]
      /\ 1 \in DOMAIN q
      /\ \A n \in DOMAIN q : n # 1 => n - 1 \in DOMAIN r /\ r[n - 1] = q[n]
      /\ \A n \in DOMAIN r : n \in Nat /\ n >= 1
      /\ \A n \in DOMAIN q : n \in Nat
  BY <1>1
<1> HIDE DEF r
<1>3. Unordered(q) => ~IsOrder(Head(q)) /\ Unordered(r)
  BY <1>1, <1>2 DEF Unordered
<1>4. ASSUME Orders(q, m) PROVE (Head(q) = m /\ Unordered(r)) \/ Orders(r, m)
  <2>1. PICK n \in DOMAIN q : q[n] = m /\ \A k \in DOMAIN q : IsOrder(q[k]) => k <= n
    BY <1>4 DEF Orders
  <2>2. CASE n = 1
    <3>1. ASSUME NEW k \in DOMAIN r PROVE ~IsOrder(r[k])
      <4>1. k + 1 \in DOMAIN q /\ r[k] = q[k + 1] /\ ~(k + 1 <= n)
        BY <1>2, <2>2
      <4>. QED BY <2>1, <4>1
    <3>. QED BY <1>1, <2>1, <2>2, <3>1 DEF Unordered
  <2>3. CASE n # 1
    <3>1. n - 1 \in DOMAIN r /\ r[n - 1] = m
      BY <1>2, <2>1, <2>3
    <3>2. ASSUME NEW k \in DOMAIN r, IsOrder(r[k]) PROVE k <= n - 1
      <4>1. k + 1 <= n
        BY <1>2, <2>1, <3>2
      <4>. QED BY <1>2, <4>1
    <3>. QED BY <3>1, <3>2 DEF Orders
  <2>. QED BY <2>2, <2>3
<1>. QED BY <1>1, <1>2, <1>3, <1>4 DEF r

-----------------------------------------------------------------------------
(* A relay is asked for, or on its way *)

Connected(i) == entry[i] # None /\ control[i] = entry[i].serial
Page(i) == [st |-> "page", inst |-> i]
Claimed(i) == [st |-> "claimed", inst |-> i]
Wanted(i) == \E c \in Conn : Registration(c, i)

\* An entry has a relay or a token for one; the mark of an idle one means that
\* neither a token nor a connection is there.
OneOfThem == \A i \in Instance : entry[i] # None /\ entry[i].relay # None => entry[i].token = None
IdleIsFree ==
    \A i \in Instance :
      entry[i] # None /\ entry[i].idle => entry[i].token = None /\ Attached(known, bound, i) = {}

\* A token is on its way once, and until it has arrived nothing is linked by it.
QueuesBounded == \A s \in Serial : Len(ctl[s]) <= MaxQueue
QueuedOnce ==
    \A t \in Token, s1, s2 \in Serial : \A n1 \in DOMAIN ctl[s1], n2 \in DOMAIN ctl[s2] :
      ctl[s1][n1] = Ensure(t) /\ ctl[s2][n2] = Ensure(t) => s1 = s2 /\ n1 = n2
QueuedUnlinked ==
    \A t \in Token, s \in Serial : \A n \in DOMAIN ctl[s] : ctl[s][n] = Ensure(t) => link[t] = NoLink

\* The token an entry waits for is the last order on its way, or its page is
\* there and no order is.
TokenAsked ==
    \A i \in Instance :
      Connected(i) /\ entry[i].token # None
        => \/ Orders(ctl[control[i]], Ensure(entry[i].token))
           \/ Unordered(ctl[control[i]]) /\ webview[i] = entry[i].token /\ link[entry[i].token] = Page(i)

\* Who is wanted, not late, and waits for nothing has a page that was let in.
WantedClaims ==
    \A i \in Instance :
      Connected(i) /\ Wanted(i) /\ ~entry[i].late /\ entry[i].relay = None /\ entry[i].token = None
        => Unordered(ctl[control[i]]) /\ \E t \in Token : webview[i] = t /\ link[t] = Claimed(i)

RelayInv ==
    OneOfThem /\ IdleIsFree /\ QueuesBounded /\ QueuedOnce /\ QueuedUnlinked /\ TokenAsked /\ WantedClaims

\* At most one order for a token is added: u, for a, at the end.
OneAsked(M, a, u) ==
    \A k \in Instance : \A n \in DOMAIN M[k] :
      M[k][n].kind = "ensure" => k = a /\ n = Len(M[k]) /\ M[k][n] = Ensure(u) /\ Unused(u)

\* What a step may do to the queues: M is added for the entries that stay,
\* and a queue that is nobody's may be cleared.
Added(M) ==
    /\ \A k \in Instance : entry'[k] # None
         => /\ entry[k] # None /\ entry'[k].serial = entry[k].serial
            /\ ctl'[entry[k].serial] = ctl[entry[k].serial] \o M[k]
    /\ \A s \in Serial : (\A k \in Instance : entry'[k] # None => entry[k].serial # s)
         => ctl'[s] \in {ctl[s], <<>>}

\* A token an entry waits for after the step was asked for by it, or left alone.
TokenStep(M, k) ==
    entry'[k] # None /\ entry'[k].token # None
      => \/ Asks(M[k], entry'[k].token)
         \/ /\ Unordered(M[k]) /\ entry'[k].token = entry[k].token
            /\ link[entry[k].token] = Page(k) /\ webview[k] = entry[k].token
                 => link'[entry[k].token] = link[entry[k].token]

\* Who waits for nothing after the step did so before, or its page is let in.
ClaimStep(M, k) ==
    entry'[k] # None /\ Wanted(k)' /\ ~entry'[k].late /\ entry'[k].relay = None /\ entry'[k].token = None
      => /\ Unordered(M[k])
         /\ \/ /\ Wanted(k) /\ ~entry[k].late /\ entry[k].relay = None /\ entry[k].token = None
               /\ \A t \in Token : webview[k] = t /\ link[t] = Claimed(k) => link'[t] = link[t]
            \/ /\ entry[k].token # None /\ webview[k] = entry[k].token
               /\ link[entry[k].token] = Page(k) /\ link'[entry[k].token] = Claimed(k)

\* What is on its way after a step was so before, or is what the step asked.
LEMMA QueuedBefore ==
    ASSUME TypeOK, Served, NEW M \in Messages, NEW a, NEW u, OneAsked(M, a, u), Added(M),
           NEW s \in Serial, NEW n \in DOMAIN ctl'[s], NEW t \in Token, ctl'[s][n] = Ensure(t)
    PROVE  \/ n \in DOMAIN ctl[s] /\ ctl[s][n] = Ensure(t)
           \/ a \in Instance /\ s = entry[a].serial /\ n = Len(ctl'[s]) /\ t = u /\ Unused(u)
<1>0. ctl \in [Serial -> Seq(Message)]
  BY DEF TypeOK
<1>1. CASE \A k \in Instance : entry'[k] # None => entry[k].serial # s
  <2>1. ctl'[s] \in {ctl[s], <<>>}
    BY <1>1 DEF Added
  <2>. QED BY <2>1
<1>2. CASE ~\A k \in Instance : entry'[k] # None => entry[k].serial # s
  <2>1. PICK k \in Instance : entry'[k] # None /\ entry[k].serial = s
    BY <1>2
  <2> DEFINE q == ctl[s]
             r == M[k]
  <2>2. ctl'[s] = q \o r /\ q \in Seq(Message) /\ r \in Seq(Message)
    BY <1>0, <2>1 DEF Added, Messages
  <2> HIDE DEF q, r
  <2>3. /\ Len(q) \in Nat /\ Len(r) \in Nat /\ Len(ctl'[s]) = Len(q) + Len(r)
        /\ DOMAIN q = 1..Len(q) /\ DOMAIN ctl'[s] = 1..(Len(q) + Len(r))
        /\ \A m \in DOMAIN q : ctl'[s][m] = q[m]
        /\ \A m \in DOMAIN ctl'[s] : m \notin DOMAIN q => m - Len(q) \in DOMAIN r /\ ctl'[s][m] = r[m - Len(q)]
    BY <2>2, Appended
  <2>4. CASE n \in DOMAIN q
    BY <2>3, <2>4 DEF q
  <2>5. CASE n \notin DOMAIN q
    <3>1. n - Len(q) \in DOMAIN r /\ r[n - Len(q)] = Ensure(t)
      BY <2>3, <2>5
    <3>2. r[n - Len(q)].kind = "ensure"
      BY <3>1 DEF Ensure
    <3>3. k = a /\ n - Len(q) = Len(r) /\ Ensure(t) = Ensure(u) /\ Unused(u)
      BY <3>1, <3>2 DEF OneAsked, r
    <3>4. t = u
      BY <3>3 DEF Ensure
    <3>5. n = Len(ctl'[s])
      <4>1. n \in Nat
        BY <2>3
      <4>. QED BY <2>3, <3>3, <4>1
    <3>. QED BY <2>1, <3>3, <3>4, <3>5
  <2>. QED BY <2>4, <2>5
<1>. QED BY <1>1, <1>2

\* A token nothing remembers is in no queue.
LEMMA UnusedUnqueued ==
    ASSUME TypeOK, QueuesBounded, NEW u, Unused(u)
    PROVE  \A s \in Serial : \A n \in DOMAIN ctl[s] : ctl[s][n] # Ensure(u)
<1> SUFFICES ASSUME NEW s \in Serial, NEW n \in DOMAIN ctl[s] PROVE ctl[s][n] # Ensure(u)
  OBVIOUS
<1>1. ctl[s] \in Seq(Message)
  BY DEF TypeOK
<1>2. Len(ctl[s]) \in Nat /\ DOMAIN ctl[s] = 1..Len(ctl[s])
  BY <1>1
<1>3. n \in 1..MaxQueue
  BY <1>2, QueueAssumption DEF QueuesBounded
<1>. QED BY <1>3 DEF Unused

\* The steps of the daemon, in these words.
LEMMA RelayStep ==
    ASSUME TypeOK, TypeOK', Served, RelayInv, (OneOfThem /\ IdleIsFree /\ QueuesBounded)',
           NEW M \in Messages, NEW a, NEW u, OneAsked(M, a, u), Added(M),
           UNCHANGED <<control, webview>>,
           \A t \in Token : link[t] = NoLink => link'[t] = NoLink,
           \A k \in Instance : TokenStep(M, k) /\ ClaimStep(M, k)
    PROVE  RelayInv'
<1>0. /\ ctl \in [Serial -> Seq(Message)] /\ entry \in [Instance -> Entry \cup {None}]
      /\ QueuesBounded /\ QueuedOnce /\ QueuedUnlinked /\ TokenAsked /\ WantedClaims
  BY DEF TypeOK, RelayInv
<1>1. QueuedOnce'
  <2> SUFFICES ASSUME NEW t \in Token, NEW s1 \in Serial, NEW s2 \in Serial,
                      NEW n1 \in DOMAIN ctl'[s1], NEW n2 \in DOMAIN ctl'[s2],
                      ctl'[s1][n1] = Ensure(t), ctl'[s2][n2] = Ensure(t)
               PROVE  s1 = s2 /\ n1 = n2
    BY DEF QueuedOnce
  <2> DEFINE Old(s, n) == n \in DOMAIN ctl[s] /\ ctl[s][n] = Ensure(t)
             New(s, n) == a \in Instance /\ s = entry[a].serial /\ n = Len(ctl'[s]) /\ t = u /\ Unused(u)
  <2>1. (Old(s1, n1) \/ New(s1, n1)) /\ (Old(s2, n2) \/ New(s2, n2))
    BY QueuedBefore
  <2>2. t = u /\ Unused(u) => ~Old(s1, n1) /\ ~Old(s2, n2)
    BY <1>0, UnusedUnqueued
  <2>3. Old(s1, n1) /\ Old(s2, n2) => s1 = s2 /\ n1 = n2
    BY <1>0 DEF QueuedOnce
  <2>. QED BY <2>1, <2>2, <2>3
<1>2. QueuedUnlinked'
  <2> SUFFICES ASSUME NEW t \in Token, NEW s \in Serial, NEW n \in DOMAIN ctl'[s], ctl'[s][n] = Ensure(t)
               PROVE  link'[t] = NoLink
    BY DEF QueuedUnlinked
  <2>1. \/ n \in DOMAIN ctl[s] /\ ctl[s][n] = Ensure(t)
        \/ t = u /\ Unused(u)
    BY QueuedBefore
  <2>2. link[t] = NoLink
    BY <1>0, <2>1 DEF QueuedUnlinked, Unused
  <2>. QED BY <2>2
<1>3. ASSUME NEW k \in Instance, entry'[k] # None, control[k] = entry'[k].serial
      PROVE  /\ Connected(k) /\ ctl'[control[k]] = ctl[control[k]] \o M[k]
             /\ ctl[control[k]] \in Seq(Message) /\ M[k] \in Seq(Message)
  <2>1. entry[k] # None /\ entry'[k].serial = entry[k].serial /\ entry[k].serial \in Serial
    BY <1>0, <1>3 DEF Added, Entry
  <2>. QED BY <1>0, <1>3, <2>1 DEF Added, Connected, Messages
<1>4. ASSUME NEW t \in Token, NEW i PROVE link[t] = Page(i) => \A s \in Serial : ~Orders(ctl[s], Ensure(t))
  BY <1>0 DEF QueuedUnlinked, Orders, Page, NoLink
<1>5. TokenAsked'
  <2> SUFFICES ASSUME NEW k \in Instance, entry'[k] # None, control[k] = entry'[k].serial, entry'[k].token # None
               PROVE  \/ Orders(ctl'[control[k]], Ensure(entry'[k].token))
                      \/ /\ Unordered(ctl'[control[k]]) /\ webview[k] = entry'[k].token
                         /\ link'[entry'[k].token] = Page(k)
    BY DEF TokenAsked, Connected
  <2> DEFINE q == ctl[control[k]]
             t == entry'[k].token
  <2>1. Connected(k) /\ ctl'[control[k]] = q \o M[k] /\ q \in Seq(Message) /\ M[k] \in Seq(Message)
    BY <1>3
  <2>2. CASE Asks(M[k], t)
    BY <2>1, <2>2, AsksAppend
  <2>3. CASE ~Asks(M[k], t)
    <3>1. /\ Unordered(M[k]) /\ t = entry[k].token
          /\ link[t] = Page(k) /\ webview[k] = t => link'[t] = link[t]
      BY <2>3 DEF TokenStep
    <3>2. Orders(q, Ensure(t)) \/ (Unordered(q) /\ webview[k] = t /\ link[t] = Page(k))
      BY <1>0, <2>1, <3>1 DEF TokenAsked
    <3>3. /\ Orders(q, Ensure(t)) => Orders(q \o M[k], Ensure(t))
          /\ Unordered(q) => Unordered(q \o M[k])
      BY <2>1, <3>1, UnorderedAppend
    <3>. QED BY <2>1, <3>1, <3>2, <3>3
  <2>. QED BY <2>2, <2>3
<1>6. WantedClaims'
  <2> SUFFICES ASSUME NEW k \in Instance, entry'[k] # None, control[k] = entry'[k].serial, Wanted(k)',
                      ~entry'[k].late, entry'[k].relay = None, entry'[k].token = None
               PROVE  Unordered(ctl'[control[k]]) /\ \E t \in Token : webview[k] = t /\ link'[t] = Claimed(k)
    BY DEF WantedClaims, Connected, Claimed
  <2> DEFINE q == ctl[control[k]]
             Before == /\ Wanted(k) /\ ~entry[k].late /\ entry[k].relay = None /\ entry[k].token = None
                       /\ \A t \in Token : webview[k] = t /\ link[t] = Claimed(k) => link'[t] = link[t]
             LetIn == /\ entry[k].token # None /\ webview[k] = entry[k].token
                      /\ link[entry[k].token] = Page(k) /\ link'[entry[k].token] = Claimed(k)
  <2>1. Connected(k) /\ ctl'[control[k]] = q \o M[k] /\ q \in Seq(Message) /\ M[k] \in Seq(Message)
    BY <1>3
  <2>2. Unordered(M[k]) /\ (Before \/ LetIn)
    BY DEF ClaimStep
  <2>3. Unordered(q) => Unordered(ctl'[control[k]])
    BY <2>1, <2>2, UnorderedAppend
  <2>4. CASE Before
    <3>1. Unordered(q) /\ \E t \in Token : webview[k] = t /\ link[t] = Claimed(k)
      BY <1>0, <2>1, <2>4 DEF WantedClaims
    <3>. QED BY <2>3, <2>4, <3>1
  <2>5. CASE LetIn
    <3>1. entry[k].token \in Token /\ control[k] \in Serial
      BY <1>0, <2>1, <2>5 DEF Connected, Entry
    <3>2. ~Orders(q, Ensure(entry[k].token))
      BY <1>4, <2>5, <3>1
    <3>3. Unordered(q)
      BY <1>0, <2>1, <2>5, <3>2 DEF TokenAsked
    <3>. QED BY <2>3, <2>5, <3>1, <3>3
  <2>. QED BY <2>2, <2>4, <2>5
<1>. QED BY <1>1, <1>2, <1>5, <1>6 DEF RelayInv

\* No message at all.
Nothing == [k \in Instance |-> <<>>]

LEMMA NothingOrders ==
    /\ Nothing \in Messages
    /\ \A a, u : OneAsked(Nothing, a, u)
    /\ \A k \in Instance : Nothing[k] = <<>> /\ Unordered(Nothing[k])
<1>1. <<>> \in Seq(Message) /\ DOMAIN <<>> = {}
  OBVIOUS
<1>. QED BY <1>1 DEF Nothing, Messages, OneAsked, Unordered

\* The entries that stay keep their serial.
LEMMA UnqueuedAdds ==
    ASSUME TypeOK, ctl' = ctl,
           \A k \in Instance : entry'[k] # None => entry[k] # None /\ entry'[k].serial = entry[k].serial
    PROVE  Added(Nothing)
<1>1. ASSUME NEW k \in Instance, entry'[k] # None
      PROVE  ctl'[entry[k].serial] = ctl[entry[k].serial] \o Nothing[k]
  <2>1. ctl[entry[k].serial] \in Seq(Message)
    BY <1>1 DEF TypeOK, Entry
  <2>2. \A q \in Seq(Message) : q = q \o <<>>
    OBVIOUS
  <2>. QED BY <2>1, <2>2, NothingOrders
<1>. QED BY <1>1 DEF Added

LEMMA QueueAdds ==
    ASSUME TypeOK, Served, NEW M \in Messages, ctl' = Queue(M),
           \A k \in Instance : entry'[k] = None <=> entry[k] = None,
           \A k \in Instance : entry'[k] # None => entry'[k].serial = entry[k].serial
    PROVE  Added(M)
BY QueueOf DEF Served, Added

\* What the steps of relay links leave alone: the page an entry waits for and
\* the page that was let in.
LinksKept(k) ==
    entry[k] # None
      => /\ /\ entry[k].token # None /\ webview[k] = entry[k].token /\ link[entry[k].token] = Page(k)
              => link'[entry[k].token] = link[entry[k].token]
         /\ \A t \in Token : webview[k] = t /\ link[t] = Claimed(k) => link'[t] = link[t]

\* No connection is bound by the step.
NobodyBinds == \A c \in known' : bound'[c] # None => c \in known /\ bound'[c] = bound[c]

LEMMA WantedShrinks ==
    ASSUME NobodyBinds, NEW k \in Instance,
           entry'[k] # None => entry[k] # None /\ entry'[k].serial = entry[k].serial
    PROVE  /\ Wanted(k)' => Wanted(k)
           /\ Attached(known, bound, k)' \subseteq Attached(known, bound, k)
<1>1. Wanted(k)' => Wanted(k)
  BY DEF Wanted, Registration, Bound, NobodyBinds
<1>2. Attached(known, bound, k)' \subseteq Attached(known, bound, k)
  BY DEF Attached, NobodyBinds
<1>. QED BY <1>1, <1>2

\* The entries that stay are what they were.
LEMMA EntriesKept ==
    ASSUME TypeOK, TypeOK', Served, RelayInv, QueuesBounded', Added(Nothing), NobodyBinds,
           UNCHANGED <<control, webview>>,
           \A k \in Instance : entry'[k] # None => entry'[k] = entry[k],
           \A t \in Token : link[t] = NoLink => link'[t] = NoLink,
           \A k \in Instance : LinksKept(k)
    PROVE  RelayInv'
<1>1. Nothing \in Messages /\ OneAsked(Nothing, None, None) /\ \A k \in Instance : Unordered(Nothing[k])
  BY NothingOrders
<1>2. OneOfThem'
  BY DEF RelayInv, OneOfThem
<1>3. IdleIsFree'
  <2> SUFFICES ASSUME NEW k \in Instance, entry'[k] # None, entry'[k].idle
               PROVE  entry'[k].token = None /\ Attached(known, bound, k)' = {}
    BY DEF IdleIsFree
  <2>. QED BY WantedShrinks DEF RelayInv, IdleIsFree
<1>4. \A k \in Instance : TokenStep(Nothing, k)
  BY <1>1 DEF TokenStep, LinksKept
<1>5. \A k \in Instance : ClaimStep(Nothing, k)
  <2> SUFFICES ASSUME NEW k \in Instance PROVE ClaimStep(Nothing, k)
    OBVIOUS
  <2>1. entry'[k] # None => entry'[k] = entry[k]
    OBVIOUS
  <2>2. Wanted(k)' => Wanted(k)
    BY <2>1, WantedShrinks
  <2>. QED BY <1>1, <2>1, <2>2 DEF ClaimStep, LinksKept
<1>. QED BY <1>1, <1>2, <1>3, <1>4, <1>5, RelayStep

\* Counting anew orders nothing, and marks as idle who has a relay and nobody.
LEMMA CountedRelay ==
    ASSUME TypeOK, NEW kn \in SUBSET Conn, NEW bnd, NEW k \in Instance
    PROVE  /\ Unordered(CountMessages(kn, bnd)[k])
           /\ Counted(kn, bnd)[k] # None
                => LET e == Counted(kn, bnd)[k]
                   IN /\ entry[k] # None /\ e \in Entry
                      /\ e.serial = entry[k].serial /\ e.relay = entry[k].relay
                      /\ e.token = entry[k].token /\ e.late = entry[k].late
                      /\ e.idle => Attached(kn, bnd, k) = {} /\ (entry[k].idle \/ entry[k].relay # None)
<1>1. Unordered(CountMessages(kn, bnd)[k])
  <2>1. \/ CountMessages(kn, bnd)[k] = <<>>
        \/ CountMessages(kn, bnd)[k] = <<Sessions(Count(kn, bnd, k))>>
    BY DEF CountMessages
  <2>2. Unordered(<<>>)
    BY DEF Unordered
  <2>3. \A n : DOMAIN <<Sessions(n)>> = {1} /\ <<Sessions(n)>>[1].kind = "sessions"
    BY DEF Sessions
  <2>4. \A n : Unordered(<<Sessions(n)>>)
    BY <2>3 DEF Unordered, IsOrder
  <2>. QED BY <2>1, <2>2, <2>4
<1>2. ASSUME Counted(kn, bnd)[k] # None
      PROVE  LET e == Counted(kn, bnd)[k]
             IN /\ entry[k] # None /\ e \in Entry
                /\ e.serial = entry[k].serial /\ e.relay = entry[k].relay
                /\ e.token = entry[k].token /\ e.late = entry[k].late
                /\ e.idle => Attached(kn, bnd, k) = {} /\ (entry[k].idle \/ entry[k].relay # None)
  <2>1. entry \in [Instance -> Entry \cup {None}]
    BY DEF TypeOK
  <2>2. entry[k] # None /\ entry[k] \in Entry /\ Counted(kn, bnd)[k] \in Entry
    BY <1>2, <2>1, CountedType
  <2>3. Counted(kn, bnd)[k] = [entry[k] EXCEPT !.sessions = Count(kn, bnd, k),
                                 !.idle = Count(kn, bnd, k) = 0 /\ (@ \/ entry[k].relay # None)]
    BY <2>2 DEF Counted
  <2>4. Count(kn, bnd, k) = 0 => Attached(kn, bnd, k) = {}
    <3>1. Attached(kn, bnd, k) \in SUBSET Conn
      BY DEF Attached
    <3>2. IsFiniteSet(Attached(kn, bnd, k))
      BY <3>1, FiniteAssumption, FS_Subset
    <3>. QED BY <3>2, FS_EmptySet DEF Count
  <2>5. \A n, b : LET e == [entry[k] EXCEPT !.sessions = n, !.idle = b]
                  IN /\ e.serial = entry[k].serial /\ e.relay = entry[k].relay
                     /\ e.token = entry[k].token /\ e.late = entry[k].late /\ e.idle = b
    BY <2>2 DEF Entry
  <2>6. Counted(kn, bnd)[k].idle = (Count(kn, bnd, k) = 0 /\ (entry[k].idle \/ entry[k].relay # None))
    BY <2>2, <2>3 DEF Entry
  <2>7. /\ Counted(kn, bnd)[k].serial = entry[k].serial /\ Counted(kn, bnd)[k].relay = entry[k].relay
        /\ Counted(kn, bnd)[k].token = entry[k].token /\ Counted(kn, bnd)[k].late = entry[k].late
    BY <2>3, <2>5
  <2>. QED BY <2>2, <2>4, <2>6, <2>7
<1>. QED BY <1>1, <1>2

LEMMA CountsOrderNothing ==
    ASSUME TypeOK, NEW kn \in SUBSET Conn, NEW bnd, NEW a, NEW u
    PROVE  OneAsked(CountMessages(kn, bnd), a, u)
<1>1. \A k \in Instance : Unordered(CountMessages(kn, bnd)[k])
  BY CountedRelay
<1>. QED BY <1>1 DEF OneAsked, Unordered, IsOrder

LEMMA EntriesCounted ==
    ASSUME TypeOK, TypeOK', Served, RelayInv, QueuesBounded', NobodyBinds,
           UNCHANGED <<control, webview, link>>,
           NEW kn \in SUBSET Conn, NEW bnd, known' = kn, bound' = bnd,
           Added(CountMessages(kn, bnd)),
           \A k \in Instance : entry'[k] # None => entry'[k] = Counted(kn, bnd)[k]
    PROVE  RelayInv'
<1> DEFINE M == CountMessages(kn, bnd)
<1>1. M \in Messages /\ OneAsked(M, None, None)
  BY CountMessagesType, CountsOrderNothing
<1>2. ASSUME NEW k \in Instance
      PROVE  /\ Unordered(M[k])
             /\ entry'[k] # None
                  => /\ entry[k] # None
                     /\ entry'[k].serial = entry[k].serial /\ entry'[k].relay = entry[k].relay
                     /\ entry'[k].token = entry[k].token /\ entry'[k].late = entry[k].late
                     /\ entry'[k].idle => Attached(kn, bnd, k) = {} /\ (entry[k].idle \/ entry[k].relay # None)
  <2> DEFINE f == Counted(kn, bnd)[k]
  <2>1. /\ Unordered(M[k])
        /\ f # None
             => /\ entry[k] # None
                /\ f.serial = entry[k].serial /\ f.relay = entry[k].relay
                /\ f.token = entry[k].token /\ f.late = entry[k].late
                /\ f.idle => Attached(kn, bnd, k) = {} /\ (entry[k].idle \/ entry[k].relay # None)
    BY CountedRelay
  <2>2. entry'[k] # None => entry'[k] = f
    OBVIOUS
  <2> HIDE DEF f, M
  <2>. QED BY <2>1, <2>2
<1> HIDE DEF M
<1>3. OneOfThem'
  BY <1>2 DEF RelayInv, OneOfThem
<1>4. IdleIsFree'
  <2> SUFFICES ASSUME NEW k \in Instance, entry'[k] # None, entry'[k].idle
               PROVE  entry'[k].token = None /\ Attached(known, bound, k)' = {}
    BY DEF IdleIsFree
  <2>1. Attached(known, bound, k)' = Attached(kn, bnd, k)
    BY DEF Attached
  <2>. QED BY <1>2, <2>1 DEF RelayInv, IdleIsFree, OneOfThem
<1>5. \A k \in Instance : TokenStep(M, k)
  BY <1>2 DEF TokenStep
<1>6. \A k \in Instance : ClaimStep(M, k)
  <2> SUFFICES ASSUME NEW k \in Instance PROVE ClaimStep(M, k)
    OBVIOUS
  <2>1. Wanted(k)' => Wanted(k)
    BY <1>2, WantedShrinks
  <2>. QED BY <1>2, <2>1 DEF ClaimStep
<1>7. Added(M)
  BY DEF M
<1>. QED BY <1>1, <1>3, <1>4, <1>5, <1>6, <1>7, RelayStep

\* One entry is written, and at most one order given for it.
LEMMA EntryWritten ==
    ASSUME TypeOK, TypeOK', Served, RelayInv, QueuesBounded',
           UNCHANGED <<known, bound, control, webview>>,
           NEW i \in Instance, entry[i] # None, NEW e \in Entry, e.serial = entry[i].serial,
           entry' = [entry EXCEPT ![i] = e],
           NEW M \in Messages, \A k \in Instance : k # i => M[k] = <<>>,
           ctl' = Queue(M) \/ (ctl' = ctl /\ M = Nothing), NEW u, OneAsked(M, i, u),
           \A t \in Token : link[t] = NoLink => link'[t] = NoLink,
           \A k \in Instance : k # i => LinksKept(k),
           e.relay # None => e.token = None,
           e.idle => e.token = None /\ Attached(known, bound, i) = {},
           TokenStep(M, i), ClaimStep(M, i)
    PROVE  RelayInv'
<1>1. entry'[i] = e /\ \A k \in Instance : k # i => entry'[k] = entry[k]
  BY DEF TypeOK
<1>2. e # None
  BY NoneAssumption
<1>3. Added(M)
  BY <1>1, <1>2, UnqueuedAdds, QueueAdds
<1>4. OneOfThem'
  BY <1>1 DEF RelayInv, OneOfThem
<1>5. IdleIsFree'
  <2> SUFFICES ASSUME NEW k \in Instance, entry'[k] # None, entry'[k].idle
               PROVE  entry'[k].token = None /\ Attached(known, bound, k)' = {}
    BY DEF IdleIsFree
  <2>1. Attached(known, bound, k)' = Attached(known, bound, k)
    BY DEF Attached
  <2>. QED BY <1>1, <2>1 DEF RelayInv, IdleIsFree
<1>6. ASSUME NEW k \in Instance, k # i PROVE TokenStep(M, k) /\ ClaimStep(M, k)
  <2>1. entry'[k] = entry[k] /\ Unordered(M[k])
    BY <1>1, <1>6 DEF Unordered
  <2>2. Wanted(k)' => Wanted(k)
    BY <2>1 DEF Wanted, Registration, Bound
  <2>3. LinksKept(k)
    BY <1>6
  <2>. QED BY <2>1, <2>2, <2>3 DEF TokenStep, ClaimStep, LinksKept
<1>7. \A k \in Instance : TokenStep(M, k) /\ ClaimStep(M, k)
  BY <1>6
<1>. QED BY <1>3, <1>4, <1>5, <1>7, RelayStep

-----------------------------------------------------------------------------
(* The steps of connections and of the tasks that serve an ATTACH *)

LEMMA RefreshRelay ==
    ASSUME TypeOK, TypeOK', Served, RelayInv, Bounded, NobodyBinds,
           UNCHANGED <<control, webview, link>>,
           NEW kn \in SUBSET Conn, NEW bnd, known' = kn, bound' = bnd, Refresh(kn, bnd)
    PROVE  RelayInv'
<1> DEFINE M == CountMessages(kn, bnd)
<1>1. M \in Messages /\ ctl' = Queue(M) /\ entry' = Counted(kn, bnd)
  BY CountMessagesType DEF Refresh
<1>2. \A k \in Instance : entry'[k] = None <=> entry[k] = None
  BY RefreshType
<1>3. \A k \in Instance : entry'[k] # None => entry'[k].serial = entry[k].serial
  BY <1>1, CountedRelay
<1>4. QueuesBounded'
  BY DEF Bounded, QueuesBounded
<1>5. Added(M)
  <2> HIDE DEF M
  <2>. QED BY <1>1, <1>2, <1>3, QueueAdds
<1>. QED BY <1>1, <1>4, <1>5, EntriesCounted

\* A step that writes to no entry and no queue.
LEMMA NothingSaid ==
    ASSUME TypeOK, TypeOK', Served, RelayInv, NobodyBinds,
           UNCHANGED <<entry, ctl, control, webview>>,
           \A t \in Token : link[t] = NoLink => link'[t] = NoLink,
           \A k \in Instance : LinksKept(k)
    PROVE  RelayInv'
<1>1. Added(Nothing)
  BY UnqueuedAdds
<1>2. QueuesBounded'
  BY DEF RelayInv, QueuesBounded
<1>. QED BY <1>1, <1>2, EntriesKept

LEMMA NothingHappens ==
    ASSUME TypeOK, TypeOK', Served, RelayInv, NobodyBinds,
           UNCHANGED <<entry, ctl, control, webview, link>>
    PROVE  RelayInv'
<1>1. \A k \in Instance : LinksKept(k)
  BY DEF LinksKept
<1>. QED BY <1>1, NothingSaid

LEMMA ConnsRelay ==
    ASSUME TypeOK, TypeOK', Served, RelayInv, NEW c \in Conn, Hello(c) \/ Detach(c) \/ EndConn(c)
    PROVE  RelayInv'
<1>0. known \in SUBSET Conn /\ bound \in [Conn -> Binding \cup {None}]
  BY DEF TypeOK
<1>1. CASE Hello(c)
  <2>1. /\ UNCHANGED <<entry, ctl, control, webview, link>>
        /\ known' = known \cup {c} /\ bound' = [bound EXCEPT ![c] = None]
    BY <1>1 DEF Hello, appVars
  <2>2. NobodyBinds
    BY <1>0, <2>1 DEF NobodyBinds
  <2>. QED BY <2>1, <2>2, NothingHappens
<1>2. CASE Detach(c)
  <2> DEFINE bnd == [bound EXCEPT ![c] = None]
  <2>1. /\ UNCHANGED <<control, webview, link>> /\ Bounded
        /\ known' = known /\ bound' = bnd /\ Refresh(known, bnd)
    BY <1>2 DEF Detach, appVars, Unbind
  <2>2. NobodyBinds
    BY <1>0, <2>1 DEF NobodyBinds
  <2> HIDE DEF bnd
  <2>. QED BY <1>0, <2>1, <2>2, RefreshRelay
<1>3. CASE EndConn(c)
  <2> DEFINE bnd == [bound EXCEPT ![c] = None]
             kn == known \ {c}
  <2>1. /\ UNCHANGED <<control, webview, link>> /\ Bounded
        /\ known' = kn /\ bound' = bnd
        /\ Refresh(kn, bnd) \/ UNCHANGED <<entry, ctl>>
    BY <1>3 DEF EndConn, appVars, Unbind
  <2>2. NobodyBinds /\ kn \in SUBSET Conn
    BY <1>0, <2>1 DEF NobodyBinds
  <2> HIDE DEF bnd, kn
  <2>. QED BY <2>1, <2>2, RefreshRelay, NothingHappens
<1>. QED BY <1>1, <1>2, <1>3

\* ensure_relay asks for a relay unless there is one, or one is asked for.
LEMMA EnsuredRelay ==
    ASSUME NEW e \in Entry, NEW r \in Ensured(e)
    PROVE  /\ r[1].relay = e.relay /\ r[1].late = e.late /\ r[1].serial = e.serial /\ ~r[1].idle
           /\ \/ /\ e.relay = None /\ e.token = None
                 /\ \E t \in Token : Unused(t) /\ r[1].token = t /\ r[2] = <<Ensure(t)>>
              \/ /\ ~(e.relay = None /\ e.token = None)
                 /\ r[1].token = e.token /\ r[2] = <<>>
<1>1. CASE e.relay = None /\ e.token = None
  <2>1. PICK t \in {v \in Token : Unused(v)} :
          r = <<[e EXCEPT !.idle = FALSE, !.token = t], <<Ensure(t)>>>>
    BY <1>1 DEF Ensured
  <2> DEFINE f == [e EXCEPT !.idle = FALSE, !.token = t]
  <2>2. f.relay = e.relay /\ f.late = e.late /\ f.serial = e.serial /\ ~f.idle /\ f.token = t
    BY DEF Entry
  <2>3. r[1] = f /\ r[2] = <<Ensure(t)>>
    BY <2>1
  <2>4. t \in Token /\ Unused(t)
    BY <2>1
  <2> HIDE DEF f
  <2>. QED BY <1>1, <2>2, <2>3, <2>4
<1>2. CASE ~(e.relay = None /\ e.token = None)
  <2> DEFINE f == [e EXCEPT !.idle = FALSE]
  <2>1. r = <<f, <<>>>>
    BY <1>2 DEF Ensured
  <2>2. f.relay = e.relay /\ f.late = e.late /\ f.serial = e.serial /\ ~f.idle /\ f.token = e.token
    BY DEF Entry
  <2>3. r[1] = f /\ r[2] = <<>>
    BY <2>1
  <2> HIDE DEF f
  <2>. QED BY <1>2, <2>2, <2>3
<1>. QED BY <1>1, <1>2

\* An order for a token after counts.
LEMMA AsksLast ==
    ASSUME NEW q \in Seq(Message), Unordered(q), NEW t \in Token
    PROVE  /\ Asks(q \o <<Ensure(t)>>, t)
           /\ \A n \in DOMAIN (q \o <<Ensure(t)>>) :
                (q \o <<Ensure(t)>>)[n].kind = "ensure"
                  => n = Len(q \o <<Ensure(t)>>) /\ (q \o <<Ensure(t)>>)[n] = Ensure(t)
<1> DEFINE r == q \o <<Ensure(t)>>
<1>0. Ensure(t) \in Message
  BY EnsureType
<1>1. /\ Len(r) = Len(q) + 1 /\ Len(q) \in Nat /\ DOMAIN q = 1..Len(q) /\ DOMAIN r = 1..(Len(q) + 1)
      /\ r[Len(q) + 1] = Ensure(t) /\ \A n \in 1..Len(q) : r[n] = q[n]
  BY <1>0
<1> HIDE DEF r
<1>2. \A n \in DOMAIN r : IsOrder(r[n]) => n = Len(r)
  <2> SUFFICES ASSUME NEW n \in DOMAIN r, n # Len(r) PROVE ~IsOrder(r[n])
    OBVIOUS
  <2>1. n \in DOMAIN q /\ r[n] = q[n]
    BY <1>1
  <2>. QED BY <2>1 DEF Unordered
<1>3. Asks(r, t)
  BY <1>1, <1>2 DEF Asks
<1>4. \A n \in DOMAIN r : r[n].kind = "ensure" => n = Len(r) /\ r[n] = Ensure(t)
  BY <1>1, <1>2 DEF IsOrder
<1>. QED BY <1>3, <1>4 DEF r

LEMMA AttachRelay ==
    ASSUME TypeOK, TypeOK', Served, RelayInv, NEW j \in Job, Attach(j), job[j].conn \in Conn,
           job[j].inst \in Instance
    PROVE  RelayInv'
<1>c. PICK c \in Conn, i \in Instance : c = job[j].conn /\ i = job[j].inst
  OBVIOUS
<1>0. /\ known \in SUBSET Conn /\ bound \in [Conn -> Binding \cup {None}]
      /\ entry \in [Instance -> Entry \cup {None}]
      /\ UNCHANGED <<known, control, webview, link>> /\ Bounded
  BY DEF TypeOK, Attach, appVars
<1>1. CASE entry[i] = None
  <2> DEFINE bnd == [bound EXCEPT ![c] = None]
  <2>1. \/ bound' = bnd /\ Refresh(known, bnd)
        \/ UNCHANGED <<bound, entry, ctl>>
    BY <1>1, <1>c DEF Attach, Unbind
  <2>2. NobodyBinds
    BY <1>0, <2>1 DEF NobodyBinds
  <2> HIDE DEF bnd
  <2>. QED BY <1>0, <2>1, <2>2, RefreshRelay, NothingHappens
<1>2. CASE entry[i] # None
  <2> DEFINE bnd == [bound EXCEPT ![c] = [inst |-> i, serial |-> entry[i].serial]]
             counted == Counted(known, bnd)
             told == CountMessages(known, bnd)
             e == counted[i]
  <2>1. PICK r \in Ensured(e) :
          /\ bound' = bnd
          /\ entry' = [counted EXCEPT ![i] = r[1]]
          /\ ctl' = Queue([told EXCEPT ![i] = @ \o r[2]])
    BY <1>2, <1>c DEF Attach
  <2>2. /\ e \in Entry /\ counted \in [Instance -> Entry \cup {None}] /\ told \in Messages
        /\ \A k \in Instance : counted[k] = None <=> entry[k] = None
    BY <1>0, <1>2, CountedType, CountMessagesType
  <2>3. r[1] \in Entry /\ r[2] \in Seq(Message)
    BY <2>2, EnsuredType
  <2>4. /\ r[1].relay = e.relay /\ r[1].late = e.late /\ r[1].serial = e.serial /\ ~r[1].idle
        /\ \/ /\ e.relay = None /\ e.token = None
              /\ \E t \in Token : Unused(t) /\ r[1].token = t /\ r[2] = <<Ensure(t)>>
           \/ /\ ~(e.relay = None /\ e.token = None)
              /\ r[1].token = e.token /\ r[2] = <<>>
    BY <2>2, EnsuredRelay
  <2>5. ASSUME NEW k \in Instance
        PROVE  /\ Unordered(told[k])
               /\ counted[k] # None
                    => /\ entry[k] # None /\ counted[k] \in Entry
                       /\ counted[k].serial = entry[k].serial /\ counted[k].relay = entry[k].relay
                       /\ counted[k].token = entry[k].token /\ counted[k].late = entry[k].late
                       /\ counted[k].idle
                            => Attached(known, bnd, k) = {} /\ (entry[k].idle \/ entry[k].relay # None)
    BY <1>0, CountedRelay
  <2> DEFINE M == [told EXCEPT ![i] = @ \o r[2]]
  <2>6. told[i] \in Seq(Message) /\ counted[i] # None
    BY <1>0, <2>2, NoneAssumption DEF Messages
  <2>7. \A k \in Instance : k # i /\ Wanted(k)' /\ entry'[k].serial = entry[k].serial => Wanted(k)
    BY <1>0, <1>2, <2>1, <2>2, <2>5 DEF Wanted, Registration, Bound
  <2>8. \A k \in Instance : Attached(known, bound, k)' = Attached(known, bnd, k)
    BY <1>0, <2>1 DEF Attached
  <2> HIDE DEF counted, told, bnd
  <2>9. told[i] \o r[2] \in Seq(Message)
    BY <2>3, <2>6
  <2>10. M \in Messages /\ M[i] = told[i] \o r[2] /\ \A k \in Instance : k # i => M[k] = told[k]
    BY <2>2, <2>9 DEF Messages
  <2>11. ctl' = Queue(M)
    BY <2>1
  <2> HIDE DEF M
  <2>12. entry'[i] = r[1] /\ \A k \in Instance : k # i => entry'[k] = counted[k]
    BY <2>1, <2>2
  <2> HIDE DEF e
  <2>13. e = counted[i]
    BY DEF e
  <2>14. Added(M)
    <3>1. \A k \in Instance : entry'[k] = None <=> entry[k] = None
      BY <2>2, <2>3, <2>6, <2>12, NoneAssumption
    <3>2. \A k \in Instance : entry'[k] # None => entry'[k].serial = entry[k].serial
      BY <2>4, <2>5, <2>6, <2>12, <2>13
    <3>. QED BY <2>10, <2>11, <3>1, <3>2, QueueAdds
  <2>15. QueuesBounded'
    BY <1>0 DEF Bounded, QueuesBounded
  <2>16. OneOfThem'
    <3> SUFFICES ASSUME NEW k \in Instance, entry'[k] # None, entry'[k].relay # None
                 PROVE  entry'[k].token = None
      BY DEF OneOfThem
    <3>1. CASE k = i
      BY <2>4, <2>5, <2>6, <2>12, <2>13, <3>1 DEF RelayInv, OneOfThem
    <3>2. CASE k # i
      BY <2>5, <2>12, <3>2 DEF RelayInv, OneOfThem
    <3>. QED BY <3>1, <3>2
  <2>17. IdleIsFree'
    <3> SUFFICES ASSUME NEW k \in Instance, entry'[k] # None, entry'[k].idle
                 PROVE  entry'[k].token = None /\ Attached(known, bound, k)' = {}
      BY DEF IdleIsFree
    <3>1. k # i
      BY <2>4, <2>12
    <3>. QED BY <2>5, <2>8, <2>12, <3>1 DEF RelayInv, IdleIsFree, OneOfThem
  <2>18. ASSUME NEW k \in Instance, k # i PROVE TokenStep(M, k) /\ ClaimStep(M, k)
    <3>1. /\ Unordered(M[k])
          /\ entry'[k] # None
               => /\ entry[k] # None /\ entry'[k].serial = entry[k].serial /\ entry'[k].relay = entry[k].relay
                  /\ entry'[k].token = entry[k].token /\ entry'[k].late = entry[k].late
      BY <2>5, <2>10, <2>12, <2>18
    <3>2. entry'[k] # None /\ Wanted(k)' => Wanted(k)
      BY <2>7, <2>18, <3>1
    <3>3. link' = link
      BY <1>0
    <3>. QED BY <3>1, <3>2, <3>3 DEF TokenStep, ClaimStep
  <2>19. CASE e.relay = None /\ e.token = None
    <3>1. PICK t \in Token : Unused(t) /\ r[1].token = t /\ r[2] = <<Ensure(t)>>
      BY <2>4, <2>19
    <3>2. /\ Asks(M[i], t)
          /\ \A n \in DOMAIN M[i] : M[i][n].kind = "ensure" => n = Len(M[i]) /\ M[i][n] = Ensure(t)
      <4>1. told[i] \in Seq(Message) /\ Unordered(told[i])
        BY <2>5, <2>6, <2>13
      <4>2. M[i] = told[i] \o <<Ensure(t)>>
        BY <2>10, <3>1
      <4>3. /\ Asks(told[i] \o <<Ensure(t)>>, t)
            /\ \A n \in DOMAIN (told[i] \o <<Ensure(t)>>) :
                 (told[i] \o <<Ensure(t)>>)[n].kind = "ensure"
                   => n = Len(told[i] \o <<Ensure(t)>>) /\ (told[i] \o <<Ensure(t)>>)[n] = Ensure(t)
        BY <4>1, AsksLast
      <4>. QED BY <4>2, <4>3
    <3>3. OneAsked(M, i, t)
      BY <2>5, <2>10, <3>1, <3>2 DEF OneAsked, Unordered, IsOrder
    <3>4. TokenStep(M, i) /\ ClaimStep(M, i)
      BY <2>12, <3>1, <3>2, NoneAssumption DEF TokenStep, ClaimStep
    <3>. QED BY <1>0, <2>10, <2>14, <2>15, <2>16, <2>17, <2>18, <3>3, <3>4, RelayStep
  <2>20. CASE ~(e.relay = None /\ e.token = None)
    <3>1. r[1].token = e.token /\ r[2] = <<>>
      BY <2>4, <2>20
    <3>2. M[i] = told[i]
      BY <2>6, <2>10, <3>1
    <3>3. \A k \in Instance : Unordered(M[k])
      BY <2>5, <2>10, <3>2
    <3>4. OneAsked(M, i, None)
      BY <3>3 DEF OneAsked, Unordered, IsOrder
    <3>5. TokenStep(M, i) /\ ClaimStep(M, i)
      <4>1. /\ entry[i] # None /\ entry'[i].token = entry[i].token
            /\ ~(entry'[i].relay = None /\ entry'[i].token = None) /\ link' = link
        BY <1>0, <2>4, <2>5, <2>6, <2>12, <2>13, <2>20, <3>1
      <4>. QED BY <2>13, <3>3, <4>1 DEF TokenStep, ClaimStep
    <3>. QED BY <1>0, <2>10, <2>14, <2>15, <2>16, <2>17, <2>18, <3>4, <3>5, RelayStep
  <2>. QED BY <2>19, <2>20
<1>. QED BY <1>1, <1>2

LEMMA JobsRelay ==
    ASSUME TypeOK, TypeOK', Served, RelayInv, NEW j \in Job,
           \/ \E c \in Conn, i \in Instance : Ask(j, c, i)
           \/ AttachOk(j) \/ AttachFails(j)
    PROVE  RelayInv'
<1>0. known \in SUBSET Conn /\ bound \in [Conn -> Binding \cup {None}]
  BY DEF TypeOK
<1>1. CASE (\E c \in Conn, i \in Instance : Ask(j, c, i)) \/ AttachOk(j)
  <2>1. UNCHANGED <<known, bound, entry, ctl, control, webview, link>>
    BY <1>1 DEF Ask, AttachOk, appVars
  <2>2. NobodyBinds
    BY <2>1 DEF NobodyBinds
  <2>. QED BY <2>1, <2>2, NothingHappens
<1>2. CASE AttachFails(j)
  <2> DEFINE bnd == [bound EXCEPT ![job[j].conn] = None]
  <2>1. /\ UNCHANGED <<known, control, webview, link>> /\ Bounded
        /\ bound' = bnd /\ Refresh(known, bnd)
    BY <1>2 DEF AttachFails, appVars
  <2>2. NobodyBinds
    BY <1>0, <2>1 DEF NobodyBinds
  <2> HIDE DEF bnd
  <2>. QED BY <1>0, <2>1, <2>2, RefreshRelay
<1>. QED BY <1>1, <1>2

-----------------------------------------------------------------------------
(* The steps of control connections *)

LEMMA ControlEndsRelay ==
    ASSUME TypeOK, TypeOK', Served, RelayInv, NEW s \in Serial, ControlEnds(s)
    PROVE  RelayInv'
<1> DEFINE i == serving[s]
           own == entry[i] # None /\ entry[i].serial = s
           bnd == [c \in Conn |-> IF own /\ c \in Attached(known, bound, i) THEN None ELSE bound[c]]
           M == CountMessages(known, bnd)
           counted == Counted(known, bnd)
<1>0. /\ known \in SUBSET Conn /\ entry \in [Instance -> Entry \cup {None}]
      /\ ctl \in [Serial -> Seq(Message)] /\ serving \in [Serial -> Instance \cup {None}]
      /\ bound \in [Conn -> Binding \cup {None}]
  BY DEF TypeOK
<1>1. /\ UNCHANGED <<known, control, webview, link>> /\ Bounded /\ i \in Instance
  BY <1>0 DEF ControlEnds, appVars
<1>2. /\ bound' = bnd /\ entry' = IF own THEN [counted EXCEPT ![i] = None] ELSE entry
      /\ ctl' = [IF own THEN Queue(M) ELSE ctl EXCEPT ![s] = <<>>]
  BY DEF ControlEnds
<1>3. M \in Messages /\ counted \in [Instance -> Entry \cup {None}]
      /\ \A k \in Instance : counted[k] = None <=> entry[k] = None
  BY <1>0, CountMessagesType, CountedType
<1>4. Queue(M) \in [Serial -> Seq(Message)]
  BY <1>0, <1>3, QueueType
<1>5. NobodyBinds
  BY <1>0, <1>1, <1>2 DEF NobodyBinds
<1>6. \A k \in Instance : counted[k] # None => counted[k].serial = entry[k].serial
  BY <1>0, CountedTold
<1>7. /\ \A k \in Instance : entry[k] # None => Queue(M)[entry[k].serial] = ctl[entry[k].serial] \o M[k]
      /\ \A u \in Serial : (\A k \in Instance : entry[k] # None => entry[k].serial # u) => Queue(M)[u] = ctl[u]
  BY <1>3, QueueOf DEF Served
<1>8. QueuesBounded'
  BY <1>1 DEF Bounded, QueuesBounded
<1>9. \A k \in Instance : entry[k] # None => entry[k].serial \in Serial /\ serving[entry[k].serial] = k
  BY <1>0 DEF Served, EntriesServed, Entry
<1> HIDE DEF bnd, M, counted
<1>10. CASE own
  <2>1. /\ entry'[i] = None /\ \A k \in Instance : k # i => entry'[k] = counted[k]
        /\ ctl'[s] = <<>> /\ \A u \in Serial : u # s => ctl'[u] = Queue(M)[u]
    BY <1>1, <1>2, <1>3, <1>4, <1>10
  <2>2. \A k \in Instance : entry'[k] # None => k # i /\ entry'[k] = counted[k]
    BY <2>1
  <2>3. Added(M)
    <3>1. ASSUME NEW k \in Instance, entry'[k] # None
          PROVE  /\ entry[k] # None /\ entry'[k].serial = entry[k].serial
                 /\ ctl'[entry[k].serial] = ctl[entry[k].serial] \o M[k]
      <4>1. k # i /\ entry[k] # None /\ entry'[k].serial = entry[k].serial
        BY <1>3, <1>6, <2>2, <3>1
      <4>2. entry[k].serial # s /\ entry[k].serial \in Serial
        BY <1>9, <4>1
      <4>. QED BY <1>7, <2>1, <4>1, <4>2
    <3>2. ASSUME NEW u \in Serial, \A k \in Instance : entry'[k] # None => entry[k].serial # u
          PROVE  ctl'[u] \in {ctl[u], <<>>}
      <4>1. CASE u = s
        BY <2>1, <4>1
      <4>2. CASE u # s
        <5>1. \A k \in Instance : entry[k] # None => entry[k].serial # u
          BY <1>3, <1>10, <2>1, <3>2, <4>2
        <5>. QED BY <1>7, <2>1, <4>2, <5>1
      <4>. QED BY <4>1, <4>2
    <3>. QED BY <3>1, <3>2 DEF Added
  <2>. QED BY <1>0, <1>1, <1>2, <1>5, <1>8, <2>2, <2>3, EntriesCounted DEF M, counted
<1>11. CASE ~own
  <2>1. /\ entry' = entry /\ ctl'[s] = <<>> /\ \A u \in Serial : u # s => ctl'[u] = ctl[u]
    BY <1>0, <1>2, <1>11
  <2>2. Added(Nothing)
    <3>1. ASSUME NEW k \in Instance, entry[k] # None
          PROVE  ctl'[entry[k].serial] = ctl[entry[k].serial] \o Nothing[k]
      <4>1. entry[k].serial # s /\ entry[k].serial \in Serial
        BY <1>9, <1>11, <3>1
      <4>2. ctl[entry[k].serial] \in Seq(Message)
        BY <1>0, <4>1
      <4>3. \A q \in Seq(Message) : q = q \o <<>>
        OBVIOUS
      <4>. QED BY <2>1, <4>1, <4>2, <4>3, NothingOrders
    <3>. QED BY <2>1, <3>1 DEF Added
  <2>3. \A k \in Instance : LinksKept(k)
    BY <1>1 DEF LinksKept
  <2>. QED BY <1>1, <1>5, <1>8, <2>1, <2>2, <2>3, EntriesKept
<1>. QED BY <1>10, <1>11

\* A registration starts with nothing asked and nobody bound to it.
LEMMA RegisterRelay ==
    ASSUME TypeOK, TypeOK', Served, RelayInv, NEW i \in Instance, Register(i)
    PROVE  RelayInv'
<1>0. /\ entry \in [Instance -> Entry \cup {None}] /\ control \in [Instance -> Serial \cup {None}]
  BY DEF TypeOK
<1>1. PICK s \in Serial :
        /\ Fresh(s)
        /\ control' = [control EXCEPT ![i] = s]
        /\ entry' = [entry EXCEPT ![i] = NewEntry(s)]
  BY DEF Register
<1>2. UNCHANGED <<known, bound, ctl, webview, link>>
  BY DEF Register
<1>3. /\ entry'[i].serial = s /\ entry'[i].relay = None /\ entry'[i].token = None /\ ~entry'[i].idle
      /\ \A k \in Instance : k # i => entry'[k] = entry[k] /\ control'[k] = control[k]
  BY <1>0, <1>1 DEF NewEntry
<1>4. \A c \in Conn : bound[c] # None => bound[c].serial # s
  BY <1>1 DEF Fresh
<1>5. ~Wanted(i)'
  BY <1>2, <1>3, <1>4 DEF Wanted, Registration, Bound
<1>6. ASSUME NEW k \in Instance, k # i
      PROVE  (Wanted(k)' <=> Wanted(k)) /\ Attached(known, bound, k)' = Attached(known, bound, k)
  <2>1. entry'[k] = entry[k]
    BY <1>3, <1>6
  <2>. QED BY <1>2, <2>1 DEF Wanted, Registration, Bound, Attached
<1>7. OneOfThem' /\ IdleIsFree'
  BY <1>3, <1>6 DEF RelayInv, OneOfThem, IdleIsFree
<1>8. QueuesBounded' /\ QueuedOnce' /\ QueuedUnlinked'
  BY <1>2 DEF RelayInv, QueuesBounded, QueuedOnce, QueuedUnlinked
<1>9. TokenAsked'
  BY <1>2, <1>3 DEF RelayInv, TokenAsked, Connected, Page
<1>10. WantedClaims'
  BY <1>2, <1>3, <1>5, <1>6 DEF RelayInv, WantedClaims, Connected, Claimed
<1>. QED BY <1>7, <1>8, <1>9, <1>10 DEF RelayInv

LEMMA ControlBreaksRelay ==
    ASSUME TypeOK, TypeOK', Served, RelayInv, NEW i \in Instance, ControlBreaks(i)
    PROVE  RelayInv'
<1>0. /\ entry \in [Instance -> Entry \cup {None}] /\ control \in [Instance -> Serial \cup {None}]
      /\ webview \in [Instance -> Token \cup {None}]
  BY DEF TypeOK
<1>1. UNCHANGED <<known, bound, entry, ctl, link>>
  BY DEF ControlBreaks, daemonVars
<1>2. control'[i] = None
      /\ \A k \in Instance : k # i => control'[k] = control[k] /\ webview'[k] = webview[k]
  BY <1>0 DEF ControlBreaks
<1>3. \A k \in Instance : entry[k] # None => entry[k].serial # None
  BY <1>0, NoneAssumption DEF Entry
<1>4. \A k \in Instance : Wanted(k)' <=> Wanted(k)
  BY <1>1 DEF Wanted, Registration, Bound
<1>5. \A k \in Instance : Attached(known, bound, k)' = Attached(known, bound, k)
  BY <1>1 DEF Attached
<1>6. OneOfThem' /\ IdleIsFree'
  BY <1>1, <1>5 DEF RelayInv, OneOfThem, IdleIsFree
<1>7. QueuesBounded' /\ QueuedOnce' /\ QueuedUnlinked'
  BY <1>1 DEF RelayInv, QueuesBounded, QueuedOnce, QueuedUnlinked
<1>8. TokenAsked'
  BY <1>1, <1>2, <1>3 DEF RelayInv, TokenAsked, Connected, Page
<1>9. WantedClaims'
  BY <1>1, <1>2, <1>3, <1>4 DEF RelayInv, WantedClaims, Connected, Claimed
<1>. QED BY <1>6, <1>7, <1>8, <1>9 DEF RelayInv

\* The application reads a message, and opens a page when it is told to.
LEMMA AppHandlesRelay ==
    ASSUME TypeOK, TypeOK', Served, RelayInv, NEW i \in Instance, AppHandles(i)
    PROVE  RelayInv'
<1> DEFINE s == control[i]
           q == ctl[s]
           m == Head(q)
<1>0. /\ entry \in [Instance -> Entry \cup {None}] /\ control \in [Instance -> Serial \cup {None}]
      /\ webview \in [Instance -> Token \cup {None}] /\ ctl \in [Serial -> Seq(Message)]
      /\ link \in [Token -> [st : {"none", "page", "claimed", "up"}, inst : Instance \cup {None}]]
      /\ s \in Serial /\ q \in Seq(Message) /\ q # <<>>
      /\ QueuesBounded /\ QueuedOnce /\ QueuedUnlinked /\ TokenAsked /\ WantedClaims
  BY DEF TypeOK, RelayInv, AppHandles
<1>1. UNCHANGED <<known, bound, entry, control>>
  BY DEF AppHandles, daemonVars
<1>2. ctl'[s] = Tail(q) /\ \A u \in Serial : u # s => ctl'[u] = ctl[u]
  BY <1>0 DEF AppHandles
<1>3. /\ m.kind = "ensure" => webview'[i] = m.token /\ m \in {Ensure(t) : t \in Token}
                              /\ link' = [link EXCEPT ![m.token] = Page(i)]
      /\ m.kind # "ensure" => link' = link
      /\ ~IsOrder(m) => webview'[i] = webview[i]
      /\ \A k \in Instance : k # i => webview'[k] = webview[k]
  <2>1. m \in Message
    BY <1>0
  <2>2. \A x \in Message : x.kind = "ensure" => x \in {Ensure(t) : t \in Token} /\ x.token \in Token
    BY DEF Message, Ensure, Drop, Sessions
  <2>3. ~IsOrder(m) <=> m.kind = "sessions"
    BY DEF IsOrder
  <2>4. /\ webview' = CASE m.kind = "ensure" -> [webview EXCEPT ![i] = m.token]
                           [] m.kind = "drop" -> [webview EXCEPT ![i] = None]
                           [] OTHER -> webview
        /\ link' = IF m.kind = "ensure" THEN [link EXCEPT ![m.token] = Page(i)] ELSE link
    BY DEF AppHandles, Page
  <2> HIDE DEF m
  <2>. QED BY <1>0, <2>1, <2>2, <2>3, <2>4
<1>4. /\ \A n \in DOMAIN Tail(q) : n + 1 \in DOMAIN q /\ Tail(q)[n] = q[n + 1]
      /\ 1 \in DOMAIN q /\ m = q[1]
      /\ Unordered(q) => ~IsOrder(m) /\ Unordered(Tail(q))
      /\ \A a : Orders(q, a) => (m = a /\ Unordered(Tail(q))) \/ Orders(Tail(q), a)
      /\ DOMAIN q \subseteq Nat /\ DOMAIN Tail(q) \subseteq Nat \ {0}
      /\ Len(Tail(q)) <= Len(q) /\ Len(q) \in Nat /\ Len(Tail(q)) \in Nat
  <2>1. /\ DOMAIN q \subseteq Nat /\ DOMAIN Tail(q) \subseteq Nat \ {0}
        /\ Len(Tail(q)) <= Len(q) /\ Len(q) \in Nat /\ Len(Tail(q)) \in Nat
    BY <1>0
  <2>. QED BY <1>0, <2>1, OrdersTail
<1> HIDE DEF m, q
<1>5. q = ctl[s]
  BY DEF q
\* What is still on its way was so before, one place further.
<1>6. ASSUME NEW u \in Serial, NEW n \in DOMAIN ctl'[u]
      PROVE  LET p == IF u = s THEN n + 1 ELSE n
             IN p \in DOMAIN ctl[u] /\ ctl'[u][n] = ctl[u][p] /\ n \in Nat /\ (u = s => p # 1)
  <2>1. CASE u = s
    <3>1. n \in DOMAIN Tail(q) /\ ctl'[u] = Tail(q) /\ ctl[u] = q
      BY <1>2, <1>5, <1>6, <2>1
    <3>2. n \in Nat \ {0} /\ n + 1 \in DOMAIN q /\ Tail(q)[n] = q[n + 1]
      BY <1>4, <3>1
    <3>3. n + 1 # 1
      BY <3>2
    <3>. QED BY <2>1, <3>1, <3>2, <3>3
  <2>2. CASE u # s
    <3>1. ctl[u] \in Seq(Message) /\ ctl'[u] = ctl[u]
      BY <1>0, <1>2, <2>2
    <3>2. DOMAIN ctl[u] \subseteq Nat
      BY <3>1
    <3>. QED BY <1>6, <2>2, <3>1, <3>2
  <2>. QED BY <2>1, <2>2
<1>7. \A k \in Instance : (Wanted(k)' <=> Wanted(k)) /\ Attached(known, bound, k)' = Attached(known, bound, k)
  BY <1>1 DEF Wanted, Registration, Bound, Attached
<1>8. OneOfThem' /\ IdleIsFree'
  BY <1>1, <1>7 DEF RelayInv, OneOfThem, IdleIsFree
<1>9. QueuesBounded'
  <2> SUFFICES ASSUME NEW u \in Serial PROVE Len(ctl'[u]) <= MaxQueue
    BY DEF QueuesBounded
  <2>1. Len(ctl[u]) <= MaxQueue
    BY <1>0 DEF QueuesBounded
  <2>2. CASE u = s
    <3>1. ctl'[u] = Tail(q) /\ Len(q) <= MaxQueue
      BY <1>2, <1>5, <2>1, <2>2
    <3>. QED BY <1>4, <3>1, QueueAssumption
  <2>3. CASE u # s
    BY <1>2, <2>1, <2>3
  <2>. QED BY <2>2, <2>3
<1>10. QueuedOnce'
  <2> SUFFICES ASSUME NEW t \in Token, NEW s1 \in Serial, NEW s2 \in Serial,
                      NEW n1 \in DOMAIN ctl'[s1], NEW n2 \in DOMAIN ctl'[s2],
                      ctl'[s1][n1] = Ensure(t), ctl'[s2][n2] = Ensure(t)
               PROVE  s1 = s2 /\ n1 = n2
    BY DEF QueuedOnce
  <2> DEFINE p1 == IF s1 = s THEN n1 + 1 ELSE n1
             p2 == IF s2 = s THEN n2 + 1 ELSE n2
  <2>1. p1 \in DOMAIN ctl[s1] /\ ctl[s1][p1] = Ensure(t) /\ n1 \in Nat
    BY <1>6
  <2>2. p2 \in DOMAIN ctl[s2] /\ ctl[s2][p2] = Ensure(t) /\ n2 \in Nat
    BY <1>6
  <2>3. s1 = s2 /\ p1 = p2
    BY <1>0, <2>1, <2>2 DEF QueuedOnce
  <2>. QED BY <2>1, <2>2, <2>3
<1>11. QueuedUnlinked'
  <2> SUFFICES ASSUME NEW t \in Token, NEW u \in Serial, NEW n \in DOMAIN ctl'[u], ctl'[u][n] = Ensure(t)
               PROVE  link'[t] = NoLink
    BY DEF QueuedUnlinked
  <2> DEFINE p == IF u = s THEN n + 1 ELSE n
  <2>1. p \in DOMAIN ctl[u] /\ ctl[u][p] = Ensure(t) /\ (u = s => p # 1)
    BY <1>6
  <2> HIDE DEF p
  <2>2. link[t] = NoLink
    BY <1>0, <2>1 DEF QueuedUnlinked
  <2>3. m # Ensure(t)
    BY <1>0, <1>4, <1>5, <2>1 DEF QueuedOnce
  <2>4. m.kind = "ensure" => m.token # t
    <3>1. m \in {Ensure(v) : v \in Token} /\ m.token = t => m = Ensure(t)
      BY DEF Ensure
    <3>. QED BY <1>3, <2>3, <3>1
  <2>. QED BY <1>0, <1>3, <2>2, <2>4
\* The pages that are there stay.
<1>12. ASSUME NEW t \in Token, link[t] # NoLink PROVE link'[t] = link[t]
  <2>1. m # Ensure(t)
    BY <1>0, <1>4, <1>5, <1>12 DEF QueuedUnlinked
  <2>2. m.kind = "ensure" => m.token # t
    <3>1. m \in {Ensure(v) : v \in Token} /\ m.token = t => m = Ensure(t)
      BY DEF Ensure
    <3>. QED BY <1>3, <2>1, <3>1
  <2>. QED BY <1>0, <1>3, <2>2
<1>13. \A k \in Instance : k # i /\ Connected(k) => control[k] \in Serial /\ control[k] # s
  BY <1>0, NoneAssumption DEF Served, ControlsServed, Connected, Entry
<1>14. \A k : Page(k) # NoLink /\ Claimed(k) # NoLink
  BY DEF Page, Claimed, NoLink
<1>15. TokenAsked'
  <2> SUFFICES ASSUME NEW k \in Instance, Connected(k), entry[k].token # None
               PROVE  \/ Orders(ctl'[control[k]], Ensure(entry[k].token))
                      \/ /\ Unordered(ctl'[control[k]]) /\ webview'[k] = entry[k].token
                         /\ link'[entry[k].token] = Page(k)
    BY <1>1 DEF TokenAsked, Connected
  <2> DEFINE t == entry[k].token
  <2>1. t \in Token
    BY <1>0 DEF Connected, Entry
  <2>2. \/ Orders(ctl[control[k]], Ensure(t))
        \/ Unordered(ctl[control[k]]) /\ webview[k] = t /\ link[t] = Page(k)
    BY <1>0 DEF TokenAsked
  <2>3. link[t] = Page(k) => link'[t] = Page(k)
    BY <1>12, <1>14, <2>1
  <2>4. CASE k # i
    BY <1>2, <1>3, <1>13, <2>2, <2>3, <2>4
  <2>5. CASE k = i /\ Unordered(q) /\ webview[k] = t /\ link[t] = Page(k)
    BY <1>2, <1>3, <1>4, <2>3, <2>5
  <2>6. CASE k = i /\ Orders(Tail(q), Ensure(t))
    BY <1>2, <2>6
  <2>7. CASE k = i /\ m = Ensure(t) /\ Unordered(Tail(q))
    <3>1. m.kind = "ensure" /\ m.token = t
      BY <2>7 DEF Ensure
    <3>2. webview'[i] = t /\ link'[t] = Page(i)
      BY <1>0, <1>3, <2>1, <3>1
    <3>. QED BY <1>2, <2>7, <3>2
  <2>. QED BY <1>4, <1>5, <2>2, <2>4, <2>5, <2>6, <2>7
<1>16. WantedClaims'
  <2> SUFFICES ASSUME NEW k \in Instance, Connected(k), Wanted(k), ~entry[k].late,
                      entry[k].relay = None, entry[k].token = None
               PROVE  Unordered(ctl'[control[k]]) /\ \E t \in Token : webview'[k] = t /\ link'[t] = Claimed(k)
    BY <1>1, <1>7 DEF WantedClaims, Connected, Claimed
  <2>1. Unordered(ctl[control[k]]) /\ \E t \in Token : webview[k] = t /\ link[t] = Claimed(k)
    BY <1>0 DEF WantedClaims
  <2>2. \A t \in Token : link[t] = Claimed(k) => link'[t] = Claimed(k)
    BY <1>12, <1>14
  <2>3. CASE k = i
    BY <1>2, <1>3, <1>4, <1>5, <2>1, <2>2, <2>3
  <2>4. CASE k # i
    BY <1>2, <1>3, <1>13, <2>1, <2>2, <2>4
  <2>. QED BY <2>3, <2>4
<1>. QED BY <1>8, <1>9, <1>10, <1>11, <1>15, <1>16 DEF RelayInv

-----------------------------------------------------------------------------
(* The steps of relay links and of the timers *)

\* One entry is written, nothing is said.
LEMMA EntryWrittenQuietly ==
    ASSUME TypeOK, TypeOK', Served, RelayInv,
           UNCHANGED <<known, bound, ctl, control, webview>>,
           NEW i \in Instance, entry[i] # None, NEW e \in Entry, e.serial = entry[i].serial,
           entry' = [entry EXCEPT ![i] = e],
           \A t \in Token : link[t] = NoLink => link'[t] = NoLink,
           \A k \in Instance : k # i => LinksKept(k),
           e.relay # None => e.token = None,
           e.idle => e.token = None /\ Attached(known, bound, i) = {},
           TokenStep(Nothing, i), ClaimStep(Nothing, i)
    PROVE  RelayInv'
<1>1. Nothing \in Messages /\ OneAsked(Nothing, i, None) /\ \A k \in Instance : Nothing[k] = <<>>
  BY NothingOrders
<1>2. QueuesBounded'
  BY DEF RelayInv, QueuesBounded
<1>. QED BY <1>1, <1>2, EntryWritten

\* A page or an upgrade that failed was nobody's any more.
LEMMA GoneRelay ==
    ASSUME TypeOK, TypeOK', LinksNamed, Served, RelayInv, NEW t \in Token, PageGone(t) \/ UpgradeFails(t)
    PROVE  RelayInv'
<1>0. link \in [Token -> [st : {"none", "page", "claimed", "up"}, inst : Instance \cup {None}]]
  BY DEF TypeOK
<1>1. /\ UNCHANGED <<known, bound, entry, ctl, control, webview>>
      /\ link' = [link EXCEPT ![t] = NoLink] /\ ~Alive(t)
  BY DEF PageGone, UpgradeFails, daemonVars, appVars
<1>2. NobodyBinds
  BY <1>1 DEF NobodyBinds
<1>3. \A u \in Token : link[u] = NoLink => link'[u] = NoLink
  BY <1>0, <1>1
<1>4. \A k \in Instance, u \in Token :
        webview[k] = u /\ (link[u] = Page(k) \/ link[u] = Claimed(k)) => link'[u] = link[u]
  BY <1>0, <1>1 DEF Alive, Page, Claimed
<1>5. ASSUME NEW k \in Instance PROVE LinksKept(k)
  <2>1. entry[k] # None /\ entry[k].token # None => entry[k].token \in Token
    BY DEF TypeOK, Entry
  <2>. QED BY <1>4, <2>1 DEF LinksKept
<1>. QED BY <1>1, <1>2, <1>3, <1>5, NothingSaid

\* The token is consumed: the page is let in.
LEMMA RelayConnectsRelay ==
    ASSUME TypeOK, TypeOK', LinksNamed, Served, RelayInv, NEW t \in Token, RelayConnects(t)
    PROVE  RelayInv'
<1>c. PICK i \in Instance : i = link[t].inst
  BY DEF LinksNamed, RelayConnects
<1> DEFINE LetIn == entry[i] # None /\ entry[i].token = t /\ entry[i].relay = None
<1>0. /\ link \in [Token -> [st : {"none", "page", "claimed", "up"}, inst : Instance \cup {None}]]
      /\ entry \in [Instance -> Entry \cup {None}]
  BY DEF TypeOK
<1>1. /\ UNCHANGED <<known, bound, ctl, control, webview>> /\ link[t].st = "page" /\ i \in Instance
      /\ webview[i] = t
  BY <1>c DEF RelayConnects, appVars, Alive
<1>2. link[t] = Page(i)
  BY <1>0, <1>1, <1>c DEF Page
<1>3. \A k \in Instance, u \in Token :
        /\ link[u] = Page(k) /\ u = t => k = i
        /\ link[u] = Claimed(k) => u # t
  BY <1>2 DEF Page, Claimed
<1>4. \A u \in Token : u # t => link'[u] = link[u]
  BY <1>0 DEF RelayConnects
<1>5. \A u \in Token : link[u] = NoLink => u # t
  BY <1>1 DEF NoLink
<1>6. \A k \in Instance : entry[k] # None => entry[k] \in Entry /\ entry[k].token \in Token \cup {None}
  BY <1>0 DEF Entry
<1>7. CASE LetIn
  <2> DEFINE e == [entry[i] EXCEPT !.token = None]
  <2>1. entry' = [entry EXCEPT ![i] = e] /\ link' = [link EXCEPT ![t].st = "claimed"]
    BY <1>7, <1>c DEF RelayConnects
  <2>2. link'[t] = Claimed(i)
    BY <1>0, <1>2, <2>1 DEF Claimed, Page
  <2>3. /\ e \in Entry /\ e.serial = entry[i].serial /\ e.token = None /\ e.idle = entry[i].idle
        /\ e.relay = None
    BY <1>0, <1>1, <1>7 DEF Entry
  <2>4. t # None
    BY NoneAssumption
  <2>5. ~e.idle
    BY <1>1, <1>7, <2>3, <2>4 DEF RelayInv, IdleIsFree
  <2>6. ASSUME NEW k \in Instance, k # i PROVE LinksKept(k)
    BY <1>3, <1>4, <1>6, <2>6 DEF LinksKept
  <2> HIDE DEF e
  <2>7. entry'[i] = e
    BY <1>0, <1>1, <2>1
  <2>8. TokenStep(Nothing, i) /\ ClaimStep(Nothing, i)
    BY <1>1, <1>2, <1>7, <2>2, <2>3, <2>4, <2>7, NothingOrders DEF TokenStep, ClaimStep
  <2>. QED BY <1>1, <1>4, <1>5, <1>7, <2>1, <2>3, <2>5, <2>6, <2>8, EntryWrittenQuietly
<1>8. CASE ~LetIn
  <2>1. entry' = entry
    BY <1>8, <1>c DEF RelayConnects
  <2>2. ASSUME NEW k \in Instance PROVE LinksKept(k)
    <3>1. entry[k] # None /\ entry[k].token = t => k # i \/ link[t] # Page(k)
      BY <1>1, <1>8, NoneAssumption DEF RelayInv, OneOfThem
    <3>. QED BY <1>2, <1>3, <1>4, <1>6, <3>1 DEF LinksKept
  <2>3. NobodyBinds
    BY <1>1 DEF NobodyBinds
  <2>. QED BY <1>1, <1>4, <1>5, <2>1, <2>2, <2>3, NothingSaid
<1>. QED BY <1>7, <1>8

LEMMA RelayUpRelay ==
    ASSUME TypeOK, TypeOK', LinksNamed, Served, RelayInv, NEW t \in Token, RelayUp(t)
    PROVE  RelayInv'
<1>c. PICK i \in Instance : i = link[t].inst
  BY DEF LinksNamed, RelayUp
<1>0. /\ link \in [Token -> [st : {"none", "page", "claimed", "up"}, inst : Instance \cup {None}]]
      /\ entry \in [Instance -> Entry \cup {None}]
  BY DEF TypeOK
<1>1. /\ UNCHANGED <<known, bound, ctl, control, webview>> /\ link[t].st = "claimed" /\ i \in Instance
      /\ link' = [link EXCEPT ![t].st = "up"]
  BY DEF RelayUp, appVars
<1>2. \A k \in Instance, u \in Token :
        /\ link[u] = Page(k) => u # t
        /\ link[u] = Claimed(k) /\ u = t => k = i
  BY <1>1, <1>c DEF Page, Claimed
<1>3. \A u \in Token : u # t => link'[u] = link[u]
  BY <1>0, <1>1
<1>4. \A u \in Token : link[u] = NoLink => u # t
  BY <1>1 DEF NoLink
<1>5. \A k \in Instance : entry[k] # None => entry[k] \in Entry /\ entry[k].token \in Token \cup {None}
  BY <1>0 DEF Entry
<1>6. ASSUME NEW k \in Instance, k # i PROVE LinksKept(k)
  BY <1>2, <1>3, <1>5, <1>6 DEF LinksKept
<1>7. CASE entry[i] # None
  <2> DEFINE e == [entry[i] EXCEPT !.relay = t, !.token = None]
  <2>1. entry' = [entry EXCEPT ![i] = e]
    BY <1>7, <1>c DEF RelayUp
  <2>2. /\ e \in Entry /\ e.serial = entry[i].serial /\ e.token = None /\ e.idle = entry[i].idle
        /\ e.relay = t
    BY <1>0, <1>1, <1>7 DEF Entry
  <2>3. t # None
    BY NoneAssumption
  <2>4. e.idle => Attached(known, bound, i) = {}
    BY <1>1, <1>7, <2>2 DEF RelayInv, IdleIsFree
  <2> HIDE DEF e
  <2>5. entry'[i] = e
    BY <1>0, <1>1, <2>1
  <2>6. TokenStep(Nothing, i) /\ ClaimStep(Nothing, i)
    BY <2>2, <2>3, <2>5 DEF TokenStep, ClaimStep
  <2>. QED BY <1>1, <1>3, <1>4, <1>6, <1>7, <2>1, <2>2, <2>4, <2>6, EntryWrittenQuietly
<1>8. CASE entry[i] = None
  <2>1. entry' = entry
    BY <1>8, <1>c DEF RelayUp
  <2>2. \A k \in Instance : LinksKept(k)
    BY <1>6, <1>8 DEF LinksKept
  <2>3. NobodyBinds
    BY <1>1 DEF NobodyBinds
  <2>. QED BY <1>1, <1>3, <1>4, <2>1, <2>2, <2>3, NothingSaid
<1>. QED BY <1>7, <1>8

\* A relay ends: who is wanted asks for another one at once.
LEMMA RelayEndsRelay ==
    ASSUME TypeOK, TypeOK', LinksNamed, Served, RelayInv, NEW t \in Token, RelayEnds(t)
    PROVE  RelayInv'
<1>c. PICK i \in Instance : i = link[t].inst
  BY DEF LinksNamed, RelayEnds
<1> DEFINE had == entry[i] # None /\ entry[i].relay # None
           gone == [entry[i] EXCEPT !.relay = None]
<1>0. /\ link \in [Token -> [st : {"none", "page", "claimed", "up"}, inst : Instance \cup {None}]]
      /\ entry \in [Instance -> Entry \cup {None}]
  BY DEF TypeOK
<1>1. /\ UNCHANGED <<known, bound, control, webview>> /\ link[t].st = "up" /\ i \in Instance
      /\ link' = [link EXCEPT ![t] = NoLink] /\ Bounded
  BY DEF RelayEnds, appVars
<1>2. \A k \in Instance, u \in Token : link[u] = Page(k) \/ link[u] = Claimed(k) => link'[u] = link[u]
  BY <1>0, <1>1 DEF Page, Claimed
<1>3. \A u \in Token : link[u] = NoLink => link'[u] = NoLink
  BY <1>0, <1>1
<1>4. ASSUME NEW k \in Instance PROVE LinksKept(k)
  <2>1. entry[k] # None /\ entry[k].token # None => entry[k].token \in Token
    BY <1>0 DEF Entry
  <2>. QED BY <1>2, <2>1 DEF LinksKept
<1>5. CASE ~had
  <2>1. UNCHANGED <<entry, ctl>>
    BY <1>5, <1>c DEF RelayEnds
  <2>2. NobodyBinds
    BY <1>1 DEF NobodyBinds
  <2>. QED BY <1>1, <1>3, <1>4, <2>1, <2>2, NothingSaid
<1>6. CASE had
  <2>1. /\ gone \in Entry /\ gone.serial = entry[i].serial /\ gone.relay = None
        /\ gone.token = entry[i].token /\ gone.idle = entry[i].idle /\ gone.late = entry[i].late
    BY <1>0, <1>1, <1>6 DEF Entry
  <2>2. entry[i].token = None
    BY <1>1, <1>6 DEF RelayInv, OneOfThem
  <2>3. CASE Attached(known, bound, i) = {}
    <3>1. entry' = [entry EXCEPT ![i] = gone] /\ ctl' = ctl
      BY <1>6, <1>c, <2>3 DEF RelayEnds
    <3> HIDE DEF gone
    <3>2. entry'[i] = gone
      BY <1>0, <1>1, <3>1
    <3>3. ~Wanted(i)'
      BY <1>1, <2>3 DEF Wanted, Registration, Bound, Attached
    <3>4. TokenStep(Nothing, i) /\ ClaimStep(Nothing, i)
      BY <2>1, <2>2, <3>2, <3>3 DEF TokenStep, ClaimStep
    <3>. QED BY <1>1, <1>3, <1>4, <1>6, <2>1, <2>2, <2>3, <3>1, <3>4, EntryWrittenQuietly
  <2>4. CASE Attached(known, bound, i) # {}
    <3>1. PICK r \in Ensured(gone) :
            /\ entry' = [entry EXCEPT ![i] = r[1]]
            /\ ctl' = Queue([k \in Instance |-> IF k = i THEN r[2] ELSE <<>>])
      BY <1>6, <1>c, <2>4 DEF RelayEnds
    <3> DEFINE M == [k \in Instance |-> IF k = i THEN r[2] ELSE <<>>]
    <3> HIDE DEF gone
    <3>2. r[1] \in Entry /\ r[2] \in Seq(Message)
      BY <2>1, <3>1, EnsuredType
    <3>3. /\ r[1].relay = None /\ r[1].serial = entry[i].serial /\ ~r[1].idle
          /\ \E u \in Token : Unused(u) /\ r[1].token = u /\ r[2] = <<Ensure(u)>>
      BY <2>1, <2>2, EnsuredRelay
    <3>4. PICK u \in Token : Unused(u) /\ r[1].token = u /\ r[2] = <<Ensure(u)>>
      BY <3>3
    <3>5. M \in Messages /\ M[i] = <<Ensure(u)>> /\ \A k \in Instance : k # i => M[k] = <<>>
      BY <1>1, <3>2, <3>4, OneMessage
    <3>6. ctl' = Queue(M)
      BY <3>1
    <3> HIDE DEF M
    <3>7. Len(<<Ensure(u)>>) = 1 /\ DOMAIN <<Ensure(u)>> = {1} /\ <<Ensure(u)>>[1] = Ensure(u)
      OBVIOUS
    <3>8. Asks(M[i], u)
      BY <3>5, <3>7 DEF Asks
    <3>9. OneAsked(M, i, u)
      <4>1. \A n \in DOMAIN M[i] : n = Len(M[i]) /\ M[i][n] = Ensure(u)
        BY <3>5, <3>7
      <4>2. \A k \in Instance : k # i => DOMAIN M[k] = {}
        BY <3>5
      <4>. QED BY <3>4, <4>1, <4>2 DEF OneAsked
    <3>10. entry'[i] = r[1] /\ u # None
      BY <1>0, <1>1, <3>1, NoneAssumption
    <3>11. TokenStep(M, i) /\ ClaimStep(M, i)
      BY <3>4, <3>8, <3>10 DEF TokenStep, ClaimStep
    <3>12. QueuesBounded'
      BY <1>1 DEF Bounded, QueuesBounded
    <3> DEFINE e == r[1]
    <3>13. e \in Entry /\ e.serial = entry[i].serial /\ e.relay = None /\ ~e.idle /\ entry' = [entry EXCEPT ![i] = e]
      BY <3>1, <3>2, <3>3
    <3> HIDE DEF e
    <3>. QED BY <1>1, <1>3, <1>4, <1>6, <3>5, <3>6, <3>9, <3>11, <3>12, <3>13, EntryWritten
  <2>. QED BY <2>3, <2>4
<1>. QED BY <1>5, <1>6

LEMMA TimersRelay ==
    ASSUME TypeOK, TypeOK', Served, RelayInv, NEW i \in Instance, TokenExpires(i) \/ LingerPasses(i)
    PROVE  RelayInv'
<1>0. /\ entry \in [Instance -> Entry \cup {None}] /\ entry[i] # None /\ entry[i] \in Entry
      /\ UNCHANGED <<known, bound, control, webview, link>>
  BY DEF TypeOK, TokenExpires, LingerPasses, appVars
<1>1. \A k \in Instance : LinksKept(k)
  BY <1>0 DEF LinksKept
<1>2. CASE TokenExpires(i)
  <2> DEFINE e == [entry[i] EXCEPT !.token = None, !.late = TRUE]
  <2>1. entry' = [entry EXCEPT ![i] = e] /\ ctl' = ctl /\ entry[i].token # None
    BY <1>2 DEF TokenExpires
  <2>2. /\ e \in Entry /\ e.serial = entry[i].serial /\ e.token = None /\ e.late /\ e.idle = entry[i].idle
    BY <1>0 DEF Entry
  <2> HIDE DEF e
  <2>3. entry'[i] = e
    BY <1>0, <2>1
  <2>4. TokenStep(Nothing, i) /\ ClaimStep(Nothing, i)
    BY <2>2, <2>3 DEF TokenStep, ClaimStep
  <2>5. ~e.idle
    BY <1>0, <2>1, <2>2 DEF RelayInv, IdleIsFree
  <2>. QED BY <1>0, <1>1, <2>1, <2>2, <2>4, <2>5, EntryWrittenQuietly
<1>3. CASE LingerPasses(i)
  <2> DEFINE e == [entry[i] EXCEPT !.idle = FALSE]
             M == [k \in Instance |-> IF k = i THEN <<Drop>> ELSE <<>>]
  <2>1. entry' = [entry EXCEPT ![i] = e] /\ ctl' = Queue(M) /\ entry[i].idle /\ Bounded
    BY <1>3 DEF LingerPasses
  <2>2. /\ e \in Entry /\ e.serial = entry[i].serial /\ e.token = entry[i].token /\ ~e.idle
        /\ e.relay = entry[i].relay
    BY <1>0 DEF Entry
  <2>3. entry[i].token = None /\ Attached(known, bound, i) = {}
    BY <1>0, <2>1 DEF RelayInv, IdleIsFree
  <2>4. Drop \in Message /\ Drop.kind # "ensure"
    BY DEF Message, Drop
  <2>5. <<Drop>> \in Seq(Message) /\ DOMAIN <<Drop>> = {1} /\ <<Drop>>[1] = Drop
    BY <2>4
  <2>6. M \in Messages /\ M[i] = <<Drop>> /\ \A k \in Instance : k # i => M[k] = <<>>
    BY <2>5, OneMessage
  <2> HIDE DEF e, M
  <2>7. OneAsked(M, i, None)
    BY <2>4, <2>5, <2>6 DEF OneAsked
  <2>8. entry'[i] = e
    BY <1>0, <2>1
  <2>9. ~Wanted(i)'
    BY <1>0, <2>3 DEF Wanted, Registration, Bound, Attached
  <2>10. TokenStep(M, i) /\ ClaimStep(M, i)
    BY <2>2, <2>3, <2>8, <2>9 DEF TokenStep, ClaimStep
  <2>11. QueuesBounded'
    BY <2>1 DEF Bounded, QueuesBounded
  <2>. QED BY <1>0, <1>1, <2>1, <2>2, <2>3, <2>6, <2>7, <2>10, <2>11, EntryWritten
<1>. QED BY <1>2, <1>3

-----------------------------------------------------------------------------
(* Nobody who is bound is forgotten *)

LEMMA NextRelay ==
    ASSUME IInv, IInv', Served, RelayInv, [Next]_vars
    PROVE  RelayInv'
<1>0. TypeOK /\ TypeOK' /\ JobsNamed /\ LinksNamed
  BY DEF IInv
<1>1. CASE UNCHANGED vars
  <2>1. UNCHANGED <<known, bound, entry, ctl, control, webview, link>>
    BY <1>1 DEF vars, daemonVars, appVars
  <2>2. NobodyBinds
    BY <2>1 DEF NobodyBinds
  <2>. QED BY <1>0, <2>1, <2>2, NothingHappens
<1>2. ASSUME NEW j \in Job, Attach(j) PROVE RelayInv'
  <2>1. job[j].conn \in Conn /\ job[j].inst \in Instance
    BY <1>0, <1>2 DEF Attach, JobsNamed
  <2>. QED BY <1>0, <1>2, <2>1, AttachRelay
<1>. QED
  BY <1>0, <1>1, <1>2, ConnsRelay, JobsRelay, RegisterRelay, ControlBreaksRelay, AppHandlesRelay,
     ControlEndsRelay, GoneRelay, RelayConnectsRelay, RelayUpRelay, RelayEndsRelay, TimersRelay
  DEF Next

LEMMA InitRelay == Init => RelayInv
<1> SUFFICES ASSUME Init PROVE RelayInv
  OBVIOUS
<1>1. /\ \A i \in Instance : entry[i] = None
      /\ \A s \in Serial : ctl[s] = <<>>
  BY DEF Init
<1>2. Len(<<>>) = 0 /\ DOMAIN <<>> = {}
  OBVIOUS
<1>3. QueuesBounded
  BY <1>1, <1>2, QueueAssumption DEF QueuesBounded
<1>4. QueuedOnce /\ QueuedUnlinked
  BY <1>1, <1>2 DEF QueuedOnce, QueuedUnlinked
<1>5. OneOfThem /\ IdleIsFree /\ TokenAsked /\ WantedClaims
  BY <1>1 DEF OneOfThem, IdleIsFree, TokenAsked, WantedClaims, Connected
<1>. QED BY <1>3, <1>4, <1>5 DEF RelayInv

\* A bound connection whose instance is there and answers in a token's time is
\* never forgotten: while it has no relay, the last thing the application will
\* act on opens the page the entry's token is for, or that page is there, or it
\* has been let in.  No other token, no drop and no end of an earlier relay
\* gets in its way, in whatever order they cross.
BoundNotForgotten ==
    \A c \in Conn, i \in Instance :
      Registration(c, i) /\ control[i] = entry[i].serial /\ ~entry[i].late /\ entry[i].relay = None
        => LET t == entry[i].token
           IN IF t # None
              THEN Orders(ctl[control[i]], Ensure(t)) \/ (webview[i] = t /\ link[t] = Page(i))
              ELSE \E u \in Token : webview[i] = u /\ link[u] = Claimed(i)

\* This holds in every reachable state, for any number of connections,
\* instances, tokens and control connections.
THEOREM RelayPromised == Spec => []BoundNotForgotten
<1>1. IInv /\ IInv' /\ Served /\ Served' /\ AllTold /\ RelayInv /\ [Next]_vars => RelayInv'
  BY NextRelay
<1>2. Init => Served /\ AllTold
  BY NoneAssumption DEF Init, Served, EntriesServed, ControlsServed, UnservedSilent,
     UnconnectedUntold, AllTold
<1>3. IInv /\ Served /\ AllTold /\ [Next]_vars => (Served /\ AllTold)'
  BY NextTold
<1>4. RelayInv => BoundNotForgotten
  <2> SUFFICES ASSUME RelayInv, NEW c \in Conn, NEW i \in Instance, Registration(c, i),
                      control[i] = entry[i].serial, ~entry[i].late, entry[i].relay = None
               PROVE  LET t == entry[i].token
                      IN IF t # None
                         THEN Orders(ctl[control[i]], Ensure(t)) \/ (webview[i] = t /\ link[t] = Page(i))
                         ELSE \E u \in Token : webview[i] = u /\ link[u] = Claimed(i)
    BY DEF BoundNotForgotten
  <2>1. Connected(i) /\ Wanted(i) /\ TokenAsked /\ WantedClaims
    BY DEF Connected, Wanted, Registration, RelayInv
  <2>2. CASE entry[i].token # None
    BY <2>1, <2>2 DEF TokenAsked
  <2>3. CASE entry[i].token = None
    BY <2>1, <2>3 DEF WantedClaims
  <2>. QED BY <2>2, <2>3
<1>. QED BY InitRelay, <1>1, <1>2, <1>3, <1>4, RouterIInv, PTL DEF Spec

=============================================================================
