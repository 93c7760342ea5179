------------------------- MODULE JointLogin_proofs -------------------------
(***************************************************************************)
(* Proofs about JointLogin: its types, and that the Hub's gate admits only *)
(* who typed the current password once the Hub holds the current verifier, *)
(* for any number of logins, passwords, epochs and tunnels.                *)
(***************************************************************************)
EXTENDS JointLogin, TLAPS, FiniteSetTheorems

-----------------------------------------------------------------------------
(* Facts about the data *)

\* The two kinds of frames are told apart by their fields.
LEMMA FrameKinds ==
    /\ \A f \in Credential : IsCredential(f)
    /\ \A f \in Answer : ~IsCredential(f)
BY DEF Credential, Answer, IsCredential

LEMMA NoneIsNoCredential == None \notin Credential
BY SizeAssumption, NoneAssumption DEF Credential

\* Sending appends a frame, or nothing.
LEMMA SendType ==
    ASSUME wire \in [Tunnel -> Seq(Frame)], NEW s, NEW f \in Frame, Send(s, f)
    PROVE  wire' \in [Tunnel -> Seq(Frame)]
<1>1. CASE wire' = wire
  BY <1>1
<1>2. CASE s \in Tunnel /\ wire' = [wire EXCEPT ![s] = Append(@, f)]
  <2>1. Append(wire[s], f) \in Seq(Frame)
    BY <1>2
  <2>. QED BY <1>2, <2>1
<1>3. CASE s \notin Tunnel /\ wire' = [wire EXCEPT ![s] = Append(@, f)]
  <2>1. wire' = wire
    BY <1>3
  <2>. QED BY <2>1
<1>. QED BY <1>1, <1>2, <1>3 DEF Send

LEMMA AnswerType ==
    ASSUME NEW l \in Login, NEW b \in BOOLEAN
    PROVE  [login |-> l, ok |-> b] \in Frame
BY DEF Frame, Answer

LEMMA OverType ==
    ASSUME NEW h \in HubHandler, NEW st \in {"out", "in"}
    PROVE  /\ Over(h, st) \in HubHandler
           /\ Over(h, st).st = st /\ Over(h, st).pw = h.pw /\ Over(h, st).cred = h.cred
BY DEF Over, HubHandler

LEMMA TailType ==
    ASSUME wire \in [Tunnel -> Seq(Frame)], NEW s \in Tunnel, wire[s] # <<>>
    PROVE  /\ Head(wire[s]) \in Frame
           /\ [wire EXCEPT ![s] = Tail(@)] \in [Tunnel -> Seq(Frame)]
<1>1. wire[s] \in Seq(Frame)
  OBVIOUS
<1>2. Head(wire[s]) \in Frame /\ Tail(wire[s]) \in Seq(Frame)
  BY <1>1
<1>. QED BY <1>2

-----------------------------------------------------------------------------
(* Types *)

LEMMA PcTypes ==
    ASSUME TypeOK, NEW l \in Login, PcLogin(l) \/ PcVerified(l) \/ PcSessionEnds(l)
    PROVE  TypeOK'
<1>0. NoJob \in PcHandler
  BY DEF NoJob, PcHandler
<1>1. CASE PcLogin(l)
  <2>1. [job[l] EXCEPT !.st = "verifying", !.hash = auth.pw] \in PcHandler
    <3>1. job[l] \in PcHandler /\ auth.pw \in Password
      BY DEF TypeOK, Credential
    <3>. QED BY <3>1 DEF PcHandler
  <2>2. job' \in [Login -> PcHandler]
    BY <1>0, <1>1, <2>1 DEF PcLogin, TypeOK
  <2>3. wire' \in [Tunnel -> Seq(Frame)]
    BY <1>1, AnswerType, SendType DEF PcLogin, TypeOK
  <2>. QED BY <1>1, <2>2, <2>3 DEF PcLogin, TypeOK, hubVars
<1>2. CASE PcVerified(l)
  <2>1. [login |-> l, epoch |-> auth.epoch] \in Session
    BY DEF TypeOK, Credential, Session
  <2>2. pcSessions' \in SUBSET Session /\ job' \in [Login -> PcHandler]
    BY <1>0, <1>2, <2>1 DEF PcVerified, TypeOK
  <2>3. wire' \in [Tunnel -> Seq(Frame)]
    BY <1>2, AnswerType, SendType DEF PcVerified, TypeOK
  <2>. QED BY <1>2, <2>2, <2>3 DEF PcVerified, TypeOK, hubVars
<1>3. CASE PcSessionEnds(l)
  BY <1>3 DEF PcSessionEnds, TypeOK, hubVars
<1>. QED BY <1>1, <1>2, <1>3

LEMMA LinkTypes ==
    ASSUME TypeOK
    PROVE  LinkUp \/ LinkDown \/ PushCredential => TypeOK'
<1>1. CASE LinkUp
  <2>1. used + 1 \in Tunnel
    BY <1>1, SizeAssumption DEF LinkUp, TypeOK, Tunnel
  <2>2. <<auth>> \in Seq(Frame)
    BY DEF TypeOK, Frame
  <2>. QED BY <1>1, <2>1, <2>2 DEF LinkUp, TypeOK
<1>2. CASE LinkDown
  <2>1. NoJob \in PcHandler
    BY DEF NoJob, PcHandler
  <2>. QED BY <1>2, <2>1 DEF LinkDown, TypeOK, hubVars
<1>3. CASE PushCredential
  <2>1. wire' \in [Tunnel -> Seq(Frame)]
    BY <1>3, SendType DEF PushCredential, TypeOK, Frame
  <2>. QED BY <1>3, <2>1 DEF PushCredential, TypeOK, hubVars
<1>. QED BY <1>1, <1>2, <1>3

LEMMA TunnelTypes ==
    ASSUME TypeOK
    PROVE  /\ \A s \in Tunnel : HubHearsCredential(s) \/ HubHearsAnswer(s) \/ HubDrops(s) => TypeOK'
           /\ HubRestart => TypeOK'
<1>0. IsFiniteSet({}) /\ Cardinality({}) <= Cap
  BY SizeAssumption, FS_EmptySet
<1>1. ASSUME NEW s \in Tunnel, HubHearsCredential(s) PROVE TypeOK'
  <2>1. wire' \in [Tunnel -> Seq(Frame)] /\ Head(wire[s]) \in Frame
    BY <1>1, TailType DEF HubHearsCredential, TypeOK
  <2>2. Head(wire[s]) \in Credential
    BY <1>1, <2>1, FrameKinds DEF HubHearsCredential, Frame
  <2>3. Head(wire[s]).epoch \in 0..MaxEpoch
    BY <2>2 DEF Credential
  <2>4. links' = {} \/ links' = links
    BY <1>1 DEF HubHearsCredential
  <2>. QED BY <1>0, <1>1, <2>1, <2>2, <2>3, <2>4 DEF HubHearsCredential, TypeOK, pcVars
<1>2. ASSUME NEW s \in Tunnel, HubHearsAnswer(s) PROVE TypeOK'
  <2>1. wire' \in [Tunnel -> Seq(Frame)] /\ Head(wire[s]) \in Frame
    BY <1>2, TailType DEF HubHearsAnswer, TypeOK
  <2> DEFINE a == Head(wire[s])
  <2>2. a \in Answer
    BY <1>2, <2>1, FrameKinds DEF HubHearsAnswer, Frame
  <2>3. a.login \in Login /\ a.ok \in BOOLEAN
    BY <2>2 DEF Answer
  <2>4. [login[a.login] EXCEPT !.st = "answered", !.ok = a.ok] \in HubHandler
    <3>1. login[a.login] \in HubHandler
      BY <2>3 DEF TypeOK
    <3> HIDE DEF a
    <3>. QED BY <2>3, <3>1 DEF HubHandler
  <2>5. login' \in [Login -> HubHandler]
    BY <1>2, <2>3, <2>4 DEF HubHearsAnswer, TypeOK
  <2>. QED BY <1>2, <2>1, <2>5 DEF HubHearsAnswer, TypeOK, pcVars
<1>3. ASSUME NEW s \in Tunnel, HubDrops(s) PROVE TypeOK'
  <2>1. login' \in [Login -> HubHandler]
    BY <1>3, OverType DEF HubDrops, TypeOK
  <2>2. <<>> \in Seq(Frame)
    OBVIOUS
  <2>3. wire' \in [Tunnel -> Seq(Frame)]
    BY <1>3, <2>2 DEF HubDrops, TypeOK
  <2>. QED BY <1>3, <2>1, <2>3 DEF HubDrops, TypeOK, pcVars
<1>4. CASE HubRestart
  <2>1. login' \in [Login -> HubHandler]
    BY <1>4, OverType DEF HubRestart, TypeOK
  <2>2. <<>> \in Seq(Frame)
    OBVIOUS
  <2>3. wire' \in [Tunnel -> Seq(Frame)] /\ cred' \in [Tunnel -> Credential \cup {None}]
    BY <1>4, <2>2 DEF HubRestart
  <2>. QED BY <1>0, <1>4, <2>1, <2>3 DEF HubRestart, TypeOK, pcVars
<1>. QED BY <1>1, <1>2, <1>3, <1>4

\* The room made for one more session keeps the cap.
LEMMA IssueTypes ==
    ASSUME TypeOK, NEW l \in Login, Issue(l), login[l].cred \in Credential
    PROVE  TypeOK'
<1> DEFINE epoch == login[l].cred.epoch
           kept == {s \in links : ValidAt(s, epoch)}
           new == [login |-> l, epoch |-> epoch]
<1>1. PICK rest \in SUBSET kept : MadeRoom(kept, rest) /\ links' = rest \cup {new}
  BY DEF Issue
<1>2. IsFiniteSet(kept) /\ IsFiniteSet(rest) /\ rest \in SUBSET links
  BY <1>1, FS_Subset DEF TypeOK
<1>3. Cardinality(rest) <= Cap - 1 /\ Cardinality(rest) \in Nat
  <2>1. Cardinality(kept) \in Nat /\ Cardinality(rest) \in Nat
    BY <1>2, FS_CardinalityType
  <2>2. CASE Cardinality(kept) < Cap
    <3>1. rest = kept
      BY <1>1, <2>2 DEF MadeRoom
    <3> HIDE DEF kept
    <3>. QED BY <2>1, <2>2, <3>1, SizeAssumption
  <2>3. CASE ~(Cardinality(kept) < Cap)
    BY <1>1, <2>1, <2>3 DEF MadeRoom
  <2>. QED BY <2>2, <2>3
<1>4. new \in Session
  BY DEF Session, Credential
<1>5. IsFiniteSet(links') /\ Cardinality(links') <= Cap
  <2> HIDE DEF new, kept
  <2>0. IsFiniteSet(rest)
    BY <1>2
  <2>1. IsFiniteSet(rest \cup {new})
        /\ (Cardinality(rest \cup {new}) = Cardinality(rest) \/ Cardinality(rest \cup {new}) = Cardinality(rest) + 1)
    BY <2>0, FS_AddElement
  <2>. QED BY <1>1, <1>3, <2>1, SizeAssumption
<1>6. login' \in [Login -> HubHandler]
  BY OverType DEF Issue, TypeOK
<1>. QED BY <1>1, <1>2, <1>4, <1>5, <1>6 DEF Issue, TypeOK, pcVars

LEMMA HubTypes ==
    ASSUME TypeOK, NEW l \in Login
    PROVE  /\ Submit(l) \/ HubVerified(l) \/ LoginGivenUp(l) \/ Refused(l) => TypeOK'
           /\ \A s \in links : LinkSessionExpires(s) => TypeOK'
<1>1. CASE Submit(l)
  <2>1. cred[tunnel] \in Credential /\ tunnel \in Tunnel
    BY <1>1 DEF Submit, TypeOK
  <2>2. [login[l] EXCEPT !.st = "verify", !.cred = cred[tunnel], !.over = tunnel] \in HubHandler
    BY <2>1 DEF TypeOK, HubHandler
  <2>. QED BY <1>1, <2>2 DEF Submit, TypeOK, pcVars
<1>2. CASE HubVerified(l)
  <2>1. [login[l] EXCEPT !.st = "forward"] \in HubHandler
    BY DEF TypeOK, HubHandler
  <2>2. [job[l] EXCEPT !.st = "request", !.over = login[l].over] \in PcHandler
    <3>1. login[l].over \in {0} \cup Tunnel /\ job[l] \in PcHandler
      BY DEF TypeOK, HubHandler
    <3>. QED BY <3>1 DEF PcHandler
  <2>3. login' \in [Login -> HubHandler]
    BY <1>2, <2>1, OverType DEF HubVerified, TypeOK
  <2>4. job' \in [Login -> PcHandler]
    BY <1>2, <2>2 DEF HubVerified, TypeOK
  <2>. QED BY <1>2, <2>3, <2>4 DEF HubVerified, TypeOK
<1>3. CASE LoginGivenUp(l) \/ Refused(l)
  <2>1. login' \in [Login -> HubHandler]
    <3>1. login' = [login EXCEPT ![l] = Over(@, "out")]
      BY <1>3 DEF LoginGivenUp, Refused
    <3>. QED BY <3>1, OverType DEF TypeOK
  <2>. QED BY <1>3, <2>1 DEF LoginGivenUp, Refused, TypeOK, pcVars
<1>4. ASSUME NEW s \in links, LinkSessionExpires(s) PROVE TypeOK'
  <2>1. IsFiniteSet(links') /\ Cardinality(links') <= Cardinality(links)
    BY <1>4, FS_Subset DEF LinkSessionExpires, TypeOK
  <2>2. Cardinality(links) \in Nat /\ Cardinality(links') \in Nat
    BY <2>1, FS_CardinalityType DEF TypeOK
  <2>. QED BY <1>4, <2>1, <2>2, SizeAssumption DEF LinkSessionExpires, TypeOK, pcVars
<1>. QED BY <1>1, <1>2, <1>3, <1>4

-----------------------------------------------------------------------------
(* The invariant *)

\* A verifier the PC has had: of an older epoch, or the current one.
Known(c) == c \in Credential /\ c.epoch <= auth.epoch /\ (c.epoch = auth.epoch => c.pw = auth.pw)

\* Every verifier on its way, in a tunnel or copied by a login is one of them.
WireKnown ==
    \A s \in Tunnel, c \in Credential : (\E n \in DOMAIN wire[s] : wire[s][n] = c) => Known(c)
CredKnown == \A s \in Tunnel : cred[s] # None => Known(cred[s])
LoginKnown == \A l \in Login : login[l].st # "idle" => Known(login[l].cred)

\* A login past its check typed the password of the verifier it copied, and its
\* session is of that verifier's epoch.
Checked ==
    \A l \in Login : login[l].st \in {"forward", "answered", "in"} => login[l].pw = login[l].cred.pw
Issued == \A s \in links : login[s.login].st = "in" /\ s.epoch = login[s.login].cred.epoch

IInv == TypeOK /\ WireKnown /\ CredKnown /\ LoginKnown /\ Checked /\ Issued

LEMMA InitIInv == Init => IInv
<1> SUFFICES ASSUME Init PROVE IInv
  OBVIOUS
<1>1. TypeOK
  <2>1. IsFiniteSet({}) /\ Cardinality({}) <= Cap
    BY SizeAssumption, FS_EmptySet
  <2>2. auth \in Credential
    BY SizeAssumption DEF Init, Credential
  <2>3. NoJob \in PcHandler
    BY DEF NoJob, PcHandler
  <2>4. login \in [Login -> HubHandler]
    BY DEF Init, HubHandler
  <2>5. <<>> \in Seq(Frame)
    OBVIOUS
  <2>6. wire \in [Tunnel -> Seq(Frame)]
    BY <2>5 DEF Init
  <2>7. job \in [Login -> PcHandler] /\ cred \in [Tunnel -> Credential \cup {None}]
    BY <2>3 DEF Init
  <2>8. 0 \in 0..MaxEpoch
    BY SizeAssumption
  <2>9. links = {} /\ IsFiniteSet(links) /\ Cardinality(links) <= Cap
    BY <2>1 DEF Init
  <2>. QED BY <2>2, <2>4, <2>6, <2>7, <2>8, <2>9 DEF Init, TypeOK
<1>2. WireKnown /\ CredKnown
  BY DEF Init, WireKnown, CredKnown
<1>3. LoginKnown /\ Checked /\ Issued
  BY DEF Init, LoginKnown, Checked, Issued
<1>. QED BY <1>1, <1>2, <1>3 DEF IInv

\* A verifier stays known while the credential stays, and when it changes.
LEMMA KnownStays ==
    ASSUME auth \in Credential, NEW c, Known(c),
           auth' = auth \/ (auth' \in Credential /\ auth'.epoch = auth.epoch + 1)
    PROVE  Known(c)'
BY SizeAssumption DEF Known, Credential

\* What a step may append to a tunnel, or take from it.
LEMMA SendKnown ==
    ASSUME wire \in [Tunnel -> Seq(Frame)], NEW s, NEW f \in Frame, Send(s, f),
           NEW t \in Tunnel, NEW c, \E n \in DOMAIN wire'[t] : wire'[t][n] = c
    PROVE  c = f \/ \E n \in DOMAIN wire[t] : wire[t][n] = c
<1>1. CASE wire' = wire
  BY <1>1
<1>2. CASE s \in Tunnel /\ wire' = [wire EXCEPT ![s] = Append(@, f)]
  <2>1. PICK n \in DOMAIN wire'[t] : wire'[t][n] = c
    OBVIOUS
  <2>2. CASE t # s
    BY <1>2, <2>2
  <2>3. CASE t = s
    <3>1. wire'[t] = Append(wire[t], f) /\ wire[t] \in Seq(Frame)
      BY <1>2, <2>3
    <3>2. n \in 1..(Len(wire[t]) + 1) /\ DOMAIN wire[t] = 1..Len(wire[t])
      BY <2>1, <3>1
    <3>3. CASE n = Len(wire[t]) + 1
      BY <2>1, <3>1, <3>3
    <3>4. CASE n \in 1..Len(wire[t])
      BY <2>1, <3>1, <3>2, <3>4
    <3>. QED BY <3>1, <3>2, <3>3, <3>4
  <2>. QED BY <2>2, <2>3
<1>3. CASE s \notin Tunnel /\ wire' = [wire EXCEPT ![s] = Append(@, f)]
  <2>1. wire' = wire
    BY <1>3
  <2>. QED BY <2>1
<1>. QED BY <1>1, <1>2, <1>3 DEF Send

LEMMA TailKnown ==
    ASSUME wire \in [Tunnel -> Seq(Frame)], NEW s \in Tunnel, wire[s] # <<>>,
           NEW w, w = [wire EXCEPT ![s] = Tail(@)],
           NEW t \in Tunnel, NEW c, \E n \in DOMAIN w[t] : w[t][n] = c
    PROVE  \E n \in DOMAIN wire[t] : wire[t][n] = c
<1>1. CASE t # s
  BY <1>1
<1>2. CASE t = s
  <2>1. wire[t] \in Seq(Frame) /\ w[t] = Tail(wire[t])
    BY <1>2
  <2>2. PICK n \in DOMAIN w[t] : w[t][n] = c
    OBVIOUS
  <2>3. n \in 1..(Len(wire[t]) - 1) /\ wire[t][n + 1] = c /\ Len(wire[t]) \in Nat
    BY <1>2, <2>1, <2>2
  <2>. QED BY <2>1, <2>3
<1>. QED BY <1>1, <1>2

LEMMA NextTypes ==
    ASSUME IInv, [Next]_vars
    PROVE  TypeOK'
<1>0. TypeOK
  BY DEF IInv
<1>1. CASE UNCHANGED vars
  BY <1>0, <1>1 DEF vars, pcVars, hubVars, TypeOK
<1>2. ASSUME NEW l \in Login, Issue(l) PROVE TypeOK'
  <2>1. login[l].cred \in Credential
    BY <1>2 DEF Issue, IInv, LoginKnown, Known
  <2>. QED BY <1>0, <1>2, <2>1, IssueTypes
<1>3. CASE Restart
  <2>1. NoJob \in PcHandler
    BY DEF NoJob, PcHandler
  <2>. QED BY <1>0, <1>3, <2>1 DEF Restart, TypeOK, hubVars
<1>4. ASSUME NEW l \in Login, PcLogin(l) \/ PcVerified(l) \/ PcSessionEnds(l) PROVE TypeOK'
  BY <1>0, <1>4, PcTypes
<1>5. ASSUME NEW who \in {"server", "tray"}, Store(who) PROVE TypeOK'
  <2>1. auth' \in Credential
    BY <1>0, <1>5, SizeAssumption DEF Store, TypeOK, Credential
  <2>. QED BY <1>0, <1>5, <2>1 DEF Store, TypeOK, hubVars
<1>6. ASSUME NEW who \in {"server", "tray"}, CredentialsChanged(who) PROVE TypeOK'
  BY <1>0, <1>6 DEF CredentialsChanged, TypeOK, hubVars
<1>7. ASSUME LinkUp \/ LinkDown \/ PushCredential PROVE TypeOK'
  BY <1>0, <1>7, LinkTypes
<1>8. HubRestart => TypeOK'
  BY <1>0, TunnelTypes
<1>9. ASSUME NEW s \in Tunnel, HubHearsCredential(s) \/ HubHearsAnswer(s) \/ HubDrops(s) PROVE TypeOK'
  BY <1>0, <1>9, TunnelTypes
<1>10. ASSUME NEW l \in Login, Submit(l) \/ HubVerified(l) \/ LoginGivenUp(l) \/ Refused(l) PROVE TypeOK'
  BY <1>0, <1>10, HubTypes
<1>11. ASSUME NEW s \in links, LinkSessionExpires(s) PROVE TypeOK'
  <2>1. s \in Session /\ s.login \in Login
    BY <1>0 DEF TypeOK, Session
  <2>. QED BY <1>0, <1>11, <2>1, HubTypes
<1>. QED BY <1>1, <1>2, <1>3, <1>4, <1>5, <1>6, <1>7, <1>8, <1>9, <1>10, <1>11 DEF Next

\* The credential stays, or its epoch goes up by one.
LEMMA AuthSteps ==
    ASSUME TypeOK, [Next]_vars
    PROVE  auth' = auth \/ (auth' \in Credential /\ auth'.epoch = auth.epoch + 1)
<1>1. ASSUME NEW who \in {"server", "tray"}, Store(who)
      PROVE  auth' \in Credential /\ auth'.epoch = auth.epoch + 1
  BY <1>1, SizeAssumption DEF Store, TypeOK, Credential
<1>2. ASSUME NEW who \in {"server", "tray"}, CredentialsChanged(who)
      PROVE  auth' = auth
  BY <1>2 DEF CredentialsChanged
<1>3. ASSUME Restart \/ HubRestart \/ LinkUp \/ LinkDown \/ PushCredential
      PROVE  auth' = auth
  BY <1>3 DEF Restart, HubRestart, LinkUp, LinkDown, PushCredential, pcVars
<1>4. ASSUME NEW s \in Tunnel, HubHearsCredential(s) \/ HubHearsAnswer(s) \/ HubDrops(s)
      PROVE  auth' = auth
  BY <1>4 DEF HubHearsCredential, HubHearsAnswer, HubDrops, pcVars
<1>5. ASSUME NEW l \in Login, PcLogin(l) \/ PcVerified(l) \/ PcSessionEnds(l)
      PROVE  auth' = auth
  BY <1>5 DEF PcLogin, PcVerified, PcSessionEnds
<1>6. ASSUME NEW l \in Login, Submit(l) \/ HubVerified(l) \/ LoginGivenUp(l) \/ Issue(l) \/ Refused(l)
      PROVE  auth' = auth
  BY <1>6 DEF Submit, HubVerified, LoginGivenUp, Issue, Refused, pcVars
<1>7. ASSUME NEW s \in links, LinkSessionExpires(s)
      PROVE  auth' = auth
  BY <1>7 DEF LinkSessionExpires, pcVars
<1>8. CASE UNCHANGED vars
  BY <1>8 DEF vars, pcVars
<1>. QED BY <1>1, <1>2, <1>3, <1>4, <1>5, <1>6, <1>7, <1>8 DEF Next

\* A frame in a tunnel was there before, or is the credential of now, or no
\* verifier at all.
LEMMA WireSteps ==
    ASSUME TypeOK, [Next]_vars, NEW t \in Tunnel, NEW c \in Credential,
           \E n \in DOMAIN wire'[t] : wire'[t][n] = c
    PROVE  (c = auth /\ auth' = auth) \/ \E n \in DOMAIN wire[t] : wire[t][n] = c
<1>0. wire \in [Tunnel -> Seq(Frame)] /\ auth \in Frame
  BY DEF TypeOK, Frame
<1>1. ASSUME UNCHANGED wire PROVE \E n \in DOMAIN wire[t] : wire[t][n] = c
  BY <1>1
<1>2. ASSUME NEW l \in Login, NEW b \in BOOLEAN, NEW s, Send(s, [login |-> l, ok |-> b])
      PROVE  \E n \in DOMAIN wire[t] : wire[t][n] = c
  <2>1. [login |-> l, ok |-> b] \in Answer /\ [login |-> l, ok |-> b] \in Frame
    BY DEF Answer, Frame
  <2>2. c # [login |-> l, ok |-> b]
    BY <2>1, FrameKinds
  <2>. QED BY <1>0, <1>2, <2>1, <2>2, SendKnown
<1>3. ASSUME NEW l \in Login, PcLogin(l)
      PROVE  \E n \in DOMAIN wire[t] : wire[t][n] = c
  BY <1>1, <1>2, <1>3 DEF PcLogin
<1>4. ASSUME NEW l \in Login, PcVerified(l)
      PROVE  \E n \in DOMAIN wire[t] : wire[t][n] = c
  <2>1. (job[l].hash = login[l].pw) \in BOOLEAN
    OBVIOUS
  <2>. QED BY <1>2, <1>4, <2>1 DEF PcVerified
<1>5. CASE PushCredential
  BY <1>0, <1>5, SendKnown DEF PushCredential
<1>6. CASE LinkUp
  <2>1. wire' = [wire EXCEPT ![used + 1] = <<auth>>] /\ auth' = auth
    BY <1>6 DEF LinkUp
  <2>2. CASE t = used + 1
    <3>1. wire'[t] = <<auth>>
      BY <1>0, <2>1, <2>2
    <3>. QED BY <2>1, <3>1
  <2>3. CASE t # used + 1
    <3>1. wire'[t] = wire[t]
      BY <1>0, <2>1, <2>3
    <3>. QED BY <3>1
  <2>. QED BY <2>2, <2>3
<1>7. ASSUME NEW s \in Tunnel, HubHearsCredential(s) \/ HubHearsAnswer(s)
      PROVE  \E n \in DOMAIN wire[t] : wire[t][n] = c
  <2>1. wire[s] # <<>> /\ wire' = [wire EXCEPT ![s] = Tail(@)]
    BY <1>7 DEF HubHearsCredential, HubHearsAnswer
  <2>. QED BY <1>0, <2>1, TailKnown
<1>8. ASSUME NEW s \in Tunnel, HubDrops(s)
      PROVE  \E n \in DOMAIN wire[t] : wire[t][n] = c
  <2>1. wire' = [wire EXCEPT ![s] = <<>>]
    BY <1>8 DEF HubDrops
  <2>2. t # s /\ wire'[t] = wire[t]
    BY <1>0, <2>1
  <2>. QED BY <2>2
<1>9. ~HubRestart
  BY DEF HubRestart
<1>10. ASSUME \/ UNCHANGED vars
              \/ \E who \in {"server", "tray"} : Store(who) \/ CredentialsChanged(who)
              \/ Restart \/ LinkDown
              \/ \E l \in Login : \/ PcSessionEnds(l)
                                  \/ Submit(l) \/ HubVerified(l) \/ LoginGivenUp(l) \/ Issue(l) \/ Refused(l)
              \/ \E s \in links : LinkSessionExpires(s)
      PROVE  UNCHANGED wire
  BY <1>10 DEF vars, Store, CredentialsChanged, Restart, LinkDown, PcSessionEnds, Submit, HubVerified,
     LoginGivenUp, Issue, Refused, LinkSessionExpires
<1>. QED BY <1>1, <1>3, <1>4, <1>5, <1>6, <1>7, <1>8, <1>9, <1>10 DEF Next

\* A tunnel's verifier stays, goes, or is a frame it brought.
LEMMA CredSteps ==
    ASSUME TypeOK, [Next]_vars, NEW s \in Tunnel, cred'[s] # None
    PROVE  \/ cred[s] # None /\ cred'[s] = cred[s]
           \/ cred'[s] \in Credential /\ \E n \in DOMAIN wire[s] : wire[s][n] = cred'[s]
<1>1. ASSUME NEW t \in Tunnel, HubHearsCredential(t)
      PROVE  \/ cred[s] # None /\ cred'[s] = cred[s]
             \/ cred'[s] \in Credential /\ \E n \in DOMAIN wire[s] : wire[s][n] = cred'[s]
  <2>1. cred' = [cred EXCEPT ![t] = Head(wire[t])] /\ wire[t] # <<>> /\ IsCredential(Head(wire[t]))
    BY <1>1 DEF HubHearsCredential
  <2>2. wire[t] \in Seq(Frame)
    BY DEF TypeOK
  <2>3. Head(wire[t]) \in Credential
    BY <2>1, <2>2, FrameKinds DEF Frame
  <2>4. 1 \in DOMAIN wire[t] /\ wire[t][1] = Head(wire[t])
    BY <2>1, <2>2
  <2>. QED BY <2>1, <2>3, <2>4 DEF TypeOK
<1>2. ~HubRestart
  BY DEF HubRestart
<1>3. ASSUME UNCHANGED cred PROVE cred[s] # None /\ cred'[s] = cred[s]
  BY <1>3
<1>4. ASSUME NEW who \in {"server", "tray"}, Store(who) \/ CredentialsChanged(who)
      PROVE  UNCHANGED cred
  BY <1>4 DEF Store, CredentialsChanged, hubVars
<1>5. ASSUME Restart \/ LinkUp \/ LinkDown \/ PushCredential
      PROVE  UNCHANGED cred
  BY <1>5 DEF Restart, LinkUp, LinkDown, PushCredential, hubVars
<1>6. ASSUME NEW t \in Tunnel, HubHearsAnswer(t) \/ HubDrops(t)
      PROVE  UNCHANGED cred
  BY <1>6 DEF HubHearsAnswer, HubDrops
<1>7. ASSUME NEW l \in Login,
             \/ PcLogin(l) \/ PcVerified(l) \/ PcSessionEnds(l)
             \/ Submit(l) \/ HubVerified(l) \/ LoginGivenUp(l) \/ Issue(l) \/ Refused(l)
      PROVE  UNCHANGED cred
  BY <1>7 DEF PcLogin, PcVerified, PcSessionEnds, Submit, HubVerified, LoginGivenUp, Issue, Refused, hubVars
<1>8. ASSUME NEW x \in links, LinkSessionExpires(x)
      PROVE  UNCHANGED cred
  BY <1>8 DEF LinkSessionExpires
<1>9. CASE UNCHANGED vars
  BY <1>9 DEF vars, hubVars
<1>. QED BY <1>1, <1>2, <1>3, <1>4, <1>5, <1>6, <1>7, <1>8, <1>9 DEF Next

\* What a step makes of a login: nothing, a copy of the tunnel's verifier, or
\* the next state of one that keeps its copy.
Copies(k) ==
    /\ login[k].st = "idle" /\ login'[k].st = "verify"
    /\ tunnel \in Tunnel /\ cred[tunnel] # None /\ login'[k].cred = cred[tunnel]
Proceeds(k) ==
    /\ login[k].st \notin {"idle", "in"} /\ login'[k].pw = login[k].pw /\ login'[k].cred = login[k].cred
    /\ \/ login'[k].st = "out"
       \/ login'[k].st = "forward" /\ login[k].pw = login[k].cred.pw
       \/ login[k].st = "forward" /\ login'[k].st = "answered"
       \/ login[k].st = "answered" /\ login'[k].st = "in"

LEMMA LoginSteps ==
    ASSUME TypeOK, [Next]_vars, NEW k \in Login
    PROVE  login'[k] = login[k] \/ Copies(k) \/ Proceeds(k)
<1>0. login \in [Login -> HubHandler]
  BY DEF TypeOK
<1>1. ASSUME NEW l \in Login, Submit(l)
      PROVE  login'[k] = login[k] \/ Copies(k)
  <2>1. tunnel \in Tunnel
    BY <1>1 DEF Submit, TypeOK
  <2>2. login' = [login EXCEPT ![l] = [@ EXCEPT !.st = "verify", !.cred = cred[tunnel], !.over = tunnel]]
    BY <1>1 DEF Submit
  <2>. QED BY <1>0, <1>1, <2>1, <2>2 DEF Submit, Copies, HubHandler
<1>2. ASSUME NEW l \in Login, HubVerified(l)
      PROVE  login'[k] = login[k] \/ Proceeds(k)
  <2>1. login[l].st = "verify"
    BY <1>2 DEF HubVerified
  <2>2. \/ login[l].pw = login[l].cred.pw /\ login' = [login EXCEPT ![l] = [@ EXCEPT !.st = "forward"]]
        \/ login' = [login EXCEPT ![l] = Over(@, "out")]
    BY <1>2 DEF HubVerified
  <2>. QED BY <1>0, <2>1, <2>2, OverType DEF Proceeds, HubHandler
<1>3. ASSUME NEW l \in Login, LoginGivenUp(l) \/ Refused(l)
      PROVE  login'[k] = login[k] \/ Proceeds(k)
  <2>1. login[l].st \notin {"idle", "in"} /\ login' = [login EXCEPT ![l] = Over(@, "out")]
    BY <1>3 DEF LoginGivenUp, Refused
  <2>. QED BY <1>0, <2>1, OverType DEF Proceeds
<1>4. ASSUME NEW l \in Login, Issue(l)
      PROVE  login'[k] = login[k] \/ Proceeds(k)
  <2>1. login[l].st = "answered" /\ login' = [login EXCEPT ![l] = Over(@, "in")]
    BY <1>4 DEF Issue
  <2>. QED BY <1>0, <2>1, OverType DEF Proceeds
<1>5. ASSUME NEW s \in Tunnel, HubHearsAnswer(s)
      PROVE  login'[k] = login[k] \/ Proceeds(k)
  <2> DEFINE a == Head(wire[s])
  <2>1. CASE login' = login
    BY <2>1
  <2>2. CASE /\ login[a.login].st = "forward"
             /\ login' = [login EXCEPT ![a.login] = [@ EXCEPT !.st = "answered", !.ok = a.ok]]
    <3> HIDE DEF a
    <3>. QED BY <1>0, <2>2 DEF Proceeds, HubHandler
  <2>. QED BY <1>5, <2>1, <2>2 DEF HubHearsAnswer
<1>6. ASSUME NEW s \in Tunnel, HubDrops(s)
      PROVE  login'[k] = login[k] \/ Proceeds(k)
  <2>1. \/ login'[k] = login[k]
        \/ login[k].st = "forward" /\ login'[k] = Over(login[k], "out")
    BY <1>6 DEF HubDrops
  <2>. QED BY <1>0, <2>1, OverType DEF Proceeds
<1>7. CASE HubRestart
  <2>1. \/ login'[k] = login[k]
        \/ login[k].st \in {"verify", "forward", "answered"} /\ login'[k] = Over(login[k], "out")
    BY <1>7 DEF HubRestart
  <2>. QED BY <1>0, <2>1, OverType DEF Proceeds
<1>8. ASSUME NEW who \in {"server", "tray"}, Store(who) \/ CredentialsChanged(who)
      PROVE  UNCHANGED login
  BY <1>8 DEF Store, CredentialsChanged, hubVars
<1>9. ASSUME Restart \/ LinkUp \/ LinkDown \/ PushCredential
      PROVE  UNCHANGED login
  BY <1>9 DEF Restart, LinkUp, LinkDown, PushCredential, hubVars
<1>10. ASSUME NEW s \in Tunnel, HubHearsCredential(s)
      PROVE  UNCHANGED login
  BY <1>10 DEF HubHearsCredential
<1>11. ASSUME NEW l \in Login, PcLogin(l) \/ PcVerified(l) \/ PcSessionEnds(l)
      PROVE  UNCHANGED login
  BY <1>11 DEF PcLogin, PcVerified, PcSessionEnds, hubVars
<1>12. ASSUME NEW x \in links, LinkSessionExpires(x)
      PROVE  UNCHANGED login
  BY <1>12 DEF LinkSessionExpires
<1>13. CASE UNCHANGED vars
  BY <1>13 DEF vars, hubVars
<1>. QED BY <1>1, <1>2, <1>3, <1>4, <1>5, <1>6, <1>7, <1>8, <1>9, <1>10, <1>11, <1>12, <1>13 DEF Next

\* A session in the table was there before, or is the one a login is given.
LEMMA LinkSteps ==
    ASSUME TypeOK, [Next]_vars, NEW s \in links'
    PROVE  \/ s \in links
           \/ \E l \in Login : /\ login[l].st = "answered" /\ login'[l].st = "in"
                               /\ login'[l].cred = login[l].cred
                               /\ s = [login |-> l, epoch |-> login[l].cred.epoch]
<1>1. ASSUME NEW l \in Login, Issue(l)
      PROVE  \/ s \in links
             \/ /\ login[l].st = "answered" /\ login'[l].st = "in" /\ login'[l].cred = login[l].cred
                /\ s = [login |-> l, epoch |-> login[l].cred.epoch]
  <2>1. s \in links \/ s = [login |-> l, epoch |-> login[l].cred.epoch]
    BY <1>1 DEF Issue
  <2>2. login[l].st = "answered" /\ login' = [login EXCEPT ![l] = Over(@, "in")]
    BY <1>1 DEF Issue
  <2>3. login'[l].st = "in" /\ login'[l].cred = login[l].cred
    BY <2>2, OverType DEF TypeOK
  <2>. QED BY <2>1, <2>2, <2>3
<1>2. ASSUME NEW t \in Tunnel, HubHearsCredential(t) PROVE s \in links
  BY <1>2 DEF HubHearsCredential
<1>3. ASSUME NEW x \in links, LinkSessionExpires(x) PROVE s \in links
  BY <1>3 DEF LinkSessionExpires
<1>4. ~HubRestart
  BY DEF HubRestart
<1>5. ASSUME NEW who \in {"server", "tray"}, Store(who) \/ CredentialsChanged(who)
      PROVE  UNCHANGED links
  BY <1>5 DEF Store, CredentialsChanged, hubVars
<1>6. ASSUME Restart \/ LinkUp \/ LinkDown \/ PushCredential
      PROVE  UNCHANGED links
  BY <1>6 DEF Restart, LinkUp, LinkDown, PushCredential, hubVars
<1>7. ASSUME NEW t \in Tunnel, HubHearsAnswer(t) \/ HubDrops(t)
      PROVE  UNCHANGED links
  BY <1>7 DEF HubHearsAnswer, HubDrops
<1>8. ASSUME NEW l \in Login,
             \/ PcLogin(l) \/ PcVerified(l) \/ PcSessionEnds(l)
             \/ Submit(l) \/ HubVerified(l) \/ LoginGivenUp(l) \/ Refused(l)
      PROVE  UNCHANGED links
  BY <1>8 DEF PcLogin, PcVerified, PcSessionEnds, Submit, HubVerified, LoginGivenUp, Refused, hubVars
<1>9. CASE UNCHANGED vars
  BY <1>9 DEF vars, hubVars
<1>. QED BY <1>1, <1>2, <1>3, <1>4, <1>5, <1>6, <1>7, <1>8, <1>9 DEF Next

LEMMA NextIInv == IInv /\ [Next]_vars => IInv'
<1> SUFFICES ASSUME IInv, [Next]_vars PROVE IInv'
  OBVIOUS
<1>0. TypeOK /\ TypeOK'
  BY NextTypes DEF IInv
<1>1. ASSUME NEW c, Known(c) PROVE Known(c)'
  BY <1>0, <1>1, AuthSteps, KnownStays DEF TypeOK
<1>2. WireKnown'
  <2> SUFFICES ASSUME NEW s \in Tunnel, NEW c \in Credential, \E n \in DOMAIN wire'[s] : wire'[s][n] = c
               PROVE  Known(c)'
    BY DEF WireKnown
  <2>1. CASE c = auth /\ auth' = auth
    BY <2>1, SizeAssumption DEF Known, Credential
  <2>2. CASE \E n \in DOMAIN wire[s] : wire[s][n] = c
    <3>1. Known(c)
      BY <2>2 DEF IInv, WireKnown
    <3>. QED BY <1>1, <3>1
  <2>. QED BY <1>0, <2>1, <2>2, WireSteps
<1>3. CredKnown'
  <2> SUFFICES ASSUME NEW s \in Tunnel, cred'[s] # None PROVE Known(cred[s])'
    BY DEF CredKnown
  <2>1. Known(cred'[s])
    BY <1>0, CredSteps DEF IInv, CredKnown, WireKnown
  <2>. QED BY <1>1, <2>1
<1>4. LoginKnown' /\ Checked'
  <2>1. ASSUME NEW k \in Login, login'[k].st # "idle" PROVE Known(login'[k].cred)
    BY <1>0, <2>1, LoginSteps DEF IInv, LoginKnown, CredKnown, Copies, Proceeds
  <2>2. LoginKnown'
    BY <1>1, <2>1 DEF LoginKnown
  <2>3. Checked'
    BY <1>0, LoginSteps DEF IInv, Checked, Copies, Proceeds
  <2>. QED BY <2>2, <2>3
<1>5. Issued'
  <2> SUFFICES ASSUME NEW s \in links'
               PROVE  login'[s.login].st = "in" /\ s.epoch = login'[s.login].cred.epoch
    BY DEF Issued
  <2>1. CASE s \in links
    <3>1. s.login \in Login /\ login[s.login].st = "in" /\ s.epoch = login[s.login].cred.epoch
      BY <1>0, <2>1 DEF IInv, Issued, TypeOK, Session
    <3>2. login'[s.login] = login[s.login]
      BY <1>0, <3>1, LoginSteps DEF Copies, Proceeds
    <3>. QED BY <3>1, <3>2
  <2>2. ASSUME NEW l \in Login, login'[l].st = "in", login'[l].cred = login[l].cred,
               s = [login |-> l, epoch |-> login[l].cred.epoch]
        PROVE  login'[s.login].st = "in" /\ s.epoch = login'[s.login].cred.epoch
    BY <2>2
  <2>. QED BY <1>0, <2>1, <2>2, LinkSteps
<1>. QED BY <1>0, <1>2, <1>3, <1>4, <1>5 DEF IInv

-----------------------------------------------------------------------------
(* The theorems *)

\* Every reachable state satisfies the strengthened invariant.
THEOREM LoginIInv == Spec => []IInv
<1>. QED BY InitIInv, NextIInv, PTL DEF Spec

\* Types of both halves; the link's table keeps its cap whatever is issued.
THEOREM TypeCorrect == Spec => []TypeOK
<1>1. IInv => TypeOK
  BY DEF IInv
<1>. QED BY <1>1, LoginIInv, PTL

\* Once the Hub holds the PC's current verifier, its gate admits nobody who
\* typed another password, however late that login was answered and issued.
THEOREM OnlyTheCurrentPassword == Spec => []CurrentPasswordOnly
<1>1. IInv => CurrentPasswordOnly
  <2> SUFFICES ASSUME IInv, NEW l \in Login, Admits(l), Holds(auth.epoch)
               PROVE  login[l].pw = auth.pw
    BY DEF CurrentPasswordOnly
  <2>1. PICK s \in links : s.login = l /\ s.epoch = auth.epoch
    BY DEF Admits, Holds
  <2>2. login[l].st = "in" /\ login[l].cred.epoch = auth.epoch
    BY <2>1 DEF IInv, Issued
  <2>. QED BY <2>2 DEF IInv, LoginKnown, Checked, Known
<1>. QED BY <1>1, LoginIInv, PTL

-----------------------------------------------------------------------------
(* The gate's epoch *)

\* The verifiers in a queue are in the order of their epochs, none below e.
Sorted(q) ==
    \A m, n \in DOMAIN q : m < n /\ q[m] \in Credential /\ q[n] \in Credential => q[m].epoch <= q[n].epoch
Above(q, e) == \A n \in DOMAIN q : q[n] \in Credential => e <= q[n].epoch

LEMMA SortedAppend ==
    ASSUME NEW q \in Seq(Frame), NEW f \in Frame, Sorted(q),
           \A n \in DOMAIN q : f \in Credential /\ q[n] \in Credential => q[n].epoch <= f.epoch
    PROVE  Sorted(Append(q, f))
<1> SUFFICES ASSUME NEW m \in DOMAIN Append(q, f), NEW n \in DOMAIN Append(q, f), m < n,
                    Append(q, f)[m] \in Credential, Append(q, f)[n] \in Credential
             PROVE  Append(q, f)[m].epoch <= Append(q, f)[n].epoch
  BY DEF Sorted
<1>1. m \in 1..Len(q) /\ n \in 1..(Len(q) + 1) /\ DOMAIN q = 1..Len(q) /\ Len(q) \in Nat
  OBVIOUS
<1>2. Append(q, f)[m] = q[m]
  BY <1>1
<1>3. CASE n = Len(q) + 1
  BY <1>1, <1>2, <1>3
<1>4. CASE n \in 1..Len(q)
  BY <1>1, <1>2, <1>4 DEF Sorted
<1>. QED BY <1>1, <1>3, <1>4

LEMMA AboveAppend ==
    ASSUME NEW q \in Seq(Frame), NEW f \in Frame, NEW e, Above(q, e), f \in Credential => e <= f.epoch
    PROVE  Above(Append(q, f), e)
<1> SUFFICES ASSUME NEW n \in DOMAIN Append(q, f), Append(q, f)[n] \in Credential
             PROVE  e <= Append(q, f)[n].epoch
  BY DEF Above
<1>1. n \in 1..(Len(q) + 1) /\ DOMAIN q = 1..Len(q) /\ Len(q) \in Nat
  OBVIOUS
<1>2. CASE n = Len(q) + 1
  BY <1>1, <1>2
<1>3. CASE n \in 1..Len(q)
  BY <1>1, <1>3 DEF Above
<1>. QED BY <1>1, <1>2, <1>3

LEMMA TailOrder ==
    ASSUME NEW q \in Seq(Frame), q # <<>>
    PROVE  /\ Sorted(q) => Sorted(Tail(q))
           /\ Sorted(q) /\ Head(q) \in Credential => Above(Tail(q), Head(q).epoch)
           /\ \A e : Above(q, e) => Above(Tail(q), e) /\ (Head(q) \in Credential => e <= Head(q).epoch)
<1>1. /\ Len(q) \in Nat \ {0} /\ DOMAIN q = 1..Len(q) /\ DOMAIN Tail(q) = 1..(Len(q) - 1)
      /\ Head(q) = q[1] /\ \A n \in DOMAIN Tail(q) : Tail(q)[n] = q[n + 1] /\ n + 1 \in DOMAIN q
  OBVIOUS
<1>2. 1 \in DOMAIN q /\ \A n \in DOMAIN Tail(q) : n \in Nat /\ 1 < n + 1
  BY <1>1
<1>3. ASSUME Sorted(q) PROVE Sorted(Tail(q))
  BY <1>1, <1>2, <1>3 DEF Sorted
<1>4. ASSUME Sorted(q), Head(q) \in Credential PROVE Above(Tail(q), Head(q).epoch)
  BY <1>1, <1>2, <1>4 DEF Sorted, Above
<1>5. ASSUME NEW e, Above(q, e) PROVE Above(Tail(q), e) /\ (Head(q) \in Credential => e <= Head(q).epoch)
  BY <1>1, <1>2, <1>5 DEF Above
<1>. QED BY <1>3, <1>4, <1>5

\* What a step makes of a tunnel's queue.
Grows(t, f) == wire'[t] = Append(wire[t], f)
WireStep(t) ==
    \/ wire'[t] = wire[t] \/ wire'[t] = <<>>
    \/ Grows(t, auth) /\ auth' = auth
    \/ \E f \in Answer : Grows(t, f)
    \/ LinkUp /\ t = used + 1 /\ wire'[t] = <<auth>>
    \/ wire[t] # <<>> /\ wire'[t] = Tail(wire[t])

LEMMA WireShapes ==
    ASSUME TypeOK, [Next]_vars, NEW t \in Tunnel
    PROVE  WireStep(t)
<1>0. wire \in [Tunnel -> Seq(Frame)]
  BY DEF TypeOK
<1>1. ASSUME UNCHANGED wire PROVE WireStep(t)
  BY <1>1 DEF WireStep
<1>2. ASSUME NEW s, NEW f, Send(s, f) PROVE wire'[t] = wire[t] \/ Grows(t, f)
  BY <1>0, <1>2 DEF Send, Grows
<1>3. ASSUME NEW l \in Login, PcLogin(l) \/ PcVerified(l)
      PROVE  WireStep(t)
  <2>1. [login |-> l, ok |-> FALSE] \in Answer /\ [login |-> l, ok |-> job[l].hash = login[l].pw] \in Answer
    BY DEF Answer
  <2>2. \/ UNCHANGED wire
        \/ Send(job[l].over, [login |-> l, ok |-> FALSE])
        \/ Send(job[l].over, [login |-> l, ok |-> job[l].hash = login[l].pw])
    BY <1>3 DEF PcLogin, PcVerified
  <2>3. CASE Send(job[l].over, [login |-> l, ok |-> FALSE])
    BY <1>2, <2>1, <2>3 DEF WireStep
  <2>4. CASE Send(job[l].over, [login |-> l, ok |-> job[l].hash = login[l].pw])
    BY <1>2, <2>1, <2>4 DEF WireStep
  <2>. QED BY <1>1, <2>2, <2>3, <2>4
<1>5. CASE PushCredential
  BY <1>2, <1>5 DEF PushCredential, WireStep
<1>6. CASE LinkUp
  <2>1. wire' = [wire EXCEPT ![used + 1] = <<auth>>]
    BY <1>6 DEF LinkUp
  <2>. QED BY <1>0, <1>6, <2>1 DEF WireStep
<1>7. ASSUME NEW s \in Tunnel, HubHearsCredential(s) \/ HubHearsAnswer(s)
      PROVE  WireStep(t)
  <2>1. wire[s] # <<>> /\ wire' = [wire EXCEPT ![s] = Tail(@)]
    BY <1>7 DEF HubHearsCredential, HubHearsAnswer
  <2>. QED BY <1>0, <2>1 DEF WireStep
<1>8. ASSUME NEW s \in Tunnel, HubDrops(s)
      PROVE  WireStep(t)
  <2>1. wire' = [wire EXCEPT ![s] = <<>>]
    BY <1>8 DEF HubDrops
  <2>. QED BY <1>0, <2>1 DEF WireStep
<1>9. CASE HubRestart
  BY <1>9 DEF HubRestart, WireStep
<1>10. ASSUME \/ UNCHANGED vars
              \/ \E who \in {"server", "tray"} : Store(who) \/ CredentialsChanged(who)
              \/ Restart \/ LinkDown
              \/ \E l \in Login : \/ PcSessionEnds(l)
                                  \/ Submit(l) \/ HubVerified(l) \/ LoginGivenUp(l) \/ Issue(l) \/ Refused(l)
              \/ \E s \in links : LinkSessionExpires(s)
      PROVE  UNCHANGED wire
  BY <1>10 DEF vars, Store, CredentialsChanged, Restart, LinkDown, PcSessionEnds, Submit, HubVerified,
     LoginGivenUp, Issue, Refused, LinkSessionExpires
<1>. QED BY <1>1, <1>3, <1>5, <1>6, <1>7, <1>8, <1>9, <1>10 DEF Next

\* A tunnel is numbered once: one that is still to come has no verifier.
Numbered == tunnel <= used /\ open \subseteq 1..used /\ \A s \in Tunnel : s > used => cred[s] = None
WireSorted == \A t \in Tunnel : Sorted(wire[t])
\* The gate's epoch is one the PC has had, and nothing on its way to the gate is below it.
GateAhead == top <= auth.epoch /\ (tunnel # 0 => Above(wire[tunnel], top))

GInv == IInv /\ Numbered /\ WireSorted /\ GateAhead /\ GateNeverStepsBack

LEMMA InitGInv == Init => GInv
<1> SUFFICES ASSUME Init PROVE GInv
  OBVIOUS
<1>1. IInv
  BY InitIInv
<1>2. Numbered /\ GateNeverStepsBack
  BY DEF Init, Numbered, GateNeverStepsBack
<1>3. WireSorted
  BY DEF Init, WireSorted, Sorted
<1>4. GateAhead
  BY SizeAssumption DEF Init, GateAhead
<1>. QED BY <1>1, <1>2, <1>3, <1>4 DEF GInv

\* Whatever is appended is a verifier of now, or no verifier.
LEMMA QueueOrder ==
    ASSUME TypeOK, WireKnown, NEW t \in Tunnel, Sorted(wire[t]), WireStep(t)
    PROVE  Sorted(wire'[t])
<1>1. wire[t] \in Seq(Frame) /\ auth \in Credential /\ auth \in Frame
  BY DEF TypeOK, Frame
<1>2. \A n \in DOMAIN wire[t] : wire[t][n] \in Credential => wire[t][n].epoch <= auth.epoch
  BY DEF WireKnown, Known
<1>3. CASE Grows(t, auth)
  BY <1>1, <1>2, <1>3, SortedAppend DEF Grows
<1>4. ASSUME NEW f \in Answer, Grows(t, f) PROVE Sorted(wire'[t])
  <2>1. f \in Frame /\ f \notin Credential
    BY FrameKinds DEF Frame
  <2>. QED BY <1>1, <1>4, <2>1, SortedAppend DEF Grows
<1>5. CASE wire[t] # <<>> /\ wire'[t] = Tail(wire[t])
  BY <1>1, <1>5, TailOrder
<1>6. Sorted(<<>>) /\ Sorted(<<auth>>)
  BY DEF Sorted
<1>. QED BY <1>3, <1>4, <1>5, <1>6 DEF WireStep

\* A step that is neither a new tunnel nor a verifier's arrival.
LEMMA QuietGate ==
    ASSUME GInv, TypeOK', auth.epoch <= auth'.epoch,
           tunnel' \in {tunnel, 0}, used' = used, top' = top, open' \subseteq open,
           \A s \in Tunnel : cred'[s] \in {cred[s], None},
           \A t \in Tunnel : WireStep(t), ~LinkUp
    PROVE  Numbered' /\ GateAhead' /\ GateNeverStepsBack'
<1>0. /\ TypeOK /\ WireKnown /\ top \in Nat /\ auth.epoch \in Nat /\ auth'.epoch \in Nat
      /\ tunnel # 0 => tunnel \in Tunnel
  BY SizeAssumption DEF GInv, IInv, TypeOK, Credential
<1>1. Numbered'
  BY <1>0, SizeAssumption DEF GInv, Numbered, TypeOK, Tunnel
<1>2. GateNeverStepsBack'
  BY <1>0 DEF GInv, GateNeverStepsBack
<1>3. ASSUME tunnel' # 0 PROVE Above(wire'[tunnel], top)
  <2>1. tunnel \in Tunnel /\ Above(wire[tunnel], top) /\ top <= auth.epoch
    BY <1>0, <1>3 DEF GInv, GateAhead
  <2>2. wire[tunnel] \in Seq(Frame) /\ auth \in Frame
    BY <1>0, <2>1 DEF TypeOK, Frame
  <2>3. CASE Grows(tunnel, auth)
    BY <2>1, <2>2, <2>3, AboveAppend DEF Grows
  <2>4. ASSUME NEW f \in Answer, Grows(tunnel, f) PROVE Above(wire'[tunnel], top)
    <3>1. f \in Frame /\ f \notin Credential
      BY FrameKinds DEF Frame
    <3>. QED BY <2>1, <2>2, <2>4, <3>1, AboveAppend DEF Grows
  <2>5. CASE wire[tunnel] # <<>> /\ wire'[tunnel] = Tail(wire[tunnel])
    BY <2>1, <2>2, <2>5, TailOrder
  <2>6. Above(<<>>, top)
    BY DEF Above
  <2>. QED BY <2>1, <2>3, <2>4, <2>5, <2>6 DEF WireStep
<1>4. GateAhead'
  BY <1>0, <1>3 DEF GInv, GateAhead
<1>. QED BY <1>1, <1>2, <1>4

LEMMA NextGInv == GInv /\ [Next]_vars => GInv'
<1> SUFFICES ASSUME GInv, [Next]_vars PROVE GInv'
  OBVIOUS
<1>0. /\ IInv /\ IInv' /\ TypeOK /\ TypeOK' /\ WireKnown
      /\ \A t \in Tunnel : WireStep(t)
  BY NextIInv, WireShapes DEF GInv, IInv
<1>1. WireSorted'
  BY <1>0, QueueOrder DEF GInv, WireSorted
<1>2. /\ auth.epoch <= auth'.epoch
      /\ top \in Nat /\ used \in Nat /\ auth.epoch \in Nat
  <2>1. auth.epoch \in Nat /\ top \in Nat /\ used \in Nat
    BY <1>0, SizeAssumption DEF TypeOK, Credential, Tunnel
  <2>2. auth' = auth \/ auth'.epoch = auth.epoch + 1
    BY <1>0, AuthSteps
  <2>. QED BY <2>1, <2>2
<1>3. CASE LinkUp
  <2>1. /\ tunnel' = used + 1 /\ used' = used + 1 /\ open' = open \cup {used + 1}
        /\ auth' = auth /\ top' = top /\ cred' = cred
        /\ wire' = [wire EXCEPT ![used + 1] = <<auth>>] /\ used + 1 \in Tunnel
    BY <1>2, <1>3, SizeAssumption DEF LinkUp, Tunnel
  <2>2. cred[used + 1] = None
    BY <1>2, <2>1 DEF GInv, Numbered
  <2>3. Numbered'
    BY <1>2, <2>1 DEF GInv, Numbered, Tunnel
  <2>4. wire'[used + 1] = <<auth>>
    BY <1>0, <2>1 DEF TypeOK
  <2>5. Above(wire'[used + 1], top)
    BY <2>4 DEF Above, GInv, GateAhead
  <2>6. GateAhead'
    BY <2>1, <2>5 DEF GateAhead, GInv
  <2>. QED BY <1>0, <1>1, <2>1, <2>2, <2>3, <2>6 DEF GInv, GateNeverStepsBack
<1>4. ASSUME NEW s \in Tunnel, HubHearsCredential(s) PROVE GInv'
  <2> DEFINE next == Head(wire[s])
  <2>1. /\ wire[s] \in Seq(Frame) /\ wire[s] # <<>> /\ wire'[s] = Tail(wire[s]) /\ s \in open
        /\ \A t \in Tunnel : t # s => wire'[t] = wire[t] /\ cred'[t] = cred[t]
        /\ cred'[s] = next /\ auth' = auth /\ tunnel' = tunnel /\ used' = used /\ open' = open
        /\ top' = IF s = tunnel /\ next.epoch > top THEN next.epoch ELSE top
    BY <1>0, <1>4 DEF HubHearsCredential, TypeOK, pcVars
  <2>2. next \in Credential
    BY <1>4, <2>1, FrameKinds DEF HubHearsCredential, Frame
  <2>3. next.epoch \in Nat /\ next.epoch <= auth.epoch
    <3>1. 1 \in DOMAIN wire[s] /\ wire[s][1] = next
      BY <2>1
    <3>2. Known(next)
      BY <1>0, <2>2, <3>1 DEF WireKnown
    <3>. QED BY <2>2, <3>2 DEF Known, Credential
  <2>4. Numbered'
    <3>1. s <= used
      BY <2>1, <1>2 DEF GInv, Numbered
    <3>2. \A t \in Tunnel : t > used => t # s
      BY <1>2, <3>1, SizeAssumption DEF Tunnel
    <3>. QED BY <2>1, <3>2 DEF GInv, Numbered
  <2> HIDE DEF next
  <2>5. CASE s # tunnel
    <3>1. top' = top /\ (tunnel # 0 => tunnel \in Tunnel)
      BY <1>0, <2>1, <2>5 DEF TypeOK
    <3>2. GateAhead' /\ GateNeverStepsBack'
      BY <2>1, <2>5, <3>1 DEF GInv, GateAhead, GateNeverStepsBack
    <3>. QED BY <1>0, <1>1, <2>4, <3>2 DEF GInv
  <2>6. CASE s = tunnel
    <3>1. Sorted(wire[s]) /\ Above(wire[s], top)
      BY <2>6, SizeAssumption DEF GInv, WireSorted, GateAhead, Tunnel
    <3>2. top <= next.epoch /\ Above(wire'[s], next.epoch)
      BY <2>1, <2>2, <3>1, TailOrder DEF next
    <3>3. top' = next.epoch
      BY <1>2, <2>1, <2>3, <2>6, <3>2
    <3>4. GateAhead' /\ GateNeverStepsBack'
      BY <2>1, <2>3, <2>6, <3>2, <3>3 DEF GateAhead, GateNeverStepsBack
    <3>. QED BY <1>0, <1>1, <2>4, <3>4 DEF GInv
  <2>. QED BY <2>5, <2>6
<1>5. ASSUME ~LinkUp, \A s \in Tunnel : ~HubHearsCredential(s)
      PROVE  /\ tunnel' \in {tunnel, 0} /\ used' = used /\ top' = top /\ open' \subseteq open
             /\ \A s \in Tunnel : cred'[s] \in {cred[s], None}
  <2>1. CASE HubRestart
    BY <2>1 DEF HubRestart
  <2>2. ASSUME NEW s \in Tunnel, HubDrops(s)
        PROVE  tunnel' \in {tunnel, 0} /\ used' = used /\ top' = top /\ open' \subseteq open /\ cred' = cred
    BY <2>2 DEF HubDrops
  <2>3. ASSUME NEW who \in {"server", "tray"}, Store(who) \/ CredentialsChanged(who)
        PROVE  UNCHANGED <<tunnel, used, top, open, cred>>
    BY <2>3 DEF Store, CredentialsChanged, hubVars
  <2>4. ASSUME Restart \/ LinkDown \/ PushCredential
        PROVE  UNCHANGED <<tunnel, used, top, open, cred>>
    BY <2>4 DEF Restart, LinkDown, PushCredential, hubVars
  <2>5. ASSUME NEW s \in Tunnel, HubHearsAnswer(s)
        PROVE  UNCHANGED <<tunnel, used, top, open, cred>>
    BY <2>5 DEF HubHearsAnswer
  <2>6. ASSUME NEW l \in Login,
               \/ PcLogin(l) \/ PcVerified(l) \/ PcSessionEnds(l)
               \/ Submit(l) \/ HubVerified(l) \/ LoginGivenUp(l) \/ Issue(l) \/ Refused(l)
        PROVE  UNCHANGED <<tunnel, used, top, open, cred>>
    BY <2>6 DEF PcLogin, PcVerified, PcSessionEnds, Submit, HubVerified, LoginGivenUp, Issue, Refused, hubVars
  <2>7. ASSUME NEW x \in links, LinkSessionExpires(x)
        PROVE  UNCHANGED <<tunnel, used, top, open, cred>>
    BY <2>7 DEF LinkSessionExpires
  <2>8. CASE UNCHANGED vars
    BY <2>8 DEF vars, hubVars
  <2>. QED BY <1>5, <2>1, <2>2, <2>3, <2>4, <2>5, <2>6, <2>7, <2>8 DEF Next
<1>6. ASSUME ~LinkUp, \A s \in Tunnel : ~HubHearsCredential(s)
      PROVE  GInv'
  BY <1>0, <1>1, <1>2, <1>5, <1>6, QuietGate DEF GInv
<1>. QED BY <1>3, <1>4, <1>6

\* Over reconnects and restarts the gate never goes back to an older epoch: a
\* login that a change of the password ended stays ended.
THEOREM GateOnlyAdvances == Spec => []GateNeverStepsBack
<1>1. GInv => GateNeverStepsBack
  BY DEF GInv
<1>. QED BY <1>1, InitGInv, NextGInv, PTL DEF Spec

=============================================================================
