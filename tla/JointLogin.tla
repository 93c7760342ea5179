----------------------------- MODULE JointLogin -----------------------------
(***************************************************************************)
(* The joint login: one password entry that both the Hub (hub/src/login.rs *)
(* and the link sessions of hub/src/state.rs) and the PC's daemon          *)
(* (daemon/src/auth.rs, session.rs and http/api.rs) check, each for        *)
(* itself, and the credential frames that keep the Hub's verifier up with  *)
(* the PC's (daemon/src/hub/link.rs, hub/src/tunnel.rs).                   *)
(*                                                                         *)
(* The Hub runs on many threads, the daemon's server on one and its tray   *)
(* on another.  A member of Login is one attempt of one browser, and names *)
(* the cookies it is given; a hash stands for the password it was made of. *)
(***************************************************************************)
EXTENDS Naturals, FiniteSets, Sequences

CONSTANTS
    Login,      \* login attempts
    Password,   \* passwords typed and set
    None,
    Cap,        \* LINK_SESSIONS_CAP
    MaxTunnels, \* bound: tunnels the link goes through
    MaxEpoch    \* bound: changes of the credential

ASSUME LoginAssumption == IsFiniteSet(Login)
ASSUME NoneAssumption == None \notin [epoch : Nat, pw : Password]
ASSUME SizeAssumption == Cap \in Nat \ {0} /\ {MaxTunnels, MaxEpoch} \subseteq Nat

VARIABLES
    auth,       \* Auth.file, in memory and in auth.json: the hash and its epoch
    clearing,   \* who changed the credential and has yet to call credentials_changed
    pcSessions, \* Sessions.list, persisted: who holds a session of which epoch
    permit,     \* auth_changed holds a permit
    link,       \* the tunnel the link loop serves, 0 when it is down
    job,        \* the daemon's `login` handler for each attempt
    wire,       \* frames on their way to the Hub, per tunnel
    open,       \* the tunnels the Hub still reads
    tunnel,     \* Hub.tunnels: the link's registered tunnel, 0 for none
    used,       \* tunnels so far
    cred,       \* Tunnel.credential
    links,      \* the link's sessions; which was last seen when is left open
    login,      \* the Hub's `submit` handler for each attempt
    top         \* history: the latest epoch the gate has compared with

pcVars == <<auth, clearing, pcSessions, permit, link, job>>
hubVars == <<tunnel, used, cred, links, login, top>>
vars == <<pcVars, wire, open, hubVars>>

Tunnel == 1..MaxTunnels
Credential == [epoch : 0..MaxEpoch, pw : Password]
Session == [login : Login, epoch : 0..MaxEpoch]
Answer == [login : Login, ok : BOOLEAN]
Frame == Credential \cup Answer
PcHandler == [st : {"none", "request", "verifying"}, hash : Password \cup {None}, over : {0} \cup Tunnel]
HubHandler ==
    [st : {"idle", "verify", "forward", "answered", "in", "out"},
     pw : Password, cred : Credential \cup {None}, over : {0} \cup Tunnel, ok : BOOLEAN]

TypeOK ==
    /\ auth \in Credential
    /\ clearing \in SUBSET {"server", "tray"}
    /\ pcSessions \in SUBSET Session
    /\ permit \in BOOLEAN
    /\ link \in {0} \cup Tunnel /\ tunnel \in {0} \cup Tunnel /\ used \in {0} \cup Tunnel
    /\ job \in [Login -> PcHandler]
    /\ wire \in [Tunnel -> Seq(Frame)]
    /\ open \in SUBSET Tunnel
    /\ cred \in [Tunnel -> Credential \cup {None}]
    /\ links \in SUBSET Session /\ IsFiniteSet(links) /\ Cardinality(links) <= Cap
    /\ login \in [Login -> HubHandler]
    /\ top \in 0..MaxEpoch

NoJob == [st |-> "none", hash |-> None, over |-> 0]

\* The handler is over, with or without a cookie.
Over(handler, st) == [handler EXCEPT !.st = st, !.over = 0]

Init ==
    /\ auth \in [epoch : {0}, pw : Password]
    /\ clearing = {}
    /\ pcSessions = {}
    /\ permit = FALSE
    /\ link = 0
    /\ job = [l \in Login |-> NoJob]
    /\ wire = [s \in Tunnel |-> <<>>]
    /\ open = {}
    /\ tunnel = 0
    /\ used = 0
    /\ cred = [s \in Tunnel |-> None]
    /\ links = {}
    /\ \E typed \in [Login -> Password] :
         login = [l \in Login |-> [st |-> "idle", pw |-> typed[l], cred |-> None, over |-> 0, ok |-> FALSE]]
    /\ top = 0

-----------------------------------------------------------------------------
(* The PC: its password, its sessions *)

\* Auth::store: the hash (or, for a sign-out of every device, the same one)
\* under the next epoch, in the file and then in memory.  The server's thread
\* goes on to credentials_changed without an await, the tray's beside it.
Store(who) ==
    /\ auth.epoch < MaxEpoch /\ who \notin clearing
    /\ \E p \in IF who = "tray" THEN {auth.pw} ELSE Password :
         auth' = [epoch |-> auth.epoch + 1, pw |-> p]
    /\ clearing' = clearing \cup {who}
    /\ UNCHANGED <<pcSessions, permit, link, job, wire, open, hubVars>>

\* Mutant: the sessions end and nobody tells the Hub.
CredentialsChangedUntold(who) ==
    /\ who \in clearing
    /\ pcSessions' = {}
    /\ clearing' = clearing \ {who}
    /\ UNCHANGED <<auth, permit, link, job, wire, open, hubVars>>

\* Daemon::credentials_changed: the sessions end, the link loop is notified.
CredentialsChanged(who) ==
    /\ who \in clearing
    /\ pcSessions' = {}
    /\ permit' = TRUE
    /\ clearing' = clearing \ {who}
    /\ UNCHANGED <<auth, link, job, wire, open, hubVars>>

\* Nothing else runs on the server's thread between its store and its
\* credentials_changed.
ServerFree == "server" \notin clearing

\* The daemon dies and starts again: auth.json and sessions.json are read
\* back, everything else is lost.
Restart ==
    /\ clearing' = {}
    /\ permit' = FALSE
    /\ link' = 0
    /\ job' = [l \in Login |-> NoJob]
    /\ UNCHANGED <<auth, pcSessions, wire, open, hubVars>>

\* Frames of a link that is down, or whose tunnel the Hub no longer reads, are lost.
Send(s, frame) ==
    wire' = IF s # 0 /\ s = link /\ s \in open THEN [wire EXCEPT ![s] = Append(@, frame)] ELSE wire

\* The `login` handler: the limiter may turn the attempt away; else the hash
\* is copied and the check runs on another thread.
PcLogin(l) ==
    /\ ServerFree /\ job[l].st = "request"
    /\ \/ /\ job' = [job EXCEPT ![l] = [@ EXCEPT !.st = "verifying", !.hash = auth.pw]]
          /\ UNCHANGED wire
       \/ /\ job' = [job EXCEPT ![l] = NoJob]
          /\ Send(job[l].over, [login |-> l, ok |-> FALSE])
    /\ UNCHANGED <<auth, clearing, pcSessions, permit, link, open, hubVars>>

\* The check is over: the session takes the epoch of now, not of the hash.
PcVerified(l) ==
    /\ ServerFree /\ job[l].st = "verifying"
    /\ LET ok == job[l].hash = login[l].pw
       IN /\ pcSessions' = IF ok THEN pcSessions \cup {[login |-> l, epoch |-> auth.epoch]} ELSE pcSessions
          /\ Send(job[l].over, [login |-> l, ok |-> ok])
    /\ job' = [job EXCEPT ![l] = NoJob]
    /\ UNCHANGED <<auth, clearing, permit, link, open, hubVars>>

\* revoke (logout, a removed device), prune, and the expiry of a session.
PcSessionEnds(l) ==
    /\ ServerFree
    /\ \E s \in pcSessions : s.login = l /\ pcSessions' = pcSessions \ {s}
    /\ UNCHANGED <<auth, clearing, permit, link, job, wire, open, hubVars>>

-----------------------------------------------------------------------------
(* The link *)

\* The handshake is over on both sides: the Hub's table has a new tunnel, which
\* holds no verifier, and the PC's first frame on it is one.
LinkUp ==
    /\ ServerFree /\ link = 0 /\ used < MaxTunnels
    /\ link' = used + 1 /\ used' = used + 1 /\ tunnel' = used + 1
    /\ open' = open \cup {used + 1}
    /\ wire' = [wire EXCEPT ![used + 1] = <<auth>>]
    /\ UNCHANGED <<auth, clearing, pcSessions, permit, job, cred, links, login, top>>

\* The PC's end of the link goes; requests not yet picked up go with it.
LinkDown ==
    /\ link # 0
    /\ link' = 0
    /\ job' = [l \in Login |-> IF job[l].st = "request" /\ job[l].over = link
                                THEN NoJob ELSE job[l]]
    /\ UNCHANGED <<auth, clearing, pcSessions, permit, wire, open, hubVars>>

\* The link loop takes the permit and pushes the verifier of now.
PushCredential ==
    /\ ServerFree /\ link # 0 /\ permit
    /\ permit' = FALSE
    /\ Send(link, auth)
    /\ UNCHANGED <<auth, clearing, pcSessions, link, job, open, hubVars>>

IsCredential(frame) == "epoch" \in DOMAIN frame

\* Mutant: the link's current tunnel takes the frame, whichever it came on.
HubHearsOnCurrent(s) ==
    /\ s \in open /\ wire[s] # <<>> /\ IsCredential(Head(wire[s])) /\ tunnel # 0
    /\ LET old == cred[tunnel]
           next == Head(wire[s])
       IN /\ cred' = [cred EXCEPT ![tunnel] = next]
          /\ links' = IF old # None /\ old.epoch # next.epoch THEN {} ELSE links
          /\ top' = IF next.epoch > top THEN next.epoch ELSE top
    /\ wire' = [wire EXCEPT ![s] = Tail(@)]
    /\ UNCHANGED <<pcVars, open, tunnel, used, login>>

\* T_CREDENTIAL: kept by its tunnel; a changed epoch ends the link's logins.
HubHearsCredential(s) ==
    /\ s \in open /\ wire[s] # <<>> /\ IsCredential(Head(wire[s]))
    /\ LET old == cred[s]
           next == Head(wire[s])
       IN /\ cred' = [cred EXCEPT ![s] = next]
          /\ links' = IF old # None /\ old.epoch # next.epoch THEN {} ELSE links
          /\ top' = IF s = tunnel /\ next.epoch > top THEN next.epoch ELSE top
    /\ wire' = [wire EXCEPT ![s] = Tail(@)]
    /\ UNCHANGED <<pcVars, open, tunnel, used, login>>

\* The answer of a login: handed to the handler that waits for it, if it does.
HubHearsAnswer(s) ==
    /\ s \in open /\ wire[s] # <<>> /\ ~IsCredential(Head(wire[s]))
    /\ LET a == Head(wire[s])
       IN login' = IF login[a.login].st = "forward" /\ login[a.login].over = s
                   THEN [login EXCEPT ![a.login] = [@ EXCEPT !.st = "answered", !.ok = a.ok]]
                   ELSE login
    /\ wire' = [wire EXCEPT ![s] = Tail(@)]
    /\ UNCHANGED <<pcVars, open, tunnel, used, cred, links, top>>

\* The Hub's end of a tunnel goes: its entry, if it is still its own, and the
\* handlers that wait on it answer Offline.
HubDrops(s) ==
    /\ s \in open
    /\ open' = open \ {s}
    /\ wire' = [wire EXCEPT ![s] = <<>>]
    /\ tunnel' = IF tunnel = s THEN 0 ELSE tunnel
    /\ login' = [l \in Login |-> IF login[l].st = "forward" /\ login[l].over = s
                                 THEN Over(login[l], "out") ELSE login[l]]
    /\ UNCHANGED <<pcVars, used, cred, links, top>>

\* The Hub dies and starts again, with nothing: no tunnel, no link session.
HubRestart ==
    /\ open # {} \/ links # {}
    /\ open' = {} /\ tunnel' = 0
    /\ wire' = [s \in Tunnel |-> <<>>]
    /\ cred' = [s \in Tunnel |-> None]
    /\ links' = {}
    /\ login' = [l \in Login |-> IF login[l].st \in {"verify", "forward", "answered"}
                                 THEN Over(login[l], "out") ELSE login[l]]
    /\ UNCHANGED <<pcVars, used, top>>

-----------------------------------------------------------------------------
(* The Hub: submit and the gate *)

\* POST api/hub-login: the verifier of the link's tunnel is copied.
Submit(l) ==
    /\ login[l].st = "idle" /\ tunnel # 0
    /\ cred[tunnel] # None
    /\ login' = [login EXCEPT ![l] = [@ EXCEPT !.st = "verify", !.cred = cred[tunnel], !.over = tunnel]]
    /\ UNCHANGED <<pcVars, wire, open, tunnel, used, cred, links, top>>

\* verify_password is over: a wrong password is turned away, a right one
\* forwarded to the PC.
HubVerified(l) ==
    /\ login[l].st = "verify"
    /\ LET s == login[l].over
           forward == login[l].pw = login[l].cred.pw /\ s \in open
       IN /\ login' = [login EXCEPT ![l] = IF forward THEN [@ EXCEPT !.st = "forward"] ELSE Over(@, "out")]
          /\ job' = IF forward /\ s = link
                    THEN [job EXCEPT ![l] = [@ EXCEPT !.st = "request", !.over = s]] ELSE job
    /\ UNCHANGED <<auth, clearing, pcSessions, permit, link, wire, open, tunnel, used, cred, links, top>>

\* ANSWER_TIMEOUT, or a browser that leaves.
LoginGivenUp(l) ==
    /\ login[l].st \in {"verify", "forward", "answered"}
    /\ login' = [login EXCEPT ![l] = Over(@, "out")]
    /\ UNCHANGED <<pcVars, wire, open, tunnel, used, cred, links, top>>

\* LinkSession::valid_at, of the sessions that have not expired.
ValidAt(session, epoch) == session.epoch = epoch

\* Mutant: nobody makes room.
MadeNoRoom(kept, rest) == rest = kept

\* What is left of the sessions when one more has its place: the least recently
\* seen are gone.
MadeRoom(kept, rest) ==
    IF Cardinality(kept) < Cap THEN rest = kept ELSE rest \subseteq kept /\ Cardinality(rest) = Cap - 1

\* Mutant: the session is stamped with the verifier the tunnel holds by now.
IssueCurrent(l) ==
    /\ login[l].st = "answered" /\ login[l].ok
    /\ LET epoch == cred[login[l].over].epoch
           kept == {s \in links : ValidAt(s, epoch)}
       IN \E rest \in SUBSET kept :
            MadeRoom(kept, rest) /\ links' = rest \cup {[login |-> l, epoch |-> epoch]}
    /\ login' = [login EXCEPT ![l] = Over(@, "in")]
    /\ UNCHANGED <<pcVars, wire, open, tunnel, used, cred, top>>

\* issue_link_session, under the epoch the password was verified at: sessions
\* of another epoch (also of a newer one) leave, and the oldest past the cap.
Issue(l) ==
    /\ login[l].st = "answered" /\ login[l].ok
    /\ LET epoch == login[l].cred.epoch
           kept == {s \in links : ValidAt(s, epoch)}
       IN \E rest \in SUBSET kept :
            MadeRoom(kept, rest) /\ links' = rest \cup {[login |-> l, epoch |-> epoch]}
    /\ login' = [login EXCEPT ![l] = Over(@, "in")]
    /\ UNCHANGED <<pcVars, wire, open, tunnel, used, cred, top>>

Refused(l) ==
    /\ login[l].st = "answered" /\ ~login[l].ok
    /\ login' = [login EXCEPT ![l] = Over(@, "out")]
    /\ UNCHANGED <<pcVars, wire, open, tunnel, used, cred, links, top>>

\* What the gate compares a cookie with; Admits is link_session_valid.
Holds(epoch) == tunnel # 0 /\ cred[tunnel] # None /\ cred[tunnel].epoch = epoch
Admits(l) == \E s \in links : s.login = l /\ Holds(s.epoch)

\* LINK_REMEMBER or LINK_SLIDING has passed.
LinkSessionExpires(s) ==
    /\ s \in links
    /\ links' = links \ {s}
    /\ UNCHANGED <<pcVars, wire, open, tunnel, used, cred, login, top>>

Next ==
    \/ \E who \in {"server", "tray"} : Store(who) \/ CredentialsChanged(who)
    \/ Restart \/ HubRestart \/ LinkUp \/ LinkDown \/ PushCredential
    \/ \E s \in Tunnel : HubHearsCredential(s) \/ HubHearsAnswer(s) \/ HubDrops(s)
    \/ \E l \in Login :
         \/ PcLogin(l) \/ PcVerified(l) \/ PcSessionEnds(l)
         \/ Submit(l) \/ HubVerified(l) \/ LoginGivenUp(l) \/ Issue(l) \/ Refused(l)
    \/ \E s \in links : LinkSessionExpires(s)

Spec == Init /\ [][Next]_vars

\* Threads run on: a change is followed by its notice, the link loop takes its
\* permit, the Hub reads what a tunnel brings.
Fairness ==
    /\ \A who \in {"server", "tray"} : WF_vars(CredentialsChanged(who))
    /\ WF_vars(PushCredential)
    /\ \A s \in Tunnel : WF_vars(HubHearsCredential(s)) /\ WF_vars(HubHearsAnswer(s))

FairSpec == Spec /\ Fairness

-----------------------------------------------------------------------------
(* Properties *)

\* "Changing the password bumps the epoch": once the Hub holds the PC's
\* current verifier, its gate admits nobody who typed another password,
\* however late the login that let them in was answered and issued.
CurrentPasswordOnly ==
    \A l \in Login : Admits(l) /\ Holds(auth.epoch) => login[l].pw = auth.pw

\* "Changing the password bumps the epoch, which invalidates every session at
\* once": a session of the current epoch was given for the current password.
PcProvesPassword ==
    \A s \in pcSessions : s.epoch = auth.epoch => login[s.login].pw = auth.pw

\* Over reconnects and restarts the gate never goes back to an older epoch: a
\* login that a change of the password ended stays ended.
GateNeverStepsBack == tunnel # 0 /\ cred[tunnel] # None => cred[tunnel].epoch = top

\* A change of the credential reaches the Hub as long as the link carries it.
ChangeReachesHub ==
    \A e \in 0..MaxEpoch :
        (auth.epoch = e /\ link # 0 /\ link = tunnel) ~>
            (Holds(e) \/ auth.epoch # e \/ link = 0 \/ link # tunnel)

=============================================================================
