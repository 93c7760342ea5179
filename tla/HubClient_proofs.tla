-------------------------- MODULE HubClient_proofs --------------------------
(***************************************************************************)
(* No change of the settings, the key or the password is lost on the Hub   *)
(* client's loop: what liveness (StaleTunnelEnds, ConfigIsTried) needs of  *)
(* every state, for any configurations and any number of changes.          *)
(***************************************************************************)
EXTENDS HubClient, TLAPS

\* What the argument needs of the types.
Typed ==
    /\ generation \in Nat /\ under \in Nat /\ wakes \in 0..2
    /\ loop \in Parks \cup {"awake", "connecting", "handshake", "online"}

\* A tunnel is told apart from the PC's settings by its generation, unless an
\* importer has still to say so or was dropped.
StaleIsNumbered ==
    loop \in {"connecting", "handshake", "online"} =>
        /\ under <= generation
        /\ with # config => importing \/ unannounced \/ under # generation

\* Whoever serves, or opens, a tunnel of an older generation has a wake to come.
OldIsWoken ==
    loop \in {"connecting", "handshake", "online"} /\ under # generation => wakes > 0

\* Whoever is parked for want of settings or of a password that are there by
\* now has a wake to come.
ParkedIsWoken ==
    \/ loop = "unconfigured" /\ config # None
    \/ loop = "no-password" /\ password
    => wakes > 0

\* No change is lost: a tunnel opened with something else than what the PC is
\* configured with, and a loop that waits for what it has, are about to be woken,
\* save for a key whose import was dropped.
WakeKept ==
    /\ loop = "online" /\ with # config => wakes > 0 \/ importing \/ unannounced
    /\ ParkedIsWoken

IInv == Typed /\ StaleIsNumbered /\ OldIsWoken /\ ParkedIsWoken

\* notify_one leaves a wake behind, wherever the loop is.
LEMMA NotifyWakes ==
    ASSUME Typed, NotifyOne
    PROVE  wakes' \in 1..2
BY DEF Typed, NotifyOne

LEMMA InitOK == ASSUME Init PROVE IInv
BY DEF Init, IInv, Typed, Parks, StaleIsNumbered, OldIsWoken, ParkedIsWoken

\* The changes: each leaves a number or a wake.
LEMMA ChangesKeep ==
    ASSUME IInv,
           Connect \/ Disconnect \/ SetPassword \/ KeyInstalled \/ KeyChanged \/ ImportAbandoned
    PROVE  IInv'
<1>. USE DEF IInv, StaleIsNumbered, OldIsWoken, ParkedIsWoken
<1>1. CASE Connect
  <2>1. wakes' \in 1..2
    BY <1>1, NotifyWakes DEF Connect, Changed
  <2>. QED BY <1>1, <2>1 DEF Connect, Changed, Typed
<1>2. CASE Disconnect
  <2>1. wakes' \in 1..2
    BY <1>2, NotifyWakes DEF Disconnect, Changed
  <2>. QED BY <1>2, <2>1 DEF Disconnect, Changed, Typed
<1>3. CASE KeyInstalled
  BY <1>3 DEF KeyInstalled, Typed
<1>4. CASE KeyChanged
  <2>1. wakes' \in 1..2
    BY <1>4, NotifyWakes DEF KeyChanged
  <2>. QED BY <1>4, <2>1 DEF KeyChanged, Typed
<1>5. CASE SetPassword
  <2>1. wakes' \in 1..2
    BY <1>5, NotifyWakes DEF SetPassword
  <2>. QED BY <1>5, <2>1 DEF SetPassword, Typed
<1>6. CASE ImportAbandoned
  BY <1>6 DEF ImportAbandoned, Typed
<1>. QED BY <1>1, <1>2, <1>3, <1>4, <1>5, <1>6

\* The loop: it takes a wake only where it looks again at what has changed.
LEMMA LoopKeeps ==
    ASSUME IInv,
           \/ GoRound \/ Woken \/ BackoffOver \/ Connected \/ ConnectFails
           \/ HandshakeFails \/ TunnelOnline \/ TunnelDrops \/ TunnelReplaced \/ PumpWoken
    PROVE  IInv'
<1>. USE DEF IInv, StaleIsNumbered, OldIsWoken, ParkedIsWoken, Typed, Parks
<1>1. CASE GoRound
  BY <1>1 DEF GoRound, ParkAt
<1>2. CASE Woken
  BY <1>2 DEF Woken
<1>3. CASE BackoffOver
  BY <1>3 DEF BackoffOver
<1>4. CASE ConnectFails \/ HandshakeFails \/ TunnelDrops \/ TunnelReplaced
  BY <1>4 DEF ConnectFails, HandshakeFails, TunnelDrops, TunnelReplaced, ParkAt
<1>5. CASE TunnelOnline
  BY <1>5 DEF TunnelOnline
<1>6. CASE PumpWoken
  BY <1>6 DEF PumpWoken
<1>7. CASE Connected
  BY <1>7 DEF Connected
<1>. QED BY <1>1, <1>2, <1>3, <1>4, <1>5, <1>6, <1>7

LEMMA ClientCorrect == Spec => []IInv
<1>1. IInv /\ UNCHANGED vars => IInv'
  BY DEF vars, IInv, Typed, StaleIsNumbered, OldIsWoken, ParkedIsWoken
<1>2. IInv /\ [Next]_vars => IInv'
  BY <1>1, ChangesKeep, LoopKeeps DEF Next
<1>3. Init => IInv
  BY InitOK
<1>. QED BY <1>2, <1>3, PTL DEF Spec

\* No change of the settings, the key or the password that somebody announces is
\* lost, whether it falls into a park, a connection attempt, a handshake, a
\* tunnel or between two of them.
THEOREM NoChangeIsLost == Spec => []WakeKept
<1>1. IInv => WakeKept
  BY DEF IInv, Typed, StaleIsNumbered, OldIsWoken, ParkedIsWoken, WakeKept
<1>. QED BY <1>1, ClientCorrect, PTL

=============================================================================
