----------------------------- MODULE HubClient -----------------------------
(***************************************************************************)
(* The daemon's Hub client (daemon/src/hub/mod.rs) and the outer shape of  *)
(* the tunnel it serves (hub/link.rs): one loop that follows the settings, *)
(* the password and the device key, woken by a Notify that keeps one       *)
(* permit, and a generation that tells a change from a spurious wake.      *)
(*                                                                         *)
(* The settings and the key are one configuration here, None while no Hub  *)
(* is configured; a change replaces it.  The loop's stretch from a wake to *)
(* its next await is one action.                                           *)
(***************************************************************************)
EXTENDS Naturals

CONSTANTS
    Config,       \* what a tunnel may be opened with
    None,
    MaxGeneration \* bound: changes

VARIABLES
    config,     \* hub.json and the device key, on disk and in memory
    importing,  \* a new key is on disk, its request still waits to call key_changed
    unannounced, \* history: a new key is on disk, and nobody will tell the attempt
    password,   \* Auth::is_set
    generation, \* HubClient.generation
    wakes,      \* restart: a woken waiter or a kept permit, 2 for one of each
    loop,       \* where `run` awaits
    with,       \* the configuration of the attempt or tunnel
    under,      \* the generation it was started under
    status      \* HubClient.status

vars == <<config, importing, unannounced, password, generation, wakes, loop, with, under, status>>

Parks == {"unconfigured", "no-password", "replaced", "backoff"}

TypeOK ==
    /\ config \in Config \cup {None} /\ with \in Config \cup {None}
    /\ {importing, unannounced, password} \subseteq BOOLEAN
    /\ {generation, under} \subseteq 0..MaxGeneration
    /\ wakes \in 0..2
    /\ loop \in Parks \cup {"awake", "connecting", "handshake", "online"}
    /\ status \in {"unconfigured", "no-password", "connecting", "online", "rejected", "replaced"}

\* HubClient::new, then the loop's first stretch.
Init ==
    /\ config \in Config \cup {None}
    /\ importing = FALSE /\ unannounced = FALSE
    /\ password \in BOOLEAN
    /\ generation = 0 /\ under = 0
    /\ wakes = 0
    /\ loop = "awake"
    /\ with = None
    /\ status = "unconfigured"

-----------------------------------------------------------------------------
(* Changes *)

\* Notify::notify_one: a waiter is woken, else the permit is kept.  Whether
\* the tunnel's select has come round to its waiter is not known.
NotifyOne ==
    wakes' \in IF loop \in Parks THEN {IF wakes = 0 THEN 1 ELSE 2}
               ELSE IF loop = "online" /\ wakes > 0 THEN {1, 2} ELSE {1}

Changed ==
    /\ generation + (IF importing THEN 1 ELSE 0) < MaxGeneration
    /\ generation' = generation + 1 /\ unannounced' = FALSE
    /\ NotifyOne

\* connect, update.
Connect ==
    /\ Changed
    /\ config' \in Config
    /\ UNCHANGED <<importing, password, loop, with, under, status>>

Disconnect ==
    /\ Changed
    /\ config' = None
    /\ status' = "unconfigured"
    /\ UNCHANGED <<importing, password, loop, with, under>>

\* The pool's thread has installed the key of another PC.
KeyInstalled ==
    /\ ~importing /\ config # None /\ generation < MaxGeneration
    /\ config' \in Config \ {config}
    /\ importing' = TRUE
    /\ UNCHANGED <<unannounced, password, generation, wakes, loop, with, under, status>>

\* Mutant: a bare notify, which the tunnel takes for somebody else's.
KeyChangedUnnumbered ==
    /\ importing
    /\ importing' = FALSE
    /\ NotifyOne
    /\ UNCHANGED <<config, unannounced, password, generation, loop, with, under, status>>

\* key_changed, once the handler that waited for the pool goes on.
KeyChanged ==
    /\ importing
    /\ importing' = FALSE
    /\ generation' = generation + 1 /\ unannounced' = FALSE
    /\ NotifyOne
    /\ UNCHANGED <<config, password, loop, with, under, status>>

\* The request's client leaves: its handler is dropped where it waits for the
\* pool, and key_changed is never called.
ImportAbandoned ==
    /\ importing
    /\ importing' = FALSE /\ unannounced' = TRUE
    /\ UNCHANGED <<config, password, generation, wakes, loop, with, under, status>>

\* Mutant: the first password wakes nobody.
SetPasswordQuietly ==
    /\ ~password
    /\ password' = TRUE
    /\ UNCHANGED <<config, importing, unannounced, generation, wakes, loop, with, under, status>>

\* set_password notifies without a new generation.
SetPassword ==
    /\ password' = TRUE
    /\ NotifyOne
    /\ UNCHANGED <<config, importing, unannounced, generation, loop, with, under, status>>

-----------------------------------------------------------------------------
(* The loop *)

\* The loop parks, unless a permit is kept: it takes it and goes round.
ParkAt(place, permit) ==
    IF permit > 0 THEN loop' = "awake" /\ wakes' = 0 ELSE loop' = place /\ wakes' = 0

\* From the top of the loop to its next await.
GoRound ==
    /\ loop = "awake"
    /\ IF config = None
       THEN ParkAt("unconfigured", wakes) /\ status' = "unconfigured" /\ UNCHANGED <<unannounced, with, under>>
       ELSE IF ~password
       THEN ParkAt("no-password", wakes) /\ status' = "no-password" /\ UNCHANGED <<unannounced, with, under>>
       ELSE /\ loop' = "connecting" /\ status' = "connecting"
            /\ with' = config /\ under' = generation
            /\ unannounced' = FALSE
            /\ UNCHANGED wakes
    /\ UNCHANGED <<config, importing, password, generation>>

\* A parked loop is woken; a permit kept behind its wake stays.
Woken ==
    /\ loop \in Parks /\ wakes > 0
    /\ loop' = "awake"
    /\ wakes' = wakes - 1
    /\ UNCHANGED <<config, importing, unannounced, password, generation, with, under, status>>

\* The backoff's timer: a wake that was not taken is passed on.
BackoffOver ==
    /\ loop = "backoff"
    /\ loop' = "awake"
    /\ wakes' = IF wakes > 0 THEN 1 ELSE 0
    /\ UNCHANGED <<config, importing, unannounced, password, generation, with, under, status>>

\* The WebSocket is up; nothing bounds the wait for it.
Connected ==
    /\ loop = "connecting"
    /\ loop' = "handshake"
    /\ UNCHANGED <<config, importing, unannounced, password, generation, wakes, with, under, status>>

ConnectFails ==
    /\ loop = "connecting"
    /\ ParkAt("backoff", wakes)
    /\ UNCHANGED <<config, importing, unannounced, password, generation, with, under, status>>

\* The handshake fails or is at its timeout, or the Hub refuses the tunnel.
HandshakeFails ==
    /\ loop = "handshake"
    /\ ParkAt("backoff", wakes)
    /\ status' \in {"connecting", "rejected"}
    /\ UNCHANGED <<config, importing, unannounced, password, generation, with, under>>

TunnelOnline ==
    /\ loop = "handshake"
    /\ loop' = "online"
    /\ status' = "online"
    /\ UNCHANGED <<config, importing, unannounced, password, generation, wakes, with, under>>

\* The tunnel drops: a close, silence, a violation.  The status stays.
TunnelDrops ==
    /\ loop = "online"
    /\ ParkAt("backoff", wakes)
    /\ UNCHANGED <<config, importing, unannounced, password, generation, with, under, status>>

\* T_REPLACED.
TunnelReplaced ==
    /\ loop = "online"
    /\ ParkAt("replaced", wakes)
    /\ status' = "replaced"
    /\ UNCHANGED <<config, importing, unannounced, password, generation, with, under>>

\* The pump's restart arm: under a newer generation the tunnel stops and the
\* loop goes round; else the wake was somebody else's.
PumpWoken ==
    /\ loop = "online" /\ wakes > 0
    /\ wakes' = wakes - 1
    /\ loop' = IF under # generation THEN "awake" ELSE "online"
    /\ UNCHANGED <<config, importing, unannounced, password, generation, with, under, status>>

Next ==
    \/ Connect \/ Disconnect \/ SetPassword
    \/ KeyInstalled \/ KeyChanged \/ ImportAbandoned
    \/ GoRound \/ Woken \/ BackoffOver \/ Connected \/ ConnectFails
    \/ HandshakeFails \/ TunnelOnline \/ TunnelDrops \/ TunnelReplaced \/ PumpWoken

Spec == Init /\ [][Next]_vars

\* The loop runs when it can, the backoff ends, a handshake has timeouts, the
\* pool's thread comes back and its handler goes on, if it is still there.  A
\* connection need never come about nor fail.
Fairness ==
    /\ WF_vars(GoRound) /\ WF_vars(Woken) /\ WF_vars(BackoffOver) /\ WF_vars(KeyChanged \/ ImportAbandoned)
    /\ WF_vars(HandshakeFails \/ TunnelOnline) /\ WF_vars(PumpWoken)

FairSpec == Spec /\ Fairness

-----------------------------------------------------------------------------
(* Liveness *)

Stale(v) == loop = "online" /\ with = v /\ config # v

\* A tunnel of another configuration or key than the PC's ends, unless the
\* request that imported the key was dropped: no change is lost between the
\* permit, the generation and the tunnel's own start.
StaleTunnelEnds == \A v \in Config : Stale(v) ~> ~Stale(v) \/ unannounced

Tried(v) == config = v /\ password ~> config # v \/ with = v \/ status = "replaced" \/ unannounced

\* A PC that has a Hub and a password gets its tunnel tried, with what is
\* configured, unless another PC took its place or an import was dropped: no
\* order of the two changes parks the loop for good, if its attempts to connect
\* end.
ConfigIsTried == []<>(loop # "connecting") => \A v \in Config : Tried(v)

=============================================================================
