---------------------------- MODULE MCTunnelsLive ----------------------------
(***************************************************************************)
(* What the Hub's registry of tunnels owes in the end, and the             *)
(* application's terminals, each on an instance small enough to be checked *)
(* without symmetry.  As in MCLive, a behaviour chooses one component and  *)
(* the other stands still where nothing is owed.                           *)
(***************************************************************************)
EXTENDS Terminals, Integers

CONSTANTS Pc, Conn

VARIABLES
    part, \* the component that runs
    \* HubTunnels
    tunnels, pc, uuid, displaced, replaced, killed, missed, silent, file, held,
    blocklist, tick, doomed, budget, today, late, relayed, strays, linkTotal

tunnelVars == <<tunnels, pc, uuid, displaced, replaced, killed, missed, silent, file, held,
    blocklist, tick, doomed, budget, today, late, relayed, strays, linkTotal>>

Tunnels == INSTANCE HubTunnels WITH
    Uuid <- Pc, Listable <- Pc, MaxTunnels <- 1, Misses <- 2, BytesPerDay <- 0,
    MaxFrame <- 0, MaxDay <- 0, MaxLate <- 0

LiveInit == part \in {"tunnels", "terminals"} /\ Tunnels!Init /\ Init

LiveNext ==
    \/ part = "tunnels" /\ Tunnels!Next /\ UNCHANGED <<part, vars>>
    \/ part = "terminals" /\ Next /\ UNCHANGED <<part, tunnelVars>>

LiveSpec == LiveInit /\ [][LiveNext]_<<part, vars, tunnelVars>> /\ Tunnels!Fairness

-----------------------------------------------------------------------------
(* Properties, each stated and commented in its component's module *)

\* A PC that vanished leaves the registry (HubTunnels).
VanishedIsDropped == Tunnels!VanishedIsDropped
\* A tunnel that lost its place ends (HubTunnels).
ReplacedUnwinds == Tunnels!ReplacedUnwinds
\* A listed PC goes off the air (HubTunnels).
BlockedGoesOffAir == Tunnels!BlockedGoesOffAir

=============================================================================
