---------------------------- MODULE MCHubTunnels ----------------------------
(* HubTunnels with PCs and connections as model values. *)
EXTENDS HubTunnels, TLC

\* PCs the operator may list are alike, and so are those he may not.
Symmetry ==
    Permutations(Listable) \cup Permutations(Uuid \ Listable) \cup Permutations(Conn)

\* linkTotal is written and never read: only LinkBudget needs it told apart.
View == <<registry, pc, uuid, killed, missed, silent, blocking, budget, today, late, relayed,
          strays>>

\* Bound: the list is edited on the first day, and by midnight every edit is in
\* the cached set.  No budget depends on the list.
EditsBeforeMidnight == today > 0 => file = blocklist /\ held = {}

=============================================================================
