--------------------------- MODULE MCRelayRouter ---------------------------
(***************************************************************************)
(* Instances of RelayRouter for TLC.                                       *)
(***************************************************************************)
EXTENDS RelayRouter, TLC

\* Which task, token or serial is taken never matters, nor which connection or
\* instance it is.
Symmetry ==
    Permutations(Conn) \cup Permutations(Instance) \cup Permutations(Job)
      \cup Permutations(Token) \cup Permutations(Serial)

=============================================================================
