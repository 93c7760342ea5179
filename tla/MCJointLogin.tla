---------------------------- MODULE MCJointLogin ----------------------------
(* JointLogin with logins and passwords as model values. *)
EXTENDS JointLogin, TLC

Symmetry == Permutations(Login) \cup Permutations(Password)

\* pcSessions is written and never read: only PcProvesPassword needs it told apart.
View == <<auth, clearing, permit, link, job, wire, open, hubVars>>

=============================================================================
