-------------------------- MODULE MCResumableConn --------------------------
(* ResumableConn with connections and tasks as model values. *)
EXTENDS ResumableConn, TLC

Symmetry == Permutations(Conn) \cup Permutations(Task)

\* Bound: either one connection and one task, with all kinds of frames, or two
\* of each and the few frames that establish and attach them.
Untouched(c) == c \notin known /\ conn[c] = NewConn
OneOrQuiet ==
    \/ \E c \in Conn, t \in Task :
         /\ \A d \in Conn \ {c} : Untouched(d)
         /\ \A u \in Task \ {t} : task[u] = "idle" /\ page.sock # u
    \/ \A c, d \in Conn :
         conn[c].pushed = 0 /\ conn[c].seq <= 2 /\ (c # d => conn[c].seq + conn[d].seq <= 3)

=============================================================================
