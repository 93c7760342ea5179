-------------------------- MODULE ReliableDownlink --------------------------
(***************************************************************************)
(* What the downlink of the daemon (daemon/src/ws/conn.rs and resume.rs)   *)
(* promises a page, whatever sockets come and go: it hears each frame of   *)
(* its session exactly once and in order, and when that cannot be kept it  *)
(* is told that a session begins anew.  ResumableConn implements it.       *)
(***************************************************************************)
EXTENDS Naturals

CONSTANTS
    Session, \* the sessions a page may be on
    None

VARIABLES
    sent,   \* the last frame numbered in each session
    sid,    \* the session the page is on
    recv,   \* the last frame of it the page heard
    foreign \* the page began the session with a number from another one

vars == <<sent, sid, recv, foreign>>

Init ==
    /\ sent = [s \in Session |-> 0]
    /\ sid = None
    /\ recv = 0
    /\ foreign = FALSE

\* Frames are numbered; a session that no page is on may be forgotten and its
\* place taken by a new one.
Produce ==
    /\ sent' \in [Session -> Nat]
    /\ sid # None => sent'[sid] >= sent[sid]
    /\ UNCHANGED <<sid, recv, foreign>>

\* The page hears the next frame.  One that began with another session's
\* number is promised no more than that the frame was sent.
Hear ==
    /\ sid # None
    /\ recv' = recv + 1 \/ (foreign /\ recv' \in Nat)
    /\ recv' <= sent[sid]
    /\ UNCHANGED <<sent, sid, foreign>>

\* The page is told that a session begins, from its first frame.
Begin ==
    /\ sid' \in Session
    /\ recv' = 0
    /\ foreign' \in BOOLEAN
    /\ sent' = sent

\* The page leaves; a page that follows knows nothing of the session.
LeavePage ==
    /\ sid' = None
    /\ recv' = 0
    /\ foreign' = FALSE
    /\ sent' = sent

Next == Produce \/ Hear \/ Begin \/ LeavePage

Spec == Init /\ [][Next]_vars

=============================================================================
