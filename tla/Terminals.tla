----------------------------- MODULE Terminals -----------------------------
(***************************************************************************)
(* The application's terminals (src-tauri/src/pty.rs): commands of several *)
(* pages create and kill sessions under ids the pages chose, a thread per  *)
(* session gathers the shell's output and announces its end, a thread per  *)
(* close ends a shell politely.  All of them share the map of sessions     *)
(* under one mutex, and check it before they speak or insert: a check and  *)
(* what follows it are separate actions where the lock is let go between.  *)
(*                                                                         *)
(* A member of Create is one pty_create call, and names the session, the   *)
(* generation and the shell it makes.                                      *)
(***************************************************************************)
CONSTANTS
    Create, \* pty_create calls
    Id,     \* terminal ids
    None

ASSUME NoneAssumption == None \notin Create

VARIABLES
    sessions, \* PtyState.sessions
    call,     \* pty_create
    id,       \* the id a call is for
    alive,    \* the shells that run
    closing,  \* close_session for a shell; "blind" and "gaveUp": how it returned
    out,      \* the shells with output nobody has gathered
    teller,   \* the thread that speaks for a session
    misread   \* history: the shells a gate's failed wait has taken for dead

vars == <<sessions, call, id, alive, closing, out, teller, misread>>

TypeOK ==
    /\ sessions \in [Id -> Create \cup {None}]
    /\ call \in [Create -> {"idle", "admitted", "spawned", "failed", "refused", "done"}]
    /\ id \in [Create -> Id]
    /\ {alive, out, misread} \subseteq SUBSET Create
    /\ closing \in [Create -> {"none", "polite", "killed", "over", "blind", "gaveUp"}]
    /\ teller \in [Create -> {"none", "gather", "emit", "end", "exit", "reap", "over"}]

Init ==
    /\ sessions = [i \in Id |-> None]
    /\ call = [c \in Create |-> "idle"]
    /\ id \in [Create -> Id]
    /\ alive = {} /\ out = {} /\ misread = {}
    /\ closing = [c \in Create |-> "none"]
    /\ teller = [c \in Create |-> "none"]

-----------------------------------------------------------------------------
(* Commands *)

\* A session whose shell runs has the id.
Occupied(i) == sessions[i] # None /\ sessions[i] \in alive

\* refuse_live_replacement: a wait that fails reads as exited.
Refuses(i, fails) ==
    /\ Occupied(i) /\ ~fails
    /\ UNCHANGED misread
Admits(i, fails) ==
    /\ Occupied(i) => fails
    /\ misread' = misread \cup (IF Occupied(i) THEN {sessions[i]} ELSE {})

\* pty_create: the gate, before anything is spawned.
PtyCreate(c) ==
    /\ call[c] = "idle"
    /\ \E fails \in BOOLEAN :
         \/ Refuses(id[c], fails) /\ call' = [call EXCEPT ![c] = "refused"]
         \/ Admits(id[c], fails) /\ call' = [call EXCEPT ![c] = "admitted"]
    /\ UNCHANGED <<sessions, id, alive, closing, out, teller>>

\* The terminal is opened and the shell started, or the call fails.
Spawn(c) ==
    /\ call[c] = "admitted"
    /\ \/ call' = [call EXCEPT ![c] = "spawned"] /\ alive' = alive \cup {c}
       \/ call' = [call EXCEPT ![c] = "failed"] /\ UNCHANGED alive
    /\ UNCHANGED <<sessions, id, closing, out, teller, misread>>

\* The shell's writer or reader cannot be had: the call fails, and nobody
\* closes the shell it has started.
PipesFail(c) ==
    /\ call[c] = "spawned"
    /\ call' = [call EXCEPT ![c] = "failed"]
    /\ UNCHANGED <<sessions, id, alive, closing, out, teller, misread>>

\* The session goes in under its id, what it replaces is closed, its threads
\* start.
GoesIn(c) ==
    /\ sessions' = [sessions EXCEPT ![id[c]] = c]
    /\ closing' = IF sessions[id[c]] # None THEN [closing EXCEPT ![sessions[id[c]]] = "polite"] ELSE closing
    /\ call' = [call EXCEPT ![c] = "done"]
    /\ teller' = [teller EXCEPT ![c] = "gather"]

\* Mutant: the gate is not repeated, a session in the way is replaced.
InsertUnchecked(c) ==
    /\ call[c] = "spawned"
    /\ GoesIn(c)
    /\ UNCHANGED <<id, alive, out, misread>>

\* Mutant: a refused create forgets the shell it spawned.
InsertForgetful(c) ==
    /\ call[c] = "spawned"
    /\ \E fails \in BOOLEAN :
         \/ /\ Refuses(id[c], fails)
            /\ call' = [call EXCEPT ![c] = "refused"]
            /\ UNCHANGED <<sessions, closing, teller>>
         \/ Admits(id[c], fails) /\ GoesIn(c)
    /\ UNCHANGED <<id, alive, out>>

\* The gate again, with the insert: a refused call closes its own shell.
Insert(c) ==
    /\ call[c] = "spawned"
    /\ \E fails \in BOOLEAN :
         \/ /\ Refuses(id[c], fails)
            /\ call' = [call EXCEPT ![c] = "refused"]
            /\ closing' = [closing EXCEPT ![c] = "polite"]
            /\ UNCHANGED <<sessions, teller>>
         \/ Admits(id[c], fails) /\ GoesIn(c)
    /\ UNCHANGED <<id, alive, out>>

\* pty_kill: the session leaves the map, another thread closes its shell.
Kill(i) ==
    /\ sessions[i] # None
    /\ sessions' = [sessions EXCEPT ![i] = None]
    /\ closing' = [closing EXCEPT ![sessions[i]] = "polite"]
    /\ UNCHANGED <<call, id, alive, out, teller, misread>>

-----------------------------------------------------------------------------
(* Shells and the threads behind them *)

\* The shell exits, by itself or because it is closed.
ShellExits(c) ==
    /\ c \in alive
    /\ alive' = alive \ {c}
    /\ UNCHANGED <<sessions, call, id, closing, out, teller, misread>>

\* close_session: CLOSE_GRACE has passed and the shell still runs, it is killed.
CloseKills(c) ==
    /\ closing[c] = "polite" /\ c \in alive
    /\ closing' = [closing EXCEPT ![c] = "killed"]
    /\ UNCHANGED <<sessions, call, id, alive, out, teller, misread>>

\* close_session returns: it has seen the exit, a wait has failed, before the
\* kill or after it, or the poll for the killed shell is at its bound.
CloseReturns(c) ==
    /\ \/ /\ closing[c] \in {"polite", "killed"} /\ c \notin alive
          /\ closing' = [closing EXCEPT ![c] = "over"]
       \/ /\ closing[c] = "polite"
          /\ closing' = [closing EXCEPT ![c] = "blind"]
       \/ /\ closing[c] = "killed"
          /\ closing' = [closing EXCEPT ![c] = "gaveUp"]
    /\ UNCHANGED <<sessions, call, id, alive, out, teller, misread>>

ShellWrites(c) ==
    /\ c \in alive
    /\ out' = out \cup {c}
    /\ UNCHANGED <<sessions, call, id, alive, closing, teller, misread>>

\* may_speak_for: the entry is this generation's, or there is none.
MaySpeak(c) == sessions[id[c]] \in {c, None}

\* A batch is gathered and the map asked whether it may be told.
Gather(c) ==
    /\ teller[c] = "gather" /\ c \in out
    /\ out' = out \ {c}
    /\ teller' = [teller EXCEPT ![c] = IF MaySpeak(c) THEN "emit" ELSE "gather"]
    /\ UNCHANGED <<sessions, call, id, alive, closing, misread>>

\* pty-output.
EmitOutput(c) ==
    /\ teller[c] = "emit"
    /\ teller' = [teller EXCEPT ![c] = "gather"]
    /\ UNCHANGED <<sessions, call, id, alive, closing, out, misread>>

\* The stream has ended, or could not be read, whatever the shell does: may
\* the end be told?
StreamEnds(c) ==
    /\ teller[c] = "gather" /\ c \notin out
    /\ teller' = [teller EXCEPT ![c] = IF MaySpeak(c) THEN "exit" ELSE "reap"]
    /\ UNCHANGED <<sessions, call, id, alive, closing, out, misread>>

\* pty-exit.
EmitExit(c) ==
    /\ teller[c] = "exit"
    /\ teller' = [teller EXCEPT ![c] = "reap"]
    /\ UNCHANGED <<sessions, call, id, alive, closing, out, misread>>

\* The session is reaped, if the id is still its own; nobody asks for its shell.
Reap(c) ==
    /\ teller[c] = "reap"
    /\ sessions' = IF sessions[id[c]] = c THEN [sessions EXCEPT ![id[c]] = None] ELSE sessions
    /\ teller' = [teller EXCEPT ![c] = "over"]
    /\ UNCHANGED <<call, id, alive, closing, out, misread>>

Next ==
    \/ \E c \in Create :
         \/ PtyCreate(c) \/ Spawn(c) \/ PipesFail(c) \/ Insert(c)
         \/ ShellExits(c) \/ CloseKills(c) \/ CloseReturns(c) \/ ShellWrites(c)
         \/ Gather(c) \/ EmitOutput(c) \/ StreamEnds(c) \/ EmitExit(c) \/ Reap(c)
    \/ \E i \in Id : Kill(i)

Spec == Init /\ [][Next]_vars

-----------------------------------------------------------------------------
(* Safety *)

\* Nobody looks after the shell any more: its create failed, its close
\* returned without having seen its exit, or its stream ended before it did.
LetGo(c) ==
    \/ call[c] = "failed"
    \/ closing[c] \in {"blind", "gaveUp"}
    \/ teller[c] = "over" /\ closing[c] = "none"

\* A shell that runs is some page's terminal, about to become one or being
\* closed, or was let go at one of those three ends: no refusal, kill,
\* replacement or late end of a stream leaks one.
OrphansAreKnown ==
    \A c \in alive :
      \/ sessions[id[c]] = c
      \/ call[c] = "spawned"
      \/ closing[c] \in {"polite", "killed"}
      \/ LetGo(c)

\* A shell that runs is closed by a kill of its id, or because its own create
\* was refused: another page's collision on the id costs an error, never it,
\* unless the wait that asks for it failed.
CollisionKillsNobody ==
    [][\A c \in alive :
         closing[c] = "none" /\ closing'[c] # "none" =>
           \/ call[c] = "spawned"
           \/ sessions[id[c]] = c /\ sessions'[id[c]] = None
           \/ c \in misread']_vars

=============================================================================
