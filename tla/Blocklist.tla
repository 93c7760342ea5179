----------------------------- MODULE Blocklist -----------------------------
(***************************************************************************)
(* Blocklist::refresh of hub/src/blocklist.rs, step by step: stat, read,   *)
(* and two stores under two locks.  A refresher is the 30 s tick of        *)
(* hub/src/lib.rs or a handshake (hub/src/tunnel.rs); each runs `refresh`  *)
(* again and again, and nothing keeps two of them apart.  HubTunnels takes *)
(* a refresh as one step with the outcomes this module leads to: the set   *)
(* stays, becomes the file's, or, after a raced edit, an older list.       *)
(***************************************************************************)
EXTENDS Naturals

CONSTANTS
    Refresher,  \* the tasks that call refresh
    Uuid,       \* what a line of the file may name
    None,       \* no stamp
    MaxEdits    \* bound: edits of the file

ASSUME RefresherAssumption == Refresher # {}
ASSUME EditAssumption == MaxEdits \in Nat
ASSUME NoneAssumption == None \notin Nat \cup Uuid

VARIABLES
    file,   \* the uuids in the file now, with the stamp (mtime and length) of its last edit
    set,    \* Blocklist.set
    stamp,  \* Blocklist.stamp
    pc,     \* where each refresher stands
    seen,   \* the stamp each refresher's stat saw
    text,   \* the uuids each refresher read
    raced   \* history: the last edit found a list read before it and not yet stored

vars == <<file, set, stamp, pc, seen, text, raced>>

\* Every edit gives the file a stamp of its own.
Stamp == 0..MaxEdits
File == [listed : SUBSET Uuid, stamp : Stamp]

TypeOK ==
    /\ file \in File
    /\ set \in SUBSET Uuid
    /\ stamp \in Stamp \cup {None}
    /\ pc \in [Refresher -> {"idle", "read", "store", "stamp"}]
    /\ seen \in [Refresher -> Stamp \cup {None}]
    /\ text \in [Refresher -> SUBSET Uuid]
    /\ raced \in BOOLEAN

\* Blocklist::new reads nothing: the first refresh does.
Init ==
    /\ file \in [listed : SUBSET Uuid, stamp : {0}]
    /\ set = {}
    /\ stamp = None
    /\ pc = [r \in Refresher |-> "idle"]
    /\ seen = [r \in Refresher |-> None]
    /\ text = [r \in Refresher |-> {}]
    /\ raced = FALSE

Goto(r, where) == pc' = [pc EXCEPT ![r] = where]

\* The operator saves the file, while some refresher may hold what it read
\* before.
Edit ==
    /\ file.stamp < MaxEdits
    /\ \E listed \in SUBSET Uuid : file' = [listed |-> listed, stamp |-> file.stamp + 1]
    /\ raced' = \E r \in Refresher : pc[r] = "store"
    /\ UNCHANGED <<set, stamp, pc, seen, text>>

\* The file's stamp is the one the cached set was read under: nothing to do.
Unchanged(r) ==
    /\ pc[r] = "idle" /\ stamp = file.stamp
    /\ UNCHANGED vars

\* Mutant: a stamp that was ever cached counts as unchanged.
StatOnce(r) ==
    /\ pc[r] = "idle" /\ stamp = None
    /\ seen' = [seen EXCEPT ![r] = file.stamp]
    /\ Goto(r, "read")
    /\ UNCHANGED <<file, set, stamp, text, raced>>

\* A stamp that differs from the cached one.
Stat(r) ==
    /\ pc[r] = "idle" /\ stamp # file.stamp
    /\ seen' = [seen EXCEPT ![r] = file.stamp]
    /\ Goto(r, "read")
    /\ UNCHANGED <<file, set, stamp, text, raced>>

\* The stat failed: the read is tried all the same.
StatFails(r) ==
    /\ pc[r] = "idle"
    /\ seen' = [seen EXCEPT ![r] = None]
    /\ Goto(r, "read")
    /\ UNCHANGED <<file, set, stamp, text, raced>>

Read(r) ==
    /\ pc[r] = "read"
    /\ text' = [text EXCEPT ![r] = file.listed]
    /\ Goto(r, "store")
    /\ UNCHANGED <<file, set, stamp, seen, raced>>

\* Mutant: a file that cannot be read is an empty list.
ReadFailsEmpty(r) ==
    /\ pc[r] = "read"
    /\ set' = {}
    /\ Goto(r, "idle")
    /\ UNCHANGED <<file, stamp, seen, text, raced>>

\* The last good set is kept; the next refresh tries again.
ReadFails(r) ==
    /\ pc[r] = "read"
    /\ Goto(r, "idle")
    /\ UNCHANGED <<file, set, stamp, seen, text, raced>>

StoreSet(r) ==
    /\ pc[r] = "store"
    /\ set' = text[r]
    /\ Goto(r, "stamp")
    /\ UNCHANGED <<file, stamp, seen, text, raced>>

\* Mutant: the stamp is taken after the read instead of before it.
StoreStampNow(r) ==
    /\ pc[r] = "stamp"
    /\ stamp' = file.stamp
    /\ Goto(r, "idle")
    /\ UNCHANGED <<file, set, seen, text, raced>>

StoreStamp(r) ==
    /\ pc[r] = "stamp"
    /\ stamp' = seen[r]
    /\ Goto(r, "idle")
    /\ UNCHANGED <<file, set, seen, text, raced>>

Refresh(r) ==
    Unchanged(r) \/ Stat(r) \/ StatFails(r) \/ Read(r) \/ ReadFails(r)
        \/ StoreSet(r) \/ StoreStamp(r)

Next == Edit \/ \E r \in Refresher : Refresh(r)

Spec == Init /\ [][Next]_vars

\* Every refresher refreshes for ever.
Fairness ==
    \A r \in Refresher :
        WF_vars(Stat(r)) /\ WF_vars(StoreSet(r)) /\ WF_vars(StoreStamp(r))

\* A file that is there is not unreadable at every single attempt.
Readable == SF_vars(\E r \in Refresher : Read(r))

FairSpec == Spec /\ Fairness /\ Readable

-----------------------------------------------------------------------------
(* Properties *)

\* The cached set answers for the file its stamp names: whenever the stamp says
\* "unchanged", the set is the file's, whoever else is in the middle of a
\* refresh; unless the last edit fell between a read and its store, when the
\* old list may be stored over the new one and under the new stamp.
StampVouchesForSet == ~raced /\ stamp = file.stamp => set = file.listed

\* The set only changes to what the file says now, or, after such an edit, to
\* what it said before.
SetFollowsFile == [][set' \in {set, file.listed} \/ raced]_vars

\* Editing the file takes effect without a restart, as the head of the file and
\* the comment at the tick promise: once the operator stops editing, the list
\* the Hub enforces becomes the file's and stays it.
EditTakesEffect == <>[](set = file.listed)

\* It does when the last edit crossed no refresh under way and the file can be
\* read, for any number of refreshers that cross each other.
UnracedEditTakesEffect == Readable /\ <>[]~raced => EditTakesEffect

=============================================================================
