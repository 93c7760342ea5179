-------------------------- MODULE Blocklist_proofs --------------------------
(***************************************************************************)
(* What Blocklist::refresh keeps however many callers cross each other,    *)
(* for every set of PCs and every number of edits.                         *)
(***************************************************************************)
EXTENDS Blocklist, TLAPS

\* Every variable keeps its type, whoever refreshes with whom.
THEOREM TypeCorrect == Spec => []TypeOK
<1>1. Init => TypeOK
  <2> SUFFICES ASSUME Init PROVE TypeOK
    OBVIOUS
  <2>1. file \in File /\ set \in SUBSET Uuid
    BY EditAssumption DEF Init, File, Stamp
  <2>2. raced \in BOOLEAN
    BY DEF Init
  <2> QED
    BY <2>1, <2>2 DEF Init, TypeOK
<1>2. TypeOK /\ [Next]_vars => TypeOK'
  <2> SUFFICES ASSUME TypeOK, [Next]_vars PROVE TypeOK'
    OBVIOUS
  <2> USE DEF TypeOK, File, Stamp, Goto
  <2>1. CASE Edit
    <3>1. file.stamp + 1 \in 0..MaxEdits
      BY <2>1, EditAssumption DEF Edit
    <3> QED
      BY <2>1, <3>1 DEF Edit
  <2>2. ASSUME NEW r \in Refresher, Refresh(r) PROVE TypeOK'
    BY <2>2 DEF Refresh, Unchanged, Stat, StatFails, Read, ReadFails, StoreSet,
                StoreStamp, vars
  <2>3. CASE UNCHANGED vars
    BY <2>3 DEF vars
  <2> QED
    BY <2>1, <2>2, <2>3 DEF Next
<1> QED
  BY <1>1, <1>2, PTL DEF Spec

\* A stamp taken in the past: every edit since then has given the file a later one.
Past(s) == s # None => s <= file.stamp

\* No stamp comes from the future, raced or not.
Stamped ==
    /\ Past(stamp)
    /\ \A r \in Refresher : Past(seen[r])

\* The strengthening.  While the last edit crossed no refresh, what a refresher
\* carries to its first store is the file's list, and both the cached stamp and
\* one on its way to the cache vouch for the cached set.
Vouched ==
    ~raced =>
        /\ stamp = file.stamp => set = file.listed
        /\ \A r \in Refresher :
              /\ pc[r] = "store" => text[r] = file.listed
              /\ pc[r] = "stamp" /\ seen[r] = file.stamp => set = file.listed

VouchInv == Stamped /\ Vouched

\* The facts about stamps the steps below need.
LEMMA StampTypes ==
    ASSUME TypeOK
    PROVE  /\ file.stamp \in Nat /\ file.stamp # None
           /\ stamp # None => stamp \in Nat
           /\ \A r \in Refresher : seen[r] # None => seen[r] \in Nat
BY NoneAssumption, EditAssumption DEF TypeOK, File, Stamp

\* An edit outdates every stamp; if nobody is about to store, nobody carries
\* an old list.
LEMMA EditVouched ==
    ASSUME TypeOK, VouchInv, Edit
    PROVE  VouchInv'
<1> USE DEF VouchInv, Stamped, Past
<1>1. /\ file'.stamp = file.stamp + 1
      /\ raced' = \E r \in Refresher : pc[r] = "store"
      /\ UNCHANGED <<set, stamp, pc, seen, text>>
  BY DEF Edit
<1>2. stamp # file'.stamp /\ \A r \in Refresher : seen[r] # file'.stamp
  <2>1. \A s : Past(s) /\ (s # None => s \in Nat) => s # file.stamp + 1
    BY StampTypes, NoneAssumption
  <2> QED
    BY <1>1, <2>1, StampTypes
<1>3. Stamped'
  BY <1>1, StampTypes
<1>4. Vouched'
  BY <1>1, <1>2 DEF Vouched
<1> QED
  BY <1>3, <1>4

\* One step of a refresher, whatever the others are doing.
LEMMA RefreshVouched ==
    ASSUME TypeOK, VouchInv, NEW r \in Refresher, Refresh(r)
    PROVE  VouchInv'
<1> USE DEF TypeOK, VouchInv, Stamped, Vouched, Past, Goto
<1>0. /\ file.stamp \in Nat /\ file.stamp # None
      /\ stamp # None => stamp \in Nat
      /\ \A q \in Refresher : seen[q] # None => seen[q] \in Nat
  BY StampTypes
<1>1. CASE Unchanged(r)
  BY <1>1 DEF Unchanged, vars
<1>2. CASE Stat(r)
  BY <1>2, <1>0 DEF Stat
<1>3. CASE StatFails(r)
  BY <1>3, <1>0 DEF StatFails
<1>4. CASE Read(r)
  BY <1>4 DEF Read
<1>5. CASE ReadFails(r)
  BY <1>5 DEF ReadFails
<1>6. CASE StoreSet(r)
  BY <1>6 DEF StoreSet
<1>7. CASE StoreStamp(r)
  BY <1>7 DEF StoreStamp
<1> QED
  BY <1>1, <1>2, <1>3, <1>4, <1>5, <1>6, <1>7 DEF Refresh

LEMMA VouchCorrect == Spec => []VouchInv
<1>1. Init => VouchInv
  BY NoneAssumption, EditAssumption DEF Init, VouchInv, Stamped, Vouched, Past
<1>2. TypeOK /\ VouchInv /\ [Next]_vars => VouchInv'
  <2> SUFFICES ASSUME TypeOK, VouchInv, [Next]_vars PROVE VouchInv'
    OBVIOUS
  <2>1. CASE UNCHANGED vars
    BY <2>1 DEF VouchInv, Stamped, Vouched, Past, vars
  <2> QED
    BY <2>1, EditVouched, RefreshVouched DEF Next
<1> QED
  BY <1>1, <1>2, TypeCorrect, PTL DEF Spec

\* However many refreshers cross each other, a cached stamp that says
\* "unchanged" vouches for the cached set, unless the last edit fell between
\* somebody's read and store: what the Hub loses, it loses to that one window.
THEOREM UnracedStampVouches == Spec => []StampVouchesForSet
<1>1. VouchInv => StampVouchesForSet
  BY DEF VouchInv, Vouched, StampVouchesForSet
<1> QED
  BY <1>1, VouchCorrect, PTL

\* Nothing but the file's present list enters the set, unless an edit was raced.
THEOREM SetOnlyFollowsFile == Spec => SetFollowsFile
<1>1. TypeOK /\ VouchInv /\ [Next]_vars => [set' \in {set, file.listed} \/ raced]_vars
  <2> SUFFICES ASSUME TypeOK, VouchInv, [Next]_vars, ~raced
               PROVE  set' \in {set, file.listed}
    OBVIOUS
  <2>1. ASSUME NEW r \in Refresher, StoreSet(r) PROVE set' \in {set, file.listed}
    BY <2>1 DEF StoreSet, VouchInv, Vouched
  <2>2. CASE UNCHANGED set
    BY <2>2
  <2> QED
    BY <2>1, <2>2 DEF Next, Edit, Refresh, Unchanged, Stat, StatFails, Read,
                     ReadFails, StoreStamp, vars
<1> QED
  BY <1>1, TypeCorrect, VouchCorrect, PTL DEF Spec, SetFollowsFile

=============================================================================
