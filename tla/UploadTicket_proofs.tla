------------------------- MODULE UploadTicket_proofs -------------------------
(***************************************************************************)
(* The results of an upload ticket are true, final and stored by one       *)
(* executor, for any number of items and of concurrent requests and for    *)
(* any number of disconnected clients, failed writes and restarts.         *)
(***************************************************************************)
EXTENDS UploadTicket, TLAPS

\* The locations at which a request or its task holds the transition lock.
Holding == {"admit", "revoke", "giving up", "settling", "dropping", "cancelling"}

\* The locations at which it works on one item.
OnItem == {"begin", "admit", "revoke", "running", "unsure", "giving up", "settle",
           "settling", "drop", "dropping"}

\* Whoever will store the result of an item in progress.
Owns(r) == Executing(r) \/ pc[r] \in {"unsure", "giving up"}

Owned(p) == \E r \in Requests : Owns(r) /\ path[r] = p
RunningOn(p) == \E r \in Requests : pc[r] = "running" /\ path[r] = p

\* What a restart may find on disk for an item.
OnDisk(p) == {record[p]} \cup undo[p]

(***************************************************************************)
(* The inductive invariant.                                                *)
(***************************************************************************)

\* The transition lock has the holder its requests and the recovery say it has,
\* and a ticket that is being retired is left alone by all of them.
LockHolders ==
    /\ \A r \in Requests : pc[r] \in Holding <=> lock = r
    /\ rec.at = "confirming" <=> lock = Recovery
    /\ ticket # "Active" => lock = Free /\ \A r \in Requests : pc[r] = "idle"

\* What a critical section found under the lock holds until the lock is released,
\* but for an administrator who cancels the items that are still Pending.
DecidedAt(r) ==
    /\ pc[r] \in OnItem => path[r] \in Paths
    /\ pc[r] = "admit" => mem[path[r]] \in {"Pending", "Failed", "Cancelled"}
    /\ pc[r] = "revoke" => mem[path[r]] = "Cancelled"
    /\ pc[r] = "cancelling" =>
          /\ todo[r] # {}
          /\ \A p \in todo[r] : mem[p] \in {"Pending", "Failed", "Cancelled"}

Decided == \A r \in Requests : DecidedAt(r)

\* The item of an owner, executing or giving up, is in progress and is its own;
\* without a disconnected client an item in progress always has an owner.
OwnedAt(r) == Owns(r) => mem[path[r]] = "InProgress"

Owners ==
    /\ \A r \in Requests : OwnedAt(r)
    /\ \A r, other \in Requests :
          Owns(r) /\ Owns(other) /\ path[r] = path[other] => r = other
    /\ drops = 0 => InProgressHasOwner

\* What is about to be stored is true: an upload begins on an item that changed
\* nothing, and a verdict of the storage or of the recovery is that of `truth'.
VerdictAt(r) ==
    /\ pc[r] \in {"running", "unsure", "giving up"} => truth[path[r]] = "no"
    /\ pc[r] \in {"settle", "settling"} =>
          /\ result[r] \in {"Complete", "Failed", "Unknown"}
          /\ result[r] = "Complete" => truth[path[r]] = "yes"
          /\ result[r] = "Failed" => truth[path[r]] = "no"

RecoveryVerdict ==
    rec.at # "idle" =>
        /\ rec.path \in Paths /\ mem[rec.path] = "Unknown"
        /\ truth[rec.path] # "open"
        /\ rec.status = IF truth[rec.path] = "yes" THEN "Complete" ELSE "Failed"

Verdicts == (\A r \in Requests : VerdictAt(r)) /\ RecoveryVerdict

\* Nothing a restart may find claims more than what happened.
DiskIsTrue ==
    \A p \in Paths : \A s \in OnDisk(p) :
        /\ s = "Complete" => truth[p] = "yes"
        /\ s = "Failed" => truth[p] = "no" /\ ~RunningOn(p)

\* A write whose request is gone can only take back an item nobody executes.
LateIsHarmless ==
    /\ drops = 0 => late = {}
    /\ \A w \in late :
          /\ w.status \in {"InProgress", "Cancelled", "Failed"}
          /\ w.status = "Failed" =>
                /\ truth[w.path] = "no" /\ mem[w.path] = "InProgress"
                /\ ~Owned(w.path)

\* A restart does not forget an upload that changed the storage, or may have.
DiskRemembers ==
    drops = 0 /\ ticket = "Active" =>
        \A p \in Paths :
            mem[p] # "Cancelled" /\ (truth[p] # "no" \/ RunningOn(p)) =>
                OnDisk(p) \subseteq {"InProgress", "Unknown", "Complete"}

IInv ==
    /\ TypeOK /\ LockHolders /\ Decided /\ Owners /\ Verdicts
    /\ ReportsTruth /\ DiskIsTrue /\ LateIsHarmless /\ DiskRemembers

-----------------------------------------------------------------------------
(* What the model's operators do to the state *)

IndexTyped ==
    /\ dir \in BOOLEAN /\ manifest \in BOOLEAN
    /\ record \in [Paths -> Status \cup {Absent}]
    /\ undo \in [Paths -> SUBSET (Status \cup {Absent})]
    /\ faults \in 0..MaxFaults

TaskTyped ==
    /\ pc \in [Requests -> Locations]
    /\ path \in [Requests -> Paths \cup {NoPath}]
    /\ todo \in [Requests -> SUBSET Paths]
    /\ result \in [Requests -> Status]

RegistryTyped ==
    /\ mem \in [Paths -> Status]
    /\ expired \in BOOLEAN /\ bound \in BOOLEAN /\ restored \in BOOLEAN
    /\ ticket \in {"Active", "Pending", "Cleaning", "gone"}
    /\ late \subseteq LateWrites
    /\ lock \in Requests \cup {Recovery, Free}
    /\ rec \in Confirmations
    /\ truth \in [Paths -> {"no", "yes", "open"}]
    /\ drops \in 0..MaxDrops /\ crashes \in 0..MaxCrashes

\* The type invariant has three parts, which most steps touch one at a time.
LEMMA TypeParts == TypeOK <=> IndexTyped /\ TaskTyped /\ RegistryTyped
BY DEF TypeOK, IndexTyped, TaskTyped, RegistryTyped

\* A record that was written, or was not, leaves a well-typed index.
LEMMA WriteIsTyped ==
    ASSUME IndexTyped, NEW p \in Paths, NEW s \in Status,
           Written(p, s) \/ NotWritten
    PROVE  IndexTyped'
<1>1. CASE Confirmed(p, s)
  BY <1>1 DEF IndexTyped, Confirmed
<1>2. CASE Unconfirmed(p, s)
  BY <1>2, TicketAssumption DEF IndexTyped, Unconfirmed, Fault
<1>3. CASE NotWritten
  BY <1>3, TicketAssumption DEF IndexTyped, NotWritten, Fault, index
<1> QED
  BY <1>1, <1>2, <1>3 DEF Written

\* A write may leave its record on disk, and no other that was not there before.
LEMMA WriteOnDisk ==
    ASSUME IndexTyped, NEW p \in Paths, NEW s \in Status,
           Written(p, s) \/ NotWritten, NEW q \in Paths
    PROVE  OnDisk(q)' \subseteq OnDisk(q) \cup (IF q = p THEN {s} ELSE {})
<1>1. CASE Confirmed(p, s)
  BY <1>1 DEF IndexTyped, Confirmed, OnDisk
<1>2. CASE Unconfirmed(p, s)
  <2>1. q # p => record'[q] = record[q] /\ undo'[q] = undo[q]
    BY <1>2 DEF IndexTyped, Unconfirmed
  <2>2. q = p => record'[q] = s /\ undo'[q] = undo[q] \cup {record[q]}
    BY <1>2 DEF IndexTyped, Unconfirmed
  <2> QED
    BY <2>1, <2>2 DEF OnDisk
<1>3. CASE NotWritten
  BY <1>3 DEF NotWritten, index, OnDisk
<1> QED
  BY <1>1, <1>2, <1>3 DEF Written

\* A confirmed write leaves nothing else of its item.
LEMMA ConfirmedOnDisk ==
    ASSUME IndexTyped, NEW p \in Paths, NEW s \in Status, Confirmed(p, s)
    PROVE  OnDisk(p)' = {s}
BY DEF IndexTyped, Confirmed, OnDisk

\* What is on disk are records.
LEMMA OnDiskTyped ==
    ASSUME IndexTyped, NEW p \in Paths
    PROVE  OnDisk(p) \subseteq Status \cup {Absent}
BY DEF IndexTyped, OnDisk

\* A task that leaves, or goes to another location, is well typed.
LEMMA MoveIsTyped ==
    ASSUME TaskTyped, NEW r \in Requests, NEW next \in Locations,
           Leave(r) \/ Goto(r, next)
    PROVE  TaskTyped'
<1>1. CASE Leave(r)
  BY <1>1 DEF TaskTyped, Leave, Locations, Status
<1>2. CASE Goto(r, next)
  BY <1>2 DEF TaskTyped, Goto
<1> QED
  BY <1>1, <1>2

\* A result in the registry, whatever it is.
LEMMA StoreIsTyped ==
    ASSUME RegistryTyped, NEW p \in Paths, NEW s \in Status, Store(p, s)
    PROVE  /\ mem' \in [Paths -> Status] /\ mem' = [mem EXCEPT ![p] = s]
           /\ expired' \in BOOLEAN /\ bound' \in BOOLEAN
BY DEF RegistryTyped, Store, Prolonged, HasRecoveryWork, NeedsRecovery

\* The type invariant is preserved by every step.
LEMMA TypeStep == TypeOK /\ Decided /\ Verdicts /\ [Next]_vars => TypeOK'
<1> SUFFICES ASSUME TypeOK, Decided, Verdicts, [Next]_vars
             PROVE  IndexTyped' /\ TaskTyped' /\ RegistryTyped'
  BY DEF TypeOK, IndexTyped, TaskTyped, RegistryTyped
<1> IndexTyped /\ TaskTyped /\ RegistryTyped
  BY TypeParts
<1>1. ASSUME UNCHANGED index, UNCHANGED faults
      PROVE  IndexTyped'
  BY <1>1 DEF IndexTyped, index
<1>2. ASSUME UNCHANGED task
      PROVE  TaskTyped'
  BY <1>2 DEF TaskTyped, task
<1>3. ASSUME UNCHANGED item, UNCHANGED <<ticket, restored, late, rec, truth, drops,
             crashes>>, lock' \in Requests \cup {Recovery, Free}
      PROVE  RegistryTyped'
  BY <1>3 DEF RegistryTyped, item
<1>4. ASSUME NEW r \in Requests, NEW p \in Paths, Begin(r, p)
      PROVE  IndexTyped' /\ TaskTyped' /\ RegistryTyped'
  BY <1>1, <1>3, <1>4 DEF Begin, TaskTyped, RegistryTyped, Locations
<1>5. ASSUME NEW r \in Requests, NEW chosen \in SUBSET Paths, Cancel(r, chosen)
      PROVE  IndexTyped' /\ TaskTyped' /\ RegistryTyped'
  BY <1>1, <1>3, <1>5 DEF Cancel, TaskTyped, RegistryTyped, Locations
<1>6. ASSUME NEW r \in Requests, Admission(r)
      PROVE  IndexTyped' /\ TaskTyped' /\ RegistryTyped'
  <2>1. CASE Decide(r)
    BY <1>1, <1>3, <2>1, MoveIsTyped DEF Decide, Release, Locations
  <2>2. CASE AdmissionFails(r)
    <3>1. path[r] \in Paths
      BY <2>2 DEF AdmissionFails, Decided, DecidedAt, OnItem
    <3> QED
      BY <1>3, <2>2, <3>1, WriteIsTyped, MoveIsTyped
         DEF AdmissionFails, Release, Status, Locations
  <2>3. CASE Admitted(r)
    <3>1. path[r] \in Paths
      BY <2>3 DEF Admitted, Decided, DecidedAt, OnItem
    <3>2. IndexTyped'
      BY <2>3, <3>1, WriteIsTyped DEF Admitted, Written, Status
    <3>3. TaskTyped'
      BY <2>3, MoveIsTyped DEF Admitted, Started, Locations
    <3>4. CASE mem[path[r]] = "Cancelled"
      BY <1>3, <2>3, <3>2, <3>3, <3>4 DEF Admitted, RegistryTyped
    <3>5. CASE mem[path[r]] # "Cancelled"
      BY <2>3, <3>1, <3>2, <3>3, <3>5
         DEF Admitted, Started, Prolonged, RegistryTyped, Status
    <3> QED
      BY <3>4, <3>5
  <2>4. CASE Revoked(r)
    <3>1. path[r] \in Paths
      BY <2>4 DEF Revoked, Decided, DecidedAt, OnItem
    <3> QED
      BY <1>3, <2>4, <3>1, WriteIsTyped, MoveIsTyped
         DEF Revoked, Release, Status, Locations
  <2> QED
    BY <1>6, <2>1, <2>2, <2>3, <2>4 DEF Admission
<1>7. ASSUME NEW r \in Requests, Execution(r)
      PROVE  IndexTyped' /\ TaskTyped' /\ RegistryTyped'
  <2>1. ASSUME NEW outcome \in Outcomes, UploadEnds(r, outcome)
        PROVE  IndexTyped' /\ TaskTyped' /\ RegistryTyped'
    <3>1. TaskTyped'
      BY <2>1 DEF UploadEnds, TaskTyped, Locations, Classified, Outcomes, Status
    <3> QED
      BY <1>1, <2>1, <3>1 DEF UploadEnds, RegistryTyped, item
  <2>2. CASE Interrupted(r)
    <3>1. IndexTyped'
      BY <2>2, TicketAssumption DEF Interrupted, Fault, IndexTyped, index
    <3>2. TaskTyped'
      BY <2>2 DEF Interrupted, TaskTyped, Locations
    <3> QED
      BY <2>2, <3>1, <3>2 DEF Interrupted, RegistryTyped, item
  <2>3. CASE Settle(r)
    <3>1. TaskTyped'
      BY <2>3, MoveIsTyped DEF Settle, Locations
    <3> QED
      BY <1>1, <1>3, <2>3, <3>1 DEF Settle, RegistryTyped
  <2>4. CASE Settled(r)
    <3> DEFINE s == IF pc[r] = "settling" THEN result[r] ELSE "Failed"
    <3>1. path[r] \in Paths /\ s \in Status
      BY <2>4 DEF Settled, Decided, DecidedAt, OnItem, TaskTyped, Status
    <3>2. Store(path[r], s)
      BY <2>4 DEF Settled
    <3>3. RegistryTyped'
      BY <2>4, <3>1, <3>2, StoreIsTyped DEF Settled, Release, RegistryTyped
    <3> QED
      BY <2>4, <3>1, <3>3, WriteIsTyped, MoveIsTyped DEF Settled, Release, Locations
  <2>5. CASE Drop(r)
    <3>1. TaskTyped'
      BY <2>5, MoveIsTyped DEF Drop, Locations
    <3> QED
      BY <1>1, <1>3, <2>5, <3>1 DEF Drop, RegistryTyped
  <2>6. CASE Dropped(r)
    <3>1. path[r] \in Paths
      BY <2>6 DEF Dropped, Decided, DecidedAt, OnItem
    <3>2. RegistryTyped'
      BY <2>6, <3>1 DEF Dropped, Release, RegistryTyped, Status
    <3> QED
      BY <2>6, <3>1, <3>2, WriteIsTyped, MoveIsTyped
         DEF Dropped, Release, Status, Locations
  <2> QED
    BY <1>7, <2>1, <2>2, <2>3, <2>4, <2>5, <2>6 DEF Execution
<1>8. ASSUME NEW r \in Requests, Cancellation(r)
      PROVE  IndexTyped' /\ TaskTyped' /\ RegistryTyped'
  <2>1. CASE CancelDecides(r)
    <3>1. TaskTyped'
      BY <2>1, MoveIsTyped DEF CancelDecides, Release, TaskTyped, Locations
    <3> QED
      BY <1>1, <2>1, <3>1 DEF CancelDecides, Release, RegistryTyped
  <2>2. CASE CancelFails(r)
    <3>1. IndexTyped'
      BY <2>2, TicketAssumption DEF CancelFails, NotWritten, Fault, IndexTyped, index
    <3> QED
      BY <1>3, <2>2, <3>1, MoveIsTyped DEF CancelFails, Release, Locations
  <2>3. ASSUME NEW p \in Paths, CancelOne(r, p)
        PROVE  IndexTyped' /\ TaskTyped' /\ RegistryTyped'
    <3>1. IndexTyped'
      BY <2>3, WriteIsTyped DEF CancelOne, Status
    <3>2. TaskTyped'
      BY <2>3, MoveIsTyped DEF CancelOne, Release, TaskTyped, Locations
    <3> QED
      BY <2>3, <3>1, <3>2 DEF CancelOne, Release, Prolonged, RegistryTyped, Status
  <2> QED
    BY <1>8, <2>1, <2>2, <2>3 DEF Cancellation
<1>9. ASSUME NEW r \in Requests, Disconnect(r)
      PROVE  IndexTyped' /\ TaskTyped' /\ RegistryTyped'
  <2>1. drops' \in 1..MaxDrops
    <3>1. drops \in 0..MaxDrops /\ drops < MaxDrops /\ drops' = drops + 1
      BY <1>9 DEF Disconnect, RegistryTyped
    <3> QED
      BY <3>1, TicketAssumption
  <2>2. InFlight(r) \subseteq [path : Paths, status : Status]
    <3>1. pc[r] \in {"admit", "revoke", "giving up"} => path[r] \in Paths
      BY DEF Decided, DecidedAt, OnItem
    <3>2. todo[r] \subseteq Paths
      BY DEF TaskTyped
    <3>3. CASE pc[r] \in {"admit", "revoke", "giving up"}
      <4>1. {"InProgress", "Cancelled", "Failed"} \subseteq Status
        BY DEF Status
      <4>2. PICK s \in Status : InFlight(r) = {[path |-> path[r], status |-> s]}
        BY <3>3, <4>1 DEF InFlight
      <4>3. [path |-> path[r], status |-> s] \in [path : Paths, status : Status]
        BY <3>1, <3>3
      <4> QED
        BY <4>2, <4>3
    <3>4. CASE pc[r] = "cancelling"
      <4>1. InFlight(r) = [path : todo[r], status : {"Cancelled"}]
        BY <3>4 DEF InFlight
      <4> QED
        BY <3>2, <4>1 DEF Status
    <3>5. CASE pc[r] \notin {"admit", "revoke", "giving up", "cancelling"}
      BY <3>5 DEF InFlight
    <3> QED
      BY <3>3, <3>4, <3>5
  <2>3. late' \subseteq LateWrites
    <3>1. CASE InFlight(r) = {}
      BY <1>9, <3>1 DEF Disconnect, RegistryTyped
    <3>2. CASE InFlight(r) # {}
      <4>1. PICK w \in InFlight(r) :
              late' = late \cup {[id |-> drops', path |-> w.path, status |-> w.status]}
        BY <1>9, <3>2 DEF Disconnect
      <4> QED
        BY <2>1, <2>2, <4>1 DEF RegistryTyped, LateWrites
    <3> QED
      BY <3>1, <3>2
  <2>4. TaskTyped'
    BY <1>9, MoveIsTyped DEF Disconnect, Locations
  <2>5. drops' \in 0..MaxDrops
    BY <2>1
  <2>6. lock' \in Requests \cup {Recovery, Free}
    BY <1>9 DEF Disconnect, RegistryTyped
  <2> QED
    BY <1>1, <1>9, <2>3, <2>4, <2>5, <2>6 DEF Disconnect, RegistryTyped, item
<1>10. ASSUME NEW w \in late, LateWrite(w)
       PROVE  IndexTyped' /\ TaskTyped' /\ RegistryTyped'
  <2>1. w.path \in Paths /\ w.status \in Status
    BY DEF RegistryTyped, LateWrites
  <2> QED
    BY <1>2, <1>10, <2>1, WriteIsTyped DEF LateWrite, RegistryTyped, item
<1>11. ASSUME NEW p \in Paths, NEW yes \in BOOLEAN, Resolve(p, yes)
       PROVE  IndexTyped' /\ TaskTyped' /\ RegistryTyped'
  BY <1>1, <1>2, <1>11 DEF Resolve, RegistryTyped, item
<1>12. CASE Confirmation
  <2>1. ASSUME NEW p \in Paths, Inspect(p)
        PROVE  IndexTyped' /\ TaskTyped' /\ RegistryTyped'
    BY <1>1, <1>2, <2>1 DEF Inspect, RegistryTyped, Confirmations, Status, item
  <2>2. CASE Confirm
    <3>1. rec' \in Confirmations
      BY <2>2 DEF Confirm, NoConfirmation, RegistryTyped, Confirmations, Status
    <3> QED
      BY <1>1, <1>2, <2>2, <3>1 DEF Confirm, RegistryTyped, item
  <2>3. CASE ConfirmEnds
    <3>1. rec.path \in Paths /\ rec.status \in Status
      BY <2>3 DEF ConfirmEnds, Verdicts, RecoveryVerdict, RegistryTyped, Confirmations
    <3>2. rec' \in Confirmations
      BY <2>3 DEF ConfirmEnds, NoConfirmation, Confirmations, Status
    <3>3. mem' \in [Paths -> Status] /\ expired' \in BOOLEAN /\ bound' \in BOOLEAN
      BY <2>3, <3>1, StoreIsTyped DEF ConfirmEnds, RegistryTyped, item
    <3> QED
      BY <1>2, <2>3, <3>1, <3>2, <3>3, WriteIsTyped DEF ConfirmEnds, RegistryTyped
  <2> QED
    BY <1>12, <2>1, <2>2, <2>3 DEF Confirmation
<1>13. CASE Cleaning
  <2>1. ASSUME NEW p \in Paths, RemoveRecord(p)
        PROVE  IndexTyped' /\ TaskTyped' /\ RegistryTyped'
    BY <1>2, <1>3, <2>1 DEF RemoveRecord, IndexTyped, RegistryTyped
  <2>2. CASE RemoveManifest
    BY <1>2, <1>3, <2>2 DEF RemoveManifest, IndexTyped, RegistryTyped
  <2>3. CASE RemoveDirectory
    BY <1>2, <1>3, <2>3 DEF RemoveDirectory, IndexTyped, RegistryTyped
  <2>4. CASE Forget
    BY <1>1, <1>2, <2>4 DEF Forget, RegistryTyped, item
  <2>5. CASE RetirementFails
    BY <1>2, <2>5, TicketAssumption
       DEF RetirementFails, Fault, IndexTyped, RegistryTyped, item, index
  <2> QED
    BY <1>13, <2>1, <2>2, <2>3, <2>4, <2>5 DEF Cleaning
<1>14. CASE Invalidate
  BY <1>1, <1>2, <1>14
     DEF Invalidate, Prolonged, HasRecoveryWork, NeedsRecovery, RegistryTyped, Status
<1>15. CASE Expire
  BY <1>1, <1>2, <1>15 DEF Expire, RegistryTyped
<1>16. CASE Retire
  BY <1>1, <1>2, <1>16 DEF Retire, RegistryTyped, item
<1>17. CASE Restart
  <2>1. PICK disk \in [Paths -> Status \cup {Absent}] :
          Load(disk)
    BY <1>17 DEF Restart
  <2>2. \A p \in Paths : AfterRestart(disk[p]) \in Status
    BY DEF AfterRestart, Status, Absent
  <2>3. IndexTyped'
    BY <1>17, <2>1 DEF Restart, Load, IndexTyped
  <2>4. TaskTyped'
    BY <1>17 DEF Restart, TaskTyped, Locations, Status
  <2>5. /\ mem' \in [Paths -> Status] /\ expired' \in BOOLEAN
        /\ ticket' \in {"Active", "Pending", "Cleaning", "gone"} /\ restored' \in BOOLEAN
    BY <2>1, <2>2 DEF Load, RegistryTyped, HasRecoveryWork, NeedsRecovery
  <2>6. truth' \in [Paths -> {"no", "yes", "open"}]
    BY <1>17 DEF Restart, RegistryTyped
  <2>7. rec' \in Confirmations
    BY <1>17 DEF Restart, NoConfirmation, Confirmations, Status
  <2>8. crashes' \in 0..MaxCrashes /\ drops' \in 0..MaxDrops
    <3>1. /\ crashes \in 0..MaxCrashes /\ crashes < MaxCrashes /\ crashes' = crashes + 1
          /\ drops' = drops /\ drops \in 0..MaxDrops
      BY <1>17 DEF Restart, RegistryTyped
    <3> QED
      BY <3>1, TicketAssumption
  <2>9. late' = {} /\ lock' = Free /\ bound' = FALSE
    BY <1>17 DEF Restart
  <2> QED
    BY <2>3, <2>4, <2>5, <2>6, <2>7, <2>8, <2>9 DEF RegistryTyped
<1>18. CASE UNCHANGED vars
  BY <1>1, <1>2, <1>18 DEF vars, index, task, RegistryTyped
<1> QED
  BY <1>4, <1>5, <1>6, <1>7, <1>8, <1>9, <1>10, <1>11, <1>12, <1>13, <1>14, <1>15,
     <1>16, <1>17, <1>18 DEF Next

-----------------------------------------------------------------------------
(* The transition lock *)

\* A request that moves to a location of its own takes, keeps or releases the lock
\* as the location demands.
LEMMA MoveKeepsHolders ==
    ASSUME TaskTyped, LockHolders, NEW r \in Requests, NEW next \in Locations,
           pc' = [pc EXCEPT ![r] = next], UNCHANGED <<rec, ticket>>,
           next = "idle" \/ pc[r] # "idle" \/ ticket = "Active",
           next \in Holding => lock \in {Free, r},
           lock' = IF next \in Holding THEN r
                   ELSE IF pc[r] \in Holding THEN Free ELSE lock
    PROVE  LockHolders'
<1>1. \A q \in Requests : pc'[q] = IF q = r THEN next ELSE pc[q]
  BY DEF TaskTyped
<1>2. r # Free /\ r # Recovery /\ Free # Recovery /\ "idle" \notin Holding
  BY TicketAssumption DEF Free, Recovery, Holding
<1>3. \A q \in Requests : pc'[q] \in Holding <=> lock' = q
  BY <1>1, <1>2, TicketAssumption DEF LockHolders
<1>4. rec'.at = "confirming" <=> lock' = Recovery
  BY <1>2 DEF LockHolders
<1>5. ticket' # "Active" => lock' = Free /\ \A q \in Requests : pc'[q] = "idle"
  BY <1>1, <1>2 DEF LockHolders
<1> QED
  BY <1>3, <1>4, <1>5 DEF LockHolders

\* The lock has the holder the locations say it has.
LEMMA LockStep ==
    TypeOK /\ LockHolders /\ Decided /\ Owners /\ [Next]_vars => LockHolders'
<1> SUFFICES ASSUME TypeOK, LockHolders, Decided, Owners, [Next]_vars
             PROVE  LockHolders'
  OBVIOUS
<1> TaskTyped
  BY TypeParts
<1>1. \A r \in Requests : /\ pc[r] # "idle" => ticket = "Active"
                          /\ pc[r] \in Holding <=> lock = r
  BY DEF LockHolders
<1>2. ASSUME UNCHANGED <<pc, lock, rec, ticket>>
      PROVE  LockHolders'
  BY <1>2 DEF LockHolders
<1>3. ASSUME NEW r \in Requests,
             (\E p \in Paths : Begin(r, p))
                \/ (\E chosen \in SUBSET Paths : Cancel(r, chosen))
      PROVE  LockHolders'
  <2>1. PICK next \in {"begin", "cancel"} : pc' = [pc EXCEPT ![r] = next]
    BY <1>3 DEF Begin, Cancel
  <2>2. pc[r] = "idle" /\ ticket = "Active" /\ UNCHANGED <<lock, rec, ticket>>
    BY <1>3 DEF Begin, Cancel, Lockable
  <2> QED
    BY <2>1, <2>2, MoveKeepsHolders DEF Holding, Locations
<1>4. ASSUME NEW r \in Requests, Admission(r)
      PROVE  LockHolders'
  <2>1. CASE Decide(r)
    BY <1>1, <2>1, MoveKeepsHolders
       DEF Decide, Goto, Release, Leave, Holding, Locations
  <2>2. CASE AdmissionFails(r) \/ Revoked(r)
    BY <1>1, <2>2, MoveKeepsHolders
       DEF AdmissionFails, Revoked, Release, Leave, Holding, Locations
  <2>3. CASE Admitted(r)
    BY <1>1, <2>3, MoveKeepsHolders DEF Admitted, Started, Goto, Holding, Locations
  <2> QED
    BY <1>4, <2>1, <2>2, <2>3 DEF Admission
<1>5. ASSUME NEW r \in Requests, Execution(r)
      PROVE  LockHolders'
  <2>1. CASE (\E outcome \in Outcomes : UploadEnds(r, outcome)) \/ Interrupted(r)
    <3>1. PICK next \in {"settle", "drop"} : pc' = [pc EXCEPT ![r] = next]
      BY <2>1 DEF UploadEnds, Interrupted
    <3>2. pc[r] = "running" /\ UNCHANGED <<lock, rec, ticket>>
      BY <2>1 DEF UploadEnds, Interrupted
    <3> QED
      BY <1>1, <3>1, <3>2, MoveKeepsHolders DEF Holding, Locations
  <2>2. CASE Settle(r)
    BY <1>1, <2>2, MoveKeepsHolders DEF Settle, Goto, Leave, Holding, Locations
  <2>3. CASE Settled(r) \/ Dropped(r)
    BY <1>1, <2>3, MoveKeepsHolders
       DEF Settled, Dropped, Release, Leave, Holding, Locations
  <2>4. CASE Drop(r)
    BY <1>1, <2>4, MoveKeepsHolders DEF Drop, Goto, Leave, Holding, Locations
  <2> QED
    BY <1>5, <2>1, <2>2, <2>3, <2>4 DEF Execution
<1>6. ASSUME NEW r \in Requests, Cancellation(r)
      PROVE  LockHolders'
  <2>1. CASE CancelDecides(r)
    BY <1>1, <2>1, MoveKeepsHolders
       DEF CancelDecides, Release, Leave, Holding, Locations
  <2>2. CASE CancelFails(r)
    BY <1>1, <2>2, MoveKeepsHolders DEF CancelFails, Release, Leave, Holding, Locations
  <2>3. ASSUME NEW p \in Paths, CancelOne(r, p)
        PROVE  LockHolders'
    <3>1. pc[r] = "cancelling" /\ UNCHANGED <<rec, ticket>>
      BY <2>3 DEF CancelOne
    <3>2. CASE todo[r] = {p}
      BY <1>1, <2>3, <3>1, <3>2, MoveKeepsHolders
         DEF CancelOne, Release, Leave, Holding, Locations
    <3>3. CASE todo[r] # {p}
      BY <1>2, <2>3, <3>1, <3>3 DEF CancelOne
    <3> QED
      BY <3>2, <3>3
  <2> QED
    BY <1>6, <2>1, <2>2, <2>3 DEF Cancellation
<1>7. ASSUME NEW r \in Requests, Disconnect(r)
      PROVE  LockHolders'
  <2>1. InFlight(r) = {} <=> pc[r] \notin Holding
    <3>1. CASE pc[r] = "cancelling"
      <4>1. PICK p : p \in todo[r]
        BY <3>1 DEF Decided, DecidedAt
      <4>2. [path |-> p, status |-> "Cancelled"] \in InFlight(r)
        BY <3>1, <4>1 DEF InFlight
      <4> QED
        BY <3>1, <4>2 DEF Holding
    <3>2. CASE pc[r] # "cancelling"
      BY <1>7, <3>2 DEF Disconnect, InFlight, Holding
    <3> QED
      BY <3>1, <3>2
  <2> QED
    BY <1>1, <1>7, <2>1, MoveKeepsHolders DEF Disconnect, Leave, Holding, Locations
<1>8. CASE Confirmation
  <2>1. ASSUME NEW p \in Paths, Inspect(p)
        PROVE  LockHolders'
    BY <2>1 DEF Inspect, LockHolders, task
  <2>2. CASE Confirm
    <3>1. rec \in Confirmations
      BY DEF TypeOK
    <3> QED
      BY <2>2, <3>1, TicketAssumption
         DEF Confirm, NoConfirmation, Lockable, LockHolders, Confirmations, task, Free,
             Recovery
  <2>3. CASE ConfirmEnds
    BY <2>3, TicketAssumption
       DEF ConfirmEnds, NoConfirmation, LockHolders, task, Free, Recovery
  <2> QED
    BY <1>8, <2>1, <2>2, <2>3 DEF Confirmation
<1>9. CASE Forget \/ RetirementFails
  BY <1>9 DEF Forget, RetirementFails, LockHolders, task
<1>10. CASE Retire
  <2>1. lock = Free
    BY <1>10 DEF Retire, Prunable
  <2>2. \A r \in Requests : ~Owns(r) \/ ticket # "Active"
    BY <1>10 DEF Retire, Prunable, Retained, HasRecoveryWork, NeedsRecovery, Owners, OwnedAt,
         IsTerminal, Decided, DecidedAt, OnItem, Owns, Executing
  <2>3. ASSUME NEW r \in Requests
        PROVE  pc[r] = "idle"
    BY <1>1, <1>10, <2>2 DEF Retire, Prunable, Users, Owns, Executing, TaskTyped, Locations
  <2> QED
    BY <1>10, <2>1, <2>3 DEF Retire, LockHolders, task
<1>11. CASE Restart
  BY <1>11, TicketAssumption
     DEF Restart, NoConfirmation, LockHolders, Holding, Free, Recovery
<1>12. CASE \/ \E w \in late : LateWrite(w)
            \/ \E p \in Paths, yes \in BOOLEAN : Resolve(p, yes)
            \/ \E p \in Paths : RemoveRecord(p)
            \/ RemoveManifest \/ RemoveDirectory \/ Invalidate \/ Expire
            \/ UNCHANGED vars
  BY <1>2, <1>12
     DEF LateWrite, Resolve, RemoveRecord, RemoveManifest, RemoveDirectory, Invalidate,
         Expire, task, vars
<1> QED
  BY <1>3, <1>4, <1>5, <1>6, <1>7, <1>8, <1>9, <1>10, <1>11, <1>12 DEF Next, Cleaning

-----------------------------------------------------------------------------
(* The step of one request, as the others see it *)

\* It changes nothing in the tasks of the others.
Others(r) ==
    \A q \in Requests \ {r} :
        pc'[q] = pc[q] /\ path'[q] = path[q] /\ todo'[q] = todo[q] /\ result'[q] = result[q]

\* A task that leaves forgets its item; one that goes on keeps it.
LEMMA LeaveEffect ==
    ASSUME TaskTyped, NEW r \in Requests, Leave(r)
    PROVE  Others(r) /\ pc'[r] = "idle"
BY DEF TaskTyped, Leave, Others

LEMMA GotoEffect ==
    ASSUME TaskTyped, NEW r \in Requests, NEW next, Goto(r, next)
    PROVE  /\ Others(r) /\ pc'[r] = next
           /\ path'[r] = path[r] /\ todo'[r] = todo[r] /\ result'[r] = result[r]
BY DEF TaskTyped, Goto, Others

\* An owner's item is one of the ticket.
LEMMA OwnersPath ==
    ASSUME Decided, NEW r \in Requests, Owns(r)
    PROVE  path[r] \in Paths
BY DEF Decided, DecidedAt, Owns, Executing, OnItem

\* A request that changes the registry under the lock, and no item that another one
\* owns, leaves what holds of the others as it was.
LEMMA OthersKept ==
    ASSUME LockHolders, Decided, Owners, Verdicts, NEW r \in Requests, Others(r),
           lock = r \/ UNCHANGED mem,
           \A q \in Requests \ {r} :
               Owns(q) => mem'[path[q]] = mem[path[q]] /\ truth'[path[q]] = truth[path[q]],
           NEW q \in Requests \ {r}
    PROVE  DecidedAt(q)' /\ OwnedAt(q)' /\ VerdictAt(q)'
<1>1. pc'[q] = pc[q] /\ path'[q] = path[q] /\ todo'[q] = todo[q] /\ result'[q] = result[q]
  BY DEF Others
<1>2. DecidedAt(q) /\ OwnedAt(q) /\ VerdictAt(q)
  BY DEF Decided, Owners, Verdicts
<1>3. DecidedAt(q)'
  <2>1. CASE lock = r
    <3>1. pc[q] \notin Holding
      BY <2>1 DEF LockHolders
    <3> QED
      BY <1>1, <1>2, <3>1 DEF DecidedAt, Holding
  <2>2. CASE UNCHANGED mem
    BY <1>1, <1>2, <2>2 DEF DecidedAt
  <2> QED
    BY <2>1, <2>2
<1>4. OwnedAt(q)'
  BY <1>1, <1>2 DEF OwnedAt, Owns, Executing
<1>5. VerdictAt(q)'
  BY <1>1, <1>2 DEF VerdictAt, Owns, Executing
<1> QED
  BY <1>3, <1>4, <1>5

\* With what holds of the request itself, everything holds that is said of requests.
LEMMA RequestStep ==
    ASSUME LockHolders, Decided, Owners, Verdicts, NEW r \in Requests, Others(r),
           lock = r \/ UNCHANGED mem,
           \A q \in Requests \ {r} :
               Owns(q) => mem'[path[q]] = mem[path[q]] /\ truth'[path[q]] = truth[path[q]],
           DecidedAt(r)', OwnedAt(r)', VerdictAt(r)',
           Owns(r)' => \A q \in Requests \ {r} : Owns(q) => path[q] # path'[r]
    PROVE  /\ Decided'
           /\ \A q \in Requests : OwnedAt(q)'
           /\ \A q, other \in Requests :
                 Owns(q)' /\ Owns(other)' /\ path'[q] = path'[other] => q = other
           /\ \A q \in Requests : VerdictAt(q)'
<1>1. \A q \in Requests : DecidedAt(q)' /\ OwnedAt(q)' /\ VerdictAt(q)'
  BY OthersKept
<1>2. \A q \in Requests \ {r} : (Owns(q)' <=> Owns(q)) /\ path'[q] = path[q]
  BY DEF Others, Owns, Executing
<1>3. ASSUME NEW q \in Requests, NEW other \in Requests,
             Owns(q)', Owns(other)', path'[q] = path'[other], q # other
      PROVE  FALSE
  <2>1. CASE q = r \/ other = r
    BY <1>2, <1>3, <2>1
  <2>2. CASE q # r /\ other # r
    BY <1>2, <1>3, <2>2 DEF Owners
  <2> QED
    BY <2>1, <2>2
<1> QED
  BY <1>1, <1>3 DEF Decided

\* An item in progress keeps its owner: it is the one it had, or its result is stored,
\* or the client of the owner is gone.
LEMMA OwnerRemains ==
    ASSUME Owners, NEW r \in Requests, Others(r),
           drops' = 0 => drops = 0, UNCHANGED ticket,
           \A p \in Paths : mem'[p] = "InProgress" /\ mem[p] # "InProgress" =>
                                Owns(r)' /\ path'[r] = p,
           Owns(r) => \/ Owns(r)' /\ path'[r] = path[r]
                      \/ mem'[path[r]] # "InProgress" \/ drops' # 0
    PROVE  drops' = 0 => InProgressHasOwner'
<1> SUFFICES ASSUME drops' = 0, NEW p \in Paths, ticket # "gone", mem'[p] = "InProgress"
             PROVE  \E q \in Requests : path'[q] = p /\ Owns(q)'
  BY DEF InProgressHasOwner, Owns
<1>1. CASE mem[p] # "InProgress"
  BY <1>1
<1>2. CASE mem[p] = "InProgress"
  <2>1. PICK q \in Requests : path[q] = p /\ Owns(q)
    BY <1>2 DEF Owners, InProgressHasOwner, Owns
  <2>2. CASE q = r
    BY <2>1, <2>2
  <2>3. CASE q # r
    BY <2>1, <2>3 DEF Others, Owns, Executing
  <2> QED
    BY <2>2, <2>3
<1> QED
  BY <1>1, <1>2

\* So it does when no task moves and no item becomes one in progress.
LEMMA HasOwnerKept ==
    ASSUME UNCHANGED task, ticket' # "gone" => ticket # "gone", InProgressHasOwner,
           \A p \in Paths : mem'[p] = "InProgress" => mem[p] = "InProgress"
    PROVE  InProgressHasOwner'
<1> SUFFICES ASSUME NEW p \in Paths, ticket # "gone", mem[p] = "InProgress"
             PROVE  \E r \in Requests : path'[r] = p /\ Owns(r)'
  BY DEF InProgressHasOwner, Owns
<1>1. PICK r \in Requests : path[r] = p /\ Owns(r)
  BY DEF InProgressHasOwner, Owns
<1>2. path'[r] = p /\ Owns(r)'
  BY <1>1 DEF task, Owns, Executing
<1> QED
  BY <1>2

\* The recovery's verdict holds while its item stays Unknown and decided.
LEMMA VerdictKept ==
    ASSUME RecoveryVerdict, UNCHANGED rec,
           \A p \in Paths : mem[p] = "Unknown" => mem'[p] = mem[p],
           \A p \in Paths : mem[p] = "Unknown" /\ truth[p] # "open" => truth'[p] = truth[p]
    PROVE  RecoveryVerdict'
BY DEF RecoveryVerdict

-----------------------------------------------------------------------------
(* The registry *)

Registry == Decided /\ Owners /\ Verdicts /\ ReportsTruth

\* A request that moves on without touching the registry or the storage.
LEMMA MoveKeepsRegistry ==
    ASSUME LockHolders, Registry, NEW r \in Requests, Others(r),
           UNCHANGED <<mem, truth, rec, ticket>>, drops' = 0 => drops = 0,
           DecidedAt(r)', VerdictAt(r)',
           Owns(r)' => Owns(r) /\ path'[r] = path[r],
           Owns(r) => Owns(r)' \/ drops' # 0
    PROVE  Registry'
<1>1. OwnedAt(r)'
  BY DEF OwnedAt, Registry, Owners
<1>2. Owns(r)' => \A q \in Requests \ {r} : Owns(q) => path[q] # path'[r]
  BY DEF Registry, Owners
<1>3. /\ Decided'
      /\ \A q \in Requests : OwnedAt(q)' /\ VerdictAt(q)'
      /\ \A q, other \in Requests :
            Owns(q)' /\ Owns(other)' /\ path'[q] = path'[other] => q = other
  BY <1>1, <1>2, RequestStep DEF Registry
<1>4. drops' = 0 => InProgressHasOwner'
  BY OwnerRemains DEF Registry
<1>5. RecoveryVerdict'
  BY VerdictKept DEF Registry, Verdicts
<1>6. ReportsTruth'
  BY DEF Registry, ReportsTruth
<1> QED
  BY <1>3, <1>4, <1>5, <1>6 DEF Registry, Owners, Verdicts

\* While somebody owns an item the ticket is retained, so the owner gets the lock.
LEMMA OwnersGetTheLock ==
    ASSUME LockHolders, Decided, Owners, NEW r \in Requests, Owns(r)
    PROVE  Lockable
<1>1. ticket = "Active"
  BY DEF LockHolders, Owns, Executing
<1>2. mem[path[r]] = "InProgress" /\ path[r] \in Paths
  BY OwnersPath DEF Owners, OwnedAt
<1> QED
  BY <1>1, <1>2 DEF Lockable, Prunable, Retained, HasRecoveryWork, NeedsRecovery

\* A request leaves the ticket alone.
LEMMA LeaveKeepsRegistry ==
    ASSUME TaskTyped, LockHolders, Registry, NEW r \in Requests, Leave(r),
           UNCHANGED <<mem, truth, rec, ticket>>, drops' = 0 => drops = 0,
           Owns(r) => drops' # 0
    PROVE  Registry'
<1>1. Others(r) /\ pc'[r] = "idle"
  BY LeaveEffect
<1>2. DecidedAt(r)' /\ VerdictAt(r)' /\ ~Owns(r)'
  BY <1>1 DEF DecidedAt, VerdictAt, Owns, Executing, OnItem
<1> QED
  BY <1>1, <1>2, MoveKeepsRegistry

\* A request that stores s for its item p, which nobody else owns: it owned it, or it
\* is about to.
LEMMA StoreKeepsRegistry ==
    ASSUME TypeOK, LockHolders, Registry, NEW r \in Requests, Others(r), lock = r,
           NEW p \in Paths, NEW s \in Status \ {"Pending"}, mem' = [mem EXCEPT ![p] = s],
           UNCHANGED <<truth, rec, ticket, drops>>,
           mem[p] # "Unknown", \A q \in Requests \ {r} : Owns(q) => path[q] # p,
           s = "Complete" => truth[p] = "yes", s = "Failed" => truth[p] = "no",
           DecidedAt(r)', VerdictAt(r)', Owns(r) => path[r] = p,
           Owns(r)' <=> s = "InProgress", Owns(r)' => path'[r] = p
    PROVE  Registry'
<1>1. /\ mem'[p] = s /\ \A q \in Paths \ {p} : mem'[q] = mem[q]
  BY DEF TypeOK
<1>2. \A q \in Requests \ {r} :
          Owns(q) => mem'[path[q]] = mem[path[q]] /\ truth'[path[q]] = truth[path[q]]
  BY <1>1, OwnersPath DEF Registry
<1>3. OwnedAt(r)'
  BY <1>1 DEF OwnedAt
<1>4. /\ Decided'
      /\ \A q \in Requests : OwnedAt(q)' /\ VerdictAt(q)'
      /\ \A q, other \in Requests :
            Owns(q)' /\ Owns(other)' /\ path'[q] = path'[other] => q = other
  BY <1>2, <1>3, RequestStep DEF Registry
<1>5. drops' = 0 => InProgressHasOwner'
  BY <1>1, OwnerRemains DEF Registry
<1>6. RecoveryVerdict'
  BY <1>1, VerdictKept DEF Registry, Verdicts
<1>7. ReportsTruth'
  BY <1>1 DEF Registry, ReportsTruth
<1> QED
  BY <1>4, <1>5, <1>6, <1>7 DEF Registry, Owners, Verdicts

\* A request whose upload ended, one way or another, on the item it owns.
LEMMA EndKeepsRegistry ==
    ASSUME TypeOK, LockHolders, Registry, NEW r \in Requests, Others(r),
           pc[r] = "running", pc'[r] \in {"settle", "drop"}, path'[r] = path[r],
           NEW t \in {"no", "yes", "open"}, truth' = [truth EXCEPT ![path[r]] = t],
           UNCHANGED <<mem, rec, ticket, drops>>, VerdictAt(r)'
    PROVE  Registry'
<1>1. Owns(r) /\ Owns(r)' /\ path[r] \in Paths /\ mem[path[r]] = "InProgress"
  BY OwnersPath DEF Owns, Executing, Registry, Owners, OwnedAt
<1>2. \A q \in Paths \ {path[r]} : truth'[q] = truth[q]
  BY DEF TypeOK
<1>3. \A q \in Requests \ {r} : Owns(q) => path[q] # path[r] /\ truth'[path[q]] = truth[path[q]]
  BY <1>1, <1>2, OwnersPath DEF Registry, Owners
<1>4. OwnedAt(r)' /\ DecidedAt(r)'
  BY <1>1 DEF OwnedAt, DecidedAt
<1>5. /\ Decided'
      /\ \A q \in Requests : OwnedAt(q)' /\ VerdictAt(q)'
      /\ \A q, other \in Requests :
            Owns(q)' /\ Owns(other)' /\ path'[q] = path'[other] => q = other
  BY <1>3, <1>4, RequestStep DEF Registry
<1>6. drops' = 0 => InProgressHasOwner'
  BY <1>1, OwnerRemains DEF Registry
<1>7. RecoveryVerdict'
  BY <1>1, <1>2, VerdictKept DEF Registry, Verdicts
<1>8. ReportsTruth'
  BY <1>1, <1>2 DEF Registry, ReportsTruth
<1> QED
  BY <1>5, <1>6, <1>7, <1>8 DEF Registry, Owners, Verdicts

\* The registry and what requests and the recovery are about to store stay true.
LEMMA RegistryStep ==
    TypeOK /\ LockHolders /\ Registry /\ DiskIsTrue /\ [Next]_vars => Registry'
<1> SUFFICES ASSUME TypeOK, LockHolders, Registry, DiskIsTrue, [Next]_vars
             PROVE  Registry'
  OBVIOUS
<1> TaskTyped
  BY TypeParts
<1> USE DEF Registry
<1>1. \A r \in Requests : DecidedAt(r) /\ OwnedAt(r) /\ VerdictAt(r)
  BY DEF Decided, Owners, Verdicts
<1>2. \A r \in Requests : pc[r] \in Holding => lock = r
  BY DEF LockHolders
<1>3. ASSUME UNCHANGED task, UNCHANGED mem, UNCHANGED <<truth, rec, drops>>,
             ticket' # "gone" => ticket # "gone"
      PROVE  Registry'
  <2>1. \A r \in Requests : /\ Owns(r)' <=> Owns(r)
                            /\ DecidedAt(r)' /\ OwnedAt(r)' /\ VerdictAt(r)'
    BY <1>1, <1>3 DEF task, Owns, Executing, DecidedAt, OwnedAt, VerdictAt
  <2>2. InProgressHasOwner => InProgressHasOwner'
    BY <1>3, <2>1 DEF InProgressHasOwner, Owns, task
  <2> QED
    BY <1>3, <2>1, <2>2
       DEF Decided, Owners, Verdicts, RecoveryVerdict, ReportsTruth, task
<1>4. ASSUME NEW r \in Requests, NEW p \in Paths, Begin(r, p)
      PROVE  Registry'
  <2>1. Others(r) /\ pc[r] = "idle" /\ pc'[r] = "begin" /\ path'[r] = p
    BY <1>4 DEF Begin, TaskTyped, Others
  <2>2. DecidedAt(r)' /\ VerdictAt(r)' /\ ~Owns(r)' /\ ~Owns(r)
    BY <2>1 DEF DecidedAt, VerdictAt, Owns, Executing
  <2> QED
    BY <1>4, <2>1, <2>2, MoveKeepsRegistry DEF Begin, item
<1>5. ASSUME NEW r \in Requests, NEW chosen \in SUBSET Paths, Cancel(r, chosen)
      PROVE  Registry'
  <2>1. Others(r) /\ pc[r] = "idle" /\ pc'[r] = "cancel"
    BY <1>5 DEF Cancel, TaskTyped, Others
  <2>2. DecidedAt(r)' /\ VerdictAt(r)' /\ ~Owns(r)' /\ ~Owns(r)
    BY <2>1 DEF DecidedAt, VerdictAt, Owns, Executing, OnItem
  <2> QED
    BY <1>5, <2>1, <2>2, MoveKeepsRegistry DEF Cancel, item
<1>6. ASSUME NEW r \in Requests, Admission(r)
      PROVE  Registry'
  <2>1. CASE Decide(r)
    <3>1. pc[r] = "begin" /\ ~Owns(r) /\ UNCHANGED <<mem, truth, rec, ticket, drops>>
      BY <2>1 DEF Decide, Owns, Executing, item
    <3>2. CASE Leave(r)
      BY <3>1, <3>2, LeaveKeepsRegistry
    <3>3. CASE Goto(r, "admit") /\ MayStart(mem[path[r]])
      <4>1. Others(r) /\ pc'[r] = "admit" /\ path'[r] = path[r]
        BY <3>3, GotoEffect
      <4>2. DecidedAt(r)' /\ VerdictAt(r)' /\ ~Owns(r)'
        BY <1>1, <3>1, <3>3, <4>1 DEF DecidedAt, VerdictAt, Owns, Executing, OnItem, MayStart
      <4> QED
        BY <3>1, <4>1, <4>2, MoveKeepsRegistry
    <3> QED
      BY <2>1, <3>2, <3>3 DEF Decide, Release
  <2>2. CASE AdmissionFails(r) \/ Revoked(r)
    <3>1. ~Owns(r) /\ Leave(r) /\ UNCHANGED <<mem, truth, rec, ticket, drops>>
      BY <2>2 DEF AdmissionFails, Revoked, Release, Owns, Executing, item
    <3> QED
      BY <3>1, LeaveKeepsRegistry
  <2>3. CASE Admitted(r)
    <3>1. pc[r] = "admit" /\ ~Owns(r) /\ UNCHANGED <<truth, rec, ticket, drops>>
      BY <2>3 DEF Admitted, Owns, Executing
    <3>2. /\ path[r] \in Paths /\ lock = r
          /\ mem[path[r]] \in {"Pending", "Failed", "Cancelled"}
      BY <1>1, <1>2, <3>1 DEF DecidedAt, OnItem, Holding
    <3>3. CASE mem[path[r]] = "Cancelled"
      <4>1. Others(r) /\ pc'[r] = "revoke" /\ path'[r] = path[r] /\ UNCHANGED mem
        BY <2>3, <3>3, GotoEffect DEF Admitted, item
      <4>2. DecidedAt(r)' /\ VerdictAt(r)' /\ ~Owns(r)'
        BY <3>2, <3>3, <4>1 DEF DecidedAt, VerdictAt, Owns, Executing
      <4> QED
        BY <3>1, <4>1, <4>2, MoveKeepsRegistry
    <3>4. CASE mem[path[r]] # "Cancelled"
      <4>1. PICK next \in {"running", "unsure"} : Goto(r, next)
        BY <2>3, <3>4 DEF Admitted, Started
      <4>2. mem' = [mem EXCEPT ![path[r]] = "InProgress"]
        BY <2>3, <3>4 DEF Admitted, Started
      <4>3. Others(r) /\ pc'[r] = next /\ path'[r] = path[r]
        BY <4>1, GotoEffect
      <4>4. truth[path[r]] = "no"
        BY <3>2, <3>4 DEF ReportsTruth
      <4>5. DecidedAt(r)' /\ VerdictAt(r)' /\ Owns(r)'
        BY <3>1, <3>2, <4>3, <4>4 DEF DecidedAt, VerdictAt, Owns, Executing
      <4>6. \A q \in Requests \ {r} : Owns(q) => path[q] # path[r]
        BY <1>1, <3>2 DEF OwnedAt
      <4>7. "InProgress" \in Status \ {"Pending"}
        BY DEF Status
      <4> QED
        BY <3>1, <3>2, <4>2, <4>3, <4>5, <4>6, <4>7, StoreKeepsRegistry
    <3> QED
      BY <3>3, <3>4
  <2> QED
    BY <1>6, <2>1, <2>2, <2>3 DEF Admission
<1>7. ASSUME NEW r \in Requests, Execution(r)
      PROVE  Registry'
  <2>1. ASSUME NEW outcome \in Outcomes, UploadEnds(r, outcome)
        PROVE  Registry'
    <3> DEFINE t == CASE outcome \in {"yes", "yes, cleanup pending"} -> "yes"
                      [] outcome = "unknown" -> "open"
                      [] OTHER -> "no"
    <3>1. /\ Others(r) /\ pc[r] = "running" /\ pc'[r] = "settle" /\ path'[r] = path[r]
          /\ result'[r] = Classified(outcome)
      BY <2>1 DEF UploadEnds, TaskTyped, Others
    <3>2. path[r] \in Paths
      BY <1>1, <3>1 DEF DecidedAt, OnItem
    <3>3. truth' = [truth EXCEPT ![path[r]] = t] /\ t \in {"no", "yes", "open"}
      BY <2>1 DEF UploadEnds
    <3>4. truth'[path[r]] = t
      BY <3>2, <3>3 DEF TypeOK
    <3>5. VerdictAt(r)'
      BY <3>1, <3>4 DEF VerdictAt, Classified, Outcomes
    <3> QED
      BY <2>1, <3>1, <3>3, <3>5, EndKeepsRegistry DEF UploadEnds, item
  <2>2. CASE Interrupted(r)
    <3>1. Others(r) /\ pc[r] = "running" /\ pc'[r] = "drop" /\ path'[r] = path[r]
      BY <2>2 DEF Interrupted, TaskTyped, Others
    <3>2. VerdictAt(r)'
      BY <3>1 DEF VerdictAt
    <3> QED
      BY <2>2, <3>1, <3>2, EndKeepsRegistry DEF Interrupted, item
  <2>3. CASE Settle(r)
    <3>1. Owns(r)
      BY <2>3 DEF Settle, Owns, Executing
    <3>2. PICK next \in {"settling", "giving up"} :
            Goto(r, next) /\ (next = "settling" <=> pc[r] = "settle")
      BY <2>3, <3>1, OwnersGetTheLock DEF Settle
    <3>3. /\ Others(r) /\ pc'[r] = next /\ path'[r] = path[r] /\ result'[r] = result[r]
          /\ UNCHANGED <<mem, truth, rec, ticket, drops>>
      BY <2>3, <3>2, GotoEffect DEF Settle, item
    <3>4. DecidedAt(r)' /\ VerdictAt(r)' /\ Owns(r)'
      BY <1>1, <2>3, <3>2, <3>3
         DEF Settle, DecidedAt, VerdictAt, Owns, Executing, OnItem
    <3> QED
      BY <3>1, <3>3, <3>4, MoveKeepsRegistry
  <2>4. CASE Settled(r)
    <3> DEFINE s == IF pc[r] = "settling" THEN result[r] ELSE "Failed"
    <3>1. pc[r] \in {"settling", "giving up"} /\ Owns(r)
      BY <2>4 DEF Settled, Owns, Executing
    <3>2. path[r] \in Paths /\ mem[path[r]] = "InProgress" /\ lock = r
      BY <1>1, <1>2, <3>1 DEF DecidedAt, OwnedAt, OnItem, Holding
    <3>3. /\ s \in {"Complete", "Failed", "Unknown"}
          /\ s = "Complete" => truth[path[r]] = "yes"
          /\ s = "Failed" => truth[path[r]] = "no"
      BY <1>1, <3>1 DEF VerdictAt
    <3>4. s \in Status \ {"Pending"} /\ s # "InProgress"
      BY <3>3 DEF Status
    <3>5. mem' = [mem EXCEPT ![path[r]] = s] /\ UNCHANGED <<truth, rec, ticket, drops>>
      BY <2>4 DEF Settled, Store
    <3>6. Others(r) /\ pc'[r] = "idle"
      BY <2>4, LeaveEffect DEF Settled, Release
    <3>7. DecidedAt(r)' /\ VerdictAt(r)' /\ ~Owns(r)'
      BY <3>6 DEF DecidedAt, VerdictAt, Owns, Executing, OnItem
    <3>8. \A q \in Requests \ {r} : Owns(q) => path[q] # path[r]
      BY <3>1 DEF Owners
    <3> HIDE DEF s
    <3> QED
      BY <3>1, <3>2, <3>3, <3>4, <3>5, <3>6, <3>7, <3>8, StoreKeepsRegistry
  <2>5. CASE Drop(r)
    <3>1. Owns(r) /\ pc[r] = "drop"
      BY <2>5 DEF Drop, Owns, Executing
    <3>2. Goto(r, "dropping")
      BY <1>1, <2>5, <3>1, OwnersGetTheLock DEF Drop, OwnedAt
    <3>3. /\ Others(r) /\ pc'[r] = "dropping" /\ path'[r] = path[r]
          /\ UNCHANGED <<mem, truth, rec, ticket, drops>>
      BY <2>5, <3>2, GotoEffect DEF Drop, item
    <3>4. DecidedAt(r)' /\ VerdictAt(r)' /\ Owns(r)'
      BY <1>1, <3>1, <3>3 DEF DecidedAt, VerdictAt, Owns, Executing, OnItem
    <3> QED
      BY <3>1, <3>3, <3>4, MoveKeepsRegistry
  <2>6. CASE Dropped(r)
    <3>1. Owns(r) /\ pc[r] = "dropping"
      BY <2>6 DEF Dropped, Owns, Executing
    <3>2. path[r] \in Paths /\ mem[path[r]] = "InProgress" /\ lock = r
      BY <1>1, <1>2, <3>1 DEF DecidedAt, OwnedAt, OnItem, Holding
    <3>3. "Unknown" \in Status \ {"Pending"}
      BY DEF Status
    <3>4. /\ mem' = [mem EXCEPT ![path[r]] = "Unknown"]
          /\ UNCHANGED <<truth, rec, ticket, drops>>
      BY <2>6 DEF Dropped
    <3>5. Others(r) /\ pc'[r] = "idle"
      BY <2>6, LeaveEffect DEF Dropped, Release
    <3>6. DecidedAt(r)' /\ VerdictAt(r)' /\ ~Owns(r)'
      BY <3>5 DEF DecidedAt, VerdictAt, Owns, Executing, OnItem
    <3>7. \A q \in Requests \ {r} : Owns(q) => path[q] # path[r]
      BY <3>1 DEF Owners
    <3> QED
      BY <3>1, <3>2, <3>3, <3>4, <3>5, <3>6, <3>7, StoreKeepsRegistry
  <2> QED
    BY <1>7, <2>1, <2>2, <2>3, <2>4, <2>5, <2>6 DEF Execution
<1>8. ASSUME NEW r \in Requests, Cancellation(r)
      PROVE  Registry'
  <2>1. CASE CancelDecides(r)
    <3>1. pc[r] = "cancel" /\ ~Owns(r) /\ UNCHANGED <<mem, truth, rec, ticket, drops>>
      BY <2>1 DEF CancelDecides, Owns, Executing
    <3>2. CASE Leave(r)
      BY <3>1, <3>2, LeaveKeepsRegistry
    <3>3. CASE ~Leave(r)
      <4> DEFINE chosen == {p \in todo[r] : CanCancel(mem[p])}
      <4>1. /\ chosen # {} /\ pc' = [pc EXCEPT ![r] = "cancelling"]
            /\ todo' = [todo EXCEPT ![r] = chosen] /\ UNCHANGED <<path, result>>
        BY <2>1, <3>3 DEF CancelDecides, Release
      <4>2. Others(r) /\ pc'[r] = "cancelling" /\ todo'[r] = chosen
        BY <4>1 DEF TaskTyped, Others
      <4>3. DecidedAt(r)' /\ VerdictAt(r)' /\ ~Owns(r)'
        BY <3>1, <4>1, <4>2 DEF DecidedAt, VerdictAt, Owns, Executing, OnItem, CanCancel
      <4> QED
        BY <3>1, <4>2, <4>3, MoveKeepsRegistry
    <3> QED
      BY <3>2, <3>3
  <2>2. CASE CancelFails(r)
    <3>1. ~Owns(r) /\ Leave(r) /\ UNCHANGED <<mem, truth, rec, ticket, drops>>
      BY <2>2 DEF CancelFails, Release, Owns, Executing, item
    <3> QED
      BY <3>1, LeaveKeepsRegistry
  <2>3. ASSUME NEW p \in Paths, CancelOne(r, p)
        PROVE  Registry'
    <3>1. /\ pc[r] = "cancelling" /\ p \in todo[r] /\ ~Owns(r)
          /\ mem' = [mem EXCEPT ![p] = "Cancelled"]
          /\ UNCHANGED <<truth, rec, ticket, drops>>
      BY <2>3 DEF CancelOne, Owns, Executing
    <3>2. lock = r /\ \A q \in todo[r] : mem[q] \in {"Pending", "Failed", "Cancelled"}
      BY <1>1, <1>2, <3>1 DEF DecidedAt, Holding
    <3>3. "Cancelled" \in Status \ {"Pending"}
      BY DEF Status
    <3>4. /\ Others(r) /\ pc'[r] \in {"idle", "cancelling"}
          /\ pc'[r] = "cancelling" => todo'[r] = todo[r] \ {p} /\ todo[r] # {p}
      <4>1. CASE todo[r] = {p}
        BY <2>3, <4>1, LeaveEffect DEF CancelOne, Release
      <4>2. CASE todo[r] # {p}
        BY <2>3, <3>1, <4>2 DEF CancelOne, TaskTyped, Others
      <4> QED
        BY <4>1, <4>2
    <3>5. \A q \in todo'[r] : pc'[r] = "cancelling" =>
              mem'[q] \in {"Pending", "Failed", "Cancelled"}
      BY <3>1, <3>2, <3>4 DEF TypeOK
    <3>6. DecidedAt(r)' /\ VerdictAt(r)' /\ ~Owns(r)'
      BY <3>1, <3>4, <3>5 DEF DecidedAt, VerdictAt, Owns, Executing, OnItem
    <3>7. \A q \in Requests \ {r} : Owns(q) => path[q] # p
      BY <1>1, <3>1, <3>2 DEF OwnedAt
    <3> QED
      BY <3>1, <3>2, <3>3, <3>4, <3>6, <3>7, StoreKeepsRegistry
  <2> QED
    BY <1>8, <2>1, <2>2, <2>3 DEF Cancellation
<1>9. ASSUME NEW r \in Requests, Disconnect(r)
      PROVE  Registry'
  <2>1. drops' # 0
    <3>1. drops \in Nat /\ drops' = drops + 1
      <4>1. drops \in 0..MaxDrops
        BY DEF TypeOK
      <4>2. drops' = drops + 1
        BY <1>9 DEF Disconnect
      <4> QED
        BY <4>1, <4>2, TicketAssumption
    <3> QED
      BY <3>1
  <2> QED
    BY <1>9, <2>1, LeaveKeepsRegistry DEF Disconnect, item
<1>10. ASSUME NEW p \in Paths, NEW yes \in BOOLEAN, Resolve(p, yes)
       PROVE  Registry'
  <2>1. /\ truth[p] = "open" /\ \A q \in Paths \ {p} : truth'[q] = truth[q]
        /\ UNCHANGED task /\ UNCHANGED <<mem, rec, ticket, drops>>
    BY <1>10 DEF Resolve, TypeOK, item
  <2>2. \A r \in Requests : /\ Owns(r)' <=> Owns(r)
                            /\ DecidedAt(r)' /\ OwnedAt(r)'
    BY <1>1, <2>1 DEF task, Owns, Executing, DecidedAt, OwnedAt
  <2>3. \A r \in Requests : VerdictAt(r)'
    BY <1>1, <2>1 DEF task, VerdictAt, DecidedAt, OnItem
  <2>4. InProgressHasOwner => InProgressHasOwner'
    BY <2>1, <2>2 DEF InProgressHasOwner, Owns, task
  <2>5. RecoveryVerdict'
    BY <2>1, VerdictKept DEF Verdicts
  <2>6. ReportsTruth'
    BY <2>1 DEF ReportsTruth
  <2> QED
    BY <2>1, <2>2, <2>3, <2>4, <2>5, <2>6 DEF Decided, Owners, Verdicts, task
<1>11. CASE Confirmation
  <2>1. ASSUME UNCHANGED task, UNCHANGED mem, UNCHANGED <<truth, ticket, drops>>,
               RecoveryVerdict'
        PROVE  Registry'
    <3>1. \A r \in Requests : /\ Owns(r)' <=> Owns(r)
                              /\ DecidedAt(r)' /\ OwnedAt(r)' /\ VerdictAt(r)'
      BY <1>1, <2>1 DEF task, Owns, Executing, DecidedAt, OwnedAt, VerdictAt
    <3>2. InProgressHasOwner => InProgressHasOwner'
      BY <2>1, <3>1 DEF InProgressHasOwner, Owns, task
    <3> QED
      BY <2>1, <3>1, <3>2 DEF Decided, Owners, Verdicts, ReportsTruth, task
  <2>2. ASSUME NEW p \in Paths, Inspect(p)
        PROVE  Registry'
    BY <2>1, <2>2 DEF Inspect, UnknownItems, RecoveryVerdict, item
  <2>3. CASE Confirm
    <3>1. rec \in Confirmations
      BY DEF TypeOK
    <3>2. RecoveryVerdict'
      BY <2>3, <3>1
         DEF Confirm, Verdicts, RecoveryVerdict, NoConfirmation, Confirmations, item
    <3> QED
      BY <2>1, <2>3, <3>2 DEF Confirm, item
  <2>4. CASE ConfirmEnds
    <3>1. RecoveryVerdict'
      BY <2>4 DEF ConfirmEnds, RecoveryVerdict, NoConfirmation
    <3>2. CASE UNCHANGED mem
      BY <2>1, <2>4, <3>1, <3>2 DEF ConfirmEnds
    <3>3. CASE Store(rec.path, rec.status)
      <4>1. /\ rec.path \in Paths /\ mem[rec.path] = "Unknown"
            /\ rec.status \in {"Complete", "Failed"}
            /\ rec.status = "Complete" => truth[rec.path] = "yes"
            /\ rec.status = "Failed" => truth[rec.path] = "no"
        BY <2>4 DEF ConfirmEnds, Verdicts, RecoveryVerdict, TypeOK
      <4>2. /\ mem'[rec.path] = rec.status
            /\ \A p \in Paths \ {rec.path} : mem'[p] = mem[p]
            /\ UNCHANGED task /\ UNCHANGED <<truth, ticket, drops>>
        BY <2>4, <3>3, <4>1 DEF ConfirmEnds, Store, TypeOK
      <4>3. lock = Recovery
        BY <2>4 DEF ConfirmEnds, LockHolders
      <4>4. \A r \in Requests : pc[r] \notin Holding
        BY <1>2, <4>3, TicketAssumption
      <4>5. \A r \in Requests : /\ Owns(r)' <=> Owns(r)
                                /\ DecidedAt(r)' /\ VerdictAt(r)'
        BY <1>1, <4>2, <4>4 DEF task, Owns, Executing, DecidedAt, VerdictAt, Holding
      <4>6. \A r \in Requests : OwnedAt(r)'
        BY <1>1, <4>1, <4>2, <4>5, OwnersPath DEF task, OwnedAt
      <4>7. InProgressHasOwner => InProgressHasOwner'
        BY <4>1, <4>2, HasOwnerKept
      <4>8. ReportsTruth'
        BY <4>1, <4>2 DEF ReportsTruth
      <4> QED
        BY <3>1, <4>2, <4>5, <4>6, <4>7, <4>8 DEF Decided, Owners, Verdicts, task
    <3> QED
      BY <2>4, <3>2, <3>3 DEF ConfirmEnds, item
  <2> QED
    BY <1>11, <2>2, <2>3, <2>4 DEF Confirmation
<1>12. CASE Invalidate
  <2>1. /\ \A p \in Paths : mem'[p] = IF mem[p] = "Pending" THEN "Cancelled" ELSE mem[p]
        /\ UNCHANGED task /\ UNCHANGED <<truth, rec, ticket, drops>>
    BY <1>12 DEF Invalidate
  <2>2. \A r \in Requests : (Owns(r)' <=> Owns(r)) /\ VerdictAt(r)'
    BY <1>1, <2>1 DEF task, Owns, Executing, VerdictAt
  <2>3. \A r \in Requests : OwnedAt(r)'
    BY <1>1, <2>1, <2>2, OwnersPath DEF task, OwnedAt
  <2>4. ASSUME NEW r \in Requests
        PROVE  DecidedAt(r)'
    <3>1. DecidedAt(r) /\ todo[r] \subseteq Paths
      BY <1>1 DEF TaskTyped
    <3>2. pc'[r] = pc[r] /\ path'[r] = path[r] /\ todo'[r] = todo[r]
      BY <2>1 DEF task
    <3>3. pc[r] \in {"admit", "revoke"} => path[r] \in Paths
      BY <3>1 DEF DecidedAt, OnItem
    <3> QED
      BY <2>1, <3>1, <3>2, <3>3 DEF DecidedAt
  <2>5. InProgressHasOwner => InProgressHasOwner'
    BY <2>1, HasOwnerKept
  <2>6. RecoveryVerdict'
    BY <2>1, VerdictKept DEF Verdicts
  <2>7. ReportsTruth'
    BY <2>1 DEF ReportsTruth
  <2> QED
    BY <2>1, <2>2, <2>3, <2>4, <2>5, <2>6, <2>7 DEF Decided, Owners, Verdicts, task
<1>13. CASE Restart
  <2>1. \A r \in Requests : pc'[r] = "idle"
    BY <1>13 DEF Restart
  <2>2. Decided' /\ \A r \in Requests : OwnedAt(r)' /\ VerdictAt(r)' /\ ~Owns(r)'
    BY <2>1 DEF Decided, DecidedAt, OwnedAt, VerdictAt, Owns, Executing, OnItem
  <2>3. RecoveryVerdict'
    BY <1>13 DEF Restart, NoConfirmation, RecoveryVerdict
  <2>4. PICK disk \in [Paths -> Status \cup {Absent}] :
          (\A p \in Paths : disk[p] \in OnDisk(p)) /\ Load(disk)
    BY <1>13 DEF Restart, OnDisk
  <2>5. \A p \in Paths : truth'[p] = IF RunningOn(p) THEN "open" ELSE truth[p]
    BY <1>13 DEF Restart, RunningOn
  <2>6. ASSUME NEW p \in Paths
        PROVE  /\ mem'[p] = "Complete" => truth'[p] = "yes"
               /\ mem'[p] \in {"Pending", "Failed"} => truth'[p] = "no"
               /\ ticket' # "gone" => mem'[p] # "InProgress"
    <3>1. CASE mem' = [q \in Paths |-> AfterRestart(disk[q])]
      <4>1. mem'[p] = AfterRestart(disk[p])
        BY <3>1
      <4>2. /\ mem'[p] \notin {"Pending", "InProgress"}
            /\ mem'[p] \in {"Complete", "Failed"} => disk[p] = mem'[p]
        BY <4>1 DEF AfterRestart, Absent, Status
      <4>3. /\ disk[p] = "Complete" => truth[p] = "yes"
            /\ disk[p] = "Failed" => truth[p] = "no" /\ ~RunningOn(p)
        BY <2>4 DEF DiskIsTrue
      <4>4. RunningOn(p) => truth[p] = "no"
        BY <1>1 DEF RunningOn, VerdictAt
      <4> QED
        BY <2>5, <4>2, <4>3, <4>4
    <3>2. CASE UNCHANGED mem /\ ticket' = "gone"
      <4>1. RunningOn(p) => mem[p] = "InProgress"
        BY <1>1 DEF RunningOn, OwnedAt, Owns, Executing
      <4> QED
        BY <2>5, <3>2, <4>1 DEF ReportsTruth
    <3> QED
      BY <2>4, <3>1, <3>2 DEF Load
  <2> QED
    BY <2>2, <2>3, <2>6 DEF Owners, Verdicts, InProgressHasOwner, ReportsTruth
<1>14. CASE Retire
  BY <1>3, <1>14 DEF Retire, Prunable, item
<1>15. CASE \/ \E w \in late : LateWrite(w)
            \/ Cleaning \/ Expire \/ UNCHANGED vars
  <2>1. UNCHANGED task /\ UNCHANGED mem /\ UNCHANGED <<truth, rec, drops>>
    BY <1>15
       DEF LateWrite, Cleaning, RemoveRecord, RemoveManifest, RemoveDirectory, Forget,
           RetirementFails, Expire, item, task, vars
  <2>2. ticket' # "gone" => ticket # "gone"
    BY <1>15
       DEF LateWrite, Cleaning, RemoveRecord, RemoveManifest, RemoveDirectory, Forget,
           RetirementFails, Expire, vars
  <2> QED
    BY <1>3, <2>1, <2>2
<1> QED
  BY <1>4, <1>5, <1>6, <1>7, <1>8, <1>9, <1>10, <1>11, <1>12, <1>13, <1>14, <1>15
     DEF Next

-----------------------------------------------------------------------------
(* What a step of the running process may do to one item *)

\* Results are final, only an upload that runs changes the storage's answer, an item
\* whose owner is gone stays as it is, and an upload begins with its record on disk.
Effect(p) ==
    /\ mem[p] \in {"Complete", "Cancelled"} => mem'[p] = mem[p]
    /\ truth'[p] = truth[p] \/ RunningOn(p) \/ truth[p] = "open"
    /\ mem[p] = "InProgress" /\ ~Owned(p) => mem'[p] = "InProgress" /\ ~Owned(p)'
    /\ RunningOn(p)' => \/ RunningOn(p)
                        \/ /\ mem[p] \in {"Pending", "Failed"}
                           /\ Confirmed(p, "InProgress")

\* No task moves.
LEMMA EffectOfNoMove ==
    ASSUME UNCHANGED task, NEW p \in Paths,
           mem'[p] = mem[p] \/ mem[p] \notin {"Complete", "Cancelled", "InProgress"},
           truth'[p] = truth[p] \/ truth[p] = "open"
    PROVE  Effect(p)
BY DEF Effect, Owned, RunningOn, Owns, Executing, task

\* A request that begins no upload and touches neither the registry nor the storage.
LEMMA EffectOfMove ==
    ASSUME NEW r \in Requests, Others(r), UNCHANGED <<mem, truth>>, pc'[r] # "running",
           Owns(r)' => Owns(r) /\ path'[r] = path[r], NEW p \in Paths
    PROVE  Effect(p)
<1>1. RunningOn(p)' => RunningOn(p)
  BY DEF RunningOn, Others
<1>2. Owned(p)' => Owned(p)
  BY DEF Owned, Others, Owns, Executing
<1> QED
  BY <1>1, <1>2 DEF Effect

\* A request that stores a result and is done with its item, or begins its upload.
LEMMA EffectOfStore ==
    ASSUME TypeOK, NEW r \in Requests, Others(r), NEW q \in Paths, NEW s \in Status,
           mem' = [mem EXCEPT ![q] = s], UNCHANGED truth, mem[q] \notin {"Complete"},
           mem[q] = "Cancelled" => s = "Cancelled",
           mem[q] = "InProgress" => Owned(q),
           pc'[r] = "running" => /\ path'[r] = q /\ mem[q] \in {"Pending", "Failed"}
                                 /\ Confirmed(q, "InProgress"),
           Owns(r)' => path'[r] = q, NEW p \in Paths
    PROVE  Effect(p)
<1>1. mem'[p] = IF p = q THEN s ELSE mem[p]
  BY DEF TypeOK
<1>2. RunningOn(p)' => \/ RunningOn(p)
                       \/ p = q /\ mem[q] \in {"Pending", "Failed"} /\ Confirmed(q, "InProgress")
  BY DEF RunningOn, Others
<1>3. Owned(p)' => Owned(p) \/ p = q
  BY DEF Owned, Others, Owns, Executing
<1> QED
  BY <1>1, <1>2, <1>3 DEF Effect

\* Every step has this effect on every item, but for the restart.
LEMMA EffectStep ==
    ASSUME TypeOK, LockHolders, Registry, [Next]_vars, ~Restart, NEW p \in Paths
    PROVE  Effect(p)
<1> TaskTyped
  BY TypeParts
<1>1. \A r \in Requests : DecidedAt(r) /\ OwnedAt(r) /\ VerdictAt(r)
  BY DEF Registry, Decided, Owners, Verdicts
<1>2. ASSUME NEW r \in Requests, Leave(r), UNCHANGED <<mem, truth>>
      PROVE  Effect(p)
  <2>1. Others(r) /\ pc'[r] = "idle"
    BY <1>2, LeaveEffect
  <2> QED
    BY <1>2, <2>1, EffectOfMove DEF Owns, Executing
<1>3. ASSUME NEW r \in Requests,
             NEW next \in {"admit", "revoke", "settling", "giving up", "dropping"},
             Goto(r, next), Owns(r) \/ next \in {"admit", "revoke"}, UNCHANGED <<mem, truth>>
      PROVE  Effect(p)
  <2>1. Others(r) /\ pc'[r] = next /\ path'[r] = path[r]
    BY <1>3, GotoEffect
  <2> QED
    BY <1>3, <2>1, EffectOfMove DEF Owns, Executing
<1>4. ASSUME NEW r \in Requests,
             (\E q \in Paths : Begin(r, q))
                \/ (\E chosen \in SUBSET Paths : Cancel(r, chosen))
      PROVE  Effect(p)
  <2>1. Others(r) /\ pc'[r] \in {"begin", "cancel"}
    BY <1>4 DEF Begin, Cancel, TaskTyped, Others
  <2> QED
    BY <1>4, <2>1, EffectOfMove DEF Begin, Cancel, Owns, Executing, item
<1>5. ASSUME NEW r \in Requests, Admission(r)
      PROVE  Effect(p)
  <2>1. CASE Decide(r)
    BY <1>2, <1>3, <2>1 DEF Decide, Release, item
  <2>2. CASE AdmissionFails(r) \/ Revoked(r)
    BY <1>2, <2>2 DEF AdmissionFails, Revoked, Release, item
  <2>3. CASE Admitted(r)
    <3>1. CASE mem[path[r]] = "Cancelled"
      BY <1>3, <2>3, <3>1 DEF Admitted, item
    <3>2. CASE mem[path[r]] # "Cancelled"
      <4>1. path[r] \in Paths /\ mem[path[r]] \in {"Pending", "Failed"}
        BY <1>1, <2>3, <3>2 DEF Admitted, DecidedAt, OnItem
      <4>2. PICK next \in {"running", "unsure"} :
              /\ Goto(r, next)
              /\ next = "running" => Confirmed(path[r], "InProgress")
        BY <2>3, <3>2 DEF Admitted, Started
      <4>3. mem' = [mem EXCEPT ![path[r]] = "InProgress"] /\ UNCHANGED truth
        BY <2>3, <3>2 DEF Admitted, Started
      <4>4. Others(r) /\ pc'[r] = next /\ path'[r] = path[r]
        BY <4>2, GotoEffect
      <4>5. "InProgress" \in Status
        BY DEF Status
      <4> QED
        BY <4>1, <4>2, <4>3, <4>4, <4>5, EffectOfStore
    <3> QED
      BY <3>1, <3>2
  <2> QED
    BY <1>5, <2>1, <2>2, <2>3 DEF Admission
<1>6. ASSUME NEW r \in Requests, Execution(r)
      PROVE  Effect(p)
  <2>1. CASE (\E outcome \in Outcomes : UploadEnds(r, outcome)) \/ Interrupted(r)
    <3>1. /\ Others(r) /\ pc[r] = "running" /\ pc'[r] \in {"settle", "drop"}
          /\ path'[r] = path[r] /\ UNCHANGED mem
      BY <2>1 DEF UploadEnds, Interrupted, TaskTyped, Others, item
    <3>2. truth'[p] = truth[p] \/ p = path[r]
      BY <2>1 DEF UploadEnds, Interrupted, TypeOK
    <3>3. (RunningOn(p)' => RunningOn(p)) /\ (p = path[r] => RunningOn(p))
      BY <3>1 DEF RunningOn, Others
    <3>4. Owned(p)' => Owned(p)
      BY <3>1 DEF Owned, Others, Owns, Executing
    <3> QED
      BY <3>1, <3>2, <3>3, <3>4 DEF Effect
  <2>2. CASE Settle(r)
    <3>1. Owns(r)
      BY <2>2 DEF Settle, Owns, Executing
    <3> QED
      BY <1>2, <1>3, <2>2, <3>1 DEF Settle, item
  <2>3. CASE Settled(r) \/ Dropped(r)
    <3>1. pc[r] \in {"settling", "giving up", "dropping"} /\ Owns(r)
      BY <2>3 DEF Settled, Dropped, Owns, Executing
    <3>2. path[r] \in Paths /\ mem[path[r]] = "InProgress" /\ Owned(path[r])
      BY <1>1, <3>1 DEF DecidedAt, OwnedAt, OnItem, Owned
    <3>3. PICK s \in Status : mem' = [mem EXCEPT ![path[r]] = s]
      BY <2>3 DEF Settled, Dropped, Store, TaskTyped, Status
    <3>4. Others(r) /\ pc'[r] = "idle"
      BY <2>3, LeaveEffect DEF Settled, Dropped, Release
    <3>5. UNCHANGED truth
      BY <2>3 DEF Settled, Dropped
    <3> QED
      BY <3>2, <3>3, <3>4, <3>5, EffectOfStore DEF Owns, Executing
  <2>4. CASE Drop(r)
    <3>1. Owns(r)
      BY <2>4 DEF Drop, Owns, Executing
    <3> QED
      BY <1>2, <1>3, <2>4, <3>1 DEF Drop, item
  <2> QED
    BY <1>6, <2>1, <2>2, <2>3, <2>4 DEF Execution
<1>7. ASSUME NEW r \in Requests, Cancellation(r)
      PROVE  Effect(p)
  <2>1. CASE CancelDecides(r)
    <3>1. Others(r) /\ pc'[r] \in {"idle", "cancelling"}
      BY <2>1, LeaveEffect DEF CancelDecides, Release, TaskTyped, Others
    <3> QED
      BY <2>1, <3>1, EffectOfMove DEF CancelDecides, Owns, Executing
  <2>2. CASE CancelFails(r)
    BY <1>2, <2>2 DEF CancelFails, Release, item
  <2>3. ASSUME NEW q \in Paths, CancelOne(r, q)
        PROVE  Effect(p)
    <3>1. /\ mem[q] \in {"Pending", "Failed", "Cancelled"}
          /\ mem' = [mem EXCEPT ![q] = "Cancelled"] /\ UNCHANGED truth
      BY <1>1, <2>3 DEF CancelOne, DecidedAt
    <3>2. Others(r) /\ pc'[r] \in {"idle", "cancelling"}
      <4>1. CASE todo[r] = {q}
        BY <2>3, <4>1, LeaveEffect DEF CancelOne, Release
      <4>2. CASE todo[r] # {q}
        BY <2>3, <4>2 DEF CancelOne, TaskTyped, Others
      <4> QED
        BY <4>1, <4>2
    <3>3. "Cancelled" \in Status
      BY DEF Status
    <3> QED
      BY <3>1, <3>2, <3>3, EffectOfStore DEF Owns, Executing
  <2> QED
    BY <1>7, <2>1, <2>2, <2>3 DEF Cancellation
<1>8. ASSUME NEW r \in Requests, Disconnect(r)
      PROVE  Effect(p)
  BY <1>2, <1>8 DEF Disconnect, item
<1>9. CASE Confirmation
  <2>1. CASE ConfirmEnds
    <3>1. rec.path \in Paths /\ mem[rec.path] = "Unknown"
      BY <2>1 DEF ConfirmEnds, Registry, Verdicts, RecoveryVerdict
    <3>2. mem'[p] = mem[p] \/ p = rec.path
      BY <2>1 DEF ConfirmEnds, Store, item, TypeOK
    <3> QED
      BY <2>1, <3>1, <3>2, EffectOfNoMove DEF ConfirmEnds
  <2>2. CASE (\E q \in Paths : Inspect(q)) \/ Confirm
    BY <2>2, EffectOfNoMove DEF Inspect, Confirm, item
  <2> QED
    BY <1>9, <2>1, <2>2 DEF Confirmation
<1>10. ASSUME NEW q \in Paths, NEW yes \in BOOLEAN, Resolve(q, yes)
       PROVE  Effect(p)
  <2>1. truth'[p] = truth[p] \/ truth[p] = "open"
    BY <1>10 DEF Resolve, TypeOK
  <2> QED
    BY <1>10, <2>1, EffectOfNoMove DEF Resolve, item
<1>11. CASE Invalidate
  BY <1>11, EffectOfNoMove DEF Invalidate
<1>12. CASE \/ \E w \in late : LateWrite(w)
            \/ Cleaning \/ Expire \/ Retire \/ UNCHANGED vars
  <2>1. UNCHANGED task /\ UNCHANGED <<mem, truth>>
    BY <1>12
       DEF LateWrite, Cleaning, RemoveRecord, RemoveManifest, RemoveDirectory, Forget,
           RetirementFails, Expire, Retire, item, task, vars
  <2> QED
    BY <2>1, EffectOfNoMove
<1> QED
  BY <1>4, <1>5, <1>6, <1>7, <1>8, <1>9, <1>10, <1>11, <1>12 DEF Next

-----------------------------------------------------------------------------
(* The index *)

\* What a step may leave on disk for item p that was not there.
MayAdd(p, s) ==
    \/ s \in {"InProgress", "Unknown"}
    \/ s = "Complete" /\ truth'[p] = "yes"
    \/ s = "Failed" /\ truth'[p] = "no" /\ ~RunningOn(p)'
    \/ s = "Cancelled" /\ (drops' # 0 \/ mem'[p] = "Cancelled")
    \/ s = Absent /\ ticket' # "Active"

\* An upload runs on an item in progress which had not changed the storage.
LEMMA RunningItem ==
    ASSUME Registry, NEW p \in Paths, RunningOn(p)
    PROVE  mem[p] = "InProgress" /\ truth[p] = "no"
BY DEF Registry, Owners, OwnedAt, Owns, Executing, Verdicts, VerdictAt, RunningOn

\* If it adds nothing else, the disk stays true and remembers what was executed.
LEMMA DiskKept ==
    ASSUME IndexTyped, Registry, DiskIsTrue, DiskRemembers,
           drops' = 0 => drops = 0, ticket' = "Active" => ticket = "Active",
           \A p \in Paths : Effect(p),
           \A p \in Paths : \A s \in OnDisk(p)' : s \in OnDisk(p) \/ MayAdd(p, s)
    PROVE  DiskIsTrue' /\ DiskRemembers'
<1>1. ASSUME NEW p \in Paths, RunningOn(p)', ~RunningOn(p)
      PROVE  OnDisk(p)' = {"InProgress"}
  BY <1>1, ConfirmedOnDisk DEF Effect, Status
<1>2. \A p \in Paths : truth'[p] = truth[p] \/ RunningOn(p) \/ truth[p] = "open"
  BY DEF Effect
<1>3. DiskIsTrue'
  <2> SUFFICES ASSUME NEW p \in Paths, NEW s \in OnDisk(p)'
               PROVE  /\ s = "Complete" => truth'[p] = "yes"
                      /\ s = "Failed" => truth'[p] = "no" /\ ~RunningOn(p)'
    BY DEF DiskIsTrue
  <2>1. CASE s \in OnDisk(p)
    BY <1>1, <1>2, <2>1, RunningItem DEF DiskIsTrue
  <2>2. CASE MayAdd(p, s)
    BY <2>2 DEF MayAdd, Absent
  <2> QED
    BY <2>1, <2>2
<1>4. DiskRemembers'
  <2> SUFFICES ASSUME drops' = 0, ticket' = "Active", NEW p \in Paths,
                      mem'[p] # "Cancelled", truth'[p] # "no" \/ RunningOn(p)',
                      NEW s \in OnDisk(p)'
               PROVE  s \in {"InProgress", "Unknown", "Complete"}
    BY DEF DiskRemembers
  <2>1. CASE s \in OnDisk(p)
    <3>1. mem[p] # "Cancelled"
      BY DEF Effect
    <3> QED
      BY <1>1, <1>2, <2>1, <3>1 DEF DiskRemembers
  <2>2. CASE MayAdd(p, s)
    BY <2>2 DEF MayAdd
  <2> QED
    BY <2>1, <2>2
<1> QED
  BY <1>3, <1>4

\* The writes that are left behind stay harmless, whatever the others do.
LEMMA LateKept ==
    ASSUME LateIsHarmless, late \subseteq LateWrites, late' \subseteq late,
           drops' = 0 => drops = 0, \A p \in Paths : Effect(p), Registry
    PROVE  LateIsHarmless'
<1>1. \A w \in late : w.path \in Paths
  BY DEF LateWrites
<1>2. ASSUME NEW p \in Paths, truth[p] = "no", mem[p] = "InProgress", ~Owned(p)
      PROVE  truth'[p] = "no" /\ mem'[p] = "InProgress" /\ ~Owned(p)'
  <2>1. ~RunningOn(p)
    BY <1>2 DEF Owned, RunningOn, Owns, Executing
  <2> QED
    BY <1>2, <2>1 DEF Effect
<1> QED
  BY <1>1, <1>2 DEF LateIsHarmless

\* Every write, also one left behind, adds only what is true.
LEMMA AddsStep ==
    ASSUME TypeOK, LockHolders, Registry, Registry', LateIsHarmless, [Next]_vars, ~Restart,
           NEW p \in Paths, NEW s \in OnDisk(p)'
    PROVE  s \in OnDisk(p) \/ MayAdd(p, s)
<1> IndexTyped /\ TaskTyped
  BY TypeParts
<1>1. \A r \in Requests : DecidedAt(r) /\ OwnedAt(r) /\ VerdictAt(r)
  BY DEF Registry, Decided, Owners, Verdicts
<1> \A q \in Paths : RunningOn(q)' => mem'[q] = "InProgress"
  BY DEF Registry, Owners, OwnedAt, Owns, Executing, RunningOn
<1>2. ASSUME UNCHANGED <<record, undo>>
      PROVE  s \in OnDisk(p)
  BY <1>2 DEF OnDisk
<1>3. ASSUME NEW q \in Paths, NEW t \in Status, Written(q, t) \/ NotWritten,
             p = q => MayAdd(q, t)
      PROVE  s \in OnDisk(p) \/ MayAdd(p, s)
  <2>1. OnDisk(p)' \subseteq OnDisk(p) \cup (IF p = q THEN {t} ELSE {})
    BY <1>3, WriteOnDisk
  <2> QED
    BY <1>3, <2>1
<1>4. ASSUME NEW r \in Requests, Admission(r)
      PROVE  s \in OnDisk(p) \/ MayAdd(p, s)
  <2>1. CASE Decide(r)
    BY <1>2, <2>1 DEF Decide, index
  <2>2. CASE AdmissionFails(r)
    BY <1>2, <2>2 DEF AdmissionFails, NotWritten, index
  <2>3. CASE Admitted(r)
    <3>1. path[r] \in Paths
      BY <1>1, <2>3 DEF Admitted, DecidedAt, OnItem
    <3> QED
      BY <1>3, <2>3, <3>1 DEF Admitted, Written, MayAdd, Status
  <2>4. CASE Revoked(r)
    <3>1. path[r] \in Paths /\ mem'[path[r]] = "Cancelled"
      BY <1>1, <2>4 DEF Revoked, DecidedAt, OnItem, item
    <3> QED
      BY <1>3, <2>4, <3>1 DEF Revoked, MayAdd, Status
  <2> QED
    BY <1>4, <2>1, <2>2, <2>3, <2>4 DEF Admission
<1>5. ASSUME NEW r \in Requests, Execution(r)
      PROVE  s \in OnDisk(p) \/ MayAdd(p, s)
  <2>1. CASE \/ \E outcome \in Outcomes : UploadEnds(r, outcome)
             \/ Interrupted(r) \/ Settle(r) \/ Drop(r)
    BY <1>2, <2>1 DEF UploadEnds, Interrupted, Settle, Drop, index
  <2>2. CASE Settled(r)
    <3> DEFINE t == IF pc[r] = "settling" THEN result[r] ELSE "Failed"
    <3>1. PICK q \in Paths : q = path[r]
      BY <1>1, <2>2 DEF Settled, DecidedAt, OnItem
    <3>2. /\ t \in {"Complete", "Failed", "Unknown"}
          /\ t = "Complete" => truth'[q] = "yes"
          /\ t = "Failed" => truth'[q] = "no"
      BY <1>1, <2>2, <3>1 DEF Settled, VerdictAt
    <3>3. mem'[q] = t
      BY <2>2, <3>1 DEF Settled, Store, TypeOK
    <3>4. (Written(q, t) \/ NotWritten) /\ t \in Status
      BY <2>2, <3>1, <3>2 DEF Settled, Status
    <3>5. MayAdd(q, t)
      <4> HIDE DEF t
      <4> QED
        BY <3>2, <3>3 DEF MayAdd
    <3> QED
      BY <1>3, <3>4, <3>5
  <2>3. CASE Dropped(r)
    <3>1. path[r] \in Paths
      BY <1>1, <2>3 DEF Dropped, DecidedAt, OnItem
    <3> QED
      BY <1>3, <2>3, <3>1 DEF Dropped, MayAdd, Status
  <2> QED
    BY <1>5, <2>1, <2>2, <2>3 DEF Execution
<1>6. ASSUME NEW r \in Requests, Cancellation(r)
      PROVE  s \in OnDisk(p) \/ MayAdd(p, s)
  <2>1. CASE CancelDecides(r) \/ CancelFails(r)
    BY <1>2, <2>1 DEF CancelDecides, CancelFails, NotWritten, index
  <2>2. ASSUME NEW q \in Paths, CancelOne(r, q)
        PROVE  s \in OnDisk(p) \/ MayAdd(p, s)
    <3>1. mem'[q] = "Cancelled" /\ Written(q, "Cancelled")
      BY <2>2 DEF CancelOne, TypeOK
    <3> QED
      BY <1>3, <3>1 DEF MayAdd, Status
  <2> QED
    BY <1>6, <2>1, <2>2 DEF Cancellation
<1>7. ASSUME NEW w \in late, LateWrite(w)
      PROVE  s \in OnDisk(p) \/ MayAdd(p, s)
  <2>1. w.path \in Paths /\ w.status \in Status
    BY DEF TypeOK, LateWrites
  <2>2. UNCHANGED <<mem, truth, drops>> /\ UNCHANGED task /\ drops # 0
    BY <1>7 DEF LateWrite, LateIsHarmless, item
  <2>3. w.status = "Failed" => truth'[w.path] = "no" /\ ~RunningOn(w.path)'
    BY <1>7, <2>2 DEF LateIsHarmless, Owned, RunningOn, Owns, Executing, task
  <2>4. MayAdd(w.path, w.status)
    BY <2>2, <2>3 DEF LateIsHarmless, MayAdd
  <2> QED
    BY <1>3, <1>7, <2>1, <2>4 DEF LateWrite
<1>8. CASE Confirmation
  <2>1. CASE ConfirmEnds
    <3>1. PICK q \in Paths : q = rec.path
      BY <2>1 DEF ConfirmEnds, Registry, Verdicts, RecoveryVerdict
    <3>2. PICK t \in {"Complete", "Failed"} : t = rec.status
      BY <2>1 DEF ConfirmEnds, Registry, Verdicts, RecoveryVerdict
    <3>3. (t = "Complete" => truth'[q] = "yes") /\ (t = "Failed" => truth'[q] = "no")
      BY <2>1, <3>1, <3>2
         DEF ConfirmEnds, Registry, Verdicts, RecoveryVerdict, TypeOK
    <3>4. CASE Written(q, t) /\ Store(q, t)
      <4>1. mem'[q] = t
        BY <3>4 DEF Store, TypeOK
      <4>2. MayAdd(q, t)
        BY <3>3, <4>1 DEF MayAdd
      <4> QED
        BY <1>3, <3>4, <4>2 DEF Status
    <3>5. CASE NotWritten
      BY <1>2, <3>5 DEF NotWritten, index
    <3> QED
      BY <2>1, <3>1, <3>2, <3>4, <3>5 DEF ConfirmEnds
  <2>2. CASE (\E q \in Paths : Inspect(q)) \/ Confirm
    BY <1>2, <2>2 DEF Inspect, Confirm, index
  <2> QED
    BY <1>8, <2>1, <2>2 DEF Confirmation
<1>9. CASE Cleaning
  <2>1. ASSUME NEW q \in Paths, RemoveRecord(q)
        PROVE  s \in OnDisk(p) \/ MayAdd(p, s)
    BY <2>1 DEF RemoveRecord, OnDisk, MayAdd, IndexTyped
  <2>2. CASE RemoveDirectory
    BY <2>2 DEF RemoveDirectory, OnDisk
  <2>3. CASE RemoveManifest \/ Forget \/ RetirementFails
    BY <1>2, <2>3 DEF RemoveManifest, Forget, RetirementFails, index
  <2> QED
    BY <1>9, <2>1, <2>2, <2>3 DEF Cleaning
<1>10. CASE \/ \E r \in Requests :
                 \/ \E q \in Paths : Begin(r, q)
                 \/ \E chosen \in SUBSET Paths : Cancel(r, chosen)
                 \/ Disconnect(r)
            \/ \E q \in Paths, yes \in BOOLEAN : Resolve(q, yes)
            \/ Invalidate \/ Expire \/ Retire \/ UNCHANGED vars
  BY <1>2, <1>10
     DEF Begin, Cancel, Disconnect, Resolve, Invalidate, Expire, Retire, index, vars
<1> QED
  BY <1>4, <1>5, <1>6, <1>7, <1>8, <1>9, <1>10 DEF Next

\* A disconnected client leaves at most one write, of what it was waiting for.
LEMMA LateStep ==
    ASSUME TypeOK, LockHolders, Registry, LateIsHarmless, [Next]_vars, ~Restart
    PROVE  LateIsHarmless'
<1>1. \A p \in Paths : Effect(p)
  BY EffectStep
<1>2. late \subseteq LateWrites /\ drops \in 0..MaxDrops
  BY DEF TypeOK
<1>3. ASSUME NEW r \in Requests, Disconnect(r)
      PROVE  LateIsHarmless'
  <2>1. /\ UNCHANGED <<mem, truth>> /\ Leave(r) /\ drops' = drops + 1
        /\ drops < MaxDrops
    BY <1>3 DEF Disconnect, item
  <2>2. drops' # 0
    BY <1>2, <2>1, TicketAssumption
  <2>3. Others(r) /\ pc'[r] = "idle"
    BY <2>1, LeaveEffect, TypeParts
  <2>4. \A w \in late : w.path \in Paths
    BY <1>2 DEF LateWrites
  <2>5. ASSUME NEW w \in late
        PROVE  /\ w.status \in {"InProgress", "Cancelled", "Failed"}
               /\ w.status = "Failed" =>
                     truth'[w.path] = "no" /\ mem'[w.path] = "InProgress" /\ ~Owned(w.path)'
    BY <1>1, <2>1, <2>4 DEF LateIsHarmless, Effect
  <2>6. ASSUME NEW w \in late', w \notin late
        PROVE  /\ w.status \in {"InProgress", "Cancelled", "Failed"}
               /\ w.status = "Failed" =>
                     truth'[w.path] = "no" /\ mem'[w.path] = "InProgress" /\ ~Owned(w.path)'
    <3>1. PICK v \in InFlight(r) :
            w = [id |-> drops', path |-> v.path, status |-> v.status]
      BY <1>3, <2>6 DEF Disconnect
    <3>2. CASE pc[r] \in {"admit", "revoke"}
      <4>1. CASE InFlight(r) = {[path |-> path[r], status |-> "InProgress"]}
        BY <3>1, <4>1
      <4>2. CASE InFlight(r) = {[path |-> path[r], status |-> "Cancelled"]}
        BY <3>1, <4>2
      <4> QED
        BY <3>2, <4>1, <4>2 DEF InFlight
    <3>3. CASE pc[r] = "cancelling"
      <4>1. InFlight(r) = [path : todo[r], status : {"Cancelled"}]
        BY <3>3 DEF InFlight
      <4> QED
        BY <3>1, <4>1
    <3>4. CASE pc[r] = "giving up"
      <4>1. InFlight(r) = {[path |-> path[r], status |-> "Failed"]}
        BY <3>4 DEF InFlight
      <4>2. PICK q \in Paths : q = path[r]
        BY <3>4 DEF Registry, Decided, DecidedAt, OnItem
      <4>3. w.path = q /\ w.status = "Failed"
        BY <3>1, <4>1, <4>2
      <4>4. Owns(r) /\ mem[q] = "InProgress" /\ truth[q] = "no"
        BY <3>4, <4>2 DEF Owns, Registry, Owners, OwnedAt, Verdicts, VerdictAt
      <4>5. ~Owned(q)'
        BY <2>3, <4>2, <4>4 DEF Owned, Owns, Executing, Others, Registry, Owners
      <4> QED
        BY <2>1, <4>3, <4>4, <4>5
    <3>5. CASE pc[r] \notin {"admit", "revoke", "cancelling", "giving up"}
      BY <3>1, <3>5 DEF InFlight
    <3> QED
      BY <3>2, <3>3, <3>4, <3>5
  <2> QED
    BY <2>2, <2>5, <2>6 DEF LateIsHarmless
<1>4. CASE ~\E r \in Requests : Disconnect(r)
  <2>1. late' \subseteq late /\ drops' = drops
    BY <1>4
       DEF Next, Begin, Cancel, Admission, Decide, AdmissionFails, Admitted, Revoked,
           Execution, UploadEnds, Interrupted, Settle, Settled, Drop, Dropped,
           Cancellation, CancelDecides, CancelFails, CancelOne, LateWrite, Resolve,
           Confirmation, Inspect, Confirm, ConfirmEnds, Cleaning, RemoveRecord,
           RemoveManifest, RemoveDirectory, Forget, RetirementFails, Invalidate, Expire,
           Retire, vars
  <2> QED
    BY <1>1, <1>2, <2>1, LateKept
<1> QED
  BY <1>3, <1>4

-----------------------------------------------------------------------------
(* The theorems *)

\* A restart finds an index that is true, and nothing left behind by the process.
LEMMA RestartDisk ==
    ASSUME TypeOK, Registry, DiskIsTrue, LateIsHarmless, DiskRemembers, Restart
    PROVE  DiskIsTrue' /\ LateIsHarmless' /\ DiskRemembers'
<1> IndexTyped
  BY TypeParts
<1>1. PICK disk \in [Paths -> Status \cup {Absent}] :
        (\A p \in Paths : disk[p] \in OnDisk(p)) /\ Load(disk)
  BY DEF Restart, OnDisk
<1>2. \A p \in Paths : ~RunningOn(p)'
  BY DEF Restart, RunningOn
<1>3. \A p \in Paths : truth'[p] = IF RunningOn(p) THEN "open" ELSE truth[p]
  BY DEF Restart, RunningOn
<1>4. \A p \in Paths : OnDisk(p)' \in {{disk[p]}, {Absent}}
  BY <1>1 DEF Restart, Load, OnDisk
<1>5. DiskIsTrue'
  BY <1>1, <1>2, <1>3, <1>4, RunningItem DEF DiskIsTrue, Absent
<1>6. LateIsHarmless'
  BY DEF Restart, LateIsHarmless
<1>7. ASSUME drops' = 0, ticket' = "Active", NEW p \in Paths,
             mem'[p] # "Cancelled", truth'[p] # "no"
      PROVE  OnDisk(p)' \subseteq {"InProgress", "Unknown", "Complete"}
  <2>1. OnDisk(p)' = {disk[p]} /\ mem'[p] = AfterRestart(disk[p])
    BY <1>1, <1>7 DEF Load, Restart, OnDisk
  <2>2. disk[p] # "Failed"
    BY <1>1, <1>3, <1>7 DEF DiskIsTrue
  <2>3. disk[p] \in Status \ {"Pending", "Cancelled"}
    <3>1. disk[p] \in Status \cup {Absent} /\ AfterRestart(disk[p]) # "Cancelled"
      BY <1>7, <2>1
    <3>2. disk[p] \notin {Absent, "Pending", "Cancelled"}
      BY <3>1 DEF AfterRestart, Absent
    <3> QED
      BY <3>1, <3>2
  <2> QED
    BY <2>1, <2>2, <2>3 DEF Status
<1> QED
  BY <1>2, <1>5, <1>6, <1>7 DEF DiskRemembers

\* Only a restart counts as one, or brings a ticket back into use; and clients that
\* disconnected are counted.
LEMMA OnlyRestart ==
    ASSUME TypeOK, [Next]_vars, ~Restart
    PROVE  /\ crashes' = crashes /\ (ticket' = "Active" => ticket = "Active")
           /\ drops' = 0 => drops = 0
<1>1. ASSUME NEW r \in Requests, Disconnect(r)
      PROVE  crashes' = crashes /\ ticket' = ticket /\ drops' # 0
  <2>1. drops \in 0..MaxDrops
    BY DEF TypeOK
  <2>2. crashes' = crashes /\ ticket' = ticket /\ drops' = drops + 1
    BY <1>1 DEF Disconnect
  <2> QED
    BY <2>1, <2>2, TicketAssumption
<1>2. CASE ~\E r \in Requests : Disconnect(r)
  BY <1>2
     DEF Next, Begin, Cancel, Admission, Decide, AdmissionFails, Admitted, Revoked,
         Execution, UploadEnds, Interrupted, Settle, Settled, Drop, Dropped,
         Cancellation, CancelDecides, CancelFails, CancelOne, LateWrite, Resolve,
         Confirmation, Inspect, Confirm, ConfirmEnds, Cleaning, RemoveRecord,
         RemoveManifest, RemoveDirectory, Forget, RetirementFails, Invalidate, Expire,
         Retire, vars
<1> QED
  BY <1>1, <1>2

\* Every ticket starts with items nobody works on.
LEMMA InitHolds == Init => IInv
<1> SUFFICES ASSUME Init PROVE IInv
  OBVIOUS
<1>1. IndexTyped
  BY TicketAssumption DEF Init, NewIndex, IndexTyped
<1>2. TaskTyped
  BY DEF Init, TaskTyped, Locations, Status
<1>3. RegistryTyped
  <2>1. 0 \in 0..MaxDrops /\ 0 \in 0..MaxCrashes
    BY TicketAssumption
  <2>2. rec \in Confirmations
    BY DEF Init, NoConfirmation, Confirmations, Status
  <2> QED
    BY <2>1, <2>2 DEF Init, NewIndex, RegistryTyped, Status
<1>4. TypeOK
  BY <1>1, <1>2, <1>3, TypeParts
<1>5. \A r \in Requests : pc[r] = "idle"
  BY DEF Init
<1>6. LockHolders
  BY <1>5, TicketAssumption DEF Init, LockHolders, Holding, NoConfirmation, Free, Recovery
<1>7. \A r \in Requests : DecidedAt(r) /\ OwnedAt(r) /\ VerdictAt(r) /\ ~Owns(r)
  BY <1>5 DEF DecidedAt, OwnedAt, VerdictAt, Owns, Executing, OnItem
<1>8. \A p \in Paths : OnDisk(p) = {Absent} /\ ~RunningOn(p)
                       /\ mem[p] = "Pending" /\ truth[p] = "no"
  BY <1>5 DEF Init, NewIndex, OnDisk, RunningOn
<1>9. RecoveryVerdict /\ late = {}
  BY DEF Init, NewIndex, RecoveryVerdict, NoConfirmation
<1> QED
  BY <1>4, <1>6, <1>7, <1>8, <1>9
     DEF IInv, Decided, Owners, Verdicts, InProgressHasOwner, ReportsTruth, DiskIsTrue,
         LateIsHarmless, DiskRemembers, Absent

\* Every step preserves the inductive invariant.
LEMMA InvStep == IInv /\ [Next]_vars => IInv'
<1> SUFFICES ASSUME IInv, [Next]_vars PROVE IInv'
  OBVIOUS
<1> TypeOK /\ LockHolders /\ Registry /\ DiskIsTrue /\ LateIsHarmless /\ DiskRemembers
  BY DEF IInv, Registry
<1> IndexTyped
  BY TypeParts
<1>1. TypeOK'
  BY TypeStep DEF Registry
<1>2. LockHolders'
  BY LockStep DEF Registry
<1>3. Registry'
  BY RegistryStep
<1>4. CASE Restart
  BY <1>1, <1>2, <1>3, <1>4, RestartDisk DEF IInv, Registry
<1>5. CASE ~Restart
  <2>1. \A p \in Paths : Effect(p)
    BY <1>5, EffectStep
  <2>2. \A p \in Paths : \A s \in OnDisk(p)' : s \in OnDisk(p) \/ MayAdd(p, s)
    BY <1>3, <1>5, AddsStep
  <2>3. (drops' = 0 => drops = 0) /\ (ticket' = "Active" => ticket = "Active")
    BY <1>5, OnlyRestart
  <2>4. DiskIsTrue' /\ DiskRemembers'
    BY <2>1, <2>2, <2>3, DiskKept
  <2>5. LateIsHarmless'
    BY <1>5, LateStep
  <2> QED
    BY <1>1, <1>2, <1>3, <2>4, <2>5 DEF IInv, Registry
<1> QED
  BY <1>4, <1>5

\* The inductive invariant holds of every behaviour of the ticket.
THEOREM Invariance == Spec => []IInv
BY InitHolds, InvStep, PTL DEF Spec

\* The state of a ticket is well typed (UploadBatch and BatchPersistence keep the
\* kinds of value their fields have).
THEOREM TicketTypeCorrect == Spec => []TypeOK
<1>1. IInv => TypeOK
  BY DEF IInv
<1> QED
  BY <1>1, Invariance, PTL

\* However requests begin, retry and cancel an item, whichever writes fail and
\* whichever task panics, it has one executor, and keeps one until its result is
\* stored (begin, finish and cancel of upload_batch.rs).
THEOREM OneExecutorAlways == Spec => []ExactlyOneExecutor
<1>1. IInv => ExactlyOneExecutor
  <2> SUFFICES ASSUME IInv PROVE ExactlyOneExecutor
    OBVIOUS
  <2>1. \A r \in Requests : Executing(r) => ticket = "Active" /\ Owns(r)
    BY DEF IInv, LockHolders, Owns, Executing
  <2>2. OneExecutor
    BY <2>1 DEF IInv, Owners, OwnedAt, OneExecutor
  <2> QED
    BY <2>2 DEF IInv, Owners, ExactlyOneExecutor
<1> QED
  BY <1>1, Invariance, PTL

\* What the registry reports of an item is what its upload did to the storage, also
\* after any number of restarts (finish_with_status, confirm_unknown_outcome,
\* BatchPersistence::load).
THEOREM TruthIsReported == Spec => []ReportsTruth
<1>1. IInv => ReportsTruth
  BY DEF IInv
<1> QED
  BY <1>1, Invariance, PTL

\* A Complete or Cancelled item stays so while the process runs, and a restart
\* takes no upload that changed the storage for one that did not happen
\* (UploadItem::begin_decision, UploadStatus::after_restart).
THEOREM ResultsStayFinal == Spec => ResultsAreFinal
<1>1. ASSUME IInv, [Next]_vars, NEW p \in Paths
      PROVE  IF crashes' = crashes
             THEN mem[p] \in {"Complete", "Cancelled"} => mem'[p] = mem[p]
             ELSE RestoredTruly(p)
  <2> TypeOK /\ LockHolders /\ Registry /\ DiskIsTrue /\ DiskRemembers
    BY <1>1 DEF IInv, Registry
  <2>1. CASE Restart
    <3>1. crashes \in 0..MaxCrashes /\ crashes' = crashes + 1
      BY <2>1 DEF TypeOK, Restart
    <3>2. crashes' # crashes
      BY <3>1, TicketAssumption
    <3>3. PICK disk \in [Paths -> Status \cup {Absent}] :
            disk[p] \in OnDisk(p) /\ Load(disk)
      BY <2>1 DEF Restart, OnDisk
    <3>4. truth'[p] = IF RunningOn(p) THEN "open" ELSE truth[p]
      BY <2>1 DEF Restart, RunningOn
    <3>5. RestoredTruly(p)
      <4> SUFFICES ASSUME drops = 0, ticket = "Active", ticket' = "Active",
                          mem[p] # "Cancelled", truth'[p] # "no"
                   PROVE  mem'[p] \in {"Complete", "Unknown"}
        BY DEF RestoredTruly
      <4>1. disk[p] \in {"InProgress", "Unknown", "Complete"}
        BY <3>3, <3>4 DEF DiskRemembers
      <4>2. mem'[p] = AfterRestart(disk[p])
        BY <3>3 DEF Load
      <4> QED
        BY <4>1, <4>2 DEF AfterRestart, Absent
    <3> QED
      BY <3>2, <3>5
  <2>2. CASE ~Restart
    <3>1. Effect(p)
      BY <1>1, <2>2, EffectStep
    <3>2. crashes' = crashes
      BY <1>1, <2>2, OnlyRestart
    <3> QED
      BY <3>1, <3>2 DEF Effect
  <2> QED
    BY <2>1, <2>2
<1>2. IInv /\ [Next]_vars =>
        [\A p \in Paths :
            IF crashes' = crashes
            THEN mem[p] \in {"Complete", "Cancelled"} => mem'[p] = mem[p]
            ELSE RestoredTruly(p)]_vars
  BY <1>1
<1> QED
  BY <1>2, Invariance, PTL DEF Spec, ResultsAreFinal
=============================================================================
