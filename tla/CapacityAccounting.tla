------------------------- MODULE CapacityAccounting -------------------------
(***************************************************************************)
(* The quota of one local storage backend: CapacityTracker (capacity.rs),  *)
(* the three accounting guards that drive it (PublicationAccounting,       *)
(* CopyAccounting, DeleteAccounting), the reconcilers that rescan the disk *)
(* after an uncertain publication, and online transaction recovery.        *)
(*                                                                         *)
(* Byte counts are kept as numbers and paths are dropped: what an          *)
(* operation replaces is any number of the stored bytes.  `stored' is what *)
(* a scan of the user tree would sum up, `parked' the bytes an interrupted *)
(* replacement left in a backup that recovery can still put back.          *)
(***************************************************************************)
EXTENDS Naturals, FiniteSets

CONSTANTS
    Owners,      \* mutation tasks that may run at the same time
    Scanners,    \* the reconcilers that exist: "worker", "sweep", "mover"
    Limits,      \* quota values an administrator may set
    MaxBytes,    \* bytes the disk can hold (bound)
    MaxFaults,   \* I/O errors and unknown results per behaviour (bound)
    NoLimit,     \* limit: None
    NoLedger     \* the ledger file is absent

ASSUME CapacityAssumption ==
    /\ MaxBytes \in Nat /\ MaxFaults \in Nat
    /\ NoLimit \notin Nat /\ NoLedger \notin Nat
    /\ Limits \subseteq Nat \cup {NoLimit}

Bytes == 0..MaxBytes
Free == "free"
ASSUME ActorsAssumption ==
    /\ Scanners \subseteq {"worker", "sweep", "mover"}
    /\ Owners \cap {"worker", "sweep", "mover", "recovery", Free} = {}

VARIABLES
    limit, used, reserved, accurate, reconciling,    \* CapacityState
    ledger,     \* the value in the ledger file
    stored, parked,
    gate,       \* holder of StorageService::mutation_gate
    pc,         \* where each mutation task is
    kind,       \* which accounting guard it uses
    res,        \* CapacityReservation.reserved
    old,        \* CapacityReservation.old_size
    prev,       \* bytes of the destination it replaces
    size,       \* bytes it publishes
    acct,       \* awaiting_publication / was_published / ledger_settled
    snap,       \* the status persist read
    scan,       \* where each reconciler is
    found,      \* the sum a reconciler computed
    rpc,        \* where online recovery is
    wake,       \* the permit in the reconciler's Notify
    faults

tracker == <<limit, used, reserved, accurate, reconciling>>
disk == <<ledger, stored, parked>>
task == <<pc, kind, res, old, prev, size, acct, snap>>
recon == <<scan, found>>
vars == <<limit, used, reserved, accurate, reconciling, ledger, stored, parked,
          gate, pc, kind, res, old, prev, size, acct, snap, scan, found, rpc,
          wake, faults>>

TypeOK ==
    /\ limit \in Nat \cup {NoLimit}
    /\ used \in Nat /\ reserved \in Nat
    /\ accurate \in BOOLEAN /\ reconciling \in BOOLEAN
    /\ ledger \in Nat \cup {NoLedger}
    /\ stored \in Nat /\ parked \in Nat
    /\ gate \in Owners \cup Scanners \cup {Free, "recovery"}
    /\ pc \in [Owners -> {"idle", "streaming", "admitted", "prepared", "renamed",
                          "unknown", "persist", "saving", "leaving", "dropping"}]
    /\ kind \in [Owners -> {"upload", "transfer", "delete"}]
    /\ res \in [Owners -> Nat] /\ old \in [Owners -> Nat]
    /\ prev \in [Owners -> Nat] /\ size \in [Owners -> Nat]
    /\ acct \in [Owners -> {"none", "awaiting", "published", "settled"}]
    /\ snap \in [Owners -> Nat]
    /\ scan \in [Scanners -> {"idle", "trying", "queued", "scanning", "scanned",
                              "failed"}]
    /\ found \in [Scanners -> Nat]
    /\ rpc \in {"idle", "running", "restoring"}
    /\ wake \in BOOLEAN
    /\ faults \in 0..MaxFaults

\* StorageBackend::local_configured: a scan seeds the tracker and is persisted;
\* a ledger that could not be written leaves it uncertain with the worker woken.
Init ==
    /\ limit \in Limits
    /\ stored \in Bytes /\ parked = 0
    /\ used = stored /\ reserved = 0 /\ reconciling = FALSE
    /\ \/ accurate = TRUE /\ ledger = stored /\ wake = FALSE
       \/ accurate = FALSE /\ ledger = NoLedger /\ wake = TRUE
    /\ gate = Free
    /\ pc = [o \in Owners |-> "idle"] /\ kind = [o \in Owners |-> "upload"]
    /\ res = [o \in Owners |-> 0] /\ old = [o \in Owners |-> 0]
    /\ prev = [o \in Owners |-> 0] /\ size = [o \in Owners |-> 0]
    /\ acct = [o \in Owners |-> "none"] /\ snap = [o \in Owners |-> 0]
    /\ scan = [s \in Scanners |-> "idle"] /\ found = [s \in Scanners |-> 0]
    /\ rpc = "idle" /\ faults = 0

-----------------------------------------------------------------------------
(* CapacityTracker *)

\* u64::saturating_sub; the sums stay far below 2^64 on any real disk.
Minus(a, b) == IF a < b THEN 0 ELSE a - b

\* CapacityTracker::mark_uncertain: the flag first, then the stored permit.
MarkUncertain == accurate' = FALSE /\ wake' = TRUE

\* What ensure_new_size adds to a reservation of r bytes.
Additional(r, oldSize, newSize) == Minus(Minus(newSize, oldSize), r)

\* The two refusals of ensure_new_size, reached only when it has to grow.
MayReserve(add) ==
    \/ add = 0
    \/ limit = NoLimit
    \/ limit # NoLimit /\ accurate /\ used + reserved + add <= limit

\* ensure_new_size once it is granted.
GrowReservation(o, add) ==
    /\ reserved' = reserved + add
    /\ res' = [res EXCEPT ![o] = @ + add]

\* CapacityReservation::commit: the reservation becomes usage.
CommitUsed(o) ==
    /\ reserved' = Minus(reserved, res[o])
    /\ used' = Minus(used, prev[o]) + size[o]
    /\ res' = [res EXCEPT ![o] = 0]

\* CapacityReservation::drop.
ReleaseReservation(o) ==
    /\ reserved' = Minus(reserved, res[o])
    /\ res' = [res EXCEPT ![o] = 0]

\* CapacityTracker::set_limit, from a storage edit.
SetLimit ==
    /\ limit' \in Limits
    /\ UNCHANGED <<used, reserved, accurate, reconciling, disk, gate, task, recon,
                   rpc, wake, faults>>

\* The task and its guards are gone.
Forget(o) ==
    /\ pc' = [pc EXCEPT ![o] = "idle"]
    /\ kind' = [kind EXCEPT ![o] = "upload"]
    /\ old' = [old EXCEPT ![o] = 0]
    /\ prev' = [prev EXCEPT ![o] = 0]
    /\ size' = [size EXCEPT ![o] = 0]
    /\ acct' = [acct EXCEPT ![o] = "none"]

Fault == faults < MaxFaults /\ faults' = faults + 1

-----------------------------------------------------------------------------
(* Uploads: the reservation exists before the mutation gate *)

\* upload_file_mode_inner: a size is read without the gate, then reserved.  A
\* refusal leaves nothing behind.
Reserve(o, oldSize, expected) ==
    /\ pc[o] = "idle"
    /\ MayReserve(Additional(0, oldSize, expected))
    /\ GrowReservation(o, Additional(0, oldSize, expected))
    /\ pc' = [pc EXCEPT ![o] = "streaming"]
    /\ old' = [old EXCEPT ![o] = oldSize]
    /\ UNCHANGED <<limit, used, accurate, reconciling, disk, gate, kind, prev,
                   size, acct, snap, recon, rpc, wake, faults>>

\* One more chunk: ensure_new_size(received) before it is written.
Receive(o, n) ==
    /\ pc[o] = "streaming"
    /\ n > size[o]
    /\ MayReserve(Additional(res[o], old[o], n))
    /\ GrowReservation(o, Additional(res[o], old[o], n))
    /\ size' = [size EXCEPT ![o] = n]
    /\ UNCHANGED <<limit, used, accurate, reconciling, disk, gate, pc, kind, old,
                   prev, acct, snap, recon, rpc, wake, faults>>

\* A refused chunk, a closed client, a length mismatch or a failed flush drops
\* the reservation before the gate is asked for.
Abort(o) ==
    /\ pc[o] = "streaming"
    /\ ReleaseReservation(o)
    /\ Forget(o)
    /\ UNCHANGED <<limit, used, accurate, reconciling, disk, gate, snap, recon, rpc,
                   wake, faults>>

\* AtomicWrite::publish takes the gate.
EnterPublication(o) ==
    /\ pc[o] = "streaming" /\ gate = Free
    /\ gate' = o
    /\ pc' = [pc EXCEPT ![o] = "admitted"]
    /\ UNCHANGED <<tracker, disk, kind, res, old, prev, size, acct, snap, recon,
                   rpc, wake, faults>>

-----------------------------------------------------------------------------
(* Copies, moves with overwrite and deletes: everything under the gate *)

\* transfer_with_capacity / copy_admitted: sizes are read under the gate.
BeginTransfer(o, oldSize, n) ==
    /\ pc[o] = "idle" /\ gate = Free
    /\ oldSize <= stored
    /\ MayReserve(Additional(0, oldSize, n))
    /\ GrowReservation(o, Additional(0, oldSize, n))
    /\ gate' = o
    /\ pc' = [pc EXCEPT ![o] = "admitted"]
    /\ kind' = [kind EXCEPT ![o] = "transfer"]
    /\ old' = [old EXCEPT ![o] = oldSize]
    /\ prev' = [prev EXCEPT ![o] = oldSize]
    /\ size' = [size EXCEPT ![o] = n]
    /\ UNCHANGED <<limit, used, accurate, reconciling, disk, acct, snap, recon, rpc,
                   wake, faults>>

\* remove_with_capacity: what it will remove is summed up under the gate.
BeginDelete(o, removed) ==
    /\ pc[o] = "idle" /\ gate = Free
    /\ removed <= stored
    /\ gate' = o
    /\ pc' = [pc EXCEPT ![o] = "admitted"]
    /\ kind' = [kind EXCEPT ![o] = "delete"]
    /\ prev' = [prev EXCEPT ![o] = removed]
    /\ UNCHANGED <<tracker, disk, res, old, size, acct, snap, recon, rpc, wake,
                   faults>>

-----------------------------------------------------------------------------
(* Publication under the gate *)

\* Any refusal before recovery owns the file: persist settles the ledger at once.
RefuseBeforeOwnership(o) ==
    /\ pc[o] = "admitted"
    /\ acct' = [acct EXCEPT ![o] = "settled"]
    /\ pc' = [pc EXCEPT ![o] = "leaving"]
    /\ UNCHANGED <<tracker, disk, gate, kind, res, old, prev, size, snap, recon,
                   rpc, wake, faults>>

\* mutant: growth is not rechecked against the file that is really replaced
PrepareStale(o, p) ==
    /\ pc[o] = "admitted"
    /\ p <= stored /\ stored - p + size[o] <= MaxBytes
    /\ kind[o] # "upload" => p = prev[o]
    /\ prev' = [prev EXCEPT ![o] = p]
    /\ acct' = [acct EXCEPT ![o] = "awaiting"]
    /\ pc' = [pc EXCEPT ![o] = "prepared"]
    /\ UNCHANGED <<tracker, disk, gate, kind, res, old, size, snap, recon, rpc,
                   wake, faults>>

\* prepare + recovery_owned: growth is rechecked against the file that is really
\* replaced, which for an upload may differ from the one seen before the gate.
\* The new bytes are already on the disk, in the staging file.
Prepare(o, p) ==
    /\ pc[o] = "admitted"
    /\ p <= stored /\ stored - p + size[o] <= MaxBytes
    /\ kind[o] # "upload" => p = prev[o]
    /\ MayReserve(Additional(res[o], p, size[o]))
    /\ GrowReservation(o, IF kind[o] = "delete" THEN 0
                          ELSE Additional(res[o], p, size[o]))
    /\ old' = [old EXCEPT ![o] = p]
    /\ prev' = [prev EXCEPT ![o] = p]
    /\ acct' = [acct EXCEPT ![o] = "awaiting"]
    /\ pc' = [pc EXCEPT ![o] = "prepared"]
    /\ UNCHANGED <<limit, used, accurate, reconciling, disk, gate, kind, size, snap,
                   recon, rpc, wake, faults>>

\* The rename that makes the new bytes visible (or the deleted ones invisible).
Rename(o) ==
    /\ pc[o] = "prepared"
    /\ stored' = stored - prev[o] + size[o]
    /\ pc' = [pc EXCEPT ![o] = "renamed"]
    /\ UNCHANGED <<tracker, ledger, parked, gate, kind, res, old, prev, size, acct,
                   snap, recon, rpc, wake, faults>>

\* publish_replacement put everything back and retired its journal.
RollBack(o) ==
    /\ pc[o] = "prepared" /\ kind[o] # "delete"
    /\ Fault
    /\ acct' = [acct EXCEPT ![o] = "settled"]
    /\ pc' = [pc EXCEPT ![o] = "leaving"]
    /\ UNCHANGED <<tracker, disk, gate, kind, res, old, prev, size, snap, recon,
                   rpc, wake>>

\* An I/O error with the journal in place: the rename may or may not have
\* happened, and the replaced file may be parked in the backup directory.
LoseTrack(o) ==
    /\ pc[o] = "prepared"
    /\ Fault
    /\ \/ UNCHANGED <<stored, parked>>
       \/ /\ kind[o] # "delete"
          /\ stored' = stored - prev[o]
          /\ parked' = parked + prev[o]
       \/ /\ stored' = stored - prev[o] + size[o]
          /\ UNCHANGED parked
    /\ pc' = [pc EXCEPT ![o] = "unknown"]
    /\ UNCHANGED <<tracker, ledger, gate, kind, res, old, prev, size, acct, snap,
                   recon, rpc, wake>>

\* mutant: uncertainty is left to the guard's Drop, after the gate
PersistUnknownLate(o) ==
    /\ pc[o] = "unknown"
    /\ pc' = [pc EXCEPT ![o] = "leaving"]
    /\ UNCHANGED <<tracker, disk, gate, kind, res, old, prev, size, acct, snap,
                   recon, rpc, wake, faults>>

\* The guard's persist with the publication still awaited: only uncertainty.
PersistUnknown(o) ==
    /\ pc[o] = "unknown"
    /\ MarkUncertain
    /\ pc' = [pc EXCEPT ![o] = "leaving"]
    /\ UNCHANGED <<limit, used, reserved, reconciling, disk, gate, kind, res, old,
                   prev, size, acct, snap, recon, rpc, faults>>

\* observer.published: commit, or remove_used for a delete (res = size = 0).
Published(o) ==
    /\ pc[o] = "renamed"
    /\ CommitUsed(o)
    /\ acct' = [acct EXCEPT ![o] = "published"]
    /\ pc' = [pc EXCEPT ![o] = "persist"]
    /\ UNCHANGED <<limit, accurate, reconciling, disk, gate, kind, old, prev, size,
                   snap, recon, rpc, wake, faults>>

\* mutant: the value is read before the publication is accounted for
PersistEarlySnapshot(o) ==
    /\ pc[o] = "persist"
    /\ accurate
    /\ snap' = [snap EXCEPT ![o] = Minus(used, size[o]) + prev[o]]
    /\ pc' = [pc EXCEPT ![o] = "saving"]
    /\ UNCHANGED <<tracker, disk, gate, kind, res, old, prev, size, acct, recon,
                   rpc, wake, faults>>

\* CapacityTracker::persist reads the state behind the persist gate; an
\* uncertain value is not written.
Persist(o) ==
    /\ pc[o] = "persist"
    /\ \/ /\ accurate
          /\ snap' = [snap EXCEPT ![o] = used]
          /\ pc' = [pc EXCEPT ![o] = "saving"]
          /\ UNCHANGED acct
       \/ /\ ~accurate
          /\ acct' = [acct EXCEPT ![o] = "settled"]
          /\ pc' = [pc EXCEPT ![o] = "leaving"]
          /\ UNCHANGED snap
    /\ UNCHANGED <<tracker, disk, gate, kind, res, old, prev, size, recon, rpc,
                   wake, faults>>

\* save_capacity_ledger: replaced atomically; an error may leave the old file,
\* the new one, or none.
SaveFails(value) ==
    /\ Fault
    /\ ledger' \in {ledger, value, NoLedger}

SaveLedger(o) ==
    /\ pc[o] = "saving"
    /\ \/ /\ ledger' = snap[o]
          /\ acct' = [acct EXCEPT ![o] = "settled"]
          /\ UNCHANGED <<accurate, wake, faults>>
       \/ /\ SaveFails(snap[o])
          /\ MarkUncertain
          /\ UNCHANGED acct
    /\ snap' = [snap EXCEPT ![o] = 0]
    /\ pc' = [pc EXCEPT ![o] = "leaving"]
    /\ UNCHANGED <<limit, used, reserved, reconciling, stored, parked, gate, kind,
                   res, old, prev, size, recon, rpc>>

\* The Drop of an accounting guard: anything unsettled marks uncertainty again.
DropAccounting(o) ==
    /\ IF acct[o] \in {"awaiting", "published"}
       THEN MarkUncertain
       ELSE UNCHANGED <<accurate, wake>>
    /\ ReleaseReservation(o)
    /\ Forget(o)

\* The gate is released.  PublicationAccounting is a parameter of publish and so
\* outlives the gate; the guards of copies and deletes die just before it.
LeaveGate(o) ==
    /\ pc[o] = "leaving"
    /\ gate' = Free
    /\ IF kind[o] = "upload"
       THEN /\ pc' = [pc EXCEPT ![o] = "dropping"]
            /\ UNCHANGED <<accurate, wake, reserved, res, kind, old, prev, size,
                           acct>>
       ELSE DropAccounting(o)
    /\ UNCHANGED <<limit, used, reconciling, disk, snap, recon, rpc, faults>>

FinishUpload(o) ==
    /\ pc[o] = "dropping"
    /\ DropAccounting(o)
    /\ UNCHANGED <<limit, used, reconciling, disk, gate, snap, recon, rpc, faults>>

-----------------------------------------------------------------------------
(* Reconcilers: the woken worker, the periodic sweep, a failed move *)

\* spawn_local_capacity_reconciler: wake.notified().
WorkerWakes ==
    /\ "worker" \in Scanners /\ scan["worker"] = "idle" /\ wake
    /\ wake' = FALSE
    /\ scan' = [scan EXCEPT !["worker"] = "trying"]
    /\ UNCHANGED <<tracker, disk, gate, task, found, rpc, faults>>

\* StorageBackend::reconcile_capacity on the maintenance interval.
SweepStarts ==
    /\ "sweep" \in Scanners /\ scan["sweep"] = "idle"
    /\ MarkUncertain
    /\ scan' = [scan EXCEPT !["sweep"] = "trying"]
    /\ UNCHANGED <<limit, used, reserved, reconciling, disk, gate, task, found, rpc,
                   faults>>

\* move_path_inner after an error: rescans without declaring uncertainty.
MoveFails ==
    /\ "mover" \in Scanners /\ scan["mover"] = "idle"
    /\ Fault
    /\ scan' = [scan EXCEPT !["mover"] = "trying"]
    /\ UNCHANGED <<tracker, disk, gate, task, found, rpc, wake>>

\* begin_reconciliation: a claim held by another scan counts as success here.
BeginReconciliation(s) ==
    /\ scan[s] = "trying"
    /\ \/ reconciling /\ scan' = [scan EXCEPT ![s] = "idle"]
       \/ ~reconciling /\ scan' = [scan EXCEPT ![s] = "queued"]
    /\ reconciling' = TRUE
    /\ UNCHANGED <<limit, used, reserved, accurate, disk, gate, task, found, rpc,
                   wake, faults>>

\* reconcile_capacity_snapshot takes the mutation gate and scans.
TakeScanGate(s) ==
    /\ scan[s] = "queued" /\ gate = Free
    /\ gate' = s
    /\ scan' = [scan EXCEPT ![s] = "scanning"]
    /\ UNCHANGED <<tracker, disk, task, found, rpc, wake, faults>>

\* user_data_size.
Scan(s) ==
    /\ scan[s] = "scanning"
    /\ \/ /\ found' = [found EXCEPT ![s] = stored]
          /\ scan' = [scan EXCEPT ![s] = "scanned"]
          /\ UNCHANGED <<gate, faults>>
       \/ /\ Fault
          /\ scan' = [scan EXCEPT ![s] = "failed"]
          /\ gate' = Free
          /\ UNCHANGED found
    /\ UNCHANGED <<tracker, disk, task, rpc, wake>>

\* persist_reconciled: the ledger first, then the tracker, then the gate.
PersistReconciled(s) ==
    /\ scan[s] = "scanned"
    /\ gate' = Free
    /\ \/ /\ ledger' = found[s]
          /\ used' = found[s] /\ accurate' = TRUE /\ reconciling' = FALSE
          /\ scan' = [scan EXCEPT ![s] = "idle"]
          /\ UNCHANGED faults
       \/ /\ SaveFails(found[s])
          /\ scan' = [scan EXCEPT ![s] = "failed"]
          /\ UNCHANGED <<used, accurate, reconciling>>
    /\ found' = [found EXCEPT ![s] = 0]
    /\ UNCHANGED <<limit, reserved, stored, parked, task, rpc, wake>>

\* mutant: the claim is not given back
ReconciliationFailedClaimed(s) ==
    /\ scan[s] = "failed"
    /\ accurate' = FALSE
    /\ scan' = [scan EXCEPT ![s] = IF s = "worker" THEN "trying" ELSE "idle"]
    /\ UNCHANGED <<limit, used, reserved, reconciling, disk, gate, task, found, rpc,
                   wake, faults>>

\* reconciliation_failed gives the claim back.  Only the worker tries again.
ReconciliationFailed(s) ==
    /\ scan[s] = "failed"
    /\ accurate' = FALSE /\ reconciling' = FALSE
    /\ scan' = [scan EXCEPT ![s] = IF s = "worker" THEN "trying" ELSE "idle"]
    /\ UNCHANGED <<limit, used, reserved, disk, gate, task, found, rpc, wake, faults>>

-----------------------------------------------------------------------------
(* Online recovery of interrupted replacements *)

\* recover_quiesced_uploads takes the gate for the whole pass.
BeginRecovery ==
    /\ rpc = "idle" /\ gate = Free /\ parked > 0
    /\ gate' = "recovery" /\ rpc' = "running"
    /\ UNCHANGED <<tracker, disk, task, recon, wake, faults>>

\* recover_replacement calls on_change before the backup is renamed back.
AnnounceRestore ==
    /\ rpc = "running" /\ parked > 0
    /\ MarkUncertain
    /\ rpc' = "restoring"
    /\ UNCHANGED <<limit, used, reserved, reconciling, disk, gate, task, recon,
                   faults>>

RestoreBackup(n) ==
    /\ rpc = "restoring" /\ n > 0 /\ n <= parked
    /\ stored + n <= MaxBytes
    /\ stored' = stored + n /\ parked' = parked - n
    /\ rpc' = "running"
    /\ UNCHANGED <<tracker, ledger, gate, task, recon, wake, faults>>

\* A destination published again meanwhile: the backup is only removed.
DiscardBackup(n) ==
    /\ rpc = "running" /\ n > 0 /\ n <= parked
    /\ parked' = parked - n
    /\ UNCHANGED <<tracker, ledger, stored, gate, task, recon, rpc, wake, faults>>

\* The pass ends, or gives up on an error, and releases the gate.
EndRecovery ==
    /\ rpc # "idle"
    /\ gate' = Free /\ rpc' = "idle"
    /\ UNCHANGED <<tracker, disk, task, recon, wake, faults>>

-----------------------------------------------------------------------------
Streaming(o) ==
    \/ \E m, n \in Bytes : Reserve(o, m, n)
    \/ \E n \in Bytes : Receive(o, n)
    \/ Abort(o)
    \/ \E m, n \in Bytes : BeginTransfer(o, m, n)
    \/ \E n \in Bytes : BeginDelete(o, n)
    \/ EnterPublication(o)

\* What a task does once it holds the gate, up to and including its last drop.
Publication(o) ==
    \/ RefuseBeforeOwnership(o)
    \/ \E p \in Bytes : Prepare(o, p)
    \/ Rename(o)
    \/ RollBack(o)
    \/ LoseTrack(o)
    \/ PersistUnknown(o)
    \/ Published(o)
    \/ Persist(o)
    \/ SaveLedger(o)
    \/ LeaveGate(o)
    \/ FinishUpload(o)

Reconciling(s) ==
    \/ BeginReconciliation(s)
    \/ TakeScanGate(s)
    \/ Scan(s)
    \/ PersistReconciled(s)
    \/ ReconciliationFailed(s)

Recovery ==
    \/ BeginRecovery
    \/ AnnounceRestore
    \/ \E n \in Bytes : RestoreBackup(n)
    \/ \E n \in Bytes : DiscardBackup(n)
    \/ EndRecovery

Next ==
    \/ \E o \in Owners : Streaming(o) \/ Publication(o)
    \/ WorkerWakes \/ SweepStarts \/ MoveFails
    \/ \E s \in Scanners : Reconciling(s)
    \/ Recovery
    \/ SetLimit

Spec == Init /\ [][Next]_vars

(***************************************************************************)
(* Publications, scans and recovery are spawned tasks that run to their    *)
(* end; clients, administrators and faults owe nothing.  Tokio's mutex is  *)
(* FIFO, so a queued scan cannot be overtaken for ever (strong fairness).  *)
(* The sweep is the maintenance interval of bootstrap.rs.                  *)
(***************************************************************************)
Fairness ==
    /\ \A o \in Owners : WF_vars(Publication(o))
    /\ WF_vars(EndRecovery)
    /\ WF_vars(WorkerWakes) /\ WF_vars(SweepStarts)
    /\ \A s \in Scanners : WF_vars(Reconciling(s)) /\ SF_vars(TakeScanGate(s))

FairSpec == Spec /\ Fairness

-----------------------------------------------------------------------------
(* Properties *)

Outside == gate = Free

\* Whenever no mutation or scan holds the gate, a tracker that calls itself
\* accurate reports exactly the bytes on disk: a publication whose result is
\* unknown, a failed ledger write or a restored backup always says so first.
AccurateIsTrue == Outside /\ accurate => used = stored

\* Outside the gate the ledger never holds a value other than the accurate one:
\* the order in which persist and persist_reconciled finish cannot leave an
\* older snapshot behind.
LedgerFollows == Outside /\ accurate => ledger \in {used, NoLedger}

\* While the accounting stays accurate and the limit stays put, no step pushes
\* used + reserved (further) beyond the limit, whatever the interleaving of
\* reservations made without the gate and replacements rechecked under it.
NoOvercommit ==
    [][ /\ accurate /\ accurate' /\ limit' = limit
        /\ limit # NoLimit /\ used' + reserved' > limit
        => used' + reserved' <= used + reserved ]_vars

\* A quota that is uncertain becomes accurate again, so uploads are not refused
\* for ever: the wake-up, the claim and the sweep between them leave no state in
\* which everybody believes somebody else is scanning.
UncertaintyEnds == ~accurate ~> accurate
=============================================================================
