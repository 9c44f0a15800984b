---------------------------- MODULE UploadTicket ----------------------------
(***************************************************************************)
(* One upload ticket (upload_batch.rs): its items in the registry, its     *)
(* records in the persistent index (upload_batch/persistence.rs), the      *)
(* requests that begin and cancel items, the tasks that execute uploads,   *)
(* the recovery that settles unknown results, the administrator's          *)
(* invalidation, expiry and retirement, crashes and restarts.              *)
(*                                                                         *)
(* A critical section of the registry mutex is one action.  Persistence    *)
(* runs outside of it, under the ticket's transition lock, as a blocking   *)
(* task that survives the request that awaits it: a handler dropped by a   *)
(* disconnected client releases the lock and leaves its write in `late'.   *)
(***************************************************************************)
EXTENDS Naturals, FiniteSets

CONSTANTS
    Paths,        \* the items of the ticket
    Requests,     \* HTTP requests that may be served at the same time
    Retirement,   \* how the ticket may be retired: by expiry, under pressure
    MaxDrops,     \* disconnected clients per behaviour (bound)
    MaxFaults,    \* failed or unconfirmed writes and removals (bound)
    MaxCrashes    \* restarts of the process (bound)

Free == "free"
Recovery == "recovery"

ASSUME TicketAssumption ==
    /\ Retirement \subseteq {"expiry", "pressure"}
    /\ MaxDrops \in Nat /\ MaxFaults \in Nat /\ MaxCrashes \in Nat
    /\ Requests \cap {Free, Recovery} = {}

VARIABLES
    mem,        \* UploadItem.status of every item
    expired,    \* expires_at is over
    bound,      \* recovery_backend.is_some()
    ticket,     \* BatchRetirement, or "gone" once it left the registry
    restored,   \* loaded from disk: subject is None
    dir, manifest, record,   \* the ticket's directory and its files
    undo,       \* records a power failure may bring back
    late,       \* writes whose awaiting request is gone
    lock,       \* holder of UploadBatch.transition
    pc,         \* where each request or its execution task is
    path,       \* the item it works on
    todo,       \* the items a cancellation has yet to write
    result,     \* the status its finish will store
    rec,        \* the confirmation of upload_recovery
    truth,      \* whether the item's upload changed the storage
    drops, faults, crashes

item == <<mem, expired, bound>>
index == <<dir, manifest, record, undo>>
task == <<pc, path, todo, result>>
vars == <<mem, expired, bound, ticket, restored, dir, manifest, record, undo,
          late, lock, pc, path, todo, result, rec, truth, drops, faults, crashes>>

Status == {"Pending", "InProgress", "Complete", "Failed", "Unknown", "Cancelled"}
Absent == "absent"
NoPath == "none"
Locations == {"idle", "begin", "admit", "revoke", "running", "unsure", "giving up",
              "settle", "settling", "drop", "dropping", "cancel", "cancelling"}

\* A write whose request is gone, and a confirmation of the recovery.
LateWrites == [id : 1..MaxDrops, path : Paths, status : Status]
Confirmations == [at : {"idle", "confirm", "confirming"}, path : Paths \cup {NoPath},
                  status : Status]

TypeOK ==
    /\ mem \in [Paths -> Status]
    /\ expired \in BOOLEAN /\ bound \in BOOLEAN /\ restored \in BOOLEAN
    /\ ticket \in {"Active", "Pending", "Cleaning", "gone"}
    /\ dir \in BOOLEAN /\ manifest \in BOOLEAN
    /\ record \in [Paths -> Status \cup {Absent}]
    /\ undo \in [Paths -> SUBSET (Status \cup {Absent})]
    /\ late \subseteq LateWrites
    /\ lock \in Requests \cup {Recovery, Free}
    /\ pc \in [Requests -> Locations]
    /\ path \in [Requests -> Paths \cup {NoPath}] /\ todo \in [Requests -> SUBSET Paths]
    /\ result \in [Requests -> Status]
    /\ rec \in Confirmations
    /\ truth \in [Paths -> {"no", "yes", "open"}]
    /\ drops \in 0..MaxDrops /\ faults \in 0..MaxFaults /\ crashes \in 0..MaxCrashes

NoConfirmation == [at |-> "idle", path |-> NoPath, status |-> "Unknown"]

\* BatchPersistence::create: a directory and its manifest, and no item record.
NewIndex ==
    /\ dir = TRUE /\ manifest = TRUE
    /\ record = [p \in Paths |-> Absent] /\ undo = [p \in Paths |-> {}] /\ late = {}

\* A ticket that create_for_account_with_namespace_owned has just returned.
Init ==
    /\ mem = [p \in Paths |-> "Pending"] /\ expired = FALSE /\ bound = FALSE
    /\ ticket = "Active" /\ restored = FALSE
    /\ NewIndex
    /\ lock = Free
    /\ pc = [r \in Requests |-> "idle"]
    /\ path = [r \in Requests |-> NoPath]
    /\ todo = [r \in Requests |-> {}] /\ result = [r \in Requests |-> "Unknown"]
    /\ rec = NoConfirmation
    /\ truth = [p \in Paths |-> "no"]
    /\ drops = 0 /\ faults = 0 /\ crashes = 0

-----------------------------------------------------------------------------
(* upload_batch/item.rs *)

IsTerminal(s) == s \in {"Complete", "Failed", "Cancelled"}
NeedsRecovery(s) == s \in {"InProgress", "Unknown"}
CanCancel(s) == s \in {"Pending", "Failed"}

\* UploadItem::begin_decision answers Start.
MayStart(s) == s \in {"Pending", "Failed"}

\* UploadStatus::after_restart; an item without a record was never begun.
AfterRestart(s) ==
    CASE s \in {Absent, "Pending"} -> "Cancelled"
      [] s = "InProgress"          -> "Unknown"
      [] OTHER                     -> s

\* classify_upload_result on the outcome of an upload.
Classified(outcome) ==
    CASE outcome \in {"yes", "yes, cleanup pending"} -> "Complete"
      [] outcome \in {"unknown", "no, cleanup pending"} -> "Unknown"
      [] outcome = "no" -> "Failed"

\* batch_retention: a changed ticket lives for a new term.
Prolonged == expired' = FALSE

HasRecoveryWork(m) == \E p \in Paths : NeedsRecovery(m[p])

\* batch_is_retained of an active batch.
Retained == ~expired \/ HasRecoveryWork(mem)

\* The operations that hold a clone of `transition' (Arc::strong_count > 1).
Users == {r \in Requests : pc[r] \in {"begin", "admit", "revoke", "giving up",
                                      "settling", "dropping", "cancel", "cancelling"}}

\* prune_expired would retire the ticket.
Prunable ==
    /\ \/ ticket = "Pending"
       \/ ticket = "Active" /\ ~Retained
    /\ Users = {} /\ lock = Free

\* lock_transition prunes first, then refuses a ticket that is being retired.
Lockable == ticket = "Active" /\ ~Prunable

-----------------------------------------------------------------------------
(* BatchPersistence::update: config::commit::publish of one item record *)

Fault == faults < MaxFaults /\ faults' = faults + 1

\* Published and the directory synced: every earlier record is durable too.
Confirmed(p, s) ==
    /\ dir
    /\ record' = [record EXCEPT ![p] = s]
    /\ undo' = [q \in Paths |-> {}]
    /\ UNCHANGED <<dir, manifest, faults>>

\* Published, but the directory could not be synced.
Unconfirmed(p, s) ==
    /\ dir
    /\ record' = [record EXCEPT ![p] = s]
    /\ undo' = [undo EXCEPT ![p] = @ \cup {record[p]}]
    /\ Fault
    /\ UNCHANGED <<dir, manifest>>

\* The record could not be prepared or renamed.
NotWritten ==
    /\ UNCHANGED index
    /\ \/ Fault
       \/ ~dir /\ UNCHANGED faults

Written(p, s) == Confirmed(p, s) \/ Unconfirmed(p, s)

-----------------------------------------------------------------------------
(* UploadBatchStore::begin *)

\* The end of a request or of its execution task.
Leave(r) ==
    /\ pc' = [pc EXCEPT ![r] = "idle"]
    /\ path' = [path EXCEPT ![r] = NoPath]
    /\ todo' = [todo EXCEPT ![r] = {}]
    /\ result' = [result EXCEPT ![r] = "Unknown"]

Release(r) == lock' = Free /\ Leave(r)

Goto(r, next) ==
    /\ pc' = [pc EXCEPT ![r] = next]
    /\ UNCHANGED <<path, todo, result>>

Begin(r, p) ==
    /\ pc[r] = "idle" /\ Lockable
    /\ pc' = [pc EXCEPT ![r] = "begin"]
    /\ path' = [path EXCEPT ![r] = p]
    /\ UNCHANGED <<item, ticket, restored, index, late, lock, todo, result, rec, truth,
                   drops, faults, crashes>>

\* mutant: the transition lock is not taken
DecideUnlocked(r) ==
    /\ pc[r] = "begin"
    /\ ~restored /\ MayStart(mem[path[r]])
    /\ pc' = [pc EXCEPT ![r] = "admit"]
    /\ UNCHANGED <<item, ticket, restored, index, late, lock, path, todo, result, rec,
                   truth, drops, faults, crashes>>

\* The transition is held: the subject and the item's state are checked.
Decide(r) ==
    /\ pc[r] = "begin" /\ lock = Free
    /\ IF ~restored /\ MayStart(mem[path[r]])
       THEN lock' = r /\ Goto(r, "admit")
       ELSE Release(r)
    /\ UNCHANGED <<item, ticket, restored, index, late, rec, truth, drops, faults,
                   crashes>>

AdmissionFails(r) ==
    /\ pc[r] = "admit"
    /\ NotWritten
    /\ Release(r)
    /\ UNCHANGED <<item, ticket, restored, late, rec, truth, drops, crashes>>

\* InProgress is on disk.  An edit may have cancelled the item meanwhile; an
\* unconfirmed record must not be followed by an execution.
Started(r, next) ==
    /\ mem' = [mem EXCEPT ![path[r]] = "InProgress"]
    /\ Prolonged
    /\ lock' = Free
    /\ Goto(r, next)
    /\ UNCHANGED bound

\* mutant: the item is not looked at again after the write
AdmittedUnchecked(r) ==
    /\ pc[r] = "admit"
    /\ \/ Confirmed(path[r], "InProgress") /\ Started(r, "running")
       \/ Unconfirmed(path[r], "InProgress") /\ Started(r, "unsure")
    /\ UNCHANGED <<ticket, restored, late, rec, truth, drops, crashes>>

\* mutant: the upload starts although its record may be lost
AdmittedUnconfirmed(r) ==
    /\ pc[r] = "admit"
    /\ IF mem[path[r]] = "Cancelled"
       THEN /\ Written(path[r], "InProgress")
            /\ Goto(r, "revoke")
            /\ UNCHANGED <<item, lock>>
       ELSE Written(path[r], "InProgress") /\ Started(r, "running")
    /\ UNCHANGED <<ticket, restored, late, rec, truth, drops, crashes>>

Admitted(r) ==
    /\ pc[r] = "admit"
    /\ IF mem[path[r]] = "Cancelled"
       THEN /\ Written(path[r], "InProgress")
            /\ Goto(r, "revoke")
            /\ UNCHANGED <<item, lock>>
       ELSE \/ Confirmed(path[r], "InProgress") /\ Started(r, "running")
            \/ Unconfirmed(path[r], "InProgress") /\ Started(r, "unsure")
    /\ UNCHANGED <<ticket, restored, late, rec, truth, drops, crashes>>

\* The item was cancelled meanwhile: its record is set back.
Revoked(r) ==
    /\ pc[r] = "revoke"
    /\ Written(path[r], "Cancelled") \/ NotWritten
    /\ Release(r)
    /\ UNCHANGED <<item, ticket, restored, late, rec, truth, drops, crashes>>

-----------------------------------------------------------------------------
(* The execution task of api::upload_file and direct_upload::start *)

\* The storage's answer.  What an unknown answer did to the storage stays open.
UploadEnds(r, outcome) ==
    /\ pc[r] = "running"
    /\ truth' = [truth EXCEPT ![path[r]] =
                   CASE outcome \in {"yes", "yes, cleanup pending"} -> "yes"
                     [] outcome = "unknown" -> "open"
                     [] OTHER -> "no"]
    /\ result' = [result EXCEPT ![r] = Classified(outcome)]
    /\ pc' = [pc EXCEPT ![r] = "settle"]
    /\ UNCHANGED <<item, ticket, restored, index, late, lock, path, todo, rec, drops,
                   faults, crashes>>

\* The task panics or is aborted: UploadExecutionGuard is dropped.
Interrupted(r) ==
    /\ pc[r] = "running"
    /\ Fault
    /\ truth' = [truth EXCEPT ![path[r]] = "open"]
    /\ pc' = [pc EXCEPT ![r] = "drop"]
    /\ UNCHANGED <<item, ticket, restored, index, late, lock, path, todo, result, rec,
                   drops, crashes>>

\* finish_with_status: lock_transition, or nothing if the ticket is retired.
\* `unsure' is the call begin makes itself after an unconfirmed admission.
Settle(r) ==
    /\ pc[r] \in {"settle", "unsure"}
    /\ IF Lockable
       THEN /\ lock = Free /\ lock' = r
            /\ Goto(r, IF pc[r] = "settle" THEN "settling" ELSE "giving up")
       ELSE Leave(r) /\ UNCHANGED lock
    /\ UNCHANGED <<item, ticket, restored, index, late, rec, truth, drops, faults,
                   crashes>>

\* An item's result in the registry; the last one releases the old backend.
Store(p, s) ==
    /\ mem' = [mem EXCEPT ![p] = s]
    /\ Prolonged
    /\ bound' = (bound /\ HasRecoveryWork(mem'))

\* A record that cannot be written is left for recovery to verify.
Settled(r) ==
    LET s == IF pc[r] = "settling" THEN result[r] ELSE "Failed" IN
    /\ pc[r] \in {"settling", "giving up"}
    /\ Written(path[r], s) \/ NotWritten
    /\ Store(path[r], s)
    /\ Release(r)
    /\ UNCHANGED <<ticket, restored, late, rec, truth, drops, crashes>>

\* The task spawned by UploadExecutionGuard::drop.
Drop(r) ==
    /\ pc[r] = "drop"
    /\ IF Lockable /\ mem[path[r]] = "InProgress"
       THEN /\ lock = Free /\ lock' = r
            /\ Goto(r, "dropping")
       ELSE Leave(r) /\ UNCHANGED lock
    /\ UNCHANGED <<item, ticket, restored, index, late, rec, truth, drops, faults,
                   crashes>>

Dropped(r) ==
    /\ pc[r] = "dropping"
    /\ Written(path[r], "Unknown") \/ NotWritten
    /\ mem' = [mem EXCEPT ![path[r]] = "Unknown"]
    /\ Release(r)
    /\ UNCHANGED <<expired, bound, ticket, restored, late, rec, truth, drops, crashes>>

-----------------------------------------------------------------------------
(* UploadBatchStore::cancel *)

Cancel(r, chosen) ==
    /\ pc[r] = "idle" /\ Lockable
    /\ pc' = [pc EXCEPT ![r] = "cancel"]
    /\ todo' = [todo EXCEPT ![r] = chosen]
    /\ UNCHANGED <<item, ticket, restored, index, late, lock, path, result, rec, truth,
                   drops, faults, crashes>>

CancelDecides(r) ==
    LET chosen == {p \in todo[r] : CanCancel(mem[p])} IN
    /\ pc[r] = "cancel" /\ lock = Free
    /\ IF ~restored /\ chosen # {}
       THEN /\ lock' = r /\ pc' = [pc EXCEPT ![r] = "cancelling"]
            /\ todo' = [todo EXCEPT ![r] = chosen]
            /\ UNCHANGED <<expired, path, result>>
       ELSE /\ Release(r)
            /\ expired' = (restored /\ expired)
    /\ UNCHANGED <<mem, bound, ticket, restored, index, late, rec, truth, drops, faults,
                   crashes>>

\* One item: first its record, then the registry.
CancelOne(r, p) ==
    /\ pc[r] = "cancelling" /\ p \in todo[r]
    /\ Written(p, "Cancelled")
    /\ mem' = [mem EXCEPT ![p] = "Cancelled"]
    /\ IF todo[r] = {p}
       THEN Release(r) /\ Prolonged
       ELSE /\ todo' = [todo EXCEPT ![r] = @ \ {p}]
            /\ UNCHANGED <<lock, pc, path, result, expired>>
    /\ UNCHANGED <<bound, ticket, restored, late, rec, truth, drops, crashes>>

CancelFails(r) ==
    /\ pc[r] = "cancelling"
    /\ NotWritten
    /\ Release(r)
    /\ UNCHANGED <<item, ticket, restored, late, rec, truth, drops, crashes>>

-----------------------------------------------------------------------------
(* A client disconnects and its handler is dropped *)

\* The write a handler is waiting for.
InFlight(r) ==
    CASE pc[r] = "admit"      -> {[path |-> path[r], status |-> "InProgress"]}
      [] pc[r] = "revoke"     -> {[path |-> path[r], status |-> "Cancelled"]}
      [] pc[r] = "giving up"  -> {[path |-> path[r], status |-> "Failed"]}
      [] pc[r] = "cancelling" -> [path : todo[r], status : {"Cancelled"}]
      [] OTHER                -> {}

\* The lock goes with the handler; the blocking write goes on by itself.
Disconnect(r) ==
    /\ pc[r] \in {"begin", "cancel", "unsure", "admit", "revoke", "giving up",
                  "cancelling"}
    /\ drops < MaxDrops /\ drops' = drops + 1
    /\ IF InFlight(r) = {}
       THEN UNCHANGED <<lock, late>>
       ELSE /\ lock' = Free
            /\ \E w \in InFlight(r) :
                 late' = late \cup {[id |-> drops', path |-> w.path, status |-> w.status]}
    /\ Leave(r)
    /\ UNCHANGED <<item, ticket, restored, index, rec, truth, faults, crashes>>

LateWrite(w) ==
    /\ w \in late
    /\ Written(w.path, w.status) \/ NotWritten
    /\ late' = late \ {w}
    /\ UNCHANGED <<item, ticket, restored, lock, task, rec, truth, drops, crashes>>

-----------------------------------------------------------------------------
(* upload_recovery and confirm_unknown_outcome *)

\* An open result is decided by journal recovery or a late remote completion.
Resolve(p, yes) ==
    /\ truth[p] = "open"
    /\ truth' = [truth EXCEPT ![p] = IF yes THEN "yes" ELSE "no"]
    /\ UNCHANGED <<item, ticket, restored, index, late, lock, task, rec, drops, faults,
                   crashes>>

UnknownItems == {p \in Paths : ticket # "gone" /\ mem[p] = "Unknown"}

\* recover_with_budget: recovered_upload_outcome once no live owner is left.
Inspect(p) ==
    /\ rec.at = "idle" /\ p \in UnknownItems
    /\ \A r \in Requests : pc[r] # "running"
    /\ truth[p] # "open"
    /\ rec' = [at |-> "confirm", path |-> p,
               status |-> IF truth[p] = "yes" THEN "Complete" ELSE "Failed"]
    /\ UNCHANGED <<item, ticket, restored, index, late, lock, task, truth, drops, faults,
                   crashes>>

Confirm ==
    /\ rec.at = "confirm"
    /\ IF Lockable /\ mem[rec.path] = "Unknown"
       THEN /\ lock = Free /\ lock' = Recovery
            /\ rec' = [rec EXCEPT !.at = "confirming"]
       ELSE rec' = NoConfirmation /\ UNCHANGED lock
    /\ UNCHANGED <<item, ticket, restored, index, late, task, truth, drops, faults, crashes>>

\* Unlike finish, a failed write leaves the item Unknown for the next pass.
ConfirmEnds ==
    /\ rec.at = "confirming"
    /\ \/ Written(rec.path, rec.status) /\ Store(rec.path, rec.status)
       \/ NotWritten /\ UNCHANGED item
    /\ rec' = NoConfirmation /\ lock' = Free
    /\ UNCHANGED <<ticket, restored, late, task, truth, drops, crashes>>

-----------------------------------------------------------------------------
(* Administrator, expiry and retirement *)

\* invalidate_storage: the registry only, not waiting for the transition lock.
Invalidate ==
    /\ ticket # "gone" /\ ~bound
    /\ mem' = [p \in Paths |-> IF mem[p] = "Pending" THEN "Cancelled" ELSE mem[p]]
    /\ \E backend \in BOOLEAN : bound' = (backend /\ HasRecoveryWork(mem'))
    /\ Prolonged
    /\ UNCHANGED <<ticket, restored, index, late, lock, task, rec, truth, drops, faults,
                   crashes>>

\* expires_at passes.
Expire ==
    /\ "expiry" \in Retirement /\ ~expired
    /\ expired' = TRUE
    /\ UNCHANGED <<mem, bound, ticket, restored, index, late, lock, task, rec, truth,
                   drops, faults, crashes>>

\* retire_batch, from prune_expired or to make room for another ticket.
Retire ==
    /\ \/ Prunable
       \/ /\ "pressure" \in Retirement /\ ticket = "Active" /\ Users = {} /\ lock = Free
          /\ \A p \in Paths : IsTerminal(mem[p])
    /\ ticket' = "Cleaning"
    /\ UNCHANGED <<item, restored, index, late, lock, task, rec, truth, drops, faults,
                   crashes>>

\* remove_dir_all takes the files one by one, in any order.
RemoveRecord(p) ==
    /\ ticket = "Cleaning" /\ dir /\ record[p] # Absent
    /\ record' = [record EXCEPT ![p] = Absent]
    /\ UNCHANGED <<item, ticket, restored, dir, manifest, undo, late, lock, task, rec,
                   truth, drops, faults, crashes>>

RemoveManifest ==
    /\ ticket = "Cleaning" /\ manifest
    /\ manifest' = FALSE
    /\ UNCHANGED <<item, ticket, restored, dir, record, undo, late, lock, task, rec, truth,
                   drops, faults, crashes>>

RemoveDirectory ==
    /\ ticket = "Cleaning" /\ dir /\ ~manifest
    /\ \A p \in Paths : record[p] = Absent
    /\ dir' = FALSE /\ undo' = [p \in Paths |-> {}]
    /\ UNCHANGED <<item, ticket, restored, manifest, record, late, lock, task, rec, truth,
                   drops, faults, crashes>>

\* The receipts are pruned and the batch leaves the registry, or an error, also
\* one of the receipts, leaves it pending.
Forget ==
    /\ ticket = "Cleaning" /\ ~dir
    /\ ticket' = "gone"
    /\ UNCHANGED <<item, restored, index, late, lock, task, rec, truth, drops, faults,
                   crashes>>

RetirementFails ==
    /\ ticket = "Cleaning"
    /\ Fault
    /\ ticket' = "Pending"
    /\ UNCHANGED <<item, restored, index, late, lock, task, rec, truth, drops, crashes>>

-----------------------------------------------------------------------------
(* Crash and BatchPersistence::load *)

\* Without a manifest, or expired and settled, the directory is removed.  The
\* ticket expires with the longest of its records, which an edit or a cancellation
\* that failed half-way may have left later than the registry's entry.
Load(disk) ==
    LET loaded == [p \in Paths |-> AfterRestart(disk[p])] IN
    \/ /\ manifest
       /\ mem' = loaded /\ record' = disk
       /\ expired' \in {FALSE, HasRecoveryWork(loaded)}
       /\ ticket' = "Active" /\ restored' = TRUE
       /\ UNCHANGED <<dir, manifest>>
    \/ /\ ~manifest \/ ~HasRecoveryWork(loaded)
       /\ ticket' = "gone"
       /\ dir' = FALSE /\ manifest' = FALSE
       /\ record' = [p \in Paths |-> Absent]
       /\ UNCHANGED <<mem, expired, restored>>

Restart ==
    /\ ticket # "gone"
    /\ crashes < MaxCrashes /\ crashes' = crashes + 1
    /\ \E disk \in [Paths -> Status \cup {Absent}] :
         /\ \A p \in Paths : disk[p] \in {record[p]} \cup undo[p]
         /\ Load(disk)
    /\ undo' = [p \in Paths |-> {}]
    /\ truth' = [p \in Paths |->
                   IF \E r \in Requests : pc[r] = "running" /\ path[r] = p
                   THEN "open" ELSE truth[p]]
    /\ pc' = [r \in Requests |-> "idle"] /\ path' = [r \in Requests |-> NoPath]
    /\ todo' = [r \in Requests |-> {}] /\ result' = [r \in Requests |-> "Unknown"]
    /\ lock' = Free /\ late' = {} /\ rec' = NoConfirmation /\ bound' = FALSE
    /\ UNCHANGED <<drops, faults>>

-----------------------------------------------------------------------------
Outcomes == {"yes", "yes, cleanup pending", "unknown", "no, cleanup pending", "no"}

Admission(r) == Decide(r) \/ AdmissionFails(r) \/ Admitted(r) \/ Revoked(r)

Execution(r) ==
    \/ \E outcome \in Outcomes : UploadEnds(r, outcome)
    \/ Interrupted(r)
    \/ Settle(r) \/ Settled(r)
    \/ Drop(r) \/ Dropped(r)

Cancellation(r) ==
    \/ CancelDecides(r) \/ CancelFails(r)
    \/ \E p \in Paths : CancelOne(r, p)

Confirmation == (\E p \in Paths : Inspect(p)) \/ Confirm \/ ConfirmEnds

Cleaning ==
    \/ \E p \in Paths : RemoveRecord(p)
    \/ RemoveManifest \/ RemoveDirectory \/ Forget \/ RetirementFails

Next ==
    \/ \E r \in Requests :
         \/ \E p \in Paths : Begin(r, p)
         \/ \E chosen \in (SUBSET Paths) \ {{}} : Cancel(r, chosen)
         \/ Admission(r) \/ Execution(r) \/ Cancellation(r) \/ Disconnect(r)
    \/ \E w \in late : LateWrite(w)
    \/ \E p \in Paths, yes \in BOOLEAN : Resolve(p, yes)
    \/ Confirmation \/ Cleaning
    \/ Invalidate \/ Expire \/ Retire \/ Restart

Spec == Init /\ [][Next]_vars

-----------------------------------------------------------------------------
(* Properties *)

\* The storage may be working on r's item, or its result is not stored yet.
Executing(r) == pc[r] \in {"running", "settle", "settling", "drop", "dropping"}

\* One executor at most, and while there is one the ticket stays registered and
\* keeps the reservation.
OneExecutor ==
    \A r \in Requests :
        Executing(r) =>
            /\ ticket = "Active" /\ mem[path[r]] = "InProgress"
            /\ \A other \in Requests :
                  Executing(other) /\ path[other] = path[r] => other = r

\* Somebody will store the result of an item in progress: its execution task, the
\* guard's task, or the request that settles an unconfirmed admission.
InProgressHasOwner ==
    \A p \in Paths :
        ticket # "gone" /\ mem[p] = "InProgress" =>
            \E r \in Requests :
                path[r] = p /\ (Executing(r) \/ pc[r] \in {"unsure", "giving up"})

\* An item in progress has exactly one executor, whatever requests begin, retry and
\* cancel it, whichever writes fail and whoever panics: the check of the item's state
\* and its change are one transition although the registry is unlocked while
\* InProgress is written; neither expiry nor pressure nor an edit takes the item from
\* it, and only a client that disconnects in `begin' leaves an item without one.
ExactlyOneExecutor == OneExecutor /\ (drops = 0 => InProgressHasOwner)

\* What the registry reports is what happened, also across restarts: Complete
\* only when the file is there, and Pending or Failed, the states from which an
\* upload may be started, only when the earlier attempt left nothing behind.
ReportsTruth ==
    \A p \in Paths :
        /\ mem[p] = "Complete" => truth[p] = "yes"
        /\ mem[p] \in {"Pending", "Failed"} => truth[p] = "no"

\* A restart that lost nothing to a disconnected client restores p of a ticket in use
\* as Complete or as Unknown, which recovery verifies, when its upload changed the
\* storage, or may have, and was not reported Cancelled.
RestoredTruly(p) ==
    drops = 0 /\ ticket = "Active" /\ ticket' = "Active" /\ mem[p] # "Cancelled"
        => truth'[p] = "no" \/ mem'[p] \in {"Complete", "Unknown"}

\* Results are final: while the process runs, a completed item is never reopened and a
\* cancelled one never revived, not even by an admission whose write was under way
\* when the administrator invalidated the storage; and a restart never takes an upload
\* that was executed for one that was not.
ResultsAreFinal ==
    [][\A p \in Paths :
          IF crashes' = crashes
          THEN mem[p] \in {"Complete", "Cancelled"} => mem'[p] = mem[p]
          ELSE RestoredTruly(p)]_vars
=============================================================================
