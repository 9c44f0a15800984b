--------------------------- MODULE StorageLifecycle ---------------------------
(***************************************************************************)
(* Admission, interruption and retirement of one storage instance          *)
(* (src/src/storage_backend/lifecycle.rs), with the administrator's        *)
(* settings operations that drive it (src/src/state.rs and                 *)
(* src/src/state/storage_update.rs) and the maintenance that shares its    *)
(* gates (src/src/storage_backend/maintenance.rs, s3_backend/recovery.rs). *)
(*                                                                         *)
(* Every action is what one task does between two points where another     *)
(* task can interfere: an atomic load or store, a lock, a semaphore        *)
(* acquisition.  The tokio RwLock and Semaphore are fair, so a queued      *)
(* writer or acquire_many also stops every later try_read or try_acquire.  *)
(***************************************************************************)
EXTENDS Naturals, FiniteSets

CONSTANTS
    Requests,          \* HTTP, WebDAV and archive requests on this instance
    Guards,            \* StorageEditGuard values alive at the same time
    NoGuard,
    MaxOwners,         \* MAX_MUTATION_OWNERS
    Remote,            \* the instance is S3: recovery and capacity gates exist
    MaxInterruptions   \* bound on begin_interruption

ASSUME LifecycleAssumption ==
    /\ IsFiniteSet(Requests) /\ NoGuard \notin Guards
    /\ MaxOwners \in Nat /\ MaxInterruptions \in Nat /\ Remote \in BOOLEAN

VARIABLES
    editing, retired,       \* AtomicBools of ActiveStorage
    gen, cut,               \* which transfer token is current; it is cancelled
    rq, lease, token,       \* per request: location, AdmissionLease, token captured
    gd, fg,                 \* per guard: location; still owned by a settings call
    plan, mine, saved,      \* the holder of storage_updates: call, guard, config saved
    enabled, ready,         \* published config; registry entry is Ready
    successor,              \* a replacement instance is prepared or serving
    probe, worker, scanner  \* gate users of the background tasks

flags    == <<editing, retired>>
transfer == <<gen, cut>>
requests == <<rq, lease, token>>
guards   == <<gd, fg>>
admin    == <<plan, mine, saved>>
registry == <<enabled, ready, successor>>
tasks    == <<probe, worker, scanner>>
vars == <<editing, retired, gen, cut, rq, lease, token, gd, fg, plan, mine, saved,
          enabled, ready, successor, probe, worker, scanner>>

RequestLocations ==
    {"out", "config", "checked", "gated", "cleared", "in", "permit", "run"}
GuardLocations ==
    {"none", "cancel", "open", "owners", "leases", "gate", "remote", "capacity", "held",
     "flag", "unlock", "disown", "unremote", "e_check", "e_remote", "e_held", "e_unlock"}

\* what a guard holds at each location
EditingOf  == {"cancel", "open", "owners", "leases", "gate", "remote", "capacity", "held", "flag"}
OwnersOf   == {"leases", "gate", "remote", "capacity", "held", "flag", "unlock", "disown"}
GateOf     == {"remote", "capacity", "held", "flag", "unlock", "e_remote", "e_held"}
RecoveryOf == {"capacity", "held", "flag", "unlock", "disown", "unremote", "e_held", "e_unlock"}
CapacityOf == RecoveryOf \ {"capacity"}

Holding(locations) == {g \in Guards : gd[g] \in locations}

Policies == {"restrict", "disable", "delete"}
Plans == Policies \cup {"none", "replace", "reenable"}

-----------------------------------------------------------------------------
(* Locks *)

PermitHolders == {r \in Requests : rq[r] \in {"permit", "run"}}
Reading(r) == rq[r] \in {"gated", "cleared"} \/ lease[r] = "held"

\* lifecycle: try_read fails behind a writer that holds the lock or waits for it
ReadBlocked == Holding(GateOf \cup {"gate"}) # {}
WriteFree == Holding(GateOf) = {} /\ ~ probe /\ \A r \in Requests : ~ Reading(r)

RecoveryFree == ~ Remote \/ (~ worker /\ scanner # "both" /\ Holding(RecoveryOf) = {})
CapacityFree == ~ Remote \/ (scanner = "idle" /\ Holding(CapacityOf) = {})

\* the transfer token of r is not cancelled
Live(r) == token[r] = gen /\ ~ cut

-----------------------------------------------------------------------------
(* Requests: AppState::storage_backend, StorageRegistry::get and admitted *)

ReadConfig(r) ==
    /\ rq[r] = "out" /\ enabled
    /\ rq' = [rq EXCEPT ![r] = "config"]
    /\ UNCHANGED <<flags, transfer, lease, token, guards, admin, registry, tasks>>

\* the registry's read lock is held from here until admitted returns
Lookup(r) ==
    /\ rq[r] = "config"
    /\ rq' = [rq EXCEPT ![r] = IF ready /\ ~ editing THEN "checked" ELSE "out"]
    /\ UNCHANGED <<flags, transfer, lease, token, guards, admin, registry, tasks>>

TryRead(r) ==
    /\ rq[r] = "checked"
    /\ rq' = [rq EXCEPT ![r] = IF ReadBlocked THEN "out" ELSE "gated"]
    /\ UNCHANGED <<flags, transfer, lease, token, guards, admin, registry, tasks>>

CheckRetired(r) ==
    /\ rq[r] = "gated"
    /\ rq' = [rq EXCEPT ![r] = IF retired THEN "out" ELSE "cleared"]
    /\ UNCHANGED <<flags, transfer, lease, token, guards, admin, registry, tasks>>

\* mutant: the second look at "editing" is dropped
RegisterUnchecked(r) ==
    /\ rq[r] = "cleared"
    /\ rq' = [rq EXCEPT ![r] = "in"]
    /\ lease' = [lease EXCEPT ![r] = "held"]
    /\ token' = [token EXCEPT ![r] = gen]
    /\ UNCHANGED <<flags, transfer, guards, admin, registry, tasks>>

\* under the leases mutex
Register(r) ==
    /\ rq[r] = "cleared"
    /\ IF editing
       THEN rq' = [rq EXCEPT ![r] = "out"] /\ UNCHANGED <<lease, token>>
       ELSE /\ rq' = [rq EXCEPT ![r] = "in"]
            /\ lease' = [lease EXCEPT ![r] = "held"]
            /\ token' = [token EXCEPT ![r] = gen]
    /\ UNCHANGED <<flags, transfer, guards, admin, registry, tasks>>

\* the request ends: the last reference to its lease is dropped
Leave(r) ==
    /\ rq[r] = "in"
    /\ rq' = [rq EXCEPT ![r] = "out"]
    /\ lease' = [lease EXCEPT ![r] = "none"]
    /\ UNCHANGED <<flags, transfer, token, guards, admin, registry, tasks>>

\* owned_mutation: try_acquire, then the checks, then a detached task
TryPermit(r) ==
    /\ rq[r] = "in"
    /\ Cardinality(PermitHolders) < MaxOwners
    /\ Holding(OwnersOf \cup {"owners"}) = {}
    /\ rq' = [rq EXCEPT ![r] = "permit"]
    /\ UNCHANGED <<flags, transfer, lease, token, guards, admin, registry, tasks>>

\* mutant: the transfer token is not consulted
CheckOwnerNoToken(r) ==
    /\ rq[r] = "permit"
    /\ rq' = [rq EXCEPT ![r] = IF editing \/ retired THEN "in" ELSE "run"]
    /\ UNCHANGED <<flags, transfer, lease, token, guards, admin, registry, tasks>>

CheckOwner(r) ==
    /\ rq[r] = "permit"
    /\ rq' = [rq EXCEPT ![r] = IF editing \/ retired \/ ~ Live(r) THEN "in" ELSE "run"]
    /\ UNCHANGED <<flags, transfer, lease, token, guards, admin, registry, tasks>>

\* the mutation returns to its request, or its waiter has gone
EndMutation(r) ==
    /\ rq[r] = "run"
    /\ \/ rq' = [rq EXCEPT ![r] = "in"] /\ UNCHANGED lease
       \/ rq' = [rq EXCEPT ![r] = "out"] /\ lease' = [lease EXCEPT ![r] = "none"]
    /\ UNCHANGED <<flags, transfer, token, guards, admin, registry, tasks>>

-----------------------------------------------------------------------------
(* StorageEditGuard: begin_interruption, drain, drop *)

\* compare_exchange on "editing"; the guard belongs to the settings call
BeginInterruption(g) ==
    /\ ~ editing /\ gd[g] = "none" /\ gen < MaxInterruptions
    /\ editing' = TRUE
    /\ gd' = [gd EXCEPT ![g] = "cancel"]
    /\ fg' = [fg EXCEPT ![g] = TRUE]
    /\ mine' = g

Cancel(g) ==
    /\ gd[g] = "cancel"
    /\ cut' = TRUE
    /\ gd' = [gd EXCEPT ![g] = "open"]
    /\ UNCHANGED <<flags, gen, requests, fg, admin, registry, tasks>>

\* drain runs in the replacement call, or in the task spawned by Drop
Drains(g) == ~ fg[g] \/ plan = "replace"

MoveGuard(g, from, to) ==
    /\ gd[g] = from
    /\ gd' = [gd EXCEPT ![g] = to]

StartDrain(g) ==
    /\ Drains(g) /\ MoveGuard(g, "open", "owners")
    /\ UNCHANGED <<flags, transfer, requests, fg, admin, registry, tasks>>

\* mutant: the drain does not wait for the mutation owners
TakeOwnersEarly(g) ==
    /\ MoveGuard(g, "owners", "leases")
    /\ UNCHANGED <<flags, transfer, requests, fg, admin, registry, tasks>>

\* acquire_many_owned(MAX_MUTATION_OWNERS)
TakeOwners(g) ==
    /\ PermitHolders = {} /\ Holding(OwnersOf) = {}
    /\ MoveGuard(g, "owners", "leases")
    /\ UNCHANGED <<flags, transfer, requests, fg, admin, registry, tasks>>

RevokeLeases(g) ==
    /\ MoveGuard(g, "leases", "gate")
    /\ lease' = [r \in Requests |-> IF lease[r] = "held" THEN "revoked" ELSE lease[r]]
    /\ UNCHANGED <<flags, transfer, rq, token, fg, admin, registry, tasks>>

TakeGate(g) ==
    /\ WriteFree /\ MoveGuard(g, "gate", "remote")
    /\ UNCHANGED <<flags, transfer, requests, fg, admin, registry, tasks>>

\* quiesce_after_interrupt: the recovery gate, then the capacity gate
TakeRecovery(g) ==
    /\ RecoveryFree /\ MoveGuard(g, "remote", "capacity")
    /\ UNCHANGED <<flags, transfer, requests, fg, admin, registry, tasks>>

TakeCapacity(g) ==
    /\ CapacityFree /\ MoveGuard(g, "capacity", "held")
    /\ UNCHANGED <<flags, transfer, requests, fg, admin, registry, tasks>>

\* reopen_after_interruption: a new token, then "editing"
Reopen(g) ==
    /\ ~ fg[g] /\ MoveGuard(g, "held", "flag")
    /\ gen' = gen + 1 /\ cut' = FALSE
    /\ UNCHANGED <<flags, requests, fg, admin, registry, tasks>>

Reopened(g) ==
    /\ MoveGuard(g, "flag", "unlock")
    /\ editing' = FALSE
    /\ UNCHANGED <<retired, transfer, requests, fg, admin, registry, tasks>>

\* the fields of the guard are dropped in their order: gate, owners, remote gates
Release(g) ==
    /\ \/ MoveGuard(g, "unlock", "disown")
       \/ MoveGuard(g, "disown", "unremote")
       \/ MoveGuard(g, "unremote", "none")
       \/ MoveGuard(g, "e_unlock", "none")
    /\ UNCHANGED <<flags, transfer, requests, fg, admin, registry, tasks>>

-----------------------------------------------------------------------------
(* edit_guard: exclusive only if nobody is there *)

\* mutant: the guard does not need the lifecycle write lock
EditGateOpen(g) ==
    /\ gd[g] = "e_check"
    /\ gd' = [gd EXCEPT ![g] = "e_remote"]
    /\ UNCHANGED <<flags, transfer, requests, fg, admin, registry, tasks>>

\* an edit_guard that fails ends the re-enable call it belongs to
GiveUp(g) ==
    IF g = mine THEN plan' = "none" /\ mine' = NoGuard /\ UNCHANGED saved
                ELSE UNCHANGED admin

EditGate(g) ==
    /\ gd[g] = "e_check"
    /\ IF WriteFree /\ ~ ReadBlocked
       THEN gd' = [gd EXCEPT ![g] = "e_remote"] /\ UNCHANGED admin
       ELSE gd' = [gd EXCEPT ![g] = "none"] /\ GiveUp(g)
    /\ UNCHANGED <<flags, transfer, requests, fg, registry, tasks>>

\* quiesce_for_edit; reenable_guard looks once more
EditRemote(g) ==
    /\ gd[g] = "e_remote"
    /\ IF RecoveryFree /\ CapacityFree /\ (g = mine => ~ retired /\ PermitHolders = {})
       THEN gd' = [gd EXCEPT ![g] = "e_held"] /\ UNCHANGED admin
       ELSE gd' = [gd EXCEPT ![g] = "none"] /\ GiveUp(g)
    /\ UNCHANGED <<flags, transfer, requests, fg, registry, tasks>>

\* recover_abandoned_uploads_before: recovery runs while the guard is held
StartRecovery(g) ==
    /\ ~ editing /\ MoveGuard(g, "none", "e_check")
    /\ UNCHANGED <<flags, transfer, requests, fg, admin, registry, tasks>>

EndRecovery(g) ==
    /\ g # mine /\ MoveGuard(g, "e_held", "e_unlock")
    /\ UNCHANGED <<flags, transfer, requests, fg, admin, registry, tasks>>

-----------------------------------------------------------------------------
(* Settings calls, serialized by storage_updates *)

\* update_storage_access, delete_storage: interrupt_for_policy
StartPolicy(k, g) ==
    /\ plan = "none" /\ ~ retired /\ k \in Policies
    /\ plan' = k /\ saved' = FALSE
    /\ IF editing THEN mine' = NoGuard /\ UNCHANGED <<editing, guards>>
                  ELSE BeginInterruption(g)
    /\ UNCHANGED <<retired, transfer, requests, registry, tasks>>

\* apply_storage_edit with another connection: interrupt_for_edit
StartReplace(g) ==
    /\ plan = "none" /\ ~ retired
    /\ plan' = "replace" /\ saved' = FALSE
    /\ BeginInterruption(g)
    /\ UNCHANGED <<retired, transfer, requests, registry, tasks>>

\* reenable_guard
StartReenable(g) ==
    /\ plan = "none" /\ ~ retired /\ ~ enabled /\ ~ editing
    /\ plan' = "reenable" /\ saved' = FALSE /\ mine' = g
    /\ MoveGuard(g, "none", "e_check")
    /\ UNCHANGED <<flags, transfer, requests, fg, registry, tasks>>

\* prepare_storage_backend of the candidate
Prepare ==
    /\ plan = "replace" /\ mine \in Holding({"held"}) /\ ~ successor
    /\ successor' = TRUE
    /\ UNCHANGED <<flags, transfer, requests, guards, admin, enabled, ready, tasks>>

\* where the call publishes: after the cancellation, the drain or the re-enable check
MaySave ==
    CASE plan \in Policies -> mine = NoGuard \/ mine \in Holding({"open"})
      [] plan = "replace" -> successor
      [] plan = "reenable" -> mine \in Holding({"e_held"})
      [] OTHER -> FALSE

\* persist_storage_selection
Save ==
    /\ ~ saved /\ MaySave
    /\ saved' = TRUE
    /\ enabled' = CASE plan \in {"disable", "delete"} -> FALSE
                    [] plan = "reenable" -> TRUE
                    [] OTHER -> enabled
    /\ UNCHANGED <<flags, transfer, requests, guards, plan, mine, ready, successor, tasks>>

Retire ==
    /\ saved /\ plan \in {"delete", "replace"} /\ ~ retired
    /\ retired' = TRUE
    /\ UNCHANGED <<editing, transfer, requests, guards, admin, registry, tasks>>

\* the future is dropped while it waits: its partial acquisition is lost
Dropped(l) ==
    CASE l = "owners" -> "open" [] l = "gate" -> "leases" [] l = "capacity" -> "remote"
      [] l = "e_held" -> "e_unlock" [] OTHER -> l

\* the call returns and its guard is dropped; an undrained interruption goes on
\* in one background task
DropGuard ==
    IF mine = NoGuard THEN UNCHANGED guards
    ELSE /\ gd' = [gd EXCEPT ![mine] = Dropped(@)]
         /\ fg' = [fg EXCEPT ![mine] = FALSE]

EndPlan ==
    /\ plan' = "none" /\ mine' = NoGuard /\ saved' = FALSE
    /\ DropGuard

\* set_enabled, remove or insert_ready waits for admissions in progress
Apply ==
    /\ saved /\ (plan \in {"delete", "replace"} => retired)
    /\ \A r \in Requests : rq[r] \notin {"checked", "gated", "cleared"}
    /\ ready' = CASE plan \in {"disable", "delete", "replace"} -> FALSE
                  [] plan = "reenable" -> TRUE
                  [] OTHER -> ready
    /\ EndPlan
    /\ UNCHANGED <<flags, transfer, requests, enabled, successor, tasks>>

\* EDIT_DRAIN_TIMEOUT, a failed preparation or a failed save; a candidate is dropped
Abort ==
    /\ plan \in Policies \cup {"replace", "reenable"} /\ ~ saved
    /\ mine \notin Holding({"cancel", "leases", "e_check", "e_remote"})
    /\ successor' = FALSE
    /\ EndPlan
    /\ UNCHANGED <<flags, transfer, requests, enabled, ready, tasks>>

-----------------------------------------------------------------------------
(* Background tasks *)

\* recovered_upload_outcome, the local capacity reconciler
Probe ==
    /\ probe' = ~ probe
    /\ probe \/ ~ ReadBlocked
    /\ UNCHANGED <<flags, transfer, requests, guards, admin, registry, worker, scanner>>

\* recover_runtime_transactions: waiting for the gate is cancelled by the pause
\* that comes with the cancellation
WorkerStep ==
    /\ Remote /\ worker' = ~ worker
    /\ worker \/ (~ cut /\ RecoveryFree /\ Holding({"remote"}) = {})
    /\ UNCHANGED <<flags, transfer, requests, guards, admin, registry, probe, scanner>>

\* reconcile_capacity_snapshot: the capacity gate, then try_write
ScannerStep ==
    /\ Remote
    /\ \/ scanner = "idle" /\ CapacityFree /\ Holding({"capacity"}) = {} /\ scanner' = "capacity"
       \/ /\ scanner = "capacity"
          /\ scanner' = IF RecoveryFree /\ Holding({"remote"}) = {} THEN "both" ELSE "idle"
       \/ scanner = "both" /\ scanner' = "idle"
    /\ UNCHANGED <<flags, transfer, requests, guards, admin, registry, probe, worker>>

-----------------------------------------------------------------------------
Init ==
    /\ editing = FALSE /\ retired = FALSE /\ gen = 0 /\ cut = FALSE
    /\ rq = [r \in Requests |-> "out"] /\ lease = [r \in Requests |-> "none"]
    /\ token = [r \in Requests |-> 0]
    /\ gd = [g \in Guards |-> "none"] /\ fg = [g \in Guards |-> FALSE]
    /\ plan = "none" /\ mine = NoGuard /\ saved = FALSE
    /\ enabled = TRUE /\ ready = TRUE /\ successor = FALSE
    /\ probe = FALSE /\ worker = FALSE /\ scanner = "idle"

Admission(r) ==
    ReadConfig(r) \/ Lookup(r) \/ TryRead(r) \/ CheckRetired(r) \/ Register(r) \/ Leave(r)
Mutation(r) == TryPermit(r) \/ CheckOwner(r) \/ EndMutation(r)
Drain(g) ==
    \/ Cancel(g) \/ StartDrain(g) \/ TakeOwners(g) \/ RevokeLeases(g) \/ TakeGate(g)
    \/ TakeRecovery(g) \/ TakeCapacity(g) \/ Reopen(g) \/ Reopened(g) \/ Release(g)
Edit(g) == EditGate(g) \/ EditRemote(g) \/ StartRecovery(g) \/ EndRecovery(g)
Start(g) ==
    (\E k \in Policies : StartPolicy(k, g)) \/ StartReplace(g) \/ StartReenable(g)
Settings == Prepare \/ Save \/ Retire \/ Apply \/ Abort
Background == Probe \/ WorkerStep \/ ScannerStep

Next ==
    \/ \E r \in Requests : Admission(r) \/ Mutation(r)
    \/ \E g \in Guards : Drain(g) \/ Edit(g) \/ Start(g)
    \/ Settings \/ Background

Spec == Init /\ [][Next]_vars

\* Tasks that are scheduled finish: the synchronous part of an admission, a
\* mutation (its payload is cancelled), a drain task and the destructor of a
\* guard, a settings call, recovery and the holders of the maintenance gates.
Fairness ==
    /\ \A r \in Requests :
         /\ WF_vars(Lookup(r) \/ TryRead(r) \/ CheckRetired(r) \/ Register(r) \/ CheckOwner(r))
         /\ WF_vars(EndMutation(r))
    /\ \A g \in Guards : WF_vars(Drain(g)) /\ WF_vars(EditGate(g) \/ EditRemote(g) \/ EndRecovery(g))
    /\ WF_vars(Settings)
    /\ WF_vars(probe /\ Probe) /\ WF_vars(worker /\ WorkerStep)
    /\ WF_vars(scanner # "idle" /\ ScannerStep)
FairSpec == Spec /\ Fairness

-----------------------------------------------------------------------------
(* Properties *)

\* Type correctness.
TypeOK ==
    /\ editing \in BOOLEAN /\ retired \in BOOLEAN /\ gen \in Nat /\ cut \in BOOLEAN
    /\ rq \in [Requests -> RequestLocations]
    /\ lease \in [Requests -> {"none", "held", "revoked"}]
    /\ token \in [Requests -> Nat]
    /\ gd \in [Guards -> GuardLocations] /\ fg \in [Guards -> BOOLEAN]
    /\ plan \in Plans /\ mine \in Guards \cup {NoGuard} /\ saved \in BOOLEAN
    /\ enabled \in BOOLEAN /\ ready \in BOOLEAN /\ successor \in BOOLEAN
    /\ probe \in BOOLEAN /\ worker \in BOOLEAN
    /\ scanner \in {"idle", "capacity", "both"}

\* Whoever holds the exclusive gate (a drained connection edit, a re-enable or the
\* recovery of abandoned uploads) runs beside no mutation.  edit_guard never takes
\* the owners' permits: it relies on every running mutation still holding an
\* unrevoked lease.
ExclusiveMeansQuiet ==
    Holding(GateOf) # {} => \A r \in Requests : rq[r] # "run"

\* A replacement instance never recovers or serves the namespace while the old
\* instance still writes to it (apply_storage_edit: interrupt, prepare, retire).
SuccessorAlone == successor => \A r \in Requests : rq[r] # "run"

\* Admission is reopened only after every mutation that was running before the
\* interruption has ended, and cancelled tokens stay cancelled: with "editing"
\* clear, whatever runs was admitted under the current token.
RunningIsCurrent ==
    \A r \in Requests : rq[r] = "run" /\ ~ editing => Live(r)

\* At most one guard is between begin_interruption and reopening, so two drains
\* never race to reopen admission (Drop hands over to exactly one drain owner).
OneInterruption == \A g, h \in Holding(EditingOf) : g = h

\* A policy that was published under its own interruption leaves no request with
\* a live transfer token (interrupt_for_policy before persist_storage_selection).
GuardedPolicyCancels ==
    [][ (~ saved /\ saved' /\ plan \in Policies /\ mine # NoGuard) =>
          \A r \in Requests : lease[r] = "held" => ~ Live(r) ]_vars

\* An interruption ends: admission is reopened although clients keep coming, the
\* administrator's call times out and the maintenance tasks take the gates.
AdmissionReopens == editing ~> ~ editing

=============================================================================
