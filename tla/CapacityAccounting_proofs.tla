-------------------- MODULE CapacityAccounting_proofs --------------------
(***************************************************************************)
(* The accounting of a local quota is true and its ledger follows it, for  *)
(* any number of concurrent tasks, any disk size and any number of faults. *)
(***************************************************************************)
EXTENDS CapacityAccounting, TLAPS

\* The stages at which a task holds the mutation gate.
InGate == {"admitted", "prepared", "renamed", "unknown", "persist", "saving",
           "leaving"}

(***************************************************************************)
(* The inductive invariant.  Its parts speak about the states in which     *)
(* somebody is inside the gate, where the two properties may be broken for *)
(* a moment.                                                               *)
(***************************************************************************)

\* The gate has the holder its tasks, scans and recovery say it has.
Holders ==
    /\ \A o \in Owners : pc[o] \in InGate <=> gate = o
    /\ \A s \in Scanners : scan[s] \in {"scanning", "scanned"} <=> gate = s
    /\ rpc # "idle" <=> gate = "recovery"

\* What a task replaces was really there, and what a scan found still is.
Measured ==
    /\ \A o \in Owners : pc[o] = "prepared" => prev[o] <= stored
    /\ \A s \in Scanners : scan[s] = "scanned" => found[s] = stored

\* Accurate usage is the truth, except between a rename and its accounting and
\* after a lost publication, both under the gate.
Truth ==
    /\ rpc = "restoring" => ~accurate
    /\ \A o \in Owners :
         accurate /\ pc[o] = "renamed" =>
             prev[o] <= used /\ stored = used - prev[o] + size[o]
    /\ accurate => \/ used = stored
                   \/ \E o \in Owners : pc[o] \in {"renamed", "unknown"}

\* The ledger holds accurate usage unless a task has yet to write it.
Written ==
    /\ \A o \in Owners : pc[o] = "saving" => snap[o] = used
    /\ accurate => \/ ledger \in {used, NoLedger}
                   \/ \E o \in Owners : pc[o] \in {"persist", "saving"}

\* The parts together are inductive; neither of the two properties is alone.
IInv == TypeOK /\ Holders /\ Measured /\ Truth /\ Written

\* The type invariant is preserved by every step.
LEMMA TypeStep == TypeOK /\ Measured /\ [Next]_vars => TypeOK'
<1> SUFFICES ASSUME TypeOK, Measured, [Next]_vars PROVE TypeOK'
  OBVIOUS
<1> USE CapacityAssumption, ActorsAssumption DEF Bytes
<1>1. ASSUME NEW o \in Owners, Streaming(o) \/ Publication(o)
      PROVE  TypeOK'
  <2>1. ASSUME NEW m \in Bytes, NEW n \in Bytes, Reserve(o, m, n)
        PROVE  TypeOK'
    BY <2>1 DEF TypeOK, Reserve, GrowReservation, Additional, Minus, disk,
         recon
  <2>2. ASSUME NEW n \in Bytes, Receive(o, n)
        PROVE  TypeOK'
    BY <2>2 DEF TypeOK, Receive, GrowReservation, Additional, Minus, disk,
         recon
  <2>3. CASE Abort(o)
    BY <2>3 DEF TypeOK, Abort, ReleaseReservation, Minus, Forget, disk, recon
  <2>4. ASSUME NEW m \in Bytes, NEW n \in Bytes, BeginTransfer(o, m, n)
        PROVE  TypeOK'
    BY <2>4 DEF TypeOK, BeginTransfer, GrowReservation, Additional, Minus,
         disk, recon
  <2>5. ASSUME NEW n \in Bytes, BeginDelete(o, n)
        PROVE  TypeOK'
    BY <2>5 DEF TypeOK, BeginDelete, tracker, disk, recon
  <2>6. CASE EnterPublication(o)
    BY <2>6 DEF TypeOK, EnterPublication, tracker, disk, recon
  <2>7. CASE RefuseBeforeOwnership(o)
    BY <2>7 DEF TypeOK, RefuseBeforeOwnership, tracker, disk, recon
  <2>8. ASSUME NEW p \in Bytes, Prepare(o, p)
        PROVE  TypeOK'
    BY <2>8 DEF TypeOK, Prepare, GrowReservation, Additional, Minus, disk,
         recon
  <2>9. CASE Rename(o)
    BY <2>9 DEF TypeOK, Measured, Rename, tracker, recon
  <2>10. CASE RollBack(o)
    BY <2>10 DEF TypeOK, RollBack, Fault, tracker, disk, recon
  <2>11. CASE LoseTrack(o)
    BY <2>11 DEF TypeOK, Measured, LoseTrack, Fault, tracker, recon
  <2>12. CASE PersistUnknown(o)
    BY <2>12 DEF TypeOK, PersistUnknown, MarkUncertain, disk, recon
  <2>13. CASE Published(o)
    BY <2>13 DEF TypeOK, Published, CommitUsed, Minus, disk, recon
  <2>14. CASE Persist(o)
    BY <2>14 DEF TypeOK, Persist, tracker, disk, recon
  <2>15. CASE SaveLedger(o)
    <3>1. accurate' \in BOOLEAN /\ wake' \in BOOLEAN
      BY <2>15 DEF TypeOK, SaveLedger, MarkUncertain
    <3>2. ledger' \in Nat \cup {NoLedger} /\ faults' \in 0..MaxFaults
      BY <2>15 DEF TypeOK, SaveLedger, SaveFails, Fault
    <3>3. /\ acct' \in [Owners -> {"none", "awaiting", "published", "settled"}]
          /\ snap' \in [Owners -> Nat]
      BY <2>15 DEF TypeOK, SaveLedger
    <3> QED
      BY <2>15, <3>1, <3>2, <3>3 DEF TypeOK, SaveLedger, recon
  <2>16. CASE LeaveGate(o)
    <3>1. accurate' \in BOOLEAN /\ wake' \in BOOLEAN
      BY <2>16 DEF TypeOK, LeaveGate, DropAccounting, MarkUncertain
    <3>2. reserved' \in Nat /\ res' \in [Owners -> Nat]
      BY <2>16 DEF TypeOK, LeaveGate, DropAccounting, ReleaseReservation, Minus
    <3>3. /\ pc' \in [Owners -> {"idle", "streaming", "admitted", "prepared",
                                "renamed", "unknown", "persist", "saving",
                                "leaving", "dropping"}]
          /\ kind' \in [Owners -> {"upload", "transfer", "delete"}]
          /\ acct' \in [Owners -> {"none", "awaiting", "published", "settled"}]
      BY <2>16 DEF TypeOK, LeaveGate, DropAccounting, Forget
    <3>4. /\ old' \in [Owners -> Nat]
          /\ prev' \in [Owners -> Nat]
          /\ size' \in [Owners -> Nat]
      BY <2>16 DEF TypeOK, LeaveGate, DropAccounting, Forget
    <3> QED
      BY <2>16, <3>1, <3>2, <3>3, <3>4 DEF TypeOK, LeaveGate, disk, recon
  <2>17. CASE FinishUpload(o)
    <3>1. accurate' \in BOOLEAN /\ wake' \in BOOLEAN
      BY <2>17 DEF TypeOK, FinishUpload, DropAccounting, MarkUncertain
    <3>2. reserved' \in Nat /\ res' \in [Owners -> Nat]
      BY <2>17 DEF TypeOK, FinishUpload, DropAccounting, ReleaseReservation, Minus
    <3>3. /\ pc' \in [Owners -> {"idle", "streaming", "admitted", "prepared",
                                "renamed", "unknown", "persist", "saving",
                                "leaving", "dropping"}]
          /\ kind' \in [Owners -> {"upload", "transfer", "delete"}]
          /\ acct' \in [Owners -> {"none", "awaiting", "published", "settled"}]
      BY <2>17 DEF TypeOK, FinishUpload, DropAccounting, Forget
    <3>4. /\ old' \in [Owners -> Nat]
          /\ prev' \in [Owners -> Nat]
          /\ size' \in [Owners -> Nat]
      BY <2>17 DEF TypeOK, FinishUpload, DropAccounting, Forget
    <3> QED
      BY <2>17, <3>1, <3>2, <3>3, <3>4 DEF TypeOK, FinishUpload, disk, recon
  <2> QED
    BY <1>1, <2>1, <2>2, <2>3, <2>4, <2>5, <2>6, <2>7, <2>8, <2>9, <2>10,
         <2>11, <2>12, <2>13, <2>14, <2>15, <2>16, <2>17 DEF Streaming, Publication
<1>2. ASSUME NEW s \in Scanners, Reconciling(s)
      PROVE  TypeOK'
  <2>1. CASE BeginReconciliation(s)
    BY <2>1 DEF TypeOK, BeginReconciliation, disk, task
  <2>2. CASE TakeScanGate(s)
    BY <2>2 DEF TypeOK, TakeScanGate, tracker, disk, task
  <2>3. CASE Scan(s)
    BY <2>3 DEF TypeOK, Scan, Fault, tracker, disk, task
  <2>4. CASE PersistReconciled(s)
    <3>1. accurate' \in BOOLEAN /\ reconciling' \in BOOLEAN
      BY <2>4, Zenon DEF TypeOK, PersistReconciled
    <3>4. used' \in Nat /\ gate' \in {Free}
      BY <2>4 DEF TypeOK, PersistReconciled
    <3>2. ledger' \in Nat \cup {NoLedger} /\ faults' \in 0..MaxFaults
      BY <2>4 DEF TypeOK, PersistReconciled, SaveFails, Fault
    <3>3. /\ scan' \in [Scanners -> {"idle", "trying", "queued", "scanning",
                                    "scanned", "failed"}]
          /\ found' \in [Scanners -> Nat]
      BY <2>4 DEF TypeOK, PersistReconciled
    <3> QED
      BY <2>4, <3>1, <3>2, <3>3, <3>4 DEF TypeOK, PersistReconciled, task
  <2>5. CASE ReconciliationFailed(s)
    BY <2>5 DEF TypeOK, ReconciliationFailed, disk, task
  <2> QED
    BY <1>2, <2>1, <2>2, <2>3, <2>4, <2>5 DEF Reconciling
<1>3. CASE WorkerWakes
  BY <1>3 DEF TypeOK, WorkerWakes, tracker, disk, task
<1>4. CASE SweepStarts
  BY <1>4 DEF TypeOK, SweepStarts, MarkUncertain, disk, task
<1>5. CASE MoveFails
  BY <1>5 DEF TypeOK, MoveFails, Fault, tracker, disk, task
<1>6. CASE SetLimit
  BY <1>6 DEF TypeOK, SetLimit, disk, task, recon
<1>7. CASE Recovery
  <2>1. CASE BeginRecovery
    BY <2>1 DEF TypeOK, BeginRecovery, tracker, disk, task, recon
  <2>2. CASE AnnounceRestore
    BY <2>2 DEF TypeOK, AnnounceRestore, MarkUncertain, disk, task, recon
  <2>3. ASSUME NEW n \in Bytes, RestoreBackup(n)
        PROVE  TypeOK'
    BY <2>3 DEF TypeOK, RestoreBackup, tracker, task, recon
  <2>4. ASSUME NEW n \in Bytes, DiscardBackup(n)
        PROVE  TypeOK'
    BY <2>4 DEF TypeOK, DiscardBackup, tracker, task, recon
  <2>5. CASE EndRecovery
    BY <2>5 DEF TypeOK, EndRecovery, tracker, disk, task, recon
  <2> QED
    BY <1>7, <2>1, <2>2, <2>3, <2>4, <2>5 DEF Recovery
<1>8. CASE UNCHANGED vars
  BY <1>8 DEF TypeOK, vars
<1> QED
  BY <1>1, <1>2, <1>3, <1>4, <1>5, <1>6, <1>7, <1>8 DEF Next

\* Every step keeps the gate and its holder together.
LEMMA HoldersStep == TypeOK /\ Holders /\ [Next]_vars => Holders'
<1> SUFFICES ASSUME TypeOK, Holders, [Next]_vars PROVE Holders'
  OBVIOUS
<1> USE CapacityAssumption, ActorsAssumption
<1>1. ASSUME NEW o \in Owners, Streaming(o) \/ Publication(o)
      PROVE  Holders'
  <2>1. ASSUME NEW m \in Bytes, NEW n \in Bytes, Reserve(o, m, n)
        PROVE  Holders'
    BY <2>1 DEF Holders, InGate, Reserve, recon
  <2>2. ASSUME NEW n \in Bytes, Receive(o, n)
        PROVE  Holders'
    BY <2>2 DEF Holders, Receive, recon
  <2>3. CASE Abort(o)
    BY <2>3 DEF Holders, InGate, Abort, Forget, recon
  <2>4. ASSUME NEW m \in Bytes, NEW n \in Bytes, BeginTransfer(o, m, n)
        PROVE  Holders'
    BY <2>4 DEF TypeOK, Holders, InGate, Free, BeginTransfer, recon
  <2>5. ASSUME NEW n \in Bytes, BeginDelete(o, n)
        PROVE  Holders'
    BY <2>5 DEF TypeOK, Holders, InGate, Free, BeginDelete, recon
  <2>6. CASE EnterPublication(o)
    BY <2>6 DEF TypeOK, Holders, InGate, Free, EnterPublication, recon
  <2>7. CASE RefuseBeforeOwnership(o)
    BY <2>7 DEF Holders, InGate, RefuseBeforeOwnership, recon
  <2>8. ASSUME NEW p \in Bytes, Prepare(o, p)
        PROVE  Holders'
    BY <2>8 DEF Holders, InGate, Prepare, recon
  <2>9. CASE Rename(o)
    BY <2>9 DEF Holders, InGate, Rename, recon
  <2>10. CASE RollBack(o)
    BY <2>10 DEF Holders, InGate, RollBack, recon
  <2>11. CASE LoseTrack(o)
    BY <2>11 DEF Holders, InGate, LoseTrack, recon
  <2>12. CASE PersistUnknown(o)
    BY <2>12 DEF Holders, InGate, PersistUnknown, recon
  <2>13. CASE Published(o)
    BY <2>13 DEF Holders, InGate, Published, recon
  <2>14. CASE Persist(o)
    BY <2>14 DEF TypeOK, Holders, InGate, Persist, recon
  <2>15. CASE SaveLedger(o)
    BY <2>15 DEF Holders, InGate, SaveLedger, recon
  <2>16. CASE LeaveGate(o)
    BY <2>16 DEF TypeOK, Holders, InGate, Free, LeaveGate, DropAccounting,
         Forget, recon
  <2>17. CASE FinishUpload(o)
    BY <2>17 DEF Holders, InGate, FinishUpload, DropAccounting, Forget, recon
  <2> QED
    BY <1>1, <2>1, <2>2, <2>3, <2>4, <2>5, <2>6, <2>7, <2>8, <2>9, <2>10,
         <2>11, <2>12, <2>13, <2>14, <2>15, <2>16, <2>17 DEF Streaming, Publication
<1>2. ASSUME NEW s \in Scanners, Reconciling(s)
      PROVE  Holders'
  <2>1. CASE BeginReconciliation(s)
    BY <2>1 DEF TypeOK, Holders, BeginReconciliation, task
  <2>2. CASE TakeScanGate(s)
    BY <2>2 DEF TypeOK, Holders, Free, TakeScanGate, task
  <2>3. CASE Scan(s)
    BY <2>3 DEF TypeOK, Holders, Free, Scan, task
  <2>4. CASE PersistReconciled(s)
    BY <2>4 DEF TypeOK, Holders, InGate, Free, PersistReconciled, task
  <2>5. CASE ReconciliationFailed(s)
    BY <2>5 DEF Holders, ReconciliationFailed, task
  <2> QED
    BY <1>2, <2>1, <2>2, <2>3, <2>4, <2>5 DEF Reconciling
<1>3. CASE WorkerWakes
  BY <1>3 DEF Holders, WorkerWakes, tracker, task
<1>4. CASE SweepStarts
  BY <1>4 DEF Holders, SweepStarts, task
<1>5. CASE MoveFails
  BY <1>5 DEF Holders, MoveFails, disk, task
<1>6. CASE SetLimit
  BY <1>6 DEF Holders, SetLimit, task, recon
<1>7. CASE Recovery
  <2>1. CASE BeginRecovery
    BY <2>1 DEF Holders, Free, BeginRecovery, task, recon
  <2>2. CASE AnnounceRestore
    BY <2>2 DEF Holders, AnnounceRestore, task, recon
  <2>3. ASSUME NEW n \in Bytes, RestoreBackup(n)
        PROVE  Holders'
    BY <2>3 DEF Holders, RestoreBackup, task, recon
  <2>4. ASSUME NEW n \in Bytes, DiscardBackup(n)
        PROVE  Holders'
    BY <2>4 DEF Holders, DiscardBackup, task, recon
  <2>5. CASE EndRecovery
    BY <2>5 DEF Holders, Free, EndRecovery, task, recon
  <2> QED
    BY <1>7, <2>1, <2>2, <2>3, <2>4, <2>5 DEF Recovery
<1>8. CASE UNCHANGED vars
  BY <1>8 DEF Holders, vars
<1> QED
  BY <1>1, <1>2, <1>3, <1>4, <1>5, <1>6, <1>7, <1>8 DEF Next

\* What was measured under the gate stays as measured: only its holder moves
\* bytes.
LEMMA MeasuredStep == TypeOK /\ Holders /\ Measured /\ [Next]_vars => Measured'
<1> SUFFICES ASSUME TypeOK, Holders, Measured, [Next]_vars PROVE Measured'
  OBVIOUS
<1> USE CapacityAssumption, ActorsAssumption
<1>1. ASSUME NEW o \in Owners, Streaming(o) \/ Publication(o)
      PROVE  Measured'
  <2>1. ASSUME NEW m \in Bytes, NEW n \in Bytes, Reserve(o, m, n)
        PROVE  Measured'
    BY <2>1 DEF Measured, Reserve, disk, recon
  <2>2. ASSUME NEW n \in Bytes, Receive(o, n)
        PROVE  Measured'
    BY <2>2 DEF Measured, Receive, disk, recon
  <2>3. CASE Abort(o)
    BY <2>3 DEF Measured, Abort, Forget, disk, recon
  <2>4. ASSUME NEW m \in Bytes, NEW n \in Bytes, BeginTransfer(o, m, n)
        PROVE  Measured'
    BY <2>4 DEF Measured, BeginTransfer, disk, recon
  <2>5. ASSUME NEW n \in Bytes, BeginDelete(o, n)
        PROVE  Measured'
    BY <2>5 DEF Holders, Measured, BeginDelete, disk, recon
  <2>6. CASE EnterPublication(o)
    BY <2>6 DEF Holders, Measured, EnterPublication, disk, recon
  <2>7. CASE RefuseBeforeOwnership(o)
    BY <2>7 DEF Measured, RefuseBeforeOwnership, disk, recon
  <2>8. ASSUME NEW p \in Bytes, Prepare(o, p)
        PROVE  Measured'
    BY <2>8 DEF TypeOK, Measured, Prepare, disk, recon
  <2>9. CASE Rename(o)
    BY <2>9 DEF TypeOK, Holders, Measured, InGate, Rename, recon
  <2>10. CASE RollBack(o)
    BY <2>10 DEF TypeOK, Holders, Measured, RollBack, disk, recon
  <2>11. CASE LoseTrack(o)
    BY <2>11 DEF TypeOK, Holders, Measured, InGate, Free, LoseTrack, recon
  <2>12. CASE PersistUnknown(o)
    BY <2>12 DEF Measured, InGate, Free, PersistUnknown, disk, recon
  <2>13. CASE Published(o)
    BY <2>13 DEF Measured, Published, Minus, disk, recon
  <2>14. CASE Persist(o)
    BY <2>14 DEF TypeOK, Measured, Persist, disk, recon
  <2>15. CASE SaveLedger(o)
    BY <2>15 DEF Measured, SaveLedger, recon
  <2>16. CASE LeaveGate(o)
    BY <2>16 DEF TypeOK, Measured, LeaveGate, DropAccounting, Forget, disk,
         recon
  <2>17. CASE FinishUpload(o)
    BY <2>17 DEF Measured, InGate, Free, FinishUpload, DropAccounting, Forget,
         disk, recon
  <2> QED
    BY <1>1, <2>1, <2>2, <2>3, <2>4, <2>5, <2>6, <2>7, <2>8, <2>9, <2>10,
         <2>11, <2>12, <2>13, <2>14, <2>15, <2>16, <2>17 DEF Streaming, Publication
<1>2. ASSUME NEW s \in Scanners, Reconciling(s)
      PROVE  Measured'
  <2>1. CASE BeginReconciliation(s)
    BY <2>1 DEF TypeOK, Measured, BeginReconciliation, disk, task
  <2>2. CASE TakeScanGate(s)
    BY <2>2 DEF Measured, TakeScanGate, disk, task
  <2>3. CASE Scan(s)
    BY <2>3 DEF TypeOK, Measured, Scan, disk, task
  <2>4. CASE PersistReconciled(s)
    BY <2>4 DEF TypeOK, Measured, PersistReconciled, Fault, task
  <2>5. CASE ReconciliationFailed(s)
    BY <2>5 DEF Measured, ReconciliationFailed, disk, task
  <2> QED
    BY <1>2, <2>1, <2>2, <2>3, <2>4, <2>5 DEF Reconciling
<1>3. CASE WorkerWakes
  BY <1>3 DEF Measured, WorkerWakes, disk, task
<1>4. CASE SweepStarts
  BY <1>4 DEF Measured, SweepStarts, disk, task
<1>5. CASE MoveFails
  BY <1>5 DEF Measured, MoveFails, disk, task
<1>6. CASE SetLimit
  BY <1>6 DEF Measured, SetLimit, disk, task, recon
<1>7. CASE Recovery
  <2>1. CASE BeginRecovery
    BY <2>1 DEF Measured, BeginRecovery, disk, task, recon
  <2>2. CASE AnnounceRestore
    BY <2>2 DEF Measured, AnnounceRestore, disk, task, recon
  <2>3. ASSUME NEW n \in Bytes, RestoreBackup(n)
        PROVE  Measured'
    BY <2>3 DEF Holders, Measured, InGate, RestoreBackup, task, recon
  <2>4. ASSUME NEW n \in Bytes, DiscardBackup(n)
        PROVE  Measured'
    BY <2>4 DEF Measured, DiscardBackup, task, recon
  <2>5. CASE EndRecovery
    BY <2>5 DEF Measured, EndRecovery, disk, task, recon
  <2> QED
    BY <1>7, <2>1, <2>2, <2>3, <2>4, <2>5 DEF Recovery
<1>8. CASE UNCHANGED vars
  BY <1>8 DEF Measured, vars
<1> QED
  BY <1>1, <1>2, <1>3, <1>4, <1>5, <1>6, <1>7, <1>8 DEF Next

\* Usage stays true, or is declared uncertain before the gate opens.
LEMMA TruthStep == TypeOK /\ Holders /\ Measured /\ Truth /\ [Next]_vars
    => Truth'
<1> SUFFICES ASSUME TypeOK, Holders, Measured, Truth, [Next]_vars PROVE Truth'
  OBVIOUS
<1> USE CapacityAssumption, ActorsAssumption
<1>1. ASSUME NEW o \in Owners, Streaming(o) \/ Publication(o)
      PROVE  Truth'
  <2>1. ASSUME NEW m \in Bytes, NEW n \in Bytes, Reserve(o, m, n)
        PROVE  Truth'
    BY <2>1 DEF Truth, Reserve, disk, recon
  <2>2. ASSUME NEW n \in Bytes, Receive(o, n)
        PROVE  Truth'
    BY <2>2 DEF Truth, Receive, disk, recon
  <2>3. CASE Abort(o)
    BY <2>3 DEF Truth, Abort, Forget, disk, recon
  <2>4. ASSUME NEW m \in Bytes, NEW n \in Bytes, BeginTransfer(o, m, n)
        PROVE  Truth'
    BY <2>4 DEF Truth, BeginTransfer, disk, recon
  <2>5. ASSUME NEW n \in Bytes, BeginDelete(o, n)
        PROVE  Truth'
    BY <2>5 DEF Truth, BeginDelete, tracker, disk, recon
  <2>6. CASE EnterPublication(o)
    BY <2>6 DEF Truth, EnterPublication, tracker, disk, recon
  <2>7. CASE RefuseBeforeOwnership(o)
    BY <2>7 DEF Truth, RefuseBeforeOwnership, tracker, disk, recon
  <2>8. ASSUME NEW p \in Bytes, Prepare(o, p)
        PROVE  Truth'
    BY <2>8 DEF Truth, Prepare, disk, recon
  <2>9. CASE Rename(o)
    BY <2>9 DEF TypeOK, Holders, Measured, Truth, InGate, Rename, tracker,
         recon
  <2>10. CASE RollBack(o)
    BY <2>10 DEF Truth, RollBack, tracker, disk, recon
  <2>11. CASE LoseTrack(o)
    BY <2>11 DEF TypeOK, Holders, Truth, InGate, LoseTrack, recon
  <2>12. CASE PersistUnknown(o)
    BY <2>12 DEF Truth, PersistUnknown, MarkUncertain, recon
  <2>13. CASE Published(o)
    BY <2>13 DEF TypeOK, Holders, Truth, InGate, Published, CommitUsed, Minus,
         disk, recon
  <2>14. CASE Persist(o)
    BY <2>14 DEF TypeOK, Truth, Persist, tracker, disk, recon
  <2>15. CASE SaveLedger(o)
    BY <2>15 DEF Truth, SaveLedger, MarkUncertain, recon
  <2>16. CASE LeaveGate(o)
    BY <2>16 DEF TypeOK, Truth, LeaveGate, DropAccounting, Forget,
         MarkUncertain, disk, recon
  <2>17. CASE FinishUpload(o)
    BY <2>17 DEF Truth, FinishUpload, DropAccounting, Forget, MarkUncertain,
         disk, recon
  <2> QED
    BY <1>1, <2>1, <2>2, <2>3, <2>4, <2>5, <2>6, <2>7, <2>8, <2>9, <2>10,
         <2>11, <2>12, <2>13, <2>14, <2>15, <2>16, <2>17 DEF Streaming, Publication
<1>2. ASSUME NEW s \in Scanners, Reconciling(s)
      PROVE  Truth'
  <2>1. CASE BeginReconciliation(s)
    BY <2>1 DEF Truth, BeginReconciliation, disk, task
  <2>2. CASE TakeScanGate(s)
    BY <2>2 DEF Truth, TakeScanGate, tracker, disk, task
  <2>3. CASE Scan(s)
    BY <2>3 DEF Truth, Scan, tracker, disk, task
  <2>4. CASE PersistReconciled(s)
    BY <2>4 DEF Holders, Measured, Truth, InGate, PersistReconciled, task
  <2>5. CASE ReconciliationFailed(s)
    BY <2>5 DEF Truth, ReconciliationFailed
  <2> QED
    BY <1>2, <2>1, <2>2, <2>3, <2>4, <2>5 DEF Reconciling
<1>3. CASE WorkerWakes
  BY <1>3 DEF Truth, WorkerWakes, tracker, disk, task
<1>4. CASE SweepStarts
  BY <1>4 DEF Truth, SweepStarts, MarkUncertain
<1>5. CASE MoveFails
  BY <1>5 DEF Truth, MoveFails, tracker, disk, task
<1>6. CASE SetLimit
  BY <1>6 DEF Truth, SetLimit, disk, task, recon
<1>7. CASE Recovery
  <2>1. CASE BeginRecovery
    BY <2>1 DEF Truth, BeginRecovery, tracker, disk, task, recon
  <2>2. CASE AnnounceRestore
    BY <2>2 DEF Truth, AnnounceRestore, MarkUncertain, recon
  <2>3. ASSUME NEW n \in Bytes, RestoreBackup(n)
        PROVE  Truth'
    BY <2>3 DEF Truth, RestoreBackup, tracker, recon
  <2>4. ASSUME NEW n \in Bytes, DiscardBackup(n)
        PROVE  Truth'
    BY <2>4 DEF Truth, DiscardBackup, tracker, task, recon
  <2>5. CASE EndRecovery
    BY <2>5 DEF Truth, EndRecovery, tracker, disk, task, recon
  <2> QED
    BY <1>7, <2>1, <2>2, <2>3, <2>4, <2>5 DEF Recovery
<1>8. CASE UNCHANGED vars
  BY <1>8 DEF Truth, vars
<1> QED
  BY <1>1, <1>2, <1>3, <1>4, <1>5, <1>6, <1>7, <1>8 DEF Next

\* The ledger stays behind accurate usage only while its writer holds the
\* gate.
LEMMA WrittenStep == TypeOK /\ Holders /\ Measured /\ Truth /\ Written /\ [Next]_vars
    => Written'
<1> SUFFICES ASSUME TypeOK, Holders, Measured, Truth, Written, [Next]_vars PROVE Written'
  OBVIOUS
<1> USE CapacityAssumption, ActorsAssumption
<1>1. ASSUME NEW o \in Owners, Streaming(o) \/ Publication(o)
      PROVE  Written'
  <2>1. ASSUME NEW m \in Bytes, NEW n \in Bytes, Reserve(o, m, n)
        PROVE  Written'
    BY <2>1 DEF Written, Reserve, disk, recon
  <2>2. ASSUME NEW n \in Bytes, Receive(o, n)
        PROVE  Written'
    BY <2>2 DEF Written, Receive, disk, recon
  <2>3. CASE Abort(o)
    BY <2>3 DEF Written, Abort, Forget, disk, recon
  <2>4. ASSUME NEW m \in Bytes, NEW n \in Bytes, BeginTransfer(o, m, n)
        PROVE  Written'
    BY <2>4 DEF Written, BeginTransfer, disk, recon
  <2>5. ASSUME NEW n \in Bytes, BeginDelete(o, n)
        PROVE  Written'
    BY <2>5 DEF Written, BeginDelete, tracker, disk, recon
  <2>6. CASE EnterPublication(o)
    BY <2>6 DEF Written, EnterPublication, tracker, disk, recon
  <2>7. CASE RefuseBeforeOwnership(o)
    BY <2>7 DEF Written, RefuseBeforeOwnership, tracker, disk, recon
  <2>8. ASSUME NEW p \in Bytes, Prepare(o, p)
        PROVE  Written'
    BY <2>8 DEF Written, Prepare, disk, recon
  <2>9. CASE Rename(o)
    BY <2>9 DEF Written, Rename, tracker, recon
  <2>10. CASE RollBack(o)
    BY <2>10 DEF Written, RollBack, tracker, disk, recon
  <2>11. CASE LoseTrack(o)
    BY <2>11 DEF Written, LoseTrack, tracker, recon
  <2>12. CASE PersistUnknown(o)
    BY <2>12 DEF Written, PersistUnknown, MarkUncertain, recon
  <2>13. CASE Published(o)
    BY <2>13 DEF TypeOK, Holders, Written, InGate, Published, recon
  <2>14. CASE Persist(o)
    BY <2>14 DEF TypeOK, Written, Persist, tracker, recon
  <2>15. CASE SaveLedger(o)
    BY <2>15 DEF TypeOK, Written, SaveLedger, MarkUncertain, recon
  <2>16. CASE LeaveGate(o)
    BY <2>16 DEF TypeOK, Written, LeaveGate, DropAccounting, Forget,
         MarkUncertain, disk, recon
  <2>17. CASE FinishUpload(o)
    BY <2>17 DEF Written, FinishUpload, DropAccounting, Forget, MarkUncertain,
         disk, recon
  <2> QED
    BY <1>1, <2>1, <2>2, <2>3, <2>4, <2>5, <2>6, <2>7, <2>8, <2>9, <2>10,
         <2>11, <2>12, <2>13, <2>14, <2>15, <2>16, <2>17 DEF Streaming, Publication
<1>2. ASSUME NEW s \in Scanners, Reconciling(s)
      PROVE  Written'
  <2>1. CASE BeginReconciliation(s)
    BY <2>1 DEF Written, BeginReconciliation, disk, task
  <2>2. CASE TakeScanGate(s)
    BY <2>2 DEF Written, TakeScanGate, tracker, disk, task
  <2>3. CASE Scan(s)
    BY <2>3 DEF Written, Scan, tracker, disk, task
  <2>4. CASE PersistReconciled(s)
    BY <2>4 DEF Holders, Measured, Truth, Written, InGate, PersistReconciled,
         SaveFails, task
  <2>5. CASE ReconciliationFailed(s)
    BY <2>5 DEF Written, ReconciliationFailed, task
  <2> QED
    BY <1>2, <2>1, <2>2, <2>3, <2>4, <2>5 DEF Reconciling
<1>3. CASE WorkerWakes
  BY <1>3 DEF Written, WorkerWakes, tracker, disk, task
<1>4. CASE SweepStarts
  BY <1>4 DEF Written, SweepStarts, MarkUncertain, task
<1>5. CASE MoveFails
  BY <1>5 DEF Written, MoveFails, tracker, disk, task
<1>6. CASE SetLimit
  BY <1>6 DEF Written, SetLimit, disk, task, recon
<1>7. CASE Recovery
  <2>1. CASE BeginRecovery
    BY <2>1 DEF Written, BeginRecovery, tracker, disk, task, recon
  <2>2. CASE AnnounceRestore
    BY <2>2 DEF Written, AnnounceRestore, MarkUncertain, task, recon
  <2>3. ASSUME NEW n \in Bytes, RestoreBackup(n)
        PROVE  Written'
    BY <2>3 DEF Written, RestoreBackup, tracker, task, recon
  <2>4. ASSUME NEW n \in Bytes, DiscardBackup(n)
        PROVE  Written'
    BY <2>4 DEF Written, DiscardBackup, tracker, task, recon
  <2>5. CASE EndRecovery
    BY <2>5 DEF Written, EndRecovery, tracker, disk, task, recon
  <2> QED
    BY <1>7, <2>1, <2>2, <2>3, <2>4, <2>5 DEF Recovery
<1>8. CASE UNCHANGED vars
  BY <1>8 DEF Written, vars
<1> QED
  BY <1>1, <1>2, <1>3, <1>4, <1>5, <1>6, <1>7, <1>8 DEF Next

\* The initial state of a configured backend satisfies the invariant.
LEMMA IInvInit == Init => IInv
<1> SUFFICES ASSUME Init PROVE IInv
  OBVIOUS
<1> USE CapacityAssumption, ActorsAssumption DEF Init
<1>1. TypeOK
  <2>1. accurate \in BOOLEAN /\ wake \in BOOLEAN
    OBVIOUS
  <2>2. ledger \in Nat \cup {NoLedger} /\ limit \in Nat \cup {NoLimit}
    BY DEF Bytes
  <2>3. /\ used \in Nat /\ reserved \in Nat /\ stored \in Nat /\ parked \in Nat
        /\ faults \in 0..MaxFaults
    BY DEF Bytes
  <2>6. reconciling \in BOOLEAN
    OBVIOUS
  <2>4. /\ pc \in [Owners -> {"idle"}] /\ kind \in [Owners -> {"upload"}]
        /\ acct \in [Owners -> {"none"}] /\ scan \in [Scanners -> {"idle"}]
    OBVIOUS
  <2>5. /\ res \in [Owners -> Nat] /\ old \in [Owners -> Nat]
        /\ prev \in [Owners -> Nat] /\ size \in [Owners -> Nat]
        /\ snap \in [Owners -> Nat] /\ found \in [Scanners -> Nat]
    OBVIOUS
  <2> QED
    BY <2>1, <2>2, <2>3, <2>4, <2>5, <2>6 DEF TypeOK
<1>2. Holders
  BY DEF Holders, InGate, Free
<1>3. Measured /\ Truth /\ Written
  BY DEF Measured, Truth, Written
<1> QED
  BY <1>1, <1>2, <1>3 DEF IInv

\* The inductive invariant holds throughout.
LEMMA Invariance == Spec => []IInv
<1>1. IInv /\ [Next]_vars => IInv'
  BY TypeStep, HoldersStep, MeasuredStep, TruthStep, WrittenStep DEF IInv
<1> QED
  BY <1>1, IInvInit, PTL DEF Spec

\* The tracker, the disk, the gate and every task keep their types.
THEOREM CapacityTypeOK == Spec => []TypeOK
<1>1. IInv => TypeOK
  BY DEF IInv
<1> QED
  BY <1>1, Invariance, PTL

\* Accurate usage is the bytes on disk whenever nobody holds the mutation gate:
\* uncertainty is declared before a holder whose result is unknown lets go.
THEOREM UsageIsTrue == Spec => []AccurateIsTrue
<1>1. IInv => AccurateIsTrue
  BY ActorsAssumption
     DEF IInv, Holders, Truth, AccurateIsTrue, Outside, InGate, Free
<1> QED
  BY <1>1, Invariance, PTL

\* No older snapshot survives in the ledger once the gate is free.
THEOREM LedgerIsCurrent == Spec => []LedgerFollows
<1>1. IInv => LedgerFollows
  BY ActorsAssumption
     DEF IInv, Holders, Written, LedgerFollows, Outside, InGate, Free
<1> QED
  BY <1>1, Invariance, PTL
=============================================================================
