------------------------ MODULE StorageLifecycle_proofs ------------------------
(***************************************************************************)
(* Proofs about StorageLifecycle for any number of requests, guards,       *)
(* permits and interruptions.                                              *)
(*                                                                         *)
(* The argument.  "editing" is the claim of exactly one guard (Claimed).   *)
(* That guard cancels the current token before it drains (Cancelled), and  *)
(* takes every permit before it revokes a lease, so no running mutation    *)
(* loses its lease (OwnersQuiet, Leased).  A request whose lease was       *)
(* revoked holds a token that is cancelled for good, because reopening     *)
(* installs a generation newer than any token handed out (TokensBehind).   *)
(* Hence a running mutation always holds a read lock, which the exclusive  *)
(* gate excludes (GateQuiet).                                              *)
(***************************************************************************)
EXTENDS StorageLifecycle, TLAPS

AtMostOne(locations) ==
    \A g, h \in Guards : gd[g] \in locations /\ gd[h] \in locations => g = h

\* editing is set exactly while one guard owns the interruption
Claimed ==
    /\ AtMostOne(EditingOf)
    /\ editing => \E g \in Guards : gd[g] \in EditingOf
    /\ \A g \in Guards : gd[g] \in EditingOf => editing

\* from "open" to "held" the current token is cancelled
Cancelled == \A g \in Guards : gd[g] \in EditingOf \ {"cancel", "flag"} => cut

\* the guard that owns the permits owns all of them
OwnersQuiet ==
    /\ AtMostOne(OwnersOf)
    /\ \A g \in Guards : gd[g] \in OwnersOf =>
         \A r \in Requests : rq[r] \notin {"permit", "run"}

\* the write lock excludes other writers and every reader
GateQuiet ==
    /\ AtMostOne(GateOf)
    /\ \A g \in Guards : gd[g] \in GateOf => \A r \in Requests : ~ Reading(r)

TokensBehind == \A r \in Requests : token[r] <= gen

\* an admitted request has a lease; once revoked, its token is cancelled
Leased ==
    \A r \in Requests :
      /\ rq[r] \in {"in", "permit", "run"} => lease[r] # "none"
      /\ lease[r] = "revoked" => ~ Live(r)
      /\ rq[r] = "run" => lease[r] = "held"

\* a connection edit keeps its interruption in the foreground
Replacing ==
    plan = "replace" => /\ mine \in Guards /\ fg[mine]
                        /\ gd[mine] \in EditingOf \ {"flag"}

\* a successor exists only beside a drained or a retired instance
Succeeded == successor => retired \/ (plan = "replace" /\ mine \in Holding({"held"}))

Interruption == Claimed /\ Cancelled
Locks == OwnersQuiet /\ GateQuiet
Leases == TokensBehind /\ Leased /\ RunningIsCurrent
Succession == Replacing /\ Succeeded /\ SuccessorAlone

IInv == TypeOK /\ Interruption /\ Locks /\ Leases /\ Succession

-----------------------------------------------------------------------------
\* Every step keeps the types.
LEMMA TypeOKStep == TypeOK /\ [Next]_vars => TypeOK'
<1> SUFFICES ASSUME TypeOK, [Next]_vars PROVE TypeOK'
    OBVIOUS
<1> USE DEF TypeOK, flags, transfer, requests, guards, admin, registry, tasks,
            RequestLocations, GuardLocations, Plans, Policies
<1>1. ASSUME NEW r \in Requests, ReadConfig(r) PROVE TypeOK'
     BY <1>1 DEF ReadConfig
<1>2. ASSUME NEW r \in Requests, Lookup(r) PROVE TypeOK'
     BY <1>2 DEF Lookup
<1>3. ASSUME NEW r \in Requests, TryRead(r) PROVE TypeOK'
     BY <1>3 DEF TryRead
<1>4. ASSUME NEW r \in Requests, CheckRetired(r) PROVE TypeOK'
     BY <1>4 DEF CheckRetired
<1>5. ASSUME NEW r \in Requests, Register(r) PROVE TypeOK'
     BY <1>5 DEF Register
<1>6. ASSUME NEW r \in Requests, Leave(r) PROVE TypeOK'
     BY <1>6 DEF Leave
<1>7. ASSUME NEW r \in Requests, TryPermit(r) PROVE TypeOK'
     BY <1>7 DEF TryPermit
<1>8. ASSUME NEW r \in Requests, CheckOwner(r) PROVE TypeOK'
     BY <1>8 DEF CheckOwner
<1>9. ASSUME NEW r \in Requests, EndMutation(r) PROVE TypeOK'
     BY <1>9 DEF EndMutation
<1>10. ASSUME NEW g \in Guards, Cancel(g) PROVE TypeOK'
     BY <1>10 DEF Cancel
<1>11. ASSUME NEW g \in Guards, StartDrain(g) PROVE TypeOK'
     BY <1>11 DEF StartDrain, MoveGuard
<1>12. ASSUME NEW g \in Guards, TakeOwners(g) PROVE TypeOK'
     BY <1>12 DEF TakeOwners, MoveGuard
<1>13. ASSUME NEW g \in Guards, RevokeLeases(g) PROVE TypeOK'
     BY <1>13 DEF RevokeLeases, MoveGuard
<1>14. ASSUME NEW g \in Guards, TakeGate(g) PROVE TypeOK'
     BY <1>14 DEF TakeGate, MoveGuard
<1>15. ASSUME NEW g \in Guards, TakeRecovery(g) PROVE TypeOK'
     BY <1>15 DEF TakeRecovery, MoveGuard
<1>16. ASSUME NEW g \in Guards, TakeCapacity(g) PROVE TypeOK'
     BY <1>16 DEF TakeCapacity, MoveGuard
<1>17. ASSUME NEW g \in Guards, Reopen(g) PROVE TypeOK'
  <2>1. gd' \in [Guards -> GuardLocations]
        BY <1>17 DEF Reopen, MoveGuard
  <2>2. gen' \in Nat
        BY <1>17 DEF Reopen
  <2>3. cut' \in BOOLEAN
        BY <1>17, Zenon DEF Reopen
  <2> QED BY <1>17, <2>1, <2>2, <2>3 DEF Reopen
<1>18. ASSUME NEW g \in Guards, Reopened(g) PROVE TypeOK'
  <2>1. gd' \in [Guards -> GuardLocations]
        BY <1>18 DEF Reopened, MoveGuard
  <2>2. editing' \in BOOLEAN
        BY <1>18 DEF Reopened
  <2> QED BY <1>18, <2>1, <2>2 DEF Reopened
<1>19. ASSUME NEW g \in Guards, Release(g) PROVE TypeOK'
     BY <1>19 DEF Release, MoveGuard
<1>20. ASSUME NEW g \in Guards, EditGate(g) PROVE TypeOK'
     BY <1>20 DEF EditGate, GiveUp
<1>21. ASSUME NEW g \in Guards, EditRemote(g) PROVE TypeOK'
     BY <1>21 DEF EditRemote, GiveUp
<1>22. ASSUME NEW g \in Guards, StartRecovery(g) PROVE TypeOK'
     BY <1>22 DEF StartRecovery, MoveGuard
<1>23. ASSUME NEW g \in Guards, EndRecovery(g) PROVE TypeOK'
     BY <1>23 DEF EndRecovery, MoveGuard
<1>24. ASSUME NEW g \in Guards, StartReplace(g) PROVE TypeOK'
     BY <1>24 DEF StartReplace, BeginInterruption
<1>25. ASSUME NEW g \in Guards, StartReenable(g) PROVE TypeOK'
     BY <1>25 DEF StartReenable, MoveGuard
<1>26. ASSUME NEW g \in Guards, NEW k \in Policies, StartPolicy(k, g) PROVE TypeOK'
     BY <1>26 DEF StartPolicy, BeginInterruption
<1>27. ASSUME Prepare PROVE TypeOK'
     BY <1>27 DEF Prepare
<1>28. ASSUME Save PROVE TypeOK'
  <2>1. enabled' \in BOOLEAN /\ saved' \in BOOLEAN
        BY <1>28, Zenon DEF Save
  <2>2. UNCHANGED <<editing, retired, gen, cut, rq, lease, token, gd, fg, plan, mine, ready,
                   successor, probe, worker, scanner>>
        BY <1>28 DEF Save
  <2> QED BY <2>1, <2>2
<1>29. ASSUME Retire PROVE TypeOK'
     BY <1>29 DEF Retire
<1>30. ASSUME Apply PROVE TypeOK'
  <2>1. gd' \in [Guards -> GuardLocations] /\ fg' \in [Guards -> BOOLEAN]
        BY <1>30 DEF Apply, EndPlan, DropGuard, Dropped
  <2>2. enabled' \in BOOLEAN /\ ready' \in BOOLEAN /\ successor' \in BOOLEAN
        BY <1>30, Zenon DEF Apply
  <2> QED BY <1>30, <2>1, <2>2 DEF Apply, EndPlan
<1>31. ASSUME Abort PROVE TypeOK'
  <2>1. gd' \in [Guards -> GuardLocations] /\ fg' \in [Guards -> BOOLEAN]
        BY <1>31 DEF Abort, EndPlan, DropGuard, Dropped
  <2>2. enabled' \in BOOLEAN /\ ready' \in BOOLEAN /\ successor' \in BOOLEAN
        BY <1>31, Zenon DEF Abort
  <2> QED BY <1>31, <2>1, <2>2 DEF Abort, EndPlan
<1>32. ASSUME Probe PROVE TypeOK'
     BY <1>32 DEF Probe
<1>33. ASSUME WorkerStep PROVE TypeOK'
     BY <1>33 DEF WorkerStep
<1>34. ASSUME ScannerStep PROVE TypeOK'
     BY <1>34 DEF ScannerStep
<1>35. CASE UNCHANGED vars
     BY <1>35 DEF vars
<1> QED
    BY <1>1, <1>2, <1>3, <1>4, <1>5, <1>6, <1>7, <1>8, <1>9, <1>10, <1>11, <1>12,
       <1>13, <1>14, <1>15, <1>16, <1>17, <1>18, <1>19, <1>20, <1>21, <1>22, <1>23,
       <1>24, <1>25, <1>26, <1>27, <1>28, <1>29, <1>30, <1>31, <1>32, <1>33, <1>34,
       <1>35
    DEF Next, Admission, Mutation, Drain, Edit, Start, Settings, Background

\* Every step keeps the inductive invariant.
LEMMA IInvStep == IInv /\ [Next]_vars => IInv'
<1> SUFFICES ASSUME IInv, [Next]_vars PROVE (Interruption /\ Locks /\ Leases /\ Succession)'
    BY TypeOKStep DEF IInv
<1> USE DEF IInv, TypeOK, flags, transfer, requests, guards, admin, registry, tasks,
            EditingOf, OwnersOf, GateOf, Policies
<1>1. ASSUME NEW r \in Requests, ReadConfig(r)
      PROVE (Interruption /\ Locks /\ Leases /\ Succession)'
  <2>1. Interruption'
        BY <1>1 DEF ReadConfig, Interruption, Claimed, Cancelled, AtMostOne
  <2>2. Locks'
        BY <1>1 DEF ReadConfig, Locks, OwnersQuiet, GateQuiet, AtMostOne, Reading
  <2>3. Leases'
        BY <1>1 DEF ReadConfig, Leases, Interruption, Locks, TokensBehind, Leased,
               RunningIsCurrent, Live
  <2>4. Succession'
        BY <1>1 DEF ReadConfig, Succession, Locks, Replacing, Succeeded, SuccessorAlone,
               OwnersQuiet, Holding
  <2> QED BY <2>1, <2>2, <2>3, <2>4
<1>2. ASSUME NEW r \in Requests, Lookup(r)
      PROVE (Interruption /\ Locks /\ Leases /\ Succession)'
  <2>1. Interruption'
        BY <1>2 DEF Lookup, Interruption, Claimed, Cancelled, AtMostOne
  <2>2. Locks'
        BY <1>2 DEF Lookup, Locks, OwnersQuiet, GateQuiet, AtMostOne, Reading
  <2>3. Leases'
        BY <1>2 DEF Lookup, Leases, Interruption, Locks, TokensBehind, Leased,
               RunningIsCurrent, Live
  <2>4. Succession'
        BY <1>2 DEF Lookup, Succession, Locks, Replacing, Succeeded, SuccessorAlone,
               OwnersQuiet, Holding
  <2> QED BY <2>1, <2>2, <2>3, <2>4
<1>3. ASSUME NEW r \in Requests, TryRead(r)
      PROVE (Interruption /\ Locks /\ Leases /\ Succession)'
  <2>1. Interruption'
        BY <1>3 DEF TryRead, ReadBlocked, Holding, Interruption, Claimed, Cancelled, AtMostOne
  <2>2. Locks'
        BY <1>3 DEF TryRead, ReadBlocked, Holding, Locks, OwnersQuiet, GateQuiet, AtMostOne,
               Reading
  <2>3. Leases'
        BY <1>3 DEF TryRead, ReadBlocked, Holding, Leases, Interruption, Locks, TokensBehind,
               Leased, RunningIsCurrent, Live
  <2>4. Succession'
        BY <1>3 DEF TryRead, ReadBlocked, Holding, Succession, Locks, Replacing, Succeeded,
               SuccessorAlone
  <2> QED BY <2>1, <2>2, <2>3, <2>4
<1>4. ASSUME NEW r \in Requests, CheckRetired(r)
      PROVE (Interruption /\ Locks /\ Leases /\ Succession)'
  <2>1. Interruption'
        BY <1>4 DEF CheckRetired, Interruption, Claimed, Cancelled, AtMostOne
  <2>2. Locks'
        BY <1>4 DEF CheckRetired, Locks, OwnersQuiet, GateQuiet, AtMostOne, Reading
  <2>3. Leases'
        BY <1>4 DEF CheckRetired, Leases, Interruption, Locks, TokensBehind, Leased,
               RunningIsCurrent, Live
  <2>4. Succession'
        BY <1>4 DEF CheckRetired, Succession, Locks, Replacing, Succeeded, SuccessorAlone,
               OwnersQuiet, Holding
  <2> QED BY <2>1, <2>2, <2>3, <2>4
<1>5. ASSUME NEW r \in Requests, Register(r)
      PROVE (Interruption /\ Locks /\ Leases /\ Succession)'
  <2>1. Interruption'
        BY <1>5 DEF Register, Interruption, Claimed, Cancelled, AtMostOne
  <2>2. Locks'
        BY <1>5 DEF Register, Locks, OwnersQuiet, GateQuiet, AtMostOne, Reading
  <2>3. Leases'
        BY <1>5 DEF Register, Leases, Interruption, Locks, TokensBehind, Leased,
               RunningIsCurrent, Live
  <2>4. Succession'
        BY <1>5 DEF Register, Succession, Locks, Replacing, Succeeded, SuccessorAlone,
               OwnersQuiet, Holding
  <2> QED BY <2>1, <2>2, <2>3, <2>4
<1>6. ASSUME NEW r \in Requests, Leave(r)
      PROVE (Interruption /\ Locks /\ Leases /\ Succession)'
  <2>1. Interruption'
        BY <1>6 DEF Leave, Interruption, Claimed, Cancelled, AtMostOne
  <2>2. Locks'
        BY <1>6 DEF Leave, Locks, OwnersQuiet, GateQuiet, AtMostOne, Reading
  <2>3. Leases'
        BY <1>6 DEF Leave, Leases, Interruption, Locks, TokensBehind, Leased, RunningIsCurrent,
               Live
  <2>4. Succession'
        BY <1>6 DEF Leave, Succession, Locks, Replacing, Succeeded, SuccessorAlone,
               OwnersQuiet, Holding
  <2> QED BY <2>1, <2>2, <2>3, <2>4
<1>7. ASSUME NEW r \in Requests, TryPermit(r)
      PROVE (Interruption /\ Locks /\ Leases /\ Succession)'
  <2>1. Interruption'
        BY <1>7 DEF TryPermit, Holding, PermitHolders, Interruption, Claimed, Cancelled,
               AtMostOne
  <2>2. Locks'
        BY <1>7 DEF TryPermit, Holding, PermitHolders, Locks, OwnersQuiet, GateQuiet,
               AtMostOne, Reading
  <2>3. Leases'
        BY <1>7 DEF TryPermit, Holding, PermitHolders, Leases, Interruption, Locks,
               TokensBehind, Leased, RunningIsCurrent, Live
  <2>4. Succession'
        BY <1>7 DEF TryPermit, Holding, PermitHolders, Succession, Locks, Replacing, Succeeded,
               SuccessorAlone
  <2> QED BY <2>1, <2>2, <2>3, <2>4
<1>8. ASSUME NEW r \in Requests, CheckOwner(r)
      PROVE (Interruption /\ Locks /\ Leases /\ Succession)'
  <2>1. Interruption'
        BY <1>8 DEF CheckOwner, Interruption, Claimed, Cancelled, AtMostOne
  <2>2. Locks'
        BY <1>8 DEF CheckOwner, Locks, OwnersQuiet, GateQuiet, AtMostOne, Reading
  <2>3. Leases'
        BY <1>8 DEF CheckOwner, Leases, Interruption, Locks, TokensBehind, Leased,
               RunningIsCurrent, Live
  <2>4. Succession'
        BY <1>8 DEF CheckOwner, Succession, Locks, Replacing, Succeeded, SuccessorAlone,
               OwnersQuiet, Holding
  <2> QED BY <2>1, <2>2, <2>3, <2>4
<1>9. ASSUME NEW r \in Requests, EndMutation(r)
      PROVE (Interruption /\ Locks /\ Leases /\ Succession)'
  <2>1. Interruption'
        BY <1>9 DEF EndMutation, Interruption, Claimed, Cancelled, AtMostOne
  <2>2. Locks'
        BY <1>9 DEF EndMutation, Locks, OwnersQuiet, GateQuiet, AtMostOne, Reading
  <2>3. Leases'
        BY <1>9 DEF EndMutation, Leases, Interruption, Locks, TokensBehind, Leased,
               RunningIsCurrent, Live
  <2>4. Succession'
        BY <1>9 DEF EndMutation, Succession, Locks, Replacing, Succeeded, SuccessorAlone,
               OwnersQuiet, Holding
  <2> QED BY <2>1, <2>2, <2>3, <2>4
<1>10. ASSUME NEW g \in Guards, Cancel(g)
      PROVE (Interruption /\ Locks /\ Leases /\ Succession)'
  <2>1. Interruption'
        BY <1>10 DEF Cancel, Interruption, Claimed, Cancelled, AtMostOne
  <2>2. Locks'
        BY <1>10 DEF Cancel, Locks, OwnersQuiet, GateQuiet, AtMostOne, Reading
  <2>3. Leases'
        BY <1>10 DEF Cancel, Leases, Interruption, Locks, TokensBehind, Leased,
               RunningIsCurrent, Live, Claimed
  <2>4. Succession'
        BY <1>10 DEF Cancel, Succession, Locks, Replacing, Succeeded, SuccessorAlone,
               OwnersQuiet, Holding
  <2> QED BY <2>1, <2>2, <2>3, <2>4
<1>11. ASSUME NEW g \in Guards, StartDrain(g)
      PROVE (Interruption /\ Locks /\ Leases /\ Succession)'
  <2>1. Interruption'
        BY <1>11 DEF StartDrain, MoveGuard, Interruption, Claimed, Cancelled, AtMostOne
  <2>2. Locks'
        BY <1>11 DEF StartDrain, MoveGuard, Locks, OwnersQuiet, GateQuiet, AtMostOne, Reading
  <2>3. Leases'
        BY <1>11 DEF StartDrain, MoveGuard, Leases, Interruption, Locks, TokensBehind, Leased,
               RunningIsCurrent, Live
  <2>4. Succession'
        BY <1>11 DEF StartDrain, MoveGuard, Succession, Locks, Replacing, Succeeded,
               SuccessorAlone, OwnersQuiet, Holding
  <2> QED BY <2>1, <2>2, <2>3, <2>4
<1>12. ASSUME NEW g \in Guards, TakeOwners(g)
      PROVE (Interruption /\ Locks /\ Leases /\ Succession)'
  <2>1. Interruption'
        BY <1>12 DEF TakeOwners, PermitHolders, Holding, MoveGuard, Interruption, Claimed,
               Cancelled, AtMostOne
  <2>2. Locks'
        BY <1>12 DEF TakeOwners, PermitHolders, Holding, MoveGuard, Locks, OwnersQuiet,
               GateQuiet, AtMostOne, Reading
  <2>3. Leases'
        BY <1>12 DEF TakeOwners, PermitHolders, Holding, MoveGuard, Leases, Interruption,
               Locks, TokensBehind, Leased, RunningIsCurrent, Live
  <2>4. Succession'
        BY <1>12 DEF TakeOwners, PermitHolders, Holding, MoveGuard, Succession, Locks,
               Replacing, Succeeded, SuccessorAlone
  <2> QED BY <2>1, <2>2, <2>3, <2>4
<1>13. ASSUME NEW g \in Guards, RevokeLeases(g)
      PROVE (Interruption /\ Locks /\ Leases /\ Succession)'
  <2>1. Interruption'
        BY <1>13 DEF RevokeLeases, MoveGuard, Interruption, Claimed, Cancelled, AtMostOne
  <2>2. Locks'
        BY <1>13 DEF RevokeLeases, MoveGuard, Locks, OwnersQuiet, GateQuiet, AtMostOne, Reading
  <2>3. Leases'
        BY <1>13 DEF RevokeLeases, MoveGuard, Leases, Interruption, Locks, TokensBehind,
               Leased, RunningIsCurrent, Live, OwnersQuiet, Cancelled
  <2>4. Succession'
        BY <1>13 DEF RevokeLeases, MoveGuard, Succession, Locks, Replacing, Succeeded,
               SuccessorAlone, OwnersQuiet, Holding
  <2> QED BY <2>1, <2>2, <2>3, <2>4
<1>14. ASSUME NEW g \in Guards, TakeGate(g)
      PROVE (Interruption /\ Locks /\ Leases /\ Succession)'
  <2>1. Interruption'
        BY <1>14 DEF TakeGate, WriteFree, Holding, MoveGuard, Interruption, Claimed, Cancelled,
               AtMostOne
  <2>2. Locks'
        BY <1>14 DEF TakeGate, WriteFree, Holding, MoveGuard, Locks, OwnersQuiet, GateQuiet,
               AtMostOne, Reading
  <2>3. Leases'
        BY <1>14 DEF TakeGate, WriteFree, Holding, MoveGuard, Leases, Interruption, Locks,
               TokensBehind, Leased, RunningIsCurrent, Live
  <2>4. Succession'
        BY <1>14 DEF TakeGate, WriteFree, Holding, MoveGuard, Succession, Locks, Replacing,
               Succeeded, SuccessorAlone
  <2> QED BY <2>1, <2>2, <2>3, <2>4
<1>15. ASSUME NEW g \in Guards, TakeRecovery(g)
      PROVE (Interruption /\ Locks /\ Leases /\ Succession)'
  <2>1. Interruption'
        BY <1>15 DEF TakeRecovery, MoveGuard, Interruption, Claimed, Cancelled, AtMostOne
  <2>2. Locks'
        BY <1>15 DEF TakeRecovery, MoveGuard, Locks, OwnersQuiet, GateQuiet, AtMostOne, Reading
  <2>3. Leases'
        BY <1>15 DEF TakeRecovery, MoveGuard, Leases, Interruption, Locks, TokensBehind,
               Leased, RunningIsCurrent, Live
  <2>4. Succession'
        BY <1>15 DEF TakeRecovery, MoveGuard, Succession, Locks, Replacing, Succeeded,
               SuccessorAlone, OwnersQuiet, Holding
  <2> QED BY <2>1, <2>2, <2>3, <2>4
<1>16. ASSUME NEW g \in Guards, TakeCapacity(g)
      PROVE (Interruption /\ Locks /\ Leases /\ Succession)'
  <2>1. Interruption'
        BY <1>16 DEF TakeCapacity, MoveGuard, Interruption, Claimed, Cancelled, AtMostOne
  <2>2. Locks'
        BY <1>16 DEF TakeCapacity, MoveGuard, Locks, OwnersQuiet, GateQuiet, AtMostOne, Reading
  <2>3. Leases'
        BY <1>16 DEF TakeCapacity, MoveGuard, Leases, Interruption, Locks, TokensBehind,
               Leased, RunningIsCurrent, Live
  <2>4. Succession'
        BY <1>16 DEF TakeCapacity, MoveGuard, Succession, Locks, Replacing, Succeeded,
               SuccessorAlone, OwnersQuiet, Holding
  <2> QED BY <2>1, <2>2, <2>3, <2>4
<1>17. ASSUME NEW g \in Guards, Reopen(g)
      PROVE (Interruption /\ Locks /\ Leases /\ Succession)'
  <2>1. Interruption'
        BY <1>17 DEF Reopen, MoveGuard, Interruption, Claimed, Cancelled, AtMostOne
  <2>2. Locks'
        BY <1>17 DEF Reopen, MoveGuard, Locks, OwnersQuiet, GateQuiet, AtMostOne, Reading
  <2>3. Leases'
        BY <1>17 DEF Reopen, MoveGuard, Leases, Interruption, Locks, TokensBehind, Leased,
               RunningIsCurrent, Live, OwnersQuiet
  <2>4. Succession'
        BY <1>17 DEF Reopen, MoveGuard, Succession, Locks, Replacing, Succeeded,
               SuccessorAlone, OwnersQuiet, Holding
  <2> QED BY <2>1, <2>2, <2>3, <2>4
<1>18. ASSUME NEW g \in Guards, Reopened(g)
      PROVE (Interruption /\ Locks /\ Leases /\ Succession)'
  <2>1. Interruption'
        BY <1>18 DEF Reopened, MoveGuard, Interruption, Claimed, Cancelled, AtMostOne
  <2>2. Locks'
        BY <1>18 DEF Reopened, MoveGuard, Locks, OwnersQuiet, GateQuiet, AtMostOne, Reading
  <2>3. Leases'
        BY <1>18 DEF Reopened, MoveGuard, Leases, Interruption, Locks, TokensBehind, Leased,
               RunningIsCurrent, Live, OwnersQuiet
  <2>4. Succession'
        BY <1>18 DEF Reopened, MoveGuard, Succession, Locks, Replacing, Succeeded,
               SuccessorAlone, OwnersQuiet, Holding
  <2> QED BY <2>1, <2>2, <2>3, <2>4
<1>19. ASSUME NEW g \in Guards, Release(g)
      PROVE (Interruption /\ Locks /\ Leases /\ Succession)'
  <2>1. Interruption'
        BY <1>19 DEF Release, MoveGuard, Interruption, Claimed, Cancelled, AtMostOne
  <2>2. Locks'
        BY <1>19 DEF Release, MoveGuard, Locks, OwnersQuiet, GateQuiet, AtMostOne, Reading
  <2>3. Leases'
        BY <1>19 DEF Release, MoveGuard, Leases, Interruption, Locks, TokensBehind, Leased,
               RunningIsCurrent, Live
  <2>4. Succession'
        BY <1>19 DEF Release, MoveGuard, Succession, Locks, Replacing, Succeeded,
               SuccessorAlone, OwnersQuiet, Holding
  <2> QED BY <2>1, <2>2, <2>3, <2>4
<1>20. ASSUME NEW g \in Guards, EditGate(g)
      PROVE (Interruption /\ Locks /\ Leases /\ Succession)'
  <2>1. Interruption'
        BY <1>20 DEF EditGate, WriteFree, ReadBlocked, Holding, GiveUp, Interruption, Claimed,
               Cancelled, AtMostOne
  <2>2. Locks'
        BY <1>20 DEF EditGate, WriteFree, ReadBlocked, Holding, GiveUp, Locks, OwnersQuiet,
               GateQuiet, AtMostOne, Reading
  <2>3. Leases'
        BY <1>20 DEF EditGate, WriteFree, ReadBlocked, Holding, GiveUp, Leases, Interruption,
               Locks, TokensBehind, Leased, RunningIsCurrent, Live
  <2>4. Succession'
        BY <1>20 DEF EditGate, WriteFree, ReadBlocked, Holding, GiveUp, Succession, Locks,
               Replacing, Succeeded, SuccessorAlone
  <2> QED BY <2>1, <2>2, <2>3, <2>4
<1>21. ASSUME NEW g \in Guards, EditRemote(g)
      PROVE (Interruption /\ Locks /\ Leases /\ Succession)'
  <2>1. Interruption'
        BY <1>21 DEF EditRemote, GiveUp, Interruption, Claimed, Cancelled, AtMostOne
  <2>2. Locks'
        BY <1>21 DEF EditRemote, GiveUp, Locks, OwnersQuiet, GateQuiet, AtMostOne, Reading
  <2>3. Leases'
        BY <1>21 DEF EditRemote, GiveUp, Leases, Interruption, Locks, TokensBehind, Leased,
               RunningIsCurrent, Live
  <2>4. Succession'
        BY <1>21 DEF EditRemote, GiveUp, Succession, Locks, Replacing, Succeeded,
               SuccessorAlone, OwnersQuiet, Holding
  <2> QED BY <2>1, <2>2, <2>3, <2>4
<1>22. ASSUME NEW g \in Guards, StartRecovery(g)
      PROVE (Interruption /\ Locks /\ Leases /\ Succession)'
  <2>1. Interruption'
        BY <1>22 DEF StartRecovery, MoveGuard, Interruption, Claimed, Cancelled, AtMostOne
  <2>2. Locks'
        BY <1>22 DEF StartRecovery, MoveGuard, Locks, OwnersQuiet, GateQuiet, AtMostOne, Reading
  <2>3. Leases'
        BY <1>22 DEF StartRecovery, MoveGuard, Leases, Interruption, Locks, TokensBehind,
               Leased, RunningIsCurrent, Live
  <2>4. Succession'
        BY <1>22 DEF StartRecovery, MoveGuard, Succession, Locks, Replacing, Succeeded,
               SuccessorAlone, OwnersQuiet, Holding
  <2> QED BY <2>1, <2>2, <2>3, <2>4
<1>23. ASSUME NEW g \in Guards, EndRecovery(g)
      PROVE (Interruption /\ Locks /\ Leases /\ Succession)'
  <2>1. Interruption'
        BY <1>23 DEF EndRecovery, MoveGuard, Interruption, Claimed, Cancelled, AtMostOne
  <2>2. Locks'
        BY <1>23 DEF EndRecovery, MoveGuard, Locks, OwnersQuiet, GateQuiet, AtMostOne, Reading
  <2>3. Leases'
        BY <1>23 DEF EndRecovery, MoveGuard, Leases, Interruption, Locks, TokensBehind, Leased,
               RunningIsCurrent, Live
  <2>4. Succession'
        BY <1>23 DEF EndRecovery, MoveGuard, Succession, Locks, Replacing, Succeeded,
               SuccessorAlone, OwnersQuiet, Holding
  <2> QED BY <2>1, <2>2, <2>3, <2>4
<1>24. ASSUME NEW g \in Guards, StartReplace(g)
      PROVE (Interruption /\ Locks /\ Leases /\ Succession)'
  <2>1. Interruption'
        BY <1>24 DEF StartReplace, BeginInterruption, Interruption, Claimed, Cancelled,
               AtMostOne
  <2>2. Locks'
        BY <1>24 DEF StartReplace, BeginInterruption, Locks, OwnersQuiet, GateQuiet, AtMostOne,
               Reading
  <2>3. Leases'
        BY <1>24 DEF StartReplace, BeginInterruption, Leases, Interruption, Locks,
               TokensBehind, Leased, RunningIsCurrent, Live
  <2>4. Succession'
        BY <1>24 DEF StartReplace, BeginInterruption, Succession, Locks, Replacing, Succeeded,
               SuccessorAlone, OwnersQuiet, Holding
  <2> QED BY <2>1, <2>2, <2>3, <2>4
<1>25. ASSUME NEW g \in Guards, StartReenable(g)
      PROVE (Interruption /\ Locks /\ Leases /\ Succession)'
  <2>1. Interruption'
        BY <1>25 DEF StartReenable, MoveGuard, Interruption, Claimed, Cancelled, AtMostOne
  <2>2. Locks'
        BY <1>25 DEF StartReenable, MoveGuard, Locks, OwnersQuiet, GateQuiet, AtMostOne, Reading
  <2>3. Leases'
        BY <1>25 DEF StartReenable, MoveGuard, Leases, Interruption, Locks, TokensBehind,
               Leased, RunningIsCurrent, Live
  <2>4. Succession'
        BY <1>25 DEF StartReenable, MoveGuard, Succession, Locks, Replacing, Succeeded,
               SuccessorAlone, OwnersQuiet, Holding
  <2> QED BY <2>1, <2>2, <2>3, <2>4
<1>26. ASSUME NEW g \in Guards, NEW k \in Policies, StartPolicy(k, g)
      PROVE (Interruption /\ Locks /\ Leases /\ Succession)'
  <2>1. Interruption'
        BY <1>26 DEF StartPolicy, BeginInterruption, Interruption, Claimed, Cancelled, AtMostOne
  <2>2. Locks'
        BY <1>26 DEF StartPolicy, BeginInterruption, Locks, OwnersQuiet, GateQuiet, AtMostOne,
               Reading
  <2>3. Leases'
        BY <1>26 DEF StartPolicy, BeginInterruption, Leases, Interruption, Locks, TokensBehind,
               Leased, RunningIsCurrent, Live
  <2>4. Succession'
        BY <1>26 DEF StartPolicy, BeginInterruption, Succession, Locks, Replacing, Succeeded,
               SuccessorAlone, OwnersQuiet, Holding
  <2> QED BY <2>1, <2>2, <2>3, <2>4
<1>27. ASSUME Prepare
      PROVE (Interruption /\ Locks /\ Leases /\ Succession)'
  <2>1. Interruption'
        BY <1>27 DEF Prepare, Holding, Interruption, Claimed, Cancelled, AtMostOne
  <2>2. Locks'
        BY <1>27 DEF Prepare, Holding, Locks, OwnersQuiet, GateQuiet, AtMostOne, Reading
  <2>3. Leases'
        BY <1>27 DEF Prepare, Holding, Leases, Interruption, Locks, TokensBehind, Leased,
               RunningIsCurrent, Live
  <2>4. Succession'
        BY <1>27 DEF Prepare, Holding, Succession, Locks, Replacing, Succeeded, SuccessorAlone,
               OwnersQuiet
  <2> QED BY <2>1, <2>2, <2>3, <2>4
<1>28. ASSUME Save
      PROVE (Interruption /\ Locks /\ Leases /\ Succession)'
  <2>1. Interruption'
        BY <1>28 DEF Save, MaySave, Holding, Interruption, Claimed, Cancelled, AtMostOne
  <2>2. Locks'
        BY <1>28 DEF Save, MaySave, Holding, Locks, OwnersQuiet, GateQuiet, AtMostOne, Reading
  <2>3. Leases'
        BY <1>28 DEF Save, MaySave, Holding, Leases, Interruption, Locks, TokensBehind, Leased,
               RunningIsCurrent, Live
  <2>4. Succession'
        BY <1>28 DEF Save, MaySave, Holding, Succession, Locks, Replacing, Succeeded,
               SuccessorAlone
  <2> QED BY <2>1, <2>2, <2>3, <2>4
<1>29. ASSUME Retire
      PROVE (Interruption /\ Locks /\ Leases /\ Succession)'
  <2>1. Interruption'
        BY <1>29 DEF Retire, Interruption, Claimed, Cancelled, AtMostOne
  <2>2. Locks'
        BY <1>29 DEF Retire, Locks, OwnersQuiet, GateQuiet, AtMostOne, Reading
  <2>3. Leases'
        BY <1>29 DEF Retire, Leases, Interruption, Locks, TokensBehind, Leased,
               RunningIsCurrent, Live
  <2>4. Succession'
        BY <1>29 DEF Retire, Succession, Locks, Replacing, Succeeded, SuccessorAlone,
               OwnersQuiet, Holding
  <2> QED BY <2>1, <2>2, <2>3, <2>4
<1>30. ASSUME Apply
      PROVE (Interruption /\ Locks /\ Leases /\ Succession)'
  <2>1. Interruption'
        BY <1>30 DEF Apply, EndPlan, DropGuard, Dropped, Interruption, Claimed, Cancelled,
               AtMostOne
  <2>2. Locks'
        BY <1>30 DEF Apply, EndPlan, DropGuard, Dropped, Locks, OwnersQuiet, GateQuiet,
               AtMostOne, Reading
  <2>3. Leases'
        BY <1>30 DEF Apply, EndPlan, DropGuard, Dropped, Leases, Interruption, Locks,
               TokensBehind, Leased, RunningIsCurrent, Live
  <2>4. Succession'
        BY <1>30 DEF Apply, EndPlan, DropGuard, Dropped, Succession, Locks, Replacing,
               Succeeded, SuccessorAlone
  <2> QED BY <2>1, <2>2, <2>3, <2>4
<1>31. ASSUME Abort
      PROVE (Interruption /\ Locks /\ Leases /\ Succession)'
  <2>1. Interruption'
        BY <1>31 DEF Abort, EndPlan, DropGuard, Dropped, Holding, Interruption, Claimed,
               Cancelled, AtMostOne
  <2>2. Locks'
        BY <1>31 DEF Abort, EndPlan, DropGuard, Dropped, Holding, Locks, OwnersQuiet,
               GateQuiet, AtMostOne, Reading
  <2>3. Leases'
        BY <1>31 DEF Abort, EndPlan, DropGuard, Dropped, Holding, Leases, Interruption, Locks,
               TokensBehind, Leased, RunningIsCurrent, Live
  <2>4. Succession'
        BY <1>31 DEF Abort, EndPlan, DropGuard, Dropped, Holding, Succession, Locks, Replacing,
               Succeeded, SuccessorAlone
  <2> QED BY <2>1, <2>2, <2>3, <2>4
<1>32. ASSUME Probe
      PROVE (Interruption /\ Locks /\ Leases /\ Succession)'
  <2>1. Interruption'
        BY <1>32 DEF Probe, Interruption, Claimed, Cancelled, AtMostOne
  <2>2. Locks'
        BY <1>32 DEF Probe, Locks, OwnersQuiet, GateQuiet, AtMostOne, Reading
  <2>3. Leases'
        BY <1>32 DEF Probe, Leases, Interruption, Locks, TokensBehind, Leased,
               RunningIsCurrent, Live
  <2>4. Succession'
        BY <1>32 DEF Probe, Succession, Locks, Replacing, Succeeded, SuccessorAlone,
               OwnersQuiet, Holding
  <2> QED BY <2>1, <2>2, <2>3, <2>4
<1>33. ASSUME WorkerStep
      PROVE (Interruption /\ Locks /\ Leases /\ Succession)'
  <2>1. Interruption'
        BY <1>33 DEF WorkerStep, Interruption, Claimed, Cancelled, AtMostOne
  <2>2. Locks'
        BY <1>33 DEF WorkerStep, Locks, OwnersQuiet, GateQuiet, AtMostOne, Reading
  <2>3. Leases'
        BY <1>33 DEF WorkerStep, Leases, Interruption, Locks, TokensBehind, Leased,
               RunningIsCurrent, Live
  <2>4. Succession'
        BY <1>33 DEF WorkerStep, Succession, Locks, Replacing, Succeeded, SuccessorAlone,
               OwnersQuiet, Holding
  <2> QED BY <2>1, <2>2, <2>3, <2>4
<1>34. ASSUME ScannerStep
      PROVE (Interruption /\ Locks /\ Leases /\ Succession)'
  <2>1. Interruption'
        BY <1>34 DEF ScannerStep, Interruption, Claimed, Cancelled, AtMostOne
  <2>2. Locks'
        BY <1>34 DEF ScannerStep, Locks, OwnersQuiet, GateQuiet, AtMostOne, Reading
  <2>3. Leases'
        BY <1>34 DEF ScannerStep, Leases, Interruption, Locks, TokensBehind, Leased,
               RunningIsCurrent, Live
  <2>4. Succession'
        BY <1>34 DEF ScannerStep, Succession, Locks, Replacing, Succeeded, SuccessorAlone,
               OwnersQuiet, Holding
  <2> QED BY <2>1, <2>2, <2>3, <2>4
<1>35. CASE UNCHANGED vars
     BY <1>35 DEF vars, Interruption, Claimed, Cancelled, AtMostOne, Locks, OwnersQuiet,
        GateQuiet, Reading, Leases, TokensBehind, Leased, RunningIsCurrent, Live, Succession,
        Replacing, Succeeded, SuccessorAlone, Holding
<1> QED
    BY <1>1, <1>2, <1>3, <1>4, <1>5, <1>6, <1>7, <1>8, <1>9, <1>10, <1>11, <1>12,
       <1>13, <1>14, <1>15, <1>16, <1>17, <1>18, <1>19, <1>20, <1>21, <1>22, <1>23,
       <1>24, <1>25, <1>26, <1>27, <1>28, <1>29, <1>30, <1>31, <1>32, <1>33, <1>34,
       <1>35
    DEF Next, Admission, Mutation, Drain, Edit, Start, Settings, Background

\* The initial state satisfies the inductive invariant.
LEMMA IInvInit == Init => IInv
<1> SUFFICES ASSUME Init PROVE IInv
    OBVIOUS
<1>1. TypeOK
      BY LifecycleAssumption DEF Init, TypeOK, RequestLocations, GuardLocations, Plans, Policies
<1>2. Interruption /\ Locks
      BY DEF Init, Interruption, Claimed, Cancelled, AtMostOne, Locks, OwnersQuiet, GateQuiet,
             EditingOf, OwnersOf, GateOf
<1>3. Leases /\ Succession
      BY DEF Init, Leases, TokensBehind, Leased, RunningIsCurrent, Succession, Replacing,
             Succeeded, SuccessorAlone
<1> QED BY <1>1, <1>2, <1>3 DEF IInv

\* The inductive invariant holds throughout.
LEMMA Invariance == Spec => []IInv
<1>1. IInv /\ [Next]_vars => IInv'
      BY IInvStep
<1> QED BY IInvInit, <1>1, PTL DEF Spec

-----------------------------------------------------------------------------
\* Every reachable state of the lifecycle is well typed.
THEOREM LifecycleTypeOK == Spec => []TypeOK
<1>1. IInv => TypeOK
      BY DEF IInv
<1> QED BY Invariance, <1>1, PTL

\* No mutation runs beside a holder of the exclusive gate: not beside a drained
\* connection edit, a re-enable, or the recovery of abandoned uploads.
THEOREM GateIsExclusive == Spec => []ExclusiveMeansQuiet
<1>1. IInv => ExclusiveMeansQuiet
      BY DEF IInv, Locks, GateQuiet, Leases, Leased, ExclusiveMeansQuiet, Holding, Reading
<1> QED BY Invariance, <1>1, PTL

\* The instance that replaces a connection never shares the namespace with a
\* running mutation of the old one.
THEOREM SuccessorIsAlone == Spec => []SuccessorAlone
<1>1. IInv => SuccessorAlone
      BY DEF IInv, Succession
<1> QED BY Invariance, <1>1, PTL

\* Admission is never reopened over a mutation of an earlier generation.
THEOREM ReopeningIsClean == Spec => []RunningIsCurrent
<1>1. IInv => RunningIsCurrent
      BY DEF IInv, Leases
<1> QED BY Invariance, <1>1, PTL

\* There is never more than one interruption, however calls, timeouts and
\* background drains interleave.
THEOREM InterruptionIsUnique == Spec => []OneInterruption
<1>1. IInv => OneInterruption
      BY DEF IInv, Interruption, Claimed, AtMostOne, OneInterruption, Holding
<1> QED BY Invariance, <1>1, PTL

\* A policy published under its own interruption finds every transfer cancelled.
THEOREM GuardedPolicy == Spec => GuardedPolicyCancels
<1>1. IInv /\ [Next]_vars =>
        [(~ saved /\ saved' /\ plan \in Policies /\ mine # NoGuard) =>
           \A r \in Requests : lease[r] = "held" => ~ Live(r)]_vars
  <2> SUFFICES ASSUME IInv, [Next]_vars, ~ saved, saved', plan \in Policies, mine # NoGuard
               PROVE \A r \in Requests : ~ Live(r)
      OBVIOUS
  <2>1. Save
        BY DEF Next, Admission, Mutation, Drain, Edit, Start, Settings, Background, vars, admin,
               ReadConfig, Lookup, TryRead, CheckRetired, Register, Leave, TryPermit, CheckOwner,
               EndMutation, Cancel, StartDrain, TakeOwners, RevokeLeases, TakeGate, TakeRecovery,
               TakeCapacity, Reopen, Reopened, Release, EditGate, EditRemote, GiveUp,
               StartRecovery, EndRecovery, StartPolicy, StartReplace, StartReenable, Prepare,
               Retire, Apply, Abort, EndPlan, Probe, WorkerStep, ScannerStep
  <2>2. gd[mine] = "open" /\ mine \in Guards
        BY <2>1 DEF Save, MaySave, Holding, Policies
  <2> QED BY <2>2 DEF IInv, Interruption, Cancelled, EditingOf, Live
<1> QED BY Invariance, <1>1, PTL DEF Spec, GuardedPolicyCancels

=============================================================================
