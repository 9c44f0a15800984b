---------------------------- MODULE S3Transactions ----------------------------
(***************************************************************************)
(* Single-file operations of the object-storage backend: uploads           *)
(* (s3_backend/upload.rs), with their intents, multipart sessions, backups *)
(* and conditional publication, moves, copies and deletions, the four      *)
(* journals they keep in the bucket, and the recovery that reads them: at  *)
(* activation (recover_transactions) and by the one worker of an active    *)
(* storage (recover_runtime_transactions).                                 *)
(*                                                                         *)
(* Every request to the store can fail unexecuted, or be executed with its *)
(* answer lost (at most MaxFaults times); every read can fail.  The        *)
(* process can crash (MaxCrashes), and another client of the bucket can    *)
(* write while a conditional upload runs (MaxForeign).  A server-side copy *)
(* may or may not keep the ETag of its source.  Sizes, content types and   *)
(* the encoding of journals are left out; a parent directory exists.       *)
(***************************************************************************)
EXTENDS Naturals, FiniteSets

CONSTANTS Ops,         \* operation ids; their order is the order of journal keys
          Files,       \* relative paths
          Asked,       \* [Ops -> the modes clients may use, of the contract's Modes]
          Large,       \* the operations whose upload may be staged by multipart
          Present,     \* the files stored before
          Keeps,       \* SUBSET BOOLEAN: may a copy keep (TRUE), change (FALSE) the ETag
          Old, Guest,  \* bodies stored before, and by the other client
          Rec,         \* the recovery worker, or activation
          None,
          MaxFaults, MaxCrashes, MaxForeign

ASSUME OpsAssumption == Ops \subseteq Nat /\ Rec \notin Ops /\ None \notin Ops \cup {Rec}

Uploads == {"put", "create", "cond"}
Modes == Uploads \cup {"copy", "move", "delete"}

(* What the variables hold: objects, their ETags, and the three records.   *)
Bodies == Ops \cup {Old, Guest}
Objects == [by : Bodies, gen : Nat, mark : Ops \cup {None}]
ETags == Bodies \X Nat
Requests == [mode : Modes, from : Files, to : Files, expects : Bodies \cup {None}]
Stages == {"prepared", "backed_up", "checking", "started", "rejected"}
Transactions == [stage : Stages, staged : ETags, previous : ETags \cup {None}]
Moves == [stage : {"prepared", "copied"}, src : ETags, dst : ETags \cup {None}]

(* JournalKind::ORDERED, without the two kinds other modules own.          *)
Kinds == {"parts", "move", "upload", "intent"}
Keys == Kinds \X Ops

ASSUME ConstantsAssumption ==
    /\ Old \notin Ops /\ Guest \notin Ops
    /\ None \notin Bodies \cup ETags \cup Objects \cup Requests \cup Transactions \cup Moves \cup Keys
    /\ Present \subseteq Files /\ Asked \in [Ops -> SUBSET Modes] /\ Keeps \subseteq BOOLEAN
    /\ {MaxFaults, MaxCrashes, MaxForeign} \subseteq Nat

VARIABLES
  file,      \* [Files -> object or None]: the formal objects
  staged,    \* [Ops -> object or None]: .ycloud-system/uploads/<id>
  backup,    \* [Ops -> object or None]: .ycloud-system/backups/<id>
  session,   \* SUBSET Ops: a multipart session is open at the store
  intent,    \* SUBSET Ops: internal-upload-intents/<id>
  parts,     \* [Ops -> "none" | "unnamed" | "named"]: multipart-sessions/<id>
  upload,    \* [Ops -> record or None]: transactions/<id>
  move,      \* [Ops -> record or None]: file-move-transactions/<id>
  probe,     \* SUBSET {"intent", "source", "copy"}: of the activation probe
  pending,   \* RecoveryState.pending: journal keys registered by this process
  verified,  \* conditional_publish_verified
  plan,      \* [Ops -> None or the request]
  run,       \* [Ops \cup {Rec} -> where the executor is]
  known,     \* [Ops -> ETag the executor holds in a local variable, or None]
  job,       \* the journal recovery works on, <<kind, op>>, or None
  gate,      \* mutation_gate: None, an operation, or Rec
  phase,     \* "up" | "starting" | "down"
  answer, effect, stale, refused,   \* history: see Properties
  faults, crashes, foreign

store   == <<file, staged, backup, session>>
records == <<intent, parts, upload, move>>
local   == <<plan, run, known, gate>>
ghosts  == <<answer, effect, stale, refused>>
limits  == <<faults, crashes, foreign>>
vars    == <<store, records, probe, pending, verified, local, job, phase, ghosts, limits>>

-------------------------------------------------------------------------------
(* Objects.  gen tells apart the ETags a copy may invent; mark is the      *)
(* operation id in the object's metadata, which a plain copy carries over. *)

Object(w, m) == [by |-> w, gen |-> 0, mark |-> m]
ETag(x) == <<x.by, x.gen>>
Copied(x, keep) == IF keep THEN x ELSE [x EXCEPT !.gen = @ + 1]
Matches(x, etag) == x # None /\ ETag(x) = etag
TagOf(x) == IF x = None THEN None ELSE ETag(x)

(* Journals are recovered in the order of their kinds, then of their keys. *)
Rank(k) == CASE k = "parts" -> 1 [] k = "move" -> 2 [] k = "upload" -> 3 [] k = "intent" -> 4
Journals == {j \in Keys :
               CASE j[1] = "parts"  -> parts[j[2]] # "none"
                 [] j[1] = "move"   -> move[j[2]] # None
                 [] j[1] = "upload" -> upload[j[2]] # None
                 [] j[1] = "intent" -> j[2] \in intent}
Before(i, j) == Rank(i[1]) < Rank(j[1]) \/ (i[1] = j[1] /\ i[2] < j[2])
First(S) == {j \in S : \A i \in S \ {j} : Before(j, i)}

(* One request: executed says whether the store carried it out, ok whether *)
(* its caller learns so.  Retries of the SDK end in one of these three.    *)
Call(executed, ok) == \/ executed /\ ok /\ UNCHANGED faults
                      \/ ~ok /\ faults < MaxFaults /\ faults' = faults + 1
Read(ok) == Call(TRUE, ok)

At(a, pc) == run[a] = pc
Goto(a, pc) == run' = [run EXCEPT ![a] = pc]

(* The operation returns to its caller and drops the guards it holds.      *)
Leave(o, r) == /\ Goto(o, "done")
               /\ gate' = IF gate = o THEN None ELSE gate
               /\ answer' = [answer EXCEPT ![o] = r]

(* Journals of others that name a path someone now changes (history).      *)
Touch(o, p) ==
  stale' = stale \cup {q \in Ops \ {o} : \/ upload[q] # None /\ plan[q].to = p
                                         \/ move[q] # None /\ p \in {plan[q].from, plan[q].to}}

(* write_encoded_journal registers the key before the PUT.                 *)
Register(k, o) == pending' = pending \cup {<<k, o>>}
(* delete_key_confirmed retires it only after absence is confirmed.        *)
Settle(k, o, ok) == pending' = IF ok THEN pending \ {<<k, o>>} ELSE pending

Init == /\ file = [f \in Files |-> IF f \in Present THEN Object(Old, None) ELSE None]
        /\ staged = [o \in Ops |-> None] /\ backup = [o \in Ops |-> None]
        /\ session = {} /\ intent = {}
        /\ parts = [o \in Ops |-> "none"]
        /\ upload = [o \in Ops |-> None] /\ move = [o \in Ops |-> None]
        /\ probe = {} /\ pending = {} /\ verified = FALSE
        /\ plan = [o \in Ops |-> None] /\ known = [o \in Ops |-> None]
        /\ run = [a \in Ops \cup {Rec} |-> "idle"]
        /\ job = None /\ gate = None /\ phase = "up"
        /\ answer = [o \in Ops |-> "none"] /\ effect = [o \in Ops |-> "no"]
        /\ stale = {} /\ refused = None
        /\ faults = 0 /\ crashes = 0 /\ foreign = 0

-------------------------------------------------------------------------------
(* Admission.  An upload reads recovery_gate for its whole life; the gate  *)
(* prefers a waiting writer, so a worker that waits closes it.             *)

Start(o) ==
  /\ phase = "up" /\ At(o, "idle")
  /\ \E m \in Asked[o], p, q \in Files :
       /\ m \in Uploads => p = q /\ At(Rec, "idle")
       /\ m = "delete" => p = q
       /\ m \in {"copy", "move"} => p # q
       /\ plan' = [plan EXCEPT ![o] =
            [mode |-> m, from |-> p, to |-> q,
             expects |-> IF m = "cond" /\ file[q] # None THEN file[q].by ELSE None]]
       /\ known' = [known EXCEPT ![o] = TagOf(file[q])]
       /\ Goto(o, IF m \in Uploads THEN "intent" ELSE "lock")
  /\ UNCHANGED <<store, records, pending, verified, gate, job, phase, ghosts, limits>>

(* Everything but an upload needs only the mutation gate.                  *)
Lock(o) ==
  /\ At(o, "lock") /\ gate = None
  /\ gate' = o
  /\ Goto(o, IF plan[o].mode \in Uploads THEN "check" ELSE plan[o].mode)
  /\ UNCHANGED <<store, records, pending, verified, plan, known, job, phase, ghosts, limits>>

-------------------------------------------------------------------------------
(* Staging: the intent, then one PUT or a multipart session.               *)

WriteIntent(o) ==
  /\ At(o, "intent")
  /\ Register("intent", o)
  /\ \E x, ok \in BOOLEAN :
       /\ Call(x, ok)
       /\ intent' = IF x THEN intent \cup {o} ELSE intent
       /\ IF ok THEN /\ \E pc \in {"stage"} \cup (IF o \in Large THEN {"open"} ELSE {}) : Goto(o, pc)
                     /\ UNCHANGED <<gate, answer>>
                ELSE Leave(o, "failed")
  /\ UNCHANGED <<store, parts, upload, move, verified, plan, known, job, phase,
                 effect, stale, refused, crashes, foreign>>

(* single_upload is sent once; a failure may still have stored the object. *)
StageSingle(o) ==
  /\ At(o, "stage")
  /\ \E x, ok \in BOOLEAN :
       /\ Call(x, ok)
       /\ staged' = [staged EXCEPT ![o] = IF x THEN Object(o, o) ELSE None]
       /\ Goto(o, IF ok THEN "inspect" ELSE "abandon")
  /\ UNCHANGED <<file, backup, session, records, pending, verified, plan, known, gate, job,
                 phase, ghosts, crashes, foreign>>

(* start_multipart_operation: intent without id, session, intent with id.  *)
OpenSession(o) ==
  /\ At(o, "open")
  /\ Register("parts", o)
  /\ \E x, ok \in BOOLEAN :
       /\ Call(x, ok)
       /\ parts' = [parts EXCEPT ![o] = IF x THEN "unnamed" ELSE "none"]
       /\ Goto(o, IF ok THEN "create" ELSE "abandon")
  /\ UNCHANGED <<store, intent, upload, move, verified, plan, known, gate, job,
                 phase, ghosts, crashes, foreign>>

CreateSession(o) ==
  /\ At(o, "create")
  /\ \E x, ok \in BOOLEAN :
       /\ Call(x, ok)
       /\ session' = IF x THEN session \cup {o} ELSE session
       /\ Goto(o, IF ok THEN "bind" ELSE "unstarted")
  /\ UNCHANGED <<file, staged, backup, records, pending, verified, plan, known, gate, job,
                 phase, ghosts, crashes, foreign>>

(* release_unstarted_multipart_intent gives up after 500 ms.               *)
ReleaseUnstarted(o) ==
  /\ At(o, "unstarted")
  /\ \/ UNCHANGED <<parts, pending, faults>>
     \/ \E x, ok \in BOOLEAN : /\ Call(x, ok)
                               /\ parts' = [parts EXCEPT ![o] = IF x THEN "none" ELSE @]
                               /\ Settle("parts", o, ok)
  /\ Goto(o, "abandon")
  /\ UNCHANGED <<store, intent, upload, move, verified, plan, known, gate, job,
                 phase, ghosts, crashes, foreign>>

BindSession(o) ==
  /\ At(o, "bind")
  /\ Register("parts", o)
  /\ \E x, ok \in BOOLEAN :
       /\ Call(x, ok)
       /\ parts' = [parts EXCEPT ![o] = IF x THEN "named" ELSE @]
       /\ Goto(o, IF ok THEN "transfer" ELSE "unbind")
  /\ UNCHANGED <<store, intent, upload, move, verified, plan, known, gate, job,
                 phase, ghosts, crashes, foreign>>

(* A journal whose last write was lost has another ETag than the one held, *)
(* so its conditional deletion refuses it and leaves it to recovery.       *)
UnbindSession(o) ==
  /\ At(o, "unbind")
  /\ \E x, ok, y, sure \in BOOLEAN :
       /\ Call(x, ok)
       /\ session' = IF x THEN session \ {o} ELSE session
       /\ IF ok /\ parts[o] = "unnamed" /\ y
          THEN /\ parts' = [parts EXCEPT ![o] = "none"] /\ Settle("parts", o, sure)
          ELSE UNCHANGED <<parts, pending>>
  /\ Goto(o, "abandon")
  /\ UNCHANGED <<file, staged, backup, intent, upload, move, verified, plan, known, gate, job,
                 phase, ghosts, crashes, foreign>>

(* Parts and the completing request of multipart_upload; a failed one is   *)
(* settled by looking at the object it would have made.                    *)
CompleteParts(o) ==
  /\ At(o, "transfer")
  /\ \E x, ok \in BOOLEAN :
       /\ Call(x, ok)
       /\ staged' = [staged EXCEPT ![o] = IF x THEN Object(o, o) ELSE None]
       /\ session' = IF x THEN session \ {o} ELSE session
       /\ \/ Goto(o, IF x THEN "release" ELSE "abort")
          \/ ~ok /\ Goto(o, "abandon")          \* the look at the object failed as well
  /\ UNCHANGED <<file, backup, records, pending, verified, plan, known, gate, job,
                 phase, ghosts, crashes, foreign>>

(* A browser that sends its parts itself (receive_direct_parts) may cancel, *)
(* or complete with parts missing; a body of ours may break off.            *)
PartsMissing(o) ==
  /\ At(o, "transfer")
  /\ Goto(o, "abort")
  /\ UNCHANGED <<store, records, pending, verified, plan, known, gate, job, phase, ghosts, limits>>

(* delete_transaction_best_effort after a completed session.               *)
ReleaseSession(o) ==
  /\ At(o, "release")
  /\ \E x, ok \in BOOLEAN : /\ Call(x, ok)
                            /\ parts' = [parts EXCEPT ![o] = IF x THEN "none" ELSE @]
                            /\ Settle("parts", o, ok)
  /\ Goto(o, "inspect")
  /\ UNCHANGED <<store, intent, upload, move, verified, plan, known, gate, job,
                 phase, ghosts, crashes, foreign>>

AbortSession(o) ==
  /\ At(o, "abort")
  /\ \E x, ok, y, sure \in BOOLEAN :
       /\ Call(x, ok)
       /\ session' = IF x THEN session \ {o} ELSE session
       /\ IF ok /\ y THEN /\ parts' = [parts EXCEPT ![o] = "none"] /\ Settle("parts", o, sure)
                     ELSE UNCHANGED <<parts, pending>>
  /\ Goto(o, "abandon")
  /\ UNCHANGED <<file, staged, backup, intent, upload, move, verified, plan, known, gate, job,
                 phase, ghosts, crashes, foreign>>

Inspect(o) ==
  /\ At(o, "inspect")
  /\ \E ok \in BOOLEAN : Read(ok) /\ Goto(o, IF ok THEN "lock" ELSE "abandon")
  /\ UNCHANGED <<store, records, pending, verified, plan, known, gate, job, phase, ghosts,
                 crashes, foreign>>

(* finish_uncommitted_internal_upload: the staged object, then the intent. *)
Abandon(o) ==
  /\ At(o, "abandon")
  /\ \E x, ok \in BOOLEAN :
       /\ Call(x, ok)
       /\ IF staged[o] # None
          THEN /\ staged' = [staged EXCEPT ![o] = IF x THEN None ELSE @]
               /\ UNCHANGED <<intent, pending>>
               /\ IF ok THEN UNCHANGED <<run, gate, answer>> ELSE Leave(o, "failed")
          ELSE /\ intent' = IF x THEN intent \ {o} ELSE intent
               /\ Settle("intent", o, ok)
               /\ Leave(o, "failed")
               /\ UNCHANGED staged
  /\ UNCHANGED <<file, backup, session, parts, upload, move, verified, plan, known, job, phase,
                 effect, stale, refused, crashes, foreign>>

(* An administrator edit cancels the transfer; what was in flight may      *)
(* still be stored, and its records stay for recovery.                     *)
Interrupt(o) ==
  /\ run[o] \in {"stage", "transfer", "inspect", "lock"}
  /\ plan[o].mode \in Uploads
  /\ \E x \in BOOLEAN :
       /\ staged' = [staged EXCEPT ![o] = IF x /\ run[o] \in {"stage", "transfer"}
                                          THEN Object(o, o) ELSE @]
       /\ session' = IF x /\ At(o, "transfer") THEN session \ {o} ELSE session
  /\ Leave(o, "failed")
  /\ UNCHANGED <<file, backup, records, pending, verified, plan, known, job, phase,
                 effect, stale, refused, limits>>

-------------------------------------------------------------------------------
(* The commit part of an upload, under the mutation gate.                  *)

Guarded(o) == plan[o].mode = "cond"

(* conditions.check, create_only and the ETags of both objects.            *)
Check(o) ==
  /\ At(o, "check")
  /\ \E ok \in BOOLEAN :
       /\ Read(ok)
       /\ IF \/ ~ok
             \/ plan[o].mode = "create" /\ file[plan[o].to] # None
             \/ Guarded(o) /\ TagOf(file[plan[o].to]) # known[o]
          THEN Goto(o, "abandon") /\ UNCHANGED known
          ELSE Goto(o, "journal") /\ known' = [known EXCEPT ![o] = TagOf(file[plan[o].to])]
  /\ UNCHANGED <<store, records, pending, verified, plan, gate, job, phase, ghosts,
                 crashes, foreign>>

WriteTransaction(o) ==
  /\ At(o, "journal")
  /\ Register("upload", o)
  /\ \E x, ok \in BOOLEAN :
       /\ Call(x, ok)
       /\ upload' = [upload EXCEPT ![o] =
            IF x THEN [stage |-> IF Guarded(o) THEN "checking" ELSE "prepared",
                       staged |-> ETag(staged[o]), previous |-> known[o]]
                 ELSE None]
       /\ Goto(o, IF ok THEN "handoff" ELSE "abandon")
  /\ UNCHANGED <<store, intent, parts, move, verified, plan, known, gate, job, phase, ghosts,
                 crashes, foreign>>

(* The transaction now owns the staged object; a failure is only logged.   *)
ReleaseIntent(o) ==
  /\ At(o, "handoff")
  /\ \E x, ok \in BOOLEAN : /\ Call(x, ok)
                            /\ intent' = IF x THEN intent \ {o} ELSE intent
                            /\ Settle("intent", o, ok)
  /\ Goto(o, IF Guarded(o) THEN "verify"
             ELSE IF known[o] # None THEN "backup" ELSE "publish")
  /\ UNCHANGED <<store, parts, upload, move, verified, plan, known, gate, job, phase, ghosts,
                 crashes, foreign>>

(* Mutant of Accepted: a copy without an answer is taken for done.         *)
AcceptedBlindly(x, ok, keep) == {TRUE}
(* copy_key to a private key that must not exist: a lost answer is         *)
(* accepted when the copy is there with the ETag of its source.            *)
Accepted(x, ok, keep) == IF ok THEN {TRUE} ELSE {FALSE, x /\ keep}

BackUp(o) ==
  /\ At(o, "backup")
  /\ \E x, ok \in BOOLEAN, keep \in Keeps :
       /\ Call(x, ok)
       /\ backup' = [backup EXCEPT ![o] = IF x THEN Copied(file[plan[o].to], keep) ELSE None]
       /\ \E sure \in Accepted(x, ok, keep) :
            IF sure THEN Goto(o, "mark") /\ UNCHANGED <<gate, answer>>
                    ELSE Leave(o, "unknown")
  /\ UNCHANGED <<file, staged, session, records, pending, verified, plan, known, job, phase,
                 effect, stale, refused, crashes, foreign>>

(* A stage of the transaction is written before the step it announces.     *)
WriteStage(o, at, stage, next, otherwise) ==
  /\ At(o, at)
  /\ Register("upload", o)
  /\ \E x, ok \in BOOLEAN :
       /\ Call(x, ok)
       /\ upload' = [upload EXCEPT ![o].stage = IF x THEN stage ELSE @]
       /\ IF ok THEN Goto(o, next) /\ UNCHANGED <<gate, answer>> ELSE Leave(o, otherwise)
  /\ UNCHANGED <<store, intent, parts, move, verified, plan, known, job, phase,
                 effect, stale, refused, crashes, foreign>>

MarkBackup(o) == WriteStage(o, "mark", "backed_up", "publish", "failed")
MarkStarted(o) == WriteStage(o, "started", "started", "publish", "failed")
MarkRejected(o) == WriteStage(o, "rejected", "rejected", "clean_failed", "failed")

(* verify_conditional_publish: an empty object at the backup key and two   *)
(* copies that must be refused.  A store that ignores conditions is seen.  *)
Verify(o) ==
  /\ At(o, "verify")
  /\ \/ verified /\ Goto(o, "started") /\ UNCHANGED <<backup, verified, faults>>
     \/ /\ ~verified
        /\ \E x, ok \in BOOLEAN :
             /\ Call(TRUE, ok)
             /\ verified' = ok
             /\ backup' = [backup EXCEPT ![o] = IF x /\ ~ok THEN Object(o, o) ELSE None]
             /\ Goto(o, IF ok THEN "started" ELSE "clean_failed")
  /\ UNCHANGED <<file, staged, session, records, pending, plan, known, gate, job, phase, ghosts,
                 crashes, foreign>>

(* The store honours If-None-Match and If-Match on the publishing copy.    *)
Publishable(o) == CASE plan[o].mode = "put" -> TRUE
                    [] plan[o].mode = "create" -> file[plan[o].to] = None
                    [] OTHER -> TagOf(file[plan[o].to]) = upload[o].previous

Publish(o) ==
  /\ At(o, "publish")
  /\ \/ /\ Publishable(o)
        /\ \E x, ok \in BOOLEAN, keep \in Keeps :
             /\ Call(x, ok)
             /\ IF x THEN /\ file' = [file EXCEPT ![plan[o].to] = Copied(staged[o], keep)]
                          /\ effect' = [effect EXCEPT ![o] = "yes"]
                          /\ Touch(o, plan[o].to)
                     ELSE UNCHANGED <<file, effect, stale>>
        /\ Goto(o, "confirm")
     \/ /\ ~Publishable(o)
        /\ Goto(o, IF Guarded(o) THEN "rejected" ELSE "confirm")
        /\ UNCHANGED <<file, effect, stale, faults>>
  /\ UNCHANGED <<staged, backup, session, records, pending, verified, plan, known, gate, job,
                 phase, answer, refused, crashes, foreign>>

(* Proof of commit: the operation id, or for an unconditional upload the   *)
(* staged ETag.                                                            *)
Committed(o, x) == /\ x # None
                   /\ \/ x.mark = o
                      \/ ~Guarded(o) /\ ETag(x) = upload[o].staged

Confirm(o) ==
  /\ At(o, "confirm")
  /\ \E ok \in BOOLEAN :
       /\ Read(ok)
       /\ IF ~ok THEN Leave(o, "unknown")
          ELSE IF Committed(o, file[plan[o].to])
               THEN Goto(o, "clean_committed") /\ UNCHANGED <<gate, answer>>
          ELSE IF Guarded(o) THEN Leave(o, "unknown")
          ELSE IF backup[o] # None THEN Goto(o, "restore") /\ UNCHANGED <<gate, answer>>
          ELSE IF file[plan[o].to] # None THEN Leave(o, "failed")
          ELSE Goto(o, "clean_failed") /\ UNCHANGED <<gate, answer>>
  /\ UNCHANGED <<store, records, pending, verified, plan, known, job, phase,
                 effect, stale, refused, crashes, foreign>>

Restore(o) ==
  /\ At(o, "restore")
  /\ \E x, ok \in BOOLEAN, keep \in Keeps :
       /\ Call(x, ok)
       /\ IF x THEN /\ file' = [file EXCEPT ![plan[o].to] = Copied(backup[o], keep)]
                    /\ Touch(o, plan[o].to)
               ELSE UNCHANGED <<file, stale>>
       /\ IF ok THEN Goto(o, "remark") /\ UNCHANGED <<gate, answer>> ELSE Leave(o, "failed")
  /\ UNCHANGED <<staged, backup, session, records, pending, verified, plan, known, job, phase,
                 effect, refused, crashes, foreign>>

(* The restored object may have another ETag; the journal learns it.       *)
Remark(o) ==
  /\ At(o, "remark")
  /\ Register("upload", o)
  /\ \E x, ok \in BOOLEAN :
       /\ Call(x, ok)
       /\ upload' = [upload EXCEPT ![o].previous = IF x THEN TagOf(file[plan[o].to]) ELSE @]
       /\ IF ok THEN Goto(o, "clean_failed") /\ UNCHANGED <<gate, answer>>
                ELSE Leave(o, "failed")
  /\ UNCHANGED <<store, intent, parts, move, verified, plan, known, job, phase,
                 effect, stale, refused, crashes, foreign>>

(* Mutant of Debris: the transaction is deleted before what it owns.       *)
DebrisJournalFirst(o) == CASE upload[o] # None -> "upload"
                           [] upload[o] = None /\ staged[o] # None -> "staged"
                           [] upload[o] = None /\ staged[o] = None /\ backup[o] # None -> "backup"
                           [] OTHER -> "intent"
(* finish_upload_transaction, then the intent: staged object, backup,      *)
(* transaction, intent, each gone before the next is touched.              *)
Debris(o) == CASE staged[o] # None -> "staged"
               [] staged[o] = None /\ backup[o] # None -> "backup"
               [] staged[o] = None /\ backup[o] = None /\ upload[o] # None -> "upload"
               [] OTHER -> "intent"

Discard(o, x, ok) ==
  /\ staged' = [staged EXCEPT ![o] = IF x /\ Debris(o) = "staged" THEN None ELSE @]
  /\ backup' = [backup EXCEPT ![o] = IF x /\ Debris(o) = "backup" THEN None ELSE @]
  /\ upload' = [upload EXCEPT ![o] = IF x /\ Debris(o) = "upload" THEN None ELSE @]
  /\ intent' = IF x /\ Debris(o) = "intent" THEN intent \ {o} ELSE intent
  /\ IF Debris(o) \in {"upload", "intent"} THEN Settle(Debris(o), o, ok) ELSE UNCHANGED pending

Clean(o) ==
  /\ run[o] \in {"clean_committed", "clean_failed"}
  /\ LET r == IF At(o, "clean_committed") THEN "committed" ELSE "failed" IN
     \/ \E x, ok \in BOOLEAN :
          /\ Call(x, ok)
          /\ Discard(o, x, ok)
          /\ IF ok /\ Debris(o) # "intent" THEN UNCHANGED <<run, gate, answer>> ELSE Leave(o, r)
     \/ /\ r = "committed" \/ Guarded(o)         \* FOREGROUND_CLEANUP_BUDGET is over
        /\ Leave(o, r)
        /\ \E x \in BOOLEAN : Discard(o, x, FALSE)
        /\ UNCHANGED faults
  /\ UNCHANGED <<file, session, parts, move, verified, plan, known, job, phase,
                 effect, stale, refused, crashes, foreign>>

-------------------------------------------------------------------------------
(* Copies and deletions: no journal, one formal request each.              *)

CopyFile(o) ==
  /\ At(o, "copy")
  /\ \/ \E ok \in BOOLEAN :
          /\ Read(ok)
          /\ ~ok \/ file[plan[o].from] = None \/ file[plan[o].to] # None
          /\ Leave(o, "failed")
          /\ UNCHANGED <<file, effect, stale, known>>
     \/ /\ file[plan[o].from] # None /\ file[plan[o].to] = None
        /\ \E x, ok \in BOOLEAN, keep \in Keeps :
             /\ Call(x, ok)
             /\ IF x THEN /\ file' = [file EXCEPT ![plan[o].to] = Copied(file[plan[o].from], keep)]
                          /\ effect' = [effect EXCEPT ![o] = "yes"]
                          /\ Touch(o, plan[o].to)
                     ELSE UNCHANGED <<file, effect, stale>>
             /\ \E sure \in Accepted(x, ok, keep) :
                  IF sure THEN /\ Goto(o, "copied") /\ UNCHANGED <<gate, answer>>
                               /\ known' = [known EXCEPT ![o] = ETag(Copied(file[plan[o].from], keep))]
                          ELSE /\ Goto(o, "unsure") /\ UNCHANGED <<gate, answer, known>>
  /\ UNCHANGED <<staged, backup, session, records, pending, verified, plan, job, phase, refused,
                 crashes, foreign>>

ConfirmCopy(o) ==
  /\ run[o] \in {"copied", "unsure"}
  /\ \E ok \in BOOLEAN :
       /\ Read(ok)
       /\ Leave(o, IF ok /\ At(o, "copied") /\ Matches(file[plan[o].to], known[o])
                   THEN "committed" ELSE "unknown")
  /\ UNCHANGED <<store, records, pending, verified, plan, known, job, phase,
                 effect, stale, refused, crashes, foreign>>

DeleteFile(o) ==
  /\ At(o, "delete")
  /\ \E x, ok, found \in BOOLEAN :
       /\ Call(x, ok)
       /\ ok => found
       /\ IF file[plan[o].from] = None \/ ~found         \* or its metadata cannot be read
          THEN Leave(o, "failed") /\ UNCHANGED <<file, effect, stale, known>>
          ELSE /\ known' = [known EXCEPT ![o] = ETag(file[plan[o].from])]
               /\ Goto(o, "deleted") /\ UNCHANGED <<gate, answer>>
               /\ IF x THEN /\ file' = [file EXCEPT ![plan[o].from] = None]
                            /\ effect' = [effect EXCEPT ![o] = "yes"]
                            /\ Touch(o, plan[o].from)
                       ELSE UNCHANGED <<file, effect, stale>>
  /\ UNCHANGED <<staged, backup, session, records, pending, verified, plan, job, phase, refused,
                 crashes, foreign>>

(* delete_key_after_identity_check believes only a look at the object.     *)
ConfirmDelete(o) ==
  /\ At(o, "deleted")
  /\ \E ok \in BOOLEAN :
       /\ Read(ok)
       /\ Leave(o, IF ~ok THEN "unknown"
                   ELSE IF file[plan[o].from] = None THEN "committed"
                   ELSE IF Matches(file[plan[o].from], known[o]) THEN "failed" ELSE "unknown")
  /\ UNCHANGED <<store, records, pending, verified, plan, known, job, phase,
                 effect, stale, refused, crashes, foreign>>

-------------------------------------------------------------------------------
(* How recovery ends a journal: settled, retried later, or refused.  At    *)
(* activation a failure keeps the storage closed.                          *)

Release == /\ gate' = IF gate = Rec THEN None ELSE gate
           /\ job' = None
Done == /\ Release
        /\ Goto(Rec, IF phase = "up" /\ pending' # {} THEN "wait" ELSE "idle")
        /\ UNCHANGED phase
GiveUp == /\ Release
          /\ Goto(Rec, IF phase = "up" THEN "wait" ELSE "idle")
          /\ phase' = IF phase = "up" THEN "up" ELSE "down"

(* The same move runs in the foreground and in recovery; an error leaves   *)
(* the journal to the next pass and the caller without a result.           *)
Stop(a, o) == IF a = Rec THEN GiveUp /\ UNCHANGED <<answer, refused>>
                         ELSE Leave(o, "unknown") /\ UNCHANGED <<job, phase, refused>>
Refuse(a, o) == IF a = Rec THEN GiveUp /\ refused' = job /\ UNCHANGED answer
                           ELSE Leave(o, "unknown") /\ UNCHANGED <<job, phase, refused>>
Proceed(a, pc) == Goto(a, pc) /\ UNCHANGED <<gate, answer, job, phase, refused>>

BeginMove(o) ==
  /\ At(o, "move")
  /\ \/ /\ \E ok \in BOOLEAN :
             /\ Read(ok)
             /\ ~ok \/ file[plan[o].from] = None \/ file[plan[o].to] # None
        /\ Leave(o, "failed")
        /\ UNCHANGED <<move, pending>>
     \/ /\ file[plan[o].from] # None /\ file[plan[o].to] = None
        /\ Register("move", o)
        /\ \E x, ok \in BOOLEAN :
             /\ Call(x, ok)
             /\ move' = [move EXCEPT ![o] = IF x THEN [stage |-> "prepared",
                                                      src |-> ETag(file[plan[o].from]),
                                                      dst |-> None]
                                                ELSE None]
             /\ IF ok THEN Goto(o, "mv_copy") /\ UNCHANGED <<gate, answer>>
                      ELSE Leave(o, "unknown")
  /\ UNCHANGED <<store, intent, parts, upload, verified, plan, known, job, phase,
                 effect, stale, refused, crashes, foreign>>

MoveCopy(a, o) ==
  /\ At(a, "mv_copy")
  /\ LET src == file[plan[o].from]
         dst == file[plan[o].to]
     IN
     \/ Read(FALSE) /\ Stop(a, o) /\ UNCHANGED <<file, known, effect, stale>>
     \/ /\ \/ ~Matches(src, move[o].src)
           \/ dst # None /\ ETag(dst) # move[o].src /\ dst.mark # o
        /\ Refuse(a, o)
        /\ UNCHANGED <<file, known, effect, stale, faults>>
     \/ /\ Matches(src, move[o].src)
        /\ dst # None /\ (ETag(dst) = move[o].src \/ dst.mark = o)
        /\ known' = [known EXCEPT ![o] = ETag(dst)]
        /\ effect' = [effect EXCEPT ![o] = "half"]
        /\ Proceed(a, "mv_mark")
        /\ UNCHANGED <<file, stale, faults>>
     \/ /\ Matches(src, move[o].src) /\ dst = None
        /\ \E x, ok \in BOOLEAN, keep \in Keeps :
             /\ Call(x, ok)
             /\ IF x THEN /\ file' = [file EXCEPT ![plan[o].to] = Copied(src, keep)]
                          /\ effect' = [effect EXCEPT ![o] = "half"]
                          /\ Touch(o, plan[o].to)
                     ELSE UNCHANGED <<file, effect, stale>>
             /\ known' = [known EXCEPT ![o] = ETag(Copied(src, keep))]
             /\ \E sure \in Accepted(x, ok, keep) :
                  Proceed(a, IF sure THEN "mv_mark" ELSE "mv_lost")
  /\ UNCHANGED <<staged, backup, session, records, pending, verified, plan, crashes, foreign>>

MoveLost(a, o) ==
  /\ At(a, "mv_lost")
  /\ Stop(a, o)
  /\ UNCHANGED <<store, records, pending, verified, plan, known, effect, stale, limits>>

MoveMark(a, o) ==
  /\ At(a, "mv_mark")
  /\ Register("move", o)
  /\ \E x, ok \in BOOLEAN :
       /\ Call(x, ok)
       /\ move' = [move EXCEPT ![o] = IF x THEN [stage |-> "copied", src |-> @.src, dst |-> known[o]] ELSE @]
       /\ IF ok THEN Proceed(a, "mv_drop") ELSE Stop(a, o)
  /\ UNCHANGED <<store, intent, parts, upload, verified, plan, known, effect, stale,
                 crashes, foreign>>

(* Destination and source are looked at again before the source goes.      *)
MoveDrop(a, o) ==
  /\ At(a, "mv_drop")
  /\ LET src == file[plan[o].from]
         dst == file[plan[o].to]
     IN
     \/ Read(FALSE) /\ Stop(a, o) /\ UNCHANGED <<file, effect, stale>>
     \/ /\ \/ ~Matches(dst, move[o].dst)
           \/ src # None /\ ~Matches(src, move[o].src)
        /\ Refuse(a, o)
        /\ UNCHANGED <<file, effect, stale, faults>>
     \/ /\ Matches(dst, move[o].dst) /\ src = None
        /\ Proceed(a, "mv_end")
        /\ UNCHANGED <<file, effect, stale, faults>>
     \/ /\ Matches(dst, move[o].dst) /\ Matches(src, move[o].src)
        /\ \E x, ok \in BOOLEAN :
             /\ Call(x, ok)
             /\ IF x THEN /\ file' = [file EXCEPT ![plan[o].from] = None]
                          /\ effect' = [effect EXCEPT ![o] = "yes"]
                          /\ Touch(o, plan[o].from)
                     ELSE UNCHANGED <<file, effect, stale>>
             /\ Proceed(a, IF ok THEN "mv_end" ELSE "mv_lost")
  /\ UNCHANGED <<staged, backup, session, records, pending, verified, plan, known,
                 crashes, foreign>>

(* CompletionMode: the foreground has succeeded whatever becomes of the    *)
(* journal; recovery has not until it is gone.                             *)
MoveEnd(a, o) ==
  /\ At(a, "mv_end")
  /\ \E x, ok \in BOOLEAN :
       /\ \/ Call(x, ok)
          \/ a # Rec /\ ~ok /\ UNCHANGED faults          \* FOREGROUND_CLEANUP_BUDGET
       /\ move' = [move EXCEPT ![o] = IF x THEN None ELSE @]
       /\ Settle("move", o, ok)
       /\ IF a # Rec THEN Leave(o, "committed") /\ UNCHANGED <<job, phase>>
          ELSE IF ok THEN Done /\ UNCHANGED answer
          ELSE GiveUp /\ UNCHANGED answer
  /\ UNCHANGED <<store, intent, parts, upload, verified, plan, known, effect, stale, refused,
                 crashes, foreign>>

-------------------------------------------------------------------------------
(* Recovery of one journal, dispatched by recover_journal.                 *)

Entry(j) == CASE j[1] = "parts" -> "r_parts"
              [] j[1] = "upload" -> "r_upload"
              [] j[1] = "intent" -> "r_intent"
              [] j[1] = "move" /\ move[j[2]].stage = "prepared" -> "mv_copy"
              [] OTHER -> "mv_drop"

(* recover_multipart_session: an unnamed session owns no data; a finished  *)
(* object goes first, an open session is aborted by its id.                *)
RecoverParts(o) ==
  /\ At(Rec, "r_parts")
  /\ \E x, ok \in BOOLEAN :
       /\ Call(x, ok)
       /\ LET what == CASE parts[o] = "named" /\ staged[o] # None -> "staged"
                        [] parts[o] = "named" /\ staged[o] = None /\ o \in session -> "session"
                        [] OTHER -> "journal"
          IN /\ staged' = [staged EXCEPT ![o] = IF x /\ what = "staged" THEN None ELSE @]
             /\ session' = IF x /\ what = "session" THEN session \ {o} ELSE session
             /\ parts' = [parts EXCEPT ![o] = IF x /\ what = "journal" THEN "none" ELSE @]
             /\ IF what = "journal" THEN Settle("parts", o, ok) ELSE UNCHANGED pending
             /\ CASE ~ok -> GiveUp
                  [] ok /\ what = "journal" -> Done
                  [] OTHER -> UNCHANGED <<run, gate, job, phase>>
  /\ UNCHANGED <<file, backup, intent, upload, move, verified, plan, known, ghosts,
                 crashes, foreign>>

(* Mutant of RolledBack: an absent target is no proof for a new file.      *)
RolledBackToObjectOnly(o) == Matches(file[plan[o].to], upload[o].previous)
(* recover_upload_transaction only accepts states it can prove: not yet    *)
(* published or rejected, the new object, or the old one.                  *)
RolledBack(o) == IF upload[o].previous = None THEN file[plan[o].to] = None
                 ELSE Matches(file[plan[o].to], upload[o].previous)
Provable(o) == IF Guarded(o) THEN \/ upload[o].stage \in {"checking", "rejected"}
                                  \/ Committed(o, file[plan[o].to])
               ELSE Committed(o, file[plan[o].to]) \/ RolledBack(o)

RecoverUpload(o) ==
  /\ At(Rec, "r_upload")
  /\ \/ Read(FALSE) /\ GiveUp /\ UNCHANGED refused
     \/ Provable(o) /\ Goto(Rec, "r_finish") /\ UNCHANGED <<gate, job, phase, refused, faults>>
     \/ ~Provable(o) /\ GiveUp /\ refused' = job /\ UNCHANGED faults
  /\ UNCHANGED <<store, records, pending, verified, plan, known, answer, effect, stale,
                 crashes, foreign>>

RecoverFinish(o) ==
  /\ At(Rec, "r_finish")
  /\ \E x, ok \in BOOLEAN :
       /\ Call(x, ok)
       /\ Discard(o, x, ok)
       /\ CASE ~ok -> GiveUp
            [] ok /\ Debris(o) = "upload" -> Done
            [] OTHER -> UNCHANGED <<run, gate, job, phase>>
  /\ UNCHANGED <<file, session, parts, move, verified, plan, known, ghosts, crashes, foreign>>

(* The intent gives up its object only after the transaction has settled.  *)
RecoverIntent(o) ==
  /\ At(Rec, "r_intent")
  /\ \E x, ok \in BOOLEAN :
       /\ Call(x, ok)
       /\ IF upload[o] # None
          THEN GiveUp /\ UNCHANGED <<staged, intent, pending>>
          ELSE /\ staged' = [staged EXCEPT ![o] = IF x THEN None ELSE @]
               /\ intent' = IF x /\ staged[o] = None THEN intent \ {o} ELSE intent
               /\ IF staged[o] = None THEN Settle("intent", o, ok) ELSE UNCHANGED pending
               /\ CASE ~ok -> GiveUp
                    [] ok /\ staged[o] = None -> Done
                    [] OTHER -> UNCHANGED <<run, gate, job, phase>>
  /\ UNCHANGED <<file, backup, session, parts, upload, move, verified, plan, known, ghosts,
                 crashes, foreign>>

-------------------------------------------------------------------------------
(* The worker of an active storage and the activation of a closed one.     *)

Live(o) == run[o] \notin {"idle", "done"}

WorkerWakes ==
  /\ phase = "up" /\ At(Rec, "idle") /\ pending # {}
  /\ Goto(Rec, "wait")
  /\ UNCHANGED <<store, records, pending, verified, plan, known, gate, job, phase, ghosts, limits>>

(* recovery_gate.write and mutation_gate are free of uploads and mutations. *)
WorkerEnters ==
  /\ phase = "up" /\ At(Rec, "wait") /\ gate = None
  /\ \A o \in Ops : Live(o) => plan[o].mode \notin Uploads
  /\ IF pending = {} THEN Goto(Rec, "idle") /\ UNCHANGED <<gate, job, pending, faults>>
     ELSE \E j \in First(pending) :
          \/ Read(FALSE) /\ UNCHANGED <<run, gate, job, pending>>
          \/ /\ j \in Journals
             /\ job' = j /\ gate' = Rec /\ Goto(Rec, Entry(j))
             /\ UNCHANGED <<pending, faults>>
          \/ /\ j \notin Journals
             /\ pending' = pending \ {j}
             /\ UNCHANGED <<run, gate, job, faults>>
  /\ UNCHANGED <<store, records, verified, plan, known, phase, ghosts, crashes, foreign>>

(* Every activation first proves what the store can do (activation_probe): *)
(* left-overs of an earlier probe, an intent, an object, a copy of it, and *)
(* the removal of all three.  Whatever fails keeps the storage closed.     *)
Activate ==
  /\ phase = "down"
  /\ phase' = "starting" /\ pending' = {}
  /\ Goto(Rec, "p_before")
  /\ UNCHANGED <<store, records, probe, verified, plan, known, gate, job, ghosts, limits>>

Close == Goto(Rec, "idle") /\ phase' = "down"

ProbeStore(at, what, next, otherwise) ==
  /\ At(Rec, at)
  /\ \E x, ok \in BOOLEAN :
       /\ Call(x, ok)
       /\ probe' = IF x THEN probe \cup {what} ELSE probe
       /\ IF ok THEN Goto(Rec, next) /\ UNCHANGED phase
          ELSE IF otherwise = "down" THEN Close
          ELSE Goto(Rec, otherwise) /\ UNCHANGED phase
  /\ UNCHANGED <<store, records, pending, verified, plan, known, gate, job, ghosts,
                 crashes, foreign>>

ProbeIntent == ProbeStore("p_intent", "intent", "p_put", "down")
ProbePut == ProbeStore("p_put", "source", "p_copy", "p_failed")
ProbeCopy == ProbeStore("p_copy", "copy", "p_passed", "p_failed")

(* settle_activation_probe_intent: the copy, its source, then the intent.  *)
ProbeDebris == IF "copy" \in probe THEN "copy" ELSE IF "source" \in probe THEN "source" ELSE "intent"
ProbeSettle ==
  /\ run[Rec] \in {"p_before", "p_passed", "p_failed"}
  /\ IF probe = {}
     THEN /\ CASE At(Rec, "p_before") -> Goto(Rec, "p_intent") /\ UNCHANGED phase
               [] At(Rec, "p_passed") -> Goto(Rec, "idle") /\ UNCHANGED phase
               [] At(Rec, "p_failed") -> Close
          /\ UNCHANGED <<probe, faults>>
     ELSE \E x, ok \in BOOLEAN :
            /\ Call(x, ok)
            /\ probe' = IF x THEN probe \ {ProbeDebris} ELSE probe
            /\ IF ok THEN UNCHANGED <<run, phase>> ELSE Close
  /\ UNCHANGED <<store, records, pending, verified, plan, known, gate, job, ghosts,
                 crashes, foreign>>

ActivationStep ==
  /\ phase = "starting" /\ At(Rec, "idle")
  /\ IF Journals = {} THEN phase' = "up" /\ UNCHANGED <<run, job>>
     ELSE /\ \E j \in First(Journals) : job' = j /\ Goto(Rec, Entry(j))
          /\ UNCHANGED phase
  /\ UNCHANGED <<store, records, pending, verified, plan, known, gate, ghosts, limits>>

Crash ==
  /\ phase # "down" /\ crashes < MaxCrashes
  /\ crashes' = crashes + 1
  /\ phase' = "down" /\ gate' = None /\ job' = None
  /\ pending' = {} /\ verified' = FALSE
  /\ run' = [a \in Ops \cup {Rec} |-> IF run[a] = "idle" \/ a = Rec THEN "idle" ELSE "done"]
  /\ UNCHANGED <<store, records, plan, known, ghosts, faults, foreign>>

(* Another client of the bucket writes to the target of a conditional      *)
(* upload; elsewhere the backend assumes to be the only writer.            *)
ForeignWrite(f) ==
  /\ foreign < MaxForeign
  /\ gate \in Ops /\ Guarded(gate) /\ plan[gate].to = f
  /\ foreign' = foreign + 1
  /\ file' = [file EXCEPT ![f] = Object(Guest, None)]
  /\ Touch(None, f)
  /\ UNCHANGED <<staged, backup, session, records, pending, verified, local, job, phase,
                 answer, effect, refused, faults, crashes>>

Operation(o) ==
  \/ WriteIntent(o) \/ StageSingle(o) \/ OpenSession(o) \/ CreateSession(o)
  \/ ReleaseUnstarted(o) \/ BindSession(o) \/ UnbindSession(o) \/ CompleteParts(o)
  \/ PartsMissing(o)
  \/ ReleaseSession(o) \/ AbortSession(o) \/ Inspect(o) \/ Abandon(o)
  \/ Check(o) \/ WriteTransaction(o) \/ ReleaseIntent(o) \/ BackUp(o) \/ MarkBackup(o)
  \/ Verify(o) \/ MarkStarted(o) \/ Publish(o) \/ MarkRejected(o) \/ Confirm(o)
  \/ Restore(o) \/ Remark(o) \/ Clean(o)
  \/ CopyFile(o) \/ ConfirmCopy(o) \/ DeleteFile(o) \/ ConfirmDelete(o)
  \/ BeginMove(o) \/ MoveCopy(o, o) \/ MoveLost(o, o) \/ MoveMark(o, o) \/ MoveDrop(o, o)
  \/ MoveEnd(o, o)

Recovery ==
  \/ WorkerWakes \/ WorkerEnters \/ ActivationStep
  \/ /\ job # None
     /\ \/ RecoverParts(job[2]) \/ RecoverUpload(job[2]) \/ RecoverFinish(job[2])
        \/ RecoverIntent(job[2])
        \/ MoveCopy(Rec, job[2]) \/ MoveLost(Rec, job[2]) \/ MoveMark(Rec, job[2])
        \/ MoveDrop(Rec, job[2]) \/ MoveEnd(Rec, job[2])

Activation == Activate \/ ProbeIntent \/ ProbePut \/ ProbeCopy \/ ProbeSettle

Next == \/ /\ UNCHANGED probe
           /\ \/ \E o \in Ops : Start(o) \/ Lock(o) \/ Interrupt(o) \/ Operation(o)
              \/ Recovery \/ Crash
              \/ \E f \in Files : ForeignWrite(f)
        \/ Activation

Spec == Init /\ [][Next]_vars

-------------------------------------------------------------------------------
(* Where an executor may be.                                               *)

Staging == {"intent", "stage", "open", "create", "unstarted", "bind", "unbind", "transfer",
            "release", "abort", "inspect", "abandon"}
Committing == {"check", "journal", "handoff", "backup", "mark", "verify", "started", "publish",
               "rejected", "confirm", "restore", "remark", "clean_committed", "clean_failed"}
Copying == {"copy", "copied", "unsure"}
Deleting == {"delete", "deleted"}
Moving == {"mv_copy", "mv_lost", "mv_mark", "mv_drop", "mv_end"}
Recovering == {"r_parts", "r_upload", "r_finish", "r_intent"}
Probing == {"p_before", "p_intent", "p_put", "p_copy", "p_passed", "p_failed"}

OpLocations == {"idle", "done", "lock", "move"} \cup Staging \cup Committing
                 \cup Copying \cup Deleting \cup Moving
RecLocations == {"idle", "wait"} \cup Moving \cup Recovering \cup Probing

-------------------------------------------------------------------------------
(* Properties.                                                             *)

(* Type correctness: of what is stored, of the journals, of the process,   *)
(* and of the history and the bounds.                                      *)
StoreTyped ==
  /\ file \in [Files -> Objects \cup {None}]
  /\ staged \in [Ops -> Objects \cup {None}]
  /\ backup \in [Ops -> Objects \cup {None}]
  /\ session \subseteq Ops
RecordsTyped ==
  /\ intent \subseteq Ops
  /\ parts \in [Ops -> {"none", "unnamed", "named"}]
  /\ upload \in [Ops -> Transactions \cup {None}]
  /\ move \in [Ops -> Moves \cup {None}]
  /\ probe \subseteq {"intent", "source", "copy"}
LocationsTyped ==
  /\ run \in [Ops \cup {Rec} -> OpLocations \cup RecLocations]
  /\ \A o \in Ops : run[o] \in OpLocations
  /\ run[Rec] \in RecLocations
ProcessTyped ==
  /\ pending \subseteq Keys /\ verified \in BOOLEAN
  /\ plan \in [Ops -> Requests \cup {None}]
  /\ known \in [Ops -> ETags \cup {None}]
  /\ job \in Keys \cup {None} /\ gate \in Ops \cup {Rec, None}
  /\ phase \in {"up", "starting", "down"}
HistoryTyped ==
  /\ answer \in [Ops -> {"none", "committed", "failed", "unknown"}]
  /\ effect \in [Ops -> {"no", "half", "yes"}]
  /\ stale \subseteq Ops /\ refused \in Keys \cup {None}
  /\ faults \in 0 .. MaxFaults /\ crashes \in 0 .. MaxCrashes /\ foreign \in 0 .. MaxForeign
TypeOK == StoreTyped /\ RecordsTyped /\ LocationsTyped /\ ProcessTyped /\ HistoryTyped

Contract == INSTANCE S3Contract WITH
              Strangers <- {Old, Guest},
              content <- [f \in Files |-> IF file[f] = None THEN None ELSE file[f].by]

(* The backend implements its contract: whatever requests fail, lose their *)
(* answer or are cut off by a crash, files change only as asked, at most   *)
(* once per operation, and an answer of upload_file_scoped, move_file,     *)
(* copy_file or delete_file is true for the rest of the execution.         *)
KeepsContract == Contract!Spec

(* A journal in the bucket names every staged object, backup and probe.    *)
EveryObjectHasAJournal ==
  /\ \A o \in Ops :
       /\ staged[o] # None => o \in intent \/ parts[o] = "named" \/ upload[o] # None
       /\ backup[o] # None => upload[o] # None
  /\ probe # {} => "intent" \in probe

(* The worker of a running process knows every journal in the bucket.      *)
WorkerKnowsEveryJournal == phase = "up" => Journals \subseteq pending

(* No private object is lost from sight: at every moment the bucket holds  *)
(* a journal from which recovery reaches it (upload.rs hands the object    *)
(* over from intent to transaction), and the worker knows of that journal  *)
(* (journal_write_started comes before the PUT, journal_settled after the  *)
(* confirmed absence).                                                     *)
NothingIsOrphaned == EveryObjectHasAJournal /\ WorkerKnowsEveryJournal

(* Recovery refuses a journal only for one of three causes: somebody else  *)
(* changed a file it names, a conditional publication has no proof, or a   *)
(* server-side copy gave the file an ETag that no journal recorded.        *)
RefusalsHaveACause ==
  refused # None =>
    LET o == refused[2] IN
    \/ o \in stale
    \/ Guarded(o)
    \/ file[plan[o].to] # None /\ file[plan[o].to].gen # 0

(* docs/backend-design.md:192: "Journal failure or slow cleanup does not   *)
(* reverse a verified committed result".  Recovery of an operation that    *)
(* was answered "committed" has private objects and records to clean up,   *)
(* and changes no file any more.                                           *)
RecoveryUndoesNoResult ==
  [][file' # file /\ job # None => answer[job[2]] # "committed"]_vars
===============================================================================
