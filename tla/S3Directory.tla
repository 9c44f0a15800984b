----------------------------- MODULE S3Directory ------------------------------
(***************************************************************************)
(* Copies, moves and deletions of whole directories on object storage      *)
(* (s3_backend/directory_transaction.rs).  A store has no rename of a      *)
(* prefix: every object is copied, and deleted at its source, one request  *)
(* at a time, under one journal that lists them all.  A directory that is  *)
(* to be replaced is first moved to the trash by a nested transaction.     *)
(*                                                                         *)
(* The executor keeps the transaction in memory and writes it back only at *)
(* checkpoints and between stages; recovery resumes from what was written. *)
(* One executor runs at a time (mutation_gate).  Faults as in              *)
(* S3Transactions; single-file operations of others appear as OtherWrite.  *)
(* Sizes, authentication tags and multipart copies are left out.           *)
(***************************************************************************)
EXTENDS Naturals, Sequences, FiniteSets, SequencesExt

CONSTANTS Ops,        \* operations; <<o, i>> is the trash key of item i
          Dirs,       \* directories
          Items,      \* names below a directory, 1 is its marker
          Present,    \* the keys <<directory, item>> stored before
          Kinds,      \* of "copy", "collection", "move", "delete", "mkdir"
          Every,      \* CHECKPOINT_OBJECTS
          Keeps,      \* SUBSET BOOLEAN: may a copy keep, may it change the ETag
          Old, Other, \* bodies stored before, and by single-file operations
          Rec,        \* the recovery worker, or activation
          None,
          MaxFaults, MaxCrashes, MaxOther

ASSUME ShapeAssumption == /\ Items \subseteq Nat /\ 1 \in Items /\ Ops \subseteq Nat
                          /\ Every \in Nat \ {0} /\ Rec \notin Ops /\ Dirs \cap Ops = {}

Keys == (Dirs \cup Ops) \X Items

VARIABLES
  obj,      \* [Keys -> object or None]: formal objects and trash
  journal,  \* [Ops -> transaction record or None]: directory-transactions/<id>
  exec,     \* None, or who executes which operation, and where it is
  mem,      \* the executor's transaction
  phase,    \* "up" | "starting" | "down"
  plan,     \* [Ops -> None or the request and the bodies it found]
  answer,   \* [Ops -> "none" | "committed" | "failed" | "unknown"]
  stale, lost, refused,    \* history: see Properties
  faults, crashes, others

limits == <<faults, crashes, others>>
vars == <<obj, journal, exec, mem, phase, plan, answer, stale, lost, refused, limits>>

Object(w, m) == [by |-> w, gen |-> 0, mark |-> m]
ETag(x) == <<x.by, x.gen>>
Copied(x, keep) == IF keep THEN x ELSE [x EXCEPT !.gen = @ + 1]
Matches(x, etag) == x # None /\ ETag(x) = etag
Call(executed, ok) == \/ executed /\ ok /\ UNCHANGED faults
                      \/ ~ok /\ faults < MaxFaults /\ faults' = faults + 1
Read(ok) == Call(TRUE, ok)

Exists(d) == \E i \in Items : obj[<<d, i>>] # None

-------------------------------------------------------------------------------
(* Records.  Stages "copying", "deleting", "done"; a copy knows no second. *)

Single(kind) == kind \in {"copy", "collection"}

(* snapshot_objects: what a listing of the directory shows, in key order.  *)
Snapshot(d) == SetToSortSeq({i \in Items : obj[<<d, i>>] # None}, <)
Transaction(kind, from, to, items) ==
  [kind |-> kind, from |-> from, to |-> to, items |-> items, stage |-> "copying",
   src  |-> [i \in Range(items) |-> IF kind = "collection" THEN None ELSE ETag(obj[<<from, i>>])],
   tags |-> [i \in Range(items) |-> None], gone |-> {}]

(* Mutant of ValidProgress: a deletion may only be recorded as finished    *)
(* with its sources listed, whatever the operation.                        *)
ValidProgressAllGone(t) ==
  LET all == Range(t.items)
      named == \A i \in all : t.tags[i] # None
  IN CASE t.stage = "copying"  -> t.gone = {}
       [] t.stage = "deleting" -> ~Single(t.kind) /\ named
       [] t.stage = "done"     -> named /\ t.gone = all

(* validate_transaction_progress, and what ties a replacement to its       *)
(* transaction: nothing is put into place before the old target is gone.   *)
ValidProgress(t) ==
  LET all == Range(t.items)
      named == \A i \in all : t.tags[i] # None
  IN CASE t.stage = "copying"  -> t.gone = {}
       [] t.stage = "deleting" -> ~Single(t.kind) /\ named
       [] t.stage = "done"     -> named /\ t.gone = (IF Single(t.kind) THEN {} ELSE all)
Valid(r) == /\ ValidProgress(r.main)
            /\ r.rep # None => /\ ValidProgress(r.rep)
                               /\ r.rep.stage # "done" =>
                                    /\ r.main.stage = "copying"
                                    /\ \A i \in Range(r.main.items) : r.main.tags[i] = None

(* should_checkpoint_progress, with n objects behind.                      *)
Checkpoint(n, total) == n < total /\ n % Every = 0

Init == /\ obj = [k \in Keys |-> IF k \in Present THEN Object(Old, None) ELSE None]
        /\ journal = [o \in Ops |-> None]
        /\ exec = None /\ mem = None /\ phase = "up"
        /\ plan = [o \in Ops |-> None] /\ answer = [o \in Ops |-> "none"]
        /\ stale = {} /\ lost = {} /\ refused = None
        /\ faults = 0 /\ crashes = 0 /\ others = 0

-------------------------------------------------------------------------------
(* Where the executor is: copying or dropping object n of one of the two   *)
(* transactions, writing the record on its way elsewhere, or cleaning up.  *)

To(at, part, n) == [at |-> at, part |-> part, n |-> n]
At(at) == exec # None /\ exec.where.at = at
Go(where) == exec' = [exec EXCEPT !.where = where]

(* execute_directory_transaction from the state of a record.               *)
Resume(r) == IF r.rep # None /\ r.rep.stage # "done"
             THEN To(IF r.rep.stage = "copying" THEN "copy" ELSE "drop", "rep", 1)
             ELSE To(IF r.main.stage = "done" THEN "clean" ELSE "copy", "main", 1)

(* The executor ends: its caller gets an answer, a recovery pass is over.  *)
End(r) == /\ exec' = None /\ mem' = None
          /\ IF exec.who = Rec
             THEN /\ phase' = IF phase = "up" \/ r = "committed" THEN phase ELSE "down"
                  /\ UNCHANGED answer
             ELSE answer' = [answer EXCEPT ![exec.op] = r] /\ UNCHANGED phase
(* Mutant of Stop: a failed substep counts as success in the foreground.   *)
StopCommitted == End("committed") /\ UNCHANGED refused
(* uncertain_transaction: a failed substep leaves the outcome open.        *)
Stop == End("unknown") /\ UNCHANGED refused
Refuse == /\ End("unknown")
          /\ refused' = IF exec.who = Rec THEN exec.op ELSE refused
Goes == UNCHANGED <<mem, phase, answer, refused>>

-------------------------------------------------------------------------------
(* mutate_path_scoped up to its journal, under the gate.                   *)
Begin(o) ==
  /\ phase = "up" /\ exec = None /\ plan[o] = None
  /\ \E kind \in Kinds \ {"mkdir"}, from, to \in Dirs, overwrite, ok \in BOOLEAN :
       /\ kind = "delete" <=> from = to
       /\ kind = "delete" => ~overwrite
       /\ Read(ok)
       /\ plan' = [plan EXCEPT ![o] =
            [kind |-> kind, from |-> from, to |-> to,
             body |-> [k \in Dirs \X Items |-> IF obj[k] = None THEN None ELSE obj[k].by]]]
       /\ IF ~ok \/ ~Exists(from) \/ (kind # "delete" /\ Exists(to) /\ ~overwrite)
          THEN /\ answer' = [answer EXCEPT ![o] = "failed"]
               /\ UNCHANGED <<exec, mem>>
          ELSE /\ mem' = [main |-> Transaction(kind, from, IF kind = "delete" THEN o ELSE to,
                                     IF kind = "collection" THEN <<1>> ELSE Snapshot(from)),
                          rep  |-> IF kind # "delete" /\ Exists(to)
                                   THEN Transaction("delete", to, o, Snapshot(to)) ELSE None]
               /\ exec' = [who |-> o, op |-> o, where |-> [at |-> "save", then |-> Resume(mem')]]
               /\ UNCHANGED answer
  /\ UNCHANGED <<obj, journal, phase, stale, lost, refused, crashes, others>>

(* write_directory_transaction.  The foreground has succeeded before the   *)
(* last record is written; recovery has not.                               *)
Write ==
  /\ At("save")
  /\ \E x, ok \in BOOLEAN :
       /\ Call(x, ok)
       /\ ok => Valid(mem)
       /\ journal' = [journal EXCEPT ![exec.op] = IF x /\ Valid(mem) THEN mem ELSE @]
       /\ IF ok THEN Go(exec.where.then) /\ Goes /\ UNCHANGED lost
          ELSE IF exec.where.then.at = "clean"
               THEN /\ IF exec.who = Rec THEN Stop ELSE End("committed") /\ UNCHANGED refused
                    /\ lost' = lost \cup {exec.op}
               ELSE Stop /\ UNCHANGED lost
  /\ UNCHANGED <<obj, plan, stale, crashes, others>>

Saving(where) == [at |-> "save", then |-> where]
(* Mutant of Following: no final record before the clean-up.               *)
FollowingUnsaved(part, at, r) ==
  LET staged(stage, where) == [r |-> [r EXCEPT ![part].stage = stage], where |-> Saving(where)]
  IN CASE at = "copy" /\ Single(r[part].kind) -> [r |-> r, where |-> To("clean", "main", 1)]
       [] at = "copy" /\ ~Single(r[part].kind) /\ r[part].stage = "deleting"
            -> [r |-> r, where |-> To("drop", part, 1)]
       [] at = "copy" /\ ~Single(r[part].kind) /\ r[part].stage = "copying"
            -> staged("deleting", To("drop", part, 1))
       [] at = "drop" /\ part = "rep" -> staged("done", To("copy", "main", 1))
       [] at = "drop" /\ part = "main" -> [r |-> r, where |-> To("clean", "main", 1)]
(* Mutant of Following: the trash goes as soon as the old target is gone.  *)
FollowingEarly(part, at, r) ==
  LET staged(stage, where) == [r |-> [r EXCEPT ![part].stage = stage], where |-> Saving(where)]
  IN CASE at = "copy" /\ Single(r[part].kind) -> staged("done", To("clean", "main", 1))
       [] at = "copy" /\ ~Single(r[part].kind) /\ r[part].stage = "deleting"
            -> [r |-> r, where |-> To("drop", part, 1)]
       [] at = "copy" /\ ~Single(r[part].kind) /\ r[part].stage = "copying"
            -> staged("deleting", To("drop", part, 1))
       [] at = "drop" /\ part = "rep" -> staged("done", To("clean", "main", 1))
       [] at = "drop" /\ part = "main" -> staged("done", To("clean", "main", 1))
(* After the last object of a loop: the next stage, written before it      *)
(* begins, unless the record was already there.                            *)
Following(part, at, r) ==
  LET staged(stage, where) == [r |-> [r EXCEPT ![part].stage = stage], where |-> Saving(where)]
  IN CASE at = "copy" /\ Single(r[part].kind) -> staged("done", To("clean", "main", 1))
       [] at = "copy" /\ ~Single(r[part].kind) /\ r[part].stage = "deleting"
            -> [r |-> r, where |-> To("drop", part, 1)]
       [] at = "copy" /\ ~Single(r[part].kind) /\ r[part].stage = "copying"
            -> staged("deleting", To("drop", part, 1))
       [] at = "drop" /\ part = "rep" -> staged("done", To("copy", "main", 1))
       [] at = "drop" /\ part = "main" -> staged("done", To("clean", "main", 1))

(* One object is settled: the loops of copy_missing_targets,               *)
(* delete_sources and replace_destination.                                 *)
Advance(t) ==
  LET w == exec.where
      total == Len(t.items)
      r == [mem EXCEPT ![w.part] = t]
      next == To(w.at, w.part, w.n + 1)
      f == IF w.n = total THEN Following(w.part, w.at, r)
           ELSE [r |-> r, where |-> IF Checkpoint(w.n, total) THEN Saving(next) ELSE next]
  IN mem' = f.r /\ Go(f.where) /\ UNCHANGED <<phase, answer, refused>>

Doing == mem[exec.where.part]
Item == Doing.items[exec.where.n]
Source == <<Doing.from, Item>>
Target == <<Doing.to, Item>>

Touch(k) == stale' = stale \cup {q \in Ops : /\ journal[q] # None
                                             /\ exec = None \/ exec.op # q
                                             /\ k[1] \in {plan[q].from, plan[q].to}}
Put(k, x) == obj' = [obj EXCEPT ![k] = x] /\ Touch(k)

(* verify_recorded_target *)
Verified == Matches(obj[Target], Doing.tags[Item])

(* copy_one_target: a recorded copy is verified; one that is there without *)
(* a record is adopted only with the ETag of its source.                   *)
CopyOne ==
  /\ At("copy") /\ Doing.kind # "collection"
  /\ LET named(etag) == [Doing EXCEPT !.tags[Item] = etag] IN
     \/ Read(FALSE) /\ Stop /\ UNCHANGED <<obj, stale>>
     \/ /\ Doing.tags[Item] # None
        /\ IF Verified THEN Advance(Doing) ELSE Refuse
        /\ UNCHANGED <<obj, stale, faults>>
     \/ /\ Doing.tags[Item] = None
        /\ \/ ~Matches(obj[Source], Doing.src[Item])
           \/ obj[Target] # None /\ ~Matches(obj[Target], Doing.src[Item])
        /\ Refuse
        /\ UNCHANGED <<obj, stale, faults>>
     \/ /\ Doing.tags[Item] = None
        /\ Matches(obj[Source], Doing.src[Item]) /\ Matches(obj[Target], Doing.src[Item])
        /\ Advance(named(ETag(obj[Target])))
        /\ UNCHANGED <<obj, stale, faults>>
     \/ /\ Doing.tags[Item] = None
        /\ Matches(obj[Source], Doing.src[Item]) /\ obj[Target] = None
        /\ \E x, ok \in BOOLEAN, keep \in Keeps :
             /\ Call(x, ok)
             /\ IF x THEN Put(Target, Copied(obj[Source], keep)) ELSE UNCHANGED <<obj, stale>>
             /\ \/ (ok \/ (x /\ keep)) /\ Advance(named(ETag(Copied(obj[Source], keep))))
                \/ ~ok /\ Stop
  /\ UNCHANGED <<journal, plan, lost, crashes, others>>

(* create_collection_target: an empty marker that carries the operation.   *)
CreateMarker ==
  /\ At("copy") /\ Doing.kind = "collection"
  /\ LET named(x) == [Doing EXCEPT !.tags[Item] = ETag(x)] IN
     \/ Read(FALSE) /\ Stop /\ UNCHANGED <<obj, stale>>
     \/ /\ Doing.tags[Item] # None
        /\ IF Verified THEN Advance(Doing) ELSE Refuse
        /\ UNCHANGED <<obj, stale, faults>>
     \/ /\ Doing.tags[Item] = None /\ obj[Target] # None
        /\ IF obj[Target].mark = exec.op THEN Advance(named(obj[Target])) ELSE Refuse
        /\ UNCHANGED <<obj, stale, faults>>
     \/ /\ Doing.tags[Item] = None /\ obj[Target] = None
        /\ \E x, ok \in BOOLEAN :
             /\ Call(x, ok)
             /\ IF x THEN Put(Target, Object(exec.op, exec.op)) ELSE UNCHANGED <<obj, stale>>
             /\ IF ok THEN Advance(named(Object(exec.op, exec.op))) ELSE Stop
  /\ UNCHANGED <<journal, plan, lost, crashes, others>>

(* delete_one_source; replace_destination verifies the trash copy before.  *)
DropOne ==
  /\ At("drop")
  /\ LET gone == [Doing EXCEPT !.gone = @ \cup {Item}] IN
     \/ Read(FALSE) /\ Stop /\ UNCHANGED <<obj, stale>>
     \/ /\ \/ exec.where.part = "rep" /\ ~Verified
           \/ /\ Item \notin Doing.gone /\ obj[Source] # None
              /\ ~Matches(obj[Source], Doing.src[Item])
        /\ Refuse
        /\ UNCHANGED <<obj, stale, faults>>
     \/ /\ exec.where.part = "rep" => Verified
        /\ Item \in Doing.gone \/ obj[Source] = None
        /\ Advance(gone)
        /\ UNCHANGED <<obj, stale, faults>>
     \/ /\ exec.where.part = "rep" => Verified
        /\ Item \notin Doing.gone /\ Matches(obj[Source], Doing.src[Item])
        /\ \E x, ok \in BOOLEAN :
             /\ Call(x, ok)
             /\ IF x THEN Put(Source, None) ELSE UNCHANGED <<obj, stale>>
             /\ IF ok THEN Advance(gone) ELSE Stop
  /\ UNCHANGED <<journal, plan, lost, crashes, others>>

(* cleanup_delete_trash, then the journal.  The foreground has succeeded   *)
(* whatever happens here (CompletionMode) and waits 500 ms at most.        *)
Trash == {i \in Items : obj[<<exec.op, i>>] # None}
TrashTags == IF mem.rep # None THEN mem.rep.tags ELSE mem.main.tags
Clean ==
  /\ At("clean")
  /\ \/ exec.who # Rec /\ End("committed") /\ UNCHANGED <<obj, journal, refused, faults>>
     \/ /\ Trash # {}
        /\ LET i == CHOOSE j \in Trash : \A k \in Trash : j <= k IN
           IF ~Matches(obj[<<exec.op, i>>], TrashTags[i])
           THEN /\ IF exec.who = Rec THEN Refuse ELSE End("committed") /\ UNCHANGED refused
                /\ UNCHANGED <<obj, journal, faults>>
           ELSE \E x, ok \in BOOLEAN :
                  /\ Call(x, ok)
                  /\ obj' = [obj EXCEPT ![<<exec.op, i>>] = IF x THEN None ELSE @]
                  /\ IF ok THEN UNCHANGED exec /\ Goes
                     ELSE (IF exec.who = Rec THEN Stop ELSE End("committed") /\ UNCHANGED refused)
                  /\ UNCHANGED journal
     \/ /\ Trash = {}
        /\ \E x, ok \in BOOLEAN :
             /\ Call(x, ok)
             /\ journal' = [journal EXCEPT ![exec.op] = IF x THEN None ELSE @]
             /\ (IF ok \/ exec.who # Rec THEN End("committed") ELSE End("unknown"))
             /\ UNCHANGED <<obj, refused>>
  /\ UNCHANGED <<plan, stale, lost, crashes, others>>

(* create_directory: a marker, put once and only if nothing is there.      *)
MakeDirectory(o) ==
  /\ phase = "up" /\ exec = None /\ plan[o] = None /\ "mkdir" \in Kinds
  /\ \E d \in Dirs, x, ok, rejected \in BOOLEAN :
       /\ Call(x, ok)
       /\ plan' = [plan EXCEPT ![o] =
            [kind |-> "mkdir", from |-> d, to |-> d,
             body |-> [k \in Dirs \X Items |-> IF obj[k] = None THEN None ELSE obj[k].by]]]
       /\ IF Exists(d) THEN /\ answer' = [answer EXCEPT ![o] = "failed"]
                            /\ UNCHANGED <<obj, stale>>
          ELSE /\ IF x THEN Put(<<d, 1>>, Object(o, None)) ELSE UNCHANGED <<obj, stale>>
               /\ answer' = [answer EXCEPT ![o] = IF ok THEN "committed"
                                                  ELSE IF ~x /\ rejected THEN "failed"
                                                  ELSE "unknown"]
  /\ UNCHANGED <<journal, exec, mem, phase, lost, refused, crashes, others>>

-------------------------------------------------------------------------------
(* Recovery, in the order of the journals' keys; see S3Transactions for    *)
(* how the worker of an active storage learns of them.                     *)

Journals == {o \in Ops : journal[o] # None}
Oldest == CHOOSE o \in Journals : \A q \in Journals : o <= q

Recover ==
  /\ phase \in {"up", "starting"} /\ exec = None /\ Journals # {}
  /\ exec' = [who |-> Rec, op |-> Oldest, where |-> Resume(journal[Oldest])]
  /\ mem' = journal[Oldest]
  /\ UNCHANGED <<obj, journal, phase, plan, answer, stale, lost, refused, limits>>

Open ==
  /\ phase = "starting" /\ exec = None /\ Journals = {}
  /\ phase' = "up"
  /\ UNCHANGED <<obj, journal, exec, mem, plan, answer, stale, lost, refused, limits>>

Activate ==
  /\ phase = "down"
  /\ phase' = "starting"
  /\ UNCHANGED <<obj, journal, exec, mem, plan, answer, stale, lost, refused, limits>>

Crash ==
  /\ phase # "down" /\ crashes < MaxCrashes
  /\ crashes' = crashes + 1
  /\ phase' = "down" /\ exec' = None /\ mem' = None
  /\ UNCHANGED <<obj, journal, plan, answer, stale, lost, refused, faults, others>>

(* A single-file operation between two directory operations: it stores a   *)
(* new body, stores the first one again, or deletes.                       *)
OtherWrite(k) ==
  /\ phase = "up" /\ exec = None /\ others < MaxOther
  /\ others' = others + 1
  /\ \E x \in {None, Object(Other, None), Object(Old, None)} : x # obj[k] /\ Put(k, x)
  /\ UNCHANGED <<journal, exec, mem, phase, plan, answer, lost, refused, faults, crashes>>

Step == Write \/ CopyOne \/ CreateMarker \/ DropOne \/ Clean
Next == \/ \E o \in Ops : Begin(o) \/ MakeDirectory(o)
        \/ Step \/ Recover \/ Open \/ Activate \/ Crash
        \/ \E k \in Dirs \X Items : OtherWrite(k)

(* The executor's task is polled until it ends, the worker retries while   *)
(* anything is pending, and a closed storage is tried again.               *)
Spec == Init /\ [][Next]_vars /\ WF_vars(Step) /\ WF_vars(Recover)
             /\ WF_vars(Open) /\ WF_vars(Activate)

-------------------------------------------------------------------------------
(* Properties.                                                             *)

Holds(k, etag) == obj[k] # None /\ obj[k].by = etag[1]

(* No crash, lost answer or restart loses a body: while the journal of a   *)
(* directory operation is not finished and nobody else touched its paths,  *)
(* every object it moves, deletes or replaces is where it was, where it    *)
(* goes, or in the trash (delete_sources comes after every target_etag).   *)
NothingIsLost ==
  \A o \in Journals \ stale :
    journal[o].main.stage # "done" =>
      /\ \A i \in Range(journal[o].main.items) :
           journal[o].main.kind # "collection" =>
             \/ Holds(<<journal[o].main.from, i>>, journal[o].main.src[i])
             \/ Holds(<<journal[o].main.to, i>>, journal[o].main.src[i])
      /\ journal[o].rep # None =>
           \A i \in Range(journal[o].rep.items) :
             \/ Holds(<<journal[o].rep.from, i>>, journal[o].rep.src[i])
             \/ Holds(<<o, i>>, journal[o].rep.src[i])

(* When mutate_path_scoped says committed, the target holds exactly the    *)
(* tree that the source held when the operation began, and the source of a *)
(* move or a deletion is empty; when it says failed, no object changed.    *)
BodyThen(k) == IF obj'[k] = None THEN None ELSE obj'[k].by
AnswersAreTrue ==
  [][\A o \in Ops : answer'[o] # answer[o] =>
       LET p == plan'[o] IN
       /\ answer'[o] = "failed" => \A k \in Dirs \X Items : BodyThen(k) = p.body[k]
       /\ answer'[o] = "committed" =>
            \A i \in Items :
              /\ p.kind \in {"copy", "move"} => BodyThen(<<p.to, i>>) = p.body[<<p.from, i>>]
              /\ p.kind \in {"move", "delete"} => BodyThen(<<p.from, i>>) = None
              /\ p.kind \in {"collection", "mkdir"} => (BodyThen(<<p.to, i>>) # None <=> i = 1)]_vars

(* Recovery of an operation that was answered committed changes no file    *)
(* (the final stage is recorded first), except when that record was lost.  *)
RecoveryKeepsResults ==
  [][exec # None /\ exec.who = Rec /\ answer[exec.op] = "committed" /\ exec.op \notin lost
       => \A k \in Dirs \X Items : obj'[k] = obj[k]]_vars

(* Every journal ends: the worker, or the next activation, finishes it,    *)
(* unless recovery met a state it refuses to guess about.                  *)
JournalsEnd == \A o \in Ops : journal[o] # None ~> journal[o] = None \/ refused # None
===============================================================================
