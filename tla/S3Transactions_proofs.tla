------------------------ MODULE S3Transactions_proofs ------------------------
(***************************************************************************)
(* The object-storage backend implements its contract and refuses a        *)
(* journal only for a cause, for any number of operations and files, of    *)
(* failed requests and of crashes.  On top of the books, which are in      *)
(* order (S3Transactions_books), stands what they say of the files: whose  *)
(* body each one holds, which operation has taken effect, and what the     *)
(* files of a journal look like as long as nobody else writes them.        *)
(***************************************************************************)
EXTENDS S3Transactions_books

(***************************************************************************)
(* The truth: the second layer of the inductive invariant.                 *)
(***************************************************************************)

\* Every object carries the mark of the operation whose body it holds, and a body
\* that is visible has been published.
Signed(x) == x.mark = IF x.by \in Ops THEN x.by ELSE None
Published(o) == plan[o] # None /\ plan[o].mode \in Uploads /\ effect[o] = "yes"
FileSigned(f) == file[f] # None => /\ Signed(file[f])
                                   /\ file[f].by \in Ops => Published(file[f].by)
CopySigned(o) == /\ staged[o] # None => staged[o].by = o /\ staged[o].mark = o
                 /\ backup[o] # None => Signed(backup[o])
                 /\ upload[o] # None => upload[o].staged[1] = o
Bylines == (\A f \in Files : FileSigned(f)) /\ (\A o \in Ops : CopySigned(o))

\* What has happened to the files by the time an operation is where it is, and when it
\* has answered.
EffectOf(o) ==
    /\ effect[o] # "no" =>
          run[o] \in {"confirm", "clean_committed", "copied", "unsure", "deleted", "done"}
                        \cup Moving
    /\ effect[o] = "half" => plan[o].mode = "move"
    /\ run[o] \in {"clean_committed", "copied", "mv_end"} => effect[o] = "yes"
    /\ run[o] = "confirm" /\ ~ Guarded(o) /\ effect[o] = "yes" =>
          file[plan[o].to] # None /\ file[plan[o].to].mark = o
    /\ run[o] = "deleted" => (effect[o] = "yes" <=> file[plan[o].from] = None)
    /\ run[o] # "done" => answer[o] = "none"
    /\ answer[o] = "failed" => effect[o] = "no"
    /\ move[o] # None => answer[o] # "failed"
Effects == \A o \in Ops : EffectOf(o)

\* An upload and the object it found: a conditional one the object its caller named, any
\* other one what it still finds, or has backed up.
Plain(o) == plan[o] # None /\ plan[o].mode \in {"put", "create"}
FoundOf(o) ==
    /\ run[o] \in {"backup", "mark", "restore", "remark"} => ~ Guarded(o)
    /\ run[o] \in {"verify", "started", "rejected"} => Guarded(o)
    /\ plan[o] # None /\ plan[o].mode = "cond" =>
          /\ Names(known[o], plan[o].expects)
          /\ upload[o] # None => Names(upload[o].previous, plan[o].expects)
    /\ /\ Plain(o) /\ effect[o] = "no"
       /\ run[o] \in {"journal", "handoff", "backup", "mark", "publish", "confirm", "restore"}
       => /\ TagOf(file[plan[o].to]) = known[o]
          /\ upload[o] # None => upload[o].previous = known[o]
    /\ /\ Plain(o) /\ backup[o] # None
       /\ run[o] \in {"mark", "publish", "confirm", "restore"}
       => /\ known[o] # None /\ backup[o].by = known[o][1]
          /\ ETag(backup[o]) = known[o] \/ backup[o].gen # 0
Found == \A o \in Ops : FoundOf(o)

\* The executor of o's move, in the foreground or in recovery, is at pc.
Runs(o, pc) == run[o] = pc \/ (run[Rec] = pc /\ job[2] = o)
HalfwayOf(o) ==
    move[o] # None =>
        /\ move[o].stage = "prepared" => effect[o] \in {"no", "half"}
        /\ move[o].stage = "copied" => /\ effect[o] \in {"half", "yes"}
                                       /\ move[o].dst # None /\ move[o].dst[1] = move[o].src[1]
        /\ Runs(o, "mv_copy") => move[o].stage = "prepared"
        /\ Runs(o, "mv_drop") => move[o].stage = "copied"
        /\ Runs(o, "mv_mark") => /\ move[o].stage = "prepared" /\ effect[o] = "half"
                                 /\ known[o] # None /\ known[o][1] = move[o].src[1]
        /\ run[o] \in {"mv_copy", "mv_mark", "mv_drop"} =>
              Matches(file[plan[o].from], move[o].src)
Halfway == \A o \in Ops : HalfwayOf(o)

\* What the files of a journal look like as long as nobody else has written them.
Explained(o) == LET x == file[plan[o].to] IN
                \/ TagOf(x) = upload[o].previous
                \/ x # None /\ (x.mark = o \/ x.gen # 0)
MoveExplained(o) ==
    LET src == file[plan[o].from]
        dst == file[plan[o].to]
    IN /\ move[o].stage = "prepared" =>
            /\ Matches(src, move[o].src)
            /\ dst # None => dst.by = move[o].src[1] /\ (ETag(dst) = move[o].src \/ dst.gen # 0)
       /\ move[o].stage = "copied" =>
            Matches(dst, move[o].dst) /\ (src # None => Matches(src, move[o].src))
       /\ Runs(o, "mv_mark") => TagOf(dst) = known[o]
UndisturbedOf(o) ==
    o \notin stale => /\ upload[o] # None /\ Plain(o) => Explained(o)
                      /\ move[o] # None => MoveExplained(o)
Undisturbed == \A o \in Ops : UndisturbedOf(o)

\* A refused journal stays until somebody writes a file it names.
BlockedUpload(o) == /\ upload[o] # None /\ ~ Provable(o)
                    /\ ~ (run[Rec] = "r_finish" /\ job[2] = o)
BlockedMove(o) == /\ move[o] # None /\ move[o].stage = "prepared"
                  /\ ETag(file[plan[o].to]) # move[o].src /\ file[plan[o].to].mark # o
                  /\ ~ (run[Rec] \in {"mv_mark", "mv_drop", "mv_end"} /\ job[2] = o)
Blocked(o) == /\ plan[o] # None
              /\ ~ Guarded(o) /\ o \notin stale =>
                    /\ run[o] = "done" /\ file[plan[o].to] # None /\ file[plan[o].to].gen # 0
                    /\ BlockedUpload(o) \/ BlockedMove(o)
Refusals == /\ refused # None => Blocked(refused[2])
            /\ run[Rec] = "r_finish" => Provable(job[2])

Truth == Bylines /\ Effects /\ Found /\ Halfway /\ Undisturbed /\ Refusals
IInv == Bookkeeping /\ Truth

-----------------------------------------------------------------------------
(***************************************************************************)
(* Truth: what is left to show of a step once the books are known to be in *)
(* order, before and after it.                                             *)
(***************************************************************************)

OwnTruth(o) == CopySigned(o) /\ EffectOf(o) /\ FoundOf(o) /\ HalfwayOf(o) /\ UndisturbedOf(o)
\* Who may write a file, and what; and what a step does not take back.
Filing(o) ==
    \/ Unfiled
    \/ /\ gate \in {o, Rec} \/ phase # "up"
       /\ \E p \in Files, x \in Objects \cup {None} :
            /\ Writes(o, p, x)
            /\ x # None => Signed(x) /\ (x.by \in Ops => Published(x.by)')
Lasting(o) == /\ plan[o] # None => plan'[o] = plan[o]
              /\ Published(o) => effect'[o] = "yes"

\* A file somebody else has written, or a journal that knows of it.
LEMMA Filed ==
  ASSUME IInv, NEW o \in Ops, Filing(o)
  PROVE  /\ stale \subseteq stale'
         /\ \A q \in Ops \ {o} : run[q] \in Gated => file' = file
         /\ \A q \in Ops \ {o} : q \notin stale' =>
              /\ upload[q] # None => file'[plan[q].to] = file[plan[q].to]
              /\ move[q] # None => /\ file'[plan[q].to] = file[plan[q].to]
                                   /\ file'[plan[q].from] = file[plan[q].from]
  <1>1. stale \subseteq stale'
    BY DEF Filing, Unfiled, Writes, Touch
  <1>2. ASSUME NEW q \in Ops \ {o}, run[q] \in Gated
        PROVE  file' = file
    BY <1>2, AtWork, OpsAssumption DEF Filing, Unfiled, IInv, Bookkeeping, Doors,
       Gated, Committing, Copying,
       Deleting, Moving
  <1>3. ASSUME NEW q \in Ops \ {o}, q \notin stale'
        PROVE  /\ upload[q] # None => file'[plan[q].to] = file[plan[q].to]
               /\ move[q] # None => /\ file'[plan[q].to] = file[plan[q].to]
                                    /\ file'[plan[q].from] = file[plan[q].from]
    <2>1. CASE Unfiled
      BY <2>1 DEF Unfiled
    <2>2. ASSUME NEW p \in Files, NEW x, Writes(o, p, x)
          PROVE  /\ upload[q] # None => file'[plan[q].to] = file[plan[q].to]
                 /\ move[q] # None => /\ file'[plan[q].to] = file[plan[q].to]
                                      /\ file'[plan[q].from] = file[plan[q].from]
      <3>1. /\ upload[q] # None => plan[q].to # p
            /\ move[q] # None => plan[q].to # p /\ plan[q].from # p
        BY <1>3, <2>2 DEF Writes, Touch
      <3>2. \A g : g # p => file'[g] = file[g]
        BY <2>2 DEF Writes
      <3> QED
        BY <3>1, <3>2
    <2> QED
      BY <2>1, <2>2 DEF Filing
  <1> QED
    BY <1>1, <1>2, <1>3

\* What is true of the other operations stays true.
LEMMA OthersTrue ==
  ASSUME IInv, NEW o \in Ops, NEW a \in {Rec, o}, Carries(a, o), Filing(o),
         NEW q \in Ops, q # o, \A pc \in Moving : Runs(q, pc)' = Runs(q, pc)
  PROVE  OwnTruth(q)'
  <1>0. TypeOK /\ OwnTruth(q)
    BY DEF IInv, Bookkeeping, Truth, Bylines, Effects, Found, Halfway, Undisturbed,
       OwnTruth
  <1>1. /\ staged'[q] = staged[q] /\ backup'[q] = backup[q]
        /\ upload'[q] = upload[q] /\ move'[q] = move[q] /\ plan'[q] = plan[q]
        /\ known'[q] = known[q] /\ answer'[q] = answer[q] /\ effect'[q] = effect[q]
        /\ run'[q] = run[q]
    BY <1>0, Elsewhere
  <1>2. run[q] \in Gated => file' = file
    BY Filed
  <1>3. (Guarded(q)' = Guarded(q)) /\ (Plain(q)' = Plain(q))
    BY <1>1 DEF Guarded, Plain
  <1>4. CopySigned(q)'
    BY <1>0, <1>1 DEF OwnTruth, CopySigned, Signed
  <1>5. EffectOf(q)'
    BY <1>0, <1>1, <1>2, <1>3 DEF OwnTruth, EffectOf, Gated, Committing, Deleting
  <1>6. FoundOf(q)'
    <2>1. ASSUME run[q] \in {"journal", "handoff", "backup", "mark", "publish", "confirm", "restore"}
          PROVE  file' = file
      BY <1>2, <2>1 DEF Gated, Committing
    <2> QED
      BY <1>0, <1>1, <1>3, <2>1 DEF OwnTruth, FoundOf
  <1>7. HalfwayOf(q)'
    <2>1. ASSUME run[q] \in {"mv_copy", "mv_mark", "mv_drop"}
          PROVE  file' = file
      BY <1>2, <2>1 DEF Gated, Moving
    <2>2. /\ Runs(q, "mv_copy")' = Runs(q, "mv_copy") /\ Runs(q, "mv_drop")' = Runs(q, "mv_drop")
          /\ Runs(q, "mv_mark")' = Runs(q, "mv_mark")
      BY DEF Moving
    <2> QED
      BY <1>0, <1>1, <2>1, <2>2 DEF OwnTruth, HalfwayOf
  <1>8. UndisturbedOf(q)'
    <2>1. SUFFICES ASSUME q \notin stale'
                   PROVE  /\ upload'[q] # None /\ Plain(q)' => Explained(q)'
                          /\ move'[q] # None => MoveExplained(q)'
      BY DEF UndisturbedOf
    <2>2. q \notin stale
      BY <2>1, Filed
    <2>3. /\ upload[q] # None => file'[plan[q].to] = file[plan[q].to]
          /\ move[q] # None => /\ file'[plan[q].to] = file[plan[q].to]
                               /\ file'[plan[q].from] = file[plan[q].from]
      BY <2>1, Filed
    <2>4. upload'[q] # None /\ Plain(q)' => Explained(q)'
      BY <1>0, <1>1, <1>3, <2>2, <2>3 DEF OwnTruth, UndisturbedOf, Explained
    <2>5. Runs(q, "mv_mark")' = Runs(q, "mv_mark")
      BY DEF Moving
    <2>6. move'[q] # None => MoveExplained(q)'
      BY <1>0, <1>1, <2>2, <2>3, <2>5 DEF OwnTruth, UndisturbedOf, MoveExplained
    <2> QED
      BY <2>4, <2>6
  <1> QED
    BY <1>4, <1>5, <1>6, <1>7, <1>8 DEF OwnTruth

\* What has been published stays published, and every file is signed.
LEMMA FilesTrue ==
  ASSUME IInv, NEW o \in Ops, NEW a \in {Rec, o}, Carries(a, o), Filing(o), Lasting(o)
  PROVE  /\ \A q \in Ops : Published(q) => Published(q)'
         /\ \A f \in Files : FileSigned(f)'
  <1>0. TypeOK
    BY DEF IInv, Bookkeeping
  <1>1. ASSUME NEW q \in Ops, Published(q)
        PROVE  Published(q)'
    <2>1. CASE q = o
      BY <1>1, <2>1 DEF Lasting, Published
    <2>2. CASE q # o
      BY <1>0, <1>1, <2>2, Elsewhere DEF Published
    <2> QED
      BY <2>1, <2>2
  <1>2. ASSUME NEW f \in Files
        PROVE  FileSigned(f)'
    <2>1. CASE file'[f] = file[f]
      BY <1>1, <2>1 DEF IInv, Truth, Bylines, FileSigned, Signed
    <2>2. CASE file'[f] # file[f]
      <3>1. PICK p \in Files, x \in Objects \cup {None} :
              /\ Writes(o, p, x)
              /\ x # None => Signed(x) /\ (x.by \in Ops => Published(x.by)')
        BY <2>2 DEF Filing, Unfiled
      <3>2. file'[f] = x
        BY <1>0, <2>2, <3>1 DEF Writes, TypeOK, StoreTyped
      <3> QED
        BY <3>1, <3>2 DEF FileSigned, Signed
    <2> QED
      BY <2>1, <2>2
  <1> QED
    BY <1>1, <1>2

\* A refusal stands while others work.
LEMMA RefusalStands ==
  ASSUME IInv, NEW o \in Ops, NEW a \in {Rec, o}, Carries(a, o), Filing(o),
         NEW r \in Ops, r # o, Blocked(r),
         \A pc \in {"r_finish", "mv_mark", "mv_drop", "mv_end"} :
            run'[Rec] = pc /\ job'[2] = r => run[Rec] = pc /\ job[2] = r
  PROVE  Blocked(r)'
  <1>0. TypeOK
    BY DEF IInv, Bookkeeping
  <1>1. /\ upload'[r] = upload[r] /\ move'[r] = move[r] /\ plan'[r] = plan[r] /\ run'[r] = run[r]
    BY <1>0, Elsewhere
  <1>2. Guarded(r)' = Guarded(r)
    BY <1>1 DEF Guarded
  <1>3. SUFFICES ASSUME ~ Guarded(r), r \notin stale'
                 PROVE  /\ run'[r] = "done" /\ file'[plan[r].to] # None /\ file'[plan[r].to].gen # 0
                        /\ BlockedUpload(r)' \/ BlockedMove(r)'
    BY <1>1, <1>2 DEF Blocked
  <1>4. r \notin stale
    BY <1>3, Filed
  <1>5. /\ run[r] = "done" /\ file[plan[r].to] # None /\ file[plan[r].to].gen # 0
        /\ BlockedUpload(r) \/ BlockedMove(r)
    BY <1>3, <1>4 DEF Blocked
  <1>6. file'[plan[r].to] = file[plan[r].to]
    BY <1>3, <1>5, Filed DEF BlockedUpload, BlockedMove
  <1>7. BlockedUpload(r) => BlockedUpload(r)'
    <2>1. Provable(r)' = Provable(r)
      BY <1>1, <1>2, <1>6 DEF Provable, RolledBack, Committed, Matches
    <2> QED
      BY <1>1, <2>1 DEF BlockedUpload
  <1>8. BlockedMove(r) => BlockedMove(r)'
    BY <1>1, <1>6 DEF BlockedMove
  <1> QED
    BY <1>1, <1>5, <1>6, <1>7, <1>8

\* A step of an operation leaves the truth alone when it does so for the operation.
LEMMA ForegroundTruth ==
  ASSUME IInv, Bookkeeping', NEW o \in Ops, Foreground(o), Filing(o), Lasting(o),
         run[o] # "done", OwnTruth(o)',
         job # None => UNCHANGED <<file, upload, move>>
  PROVE  IInv'
  <1>0. TypeOK /\ job' = job /\ refused' = refused
    BY DEF IInv, Bookkeeping, Foreground
  <1>1. Carries(o, o) /\ o # Rec /\ run'[Rec] = run[Rec]
    BY <1>0, OpsAssumption DEF Foreground, Carries, Only, TypeOK, LocationsTyped
  <1>2. ASSUME NEW q \in Ops
        PROVE  OwnTruth(q)'
    <2>1. CASE q = o
      BY <2>1
    <2>2. CASE q # o
      <3>1. run'[q] = run[q]
        BY <1>0, <1>1, <2>2, Elsewhere
      <3>2. \A pc \in Moving : Runs(q, pc)' = Runs(q, pc)
        BY <1>0, <1>1, <3>1 DEF Runs
      <3> QED
        BY <1>1, <2>2, <3>2, OthersTrue
    <2> QED
      BY <2>1, <2>2
  <1>3. \A f \in Files : FileSigned(f)'
    BY <1>1, FilesTrue
  <1>4. ASSUME refused # None
        PROVE  Blocked(refused[2])'
    <2>1. refused[2] \in Ops /\ Blocked(refused[2])
      BY <1>0, <1>4, KeysOf DEF TypeOK, HistoryTyped, IInv, Truth, Refusals
    <2>2. CASE refused[2] = o
      <3>1. plan[o] # None /\ plan'[o] = plan[o] /\ (Guarded(o) \/ o \in stale)
        BY <2>1, <2>2 DEF Blocked, Lasting
      <3>2. o \in stale => o \in stale'
        BY Filed
      <3> QED
        BY <1>0, <2>2, <3>1, <3>2 DEF Blocked, Guarded
    <2>3. CASE refused[2] # o
      BY <1>0, <1>1, <2>1, <2>3, RefusalStands
    <2> QED
      BY <2>2, <2>3
  <1>5. ASSUME run[Rec] = "r_finish"
        PROVE  Provable(job[2])'
    <2>1. job # None /\ job[2] \in Ops /\ upload[job[2]] # None /\ Provable(job[2])
      BY <1>0, <1>5, KeysOf DEF IInv, Bookkeeping, Doors, Worked, Recovering, Truth,
         Refusals, TypeOK,
         ProcessTyped
    <2>2. UNCHANGED <<file, upload, move>>
      BY <2>1
    <2>3. plan'[job[2]] = plan[job[2]]
      <3>1. plan[job[2]] # None
        BY <2>1 DEF IInv, Bookkeeping, Held, HeldOf, Bare
      <3> QED
        BY <1>0, <1>1, <2>1, <3>1, Elsewhere DEF Lasting
    <2> QED
      BY <1>0, <2>1, <2>2, <2>3 DEF Provable, Guarded, Committed, RolledBack, Matches
  <1>6. Refusals'
    BY <1>0, <1>1, <1>4, <1>5 DEF Refusals
  <1> QED
    BY <1>2, <1>3, <1>6 DEF IInv, Truth, Bylines, Effects, Found, Halfway,
       Undisturbed, OwnTruth

\* An operation that is not on its way through a move has no move journal.
LEMMA NoMove ==
  ASSUME Bookkeeping, NEW o \in Ops, run[o] \notin Moving \cup {"done"}
  PROVE  move[o] = None
  BY DEF Bookkeeping, Plans, PlanOf, Held, HeldOf, TypeOK, LocationsTyped,
     OpLocations, Staging,
     Committing, Copying, Deleting, Uploads

\* A step that writes no file and no move leaves the truth alone when it does so for the
\* copies, the result, the request and the upload of its operation.
LEMMA UploadTruth ==
  ASSUME IInv, Bookkeeping', NEW o \in Ops, Foreground(o),
         UNCHANGED <<file, move, plan, effect, stale>>,
         run[o] \notin Moving \cup {"done", "idle"}, CopySigned(o)', EffectOf(o)', FoundOf(o)',
         upload'[o] # None /\ Plain(o) /\ o \notin stale => Explained(o)',
         job # None => UNCHANGED upload
  PROVE  IInv'
  <1>1. move'[o] = None
    BY NoMove DEF IInv
  <1>2. HalfwayOf(o)'
    BY <1>1 DEF HalfwayOf
  <1>3. UndisturbedOf(o)'
    BY <1>1 DEF UndisturbedOf, Plain
  <1>4. Filing(o) /\ Lasting(o)
    BY DEF Filing, Lasting, Unfiled, Published
  <1> QED
    BY <1>2, <1>3, <1>4, ForegroundTruth DEF OwnTruth

\* A step that writes no file and no journal.
LEMMA QuietTruth ==
  ASSUME IInv, Bookkeeping', NEW o \in Ops, Foreground(o),
         UNCHANGED <<file, upload, move, plan, effect, stale>>,
         run[o] \notin Moving \cup {"done", "idle"}, CopySigned(o)', EffectOf(o)', FoundOf(o)'
  PROVE  IInv'
  <1>1. upload'[o] # None /\ Plain(o) /\ o \notin stale => Explained(o)'
    BY DEF IInv, Truth, Undisturbed, UndisturbedOf, Explained
  <1> QED
    BY <1>1, UploadTruth

\* Writing the intent keeps the truth.
LEMMA WriteIntentTruth ==
  ASSUME IInv, NEW o \in Ops, WriteIntent(o), UNCHANGED probe
  PROVE  IInv'
  <1>0. Bookkeeping /\ TypeOK /\ OwnTruth(o) /\ PlanOf(o) /\ HeldOf(o)
    BY DEF IInv, Bookkeeping, Plans, Held, Truth, Bylines, Effects, Found, Halfway,
       Undisturbed, OwnTruth
  <1>1. WriteIntentDoes(o)
    BY <1>0, WriteIntentEffect
  <1>2. Foreground(o) /\ run[o] \notin Moving \cup {"done", "idle"}
    BY <1>1 DEF WriteIntentDoes, Moving
  <1>3. Bookkeeping'
    BY <1>0, WriteIntentBooks
  <1>4. move[o] = None
    BY <1>0, <1>2, NoMove
  <1>5. CopySigned(o)'
    BY <1>0, <1>1, <1>3 DEF WriteIntentDoes, OwnTruth, CopySigned, Signed
  <1>6. EffectOf(o)'
    BY <1>0, <1>1, <1>3, <1>4 DEF WriteIntentDoes, Leaves, Stays, OwnTruth, PlanOf,
       EffectOf, Guarded, Uploads, Gated, Staging, Committing, Copying, Deleting,
       Moving
  <1>7. FoundOf(o)'
    BY <1>0, <1>1, <1>3 DEF WriteIntentDoes, Leaves, Stays, OwnTruth, PlanOf, HeldOf,
       FoundOf, Guarded, Plain, Uploads, Gated, Staging, Committing, Copying,
       Deleting, Moving
  <1> QED
    BY <1>1, <1>2, <1>3, <1>5, <1>6, <1>7, QuietTruth DEF WriteIntentDoes

\* The single PUT of the staged object keeps the truth.
LEMMA StageSingleTruth ==
  ASSUME IInv, NEW o \in Ops, StageSingle(o), UNCHANGED probe
  PROVE  IInv'
  <1>0. Bookkeeping /\ TypeOK /\ OwnTruth(o) /\ PlanOf(o) /\ HeldOf(o)
    BY DEF IInv, Bookkeeping, Plans, Held, Truth, Bylines, Effects, Found, Halfway,
       Undisturbed, OwnTruth
  <1>1. StageSingleDoes(o)
    BY <1>0, StageSingleEffect
  <1>2. Foreground(o) /\ run[o] \notin Moving \cup {"done", "idle"}
    BY <1>1 DEF StageSingleDoes, Moving
  <1>3. Bookkeeping'
    BY <1>0, StageSingleBooks
  <1>4. move[o] = None
    BY <1>0, <1>2, NoMove
  <1>5. CopySigned(o)'
    BY <1>0, <1>1, <1>3, UploadedOwn DEF StageSingleDoes, OwnTruth, CopySigned, Signed
  <1>6. EffectOf(o)'
    BY <1>0, <1>1, <1>3, <1>4 DEF StageSingleDoes, Leaves, Stays, OwnTruth, PlanOf,
       EffectOf, Guarded, Uploads, Gated, Staging, Committing, Copying, Deleting,
       Moving
  <1>7. FoundOf(o)'
    BY <1>0, <1>1, <1>3 DEF StageSingleDoes, Leaves, Stays, OwnTruth, PlanOf, HeldOf,
       FoundOf, Guarded, Plain, Uploads, Gated, Staging, Committing, Copying,
       Deleting, Moving
  <1> QED
    BY <1>1, <1>2, <1>3, <1>5, <1>6, <1>7, QuietTruth DEF StageSingleDoes

\* Writing the session's journal keeps the truth.
LEMMA OpenSessionTruth ==
  ASSUME IInv, NEW o \in Ops, OpenSession(o), UNCHANGED probe
  PROVE  IInv'
  <1>0. Bookkeeping /\ TypeOK /\ OwnTruth(o) /\ PlanOf(o) /\ HeldOf(o)
    BY DEF IInv, Bookkeeping, Plans, Held, Truth, Bylines, Effects, Found, Halfway,
       Undisturbed, OwnTruth
  <1>1. OpenSessionDoes(o)
    BY <1>0, OpenSessionEffect
  <1>2. Foreground(o) /\ run[o] \notin Moving \cup {"done", "idle"}
    BY <1>1 DEF OpenSessionDoes, Moving
  <1>3. Bookkeeping'
    BY <1>0, OpenSessionBooks
  <1>4. move[o] = None
    BY <1>0, <1>2, NoMove
  <1>5. CopySigned(o)'
    BY <1>0, <1>1, <1>3 DEF OpenSessionDoes, OwnTruth, CopySigned, Signed
  <1>6. EffectOf(o)'
    BY <1>0, <1>1, <1>3, <1>4 DEF OpenSessionDoes, Leaves, Stays, OwnTruth, PlanOf,
       EffectOf, Guarded, Uploads, Gated, Staging, Committing, Copying, Deleting,
       Moving
  <1>7. FoundOf(o)'
    BY <1>0, <1>1, <1>3 DEF OpenSessionDoes, Leaves, Stays, OwnTruth, PlanOf, HeldOf,
       FoundOf, Guarded, Plain, Uploads, Gated, Staging, Committing, Copying,
       Deleting, Moving
  <1> QED
    BY <1>1, <1>2, <1>3, <1>5, <1>6, <1>7, QuietTruth DEF OpenSessionDoes

\* Opening the multipart session keeps the truth.
LEMMA CreateSessionTruth ==
  ASSUME IInv, NEW o \in Ops, CreateSession(o), UNCHANGED probe
  PROVE  IInv'
  <1>0. Bookkeeping /\ TypeOK /\ OwnTruth(o) /\ PlanOf(o) /\ HeldOf(o)
    BY DEF IInv, Bookkeeping, Plans, Held, Truth, Bylines, Effects, Found, Halfway,
       Undisturbed, OwnTruth
  <1>1. CreateSessionDoes(o)
    BY <1>0, CreateSessionEffect
  <1>2. Foreground(o) /\ run[o] \notin Moving \cup {"done", "idle"}
    BY <1>1 DEF CreateSessionDoes, Moving
  <1>3. Bookkeeping'
    BY <1>0, CreateSessionBooks
  <1>4. move[o] = None
    BY <1>0, <1>2, NoMove
  <1>5. CopySigned(o)'
    BY <1>0, <1>1, <1>3 DEF CreateSessionDoes, OwnTruth, CopySigned, Signed
  <1>6. EffectOf(o)'
    BY <1>0, <1>1, <1>3, <1>4 DEF CreateSessionDoes, Leaves, Stays, OwnTruth, PlanOf,
       EffectOf, Guarded, Uploads, Gated, Staging, Committing, Copying, Deleting,
       Moving
  <1>7. FoundOf(o)'
    BY <1>0, <1>1, <1>3 DEF CreateSessionDoes, Leaves, Stays, OwnTruth, PlanOf,
       HeldOf, FoundOf, Guarded, Plain, Uploads, Gated, Staging, Committing, Copying,
       Deleting, Moving
  <1> QED
    BY <1>1, <1>2, <1>3, <1>5, <1>6, <1>7, QuietTruth DEF CreateSessionDoes

\* Giving up a session that was never opened keeps the truth.
LEMMA ReleaseUnstartedTruth ==
  ASSUME IInv, NEW o \in Ops, ReleaseUnstarted(o), UNCHANGED probe
  PROVE  IInv'
  <1>0. Bookkeeping /\ TypeOK /\ OwnTruth(o) /\ PlanOf(o) /\ HeldOf(o)
    BY DEF IInv, Bookkeeping, Plans, Held, Truth, Bylines, Effects, Found, Halfway,
       Undisturbed, OwnTruth
  <1>1. ReleaseUnstartedDoes(o)
    BY <1>0, ReleaseUnstartedEffect
  <1>2. Foreground(o) /\ run[o] \notin Moving \cup {"done", "idle"}
    BY <1>1 DEF ReleaseUnstartedDoes, Moving
  <1>3. Bookkeeping'
    BY <1>0, ReleaseUnstartedBooks
  <1>4. move[o] = None
    BY <1>0, <1>2, NoMove
  <1>5. CopySigned(o)'
    BY <1>0, <1>1, <1>3 DEF ReleaseUnstartedDoes, OwnTruth, CopySigned, Signed
  <1>6. EffectOf(o)'
    BY <1>0, <1>1, <1>3, <1>4 DEF ReleaseUnstartedDoes, Leaves, Stays, OwnTruth,
       PlanOf, EffectOf, Guarded, Uploads, Gated, Staging, Committing, Copying,
       Deleting, Moving
  <1>7. FoundOf(o)'
    BY <1>0, <1>1, <1>3 DEF ReleaseUnstartedDoes, Leaves, Stays, OwnTruth, PlanOf,
       HeldOf, FoundOf, Guarded, Plain, Uploads, Gated, Staging, Committing, Copying,
       Deleting, Moving
  <1> QED
    BY <1>1, <1>2, <1>3, <1>5, <1>6, <1>7, QuietTruth DEF ReleaseUnstartedDoes

\* Naming the session in its journal keeps the truth.
LEMMA BindSessionTruth ==
  ASSUME IInv, NEW o \in Ops, BindSession(o), UNCHANGED probe
  PROVE  IInv'
  <1>0. Bookkeeping /\ TypeOK /\ OwnTruth(o) /\ PlanOf(o) /\ HeldOf(o)
    BY DEF IInv, Bookkeeping, Plans, Held, Truth, Bylines, Effects, Found, Halfway,
       Undisturbed, OwnTruth
  <1>1. BindSessionDoes(o)
    BY <1>0, BindSessionEffect
  <1>2. Foreground(o) /\ run[o] \notin Moving \cup {"done", "idle"}
    BY <1>1 DEF BindSessionDoes, Moving
  <1>3. Bookkeeping'
    BY <1>0, BindSessionBooks
  <1>4. move[o] = None
    BY <1>0, <1>2, NoMove
  <1>5. CopySigned(o)'
    BY <1>0, <1>1, <1>3 DEF BindSessionDoes, OwnTruth, CopySigned, Signed
  <1>6. EffectOf(o)'
    BY <1>0, <1>1, <1>3, <1>4 DEF BindSessionDoes, Leaves, Stays, OwnTruth, PlanOf,
       EffectOf, Guarded, Uploads, Gated, Staging, Committing, Copying, Deleting,
       Moving
  <1>7. FoundOf(o)'
    BY <1>0, <1>1, <1>3 DEF BindSessionDoes, Leaves, Stays, OwnTruth, PlanOf, HeldOf,
       FoundOf, Guarded, Plain, Uploads, Gated, Staging, Committing, Copying,
       Deleting, Moving
  <1> QED
    BY <1>1, <1>2, <1>3, <1>5, <1>6, <1>7, QuietTruth DEF BindSessionDoes

\* Aborting a session that could not be named keeps the truth.
LEMMA UnbindSessionTruth ==
  ASSUME IInv, NEW o \in Ops, UnbindSession(o), UNCHANGED probe
  PROVE  IInv'
  <1>0. Bookkeeping /\ TypeOK /\ OwnTruth(o) /\ PlanOf(o) /\ HeldOf(o)
    BY DEF IInv, Bookkeeping, Plans, Held, Truth, Bylines, Effects, Found, Halfway,
       Undisturbed, OwnTruth
  <1>1. UnbindSessionDoes(o)
    BY <1>0, UnbindSessionEffect
  <1>2. Foreground(o) /\ run[o] \notin Moving \cup {"done", "idle"}
    BY <1>1 DEF UnbindSessionDoes, Moving
  <1>3. Bookkeeping'
    BY <1>0, UnbindSessionBooks
  <1>4. move[o] = None
    BY <1>0, <1>2, NoMove
  <1>5. CopySigned(o)'
    BY <1>0, <1>1, <1>3 DEF UnbindSessionDoes, OwnTruth, CopySigned, Signed
  <1>6. EffectOf(o)'
    BY <1>0, <1>1, <1>3, <1>4 DEF UnbindSessionDoes, Leaves, Stays, OwnTruth, PlanOf,
       EffectOf, Guarded, Uploads, Gated, Staging, Committing, Copying, Deleting,
       Moving
  <1>7. FoundOf(o)'
    BY <1>0, <1>1, <1>3 DEF UnbindSessionDoes, Leaves, Stays, OwnTruth, PlanOf,
       HeldOf, FoundOf, Guarded, Plain, Uploads, Gated, Staging, Committing, Copying,
       Deleting, Moving
  <1> QED
    BY <1>1, <1>2, <1>3, <1>5, <1>6, <1>7, QuietTruth DEF UnbindSessionDoes

\* Completing the multipart session keeps the truth.
LEMMA CompletePartsTruth ==
  ASSUME IInv, NEW o \in Ops, CompleteParts(o), UNCHANGED probe
  PROVE  IInv'
  <1>0. Bookkeeping /\ TypeOK /\ OwnTruth(o) /\ PlanOf(o) /\ HeldOf(o)
    BY DEF IInv, Bookkeeping, Plans, Held, Truth, Bylines, Effects, Found, Halfway,
       Undisturbed, OwnTruth
  <1>1. CompletePartsDoes(o)
    BY <1>0, CompletePartsEffect
  <1>2. Foreground(o) /\ run[o] \notin Moving \cup {"done", "idle"}
    BY <1>1 DEF CompletePartsDoes, Moving
  <1>3. Bookkeeping'
    BY <1>0, CompletePartsBooks
  <1>4. move[o] = None
    BY <1>0, <1>2, NoMove
  <1>5. CopySigned(o)'
    BY <1>0, <1>1, <1>3, UploadedOwn DEF CompletePartsDoes, OwnTruth, CopySigned, Signed
  <1>6. EffectOf(o)'
    BY <1>0, <1>1, <1>3, <1>4 DEF CompletePartsDoes, Leaves, Stays, OwnTruth, PlanOf,
       EffectOf, Guarded, Uploads, Gated, Staging, Committing, Copying, Deleting,
       Moving
  <1>7. FoundOf(o)'
    BY <1>0, <1>1, <1>3 DEF CompletePartsDoes, Leaves, Stays, OwnTruth, PlanOf,
       HeldOf, FoundOf, Guarded, Plain, Uploads, Gated, Staging, Committing, Copying,
       Deleting, Moving
  <1> QED
    BY <1>1, <1>2, <1>3, <1>5, <1>6, <1>7, QuietTruth DEF CompletePartsDoes

\* A transfer that breaks off keeps the truth.
LEMMA PartsMissingTruth ==
  ASSUME IInv, NEW o \in Ops, PartsMissing(o), UNCHANGED probe
  PROVE  IInv'
  <1>0. Bookkeeping /\ TypeOK /\ OwnTruth(o) /\ PlanOf(o) /\ HeldOf(o)
    BY DEF IInv, Bookkeeping, Plans, Held, Truth, Bylines, Effects, Found, Halfway,
       Undisturbed, OwnTruth
  <1>1. PartsMissingDoes(o)
    BY <1>0, PartsMissingEffect
  <1>2. Foreground(o) /\ run[o] \notin Moving \cup {"done", "idle"}
    BY <1>1 DEF PartsMissingDoes, Moving
  <1>3. Bookkeeping'
    BY <1>0, PartsMissingBooks
  <1>4. move[o] = None
    BY <1>0, <1>2, NoMove
  <1>5. CopySigned(o)'
    BY <1>0, <1>1, <1>3 DEF PartsMissingDoes, OwnTruth, CopySigned, Signed
  <1>6. EffectOf(o)'
    BY <1>0, <1>1, <1>3, <1>4 DEF PartsMissingDoes, Leaves, Stays, OwnTruth, PlanOf,
       EffectOf, Guarded, Uploads, Gated, Staging, Committing, Copying, Deleting,
       Moving
  <1>7. FoundOf(o)'
    BY <1>0, <1>1, <1>3 DEF PartsMissingDoes, Leaves, Stays, OwnTruth, PlanOf, HeldOf,
       FoundOf, Guarded, Plain, Uploads, Gated, Staging, Committing, Copying,
       Deleting, Moving
  <1> QED
    BY <1>1, <1>2, <1>3, <1>5, <1>6, <1>7, QuietTruth DEF PartsMissingDoes

\* Retiring the journal of a completed session keeps the truth.
LEMMA ReleaseSessionTruth ==
  ASSUME IInv, NEW o \in Ops, ReleaseSession(o), UNCHANGED probe
  PROVE  IInv'
  <1>0. Bookkeeping /\ TypeOK /\ OwnTruth(o) /\ PlanOf(o) /\ HeldOf(o)
    BY DEF IInv, Bookkeeping, Plans, Held, Truth, Bylines, Effects, Found, Halfway,
       Undisturbed, OwnTruth
  <1>1. ReleaseSessionDoes(o)
    BY <1>0, ReleaseSessionEffect
  <1>2. Foreground(o) /\ run[o] \notin Moving \cup {"done", "idle"}
    BY <1>1 DEF ReleaseSessionDoes, Moving
  <1>3. Bookkeeping'
    BY <1>0, ReleaseSessionBooks
  <1>4. move[o] = None
    BY <1>0, <1>2, NoMove
  <1>5. CopySigned(o)'
    BY <1>0, <1>1, <1>3 DEF ReleaseSessionDoes, OwnTruth, CopySigned, Signed
  <1>6. EffectOf(o)'
    BY <1>0, <1>1, <1>3, <1>4 DEF ReleaseSessionDoes, Leaves, Stays, OwnTruth, PlanOf,
       EffectOf, Guarded, Uploads, Gated, Staging, Committing, Copying, Deleting,
       Moving
  <1>7. FoundOf(o)'
    BY <1>0, <1>1, <1>3 DEF ReleaseSessionDoes, Leaves, Stays, OwnTruth, PlanOf,
       HeldOf, FoundOf, Guarded, Plain, Uploads, Gated, Staging, Committing, Copying,
       Deleting, Moving
  <1> QED
    BY <1>1, <1>2, <1>3, <1>5, <1>6, <1>7, QuietTruth DEF ReleaseSessionDoes

\* Aborting the session keeps the truth.
LEMMA AbortSessionTruth ==
  ASSUME IInv, NEW o \in Ops, AbortSession(o), UNCHANGED probe
  PROVE  IInv'
  <1>0. Bookkeeping /\ TypeOK /\ OwnTruth(o) /\ PlanOf(o) /\ HeldOf(o)
    BY DEF IInv, Bookkeeping, Plans, Held, Truth, Bylines, Effects, Found, Halfway,
       Undisturbed, OwnTruth
  <1>1. AbortSessionDoes(o)
    BY <1>0, AbortSessionEffect
  <1>2. Foreground(o) /\ run[o] \notin Moving \cup {"done", "idle"}
    BY <1>1 DEF AbortSessionDoes, Moving
  <1>3. Bookkeeping'
    BY <1>0, AbortSessionBooks
  <1>4. move[o] = None
    BY <1>0, <1>2, NoMove
  <1>5. CopySigned(o)'
    BY <1>0, <1>1, <1>3 DEF AbortSessionDoes, OwnTruth, CopySigned, Signed
  <1>6. EffectOf(o)'
    BY <1>0, <1>1, <1>3, <1>4 DEF AbortSessionDoes, Leaves, Stays, OwnTruth, PlanOf,
       EffectOf, Guarded, Uploads, Gated, Staging, Committing, Copying, Deleting,
       Moving
  <1>7. FoundOf(o)'
    BY <1>0, <1>1, <1>3 DEF AbortSessionDoes, Leaves, Stays, OwnTruth, PlanOf, HeldOf,
       FoundOf, Guarded, Plain, Uploads, Gated, Staging, Committing, Copying,
       Deleting, Moving
  <1> QED
    BY <1>1, <1>2, <1>3, <1>5, <1>6, <1>7, QuietTruth DEF AbortSessionDoes

\* Looking at the staged object keeps the truth.
LEMMA InspectTruth ==
  ASSUME IInv, NEW o \in Ops, Inspect(o), UNCHANGED probe
  PROVE  IInv'
  <1>0. Bookkeeping /\ TypeOK /\ OwnTruth(o) /\ PlanOf(o) /\ HeldOf(o)
    BY DEF IInv, Bookkeeping, Plans, Held, Truth, Bylines, Effects, Found, Halfway,
       Undisturbed, OwnTruth
  <1>1. InspectDoes(o)
    BY <1>0, InspectEffect
  <1>2. Foreground(o) /\ run[o] \notin Moving \cup {"done", "idle"}
    BY <1>1 DEF InspectDoes, Moving
  <1>3. Bookkeeping'
    BY <1>0, InspectBooks
  <1>4. move[o] = None
    BY <1>0, <1>2, NoMove
  <1>5. CopySigned(o)'
    BY <1>0, <1>1, <1>3 DEF InspectDoes, OwnTruth, CopySigned, Signed
  <1>6. EffectOf(o)'
    BY <1>0, <1>1, <1>3, <1>4 DEF InspectDoes, Leaves, Stays, OwnTruth, PlanOf,
       EffectOf, Guarded, Uploads, Gated, Staging, Committing, Copying, Deleting,
       Moving
  <1>7. FoundOf(o)'
    BY <1>0, <1>1, <1>3 DEF InspectDoes, Leaves, Stays, OwnTruth, PlanOf, HeldOf,
       FoundOf, Guarded, Plain, Uploads, Gated, Staging, Committing, Copying,
       Deleting, Moving
  <1> QED
    BY <1>1, <1>2, <1>3, <1>5, <1>6, <1>7, QuietTruth DEF InspectDoes

\* Giving up an upload before its transaction keeps the truth.
LEMMA AbandonTruth ==
  ASSUME IInv, NEW o \in Ops, Abandon(o), UNCHANGED probe
  PROVE  IInv'
  <1>0. Bookkeeping /\ TypeOK /\ OwnTruth(o) /\ PlanOf(o) /\ HeldOf(o)
    BY DEF IInv, Bookkeeping, Plans, Held, Truth, Bylines, Effects, Found, Halfway,
       Undisturbed, OwnTruth
  <1>1. AbandonDoes(o)
    BY <1>0, AbandonEffect
  <1>2. Foreground(o) /\ run[o] \notin Moving \cup {"done", "idle"}
    BY <1>1 DEF AbandonDoes, Moving
  <1>3. Bookkeeping'
    BY <1>0, AbandonBooks
  <1>4. move[o] = None
    BY <1>0, <1>2, NoMove
  <1>5. CopySigned(o)'
    BY <1>0, <1>1, <1>3 DEF AbandonDoes, OwnTruth, CopySigned, Signed
  <1>6. EffectOf(o)'
    BY <1>0, <1>1, <1>3, <1>4 DEF AbandonDoes, Leaves, Stays, OwnTruth, PlanOf,
       EffectOf, Guarded, Uploads, Gated, Staging, Committing, Copying, Deleting,
       Moving
  <1>7. FoundOf(o)'
    BY <1>0, <1>1, <1>3 DEF AbandonDoes, Leaves, Stays, OwnTruth, PlanOf, HeldOf,
       FoundOf, Guarded, Plain, Uploads, Gated, Staging, Committing, Copying,
       Deleting, Moving
  <1> QED
    BY <1>1, <1>2, <1>3, <1>5, <1>6, <1>7, QuietTruth DEF AbandonDoes

\* Checking the conditions under the gate keeps the truth.
LEMMA CheckTruth ==
  ASSUME IInv, NEW o \in Ops, Check(o), UNCHANGED probe
  PROVE  IInv'
  <1>0. Bookkeeping /\ TypeOK /\ OwnTruth(o) /\ PlanOf(o) /\ HeldOf(o)
    BY DEF IInv, Bookkeeping, Plans, Held, Truth, Bylines, Effects, Found, Halfway,
       Undisturbed, OwnTruth
  <1>1. CheckDoes(o)
    BY <1>0, CheckEffect
  <1>2. Foreground(o) /\ run[o] \notin Moving \cup {"done", "idle"}
    BY <1>1 DEF CheckDoes, Moving
  <1>3. Bookkeeping'
    BY <1>0, CheckBooks
  <1>4. move[o] = None
    BY <1>0, <1>2, NoMove
  <1>5. CopySigned(o)'
    BY <1>0, <1>1, <1>3 DEF CheckDoes, OwnTruth, CopySigned, Signed
  <1>6. EffectOf(o)'
    BY <1>0, <1>1, <1>3, <1>4 DEF CheckDoes, Leaves, Stays, OwnTruth, PlanOf,
       EffectOf, Guarded, Uploads, Gated, Staging, Committing, Copying, Deleting,
       Moving
  <1>7. FoundOf(o)'
    <2>1. upload[o] = None /\ Guarded(o)' = Guarded(o) /\ Plain(o)' = Plain(o)
      BY <1>0, <1>1 DEF CheckDoes, HeldOf, Staged, Guarded, Plain
    <2>2. run'[o] = "abandon" /\ known'[o] = known[o] => FoundOf(o)'
      BY <1>0, <1>1, <2>1 DEF CheckDoes, OwnTruth, FoundOf
    <2>3. /\ run'[o] = "journal" /\ known'[o] = TagOf(file[plan[o].to])
          /\ Guarded(o) => known'[o] = known[o]
          => FoundOf(o)'
      BY <1>0, <1>1, <2>1 DEF CheckDoes, OwnTruth, FoundOf, Guarded
    <2> QED
      BY <1>1, <2>2, <2>3 DEF CheckDoes
  <1> QED
    BY <1>1, <1>2, <1>3, <1>5, <1>6, <1>7, QuietTruth DEF CheckDoes

\* Handing the staged object over to the transaction keeps the truth.
LEMMA ReleaseIntentTruth ==
  ASSUME IInv, NEW o \in Ops, ReleaseIntent(o), UNCHANGED probe
  PROVE  IInv'
  <1>0. Bookkeeping /\ TypeOK /\ OwnTruth(o) /\ PlanOf(o) /\ HeldOf(o)
    BY DEF IInv, Bookkeeping, Plans, Held, Truth, Bylines, Effects, Found, Halfway,
       Undisturbed, OwnTruth
  <1>1. ReleaseIntentDoes(o)
    BY <1>0, ReleaseIntentEffect
  <1>2. Foreground(o) /\ run[o] \notin Moving \cup {"done", "idle"}
    BY <1>1 DEF ReleaseIntentDoes, Moving
  <1>3. Bookkeeping'
    BY <1>0, ReleaseIntentBooks
  <1>4. move[o] = None
    BY <1>0, <1>2, NoMove
  <1>5. CopySigned(o)'
    BY <1>0, <1>1, <1>3 DEF ReleaseIntentDoes, OwnTruth, CopySigned, Signed
  <1>6. EffectOf(o)'
    BY <1>0, <1>1, <1>3, <1>4 DEF ReleaseIntentDoes, Leaves, Stays, OwnTruth, PlanOf,
       EffectOf, Guarded, Uploads, Gated, Staging, Committing, Copying, Deleting,
       Moving
  <1>7. FoundOf(o)'
    BY <1>0, <1>1, <1>3 DEF ReleaseIntentDoes, Leaves, Stays, OwnTruth, PlanOf,
       HeldOf, FoundOf, Guarded, Plain, Uploads, Gated, Staging, Committing, Copying,
       Deleting, Moving
  <1> QED
    BY <1>1, <1>2, <1>3, <1>5, <1>6, <1>7, QuietTruth DEF ReleaseIntentDoes

\* Copying the target to its backup keeps the truth.
LEMMA BackUpTruth ==
  ASSUME IInv, NEW o \in Ops, BackUp(o), UNCHANGED probe
  PROVE  IInv'
  <1>0. Bookkeeping /\ TypeOK /\ OwnTruth(o) /\ PlanOf(o) /\ HeldOf(o)
    BY DEF IInv, Bookkeeping, Plans, Held, Truth, Bylines, Effects, Found, Halfway,
       Undisturbed, OwnTruth
  <1>1. BackUpDoes(o)
    BY <1>0, BackUpEffect
  <1>2. Foreground(o) /\ run[o] \notin Moving \cup {"done", "idle"}
    BY <1>1 DEF BackUpDoes, Moving
  <1>3. Bookkeeping'
    BY <1>0, BackUpBooks
  <1>4. move[o] = None
    BY <1>0, <1>2, NoMove
  <1>5. CopySigned(o)'
    <2>1. file[plan[o].to] \in Objects /\ file[plan[o].to] # None /\ Signed(file[plan[o].to])
      BY <1>0, <1>1, Mine, ConstantsAssumption DEF BackUpDoes, PlanOf, HeldOf,
         Committing, IInv, Truth, Bylines, FileSigned
    <2>2. backup'[o] # None => Signed(backup'[o])
      BY <1>1, <2>1, Copies DEF BackUpDoes, Signed
    <2> QED
      BY <1>0, <1>1, <2>2 DEF BackUpDoes, OwnTruth, CopySigned, Signed
  <1>6. EffectOf(o)'
    BY <1>0, <1>1, <1>3, <1>4 DEF BackUpDoes, Leaves, Stays, OwnTruth, PlanOf,
       EffectOf, Guarded, Uploads, Gated, Staging, Committing, Copying, Deleting,
       Moving
  <1>7. FoundOf(o)'
    <2>1. /\ file[plan[o].to] \in Objects /\ effect[o] = "no" /\ Plain(o) /\ known[o] # None
          /\ known[o] = ETag(file[plan[o].to]) /\ known[o][1] = file[plan[o].to].by
      BY <1>0, <1>1, Mine, Tags, ObjectTags, ConstantsAssumption
         DEF BackUpDoes, PlanOf, HeldOf, OwnTruth, FoundOf, EffectOf, Plain, Guarded,
            Uploads, Committing, Moving
    <2>2. backup'[o] # None => /\ backup'[o].by = known[o][1]
                               /\ ETag(backup'[o]) = known[o] \/ backup'[o].gen # 0
      BY <1>1, <2>1, Copies DEF BackUpDoes
    <2> QED
      BY <1>0, <1>1, <2>1, <2>2 DEF BackUpDoes, Leaves, OwnTruth, FoundOf, Guarded,
         Plain
  <1> QED
    BY <1>1, <1>2, <1>3, <1>5, <1>6, <1>7, QuietTruth DEF BackUpDoes

\* Probing the store's conditional writes keeps the truth.
LEMMA VerifyTruth ==
  ASSUME IInv, NEW o \in Ops, Verify(o), UNCHANGED probe
  PROVE  IInv'
  <1>0. Bookkeeping /\ TypeOK /\ OwnTruth(o) /\ PlanOf(o) /\ HeldOf(o)
    BY DEF IInv, Bookkeeping, Plans, Held, Truth, Bylines, Effects, Found, Halfway,
       Undisturbed, OwnTruth
  <1>1. VerifyDoes(o)
    BY <1>0, VerifyEffect
  <1>2. Foreground(o) /\ run[o] \notin Moving \cup {"done", "idle"}
    BY <1>1 DEF VerifyDoes, Moving
  <1>3. Bookkeeping'
    BY <1>0, VerifyBooks
  <1>4. move[o] = None
    BY <1>0, <1>2, NoMove
  <1>5. CopySigned(o)'
    BY <1>0, <1>1, <1>3, UploadedOwn DEF VerifyDoes, OwnTruth, CopySigned, Signed
  <1>6. EffectOf(o)'
    BY <1>0, <1>1, <1>3, <1>4 DEF VerifyDoes, Leaves, Stays, OwnTruth, PlanOf,
       EffectOf, Guarded, Uploads, Gated, Staging, Committing, Copying, Deleting,
       Moving
  <1>7. FoundOf(o)'
    BY <1>0, <1>1, <1>3 DEF VerifyDoes, Leaves, Stays, OwnTruth, PlanOf, HeldOf,
       FoundOf, Guarded, Plain, Uploads, Gated, Staging, Committing, Copying,
       Deleting, Moving
  <1> QED
    BY <1>1, <1>2, <1>3, <1>5, <1>6, <1>7, QuietTruth DEF VerifyDoes

\* Looking for proof of the publication keeps the truth.
LEMMA ConfirmTruth ==
  ASSUME IInv, NEW o \in Ops, Confirm(o), UNCHANGED probe
  PROVE  IInv'
  <1>0. Bookkeeping /\ TypeOK /\ OwnTruth(o) /\ PlanOf(o) /\ HeldOf(o)
    BY DEF IInv, Bookkeeping, Plans, Held, Truth, Bylines, Effects, Found, Halfway,
       Undisturbed, OwnTruth
  <1>1. ConfirmDoes(o)
    BY <1>0, ConfirmEffect
  <1>2. Foreground(o) /\ run[o] \notin Moving \cup {"done", "idle"}
    BY <1>1 DEF ConfirmDoes, Moving
  <1>3. Bookkeeping'
    BY <1>0, ConfirmBooks
  <1>4. move[o] = None
    BY <1>0, <1>2, NoMove
  <1>5. CopySigned(o)'
    BY <1>0, <1>1, <1>3 DEF ConfirmDoes, OwnTruth, CopySigned, Signed
  <1>6. EffectOf(o)'
    <2>1. plan[o] # None /\ plan[o].mode \in Uploads /\ effect[o] # "half"
      BY <1>0, <1>1 DEF ConfirmDoes, PlanOf, Committing, OwnTruth, EffectOf, Uploads
    <2>2. Committed(o, file[plan[o].to]) => effect[o] = "yes"
      <3>1. SUFFICES ASSUME Committed(o, file[plan[o].to]) PROVE Published(o)
        BY DEF Published
      <3>2. /\ file[plan[o].to] \in Objects /\ plan[o].to \in Files
            /\ FileSigned(plan[o].to) /\ Signed(file[plan[o].to])
        BY <1>0, <2>1, <3>1, Mine DEF Committed, IInv, Truth, Bylines, FileSigned
      <3>3. upload[o] # None
        BY <1>0, <1>1 DEF ConfirmDoes, HeldOf, Committing
      <3>4. file[plan[o].to].by = o
        BY <1>0, <3>1, <3>2, <3>3, ObjectTags, OpsAssumption DEF Committed, Signed,
           OwnTruth, CopySigned
      <3> QED
        BY <3>1, <3>2, <3>4 DEF FileSigned, Committed
    <2>3. ~ Guarded(o) /\ ~ Committed(o, file[plan[o].to]) => effect[o] = "no"
      BY <1>0, <1>1, <2>1 DEF ConfirmDoes, OwnTruth, EffectOf, Committed, TypeOK,
         HistoryTyped
    <2> QED
      BY <1>0, <1>1, <1>4, <2>1, <2>2, <2>3 DEF ConfirmDoes, Leaves, Stays, OwnTruth,
         EffectOf, Guarded
  <1>7. FoundOf(o)'
    BY <1>0, <1>1, <1>3 DEF ConfirmDoes, Leaves, Stays, OwnTruth, PlanOf, HeldOf,
       FoundOf, Guarded, Plain, Uploads, Gated, Staging, Committing, Copying,
       Deleting, Moving
  <1> QED
    BY <1>1, <1>2, <1>3, <1>5, <1>6, <1>7, QuietTruth DEF ConfirmDoes

\* The answer of a copy keeps the truth.
LEMMA ConfirmCopyTruth ==
  ASSUME IInv, NEW o \in Ops, ConfirmCopy(o), UNCHANGED probe
  PROVE  IInv'
  <1>0. Bookkeeping /\ TypeOK /\ OwnTruth(o) /\ PlanOf(o) /\ HeldOf(o)
    BY DEF IInv, Bookkeeping, Plans, Held, Truth, Bylines, Effects, Found, Halfway,
       Undisturbed, OwnTruth
  <1>1. ConfirmCopyDoes(o)
    BY <1>0, ConfirmCopyEffect
  <1>2. Foreground(o) /\ run[o] \notin Moving \cup {"done", "idle"}
    BY <1>1 DEF ConfirmCopyDoes, Moving
  <1>3. Bookkeeping'
    BY <1>0, ConfirmCopyBooks
  <1>4. move[o] = None
    BY <1>0, <1>2, NoMove
  <1>5. CopySigned(o)'
    BY <1>0, <1>1, <1>3 DEF ConfirmCopyDoes, OwnTruth, CopySigned, Signed
  <1>6. EffectOf(o)'
    BY <1>0, <1>1, <1>3, <1>4 DEF ConfirmCopyDoes, Leaves, Stays, OwnTruth, PlanOf,
       EffectOf, Guarded, Uploads, Gated, Staging, Committing, Copying, Deleting,
       Moving
  <1>7. FoundOf(o)'
    BY <1>0, <1>1, <1>3 DEF ConfirmCopyDoes, Leaves, Stays, OwnTruth, PlanOf, HeldOf,
       FoundOf, Guarded, Plain, Uploads, Gated, Staging, Committing, Copying,
       Deleting, Moving
  <1> QED
    BY <1>1, <1>2, <1>3, <1>5, <1>6, <1>7, QuietTruth DEF ConfirmCopyDoes

\* The answer of a deletion keeps the truth.
LEMMA ConfirmDeleteTruth ==
  ASSUME IInv, NEW o \in Ops, ConfirmDelete(o), UNCHANGED probe
  PROVE  IInv'
  <1>0. Bookkeeping /\ TypeOK /\ OwnTruth(o) /\ PlanOf(o) /\ HeldOf(o)
    BY DEF IInv, Bookkeeping, Plans, Held, Truth, Bylines, Effects, Found, Halfway,
       Undisturbed, OwnTruth
  <1>1. ConfirmDeleteDoes(o)
    BY <1>0, ConfirmDeleteEffect
  <1>2. Foreground(o) /\ run[o] \notin Moving \cup {"done", "idle"}
    BY <1>1 DEF ConfirmDeleteDoes, Moving
  <1>3. Bookkeeping'
    BY <1>0, ConfirmDeleteBooks
  <1>4. move[o] = None
    BY <1>0, <1>2, NoMove
  <1>5. CopySigned(o)'
    BY <1>0, <1>1, <1>3 DEF ConfirmDeleteDoes, OwnTruth, CopySigned, Signed
  <1>6. EffectOf(o)'
    BY <1>0, <1>1, <1>3, <1>4, Mine DEF ConfirmDeleteDoes, Leaves, Stays, OwnTruth,
       PlanOf, EffectOf, Guarded, Uploads, Gated, Staging, Committing, Copying,
       Deleting, Moving, Deleting, TypeOK, HistoryTyped
  <1>7. FoundOf(o)'
    BY <1>0, <1>1, <1>3 DEF ConfirmDeleteDoes, Leaves, Stays, OwnTruth, PlanOf,
       HeldOf, FoundOf, Guarded, Plain, Uploads, Gated, Staging, Committing, Copying,
       Deleting, Moving
  <1> QED
    BY <1>1, <1>2, <1>3, <1>5, <1>6, <1>7, QuietTruth DEF ConfirmDeleteDoes

\* Entering the mutation gate keeps the truth.
LEMMA LockTruth ==
  ASSUME IInv, NEW o \in Ops, Lock(o), UNCHANGED probe
  PROVE  IInv'
  <1>0. Bookkeeping /\ TypeOK /\ OwnTruth(o) /\ PlanOf(o) /\ HeldOf(o)
    BY DEF IInv, Bookkeeping, Plans, Held, Truth, Bylines, Effects, Found, Halfway,
       Undisturbed, OwnTruth
  <1>1. LockDoes(o)
    BY <1>0, LockEffect
  <1>2. Foreground(o) /\ run[o] \notin Moving \cup {"done", "idle"}
    BY <1>1 DEF LockDoes, Moving
  <1>3. Bookkeeping'
    BY <1>0, LockBooks
  <1>4. move[o] = None
    BY <1>0, <1>2, NoMove
  <1>5. CopySigned(o)'
    BY <1>0, <1>1, <1>3 DEF LockDoes, OwnTruth, CopySigned, Signed
  <1>6. EffectOf(o)'
    BY <1>0, <1>1, <1>3, <1>4, Mine DEF LockDoes, Leaves, Stays, OwnTruth, PlanOf,
       EffectOf, Guarded, Uploads, Gated, Staging, Committing, Copying, Deleting,
       Moving, Modes
  <1>7. FoundOf(o)'
    BY <1>0, <1>1, <1>3, Mine DEF LockDoes, Leaves, Stays, OwnTruth, PlanOf, HeldOf,
       FoundOf, Guarded, Plain, Uploads, Gated, Staging, Committing, Copying,
       Deleting, Moving, Modes
  <1> QED
    BY <1>1, <1>2, <1>3, <1>5, <1>6, <1>7, QuietTruth DEF LockDoes

\* An interrupted upload keeps the truth.
LEMMA InterruptTruth ==
  ASSUME IInv, NEW o \in Ops, Interrupt(o), UNCHANGED probe
  PROVE  IInv'
  <1>0. Bookkeeping /\ TypeOK /\ OwnTruth(o) /\ PlanOf(o) /\ HeldOf(o)
    BY DEF IInv, Bookkeeping, Plans, Held, Truth, Bylines, Effects, Found, Halfway,
       Undisturbed, OwnTruth
  <1>1. InterruptDoes(o)
    BY <1>0, InterruptEffect
  <1>2. Foreground(o) /\ run[o] \notin Moving \cup {"done", "idle"}
    BY <1>1 DEF InterruptDoes, Moving
  <1>3. Bookkeeping'
    BY <1>0, InterruptBooks
  <1>4. move[o] = None
    BY <1>0, <1>2, NoMove
  <1>5. CopySigned(o)'
    BY <1>0, <1>1, <1>3, UploadedOwn DEF InterruptDoes, OwnTruth, CopySigned, Signed
  <1>6. EffectOf(o)'
    BY <1>0, <1>1, <1>3, <1>4 DEF InterruptDoes, Leaves, Stays, OwnTruth, PlanOf,
       EffectOf, Guarded, Uploads, Gated, Staging, Committing, Copying, Deleting,
       Moving
  <1>7. FoundOf(o)'
    BY <1>0, <1>1, <1>3 DEF InterruptDoes, Leaves, Stays, OwnTruth, PlanOf, HeldOf,
       FoundOf, Guarded, Plain, Uploads, Gated, Staging, Committing, Copying,
       Deleting, Moving
  <1> QED
    BY <1>1, <1>2, <1>3, <1>5, <1>6, <1>7, QuietTruth DEF InterruptDoes

\* Writing the transaction keeps the truth.
LEMMA WriteTransactionTruth ==
  ASSUME IInv, NEW o \in Ops, WriteTransaction(o), UNCHANGED probe
  PROVE  IInv'
  <1>0. Bookkeeping /\ TypeOK /\ OwnTruth(o) /\ PlanOf(o) /\ HeldOf(o)
    BY DEF IInv, Bookkeeping, Plans, Held, Truth, Bylines, Effects, Found, Halfway,
       Undisturbed, OwnTruth
  <1>1. WriteTransactionDoes(o)
    BY <1>0, WriteTransactionEffect
  <1>2. Foreground(o) /\ run[o] \notin Moving \cup {"done", "idle"}
    BY <1>1 DEF WriteTransactionDoes, Moving
  <1>3. Bookkeeping'
    BY <1>0, WriteTransactionBooks
  <1>4. move[o] = None
    BY <1>0, <1>2, NoMove
  <1>5. CopySigned(o)'
    BY <1>0, <1>1, <1>3, Mine, ObjectTags, TransactionFields DEF WriteTransactionDoes,
       OwnTruth, CopySigned, Signed, HeldOf, Staged
  <1>6. EffectOf(o)'
    BY <1>0, <1>1, <1>3, <1>4 DEF WriteTransactionDoes, Leaves, Stays, OwnTruth,
       PlanOf, EffectOf, Guarded, Uploads, Gated, Staging, Committing, Copying,
       Deleting, Moving
  <1>7. FoundOf(o)'
    BY <1>0, <1>1, <1>3, TransactionFields DEF WriteTransactionDoes, Leaves, Stays,
       OwnTruth, PlanOf, HeldOf, FoundOf, Guarded, Plain, Uploads, Gated, Staging,
       Committing, Copying, Deleting, Moving
  <1>8. upload'[o] # None /\ Plain(o) /\ o \notin stale => Explained(o)'
    <2>1. effect[o] = "no"
      BY <1>0, <1>1 DEF WriteTransactionDoes, OwnTruth, EffectOf, Moving, TypeOK,
         HistoryTyped
    <2> QED
      BY <1>0, <1>1, <2>1 DEF WriteTransactionDoes, OwnTruth, FoundOf, Explained
  <1>9. job = None
    BY <1>0, <1>1, AtWork DEF WriteTransactionDoes, Gated, Committing
  <1> QED
    BY <1>1, <1>2, <1>3, <1>5, <1>6, <1>7, <1>8, <1>9,
       UploadTruth DEF WriteTransactionDoes

\* Recording the backup keeps the truth.
LEMMA MarkBackupTruth ==
  ASSUME IInv, NEW o \in Ops, MarkBackup(o), UNCHANGED probe
  PROVE  IInv'
  <1>0. Bookkeeping /\ TypeOK /\ OwnTruth(o) /\ PlanOf(o) /\ HeldOf(o)
    BY DEF IInv, Bookkeeping, Plans, Held, Truth, Bylines, Effects, Found, Halfway,
       Undisturbed, OwnTruth
  <1>1. MarkBackupDoes(o)
    BY <1>0, MarkBackupEffect
  <1>2. Foreground(o) /\ run[o] \notin Moving \cup {"done", "idle"}
    BY <1>1 DEF MarkBackupDoes, Moving
  <1>3. Bookkeeping'
    BY <1>0, MarkBackupBooks
  <1>4. move[o] = None
    BY <1>0, <1>2, NoMove
  <1>5. CopySigned(o)'
    BY <1>0, <1>1, <1>3, TransactionFields DEF MarkBackupDoes, OwnTruth, CopySigned,
       Signed, HeldOf, Committing
  <1>6. EffectOf(o)'
    BY <1>0, <1>1, <1>3, <1>4 DEF MarkBackupDoes, Leaves, Stays, OwnTruth, PlanOf,
       EffectOf, Guarded, Uploads, Gated, Staging, Committing, Copying, Deleting,
       Moving
  <1>7. FoundOf(o)'
    BY <1>0, <1>1, <1>3 DEF MarkBackupDoes, Leaves, Stays, OwnTruth, PlanOf, HeldOf,
       FoundOf, Guarded, Plain, Uploads, Gated, Staging, Committing, Copying,
       Deleting, Moving
  <1>8. upload'[o] # None /\ Plain(o) /\ o \notin stale => Explained(o)'
    <2>1. upload[o] # None
      BY <1>0, <1>1 DEF MarkBackupDoes, HeldOf, Committing
    <2>2. Plain(o) /\ o \notin stale => Explained(o)
      BY <1>0, <2>1 DEF OwnTruth, UndisturbedOf
    <2> QED
      BY <1>1, <2>2 DEF MarkBackupDoes, Explained
  <1>9. job = None
    BY <1>0, <1>1, AtWork DEF MarkBackupDoes, Gated, Committing
  <1> QED
    BY <1>1, <1>2, <1>3, <1>5, <1>6, <1>7, <1>8, <1>9, UploadTruth DEF MarkBackupDoes

\* Announcing a conditional publication keeps the truth.
LEMMA MarkStartedTruth ==
  ASSUME IInv, NEW o \in Ops, MarkStarted(o), UNCHANGED probe
  PROVE  IInv'
  <1>0. Bookkeeping /\ TypeOK /\ OwnTruth(o) /\ PlanOf(o) /\ HeldOf(o)
    BY DEF IInv, Bookkeeping, Plans, Held, Truth, Bylines, Effects, Found, Halfway,
       Undisturbed, OwnTruth
  <1>1. MarkStartedDoes(o)
    BY <1>0, MarkStartedEffect
  <1>2. Foreground(o) /\ run[o] \notin Moving \cup {"done", "idle"}
    BY <1>1 DEF MarkStartedDoes, Moving
  <1>3. Bookkeeping'
    BY <1>0, MarkStartedBooks
  <1>4. move[o] = None
    BY <1>0, <1>2, NoMove
  <1>5. CopySigned(o)'
    BY <1>0, <1>1, <1>3, TransactionFields DEF MarkStartedDoes, OwnTruth, CopySigned,
       Signed, HeldOf, Committing
  <1>6. EffectOf(o)'
    BY <1>0, <1>1, <1>3, <1>4 DEF MarkStartedDoes, Leaves, Stays, OwnTruth, PlanOf,
       EffectOf, Guarded, Uploads, Gated, Staging, Committing, Copying, Deleting,
       Moving
  <1>7. FoundOf(o)'
    BY <1>0, <1>1, <1>3 DEF MarkStartedDoes, Leaves, Stays, OwnTruth, PlanOf, HeldOf,
       FoundOf, Guarded, Plain, Uploads, Gated, Staging, Committing, Copying,
       Deleting, Moving
  <1>8. upload'[o] # None /\ Plain(o) /\ o \notin stale => Explained(o)'
    <2>1. upload[o] # None
      BY <1>0, <1>1 DEF MarkStartedDoes, HeldOf, Committing
    <2>2. Plain(o) /\ o \notin stale => Explained(o)
      BY <1>0, <2>1 DEF OwnTruth, UndisturbedOf
    <2> QED
      BY <1>1, <2>2 DEF MarkStartedDoes, Explained
  <1>9. job = None
    BY <1>0, <1>1, AtWork DEF MarkStartedDoes, Gated, Committing
  <1> QED
    BY <1>1, <1>2, <1>3, <1>5, <1>6, <1>7, <1>8, <1>9, UploadTruth DEF MarkStartedDoes

\* Recording a refused publication keeps the truth.
LEMMA MarkRejectedTruth ==
  ASSUME IInv, NEW o \in Ops, MarkRejected(o), UNCHANGED probe
  PROVE  IInv'
  <1>0. Bookkeeping /\ TypeOK /\ OwnTruth(o) /\ PlanOf(o) /\ HeldOf(o)
    BY DEF IInv, Bookkeeping, Plans, Held, Truth, Bylines, Effects, Found, Halfway,
       Undisturbed, OwnTruth
  <1>1. MarkRejectedDoes(o)
    BY <1>0, MarkRejectedEffect
  <1>2. Foreground(o) /\ run[o] \notin Moving \cup {"done", "idle"}
    BY <1>1 DEF MarkRejectedDoes, Moving
  <1>3. Bookkeeping'
    BY <1>0, MarkRejectedBooks
  <1>4. move[o] = None
    BY <1>0, <1>2, NoMove
  <1>5. CopySigned(o)'
    BY <1>0, <1>1, <1>3, TransactionFields DEF MarkRejectedDoes, OwnTruth, CopySigned,
       Signed, HeldOf, Committing
  <1>6. EffectOf(o)'
    BY <1>0, <1>1, <1>3, <1>4 DEF MarkRejectedDoes, Leaves, Stays, OwnTruth, PlanOf,
       EffectOf, Guarded, Uploads, Gated, Staging, Committing, Copying, Deleting,
       Moving
  <1>7. FoundOf(o)'
    BY <1>0, <1>1, <1>3 DEF MarkRejectedDoes, Leaves, Stays, OwnTruth, PlanOf, HeldOf,
       FoundOf, Guarded, Plain, Uploads, Gated, Staging, Committing, Copying,
       Deleting, Moving
  <1>8. upload'[o] # None /\ Plain(o) /\ o \notin stale => Explained(o)'
    <2>1. upload[o] # None
      BY <1>0, <1>1 DEF MarkRejectedDoes, HeldOf, Committing
    <2>2. Plain(o) /\ o \notin stale => Explained(o)
      BY <1>0, <2>1 DEF OwnTruth, UndisturbedOf
    <2> QED
      BY <1>1, <2>2 DEF MarkRejectedDoes, Explained
  <1>9. job = None
    BY <1>0, <1>1, AtWork DEF MarkRejectedDoes, Gated, Committing
  <1> QED
    BY <1>1, <1>2, <1>3, <1>5, <1>6, <1>7, <1>8, <1>9, UploadTruth DEF MarkRejectedDoes

\* Recording the restored ETag keeps the truth.
LEMMA RemarkTruth ==
  ASSUME IInv, NEW o \in Ops, Remark(o), UNCHANGED probe
  PROVE  IInv'
  <1>0. Bookkeeping /\ TypeOK /\ OwnTruth(o) /\ PlanOf(o) /\ HeldOf(o)
    BY DEF IInv, Bookkeeping, Plans, Held, Truth, Bylines, Effects, Found, Halfway,
       Undisturbed, OwnTruth
  <1>1. RemarkDoes(o)
    BY <1>0, RemarkEffect
  <1>2. Foreground(o) /\ run[o] \notin Moving \cup {"done", "idle"}
    BY <1>1 DEF RemarkDoes, Moving
  <1>3. Bookkeeping'
    BY <1>0, RemarkBooks
  <1>4. move[o] = None
    BY <1>0, <1>2, NoMove
  <1>5. CopySigned(o)'
    BY <1>0, <1>1, <1>3, TransactionFields DEF RemarkDoes, OwnTruth, CopySigned,
       Signed, HeldOf, Committing
  <1>6. EffectOf(o)'
    BY <1>0, <1>1, <1>3, <1>4 DEF RemarkDoes, Leaves, Stays, OwnTruth, PlanOf,
       EffectOf, Guarded, Uploads, Gated, Staging, Committing, Copying, Deleting,
       Moving
  <1>7. FoundOf(o)'
    BY <1>0, <1>1, <1>3 DEF RemarkDoes, Leaves, Stays, OwnTruth, PlanOf, HeldOf,
       FoundOf, Guarded, Plain, Uploads, Gated, Staging, Committing, Copying,
       Deleting, Moving
  <1>8. upload'[o] # None /\ Plain(o) /\ o \notin stale => Explained(o)'
    <2>1. upload[o] # None
      BY <1>0, <1>1 DEF RemarkDoes, HeldOf, Committing
    <2>2. Plain(o) /\ o \notin stale => Explained(o)
      BY <1>0, <2>1 DEF OwnTruth, UndisturbedOf
    <2>3. CASE upload'[o].previous = upload[o].previous
      BY <1>1, <2>2, <2>3 DEF RemarkDoes, Explained
    <2>4. CASE upload'[o].previous = TagOf(file[plan[o].to])
      BY <1>1, <2>4 DEF RemarkDoes, Explained
    <2> QED
      BY <1>1, <2>3, <2>4 DEF RemarkDoes
  <1>9. job = None
    BY <1>0, <1>1, AtWork DEF RemarkDoes, Gated, Committing
  <1> QED
    BY <1>1, <1>2, <1>3, <1>5, <1>6, <1>7, <1>8, <1>9, UploadTruth DEF RemarkDoes

\* Discarding what an upload held keeps the truth.
LEMMA CleanTruth ==
  ASSUME IInv, NEW o \in Ops, Clean(o), UNCHANGED probe
  PROVE  IInv'
  <1>0. Bookkeeping /\ TypeOK /\ OwnTruth(o) /\ PlanOf(o) /\ HeldOf(o)
    BY DEF IInv, Bookkeeping, Plans, Held, Truth, Bylines, Effects, Found, Halfway,
       Undisturbed, OwnTruth
  <1>1. CleanDoes(o)
    BY <1>0, CleanEffect
  <1>2. Foreground(o) /\ run[o] \notin Moving \cup {"done", "idle"}
    BY <1>1 DEF CleanDoes, Moving
  <1>3. Bookkeeping'
    BY <1>0, CleanBooks
  <1>4. move[o] = None
    BY <1>0, <1>2, NoMove
  <1>5. CopySigned(o)'
    BY <1>0, <1>1, <1>3, <1>1 DEF CleanDoes, OwnTruth, CopySigned, Signed, Discards
  <1>6. EffectOf(o)'
    BY <1>0, <1>1, <1>3, <1>4 DEF CleanDoes, Leaves, Stays, OwnTruth, PlanOf,
       EffectOf, Guarded, Uploads, Gated, Staging, Committing, Copying, Deleting,
       Moving
  <1>7. FoundOf(o)'
    BY <1>0, <1>1, <1>3, <1>1 DEF CleanDoes, Leaves, Stays, OwnTruth, PlanOf, HeldOf,
       FoundOf, Guarded, Plain, Uploads, Gated, Staging, Committing, Copying,
       Deleting, Moving, Discards
  <1>8. upload'[o] # None /\ Plain(o) /\ o \notin stale => Explained(o)'
    BY <1>0, <1>1, <1>3, <1>1 DEF CleanDoes, OwnTruth, FoundOf, EffectOf,
       UndisturbedOf, Explained, Plain, Guarded, Discards
  <1>9. job = None
    BY <1>0, <1>1, AtWork DEF CleanDoes, Gated, Committing
  <1> QED
    BY <1>1, <1>2, <1>3, <1>5, <1>6, <1>7, <1>8, <1>9, UploadTruth DEF CleanDoes

\* The start of an operation keeps the truth.
LEMMA StartTruth ==
  ASSUME IInv, NEW o \in Ops, Start(o), UNCHANGED probe
  PROVE  IInv'
  <1>0. Bookkeeping /\ TypeOK /\ OwnTruth(o) /\ PlanOf(o) /\ HeldOf(o)
    BY DEF IInv, Bookkeeping, Plans, Held, Truth, Bylines, Effects, Found, Halfway,
       Undisturbed, OwnTruth
  <1>1. StartDoes(o)
    BY <1>0, StartEffect
  <1>2. Bookkeeping'
    BY <1>0, StartBooks
  <1>3. plan[o] = None /\ Bare(o) /\ move[o] = None /\ effect[o] = "no" /\ answer[o] = "none"
    BY <1>0, <1>1 DEF StartDoes, PlanOf, HeldOf, OwnTruth, EffectOf, Moving
  <1>4. Filing(o) /\ Lasting(o)
    BY <1>1, <1>3 DEF StartDoes, Filing, Unfiled, Lasting, Published
  <1>5. CopySigned(o)' /\ HalfwayOf(o)' /\ UndisturbedOf(o)'
    BY <1>1, <1>3 DEF StartDoes, Bare, CopySigned, HalfwayOf, UndisturbedOf
  <1>6. EffectOf(o)'
    BY <1>1, <1>3 DEF StartDoes, EffectOf
  <1>7. FoundOf(o)'
    BY <1>1, <1>3 DEF StartDoes, Bare, FoundOf
  <1> QED
    BY <1>1, <1>2, <1>4, <1>5, <1>6, <1>7, ForegroundTruth DEF StartDoes, OwnTruth

\* The publishing copy keeps the truth.
LEMMA PublishTruth ==
  ASSUME IInv, NEW o \in Ops, Publish(o), UNCHANGED probe
  PROVE  IInv'
  <1>0. Bookkeeping /\ TypeOK /\ OwnTruth(o) /\ PlanOf(o) /\ HeldOf(o)
    BY DEF IInv, Bookkeeping, Plans, Held, Truth, Bylines, Effects, Found, Halfway,
       Undisturbed, OwnTruth
  <1>1. PublishDoes(o)
    BY <1>0, PublishEffect
  <1>2. Bookkeeping' /\ job = None
    BY <1>0, <1>1, PublishBooks, AtWork DEF PublishDoes, Gated, Committing
  <1>3. /\ plan[o] # None /\ plan[o].mode \in Uploads /\ plan[o].to \in Files
        /\ staged[o] \in Objects /\ upload[o] # None /\ move[o] = None /\ effect[o] = "no"
        /\ staged[o].by = o /\ staged[o].mark = o /\ gate = o
    BY <1>0, <1>1, Mine, AtWork, NoMove
       DEF PublishDoes, PlanOf, HeldOf, OwnTruth, EffectOf, CopySigned, Gated,
          Committing, Moving, TypeOK, HistoryTyped
  <1>4. CASE /\ run'[o] = "confirm" /\ effect'[o] = "yes"
             /\ \E keep \in BOOLEAN : Writes(o, plan[o].to, Copied(staged[o], keep))
    <2>1. PICK keep \in BOOLEAN : Writes(o, plan[o].to, Copied(staged[o], keep))
      BY <1>4
    <2>2. /\ Copied(staged[o], keep) \in Objects /\ Copied(staged[o], keep) # None
          /\ Copied(staged[o], keep).by = o /\ Copied(staged[o], keep).mark = o
      BY <1>3, Copies
    <2>3. file'[plan[o].to] = Copied(staged[o], keep)
      BY <1>0, <1>3, <2>1 DEF Writes, TypeOK, StoreTyped
    <2>4. Published(o)'
      BY <1>1, <1>3, <1>4 DEF PublishDoes, Published
    <2>5. Filing(o)
      BY <1>3, <2>1, <2>2, <2>4 DEF Filing, Signed
    <2>6. Lasting(o)
      BY <1>1, <1>4 DEF PublishDoes, Lasting
    <2>7. CopySigned(o)' /\ HalfwayOf(o)'
      BY <1>0, <1>1, <1>3 DEF PublishDoes, OwnTruth, CopySigned, Signed, HalfwayOf
    <2>8. EffectOf(o)'
      BY <1>0, <1>1, <1>3, <1>4, <2>2, <2>3 DEF PublishDoes, OwnTruth, EffectOf, Uploads
    <2>9. FoundOf(o)'
      BY <1>0, <1>1, <1>4 DEF PublishDoes, OwnTruth, FoundOf, Guarded, Plain
    <2>10. UndisturbedOf(o)'
      BY <1>1, <1>3, <2>2, <2>3 DEF PublishDoes, UndisturbedOf, Explained
    <2> QED
      BY <1>1, <1>2, <2>5, <2>6, <2>7, <2>8, <2>9, <2>10,
         ForegroundTruth DEF PublishDoes, OwnTruth
  <1>5. CASE /\ run'[o] = "confirm" \/ (run'[o] = "rejected" /\ Guarded(o))
             /\ effect'[o] = effect[o] /\ Unfiled
    <2>1. Filing(o) /\ Lasting(o)
      BY <1>1, <1>5 DEF PublishDoes, Filing, Lasting, Published
    <2>2. CopySigned(o)' /\ HalfwayOf(o)'
      BY <1>0, <1>1, <1>3 DEF PublishDoes, OwnTruth, CopySigned, Signed, HalfwayOf
    <2>3. EffectOf(o)'
      BY <1>0, <1>1, <1>3, <1>5 DEF PublishDoes, OwnTruth, EffectOf
    <2>4. FoundOf(o)'
      BY <1>0, <1>1, <1>5 DEF PublishDoes, Unfiled, OwnTruth, FoundOf, Guarded, Plain
    <2>5. UndisturbedOf(o)'
      BY <1>0, <1>1, <1>3, <1>5 DEF PublishDoes, Unfiled, OwnTruth, UndisturbedOf,
         Explained, Plain
    <2> QED
      BY <1>1, <1>2, <2>1, <2>2, <2>3, <2>4, <2>5, ForegroundTruth DEF PublishDoes,
         OwnTruth
  <1> QED
    BY <1>1, <1>4, <1>5 DEF PublishDoes

\* What is restored is what the upload found, another operation's body (Restore).
LEMMA RestoreTruth ==
  ASSUME IInv, NEW o \in Ops, Restore(o), UNCHANGED probe
  PROVE  IInv'
  <1>0. Bookkeeping /\ TypeOK /\ OwnTruth(o) /\ PlanOf(o) /\ HeldOf(o)
    BY DEF IInv, Bookkeeping, Plans, Held, Truth, Bylines, Effects, Found, Halfway,
       Undisturbed, OwnTruth
  <1>1. RestoreDoes(o)
    BY <1>0, RestoreEffect
  <1>2. Bookkeeping' /\ job = None
    BY <1>0, <1>1, RestoreBooks, AtWork DEF RestoreDoes, Gated, Committing
  <1>3. /\ plan[o] # None /\ plan[o].to \in Files /\ Plain(o) /\ ~ Guarded(o)
        /\ backup[o] \in Objects /\ upload[o] # None /\ move[o] = None /\ effect[o] = "no" /\ gate = o
    BY <1>0, <1>1, Mine, AtWork, NoMove
       DEF RestoreDoes, PlanOf, HeldOf, OwnTruth, EffectOf, FoundOf, Guarded, Plain,
          Uploads, Gated, Committing,
           Moving, TypeOK, HistoryTyped
  <1>4. /\ TagOf(file[plan[o].to]) = known[o] /\ upload[o].previous = known[o] /\ known[o] # None
        /\ backup[o].by = known[o][1] /\ (ETag(backup[o]) = known[o] \/ backup[o].gen # 0)
    BY <1>0, <1>1, <1>3, ConstantsAssumption DEF RestoreDoes, OwnTruth, FoundOf
  <1>5. /\ file[plan[o].to] \in Objects /\ file[plan[o].to].by = backup[o].by
        /\ FileSigned(plan[o].to) /\ Signed(backup[o])
    BY <1>0, <1>3, <1>4, Mine, Tags, ObjectTags, ConstantsAssumption DEF OwnTruth,
       CopySigned, IInv, Truth, Bylines
  <1>6. backup[o].by \in Ops => backup[o].by # o /\ Published(backup[o].by)
    BY <1>3, <1>5, ObjectTags DEF FileSigned, Published
  <1>7. CopySigned(o)' /\ HalfwayOf(o)' /\ Lasting(o)
    BY <1>0, <1>1, <1>3 DEF RestoreDoes, OwnTruth, CopySigned, Signed, HalfwayOf,
       Lasting, Published
  <1>8. EffectOf(o)'
    BY <1>0, <1>1, <1>3 DEF RestoreDoes, Leaves, Stays, OwnTruth, EffectOf
  <1>9. FoundOf(o)'
    BY <1>0, <1>1, <1>3 DEF RestoreDoes, Leaves, OwnTruth, FoundOf, Guarded, Plain
  <1>10. CASE Unfiled
    <2>1. Filing(o)
      BY <1>10 DEF Filing
    <2>2. UndisturbedOf(o)'
      BY <1>0, <1>1, <1>3, <1>10 DEF RestoreDoes, Unfiled, OwnTruth, UndisturbedOf,
         Explained, Plain
    <2> QED
      BY <1>1, <1>2, <1>7, <1>8, <1>9, <2>1, <2>2, ForegroundTruth DEF RestoreDoes,
         OwnTruth
  <1>11. ASSUME NEW keep \in BOOLEAN, Writes(o, plan[o].to, Copied(backup[o], keep))
         PROVE  IInv'
    <2>0. PICK x \in Objects : x = Copied(backup[o], keep)
      BY <1>3, Copies
    <2>1. /\ x # None /\ Signed(x) /\ x.by = backup[o].by
          /\ ETag(x) = known[o] \/ x.gen # 0
      BY <1>3, <1>4, <1>5, <2>0, Copies DEF Signed
    <2>2. file'[plan[o].to] = x
      BY <1>0, <1>3, <1>11, <2>0 DEF Writes, TypeOK, StoreTyped
    <2>3. x.by \in Ops => Published(x.by)'
      <3>1. \A q \in Ops : Published(q) => Published(q)'
        BY <1>1 DEF RestoreDoes, Published
      <3>2. ASSUME NEW q \in Ops, q = x.by
            PROVE  Published(q)'
        BY <1>6, <2>1, <3>1, <3>2
      <3> QED
        BY <3>2
    <2>4. Filing(o)
      BY <1>3, <1>11, <2>0, <2>1, <2>3 DEF Filing
    <2>5. TagOf(x) = upload[o].previous \/ x.gen # 0
      BY <1>4, <2>1 DEF TagOf
    <2>6. UndisturbedOf(o)'
      BY <1>1, <1>3, <2>1, <2>2, <2>5 DEF RestoreDoes, UndisturbedOf, Explained
    <2> QED
      BY <1>1, <1>2, <1>7, <1>8, <1>9, <2>4, <2>6, ForegroundTruth DEF RestoreDoes,
         OwnTruth
  <1> QED
    BY <1>1, <1>10, <1>11 DEF RestoreDoes

\* A copied object is as signed as its source, whoever copies it (copy_key).
LEMMA CopiedFiling ==
  ASSUME IInv, NEW o \in Ops, NEW p \in Files, NEW q \in Files, NEW keep \in BOOLEAN,
         file[p] # None, Writes(o, q, Copied(file[p], keep)), UNCHANGED plan,
         gate \in {o, Rec} \/ phase # "up",
         \A r \in Ops : Published(r) => effect'[r] = "yes"
  PROVE  Filing(o)
  <1>1. file[p] \in Objects /\ FileSigned(p)
    BY DEF IInv, Bookkeeping, TypeOK, StoreTyped, Truth, Bylines
  <1>2. PICK x \in Objects : x = Copied(file[p], keep)
    BY <1>1, Copies
  <1>3. Signed(x) /\ x.by = file[p].by
    BY <1>1, <1>2, Copies DEF FileSigned, Signed
  <1>4. ASSUME NEW r \in Ops, r = x.by
        PROVE  Published(r)'
    BY <1>1, <1>3, <1>4 DEF FileSigned, Published
  <1> QED
    BY <1>2, <1>3, <1>4 DEF Filing

\* The copy of a file keeps the truth.
LEMMA CopyFileTruth ==
  ASSUME IInv, NEW o \in Ops, CopyFile(o), UNCHANGED probe
  PROVE  IInv'
  <1>0. Bookkeeping /\ TypeOK /\ OwnTruth(o) /\ PlanOf(o) /\ HeldOf(o)
    BY DEF IInv, Bookkeeping, Plans, Held, Truth, Bylines, Effects, Found, Halfway,
       Undisturbed, OwnTruth
  <1>1. CopyFileDoes(o)
    BY <1>0, CopyFileEffect
  <1>2. Bookkeeping' /\ job = None
    BY <1>0, <1>1, CopyFileBooks, AtWork DEF CopyFileDoes, Gated, Copying
  <1>3. /\ plan[o] # None /\ plan[o].mode = "copy" /\ plan[o].from \in Files /\ plan[o].to \in Files
        /\ Bare(o) /\ move[o] = None /\ effect[o] = "no" /\ gate = o
    BY <1>0, <1>1, Mine, AtWork, NoMove
       DEF CopyFileDoes, PlanOf, HeldOf, OwnTruth, EffectOf, Uploads, Gated, Copying,
          Moving, TypeOK, HistoryTyped
  <1>4. CopySigned(o)' /\ HalfwayOf(o)' /\ UndisturbedOf(o)' /\ Lasting(o)
    BY <1>1, <1>3 DEF CopyFileDoes, Bare, CopySigned, HalfwayOf, UndisturbedOf,
       Lasting, Published, Uploads
  <1>5. EffectOf(o)'
    BY <1>0, <1>1, <1>3 DEF CopyFileDoes, Leaves, Stays, OwnTruth, EffectOf
  <1>6. FoundOf(o)'
    BY <1>0, <1>1, <1>3 DEF CopyFileDoes, Leaves, OwnTruth, FoundOf, Guarded, Plain
  <1>7. CASE Unfiled
    <2>1. Filing(o)
      BY <1>7 DEF Filing
    <2> QED
      BY <1>1, <1>2, <1>4, <1>5, <1>6, <2>1, ForegroundTruth DEF CopyFileDoes, OwnTruth
  <1>8. ASSUME NEW keep \in BOOLEAN, file[plan[o].from] # None,
               Writes(o, plan[o].to, Copied(file[plan[o].from], keep))
        PROVE  IInv'
    <2>1. \A r \in Ops : Published(r) => effect'[r] = "yes"
      <3>1. Carries(o, o)
        BY <1>1, OpsAssumption DEF CopyFileDoes, Foreground, Carries
      <3>2. \A r \in Ops \ {o} : effect'[r] = effect[r]
        BY <1>0, <3>1, Elsewhere
      <3> QED
        BY <1>3, <3>2 DEF Published, Uploads
    <2>2. Filing(o)
      BY <1>1, <1>3, <1>8, <2>1, CopiedFiling DEF CopyFileDoes
    <2> QED
      BY <1>1, <1>2, <1>4, <1>5, <1>6, <2>2, ForegroundTruth DEF CopyFileDoes, OwnTruth
  <1> QED
    BY <1>1, <1>7, <1>8 DEF CopyFileDoes

\* The deletion of a file keeps the truth.
LEMMA DeleteFileTruth ==
  ASSUME IInv, NEW o \in Ops, DeleteFile(o), UNCHANGED probe
  PROVE  IInv'
  <1>0. Bookkeeping /\ TypeOK /\ OwnTruth(o) /\ PlanOf(o) /\ HeldOf(o)
    BY DEF IInv, Bookkeeping, Plans, Held, Truth, Bylines, Effects, Found, Halfway,
       Undisturbed, OwnTruth
  <1>1. DeleteFileDoes(o)
    BY <1>0, DeleteFileEffect
  <1>2. Bookkeeping' /\ job = None
    BY <1>0, <1>1, DeleteFileBooks, AtWork DEF DeleteFileDoes, Gated, Deleting
  <1>3. /\ plan[o] # None /\ plan[o].mode = "delete" /\ plan[o].from \in Files
        /\ Bare(o) /\ move[o] = None /\ effect[o] = "no" /\ gate = o
    BY <1>0, <1>1, Mine, AtWork, NoMove
       DEF DeleteFileDoes, PlanOf, HeldOf, OwnTruth, EffectOf, Uploads, Gated,
          Deleting, Moving, TypeOK, HistoryTyped
  <1>4. CopySigned(o)' /\ HalfwayOf(o)' /\ UndisturbedOf(o)' /\ Lasting(o)
    BY <1>1, <1>3 DEF DeleteFileDoes, Bare, CopySigned, HalfwayOf, UndisturbedOf,
       Lasting, Published, Uploads
  <1>5. FoundOf(o)'
    BY <1>0, <1>1, <1>3 DEF DeleteFileDoes, Leaves, OwnTruth, FoundOf, Guarded, Plain
  <1>6. Filing(o)
    BY <1>1, <1>3 DEF DeleteFileDoes, Filing
  <1>7. EffectOf(o)'
    <2>1. CASE Unfiled /\ effect'[o] = effect[o]
      BY <1>0, <1>1, <1>3, <2>1 DEF DeleteFileDoes, Unfiled, Leaves, Stays, OwnTruth,
         EffectOf
    <2>2. CASE Writes(o, plan[o].from, None) /\ run'[o] = "deleted" /\ Stays(o) /\ effect'[o] = "yes"
      <3>1. file'[plan[o].from] = None
        BY <1>0, <1>3, <2>2 DEF Writes, TypeOK, StoreTyped
      <3> QED
        BY <1>0, <1>1, <1>3, <2>2, <3>1 DEF DeleteFileDoes, Stays, OwnTruth, EffectOf
    <2> QED
      BY <1>1, <2>1, <2>2 DEF DeleteFileDoes
  <1> QED
    BY <1>1, <1>2, <1>4, <1>5, <1>6, <1>7, ForegroundTruth DEF DeleteFileDoes, OwnTruth

\* Writing the journal of a move keeps the truth.
LEMMA BeginMoveTruth ==
  ASSUME IInv, NEW o \in Ops, BeginMove(o), UNCHANGED probe
  PROVE  IInv'
  <1>0. Bookkeeping /\ TypeOK /\ OwnTruth(o) /\ PlanOf(o) /\ HeldOf(o)
    BY DEF IInv, Bookkeeping, Plans, Held, Truth, Bylines, Effects, Found, Halfway,
       Undisturbed, OwnTruth
  <1>1. BeginMoveDoes(o)
    BY <1>0, BeginMoveEffect
  <1>2. Bookkeeping' /\ job = None /\ run'[Rec] = run[Rec] /\ run[Rec] \notin Moving
    BY <1>0, <1>1, BeginMoveBooks, AtWork, OpsAssumption
       DEF BeginMoveDoes, Foreground, Only, Gated, TypeOK, LocationsTyped
  <1>3. /\ plan[o] # None /\ plan[o].mode = "move" /\ plan[o].from \in Files /\ plan[o].to \in Files
        /\ Bare(o) /\ move[o] = None /\ effect[o] = "no" /\ answer[o] = "none"
    BY <1>0, <1>1, Mine, NoMove
       DEF BeginMoveDoes, PlanOf, HeldOf, OwnTruth, EffectOf, Uploads, Moving, TypeOK,
          HistoryTyped
  <1>4. CopySigned(o)' /\ Lasting(o) /\ Filing(o)
    BY <1>1, <1>3 DEF BeginMoveDoes, Bare, CopySigned, Lasting, Published, Filing,
       Unfiled
  <1>5. FoundOf(o)'
    BY <1>0, <1>1, <1>3 DEF BeginMoveDoes, Leaves, OwnTruth, FoundOf, Guarded, Plain
  <1>6. EffectOf(o)'
    BY <1>0, <1>1, <1>3 DEF BeginMoveDoes, Leaves, Stays, OwnTruth, EffectOf
  <1>7. move'[o] # None => /\ move'[o].stage = "prepared" /\ file[plan[o].to] = None
                           /\ Matches(file[plan[o].from], move'[o].src)
                           /\ run'[o] \in {"mv_copy", "done"}
    BY <1>1, <1>3 DEF BeginMoveDoes, Matches, Leaves
  <1>8. HalfwayOf(o)'
    BY <1>1, <1>2, <1>3, <1>7 DEF BeginMoveDoes, HalfwayOf, Runs, Moving
  <1>9. UndisturbedOf(o)'
    BY <1>1, <1>2, <1>3, <1>7 DEF BeginMoveDoes, Bare, UndisturbedOf, MoveExplained,
       Runs, Moving
  <1> QED
    BY <1>1, <1>2, <1>4, <1>5, <1>6, <1>8, <1>9, ForegroundTruth DEF BeginMoveDoes,
       OwnTruth

\* What is known of a move whoever carries it on, the operation or recovery.
MovesOn(a, o) == /\ a = Rec => job # None /\ job[2] = o
                /\ run[a] \in Moving

\* What is known of a move that is carried on.
LEMMA Mover ==
  ASSUME IInv, NEW o \in Ops, NEW a \in {Rec, o}, Carries(a, o), MovesOn(a, o)
  PROVE  /\ plan[o] # None /\ plan[o].mode = "move" /\ plan[o].from \in Files /\ plan[o].to \in Files
         /\ plan[o].from # plan[o].to /\ Bare(o) /\ move[o] \in Moves /\ move[o] # None
         /\ file[plan[o].from] \in Objects \cup {None} /\ file[plan[o].to] \in Objects \cup {None}
         /\ gate \in {o, Rec} \/ phase # "up"
         /\ run[o] = IF a = Rec THEN "done" ELSE run[a]
         /\ \A pc \in Moving : Runs(o, pc) <=> run[a] = pc
         /\ answer[o] # "failed" /\ (run[o] # "done" => answer[o] = "none")
  <1>0. Bookkeeping /\ TypeOK /\ PlanOf(o) /\ HeldOf(o) /\ EffectOf(o)
    BY DEF IInv, Bookkeeping, Plans, Held, Truth, Effects
  <1>1. CASE a = o
    <2>1. a # Rec /\ job = None /\ run[Rec] \notin Moving /\ gate = o
      BY <1>0, <1>1, AtWork, OpsAssumption DEF MovesOn, Gated
    <2>2. plan[o] # None /\ plan[o].mode = "move" /\ move[o] # None
      BY <1>0, <1>1 DEF MovesOn, PlanOf, HeldOf, Moving
    <2> QED
      BY <1>0, <1>1, <2>1, <2>2, Mine DEF MovesOn, PlanOf, HeldOf, EffectOf, Uploads,
         Runs, Moving
  <1>2. CASE a = Rec
    <2>1. /\ job # None /\ job[2] = o /\ run[o] \in {"idle", "done", "lock"} /\ move[o] # None
          /\ gate = IF phase = "up" THEN Rec ELSE None
      BY <1>0, <1>2, AtWork DEF MovesOn, Bookkeeping, Worked
    <2>2. plan[o] # None /\ plan[o].mode = "move" /\ run[o] = "done"
      BY <1>0, <2>1 DEF PlanOf, HeldOf
    <2> QED
      BY <1>0, <1>2, <2>1, <2>2, Mine DEF MovesOn, PlanOf, HeldOf, EffectOf, Uploads,
         Runs, Moving
  <1> QED
    BY <1>1, <1>2

\* Where a move is after a step of its executor.
LEMMA MoverNext ==
  ASSUME IInv, NEW o \in Ops, NEW a \in {Rec, o}, Carries(a, o), MovesOn(a, o)
  PROVE  /\ Halts(a, o) \/ (a = o /\ Leaves(o, "committed") /\ UNCHANGED job) =>
               /\ run'[o] = "done" /\ answer'[o] # "failed" /\ \A pc \in Moving : ~ Runs(o, pc)'
         /\ \A pc \in Moving : Goes(a, pc) =>
               /\ run'[o] = IF a = Rec THEN "done" ELSE pc
               /\ answer'[o] # "failed" /\ (run'[o] # "done" => answer'[o] = "none")
               /\ \A at \in Moving : Runs(o, at)' <=> at = pc
  <1>0. TypeOK /\ run[o] = IF a = Rec THEN "done" ELSE run[a]
    BY Mover DEF IInv, Bookkeeping
  <1>1. answer[o] # "failed" /\ (run[o] # "done" => answer[o] = "none")
    BY Mover
  <1>2. CASE a = o
    <2>1. a # Rec /\ run'[Rec] = run[Rec] /\ run[Rec] \notin Moving
      BY <1>0, <1>2, AtWork, OpsAssumption DEF Carries, Only, MovesOn, Gated, IInv,
         TypeOK, LocationsTyped
    <2>2. \A pc \in Moving : run'[Rec] # pc
      BY <2>1
    <2>3. Halts(a, o) \/ (a = o /\ Leaves(o, "committed") /\ UNCHANGED job) =>
               run'[o] = "done" /\ answer'[o] # "failed"
      BY <2>1 DEF Halts, Leaves
    <2>4. ASSUME NEW pc \in Moving, Goes(a, pc)
          PROVE  run'[o] = pc /\ answer'[o] = "none"
      BY <1>0, <1>1, <1>2, <2>4 DEF Goes, Moving, MovesOn
    <2> QED
      BY <1>2, <2>1, <2>2, <2>3, <2>4 DEF Runs, Moving
  <1>3. CASE a = Rec
    <2>1. run'[o] = "done" /\ job[2] = o
      BY <1>0, <1>3, OpsAssumption DEF Carries, Only, MovesOn, TypeOK, LocationsTyped
    <2> QED
      BY <1>0, <1>1, <1>3, <2>1, OpsAssumption DEF Halts, Ended, Goes, Runs, Moving
  <1> QED
    BY <1>2, <1>3

\* A move's operation has published nothing and holds no private object.
LEMMA MovesOnly ==
  ASSUME IInv, NEW o \in Ops, NEW a \in {Rec, o}, Carries(a, o), MovesOn(a, o),
         UNCHANGED <<staged, backup, upload, plan>>,
         run'[o] \in Moving \cup {"done"}
  PROVE  CopySigned(o)' /\ FoundOf(o)' /\ Lasting(o) /\ upload'[o] = None
  <1>1. plan[o] # None /\ plan[o].mode = "move" /\ Bare(o)
    BY Mover
  <1> QED
    BY <1>1 DEF Bare, CopySigned, FoundOf, Lasting, Published, Plain, Guarded,
       Uploads, Moving

\* A move that lost an answer keeps the truth about itself.
LEMMA MoveLostOwn ==
  ASSUME IInv, NEW o \in Ops, NEW a \in {Rec, o}, MoveLostDoes(a, o), MovesOn(a, o)
  PROVE  OwnTruth(o)' /\ Filing(o) /\ Lasting(o)
  <1>0. OwnTruth(o) /\ Carries(a, o)
    BY DEF IInv, Truth, Bylines, Effects, Found, Halfway, Undisturbed, OwnTruth,
       MoveLostDoes
  <1>1. /\ plan[o] # None /\ plan[o].mode = "move"
        /\ run'[o] = "done" /\ answer'[o] # "failed" /\ \A pc \in Moving : ~ Runs(o, pc)'
    BY <1>0, Mover, MoverNext DEF MoveLostDoes
  <1>2. CopySigned(o)' /\ FoundOf(o)' /\ Lasting(o) /\ upload'[o] = None
    BY <1>0, <1>1, MovesOnly DEF MoveLostDoes
  <1>3. EffectOf(o)'
    BY <1>0, <1>1 DEF MoveLostDoes, OwnTruth, EffectOf, Guarded
  <1>4. HalfwayOf(o)'
    BY <1>0, <1>1 DEF MoveLostDoes, OwnTruth, HalfwayOf, Moving
  <1>5. UndisturbedOf(o)'
    BY <1>0, <1>1, <1>2 DEF MoveLostDoes, OwnTruth, UndisturbedOf, MoveExplained, Moving
  <1> QED
    BY <1>2, <1>3, <1>4, <1>5 DEF OwnTruth, Filing, Unfiled, MoveLostDoes

\* Retiring the journal of a move keeps the truth about it.
LEMMA MoveEndOwn ==
  ASSUME IInv, NEW o \in Ops, NEW a \in {Rec, o}, MoveEndDoes(a, o), MovesOn(a, o)
  PROVE  OwnTruth(o)' /\ Filing(o) /\ Lasting(o)
  <1>0. OwnTruth(o) /\ Carries(a, o)
    BY DEF IInv, Truth, Bylines, Effects, Found, Halfway, Undisturbed, OwnTruth,
       MoveEndDoes
  <1>1. /\ plan[o] # None /\ plan[o].mode = "move"
        /\ run'[o] = "done" /\ answer'[o] # "failed" /\ \A pc \in Moving : ~ Runs(o, pc)'
    BY <1>0, Mover, MoverNext DEF MoveEndDoes, Halts
  <1>2. CopySigned(o)' /\ FoundOf(o)' /\ Lasting(o) /\ upload'[o] = None
    BY <1>0, <1>1, MovesOnly DEF MoveEndDoes
  <1>3. EffectOf(o)'
    BY <1>0, <1>1 DEF MoveEndDoes, OwnTruth, EffectOf, Guarded
  <1>4. HalfwayOf(o)'
    BY <1>0, <1>1 DEF MoveEndDoes, OwnTruth, HalfwayOf, Moving
  <1>5. UndisturbedOf(o)'
    BY <1>0, <1>1, <1>2 DEF MoveEndDoes, OwnTruth, UndisturbedOf, MoveExplained, Moving
  <1> QED
    BY <1>2, <1>3, <1>4, <1>5 DEF OwnTruth, Filing, Unfiled, MoveEndDoes

\* Recording the copy of a move keeps the truth about it.
LEMMA MoveMarkOwn ==
  ASSUME IInv, NEW o \in Ops, NEW a \in {Rec, o}, MoveMarkDoes(a, o), MovesOn(a, o)
  PROVE  OwnTruth(o)' /\ Filing(o) /\ Lasting(o)
  <1>0. OwnTruth(o) /\ Carries(a, o)
    BY DEF IInv, Truth, Bylines, Effects, Found, Halfway, Undisturbed, OwnTruth,
       MoveMarkDoes
  <1>1. /\ plan[o] # None /\ plan[o].mode = "move" /\ move[o] # None /\ Runs(o, "mv_mark")
        /\ file[plan[o].to] \in Objects \cup {None}
    BY <1>0, Mover DEF MoveMarkDoes, Moving
  <1>2. /\ run'[o] \in {"mv_drop", "done"} /\ answer'[o] # "failed"
        /\ run'[o] # "done" => answer'[o] = "none"
        /\ \A pc \in Moving \ {"mv_drop"} : ~ Runs(o, pc)'
        /\ Halts(a, o) => ~ Runs(o, "mv_drop")' /\ run'[o] = "done"
    BY <1>0, <1>1, MoverNext DEF MoveMarkDoes, Moving
  <1>3. CopySigned(o)' /\ FoundOf(o)' /\ Lasting(o) /\ upload'[o] = None
    BY <1>0, <1>1, <1>2, MovesOnly DEF MoveMarkDoes, Moving
  <1>4. EffectOf(o)'
    BY <1>0, <1>1, <1>2 DEF MoveMarkDoes, OwnTruth, EffectOf, Guarded, Moving
  <1>5. /\ move[o].stage = "prepared" /\ effect[o] = "half" /\ known[o] # None /\ known[o][1] = move[o].src[1]
    BY <1>0, <1>1 DEF OwnTruth, HalfwayOf
  <1>6. CASE move'[o] = move[o] /\ Halts(a, o)
    <2>1. HalfwayOf(o)'
      BY <1>0, <1>2, <1>6 DEF MoveMarkDoes, OwnTruth, HalfwayOf, Moving
    <2>2. UndisturbedOf(o)'
      BY <1>0, <1>2, <1>3, <1>6 DEF MoveMarkDoes, OwnTruth, UndisturbedOf,
         MoveExplained, Moving
    <2> QED
      BY <1>3, <1>4, <2>1, <2>2 DEF OwnTruth, Filing, Unfiled, MoveMarkDoes
  <1>7. CASE move'[o].stage = "copied" /\ move'[o].dst = known[o]
    <2>1. run[a] = "mv_mark" /\ (run'[o] = "mv_drop" => Matches(file[plan[o].from], move[o].src))
      BY <1>0, <1>1, <1>2, Mover, MoverNext DEF MoveMarkDoes, OwnTruth, HalfwayOf,
         Moving
    <2>2. HalfwayOf(o)'
      BY <1>0, <1>1, <1>2, <1>5, <1>7, <2>1 DEF MoveMarkDoes, HalfwayOf, Moving
    <2>3. o \notin stale => Matches(file[plan[o].from], move[o].src) /\ TagOf(file[plan[o].to]) = known[o]
      BY <1>0, <1>1, <1>5 DEF OwnTruth, UndisturbedOf, MoveExplained
    <2>4. UndisturbedOf(o)'
      BY <1>1, <1>2, <1>3, <1>5, <1>7, <2>3, Tags DEF MoveMarkDoes, UndisturbedOf,
         MoveExplained, Moving
    <2> QED
      BY <1>3, <1>4, <2>2, <2>4 DEF OwnTruth, Filing, Unfiled, MoveMarkDoes
  <1> QED
    BY <1>6, <1>7 DEF MoveMarkDoes

\* The copy of a move keeps the truth about it.
LEMMA MoveCopyOwn ==
  ASSUME IInv, NEW o \in Ops, NEW a \in {Rec, o}, MoveCopyDoes(a, o), MovesOn(a, o)
  PROVE  OwnTruth(o)' /\ Filing(o) /\ Lasting(o)
  <1>0. OwnTruth(o) /\ Carries(a, o) /\ TypeOK
    BY DEF IInv, Bookkeeping, Truth, Bylines, Effects, Found, Halfway, Undisturbed,
       OwnTruth, MoveCopyDoes
  <1>1. /\ plan[o] # None /\ plan[o].mode = "move" /\ plan[o].from \in Files /\ plan[o].to \in Files
        /\ plan[o].from # plan[o].to /\ move[o] \in Moves /\ move[o] # None /\ run[a] = "mv_copy"
        /\ file[plan[o].from] \in Objects \cup {None} /\ file[plan[o].to] \in Objects \cup {None}
        /\ gate \in {o, Rec} \/ phase # "up"
        /\ Runs(o, "mv_copy") /\ ~ Runs(o, "mv_mark")
    BY <1>0, Mover DEF MoveCopyDoes, Moving
  <1>2. /\ run'[o] \in {"mv_mark", "mv_lost", "done"} /\ answer'[o] # "failed"
        /\ run'[o] # "done" => answer'[o] = "none"
        /\ \A pc \in Moving \ {"mv_mark", "mv_lost"} : ~ Runs(o, pc)'
    BY <1>0, <1>1, MoverNext DEF MoveCopyDoes, Moving
  <1>3. CopySigned(o)' /\ FoundOf(o)' /\ Lasting(o) /\ upload'[o] = None
    BY <1>0, <1>1, <1>2, MovesOnly DEF MoveCopyDoes, Moving
  <1>4. EffectOf(o)'
    BY <1>0, <1>1, <1>2 DEF MoveCopyDoes, OwnTruth, EffectOf, Guarded, Moving
  <1>5. move[o].stage = "prepared" /\ effect[o] \in {"no", "half"}
    BY <1>0, <1>1 DEF OwnTruth, HalfwayOf
  <1>6. ASSUME ~ Runs(o, "mv_mark")', Unfiled, effect'[o] = effect[o], run'[o] \in {"mv_lost", "done"}
        PROVE  OwnTruth(o)' /\ Filing(o) /\ Lasting(o)
    <2>1. HalfwayOf(o)'
      BY <1>0, <1>1, <1>2, <1>5, <1>6 DEF MoveCopyDoes, HalfwayOf, Moving
    <2>2. UndisturbedOf(o)'
      BY <1>0, <1>1, <1>3, <1>5, <1>6 DEF MoveCopyDoes, Unfiled, OwnTruth,
         UndisturbedOf, MoveExplained
    <2> QED
      BY <1>3, <1>4, <1>6, <2>1, <2>2 DEF OwnTruth, Filing
  <1>7. CASE Halts(a, o) /\ Unfiled /\ effect'[o] = effect[o]
    BY <1>0, <1>1, <1>6, <1>7, MoverNext DEF Moving
  <1>8. CASE /\ Goes(a, "mv_mark") /\ Unfiled
             /\ Matches(file[plan[o].from], move[o].src) /\ file[plan[o].to] # None
             /\ ETag(file[plan[o].to]) = move[o].src \/ file[plan[o].to].mark = o
             /\ known'[o] = ETag(file[plan[o].to]) /\ effect'[o] = "half"
    <2>1. file[plan[o].to].mark # o
      BY <1>1, <1>8, ObjectTags, OpsAssumption DEF IInv, Truth, Bylines, FileSigned,
         Signed, Published, Uploads
    <2>2. known'[o] = move[o].src /\ known'[o] # None
      BY <1>1, <1>8, <2>1, ObjectTags
    <2>3. HalfwayOf(o)'
      BY <1>1, <1>2, <1>5, <1>8, <2>2 DEF MoveCopyDoes, Unfiled, HalfwayOf, Moving
    <2>4. UndisturbedOf(o)'
      BY <1>0, <1>1, <1>3, <1>5, <1>8 DEF MoveCopyDoes, Unfiled, OwnTruth,
         UndisturbedOf, MoveExplained, TagOf
    <2> QED
      BY <1>3, <1>4, <1>8, <2>3, <2>4 DEF OwnTruth, Filing
  <1>9. ASSUME NEW keep \in BOOLEAN, Matches(file[plan[o].from], move[o].src), file[plan[o].to] = None,
               known'[o] = ETag(Copied(file[plan[o].from], keep)),
               Goes(a, "mv_mark") \/ Goes(a, "mv_lost"),
               Writes(o, plan[o].to, Copied(file[plan[o].from], keep)), effect'[o] = "half"
        PROVE  OwnTruth(o)' /\ Filing(o) /\ Lasting(o)
    <2>0. file[plan[o].from] \in Objects /\ ETag(file[plan[o].from]) = move[o].src
      BY <1>1, <1>9 DEF Matches
    <2>1. PICK x \in Objects : x = Copied(file[plan[o].from], keep)
      BY <2>0, Copies
    <2>2. x # None /\ x.by = move[o].src[1] /\ (ETag(x) = move[o].src \/ x.gen # 0) /\ ETag(x)[1] = x.by
      BY <2>0, <2>1, Copies, ObjectTags
    <2>3. file'[plan[o].to] = x /\ file'[plan[o].from] = file[plan[o].from]
      BY <1>0, <1>1, <1>9, <2>1 DEF Writes, TypeOK, StoreTyped
    <2>4. known'[o] = ETag(x) /\ ETag(x) # None /\ TagOf(x) = ETag(x)
      BY <1>9, <2>1, ObjectTags
    <2>5. HalfwayOf(o)'
      BY <1>1, <1>2, <1>5, <1>9, <2>2, <2>3, <2>4 DEF MoveCopyDoes, HalfwayOf, Moving
    <2>6. UndisturbedOf(o)'
      BY <1>1, <1>3, <1>5, <1>9, <2>2, <2>3, <2>4 DEF MoveCopyDoes, UndisturbedOf,
         MoveExplained
    <2>7. \A r \in Ops : Published(r) => effect'[r] = "yes"
      BY <1>0, <1>1, Elsewhere DEF Published, Uploads
    <2>8. Filing(o)
      BY <1>1, <1>9, <2>0, <2>7, CopiedFiling, ConstantsAssumption DEF MoveCopyDoes
    <2> QED
      BY <1>3, <1>4, <2>5, <2>6, <2>8 DEF OwnTruth
  <1>10. CASE Goes(a, "mv_lost") /\ Unfiled /\ effect'[o] = effect[o]
    BY <1>0, <1>1, <1>6, <1>10, MoverNext DEF Moving
  <1> QED
    BY <1>7, <1>8, <1>9, <1>10 DEF MoveCopyDoes

\* Removing the source of a move keeps the truth about it.
LEMMA MoveDropOwn ==
  ASSUME IInv, NEW o \in Ops, NEW a \in {Rec, o}, MoveDropDoes(a, o), MovesOn(a, o)
  PROVE  OwnTruth(o)' /\ Filing(o) /\ Lasting(o)
  <1>0. OwnTruth(o) /\ Carries(a, o) /\ TypeOK
    BY DEF IInv, Bookkeeping, Truth, Bylines, Effects, Found, Halfway, Undisturbed,
       OwnTruth, MoveDropDoes
  <1>1. /\ plan[o] # None /\ plan[o].mode = "move" /\ plan[o].from \in Files /\ plan[o].to \in Files
        /\ plan[o].from # plan[o].to /\ move[o] \in Moves /\ move[o] # None /\ run[a] = "mv_drop"
        /\ gate \in {o, Rec} \/ phase # "up"
        /\ Runs(o, "mv_drop") /\ ~ Runs(o, "mv_mark")
        /\ run[o] = IF a = Rec THEN "done" ELSE "mv_drop"
    BY <1>0, Mover DEF MoveDropDoes, Moving
  <1>2. /\ run'[o] \in {"mv_end", "mv_lost", "done"} /\ answer'[o] # "failed"
        /\ run'[o] # "done" => answer'[o] = "none"
        /\ \A pc \in Moving \ {"mv_end", "mv_lost"} : ~ Runs(o, pc)'
    BY <1>0, <1>1, MoverNext DEF MoveDropDoes, Moving
  <1>3. CopySigned(o)' /\ FoundOf(o)' /\ Lasting(o) /\ upload'[o] = None
    BY <1>0, <1>1, <1>2, MovesOnly DEF MoveDropDoes, Moving
  <1>4. /\ move[o].stage = "copied" /\ effect[o] \in {"half", "yes"}
        /\ move[o].dst # None /\ move[o].dst[1] = move[o].src[1]
        /\ run[o] = "mv_drop" => file[plan[o].from] # None
    BY <1>0, <1>1 DEF OwnTruth, HalfwayOf, Matches
  <1>5. effect'[o] \in {effect[o], "yes"} /\ (run'[o] = "mv_end" => effect'[o] = "yes")
    <2>1. CASE Halts(a, o)
      BY <1>0, <1>1, <2>1, MoverNext DEF MoveDropDoes, Moving
    <2>2. CASE Goes(a, "mv_end") /\ file[plan[o].from] = None
      BY <1>0, <1>1, <1>4, <2>2, MoverNext DEF MoveDropDoes, Moving
    <2>3. CASE Goes(a, "mv_lost") /\ effect'[o] = effect[o]
      BY <1>0, <1>1, <2>3, MoverNext DEF Moving
    <2>4. CASE effect'[o] = "yes"
      BY <2>4
    <2> QED
      BY <2>1, <2>2, <2>3, <2>4 DEF MoveDropDoes
  <1>6. EffectOf(o)' /\ HalfwayOf(o)'
    BY <1>0, <1>1, <1>2, <1>4, <1>5 DEF MoveDropDoes, OwnTruth, EffectOf, HalfwayOf,
       Guarded, Moving
  <1>7. CASE Unfiled
    <2>1. UndisturbedOf(o)'
      BY <1>0, <1>1, <1>2, <1>3, <1>7 DEF MoveDropDoes, Unfiled, OwnTruth,
         UndisturbedOf, MoveExplained, Moving
    <2> QED
      BY <1>3, <1>6, <1>7, <2>1 DEF OwnTruth, Filing
  <1>8. CASE Writes(o, plan[o].from, None) /\ Matches(file[plan[o].to], move[o].dst)
    <2>1. file'[plan[o].to] = file[plan[o].to] /\ file'[plan[o].from] = None
      BY <1>0, <1>1, <1>8 DEF Writes, TypeOK, StoreTyped
    <2>2. UndisturbedOf(o)'
      BY <1>1, <1>2, <1>3, <1>4, <1>8, <2>1 DEF MoveDropDoes, UndisturbedOf,
         MoveExplained, Moving
    <2>3. Filing(o)
      BY <1>1, <1>8 DEF Filing
    <2> QED
      BY <1>3, <1>6, <2>2, <2>3 DEF OwnTruth
  <1> QED
    BY <1>7, <1>8 DEF MoveDropDoes

\* The copy of a move keeps the truth.
LEMMA MoveCopyTruth ==
  ASSUME IInv, NEW o \in Ops, MoveCopy(o, o), UNCHANGED probe
  PROVE  IInv'
  <1>0. Bookkeeping /\ TypeOK /\ o # Rec
    BY OpsAssumption DEF IInv, Bookkeeping
  <1>1. MoveCopyDoes(o, o) /\ Bookkeeping'
    BY <1>0, MoveCopyEffect, MoveCopyBooks
  <1>2. MovesOn(o, o) /\ run[o] # "done" /\ job = None
    BY <1>0, <1>1, AtWork DEF MoveCopyDoes, MovesOn, Moving, Gated
  <1>3. Foreground(o)
    BY <1>0, <1>1 DEF MoveCopyDoes, Halts, Goes, Refuses, Leaves, Carries, Foreground
  <1> QED
    BY <1>1, <1>2, <1>3, MoveCopyOwn, ForegroundTruth

\* A move that lost an answer keeps the truth.
LEMMA MoveLostTruth ==
  ASSUME IInv, NEW o \in Ops, MoveLost(o, o), UNCHANGED probe
  PROVE  IInv'
  <1>0. Bookkeeping /\ TypeOK /\ o # Rec
    BY OpsAssumption DEF IInv, Bookkeeping
  <1>1. MoveLostDoes(o, o) /\ Bookkeeping'
    BY <1>0, MoveLostEffect, MoveLostBooks
  <1>2. MovesOn(o, o) /\ run[o] # "done" /\ job = None
    BY <1>0, <1>1, AtWork DEF MoveLostDoes, MovesOn, Moving, Gated
  <1>3. Foreground(o)
    BY <1>0, <1>1 DEF MoveLostDoes, Halts, Goes, Refuses, Leaves, Carries, Foreground
  <1> QED
    BY <1>1, <1>2, <1>3, MoveLostOwn, ForegroundTruth

\* Recording the copy of a move keeps the truth.
LEMMA MoveMarkTruth ==
  ASSUME IInv, NEW o \in Ops, MoveMark(o, o), UNCHANGED probe
  PROVE  IInv'
  <1>0. Bookkeeping /\ TypeOK /\ o # Rec
    BY OpsAssumption DEF IInv, Bookkeeping
  <1>a. move[o] # None /\ known[o] \in ETags
    BY <1>0, Mine DEF MoveMark, At, Bookkeeping, Held, HeldOf, Moving
  <1>1. MoveMarkDoes(o, o) /\ Bookkeeping'
    BY <1>0, MoveMarkEffect, MoveMarkBooks, <1>a
  <1>2. MovesOn(o, o) /\ run[o] # "done" /\ job = None
    BY <1>0, <1>1, AtWork DEF MoveMarkDoes, MovesOn, Moving, Gated
  <1>3. Foreground(o)
    BY <1>0, <1>1 DEF MoveMarkDoes, Halts, Goes, Refuses, Leaves, Carries, Foreground
  <1> QED
    BY <1>1, <1>2, <1>3, MoveMarkOwn, ForegroundTruth

\* Removing the source of a move keeps the truth.
LEMMA MoveDropTruth ==
  ASSUME IInv, NEW o \in Ops, MoveDrop(o, o), UNCHANGED probe
  PROVE  IInv'
  <1>0. Bookkeeping /\ TypeOK /\ o # Rec
    BY OpsAssumption DEF IInv, Bookkeeping
  <1>1. MoveDropDoes(o, o) /\ Bookkeeping'
    BY <1>0, MoveDropEffect, MoveDropBooks
  <1>2. MovesOn(o, o) /\ run[o] # "done" /\ job = None
    BY <1>0, <1>1, AtWork DEF MoveDropDoes, MovesOn, Moving, Gated
  <1>3. Foreground(o)
    BY <1>0, <1>1 DEF MoveDropDoes, Halts, Goes, Refuses, Leaves, Carries, Foreground
  <1> QED
    BY <1>1, <1>2, <1>3, MoveDropOwn, ForegroundTruth

\* Retiring the journal of a move keeps the truth.
LEMMA MoveEndTruth ==
  ASSUME IInv, NEW o \in Ops, MoveEnd(o, o), UNCHANGED probe
  PROVE  IInv'
  <1>0. Bookkeeping /\ TypeOK /\ o # Rec
    BY OpsAssumption DEF IInv, Bookkeeping
  <1>1. MoveEndDoes(o, o) /\ Bookkeeping'
    BY <1>0, MoveEndEffect, MoveEndBooks
  <1>2. MovesOn(o, o) /\ run[o] # "done" /\ job = None
    BY <1>0, <1>1, AtWork DEF MoveEndDoes, MovesOn, Moving, Gated
  <1>3. Foreground(o)
    BY <1>0, <1>1 DEF MoveEndDoes, Halts, Goes, Refuses, Leaves, Carries, Foreground
  <1> QED
    BY <1>1, <1>2, <1>3, MoveEndOwn, ForegroundTruth

-----------------------------------------------------------------------------
(***************************************************************************)
(* Truth, of the steps of recovery.                                        *)
(***************************************************************************)

\* A step of recovery leaves the truth alone when it does so for the operation whose
\* journal it works on, and refuses that journal only for a cause.
LEMMA RecoveryTruth ==
  ASSUME IInv, Bookkeeping', NEW o \in Ops, job # None, job[2] = o, Carries(Rec, o),
         Filing(o), Lasting(o), OwnTruth(o)', NextOf(o),
         \/ UNCHANGED refused
         \/ refused' = job /\ Blocked(o)',
         Blocked(o) => Blocked(o)', run'[Rec] = "r_finish" => Provable(o)'
  PROVE  IInv'
  <1>0. TypeOK
    BY DEF IInv, Bookkeeping
  <1>1. job' = job \/ run'[Rec] \in {"idle", "wait"}
    BY DEF NextOf, Ended
  <1>2. ASSUME NEW q \in Ops, q # o
        PROVE  \A pc \in Moving : Runs(q, pc)' = Runs(q, pc)
    <2>1. run'[q] = run[q]
      BY <1>0, <1>2, Elsewhere
    <2>2. ASSUME NEW pc \in Moving
          PROVE  ~ (run'[Rec] = pc /\ job'[2] = q) /\ ~ (run[Rec] = pc /\ job[2] = q)
      BY <1>1, <1>2 DEF Moving
    <2> QED
      BY <2>1, <2>2 DEF Runs
  <1>3. ASSUME NEW q \in Ops
        PROVE  OwnTruth(q)'
    BY <1>2, OthersTrue
  <1>4. \A f \in Files : FileSigned(f)'
    BY FilesTrue
  <1>5. ASSUME refused # None, NEW r \in Ops, refused[2] = r
        PROVE  Blocked(r)'
    <2>1. Blocked(r)
      BY <1>5 DEF IInv, Truth, Refusals
    <2>2. CASE r = o
      BY <2>1, <2>2
    <2>3. CASE r # o
      <3>1. \A pc \in {"r_finish", "mv_mark", "mv_drop", "mv_end"} : ~ (run'[Rec] = pc /\ job'[2] = r)
        BY <1>1, <2>3
      <3> QED
        BY <2>1, <2>3, <3>1, RefusalStands
    <2> QED
      BY <2>2, <2>3
  <1>6. refused # None => refused[2] \in Ops
    BY <1>0, KeysOf DEF TypeOK, HistoryTyped
  <1>7. Refusals'
    BY <1>1, <1>5, <1>6 DEF Refusals
  <1> QED
    BY <1>3, <1>4, <1>7 DEF IInv, Truth, Bylines, Effects, Found, Halfway,
       Undisturbed, OwnTruth

\* Recovery of an upload's journals takes private objects and journals away.
LEMMA RecoverOwn ==
  ASSUME IInv, NEW o \in Ops, job # None, job[2] = o, Carries(Rec, o),
         UNCHANGED <<file, move, plan, known, answer, effect, stale>>,
         run[Rec] \notin Moving, run'[Rec] \notin Moving,
         staged'[o] \in {staged[o], None}, backup'[o] \in {backup[o], None},
         upload'[o] \in {upload[o], None}
  PROVE  /\ OwnTruth(o)' /\ Filing(o) /\ Lasting(o)
         /\ run'[Rec] # "r_finish" /\ upload' = upload => (Blocked(o) => Blocked(o)')
  <1>0. OwnTruth(o) /\ TypeOK /\ run'[o] = run[o] /\ run[o] \in {"idle", "done", "lock"}
    BY AtWork, OpsAssumption DEF IInv, Bookkeeping, Truth, Bylines, Effects, Found,
       Halfway, Undisturbed,
       OwnTruth, Carries, Only, TypeOK, LocationsTyped
  <1>1. \A pc \in Moving : Runs(o, pc)' = Runs(o, pc)
    BY <1>0 DEF Runs
  <1>2. CopySigned(o)'
    BY <1>0 DEF OwnTruth, CopySigned, Signed
  <1>3. EffectOf(o)'
    BY <1>0 DEF OwnTruth, EffectOf, Guarded
  <1>4. FoundOf(o)'
    BY <1>0 DEF OwnTruth, FoundOf, Guarded
  <1>5. HalfwayOf(o)'
    BY <1>0, <1>1 DEF OwnTruth, HalfwayOf, Moving
  <1>6. UndisturbedOf(o)'
    BY <1>0, <1>1 DEF OwnTruth, UndisturbedOf, Explained, MoveExplained, Plain, Moving
  <1>7. ASSUME run'[Rec] # "r_finish", upload' = upload, Blocked(o)
        PROVE  Blocked(o)'
    BY <1>0, <1>7 DEF Blocked, BlockedUpload, BlockedMove, Provable, Guarded,
       Committed, RolledBack,
       Matches, Moving
  <1> QED
    BY <1>2, <1>3, <1>4, <1>5, <1>6, <1>7 DEF OwnTruth, Filing, Unfiled, Lasting,
       Published

\* Recovery of a session keeps the truth.
LEMMA RecoverPartsTruth ==
  ASSUME IInv, NEW o \in Ops, job # None, job[2] = o, RecoverParts(o), UNCHANGED probe
  PROVE  IInv'
  <1>0. Bookkeeping /\ Bookkeeping'
    BY RecoverPartsBooks DEF IInv
  <1>1. RecoverPartsDoes(o)
    BY <1>0, RecoverPartsEffect
  <1>2. NextOf(o) /\ run[Rec] = "r_parts" /\ run'[Rec] \in {"idle", "wait", "r_parts"}
    BY <1>1 DEF RecoverPartsDoes, NextOf, Ended, Goes, Moving, Recovering
  <1>3. Carries(Rec, o) /\ staged'[o] \in {staged[o], None} /\ refused' = refused
    BY <1>0, <1>1 DEF RecoverPartsDoes
  <1>4. /\ OwnTruth(o)' /\ Filing(o) /\ Lasting(o)
        /\ Blocked(o) => Blocked(o)'
    BY <1>0, <1>1, <1>2, <1>3, RecoverOwn DEF RecoverPartsDoes, Moving
  <1> QED
    BY <1>0, <1>2, <1>3, <1>4, RecoveryTruth

\* Recovery of an intent keeps the truth.
LEMMA RecoverIntentTruth ==
  ASSUME IInv, NEW o \in Ops, job # None, job[2] = o, RecoverIntent(o), UNCHANGED probe
  PROVE  IInv'
  <1>0. Bookkeeping /\ Bookkeeping'
    BY RecoverIntentBooks DEF IInv
  <1>1. RecoverIntentDoes(o)
    BY <1>0, RecoverIntentEffect
  <1>2. NextOf(o) /\ run[Rec] = "r_intent" /\ run'[Rec] \in {"idle", "wait", "r_intent"}
    BY <1>1 DEF RecoverIntentDoes, NextOf, Ended, Goes, Moving, Recovering
  <1>3. Carries(Rec, o) /\ staged'[o] \in {staged[o], None} /\ refused' = refused
    BY <1>0, <1>1 DEF RecoverIntentDoes
  <1>4. /\ OwnTruth(o)' /\ Filing(o) /\ Lasting(o)
        /\ Blocked(o) => Blocked(o)'
    BY <1>0, <1>1, <1>2, <1>3, RecoverOwn DEF RecoverIntentDoes, Moving
  <1> QED
    BY <1>0, <1>2, <1>3, <1>4, RecoveryTruth

\* An upload that recovery cannot prove has found an ETag no journal recorded.
LEMMA RecoverUploadTruth ==
  ASSUME IInv, NEW o \in Ops, job # None, job[2] = o, RecoverUpload(o), UNCHANGED probe
  PROVE  IInv'
  <1>0. Bookkeeping /\ Bookkeeping' /\ TypeOK /\ OwnTruth(o) /\ HeldOf(o) /\ PlanOf(o)
    BY RecoverUploadBooks DEF IInv, Bookkeeping, Plans, Held, Truth, Bylines, Effects,
       Found, Halfway, Undisturbed,
       OwnTruth
  <1>1. RecoverUploadDoes(o)
    BY <1>0, RecoverUploadEffect
  <1>2. run[Rec] = "r_upload" /\ upload[o] # None /\ upload' = upload /\ Carries(Rec, o)
    BY <1>0, <1>1 DEF RecoverUploadDoes, Bookkeeping, Worked
  <1>3. NextOf(o) /\ run'[Rec] \in {"idle", "wait", "r_finish"}
    BY <1>1, <1>2 DEF RecoverUploadDoes, NextOf, Ended, Goes, Moving, Recovering
  <1>4. /\ OwnTruth(o)' /\ Filing(o) /\ Lasting(o)
        /\ run'[Rec] # "r_finish" => (Blocked(o) => Blocked(o)')
    BY <1>0, <1>1, <1>2, <1>3, RecoverOwn DEF RecoverUploadDoes, Moving
  <1>5. plan[o] # None /\ run[o] = "done" /\ run'[o] = "done"
    BY <1>0, <1>2, AtWork, OpsAssumption DEF HeldOf, PlanOf, Bare, Staged, Carries,
       Only, TypeOK, LocationsTyped
  <1>6. UNCHANGED <<file, plan, move, stale>> /\ Guarded(o)' = Guarded(o) /\ Provable(o)' = Provable(o)
    BY <1>1 DEF RecoverUploadDoes, Guarded, Provable, Committed, RolledBack, Matches
  <1>7. CASE Ended /\ UNCHANGED refused
    <2>1. run'[Rec] # "r_finish"
      BY <1>7 DEF Ended
    <2> QED
      BY <1>0, <1>2, <1>3, <1>4, <1>7, <2>1, RecoveryTruth
  <1>8. CASE Ended /\ ~ Provable(o) /\ refused' = job
    <2>1. run'[Rec] # "r_finish"
      BY <1>8 DEF Ended
    <2>2. ASSUME ~ Guarded(o), o \notin stale
          PROVE  file[plan[o].to] # None /\ file[plan[o].to].gen # 0
      <3>1. Explained(o) /\ file[plan[o].to] \in Objects \cup {None} /\ upload[o].previous \in ETags \cup {None}
        BY <1>0, <1>2, <1>5, <2>2, Mine, TransactionFields
           DEF OwnTruth, UndisturbedOf, Plain, Guarded, CopySigned, HeldOf, Bare,
              Uploads
      <3>2. TagOf(file[plan[o].to]) # upload[o].previous
        BY <1>8, <2>2, <3>1, Tags, ConstantsAssumption DEF Provable, RolledBack
      <3> QED
        BY <1>8, <2>2, <3>1, <3>2 DEF Explained, Provable, Committed
    <2>3. BlockedUpload(o)'
      BY <1>2, <1>6, <1>8, <2>1 DEF BlockedUpload
    <2>4. Blocked(o)'
      BY <1>5, <1>6, <2>2, <2>3 DEF Blocked
    <2> QED
      BY <1>0, <1>2, <1>3, <1>4, <1>8, <2>1, <2>4, RecoveryTruth
  <1>9. CASE Goes(Rec, "r_finish") /\ Provable(o) /\ UNCHANGED refused
    <2>1. ASSUME Blocked(o)
          PROVE  Blocked(o)'
      BY <1>5, <1>6, <1>9, <2>1 DEF Blocked, BlockedUpload, BlockedMove, Goes
    <2> QED
      BY <1>0, <1>2, <1>3, <1>4, <1>6, <1>9, <2>1, RecoveryTruth
  <1> QED
    BY <1>1, <1>7, <1>8, <1>9 DEF RecoverUploadDoes

\* Recovery that discards what an upload held keeps the truth.
LEMMA RecoverFinishTruth ==
  ASSUME IInv, NEW o \in Ops, job # None, job[2] = o, RecoverFinish(o), UNCHANGED probe
  PROVE  IInv'
  <1>0. Bookkeeping /\ Bookkeeping' /\ TypeOK
    BY RecoverFinishBooks DEF IInv, Bookkeeping
  <1>1. RecoverFinishDoes(o)
    BY <1>0, RecoverFinishEffect
  <1>2. /\ run[Rec] = "r_finish" /\ upload[o] # None /\ Carries(Rec, o) /\ refused' = refused
        /\ staged'[o] \in {staged[o], None} /\ backup'[o] \in {backup[o], None}
        /\ upload'[o] \in {upload[o], None}
    BY <1>0, <1>1 DEF RecoverFinishDoes, Discards, Bookkeeping, Worked
  <1>3. NextOf(o) /\ run'[Rec] \in {"idle", "wait", "r_finish"}
    BY <1>1, <1>2 DEF RecoverFinishDoes, NextOf, Ended, Goes, Moving, Recovering
  <1>4. OwnTruth(o)' /\ Filing(o) /\ Lasting(o)
    BY <1>0, <1>1, <1>2, <1>3, RecoverOwn DEF RecoverFinishDoes, Moving
  <1>5. ASSUME Blocked(o)
        PROVE  Blocked(o)'
    <2>1. run'[o] = run[o]
      BY <1>0, <1>2, OpsAssumption DEF Carries, Only, TypeOK, LocationsTyped
    <2>2. ~ BlockedUpload(o) /\ (BlockedMove(o) => BlockedMove(o)')
      BY <1>1, <1>2, <1>3 DEF RecoverFinishDoes, BlockedUpload, BlockedMove
    <2> QED
      BY <1>1, <1>5, <2>1, <2>2 DEF RecoverFinishDoes, Blocked, Guarded
  <1>6. ASSUME run'[Rec] = "r_finish"
        PROVE  Provable(o)'
    <2>1. Provable(o) /\ upload'[o] = upload[o]
      BY <1>1, <1>2, <1>6 DEF RecoverFinishDoes, Ended, IInv, Truth, Refusals
    <2> QED
      BY <1>1, <2>1 DEF RecoverFinishDoes, Guarded, Provable, Committed, RolledBack,
         Matches
  <1> QED
    BY <1>0, <1>2, <1>3, <1>4, <1>5, <1>6, RecoveryTruth

\* A move whose copy recovery cannot account for has an ETag no journal recorded.
LEMMA MoveCopyRecoversTruth ==
  ASSUME IInv, NEW o \in Ops, job # None, job[2] = o, MoveCopy(Rec, o), UNCHANGED probe
  PROVE  IInv'
  <1>0. Bookkeeping /\ Bookkeeping' /\ TypeOK
    BY MoveCopyRecovers DEF IInv, Bookkeeping
  <1>1. MoveCopyDoes(Rec, o)
    BY <1>0, MoveCopyEffect
  <1>2. MovesOn(Rec, o) /\ Carries(Rec, o) /\ run[Rec] = "mv_copy"
    BY <1>1 DEF MoveCopyDoes, MovesOn, Moving
  <1>3. OwnTruth(o)' /\ Filing(o) /\ Lasting(o)
    BY <1>1, <1>2, MoveCopyOwn
  <1>4. /\ plan[o] # None /\ plan[o].mode = "move" /\ move[o] # None /\ run[o] = "done" /\ run'[o] = "done"
        /\ upload[o] = None /\ file[plan[o].to] \in Objects \cup {None} /\ move[o] \in Moves
    <2>1. /\ plan[o] # None /\ plan[o].mode = "move" /\ move[o] # None /\ run[o] = "done"
          /\ Bare(o) /\ file[plan[o].to] \in Objects \cup {None} /\ move[o] \in Moves
      BY <1>2, Mover
    <2>2. run'[o] = run[o]
      BY <1>0, <1>2, OpsAssumption DEF Carries, Only, TypeOK, LocationsTyped
    <2> QED
      BY <2>1, <2>2 DEF Bare
  <1>5. NextOf(o) /\ run'[Rec] \in {"idle", "wait", "mv_mark", "mv_lost"}
    <2>1. Goes(Rec, "mv_mark") => known'[o] # None
      <3>1. file[plan[o].from] # None /\ Matches(file[plan[o].from], move[o].src) => file[plan[o].from] \in Objects
        BY <1>0, <1>4, Mine
      <3> QED
        BY <1>1, <1>4, <3>1, Copies, ObjectTags DEF MoveCopyDoes, Halts, Ended, Goes,
           Matches
    <2>2. move'[o] # None
      BY <1>1, <1>4 DEF MoveCopyDoes
    <2> QED
      BY <1>1, <2>1, <2>2 DEF MoveCopyDoes, Halts, NextOf, Ended, Goes, Moving,
         Recovering
  <1>6. ASSUME Blocked(o)
        PROVE  Blocked(o)'
    <2>1. SUFFICES ASSUME ~ Guarded(o), o \notin stale'
                   PROVE  /\ file'[plan[o].to] # None /\ file'[plan[o].to].gen # 0 /\ BlockedMove(o)'
      BY <1>1, <1>4 DEF MoveCopyDoes, Blocked, Guarded
    <2>2. o \notin stale
      BY <1>3, <2>1, Filed
    <2>3. BlockedMove(o) /\ file[plan[o].to] # None /\ file[plan[o].to].gen # 0
      BY <1>4, <1>6, <2>1, <2>2 DEF Blocked, BlockedUpload
    <2>4. Unfiled /\ Ended
      BY <1>1, <2>3 DEF MoveCopyDoes, BlockedMove, Halts
    <2> QED
      BY <1>1, <2>3, <2>4 DEF MoveCopyDoes, Unfiled, Ended, BlockedMove
  <1>7. UNCHANGED refused \/ (refused' = job /\ Blocked(o)')
    <2>1. SUFFICES ASSUME Ended, Unfiled, refused' = job,
                          \/ ~ Matches(file[plan[o].from], move[o].src)
                          \/ /\ file[plan[o].to] # None /\ file[plan[o].to].mark # o
                             /\ ETag(file[plan[o].to]) # move[o].src
                   PROVE  Blocked(o)'
      BY <1>1 DEF MoveCopyDoes, Halts, Refuses
    <2>2. Runs(o, "mv_copy") /\ move[o].stage = "prepared"
      BY <1>2, <1>4, Mover DEF IInv, Truth, Halfway, HalfwayOf, Moving
    <2>3. ASSUME o \notin stale
          PROVE  /\ file[plan[o].to] # None /\ file[plan[o].to].gen # 0 /\ BlockedMove(o)'
      <3>1. MoveExplained(o)
        BY <1>4, <2>3 DEF IInv, Truth, Undisturbed, UndisturbedOf
      <3> QED
        BY <1>1, <1>4, <2>1, <2>2, <3>1 DEF MoveCopyDoes, MoveExplained, BlockedMove,
           Unfiled, Ended
    <2> QED
      BY <1>1, <1>4, <2>1, <2>3 DEF MoveCopyDoes, Blocked, Unfiled
  <1> QED
    BY <1>0, <1>2, <1>3, <1>5, <1>6, <1>7, RecoveryTruth

\* Recording the copy of a move, in recovery, keeps the truth.
LEMMA MoveMarkRecoversTruth ==
  ASSUME IInv, NEW o \in Ops, job # None, job[2] = o, MoveMark(Rec, o), UNCHANGED probe
  PROVE  IInv'
  <1>0. Bookkeeping /\ Bookkeeping' /\ TypeOK
    BY MoveMarkRecovers DEF IInv, Bookkeeping
  <1>a. move[o] # None /\ known[o] \in ETags
    BY <1>0, Mine DEF MoveMark, At, Bookkeeping, Worked, Moving
  <1>1. MoveMarkDoes(Rec, o)
    BY <1>0, MoveMarkEffect, <1>a
  <1>2. MovesOn(Rec, o) /\ Carries(Rec, o) /\ run[Rec] = "mv_mark"
    BY <1>1 DEF MoveMarkDoes, MovesOn, Moving
  <1>3. OwnTruth(o)' /\ Filing(o) /\ Lasting(o)
    BY <1>1, <1>2, MoveMarkOwn
  <1>4. /\ plan[o] # None /\ plan[o].mode = "move" /\ move[o] # None /\ run[o] = "done" /\ run'[o] = "done"
        /\ upload[o] = None /\ file[plan[o].to] \in Objects \cup {None} /\ move[o] \in Moves
    <2>1. /\ plan[o] # None /\ plan[o].mode = "move" /\ move[o] # None /\ run[o] = "done"
          /\ Bare(o) /\ file[plan[o].to] \in Objects \cup {None} /\ move[o] \in Moves
      BY <1>2, Mover
    <2>2. run'[o] = run[o]
      BY <1>0, <1>2, OpsAssumption DEF Carries, Only, TypeOK, LocationsTyped
    <2> QED
      BY <2>1, <2>2 DEF Bare
  <1>5. NextOf(o) /\ run'[Rec] \in {"idle", "wait", "mv_drop"}
    BY <1>1, <1>4, MoveFields DEF MoveMarkDoes, Halts, NextOf, Ended, Goes, Moving,
       Recovering
  <1>6. ASSUME Blocked(o)
        PROVE  Blocked(o)'
    <2>1. Guarded(o) \/ o \in stale
      BY <1>2, <1>4, <1>6 DEF Blocked, BlockedUpload, BlockedMove
    <2> QED
      BY <1>1, <1>3, <1>4, <2>1, Filed DEF MoveMarkDoes, Blocked, Guarded
  <1> QED
    BY <1>0, <1>2, <1>3, <1>5, <1>6, <1>1, RecoveryTruth DEF MoveMarkDoes

\* Removing the source of a move, in recovery, keeps the truth.
LEMMA MoveDropRecoversTruth ==
  ASSUME IInv, NEW o \in Ops, job # None, job[2] = o, MoveDrop(Rec, o), UNCHANGED probe
  PROVE  IInv'
  <1>0. Bookkeeping /\ Bookkeeping' /\ TypeOK
    BY MoveDropRecovers DEF IInv, Bookkeeping
  <1>1. MoveDropDoes(Rec, o)
    BY <1>0, MoveDropEffect
  <1>2. MovesOn(Rec, o) /\ Carries(Rec, o) /\ run[Rec] = "mv_drop"
    BY <1>1 DEF MoveDropDoes, MovesOn, Moving
  <1>3. OwnTruth(o)' /\ Filing(o) /\ Lasting(o)
    BY <1>1, <1>2, MoveDropOwn
  <1>4. /\ plan[o] # None /\ plan[o].mode = "move" /\ move[o] # None /\ run[o] = "done" /\ run'[o] = "done"
        /\ upload[o] = None /\ file[plan[o].to] \in Objects \cup {None} /\ move[o] \in Moves
    <2>1. /\ plan[o] # None /\ plan[o].mode = "move" /\ move[o] # None /\ run[o] = "done"
          /\ Bare(o) /\ file[plan[o].to] \in Objects \cup {None} /\ move[o] \in Moves
      BY <1>2, Mover
    <2>2. run'[o] = run[o]
      BY <1>0, <1>2, OpsAssumption DEF Carries, Only, TypeOK, LocationsTyped
    <2> QED
      BY <2>1, <2>2 DEF Bare
  <1>5. NextOf(o) /\ run'[Rec] \in {"idle", "wait", "mv_end", "mv_lost"}
    BY <1>1, <1>4 DEF MoveDropDoes, Halts, NextOf, Ended, Goes, Moving, Recovering
  <1>6. ASSUME Blocked(o)
        PROVE  Blocked(o)'
    <2>1. Guarded(o) \/ o \in stale
      BY <1>2, <1>4, <1>6 DEF Blocked, BlockedUpload, BlockedMove
    <2> QED
      BY <1>1, <1>3, <1>4, <2>1, Filed DEF MoveDropDoes, Blocked, Guarded
  <1>7. UNCHANGED refused \/ (refused' = job /\ Blocked(o)')
    <2>1. SUFFICES ASSUME Unfiled, refused' = job,
                          \/ ~ Matches(file[plan[o].to], move[o].dst)
                          \/ /\ file[plan[o].from] # None
                             /\ ~ Matches(file[plan[o].from], move[o].src)
                   PROVE  Blocked(o)'
      BY <1>1 DEF MoveDropDoes, Refuses
    <2>2. Runs(o, "mv_drop") /\ move[o].stage = "copied"
      BY <1>2, <1>4, Mover DEF IInv, Truth, Halfway, HalfwayOf, Moving
    <2>3. o \in stale
      BY <1>4, <2>1, <2>2 DEF IInv, Truth, Undisturbed, UndisturbedOf, MoveExplained
    <2> QED
      BY <1>1, <1>4, <2>1, <2>3 DEF MoveDropDoes, Blocked, Unfiled
  <1> QED
    BY <1>0, <1>2, <1>3, <1>5, <1>6, <1>7, RecoveryTruth

\* Retiring the journal of a move, in recovery, keeps the truth.
LEMMA MoveEndRecoversTruth ==
  ASSUME IInv, NEW o \in Ops, job # None, job[2] = o, MoveEnd(Rec, o), UNCHANGED probe
  PROVE  IInv'
  <1>0. Bookkeeping /\ Bookkeeping' /\ TypeOK
    BY MoveEndRecovers DEF IInv, Bookkeeping
  <1>1. MoveEndDoes(Rec, o)
    BY <1>0, MoveEndEffect
  <1>2. MovesOn(Rec, o) /\ Carries(Rec, o) /\ run[Rec] = "mv_end"
    BY <1>1 DEF MoveEndDoes, MovesOn, Moving
  <1>3. OwnTruth(o)' /\ Filing(o) /\ Lasting(o)
    BY <1>1, <1>2, MoveEndOwn
  <1>4. /\ plan[o] # None /\ plan[o].mode = "move" /\ move[o] # None /\ run[o] = "done" /\ run'[o] = "done"
        /\ upload[o] = None /\ file[plan[o].to] \in Objects \cup {None} /\ move[o] \in Moves
    <2>1. /\ plan[o] # None /\ plan[o].mode = "move" /\ move[o] # None /\ run[o] = "done"
          /\ Bare(o) /\ file[plan[o].to] \in Objects \cup {None} /\ move[o] \in Moves
      BY <1>2, Mover
    <2>2. run'[o] = run[o]
      BY <1>0, <1>2, OpsAssumption DEF Carries, Only, TypeOK, LocationsTyped
    <2> QED
      BY <2>1, <2>2 DEF Bare
  <1>5. NextOf(o) /\ run'[Rec] \in {"idle", "wait"}
    BY <1>1, <1>4 DEF MoveEndDoes, NextOf, Ended, Goes, Moving, Recovering
  <1>6. ASSUME Blocked(o)
        PROVE  Blocked(o)'
    <2>1. Guarded(o) \/ o \in stale
      BY <1>2, <1>4, <1>6 DEF Blocked, BlockedUpload, BlockedMove
    <2> QED
      BY <1>1, <1>3, <1>4, <2>1, Filed DEF MoveEndDoes, Blocked, Guarded
  <1> QED
    BY <1>0, <1>2, <1>3, <1>5, <1>1, <1>6, RecoveryTruth DEF MoveEndDoes

\* A move that lost an answer, in recovery, keeps the truth.
LEMMA MoveLostRecoversTruth ==
  ASSUME IInv, NEW o \in Ops, job # None, job[2] = o, MoveLost(Rec, o), UNCHANGED probe
  PROVE  IInv'
  <1>0. Bookkeeping /\ Bookkeeping' /\ TypeOK
    BY MoveLostRecovers DEF IInv, Bookkeeping
  <1>1. MoveLostDoes(Rec, o)
    BY <1>0, MoveLostEffect
  <1>2. MovesOn(Rec, o) /\ Carries(Rec, o) /\ run[Rec] = "mv_lost"
    BY <1>1 DEF MoveLostDoes, MovesOn, Moving
  <1>3. OwnTruth(o)' /\ Filing(o) /\ Lasting(o)
    BY <1>1, <1>2, MoveLostOwn
  <1>4. /\ plan[o] # None /\ plan[o].mode = "move" /\ move[o] # None /\ run[o] = "done" /\ run'[o] = "done"
        /\ upload[o] = None /\ file[plan[o].to] \in Objects \cup {None} /\ move[o] \in Moves
    <2>1. /\ plan[o] # None /\ plan[o].mode = "move" /\ move[o] # None /\ run[o] = "done"
          /\ Bare(o) /\ file[plan[o].to] \in Objects \cup {None} /\ move[o] \in Moves
      BY <1>2, Mover
    <2>2. run'[o] = run[o]
      BY <1>0, <1>2, OpsAssumption DEF Carries, Only, TypeOK, LocationsTyped
    <2> QED
      BY <2>1, <2>2 DEF Bare
  <1>5. NextOf(o) /\ run'[Rec] \in {"idle", "wait"}
    BY <1>1, <1>4 DEF MoveLostDoes, Halts, NextOf, Ended, Goes, Moving, Recovering
  <1>6. ASSUME Blocked(o)
        PROVE  Blocked(o)'
    <2>1. BlockedMove(o) => BlockedMove(o)'
      BY <1>1, <1>5 DEF MoveLostDoes, BlockedMove
    <2> QED
      BY <1>1, <1>4, <1>6, <2>1 DEF MoveLostDoes, Blocked, BlockedUpload, Guarded
  <1> QED
    BY <1>0, <1>2, <1>3, <1>5, <1>1, <1>6, RecoveryTruth DEF MoveLostDoes

-----------------------------------------------------------------------------
(***************************************************************************)
(* Truth, of the worker, activation, a crash and the other client.         *)
(***************************************************************************)

\* Operations stay where they are or stop, and recovery is at the beginning of a journal
\* or works on none.
LEMMA SystemTruth ==
  ASSUME IInv, Bookkeeping',
         UNCHANGED <<file, staged, backup, upload, move, plan, known, answer, effect, stale,
                     refused>>,
         \A q \in Ops : run'[q] \in {run[q], "done"},
         run'[Rec] \notin {"mv_mark", "mv_end", "r_finish"},
         run'[Rec] = "mv_copy" => move'[job'[2]].stage = "prepared",
         run'[Rec] = "mv_drop" => move'[job'[2]].stage = "copied"
  PROVE  IInv'
  <1>0. TypeOK
    BY DEF IInv, Bookkeeping
  <1>1. \A f \in Files : FileSigned(f)'
    BY DEF IInv, Truth, Bylines, FileSigned, Signed, Published
  <1>2. ASSUME NEW q \in Ops
        PROVE  OwnTruth(q)'
    <2>0. OwnTruth(q) /\ run'[q] \in {run[q], "done"}
      BY DEF IInv, Truth, Bylines, Effects, Found, Halfway, Undisturbed, OwnTruth
    <2>1. CopySigned(q)'
      BY <2>0 DEF OwnTruth, CopySigned, Signed
    <2>2. EffectOf(q)'
      BY <2>0 DEF OwnTruth, EffectOf, Guarded
    <2>3. FoundOf(q)'
      BY <2>0 DEF OwnTruth, FoundOf, Guarded, Plain
    <2>4. Runs(q, "mv_mark")' => Runs(q, "mv_mark")
      BY <2>0 DEF Runs
    <2>5. /\ Runs(q, "mv_copy")' => Runs(q, "mv_copy") \/ move'[q].stage = "prepared"
          /\ Runs(q, "mv_drop")' => Runs(q, "mv_drop") \/ move'[q].stage = "copied"
      BY <2>0 DEF Runs
    <2>6. HalfwayOf(q)'
      BY <2>0, <2>4, <2>5 DEF OwnTruth, HalfwayOf
    <2>7. UndisturbedOf(q)'
      BY <2>0, <2>4 DEF OwnTruth, UndisturbedOf, Plain, Explained, MoveExplained
    <2> QED
      BY <2>1, <2>2, <2>3, <2>6, <2>7 DEF OwnTruth
  <1>3. ASSUME NEW r \in Ops, Blocked(r)
        PROVE  Blocked(r)'
    <2>1. run[r] = "done" => run'[r] = "done"
      OBVIOUS
    <2>2. BlockedUpload(r) => BlockedUpload(r)'
      BY DEF BlockedUpload, Provable, Guarded, Committed, RolledBack, Matches
    <2>3. BlockedMove(r) => BlockedMove(r)'
      BY DEF BlockedMove
    <2> QED
      BY <1>3, <2>1, <2>2, <2>3 DEF Blocked, Guarded
  <1>4. Refusals'
    BY <1>0, <1>3, KeysOf DEF IInv, Truth, Refusals, TypeOK, HistoryTyped
  <1> QED
    BY <1>1, <1>2, <1>4 DEF IInv, Truth, Bylines, Effects, Found, Halfway,
       Undisturbed, OwnTruth

\* A move's journal is entered where its stage says (recover_file_move).
LEMMA EntriesOfMoves ==
  ASSUME TypeOK, NEW j \in Journals
  PROVE  /\ Entry(j) \notin {"mv_mark", "mv_end", "r_finish"} /\ j \in Keys
         /\ Entry(j) = "mv_copy" => move[j[2]].stage = "prepared"
         /\ Entry(j) = "mv_drop" => move[j[2]].stage = "copied"
  <1>1. j \in Keys /\ j[1] \in {"parts", "move", "upload", "intent"} /\ j[2] \in Ops
    BY KeysOf DEF Journals, Kinds
  <1>2. j[1] = "move" => move[j[2]].stage \in {"prepared", "copied"}
    BY <1>1, MoveFields DEF Journals, TypeOK, RecordsTyped
  <1> QED
    BY <1>1, <1>2 DEF Entry

\* Whatever the worker does between two journals keeps the truth.
LEMMA WorkerTruth ==
  ASSUME IInv, WorkerWakes \/ WorkerEnters \/ ActivationStep, UNCHANGED probe
  PROVE  IInv'
  <1>0. TypeOK /\ Bookkeeping' /\ run[Rec] \in {"idle", "wait"}
    BY WorkerWakesBooks, WorkerEntersBooks, ActivationStepBooks
       DEF IInv, Bookkeeping, WorkerWakes, WorkerEnters, ActivationStep, At
  <1>1. UNCHANGED <<file, staged, backup, upload, move, plan, known, answer, effect, stale,
                    refused>>
    BY DEF WorkerWakes, WorkerEnters, ActivationStep, store, records, ghosts
  <1>2. \/ UNCHANGED run
        \/ Goto(Rec, "wait") \/ Goto(Rec, "idle")
        \/ \E j \in Journals : job' = j /\ Goto(Rec, Entry(j))
    BY DEF WorkerWakes, WorkerEnters, ActivationStep, First
  <1>3. CASE UNCHANGED run
    BY <1>0, <1>1, <1>3, SystemTruth
  <1>4. ASSUME NEW pc, Goto(Rec, pc)
        PROVE  run'[Rec] = pc /\ \A q \in Ops : run'[q] = run[q]
    BY <1>0, <1>4, OpsAssumption DEF Goto, TypeOK, LocationsTyped
  <1>5. CASE Goto(Rec, "wait") \/ Goto(Rec, "idle")
    BY <1>0, <1>1, <1>4, <1>5, SystemTruth
  <1>6. ASSUME NEW j \in Journals, job' = j, Goto(Rec, Entry(j))
        PROVE  IInv'
    <2>1. run'[Rec] = Entry(j) /\ \A q \in Ops : run'[q] = run[q]
      BY <1>4, <1>6
    <2> QED
      BY <1>0, <1>1, <1>6, <2>1, EntriesOfMoves, SystemTruth
  <1> QED
    BY <1>2, <1>3, <1>5, <1>6

\* The activation and its probe keeps the truth.
LEMMA ActivationTruth ==
  ASSUME IInv, Activation
  PROVE  IInv'
  <1>0. TypeOK /\ Bookkeeping'
    BY ActivationBooks DEF IInv, Bookkeeping
  <1>1. UNCHANGED <<file, staged, backup, upload, move, plan, known, answer, effect, stale,
                    refused>>
    BY DEF Activation, Activate, ProbeIntent, ProbePut, ProbeCopy, ProbeStore,
       ProbeSettle, store,
       records, ghosts
  <1>2. \/ run' = run /\ run[Rec] \in {"p_before", "p_passed", "p_failed"}
        \/ \E pc \in Probing \cup {"idle"} : Goto(Rec, pc)
    <2>1. ProbeSettle => \/ run' = run /\ run[Rec] \in {"p_before", "p_passed", "p_failed"}
                         \/ \E pc \in Probing \cup {"idle"} : Goto(Rec, pc)
      BY DEF ProbeSettle, Close, At, Probing
    <2>2. Activate \/ ProbeIntent \/ ProbePut \/ ProbeCopy => \E pc \in Probing \cup {"idle"} : Goto(Rec, pc)
      BY DEF Activate, ProbeIntent, ProbePut, ProbeCopy, ProbeStore, Close, Probing
    <2> QED
      BY <2>1, <2>2 DEF Activation
  <1>3. run'[Rec] \in Probing \cup {"idle"} /\ \A q \in Ops : run'[q] = run[q]
    BY <1>0, <1>2, OpsAssumption DEF Goto, TypeOK, LocationsTyped, Probing
  <1> QED
    BY <1>0, <1>1, <1>3, SystemTruth DEF Probing

\* A crash keeps the truth.
LEMMA CrashTruth ==
  ASSUME IInv, Crash, UNCHANGED probe
  PROVE  IInv'
  <1>0. TypeOK /\ Bookkeeping'
    BY CrashBooks DEF IInv, Bookkeeping
  <1>1. /\ UNCHANGED <<file, staged, backup, upload, move, plan, known, answer, effect, stale,
                       refused>>
        /\ run' = [a \in Ops \cup {Rec} |-> IF run[a] = "idle" \/ a = Rec THEN "idle" ELSE "done"]
    BY DEF Crash, store, records, ghosts
  <1>2. run'[Rec] = "idle" /\ \A q \in Ops : run'[q] \in {run[q], "done"}
    BY <1>1, OpsAssumption
  <1> QED
    BY <1>0, <1>1, <1>2, SystemTruth

\* The other client writes where a conditional upload holds the gate, and the journals
\* that name its file are no longer relied on.
LEMMA ForeignWriteTruth ==
  ASSUME IInv, NEW f \in Files, ForeignWrite(f), UNCHANGED probe
  PROVE  IInv'
  <1>0. Bookkeeping /\ TypeOK /\ Bookkeeping'
    BY ForeignWriteBooks DEF IInv, Bookkeeping
  <1>1. /\ UNCHANGED <<staged, backup, upload, move, plan, known, run, gate, job, answer,
                       effect, refused>>
        /\ file' = [file EXCEPT ![f] = Object(Guest, None)] /\ Touch(None, f)
        /\ gate \in Ops /\ Guarded(gate)
    BY DEF ForeignWrite, records, local
  <1>2. /\ Object(Guest, None).by = Guest /\ Object(Guest, None).mark = None
        /\ \A g \in Files : file'[g] = IF g = f THEN Object(Guest, None) ELSE file[g]
    BY <1>0, <1>1, Uploaded DEF Bodies, TypeOK, StoreTyped
  <1>3. \A g \in Files : FileSigned(g)'
    BY <1>1, <1>2, ConstantsAssumption DEF IInv, Truth, Bylines, FileSigned, Signed,
       Published
  <1>4. ASSUME NEW q \in Ops
        PROVE  OwnTruth(q)'
    <2>0. OwnTruth(q) /\ PlanOf(q) /\ HeldOf(q) /\ GateOf(q)
      BY <1>0 DEF IInv, Bookkeeping, Plans, Held, Doors, Truth, Bylines, Effects,
         Found, Halfway, Undisturbed, OwnTruth
    <2>1. run[q] \in Gated => plan[q].mode = "cond" /\ Guarded(q)
      BY <1>1, <2>0 DEF GateOf, Guarded
    <2>2. CopySigned(q)'
      BY <1>1, <2>0 DEF OwnTruth, CopySigned, Signed
    <2>3. EffectOf(q)'
      BY <1>1, <2>0, <2>1 DEF OwnTruth, EffectOf, Guarded, PlanOf, Gated, Committing,
         Deleting
    <2>4. FoundOf(q)'
      BY <1>1, <2>0, <2>1 DEF OwnTruth, FoundOf, Guarded, Plain, Gated, Committing
    <2>5. HalfwayOf(q)'
      BY <1>1, <2>0, <2>1 DEF OwnTruth, HalfwayOf, Runs, PlanOf, Gated, Moving
    <2>6. UndisturbedOf(q)'
      <3>1. SUFFICES ASSUME q \notin stale' PROVE UndisturbedOf(q)'
        BY DEF UndisturbedOf
      <3>2. /\ q \notin stale
            /\ upload[q] # None => plan[q].to # f
            /\ move[q] # None => plan[q].to # f /\ plan[q].from # f
        BY <1>1, <3>1, OpsAssumption DEF Touch
      <3>3. /\ upload[q] # None => file'[plan[q].to] = file[plan[q].to]
            /\ move[q] # None => /\ file'[plan[q].to] = file[plan[q].to]
                                 /\ file'[plan[q].from] = file[plan[q].from]
        BY <1>1, <3>2
      <3> QED
        BY <1>1, <2>0, <3>2, <3>3 DEF OwnTruth, UndisturbedOf, Plain, Explained,
           MoveExplained, Runs
    <2> QED
      BY <2>2, <2>3, <2>4, <2>5, <2>6 DEF OwnTruth
  <1>5. ASSUME NEW r \in Ops, Blocked(r)
        PROVE  Blocked(r)'
    <2>1. SUFFICES ASSUME ~ Guarded(r), r \notin stale'
                   PROVE  /\ run[r] = "done" /\ file'[plan[r].to] # None /\ file'[plan[r].to].gen # 0
                          /\ BlockedUpload(r)' \/ BlockedMove(r)'
      BY <1>1, <1>5 DEF Blocked, Guarded
    <2>2. /\ r \notin stale
          /\ upload[r] # None \/ move[r] # None => plan[r].to # f
      BY <1>1, <2>1, OpsAssumption DEF Touch
    <2>3. /\ run[r] = "done" /\ file[plan[r].to] # None /\ file[plan[r].to].gen # 0
          /\ BlockedUpload(r) \/ BlockedMove(r)
      BY <1>5, <2>1, <2>2 DEF Blocked
    <2>4. file'[plan[r].to] = file[plan[r].to]
      BY <1>1, <2>2, <2>3 DEF BlockedUpload, BlockedMove
    <2>5. BlockedUpload(r) => BlockedUpload(r)'
      BY <1>1, <2>4 DEF BlockedUpload, Provable, Guarded, Committed, RolledBack, Matches
    <2>6. BlockedMove(r) => BlockedMove(r)'
      BY <1>1, <2>4 DEF BlockedMove
    <2> QED
      BY <2>3, <2>4, <2>5, <2>6
  <1>6. run[Rec] # "r_finish"
    BY <1>0, <1>1, AtWork, OpsAssumption DEF Bookkeeping, Doors, Recovering
  <1>7. Refusals'
    BY <1>0, <1>1, <1>5, <1>6, KeysOf DEF IInv, Truth, Refusals, TypeOK, HistoryTyped
  <1> QED
    BY <1>0, <1>3, <1>4, <1>7 DEF IInv, Truth, Bylines, Effects, Found, Halfway,
       Undisturbed, OwnTruth

\* A step of an operation, of recovery, and any step.
LEMMA OperationTruth ==
  ASSUME IInv, NEW o \in Ops, Operation(o), UNCHANGED probe
  PROVE  IInv'
  <1>1. CASE WriteIntent(o)
    BY <1>1, WriteIntentTruth
  <1>2. CASE StageSingle(o)
    BY <1>2, StageSingleTruth
  <1>3. CASE OpenSession(o)
    BY <1>3, OpenSessionTruth
  <1>4. CASE CreateSession(o)
    BY <1>4, CreateSessionTruth
  <1>5. CASE ReleaseUnstarted(o)
    BY <1>5, ReleaseUnstartedTruth
  <1>6. CASE BindSession(o)
    BY <1>6, BindSessionTruth
  <1>7. CASE UnbindSession(o)
    BY <1>7, UnbindSessionTruth
  <1>8. CASE CompleteParts(o)
    BY <1>8, CompletePartsTruth
  <1>9. CASE PartsMissing(o)
    BY <1>9, PartsMissingTruth
  <1>10. CASE ReleaseSession(o)
    BY <1>10, ReleaseSessionTruth
  <1>11. CASE AbortSession(o)
    BY <1>11, AbortSessionTruth
  <1>12. CASE Inspect(o)
    BY <1>12, InspectTruth
  <1>13. CASE Abandon(o)
    BY <1>13, AbandonTruth
  <1>14. CASE Check(o)
    BY <1>14, CheckTruth
  <1>15. CASE WriteTransaction(o)
    BY <1>15, WriteTransactionTruth
  <1>16. CASE ReleaseIntent(o)
    BY <1>16, ReleaseIntentTruth
  <1>17. CASE BackUp(o)
    BY <1>17, BackUpTruth
  <1>18. CASE MarkBackup(o)
    BY <1>18, MarkBackupTruth
  <1>19. CASE Verify(o)
    BY <1>19, VerifyTruth
  <1>20. CASE MarkStarted(o)
    BY <1>20, MarkStartedTruth
  <1>21. CASE Publish(o)
    BY <1>21, PublishTruth
  <1>22. CASE MarkRejected(o)
    BY <1>22, MarkRejectedTruth
  <1>23. CASE Confirm(o)
    BY <1>23, ConfirmTruth
  <1>24. CASE Restore(o)
    BY <1>24, RestoreTruth
  <1>25. CASE Remark(o)
    BY <1>25, RemarkTruth
  <1>26. CASE Clean(o)
    BY <1>26, CleanTruth
  <1>27. CASE CopyFile(o)
    BY <1>27, CopyFileTruth
  <1>28. CASE ConfirmCopy(o)
    BY <1>28, ConfirmCopyTruth
  <1>29. CASE DeleteFile(o)
    BY <1>29, DeleteFileTruth
  <1>30. CASE ConfirmDelete(o)
    BY <1>30, ConfirmDeleteTruth
  <1>31. CASE BeginMove(o)
    BY <1>31, BeginMoveTruth
  <1>32. CASE MoveCopy(o, o)
    BY <1>32, MoveCopyTruth
  <1>33. CASE MoveLost(o, o)
    BY <1>33, MoveLostTruth
  <1>34. CASE MoveMark(o, o)
    BY <1>34, MoveMarkTruth
  <1>35. CASE MoveDrop(o, o)
    BY <1>35, MoveDropTruth
  <1>36. CASE MoveEnd(o, o)
    BY <1>36, MoveEndTruth
  <1> QED
    BY <1>1, <1>2, <1>3, <1>4, <1>5, <1>6, <1>7, <1>8, <1>9, <1>10, <1>11, <1>12,
       <1>13, <1>14, <1>15, <1>16, <1>17, <1>18, <1>19, <1>20, <1>21, <1>22, <1>23,
       <1>24, <1>25, <1>26, <1>27, <1>28, <1>29, <1>30, <1>31, <1>32, <1>33, <1>34,
       <1>35, <1>36 DEF Operation

\* Every step of recovery keeps the truth.
LEMMA RecoveryStepTruth ==
  ASSUME IInv, Recovery, UNCHANGED probe
  PROVE  IInv'
  <1>1. CASE WorkerWakes \/ WorkerEnters \/ ActivationStep
    BY <1>1, WorkerTruth
  <1>2. ASSUME job # None, NEW o \in Ops, job[2] = o,
               \/ RecoverParts(o) \/ RecoverUpload(o) \/ RecoverFinish(o) \/ RecoverIntent(o)
               \/ MoveCopy(Rec, o) \/ MoveLost(Rec, o) \/ MoveMark(Rec, o) \/ MoveDrop(Rec, o)
               \/ MoveEnd(Rec, o)
        PROVE  IInv'
    <2>1. CASE RecoverParts(o)
      BY <1>2, <2>1, RecoverPartsTruth
    <2>2. CASE RecoverUpload(o)
      BY <1>2, <2>2, RecoverUploadTruth
    <2>3. CASE RecoverFinish(o)
      BY <1>2, <2>3, RecoverFinishTruth
    <2>4. CASE RecoverIntent(o)
      BY <1>2, <2>4, RecoverIntentTruth
    <2>5. CASE MoveCopy(Rec, o)
      BY <1>2, <2>5, MoveCopyRecoversTruth
    <2>6. CASE MoveLost(Rec, o)
      BY <1>2, <2>6, MoveLostRecoversTruth
    <2>7. CASE MoveMark(Rec, o)
      BY <1>2, <2>7, MoveMarkRecoversTruth
    <2>8. CASE MoveDrop(Rec, o)
      BY <1>2, <2>8, MoveDropRecoversTruth
    <2>9. CASE MoveEnd(Rec, o)
      BY <1>2, <2>9, MoveEndRecoversTruth
    <2> QED
      BY <1>2, <2>1, <2>2, <2>3, <2>4, <2>5, <2>6, <2>7, <2>8, <2>9
  <1>3. job # None => job[2] \in Ops
    BY KeysOf DEF IInv, Bookkeeping, TypeOK, ProcessTyped
  <1> QED
    BY <1>1, <1>2, <1>3 DEF Recovery

\* Nothing has happened yet.
LEMMA InitTruth == Init => Truth
  <1> SUFFICES ASSUME Init PROVE Truth
    OBVIOUS
  <1>1. \A q \in Ops : /\ staged[q] = None /\ backup[q] = None /\ upload[q] = None /\ move[q] = None
                       /\ plan[q] = None /\ run[q] = "idle" /\ effect[q] = "no" /\ answer[q] = "none"
    BY DEF Init
  <1>2. run[Rec] = "idle" /\ refused = None
    BY DEF Init
  <1>3. \A f \in Files : file[f] # None => file[f] = Object(Old, None)
    BY DEF Init
  <1>4. Object(Old, None).by = Old /\ Object(Old, None).mark = None /\ Old \notin Ops
    BY ConstantsAssumption DEF Object
  <1>5. Bylines
    BY <1>1, <1>3, <1>4 DEF Bylines, FileSigned, CopySigned, Signed
  <1>6. Effects
    BY <1>1 DEF Effects, EffectOf, Moving
  <1>7. Found
    BY <1>1 DEF Found, FoundOf, Plain
  <1>8. Halfway /\ Undisturbed
    BY <1>1 DEF Halfway, HalfwayOf, Undisturbed, UndisturbedOf
  <1>9. Refusals
    BY <1>2 DEF Refusals
  <1> QED
    BY <1>5, <1>6, <1>7, <1>8, <1>9 DEF Truth

\* A step that changes nothing keeps the truth.
LEMMA StutterTruth ==
  ASSUME IInv, UNCHANGED vars
  PROVE  IInv'
  <1>0. Bookkeeping'
    BY NextBooks DEF IInv
  <1>1. UNCHANGED <<file, staged, backup, upload, move, plan, known, run, job, answer, effect, stale,
                    refused>>
    BY DEF vars, store, records, local, ghosts, limits
  <1>2. Bylines'
    BY <1>1 DEF IInv, Truth, Bylines, FileSigned, CopySigned, Signed, Published
  <1>3. Effects'
    BY <1>1 DEF IInv, Truth, Effects, EffectOf, Guarded
  <1>4. Found'
    BY <1>1 DEF IInv, Truth, Found, FoundOf, Guarded, Plain, Names, TagOf, ETag
  <1>5. Halfway'
    BY <1>1 DEF IInv, Truth, Halfway, HalfwayOf, Runs, Matches, ETag
  <1>6. Undisturbed'
    BY SMTT(40), <1>1 DEF IInv, Truth, Undisturbed, UndisturbedOf, Plain, Explained,
       MoveExplained, Runs, Matches,
       TagOf, ETag
  <1>7. Refusals'
    BY <1>1 DEF IInv, Truth, Refusals, Blocked, BlockedUpload, BlockedMove, Guarded,
       Provable,
       RolledBack, Committed, Matches, ETag
  <1> QED
    BY <1>0, <1>2, <1>3, <1>4, <1>5, <1>6, <1>7 DEF IInv, Truth

\* Every step keeps the truth.
LEMMA NextTruth == IInv /\ [Next]_vars => IInv'
  <1> SUFFICES ASSUME IInv, [Next]_vars PROVE IInv'
    OBVIOUS
  <1>1. ASSUME NEW o \in Ops, Start(o) \/ Lock(o) \/ Interrupt(o) \/ Operation(o), UNCHANGED probe
        PROVE  IInv'
    BY <1>1, StartTruth, LockTruth, InterruptTruth, OperationTruth
  <1>2. ASSUME Recovery \/ Crash, UNCHANGED probe
        PROVE  IInv'
    BY <1>2, RecoveryStepTruth, CrashTruth
  <1>3. ASSUME NEW f \in Files, ForeignWrite(f), UNCHANGED probe
        PROVE  IInv'
    BY <1>3, ForeignWriteTruth
  <1>4. CASE Activation
    BY <1>4, ActivationTruth
  <1>5. CASE UNCHANGED vars
    BY <1>5, StutterTruth
  <1> QED
    BY <1>1, <1>2, <1>3, <1>4, <1>5 DEF Next

\* The books are in order, and what they say of the files is true, in every state of
\* every behaviour.
THEOREM Invariance == Spec => []IInv
  <1>1. Init => IInv
    BY InitBooks, InitTruth DEF IInv
  <1>2. IInv /\ [Next]_vars => IInv'
    BY NextTruth
  <1> QED
    BY <1>1, <1>2, PTL DEF Spec

\* Recovery refuses a journal only when somebody else changed a file it names, when a
\* conditional publication has no proof, or when a copy gave the file an ETag that no
\* journal recorded (RefusalsHaveACause).
THEOREM RefusalsAreExplained == Spec => []RefusalsHaveACause
  <1>1. IInv => RefusalsHaveACause
    BY DEF IInv, Truth, Refusals, Blocked, RefusalsHaveACause
  <1> QED
    BY <1>1, Invariance, PTL

-----------------------------------------------------------------------------
(***************************************************************************)
(* The contract: what the callers see of a state, and the step of the      *)
(* contract that each step is.                                             *)
(***************************************************************************)

Shown(x) == IF x = None THEN None ELSE x.by
Visible == [f \in Files |-> Shown(file[f])]
ContractStep == [Contract!Next]_(Contract!vars)

\* The steps of the contract, in terms of what is visible.
LEMMA ContractStutter ==
  ASSUME Visible' = Visible, UNCHANGED <<effect, plan, answer>>
  PROVE  ContractStep
  BY DEF ContractStep, Contract!vars, Visible, Shown

\* An answer (Answer).
LEMMA ContractAnswer ==
  ASSUME NEW o \in Ops, NEW r \in {"committed", "failed", "unknown"}, answer[o] = "none",
         r = "committed" => effect[o] = "yes", r = "failed" => effect[o] = "no",
         answer' = [answer EXCEPT ![o] = r], Visible' = Visible, UNCHANGED <<effect, plan>>
  PROVE  ContractStep
  <1>1. Contract!Answer(o, r)
    BY DEF Contract!Answer, Visible, Shown
  <1> QED
    BY <1>1 DEF ContractStep, Contract!Next

\* An upload becomes visible (Replace).
LEMMA ContractReplace ==
  ASSUME NEW o \in Ops, plan[o] # None, answer[o] # "failed", effect[o] = "no",
         plan[o].mode \in Uploads, plan[o].to \in Files,
         plan[o].mode = "create" => Visible[plan[o].to] = None,
         plan[o].mode = "cond" => Visible[plan[o].to] = plan[o].expects,
         Visible' = [Visible EXCEPT ![plan[o].to] = o],
         effect' = [effect EXCEPT ![o] = "yes"], UNCHANGED <<plan, answer>>
  PROVE  ContractStep
  <1>1. Contract!Replace(o)
    BY DEF Contract!Replace, Contract!MayAct, Visible, Shown, Uploads
  <1> QED
    BY <1>1 DEF ContractStep, Contract!Next

\* A copy appears (Duplicate).
LEMMA ContractDuplicate ==
  ASSUME NEW o \in Ops, plan[o] # None, answer[o] # "failed",
         \/ plan[o].mode = "copy" /\ effect[o] = "no" /\ effect' = [effect EXCEPT ![o] = "yes"]
         \/ /\ plan[o].mode = "move" /\ effect[o] \in {"no", "half"}
            /\ effect' = [effect EXCEPT ![o] = "half"],
         Visible[plan[o].from] # None, Visible[plan[o].to] \in {None, Visible[plan[o].from]},
         Visible' = [Visible EXCEPT ![plan[o].to] = Visible[plan[o].from]],
         UNCHANGED <<plan, answer>>
  PROVE  ContractStep
  <1>1. effect' = [effect EXCEPT ![o] = IF plan[o].mode = "copy" THEN "yes" ELSE "half"]
    OBVIOUS
  <1>2. Contract!Duplicate(o)
    BY <1>1 DEF Contract!Duplicate, Contract!MayAct, Visible, Shown
  <1> QED
    BY <1>2 DEF ContractStep, Contract!Next

\* A file goes away (Remove).
LEMMA ContractRemove ==
  ASSUME NEW o \in Ops, plan[o] # None, answer[o] # "failed",
         \/ plan[o].mode = "delete" /\ effect[o] = "no"
         \/ /\ plan[o].mode = "move" /\ effect[o] \in {"half", "yes"}
            /\ Visible[plan[o].to] = Visible[plan[o].from],
         Visible[plan[o].from] # None,
         Visible' = [Visible EXCEPT ![plan[o].from] = None],
         effect' = [effect EXCEPT ![o] = "yes"], UNCHANGED <<plan, answer>>
  PROVE  ContractStep
  <1>1. Contract!Remove(o)
    BY DEF Contract!Remove, Contract!MayAct, Visible, Shown
  <1> QED
    BY <1>1 DEF ContractStep, Contract!Next

\* Another client writes (Foreign).
LEMMA ContractForeign ==
  ASSUME NEW f \in Files, NEW o \in Ops, plan[o] # None, plan[o].mode = "cond", plan[o].to = f,
         answer[o] = "none", Visible' = [Visible EXCEPT ![f] = Guest],
         UNCHANGED <<effect, plan, answer>>
  PROVE  ContractStep
  <1>1. Contract!Foreign(f)
    BY DEF Contract!Foreign, Visible, Shown
  <1> QED
    BY <1>1 DEF ContractStep, Contract!Next

\* What a written file shows, and what one operation changes of the history.
LEMMA Seen ==
  ASSUME TypeOK, NEW p \in Files
  PROVE  /\ Visible[p] = Shown(file[p])
         /\ \A o, x : Writes(o, p, x) => Visible' = [Visible EXCEPT ![p] = Shown(x)]
         /\ Unfiled => Visible' = Visible
  BY DEF Visible, Writes, Unfiled, TypeOK, StoreTyped

\* What a step writes of the history of its operation.
LEMMA Written ==
  ASSUME TypeOK, NEW o \in Ops, NEW a \in {Rec, o}, Carries(a, o)
  PROVE  /\ effect' = [effect EXCEPT ![o] = effect'[o]]
         /\ answer' = [answer EXCEPT ![o] = answer'[o]]
         /\ effect'[o] = effect[o] => effect' = effect
         /\ answer'[o] = answer[o] => answer' = answer
  BY DEF Carries, Alone, Only, TypeOK, HistoryTyped

\* A step that changes no file, at most answers.
Replies(a, o) == /\ Carries(a, o) /\ UNCHANGED <<file, plan>> /\ effect'[o] = effect[o]
                 /\ answer'[o] = answer[o] \/ run[o] # "done"
                 /\ answer'[o] = "committed" => effect[o] = "yes" \/ answer[o] = "committed"

\* A step that changes no file is an answer or nothing to the contract.
LEMMA RepliesStep ==
  ASSUME IInv, IInv', NEW o \in Ops, NEW a \in {Rec, o}, Replies(a, o)
  PROVE  ContractStep
  <1>0. TypeOK /\ TypeOK' /\ EffectOf(o) /\ EffectOf(o)'
    BY DEF IInv, Bookkeeping, Truth, Effects
  <1>1. Visible' = Visible /\ effect' = effect /\ plan' = plan
    BY <1>0, Written DEF Replies, Visible
  <1>2. CASE answer'[o] = answer[o]
    BY <1>0, <1>1, <1>2, Written, ContractStutter DEF Replies
  <1>3. CASE answer'[o] # answer[o]
    <2>1. answer[o] = "none" /\ answer'[o] \in {"committed", "failed", "unknown"}
      BY <1>0, <1>3 DEF Replies, EffectOf, TypeOK, HistoryTyped
    <2>2. /\ answer'[o] = "committed" => effect[o] = "yes"
          /\ answer'[o] = "failed" => effect[o] = "no"
      BY <1>0, <1>1, <2>1 DEF Replies, EffectOf
    <2> QED
      BY <1>0, <1>1, <2>1, <2>2, Written, ContractAnswer DEF Replies
  <1> QED
    BY <1>2, <1>3

\* The operations that write no file.
LEMMA QuietReplies ==
  ASSUME IInv, NEW o \in Ops, UNCHANGED probe,
         WriteIntent(o) \/ StageSingle(o) \/ OpenSession(o) \/ CreateSession(o) \/
           ReleaseUnstarted(o) \/ BindSession(o) \/ UnbindSession(o) \/ CompleteParts(o) \/
           PartsMissing(o) \/ ReleaseSession(o) \/ AbortSession(o) \/ Inspect(o) \/
           Abandon(o) \/ Check(o) \/ WriteTransaction(o) \/ ReleaseIntent(o) \/ BackUp(o) \/
           MarkBackup(o) \/ Verify(o) \/ MarkStarted(o) \/ MarkRejected(o) \/ Confirm(o) \/
           Remark(o) \/ Clean(o) \/ ConfirmCopy(o) \/ ConfirmDelete(o) \/ BeginMove(o) \/
           Lock(o) \/ Interrupt(o)
  PROVE  Replies(o, o)
  <1>0. Bookkeeping /\ TypeOK /\ EffectOf(o) /\ o # Rec
    BY OpsAssumption DEF IInv, Bookkeeping, Truth, Effects
  <1>1. ASSUME Foreground(o), UNCHANGED <<file, plan, effect>>, run[o] # "done",
               answer'[o] = "committed" => effect[o] = "yes" \/ answer[o] = "committed"
        PROVE  Replies(o, o)
    BY <1>0, <1>1 DEF Foreground, Replies, Carries
  <1>2. CASE WriteIntent(o)
    BY <1>0, <1>1, <1>2, WriteIntentEffect DEF WriteIntentDoes, Stays, Leaves
  <1>3. CASE StageSingle(o)
    BY <1>0, <1>1, <1>3, StageSingleEffect DEF StageSingleDoes, Stays, Leaves
  <1>4. CASE OpenSession(o)
    BY <1>0, <1>1, <1>4, OpenSessionEffect DEF OpenSessionDoes, Stays, Leaves
  <1>5. CASE CreateSession(o)
    BY <1>0, <1>1, <1>5, CreateSessionEffect DEF CreateSessionDoes, Stays, Leaves
  <1>6. CASE ReleaseUnstarted(o)
    BY <1>0, <1>1, <1>6, ReleaseUnstartedEffect DEF ReleaseUnstartedDoes, Stays, Leaves
  <1>7. CASE BindSession(o)
    BY <1>0, <1>1, <1>7, BindSessionEffect DEF BindSessionDoes, Stays, Leaves
  <1>8. CASE UnbindSession(o)
    BY <1>0, <1>1, <1>8, UnbindSessionEffect DEF UnbindSessionDoes, Stays, Leaves
  <1>9. CASE CompleteParts(o)
    BY <1>0, <1>1, <1>9, CompletePartsEffect DEF CompletePartsDoes, Stays, Leaves
  <1>10. CASE PartsMissing(o)
    BY <1>0, <1>1, <1>10, PartsMissingEffect DEF PartsMissingDoes, Stays, Leaves
  <1>11. CASE ReleaseSession(o)
    BY <1>0, <1>1, <1>11, ReleaseSessionEffect DEF ReleaseSessionDoes, Stays, Leaves
  <1>12. CASE AbortSession(o)
    BY <1>0, <1>1, <1>12, AbortSessionEffect DEF AbortSessionDoes, Stays, Leaves
  <1>13. CASE Inspect(o)
    BY <1>0, <1>1, <1>13, InspectEffect DEF InspectDoes, Stays, Leaves
  <1>14. CASE Abandon(o)
    BY <1>0, <1>1, <1>14, AbandonEffect DEF AbandonDoes, Stays, Leaves
  <1>15. CASE Check(o)
    BY <1>0, <1>1, <1>15, CheckEffect DEF CheckDoes, Stays, Leaves
  <1>16. CASE WriteTransaction(o)
    BY <1>0, <1>1, <1>16, WriteTransactionEffect DEF WriteTransactionDoes, Stays, Leaves
  <1>17. CASE ReleaseIntent(o)
    BY <1>0, <1>1, <1>17, ReleaseIntentEffect DEF ReleaseIntentDoes, Stays, Leaves
  <1>18. CASE BackUp(o)
    BY <1>0, <1>1, <1>18, BackUpEffect DEF BackUpDoes, Stays, Leaves
  <1>19. CASE MarkBackup(o)
    BY <1>0, <1>1, <1>19, MarkBackupEffect DEF MarkBackupDoes, Stays, Leaves
  <1>20. CASE Verify(o)
    BY <1>0, <1>1, <1>20, VerifyEffect DEF VerifyDoes, Stays, Leaves
  <1>21. CASE MarkStarted(o)
    BY <1>0, <1>1, <1>21, MarkStartedEffect DEF MarkStartedDoes, Stays, Leaves
  <1>22. CASE MarkRejected(o)
    BY <1>0, <1>1, <1>22, MarkRejectedEffect DEF MarkRejectedDoes, Stays, Leaves
  <1>23. CASE Confirm(o)
    BY <1>0, <1>1, <1>23, ConfirmEffect DEF ConfirmDoes, Stays, Leaves
  <1>24. CASE Remark(o)
    BY <1>0, <1>1, <1>24, RemarkEffect DEF RemarkDoes, Stays, Leaves
  <1>25. CASE Clean(o)
    BY <1>0, <1>1, <1>25, CleanEffect DEF CleanDoes, Stays, Leaves, EffectOf
  <1>26. CASE ConfirmCopy(o)
    BY <1>0, <1>1, <1>26, ConfirmCopyEffect DEF ConfirmCopyDoes, Stays, Leaves, EffectOf
  <1>27. CASE ConfirmDelete(o)
    BY <1>0, <1>1, <1>27, ConfirmDeleteEffect DEF ConfirmDeleteDoes, Stays, Leaves,
       EffectOf
  <1>28. CASE BeginMove(o)
    BY <1>0, <1>1, <1>28, BeginMoveEffect DEF BeginMoveDoes, Stays, Leaves
  <1>29. CASE Lock(o)
    BY <1>0, <1>1, <1>29, LockEffect DEF LockDoes, Stays, Leaves
  <1>30. CASE Interrupt(o)
    BY <1>0, <1>1, <1>30, InterruptEffect DEF InterruptDoes, Stays, Leaves
  <1> QED
    BY <1>1, <1>2, <1>3, <1>4, <1>5, <1>6, <1>7, <1>8, <1>9, <1>10, <1>11, <1>12,
       <1>13, <1>14, <1>15, <1>16, <1>17, <1>18, <1>19, <1>20, <1>21, <1>22, <1>23,
       <1>24, <1>25, <1>26, <1>27, <1>28, <1>29, <1>30

\* Whoever asks asks for something a client may ask for (Start).
LEMMA StartStep ==
  ASSUME IInv, NEW o \in Ops, Start(o), UNCHANGED probe
  PROVE  ContractStep
  <1>0. Bookkeeping /\ TypeOK /\ PlanOf(o)
    BY DEF IInv, Bookkeeping, Plans
  <1>1. StartDoes(o)
    BY <1>0, StartEffect
  <1>2. Carries(o, o)
    BY <1>1, OpsAssumption DEF StartDoes, Foreground, Carries
  <1>3. plan[o] = None /\ plan' = [plan EXCEPT ![o] = plan'[o]] /\ plan'[o] \in Requests
    BY <1>0, <1>1, <1>2 DEF StartDoes, PlanOf, Carries, Alone, Only, TypeOK,
       ProcessTyped
  <1>4. Requests = Contract!Plans
    <2>1. Modes = Contract!Modes /\ Bodies = Contract!Writers
      BY DEF Modes, Uploads, Bodies, Contract!Modes, Contract!Writers
    <2> QED
      BY <2>1 DEF Requests, Contract!Plans
  <1>5. Contract!Ask(o)
    BY <1>1, <1>3, <1>4 DEF StartDoes, Contract!Ask
  <1> QED
    BY <1>5 DEF ContractStep, Contract!Next

\* A publication replaces what the request named (Publish).
LEMMA PublishStep ==
  ASSUME IInv, NEW o \in Ops, Publish(o), UNCHANGED probe
  PROVE  ContractStep
  <1>0. /\ Bookkeeping /\ TypeOK /\ PlanOf(o) /\ HeldOf(o) /\ EffectOf(o) /\ FoundOf(o)
        /\ CopySigned(o)
    BY DEF IInv, Bookkeeping, Plans, Held, Truth, Bylines, Effects, Found
  <1>1. PublishDoes(o)
    BY <1>0, PublishEffect
  <1>2. Carries(o, o)
    BY <1>1, OpsAssumption DEF PublishDoes, Foreground, Carries
  <1>3. /\ plan[o] # None /\ plan[o].mode \in Uploads /\ plan[o].to \in Files
        /\ staged[o] \in Objects /\ upload[o] # None /\ effect[o] = "no" /\ answer[o] = "none"
        /\ staged[o].by = o /\ file[plan[o].to] \in Objects \cup {None}
    BY <1>0, <1>1, Mine
       DEF PublishDoes, PlanOf, HeldOf, EffectOf, CopySigned, Committing, Moving,
          TypeOK, HistoryTyped
  <1>4. ASSUME NEW keep \in BOOLEAN, Writes(o, plan[o].to, Copied(staged[o], keep)),
               effect'[o] = "yes", Publishable(o)
        PROVE  ContractStep
    <2>1. PICK x \in Objects : x = Copied(staged[o], keep)
      BY <1>3, Copies
    <2>2. Shown(x) = o
      BY <1>3, <2>1, Copies DEF Shown
    <2>3. Visible' = [Visible EXCEPT ![plan[o].to] = o]
      BY <1>0, <1>3, <1>4, <2>1, <2>2, Seen
    <2>4. plan[o].mode = "create" => Visible[plan[o].to] = None
      BY <1>0, <1>3, <1>4, Seen DEF Publishable, Shown
    <2>5. plan[o].mode = "cond" => Visible[plan[o].to] = plan[o].expects
      <3>1. ASSUME plan[o].mode = "cond"
            PROVE  Names(TagOf(file[plan[o].to]), plan[o].expects)
        BY <1>0, <1>3, <1>4, <3>1 DEF FoundOf, Publishable
      <3>2. Names(TagOf(file[plan[o].to]), plan[o].expects) => Shown(file[plan[o].to]) = plan[o].expects
        BY <1>3, Tags, ObjectTags DEF Names, Shown
      <3> QED
        BY <1>0, <1>3, <3>1, <3>2, Seen
    <2> QED
      BY <1>0, <1>1, <1>2, <1>3, <1>4, <2>3, <2>4, <2>5, Written,
         ContractReplace DEF PublishDoes
  <1>5. CASE effect'[o] = effect[o] /\ Unfiled
    BY <1>0, <1>1, <1>2, <1>3, <1>5, Seen, Written, ContractStutter DEF PublishDoes
  <1> QED
    BY <1>1, <1>4, <1>5 DEF PublishDoes

\* A rollback shows what was visible before (Restore).
LEMMA RestoreStep ==
  ASSUME IInv, IInv', NEW o \in Ops, Restore(o), UNCHANGED probe
  PROVE  ContractStep
  <1>0. /\ Bookkeeping /\ TypeOK /\ PlanOf(o) /\ HeldOf(o) /\ EffectOf(o) /\ FoundOf(o)
    BY DEF IInv, Bookkeeping, Plans, Held, Truth, Effects, Found
  <1>1. RestoreDoes(o)
    BY <1>0, RestoreEffect
  <1>2. Carries(o, o)
    BY <1>1, OpsAssumption DEF RestoreDoes, Foreground, Carries
  <1>3. /\ plan[o] # None /\ plan[o].to \in Files /\ Plain(o)
        /\ backup[o] \in Objects /\ effect[o] = "no"
    BY <1>0, <1>1, Mine
       DEF RestoreDoes, PlanOf, HeldOf, EffectOf, FoundOf, Guarded, Plain, Uploads,
          Committing, Moving,
           TypeOK, HistoryTyped
  <1>4. file[plan[o].to] \in Objects /\ file[plan[o].to].by = backup[o].by
    BY <1>0, <1>1, <1>3, Mine, Tags, ObjectTags, ConstantsAssumption DEF RestoreDoes,
       FoundOf
  <1>5. Visible' = Visible
    <2>1. ASSUME NEW keep \in BOOLEAN, Writes(o, plan[o].to, Copied(backup[o], keep))
          PROVE  Visible' = Visible
      <3>1. PICK x \in Objects : x = Copied(backup[o], keep)
        BY <1>3, Copies
      <3>2. Shown(x) = Shown(file[plan[o].to])
        BY <1>3, <1>4, <3>1, Copies, ObjectTags DEF Shown
      <3>3. Visible' = [Visible EXCEPT ![plan[o].to] = Visible[plan[o].to]]
        BY <1>0, <1>3, <2>1, <3>1, <3>2, Seen
      <3> QED
        BY <3>3 DEF Visible
    <2> QED
      BY <1>0, <1>1, <1>3, <2>1, Seen DEF RestoreDoes
  <1>6. effect' = effect /\ plan' = plan
    BY <1>1 DEF RestoreDoes
  <1>7. CASE answer'[o] = answer[o]
    BY <1>0, <1>2, <1>5, <1>6, <1>7, Written, ContractStutter
  <1>8. CASE answer'[o] = "failed"
    <2>1. answer[o] = "none"
      BY <1>0, <1>1 DEF RestoreDoes, EffectOf
    <2> QED
      BY <1>0, <1>2, <1>3, <1>5, <1>6, <1>8, <2>1, Written, ContractAnswer
  <1> QED
    BY <1>1, <1>7, <1>8 DEF RestoreDoes, Stays, Leaves

\* A copy never replaces another body (CopyFile).
LEMMA CopyFileStep ==
  ASSUME IInv, IInv', NEW o \in Ops, CopyFile(o), UNCHANGED probe
  PROVE  ContractStep
  <1>0. Bookkeeping /\ TypeOK /\ PlanOf(o) /\ EffectOf(o)
    BY DEF IInv, Bookkeeping, Plans, Truth, Effects
  <1>1. CopyFileDoes(o)
    BY <1>0, CopyFileEffect
  <1>2. Carries(o, o)
    BY <1>1, OpsAssumption DEF CopyFileDoes, Foreground, Carries
  <1>3. /\ plan[o] # None /\ plan[o].mode = "copy" /\ plan[o].from \in Files /\ plan[o].to \in Files
        /\ effect[o] = "no" /\ answer[o] = "none"
        /\ file[plan[o].from] \in Objects \cup {None}
    BY <1>0, <1>1, Mine DEF CopyFileDoes, PlanOf, EffectOf, Copying, Moving, TypeOK,
       HistoryTyped
  <1>4. CASE Unfiled /\ effect'[o] = effect[o]
    <2>1. Replies(o, o)
      BY <1>1, <1>2, <1>3, <1>4 DEF CopyFileDoes, Unfiled, Stays, Leaves, Replies
    <2> QED
      BY <2>1, RepliesStep
  <1>5. ASSUME NEW keep \in BOOLEAN, Writes(o, plan[o].to, Copied(file[plan[o].from], keep)),
               file[plan[o].from] # None, file[plan[o].to] = None, Stays(o), effect'[o] = "yes"
        PROVE  ContractStep
    <2>1. PICK x \in Objects : x = Copied(file[plan[o].from], keep)
      BY <1>3, <1>5, Copies
    <2>2. Shown(x) = Shown(file[plan[o].from]) /\ Shown(x) # None
      BY <1>3, <1>5, <2>1, Copies, ObjectTags, ConstantsAssumption DEF Shown
    <2>3. /\ Visible' = [Visible EXCEPT ![plan[o].to] = Visible[plan[o].from]]
          /\ Visible[plan[o].from] # None /\ Visible[plan[o].to] = None
      BY <1>0, <1>3, <1>5, <2>1, <2>2, Seen DEF Shown
    <2>4. answer' = answer /\ effect' = [effect EXCEPT ![o] = "yes"]
      BY <1>0, <1>2, <1>5, Written DEF Stays
    <2> QED
      BY <1>1, <1>3, <2>3, <2>4, ContractDuplicate DEF CopyFileDoes
  <1> QED
    BY <1>1, <1>4, <1>5 DEF CopyFileDoes

\* A deletion removes what is there (DeleteFile).
LEMMA DeleteFileStep ==
  ASSUME IInv, IInv', NEW o \in Ops, DeleteFile(o), UNCHANGED probe
  PROVE  ContractStep
  <1>0. Bookkeeping /\ TypeOK /\ PlanOf(o) /\ EffectOf(o)
    BY DEF IInv, Bookkeeping, Plans, Truth, Effects
  <1>1. DeleteFileDoes(o)
    BY <1>0, DeleteFileEffect
  <1>2. Carries(o, o)
    BY <1>1, OpsAssumption DEF DeleteFileDoes, Foreground, Carries
  <1>3. /\ plan[o] # None /\ plan[o].mode = "delete" /\ plan[o].from \in Files
        /\ effect[o] = "no" /\ answer[o] = "none"
        /\ file[plan[o].from] \in Objects \cup {None}
    BY <1>0, <1>1, Mine DEF DeleteFileDoes, PlanOf, EffectOf, Deleting, Moving,
       TypeOK, HistoryTyped
  <1>4. CASE Unfiled /\ effect'[o] = effect[o]
    <2>1. Replies(o, o)
      BY <1>1, <1>2, <1>3, <1>4 DEF DeleteFileDoes, Unfiled, Stays, Leaves, Replies
    <2> QED
      BY <2>1, RepliesStep
  <1>5. CASE Writes(o, plan[o].from, None) /\ file[plan[o].from] # None /\ Stays(o) /\ effect'[o] = "yes"
    <2>1. /\ Visible' = [Visible EXCEPT ![plan[o].from] = None] /\ Visible[plan[o].from] # None
      BY <1>0, <1>3, <1>5, Seen, ObjectTags, ConstantsAssumption DEF Shown
    <2>2. answer' = answer /\ effect' = [effect EXCEPT ![o] = "yes"]
      BY <1>0, <1>2, <1>5, Written DEF Stays
    <2> QED
      BY <1>1, <1>3, <2>1, <2>2, ContractRemove DEF DeleteFileDoes
  <1> QED
    BY <1>1, <1>4, <1>5 DEF DeleteFileDoes

\* A step of a move that writes no file, whoever takes it.
LEMMA MoveReplies ==
  ASSUME IInv, NEW o \in Ops, NEW a \in {Rec, o}, Carries(a, o), MovesOn(a, o),
         Unfiled, UNCHANGED plan, effect'[o] = effect[o],
         Halts(a, o) \/ \E pc \in Moving : Goes(a, pc)
  PROVE  Replies(a, o)
  <1>1. answer'[o] = answer[o] \/ (run[o] # "done" /\ answer'[o] = "unknown")
    <2>1. CASE a = Rec
      BY <2>1 DEF Halts, Ended, Goes
    <2>2. CASE a = o
      BY <2>2, OpsAssumption DEF Halts, Leaves, Goes, MovesOn, Moving
    <2> QED
      BY <2>1, <2>2
  <1> QED
    BY <1>1 DEF Replies, Unfiled

\* A move that lost an answer is a step of the contract.
LEMMA MoveLostStep ==
  ASSUME IInv, IInv', NEW o \in Ops, NEW a \in {Rec, o}, MoveLostDoes(a, o), MovesOn(a, o)
  PROVE  ContractStep
  BY MoveReplies, RepliesStep DEF MoveLostDoes, Unfiled

\* Recording the copy of a move is a step of the contract.
LEMMA MoveMarkStep ==
  ASSUME IInv, IInv', NEW o \in Ops, NEW a \in {Rec, o}, MoveMarkDoes(a, o), MovesOn(a, o)
  PROVE  ContractStep
  BY MoveReplies, RepliesStep DEF MoveMarkDoes, Unfiled, Moving

\* The operation that ends its move has moved it (MoveEnd).
LEMMA MoveEndStep ==
  ASSUME IInv, IInv', NEW o \in Ops, NEW a \in {Rec, o}, MoveEndDoes(a, o), MovesOn(a, o)
  PROVE  ContractStep
  <1>1. EffectOf(o)
    BY DEF IInv, Truth, Effects
  <1>2. Replies(a, o)
    <2>1. CASE a = Rec
      BY <2>1 DEF MoveEndDoes, Ended, Replies
    <2>2. CASE a = o
      BY <1>1, <2>2, OpsAssumption DEF MoveEndDoes, Leaves, EffectOf, Replies
    <2> QED
      BY <2>1, <2>2
  <1> QED
    BY <1>2, RepliesStep

\* The copy of a move, made or found there (MoveCopy).
LEMMA MoveCopyStep ==
  ASSUME IInv, IInv', NEW o \in Ops, NEW a \in {Rec, o}, MoveCopyDoes(a, o), MovesOn(a, o)
  PROVE  ContractStep
  <1>0. TypeOK /\ Carries(a, o) /\ HalfwayOf(o)
    BY DEF IInv, Bookkeeping, Truth, Halfway, MoveCopyDoes
  <1>1. /\ plan[o] # None /\ plan[o].mode = "move" /\ plan[o].from \in Files /\ plan[o].to \in Files
        /\ move[o] # None /\ move[o].stage = "prepared" /\ effect[o] \in {"no", "half"}
        /\ file[plan[o].from] \in Objects \cup {None} /\ file[plan[o].to] \in Objects \cup {None}
        /\ answer[o] # "failed"
    BY <1>0, Mover DEF MoveCopyDoes, HalfwayOf, Moving
  <1>2. ASSUME Unfiled, effect'[o] = effect[o], Halts(a, o) \/ \E pc \in Moving : Goes(a, pc)
        PROVE  ContractStep
    BY <1>0, <1>2, MoveReplies, RepliesStep DEF MoveCopyDoes
  <1>3. ASSUME Visible[plan[o].from] # None, Visible[plan[o].to] \in {None, Visible[plan[o].from]},
               Visible' = [Visible EXCEPT ![plan[o].to] = Visible[plan[o].from]],
               effect'[o] = "half", UNCHANGED answer
        PROVE  ContractStep
    BY <1>0, <1>1, <1>3, Written, ContractDuplicate DEF MoveCopyDoes
  <1>4. CASE /\ Goes(a, "mv_mark") /\ Unfiled
             /\ Matches(file[plan[o].from], move[o].src) /\ file[plan[o].to] # None
             /\ ETag(file[plan[o].to]) = move[o].src \/ file[plan[o].to].mark = o
             /\ effect'[o] = "half"
    <2>1. file[plan[o].to].mark # o
      BY <1>1, <1>4, ObjectTags, OpsAssumption
         DEF IInv, Truth, Bylines, FileSigned, Signed, Published, Uploads
    <2>2. /\ file[plan[o].from] \in Objects /\ file[plan[o].to] \in Objects
          /\ file[plan[o].to].by = file[plan[o].from].by
      BY <1>1, <1>4, <2>1, SameETag DEF Matches
    <2>3. Visible[plan[o].from] # None /\ Visible[plan[o].to] = Visible[plan[o].from]
      BY <1>0, <1>1, <2>2, Seen, ObjectTags, ConstantsAssumption DEF Shown
    <2>4. Visible' = [Visible EXCEPT ![plan[o].to] = Visible[plan[o].from]]
      BY <1>0, <1>1, <1>4, <2>3, Seen DEF Visible
    <2> QED
      BY <1>3, <1>4, <2>3, <2>4 DEF Goes
  <1>5. ASSUME NEW keep \in BOOLEAN, Matches(file[plan[o].from], move[o].src), file[plan[o].to] = None,
               Goes(a, "mv_mark") \/ Goes(a, "mv_lost"),
               Writes(o, plan[o].to, Copied(file[plan[o].from], keep)), effect'[o] = "half"
        PROVE  ContractStep
    <2>1. file[plan[o].from] \in Objects
      BY <1>1, <1>5 DEF Matches
    <2>2. PICK x \in Objects : x = Copied(file[plan[o].from], keep)
      BY <2>1, Copies
    <2>3. Shown(x) = Shown(file[plan[o].from]) /\ Shown(x) # None
      BY <2>1, <2>2, Copies, ObjectTags, ConstantsAssumption DEF Shown
    <2>4. /\ Visible' = [Visible EXCEPT ![plan[o].to] = Visible[plan[o].from]]
          /\ Visible[plan[o].from] # None /\ Visible[plan[o].to] = None
      BY <1>0, <1>1, <1>5, <2>2, <2>3, Seen DEF Shown
    <2> QED
      BY <1>3, <1>5, <2>4 DEF Goes
  <1> QED
    BY <1>2, <1>4, <1>5 DEF MoveCopyDoes, Moving

\* The source of a move goes while its body is at the destination (MoveDrop).
LEMMA MoveDropStep ==
  ASSUME IInv, IInv', NEW o \in Ops, NEW a \in {Rec, o}, MoveDropDoes(a, o), MovesOn(a, o)
  PROVE  ContractStep
  <1>0. TypeOK /\ Carries(a, o) /\ HalfwayOf(o)
    BY DEF IInv, Bookkeeping, Truth, Halfway, MoveDropDoes
  <1>1. /\ plan[o] # None /\ plan[o].mode = "move" /\ plan[o].from \in Files /\ plan[o].to \in Files
        /\ move[o] # None /\ move[o] \in Moves /\ Runs(o, "mv_drop")
        /\ file[plan[o].from] \in Objects \cup {None} /\ file[plan[o].to] \in Objects \cup {None}
        /\ answer[o] # "failed"
    BY <1>0, Mover DEF MoveDropDoes, Moving
  <1>2. /\ move[o].stage = "copied" /\ effect[o] \in {"half", "yes"}
        /\ move[o].dst # None /\ move[o].dst[1] = move[o].src[1]
    BY <1>0, <1>1 DEF HalfwayOf
  <1>3. ASSUME Unfiled, effect'[o] = effect[o], Halts(a, o) \/ \E pc \in Moving : Goes(a, pc)
        PROVE  ContractStep
    BY <1>0, <1>3, MoveReplies, RepliesStep DEF MoveDropDoes
  <1>4. CASE /\ Matches(file[plan[o].to], move[o].dst) /\ Matches(file[plan[o].from], move[o].src)
             /\ Goes(a, "mv_end") \/ Goes(a, "mv_lost")
             /\ Writes(o, plan[o].from, None) /\ effect'[o] = "yes"
    <2>1. /\ file[plan[o].from] \in Objects /\ file[plan[o].to] \in Objects
          /\ file[plan[o].to].by = file[plan[o].from].by
      BY <1>1, <1>2, <1>4, ObjectTags DEF Matches
    <2>2. Visible[plan[o].from] # None /\ Visible[plan[o].to] = Visible[plan[o].from]
      BY <1>0, <1>1, <2>1, Seen, ObjectTags, ConstantsAssumption DEF Shown
    <2>3. Visible' = [Visible EXCEPT ![plan[o].from] = None]
      BY <1>0, <1>1, <1>4, Seen DEF Shown
    <2>4. UNCHANGED <<plan, answer>> /\ effect' = [effect EXCEPT ![o] = "yes"]
      BY <1>0, <1>4, Written DEF MoveDropDoes, Goes
    <2> QED
      BY <1>1, <1>2, <2>2, <2>3, <2>4, ContractRemove
  <1> QED
    BY <1>3, <1>4 DEF MoveDropDoes, Moving

\* A step of an operation, of recovery, and any step.
LEMMA OperationStep ==
  ASSUME IInv, IInv', NEW o \in Ops, Operation(o), UNCHANGED probe
  PROVE  ContractStep
  <1>0. Bookkeeping /\ o # Rec
    BY OpsAssumption DEF IInv
  <1>1. CASE Publish(o)
    BY <1>1, PublishStep
  <1>2. CASE Restore(o)
    BY <1>2, RestoreStep
  <1>3. CASE CopyFile(o)
    BY <1>3, CopyFileStep
  <1>4. CASE DeleteFile(o)
    BY <1>4, DeleteFileStep
  <1>5. CASE MoveCopy(o, o)
    BY <1>0, <1>5, MoveCopyEffect, MoveCopyStep DEF MoveCopyDoes, MovesOn, Moving
  <1>6. CASE MoveLost(o, o)
    BY <1>0, <1>6, MoveLostEffect, MoveLostStep DEF MoveLostDoes, MovesOn, Moving
  <1>7. CASE MoveMark(o, o)
    <2>1. move[o] # None /\ known[o] \in ETags
      BY <1>0, <1>7, Mine DEF MoveMark, At, Bookkeeping, TypeOK, Held, HeldOf, Moving
    <2> QED
      BY <2>1, <1>0, <1>7, MoveMarkEffect, MoveMarkStep DEF MoveMarkDoes, MovesOn,
         Moving
  <1>8. CASE MoveDrop(o, o)
    BY <1>0, <1>8, MoveDropEffect, MoveDropStep DEF MoveDropDoes, MovesOn, Moving
  <1>9. CASE MoveEnd(o, o)
    BY <1>0, <1>9, MoveEndEffect, MoveEndStep DEF MoveEndDoes, MovesOn, Moving
  <1>10. CASE WriteIntent(o) \/ StageSingle(o) \/ OpenSession(o) \/ CreateSession(o) \/
              ReleaseUnstarted(o) \/ BindSession(o) \/ UnbindSession(o) \/ CompleteParts(o) \/
              PartsMissing(o) \/ ReleaseSession(o) \/ AbortSession(o) \/ Inspect(o) \/
              Abandon(o) \/ Check(o) \/ WriteTransaction(o) \/ ReleaseIntent(o) \/
              BackUp(o) \/ MarkBackup(o) \/ Verify(o) \/ MarkStarted(o) \/ MarkRejected(o) \/
              Confirm(o) \/ Remark(o) \/ Clean(o) \/ ConfirmCopy(o) \/ ConfirmDelete(o) \/
              BeginMove(o)
    BY <1>10, QuietReplies, RepliesStep
  <1> QED
    BY <1>1, <1>2, <1>3, <1>4, <1>5, <1>6, <1>7, <1>8, <1>9, <1>10 DEF Operation

\* Every step of recovery is a step of the contract.
LEMMA RecoveryStep ==
  ASSUME IInv, IInv', Recovery, UNCHANGED probe
  PROVE  ContractStep
  <1>0. Bookkeeping /\ TypeOK
    BY DEF IInv, Bookkeeping
  <1>1. CASE WorkerWakes \/ WorkerEnters \/ ActivationStep
    <2>1. UNCHANGED <<file, plan, effect, answer>>
      BY <1>1 DEF WorkerWakes, WorkerEnters, ActivationStep, store, ghosts
    <2> QED
      BY <2>1, ContractStutter DEF Visible
  <1>2. ASSUME job # None, NEW o \in Ops, job[2] = o,
               \/ RecoverParts(o) \/ RecoverUpload(o) \/ RecoverFinish(o) \/ RecoverIntent(o)
        PROVE  ContractStep
    <2>1. UNCHANGED <<file, plan, effect, answer>>
      BY <1>0, <1>2 DEF RecoverParts, RecoverUpload, RecoverFinish, RecoverIntent,
         store, ghosts
    <2> QED
      BY <2>1, ContractStutter DEF Visible
  <1>3. ASSUME job # None, NEW o \in Ops, job[2] = o,
               \/ MoveCopy(Rec, o) \/ MoveLost(Rec, o) \/ MoveMark(Rec, o) \/ MoveDrop(Rec, o)
               \/ MoveEnd(Rec, o)
        PROVE  ContractStep
    <2>1. CASE MoveCopy(Rec, o)
      BY <1>0, <1>3, <2>1, MoveCopyEffect, MoveCopyStep DEF MoveCopyDoes, MovesOn,
         Moving
    <2>2. CASE MoveLost(Rec, o)
      BY <1>0, <1>3, <2>2, MoveLostEffect, MoveLostStep DEF MoveLostDoes, MovesOn,
         Moving
    <2>3. CASE MoveMark(Rec, o)
      <3>1. move[o] # None /\ known[o] \in ETags
        BY <1>0, <1>3, <2>3, Mine DEF MoveMark, At, Bookkeeping, Worked, Moving
      <3> QED
        BY <3>1, <1>0, <1>3, <2>3, MoveMarkEffect, MoveMarkStep DEF MoveMarkDoes,
           MovesOn, Moving
    <2>4. CASE MoveDrop(Rec, o)
      BY <1>0, <1>3, <2>4, MoveDropEffect, MoveDropStep DEF MoveDropDoes, MovesOn,
         Moving
    <2>5. CASE MoveEnd(Rec, o)
      BY <1>0, <1>3, <2>5, MoveEndEffect, MoveEndStep DEF MoveEndDoes, MovesOn, Moving
    <2> QED
      BY <1>3, <2>1, <2>2, <2>3, <2>4, <2>5
  <1>4. job # None => job[2] \in Ops
    BY <1>0, KeysOf DEF TypeOK, ProcessTyped
  <1> QED
    BY <1>1, <1>2, <1>3, <1>4 DEF Recovery

\* Somebody else writes only where a conditional upload is under way (ForeignWrite).
LEMMA ForeignWriteStep ==
  ASSUME IInv, NEW f \in Files, ForeignWrite(f)
  PROVE  ContractStep
  <1>0. TypeOK
    BY DEF IInv, Bookkeeping
  <1>1. PICK o \in Ops : gate = o /\ Guarded(o) /\ plan[o].to = f
    BY DEF ForeignWrite
  <1>2. plan[o] # None /\ answer[o] = "none"
    BY <1>1 DEF IInv, Bookkeeping, Doors, GateOf, Gated, Plans, PlanOf, Truth,
       Effects, EffectOf,
       Committing, Copying, Deleting, Moving
  <1>3. Object(Guest, None) # None /\ Object(Guest, None).by = Guest
    BY Uploaded DEF Bodies
  <1>4. Visible' = [Visible EXCEPT ![f] = Guest]
    BY <1>0, <1>3 DEF ForeignWrite, Visible, Shown, TypeOK, StoreTyped
  <1> QED
    BY <1>1, <1>2, <1>4, ContractForeign DEF ForeignWrite, Guarded, local

\* At first the contract's files are as they were found.
LEMMA InitContract == Init => Contract!Init
  <1> SUFFICES ASSUME Init PROVE Contract!Init
    OBVIOUS
  <1>1. \A f \in Files : Shown(file[f]) \in {Old, Guest} \cup {None}
    <2>1. Object(Old, None).by = Old
      BY DEF Object
    <2> QED
      BY <2>1 DEF Init, Shown
  <1>2. Visible \in [Files -> {Old, Guest} \cup {None}]
    BY <1>1 DEF Visible
  <1>3. /\ effect = [o \in Ops |-> "no"] /\ plan = [o \in Ops |-> None]
        /\ answer = [o \in Ops |-> "none"]
    BY DEF Init
  <1> QED
    BY <1>2, <1>3 DEF Contract!Init, Visible, Shown

\* Every step is a step of the contract or changes nothing it shows.
LEMMA NextContract == IInv /\ [Next]_vars => ContractStep
  <1> SUFFICES ASSUME IInv, [Next]_vars PROVE ContractStep
    OBVIOUS
  <1>0. IInv'
    BY NextTruth
  <1>1. ASSUME NEW o \in Ops, Start(o) \/ Lock(o) \/ Interrupt(o) \/ Operation(o), UNCHANGED probe
        PROVE  ContractStep
    <2>1. CASE Start(o)
      BY <1>1, <2>1, StartStep
    <2>2. CASE Lock(o) \/ Interrupt(o)
      BY <1>0, <1>1, <2>2, QuietReplies, RepliesStep
    <2>3. CASE Operation(o)
      BY <1>0, <1>1, <2>3, OperationStep
    <2> QED
      BY <1>1, <2>1, <2>2, <2>3
  <1>2. CASE Recovery /\ UNCHANGED probe
    BY <1>0, <1>2, RecoveryStep
  <1>3. ASSUME NEW f \in Files, ForeignWrite(f)
        PROVE  ContractStep
    BY <1>3, ForeignWriteStep
  <1>4. CASE Crash \/ Activation \/ UNCHANGED vars
    <2>1. UNCHANGED <<file, plan, effect, answer>>
      BY <1>4 DEF Crash, Activation, Activate, ProbeIntent, ProbePut, ProbeCopy,
         ProbeSettle,
         ProbeStore, vars, store, local, ghosts
    <2> QED
      BY <2>1, ContractStutter DEF Visible
  <1> QED
    BY <1>1, <1>2, <1>3, <1>4 DEF Next

\* The backend implements its contract: files change only as asked, at most once per
\* operation, and an answer is true for the rest of the execution (KeepsContract).
THEOREM ContractIsKept == Spec => KeepsContract
  <1>1. Init => Contract!Init
    BY InitContract
  <1>2. IInv /\ [Next]_vars => [Contract!Next]_(Contract!vars)
    BY NextContract DEF ContractStep
  <1> QED
    BY <1>1, <1>2, Invariance, PTL DEF Spec, KeepsContract, Contract!Spec

=============================================================================
