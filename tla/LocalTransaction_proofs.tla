----------------------- MODULE LocalTransaction_proofs -----------------------
(***************************************************************************)
(* Proofs about LocalTransaction for any number of transactions, paths,    *)
(* originals, operations, crashes and I/O errors.                          *)
(*                                                                         *)
(* The argument.  What a power failure may leave is a set of images, so    *)
(* the invariant says of EVERY image what it says of the one the process   *)
(* sees (ImageOK, CrashOK): what it holds was started by a transaction,    *)
(* published content has a deletion record before it is trash, a journal's *)
(* published mark and a receipt tell the truth, and at most one attempt of *)
(* an operation is published.  A step adds one image at most (FsStep), so  *)
(* it is enough that it keeps ImageOK of the new one.  What keeps a second *)
(* attempt out: one attempt of an item runs at a time (ActiveOK); before   *)
(* its publishing rename nothing of its operation is published and no      *)
(* other attempt has a journal (LiveOK); the one publication whose mark is *)
(* still to come is "pending" and is settled before the next change        *)
(* (PendingOK, UnsettledOK); and an item goes back to "failed" only after  *)
(* a recovery without an error, when its attempts have no journal (ItemOK, *)
(* the variable window).  RecoveryOK: a verdict is what really happened.   *)
(* ControlOK fixes what the holder of the gate works on at each location.  *)
(*                                                                         *)
(* What a client finds is a second layer over Inv (Shown).  Every image    *)
(* shows at each path a content its clients may find, or an unpublished    *)
(* journal has it parked (ShownIn).  A content stops being allowed when a  *)
(* change is answered, and by then the last sync has ruled out every image *)
(* from before it (AnsweredOK).  The rest of Shown is what the moves rely  *)
(* on: what is about to leave was announced (AimOK), what is overwritten   *)
(* is a free name or was parked (JournaledOK), what was published stays in *)
(* its place (PlacedOK), and recovery empties a backup only when its       *)
(* destination is there, or was published (MendedOK).                      *)
(*                                                                         *)
(* The first part says what each action does to the images, one lemma per  *)
(* action; then come ImageOK of the new image, the types, the control      *)
(* flow, one lemma per conjunct of Inv, and the same again for Shown.      *)
(***************************************************************************)
EXTENDS LocalTransaction, FiniteSetTheorems, TLAPS

-----------------------------------------------------------------------------
(* Where the gate holder is *)

\* before the publishing rename, and after its journal is settled
PreLocations  == {"admit", "copy", "own", "anchor", "journal", "backup", "publish", "direct"}
PostLocations == {"receipt", "clean", "unanchor", "retire", "done"}
\* recovery of one journal, once it is judged
JudgedLocations == {"rec_receipt", "rec_backup", "rec_staging", "rec_anchor", "rec_rollback"}

\* settling a journal and emptying a backup are subroutines
At(locs) == \/ pc \in locs
            \/ pc \in {"settle", "settled", "b_debt", "b_bin"} /\ ret \in locs

Restarting == booting \/ pc \in {"down", "refused"}

Started(id) == info[id] # Void

\* a transaction whose publishing rename is still to come
Waiting(id) == owner[id] = "writer" /\ ~ (cur = id /\ At(CommitLocations))
Live(id)    == Waiting(id) \/ (cur = id /\ At(PreLocations))
Active(id)  == owner[id] = "writer" \/ (cur = id /\ At(CommitLocations))

-----------------------------------------------------------------------------
(* Images *)

\* what an image holds belongs to a started transaction, and a content in the
\* user tree or parked in a backup was published
StartedOK(img) ==
    /\ \A id \in img.seen \cup img.upload \cup img.copies : Started(id)
    /\ \A id \in Ids : (id \in img.trash \/ img.journal[id] # Void) => Started(id)
    /\ \A p \in Paths : img.dest[p] \in Ids => img.dest[p] \in img.seen
    /\ \A id \in Ids : img.backup[id] \in Ids => img.backup[id] \in img.seen
    /\ (img.upload \cup img.copies) \cap img.seen = {}

\* published content and originals in the trash have a record
DebtOK(img) == \A x \in img.trash : (x \in Originals \/ x \in img.seen) => x \in img.debt

\* the evidence in a journal
MarkOK(img) == \A id \in Ids : img.journal[id] # Void /\ img.journal[id].published => id \in img.seen
PlaceOK(img) ==
    \A id \in img.seen : Tracked(id) /\ Unpublished(img, id) => img.dest[info[id].path] = id

\* one attempt of an operation is published, and no other has a journal then
OnceOK(img) ==
    \A op \in Ops : \A i, j \in Attempts(op) :
        i # j /\ j \in img.seen => i \notin img.seen /\ img.journal[i] = Void

NoneSeen(img, op) == \A id \in Attempts(op) : id \notin img.seen
SomeSeen(img, op) == \E id \in Attempts(op) : id \in img.seen

ReceiptOK(img) ==
    \A op \in Ops : /\ img.receipt[op] = "committed" => SomeSeen(img, op)
                    /\ img.receipt[op] = "rolled_back" => NoneSeen(img, op)

ImageOK(img) == StartedOK(img) /\ DebtOK(img) /\ MarkOK(img) /\ PlaceOK(img) /\ OnceOK(img)
                /\ ReceiptOK(img)

-----------------------------------------------------------------------------
(* The state *)

\* a transaction is started before it has an owner, and its item fixes its path
InfoOK ==
    \A id \in Ids : /\ owner[id] # "unused" => Started(id)
                    /\ Started(id) =>
                         /\ Moves(id) => info[id].src \in Paths
                         /\ info[id].op \in Ops <=> Tracked(id)
                         /\ Tracked(id) => info[id].path = OpPath[info[id].op]

\* where the holder of the gate is fixes what it works on
ControlOK ==
    /\ booting => Recovering
    /\ Recovering \/ pc \in {"down", "refused"} => \A id \in Ids : owner[id] # "writer"
    /\ pc \in {"settle", "settled"} => ret \in {"admit", "copy", "own", "direct", "d_debt", "scan", "receipt"}
    /\ pc \in {"b_debt", "b_bin"} => ret \in {"unanchor", "rec_staging"}
    /\ At(CommitLocations) => cur \in Ids /\ Started(cur)
    /\ (At({"copy", "direct", "direct_done"}) \/ (pc \in {"settle", "settled"} /\ ret = "own"))
          => ~ Tracked(cur)
    /\ pc \in {"b_debt", "b_bin"} => disk.backup[cur] \in Contents
    /\ pc = "b_bin" => disk.backup[cur] \in disk.debt
    /\ At({"d_debt", "d_bin"}) => cur \in Paths /\ disk.dest[cur] # Void
    /\ pc \in {"d_done"} => cur \in Paths
    /\ pc = "d_bin" => disk.dest[cur] \in disk.debt
    /\ pc \in {"w_trash", "w_debt"} => cur \in Contents
    /\ pc = "w_debt" => cur \notin disk.trash
    /\ pc = "sweep" => cur \in Contents \cup {Void}

\* recovery works on the journals on disk, and its verdict is what happened
RecoveryOK ==
    /\ pc \in RecoveryLocations \ {"scan"} \/ (pc \in {"b_debt", "b_bin"} /\ ret = "rec_staging") =>
         todo.journals = {id \in Ids : disk.journal[id] # Void}
    /\ pc = "sweep" => todo.journals = {}
    /\ At(JudgedLocations \cup {"rec_retire"}) => cur \in todo.journals
    /\ At(JudgedLocations) /\ Tracked(cur) =>
         /\ verdict = "committed" => cur \in disk.seen
         /\ verdict = "rolled_back" => cur \notin disk.seen

\* every image a power failure can leave means the same as the one the process sees
CrashOK ==
    /\ [img |-> disk, later |-> {}] \in crash
    /\ \A c \in crash : ImageOK(c.img) /\ c.img.seen \subseteq disk.seen

\* the publication whose outcome is pending (settle_publication)
PendingOK ==
    /\ pc \in {"settle", "settled"} => pending # Void
    /\ pc = "settled" => \A c \in crash : pending \in c.img.seen \/ "journals" \in c.later
    /\ pc \in {"settled"} => dirty = {"journals"} /\ disk.journal[pending].published
    /\ pc \in {"settle", "settled"} /\ ret = "receipt" => pending = cur
    /\ pending # Void =>
         /\ Started(pending) /\ disk.journal[pending] # Void /\ pending \in disk.seen
         /\ Tracked(pending) => disk.receipt[info[pending].op] # "committed"
         /\ pc \in {"idle", "settle", "settled", "w_trash", "w_debt", "w_done", "prune"}
         /\ ~ Restarting

\* a publication that is neither marked nor pending is durable
UnsettledOK ==
    /\ \A id \in disk.seen : Tracked(id) /\ Unpublished(disk, id) => pending = id \/ Restarting
    /\ \A id \in disk.seen : Tracked(id) /\ id # pending => \A c \in crash : id \in c.img.seen

\* one attempt of an upload item runs at a time
ActiveOK ==
    \A id \in Ids : Active(id) /\ Tracked(id) =>
      /\ item[info[id].op] = "running"
      /\ \A i \in Attempts(info[id].op) : i # id => ~ Active(i)

\* a transaction before its publishing rename has published nothing
LiveOK ==
    \A id \in Ids : Live(id) =>
      /\ Started(id) /\ id \notin disk.seen /\ id \notin disk.trash
      /\ Waiting(id) => disk.journal[id] = Void
      /\ Tracked(id) =>
           /\ NoneSeen(disk, info[id].op)
           /\ \A i \in Attempts(info[id].op) : i # id => disk.journal[i] = Void

\* the evidence the holder of the gate has when it publishes
PublisherOK ==
    /\ pc \in {"own", "anchor", "journal", "backup", "publish"} /\ Tracked(cur) =>
         disk.receipt[info[cur].op] # "rolled_back"
    /\ pc \in {"backup", "publish"} => disk.journal[cur] # Void
    /\ At(PostLocations) /\ Tracked(cur) => cur \in disk.seen

\* what an upload item claims of every image
ItemOK ==
    \A op \in Ops :
      /\ item[op] \in {"pending", "failed"} =>
           /\ NoneSeen(disk, op)
           /\ ~ Restarting => \A i \in Attempts(op) : disk.journal[i] = Void
      /\ item[op] = "complete" => \A c \in crash : SomeSeen(c.img, op)
      /\ op \in window =>
           /\ item[op] = "unknown"
           /\ \A i \in Attempts(op) : disk.journal[i] = Void

Inv == /\ TypeOK /\ InfoOK /\ ControlOK /\ RecoveryOK /\ CrashOK /\ PendingOK
       /\ UnsettledOK /\ ActiveOK /\ LiveOK /\ PublisherOK /\ ItemOK

-----------------------------------------------------------------------------
(* What an action does to the filesystem *)

FsTypeOK ==
    /\ disk \in Image
    /\ crash \subseteq [img : Image, later : SUBSET Dirs] /\ dirty \subseteq Dirs

\* after any step but a power failure: the image the process sees, and images that
\* were there, with more touched since
FsStep ==
    /\ [img |-> disk', later |-> {}] \in crash'
    /\ \A c \in crash' : \/ c.img = disk'
                         \/ \E b \in crash : c.img = b.img /\ b.later \subseteq c.later

Present == [img |-> disk, later |-> {}] \in crash

\* A step that writes adds one image (Write).
LEMMA WriteStep ==
  ASSUME NEW new, NEW ds, NEW flush, Write(new, ds, flush)
  PROVE  FsStep /\ disk' = new
  BY DEF Write, FsStep, Durable

\* A step that leaves the filesystem alone.
LEMMA NoWriteStep ==
  ASSUME Present, UNCHANGED fs
  PROVE  FsStep
  BY DEF Present, FsStep, fs

\* A step that writes an image keeps the types (Write).
LEMMA WriteTyped ==
  ASSUME FsTypeOK, NEW new \in Image, NEW ds \in SUBSET Dirs, NEW flush \in SUBSET Dirs,
         Write(new, ds, flush)
  PROVE  FsTypeOK'
  <1>1. disk' \in Image /\ dirty' \in SUBSET Dirs
    BY DEF Write
  <1>2. ASSUME NEW c \in crash'
        PROVE  c \in [img : Image, later : SUBSET Dirs]
    <2>1. \/ \E b \in crash : c = [img |-> b.img, later |-> b.later \cup ds]
          \/ c = [img |-> new, later |-> {}]
      BY <1>2 DEF Write, Durable
    <2> QED
      BY <2>1 DEF FsTypeOK
  <1> QED
    BY <1>1, <1>2 DEF FsTypeOK

-----------------------------------------------------------------------------
(* What a change of the namespace leaves alone *)

SameClaims  == /\ disk'.journal = disk.journal /\ disk'.receipt = disk.receipt
               /\ disk'.seen = disk.seen
SameTree    == disk'.dest = disk.dest /\ disk'.backup = disk.backup
SameBin     == disk'.trash = disk.trash /\ disk'.debt = disk.debt
SameStaging == disk'.upload = disk.upload /\ disk'.copies = disk.copies

Kept == SameClaims /\ SameTree /\ SameBin /\ SameStaging

OnlyReceipt(op, r) ==
    /\ SameTree /\ SameBin /\ SameStaging
    /\ disk'.journal = disk.journal /\ disk'.seen = disk.seen
    /\ disk'.receipt = [disk.receipt EXCEPT ![op] = r]

OnlyJournal(id, j) ==
    /\ SameTree /\ SameBin /\ SameStaging
    /\ disk'.receipt = disk.receipt /\ disk'.seen = disk.seen
    /\ disk'.journal = [disk.journal EXCEPT ![id] = j]

OnlyTree(dest, backup) ==
    /\ SameClaims /\ SameBin /\ SameStaging
    /\ disk'.dest = dest /\ disk'.backup = backup

OnlyStaging == SameClaims /\ SameTree /\ SameBin

\* The parts of an image.
LEMMA ImageFields ==
  ASSUME NEW img \in Image
  PROVE  /\ img.dest \in [Paths -> Contents \cup {Void}]
         /\ img.upload \in SUBSET Ids /\ img.copies \in SUBSET Ids
         /\ img.backup \in [Ids -> Contents \cup {Void}]
         /\ img.trash \in SUBSET Contents /\ img.debt \in SUBSET Contents
         /\ img.anchor \in SUBSET Ids
         /\ img.journal \in [Ids -> Journal \cup {Void}]
         /\ img.receipt \in [Ops -> Receipts] /\ img.seen \in SUBSET Ids
  BY SMT DEF Image

\* An image with one part replaced.
LEMMA FieldUpdates ==
  ASSUME NEW img \in Image
  PROVE  /\ \A d \in [Paths -> Contents \cup {Void}] : [img EXCEPT !.dest = d] \in Image
         /\ \A u \in SUBSET Ids : [img EXCEPT !.upload = u] \in Image
         /\ \A u \in SUBSET Ids : [img EXCEPT !.copies = u] \in Image
         /\ \A u \in SUBSET Ids : [img EXCEPT !.anchor = u] \in Image
         /\ \A u \in SUBSET Ids : [img EXCEPT !.seen = u] \in Image
         /\ \A b \in [Ids -> Contents \cup {Void}] : [img EXCEPT !.backup = b] \in Image
         /\ \A t \in SUBSET Contents : [img EXCEPT !.trash = t] \in Image
         /\ \A t \in SUBSET Contents : [img EXCEPT !.debt = t] \in Image
  <1>1. ASSUME NEW d \in [Paths -> Contents \cup {Void}]
        PROVE  [img EXCEPT !.dest = d] \in Image
    BY SMT DEF Image
  <1>2. ASSUME NEW u \in SUBSET Ids
        PROVE  [img EXCEPT !.upload = u] \in Image
    BY SMT DEF Image
  <1>3. ASSUME NEW u \in SUBSET Ids
        PROVE  [img EXCEPT !.copies = u] \in Image
    BY SMT DEF Image
  <1>4. ASSUME NEW u \in SUBSET Ids
        PROVE  [img EXCEPT !.anchor = u] \in Image
    BY SMT DEF Image
  <1>5. ASSUME NEW u \in SUBSET Ids
        PROVE  [img EXCEPT !.seen = u] \in Image
    BY SMT DEF Image
  <1>6. ASSUME NEW b \in [Ids -> Contents \cup {Void}]
        PROVE  [img EXCEPT !.backup = b] \in Image
    BY SMT DEF Image
  <1>7. ASSUME NEW t \in SUBSET Contents
        PROVE  [img EXCEPT !.trash = t] \in Image
    BY SMT DEF Image
  <1>8. ASSUME NEW t \in SUBSET Contents
        PROVE  [img EXCEPT !.debt = t] \in Image
    BY SMT DEF Image
  <1> QED
    BY <1>1, <1>2, <1>3, <1>4, <1>5, <1>6, <1>7, <1>8

\* Two staging directories at once.
LEMMA StagingUpdate ==
  ASSUME NEW img \in Image, NEW u \in SUBSET Ids,
         NEW c \in SUBSET Ids
  PROVE  [img EXCEPT !.upload = u, !.copies = c] \in Image
  <1> DEFINE i1 == [img EXCEPT !.upload = u]
             i2 == [i1 EXCEPT !.copies = c]
  <1>1. i2 = [img EXCEPT !.upload = u, !.copies = c]
    BY SMT DEF Image
  <1>2. i1 \in Image
    BY FieldUpdates
  <1>3. i2 \in Image
    <2> HIDE DEF i1
    <2> QED
      BY <1>2, FieldUpdates
  <1> QED
    BY <1>1, <1>3

\* The user tree and the backups.
LEMMA TreeUpdate ==
  ASSUME NEW img \in Image, NEW d \in [Paths -> Contents \cup {Void}],
         NEW b \in [Ids -> Contents \cup {Void}]
  PROVE  [img EXCEPT !.dest = d, !.backup = b] \in Image
  <1> DEFINE i1 == [img EXCEPT !.dest = d]
             i2 == [i1 EXCEPT !.backup = b]
  <1>1. i2 = [img EXCEPT !.dest = d, !.backup = b]
    BY SMT DEF Image
  <1>2. i1 \in Image
    BY FieldUpdates
  <1>3. i2 \in Image
    <2> HIDE DEF i1
    <2> QED
      BY <1>2, FieldUpdates
  <1> QED
    BY <1>1, <1>3

\* The backups and the trash.
LEMMA BackupTrashUpdate ==
  ASSUME NEW img \in Image, NEW b \in [Ids -> Contents \cup {Void}],
         NEW t \in SUBSET Contents
  PROVE  [img EXCEPT !.backup = b, !.trash = t] \in Image
  <1> DEFINE i1 == [img EXCEPT !.backup = b]
             i2 == [i1 EXCEPT !.trash = t]
  <1>1. i2 = [img EXCEPT !.backup = b, !.trash = t]
    BY SMT DEF Image
  <1>2. i1 \in Image
    BY FieldUpdates
  <1>3. i2 \in Image
    <2> HIDE DEF i1
    <2> QED
      BY <1>2, FieldUpdates
  <1> QED
    BY <1>1, <1>3

\* The user tree and the trash.
LEMMA DestTrashUpdate ==
  ASSUME NEW img \in Image, NEW d \in [Paths -> Contents \cup {Void}],
         NEW t \in SUBSET Contents
  PROVE  [img EXCEPT !.dest = d, !.trash = t] \in Image
  <1> DEFINE i1 == [img EXCEPT !.dest = d]
             i2 == [i1 EXCEPT !.trash = t]
  <1>1. i2 = [img EXCEPT !.dest = d, !.trash = t]
    BY SMT DEF Image
  <1>2. i1 \in Image
    BY FieldUpdates
  <1>3. i2 \in Image
    <2> HIDE DEF i1
    <2> QED
      BY <1>2, FieldUpdates
  <1> QED
    BY <1>1, <1>3

\* The copies and the trash.
LEMMA CopiesTrashUpdate ==
  ASSUME NEW img \in Image, NEW c \in SUBSET Ids,
         NEW t \in SUBSET Contents
  PROVE  [img EXCEPT !.copies = c, !.trash = t] \in Image
  <1> DEFINE i1 == [img EXCEPT !.copies = c]
             i2 == [i1 EXCEPT !.trash = t]
  <1>1. i2 = [img EXCEPT !.copies = c, !.trash = t]
    BY SMT DEF Image
  <1>2. i1 \in Image
    BY FieldUpdates
  <1>3. i2 \in Image
    <2> HIDE DEF i1
    <2> QED
      BY <1>2, FieldUpdates
  <1> QED
    BY <1>1, <1>3

\* The user tree, the staging directories and the history.
LEMMA PublicationUpdate ==
  ASSUME NEW img \in Image, NEW d \in [Paths -> Contents \cup {Void}],
         NEW u \in SUBSET Ids,
         NEW c \in SUBSET Ids,
         NEW s \in SUBSET Ids
  PROVE  [img EXCEPT !.dest = d, !.upload = u, !.copies = c, !.seen = s] \in Image
  <1> DEFINE i1 == [img EXCEPT !.dest = d]
             i2 == [i1 EXCEPT !.upload = u]
             i3 == [i2 EXCEPT !.copies = c]
             i4 == [i3 EXCEPT !.seen = s]
  <1>1. i4 = [img EXCEPT !.dest = d, !.upload = u, !.copies = c, !.seen = s]
    BY SMT DEF Image
  <1>2. i1 \in Image
    BY FieldUpdates
  <1>3. i2 \in Image
    <2> HIDE DEF i1
    <2> QED
      BY <1>2, FieldUpdates
  <1>4. i3 \in Image
    <2> HIDE DEF i2
    <2> QED
      BY <1>3, FieldUpdates
  <1>5. i4 \in Image
    <2> HIDE DEF i3
    <2> QED
      BY <1>4, FieldUpdates
  <1> QED
    BY <1>1, <1>5

\* Staging files and anchors come and go without touching anything else.
LEMMA StagingFields ==
  ASSUME NEW img \in Image, NEW u \in SUBSET Ids, NEW c \in SUBSET Ids
  PROVE  /\ [img EXCEPT !.upload = u] \in Image
         /\ [img EXCEPT !.copies = u] \in Image
         /\ [img EXCEPT !.anchor = u] \in Image
         /\ [img EXCEPT !.upload = u, !.copies = c] \in Image
  BY FieldUpdates, StagingUpdate

\* A receipt is written (ensure_receipt, prune_receipt).
LEMMA ReceiptFields ==
  ASSUME FsTypeOK, NEW op \in Ops, NEW r \in Receipts,
         disk' = [disk EXCEPT !.receipt[op] = r]
  PROVE  [disk EXCEPT !.receipt[op] = r] \in Image /\ OnlyReceipt(op, r)
  BY SMT DEF FsTypeOK, Image, OnlyReceipt, SameTree, SameBin, SameStaging

\* A journal is written, marked or retired (ReplaceJournal).
LEMMA JournalFields ==
  ASSUME FsTypeOK, NEW id \in Ids, NEW j \in Journal \cup {Void},
         disk' = [disk EXCEPT !.journal[id] = j]
  PROVE  [disk EXCEPT !.journal[id] = j] \in Image /\ OnlyJournal(id, j)
  BY SMT DEF FsTypeOK, Image, OnlyJournal, SameTree, SameBin, SameStaging

\* Contents move between the user tree and the backups.
LEMMA OnlyTreeFields ==
  ASSUME disk \in Image, NEW d, NEW b, disk' = [disk EXCEPT !.dest = d, !.backup = b]
  PROVE  OnlyTree(d, b)
  BY SMT DEF Image, OnlyTree, SameClaims, SameBin, SameStaging

\* A content that moves, and its types.
LEMMA TreeFields ==
  ASSUME FsTypeOK, NEW id \in Ids, NEW p \in Paths, NEW x \in Contents \cup {Void},
         NEW y \in Contents \cup {Void},
         disk' = [disk EXCEPT !.dest[p] = x, !.backup[id] = y]
  PROVE  /\ [disk EXCEPT !.dest[p] = x, !.backup[id] = y] \in Image
         /\ OnlyTree([disk.dest EXCEPT ![p] = x], [disk.backup EXCEPT ![id] = y])
  <1> DEFINE d == [disk.dest EXCEPT ![p] = x]
             b == [disk.backup EXCEPT ![id] = y]
  <1>1. disk \in Image
    BY DEF FsTypeOK
  <1>2. disk' = [disk EXCEPT !.dest = d, !.backup = b]
    BY <1>1, SMT DEF Image
  <1>3. d \in [Paths -> Contents \cup {Void}] /\ b \in [Ids -> Contents \cup {Void}]
    BY <1>1, ImageFields
  <1> HIDE DEF d, b
  <1>4. [disk EXCEPT !.dest = d, !.backup = b] \in Image
    BY <1>1, <1>3, TreeUpdate
  <1>5. OnlyTree(d, b)
    BY <1>1, <1>2, OnlyTreeFields, Zenon
  <1> QED
    BY <1>2, <1>4, <1>5 DEF d, b

\* The publishing rename (publish_replacement, move_path).
LEMMA PublishedFields ==
  ASSUME FsTypeOK, NEW id \in Ids, info[id] \in Info, Moves(id) => info[id].src \in Paths,
         disk' = Published(disk, id)
  PROVE  /\ Published(disk, id) \in Image
         /\ SameBin /\ disk'.journal = disk.journal /\ disk'.receipt = disk.receipt
         /\ disk'.backup = disk.backup /\ disk'.seen = disk.seen \cup {id}
         /\ disk'.upload = disk.upload \ {id} /\ disk'.copies = disk.copies \ {id}
         /\ ~ Moves(id) => disk'.dest = [disk.dest EXCEPT ![info[id].path] = id]
         /\ Moves(id) => disk'.dest = [disk.dest EXCEPT ![info[id].path] = disk.dest[info[id].src],
                                                        ![info[id].src] = Void]
  <1> DEFINE p == info[id].path
             s == info[id].src
             dest == IF Moves(id) THEN [disk.dest EXCEPT ![p] = disk.dest[s], ![s] = Void]
                     ELSE [disk.dest EXCEPT ![p] = id]
  <1>1. p \in Paths /\ disk \in Image /\ id \in Contents
    BY SMT DEF FsTypeOK, Info, Contents
  <1>2. dest \in [Paths -> Contents \cup {Void}]
    <2>1. disk.dest \in [Paths -> Contents \cup {Void}]
      BY <1>1, ImageFields
    <2>2. CASE Moves(id)
      BY <2>1, <2>2, <1>1
    <2>3. CASE ~ Moves(id)
      BY <2>1, <2>3, <1>1
    <2> QED
      BY <2>2, <2>3
  <1>3. disk' = [disk EXCEPT !.dest = dest, !.upload = @ \ {id}, !.copies = @ \ {id},
                             !.seen = @ \cup {id}]
    BY DEF Published, Moves
  <1> HIDE DEF dest
  <1>4. /\ disk' \in Image /\ SameBin /\ disk'.journal = disk.journal
        /\ disk'.receipt = disk.receipt /\ disk'.backup = disk.backup
        /\ disk'.seen = disk.seen \cup {id} /\ disk'.upload = disk.upload \ {id}
        /\ disk'.copies = disk.copies \ {id} /\ disk'.dest = dest
    <2> DEFINE u == disk.upload \ {id}
               c == disk.copies \ {id}
               n == disk.seen \cup {id}
    <2>1. u \in SUBSET Ids /\ c \in SUBSET Ids /\ n \in SUBSET Ids
      BY <1>1, ImageFields
    <2>2. disk' = [disk EXCEPT !.dest = dest, !.upload = u, !.copies = c, !.seen = n]
      BY <1>3
    <2> HIDE DEF u, c, n
    <2>3. [disk EXCEPT !.dest = dest, !.upload = u, !.copies = c, !.seen = n] \in Image
      BY <1>1, <1>2, <2>1, PublicationUpdate
    <2>4. /\ disk'.dest = dest /\ disk'.upload = u /\ disk'.copies = c /\ disk'.seen = n
          /\ disk'.backup = disk.backup /\ disk'.trash = disk.trash /\ disk'.debt = disk.debt
          /\ disk'.journal = disk.journal /\ disk'.receipt = disk.receipt
      <3>1. disk \in Image
        BY <1>1
      <3> QED
        BY <3>1, <2>2, SMT DEF Image
    <2> QED
      BY <2>2, <2>3, <2>4 DEF u, c, n, SameBin
  <1> QED
    BY <1>4 DEF dest

\* Receiving and reclaiming staging files adds an image as well (Stage, CleanAbandoned).
LEMMA StagingStep ==
  ASSUME FsTypeOK, disk' \in Image, NEW ds \in SUBSET Dirs, dirty' = dirty,
         crash' = {[img |-> c.img, later |-> c.later \cup ds] : c \in crash}
                     \cup {[img |-> disk', later |-> {}]}
  PROVE  FsStep /\ FsTypeOK'
  <1>1. FsStep
    BY DEF FsStep
  <1>2. ASSUME NEW c \in crash'
        PROVE  c \in [img : Image, later : SUBSET Dirs]
    <2>1. \/ \E b \in crash : c = [img |-> b.img, later |-> b.later \cup ds]
          \/ c = [img |-> disk', later |-> {}]
      BY <1>2
    <2> QED
      BY <2>1 DEF FsTypeOK
  <1> QED
    BY <1>1, <1>2 DEF FsTypeOK

\* Where the staging resource of a started transaction is (replacement_source).
LEMMA SourceDirs ==
  ASSUME NEW id \in Ids, info[id] \in Info, Moves(id) => info[id].src \in Paths
  PROVE  SourceDir(id) \in Dirs /\ info[id].path \in Paths /\ info[id].path \in Dirs
  BY SMT DEF SourceDir, Dirs, Internal, Info, Moves

\* The internal directories.
LEMMA InternalDirs ==
  /\ {"uploads"} \in SUBSET Dirs /\ {"copies"} \in SUBSET Dirs /\ {"anchors"} \in SUBSET Dirs
  /\ {"journals"} \in SUBSET Dirs /\ {"deletions"} \in SUBSET Dirs
  /\ {"receipts"} \in SUBSET Dirs /\ {"backups"} \in SUBSET Dirs /\ {"trash"} \in SUBSET Dirs
  /\ {"backups", "trash"} \in SUBSET Dirs /\ {"copies", "trash"} \in SUBSET Dirs
  /\ {} \in SUBSET Dirs
  /\ \A p \in Paths : {p} \in SUBSET Dirs /\ {p, "backups"} \in SUBSET Dirs
                      /\ {p, "trash"} \in SUBSET Dirs
                      /\ \A d \in Dirs : {p, "backups", d} \in SUBSET Dirs /\ {p, d} \in SUBSET Dirs
                                         /\ {p} \cup {d} \in SUBSET Dirs
  BY DEF Dirs, Internal

-----------------------------------------------------------------------------
(* What each action does to the disk *)

\* The parts of the inductive invariant that concern types.
LEMMA Typed ==
  ASSUME Inv
  PROVE  /\ FsTypeOK /\ Present /\ InfoOK /\ ControlOK
         /\ info \in [Ids -> Info \cup {Void}] /\ scene \in Scenes
         /\ pending \in Ids \cup {Void}
         /\ disk \in Image
  BY DEF Inv, TypeOK, FsTypeOK, CrashOK, Present

\* A started transaction and its paths.
LEMMA StartedFields ==
  ASSUME Inv, NEW id \in Ids, Started(id)
  PROVE  /\ info[id] \in Info /\ info[id].path \in Paths /\ SourceDir(id) \in Dirs
         /\ info[id].kind \in AllKinds /\ info[id].op \in Ops \cup {Void}
         /\ Moves(id) => info[id].src \in Paths
         /\ Tracked(id) <=> info[id].op \in Ops
         /\ Tracked(id) => info[id].path = OpPath[info[id].op] /\ ~ Moves(id)
  <1>1. info[id] \in Info
    BY Typed DEF Started
  <1>2. /\ Moves(id) => info[id].src \in Paths
        /\ Tracked(id) <=> info[id].op \in Ops
        /\ Tracked(id) => info[id].path = OpPath[info[id].op]
    BY Typed DEF InfoOK
  <1>3. /\ info[id].path \in Paths /\ info[id].kind \in AllKinds
        /\ info[id].op \in Ops \cup {Void}
    BY <1>1, SMT DEF Info
  <1>4. Tracked(id) => ~ Moves(id)
    BY DEF Tracked, Moves
  <1> QED
    BY <1>1, <1>2, <1>3, <1>4, SourceDirs

\* The transaction in the gate.
LEMMA Publisher ==
  ASSUME Inv, At(CommitLocations)
  PROVE  cur \in Ids /\ Started(cur)
  BY Typed DEF ControlOK

\* The journals that recovery judges are those of started transactions.
LEMMA JournalsStarted ==
  ASSUME Inv, NEW id \in Ids, disk.journal[id] # Void
  PROVE  Started(id) /\ disk.journal[id] \in Journal
  <1>1. ImageOK(disk)
    BY DEF Inv, CrashOK
  <1>2. disk.journal \in [Ids -> Journal \cup {Void}]
    BY Typed, ImageFields
  <1> QED
    BY <1>1, <1>2 DEF ImageOK, StartedOK

\* The journal under recovery.
LEMMA Recovered ==
  ASSUME Inv, At(JudgedLocations \cup {"rec_retire"})
  PROVE  /\ cur \in Ids /\ Started(cur) /\ disk.journal[cur] \in Journal
         /\ disk.journal[cur] # Void
  <1>1. cur \in {id \in Ids : disk.journal[id] # Void}
    BY DEF Inv, RecoveryOK, At, JudgedLocations, RecoveryLocations, ControlOK
  <1> QED
    BY <1>1, JournalsStarted

\* An empty step of the filesystem (Sync).
LEMMA Synced ==
  ASSUME FsTypeOK, Sync
  PROVE  FsStep /\ FsTypeOK' /\ Kept /\ disk' = disk
  <1>1. disk \in Image /\ {} \in SUBSET Dirs
    BY DEF FsTypeOK
  <1> QED
    BY <1>1, WriteStep, WriteTyped
       DEF Sync, Kept, SameClaims, SameTree, SameBin, SameStaging

\* A step that leaves the filesystem alone.
LEMMA Untouched ==
  ASSUME Inv, UNCHANGED fs
  PROVE  FsStep /\ FsTypeOK' /\ Kept /\ disk' = disk
  BY Typed, NoWriteStep DEF fs, FsTypeOK, Kept, SameClaims, SameTree, SameBin, SameStaging

\* A receipt is written (write_receipt).
LEMMA ReceiptWritten ==
  ASSUME FsTypeOK, NEW op \in Ops, NEW r \in Receipts,
         Write([disk EXCEPT !.receipt[op] = r], {"receipts"}, {"receipts"})
  PROVE  FsStep /\ FsTypeOK' /\ OnlyReceipt(op, r)
  BY WriteStep, WriteTyped, ReceiptFields, InternalDirs

\* A journal is written or removed (save_journal, remove_journal).
LEMMA JournalWritten ==
  ASSUME FsTypeOK, NEW id \in Ids, NEW j \in Journal \cup {Void},
         Write([disk EXCEPT !.journal[id] = j], {"journals"}, {"journals"})
  PROVE  FsStep /\ FsTypeOK' /\ OnlyJournal(id, j)
  BY WriteStep, WriteTyped, JournalFields, InternalDirs

\* A destination and a backup change together (no_replace_rename, rename).
LEMMA TreeWritten ==
  ASSUME FsTypeOK, NEW id \in Ids, NEW p \in Paths, NEW x \in Contents \cup {Void},
         NEW y \in Contents \cup {Void}, NEW ds \in SUBSET Dirs, NEW flush \in SUBSET Dirs,
         Write([disk EXCEPT !.dest[p] = x, !.backup[id] = y], ds, flush)
  PROVE  /\ FsStep /\ FsTypeOK'
         /\ OnlyTree([disk.dest EXCEPT ![p] = x], [disk.backup EXCEPT ![id] = y])
  <1>1. disk' = [disk EXCEPT !.dest[p] = x, !.backup[id] = y]
    BY WriteStep
  <1> QED
    BY <1>1, WriteStep, WriteTyped, TreeFields

\* Anchors play no part in the invariants.
LEMMA AnchorWritten ==
  ASSUME FsTypeOK, NEW a \in SUBSET Ids,
         Write([disk EXCEPT !.anchor = a], {"anchors"}, {"anchors"})
  PROVE  FsStep /\ FsTypeOK' /\ Kept
  <1>1. disk' = [disk EXCEPT !.anchor = a] /\ FsStep
    BY WriteStep
  <1>2. [disk EXCEPT !.anchor = a] \in Image /\ disk \in Image
    BY StagingFields DEF FsTypeOK
  <1>3. Kept
    BY <1>1, <1>2, SMT DEF Image, Kept, SameClaims, SameTree, SameBin, SameStaging
  <1> QED
    BY <1>1, <1>2, <1>3, WriteTyped, InternalDirs

\* An anchor is removed (remove_anchor).
LEMMA AnchorRemoved ==
  ASSUME FsTypeOK, NEW id \in Ids, NEW j, RemoveAnchor(disk, id, j)
  PROVE  FsStep /\ FsTypeOK' /\ Kept
  <1>1. disk.anchor \ {id} \in SUBSET Ids
    BY ImageFields DEF FsTypeOK
  <1>2. CASE Sync
    BY <1>2, Synced
  <1>3. CASE Write([disk EXCEPT !.anchor = @ \ {id}], {"anchors"}, {"anchors"})
    BY <1>1, <1>3, AnchorWritten
  <1> QED
    BY <1>2, <1>3 DEF RemoveAnchor

\* Steps that write nothing, or only anchors.
Quiet ==
    \/ \E id \in Ids : Commit(id) \/ Abandon(id) \/ Judge(id) \/ SweepAnchor(id)
    \/ \E id \in Ids, kind \in AllKinds, s \in Paths \cup {Void}, p \in Paths :
          Transfer(id, kind, s, p)
    \/ \E p \in Paths : Delete(p)
    \/ \E c \in Contents : CleanupStart(c)
    \/ \E op \in Ops : Confirm(op)
    \/ Settled \/ Reject \/ TakeOwnership \/ LinkAnchor \/ RenameFails \/ UndoAnchor
    \/ RollbackCompleted \/ Unanchor \/ Done \/ DeleteDone \/ CleanupDone \/ Pruned
    \/ Boot \/ RecoverOnline \/ Scan \/ JournalsDone \/ RecoverAnchor \/ RecoveryDone
    \/ Fail

\* What they do to the filesystem.
LEMMA QuietEffect ==
  ASSUME Inv, Quiet
  PROVE  FsStep /\ FsTypeOK' /\ Kept
  <1> USE Typed
  <1>1. CASE UNCHANGED fs
    BY <1>1, Untouched
  <1>2. CASE Sync
    BY <1>2, Synced
  <1>3. ASSUME NEW id \in Ids, SweepAnchor(id)
        PROVE  FsStep /\ FsTypeOK' /\ Kept
    <2>1. disk.anchor \ {id} \in SUBSET Ids
      BY ImageFields
    <2>2. CASE Sync
      BY <2>2, Synced
    <2>3. CASE Write([disk EXCEPT !.anchor = @ \ {id}], {"anchors"}, {"anchors"})
      BY <2>1, <2>3, AnchorWritten
    <2> QED
      BY <1>3, <2>2, <2>3 DEF SweepAnchor
  <1>4. CASE LinkAnchor
    <2>1. cur \in Ids
      BY <1>4, Publisher DEF LinkAnchor, At, CommitLocations
    <2>2. disk.anchor \cup {cur} \in SUBSET Ids
      BY <2>1, ImageFields
    <2>3. Write([disk EXCEPT !.anchor = disk.anchor \cup {cur}], {"anchors"}, {"anchors"})
      BY <1>4 DEF LinkAnchor
    <2> QED
      BY <2>2, <2>3, AnchorWritten
  <1>5. CASE UndoAnchor \/ Unanchor
    <2>1. cur \in Ids
      BY <1>5, Publisher DEF UndoAnchor, Unanchor, At, CommitLocations
    <2>2. RemoveAnchor(disk, cur, disk.journal[cur])
      BY <1>5 DEF UndoAnchor, Unanchor
    <2> QED
      BY <2>1, <2>2, AnchorRemoved
  <1>6. CASE RecoverAnchor
    <2>1. cur \in Ids
      BY <1>6, Recovered DEF RecoverAnchor, At, JudgedLocations
    <2>2. RemoveAnchor(disk, cur, disk.journal[cur])
      BY <1>6 DEF RecoverAnchor
    <2> QED
      BY <2>1, <2>2, AnchorRemoved
  <1>7. CASE Settled \/ TakeOwnership \/ RenameFails \/ RollbackCompleted \/ Done \/ DeleteDone
             \/ CleanupDone \/ Pruned \/ JournalsDone \/ RecoveryDone \/ \E id \in Ids : Judge(id)
    BY <1>7, <1>2
       DEF Settled, TakeOwnership, RenameFails, RollbackCompleted, Done, DeleteDone,
       CleanupDone, Pruned, JournalsDone, RecoveryDone, Judge
  <1>8. CASE Reject \/ Boot \/ RecoverOnline \/ Scan \/ \E op \in Ops : Confirm(op)
    BY <1>8, <1>1 DEF Reject, Boot, RecoverOnline, Scan, Confirm
  <1>9. CASE \/ \E id \in Ids : Commit(id) \/ Abandon(id)
             \/ \E id \in Ids, kind \in AllKinds, s \in Paths \cup {Void}, p \in Paths :
                   Transfer(id, kind, s, p)
             \/ \E p \in Paths : Delete(p)
             \/ \E c \in Contents : CleanupStart(c)
    <2>1. \A id \in Ids : Commit(id) \/ Abandon(id) => UNCHANGED fs
      BY DEF Commit, Abandon
    <2>2. \A id \in Ids, kind \in AllKinds, s \in Paths \cup {Void}, p \in Paths :
             Transfer(id, kind, s, p) => UNCHANGED fs
      BY DEF Transfer
    <2>3. \A p \in Paths : Delete(p) => UNCHANGED fs
      BY DEF Delete
    <2>4. \A c \in Contents : CleanupStart(c) => UNCHANGED fs
      BY DEF CleanupStart
    <2>5. UNCHANGED fs
      BY <1>9, <2>1, <2>2, <2>3, <2>4
    <2> QED
      BY <1>1, <2>5
  <1>10. CASE Fail
    <2>1. disk' = disk /\ crash' = crash /\ dirty' = {}
      BY <1>10 DEF Fail
    <2>2. FsStep
      BY <2>1 DEF FsStep, Present
    <2> QED
      BY <2>1, <2>2 DEF FsTypeOK, Kept, SameClaims, SameTree, SameBin, SameStaging
  <1> QED
    BY <1>3, <1>4, <1>5, <1>6, <1>7, <1>8, <1>9, <1>10 DEF Quiet

OnlyBin(trash, debt) ==
    SameClaims /\ SameTree /\ SameStaging /\ disk'.trash = trash /\ disk'.debt = debt

\* Deletion records and the trash (stage_delete, cleanup_pass).
LEMMA BinWritten ==
  ASSUME FsTypeOK, NEW t \in SUBSET Contents
  PROVE  /\ Write([disk EXCEPT !.debt = t], {"deletions"}, {"deletions"})
              => FsStep /\ FsTypeOK' /\ OnlyBin(disk.trash, t)
         /\ Write([disk EXCEPT !.trash = t], {"trash"}, {"trash"})
              => FsStep /\ FsTypeOK' /\ OnlyBin(t, disk.debt)
  <1>1. disk \in Image
    BY DEF FsTypeOK
  <1>2. [disk EXCEPT !.debt = t] \in Image /\ [disk EXCEPT !.trash = t] \in Image
    BY <1>1, SMT DEF Image
  <1>3. disk' = [disk EXCEPT !.debt = t] => OnlyBin(disk.trash, t)
    BY <1>1, SMT DEF Image, OnlyBin, SameClaims, SameTree, SameStaging
  <1>4. disk' = [disk EXCEPT !.trash = t] => OnlyBin(t, disk.debt)
    BY <1>1, SMT DEF Image, OnlyBin, SameClaims, SameTree, SameStaging
  <1> QED
    BY <1>2, <1>3, <1>4, WriteStep, WriteTyped, InternalDirs

\* A staging file or a copied tree is made or removed.
LEMMA StagingWritten ==
  ASSUME FsTypeOK, NEW u \in SUBSET Ids, NEW flush \in SUBSET Dirs
  PROVE  /\ Write([disk EXCEPT !.upload = u], {"uploads"}, flush)
              => /\ FsStep /\ FsTypeOK' /\ OnlyStaging
                 /\ disk'.upload = u /\ disk'.copies = disk.copies
         /\ Write([disk EXCEPT !.copies = u], {"copies"}, flush)
              => /\ FsStep /\ FsTypeOK' /\ OnlyStaging
                 /\ disk'.upload = disk.upload /\ disk'.copies = u
  <1>1. disk \in Image
    BY DEF FsTypeOK
  <1>2. [disk EXCEPT !.upload = u] \in Image /\ [disk EXCEPT !.copies = u] \in Image
    BY <1>1, SMT DEF Image
  <1>3. disk' = [disk EXCEPT !.upload = u] =>
          OnlyStaging /\ disk'.upload = u /\ disk'.copies = disk.copies
    BY <1>1, SMT DEF Image, OnlyStaging, SameClaims, SameTree, SameBin
  <1>4. disk' = [disk EXCEPT !.copies = u] =>
          OnlyStaging /\ disk'.upload = disk.upload /\ disk'.copies = u
    BY <1>1, SMT DEF Image, OnlyStaging, SameClaims, SameTree, SameBin
  <1> QED
    BY <1>2, <1>3, <1>4, WriteStep, WriteTyped, InternalDirs

\* begin_atomic_write.
LEMMA StageEffect ==
  ASSUME Inv, NEW id \in Ids, NEW kind, NEW p, NEW op, Stage(id, kind, p, op)
  PROVE  /\ FsStep /\ FsTypeOK' /\ OnlyStaging
         /\ disk'.upload = disk.upload \cup {id} /\ disk'.copies = disk.copies
  <1> DEFINE u == disk.upload \cup {id}
  <1>1. disk' = [disk EXCEPT !.upload = u] /\ dirty' = dirty
        /\ crash' = {[img |-> c.img, later |-> c.later \cup {"uploads"}] : c \in crash}
                       \cup {[img |-> disk', later |-> {}]}
    BY DEF Stage
  <1>2. disk \in Image /\ FsTypeOK /\ u \in SUBSET Ids
    BY Typed, ImageFields
  <1> HIDE DEF u
  <1>3. disk' \in Image
    BY <1>1, <1>2, StagingFields
  <1>4. OnlyStaging /\ disk'.upload = u /\ disk'.copies = disk.copies
    BY <1>1, <1>2, SMT DEF Image, OnlyStaging, SameClaims, SameTree, SameBin
  <1>5. FsStep /\ FsTypeOK'
    BY <1>1, <1>2, <1>3, StagingStep, InternalDirs
  <1> QED
    BY <1>4, <1>5 DEF u

\* The staging cleanup worker.
LEMMA CleanAbandonedEffect ==
  ASSUME Inv, NEW id \in Ids, CleanAbandoned(id)
  PROVE  /\ FsStep /\ FsTypeOK' /\ OnlyStaging
         /\ disk'.upload = disk.upload \ {id} /\ disk'.copies = disk.copies \ {id}
  <1> DEFINE u == disk.upload \ {id}
             v == disk.copies \ {id}
  <1>1. disk' = [disk EXCEPT !.upload = u, !.copies = v] /\ dirty' = dirty
        /\ crash' = {[img |-> c.img, later |-> c.later \cup {SourceDir(id)}] : c \in crash}
                       \cup {[img |-> disk', later |-> {}]}
    BY DEF CleanAbandoned
  <1>2. disk \in Image /\ FsTypeOK /\ u \in SUBSET Ids /\ v \in SUBSET Ids
    BY Typed, ImageFields
  <1>3. SourceDir(id) \in Dirs
    BY Typed, StartedFields DEF CleanAbandoned, InfoOK
  <1> HIDE DEF u, v
  <1>4. disk' \in Image
    BY <1>1, <1>2, StagingFields
  <1>5. OnlyStaging /\ disk'.upload = u /\ disk'.copies = v
    BY <1>1, <1>2, SMT DEF Image, OnlyStaging, SameClaims, SameTree, SameBin
  <1>6. FsStep /\ FsTypeOK'
    <2> DEFINE ds == {SourceDir(id)}
    <2>1. ds \in SUBSET Dirs
      BY <1>3
    <2>2. crash' = {[img |-> c.img, later |-> c.later \cup ds] : c \in crash}
                       \cup {[img |-> disk', later |-> {}]}
      BY <1>1
    <2> HIDE DEF ds
    <2> QED
      BY <1>1, <1>2, <1>4, <2>1, <2>2, StagingStep
  <1> QED
    BY <1>5, <1>6 DEF u, v

\* The destination checks and check_receipt_capacity.
LEMMA AdmitEffect ==
  ASSUME Inv, Admit
  PROVE  /\ FsStep /\ FsTypeOK'
         /\ IF Tracked(cur) /\ disk.receipt[info[cur].op] = "rolled_back"
            THEN OnlyReceipt(info[cur].op, "none") ELSE Kept
  <1>1. cur \in Ids /\ Started(cur)
    BY Publisher DEF Admit, At, CommitLocations
  <1>2. Tracked(cur) => info[cur].op \in Ops
    BY <1>1, StartedFields
  <1> QED
    BY <1>2, Typed, ReceiptWritten, Synced DEF Admit, Receipts

\* A foreign source is copied into the staging area.
LEMMA CopyStagingEffect ==
  ASSUME Inv, CopyStaging
  PROVE  /\ FsStep /\ FsTypeOK' /\ OnlyStaging
         /\ disk'.upload = disk.upload /\ disk'.copies = disk.copies \cup {cur}
  <1>1. cur \in Ids
    BY Publisher DEF CopyStaging, At, CommitLocations
  <1>2. disk.copies \cup {cur} \in SUBSET Ids
    BY <1>1, Typed, ImageFields
  <1>3. Write([disk EXCEPT !.copies = disk.copies \cup {cur}], {"copies"}, {})
    BY DEF CopyStaging
  <1> QED
    BY <1>2, <1>3, Typed, StagingWritten, InternalDirs

\* The journal of a publication is written before anything is moved.
LEMMA WriteJournalEffect ==
  ASSUME Inv, WriteJournal
  PROVE  /\ FsStep /\ FsTypeOK'
         /\ OnlyJournal(cur, [published |-> FALSE, anchored |-> Anchored(cur)])
         /\ [published |-> FALSE, anchored |-> Anchored(cur)] \in Journal
  <1> DEFINE j == [published |-> FALSE, anchored |-> Anchored(cur)]
  <1>1. cur \in Ids
    BY Publisher DEF WriteJournal, At, CommitLocations
  <1>2. scene.links \in BOOLEAN
    BY Typed, ScenesAssumption
  <1>3. Anchored(cur) \in BOOLEAN
    BY <1>2 DEF Anchored, Tracked
  <1>4. j \in Journal
    BY <1>3, SMT DEF Journal
  <1>5. Write([disk EXCEPT !.journal[cur] = j], {"journals"}, {"journals"})
    BY DEF WriteJournal
  <1> HIDE DEF j
  <1>6. FsStep /\ FsTypeOK' /\ OnlyJournal(cur, j)
    BY <1>1, <1>4, <1>5, Typed, JournalWritten
  <1> QED
    BY <1>4, <1>6 DEF j

\* settle_publication.
LEMMA SettleEffect ==
  ASSUME Inv, Settle
  PROVE  /\ FsStep /\ FsTypeOK' /\ pending \in Ids
         /\ disk.journal[pending] \in Journal /\ disk.journal[pending] # Void
         /\ OnlyJournal(pending, [disk.journal[pending] EXCEPT !.published = TRUE])
         /\ [disk.journal[pending] EXCEPT !.published = TRUE] \in Journal
  <1> DEFINE j == [disk.journal[pending] EXCEPT !.published = TRUE]
  <1>1. pending \in Ids /\ disk.journal[pending] # Void
    BY Typed DEF Inv, PendingOK, Settle
  <1>2. disk.journal[pending] \in Journal
    BY <1>1, JournalsStarted
  <1>3. j \in Journal
    BY <1>2, Zenon DEF Journal
  <1>4. Write([disk EXCEPT !.journal[pending] = j], {"journals"}, {"journals"})
    BY DEF Settle
  <1> HIDE DEF j
  <1>5. FsStep /\ FsTypeOK' /\ OnlyJournal(pending, j)
    BY <1>1, <1>3, <1>4, Typed, JournalWritten
  <1> QED
    BY <1>1, <1>2, <1>3, <1>5 DEF j

\* publish_replacement parks what it replaces.
LEMMA BackupDestinationEffect ==
  ASSUME Inv, BackupDestination
  PROVE  LET p == info[cur].path IN
         /\ FsStep /\ FsTypeOK' /\ p \in Paths /\ cur \in Ids
         /\ OnlyTree([disk.dest EXCEPT ![p] = Void], [disk.backup EXCEPT ![cur] = disk.dest[p]])
  <1> DEFINE p == info[cur].path
             y == disk.dest[p]
  <1>1. cur \in Ids /\ p \in Paths
    BY Publisher, StartedFields DEF BackupDestination, At, CommitLocations
  <1>2. y \in Contents \cup {Void}
    BY <1>1, Typed, ImageFields
  <1>3. Write([disk EXCEPT !.dest[p] = Void, !.backup[cur] = y], {p, "backups"}, {})
    BY DEF BackupDestination
  <1> HIDE DEF p, y
  <1>4. /\ FsStep /\ FsTypeOK'
        /\ OnlyTree([disk.dest EXCEPT ![p] = Void], [disk.backup EXCEPT ![cur] = y])
    BY <1>1, <1>2, <1>3, Typed, TreeWritten, InternalDirs
  <1> QED
    BY <1>1, <1>4 DEF p, y

\* A backup returns to the user tree.
LEMMA Unparked ==
  ASSUME Inv, NEW id \in Ids, NEW p \in Paths, NEW ds \in SUBSET Dirs,
         Write([disk EXCEPT !.dest[p] = disk.backup[id], !.backup[id] = Void], {p, "backups"}, ds)
  PROVE  /\ FsStep /\ FsTypeOK'
         /\ OnlyTree([disk.dest EXCEPT ![p] = disk.backup[id]], [disk.backup EXCEPT ![id] = Void])
  <1>1. disk.backup[id] \in Contents \cup {Void}
    BY Typed, ImageFields
  <1> QED
    BY <1>1, Typed, TreeWritten, InternalDirs

\* A failed publication puts the destination back (rollback_publication).
LEMMA RestoreBackupEffect ==
  ASSUME Inv, RestoreBackup
  PROVE  LET p == info[cur].path IN
         /\ FsStep /\ FsTypeOK' /\ p \in Paths /\ cur \in Ids
         /\ IF disk.backup[cur] # Void
            THEN OnlyTree([disk.dest EXCEPT ![p] = disk.backup[cur]],
                          [disk.backup EXCEPT ![cur] = Void])
            ELSE Kept
  <1> DEFINE p == info[cur].path
             ds == {p, "backups", SourceDir(cur)}
  <1>1. cur \in Ids /\ p \in Paths /\ SourceDir(cur) \in Dirs
    BY Publisher, StartedFields DEF RestoreBackup, At, CommitLocations
  <1>2. ds \in SUBSET Dirs
    BY <1>1, InternalDirs
  <1>3. CASE disk.backup[cur] # Void
    <2>1. Write([disk EXCEPT !.dest[p] = disk.backup[cur], !.backup[cur] = Void],
                {p, "backups"}, ds)
      BY <1>3 DEF RestoreBackup
    <2> HIDE DEF p, ds
    <2>2. /\ FsStep /\ FsTypeOK'
          /\ OnlyTree([disk.dest EXCEPT ![p] = disk.backup[cur]],
                      [disk.backup EXCEPT ![cur] = Void])
      BY <1>1, <1>2, <2>1, Unparked
    <2> QED
      BY <1>1, <1>3, <2>2 DEF p
  <1>4. CASE disk.backup[cur] = Void
    <2>1. Write(disk, {}, ds)
      BY <1>4 DEF RestoreBackup
    <2> HIDE DEF ds
    <2>2. FsStep /\ FsTypeOK' /\ disk' = disk
      BY <1>2, <2>1, Typed, WriteStep, WriteTyped, InternalDirs
    <2> QED
      BY <1>1, <1>4, <2>2 DEF Kept, SameClaims, SameTree, SameBin, SameStaging
  <1> QED
    BY <1>3, <1>4

\* A journal is retired.
LEMMA JournalRemoved ==
  ASSUME Inv, NEW id \in Ids, RemoveJournal(id)
  PROVE  FsStep /\ FsTypeOK' /\ OnlyJournal(id, Void)
  BY Typed, JournalWritten DEF RemoveJournal

\* The journal of a transaction is removed.
LEMMA RetireEffect ==
  ASSUME Inv, UndoJournal \/ Retire \/ RecoverRetire
  PROVE  FsStep /\ FsTypeOK' /\ OnlyJournal(cur, Void) /\ cur \in Ids
  <1>1. CASE UndoJournal \/ Retire
    <2>1. cur \in Ids
      BY <1>1, Publisher DEF UndoJournal, Retire, At, CommitLocations
    <2> QED
      BY <1>1, <2>1, JournalRemoved DEF UndoJournal, Retire
  <1>2. CASE RecoverRetire
    <2>1. cur \in Ids
      BY <1>2, Recovered DEF RecoverRetire, At
    <2> QED
      BY <1>2, <2>1, JournalRemoved DEF RecoverRetire
  <1> QED
    BY <1>1, <1>2

\* The committed receipt of a publication.
LEMMA WriteReceiptEffect ==
  ASSUME Inv, WriteReceipt
  PROVE  /\ FsStep /\ FsTypeOK'
         /\ IF Tracked(cur) THEN OnlyReceipt(info[cur].op, "committed") ELSE Kept
  <1>1. cur \in Ids /\ Started(cur)
    BY Publisher DEF WriteReceipt, At, CommitLocations
  <1>2. Tracked(cur) => info[cur].op \in Ops
    BY <1>1, StartedFields
  <1> QED
    BY <1>2, Typed, ReceiptWritten, Synced DEF WriteReceipt, Receipts

\* The outcome recovery records.
LEMMA RecordOutcomeEffect ==
  ASSUME Inv, At(JudgedLocations), NEW next, RecordOutcome(next)
  PROVE  /\ FsStep /\ FsTypeOK'
         /\ IF Tracked(cur) /\ ~ ReceiptConflict(info[cur].op, verdict)
            THEN OnlyReceipt(info[cur].op, verdict) ELSE Kept
  <1>1. cur \in Ids /\ Started(cur)
    BY Recovered DEF At, JudgedLocations
  <1>2. Tracked(cur) => info[cur].op \in Ops
    BY <1>1, StartedFields
  <1>3. verdict \in Receipts
    BY DEF Inv, TypeOK, Receipts
  <1> QED
    BY <1>2, <1>3, Typed, ReceiptWritten, Synced DEF RecordOutcome

\* The receipt recovery writes for a published transaction.
LEMMA RecordCommittedEffect ==
  ASSUME Inv, RecordCommitted
  PROVE  /\ FsStep /\ FsTypeOK'
         /\ IF verdict # "rolled_back" /\ Tracked(cur) /\ ~ ReceiptConflict(info[cur].op, verdict)
            THEN OnlyReceipt(info[cur].op, verdict) ELSE Kept
  <1>1. At(JudgedLocations)
    BY DEF RecordCommitted, At, JudgedLocations
  <1> QED
    BY <1>1, Typed, RecordOutcomeEffect, Synced DEF RecordCommitted

\* The receipt recovery writes for a transaction that was not published.
LEMMA RecordRolledBackEffect ==
  ASSUME Inv, RecordRolledBack
  PROVE  /\ FsStep /\ FsTypeOK'
         /\ IF verdict = "rolled_back" /\ Tracked(cur) /\ ~ ReceiptConflict(info[cur].op, verdict)
            THEN OnlyReceipt(info[cur].op, verdict) ELSE Kept
  <1>1. At(JudgedLocations)
    BY DEF RecordRolledBack, At, JudgedLocations
  <1> QED
    BY <1>1, Typed, RecordOutcomeEffect, Synced DEF RecordRolledBack

\* A receipt is pruned.
LEMMA PruneEffect ==
  ASSUME Inv, NEW op \in Ops, Prune(op)
  PROVE  FsStep /\ FsTypeOK' /\ (Kept \/ OnlyReceipt(op, "none"))
  BY Typed, Untouched, ReceiptWritten DEF Prune, Receipts

\* The publishing rename.
LEMMA PublishRenameEffect ==
  ASSUME Inv, PublishRename \/ DirectChange
  PROVE  /\ FsStep /\ FsTypeOK' /\ cur \in Ids /\ Started(cur) /\ info[cur].path \in Paths
         /\ SameBin /\ disk'.journal = disk.journal /\ disk'.receipt = disk.receipt
         /\ disk'.backup = disk.backup /\ disk'.seen = disk.seen \cup {cur}
         /\ disk'.upload = disk.upload \ {cur} /\ disk'.copies = disk.copies \ {cur}
         /\ ~ Moves(cur) => disk'.dest = [disk.dest EXCEPT ![info[cur].path] = cur]
         /\ Moves(cur) => disk'.dest = [disk.dest EXCEPT ![info[cur].path] = disk.dest[info[cur].src],
                                                         ![info[cur].src] = Void]
  <1> DEFINE p == info[cur].path
  <1>1. cur \in Ids /\ Started(cur)
    BY Publisher DEF PublishRename, DirectChange, At, CommitLocations
  <1>2. /\ info[cur] \in Info /\ p \in Paths /\ SourceDir(cur) \in Dirs /\ p \in Dirs
        /\ Moves(cur) => info[cur].src \in Paths
    BY <1>1, StartedFields DEF Dirs
  <1>3. PICK ds \in SUBSET Dirs : Write(Published(disk, cur), ds, ds)
    <2>1. CASE PublishRename
      <3>1. {p, SourceDir(cur)} \in SUBSET Dirs
        BY <1>2
      <3> QED
        BY <2>1, <3>1 DEF PublishRename
    <2>2. CASE DirectChange
      <3>1. {p} \cup (IF info[cur].kind = "mkdir" THEN {} ELSE {SourceDir(cur)}) \in SUBSET Dirs
        BY <1>2
      <3> QED
        BY <2>2, <3>1 DEF DirectChange
    <2> QED
      BY <2>1, <2>2
  <1>4. disk' = Published(disk, cur) /\ FsStep
    BY <1>3, WriteStep
  <1>5. FsTypeOK /\ Published(disk, cur) \in Image
    BY <1>1, <1>2, <1>4, Typed, PublishedFields
  <1>6. FsTypeOK'
    BY <1>3, <1>5, WriteTyped
  <1> QED
    BY <1>1, <1>2, <1>4, <1>5, <1>6, PublishedFields

\* cleanup_replacement_backup.
LEMMA CleanupBackupEffect ==
  ASSUME Inv, NEW id \in Ids, NEW next, CleanupBackup(id, next)
  PROVE  /\ FsStep /\ FsTypeOK'
         /\ IF disk.backup[id] \in Contents \ Trees
            THEN OnlyTree(disk.dest, [disk.backup EXCEPT ![id] = Void]) ELSE Kept
  <1>1. CASE disk.backup[id] \in Contents \ Trees
    <2>1. Write([disk EXCEPT !.backup[id] = Void], {"backups"}, {"backups"})
      BY <1>1 DEF CleanupBackup
    <2>2. disk' = [disk EXCEPT !.backup[id] = Void] /\ FsStep
      BY <2>1, WriteStep
    <2>3. [disk EXCEPT !.backup[id] = Void] \in Image
      BY Typed, SMT DEF Image
    <2>4. OnlyTree(disk.dest, [disk.backup EXCEPT ![id] = Void])
      BY <2>2, Typed, SMT DEF Image, OnlyTree, SameClaims, SameBin, SameStaging
    <2> QED
      BY <1>1, <2>1, <2>2, <2>3, <2>4, Typed, WriteTyped, InternalDirs
  <1>2. CASE disk.backup[id] \notin Contents \ Trees
    BY <1>2, Typed, Synced DEF CleanupBackup
  <1> QED
    BY <1>1, <1>2

\* The backup of a publication is emptied.
LEMMA CleanBackupEffect ==
  ASSUME Inv, CleanBackup
  PROVE  /\ FsStep /\ FsTypeOK' /\ cur \in Ids
         /\ IF disk.backup[cur] \in Contents \ Trees
            THEN OnlyTree(disk.dest, [disk.backup EXCEPT ![cur] = Void]) ELSE Kept
  <1>1. cur \in Ids
    BY Publisher DEF CleanBackup, At, CommitLocations
  <1> QED
    BY <1>1, CleanupBackupEffect DEF CleanBackup

Restores == LET p == info[cur].path IN
             disk.backup[cur] # Void /\ disk.dest[p] = Void /\ ~ disk.journal[cur].published

\* Recovery restores a backup, or empties it.
LEMMA RecoverBackupEffect ==
  ASSUME Inv, RecoverBackup
  PROVE  /\ FsStep /\ FsTypeOK' /\ cur \in Ids /\ Started(cur) /\ info[cur].path \in Paths
         /\ IF Restores
            THEN OnlyTree([disk.dest EXCEPT ![info[cur].path] = disk.backup[cur]],
                          [disk.backup EXCEPT ![cur] = Void])
            ELSE IF disk.backup[cur] \in Contents \ Trees
            THEN OnlyTree(disk.dest, [disk.backup EXCEPT ![cur] = Void]) ELSE Kept
  <1> DEFINE p == info[cur].path
  <1>1. cur \in Ids /\ Started(cur) /\ p \in Paths
    BY Recovered, StartedFields DEF RecoverBackup, At, JudgedLocations
  <1>2. CASE Restores
    <2>1. Write([disk EXCEPT !.dest[p] = disk.backup[cur], !.backup[cur] = Void],
                {p, "backups"}, {p, "backups"})
      BY <1>2 DEF RecoverBackup, Restores
    <2>2. {p, "backups"} \in SUBSET Dirs
      BY <1>1, InternalDirs
    <2> HIDE DEF p
    <2>3. /\ FsStep /\ FsTypeOK'
          /\ OnlyTree([disk.dest EXCEPT ![p] = disk.backup[cur]],
                      [disk.backup EXCEPT ![cur] = Void])
      BY <1>1, <2>1, <2>2, Unparked
    <2> QED
      BY <1>1, <1>2, <2>3 DEF p
  <1>3. CASE ~ Restores
    <2>1. CleanupBackup(cur, "rec_staging")
      BY <1>3 DEF RecoverBackup, Restores
    <2> QED
      BY <1>1, <1>3, <2>1, CleanupBackupEffect
  <1> QED
    BY <1>2, <1>3

\* stage_delete and finish_staged_deletion, for a content leaving the backups or the
\* user tree.
LEMMA DebtEffect ==
  ASSUME Inv
  PROVE  /\ BackupDebt => /\ FsStep /\ FsTypeOK' /\ disk.backup[cur] \in Contents
                          /\ OnlyBin(disk.trash, disk.debt \cup {disk.backup[cur]})
         /\ DeleteDebt => /\ FsStep /\ FsTypeOK' /\ cur \in Paths
                          /\ OnlyBin(disk.trash, disk.debt \cup {disk.dest[cur]})
         /\ CleanupDebt => FsStep /\ FsTypeOK' /\ OnlyBin(disk.trash, disk.debt \ {cur})
         /\ CleanupTrash => FsStep /\ FsTypeOK' /\ OnlyBin(disk.trash \ {cur}, disk.debt)
  <1>1. disk.debt \in SUBSET Contents /\ disk.trash \in SUBSET Contents
        /\ disk.dest \in [Paths -> Contents \cup {Void}]
    BY Typed, ImageFields
  <1>2. ASSUME BackupDebt
        PROVE  /\ FsStep /\ FsTypeOK' /\ disk.backup[cur] \in Contents
               /\ OnlyBin(disk.trash, disk.debt \cup {disk.backup[cur]})
    <2>1. disk.backup[cur] \in Contents
      BY <1>2, Typed DEF BackupDebt, ControlOK
    <2>2. disk.debt \cup {disk.backup[cur]} \in SUBSET Contents
      BY <1>1, <2>1
    <2>3. Write([disk EXCEPT !.debt = disk.debt \cup {disk.backup[cur]}], {"deletions"}, {"deletions"})
      BY <1>2 DEF BackupDebt
    <2> QED
      BY <2>1, <2>2, <2>3, Typed, BinWritten
  <1>3. ASSUME DeleteDebt
        PROVE  /\ FsStep /\ FsTypeOK' /\ cur \in Paths
               /\ OnlyBin(disk.trash, disk.debt \cup {disk.dest[cur]})
    <2>1. cur \in Paths /\ disk.dest[cur] \in Contents
      BY <1>1, <1>3, Typed DEF DeleteDebt, ControlOK, At
    <2>2. disk.debt \cup {disk.dest[cur]} \in SUBSET Contents
      BY <1>1, <2>1
    <2>3. Write([disk EXCEPT !.debt = disk.debt \cup {disk.dest[cur]}], {"deletions"}, {"deletions"})
      BY <1>3 DEF DeleteDebt
    <2> QED
      BY <2>1, <2>2, <2>3, Typed, BinWritten
  <1>4. ASSUME CleanupDebt
        PROVE  FsStep /\ FsTypeOK' /\ OnlyBin(disk.trash, disk.debt \ {cur})
    <2>1. disk.debt \ {cur} \in SUBSET Contents
      BY <1>1
    <2>2. Write([disk EXCEPT !.debt = disk.debt \ {cur}], {"deletions"}, {"deletions"})
      BY <1>4 DEF CleanupDebt
    <2> QED
      BY <2>1, <2>2, Typed, BinWritten
  <1>5. ASSUME CleanupTrash
        PROVE  FsStep /\ FsTypeOK' /\ OnlyBin(disk.trash \ {cur}, disk.debt)
    <2>1. disk.trash \ {cur} \in SUBSET Contents
      BY <1>1
    <2>2. Write([disk EXCEPT !.trash = disk.trash \ {cur}], {"trash"}, {"trash"})
      BY <1>5 DEF CleanupTrash, RemoveTree
    <2> QED
      BY <2>1, <2>2, Typed, BinWritten
  <1> QED
    BY <1>2, <1>3, <1>4, <1>5

\* A directory tree in a backup becomes trash.
LEMMA BackupToTrashEffect ==
  ASSUME Inv, BackupToTrash
  PROVE  /\ FsStep /\ FsTypeOK' /\ SameClaims /\ SameStaging
         /\ disk'.dest = disk.dest /\ disk'.debt = disk.debt
         /\ cur \in Ids /\ disk.backup[cur] \in Contents
         /\ disk'.backup = [disk.backup EXCEPT ![cur] = Void]
         /\ disk'.trash = disk.trash \cup {disk.backup[cur]}
  <1> DEFINE new == [disk EXCEPT !.backup[cur] = Void, !.trash = @ \cup {disk.backup[cur]}]
  <1>1. disk.backup[cur] \in Contents
    BY Typed DEF BackupToTrash, ControlOK
  <1>2. cur \in Ids
    <2>1. CASE ret = "unanchor"
      BY <2>1, Publisher DEF BackupToTrash, At, CommitLocations
    <2>2. CASE ret = "rec_staging"
      BY <2>2, Recovered DEF BackupToTrash, At, JudgedLocations
    <2> QED
      BY <2>1, <2>2, Typed DEF BackupToTrash, ControlOK
  <1>3. Write(new, {"backups", "trash"}, {"backups", "trash"})
    BY DEF BackupToTrash
  <1>4. new \in Image
    <2> DEFINE f == [disk.backup EXCEPT ![cur] = Void]
               t == disk.trash \cup {disk.backup[cur]}
    <2>1. f \in [Ids -> Contents \cup {Void}] /\ t \in SUBSET Contents
      BY <1>1, <1>2, Typed, ImageFields
    <2>2. new = [disk EXCEPT !.backup = f, !.trash = t]
      BY Typed, SMT DEF Image
    <2> HIDE DEF f, t, new
    <2> QED
      BY <2>1, <2>2, Typed, BackupTrashUpdate
  <1>5. disk' = new => /\ SameClaims /\ SameStaging
                       /\ disk'.dest = disk.dest /\ disk'.debt = disk.debt
                       /\ disk'.backup = [disk.backup EXCEPT ![cur] = Void]
                       /\ disk'.trash = disk.trash \cup {disk.backup[cur]}
    BY Typed, SMT DEF Image, SameClaims, SameStaging
  <1> HIDE DEF new
  <1> QED
    BY <1>1, <1>2, <1>3, <1>4, <1>5, Typed, WriteStep, WriteTyped, InternalDirs

\* A deleted entry becomes trash.
LEMMA DeleteToTrashEffect ==
  ASSUME Inv, DeleteToTrash
  PROVE  /\ FsStep /\ FsTypeOK' /\ SameClaims /\ SameStaging
         /\ disk'.backup = disk.backup /\ disk'.debt = disk.debt
         /\ cur \in Paths /\ disk.dest[cur] \in Contents
         /\ disk'.dest = [disk.dest EXCEPT ![cur] = Void]
         /\ disk'.trash = disk.trash \cup {disk.dest[cur]}
  <1> DEFINE new == [disk EXCEPT !.dest[cur] = Void, !.trash = @ \cup {disk.dest[cur]}]
  <1>1. cur \in Paths /\ disk.dest[cur] # Void
    BY Typed DEF DeleteToTrash, ControlOK, At
  <1>2. disk.dest[cur] \in Contents
    BY <1>1, Typed, ImageFields
  <1>3. Write(new, {cur, "trash"}, {cur, "trash"})
    BY DEF DeleteToTrash
  <1>4. new \in Image
    <2> DEFINE f == [disk.dest EXCEPT ![cur] = Void]
               t == disk.trash \cup {disk.dest[cur]}
    <2>1. f \in [Paths -> Contents \cup {Void}] /\ t \in SUBSET Contents
      BY <1>1, <1>2, Typed, ImageFields
    <2>2. new = [disk EXCEPT !.dest = f, !.trash = t]
      BY Typed, SMT DEF Image
    <2> HIDE DEF f, t, new
    <2> QED
      BY <2>1, <2>2, Typed, DestTrashUpdate
  <1>5. disk' = new => /\ SameClaims /\ SameStaging
                       /\ disk'.backup = disk.backup /\ disk'.debt = disk.debt
                       /\ disk'.dest = [disk.dest EXCEPT ![cur] = Void]
                       /\ disk'.trash = disk.trash \cup {disk.dest[cur]}
    BY Typed, SMT DEF Image, SameClaims, SameStaging
  <1> HIDE DEF new
  <1> QED
    BY <1>1, <1>2, <1>3, <1>4, <1>5, Typed, WriteStep, WriteTyped, InternalDirs

\* handoff_recovered_copy.
LEMMA HandOffEffect ==
  ASSUME Inv, NEW id \in Ids, HandOff(id)
  PROVE  /\ FsStep /\ FsTypeOK'
         /\ IF id \in disk.copies
            THEN /\ SameClaims /\ SameTree /\ disk'.upload = disk.upload
                 /\ disk'.debt = disk.debt /\ disk'.copies = disk.copies \ {id}
                 /\ disk'.trash = disk.trash \cup {id}
            ELSE Kept
  <1> DEFINE new == [disk EXCEPT !.copies = @ \ {id}, !.trash = @ \cup {id}]
  <1>1. CASE id \in disk.copies
    <2>1. Write(new, {"copies", "trash"}, {"copies", "trash"})
      BY <1>1 DEF HandOff
    <2>2. new \in Image
      <3> DEFINE c == disk.copies \ {id}
                 t == disk.trash \cup {id}
      <3>1. c \in SUBSET Ids /\ t \in SUBSET Contents
        BY Typed, ImageFields DEF Contents
      <3>2. new = [disk EXCEPT !.copies = c, !.trash = t]
        OBVIOUS
      <3> HIDE DEF c, t, new
      <3> QED
        BY <3>1, <3>2, Typed, CopiesTrashUpdate
    <2>3. disk' = new => /\ SameClaims /\ SameTree /\ disk'.upload = disk.upload
                         /\ disk'.debt = disk.debt /\ disk'.copies = disk.copies \ {id}
                         /\ disk'.trash = disk.trash \cup {id}
      BY Typed, SMT DEF Image, SameClaims, SameTree
    <2> HIDE DEF new
    <2> QED
      BY <1>1, <2>1, <2>2, <2>3, Typed, WriteStep, WriteTyped, InternalDirs
  <1>2. CASE id \notin disk.copies
    BY <1>2, Typed, Synced DEF HandOff
  <1> QED
    BY <1>1, <1>2

\* Recovery removes the staging file of a transaction, or hands its copy to the trash.
LEMMA RecoverStagingEffect ==
  ASSUME Inv, RecoverStaging
  PROVE  /\ FsStep /\ FsTypeOK'
         /\ \/ Kept
            \/ /\ OnlyStaging /\ disk'.upload = disk.upload \ {cur}
               /\ disk'.copies = disk.copies
            \/ /\ cur \in disk.copies /\ SameClaims /\ SameTree /\ disk'.upload = disk.upload
               /\ disk'.debt = disk.debt /\ disk'.copies = disk.copies \ {cur}
               /\ disk'.trash = disk.trash \cup {cur}
  <1>1. cur \in Ids
    BY Recovered DEF RecoverStaging, At, JudgedLocations
  <1>2. CASE HandOff(cur)
    BY <1>1, <1>2, HandOffEffect
  <1>3. CASE Sync
    BY <1>3, Typed, Synced
  <1>4. CASE Write([disk EXCEPT !.upload = @ \ {cur}], {"uploads"}, {"uploads"})
    <2>1. disk.upload \ {cur} \in SUBSET Ids
      BY Typed, ImageFields
    <2>2. Write([disk EXCEPT !.upload = disk.upload \ {cur}], {"uploads"}, {"uploads"})
      BY <1>4
    <2> QED
      BY <2>1, <2>2, Typed, StagingWritten, InternalDirs
  <1> QED
    BY <1>2, <1>3, <1>4 DEF RecoverStaging

\* An abandoned staging file is swept.
LEMMA SweepUploadEffect ==
  ASSUME Inv, NEW id \in Ids, SweepUpload(id)
  PROVE  /\ FsStep /\ FsTypeOK' /\ OnlyStaging
         /\ disk'.upload = disk.upload \ {id} /\ disk'.copies = disk.copies
  <1>1. disk.upload \ {id} \in SUBSET Ids
    BY Typed, ImageFields
  <1>2. Write([disk EXCEPT !.upload = disk.upload \ {id}], {"uploads"}, {"uploads"})
    BY DEF SweepUpload
  <1> QED
    BY <1>1, <1>2, Typed, StagingWritten, InternalDirs

\* The trash on a page, and the records without a tree.
LEMMA SweepTrashEffect ==
  ASSUME Inv, NEW c \in Contents, SweepTrash(c)
  PROVE  FsStep /\ FsTypeOK' /\ (Kept \/ OnlyBin(disk.trash \ {c}, disk.debt))
  <1>1. disk.trash \ {c} \in SUBSET Contents
    BY Typed, ImageFields
  <1>2. CASE Write([disk EXCEPT !.trash = disk.trash \ {c}], {"trash"}, {"trash"})
    BY <1>1, <1>2, Typed, BinWritten
  <1>3. CASE Sync
    BY <1>3, Typed, Synced
  <1> QED
    BY <1>2, <1>3 DEF SweepTrash, RemoveTree

\* A record of a deletion is swept.
LEMMA SweepDebtEffect ==
  ASSUME Inv, NEW c \in Contents, SweepDebt(c)
  PROVE  /\ FsStep /\ FsTypeOK'
         /\ Kept \/ (c \notin disk.trash /\ OnlyBin(disk.trash, disk.debt \ {c}))
  <1>1. disk.debt \ {c} \in SUBSET Contents
    BY Typed, ImageFields
  <1>2. CASE c \in disk.trash
    BY <1>2, Typed, Synced DEF SweepDebt
  <1>3. CASE c \notin disk.trash
    <2>1. Write([disk EXCEPT !.debt = disk.debt \ {c}], {"deletions"}, {"deletions"})
      BY <1>3 DEF SweepDebt
    <2> QED
      BY <1>1, <1>3, <2>1, Typed, BinWritten
  <1> QED
    BY <1>2, <1>3

\* What a power failure leaves is one of the images.
LEMMA CrashEffect ==
  ASSUME Inv, Crash
  PROVE  \E c \in crash : /\ c.img \in Image /\ disk' = c.img
                          /\ crash' = {[img |-> c.img, later |-> {}]}
                          /\ ImageOK(c.img) /\ c.img.seen \subseteq disk.seen
  <1>1. PICK c \in crash : disk' = c.img /\ crash' = {[img |-> c.img, later |-> {}]}
    BY DEF Crash
  <1>2. c.img \in Image
    BY Typed DEF FsTypeOK
  <1> QED
    BY <1>1, <1>2 DEF Inv, CrashOK

\* The types survive a power failure.
LEMMA CrashTyped ==
  ASSUME Inv, Crash
  PROVE  FsTypeOK' /\ Present'
  <1>1. PICK c \in crash : /\ c.img \in Image /\ disk' = c.img
                           /\ crash' = {[img |-> c.img, later |-> {}]}
    BY CrashEffect
  <1>2. dirty' = {}
    BY DEF Crash
  <1> QED
    BY <1>1, <1>2 DEF FsTypeOK, Present

-----------------------------------------------------------------------------
(* What every image satisfies *)

\* An image depends on the transactions it names only.
LEMMA ImageKept ==
  ASSUME NEW img, ImageOK(img), UNCHANGED info
  PROVE  ImageOK(img)'
  BY DEF ImageOK, StartedOK, DebtOK, MarkOK, PlaceOK, OnceOK, ReceiptOK, SomeSeen, NoneSeen,
     Attempts, Tracked, Started, Unpublished

\* A transaction that starts is in no image yet.
LEMMA ImageOfOthers ==
  ASSUME Inv, NEW img \in Image, ImageOK(img), NEW id \in Ids, info[id] = Void,
         NEW i \in Info, info' = [info EXCEPT ![id] = i]
  PROVE  ImageOK(img)'
  <1>1. info \in [Ids -> Info \cup {Void}] /\ i # Void
    BY Typed, VoidAssumption
  <1>2. img.seen \in SUBSET Ids /\ img.upload \in SUBSET Ids /\ img.copies \in SUBSET Ids
    BY ImageFields
  <1>3. /\ info'[id] = i /\ \A j \in Ids \ {id} : info'[j] = info[j]
        /\ id \notin img.seen \cup img.upload \cup img.copies \cup img.trash
        /\ img.journal[id] = Void
    BY <1>1 DEF ImageOK, StartedOK, Started
  <1>4. StartedOK(img)'
    BY <1>1, <1>2, <1>3 DEF ImageOK, StartedOK, Started
  <1>5. DebtOK(img)' /\ MarkOK(img)'
    BY DEF ImageOK, DebtOK, MarkOK
  <1>6. PlaceOK(img)'
    BY <1>2, <1>3 DEF ImageOK, PlaceOK, Tracked, Unpublished
  <1>7. \A op \in Ops : Attempts(op)' \subseteq Attempts(op) \cup {id}
                        /\ Attempts(op) \subseteq Attempts(op)'
    BY <1>1, <1>3 DEF Attempts
  <1>8. OnceOK(img)'
    BY <1>3, <1>7 DEF ImageOK, OnceOK
  <1>9. ReceiptOK(img)'
    BY <1>3, <1>7 DEF ImageOK, ReceiptOK, SomeSeen, NoneSeen
  <1> QED
    BY <1>4, <1>5, <1>6, <1>8, <1>9 DEF ImageOK

\* A step keeps what every image satisfies when its own image does.
LEMMA ImagesStep ==
  ASSUME Inv, FsStep, ImageOK(disk)', disk.seen \subseteq disk'.seen, UNCHANGED info
  PROVE  CrashOK'
  <1>1. ASSUME NEW c \in crash'
        PROVE  ImageOK(c.img)' /\ c.img.seen \subseteq disk'.seen
    <2>1. CASE c.img = disk'
      BY <2>1
    <2>2. CASE \E b \in crash : c.img = b.img
      <3>1. ImageOK(c.img) /\ c.img.seen \subseteq disk.seen
        BY <2>2 DEF Inv, CrashOK
      <3> QED
        BY <3>1, ImageKept
    <2> QED
      BY <2>1, <2>2 DEF FsStep
  <1> QED
    BY <1>1 DEF CrashOK, FsStep

\* The image of the process.
LEMMA DiskOK ==
  ASSUME Inv
  PROVE  ImageOK(disk)
  BY DEF Inv, CrashOK

\* Evidence that does not change.
LEMMA ClaimsKept ==
  ASSUME Inv, SameClaims, UNCHANGED info
  PROVE  MarkOK(disk)' /\ OnceOK(disk)' /\ ReceiptOK(disk)'
  BY DiskOK DEF ImageOK, SameClaims, MarkOK, OnceOK, ReceiptOK, SomeSeen, NoneSeen, Attempts

\* A publication whose mark is still to come stays where it is.
LEMMA PlacesKept ==
  ASSUME Inv, SameClaims, UNCHANGED info, disk'.dest = disk.dest
  PROVE  PlaceOK(disk)'
  BY DiskOK DEF ImageOK, SameClaims, PlaceOK, Tracked, Unpublished

\* While the service is up and nothing is pending, every publication is settled.
LEMMA AllSettled ==
  ASSUME Inv, pending = Void, ~ Restarting
  PROVE  \A id \in disk.seen : ~ (Tracked(id) /\ Unpublished(disk, id))
  <1>1. disk.seen \in SUBSET Ids /\ Void \notin Ids
    BY Typed, ImageFields, ConstantsAssumption DEF Contents
  <1> QED
    BY <1>1 DEF Inv, UnsettledOK

\* The holder of the gate has settled what was pending before it changes anything.
LEMMA InTheGate ==
  ASSUME Inv, pc \in CommitLocations \cup {"d_debt", "d_bin", "d_done"}
  PROVE  pending = Void /\ ~ Restarting
  <1>1. pending = Void
    BY DEF Inv, PendingOK, CommitLocations
  <1>2. ~ Recovering
    BY DEF Recovering, RecoveryLocations, CommitLocations
  <1> QED
    BY <1>1, <1>2, Typed DEF ControlOK, Restarting, CommitLocations

\* Quiet steps, and those that change staging files only.
LEMMA KeptImage ==
  ASSUME Inv, Kept, UNCHANGED info
  PROVE  ImageOK(disk)'
  <1>1. SameClaims /\ disk'.dest = disk.dest
    BY DEF Kept, SameTree
  <1>2. StartedOK(disk)' /\ DebtOK(disk)'
    BY DiskOK DEF ImageOK, Kept, SameClaims, SameTree, SameBin, SameStaging, StartedOK,
       DebtOK, Started
  <1> QED
    BY <1>1, <1>2, ClaimsKept, PlacesKept DEF ImageOK

\* Staging files of one transaction change.
LEMMA StagingImage ==
  ASSUME Inv, OnlyStaging, UNCHANGED info, NEW id \in Ids, Started(id),
         disk'.upload \subseteq disk.upload \cup {id},
         disk'.copies \subseteq disk.copies \cup {id},
         \/ id \notin disk.seen
         \/ disk'.upload \subseteq disk.upload /\ disk'.copies \subseteq disk.copies
  PROVE  ImageOK(disk)'
  <1>1. SameClaims /\ disk'.dest = disk.dest
    BY DEF OnlyStaging, SameTree
  <1>2. StartedOK(disk)' /\ DebtOK(disk)'
    BY DiskOK
       DEF ImageOK, OnlyStaging, SameClaims, SameTree, SameBin, StartedOK, DebtOK, Started
  <1> QED
    BY <1>1, <1>2, ClaimsKept, PlacesKept DEF ImageOK

\* A receipt that tells the truth.
LEMMA ReceiptImage ==
  ASSUME Inv, NEW op \in Ops, NEW r \in Receipts, OnlyReceipt(op, r), UNCHANGED info,
         r = "committed" => SomeSeen(disk, op), r = "rolled_back" => NoneSeen(disk, op)
  PROVE  ImageOK(disk)'
  <1>1. disk.receipt \in [Ops -> Receipts]
    BY Typed, ImageFields
  <1>2. /\ disk'.receipt[op] = r /\ \A o \in Ops \ {op} : disk'.receipt[o] = disk.receipt[o]
        /\ disk'.seen = disk.seen /\ disk'.journal = disk.journal
    BY <1>1 DEF OnlyReceipt
  <1>3. StartedOK(disk)' /\ DebtOK(disk)'
    BY <1>2, DiskOK DEF ImageOK, OnlyReceipt, SameTree, SameBin, SameStaging, StartedOK,
       DebtOK, Started
  <1>4. MarkOK(disk)' /\ OnceOK(disk)'
    BY <1>2, DiskOK DEF ImageOK, MarkOK, OnceOK, Attempts
  <1>5. PlaceOK(disk)'
    BY <1>2, DiskOK DEF ImageOK, PlaceOK, Tracked, Unpublished, OnlyReceipt, SameTree
  <1>6. ReceiptOK(disk)'
    BY <1>2, DiskOK DEF ImageOK, ReceiptOK, SomeSeen, NoneSeen, Attempts
  <1> QED
    BY <1>3, <1>4, <1>5, <1>6 DEF ImageOK

\* A journal that is retired, or that says no more than what happened.
LEMMA JournalImage ==
  ASSUME Inv, NEW id \in Ids,
         NEW j \in Journal \cup {Void}, OnlyJournal(id, j), UNCHANGED info,
         j # Void => /\ Started(id) /\ (j.published <=> id \in disk.seen)
                     /\ disk.journal[id] = Void /\ Tracked(id) => NoneSeen(disk, info[id].op)
  PROVE  ImageOK(disk)'
  <1>1. disk.journal \in [Ids -> Journal \cup {Void}]
    BY Typed, ImageFields
  <1>2. /\ disk'.journal[id] = j /\ \A o \in Ids \ {id} : disk'.journal[o] = disk.journal[o]
        /\ disk'.seen = disk.seen /\ disk'.receipt = disk.receipt
    BY <1>1 DEF OnlyJournal
  <1>3. StartedOK(disk)' /\ DebtOK(disk)'
    BY <1>2, DiskOK DEF ImageOK, OnlyJournal, SameTree, SameBin, SameStaging, StartedOK,
       DebtOK, Started
  <1>4. MarkOK(disk)'
    BY <1>2, DiskOK DEF ImageOK, MarkOK
  <1>5. ASSUME NEW op \in Ops, NEW i \in Attempts(op), NEW k \in Attempts(op), i # k,
               k \in disk.seen
        PROVE  i \notin disk.seen /\ disk'.journal[i] = Void
    <2>1. i \notin disk.seen /\ disk.journal[i] = Void /\ i \in Ids
      BY <1>5, DiskOK DEF ImageOK, OnceOK, Attempts
    <2>2. CASE i = id /\ j # Void
      <3>1. Tracked(id) /\ info[id].op = op
        BY <2>2, <1>5, StartedFields DEF Attempts
      <3> QED
        BY <3>1, <2>1, <2>2, <1>5 DEF NoneSeen
    <2> QED
      BY <2>1, <2>2, <1>2
  <1>6. OnceOK(disk)'
    BY <1>2, <1>5 DEF OnceOK, Attempts
  <1>7. PlaceOK(disk)'
    <2>1. disk.seen \in SUBSET Ids
      BY Typed, ImageFields
    <2> QED
      BY <1>2, <2>1, DiskOK
         DEF ImageOK, PlaceOK, Tracked, Unpublished, OnlyJournal, SameTree
  <1>8. ReceiptOK(disk)'
    BY <1>2, DiskOK DEF ImageOK, ReceiptOK, SomeSeen, NoneSeen, Attempts
  <1> QED
    BY <1>3, <1>4, <1>6, <1>7, <1>8 DEF ImageOK

\* Contents that move between the user tree and the backups were published, and the
\* evidence of an unsettled publication stays in its place.
LEMMA TreeImage ==
  ASSUME Inv, NEW dest, NEW backup, OnlyTree(dest, backup), UNCHANGED info,
         \A p \in Paths : dest[p] \in Ids => dest[p] \in disk.seen,
         \A id \in Ids : backup[id] \in Ids => backup[id] \in disk.seen,
         \A id \in disk.seen : Tracked(id) /\ Unpublished(disk, id) => dest[info[id].path] = id
  PROVE  ImageOK(disk)'
  <1>1. SameClaims /\ SameBin /\ SameStaging /\ disk'.dest = dest /\ disk'.backup = backup
    BY DEF OnlyTree
  <1>2. StartedOK(disk)' /\ DebtOK(disk)'
    BY <1>1, DiskOK
       DEF ImageOK, SameClaims, SameBin, SameStaging, StartedOK, DebtOK, Started
  <1>3. PlaceOK(disk)'
    BY <1>1 DEF PlaceOK, SameClaims, Tracked, Unpublished
  <1> QED
    BY <1>1, <1>2, <1>3, ClaimsKept DEF ImageOK

\* Trash stays covered by records.
LEMMA BinImage ==
  ASSUME Inv, NEW trash, NEW debt, OnlyBin(trash, debt), UNCHANGED info,
         trash \subseteq disk.trash,
         \A x \in trash : x \in disk.debt => x \in debt
  PROVE  ImageOK(disk)'
  <1>1. SameClaims /\ SameTree /\ SameStaging /\ disk'.trash = trash /\ disk'.debt = debt
        /\ disk'.dest = disk.dest
    BY DEF OnlyBin, SameTree
  <1>2. StartedOK(disk)' /\ DebtOK(disk)'
    BY <1>1, DiskOK
       DEF ImageOK, SameClaims, SameTree, SameStaging, StartedOK, DebtOK, Started
  <1> QED
    BY <1>1, <1>2, ClaimsKept, PlacesKept DEF ImageOK

\* A content leaves a backup, the user tree or the copies for the trash.
LEMMA BackupToTrashImage ==
  ASSUME Inv, BackupToTrash
  PROVE  ImageOK(disk)'
  <1>1. /\ SameClaims /\ SameStaging /\ disk'.dest = disk.dest /\ disk'.debt = disk.debt
        /\ cur \in Ids /\ disk.backup[cur] \in Contents
        /\ disk'.backup = [disk.backup EXCEPT ![cur] = Void]
        /\ disk'.trash = disk.trash \cup {disk.backup[cur]} /\ UNCHANGED info
    BY BackupToTrashEffect DEF BackupToTrash
  <1>2. disk.backup[cur] \in disk.debt
    BY Typed DEF BackupToTrash, ControlOK
  <1>3. disk.backup \in [Ids -> Contents \cup {Void}] /\ Void \notin Ids
    BY Typed, ImageFields, ConstantsAssumption DEF Contents
  <1>4. disk.backup[cur] \in Ids => disk.backup[cur] \in disk.seen
    BY <1>1, DiskOK DEF ImageOK, StartedOK
  <1>5. StartedOK(disk)'
    BY <1>1, <1>3, <1>4, DiskOK DEF ImageOK, SameClaims, SameStaging, StartedOK, Started
  <1>6. DebtOK(disk)'
    BY <1>1, <1>2, DiskOK DEF ImageOK, SameClaims, DebtOK
  <1> QED
    BY <1>1, <1>5, <1>6, ClaimsKept, PlacesKept DEF ImageOK

\* A deletion keeps what an image means.
LEMMA DeleteToTrashImage ==
  ASSUME Inv, DeleteToTrash
  PROVE  ImageOK(disk)'
  <1>1. /\ SameClaims /\ SameStaging /\ disk'.backup = disk.backup /\ disk'.debt = disk.debt
        /\ cur \in Paths /\ disk.dest[cur] \in Contents
        /\ disk'.dest = [disk.dest EXCEPT ![cur] = Void]
        /\ disk'.trash = disk.trash \cup {disk.dest[cur]} /\ UNCHANGED info
    BY DeleteToTrashEffect DEF DeleteToTrash
  <1>2. disk.dest[cur] \in disk.debt
    BY Typed DEF DeleteToTrash, ControlOK
  <1>3. disk.dest \in [Paths -> Contents \cup {Void}] /\ Void \notin Ids
    BY Typed, ImageFields, ConstantsAssumption DEF Contents
  <1>4. disk.dest[cur] \in Ids => disk.dest[cur] \in disk.seen
    BY <1>1, DiskOK DEF ImageOK, StartedOK
  <1>5. StartedOK(disk)'
    BY <1>1, <1>3, <1>4, DiskOK DEF ImageOK, SameClaims, SameStaging, StartedOK, Started
  <1>6. DebtOK(disk)'
    BY <1>1, <1>2, DiskOK DEF ImageOK, SameClaims, DebtOK
  <1>7. PlaceOK(disk)'
    BY <1>1, InTheGate, AllSettled
       DEF DeleteToTrash, PlaceOK, SameClaims, Tracked, Unpublished
  <1> QED
    BY <1>1, <1>5, <1>6, <1>7, ClaimsKept DEF ImageOK

\* So does a copy handed to the trash,
LEMMA HandOffImage ==
  ASSUME Inv, NEW id \in Ids, id \in disk.copies, UNCHANGED info,
         SameClaims, SameTree, disk'.upload = disk.upload, disk'.debt = disk.debt,
         disk'.copies = disk.copies \ {id}, disk'.trash = disk.trash \cup {id}
  PROVE  ImageOK(disk)'
  <1>1. Started(id) /\ id \notin disk.seen /\ id \notin Originals
    BY DiskOK, ConstantsAssumption DEF ImageOK, StartedOK
  <1>2. disk'.dest = disk.dest
    BY DEF SameTree
  <1>3. StartedOK(disk)'
    BY <1>1, DiskOK DEF ImageOK, SameClaims, SameTree, StartedOK, Started
  <1>4. DebtOK(disk)'
    BY <1>1, DiskOK DEF ImageOK, SameClaims, DebtOK
  <1> QED
    BY <1>2, <1>3, <1>4, ClaimsKept, PlacesKept DEF ImageOK

\* What is about to be published has not been, nor has another attempt of its
\* operation, which has no journal either.
LEMMA Unseen ==
  ASSUME Inv, pc \in PreLocations
  PROVE  /\ cur \in Ids /\ Started(cur) /\ cur \notin disk.seen /\ cur \notin disk.trash
         /\ Tracked(cur) => /\ NoneSeen(disk, info[cur].op) /\ info[cur].op \in Ops
                            /\ \A i \in Attempts(info[cur].op) : i # cur => disk.journal[i] = Void
  <1>1. pc \in CommitLocations
    BY DEF PreLocations, CommitLocations
  <1>2. cur \in Ids /\ Started(cur)
    BY <1>1, Publisher DEF At
  <1>3. Live(cur)
    BY DEF Live, At
  <1> QED
    BY <1>2, <1>3, StartedFields DEF Inv, LiveOK

\* and the publishing rename.
LEMMA PublicationImage ==
  ASSUME Inv, PublishRename \/ DirectChange
  PROVE  ImageOK(disk)'
  <1> DEFINE p == info[cur].path
             s == info[cur].src
  <1>1. /\ cur \in Ids /\ Started(cur) /\ p \in Paths
        /\ SameBin /\ disk'.journal = disk.journal /\ disk'.receipt = disk.receipt
        /\ disk'.backup = disk.backup /\ disk'.seen = disk.seen \cup {cur}
        /\ disk'.upload = disk.upload \ {cur} /\ disk'.copies = disk.copies \ {cur}
        /\ ~ Moves(cur) => disk'.dest = [disk.dest EXCEPT ![p] = cur]
        /\ Moves(cur) => disk'.dest = [disk.dest EXCEPT ![p] = disk.dest[s], ![s] = Void]
    BY PublishRenameEffect
  <1>2. UNCHANGED info /\ pc \in PreLocations /\ pc \in CommitLocations
    BY DEF PublishRename, DirectChange, PreLocations, CommitLocations
  <1>3. Moves(cur) => s \in Paths
    BY <1>1, StartedFields
  <1>4. disk.dest \in [Paths -> Contents \cup {Void}] /\ Void \notin Ids
    BY Typed, ImageFields, ConstantsAssumption DEF Contents
  <1>5. /\ cur \notin disk.seen /\ cur \notin disk.trash
        /\ Tracked(cur) => /\ NoneSeen(disk, info[cur].op) /\ info[cur].op \in Ops
                           /\ \A i \in Attempts(info[cur].op) : i # cur => disk.journal[i] = Void
    BY <1>2, Unseen
  <1>6. Tracked(cur) => pc = "publish" /\ disk.receipt[info[cur].op] # "rolled_back"
    BY Typed DEF PublishRename, DirectChange, ControlOK, At, Inv, PublisherOK
  <1>7. \A q \in Paths : disk'.dest[q] \in Ids => disk'.dest[q] \in disk.seen \cup {cur}
    <2>1. \A q \in Paths : disk.dest[q] \in Ids => disk.dest[q] \in disk.seen
      BY DiskOK DEF ImageOK, StartedOK
    <2> HIDE DEF p, s
    <2>2. CASE Moves(cur)
      BY <2>1, <2>2, <1>1, <1>3, <1>4
    <2>3. CASE ~ Moves(cur)
      BY <2>1, <2>3, <1>1, <1>4
    <2> QED
      BY <2>2, <2>3
  <1>8. StartedOK(disk)'
    <2> HIDE DEF p, s
    <2> QED
      BY <1>1, <1>2, <1>7, DiskOK DEF ImageOK, SameBin, StartedOK, Started
  <1>9. DebtOK(disk)'
    BY <1>1, <1>5, DiskOK DEF ImageOK, SameBin, DebtOK
  <1>10. MarkOK(disk)'
    BY <1>1, DiskOK DEF ImageOK, MarkOK
  <1>11. PlaceOK(disk)'
    <2>1. ASSUME NEW id \in disk'.seen, Tracked(id)', Unpublished(disk, id)'
          PROVE  disk'.dest[info'[id].path] = id
      <3>1. Tracked(id) /\ Unpublished(disk, id)
        BY <2>1, <1>1, <1>2 DEF Tracked, Unpublished
      <3>2. id = cur
        BY <2>1, <3>1, <1>1, <1>2, InTheGate, AllSettled
      <3>3. ~ Moves(cur)
        BY <3>1, <3>2 DEF Tracked, Moves
      <3> QED
        BY <3>2, <3>3, <1>1, <1>2, <1>4
    <2> QED
      BY <2>1 DEF PlaceOK
  <1>12. \A op \in Ops : cur \in Attempts(op) => Tracked(cur) /\ info[cur].op = op
    BY <1>1, StartedFields DEF Attempts
  <1>13. OnceOK(disk)'
    <2>1. ASSUME NEW op \in Ops, NEW i \in Attempts(op), NEW j \in Attempts(op), i # j,
                 j \in disk.seen \cup {cur}
          PROVE  i \notin disk.seen \cup {cur} /\ disk.journal[i] = Void
      <3>1. CASE j = cur
        BY <2>1, <3>1, <1>5, <1>12 DEF NoneSeen
      <3>2. CASE j # cur
        <4>1. i # cur
          BY <2>1, <3>2, <1>5, <1>12 DEF NoneSeen
        <4> QED
          BY <2>1, <3>2, <4>1, DiskOK DEF ImageOK, OnceOK
      <3> QED
        BY <3>1, <3>2
    <2> QED
      BY <2>1, <1>1, <1>2 DEF OnceOK, Attempts
  <1>14. ReceiptOK(disk)'
    <2>1. ASSUME NEW op \in Ops
          PROVE  /\ disk.receipt[op] = "committed" =>
                       \E id \in Attempts(op) : id \in disk.seen \cup {cur}
                 /\ disk.receipt[op] = "rolled_back" =>
                       \A id \in Attempts(op) : id \notin disk.seen \cup {cur}
      BY <1>6, <1>12, DiskOK DEF ImageOK, ReceiptOK, SomeSeen, NoneSeen
    <2> QED
      BY <2>1, <1>1, <1>2 DEF ReceiptOK, SomeSeen, NoneSeen, Attempts
  <1> QED
    BY <1>8, <1>9, <1>10, <1>11, <1>13, <1>14 DEF ImageOK

\* The steps that write anything else.
Writing ==
    \/ \E id \in Ids, kind \in {"new", "put"}, p \in Paths, op \in Ops \cup {Void} :
          Stage(id, kind, p, op)
    \/ \E id \in Ids : CleanAbandoned(id) \/ SweepUpload(id) \/ SweepCopy(id)
    \/ \E c \in Contents : SweepTrash(c) \/ SweepDebt(c)
    \/ \E op \in Ops : Prune(op)
    \/ Settle \/ Admit \/ CopyStaging \/ WriteJournal \/ BackupDestination \/ PublishRename
    \/ DirectChange \/ RestoreBackup \/ UndoJournal \/ WriteReceipt \/ CleanBackup \/ Retire
    \/ BackupDebt \/ BackupToTrash \/ DeleteDebt \/ DeleteToTrash \/ CleanupTrash
    \/ CleanupDebt \/ RecordCommitted \/ RecordRolledBack \/ RecoverBackup \/ RecoverStaging
    \/ RecoverRetire

\* Every step is one of these, a power failure or no step.
LEMMA Steps ==
  ASSUME [Next]_vars
  PROVE  Quiet \/ Writing \/ Crash \/ UNCHANGED vars
  BY DEF Next, Begin, Publication, Rollback, Deletion, Recovery, Quiet, Writing

\* A transaction starts (Stage, Transfer).
Starts(id, i) == /\ info[id] = Void /\ i \in Info /\ info' = [info EXCEPT ![id] = i]
                 /\ info'[id] = i /\ \A j \in Ids \ {id} : info'[j] = info[j]
                 /\ i.kind \in {"move", "rename"} => i.src \in Paths
                 /\ i.op \in Ops <=> i.kind = "new"
                 /\ i.kind = "new" => i.path = OpPath[i.op]

\* An upload starts one (Stage).
LEMMA StageStarts ==
  ASSUME Inv, NEW id \in Ids, NEW kind \in {"new", "put"}, NEW p \in Paths,
         NEW op \in Ops \cup {Void}, Stage(id, kind, p, op)
  PROVE  Starts(id, [kind |-> kind, path |-> p, src |-> Void, op |-> op])
  <1> DEFINE i == [kind |-> kind, path |-> p, src |-> Void, op |-> op]
  <1>1. i \in Info /\ i.kind = kind /\ i.path = p /\ i.op = op
    BY DEF Info, AllKinds
  <1>2. info[id] = Void /\ info' = [info EXCEPT ![id] = i]
        /\ IF kind = "new" THEN op \in scene.ops /\ p = OpPath[op] ELSE op = Void
    BY DEF Stage, Fresh
  <1>3. scene.ops \subseteq Ops
    BY Typed, ScenesAssumption
  <1> HIDE DEF i
  <1>4. info'[id] = i /\ \A j \in Ids \ {id} : info'[j] = info[j]
    BY <1>2, Typed
  <1>5. i.op \in Ops <=> i.kind = "new"
    BY <1>1, <1>2, <1>3, ConstantsAssumption
  <1>6. i.kind \notin {"move", "rename"}
    BY <1>1
  <1> QED
    BY <1>1, <1>2, <1>4, <1>5, <1>6 DEF Starts, i

\* A copy, move or rename starts one (Transfer).
LEMMA TransferStarts ==
  ASSUME Inv, NEW id \in Ids, NEW kind \in AllKinds, NEW s \in Paths \cup {Void},
         NEW p \in Paths,
         Transfer(id, kind, s, p)
  PROVE  /\ Starts(id, [kind |-> kind, path |-> p, src |-> s, op |-> Void])
         /\ kind \notin {"new", "put"}
  <1> DEFINE i == [kind |-> kind, path |-> p, src |-> s, op |-> Void]
  <1>1. i \in Info /\ i.kind = kind /\ i.src = s /\ i.op = Void
    BY DEF Info
  <1>2. info[id] = Void /\ info' = [info EXCEPT ![id] = i]
    BY DEF Transfer, Fresh
  <1>3. /\ kind \notin {"new", "put"}
        /\ kind # "mkdir" => s \in Paths
    BY DEF Transfer
  <1> HIDE DEF i
  <1>4. info \in [Ids -> Info \cup {Void}]
    BY Typed
  <1>5. info'[id] = i /\ \A j \in Ids \ {id} : info'[j] = info[j]
    BY <1>2, <1>4
  <1>6. i.op \notin Ops /\ i.kind # "new"
    BY <1>1, <1>3, ConstantsAssumption
  <1>7. i.kind \in {"move", "rename"} => i.src \in Paths
    BY <1>1, <1>3
  <1>8. Starts(id, i)
    BY <1>1, <1>2, <1>5, <1>6, <1>7 DEF Starts
  <1> QED
    BY <1>3, <1>8 DEF i

\* A copy is handed off by the recovery of its journal or by the sweep.
LEMMA SweepCopyEffect ==
  ASSUME Inv, NEW id \in Ids, SweepCopy(id)
  PROVE  /\ FsStep /\ FsTypeOK'
         /\ IF id \in disk.copies
            THEN /\ SameClaims /\ SameTree /\ disk'.upload = disk.upload
                 /\ disk'.debt = disk.debt /\ disk'.copies = disk.copies \ {id}
                 /\ disk'.trash = disk.trash \cup {id}
            ELSE Kept
  BY HandOffEffect DEF SweepCopy

\* What recovery records is true: the journal of the operation rules out that another
\* attempt was published (ensure_receipt).
LEMMA VerdictIsTrue ==
  ASSUME Inv, At(JudgedLocations), Tracked(cur)
  PROVE  /\ info[cur].op \in Ops /\ verdict \in Receipts
         /\ verdict = "committed" => SomeSeen(disk, info[cur].op)
         /\ verdict = "rolled_back" => NoneSeen(disk, info[cur].op)
  <1>1. cur \in Ids /\ Started(cur) /\ disk.journal[cur] # Void
    BY Recovered DEF At, JudgedLocations
  <1>2. info[cur].op \in Ops /\ verdict \in Receipts
    BY <1>1, StartedFields DEF Inv, TypeOK, Receipts
  <1>3. cur \in Attempts(info[cur].op)
    BY <1>1 DEF Attempts, Started
  <1>4. /\ verdict = "committed" => cur \in disk.seen
        /\ verdict = "rolled_back" => cur \notin disk.seen
    BY DEF Inv, RecoveryOK
  <1>5. ASSUME NEW j \in Attempts(info[cur].op), j \in disk.seen, cur \notin disk.seen
        PROVE  FALSE
    BY <1>1, <1>2, <1>3, <1>5, DiskOK DEF ImageOK, OnceOK
  <1> QED
    BY <1>2, <1>3, <1>4, <1>5 DEF SomeSeen, NoneSeen

\* Every image of every step but a power failure.
LEMMA WritingImage ==
  ASSUME Inv, Writing, UNCHANGED info
  PROVE  FsStep /\ FsTypeOK' /\ ImageOK(disk)' /\ disk.seen \subseteq disk'.seen
  <1> DEFINE G == FsStep /\ FsTypeOK' /\ ImageOK(disk)' /\ disk.seen \subseteq disk'.seen
  <1>a. Kept => ImageOK(disk)' /\ disk.seen \subseteq disk'.seen
    BY KeptImage DEF Kept, SameClaims
  <1>1. ASSUME NEW id \in Ids, NEW kind \in {"new", "put"}, NEW p \in Paths,
               NEW op \in Ops \cup {Void}, Stage(id, kind, p, op)
        PROVE  G
    <2>1. PICK i : Starts(id, i)
      BY <1>1, StageStarts
    <2> QED
      BY <2>1, VoidAssumption DEF Starts
  <1>2. ASSUME NEW id \in Ids, CleanAbandoned(id)
        PROVE  G
    <2>1. Started(id)
      BY <1>2, Typed DEF CleanAbandoned, InfoOK
    <2>2. /\ FsStep /\ FsTypeOK' /\ OnlyStaging
          /\ disk'.upload = disk.upload \ {id} /\ disk'.copies = disk.copies \ {id}
      BY <1>2, CleanAbandonedEffect
    <2> QED
      BY <2>1, <2>2, StagingImage DEF OnlyStaging, SameClaims
  <1>3. ASSUME NEW id \in Ids, SweepUpload(id)
        PROVE  G
    <2>1. /\ FsStep /\ FsTypeOK' /\ OnlyStaging
          /\ disk'.upload = disk.upload \ {id} /\ disk'.copies = disk.copies
      BY <1>3, SweepUploadEffect
    <2>2. ImageOK(disk)'
      <3>1. StartedOK(disk)' /\ DebtOK(disk)'
        BY <2>1, DiskOK DEF ImageOK, OnlyStaging, SameClaims, SameTree, SameBin, StartedOK,
           DebtOK, Started
      <3> QED
        BY <2>1, <3>1, ClaimsKept, PlacesKept DEF ImageOK, OnlyStaging, SameTree
    <2> QED
      BY <2>1, <2>2 DEF OnlyStaging, SameClaims
  <1>4. ASSUME NEW id \in Ids, SweepCopy(id)
        PROVE  G
    BY <1>4, <1>a, SweepCopyEffect, HandOffImage DEF SameClaims
  <1>5. ASSUME NEW c \in Contents, SweepTrash(c)
        PROVE  G
    BY <1>5, <1>a, SweepTrashEffect, BinImage DEF OnlyBin, SameClaims
  <1>6. ASSUME NEW c \in Contents, SweepDebt(c)
        PROVE  G
    BY <1>6, <1>a, SweepDebtEffect, BinImage DEF OnlyBin, SameClaims
  <1>7. ASSUME NEW op \in Ops, Prune(op)
        PROVE  G
    <2>1. FsStep /\ FsTypeOK' /\ (Kept \/ OnlyReceipt(op, "none"))
      BY <1>7, PruneEffect
    <2> QED
      BY <2>1, <1>a, ReceiptImage DEF OnlyReceipt, Receipts
  <1>8. CASE Settle
    <2> DEFINE j == [disk.journal[pending] EXCEPT !.published = TRUE]
    <2>1. /\ FsStep /\ FsTypeOK' /\ pending \in Ids
          /\ disk.journal[pending] \in Journal /\ disk.journal[pending] # Void
          /\ OnlyJournal(pending, j) /\ j \in Journal
      BY <1>8, SettleEffect
    <2>2. j.published
      BY <2>1 DEF Journal
    <2>3. Started(pending) /\ pending \in disk.seen
      BY <2>1, ConstantsAssumption DEF Inv, PendingOK, Contents
    <2> HIDE DEF j
    <2> QED
      BY <2>1, <2>2, <2>3, JournalImage DEF OnlyJournal
  <1>9. CASE Admit
    <2>1. Tracked(cur) => info[cur].op \in Ops
      BY <1>9, Publisher, StartedFields DEF Admit, At, CommitLocations
    <2> QED
      BY <1>9, <1>a, <2>1, AdmitEffect, ReceiptImage DEF OnlyReceipt, Receipts
  <1>10. CASE CopyStaging
    <2>1. cur \in Ids /\ Started(cur) /\ cur \notin disk.seen
      BY <1>10, Unseen DEF CopyStaging, PreLocations
    <2>2. /\ FsStep /\ FsTypeOK' /\ OnlyStaging
          /\ disk'.upload = disk.upload /\ disk'.copies = disk.copies \cup {cur}
      BY <1>10, CopyStagingEffect
    <2> QED
      BY <2>1, <2>2, StagingImage DEF OnlyStaging, SameClaims
  <1>11. CASE WriteJournal
    <2> DEFINE j == [published |-> FALSE, anchored |-> Anchored(cur)]
    <2>1. /\ cur \in Ids /\ Started(cur) /\ cur \notin disk.seen
          /\ Tracked(cur) => NoneSeen(disk, info[cur].op)
      BY <1>11, Unseen DEF WriteJournal, PreLocations
    <2>2. FsStep /\ FsTypeOK' /\ OnlyJournal(cur, j) /\ j \in Journal /\ ~ j.published
      BY <1>11, WriteJournalEffect
    <2> HIDE DEF j
    <2> QED
      BY <2>1, <2>2, JournalImage DEF OnlyJournal
  <1>12. CASE BackupDestination
    <2> DEFINE p == info[cur].path
               d == [disk.dest EXCEPT ![p] = Void]
               b == [disk.backup EXCEPT ![cur] = disk.dest[p]]
    <2>1. FsStep /\ FsTypeOK' /\ p \in Paths /\ cur \in Ids /\ OnlyTree(d, b)
      BY <1>12, BackupDestinationEffect
    <2>2. /\ disk.dest \in [Paths -> Contents \cup {Void}] /\ Void \notin Ids
          /\ disk.backup \in [Ids -> Contents \cup {Void}]
      BY Typed, ImageFields, ConstantsAssumption DEF Contents
    <2> HIDE DEF p
    <2>3. /\ \A q \in Paths : d[q] \in Ids => d[q] \in disk.seen
          /\ \A id \in Ids : b[id] \in Ids => b[id] \in disk.seen
      BY <2>1, <2>2, DiskOK DEF ImageOK, StartedOK
    <2>4. \A id \in disk.seen : ~ (Tracked(id) /\ Unpublished(disk, id))
      BY <1>12, InTheGate, AllSettled DEF BackupDestination, CommitLocations
    <2> HIDE DEF d, b
    <2> QED
      BY <2>1, <2>3, <2>4, TreeImage DEF OnlyTree, SameClaims
  <1>13. CASE PublishRename \/ DirectChange
    BY <1>13, PublicationImage, PublishRenameEffect
  <1>14. CASE RestoreBackup
    <2> DEFINE p == info[cur].path
               d == [disk.dest EXCEPT ![p] = disk.backup[cur]]
               b == [disk.backup EXCEPT ![cur] = Void]
    <2>1. /\ FsStep /\ FsTypeOK' /\ p \in Paths /\ cur \in Ids
          /\ IF disk.backup[cur] # Void THEN OnlyTree(d, b) ELSE Kept
      BY <1>14, RestoreBackupEffect
    <2>2. /\ disk.dest \in [Paths -> Contents \cup {Void}] /\ Void \notin Ids
          /\ disk.backup \in [Ids -> Contents \cup {Void}]
      BY Typed, ImageFields, ConstantsAssumption DEF Contents
    <2> HIDE DEF p
    <2>3. /\ \A q \in Paths : d[q] \in Ids => d[q] \in disk.seen
          /\ \A id \in Ids : b[id] \in Ids => b[id] \in disk.seen
      BY <2>1, <2>2, DiskOK DEF ImageOK, StartedOK
    <2>4. \A id \in disk.seen : ~ (Tracked(id) /\ Unpublished(disk, id))
      BY <1>14, InTheGate, AllSettled DEF RestoreBackup, CommitLocations
    <2> HIDE DEF d, b
    <2> QED
      BY <1>a, <2>1, <2>3, <2>4, TreeImage DEF OnlyTree, SameClaims
  <1>15. CASE UndoJournal \/ Retire \/ RecoverRetire
    <2>1. FsStep /\ FsTypeOK' /\ OnlyJournal(cur, Void) /\ cur \in Ids
      BY <1>15, RetireEffect
    <2> QED
      BY <2>1, JournalImage DEF OnlyJournal
  <1>16. CASE WriteReceipt
    <2>1. cur \in Ids /\ Started(cur)
      BY <1>16, Publisher DEF WriteReceipt, At, CommitLocations
    <2>2. Tracked(cur) => /\ info[cur].op \in Ops /\ SomeSeen(disk, info[cur].op)
      <3>1. Tracked(cur) => cur \in disk.seen
        BY <1>16 DEF WriteReceipt, Inv, PublisherOK, At, PostLocations
      <3> QED
        BY <2>1, <3>1, StartedFields DEF SomeSeen, Attempts, Started
    <2> QED
      BY <1>16, <1>a, <2>2, WriteReceiptEffect, ReceiptImage DEF OnlyReceipt, Receipts
  <1>17. CASE CleanBackup \/ RecoverBackup
    <2> DEFINE p == info[cur].path
               d == [disk.dest EXCEPT ![p] = disk.backup[cur]]
               b == [disk.backup EXCEPT ![cur] = Void]
    <2>1. /\ disk.dest \in [Paths -> Contents \cup {Void}] /\ Void \notin Ids
          /\ disk.backup \in [Ids -> Contents \cup {Void}] /\ disk.seen \in SUBSET Ids
      BY Typed, ImageFields, ConstantsAssumption DEF Contents
    <2>2. /\ \A q \in Paths : disk.dest[q] \in Ids => disk.dest[q] \in disk.seen
          /\ \A id \in Ids : disk.backup[id] \in Ids => disk.backup[id] \in disk.seen
          /\ \A id \in disk.seen : /\ Started(id)
                                   /\ Tracked(id) /\ Unpublished(disk, id) => disk.dest[info[id].path] = id
      BY DiskOK DEF ImageOK, StartedOK, PlaceOK
    <2>3. cur \in Ids => \A id \in Ids : b[id] \in Ids => b[id] \in disk.seen
      BY <2>1, <2>2
    <2>4. CASE cur \in Ids /\ OnlyTree(disk.dest, b) /\ FsStep /\ FsTypeOK'
      <3> HIDE DEF b
      <3> QED
        BY <2>2, <2>3, <2>4, TreeImage DEF OnlyTree, SameClaims
    <2>5. CASE RecoverBackup /\ Restores
      <3>1. FsStep /\ FsTypeOK' /\ cur \in Ids /\ p \in Paths /\ OnlyTree(d, b)
        BY <2>5, RecoverBackupEffect
      <3>2. disk.dest[p] = Void
        BY <2>5 DEF Restores
      <3> HIDE DEF p
      <3>3. \A q \in Paths : d[q] \in Ids => d[q] \in disk.seen
        BY <2>1, <2>2, <3>1
      <3>4. \A id \in disk.seen : info[id].path \in Paths
        BY <2>1, <2>2, StartedFields
      <3>5. \A id \in disk.seen : Tracked(id) /\ Unpublished(disk, id) => d[info[id].path] = id
        BY <2>1, <2>2, <3>1, <3>2, <3>4
      <3> HIDE DEF d, b
      <3> QED
        BY <2>3, <3>1, <3>3, <3>5, TreeImage DEF OnlyTree, SameClaims
    <2> QED
      BY <1>17, <1>a, <2>4, <2>5, CleanBackupEffect, RecoverBackupEffect
  <1>18. CASE BackupDebt \/ DeleteDebt \/ CleanupTrash \/ CleanupDebt
    <2>1. CleanupDebt => cur \notin disk.trash
      BY Typed DEF CleanupDebt, ControlOK
    <2> QED
      BY <1>18, <2>1, DebtEffect, BinImage
         DEF OnlyBin, SameClaims, BackupDebt, DeleteDebt, CleanupTrash, CleanupDebt
  <1>19. CASE BackupToTrash \/ DeleteToTrash
    BY <1>19, BackupToTrashImage, DeleteToTrashImage, BackupToTrashEffect,
       DeleteToTrashEffect
       DEF SameClaims
  <1>20. CASE RecordCommitted
    <2>1. At(JudgedLocations)
      BY <1>20 DEF RecordCommitted, At, JudgedLocations
    <2> QED
      BY <1>20, <1>a, <2>1, RecordCommittedEffect, VerdictIsTrue, ReceiptImage
         DEF OnlyReceipt
  <1>21. CASE RecordRolledBack
    <2>1. At(JudgedLocations)
      BY <1>21 DEF RecordRolledBack, At, JudgedLocations
    <2> QED
      BY <1>21, <1>a, <2>1, RecordRolledBackEffect, VerdictIsTrue, ReceiptImage
         DEF OnlyReceipt
  <1>22. CASE RecoverStaging
    <2>1. cur \in Ids /\ Started(cur)
      BY <1>22, Recovered DEF RecoverStaging, At, JudgedLocations
    <2> QED
      BY <1>22, <1>a, <2>1, RecoverStagingEffect, HandOffImage, StagingImage
         DEF OnlyStaging, SameClaims
  <1> QED
    BY <1>1, <1>2, <1>3, <1>4, <1>5, <1>6, <1>7, <1>8, <1>9, <1>10, <1>11, <1>12, <1>13,
       <1>14,
       <1>15, <1>16, <1>17, <1>18, <1>19, <1>20, <1>21, <1>22 DEF Writing

\* Every step but the start of a transaction leaves the transactions alone.
LEMMA InfoSteps ==
  ASSUME Inv, [Next]_vars
  PROVE  \/ UNCHANGED info
         \/ \E id \in Ids, kind \in {"new", "put"}, p \in Paths, op \in Ops \cup {Void} :
               Stage(id, kind, p, op)
         \/ \E id \in Ids, kind \in AllKinds, s \in Paths \cup {Void}, p \in Paths :
               Transfer(id, kind, s, p)
  <1>1. CASE Quiet
    BY <1>1
       DEF Quiet, Commit, Abandon, Judge, SweepAnchor, Delete, CleanupStart, Confirm,
       Settled,
       Reject, Conclude, TakeOwnership, LinkAnchor, RenameFails, UndoAnchor, RollbackCompleted,
       Unanchor, Done, DeleteDone, CleanupDone, Pruned, Boot, RecoverOnline, Scan, JournalsDone,
       RecoverAnchor, RecoveryDone, Fail
  <1>2. CASE Writing
    BY <1>2
       DEF Writing, CleanAbandoned, SweepUpload, SweepCopy, SweepTrash, SweepDebt, Prune,
       Settle, Admit, CopyStaging, WriteJournal, BackupDestination, PublishRename, DirectChange,
       RestoreBackup, UndoJournal, WriteReceipt, CleanBackup, Retire, BackupDebt, BackupToTrash,
       DeleteDebt, DeleteToTrash, CleanupTrash, CleanupDebt, RecordCommitted, RecordRolledBack,
       RecoverBackup, RecoverStaging, RecoverRetire
  <1>3. CASE Crash
    BY <1>3 DEF Crash
  <1>4. CASE UNCHANGED vars
    BY <1>4 DEF vars
  <1> QED
    BY <1>1, <1>2, <1>3, <1>4, Steps

\* The images after any step.
LEMMA ImagesNext ==
  ASSUME Inv, [Next]_vars
  PROVE  /\ CrashOK' /\ FsTypeOK'
         /\ Crash \/ (FsStep /\ disk.seen \subseteq disk'.seen)
  <1> DEFINE G == /\ CrashOK' /\ FsTypeOK'
                  /\ Crash \/ (FsStep /\ disk.seen \subseteq disk'.seen)
  <1>1. CASE Crash
    <2>1. PICK c \in crash : /\ c.img \in Image /\ disk' = c.img
                             /\ crash' = {[img |-> c.img, later |-> {}]}
                             /\ ImageOK(c.img) /\ c.img.seen \subseteq disk.seen
      BY <1>1, CrashEffect
    <2>2. ImageOK(c.img)'
      BY <1>1, <2>1, ImageKept DEF Crash
    <2> QED
      BY <1>1, <2>1, <2>2, CrashTyped DEF CrashOK
  <1>2. CASE Writing /\ UNCHANGED info
    BY <1>2, WritingImage, ImagesStep
  <1>3. CASE Quiet /\ UNCHANGED info
    BY <1>3, QuietEffect, KeptImage, ImagesStep DEF Kept, SameClaims
  <1>4. CASE UNCHANGED vars
    <2>1. UNCHANGED <<fs, info>>
      BY <1>4 DEF vars, fs
    <2> QED
      BY <2>1, Untouched, KeptImage, ImagesStep DEF Kept, SameClaims
  <1>5. ASSUME NEW id \in Ids, NEW i \in Info, Starts(id, i), FsStep, FsTypeOK',
               SameClaims, SameTree, SameBin, disk'.copies = disk.copies,
               disk'.upload \subseteq disk.upload \cup {id}
        PROVE  G
    <2>1. ASSUME NEW img \in Image, ImageOK(img)
          PROVE  ImageOK(img)'
      BY <1>5, <2>1, ImageOfOthers DEF Starts
    <2>2. PICK old \in Image : old = disk
      BY Typed
    <2>3. ImageOK(old) /\ ImageOK(old)' /\ info'[id] # Void
      BY <2>1, <2>2, <1>5, DiskOK, VoidAssumption DEF Starts
    <2>4. id \notin old.seen
      BY <1>5, <2>3 DEF ImageOK, StartedOK, Started, Starts
    <2>5. /\ disk'.seen = old.seen /\ disk'.journal = old.journal /\ disk'.receipt = old.receipt
          /\ disk'.dest = old.dest /\ disk'.backup = old.backup /\ disk'.trash = old.trash
          /\ disk'.debt = old.debt /\ disk'.copies = old.copies
          /\ disk'.upload \subseteq old.upload \cup {id}
      BY <1>5, <2>2 DEF SameClaims, SameTree, SameBin
    <2>6. StartedOK(disk)' /\ DebtOK(disk)' /\ MarkOK(disk)'
      BY <2>3, <2>4, <2>5 DEF ImageOK, StartedOK, DebtOK, MarkOK, Started
    <2>7. PlaceOK(disk)' /\ OnceOK(disk)' /\ ReceiptOK(disk)'
      BY <2>3, <2>5 DEF ImageOK, PlaceOK, OnceOK, ReceiptOK, Unpublished, SomeSeen, NoneSeen
    <2>8. ImageOK(disk)'
      BY <2>6, <2>7 DEF ImageOK
    <2>9. ASSUME NEW c \in crash'
          PROVE  ImageOK(c.img)' /\ c.img.seen \subseteq disk'.seen
      <3>1. CASE c.img = disk'
        BY <2>8, <3>1
      <3>2. CASE \E b \in crash : c.img = b.img
        <4>1. c.img \in Image /\ ImageOK(c.img) /\ c.img.seen \subseteq disk.seen
          BY <3>2, Typed DEF Inv, CrashOK, FsTypeOK
        <4> QED
          BY <4>1, <2>1, <2>2, <2>5
      <3> QED
        BY <3>1, <3>2, <1>5 DEF FsStep
    <2> QED
      BY <1>5, <2>9 DEF CrashOK, FsStep, SameClaims
  <1>6. ASSUME NEW id \in Ids, NEW kind \in {"new", "put"}, NEW p \in Paths,
               NEW op \in Ops \cup {Void}, Stage(id, kind, p, op)
        PROVE  G
    <2>1. PICK i : Starts(id, i)
      BY <1>6, StageStarts
    <2>2. i \in Info
      BY <2>1 DEF Starts
    <2> QED
      BY <1>5, <1>6, <2>1, <2>2, StageEffect DEF OnlyStaging
  <1>7. ASSUME NEW id \in Ids, NEW kind \in AllKinds, NEW s \in Paths \cup {Void},
               NEW p \in Paths, Transfer(id, kind, s, p)
        PROVE  G
    <2>1. PICK i : Starts(id, i)
      BY <1>7, TransferStarts
    <2>2. i \in Info
      BY <2>1 DEF Starts
    <2>3. FsStep /\ FsTypeOK' /\ Kept
      BY <1>7, QuietEffect DEF Quiet
    <2> QED
      BY <1>5, <2>1, <2>2, <2>3 DEF Kept, SameStaging
  <1> QED
    BY <1>1, <1>2, <1>3, <1>4, <1>6, <1>7, Steps, InfoSteps

-----------------------------------------------------------------------------
(* Which steps change a variable *)

\* The ticket of an operation.
LEMMA ItemSteps ==
  ASSUME [Next]_vars
  PROVE  \/ UNCHANGED item \/ Crash
         \/ \E id \in Ids, kind \in {"new", "put"}, p \in Paths, op \in Ops \cup {Void} :
               Stage(id, kind, p, op)
         \/ \E id \in Ids : Abandon(id)
         \/ \E op \in Ops : Confirm(op)
         \/ \E op \in Ops : Prune(op)
         \/ Reject \/ Done \/ Fail \/ RollbackCompleted
  <1> DEFINE G == \/ UNCHANGED item \/ Crash
                  \/ \E id \in Ids, kind \in {"new", "put"}, p \in Paths, op \in Ops \cup {Void} :
                        Stage(id, kind, p, op)
                  \/ \E id \in Ids : Abandon(id)
                  \/ \E op \in Ops : Confirm(op)
                  \/ \E op \in Ops : Prune(op)
                  \/ Reject \/ Done \/ Fail \/ RollbackCompleted
  <1>1. CASE Quiet
    <2>1. ASSUME NEW id \in Ids, Commit(id) \/ Judge(id) \/ SweepAnchor(id)
          PROVE  G
      BY <2>1
      DEF Commit, Judge, SweepAnchor, batch
    <2>2. ASSUME NEW id \in Ids, NEW kind \in AllKinds, NEW s \in Paths \cup {Void},
                 NEW p \in Paths,
              Transfer(id, kind, s, p)
          PROVE  G
      BY <2>2
      DEF Transfer, batch
    <2>3. ASSUME NEW p \in Paths, Delete(p)
          PROVE  G
      BY <2>3
      DEF Delete, batch
    <2>4. ASSUME NEW c \in Contents, CleanupStart(c)
          PROVE  G
      BY <2>4
      DEF CleanupStart, batch
    <2>5. CASE \/ Settled \/ TakeOwnership \/ LinkAnchor \/ RenameFails \/ UndoAnchor
              \/ Unanchor \/ DeleteDone \/ CleanupDone \/ Pruned
      BY <2>5
      DEF Settled, TakeOwnership, LinkAnchor, RenameFails, UndoAnchor, Unanchor, DeleteDone,
             CleanupDone, Pruned, batch
    <2>6. CASE \/ Boot \/ RecoverOnline \/ Scan \/ JournalsDone \/ RecoverAnchor
              \/ RecoveryDone
      BY <2>6
      DEF Boot, RecoverOnline, Scan, JournalsDone, RecoverAnchor, RecoveryDone, batch
    <2> QED
      BY <1>1, <2>1, <2>2, <2>3, <2>4, <2>5, <2>6 DEF Quiet
  <1>2. CASE Writing
    <2>1. ASSUME NEW id \in Ids, CleanAbandoned(id) \/ SweepUpload(id) \/ SweepCopy(id)
          PROVE  G
      BY <2>1
      DEF CleanAbandoned, SweepUpload, SweepCopy, batch
    <2>2. ASSUME NEW c \in Contents, SweepTrash(c) \/ SweepDebt(c)
          PROVE  G
      BY <2>2
      DEF SweepTrash, SweepDebt, batch
    <2>3. CASE \/ Settle \/ Admit \/ CopyStaging \/ WriteJournal \/ BackupDestination
              \/ PublishRename \/ DirectChange \/ RestoreBackup \/ UndoJournal
      BY <2>3
      DEF Settle, Admit, CopyStaging, WriteJournal, BackupDestination, PublishRename,
             DirectChange, RestoreBackup, UndoJournal, batch
    <2>4. CASE \/ WriteReceipt \/ CleanBackup \/ Retire \/ BackupDebt \/ BackupToTrash
              \/ DeleteDebt \/ DeleteToTrash \/ CleanupTrash \/ CleanupDebt
      BY <2>4
      DEF WriteReceipt, CleanBackup, Retire, BackupDebt, BackupToTrash, DeleteDebt,
             DeleteToTrash, CleanupTrash, CleanupDebt, batch
    <2>5. CASE \/ RecordCommitted \/ RecordRolledBack \/ RecoverBackup \/ RecoverStaging \/ RecoverRetire
      BY <2>5
      DEF RecordCommitted, RecordRolledBack, RecoverBackup, RecoverStaging, RecoverRetire,
             batch
    <2> QED
      BY <1>2, <2>1, <2>2, <2>3, <2>4, <2>5 DEF Writing
  <1>3. CASE UNCHANGED vars
    BY <1>3 DEF vars
  <1> QED
    BY <1>1, <1>2, <1>3, Steps

\* The confirmation window.
LEMMA WindowSteps ==
  ASSUME [Next]_vars
  PROVE  \/ UNCHANGED window \/ Crash
         \/ \E op \in Ops : Confirm(op)
         \/ RecoverOnline \/ RecoveryDone
  <1> DEFINE G == \/ UNCHANGED window \/ Crash
                  \/ \E op \in Ops : Confirm(op)
                  \/ RecoverOnline \/ RecoveryDone
  <1>1. CASE Quiet
    <2>1. ASSUME NEW id \in Ids, Commit(id) \/ Abandon(id) \/ Judge(id) \/ SweepAnchor(id)
          PROVE  G
      BY <2>1
      DEF Commit, Abandon, Judge, SweepAnchor, batch
    <2>2. ASSUME NEW id \in Ids, NEW kind \in AllKinds, NEW s \in Paths \cup {Void},
                 NEW p \in Paths,
              Transfer(id, kind, s, p)
          PROVE  G
      BY <2>2
      DEF Transfer, batch
    <2>3. ASSUME NEW p \in Paths, Delete(p)
          PROVE  G
      BY <2>3
      DEF Delete, batch
    <2>4. ASSUME NEW c \in Contents, CleanupStart(c)
          PROVE  G
      BY <2>4
      DEF CleanupStart, batch
    <2>5. CASE \/ Settled \/ Reject \/ TakeOwnership \/ LinkAnchor \/ RenameFails
              \/ UndoAnchor \/ RollbackCompleted \/ Unanchor \/ Done
      BY <2>5
      DEF Settled, Reject, TakeOwnership, LinkAnchor, RenameFails, UndoAnchor,
             RollbackCompleted, Unanchor, Done, batch, Conclude
    <2>6. CASE \/ DeleteDone \/ CleanupDone \/ Pruned \/ Boot \/ Scan
              \/ JournalsDone \/ RecoverAnchor \/ Fail
      BY <2>6
      DEF DeleteDone, CleanupDone, Pruned, Boot, Scan, JournalsDone, RecoverAnchor, Fail,
             batch, Conclude
    <2> QED
      BY <1>1, <2>1, <2>2, <2>3, <2>4, <2>5, <2>6 DEF Quiet
  <1>2. CASE Writing
    <2>1. ASSUME NEW id \in Ids, CleanAbandoned(id) \/ SweepUpload(id) \/ SweepCopy(id)
          PROVE  G
      BY <2>1
      DEF CleanAbandoned, SweepUpload, SweepCopy, batch
    <2>2. ASSUME NEW id \in Ids, NEW kind \in {"new", "put"}, NEW p \in Paths,
                 NEW op \in Ops \cup {Void},
              Stage(id, kind, p, op)
          PROVE  G
      BY <2>2
      DEF Stage, batch
    <2>3. ASSUME NEW c \in Contents, SweepTrash(c) \/ SweepDebt(c)
          PROVE  G
      BY <2>3
      DEF SweepTrash, SweepDebt, batch
    <2>4. ASSUME NEW op \in Ops, Prune(op)
          PROVE  G
      BY <2>4
      DEF Prune, batch
    <2>5. CASE \/ Settle \/ Admit \/ CopyStaging \/ WriteJournal \/ BackupDestination
              \/ PublishRename \/ DirectChange \/ RestoreBackup \/ UndoJournal
      BY <2>5
      DEF Settle, Admit, CopyStaging, WriteJournal, BackupDestination, PublishRename,
             DirectChange, RestoreBackup, UndoJournal, batch
    <2>6. CASE \/ WriteReceipt \/ CleanBackup \/ Retire \/ BackupDebt \/ BackupToTrash
              \/ DeleteDebt \/ DeleteToTrash \/ CleanupTrash \/ CleanupDebt
      BY <2>6
      DEF WriteReceipt, CleanBackup, Retire, BackupDebt, BackupToTrash, DeleteDebt,
             DeleteToTrash, CleanupTrash, CleanupDebt, batch
    <2>7. CASE \/ RecordCommitted \/ RecordRolledBack \/ RecoverBackup \/ RecoverStaging \/ RecoverRetire
      BY <2>7
      DEF RecordCommitted, RecordRolledBack, RecoverBackup, RecoverStaging, RecoverRetire,
             batch
    <2> QED
      BY <1>2, <2>1, <2>2, <2>3, <2>4, <2>5, <2>6, <2>7 DEF Writing
  <1>3. CASE UNCHANGED vars
    BY <1>3 DEF vars
  <1> QED
    BY <1>1, <1>2, <1>3, Steps

\* Who owns a staging resource.
LEMMA OwnerSteps ==
  ASSUME [Next]_vars
  PROVE  \/ UNCHANGED owner \/ Crash
         \/ \E id \in Ids, kind \in {"new", "put"}, p \in Paths, op \in Ops \cup {Void} :
               Stage(id, kind, p, op)
         \/ \E id \in Ids : Abandon(id)
         \/ \E id \in Ids : CleanAbandoned(id)
         \/ \E id \in Ids, kind \in AllKinds, s \in Paths \cup {Void}, p \in Paths :
               Transfer(id, kind, s, p)
         \/ TakeOwnership \/ Reject \/ Done \/ Fail \/ RollbackCompleted \/ RecoveryDone
  <1> DEFINE G == \/ UNCHANGED owner \/ Crash
                  \/ \E id \in Ids, kind \in {"new", "put"}, p \in Paths, op \in Ops \cup {Void} :
                        Stage(id, kind, p, op)
                  \/ \E id \in Ids : Abandon(id)
                  \/ \E id \in Ids : CleanAbandoned(id)
                  \/ \E id \in Ids, kind \in AllKinds, s \in Paths \cup {Void}, p \in Paths :
                        Transfer(id, kind, s, p)
                  \/ TakeOwnership \/ Reject \/ Done \/ Fail \/ RollbackCompleted \/ RecoveryDone
  <1>1. CASE Quiet
    <2>1. ASSUME NEW id \in Ids, Commit(id) \/ Judge(id) \/ SweepAnchor(id)
          PROVE  G
      BY <2>1
      DEF Commit, Judge, SweepAnchor
    <2>2. ASSUME NEW p \in Paths, Delete(p)
          PROVE  G
      BY <2>2
      DEF Delete
    <2>3. ASSUME NEW c \in Contents, CleanupStart(c)
          PROVE  G
      BY <2>3
      DEF CleanupStart
    <2>4. ASSUME NEW op \in Ops, Confirm(op)
          PROVE  G
      BY <2>4
      DEF Confirm
    <2>5. CASE \/ Settled \/ LinkAnchor \/ RenameFails \/ UndoAnchor \/ Unanchor
              \/ DeleteDone \/ CleanupDone \/ Pruned \/ Boot
      BY <2>5
      DEF Settled, LinkAnchor, RenameFails, UndoAnchor, Unanchor, DeleteDone, CleanupDone,
             Pruned, Boot
    <2>6. CASE \/ RecoverOnline \/ Scan \/ JournalsDone \/ RecoverAnchor
      BY <2>6
      DEF RecoverOnline, Scan, JournalsDone, RecoverAnchor
    <2> QED
      BY <1>1, <2>1, <2>2, <2>3, <2>4, <2>5, <2>6 DEF Quiet
  <1>2. CASE Writing
    <2>1. ASSUME NEW id \in Ids, SweepUpload(id) \/ SweepCopy(id)
          PROVE  G
      BY <2>1
      DEF SweepUpload, SweepCopy
    <2>2. ASSUME NEW c \in Contents, SweepTrash(c) \/ SweepDebt(c)
          PROVE  G
      BY <2>2
      DEF SweepTrash, SweepDebt
    <2>3. ASSUME NEW op \in Ops, Prune(op)
          PROVE  G
      BY <2>3
      DEF Prune
    <2>4. CASE \/ Settle \/ Admit \/ CopyStaging \/ WriteJournal \/ BackupDestination
              \/ PublishRename \/ DirectChange \/ RestoreBackup \/ UndoJournal
      BY <2>4
      DEF Settle, Admit, CopyStaging, WriteJournal, BackupDestination, PublishRename,
             DirectChange, RestoreBackup, UndoJournal
    <2>5. CASE \/ WriteReceipt \/ CleanBackup \/ Retire \/ BackupDebt \/ BackupToTrash
              \/ DeleteDebt \/ DeleteToTrash \/ CleanupTrash \/ CleanupDebt
      BY <2>5
      DEF WriteReceipt, CleanBackup, Retire, BackupDebt, BackupToTrash, DeleteDebt,
             DeleteToTrash, CleanupTrash, CleanupDebt
    <2>6. CASE \/ RecordCommitted \/ RecordRolledBack \/ RecoverBackup \/ RecoverStaging \/ RecoverRetire
      BY <2>6
      DEF RecordCommitted, RecordRolledBack, RecoverBackup, RecoverStaging, RecoverRetire
    <2> QED
      BY <1>2, <2>1, <2>2, <2>3, <2>4, <2>5, <2>6 DEF Writing
  <1>3. CASE UNCHANGED vars
    BY <1>3 DEF vars
  <1> QED
    BY <1>1, <1>2, <1>3, Steps

\* pending_publication.
LEMMA PendingSteps ==
  ASSUME [Next]_vars
  PROVE  \/ UNCHANGED pending \/ Crash
         \/ PublishRename \/ Settled
  <1> DEFINE G == \/ UNCHANGED pending \/ Crash
                  \/ PublishRename \/ Settled
  <1>1. CASE Quiet
    <2>1. ASSUME NEW id \in Ids, Commit(id) \/ Abandon(id) \/ Judge(id) \/ SweepAnchor(id)
          PROVE  G
      BY <2>1
      DEF Commit, Abandon, Judge, SweepAnchor
    <2>2. ASSUME NEW id \in Ids, NEW kind \in AllKinds, NEW s \in Paths \cup {Void},
                 NEW p \in Paths,
              Transfer(id, kind, s, p)
          PROVE  G
      BY <2>2
      DEF Transfer
    <2>3. ASSUME NEW p \in Paths, Delete(p)
          PROVE  G
      BY <2>3
      DEF Delete
    <2>4. ASSUME NEW c \in Contents, CleanupStart(c)
          PROVE  G
      BY <2>4
      DEF CleanupStart
    <2>5. ASSUME NEW op \in Ops, Confirm(op)
          PROVE  G
      BY <2>5
      DEF Confirm
    <2>6. CASE \/ Reject \/ TakeOwnership \/ LinkAnchor \/ RenameFails \/ UndoAnchor
              \/ RollbackCompleted \/ Unanchor \/ Done \/ DeleteDone
      BY <2>6
      DEF Reject, TakeOwnership, LinkAnchor, RenameFails, UndoAnchor, RollbackCompleted,
             Unanchor, Done, DeleteDone, Conclude
    <2>7. CASE \/ CleanupDone \/ Pruned \/ Boot \/ RecoverOnline \/ Scan
              \/ JournalsDone \/ RecoverAnchor \/ RecoveryDone \/ Fail
      BY <2>7
      DEF CleanupDone, Pruned, Boot, RecoverOnline, Scan, JournalsDone, RecoverAnchor,
             RecoveryDone, Fail, Conclude
    <2> QED
      BY <1>1, <2>1, <2>2, <2>3, <2>4, <2>5, <2>6, <2>7 DEF Quiet
  <1>2. CASE Writing
    <2>1. ASSUME NEW id \in Ids, CleanAbandoned(id) \/ SweepUpload(id) \/ SweepCopy(id)
          PROVE  G
      BY <2>1
      DEF CleanAbandoned, SweepUpload, SweepCopy
    <2>2. ASSUME NEW id \in Ids, NEW kind \in {"new", "put"}, NEW p \in Paths,
                 NEW op \in Ops \cup {Void},
              Stage(id, kind, p, op)
          PROVE  G
      BY <2>2
      DEF Stage
    <2>3. ASSUME NEW c \in Contents, SweepTrash(c) \/ SweepDebt(c)
          PROVE  G
      BY <2>3
      DEF SweepTrash, SweepDebt
    <2>4. ASSUME NEW op \in Ops, Prune(op)
          PROVE  G
      BY <2>4
      DEF Prune
    <2>5. CASE \/ Settle \/ Admit \/ CopyStaging \/ WriteJournal \/ BackupDestination
              \/ DirectChange \/ RestoreBackup \/ UndoJournal \/ WriteReceipt
      BY <2>5
      DEF Settle, Admit, CopyStaging, WriteJournal, BackupDestination, DirectChange,
             RestoreBackup, UndoJournal, WriteReceipt
    <2>6. CASE \/ CleanBackup \/ Retire \/ BackupDebt \/ BackupToTrash \/ DeleteDebt
              \/ DeleteToTrash \/ CleanupTrash \/ CleanupDebt \/ RecordCommitted
      BY <2>6
      DEF CleanBackup, Retire, BackupDebt, BackupToTrash, DeleteDebt, DeleteToTrash,
             CleanupTrash, CleanupDebt, RecordCommitted
    <2>7. CASE \/ RecordRolledBack \/ RecoverBackup \/ RecoverStaging \/ RecoverRetire
      BY <2>7
      DEF RecordRolledBack, RecoverBackup, RecoverStaging, RecoverRetire
    <2> QED
      BY <1>2, <2>1, <2>2, <2>3, <2>4, <2>5, <2>6, <2>7 DEF Writing
  <1>3. CASE UNCHANGED vars
    BY <1>3 DEF vars
  <1> QED
    BY <1>1, <1>2, <1>3, Steps

\* The subject of the gate holder.
LEMMA CurSteps ==
  ASSUME [Next]_vars
  PROVE  \/ UNCHANGED cur \/ Crash
         \/ \E id \in Ids : Commit(id)
         \/ \E id \in Ids, kind \in AllKinds, s \in Paths \cup {Void}, p \in Paths :
               Transfer(id, kind, s, p)
         \/ \E p \in Paths : Delete(p)
         \/ \E c \in Contents : CleanupStart(c)
         \/ \E id \in Ids : Judge(id)
         \/ \E c \in Contents : SweepTrash(c)
         \/ JournalsDone
  <1> DEFINE G == \/ UNCHANGED cur \/ Crash
                  \/ \E id \in Ids : Commit(id)
                  \/ \E id \in Ids, kind \in AllKinds, s \in Paths \cup {Void}, p \in Paths :
                        Transfer(id, kind, s, p)
                  \/ \E p \in Paths : Delete(p)
                  \/ \E c \in Contents : CleanupStart(c)
                  \/ \E id \in Ids : Judge(id)
                  \/ \E c \in Contents : SweepTrash(c)
                  \/ JournalsDone
  <1>1. CASE Quiet
    <2>1. ASSUME NEW id \in Ids, Abandon(id) \/ SweepAnchor(id)
          PROVE  G
      BY <2>1
      DEF Abandon, SweepAnchor
    <2>2. ASSUME NEW op \in Ops, Confirm(op)
          PROVE  G
      BY <2>2
      DEF Confirm
    <2>3. CASE \/ Settled \/ Reject \/ TakeOwnership \/ LinkAnchor \/ RenameFails
              \/ UndoAnchor \/ RollbackCompleted \/ Unanchor \/ Done
      BY <2>3
      DEF Settled, Reject, TakeOwnership, LinkAnchor, RenameFails, UndoAnchor,
             RollbackCompleted, Unanchor, Done, Conclude
    <2>4. CASE \/ DeleteDone \/ CleanupDone \/ Pruned \/ Boot \/ RecoverOnline
              \/ Scan \/ RecoverAnchor \/ RecoveryDone \/ Fail
      BY <2>4
      DEF DeleteDone, CleanupDone, Pruned, Boot, RecoverOnline, Scan, RecoverAnchor,
             RecoveryDone, Fail, Conclude
    <2> QED
      BY <1>1, <2>1, <2>2, <2>3, <2>4 DEF Quiet
  <1>2. CASE Writing
    <2>1. ASSUME NEW id \in Ids, CleanAbandoned(id) \/ SweepUpload(id) \/ SweepCopy(id)
          PROVE  G
      BY <2>1
      DEF CleanAbandoned, SweepUpload, SweepCopy
    <2>2. ASSUME NEW id \in Ids, NEW kind \in {"new", "put"}, NEW p \in Paths,
                 NEW op \in Ops \cup {Void},
              Stage(id, kind, p, op)
          PROVE  G
      BY <2>2
      DEF Stage
    <2>3. ASSUME NEW c \in Contents, SweepDebt(c)
          PROVE  G
      BY <2>3
      DEF SweepDebt
    <2>4. ASSUME NEW op \in Ops, Prune(op)
          PROVE  G
      BY <2>4
      DEF Prune
    <2>5. CASE \/ Settle \/ Admit \/ CopyStaging \/ WriteJournal \/ BackupDestination
              \/ PublishRename \/ DirectChange \/ RestoreBackup \/ UndoJournal
      BY <2>5
      DEF Settle, Admit, CopyStaging, WriteJournal, BackupDestination, PublishRename,
             DirectChange, RestoreBackup, UndoJournal
    <2>6. CASE \/ WriteReceipt \/ CleanBackup \/ Retire \/ BackupDebt \/ BackupToTrash
              \/ DeleteDebt \/ DeleteToTrash \/ CleanupTrash \/ CleanupDebt
      BY <2>6
      DEF WriteReceipt, CleanBackup, Retire, BackupDebt, BackupToTrash, DeleteDebt,
             DeleteToTrash, CleanupTrash, CleanupDebt
    <2>7. CASE \/ RecordCommitted \/ RecordRolledBack \/ RecoverBackup \/ RecoverStaging \/ RecoverRetire
      BY <2>7
      DEF RecordCommitted, RecordRolledBack, RecoverBackup, RecoverStaging, RecoverRetire
    <2> QED
      BY <1>2, <2>1, <2>2, <2>3, <2>4, <2>5, <2>6, <2>7 DEF Writing
  <1>3. CASE UNCHANGED vars
    BY <1>3 DEF vars
  <1> QED
    BY <1>1, <1>2, <1>3, Steps

\* PublicationAccounting.
LEMMA StageSteps ==
  ASSUME [Next]_vars
  PROVE  \/ UNCHANGED stage \/ Crash
         \/ TakeOwnership \/ PublishRename \/ DirectChange \/ Reject \/ Done \/ Fail \/ RollbackCompleted
  <1> DEFINE G == \/ UNCHANGED stage \/ Crash
                  \/ TakeOwnership \/ PublishRename \/ DirectChange \/ Reject \/ Done \/ Fail \/ RollbackCompleted
  <1>1. CASE Quiet
    <2>1. ASSUME NEW id \in Ids, Commit(id) \/ Abandon(id) \/ Judge(id) \/ SweepAnchor(id)
          PROVE  G
      BY <2>1
      DEF Commit, Abandon, Judge, SweepAnchor
    <2>2. ASSUME NEW id \in Ids, NEW kind \in AllKinds, NEW s \in Paths \cup {Void},
                 NEW p \in Paths,
              Transfer(id, kind, s, p)
          PROVE  G
      BY <2>2
      DEF Transfer
    <2>3. ASSUME NEW p \in Paths, Delete(p)
          PROVE  G
      BY <2>3
      DEF Delete
    <2>4. ASSUME NEW c \in Contents, CleanupStart(c)
          PROVE  G
      BY <2>4
      DEF CleanupStart
    <2>5. ASSUME NEW op \in Ops, Confirm(op)
          PROVE  G
      BY <2>5
      DEF Confirm
    <2>6. CASE \/ Settled \/ LinkAnchor \/ RenameFails \/ UndoAnchor \/ Unanchor
              \/ DeleteDone \/ CleanupDone \/ Pruned \/ Boot
      BY <2>6
      DEF Settled, LinkAnchor, RenameFails, UndoAnchor, Unanchor, DeleteDone, CleanupDone,
             Pruned, Boot
    <2>7. CASE \/ RecoverOnline \/ Scan \/ JournalsDone \/ RecoverAnchor \/ RecoveryDone
      BY <2>7
      DEF RecoverOnline, Scan, JournalsDone, RecoverAnchor, RecoveryDone
    <2> QED
      BY <1>1, <2>1, <2>2, <2>3, <2>4, <2>5, <2>6, <2>7 DEF Quiet
  <1>2. CASE Writing
    <2>1. ASSUME NEW id \in Ids, CleanAbandoned(id) \/ SweepUpload(id) \/ SweepCopy(id)
          PROVE  G
      BY <2>1
      DEF CleanAbandoned, SweepUpload, SweepCopy
    <2>2. ASSUME NEW id \in Ids, NEW kind \in {"new", "put"}, NEW p \in Paths,
                 NEW op \in Ops \cup {Void},
              Stage(id, kind, p, op)
          PROVE  G
      BY <2>2
      DEF Stage
    <2>3. ASSUME NEW c \in Contents, SweepTrash(c) \/ SweepDebt(c)
          PROVE  G
      BY <2>3
      DEF SweepTrash, SweepDebt
    <2>4. ASSUME NEW op \in Ops, Prune(op)
          PROVE  G
      BY <2>4
      DEF Prune
    <2>5. CASE \/ Settle \/ Admit \/ CopyStaging \/ WriteJournal \/ BackupDestination
              \/ RestoreBackup \/ UndoJournal \/ WriteReceipt \/ CleanBackup
      BY <2>5
      DEF Settle, Admit, CopyStaging, WriteJournal, BackupDestination, RestoreBackup,
             UndoJournal, WriteReceipt, CleanBackup
    <2>6. CASE \/ Retire \/ BackupDebt \/ BackupToTrash \/ DeleteDebt \/ DeleteToTrash
              \/ CleanupTrash \/ CleanupDebt \/ RecordCommitted \/ RecordRolledBack
      BY <2>6
      DEF Retire, BackupDebt, BackupToTrash, DeleteDebt, DeleteToTrash, CleanupTrash,
             CleanupDebt, RecordCommitted, RecordRolledBack
    <2>7. CASE \/ RecoverBackup \/ RecoverStaging \/ RecoverRetire
      BY <2>7
      DEF RecoverBackup, RecoverStaging, RecoverRetire
    <2> QED
      BY <1>2, <2>1, <2>2, <2>3, <2>4, <2>5, <2>6, <2>7 DEF Writing
  <1>3. CASE UNCHANGED vars
    BY <1>3 DEF vars
  <1> QED
    BY <1>1, <1>2, <1>3, Steps

\* The startup recovery.
LEMMA BootingSteps ==
  ASSUME [Next]_vars
  PROVE  \/ UNCHANGED booting \/ Crash
         \/ \E id \in Ids : Judge(id)
         \/ Boot \/ Scan \/ RecordCommitted \/ RecordRolledBack \/ RecoveryDone \/ Fail
  <1> DEFINE G == \/ UNCHANGED booting \/ Crash
                  \/ \E id \in Ids : Judge(id)
                  \/ Boot \/ Scan \/ RecordCommitted \/ RecordRolledBack \/ RecoveryDone \/ Fail
  <1>1. CASE Quiet
    <2>1. ASSUME NEW id \in Ids, Commit(id) \/ Abandon(id) \/ SweepAnchor(id)
          PROVE  G
      BY <2>1
      DEF Commit, Abandon, SweepAnchor, rec
    <2>2. ASSUME NEW id \in Ids, NEW kind \in AllKinds, NEW s \in Paths \cup {Void},
                 NEW p \in Paths,
              Transfer(id, kind, s, p)
          PROVE  G
      BY <2>2
      DEF Transfer, rec
    <2>3. ASSUME NEW p \in Paths, Delete(p)
          PROVE  G
      BY <2>3
      DEF Delete, rec
    <2>4. ASSUME NEW c \in Contents, CleanupStart(c)
          PROVE  G
      BY <2>4
      DEF CleanupStart, rec
    <2>5. ASSUME NEW op \in Ops, Confirm(op)
          PROVE  G
      BY <2>5
      DEF Confirm, rec
    <2>6. CASE \/ Settled \/ Reject \/ TakeOwnership \/ LinkAnchor \/ RenameFails
              \/ UndoAnchor \/ RollbackCompleted \/ Unanchor \/ Done
      BY <2>6
      DEF Settled, Reject, TakeOwnership, LinkAnchor, RenameFails, UndoAnchor,
             RollbackCompleted, Unanchor, Done, rec, Conclude
    <2>7. CASE \/ DeleteDone \/ CleanupDone \/ Pruned \/ RecoverOnline \/ JournalsDone
              \/ RecoverAnchor
      BY <2>7
      DEF DeleteDone, CleanupDone, Pruned, RecoverOnline, JournalsDone, RecoverAnchor, rec
    <2> QED
      BY <1>1, <2>1, <2>2, <2>3, <2>4, <2>5, <2>6, <2>7 DEF Quiet
  <1>2. CASE Writing
    <2>1. ASSUME NEW id \in Ids, CleanAbandoned(id) \/ SweepUpload(id) \/ SweepCopy(id)
          PROVE  G
      BY <2>1
      DEF CleanAbandoned, SweepUpload, SweepCopy, rec
    <2>2. ASSUME NEW id \in Ids, NEW kind \in {"new", "put"}, NEW p \in Paths,
                 NEW op \in Ops \cup {Void},
              Stage(id, kind, p, op)
          PROVE  G
      BY <2>2
      DEF Stage, rec
    <2>3. ASSUME NEW c \in Contents, SweepTrash(c) \/ SweepDebt(c)
          PROVE  G
      BY <2>3
      DEF SweepTrash, SweepDebt, rec
    <2>4. ASSUME NEW op \in Ops, Prune(op)
          PROVE  G
      BY <2>4
      DEF Prune, rec
    <2>5. CASE \/ Settle \/ Admit \/ CopyStaging \/ WriteJournal \/ BackupDestination
              \/ PublishRename \/ DirectChange \/ RestoreBackup \/ UndoJournal
      BY <2>5
      DEF Settle, Admit, CopyStaging, WriteJournal, BackupDestination, PublishRename,
             DirectChange, RestoreBackup, UndoJournal, rec
    <2>6. CASE \/ WriteReceipt \/ CleanBackup \/ Retire \/ BackupDebt \/ BackupToTrash
              \/ DeleteDebt \/ DeleteToTrash \/ CleanupTrash \/ CleanupDebt
      BY <2>6
      DEF WriteReceipt, CleanBackup, Retire, BackupDebt, BackupToTrash, DeleteDebt,
             DeleteToTrash, CleanupTrash, CleanupDebt, rec
    <2>7. CASE \/ RecoverBackup \/ RecoverStaging \/ RecoverRetire
      BY <2>7
      DEF RecoverBackup, RecoverStaging, RecoverRetire, rec
    <2> QED
      BY <1>2, <2>1, <2>2, <2>3, <2>4, <2>5, <2>6, <2>7 DEF Writing
  <1>3. CASE UNCHANGED vars
    BY <1>3 DEF vars
  <1> QED
    BY <1>1, <1>2, <1>3, Steps

\* The verdict on a journal.
LEMMA VerdictSteps ==
  ASSUME [Next]_vars
  PROVE  \/ UNCHANGED verdict \/ Crash
         \/ \E id \in Ids : Judge(id)
  <1> DEFINE G == \/ UNCHANGED verdict \/ Crash
                  \/ \E id \in Ids : Judge(id)
  <1>1. CASE Quiet
    <2>1. ASSUME NEW id \in Ids, Commit(id) \/ Abandon(id) \/ SweepAnchor(id)
          PROVE  G
      BY <2>1
      DEF Commit, Abandon, SweepAnchor, rec
    <2>2. ASSUME NEW id \in Ids, NEW kind \in AllKinds, NEW s \in Paths \cup {Void},
                 NEW p \in Paths,
              Transfer(id, kind, s, p)
          PROVE  G
      BY <2>2
      DEF Transfer, rec
    <2>3. ASSUME NEW p \in Paths, Delete(p)
          PROVE  G
      BY <2>3
      DEF Delete, rec
    <2>4. ASSUME NEW c \in Contents, CleanupStart(c)
          PROVE  G
      BY <2>4
      DEF CleanupStart, rec
    <2>5. ASSUME NEW op \in Ops, Confirm(op)
          PROVE  G
      BY <2>5
      DEF Confirm, rec
    <2>6. CASE \/ Settled \/ Reject \/ TakeOwnership \/ LinkAnchor \/ RenameFails
              \/ UndoAnchor \/ RollbackCompleted \/ Unanchor \/ Done
      BY <2>6
      DEF Settled, Reject, TakeOwnership, LinkAnchor, RenameFails, UndoAnchor,
             RollbackCompleted, Unanchor, Done, rec, Conclude
    <2>7. CASE \/ DeleteDone \/ CleanupDone \/ Pruned \/ Boot \/ RecoverOnline
              \/ Scan \/ JournalsDone \/ RecoverAnchor \/ RecoveryDone
      BY <2>7
      DEF DeleteDone, CleanupDone, Pruned, Boot, RecoverOnline, Scan, JournalsDone,
             RecoverAnchor, RecoveryDone, rec, Stop
    <2>8. CASE \/ Fail
      BY <2>8
      DEF Fail, rec, Conclude
    <2> QED
      BY <1>1, <2>1, <2>2, <2>3, <2>4, <2>5, <2>6, <2>7, <2>8 DEF Quiet
  <1>2. CASE Writing
    <2>1. ASSUME NEW id \in Ids, CleanAbandoned(id) \/ SweepUpload(id) \/ SweepCopy(id)
          PROVE  G
      BY <2>1
      DEF CleanAbandoned, SweepUpload, SweepCopy, rec
    <2>2. ASSUME NEW id \in Ids, NEW kind \in {"new", "put"}, NEW p \in Paths,
                 NEW op \in Ops \cup {Void},
              Stage(id, kind, p, op)
          PROVE  G
      BY <2>2
      DEF Stage, rec
    <2>3. ASSUME NEW c \in Contents, SweepTrash(c) \/ SweepDebt(c)
          PROVE  G
      BY <2>3
      DEF SweepTrash, SweepDebt, rec
    <2>4. ASSUME NEW op \in Ops, Prune(op)
          PROVE  G
      BY <2>4
      DEF Prune, rec
    <2>5. CASE \/ Settle \/ Admit \/ CopyStaging \/ WriteJournal \/ BackupDestination
              \/ PublishRename \/ DirectChange \/ RestoreBackup \/ UndoJournal
      BY <2>5
      DEF Settle, Admit, CopyStaging, WriteJournal, BackupDestination, PublishRename,
             DirectChange, RestoreBackup, UndoJournal, rec
    <2>6. CASE \/ WriteReceipt \/ CleanBackup \/ Retire \/ BackupDebt \/ BackupToTrash
              \/ DeleteDebt \/ DeleteToTrash \/ CleanupTrash \/ CleanupDebt
      BY <2>6
      DEF WriteReceipt, CleanBackup, Retire, BackupDebt, BackupToTrash, DeleteDebt,
             DeleteToTrash, CleanupTrash, CleanupDebt, rec
    <2>7. CASE \/ RecordCommitted \/ RecordRolledBack \/ RecoverBackup \/ RecoverStaging \/ RecoverRetire
      BY <2>7
      DEF RecordCommitted, RecordRolledBack, RecoverBackup, RecoverStaging, RecoverRetire, rec,
             RecordOutcome, Stop
    <2> QED
      BY <1>2, <2>1, <2>2, <2>3, <2>4, <2>5, <2>6, <2>7 DEF Writing
  <1>3. CASE UNCHANGED vars
    BY <1>3 DEF vars
  <1> QED
    BY <1>1, <1>2, <1>3, Steps

\* The inventory of recovery.
LEMMA TodoSteps ==
  ASSUME [Next]_vars
  PROVE  \/ UNCHANGED todo \/ Crash
         \/ \E id \in Ids : Judge(id)
         \/ \E id \in Ids : SweepUpload(id)
         \/ \E id \in Ids : SweepAnchor(id)
         \/ \E id \in Ids : SweepCopy(id)
         \/ \E c \in Contents : SweepTrash(c)
         \/ \E c \in Contents : SweepDebt(c)
         \/ Scan \/ RecordCommitted \/ RecordRolledBack \/ RecoverRetire \/ Fail
  <1> DEFINE G == \/ UNCHANGED todo \/ Crash
                  \/ \E id \in Ids : Judge(id)
                  \/ \E id \in Ids : SweepUpload(id)
                  \/ \E id \in Ids : SweepAnchor(id)
                  \/ \E id \in Ids : SweepCopy(id)
                  \/ \E c \in Contents : SweepTrash(c)
                  \/ \E c \in Contents : SweepDebt(c)
                  \/ Scan \/ RecordCommitted \/ RecordRolledBack \/ RecoverRetire \/ Fail
  <1>1. CASE Quiet
    <2>1. ASSUME NEW id \in Ids, Commit(id) \/ Abandon(id)
          PROVE  G
      BY <2>1
      DEF Commit, Abandon, rec
    <2>2. ASSUME NEW id \in Ids, NEW kind \in AllKinds, NEW s \in Paths \cup {Void},
                 NEW p \in Paths,
              Transfer(id, kind, s, p)
          PROVE  G
      BY <2>2
      DEF Transfer, rec
    <2>3. ASSUME NEW p \in Paths, Delete(p)
          PROVE  G
      BY <2>3
      DEF Delete, rec
    <2>4. ASSUME NEW c \in Contents, CleanupStart(c)
          PROVE  G
      BY <2>4
      DEF CleanupStart, rec
    <2>5. ASSUME NEW op \in Ops, Confirm(op)
          PROVE  G
      BY <2>5
      DEF Confirm, rec
    <2>6. CASE \/ Settled \/ Reject \/ TakeOwnership \/ LinkAnchor \/ RenameFails
              \/ UndoAnchor \/ RollbackCompleted \/ Unanchor \/ Done
      BY <2>6
      DEF Settled, Reject, TakeOwnership, LinkAnchor, RenameFails, UndoAnchor,
             RollbackCompleted, Unanchor, Done, rec, Conclude
    <2>7. CASE \/ DeleteDone \/ CleanupDone \/ Pruned \/ Boot \/ RecoverOnline
              \/ JournalsDone \/ RecoverAnchor \/ RecoveryDone
      BY <2>7
      DEF DeleteDone, CleanupDone, Pruned, Boot, RecoverOnline, JournalsDone, RecoverAnchor,
             RecoveryDone, rec
    <2> QED
      BY <1>1, <2>1, <2>2, <2>3, <2>4, <2>5, <2>6, <2>7 DEF Quiet
  <1>2. CASE Writing
    <2>1. ASSUME NEW id \in Ids, CleanAbandoned(id)
          PROVE  G
      BY <2>1
      DEF CleanAbandoned, rec
    <2>2. ASSUME NEW id \in Ids, NEW kind \in {"new", "put"}, NEW p \in Paths,
                 NEW op \in Ops \cup {Void},
              Stage(id, kind, p, op)
          PROVE  G
      BY <2>2
      DEF Stage, rec
    <2>3. ASSUME NEW op \in Ops, Prune(op)
          PROVE  G
      BY <2>3
      DEF Prune, rec
    <2>4. CASE \/ Settle \/ Admit \/ CopyStaging \/ WriteJournal \/ BackupDestination
              \/ PublishRename \/ DirectChange \/ RestoreBackup \/ UndoJournal
      BY <2>4
      DEF Settle, Admit, CopyStaging, WriteJournal, BackupDestination, PublishRename,
             DirectChange, RestoreBackup, UndoJournal, rec
    <2>5. CASE \/ WriteReceipt \/ CleanBackup \/ Retire \/ BackupDebt \/ BackupToTrash
              \/ DeleteDebt \/ DeleteToTrash \/ CleanupTrash \/ CleanupDebt
      BY <2>5
      DEF WriteReceipt, CleanBackup, Retire, BackupDebt, BackupToTrash, DeleteDebt,
             DeleteToTrash, CleanupTrash, CleanupDebt, rec
    <2>6. CASE \/ RecoverBackup \/ RecoverStaging
      BY <2>6
      DEF RecoverBackup, RecoverStaging, rec
    <2> QED
      BY <1>2, <2>1, <2>2, <2>3, <2>4, <2>5, <2>6 DEF Writing
  <1>3. CASE UNCHANGED vars
    BY <1>3 DEF vars
  <1> QED
    BY <1>1, <1>2, <1>3, Steps

\* What a client may find.
LEMMA AllowedSteps ==
  ASSUME [Next]_vars
  PROVE  \/ UNCHANGED allowed \/ Crash
         \/ \E id \in Ids : Commit(id)
         \/ \E id \in Ids, kind \in AllKinds, s \in Paths \cup {Void}, p \in Paths :
               Transfer(id, kind, s, p)
         \/ \E p \in Paths : Delete(p)
         \/ \E op \in Ops : Confirm(op)
         \/ Reject \/ Done \/ Fail \/ RollbackCompleted \/ DeleteDone
  <1> DEFINE G == \/ UNCHANGED allowed \/ Crash
                  \/ \E id \in Ids : Commit(id)
                  \/ \E id \in Ids, kind \in AllKinds, s \in Paths \cup {Void}, p \in Paths :
                        Transfer(id, kind, s, p)
                  \/ \E p \in Paths : Delete(p)
                  \/ \E op \in Ops : Confirm(op)
                  \/ Reject \/ Done \/ Fail \/ RollbackCompleted \/ DeleteDone
  <1>1. CASE Quiet
    <2>1. ASSUME NEW id \in Ids, Abandon(id) \/ Judge(id) \/ SweepAnchor(id)
          PROVE  G
      BY <2>1
      DEF Abandon, Judge, SweepAnchor, batch
    <2>2. ASSUME NEW c \in Contents, CleanupStart(c)
          PROVE  G
      BY <2>2
      DEF CleanupStart, batch
    <2>3. CASE \/ Settled \/ TakeOwnership \/ LinkAnchor \/ RenameFails \/ UndoAnchor
              \/ Unanchor \/ CleanupDone \/ Pruned \/ Boot
      BY <2>3
      DEF Settled, TakeOwnership, LinkAnchor, RenameFails, UndoAnchor, Unanchor, CleanupDone,
             Pruned, Boot, batch
    <2>4. CASE \/ RecoverOnline \/ Scan \/ JournalsDone \/ RecoverAnchor \/ RecoveryDone
      BY <2>4
      DEF RecoverOnline, Scan, JournalsDone, RecoverAnchor, RecoveryDone, batch
    <2> QED
      BY <1>1, <2>1, <2>2, <2>3, <2>4 DEF Quiet
  <1>2. CASE Writing
    <2>1. ASSUME NEW id \in Ids, CleanAbandoned(id) \/ SweepUpload(id) \/ SweepCopy(id)
          PROVE  G
      BY <2>1
      DEF CleanAbandoned, SweepUpload, SweepCopy, batch
    <2>2. ASSUME NEW id \in Ids, NEW kind \in {"new", "put"}, NEW p \in Paths,
                 NEW op \in Ops \cup {Void},
              Stage(id, kind, p, op)
          PROVE  G
      BY <2>2
      DEF Stage, batch
    <2>3. ASSUME NEW c \in Contents, SweepTrash(c) \/ SweepDebt(c)
          PROVE  G
      BY <2>3
      DEF SweepTrash, SweepDebt, batch
    <2>4. ASSUME NEW op \in Ops, Prune(op)
          PROVE  G
      BY <2>4
      DEF Prune, batch
    <2>5. CASE \/ Settle \/ Admit \/ CopyStaging \/ WriteJournal \/ BackupDestination
              \/ PublishRename \/ DirectChange \/ RestoreBackup \/ UndoJournal
      BY <2>5
      DEF Settle, Admit, CopyStaging, WriteJournal, BackupDestination, PublishRename,
             DirectChange, RestoreBackup, UndoJournal, batch
    <2>6. CASE \/ WriteReceipt \/ CleanBackup \/ Retire \/ BackupDebt \/ BackupToTrash
              \/ DeleteDebt \/ DeleteToTrash \/ CleanupTrash \/ CleanupDebt
      BY <2>6
      DEF WriteReceipt, CleanBackup, Retire, BackupDebt, BackupToTrash, DeleteDebt,
             DeleteToTrash, CleanupTrash, CleanupDebt, batch
    <2>7. CASE \/ RecordCommitted \/ RecordRolledBack \/ RecoverBackup \/ RecoverStaging \/ RecoverRetire
      BY <2>7
      DEF RecordCommitted, RecordRolledBack, RecoverBackup, RecoverStaging, RecoverRetire,
             batch
    <2> QED
      BY <1>2, <2>1, <2>2, <2>3, <2>4, <2>5, <2>6, <2>7 DEF Writing
  <1>3. CASE UNCHANGED vars
    BY <1>3 DEF vars
  <1> QED
    BY <1>1, <1>2, <1>3, Steps

\* The bounds.
LEMMA BudgetSteps ==
  ASSUME [Next]_vars
  PROVE  \/ UNCHANGED budget \/ Crash
         \/ RenameFails \/ Fail
  <1> DEFINE G == \/ UNCHANGED budget \/ Crash
                  \/ RenameFails \/ Fail
  <1>1. CASE Quiet
    <2>1. ASSUME NEW id \in Ids, Commit(id) \/ Abandon(id) \/ Judge(id) \/ SweepAnchor(id)
          PROVE  G
      BY <2>1
      DEF Commit, Abandon, Judge, SweepAnchor, budget
    <2>2. ASSUME NEW id \in Ids, NEW kind \in AllKinds, NEW s \in Paths \cup {Void},
                 NEW p \in Paths,
              Transfer(id, kind, s, p)
          PROVE  G
      BY <2>2
      DEF Transfer, budget
    <2>3. ASSUME NEW p \in Paths, Delete(p)
          PROVE  G
      BY <2>3
      DEF Delete, budget
    <2>4. ASSUME NEW c \in Contents, CleanupStart(c)
          PROVE  G
      BY <2>4
      DEF CleanupStart, budget
    <2>5. ASSUME NEW op \in Ops, Confirm(op)
          PROVE  G
      BY <2>5
      DEF Confirm, budget
    <2>6. CASE \/ Settled \/ Reject \/ TakeOwnership \/ LinkAnchor \/ UndoAnchor
              \/ RollbackCompleted \/ Unanchor \/ Done \/ DeleteDone
      BY <2>6
      DEF Settled, Reject, TakeOwnership, LinkAnchor, UndoAnchor, RollbackCompleted, Unanchor,
             Done, DeleteDone, budget, Conclude
    <2>7. CASE \/ CleanupDone \/ Pruned \/ Boot \/ RecoverOnline \/ Scan
              \/ JournalsDone \/ RecoverAnchor \/ RecoveryDone
      BY <2>7
      DEF CleanupDone, Pruned, Boot, RecoverOnline, Scan, JournalsDone, RecoverAnchor,
             RecoveryDone, budget
    <2> QED
      BY <1>1, <2>1, <2>2, <2>3, <2>4, <2>5, <2>6, <2>7 DEF Quiet
  <1>2. CASE Writing
    <2>1. ASSUME NEW id \in Ids, CleanAbandoned(id) \/ SweepUpload(id) \/ SweepCopy(id)
          PROVE  G
      BY <2>1
      DEF CleanAbandoned, SweepUpload, SweepCopy, budget
    <2>2. ASSUME NEW id \in Ids, NEW kind \in {"new", "put"}, NEW p \in Paths,
                 NEW op \in Ops \cup {Void},
              Stage(id, kind, p, op)
          PROVE  G
      BY <2>2
      DEF Stage, budget
    <2>3. ASSUME NEW c \in Contents, SweepTrash(c) \/ SweepDebt(c)
          PROVE  G
      BY <2>3
      DEF SweepTrash, SweepDebt, budget
    <2>4. ASSUME NEW op \in Ops, Prune(op)
          PROVE  G
      BY <2>4
      DEF Prune, budget
    <2>5. CASE \/ Settle \/ Admit \/ CopyStaging \/ WriteJournal \/ BackupDestination
              \/ PublishRename \/ DirectChange \/ RestoreBackup \/ UndoJournal
      BY <2>5
      DEF Settle, Admit, CopyStaging, WriteJournal, BackupDestination, PublishRename,
             DirectChange, RestoreBackup, UndoJournal, budget
    <2>6. CASE \/ WriteReceipt \/ CleanBackup \/ Retire \/ BackupDebt \/ BackupToTrash
              \/ DeleteDebt \/ DeleteToTrash \/ CleanupTrash \/ CleanupDebt
      BY <2>6
      DEF WriteReceipt, CleanBackup, Retire, BackupDebt, BackupToTrash, DeleteDebt,
             DeleteToTrash, CleanupTrash, CleanupDebt, budget
    <2>7. CASE \/ RecordCommitted \/ RecordRolledBack \/ RecoverBackup \/ RecoverStaging \/ RecoverRetire
      BY <2>7
      DEF RecordCommitted, RecordRolledBack, RecoverBackup, RecoverStaging, RecoverRetire,
             budget
    <2> QED
      BY <1>2, <2>1, <2>2, <2>3, <2>4, <2>5, <2>6, <2>7 DEF Writing
  <1>3. CASE UNCHANGED vars
    BY <1>3 DEF vars, budget
  <1> QED
    BY <1>1, <1>2, <1>3, Steps

-----------------------------------------------------------------------------
(* The way of the gate holder *)

\* one location after another
Passes(from, to) == pc \in from /\ pc' \in to /\ ret' = ret /\ cur' = cur
\* the gate is taken
Enters(l, x) ==
    /\ pc = "idle" /\ ~ booting /\ ret' = l /\ cur' = x
    /\ pc' = IF pending = Void THEN l ELSE "settle"
\* a subroutine returns to one of its callers
Resumes(from, to) == pc = from /\ pc' = ret /\ ret \in to /\ ret' = ret /\ cur' = cur
\* a backup is cleaned, by way of a staged deletion if it is a tree
Cleans(from, next) ==
    /\ pc = from /\ cur' = cur
    /\ \/ pc' = next /\ ret' = ret
       \/ pc' = "b_debt" /\ ret' = next /\ disk.backup[cur] \in Trees /\ Kept

\* Taking the gate, and publishing.
LEMMA FlowOfEntries ==
  ASSUME Inv
  PROVE  /\ \A id \in Ids : Commit(id) => Enters("admit", id)
         /\ \A id \in Ids, kind \in AllKinds, s \in Paths \cup {Void}, p \in Paths :
               Transfer(id, kind, s, p) => ret' \in {"copy", "own", "direct"} /\ Enters(ret', id)
         /\ \A p \in Paths : Delete(p) => Enters("d_debt", p)
         /\ RecoverOnline => Enters("scan", cur)
         /\ \A c \in Contents :
               CleanupStart(c) => pc = "idle" /\ pc' = "w_trash" /\ ret' = ret /\ cur' = c
         /\ \A op \in Ops : Prune(op) => Passes({"idle"}, {"prune"})
         /\ \A op \in Ops : Confirm(op) => Passes({"idle"}, {"idle"})
         /\ Pruned => Passes({"prune"}, {"idle"})
         /\ Settle => Passes({"settle"}, {"settled"})
         /\ Settled =>
               Resumes("settled", {"admit", "copy", "own", "direct", "d_debt", "scan", "receipt"})
         /\ Admit => Passes({"admit"}, {"own"})
         /\ Reject => Passes({"admit"}, {"idle"})
         /\ CopyStaging => Passes({"copy"}, {"own", "direct"})
         /\ TakeOwnership => Passes({"own"}, {"anchor", "journal"})
  <1>1. \A id \in Ids : Commit(id) => Enters("admit", id)
    BY DEF Commit, Goto, Enter, Enters
  <1>2. \A id \in Ids, kind \in AllKinds, s \in Paths \cup {Void}, p \in Paths :
           Transfer(id, kind, s, p) => ret' \in {"copy", "own", "direct"} /\ Enters(ret', id)
    BY DEF Transfer, Goto, Enter, Enters
  <1>3. \A p \in Paths : Delete(p) => Enters("d_debt", p)
    BY DEF Delete, Goto, Enter, Enters
  <1>4. RecoverOnline => Enters("scan", cur)
    BY DEF RecoverOnline, Goto, Enter, Enters
  <1>5. \A c \in Contents :
           CleanupStart(c) => pc = "idle" /\ pc' = "w_trash" /\ ret' = ret /\ cur' = c
    BY DEF CleanupStart, Goto
  <1>6. \A op \in Ops : Prune(op) => Passes({"idle"}, {"prune"})
    BY DEF Prune, Goto, Passes
  <1>7. \A op \in Ops : Confirm(op) => Passes({"idle"}, {"idle"})
    BY DEF Confirm, Goto, Passes
  <1>8. Pruned => Passes({"prune"}, {"idle"})
    BY DEF Pruned, Goto, Passes
  <1>9. Settle => Passes({"settle"}, {"settled"})
    BY DEF Settle, Goto, Passes
  <1>10. Settled =>
           Resumes("settled", {"admit", "copy", "own", "direct", "d_debt", "scan", "receipt"})
    BY Typed DEF Settled, Goto, Resumes, ControlOK
  <1>11. Admit => Passes({"admit"}, {"own"})
    BY DEF Admit, Goto, Passes
  <1>12. Reject => Passes({"admit"}, {"idle"})
    BY DEF Reject, Goto, Conclude, Passes
  <1>13. CopyStaging => Passes({"copy"}, {"own", "direct"})
    BY DEF CopyStaging, Goto, Passes
  <1>14. TakeOwnership => Passes({"own"}, {"anchor", "journal"})
    BY DEF TakeOwnership, Goto, Passes
  <1> QED
    BY <1>1, <1>2, <1>3, <1>4, <1>5, <1>6, <1>7, <1>8, <1>9, <1>10, <1>11, <1>12, <1>13,
       <1>14

\* Rolling back, and what follows the publishing rename.
LEMMA FlowOfRollback ==
  ASSUME Inv
  PROVE  /\ LinkAnchor => Passes({"anchor"}, {"journal"})
         /\ WriteJournal => Passes({"journal"}, {"backup", "publish"})
         /\ BackupDestination => Passes({"backup"}, {"publish"})
         /\ PublishRename =>
               pc = "publish" /\ pc' = "settle" /\ ret' = "receipt" /\ cur' = cur
         /\ RenameFails => Passes({"publish"}, {"restore"})
         /\ RestoreBackup => Passes({"restore"}, {"undo_anchor"})
         /\ UndoAnchor => Passes({"undo_anchor"}, {"undo_journal"})
         /\ UndoJournal => Passes({"undo_journal"}, {"undone"})
         /\ RollbackCompleted => Passes({"undone"}, {"idle"})
         /\ WriteReceipt => Passes({"receipt"}, {"clean"})
         /\ CleanBackup => Cleans("clean", "unanchor")
         /\ Unanchor => Passes({"unanchor"}, {"retire"})
         /\ Retire => Passes({"retire"}, {"done"})
         /\ Done => Passes({"done", "direct_done"}, {"idle"})
  <1>1. LinkAnchor => Passes({"anchor"}, {"journal"})
    BY DEF LinkAnchor, Goto, Passes
  <1>2. WriteJournal => Passes({"journal"}, {"backup", "publish"})
    BY DEF WriteJournal, Goto, Passes
  <1>3. BackupDestination => Passes({"backup"}, {"publish"})
    BY DEF BackupDestination, Goto, Passes
  <1>4. PublishRename =>
           pc = "publish" /\ pc' = "settle" /\ ret' = "receipt" /\ cur' = cur
    BY DEF PublishRename, Goto
  <1>5. RenameFails => Passes({"publish"}, {"restore"})
    BY DEF RenameFails, Goto, Passes
  <1>6. RestoreBackup => Passes({"restore"}, {"undo_anchor"})
    BY DEF RestoreBackup, Goto, Passes
  <1>7. UndoAnchor => Passes({"undo_anchor"}, {"undo_journal"})
    BY DEF UndoAnchor, Goto, Passes
  <1>8. UndoJournal => Passes({"undo_journal"}, {"undone"})
    BY DEF UndoJournal, Goto, Passes
  <1>9. RollbackCompleted => Passes({"undone"}, {"idle"})
    BY DEF RollbackCompleted, Goto, Passes
  <1>10. WriteReceipt => Passes({"receipt"}, {"clean"})
    BY DEF WriteReceipt, Goto, Passes
  <1>11. CleanBackup => Cleans("clean", "unanchor")
    <2>1. Sync => Kept
      BY Typed, Synced
    <2> QED
      BY <2>1, ConstantsAssumption DEF CleanBackup, Goto, CleanupBackup, Cleans
  <1>12. Unanchor => Passes({"unanchor"}, {"retire"})
    BY DEF Unanchor, Goto, Passes
  <1>13. Retire => Passes({"retire"}, {"done"})
    BY DEF Retire, Goto, Passes
  <1>14. Done => Passes({"done", "direct_done"}, {"idle"})
    BY DEF Done, Goto, Conclude, Passes
  <1> QED
    BY <1>1, <1>2, <1>3, <1>4, <1>5, <1>6, <1>7, <1>8, <1>9, <1>10, <1>11, <1>12, <1>13,
       <1>14

\* Deletion, and the start of a recovery.
LEMMA FlowOfDeletion ==
  ASSUME Inv
  PROVE  /\ DirectChange => Passes({"direct"}, {"direct_done"})
         /\ BackupDebt =>
               Passes({"b_debt"}, {"b_bin"}) /\ ret \in {"unanchor", "rec_staging"}
         /\ BackupToTrash => Resumes("b_bin", {"unanchor", "rec_staging"})
         /\ DeleteDebt => Passes({"d_debt"}, {"d_bin"})
         /\ DeleteToTrash => Passes({"d_bin"}, {"d_done"})
         /\ DeleteDone => Passes({"d_done"}, {"idle"})
         /\ CleanupTrash => Passes({"w_trash"}, {"w_debt"})
         /\ CleanupDebt => Passes({"w_debt"}, {"w_done"})
         /\ CleanupDone => Passes({"w_done"}, {"idle"})
         /\ Boot => Passes({"down"}, {"scan"})
         /\ Scan => Passes({"scan"}, {"rec", "idle", "refused"})
         /\ \A id \in Ids :
               Judge(id) => pc = "rec" /\ pc' \in {"rec_receipt", "rec_retire", "idle", "refused"} /\ ret' = ret /\ cur' = id
         /\ RecordCommitted => Passes({"rec_receipt"}, {"rec_backup", "idle", "refused"})
         /\ RecoverBackup => Cleans("rec_backup", "rec_staging")
  <1>1. DirectChange => Passes({"direct"}, {"direct_done"})
    BY DEF DirectChange, Goto, Passes
  <1>2. BackupDebt =>
           Passes({"b_debt"}, {"b_bin"}) /\ ret \in {"unanchor", "rec_staging"}
    BY Typed DEF BackupDebt, Goto, Passes, ControlOK
  <1>3. BackupToTrash => Resumes("b_bin", {"unanchor", "rec_staging"})
    BY Typed DEF BackupToTrash, Goto, Resumes, ControlOK
  <1>4. DeleteDebt => Passes({"d_debt"}, {"d_bin"})
    BY DEF DeleteDebt, Goto, Passes
  <1>5. DeleteToTrash => Passes({"d_bin"}, {"d_done"})
    BY DEF DeleteToTrash, Goto, Passes
  <1>6. DeleteDone => Passes({"d_done"}, {"idle"})
    BY DEF DeleteDone, Goto, Passes
  <1>7. CleanupTrash => Passes({"w_trash"}, {"w_debt"})
    BY DEF CleanupTrash, Goto, Passes
  <1>8. CleanupDebt => Passes({"w_debt"}, {"w_done"})
    BY DEF CleanupDebt, Goto, Passes
  <1>9. CleanupDone => Passes({"w_done"}, {"idle"})
    BY DEF CleanupDone, Goto, Passes
  <1>10. Boot => Passes({"down"}, {"scan"})
    BY DEF Boot, Goto, Passes
  <1>11. Scan => Passes({"scan"}, {"rec", "idle", "refused"})
    BY DEF Scan, Goto, Stop, Passes
  <1>12. \A id \in Ids :
           Judge(id) => pc = "rec" /\ pc' \in {"rec_receipt", "rec_retire", "idle", "refused"} /\ ret' = ret /\ cur' = id
    BY DEF Judge, Goto, Stop, rec
  <1>13. RecordCommitted => Passes({"rec_receipt"}, {"rec_backup", "idle", "refused"})
    BY DEF RecordCommitted, Goto, RecordOutcome, Stop, rec, Passes
  <1>14. RecoverBackup => Cleans("rec_backup", "rec_staging")
    <2>1. Sync => Kept
      BY Typed, Synced
    <2> QED
      BY <2>1, ConstantsAssumption DEF RecoverBackup, Goto, CleanupBackup, Cleans
  <1> QED
    BY <1>1, <1>2, <1>3, <1>4, <1>5, <1>6, <1>7, <1>8, <1>9, <1>10, <1>11, <1>12, <1>13,
       <1>14

\* One journal after another, then the sweep.
LEMMA FlowOfRecovery ==
  ASSUME Inv
  PROVE  /\ RecoverStaging => Passes({"rec_staging"}, {"rec_anchor"})
         /\ RecoverAnchor => Passes({"rec_anchor"}, {"rec_rollback"})
         /\ RecordRolledBack => Passes({"rec_rollback"}, {"rec_retire", "idle", "refused"})
         /\ RecoverRetire => Passes({"rec_retire"}, {"rec"})
         /\ JournalsDone => pc = "rec" /\ pc' = "sweep" /\ ret' = ret /\ cur' = Void
         /\ \A id \in Ids : SweepUpload(id) => Passes({"sweep"}, {"sweep"})
         /\ \A id \in Ids : SweepAnchor(id) => Passes({"sweep"}, {"sweep"})
         /\ \A id \in Ids : SweepCopy(id) => Passes({"sweep"}, {"sweep"})
         /\ \A c \in Contents :
               SweepTrash(c) => pc = "sweep" /\ pc' = "sweep" /\ ret' = ret /\ cur' = c
         /\ \A c \in Contents : SweepDebt(c) => Passes({"sweep"}, {"sweep"})
         /\ RecoveryDone => Passes({"sweep"}, {"idle"})
  <1>1. RecoverStaging => Passes({"rec_staging"}, {"rec_anchor"})
    BY DEF RecoverStaging, Goto, Passes
  <1>2. RecoverAnchor => Passes({"rec_anchor"}, {"rec_rollback"})
    BY DEF RecoverAnchor, Goto, Passes
  <1>3. RecordRolledBack => Passes({"rec_rollback"}, {"rec_retire", "idle", "refused"})
    BY DEF RecordRolledBack, Goto, RecordOutcome, Stop, rec, Passes
  <1>4. RecoverRetire => Passes({"rec_retire"}, {"rec"})
    BY DEF RecoverRetire, Goto, Passes
  <1>5. JournalsDone => pc = "rec" /\ pc' = "sweep" /\ ret' = ret /\ cur' = Void
    BY DEF JournalsDone, Goto
  <1>6. \A id \in Ids : SweepUpload(id) => Passes({"sweep"}, {"sweep"})
    BY DEF SweepUpload, Goto, Passes
  <1>7. \A id \in Ids : SweepAnchor(id) => Passes({"sweep"}, {"sweep"})
    BY DEF SweepAnchor, Goto, Passes
  <1>8. \A id \in Ids : SweepCopy(id) => Passes({"sweep"}, {"sweep"})
    BY DEF SweepCopy, Goto, Passes
  <1>9. \A c \in Contents :
           SweepTrash(c) => pc = "sweep" /\ pc' = "sweep" /\ ret' = ret /\ cur' = c
    BY DEF SweepTrash, Goto
  <1>10. \A c \in Contents : SweepDebt(c) => Passes({"sweep"}, {"sweep"})
    BY DEF SweepDebt, Goto, Passes
  <1>11. RecoveryDone => Passes({"sweep"}, {"idle"})
    BY DEF RecoveryDone, Goto, Passes
  <1> QED
    BY <1>1, <1>2, <1>3, <1>4, <1>5, <1>6, <1>7, <1>8, <1>9, <1>10, <1>11

\* Steps outside the gate (Stage, Abandon, CleanAbandoned).
Aside ==
    \/ \E id \in Ids, kind \in {"new", "put"}, p \in Paths, op \in Ops \cup {Void} :
          Stage(id, kind, p, op)
    \/ \E id \in Ids : Abandon(id) \/ CleanAbandoned(id)
    \/ UNCHANGED vars

\* Whoever works outside the gate leaves it, the user tree and the trash alone.
LEMMA AsideEffect ==
  ASSUME Inv, Aside
  PROVE  /\ UNCHANGED <<pc, ret, cur, stage, pending, booting, todo, verdict, window>>
         /\ FsStep /\ SameClaims /\ SameTree /\ SameBin /\ dirty' = dirty
  <1> DEFINE G == /\ UNCHANGED <<pc, ret, cur, stage, pending, booting, todo, verdict, window>>
                  /\ FsStep /\ SameClaims /\ SameTree /\ SameBin /\ dirty' = dirty
  <1>1. ASSUME NEW id \in Ids, NEW kind \in {"new", "put"}, NEW p \in Paths,
               NEW op \in Ops \cup {Void}, Stage(id, kind, p, op)
        PROVE  G
    <2>1. FsStep /\ OnlyStaging
      BY <1>1, StageEffect
    <2> QED
      BY <1>1, <2>1 DEF Stage, OnlyStaging, rec
  <1>2. ASSUME NEW id \in Ids, Abandon(id)
        PROVE  G
    <2>1. FsStep /\ Kept
      BY <1>2, QuietEffect DEF Quiet
    <2> QED
      BY <1>2, <2>1 DEF Abandon, Kept, rec, fs
  <1>3. ASSUME NEW id \in Ids, CleanAbandoned(id)
        PROVE  G
    <2>1. FsStep /\ OnlyStaging
      BY <1>3, CleanAbandonedEffect
    <2> QED
      BY <1>3, <2>1 DEF CleanAbandoned, OnlyStaging, rec, batch
  <1>4. CASE UNCHANGED vars
    <2>1. UNCHANGED fs
      BY <1>4 DEF vars, fs
    <2> QED
      BY <1>4, <2>1, Untouched DEF vars, fs, Kept
  <1> QED
    BY <1>1, <1>2, <1>3, <1>4 DEF Aside

\* An error leaves the gate; startup recovery that fails leaves the service down.
LEMMA FailGoes ==
  ASSUME Inv, Fail
  PROVE  /\ pc \notin {"down", "refused"} /\ booting' = FALSE
         /\ pc' = IF booting THEN "down" ELSE "idle"
  <1>1. booting => Recovering
    BY Typed DEF ControlOK
  <1>2. CASE Recovering
    BY <1>2 DEF Fail, Recovering, RecoveryLocations
  <1>3. CASE ~ Recovering
    <2>1. ~ booting /\ booting' = booting /\ pc' = "idle"
      BY <1>1, <1>3 DEF Fail, Conclude, Goto, rec
    <2>2. booting' = FALSE
      BY <2>1 DEF Inv, TypeOK
    <2>3. pc \notin {"down", "refused"}
      BY <1>3 DEF Fail, CommitLocations
    <2> QED
      BY <2>1, <2>2, <2>3
  <1> QED
    BY <1>2, <1>3

\* Every step of the gate holder, and of whoever works beside it.
Entry ==
    \/ \E id \in Ids : Commit(id)
    \/ \E id \in Ids, kind \in AllKinds, s \in Paths \cup {Void}, p \in Paths :
          Transfer(id, kind, s, p)
    \/ \E p \in Paths : Delete(p)
    \/ \E c \in Contents : CleanupStart(c)
    \/ \E op \in Ops : Confirm(op) \/ Prune(op)
    \/ RecoverOnline \/ Pruned \/ Settle \/ Settled \/ Admit \/ Reject \/ CopyStaging
    \/ TakeOwnership
Publishing ==
    \/ LinkAnchor \/ WriteJournal \/ BackupDestination \/ PublishRename \/ RenameFails
    \/ RestoreBackup \/ UndoAnchor \/ UndoJournal \/ RollbackCompleted \/ WriteReceipt
    \/ CleanBackup \/ Unanchor \/ Retire \/ Done
Deleting ==
    \/ DirectChange \/ BackupDebt \/ BackupToTrash \/ DeleteDebt \/ DeleteToTrash
    \/ DeleteDone \/ CleanupTrash \/ CleanupDebt \/ CleanupDone \/ Boot \/ Scan
    \/ RecordCommitted \/ RecoverBackup
    \/ \E id \in Ids : Judge(id)
Repairing ==
    \/ RecoverStaging \/ RecoverAnchor \/ RecordRolledBack \/ RecoverRetire
    \/ JournalsDone \/ RecoveryDone
    \/ \E id \in Ids : SweepUpload(id) \/ SweepAnchor(id) \/ SweepCopy(id)
    \/ \E c \in Contents : SweepTrash(c) \/ SweepDebt(c)

\* No other step is possible (Next).
LEMMA Ways ==
  ASSUME [Next]_vars
  PROVE  Entry \/ Publishing \/ Deleting \/ Repairing \/ Aside \/ Fail \/ Crash
  BY DEF Next, Begin, Publication, Rollback, Deletion, Recovery, Entry, Publishing,
     Deleting, Repairing, Aside

\* Who enters the gate.
LEMMA WhereCommit ==
  ASSUME Inv, [Next]_vars, At(CommitLocations)'
  PROVE  \/ At(CommitLocations) /\ cur' = cur
         \/ \E id \in Ids : Commit(id)
         \/ \E id \in Ids, kind \in AllKinds, s \in Paths \cup {Void}, p \in Paths :
               Transfer(id, kind, s, p)
  <1>1. CASE Entry
    BY <1>1, FlowOfEntries DEF Entry, Enters, Passes, Resumes, At, CommitLocations
  <1>2. CASE Publishing
    BY <1>2, FlowOfRollback DEF Publishing, Passes, Cleans, At, CommitLocations
  <1>3. CASE Deleting
    BY <1>3, FlowOfDeletion DEF Deleting, Passes, Cleans, Resumes, At, CommitLocations
  <1>4. CASE Repairing
    BY <1>4, FlowOfRecovery DEF Repairing, Passes, At, CommitLocations
  <1>5. CASE Aside
    BY <1>5, AsideEffect DEF At, CommitLocations
  <1>6. CASE Fail
    BY <1>6, FailGoes DEF At, CommitLocations
  <1>7. CASE Crash
    BY <1>7 DEF Crash, At, CommitLocations
  <1> QED
    BY <1>1, <1>2, <1>3, <1>4, <1>5, <1>6, <1>7, Ways

\* What is still before its publishing rename.
LEMMA WherePre ==
  ASSUME Inv, [Next]_vars, At(PreLocations)'
  PROVE  \/ At(PreLocations) /\ cur' = cur
         \/ \E id \in Ids : Commit(id)
         \/ \E id \in Ids, kind \in AllKinds, s \in Paths \cup {Void}, p \in Paths :
               Transfer(id, kind, s, p)
  <1>1. CASE Entry
    BY <1>1, FlowOfEntries DEF Entry, Enters, Passes, Resumes, At, PreLocations
  <1>2. CASE Publishing
    BY <1>2, FlowOfRollback DEF Publishing, Passes, Cleans, At, PreLocations
  <1>3. CASE Deleting
    BY <1>3, FlowOfDeletion DEF Deleting, Passes, Cleans, Resumes, At, PreLocations
  <1>4. CASE Repairing
    BY <1>4, FlowOfRecovery DEF Repairing, Passes, At, PreLocations
  <1>5. CASE Aside
    BY <1>5, AsideEffect DEF At, PreLocations
  <1>6. CASE Fail
    BY <1>6, FailGoes DEF At, PreLocations
  <1>7. CASE Crash
    BY <1>7 DEF Crash, At, PreLocations
  <1> QED
    BY <1>1, <1>2, <1>3, <1>4, <1>5, <1>6, <1>7, Ways

\* Only the publishing rename leads past it.
LEMMA WherePublished ==
  ASSUME Inv, [Next]_vars, At(PostLocations)'
  PROVE  (At(PostLocations) /\ cur' = cur) \/ PublishRename
  <1>1. CASE Entry
    BY <1>1, FlowOfEntries DEF Entry, Enters, Passes, Resumes, At, PostLocations
  <1>2. CASE Publishing
    BY <1>2, FlowOfRollback DEF Publishing, Passes, Cleans, At, PostLocations
  <1>3. CASE Deleting
    BY <1>3, FlowOfDeletion DEF Deleting, Passes, Cleans, Resumes, At, PostLocations
  <1>4. CASE Repairing
    BY <1>4, FlowOfRecovery DEF Repairing, Passes, At, PostLocations
  <1>5. CASE Aside
    BY <1>5, AsideEffect DEF At, PostLocations
  <1>6. CASE Fail
    BY <1>6, FailGoes DEF At, PostLocations
  <1>7. CASE Crash
    BY <1>7 DEF Crash, At, PostLocations
  <1> QED
    BY <1>1, <1>2, <1>3, <1>4, <1>5, <1>6, <1>7, Ways

\* Transactions without a ticket item.
LEMMA WhereDirect ==
  ASSUME Inv, [Next]_vars, At({"copy", "direct", "direct_done"})' \/ (pc \in {"settle", "settled"} /\ ret = "own")'
  PROVE  \/ /\ At({"copy", "direct", "direct_done"}) \/ (pc \in {"settle", "settled"} /\ ret = "own")
            /\ cur' = cur
         \/ \E id \in Ids, kind \in AllKinds, s \in Paths \cup {Void}, p \in Paths :
               Transfer(id, kind, s, p)
  <1>1. CASE Entry
    BY <1>1, FlowOfEntries DEF Entry, Enters, Passes, Resumes, At
  <1>2. CASE Publishing
    BY <1>2, FlowOfRollback DEF Publishing, Passes, Cleans, At
  <1>3. CASE Deleting
    BY <1>3, FlowOfDeletion DEF Deleting, Passes, Cleans, Resumes, At
  <1>4. CASE Repairing
    BY <1>4, FlowOfRecovery DEF Repairing, Passes, At
  <1>5. CASE Aside
    BY <1>5, AsideEffect DEF At
  <1>6. CASE Fail
    BY <1>6, FailGoes DEF At
  <1>7. CASE Crash
    BY <1>7 DEF Crash, At
  <1> QED
    BY <1>1, <1>2, <1>3, <1>4, <1>5, <1>6, <1>7, Ways

\* From the receipt checks to the publishing rename.
LEMMA WherePublishing ==
  ASSUME Inv, [Next]_vars, pc' \in {"own", "anchor", "journal", "backup", "publish"}
  PROVE  \/ pc \in {"own", "anchor", "journal", "backup", "publish"} /\ cur' = cur
         \/ Admit \/ CopyStaging
         \/ Settled /\ ret = "own"
         \/ \E id \in Ids, kind \in AllKinds, s \in Paths \cup {Void}, p \in Paths :
               Transfer(id, kind, s, p)
  <1>1. CASE Entry
    BY <1>1, FlowOfEntries DEF Entry, Enters, Passes, Resumes, At
  <1>2. CASE Publishing
    BY <1>2, FlowOfRollback DEF Publishing, Passes, Cleans, At
  <1>3. CASE Deleting
    BY <1>3, FlowOfDeletion DEF Deleting, Passes, Cleans, Resumes, At
  <1>4. CASE Repairing
    BY <1>4, FlowOfRecovery DEF Repairing, Passes, At
  <1>5. CASE Aside
    BY <1>5, AsideEffect DEF At
  <1>6. CASE Fail
    BY <1>6, FailGoes DEF At
  <1>7. CASE Crash
    BY <1>7 DEF Crash, At
  <1> QED
    BY <1>1, <1>2, <1>3, <1>4, <1>5, <1>6, <1>7, Ways

\* The journal is written before anything moves.
LEMMA WhereJournaled ==
  ASSUME Inv, [Next]_vars, pc' \in {"backup", "publish"}
  PROVE  WriteJournal \/ BackupDestination \/ Aside
  <1>1. CASE Entry
    BY <1>1, FlowOfEntries DEF Entry, Enters, Passes, Resumes
  <1>2. CASE Publishing
    BY <1>2, FlowOfRollback DEF Publishing, Passes, Cleans
  <1>3. CASE Deleting
    BY <1>3, FlowOfDeletion DEF Deleting, Passes, Cleans, Resumes
  <1>4. CASE Repairing
    BY <1>4, FlowOfRecovery DEF Repairing, Passes
  <1>5. CASE Aside
    BY <1>5, AsideEffect
  <1>6. CASE Fail
    BY <1>6, FailGoes
  <1>7. CASE Crash
    BY <1>7 DEF Crash
  <1> QED
    BY <1>1, <1>2, <1>3, <1>4, <1>5, <1>6, <1>7, Ways

\* A pending publication is settled first.
LEMMA WhereSettling ==
  ASSUME Inv, [Next]_vars, pc' \in {"settle", "settled"}
  PROVE  \/ Aside \/ Settle \/ PublishRename
         \/ pending # Void /\ ret' \in {"admit", "copy", "own", "direct", "d_debt", "scan"}
  <1>1. CASE Entry
    BY <1>1, FlowOfEntries DEF Entry, Enters, Passes, Resumes
  <1>2. CASE Publishing
    BY <1>2, FlowOfRollback DEF Publishing, Passes, Cleans
  <1>3. CASE Deleting
    BY <1>3, FlowOfDeletion DEF Deleting, Passes, Cleans, Resumes
  <1>4. CASE Repairing
    BY <1>4, FlowOfRecovery DEF Repairing, Passes
  <1>5. CASE Aside
    BY <1>5, AsideEffect
  <1>6. CASE Fail
    BY <1>6, FailGoes
  <1>7. CASE Crash
    BY <1>7 DEF Crash
  <1> QED
    BY <1>1, <1>2, <1>3, <1>4, <1>5, <1>6, <1>7, Ways

\* The settled journal is synced next.
LEMMA WhereSettled ==
  ASSUME Inv, [Next]_vars, pc' = "settled"
  PROVE  Aside \/ Settle
  <1>1. CASE Entry
    BY <1>1, FlowOfEntries DEF Entry, Enters, Passes, Resumes
  <1>2. CASE Publishing
    BY <1>2, FlowOfRollback DEF Publishing, Passes, Cleans
  <1>3. CASE Deleting
    BY <1>3, FlowOfDeletion DEF Deleting, Passes, Cleans, Resumes
  <1>4. CASE Repairing
    BY <1>4, FlowOfRecovery DEF Repairing, Passes
  <1>5. CASE Aside
    BY <1>5, AsideEffect
  <1>6. CASE Fail
    BY <1>6, FailGoes
  <1>7. CASE Crash
    BY <1>7 DEF Crash
  <1> QED
    BY <1>1, <1>2, <1>3, <1>4, <1>5, <1>6, <1>7, Ways

\* A tree leaves a backup in two steps.
LEMMA WhereBackup ==
  ASSUME Inv, [Next]_vars, pc' \in {"b_debt", "b_bin"}
  PROVE  \/ Aside \/ (BackupDebt /\ cur' = cur)
         \/ pc' = "b_debt" /\ disk.backup[cur'] \in Trees /\ Kept /\ ret' \in {"unanchor", "rec_staging"}
  <1>1. CASE Entry
    BY <1>1, FlowOfEntries DEF Entry, Enters, Passes, Resumes
  <1>2. CASE Publishing
    BY <1>2, FlowOfRollback DEF Publishing, Passes, Cleans
  <1>3. CASE Deleting
    BY <1>3, FlowOfDeletion DEF Deleting, Passes, Cleans, Resumes
  <1>4. CASE Repairing
    BY <1>4, FlowOfRecovery DEF Repairing, Passes
  <1>5. CASE Aside
    BY <1>5, AsideEffect
  <1>6. CASE Fail
    BY <1>6, FailGoes
  <1>7. CASE Crash
    BY <1>7 DEF Crash
  <1> QED
    BY <1>1, <1>2, <1>3, <1>4, <1>5, <1>6, <1>7, Ways

\* A deletion stages its record before it moves its subject.
LEMMA WhereDelete ==
  ASSUME Inv, [Next]_vars, At({"d_debt", "d_bin"})'
  PROVE  \/ Aside \/ (DeleteDebt /\ cur' = cur)
         \/ \E p \in Paths : Delete(p)
         \/ (Settle \/ Settled) /\ At({"d_debt", "d_bin"}) /\ cur' = cur
  <1>1. CASE Entry
    BY <1>1, FlowOfEntries DEF Entry, Enters, Passes, Resumes, At
  <1>2. CASE Publishing
    BY <1>2, FlowOfRollback DEF Publishing, Passes, Cleans, At
  <1>3. CASE Deleting
    BY <1>3, FlowOfDeletion DEF Deleting, Passes, Cleans, Resumes, At
  <1>4. CASE Repairing
    BY <1>4, FlowOfRecovery DEF Repairing, Passes, At
  <1>5. CASE Aside
    BY <1>5, AsideEffect DEF At
  <1>6. CASE Fail
    BY <1>6, FailGoes DEF At
  <1>7. CASE Crash
    BY <1>7 DEF Crash, At
  <1> QED
    BY <1>1, <1>2, <1>3, <1>4, <1>5, <1>6, <1>7, Ways

\* The last steps of a deletion.
LEMMA WhereDeleted ==
  ASSUME Inv, [Next]_vars, pc' \in {"d_bin", "d_done", "w_trash", "w_debt", "sweep"}
  PROVE  \/ Aside
         \/ pc' = "d_bin" /\ DeleteDebt /\ cur' = cur
         \/ pc' = "d_done" /\ DeleteToTrash /\ cur' = cur
         \/ pc' = "w_trash" /\ \E c \in Contents : CleanupStart(c)
         \/ pc' = "w_debt" /\ CleanupTrash /\ cur' = cur
         \/ pc' = "sweep" /\ cur' \in Contents \cup {Void, cur} /\ (pc = "sweep" \/ cur' = Void)
  <1>1. CASE Entry
    BY <1>1, FlowOfEntries DEF Entry, Enters, Passes, Resumes
  <1>2. CASE Publishing
    BY <1>2, FlowOfRollback DEF Publishing, Passes, Cleans
  <1>3. CASE Deleting
    BY <1>3, FlowOfDeletion DEF Deleting, Passes, Cleans, Resumes
  <1>4. CASE Repairing
    BY <1>4, FlowOfRecovery DEF Repairing, Passes
  <1>5. CASE Aside
    BY <1>5, AsideEffect
  <1>6. CASE Fail
    BY <1>6, FailGoes
  <1>7. CASE Crash
    BY <1>7 DEF Crash
  <1> QED
    BY <1>1, <1>2, <1>3, <1>4, <1>5, <1>6, <1>7, Ways

\* Recovery judges one journal after another.
LEMMA WhereJudged ==
  ASSUME Inv, [Next]_vars, At(JudgedLocations \cup {"rec_retire"})'
  PROVE  \/ At(JudgedLocations \cup {"rec_retire"}) /\ cur' = cur /\ (At(JudgedLocations)' => At(JudgedLocations))
         \/ \E id \in Ids : Judge(id)
  <1>1. CASE Entry
    BY <1>1, FlowOfEntries DEF Entry, Enters, Passes, Resumes, At, JudgedLocations
  <1>2. CASE Publishing
    BY <1>2, FlowOfRollback DEF Publishing, Passes, Cleans, At, JudgedLocations
  <1>3. CASE Deleting
    BY <1>3, FlowOfDeletion DEF Deleting, Passes, Cleans, Resumes, At, JudgedLocations
  <1>4. CASE Repairing
    BY <1>4, FlowOfRecovery DEF Repairing, Passes, At, JudgedLocations
  <1>5. CASE Aside
    BY <1>5, AsideEffect DEF At, JudgedLocations
  <1>6. CASE Fail
    BY <1>6, FailGoes DEF At, JudgedLocations
  <1>7. CASE Crash
    BY <1>7 DEF Crash, At, JudgedLocations
  <1> QED
    BY <1>1, <1>2, <1>3, <1>4, <1>5, <1>6, <1>7, Ways

\* How recovery begins.
LEMMA WhereRecovering ==
  ASSUME Inv, [Next]_vars, Recovering'
  PROVE  Recovering \/ Boot \/ RecoverOnline
  <1>1. CASE Entry
    BY <1>1, FlowOfEntries DEF Entry, Enters, Passes, Resumes, Recovering, RecoveryLocations
  <1>2. CASE Publishing
    BY <1>2, FlowOfRollback DEF Publishing, Passes, Cleans, Recovering, RecoveryLocations
  <1>3. CASE Deleting
    BY <1>3, FlowOfDeletion
       DEF Deleting, Passes, Cleans, Resumes, Recovering, RecoveryLocations
  <1>4. CASE Repairing
    BY <1>4, FlowOfRecovery DEF Repairing, Passes, Recovering, RecoveryLocations
  <1>5. CASE Aside
    BY <1>5, AsideEffect DEF Recovering, RecoveryLocations
  <1>6. CASE Fail
    BY <1>6, FailGoes DEF Recovering, RecoveryLocations
  <1>7. CASE Crash
    BY <1>7 DEF Crash, Recovering, RecoveryLocations
  <1> QED
    BY <1>1, <1>2, <1>3, <1>4, <1>5, <1>6, <1>7, Ways

\* Recovery of journals follows the inventory.
LEMMA WhereInventoried ==
  ASSUME Inv, [Next]_vars, pc' \in RecoveryLocations \ {"scan"} \/ (pc \in {"b_debt", "b_bin"} /\ ret = "rec_staging")'
  PROVE  \/ pc \in RecoveryLocations \ {"scan"} \/ (pc \in {"b_debt", "b_bin"} /\ ret = "rec_staging")
         \/ Scan
  <1>1. CASE Entry
    BY <1>1, FlowOfEntries DEF Entry, Enters, Passes, Resumes, RecoveryLocations
  <1>2. CASE Publishing
    BY <1>2, FlowOfRollback DEF Publishing, Passes, Cleans, RecoveryLocations
  <1>3. CASE Deleting
    BY <1>3, FlowOfDeletion DEF Deleting, Passes, Cleans, Resumes, RecoveryLocations
  <1>4. CASE Repairing
    BY <1>4, FlowOfRecovery DEF Repairing, Passes, RecoveryLocations
  <1>5. CASE Aside
    BY <1>5, AsideEffect DEF RecoveryLocations
  <1>6. CASE Fail
    BY <1>6, FailGoes DEF RecoveryLocations
  <1>7. CASE Crash
    BY <1>7 DEF Crash, RecoveryLocations
  <1> QED
    BY <1>1, <1>2, <1>3, <1>4, <1>5, <1>6, <1>7, Ways

\* The sweep follows the last journal.
LEMMA WhereSweep ==
  ASSUME Inv, [Next]_vars, pc' = "sweep"
  PROVE  pc = "sweep" \/ JournalsDone
  <1>1. CASE Entry
    BY <1>1, FlowOfEntries DEF Entry, Enters, Passes, Resumes
  <1>2. CASE Publishing
    BY <1>2, FlowOfRollback DEF Publishing, Passes, Cleans
  <1>3. CASE Deleting
    BY <1>3, FlowOfDeletion DEF Deleting, Passes, Cleans, Resumes
  <1>4. CASE Repairing
    BY <1>4, FlowOfRecovery DEF Repairing, Passes
  <1>5. CASE Aside
    BY <1>5, AsideEffect
  <1>6. CASE Fail
    BY <1>6, FailGoes
  <1>7. CASE Crash
    BY <1>7 DEF Crash
  <1> QED
    BY <1>1, <1>2, <1>3, <1>4, <1>5, <1>6, <1>7, Ways

-----------------------------------------------------------------------------
(* Which steps change the evidence *)

\* The publishing rename, the journals and the receipts change the evidence; nothing
\* else does (SameClaims).
LEMMA ClaimSteps ==
  ASSUME Inv, [Next]_vars
  PROVE  \/ SameClaims \/ Crash \/ PublishRename \/ DirectChange
         \/ Settle \/ WriteJournal \/ UndoJournal \/ Retire \/ RecoverRetire
         \/ Admit \/ WriteReceipt \/ RecordCommitted \/ RecordRolledBack
         \/ \E op \in Ops : Prune(op)
  <1> DEFINE G == \/ SameClaims \/ Crash \/ PublishRename \/ DirectChange
                  \/ Settle \/ WriteJournal \/ UndoJournal \/ Retire \/ RecoverRetire
                  \/ Admit \/ WriteReceipt \/ RecordCommitted \/ RecordRolledBack
                  \/ \E op \in Ops : Prune(op)
  <1>a. Kept => SameClaims
    BY DEF Kept
  <1>1. CASE Quiet
    BY <1>1, <1>a, QuietEffect
  <1>2. CASE UNCHANGED vars
    BY <1>2 DEF vars, SameClaims
  <1>3. CASE Writing
    <2>1. ASSUME NEW id \in Ids, NEW kind \in {"new", "put"}, NEW p \in Paths,
                 NEW op \in Ops \cup {Void}, Stage(id, kind, p, op)
          PROVE  G
      BY <2>1, StageEffect DEF OnlyStaging
    <2>2. ASSUME NEW id \in Ids, CleanAbandoned(id)
          PROVE  G
      BY <2>2, CleanAbandonedEffect DEF OnlyStaging
    <2>3. ASSUME NEW id \in Ids, SweepUpload(id)
          PROVE  G
      BY <2>3, SweepUploadEffect DEF OnlyStaging
    <2>4. ASSUME NEW id \in Ids, SweepCopy(id)
          PROVE  G
      BY <2>4, <1>a, SweepCopyEffect
    <2>5. ASSUME NEW c \in Contents, SweepTrash(c)
          PROVE  G
      BY <2>5, <1>a, SweepTrashEffect DEF OnlyBin
    <2>6. ASSUME NEW c \in Contents, SweepDebt(c)
          PROVE  G
      BY <2>6, <1>a, SweepDebtEffect DEF OnlyBin
    <2>7. CASE CopyStaging
      BY <2>7, CopyStagingEffect DEF OnlyStaging
    <2>8. CASE BackupDestination
      BY <2>8, BackupDestinationEffect DEF OnlyTree
    <2>9. CASE RestoreBackup
      BY <2>9, <1>a, RestoreBackupEffect DEF OnlyTree
    <2>10. CASE CleanBackup
      BY <2>10, <1>a, CleanBackupEffect DEF OnlyTree
    <2>11. CASE BackupDebt \/ DeleteDebt \/ CleanupTrash \/ CleanupDebt
      BY <2>11, DebtEffect DEF OnlyBin
    <2>12. CASE BackupToTrash \/ DeleteToTrash
      BY <2>12, BackupToTrashEffect, DeleteToTrashEffect
    <2>13. CASE RecoverBackup
      BY <2>13, <1>a, RecoverBackupEffect DEF OnlyTree
    <2>14. CASE RecoverStaging
      BY <2>14, <1>a, RecoverStagingEffect DEF OnlyStaging
    <2> QED
      BY <1>3, <2>1, <2>2, <2>3, <2>4, <2>5, <2>6, <2>7, <2>8, <2>9, <2>10, <2>11, <2>12,
         <2>13, <2>14 DEF Writing
  <1> QED
    BY <1>1, <1>2, <1>3, Steps

\* The steps that write a receipt (ensure_receipt, check_receipt_capacity, prune_receipt).
LEMMA ReceiptEffect ==
  ASSUME Inv, \/ Admit \/ WriteReceipt \/ RecordCommitted \/ RecordRolledBack
              \/ \E op \in Ops : Prune(op)
  PROVE  disk'.seen = disk.seen /\ disk'.journal = disk.journal
  <1>1. Kept => disk'.seen = disk.seen /\ disk'.journal = disk.journal
    BY DEF Kept, SameClaims
  <1>2. ASSUME NEW op, NEW r, OnlyReceipt(op, r)
        PROVE  disk'.seen = disk.seen /\ disk'.journal = disk.journal
    BY <1>2 DEF OnlyReceipt
  <1>3. CASE Admit \/ WriteReceipt
    BY <1>1, <1>2, <1>3, AdmitEffect, WriteReceiptEffect
  <1>4. CASE RecordCommitted \/ RecordRolledBack
    BY <1>1, <1>2, <1>4, RecordCommittedEffect, RecordRolledBackEffect
  <1>5. CASE \E op \in Ops : Prune(op)
    BY <1>1, <1>2, <1>5, PruneEffect
  <1> QED
    BY <1>3, <1>4, <1>5

\* The steps that write a journal (settle_publication, ReplaceJournal).
LEMMA JournalEffect ==
  ASSUME Inv, Settle \/ WriteJournal \/ UndoJournal \/ Retire \/ RecoverRetire
  PROVE  disk'.seen = disk.seen /\ disk'.receipt = disk.receipt
  BY SettleEffect, WriteJournalEffect, RetireEffect DEF OnlyJournal

\* Only the publishing rename publishes.
LEMMA SeenSteps ==
  ASSUME Inv, [Next]_vars
  PROVE  disk'.seen = disk.seen \/ Crash \/ PublishRename \/ DirectChange
  BY ClaimSteps, ReceiptEffect, JournalEffect DEF SameClaims

\* Who touches the journals.
LEMMA JournalSteps ==
  ASSUME Inv, [Next]_vars
  PROVE  \/ disk'.journal = disk.journal \/ Crash
         \/ Settle \/ WriteJournal \/ UndoJournal \/ Retire \/ RecoverRetire
  BY ClaimSteps, ReceiptEffect, PublishRenameEffect DEF SameClaims

\* Who touches the receipts.
LEMMA ReceiptSteps ==
  ASSUME Inv, [Next]_vars
  PROVE  \/ disk'.receipt = disk.receipt \/ Crash
         \/ Admit \/ WriteReceipt \/ RecordCommitted \/ RecordRolledBack
         \/ \E op \in Ops : Prune(op)
  BY ClaimSteps, JournalEffect, PublishRenameEffect DEF SameClaims

\* A journal appears only where the transaction in the gate writes it.
LEMMA JournalAppears ==
  ASSUME Inv, [Next]_vars, ~ Crash, NEW id \in Ids, disk.journal[id] = Void
  PROVE  disk'.journal[id] = Void \/ (WriteJournal /\ id = cur)
  <1>1. disk.journal \in [Ids -> Journal \cup {Void}]
    BY Typed, ImageFields
  <1>2. CASE disk'.journal = disk.journal
    BY <1>2
  <1>3. CASE Settle
    BY <1>1, <1>3, SettleEffect DEF OnlyJournal
  <1>4. CASE WriteJournal
    BY <1>1, <1>4, WriteJournalEffect DEF OnlyJournal
  <1>5. CASE UndoJournal \/ Retire \/ RecoverRetire
    BY <1>1, <1>5, RetireEffect DEF OnlyJournal
  <1> QED
    BY <1>2, <1>3, <1>4, <1>5, JournalSteps

\* Who fills the trash.
LEMMA TrashSteps ==
  ASSUME Inv, [Next]_vars
  PROVE  \/ disk'.trash \subseteq disk.trash \/ Crash \/ BackupToTrash \/ DeleteToTrash
         \/ RecoverStaging \/ \E id \in Ids : SweepCopy(id)
  <1> DEFINE G == \/ disk'.trash \subseteq disk.trash \/ Crash \/ BackupToTrash
                  \/ DeleteToTrash \/ RecoverStaging \/ \E id \in Ids : SweepCopy(id)
  <1>a. Kept \/ SameBin => disk'.trash = disk.trash
    BY DEF Kept, SameBin
  <1>1. CASE Quiet
    BY <1>1, <1>a, QuietEffect
  <1>2. CASE UNCHANGED vars
    BY <1>2 DEF vars
  <1>3. CASE Writing
    <2>1. ASSUME NEW id \in Ids, NEW kind \in {"new", "put"}, NEW p \in Paths,
                 NEW op \in Ops \cup {Void}, Stage(id, kind, p, op)
          PROVE  G
      BY <2>1, <1>a, StageEffect DEF OnlyStaging
    <2>2. ASSUME NEW id \in Ids, CleanAbandoned(id) \/ SweepUpload(id)
          PROVE  G
      BY <2>2, <1>a, CleanAbandonedEffect, SweepUploadEffect DEF OnlyStaging
    <2>3. ASSUME NEW c \in Contents, SweepTrash(c) \/ SweepDebt(c)
          PROVE  G
      BY <2>3, <1>a, SweepTrashEffect, SweepDebtEffect DEF OnlyBin
    <2>4. ASSUME NEW op \in Ops, Prune(op)
          PROVE  G
      BY <2>4, <1>a, PruneEffect DEF OnlyReceipt
    <2>5. CASE CopyStaging
      BY <2>5, <1>a, CopyStagingEffect DEF OnlyStaging
    <2>6. CASE \/ BackupDestination \/ RestoreBackup \/ CleanBackup \/ RecoverBackup
      BY <2>6, <1>a, BackupDestinationEffect, RestoreBackupEffect, CleanBackupEffect,
         RecoverBackupEffect DEF OnlyTree
    <2>7. CASE BackupDebt \/ DeleteDebt \/ CleanupTrash \/ CleanupDebt
      BY <2>7, DebtEffect DEF OnlyBin
    <2>8. CASE Settle \/ WriteJournal \/ UndoJournal \/ Retire \/ RecoverRetire
      BY <2>8, <1>a, SettleEffect, WriteJournalEffect, RetireEffect DEF OnlyJournal
    <2>9. CASE Admit \/ WriteReceipt
      BY <2>9, <1>a, AdmitEffect, WriteReceiptEffect DEF OnlyReceipt
    <2>10. CASE RecordCommitted \/ RecordRolledBack
      BY <2>10, <1>a, RecordCommittedEffect, RecordRolledBackEffect DEF OnlyReceipt
    <2>11. CASE PublishRename \/ DirectChange
      BY <2>11, <1>a, PublishRenameEffect
    <2> QED
      BY <1>3, <2>1, <2>2, <2>3, <2>4, <2>5, <2>6, <2>7, <2>8, <2>9, <2>10, <2>11
         DEF Writing
  <1> QED
    BY <1>1, <1>2, <1>3, Steps

-----------------------------------------------------------------------------
(* Types *)

\* The locations.
LEMMA PcTyped ==
  ASSUME Inv, [Next]_vars
  PROVE  pc' \in Locations /\ ret' \in Locations
  <1> DEFINE G == pc' \in Locations /\ ret' \in Locations
  <1>a. pc \in Locations /\ ret \in Locations
    BY DEF Inv, TypeOK
  <1>1. CASE Quiet
    <2>1. ASSUME NEW id \in Ids, Commit(id)
          PROVE  G
      BY <2>1, <1>a
      DEF Commit, Locations, CommitLocations, RecoveryLocations, Enter, rec
    <2>2. ASSUME NEW id \in Ids, Abandon(id)
          PROVE  G
      BY <2>2, <1>a
      DEF Abandon, Locations, CommitLocations, RecoveryLocations, Goto, rec
    <2>3. ASSUME NEW id \in Ids, Judge(id)
          PROVE  G
      BY <2>3, <1>a
      DEF Judge, Locations, CommitLocations, RecoveryLocations, Goto, Stop, rec
    <2>4. ASSUME NEW id \in Ids, SweepAnchor(id)
          PROVE  G
      BY <2>4, <1>a
      DEF SweepAnchor, Locations, CommitLocations, RecoveryLocations, Goto, rec
    <2>5. ASSUME NEW id \in Ids, NEW kind \in AllKinds, NEW s \in Paths \cup {Void},
                 NEW p \in Paths,
              Transfer(id, kind, s, p)
          PROVE  G
      BY <2>5, <1>a
      DEF Transfer, Locations, CommitLocations, RecoveryLocations, Enter, rec
    <2>6. ASSUME NEW p \in Paths, Delete(p)
          PROVE  G
      BY <2>6, <1>a
      DEF Delete, Locations, CommitLocations, RecoveryLocations, Enter, rec
    <2>7. ASSUME NEW c \in Contents, CleanupStart(c)
          PROVE  G
      BY <2>7, <1>a
      DEF CleanupStart, Locations, CommitLocations, RecoveryLocations, Goto, rec
    <2>8. ASSUME NEW op \in Ops, Confirm(op)
          PROVE  G
      BY <2>8, <1>a
      DEF Confirm, Locations, CommitLocations, RecoveryLocations, Goto, rec
    <2>9. CASE Settled \/ Reject \/ TakeOwnership
      BY <2>9, <1>a
      DEF Settled, Reject, TakeOwnership, Locations, CommitLocations, RecoveryLocations, Goto,
             rec, Conclude
    <2>10. CASE LinkAnchor \/ RenameFails \/ UndoAnchor
      BY <2>10, <1>a
      DEF LinkAnchor, RenameFails, UndoAnchor, Locations, CommitLocations, RecoveryLocations,
             Goto, rec
    <2>11. CASE RollbackCompleted \/ Unanchor \/ Done
      BY <2>11, <1>a
      DEF RollbackCompleted, Unanchor, Done, Locations, CommitLocations, RecoveryLocations,
             Goto, rec, Conclude
    <2>12. CASE DeleteDone \/ CleanupDone \/ Pruned
      BY <2>12, <1>a
      DEF DeleteDone, CleanupDone, Pruned, Locations, CommitLocations, RecoveryLocations, Goto,
             rec
    <2>13. CASE Boot \/ RecoverOnline \/ JournalsDone
      BY <2>13, <1>a
      DEF Boot, RecoverOnline, JournalsDone, Locations, CommitLocations, RecoveryLocations,
             Goto, rec, Enter
    <2>14. CASE RecoverAnchor \/ RecoveryDone
      BY <2>14, <1>a
      DEF RecoverAnchor, RecoveryDone, Locations, CommitLocations, RecoveryLocations, Goto,
             rec
    <2>15. CASE Scan
      BY <2>15, <1>a
      DEF Scan, Locations, CommitLocations, RecoveryLocations, Goto, Stop, rec
    <2>16. CASE Fail
      BY <2>16, <1>a
      DEF Fail, Locations, CommitLocations, RecoveryLocations, Goto, Conclude, rec
    <2> QED
      BY <1>1, <2>1, <2>2, <2>3, <2>4, <2>5, <2>6, <2>7, <2>8, <2>9, <2>10, <2>11, <2>12,
         <2>13, <2>14, <2>15, <2>16 DEF Quiet
  <1>2. CASE Writing
    <2>1. ASSUME NEW id \in Ids, CleanAbandoned(id)
          PROVE  G
      BY <2>1, <1>a
      DEF CleanAbandoned, Locations, CommitLocations, RecoveryLocations, Goto, rec
    <2>2. ASSUME NEW id \in Ids, SweepUpload(id)
          PROVE  G
      BY <2>2, <1>a
      DEF SweepUpload, Locations, CommitLocations, RecoveryLocations, Goto, rec
    <2>3. ASSUME NEW id \in Ids, SweepCopy(id)
          PROVE  G
      BY <2>3, <1>a
      DEF SweepCopy, Locations, CommitLocations, RecoveryLocations, Goto, rec
    <2>4. ASSUME NEW id \in Ids, NEW kind \in {"new", "put"}, NEW p \in Paths,
                 NEW op \in Ops \cup {Void},
              Stage(id, kind, p, op)
          PROVE  G
      BY <2>4, <1>a
      DEF Stage, Locations, CommitLocations, RecoveryLocations, Goto, rec
    <2>5. ASSUME NEW c \in Contents, SweepTrash(c)
          PROVE  G
      BY <2>5, <1>a
      DEF SweepTrash, Locations, CommitLocations, RecoveryLocations, Goto, rec
    <2>6. ASSUME NEW c \in Contents, SweepDebt(c)
          PROVE  G
      BY <2>6, <1>a
      DEF SweepDebt, Locations, CommitLocations, RecoveryLocations, Goto, rec
    <2>7. ASSUME NEW op \in Ops, Prune(op)
          PROVE  G
      BY <2>7, <1>a
      DEF Prune, Locations, CommitLocations, RecoveryLocations, Goto, rec
    <2>8. CASE Settle \/ Admit \/ CopyStaging
      BY <2>8, <1>a
      DEF Settle, Admit, CopyStaging, Locations, CommitLocations, RecoveryLocations, Goto, rec
    <2>9. CASE WriteJournal \/ BackupDestination \/ PublishRename
      BY <2>9, <1>a
      DEF WriteJournal, BackupDestination, PublishRename, Locations, CommitLocations,
             RecoveryLocations, Goto, rec
    <2>10. CASE DirectChange \/ RestoreBackup \/ UndoJournal
      BY <2>10, <1>a
      DEF DirectChange, RestoreBackup, UndoJournal, Locations, CommitLocations,
             RecoveryLocations, Goto, rec
    <2>11. CASE WriteReceipt \/ CleanBackup \/ Retire
      BY <2>11, <1>a
      DEF WriteReceipt, CleanBackup, Retire, Locations, CommitLocations, RecoveryLocations,
             Goto, rec, CleanupBackup
    <2>12. CASE BackupDebt \/ BackupToTrash \/ DeleteDebt
      BY <2>12, <1>a
      DEF BackupDebt, BackupToTrash, DeleteDebt, Locations, CommitLocations, RecoveryLocations,
             Goto, rec
    <2>13. CASE DeleteToTrash \/ CleanupTrash \/ CleanupDebt
      BY <2>13, <1>a
      DEF DeleteToTrash, CleanupTrash, CleanupDebt, Locations, CommitLocations,
             RecoveryLocations, Goto, rec
    <2>14. CASE RecordCommitted \/ RecordRolledBack \/ RecoverBackup
      BY <2>14, <1>a
      DEF RecordCommitted, RecordRolledBack, RecoverBackup, Locations, CommitLocations,
             RecoveryLocations, RecordOutcome, Goto, Stop, rec, CleanupBackup
    <2>15. CASE RecoverStaging \/ RecoverRetire
      BY <2>15, <1>a
      DEF RecoverStaging, RecoverRetire, Locations, CommitLocations, RecoveryLocations, Goto,
             rec
    <2> QED
      BY <1>2, <2>1, <2>2, <2>3, <2>4, <2>5, <2>6, <2>7, <2>8, <2>9, <2>10, <2>11, <2>12,
         <2>13, <2>14, <2>15 DEF Writing
  <1>3. CASE UNCHANGED vars
    BY <1>a, <1>3 DEF vars
  <1>4. CASE Crash
    BY <1>4 DEF Crash, Locations
  <1> QED
    BY <1>1, <1>2, <1>3, <1>4, Steps

\* The publishing call returns: the writer is done with its staging resource, and the
\* ticket records what the commit state shows (classify_upload_result).
LEMMA CommitEnds ==
  ASSUME Inv, Reject \/ Done \/ Fail \/ RollbackCompleted
  PROVE  \/ UNCHANGED <<item, owner, allowed, stage>>
         \/ /\ At(CommitLocations) /\ cur \in Ids /\ Started(cur) /\ pc' = "idle" /\ cur' = cur
            /\ stage' = "before"
            /\ \E o \in {"gone", "abandoned", "recovery"} : owner' = [owner EXCEPT ![cur] = o]
            /\ IF Tracked(cur)
               THEN \E x \in {"complete", "complete_pending", "unknown"} :
                      /\ item' = [item EXCEPT ![info[cur].op] = x]
                      /\ x = "complete" => pc = "done"
               ELSE item' = item
  <1> DEFINE G == /\ cur' = cur /\ pc' = "idle" /\ stage' = "before"
                  /\ \E o \in {"gone", "abandoned", "recovery"} : owner' = [owner EXCEPT ![cur] = o]
                  /\ IF Tracked(cur)
                     THEN \E x \in {"complete", "complete_pending", "unknown"} :
                            /\ item' = [item EXCEPT ![info[cur].op] = x]
                            /\ x = "complete" => pc = "done"
                     ELSE item' = item
  <1>1. CASE Reject
    <2>1. pc = "admit" /\ Conclude(FALSE)
      BY <1>1 DEF Reject
    <2>2. G
      BY <2>1 DEF Conclude
    <2> QED
      BY <2>1, <2>2, Publisher DEF At, CommitLocations
  <1>2. CASE Done
    <2>1. pc \in {"done", "direct_done"} /\ Conclude(TRUE)
      BY <1>2 DEF Done
    <2>2. pc = "direct_done" => ~ Tracked(cur)
      BY Typed DEF ControlOK, At
    <2>3. G
      BY <2>1, <2>2 DEF Conclude
    <2> QED
      BY <2>1, <2>3, Publisher DEF At, CommitLocations
  <1>3. CASE RollbackCompleted
    <2>1. pc = "undone" /\ G
      BY <1>3 DEF RollbackCompleted
    <2> QED
      BY <2>1, Publisher DEF At, CommitLocations
  <1>4. CASE Fail
    <2>1. CASE UNCHANGED <<item, owner, allowed, stage>>
      BY <2>1
    <2>2. CASE At(CommitLocations) /\ Conclude(FALSE)
      <3>1. G
        BY <2>2 DEF Conclude
      <3> QED
        BY <2>2, <3>1, Publisher
    <2> QED
      BY <1>4, <2>1, <2>2 DEF Fail, At, batch
  <1> QED
    BY <1>1, <1>2, <1>3, <1>4

\* Who may remove a staging resource; only a start makes a writer.
LEMMA OwnerNext ==
  ASSUME Inv, [Next]_vars
  PROVE  /\ owner' \in [Ids -> {"unused", "writer", "abandoned", "recovery", "gone"}]
         /\ \A id \in Ids : owner'[id] # "unused" => Started(id)'
         /\ \A id \in Ids : owner'[id] = "writer" => owner[id] = "writer" \/ \E i : Starts(id, i)
  <1> DEFINE O == {"unused", "writer", "abandoned", "recovery", "gone"}
             G == /\ owner' \in [Ids -> O]
                  /\ \A id \in Ids : owner'[id] # "unused" => Started(id)'
                  /\ \A id \in Ids : owner'[id] = "writer" => owner[id] = "writer" \/ \E i : Starts(id, i)
  <1>1. owner \in [Ids -> O] /\ \A id \in Ids : owner[id] # "unused" => Started(id)
    BY Typed DEF Inv, TypeOK, InfoOK
  <1>2. ASSUME NEW id \in Ids, NEW o \in O \ {"writer"}, owner' = [owner EXCEPT ![id] = o],
               Started(id), UNCHANGED info
        PROVE  G
    BY <1>1, <1>2 DEF Started
  <1>3. ASSUME NEW id \in Ids, owner' = [owner EXCEPT ![id] = "writer"],
               NEW i, Starts(id, i)
        PROVE  G
    BY <1>1, <1>3, VoidAssumption DEF Started, Starts
  <1>4. ASSUME UNCHANGED owner
        PROVE  G
    <2>1. \A id \in Ids : Started(id) => Started(id)'
      <3>1. CASE UNCHANGED info
        BY <3>1 DEF Started
      <3>2. ASSUME NEW id \in Ids, NEW i, Starts(id, i)
            PROVE  \A j \in Ids : Started(j) => Started(j)'
        BY <3>2 DEF Started, Starts
      <3> QED
        BY <3>1, <3>2, InfoSteps, StageStarts, TransferStarts
    <2> QED
      BY <1>1, <1>4, <2>1
  <1>5. CASE Crash
    BY <1>5 DEF Crash, Started
  <1>6. ASSUME NEW id \in Ids, NEW kind \in {"new", "put"}, NEW p \in Paths,
               NEW op \in Ops \cup {Void}, Stage(id, kind, p, op)
        PROVE  G
    <2>1. owner' = [owner EXCEPT ![id] = "writer"]
      BY <1>6 DEF Stage
    <2>2. PICK i : Starts(id, i)
      BY <1>6, StageStarts
    <2> QED
      BY <1>3, <2>1, <2>2
  <1>7. ASSUME NEW id \in Ids, NEW kind \in AllKinds, NEW s \in Paths \cup {Void},
               NEW p \in Paths, Transfer(id, kind, s, p)
        PROVE  G
    <2>1. owner' = [owner EXCEPT ![id] = "writer"]
      BY <1>7 DEF Transfer
    <2>2. PICK i : Starts(id, i)
      BY <1>7, TransferStarts
    <2> QED
      BY <1>3, <2>1, <2>2
  <1>8. ASSUME NEW id \in Ids, Abandon(id) \/ CleanAbandoned(id)
        PROVE  G
    <2>1. owner[id] # "unused" /\ UNCHANGED info
      BY <1>8 DEF Abandon, CleanAbandoned
    <2> QED
      BY <1>1, <1>2, <1>8, <2>1 DEF Abandon, CleanAbandoned
  <1>9. CASE TakeOwnership
    <2>1. cur \in Ids /\ Started(cur)
      BY <1>9, Publisher DEF TakeOwnership, At, CommitLocations
    <2> QED
      BY <1>2, <1>9, <2>1 DEF TakeOwnership
  <1>10. CASE Reject \/ Done \/ Fail \/ RollbackCompleted
    <2>1. UNCHANGED info
      BY <1>10 DEF Reject, Done, Fail, RollbackCompleted, Conclude
    <2> QED
      BY <1>2, <1>4, <1>10, <2>1, CommitEnds
  <1>11. CASE RecoveryDone
    <2>1. owner' = [id \in Ids |-> IF owner[id] = "unused" THEN "unused" ELSE "gone"]
          /\ UNCHANGED info
      BY <1>11 DEF RecoveryDone
    <2> QED
      BY <1>1, <2>1 DEF Started
  <1> QED
    BY <1>4, <1>5, <1>6, <1>7, <1>8, <1>9, <1>10, <1>11, OwnerSteps

\* What the started transactions are.
LEMMA InfoNext ==
  ASSUME Inv, [Next]_vars
  PROVE  InfoOK' /\ info' \in [Ids -> Info \cup {Void}]
  <1>1. \A id \in Ids : owner'[id] # "unused" => Started(id)'
    BY OwnerNext
  <1> DEFINE F == \A id \in Ids : Started(id)' =>
                    /\ Moves(id)' => info'[id].src \in Paths
                    /\ (info'[id].op \in Ops) <=> Tracked(id)'
                    /\ Tracked(id)' => info'[id].path = OpPath[info'[id].op]
  <1>2. CASE UNCHANGED info
    <2>1. F
      BY <1>2, Typed DEF InfoOK, Started, Moves, Tracked
    <2> QED
      BY <1>1, <1>2, <2>1, Typed DEF InfoOK
  <1>3. ASSUME NEW id \in Ids, NEW i, Starts(id, i)
        PROVE  InfoOK' /\ info' \in [Ids -> Info \cup {Void}]
    <2>1. F
      BY <1>3, Typed DEF InfoOK, Started, Moves, Tracked, Starts
    <2>2. info' \in [Ids -> Info \cup {Void}]
      BY <1>3, Typed DEF Starts
    <2> QED
      BY <1>1, <2>1, <2>2 DEF InfoOK
  <1> QED
    BY <1>2, <1>3, InfoSteps, StageStarts, TransferStarts

\* The subject, the accounting and the pending publication.
LEMMA SubjectTyped ==
  ASSUME Inv, [Next]_vars
  PROVE  /\ cur' \in Ids \cup Paths \cup Contents \cup {Void}
         /\ stage' \in {"before", "awaiting", "published"}
         /\ pending' \in Ids \cup {Void}
  <1>1. /\ cur \in Ids \cup Paths \cup Contents \cup {Void}
        /\ stage \in {"before", "awaiting", "published"} /\ pending \in Ids \cup {Void}
    BY DEF Inv, TypeOK
  <1>2. cur' \in Ids \cup Paths \cup Contents \cup {Void}
    <2>1. CASE \/ \E id \in Ids : Commit(id) \/ Judge(id)
               \/ \E id \in Ids, kind \in AllKinds, s \in Paths \cup {Void}, p \in Paths :
                     Transfer(id, kind, s, p)
      <3>1. \A id \in Ids : Commit(id) \/ Judge(id) => cur' = id
        BY DEF Commit, Judge
      <3>2. \A id \in Ids, kind \in AllKinds, s \in Paths \cup {Void}, p \in Paths :
               Transfer(id, kind, s, p) => cur' = id
        BY DEF Transfer
      <3> QED
        BY <2>1, <3>1, <3>2
    <2>2. CASE \/ \E p \in Paths : Delete(p)
               \/ \E c \in Contents : CleanupStart(c) \/ SweepTrash(c)
      BY <2>2 DEF Delete, CleanupStart, SweepTrash
    <2>3. CASE JournalsDone \/ Crash
      BY <2>3 DEF JournalsDone, Crash
    <2> QED
      BY <1>1, <2>1, <2>2, <2>3, CurSteps
  <1>3. stage' \in {"before", "awaiting", "published"}
    BY <1>1, StageSteps, CommitEnds DEF TakeOwnership, PublishRename, DirectChange, Crash
  <1>4. pending' \in Ids \cup {Void}
    <2>1. PublishRename => cur \in Ids
      BY PublishRenameEffect
    <2> QED
      BY <1>1, <2>1, PendingSteps DEF PublishRename, Settled, Crash
  <1> QED
    BY <1>2, <1>3, <1>4

\* Recovery's own state.
LEMMA RecoveryTyped ==
  ASSUME Inv, [Next]_vars
  PROVE  /\ booting' \in BOOLEAN /\ verdict' \in {"committed", "unknown", "rolled_back"}
         /\ todo' \in [journals : SUBSET Ids, uploads : SUBSET Ids, anchors : SUBSET Ids,
                       copies : SUBSET Ids, trash : SUBSET Contents, debt : SUBSET Contents]
  <1> DEFINE T == [journals : SUBSET Ids, uploads : SUBSET Ids, anchors : SUBSET Ids,
                   copies : SUBSET Ids, trash : SUBSET Contents, debt : SUBSET Contents]
  <1>1. booting \in BOOLEAN /\ verdict \in {"committed", "unknown", "rolled_back"} /\ todo \in T
    BY DEF Inv, TypeOK
  <1>2. booting' \in BOOLEAN
    BY <1>1, BootingSteps, FailGoes
       DEF Boot, Scan, Judge, RecordCommitted, RecordRolledBack,
       RecordOutcome, Stop, RecoveryDone, Crash, rec
  <1>3. verdict' \in {"committed", "unknown", "rolled_back"}
    BY <1>1, VerdictSteps DEF Judge, Stop, Evidence, rec, Crash
  <1>4. NoTodo \in T
    BY DEF NoTodo
  <1>5. Inventory(disk) \in T
    BY Typed, ImageFields DEF Inventory
  <1>6. todo' \in T
    <2>1. CASE Stop
      BY <2>1, <1>4 DEF Stop
    <2>2. CASE UNCHANGED todo
      BY <2>2, <1>1
    <2>3. CASE Scan
      BY <2>1, <2>3, <1>5 DEF Scan
    <2>4. CASE \E id \in Ids : Judge(id)
      BY <2>1, <2>2, <2>4 DEF Judge, rec
    <2>5. CASE RecordCommitted \/ RecordRolledBack
      BY <2>1, <2>2, <2>5 DEF RecordCommitted, RecordRolledBack, RecordOutcome, rec
    <2>6. CASE RecoverRetire
      BY <2>6, <1>1 DEF RecoverRetire
    <2>7. ASSUME NEW id \in Ids, SweepUpload(id) \/ SweepAnchor(id)
          PROVE  todo' \in T
      BY <2>7, <1>1 DEF SweepUpload, SweepAnchor
    <2>8. ASSUME NEW id \in Ids, SweepCopy(id)
          PROVE  todo' \in T
      <3>1. id \in Contents
        BY DEF Contents
      <3> QED
        BY <2>8, <1>1, <3>1 DEF SweepCopy
    <2>9. ASSUME NEW c \in Contents, SweepTrash(c) \/ SweepDebt(c)
          PROVE  todo' \in T
      BY <2>9, <1>1 DEF SweepTrash, SweepDebt
    <2>10. CASE Fail
      BY <2>2, <2>10, <1>4 DEF Fail, Conclude, rec
    <2>11. CASE Crash
      BY <2>11, <1>4 DEF Crash
    <2> QED
      BY <2>2, <2>3, <2>4, <2>5, <2>6, <2>7, <2>8, <2>9, <2>10, <2>11, TodoSteps
  <1> QED
    BY <1>2, <1>3, <1>6

\* What a client may find after an answer.
LEMMA AllowedTyped ==
  ASSUME Inv, [Next]_vars
  PROVE  allowed' \in [Paths -> SUBSET (Contents \cup {Void})]
  <1> DEFINE C == Contents \cup {Void}
             T == [Paths -> SUBSET C]
  <1>1. allowed \in T /\ disk.dest \in [Paths -> C]
    BY Typed, ImageFields DEF Inv, TypeOK
  <1>2. \A id : \A p \in Paths, c \in C : Acknowledge(p, c, id) \in SUBSET C
    BY <1>1 DEF Acknowledge
  <1>3. \A i, id : \A c \in C : Announce(i, id, c) \in T
    <2>1. ASSUME NEW i, NEW id, NEW c \in C
          PROVE  Announce(i, id, c) \in T
      BY <1>1 DEF Announce
    <2> QED
      BY <2>1
  <1>4. Ids \subseteq C
    BY DEF Contents
  <1>5. \A x : \A p \in Paths : [allowed EXCEPT ![p] = @ \ x] \in T
    BY <1>1
  <1>6. ASSUME NEW ok \in BOOLEAN, Conclude(ok)
        PROVE  allowed' \in T
    <2> DEFINE f == [p \in Paths |->
                       IF p = info[cur].path THEN Acknowledge(p, disk.dest[p], cur)
                       ELSE IF p = info[cur].src /\ Moves(cur) THEN Acknowledge(p, Void, cur)
                       ELSE allowed[p]]
    <2>1. f \in T
      BY <1>1, <1>2
    <2>2. allowed' \in {f, allowed, [allowed EXCEPT ![info[cur].path] = @ \ {cur}]}
      BY <1>6 DEF Conclude
    <2>3. [allowed EXCEPT ![info[cur].path] = @ \ {cur}] \in T
      BY <1>1
    <2> QED
      BY <1>1, <2>1, <2>2, <2>3
  <1>7. CASE Reject \/ Done \/ Fail
    BY <1>1, <1>6, <1>7 DEF Reject, Done, Fail, batch
  <1>8. CASE RollbackCompleted
    BY <1>1, <1>8 DEF RollbackCompleted
  <1>9. ASSUME NEW id \in Ids, Commit(id)
        PROVE  allowed' \in T
    BY <1>3, <1>4, <1>9 DEF Commit
  <1>10. ASSUME NEW id \in Ids, NEW kind \in AllKinds, NEW s \in Paths \cup {Void},
                NEW p \in Paths, Transfer(id, kind, s, p)
         PROVE  allowed' \in T
    <2> DEFINE c == IF kind \in {"move", "rename"} THEN disk.dest[s] ELSE id
               i == [kind |-> kind, path |-> p, src |-> s, op |-> Void]
    <2>1. allowed' = Announce(i, id, c) /\ (kind # "mkdir" => s \in Paths)
      BY <1>10 DEF Transfer
    <2>2. c \in C
      BY <1>1, <1>4, <2>1
    <2> HIDE DEF c, i
    <2> QED
      BY <1>3, <2>1, <2>2
  <1>11. ASSUME NEW p \in Paths, Delete(p)
         PROVE  allowed' \in T
    BY <1>1, <1>11 DEF Delete
  <1>12. CASE DeleteDone
    <2>1. cur \in Paths
      BY <1>12, Typed DEF DeleteDone, ControlOK
    <2>2. Acknowledge(cur, Void, Void) \in SUBSET C
      BY <1>2, <2>1
    <2> QED
      BY <1>1, <1>12, <2>1, <2>2 DEF DeleteDone
  <1>13. ASSUME NEW op \in Ops, Confirm(op)
         PROVE  allowed' \in T
    BY <1>1, <1>13, ConstantsAssumption DEF Confirm
  <1> QED
    BY <1>1, <1>7, <1>8, <1>9, <1>10, <1>11, <1>12, <1>13, AllowedSteps DEF Crash

\* The ticket and its confirmation window.
LEMMA TicketTyped ==
  ASSUME Inv, [Next]_vars
  PROVE  /\ item' \in [Ops -> {"pending", "running", "complete", "complete_pending",
                               "unknown", "failed", "retired"}]
         /\ window' \subseteq Ops
  <1> DEFINE T == [Ops -> {"pending", "running", "complete", "complete_pending",
                           "unknown", "failed", "retired"}]
  <1>1. item \in T /\ window \subseteq Ops
    BY DEF Inv, TypeOK
  <1>2. window' \subseteq Ops
    BY <1>1, WindowSteps DEF RecoverOnline, RecoveryDone, Confirm, Crash
  <1>3. CASE Reject \/ Done \/ Fail \/ RollbackCompleted
    <2>1. item' = item => item' \in T
      BY <1>1
    <2>2. ASSUME NEW x \in {"complete", "complete_pending", "unknown"},
                 item' = [item EXCEPT ![info[cur].op] = x]
          PROVE  item' \in T
      BY <1>1, <2>2
    <2> QED
      BY <1>2, <1>3, <2>1, <2>2, CommitEnds
  <1>4. ASSUME NEW id \in Ids, NEW kind \in {"new", "put"}, NEW p \in Paths,
               NEW op \in Ops \cup {Void}, Stage(id, kind, p, op)
        PROVE  item' \in T
    BY <1>1, <1>4 DEF Stage
  <1>5. CASE \E id \in Ids : Abandon(id)
    BY <1>1, <1>5 DEF Abandon
  <1>6. CASE \E op \in Ops : Confirm(op) \/ Prune(op)
    BY <1>1, <1>6 DEF Confirm, Prune, ReceiptOutcome
  <1>7. CASE Crash
    BY <1>1, <1>7 DEF Crash
  <1> QED
    BY <1>1, <1>2, <1>3, <1>4, <1>5, <1>6, <1>7, ItemSteps

\* The scene does not change and its bounds are kept.
LEMMA BudgetTyped ==
  ASSUME Inv, [Next]_vars
  PROVE  /\ scene' \in Scenes /\ crashes' \in 0 .. scene'.maxCrashes
         /\ errors' \in 0 .. scene'.maxErrors
  <1>1. /\ scene \in Scenes /\ crashes \in 0 .. scene.maxCrashes
        /\ errors \in 0 .. scene.maxErrors
    BY DEF Inv, TypeOK
  <1>2. scene.maxCrashes \in Nat /\ scene.maxErrors \in Nat
    BY <1>1, ScenesAssumption
  <1>3. CASE UNCHANGED budget
    BY <1>1, <1>3 DEF budget
  <1>4. CASE RenameFails \/ Fail
    <2>1. /\ errors < scene.maxErrors /\ errors' = errors + 1
          /\ scene' = scene /\ crashes' = crashes
      BY <1>4 DEF RenameFails, Fail
    <2> QED
      BY <1>1, <1>2, <2>1
  <1>5. CASE Crash
    BY <1>1, <1>2, <1>5 DEF Crash
  <1> QED
    BY <1>3, <1>4, <1>5, BudgetSteps

\* Every step keeps the types.
LEMMA TypeNext ==
  ASSUME Inv, [Next]_vars
  PROVE  TypeOK'
  <1>1. FsTypeOK' /\ info' \in [Ids -> Info \cup {Void}]
    BY ImagesNext, InfoNext
  <1> QED
    BY <1>1, PcTyped, SubjectTyped, RecoveryTyped, AllowedTyped, TicketTyped, BudgetTyped,
       OwnerNext
    DEF TypeOK, FsTypeOK

\* A recovery that stops with an error (Stop), and when the service is down.
Stopped == /\ Recovering /\ booting' = FALSE /\ owner' = owner
           /\ pc' = IF booting THEN "refused" ELSE "idle"

\* Where a step of recovery leads.
LEMMA Stops ==
  ASSUME Inv, Scan \/ (\E id \in Ids : Judge(id)) \/ RecordCommitted \/ RecordRolledBack
  PROVE  \/ Stopped
         \/ booting' = booting /\ owner' = owner /\ pc \in RecoveryLocations /\ pc' \in RecoveryLocations
  <1>1. CASE Scan
    BY <1>1 DEF Scan, Stop, Goto, Stopped, Recovering, RecoveryLocations
  <1>2. ASSUME NEW id \in Ids, Judge(id)
        PROVE  \/ Stopped
               \/ booting' = booting /\ owner' = owner /\ pc \in RecoveryLocations /\ pc' \in RecoveryLocations
    BY <1>2 DEF Judge, Stop, Goto, Stopped, Recovering, RecoveryLocations, rec
  <1>3. CASE RecordCommitted \/ RecordRolledBack
    BY <1>3 DEF RecordCommitted, RecordRolledBack, RecordOutcome, Stop, Goto, Stopped,
                Recovering, RecoveryLocations, rec
  <1> QED
    BY <1>1, <1>2, <1>3

\* When the service starts, stops and is refused.
LEMMA Starting ==
  ASSUME Inv, [Next]_vars
  PROVE  \/ booting' = booting /\ (pc' \in {"down", "refused"} <=> pc \in {"down", "refused"})
         \/ Boot /\ pc = "down" /\ booting' = TRUE /\ pc' = "scan"
         \/ Stopped
         \/ /\ Fail /\ pc \notin {"down", "refused"} /\ booting' = FALSE
            /\ pc' = IF booting THEN "down" ELSE "idle"
         \/ RecoveryDone /\ booting' = FALSE /\ pc = "sweep" /\ pc' = "idle"
         \/ Crash /\ pc' = "down"
  <1> DEFINE Busy == \/ Boot \/ Scan \/ RecordCommitted \/ RecordRolledBack \/ RecoveryDone
                     \/ Fail \/ Crash \/ \E id \in Ids : Judge(id)
  <1>1. CASE Boot
    BY <1>1, FlowOfDeletion DEF Passes, Boot
  <1>2. CASE Scan \/ (\E id \in Ids : Judge(id)) \/ RecordCommitted \/ RecordRolledBack
    BY <1>2, Stops DEF RecoveryLocations
  <1>3. CASE Fail
    BY <1>3, FailGoes
  <1>4. CASE RecoveryDone
    BY <1>4 DEF RecoveryDone, Goto
  <1>5. CASE Crash
    BY <1>5 DEF Crash
  <1>6. CASE ~ Busy
    <2>1. UNCHANGED booting
      BY <1>6, BootingSteps
    <2>2. pc' \in {"down", "refused"} <=> pc \in {"down", "refused"}
      <3>1. CASE Entry
        BY <3>1, FlowOfEntries DEF Entry, Enters, Passes, Resumes
      <3>2. CASE Publishing
        BY <3>2, FlowOfRollback DEF Publishing, Passes, Cleans
      <3>3. CASE Deleting
        BY <1>6, <3>3, FlowOfDeletion DEF Deleting, Passes, Cleans, Resumes
      <3>4. CASE Repairing
        BY <1>6, <3>4, FlowOfRecovery DEF Repairing, Passes
      <3>5. CASE Aside
        BY <3>5, AsideEffect
      <3> QED
        BY <1>6, <3>1, <3>2, <3>3, <3>4, <3>5, Ways
    <2> QED
      BY <2>1, <2>2
  <1> QED
    BY <1>1, <1>2, <1>3, <1>4, <1>5, <1>6

\* Recovery is left by an error, at its end or by a power failure.
LEMMA WhereBooting ==
  ASSUME Inv, [Next]_vars, Recovering
  PROVE  Recovering' \/ booting' = FALSE
  <1> USE DEF Recovering, RecoveryLocations
  <1>1. CASE Stopped \/ Fail \/ RecoveryDone \/ Crash
    BY <1>1, FailGoes DEF Stopped, RecoveryDone, Crash
  <1>2. CASE ~ (Stopped \/ Fail \/ RecoveryDone \/ Crash)
    <2>1. CASE Entry
      BY <2>1, FlowOfEntries DEF Entry, Enters, Passes, Resumes
    <2>2. CASE Publishing
      BY <2>2, FlowOfRollback DEF Publishing, Passes, Cleans
    <2>3. CASE Deleting
      <3>1. CASE Scan \/ (\E id \in Ids : Judge(id)) \/ RecordCommitted
        BY <1>2, <3>1, Stops
      <3> QED
        BY <2>3, <3>1, FlowOfDeletion DEF Deleting, Passes, Cleans, Resumes
    <2>4. CASE Repairing
      <3>1. CASE RecordRolledBack
        BY <1>2, <3>1, Stops
      <3> QED
        BY <1>2, <2>4, <3>1, FlowOfRecovery DEF Repairing, Passes
    <2>5. CASE Aside
      BY <2>5, AsideEffect
    <2> QED
      BY <1>2, <2>1, <2>2, <2>3, <2>4, <2>5, Ways
  <1> QED
    BY <1>1, <1>2

\* While the service is not up there is one actor, and it stays down until recovered.
LEMMA WhereRestarting ==
  ASSUME Inv, [Next]_vars, ~ Crash, ~ RecoveryDone
  PROVE  Restarting' <=> Restarting
  <1>1. booting => Recovering
    BY Typed DEF ControlOK
  <1>2. booting \in BOOLEAN /\ (pc \in {"down", "refused"} => ~ Recovering)
    BY DEF Inv, TypeOK, Recovering, RecoveryLocations
  <1>3. CASE booting' = booting /\ (pc' \in {"down", "refused"} <=> pc \in {"down", "refused"})
    BY <1>3 DEF Restarting
  <1>4. CASE pc = "down" /\ booting' = TRUE /\ pc' = "scan"
    BY <1>4 DEF Restarting
  <1>5. CASE Stopped
    BY <1>1, <1>2, <1>5 DEF Restarting, Stopped
  <1>6. CASE /\ Fail /\ pc \notin {"down", "refused"} /\ booting' = FALSE
             /\ pc' = IF booting THEN "down" ELSE "idle"
    BY <1>2, <1>6 DEF Restarting
  <1> QED
    BY <1>3, <1>4, <1>5, <1>6, Starting

-----------------------------------------------------------------------------
(* Transactions that have started *)

\* A transaction keeps its kind, paths and operation.
LEMMA StartedKept ==
  ASSUME Inv, [Next]_vars, NEW id \in Ids, Started(id)
  PROVE  info'[id] = info[id] /\ Started(id)' /\ (Tracked(id)' <=> Tracked(id))
  <1>1. CASE UNCHANGED info
    BY <1>1 DEF Started, Tracked
  <1>2. ASSUME NEW j \in Ids, NEW i, Starts(j, i)
        PROVE  info'[id] = info[id]
    BY <1>2 DEF Starts, Started
  <1> QED
    BY <1>1, <1>2, InfoSteps, StageStarts, TransferStarts DEF Started, Tracked

\* A transaction that has not started has left no trace.
LEMMA Unstarted ==
  ASSUME Inv, NEW id \in Ids, ~ Started(id)
  PROVE  /\ \A c \in crash : id \notin c.img.seen
         /\ id \notin disk.seen /\ id \notin disk.trash /\ disk.journal[id] = Void
         /\ owner[id] = "unused" /\ ~ Waiting(id) /\ ~ Active(id) /\ ~ Live(id)
  <1>1. \A c \in crash : id \notin c.img.seen
    BY DEF Inv, CrashOK, ImageOK, StartedOK
  <1>2. id \notin disk.seen /\ id \notin disk.trash /\ disk.journal[id] = Void
    BY DiskOK DEF ImageOK, StartedOK
  <1>3. owner[id] = "unused"
    BY Typed DEF InfoOK
  <1>4. ~ (cur = id /\ At(CommitLocations))
    BY Publisher
  <1>5. At(PreLocations) => At(CommitLocations)
    BY DEF At, PreLocations, CommitLocations
  <1> QED
    BY <1>1, <1>2, <1>3, <1>4, <1>5 DEF Waiting, Active, Live

-----------------------------------------------------------------------------
(* Control *)

\* Starting up is a recovery.
LEMMA BootingNext ==
  ASSUME Inv, [Next]_vars
  PROVE  booting' => Recovering'
  <1>1. booting => Recovering
    BY Typed DEF ControlOK
  <1>2. pc' = "scan" => Recovering'
    BY DEF Recovering, RecoveryLocations
  <1>3. Crash => booting' = FALSE
    BY DEF Crash
  <1> QED
    BY <1>1, <1>2, <1>3, Starting, WhereBooting DEF Stopped

\* No writer is left while a recovery runs (recover_quiesced_uploads).
LEMMA QuiescedNext ==
  ASSUME Inv, [Next]_vars, Recovering' \/ pc' \in {"down", "refused"}, NEW id \in Ids
  PROVE  owner'[id] # "writer"
  <1>1. CASE Crash
    BY <1>1 DEF Crash
  <1>2. CASE ~ Crash
    <2>1. Recovering \/ pc \in {"down", "refused"} \/ RecoverOnline
      <3>1. CASE Recovering'
        <4>1. Boot => pc = "down"
          BY DEF Boot
        <4> QED
          BY <3>1, <4>1, WhereRecovering
      <3>2. CASE pc' \in {"down", "refused"}
        <4>1. booting => Recovering
          BY Typed DEF ControlOK
        <4> QED
          BY <1>2, <3>2, <4>1, Starting DEF Stopped
      <3> QED
        BY <3>1, <3>2
    <2>2. owner[id] # "writer"
      BY <2>1, Typed DEF ControlOK, RecoverOnline
    <2>3. UNCHANGED info
      <3>1. ASSUME NEW j, NEW kind, NEW p, NEW op, Stage(j, kind, p, op)
            PROVE  UNCHANGED info
        <4>1. Online
          BY <3>1 DEF Stage
        <4>2. RecoverOnline
          BY <2>1, <4>1 DEF Online
        <4> QED
          BY <4>2 DEF RecoverOnline
      <3>2. ASSUME NEW j, NEW kind, NEW s, NEW p, Transfer(j, kind, s, p)
            PROVE  UNCHANGED info
        <4>1. pc = "idle"
          BY <3>2 DEF Transfer
        <4>2. RecoverOnline
          BY <2>1, <4>1 DEF Recovering, RecoveryLocations
        <4> QED
          BY <4>2 DEF RecoverOnline
      <3> QED
        BY <3>1, <3>2, InfoSteps
    <2> QED
      BY <2>2, <2>3, OwnerNext, VoidAssumption DEF Starts
  <1> QED
    BY <1>1, <1>2

\* Where the subroutines return to.
LEMMA CallersNext ==
  ASSUME Inv, [Next]_vars
  PROVE  /\ pc' \in {"settle", "settled"} =>
              ret' \in {"admit", "copy", "own", "direct", "d_debt", "scan", "receipt"}
         /\ pc' \in {"b_debt", "b_bin"} => ret' \in {"unanchor", "rec_staging"}
  <1>1. ASSUME pc' \in {"settle", "settled"}
        PROVE  ret' \in {"admit", "copy", "own", "direct", "d_debt", "scan", "receipt"}
    <2>1. CASE Aside
      BY <1>1, <2>1, AsideEffect, Typed DEF ControlOK
    <2>2. CASE Settle
      BY <2>2, FlowOfEntries, Typed DEF ControlOK, Passes
    <2>3. CASE PublishRename
      BY <2>3, FlowOfRollback
    <2> QED
      BY <1>1, <2>1, <2>2, <2>3, WhereSettling
  <1>2. ASSUME pc' \in {"b_debt", "b_bin"}
        PROVE  ret' \in {"unanchor", "rec_staging"}
    <2>1. CASE Aside
      BY <1>2, <2>1, AsideEffect, Typed DEF ControlOK
    <2>2. CASE BackupDebt
      BY <2>2, FlowOfDeletion, Typed DEF ControlOK, Passes
    <2> QED
      BY <1>2, <2>1, <2>2, WhereBackup
  <1> QED
    BY <1>1, <1>2

\* Who publishes is a started transaction, and the direct ways are not an upload's.
LEMMA PublisherNext ==
  ASSUME Inv, [Next]_vars
  PROVE  /\ At(CommitLocations)' => cur' \in Ids /\ info'[cur'] # Void
         /\ (At({"copy", "direct", "direct_done"}) \/ (pc \in {"settle", "settled"} /\ ret = "own"))'
              => info'[cur'].kind # "new"
  <1>1. ASSUME NEW id \in Ids, NEW kind \in AllKinds, NEW s \in Paths \cup {Void},
               NEW p \in Paths, Transfer(id, kind, s, p)
        PROVE  cur' = id /\ info'[cur'] # Void /\ info'[cur'].kind # "new"
    <2> DEFINE i == [kind |-> kind, path |-> p, src |-> s, op |-> Void]
    <2>1. cur' = id
      BY <1>1 DEF Transfer
    <2>2. Starts(id, i) /\ kind # "new"
      BY <1>1, TransferStarts
    <2>3. i \in Info /\ info'[id] = i
      BY <2>2 DEF Starts
    <2> HIDE DEF i
    <2>4. i.kind # "new"
      BY <2>2 DEF i
    <2> QED
      BY <2>1, <2>3, <2>4, VoidAssumption
  <1>2. ASSUME At(CommitLocations)'
        PROVE  cur' \in Ids /\ info'[cur'] # Void
    <2>1. CASE At(CommitLocations) /\ cur' = cur
      <3>1. cur \in Ids /\ Started(cur)
        BY <2>1, Publisher
      <3>2. info'[cur] = info[cur]
        BY <3>1, StartedKept
      <3> QED
        BY <2>1, <3>1, <3>2 DEF Started
    <2>2. ASSUME NEW id \in Ids, Commit(id)
          PROVE  cur' \in Ids /\ info'[cur'] # Void
      <3>1. cur' = id /\ owner[id] = "writer" /\ info' = info
        BY <2>2 DEF Commit
      <3>2. info[id] # Void
        BY <3>1, Typed DEF InfoOK, Started
      <3> QED
        BY <3>1, <3>2
    <2> QED
      BY <1>1, <1>2, <2>1, <2>2, WhereCommit
  <1>3. ASSUME (At({"copy", "direct", "direct_done"}) \/ (pc \in {"settle", "settled"} /\ ret = "own"))'
        PROVE  info'[cur'].kind # "new"
    <2>1. CASE /\ At({"copy", "direct", "direct_done"}) \/ (pc \in {"settle", "settled"} /\ ret = "own")
               /\ cur' = cur
      <3>1. At(CommitLocations)
        BY <2>1 DEF At, CommitLocations
      <3>2. cur \in Ids /\ Started(cur) /\ ~ Tracked(cur)
        BY <2>1, <3>1, Publisher, Typed DEF ControlOK
      <3>3. info'[cur] = info[cur]
        BY <3>2, StartedKept
      <3> QED
        BY <2>1, <3>2, <3>3 DEF Tracked
    <2> QED
      BY <1>1, <1>3, <2>1, WhereDirect
  <1> QED
    BY <1>2, <1>3

\* A tree that leaves a backup is recorded before it moves.
LEMMA BackupNext ==
  ASSUME Inv, [Next]_vars
  PROVE  /\ pc' \in {"b_debt", "b_bin"} => disk'.backup[cur'] \in Contents
         /\ pc' = "b_bin" => disk'.backup[cur'] \in disk'.debt
  <1>1. CASE Aside
    BY <1>1, AsideEffect, Typed DEF ControlOK, SameTree, SameBin
  <1>2. CASE BackupDebt /\ cur' = cur
    BY <1>2, DebtEffect DEF OnlyBin, SameTree
  <1>3. CASE /\ pc' = "b_debt" /\ disk.backup[cur'] \in Trees /\ Kept
    BY <1>3, ConstantsAssumption DEF Kept, SameTree
  <1> QED
    BY <1>1, <1>2, <1>3, WhereBackup

\* What a deletion moves is recorded before it moves.
LEMMA DeleteNext ==
  ASSUME Inv, [Next]_vars
  PROVE  /\ At({"d_debt", "d_bin"})' => cur' \in Paths /\ disk'.dest[cur'] # Void
         /\ pc' = "d_done" => cur' \in Paths
         /\ pc' = "d_bin" => disk'.dest[cur'] \in disk'.debt
         /\ pc' \in {"w_trash", "w_debt"} => cur' \in Contents
         /\ pc' = "w_debt" => cur' \notin disk'.trash
         /\ pc' = "sweep" => cur' \in Contents \cup {Void}
  <1>1. CASE Aside
    BY <1>1, AsideEffect, Typed DEF ControlOK, SameTree, SameBin, At
  <1>2. CASE DeleteDebt /\ cur' = cur
    <2>1. /\ pc = "d_debt" /\ pc' = "d_bin"
      BY <1>2 DEF DeleteDebt, Goto
    <2>2. cur \in Paths /\ disk.dest[cur] # Void
      BY <2>1, Typed DEF ControlOK, At
    <2> QED
      BY <1>2, <2>1, <2>2, DebtEffect DEF OnlyBin, SameTree
  <1>3. ASSUME ~ Aside, ~ DeleteDebt, At({"d_debt", "d_bin"})'
        PROVE  cur' \in Paths /\ disk'.dest[cur'] # Void
    <2>1. ASSUME NEW p \in Paths, Delete(p)
          PROVE  cur' \in Paths /\ disk'.dest[cur'] # Void
      BY <2>1 DEF Delete, fs
    <2>2. CASE (Settle \/ Settled) /\ At({"d_debt", "d_bin"}) /\ cur' = cur
      <3>1. Settled => SameTree
        BY QuietEffect DEF Quiet, Kept
      <3>2. Settle => SameTree
        BY SettleEffect DEF OnlyJournal
      <3> QED
        BY <2>2, <3>1, <3>2, Typed DEF ControlOK, SameTree
    <2> QED
      BY <1>3, <2>1, <2>2, WhereDelete
  <1>4. ASSUME ~ Aside, ~ DeleteDebt
        PROVE  /\ pc' = "d_done" => cur' \in Paths
               /\ pc' = "d_bin" => disk'.dest[cur'] \in disk'.debt
               /\ pc' \in {"w_trash", "w_debt"} => cur' \in Contents
               /\ pc' = "w_debt" => cur' \notin disk'.trash
               /\ pc' = "sweep" => cur' \in Contents \cup {Void}
    <2>1. ASSUME pc' = "d_done"
          PROVE  cur' \in Paths
      BY <1>4, <2>1, WhereDeleted, DeleteToTrashEffect
    <2>2. pc' # "d_bin"
      BY <1>4, WhereDeleted
    <2>3. ASSUME pc' = "w_trash"
          PROVE  cur' \in Contents
      BY <1>4, <2>3, WhereDeleted, FlowOfEntries
    <2>4. ASSUME pc' = "w_debt"
          PROVE  cur' \in Contents /\ cur' \notin disk'.trash
      <3>1. CleanupTrash /\ cur' = cur
        BY <1>4, <2>4, WhereDeleted
      <3>2. pc = "w_trash"
        BY <3>1, FlowOfDeletion DEF Passes
      <3> QED
        BY <3>1, <3>2, DebtEffect, Typed DEF ControlOK, OnlyBin
    <2>5. ASSUME pc' = "sweep"
          PROVE  cur' \in Contents \cup {Void}
      BY <1>4, <2>5, WhereDeleted, Typed DEF ControlOK
    <2> QED
      BY <2>1, <2>2, <2>3, <2>4, <2>5
  <1>5. CASE DeleteDebt
    <2>1. DeleteDebt => cur' = cur
      BY DEF DeleteDebt
    <2> QED
      BY <1>2, <1>5, <2>1
  <1> QED
    BY <1>1, <1>3, <1>4, <1>5

\* The control invariant is inductive.
LEMMA ControlNext ==
  ASSUME Inv, [Next]_vars
  PROVE  ControlOK'
  <1>1. Recovering' \/ pc' \in {"down", "refused"} => \A id \in Ids : owner'[id] # "writer"
    BY QuiescedNext
  <1>2. /\ At(CommitLocations)' => cur' \in Ids /\ Started(cur)'
        /\ (At({"copy", "direct", "direct_done"}) \/ (pc \in {"settle", "settled"} /\ ret = "own"))'
             => ~ Tracked(cur)'
    BY PublisherNext DEF Started, Tracked
  <1> QED
    BY <1>1, <1>2, BootingNext, CallersNext, BackupNext, DeleteNext DEF ControlOK
-----------------------------------------------------------------------------
(* Recovery *)

\* The journals left to judge have been read (read_recovery_inventory).
Inventoried == \/ pc \in RecoveryLocations \ {"scan"}
               \/ pc \in {"b_debt", "b_bin"} /\ ret = "rec_staging"

\* Judging and retiring are the only steps that change what is left to judge.
LEMMA TodoNext ==
  ASSUME Inv, [Next]_vars, Inventoried', ~ Scan
  PROVE  todo'.journals = IF RecoverRetire THEN todo.journals \ {cur} ELSE todo.journals
  <1> USE DEF Inventoried, RecoveryLocations
  <1>1. todo \in [journals : SUBSET Ids, uploads : SUBSET Ids, anchors : SUBSET Ids,
                  copies : SUBSET Ids, trash : SUBSET Contents, debt : SUBSET Contents]
    BY DEF Inv, TypeOK
  <1>2. CASE RecoverRetire
    BY <1>1, <1>2 DEF RecoverRetire
  <1>3. ASSUME ~ RecoverRetire
        PROVE  todo'.journals = todo.journals
    <2>1. ASSUME NEW id \in Ids, Judge(id)
          PROVE  todo' = todo
      BY <2>1 DEF Judge, Stop, Goto, rec
    <2>2. CASE RecordCommitted \/ RecordRolledBack
      BY <2>2 DEF RecordCommitted, RecordRolledBack, RecordOutcome, Stop, Goto, rec
    <2>3. ASSUME NEW id \in Ids, SweepUpload(id) \/ SweepAnchor(id) \/ SweepCopy(id)
          PROVE  todo'.journals = todo.journals
      BY <1>1, <2>3 DEF SweepUpload, SweepAnchor, SweepCopy
    <2>4. ASSUME NEW c \in Contents, SweepTrash(c) \/ SweepDebt(c)
          PROVE  todo'.journals = todo.journals
      BY <1>1, <2>4 DEF SweepTrash, SweepDebt
    <2>5. CASE Fail
      BY <2>5, FailGoes
    <2>6. CASE Crash
      BY <2>6 DEF Crash
    <2> QED
      BY <1>3, <2>1, <2>2, <2>3, <2>4, <2>5, <2>6, TodoSteps
  <1> QED
    BY <1>2, <1>3

\* During recovery a journal is only retired.
LEMMA RecoveredJournals ==
  ASSUME Inv, [Next]_vars, Inventoried, ~ Crash
  PROVE  IF RecoverRetire THEN OnlyJournal(cur, Void) /\ cur \in Ids ELSE disk'.journal = disk.journal
  <1>1. ~ Settle /\ ~ WriteJournal /\ ~ UndoJournal /\ ~ Retire
    BY FlowOfEntries, FlowOfRollback DEF Passes, Inventoried, RecoveryLocations
  <1> QED
    BY <1>1, JournalSteps, RetireEffect

\* What is left to judge are the journals on disk.
LEMMA InventoryNext ==
  ASSUME Inv, [Next]_vars, Inventoried'
  PROVE  todo'.journals = {id \in Ids : disk'.journal[id] # Void}
  <1>1. CASE Scan
    <2>1. todo' = Inventory(disk) /\ disk' = disk
      BY <1>1 DEF Scan, Stop, Inventoried, RecoveryLocations, fs
    <2> QED
      BY <2>1 DEF Inventory
  <1>2. CASE ~ Scan
    <2>1. Inventoried /\ ~ Crash
      BY <1>2, WhereInventoried DEF Inventoried, Crash, RecoveryLocations
    <2>2. todo.journals = {id \in Ids : disk.journal[id] # Void}
      BY <2>1 DEF Inv, RecoveryOK, Inventoried
    <2>3. disk.journal \in [Ids -> Journal \cup {Void}]
      BY Typed, ImageFields
    <2>4. CASE RecoverRetire
      <3>1. /\ todo'.journals = todo.journals \ {cur}
            /\ disk'.journal = [disk.journal EXCEPT ![cur] = Void] /\ cur \in Ids
        BY <1>2, <2>1, <2>4, TodoNext, RecoveredJournals DEF OnlyJournal
      <3> QED
        BY <2>2, <2>3, <3>1
    <2>5. CASE ~ RecoverRetire
      BY <1>2, <2>1, <2>2, <2>5, TodoNext, RecoveredJournals
    <2> QED
      BY <2>4, <2>5
  <1> QED
    BY <1>1, <1>2

\* The journal in judgement is still there.
LEMMA SubjectNext ==
  ASSUME Inv, [Next]_vars, At(JudgedLocations \cup {"rec_retire"})'
  PROVE  cur' \in todo'.journals
  <1>1. Inventoried' /\ pc' # "rec" /\ pc' \notin {"idle", "refused"}
    BY CallersNext DEF Inventoried, At, JudgedLocations, RecoveryLocations
  <1>2. ~ RecoverRetire
    BY <1>1, FlowOfRecovery DEF Passes
  <1>3. CASE At(JudgedLocations \cup {"rec_retire"}) /\ cur' = cur
    <2>1. ~ Scan
      BY <1>3, FlowOfDeletion DEF Passes, At, JudgedLocations
    <2>2. cur \in todo.journals
      BY <1>3 DEF Inv, RecoveryOK
    <2> QED
      BY <1>1, <1>2, <1>3, <2>1, <2>2, TodoNext
  <1>4. ASSUME NEW j \in Ids, Judge(j)
        PROVE  cur' \in todo'.journals
    <2>1. ~ Scan
      BY <1>4, FlowOfDeletion DEF Passes
    <2>2. cur' = j /\ j \in todo.journals
      BY <1>4 DEF Judge
    <2> QED
      BY <1>1, <1>2, <2>1, <2>2, TodoNext
  <1> QED
    BY <1>3, <1>4, WhereJudged

\* The evidence of a tracked upload never misleads: a publication leaves the file at its
\* destination until the journal is settled, and takes it out of the staging directory
\* (recover_replacement).
LEMMA EvidenceIsTrue ==
  ASSUME Inv, NEW j \in Ids, Tracked(j), disk.journal[j] # Void
  PROVE  /\ Evidence(disk, j) = "committed" => j \in disk.seen
         /\ Evidence(disk, j) = "rolled_back" => j \notin disk.seen
  <1>1. Started(j) /\ MarkOK(disk) /\ PlaceOK(disk) /\ StartedOK(disk)
    BY DiskOK DEF ImageOK, StartedOK
  <1>2. info[j].path \in Paths /\ info[j].kind = "new"
    BY <1>1, StartedFields DEF Tracked
  <1>3. ASSUME Evidence(disk, j) = "committed"
        PROVE  j \in disk.seen
    <2>1. CASE disk.journal[j].published
      BY <1>1, <2>1 DEF MarkOK
    <2>2. CASE AnchoredPublication(disk, j)
      BY <1>1, <1>2, <2>2 DEF AnchoredPublication, StartedOK
    <2> QED
      BY <1>3, <2>1, <2>2 DEF Evidence
  <1>4. ASSUME Evidence(disk, j) = "rolled_back", j \in disk.seen
        PROVE  FALSE
    <2>1. ~ disk.journal[j].published /\ (DestExists(disk, j) => SourceExists(disk, j))
      BY <1>4 DEF Evidence
    <2>2. disk.dest[info[j].path] = j
      BY <1>1, <1>4, <2>1 DEF PlaceOK, Unpublished
    <2>3. DestExists(disk, j)
      BY <2>1, <2>2, ConstantsAssumption DEF DestExists, Contents
    <2>4. j \in disk.upload
      BY <1>2, <2>1, <2>3 DEF SourceExists
    <2> QED
      BY <1>1, <1>4, <2>4 DEF StartedOK
  <1> QED
    BY <1>3, <1>4

\* The verdict on a tracked upload stays true until its journal is retired.
LEMMA VerdictNext ==
  ASSUME Inv, [Next]_vars, At(JudgedLocations)', Tracked(cur)'
  PROVE  /\ verdict' = "committed" => cur' \in disk'.seen
         /\ verdict' = "rolled_back" => cur' \notin disk'.seen
  <1>1. At(JudgedLocations \cup {"rec_retire"})'
    BY DEF At
  <1>2. CASE At(JudgedLocations) /\ cur' = cur
    <2>1. ~ Crash /\ ~ PublishRename /\ ~ DirectChange /\ \A id \in Ids : ~ Judge(id)
      BY <1>1, <1>2, FlowOfDeletion, FlowOfRollback DEF Passes, At, JudgedLocations, Crash
    <2>2. verdict' = verdict /\ disk'.seen = disk.seen
      BY <2>1, VerdictSteps, SeenSteps
    <2>3. cur \in Ids /\ Started(cur)
      BY <1>2, Recovered DEF At
    <2>4. Tracked(cur)
      BY <1>2, <2>3, StartedKept DEF Tracked
    <2> QED
      BY <1>2, <2>2, <2>4 DEF Inv, RecoveryOK
  <1>3. ASSUME NEW j \in Ids, Judge(j)
        PROVE  /\ verdict' = "committed" => cur' \in disk'.seen
               /\ verdict' = "rolled_back" => cur' \notin disk'.seen
    <2>1. cur' = j /\ j \in todo.journals /\ pc = "rec" /\ UNCHANGED info /\ Sync
      BY <1>3 DEF Judge
    <2>2. pc' \notin {"rec_retire", "idle", "refused"}
      BY <1>1, CallersNext DEF At, JudgedLocations
    <2>3. verdict' = Evidence(disk, j)
      BY <1>3, <2>2 DEF Judge, Stop, Goto
    <2>4. disk.journal[j] # Void
      BY <2>1 DEF Inv, RecoveryOK, RecoveryLocations
    <2>5. disk' = disk
      BY <2>1 DEF Sync, Write
    <2>6. Tracked(j)
      BY <2>1 DEF Tracked
    <2> QED
      BY <2>1, <2>3, <2>4, <2>5, <2>6, EvidenceIsTrue
  <1> QED
    BY <1>1, <1>2, <1>3, WhereJudged

\* The recovery invariant is inductive.
LEMMA RecoveryNext ==
  ASSUME Inv, [Next]_vars
  PROVE  RecoveryOK'
  <1>1. ASSUME pc' = "sweep"
        PROVE  todo'.journals = {}
    <2>1. Inventoried' /\ ~ Scan /\ ~ RecoverRetire
      BY <1>1, FlowOfDeletion, FlowOfRecovery DEF Inventoried, RecoveryLocations, Passes
    <2>2. todo.journals = {}
      BY <1>1, WhereSweep DEF Inv, RecoveryOK, JournalsDone
    <2> QED
      BY <2>1, <2>2, TodoNext
  <1> QED
    BY <1>1, InventoryNext, SubjectNext, VerdictNext DEF RecoveryOK, Inventoried

-----------------------------------------------------------------------------
(* The pending publication *)

\* Whoever enters the gate while a publication is pending settles it first.
LEMMA WherePending ==
  ASSUME Inv, [Next]_vars, ~ Crash, ~ Settled, pending # Void
  PROVE  /\ pc \in {"idle", "settle", "settled", "w_trash", "w_debt", "w_done", "prune"}
         /\ pc' \in {"idle", "settle", "settled", "w_trash", "w_debt", "w_done", "prune"}
         /\ ~ Restarting /\ ~ Restarting'
  <1>1. pc \in {"idle", "settle", "settled", "w_trash", "w_debt", "w_done", "prune"}
        /\ ~ Restarting
    BY DEF Inv, PendingOK
  <1>2. pc' \in {"idle", "settle", "settled", "w_trash", "w_debt", "w_done", "prune"}
    <2>1. CASE Entry
      BY <1>1, <2>1, FlowOfEntries DEF Entry, Enters, Passes
    <2>2. CASE Publishing
      BY <1>1, <2>2, FlowOfRollback DEF Publishing, Passes, Cleans
    <2>3. CASE Deleting
      BY <1>1, <2>3, FlowOfDeletion DEF Deleting, Passes, Cleans, Resumes, Restarting
    <2>4. CASE Repairing
      BY <1>1, <2>4, FlowOfRecovery DEF Repairing, Passes
    <2>5. CASE Aside
      BY <1>1, <2>5, AsideEffect
    <2>6. CASE Fail
      BY <1>1, <2>6, FailGoes DEF Restarting
    <2> QED
      BY <2>1, <2>2, <2>3, <2>4, <2>5, <2>6, Ways
  <1>3. ~ RecoveryDone
    BY <1>1, FlowOfRecovery DEF Passes
  <1> QED
    BY <1>1, <1>2, <1>3, WhereRestarting

\* The gate is settling because something is pending.
LEMMA SettlingNext ==
  ASSUME Inv, [Next]_vars, pc' \in {"settle", "settled"}
  PROVE  /\ pending' # Void /\ pending' \in Ids
         /\ ret' = "receipt" => pending' = cur'
  <1>1. CASE Aside
    BY <1>1, AsideEffect, Typed DEF Inv, PendingOK
  <1>2. CASE Settle
    <2>1. UNCHANGED <<ret, cur, pending>> /\ pc = "settle"
      BY <1>2 DEF Settle
    <2> QED
      BY <2>1, Typed DEF Inv, PendingOK
  <1>3. CASE PublishRename
    <2>1. pending' = cur /\ cur' = cur /\ pc = "publish"
      BY <1>3 DEF PublishRename
    <2>2. cur \in Ids
      BY <2>1, Publisher DEF At, CommitLocations
    <2> QED
      BY <2>1, <2>2, ConstantsAssumption DEF Contents
  <1>4. ASSUME pending # Void, ret' \in {"admit", "copy", "own", "direct", "d_debt", "scan"},
               ~ PublishRename
        PROVE  pending' # Void /\ pending' \in Ids /\ (ret' = "receipt" => pending' = cur')
    <2>1. ~ Settled
      BY FlowOfEntries DEF Resumes
    <2>2. ~ Crash
      BY DEF Crash
    <2> QED
      BY <1>4, <2>1, <2>2, PendingSteps, Typed
  <1> QED
    BY <1>1, <1>2, <1>3, <1>4, WhereSettling

\* The settled mark is in the journal, and only its directory is still to sync.
LEMMA SettledNext ==
  ASSUME Inv, [Next]_vars, pc' = "settled"
  PROVE  /\ \A c \in crash' : pending' \in c.img.seen \/ "journals" \in c.later
         /\ dirty' = {"journals"} /\ disk'.journal[pending'].published
  <1>1. CASE Aside
    <2>1. /\ pc = "settled" /\ pending' = pending /\ FsStep /\ dirty' = dirty
          /\ disk'.seen = disk.seen /\ disk'.journal = disk.journal
      BY <1>1, AsideEffect DEF SameClaims
    <2>2. /\ \A c \in crash : pending \in c.img.seen \/ "journals" \in c.later
          /\ dirty = {"journals"} /\ disk.journal[pending].published /\ pending \in disk.seen
      BY <2>1 DEF Inv, PendingOK
    <2> QED
      BY <2>1, <2>2 DEF FsStep
  <1>2. CASE Settle
    <2> DEFINE new == [disk EXCEPT !.journal[pending].published = TRUE]
    <2>1. pending' = pending /\ pc = "settle" /\ Write(new, {"journals"}, {"journals"})
      BY <1>2 DEF Settle
    <2>2. pending \in disk.seen
      BY <2>1 DEF Inv, PendingOK
    <2>3. /\ disk.journal[pending] \in Journal /\ pending \in Ids
          /\ OnlyJournal(pending, [disk.journal[pending] EXCEPT !.published = TRUE])
      BY <1>2, SettleEffect
    <2>4. disk'.journal[pending].published /\ disk'.seen = disk.seen
      <3>1. disk.journal \in [Ids -> Journal \cup {Void}]
        BY Typed, ImageFields
      <3>2. disk'.journal[pending] = [disk.journal[pending] EXCEPT !.published = TRUE]
        BY <2>3, <3>1 DEF OnlyJournal
      <3>3. [disk.journal[pending] EXCEPT !.published = TRUE].published
        BY <2>3 DEF Journal
      <3> QED
        BY <2>3, <3>2, <3>3 DEF OnlyJournal
    <2>5. disk' = new /\ dirty' = {"journals"}
      BY <2>1 DEF Write
    <2> HIDE DEF new
    <2>6. ASSUME NEW c \in crash'
          PROVE  c.img = disk' \/ "journals" \in c.later
      BY <2>1, <2>5 DEF Write
    <2> QED
      BY <2>1, <2>2, <2>4, <2>5, <2>6
  <1> QED
    BY <1>1, <1>2, WhereSettled

\* What is pending stays so until it is settled.
LEMMA PendingKept ==
  ASSUME Inv, [Next]_vars, ~ Crash, ~ Settled, ~ PublishRename, pending # Void
  PROVE  /\ pending' = pending /\ Started(pending)' /\ disk'.journal[pending] # Void
         /\ pending \in disk'.seen
         /\ Tracked(pending)' => disk'.receipt[info'[pending].op] # "committed"
  <1>1. /\ pending \in Ids /\ Started(pending) /\ disk.journal[pending] # Void
        /\ pending \in disk.seen
        /\ Tracked(pending) => disk.receipt[info[pending].op] # "committed"
    BY Typed DEF Inv, PendingOK
  <1>2. pending' = pending
    BY PendingSteps
  <1>3. pc \in {"idle", "settle", "settled", "w_trash", "w_debt", "w_done", "prune"}
    BY WherePending
  <1>4. info'[pending] = info[pending] /\ (Tracked(pending)' <=> Tracked(pending)) /\ Started(pending)'
    BY <1>1, <1>2, StartedKept DEF Tracked, Started
  <1>5. disk'.journal[pending] # Void
    <2>1. CASE Settle
      <3>1. disk.journal \in [Ids -> Journal \cup {Void}]
        BY Typed, ImageFields
      <3>2. disk'.journal[pending] \in Journal
        BY <2>1, <3>1, SettleEffect DEF OnlyJournal
      <3> QED
        BY <3>2, VoidAssumption
    <2>2. ~ WriteJournal /\ ~ UndoJournal /\ ~ Retire /\ ~ RecoverRetire
      BY <1>3, FlowOfRollback, FlowOfRecovery DEF Passes
    <2> QED
      BY <1>1, <2>1, <2>2, JournalSteps
  <1>6. pending \in disk'.seen
    BY <1>1, ImagesNext
  <1>7. ASSUME Tracked(pending)
        PROVE  disk'.receipt[info[pending].op] # "committed"
    <2>1. ~ Admit /\ ~ WriteReceipt /\ ~ RecordCommitted /\ ~ RecordRolledBack
      BY <1>3, FlowOfEntries, FlowOfRollback, FlowOfDeletion, FlowOfRecovery DEF Passes
    <2>2. disk.receipt \in [Ops -> Receipts]
      BY Typed, ImageFields
    <2>3. ASSUME NEW op \in Ops, Prune(op)
          PROVE  disk'.receipt[info[pending].op] # "committed"
      <3>1. info[pending].op \in Ops
        BY <1>1, <1>7, StartedFields
      <3> QED
        BY <1>1, <1>7, <2>2, <2>3, <3>1, PruneEffect DEF Kept, SameClaims, OnlyReceipt
    <2> QED
      BY <1>1, <1>7, <2>1, <2>3, ReceiptSteps
  <1> QED
    BY <1>1, <1>2, <1>4, <1>5, <1>6, <1>7

\* The publishing rename makes a publication pending.
LEMMA PendingBegins ==
  ASSUME Inv, PublishRename
  PROVE  /\ pending' = cur /\ cur' = cur /\ cur \in Ids /\ Started(cur)' /\ disk'.journal[cur] # Void
         /\ cur \in disk'.seen /\ pc' = "settle" /\ ~ Restarting'
         /\ Tracked(cur)' => disk'.receipt[info'[cur].op] # "committed"
  <1>1. /\ pc = "publish" /\ pc' = "settle" /\ pending' = cur /\ cur' = cur
        /\ UNCHANGED <<info, booting>>
    BY DEF PublishRename, rec
  <1>2. /\ cur \in Ids /\ Started(cur) /\ cur \notin disk.seen
        /\ Tracked(cur) => NoneSeen(disk, info[cur].op) /\ info[cur].op \in Ops
    BY <1>1, Unseen DEF PreLocations
  <1>3. disk.journal[cur] # Void
    BY <1>1 DEF Inv, PublisherOK
  <1>4. /\ disk'.journal = disk.journal /\ disk'.receipt = disk.receipt
        /\ disk'.seen = disk.seen \cup {cur}
    BY PublishRenameEffect
  <1>5. Tracked(cur) => disk.receipt[info[cur].op] # "committed"
    BY <1>2, DiskOK DEF ImageOK, ReceiptOK, SomeSeen, NoneSeen
  <1>6. ~ Restarting'
    <2>1. ~ Restarting
      BY <1>1, InTheGate DEF CommitLocations
    <2> QED
      BY <1>1, <2>1 DEF Restarting
  <1> QED
    BY <1>1, <1>2, <1>3, <1>4, <1>5, <1>6 DEF Started, Tracked

\* The pending publication is inductive.
LEMMA PendingNext ==
  ASSUME Inv, [Next]_vars
  PROVE  PendingOK'
  <1>1. ASSUME pending' # Void
        PROVE  /\ Started(pending)' /\ disk'.journal[pending'] # Void /\ pending' \in disk'.seen
               /\ Tracked(pending)' => disk'.receipt[info'[pending'].op] # "committed"
               /\ pc' \in {"idle", "settle", "settled", "w_trash", "w_debt", "w_done", "prune"}
               /\ ~ Restarting'
    <2>1. ~ Crash /\ ~ Settled
      BY <1>1 DEF Crash, Settled
    <2>2. CASE PublishRename
      BY <2>2, PendingBegins DEF Started, Tracked
    <2>3. CASE ~ PublishRename
      <3>1. pending # Void
        BY <1>1, <2>1, <2>3, PendingSteps
      <3> QED
        BY <2>1, <2>3, <3>1, PendingKept, WherePending DEF Started, Tracked
    <2> QED
      BY <2>2, <2>3
  <1> QED
    BY <1>1, SettlingNext, SettledNext DEF PendingOK

\* A publication of a ticket item whose journal is not settled is pending.
LEMMA UnsettledNext ==
  ASSUME Inv, [Next]_vars, ~ Restarting', NEW id \in disk'.seen, Tracked(id)',
         Unpublished(disk, id)'
  PROVE  pending' = id
  <1>1. ~ Crash
    BY DEF Crash, Restarting
  <1>2. disk'.journal[id] # Void /\ ~ disk'.journal[id].published
    BY DEF Unpublished
  <1>3. id \in Ids
    BY ImagesNext, ImageFields DEF FsTypeOK
  <1>4. ~ RecoveryDone
    <2>1. ASSUME RecoveryDone
          PROVE  disk'.journal[id] = Void
      <3>1. pc = "sweep" /\ Sync
        BY <2>1 DEF RecoveryDone
      <3>2. disk' = disk
        BY <3>1 DEF Sync, Write
      <3>3. disk.journal[id] = Void
        BY <1>3, <3>1 DEF Inv, RecoveryOK, RecoveryLocations
      <3> QED
        BY <3>2, <3>3
    <2> QED
      BY <1>2, <2>1
  <1>5. ~ Restarting
    BY <1>1, <1>4, WhereRestarting
  <1>6. CASE PublishRename \/ DirectChange
    <2>1. pc \in {"publish", "direct"}
      BY <1>6 DEF PublishRename, DirectChange
    <2>2. pending = Void
      BY <2>1, InTheGate DEF CommitLocations
    <2>3. disk'.journal = disk.journal /\ disk'.seen = disk.seen \cup {cur} /\ UNCHANGED info
      BY <1>6, PublishRenameEffect DEF PublishRename, DirectChange
    <2>4. id \notin disk.seen
      BY <1>2, <1>5, <2>2, <2>3, AllSettled DEF Tracked, Unpublished
    <2>5. id = cur /\ Tracked(cur)
      BY <2>3, <2>4 DEF Tracked
    <2>6. ~ DirectChange
      BY <2>5, Typed DEF DirectChange, ControlOK, At
    <2> QED
      BY <1>6, <2>5, <2>6 DEF PublishRename
  <1>7. CASE ~ PublishRename /\ ~ DirectChange
    <2>1. id \in disk.seen
      BY <1>1, <1>7, SeenSteps
    <2>2. Tracked(id)
      <3>1. Started(id)
        BY <1>3, <2>1, Unstarted
      <3> QED
        BY <1>3, <3>1, StartedKept DEF Tracked
    <2>3. disk.journal \in [Ids -> Journal \cup {Void}]
      BY Typed, ImageFields
    <2>4. Unpublished(disk, id)
      <3>1. CASE disk'.journal = disk.journal
        BY <1>2, <3>1 DEF Unpublished
      <3>2. CASE Settle
        <4>1. /\ pending \in Ids /\ disk.journal[pending] \in Journal
              /\ disk'.journal = [disk.journal EXCEPT ![pending] =
                                    [disk.journal[pending] EXCEPT !.published = TRUE]]
          BY <3>2, SettleEffect DEF OnlyJournal
        <4>2. id # pending
          BY <1>2, <2>3, <4>1 DEF Journal
        <4> QED
          BY <1>2, <1>3, <2>3, <4>1, <4>2 DEF Unpublished
      <3>3. CASE WriteJournal
        <4>1. pc = "journal"
          BY <3>3 DEF WriteJournal
        <4>2. id # cur
          BY <2>1, <4>1, Unseen DEF PreLocations
        <4> QED
          BY <1>2, <1>3, <2>3, <3>3, <4>2, WriteJournalEffect DEF OnlyJournal, Unpublished
      <3>4. CASE UndoJournal \/ Retire \/ RecoverRetire
        BY <1>2, <1>3, <2>3, <3>4, RetireEffect DEF OnlyJournal, Unpublished
      <3> QED
        BY <1>1, <3>1, <3>2, <3>3, <3>4, JournalSteps
    <2>5. pending = id
      BY <1>5, <2>1, <2>2, <2>4 DEF Inv, UnsettledOK
    <2>6. ~ Settled
      <3>1. Settled => disk'.journal = disk.journal
        BY QuietEffect DEF Quiet, Kept, SameClaims
      <3>2. Settled => disk.journal[pending].published
        BY FlowOfEntries DEF Resumes, Inv, PendingOK
      <3> QED
        BY <1>2, <2>5, <3>1, <3>2
    <2> QED
      BY <1>1, <1>7, <2>5, <2>6, PendingSteps
  <1> QED
    BY <1>6, <1>7

\* A settled publication survives every power failure.
LEMMA PublishedNext ==
  ASSUME Inv, [Next]_vars, NEW id \in disk'.seen, Tracked(id)', id # pending',
         NEW c \in crash'
  PROVE  id \in c.img.seen
  <1>1. CASE Crash
    BY <1>1 DEF Crash
  <1>2. CASE c.img = disk'
    BY <1>2
  <1>3. CASE ~ Crash /\ c.img # disk'
    <2>1. PICK b \in crash : c.img = b.img
      BY <1>3, ImagesNext DEF FsStep
    <2>2. id \in Ids
      BY ImagesNext, ImageFields DEF FsTypeOK
    <2>3. id \in disk.seen
      <3>1. ASSUME PublishRename
            PROVE  id # cur
        BY <3>1 DEF PublishRename
      <3>2. ASSUME DirectChange
            PROVE  id # cur
        BY <3>2, Typed DEF DirectChange, ControlOK, At, Tracked
      <3> QED
        BY <1>3, <3>1, <3>2, SeenSteps, PublishRenameEffect
    <2>4. Tracked(id)
      <3>1. Started(id)
        BY <2>2, <2>3, Unstarted
      <3> QED
        BY <2>2, <3>1, StartedKept DEF Tracked
    <2>5. CASE id # pending
      BY <2>1, <2>3, <2>4, <2>5 DEF Inv, UnsettledOK
    <2>6. CASE id = pending
      <3>1. ~ PublishRename
        BY <2>2, <2>6, InTheGate, ConstantsAssumption
           DEF PublishRename, CommitLocations, Contents
      <3>2. Settled
        BY <1>3, <2>6, <3>1, PendingSteps
      <3>3. dirty = {"journals"} /\ \A a \in crash : pending \in a.img.seen \/ "journals" \in a.later
        BY <3>2, FlowOfEntries DEF Resumes, Inv, PendingOK
      <3>4. \E a \in crash : c.img = a.img /\ a.later \cap dirty = {}
        BY <1>3, <3>2 DEF Settled, Sync, Write, Durable
      <3> QED
        BY <2>6, <3>3, <3>4
    <2> QED
      BY <2>5, <2>6
  <1> QED
    BY <1>1, <1>2, <1>3

\* Settling is inductive.
LEMMA SettledImages ==
  ASSUME Inv, [Next]_vars
  PROVE  UnsettledOK'
  BY UnsettledNext, PublishedNext DEF UnsettledOK

-----------------------------------------------------------------------------
(* The attempts of an operation *)

\* An attempt in progress is what its ticket item waits for.
LEMMA Running ==
  ASSUME Inv, NEW id \in Ids, Active(id), Tracked(id)
  PROVE  /\ Started(id) /\ info[id].op \in Ops /\ item[info[id].op] = "running"
         /\ \A i \in Attempts(info[id].op) : i # id => ~ Active(i)
  <1>1. Started(id)
    BY Unstarted
  <1> QED
    BY <1>1, StartedFields DEF Inv, ActiveOK

\* An attempt is a tracked upload.
LEMMA AttemptFields ==
  ASSUME Inv, NEW op \in Ops, NEW id \in Attempts(op)
  PROVE  id \in Ids /\ Started(id) /\ info[id].op = op /\ Tracked(id)
  BY StartedFields DEF Attempts, Started

\* Starting a transaction touches neither the evidence nor the trash.
LEMMA Begins ==
  ASSUME Inv, [Next]_vars, NEW id \in Ids, ~ Started(id), Started(id)'
  PROVE  /\ SameClaims /\ SameBin /\ ~ Crash /\ UNCHANGED pending
         /\ \A j \in Ids \ {id} : info'[j] = info[j]
         /\ Tracked(id)' =>
              /\ info'[id].op \in Ops /\ ~ Restarting
              /\ item[info'[id].op] \in {"pending", "failed"}
              /\ item' = [item EXCEPT ![info'[id].op] = "running"]
  <1> DEFINE G == /\ SameClaims /\ SameBin /\ ~ Crash /\ UNCHANGED pending
                  /\ \A j \in Ids \ {id} : info'[j] = info[j]
                  /\ Tracked(id)' =>
                       /\ info'[id].op \in Ops /\ ~ Restarting
                       /\ item[info'[id].op] \in {"pending", "failed"}
                       /\ item' = [item EXCEPT ![info'[id].op] = "running"]
  <1>1. info' # info
    BY DEF Started
  <1>2. ~ Crash
    BY <1>1 DEF Crash
  <1>3. ASSUME NEW j \in Ids, NEW i, Starts(j, i)
        PROVE  j = id /\ info'[id] = i /\ \A k \in Ids \ {id} : info'[k] = info[k]
    BY <1>3 DEF Starts, Started
  <1>4. ASSUME NEW j \in Ids, NEW kind \in {"new", "put"}, NEW p \in Paths,
               NEW op \in Ops \cup {Void}, Stage(j, kind, p, op)
        PROVE  G
    <2> DEFINE i == [kind |-> kind, path |-> p, src |-> Void, op |-> op]
    <2>1. Starts(j, i)
      BY <1>4, StageStarts
    <2>2. i.kind = kind /\ i.op = op
      OBVIOUS
    <2> HIDE DEF i
    <2>3. info'[id] = i /\ \A k \in Ids \ {id} : info'[k] = info[k]
      BY <1>3, <2>1
    <2>4. SameClaims /\ SameBin /\ pending' = pending
      BY <1>4, StageEffect DEF OnlyStaging, Stage
    <2>5. ASSUME kind = "new"
          PROVE  /\ op \in Ops /\ item[op] \in {"pending", "failed"}
                 /\ item' = [item EXCEPT ![op] = "running"]
      BY <1>4, <2>1, <2>2, <2>5 DEF Stage, Starts
    <2>6. ~ Restarting
      BY <1>4 DEF Stage, Online, Restarting
    <2> QED
      BY <1>2, <2>2, <2>3, <2>4, <2>5, <2>6 DEF Tracked
  <1>5. ASSUME NEW j \in Ids, NEW kind \in AllKinds, NEW s \in Paths \cup {Void},
               NEW p \in Paths, Transfer(j, kind, s, p)
        PROVE  G
    <2> DEFINE i == [kind |-> kind, path |-> p, src |-> s, op |-> Void]
    <2>1. Starts(j, i) /\ kind # "new"
      BY <1>5, TransferStarts
    <2>2. i.kind = kind
      OBVIOUS
    <2> HIDE DEF i
    <2>3. info'[id] = i /\ \A k \in Ids \ {id} : info'[k] = info[k]
      BY <1>3, <2>1
    <2>4. Kept
      BY <1>5, QuietEffect DEF Quiet
    <2>5. pending' = pending
      BY <1>5 DEF Transfer
    <2> QED
      BY <1>2, <2>1, <2>2, <2>3, <2>4, <2>5 DEF Tracked, Kept
  <1> QED
    BY <1>1, <1>4, <1>5, InfoSteps

\* An operation gains an attempt only when its item is pending or has failed.
LEMMA AttemptsNext ==
  ASSUME Inv, [Next]_vars, NEW op \in Ops, NEW id \in Attempts(op)'
  PROVE  /\ id \in Ids /\ Tracked(id)'
         /\ \/ id \in Attempts(op)
            \/ /\ ~ Started(id) /\ Started(id)' /\ item[op] \in {"pending", "failed"}
               /\ item'[op] = "running"
  <1>1. id \in Ids /\ Started(id)' /\ info'[id].op = op
    BY DEF Attempts, Started
  <1>2. CASE Started(id)
    <2>1. info'[id] = info[id]
      BY <1>1, <1>2, StartedKept
    <2>2. id \in Attempts(op)
      BY <1>1, <1>2, <2>1 DEF Attempts, Started
    <2> QED
      BY <1>1, <2>1, <2>2, AttemptFields DEF Tracked
  <1>3. CASE ~ Started(id)
    <2>1. Tracked(id)'
      BY <1>1, InfoNext DEF InfoOK
    <2>2. item \in [Ops -> {"pending", "running", "complete", "complete_pending",
                            "unknown", "failed", "retired"}]
      BY DEF Inv, TypeOK
    <2> QED
      BY <1>1, <1>3, <2>1, <2>2, Begins
  <1> QED
    BY <1>2, <1>3

\* No attempt is forgotten.
LEMMA AttemptsKept ==
  ASSUME Inv, [Next]_vars, NEW op \in Ops, NEW id \in Attempts(op)
  PROVE  id \in Attempts(op)'
  <1>1. info'[id] = info[id] /\ Started(id)' /\ id \in Ids /\ info[id].op = op
    BY AttemptFields, StartedKept
  <1> QED
    BY <1>1 DEF Attempts, Started

\* What may happen to a ticket item.
LEMMA ItemNext ==
  ASSUME Inv, [Next]_vars, NEW op \in Ops
  PROVE  \/ item'[op] = item[op]
         \/ item[op] \in {"pending", "failed"} /\ item'[op] = "running"
         \/ /\ item'[op] = "failed"
            /\ \E j \in Ids : Abandon(j) /\ Tracked(j) /\ info[j].op = op
         \/ Confirm(op) /\ item'[op] = ReceiptOutcome(op) /\ item'[op] # "unknown"
         \/ Prune(op) /\ item'[op] = "retired" /\ item[op] \notin {"running", "unknown"}
         \/ /\ At(CommitLocations) /\ cur \in Ids /\ Tracked(cur) /\ info[cur].op = op
            /\ item'[op] \in {"complete", "complete_pending", "unknown"} /\ ~ Crash
            /\ item'[op] = "complete" => pc = "done"
         \/ Crash /\ item[op] = "running" /\ item'[op] = "unknown"
  <1> DEFINE States == {"pending", "running", "complete", "complete_pending",
                        "unknown", "failed", "retired"}
  <1>1. item \in [Ops -> States]
    BY DEF Inv, TypeOK
  <1>2. CASE UNCHANGED item
    BY <1>2
  <1>3. CASE Crash
    BY <1>1, <1>3 DEF Crash
  <1>4. ASSUME NEW id \in Ids, NEW kind \in {"new", "put"}, NEW p \in Paths,
               NEW o \in Ops \cup {Void}, Stage(id, kind, p, o)
        PROVE  item'[op] = item[op] \/ (item[op] \in {"pending", "failed"} /\ item'[op] = "running")
    BY <1>1, <1>4 DEF Stage
  <1>5. ASSUME NEW id \in Ids, Abandon(id), item'[op] # item[op]
        PROVE  item'[op] = "failed" /\ Tracked(id) /\ info[id].op = op
    BY <1>1, <1>5 DEF Abandon
  <1>6. ASSUME NEW o \in Ops, Confirm(o), item'[op] # item[op]
        PROVE  o = op /\ item'[op] = ReceiptOutcome(op) /\ item'[op] # "unknown"
    BY <1>1, <1>6 DEF Confirm
  <1>7. ASSUME NEW o \in Ops, Prune(o), item'[op] # item[op]
        PROVE  o = op /\ item'[op] = "retired" /\ item[op] \notin {"running", "unknown"}
    BY <1>1, <1>7 DEF Prune
  <1>8. ASSUME Reject \/ Done \/ Fail \/ RollbackCompleted, item'[op] # item[op], ~ Crash
        PROVE  /\ At(CommitLocations) /\ cur \in Ids /\ Tracked(cur) /\ info[cur].op = op
               /\ item'[op] \in {"complete", "complete_pending", "unknown"} /\ ~ Crash
               /\ item'[op] = "complete" => pc = "done"
    BY <1>1, <1>8, CommitEnds
  <1> QED
    BY <1>2, <1>3, <1>4, <1>5, <1>6, <1>7, <1>8, ItemSteps

-----------------------------------------------------------------------------
(* Attempts in progress *)

\* How a publishing call ends.
LEMMA WhereEnds ==
  ASSUME Inv, [Next]_vars, At(CommitLocations)
  PROVE  \/ At(CommitLocations)' /\ cur' = cur
         \/ Reject \/ Done \/ RollbackCompleted \/ Fail \/ Crash
  <1> USE DEF At, CommitLocations
  <1>1. pc # "idle"
    OBVIOUS
  <1>2. CASE Entry
    BY <1>2, FlowOfEntries DEF Entry, Enters, Passes, Resumes
  <1>3. CASE Publishing
    BY <1>3, FlowOfRollback DEF Publishing, Passes, Cleans
  <1>4. CASE Deleting
    BY <1>4, FlowOfDeletion DEF Deleting, Passes, Cleans, Resumes
  <1>5. CASE Repairing
    BY <1>5, FlowOfRecovery DEF Repairing, Passes
  <1>6. CASE Aside
    BY <1>6, AsideEffect
  <1> QED
    BY <1>2, <1>3, <1>4, <1>5, <1>6, Ways

\* A writer whose publishing call has returned is no writer any more.
LEMMA WriterEnds ==
  ASSUME Inv, [Next]_vars, At(CommitLocations)
  PROVE  (At(CommitLocations)' /\ cur' = cur) \/ owner'[cur] # "writer"
  <1>1. cur \in Ids
    BY Publisher
  <1>2. owner \in [Ids -> {"unused", "writer", "abandoned", "recovery", "gone"}]
    BY DEF Inv, TypeOK
  <1>3. CASE Reject
    BY <1>1, <1>2, <1>3 DEF Reject, Conclude
  <1>4. CASE Done
    BY <1>1, <1>2, <1>4 DEF Done, Conclude
  <1>5. CASE RollbackCompleted
    BY <1>1, <1>2, <1>5 DEF RollbackCompleted
  <1>6. CASE Fail
    <2>1. Conclude(FALSE)
      BY <1>6 DEF Fail, At, CommitLocations, Recovering, RecoveryLocations
    <2> QED
      BY <1>1, <1>2, <2>1 DEF Conclude
  <1>7. CASE Crash
    BY <1>1, <1>7 DEF Crash
  <1> QED
    BY <1>3, <1>4, <1>5, <1>6, <1>7, WhereEnds

\* An attempt in progress was so before, or starts.
LEMMA ActiveSteps ==
  ASSUME Inv, [Next]_vars, NEW id \in Ids, Active(id)'
  PROVE  (Active(id) \/ (~ Started(id) /\ Started(id)')) /\ ~ Crash
  <1>1. ~ Crash
    BY DEF Crash, Active, At, CommitLocations
  <1>2. ASSUME NEW i, Starts(id, i)
        PROVE  ~ Started(id) /\ Started(id)'
    BY <1>2, VoidAssumption DEF Starts, Started
  <1>3. CASE owner'[id] = "writer"
    BY <1>1, <1>2, <1>3, OwnerNext DEF Active
  <1>4. CASE cur' = id /\ At(CommitLocations)'
    <2>1. CASE At(CommitLocations) /\ cur' = cur
      BY <1>1, <1>4, <2>1 DEF Active
    <2>2. ASSUME NEW j \in Ids, Commit(j)
          PROVE  Active(id)
      BY <1>4, <2>2 DEF Commit, Active
    <2>3. ASSUME NEW j \in Ids, NEW kind \in AllKinds, NEW s \in Paths \cup {Void},
                 NEW p \in Paths, Transfer(j, kind, s, p)
          PROVE  ~ Started(id) /\ Started(id)'
      <3>1. cur' = j
        BY <2>3 DEF Transfer
      <3> QED
        BY <1>2, <1>4, <2>3, <3>1, TransferStarts
    <2> QED
      BY <1>1, <1>4, <2>1, <2>2, <2>3, WhereCommit
  <1> QED
    BY <1>3, <1>4 DEF Active

\* A transaction that waits for its publishing rename did so before, or starts.
LEMMA LiveSteps ==
  ASSUME Inv, [Next]_vars, NEW id \in Ids, Live(id)'
  PROVE  /\ Live(id) \/ (~ Started(id) /\ Started(id)')
         /\ Waiting(id)' => Waiting(id) \/ (~ Started(id) /\ Started(id)')
         /\ ~ (PublishRename /\ id = cur) /\ ~ (DirectChange /\ id = cur) /\ ~ Crash
  <1>1. ~ Crash
    BY DEF Crash, Live, Waiting, At, PreLocations
  <1>2. ASSUME NEW i, Starts(id, i)
        PROVE  ~ Started(id) /\ Started(id)'
    BY <1>2, VoidAssumption DEF Starts, Started
  <1>3. ASSUME Waiting(id)'
        PROVE  Waiting(id) \/ (~ Started(id) /\ Started(id)')
    <2>1. CASE owner[id] = "writer"
      <3>1. ~ (cur = id /\ At(CommitLocations))
        BY <1>3, WriterEnds DEF Waiting
      <3> QED
        BY <2>1, <3>1 DEF Waiting
    <2> QED
      BY <1>2, <1>3, <2>1, OwnerNext DEF Waiting
  <1>4. ASSUME cur' = id, At(PreLocations)'
        PROVE  Live(id) \/ (~ Started(id) /\ Started(id)')
    <2>1. CASE At(PreLocations) /\ cur' = cur
      BY <1>4, <2>1 DEF Live
    <2>2. ASSUME NEW j \in Ids, Commit(j)
          PROVE  Live(id)
      <3>1. pc = "idle" /\ owner[id] = "writer"
        BY <1>4, <2>2 DEF Commit
      <3> QED
        BY <3>1 DEF Live, Waiting, At, CommitLocations
    <2>3. ASSUME NEW j \in Ids, NEW kind \in AllKinds, NEW s \in Paths \cup {Void},
                 NEW p \in Paths, Transfer(j, kind, s, p)
          PROVE  ~ Started(id) /\ Started(id)'
      <3>1. cur' = j
        BY <2>3 DEF Transfer
      <3> QED
        BY <1>2, <1>4, <2>3, <3>1, TransferStarts
    <2> QED
      BY <1>4, <2>1, <2>2, <2>3, WherePre
  <1>5. ASSUME PublishRename \/ DirectChange, id = cur
        PROVE  FALSE
    <2>1. cur' = id /\ At(CommitLocations)' /\ ~ At(PreLocations)'
      BY <1>5, FlowOfRollback, FlowOfDeletion DEF Passes, At, CommitLocations, PreLocations
    <2> QED
      BY <2>1 DEF Live, Waiting
  <1> QED
    BY <1>1, <1>3, <1>4, <1>5 DEF Live

\* One attempt of an operation runs at a time (the ticket's Running state).
LEMMA ActiveNext ==
  ASSUME Inv, [Next]_vars
  PROVE  ActiveOK'
  <1> SUFFICES ASSUME NEW id \in Ids, Active(id)', Tracked(id)', NEW op, op = info'[id].op
               PROVE  op \in Ops /\ item'[op] = "running"
                      /\ \A i \in Attempts(op)' : i # id => ~ Active(i)'
    BY DEF ActiveOK, Attempts
  <1>1. ~ Crash /\ (Active(id) \/ (~ Started(id) /\ Started(id)'))
    BY ActiveSteps
  <1>2. item \in [Ops -> {"pending", "running", "complete", "complete_pending",
                          "unknown", "failed", "retired"}]
    BY DEF Inv, TypeOK
  <1>3. CASE ~ Started(id) /\ Started(id)'
    <2>1. /\ op \in Ops /\ item[op] \in {"pending", "failed"}
          /\ item' = [item EXCEPT ![op] = "running"]
          /\ \A j \in Ids \ {id} : info'[j] = info[j]
      BY <1>3, Begins
    <2>2. ASSUME NEW i \in Attempts(op)', i # id, Active(i)'
          PROVE  FALSE
      <3>1. i \in Ids /\ info'[i] = info[i]
        BY <2>1, <2>2, AttemptsNext
      <3>2. Started(i)' => Started(i)
        BY <3>1 DEF Started
      <3>3. Active(i)
        BY <2>2, <3>1, <3>2, ActiveSteps
      <3>4. Started(i)
        BY <3>1, <3>3, Unstarted
      <3>5. i \in Attempts(op)
        BY <2>1, <2>2, <3>4, AttemptsNext
      <3> QED
        BY <2>1, <3>3, <3>5, Running, AttemptFields
    <2> QED
      BY <1>2, <2>1, <2>2
  <1>4. CASE Active(id)
    <2>1. Started(id)
      BY <1>4, Unstarted
    <2>2. info'[id] = info[id] /\ Tracked(id)
      BY <2>1, StartedKept DEF Tracked
    <2>3. /\ op \in Ops /\ item[op] = "running" /\ id \in Attempts(op)
          /\ \A i \in Attempts(op) : i # id => ~ Active(i)
      BY <1>4, <2>1, <2>2, Running DEF Attempts, Started
    <2>4. ~ Confirm(op)
      BY <2>3 DEF Confirm, Inv, ItemOK
    <2>5. ASSUME NEW j \in Ids, Abandon(j), Tracked(j), info[j].op = op
          PROVE  FALSE
      <3>1. owner[j] = "writer" /\ ~ (cur = j /\ pc # "idle") /\ UNCHANGED <<pc, ret, cur>>
        BY <2>5 DEF Abandon
      <3>2. Started(j) /\ j \in Attempts(op)
        BY <2>5, <3>1, Typed DEF InfoOK, Started, Attempts
      <3>3. j = id
        BY <2>3, <3>1, <3>2 DEF Active
      <3>4. owner'[id] # "writer"
        <4>1. owner \in [Ids -> {"unused", "writer", "abandoned", "recovery", "gone"}]
          BY DEF Inv, TypeOK
        <4> QED
          BY <2>5, <3>3, <4>1 DEF Abandon
      <3>5. ~ (cur' = id /\ At(CommitLocations)')
        BY <3>1, <3>3 DEF At, CommitLocations
      <3> QED
        BY <3>4, <3>5 DEF Active
    <2>6. ASSUME At(CommitLocations), cur \in Ids, Tracked(cur), info[cur].op = op,
                 item'[op] \in {"complete", "complete_pending", "unknown"}
          PROVE  FALSE
      <3>1. cur = id
        <4>1. Active(cur) /\ Started(cur)
          BY <2>6, Publisher DEF Active
        <4>2. cur \in Attempts(op)
          BY <2>6, <4>1 DEF Attempts, Started
        <4> QED
          BY <2>3, <4>1, <4>2
      <3>2. ~ (At(CommitLocations)' /\ cur' = cur)
        <4>1. CASE Reject \/ Done \/ Fail \/ RollbackCompleted
          BY <2>3, <2>6, <4>1, CommitEnds DEF At, CommitLocations
        <4>2. CASE ~ (Reject \/ Done \/ Fail \/ RollbackCompleted)
          <5>1. pc # "idle"
            BY <2>6 DEF At, CommitLocations
          <5>2. \A o \in Ops : ~ Confirm(o) /\ ~ Prune(o)
            BY <5>1 DEF Confirm, Prune
          <5>3. ASSUME NEW j \in Ids, Abandon(j), item'[op] # "running"
                PROVE  FALSE
            <6>1. Tracked(j) /\ info[j].op = op
              BY <1>2, <2>3, <5>3 DEF Abandon
            <6> QED
              BY <2>5, <5>3, <6>1
          <5>4. ASSUME NEW j \in Ids, NEW kind \in {"new", "put"}, NEW p \in Paths,
                       NEW o \in Ops \cup {Void}, Stage(j, kind, p, o)
                PROVE  item'[op] = "running"
            BY <1>2, <2>3, <5>4 DEF Stage
          <5> QED
            BY <1>1, <2>3, <2>6, <4>2, <5>2, <5>3, <5>4, ItemSteps
        <4> QED
          BY <4>1, <4>2
      <3> QED
        BY <3>1, <3>2, <2>6, WriterEnds DEF Active
    <2>7. item'[op] = "running"
      BY <1>1, <2>3, <2>4, <2>5, <2>6, ItemNext
    <2>8. ASSUME NEW i \in Attempts(op)', i # id, Active(i)'
          PROVE  FALSE
      <3>1. i \in Attempts(op)
        BY <2>3, <2>8, AttemptsNext
      <3>2. i \in Ids /\ Started(i)
        BY <2>3, <3>1, AttemptFields
      <3>3. Active(i)
        BY <2>8, <3>2, ActiveSteps
      <3> QED
        BY <2>3, <2>8, <3>1, <3>3
    <2> QED
      BY <2>3, <2>7, <2>8
  <1> QED
    BY <1>1, <1>3, <1>4

-----------------------------------------------------------------------------
(* Publications still to come *)

\* Before its publishing rename a transaction runs.
LEMMA LiveIsActive ==
  ASSUME NEW id, Live(id)
  PROVE  Active(id)
  BY DEF Live, Waiting, Active, At, PreLocations, CommitLocations

\* Who publishes or writes a journal runs, and has the gate.
LEMMA GateHolder ==
  ASSUME Inv, PublishRename \/ DirectChange \/ WriteJournal
  PROVE  /\ cur \in Ids /\ Started(cur) /\ Active(cur) /\ At(CommitLocations)
         /\ Tracked(cur) => item[info[cur].op] = "running"
  <1>1. At(CommitLocations)
    BY DEF PublishRename, DirectChange, WriteJournal, At, CommitLocations
  <1> QED
    BY <1>1, Publisher, Running DEF Active

\* What is still to be published is not yet, and is not in the trash.
LEMMA UnseenNext ==
  ASSUME Inv, [Next]_vars, NEW id \in Ids, Live(id)'
  PROVE  id \notin disk'.seen /\ id \notin disk'.trash
  <1>1. ~ Crash /\ ~ (PublishRename /\ id = cur) /\ ~ (DirectChange /\ id = cur)
    BY LiveSteps
  <1>2. CASE ~ Started(id) /\ Started(id)'
    BY <1>2, Begins, Unstarted DEF SameClaims, SameBin
  <1>3. CASE Live(id)
    <2>1. id \notin disk.seen /\ id \notin disk.trash
      BY <1>3 DEF Inv, LiveOK
    <2>2. id \notin disk'.seen
      BY <1>1, <2>1, SeenSteps, PublishRenameEffect
    <2>3. StartedOK(disk)
      BY DiskOK DEF ImageOK
    <2>4. CASE BackupToTrash
      BY <2>1, <2>2, <2>3, <2>4, BackupToTrashEffect DEF StartedOK
    <2>5. CASE DeleteToTrash
      BY <2>1, <2>2, <2>3, <2>5, DeleteToTrashEffect DEF StartedOK
    <2>6. ~ Recovering
      BY <1>3, Typed
         DEF ControlOK, Live, Waiting, At, PreLocations, Recovering, RecoveryLocations
    <2>7. ~ RecoverStaging /\ \A j \in Ids : ~ SweepCopy(j)
      BY <2>6, FlowOfRecovery DEF Passes, Recovering, RecoveryLocations
    <2> QED
      BY <1>1, <2>1, <2>2, <2>4, <2>5, <2>7, TrashSteps
  <1> QED
    BY <1>2, <1>3, LiveSteps

\* An upload that waits for the gate has no journal yet.
LEMMA UnjournaledNext ==
  ASSUME Inv, [Next]_vars, NEW id \in Ids, Waiting(id)'
  PROVE  disk'.journal[id] = Void
  <1>1. Live(id)'
    BY DEF Live
  <1>2. CASE ~ Started(id) /\ Started(id)'
    BY <1>2, Begins, Unstarted DEF SameClaims
  <1>3. CASE Waiting(id)
    <2>1. disk.journal[id] = Void
      BY <1>3 DEF Inv, LiveOK, Live
    <2>2. ~ (WriteJournal /\ id = cur)
      BY <1>3, GateHolder DEF Waiting
    <2> QED
      BY <1>1, <2>1, <2>2, LiveSteps, JournalAppears
  <1> QED
    BY <1>1, <1>2, <1>3, LiveSteps

\* No other attempt of its operation is published, or has a journal.
LEMMA RivalsNext ==
  ASSUME Inv, [Next]_vars, NEW id \in Ids, Live(id)', Tracked(id)',
         NEW op, op = info'[id].op
  PROVE  /\ \A i \in Attempts(op)' : i \notin disk'.seen
         /\ \A i \in Attempts(op)' : i # id => disk'.journal[i] = Void
  <1>1. ~ Crash /\ ~ (PublishRename /\ id = cur) /\ ~ (DirectChange /\ id = cur)
    BY LiveSteps
  <1>2. CASE ~ Started(id) /\ Started(id)'
    <2>1. /\ op \in Ops /\ ~ Restarting /\ item[op] \in {"pending", "failed"} /\ SameClaims
          /\ \A j \in Ids \ {id} : info'[j] = info[j]
      BY <1>2, Begins
    <2>2. \A i \in Attempts(op) : i \notin disk.seen /\ disk.journal[i] = Void
      BY <2>1 DEF Inv, ItemOK, NoneSeen
    <2>3. ASSUME NEW i \in Attempts(op)'
          PROVE  i \notin disk.seen /\ disk.journal[i] = Void
      <3>1. i \in Ids /\ (i \in Attempts(op) \/ ~ Started(i))
        BY <2>1, <2>3, AttemptsNext
      <3> QED
        BY <2>2, <3>1, Unstarted
    <2> QED
      BY <2>1, <2>3 DEF SameClaims
  <1>3. CASE Live(id)
    <2>1. Started(id) /\ Active(id)
      BY <1>3, LiveIsActive, Unstarted
    <2>2. info'[id] = info[id] /\ Tracked(id)
      BY <2>1, StartedKept DEF Tracked
    <2>3. /\ op \in Ops /\ item[op] = "running" /\ op = info[id].op
          /\ \A i \in Attempts(op) : i # id => ~ Active(i)
      BY <2>1, <2>2, Running
    <2>4. /\ \A i \in Attempts(op) : i \notin disk.seen
          /\ \A i \in Attempts(op) : i # id => disk.journal[i] = Void
      BY <1>3, <2>2, <2>3 DEF Inv, LiveOK, NoneSeen
    <2>5. \A i \in Attempts(op)' : i \in Attempts(op) /\ i \in Ids
      BY <2>3, AttemptsNext
    <2>6. ASSUME NEW i \in Attempts(op)'
          PROVE  i \notin disk'.seen
      <3>1. ~ (i = cur /\ (PublishRename \/ DirectChange))
        BY <1>1, <2>3, <2>5, <2>6, GateHolder
      <3> QED
        BY <1>1, <2>4, <2>5, <2>6, <3>1, SeenSteps, PublishRenameEffect
    <2>7. ASSUME NEW i \in Attempts(op)', i # id
          PROVE  disk'.journal[i] = Void
      <3>1. ~ (i = cur /\ WriteJournal)
        BY <2>3, <2>5, <2>7, GateHolder
      <3> QED
        BY <1>1, <2>4, <2>5, <2>7, <3>1, JournalAppears
    <2> QED
      BY <2>6, <2>7
  <1> QED
    BY <1>2, <1>3, LiveSteps

\* A publication to come has no rival.
LEMMA LiveNext ==
  ASSUME Inv, [Next]_vars
  PROVE  LiveOK'
  <1> SUFFICES ASSUME NEW id \in Ids, Live(id)', NEW op, op = info'[id].op
               PROVE  /\ Started(id)' /\ id \notin disk'.seen /\ id \notin disk'.trash
                      /\ Waiting(id)' => disk'.journal[id] = Void
                      /\ Tracked(id)' =>
                           /\ \A i \in Attempts(op)' : i \notin disk'.seen
                           /\ \A i \in Attempts(op)' : i # id => disk'.journal[i] = Void
    BY DEF LiveOK, NoneSeen, Attempts
  <1>1. Started(id)'
    <2>1. CASE Live(id)
      BY <2>1, LiveIsActive, Unstarted, StartedKept
    <2> QED
      BY <2>1, LiveSteps
  <1> QED
    BY <1>1, UnseenNext, UnjournaledNext, RivalsNext

\* The publisher knows its receipt, and has written its journal (publish_replacement).
LEMMA PublishingNext ==
  ASSUME Inv, [Next]_vars
  PROVE  PublisherOK'
  <1> DEFINE Locs == {"own", "anchor", "journal", "backup", "publish"}
  <1>1. ASSUME pc' \in Locs, Tracked(cur)'
        PROVE  disk'.receipt[info'[cur'].op] # "rolled_back"
    <2>1. disk.receipt \in [Ops -> Receipts]
      BY Typed, ImageFields
    <2>2. ASSUME cur' = cur, At(CommitLocations)
          PROVE  Tracked(cur) /\ info'[cur] = info[cur] /\ info[cur].op \in Ops
      <3>1. cur \in Ids /\ Started(cur)
        BY <2>2, Publisher
      <3>2. info'[cur] = info[cur] /\ Tracked(cur)
        BY <1>1, <2>2, <3>1, StartedKept DEF Tracked
      <3> QED
        BY <3>1, <3>2, StartedFields
    <2>3. CASE pc \in Locs /\ cur' = cur
      <3>1. Tracked(cur) /\ info'[cur] = info[cur] /\ disk.receipt[info[cur].op] # "rolled_back"
        BY <2>2, <2>3 DEF Inv, PublisherOK, At, CommitLocations
      <3>2. /\ ~ Admit /\ ~ WriteReceipt /\ ~ RecordCommitted /\ ~ RecordRolledBack
            /\ \A op \in Ops : ~ Prune(op)
        BY <2>3, FlowOfEntries, FlowOfRollback, FlowOfDeletion, FlowOfRecovery DEF Passes
      <3>3. ~ Crash
        BY <1>1 DEF Crash
      <3> QED
        BY <2>3, <3>1, <3>2, <3>3, ReceiptSteps
    <2>4. CASE Admit
      <3>1. pc = "admit" /\ cur' = cur
        BY <2>4 DEF Admit
      <3>2. Tracked(cur) /\ info'[cur] = info[cur] /\ info[cur].op \in Ops
        BY <2>2, <3>1 DEF At, CommitLocations
      <3> QED
        BY <2>1, <2>4, <3>1, <3>2, AdmitEffect DEF OnlyReceipt, Kept, SameClaims
    <2>5. CASE CopyStaging \/ (Settled /\ ret = "own")
      <3>1. /\ pc = "copy" \/ (pc = "settled" /\ ret = "own")
            /\ cur' = cur
        BY <2>5, FlowOfEntries DEF Passes, Resumes
      <3>2. At(CommitLocations)
        BY <3>1 DEF At, CommitLocations
      <3> QED
        BY <2>2, <3>1, <3>2, Typed DEF ControlOK, At
    <2>6. ASSUME NEW id \in Ids, NEW kind \in AllKinds, NEW s \in Paths \cup {Void},
                 NEW p \in Paths, Transfer(id, kind, s, p)
          PROVE  FALSE
      <3> DEFINE i == [kind |-> kind, path |-> p, src |-> s, op |-> Void]
      <3>1. Starts(id, i) /\ kind # "new"
        BY <2>6, TransferStarts
      <3>2. cur' = id
        BY <2>6 DEF Transfer
      <3>3. info'[id] = i
        BY <3>1 DEF Starts
      <3>4. i.kind = kind
        OBVIOUS
      <3> QED
        BY <1>1, <3>1, <3>2, <3>3, <3>4 DEF Tracked
    <2> QED
      BY <1>1, <2>3, <2>4, <2>5, <2>6, WherePublishing
  <1>2. ASSUME pc' \in {"backup", "publish"}
        PROVE  disk'.journal[cur'] # Void
    <2>1. CASE Aside
      BY <1>2, <2>1, AsideEffect DEF Inv, PublisherOK, SameClaims
    <2>2. CASE WriteJournal
      <3>1. cur' = cur /\ cur \in Ids
        BY <2>2, GateHolder DEF WriteJournal
      <3>2. disk.journal \in [Ids -> Journal \cup {Void}]
        BY Typed, ImageFields
      <3>3. disk'.journal[cur] \in Journal
        BY <2>2, <3>1, <3>2, WriteJournalEffect DEF OnlyJournal
      <3> QED
        BY <3>1, <3>3, VoidAssumption
    <2>3. CASE BackupDestination
      <3>1. cur' = cur /\ pc = "backup"
        BY <2>3 DEF BackupDestination
      <3> QED
        BY <2>3, <3>1, BackupDestinationEffect DEF OnlyTree, SameClaims, Inv, PublisherOK
    <2> QED
      BY <1>2, <2>1, <2>2, <2>3, WhereJournaled
  <1>3. ASSUME At(PostLocations)', Tracked(cur)'
        PROVE  cur' \in disk'.seen
    <2>1. CASE At(PostLocations) /\ cur' = cur
      <3>1. At(CommitLocations)
        BY <2>1 DEF At, PostLocations, CommitLocations
      <3>2. cur \in Ids /\ Started(cur)
        BY <3>1, Publisher
      <3>3. Tracked(cur)
        BY <1>3, <2>1, <3>2, StartedKept DEF Tracked
      <3>4. ~ Crash
        BY <1>3 DEF Crash, At, PostLocations
      <3> QED
        BY <2>1, <3>3, <3>4, ImagesNext DEF Inv, PublisherOK
    <2>2. CASE PublishRename
      BY <2>2, PendingBegins
    <2> QED
      BY <1>3, <2>1, <2>2, WherePublished
  <1> QED
    BY <1>1, <1>2, <1>3 DEF PublisherOK

-----------------------------------------------------------------------------
(* Ticket items *)

\* A completed recovery leaves no journal (recover).
LEMMA RecoveryRetires ==
  ASSUME Inv, RecoveryDone
  PROVE  \A id \in Ids : disk'.journal[id] = Void
  <1>1. pc = "sweep" /\ Sync
    BY DEF RecoveryDone
  <1>2. disk' = disk
    BY <1>1 DEF Sync, Write
  <1> QED
    BY <1>1, <1>2 DEF Inv, RecoveryOK, RecoveryLocations

\* Without an attempt in progress an operation gains no publication and no journal.
LEMMA RestingKept ==
  ASSUME Inv, [Next]_vars, NEW op \in Ops, item[op] # "running", NEW i \in Attempts(op)
  PROVE  /\ i \notin disk.seen => i \notin disk'.seen
         /\ ~ Crash /\ disk.journal[i] = Void => disk'.journal[i] = Void
  <1>1. i \in Ids /\ Tracked(i) /\ info[i].op = op
    BY AttemptFields
  <1>2. ~ (i = cur /\ (PublishRename \/ DirectChange \/ WriteJournal))
    BY <1>1, GateHolder
  <1>3. Crash => disk'.seen \subseteq disk.seen
    BY CrashEffect
  <1> QED
    BY <1>1, <1>2, <1>3, SeenSteps, PublishRenameEffect, JournalAppears

\* An item that may be attempted, or attempted again, is not published.
LEMMA RetryNext ==
  ASSUME Inv, [Next]_vars, NEW op \in Ops, item'[op] \in {"pending", "failed"},
         NEW i \in Attempts(op)'
  PROVE  i \notin disk'.seen /\ (~ Restarting' => disk'.journal[i] = Void)
  <1>1. i \in Ids /\ i \in Attempts(op)
    BY AttemptsNext
  <1>2. Crash => Restarting'
    BY DEF Crash, Restarting
  <1>3. CASE item'[op] = item[op]
    <2>1. i \notin disk.seen /\ (~ Restarting => disk.journal[i] = Void)
      BY <1>1, <1>3 DEF Inv, ItemOK, NoneSeen
    <2>2. i \notin disk'.seen /\ (~ Crash /\ disk.journal[i] = Void => disk'.journal[i] = Void)
      BY <1>1, <1>3, <2>1, RestingKept
    <2>3. CASE RecoveryDone
      BY <1>1, <2>2, <2>3, RecoveryRetires
    <2> QED
      BY <1>2, <2>1, <2>2, <2>3, WhereRestarting
  <1>4. ASSUME NEW j \in Ids, Abandon(j), Tracked(j), info[j].op = op
        PROVE  i \notin disk'.seen /\ disk'.journal[i] = Void
    <2>1. owner[j] = "writer" /\ ~ (cur = j /\ pc # "idle") /\ disk' = disk
      BY <1>4 DEF Abandon, fs
    <2>2. Waiting(j) /\ Live(j)
      BY <2>1 DEF Waiting, Live, At, CommitLocations
    <2>3. /\ disk.journal[j] = Void /\ NoneSeen(disk, op)
          /\ \A k \in Attempts(op) : k # j => disk.journal[k] = Void
      BY <1>4, <2>2 DEF Inv, LiveOK
    <2> QED
      BY <1>1, <2>1, <2>3 DEF NoneSeen
  <1>5. CASE Confirm(op) /\ item'[op] = ReceiptOutcome(op)
    <2>1. /\ pc = "idle" /\ op \in window /\ disk' = disk
          /\ disk.receipt[op] = "rolled_back"
      BY <1>5 DEF Confirm, ReceiptOutcome, fs
    <2>2. NoneSeen(disk, op)
      BY <2>1, DiskOK DEF ImageOK, ReceiptOK
    <2>3. disk.journal[i] = Void
      BY <1>1, <2>1 DEF Inv, ItemOK
    <2> QED
      BY <1>1, <2>1, <2>2, <2>3 DEF NoneSeen
  <1> QED
    BY <1>3, <1>4, <1>5, ItemNext

\* Once an operation is published in every image, it stays so.
LEMMA PublishedKept ==
  ASSUME Inv, [Next]_vars, NEW op \in Ops, \A c \in crash : SomeSeen(c.img, op)
  PROVE  \A c \in crash' : \E i \in Attempts(op)' : i \in c.img.seen
  <1>1. \A i \in Attempts(op) : i \in Attempts(op)'
    BY AttemptsKept
  <1>2. CASE Crash
    <2>1. PICK c \in crash : crash' = {[img |-> c.img, later |-> {}]}
      BY <1>2, CrashEffect
    <2> QED
      BY <1>1, <2>1 DEF SomeSeen
  <1>3. CASE ~ Crash
    <2>1. FsStep /\ disk.seen \subseteq disk'.seen
      BY <1>3, ImagesNext
    <2>2. SomeSeen(disk, op)
      BY DEF Inv, CrashOK
    <2> QED
      BY <1>1, <2>1, <2>2 DEF FsStep, SomeSeen
  <1> QED
    BY <1>2, <1>3

\* A receipt that says "committed" is believed by every image.
LEMMA CommittedEverywhere ==
  ASSUME Inv, NEW op \in Ops, disk.receipt[op] = "committed"
  PROVE  \A c \in crash : SomeSeen(c.img, op)
  <1>1. PICK i \in Attempts(op) : i \in disk.seen
    BY DiskOK DEF ImageOK, ReceiptOK, SomeSeen
  <1>2. Tracked(i) /\ info[i].op = op
    BY AttemptFields
  <1>3. i # pending
    <2>1. i \in Ids
      BY AttemptFields
    <2> QED
      BY <1>2, <2>1, ConstantsAssumption DEF Inv, PendingOK, Contents
  <1> QED
    BY <1>1, <1>2, <1>3 DEF Inv, UnsettledOK, SomeSeen

\* An item reported complete is published in every image.
LEMMA CompleteNext ==
  ASSUME Inv, [Next]_vars, NEW op \in Ops, item'[op] = "complete", NEW c \in crash'
  PROVE  \E i \in Attempts(op)' : i \in c.img.seen
  <1>1. CASE item'[op] = item[op]
    BY <1>1, PublishedKept DEF Inv, ItemOK
  <1>2. CASE Confirm(op) /\ item'[op] = ReceiptOutcome(op)
    <2>1. disk.receipt[op] = "committed"
      BY <1>2 DEF ReceiptOutcome
    <2> QED
      BY <2>1, CommittedEverywhere, PublishedKept
  <1>3. CASE cur \in Ids /\ Tracked(cur) /\ info[cur].op = op /\ pc = "done"
    <2>1. cur \in disk.seen
      BY <1>3 DEF Inv, PublisherOK, At, PostLocations
    <2>2. pending = Void /\ cur # pending
      BY <1>3, InTheGate, ConstantsAssumption DEF CommitLocations, Contents
    <2>3. cur \in Attempts(op)
      <3>1. Started(cur)
        BY <1>3, <2>1, Unstarted
      <3> QED
        BY <1>3, <3>1 DEF Attempts, Started
    <2>4. \A b \in crash : SomeSeen(b.img, op)
      BY <1>3, <2>1, <2>2, <2>3 DEF Inv, UnsettledOK, SomeSeen
    <2> QED
      BY <2>4, PublishedKept
  <1> QED
    BY <1>1, <1>2, <1>3, ItemNext

\* What may be confirmed is not known otherwise, and its journals are retired.
LEMMA WindowNext ==
  ASSUME Inv, [Next]_vars, NEW op \in Ops, op \in window'
  PROVE  item'[op] = "unknown" /\ \A i \in Attempts(op)' : disk'.journal[i] = Void
  <1>1. ~ Crash /\ ~ RecoverOnline /\ ~ Confirm(op)
    BY DEF Crash, RecoverOnline, Confirm, Inv, TypeOK
  <1>2. CASE RecoveryDone
    <2>1. item'[op] = "unknown"
      BY <1>2 DEF RecoveryDone
    <2>2. \A i \in Attempts(op)' : i \in Ids
      BY AttemptsNext
    <2> QED
      BY <1>2, <2>1, <2>2, RecoveryRetires
  <1>3. CASE ~ RecoveryDone
    <2>1. op \in window
      <3>1. \A o \in Ops : Confirm(o) => window' \subseteq window
        BY DEF Confirm
      <3> QED
        BY <1>1, <1>3, <3>1, WindowSteps
    <2>2. item[op] = "unknown" /\ \A i \in Attempts(op) : disk.journal[i] = Void
      BY <2>1 DEF Inv, ItemOK
    <2>3. item'[op] = "unknown"
      <3>1. ASSUME NEW j \in Ids, Abandon(j), Tracked(j), info[j].op = op
            PROVE  FALSE
        <4>1. Active(j)
          BY <3>1 DEF Abandon, Active
        <4> QED
          BY <2>2, <3>1, <4>1, Running
      <3>2. ~ (At(CommitLocations) /\ cur \in Ids /\ Tracked(cur) /\ info[cur].op = op)
        BY <2>2, Running DEF Active
      <3> QED
        BY <1>1, <2>2, <3>1, <3>2, ItemNext
    <2>4. ASSUME NEW i \in Attempts(op)'
          PROVE  disk'.journal[i] = Void
      <3>1. i \in Attempts(op)
        BY <2>2, <2>4, AttemptsNext
      <3> QED
        BY <1>1, <2>2, <3>1, RestingKept
    <2> QED
      BY <2>3, <2>4
  <1> QED
    BY <1>2, <1>3

\* What the ticket believes stays true.
LEMMA ItemsNext ==
  ASSUME Inv, [Next]_vars
  PROVE  ItemOK'
  <1> SUFFICES ASSUME NEW op \in Ops
               PROVE  /\ item'[op] \in {"pending", "failed"} =>
                           /\ \A i \in Attempts(op)' : i \notin disk'.seen
                           /\ ~ Restarting' => \A i \in Attempts(op)' : disk'.journal[i] = Void
                      /\ item'[op] = "complete" =>
                           \A c \in crash' : \E i \in Attempts(op)' : i \in c.img.seen
                      /\ op \in window' =>
                           /\ item'[op] = "unknown"
                           /\ \A i \in Attempts(op)' : disk'.journal[i] = Void
    BY DEF ItemOK, NoneSeen, SomeSeen
  <1> QED
    BY RetryNext, CompleteNext, WindowNext

-----------------------------------------------------------------------------
(* Every image is explained *)

\* The invariant holds of an empty storage root.
LEMMA InitInv ==
  ASSUME Init
  PROVE  Inv
  <1> USE DEF Init
  <1>1. \A id \in Ids : ~ Started(id) /\ owner[id] = "unused"
    BY DEF Started
  <1>2. scene.dest \in [Paths -> Originals \cup {Void}]
    BY ScenesAssumption
  <1>3. disk = InitImage /\ crash = {[img |-> InitImage, later |-> {}]}
    OBVIOUS
  <1>4. InitImage \in Image
    BY <1>2 DEF InitImage, Image, Contents, Receipts
  <1>5. /\ disk.dest = scene.dest /\ disk.upload = {} /\ disk.copies = {}
        /\ disk.backup = [id \in Ids |-> Void] /\ disk.trash = {} /\ disk.seen = {}
        /\ disk.journal = [id \in Ids |-> Void] /\ disk.receipt = [op \in Ops |-> "none"]
    BY <1>3 DEF InitImage
  <1>6. \A p \in Paths : disk.dest[p] \notin Ids
    BY <1>2, <1>5, ConstantsAssumption DEF Contents
  <1>7. ~ Restarting /\ ~ Recovering /\ \A locs : At(locs) <=> "idle" \in locs
    BY DEF Restarting, Recovering, RecoveryLocations, At
  <1>8. TypeOK
    <2>1. crash \subseteq [img : Image, later : SUBSET Dirs] /\ disk \in Image
      BY <1>3, <1>4
    <2>2. allowed \in [Paths -> SUBSET (Contents \cup {Void})]
      BY <1>2 DEF Contents
    <2>3. pc \in Locations /\ ret \in Locations
      BY DEF Locations
    <2>4. todo \in [journals : SUBSET Ids, uploads : SUBSET Ids, anchors : SUBSET Ids,
                    copies : SUBSET Ids, trash : SUBSET Contents, debt : SUBSET Contents]
      BY DEF NoTodo
    <2>5. crashes \in 0 .. scene.maxCrashes /\ errors \in 0 .. scene.maxErrors
      BY ScenesAssumption
    <2> QED
      BY <2>1, <2>2, <2>3, <2>4, <2>5 DEF TypeOK
  <1>9. InfoOK
    BY <1>1 DEF InfoOK
  <1>10. ControlOK
    BY <1>1, <1>7 DEF ControlOK, CommitLocations
  <1>11. RecoveryOK
    BY <1>7 DEF RecoveryOK, RecoveryLocations, JudgedLocations
  <1>12. ImageOK(disk)
    <2>1. StartedOK(disk)
      BY <1>5, <1>6, ConstantsAssumption DEF StartedOK, Contents
    <2>2. DebtOK(disk) /\ PlaceOK(disk) /\ MarkOK(disk)
      BY <1>5 DEF DebtOK, PlaceOK, MarkOK
    <2>3. OnceOK(disk) /\ ReceiptOK(disk)
      BY <1>5 DEF OnceOK, ReceiptOK
    <2> QED
      BY <2>1, <2>2, <2>3 DEF ImageOK
  <1>13. CrashOK
    BY <1>3, <1>12 DEF CrashOK
  <1>14. PendingOK /\ UnsettledOK /\ PublisherOK
    BY <1>5, <1>7 DEF PendingOK, UnsettledOK, PublisherOK, PostLocations
  <1>15. ActiveOK /\ LiveOK
    BY <1>1, <1>7 DEF ActiveOK, LiveOK, Active, Live, Waiting, CommitLocations, PreLocations
  <1>16. ItemOK
    BY <1>1 DEF ItemOK, Attempts, Started, NoneSeen
  <1> QED
    BY <1>8, <1>9, <1>10, <1>11, <1>13, <1>14, <1>15, <1>16 DEF Inv

\* Every step keeps the invariant.
LEMMA InvNext ==
  ASSUME Inv, [Next]_vars
  PROVE  Inv'
  BY TypeNext, InfoNext, ControlNext, RecoveryNext, ImagesNext, PendingNext, SettledImages,
     ActiveNext, LiveNext, PublishingNext, ItemsNext DEF Inv

\* The inductive invariant of a storage instance's transactions: what is on disk, in every
\* image a power failure may leave, is explained by who is in the gate
\* (storage_transaction.rs and upload_batch.rs).
THEOREM TransactionsAreExplained == Spec => []Inv
  <1>1. Init => Inv
    BY InitInv
  <1>2. Inv /\ [Next]_vars => Inv'
    BY InvNext
  <1> QED
    BY <1>1, <1>2, PTL DEF Spec

\* Type correctness of every variable and of every image, for every set of transactions,
\* paths, operations and scenes.
THEOREM TypeCorrect == Spec => []TypeOK
  <1>1. Inv => TypeOK
    BY DEF Inv
  <1> QED
    BY <1>1, TransactionsAreExplained, PTL

\* Whatever instant the power fails at, bytes that left the user tree and are still on
\* disk have their durable deletion record (stage_delete, cleanup_pass, recover).
THEOREM DebtAlwaysCovers == Spec => []DebtCoversTrash
  <1>1. Inv => DebtCoversTrash
    BY DEF Inv, CrashOK, ImageOK, DebtOK, DebtCoversTrash
  <1> QED
    BY <1>1, TransactionsAreExplained, PTL

\* In any image at most one attempt of an operation is published.
LEMMA AtMostOne ==
  ASSUME Inv, NEW c \in crash, NEW op \in Ops
  PROVE  Cardinality(c.img.seen \cap Attempts(op)) <= 1
  <1> DEFINE S == c.img.seen \cap Attempts(op)
  <1>1. OnceOK(c.img)
    BY DEF Inv, CrashOK, ImageOK
  <1>2. CASE S = {}
    BY <1>2, FS_EmptySet
  <1>3. ASSUME NEW i \in S
        PROVE  Cardinality(S) <= 1
    <2>1. S = {i}
      BY <1>1, <1>3 DEF OnceOK
    <2>2. Cardinality({i}) = 1
      BY FS_Singleton
    <2> HIDE DEF S
    <2> QED
      BY <2>1, <2>2
  <1> QED
    BY <1>2, <1>3

\* An upload ticket is told the truth: an item is published at most once over all its
\* attempts, power failures and recoveries, its receipt never lies, a complete item
\* survives any power failure, and a failed one may be retried (settle_publication,
\* ensure_receipt, recover_replacement, confirm_unknown_outcome).
THEOREM OutcomesAreAlwaysTrue == Spec => []OutcomesAreTrue
  <1>1. ASSUME Inv
        PROVE  OutcomesAreTrue
    <2>1. ASSUME NEW op \in Ops, NEW c \in crash
          PROVE  /\ c.img.receipt[op] = "committed" => c.img.seen \cap Attempts(op) # {}
                 /\ c.img.receipt[op] = "rolled_back" => c.img.seen \cap Attempts(op) = {}
                 /\ item[op] = "complete" => c.img.seen \cap Attempts(op) # {}
      <3>1. ReceiptOK(c.img)
        BY <1>1 DEF Inv, CrashOK, ImageOK
      <3>2. item[op] = "complete" => SomeSeen(c.img, op)
        BY <1>1 DEF Inv, ItemOK
      <3> QED
        BY <3>1, <3>2 DEF ReceiptOK, SomeSeen, NoneSeen
    <2>2. ASSUME NEW op \in Ops, item[op] = "failed"
          PROVE  disk.seen \cap Attempts(op) = {}
      BY <1>1, <2>2 DEF Inv, ItemOK, NoneSeen
    <2> QED
      BY <1>1, <2>1, <2>2, AtMostOne DEF OutcomesAreTrue
  <1> QED
    BY <1>1, TransactionsAreExplained, PTL


-----------------------------------------------------------------------------
(* What a client finds *)

\* an image with the user tree, the backups and the journals of the present one
Same(img) == img.dest = disk.dest /\ img.backup = disk.backup /\ img.journal = disk.journal

\* a path shows what its clients may find, or a journal has parked it
VisibleIn(img, p) ==
    \/ img.dest[p] \in allowed[p]
    \/ /\ img.dest[p] = Void
       /\ \E id \in Ids : /\ Unpublished(img, id) /\ info[id].path = p
                         /\ img.backup[id] \in allowed[p]

\* what is parked has its journal, and while that is unpublished its clients may find
\* it again
ParkedIn(img, id) ==
    img.backup[id] # Void =>
      /\ img.journal[id] # Void /\ ~ Tracked(id)
      /\ Unpublished(img, id) => img.backup[id] \in allowed[info[id].path]

ShownIn(img) == (\A p \in Paths : VisibleIn(img, p)) /\ (\A id \in Ids : ParkedIn(img, id))

\* a move names two paths, and holds the gate as long as it has its source
MovesOK == \A id \in Ids : Started(id) /\ Moves(id) => info[id].src # info[id].path /\ ~ Waiting(id)

\* what a change is about to leave was announced
Content(id) == IF Moves(id) THEN disk.dest[info[id].src] ELSE id
AimOK ==
    /\ At(PreLocations) =>
         /\ Content(cur) \in allowed[info[cur].path]
         /\ Moves(cur) => disk.dest[info[cur].src] # Void /\ Void \in allowed[info[cur].src]
    /\ At({"d_debt", "d_bin", "d_done"}) => Void \in allowed[cur]

\* the journal and the backup of the publication in the gate
BareLocations == {"admit", "copy", "own", "anchor", "journal", "direct", "direct_done", "done"}
BackLocations == {"restore", "undo_anchor", "undo_journal"}
EmptiedLocations == {"unanchor", "retire", "rec_staging", "rec_anchor", "rec_rollback", "rec_retire"}
JournaledOK ==
    /\ At(BareLocations) => disk.journal[cur] = Void
    /\ pc \in {"own", "anchor", "journal"} /\ Tracked(cur) => disk.dest[info[cur].path] = Void
    /\ pc = "backup" => ~ Tracked(cur) /\ disk.dest[info[cur].path] # Void
    /\ pc \in {"backup", "publish"} \cup BackLocations => Unpublished(disk, cur)
    /\ pc \in {"undo_anchor", "undo_journal"} \cup EmptiedLocations => disk.backup[cur] = Void

\* what was not published is nowhere
UnpublishedOK ==
    At(CommitLocations) /\ (stage = "before" \/ pc \in BackLocations \cup {"undone"})
      => cur \notin disk.seen

\* what was published is in its place
PlacedOK ==
    /\ At(PostLocations) \/ pc = "direct_done" =>
         /\ disk.dest[info[cur].path] # Void
         /\ Moves(cur) => disk.dest[info[cur].src] = Void
    /\ pending # Void => disk.dest[info[pending].path] # Void

\* recovery empties a backup only if its destination is there, or was published
MendedOK ==
    pc \in {"b_debt", "b_bin"} /\ ret = "rec_staging" =>
      disk.dest[info[cur].path] # Void \/ disk.journal[cur].published

\* every image is like the present one, unless a sync of dir rules it out
Latest(dir) == dir \in dirty /\ \A c \in crash : Same(c.img) \/ dir \in c.later

\* when a change is answered, the last sync rules out every image without it
AnsweredOK == /\ pc = "done" => Latest("journals")
              /\ pc = "direct_done" => Latest(info[cur].path)
              /\ pc = "d_done" => Latest(cur) /\ disk.dest[cur] = Void

Shown == /\ \A c \in crash : ShownIn(c.img)
         /\ MovesOK /\ AimOK /\ JournaledOK /\ UnpublishedOK /\ PlacedOK /\ MendedOK
         /\ AnsweredOK

-----------------------------------------------------------------------------
(* Images that stay *)

\* clients may still find at a path what they might have found there, but for what
\* was never published
Retained ==
    \A p \in Paths : \A x \in allowed[p] : x \in allowed'[p] \/ (x \in Ids /\ x \notin disk.seen)

\* What an image shows does not depend on the rest of the state.
LEMMA ShownStays ==
  ASSUME Inv, [Next]_vars, Retained,
         NEW img, ImageOK(img), ShownIn(img), img.seen \subseteq disk.seen
  PROVE  ShownIn(img)'
  <1>1. StartedOK(img)
    BY DEF ImageOK
  <1>2. \A id \in Ids : img.journal[id] # Void =>
           info'[id] = info[id] /\ (Tracked(id)' <=> Tracked(id))
    BY <1>1, StartedKept DEF StartedOK
  <1>3. ASSUME NEW p \in Paths
        PROVE  /\ img.dest[p] \in allowed[p] => img.dest[p] \in allowed'[p]
               /\ \A id \in Ids : img.backup[id] \in allowed[p] => img.backup[id] \in allowed'[p]
    BY <1>1 DEF StartedOK, Retained
  <1>4. ASSUME NEW p \in Paths
        PROVE  VisibleIn(img, p)'
    <2>1. VisibleIn(img, p)
      BY DEF ShownIn
    <2> QED
      BY <1>2, <1>3, <2>1 DEF VisibleIn, Unpublished
  <1>5. ASSUME NEW id \in Ids
        PROVE  ParkedIn(img, id)'
    <2>1. ParkedIn(img, id)
      BY DEF ShownIn
    <2>2. img.journal[id] # Void => info[id].path \in Paths
      BY <1>1, StartedFields DEF StartedOK
    <2> QED
      BY <1>2, <1>3, <2>1, <2>2 DEF ParkedIn, Unpublished
  <1> QED
    BY <1>4, <1>5 DEF ShownIn

\* The image the process sees is one of them.
LEMMA DiskShown ==
  ASSUME Inv, Shown
  PROVE  ShownIn(disk)
  BY DEF Inv, CrashOK, Shown

\* A step that moves nothing shows the same.
LEMMA ShownSame ==
  ASSUME Inv, Shown, [Next]_vars, Retained, SameTree, disk'.journal = disk.journal
  PROVE  ShownIn(disk)'
  <1>1. PICK d : d = disk
    OBVIOUS
  <1>2. ShownIn(d)'
    BY <1>1, DiskOK, DiskShown, ShownStays
  <1>3. d.dest = disk'.dest /\ d.backup = disk'.backup /\ d.journal = disk'.journal
    BY <1>1 DEF SameTree
  <1> QED
    BY <1>2, <1>3 DEF ShownIn, VisibleIn, ParkedIn, Unpublished

\* A step that is no power failure adds one image at most.
LEMMA ShownImages ==
  ASSUME Inv, Shown, [Next]_vars, ~ Crash, Retained, ShownIn(disk)', NEW c \in crash'
  PROVE  ShownIn(c.img)'
  <1>1. FsStep
    BY ImagesNext
  <1>2. CASE c.img = disk'
    BY <1>2
  <1>3. ASSUME NEW b \in crash, c.img = b.img
        PROVE  ShownIn(c.img)'
    <2>1. ImageOK(b.img) /\ b.img.seen \subseteq disk.seen /\ ShownIn(b.img)
      BY DEF Inv, CrashOK, Shown
    <2> QED
      BY <1>3, <2>1, ShownStays
  <1> QED
    BY <1>1, <1>2, <1>3 DEF FsStep

\* Who moves a content, or touches a journal.
LEMMA TreeSteps ==
  ASSUME Inv, [Next]_vars
  PROVE  \/ SameTree \/ Crash
         \/ BackupDestination \/ PublishRename \/ DirectChange \/ RestoreBackup
         \/ RecoverBackup \/ CleanBackup \/ BackupToTrash \/ DeleteToTrash
  <1> DEFINE G == \/ SameTree \/ Crash
                  \/ BackupDestination \/ PublishRename \/ DirectChange \/ RestoreBackup
                  \/ RecoverBackup \/ CleanBackup \/ BackupToTrash \/ DeleteToTrash
  <1>a. Kept => SameTree
    BY DEF Kept
  <1>1. CASE Quiet
    BY <1>1, <1>a, QuietEffect
  <1>2. CASE UNCHANGED vars
    BY <1>2 DEF vars, SameTree
  <1>3. CASE Writing
    <2>1. ASSUME NEW id \in Ids, NEW kind \in {"new", "put"}, NEW p \in Paths,
                 NEW op \in Ops \cup {Void}, Stage(id, kind, p, op)
          PROVE  G
      BY <2>1, StageEffect DEF OnlyStaging
    <2>2. ASSUME NEW id \in Ids, CleanAbandoned(id) \/ SweepUpload(id) \/ SweepCopy(id)
          PROVE  G
      BY <2>2, <1>a, CleanAbandonedEffect, SweepUploadEffect, SweepCopyEffect
         DEF OnlyStaging
    <2>3. ASSUME NEW c \in Contents, SweepTrash(c) \/ SweepDebt(c)
          PROVE  G
      BY <2>3, <1>a, SweepTrashEffect, SweepDebtEffect DEF OnlyBin
    <2>4. ASSUME NEW op \in Ops, Prune(op)
          PROVE  G
      BY <2>4, <1>a, PruneEffect DEF OnlyReceipt
    <2>5. CASE CopyStaging \/ RecoverStaging
      BY <2>5, <1>a, CopyStagingEffect, RecoverStagingEffect DEF OnlyStaging
    <2>6. CASE BackupDebt \/ DeleteDebt \/ CleanupTrash \/ CleanupDebt
      BY <2>6, DebtEffect DEF OnlyBin
    <2>7. CASE Settle \/ WriteJournal \/ UndoJournal \/ Retire \/ RecoverRetire
      BY <2>7, SettleEffect, WriteJournalEffect, RetireEffect DEF OnlyJournal
    <2>8. CASE Admit \/ WriteReceipt
      BY <2>8, <1>a, AdmitEffect, WriteReceiptEffect DEF OnlyReceipt
    <2>9. CASE RecordCommitted \/ RecordRolledBack
      BY <2>9, <1>a, RecordCommittedEffect, RecordRolledBackEffect DEF OnlyReceipt
    <2> QED
      BY <1>3, <2>1, <2>2, <2>3, <2>4, <2>5, <2>6, <2>7, <2>8, <2>9 DEF Writing
  <1> QED
    BY <1>1, <1>2, <1>3, Steps

-----------------------------------------------------------------------------
(* What a step that moves something shows *)

\* One transaction works on its own path.
LEMMA OneMoved ==
  ASSUME Inv, Shown, UNCHANGED info, UNCHANGED allowed, NEW id \in Ids,
         NEW p \in Paths, info[id].path = p, \A q \in Paths : q # p => disk'.dest[q] = disk.dest[q],
         \A i \in Ids \ {id} : /\ disk'.backup[i] = disk.backup[i]
                               /\ disk'.journal[i] = disk.journal[i],
         VisibleIn(disk, p)', ParkedIn(disk, id)'
  PROVE  ShownIn(disk)'
  <1>1. ASSUME NEW q \in Paths, q # p
        PROVE  VisibleIn(disk, q)'
    <2>1. VisibleIn(disk, q)
      BY DiskShown DEF ShownIn
    <2> QED
      BY <1>1, <2>1 DEF VisibleIn, Unpublished
  <1>2. ASSUME NEW i \in Ids \ {id}
        PROVE  ParkedIn(disk, i)'
    <2>1. ParkedIn(disk, i)
      BY DiskShown DEF ShownIn
    <2> QED
      BY <1>2, <2>1 DEF ParkedIn, Unpublished, Tracked
  <1> QED
    BY <1>1, <1>2 DEF ShownIn

\* Contents come to their places, and nothing is parked.
LEMMA TreeMoved ==
  ASSUME Inv, Shown, UNCHANGED info, UNCHANGED allowed,
         disk'.backup = disk.backup, disk'.journal = disk.journal,
         \A q \in Paths : disk'.dest[q] = disk.dest[q] \/ disk'.dest[q] \in allowed[q]
  PROVE  ShownIn(disk)'
  <1>1. ShownIn(disk)
    BY DiskShown
  <1>2. ASSUME NEW q \in Paths
        PROVE  VisibleIn(disk, q)'
    <2>1. CASE disk'.dest[q] \in allowed[q]
      BY <2>1 DEF VisibleIn
    <2>2. CASE disk'.dest[q] = disk.dest[q]
      BY <1>1, <2>2 DEF ShownIn, VisibleIn, Unpublished
    <2> QED
      BY <2>1, <2>2
  <1>3. ASSUME NEW i \in Ids
        PROVE  ParkedIn(disk, i)'
    BY <1>1 DEF ShownIn, ParkedIn, Unpublished, Tracked
  <1> QED
    BY <1>2, <1>3 DEF ShownIn

\* An empty backup of a transaction shows nothing, so its journal may go.
LEMMA JournalGone ==
  ASSUME Inv, Shown, UNCHANGED info, UNCHANGED allowed, NEW id \in Ids,
         OnlyJournal(id, Void), disk.backup[id] = Void
  PROVE  ShownIn(disk)'
  <1>1. /\ SameTree /\ \A i \in Ids \ {id} : disk'.journal[i] = disk.journal[i]
    BY DEF OnlyJournal
  <1>2. ASSUME NEW p \in Paths
        PROVE  VisibleIn(disk, p)'
    <2>1. VisibleIn(disk, p)
      BY DiskShown DEF ShownIn
    <2> QED
      BY <1>1, <2>1 DEF VisibleIn, Unpublished, SameTree
  <1>3. ASSUME NEW i \in Ids
        PROVE  ParkedIn(disk, i)'
    <2>1. ParkedIn(disk, i)
      BY DiskShown DEF ShownIn
    <2> QED
      BY <1>1, <2>1 DEF ParkedIn, Unpublished, SameTree, Tracked
  <1> QED
    BY <1>2, <1>3 DEF ShownIn

\* publish_replacement parks what it replaces, under its journal.
LEMMA BackupShown ==
  ASSUME Inv, Shown, BackupDestination
  PROVE  ShownIn(disk)'
  <1>1. pc = "backup" /\ UNCHANGED info /\ UNCHANGED allowed
    BY DEF BackupDestination, batch
  <1>2. /\ cur \in Ids /\ info[cur].path \in Paths
        /\ OnlyTree([disk.dest EXCEPT ![info[cur].path] = Void],
                    [disk.backup EXCEPT ![cur] = disk.dest[info[cur].path]])
    BY BackupDestinationEffect
  <1>3. PICK id \in Ids, p \in Paths : id = cur /\ p = info[cur].path
    BY <1>2
  <1>4. disk.dest \in [Paths -> Contents \cup {Void}] /\ disk.backup \in [Ids -> Contents \cup {Void}]
    BY Typed, ImageFields
  <1>5. /\ disk'.journal = disk.journal
        /\ disk'.dest[p] = Void /\ \A q \in Paths : q # p => disk'.dest[q] = disk.dest[q]
        /\ disk'.backup[id] = disk.dest[p]
        /\ \A i \in Ids \ {id} : disk'.backup[i] = disk.backup[i]
    BY <1>2, <1>3, <1>4 DEF OnlyTree, SameClaims
  <1>6. ~ Tracked(id) /\ disk.dest[p] # Void /\ Unpublished(disk, id)
    BY <1>1, <1>3 DEF Shown, JournaledOK
  <1>7. disk.dest[p] \in allowed[p]
    BY <1>6, DiskShown DEF ShownIn, VisibleIn
  <1>8. VisibleIn(disk, p)' /\ ParkedIn(disk, id)'
    BY <1>1, <1>3, <1>5, <1>6, <1>7 DEF VisibleIn, ParkedIn, Unpublished, Tracked
  <1>9. info[id].path = p
    BY <1>3
  <1> QED
    BY <1>1, <1>5, <1>8, <1>9, OneMoved

\* The publishing rename puts what was announced in its place.
LEMMA PublicationShown ==
  ASSUME Inv, Shown, PublishRename \/ DirectChange
  PROVE  ShownIn(disk)'
  <1>1. UNCHANGED info /\ UNCHANGED allowed /\ At(PreLocations)
    BY DEF PublishRename, DirectChange, batch, At, PreLocations
  <1>2. /\ cur \in Ids /\ Started(cur) /\ info[cur].path \in Paths
        /\ disk'.journal = disk.journal /\ disk'.backup = disk.backup
        /\ ~ Moves(cur) => disk'.dest = [disk.dest EXCEPT ![info[cur].path] = cur]
        /\ Moves(cur) => disk'.dest = [disk.dest EXCEPT ![info[cur].path] = disk.dest[info[cur].src],
                                                        ![info[cur].src] = Void]
    BY PublishRenameEffect
  <1>3. disk.dest \in [Paths -> Contents \cup {Void}] /\ (Moves(cur) => info[cur].src \in Paths)
    BY <1>2, Typed, ImageFields, StartedFields
  <1>4. /\ Content(cur) \in allowed[info[cur].path]
        /\ Moves(cur) => Void \in allowed[info[cur].src]
    BY <1>1 DEF Shown, AimOK
  <1>5. ASSUME NEW q \in Paths
        PROVE  disk'.dest[q] = disk.dest[q] \/ disk'.dest[q] \in allowed[q]
    <2>1. CASE Moves(cur)
      BY <1>2, <1>3, <1>4, <2>1 DEF Content
    <2>2. CASE ~ Moves(cur)
      BY <1>2, <1>3, <1>4, <2>2 DEF Content
    <2> QED
      BY <2>1, <2>2
  <1> QED
    BY <1>1, <1>2, <1>5, TreeMoved

\* A deleted entry leaves its path empty.
LEMMA DeletionShown ==
  ASSUME Inv, Shown, DeleteToTrash
  PROVE  ShownIn(disk)'
  <1>1. pc = "d_bin" /\ UNCHANGED info /\ UNCHANGED allowed
    BY DEF DeleteToTrash, batch
  <1>2. /\ cur \in Paths /\ disk'.journal = disk.journal /\ disk'.backup = disk.backup
        /\ disk'.dest = [disk.dest EXCEPT ![cur] = Void]
    BY DeleteToTrashEffect DEF SameClaims
  <1>3. disk.dest \in [Paths -> Contents \cup {Void}]
    BY Typed, ImageFields
  <1>4. Void \in allowed[cur]
    BY <1>1 DEF Shown, AimOK, At
  <1> QED
    BY <1>1, <1>2, <1>3, <1>4, TreeMoved

\* A backup returns to the path it was parked for.
LEMMA Returned ==
  ASSUME Inv, Shown, UNCHANGED info, UNCHANGED allowed, NEW id \in Ids, NEW p \in Paths,
         info[id].path = p, Unpublished(disk, id), disk.backup[id] # Void,
         OnlyTree([disk.dest EXCEPT ![p] = disk.backup[id]], [disk.backup EXCEPT ![id] = Void])
  PROVE  ShownIn(disk)'
  <1>1. disk.dest \in [Paths -> Contents \cup {Void}] /\ disk.backup \in [Ids -> Contents \cup {Void}]
    BY Typed, ImageFields
  <1>2. /\ disk'.journal = disk.journal
        /\ disk'.dest[p] = disk.backup[id]
        /\ \A q \in Paths : q # p => disk'.dest[q] = disk.dest[q]
        /\ disk'.backup[id] = Void
        /\ \A i \in Ids \ {id} : disk'.backup[i] = disk.backup[i]
    BY <1>1 DEF OnlyTree, SameClaims
  <1>3. disk.backup[id] \in allowed[p]
    BY DiskShown DEF ShownIn, ParkedIn
  <1>4. VisibleIn(disk, p)' /\ ParkedIn(disk, id)'
    BY <1>2, <1>3 DEF VisibleIn, ParkedIn
  <1> QED
    BY <1>2, <1>4, OneMoved

\* A backup goes when its destination is there, or was published.
LEMMA Emptied ==
  ASSUME Inv, Shown, UNCHANGED info, UNCHANGED allowed, NEW id \in Ids, NEW p \in Paths,
         info[id].path = p, disk.dest[p] # Void \/ ~ Unpublished(disk, id),
         disk'.dest = disk.dest, disk'.journal = disk.journal,
         disk'.backup = [disk.backup EXCEPT ![id] = Void]
  PROVE  ShownIn(disk)'
  <1>1. disk.backup \in [Ids -> Contents \cup {Void}]
    BY Typed, ImageFields
  <1>2. /\ disk'.backup[id] = Void
        /\ \A i \in Ids \ {id} : disk'.backup[i] = disk.backup[i]
    BY <1>1
  <1>3. VisibleIn(disk, p)'
    <2>1. VisibleIn(disk, p)
      BY DiskShown DEF ShownIn
    <2> QED
      BY <1>2, <2>1 DEF VisibleIn, Unpublished
  <1>4. ParkedIn(disk, id)'
    BY <1>2 DEF ParkedIn
  <1> QED
    BY <1>2, <1>3, <1>4, OneMoved

\* A failed publication puts back what it parked (rollback_publication).
LEMMA RestoreShown ==
  ASSUME Inv, Shown, [Next]_vars, Retained, RestoreBackup
  PROVE  ShownIn(disk)'
  <1>1. pc = "restore" /\ UNCHANGED info /\ UNCHANGED allowed
    BY DEF RestoreBackup, batch
  <1>2. /\ cur \in Ids /\ info[cur].path \in Paths
        /\ IF disk.backup[cur] # Void
           THEN OnlyTree([disk.dest EXCEPT ![info[cur].path] = disk.backup[cur]],
                         [disk.backup EXCEPT ![cur] = Void])
           ELSE Kept
    BY RestoreBackupEffect
  <1>3. Unpublished(disk, cur)
    BY <1>1 DEF Shown, JournaledOK, BackLocations
  <1>4. PICK id \in Ids, p \in Paths : id = cur /\ p = info[cur].path
    BY <1>2
  <1>5. CASE Kept
    BY <1>5, ShownSame DEF Kept, SameClaims
  <1> QED
    BY <1>1, <1>2, <1>3, <1>4, <1>5, Returned

\* cleanup_replacement_backup: what was replaced goes only when the new content is there.
LEMMA CleaningShown ==
  ASSUME Inv, Shown, [Next]_vars, Retained, CleanBackup
  PROVE  ShownIn(disk)'
  <1>1. pc = "clean" /\ UNCHANGED info /\ UNCHANGED allowed
    BY DEF CleanBackup, batch
  <1>2. /\ cur \in Ids
        /\ IF disk.backup[cur] \in Contents \ Trees
           THEN OnlyTree(disk.dest, [disk.backup EXCEPT ![cur] = Void]) ELSE Kept
    BY CleanBackupEffect
  <1>3. disk.dest[info[cur].path] # Void /\ info[cur].path \in Paths
    BY <1>1, Publisher, StartedFields
       DEF Shown, PlacedOK, At, PostLocations, CommitLocations
  <1>4. PICK id \in Ids, p \in Paths : id = cur /\ p = info[cur].path
    BY <1>2, <1>3
  <1>5. CASE Kept
    BY <1>5, ShownSame DEF Kept, SameClaims
  <1> QED
    BY <1>1, <1>2, <1>3, <1>4, <1>5, Emptied DEF OnlyTree, SameClaims

\* The same of a directory tree, which is staged for deletion.
LEMMA TrashingShown ==
  ASSUME Inv, Shown, BackupToTrash
  PROVE  ShownIn(disk)'
  <1>1. pc = "b_bin" /\ ret \in {"unanchor", "rec_staging"} /\ UNCHANGED info /\ UNCHANGED allowed
    BY FlowOfDeletion DEF BackupToTrash, batch, Resumes
  <1>2. /\ cur \in Ids /\ disk'.dest = disk.dest /\ disk'.journal = disk.journal
        /\ disk'.backup = [disk.backup EXCEPT ![cur] = Void]
    BY BackupToTrashEffect DEF SameClaims
  <1>3. Started(cur)
    BY <1>1, Publisher, Recovered DEF At, CommitLocations, JudgedLocations
  <1>4. disk.dest[info[cur].path] # Void \/ ~ Unpublished(disk, cur)
    BY <1>1 DEF Shown, PlacedOK, MendedOK, At, PostLocations, Unpublished
  <1>5. PICK id \in Ids, p \in Paths : id = cur /\ p = info[cur].path
    BY <1>2, <1>3, StartedFields
  <1> QED
    BY <1>1, <1>2, <1>4, <1>5, Emptied

\* Recovery restores the backup of what was not published, and empties any other.
LEMMA RecoveryShown ==
  ASSUME Inv, Shown, [Next]_vars, Retained, RecoverBackup
  PROVE  ShownIn(disk)'
  <1>1. pc = "rec_backup" /\ UNCHANGED info /\ UNCHANGED allowed
    BY DEF RecoverBackup, batch
  <1>2. /\ cur \in Ids /\ Started(cur) /\ info[cur].path \in Paths
        /\ IF Restores
           THEN OnlyTree([disk.dest EXCEPT ![info[cur].path] = disk.backup[cur]],
                         [disk.backup EXCEPT ![cur] = Void])
           ELSE IF disk.backup[cur] \in Contents \ Trees
           THEN OnlyTree(disk.dest, [disk.backup EXCEPT ![cur] = Void]) ELSE Kept
    BY RecoverBackupEffect
  <1>3. disk.journal[cur] # Void
    BY <1>1, Recovered DEF At, JudgedLocations
  <1>4. PICK id \in Ids, p \in Paths : id = cur /\ p = info[cur].path
    BY <1>2
  <1>5. CASE Restores
    <2>1. Unpublished(disk, id) /\ disk.backup[id] # Void
      BY <1>3, <1>4, <1>5 DEF Restores, Unpublished
    <2> QED
      BY <1>1, <1>2, <1>4, <1>5, <2>1, Returned
  <1>6. CASE ~ Restores /\ disk.backup[cur] \in Contents \ Trees
    <2>1. disk.dest[p] # Void \/ ~ Unpublished(disk, id)
      BY <1>4, <1>6, ConstantsAssumption DEF Restores, Unpublished
    <2> QED
      BY <1>1, <1>2, <1>4, <1>6, <2>1, Emptied DEF OnlyTree, SameClaims
  <1>7. CASE Kept
    BY <1>7, ShownSame DEF Kept, SameClaims
  <1> QED
    BY <1>2, <1>5, <1>6, <1>7

\* settle_publication marks what is in its place.
LEMMA SettleShown ==
  ASSUME Inv, Shown, Settle
  PROVE  ShownIn(disk)'
  <1>1. UNCHANGED info /\ UNCHANGED allowed
    BY DEF Settle, batch
  <1>2. /\ pending \in Ids /\ disk.journal[pending] \in Journal
        /\ OnlyJournal(pending, [disk.journal[pending] EXCEPT !.published = TRUE])
        /\ [disk.journal[pending] EXCEPT !.published = TRUE] \in Journal
    BY SettleEffect
  <1>3. pending # Void /\ Started(pending)
    BY <1>2, ConstantsAssumption DEF Inv, PendingOK, Contents
  <1>4. disk.dest[info[pending].path] # Void /\ info[pending].path \in Paths
    BY <1>2, <1>3, StartedFields DEF Shown, PlacedOK
  <1>5. PICK id \in Ids, p \in Paths : id = pending /\ p = info[pending].path
    BY <1>2, <1>4
  <1>6. disk.journal \in [Ids -> Journal \cup {Void}]
    BY Typed, ImageFields
  <1>7. /\ SameTree /\ disk'.journal[id] = [disk.journal[id] EXCEPT !.published = TRUE]
        /\ \A i \in Ids \ {id} : disk'.journal[i] = disk.journal[i]
    BY <1>2, <1>5, <1>6 DEF OnlyJournal
  <1>8. disk'.journal[id] # Void /\ disk'.journal[id].published
    BY <1>2, <1>5, <1>7, VoidAssumption DEF Journal
  <1>9. VisibleIn(disk, p)'
    <2>1. disk.dest[p] \in allowed[p]
      BY <1>4, <1>5, DiskShown DEF ShownIn, VisibleIn
    <2> QED
      BY <1>1, <1>7, <2>1 DEF VisibleIn, SameTree
  <1>10. ParkedIn(disk, id)'
    <2>1. ParkedIn(disk, id)
      BY DiskShown DEF ShownIn
    <2> QED
      BY <1>1, <1>7, <1>8, <2>1 DEF ParkedIn, Unpublished, Tracked, SameTree
  <1> QED
    BY <1>1, <1>5, <1>7, <1>9, <1>10, OneMoved DEF SameTree

\* A journal is written before anything is parked under it.
LEMMA WritingShown ==
  ASSUME Inv, Shown, WriteJournal
  PROVE  ShownIn(disk)'
  <1>1. pc = "journal" /\ UNCHANGED info /\ UNCHANGED allowed
    BY DEF WriteJournal, batch
  <1>2. /\ cur \in Ids /\ Started(cur)
        /\ OnlyJournal(cur, [published |-> FALSE, anchored |-> Anchored(cur)])
    BY <1>1, Publisher, WriteJournalEffect DEF At, CommitLocations
  <1>3. PICK id \in Ids, p \in Paths : id = cur /\ p = info[cur].path
    BY <1>2, StartedFields
  <1>4. disk.journal[id] = Void
    BY <1>1, <1>3 DEF Shown, JournaledOK, At, BareLocations
  <1>5. SameTree /\ \A i \in Ids \ {id} : disk'.journal[i] = disk.journal[i]
    BY <1>2, <1>3 DEF OnlyJournal
  <1>6. VisibleIn(disk, p)'
    <2>1. VisibleIn(disk, p)
      BY DiskShown DEF ShownIn
    <2>2. ASSUME NEW i \in Ids, Unpublished(disk, i)
          PROVE  Unpublished(disk, i)' /\ disk'.backup[i] = disk.backup[i]
      BY <1>4, <1>5, <2>2 DEF Unpublished, SameTree
    <2> QED
      BY <1>1, <1>5, <2>1, <2>2 DEF VisibleIn, SameTree
  <1>7. ParkedIn(disk, id)'
    BY <1>4, <1>5, DiskShown DEF ShownIn, ParkedIn, SameTree
  <1> QED
    BY <1>1, <1>3, <1>5, <1>6, <1>7, OneMoved DEF SameTree

\* A journal is retired when its backup is settled.
LEMMA RetiringShown ==
  ASSUME Inv, Shown, UndoJournal \/ Retire \/ RecoverRetire
  PROVE  ShownIn(disk)'
  <1>1. /\ pc \in {"undo_journal", "retire", "rec_retire"}
        /\ UNCHANGED info /\ UNCHANGED allowed
    BY DEF UndoJournal, Retire, RecoverRetire, batch
  <1>2. OnlyJournal(cur, Void) /\ cur \in Ids
    BY RetireEffect
  <1>3. disk.backup[cur] = Void
    BY <1>1 DEF Shown, JournaledOK, EmptiedLocations
  <1>4. PICK id \in Ids : id = cur
    BY <1>2
  <1> QED
    BY <1>1, <1>2, <1>3, <1>4, JournalGone

\* What the process sees after any step, as long as clients may find what they might
\* have found before.
LEMMA RetainedShown ==
  ASSUME Inv, Shown, [Next]_vars, ~ Crash, Retained
  PROVE  ShownIn(disk)'
  <1>1. CASE \/ BackupDestination \/ PublishRename \/ DirectChange \/ DeleteToTrash
             \/ BackupToTrash
    BY <1>1, BackupShown, PublicationShown, DeletionShown, TrashingShown
  <1>2. CASE RestoreBackup \/ CleanBackup \/ RecoverBackup
    BY <1>2, RestoreShown, CleaningShown, RecoveryShown
  <1>3. CASE Settle \/ WriteJournal \/ UndoJournal \/ Retire \/ RecoverRetire
    BY <1>3, SettleShown, WritingShown, RetiringShown
  <1>4. CASE SameTree /\ disk'.journal = disk.journal
    BY <1>4, ShownSame
  <1> QED
    BY <1>1, <1>2, <1>3, <1>4, TreeSteps, JournalSteps

-----------------------------------------------------------------------------
(* What clients may find *)

\* It changes when the gate is taken or left.
LEMMA AllowedKept ==
  ASSUME Inv, [Next]_vars, pc # "idle", pc' # "idle"
  PROVE  allowed' = allowed
  <1>1. CASE \/ \E id \in Ids : Commit(id)
             \/ \E id \in Ids, kind \in AllKinds, s \in Paths \cup {Void}, p \in Paths :
                   Transfer(id, kind, s, p)
             \/ \E p \in Paths : Delete(p)
             \/ \E op \in Ops : Confirm(op)
    <2>1. \A id \in Ids : Commit(id) => pc = "idle"
      BY DEF Commit
    <2>2. \A id \in Ids, kind \in AllKinds, s \in Paths \cup {Void}, p \in Paths :
             Transfer(id, kind, s, p) => pc = "idle"
      BY DEF Transfer
    <2>3. \A p \in Paths : Delete(p) => pc = "idle"
      BY DEF Delete
    <2>4. \A op \in Ops : Confirm(op) => pc = "idle"
      BY DEF Confirm
    <2> QED
      BY <1>1, <2>1, <2>2, <2>3, <2>4
  <1>2. CASE Reject \/ Done \/ RollbackCompleted \/ DeleteDone
    BY <1>2, FlowOfEntries, FlowOfRollback, FlowOfDeletion DEF Passes
  <1>3. CASE Fail
    <2>1. Recovering
      BY <1>3, FailGoes, Typed DEF ControlOK
    <2> QED
      BY <1>3, <2>1 DEF Fail, batch, Recovering, RecoveryLocations, CommitLocations
  <1>4. CASE Crash
    BY <1>4 DEF Crash
  <1> QED
    BY <1>1, <1>2, <1>3, <1>4, AllowedSteps

\* An error before the publishing rename withdraws what was not published
\* (classify_upload_result).
LEMMA Withdrawn ==
  ASSUME Inv, Shown, At(CommitLocations), Conclude(FALSE)
  PROVE  Retained
  <1>1. cur \in Ids
    BY Publisher
  <1>2. allowed \in [Paths -> SUBSET (Contents \cup {Void})]
    BY DEF Inv, TypeOK
  <1>3. CASE stage = "before" /\ ~ Moves(cur)
    <2>1. cur \notin disk.seen
      BY <1>3 DEF Shown, UnpublishedOK
    <2>2. allowed' = [allowed EXCEPT ![info[cur].path] = @ \ {cur}]
      BY <1>3 DEF Conclude
    <2> QED
      BY <1>1, <1>2, <2>1, <2>2 DEF Retained
  <1>4. CASE ~ (stage = "before" /\ ~ Moves(cur))
    BY <1>4 DEF Conclude, Retained
  <1> QED
    BY <1>3, <1>4

\* Until a change is answered, no step takes from clients what was published.
LEMMA RetainedNext ==
  ASSUME Inv, Shown, [Next]_vars, ~ Done, ~ DeleteDone
  PROVE  Retained
  <1>1. allowed \in [Paths -> SUBSET (Contents \cup {Void})]
    BY DEF Inv, TypeOK
  <1>2. CASE UNCHANGED allowed
    BY <1>2 DEF Retained
  <1>3. CASE Crash
    BY <1>3 DEF Crash, Retained
  <1>4. ASSUME NEW i, NEW id, NEW c, allowed' = Announce(i, id, c)
        PROVE  Retained
    BY <1>4 DEF Announce, Retained
  <1>5. ASSUME NEW id \in Ids, Commit(id)
        PROVE  Retained
    BY <1>4, <1>5 DEF Commit
  <1>6. ASSUME NEW id \in Ids, NEW kind \in AllKinds, NEW s \in Paths \cup {Void},
               NEW p \in Paths,
               Transfer(id, kind, s, p)
        PROVE  Retained
    <2> DEFINE i == [kind |-> kind, path |-> p, src |-> s, op |-> Void]
               c == IF kind \in {"move", "rename"} THEN disk.dest[s] ELSE id
    <2>1. allowed' = Announce(i, id, c)
      BY <1>6 DEF Transfer
    <2> HIDE DEF i, c
    <2> QED
      BY <1>4, <2>1
  <1>7. ASSUME NEW p \in Paths, Delete(p)
        PROVE  Retained
    BY <1>1, <1>7 DEF Delete, Retained
  <1>8. ASSUME NEW op \in Ops, Confirm(op)
        PROVE  Retained
    <2>1. CASE disk.receipt[op] = "rolled_back"
      <3>1. NoneSeen(disk, op)
        BY <2>1, DiskOK DEF ImageOK, ReceiptOK
      <3>2. allowed' = [allowed EXCEPT ![OpPath[op]] =
                          {c \in @ : ~ (c \in Ids /\ info[c] # Void /\ info[c].op = op)}]
        BY <1>8, <2>1 DEF Confirm
      <3> QED
        BY <1>1, <3>1, <3>2 DEF NoneSeen, Attempts, Retained
    <2>2. CASE disk.receipt[op] # "rolled_back"
      BY <1>8, <2>2 DEF Confirm, Retained
    <2> QED
      BY <2>1, <2>2
  <1>9. CASE Reject
    BY <1>9, Withdrawn DEF Reject, At, CommitLocations
  <1>10. CASE Fail
    <2>1. UNCHANGED allowed \/ (At(CommitLocations) /\ Conclude(FALSE))
      BY <1>10 DEF Fail, At, batch
    <2> QED
      BY <1>2, <2>1, Withdrawn
  <1>11. CASE RollbackCompleted
    <2>1. cur \in Ids /\ cur \notin disk.seen
      BY <1>11, Publisher DEF Shown, UnpublishedOK, RollbackCompleted, At, CommitLocations
    <2>2. allowed' = allowed \/ allowed' = [allowed EXCEPT ![info[cur].path] = @ \ {cur}]
      BY <1>11 DEF RollbackCompleted
    <2> QED
      BY <1>1, <2>1, <2>2 DEF Retained
  <1> QED
    BY <1>2, <1>3, <1>5, <1>6, <1>7, <1>8, <1>9, <1>10, <1>11, AllowedSteps

\* After an answer a path shows what was acknowledged, or an unresolved journal of
\* another transaction still parks what was there (Acknowledge).
LEMMA AcknowledgedShown ==
  ASSUME Inv, Shown, UNCHANGED info, disk' = disk,
         \A p \in Paths :
           \/ allowed'[p] = allowed[p]
           \/ /\ disk.dest[p] \in allowed'[p]
              /\ (\E j \in Ids : Unpublished(disk, j) /\ info[j].path = p) =>
                    allowed[p] \subseteq allowed'[p]
  PROVE  ShownIn(disk)'
  <1>1. ASSUME NEW p \in Paths
        PROVE  VisibleIn(disk, p)'
    <2>1. VisibleIn(disk, p)
      BY DiskShown DEF ShownIn
    <2> QED
      BY <2>1 DEF VisibleIn, Unpublished
  <1>2. ASSUME NEW i \in Ids
        PROVE  ParkedIn(disk, i)'
    <2>1. ParkedIn(disk, i)
      BY DiskShown DEF ShownIn
    <2>2. disk.journal[i] # Void => info[i].path \in Paths
      BY JournalsStarted, StartedFields
    <2>3. Unpublished(disk, i) /\ disk.backup[i] \in allowed[info[i].path] =>
             disk.backup[i] \in allowed'[info[i].path]
      BY <2>2 DEF Unpublished
    <2> QED
      BY <2>1, <2>3 DEF ParkedIn, Unpublished, Tracked
  <1> QED
    BY <1>1, <1>2 DEF ShownIn

\* The sync before an answer leaves images like the present one.
LEMMA SyncedShown ==
  ASSUME Sync, NEW dir, Latest(dir), ShownIn(disk)', UNCHANGED info
  PROVE  \A c \in crash' : ShownIn(c.img)'
  <1>1. disk' = disk
    BY DEF Sync, Write
  <1>2. ASSUME NEW c \in crash'
        PROVE  Same(c.img)
    <2>1. CASE c.img = disk
      BY <2>1 DEF Same
    <2>2. ASSUME NEW b \in Durable(dirty), c.img = b.img
          PROVE  Same(c.img)
      BY <2>2 DEF Durable, Latest
    <2>3. c.img = disk \/ \E b \in Durable(dirty) : c.img = b.img
      BY DEF Sync, Write
    <2> QED
      BY <2>1, <2>2, <2>3
  <1>3. ASSUME NEW c \in crash'
        PROVE  ShownIn(c.img)'
    BY <1>1, <1>2, <1>3 DEF Same, ShownIn, VisibleIn, ParkedIn, Unpublished
  <1> QED
    BY <1>3

\* A publication is answered.
LEMMA DoneShown ==
  ASSUME Inv, Shown, Done
  PROVE  \A c \in crash' : ShownIn(c.img)'
  <1>1. pc \in {"done", "direct_done"} /\ Sync /\ UNCHANGED info /\ disk' = disk
    BY DEF Done, Conclude, Sync, Write
  <1>2. /\ cur \in Ids /\ info[cur].path \in Paths
        /\ Moves(cur) => info[cur].src \in Paths
    BY <1>1, Publisher, StartedFields DEF At, CommitLocations
  <1>3. Moves(cur) => disk.dest[info[cur].src] = Void
    BY <1>1 DEF Shown, PlacedOK, At, PostLocations
  <1>4. disk.journal[cur] = Void
    BY <1>1 DEF Shown, JournaledOK, At, BareLocations
  <1>5. allowed' =
          [p \in Paths |->
             IF p = info[cur].path THEN Acknowledge(p, disk.dest[p], cur)
             ELSE IF p = info[cur].src /\ Moves(cur) THEN Acknowledge(p, Void, cur)
             ELSE allowed[p]]
    BY DEF Done, Conclude
  <1>6. ASSUME NEW p \in Paths, NEW x
        PROVE  /\ x \in Acknowledge(p, x, cur)
               /\ (\E j \in Ids : Unpublished(disk, j) /\ info[j].path = p) =>
                     allowed[p] \subseteq Acknowledge(p, x, cur)
    BY <1>4 DEF Acknowledge, Contested, Unpublished
  <1>7. ASSUME NEW p \in Paths
        PROVE  \/ allowed'[p] = allowed[p]
               \/ /\ disk.dest[p] \in allowed'[p]
                  /\ (\E j \in Ids : Unpublished(disk, j) /\ info[j].path = p) =>
                        allowed[p] \subseteq allowed'[p]
    <2>1. CASE p = info[cur].path
      <3>1. allowed'[p] = Acknowledge(p, disk.dest[p], cur)
        BY <1>5, <2>1
      <3> QED
        BY <1>6, <3>1
    <2>2. CASE p # info[cur].path /\ p = info[cur].src /\ Moves(cur)
      <3>1. allowed'[p] = Acknowledge(p, Void, cur) /\ disk.dest[p] = Void
        BY <1>3, <1>5, <2>2
      <3> QED
        BY <1>6, <3>1
    <2>3. CASE p # info[cur].path /\ ~ (p = info[cur].src /\ Moves(cur))
      BY <1>5, <2>3
    <2> QED
      BY <2>1, <2>2, <2>3
  <1>8. ShownIn(disk)'
    BY <1>1, <1>7, AcknowledgedShown
  <1>9. PICK p : p = info[cur].path
    OBVIOUS
  <1>10. Latest("journals") \/ Latest(p)
    BY <1>1, <1>9 DEF Shown, AnsweredOK
  <1> QED
    BY <1>1, <1>8, <1>10, SyncedShown

\* A deletion is answered.
LEMMA DeleteDoneShown ==
  ASSUME Inv, Shown, DeleteDone
  PROVE  \A c \in crash' : ShownIn(c.img)'
  <1>1. pc = "d_done" /\ Sync /\ UNCHANGED info /\ disk' = disk
    BY DEF DeleteDone, Sync, Write
  <1>2. cur \in Paths
    BY <1>1, Typed DEF ControlOK
  <1>3. disk.dest[cur] = Void
    BY <1>1 DEF Shown, AnsweredOK
  <1>4. allowed' = [allowed EXCEPT ![cur] = Acknowledge(cur, Void, Void)]
    BY DEF DeleteDone
  <1>5. allowed \in [Paths -> SUBSET (Contents \cup {Void})]
    BY DEF Inv, TypeOK
  <1>6. /\ Void \in Acknowledge(cur, Void, Void)
        /\ (\E j \in Ids : Unpublished(disk, j) /\ info[j].path = cur) =>
              allowed[cur] \subseteq Acknowledge(cur, Void, Void)
    BY ConstantsAssumption DEF Acknowledge, Contested, Unpublished, Contents
  <1>7. ASSUME NEW p \in Paths
        PROVE  \/ allowed'[p] = allowed[p]
               \/ /\ disk.dest[p] \in allowed'[p]
                  /\ (\E j \in Ids : Unpublished(disk, j) /\ info[j].path = p) =>
                        allowed[p] \subseteq allowed'[p]
    <2>1. CASE p = cur
      BY <1>3, <1>4, <1>5, <1>6, <2>1
    <2>2. CASE p # cur
      BY <1>4, <1>5, <2>2
    <2> QED
      BY <2>1, <2>2
  <1>8. ShownIn(disk)'
    BY <1>1, <1>7, AcknowledgedShown
  <1>9. PICK p : p = cur
    OBVIOUS
  <1>10. Latest(p)
    BY <1>1, <1>9 DEF Shown, AnsweredOK
  <1> QED
    BY <1>1, <1>8, <1>10, SyncedShown

\* After any step, every image a power failure may leave shows what clients may find.
LEMMA ImagesShown ==
  ASSUME Inv, Shown, [Next]_vars
  PROVE  \A c \in crash' : ShownIn(c.img)'
  <1>1. CASE Done \/ DeleteDone
    BY <1>1, DoneShown, DeleteDoneShown
  <1>2. CASE Crash
    <2>1. UNCHANGED info /\ UNCHANGED allowed
      BY <1>2 DEF Crash
    <2>2. ASSUME NEW c \in crash'
          PROVE  ShownIn(c.img)'
      <3>1. PICK b \in crash : c.img = b.img
        BY <1>2, <2>2, CrashEffect
      <3>2. ShownIn(b.img)
        BY DEF Shown
      <3> QED
        BY <2>1, <3>1, <3>2 DEF ShownIn, VisibleIn, ParkedIn, Unpublished, Tracked
    <2> QED
      BY <2>2
  <1>3. CASE ~ Done /\ ~ DeleteDone /\ ~ Crash
    BY <1>3, RetainedNext, RetainedShown, ShownImages
  <1> QED
    BY <1>1, <1>2, <1>3

-----------------------------------------------------------------------------
(* What the holder of the gate knows of the user tree *)

\* A copy, move or rename takes the gate as it starts (Transfer).
LEMMA TransferAims ==
  ASSUME Inv, NEW id \in Ids, NEW kind \in AllKinds, NEW s \in Paths \cup {Void},
         NEW p \in Paths, Transfer(id, kind, s, p)
  PROVE  /\ ~ Started(id) /\ Kept /\ cur' = id /\ At(CommitLocations)' /\ UNCHANGED stage
         /\ info'[id].path = p /\ info'[id].src = s /\ ~ Tracked(id)'
         /\ Moves(id)' <=> kind \in {"move", "rename"}
         /\ allowed' = Announce(info'[id], id, IF Moves(id)' THEN disk.dest[s] ELSE id)
         /\ Moves(id)' => s \in Paths \ {p} /\ disk.dest[s] # Void
  <1> DEFINE i == [kind |-> kind, path |-> p, src |-> s, op |-> Void]
             c == IF kind \in {"move", "rename"} THEN disk.dest[s] ELSE id
  <1>1. Starts(id, i) /\ kind \notin {"new", "put"}
    BY TransferStarts
  <1>2. i.path = p /\ i.src = s /\ i.kind = kind
    OBVIOUS
  <1>3. /\ kind # "mkdir" => s \in Paths \ {p} /\ disk.dest[s] # Void
        /\ allowed' = Announce(i, id, c) /\ cur' = id /\ UNCHANGED stage
    BY DEF Transfer
  <1>4. At(CommitLocations)'
    BY FlowOfEntries DEF Enters, At, CommitLocations
  <1>5. Kept
    BY QuietEffect DEF Quiet
  <1> HIDE DEF i
  <1>6. info'[id] = i /\ ~ Started(id)
    BY <1>1 DEF Starts, Started
  <1>7. (Moves(id)' <=> kind \in {"move", "rename"}) /\ ~ Tracked(id)'
    BY <1>1, <1>2, <1>6 DEF Moves, Tracked
  <1>8. c = IF Moves(id)' THEN disk.dest[s] ELSE id
    BY <1>7
  <1> HIDE DEF c
  <1> QED
    BY <1>2, <1>3, <1>4, <1>5, <1>6, <1>7, <1>8

\* A move holds the gate from its start to its end.
LEMMA MovesNext ==
  ASSUME Inv, Shown, [Next]_vars
  PROVE  MovesOK'
  <1> SUFFICES ASSUME NEW id \in Ids, Started(id)', Moves(id)'
               PROVE  info'[id].src # info'[id].path /\ ~ Waiting(id)'
    BY DEF MovesOK
  <1>1. CASE Started(id)
    <2>1. info'[id] = info[id] /\ Moves(id)
      BY <1>1, StartedKept DEF Moves
    <2>2. info[id].src # info[id].path /\ ~ Waiting(id)
      BY <1>1, <2>1 DEF Shown, MovesOK
    <2>3. Waiting(id)' => Waiting(id)
      BY <1>1, LiveSteps DEF Live
    <2> QED
      BY <2>1, <2>2, <2>3
  <1>2. CASE ~ Started(id)
    <2>1. ASSUME NEW j \in Ids, NEW kind \in {"new", "put"}, NEW p \in Paths,
                 NEW op \in Ops \cup {Void}, Stage(j, kind, p, op)
          PROVE  FALSE
      <3> DEFINE i == [kind |-> kind, path |-> p, src |-> Void, op |-> op]
      <3>1. Starts(j, i) /\ i.kind = kind
        BY <2>1, StageStarts
      <3> HIDE DEF i
      <3> QED
        BY <1>2, <2>1, <3>1 DEF Starts, Started, Moves
    <2>2. ASSUME NEW j \in Ids, NEW kind \in AllKinds, NEW s \in Paths \cup {Void},
                 NEW p \in Paths, Transfer(j, kind, s, p)
          PROVE  info'[id].src # info'[id].path /\ ~ Waiting(id)'
      <3>1. id = j
        BY <1>2, <2>2, TransferStarts DEF Starts, Started
      <3> QED
        BY <2>2, <3>1, TransferAims DEF Waiting
    <2> QED
      BY <1>2, <2>1, <2>2, InfoSteps DEF Started
  <1> QED
    BY <1>1, <1>2

\* What is announced stays in its place until it is published.
LEMMA AimNext ==
  ASSUME Inv, Shown, [Next]_vars
  PROVE  AimOK'
  <1>1. ASSUME At(PreLocations)'
        PROVE  /\ Content(cur)' \in allowed'[info'[cur'].path]
               /\ Moves(cur)' => /\ disk'.dest[info'[cur'].src] # Void
                                 /\ Void \in allowed'[info'[cur'].src]
    <2>1. CASE At(PreLocations) /\ cur' = cur
      <3>1. pc # "idle" /\ pc' # "idle" /\ ~ Crash
        BY <1>1, <2>1 DEF At, PreLocations, Crash
      <3>2. allowed' = allowed
        BY <3>1, AllowedKept
      <3>3. At(CommitLocations)
        BY <2>1 DEF At, PreLocations, CommitLocations
      <3>4. cur \in Ids /\ Started(cur) /\ info'[cur] = info[cur] /\ (Moves(cur)' <=> Moves(cur))
        BY <2>1, <3>3, Publisher, StartedKept DEF Moves
      <3>5. Moves(cur) => disk'.dest[info[cur].src] = disk.dest[info[cur].src]
        <4>1. CASE BackupDestination
          <5>1. Moves(cur) => info[cur].src # info[cur].path /\ info[cur].src \in Paths
            BY <3>4, StartedFields DEF Shown, MovesOK
          <5>2. disk.dest \in [Paths -> Contents \cup {Void}]
            BY Typed, ImageFields
          <5> QED
            BY <4>1, <5>1, <5>2, BackupDestinationEffect DEF OnlyTree
        <4>2. CASE PublishRename \/ DirectChange
          BY <1>1, <4>2, FlowOfRollback, FlowOfDeletion DEF Passes, At, PreLocations
        <4>3. ~ (RestoreBackup \/ RecoverBackup \/ CleanBackup \/ BackupToTrash \/ DeleteToTrash)
          BY <2>1, FlowOfRollback, FlowOfDeletion
             DEF Passes, Cleans, Resumes, At, PreLocations
        <4> QED
          BY <3>1, <4>1, <4>2, <4>3, TreeSteps DEF SameTree
      <3>6. /\ Content(cur) \in allowed[info[cur].path]
            /\ Moves(cur) => disk.dest[info[cur].src] # Void /\ Void \in allowed[info[cur].src]
        BY <2>1 DEF Shown, AimOK
      <3>7. Content(cur)' = Content(cur)
        BY <2>1, <3>4, <3>5 DEF Content
      <3> QED
        BY <2>1, <3>2, <3>4, <3>5, <3>6, <3>7
    <2>2. ASSUME NEW id \in Ids, Commit(id)
          PROVE  /\ Content(cur)' \in allowed'[info'[cur'].path]
                 /\ ~ Moves(cur)'
      <3>1. /\ pc = "idle" /\ owner[id] = "writer" /\ cur' = id /\ UNCHANGED info
            /\ allowed' = Announce(info[id], id, id)
        BY <2>2 DEF Commit
      <3>2. Started(id) /\ Waiting(id)
        BY <3>1, Typed DEF InfoOK, Waiting, At, CommitLocations
      <3>3. ~ Moves(id) /\ info[id].path \in Paths
        BY <3>2, StartedFields DEF Shown, MovesOK
      <3>4. id \in allowed'[info[id].path]
        BY <3>1, <3>3 DEF Announce
      <3> QED
        BY <3>1, <3>3, <3>4 DEF Content, Moves
    <2>3. ASSUME NEW id \in Ids, NEW kind \in AllKinds, NEW s \in Paths \cup {Void},
                 NEW p \in Paths, Transfer(id, kind, s, p)
          PROVE  /\ Content(cur)' \in allowed'[info'[cur'].path]
                 /\ Moves(cur)' => /\ disk'.dest[info'[cur'].src] # Void
                                   /\ Void \in allowed'[info'[cur'].src]
      <3>1. /\ Kept /\ cur' = id /\ info'[id].path = p /\ info'[id].src = s
            /\ Moves(id)' <=> kind \in {"move", "rename"}
            /\ allowed' = Announce(info'[id], id, IF Moves(id)' THEN disk.dest[s] ELSE id)
            /\ Moves(id)' => s \in Paths \ {p} /\ disk.dest[s] # Void
        BY <2>3, TransferAims
      <3>2. Moves(cur)' <=> Moves(id)'
        BY <3>1 DEF Moves
      <3>3. disk'.dest = disk.dest
        BY <3>1 DEF Kept, SameTree
      <3>4. Content(cur)' = IF Moves(id)' THEN disk.dest[s] ELSE id
        BY <3>1, <3>2, <3>3 DEF Content
      <3>5. (IF Moves(id)' THEN disk.dest[s] ELSE id) \in allowed'[p]
        BY <3>1 DEF Announce
      <3>6. Moves(id)' => Void \in allowed'[s]
        BY <3>1 DEF Announce, Moves
      <3> QED
        BY <3>1, <3>2, <3>3, <3>4, <3>5, <3>6
    <2> QED
      BY <1>1, <2>1, <2>2, <2>3, WherePre
  <1>2. ASSUME At({"d_debt", "d_bin", "d_done"})'
        PROVE  Void \in allowed'[cur']
    <2>1. ASSUME NEW p \in Paths, Delete(p)
          PROVE  Void \in allowed'[cur']
      <3>1. allowed \in [Paths -> SUBSET (Contents \cup {Void})]
        BY DEF Inv, TypeOK
      <3> QED
        BY <2>1, <3>1 DEF Delete
    <2>2. CASE At({"d_debt", "d_bin", "d_done"}) /\ cur' = cur
      <3>1. allowed' = allowed
        BY <1>2, <2>2, AllowedKept DEF At
      <3> QED
        BY <2>2, <3>1 DEF Shown, AimOK
    <2>3. CASE At({"d_debt", "d_bin"})'
      <3>1. Aside \/ DeleteDebt \/ Settle \/ Settled => At({"d_debt", "d_bin", "d_done"}) /\ cur' = cur
        BY <2>3, AsideEffect, FlowOfEntries, FlowOfDeletion DEF Passes, Resumes, At
      <3> QED
        BY <2>1, <2>2, <2>3, <3>1, WhereDelete
    <2>4. CASE pc' = "d_done"
      <3>1. Aside \/ DeleteToTrash => At({"d_debt", "d_bin", "d_done"}) /\ cur' = cur
        BY <2>4, AsideEffect, FlowOfDeletion DEF Passes, At
      <3> QED
        BY <2>2, <2>4, <3>1, WhereDeleted
    <2>5. ~ (pc' \in {"settle", "settled"} /\ ret' = "d_done")
      BY ControlNext DEF ControlOK
    <2>6. ~ (pc' \in {"b_debt", "b_bin"} /\ ret' = "d_done")
      BY ControlNext DEF ControlOK
    <2> QED
      BY <1>2, <2>3, <2>4, <2>5, <2>6 DEF At
  <1> QED
    BY <1>1, <1>2 DEF AimOK

-----------------------------------------------------------------------------
(* Its journal and its backup *)

\* Before its journal is written, and after it is retired.
LEMMA WhereBare ==
  ASSUME Inv, [Next]_vars, At(BareLocations)'
  PROVE  \/ At(BareLocations) /\ cur' = cur
         \/ \E id \in Ids : Commit(id)
         \/ \E id \in Ids, kind \in AllKinds, s \in Paths \cup {Void}, p \in Paths :
               Transfer(id, kind, s, p)
         \/ Retire /\ cur' = cur
  <1>1. CASE Entry
    BY <1>1, FlowOfEntries DEF Entry, Enters, Passes, Resumes, At, BareLocations
  <1>2. CASE Publishing
    BY <1>2, FlowOfRollback DEF Publishing, Passes, Cleans, At, BareLocations
  <1>3. CASE Deleting
    BY <1>3, FlowOfDeletion DEF Deleting, Passes, Cleans, Resumes, At, BareLocations
  <1>4. CASE Repairing
    BY <1>4, FlowOfRecovery DEF Repairing, Passes, At, BareLocations
  <1>5. CASE Aside
    BY <1>5, AsideEffect DEF At, BareLocations
  <1>6. CASE Fail
    BY <1>6, FailGoes DEF At, BareLocations
  <1>7. CASE Crash
    BY <1>7 DEF Crash, At, BareLocations
  <1> QED
    BY <1>1, <1>2, <1>3, <1>4, <1>5, <1>6, <1>7, Ways

\* How a failed publication is undone.
LEMMA WhereBack ==
  ASSUME Inv, [Next]_vars, pc' \in BackLocations
  PROVE  /\ cur' = cur
         /\ Aside \/ RenameFails \/ RestoreBackup \/ UndoAnchor
  <1>1. CASE Entry
    BY <1>1, FlowOfEntries DEF Entry, Enters, Passes, Resumes, BackLocations
  <1>2. CASE Publishing
    BY <1>2, FlowOfRollback DEF Publishing, Passes, Cleans, BackLocations
  <1>3. CASE Deleting
    BY <1>3, FlowOfDeletion DEF Deleting, Passes, Cleans, Resumes, BackLocations
  <1>4. CASE Repairing
    BY <1>4, FlowOfRecovery DEF Repairing, Passes, BackLocations
  <1>5. CASE Aside
    BY <1>5, AsideEffect DEF BackLocations
  <1>6. CASE Fail
    BY <1>6, FailGoes DEF BackLocations
  <1>7. CASE Crash
    BY <1>7 DEF Crash, BackLocations
  <1> QED
    BY <1>1, <1>2, <1>3, <1>4, <1>5, <1>6, <1>7, Ways

\* How a backup gets empty.
LEMMA WhereEmptied ==
  ASSUME Inv, [Next]_vars, pc' \in EmptiedLocations
  PROVE  \/ /\ cur' = cur
            /\ \/ Aside \/ BackupToTrash \/ Unanchor
               \/ RecoverStaging \/ RecoverAnchor \/ RecordRolledBack
               \/ CleanBackup \/ RecoverBackup
         \/ \E id \in Ids : Judge(id) /\ cur' = id
  <1>1. CASE Entry
    BY <1>1, FlowOfEntries DEF Entry, Enters, Passes, Resumes, EmptiedLocations
  <1>2. CASE Publishing
    BY <1>2, FlowOfRollback DEF Publishing, Passes, Cleans, EmptiedLocations
  <1>3. CASE Deleting
    BY <1>3, FlowOfDeletion DEF Deleting, Passes, Cleans, Resumes, EmptiedLocations
  <1>4. CASE Repairing
    BY <1>4, FlowOfRecovery DEF Repairing, Passes, EmptiedLocations
  <1>5. CASE Aside
    BY <1>5, AsideEffect DEF EmptiedLocations
  <1>6. CASE Fail
    BY <1>6, FailGoes DEF EmptiedLocations
  <1>7. CASE Crash
    BY <1>7 DEF Crash, EmptiedLocations
  <1> QED
    BY <1>1, <1>2, <1>3, <1>4, <1>5, <1>6, <1>7, Ways

\* The last steps of a change.
LEMMA WhereLast ==
  ASSUME Inv, [Next]_vars, pc' \in {"undone", "direct_done", "done"}
  PROVE  /\ cur' = cur
         /\ Aside \/ (pc' = "undone" /\ UndoJournal) \/ (pc' = "direct_done" /\ DirectChange) \/ (pc' = "done" /\ Retire)
  <1>1. CASE Entry
    BY <1>1, FlowOfEntries DEF Entry, Enters, Passes, Resumes
  <1>2. CASE Publishing
    BY <1>2, FlowOfRollback DEF Publishing, Passes, Cleans
  <1>3. CASE Deleting
    BY <1>3, FlowOfDeletion DEF Deleting, Passes, Cleans, Resumes
  <1>4. CASE Repairing
    BY <1>4, FlowOfRecovery DEF Repairing, Passes
  <1>5. CASE Aside
    BY <1>5, AsideEffect
  <1>6. CASE Fail
    BY <1>6, FailGoes
  <1>7. CASE Crash
    BY <1>7 DEF Crash
  <1> QED
    BY <1>1, <1>2, <1>3, <1>4, <1>5, <1>6, <1>7, Ways

\* Recovery stages the tree of a backup for deletion.
LEMMA WhereMended ==
  ASSUME Inv, [Next]_vars, pc' \in {"b_debt", "b_bin"}, ret' = "rec_staging"
  PROVE  cur' = cur /\ (Aside \/ BackupDebt \/ RecoverBackup)
  <1>1. CASE Entry
    BY <1>1, FlowOfEntries DEF Entry, Enters, Passes, Resumes
  <1>2. CASE Publishing
    BY <1>2, FlowOfRollback DEF Publishing, Passes, Cleans
  <1>3. CASE Deleting
    BY <1>3, FlowOfDeletion DEF Deleting, Passes, Cleans, Resumes
  <1>4. CASE Repairing
    BY <1>4, FlowOfRecovery DEF Repairing, Passes
  <1>5. CASE Aside
    BY <1>5, AsideEffect
  <1>6. CASE Fail
    BY <1>6, FailGoes
  <1>7. CASE Crash
    BY <1>7 DEF Crash
  <1> QED
    BY <1>1, <1>2, <1>3, <1>4, <1>5, <1>6, <1>7, Ways

\* From the receipt checks to the journal.
LEMMA WhereFree ==
  ASSUME Inv, [Next]_vars, pc' \in {"own", "anchor", "journal"}
  PROVE  \/ pc \in {"own", "anchor", "journal"} /\ cur' = cur
         \/ Admit \/ CopyStaging \/ (Settled /\ ret = "own")
         \/ \E id \in Ids, kind \in AllKinds, s \in Paths \cup {Void}, p \in Paths :
               Transfer(id, kind, s, p)
  <1>1. CASE Entry
    BY <1>1, FlowOfEntries DEF Entry, Enters, Passes, Resumes
  <1>2. CASE Publishing
    BY <1>2, FlowOfRollback DEF Publishing, Passes, Cleans
  <1>3. CASE Deleting
    BY <1>3, FlowOfDeletion DEF Deleting, Passes, Cleans, Resumes
  <1>4. CASE Repairing
    BY <1>4, FlowOfRecovery DEF Repairing, Passes
  <1>5. CASE Aside
    BY <1>5, AsideEffect
  <1>6. CASE Fail
    BY <1>6, FailGoes
  <1>7. CASE Crash
    BY <1>7 DEF Crash
  <1> QED
    BY <1>1, <1>2, <1>3, <1>4, <1>5, <1>6, <1>7, Ways

\* A publication has no journal before it writes one, and none after it is retired.
LEMMA BareNext ==
  ASSUME Inv, Shown, [Next]_vars, At(BareLocations)'
  PROVE  disk'.journal[cur'] = Void
  <1>1. CASE At(BareLocations) /\ cur' = cur
    <2>1. At(CommitLocations) /\ ~ Crash /\ ~ WriteJournal
      BY <1>1, FlowOfRollback DEF Passes, Crash, At, BareLocations, CommitLocations
    <2>2. PICK id \in Ids : id = cur
      BY <2>1, Publisher
    <2>3. disk.journal[id] = Void
      BY <1>1, <2>2 DEF Shown, JournaledOK
    <2> QED
      BY <1>1, <2>1, <2>2, <2>3, JournalAppears
  <1>2. ASSUME NEW id \in Ids, Commit(id)
        PROVE  disk'.journal[cur'] = Void
    <2>1. pc = "idle" /\ owner[id] = "writer" /\ cur' = id /\ disk' = disk
      BY <1>2 DEF Commit, fs
    <2>2. Waiting(id) /\ Live(id)
      BY <2>1 DEF Live, Waiting, At, CommitLocations
    <2> QED
      BY <2>1, <2>2 DEF Inv, LiveOK
  <1>3. ASSUME NEW id \in Ids, NEW kind \in AllKinds, NEW s \in Paths \cup {Void},
               NEW p \in Paths, Transfer(id, kind, s, p)
        PROVE  disk'.journal[cur'] = Void
    <2>1. ~ Started(id) /\ Kept /\ cur' = id
      BY <1>3, TransferAims
    <2> QED
      BY <2>1, Unstarted DEF Kept, SameClaims
  <1>4. CASE Retire /\ cur' = cur
    <2>1. OnlyJournal(cur, Void) /\ cur \in Ids
      BY <1>4, RetireEffect
    <2>2. disk.journal \in [Ids -> Journal \cup {Void}]
      BY Typed, ImageFields
    <2> QED
      BY <1>4, <2>1, <2>2 DEF OnlyJournal
  <1> QED
    BY <1>1, <1>2, <1>3, <1>4, WhereBare

\* A tracked upload finds its name free as long as it holds the gate.
LEMMA NameFree ==
  ASSUME Inv, Shown, [Next]_vars, pc' \in {"own", "anchor", "journal"}, Tracked(cur)'
  PROVE  disk'.dest[info'[cur'].path] = Void
  <1>1. CASE pc \in {"own", "anchor", "journal"} /\ cur' = cur
    <2>1. cur \in Ids /\ Started(cur)
      BY <1>1, Publisher DEF At, CommitLocations
    <2>2. info'[cur] = info[cur] /\ Tracked(cur)
      BY <1>1, <2>1, StartedKept DEF Tracked
    <2>3. SameTree
      BY <1>1, TreeSteps, FlowOfRollback, FlowOfDeletion DEF Passes, Cleans, Resumes, Crash
    <2> QED
      BY <1>1, <2>2, <2>3 DEF Shown, JournaledOK, SameTree
  <1>2. CASE Admit
    <2>1. cur \in Ids /\ Started(cur) /\ cur' = cur /\ info' = info
      BY <1>2, Publisher DEF Admit, At, CommitLocations
    <2>2. ~ DestinationTaken /\ Tracked(cur) /\ info[cur].path \in Paths
      BY <1>2, <2>1, StartedFields DEF Admit, Tracked
    <2>3. disk.dest[info[cur].path] = Void
      BY <2>2, Typed, ImageFields DEF DestinationTaken
    <2>4. SameTree
      BY <1>2, AdmitEffect DEF Kept, OnlyReceipt
    <2> QED
      BY <2>1, <2>3, <2>4 DEF SameTree
  <1>3. CASE CopyStaging \/ (Settled /\ ret = "own")
    <2>1. ~ Tracked(cur) /\ cur' = cur /\ info' = info
      BY <1>3, Typed, FlowOfEntries
         DEF ControlOK, CopyStaging, Settled, At, Passes, Resumes
    <2> QED
      BY <2>1 DEF Tracked
  <1>4. ASSUME NEW id \in Ids, NEW kind \in AllKinds, NEW s \in Paths \cup {Void},
               NEW p \in Paths, Transfer(id, kind, s, p)
        PROVE  FALSE
    <2>1. ~ Tracked(id)' /\ cur' = id
      BY <1>4, TransferAims
    <2> QED
      BY <2>1 DEF Tracked
  <1> QED
    BY <1>1, <1>2, <1>3, <1>4, WhereFree

\* The journal of what is about to be moved, or moved back, is unpublished.
LEMMA UnpublishedJournal ==
  ASSUME Inv, Shown, [Next]_vars, pc' \in {"backup", "publish"} \cup BackLocations
  PROVE  Unpublished(disk, cur)'
  <1>1. CASE WriteJournal
    <2> DEFINE j == [published |-> FALSE, anchored |-> Anchored(cur)]
    <2>1. OnlyJournal(cur, j) /\ j \in Journal /\ ~ j.published
      BY <1>1, WriteJournalEffect
    <2>2. cur \in Ids /\ cur' = cur
      BY <1>1, Publisher, FlowOfRollback DEF WriteJournal, At, CommitLocations, Passes
    <2>3. disk.journal \in [Ids -> Journal \cup {Void}]
      BY Typed, ImageFields
    <2> HIDE DEF j
    <2>4. disk'.journal[cur] = j
      BY <2>1, <2>2, <2>3 DEF OnlyJournal
    <2> QED
      BY <2>1, <2>2, <2>4, VoidAssumption DEF Unpublished
  <1>2. CASE \/ Aside \/ RenameFails \/ RestoreBackup \/ UndoAnchor \/ BackupDestination
    <2>1. cur' = cur /\ disk'.journal = disk.journal
      BY <1>2, AsideEffect, FlowOfRollback, QuietEffect, RestoreBackupEffect,
         BackupDestinationEffect
         DEF Passes, Quiet, Kept, SameClaims, OnlyTree
    <2>2. pc \in {"backup", "publish"} \cup BackLocations
      BY <1>2, AsideEffect, FlowOfRollback DEF Passes, BackLocations
    <2>3. Unpublished(disk, cur)
      BY <2>2 DEF Shown, JournaledOK
    <2> QED
      BY <2>1, <2>3 DEF Unpublished
  <1> QED
    BY <1>1, <1>2, WhereJournaled, WhereBack

\* Only what replaces something is parked for, never a tracked upload.
LEMMA ReplacementNext ==
  ASSUME Inv, Shown, [Next]_vars, pc' = "backup"
  PROVE  ~ Tracked(cur)' /\ disk'.dest[info'[cur'].path] # Void
  <1>1. CASE WriteJournal
    <2>1. /\ pc = "journal" /\ cur' = cur /\ info' = info /\ disk.dest[info[cur].path] # Void
      BY <1>1 DEF WriteJournal, Goto
    <2>2. ~ Tracked(cur)
      BY <2>1 DEF Shown, JournaledOK
    <2>3. SameTree
      BY <1>1, WriteJournalEffect DEF OnlyJournal
    <2> QED
      BY <2>1, <2>2, <2>3 DEF Tracked, SameTree
  <1>2. CASE Aside
    <2>1. pc = "backup" /\ cur' = cur /\ SameTree
      BY <1>2, AsideEffect
    <2>2. info'[cur] = info[cur]
      BY <2>1, Publisher, StartedKept DEF At, CommitLocations
    <2> QED
      BY <2>1, <2>2 DEF Shown, JournaledOK, Tracked, SameTree
  <1>3. ~ BackupDestination
    BY FlowOfRollback DEF Passes
  <1> QED
    BY <1>1, <1>2, <1>3, WhereJournaled

\* A backup is settled before its journal is retired, in a rollback, after a
\* publication and in a recovery.
LEMMA EmptiedNext ==
  ASSUME Inv, Shown, [Next]_vars,
         pc' \in {"undo_anchor", "undo_journal"} \cup EmptiedLocations
  PROVE  disk'.backup[cur'] = Void
  <1>1. disk.backup \in [Ids -> Contents \cup {Void}]
    BY Typed, ImageFields
  <1>2. CASE RestoreBackup
    <2>1. cur' = cur
      BY <1>2, FlowOfRollback DEF Passes
    <2> QED
      BY <1>1, <1>2, <2>1, RestoreBackupEffect DEF OnlyTree, Kept, SameTree
  <1>3. CASE BackupToTrash
    <2>1. cur' = cur
      BY <1>3, FlowOfDeletion DEF Resumes
    <2> QED
      BY <1>1, <1>3, <2>1, BackupToTrashEffect
  <1>4. CASE CleanBackup
    <2>1. cur' = cur /\ disk.backup[cur] \notin Trees
      BY <1>4, FlowOfRollback DEF CleanBackup, CleanupBackup, EmptiedLocations
    <2> QED
      BY <1>1, <1>4, <2>1, CleanBackupEffect DEF OnlyTree, Kept, SameTree
  <1>5. CASE RecoverBackup
    <2>1. cur' = cur /\ (Restores \/ disk.backup[cur] \notin Trees)
      BY <1>5 DEF RecoverBackup, CleanupBackup, EmptiedLocations, Restores
    <2> QED
      BY <1>1, <1>5, <2>1, RecoverBackupEffect DEF OnlyTree, Kept, SameTree
  <1>6. ASSUME NEW id \in Ids, Judge(id), cur' = id
        PROVE  disk'.backup[cur'] = Void
    <2>1. Tracked(id)
      BY <1>6 DEF Judge, Goto, Stop, EmptiedLocations
    <2>2. SameTree
      BY <1>6, QuietEffect DEF Quiet, Kept
    <2> QED
      BY <1>6, <2>1, <2>2, DiskShown DEF ShownIn, ParkedIn, SameTree
  <1>7. CASE \/ Aside \/ UndoAnchor \/ Unanchor \/ RecoverStaging \/ RecoverAnchor
             \/ RecordRolledBack
    <2>1. SameTree
      BY <1>7, AsideEffect, QuietEffect, RecoverStagingEffect, RecordRolledBackEffect
         DEF Quiet, Kept, OnlyStaging, OnlyReceipt
    <2>2. cur' = cur /\ pc \in {"undo_anchor", "undo_journal"} \cup EmptiedLocations
      BY <1>7, AsideEffect, FlowOfRollback, FlowOfDeletion, FlowOfRecovery
         DEF Passes, EmptiedLocations
    <2> QED
      BY <2>1, <2>2 DEF Shown, JournaledOK, SameTree
  <1>8. pc' \notin EmptiedLocations => ~ RenameFails
    BY FlowOfRollback DEF Passes
  <1>9. pc' \in {"undo_anchor", "undo_journal"} =>
           Aside \/ RestoreBackup \/ UndoAnchor
    BY <1>8, WhereBack DEF BackLocations, EmptiedLocations
  <1> QED
    BY <1>2, <1>3, <1>4, <1>5, <1>6, <1>7, <1>9, WhereEmptied

\* The journal and the backup of the publication in the gate, after any step.
LEMMA JournaledNext ==
  ASSUME Inv, Shown, [Next]_vars
  PROVE  JournaledOK'
  BY BareNext, NameFree, ReplacementNext, UnpublishedJournal, EmptiedNext DEF JournaledOK

-----------------------------------------------------------------------------
(* What was published, and what was not *)

\* What is not published is in no place.
LEMMA UnpublishedNext ==
  ASSUME Inv, Shown, [Next]_vars
  PROVE  UnpublishedOK'
  <1> SUFFICES ASSUME At(CommitLocations)',
                      stage' = "before" \/ pc' \in BackLocations \cup {"undone"}
               PROVE  cur' \notin disk'.seen
    BY DEF UnpublishedOK
  <1>1. CASE At(CommitLocations) /\ cur' = cur
    <2>1. ~ Crash
      BY DEF Crash, At, CommitLocations
    <2>2. ~ PublishRename /\ ~ DirectChange
      BY FlowOfRollback, FlowOfDeletion
         DEF PublishRename, DirectChange, Passes, BackLocations
    <2>3. disk'.seen = disk.seen
      BY <2>1, <2>2, SeenSteps
    <2>4. CASE stage' = "before"
      <3>1. stage = "before"
        <4>1. CASE Reject \/ Done \/ RollbackCompleted \/ Fail
          <5>1. pc' = "idle" \/ pc' = "down"
            BY <4>1, FlowOfEntries, FlowOfRollback, FailGoes DEF Passes
          <5> QED
            BY <5>1 DEF At, CommitLocations
        <4> QED
          BY <2>1, <2>2, <2>4, <4>1, StageSteps DEF TakeOwnership
      <3> QED
        BY <1>1, <2>3, <3>1 DEF Shown, UnpublishedOK
    <2>5. CASE pc' \in BackLocations \cup {"undone"}
      <3>1. CASE RenameFails
        <4>1. pc = "publish"
          BY <3>1 DEF RenameFails
        <4>2. Live(cur)
          BY <4>1 DEF Live, At, PreLocations
        <4> QED
          BY <1>1, <2>3, <4>2, Publisher DEF Inv, LiveOK
      <3>2. CASE Aside \/ RestoreBackup \/ UndoAnchor \/ UndoJournal
        <4>1. pc \in BackLocations \cup {"undone"}
          BY <2>5, <3>2, AsideEffect, FlowOfRollback DEF Passes, BackLocations
        <4> QED
          BY <1>1, <2>3, <4>1 DEF Shown, UnpublishedOK
      <3> QED
        BY <2>5, <3>1, <3>2, WhereBack, WhereLast DEF BackLocations
    <2> QED
      BY <2>4, <2>5
  <1>2. ASSUME NEW id \in Ids, Commit(id)
        PROVE  cur' \notin disk'.seen
    <2>1. pc = "idle" /\ owner[id] = "writer" /\ cur' = id /\ disk' = disk
      BY <1>2 DEF Commit, fs
    <2>2. Live(id)
      BY <2>1 DEF Live, Waiting, At, CommitLocations
    <2> QED
      BY <2>1, <2>2 DEF Inv, LiveOK
  <1>3. ASSUME NEW id \in Ids, NEW kind \in AllKinds, NEW s \in Paths \cup {Void},
               NEW p \in Paths, Transfer(id, kind, s, p)
        PROVE  cur' \notin disk'.seen
    <2>1. ~ Started(id) /\ Kept /\ cur' = id
      BY <1>3, TransferAims
    <2> QED
      BY <2>1, Unstarted DEF Kept, SameClaims
  <1> QED
    BY <1>1, <1>2, <1>3, WhereCommit

\* The publishing rename fills the destination and empties the source of a move.
LEMMA InPlace ==
  ASSUME Inv, Shown, PublishRename \/ DirectChange
  PROVE  /\ cur' = cur /\ info' = info /\ cur \in Ids /\ Started(cur)
         /\ disk'.dest[info[cur].path] # Void
         /\ Moves(cur) => disk'.dest[info[cur].src] = Void
  <1>1. /\ cur' = cur /\ info' = info /\ At(PreLocations)
    BY DEF PublishRename, DirectChange, At, PreLocations, Goto
  <1>2. /\ cur \in Ids /\ Started(cur) /\ info[cur].path \in Paths
        /\ ~ Moves(cur) => disk'.dest = [disk.dest EXCEPT ![info[cur].path] = cur]
        /\ Moves(cur) => disk'.dest = [disk.dest EXCEPT ![info[cur].path] = disk.dest[info[cur].src],
                                                        ![info[cur].src] = Void]
    BY PublishRenameEffect
  <1>3. disk.dest \in [Paths -> Contents \cup {Void}] /\ cur # Void
    BY <1>2, Typed, ImageFields, ConstantsAssumption DEF Contents
  <1>4. Moves(cur) => /\ info[cur].src # info[cur].path /\ info[cur].src \in Paths
                      /\ disk.dest[info[cur].src] # Void
    BY <1>1, <1>2, StartedFields DEF Shown, MovesOK, AimOK
  <1>5. CASE Moves(cur)
    BY <1>1, <1>2, <1>3, <1>4, <1>5
  <1>6. CASE ~ Moves(cur)
    BY <1>1, <1>2, <1>3, <1>6
  <1> QED
    BY <1>5, <1>6

\* Nothing takes the place of what is published until the gate is left, and of what is
\* pending until it is settled.
LEMMA PlacedNext ==
  ASSUME Inv, Shown, [Next]_vars
  PROVE  PlacedOK'
  <1> DEFINE G == /\ disk'.dest[info'[cur'].path] # Void
                  /\ Moves(cur)' => disk'.dest[info'[cur'].src] = Void
  <1>1. ASSUME PublishRename \/ DirectChange
        PROVE  G
    BY <1>1, InPlace DEF Moves
  <1>2. ASSUME At(PostLocations) \/ pc = "direct_done", cur' = cur, disk'.dest = disk.dest
        PROVE  G
    <2>1. cur \in Ids /\ Started(cur)
      BY <1>2, Publisher DEF At, PostLocations, CommitLocations
    <2>2. info'[cur] = info[cur]
      BY <2>1, StartedKept
    <2> QED
      BY <1>2, <2>2 DEF Shown, PlacedOK, Moves
  <1>3. ASSUME At(PostLocations)'
        PROVE  G
    <2>1. CASE At(PostLocations) /\ cur' = cur
      <3>1. ~ Crash
        BY <1>3 DEF Crash, At, PostLocations
      <3>2. ~ (\/ BackupDestination \/ PublishRename \/ DirectChange \/ RestoreBackup
               \/ RecoverBackup \/ DeleteToTrash)
        BY <2>1, FlowOfRollback, FlowOfDeletion
           DEF Passes, Cleans, At, PostLocations
      <3>3. disk'.dest = disk.dest
        BY <3>1, <3>2, TreeSteps, CleanBackupEffect, BackupToTrashEffect
           DEF SameTree, OnlyTree, Kept
      <3> QED
        BY <1>2, <2>1, <3>3
    <2> QED
      BY <1>1, <1>3, <2>1, WherePublished
  <1>4. ASSUME pc' = "direct_done"
        PROVE  G
    <2>1. CASE Aside
      BY <1>2, <1>4, <2>1, AsideEffect DEF SameTree
    <2> QED
      BY <1>1, <1>4, <2>1, WhereLast
  <1>5. ASSUME pending' # Void
        PROVE  disk'.dest[info'[pending'].path] # Void
    <2>1. CASE PublishRename
      <3>1. pending' = cur
        BY <2>1 DEF PublishRename
      <3> QED
        BY <2>1, <3>1, InPlace
    <2>2. CASE pending' = pending /\ ~ PublishRename
      <3>1. ~ Crash /\ ~ Settled
        BY <1>5 DEF Crash, Settled
      <3>2. pc \in {"idle", "settle", "settled", "w_trash", "w_debt", "w_done", "prune"}
        BY <1>5, <2>2, <3>1, WherePending
      <3>3. SameTree
        BY <2>2, <3>1, <3>2, TreeSteps, FlowOfRollback, FlowOfDeletion
           DEF Passes, Cleans, Resumes
      <3>4. pending \in Ids /\ Started(pending)
        BY <1>5, <2>2, Typed DEF Inv, PendingOK
      <3> QED
        BY <1>5, <2>2, <3>3, <3>4, StartedKept DEF Shown, PlacedOK, SameTree
    <2> QED
      BY <1>5, <2>1, <2>2, PendingSteps DEF Crash, Settled
  <1> QED
    BY <1>3, <1>4, <1>5 DEF PlacedOK

\* Recovery stages the tree of a backup for deletion only if its destination is there,
\* or was published.
LEMMA MendedNext ==
  ASSUME Inv, Shown, [Next]_vars
  PROVE  MendedOK'
  <1> SUFFICES ASSUME pc' \in {"b_debt", "b_bin"}, ret' = "rec_staging"
               PROVE  disk'.dest[info'[cur'].path] # Void \/ disk'.journal[cur'].published
    BY DEF MendedOK
  <1>1. cur' = cur /\ (Aside \/ BackupDebt \/ RecoverBackup)
    BY WhereMended
  <1>2. CASE Aside \/ BackupDebt
    <2>1. SameTree /\ disk'.journal = disk.journal
      BY <1>2, AsideEffect, DebtEffect DEF SameClaims, OnlyBin
    <2>2. pc \in {"b_debt", "b_bin"} /\ ret = "rec_staging"
      BY <1>2, AsideEffect DEF BackupDebt, Goto
    <2>3. cur \in Ids /\ Started(cur)
      BY <2>2, Recovered DEF At, JudgedLocations
    <2>4. info'[cur] = info[cur]
      BY <2>3, StartedKept
    <2> QED
      BY <1>1, <2>1, <2>2, <2>4 DEF Shown, MendedOK, SameTree
  <1>3. CASE RecoverBackup
    <2>1. ~ Restores /\ disk.backup[cur] \in Trees /\ UNCHANGED info
      BY <1>3 DEF RecoverBackup, Restores, CleanupBackup, Goto
    <2>2. Kept
      BY <1>3, <2>1, RecoverBackupEffect
    <2>3. disk.backup[cur] # Void
      BY <2>1, ConstantsAssumption
    <2> QED
      BY <1>1, <2>1, <2>2, <2>3 DEF Restores, Kept, SameTree, SameClaims
  <1> QED
    BY <1>1, <1>2, <1>3

\* Work outside the gate leaves every image as like the present one as it was.
LEMMA LatestKept ==
  ASSUME Inv, Aside, NEW dir, Latest(dir)
  PROVE  Latest(dir)'
  <1>1. FsStep /\ SameClaims /\ SameTree /\ dirty' = dirty
    BY AsideEffect
  <1>2. ASSUME NEW c \in crash'
        PROVE  Same(c.img)' \/ dir \in c.later
    <2>1. CASE c.img = disk'
      BY <2>1 DEF Same
    <2>2. ASSUME NEW b \in crash, c.img = b.img, b.later \subseteq c.later
          PROVE  Same(c.img)' \/ dir \in c.later
      <3>1. Same(b.img) \/ dir \in b.later
        BY DEF Latest
      <3> QED
        BY <1>1, <2>2, <3>1 DEF Same, SameClaims, SameTree
    <2> QED
      BY <1>1, <2>1, <2>2 DEF FsStep
  <1> QED
    BY <1>1, <1>2 DEF Latest

\* Every image from before a write is ruled out by a sync of what the write touched.
LEMMA LatestWritten ==
  ASSUME NEW new, NEW ds, NEW dir \in ds, Write(new, ds, ds)
  PROVE  Latest(dir)'
  <1>1. disk' = new /\ dirty' = ds
    BY DEF Write
  <1>2. ASSUME NEW c \in crash'
        PROVE  Same(c.img)' \/ dir \in c.later
    <2>1. CASE c = [img |-> new, later |-> {}]
      BY <1>1, <2>1 DEF Same
    <2>2. ASSUME NEW b \in Durable(dirty), c = [img |-> b.img, later |-> b.later \cup ds]
          PROVE  dir \in c.later
      BY <2>2
    <2> QED
      BY <2>1, <2>2 DEF Write
  <1> QED
    BY <1>1, <1>2 DEF Latest

\* When a change is answered, the last sync rules out every image without it.
LEMMA AnsweredNext ==
  ASSUME Inv, Shown, [Next]_vars
  PROVE  AnsweredOK'
  <1>1. ASSUME pc' = "done"
        PROVE  Latest("journals")'
    <2>1. CASE Aside
      <3>1. Latest("journals")
        BY <1>1, <2>1, AsideEffect DEF Shown, AnsweredOK
      <3> QED
        BY <2>1, <3>1, LatestKept
    <2>2. CASE Retire
      <3>1. Write([disk EXCEPT !.journal[cur] = Void], {"journals"}, {"journals"})
        BY <2>2 DEF Retire, RemoveJournal
      <3> QED
        BY <3>1, LatestWritten
    <2> QED
      BY <1>1, <2>1, <2>2, WhereLast
  <1>2. ASSUME pc' = "direct_done"
        PROVE  Latest(info[cur].path)'
    <2>1. PICK p : p = info[cur].path
      OBVIOUS
    <2>2. cur \in Ids /\ Started(cur) /\ cur' = cur
      <3>1. cur' = cur /\ (Aside \/ DirectChange)
        BY <1>2, WhereLast
      <3>2. pc \in {"direct", "direct_done"}
        BY <1>2, <3>1, AsideEffect DEF DirectChange
      <3> QED
        BY <3>1, <3>2, Publisher DEF At, CommitLocations
    <2>3. p = (info[cur].path)'
      BY <2>1, <2>2, StartedKept
    <2>4. Latest(p)'
      <3>1. CASE Aside
        <4>1. Latest(p)
          BY <1>2, <2>1, <3>1, AsideEffect DEF Shown, AnsweredOK
        <4> QED
          BY <3>1, <4>1, LatestKept
      <3>2. CASE DirectChange
        <4> DEFINE ds == {info[cur].path}
                         \cup (IF info[cur].kind = "mkdir" THEN {} ELSE {SourceDir(cur)})
        <4>1. Write(Published(disk, cur), ds, ds)
          BY <3>2 DEF DirectChange
        <4>2. PICK new, es : new = Published(disk, cur) /\ es = ds
          OBVIOUS
        <4>3. Write(new, es, es) /\ p \in es
          BY <2>1, <4>1, <4>2
        <4> QED
          BY <4>3, LatestWritten
      <3> QED
        BY <1>2, <3>1, <3>2, WhereLast
    <2> QED
      BY <2>3, <2>4 DEF Latest
  <1>3. ASSUME pc' = "d_done"
        PROVE  Latest(cur)' /\ disk'.dest[cur'] = Void
    <2>1. cur' = cur /\ (Aside \/ DeleteToTrash)
      BY <1>3, AsideEffect, WhereDeleted
    <2>2. PICK p : p = cur
      OBVIOUS
    <2>3. CASE Aside
      <3>1. Latest(p) /\ disk.dest[cur] = Void
        BY <1>3, <2>2, <2>3, AsideEffect DEF Shown, AnsweredOK
      <3>2. Latest(p)'
        BY <2>3, <3>1, LatestKept
      <3> QED
        BY <2>1, <2>2, <2>3, <3>1, <3>2, AsideEffect DEF Latest, SameTree
    <2>4. CASE DeleteToTrash
      <3>1. PICK new : new = [disk EXCEPT !.dest[cur] = Void, !.trash = @ \cup {disk.dest[cur]}]
        OBVIOUS
      <3>2. Write(new, {p, "trash"}, {p, "trash"})
        BY <2>2, <2>4, <3>1 DEF DeleteToTrash
      <3>3. Latest(p)'
        BY <3>2, LatestWritten
      <3>4. disk'.dest[cur] = Void
        BY <2>4, DeleteToTrashEffect, Typed, ImageFields
      <3> QED
        BY <2>1, <2>2, <3>3, <3>4 DEF Latest
    <2> QED
      BY <2>1, <2>3, <2>4
  <1> QED
    BY <1>1, <1>2, <1>3 DEF AnsweredOK

-----------------------------------------------------------------------------
(* Clients find what they may find *)

\* Nothing is at stake at the start.
LEMMA InitShown ==
  ASSUME Init
  PROVE  Shown
  <1> USE DEF Init
  <1>1. \A id \in Ids : ~ Started(id)
    BY DEF Started
  <1>2. /\ InitImage.dest = scene.dest
        /\ \A id \in Ids : InitImage.backup[id] = Void
    BY DEF InitImage
  <1>3. ShownIn(InitImage)
    BY <1>2 DEF ShownIn, VisibleIn, ParkedIn
  <1>4. \A c \in crash : ShownIn(c.img)
    BY <1>3
  <1>5. MovesOK
    BY <1>1 DEF MovesOK
  <1>6. AimOK
    BY DEF AimOK, At, PreLocations
  <1>7. JournaledOK
    BY DEF JournaledOK, At, BareLocations, BackLocations, EmptiedLocations
  <1>8. UnpublishedOK
    BY DEF UnpublishedOK, At, CommitLocations
  <1>9. PlacedOK
    BY DEF PlacedOK, At, PostLocations
  <1>10. MendedOK /\ AnsweredOK
    BY DEF MendedOK, AnsweredOK
  <1> QED
    BY <1>4, <1>5, <1>6, <1>7, <1>8, <1>9, <1>10 DEF Shown

\* Every step keeps what clients find.
LEMMA ShownNext ==
  ASSUME Inv, Shown, [Next]_vars
  PROVE  Shown'
  BY ImagesShown, MovesNext, AimNext, JournaledNext, UnpublishedNext, PlacedNext,
     MendedNext,
     AnsweredNext DEF Shown

\* Whatever instant the power fails at, each path shows a content its clients may find
\* there, or a journal that recovery will resolve has it parked: in every image, at every
\* step of a change, of its rollback and of recovery (publish_replacement,
\* recover_replacement).
THEOREM ImagesAreAllowed == Spec => []Shown
  <1>1. Init => Inv /\ Shown
    BY InitInv, InitShown
  <1>2. (Inv /\ Shown) /\ [Next]_vars => (Inv /\ Shown)'
    BY InvNext, ShownNext
  <1> QED
    BY <1>1, <1>2, PTL DEF Spec

\* Whenever nobody is in the gate, each path shows what was last acknowledged there or
\* the outcome of a change that ended in an error or a crash; it is empty only while an
\* unresolved journal has parked such a content (publish_replacement,
\* recover_replacement, stage_delete).
THEOREM VisibleIsAlwaysAllowed == Spec => []VisibleIsAllowed
  <1>1. ASSUME Inv, Shown
        PROVE  VisibleIsAllowed
    BY <1>1, DiskShown DEF ShownIn, VisibleIn, VisibleIsAllowed
  <1> QED
    BY <1>1, TransactionsAreExplained, ImagesAreAllowed, PTL

=============================================================================
