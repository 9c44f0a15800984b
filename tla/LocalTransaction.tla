--------------------------- MODULE LocalTransaction ---------------------------
(***************************************************************************)
(* The publication, deletion and recovery transactions of a local storage  *)
(* instance (src/src/storage_transaction.rs and its submodules, with the   *)
(* callers in src/src/storage.rs and src/src/storage/).                    *)
(*                                                                         *)
(* Everything that changes the user tree runs under one mutation gate, so  *)
(* one control location "pc" is enough: it is the position of whoever      *)
(* holds the gate.  Receiving an upload into a staging file and reclaiming *)
(* an abandoned one run outside the gate, interleaved with it.             *)
(*                                                                         *)
(* The filesystem.  "disk" is what the running process sees.  "crash" is   *)
(* the set of images a power failure may leave: metadata operations reach  *)
(* the disk in order, each one atomic, and syncing a directory makes the   *)
(* last operation on it, and therefore everything before, durable.  Every  *)
(* candidate carries the directories touched after it: a sync of any of    *)
(* them rules the candidate out.  A step syncs what its predecessor wrote  *)
(* (variable "dirty") before it acts, which is the code's order; an error  *)
(* between the two leaves the write visible and not durable.               *)
(***************************************************************************)
EXTENDS Naturals, FiniteSets

CONSTANTS
    Ids,         \* TransactionIds; the file or tree a transaction makes is named by it
    Originals,   \* files and trees that existed before
    Trees,       \* which of Ids and Originals are directories
    Paths,       \* user-visible destinations, each with a parent directory of its own
    Ops,         \* operation ids of tracked (upload ticket) items
    OpPath,      \* the destination an operation is bound to
    Void,        \* absence
    Scenes       \* what a behaviour may be about: the kinds of its transactions (see below),
                 \* their ids and operations, the user tree at the start, whether the
                 \* filesystem supports publication anchors, and bounds on power failures,
                 \* on failed system calls and on both together

Contents == Ids \cup Originals

\* a TransactionId is random: it names nothing that existed before
ASSUME ConstantsAssumption ==
    /\ Void \notin Contents /\ Void \notin Paths /\ Void \notin Ops
    /\ Ids \cap Originals = {}
    /\ Trees \subseteq Contents
    /\ OpPath \in [Ops -> Paths]
    /\ Ids \subseteq Nat

(***************************************************************************)
(* new      tracked create-only upload   put     untracked upload, may      *)
(* copy     WebDAV COPY, may replace             replace a regular file    *)
(* move     WebDAV MOVE, may replace     rename  browser move, no journal  *)
(* copynew  browser copy, no journal     mkdir   create_directory          *)
(* delete   stage_delete                                                   *)
(***************************************************************************)
AllKinds == {"new", "put", "copy", "move", "rename", "copynew", "mkdir"}

ASSUME ScenesAssumption ==
    Scenes \subseteq [kinds : SUBSET (AllKinds \cup {"delete"}), ids : SUBSET Ids, ops : SUBSET Ops,
                    dest : [Paths -> Originals \cup {Void}], links : BOOLEAN,
                    maxCrashes : Nat, maxErrors : Nat, maxFaults : Nat]

VARIABLES
    disk, crash, dirty,      \* the filesystem
    pc, ret, cur,            \* the gate holder: location, continuation, subject
    stage,                   \* PublicationAccounting of the transaction in the gate
    info,                    \* what each started transaction is
    owner,                   \* who may remove a staging resource
    pending,                 \* pending_publication
    booting, todo, verdict,  \* recovery
    item,                    \* the upload ticket's view of each operation
    window,                  \* confirmation_window: the unknown items that the last pass of
                             \* upload_recovery may confirm, its recovery being complete
    allowed,                 \* history: what a client may find at each path
    scene,                   \* the member of Scenes
    crashes, errors

fs      == <<disk, crash, dirty>>
budget  == <<scene, crashes, errors>>
rec     == <<booting, todo, verdict>>
batch   == <<item, window, allowed>>
vars    == <<disk, crash, dirty, pc, ret, cur, stage, info, owner, pending,
             booting, todo, verdict, item, window, allowed, scene, crashes, errors>>

Internal == {"uploads", "copies", "backups", "trash", "anchors", "journals",
             "deletions", "receipts"}
Dirs == Paths \cup Internal

\* ReplaceJournal; destination, source and operation are info[id]
Journal == [published : BOOLEAN, anchored : BOOLEAN]
Receipts == {"none", "committed", "unknown", "rolled_back"}

\* "seen" is history: the transactions whose publishing rename is in this image
Image ==
    [dest : [Paths -> Contents \cup {Void}], upload : SUBSET Ids, copies : SUBSET Ids,
     backup : [Ids -> Contents \cup {Void}], trash : SUBSET Contents,
     debt : SUBSET Contents, anchor : SUBSET Ids,
     journal : [Ids -> Journal \cup {Void}], receipt : [Ops -> Receipts],
     seen : SUBSET Ids]

Info == [kind : AllKinds, path : Paths, src : Paths \cup {Void}, op : Ops \cup {Void}]

\* absence is neither a record
ASSUME VoidAssumption == Void \notin Journal /\ Void \notin Info

NoTodo == [journals |-> {}, uploads |-> {}, anchors |-> {}, copies |-> {},
           trash |-> {}, debt |-> {}]

-----------------------------------------------------------------------------
(* The filesystem *)

\* candidates that survive a sync of ds
Durable(ds) == {c \in crash : c.later \cap ds = {}}

\* sync what is dirty, then change the namespace to new by touching ds; the
\* caller syncs "flush" next
Write(new, ds, flush) ==
    /\ disk' = new
    /\ crash' = {[img |-> c.img, later |-> c.later \cup ds] : c \in Durable(dirty)}
                   \cup {[img |-> new, later |-> {}]}
    /\ dirty' = flush

Sync == Write(disk, {}, {})

Tracked(id) == info[id].kind = "new"
Anchored(id) == Tracked(id) /\ scene.links

\* replacement_source
SourceDir(id) ==
    IF info[id].kind \in {"move", "rename"} THEN info[id].src
    ELSE IF info[id].kind \in {"copy", "copynew"} THEN "copies" ELSE "uploads"

SourceExists(img, id) ==
    CASE info[id].kind \in {"move", "rename"} -> img.dest[info[id].src] # Void
      [] info[id].kind \in {"copy", "copynew"} -> id \in img.copies
      [] OTHER -> id \in img.upload

\* rename the source onto the destination
Published(img, id) ==
    LET p == info[id].path
        s == info[id].src
        moved == info[id].kind \in {"move", "rename"}
    IN [img EXCEPT !.dest = IF moved THEN [@ EXCEPT ![p] = img.dest[s], ![s] = Void]
                                     ELSE [@ EXCEPT ![p] = id],
                   !.upload = @ \ {id}, !.copies = @ \ {id}, !.seen = @ \cup {id}]

\* ensure_receipt: an operation's recorded outcome is only ever refined
ReceiptConflict(op, r) ==
    /\ disk.receipt[op] # r
    /\ \/ disk.receipt[op] = "committed"
       \/ disk.receipt[op] = "unknown" /\ r = "rolled_back"

-----------------------------------------------------------------------------
(* The gate *)

RecoveryLocations ==
    {"scan", "rec", "rec_receipt", "rec_backup", "rec_staging", "rec_anchor",
     "rec_rollback", "rec_retire", "sweep"}

CommitLocations ==
    {"admit", "own", "anchor", "journal", "backup", "publish", "restore",
     "undo_anchor", "undo_journal", "undone", "receipt", "clean", "unanchor",
     "retire", "done", "copy", "direct", "direct_done"}

Locations ==
    {"idle", "down", "refused", "settle", "settled", "b_debt", "b_bin",
     "d_debt", "d_bin", "d_done", "w_trash", "w_debt", "w_done", "prune"}
    \cup RecoveryLocations \cup CommitLocations

Recovering ==
    \/ pc \in RecoveryLocations
    \/ pc \in {"settle", "settled", "b_debt", "b_bin"} /\ ret \in RecoveryLocations
Online == pc \notin {"down", "refused"} /\ ~ Recovering /\ ~ booting

Goto(l) == pc' = l /\ UNCHANGED ret

\* take the gate; settle_publication runs before anything else
Enter(l) == /\ pc' = IF pending = Void THEN l ELSE "settle"
            /\ ret' = l

\* settle_publication
Settle ==
    /\ pc = "settle"
    /\ Write([disk EXCEPT !.journal[pending].published = TRUE], {"journals"}, {"journals"})
    /\ pc' = "settled"
    /\ UNCHANGED <<ret, cur, stage, info, owner, pending, rec, batch, budget>>

Settled ==
    /\ pc = "settled"
    /\ Sync
    /\ pending' = Void /\ pc' = ret
    /\ UNCHANGED <<ret, cur, stage, info, owner, rec, batch, budget>>

\* a journal of another transaction still claims path p and is unresolved
Contested(p, id) ==
    \E j \in Ids \ {id} : /\ disk.journal[j] # Void
                          /\ ~ disk.journal[j].published
                          /\ info[j].path = p

\* what the client may rely on after a successful answer
Acknowledge(p, c, id) == IF Contested(p, id) THEN allowed[p] \cup {c} ELSE {c}

Moves(id) == info[id].kind \in {"move", "rename"}

\* every content a started transaction may leave at its paths
Announce(i, id, c) ==
    [p \in Paths |-> (IF p = i.path THEN allowed[p] \cup {c} ELSE allowed[p])
                     \cup (IF p = i.src /\ i.kind \in {"move", "rename"} THEN {Void} ELSE {})]

\* publish returns: classify_upload_result on commit_state; NotCommitted with
\* pending cleanup is kept as Unknown by the ticket
Conclude(ok) ==
    /\ pc' = "idle" /\ UNCHANGED ret
    /\ stage' = "before"
    /\ owner' = [owner EXCEPT ![cur] =
                   IF ok \/ info[cur].kind \in {"move", "rename", "mkdir"} THEN "gone"
                   ELSE IF stage = "before" THEN "abandoned" ELSE "recovery"]
    /\ item' = IF Tracked(cur)
               THEN [item EXCEPT ![info[cur].op] =
                       IF ok THEN "complete"
                       ELSE IF stage = "published" THEN "complete_pending" ELSE "unknown"]
               ELSE item
    /\ allowed' =
         IF ok THEN [p \in Paths |->
                       IF p = info[cur].path THEN Acknowledge(p, disk.dest[p], cur)
                       ELSE IF p = info[cur].src /\ Moves(cur) THEN Acknowledge(p, Void, cur)
                       ELSE allowed[p]]
         ELSE IF stage = "before" /\ ~ Moves(cur)
              THEN [allowed EXCEPT ![info[cur].path] = @ \ {cur}]
              ELSE allowed
    /\ UNCHANGED <<cur, info, pending, rec, window>>

-----------------------------------------------------------------------------
(* Staging, outside the gate *)

\* TransactionId::new: which of the unused ids it is makes no difference
Fresh(id) ==
    /\ id \in scene.ids /\ info[id] = Void
    /\ \A j \in scene.ids : j < id /\ (j \in Trees <=> id \in Trees) => info[j] # Void

\* begin_atomic_write after the precheck of upload_file_mode_inner, and the
\* body received: a private file in uploads/
Stage(id, kind, p, op) ==
    /\ Online /\ kind \in scene.kinds \cap {"new", "put"}
    /\ Fresh(id) /\ id \notin Trees
    /\ IF kind = "new"
       THEN /\ op \in scene.ops /\ p = OpPath[op]
            /\ item[op] \in {"pending", "failed"}
            /\ disk.dest[p] = Void
            /\ item' = [item EXCEPT ![op] = "running"]
       ELSE /\ op = Void /\ disk.dest[p] \notin Trees
            /\ UNCHANGED item
    /\ info' = [info EXCEPT ![id] = [kind |-> kind, path |-> p, src |-> Void, op |-> op]]
    /\ owner' = [owner EXCEPT ![id] = "writer"]
    /\ disk' = [disk EXCEPT !.upload = @ \cup {id}]
    /\ crash' = {[img |-> c.img, later |-> c.later \cup {"uploads"}] : c \in crash}
                   \cup {[img |-> disk', later |-> {}]}
    /\ UNCHANGED <<dirty, pc, ret, cur, stage, pending, rec, window, allowed, budget>>

\* the request body ends early or the deadline fires: the writer is dropped,
\* its staging file handed to the cleanup worker, the ticket item Failed
Abandon(id) ==
    /\ owner[id] = "writer" /\ ~ (cur = id /\ pc # "idle")
    /\ owner' = [owner EXCEPT ![id] = "abandoned"]
    /\ item' = IF Tracked(id) THEN [item EXCEPT ![info[id].op] = "failed"] ELSE item
    /\ UNCHANGED <<fs, pc, ret, cur, stage, info, pending, rec, window, allowed, budget>>

\* the staging cleanup worker removes only what was handed to it
CleanAbandoned(id) ==
    /\ owner[id] = "abandoned" /\ pc \notin {"down", "refused"}
    /\ owner' = [owner EXCEPT ![id] = "gone"]
    /\ disk' = [disk EXCEPT !.upload = @ \ {id}, !.copies = @ \ {id}]
    /\ crash' = {[img |-> c.img, later |-> c.later \cup {SourceDir(id)}] : c \in crash}
                   \cup {[img |-> disk', later |-> {}]}
    /\ UNCHANGED <<dirty, pc, ret, cur, stage, info, pending, rec, batch, budget>>

-----------------------------------------------------------------------------
(* commit_file_with_operation, commit_transfer and publish_replacement *)

\* a complete upload takes the mutation gate
Commit(id) ==
    /\ pc = "idle" /\ ~ booting /\ owner[id] = "writer"
    /\ cur' = id /\ Enter("admit")
    /\ allowed' = Announce(info[id], id, id)
    /\ UNCHANGED <<fs, stage, info, owner, pending, rec, item, window, budget>>

\* WebDAV COPY/MOVE, browser copy/move and create_directory take the gate
Transfer(id, kind, s, p) ==
    LET i == [kind |-> kind, path |-> p, src |-> s, op |-> Void]
        c == IF kind \in {"move", "rename"} THEN disk.dest[s] ELSE id
    IN /\ pc = "idle" /\ ~ booting /\ kind \in scene.kinds \ {"new", "put", "delete"}
       /\ Fresh(id)
       /\ IF kind = "mkdir" THEN s = Void /\ id \in Trees
          ELSE /\ s \in Paths \ {p} /\ disk.dest[s] # Void
               /\ kind \in {"copy", "copynew"} => (id \in Trees <=> disk.dest[s] \in Trees)
       /\ kind \in {"mkdir", "rename", "copynew"} => disk.dest[p] = Void
       /\ info' = [info EXCEPT ![id] = i]
       /\ owner' = [owner EXCEPT ![id] = "writer"]
       /\ cur' = id
       /\ Enter(IF kind \in {"copy", "copynew"} THEN "copy"
                ELSE IF kind = "move" THEN "own" ELSE "direct")
       /\ allowed' = Announce(i, id, c)
       /\ UNCHANGED <<fs, stage, pending, rec, item, window, budget>>

\* a tracked upload takes a free name; any other replaces a file, never a tree
DestinationTaken ==
    disk.dest[info[cur].path] \in (IF Tracked(cur) THEN Contents ELSE Trees)

\* destination checks, then check_receipt_capacity drops the rollback proof
\* of an earlier attempt
Admit ==
    /\ pc = "admit"
    /\ ~ DestinationTaken
    /\ IF Tracked(cur) /\ disk.receipt[info[cur].op] = "rolled_back"
       THEN Write([disk EXCEPT !.receipt[info[cur].op] = "none"], {"receipts"}, {"receipts"})
       ELSE Sync
    /\ Goto("own")
    /\ UNCHANGED <<cur, stage, info, owner, pending, rec, batch, budget>>

\* the destination was taken while the body was received
Reject ==
    /\ pc = "admit"
    /\ DestinationTaken
    /\ Conclude(FALSE)
    /\ UNCHANGED <<fs, budget>>

\* the copied tree is built in copies/
CopyStaging ==
    /\ pc = "copy"
    /\ Write([disk EXCEPT !.copies = @ \cup {cur}], {"copies"}, {})
    /\ Goto(IF info[cur].kind = "copy" THEN "own" ELSE "direct")
    /\ UNCHANGED <<cur, stage, info, owner, pending, rec, batch, budget>>

\* recovery owns the staging resource before the first journal I/O
TakeOwnership ==
    /\ pc = "own"
    /\ Sync
    /\ stage' = "awaiting"
    /\ owner' = [owner EXCEPT ![cur] = "recovery"]
    /\ Goto(IF Anchored(cur) THEN "anchor" ELSE "journal")
    /\ UNCHANGED <<cur, info, pending, rec, batch, budget>>

LinkAnchor ==
    /\ pc = "anchor"
    /\ Write([disk EXCEPT !.anchor = @ \cup {cur}], {"anchors"}, {"anchors"})
    /\ Goto("journal")
    /\ UNCHANGED <<cur, stage, info, owner, pending, rec, batch, budget>>

WriteJournal ==
    /\ pc = "journal"
    /\ Write([disk EXCEPT !.journal[cur] = [published |-> FALSE, anchored |-> Anchored(cur)]],
             {"journals"}, {"journals"})
    /\ Goto(IF disk.dest[info[cur].path] = Void THEN "publish" ELSE "backup")
    /\ UNCHANGED <<cur, stage, info, owner, pending, rec, batch, budget>>

BackupDestination ==
    /\ pc = "backup"
    /\ LET p == info[cur].path
       IN Write([disk EXCEPT !.dest[p] = Void, !.backup[cur] = disk.dest[p]],
                {p, "backups"}, {})
    /\ Goto("publish")
    /\ UNCHANGED <<cur, stage, info, owner, pending, rec, batch, budget>>

PublishRename ==
    /\ pc = "publish"
    /\ Write(Published(disk, cur), {info[cur].path, SourceDir(cur)},
             {info[cur].path, SourceDir(cur)})
    /\ stage' = "published"
    /\ pending' = cur
    /\ pc' = "settle" /\ ret' = "receipt"
    /\ UNCHANGED <<cur, info, owner, rec, batch, budget>>

\* the publishing rename fails; roll back
RenameFails ==
    /\ pc = "publish" /\ errors < scene.maxErrors /\ crashes + errors < scene.maxFaults
    /\ errors' = errors + 1
    /\ Sync
    /\ Goto("restore")
    /\ UNCHANGED <<cur, stage, info, owner, pending, rec, batch, scene, crashes>>

RestoreBackup ==
    /\ pc = "restore"
    /\ LET p == info[cur].path
           ds == {p, "backups", SourceDir(cur)}
       IN IF disk.backup[cur] # Void
          THEN Write([disk EXCEPT !.dest[p] = disk.backup[cur], !.backup[cur] = Void],
                     {p, "backups"}, ds)
          ELSE Write(disk, {}, ds)
    /\ Goto("undo_anchor")
    /\ UNCHANGED <<cur, stage, info, owner, pending, rec, batch, budget>>

RemoveAnchor(img, id, j) ==
    IF j.anchored THEN Write([img EXCEPT !.anchor = @ \ {id}], {"anchors"}, {"anchors"})
                  ELSE Sync

RemoveJournal(id) ==
    Write([disk EXCEPT !.journal[id] = Void], {"journals"}, {"journals"})

UndoAnchor ==
    /\ pc = "undo_anchor"
    /\ RemoveAnchor(disk, cur, disk.journal[cur])
    /\ Goto("undo_journal")
    /\ UNCHANGED <<cur, stage, info, owner, pending, rec, batch, budget>>

UndoJournal ==
    /\ pc = "undo_journal"
    /\ RemoveJournal(cur)
    /\ Goto("undone")
    /\ UNCHANGED <<cur, stage, info, owner, pending, rec, batch, budget>>

\* rollback_completed: the writer owns its staging file again
RollbackCompleted ==
    /\ pc = "undone"
    /\ Sync
    /\ pc' = "idle" /\ UNCHANGED ret
    /\ stage' = "before"
    /\ owner' = [owner EXCEPT ![cur] = IF Moves(cur) THEN "gone" ELSE "abandoned"]
    /\ item' = IF Tracked(cur) THEN [item EXCEPT ![info[cur].op] = "unknown"] ELSE item
    /\ allowed' = IF Moves(cur) THEN allowed
                  ELSE [allowed EXCEPT ![info[cur].path] = @ \ {cur}]
    /\ UNCHANGED <<cur, info, pending, rec, window, budget>>

\* mutant: the journal is retired before the backup is cleaned up
WriteReceiptSkipsCleanup ==
    /\ pc = "receipt"
    /\ Sync
    /\ Goto("retire")
    /\ UNCHANGED <<cur, stage, info, owner, pending, rec, batch, budget>>

\* after settle_publication: the durable result of the operation
WriteReceipt ==
    /\ pc = "receipt"
    /\ IF Tracked(cur)
       THEN Write([disk EXCEPT !.receipt[info[cur].op] = "committed"], {"receipts"}, {"receipts"})
       ELSE Sync
    /\ Goto("clean")
    /\ UNCHANGED <<cur, stage, info, owner, pending, rec, batch, budget>>

\* cleanup_replacement_backup: a file is removed, a tree is staged for deletion
CleanupBackup(id, next) ==
    /\ IF disk.backup[id] \in Contents \ Trees
       THEN Write([disk EXCEPT !.backup[id] = Void], {"backups"}, {"backups"})
       ELSE Sync
    /\ IF disk.backup[id] \in Trees THEN pc' = "b_debt" /\ ret' = next
                                    ELSE pc' = next /\ UNCHANGED ret

CleanBackup ==
    /\ pc = "clean"
    /\ CleanupBackup(cur, "unanchor")
    /\ UNCHANGED <<cur, stage, info, owner, pending, rec, batch, budget>>

Unanchor ==
    /\ pc = "unanchor"
    /\ RemoveAnchor(disk, cur, disk.journal[cur])
    /\ Goto("retire")
    /\ UNCHANGED <<cur, stage, info, owner, pending, rec, batch, budget>>

Retire ==
    /\ pc = "retire"
    /\ RemoveJournal(cur)
    /\ Goto("done")
    /\ UNCHANGED <<cur, stage, info, owner, pending, rec, batch, budget>>

Done ==
    /\ pc \in {"done", "direct_done"}
    /\ Sync
    /\ Conclude(TRUE)
    /\ UNCHANGED budget

\* move_path, publish_noreplace of a browser copy, create_directory
DirectChange ==
    /\ pc = "direct"
    /\ LET p == info[cur].path
           ds == {p} \cup (IF info[cur].kind = "mkdir" THEN {} ELSE {SourceDir(cur)})
       IN Write(Published(disk, cur), ds, ds)
    /\ stage' = "published"
    /\ Goto("direct_done")
    /\ UNCHANGED <<cur, info, owner, pending, rec, batch, budget>>

-----------------------------------------------------------------------------
(* stage_delete and its cleanup *)

\* the debt record of a tree leaving backups/, then its rename into trash/
BackupDebt ==
    /\ pc = "b_debt"
    /\ Write([disk EXCEPT !.debt = @ \cup {disk.backup[cur]}], {"deletions"}, {"deletions"})
    /\ Goto("b_bin")
    /\ UNCHANGED <<cur, stage, info, owner, pending, rec, batch, budget>>

BackupToTrash ==
    /\ pc = "b_bin"
    /\ Write([disk EXCEPT !.backup[cur] = Void, !.trash = @ \cup {disk.backup[cur]}],
             {"backups", "trash"}, {"backups", "trash"})
    /\ Goto(ret)
    /\ UNCHANGED <<cur, stage, info, owner, pending, rec, batch, budget>>

Delete(p) ==
    /\ pc = "idle" /\ ~ booting /\ "delete" \in scene.kinds /\ disk.dest[p] # Void
    /\ cur' = p /\ Enter("d_debt")
    /\ allowed' = [allowed EXCEPT ![p] = @ \cup {Void}]
    /\ UNCHANGED <<fs, stage, info, owner, pending, rec, item, window, budget>>

DeleteDebt ==
    /\ pc = "d_debt"
    /\ Write([disk EXCEPT !.debt = @ \cup {disk.dest[cur]}], {"deletions"}, {"deletions"})
    /\ Goto("d_bin")
    /\ UNCHANGED <<cur, stage, info, owner, pending, rec, batch, budget>>

DeleteToTrash ==
    /\ pc = "d_bin"
    /\ Write([disk EXCEPT !.dest[cur] = Void, !.trash = @ \cup {disk.dest[cur]}],
             {cur, "trash"}, {cur, "trash"})
    /\ Goto("d_done")
    /\ UNCHANGED <<cur, stage, info, owner, pending, rec, batch, budget>>

DeleteDone ==
    /\ pc = "d_done"
    /\ Sync
    /\ Goto("idle")
    /\ allowed' = [allowed EXCEPT ![cur] = Acknowledge(cur, Void, Void)]
    /\ UNCHANGED <<cur, stage, info, owner, pending, rec, item, window, budget>>

\* trees in the trash, and records whose tree is gone
StagedDeletions == disk.trash \cup disk.debt

\* remove_bounded until the tree is complete; its directory is synced next
RemoveTree(c) == Write([disk EXCEPT !.trash = @ \ {c}], {"trash"}, {"trash"})

\* mutant: the record is retired while its tree is still in the trash
CleanupStartRecordFirst(c) ==
    /\ pc = "idle" /\ ~ booting /\ c \in StagedDeletions
    /\ cur' = c /\ Goto("w_debt")
    /\ UNCHANGED <<fs, stage, info, owner, pending, rec, batch, budget>>

\* cleanup_pass takes the gate for one staged deletion
CleanupStart(c) ==
    /\ pc = "idle" /\ ~ booting /\ c \in StagedDeletions
    /\ cur' = c /\ Goto("w_trash")
    /\ UNCHANGED <<fs, stage, info, owner, pending, rec, batch, budget>>

CleanupTrash ==
    /\ pc = "w_trash"
    /\ RemoveTree(cur)
    /\ Goto("w_debt")
    /\ UNCHANGED <<cur, stage, info, owner, pending, rec, batch, budget>>

\* finish_staged_deletion
CleanupDebt ==
    /\ pc = "w_debt"
    /\ Write([disk EXCEPT !.debt = @ \ {cur}], {"deletions"}, {"deletions"})
    /\ Goto("w_done")
    /\ UNCHANGED <<cur, stage, info, owner, pending, rec, batch, budget>>

CleanupDone ==
    /\ pc = "w_done"
    /\ Sync
    /\ Goto("idle")
    /\ UNCHANGED <<cur, stage, info, owner, pending, rec, batch, budget>>

-----------------------------------------------------------------------------
(* The ticket: receipts read and pruned *)

\* receipt_outcome: what the receipt of an operation proves
ReceiptOutcome(op) ==
    CASE disk.receipt[op] = "committed" -> "complete"
      [] disk.receipt[op] = "rolled_back" -> "failed"
      [] OTHER -> "unknown"

\* recovered_upload_outcome and confirm_unknown_outcome, after a recovery that
\* settled every journal
Confirm(op) ==
    /\ pc = "idle" /\ ~ booting /\ op \in window
    /\ window' = window \ {op}
    /\ ReceiptOutcome(op) # "unknown"
    /\ item' = [item EXCEPT ![op] = ReceiptOutcome(op)]
    /\ allowed' = IF disk.receipt[op] = "rolled_back"
                  THEN [allowed EXCEPT ![OpPath[op]] =
                          {c \in @ : ~ (c \in Ids /\ info[c] # Void /\ info[c].op = op)}]
                  ELSE allowed
    /\ UNCHANGED <<fs, pc, ret, cur, stage, info, owner, pending, rec, budget>>

\* the settled ticket is retired; prune_receipt
Prune(op) ==
    /\ pc = "idle" /\ ~ booting /\ item[op] \in {"complete", "complete_pending", "failed"}
    /\ item' = [item EXCEPT ![op] = "retired"]
    /\ IF disk.receipt[op] = "none" THEN UNCHANGED fs
       ELSE Write([disk EXCEPT !.receipt[op] = "none"], {"receipts"}, {"receipts"})
    /\ Goto("prune")
    /\ UNCHANGED <<cur, stage, info, owner, pending, rec, window, allowed, budget>>

Pruned ==
    /\ pc = "prune"
    /\ Sync
    /\ Goto("idle")
    /\ UNCHANGED <<cur, stage, info, owner, pending, rec, batch, budget>>

-----------------------------------------------------------------------------
(* recover *)

Unpublished(img, id) == img.journal[id] # Void /\ ~ img.journal[id].published

\* read_recovery_inventory stops before it changes anything
Ambiguous(img) ==
    \/ \E i, j \in Ids : /\ i # j /\ Unpublished(img, i) /\ Unpublished(img, j)
                         /\ info[i].path = info[j].path
    \/ \E i \in Ids : /\ Unpublished(img, i) /\ info[i].kind \in {"new", "put"}
                      /\ img.dest[info[i].path] \in Trees
    \/ \E i \in Ids : img.backup[i] # Void /\ img.journal[i] = Void
    \/ \E i \in img.anchor : img.journal[i] # Void /\ ~ img.journal[i].anchored
    \/ img.copies \cap (img.trash \cup img.debt) # {}

\* recover_replacement: what this journal's evidence shows
DestExists(img, j) == ~ img.journal[j].published /\ img.dest[info[j].path] # Void
AnchoredPublication(img, j) ==
    /\ img.journal[j].anchored /\ ~ img.journal[j].published
    /\ j \in img.anchor /\ DestExists(img, j) /\ ~ SourceExists(img, j)
    /\ img.dest[info[j].path] = j
Unverifiable(img, j) ==
    \/ /\ ~ img.journal[j].published /\ SourceExists(img, j)
       /\ img.backup[j] # Void /\ DestExists(img, j)
    \/ /\ img.journal[j].anchored /\ DestExists(img, j) /\ ~ SourceExists(img, j)
       /\ ~ AnchoredPublication(img, j)
\* mutant: only the published mark is believed
EvidenceMarkOnly(img, j) ==
    IF img.journal[j].published THEN "committed" ELSE "rolled_back"

Evidence(img, j) ==
    IF img.journal[j].published \/ AnchoredPublication(img, j) THEN "committed"
    ELSE IF DestExists(img, j) /\ ~ SourceExists(img, j) THEN "unknown" ELSE "rolled_back"

\* initialize after a start, or an administrator's retry
Boot ==
    /\ pc = "down"
    /\ booting' = TRUE /\ Goto("scan")
    /\ UNCHANGED <<fs, cur, stage, info, owner, pending, todo, verdict, batch, budget>>

\* recover_quiesced_uploads: the lifecycle guard has drained every writer
RecoverOnline ==
    /\ pc = "idle" /\ ~ booting
    /\ \A id \in Ids : owner[id] # "writer"
    /\ \E op \in Ops : item[op] = "unknown"
    /\ Enter("scan") /\ window' = {}
    /\ UNCHANGED <<fs, cur, stage, info, owner, pending, rec, item, allowed, budget>>

\* recovery stops with an error and retains every resource
Stop == /\ pc' = IF booting THEN "refused" ELSE "idle"
        /\ booting' = FALSE /\ todo' = NoTodo /\ UNCHANGED <<ret, verdict>>

\* the inventory of every internal directory, read before the first change
Inventory(img) ==
    [journals |-> {id \in Ids : img.journal[id] # Void}, uploads |-> img.upload,
     anchors |-> img.anchor, copies |-> img.copies, trash |-> img.trash, debt |-> img.debt]

Scan ==
    /\ pc = "scan"
    /\ IF Ambiguous(disk) THEN Stop
       ELSE /\ todo' = Inventory(disk)
            /\ Goto("rec") /\ UNCHANGED <<booting, verdict>>
    /\ UNCHANGED <<fs, cur, stage, info, owner, pending, batch, budget>>

\* pick a journal and judge it
Judge(j) ==
    /\ pc = "rec" /\ j \in todo.journals
    /\ Sync
    /\ cur' = j
    /\ IF Tracked(j) /\ disk.receipt[info[j].op] = "rolled_back"
       THEN Goto("rec_retire") /\ UNCHANGED rec
       ELSE IF Unverifiable(disk, j) THEN Stop
       ELSE Goto("rec_receipt") /\ verdict' = Evidence(disk, j) /\ UNCHANGED <<booting, todo>>
    /\ UNCHANGED <<stage, info, owner, pending, batch, budget>>

\* ensure_receipt of the journal's operation, or its outcome collision
RecordOutcome(next) ==
    IF Tracked(cur) /\ ReceiptConflict(info[cur].op, verdict) THEN Sync /\ Stop
    ELSE /\ IF Tracked(cur)
            THEN Write([disk EXCEPT !.receipt[info[cur].op] = verdict], {"receipts"}, {"receipts"})
            ELSE Sync
         /\ Goto(next) /\ UNCHANGED rec

RecordCommitted ==
    /\ pc = "rec_receipt"
    /\ IF verdict = "rolled_back" THEN Sync /\ Goto("rec_backup") /\ UNCHANGED rec
                                  ELSE RecordOutcome("rec_backup")
    /\ UNCHANGED <<cur, stage, info, owner, pending, batch, budget>>

\* mutant: recovery cleans the backup of an unpublished replacement
RecoverBackupCleans ==
    /\ pc = "rec_backup"
    /\ CleanupBackup(cur, "rec_staging")
    /\ UNCHANGED <<cur, stage, info, owner, pending, rec, batch, budget>>

RecoverBackup ==
    /\ pc = "rec_backup"
    /\ LET p == info[cur].path
       IN IF disk.backup[cur] # Void /\ disk.dest[p] = Void /\ ~ disk.journal[cur].published
          THEN /\ Write([disk EXCEPT !.dest[p] = disk.backup[cur], !.backup[cur] = Void],
                        {p, "backups"}, {p, "backups"})
               /\ Goto("rec_staging")
          ELSE CleanupBackup(cur, "rec_staging")
    /\ UNCHANGED <<cur, stage, info, owner, pending, rec, batch, budget>>

\* handoff_recovered_copy
HandOff(id) ==
    IF id \in disk.copies
    THEN Write([disk EXCEPT !.copies = @ \ {id}, !.trash = @ \cup {id}],
               {"copies", "trash"}, {"copies", "trash"})
    ELSE Sync

RecoverStaging ==
    /\ pc = "rec_staging"
    /\ CASE info[cur].kind = "copy" -> HandOff(cur)
         [] info[cur].kind = "move" -> Sync
         [] OTHER -> Write([disk EXCEPT !.upload = @ \ {cur}], {"uploads"}, {"uploads"})
    /\ Goto("rec_anchor")
    /\ UNCHANGED <<cur, stage, info, owner, pending, rec, batch, budget>>

RecoverAnchor ==
    /\ pc = "rec_anchor"
    /\ RemoveAnchor(disk, cur, disk.journal[cur])
    /\ Goto("rec_rollback")
    /\ UNCHANGED <<cur, stage, info, owner, pending, rec, batch, budget>>

RecordRolledBack ==
    /\ pc = "rec_rollback"
    /\ IF verdict # "rolled_back" THEN Sync /\ Goto("rec_retire") /\ UNCHANGED rec
                                  ELSE RecordOutcome("rec_retire")
    /\ UNCHANGED <<cur, stage, info, owner, pending, batch, budget>>

RecoverRetire ==
    /\ pc = "rec_retire"
    /\ RemoveJournal(cur)
    /\ todo' = [todo EXCEPT !.journals = @ \ {cur}]
    /\ Goto("rec")
    /\ UNCHANGED <<cur, stage, info, owner, pending, booting, verdict, batch, budget>>

JournalsDone ==
    /\ pc = "rec" /\ todo.journals = {}
    /\ Sync
    /\ Goto("sweep") /\ cur' = Void
    /\ UNCHANGED <<stage, info, owner, pending, rec, batch, budget>>

SweepUpload(id) ==
    /\ pc = "sweep" /\ id \in todo.uploads
    /\ Write([disk EXCEPT !.upload = @ \ {id}], {"uploads"}, {"uploads"})
    /\ todo' = [todo EXCEPT !.uploads = @ \ {id}]
    /\ UNCHANGED <<pc, ret, cur, stage, info, owner, pending, booting, verdict, batch, budget>>

SweepAnchor(id) ==
    /\ pc = "sweep" /\ todo.uploads = {} /\ id \in todo.anchors
    /\ IF id \in disk.anchor
       THEN Write([disk EXCEPT !.anchor = @ \ {id}], {"anchors"}, {"anchors"}) ELSE Sync
    /\ todo' = [todo EXCEPT !.anchors = @ \ {id}]
    /\ UNCHANGED <<pc, ret, cur, stage, info, owner, pending, booting, verdict, batch, budget>>

SweepCopy(id) ==
    /\ pc = "sweep" /\ todo.uploads = {} /\ todo.anchors = {} /\ id \in todo.copies
    /\ HandOff(id)
    /\ todo' = [todo EXCEPT !.copies = @ \ {id},
                            !.trash = IF id \in disk.copies THEN @ \cup {id} ELSE @]
    /\ UNCHANGED <<pc, ret, cur, stage, info, owner, pending, booting, verdict, batch, budget>>

\* within the node budget the entry is removed and its debt retired next,
\* otherwise both are retained
SweepTrash(c) ==
    /\ pc = "sweep" /\ c \in todo.trash /\ cur \notin todo.debt
    /\ cur' = c
    /\ todo.uploads = {} /\ todo.anchors = {} /\ todo.copies = {}
    /\ \/ /\ RemoveTree(c)
          /\ todo' = [todo EXCEPT !.trash = @ \ {c}]
       \/ /\ Sync
          /\ todo' = [todo EXCEPT !.trash = @ \ {c}, !.debt = @ \ {c}]
    /\ UNCHANGED <<pc, ret, stage, info, owner, pending, booting, verdict, batch, budget>>

\* debt without its tree on this page is retired once the page is done, and
\* only when the tree is absent
SweepDebt(c) ==
    /\ pc = "sweep" /\ c \in todo.debt
    /\ todo.uploads = {} /\ todo.anchors = {} /\ todo.copies = {}
    /\ c = cur \/ todo.trash = {}
    /\ IF c \in disk.trash THEN Sync
       ELSE Write([disk EXCEPT !.debt = @ \ {c}], {"deletions"}, {"deletions"})
    /\ todo' = [todo EXCEPT !.debt = @ \ {c}]
    /\ UNCHANGED <<pc, ret, cur, stage, info, owner, pending, booting, verdict, batch, budget>>

RecoveryDone ==
    /\ pc = "sweep" /\ todo = NoTodo
    /\ Sync
    /\ Goto("idle")
    /\ booting' = FALSE /\ owner' = [id \in Ids |-> IF owner[id] = "unused" THEN "unused" ELSE "gone"]
    /\ window' = IF booting THEN {} ELSE {op \in Ops : item[op] = "unknown"}
    /\ UNCHANGED <<cur, stage, info, pending, todo, verdict, item, allowed, budget>>

-----------------------------------------------------------------------------
(* Failures *)

\* a system call fails: the error leaves the gate, what is on disk stays
Fail ==
    /\ errors < scene.maxErrors /\ crashes + errors < scene.maxFaults
    /\ errors' = errors + 1
    /\ dirty' = {}
    /\ UNCHANGED <<disk, crash, scene, crashes>>
    /\ \/ /\ Recovering
          /\ pc' = IF booting THEN "down" ELSE "idle"
          /\ booting' = FALSE /\ todo' = NoTodo
          /\ UNCHANGED <<ret, cur, stage, info, owner, pending, verdict, batch>>
       \/ /\ ~ Recovering
          /\ \/ pc \in CommitLocations
             \/ pc \in {"settle", "settled", "b_debt", "b_bin"} /\ ret \in CommitLocations
          /\ Conclude(FALSE)
       \/ /\ \/ pc \in {"d_debt", "d_bin", "d_done", "w_trash", "w_debt", "w_done", "prune"}
             \/ pc \in {"settle", "settled"} /\ ret = "d_debt"
          /\ Goto("idle")
          /\ UNCHANGED <<cur, stage, info, owner, pending, rec, batch>>

\* power failure, or the process is killed
Crash ==
    /\ pc # "down" /\ crashes < scene.maxCrashes /\ crashes + errors < scene.maxFaults
    /\ crashes' = crashes + 1
    /\ \E c \in crash : disk' = c.img /\ crash' = {[img |-> c.img, later |-> {}]}
    /\ dirty' = {} /\ pc' = "down" /\ ret' = "idle" /\ cur' = Void /\ stage' = "before"
    /\ owner' = [id \in Ids |-> IF info[id] = Void THEN "unused" ELSE "gone"]
    /\ pending' = Void /\ booting' = FALSE /\ todo' = NoTodo /\ verdict' = "unknown"
    /\ item' = [op \in Ops |-> IF item[op] = "running" THEN "unknown" ELSE item[op]]
    /\ window' = {}
    /\ UNCHANGED <<info, allowed, scene, errors>>

-----------------------------------------------------------------------------
InitImage ==
    [dest |-> scene.dest, upload |-> {}, copies |-> {}, backup |-> [id \in Ids |-> Void],
     trash |-> {}, debt |-> {}, anchor |-> {}, journal |-> [id \in Ids |-> Void],
     receipt |-> [op \in Ops |-> "none"], seen |-> {}]

Init ==
    /\ scene \in Scenes
    /\ disk = InitImage
    /\ crash = {[img |-> InitImage, later |-> {}]} /\ dirty = {}
    /\ pc = "idle" /\ ret = "idle" /\ cur = Void /\ stage = "before"
    /\ info = [id \in Ids |-> Void] /\ owner = [id \in Ids |-> "unused"]
    /\ pending = Void /\ booting = FALSE /\ todo = NoTodo /\ verdict = "unknown"
    /\ item = [op \in Ops |-> "pending"] /\ window = {}
    /\ allowed = [p \in Paths |-> {scene.dest[p]}]
    /\ crashes = 0 /\ errors = 0

Begin ==
    \/ \E id \in Ids : \/ Commit(id) \/ Abandon(id) \/ CleanAbandoned(id)
    \/ \E id \in Ids, kind \in {"new", "put"}, p \in Paths, op \in Ops \cup {Void} :
          Stage(id, kind, p, op)
    \/ \E id \in Ids, kind \in AllKinds, s \in Paths \cup {Void}, p \in Paths :
          Transfer(id, kind, s, p)
    \/ \E p \in Paths : Delete(p)
    \/ \E c \in Contents : CleanupStart(c)
    \/ \E op \in Ops : Confirm(op) \/ Prune(op)

Publication ==
    \/ Admit \/ Reject \/ CopyStaging \/ TakeOwnership \/ LinkAnchor \/ WriteJournal
    \/ BackupDestination \/ PublishRename \/ WriteReceipt \/ CleanBackup \/ Unanchor
    \/ Retire \/ Done \/ DirectChange

Rollback == RenameFails \/ RestoreBackup \/ UndoAnchor \/ UndoJournal \/ RollbackCompleted

Deletion ==
    \/ BackupDebt \/ BackupToTrash \/ DeleteDebt \/ DeleteToTrash \/ DeleteDone
    \/ CleanupTrash \/ CleanupDebt \/ CleanupDone \/ Pruned

Recovery ==
    \/ Boot \/ Scan \/ JournalsDone \/ RecordCommitted \/ RecoverBackup \/ RecoverStaging
    \/ RecoverAnchor \/ RecordRolledBack \/ RecoverRetire \/ RecoveryDone
    \/ \E id \in Ids : Judge(id) \/ SweepUpload(id) \/ SweepAnchor(id) \/ SweepCopy(id)
    \/ \E c \in Contents : SweepTrash(c) \/ SweepDebt(c)

Next ==
    \/ Begin \/ Settle \/ Settled \/ Publication \/ Rollback \/ Deletion
    \/ RecoverOnline \/ Recovery \/ Fail \/ Crash

Spec == Init /\ [][Next]_vars

-----------------------------------------------------------------------------
(* Properties *)

\* Type correctness of every variable and of every image a crash may leave.
TypeOK ==
    /\ disk \in Image
    /\ crash \subseteq [img : Image, later : SUBSET Dirs] /\ dirty \subseteq Dirs
    /\ pc \in Locations /\ ret \in Locations
    /\ cur \in Ids \cup Paths \cup Contents \cup {Void}
    /\ stage \in {"before", "awaiting", "published"}
    /\ info \in [Ids -> Info \cup {Void}]
    /\ owner \in [Ids -> {"unused", "writer", "abandoned", "recovery", "gone"}]
    /\ pending \in Ids \cup {Void} /\ booting \in BOOLEAN
    /\ todo \in [journals : SUBSET Ids, uploads : SUBSET Ids, anchors : SUBSET Ids,
                 copies : SUBSET Ids, trash : SUBSET Contents, debt : SUBSET Contents]
    /\ verdict \in {"committed", "unknown", "rolled_back"}
    /\ item \in [Ops -> {"pending", "running", "complete", "complete_pending",
                         "unknown", "failed", "retired"}]
    /\ window \subseteq Ops
    /\ allowed \in [Paths -> SUBSET (Contents \cup {Void})]
    /\ scene \in Scenes /\ crashes \in 0 .. scene.maxCrashes /\ errors \in 0 .. scene.maxErrors

Attempts(op) == {id \in Ids : info[id] # Void /\ info[id].op = op}

\* Whenever the service is up and nobody holds the gate, each path shows a
\* content its clients may find there: what was last acknowledged, or the
\* outcome of a transaction that ended in a crash or an error.  A path whose
\* old content is still parked by an unresolved journal may be empty.
\* (publish_replacement, recover_replacement: no crash and no single I/O error
\* loses an acknowledged file, brings back a deleted one, or shows an upload
\* that was reported as not committed.)
VisibleIsAllowed ==
    pc = "idle" =>
      \A p \in Paths :
        \/ disk.dest[p] \in allowed[p]
        \/ /\ disk.dest[p] = Void
           /\ \E id \in Ids : /\ Unpublished(disk, id) /\ info[id].path = p
                             /\ disk.backup[id] \in allowed[p]

\* The outcome of an upload ticket's item.  It is published at most once, however
\* often it is attempted and in whatever image a crash leaves (settle_publication
\* before any later mutation, check_receipt_capacity, a retry only after a proof of
\* rollback).  A receipt never lies, not even in such an image: "committed" only if
\* an attempt was published, "rolled_back" only if none was (ensure_receipt,
\* recover_replacement).  An item that is Complete without a reservation is published
\* in every image; one that is Failed, and so may be retried, is not published
\* (classify_upload_result, confirm_unknown_outcome).
OutcomesAreTrue ==
    \A op \in Ops :
      /\ \A c \in crash :
            /\ Cardinality(c.img.seen \cap Attempts(op)) <= 1
            /\ c.img.receipt[op] = "committed" => c.img.seen \cap Attempts(op) # {}
            /\ c.img.receipt[op] = "rolled_back" => c.img.seen \cap Attempts(op) = {}
            /\ item[op] = "complete" => c.img.seen \cap Attempts(op) # {}
      /\ item[op] = "failed" => disk.seen \cap Attempts(op) = {}

\* Crashes alone, at any point of any transaction and of recovery itself, never
\* leave a set of journals that startup recovery refuses (read_recovery_inventory,
\* recover_replacement): a refusal needs an earlier I/O error, or a second crash
\* after an upload with a publication anchor.
CrashesNeverBlockStartup ==
    pc = "refused" =>
      \/ errors > 0
      \/ crashes > 1 /\ \E id \in Ids : info[id] # Void /\ Anchored(id)

\* Bytes that left the user tree and are still on disk are covered by a durable
\* deletion record in every image (stage_delete, cleanup_pass, recover).
DebtCoversTrash ==
    \A c \in crash :
      \A x \in c.img.trash : (x \in Originals \/ x \in c.img.seen) => x \in c.img.debt

=============================================================================
