---------------------------- MODULE FileRequests ----------------------------
(***************************************************************************)
(* The requests on the files of one directory of one storage, local or S3: *)
(* conditional and plain writes, deletions, moves (StorageBackend and its  *)
(* callers in api.rs and webdav.rs), downloads with ranges and validators  *)
(* (storage/response.rs, s3_backend/object_read.rs, read_conditions.rs),   *)
(* archive downloads (archive.rs), and the listings of DirectoryListing.   *)
(*                                                                         *)
(* How a storage commits a change and recovers it is the subject of        *)
(* LocalTransaction and S3Transactions; here a change is the step in which *)
(* it becomes visible.  A version is a serial number: it stands for the    *)
(* content, for the ETag on S3, and orders the changes for the properties. *)
(***************************************************************************)
EXTENDS DirectoryListing

CONSTANTS
    Writers, Readers,
    Casts,          \* what a behaviour starts from: the files, the clients, what each
                    \* lister and writer may ask for, the budget of outside events
    MaxArchive,     \* max_archive_bytes
    Packer          \* the client that downloads archives

Conditions == {"always", "match", "exists", "absent", "changed", "unmodified"}
(* What the browser asks for, and WebDAV's PUT, MOVE and COPY.  Its DELETE *)
(* and MKCOL are the browser's operations under another right.             *)
Moves == {"move", "davmove"}
Transfers == Moves \cup {"copy", "davcopy"}
Operations == {"put", "new", "mkdir", "delete"} \cup Transfers
StorageActions == {"browse", "download", "upload", "create_directory", "move", "copy", "delete"}
WritableShare == "dav"     \* the WebDAV share exists, is enabled and not read-only

(* Outside events: listings given up by their clients, failed scans,       *)
(* seconds, foreign writes to the bucket, responses cut short, changes by  *)
(* the administrator.                                                      *)
Events == {"aborts", "errors", "ticks", "foreign", "breaks", "edits"}

ASSUME RequestAssumption ==
    /\ \A c \in Casts :
          /\ c.initial \in [Names -> [v : {0}, here : BOOLEAN, size : Nat, at : Nat]]
          /\ c.clients \subseteq Readers \cup {Packer}
          /\ c.keys \in [Listers -> SUBSET Keys]
          /\ c.asks \in [Writers -> SUBSET [op : Operations, n : Names, to : Names,
                                            cond : Conditions, size : Nat \ {0},
                                            over : BOOLEAN]]
          /\ c.budget \in [Events -> Nat]
    /\ MaxArchive \in Nat

VARIABLES
    now,        \* the clock, in seconds
    serial,     \* the next version
    gate,       \* the writer that owns the mutation gate of an S3 storage
    writer, reader, archive

vars == <<kind, files, access, answered, listing, now, serial, gate,
          writer, reader, archive, budget>>

-----------------------------------------------------------------------------
(* Conditions of a write.  The client has seen a version and its date;     *)
(* WriteConditions::parse keeps the date only without If-Match.            *)

ETag(f) == IF kind = "s3" THEN f.v ELSE None

(* TagCondition::matches for an existing file. *)
Matches(f, tag) == f.here /\ ETag(f) # None /\ ETag(f) = tag

(* WriteConditions::check; a named If-None-Match cannot be decided without *)
(* a tag.                                                                  *)
Check(c, f) ==
    CASE c.kind = "always" -> TRUE
      [] c.kind = "match" -> Matches(f, c.tag)
      [] c.kind = "exists" -> f.here
      [] c.kind = "absent" -> ~f.here
      [] c.kind = "changed" -> ~f.here \/ (ETag(f) # None /\ ETag(f) # c.tag)
      [] c.kind = "unmodified" -> ~f.here \/ f.at <= c.date

(* validate_write_conditions: S3 cannot compare dates when it publishes.   *)
Supported(c) == kind = "s3" => c.kind # "unmodified"

(* The right a handler asks for: the permissions of the account (api.rs,   *)
(* batch_operations.rs), or a WebDAV share (webdav/access.rs).             *)
NeededRight(op) == CASE op = "new" -> "upload"
                     [] op = "mkdir" -> "create_directory"
                     [] op \in {"delete", "move", "copy"} -> op
                     [] OTHER -> WritableShare

(* ensure_storage_action and the folder locks, which bind the browser. *)
Allowed(right) == right \in access.may /\ (right # WritableShare => ~access.locked)

-----------------------------------------------------------------------------
(* What the operations find wrong with the directory.                      *)

UploadRefused(r) ==
    IF r.op = "put" THEN ~Supported(r.cond) \/ ~Check(r.cond, files[r.n]) ELSE files[r.n].here

CreateRefused(r) == files[r.n].here

RemoveRefused(r) == ~files[r.n].here

(* A copy in the browser, and every WebDAV transfer on S3, has looked at   *)
(* the size of its source before it waited for the gate.                   *)
SizeIsExpected(r) == r.op = "copy" \/ (kind = "s3" /\ r.op \in {"davmove", "davcopy"})

TransferRefused(r) ==
    \/ ~files[r.n].here
    \/ files[r.to].here /\ ~r.over
    \/ SizeIsExpected(r) /\ files[r.n].size # r.size

Refused(r) ==
    CASE r.op \in {"put", "new"} -> UploadRefused(r)
      [] r.op = "mkdir" -> CreateRefused(r)
      [] r.op = "delete" -> RemoveRefused(r)
      [] OTHER -> TransferRefused(r)

(* Before the gate: an upload before its body is read, the others when     *)
(* they resolve what they work on.                                         *)
RefusedEarly(r) ==
    CASE r.op \in {"put", "new"} -> UploadRefused(r)
      [] r.op = "mkdir" -> FALSE
      [] OTHER -> \/ ~files[r.n].here
                  \/ kind = "s3" /\ r.op \in {"davmove", "davcopy"} /\ files[r.to].here /\ ~r.over

-----------------------------------------------------------------------------
(* Visible changes. *)

Absent(f) == [f EXCEPT !.v = serial, !.here = FALSE]
Present(size, at) == [v |-> serial, here |-> TRUE, size |-> size, at |-> at]

Uploaded(r) == [files EXCEPT ![r.n] = Present(r.size, now)]
Created(r) == [files EXCEPT ![r.n] = Present(0, now)]
Removed(r) == [files EXCEPT ![r.n] = Absent(@)]
Copied(r) == [files EXCEPT ![r.to] = Present(files[r.n].size, now)]

(* A rename keeps the modification time; on S3 a move begins as a copy.    *)
Moved(r) ==
    IF kind = "s3" THEN Copied(r)
    ELSE [files EXCEPT ![r.to] = Present(files[r.n].size, files[r.n].at), ![r.n] = Absent(@)]

Changed(r) ==
    CASE r.op \in {"put", "new"} -> Uploaded(r)
      [] r.op = "mkdir" -> Created(r)
      [] r.op = "delete" -> Removed(r)
      [] r.op \in Moves -> Moved(r)
      [] OTHER -> Copied(r)

(* What the operation writes over. *)
Target(r) == IF r.op \in Transfers THEN r.to ELSE r.n

(* The names whose version the change has set. *)
Marks(r) == {[n |-> m, v |-> serial] : m \in
                 {Target(r)} \cup (IF r.op \in Moves /\ kind = "local" THEN {r.n} ELSE {})}

Change(w) ==
    /\ files' = Changed(writer[w].req)
    /\ serial' = serial + 1

-----------------------------------------------------------------------------
(* Writers. *)

IdleWriter == [phase |-> "idle", asks |-> {}, req |-> None, guard |-> None, aim |-> None,
               over |-> None, made |-> {}]

Goes(w, phase) == writer' = [writer EXCEPT ![w].phase = phase]

WriterRest == UNCHANGED <<kind, access, answered, listing, now, reader, archive, budget>>

(* The client decides from what it has seen of the file. *)
Plan(w) ==
    /\ writer[w].phase = "idle"
    /\ \E q \in writer[w].asks :
          writer' = [writer EXCEPT
              ![w].phase = "begin", ![w].asks = {},
              ![w].req = [op |-> q.op, n |-> q.n, to |-> q.to, size |-> q.size, over |-> q.over,
                          cond |-> [kind |-> q.cond, tag |-> files[q.n].v,
                                    date |-> files[q.n].at]]]
    /\ UNCHANGED <<files, serial, gate>> /\ WriterRest

(* The handler admits the request.  Without the right, nothing runs.       *)
BeginWrite(w) ==
    LET r == writer[w].req IN
    /\ writer[w].phase = "begin"
    /\ writer' = [writer EXCEPT
           ![w].phase = IF ~Allowed(NeededRight(r.op)) THEN "done"
                        ELSE IF RefusedEarly(r) THEN "answer" ELSE "commit",
           ![w].req.size = IF r.op \in Transfers THEN files[r.n].size ELSE @]
    /\ UNCHANGED <<files, serial, gate>> /\ WriterRest

(* Local: the destination is looked at again and replaced under the        *)
(* mutation gate (PublicationAccounting::check_destination).               *)
CommitLocal(w) ==
    LET r == writer[w].req IN
    /\ kind = "local" /\ writer[w].phase = "commit"
    /\ IF Refused(r)
       THEN Goes(w, "answer") /\ UNCHANGED <<files, serial>>
       ELSE /\ Change(w)
            /\ writer' = [writer EXCEPT ![w].phase = "answer", ![w].over = files[Target(r)],
                                        ![w].made = Marks(r)]
    /\ UNCHANGED gate /\ WriterRest

(* S3: with the mutation gate, source and destination are looked at again  *)
(* and what was found becomes the guard of the publication.                *)
Decide(w) ==
    LET r == writer[w].req IN
    /\ kind = "s3" /\ writer[w].phase = "commit" /\ gate = None
    /\ IF Refused(r)
       THEN Goes(w, "answer") /\ UNCHANGED gate
       ELSE /\ writer' = [writer EXCEPT
                  ![w].phase = IF r.op \in Transfers /\ files[r.to].here
                               THEN "displace" ELSE "publish",
                  ![w].guard = files[r.n], ![w].aim = files[r.to]]
            /\ gate' = w
    /\ UNCHANGED <<files, serial>> /\ WriterRest

(* A WebDAV transfer first moves what is at its destination to the trash,  *)
(* as the version it has recorded.  If that fails, the transaction is left *)
(* to the recovery (S3Directory).                                          *)
Displace(w) ==
    LET r == writer[w].req
        old == files[r.to]
    IN
    /\ writer[w].phase = "displace"
    /\ IF old.here /\ old.v = writer[w].aim.v
       THEN /\ files' = [files EXCEPT ![r.to] = Absent(@)]
            /\ serial' = serial + 1
            /\ writer' = [writer EXCEPT ![w].phase = "publish", ![w].over = old,
                                        ![w].made = {[n |-> r.to, v |-> serial]}]
            /\ UNCHANGED gate
       ELSE Goes(w, "answer") /\ gate' = None /\ UNCHANGED <<files, serial>>
    /\ WriterRest

(* Mutant: the copy that publishes names no expected version. *)
GuardHoldsAlways(w) == TRUE

(* Whether the object store carries out the request: a conditional upload, *)
(* every copy and every deletion name the version they expect; a copy of a *)
(* file, a browser upload (create_only) and the marker of a directory ask  *)
(* that nothing is in their place.  Objects above S3_SINGLE_COPY_LIMIT,    *)
(* which multipart_copy only looks for, are left out.                      *)
GuardHolds(w) ==
    LET r == writer[w].req
        f == files[r.n]
        g == writer[w].guard
        same == IF g.here THEN f.here /\ f.v = g.v ELSE ~f.here
    IN CASE r.op = "put" -> r.cond.kind # "always" => same
         [] r.op = "new" -> ~f.here
         [] r.op \in {"mkdir", "delete"} -> same
         [] r.op \in Transfers -> same /\ ~files[r.to].here

Publish(w) ==
    LET r == writer[w].req IN
    /\ writer[w].phase = "publish"
    /\ IF ~GuardHolds(w)
       THEN Goes(w, "answer") /\ gate' = None /\ UNCHANGED <<files, serial>>
       ELSE /\ Change(w)
            /\ writer' = [writer EXCEPT
                  ![w].phase = IF r.op \in Moves THEN "drop" ELSE "answer",
                  ![w].over = IF @ = None \/ files[Target(r)].here THEN files[Target(r)] ELSE @,
                  ![w].made = Marks(r)]
            /\ gate' = IF r.op \in Moves THEN gate ELSE None
    /\ WriterRest

(* An S3 move deletes its source, as the version it copied. *)
DropSource(w) ==
    LET r == writer[w].req IN
    /\ writer[w].phase = "drop"
    /\ IF files[r.n].here /\ files[r.n].v = writer[w].guard.v
       THEN /\ files' = [files EXCEPT ![r.n] = Absent(@)]
            /\ serial' = serial + 1
            /\ writer' = [writer EXCEPT ![w].phase = "answer",
                                        ![w].made = @ \cup {[n |-> r.n, v |-> serial]}]
       ELSE Goes(w, "answer") /\ UNCHANGED <<files, serial>>
    /\ gate' = None
    /\ WriterRest

(* The mutation ends, whatever its result: the snapshots are invalidated   *)
(* (SnapshotInvalidation), then the client has its answer.                 *)
AnswerWrite(w) ==
    /\ writer[w].phase = "answer"
    /\ store' = Invalidated(store)
    /\ answered' = [n \in Names |->
           IF \E m \in writer[w].made : m.n = n /\ m.v > answered[n]
           THEN (CHOOSE m \in writer[w].made : m.n = n).v ELSE answered[n]]
    /\ Goes(w, "done")
    /\ UNCHANGED <<kind, files, access, sorting, lister, now, serial, gate,
                   reader, archive, budget>>

-----------------------------------------------------------------------------
(* Downloads.  A client keeps the bytes of a response that was cut short   *)
(* and asks for the rest with If-Range; with a whole file it revalidates.  *)
(* Byte i of a version of size z is <<v, i, z>>.                           *)

IdleReader == [phase |-> "idle", n |-> None, from |-> 0, cached |-> FALSE, file |-> None,
               held |-> <<>>, tag |-> None, date |-> None, mark |-> 0, seen |-> None]

ReaderRest == UNCHANGED <<kind, files, access, answered, listing, now, serial, gate,
                          writer, archive>>

(* precondition_response: If-None-Match with a tag, If-Modified-Since      *)
(* without.                                                                *)
NotModified(r, f) ==
    /\ r.cached
    /\ IF r.tag # None THEN ETag(f) = r.tag ELSE f.at <= r.date

(* matches_if_range: only equal strong tags; a date proves nothing. *)
MatchesIfRange(r, f) == r.tag # None /\ ETag(f) = r.tag

(* select_range: the whole file unless the validator holds. *)
Start(r, f) == IF r.from > 0 /\ MatchesIfRange(r, f) THEN r.from ELSE 0

(* The response begins: a whole body replaces what the client holds, and   *)
(* carries the validators of what was opened.                              *)
Responding(r, f) ==
    [r EXCEPT !.phase = "body", !.file = f,
              !.held = IF Start(r, f) = 0 THEN <<>> ELSE @,
              !.tag = ETag(f), !.date = f.at]

(* The resource is opened: a local file by its handle, an S3 object by its *)
(* metadata.                                                               *)
Opened(r, f) ==
    IF ~f.here THEN [r EXCEPT !.phase = "failed"]
    ELSE IF NotModified(r, f) THEN [r EXCEPT !.phase = "done", !.seen = f.at]
    ELSE IF Start(r, f) > 0 /\ Start(r, f) >= f.size THEN [r EXCEPT !.phase = "failed"]
    ELSE IF kind = "s3" THEN [r EXCEPT !.phase = "get", !.file = f]
    ELSE Responding(r, f)

(* A GET of file_response or handle_read: of a file, of the rest of it, or *)
(* of a file the client already has.                                       *)
Asks(r, n, from, cached) ==
    reader' = [reader EXCEPT ![r] =
        Opened([reader[r] EXCEPT !.n = n, !.from = from, !.cached = cached,
                                 !.mark = answered[n]], files[n])]

Get(r) ==
    /\ Allowed("download")
    /\ \/ /\ reader[r].phase = "idle"
          /\ \E n \in Names \ Dirs : Asks(r, n, 0, FALSE)
       \/ /\ reader[r].phase = "broken"
          /\ Asks(r, reader[r].n, Len(reader[r].held), FALSE)
       \/ /\ reader[r].phase = "done" /\ ~reader[r].cached
          /\ Asks(r, reader[r].n, 0, TRUE)
    /\ UNCHANGED budget /\ ReaderRest

(* Mutant: GetObject without If-Match. *)
SameObjectAssumed(f, g) == g.here

(* GetObject with the ETag of the metadata; another version, or none, is   *)
(* an error and no response.                                               *)
SameObject(f, g) == g.here /\ ETag(g) = ETag(f)

GetObject(r) ==
    LET f == reader[r].file
        g == files[reader[r].n]
    IN
    /\ reader[r].phase = "get"
    /\ reader' = [reader EXCEPT ![r] =
           IF SameObject(f, g) /\ g.size = f.size
           THEN [Responding(@, f) EXCEPT !.file = g] ELSE [@ EXCEPT !.phase = "broken"]]
    /\ UNCHANGED budget /\ ReaderRest

Chunk(r) ==
    LET f == reader[r].file
        held == Append(reader[r].held, <<f.v, Len(reader[r].held) + 1, f.size>>)
    IN
    /\ reader[r].phase = "body"
    /\ reader' = [reader EXCEPT ![r].held = held,
                                ![r].phase = IF Len(held) = f.size THEN "done" ELSE "body"]
    /\ UNCHANGED budget /\ ReaderRest

(* The connection breaks, or the storage interrupts its transfers. *)
Break(r) ==
    /\ reader[r].phase = "body" /\ Spend("breaks")
    /\ reader' = [reader EXCEPT ![r].phase = "broken"]
    /\ ReaderRest

-----------------------------------------------------------------------------
(* Archives of the whole directory. *)

IdleArchive == [phase |-> "idle", todo |-> {}, parts |-> {}, ticket |-> FALSE,
                part |-> None, file |-> None, zip |-> {}, streams |-> 0,
                granted |-> FALSE, asOf |-> 0]

ArchiveRest == UNCHANGED <<kind, files, access, answered, listing, now, serial, gate,
                           writer, reader>>
Packs(a) == archive' = a /\ ArchiveRest

(* prepare_archive: rights and locks are read once, here. *)
Prepare ==
    /\ archive.phase = "idle" /\ Allowed("download")
    /\ Packs([archive EXCEPT !.phase = "collect", !.todo = Names \ Dirs])
    /\ UNCHANGED budget

TotalSize(parts) == FoldSet(LAMBDA p, sum : p.size + sum, 0, parts)

(* collect_files: a local listing brings the metadata, S3 files are asked  *)
(* for theirs one by one and must still be there.                          *)
Collect ==
    /\ archive.phase = "collect"
    /\ \E n \in archive.todo :
          LET f == files[n]
              part == [n |-> n, size |-> f.size, at |-> f.at, tag |-> ETag(f), v |-> f.v]
          IN
          \/ /\ f.here
             /\ Packs(IF TotalSize(archive.parts \cup {part}) > MaxArchive
                      THEN [archive EXCEPT !.phase = "refused"]
                      ELSE [archive EXCEPT !.todo = @ \ {n}, !.parts = @ \cup {part}])
          \/ /\ ~f.here
             /\ \/ Packs([archive EXCEPT !.todo = @ \ {n}])     \* not in the listing
                \/ kind = "s3" /\ Packs([archive EXCEPT !.phase = "refused"])
    /\ UNCHANGED budget

(* ArchiveTicketStore::create. *)
CreateTicket ==
    /\ archive.phase = "collect" /\ archive.todo = {}
    /\ Packs(IF archive.parts = {} THEN [archive EXCEPT !.phase = "refused"]
             ELSE [archive EXCEPT !.phase = "ready", !.ticket = TRUE])
    /\ UNCHANGED budget

ExpireTicket ==
    /\ archive.ticket
    /\ Packs([archive EXCEPT !.ticket = FALSE])
    /\ UNCHANGED budget

(* Mutant: holding a ticket is enough. *)
StillAllowedByTicket == TRUE

(* The rights and the locks are read again when the download starts. *)
StillAllowed == Allowed("download")

(* download_archive: the ticket is taken for good, whatever follows.  The  *)
(* stream gate admits one archive at a time.                               *)
Download ==
    /\ archive.phase \in {"ready", "whole", "torn"} /\ archive.ticket
    /\ Packs(IF StillAllowed
             THEN [archive EXCEPT !.phase = "check", !.ticket = FALSE, !.todo = archive.parts,
                                  !.zip = {}, !.streams = @ + 1,
                                  !.granted = Allowed("download")]
             ELSE [archive EXCEPT !.phase = "torn", !.ticket = FALSE])
    /\ UNCHANGED budget

Torn == [archive EXCEPT !.phase = "torn", !.part = None, !.file = None]

(* write_archive compares the next file with what was prepared. *)
SameSource(p, f) == /\ f.here /\ f.size = p.size /\ f.at = p.at /\ ETag(f) = p.tag

CheckPart ==
    /\ archive.phase = "check"
    /\ IF archive.todo = {}
       THEN Packs([archive EXCEPT !.phase = "whole"])
       ELSE \E p \in archive.todo :
              Packs(IF SameSource(p, files[p.n])
                    THEN [archive EXCEPT !.phase = "open", !.todo = @ \ {p}, !.part = p,
                                         !.asOf = serial]
                    ELSE Torn)
    /\ UNCHANGED budget

(* stream_file opens the file itself: a handle, or HEAD and GET. *)
OpenPart ==
    LET f == files[archive.part.n] IN
    /\ archive.phase = "open"
    /\ Packs(IF ~f.here THEN Torn
             ELSE [archive EXCEPT !.phase = IF kind = "s3" THEN "get" ELSE "copy", !.file = f])
    /\ UNCHANGED budget

GetPart ==
    LET g == files[archive.part.n] IN
    /\ archive.phase = "get"
    /\ Packs(IF SameObject(archive.file, g) /\ g.size = archive.file.size
             THEN [archive EXCEPT !.phase = "copy", !.file = g] ELSE Torn)
    /\ UNCHANGED budget

(* The body is copied, of exactly the size that was prepared, or the       *)
(* archive ends in the middle.                                             *)
CopyPart ==
    /\ archive.phase = "copy"
    /\ \/ /\ Packs(IF archive.file.size # archive.part.size THEN Torn
                   ELSE [archive EXCEPT
                           !.phase = "check", !.part = None, !.file = None,
                           !.zip = @ \cup {[n |-> archive.part.n, was |-> archive.part,
                                            is |-> archive.file, asOf |-> archive.asOf]}])
          /\ UNCHANGED budget
       \/ Spend("breaks") /\ Packs(Torn)

-----------------------------------------------------------------------------
(* The rest of the world. *)

Tick ==
    /\ Spend("ticks")
    /\ now' = now + 1
    /\ UNCHANGED <<kind, files, access, answered, listing, serial, gate, writer, reader,
                   archive>>

(* Somebody else writes to the bucket or deletes from it. *)
Foreign ==
    /\ kind = "s3" /\ Spend("foreign")
    /\ \E n \in Names \ Dirs :
          \/ \E size \in {1, 2} : files' = [files EXCEPT ![n] = Present(size, now)]
          \/ files[n].here /\ files' = [files EXCEPT ![n] = Absent(@)]
    /\ serial' = serial + 1
    /\ UNCHANGED <<kind, access, answered, listing, now, gate, writer, reader, archive>>

(* The administrator takes a right away or locks the folder. *)
RestrictAccess ==
    /\ Spend("edits")
    /\ \/ \E right \in access.may : access' = [access EXCEPT !.may = @ \ {right}]
       \/ ~access.locked /\ access' = [access EXCEPT !.locked = TRUE]
    /\ UNCHANGED <<kind, files, answered, listing, now, serial, gate, writer, reader, archive>>

(* An edit of the storage instance clears the archive tickets. *)
EditStorage ==
    /\ Spend("edits")
    /\ archive' = [archive EXCEPT !.ticket = FALSE]
    /\ UNCHANGED <<kind, files, access, answered, listing, now, serial, gate, writer, reader>>

Init ==
    /\ kind \in {"local", "s3"}
    /\ access = [may |-> StorageActions \cup {WritableShare}, locked |-> FALSE]
    /\ ListingInit
    /\ now = 1 /\ serial = 1 /\ gate = None
    /\ \E cast \in Casts :
          /\ files = cast.initial
          /\ answered = [n \in Names |-> cast.initial[n].v]
          /\ lister = [l \in Listers |-> [IdleLister EXCEPT !.asks = cast.keys[l]]]
          /\ writer = [w \in Writers |-> [IdleWriter EXCEPT !.asks = cast.asks[w]]]
          /\ reader = [r \in Readers |-> IF r \in cast.clients THEN IdleReader
                                         ELSE [IdleReader EXCEPT !.phase = "failed"]]
          /\ archive = IF Packer \in cast.clients THEN IdleArchive
                       ELSE [IdleArchive EXCEPT !.phase = "refused"]
          /\ budget = cast.budget

NotListing == UNCHANGED <<kind, files, access, answered, now, serial, gate, writer, reader,
                          archive>>

WriterNext(w) == \/ Plan(w) \/ BeginWrite(w) \/ CommitLocal(w) \/ Decide(w) \/ Displace(w)
                 \/ Publish(w) \/ DropSource(w) \/ AnswerWrite(w)
ReaderNext(r) == Get(r) \/ GetObject(r) \/ Chunk(r) \/ Break(r)
ArchiveNext == \/ Prepare \/ Collect \/ CreateTicket \/ ExpireTicket \/ Download
               \/ CheckPart \/ OpenPart \/ GetPart \/ CopyPart

Next ==
    \/ ListingNext /\ NotListing
    \/ \E w \in Writers : WriterNext(w)
    \/ \E r \in Readers : ReaderNext(r)
    \/ ArchiveNext
    \/ Tick \/ Foreign \/ RestrictAccess \/ EditStorage

(* The runtime polls every page request it holds and runs every blocking   *)
(* task.                                                                   *)
Fairness ==
    /\ \A l \in Listers : WF_vars(ListerStep(l) /\ NotListing)
    /\ WF_vars((\E b \in sorting : SortEnd(b)) /\ NotListing)

Spec == Init /\ [][Next]_vars /\ Fairness

-----------------------------------------------------------------------------
(* No lost update: when a conditional PUT succeeds, what it replaced met   *)
(* the condition at that moment, on both kinds of storage, whoever wrote   *)
(* meanwhile.  A browser upload creates and replaces nothing, a write by   *)
(* others on the bucket between its last look and its copy included.  A    *)
(* copy or a move replaces only where WebDAV's Overwrite allows it, and on *)
(* S3 only the version it has kept in the trash.                           *)
ConditionsHold ==
    \A w \in Writers : writer[w].over # None =>
        LET old == writer[w].over
            c == writer[w].req.cond
        IN CASE writer[w].req.op = "put" ->
                  /\ c.kind = "match" => old.here /\ old.v = c.tag
                  /\ c.kind = "exists" => old.here
                  /\ c.kind = "absent" => ~old.here
                  /\ c.kind = "changed" => ~old.here \/ old.v # c.tag
                  /\ c.kind = "unmodified" => ~old.here \/ old.at <= c.date
             [] writer[w].req.op = "new" -> ~old.here
             [] writer[w].req.op \in Transfers ->
                  /\ old.here => writer[w].req.over
                  /\ old.here /\ kind = "s3" => old.v = writer[w].aim.v
             [] OTHER -> TRUE

(* A file a client has put together from the responses it got, resumed and *)
(* revalidated as the headers allow, is one version of it, whole, and not  *)
(* an older one than it could know of when it last asked.  A local file    *)
(* has only its date, so there a 304 is right to the second.               *)
BodiesAreOneVersion ==
    \A r \in Readers : reader[r].phase = "done" =>
        LET held == reader[r].held
            v == held[1][1]
        IN /\ held # <<>> /\ Len(held) = held[1][3]
           /\ \A i \in 1..Len(held) : held[i] = <<v, i, Len(held)>>
           /\ v >= reader[r].mark \/ (kind = "local" /\ reader[r].seen = reader[r].date)

(* A finished archive has every file that was prepared, with the size that *)
(* was announced, and its content: another version only where it was       *)
(* replaced after the download had looked at it, or, locally, by a file    *)
(* with the same size and date.  It was started once, by a caller who had  *)
(* the right at that moment.                                               *)
ArchivesAreWhole ==
    /\ archive.streams <= 1
    /\ archive.streams > 0 => archive.granted
    /\ archive.phase = "whole" =>
          /\ {z.n : z \in archive.zip} = {p.n : p \in archive.parts}
          /\ \A z \in archive.zip :
                /\ z.is.size = z.was.size
                /\ \/ z.is.v = z.was.v
                   \/ z.is.v >= z.asOf
                   \/ kind = "local" /\ z.is.at = z.was.at

=============================================================================
