---------------------------- MODULE DirectUpload ----------------------------
(***************************************************************************)
(* Browser-to-S3 uploads (direct_upload.rs): the bounded store of          *)
(* sessions, the task that owns each session and runs the upload with the  *)
(* loop of s3_backend/direct.rs inside, and the four handlers that start,  *)
(* sign, complete and cancel it over a bounded command channel.            *)
(*                                                                         *)
(* The upload pipeline around the loop is S3Transactions and the ticket    *)
(* that `begin' and `finish' change is UploadTicket; here they are one     *)
(* outcome and one status per file.                                        *)
(***************************************************************************)
EXTENDS Naturals, Sequences, FiniteSets

CONSTANTS
    Requests,         \* handlers that may run at the same time
    Accounts,         \* traffic subjects that may upload
    Paths,            \* items of the upload tickets
    Parts,            \* parts of the declared size (part_count)
    ChannelSize,      \* mpsc::channel(4)
    MaxSessions,      \* 128
    MaxActive,        \* 32
    Concurrencies,    \* the values upload_file_concurrency may be set to
    MaxUploads,       \* sessions ever created (bound)
    MaxSigns,         \* part addresses asked for (bound)
    MaxInterruptions, \* owner tasks that end early (bound)
    MaxDrops          \* handlers dropped by their client (bound)

Free == "free"
None == "none"
Ids == 1..MaxUploads

ASSUME DirectAssumption ==
    /\ {Parts, ChannelSize, MaxSessions, MaxActive, MaxUploads, MaxSigns,
        MaxInterruptions, MaxDrops} \subseteq Nat
    /\ Concurrencies \subseteq Nat
    /\ Parts > 0 /\ ChannelSize > 0
    /\ Free \notin Requests

VARIABLES
    sessions,     \* the ids in DirectUploadStore
    registry,     \* the start that holds its mutex (and config_updates)
    session,      \* the Session structures ever created
    queue, open,  \* the command channel of each, and whether it is received
    owner,        \* where the task of each session is
    seen,         \* parts its list_parts pages have confirmed
    outcome,      \* what upload_direct_file returned
    interrupted,  \* sessions whose task ended without running to its end
    known,        \* sessions whose descriptor reached the browser
    signed,       \* part addresses it holds
    parts,        \* parts S3 holds
    committed,    \* sessions whose object was published
    item, begun,  \* status of each item, and the session that began it last
    rq,           \* the handlers
    told,         \* what `complete' has answered, by session
    concurrency,  \* upload_file_concurrency of the policy in force
    signs, drops

channel == <<queue, open>>
work == <<owner, seen, outcome, interrupted>>
remote == <<known, signed, parts, committed>>
ticket == <<item, begun>>
vars == <<sessions, registry, session, queue, open, owner, seen, outcome, interrupted,
          known, signed, parts, committed, item, begun, rq, told, concurrency, signs,
          drops>>

\* What upload_direct_file returns: published; not published, and cleaned up or with
\* the cleanup left to recovery (CleanupState); or not known.
Outcomes == {"committed", "failed", "pending", "unknown"}
Unpublished == {"failed", "pending"}
NoSession == [path |-> None, account |-> None, active |-> FALSE, completing |-> FALSE,
              result |-> None, live |-> FALSE]
Idle == [at |-> "idle", op |-> None, id |-> 0, path |-> None, account |-> None,
         part |-> 0, woken |-> FALSE]

Structures == [path : Paths \cup {None}, account : Accounts \cup {None},
               active : BOOLEAN, completing : BOOLEAN,
               result : Outcomes \cup {None}, live : BOOLEAN]

Places == {"idle", "begin", "descriptor", "sending", "reply", "arm", "look", "check",
           "wait"}
Calls == [at : Places,
          op : {None, "start", "sign", "complete", "cancel"}, id : Ids \cup {0},
          path : Paths \cup {None}, account : Accounts \cup {None},
          part : 0..(Parts + 1), woken : BOOLEAN]

Commands == [op : {"sign"}, part : 0..(Parts + 1), from : Requests]
            \cup [op : {"complete", "cancel"}]

\* Where the upload of a session is: its task has not reached finish yet.
Uploading == {"opening", "receiving", "listing", "publishing"}
Settling == {"finish", "store", "retire", "renew", "notify", "ended"}

StoreTyped == sessions \subseteq Ids /\ session \in [Ids -> Structures]

HandlersTyped ==
    /\ registry \in Requests \cup {Free} /\ rq \in [Requests -> Calls]
    /\ told \in [Ids -> SUBSET Outcomes]

ChannelTyped ==
    /\ open \in [Ids -> BOOLEAN] /\ queue \in [Ids -> Seq(Commands)]
    /\ \A id \in Ids : Len(queue[id]) <= ChannelSize

WorkTyped ==
    /\ owner \in [Ids -> {"unborn"} \cup Uploading \cup Settling]
    /\ seen \in [Ids -> 0..Parts]
    /\ outcome \in [Ids -> Outcomes \cup {None}] /\ interrupted \subseteq Ids

RestTyped ==
    /\ known \subseteq Ids /\ committed \subseteq Ids
    /\ signed \in [Ids -> SUBSET (1..Parts)] /\ parts \in [Ids -> SUBSET (1..Parts)]
    /\ item \in [Paths -> {"Pending", "InProgress", "Complete", "Failed", "Unknown"}]
    /\ begun \in [Paths -> Ids \cup {0}]
    /\ concurrency \in Concurrencies
    /\ signs \in 0..MaxSigns /\ drops \in 0..MaxDrops

TypeOK == StoreTyped /\ HandlersTyped /\ ChannelTyped /\ WorkTyped /\ RestTyped

Init ==
    /\ sessions = {} /\ registry = Free
    /\ session = [id \in Ids |-> NoSession]
    /\ queue = [id \in Ids |-> <<>>] /\ open = [id \in Ids |-> FALSE]
    /\ owner = [id \in Ids |-> "unborn"] /\ seen = [id \in Ids |-> 0]
    /\ outcome = [id \in Ids |-> None] /\ interrupted = {}
    /\ known = {} /\ signed = [id \in Ids |-> {}] /\ parts = [id \in Ids |-> {}]
    /\ committed = {}
    /\ item = [p \in Paths |-> "Pending"] /\ begun = [p \in Paths |-> 0]
    /\ rq = [r \in Requests |-> Idle] /\ told = [id \in Ids |-> {}]
    /\ concurrency \in Concurrencies /\ signs = 0 /\ drops = 0

-----------------------------------------------------------------------------
(* Handlers *)

\* Handler r moves to another place.
Goto(r, place) == rq' = [rq EXCEPT ![r].at = place]

\* complete and cancel go on in wait_result.
WaitFor(op, id) == [Idle EXCEPT !.at = "arm", !.op = op, !.id = id]

\* Handler r returns.
Return(r) == rq' = [rq EXCEPT ![r] = Idle]

\* The client of a handler goes away: the handler is dropped where it waits, with
\* the locks it holds.  What it already sent stays sent, and a `completing' flag it
\* set stays set.
DropHandler(r) ==
    /\ rq[r].at # "idle" /\ drops < MaxDrops
    /\ drops' = drops + 1
    /\ rq' = [rq EXCEPT ![r] = Idle]
    /\ registry' = IF registry = r THEN Free ELSE registry
    /\ UNCHANGED <<sessions, session, channel, work, remote, ticket, told,
                   concurrency, signs>>

-----------------------------------------------------------------------------
(* start *)

\* sessions.retain: what is active, or ended less than a minute ago.
Retained == {id \in sessions : session[id].active \/ session[id].live}

ActiveIn(S) == {id \in S : session[id].active}
ActiveOf(S, account) == {id \in ActiveIn(S) : session[id].account = account}

\* The limits over the store and over the active sessions of an account, the last one
\* of the policy read at this start, counted behind the mutex that also guards the
\* insertion.
Full(S, account) ==
    \/ Cardinality(S) >= MaxSessions
    \/ Cardinality(ActiveIn(S)) >= MaxActive
    \/ Cardinality(ActiveOf(S, account)) >= concurrency

\* Admission: config_updates, authorization and the store's mutex.  Relayed and
\* empty files never come this far.
Start(r, p, account) ==
    /\ rq[r].at = "idle" /\ registry = Free /\ owner[MaxUploads] = "unborn"
    /\ sessions' = Retained
    /\ IF Full(Retained, account)
       THEN UNCHANGED <<registry, rq>>
       ELSE /\ registry' = r
            /\ rq' = [rq EXCEPT ![r] = [Idle EXCEPT !.at = "begin", !.op = "start",
                                            !.path = p, !.account = account]]
    /\ UNCHANGED <<session, channel, work, remote, ticket, told, concurrency, signs,
                   drops>>

\* upload_batches.begin, still behind both locks.
BeginItem(r) ==
    LET p == rq[r].path IN
    /\ rq[r].at = "begin"
    /\ registry' = Free
    /\ \/ /\ item[p] \notin {"Pending", "Failed"}
          /\ Return(r)
          /\ UNCHANGED <<sessions, session, channel, owner, ticket>>
       \/ /\ item[p] \in {"Pending", "Failed"}
          /\ \E id \in Ids :
                /\ owner[id] = "unborn"
                /\ \A other \in 1..(id - 1) : owner[other] # "unborn"
                /\ item' = [item EXCEPT ![p] = "InProgress"]
                /\ begun' = [begun EXCEPT ![p] = id]
                /\ session' = [session EXCEPT ![id] =
                       [path |-> p, account |-> rq[r].account, active |-> TRUE,
                        completing |-> FALSE, result |-> None, live |-> TRUE]]
                /\ sessions' = sessions \cup {id}
                /\ open' = [open EXCEPT ![id] = TRUE]
                /\ owner' = [owner EXCEPT ![id] = "opening"]
                /\ rq' = [rq EXCEPT ![r].at = "descriptor", ![r].id = id]
          /\ UNCHANGED queue
    /\ UNCHANGED <<seen, outcome, interrupted, remote, told, concurrency, signs, drops>>

\* The receiver of the descriptor finds its sender dropped.
NoDescriptor(r) ==
    /\ rq[r].at = "descriptor" /\ ~ open[rq[r].id]
    /\ Return(r)
    /\ UNCHANGED <<sessions, registry, session, channel, work, remote, ticket, told,
                   concurrency, signs, drops>>

\* An administrator's update_config, which waits for a start that holds the lock.
SetConcurrency(n) ==
    /\ registry = Free /\ concurrency # n
    /\ concurrency' = n
    /\ UNCHANGED <<sessions, registry, session, channel, work, remote, ticket, rq, told,
                   signs, drops>>

-----------------------------------------------------------------------------
(* sign_part, complete and cancel *)

\* session_for, or the lookup of cancel, behind the store's mutex; without the
\* session or the permission the handler returns.  `completing' is swapped, and a
\* command goes to a session that is active and, for complete, not completing yet.
Lookup(r, op, id, n) ==
    /\ rq[r].at = "idle" /\ registry = Free /\ id \in sessions
    /\ rq' = [rq EXCEPT ![r] =
          IF \/ op = "sign"
             \/ op = "cancel" /\ session[id].active
             \/ op = "complete" /\ session[id].active /\ ~ session[id].completing
          THEN [Idle EXCEPT !.at = "sending", !.op = op, !.id = id, !.part = n]
          ELSE WaitFor(op, id)]
    /\ session' = [session EXCEPT ![id].completing = @ \/ op = "complete"]
    /\ UNCHANGED <<sessions, registry, channel, work, remote, ticket, told,
                   concurrency, drops>>

SignPart(r, id, n) ==
    /\ signs < MaxSigns /\ signs' = signs + 1
    /\ Lookup(r, "sign", id, n)

Complete(r, id) == Lookup(r, "complete", id, 0) /\ UNCHANGED signs

Cancel(r, id) == Lookup(r, "cancel", id, 0) /\ UNCHANGED signs

\* DirectCommand: only Sign has a part and somebody to reply to.
Sent(r) ==
    IF rq[r].op = "sign" THEN [op |-> "sign", part |-> rq[r].part, from |-> r]
    ELSE [op |-> rq[r].op]

\* send: the command is queued, the channel is closed, or 15 seconds pass while it
\* is full.  complete gives its flag back on an error; cancel ignores the error.
Send(r) ==
    LET id == rq[r].id IN
    /\ rq[r].at = "sending"
    /\ \/ /\ open[id] /\ Len(queue[id]) < ChannelSize
          /\ queue' = [queue EXCEPT ![id] = Append(@, Sent(r))]
          /\ IF rq[r].op = "sign" THEN Goto(r, "reply")
             ELSE rq' = [rq EXCEPT ![r] = WaitFor(rq[r].op, id)]
          /\ UNCHANGED session
       \/ /\ ~ open[id] \/ Len(queue[id]) = ChannelSize
          /\ IF rq[r].op = "cancel" THEN rq' = [rq EXCEPT ![r] = WaitFor(rq[r].op, id)]
             ELSE Return(r)
          /\ session' = [session EXCEPT ![id].completing =
                            @ /\ rq[r].op # "complete"]
          /\ UNCHANGED queue
    /\ UNCHANGED <<sessions, registry, open, work, remote, ticket, told, concurrency,
                   signs, drops>>

\* The reply's sender is dropped with the channel.
NoReply(r) ==
    /\ rq[r].at = "reply" /\ ~ open[rq[r].id]
    /\ Return(r)
    /\ UNCHANGED <<sessions, registry, session, channel, work, remote, ticket, told,
                   concurrency, signs, drops>>

\* wait_result registers with the Notify before it looks.
Arm(r) ==
    /\ rq[r].at = "arm"
    /\ rq' = [rq EXCEPT ![r].at = "look", ![r].woken = FALSE]
    /\ UNCHANGED <<sessions, registry, session, channel, work, remote, ticket, told,
                   concurrency, signs, drops>>

\* The handler returns.  `complete' answers with the result of wait_result, of which
\* "unknown" says nothing; `cancel' discards it and answers success in any case.
Answer(r, o) ==
    /\ Return(r)
    /\ told' = IF rq[r].op = "complete"
               THEN [told EXCEPT ![rq[r].id] = @ \cup ({o} \ {"unknown"})] ELSE told

Look(r) ==
    /\ rq[r].at = "look"
    /\ IF session[rq[r].id].result # None
       THEN Answer(r, session[rq[r].id].result)
       ELSE Goto(r, "check") /\ UNCHANGED told
    /\ UNCHANGED <<sessions, registry, session, channel, work, remote, ticket,
                   concurrency, signs, drops>>

\* The answer of wait_result for a session that ended without a result.
Absent == "unknown"

CheckActive(r) ==
    /\ rq[r].at = "check"
    /\ IF session[rq[r].id].active
       THEN Goto(r, "wait") /\ UNCHANGED told
       ELSE Answer(r, Absent)
    /\ UNCHANGED <<sessions, registry, session, channel, work, remote, ticket,
                   concurrency, signs, drops>>

Wake(r) ==
    /\ rq[r].at = "wait" /\ rq[r].woken
    /\ Goto(r, "arm")
    /\ UNCHANGED <<sessions, registry, session, channel, work, remote, ticket, told,
                   concurrency, signs, drops>>

-----------------------------------------------------------------------------
(* receive_direct_parts, and the upload around it *)

\* The receiver is dropped, and with it the commands still queued.
Close(id) ==
    /\ open' = [open EXCEPT ![id] = FALSE]
    /\ queue' = [queue EXCEPT ![id] = <<>>]

\* upload_direct_file returns.
EndUpload(id, o) ==
    /\ outcome' = [outcome EXCEPT ![id] = o]
    /\ owner' = [owner EXCEPT ![id] = "finish"]

\* The upload ends before its publication.  A precondition that fails and an upload
\* whose session, staged object and intent could be removed leave nothing behind;
\* after an administrator's edit, or when the removal fails, recovery cleans up.
GiveUp(id) == (\E o \in Unpublished : EndUpload(id, o)) /\ Close(id)

\* The upload reaches the loop, which sends the descriptor, or ends before: a failed
\* request for the parent or the intent proves nothing about what it left.
Open(id) ==
    /\ owner[id] = "opening"
    /\ \/ /\ owner' = [owner EXCEPT ![id] = "receiving"]
          /\ rq' = [r \in Requests |->
                       IF rq[r].at = "descriptor" /\ rq[r].id = id
                       THEN Idle ELSE rq[r]]
          /\ known' = IF rq' = rq THEN known ELSE known \cup {id}
          /\ UNCHANGED <<channel, outcome>>
       \/ /\ GiveUp(id) \/ (EndUpload(id, "unknown") /\ Close(id))
          /\ UNCHANGED <<rq, known>>
    /\ UNCHANGED <<sessions, registry, session, seen, interrupted, signed, parts,
                   committed, ticket, told, concurrency, signs, drops>>

\* commands.recv: a part is signed, or the loop is told to end.
Receive(id) ==
    /\ owner[id] = "receiving" /\ queue[id] # <<>>
    /\ LET c == Head(queue[id]) IN
       CASE c.op = "sign" ->
              LET ok == c.part \in 1..Parts IN
              /\ queue' = [queue EXCEPT ![id] = Tail(@)]
              /\ signed' = [signed EXCEPT ![id] = @ \cup {n \in {c.part} : ok}]
              /\ rq' = [r \in Requests |->
                           IF r = c.from /\ rq[r].at = "reply" /\ rq[r].id = id
                           THEN Idle ELSE rq[r]]
              /\ UNCHANGED <<open, owner, seen, outcome>>
         [] c.op = "cancel" ->
              /\ GiveUp(id)
              /\ UNCHANGED <<signed, rq, seen>>
         [] OTHER ->
              /\ queue' = [queue EXCEPT ![id] = Tail(@)]
              /\ owner' = [owner EXCEPT ![id] = "listing"]
              /\ UNCHANGED <<open, signed, rq, seen, outcome>>
    /\ UNCHANGED <<sessions, registry, session, interrupted, known, parts, committed,
                   ticket, told, concurrency, signs, drops>>

\* upload_timeout passes without a command: a complete set of parts is committed
\* although the browser's last command was lost.
Timeout(id) ==
    /\ owner[id] = "receiving" /\ queue[id] = <<>>
    /\ owner' = [owner EXCEPT ![id] = "listing"]
    /\ UNCHANGED <<sessions, registry, session, channel, seen, outcome, interrupted,
                   remote, ticket, rq, told, concurrency, signs, drops>>

\* completed.len() == count.
CompleteSet(n) == n = Parts

\* One page of list_parts (pages of one part): the next part of the sequence, a gap,
\* or the end of the list.  The browser may still upload between two pages.
ListPage(id) ==
    LET rest == {n \in parts[id] : n > seen[id]} IN
    /\ owner[id] = "listing"
    /\ \/ /\ seen[id] + 1 \in rest
          /\ seen' = [seen EXCEPT ![id] = @ + 1]
          /\ UNCHANGED <<channel, owner, outcome>>
       \/ /\ rest = {} /\ CompleteSet(seen[id])
          /\ owner' = [owner EXCEPT ![id] = "publishing"]
          /\ Close(id)
          /\ UNCHANGED <<seen, outcome>>
       \/ /\ seen[id] + 1 \notin rest
          /\ rest # {} \/ ~ CompleteSet(seen[id])
          /\ GiveUp(id)
          /\ UNCHANGED seen
    /\ UNCHANGED <<sessions, registry, session, interrupted, remote, ticket, rq, told,
                   concurrency, signs, drops>>

\* A request to S3 fails, or an administrator's edit cancels the transfer token.
BreakTransfer(id) ==
    /\ owner[id] \in {"receiving", "listing"}
    /\ GiveUp(id)
    /\ UNCHANGED <<sessions, registry, session, seen, interrupted, remote, ticket, rq,
                   told, concurrency, signs, drops>>

\* complete_multipart_upload and the publication of the staged object.  An edit may
\* cancel it until it holds the mutation gate; a failure before the copy is cleaned up.
Publish(id) ==
    /\ owner[id] = "publishing"
    /\ \/ EndUpload(id, "committed") /\ committed' = committed \cup {id}
       \/ (\E o \in Unpublished : EndUpload(id, o)) /\ UNCHANGED committed
       \/ EndUpload(id, "unknown") /\ committed' \in {committed, committed \cup {id}}
    /\ UNCHANGED <<sessions, registry, session, channel, seen, interrupted, known,
                   signed, parts, ticket, rq, told, concurrency, signs, drops>>

-----------------------------------------------------------------------------
(* The task that owns the session *)

Attended(id) == id \notin interrupted
Proceed(id, from, to) == owner[id] = from /\ owner' = [owner EXCEPT ![id] = to]

\* mutant: an upload that was not published may be begun again before its cleanup
PendingReopens(o) ==
    CASE o = "committed" -> "Complete" [] o \in Unpublished -> "Failed"
      [] OTHER -> "Unknown"

\* UploadExecutionGuard::finish stores the result in the ticket.  Pending cleanup is
\* not safe to begin again.
StatusOf(o) ==
    CASE o = "committed" -> "Complete" [] o = "failed" -> "Failed" [] OTHER -> "Unknown"

Finish(id) ==
    /\ Proceed(id, "finish", IF Attended(id) THEN "store" ELSE "ended")
    /\ item' = IF Attended(id)
               THEN [item EXCEPT ![session[id].path] = StatusOf(outcome[id])] ELSE item
    /\ UNCHANGED <<sessions, registry, session, channel, seen, outcome, interrupted,
                   remote, begun, rq, told, concurrency, signs, drops>>

StoreResult(id) ==
    /\ Proceed(id, "store", "retire")
    /\ session' = [session EXCEPT ![id].result = outcome[id]]
    /\ UNCHANGED <<sessions, registry, channel, seen, outcome, interrupted, remote,
                   ticket, rq, told, concurrency, signs, drops>>

Retire(id) ==
    /\ Proceed(id, "retire", "renew")
    /\ session' = [session EXCEPT ![id].active = FALSE]
    /\ UNCHANGED <<sessions, registry, channel, seen, outcome, interrupted, remote,
                   ticket, rq, told, concurrency, signs, drops>>

\* expires: another minute for late questions.
Renew(id) ==
    /\ Proceed(id, "renew", "notify")
    /\ session' = [session EXCEPT ![id].live = TRUE]
    /\ UNCHANGED <<sessions, registry, channel, seen, outcome, interrupted, remote,
                   ticket, rq, told, concurrency, signs, drops>>

\* notify_waiters reaches every registered waiter, asleep or still looking.
Woken(id) == {r \in Requests : rq[r].id = id /\ rq[r].at \in {"look", "check", "wait"}}

NotifyWaiters(id) ==
    rq' = [r \in Requests |-> IF r \in Woken(id) THEN [rq[r] EXCEPT !.woken = TRUE]
                              ELSE rq[r]]

\* done.notify_waiters, and the completion guard's Drop, which does the same.
Notify(id) ==
    /\ Proceed(id, "notify", "ended")
    /\ NotifyWaiters(id)
    /\ UNCHANGED <<sessions, registry, session, channel, seen, outcome, interrupted,
                   remote, ticket, told, concurrency, signs, drops>>

\* mutant: no guard wakes the waiters of an owner that ended early
InterruptSilently(id) ==
    /\ owner[id] \in Uploading
    /\ Attended(id) /\ Cardinality(interrupted) < MaxInterruptions
    /\ interrupted' = interrupted \cup {id}
    /\ session' = [session EXCEPT ![id].active = FALSE]
    /\ UNCHANGED <<sessions, registry, channel, owner, seen, outcome, remote, ticket,
                   rq, told, concurrency, signs, drops>>

\* The owner task ends early: SessionCompletionGuard releases the session without a
\* result.  The upload below it is a task of its own and goes on.
Interrupt(id) ==
    /\ owner[id] \in Uploading
    /\ Attended(id) /\ Cardinality(interrupted) < MaxInterruptions
    /\ interrupted' = interrupted \cup {id}
    /\ session' = [session EXCEPT ![id].active = FALSE]
    /\ NotifyWaiters(id)
    /\ UNCHANGED <<sessions, registry, channel, owner, seen, outcome, remote, ticket,
                   told, concurrency, signs, drops>>

\* The task spawned by UploadExecutionGuard's Drop.
SettleInterrupted(id) ==
    LET p == session[id].path IN
    /\ id \in interrupted /\ begun[p] = id /\ item[p] = "InProgress"
    /\ item' = [item EXCEPT ![p] = "Unknown"]
    /\ UNCHANGED <<sessions, registry, session, channel, work, remote, begun, rq, told,
                   concurrency, signs, drops>>

\* Upload recovery, once no upload of the storage is live: an item whose object carries
\* its operation id is Complete.  S3 has no proof that nothing was published, so every
\* other item stays Unknown.
Confirm(id) ==
    LET p == session[id].path IN
    /\ owner[id] \notin {"unborn"} \cup Uploading /\ begun[p] = id
    /\ item[p] = "Unknown" /\ id \in committed
    /\ item' = [item EXCEPT ![p] = "Complete"]
    /\ UNCHANGED <<sessions, registry, session, channel, work, remote, begun, rq, told,
                   concurrency, signs, drops>>

-----------------------------------------------------------------------------
(* The browser and the clock *)

\* A presigned address is used while the multipart upload exists.
UploadPart(id) ==
    /\ owner[id] \in {"receiving", "listing"}
    /\ \E n \in signed[id] \ parts[id] : parts' = [parts EXCEPT ![id] = @ \cup {n}]
    /\ UNCHANGED <<sessions, registry, session, channel, work, known, signed, committed,
                   ticket, rq, told, concurrency, signs, drops>>

\* The expiry of an active session has no effect.
Expire(id) ==
    /\ session[id].live /\ ~ session[id].active
    /\ session' = [session EXCEPT ![id].live = FALSE]
    /\ UNCHANGED <<sessions, registry, channel, work, remote, ticket, rq, told,
                   concurrency, signs, drops>>

-----------------------------------------------------------------------------
HandlerStep(r) ==
    \/ BeginItem(r) \/ NoDescriptor(r) \/ Send(r) \/ NoReply(r)
    \/ Arm(r) \/ Look(r) \/ CheckActive(r) \/ Wake(r)

OwnerStep(id) ==
    \/ Open(id) \/ Receive(id) \/ Timeout(id) \/ ListPage(id) \/ Publish(id)
    \/ Finish(id) \/ StoreResult(id) \/ Retire(id) \/ Renew(id) \/ Notify(id)
    \/ SettleInterrupted(id)

\* The browser asks about the sessions whose descriptor it received.
Client(r) ==
    \/ \E p \in Paths, u \in Accounts : Start(r, p, u)
    \/ \E id \in known, n \in 1..(Parts + 1) : SignPart(r, id, n)
    \/ \E id \in known : Complete(r, id) \/ Cancel(r, id)

Next ==
    \/ \E r \in Requests : Client(r) \/ HandlerStep(r) \/ DropHandler(r)
    \/ \E id \in Ids :
          \/ OwnerStep(id) \/ BreakTransfer(id) \/ Interrupt(id) \/ Confirm(id)
          \/ UploadPart(id) \/ Expire(id)
    \/ \E n \in Concurrencies : SetConcurrency(n)

Spec == Init /\ [][Next]_vars

(***************************************************************************)
(* Owner tasks and handlers are polled by the runtime, S3 requests and the *)
(* upload timeout end; browsers, clocks and interruptions owe nothing.     *)
(***************************************************************************)
Fairness ==
    /\ \A r \in Requests : WF_vars(HandlerStep(r))
    /\ \A id \in Ids : WF_vars(OwnerStep(id))

FairSpec == Spec /\ Fairness

-----------------------------------------------------------------------------
(* Properties *)

\* What `complete' answers with a result is what happened, for good: a committed
\* upload is in the bucket and Complete in its ticket; one that was not committed is
\* never published afterwards, and its item may be begun again if nothing was left
\* behind, but not while recovery owes its cleanup.  A session that ended without a
\* result is answered as unknown and never as any of them.
DirectAnswersAreTrue ==
    \A id \in Ids :
        LET p == session[id].path
        IN  /\ "committed" \in told[id] => id \in committed /\ item[p] = "Complete"
            /\ told[id] \cap Unpublished # {} => id \notin committed
            /\ "failed" \in told[id] /\ begun[p] = id => item[p] = "Failed"
            /\ "pending" \in told[id] => begun[p] = id /\ item[p] = "Unknown"

\* The store keeps its two fixed bounds, although a session is inserted only after
\* its item was begun and the bounds were counted before.
StoreIsWithinBounds ==
    Cardinality(sessions) <= MaxSessions /\ Cardinality(ActiveIn(sessions)) <= MaxActive

\* The active sessions of an account grow only to what the policy in force allows; an
\* administrator who lowers it ends none of them, and one who does so during a start
\* waits for its insertion.
AdmissionFollowsPolicy ==
    [][\A u \in Accounts :
          Cardinality(ActiveOf(sessions, u)') > Cardinality(ActiveOf(sessions, u))
             => Cardinality(ActiveOf(sessions, u)') <= concurrency]_vars

\* Every handler returns and every session gives its place back, whatever commands
\* are lost: a `complete' dropped between its flag and its command, a full channel, a
\* result stored between a waiter's look and its sleep, an owner that ended early.
DirectUploadsEnd ==
    /\ \A r \in Requests : rq[r].at # "idle" ~> rq[r].at = "idle"
    /\ \A id \in Ids : session[id].active ~> ~ session[id].active
=============================================================================
