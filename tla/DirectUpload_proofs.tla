------------------------- MODULE DirectUpload_proofs -------------------------
(***************************************************************************)
(* What a direct upload answers is true, and the store keeps its bounds and *)
(* the policy, for any number of sessions, handlers, lost commands and     *)
(* interrupted tasks.                                                      *)
(***************************************************************************)
EXTENDS DirectUpload, FiniteSetTheorems, TLAPS

\* A session belongs to an item, and an unborn one is in no state at all.
BornAt(id) ==
    /\ owner[id] # "unborn" => session[id].path \in Paths
    /\ owner[id] = "unborn" =>
          /\ id \notin sessions /\ id \notin interrupted
          /\ ~ session[id].active /\ ~ session[id].live
          /\ session[id].result = None /\ told[id] = {}

Born == \A id \in Ids : BornAt(id)

\* A handler that begins holds the mutex for an item and an account, one that sends
\* has a command; later it has a session.
CallAt(r) ==
    /\ rq[r].at = "begin" => /\ registry = r
                             /\ rq[r].path \in Paths /\ rq[r].account \in Accounts
    /\ rq[r].at = "sending" => rq[r].op \in {"sign", "complete", "cancel"}
    /\ rq[r].at \notin {"idle", "begin"} => rq[r].id \in Ids

Callers == \A r \in Requests : CallAt(r)

\* An item in progress belongs to one session whose upload runs, and an interrupted
\* session keeps its item: nobody begins it again.  Upload recovery may find an object
\* whose result was not known.
OwnsItem(id) == begun[session[id].path] = id
Found(id) == item[session[id].path] = "Complete" /\ id \in committed

ItemAt(id) ==
    LET status == item[session[id].path] IN
    /\ Attended(id) /\ owner[id] \in Uploading \cup {"finish"} =>
          OwnsItem(id) /\ status = "InProgress"
    /\ id \in interrupted =>
          OwnsItem(id) /\ (status \in {"InProgress", "Unknown"} \/ Found(id))
    /\ Attended(id) /\ owner[id] \in Settling \ {"finish"} =>
          /\ OwnsItem(id) => \/ status = StatusOf(outcome[id])
                             \/ outcome[id] = "unknown" /\ Found(id)
          /\ outcome[id] # "failed" => OwnsItem(id)

Items == \A id \in Ids : ItemAt(id)

\* The outcome of an upload is that of the bucket.
OutcomeAt(id) ==
    /\ outcome[id] = None <=> owner[id] \in {"unborn"} \cup Uploading
    /\ outcome[id] \in {None} \cup Unpublished => id \notin committed
    /\ outcome[id] = "committed" => id \in committed

Outcome == \A id \in Ids : OutcomeAt(id)

\* The result of a session is the outcome of an upload whose task ran to its end,
\* and a handler tells nothing else.
ResultAt(id) ==
    /\ id \in interrupted => owner[id] \in Uploading \cup {"finish", "ended"}
    /\ session[id].result # None =>
          /\ session[id].result = outcome[id] /\ Attended(id)
          /\ owner[id] \in {"retire", "renew", "notify", "ended"}
    /\ told[id] \subseteq {session[id].result} \ {"unknown"}

Results == \A id \in Ids : ResultAt(id)

IInv == TypeOK /\ Born /\ Callers /\ Items /\ Outcome /\ Results

\* The active sessions of an account.
Mine(u) == ActiveOf(sessions, u)

\* A start that is past its admission still has room.
RoomFor(u) ==
    /\ Cardinality(sessions) < MaxSessions
    /\ Cardinality(ActiveIn(sessions)) < MaxActive
    /\ Cardinality(Mine(u)) < concurrency

Room == \A r \in Requests : rq[r].at = "begin" => RoomFor(rq[r].account)

-----------------------------------------------------------------------------
(* Types *)

\* The records a handler turns into are those of a handler.
LEMMA CallsAreTyped ==
  /\ Idle \in Calls
  /\ \A id \in Ids, op \in {"sign", "complete", "cancel"} : WaitFor(op, id) \in Calls
  /\ \A p \in Paths, u \in Accounts :
        [Idle EXCEPT !.at = "begin", !.op = "start", !.path = p, !.account = u] \in Calls
  /\ \A op \in {"sign", "complete", "cancel"}, id \in Ids, n \in 0..(Parts + 1) :
        [Idle EXCEPT !.at = "sending", !.op = op, !.id = id, !.part = n] \in Calls
  /\ \A c \in Calls : /\ \A place \in Places : [c EXCEPT !.at = place] \in Calls
                      /\ \A b \in BOOLEAN : [c EXCEPT !.woken = b] \in Calls
                      /\ [c EXCEPT !.at = "look", !.woken = FALSE] \in Calls
                      /\ \A id \in Ids :
                            [c EXCEPT !.at = "descriptor", !.id = id] \in Calls
<1> USE DirectAssumption DEF Calls, Places
<1>1. Idle \in Calls
  BY DEF Idle
<1>2. ASSUME NEW c \in Calls, NEW place \in Places
      PROVE  [c EXCEPT !.at = place] \in Calls
  OBVIOUS
<1>3. ASSUME NEW c \in Calls, NEW b \in BOOLEAN PROVE [c EXCEPT !.woken = b] \in Calls
  OBVIOUS
<1>4. ASSUME NEW c \in Calls, NEW id \in Ids PROVE [c EXCEPT !.id = id] \in Calls
  OBVIOUS
<1>5. ASSUME NEW c \in Calls, NEW p \in Paths, NEW u \in Accounts
      PROVE  [c EXCEPT !.path = p] \in Calls /\ [c EXCEPT !.account = u] \in Calls
  OBVIOUS
<1>6. ASSUME NEW c \in Calls, NEW op \in {"start", "sign", "complete", "cancel"}
      PROVE  [c EXCEPT !.op = op] \in Calls
  OBVIOUS
<1>7. ASSUME NEW c \in Calls, NEW n \in 0..(Parts + 1)
      PROVE  [c EXCEPT !.part = n] \in Calls
  OBVIOUS
<1>8. ASSUME NEW c \in Calls, NEW place \in Places, NEW id \in Ids
      PROVE  [c EXCEPT !.at = place, !.id = id] \in Calls
  <2>1. [c EXCEPT !.at = place, !.id = id] = [[c EXCEPT !.at = place] EXCEPT !.id = id]
    OBVIOUS
  <2>. HIDE DEF Calls
  <2>. QED  BY <1>2, <1>4, <2>1
<1>. QED
  <2>. HIDE DEF Calls
  <2>1. \A c \in Calls : [c EXCEPT !.at = "look", !.woken = FALSE]
                           = [[c EXCEPT !.at = "look"] EXCEPT !.woken = FALSE]
    OBVIOUS
  <2>2. \A p, u : [Idle EXCEPT !.at = "begin", !.op = "start", !.path = p, !.account = u]
           = [[[[Idle EXCEPT !.at = "begin"] EXCEPT !.op = "start"] EXCEPT !.path = p]
                  EXCEPT !.account = u]
    OBVIOUS
  <2>3. \A op, id, n : [Idle EXCEPT !.at = "sending", !.op = op, !.id = id, !.part = n]
           = [[[[Idle EXCEPT !.at = "sending"] EXCEPT !.op = op] EXCEPT !.id = id]
                  EXCEPT !.part = n]
    OBVIOUS
  <2>. QED
    BY <1>1, <1>2, <1>3, <1>4, <1>5, <1>6, <1>7, <1>8, <2>1, <2>2, <2>3 DEF WaitFor

\* The same for the Session structure.
LEMMA StructuresAreTyped ==
  /\ NoSession \in Structures
  /\ \A p \in Paths, u \in Accounts :
        [path |-> p, account |-> u, active |-> TRUE, completing |-> FALSE,
         result |-> None, live |-> TRUE] \in Structures
  /\ \A s \in Structures : /\ \A o \in Outcomes : [s EXCEPT !.result = o] \in Structures
                           /\ \A b \in BOOLEAN :
                                 /\ [s EXCEPT !.active = b] \in Structures
                                 /\ [s EXCEPT !.completing = b] \in Structures
                                 /\ [s EXCEPT !.live = b] \in Structures
  /\ \A s \in Structures : /\ s.completing \in BOOLEAN /\ s.active \in BOOLEAN
                           /\ s.result \in Outcomes \cup {None}
BY DEF NoSession, Structures

\* The commands a handler sends.
LEMMA CommandsAreTyped ==
  ASSUME NEW r \in Requests, rq \in [Requests -> Calls],
         rq[r].op \in {"sign", "complete", "cancel"}
  PROVE  Sent(r) \in Commands
BY DEF Sent, Commands, Calls

\* A request of the browser that is not a start looks a session up.
LEMMA ClientCases ==
  ASSUME RestTyped, NEW r \in Requests, Client(r)
  PROVE  \/ \E p \in Paths, u \in Accounts : Start(r, p, u)
         \/ \E op \in {"sign", "complete", "cancel"}, id \in Ids, n \in 0..(Parts + 1) :
               Lookup(r, op, id, n)
<1>1. known \subseteq Ids /\ 0 \in 0..(Parts + 1) /\ 1..(Parts + 1) \subseteq 0..(Parts + 1)
  BY DirectAssumption DEF RestTyped
<1>2. ASSUME NEW id \in known, NEW n \in 1..(Parts + 1), SignPart(r, id, n)
      PROVE  Lookup(r, "sign", id, n)
  BY <1>2 DEF SignPart
<1>3. ASSUME NEW id \in known, Complete(r, id) PROVE Lookup(r, "complete", id, 0)
  BY <1>3 DEF Complete
<1>4. ASSUME NEW id \in known, Cancel(r, id) PROVE Lookup(r, "cancel", id, 0)
  BY <1>4 DEF Cancel
<1>. QED
  BY <1>1, <1>2, <1>3, <1>4, Zenon DEF Client

\* A receiver that is dropped leaves an empty channel.
LEMMA ClosedIsTyped ==
  ASSUME ChannelTyped, NEW id \in Ids, Close(id) PROVE ChannelTyped'
<1>1. <<>> \in Seq(Commands) /\ Len(<<>>) <= ChannelSize
  BY DirectAssumption
<1>. QED
  BY <1>1 DEF Close, ChannelTyped

\* What a handler answers is an outcome.
LEMMA AnswerIsTyped ==
  ASSUME HandlersTyped, NEW r \in Requests, rq[r].id \in Ids, NEW o \in Outcomes,
         Answer(r, o)
  PROVE  told' \in [Ids -> SUBSET Outcomes]
<1>1. told[rq[r].id] \cup ({o} \ {"unknown"}) \in SUBSET Outcomes
  BY DEF HandlersTyped
<1>. QED
  BY <1>1 DEF Answer, HandlersTyped

\* The sessions stay typed: what is looked up, inserted, settled or expired.
LEMMA StoreStep ==
  ASSUME IInv, [Next]_vars PROVE StoreTyped'
<1> USE DirectAssumption DEF IInv, TypeOK, StoreTyped, WorkTyped, channel, work,
   remote, ticket, None, Uploading, Outcome, OutcomeAt, Callers, CallAt
<1>1. ASSUME NEW r \in Requests, NEW p \in Paths, NEW u \in Accounts, Start(r, p, u)
      PROVE  StoreTyped'
  BY <1>1 DEF Start, Retained
<1>2. ASSUME NEW r \in Requests, NEW id \in Ids, NEW n \in 0..(Parts + 1),
             NEW op \in {"sign", "complete", "cancel"}, Lookup(r, op, id, n)
      PROVE  StoreTyped'
  BY <1>2, StructuresAreTyped DEF Lookup
<1>3. ASSUME NEW r \in Requests, BeginItem(r) PROVE StoreTyped'
  <2>1. /\ rq[r].path \in Paths /\ rq[r].account \in Accounts
    BY <1>3 DEF BeginItem
  <2>2. CASE sessions' = sessions /\ session' = session
    BY <2>2
  <2>3. ASSUME NEW id \in Ids, sessions' = sessions \cup {id},
               session' = [session EXCEPT ![id] =
                  [path |-> rq[r].path, account |-> rq[r].account, active |-> TRUE,
                   completing |-> FALSE, result |-> None, live |-> TRUE]]
        PROVE  StoreTyped'
    BY <2>1, <2>3, StructuresAreTyped
  <2>. QED
    BY <1>3, <2>2, <2>3 DEF BeginItem
<1>4. ASSUME NEW r \in Requests, NoDescriptor(r) PROVE StoreTyped'
  BY <1>4 DEF NoDescriptor
<1>5. ASSUME NEW r \in Requests, Send(r) PROVE StoreTyped'
  <2>1. rq[r].id \in Ids /\ sessions' = sessions
    BY <1>5 DEF Send
  <2>2. CASE session' = session
    BY <2>1, <2>2
  <2>3. CASE session' = [session EXCEPT ![rq[r].id].completing =
                            @ /\ rq[r].op # "complete"]
    BY <2>1, <2>3, StructuresAreTyped
  <2>. QED
    BY <1>5, <2>2, <2>3 DEF Send
<1>6. ASSUME NEW r \in Requests, NoReply(r) PROVE StoreTyped'
  BY <1>6 DEF NoReply
<1>7. ASSUME NEW r \in Requests, Arm(r) PROVE StoreTyped'
  BY <1>7 DEF Arm
<1>8. ASSUME NEW r \in Requests, Look(r) PROVE StoreTyped'
  BY <1>8 DEF Look
<1>9. ASSUME NEW r \in Requests, CheckActive(r) PROVE StoreTyped'
  BY <1>9 DEF CheckActive, Absent
<1>10. ASSUME NEW r \in Requests, Wake(r) PROVE StoreTyped'
  BY <1>10 DEF Wake
<1>11. ASSUME NEW r \in Requests, DropHandler(r) PROVE StoreTyped'
  BY <1>11 DEF DropHandler
<1>12. ASSUME NEW id \in Ids, Open(id) PROVE StoreTyped'
  BY <1>12 DEF Open, GiveUp, Unpublished, EndUpload
<1>13. ASSUME NEW id \in Ids, Receive(id) PROVE StoreTyped'
  BY <1>13 DEF Receive, GiveUp, Unpublished, EndUpload
<1>14. ASSUME NEW id \in Ids, Timeout(id) PROVE StoreTyped'
  BY <1>14 DEF Timeout
<1>15. ASSUME NEW id \in Ids, ListPage(id) PROVE StoreTyped'
  BY <1>15 DEF ListPage, GiveUp, Unpublished, EndUpload, CompleteSet
<1>16. ASSUME NEW id \in Ids, Publish(id) PROVE StoreTyped'
  BY <1>16 DEF Publish, GiveUp, Unpublished, EndUpload
<1>17. ASSUME NEW id \in Ids, Finish(id) PROVE StoreTyped'
  BY <1>17 DEF Finish, Proceed, StatusOf, Attended
<1>18. ASSUME NEW id \in Ids, StoreResult(id) PROVE StoreTyped'
  BY <1>18, StructuresAreTyped DEF StoreResult, Proceed
<1>19. ASSUME NEW id \in Ids, Retire(id) PROVE StoreTyped'
  BY <1>19, StructuresAreTyped DEF Retire, Proceed
<1>20. ASSUME NEW id \in Ids, Renew(id) PROVE StoreTyped'
  BY <1>20, StructuresAreTyped DEF Renew, Proceed
<1>21. ASSUME NEW id \in Ids, Notify(id) PROVE StoreTyped'
  BY <1>21 DEF Notify, Proceed
<1>22. ASSUME NEW id \in Ids, SettleInterrupted(id) PROVE StoreTyped'
  BY <1>22 DEF SettleInterrupted
<1>23. ASSUME NEW id \in Ids, BreakTransfer(id) PROVE StoreTyped'
  BY <1>23 DEF BreakTransfer, GiveUp, Unpublished, EndUpload
<1>24. ASSUME NEW id \in Ids, Interrupt(id) PROVE StoreTyped'
  BY <1>24, StructuresAreTyped DEF Interrupt
<1>25. ASSUME NEW id \in Ids, UploadPart(id) PROVE StoreTyped'
  BY <1>25 DEF UploadPart
<1>26. ASSUME NEW id \in Ids, Expire(id) PROVE StoreTyped'
  BY <1>26, StructuresAreTyped DEF Expire
<1>27. CASE UNCHANGED vars
  BY <1>27 DEF vars
<1>28. RestTyped
  BY DEF IInv, TypeOK
<1>30. ASSUME NEW id \in Ids, Confirm(id) PROVE StoreTyped'
  BY <1>30 DEF Confirm
<1>31. ASSUME NEW n \in Concurrencies, SetConcurrency(n) PROVE StoreTyped'
  BY <1>31 DEF SetConcurrency
<1>. HIDE DEF IInv, TypeOK, StoreTyped, WorkTyped, channel, work, remote, ticket,
   None, Uploading, Outcome, OutcomeAt, Callers, CallAt
<1>. QED
  BY <1>30, <1>31, <1>1, <1>2, <1>3, <1>4, <1>5, <1>6, <1>7, <1>8, <1>9, <1>10, <1>11, <1>12, <1>13,
     <1>14, <1>15, <1>16, <1>17, <1>18, <1>19, <1>20, <1>21, <1>22, <1>23, <1>24,
     <1>25, <1>26, <1>27, <1>28, ClientCases, Zenon
     DEF Next, HandlerStep, OwnerStep

\* The handlers stay typed, and only outcomes are told.
LEMMA HandlersStep ==
  ASSUME IInv, [Next]_vars PROVE HandlersTyped'
<1> USE DirectAssumption DEF IInv, TypeOK, StoreTyped, HandlersTyped, channel, work,
   remote, ticket, Outcomes, None, Callers, CallAt, Places
<1>1. ASSUME NEW r \in Requests, NEW p \in Paths, NEW u \in Accounts, Start(r, p, u)
      PROVE  HandlersTyped'
  <2>1. \/ UNCHANGED <<registry, rq>>
        \/ registry' = r /\ rq' = [rq EXCEPT ![r] = [Idle EXCEPT !.at = "begin", !.op = "start",
                                                    !.path = p, !.account = u]]
    BY <1>1 DEF Start
  <2>2. told' = told
    BY <1>1 DEF Start
  <2>3. CASE UNCHANGED <<registry, rq>>
    BY <2>2, <2>3
  <2>4. CASE registry' = r /\ rq' = [rq EXCEPT ![r] = [Idle EXCEPT !.at = "begin", !.op = "start",
                                                        !.path = p, !.account = u]]
    <3>1. [Idle EXCEPT !.at = "begin", !.op = "start", !.path = p, !.account = u] \in Calls
      BY CallsAreTyped
    <3>. QED
      BY <2>2, <2>4, <3>1
  <2>. QED
    BY <2>1, <2>3, <2>4
<1>2. ASSUME NEW r \in Requests, NEW id \in Ids, NEW n \in 0..(Parts + 1),
             NEW op \in {"sign", "complete", "cancel"}, Lookup(r, op, id, n)
      PROVE  HandlersTyped'
  BY <1>2, CallsAreTyped DEF Lookup
<1>3. ASSUME NEW r \in Requests, BeginItem(r) PROVE HandlersTyped'
  <2>1. registry' = Free /\ told' = told
    BY <1>3 DEF BeginItem
  <2>2. CASE Return(r)
    BY <2>1, <2>2, CallsAreTyped DEF Return
  <2>3. ASSUME NEW id \in Ids, rq' = [rq EXCEPT ![r].at = "descriptor", ![r].id = id]
        PROVE  HandlersTyped'
    <3>1. rq[r] \in Calls
      OBVIOUS
    <3>2. [rq[r] EXCEPT !.at = "descriptor", !.id = id] \in Calls
      BY <3>1, CallsAreTyped
    <3>3. rq' = [rq EXCEPT ![r] = [rq[r] EXCEPT !.at = "descriptor", !.id = id]]
      BY <2>3
    <3>. QED
      BY <2>1, <3>2, <3>3
  <2>. QED
    BY <1>3, <2>2, <2>3 DEF BeginItem
<1>4. ASSUME NEW r \in Requests, NoDescriptor(r) PROVE HandlersTyped'
  BY <1>4, CallsAreTyped DEF NoDescriptor, Return
<1>5. ASSUME NEW r \in Requests, Send(r) PROVE HandlersTyped'
  <2>1. rq[r].id \in Ids /\ registry' = registry /\ told' = told
    BY <1>5 DEF Send
  <2>2. CASE Goto(r, "reply")
    BY <2>1, <2>2, CallsAreTyped DEF Goto
  <2>3. CASE rq' = [rq EXCEPT ![r] = WaitFor(rq[r].op, rq[r].id)]
    <3>1. rq[r].op \in {"sign", "complete", "cancel"}
      BY <1>5 DEF Send
    <3>. QED
      BY <2>1, <2>3, <3>1, CallsAreTyped
  <2>4. CASE Return(r)
    BY <2>1, <2>4, CallsAreTyped DEF Return
  <2>. QED
    BY <1>5, <2>2, <2>3, <2>4 DEF Send
<1>6. ASSUME NEW r \in Requests, NoReply(r) PROVE HandlersTyped'
  BY <1>6, CallsAreTyped DEF NoReply, Return
<1>7. ASSUME NEW r \in Requests, Arm(r) PROVE HandlersTyped'
  BY <1>7, CallsAreTyped DEF Arm
<1>8. ASSUME NEW r \in Requests, Look(r) PROVE HandlersTyped'
  <2>1. rq[r].id \in Ids /\ registry' = registry
    BY <1>8 DEF Look
  <2>2. rq' \in [Requests -> Calls]
    <3>1. Return(r) \/ Goto(r, "check")
      BY <1>8 DEF Look, Answer
    <3>2. CASE Return(r)
      BY <3>2, CallsAreTyped DEF Return
    <3>3. CASE Goto(r, "check")
      BY <3>3, CallsAreTyped DEF Goto
    <3>. QED
      BY <3>1, <3>2, <3>3
  <2>3. told' = told \/ \E o \in Outcomes : Answer(r, o)
    BY <1>8, <2>1, StructuresAreTyped DEF Look
  <2>. QED
    BY <2>1, <2>2, <2>3, AnswerIsTyped
<1>9. ASSUME NEW r \in Requests, CheckActive(r) PROVE HandlersTyped'
  <2>1. rq[r].id \in Ids /\ registry' = registry
    BY <1>9 DEF CheckActive
  <2>2. rq' \in [Requests -> Calls]
    <3>1. Return(r) \/ Goto(r, "wait")
      BY <1>9 DEF CheckActive, Answer
    <3>2. CASE Return(r)
      BY <3>2, CallsAreTyped DEF Return
    <3>3. CASE Goto(r, "wait")
      BY <3>3, CallsAreTyped DEF Goto
    <3>. QED
      BY <3>1, <3>2, <3>3
  <2>3. told' = told \/ \E o \in Outcomes : Answer(r, o)
    BY <1>9, <2>1, StructuresAreTyped DEF CheckActive, Absent
  <2>. QED
    BY <2>1, <2>2, <2>3, AnswerIsTyped
<1>10. ASSUME NEW r \in Requests, Wake(r) PROVE HandlersTyped'
  BY <1>10, CallsAreTyped DEF Wake, Goto
<1>11. ASSUME NEW r \in Requests, DropHandler(r) PROVE HandlersTyped'
  BY <1>11, CallsAreTyped DEF DropHandler
<1>12. ASSUME NEW id \in Ids, Open(id) PROVE HandlersTyped'
  <2>1. \/ rq' = rq
        \/ rq' = [q \in Requests |-> IF rq[q].at = "descriptor" /\ rq[q].id = id
                                    THEN Idle ELSE rq[q]]
    BY <1>12 DEF Open
  <2>2. registry' = registry /\ told' = told
    BY <1>12 DEF Open
  <2>. QED
    BY <2>1, <2>2, CallsAreTyped
<1>13. ASSUME NEW id \in Ids, Receive(id) PROVE HandlersTyped'
  BY <1>13, CallsAreTyped DEF Receive, GiveUp, Unpublished, EndUpload
<1>14. ASSUME NEW id \in Ids, Timeout(id) PROVE HandlersTyped'
  BY <1>14 DEF Timeout
<1>15. ASSUME NEW id \in Ids, ListPage(id) PROVE HandlersTyped'
  BY <1>15 DEF ListPage, GiveUp, Unpublished, EndUpload, CompleteSet
<1>16. ASSUME NEW id \in Ids, Publish(id) PROVE HandlersTyped'
  BY <1>16 DEF Publish, GiveUp, Unpublished, EndUpload
<1>17. ASSUME NEW id \in Ids, Finish(id) PROVE HandlersTyped'
  BY <1>17 DEF Finish, Proceed, StatusOf, Attended
<1>18. ASSUME NEW id \in Ids, StoreResult(id) PROVE HandlersTyped'
  BY <1>18 DEF StoreResult, Proceed
<1>19. ASSUME NEW id \in Ids, Retire(id) PROVE HandlersTyped'
  BY <1>19 DEF Retire, Proceed
<1>20. ASSUME NEW id \in Ids, Renew(id) PROVE HandlersTyped'
  BY <1>20 DEF Renew, Proceed
<1>21. ASSUME NEW id \in Ids, Notify(id) PROVE HandlersTyped'
  BY <1>21, CallsAreTyped DEF Notify, Proceed, NotifyWaiters
<1>22. ASSUME NEW id \in Ids, SettleInterrupted(id) PROVE HandlersTyped'
  BY <1>22 DEF SettleInterrupted
<1>23. ASSUME NEW id \in Ids, BreakTransfer(id) PROVE HandlersTyped'
  BY <1>23 DEF BreakTransfer, GiveUp, Unpublished, EndUpload
<1>24. ASSUME NEW id \in Ids, Interrupt(id) PROVE HandlersTyped'
  BY <1>24, CallsAreTyped DEF Interrupt, NotifyWaiters
<1>25. ASSUME NEW id \in Ids, UploadPart(id) PROVE HandlersTyped'
  BY <1>25 DEF UploadPart
<1>26. ASSUME NEW id \in Ids, Expire(id) PROVE HandlersTyped'
  BY <1>26 DEF Expire
<1>27. CASE UNCHANGED vars
  BY <1>27 DEF vars
<1>28. RestTyped
  BY DEF IInv, TypeOK
<1>30. ASSUME NEW id \in Ids, Confirm(id) PROVE HandlersTyped'
  BY <1>30 DEF Confirm
<1>31. ASSUME NEW n \in Concurrencies, SetConcurrency(n) PROVE HandlersTyped'
  BY <1>31 DEF SetConcurrency
<1>. HIDE DEF IInv, TypeOK, StoreTyped, HandlersTyped, channel, work, remote, ticket,
   Outcomes, None, Callers, CallAt, Places
<1>. QED
  BY <1>30, <1>31, <1>1, <1>2, <1>3, <1>4, <1>5, <1>6, <1>7, <1>8, <1>9, <1>10, <1>11, <1>12, <1>13,
     <1>14, <1>15, <1>16, <1>17, <1>18, <1>19, <1>20, <1>21, <1>22, <1>23, <1>24,
     <1>25, <1>26, <1>27, <1>28, ClientCases, Zenon
     DEF Next, HandlerStep, OwnerStep

\* The commands stay typed and a channel never holds more than its size.
LEMMA ChannelStep ==
  ASSUME IInv, [Next]_vars PROVE ChannelTyped'
<1> USE DirectAssumption DEF IInv, TypeOK, HandlersTyped, ChannelTyped, channel, work,
   remote, ticket, Callers, CallAt
<1>1. ASSUME NEW r \in Requests, NEW p \in Paths, NEW u \in Accounts, Start(r, p, u)
      PROVE  ChannelTyped'
  BY <1>1 DEF Start, Retained
<1>2. ASSUME NEW r \in Requests, NEW id \in Ids, NEW n \in 0..(Parts + 1),
             NEW op \in {"sign", "complete", "cancel"}, Lookup(r, op, id, n)
      PROVE  ChannelTyped'
  BY <1>2 DEF Lookup
<1>3. ASSUME NEW r \in Requests, BeginItem(r) PROVE ChannelTyped'
  BY <1>3 DEF BeginItem
<1>4. ASSUME NEW r \in Requests, NoDescriptor(r) PROVE ChannelTyped'
  BY <1>4 DEF NoDescriptor
<1>5. ASSUME NEW r \in Requests, Send(r) PROVE ChannelTyped'
  <2>1. /\ rq[r].id \in Ids /\ open' = open /\ Sent(r) \in Commands
    BY <1>5, CommandsAreTyped DEF Send
  <2>2. CASE queue' = queue
    BY <2>1, <2>2
  <2>3. CASE /\ Len(queue[rq[r].id]) < ChannelSize
             /\ queue' = [queue EXCEPT ![rq[r].id] = Append(@, Sent(r))]
    BY <2>1, <2>3
  <2>. QED
    BY <1>5, <2>2, <2>3 DEF Send
<1>6. ASSUME NEW r \in Requests, NoReply(r) PROVE ChannelTyped'
  BY <1>6 DEF NoReply
<1>7. ASSUME NEW r \in Requests, Arm(r) PROVE ChannelTyped'
  BY <1>7 DEF Arm
<1>8. ASSUME NEW r \in Requests, Look(r) PROVE ChannelTyped'
  BY <1>8 DEF Look, Answer
<1>9. ASSUME NEW r \in Requests, CheckActive(r) PROVE ChannelTyped'
  BY <1>9 DEF CheckActive, Answer, Absent
<1>10. ASSUME NEW r \in Requests, Wake(r) PROVE ChannelTyped'
  BY <1>10 DEF Wake
<1>11. ASSUME NEW r \in Requests, DropHandler(r) PROVE ChannelTyped'
  BY <1>11 DEF DropHandler
<1>12. ASSUME NEW id \in Ids, Open(id) PROVE ChannelTyped'
  <2>1. CASE UNCHANGED channel
    BY <2>1
  <2>2. CASE Close(id)
    BY <2>2, ClosedIsTyped
  <2>. QED
    BY <1>12, <2>1, <2>2 DEF Open, GiveUp
<1>13. ASSUME NEW id \in Ids, Receive(id) PROVE ChannelTyped'
  <2>1. CASE UNCHANGED open /\ queue' = [queue EXCEPT ![id] = Tail(@)] /\ queue[id] # <<>>
    BY <2>1
  <2>2. CASE Close(id)
    BY <2>2, ClosedIsTyped
  <2>. QED
    BY <1>13, <2>1, <2>2 DEF Receive, GiveUp
<1>14. ASSUME NEW id \in Ids, Timeout(id) PROVE ChannelTyped'
  BY <1>14 DEF Timeout
<1>15. ASSUME NEW id \in Ids, ListPage(id) PROVE ChannelTyped'
  <2>1. CASE UNCHANGED channel
    BY <2>1
  <2>2. CASE Close(id)
    BY <2>2, ClosedIsTyped
  <2>. QED
    BY <1>15, <2>1, <2>2 DEF ListPage, GiveUp
<1>16. ASSUME NEW id \in Ids, Publish(id) PROVE ChannelTyped'
  BY <1>16 DEF Publish, GiveUp, Unpublished, EndUpload
<1>17. ASSUME NEW id \in Ids, Finish(id) PROVE ChannelTyped'
  BY <1>17 DEF Finish, Proceed, StatusOf, Attended
<1>18. ASSUME NEW id \in Ids, StoreResult(id) PROVE ChannelTyped'
  BY <1>18 DEF StoreResult, Proceed
<1>19. ASSUME NEW id \in Ids, Retire(id) PROVE ChannelTyped'
  BY <1>19 DEF Retire, Proceed
<1>20. ASSUME NEW id \in Ids, Renew(id) PROVE ChannelTyped'
  BY <1>20 DEF Renew, Proceed
<1>21. ASSUME NEW id \in Ids, Notify(id) PROVE ChannelTyped'
  BY <1>21 DEF Notify, Proceed, NotifyWaiters
<1>22. ASSUME NEW id \in Ids, SettleInterrupted(id) PROVE ChannelTyped'
  BY <1>22 DEF SettleInterrupted
<1>23. ASSUME NEW id \in Ids, BreakTransfer(id) PROVE ChannelTyped'
  BY <1>23, ClosedIsTyped DEF BreakTransfer, GiveUp
<1>24. ASSUME NEW id \in Ids, Interrupt(id) PROVE ChannelTyped'
  BY <1>24 DEF Interrupt, NotifyWaiters
<1>25. ASSUME NEW id \in Ids, UploadPart(id) PROVE ChannelTyped'
  BY <1>25 DEF UploadPart
<1>26. ASSUME NEW id \in Ids, Expire(id) PROVE ChannelTyped'
  BY <1>26 DEF Expire
<1>27. CASE UNCHANGED vars
  BY <1>27 DEF vars
<1>28. RestTyped
  BY DEF IInv, TypeOK
<1>30. ASSUME NEW id \in Ids, Confirm(id) PROVE ChannelTyped'
  BY <1>30 DEF Confirm
<1>31. ASSUME NEW n \in Concurrencies, SetConcurrency(n) PROVE ChannelTyped'
  BY <1>31 DEF SetConcurrency
<1>. HIDE DEF IInv, TypeOK, HandlersTyped, ChannelTyped, channel, work, remote,
   ticket, Callers, CallAt
<1>. QED
  BY <1>30, <1>31, <1>1, <1>2, <1>3, <1>4, <1>5, <1>6, <1>7, <1>8, <1>9, <1>10, <1>11, <1>12, <1>13,
     <1>14, <1>15, <1>16, <1>17, <1>18, <1>19, <1>20, <1>21, <1>22, <1>23, <1>24,
     <1>25, <1>26, <1>27, <1>28, ClientCases, Zenon
     DEF Next, HandlerStep, OwnerStep

\* The owner tasks stay typed; a page of list_parts never goes beyond the last part.
LEMMA WorkStep ==
  ASSUME IInv, [Next]_vars PROVE WorkTyped'
<1> USE DirectAssumption DEF IInv, TypeOK, WorkTyped, channel, work, remote, ticket,
   Uploading, Settling, Outcomes
<1>1. ASSUME NEW r \in Requests, NEW p \in Paths, NEW u \in Accounts, Start(r, p, u)
      PROVE  WorkTyped'
  BY <1>1 DEF Start, Retained
<1>2. ASSUME NEW r \in Requests, NEW id \in Ids, NEW n \in 0..(Parts + 1),
             NEW op \in {"sign", "complete", "cancel"}, Lookup(r, op, id, n)
      PROVE  WorkTyped'
  BY <1>2 DEF Lookup
<1>3. ASSUME NEW r \in Requests, BeginItem(r) PROVE WorkTyped'
  BY <1>3 DEF BeginItem
<1>4. ASSUME NEW r \in Requests, NoDescriptor(r) PROVE WorkTyped'
  BY <1>4 DEF NoDescriptor
<1>5. ASSUME NEW r \in Requests, Send(r) PROVE WorkTyped'
  BY <1>5 DEF Send, Sent
<1>6. ASSUME NEW r \in Requests, NoReply(r) PROVE WorkTyped'
  BY <1>6 DEF NoReply
<1>7. ASSUME NEW r \in Requests, Arm(r) PROVE WorkTyped'
  BY <1>7 DEF Arm
<1>8. ASSUME NEW r \in Requests, Look(r) PROVE WorkTyped'
  BY <1>8 DEF Look, Answer
<1>9. ASSUME NEW r \in Requests, CheckActive(r) PROVE WorkTyped'
  BY <1>9 DEF CheckActive, Answer, Absent
<1>10. ASSUME NEW r \in Requests, Wake(r) PROVE WorkTyped'
  BY <1>10 DEF Wake
<1>11. ASSUME NEW r \in Requests, DropHandler(r) PROVE WorkTyped'
  BY <1>11 DEF DropHandler
<1>12. ASSUME NEW id \in Ids, Open(id) PROVE WorkTyped'
  BY <1>12 DEF Open, GiveUp, Unpublished, EndUpload, Close
<1>13. ASSUME NEW id \in Ids, Receive(id) PROVE WorkTyped'
  BY <1>13 DEF Receive, GiveUp, Unpublished, EndUpload, Close
<1>14. ASSUME NEW id \in Ids, Timeout(id) PROVE WorkTyped'
  BY <1>14 DEF Timeout
<1>15. ASSUME NEW id \in Ids, ListPage(id) PROVE WorkTyped'
  <2>1. \/ seen' = seen
        \/ seen' = [seen EXCEPT ![id] = @ + 1] /\ seen[id] + 1 \in 1..Parts
    BY <1>15 DEF ListPage, RestTyped
  <2>2. \/ UNCHANGED <<owner, outcome>>
        \/ owner' = [owner EXCEPT ![id] = "publishing"] /\ outcome' = outcome
        \/ \E o \in Outcomes : EndUpload(id, o)
    BY <1>15 DEF ListPage, GiveUp, Unpublished
  <2>3. interrupted' = interrupted
    BY <1>15 DEF ListPage
  <2>4. seen' \in [Ids -> 0..Parts]
    BY <2>1
  <2>. QED
    BY <2>2, <2>3, <2>4 DEF EndUpload
<1>16. ASSUME NEW id \in Ids, Publish(id) PROVE WorkTyped'
  BY <1>16 DEF Publish, GiveUp, Unpublished, EndUpload
<1>17. ASSUME NEW id \in Ids, Finish(id) PROVE WorkTyped'
  BY <1>17 DEF Finish, Proceed, StatusOf, Attended
<1>18. ASSUME NEW id \in Ids, StoreResult(id) PROVE WorkTyped'
  BY <1>18 DEF StoreResult, Proceed
<1>19. ASSUME NEW id \in Ids, Retire(id) PROVE WorkTyped'
  BY <1>19 DEF Retire, Proceed
<1>20. ASSUME NEW id \in Ids, Renew(id) PROVE WorkTyped'
  BY <1>20 DEF Renew, Proceed
<1>21. ASSUME NEW id \in Ids, Notify(id) PROVE WorkTyped'
  BY <1>21 DEF Notify, Proceed, NotifyWaiters
<1>22. ASSUME NEW id \in Ids, SettleInterrupted(id) PROVE WorkTyped'
  BY <1>22 DEF SettleInterrupted
<1>23. ASSUME NEW id \in Ids, BreakTransfer(id) PROVE WorkTyped'
  BY <1>23 DEF BreakTransfer, GiveUp, Unpublished, EndUpload, Close
<1>24. ASSUME NEW id \in Ids, Interrupt(id) PROVE WorkTyped'
  BY <1>24 DEF Interrupt, NotifyWaiters
<1>25. ASSUME NEW id \in Ids, UploadPart(id) PROVE WorkTyped'
  BY <1>25 DEF UploadPart
<1>26. ASSUME NEW id \in Ids, Expire(id) PROVE WorkTyped'
  BY <1>26 DEF Expire
<1>27. CASE UNCHANGED vars
  BY <1>27 DEF vars
<1>28. RestTyped
  BY DEF IInv, TypeOK
<1>30. ASSUME NEW id \in Ids, Confirm(id) PROVE WorkTyped'
  BY <1>30 DEF Confirm
<1>31. ASSUME NEW n \in Concurrencies, SetConcurrency(n) PROVE WorkTyped'
  BY <1>31 DEF SetConcurrency
<1>. HIDE DEF IInv, TypeOK, WorkTyped, channel, work, remote, ticket, Uploading,
   Settling, Outcomes
<1>. QED
  BY <1>30, <1>31, <1>1, <1>2, <1>3, <1>4, <1>5, <1>6, <1>7, <1>8, <1>9, <1>10, <1>11, <1>12, <1>13,
     <1>14, <1>15, <1>16, <1>17, <1>18, <1>19, <1>20, <1>21, <1>22, <1>23, <1>24,
     <1>25, <1>26, <1>27, <1>28, ClientCases, Zenon
     DEF Next, HandlerStep, OwnerStep

\* The bucket, the items and the bounds stay typed.
LEMMA RestStep ==
  ASSUME IInv, [Next]_vars PROVE RestTyped'
<1> USE DirectAssumption DEF IInv, TypeOK, RestTyped, channel, work, remote, ticket,
   Born, BornAt, Callers, CallAt, StatusOf
<1>1. ASSUME NEW r \in Requests, NEW id \in known, NEW n \in 1..(Parts + 1), SignPart(r, id, n)
      PROVE  RestTyped'
  BY <1>1 DEF SignPart, Lookup
<1>2. ASSUME NEW r \in Requests, NEW id \in known, Complete(r, id) PROVE RestTyped'
  BY <1>2 DEF Complete, Lookup
<1>3. ASSUME NEW r \in Requests, NEW id \in known, Cancel(r, id) PROVE RestTyped'
  BY <1>3 DEF Cancel, Lookup
<1>4. ASSUME NEW r \in Requests, NEW p \in Paths, NEW u \in Accounts, Start(r, p, u)
      PROVE  RestTyped'
  BY <1>4 DEF Start, Retained
<1>5. ASSUME NEW r \in Requests, BeginItem(r) PROVE RestTyped'
  <2>1. rq[r].path \in Paths
    BY <1>5 DEF BeginItem
  <2>. QED
    BY <1>5, <2>1 DEF BeginItem
<1>6. ASSUME NEW r \in Requests, NoDescriptor(r) PROVE RestTyped'
  BY <1>6 DEF NoDescriptor
<1>7. ASSUME NEW r \in Requests, Send(r) PROVE RestTyped'
  BY <1>7 DEF Send
<1>8. ASSUME NEW r \in Requests, NoReply(r) PROVE RestTyped'
  BY <1>8 DEF NoReply
<1>9. ASSUME NEW r \in Requests, Arm(r) PROVE RestTyped'
  BY <1>9 DEF Arm
<1>10. ASSUME NEW r \in Requests, Look(r) PROVE RestTyped'
  BY <1>10 DEF Look
<1>11. ASSUME NEW r \in Requests, CheckActive(r) PROVE RestTyped'
  BY <1>11 DEF CheckActive, Absent
<1>12. ASSUME NEW r \in Requests, Wake(r) PROVE RestTyped'
  BY <1>12 DEF Wake
<1>13. ASSUME NEW r \in Requests, DropHandler(r) PROVE RestTyped'
  BY <1>13 DEF DropHandler
<1>14. ASSUME NEW id \in Ids, Open(id) PROVE RestTyped'
  BY <1>14 DEF Open, GiveUp, Unpublished, EndUpload
<1>15. ASSUME NEW id \in Ids, Receive(id) PROVE RestTyped'
  BY <1>15 DEF Receive, GiveUp, Unpublished, EndUpload
<1>16. ASSUME NEW id \in Ids, Timeout(id) PROVE RestTyped'
  BY <1>16 DEF Timeout
<1>17. ASSUME NEW id \in Ids, ListPage(id) PROVE RestTyped'
  BY <1>17 DEF ListPage, GiveUp, Unpublished, EndUpload, CompleteSet
<1>18. ASSUME NEW id \in Ids, Publish(id) PROVE RestTyped'
  BY <1>18 DEF Publish, GiveUp, Unpublished, EndUpload
<1>19. ASSUME NEW id \in Ids, Finish(id) PROVE RestTyped'
  <2>1. owner[id] = "finish" /\ session[id].path \in Paths
    BY <1>19 DEF Finish, Proceed
  <2>. QED
    BY <1>19, <2>1 DEF Finish
<1>20. ASSUME NEW id \in Ids, StoreResult(id) PROVE RestTyped'
  BY <1>20 DEF StoreResult
<1>21. ASSUME NEW id \in Ids, Retire(id) PROVE RestTyped'
  BY <1>21 DEF Retire
<1>22. ASSUME NEW id \in Ids, Renew(id) PROVE RestTyped'
  BY <1>22 DEF Renew
<1>23. ASSUME NEW id \in Ids, Notify(id) PROVE RestTyped'
  BY <1>23 DEF Notify
<1>24. ASSUME NEW id \in Ids, SettleInterrupted(id) PROVE RestTyped'
  <2>1. session[id].path \in Paths
    BY <1>24 DEF SettleInterrupted
  <2>. QED
    BY <1>24, <2>1 DEF SettleInterrupted
<1>25. ASSUME NEW id \in Ids, BreakTransfer(id) PROVE RestTyped'
  BY <1>25 DEF BreakTransfer, GiveUp, Unpublished, EndUpload
<1>26. ASSUME NEW id \in Ids, Interrupt(id) PROVE RestTyped'
  BY <1>26 DEF Interrupt
<1>27. ASSUME NEW id \in Ids, UploadPart(id) PROVE RestTyped'
  BY <1>27 DEF UploadPart
<1>28. ASSUME NEW id \in Ids, Expire(id) PROVE RestTyped'
  BY <1>28 DEF Expire
<1>29. CASE UNCHANGED vars
  BY <1>29 DEF vars
<1>30. ASSUME NEW id \in Ids, Confirm(id) PROVE RestTyped'
  BY <1>30 DEF Confirm
<1>31. ASSUME NEW n \in Concurrencies, SetConcurrency(n) PROVE RestTyped'
  BY <1>31 DEF SetConcurrency
<1>. HIDE DEF IInv, TypeOK, RestTyped, channel, work, remote, ticket, Born, BornAt,
   Callers, CallAt, StatusOf
<1>. QED
  BY <1>30, <1>31, <1>1, <1>2, <1>3, <1>4, <1>5, <1>6, <1>7, <1>8, <1>9, <1>10, <1>11, <1>12, <1>13,
     <1>14, <1>15, <1>16, <1>17, <1>18, <1>19, <1>20, <1>21, <1>22, <1>23, <1>24,
     <1>25, <1>26, <1>27, <1>28, <1>29, Zenon
     DEF Next, Client, HandlerStep, OwnerStep

-----------------------------------------------------------------------------
(* The parts of the invariant *)

\* Only the flag of a complete changes in a session that is looked up or sent to.
FlagOnly(q) ==
  /\ session'[q].path = session[q].path /\ session'[q].result = session[q].result
  /\ session'[q].active = session[q].active /\ session'[q].live = session[q].live
  /\ session'[q].account = session[q].account

\* A change of the flag changes nothing else.
LEMMA FlagStep ==
  ASSUME StoreTyped, NEW id \in Ids, NEW flag \in BOOLEAN,
         session' = [session EXCEPT ![id].completing = flag], NEW q \in Ids
  PROVE  FlagOnly(q)
<1>1. session[id] \in Structures /\ session[q] \in Structures
  BY DEF StoreTyped
<1>2. q # id => session'[q] = session[q]
  BY DEF StoreTyped
<1>3. session'[id] = [session[id] EXCEPT !.completing = flag]
  BY DEF StoreTyped
<1>. QED
  BY <1>1, <1>2, <1>3 DEF FlagOnly, Structures

\* A lookup changes at most the flag.
LEMMA LookupKeeps ==
  ASSUME StoreTyped, NEW r \in Requests, NEW op, NEW id \in Ids, NEW n, Lookup(r, op, id, n),
         NEW q \in Ids
  PROVE  FlagOnly(q)
<1>1. session' = [session EXCEPT ![id].completing = session[id].completing \/ op = "complete"]
  BY DEF Lookup
<1>2. (session[id].completing \/ op = "complete") \in BOOLEAN
  OBVIOUS
<1>. QED
  BY <1>1, <1>2, FlagStep

\* So does a send, which may give the flag back.
LEMMA SendKeeps ==
  ASSUME StoreTyped, NEW r \in Requests, rq[r].id \in Ids, Send(r), NEW q \in Ids
  PROVE  FlagOnly(q)
<1>1. CASE session' = session
  BY <1>1 DEF FlagOnly
<1>2. CASE session' = [session EXCEPT ![rq[r].id].completing = @ /\ rq[r].op # "complete"]
  <2>1. session' = [session EXCEPT ![rq[r].id].completing =
                       session[rq[r].id].completing /\ rq[r].op # "complete"]
    BY <1>2 DEF StoreTyped
  <2>2. (session[rq[r].id].completing /\ rq[r].op # "complete") \in BOOLEAN
    OBVIOUS
  <2>. QED
    BY <2>1, <2>2, FlagStep
<1>. QED
  BY <1>1, <1>2 DEF Send

\* A session gets its item when it is inserted, and nothing happens to it before.
LEMMA BornStep ==
  ASSUME IInv, [Next]_vars PROVE Born'
<1> USE DEF IInv, TypeOK, StoreTyped, HandlersTyped, WorkTyped, RestTyped, channel,
   work, remote, ticket, Uploading, Settling, Born, BornAt, NoSession, Callers, CallAt
<1>. SUFFICES ASSUME NEW q \in Ids PROVE BornAt(q)'
  BY DEF Born
<1>1. ASSUME NEW r \in Requests, NEW p \in Paths, NEW u \in Accounts, Start(r, p, u)
      PROVE  BornAt(q)'
  BY <1>1 DEF Start, Retained
<1>2. ASSUME NEW r \in Requests, NEW id \in Ids, NEW n \in 0..(Parts + 1),
             NEW op \in {"sign", "complete", "cancel"}, Lookup(r, op, id, n)
      PROVE  BornAt(q)'
  BY <1>2, LookupKeeps DEF Lookup, FlagOnly
<1>3. ASSUME NEW r \in Requests, BeginItem(r) PROVE BornAt(q)'
  <2>1. rq[r].path \in Paths
    BY <1>3 DEF BeginItem
  <2>2. CASE UNCHANGED <<sessions, session, owner>>
    BY <1>3, <2>2 DEF BeginItem
  <2>3. ASSUME NEW id \in Ids, sessions' = sessions \cup {id},
               owner' = [owner EXCEPT ![id] = "opening"],
               session' = [session EXCEPT ![id] =
                  [path |-> rq[r].path, account |-> rq[r].account, active |-> TRUE,
                   completing |-> FALSE, result |-> None, live |-> TRUE]]
        PROVE  BornAt(q)'
    <3>1. interrupted' = interrupted /\ told' = told
      BY <1>3 DEF BeginItem
    <3>. QED
      BY <2>1, <2>3, <3>1
  <2>. QED
    BY <1>3, <2>2, <2>3 DEF BeginItem
<1>4. ASSUME NEW r \in Requests, NoDescriptor(r) PROVE BornAt(q)'
  BY <1>4 DEF NoDescriptor, Return
<1>5. ASSUME NEW r \in Requests, Send(r) PROVE BornAt(q)'
  BY <1>5, SendKeeps DEF Send, FlagOnly
<1>6. ASSUME NEW r \in Requests, NoReply(r) PROVE BornAt(q)'
  BY <1>6 DEF NoReply, Return
<1>7. ASSUME NEW r \in Requests, Arm(r) PROVE BornAt(q)'
  BY <1>7 DEF Arm
<1>8. ASSUME NEW r \in Requests, Look(r) PROVE BornAt(q)'
  BY <1>8 DEF Look, Return, Goto, Answer
<1>9. ASSUME NEW r \in Requests, CheckActive(r) PROVE BornAt(q)'
  BY <1>9 DEF CheckActive, Return, Goto, Answer, Absent
<1>10. ASSUME NEW r \in Requests, Wake(r) PROVE BornAt(q)'
  BY <1>10 DEF Wake, Goto
<1>11. ASSUME NEW r \in Requests, DropHandler(r) PROVE BornAt(q)'
  BY <1>11 DEF DropHandler
<1>12. ASSUME NEW id \in Ids, Open(id) PROVE BornAt(q)'
  BY <1>12 DEF Open, GiveUp, Unpublished, EndUpload, Close
<1>13. ASSUME NEW id \in Ids, Receive(id) PROVE BornAt(q)'
  BY <1>13 DEF Receive, GiveUp, Unpublished, EndUpload, Close
<1>14. ASSUME NEW id \in Ids, Timeout(id) PROVE BornAt(q)'
  BY <1>14 DEF Timeout
<1>15. ASSUME NEW id \in Ids, ListPage(id) PROVE BornAt(q)'
  BY <1>15 DEF ListPage, GiveUp, Unpublished, EndUpload, Close, CompleteSet
<1>16. ASSUME NEW id \in Ids, Publish(id) PROVE BornAt(q)'
  BY <1>16 DEF Publish, GiveUp, Unpublished, EndUpload
<1>17. ASSUME NEW id \in Ids, Finish(id) PROVE BornAt(q)'
  BY <1>17 DEF Finish, Proceed, StatusOf, Attended
<1>18. ASSUME NEW id \in Ids, StoreResult(id) PROVE BornAt(q)'
  BY <1>18 DEF StoreResult, Proceed
<1>19. ASSUME NEW id \in Ids, Retire(id) PROVE BornAt(q)'
  BY <1>19 DEF Retire, Proceed
<1>20. ASSUME NEW id \in Ids, Renew(id) PROVE BornAt(q)'
  BY <1>20 DEF Renew, Proceed
<1>21. ASSUME NEW id \in Ids, Notify(id) PROVE BornAt(q)'
  BY <1>21 DEF Notify, Proceed, NotifyWaiters
<1>22. ASSUME NEW id \in Ids, SettleInterrupted(id) PROVE BornAt(q)'
  BY <1>22 DEF SettleInterrupted
<1>23. ASSUME NEW id \in Ids, BreakTransfer(id) PROVE BornAt(q)'
  BY <1>23 DEF BreakTransfer, GiveUp, Unpublished, EndUpload, Close
<1>24. ASSUME NEW id \in Ids, Interrupt(id) PROVE BornAt(q)'
  BY <1>24 DEF Interrupt, Structures
<1>25. ASSUME NEW id \in Ids, UploadPart(id) PROVE BornAt(q)'
  BY <1>25 DEF UploadPart
<1>26. ASSUME NEW id \in Ids, Expire(id) PROVE BornAt(q)'
  BY <1>26 DEF Expire, Structures
<1>27. CASE UNCHANGED vars
  BY <1>27 DEF vars
<1>28. RestTyped
  BY DEF IInv, TypeOK
<1>30. ASSUME NEW id \in Ids, Confirm(id) PROVE BornAt(q)'
  BY <1>30 DEF Confirm
<1>31. ASSUME NEW n \in Concurrencies, SetConcurrency(n) PROVE BornAt(q)'
  BY <1>31 DEF SetConcurrency
<1>. HIDE DEF IInv, TypeOK, StoreTyped, HandlersTyped, WorkTyped, RestTyped, channel,
   work, remote, ticket, Uploading, Settling, Born, BornAt, NoSession, Callers, CallAt
<1>. QED
  BY <1>30, <1>31, <1>1, <1>2, <1>3, <1>4, <1>5, <1>6, <1>7, <1>8, <1>9, <1>10, <1>11, <1>12, <1>13,
     <1>14, <1>15, <1>16, <1>17, <1>18, <1>19, <1>20, <1>21, <1>22, <1>23, <1>24,
     <1>25, <1>26, <1>27, <1>28, ClientCases, Zenon
     DEF Next, HandlerStep, OwnerStep

\* A start keeps the mutex until it inserts its session or gives up.
LEMMA CallersStep ==
  ASSUME IInv, [Next]_vars PROVE Callers'
<1> USE DirectAssumption DEF IInv, TypeOK, StoreTyped, HandlersTyped, WorkTyped,
   RestTyped, channel, work, remote, ticket, Uploading, Settling, Callers, CallAt,
   Idle
<1>. SUFFICES ASSUME NEW q \in Requests PROVE CallAt(q)'
  BY DEF Callers
<1>1. ASSUME NEW r \in Requests, NEW p \in Paths, NEW u \in Accounts, Start(r, p, u)
      PROVE  CallAt(q)'
  <2>1. q # r => rq'[q] = rq[q]
    BY <1>1 DEF Start
  <2>2. CASE UNCHANGED <<registry, rq>>
    BY <2>2
  <2>3. CASE registry' = r /\ rq' = [rq EXCEPT ![r] = [Idle EXCEPT !.at = "begin", !.op = "start",
                                                        !.path = p, !.account = u]]
    <3>1. registry = Free
      BY <1>1 DEF Start
    <3>2. rq'[r].at = "begin" /\ rq'[r].path = p /\ rq'[r].account = u
      BY <2>3
    <3>. QED
      BY <2>1, <2>3, <3>1, <3>2
  <2>. QED
    BY <1>1, <2>2, <2>3 DEF Start
<1>2. ASSUME NEW r \in Requests, NEW id \in Ids, NEW n \in 0..(Parts + 1),
             NEW op \in {"sign", "complete", "cancel"}, Lookup(r, op, id, n)
      PROVE  CallAt(q)'
  <2>1. q # r => rq'[q] = rq[q]
    BY <1>2 DEF Lookup
  <2>2. registry' = registry
    BY <1>2 DEF Lookup
  <2>3. \/ rq'[r] = [Idle EXCEPT !.at = "sending", !.op = op, !.id = id, !.part = n]
        \/ rq'[r] = WaitFor(op, id)
    BY <1>2 DEF Lookup
  <2>4. CallAt(r)'
    BY <2>3 DEF WaitFor
  <2>. QED
    BY <2>1, <2>2, <2>4
<1>3. ASSUME NEW r \in Requests, BeginItem(r) PROVE CallAt(q)'
  <2>1. q # r => rq'[q] = rq[q] /\ rq[q].at # "begin"
    BY <1>3 DEF BeginItem, Return
  <2>2. CASE Return(r)
    BY <2>1, <2>2 DEF Return
  <2>3. ASSUME NEW id \in Ids, rq' = [rq EXCEPT ![r].at = "descriptor", ![r].id = id]
        PROVE  CallAt(q)'
    <3>1. rq[r] \in Calls
      OBVIOUS
    <3>2. rq'[r].at = "descriptor" /\ rq'[r].id = id
      BY <2>3, <3>1 DEF Calls
    <3>. QED
      BY <2>1, <3>2
  <2>. QED
    BY <1>3, <2>2, <2>3 DEF BeginItem
<1>4. ASSUME NEW r \in Requests, NoDescriptor(r) PROVE CallAt(q)'
  BY <1>4 DEF NoDescriptor, Return
<1>5. ASSUME NEW r \in Requests, Send(r) PROVE CallAt(q)'
  <2>1. q # r => rq'[q] = rq[q]
    BY <1>5 DEF Send, Goto, Return
  <2>2. registry' = registry /\ rq[r].id \in Ids /\ rq[r] \in Calls
    BY <1>5 DEF Send
  <2>3. CASE Goto(r, "reply")
    BY <2>1, <2>2, <2>3 DEF Goto, Calls
  <2>4. CASE rq' = [rq EXCEPT ![r] = WaitFor(rq[r].op, rq[r].id)]
    <3>1. WaitFor(rq[r].op, rq[r].id).at = "arm" /\ WaitFor(rq[r].op, rq[r].id).id = rq[r].id
      BY DEF WaitFor
    <3>. QED
      BY <2>1, <2>2, <2>4, <3>1
  <2>5. CASE Return(r)
    BY <2>1, <2>2, <2>5 DEF Return
  <2>. QED
    BY <1>5, <2>3, <2>4, <2>5 DEF Send
<1>6. ASSUME NEW r \in Requests, NoReply(r) PROVE CallAt(q)'
  BY <1>6 DEF NoReply, Return
<1>7. ASSUME NEW r \in Requests, Arm(r) PROVE CallAt(q)'
  BY <1>7 DEF Arm
<1>8. ASSUME NEW r \in Requests, Look(r) PROVE CallAt(q)'
  <2>1. q # r => rq'[q] = rq[q]
    BY <1>8 DEF Look, Goto, Answer, Return
  <2>2. registry' = registry /\ rq[r].id \in Ids /\ rq[r] \in Calls
    BY <1>8 DEF Look
  <2>3. CASE Goto(r, "check")
    BY <2>1, <2>2, <2>3 DEF Goto, Calls
  <2>4. CASE Return(r)
    BY <2>1, <2>2, <2>4 DEF Return
  <2>. QED
    BY <1>8, <2>3, <2>4 DEF Look, Answer
<1>9. ASSUME NEW r \in Requests, CheckActive(r) PROVE CallAt(q)'
  <2>1. q # r => rq'[q] = rq[q]
    BY <1>9 DEF CheckActive, Goto, Answer, Return
  <2>2. registry' = registry /\ rq[r].id \in Ids /\ rq[r] \in Calls
    BY <1>9 DEF CheckActive
  <2>3. CASE Goto(r, "wait")
    BY <2>1, <2>2, <2>3 DEF Goto, Calls
  <2>4. CASE Return(r)
    BY <2>1, <2>2, <2>4 DEF Return
  <2>. QED
    BY <1>9, <2>3, <2>4 DEF CheckActive, Answer
<1>10. ASSUME NEW r \in Requests, Wake(r) PROVE CallAt(q)'
  BY <1>10 DEF Wake, Goto
<1>11. ASSUME NEW r \in Requests, DropHandler(r) PROVE CallAt(q)'
  BY <1>11 DEF DropHandler
<1>12. ASSUME NEW id \in Ids, Open(id) PROVE CallAt(q)'
  BY <1>12 DEF Open, GiveUp, Unpublished, EndUpload, Close
<1>13. ASSUME NEW id \in Ids, Receive(id) PROVE CallAt(q)'
  BY <1>13 DEF Receive, GiveUp, Unpublished, EndUpload, Close
<1>14. ASSUME NEW id \in Ids, Timeout(id) PROVE CallAt(q)'
  BY <1>14 DEF Timeout
<1>15. ASSUME NEW id \in Ids, ListPage(id) PROVE CallAt(q)'
  BY <1>15 DEF ListPage, GiveUp, Unpublished, EndUpload, Close, CompleteSet
<1>16. ASSUME NEW id \in Ids, Publish(id) PROVE CallAt(q)'
  BY <1>16 DEF Publish, GiveUp, Unpublished, EndUpload
<1>17. ASSUME NEW id \in Ids, Finish(id) PROVE CallAt(q)'
  BY <1>17 DEF Finish, Proceed, StatusOf, Attended
<1>18. ASSUME NEW id \in Ids, StoreResult(id) PROVE CallAt(q)'
  BY <1>18 DEF StoreResult, Proceed
<1>19. ASSUME NEW id \in Ids, Retire(id) PROVE CallAt(q)'
  BY <1>19 DEF Retire, Proceed
<1>20. ASSUME NEW id \in Ids, Renew(id) PROVE CallAt(q)'
  BY <1>20 DEF Renew, Proceed
<1>21. ASSUME NEW id \in Ids, Notify(id) PROVE CallAt(q)'
  BY <1>21 DEF Notify, Proceed, NotifyWaiters
<1>22. ASSUME NEW id \in Ids, SettleInterrupted(id) PROVE CallAt(q)'
  BY <1>22 DEF SettleInterrupted
<1>23. ASSUME NEW id \in Ids, BreakTransfer(id) PROVE CallAt(q)'
  BY <1>23 DEF BreakTransfer, GiveUp, Unpublished, EndUpload, Close
<1>24. ASSUME NEW id \in Ids, Interrupt(id) PROVE CallAt(q)'
  BY <1>24 DEF Interrupt, NotifyWaiters
<1>25. ASSUME NEW id \in Ids, UploadPart(id) PROVE CallAt(q)'
  BY <1>25 DEF UploadPart
<1>26. ASSUME NEW id \in Ids, Expire(id) PROVE CallAt(q)'
  BY <1>26 DEF Expire
<1>27. CASE UNCHANGED vars
  BY <1>27 DEF vars
<1>28. RestTyped
  BY DEF IInv, TypeOK
<1>30. ASSUME NEW id \in Ids, Confirm(id) PROVE CallAt(q)'
  BY <1>30 DEF Confirm
<1>31. ASSUME NEW n \in Concurrencies, SetConcurrency(n) PROVE CallAt(q)'
  BY <1>31 DEF SetConcurrency
<1>. HIDE DEF IInv, TypeOK, StoreTyped, HandlersTyped, WorkTyped, RestTyped, channel,
   work, remote, ticket, Uploading, Settling, Callers, CallAt, Idle
<1>. QED
  BY <1>30, <1>31, <1>1, <1>2, <1>3, <1>4, <1>5, <1>6, <1>7, <1>8, <1>9, <1>10, <1>11, <1>12, <1>13,
     <1>14, <1>15, <1>16, <1>17, <1>18, <1>19, <1>20, <1>21, <1>22, <1>23, <1>24,
     <1>25, <1>26, <1>27, <1>28, ClientCases, Zenon
     DEF Next, HandlerStep, OwnerStep

\* An item is begun again only after its session failed, so what a session left is its own.
LEMMA ItemsStep ==
  ASSUME IInv, [Next]_vars PROVE Items'
<1> USE DEF IInv, TypeOK, StoreTyped, HandlersTyped, WorkTyped, RestTyped, channel,
   work, remote, ticket, Uploading, Settling, Items, ItemAt, Born, BornAt, Outcome,
   OutcomeAt, Attended, OwnsItem, Found, Unpublished, StatusOf, Callers, CallAt, None
<1>. SUFFICES ASSUME NEW q \in Ids PROVE ItemAt(q)'
  BY DEF Items
<1>1. ASSUME NEW r \in Requests, NEW p \in Paths, NEW u \in Accounts, Start(r, p, u)
      PROVE  ItemAt(q)'
  BY <1>1 DEF Start, Retained
<1>2. ASSUME NEW r \in Requests, NEW id \in Ids, NEW n \in 0..(Parts + 1),
             NEW op \in {"sign", "complete", "cancel"}, Lookup(r, op, id, n)
      PROVE  ItemAt(q)'
  BY <1>2 DEF Lookup
<1>3. ASSUME NEW r \in Requests, BeginItem(r) PROVE ItemAt(q)'
  BY <1>3 DEF BeginItem, Return
<1>4. ASSUME NEW r \in Requests, NoDescriptor(r) PROVE ItemAt(q)'
  BY <1>4 DEF NoDescriptor, Return
<1>5. ASSUME NEW r \in Requests, Send(r) PROVE ItemAt(q)'
  <2>1. UNCHANGED <<work, remote, ticket, told>> /\ rq[r].id \in Ids
    BY <1>5 DEF Send
  <2>2. session'[q].path = session[q].path /\ session'[q].result = session[q].result
    BY <1>5, <2>1, SendKeeps DEF FlagOnly
  <2>. QED
    BY <2>1, <2>2
<1>6. ASSUME NEW r \in Requests, NoReply(r) PROVE ItemAt(q)'
  BY <1>6 DEF NoReply, Return
<1>7. ASSUME NEW r \in Requests, Arm(r) PROVE ItemAt(q)'
  BY <1>7 DEF Arm
<1>8. ASSUME NEW r \in Requests, Look(r) PROVE ItemAt(q)'
  BY <1>8 DEF Look, Return, Goto, Answer
<1>9. ASSUME NEW r \in Requests, CheckActive(r) PROVE ItemAt(q)'
  BY <1>9 DEF CheckActive, Return, Goto, Answer, Absent
<1>10. ASSUME NEW r \in Requests, Wake(r) PROVE ItemAt(q)'
  BY <1>10 DEF Wake, Goto
<1>11. ASSUME NEW r \in Requests, DropHandler(r) PROVE ItemAt(q)'
  BY <1>11 DEF DropHandler
<1>12. ASSUME NEW id \in Ids, Open(id) PROVE ItemAt(q)'
  BY <1>12 DEF Open, GiveUp, EndUpload, Close
<1>13. ASSUME NEW id \in Ids, Receive(id) PROVE ItemAt(q)'
  BY <1>13 DEF Receive, GiveUp, EndUpload, Close
<1>14. ASSUME NEW id \in Ids, Timeout(id) PROVE ItemAt(q)'
  BY <1>14 DEF Timeout
<1>15. ASSUME NEW id \in Ids, ListPage(id) PROVE ItemAt(q)'
  <2>1. /\ owner[id] = "listing" /\ UNCHANGED <<session, interrupted, committed, item, begun>>
        /\ \/ UNCHANGED <<owner, outcome>>
           \/ owner' = [owner EXCEPT ![id] = "publishing"] /\ outcome' = outcome
           \/ \E o \in Unpublished : EndUpload(id, o)
    BY <1>15 DEF ListPage, GiveUp
  <2>. QED
    BY <2>1 DEF EndUpload
<1>16. ASSUME NEW id \in Ids, Publish(id) PROVE ItemAt(q)'
  BY <1>16 DEF Publish, GiveUp, EndUpload
<1>17. ASSUME NEW id \in Ids, Finish(id) PROVE ItemAt(q)'
  BY <1>17 DEF Finish, Proceed, StatusOf, Attended
<1>18. ASSUME NEW id \in Ids, StoreResult(id) PROVE ItemAt(q)'
  BY <1>18 DEF StoreResult, Proceed
<1>19. ASSUME NEW id \in Ids, Retire(id) PROVE ItemAt(q)'
  BY <1>19 DEF Retire, Proceed
<1>20. ASSUME NEW id \in Ids, Renew(id) PROVE ItemAt(q)'
  BY <1>20 DEF Renew, Proceed
<1>21. ASSUME NEW id \in Ids, Notify(id) PROVE ItemAt(q)'
  BY <1>21 DEF Notify, Proceed, NotifyWaiters
<1>22. ASSUME NEW id \in Ids, SettleInterrupted(id) PROVE ItemAt(q)'
  BY <1>22 DEF SettleInterrupted
<1>23. ASSUME NEW id \in Ids, BreakTransfer(id) PROVE ItemAt(q)'
  BY <1>23 DEF BreakTransfer, GiveUp, EndUpload, Close
<1>24. ASSUME NEW id \in Ids, Interrupt(id) PROVE ItemAt(q)'
  BY <1>24 DEF Interrupt, NotifyWaiters
<1>25. ASSUME NEW id \in Ids, UploadPart(id) PROVE ItemAt(q)'
  BY <1>25 DEF UploadPart
<1>26. ASSUME NEW id \in Ids, Expire(id) PROVE ItemAt(q)'
  BY <1>26 DEF Expire
<1>27. CASE UNCHANGED vars
  BY <1>27 DEF vars
<1>28. RestTyped
  BY DEF IInv, TypeOK
<1>30. ASSUME NEW id \in Ids, Confirm(id) PROVE ItemAt(q)'
  <2>1. /\ owner[id] \notin {"unborn"} \cup Uploading /\ begun[session[id].path] = id
        /\ item[session[id].path] = "Unknown" /\ id \in committed
        /\ item' = [item EXCEPT ![session[id].path] = "Complete"]
        /\ UNCHANGED <<session, owner, outcome, interrupted, committed, begun>>
    BY <1>30 DEF Confirm
  <2>2. CASE session[q].path # session[id].path
    BY <2>1, <2>2
  <2>3. CASE session[q].path = session[id].path /\ q # id
    BY <2>1, <2>3
  <2>4. CASE q = id
    <3>1. outcome[id] \notin Unpublished
      BY <2>1
    <3>2. id \in interrupted \/ outcome[id] = "unknown"
      <4>1. SUFFICES ASSUME Attended(id) PROVE outcome[id] = "unknown"
        OBVIOUS
      <4>2. owner[id] \in Settling \ {"finish"} /\ OwnsItem(id)
        BY <2>1, <4>1
      <4>3. StatusOf(outcome[id]) = "Unknown" \/ outcome[id] = "unknown"
        BY <2>1, <4>1, <4>2
      <4>4. outcome[id] \in Outcomes
        BY <2>1
      <4>. QED
        BY <3>1, <4>3, <4>4 DEF Outcomes
    <3>3. session[id].path \in Paths
      BY <2>1
    <3>. QED
      BY <2>1, <2>4, <3>2, <3>3
  <2>. QED
    BY <2>2, <2>3, <2>4
<1>31. ASSUME NEW n \in Concurrencies, SetConcurrency(n) PROVE ItemAt(q)'
  BY <1>31 DEF SetConcurrency
<1>. HIDE DEF IInv, TypeOK, StoreTyped, HandlersTyped, WorkTyped, RestTyped, channel,
   work, remote, ticket, Uploading, Settling, Items, ItemAt, Born, BornAt, Outcome,
   OutcomeAt, Attended, OwnsItem, Found, Unpublished, StatusOf, Callers, CallAt, None
<1>. QED
  BY <1>30, <1>31, <1>1, <1>2, <1>3, <1>4, <1>5, <1>6, <1>7, <1>8, <1>9, <1>10, <1>11, <1>12, <1>13,
     <1>14, <1>15, <1>16, <1>17, <1>18, <1>19, <1>20, <1>21, <1>22, <1>23, <1>24,
     <1>25, <1>26, <1>27, <1>28, ClientCases, Zenon
     DEF Next, HandlerStep, OwnerStep

\* An outcome is decided once, by the step that decides about the object.
LEMMA OutcomeStep ==
  ASSUME IInv, [Next]_vars PROVE Outcome'
<1> USE DEF IInv, TypeOK, StoreTyped, HandlersTyped, WorkTyped, RestTyped, channel,
   work, remote, ticket, Uploading, Settling, Outcome, OutcomeAt, Outcomes, Unpublished, None,
   Born, BornAt
<1>. SUFFICES ASSUME NEW q \in Ids PROVE OutcomeAt(q)'
  BY DEF Outcome
<1>1. ASSUME NEW r \in Requests, NEW p \in Paths, NEW u \in Accounts, Start(r, p, u)
      PROVE  OutcomeAt(q)'
  BY <1>1 DEF Start, Retained
<1>2. ASSUME NEW r \in Requests, NEW id \in Ids, NEW n \in 0..(Parts + 1),
             NEW op \in {"sign", "complete", "cancel"}, Lookup(r, op, id, n)
      PROVE  OutcomeAt(q)'
  BY <1>2 DEF Lookup
<1>3. ASSUME NEW r \in Requests, BeginItem(r) PROVE OutcomeAt(q)'
  BY <1>3 DEF BeginItem, Return
<1>4. ASSUME NEW r \in Requests, NoDescriptor(r) PROVE OutcomeAt(q)'
  BY <1>4 DEF NoDescriptor, Return
<1>5. ASSUME NEW r \in Requests, Send(r) PROVE OutcomeAt(q)'
  BY <1>5 DEF Send
<1>6. ASSUME NEW r \in Requests, NoReply(r) PROVE OutcomeAt(q)'
  BY <1>6 DEF NoReply, Return
<1>7. ASSUME NEW r \in Requests, Arm(r) PROVE OutcomeAt(q)'
  BY <1>7 DEF Arm
<1>8. ASSUME NEW r \in Requests, Look(r) PROVE OutcomeAt(q)'
  BY <1>8 DEF Look, Return, Goto, Answer
<1>9. ASSUME NEW r \in Requests, CheckActive(r) PROVE OutcomeAt(q)'
  BY <1>9 DEF CheckActive, Return, Goto, Answer, Absent
<1>10. ASSUME NEW r \in Requests, Wake(r) PROVE OutcomeAt(q)'
  BY <1>10 DEF Wake, Goto
<1>11. ASSUME NEW r \in Requests, DropHandler(r) PROVE OutcomeAt(q)'
  BY <1>11 DEF DropHandler
<1>12. ASSUME NEW id \in Ids, Open(id) PROVE OutcomeAt(q)'
  <2>1. /\ owner[id] = "opening" /\ committed' = committed
        /\ \/ owner' = [owner EXCEPT ![id] = "receiving"] /\ outcome' = outcome
           \/ \E o \in Unpublished \cup {"unknown"} : EndUpload(id, o)
    BY <1>12 DEF Open, GiveUp
  <2>. QED
    BY <2>1 DEF EndUpload
<1>13. ASSUME NEW id \in Ids, Receive(id) PROVE OutcomeAt(q)'
  BY <1>13 DEF Receive, GiveUp, EndUpload, Close
<1>14. ASSUME NEW id \in Ids, Timeout(id) PROVE OutcomeAt(q)'
  BY <1>14 DEF Timeout
<1>15. ASSUME NEW id \in Ids, ListPage(id) PROVE OutcomeAt(q)'
  BY <1>15 DEF ListPage, GiveUp, EndUpload
<1>16. ASSUME NEW id \in Ids, Publish(id) PROVE OutcomeAt(q)'
  BY <1>16 DEF Publish, GiveUp, EndUpload
<1>17. ASSUME NEW id \in Ids, Finish(id) PROVE OutcomeAt(q)'
  BY <1>17 DEF Finish, Proceed, StatusOf, Attended
<1>18. ASSUME NEW id \in Ids, StoreResult(id) PROVE OutcomeAt(q)'
  BY <1>18 DEF StoreResult, Proceed
<1>19. ASSUME NEW id \in Ids, Retire(id) PROVE OutcomeAt(q)'
  BY <1>19 DEF Retire, Proceed
<1>20. ASSUME NEW id \in Ids, Renew(id) PROVE OutcomeAt(q)'
  BY <1>20 DEF Renew, Proceed
<1>21. ASSUME NEW id \in Ids, Notify(id) PROVE OutcomeAt(q)'
  BY <1>21 DEF Notify, Proceed, NotifyWaiters
<1>22. ASSUME NEW id \in Ids, SettleInterrupted(id) PROVE OutcomeAt(q)'
  BY <1>22 DEF SettleInterrupted
<1>23. ASSUME NEW id \in Ids, BreakTransfer(id) PROVE OutcomeAt(q)'
  BY <1>23 DEF BreakTransfer, GiveUp, EndUpload, Close
<1>24. ASSUME NEW id \in Ids, Interrupt(id) PROVE OutcomeAt(q)'
  BY <1>24 DEF Interrupt, NotifyWaiters
<1>25. ASSUME NEW id \in Ids, UploadPart(id) PROVE OutcomeAt(q)'
  BY <1>25 DEF UploadPart
<1>26. ASSUME NEW id \in Ids, Expire(id) PROVE OutcomeAt(q)'
  BY <1>26 DEF Expire
<1>27. CASE UNCHANGED vars
  BY <1>27 DEF vars
<1>28. RestTyped
  BY DEF IInv, TypeOK
<1>30. ASSUME NEW id \in Ids, Confirm(id) PROVE OutcomeAt(q)'
  BY <1>30 DEF Confirm
<1>31. ASSUME NEW n \in Concurrencies, SetConcurrency(n) PROVE OutcomeAt(q)'
  BY <1>31 DEF SetConcurrency
<1>. HIDE DEF IInv, TypeOK, StoreTyped, HandlersTyped, WorkTyped, RestTyped, channel,
   work, remote, ticket, Uploading, Settling, Outcome, OutcomeAt, Outcomes, Unpublished, None,
   Born, BornAt
<1>. QED
  BY <1>30, <1>31, <1>1, <1>2, <1>3, <1>4, <1>5, <1>6, <1>7, <1>8, <1>9, <1>10, <1>11, <1>12, <1>13,
     <1>14, <1>15, <1>16, <1>17, <1>18, <1>19, <1>20, <1>21, <1>22, <1>23, <1>24,
     <1>25, <1>26, <1>27, <1>28, ClientCases, Zenon
     DEF Next, HandlerStep, OwnerStep

\* A result is stored once and told as it is.
LEMMA ResultsStep ==
  ASSUME IInv, [Next]_vars PROVE Results'
<1> USE DEF IInv, TypeOK, StoreTyped, HandlersTyped, WorkTyped, RestTyped, channel,
   work, remote, ticket, Uploading, Settling, Results, ResultAt, Outcome, OutcomeAt,
   Born, BornAt, NoSession, Attended
<1>. SUFFICES ASSUME NEW q \in Ids PROVE ResultAt(q)'
  BY DEF Results
<1>1. ASSUME NEW r \in Requests, NEW p \in Paths, NEW u \in Accounts, Start(r, p, u)
      PROVE  ResultAt(q)'
  BY <1>1 DEF Start, Retained
<1>2. ASSUME NEW r \in Requests, NEW id \in Ids, NEW n \in 0..(Parts + 1),
             NEW op \in {"sign", "complete", "cancel"}, Lookup(r, op, id, n)
      PROVE  ResultAt(q)'
  BY <1>2 DEF Lookup
<1>3. ASSUME NEW r \in Requests, BeginItem(r) PROVE ResultAt(q)'
  BY <1>3 DEF BeginItem, Return
<1>4. ASSUME NEW r \in Requests, NoDescriptor(r) PROVE ResultAt(q)'
  BY <1>4 DEF NoDescriptor, Return
<1>5. ASSUME NEW r \in Requests, Send(r) PROVE ResultAt(q)'
  <2>1. UNCHANGED <<work, remote, ticket, told>> /\ rq[r].id \in Ids
    BY <1>5 DEF Send, Callers, CallAt
  <2>2. session'[q].path = session[q].path /\ session'[q].result = session[q].result
    BY <1>5, <2>1, SendKeeps DEF FlagOnly
  <2>. QED
    BY <2>1, <2>2
<1>6. ASSUME NEW r \in Requests, NoReply(r) PROVE ResultAt(q)'
  BY <1>6 DEF NoReply, Return
<1>7. ASSUME NEW r \in Requests, Arm(r) PROVE ResultAt(q)'
  BY <1>7 DEF Arm
<1>8. ASSUME NEW r \in Requests, Look(r) PROVE ResultAt(q)'
  BY <1>8 DEF Look, Return, Goto, Answer
<1>9. ASSUME NEW r \in Requests, CheckActive(r) PROVE ResultAt(q)'
  BY <1>9 DEF CheckActive, Return, Goto, Answer, Absent
<1>10. ASSUME NEW r \in Requests, Wake(r) PROVE ResultAt(q)'
  BY <1>10 DEF Wake, Goto
<1>11. ASSUME NEW r \in Requests, DropHandler(r) PROVE ResultAt(q)'
  BY <1>11 DEF DropHandler
<1>12. ASSUME NEW id \in Ids, Open(id) PROVE ResultAt(q)'
  BY <1>12 DEF Open, GiveUp, Unpublished, EndUpload, Close
<1>13. ASSUME NEW id \in Ids, Receive(id) PROVE ResultAt(q)'
  BY <1>13 DEF Receive, GiveUp, Unpublished, EndUpload, Close
<1>14. ASSUME NEW id \in Ids, Timeout(id) PROVE ResultAt(q)'
  BY <1>14 DEF Timeout
<1>15. ASSUME NEW id \in Ids, ListPage(id) PROVE ResultAt(q)'
  BY <1>15 DEF ListPage, GiveUp, Unpublished, EndUpload, Close, CompleteSet
<1>16. ASSUME NEW id \in Ids, Publish(id) PROVE ResultAt(q)'
  BY <1>16 DEF Publish, GiveUp, Unpublished, EndUpload
<1>17. ASSUME NEW id \in Ids, Finish(id) PROVE ResultAt(q)'
  BY <1>17 DEF Finish, Proceed, StatusOf, Attended
<1>18. ASSUME NEW id \in Ids, StoreResult(id) PROVE ResultAt(q)'
  <2>1. /\ owner[id] = "store" /\ owner'[id] = "retire" /\ outcome' = outcome
        /\ interrupted' = interrupted /\ told' = told
    BY <1>18 DEF StoreResult, Proceed
  <2>2. q # id => session'[q] = session[q] /\ owner'[q] = owner[q]
    BY <1>18 DEF StoreResult, Proceed
  <2>3. session'[id].result = outcome[id] /\ session[id].result = None /\ Attended(id)
    BY <1>18, <2>1 DEF StoreResult, Structures
  <2>4. told[id] = {}
    BY <2>3 DEF None, Outcomes
  <2>5. CASE q = id
    BY <2>1, <2>3, <2>4, <2>5
  <2>6. CASE q # id
    BY <2>1, <2>2, <2>6
  <2>. QED
    BY <2>5, <2>6
<1>19. ASSUME NEW id \in Ids, Retire(id) PROVE ResultAt(q)'
  BY <1>19 DEF Retire, Proceed
<1>20. ASSUME NEW id \in Ids, Renew(id) PROVE ResultAt(q)'
  BY <1>20 DEF Renew, Proceed
<1>21. ASSUME NEW id \in Ids, Notify(id) PROVE ResultAt(q)'
  BY <1>21 DEF Notify, Proceed, NotifyWaiters
<1>22. ASSUME NEW id \in Ids, SettleInterrupted(id) PROVE ResultAt(q)'
  BY <1>22 DEF SettleInterrupted
<1>23. ASSUME NEW id \in Ids, BreakTransfer(id) PROVE ResultAt(q)'
  BY <1>23 DEF BreakTransfer, GiveUp, Unpublished, EndUpload, Close
<1>24. ASSUME NEW id \in Ids, Interrupt(id) PROVE ResultAt(q)'
  BY <1>24 DEF Interrupt, NotifyWaiters
<1>25. ASSUME NEW id \in Ids, UploadPart(id) PROVE ResultAt(q)'
  BY <1>25 DEF UploadPart
<1>26. ASSUME NEW id \in Ids, Expire(id) PROVE ResultAt(q)'
  BY <1>26 DEF Expire
<1>27. CASE UNCHANGED vars
  BY <1>27 DEF vars
<1>28. RestTyped
  BY DEF IInv, TypeOK
<1>30. ASSUME NEW id \in Ids, Confirm(id) PROVE ResultAt(q)'
  BY <1>30 DEF Confirm
<1>31. ASSUME NEW n \in Concurrencies, SetConcurrency(n) PROVE ResultAt(q)'
  BY <1>31 DEF SetConcurrency
<1>. HIDE DEF IInv, TypeOK, StoreTyped, HandlersTyped, WorkTyped, RestTyped, channel,
   work, remote, ticket, Uploading, Settling, Results, ResultAt, Outcome, OutcomeAt,
   Born, BornAt, NoSession, Attended
<1>. QED
  BY <1>30, <1>31, <1>1, <1>2, <1>3, <1>4, <1>5, <1>6, <1>7, <1>8, <1>9, <1>10, <1>11, <1>12, <1>13,
     <1>14, <1>15, <1>16, <1>17, <1>18, <1>19, <1>20, <1>21, <1>22, <1>23, <1>24,
     <1>25, <1>26, <1>27, <1>28, ClientCases, Zenon
     DEF Next, HandlerStep, OwnerStep

-----------------------------------------------------------------------------
(* The limits of the store *)

\* Sessions and the active ones are counted in finite sets.
LEMMA CountsAreFinite ==
  ASSUME StoreTyped
  PROVE  /\ IsFiniteSet(sessions) /\ IsFiniteSet(ActiveIn(sessions))
         /\ \A u \in Accounts : IsFiniteSet(Mine(u))
<1>1. IsFiniteSet(Ids)
  BY DirectAssumption, FS_Interval DEF Ids
<1>2. /\ sessions \subseteq Ids /\ ActiveIn(sessions) \subseteq Ids
      /\ \A u \in Accounts : Mine(u) \subseteq Ids
  BY DEF StoreTyped, ActiveIn, ActiveOf, Mine
<1>. QED
  BY <1>1, <1>2, FS_Subset

\* No session is inserted, none becomes active and the policy stays.
Shrinks ==
    /\ sessions' \subseteq sessions /\ concurrency' = concurrency
    /\ \A id \in Ids : /\ session'[id].active => session[id].active
                       /\ session'[id].account = session[id].account

\* Room is not lost while no session is inserted.
LEMMA RoomShrinks ==
  ASSUME StoreTyped, RestTyped, Shrinks
  PROVE  /\ StoreIsWithinBounds => StoreIsWithinBounds'
         /\ \A u \in Accounts : /\ RoomFor(u) => RoomFor(u)'
                                /\ Cardinality(Mine(u))' <= Cardinality(Mine(u))
         /\ Cardinality(sessions)' \in Nat /\ Cardinality(ActiveIn(sessions))' \in Nat
         /\ \A u \in Accounts : Cardinality(Mine(u))' \in Nat
<1>1. /\ sessions' \subseteq sessions /\ ActiveIn(sessions)' \subseteq ActiveIn(sessions)
      /\ \A u \in Accounts : Mine(u)' \subseteq Mine(u)
  BY DEF StoreTyped, Shrinks, ActiveIn, ActiveOf, Mine
<1>2. /\ Cardinality(sessions)' <= Cardinality(sessions)
      /\ Cardinality(sessions) \in Nat /\ Cardinality(sessions)' \in Nat
  BY <1>1, CountsAreFinite, FS_Subset, FS_CardinalityType
<1>3. /\ Cardinality(ActiveIn(sessions))' <= Cardinality(ActiveIn(sessions))
      /\ Cardinality(ActiveIn(sessions)) \in Nat /\ Cardinality(ActiveIn(sessions))' \in Nat
  BY <1>1, CountsAreFinite, FS_Subset, FS_CardinalityType
<1>4. ASSUME NEW u \in Accounts
      PROVE  /\ Cardinality(Mine(u))' <= Cardinality(Mine(u))
             /\ Cardinality(Mine(u)) \in Nat /\ Cardinality(Mine(u))' \in Nat
  BY <1>1, CountsAreFinite, FS_Subset, FS_CardinalityType
<1>. QED
  <2>1. concurrency \in Nat /\ concurrency' = concurrency
    BY DirectAssumption DEF RestTyped, Shrinks
  <2>. QED
    BY <1>2, <1>3, <1>4, <2>1, DirectAssumption DEF StoreIsWithinBounds, RoomFor

\* The insertion of a session takes one place of each limit.
LEMMA InsertionKeepsLimits ==
  ASSUME StoreTyped, RestTyped, NEW u \in Accounts, RoomFor(u), NEW id \in Ids \ sessions,
         sessions' = sessions \cup {id},
         session'[id].active, session'[id].account = u,
         \A other \in Ids \ {id} : session'[other] = session[other]
  PROVE  /\ StoreIsWithinBounds'
         /\ Cardinality(Mine(u))' <= concurrency
         /\ \A other \in Accounts \ {u} : Cardinality(Mine(other))' = Cardinality(Mine(other))
<1>1. /\ ActiveIn(sessions)' = ActiveIn(sessions) \cup {id} /\ id \notin ActiveIn(sessions)
      /\ Mine(u)' = Mine(u) \cup {id} /\ id \notin Mine(u)
      /\ \A other \in Accounts \ {u} : Mine(other)' = Mine(other)
  BY DEF StoreTyped, ActiveIn, ActiveOf, Mine
<1>2. /\ Cardinality(sessions) \in Nat /\ Cardinality(sessions)' = Cardinality(sessions) + 1
  BY CountsAreFinite, FS_AddElement, FS_CardinalityType
<1>3. /\ Cardinality(ActiveIn(sessions)) \in Nat
      /\ Cardinality(ActiveIn(sessions))' = Cardinality(ActiveIn(sessions)) + 1
  BY <1>1, CountsAreFinite, FS_AddElement, FS_CardinalityType
<1>4. Cardinality(Mine(u)) \in Nat /\ Cardinality(Mine(u))' = Cardinality(Mine(u)) + 1
  BY <1>1, CountsAreFinite, FS_AddElement, FS_CardinalityType
<1>5. \A other \in Accounts \ {u} : Cardinality(Mine(other))' = Cardinality(Mine(other))
  BY <1>1
<1>. QED
  <2>1. concurrency \in Nat
    BY DirectAssumption DEF RestTyped
  <2>. QED
    BY <1>2, <1>3, <1>4, <1>5, <2>1, DirectAssumption DEF StoreIsWithinBounds, RoomFor

\* No start is admitted.
NoneBegins ==
    \A q \in Requests :
        rq'[q].at = "begin" => rq[q].at = "begin" /\ rq'[q].account = rq[q].account

\* A step that inserts and admits nothing keeps the limits and the room.
LEMMA LimitsKept ==
  ASSUME IInv, StoreIsWithinBounds, Room, Shrinks, NoneBegins PROVE StoreIsWithinBounds' /\ Room'
<1>1. ASSUME NEW q \in Requests, rq'[q].at = "begin" PROVE RoomFor(rq[q].account)'
  <2>1. rq[q].at = "begin" /\ rq[q].account \in Accounts
    BY <1>1 DEF NoneBegins, IInv, Callers, CallAt
  <2>2. RoomFor(rq[q].account)
    BY <2>1 DEF Room
  <2>3. PICK u \in Accounts : u = rq[q].account /\ u = rq'[q].account
    BY <1>1, <2>1 DEF NoneBegins
  <2>4. RoomFor(u)'
    BY <2>2, <2>3, RoomShrinks DEF IInv, TypeOK
  <2>. QED
    BY <2>3, <2>4 DEF RoomFor, Mine
<1>2. StoreIsWithinBounds'
  BY RoomShrinks DEF IInv, TypeOK
<1>. QED
  BY <1>1, <1>2 DEF Room

\* Only BeginItem inserts a session or makes one active, and only Start is admitted.
LEMMA MostStepsShrink ==
  ASSUME IInv, [Next]_vars
  PROVE  \/ Shrinks /\ NoneBegins
         \/ \E r \in Requests, p \in Paths, u \in Accounts : Start(r, p, u)
         \/ \E r \in Requests : BeginItem(r)
         \/ \E n \in Concurrencies : SetConcurrency(n)
<1> DEFINE Goal == Shrinks /\ NoneBegins
<1> USE DEF IInv, TypeOK, StoreTyped, HandlersTyped, channel, work, remote, ticket,
   Shrinks, NoneBegins, Idle, Callers, CallAt
<1>1. ASSUME NEW r \in Requests, NEW id \in Ids, NEW n \in 0..(Parts + 1),
             NEW op \in {"sign", "complete", "cancel"}, Lookup(r, op, id, n) PROVE Goal
  <2>1. \A q \in Ids : FlagOnly(q)
    BY <1>1, LookupKeeps
  <2>2. UNCHANGED <<sessions, concurrency>> /\ \A q \in Requests \ {r} : rq'[q] = rq[q]
    BY <1>1 DEF Lookup
  <2>3. rq'[r].at # "begin"
    BY <1>1 DEF Lookup, WaitFor
  <2>. QED
    BY <2>1, <2>2, <2>3 DEF FlagOnly
<1>2. ASSUME NEW r \in Requests, NoDescriptor(r) PROVE Goal
  BY <1>2 DEF NoDescriptor, Return
<1>3. ASSUME NEW r \in Requests, Send(r) PROVE Goal
  <2>1. UNCHANGED <<sessions, concurrency>> /\ rq[r].id \in Ids /\ rq[r] \in Calls
    BY <1>3 DEF Send
  <2>2. \A q \in Ids : FlagOnly(q)
    BY <1>3, <2>1, SendKeeps
  <2>3. \A q \in Requests \ {r} : rq'[q] = rq[q]
    BY <1>3 DEF Send, Goto, Return
  <2>4. rq'[r].at # "begin"
    <3>1. CASE Goto(r, "reply")
      BY <2>1, <3>1 DEF Goto, Calls
    <3>2. CASE rq' = [rq EXCEPT ![r] = WaitFor(rq[r].op, rq[r].id)]
      BY <3>2 DEF WaitFor
    <3>3. CASE Return(r)
      BY <3>3 DEF Return
    <3>. QED
      BY <1>3, <3>1, <3>2, <3>3 DEF Send
  <2>. QED
    BY <2>1, <2>2, <2>3, <2>4 DEF FlagOnly
<1>4. ASSUME NEW r \in Requests, NoReply(r) PROVE Goal
  BY <1>4 DEF NoReply, Return
<1>5. ASSUME NEW r \in Requests, Arm(r) PROVE Goal
  BY <1>5 DEF Arm
<1>6. ASSUME NEW r \in Requests, Look(r) PROVE Goal
  <2>1. UNCHANGED <<sessions, session, concurrency>> /\ rq[r] \in Calls
    BY <1>6 DEF Look
  <2>2. CASE Goto(r, "check")
    BY <2>1, <2>2 DEF Goto, Calls
  <2>3. CASE Return(r)
    BY <2>1, <2>3 DEF Return
  <2>. QED
    BY <1>6, <2>2, <2>3 DEF Look, Answer
<1>7. ASSUME NEW r \in Requests, CheckActive(r) PROVE Goal
  <2>1. UNCHANGED <<sessions, session, concurrency>> /\ rq[r] \in Calls
    BY <1>7 DEF CheckActive
  <2>2. CASE Goto(r, "wait")
    BY <2>1, <2>2 DEF Goto, Calls
  <2>3. CASE Return(r)
    BY <2>1, <2>3 DEF Return
  <2>. QED
    BY <1>7, <2>2, <2>3 DEF CheckActive, Answer
<1>8. ASSUME NEW r \in Requests, Wake(r) PROVE Goal
  BY <1>8 DEF Wake, Goto
<1>9. ASSUME NEW r \in Requests, DropHandler(r) PROVE Goal
  BY <1>9 DEF DropHandler
<1>10. ASSUME NEW id \in Ids, Open(id) PROVE Goal
  BY <1>10 DEF Open, GiveUp, Unpublished, EndUpload, Close
<1>11. ASSUME NEW id \in Ids, Receive(id) PROVE Goal
  BY <1>11 DEF Receive, GiveUp, Unpublished, EndUpload, Close
<1>12. ASSUME NEW id \in Ids, Timeout(id) PROVE Goal
  BY <1>12 DEF Timeout
<1>13. ASSUME NEW id \in Ids, ListPage(id) PROVE Goal
  BY <1>13 DEF ListPage, GiveUp, Unpublished, EndUpload, Close, CompleteSet
<1>14. ASSUME NEW id \in Ids, Publish(id) PROVE Goal
  BY <1>14 DEF Publish, GiveUp, Unpublished, EndUpload
<1>15. ASSUME NEW id \in Ids, Finish(id) PROVE Goal
  BY <1>15 DEF Finish, Proceed, StatusOf, Attended
<1>16. ASSUME NEW id \in Ids, StoreResult(id) PROVE Goal
  BY <1>16 DEF StoreResult, Proceed
<1>17. ASSUME NEW id \in Ids, Retire(id) PROVE Goal
  BY <1>17 DEF Retire, Proceed
<1>18. ASSUME NEW id \in Ids, Renew(id) PROVE Goal
  BY <1>18 DEF Renew, Proceed
<1>19. ASSUME NEW id \in Ids, Notify(id) PROVE Goal
  BY <1>19 DEF Notify, Proceed, NotifyWaiters
<1>20. ASSUME NEW id \in Ids, SettleInterrupted(id) PROVE Goal
  BY <1>20 DEF SettleInterrupted
<1>21. ASSUME NEW id \in Ids, BreakTransfer(id) PROVE Goal
  BY <1>21 DEF BreakTransfer, GiveUp, Unpublished, EndUpload, Close
<1>22. ASSUME NEW id \in Ids, Interrupt(id) PROVE Goal
  BY <1>22 DEF Interrupt, NotifyWaiters
<1>23. ASSUME NEW id \in Ids, UploadPart(id) PROVE Goal
  BY <1>23 DEF UploadPart
<1>24. ASSUME NEW id \in Ids, Expire(id) PROVE Goal
  BY <1>24 DEF Expire
<1>30. ASSUME NEW id \in Ids, Confirm(id) PROVE Goal
  BY <1>30 DEF Confirm
<1>25. CASE UNCHANGED vars
  BY <1>25 DEF vars
<1>26. RestTyped
  OBVIOUS
<1>. HIDE DEF Goal, IInv, TypeOK, StoreTyped, HandlersTyped, channel, work, remote,
   ticket, Shrinks, NoneBegins, Idle, Callers, CallAt
<1>. QED
  BY <1>30, <1>1, <1>2, <1>3, <1>4, <1>5, <1>6, <1>7, <1>8, <1>9, <1>10, <1>11, <1>12, <1>13,
     <1>14, <1>15, <1>16, <1>17, <1>18, <1>19, <1>20, <1>21, <1>22, <1>23, <1>24,
     <1>25, <1>26, ClientCases, Zenon
     DEF Next, HandlerStep, OwnerStep, Goal

\* The active sessions of an account grow only to the policy in force.
Follows ==
    \A u \in Accounts :
        Cardinality(Mine(u))' > Cardinality(Mine(u)) => Cardinality(Mine(u))' <= concurrency

\* Where no session is inserted, nothing grows.
LEMMA ShrinkingFollows == ASSUME StoreTyped, RestTyped, Shrinks PROVE Follows
<1>1. ASSUME NEW u \in Accounts
      PROVE  /\ Cardinality(Mine(u))' <= Cardinality(Mine(u))
             /\ Cardinality(Mine(u))' \in Nat /\ Cardinality(Mine(u)) \in Nat
  BY RoomShrinks, CountsAreFinite, FS_CardinalityType
<1>. QED
  BY <1>1 DEF Follows

\* The limits and the room are kept by every step, and the policy is followed.
LEMMA LimitsStep ==
  ASSUME IInv, StoreIsWithinBounds, Room, [Next]_vars
  PROVE  StoreIsWithinBounds' /\ Room' /\ Follows
<1>. StoreTyped /\ RestTyped
  BY DEF IInv, TypeOK
<1>1. CASE Shrinks /\ NoneBegins
  BY <1>1, LimitsKept, ShrinkingFollows
<1>4. ASSUME NEW n \in Concurrencies, SetConcurrency(n)
      PROVE  StoreIsWithinBounds' /\ Room' /\ Follows
  <2>1. UNCHANGED <<sessions, session, rq>> /\ registry = Free
    BY <1>4 DEF SetConcurrency
  <2>2. /\ ActiveIn(sessions)' = ActiveIn(sessions)
        /\ \A u \in Accounts : Mine(u)' = Mine(u)
    BY <2>1 DEF ActiveIn, ActiveOf, Mine
  <2>3. ASSUME NEW q \in Requests PROVE rq'[q].at # "begin"
    BY <2>1, DirectAssumption DEF IInv, Callers, CallAt
  <2>4. \A u \in Accounts : Cardinality(Mine(u)) \in Nat
    BY CountsAreFinite, FS_CardinalityType
  <2>. QED
    BY <2>1, <2>2, <2>3, <2>4 DEF StoreIsWithinBounds, Room, Follows
<1>2. ASSUME NEW r \in Requests, NEW p \in Paths, NEW u \in Accounts, Start(r, p, u)
      PROVE  StoreIsWithinBounds' /\ Room' /\ Follows
  <2>1. Shrinks /\ StoreTyped /\ Follows
    BY <1>2, ShrinkingFollows DEF Start, Retained, Shrinks
  <2>2. CASE UNCHANGED rq
    BY <2>1, <2>2, LimitsKept DEF NoneBegins
  <2>3. CASE /\ ~ Full(Retained, u)
             /\ rq' = [rq EXCEPT ![r] = [Idle EXCEPT !.at = "begin", !.op = "start",
                                               !.path = p, !.account = u]]
    <3>1. StoreTyped' /\ rq \in [Requests -> Calls]
      BY <2>1, StoreStep DEF IInv, TypeOK, HandlersTyped
    <3>2. ~ Full(sessions, u)'
      BY <1>2, <2>3 DEF Start, Full, ActiveIn, ActiveOf
    <3>3. RoomFor(u)'
      <4>1. /\ Cardinality(sessions)' \in Nat /\ Cardinality(ActiveIn(sessions))' \in Nat
            /\ Cardinality(Mine(u))' \in Nat /\ concurrency' \in Nat
        BY <2>1, RoomShrinks, DirectAssumption DEF RestTyped, Shrinks
      <4>. QED
        BY <3>2, <4>1, DirectAssumption DEF Full, RoomFor, Mine
    <3>4. ASSUME NEW q \in Requests \ {r} PROVE rq'[q].at # "begin"
      BY <1>2, <2>3, <3>1, DirectAssumption DEF Start, IInv, Callers, CallAt
    <3>5. rq'[r].account = u
      BY <2>3, <3>1
    <3>6. ASSUME NEW q \in Requests, rq'[q].at = "begin" PROVE RoomFor(rq[q].account)'
      BY <3>3, <3>4, <3>5, <3>6 DEF RoomFor, Mine, ActiveOf
    <3>. QED
      BY <2>1, <3>6, RoomShrinks DEF Room
  <2>. QED
    BY <1>2, <2>2, <2>3 DEF Start
<1>3. ASSUME NEW r \in Requests, BeginItem(r)
      PROVE  StoreIsWithinBounds' /\ Room' /\ Follows
  <2>1. /\ rq[r].at = "begin" /\ registry = r /\ rq[r].account \in Accounts
        /\ StoreTyped /\ rq \in [Requests -> Calls]
    BY <1>3 DEF BeginItem, IInv, Callers, CallAt, TypeOK, HandlersTyped
  <2>2. ASSUME NEW q \in Requests PROVE rq'[q].at # "begin"
    <3>1. CASE q # r
      BY <1>3, <2>1, <3>1 DEF BeginItem, Return, IInv, Callers, CallAt
    <3>2. CASE q = r
      BY <1>3, <2>1, <3>2 DEF BeginItem, Return, Idle, Calls
    <3>. QED
      BY <3>1, <3>2
  <2>3. CASE UNCHANGED <<sessions, session>>
    <3>1. concurrency' = concurrency
      BY <1>3 DEF BeginItem
    <3>. QED
      BY <2>1, <2>2, <2>3, <3>1, LimitsKept, ShrinkingFollows DEF Shrinks, NoneBegins
  <2>4. ASSUME NEW id \in Ids, owner[id] = "unborn", sessions' = sessions \cup {id},
               session' = [session EXCEPT ![id] =
                  [path |-> rq[r].path, account |-> rq[r].account, active |-> TRUE,
                   completing |-> FALSE, result |-> None, live |-> TRUE]]
        PROVE  StoreIsWithinBounds' /\ Room' /\ Follows
    <3>1. id \notin sessions
      BY <2>4 DEF IInv, Born, BornAt
    <3>2. PICK u \in Accounts : u = rq[r].account
      BY <2>1
    <3>3. RoomFor(u)
      BY <2>1, <3>2 DEF Room
    <3>4. /\ session'[id].active /\ session'[id].account = u
          /\ \A other \in Ids \ {id} : session'[other] = session[other]
      BY <2>1, <2>4, <3>2 DEF StoreTyped
    <3>5. /\ StoreIsWithinBounds' /\ Cardinality(Mine(u))' <= concurrency
          /\ \A other \in Accounts \ {u} :
                Cardinality(Mine(other))' = Cardinality(Mine(other))
      BY <2>1, <2>4, <3>1, <3>3, <3>4, InsertionKeepsLimits
    <3>6. \A other \in Accounts : Cardinality(Mine(other)) \in Nat
      BY CountsAreFinite, FS_CardinalityType
    <3>. QED
      BY <2>2, <3>5, <3>6 DEF Room, Follows
  <2>. QED
    BY <1>3, <2>3, <2>4 DEF BeginItem
<1>. QED
  BY <1>1, <1>2, <1>3, <1>4, MostStepsShrink

-----------------------------------------------------------------------------
(* The theorems *)

\* A fresh store satisfies the invariant.
LEMMA InitHolds == Init => IInv /\ StoreIsWithinBounds /\ Room
<1> SUFFICES ASSUME Init PROVE IInv /\ StoreIsWithinBounds /\ Room
  OBVIOUS
<1> USE DirectAssumption DEF Init
<1>1. StoreTyped
  BY StructuresAreTyped DEF StoreTyped
<1>2. HandlersTyped
  BY CallsAreTyped DEF HandlersTyped
<1>3. ChannelTyped
  BY DEF ChannelTyped
<1>4. WorkTyped
  BY DEF WorkTyped
<1>5. RestTyped
  BY DEF RestTyped, Ids
<1>6. Born /\ Callers
  BY DEF Born, BornAt, NoSession, Callers, CallAt, Idle
<1>7. Items
  BY DEF Items, ItemAt, Uploading, Settling
<1>8. Outcome /\ Results
  BY DEF Outcome, OutcomeAt, Results, ResultAt, NoSession, None
<1>9. /\ Cardinality(sessions) = 0 /\ Cardinality(ActiveIn(sessions)) = 0
      /\ \A u \in Accounts : Cardinality(Mine(u)) = 0
  <2>1. /\ sessions = {} /\ ActiveIn(sessions) = {} /\ \A u \in Accounts : Mine(u) = {}
    BY DEF ActiveIn, ActiveOf, Mine
  <2>. QED
    BY <2>1, FS_EmptySet
<1>10. StoreIsWithinBounds
  BY <1>9 DEF StoreIsWithinBounds
<1>11. Room
  BY DEF Room, Idle
<1>. QED
  BY <1>1, <1>2, <1>3, <1>4, <1>5, <1>6, <1>7, <1>8, <1>10, <1>11 DEF IInv, TypeOK

\* Every step keeps the invariant.
LEMMA InvStep == IInv /\ [Next]_vars => IInv'
BY StoreStep, HandlersStep, ChannelStep, WorkStep, RestStep, BornStep, CallersStep,
   ItemsStep, OutcomeStep, ResultsStep DEF IInv, TypeOK

\* The inductive invariant holds of every behaviour.
THEOREM Invariance == Spec => []IInv
BY InitHolds, InvStep, PTL DEF Spec

\* Every variable of direct_upload.rs keeps its type, the bound of the command channel
\* included.
THEOREM DirectTypeCorrect == Spec => []TypeOK
<1>1. IInv => TypeOK
  BY DEF IInv
<1>. QED
  BY <1>1, Invariance, PTL

\* What complete answers from wait_result is what happened, for good, over any number of
\* retries of the item, dropped handlers, interrupted tasks and late confirmations; an
\* upload whose cleanup recovery still owes is not begun again.
THEOREM AnswersAreTrue == Spec => []DirectAnswersAreTrue
<1>1. ASSUME IInv, NEW id \in Ids
      PROVE  LET p == session[id].path
             IN  /\ "committed" \in told[id] => id \in committed /\ item[p] = "Complete"
                 /\ told[id] \cap Unpublished # {} => id \notin committed
                 /\ "failed" \in told[id] /\ begun[p] = id => item[p] = "Failed"
                 /\ "pending" \in told[id] => begun[p] = id /\ item[p] = "Unknown"
  <2>1. ItemAt(id) /\ OutcomeAt(id) /\ ResultAt(id)
    BY <1>1 DEF IInv, Items, Outcome, Results
  <2>2. told[id] # {} => /\ told[id] = {outcome[id]} /\ outcome[id] # None /\ Attended(id)
                         /\ owner[id] \in Settling \ {"finish"}
    <3>1. told[id] # {} => session[id].result # None /\ told[id] = {outcome[id]}
      BY <2>1, <1>1 DEF ResultAt, IInv, TypeOK, HandlersTyped, Outcomes, None
    <3>. QED
      BY <2>1, <3>1 DEF ResultAt, Settling
  <2>. QED
    BY <2>1, <2>2 DEF ItemAt, OutcomeAt, OwnsItem, Found, StatusOf, Unpublished
<1>2. IInv => DirectAnswersAreTrue
  BY <1>1 DEF DirectAnswersAreTrue
<1>. QED
  BY <1>2, Invariance, PTL

\* Every behaviour keeps the invariant together with the bounds and the room.
LEMMA StoreInvariance == Spec => [](IInv /\ StoreIsWithinBounds /\ Room)
<1>1. IInv /\ StoreIsWithinBounds /\ Room /\ [Next]_vars
        => IInv' /\ StoreIsWithinBounds' /\ Room'
  BY InvStep, LimitsStep
<1>. QED
  BY <1>1, InitHolds, PTL DEF Spec

\* 128 sessions and 32 active ones: the bounds hold although they are counted before the
\* item is begun and the session inserted afterwards, for the mutex spans both.
THEOREM StoreIsBounded == Spec => []StoreIsWithinBounds
BY StoreInvariance, PTL

\* The active sessions of an account grow only to the upload_file_concurrency in force
\* at the insertion, although it was read before: config_updates spans both.
THEOREM PolicyIsFollowed == Spec => AdmissionFollowsPolicy
<1>1. IInv /\ StoreIsWithinBounds /\ Room /\ [Next]_vars
        => [\A u \in Accounts :
              Cardinality(ActiveOf(sessions, u)') > Cardinality(ActiveOf(sessions, u))
                => Cardinality(ActiveOf(sessions, u)') <= concurrency]_vars
  BY LimitsStep DEF Follows, Mine
<1>. QED
  BY <1>1, StoreInvariance, PTL DEF Spec, AdmissionFollowsPolicy

=============================================================================
