------------------------ MODULE S3Transactions_books ------------------------
(***************************************************************************)
(* The books of the object-storage backend are in order: every variable    *)
(* has its type, one actor holds the gate, every location has the request, *)
(* the objects and the journals it supposes, and every private object has  *)
(* a journal the worker knows of.  This part of the invariant does not     *)
(* depend on what the files hold and is inductive by itself; for any       *)
(* number of operations, files, failed requests and crashes.               *)
(***************************************************************************)
EXTENDS S3Transactions, TLAPS

(***************************************************************************)
(* The books: the first layer of the inductive invariant.                  *)
(***************************************************************************)

\* An upload that holds something, or is about to; one that is past its staging and
\* has not written its transaction.
Staged(o) == \/ run[o] \in {"check", "journal"}
             \/ run[o] = "lock" /\ plan[o].mode \in Uploads
Sends(o) == run[o] \in Staging \cup Committing \/ Staged(o)
Gated == Committing \cup Copying \cup Deleting \cup Moving \cup {"move"}

\* Who is at work: the service is up or nobody runs, one actor holds the mutation gate,
\* and recovery works on a journal only while no upload is live.
GateOf(o) == /\ run[o] \in Gated => gate = o
             /\ gate = o => run[o] \in Gated \cup {"abandon"}
Doors ==
    /\ phase # "up" => gate = None /\ \A o \in Ops : run[o] \in {"idle", "done"}
    /\ phase = "down" => run[Rec] = "idle"
    /\ run[Rec] \in Probing => phase = "starting"
    /\ job = None <=> run[Rec] \notin Moving \cup Recovering
    /\ gate = Rec <=> job # None /\ phase = "up"
    /\ job # None => \A o \in Ops : ~ Sends(o)
    /\ \A o \in Ops : GateOf(o)

\* What each location says of the request.
PlanOf(o) ==
    /\ run[o] = "idle" <=> plan[o] = None
    /\ run[o] \in Staging \cup Committing => plan[o].mode \in Uploads
    /\ run[o] \in Copying => plan[o].mode = "copy"
    /\ run[o] \in Deleting => plan[o].mode = "delete"
    /\ run[o] \in Moving \cup {"move"} => plan[o].mode = "move"
    /\ plan[o] # None /\ plan[o].mode \in {"copy", "move"} => plan[o].from # plan[o].to
Plans == \A o \in Ops : PlanOf(o)

\* What each location says of private objects and journals.
Bare(o) == /\ staged[o] = None /\ backup[o] = None /\ upload[o] = None
           /\ o \notin intent /\ parts[o] = "none"
HeldOf(o) ==
    /\ plan[o] = None \/ plan[o].mode \notin Uploads \/ run[o] = "intent" => Bare(o)
    /\ run[o] \in Staging \ {"intent"} \/ Staged(o) => o \in intent
    /\ run[o] \in Staging \ {"abandon"} \/ Staged(o) => upload[o] = None
    /\ run[o] \in Staging \cup {"handoff", "backup", "verify"} \/ Staged(o) => backup[o] = None
    /\ run[o] \in {"release", "inspect"} \/ Staged(o) => staged[o] # None
    /\ run[o] \in Committing \ {"check", "journal", "clean_committed", "clean_failed"} =>
          staged[o] # None /\ upload[o] # None
    /\ run[o] = "restore" => backup[o] # None
    /\ run[o] = "backup" => known[o] # None
    /\ run[o] \in {"journal", "handoff", "backup"} /\ known[o] # None => file[plan[o].to] # None
    /\ run[o] \in Moving => move[o] # None
    /\ run[o] = "mv_mark" => known[o] # None
    /\ plan[o] = None \/ plan[o].mode # "move" \/ run[o] \in {"lock", "move"} => move[o] = None
Held == \A o \in Ops : HeldOf(o)

\* Every private object has a journal, and the worker knows of every journal.
BackedOf(o) == /\ staged[o] # None => o \in intent \/ parts[o] = "named" \/ upload[o] # None
               /\ backup[o] # None => upload[o] # None
RegisteredOf(o) == /\ o \in intent => <<"intent", o>> \in pending
                   /\ parts[o] # "none" => <<"parts", o>> \in pending
                   /\ upload[o] # None => <<"upload", o>> \in pending
                   /\ move[o] # None => <<"move", o>> \in pending
Traced == \A o \in Ops : BackedOf(o) /\ (phase = "up" => RegisteredOf(o))

\* The journal recovery works on, and the intent the probe works under.
Worked ==
    /\ run[Rec] \in Moving => move[job[2]] # None
    /\ run[Rec] = "mv_mark" => known[job[2]] # None
    /\ run[Rec] \in {"r_upload", "r_finish"} => upload[job[2]] # None
    /\ run[Rec] \in {"p_put", "p_copy"} => "intent" \in probe
    /\ probe # {} => "intent" \in probe

Bookkeeping == TypeOK /\ Doors /\ Plans /\ Held /\ Traced /\ Worked

\* An ETag, or none, is that of a body, or of none (TagOf).
Names(etag, who) == IF etag = None THEN who = None ELSE etag[1] = who

-----------------------------------------------------------------------------
(***************************************************************************)
(* Objects and their ETags, and the records of journals and requests.      *)
(***************************************************************************)

\* The ETag of an object is one, and tells body and generation apart (ETag).
LEMMA ObjectTags ==
  ASSUME NEW x \in Objects
  PROVE  /\ ETag(x) \in ETags /\ ETag(x) # None /\ ETag(x)[1] = x.by
         /\ x.by \in Bodies /\ x.gen \in Nat /\ x.mark \in Ops \cup {None} /\ x # None
         /\ TagOf(x) = ETag(x)
  BY ConstantsAssumption, SMT DEF Objects, ETag, ETags, TagOf

\* Two objects with one ETag hold the same body (ETag).
LEMMA SameETag ==
  ASSUME NEW x \in Objects, NEW y \in Objects
  PROVE  ETag(x) = ETag(y) <=> x.by = y.by /\ x.gen = y.gen
  BY SMT DEF Objects, ETag

\* A copy carries the body and the operation id of its source; when the store invents
\* an ETag for it, that is not one of an uploaded object (copy_key).
LEMMA Copies ==
  ASSUME NEW x \in Objects, NEW keep \in BOOLEAN
  PROVE  /\ Copied(x, keep) \in Objects /\ Copied(x, keep) # None
         /\ Copied(x, keep).by = x.by /\ Copied(x, keep).mark = x.mark
         /\ keep => Copied(x, keep) = x
         /\ x.gen # 0 \/ ~ keep => Copied(x, keep).gen # 0
  <1>1. Copied(x, keep) \in Objects
    BY SMT DEF Objects, Copied
  <1> QED
    BY <1>1, ConstantsAssumption, SMT DEF Objects, Copied

\* What is uploaded is signed (Object).
LEMMA Uploaded ==
  ASSUME NEW w \in Bodies, NEW m \in Ops \cup {None}
  PROVE  /\ Object(w, m) \in Objects /\ Object(w, m) # None
         /\ Object(w, m).by = w /\ Object(w, m).mark = m
  BY ConstantsAssumption, SMT DEF Objects, Object

\* The ETag of what is found, if anything (current_etag).
LEMMA Tags ==
  ASSUME NEW x \in Objects \cup {None}
  PROVE  /\ TagOf(x) \in ETags \cup {None} /\ (TagOf(x) = None <=> x = None)
         /\ \A t : Matches(x, t) => x # None /\ TagOf(x) = t /\ ETag(x) = t
         /\ x # None => Matches(x, TagOf(x))
  BY ObjectTags, ConstantsAssumption DEF TagOf, Matches

\* A transaction changes its stage or its previous ETag (WriteStage, Remark).
LEMMA TransactionFields ==
  ASSUME NEW t \in Transactions
  PROVE  /\ t # None /\ t.staged \in ETags /\ t.previous \in ETags \cup {None}
         /\ t.stage \in Stages
         /\ \A s \in Stages :
              /\ [t EXCEPT !.stage = s] \in Transactions /\ [t EXCEPT !.stage = s] # None
              /\ [t EXCEPT !.stage = s].staged = t.staged
              /\ [t EXCEPT !.stage = s].previous = t.previous
         /\ \A e \in ETags \cup {None} :
              /\ [t EXCEPT !.previous = e] \in Transactions /\ [t EXCEPT !.previous = e] # None
              /\ [t EXCEPT !.previous = e].staged = t.staged
              /\ [t EXCEPT !.previous = e].previous = e
  BY ConstantsAssumption, SMT DEF Transactions, Stages

\* A new transaction (WriteTransaction).
LEMMA NewTransaction ==
  ASSUME NEW s \in Stages, NEW e \in ETags, NEW p \in ETags \cup {None}
  PROVE  LET t == [stage |-> s, staged |-> e, previous |-> p] IN
         /\ t \in Transactions /\ t # None /\ t.staged = e /\ t.previous = p
  BY ConstantsAssumption, SMT DEF Transactions, Stages

\* A move is prepared with the ETag of its source and copied with that of its target
\* (BeginMove, MoveMark).
LEMMA NewMove ==
  ASSUME NEW s \in {"prepared", "copied"}, NEW e \in ETags, NEW d \in ETags \cup {None}
  PROVE  LET m == [stage |-> s, src |-> e, dst |-> d] IN
         m \in Moves /\ m # None /\ m.stage = s /\ m.src = e /\ m.dst = d
  BY ConstantsAssumption, SMT DEF Moves

\* What the fields of a move's record hold.
LEMMA MoveFields ==
  ASSUME NEW m \in Moves
  PROVE  /\ m # None /\ m.src \in ETags /\ m.dst \in ETags \cup {None}
         /\ m.stage \in {"prepared", "copied"}
  BY ConstantsAssumption, SMT DEF Moves

\* A request (Start).
LEMMA RequestFields ==
  ASSUME NEW r \in Requests
  PROVE  /\ r # None /\ r.mode \in Modes /\ r.from \in Files /\ r.to \in Files
         /\ r.expects \in Bodies \cup {None}
  BY ConstantsAssumption, SMT DEF Requests

\* A new request (Start).
LEMMA NewRequest ==
  ASSUME NEW m \in Modes, NEW p \in Files, NEW q \in Files, NEW e \in Bodies \cup {None}
  PROVE  LET r == [mode |-> m, from |-> p, to |-> q, expects |-> e] IN
         r \in Requests /\ r # None /\ r.mode = m /\ r.from = p /\ r.to = q /\ r.expects = e
  BY ConstantsAssumption, SMT DEF Requests

\* What an operation uploads is its own (Object).
LEMMA UploadedOwn ==
  ASSUME NEW o \in Ops
  PROVE  /\ Object(o, o) \in Objects /\ Object(o, o) # None
         /\ Object(o, o).by = o /\ Object(o, o).mark = o
  BY Uploaded DEF Bodies

\* What the variables hold for an operation, and what it finds at its paths.
LEMMA Mine ==
  ASSUME TypeOK, NEW o \in Ops
  PROVE  /\ staged[o] \in Objects \cup {None} /\ backup[o] \in Objects \cup {None}
         /\ upload[o] \in Transactions \cup {None} /\ move[o] \in Moves \cup {None}
         /\ plan[o] \in Requests \cup {None} /\ known[o] \in ETags \cup {None}
         /\ plan[o] # None =>
               /\ plan[o].from \in Files /\ plan[o].to \in Files /\ plan[o].mode \in Modes
               /\ file[plan[o].from] \in Objects \cup {None}
               /\ file[plan[o].to] \in Objects \cup {None}
  <1>1. /\ staged[o] \in Objects \cup {None} /\ backup[o] \in Objects \cup {None}
        /\ upload[o] \in Transactions \cup {None} /\ move[o] \in Moves \cup {None}
        /\ plan[o] \in Requests \cup {None} /\ known[o] \in ETags \cup {None}
    BY DEF TypeOK, StoreTyped, RecordsTyped, ProcessTyped
  <1>2. plan[o] # None => /\ plan[o].from \in Files /\ plan[o].to \in Files
                          /\ plan[o].mode \in Modes
    BY <1>1, RequestFields
  <1> QED
    BY <1>1, <1>2 DEF TypeOK, StoreTyped

\* Where an operation, and where recovery may be.
LEMMA Locations ==
  /\ OpLocations =
          {"idle", "done", "lock", "move", "intent", "stage", "open", "create",
           "unstarted", "bind", "unbind", "transfer", "release", "abort", "inspect",
           "abandon", "check", "journal", "handoff", "backup", "mark", "verify",
           "started", "publish", "rejected", "confirm", "restore", "remark",
           "clean_committed", "clean_failed", "copy", "copied", "unsure", "delete",
           "deleted", "mv_copy", "mv_lost", "mv_mark", "mv_drop", "mv_end"}
  /\ RecLocations =
          {"idle", "wait", "mv_copy", "mv_lost", "mv_mark", "mv_drop", "mv_end",
           "r_parts", "r_upload", "r_finish", "r_intent", "p_before", "p_intent",
           "p_put", "p_copy", "p_passed", "p_failed"}
  BY DEF OpLocations, RecLocations, Staging, Committing, Copying, Deleting, Moving,
     Recovering, Probing

\* The keys of an operation's journals.
LEMMA KeysOf ==
  /\ \A o \in Ops : /\ <<"parts", o>> \in Keys /\ <<"move", o>> \in Keys
                    /\ <<"upload", o>> \in Keys /\ <<"intent", o>> \in Keys
  /\ \A j \in Keys : j # None /\ j[1] \in Kinds /\ j[2] \in Ops /\ j = <<j[1], j[2]>>
  BY ConstantsAssumption DEF Keys, Kinds

-----------------------------------------------------------------------------
(***************************************************************************)
(* What an action does: a function changes at one operation only, requests *)
(* are counted, and an operation leaves with an answer or goes on.         *)
(***************************************************************************)

Only(f, g, o) == g = f \/ g = [f EXCEPT ![o] = g[o]]
Alone(o) ==
    /\ Only(staged, staged', o) /\ Only(backup, backup', o) /\ Only(parts, parts', o)
    /\ session' \in {session, session \cup {o}, session \ {o}}
    /\ intent' \in {intent, intent \cup {o}, intent \ {o}}
    /\ Only(upload, upload', o) /\ Only(move, move', o)
    /\ Only(plan, plan', o) /\ Only(known, known', o)
    /\ Only(answer, answer', o) /\ Only(effect, effect', o)
Counted == /\ faults' \in 0 .. MaxFaults /\ UNCHANGED <<crashes, foreign>>
           /\ verified' \in BOOLEAN
Foreground(o) == /\ Alone(o) /\ Only(run, run', o) /\ Counted
                 /\ UNCHANGED <<probe, job, phase, refused>>
Leaves(o, r) == /\ run'[o] = "done" /\ answer'[o] = r
                /\ gate' = IF gate = o THEN None ELSE gate
Stays(o) == gate' = gate /\ answer'[o] = answer[o]
Adds(k, o) == pending' = pending \cup {<<k, o>>}
Drops(k, o, gone) == pending' = pending \/ (gone /\ pending' = pending \ {<<k, o>>})
Unfiled == UNCHANGED <<file, stale>>
Writes(o, p, x) == /\ file' = [file EXCEPT ![p] = x]
                   /\ Touch(o, p)

\* A request is counted (Call).
LEMMA Calls ==
  ASSUME TypeOK, NEW x, NEW ok, Call(x, ok)
  PROVE  faults' \in 0 .. MaxFaults
  BY ConstantsAssumption, SMT DEF TypeOK, HistoryTyped, Call

\* A read is counted (Read).
LEMMA Reads ==
  ASSUME TypeOK, NEW ok, Read(ok)
  PROVE  faults' \in 0 .. MaxFaults
  BY ConstantsAssumption, SMT DEF TypeOK, HistoryTyped, Read, Call

\* One object or journal of an upload is discarded, in order.
Discards(o) ==
    /\ staged'[o] \in {staged[o], None} /\ backup'[o] \in {backup[o], None}
    /\ upload'[o] = upload[o] \/ (upload'[o] = None /\ staged[o] = None /\ backup[o] = None)
    /\ intent' = intent \/ (intent' = intent \ {o}
                            /\ staged[o] = None /\ backup[o] = None /\ upload[o] = None)
    /\ Drops("upload", o, upload'[o] = None) \/ Drops("intent", o, o \notin intent')

\* What Discard does, the request executed or not (Discard).
LEMMA Discarding ==
  ASSUME TypeOK, NEW o \in Ops, NEW x \in BOOLEAN, NEW ok \in BOOLEAN, Discard(o, x, ok), x \/ ~ ok
  PROVE  Discards(o)
  <1>1. Debris(o) \in {"staged", "backup", "upload", "intent"}
    BY DEF Debris
  <1>2. /\ Debris(o) = "upload" => staged[o] = None /\ backup[o] = None
        /\ Debris(o) = "intent" => staged[o] = None /\ backup[o] = None /\ upload[o] = None
    BY DEF Debris
  <1>3. /\ staged'[o] = IF x /\ Debris(o) = "staged" THEN None ELSE staged[o]
        /\ backup'[o] = IF x /\ Debris(o) = "backup" THEN None ELSE backup[o]
        /\ upload'[o] = IF x /\ Debris(o) = "upload" THEN None ELSE upload[o]
        /\ intent' = IF x /\ Debris(o) = "intent" THEN intent \ {o} ELSE intent
    BY DEF Discard, TypeOK, StoreTyped, RecordsTyped
  <1>4. Drops("upload", o, upload'[o] = None) \/ Drops("intent", o, o \notin intent')
    BY <1>1, <1>3 DEF Discard, Settle, Drops
  <1> QED
    BY <1>2, <1>3, <1>4 DEF Discards
WriteIntentDoes(o) ==
    /\ Foreground(o)
    /\ UNCHANGED <<file, staged, backup, session, parts, upload, move, plan, known, effect,
                   stale>>
    /\ run[o] = "intent"
    /\ Adds("intent", o)
    /\ \/ run'[o] \in {"stage", "open"} /\ o \in intent' /\ Stays(o)
       \/ Leaves(o, "failed")

\* Writing the intent has this effect.
LEMMA WriteIntentEffect ==
  ASSUME Bookkeeping, NEW o \in Ops, WriteIntent(o), UNCHANGED probe
  PROVE  WriteIntentDoes(o)
  <1> USE DEF WriteIntentDoes
  <1>0. TypeOK
    BY DEF Bookkeeping
  <1>1. Foreground(o)
    <2>1. Alone(o) /\ Only(run, run', o)
      BY <1>0, SMT DEF Alone, Only, TypeOK, StoreTyped, RecordsTyped, LocationsTyped,
         ProcessTyped, HistoryTyped, WriteIntent, At, Goto, Leave, Register, store
    <2>2. Counted
      BY <1>0, Calls, Reads, SMT DEF Counted, TypeOK, HistoryTyped, ProcessTyped,
         WriteIntent, At, Goto, Leave, Register, store
    <2>3. UNCHANGED <<probe, job, phase, refused>>
      BY DEF WriteIntent, At, Goto, Leave, Register, store
    <2> QED
      BY <2>1, <2>2, <2>3 DEF Foreground
  <1>2. run[o] = "intent"
    BY DEF WriteIntent, At, Goto, Leave, Register, store
  <1>3. UNCHANGED <<file, staged, backup, session, parts, upload, move, plan, known, effect,
                    stale>>
    BY DEF WriteIntent, At, Goto, Leave, Register, store
  <1>4. Adds("intent", o)
    BY <1>0, OpsAssumption, ConstantsAssumption, SMT DEF Leaves, Stays, Adds, Drops,
       Unfiled, Writes, TypeOK, StoreTyped, RecordsTyped, LocationsTyped,
       ProcessTyped, HistoryTyped, WriteIntent, At, Goto, Leave, Register, store,
       Call, Read
  <1>5. \/ run'[o] \in {"stage", "open"} /\ o \in intent' /\ Stays(o)
        \/ Leaves(o, "failed")
    BY <1>0, OpsAssumption, ConstantsAssumption, SMT DEF Leaves, Stays, Adds, Drops,
       Unfiled, Writes, TypeOK, StoreTyped, RecordsTyped, LocationsTyped,
       ProcessTyped, HistoryTyped, WriteIntent, At, Goto, Leave, Register, store,
       Call, Read
  <1> QED
    BY <1>1, <1>2, <1>3, <1>4, <1>5

StageSingleDoes(o) ==
    /\ Foreground(o)
    /\ UNCHANGED <<file, backup, session, intent, parts, upload, move, pending, plan, known,
                   gate, answer, effect, stale>>
    /\ run[o] = "stage"
    /\ run'[o] \in {"inspect", "abandon"}
    /\ staged'[o] = Object(o, o) \/ (staged'[o] = None /\ run'[o] # "inspect")

\* The single PUT of the staged object has this effect.
LEMMA StageSingleEffect ==
  ASSUME Bookkeeping, NEW o \in Ops, StageSingle(o), UNCHANGED probe
  PROVE  StageSingleDoes(o)
  <1> USE DEF StageSingleDoes
  <1>0. TypeOK
    BY DEF Bookkeeping
  <1>1. Foreground(o)
    <2>1. Alone(o) /\ Only(run, run', o)
      BY <1>0, SMT DEF Alone, Only, TypeOK, StoreTyped, RecordsTyped, LocationsTyped,
         ProcessTyped, HistoryTyped, StageSingle, At, Goto, records, ghosts
    <2>2. Counted
      BY <1>0, Calls, Reads, SMT DEF Counted, TypeOK, HistoryTyped, ProcessTyped,
         StageSingle, At, Goto, records, ghosts
    <2>3. UNCHANGED <<probe, job, phase, refused>>
      BY DEF StageSingle, At, Goto, records, ghosts
    <2> QED
      BY <2>1, <2>2, <2>3 DEF Foreground
  <1>2. run[o] = "stage"
    BY DEF StageSingle, At, Goto, records, ghosts
  <1>3. UNCHANGED <<file, backup, session, intent, parts, upload, move, pending, plan, known,
                    gate, answer, effect, stale>>
    BY DEF StageSingle, At, Goto, records, ghosts
  <1>4. run'[o] \in {"inspect", "abandon"}
    BY <1>0, OpsAssumption, ConstantsAssumption, Uploaded, SMT DEF Leaves, Stays,
       Adds, Drops, Unfiled, Writes, TypeOK, StoreTyped, RecordsTyped, LocationsTyped,
       ProcessTyped, HistoryTyped, StageSingle, At, Goto, records, ghosts, Call, Read
  <1>5. staged'[o] = Object(o, o) \/ (staged'[o] = None /\ run'[o] # "inspect")
    BY <1>0, OpsAssumption, ConstantsAssumption, Uploaded, SMT DEF Leaves, Stays,
       Adds, Drops, Unfiled, Writes, TypeOK, StoreTyped, RecordsTyped, LocationsTyped,
       ProcessTyped, HistoryTyped, StageSingle, At, Goto, records, ghosts, Call, Read
  <1> QED
    BY <1>1, <1>2, <1>3, <1>4, <1>5

OpenSessionDoes(o) ==
    /\ Foreground(o)
    /\ UNCHANGED <<file, staged, backup, session, intent, upload, move, plan, known, gate,
                   answer, effect, stale>>
    /\ run[o] = "open"
    /\ run'[o] \in {"create", "abandon"}
    /\ parts'[o] \in {"unnamed", "none"}
    /\ Adds("parts", o)

\* Writing the session's journal has this effect.
LEMMA OpenSessionEffect ==
  ASSUME Bookkeeping, NEW o \in Ops, OpenSession(o), UNCHANGED probe
  PROVE  OpenSessionDoes(o)
  <1> USE DEF OpenSessionDoes
  <1>0. TypeOK
    BY DEF Bookkeeping
  <1>1. Foreground(o)
    <2>1. Alone(o) /\ Only(run, run', o)
      BY <1>0, SMT DEF Alone, Only, TypeOK, StoreTyped, RecordsTyped, LocationsTyped,
         ProcessTyped, HistoryTyped, OpenSession, At, Goto, Register, store, ghosts
    <2>2. Counted
      BY <1>0, Calls, Reads, SMT DEF Counted, TypeOK, HistoryTyped, ProcessTyped,
         OpenSession, At, Goto, Register, store, ghosts
    <2>3. UNCHANGED <<probe, job, phase, refused>>
      BY DEF OpenSession, At, Goto, Register, store, ghosts
    <2> QED
      BY <2>1, <2>2, <2>3 DEF Foreground
  <1>2. run[o] = "open"
    BY DEF OpenSession, At, Goto, Register, store, ghosts
  <1>3. UNCHANGED <<file, staged, backup, session, intent, upload, move, plan, known, gate,
                    answer, effect, stale>>
    BY DEF OpenSession, At, Goto, Register, store, ghosts
  <1>4. run'[o] \in {"create", "abandon"}
    BY <1>0, OpsAssumption, ConstantsAssumption, SMT DEF Leaves, Stays, Adds, Drops,
       Unfiled, Writes, TypeOK, StoreTyped, RecordsTyped, LocationsTyped,
       ProcessTyped, HistoryTyped, OpenSession, At, Goto, Register, store, ghosts,
       Call, Read
  <1>5. parts'[o] \in {"unnamed", "none"}
    BY <1>0, OpsAssumption, ConstantsAssumption, SMT DEF Leaves, Stays, Adds, Drops,
       Unfiled, Writes, TypeOK, StoreTyped, RecordsTyped, LocationsTyped,
       ProcessTyped, HistoryTyped, OpenSession, At, Goto, Register, store, ghosts,
       Call, Read
  <1>6. Adds("parts", o)
    BY <1>0, OpsAssumption, ConstantsAssumption, SMT DEF Leaves, Stays, Adds, Drops,
       Unfiled, Writes, TypeOK, StoreTyped, RecordsTyped, LocationsTyped,
       ProcessTyped, HistoryTyped, OpenSession, At, Goto, Register, store, ghosts,
       Call, Read
  <1> QED
    BY <1>1, <1>2, <1>3, <1>4, <1>5, <1>6

CreateSessionDoes(o) ==
    /\ Foreground(o)
    /\ UNCHANGED <<file, staged, backup, intent, parts, upload, move, pending, plan, known,
                   gate, answer, effect, stale>>
    /\ run[o] = "create"
    /\ run'[o] \in {"bind", "unstarted"}

\* Opening the multipart session has this effect.
LEMMA CreateSessionEffect ==
  ASSUME Bookkeeping, NEW o \in Ops, CreateSession(o), UNCHANGED probe
  PROVE  CreateSessionDoes(o)
  <1> USE DEF CreateSessionDoes
  <1>0. TypeOK
    BY DEF Bookkeeping
  <1>1. Foreground(o)
    <2>1. Alone(o) /\ Only(run, run', o)
      BY <1>0, SMT DEF Alone, Only, TypeOK, StoreTyped, RecordsTyped, LocationsTyped,
         ProcessTyped, HistoryTyped, CreateSession, At, Goto, records, ghosts
    <2>2. Counted
      BY <1>0, Calls, Reads, SMT DEF Counted, TypeOK, HistoryTyped, ProcessTyped,
         CreateSession, At, Goto, records, ghosts
    <2>3. UNCHANGED <<probe, job, phase, refused>>
      BY DEF CreateSession, At, Goto, records, ghosts
    <2> QED
      BY <2>1, <2>2, <2>3 DEF Foreground
  <1>2. run[o] = "create"
    BY DEF CreateSession, At, Goto, records, ghosts
  <1>3. UNCHANGED <<file, staged, backup, intent, parts, upload, move, pending, plan, known,
                    gate, answer, effect, stale>>
    BY DEF CreateSession, At, Goto, records, ghosts
  <1>4. run'[o] \in {"bind", "unstarted"}
    BY <1>0, OpsAssumption, ConstantsAssumption, SMT DEF Leaves, Stays, Adds, Drops,
       Unfiled, Writes, TypeOK, StoreTyped, RecordsTyped, LocationsTyped,
       ProcessTyped, HistoryTyped, CreateSession, At, Goto, records, ghosts, Call,
       Read
  <1> QED
    BY <1>1, <1>2, <1>3, <1>4

ReleaseUnstartedDoes(o) ==
    /\ Foreground(o)
    /\ UNCHANGED <<file, staged, backup, session, intent, upload, move, plan, known, gate,
                   answer, effect, stale>>
    /\ run[o] = "unstarted"
    /\ run'[o] = "abandon"
    /\ parts'[o] \in {parts[o], "none"}
    /\ Drops("parts", o, parts'[o] = "none")

\* Giving up a session that was never opened has this effect.
LEMMA ReleaseUnstartedEffect ==
  ASSUME Bookkeeping, NEW o \in Ops, ReleaseUnstarted(o), UNCHANGED probe
  PROVE  ReleaseUnstartedDoes(o)
  <1> USE DEF ReleaseUnstartedDoes
  <1>0. TypeOK
    BY DEF Bookkeeping
  <1>1. Foreground(o)
    <2>1. Alone(o) /\ Only(run, run', o)
      BY <1>0, SMT DEF Alone, Only, TypeOK, StoreTyped, RecordsTyped, LocationsTyped,
         ProcessTyped, HistoryTyped, ReleaseUnstarted, At, Goto, Settle, store, ghosts
    <2>2. Counted
      BY <1>0, Calls, Reads, SMT DEF Counted, TypeOK, HistoryTyped, ProcessTyped,
         ReleaseUnstarted, At, Goto, Settle, store, ghosts
    <2>3. UNCHANGED <<probe, job, phase, refused>>
      BY DEF ReleaseUnstarted, At, Goto, Settle, store, ghosts
    <2> QED
      BY <2>1, <2>2, <2>3 DEF Foreground
  <1>2. run[o] = "unstarted"
    BY DEF ReleaseUnstarted, At, Goto, Settle, store, ghosts
  <1>3. UNCHANGED <<file, staged, backup, session, intent, upload, move, plan, known, gate,
                    answer, effect, stale>>
    BY DEF ReleaseUnstarted, At, Goto, Settle, store, ghosts
  <1>4. run'[o] = "abandon"
    BY <1>0, OpsAssumption, ConstantsAssumption, SMT DEF Leaves, Stays, Adds, Drops,
       Unfiled, Writes, TypeOK, StoreTyped, RecordsTyped, LocationsTyped,
       ProcessTyped, HistoryTyped, ReleaseUnstarted, At, Goto, Settle, store, ghosts,
       Call, Read
  <1>5. parts'[o] \in {parts[o], "none"}
    BY <1>0, OpsAssumption, ConstantsAssumption, SMT DEF Leaves, Stays, Adds, Drops,
       Unfiled, Writes, TypeOK, StoreTyped, RecordsTyped, LocationsTyped,
       ProcessTyped, HistoryTyped, ReleaseUnstarted, At, Goto, Settle, store, ghosts,
       Call, Read
  <1>6. Drops("parts", o, parts'[o] = "none")
    BY <1>0, OpsAssumption, ConstantsAssumption, SMT DEF Leaves, Stays, Adds, Drops,
       Unfiled, Writes, TypeOK, StoreTyped, RecordsTyped, LocationsTyped,
       ProcessTyped, HistoryTyped, ReleaseUnstarted, At, Goto, Settle, store, ghosts,
       Call, Read
  <1> QED
    BY <1>1, <1>2, <1>3, <1>4, <1>5, <1>6

BindSessionDoes(o) ==
    /\ Foreground(o)
    /\ UNCHANGED <<file, staged, backup, session, intent, upload, move, plan, known, gate,
                   answer, effect, stale>>
    /\ run[o] = "bind"
    /\ run'[o] \in {"transfer", "unbind"}
    /\ parts'[o] \in {parts[o], "named"}
    /\ Adds("parts", o)

\* Naming the session in its journal has this effect.
LEMMA BindSessionEffect ==
  ASSUME Bookkeeping, NEW o \in Ops, BindSession(o), UNCHANGED probe
  PROVE  BindSessionDoes(o)
  <1> USE DEF BindSessionDoes
  <1>0. TypeOK
    BY DEF Bookkeeping
  <1>1. Foreground(o)
    <2>1. Alone(o) /\ Only(run, run', o)
      BY <1>0, SMT DEF Alone, Only, TypeOK, StoreTyped, RecordsTyped, LocationsTyped,
         ProcessTyped, HistoryTyped, BindSession, At, Goto, Register, store, ghosts
    <2>2. Counted
      BY <1>0, Calls, Reads, SMT DEF Counted, TypeOK, HistoryTyped, ProcessTyped,
         BindSession, At, Goto, Register, store, ghosts
    <2>3. UNCHANGED <<probe, job, phase, refused>>
      BY DEF BindSession, At, Goto, Register, store, ghosts
    <2> QED
      BY <2>1, <2>2, <2>3 DEF Foreground
  <1>2. run[o] = "bind"
    BY DEF BindSession, At, Goto, Register, store, ghosts
  <1>3. UNCHANGED <<file, staged, backup, session, intent, upload, move, plan, known, gate,
                    answer, effect, stale>>
    BY DEF BindSession, At, Goto, Register, store, ghosts
  <1>4. run'[o] \in {"transfer", "unbind"}
    BY <1>0, OpsAssumption, ConstantsAssumption, SMT DEF Leaves, Stays, Adds, Drops,
       Unfiled, Writes, TypeOK, StoreTyped, RecordsTyped, LocationsTyped,
       ProcessTyped, HistoryTyped, BindSession, At, Goto, Register, store, ghosts,
       Call, Read
  <1>5. parts'[o] \in {parts[o], "named"}
    BY <1>0, OpsAssumption, ConstantsAssumption, SMT DEF Leaves, Stays, Adds, Drops,
       Unfiled, Writes, TypeOK, StoreTyped, RecordsTyped, LocationsTyped,
       ProcessTyped, HistoryTyped, BindSession, At, Goto, Register, store, ghosts,
       Call, Read
  <1>6. Adds("parts", o)
    BY <1>0, OpsAssumption, ConstantsAssumption, SMT DEF Leaves, Stays, Adds, Drops,
       Unfiled, Writes, TypeOK, StoreTyped, RecordsTyped, LocationsTyped,
       ProcessTyped, HistoryTyped, BindSession, At, Goto, Register, store, ghosts,
       Call, Read
  <1> QED
    BY <1>1, <1>2, <1>3, <1>4, <1>5, <1>6

UnbindSessionDoes(o) ==
    /\ Foreground(o)
    /\ UNCHANGED <<file, staged, backup, intent, upload, move, plan, known, gate, answer,
                   effect, stale>>
    /\ run[o] = "unbind"
    /\ run'[o] = "abandon"
    /\ parts'[o] \in {parts[o], "none"}
    /\ Drops("parts", o, parts'[o] = "none")

\* Aborting a session that could not be named has this effect.
LEMMA UnbindSessionEffect ==
  ASSUME Bookkeeping, NEW o \in Ops, UnbindSession(o), UNCHANGED probe
  PROVE  UnbindSessionDoes(o)
  <1> USE DEF UnbindSessionDoes
  <1>0. TypeOK
    BY DEF Bookkeeping
  <1>1. Foreground(o)
    <2>1. Alone(o) /\ Only(run, run', o)
      BY <1>0, SMT DEF Alone, Only, TypeOK, StoreTyped, RecordsTyped, LocationsTyped,
         ProcessTyped, HistoryTyped, UnbindSession, At, Goto, Settle, ghosts
    <2>2. Counted
      BY <1>0, Calls, Reads, SMT DEF Counted, TypeOK, HistoryTyped, ProcessTyped,
         UnbindSession, At, Goto, Settle, ghosts
    <2>3. UNCHANGED <<probe, job, phase, refused>>
      BY DEF UnbindSession, At, Goto, Settle, ghosts
    <2> QED
      BY <2>1, <2>2, <2>3 DEF Foreground
  <1>2. run[o] = "unbind"
    BY DEF UnbindSession, At, Goto, Settle, ghosts
  <1>3. UNCHANGED <<file, staged, backup, intent, upload, move, plan, known, gate, answer,
                    effect, stale>>
    BY DEF UnbindSession, At, Goto, Settle, ghosts
  <1>4. run'[o] = "abandon"
    BY <1>0, OpsAssumption, ConstantsAssumption, SMT DEF Leaves, Stays, Adds, Drops,
       Unfiled, Writes, TypeOK, StoreTyped, RecordsTyped, LocationsTyped,
       ProcessTyped, HistoryTyped, UnbindSession, At, Goto, Settle, ghosts, Call, Read
  <1>5. parts'[o] \in {parts[o], "none"}
    BY <1>0, OpsAssumption, ConstantsAssumption, SMT DEF Leaves, Stays, Adds, Drops,
       Unfiled, Writes, TypeOK, StoreTyped, RecordsTyped, LocationsTyped,
       ProcessTyped, HistoryTyped, UnbindSession, At, Goto, Settle, ghosts, Call, Read
  <1>6. Drops("parts", o, parts'[o] = "none")
    BY <1>0, OpsAssumption, ConstantsAssumption, SMT DEF Leaves, Stays, Adds, Drops,
       Unfiled, Writes, TypeOK, StoreTyped, RecordsTyped, LocationsTyped,
       ProcessTyped, HistoryTyped, UnbindSession, At, Goto, Settle, ghosts, Call, Read
  <1> QED
    BY <1>1, <1>2, <1>3, <1>4, <1>5, <1>6

CompletePartsDoes(o) ==
    /\ Foreground(o)
    /\ UNCHANGED <<file, backup, intent, parts, upload, move, pending, plan, known, gate,
                   answer, effect, stale>>
    /\ run[o] = "transfer"
    /\ run'[o] \in {"release", "abort", "abandon"}
    /\ staged'[o] = Object(o, o) \/ (staged'[o] = None /\ run'[o] # "release")

\* Completing the multipart session has this effect.
LEMMA CompletePartsEffect ==
  ASSUME Bookkeeping, NEW o \in Ops, CompleteParts(o), UNCHANGED probe
  PROVE  CompletePartsDoes(o)
  <1> USE DEF CompletePartsDoes
  <1>0. TypeOK
    BY DEF Bookkeeping
  <1>1. Foreground(o)
    <2>1. Alone(o) /\ Only(run, run', o)
      BY <1>0, SMT DEF Alone, Only, TypeOK, StoreTyped, RecordsTyped, LocationsTyped,
         ProcessTyped, HistoryTyped, CompleteParts, At, Goto, records, ghosts
    <2>2. Counted
      BY <1>0, Calls, Reads, SMT DEF Counted, TypeOK, HistoryTyped, ProcessTyped,
         CompleteParts, At, Goto, records, ghosts
    <2>3. UNCHANGED <<probe, job, phase, refused>>
      BY DEF CompleteParts, At, Goto, records, ghosts
    <2> QED
      BY <2>1, <2>2, <2>3 DEF Foreground
  <1>2. run[o] = "transfer"
    BY DEF CompleteParts, At, Goto, records, ghosts
  <1>3. UNCHANGED <<file, backup, intent, parts, upload, move, pending, plan, known, gate,
                    answer, effect, stale>>
    BY DEF CompleteParts, At, Goto, records, ghosts
  <1>4. run'[o] \in {"release", "abort", "abandon"}
    BY <1>0, OpsAssumption, ConstantsAssumption, SMT DEF Leaves, Stays, Adds, Drops,
       Unfiled, Writes, TypeOK, StoreTyped, RecordsTyped, LocationsTyped,
       ProcessTyped, HistoryTyped, CompleteParts, At, Goto, records, ghosts, Call,
       Read
  <1>5. staged'[o] = Object(o, o) \/ (staged'[o] = None /\ run'[o] # "release")
    BY <1>0, OpsAssumption, ConstantsAssumption, SMT DEF Leaves, Stays, Adds, Drops,
       Unfiled, Writes, TypeOK, StoreTyped, RecordsTyped, LocationsTyped,
       ProcessTyped, HistoryTyped, CompleteParts, At, Goto, records, ghosts, Call,
       Read
  <1> QED
    BY <1>1, <1>2, <1>3, <1>4, <1>5

PartsMissingDoes(o) ==
    /\ Foreground(o)
    /\ UNCHANGED <<file, staged, backup, session, intent, parts, upload, move, pending, plan,
                   known, gate, answer, effect, stale>>
    /\ run[o] = "transfer"
    /\ run'[o] = "abort"

\* A transfer that breaks off has this effect.
LEMMA PartsMissingEffect ==
  ASSUME Bookkeeping, NEW o \in Ops, PartsMissing(o), UNCHANGED probe
  PROVE  PartsMissingDoes(o)
  <1> USE DEF PartsMissingDoes
  <1>0. TypeOK
    BY DEF Bookkeeping
  <1>1. Foreground(o)
    <2>1. Alone(o) /\ Only(run, run', o)
      BY <1>0, SMT DEF Alone, Only, TypeOK, StoreTyped, RecordsTyped, LocationsTyped,
         ProcessTyped, HistoryTyped, PartsMissing, At, Goto, store, records, ghosts,
         limits
    <2>2. Counted
      BY <1>0, Calls, Reads, SMT DEF Counted, TypeOK, HistoryTyped, ProcessTyped,
         PartsMissing, At, Goto, store, records, ghosts, limits
    <2>3. UNCHANGED <<probe, job, phase, refused>>
      BY DEF PartsMissing, At, Goto, store, records, ghosts, limits
    <2> QED
      BY <2>1, <2>2, <2>3 DEF Foreground
  <1>2. run[o] = "transfer"
    BY DEF PartsMissing, At, Goto, store, records, ghosts, limits
  <1>3. UNCHANGED <<file, staged, backup, session, intent, parts, upload, move, pending, plan,
                    known, gate, answer, effect, stale>>
    BY DEF PartsMissing, At, Goto, store, records, ghosts, limits
  <1>4. run'[o] = "abort"
    BY <1>0, OpsAssumption, ConstantsAssumption, SMT DEF Leaves, Stays, Adds, Drops,
       Unfiled, Writes, TypeOK, StoreTyped, RecordsTyped, LocationsTyped,
       ProcessTyped, HistoryTyped, PartsMissing, At, Goto, store, records, ghosts,
       limits, Call, Read
  <1> QED
    BY <1>1, <1>2, <1>3, <1>4

ReleaseSessionDoes(o) ==
    /\ Foreground(o)
    /\ UNCHANGED <<file, staged, backup, session, intent, upload, move, plan, known, gate,
                   answer, effect, stale>>
    /\ run[o] = "release"
    /\ run'[o] = "inspect"
    /\ parts'[o] \in {parts[o], "none"}
    /\ Drops("parts", o, parts'[o] = "none")

\* Retiring the journal of a completed session has this effect.
LEMMA ReleaseSessionEffect ==
  ASSUME Bookkeeping, NEW o \in Ops, ReleaseSession(o), UNCHANGED probe
  PROVE  ReleaseSessionDoes(o)
  <1> USE DEF ReleaseSessionDoes
  <1>0. TypeOK
    BY DEF Bookkeeping
  <1>1. Foreground(o)
    <2>1. Alone(o) /\ Only(run, run', o)
      BY <1>0, SMT DEF Alone, Only, TypeOK, StoreTyped, RecordsTyped, LocationsTyped,
         ProcessTyped, HistoryTyped, ReleaseSession, At, Goto, Settle, store, ghosts
    <2>2. Counted
      BY <1>0, Calls, Reads, SMT DEF Counted, TypeOK, HistoryTyped, ProcessTyped,
         ReleaseSession, At, Goto, Settle, store, ghosts
    <2>3. UNCHANGED <<probe, job, phase, refused>>
      BY DEF ReleaseSession, At, Goto, Settle, store, ghosts
    <2> QED
      BY <2>1, <2>2, <2>3 DEF Foreground
  <1>2. run[o] = "release"
    BY DEF ReleaseSession, At, Goto, Settle, store, ghosts
  <1>3. UNCHANGED <<file, staged, backup, session, intent, upload, move, plan, known, gate,
                    answer, effect, stale>>
    BY DEF ReleaseSession, At, Goto, Settle, store, ghosts
  <1>4. run'[o] = "inspect"
    BY <1>0, OpsAssumption, ConstantsAssumption, SMT DEF Leaves, Stays, Adds, Drops,
       Unfiled, Writes, TypeOK, StoreTyped, RecordsTyped, LocationsTyped,
       ProcessTyped, HistoryTyped, ReleaseSession, At, Goto, Settle, store, ghosts,
       Call, Read
  <1>5. parts'[o] \in {parts[o], "none"}
    BY <1>0, OpsAssumption, ConstantsAssumption, SMT DEF Leaves, Stays, Adds, Drops,
       Unfiled, Writes, TypeOK, StoreTyped, RecordsTyped, LocationsTyped,
       ProcessTyped, HistoryTyped, ReleaseSession, At, Goto, Settle, store, ghosts,
       Call, Read
  <1>6. Drops("parts", o, parts'[o] = "none")
    BY <1>0, OpsAssumption, ConstantsAssumption, SMT DEF Leaves, Stays, Adds, Drops,
       Unfiled, Writes, TypeOK, StoreTyped, RecordsTyped, LocationsTyped,
       ProcessTyped, HistoryTyped, ReleaseSession, At, Goto, Settle, store, ghosts,
       Call, Read
  <1> QED
    BY <1>1, <1>2, <1>3, <1>4, <1>5, <1>6

AbortSessionDoes(o) ==
    /\ Foreground(o)
    /\ UNCHANGED <<file, staged, backup, intent, upload, move, plan, known, gate, answer,
                   effect, stale>>
    /\ run[o] = "abort"
    /\ run'[o] = "abandon"
    /\ parts'[o] \in {parts[o], "none"}
    /\ Drops("parts", o, parts'[o] = "none")

\* Aborting the session has this effect.
LEMMA AbortSessionEffect ==
  ASSUME Bookkeeping, NEW o \in Ops, AbortSession(o), UNCHANGED probe
  PROVE  AbortSessionDoes(o)
  <1> USE DEF AbortSessionDoes
  <1>0. TypeOK
    BY DEF Bookkeeping
  <1>1. Foreground(o)
    <2>1. Alone(o) /\ Only(run, run', o)
      BY <1>0, SMT DEF Alone, Only, TypeOK, StoreTyped, RecordsTyped, LocationsTyped,
         ProcessTyped, HistoryTyped, AbortSession, At, Goto, Settle, ghosts
    <2>2. Counted
      BY <1>0, Calls, Reads, SMT DEF Counted, TypeOK, HistoryTyped, ProcessTyped,
         AbortSession, At, Goto, Settle, ghosts
    <2>3. UNCHANGED <<probe, job, phase, refused>>
      BY DEF AbortSession, At, Goto, Settle, ghosts
    <2> QED
      BY <2>1, <2>2, <2>3 DEF Foreground
  <1>2. run[o] = "abort"
    BY DEF AbortSession, At, Goto, Settle, ghosts
  <1>3. UNCHANGED <<file, staged, backup, intent, upload, move, plan, known, gate, answer,
                    effect, stale>>
    BY DEF AbortSession, At, Goto, Settle, ghosts
  <1>4. run'[o] = "abandon"
    BY <1>0, OpsAssumption, ConstantsAssumption, SMT DEF Leaves, Stays, Adds, Drops,
       Unfiled, Writes, TypeOK, StoreTyped, RecordsTyped, LocationsTyped,
       ProcessTyped, HistoryTyped, AbortSession, At, Goto, Settle, ghosts, Call, Read
  <1>5. parts'[o] \in {parts[o], "none"}
    BY <1>0, OpsAssumption, ConstantsAssumption, SMT DEF Leaves, Stays, Adds, Drops,
       Unfiled, Writes, TypeOK, StoreTyped, RecordsTyped, LocationsTyped,
       ProcessTyped, HistoryTyped, AbortSession, At, Goto, Settle, ghosts, Call, Read
  <1>6. Drops("parts", o, parts'[o] = "none")
    BY <1>0, OpsAssumption, ConstantsAssumption, SMT DEF Leaves, Stays, Adds, Drops,
       Unfiled, Writes, TypeOK, StoreTyped, RecordsTyped, LocationsTyped,
       ProcessTyped, HistoryTyped, AbortSession, At, Goto, Settle, ghosts, Call, Read
  <1> QED
    BY <1>1, <1>2, <1>3, <1>4, <1>5, <1>6

InspectDoes(o) ==
    /\ Foreground(o)
    /\ UNCHANGED <<file, staged, backup, session, intent, parts, upload, move, pending, plan,
                   known, gate, answer, effect, stale>>
    /\ run[o] = "inspect"
    /\ run'[o] \in {"lock", "abandon"}

\* Looking at the staged object has this effect.
LEMMA InspectEffect ==
  ASSUME Bookkeeping, NEW o \in Ops, Inspect(o), UNCHANGED probe
  PROVE  InspectDoes(o)
  <1> USE DEF InspectDoes
  <1>0. TypeOK
    BY DEF Bookkeeping
  <1>1. Foreground(o)
    <2>1. Alone(o) /\ Only(run, run', o)
      BY <1>0, SMT DEF Alone, Only, TypeOK, StoreTyped, RecordsTyped, LocationsTyped,
         ProcessTyped, HistoryTyped, Inspect, At, Goto, store, records, ghosts
    <2>2. Counted
      BY <1>0, Calls, Reads, SMT DEF Counted, TypeOK, HistoryTyped, ProcessTyped,
         Inspect, At, Goto, store, records, ghosts
    <2>3. UNCHANGED <<probe, job, phase, refused>>
      BY DEF Inspect, At, Goto, store, records, ghosts
    <2> QED
      BY <2>1, <2>2, <2>3 DEF Foreground
  <1>2. run[o] = "inspect"
    BY DEF Inspect, At, Goto, store, records, ghosts
  <1>3. UNCHANGED <<file, staged, backup, session, intent, parts, upload, move, pending, plan,
                    known, gate, answer, effect, stale>>
    BY DEF Inspect, At, Goto, store, records, ghosts
  <1>4. run'[o] \in {"lock", "abandon"}
    BY <1>0, OpsAssumption, ConstantsAssumption, SMT DEF Leaves, Stays, Adds, Drops,
       Unfiled, Writes, TypeOK, StoreTyped, RecordsTyped, LocationsTyped,
       ProcessTyped, HistoryTyped, Inspect, At, Goto, store, records, ghosts, Call,
       Read
  <1> QED
    BY <1>1, <1>2, <1>3, <1>4

AbandonDoes(o) ==
    /\ Foreground(o)
    /\ UNCHANGED <<file, backup, session, parts, upload, move, plan, known, effect, stale>>
    /\ run[o] = "abandon"
    /\ (run'[o] = "abandon" /\ Stays(o) /\ intent' = intent) \/ Leaves(o, "failed")
    /\ intent' \in {intent, intent \ {o}}
    /\ staged'[o] \in {staged[o], None}
    /\ intent' = intent \/ staged[o] = None
    /\ Drops("intent", o, o \notin intent')

\* Giving up an upload before its transaction has this effect.
LEMMA AbandonEffect ==
  ASSUME Bookkeeping, NEW o \in Ops, Abandon(o), UNCHANGED probe
  PROVE  AbandonDoes(o)
  <1> USE DEF AbandonDoes
  <1>0. TypeOK
    BY DEF Bookkeeping
  <1>1. Foreground(o)
    <2>1. Alone(o) /\ Only(run, run', o)
      BY <1>0, SMT DEF Alone, Only, TypeOK, StoreTyped, RecordsTyped, LocationsTyped,
         ProcessTyped, HistoryTyped, Abandon, At, Goto, Leave, Settle
    <2>2. Counted
      BY <1>0, Calls, Reads, SMT DEF Counted, TypeOK, HistoryTyped, ProcessTyped,
         Abandon, At, Goto, Leave, Settle
    <2>3. UNCHANGED <<probe, job, phase, refused>>
      BY DEF Abandon, At, Goto, Leave, Settle
    <2> QED
      BY <2>1, <2>2, <2>3 DEF Foreground
  <1>2. run[o] = "abandon"
    BY DEF Abandon, At, Goto, Leave, Settle
  <1>3. UNCHANGED <<file, backup, session, parts, upload, move, plan, known, effect, stale>>
    BY DEF Abandon, At, Goto, Leave, Settle
  <1>4. (run'[o] = "abandon" /\ Stays(o) /\ intent' = intent) \/ Leaves(o, "failed")
    BY <1>0, OpsAssumption, ConstantsAssumption, SMT DEF Leaves, Stays, Adds, Drops,
       Unfiled, Writes, TypeOK, StoreTyped, RecordsTyped, LocationsTyped,
       ProcessTyped, HistoryTyped, Abandon, At, Goto, Leave, Settle, Call, Read
  <1>5. intent' \in {intent, intent \ {o}}
    BY <1>0, OpsAssumption, ConstantsAssumption, SMT DEF Leaves, Stays, Adds, Drops,
       Unfiled, Writes, TypeOK, StoreTyped, RecordsTyped, LocationsTyped,
       ProcessTyped, HistoryTyped, Abandon, At, Goto, Leave, Settle, Call, Read
  <1>6. staged'[o] \in {staged[o], None}
    BY <1>0, OpsAssumption, ConstantsAssumption, SMT DEF Leaves, Stays, Adds, Drops,
       Unfiled, Writes, TypeOK, StoreTyped, RecordsTyped, LocationsTyped,
       ProcessTyped, HistoryTyped, Abandon, At, Goto, Leave, Settle, Call, Read
  <1>7. intent' = intent \/ staged[o] = None
    BY <1>0, OpsAssumption, ConstantsAssumption, SMT DEF Leaves, Stays, Adds, Drops,
       Unfiled, Writes, TypeOK, StoreTyped, RecordsTyped, LocationsTyped,
       ProcessTyped, HistoryTyped, Abandon, At, Goto, Leave, Settle, Call, Read
  <1>8. Drops("intent", o, o \notin intent')
    BY <1>0, OpsAssumption, ConstantsAssumption, SMT DEF Leaves, Stays, Adds, Drops,
       Unfiled, Writes, TypeOK, StoreTyped, RecordsTyped, LocationsTyped,
       ProcessTyped, HistoryTyped, Abandon, At, Goto, Leave, Settle, Call, Read
  <1> QED
    BY <1>1, <1>2, <1>3, <1>4, <1>5, <1>6, <1>7, <1>8

CheckDoes(o) ==
    /\ Foreground(o)
    /\ UNCHANGED <<file, staged, backup, session, intent, parts, upload, move, pending, plan,
                   gate, answer, effect, stale>>
    /\ run[o] = "check"
    /\ \/ run'[o] = "abandon" /\ known'[o] = known[o]
       \/ /\ run'[o] = "journal" /\ known'[o] = TagOf(file[plan[o].to])
          /\ Guarded(o) => known'[o] = known[o]

\* Checking the conditions under the gate has this effect.
LEMMA CheckEffect ==
  ASSUME Bookkeeping, NEW o \in Ops, Check(o), UNCHANGED probe
  PROVE  CheckDoes(o)
  <1> USE DEF CheckDoes
  <1>0. TypeOK
    BY DEF Bookkeeping
  <1>1. Foreground(o)
    <2>1. Alone(o) /\ Only(run, run', o)
      BY <1>0, SMT DEF Alone, Only, TypeOK, StoreTyped, RecordsTyped, LocationsTyped,
         ProcessTyped, HistoryTyped, Check, At, Goto, Guarded, store, records, ghosts
    <2>2. Counted
      BY <1>0, Calls, Reads, SMT DEF Counted, TypeOK, HistoryTyped, ProcessTyped,
         Check, At, Goto, Guarded, store, records, ghosts
    <2>3. UNCHANGED <<probe, job, phase, refused>>
      BY DEF Check, At, Goto, Guarded, store, records, ghosts
    <2> QED
      BY <2>1, <2>2, <2>3 DEF Foreground
  <1>2. run[o] = "check"
    BY DEF Check, At, Goto, Guarded, store, records, ghosts
  <1>3. UNCHANGED <<file, staged, backup, session, intent, parts, upload, move, pending, plan,
                    gate, answer, effect, stale>>
    BY DEF Check, At, Goto, Guarded, store, records, ghosts
  <1>4. \/ run'[o] = "abandon" /\ known'[o] = known[o]
        \/ /\ run'[o] = "journal" /\ known'[o] = TagOf(file[plan[o].to])
           /\ Guarded(o) => known'[o] = known[o]
    BY <1>0, OpsAssumption, ConstantsAssumption, SMT DEF Leaves, Stays, Adds, Drops,
       Unfiled, Writes, TypeOK, StoreTyped, RecordsTyped, LocationsTyped,
       ProcessTyped, HistoryTyped, Check, At, Goto, Guarded, store, records, ghosts,
       Call, Read
  <1> QED
    BY <1>1, <1>2, <1>3, <1>4

WriteTransactionDoes(o) ==
    /\ Foreground(o)
    /\ UNCHANGED <<file, staged, backup, session, intent, parts, move, plan, known, gate,
                   answer, effect, stale>>
    /\ run[o] = "journal"
    /\ Adds("upload", o)
    /\ \/ upload'[o] = None /\ run'[o] = "abandon"
       \/ /\ run'[o] \in {"handoff", "abandon"}
          /\ upload'[o] \in Transactions /\ upload'[o].staged = ETag(staged[o]) /\ upload'[o].previous = known[o]

\* Writing the transaction has this effect.
LEMMA WriteTransactionEffect ==
  ASSUME Bookkeeping, NEW o \in Ops, WriteTransaction(o), UNCHANGED probe
  PROVE  WriteTransactionDoes(o)
  <1> USE DEF WriteTransactionDoes
  <1>0. TypeOK
    BY DEF Bookkeeping
  <1>1. Foreground(o)
    <2>1. Alone(o) /\ Only(run, run', o)
      BY <1>0, SMT DEF Alone, Only, TypeOK, StoreTyped, RecordsTyped, LocationsTyped,
         ProcessTyped, HistoryTyped, WriteTransaction, At, Goto, Register, Guarded,
         store, ghosts
    <2>2. Counted
      BY <1>0, Calls, Reads, SMT DEF Counted, TypeOK, HistoryTyped, ProcessTyped,
         WriteTransaction, At, Goto, Register, Guarded, store, ghosts
    <2>3. UNCHANGED <<probe, job, phase, refused>>
      BY DEF WriteTransaction, At, Goto, Register, Guarded, store, ghosts
    <2> QED
      BY <2>1, <2>2, <2>3 DEF Foreground
  <1>2. run[o] = "journal"
    BY DEF WriteTransaction, At, Goto, Register, Guarded, store, ghosts
  <1>3. staged[o] \in Objects
    BY <1>0, <1>2 DEF Bookkeeping, Held, HeldOf, Staged, TypeOK, StoreTyped
  <1>4. ETag(staged[o]) \in ETags
    BY <1>3, ObjectTags
  <1>5. known[o] \in ETags \cup {None}
    BY <1>0 DEF TypeOK, ProcessTyped
  <1>6. UNCHANGED <<file, staged, backup, session, intent, parts, move, plan, known, gate,
                    answer, effect, stale>>
    BY DEF WriteTransaction, At, Goto, Register, Guarded, store, ghosts
  <1>7. Adds("upload", o)
    BY <1>0, OpsAssumption, ConstantsAssumption, NewTransaction, ObjectTags, <1>3,
       <1>4, <1>5, SMT DEF Leaves, Stays, Adds, Drops, Unfiled, Writes, TypeOK,
       StoreTyped, RecordsTyped, LocationsTyped, ProcessTyped, HistoryTyped,
       WriteTransaction, At, Goto, Register, Guarded, store, ghosts, Call, Read
  <1>8. \/ upload'[o] = None /\ run'[o] = "abandon"
        \/ /\ run'[o] \in {"handoff", "abandon"}
           /\ upload'[o] \in Transactions /\ upload'[o].staged = ETag(staged[o])
           /\ upload'[o].previous = known[o]
    <2> DEFINE s == IF Guarded(o) THEN "checking" ELSE "prepared"
               t == [stage |-> s, staged |-> ETag(staged[o]), previous |-> known[o]]
    <2>1. PICK x, ok \in BOOLEAN :
            /\ upload' = [upload EXCEPT ![o] = IF x THEN t ELSE None]
            /\ run' = [run EXCEPT ![o] = IF ok THEN "handoff" ELSE "abandon"]
            /\ x \/ ~ ok
      BY DEF WriteTransaction, Goto, Call
    <2>2. t \in Transactions /\ t.staged = ETag(staged[o]) /\ t.previous = known[o]
      <3>1. s \in Stages
        BY DEF Stages
      <3> QED
        BY <3>1, NewTransaction, <1>4, <1>5
    <2> HIDE DEF t, s
    <2>3. run'[o] = IF ok THEN "handoff" ELSE "abandon"
      BY <1>0, <2>1 DEF TypeOK, LocationsTyped
    <2>4. upload'[o] = IF x THEN t ELSE None
      BY <1>0, <2>1 DEF TypeOK, RecordsTyped
    <2> QED
      BY <2>1, <2>2, <2>3, <2>4
  <1> QED
    BY <1>1, <1>2, <1>6, <1>7, <1>8

ReleaseIntentDoes(o) ==
    /\ Foreground(o)
    /\ UNCHANGED <<file, staged, backup, session, parts, upload, move, plan, known, gate,
                   answer, effect, stale>>
    /\ run[o] = "handoff"
    /\ run'[o] = IF Guarded(o) THEN "verify" ELSE IF known[o] # None THEN "backup" ELSE "publish"
    /\ intent' \in {intent, intent \ {o}}
    /\ Drops("intent", o, o \notin intent')

\* Handing the staged object over to the transaction has this effect.
LEMMA ReleaseIntentEffect ==
  ASSUME Bookkeeping, NEW o \in Ops, ReleaseIntent(o), UNCHANGED probe
  PROVE  ReleaseIntentDoes(o)
  <1> USE DEF ReleaseIntentDoes
  <1>0. TypeOK
    BY DEF Bookkeeping
  <1>1. Foreground(o)
    <2>1. Alone(o) /\ Only(run, run', o)
      BY <1>0, SMT DEF Alone, Only, TypeOK, StoreTyped, RecordsTyped, LocationsTyped,
         ProcessTyped, HistoryTyped, ReleaseIntent, At, Goto, Settle, Guarded, store,
         ghosts
    <2>2. Counted
      BY <1>0, Calls, Reads, SMT DEF Counted, TypeOK, HistoryTyped, ProcessTyped,
         ReleaseIntent, At, Goto, Settle, Guarded, store, ghosts
    <2>3. UNCHANGED <<probe, job, phase, refused>>
      BY DEF ReleaseIntent, At, Goto, Settle, Guarded, store, ghosts
    <2> QED
      BY <2>1, <2>2, <2>3 DEF Foreground
  <1>2. run[o] = "handoff"
    BY DEF ReleaseIntent, At, Goto, Settle, Guarded, store, ghosts
  <1>3. UNCHANGED <<file, staged, backup, session, parts, upload, move, plan, known, gate,
                    answer, effect, stale>>
    BY DEF ReleaseIntent, At, Goto, Settle, Guarded, store, ghosts
  <1>4. run'[o] = IF Guarded(o) THEN "verify" ELSE IF known[o] # None THEN "backup" ELSE "publish"
    BY <1>0, OpsAssumption, ConstantsAssumption, SMT DEF Leaves, Stays, Adds, Drops,
       Unfiled, Writes, TypeOK, StoreTyped, RecordsTyped, LocationsTyped,
       ProcessTyped, HistoryTyped, ReleaseIntent, At, Goto, Settle, Guarded, store,
       ghosts, Call, Read
  <1>5. intent' \in {intent, intent \ {o}}
    BY <1>0, OpsAssumption, ConstantsAssumption, SMT DEF Leaves, Stays, Adds, Drops,
       Unfiled, Writes, TypeOK, StoreTyped, RecordsTyped, LocationsTyped,
       ProcessTyped, HistoryTyped, ReleaseIntent, At, Goto, Settle, Guarded, store,
       ghosts, Call, Read
  <1>6. Drops("intent", o, o \notin intent')
    BY <1>0, OpsAssumption, ConstantsAssumption, SMT DEF Leaves, Stays, Adds, Drops,
       Unfiled, Writes, TypeOK, StoreTyped, RecordsTyped, LocationsTyped,
       ProcessTyped, HistoryTyped, ReleaseIntent, At, Goto, Settle, Guarded, store,
       ghosts, Call, Read
  <1> QED
    BY <1>1, <1>2, <1>3, <1>4, <1>5, <1>6

BackUpDoes(o) ==
    /\ Foreground(o)
    /\ UNCHANGED <<file, staged, session, intent, parts, upload, move, pending, plan, known,
                   effect, stale>>
    /\ run[o] = "backup"
    /\ (run'[o] = "mark" /\ Stays(o)) \/ Leaves(o, "unknown")
    /\ backup'[o] = None \/ \E keep \in BOOLEAN : backup'[o] = Copied(file[plan[o].to], keep)

\* Copying the target to its backup has this effect.
LEMMA BackUpEffect ==
  ASSUME Bookkeeping, NEW o \in Ops, BackUp(o), UNCHANGED probe
  PROVE  BackUpDoes(o)
  <1> USE DEF BackUpDoes
  <1>0. TypeOK
    BY DEF Bookkeeping
  <1>1. Foreground(o)
    <2>1. Alone(o) /\ Only(run, run', o)
      BY <1>0, SMT DEF Alone, Only, TypeOK, StoreTyped, RecordsTyped, LocationsTyped,
         ProcessTyped, HistoryTyped, BackUp, At, Goto, Leave, records
    <2>2. Counted
      BY <1>0, Calls, Reads, SMT DEF Counted, TypeOK, HistoryTyped, ProcessTyped,
         BackUp, At, Goto, Leave, records
    <2>3. UNCHANGED <<probe, job, phase, refused>>
      BY DEF BackUp, At, Goto, Leave, records
    <2> QED
      BY <2>1, <2>2, <2>3 DEF Foreground
  <1>2. run[o] = "backup"
    BY DEF BackUp, At, Goto, Leave, records
  <1>3. UNCHANGED <<file, staged, session, intent, parts, upload, move, pending, plan, known,
                    effect, stale>>
    BY DEF BackUp, At, Goto, Leave, records
  <1>4. (run'[o] = "mark" /\ Stays(o)) \/ Leaves(o, "unknown")
    BY <1>0, OpsAssumption, ConstantsAssumption, SMT DEF Leaves, Stays, Adds, Drops,
       Unfiled, Writes, TypeOK, StoreTyped, RecordsTyped, LocationsTyped,
       ProcessTyped, HistoryTyped, BackUp, At, Goto, Leave, records, Call, Read
  <1>5. backup'[o] = None \/ \E keep \in BOOLEAN : backup'[o] = Copied(file[plan[o].to], keep)
    BY <1>0, OpsAssumption, ConstantsAssumption, SMT DEF Leaves, Stays, Adds, Drops,
       Unfiled, Writes, TypeOK, StoreTyped, RecordsTyped, LocationsTyped,
       ProcessTyped, HistoryTyped, BackUp, At, Goto, Leave, records, Call, Read
  <1> QED
    BY <1>1, <1>2, <1>3, <1>4, <1>5

MarkBackupDoes(o) ==
    /\ Foreground(o)
    /\ UNCHANGED <<file, staged, backup, session, intent, parts, move, plan, known, effect,
                   stale>>
    /\ run[o] = "mark"
    /\ (run'[o] = "publish" /\ Stays(o)) \/ Leaves(o, "failed")
    /\ Adds("upload", o)
    /\ /\ upload'[o] \in Transactions /\ upload'[o].staged = upload[o].staged
       /\ upload'[o].previous = upload[o].previous

\* Recording the backup has this effect.
LEMMA MarkBackupEffect ==
  ASSUME Bookkeeping, NEW o \in Ops, MarkBackup(o), UNCHANGED probe
  PROVE  MarkBackupDoes(o)
  <1> USE DEF MarkBackupDoes
  <1>0. TypeOK
    BY DEF Bookkeeping
  <1>1. Foreground(o)
    <2>1. Alone(o) /\ Only(run, run', o)
      BY <1>0, SMT DEF Alone, Only, TypeOK, StoreTyped, RecordsTyped, LocationsTyped,
         ProcessTyped, HistoryTyped, MarkBackup, At, Goto, Leave, Register,
         WriteStage, store
    <2>2. Counted
      BY <1>0, Calls, Reads, SMT DEF Counted, TypeOK, HistoryTyped, ProcessTyped,
         MarkBackup, At, Goto, Leave, Register, WriteStage, store
    <2>3. UNCHANGED <<probe, job, phase, refused>>
      BY DEF MarkBackup, At, Goto, Leave, Register, WriteStage, store
    <2> QED
      BY <2>1, <2>2, <2>3 DEF Foreground
  <1>2. run[o] = "mark"
    BY DEF MarkBackup, At, Goto, Leave, Register, WriteStage, store
  <1>3. upload[o] \in Transactions
    BY <1>0, <1>2 DEF Bookkeeping, Held, HeldOf, Committing, TypeOK, RecordsTyped
  <1>4. UNCHANGED <<file, staged, backup, session, intent, parts, move, plan, known, effect,
                    stale>>
    BY DEF MarkBackup, At, Goto, Leave, Register, WriteStage, store
  <1>5. (run'[o] = "publish" /\ Stays(o)) \/ Leaves(o, "failed")
    BY <1>0, OpsAssumption, ConstantsAssumption, TransactionFields, Tags, <1>3,
       SMT DEF Leaves, Stays, Adds, Drops, Unfiled, Writes, TypeOK, StoreTyped,
       RecordsTyped, LocationsTyped, ProcessTyped, HistoryTyped, MarkBackup, At, Goto,
       Leave, Register, WriteStage, store, Call, Read
  <1>6. Adds("upload", o)
    BY <1>0, OpsAssumption, ConstantsAssumption, TransactionFields, Tags, <1>3,
       SMT DEF Leaves, Stays, Adds, Drops, Unfiled, Writes, TypeOK, StoreTyped,
       RecordsTyped, LocationsTyped, ProcessTyped, HistoryTyped, MarkBackup, At, Goto,
       Leave, Register, WriteStage, store, Call, Read
  <1>7. /\ upload'[o] \in Transactions /\ upload'[o].staged = upload[o].staged
        /\ upload'[o].previous = upload[o].previous
    <2>1. PICK x \in BOOLEAN : upload' = [upload EXCEPT ![o].stage = IF x THEN "backed_up" ELSE @]
      BY DEF MarkBackup, WriteStage
    <2> DEFINE s == IF x THEN "backed_up" ELSE upload[o].stage
    <2>2. upload'[o] = [upload[o] EXCEPT !.stage = s]
      BY <1>0, <2>1, Zenon DEF TypeOK, RecordsTyped
    <2>3. s \in Stages
      BY <1>3, TransactionFields DEF Stages
    <2> HIDE DEF s
    <2> QED
      BY <1>3, <2>2, <2>3, TransactionFields
  <1> QED
    BY <1>1, <1>2, <1>4, <1>5, <1>6, <1>7

VerifyDoes(o) ==
    /\ Foreground(o)
    /\ UNCHANGED <<file, staged, session, intent, parts, upload, move, pending, plan, known,
                   gate, answer, effect, stale>>
    /\ run[o] = "verify"
    /\ run'[o] \in {"started", "clean_failed"}
    /\ backup'[o] \in {backup[o], None, Object(o, o)}

\* Probing the store's conditional writes has this effect.
LEMMA VerifyEffect ==
  ASSUME Bookkeeping, NEW o \in Ops, Verify(o), UNCHANGED probe
  PROVE  VerifyDoes(o)
  <1> USE DEF VerifyDoes
  <1>0. TypeOK
    BY DEF Bookkeeping
  <1>1. Foreground(o)
    <2>1. Alone(o) /\ Only(run, run', o)
      <3>1. /\ UNCHANGED <<staged, session, intent, parts, upload, move, plan, known, answer,
                           effect>>
            /\ \E pc : Goto(o, pc)
        BY DEF Verify, records, ghosts
      <3>2. \E b : backup' = [backup EXCEPT ![o] = b]
        <4>1. CASE UNCHANGED backup
          BY <1>0, <4>1 DEF TypeOK, StoreTyped
        <4>2. CASE ~ UNCHANGED backup
          BY <4>2 DEF Verify
        <4> QED
          BY <4>1, <4>2
      <3> QED
        BY <1>0, <3>1, <3>2 DEF Alone, Only, Goto, TypeOK, LocationsTyped, StoreTyped
    <2>2. Counted
      <3>1. UNCHANGED <<crashes, foreign>>
        BY DEF Verify
      <3>2. verified' \in BOOLEAN /\ (UNCHANGED faults \/ \E ok \in BOOLEAN : Call(TRUE, ok))
        BY <1>0 DEF Verify, TypeOK, ProcessTyped
      <3> QED
        BY <1>0, <3>1, <3>2, Calls DEF Counted, TypeOK, HistoryTyped
    <2>3. UNCHANGED <<probe, job, phase, refused>>
      BY DEF Verify, At, Goto, records, ghosts
    <2> QED
      BY <2>1, <2>2, <2>3 DEF Foreground
  <1>2. run[o] = "verify"
    BY DEF Verify, At, Goto, records, ghosts
  <1>3. UNCHANGED <<file, staged, session, intent, parts, upload, move, pending, plan, known,
                    gate, answer, effect, stale>>
    BY DEF Verify, At, Goto, records, ghosts
  <1>4. run'[o] \in {"started", "clean_failed"}
    BY <1>0, OpsAssumption, ConstantsAssumption, SMT DEF Leaves, Stays, Adds, Drops,
       Unfiled, Writes, TypeOK, StoreTyped, RecordsTyped, LocationsTyped,
       ProcessTyped, HistoryTyped, Verify, At, Goto, records, ghosts, Call, Read
  <1>5. backup'[o] \in {backup[o], None, Object(o, o)}
    BY <1>0, OpsAssumption, ConstantsAssumption, SMT DEF Leaves, Stays, Adds, Drops,
       Unfiled, Writes, TypeOK, StoreTyped, RecordsTyped, LocationsTyped,
       ProcessTyped, HistoryTyped, Verify, At, Goto, records, ghosts, Call, Read
  <1> QED
    BY <1>1, <1>2, <1>3, <1>4, <1>5

MarkStartedDoes(o) ==
    /\ Foreground(o)
    /\ UNCHANGED <<file, staged, backup, session, intent, parts, move, plan, known, effect,
                   stale>>
    /\ run[o] = "started"
    /\ (run'[o] = "publish" /\ Stays(o)) \/ Leaves(o, "failed")
    /\ Adds("upload", o)
    /\ /\ upload'[o] \in Transactions /\ upload'[o].staged = upload[o].staged
       /\ upload'[o].previous = upload[o].previous

\* Announcing a conditional publication has this effect.
LEMMA MarkStartedEffect ==
  ASSUME Bookkeeping, NEW o \in Ops, MarkStarted(o), UNCHANGED probe
  PROVE  MarkStartedDoes(o)
  <1> USE DEF MarkStartedDoes
  <1>0. TypeOK
    BY DEF Bookkeeping
  <1>1. Foreground(o)
    <2>1. Alone(o) /\ Only(run, run', o)
      BY <1>0, SMT DEF Alone, Only, TypeOK, StoreTyped, RecordsTyped, LocationsTyped,
         ProcessTyped, HistoryTyped, MarkStarted, At, Goto, Leave, Register,
         WriteStage, store
    <2>2. Counted
      BY <1>0, Calls, Reads, SMT DEF Counted, TypeOK, HistoryTyped, ProcessTyped,
         MarkStarted, At, Goto, Leave, Register, WriteStage, store
    <2>3. UNCHANGED <<probe, job, phase, refused>>
      BY DEF MarkStarted, At, Goto, Leave, Register, WriteStage, store
    <2> QED
      BY <2>1, <2>2, <2>3 DEF Foreground
  <1>2. run[o] = "started"
    BY DEF MarkStarted, At, Goto, Leave, Register, WriteStage, store
  <1>3. upload[o] \in Transactions
    BY <1>0, <1>2 DEF Bookkeeping, Held, HeldOf, Committing, TypeOK, RecordsTyped
  <1>4. UNCHANGED <<file, staged, backup, session, intent, parts, move, plan, known, effect,
                    stale>>
    BY DEF MarkStarted, At, Goto, Leave, Register, WriteStage, store
  <1>5. (run'[o] = "publish" /\ Stays(o)) \/ Leaves(o, "failed")
    BY <1>0, OpsAssumption, ConstantsAssumption, TransactionFields, Tags, <1>3,
       SMT DEF Leaves, Stays, Adds, Drops, Unfiled, Writes, TypeOK, StoreTyped,
       RecordsTyped, LocationsTyped, ProcessTyped, HistoryTyped, MarkStarted, At,
       Goto, Leave, Register, WriteStage, store, Call, Read
  <1>6. Adds("upload", o)
    BY <1>0, OpsAssumption, ConstantsAssumption, TransactionFields, Tags, <1>3,
       SMT DEF Leaves, Stays, Adds, Drops, Unfiled, Writes, TypeOK, StoreTyped,
       RecordsTyped, LocationsTyped, ProcessTyped, HistoryTyped, MarkStarted, At,
       Goto, Leave, Register, WriteStage, store, Call, Read
  <1>7. /\ upload'[o] \in Transactions /\ upload'[o].staged = upload[o].staged
        /\ upload'[o].previous = upload[o].previous
    <2>1. PICK x \in BOOLEAN : upload' = [upload EXCEPT ![o].stage = IF x THEN "started" ELSE @]
      BY DEF MarkStarted, WriteStage
    <2> DEFINE s == IF x THEN "started" ELSE upload[o].stage
    <2>2. upload'[o] = [upload[o] EXCEPT !.stage = s]
      BY <1>0, <2>1, Zenon DEF TypeOK, RecordsTyped
    <2>3. s \in Stages
      BY <1>3, TransactionFields DEF Stages
    <2> HIDE DEF s
    <2> QED
      BY <1>3, <2>2, <2>3, TransactionFields
  <1> QED
    BY <1>1, <1>2, <1>4, <1>5, <1>6, <1>7

PublishDoes(o) ==
    /\ Foreground(o)
    /\ UNCHANGED <<staged, backup, session, intent, parts, upload, move, pending, plan, known,
                   gate, answer>>
    /\ run[o] = "publish"
    /\ \/ /\ run'[o] = "confirm" /\ effect'[o] = "yes" /\ Publishable(o)
          /\ \E keep \in BOOLEAN : Writes(o, plan[o].to, Copied(staged[o], keep))
       \/ /\ run'[o] = "confirm" \/ (run'[o] = "rejected" /\ Guarded(o))
          /\ effect'[o] = effect[o] /\ Unfiled

\* The publishing copy has this effect.
LEMMA PublishEffect ==
  ASSUME Bookkeeping, NEW o \in Ops, Publish(o), UNCHANGED probe
  PROVE  PublishDoes(o)
  <1> USE DEF PublishDoes
  <1>0. TypeOK
    BY DEF Bookkeeping
  <1>1. Foreground(o)
    <2>1. Alone(o) /\ Only(run, run', o)
      BY <1>0, SMT DEF Alone, Only, TypeOK, StoreTyped, RecordsTyped, LocationsTyped,
         ProcessTyped, HistoryTyped, Publish, At, Goto, Touch, Guarded, records
    <2>2. Counted
      BY <1>0, Calls, Reads, SMT DEF Counted, TypeOK, HistoryTyped, ProcessTyped,
         Publish, At, Goto, Touch, Guarded, records
    <2>3. UNCHANGED <<probe, job, phase, refused>>
      BY DEF Publish, At, Goto, Touch, Guarded, records
    <2> QED
      BY <2>1, <2>2, <2>3 DEF Foreground
  <1>2. run[o] = "publish"
    BY DEF Publish, At, Goto, Touch, Guarded, records
  <1>3. UNCHANGED <<staged, backup, session, intent, parts, upload, move, pending, plan,
                    known, gate, answer>>
    BY DEF Publish, At, Goto, Touch, Guarded, records
  <1>4. \/ /\ run'[o] = "confirm" /\ effect'[o] = "yes" /\ Publishable(o)
           /\ \E keep \in BOOLEAN : Writes(o, plan[o].to, Copied(staged[o], keep))
        \/ /\ run'[o] = "confirm" \/ (run'[o] = "rejected" /\ Guarded(o))
           /\ effect'[o] = effect[o] /\ Unfiled
    BY <1>0, OpsAssumption, ConstantsAssumption, SMT DEF Leaves, Stays, Adds, Drops,
       Unfiled, Writes, TypeOK, StoreTyped, RecordsTyped, LocationsTyped,
       ProcessTyped, HistoryTyped, Publish, At, Goto, Touch, Guarded, records, Call,
       Read
  <1> QED
    BY <1>1, <1>2, <1>3, <1>4

MarkRejectedDoes(o) ==
    /\ Foreground(o)
    /\ UNCHANGED <<file, staged, backup, session, intent, parts, move, plan, known, effect,
                   stale>>
    /\ run[o] = "rejected"
    /\ (run'[o] = "clean_failed" /\ Stays(o)) \/ Leaves(o, "failed")
    /\ Adds("upload", o)
    /\ /\ upload'[o] \in Transactions /\ upload'[o].staged = upload[o].staged
       /\ upload'[o].previous = upload[o].previous

\* Recording a refused publication has this effect.
LEMMA MarkRejectedEffect ==
  ASSUME Bookkeeping, NEW o \in Ops, MarkRejected(o), UNCHANGED probe
  PROVE  MarkRejectedDoes(o)
  <1> USE DEF MarkRejectedDoes
  <1>0. TypeOK
    BY DEF Bookkeeping
  <1>1. Foreground(o)
    <2>1. Alone(o) /\ Only(run, run', o)
      BY <1>0, SMT DEF Alone, Only, TypeOK, StoreTyped, RecordsTyped, LocationsTyped,
         ProcessTyped, HistoryTyped, MarkRejected, At, Goto, Leave, Register,
         WriteStage, store
    <2>2. Counted
      BY <1>0, Calls, Reads, SMT DEF Counted, TypeOK, HistoryTyped, ProcessTyped,
         MarkRejected, At, Goto, Leave, Register, WriteStage, store
    <2>3. UNCHANGED <<probe, job, phase, refused>>
      BY DEF MarkRejected, At, Goto, Leave, Register, WriteStage, store
    <2> QED
      BY <2>1, <2>2, <2>3 DEF Foreground
  <1>2. run[o] = "rejected"
    BY DEF MarkRejected, At, Goto, Leave, Register, WriteStage, store
  <1>3. upload[o] \in Transactions
    BY <1>0, <1>2 DEF Bookkeeping, Held, HeldOf, Committing, TypeOK, RecordsTyped
  <1>4. UNCHANGED <<file, staged, backup, session, intent, parts, move, plan, known, effect,
                    stale>>
    BY DEF MarkRejected, At, Goto, Leave, Register, WriteStage, store
  <1>5. (run'[o] = "clean_failed" /\ Stays(o)) \/ Leaves(o, "failed")
    BY <1>0, OpsAssumption, ConstantsAssumption, TransactionFields, Tags, <1>3,
       SMT DEF Leaves, Stays, Adds, Drops, Unfiled, Writes, TypeOK, StoreTyped,
       RecordsTyped, LocationsTyped, ProcessTyped, HistoryTyped, MarkRejected, At,
       Goto, Leave, Register, WriteStage, store, Call, Read
  <1>6. Adds("upload", o)
    BY <1>0, OpsAssumption, ConstantsAssumption, TransactionFields, Tags, <1>3,
       SMT DEF Leaves, Stays, Adds, Drops, Unfiled, Writes, TypeOK, StoreTyped,
       RecordsTyped, LocationsTyped, ProcessTyped, HistoryTyped, MarkRejected, At,
       Goto, Leave, Register, WriteStage, store, Call, Read
  <1>7. /\ upload'[o] \in Transactions /\ upload'[o].staged = upload[o].staged
        /\ upload'[o].previous = upload[o].previous
    <2>1. PICK x \in BOOLEAN : upload' = [upload EXCEPT ![o].stage = IF x THEN "rejected" ELSE @]
      BY DEF MarkRejected, WriteStage
    <2> DEFINE s == IF x THEN "rejected" ELSE upload[o].stage
    <2>2. upload'[o] = [upload[o] EXCEPT !.stage = s]
      BY <1>0, <2>1, Zenon DEF TypeOK, RecordsTyped
    <2>3. s \in Stages
      BY <1>3, TransactionFields DEF Stages
    <2> HIDE DEF s
    <2> QED
      BY <1>3, <2>2, <2>3, TransactionFields
  <1> QED
    BY <1>1, <1>2, <1>4, <1>5, <1>6, <1>7

ConfirmDoes(o) ==
    /\ Foreground(o)
    /\ UNCHANGED <<file, staged, backup, session, intent, parts, upload, move, pending, plan,
                   known, effect, stale>>
    /\ run[o] = "confirm"
    /\ \/ Leaves(o, "unknown")
       \/ run'[o] = "clean_committed" /\ Committed(o, file[plan[o].to]) /\ Stays(o)
       \/ /\ ~ Guarded(o) /\ ~ Committed(o, file[plan[o].to])
          /\ \/ run'[o] = "restore" /\ backup[o] # None /\ Stays(o)
             \/ Leaves(o, "failed")
             \/ run'[o] = "clean_failed" /\ Stays(o)

\* Looking for proof of the publication has this effect.
LEMMA ConfirmEffect ==
  ASSUME Bookkeeping, NEW o \in Ops, Confirm(o), UNCHANGED probe
  PROVE  ConfirmDoes(o)
  <1> USE DEF ConfirmDoes
  <1>0. TypeOK
    BY DEF Bookkeeping
  <1>1. Foreground(o)
    <2>1. Alone(o) /\ Only(run, run', o)
      BY <1>0, SMT DEF Alone, Only, TypeOK, StoreTyped, RecordsTyped, LocationsTyped,
         ProcessTyped, HistoryTyped, Confirm, At, Goto, Leave, Guarded, store, records
    <2>2. Counted
      BY <1>0, Calls, Reads, SMT DEF Counted, TypeOK, HistoryTyped, ProcessTyped,
         Confirm, At, Goto, Leave, Guarded, store, records
    <2>3. UNCHANGED <<probe, job, phase, refused>>
      BY DEF Confirm, At, Goto, Leave, Guarded, store, records
    <2> QED
      BY <2>1, <2>2, <2>3 DEF Foreground
  <1>2. run[o] = "confirm"
    BY DEF Confirm, At, Goto, Leave, Guarded, store, records
  <1>3. UNCHANGED <<file, staged, backup, session, intent, parts, upload, move, pending, plan,
                    known, effect, stale>>
    BY DEF Confirm, At, Goto, Leave, Guarded, store, records
  <1>4. \/ Leaves(o, "unknown")
        \/ run'[o] = "clean_committed" /\ Committed(o, file[plan[o].to]) /\ Stays(o)
        \/ /\ ~ Guarded(o) /\ ~ Committed(o, file[plan[o].to])
           /\ \/ run'[o] = "restore" /\ backup[o] # None /\ Stays(o)
              \/ Leaves(o, "failed")
              \/ run'[o] = "clean_failed" /\ Stays(o)
    BY <1>0, OpsAssumption, ConstantsAssumption, SMT DEF Leaves, Stays, Adds, Drops,
       Unfiled, Writes, TypeOK, StoreTyped, RecordsTyped, LocationsTyped,
       ProcessTyped, HistoryTyped, Confirm, At, Goto, Leave, Guarded, store, records,
       Call, Read
  <1> QED
    BY <1>1, <1>2, <1>3, <1>4

RestoreDoes(o) ==
    /\ Foreground(o)
    /\ UNCHANGED <<staged, backup, session, intent, parts, upload, move, pending, plan, known,
                   effect>>
    /\ run[o] = "restore"
    /\ (run'[o] = "remark" /\ Stays(o)) \/ Leaves(o, "failed")
    /\ Unfiled \/ \E keep \in BOOLEAN : Writes(o, plan[o].to, Copied(backup[o], keep))

\* Rolling the target back has this effect.
LEMMA RestoreEffect ==
  ASSUME Bookkeeping, NEW o \in Ops, Restore(o), UNCHANGED probe
  PROVE  RestoreDoes(o)
  <1> USE DEF RestoreDoes
  <1>0. TypeOK
    BY DEF Bookkeeping
  <1>1. Foreground(o)
    <2>1. Alone(o) /\ Only(run, run', o)
      BY <1>0, SMT DEF Alone, Only, TypeOK, StoreTyped, RecordsTyped, LocationsTyped,
         ProcessTyped, HistoryTyped, Restore, At, Goto, Leave, Touch, records
    <2>2. Counted
      BY <1>0, Calls, Reads, SMT DEF Counted, TypeOK, HistoryTyped, ProcessTyped,
         Restore, At, Goto, Leave, Touch, records
    <2>3. UNCHANGED <<probe, job, phase, refused>>
      BY DEF Restore, At, Goto, Leave, Touch, records
    <2> QED
      BY <2>1, <2>2, <2>3 DEF Foreground
  <1>2. run[o] = "restore"
    BY DEF Restore, At, Goto, Leave, Touch, records
  <1>3. UNCHANGED <<staged, backup, session, intent, parts, upload, move, pending, plan,
                    known, effect>>
    BY DEF Restore, At, Goto, Leave, Touch, records
  <1>4. (run'[o] = "remark" /\ Stays(o)) \/ Leaves(o, "failed")
    BY <1>0, OpsAssumption, ConstantsAssumption, SMT DEF Leaves, Stays, Adds, Drops,
       Unfiled, Writes, TypeOK, StoreTyped, RecordsTyped, LocationsTyped,
       ProcessTyped, HistoryTyped, Restore, At, Goto, Leave, Touch, records, Call,
       Read
  <1>5. Unfiled \/ \E keep \in BOOLEAN : Writes(o, plan[o].to, Copied(backup[o], keep))
    BY <1>0, OpsAssumption, ConstantsAssumption, SMT DEF Leaves, Stays, Adds, Drops,
       Unfiled, Writes, TypeOK, StoreTyped, RecordsTyped, LocationsTyped,
       ProcessTyped, HistoryTyped, Restore, At, Goto, Leave, Touch, records, Call,
       Read
  <1> QED
    BY <1>1, <1>2, <1>3, <1>4, <1>5

RemarkDoes(o) ==
    /\ Foreground(o)
    /\ UNCHANGED <<file, staged, backup, session, intent, parts, move, plan, known, effect,
                   stale>>
    /\ run[o] = "remark"
    /\ Adds("upload", o)
    /\ (run'[o] = "clean_failed" /\ Stays(o)) \/ Leaves(o, "failed")
    /\ /\ upload'[o] \in Transactions /\ upload'[o].staged = upload[o].staged
       /\ upload'[o].previous \in {upload[o].previous, TagOf(file[plan[o].to])}

\* Recording the restored ETag has this effect.
LEMMA RemarkEffect ==
  ASSUME Bookkeeping, NEW o \in Ops, Remark(o), UNCHANGED probe
  PROVE  RemarkDoes(o)
  <1> USE DEF RemarkDoes
  <1>0. TypeOK
    BY DEF Bookkeeping
  <1>1. Foreground(o)
    <2>1. Alone(o) /\ Only(run, run', o)
      BY <1>0, SMT DEF Alone, Only, TypeOK, StoreTyped, RecordsTyped, LocationsTyped,
         ProcessTyped, HistoryTyped, Remark, At, Goto, Leave, Register, store
    <2>2. Counted
      BY <1>0, Calls, Reads, SMT DEF Counted, TypeOK, HistoryTyped, ProcessTyped,
         Remark, At, Goto, Leave, Register, store
    <2>3. UNCHANGED <<probe, job, phase, refused>>
      BY DEF Remark, At, Goto, Leave, Register, store
    <2> QED
      BY <2>1, <2>2, <2>3 DEF Foreground
  <1>2. run[o] = "remark"
    BY DEF Remark, At, Goto, Leave, Register, store
  <1>3. upload[o] \in Transactions
    BY <1>0, <1>2 DEF Bookkeeping, Held, HeldOf, Committing, TypeOK, RecordsTyped
  <1>4. UNCHANGED <<file, staged, backup, session, intent, parts, move, plan, known, effect,
                    stale>>
    BY DEF Remark, At, Goto, Leave, Register, store
  <1>5. Adds("upload", o)
    BY <1>0, OpsAssumption, ConstantsAssumption, TransactionFields, Tags, <1>3,
       SMT DEF Leaves, Stays, Adds, Drops, Unfiled, Writes, TypeOK, StoreTyped,
       RecordsTyped, LocationsTyped, ProcessTyped, HistoryTyped, Remark, At, Goto,
       Leave, Register, store, Call, Read
  <1>6. (run'[o] = "clean_failed" /\ Stays(o)) \/ Leaves(o, "failed")
    BY <1>0, OpsAssumption, ConstantsAssumption, TransactionFields, Tags, <1>3,
       SMT DEF Leaves, Stays, Adds, Drops, Unfiled, Writes, TypeOK, StoreTyped,
       RecordsTyped, LocationsTyped, ProcessTyped, HistoryTyped, Remark, At, Goto,
       Leave, Register, store, Call, Read
  <1>7. /\ upload'[o] \in Transactions /\ upload'[o].staged = upload[o].staged
        /\ upload'[o].previous \in {upload[o].previous, TagOf(file[plan[o].to])}
    <2>0. file[plan[o].to] \in Objects \cup {None}
      BY <1>0, <1>2, RequestFields DEF Bookkeeping, Plans, PlanOf, Committing, TypeOK,
         StoreTyped, ProcessTyped
    <2>1. PICK x \in BOOLEAN :
            upload' = [upload EXCEPT ![o].previous = IF x THEN TagOf(file[plan[o].to]) ELSE @]
      BY DEF Remark
    <2> DEFINE e == IF x THEN TagOf(file[plan[o].to]) ELSE upload[o].previous
    <2>2. upload'[o] = [upload[o] EXCEPT !.previous = e]
      BY <1>0, <2>1, Zenon DEF TypeOK, RecordsTyped
    <2>3. /\ e \in ETags \cup {None}
          /\ e \in {upload[o].previous, TagOf(file[plan[o].to])}
      BY <1>3, <2>0, TransactionFields, Tags
    <2> HIDE DEF e
    <2> QED
      BY <1>3, <2>2, <2>3, TransactionFields
  <1> QED
    BY <1>1, <1>2, <1>4, <1>5, <1>6, <1>7

CleanDoes(o) ==
    /\ Foreground(o)
    /\ UNCHANGED <<file, session, parts, move, plan, known, effect, stale>>
    /\ run[o] \in {"clean_committed", "clean_failed"}
    /\ \/ run'[o] = run[o] /\ Stays(o)
       \/ run[o] = "clean_committed" /\ Leaves(o, "committed")
       \/ run[o] = "clean_failed" /\ Leaves(o, "failed")
    /\ Discards(o)

\* Discarding what an upload held has this effect.
LEMMA CleanEffect ==
  ASSUME Bookkeeping, NEW o \in Ops, Clean(o), UNCHANGED probe
  PROVE  CleanDoes(o)
  <1> USE DEF CleanDoes
  <1>0. TypeOK
    BY DEF Bookkeeping
  <1>1. Foreground(o)
    <2>1. Alone(o) /\ Only(run, run', o)
      BY <1>0, SMT DEF Alone, Only, TypeOK, StoreTyped, RecordsTyped, LocationsTyped,
         ProcessTyped, HistoryTyped, Clean, At, Goto, Leave, Settle, Discard, Guarded
    <2>2. Counted
      BY <1>0, Calls, Reads, SMT DEF Counted, TypeOK, HistoryTyped, ProcessTyped,
         Clean, At, Goto, Leave, Settle, Discard, Guarded
    <2>3. UNCHANGED <<probe, job, phase, refused>>
      BY DEF Clean, At, Goto, Leave, Settle, Discard, Guarded
    <2> QED
      BY <2>1, <2>2, <2>3 DEF Foreground
  <1>2. run[o] \in {"clean_committed", "clean_failed"}
    BY DEF Clean, At, Goto, Leave, Settle, Discard, Guarded
  <1>3. UNCHANGED <<file, session, parts, move, plan, known, effect, stale>>
    BY DEF Clean, At, Goto, Leave, Settle, Discard, Guarded
  <1>4. \/ run'[o] = run[o] /\ Stays(o)
        \/ run[o] = "clean_committed" /\ Leaves(o, "committed")
        \/ run[o] = "clean_failed" /\ Leaves(o, "failed")
    BY <1>0, OpsAssumption, ConstantsAssumption, SMT DEF Leaves, Stays, Adds, Drops,
       Unfiled, Writes, TypeOK, StoreTyped, RecordsTyped, LocationsTyped,
       ProcessTyped, HistoryTyped, Clean, At, Goto, Leave, Settle, Discard, Guarded,
       Call, Read
  <1>5. Discards(o)
    <2>1. PICK x \in BOOLEAN, ok \in BOOLEAN : Discard(o, x, ok) /\ (x \/ ~ ok)
      BY DEF Clean, Call
    <2> QED
      BY <1>0, <2>1, Discarding
  <1> QED
    BY <1>1, <1>2, <1>3, <1>4, <1>5

CopyFileDoes(o) ==
    /\ Foreground(o)
    /\ UNCHANGED <<staged, backup, session, intent, parts, upload, move, pending, plan>>
    /\ run[o] = "copy"
    /\ \/ /\ Unfiled /\ Leaves(o, "failed") /\ known'[o] = known[o]
          /\ effect'[o] = effect[o]
       \/ /\ file[plan[o].from] # None /\ file[plan[o].to] = None /\ Stays(o)
          /\ run'[o] \in {"copied", "unsure"}
          /\ \/ Unfiled /\ run'[o] = "unsure" /\ effect'[o] = effect[o]
             \/ /\ effect'[o] = "yes"
                /\ \E keep \in BOOLEAN :
                     Writes(o, plan[o].to, Copied(file[plan[o].from], keep))
    /\ known'[o] \in ETags \cup {None}

\* The copy of a file has this effect.
LEMMA CopyFileEffect ==
  ASSUME Bookkeeping, NEW o \in Ops, CopyFile(o), UNCHANGED probe
  PROVE  CopyFileDoes(o)
  <1> USE DEF CopyFileDoes
  <1>0. TypeOK
    BY DEF Bookkeeping
  <1>1. Foreground(o)
    <2>1. Alone(o) /\ Only(run, run', o)
      BY <1>0, SMT DEF Alone, Only, TypeOK, StoreTyped, RecordsTyped, LocationsTyped,
         ProcessTyped, HistoryTyped, CopyFile, At, Goto, Leave, Touch, records
    <2>2. Counted
      BY <1>0, Calls, Reads, SMT DEF Counted, TypeOK, HistoryTyped, ProcessTyped,
         CopyFile, At, Goto, Leave, Touch, records
    <2>3. UNCHANGED <<probe, job, phase, refused>>
      BY DEF CopyFile, At, Goto, Leave, Touch, records
    <2> QED
      BY <2>1, <2>2, <2>3 DEF Foreground
  <1>2. run[o] = "copy"
    BY DEF CopyFile, At, Goto, Leave, Touch, records
  <1>3. UNCHANGED <<staged, backup, session, intent, parts, upload, move, pending, plan>>
    BY DEF CopyFile, At, Goto, Leave, Touch, records
  <1>4. \/ /\ Unfiled /\ Leaves(o, "failed") /\ known'[o] = known[o]
           /\ effect'[o] = effect[o]
        \/ /\ file[plan[o].from] # None /\ file[plan[o].to] = None /\ Stays(o)
           /\ run'[o] \in {"copied", "unsure"}
           /\ \/ Unfiled /\ run'[o] = "unsure" /\ effect'[o] = effect[o]
              \/ /\ effect'[o] = "yes"
                 /\ \E keep \in BOOLEAN :
                      Writes(o, plan[o].to, Copied(file[plan[o].from], keep))
    <2>1. CASE /\ Leave(o, "failed")
               /\ UNCHANGED <<file, effect, stale, known>>
      BY <1>0, <2>1 DEF Unfiled, Leaves, Leave, Goto, TypeOK, LocationsTyped,
         HistoryTyped
    <2>2. ASSUME file[plan[o].from] # None, file[plan[o].to] = None,
                 NEW x \in BOOLEAN, NEW ok \in BOOLEAN, NEW keep \in Keeps, x \/ ~ ok,
                 IF x THEN /\ file' = [file EXCEPT ![plan[o].to] = Copied(file[plan[o].from], keep)]
                           /\ effect' = [effect EXCEPT ![o] = "yes"]
                           /\ Touch(o, plan[o].to)
                      ELSE UNCHANGED <<file, effect, stale>>,
                 NEW sure \in Accepted(x, ok, keep),
                 Goto(o, IF sure THEN "copied" ELSE "unsure"), UNCHANGED <<gate, answer>>
          PROVE  /\ Stays(o) /\ run'[o] \in {"copied", "unsure"}
                 /\ \/ Unfiled /\ run'[o] = "unsure" /\ effect'[o] = effect[o]
                    \/ /\ effect'[o] = "yes"
                       /\ \E k \in BOOLEAN :
                            Writes(o, plan[o].to, Copied(file[plan[o].from], k))
      <3>1. run'[o] = IF sure THEN "copied" ELSE "unsure"
        BY <1>0, <2>2 DEF Goto, TypeOK, LocationsTyped
      <3>2. Stays(o)
        BY <2>2 DEF Stays
      <3>3. CASE x
        <4>1. keep \in BOOLEAN
          BY ConstantsAssumption
        <4>2. effect'[o] = "yes"
          BY <1>0, <2>2, <3>3 DEF TypeOK, HistoryTyped
        <4>3. Writes(o, plan[o].to, Copied(file[plan[o].from], keep))
          BY <2>2, <3>3 DEF Writes
        <4> QED
          BY <3>1, <3>2, <4>1, <4>2, <4>3
      <3>4. CASE ~ x
        <4>1. sure = FALSE
          BY <2>2, <3>4 DEF Accepted
        <4> QED
          BY <2>2, <3>1, <3>2, <3>4, <4>1 DEF Unfiled
      <3> QED
        BY <3>3, <3>4
    <2> QED
      BY <2>1, <2>2 DEF CopyFile, Call
  <1>5. known'[o] \in ETags \cup {None}
    <2>1. CASE UNCHANGED known
      BY <1>0, <2>1 DEF TypeOK, ProcessTyped
    <2>2. CASE ~ UNCHANGED known
      <3>1. file[plan[o].from] # None /\ file[plan[o].from] \in Objects \cup {None}
        BY <1>0, <1>2, <2>2, RequestFields
        DEF CopyFile, Bookkeeping, Plans, PlanOf, Copying, TypeOK, StoreTyped,
           ProcessTyped
      <3>2. PICK keep \in Keeps : known' = [known EXCEPT ![o] = ETag(Copied(file[plan[o].from], keep))]
        BY <2>2 DEF CopyFile
      <3> QED
        BY <1>0, <3>1, <3>2, Copies, ObjectTags, ConstantsAssumption DEF TypeOK,
           ProcessTyped
    <2> QED
      BY <2>1, <2>2
  <1> QED
    BY <1>1, <1>2, <1>3, <1>4, <1>5

ConfirmCopyDoes(o) ==
    /\ Foreground(o)
    /\ UNCHANGED <<file, staged, backup, session, intent, parts, upload, move, pending, plan,
                   known, effect, stale>>
    /\ run[o] \in {"copied", "unsure"}
    /\ Leaves(o, "unknown") \/ (run[o] = "copied" /\ Leaves(o, "committed"))

\* The answer of a copy has this effect.
LEMMA ConfirmCopyEffect ==
  ASSUME Bookkeeping, NEW o \in Ops, ConfirmCopy(o), UNCHANGED probe
  PROVE  ConfirmCopyDoes(o)
  <1> USE DEF ConfirmCopyDoes
  <1>0. TypeOK
    BY DEF Bookkeeping
  <1>1. Foreground(o)
    <2>1. Alone(o) /\ Only(run, run', o)
      BY <1>0, SMT DEF Alone, Only, TypeOK, StoreTyped, RecordsTyped, LocationsTyped,
         ProcessTyped, HistoryTyped, ConfirmCopy, At, Goto, Leave, store, records
    <2>2. Counted
      BY <1>0, Calls, Reads, SMT DEF Counted, TypeOK, HistoryTyped, ProcessTyped,
         ConfirmCopy, At, Goto, Leave, store, records
    <2>3. UNCHANGED <<probe, job, phase, refused>>
      BY DEF ConfirmCopy, At, Goto, Leave, store, records
    <2> QED
      BY <2>1, <2>2, <2>3 DEF Foreground
  <1>2. run[o] \in {"copied", "unsure"}
    BY DEF ConfirmCopy, At, Goto, Leave, store, records
  <1>3. UNCHANGED <<file, staged, backup, session, intent, parts, upload, move, pending, plan,
                    known, effect, stale>>
    BY DEF ConfirmCopy, At, Goto, Leave, store, records
  <1>4. Leaves(o, "unknown") \/ (run[o] = "copied" /\ Leaves(o, "committed"))
    BY <1>0, OpsAssumption, ConstantsAssumption, SMT DEF Leaves, Stays, Adds, Drops,
       Unfiled, Writes, TypeOK, StoreTyped, RecordsTyped, LocationsTyped,
       ProcessTyped, HistoryTyped, ConfirmCopy, At, Goto, Leave, store, records, Call,
       Read
  <1> QED
    BY <1>1, <1>2, <1>3, <1>4

DeleteFileDoes(o) ==
    /\ Foreground(o)
    /\ UNCHANGED <<staged, backup, session, intent, parts, upload, move, pending, plan>>
    /\ run[o] = "delete"
    /\ \/ /\ Unfiled /\ Leaves(o, "failed") /\ known'[o] = known[o]
          /\ effect'[o] = effect[o]
       \/ /\ file[plan[o].from] # None /\ Stays(o) /\ run'[o] = "deleted"
          /\ \/ Unfiled /\ effect'[o] = effect[o]
             \/ effect'[o] = "yes" /\ Writes(o, plan[o].from, None)
    /\ known'[o] \in ETags \cup {None}

\* The deletion of a file has this effect.
LEMMA DeleteFileEffect ==
  ASSUME Bookkeeping, NEW o \in Ops, DeleteFile(o), UNCHANGED probe
  PROVE  DeleteFileDoes(o)
  <1> USE DEF DeleteFileDoes
  <1>0. TypeOK
    BY DEF Bookkeeping
  <1>1. Foreground(o)
    <2>1. Alone(o) /\ Only(run, run', o)
      BY <1>0, SMT DEF Alone, Only, TypeOK, StoreTyped, RecordsTyped, LocationsTyped,
         ProcessTyped, HistoryTyped, DeleteFile, At, Goto, Leave, Touch, records
    <2>2. Counted
      BY <1>0, Calls, Reads, SMT DEF Counted, TypeOK, HistoryTyped, ProcessTyped,
         DeleteFile, At, Goto, Leave, Touch, records
    <2>3. UNCHANGED <<probe, job, phase, refused>>
      BY DEF DeleteFile, At, Goto, Leave, Touch, records
    <2> QED
      BY <2>1, <2>2, <2>3 DEF Foreground
  <1>2. run[o] = "delete"
    BY DEF DeleteFile, At, Goto, Leave, Touch, records
  <1>3. UNCHANGED <<staged, backup, session, intent, parts, upload, move, pending, plan>>
    BY DEF DeleteFile, At, Goto, Leave, Touch, records
  <1>4. \/ /\ Unfiled /\ Leaves(o, "failed") /\ known'[o] = known[o]
           /\ effect'[o] = effect[o]
        \/ /\ file[plan[o].from] # None /\ Stays(o) /\ run'[o] = "deleted"
           /\ \/ Unfiled /\ effect'[o] = effect[o]
              \/ effect'[o] = "yes" /\ Writes(o, plan[o].from, None)
    <2>1. CASE Leave(o, "failed") /\ UNCHANGED <<file, effect, stale, known>>
      BY <1>0, <2>1 DEF Unfiled, Leaves, Leave, Goto, TypeOK, LocationsTyped,
         HistoryTyped
    <2>2. CASE /\ file[plan[o].from] # None
               /\ Goto(o, "deleted") /\ UNCHANGED <<gate, answer>>
               /\ \/ UNCHANGED <<file, effect, stale>>
                  \/ /\ file' = [file EXCEPT ![plan[o].from] = None]
                     /\ effect' = [effect EXCEPT ![o] = "yes"]
                     /\ Touch(o, plan[o].from)
      <3>1. run'[o] = "deleted" /\ Stays(o)
        BY <1>0, <2>2 DEF Goto, Stays, TypeOK, LocationsTyped
      <3>2. CASE UNCHANGED <<file, effect, stale>>
        BY <2>2, <3>1, <3>2 DEF Unfiled
      <3>3. CASE /\ file' = [file EXCEPT ![plan[o].from] = None]
                 /\ effect' = [effect EXCEPT ![o] = "yes"]
                 /\ Touch(o, plan[o].from)
        <4>1. effect'[o] = "yes"
          BY <1>0, <3>3 DEF TypeOK, HistoryTyped
        <4> QED
          BY <2>2, <3>1, <3>3, <4>1 DEF Writes
      <3> QED
        BY <2>2, <3>2, <3>3
    <2> QED
      BY <2>1, <2>2 DEF DeleteFile
  <1>5. known'[o] \in ETags \cup {None}
    <2>1. CASE UNCHANGED known
      BY <1>0, <2>1 DEF TypeOK, ProcessTyped
    <2>2. CASE ~ UNCHANGED known
      <3>1. file[plan[o].from] # None /\ file[plan[o].from] \in Objects \cup {None}
        BY <1>0, <1>2, <2>2, RequestFields
        DEF DeleteFile, Bookkeeping, Plans, PlanOf, Deleting, TypeOK, StoreTyped,
           ProcessTyped
      <3>2. known' = [known EXCEPT ![o] = ETag(file[plan[o].from])]
        BY <2>2 DEF DeleteFile
      <3> QED
        BY <1>0, <3>1, <3>2, ObjectTags DEF TypeOK, ProcessTyped
    <2> QED
      BY <2>1, <2>2
  <1> QED
    BY <1>1, <1>2, <1>3, <1>4, <1>5

ConfirmDeleteDoes(o) ==
    /\ Foreground(o)
    /\ UNCHANGED <<file, staged, backup, session, intent, parts, upload, move, pending, plan,
                   known, effect, stale>>
    /\ run[o] = "deleted"
    /\ \/ Leaves(o, "unknown")
       \/ file[plan[o].from] = None /\ Leaves(o, "committed")
       \/ file[plan[o].from] # None /\ Leaves(o, "failed")

\* The answer of a deletion has this effect.
LEMMA ConfirmDeleteEffect ==
  ASSUME Bookkeeping, NEW o \in Ops, ConfirmDelete(o), UNCHANGED probe
  PROVE  ConfirmDeleteDoes(o)
  <1> USE DEF ConfirmDeleteDoes
  <1>0. TypeOK
    BY DEF Bookkeeping
  <1>1. Foreground(o)
    <2>1. Alone(o) /\ Only(run, run', o)
      BY <1>0, SMT DEF Alone, Only, TypeOK, StoreTyped, RecordsTyped, LocationsTyped,
         ProcessTyped, HistoryTyped, ConfirmDelete, At, Goto, Leave, store, records
    <2>2. Counted
      BY <1>0, Calls, Reads, SMT DEF Counted, TypeOK, HistoryTyped, ProcessTyped,
         ConfirmDelete, At, Goto, Leave, store, records
    <2>3. UNCHANGED <<probe, job, phase, refused>>
      BY DEF ConfirmDelete, At, Goto, Leave, store, records
    <2> QED
      BY <2>1, <2>2, <2>3 DEF Foreground
  <1>2. run[o] = "deleted"
    BY DEF ConfirmDelete, At, Goto, Leave, store, records
  <1>3. UNCHANGED <<file, staged, backup, session, intent, parts, upload, move, pending, plan,
                    known, effect, stale>>
    BY DEF ConfirmDelete, At, Goto, Leave, store, records
  <1>4. \/ Leaves(o, "unknown")
        \/ file[plan[o].from] = None /\ Leaves(o, "committed")
        \/ file[plan[o].from] # None /\ Leaves(o, "failed")
    BY <1>0, OpsAssumption, ConstantsAssumption, SMT DEF Leaves, Stays, Adds, Drops,
       Unfiled, Writes, TypeOK, StoreTyped, RecordsTyped, LocationsTyped,
       ProcessTyped, HistoryTyped, ConfirmDelete, At, Goto, Leave, store, records,
       Call, Read
  <1> QED
    BY <1>1, <1>2, <1>3, <1>4

BeginMoveDoes(o) ==
    /\ Foreground(o)
    /\ UNCHANGED <<file, staged, backup, session, intent, parts, upload, plan, known, effect,
                   stale>>
    /\ run[o] = "move"
    /\ \/ Leaves(o, "failed") /\ move'[o] = move[o] /\ pending' = pending
       \/ /\ file[plan[o].from] # None /\ file[plan[o].to] = None /\ Adds("move", o)
          /\ \/ move'[o] = None /\ Leaves(o, "unknown")
             \/ /\ (run'[o] = "mv_copy" /\ Stays(o)) \/ Leaves(o, "unknown")
                /\ move'[o] \in Moves /\ move'[o].stage = "prepared"
                /\ move'[o].src = ETag(file[plan[o].from])

\* Writing the journal of a move has this effect.
LEMMA BeginMoveEffect ==
  ASSUME Bookkeeping, NEW o \in Ops, BeginMove(o), UNCHANGED probe
  PROVE  BeginMoveDoes(o)
  <1> USE DEF BeginMoveDoes
  <1>0. TypeOK
    BY DEF Bookkeeping
  <1>1. Foreground(o)
    <2>1. Alone(o) /\ Only(run, run', o)
      BY <1>0, SMT DEF Alone, Only, TypeOK, StoreTyped, RecordsTyped, LocationsTyped,
         ProcessTyped, HistoryTyped, BeginMove, At, Goto, Leave, Register, store
    <2>2. Counted
      BY <1>0, Calls, Reads, SMT DEF Counted, TypeOK, HistoryTyped, ProcessTyped,
         BeginMove, At, Goto, Leave, Register, store
    <2>3. UNCHANGED <<probe, job, phase, refused>>
      BY DEF BeginMove, At, Goto, Leave, Register, store
    <2> QED
      BY <2>1, <2>2, <2>3 DEF Foreground
  <1>2. run[o] = "move"
    BY DEF BeginMove, At, Goto, Leave, Register, store
  <1>3. UNCHANGED <<file, staged, backup, session, intent, parts, upload, plan, known, effect,
                    stale>>
    BY DEF BeginMove, At, Goto, Leave, Register, store
  <1>4. \/ Leaves(o, "failed") /\ move'[o] = move[o] /\ pending' = pending
        \/ /\ file[plan[o].from] # None /\ file[plan[o].to] = None /\ Adds("move", o)
           /\ \/ move'[o] = None /\ Leaves(o, "unknown")
              \/ /\ (run'[o] = "mv_copy" /\ Stays(o)) \/ Leaves(o, "unknown")
                 /\ move'[o] \in Moves /\ move'[o].stage = "prepared"
                 /\ move'[o].src = ETag(file[plan[o].from])
    <2>1. CASE Leave(o, "failed") /\ UNCHANGED <<move, pending>>
      BY <1>0, <2>1 DEF Leaves, Leave, Goto, TypeOK, LocationsTyped, HistoryTyped
    <2> DEFINE m == [stage |-> "prepared", src |-> ETag(file[plan[o].from]), dst |-> None]
    <2>2. ASSUME file[plan[o].from] # None, file[plan[o].to] = None, Register("move", o),
                 NEW x \in BOOLEAN, NEW ok \in BOOLEAN, x \/ ~ ok,
                 move' = [move EXCEPT ![o] = IF x THEN m ELSE None],
                 IF ok THEN Goto(o, "mv_copy") /\ UNCHANGED <<gate, answer>>
                       ELSE Leave(o, "unknown")
          PROVE  /\ Adds("move", o)
                 /\ \/ move'[o] = None /\ Leaves(o, "unknown")
                    \/ /\ (run'[o] = "mv_copy" /\ Stays(o)) \/ Leaves(o, "unknown")
                       /\ move'[o] \in Moves /\ move'[o].stage = "prepared"
                       /\ move'[o].src = ETag(file[plan[o].from])
      <3>1. file[plan[o].from] \in Objects
        BY <1>0, <1>2, <2>2, RequestFields
        DEF Bookkeeping, Plans, PlanOf, TypeOK, StoreTyped, ProcessTyped
      <3>2. m \in Moves /\ m.stage = "prepared" /\ m.src = ETag(file[plan[o].from])
        BY <3>1, ObjectTags, NewMove
      <3> HIDE DEF m
      <3>3. move'[o] = IF x THEN m ELSE None
        BY <1>0, <2>2 DEF TypeOK, RecordsTyped
      <3>4. Adds("move", o)
        BY <2>2 DEF Register, Adds
      <3>5. CASE ok
        BY <1>0, <2>2, <3>2, <3>3, <3>4, <3>5 DEF Goto, Stays, TypeOK, LocationsTyped
      <3>6. CASE ~ ok
        <4>1. Leaves(o, "unknown")
          BY <1>0, <2>2, <3>6 DEF Leave, Leaves, Goto, TypeOK, LocationsTyped,
             HistoryTyped
        <4> QED
          BY <3>2, <3>3, <3>4, <4>1
      <3> QED
        BY <3>5, <3>6
    <2> QED
      BY <2>1, <2>2 DEF BeginMove, Call
  <1> QED
    BY <1>1, <1>2, <1>3, <1>4

StartDoes(o) ==
    /\ Foreground(o)
    /\ UNCHANGED <<file, staged, backup, session, intent, parts, upload, move, pending, gate,
                   answer, effect, stale>>
    /\ run[o] = "idle" /\ phase = "up"
    /\ /\ plan'[o] \in Requests
       /\ IF plan'[o].mode \in Uploads THEN run[Rec] = "idle" /\ run'[o] = "intent"
                                        ELSE run'[o] = "lock"
       /\ plan'[o].mode \in {"copy", "move"} => plan'[o].from # plan'[o].to
    /\ known'[o] \in ETags \cup {None}
    /\ plan'[o].mode = "cond" => Names(known'[o], plan'[o].expects)

\* The start of an operation has this effect.
LEMMA StartEffect ==
  ASSUME Bookkeeping, NEW o \in Ops, Start(o), UNCHANGED probe
  PROVE  StartDoes(o)
  <1> USE DEF StartDoes
  <1>0. TypeOK
    BY DEF Bookkeeping
  <1>1. Foreground(o)
    <2>1. Alone(o) /\ Only(run, run', o)
      BY <1>0, SMT DEF Alone, Only, TypeOK, StoreTyped, RecordsTyped, LocationsTyped,
         ProcessTyped, HistoryTyped, Start, At, Goto, store, records, ghosts, limits
    <2>2. Counted
      BY <1>0, Calls, Reads, SMT DEF Counted, TypeOK, HistoryTyped, ProcessTyped,
         Start, At, Goto, store, records, ghosts, limits
    <2>3. UNCHANGED <<probe, job, phase, refused>>
      BY DEF Start, At, Goto, store, records, ghosts, limits
    <2> QED
      BY <2>1, <2>2, <2>3 DEF Foreground
  <1>2. run[o] = "idle" /\ phase = "up"
    BY DEF Start, At, Goto, store, records, ghosts, limits
  <1>3. UNCHANGED <<file, staged, backup, session, intent, parts, upload, move, pending, gate,
                    answer, effect, stale>>
    BY DEF Start, At, Goto, store, records, ghosts, limits
  <1>4. /\ plan'[o] \in Requests
        /\ IF plan'[o].mode \in Uploads THEN run[Rec] = "idle" /\ run'[o] = "intent"
                                         ELSE run'[o] = "lock"
        /\ plan'[o].mode \in {"copy", "move"} => plan'[o].from # plan'[o].to
    <2>1. PICK m \in Asked[o], p \in Files, q \in Files :
            /\ m \in Uploads => p = q /\ At(Rec, "idle")
            /\ m \in {"copy", "move"} => p # q
            /\ plan' = [plan EXCEPT ![o] =
                 [mode |-> m, from |-> p, to |-> q,
                  expects |-> IF m = "cond" /\ file[q] # None THEN file[q].by ELSE None]]
            /\ Goto(o, IF m \in Uploads THEN "intent" ELSE "lock")
      BY DEF Start
    <2> DEFINE e == IF m = "cond" /\ file[q] # None THEN file[q].by ELSE None
               r == [mode |-> m, from |-> p, to |-> q, expects |-> e]
    <2>2. m \in Modes
      BY ConstantsAssumption
    <2>3. e \in Bodies \cup {None}
      BY <1>0, ObjectTags DEF TypeOK, StoreTyped
    <2>4. r \in Requests /\ r.mode = m /\ r.from = p /\ r.to = q
      <3> HIDE DEF e
      <3> QED
        BY <2>2, <2>3, NewRequest
    <2>5. plan'[o] = r
      BY <1>0, <2>1 DEF TypeOK, ProcessTyped
    <2>6. run'[o] = IF m \in Uploads THEN "intent" ELSE "lock"
      BY <1>0, <2>1 DEF Goto, TypeOK, LocationsTyped
    <2> HIDE DEF r
    <2> QED
      BY <2>1, <2>4, <2>5, <2>6 DEF At
  <1>5. known'[o] \in ETags \cup {None}
    <2>1. PICK q \in Files : known' = [known EXCEPT ![o] = TagOf(file[q])]
      BY DEF Start
    <2> QED
      BY <1>0, <2>1, Tags DEF TypeOK, StoreTyped, ProcessTyped
  <1>6. plan'[o].mode = "cond" => Names(known'[o], plan'[o].expects)
    <2>1. PICK m \in Asked[o], p \in Files, q \in Files :
            /\ plan' = [plan EXCEPT ![o] =
                 [mode |-> m, from |-> p, to |-> q,
                  expects |-> IF m = "cond" /\ file[q] # None THEN file[q].by ELSE None]]
            /\ known' = [known EXCEPT ![o] = TagOf(file[q])]
      BY DEF Start
    <2>2. m \in Modes /\ file[q] \in Objects \cup {None}
      BY <1>0, ConstantsAssumption DEF TypeOK, StoreTyped
    <2>3. known'[o] = TagOf(file[q])
      BY <1>0, <2>1 DEF TypeOK, ProcessTyped
    <2>4. CASE file[q] = None
      <3>1. plan'[o].expects = None
        BY <1>0, <2>1, <2>4 DEF TypeOK, ProcessTyped
      <3> QED
        BY <2>3, <2>4, <3>1 DEF Names, TagOf
    <2>5. CASE file[q] # None
      <3>1. plan'[o].mode = "cond" => plan'[o].expects = file[q].by
        BY <1>0, <2>1, <2>5 DEF TypeOK, ProcessTyped
      <3>2. TagOf(file[q]) = ETag(file[q]) /\ ETag(file[q])[1] = file[q].by /\ ETag(file[q]) # None
        BY <2>2, <2>5, ObjectTags
      <3> QED
        BY <2>3, <3>1, <3>2 DEF Names
    <2> QED
      BY <2>4, <2>5
  <1> QED
    BY <1>1, <1>2, <1>3, <1>4, <1>5, <1>6

LockDoes(o) ==
    /\ Foreground(o)
    /\ UNCHANGED <<file, staged, backup, session, intent, parts, upload, move, pending, plan,
                   known, answer, effect, stale>>
    /\ run[o] = "lock"
    /\ gate = None /\ gate' = o
    /\ run'[o] = IF plan[o].mode \in Uploads THEN "check" ELSE plan[o].mode

\* Entering the mutation gate has this effect.
LEMMA LockEffect ==
  ASSUME Bookkeeping, NEW o \in Ops, Lock(o), UNCHANGED probe
  PROVE  LockDoes(o)
  <1> USE DEF LockDoes
  <1>0. TypeOK
    BY DEF Bookkeeping
  <1>1. Foreground(o)
    <2>1. Alone(o) /\ Only(run, run', o)
      BY <1>0, SMT DEF Alone, Only, TypeOK, StoreTyped, RecordsTyped, LocationsTyped,
         ProcessTyped, HistoryTyped, Lock, At, Goto, store, records, ghosts, limits
    <2>2. Counted
      BY <1>0, Calls, Reads, SMT DEF Counted, TypeOK, HistoryTyped, ProcessTyped,
         Lock, At, Goto, store, records, ghosts, limits
    <2>3. UNCHANGED <<probe, job, phase, refused>>
      BY DEF Lock, At, Goto, store, records, ghosts, limits
    <2> QED
      BY <2>1, <2>2, <2>3 DEF Foreground
  <1>2. run[o] = "lock"
    BY DEF Lock, At, Goto, store, records, ghosts, limits
  <1>3. UNCHANGED <<file, staged, backup, session, intent, parts, upload, move, pending, plan,
                    known, answer, effect, stale>>
    BY DEF Lock, At, Goto, store, records, ghosts, limits
  <1>4. gate = None /\ gate' = o
    BY <1>0, OpsAssumption, ConstantsAssumption, SMT DEF Leaves, Stays, Adds, Drops,
       Unfiled, Writes, TypeOK, StoreTyped, RecordsTyped, LocationsTyped,
       ProcessTyped, HistoryTyped, Lock, At, Goto, store, records, ghosts, limits,
       Call, Read
  <1>5. run'[o] = IF plan[o].mode \in Uploads THEN "check" ELSE plan[o].mode
    BY <1>0, OpsAssumption, ConstantsAssumption, SMT DEF Leaves, Stays, Adds, Drops,
       Unfiled, Writes, TypeOK, StoreTyped, RecordsTyped, LocationsTyped,
       ProcessTyped, HistoryTyped, Lock, At, Goto, store, records, ghosts, limits,
       Call, Read
  <1> QED
    BY <1>1, <1>2, <1>3, <1>4, <1>5

InterruptDoes(o) ==
    /\ Foreground(o)
    /\ UNCHANGED <<file, backup, intent, parts, upload, move, pending, plan, known, effect,
                   stale>>
    /\ run[o] \in {"stage", "transfer", "inspect", "lock"} /\ plan[o].mode \in Uploads
    /\ staged'[o] \in {staged[o], Object(o, o)}
    /\ Leaves(o, "failed")

\* An interrupted upload has this effect.
LEMMA InterruptEffect ==
  ASSUME Bookkeeping, NEW o \in Ops, Interrupt(o), UNCHANGED probe
  PROVE  InterruptDoes(o)
  <1> USE DEF InterruptDoes
  <1>0. TypeOK
    BY DEF Bookkeeping
  <1>1. Foreground(o)
    <2>1. Alone(o) /\ Only(run, run', o)
      BY <1>0, SMT DEF Alone, Only, TypeOK, StoreTyped, RecordsTyped, LocationsTyped,
         ProcessTyped, HistoryTyped, Interrupt, At, Goto, Leave, records, limits
    <2>2. Counted
      BY <1>0, Calls, Reads, SMT DEF Counted, TypeOK, HistoryTyped, ProcessTyped,
         Interrupt, At, Goto, Leave, records, limits
    <2>3. UNCHANGED <<probe, job, phase, refused>>
      BY DEF Interrupt, At, Goto, Leave, records, limits
    <2> QED
      BY <2>1, <2>2, <2>3 DEF Foreground
  <1>2. run[o] \in {"stage", "transfer", "inspect", "lock"} /\ plan[o].mode \in Uploads
    BY DEF Interrupt, At, Goto, Leave, records, limits
  <1>3. UNCHANGED <<file, backup, intent, parts, upload, move, pending, plan, known, effect,
                    stale>>
    BY DEF Interrupt, At, Goto, Leave, records, limits
  <1>4. staged'[o] \in {staged[o], Object(o, o)}
    BY <1>0, OpsAssumption, ConstantsAssumption, SMT DEF Leaves, Stays, Adds, Drops,
       Unfiled, Writes, TypeOK, StoreTyped, RecordsTyped, LocationsTyped,
       ProcessTyped, HistoryTyped, Interrupt, At, Goto, Leave, records, limits, Call,
       Read
  <1>5. Leaves(o, "failed")
    BY <1>0, OpsAssumption, ConstantsAssumption, SMT DEF Leaves, Stays, Adds, Drops,
       Unfiled, Writes, TypeOK, StoreTyped, RecordsTyped, LocationsTyped,
       ProcessTyped, HistoryTyped, Interrupt, At, Goto, Leave, records, limits, Call,
       Read
  <1> QED
    BY <1>1, <1>2, <1>3, <1>4, <1>5

\* What recovery does: it goes on with its journal, or settles it, or gives it up.
Goes(a, pc) == run'[a] = pc /\ UNCHANGED <<gate, answer, job, phase>>
Ended == /\ job' = None /\ gate' = (IF gate = Rec THEN None ELSE gate)
         /\ IF phase = "up" THEN run'[Rec] \in {"wait", "idle"} /\ phase' = "up"
                            ELSE run'[Rec] = "idle" /\ phase' \in {phase, "down"}
         /\ UNCHANGED answer
Halts(a, o) == IF a = Rec THEN Ended ELSE Leaves(o, "unknown") /\ UNCHANGED <<job, phase>>
Refuses(a) == refused' = IF a = Rec THEN job ELSE refused
Carries(a, o) == /\ Alone(o) /\ Only(run, run', a) /\ Counted /\ UNCHANGED probe

\* The three ways to end a step of a move, and those to end one of recovery.
LEMMA Endings ==
  ASSUME Bookkeeping, NEW o \in Ops, NEW a \in {Rec, o}
  PROVE  /\ Stop(a, o) => /\ Halts(a, o) /\ UNCHANGED refused
                          /\ Only(run, run', a) /\ Only(answer, answer', o)
         /\ Refuse(a, o) => /\ Halts(a, o) /\ Refuses(a)
                            /\ Only(run, run', a) /\ Only(answer, answer', o)
         /\ \A pc : Proceed(a, pc) => /\ Goes(a, pc) /\ UNCHANGED refused
                                      /\ Only(run, run', a) /\ Only(answer, answer', o)
         /\ GiveUp /\ UNCHANGED answer => Ended /\ Only(run, run', Rec)
         /\ Done /\ UNCHANGED answer => Ended /\ Only(run, run', Rec)
  <1>0. TypeOK
    BY DEF Bookkeeping
  <1>1. \A b \in Ops \cup {Rec} : \A pc : Goto(b, pc) => run'[b] = pc /\ Only(run, run', b)
    BY <1>0 DEF Goto, Only, TypeOK, LocationsTyped
  <1>2. \A r : Leave(o, r) => /\ Leaves(o, r) /\ Only(run, run', o) /\ Only(answer, answer', o)
    BY <1>0, <1>1 DEF Leave, Leaves, Only, TypeOK, HistoryTyped
  <1>3. UNCHANGED answer => Only(answer, answer', o)
    BY DEF Only
  <1>4. phase \in {"up", "starting", "down"}
    BY <1>0 DEF TypeOK, ProcessTyped
  <1>5. GiveUp /\ UNCHANGED answer => Ended /\ Only(run, run', Rec)
    BY <1>1, <1>4 DEF GiveUp, Release, Ended
  <1>6. Done /\ UNCHANGED answer => Ended /\ Only(run, run', Rec)
    BY <1>1, <1>4 DEF Done, Release, Ended
  <1>7. a = Rec \/ (a = o /\ a # Rec)
    BY OpsAssumption
  <1>8. Stop(a, o) => Halts(a, o) /\ UNCHANGED refused /\ Only(run, run', a) /\ Only(answer, answer', o)
    BY <1>2, <1>3, <1>5, <1>7 DEF Stop, Halts
  <1>9. Refuse(a, o) => Halts(a, o) /\ Refuses(a) /\ Only(run, run', a) /\ Only(answer, answer', o)
    BY <1>2, <1>3, <1>5, <1>7 DEF Refuse, Halts, Refuses
  <1>10. \A pc : Proceed(a, pc) => /\ Goes(a, pc) /\ UNCHANGED refused
                                   /\ Only(run, run', a) /\ Only(answer, answer', o)
    BY <1>1, <1>3 DEF Proceed, Goes
  <1> QED
    BY <1>5, <1>6, <1>8, <1>9, <1>10

MoveCopyDoes(a, o) ==
    /\ Carries(a, o)
    /\ UNCHANGED <<staged, backup, session, intent, parts, upload, move, pending, plan>>
    /\ run[a] = "mv_copy"
    /\ \/ /\ Halts(a, o) /\ Unfiled /\ known'[o] = known[o] /\ effect'[o] = effect[o]
          /\ \/ UNCHANGED refused
             \/ /\ Refuses(a)
                /\ \/ ~ Matches(file[plan[o].from], move[o].src)
                   \/ /\ file[plan[o].to] # None /\ file[plan[o].to].mark # o
                      /\ ETag(file[plan[o].to]) # move[o].src
       \/ /\ Goes(a, "mv_mark") /\ Unfiled /\ UNCHANGED refused
          /\ Matches(file[plan[o].from], move[o].src) /\ file[plan[o].to] # None
          /\ ETag(file[plan[o].to]) = move[o].src \/ file[plan[o].to].mark = o
          /\ known'[o] = ETag(file[plan[o].to]) /\ effect'[o] = "half"
       \/ /\ Matches(file[plan[o].from], move[o].src) /\ file[plan[o].to] = None
          /\ UNCHANGED refused
          /\ \E keep \in BOOLEAN :
               /\ known'[o] = ETag(Copied(file[plan[o].from], keep))
               /\ \/ Goes(a, "mv_lost") /\ Unfiled /\ effect'[o] = effect[o]
                  \/ /\ Goes(a, "mv_mark") \/ Goes(a, "mv_lost")
                     /\ Writes(o, plan[o].to, Copied(file[plan[o].from], keep))
                     /\ effect'[o] = "half"

\* The copy of a move has this effect.
LEMMA MoveCopyEffect ==
  ASSUME Bookkeeping, NEW o \in Ops, NEW a \in {Rec, o}, MoveCopy(a, o), UNCHANGED probe
  PROVE  MoveCopyDoes(a, o)
  <1> USE DEF MoveCopyDoes
  <1>0. TypeOK
    BY DEF Bookkeeping
  <1>1. /\ UNCHANGED <<staged, backup, session, intent, parts, upload, move, pending, plan,
                       probe>>
        /\ UNCHANGED <<verified, crashes, foreign>> /\ run[a] = "mv_copy"
    BY DEF MoveCopy, records, At
  <1> DEFINE src == file[plan[o].from]
             dst == file[plan[o].to]
  <1>2. \/ Read(FALSE) /\ Stop(a, o) /\ UNCHANGED <<file, known, effect, stale>>
        \/ /\ \/ ~Matches(src, move[o].src)
              \/ dst # None /\ ETag(dst) # move[o].src /\ dst.mark # o
           /\ Refuse(a, o)
           /\ UNCHANGED <<file, known, effect, stale, faults>>
        \/ /\ Matches(src, move[o].src)
           /\ dst # None /\ (ETag(dst) = move[o].src \/ dst.mark = o)
           /\ known' = [known EXCEPT ![o] = ETag(dst)]
           /\ effect' = [effect EXCEPT ![o] = "half"]
           /\ Proceed(a, "mv_mark")
           /\ UNCHANGED <<file, stale, faults>>
        \/ /\ Matches(src, move[o].src) /\ dst = None
           /\ \E x, ok \in BOOLEAN, keep \in Keeps :
                /\ Call(x, ok)
                /\ IF x THEN /\ file' = [file EXCEPT ![plan[o].to] = Copied(src, keep)]
                             /\ effect' = [effect EXCEPT ![o] = "half"]
                             /\ Touch(o, plan[o].to)
                        ELSE UNCHANGED <<file, effect, stale>>
                /\ known' = [known EXCEPT ![o] = ETag(Copied(src, keep))]
                /\ \E sure \in Accepted(x, ok, keep) :
                     Proceed(a, IF sure THEN "mv_mark" ELSE "mv_lost")
    BY DEF MoveCopy
  <1> HIDE DEF src, dst
  <1> DEFINE Rest == /\ faults' \in 0 .. MaxFaults /\ Only(run, run', a)
                     /\ Only(known, known', o) /\ Only(answer, answer', o) /\ Only(effect, effect', o)
  <1>3. CASE Read(FALSE) /\ Stop(a, o) /\ UNCHANGED <<file, known, effect, stale>>
    <2>1. Rest /\ Halts(a, o) /\ UNCHANGED refused
      BY <1>0, <1>3, Reads, Endings DEF Only
    <2>3. Carries(a, o)
      BY <1>0, <1>1, <1>3, <2>1 DEF Carries, Alone, Counted, Only, TypeOK, ProcessTyped
    <2> QED
      BY <1>1, <1>3, <2>1, <2>3 DEF Unfiled
  <1>4. CASE /\ \/ ~Matches(src, move[o].src)
                \/ dst # None /\ ETag(dst) # move[o].src /\ dst.mark # o
             /\ Refuse(a, o)
             /\ UNCHANGED <<file, known, effect, stale, faults>>
    <2>1. Rest /\ Halts(a, o) /\ Refuses(a)
      BY <1>0, <1>4, Endings DEF Only, TypeOK, HistoryTyped
    <2>3. Carries(a, o)
      BY <1>0, <1>1, <1>4, <2>1 DEF Carries, Alone, Counted, Only, TypeOK, ProcessTyped
    <2> QED
      BY <1>1, <1>4, <2>1, <2>3 DEF src, dst, Unfiled
  <1>5. CASE /\ Matches(src, move[o].src)
             /\ dst # None /\ (ETag(dst) = move[o].src \/ dst.mark = o)
             /\ known' = [known EXCEPT ![o] = ETag(dst)]
             /\ effect' = [effect EXCEPT ![o] = "half"]
             /\ Proceed(a, "mv_mark")
             /\ UNCHANGED <<file, stale, faults>>
    <2>1. Rest /\ Goes(a, "mv_mark") /\ UNCHANGED refused
      BY <1>0, <1>5, Endings DEF Only, TypeOK, ProcessTyped, HistoryTyped
    <2>2. known'[o] = ETag(dst) /\ effect'[o] = "half"
      BY <1>0, <1>5 DEF TypeOK, ProcessTyped, HistoryTyped
    <2>3. Carries(a, o)
      BY <1>0, <1>1, <1>5, <2>1, <2>2 DEF Carries, Alone, Counted, Only, TypeOK,
         ProcessTyped
    <2> QED
      BY <1>1, <1>5, <2>1, <2>2, <2>3 DEF src, dst, Unfiled
  <1>6. ASSUME Matches(src, move[o].src) /\ dst = None,
               NEW x \in BOOLEAN, NEW ok \in BOOLEAN, NEW keep \in Keeps, Call(x, ok),
               IF x THEN /\ file' = [file EXCEPT ![plan[o].to] = Copied(src, keep)]
                         /\ effect' = [effect EXCEPT ![o] = "half"]
                         /\ Touch(o, plan[o].to)
                    ELSE UNCHANGED <<file, effect, stale>>,
               known' = [known EXCEPT ![o] = ETag(Copied(src, keep))],
               NEW sure \in Accepted(x, ok, keep),
               Proceed(a, IF sure THEN "mv_mark" ELSE "mv_lost")
        PROVE  /\ Carries(a, o)
               /\ UNCHANGED refused
               /\ \E k \in BOOLEAN :
                    /\ known'[o] = ETag(Copied(src, k))
                    /\ \/ Goes(a, "mv_lost") /\ Unfiled /\ effect'[o] = effect[o]
                       \/ /\ Goes(a, "mv_mark") \/ Goes(a, "mv_lost")
                          /\ Writes(o, plan[o].to, Copied(src, k))
                          /\ effect'[o] = "half"
    <2>0. keep \in BOOLEAN
      BY ConstantsAssumption
    <2>1. /\ Goes(a, IF sure THEN "mv_mark" ELSE "mv_lost") /\ UNCHANGED refused
          /\ Only(run, run', a) /\ Only(answer, answer', o)
      BY <1>6, Endings
    <2>2. known'[o] = ETag(Copied(src, keep)) /\ Only(known, known', o)
      BY <1>0, <1>6 DEF Only, TypeOK, ProcessTyped
    <2>3. Only(effect, effect', o) /\ (x => effect'[o] = "half") /\ (~ x => effect'[o] = effect[o])
      BY <1>0, <1>6 DEF Only, TypeOK, HistoryTyped
    <2>4. Carries(a, o)
      BY <1>0, <1>1, <1>6, <2>1, <2>2, <2>3, Calls
      DEF Carries, Alone, Counted, Only, TypeOK, ProcessTyped
    <2>5. CASE x
      BY <1>6, <2>0, <2>1, <2>2, <2>3, <2>4, <2>5 DEF Writes
    <2>6. CASE ~ x
      <3>1. sure = FALSE
        BY <1>6, <2>6 DEF Accepted, Call
      <3> QED
        BY <1>6, <2>0, <2>1, <2>2, <2>3, <2>4, <2>6, <3>1 DEF Unfiled
    <2> QED
      BY <2>5, <2>6
  <1> QED
    BY <1>1, <1>2, <1>3, <1>4, <1>5, <1>6 DEF src, dst

MoveLostDoes(a, o) ==
    /\ Carries(a, o)
    /\ UNCHANGED <<file, staged, backup, session, intent, parts, upload, move, pending, plan,
                   known, effect, stale, refused>>
    /\ run[a] = "mv_lost" /\ Halts(a, o)

\* A move that lost an answer has this effect.
LEMMA MoveLostEffect ==
  ASSUME Bookkeeping, NEW o \in Ops, NEW a \in {Rec, o}, MoveLost(a, o), UNCHANGED probe
  PROVE  MoveLostDoes(a, o)
  <1> USE DEF MoveLostDoes
  <1>0. TypeOK
    BY DEF Bookkeeping
  <1>1. /\ UNCHANGED <<file, staged, backup, session, intent, parts, upload, move, pending, plan,
                       known, effect, stale, verified, faults, crashes, foreign>>
        /\ run[a] = "mv_lost" /\ Stop(a, o)
    BY DEF MoveLost, store, records, limits, At
  <1>2. Halts(a, o) /\ UNCHANGED refused /\ Only(run, run', a) /\ Only(answer, answer', o)
    BY <1>1, Endings
  <1> QED
    BY <1>0, <1>1, <1>2 DEF Carries, Alone, Counted, Only, TypeOK, ProcessTyped,
       HistoryTyped

MoveMarkDoes(a, o) ==
    /\ Carries(a, o)
    /\ UNCHANGED <<file, staged, backup, session, intent, parts, upload, plan,
                   known, effect, stale, refused>>
    /\ run[a] = "mv_mark" /\ Adds("move", o)
    /\ move'[o] \in Moves /\ move'[o].src = move[o].src
    /\ \/ move'[o] = move[o] /\ Halts(a, o)
       \/ /\ move'[o].stage = "copied" /\ move'[o].dst = known[o]
          /\ Halts(a, o) \/ Goes(a, "mv_drop")

\* Recording the copy of a move has this effect.
LEMMA MoveMarkEffect ==
  ASSUME Bookkeeping, NEW o \in Ops, NEW a \in {Rec, o}, MoveMark(a, o), UNCHANGED probe,
         move[o] # None, known[o] \in ETags
  PROVE  MoveMarkDoes(a, o)
  <1> USE DEF MoveMarkDoes
  <1>0. TypeOK
    BY DEF Bookkeeping
  <1>1. /\ UNCHANGED <<file, staged, backup, session, intent, parts, upload, plan,
                       known, effect, stale, verified, crashes, foreign>>
        /\ run[a] = "mv_mark" /\ Adds("move", o)
    BY DEF MoveMark, store, At, Register, Adds
  <1> DEFINE m == [stage |-> "copied", src |-> move[o].src, dst |-> known[o]]
  <1>2. PICK x, ok \in BOOLEAN :
          /\ Call(x, ok)
          /\ move' = [move EXCEPT ![o] = IF x THEN m ELSE @]
          /\ IF ok THEN Proceed(a, "mv_drop") ELSE Stop(a, o)
    BY DEF MoveMark
  <1>3. move[o] \in Moves /\ move[o].src \in ETags
    BY <1>0, MoveFields DEF TypeOK, RecordsTyped
  <1>4. m \in Moves /\ m.stage = "copied" /\ m.src = move[o].src /\ m.dst = known[o]
    BY <1>3, NewMove
  <1> HIDE DEF m
  <1>5. move'[o] = (IF x THEN m ELSE move[o]) /\ Only(move, move', o)
    BY <1>0, <1>2 DEF Only, TypeOK, RecordsTyped
  <1>6. /\ UNCHANGED refused /\ Only(run, run', a) /\ Only(answer, answer', o)
        /\ ok => Goes(a, "mv_drop")
        /\ ~ ok => Halts(a, o)
    BY <1>2, Endings
  <1>7. Carries(a, o)
    BY <1>0, <1>1, <1>2, <1>5, <1>6, Calls DEF Carries, Alone, Counted, Only, TypeOK,
       ProcessTyped
  <1>8. x \/ ~ ok
    BY <1>2 DEF Call
  <1> QED
    BY <1>1, <1>3, <1>4, <1>5, <1>6, <1>7, <1>8

MoveDropDoes(a, o) ==
    /\ Carries(a, o)
    /\ UNCHANGED <<staged, backup, session, intent, parts, upload, move, pending, plan, known>>
    /\ run[a] = "mv_drop"
    /\ \/ /\ Halts(a, o) /\ Unfiled /\ effect'[o] = effect[o]
          /\ \/ UNCHANGED refused
             \/ /\ Refuses(a)
                /\ \/ ~ Matches(file[plan[o].to], move[o].dst)
                   \/ /\ file[plan[o].from] # None
                      /\ ~ Matches(file[plan[o].from], move[o].src)
       \/ /\ Matches(file[plan[o].to], move[o].dst) /\ file[plan[o].from] = None
          /\ Goes(a, "mv_end") /\ Unfiled /\ effect'[o] = effect[o] /\ UNCHANGED refused
       \/ /\ Matches(file[plan[o].to], move[o].dst)
          /\ Matches(file[plan[o].from], move[o].src)
          /\ UNCHANGED refused
          /\ \/ Goes(a, "mv_lost") /\ Unfiled /\ effect'[o] = effect[o]
             \/ /\ Goes(a, "mv_end") \/ Goes(a, "mv_lost")
                /\ Writes(o, plan[o].from, None) /\ effect'[o] = "yes"

\* Removing the source of a move has this effect.
LEMMA MoveDropEffect ==
  ASSUME Bookkeeping, NEW o \in Ops, NEW a \in {Rec, o}, MoveDrop(a, o), UNCHANGED probe
  PROVE  MoveDropDoes(a, o)
  <1> USE DEF MoveDropDoes
  <1>0. TypeOK
    BY DEF Bookkeeping
  <1>1. /\ UNCHANGED <<staged, backup, session, intent, parts, upload, move, pending, plan, known,
                       probe, verified, crashes, foreign>>
        /\ run[a] = "mv_drop"
    BY DEF MoveDrop, records, At
  <1> DEFINE src == file[plan[o].from]
             dst == file[plan[o].to]
  <1>2. \/ Read(FALSE) /\ Stop(a, o) /\ UNCHANGED <<file, effect, stale>>
        \/ /\ \/ ~Matches(dst, move[o].dst)
              \/ src # None /\ ~Matches(src, move[o].src)
           /\ Refuse(a, o)
           /\ UNCHANGED <<file, effect, stale, faults>>
        \/ /\ Matches(dst, move[o].dst) /\ src = None
           /\ Proceed(a, "mv_end")
           /\ UNCHANGED <<file, effect, stale, faults>>
        \/ /\ Matches(dst, move[o].dst) /\ Matches(src, move[o].src)
           /\ \E x, ok \in BOOLEAN :
                /\ Call(x, ok)
                /\ IF x THEN /\ file' = [file EXCEPT ![plan[o].from] = None]
                             /\ effect' = [effect EXCEPT ![o] = "yes"]
                             /\ Touch(o, plan[o].from)
                        ELSE UNCHANGED <<file, effect, stale>>
                /\ Proceed(a, IF ok THEN "mv_end" ELSE "mv_lost")
    BY DEF MoveDrop
  <1> HIDE DEF src, dst
  <1> DEFINE Rest == /\ faults' \in 0 .. MaxFaults /\ Only(run, run', a)
                     /\ Only(answer, answer', o) /\ Only(effect, effect', o)
  <1>3. CASE Read(FALSE) /\ Stop(a, o) /\ UNCHANGED <<file, effect, stale>>
    <2>1. Rest /\ Halts(a, o) /\ UNCHANGED refused
      BY <1>0, <1>3, Reads, Endings DEF Only
    <2>3. Carries(a, o)
      BY <1>0, <1>1, <1>3, <2>1 DEF Carries, Alone, Counted, Only, TypeOK, ProcessTyped
    <2> QED
      BY <1>1, <1>3, <2>1, <2>3 DEF Unfiled
  <1>4. CASE /\ \/ ~Matches(dst, move[o].dst)
                \/ src # None /\ ~Matches(src, move[o].src)
             /\ Refuse(a, o)
             /\ UNCHANGED <<file, effect, stale, faults>>
    <2>1. Rest /\ Halts(a, o) /\ Refuses(a)
      BY <1>0, <1>4, Endings DEF Only, TypeOK, HistoryTyped
    <2>3. Carries(a, o)
      BY <1>0, <1>1, <1>4, <2>1 DEF Carries, Alone, Counted, Only, TypeOK, ProcessTyped
    <2> QED
      BY <1>1, <1>4, <2>1, <2>3 DEF src, dst, Unfiled
  <1>5. CASE /\ Matches(dst, move[o].dst) /\ src = None
             /\ Proceed(a, "mv_end")
             /\ UNCHANGED <<file, effect, stale, faults>>
    <2>1. Rest /\ Goes(a, "mv_end") /\ UNCHANGED refused
      BY <1>0, <1>5, Endings DEF Only, TypeOK, HistoryTyped
    <2>3. Carries(a, o)
      BY <1>0, <1>1, <1>5, <2>1 DEF Carries, Alone, Counted, Only, TypeOK, ProcessTyped
    <2> QED
      BY <1>1, <1>5, <2>1, <2>3 DEF src, dst, Unfiled
  <1>6. ASSUME Matches(dst, move[o].dst) /\ Matches(src, move[o].src),
               NEW x \in BOOLEAN, NEW ok \in BOOLEAN, Call(x, ok),
               IF x THEN /\ file' = [file EXCEPT ![plan[o].from] = None]
                         /\ effect' = [effect EXCEPT ![o] = "yes"]
                         /\ Touch(o, plan[o].from)
                    ELSE UNCHANGED <<file, effect, stale>>,
               Proceed(a, IF ok THEN "mv_end" ELSE "mv_lost")
        PROVE  /\ Carries(a, o)
               /\ UNCHANGED refused
               /\ \/ Goes(a, "mv_lost") /\ Unfiled /\ effect'[o] = effect[o]
                  \/ /\ Goes(a, "mv_end") \/ Goes(a, "mv_lost")
                     /\ Writes(o, plan[o].from, None) /\ effect'[o] = "yes"
    <2>1. /\ Goes(a, IF ok THEN "mv_end" ELSE "mv_lost") /\ UNCHANGED refused
          /\ Only(run, run', a) /\ Only(answer, answer', o)
      BY <1>6, Endings
    <2>3. Only(effect, effect', o) /\ (x => effect'[o] = "yes") /\ (~ x => effect'[o] = effect[o])
      BY <1>0, <1>6 DEF Only, TypeOK, HistoryTyped
    <2>4. Carries(a, o)
      BY <1>0, <1>1, <1>6, <2>1, <2>3, Calls
      DEF Carries, Alone, Counted, Only, TypeOK, ProcessTyped
    <2>5. CASE x
      BY <1>6, <2>1, <2>3, <2>4, <2>5 DEF Writes
    <2>6. CASE ~ x
      <3>1. ~ ok
        BY <1>6, <2>6 DEF Call
      <3> QED
        BY <1>6, <2>1, <2>3, <2>4, <2>6, <3>1 DEF Unfiled
    <2> QED
      BY <2>5, <2>6
  <1> QED
    BY <1>1, <1>2, <1>3, <1>4, <1>5, <1>6 DEF src, dst

MoveEndDoes(a, o) ==
    /\ Carries(a, o)
    /\ UNCHANGED <<file, staged, backup, session, intent, parts, upload, plan,
                   known, effect, stale, refused>>
    /\ run[a] = "mv_end" /\ move'[o] \in {move[o], None}
    /\ Drops("move", o, move'[o] = None)
    /\ IF a = Rec THEN Ended ELSE Leaves(o, "committed") /\ UNCHANGED <<job, phase>>

\* Retiring the journal of a move has this effect.
LEMMA MoveEndEffect ==
  ASSUME Bookkeeping, NEW o \in Ops, NEW a \in {Rec, o}, MoveEnd(a, o), UNCHANGED probe
  PROVE  MoveEndDoes(a, o)
  <1> USE DEF MoveEndDoes
  <1>0. TypeOK
    BY DEF Bookkeeping
  <1>1. /\ UNCHANGED <<file, staged, backup, session, intent, parts, upload, plan,
                       known, effect, stale, refused, verified, crashes, foreign>>
        /\ run[a] = "mv_end"
    BY DEF MoveEnd, store, At
  <1>2. PICK x, ok \in BOOLEAN :
          /\ Call(x, ok) \/ (a # Rec /\ ~ ok /\ UNCHANGED faults)
          /\ move' = [move EXCEPT ![o] = IF x THEN None ELSE @]
          /\ Settle("move", o, ok)
          /\ IF a # Rec THEN Leave(o, "committed") /\ UNCHANGED <<job, phase>>
             ELSE (Done \/ GiveUp) /\ UNCHANGED answer
    BY DEF MoveEnd
  <1>3. move'[o] = (IF x THEN None ELSE move[o]) /\ Only(move, move', o)
    BY <1>0, <1>2 DEF Only, TypeOK, RecordsTyped
  <1>4. faults' \in 0 .. MaxFaults /\ (x \/ ~ ok)
    BY <1>0, <1>2, Calls DEF Call, TypeOK, HistoryTyped
  <1>5. Drops("move", o, move'[o] = None)
    BY <1>2, <1>3, <1>4 DEF Drops, Settle
  <1>6. /\ Only(run, run', a) /\ Only(answer, answer', o)
        /\ IF a = Rec THEN Ended ELSE Leaves(o, "committed") /\ UNCHANGED <<job, phase>>
    <2>1. CASE a = Rec
      BY <1>2, <2>1, Endings DEF Only
    <2>2. CASE a # Rec
      BY <1>0, <1>2, <2>2 DEF Only, Leave, Leaves, Goto, TypeOK, LocationsTyped,
         HistoryTyped
    <2> QED
      BY <2>1, <2>2
  <1>7. Carries(a, o)
    BY <1>0, <1>1, <1>3, <1>4, <1>6 DEF Carries, Alone, Counted, Only, TypeOK,
       ProcessTyped
  <1> QED
    BY <1>1, <1>3, <1>5, <1>6, <1>7

RecoverPartsDoes(o) ==
    /\ Carries(Rec, o)
    /\ UNCHANGED <<file, backup, intent, upload, move, plan, known, answer, effect, stale,
                   refused>>
    /\ run[Rec] = "r_parts" /\ (Ended \/ Goes(Rec, "r_parts"))
    /\ \/ staged'[o] \in {staged[o], None} /\ parts' = parts /\ pending' = pending
       \/ /\ staged' = staged /\ parts'[o] \in {parts[o], "none"}
          /\ parts[o] # "named" \/ staged[o] = None
          /\ Drops("parts", o, parts'[o] = "none")

\* Recovery of a session has this effect.
LEMMA RecoverPartsEffect ==
  ASSUME Bookkeeping, NEW o \in Ops, RecoverParts(o), UNCHANGED probe
  PROVE  RecoverPartsDoes(o)
  <1> USE DEF RecoverPartsDoes
  <1>0. TypeOK
    BY DEF Bookkeeping
  <1>1. /\ UNCHANGED <<file, backup, intent, upload, move, plan, known, answer, effect, stale,
                       refused, verified, crashes, foreign>>
        /\ run[Rec] = "r_parts"
    BY DEF RecoverParts, ghosts, At
  <1> DEFINE what == CASE parts[o] = "named" /\ staged[o] # None -> "staged"
                       [] parts[o] = "named" /\ staged[o] = None /\ o \in session -> "session"
                       [] OTHER -> "journal"
  <1>2. PICK x, ok \in BOOLEAN :
          /\ Call(x, ok)
          /\ staged' = [staged EXCEPT ![o] = IF x /\ what = "staged" THEN None ELSE @]
          /\ session' = IF x /\ what = "session" THEN session \ {o} ELSE session
          /\ parts' = [parts EXCEPT ![o] = IF x /\ what = "journal" THEN "none" ELSE @]
          /\ IF what = "journal" THEN Settle("parts", o, ok) ELSE UNCHANGED pending
          /\ GiveUp \/ Done \/ UNCHANGED <<run, gate, job, phase>>
    <2>1. PICK x, ok \in BOOLEAN :
            /\ Call(x, ok)
            /\ staged' = [staged EXCEPT ![o] = IF x /\ what = "staged" THEN None ELSE @]
            /\ session' = IF x /\ what = "session" THEN session \ {o} ELSE session
            /\ parts' = [parts EXCEPT ![o] = IF x /\ what = "journal" THEN "none" ELSE @]
            /\ IF what = "journal" THEN Settle("parts", o, ok) ELSE UNCHANGED pending
            /\ CASE ~ok -> GiveUp
                 [] ok /\ what = "journal" -> Done
                 [] OTHER -> UNCHANGED <<run, gate, job, phase>>
      BY DEF RecoverParts
    <2> HIDE DEF what
    <2>2. GiveUp \/ Done \/ UNCHANGED <<run, gate, job, phase>>
      BY <2>1
    <2> QED
      BY <2>1, <2>2
  <1>3. /\ what = "staged" \/ what = "session" \/ what = "journal"
        /\ what = "journal" => parts[o] # "named" \/ staged[o] = None
    OBVIOUS
  <1> HIDE DEF what
  <1>4. /\ staged'[o] = (IF x /\ what = "staged" THEN None ELSE staged[o])
        /\ parts'[o] = (IF x /\ what = "journal" THEN "none" ELSE parts[o])
        /\ Only(staged, staged', o) /\ Only(parts, parts', o)
        /\ what # "staged" => staged' = staged
        /\ what # "journal" => parts' = parts
    BY <1>0, <1>2 DEF Only, TypeOK, StoreTyped, RecordsTyped
  <1>5. faults' \in 0 .. MaxFaults /\ (x \/ ~ ok)
    BY <1>0, <1>2, Calls DEF Call
  <1>6. Only(run, run', Rec) /\ (Ended \/ Goes(Rec, "r_parts"))
    <2>1. CASE GiveUp \/ Done
      BY <1>1, <2>1, Endings
    <2>2. CASE UNCHANGED <<run, gate, job, phase>>
      BY <1>1, <2>2 DEF Goes, Only
    <2> QED
      BY <1>2, <2>1, <2>2
  <1>7. Carries(Rec, o)
    BY <1>0, <1>1, <1>2, <1>4, <1>5, <1>6 DEF Carries, Alone, Counted, Only, TypeOK,
       ProcessTyped
  <1>8. CASE what = "journal"
    <2>1. Drops("parts", o, parts'[o] = "none")
      BY <1>2, <1>4, <1>5, <1>8 DEF Drops, Settle
    <2> QED
      BY <1>1, <1>3, <1>4, <1>6, <1>7, <1>8, <2>1
  <1>9. CASE what # "journal"
    BY <1>1, <1>2, <1>4, <1>6, <1>7, <1>9
  <1> QED
    BY <1>8, <1>9

RecoverUploadDoes(o) ==
    /\ Carries(Rec, o)
    /\ UNCHANGED <<file, staged, backup, session, intent, parts, upload, move, pending, plan,
                   known, answer, effect, stale>>
    /\ run[Rec] = "r_upload"
    /\ \/ Ended /\ (UNCHANGED refused \/ (~ Provable(o) /\ refused' = job))
       \/ Goes(Rec, "r_finish") /\ Provable(o) /\ UNCHANGED refused

\* Recovery of an upload has this effect.
LEMMA RecoverUploadEffect ==
  ASSUME Bookkeeping, NEW o \in Ops, RecoverUpload(o), UNCHANGED probe
  PROVE  RecoverUploadDoes(o)
  <1> USE DEF RecoverUploadDoes
  <1>0. TypeOK
    BY DEF Bookkeeping
  <1>1. /\ UNCHANGED <<file, staged, backup, session, intent, parts, upload, move, pending, plan,
                       known, answer, effect, stale, verified, crashes, foreign>>
        /\ run[Rec] = "r_upload"
    BY DEF RecoverUpload, store, records, At
  <1>2. /\ faults' \in 0 .. MaxFaults /\ Only(run, run', Rec)
        /\ \/ Ended /\ (UNCHANGED refused \/ (~ Provable(o) /\ refused' = job))
           \/ Goes(Rec, "r_finish") /\ Provable(o) /\ UNCHANGED refused
    <2>1. CASE Read(FALSE) /\ GiveUp /\ UNCHANGED refused
      BY <1>0, <1>1, <2>1, Reads, Endings
    <2>2. CASE Provable(o) /\ Goto(Rec, "r_finish") /\
    UNCHANGED <<gate, job, phase, refused, faults>>
      BY <1>0, <1>1, <2>2 DEF Goto, Goes, Only, TypeOK, LocationsTyped, HistoryTyped
    <2>3. CASE ~Provable(o) /\ GiveUp /\ refused' = job /\ UNCHANGED faults
      BY <1>0, <1>1, <2>3, Endings DEF TypeOK, HistoryTyped
    <2> QED
      BY <2>1, <2>2, <2>3 DEF RecoverUpload
  <1>3. Carries(Rec, o)
    BY <1>0, <1>1, <1>2 DEF Carries, Alone, Counted, Only, TypeOK, ProcessTyped
  <1> QED
    BY <1>1, <1>2, <1>3

RecoverFinishDoes(o) ==
    /\ Carries(Rec, o)
    /\ UNCHANGED <<file, session, parts, move, plan, known, answer, effect, stale, refused>>
    /\ run[Rec] = "r_finish" /\ Discards(o)
    /\ Ended \/ (Goes(Rec, "r_finish") /\ (upload[o] # None => upload'[o] = upload[o]))

\* Recovery that discards what an upload held has this effect.
LEMMA RecoverFinishEffect ==
  ASSUME Bookkeeping, NEW o \in Ops, RecoverFinish(o), UNCHANGED probe
  PROVE  RecoverFinishDoes(o)
  <1> USE DEF RecoverFinishDoes
  <1>0. TypeOK
    BY DEF Bookkeeping
  <1>1. /\ UNCHANGED <<file, session, parts, move, plan, known, answer, effect, stale, refused,
                       verified, crashes, foreign>>
        /\ run[Rec] = "r_finish"
    BY DEF RecoverFinish, ghosts, At
  <1>2. PICK x, ok \in BOOLEAN :
          /\ Call(x, ok)
          /\ Discard(o, x, ok)
          /\ GiveUp \/ Done \/ (UNCHANGED <<run, gate, job, phase>> /\ Debris(o) # "upload")
    BY DEF RecoverFinish
  <1>3. faults' \in 0 .. MaxFaults /\ (x \/ ~ ok)
    BY <1>0, <1>2, Calls DEF Call
  <1>4. Discards(o)
    BY <1>0, <1>2, <1>3, Discarding
  <1>5. /\ Only(staged, staged', o) /\ Only(backup, backup', o) /\ Only(upload, upload', o)
        /\ intent' \in {intent, intent \cup {o}, intent \ {o}}
        /\ Debris(o) # "upload" => upload' = upload
    BY <1>0, <1>2 DEF Discard, Only, TypeOK, StoreTyped, RecordsTyped
  <1>6. /\ Only(run, run', Rec)
        /\ Ended \/ (Goes(Rec, "r_finish") /\ (upload[o] # None => upload'[o] = upload[o]))
    <2>1. CASE GiveUp \/ Done
      BY <1>1, <2>1, Endings
    <2>2. CASE UNCHANGED <<run, gate, job, phase>> /\ Debris(o) # "upload"
      BY <1>1, <1>5, <2>2 DEF Goes, Only
    <2> QED
      BY <1>2, <2>1, <2>2
  <1>7. Carries(Rec, o)
    BY <1>0, <1>1, <1>3, <1>5, <1>6 DEF Carries, Alone, Counted, Only, TypeOK,
       ProcessTyped
  <1> QED
    BY <1>1, <1>4, <1>6, <1>7

RecoverIntentDoes(o) ==
    /\ Carries(Rec, o)
    /\ UNCHANGED <<file, backup, session, parts, upload, move, plan, known, answer, effect,
                   stale, refused>>
    /\ run[Rec] = "r_intent" /\ (Ended \/ Goes(Rec, "r_intent"))
    /\ staged'[o] \in {staged[o], None} /\ intent' \in {intent, intent \ {o}}
    /\ intent' = intent \/ (staged[o] = None /\ upload[o] = None)
    /\ Drops("intent", o, o \notin intent')

\* Recovery of an intent has this effect.
LEMMA RecoverIntentEffect ==
  ASSUME Bookkeeping, NEW o \in Ops, RecoverIntent(o), UNCHANGED probe
  PROVE  RecoverIntentDoes(o)
  <1> USE DEF RecoverIntentDoes
  <1>0. TypeOK
    BY DEF Bookkeeping
  <1>1. /\ UNCHANGED <<file, backup, session, parts, upload, move, plan, known, answer, effect,
                       stale, refused, verified, crashes, foreign>>
        /\ run[Rec] = "r_intent"
    BY DEF RecoverIntent, ghosts, At
  <1>2. PICK x, ok \in BOOLEAN :
          /\ Call(x, ok)
          /\ \/ upload[o] # None /\ GiveUp /\ UNCHANGED <<staged, intent, pending>>
             \/ /\ upload[o] = None
                /\ staged' = [staged EXCEPT ![o] = IF x THEN None ELSE @]
                /\ intent' = IF x /\ staged[o] = None THEN intent \ {o} ELSE intent
                /\ IF staged[o] = None THEN Settle("intent", o, ok) ELSE UNCHANGED pending
                /\ GiveUp \/ Done \/ UNCHANGED <<run, gate, job, phase>>
    BY DEF RecoverIntent
  <1>3. faults' \in 0 .. MaxFaults /\ (x \/ ~ ok)
    BY <1>0, <1>2, Calls DEF Call
  <1>4. /\ Only(staged, staged', o) /\ staged'[o] \in {staged[o], None}
        /\ intent' \in {intent, intent \ {o}}
        /\ intent' = intent \/ (staged[o] = None /\ upload[o] = None)
        /\ Drops("intent", o, o \notin intent')
    <2>1. CASE upload[o] # None /\ UNCHANGED <<staged, intent, pending>>
      BY <2>1 DEF Only, Drops
    <2>2. CASE /\ upload[o] = None
               /\ staged' = [staged EXCEPT ![o] = IF x THEN None ELSE @]
               /\ intent' = IF x /\ staged[o] = None THEN intent \ {o} ELSE intent
               /\ IF staged[o] = None THEN Settle("intent", o, ok) ELSE UNCHANGED pending
      <3>1. staged'[o] \in {staged[o], None} /\ Only(staged, staged', o)
        BY <1>0, <2>2 DEF Only, TypeOK, StoreTyped
      <3>2. Drops("intent", o, o \notin intent')
        BY <1>3, <2>2 DEF Drops, Settle
      <3> QED
        BY <2>2, <3>1, <3>2
    <2> QED
      BY <1>2, <2>1, <2>2
  <1>6. Only(run, run', Rec) /\ (Ended \/ Goes(Rec, "r_intent"))
    <2>1. CASE GiveUp \/ Done
      BY <1>1, <2>1, Endings
    <2>2. CASE UNCHANGED <<run, gate, job, phase>>
      BY <1>1, <2>2 DEF Goes, Only
    <2> QED
      BY <1>2, <2>1, <2>2
  <1>7. Carries(Rec, o)
    BY <1>0, <1>1, <1>3, <1>4, <1>6 DEF Carries, Alone, Counted, Only, TypeOK,
       ProcessTyped
  <1> QED
    BY <1>1, <1>4, <1>6, <1>7

-----------------------------------------------------------------------------
(***************************************************************************)
(* The bookkeeping: what is left to show of a step of one operation, once  *)
(* its effect is known.                                                    *)
(***************************************************************************)

Values(o) ==
    /\ staged'[o] \in Objects \cup {None} /\ backup'[o] \in Objects \cup {None}
    /\ parts'[o] \in {"none", "unnamed", "named"}
    /\ upload'[o] \in Transactions \cup {None} /\ move'[o] \in Moves \cup {None}
    /\ plan'[o] \in Requests \cup {None} /\ known'[o] \in ETags \cup {None}
    /\ answer'[o] \in {"none", "committed", "failed", "unknown"}
    /\ effect'[o] \in {"no", "half", "yes"}
Shared(o) ==
    /\ file' \in [Files -> Objects \cup {None}] /\ stale' \subseteq Ops
    /\ file' = file \/ gate \in {o, Rec} \/ phase # "up"
    /\ pending' \subseteq Keys /\ pending \ (Kinds \X {o}) \subseteq pending'
Turn(o) == gate' = gate \/ (gate = None /\ gate' = o) \/ (gate = o /\ gate' = None)
OwnParts(o) == PlanOf(o) /\ HeldOf(o) /\ BackedOf(o) /\ RegisteredOf(o)

\* A step changes the values of one operation and keeps their types.
LEMMA TypesKept ==
  ASSUME TypeOK, NEW o \in Ops, NEW a \in {Rec, o}, Carries(a, o), Values(o), Shared(o),
         run'[a] \in IF a = Rec THEN RecLocations ELSE OpLocations,
         gate' \in Ops \cup {Rec, None}, job' \in Keys \cup {None},
         phase' \in {"up", "starting", "down"}, refused' \in Keys \cup {None}
  PROVE  TypeOK'
  <1>1. StoreTyped'
    BY DEF Carries, Alone, Only, Values, Shared, TypeOK, StoreTyped
  <1>2. RecordsTyped'
    BY DEF Carries, Alone, Only, Values, TypeOK, RecordsTyped
  <1>3. LocationsTyped'
    BY OpsAssumption DEF Carries, Only, TypeOK, LocationsTyped
  <1>4. ProcessTyped'
    BY DEF Carries, Alone, Only, Counted, Values, Shared, TypeOK, ProcessTyped
  <1>5. HistoryTyped'
    BY DEF Carries, Alone, Only, Counted, Values, Shared, TypeOK, HistoryTyped
  <1> QED
    BY <1>1, <1>2, <1>3, <1>4, <1>5 DEF TypeOK

\* The values of every other operation stay as they are.
LEMMA Elsewhere ==
  ASSUME TypeOK, NEW o \in Ops, NEW a \in {Rec, o}, Carries(a, o), NEW q \in Ops, q # o
  PROVE  /\ staged'[q] = staged[q] /\ backup'[q] = backup[q] /\ parts'[q] = parts[q]
         /\ (q \in session') = (q \in session) /\ (q \in intent') = (q \in intent)
         /\ upload'[q] = upload[q] /\ move'[q] = move[q] /\ plan'[q] = plan[q]
         /\ known'[q] = known[q] /\ answer'[q] = answer[q] /\ effect'[q] = effect[q]
         /\ run'[q] = run[q]
  <1>1. q # a
    BY OpsAssumption
  <1>2. run'[q] = run[q]
    BY <1>1 DEF Carries, Only, TypeOK, LocationsTyped
  <1>3. staged'[q] = staged[q] /\ backup'[q] = backup[q] /\ parts'[q] = parts[q]
    BY DEF Carries, Alone, Only, TypeOK, StoreTyped, RecordsTyped
  <1>4. (q \in session') = (q \in session) /\ (q \in intent') = (q \in intent)
    BY DEF Carries, Alone
  <1>5. upload'[q] = upload[q] /\ move'[q] = move[q] /\ plan'[q] = plan[q]
    BY DEF Carries, Alone, Only, TypeOK, RecordsTyped, ProcessTyped
  <1>6. known'[q] = known[q] /\ answer'[q] = answer[q] /\ effect'[q] = effect[q]
    BY DEF Carries, Alone, Only, TypeOK, ProcessTyped, HistoryTyped
  <1> QED
    BY <1>2, <1>3, <1>4, <1>5, <1>6

\* So its bookkeeping stays in order.
LEMMA OthersInOrder ==
  ASSUME Bookkeeping, NEW o \in Ops, NEW a \in {Rec, o}, Carries(a, o), Shared(o),
         NEW q \in Ops, q # o
  PROVE  /\ PlanOf(q)' /\ HeldOf(q)' /\ BackedOf(q)' /\ (phase = "up" => RegisteredOf(q)')
         /\ Sends(q)' = Sends(q)
  <1>1. TypeOK
    BY DEF Bookkeeping
  <1>2. /\ staged'[q] = staged[q] /\ backup'[q] = backup[q] /\ parts'[q] = parts[q]
        /\ (q \in session') = (q \in session) /\ (q \in intent') = (q \in intent)
        /\ upload'[q] = upload[q] /\ move'[q] = move[q] /\ plan'[q] = plan[q]
        /\ known'[q] = known[q] /\ run'[q] = run[q]
    BY <1>1, Elsewhere
  <1>3. PlanOf(q)'
    BY <1>2 DEF Bookkeeping, Plans, PlanOf
  <1>4. HeldOf(q)'
    <2>1. ASSUME run[q] \in {"journal", "handoff", "backup"}
          PROVE  file' = file
      BY <2>1, OpsAssumption DEF Shared, Bookkeeping, Doors, GateOf, Gated, Committing
    <2> QED
      BY <1>2, <2>1 DEF Bookkeeping, Held, HeldOf, Bare, Staged
  <1>5. BackedOf(q)'
    BY <1>2 DEF Bookkeeping, Traced, BackedOf
  <1>6. ASSUME NEW k \in Kinds, <<k, q>> \in pending
        PROVE  <<k, q>> \in pending'
    BY <1>6 DEF Shared
  <1>7. phase = "up" => RegisteredOf(q)'
    BY <1>2, <1>6 DEF Bookkeeping, Traced, RegisteredOf, Kinds
  <1>8. Sends(q)' = Sends(q)
    BY <1>2 DEF Sends, Staged
  <1> QED
    BY <1>3, <1>4, <1>5, <1>7, <1>8

\* While an operation sends, or holds the gate, recovery works on nothing; and while
\* recovery works, operations wait.
LEMMA AtWork ==
  ASSUME Bookkeeping, NEW o \in Ops
  PROVE  /\ run[o] \notin {"idle", "done"} => phase = "up"
         /\ run[o] \in Gated \cup Staging =>
               job = None /\ run[Rec] \notin Moving \cup Recovering \cup Probing
         /\ run[o] \in Gated => gate = o
         /\ run[o] = "lock" /\ plan[o].mode \in Uploads => job = None
         /\ gate = None /\ phase = "up" => job = None
         /\ job # None => /\ run[o] \in {"idle", "done", "lock"} /\ ~ Sends(o)
                          /\ gate = IF phase = "up" THEN Rec ELSE None
  BY OpsAssumption DEF Bookkeeping, Doors, GateOf, Sends, Staged, Gated, TypeOK,
     LocationsTyped,
     OpLocations, Staging, Committing, Copying, Deleting, Moving, Probing

\* A step of an operation keeps the books when it does so for the operation.
LEMMA ForegroundBooks ==
  ASSUME Bookkeeping, NEW o \in Ops, Foreground(o), Values(o), Shared(o), Turn(o), phase = "up",
         run'[o] \in OpLocations, GateOf(o)', OwnParts(o)',
         job # None => /\ ~ Sends(o)' /\ UNCHANGED <<upload, move>>
                       /\ known'[o] # None \/ move[o] = None
  PROVE  Bookkeeping'
  <1>0. TypeOK /\ phase' = phase /\ job' = job
    BY DEF Bookkeeping, Foreground
  <1>1. Carries(o, o) /\ o # Rec /\ run'[Rec] = run[Rec] /\ probe' = probe /\ refused' = refused
    BY <1>0, OpsAssumption DEF Foreground, Carries, Only, TypeOK, LocationsTyped
  <1>2. gate' \in Ops \cup {Rec, None}
    BY <1>0 DEF Turn, TypeOK, ProcessTyped
  <1>3. TypeOK'
    BY <1>0, <1>1, <1>2, TypesKept DEF TypeOK, ProcessTyped, HistoryTyped
  <1>4. ASSUME NEW q \in Ops
        PROVE  GateOf(q)'
    <2>1. CASE q = o
      BY <2>1
    <2>2. CASE q # o
      <3>1. run'[q] = run[q]
        BY <1>0, <1>1, <2>2, Elsewhere
      <3>2. (gate' = q) = (gate = q)
        BY <2>2, ConstantsAssumption, OpsAssumption DEF Turn
      <3> QED
        BY <3>1, <3>2 DEF Bookkeeping, Doors, GateOf
    <2> QED
      BY <2>1, <2>2
  <1>5. (gate' = Rec) = (gate = Rec)
    BY OpsAssumption DEF Turn
  <1>6. ASSUME job # None, NEW q \in Ops
        PROVE  ~ Sends(q)'
    BY <1>0, <1>1, <1>6, OthersInOrder DEF Bookkeeping, Doors
  <1>7. Doors'
    BY <1>0, <1>1, <1>4, <1>5, <1>6 DEF Bookkeeping, Doors
  <1>8. ASSUME NEW q \in Ops
        PROVE  PlanOf(q)' /\ HeldOf(q)' /\ BackedOf(q)' /\ RegisteredOf(q)'
    BY <1>1, OthersInOrder DEF OwnParts
  <1>9. Worked'
    <2>1. CASE job = None
      BY <1>0, <1>1, <2>1 DEF Bookkeeping, Doors, Worked, Recovering, Moving
    <2>2. CASE job # None
      <3>1. job[2] \in Ops
        BY <1>0, <2>2, KeysOf DEF TypeOK, ProcessTyped
      <3>2. known'[job[2]] = known[job[2]] \/ known'[job[2]] # None \/ move[job[2]] = None
        BY <1>0, <1>1, <2>2, <3>1, Elsewhere
      <3> QED
        BY <1>0, <1>1, <2>2, <3>2 DEF Bookkeeping, Worked, Moving
    <2> QED
      BY <2>1, <2>2
  <1> QED
    BY <1>3, <1>7, <1>8, <1>9 DEF Bookkeeping, Plans, Held, Traced

\* A written file is a file, and the journals it disturbs are those of operations.
LEMMA FilesWritten ==
  ASSUME TypeOK, NEW o, NEW p \in Files, NEW x \in Objects \cup {None}, Writes(o, p, x)
  PROVE  file' \in [Files -> Objects \cup {None}] /\ stale' \subseteq Ops
  BY DEF Writes, Touch, TypeOK, StoreTyped, HistoryTyped

\* Writing the intent keeps the books in order.
LEMMA WriteIntentBooks ==
  ASSUME Bookkeeping, NEW o \in Ops, WriteIntent(o), UNCHANGED probe
  PROVE  Bookkeeping'
  <1>0. TypeOK /\ o # Rec
    BY OpsAssumption DEF Bookkeeping
  <1>1. WriteIntentDoes(o)
    BY WriteIntentEffect
  <1>2. Foreground(o)
    BY <1>1 DEF WriteIntentDoes
  <1>3. phase = "up" /\ job = None
    BY <1>1, AtWork DEF WriteIntentDoes, OpLocations, Gated, Staging, Committing,
       Copying, Deleting, Moving, Recovering, Probing
  <1>4. Values(o)
    BY <1>0, <1>1, <1>3 DEF Values, WriteIntentDoes, Leaves, Stays, TypeOK,
       StoreTyped, RecordsTyped, LocationsTyped, ProcessTyped, HistoryTyped
  <1>5. Shared(o) /\ Turn(o)
    BY <1>0, <1>1, <1>3, KeysOf DEF Shared, Turn, WriteIntentDoes, Leaves, Stays,
       Unfiled, Adds, Drops, TypeOK, StoreTyped, RecordsTyped, LocationsTyped,
       ProcessTyped, HistoryTyped
  <1>6. run'[o] \in OpLocations /\ GateOf(o)'
    BY <1>0, <1>1, <1>3, AtWork, OpsAssumption DEF WriteIntentDoes, Leaves, Stays,
       GateOf, Doors, Bookkeeping, Plans, PlanOf, Uploads, OpLocations, Gated,
       Staging, Committing, Copying, Deleting, Moving, Recovering, Probing
  <1>7. PlanOf(o)'
    BY <1>0, <1>1, <1>3 DEF WriteIntentDoes, Leaves, Stays, Bookkeeping, Plans,
       PlanOf, Uploads, OpLocations, Gated, Staging, Committing, Copying, Deleting,
       Moving, Recovering, Probing
  <1>8. HeldOf(o)'
    BY <1>0, <1>1, <1>3 DEF WriteIntentDoes, Leaves, Stays, Bookkeeping, Plans,
       PlanOf, Held, HeldOf, Bare, Staged, Uploads, OpLocations, Gated, Staging,
       Committing, Copying, Deleting, Moving, Recovering, Probing
  <1>9. BackedOf(o)' /\ RegisteredOf(o)'
    BY <1>0, <1>1, <1>3 DEF WriteIntentDoes, Leaves, Stays, Adds, Drops, Bookkeeping,
       Held, HeldOf, Bare, Staged, Traced, BackedOf, RegisteredOf, OpLocations, Gated,
       Staging, Committing, Copying, Deleting, Moving, Recovering, Probing
  <1> QED
    BY <1>1, <1>2, <1>3, <1>4, <1>5, <1>6, <1>7, <1>8, <1>9,
       ForegroundBooks DEF OwnParts

\* The single PUT of the staged object keeps the books in order.
LEMMA StageSingleBooks ==
  ASSUME Bookkeeping, NEW o \in Ops, StageSingle(o), UNCHANGED probe
  PROVE  Bookkeeping'
  <1>0. TypeOK /\ o # Rec
    BY OpsAssumption DEF Bookkeeping
  <1>1. StageSingleDoes(o)
    BY StageSingleEffect
  <1>2. Foreground(o)
    BY <1>1 DEF StageSingleDoes
  <1>3. phase = "up" /\ job = None
    BY <1>1, AtWork DEF StageSingleDoes, OpLocations, Gated, Staging, Committing,
       Copying, Deleting, Moving, Recovering, Probing
  <1>4. Values(o)
    BY <1>0, <1>1, <1>3, UploadedOwn DEF Values, StageSingleDoes, Leaves, Stays,
       TypeOK, StoreTyped, RecordsTyped, LocationsTyped, ProcessTyped, HistoryTyped
  <1>5. Shared(o) /\ Turn(o)
    BY <1>0, <1>1, <1>3, KeysOf DEF Shared, Turn, StageSingleDoes, Leaves, Stays,
       Unfiled, Adds, Drops, TypeOK, StoreTyped, RecordsTyped, LocationsTyped,
       ProcessTyped, HistoryTyped
  <1>6. run'[o] \in OpLocations /\ GateOf(o)'
    BY <1>0, <1>1, <1>3, AtWork, OpsAssumption DEF StageSingleDoes, Leaves, Stays,
       GateOf, Doors, Bookkeeping, Plans, PlanOf, Uploads, OpLocations, Gated,
       Staging, Committing, Copying, Deleting, Moving, Recovering, Probing
  <1>7. PlanOf(o)'
    BY <1>0, <1>1, <1>3 DEF StageSingleDoes, Leaves, Stays, Bookkeeping, Plans,
       PlanOf, Uploads, OpLocations, Gated, Staging, Committing, Copying, Deleting,
       Moving, Recovering, Probing
  <1>8. HeldOf(o)'
    BY <1>0, <1>1, <1>3, UploadedOwn DEF StageSingleDoes, Leaves, Stays, Bookkeeping,
       Plans, PlanOf, Held, HeldOf, Bare, Staged, Uploads, OpLocations, Gated,
       Staging, Committing, Copying, Deleting, Moving, Recovering, Probing
  <1>9. BackedOf(o)' /\ RegisteredOf(o)'
    BY <1>0, <1>1, <1>3, UploadedOwn DEF StageSingleDoes, Leaves, Stays, Adds, Drops,
       Bookkeeping, Held, HeldOf, Bare, Staged, Traced, BackedOf, RegisteredOf,
       OpLocations, Gated, Staging, Committing, Copying, Deleting, Moving, Recovering,
       Probing
  <1> QED
    BY <1>1, <1>2, <1>3, <1>4, <1>5, <1>6, <1>7, <1>8, <1>9,
       ForegroundBooks DEF OwnParts

\* Writing the session's journal keeps the books in order.
LEMMA OpenSessionBooks ==
  ASSUME Bookkeeping, NEW o \in Ops, OpenSession(o), UNCHANGED probe
  PROVE  Bookkeeping'
  <1>0. TypeOK /\ o # Rec
    BY OpsAssumption DEF Bookkeeping
  <1>1. OpenSessionDoes(o)
    BY OpenSessionEffect
  <1>2. Foreground(o)
    BY <1>1 DEF OpenSessionDoes
  <1>3. phase = "up" /\ job = None
    BY <1>1, AtWork DEF OpenSessionDoes, OpLocations, Gated, Staging, Committing,
       Copying, Deleting, Moving, Recovering, Probing
  <1>4. Values(o)
    BY <1>0, <1>1, <1>3 DEF Values, OpenSessionDoes, Leaves, Stays, TypeOK,
       StoreTyped, RecordsTyped, LocationsTyped, ProcessTyped, HistoryTyped
  <1>5. Shared(o) /\ Turn(o)
    BY <1>0, <1>1, <1>3, KeysOf DEF Shared, Turn, OpenSessionDoes, Leaves, Stays,
       Unfiled, Adds, Drops, TypeOK, StoreTyped, RecordsTyped, LocationsTyped,
       ProcessTyped, HistoryTyped
  <1>6. run'[o] \in OpLocations /\ GateOf(o)'
    BY <1>0, <1>1, <1>3, AtWork, OpsAssumption DEF OpenSessionDoes, Leaves, Stays,
       GateOf, Doors, Bookkeeping, Plans, PlanOf, Uploads, OpLocations, Gated,
       Staging, Committing, Copying, Deleting, Moving, Recovering, Probing
  <1>7. PlanOf(o)'
    BY <1>0, <1>1, <1>3 DEF OpenSessionDoes, Leaves, Stays, Bookkeeping, Plans,
       PlanOf, Uploads, OpLocations, Gated, Staging, Committing, Copying, Deleting,
       Moving, Recovering, Probing
  <1>8. HeldOf(o)'
    BY <1>0, <1>1, <1>3 DEF OpenSessionDoes, Leaves, Stays, Bookkeeping, Plans,
       PlanOf, Held, HeldOf, Bare, Staged, Uploads, OpLocations, Gated, Staging,
       Committing, Copying, Deleting, Moving, Recovering, Probing
  <1>9. BackedOf(o)' /\ RegisteredOf(o)'
    BY <1>0, <1>1, <1>3 DEF OpenSessionDoes, Leaves, Stays, Adds, Drops, Bookkeeping,
       Held, HeldOf, Bare, Staged, Traced, BackedOf, RegisteredOf, OpLocations, Gated,
       Staging, Committing, Copying, Deleting, Moving, Recovering, Probing
  <1> QED
    BY <1>1, <1>2, <1>3, <1>4, <1>5, <1>6, <1>7, <1>8, <1>9,
       ForegroundBooks DEF OwnParts

\* Opening the multipart session keeps the books in order.
LEMMA CreateSessionBooks ==
  ASSUME Bookkeeping, NEW o \in Ops, CreateSession(o), UNCHANGED probe
  PROVE  Bookkeeping'
  <1>0. TypeOK /\ o # Rec
    BY OpsAssumption DEF Bookkeeping
  <1>1. CreateSessionDoes(o)
    BY CreateSessionEffect
  <1>2. Foreground(o)
    BY <1>1 DEF CreateSessionDoes
  <1>3. phase = "up" /\ job = None
    BY <1>1, AtWork DEF CreateSessionDoes, OpLocations, Gated, Staging, Committing,
       Copying, Deleting, Moving, Recovering, Probing
  <1>4. Values(o)
    BY <1>0, <1>1, <1>3 DEF Values, CreateSessionDoes, Leaves, Stays, TypeOK,
       StoreTyped, RecordsTyped, LocationsTyped, ProcessTyped, HistoryTyped
  <1>5. Shared(o) /\ Turn(o)
    BY <1>0, <1>1, <1>3, KeysOf DEF Shared, Turn, CreateSessionDoes, Leaves, Stays,
       Unfiled, Adds, Drops, TypeOK, StoreTyped, RecordsTyped, LocationsTyped,
       ProcessTyped, HistoryTyped
  <1>6. run'[o] \in OpLocations /\ GateOf(o)'
    BY <1>0, <1>1, <1>3, AtWork, OpsAssumption DEF CreateSessionDoes, Leaves, Stays,
       GateOf, Doors, Bookkeeping, Plans, PlanOf, Uploads, OpLocations, Gated,
       Staging, Committing, Copying, Deleting, Moving, Recovering, Probing
  <1>7. PlanOf(o)'
    BY <1>0, <1>1, <1>3 DEF CreateSessionDoes, Leaves, Stays, Bookkeeping, Plans,
       PlanOf, Uploads, OpLocations, Gated, Staging, Committing, Copying, Deleting,
       Moving, Recovering, Probing
  <1>8. HeldOf(o)'
    BY <1>0, <1>1, <1>3 DEF CreateSessionDoes, Leaves, Stays, Bookkeeping, Plans,
       PlanOf, Held, HeldOf, Bare, Staged, Uploads, OpLocations, Gated, Staging,
       Committing, Copying, Deleting, Moving, Recovering, Probing
  <1>9. BackedOf(o)' /\ RegisteredOf(o)'
    BY <1>0, <1>1, <1>3 DEF CreateSessionDoes, Leaves, Stays, Adds, Drops,
       Bookkeeping, Held, HeldOf, Bare, Staged, Traced, BackedOf, RegisteredOf,
       OpLocations, Gated, Staging, Committing, Copying, Deleting, Moving, Recovering,
       Probing
  <1> QED
    BY <1>1, <1>2, <1>3, <1>4, <1>5, <1>6, <1>7, <1>8, <1>9,
       ForegroundBooks DEF OwnParts

\* Giving up a session that was never opened keeps the books in order.
LEMMA ReleaseUnstartedBooks ==
  ASSUME Bookkeeping, NEW o \in Ops, ReleaseUnstarted(o), UNCHANGED probe
  PROVE  Bookkeeping'
  <1>0. TypeOK /\ o # Rec
    BY OpsAssumption DEF Bookkeeping
  <1>1. ReleaseUnstartedDoes(o)
    BY ReleaseUnstartedEffect
  <1>2. Foreground(o)
    BY <1>1 DEF ReleaseUnstartedDoes
  <1>3. phase = "up" /\ job = None
    BY <1>1, AtWork DEF ReleaseUnstartedDoes, OpLocations, Gated, Staging, Committing,
       Copying, Deleting, Moving, Recovering, Probing
  <1>4. Values(o)
    BY <1>0, <1>1, <1>3 DEF Values, ReleaseUnstartedDoes, Leaves, Stays, TypeOK,
       StoreTyped, RecordsTyped, LocationsTyped, ProcessTyped, HistoryTyped
  <1>5. Shared(o) /\ Turn(o)
    BY <1>0, <1>1, <1>3, KeysOf DEF Shared, Turn, ReleaseUnstartedDoes, Leaves, Stays,
       Unfiled, Adds, Drops, TypeOK, StoreTyped, RecordsTyped, LocationsTyped,
       ProcessTyped, HistoryTyped
  <1>6. run'[o] \in OpLocations /\ GateOf(o)'
    BY <1>0, <1>1, <1>3, AtWork, OpsAssumption DEF ReleaseUnstartedDoes, Leaves,
       Stays, GateOf, Doors, Bookkeeping, Plans, PlanOf, Uploads, OpLocations, Gated,
       Staging, Committing, Copying, Deleting, Moving, Recovering, Probing
  <1>7. PlanOf(o)'
    BY <1>0, <1>1, <1>3 DEF ReleaseUnstartedDoes, Leaves, Stays, Bookkeeping, Plans,
       PlanOf, Uploads, OpLocations, Gated, Staging, Committing, Copying, Deleting,
       Moving, Recovering, Probing
  <1>8. HeldOf(o)'
    BY <1>0, <1>1, <1>3 DEF ReleaseUnstartedDoes, Leaves, Stays, Bookkeeping, Plans,
       PlanOf, Held, HeldOf, Bare, Staged, Uploads, OpLocations, Gated, Staging,
       Committing, Copying, Deleting, Moving, Recovering, Probing
  <1>9. BackedOf(o)' /\ RegisteredOf(o)'
    BY <1>0, <1>1, <1>3 DEF ReleaseUnstartedDoes, Leaves, Stays, Adds, Drops,
       Bookkeeping, Held, HeldOf, Bare, Staged, Traced, BackedOf, RegisteredOf,
       OpLocations, Gated, Staging, Committing, Copying, Deleting, Moving, Recovering,
       Probing
  <1> QED
    BY <1>1, <1>2, <1>3, <1>4, <1>5, <1>6, <1>7, <1>8, <1>9,
       ForegroundBooks DEF OwnParts

\* Naming the session in its journal keeps the books in order.
LEMMA BindSessionBooks ==
  ASSUME Bookkeeping, NEW o \in Ops, BindSession(o), UNCHANGED probe
  PROVE  Bookkeeping'
  <1>0. TypeOK /\ o # Rec
    BY OpsAssumption DEF Bookkeeping
  <1>1. BindSessionDoes(o)
    BY BindSessionEffect
  <1>2. Foreground(o)
    BY <1>1 DEF BindSessionDoes
  <1>3. phase = "up" /\ job = None
    BY <1>1, AtWork DEF BindSessionDoes, OpLocations, Gated, Staging, Committing,
       Copying, Deleting, Moving, Recovering, Probing
  <1>4. Values(o)
    BY <1>0, <1>1, <1>3 DEF Values, BindSessionDoes, Leaves, Stays, TypeOK,
       StoreTyped, RecordsTyped, LocationsTyped, ProcessTyped, HistoryTyped
  <1>5. Shared(o) /\ Turn(o)
    BY <1>0, <1>1, <1>3, KeysOf DEF Shared, Turn, BindSessionDoes, Leaves, Stays,
       Unfiled, Adds, Drops, TypeOK, StoreTyped, RecordsTyped, LocationsTyped,
       ProcessTyped, HistoryTyped
  <1>6. run'[o] \in OpLocations /\ GateOf(o)'
    BY <1>0, <1>1, <1>3, AtWork, OpsAssumption DEF BindSessionDoes, Leaves, Stays,
       GateOf, Doors, Bookkeeping, Plans, PlanOf, Uploads, OpLocations, Gated,
       Staging, Committing, Copying, Deleting, Moving, Recovering, Probing
  <1>7. PlanOf(o)'
    BY <1>0, <1>1, <1>3 DEF BindSessionDoes, Leaves, Stays, Bookkeeping, Plans,
       PlanOf, Uploads, OpLocations, Gated, Staging, Committing, Copying, Deleting,
       Moving, Recovering, Probing
  <1>8. HeldOf(o)'
    BY <1>0, <1>1, <1>3 DEF BindSessionDoes, Leaves, Stays, Bookkeeping, Plans,
       PlanOf, Held, HeldOf, Bare, Staged, Uploads, OpLocations, Gated, Staging,
       Committing, Copying, Deleting, Moving, Recovering, Probing
  <1>9. BackedOf(o)' /\ RegisteredOf(o)'
    BY <1>0, <1>1, <1>3 DEF BindSessionDoes, Leaves, Stays, Adds, Drops, Bookkeeping,
       Held, HeldOf, Bare, Staged, Traced, BackedOf, RegisteredOf, OpLocations, Gated,
       Staging, Committing, Copying, Deleting, Moving, Recovering, Probing
  <1> QED
    BY <1>1, <1>2, <1>3, <1>4, <1>5, <1>6, <1>7, <1>8, <1>9,
       ForegroundBooks DEF OwnParts

\* Aborting a session that could not be named keeps the books in order.
LEMMA UnbindSessionBooks ==
  ASSUME Bookkeeping, NEW o \in Ops, UnbindSession(o), UNCHANGED probe
  PROVE  Bookkeeping'
  <1>0. TypeOK /\ o # Rec
    BY OpsAssumption DEF Bookkeeping
  <1>1. UnbindSessionDoes(o)
    BY UnbindSessionEffect
  <1>2. Foreground(o)
    BY <1>1 DEF UnbindSessionDoes
  <1>3. phase = "up" /\ job = None
    BY <1>1, AtWork DEF UnbindSessionDoes, OpLocations, Gated, Staging, Committing,
       Copying, Deleting, Moving, Recovering, Probing
  <1>4. Values(o)
    BY <1>0, <1>1, <1>3 DEF Values, UnbindSessionDoes, Leaves, Stays, TypeOK,
       StoreTyped, RecordsTyped, LocationsTyped, ProcessTyped, HistoryTyped
  <1>5. Shared(o) /\ Turn(o)
    BY <1>0, <1>1, <1>3, KeysOf DEF Shared, Turn, UnbindSessionDoes, Leaves, Stays,
       Unfiled, Adds, Drops, TypeOK, StoreTyped, RecordsTyped, LocationsTyped,
       ProcessTyped, HistoryTyped
  <1>6. run'[o] \in OpLocations /\ GateOf(o)'
    BY <1>0, <1>1, <1>3, AtWork, OpsAssumption DEF UnbindSessionDoes, Leaves, Stays,
       GateOf, Doors, Bookkeeping, Plans, PlanOf, Uploads, OpLocations, Gated,
       Staging, Committing, Copying, Deleting, Moving, Recovering, Probing
  <1>7. PlanOf(o)'
    BY <1>0, <1>1, <1>3 DEF UnbindSessionDoes, Leaves, Stays, Bookkeeping, Plans,
       PlanOf, Uploads, OpLocations, Gated, Staging, Committing, Copying, Deleting,
       Moving, Recovering, Probing
  <1>8. HeldOf(o)'
    BY <1>0, <1>1, <1>3 DEF UnbindSessionDoes, Leaves, Stays, Bookkeeping, Plans,
       PlanOf, Held, HeldOf, Bare, Staged, Uploads, OpLocations, Gated, Staging,
       Committing, Copying, Deleting, Moving, Recovering, Probing
  <1>9. BackedOf(o)' /\ RegisteredOf(o)'
    BY <1>0, <1>1, <1>3 DEF UnbindSessionDoes, Leaves, Stays, Adds, Drops,
       Bookkeeping, Held, HeldOf, Bare, Staged, Traced, BackedOf, RegisteredOf,
       OpLocations, Gated, Staging, Committing, Copying, Deleting, Moving, Recovering,
       Probing
  <1> QED
    BY <1>1, <1>2, <1>3, <1>4, <1>5, <1>6, <1>7, <1>8, <1>9,
       ForegroundBooks DEF OwnParts

\* Completing the multipart session keeps the books in order.
LEMMA CompletePartsBooks ==
  ASSUME Bookkeeping, NEW o \in Ops, CompleteParts(o), UNCHANGED probe
  PROVE  Bookkeeping'
  <1>0. TypeOK /\ o # Rec
    BY OpsAssumption DEF Bookkeeping
  <1>1. CompletePartsDoes(o)
    BY CompletePartsEffect
  <1>2. Foreground(o)
    BY <1>1 DEF CompletePartsDoes
  <1>3. phase = "up" /\ job = None
    BY <1>1, AtWork DEF CompletePartsDoes, OpLocations, Gated, Staging, Committing,
       Copying, Deleting, Moving, Recovering, Probing
  <1>4. Values(o)
    BY <1>0, <1>1, <1>3, UploadedOwn DEF Values, CompletePartsDoes, Leaves, Stays,
       TypeOK, StoreTyped, RecordsTyped, LocationsTyped, ProcessTyped, HistoryTyped
  <1>5. Shared(o) /\ Turn(o)
    BY <1>0, <1>1, <1>3, KeysOf DEF Shared, Turn, CompletePartsDoes, Leaves, Stays,
       Unfiled, Adds, Drops, TypeOK, StoreTyped, RecordsTyped, LocationsTyped,
       ProcessTyped, HistoryTyped
  <1>6. run'[o] \in OpLocations /\ GateOf(o)'
    BY <1>0, <1>1, <1>3, AtWork, OpsAssumption DEF CompletePartsDoes, Leaves, Stays,
       GateOf, Doors, Bookkeeping, Plans, PlanOf, Uploads, OpLocations, Gated,
       Staging, Committing, Copying, Deleting, Moving, Recovering, Probing
  <1>7. PlanOf(o)'
    BY <1>0, <1>1, <1>3 DEF CompletePartsDoes, Leaves, Stays, Bookkeeping, Plans,
       PlanOf, Uploads, OpLocations, Gated, Staging, Committing, Copying, Deleting,
       Moving, Recovering, Probing
  <1>8. HeldOf(o)'
    BY <1>0, <1>1, <1>3, UploadedOwn DEF CompletePartsDoes, Leaves, Stays,
       Bookkeeping, Plans, PlanOf, Held, HeldOf, Bare, Staged, Uploads, OpLocations,
       Gated, Staging, Committing, Copying, Deleting, Moving, Recovering, Probing
  <1>9. BackedOf(o)' /\ RegisteredOf(o)'
    BY <1>0, <1>1, <1>3, UploadedOwn DEF CompletePartsDoes, Leaves, Stays, Adds,
       Drops, Bookkeeping, Held, HeldOf, Bare, Staged, Traced, BackedOf, RegisteredOf,
       OpLocations, Gated, Staging, Committing, Copying, Deleting, Moving, Recovering,
       Probing
  <1> QED
    BY <1>1, <1>2, <1>3, <1>4, <1>5, <1>6, <1>7, <1>8, <1>9,
       ForegroundBooks DEF OwnParts

\* A transfer that breaks off keeps the books in order.
LEMMA PartsMissingBooks ==
  ASSUME Bookkeeping, NEW o \in Ops, PartsMissing(o), UNCHANGED probe
  PROVE  Bookkeeping'
  <1>0. TypeOK /\ o # Rec
    BY OpsAssumption DEF Bookkeeping
  <1>1. PartsMissingDoes(o)
    BY PartsMissingEffect
  <1>2. Foreground(o)
    BY <1>1 DEF PartsMissingDoes
  <1>3. phase = "up" /\ job = None
    BY <1>1, AtWork DEF PartsMissingDoes, OpLocations, Gated, Staging, Committing,
       Copying, Deleting, Moving, Recovering, Probing
  <1>4. Values(o)
    BY <1>0, <1>1, <1>3 DEF Values, PartsMissingDoes, Leaves, Stays, TypeOK,
       StoreTyped, RecordsTyped, LocationsTyped, ProcessTyped, HistoryTyped
  <1>5. Shared(o) /\ Turn(o)
    BY <1>0, <1>1, <1>3, KeysOf DEF Shared, Turn, PartsMissingDoes, Leaves, Stays,
       Unfiled, Adds, Drops, TypeOK, StoreTyped, RecordsTyped, LocationsTyped,
       ProcessTyped, HistoryTyped
  <1>6. run'[o] \in OpLocations /\ GateOf(o)'
    BY <1>0, <1>1, <1>3, AtWork, OpsAssumption DEF PartsMissingDoes, Leaves, Stays,
       GateOf, Doors, Bookkeeping, Plans, PlanOf, Uploads, OpLocations, Gated,
       Staging, Committing, Copying, Deleting, Moving, Recovering, Probing
  <1>7. PlanOf(o)'
    BY <1>0, <1>1, <1>3 DEF PartsMissingDoes, Leaves, Stays, Bookkeeping, Plans,
       PlanOf, Uploads, OpLocations, Gated, Staging, Committing, Copying, Deleting,
       Moving, Recovering, Probing
  <1>8. HeldOf(o)'
    BY <1>0, <1>1, <1>3 DEF PartsMissingDoes, Leaves, Stays, Bookkeeping, Plans,
       PlanOf, Held, HeldOf, Bare, Staged, Uploads, OpLocations, Gated, Staging,
       Committing, Copying, Deleting, Moving, Recovering, Probing
  <1>9. BackedOf(o)' /\ RegisteredOf(o)'
    BY <1>0, <1>1, <1>3 DEF PartsMissingDoes, Leaves, Stays, Adds, Drops, Bookkeeping,
       Held, HeldOf, Bare, Staged, Traced, BackedOf, RegisteredOf, OpLocations, Gated,
       Staging, Committing, Copying, Deleting, Moving, Recovering, Probing
  <1> QED
    BY <1>1, <1>2, <1>3, <1>4, <1>5, <1>6, <1>7, <1>8, <1>9,
       ForegroundBooks DEF OwnParts

\* Retiring the journal of a completed session keeps the books in order.
LEMMA ReleaseSessionBooks ==
  ASSUME Bookkeeping, NEW o \in Ops, ReleaseSession(o), UNCHANGED probe
  PROVE  Bookkeeping'
  <1>0. TypeOK /\ o # Rec
    BY OpsAssumption DEF Bookkeeping
  <1>1. ReleaseSessionDoes(o)
    BY ReleaseSessionEffect
  <1>2. Foreground(o)
    BY <1>1 DEF ReleaseSessionDoes
  <1>3. phase = "up" /\ job = None
    BY <1>1, AtWork DEF ReleaseSessionDoes, OpLocations, Gated, Staging, Committing,
       Copying, Deleting, Moving, Recovering, Probing
  <1>4. Values(o)
    BY <1>0, <1>1, <1>3 DEF Values, ReleaseSessionDoes, Leaves, Stays, TypeOK,
       StoreTyped, RecordsTyped, LocationsTyped, ProcessTyped, HistoryTyped
  <1>5. Shared(o) /\ Turn(o)
    BY <1>0, <1>1, <1>3, KeysOf DEF Shared, Turn, ReleaseSessionDoes, Leaves, Stays,
       Unfiled, Adds, Drops, TypeOK, StoreTyped, RecordsTyped, LocationsTyped,
       ProcessTyped, HistoryTyped
  <1>6. run'[o] \in OpLocations /\ GateOf(o)'
    BY <1>0, <1>1, <1>3, AtWork, OpsAssumption DEF ReleaseSessionDoes, Leaves, Stays,
       GateOf, Doors, Bookkeeping, Plans, PlanOf, Uploads, OpLocations, Gated,
       Staging, Committing, Copying, Deleting, Moving, Recovering, Probing
  <1>7. PlanOf(o)'
    BY <1>0, <1>1, <1>3 DEF ReleaseSessionDoes, Leaves, Stays, Bookkeeping, Plans,
       PlanOf, Uploads, OpLocations, Gated, Staging, Committing, Copying, Deleting,
       Moving, Recovering, Probing
  <1>8. HeldOf(o)'
    BY <1>0, <1>1, <1>3 DEF ReleaseSessionDoes, Leaves, Stays, Bookkeeping, Plans,
       PlanOf, Held, HeldOf, Bare, Staged, Uploads, OpLocations, Gated, Staging,
       Committing, Copying, Deleting, Moving, Recovering, Probing
  <1>9. BackedOf(o)' /\ RegisteredOf(o)'
    BY <1>0, <1>1, <1>3 DEF ReleaseSessionDoes, Leaves, Stays, Adds, Drops,
       Bookkeeping, Held, HeldOf, Bare, Staged, Traced, BackedOf, RegisteredOf,
       OpLocations, Gated, Staging, Committing, Copying, Deleting, Moving, Recovering,
       Probing
  <1> QED
    BY <1>1, <1>2, <1>3, <1>4, <1>5, <1>6, <1>7, <1>8, <1>9,
       ForegroundBooks DEF OwnParts

\* Aborting the session keeps the books in order.
LEMMA AbortSessionBooks ==
  ASSUME Bookkeeping, NEW o \in Ops, AbortSession(o), UNCHANGED probe
  PROVE  Bookkeeping'
  <1>0. TypeOK /\ o # Rec
    BY OpsAssumption DEF Bookkeeping
  <1>1. AbortSessionDoes(o)
    BY AbortSessionEffect
  <1>2. Foreground(o)
    BY <1>1 DEF AbortSessionDoes
  <1>3. phase = "up" /\ job = None
    BY <1>1, AtWork DEF AbortSessionDoes, OpLocations, Gated, Staging, Committing,
       Copying, Deleting, Moving, Recovering, Probing
  <1>4. Values(o)
    BY <1>0, <1>1, <1>3 DEF Values, AbortSessionDoes, Leaves, Stays, TypeOK,
       StoreTyped, RecordsTyped, LocationsTyped, ProcessTyped, HistoryTyped
  <1>5. Shared(o) /\ Turn(o)
    BY <1>0, <1>1, <1>3, KeysOf DEF Shared, Turn, AbortSessionDoes, Leaves, Stays,
       Unfiled, Adds, Drops, TypeOK, StoreTyped, RecordsTyped, LocationsTyped,
       ProcessTyped, HistoryTyped
  <1>6. run'[o] \in OpLocations /\ GateOf(o)'
    BY <1>0, <1>1, <1>3, AtWork, OpsAssumption DEF AbortSessionDoes, Leaves, Stays,
       GateOf, Doors, Bookkeeping, Plans, PlanOf, Uploads, OpLocations, Gated,
       Staging, Committing, Copying, Deleting, Moving, Recovering, Probing
  <1>7. PlanOf(o)'
    BY <1>0, <1>1, <1>3 DEF AbortSessionDoes, Leaves, Stays, Bookkeeping, Plans,
       PlanOf, Uploads, OpLocations, Gated, Staging, Committing, Copying, Deleting,
       Moving, Recovering, Probing
  <1>8. HeldOf(o)'
    BY <1>0, <1>1, <1>3 DEF AbortSessionDoes, Leaves, Stays, Bookkeeping, Plans,
       PlanOf, Held, HeldOf, Bare, Staged, Uploads, OpLocations, Gated, Staging,
       Committing, Copying, Deleting, Moving, Recovering, Probing
  <1>9. BackedOf(o)' /\ RegisteredOf(o)'
    BY <1>0, <1>1, <1>3 DEF AbortSessionDoes, Leaves, Stays, Adds, Drops, Bookkeeping,
       Held, HeldOf, Bare, Staged, Traced, BackedOf, RegisteredOf, OpLocations, Gated,
       Staging, Committing, Copying, Deleting, Moving, Recovering, Probing
  <1> QED
    BY <1>1, <1>2, <1>3, <1>4, <1>5, <1>6, <1>7, <1>8, <1>9,
       ForegroundBooks DEF OwnParts

\* Looking at the staged object keeps the books in order.
LEMMA InspectBooks ==
  ASSUME Bookkeeping, NEW o \in Ops, Inspect(o), UNCHANGED probe
  PROVE  Bookkeeping'
  <1>0. TypeOK /\ o # Rec
    BY OpsAssumption DEF Bookkeeping
  <1>1. InspectDoes(o)
    BY InspectEffect
  <1>2. Foreground(o)
    BY <1>1 DEF InspectDoes
  <1>3. phase = "up" /\ job = None
    BY <1>1, AtWork DEF InspectDoes, OpLocations, Gated, Staging, Committing, Copying,
       Deleting, Moving, Recovering, Probing
  <1>4. Values(o)
    BY <1>0, <1>1, <1>3 DEF Values, InspectDoes, Leaves, Stays, TypeOK, StoreTyped,
       RecordsTyped, LocationsTyped, ProcessTyped, HistoryTyped
  <1>5. Shared(o) /\ Turn(o)
    BY <1>0, <1>1, <1>3, KeysOf DEF Shared, Turn, InspectDoes, Leaves, Stays, Unfiled,
       Adds, Drops, TypeOK, StoreTyped, RecordsTyped, LocationsTyped, ProcessTyped,
       HistoryTyped
  <1>6. run'[o] \in OpLocations /\ GateOf(o)'
    BY <1>0, <1>1, <1>3, AtWork, OpsAssumption DEF InspectDoes, Leaves, Stays, GateOf,
       Doors, Bookkeeping, Plans, PlanOf, Uploads, OpLocations, Gated, Staging,
       Committing, Copying, Deleting, Moving, Recovering, Probing
  <1>7. PlanOf(o)'
    BY <1>0, <1>1, <1>3 DEF InspectDoes, Leaves, Stays, Bookkeeping, Plans, PlanOf,
       Uploads, OpLocations, Gated, Staging, Committing, Copying, Deleting, Moving,
       Recovering, Probing
  <1>8. HeldOf(o)'
    BY <1>0, <1>1, <1>3 DEF InspectDoes, Leaves, Stays, Bookkeeping, Plans, PlanOf,
       Held, HeldOf, Bare, Staged, Uploads, OpLocations, Gated, Staging, Committing,
       Copying, Deleting, Moving, Recovering, Probing
  <1>9. BackedOf(o)' /\ RegisteredOf(o)'
    BY <1>0, <1>1, <1>3 DEF InspectDoes, Leaves, Stays, Adds, Drops, Bookkeeping,
       Held, HeldOf, Bare, Staged, Traced, BackedOf, RegisteredOf, OpLocations, Gated,
       Staging, Committing, Copying, Deleting, Moving, Recovering, Probing
  <1> QED
    BY <1>1, <1>2, <1>3, <1>4, <1>5, <1>6, <1>7, <1>8, <1>9,
       ForegroundBooks DEF OwnParts

\* Giving up an upload before its transaction keeps the books in order.
LEMMA AbandonBooks ==
  ASSUME Bookkeeping, NEW o \in Ops, Abandon(o), UNCHANGED probe
  PROVE  Bookkeeping'
  <1>0. TypeOK /\ o # Rec
    BY OpsAssumption DEF Bookkeeping
  <1>1. AbandonDoes(o)
    BY AbandonEffect
  <1>2. Foreground(o)
    BY <1>1 DEF AbandonDoes
  <1>3. phase = "up" /\ job = None
    BY <1>1, AtWork DEF AbandonDoes, OpLocations, Gated, Staging, Committing, Copying,
       Deleting, Moving, Recovering, Probing
  <1>4. Values(o)
    BY <1>0, <1>1, <1>3 DEF Values, AbandonDoes, Leaves, Stays, TypeOK, StoreTyped,
       RecordsTyped, LocationsTyped, ProcessTyped, HistoryTyped
  <1>5. Shared(o) /\ Turn(o)
    BY <1>0, <1>1, <1>3, KeysOf DEF Shared, Turn, AbandonDoes, Leaves, Stays, Unfiled,
       Adds, Drops, TypeOK, StoreTyped, RecordsTyped, LocationsTyped, ProcessTyped,
       HistoryTyped
  <1>6. run'[o] \in OpLocations /\ GateOf(o)'
    BY <1>0, <1>1, <1>3, AtWork, OpsAssumption DEF AbandonDoes, Leaves, Stays, GateOf,
       Doors, Bookkeeping, Plans, PlanOf, Uploads, OpLocations, Gated, Staging,
       Committing, Copying, Deleting, Moving, Recovering, Probing
  <1>7. PlanOf(o)'
    BY <1>0, <1>1, <1>3 DEF AbandonDoes, Leaves, Stays, Bookkeeping, Plans, PlanOf,
       Uploads, OpLocations, Gated, Staging, Committing, Copying, Deleting, Moving,
       Recovering, Probing
  <1>8. HeldOf(o)'
    BY <1>0, <1>1, <1>3 DEF AbandonDoes, Leaves, Stays, Bookkeeping, Plans, PlanOf,
       Held, HeldOf, Bare, Staged, Uploads, OpLocations, Gated, Staging, Committing,
       Copying, Deleting, Moving, Recovering, Probing
  <1>9. BackedOf(o)' /\ RegisteredOf(o)'
    BY <1>0, <1>1, <1>3 DEF AbandonDoes, Leaves, Stays, Adds, Drops, Bookkeeping,
       Held, HeldOf, Bare, Staged, Traced, BackedOf, RegisteredOf, OpLocations, Gated,
       Staging, Committing, Copying, Deleting, Moving, Recovering, Probing
  <1> QED
    BY <1>1, <1>2, <1>3, <1>4, <1>5, <1>6, <1>7, <1>8, <1>9,
       ForegroundBooks DEF OwnParts

\* Checking the conditions under the gate keeps the books in order.
LEMMA CheckBooks ==
  ASSUME Bookkeeping, NEW o \in Ops, Check(o), UNCHANGED probe
  PROVE  Bookkeeping'
  <1>0. TypeOK /\ o # Rec
    BY OpsAssumption DEF Bookkeeping
  <1>1. CheckDoes(o)
    BY CheckEffect
  <1>2. Foreground(o)
    BY <1>1 DEF CheckDoes
  <1>3. phase = "up" /\ job = None
    BY <1>1, AtWork DEF CheckDoes, OpLocations, Gated, Staging, Committing, Copying,
       Deleting, Moving, Recovering, Probing
  <1>4. Values(o)
    BY <1>0, <1>1, <1>3, Tags, Mine DEF Values, CheckDoes, Leaves, Stays, TypeOK,
       StoreTyped, RecordsTyped, LocationsTyped, ProcessTyped, HistoryTyped,
       Bookkeeping, Plans, PlanOf, OpLocations, Gated, Staging, Committing, Copying,
       Deleting, Moving, Recovering, Probing
  <1>5. Shared(o) /\ Turn(o)
    BY <1>0, <1>1, <1>3, KeysOf DEF Shared, Turn, CheckDoes, Leaves, Stays, Unfiled,
       Adds, Drops, TypeOK, StoreTyped, RecordsTyped, LocationsTyped, ProcessTyped,
       HistoryTyped
  <1>6. run'[o] \in OpLocations /\ GateOf(o)'
    BY <1>0, <1>1, <1>3, AtWork, OpsAssumption DEF CheckDoes, Leaves, Stays, GateOf,
       Doors, Bookkeeping, Plans, PlanOf, Uploads, OpLocations, Gated, Staging,
       Committing, Copying, Deleting, Moving, Recovering, Probing
  <1>7. PlanOf(o)'
    BY <1>0, <1>1, <1>3 DEF CheckDoes, Leaves, Stays, Bookkeeping, Plans, PlanOf,
       Uploads, OpLocations, Gated, Staging, Committing, Copying, Deleting, Moving,
       Recovering, Probing
  <1>8. HeldOf(o)'
    BY <1>0, <1>1, <1>3, Mine, Tags DEF CheckDoes, Leaves, Stays, Bookkeeping, Plans,
       PlanOf, Held, HeldOf, Bare, Staged, Uploads, OpLocations, Gated, Staging,
       Committing, Copying, Deleting, Moving, Recovering, Probing
  <1>9. BackedOf(o)' /\ RegisteredOf(o)'
    BY <1>0, <1>1, <1>3, Mine, Tags DEF CheckDoes, Leaves, Stays, Adds, Drops,
       Bookkeeping, Held, HeldOf, Bare, Staged, Traced, BackedOf, RegisteredOf,
       OpLocations, Gated, Staging, Committing, Copying, Deleting, Moving, Recovering,
       Probing
  <1> QED
    BY <1>1, <1>2, <1>3, <1>4, <1>5, <1>6, <1>7, <1>8, <1>9,
       ForegroundBooks DEF OwnParts

\* Writing the transaction keeps the books in order.
LEMMA WriteTransactionBooks ==
  ASSUME Bookkeeping, NEW o \in Ops, WriteTransaction(o), UNCHANGED probe
  PROVE  Bookkeeping'
  <1>0. TypeOK /\ o # Rec
    BY OpsAssumption DEF Bookkeeping
  <1>1. WriteTransactionDoes(o)
    BY WriteTransactionEffect
  <1>2. Foreground(o)
    BY <1>1 DEF WriteTransactionDoes
  <1>3. phase = "up" /\ job = None
    BY <1>1, AtWork DEF WriteTransactionDoes, OpLocations, Gated, Staging, Committing,
       Copying, Deleting, Moving, Recovering, Probing
  <1>4. Values(o)
    BY <1>0, <1>1, <1>3 DEF Values, WriteTransactionDoes, Leaves, Stays, TypeOK,
       StoreTyped, RecordsTyped, LocationsTyped, ProcessTyped, HistoryTyped
  <1>5. Shared(o) /\ Turn(o)
    BY <1>0, <1>1, <1>3, KeysOf DEF Shared, Turn, WriteTransactionDoes, Leaves, Stays,
       Unfiled, Adds, Drops, TypeOK, StoreTyped, RecordsTyped, LocationsTyped,
       ProcessTyped, HistoryTyped
  <1>6. run'[o] \in OpLocations /\ GateOf(o)'
    BY <1>0, <1>1, <1>3, AtWork, OpsAssumption DEF WriteTransactionDoes, Leaves,
       Stays, GateOf, Doors, Bookkeeping, Plans, PlanOf, Uploads, OpLocations, Gated,
       Staging, Committing, Copying, Deleting, Moving, Recovering, Probing
  <1>7. PlanOf(o)'
    BY <1>0, <1>1, <1>3 DEF WriteTransactionDoes, Leaves, Stays, Bookkeeping, Plans,
       PlanOf, Uploads, OpLocations, Gated, Staging, Committing, Copying, Deleting,
       Moving, Recovering, Probing
  <1>8. HeldOf(o)'
    BY <1>0, <1>1, <1>3, TransactionFields DEF WriteTransactionDoes, Leaves, Stays,
       Bookkeeping, Plans, PlanOf, Held, HeldOf, Bare, Staged, Uploads, OpLocations,
       Gated, Staging, Committing, Copying, Deleting, Moving, Recovering, Probing
  <1>9. BackedOf(o)' /\ RegisteredOf(o)'
    BY <1>0, <1>1, <1>3, TransactionFields DEF WriteTransactionDoes, Leaves, Stays,
       Adds, Drops, Bookkeeping, Held, HeldOf, Bare, Staged, Traced, BackedOf,
       RegisteredOf, OpLocations, Gated, Staging, Committing, Copying, Deleting,
       Moving, Recovering, Probing
  <1> QED
    BY <1>1, <1>2, <1>3, <1>4, <1>5, <1>6, <1>7, <1>8, <1>9,
       ForegroundBooks DEF OwnParts

\* Handing the staged object over to the transaction keeps the books in order.
LEMMA ReleaseIntentBooks ==
  ASSUME Bookkeeping, NEW o \in Ops, ReleaseIntent(o), UNCHANGED probe
  PROVE  Bookkeeping'
  <1>0. TypeOK /\ o # Rec
    BY OpsAssumption DEF Bookkeeping
  <1>1. ReleaseIntentDoes(o)
    BY ReleaseIntentEffect
  <1>2. Foreground(o)
    BY <1>1 DEF ReleaseIntentDoes
  <1>3. phase = "up" /\ job = None
    BY <1>1, AtWork DEF ReleaseIntentDoes, OpLocations, Gated, Staging, Committing,
       Copying, Deleting, Moving, Recovering, Probing
  <1>4. Values(o)
    BY <1>0, <1>1, <1>3 DEF Values, ReleaseIntentDoes, Leaves, Stays, TypeOK,
       StoreTyped, RecordsTyped, LocationsTyped, ProcessTyped, HistoryTyped
  <1>5. Shared(o) /\ Turn(o)
    BY <1>0, <1>1, <1>3, KeysOf DEF Shared, Turn, ReleaseIntentDoes, Leaves, Stays,
       Unfiled, Adds, Drops, TypeOK, StoreTyped, RecordsTyped, LocationsTyped,
       ProcessTyped, HistoryTyped
  <1>6. run'[o] \in OpLocations /\ GateOf(o)'
    BY <1>0, <1>1, <1>3, AtWork, OpsAssumption DEF ReleaseIntentDoes, Leaves, Stays,
       GateOf, Doors, Bookkeeping, Plans, PlanOf, Uploads, OpLocations, Gated,
       Staging, Committing, Copying, Deleting, Moving, Recovering, Probing
  <1>7. PlanOf(o)'
    BY <1>0, <1>1, <1>3 DEF ReleaseIntentDoes, Leaves, Stays, Bookkeeping, Plans,
       PlanOf, Uploads, OpLocations, Gated, Staging, Committing, Copying, Deleting,
       Moving, Recovering, Probing
  <1>8. HeldOf(o)'
    BY <1>0, <1>1, <1>3 DEF ReleaseIntentDoes, Leaves, Stays, Bookkeeping, Plans,
       PlanOf, Held, HeldOf, Bare, Staged, Uploads, OpLocations, Gated, Staging,
       Committing, Copying, Deleting, Moving, Recovering, Probing
  <1>9. BackedOf(o)' /\ RegisteredOf(o)'
    BY <1>0, <1>1, <1>3 DEF ReleaseIntentDoes, Leaves, Stays, Adds, Drops,
       Bookkeeping, Held, HeldOf, Bare, Staged, Traced, BackedOf, RegisteredOf,
       OpLocations, Gated, Staging, Committing, Copying, Deleting, Moving, Recovering,
       Probing
  <1> QED
    BY <1>1, <1>2, <1>3, <1>4, <1>5, <1>6, <1>7, <1>8, <1>9,
       ForegroundBooks DEF OwnParts

\* Copying the target to its backup keeps the books in order.
LEMMA BackUpBooks ==
  ASSUME Bookkeeping, NEW o \in Ops, BackUp(o), UNCHANGED probe
  PROVE  Bookkeeping'
  <1>0. TypeOK /\ o # Rec
    BY OpsAssumption DEF Bookkeeping
  <1>1. BackUpDoes(o)
    BY BackUpEffect
  <1>2. Foreground(o)
    BY <1>1 DEF BackUpDoes
  <1>3. phase = "up" /\ job = None
    BY <1>1, AtWork DEF BackUpDoes, OpLocations, Gated, Staging, Committing, Copying,
       Deleting, Moving, Recovering, Probing
  <1>4. Values(o)
    <2>1. file[plan[o].to] \in Objects /\ backup'[o] \in Objects \cup {None}
      BY <1>0, <1>1, Mine, Copies DEF BackUpDoes, Bookkeeping, Plans, PlanOf, Held,
         HeldOf
    <2> QED
      BY <1>0, <1>1, <2>1 DEF Values, BackUpDoes, Leaves, Stays, TypeOK, StoreTyped,
         RecordsTyped, ProcessTyped, HistoryTyped
  <1>5. Shared(o) /\ Turn(o)
    BY <1>0, <1>1, <1>3, KeysOf DEF Shared, Turn, BackUpDoes, Leaves, Stays, Unfiled,
       Adds, Drops, TypeOK, StoreTyped, RecordsTyped, LocationsTyped, ProcessTyped,
       HistoryTyped
  <1>6. run'[o] \in OpLocations /\ GateOf(o)'
    BY <1>0, <1>1, <1>3, AtWork, OpsAssumption DEF BackUpDoes, Leaves, Stays, GateOf,
       Doors, Bookkeeping, Plans, PlanOf, Uploads, OpLocations, Gated, Staging,
       Committing, Copying, Deleting, Moving, Recovering, Probing
  <1>7. PlanOf(o)'
    BY <1>0, <1>1, <1>3 DEF BackUpDoes, Leaves, Stays, Bookkeeping, Plans, PlanOf,
       Uploads, OpLocations, Gated, Staging, Committing, Copying, Deleting, Moving,
       Recovering, Probing
  <1>8. HeldOf(o)'
    BY <1>0, <1>1, <1>3 DEF BackUpDoes, Leaves, Stays, Bookkeeping, Plans, PlanOf,
       Held, HeldOf, Bare, Staged, Uploads, OpLocations, Gated, Staging, Committing,
       Copying, Deleting, Moving, Recovering, Probing
  <1>9. BackedOf(o)' /\ RegisteredOf(o)'
    BY <1>0, <1>1, <1>3 DEF BackUpDoes, Leaves, Stays, Adds, Drops, Bookkeeping, Held,
       HeldOf, Bare, Staged, Traced, BackedOf, RegisteredOf, OpLocations, Gated,
       Staging, Committing, Copying, Deleting, Moving, Recovering, Probing
  <1> QED
    BY <1>1, <1>2, <1>3, <1>4, <1>5, <1>6, <1>7, <1>8, <1>9,
       ForegroundBooks DEF OwnParts

\* Recording the backup keeps the books in order.
LEMMA MarkBackupBooks ==
  ASSUME Bookkeeping, NEW o \in Ops, MarkBackup(o), UNCHANGED probe
  PROVE  Bookkeeping'
  <1>0. TypeOK /\ o # Rec
    BY OpsAssumption DEF Bookkeeping
  <1>1. MarkBackupDoes(o)
    BY MarkBackupEffect
  <1>2. Foreground(o)
    BY <1>1 DEF MarkBackupDoes
  <1>3. phase = "up" /\ job = None
    BY <1>1, AtWork DEF MarkBackupDoes, OpLocations, Gated, Staging, Committing,
       Copying, Deleting, Moving, Recovering, Probing
  <1>4. Values(o)
    BY <1>0, <1>1, <1>3 DEF Values, MarkBackupDoes, Leaves, Stays, TypeOK, StoreTyped,
       RecordsTyped, LocationsTyped, ProcessTyped, HistoryTyped
  <1>5. Shared(o) /\ Turn(o)
    BY <1>0, <1>1, <1>3, KeysOf DEF Shared, Turn, MarkBackupDoes, Leaves, Stays,
       Unfiled, Adds, Drops, TypeOK, StoreTyped, RecordsTyped, LocationsTyped,
       ProcessTyped, HistoryTyped
  <1>6. run'[o] \in OpLocations /\ GateOf(o)'
    BY <1>0, <1>1, <1>3, AtWork, OpsAssumption DEF MarkBackupDoes, Leaves, Stays,
       GateOf, Doors, Bookkeeping, Plans, PlanOf, Uploads, OpLocations, Gated,
       Staging, Committing, Copying, Deleting, Moving, Recovering, Probing
  <1>7. PlanOf(o)'
    BY <1>0, <1>1, <1>3 DEF MarkBackupDoes, Leaves, Stays, Bookkeeping, Plans, PlanOf,
       Uploads, OpLocations, Gated, Staging, Committing, Copying, Deleting, Moving,
       Recovering, Probing
  <1>8. HeldOf(o)'
    BY <1>0, <1>1, <1>3, TransactionFields DEF MarkBackupDoes, Leaves, Stays,
       Bookkeeping, Plans, PlanOf, Held, HeldOf, Bare, Staged, Uploads, OpLocations,
       Gated, Staging, Committing, Copying, Deleting, Moving, Recovering, Probing
  <1>9. BackedOf(o)' /\ RegisteredOf(o)'
    BY <1>0, <1>1, <1>3, TransactionFields DEF MarkBackupDoes, Leaves, Stays, Adds,
       Drops, Bookkeeping, Held, HeldOf, Bare, Staged, Traced, BackedOf, RegisteredOf,
       OpLocations, Gated, Staging, Committing, Copying, Deleting, Moving, Recovering,
       Probing
  <1> QED
    BY <1>1, <1>2, <1>3, <1>4, <1>5, <1>6, <1>7, <1>8, <1>9,
       ForegroundBooks DEF OwnParts

\* Probing the store's conditional writes keeps the books in order.
LEMMA VerifyBooks ==
  ASSUME Bookkeeping, NEW o \in Ops, Verify(o), UNCHANGED probe
  PROVE  Bookkeeping'
  <1>0. TypeOK /\ o # Rec
    BY OpsAssumption DEF Bookkeeping
  <1>1. VerifyDoes(o)
    BY VerifyEffect
  <1>2. Foreground(o)
    BY <1>1 DEF VerifyDoes
  <1>3. phase = "up" /\ job = None
    BY <1>1, AtWork DEF VerifyDoes, OpLocations, Gated, Staging, Committing, Copying,
       Deleting, Moving, Recovering, Probing
  <1>4. Values(o)
    BY <1>0, <1>1, <1>3, UploadedOwn DEF Values, VerifyDoes, Leaves, Stays, TypeOK,
       StoreTyped, RecordsTyped, LocationsTyped, ProcessTyped, HistoryTyped
  <1>5. Shared(o) /\ Turn(o)
    BY <1>0, <1>1, <1>3, KeysOf DEF Shared, Turn, VerifyDoes, Leaves, Stays, Unfiled,
       Adds, Drops, TypeOK, StoreTyped, RecordsTyped, LocationsTyped, ProcessTyped,
       HistoryTyped
  <1>6. run'[o] \in OpLocations /\ GateOf(o)'
    BY <1>0, <1>1, <1>3, AtWork, OpsAssumption DEF VerifyDoes, Leaves, Stays, GateOf,
       Doors, Bookkeeping, Plans, PlanOf, Uploads, OpLocations, Gated, Staging,
       Committing, Copying, Deleting, Moving, Recovering, Probing
  <1>7. PlanOf(o)'
    BY <1>0, <1>1, <1>3 DEF VerifyDoes, Leaves, Stays, Bookkeeping, Plans, PlanOf,
       Uploads, OpLocations, Gated, Staging, Committing, Copying, Deleting, Moving,
       Recovering, Probing
  <1>8. HeldOf(o)'
    BY <1>0, <1>1, <1>3, UploadedOwn DEF VerifyDoes, Leaves, Stays, Bookkeeping,
       Plans, PlanOf, Held, HeldOf, Bare, Staged, Uploads, OpLocations, Gated,
       Staging, Committing, Copying, Deleting, Moving, Recovering, Probing
  <1>9. BackedOf(o)' /\ RegisteredOf(o)'
    BY <1>0, <1>1, <1>3, UploadedOwn DEF VerifyDoes, Leaves, Stays, Adds, Drops,
       Bookkeeping, Held, HeldOf, Bare, Staged, Traced, BackedOf, RegisteredOf,
       OpLocations, Gated, Staging, Committing, Copying, Deleting, Moving, Recovering,
       Probing
  <1> QED
    BY <1>1, <1>2, <1>3, <1>4, <1>5, <1>6, <1>7, <1>8, <1>9,
       ForegroundBooks DEF OwnParts

\* Announcing a conditional publication keeps the books in order.
LEMMA MarkStartedBooks ==
  ASSUME Bookkeeping, NEW o \in Ops, MarkStarted(o), UNCHANGED probe
  PROVE  Bookkeeping'
  <1>0. TypeOK /\ o # Rec
    BY OpsAssumption DEF Bookkeeping
  <1>1. MarkStartedDoes(o)
    BY MarkStartedEffect
  <1>2. Foreground(o)
    BY <1>1 DEF MarkStartedDoes
  <1>3. phase = "up" /\ job = None
    BY <1>1, AtWork DEF MarkStartedDoes, OpLocations, Gated, Staging, Committing,
       Copying, Deleting, Moving, Recovering, Probing
  <1>4. Values(o)
    BY <1>0, <1>1, <1>3 DEF Values, MarkStartedDoes, Leaves, Stays, TypeOK,
       StoreTyped, RecordsTyped, LocationsTyped, ProcessTyped, HistoryTyped
  <1>5. Shared(o) /\ Turn(o)
    BY <1>0, <1>1, <1>3, KeysOf DEF Shared, Turn, MarkStartedDoes, Leaves, Stays,
       Unfiled, Adds, Drops, TypeOK, StoreTyped, RecordsTyped, LocationsTyped,
       ProcessTyped, HistoryTyped
  <1>6. run'[o] \in OpLocations /\ GateOf(o)'
    BY <1>0, <1>1, <1>3, AtWork, OpsAssumption DEF MarkStartedDoes, Leaves, Stays,
       GateOf, Doors, Bookkeeping, Plans, PlanOf, Uploads, OpLocations, Gated,
       Staging, Committing, Copying, Deleting, Moving, Recovering, Probing
  <1>7. PlanOf(o)'
    BY <1>0, <1>1, <1>3 DEF MarkStartedDoes, Leaves, Stays, Bookkeeping, Plans,
       PlanOf, Uploads, OpLocations, Gated, Staging, Committing, Copying, Deleting,
       Moving, Recovering, Probing
  <1>8. HeldOf(o)'
    BY <1>0, <1>1, <1>3, TransactionFields DEF MarkStartedDoes, Leaves, Stays,
       Bookkeeping, Plans, PlanOf, Held, HeldOf, Bare, Staged, Uploads, OpLocations,
       Gated, Staging, Committing, Copying, Deleting, Moving, Recovering, Probing
  <1>9. BackedOf(o)' /\ RegisteredOf(o)'
    BY <1>0, <1>1, <1>3, TransactionFields DEF MarkStartedDoes, Leaves, Stays, Adds,
       Drops, Bookkeeping, Held, HeldOf, Bare, Staged, Traced, BackedOf, RegisteredOf,
       OpLocations, Gated, Staging, Committing, Copying, Deleting, Moving, Recovering,
       Probing
  <1> QED
    BY <1>1, <1>2, <1>3, <1>4, <1>5, <1>6, <1>7, <1>8, <1>9,
       ForegroundBooks DEF OwnParts

\* The publishing copy keeps the books in order.
LEMMA PublishBooks ==
  ASSUME Bookkeeping, NEW o \in Ops, Publish(o), UNCHANGED probe
  PROVE  Bookkeeping'
  <1>0. TypeOK /\ o # Rec
    BY OpsAssumption DEF Bookkeeping
  <1>1. PublishDoes(o)
    BY PublishEffect
  <1>2. Foreground(o)
    BY <1>1 DEF PublishDoes
  <1>3. phase = "up" /\ job = None
    BY <1>1, AtWork DEF PublishDoes, OpLocations, Gated, Staging, Committing, Copying,
       Deleting, Moving, Recovering, Probing
  <1>4. Values(o)
    BY <1>0, <1>1, <1>3 DEF Values, PublishDoes, Leaves, Stays, TypeOK, StoreTyped,
       RecordsTyped, LocationsTyped, ProcessTyped, HistoryTyped
  <1>5. Shared(o) /\ Turn(o)
    <2>1. /\ UNCHANGED pending
          /\ Turn(o)
      BY <1>0, <1>1 DEF Turn, PublishDoes, Stays, Leaves
    <2>2. Unfiled \/ \E x \in Objects \cup {None} : Writes(o, plan[o].to, x)
      BY <1>0, <1>1, Mine, Copies DEF PublishDoes, Bookkeeping, Held, HeldOf, Committing
    <2>3. plan[o].to \in Files /\ gate = o
      BY AtWork, <1>0, <1>1, Mine DEF PublishDoes, Bookkeeping, Plans, PlanOf, Gated,
         Committing, Copying, Deleting, Moving
    <2> QED
      BY <1>0, <2>1, <2>2, <2>3, FilesWritten DEF Shared, Turn, Unfiled, TypeOK,
         StoreTyped, ProcessTyped, HistoryTyped
  <1>6. run'[o] \in OpLocations /\ GateOf(o)'
    BY <1>0, <1>1, <1>3, AtWork, OpsAssumption DEF PublishDoes, Leaves, Stays, GateOf,
       Doors, Bookkeeping, Plans, PlanOf, Uploads, OpLocations, Gated, Staging,
       Committing, Copying, Deleting, Moving, Recovering, Probing
  <1>7. PlanOf(o)'
    BY <1>0, <1>1, <1>3 DEF PublishDoes, Leaves, Stays, Bookkeeping, Plans, PlanOf,
       Uploads, OpLocations, Gated, Staging, Committing, Copying, Deleting, Moving,
       Recovering, Probing
  <1>8. HeldOf(o)'
    BY <1>0, <1>1, <1>3 DEF PublishDoes, Leaves, Stays, Bookkeeping, Plans, PlanOf,
       Held, HeldOf, Bare, Staged, Uploads, OpLocations, Gated, Staging, Committing,
       Copying, Deleting, Moving, Recovering, Probing
  <1>9. BackedOf(o)' /\ RegisteredOf(o)'
    BY <1>0, <1>1, <1>3 DEF PublishDoes, Leaves, Stays, Adds, Drops, Bookkeeping,
       Held, HeldOf, Bare, Staged, Traced, BackedOf, RegisteredOf, OpLocations, Gated,
       Staging, Committing, Copying, Deleting, Moving, Recovering, Probing
  <1> QED
    BY <1>1, <1>2, <1>3, <1>4, <1>5, <1>6, <1>7, <1>8, <1>9,
       ForegroundBooks DEF OwnParts

\* Recording a refused publication keeps the books in order.
LEMMA MarkRejectedBooks ==
  ASSUME Bookkeeping, NEW o \in Ops, MarkRejected(o), UNCHANGED probe
  PROVE  Bookkeeping'
  <1>0. TypeOK /\ o # Rec
    BY OpsAssumption DEF Bookkeeping
  <1>1. MarkRejectedDoes(o)
    BY MarkRejectedEffect
  <1>2. Foreground(o)
    BY <1>1 DEF MarkRejectedDoes
  <1>3. phase = "up" /\ job = None
    BY <1>1, AtWork DEF MarkRejectedDoes, OpLocations, Gated, Staging, Committing,
       Copying, Deleting, Moving, Recovering, Probing
  <1>4. Values(o)
    BY <1>0, <1>1, <1>3 DEF Values, MarkRejectedDoes, Leaves, Stays, TypeOK,
       StoreTyped, RecordsTyped, LocationsTyped, ProcessTyped, HistoryTyped
  <1>5. Shared(o) /\ Turn(o)
    BY <1>0, <1>1, <1>3, KeysOf DEF Shared, Turn, MarkRejectedDoes, Leaves, Stays,
       Unfiled, Adds, Drops, TypeOK, StoreTyped, RecordsTyped, LocationsTyped,
       ProcessTyped, HistoryTyped
  <1>6. run'[o] \in OpLocations /\ GateOf(o)'
    BY <1>0, <1>1, <1>3, AtWork, OpsAssumption DEF MarkRejectedDoes, Leaves, Stays,
       GateOf, Doors, Bookkeeping, Plans, PlanOf, Uploads, OpLocations, Gated,
       Staging, Committing, Copying, Deleting, Moving, Recovering, Probing
  <1>7. PlanOf(o)'
    BY <1>0, <1>1, <1>3 DEF MarkRejectedDoes, Leaves, Stays, Bookkeeping, Plans,
       PlanOf, Uploads, OpLocations, Gated, Staging, Committing, Copying, Deleting,
       Moving, Recovering, Probing
  <1>8. HeldOf(o)'
    BY <1>0, <1>1, <1>3, TransactionFields DEF MarkRejectedDoes, Leaves, Stays,
       Bookkeeping, Plans, PlanOf, Held, HeldOf, Bare, Staged, Uploads, OpLocations,
       Gated, Staging, Committing, Copying, Deleting, Moving, Recovering, Probing
  <1>9. BackedOf(o)' /\ RegisteredOf(o)'
    BY <1>0, <1>1, <1>3, TransactionFields DEF MarkRejectedDoes, Leaves, Stays, Adds,
       Drops, Bookkeeping, Held, HeldOf, Bare, Staged, Traced, BackedOf, RegisteredOf,
       OpLocations, Gated, Staging, Committing, Copying, Deleting, Moving, Recovering,
       Probing
  <1> QED
    BY <1>1, <1>2, <1>3, <1>4, <1>5, <1>6, <1>7, <1>8, <1>9,
       ForegroundBooks DEF OwnParts

\* Looking for proof of the publication keeps the books in order.
LEMMA ConfirmBooks ==
  ASSUME Bookkeeping, NEW o \in Ops, Confirm(o), UNCHANGED probe
  PROVE  Bookkeeping'
  <1>0. TypeOK /\ o # Rec
    BY OpsAssumption DEF Bookkeeping
  <1>1. ConfirmDoes(o)
    BY ConfirmEffect
  <1>2. Foreground(o)
    BY <1>1 DEF ConfirmDoes
  <1>3. phase = "up" /\ job = None
    BY <1>1, AtWork DEF ConfirmDoes, OpLocations, Gated, Staging, Committing, Copying,
       Deleting, Moving, Recovering, Probing
  <1>4. Values(o)
    BY <1>0, <1>1, <1>3 DEF Values, ConfirmDoes, Leaves, Stays, TypeOK, StoreTyped,
       RecordsTyped, LocationsTyped, ProcessTyped, HistoryTyped
  <1>5. Shared(o) /\ Turn(o)
    BY <1>0, <1>1, <1>3, KeysOf DEF Shared, Turn, ConfirmDoes, Leaves, Stays, Unfiled,
       Adds, Drops, TypeOK, StoreTyped, RecordsTyped, LocationsTyped, ProcessTyped,
       HistoryTyped
  <1>6. run'[o] \in OpLocations /\ GateOf(o)'
    BY <1>0, <1>1, <1>3, AtWork, OpsAssumption DEF ConfirmDoes, Leaves, Stays, GateOf,
       Doors, Bookkeeping, Plans, PlanOf, Uploads, OpLocations, Gated, Staging,
       Committing, Copying, Deleting, Moving, Recovering, Probing
  <1>7. PlanOf(o)'
    BY <1>0, <1>1, <1>3 DEF ConfirmDoes, Leaves, Stays, Bookkeeping, Plans, PlanOf,
       Uploads, OpLocations, Gated, Staging, Committing, Copying, Deleting, Moving,
       Recovering, Probing
  <1>8. HeldOf(o)'
    BY <1>0, <1>1, <1>3 DEF ConfirmDoes, Leaves, Stays, Bookkeeping, Plans, PlanOf,
       Held, HeldOf, Bare, Staged, Uploads, OpLocations, Gated, Staging, Committing,
       Copying, Deleting, Moving, Recovering, Probing
  <1>9. BackedOf(o)' /\ RegisteredOf(o)'
    BY <1>0, <1>1, <1>3 DEF ConfirmDoes, Leaves, Stays, Adds, Drops, Bookkeeping,
       Held, HeldOf, Bare, Staged, Traced, BackedOf, RegisteredOf, OpLocations, Gated,
       Staging, Committing, Copying, Deleting, Moving, Recovering, Probing
  <1> QED
    BY <1>1, <1>2, <1>3, <1>4, <1>5, <1>6, <1>7, <1>8, <1>9,
       ForegroundBooks DEF OwnParts

\* Rolling the target back keeps the books in order.
LEMMA RestoreBooks ==
  ASSUME Bookkeeping, NEW o \in Ops, Restore(o), UNCHANGED probe
  PROVE  Bookkeeping'
  <1>0. TypeOK /\ o # Rec
    BY OpsAssumption DEF Bookkeeping
  <1>1. RestoreDoes(o)
    BY RestoreEffect
  <1>2. Foreground(o)
    BY <1>1 DEF RestoreDoes
  <1>3. phase = "up" /\ job = None
    BY <1>1, AtWork DEF RestoreDoes, OpLocations, Gated, Staging, Committing, Copying,
       Deleting, Moving, Recovering, Probing
  <1>4. Values(o)
    BY <1>0, <1>1, <1>3 DEF Values, RestoreDoes, Leaves, Stays, TypeOK, StoreTyped,
       RecordsTyped, LocationsTyped, ProcessTyped, HistoryTyped
  <1>5. Shared(o) /\ Turn(o)
    <2>1. /\ UNCHANGED pending
          /\ Turn(o)
      BY <1>0, <1>1 DEF Turn, RestoreDoes, Stays, Leaves
    <2>2. Unfiled \/ \E x \in Objects \cup {None} : Writes(o, plan[o].to, x)
      BY <1>0, <1>1, Mine, Copies DEF RestoreDoes, Bookkeeping, Held, HeldOf
    <2>3. plan[o].to \in Files /\ gate = o
      BY AtWork, <1>0, <1>1, Mine DEF RestoreDoes, Bookkeeping, Plans, PlanOf, Gated,
         Committing, Copying, Deleting, Moving
    <2> QED
      BY <1>0, <2>1, <2>2, <2>3, FilesWritten DEF Shared, Turn, Unfiled, TypeOK,
         StoreTyped, ProcessTyped, HistoryTyped
  <1>6. run'[o] \in OpLocations /\ GateOf(o)'
    BY <1>0, <1>1, <1>3, AtWork, OpsAssumption DEF RestoreDoes, Leaves, Stays, GateOf,
       Doors, Bookkeeping, Plans, PlanOf, Uploads, OpLocations, Gated, Staging,
       Committing, Copying, Deleting, Moving, Recovering, Probing
  <1>7. PlanOf(o)'
    BY <1>0, <1>1, <1>3 DEF RestoreDoes, Leaves, Stays, Bookkeeping, Plans, PlanOf,
       Uploads, OpLocations, Gated, Staging, Committing, Copying, Deleting, Moving,
       Recovering, Probing
  <1>8. HeldOf(o)'
    BY <1>0, <1>1, <1>3 DEF RestoreDoes, Leaves, Stays, Bookkeeping, Plans, PlanOf,
       Held, HeldOf, Bare, Staged, Uploads, OpLocations, Gated, Staging, Committing,
       Copying, Deleting, Moving, Recovering, Probing
  <1>9. BackedOf(o)' /\ RegisteredOf(o)'
    BY <1>0, <1>1, <1>3 DEF RestoreDoes, Leaves, Stays, Adds, Drops, Bookkeeping,
       Held, HeldOf, Bare, Staged, Traced, BackedOf, RegisteredOf, OpLocations, Gated,
       Staging, Committing, Copying, Deleting, Moving, Recovering, Probing
  <1> QED
    BY <1>1, <1>2, <1>3, <1>4, <1>5, <1>6, <1>7, <1>8, <1>9,
       ForegroundBooks DEF OwnParts

\* Recording the restored ETag keeps the books in order.
LEMMA RemarkBooks ==
  ASSUME Bookkeeping, NEW o \in Ops, Remark(o), UNCHANGED probe
  PROVE  Bookkeeping'
  <1>0. TypeOK /\ o # Rec
    BY OpsAssumption DEF Bookkeeping
  <1>1. RemarkDoes(o)
    BY RemarkEffect
  <1>2. Foreground(o)
    BY <1>1 DEF RemarkDoes
  <1>3. phase = "up" /\ job = None
    BY <1>1, AtWork DEF RemarkDoes, OpLocations, Gated, Staging, Committing, Copying,
       Deleting, Moving, Recovering, Probing
  <1>4. Values(o)
    BY <1>0, <1>1, <1>3 DEF Values, RemarkDoes, Leaves, Stays, TypeOK, StoreTyped,
       RecordsTyped, LocationsTyped, ProcessTyped, HistoryTyped
  <1>5. Shared(o) /\ Turn(o)
    BY <1>0, <1>1, <1>3, KeysOf DEF Shared, Turn, RemarkDoes, Leaves, Stays, Unfiled,
       Adds, Drops, TypeOK, StoreTyped, RecordsTyped, LocationsTyped, ProcessTyped,
       HistoryTyped
  <1>6. run'[o] \in OpLocations /\ GateOf(o)'
    BY <1>0, <1>1, <1>3, AtWork, OpsAssumption DEF RemarkDoes, Leaves, Stays, GateOf,
       Doors, Bookkeeping, Plans, PlanOf, Uploads, OpLocations, Gated, Staging,
       Committing, Copying, Deleting, Moving, Recovering, Probing
  <1>7. PlanOf(o)'
    BY <1>0, <1>1, <1>3 DEF RemarkDoes, Leaves, Stays, Bookkeeping, Plans, PlanOf,
       Uploads, OpLocations, Gated, Staging, Committing, Copying, Deleting, Moving,
       Recovering, Probing
  <1>8. HeldOf(o)'
    BY <1>0, <1>1, <1>3, TransactionFields DEF RemarkDoes, Leaves, Stays, Bookkeeping,
       Plans, PlanOf, Held, HeldOf, Bare, Staged, Uploads, OpLocations, Gated,
       Staging, Committing, Copying, Deleting, Moving, Recovering, Probing
  <1>9. BackedOf(o)' /\ RegisteredOf(o)'
    BY <1>0, <1>1, <1>3, TransactionFields DEF RemarkDoes, Leaves, Stays, Adds, Drops,
       Bookkeeping, Held, HeldOf, Bare, Staged, Traced, BackedOf, RegisteredOf,
       OpLocations, Gated, Staging, Committing, Copying, Deleting, Moving, Recovering,
       Probing
  <1> QED
    BY <1>1, <1>2, <1>3, <1>4, <1>5, <1>6, <1>7, <1>8, <1>9,
       ForegroundBooks DEF OwnParts

\* Discarding what an upload held keeps the books in order.
LEMMA CleanBooks ==
  ASSUME Bookkeeping, NEW o \in Ops, Clean(o), UNCHANGED probe
  PROVE  Bookkeeping'
  <1>0. TypeOK /\ o # Rec
    BY OpsAssumption DEF Bookkeeping
  <1>1. CleanDoes(o)
    BY CleanEffect
  <1>2. Foreground(o)
    BY <1>1 DEF CleanDoes
  <1>3. phase = "up" /\ job = None
    BY <1>1, AtWork DEF CleanDoes, OpLocations, Gated, Staging, Committing, Copying,
       Deleting, Moving, Recovering, Probing
  <1>4. Values(o)
    BY <1>0, <1>1, <1>3 DEF Values, CleanDoes, Leaves, Stays, TypeOK, StoreTyped,
       RecordsTyped, LocationsTyped, ProcessTyped, HistoryTyped, Discards
  <1>5. Shared(o) /\ Turn(o)
    BY <1>0, <1>1, <1>3, KeysOf DEF Shared, Turn, CleanDoes, Leaves, Stays, Unfiled,
       Adds, Drops, TypeOK, StoreTyped, RecordsTyped, LocationsTyped, ProcessTyped,
       HistoryTyped, Discards
  <1>6. run'[o] \in OpLocations /\ GateOf(o)'
    BY <1>0, <1>1, <1>3, AtWork, OpsAssumption DEF CleanDoes, Leaves, Stays, GateOf,
       Doors, Bookkeeping, Plans, PlanOf, Uploads, OpLocations, Gated, Staging,
       Committing, Copying, Deleting, Moving, Recovering, Probing
  <1>7. PlanOf(o)'
    BY <1>0, <1>1, <1>3 DEF CleanDoes, Leaves, Stays, Bookkeeping, Plans, PlanOf,
       Uploads, OpLocations, Gated, Staging, Committing, Copying, Deleting, Moving,
       Recovering, Probing
  <1>8. HeldOf(o)'
    BY <1>0, <1>1, <1>3 DEF CleanDoes, Leaves, Stays, Bookkeeping, Plans, PlanOf,
       Held, HeldOf, Bare, Staged, Uploads, OpLocations, Gated, Staging, Committing,
       Copying, Deleting, Moving, Recovering, Probing, Discards
  <1>9. BackedOf(o)' /\ RegisteredOf(o)'
    BY <1>0, <1>1, <1>3 DEF CleanDoes, Leaves, Stays, Adds, Drops, Bookkeeping, Held,
       HeldOf, Bare, Staged, Traced, BackedOf, RegisteredOf, OpLocations, Gated,
       Staging, Committing, Copying, Deleting, Moving, Recovering, Probing, Discards
  <1> QED
    BY <1>1, <1>2, <1>3, <1>4, <1>5, <1>6, <1>7, <1>8, <1>9,
       ForegroundBooks DEF OwnParts

\* The copy of a file keeps the books in order.
LEMMA CopyFileBooks ==
  ASSUME Bookkeeping, NEW o \in Ops, CopyFile(o), UNCHANGED probe
  PROVE  Bookkeeping'
  <1>0. TypeOK /\ o # Rec
    BY OpsAssumption DEF Bookkeeping
  <1>1. CopyFileDoes(o)
    BY CopyFileEffect
  <1>2. Foreground(o)
    BY <1>1 DEF CopyFileDoes
  <1>3. phase = "up" /\ job = None
    BY <1>1, AtWork DEF CopyFileDoes, OpLocations, Gated, Staging, Committing,
       Copying, Deleting, Moving, Recovering, Probing
  <1>4. Values(o)
    BY <1>0, <1>1, <1>3 DEF Values, CopyFileDoes, Leaves, Stays, TypeOK, StoreTyped,
       RecordsTyped, LocationsTyped, ProcessTyped, HistoryTyped
  <1>5. Shared(o) /\ Turn(o)
    <2>1. /\ UNCHANGED pending
          /\ Turn(o)
      BY <1>0, <1>1 DEF Turn, CopyFileDoes, Stays, Leaves
    <2>2. Unfiled \/ \E x \in Objects \cup {None} : Writes(o, plan[o].to, x)
      BY <1>0, <1>1, Mine, Copies DEF CopyFileDoes, Bookkeeping, Plans, PlanOf
    <2>3. plan[o].to \in Files /\ gate = o
      BY AtWork, <1>0, <1>1, Mine DEF CopyFileDoes, Bookkeeping, Plans, PlanOf, Gated,
         Committing, Copying, Deleting, Moving
    <2> QED
      BY <1>0, <2>1, <2>2, <2>3, FilesWritten DEF Shared, Turn, Unfiled, TypeOK,
         StoreTyped, ProcessTyped, HistoryTyped
  <1>6. run'[o] \in OpLocations /\ GateOf(o)'
    BY <1>0, <1>1, <1>3, AtWork, OpsAssumption DEF CopyFileDoes, Leaves, Stays,
       GateOf, Doors, Bookkeeping, Plans, PlanOf, Uploads, OpLocations, Gated,
       Staging, Committing, Copying, Deleting, Moving, Recovering, Probing
  <1>7. PlanOf(o)'
    BY <1>0, <1>1, <1>3 DEF CopyFileDoes, Leaves, Stays, Bookkeeping, Plans, PlanOf,
       Uploads, OpLocations, Gated, Staging, Committing, Copying, Deleting, Moving,
       Recovering, Probing
  <1>8. HeldOf(o)'
    BY <1>0, <1>1, <1>3 DEF CopyFileDoes, Leaves, Stays, Bookkeeping, Plans, PlanOf,
       Held, HeldOf, Bare, Staged, Uploads, OpLocations, Gated, Staging, Committing,
       Copying, Deleting, Moving, Recovering, Probing
  <1>9. BackedOf(o)' /\ RegisteredOf(o)'
    BY <1>0, <1>1, <1>3 DEF CopyFileDoes, Leaves, Stays, Adds, Drops, Bookkeeping,
       Held, HeldOf, Bare, Staged, Traced, BackedOf, RegisteredOf, OpLocations, Gated,
       Staging, Committing, Copying, Deleting, Moving, Recovering, Probing
  <1> QED
    BY <1>1, <1>2, <1>3, <1>4, <1>5, <1>6, <1>7, <1>8, <1>9,
       ForegroundBooks DEF OwnParts

\* The answer of a copy keeps the books in order.
LEMMA ConfirmCopyBooks ==
  ASSUME Bookkeeping, NEW o \in Ops, ConfirmCopy(o), UNCHANGED probe
  PROVE  Bookkeeping'
  <1>0. TypeOK /\ o # Rec
    BY OpsAssumption DEF Bookkeeping
  <1>1. ConfirmCopyDoes(o)
    BY ConfirmCopyEffect
  <1>2. Foreground(o)
    BY <1>1 DEF ConfirmCopyDoes
  <1>3. phase = "up" /\ job = None
    BY <1>1, AtWork DEF ConfirmCopyDoes, OpLocations, Gated, Staging, Committing,
       Copying, Deleting, Moving, Recovering, Probing
  <1>4. Values(o)
    BY <1>0, <1>1, <1>3 DEF Values, ConfirmCopyDoes, Leaves, Stays, TypeOK,
       StoreTyped, RecordsTyped, LocationsTyped, ProcessTyped, HistoryTyped
  <1>5. Shared(o) /\ Turn(o)
    BY <1>0, <1>1, <1>3, KeysOf DEF Shared, Turn, ConfirmCopyDoes, Leaves, Stays,
       Unfiled, Adds, Drops, TypeOK, StoreTyped, RecordsTyped, LocationsTyped,
       ProcessTyped, HistoryTyped
  <1>6. run'[o] \in OpLocations /\ GateOf(o)'
    BY <1>0, <1>1, <1>3, AtWork, OpsAssumption DEF ConfirmCopyDoes, Leaves, Stays,
       GateOf, Doors, Bookkeeping, Plans, PlanOf, Uploads, OpLocations, Gated,
       Staging, Committing, Copying, Deleting, Moving, Recovering, Probing
  <1>7. PlanOf(o)'
    BY <1>0, <1>1, <1>3 DEF ConfirmCopyDoes, Leaves, Stays, Bookkeeping, Plans,
       PlanOf, Uploads, OpLocations, Gated, Staging, Committing, Copying, Deleting,
       Moving, Recovering, Probing
  <1>8. HeldOf(o)'
    BY <1>0, <1>1, <1>3 DEF ConfirmCopyDoes, Leaves, Stays, Bookkeeping, Plans,
       PlanOf, Held, HeldOf, Bare, Staged, Uploads, OpLocations, Gated, Staging,
       Committing, Copying, Deleting, Moving, Recovering, Probing
  <1>9. BackedOf(o)' /\ RegisteredOf(o)'
    BY <1>0, <1>1, <1>3 DEF ConfirmCopyDoes, Leaves, Stays, Adds, Drops, Bookkeeping,
       Held, HeldOf, Bare, Staged, Traced, BackedOf, RegisteredOf, OpLocations, Gated,
       Staging, Committing, Copying, Deleting, Moving, Recovering, Probing
  <1> QED
    BY <1>1, <1>2, <1>3, <1>4, <1>5, <1>6, <1>7, <1>8, <1>9,
       ForegroundBooks DEF OwnParts

\* The deletion of a file keeps the books in order.
LEMMA DeleteFileBooks ==
  ASSUME Bookkeeping, NEW o \in Ops, DeleteFile(o), UNCHANGED probe
  PROVE  Bookkeeping'
  <1>0. TypeOK /\ o # Rec
    BY OpsAssumption DEF Bookkeeping
  <1>1. DeleteFileDoes(o)
    BY DeleteFileEffect
  <1>2. Foreground(o)
    BY <1>1 DEF DeleteFileDoes
  <1>3. phase = "up" /\ job = None
    BY <1>1, AtWork DEF DeleteFileDoes, OpLocations, Gated, Staging, Committing,
       Copying, Deleting, Moving, Recovering, Probing
  <1>4. Values(o)
    BY <1>0, <1>1, <1>3 DEF Values, DeleteFileDoes, Leaves, Stays, TypeOK, StoreTyped,
       RecordsTyped, LocationsTyped, ProcessTyped, HistoryTyped
  <1>5. Shared(o) /\ Turn(o)
    <2>1. /\ UNCHANGED pending
          /\ Turn(o)
      BY <1>0, <1>1 DEF Turn, DeleteFileDoes, Stays, Leaves
    <2>2. Unfiled \/ \E x \in Objects \cup {None} : Writes(o, plan[o].from, x)
      BY <1>0, <1>1, Mine DEF DeleteFileDoes
    <2>3. plan[o].from \in Files /\ gate = o
      BY AtWork, <1>0, <1>1, Mine DEF DeleteFileDoes, Bookkeeping, Plans, PlanOf,
         Gated, Committing, Copying, Deleting, Moving
    <2> QED
      BY <1>0, <2>1, <2>2, <2>3, FilesWritten DEF Shared, Turn, Unfiled, TypeOK,
         StoreTyped, ProcessTyped, HistoryTyped
  <1>6. run'[o] \in OpLocations /\ GateOf(o)'
    BY <1>0, <1>1, <1>3, AtWork, OpsAssumption DEF DeleteFileDoes, Leaves, Stays,
       GateOf, Doors, Bookkeeping, Plans, PlanOf, Uploads, OpLocations, Gated,
       Staging, Committing, Copying, Deleting, Moving, Recovering, Probing
  <1>7. PlanOf(o)'
    BY <1>0, <1>1, <1>3 DEF DeleteFileDoes, Leaves, Stays, Bookkeeping, Plans, PlanOf,
       Uploads, OpLocations, Gated, Staging, Committing, Copying, Deleting, Moving,
       Recovering, Probing
  <1>8. HeldOf(o)'
    BY <1>0, <1>1, <1>3 DEF DeleteFileDoes, Leaves, Stays, Bookkeeping, Plans, PlanOf,
       Held, HeldOf, Bare, Staged, Uploads, OpLocations, Gated, Staging, Committing,
       Copying, Deleting, Moving, Recovering, Probing
  <1>9. BackedOf(o)' /\ RegisteredOf(o)'
    BY <1>0, <1>1, <1>3 DEF DeleteFileDoes, Leaves, Stays, Adds, Drops, Bookkeeping,
       Held, HeldOf, Bare, Staged, Traced, BackedOf, RegisteredOf, OpLocations, Gated,
       Staging, Committing, Copying, Deleting, Moving, Recovering, Probing
  <1> QED
    BY <1>1, <1>2, <1>3, <1>4, <1>5, <1>6, <1>7, <1>8, <1>9,
       ForegroundBooks DEF OwnParts

\* The answer of a deletion keeps the books in order.
LEMMA ConfirmDeleteBooks ==
  ASSUME Bookkeeping, NEW o \in Ops, ConfirmDelete(o), UNCHANGED probe
  PROVE  Bookkeeping'
  <1>0. TypeOK /\ o # Rec
    BY OpsAssumption DEF Bookkeeping
  <1>1. ConfirmDeleteDoes(o)
    BY ConfirmDeleteEffect
  <1>2. Foreground(o)
    BY <1>1 DEF ConfirmDeleteDoes
  <1>3. phase = "up" /\ job = None
    BY <1>1, AtWork DEF ConfirmDeleteDoes, OpLocations, Gated, Staging, Committing,
       Copying, Deleting, Moving, Recovering, Probing
  <1>4. Values(o)
    BY <1>0, <1>1, <1>3 DEF Values, ConfirmDeleteDoes, Leaves, Stays, TypeOK,
       StoreTyped, RecordsTyped, LocationsTyped, ProcessTyped, HistoryTyped
  <1>5. Shared(o) /\ Turn(o)
    BY <1>0, <1>1, <1>3, KeysOf DEF Shared, Turn, ConfirmDeleteDoes, Leaves, Stays,
       Unfiled, Adds, Drops, TypeOK, StoreTyped, RecordsTyped, LocationsTyped,
       ProcessTyped, HistoryTyped
  <1>6. run'[o] \in OpLocations /\ GateOf(o)'
    BY <1>0, <1>1, <1>3, AtWork, OpsAssumption DEF ConfirmDeleteDoes, Leaves, Stays,
       GateOf, Doors, Bookkeeping, Plans, PlanOf, Uploads, OpLocations, Gated,
       Staging, Committing, Copying, Deleting, Moving, Recovering, Probing
  <1>7. PlanOf(o)'
    BY <1>0, <1>1, <1>3 DEF ConfirmDeleteDoes, Leaves, Stays, Bookkeeping, Plans,
       PlanOf, Uploads, OpLocations, Gated, Staging, Committing, Copying, Deleting,
       Moving, Recovering, Probing
  <1>8. HeldOf(o)'
    BY <1>0, <1>1, <1>3 DEF ConfirmDeleteDoes, Leaves, Stays, Bookkeeping, Plans,
       PlanOf, Held, HeldOf, Bare, Staged, Uploads, OpLocations, Gated, Staging,
       Committing, Copying, Deleting, Moving, Recovering, Probing
  <1>9. BackedOf(o)' /\ RegisteredOf(o)'
    BY <1>0, <1>1, <1>3 DEF ConfirmDeleteDoes, Leaves, Stays, Adds, Drops,
       Bookkeeping, Held, HeldOf, Bare, Staged, Traced, BackedOf, RegisteredOf,
       OpLocations, Gated, Staging, Committing, Copying, Deleting, Moving, Recovering,
       Probing
  <1> QED
    BY <1>1, <1>2, <1>3, <1>4, <1>5, <1>6, <1>7, <1>8, <1>9,
       ForegroundBooks DEF OwnParts

\* Writing the journal of a move keeps the books in order.
LEMMA BeginMoveBooks ==
  ASSUME Bookkeeping, NEW o \in Ops, BeginMove(o), UNCHANGED probe
  PROVE  Bookkeeping'
  <1>0. TypeOK /\ o # Rec
    BY OpsAssumption DEF Bookkeeping
  <1>1. BeginMoveDoes(o)
    BY BeginMoveEffect
  <1>2. Foreground(o)
    BY <1>1 DEF BeginMoveDoes
  <1>3. phase = "up" /\ job = None
    BY <1>1, AtWork DEF BeginMoveDoes, OpLocations, Gated, Staging, Committing,
       Copying, Deleting, Moving, Recovering, Probing
  <1>4. Values(o)
    BY <1>0, <1>1, <1>3 DEF Values, BeginMoveDoes, Leaves, Stays, TypeOK, StoreTyped,
       RecordsTyped, LocationsTyped, ProcessTyped, HistoryTyped
  <1>5. Shared(o) /\ Turn(o)
    BY ZenonT(60), <1>0, <1>1, <1>3, KeysOf DEF Shared, Turn, BeginMoveDoes, Leaves, Stays,
       Unfiled, Adds, Drops, TypeOK, StoreTyped, RecordsTyped, LocationsTyped,
       ProcessTyped, HistoryTyped
  <1>6. run'[o] \in OpLocations /\ GateOf(o)'
    BY <1>0, <1>1, <1>3, AtWork, OpsAssumption DEF BeginMoveDoes, Leaves, Stays,
       GateOf, Doors, Bookkeeping, Plans, PlanOf, Uploads, OpLocations, Gated,
       Staging, Committing, Copying, Deleting, Moving, Recovering, Probing
  <1>7. PlanOf(o)'
    BY <1>0, <1>1, <1>3 DEF BeginMoveDoes, Leaves, Stays, Bookkeeping, Plans, PlanOf,
       Uploads, OpLocations, Gated, Staging, Committing, Copying, Deleting, Moving,
       Recovering, Probing
  <1>8. HeldOf(o)'
    BY <1>0, <1>1, <1>3, MoveFields DEF BeginMoveDoes, Leaves, Stays, Bookkeeping,
       Plans, PlanOf, Held, HeldOf, Bare, Staged, Uploads, OpLocations, Gated,
       Staging, Committing, Copying, Deleting, Moving, Recovering, Probing
  <1>9. BackedOf(o)' /\ RegisteredOf(o)'
    BY <1>0, <1>1, <1>3, MoveFields DEF BeginMoveDoes, Leaves, Stays, Adds, Drops,
       Bookkeeping, Held, HeldOf, Bare, Staged, Traced, BackedOf, RegisteredOf,
       OpLocations, Gated, Staging, Committing, Copying, Deleting, Moving, Recovering,
       Probing
  <1> QED
    BY <1>1, <1>2, <1>3, <1>4, <1>5, <1>6, <1>7, <1>8, <1>9,
       ForegroundBooks DEF OwnParts

\* The start of an operation keeps the books in order.
LEMMA StartBooks ==
  ASSUME Bookkeeping, NEW o \in Ops, Start(o), UNCHANGED probe
  PROVE  Bookkeeping'
  <1>0. TypeOK /\ o # Rec
    BY OpsAssumption DEF Bookkeeping
  <1>1. StartDoes(o)
    BY StartEffect
  <1>2. Foreground(o)
    BY <1>1 DEF StartDoes
  <1>3. phase = "up"
    BY <1>1, AtWork DEF StartDoes, OpLocations, Gated, Staging, Committing, Copying,
       Deleting, Moving, Recovering, Probing
  <1>4. Values(o)
    BY <1>0, <1>1, <1>3 DEF Values, StartDoes, Leaves, Stays, TypeOK, StoreTyped,
       RecordsTyped, LocationsTyped, ProcessTyped, HistoryTyped
  <1>5. Shared(o) /\ Turn(o)
    BY <1>0, <1>1, <1>3, KeysOf DEF Shared, Turn, StartDoes, Leaves, Stays, Unfiled,
       Adds, Drops, TypeOK, StoreTyped, RecordsTyped, LocationsTyped, ProcessTyped,
       HistoryTyped
  <1>6. run'[o] \in OpLocations /\ GateOf(o)'
    BY <1>0, <1>1, <1>3, AtWork, OpsAssumption DEF StartDoes, Leaves, Stays, GateOf,
       Doors, Bookkeeping, Plans, PlanOf, Uploads, OpLocations, Gated, Staging,
       Committing, Copying, Deleting, Moving, Recovering, Probing
  <1>7. PlanOf(o)'
    BY <1>0, <1>1, <1>3, RequestFields DEF StartDoes, Leaves, Stays, Bookkeeping,
       Plans, PlanOf, Uploads, OpLocations, Gated, Staging, Committing, Copying,
       Deleting, Moving, Recovering, Probing, Foreground
  <1>8. HeldOf(o)'
    BY <1>0, <1>1, <1>3 DEF StartDoes, Leaves, Stays, Bookkeeping, Plans, PlanOf,
       Held, HeldOf, Bare, Staged, Uploads, OpLocations, Gated, Staging, Committing,
       Copying, Deleting, Moving, Recovering, Probing
  <1>9. BackedOf(o)' /\ RegisteredOf(o)'
    BY <1>0, <1>1, <1>3 DEF StartDoes, Leaves, Stays, Adds, Drops, Bookkeeping, Held,
       HeldOf, Bare, Staged, Traced, BackedOf, RegisteredOf, OpLocations, Gated,
       Staging, Committing, Copying, Deleting, Moving, Recovering, Probing
  <1>10. ~ Sends(o)' \/ job = None
    BY <1>1 DEF StartDoes, Sends, Staged, Bookkeeping, Doors, OpLocations, Gated,
       Staging, Committing, Copying, Deleting, Moving, Recovering, Probing
  <1>11. UNCHANGED <<upload, move>>
    BY <1>1 DEF StartDoes
  <1>12. move[o] = None
    BY <1>1 DEF StartDoes, Bookkeeping, Plans, PlanOf, Held, HeldOf
  <1> QED
    BY <1>1, <1>2, <1>3, <1>4, <1>5, <1>6, <1>7, <1>8, <1>9, <1>10, <1>11, <1>12,
       ForegroundBooks DEF OwnParts

\* Entering the mutation gate keeps the books in order.
LEMMA LockBooks ==
  ASSUME Bookkeeping, NEW o \in Ops, Lock(o), UNCHANGED probe
  PROVE  Bookkeeping'
  <1>0. TypeOK /\ o # Rec
    BY OpsAssumption DEF Bookkeeping
  <1>1. LockDoes(o)
    BY LockEffect
  <1>2. Foreground(o)
    BY <1>1 DEF LockDoes
  <1>3. phase = "up" /\ job = None
    BY <1>1, AtWork DEF LockDoes, OpLocations, Gated, Staging, Committing, Copying,
       Deleting, Moving, Recovering, Probing
  <1>4. Values(o)
    BY <1>0, <1>1, <1>3 DEF Values, LockDoes, Leaves, Stays, TypeOK, StoreTyped,
       RecordsTyped, LocationsTyped, ProcessTyped, HistoryTyped
  <1>5. Shared(o) /\ Turn(o)
    BY <1>0, <1>1, <1>3, KeysOf DEF Shared, Turn, LockDoes, Leaves, Stays, Unfiled,
       Adds, Drops, TypeOK, StoreTyped, RecordsTyped, LocationsTyped, ProcessTyped,
       HistoryTyped
  <1>6. run'[o] \in OpLocations /\ GateOf(o)'
    BY <1>0, <1>1, <1>3, AtWork, OpsAssumption, Mine DEF LockDoes, Leaves, Stays,
       GateOf, Doors, Bookkeeping, Plans, PlanOf, Uploads, OpLocations, Gated,
       Staging, Committing, Copying, Deleting, Moving, Recovering, Probing,
       ProcessTyped, TypeOK, Modes
  <1>7. PlanOf(o)'
    BY <1>0, <1>1, <1>3, Mine DEF LockDoes, Leaves, Stays, Bookkeeping, Plans, PlanOf,
       Uploads, OpLocations, Gated, Staging, Committing, Copying, Deleting, Moving,
       Recovering, Probing, Modes
  <1>8. HeldOf(o)'
    BY <1>0, <1>1, <1>3, Mine DEF LockDoes, Leaves, Stays, Bookkeeping, Plans, PlanOf,
       Held, HeldOf, Bare, Staged, Uploads, OpLocations, Gated, Staging, Committing,
       Copying, Deleting, Moving, Recovering, Probing, Modes
  <1>9. BackedOf(o)' /\ RegisteredOf(o)'
    BY <1>0, <1>1, <1>3, Mine DEF LockDoes, Leaves, Stays, Adds, Drops, Bookkeeping,
       Held, HeldOf, Bare, Staged, Traced, BackedOf, RegisteredOf, OpLocations, Gated,
       Staging, Committing, Copying, Deleting, Moving, Recovering, Probing
  <1> QED
    BY <1>1, <1>2, <1>3, <1>4, <1>5, <1>6, <1>7, <1>8, <1>9,
       ForegroundBooks DEF OwnParts

\* An interrupted upload keeps the books in order.
LEMMA InterruptBooks ==
  ASSUME Bookkeeping, NEW o \in Ops, Interrupt(o), UNCHANGED probe
  PROVE  Bookkeeping'
  <1>0. TypeOK /\ o # Rec
    BY OpsAssumption DEF Bookkeeping
  <1>1. InterruptDoes(o)
    BY InterruptEffect
  <1>2. Foreground(o)
    BY <1>1 DEF InterruptDoes
  <1>3. phase = "up" /\ job = None
    BY <1>1, AtWork DEF InterruptDoes, OpLocations, Gated, Staging, Committing,
       Copying, Deleting, Moving, Recovering, Probing
  <1>4. Values(o)
    BY <1>0, <1>1, <1>3, UploadedOwn DEF Values, InterruptDoes, Leaves, Stays, TypeOK,
       StoreTyped, RecordsTyped, LocationsTyped, ProcessTyped, HistoryTyped
  <1>5. Shared(o) /\ Turn(o)
    BY <1>0, <1>1, <1>3, KeysOf DEF Shared, Turn, InterruptDoes, Leaves, Stays,
       Unfiled, Adds, Drops, TypeOK, StoreTyped, RecordsTyped, LocationsTyped,
       ProcessTyped, HistoryTyped
  <1>6. run'[o] \in OpLocations /\ GateOf(o)'
    BY <1>0, <1>1, <1>3, AtWork, OpsAssumption DEF InterruptDoes, Leaves, Stays,
       GateOf, Doors, Bookkeeping, Plans, PlanOf, Uploads, OpLocations, Gated,
       Staging, Committing, Copying, Deleting, Moving, Recovering, Probing
  <1>7. PlanOf(o)'
    BY <1>0, <1>1, <1>3 DEF InterruptDoes, Leaves, Stays, Bookkeeping, Plans, PlanOf,
       Uploads, OpLocations, Gated, Staging, Committing, Copying, Deleting, Moving,
       Recovering, Probing
  <1>8. HeldOf(o)'
    BY <1>0, <1>1, <1>3, UploadedOwn DEF InterruptDoes, Leaves, Stays, Bookkeeping,
       Plans, PlanOf, Held, HeldOf, Bare, Staged, Uploads, OpLocations, Gated,
       Staging, Committing, Copying, Deleting, Moving, Recovering, Probing
  <1>9. BackedOf(o)' /\ RegisteredOf(o)'
    BY <1>0, <1>1, <1>3, UploadedOwn DEF InterruptDoes, Leaves, Stays, Adds, Drops,
       Bookkeeping, Held, HeldOf, Bare, Staged, Traced, BackedOf, RegisteredOf,
       OpLocations, Gated, Staging, Committing, Copying, Deleting, Moving, Recovering,
       Probing
  <1> QED
    BY <1>1, <1>2, <1>3, <1>4, <1>5, <1>6, <1>7, <1>8, <1>9,
       ForegroundBooks DEF OwnParts

\* The copy of a move keeps the books in order.
LEMMA MoveCopyBooks ==
  ASSUME Bookkeeping, NEW o \in Ops, MoveCopy(o, o), UNCHANGED probe
  PROVE  Bookkeeping'
  <1>0. TypeOK /\ o # Rec
    BY OpsAssumption DEF Bookkeeping
  <1>1. MoveCopyDoes(o, o)
    BY MoveCopyEffect
  <1>2. Foreground(o)
    BY <1>0, <1>1 DEF MoveCopyDoes, Halts, Goes, Refuses, Leaves, Carries, Foreground
  <1>3. phase = "up" /\ job = None
    BY <1>1, AtWork DEF MoveCopyDoes, OpLocations, Gated, Staging, Committing,
       Copying, Deleting, Moving, Recovering, Probing
  <1>4. Values(o)
    <2>1. known'[o] \in ETags \cup {None} /\ effect'[o] \in {effect[o], "half"}
      <3>1. plan[o] # None
        BY <1>1 DEF MoveCopyDoes, Bookkeeping, Plans, PlanOf
      <3> QED
        BY <1>0, <1>1, <3>1, Mine, ObjectTags, Copies DEF MoveCopyDoes, Matches
    <2>2. answer'[o] \in {"none", "committed", "failed", "unknown"}
      BY <1>0, <1>1 DEF MoveCopyDoes, Halts, Goes, Leaves, TypeOK, HistoryTyped
    <2> QED
      BY <1>0, <1>1, <2>1, <2>2 DEF Values, MoveCopyDoes, TypeOK, StoreTyped,
         RecordsTyped, ProcessTyped, HistoryTyped
  <1>5. Shared(o) /\ Turn(o)
    <2>1. /\ UNCHANGED pending
          /\ Turn(o)
      BY <1>0, <1>1 DEF Turn, MoveCopyDoes, Stays, Leaves, Halts, Goes
    <2>2. Unfiled \/ \E x \in Objects \cup {None} : Writes(o, plan[o].to, x)
      BY <1>0, <1>1, Mine, Copies DEF MoveCopyDoes, Matches, Bookkeeping, Plans, PlanOf
    <2>3. plan[o].to \in Files /\ gate = o
      BY AtWork, <1>0, <1>1, Mine DEF MoveCopyDoes, Bookkeeping, Plans, PlanOf, Gated,
         Committing, Copying, Deleting, Moving
    <2> QED
      BY <1>0, <2>1, <2>2, <2>3, FilesWritten DEF Shared, Turn, Unfiled, TypeOK,
         StoreTyped, ProcessTyped, HistoryTyped
  <1>6. run'[o] \in OpLocations /\ GateOf(o)'
    BY <1>0, <1>1, <1>3, AtWork, OpsAssumption DEF MoveCopyDoes, Leaves, Stays, Halts,
       Goes, GateOf, Doors, Bookkeeping, Plans, PlanOf, Uploads, OpLocations, Gated,
       Staging, Committing, Copying, Deleting, Moving, Recovering, Probing
  <1>7. PlanOf(o)'
    BY <1>0, <1>1, <1>3 DEF MoveCopyDoes, Leaves, Stays, Halts, Goes, Bookkeeping,
       Plans, PlanOf, Uploads, OpLocations, Gated, Staging, Committing, Copying,
       Deleting, Moving, Recovering, Probing
  <1>8. HeldOf(o)'
    <2>1. run'[o] = "mv_mark" => known'[o] # None
      <3>1. plan[o] # None
        BY <1>1 DEF MoveCopyDoes, Bookkeeping, Plans, PlanOf
      <3> QED
        BY <1>0, <1>1, <3>1, Mine, ObjectTags, Copies DEF MoveCopyDoes, Matches,
           Halts, Goes, Leaves
    <2> QED
      BY <1>0, <1>1, <2>1 DEF MoveCopyDoes, Halts, Goes, Leaves, Bookkeeping, Plans,
         PlanOf, Held, HeldOf, Bare, Staged,
         Uploads, OpLocations, Gated, Staging, Committing, Moving
  <1>9. BackedOf(o)' /\ RegisteredOf(o)'
    BY <1>0, <1>1, <1>3 DEF MoveCopyDoes, Leaves, Stays, Halts, Goes, Adds, Drops,
       Bookkeeping, Held, HeldOf, Bare, Staged, Traced, BackedOf, RegisteredOf,
       OpLocations, Gated, Staging, Committing, Copying, Deleting, Moving, Recovering,
       Probing
  <1> QED
    BY <1>1, <1>2, <1>3, <1>4, <1>5, <1>6, <1>7, <1>8, <1>9,
       ForegroundBooks DEF OwnParts

\* A move that lost an answer keeps the books in order.
LEMMA MoveLostBooks ==
  ASSUME Bookkeeping, NEW o \in Ops, MoveLost(o, o), UNCHANGED probe
  PROVE  Bookkeeping'
  <1>0. TypeOK /\ o # Rec
    BY OpsAssumption DEF Bookkeeping
  <1>1. MoveLostDoes(o, o)
    BY MoveLostEffect
  <1>2. Foreground(o)
    BY <1>0, <1>1 DEF MoveLostDoes, Halts, Goes, Refuses, Leaves, Carries, Foreground
  <1>3. phase = "up" /\ job = None
    BY <1>1, AtWork DEF MoveLostDoes, OpLocations, Gated, Staging, Committing,
       Copying, Deleting, Moving, Recovering, Probing
  <1>4. Values(o)
    BY <1>0, <1>1, <1>3 DEF Values, MoveLostDoes, Leaves, Stays, Halts, Goes, TypeOK,
       StoreTyped, RecordsTyped, LocationsTyped, ProcessTyped, HistoryTyped
  <1>5. Shared(o) /\ Turn(o)
    BY <1>0, <1>1, <1>3, KeysOf, FilesWritten DEF Shared, Turn, MoveLostDoes, Leaves,
       Stays, Halts, Goes, Unfiled, Adds, Drops, TypeOK, StoreTyped, RecordsTyped,
       LocationsTyped, ProcessTyped, HistoryTyped
  <1>6. run'[o] \in OpLocations /\ GateOf(o)'
    BY <1>0, <1>1, <1>3, AtWork, OpsAssumption DEF MoveLostDoes, Leaves, Stays, Halts,
       Goes, GateOf, Doors, Bookkeeping, Plans, PlanOf, Uploads, OpLocations, Gated,
       Staging, Committing, Copying, Deleting, Moving, Recovering, Probing
  <1>7. PlanOf(o)'
    BY <1>0, <1>1, <1>3 DEF MoveLostDoes, Leaves, Stays, Halts, Goes, Bookkeeping,
       Plans, PlanOf, Uploads, OpLocations, Gated, Staging, Committing, Copying,
       Deleting, Moving, Recovering, Probing
  <1>8. HeldOf(o)'
    BY <1>0, <1>1, <1>3 DEF MoveLostDoes, Leaves, Stays, Halts, Goes, Bookkeeping,
       Plans, PlanOf, Held, HeldOf, Bare, Staged, Uploads, OpLocations, Gated,
       Staging, Committing, Copying, Deleting, Moving, Recovering, Probing
  <1>9. BackedOf(o)' /\ RegisteredOf(o)'
    BY <1>0, <1>1, <1>3 DEF MoveLostDoes, Leaves, Stays, Halts, Goes, Adds, Drops,
       Bookkeeping, Held, HeldOf, Bare, Staged, Traced, BackedOf, RegisteredOf,
       OpLocations, Gated, Staging, Committing, Copying, Deleting, Moving, Recovering,
       Probing
  <1> QED
    BY <1>1, <1>2, <1>3, <1>4, <1>5, <1>6, <1>7, <1>8, <1>9,
       ForegroundBooks DEF OwnParts

\* Recording the copy of a move keeps the books in order.
LEMMA MoveMarkBooks ==
  ASSUME Bookkeeping, NEW o \in Ops, MoveMark(o, o), UNCHANGED probe
  PROVE  Bookkeeping'
  <1>0. TypeOK /\ o # Rec
    BY OpsAssumption DEF Bookkeeping
  <1>a. move[o] # None /\ known[o] \in ETags
    BY <1>0, Mine DEF MoveMark, At, Bookkeeping, Held, HeldOf, Moving
  <1>1. MoveMarkDoes(o, o)
    BY MoveMarkEffect, <1>a
  <1>2. Foreground(o)
    BY <1>0, <1>1 DEF MoveMarkDoes, Halts, Goes, Refuses, Leaves, Carries, Foreground
  <1>3. phase = "up" /\ job = None
    BY <1>1, AtWork DEF MoveMarkDoes, OpLocations, Gated, Staging, Committing,
       Copying, Deleting, Moving, Recovering, Probing
  <1>4. Values(o)
    BY <1>0, <1>1, <1>3 DEF Values, MoveMarkDoes, Leaves, Stays, Halts, Goes, TypeOK,
       StoreTyped, RecordsTyped, LocationsTyped, ProcessTyped, HistoryTyped
  <1>5. Shared(o) /\ Turn(o)
    BY <1>0, <1>1, <1>3, KeysOf, FilesWritten DEF Shared, Turn, MoveMarkDoes, Leaves,
       Stays, Halts, Goes, Unfiled, Adds, Drops, TypeOK, StoreTyped, RecordsTyped,
       LocationsTyped, ProcessTyped, HistoryTyped
  <1>6. run'[o] \in OpLocations /\ GateOf(o)'
    BY <1>0, <1>1, <1>3, AtWork, OpsAssumption DEF MoveMarkDoes, Leaves, Stays, Halts,
       Goes, GateOf, Doors, Bookkeeping, Plans, PlanOf, Uploads, OpLocations, Gated,
       Staging, Committing, Copying, Deleting, Moving, Recovering, Probing
  <1>7. PlanOf(o)'
    BY <1>0, <1>1, <1>3 DEF MoveMarkDoes, Leaves, Stays, Halts, Goes, Bookkeeping,
       Plans, PlanOf, Uploads, OpLocations, Gated, Staging, Committing, Copying,
       Deleting, Moving, Recovering, Probing
  <1>8. HeldOf(o)'
    BY <1>0, <1>1, <1>3, MoveFields DEF MoveMarkDoes, Leaves, Stays, Halts, Goes,
       Bookkeeping, Plans, PlanOf, Held, HeldOf, Bare, Staged, Uploads, OpLocations,
       Gated, Staging, Committing, Copying, Deleting, Moving, Recovering, Probing
  <1>9. BackedOf(o)' /\ RegisteredOf(o)'
    BY <1>0, <1>1, <1>3, MoveFields DEF MoveMarkDoes, Leaves, Stays, Halts, Goes,
       Adds, Drops, Bookkeeping, Held, HeldOf, Bare, Staged, Traced, BackedOf,
       RegisteredOf, OpLocations, Gated, Staging, Committing, Copying, Deleting,
       Moving, Recovering, Probing
  <1> QED
    BY <1>1, <1>2, <1>3, <1>4, <1>5, <1>6, <1>7, <1>8, <1>9,
       ForegroundBooks DEF OwnParts

\* Removing the source of a move keeps the books in order.
LEMMA MoveDropBooks ==
  ASSUME Bookkeeping, NEW o \in Ops, MoveDrop(o, o), UNCHANGED probe
  PROVE  Bookkeeping'
  <1>0. TypeOK /\ o # Rec
    BY OpsAssumption DEF Bookkeeping
  <1>1. MoveDropDoes(o, o)
    BY MoveDropEffect
  <1>2. Foreground(o)
    BY <1>0, <1>1 DEF MoveDropDoes, Halts, Goes, Refuses, Leaves, Carries, Foreground
  <1>3. phase = "up" /\ job = None
    BY <1>1, AtWork DEF MoveDropDoes, OpLocations, Gated, Staging, Committing,
       Copying, Deleting, Moving, Recovering, Probing
  <1>4. Values(o)
    BY <1>0, <1>1, <1>3 DEF Values, MoveDropDoes, Leaves, Stays, Halts, Goes, TypeOK,
       StoreTyped, RecordsTyped, LocationsTyped, ProcessTyped, HistoryTyped
  <1>5. Shared(o) /\ Turn(o)
    <2>1. /\ UNCHANGED pending
          /\ Turn(o)
      BY <1>0, <1>1 DEF Turn, MoveDropDoes, Stays, Leaves, Halts, Goes
    <2>2. Unfiled \/ \E x \in Objects \cup {None} : Writes(o, plan[o].from, x)
      BY <1>0, <1>1, Mine DEF MoveDropDoes
    <2>3. plan[o].from \in Files /\ gate = o
      BY AtWork, <1>0, <1>1, Mine DEF MoveDropDoes, Bookkeeping, Plans, PlanOf, Gated,
         Committing, Copying, Deleting, Moving
    <2> QED
      BY <1>0, <2>1, <2>2, <2>3, FilesWritten DEF Shared, Turn, Unfiled, TypeOK,
         StoreTyped, ProcessTyped, HistoryTyped
  <1>6. run'[o] \in OpLocations /\ GateOf(o)'
    BY <1>0, <1>1, <1>3, AtWork, OpsAssumption DEF MoveDropDoes, Leaves, Stays, Halts,
       Goes, GateOf, Doors, Bookkeeping, Plans, PlanOf, Uploads, OpLocations, Gated,
       Staging, Committing, Copying, Deleting, Moving, Recovering, Probing
  <1>7. PlanOf(o)'
    BY <1>0, <1>1, <1>3 DEF MoveDropDoes, Leaves, Stays, Halts, Goes, Bookkeeping,
       Plans, PlanOf, Uploads, OpLocations, Gated, Staging, Committing, Copying,
       Deleting, Moving, Recovering, Probing
  <1>8. HeldOf(o)'
    BY <1>0, <1>1, <1>3 DEF MoveDropDoes, Leaves, Stays, Halts, Goes, Bookkeeping,
       Plans, PlanOf, Held, HeldOf, Bare, Staged, Uploads, OpLocations, Gated,
       Staging, Committing, Copying, Deleting, Moving, Recovering, Probing
  <1>9. BackedOf(o)' /\ RegisteredOf(o)'
    BY <1>0, <1>1, <1>3 DEF MoveDropDoes, Leaves, Stays, Halts, Goes, Adds, Drops,
       Bookkeeping, Held, HeldOf, Bare, Staged, Traced, BackedOf, RegisteredOf,
       OpLocations, Gated, Staging, Committing, Copying, Deleting, Moving, Recovering,
       Probing
  <1> QED
    BY <1>1, <1>2, <1>3, <1>4, <1>5, <1>6, <1>7, <1>8, <1>9,
       ForegroundBooks DEF OwnParts

\* Retiring the journal of a move keeps the books in order.
LEMMA MoveEndBooks ==
  ASSUME Bookkeeping, NEW o \in Ops, MoveEnd(o, o), UNCHANGED probe
  PROVE  Bookkeeping'
  <1>0. TypeOK /\ o # Rec
    BY OpsAssumption DEF Bookkeeping
  <1>1. MoveEndDoes(o, o)
    BY MoveEndEffect
  <1>2. Foreground(o)
    BY <1>0, <1>1 DEF MoveEndDoes, Halts, Goes, Refuses, Leaves, Carries, Foreground
  <1>3. phase = "up" /\ job = None
    BY <1>1, AtWork DEF MoveEndDoes, OpLocations, Gated, Staging, Committing, Copying,
       Deleting, Moving, Recovering, Probing
  <1>4. Values(o)
    BY <1>0, <1>1, <1>3 DEF Values, MoveEndDoes, Leaves, Stays, Halts, Goes, TypeOK,
       StoreTyped, RecordsTyped, LocationsTyped, ProcessTyped, HistoryTyped
  <1>5. Shared(o) /\ Turn(o)
    BY <1>0, <1>1, <1>3, KeysOf, FilesWritten DEF Shared, Turn, MoveEndDoes, Leaves,
       Stays, Halts, Goes, Unfiled, Adds, Drops, TypeOK, StoreTyped, RecordsTyped,
       LocationsTyped, ProcessTyped, HistoryTyped
  <1>6. run'[o] \in OpLocations /\ GateOf(o)'
    BY <1>0, <1>1, <1>3, AtWork, OpsAssumption DEF MoveEndDoes, Leaves, Stays, Halts,
       Goes, GateOf, Doors, Bookkeeping, Plans, PlanOf, Uploads, OpLocations, Gated,
       Staging, Committing, Copying, Deleting, Moving, Recovering, Probing
  <1>7. PlanOf(o)'
    BY <1>0, <1>1, <1>3 DEF MoveEndDoes, Leaves, Stays, Halts, Goes, Bookkeeping,
       Plans, PlanOf, Uploads, OpLocations, Gated, Staging, Committing, Copying,
       Deleting, Moving, Recovering, Probing
  <1>8. HeldOf(o)'
    BY <1>0, <1>1, <1>3 DEF MoveEndDoes, Leaves, Stays, Halts, Goes, Bookkeeping,
       Plans, PlanOf, Held, HeldOf, Bare, Staged, Uploads, OpLocations, Gated,
       Staging, Committing, Copying, Deleting, Moving, Recovering, Probing
  <1>9. BackedOf(o)' /\ RegisteredOf(o)'
    BY <1>0, <1>1, <1>3 DEF MoveEndDoes, Leaves, Stays, Halts, Goes, Adds, Drops,
       Bookkeeping, Held, HeldOf, Bare, Staged, Traced, BackedOf, RegisteredOf,
       OpLocations, Gated, Staging, Committing, Copying, Deleting, Moving, Recovering,
       Probing
  <1> QED
    BY <1>1, <1>2, <1>3, <1>4, <1>5, <1>6, <1>7, <1>8, <1>9,
       ForegroundBooks DEF OwnParts

\* Recovery only takes away what an operation holds, so a step of it keeps the books
\* when what is left still has its journal.
Shrinks(o) ==
    /\ staged'[o] # None => staged[o] # None
    /\ backup'[o] # None => backup[o] # None
    /\ upload'[o] # None => upload[o] # None
    /\ move'[o] # None => move[o] # None
    /\ o \in intent' => o \in intent
    /\ parts'[o] # "none" => parts[o] # "none"
NextOf(o) ==
    \/ Ended
    \/ /\ UNCHANGED <<gate, job, phase, answer>> /\ run'[Rec] \in Moving \cup Recovering
       /\ run'[Rec] \in Moving => move'[o] # None
       /\ run'[Rec] = "mv_mark" => known'[o] # None
       /\ run'[Rec] \in {"r_upload", "r_finish"} => upload'[o] # None

\* A step of recovery keeps the books when its operation's are in order.
LEMMA RecoveryKeepsBooks ==
  ASSUME Bookkeeping, NEW o \in Ops, job # None, job[2] = o, Carries(Rec, o), Values(o),
         Shared(o), Shrinks(o), NextOf(o), refused' \in {refused, job}, UNCHANGED plan,
         BackedOf(o)', phase = "up" => RegisteredOf(o)'
  PROVE  Bookkeeping'
  <1>0. TypeOK /\ gate = IF phase = "up" THEN Rec ELSE None
    BY AtWork DEF Bookkeeping
  <1>1. \A q \in Ops : /\ run[q] \in {"idle", "done", "lock"} /\ ~ Sends(q) /\ run'[q] = run[q]
                       /\ phase # "up" => run[q] \in {"idle", "done"}
    <2>1. \A q \in Ops : run'[q] = run[q]
      BY <1>0, OpsAssumption DEF Carries, Only, TypeOK, LocationsTyped
    <2> QED
      BY <2>1, AtWork DEF Bookkeeping, Doors
  <1>2. /\ gate' = IF phase' = "up" /\ job' # None THEN Rec ELSE None
        /\ phase' = "up" <=> phase = "up"
        /\ phase' \in {"up", "starting", "down"} /\ job' \in {job, None}
        /\ job' = None <=> run'[Rec] \notin Moving \cup Recovering
        /\ run'[Rec] \in {"wait", "idle"} \cup Moving \cup Recovering
        /\ phase' = "down" => run'[Rec] = "idle"
    BY <1>0 DEF NextOf, Ended, Moving, Recovering, Bookkeeping, Doors, TypeOK,
       ProcessTyped
  <1>3. TypeOK'
    <2>1. run'[Rec] \in RecLocations
      BY <1>2 DEF RecLocations
    <2>2. gate' \in Ops \cup {Rec, None} /\ job' \in Keys \cup {None} /\ refused' \in Keys \cup {None}
      BY <1>0, <1>2 DEF TypeOK, ProcessTyped, HistoryTyped
    <2> QED
      BY <1>0, <1>2, <2>1, <2>2, TypesKept
  <1>4. \A q \in Ops : Sends(q)' = Sends(q) /\ GateOf(q)'
    <2>1. ASSUME NEW q \in Ops PROVE plan'[q] = plan[q]
      OBVIOUS
    <2>2. \A q \in Ops : Sends(q)' = Sends(q)
      BY <1>1, <2>1 DEF Sends, Staged
    <2>3. \A q \in Ops : GateOf(q)'
      BY <1>1, <1>2, OpsAssumption DEF GateOf, Gated, Committing, Copying, Deleting,
         Moving
    <2> QED
      BY <2>2, <2>3
  <1>5. Doors'
    <2>1. run'[Rec] \notin Probing
      BY <1>2 DEF Moving, Recovering, Probing
    <2>2. phase' # "up" => gate' = None /\ \A q \in Ops : run'[q] \in {"idle", "done"}
      BY <1>1, <1>2, OpsAssumption
    <2> QED
      BY <1>1, <1>2, <1>4, <2>1, <2>2, OpsAssumption DEF Doors
  <1>6. ASSUME NEW q \in Ops
        PROVE  PlanOf(q)' /\ HeldOf(q)' /\ BackedOf(q)' /\ (phase = "up" => RegisteredOf(q)')
    <2>1. CASE q = o
      <3>1. PlanOf(o)'
        BY <1>1 DEF Bookkeeping, Plans, PlanOf
      <3>2. HeldOf(o)'
        BY <1>1 DEF Shrinks, Bookkeeping, Held, HeldOf, Bare, Sends, Staged, Staging,
           Committing, Moving
      <3> QED
        BY <2>1, <3>1, <3>2
    <2>2. CASE q # o
      BY <2>2, OthersInOrder
    <2> QED
      BY <2>1, <2>2
  <1>7. Worked'
    BY <1>2 DEF NextOf, Ended, Carries, Bookkeeping, Worked, Moving, Recovering
  <1> QED
    BY <1>2, <1>3, <1>5, <1>6, <1>7 DEF Bookkeeping, Plans, Held, Traced

\* The copy of a move, in recovery, keeps the books.
LEMMA MoveCopyRecovers ==
  ASSUME Bookkeeping, NEW o \in Ops, job # None, job[2] = o, MoveCopy(Rec, o), UNCHANGED probe
  PROVE  Bookkeeping'
  <1>0. TypeOK
    BY DEF Bookkeeping
  <1>1. MoveCopyDoes(Rec, o)
    BY MoveCopyEffect
  <1>2. plan[o] # None
    BY <1>1 DEF MoveCopyDoes, Bookkeeping, Worked, Held, HeldOf, Moving
  <1>3. Values(o) /\ (run'[Rec] = "mv_mark" => known'[o] # None)
    <2>1. /\ known'[o] \in ETags \cup {None} /\ effect'[o] \in {effect[o], "half"}
          /\ run'[Rec] = "mv_mark" => known'[o] # None
      BY <1>0, <1>1, <1>2, Mine, ObjectTags, Copies DEF MoveCopyDoes, Matches, Halts,
         Ended, Goes
    <2>2. answer'[o] \in {"none", "committed", "failed", "unknown"}
      BY <1>0, <1>1 DEF MoveCopyDoes, Halts, Ended, Goes, TypeOK, HistoryTyped
    <2> QED
      BY <1>0, <1>1, <2>1, <2>2 DEF Values, MoveCopyDoes, TypeOK, StoreTyped,
         RecordsTyped, ProcessTyped, HistoryTyped
  <1>4. Shared(o)
    <2>1. UNCHANGED pending /\ (gate = Rec \/ phase # "up")
      BY <1>1, AtWork DEF MoveCopyDoes
    <2>2. Unfiled \/ \E x \in Objects \cup {None} : Writes(o, plan[o].to, x)
      BY <1>0, <1>1, Mine, Copies DEF MoveCopyDoes, Matches, Bookkeeping, Worked,
         Held, HeldOf, Moving
    <2>3. plan[o].to \in Files
      BY <1>0, <1>1, Mine DEF MoveCopyDoes, Bookkeeping, Worked, Held, HeldOf, Moving
    <2> QED
      BY <1>0, <2>1, <2>2, <2>3, FilesWritten DEF Shared, Unfiled, TypeOK, StoreTyped,
         ProcessTyped, HistoryTyped
  <1>5. Shrinks(o)
    BY <1>1 DEF Shrinks, MoveCopyDoes
  <1>6. NextOf(o)
    BY <1>1, <1>3 DEF NextOf, MoveCopyDoes, Halts, Goes, Ended, Refuses, Bookkeeping,
       Worked, Moving, Recovering
  <1>7. BackedOf(o)' /\ (phase = "up" => RegisteredOf(o)')
    BY <1>1 DEF MoveCopyDoes, Halts, Goes, Ended, Refuses, Adds, Drops, Bookkeeping,
       Traced, BackedOf, RegisteredOf, Worked
  <1>8. Carries(Rec, o) /\ refused' \in {refused, job} /\ UNCHANGED plan
    BY <1>1 DEF MoveCopyDoes, Halts, Goes, Ended, Refuses
  <1> QED
    BY <1>3, <1>4, <1>5, <1>6, <1>7, <1>8, RecoveryKeepsBooks

\* A move that lost an answer, in recovery, keeps the books.
LEMMA MoveLostRecovers ==
  ASSUME Bookkeeping, NEW o \in Ops, job # None, job[2] = o, MoveLost(Rec, o), UNCHANGED probe
  PROVE  Bookkeeping'
  <1>0. TypeOK
    BY DEF Bookkeeping
  <1>1. MoveLostDoes(Rec, o)
    BY MoveLostEffect
  <1>2. run[Rec] \in Moving \cup Recovering
    BY <1>1 DEF MoveLostDoes, Moving, Recovering
  <1>3. Values(o)
    BY <1>0, <1>1 DEF Values, MoveLostDoes, Halts, Goes, Ended, Refuses, TypeOK,
       StoreTyped, RecordsTyped, LocationsTyped, ProcessTyped, HistoryTyped
  <1>4. Shared(o)
    BY <1>0, <1>1, KeysOf DEF Shared, MoveLostDoes, Halts, Goes, Ended, Refuses, Adds,
       Drops, TypeOK, StoreTyped, RecordsTyped, LocationsTyped, ProcessTyped,
       HistoryTyped
  <1>5. Shrinks(o)
    BY <1>1 DEF Shrinks, MoveLostDoes
  <1>6. NextOf(o)
    BY <1>1, <1>3 DEF NextOf, MoveLostDoes, Halts, Goes, Ended, Refuses, Bookkeeping,
       Worked, Moving, Recovering
  <1>7. BackedOf(o)' /\ (phase = "up" => RegisteredOf(o)')
    BY <1>1 DEF MoveLostDoes, Halts, Goes, Ended, Refuses, Adds, Drops, Bookkeeping,
       Traced, BackedOf, RegisteredOf, Worked
  <1>8. Carries(Rec, o) /\ refused' \in {refused, job} /\ UNCHANGED plan
    BY <1>1 DEF MoveLostDoes, Halts, Goes, Ended, Refuses
  <1> QED
    BY <1>3, <1>4, <1>5, <1>6, <1>7, <1>8, RecoveryKeepsBooks

\* Recording the copy of a move, in recovery, keeps the books.
LEMMA MoveMarkRecovers ==
  ASSUME Bookkeeping, NEW o \in Ops, job # None, job[2] = o, MoveMark(Rec, o), UNCHANGED probe
  PROVE  Bookkeeping'
  <1>0. TypeOK
    BY DEF Bookkeeping
  <1>a. move[o] # None /\ known[o] \in ETags
    BY <1>0, Mine DEF MoveMark, At, Bookkeeping, Worked, Moving
  <1>1. MoveMarkDoes(Rec, o)
    BY MoveMarkEffect, <1>a
  <1>2. run[Rec] \in Moving \cup Recovering
    BY <1>1 DEF MoveMarkDoes, Moving, Recovering
  <1>3. Values(o)
    BY <1>0, <1>1 DEF Values, MoveMarkDoes, Halts, Goes, Ended, Refuses, TypeOK,
       StoreTyped, RecordsTyped, LocationsTyped, ProcessTyped, HistoryTyped
  <1>4. Shared(o)
    BY ZenonT(60), <1>0, <1>1, KeysOf DEF Shared, MoveMarkDoes, Halts, Goes, Ended, Refuses, Adds,
       Drops, TypeOK, StoreTyped, RecordsTyped, LocationsTyped, ProcessTyped,
       HistoryTyped
  <1>5. Shrinks(o)
    BY <1>1, <1>a, MoveFields DEF Shrinks, MoveMarkDoes
  <1>6. NextOf(o)
    BY <1>1, <1>3, <1>a, MoveFields DEF NextOf, MoveMarkDoes, Halts, Goes, Ended,
       Refuses, Bookkeeping, Worked, Moving, Recovering
  <1>7. BackedOf(o)' /\ (phase = "up" => RegisteredOf(o)')
    BY <1>1, MoveFields, <1>a DEF MoveMarkDoes, Halts, Goes, Ended, Refuses, Adds,
       Drops, Bookkeeping, Traced, BackedOf, RegisteredOf, Worked
  <1>8. Carries(Rec, o) /\ refused' \in {refused, job} /\ UNCHANGED plan
    BY <1>1 DEF MoveMarkDoes, Halts, Goes, Ended, Refuses
  <1> QED
    BY <1>3, <1>4, <1>5, <1>6, <1>7, <1>8, RecoveryKeepsBooks

\* Removing the source of a move, in recovery, keeps the books.
LEMMA MoveDropRecovers ==
  ASSUME Bookkeeping, NEW o \in Ops, job # None, job[2] = o, MoveDrop(Rec, o), UNCHANGED probe
  PROVE  Bookkeeping'
  <1>0. TypeOK
    BY DEF Bookkeeping
  <1>1. MoveDropDoes(Rec, o)
    BY MoveDropEffect
  <1>2. run[Rec] \in Moving \cup Recovering
    BY <1>1 DEF MoveDropDoes, Moving, Recovering
  <1>3. Values(o)
    BY <1>0, <1>1 DEF Values, MoveDropDoes, Halts, Goes, Ended, Refuses, TypeOK,
       StoreTyped, RecordsTyped, LocationsTyped, ProcessTyped, HistoryTyped
  <1>4. Shared(o)
    <2>1. UNCHANGED pending /\ (gate = Rec \/ phase # "up")
      BY <1>1, AtWork DEF MoveDropDoes
    <2>2. Unfiled \/ \E x \in Objects \cup {None} : Writes(o, plan[o].from, x)
      BY <1>0, <1>1, Mine, Copies DEF MoveDropDoes, Matches, Bookkeeping, Worked,
         Held, HeldOf, Moving
    <2>3. plan[o].from \in Files
      BY <1>0, <1>1, Mine DEF MoveDropDoes, Bookkeeping, Worked, Held, HeldOf, Moving
    <2> QED
      BY <1>0, <2>1, <2>2, <2>3, FilesWritten DEF Shared, Unfiled, TypeOK, StoreTyped,
         ProcessTyped, HistoryTyped
  <1>5. Shrinks(o)
    BY <1>1 DEF Shrinks, MoveDropDoes
  <1>6. NextOf(o)
    BY <1>1, <1>3 DEF NextOf, MoveDropDoes, Halts, Goes, Ended, Refuses, Bookkeeping,
       Worked, Moving, Recovering
  <1>7. BackedOf(o)' /\ (phase = "up" => RegisteredOf(o)')
    BY <1>1 DEF MoveDropDoes, Halts, Goes, Ended, Refuses, Adds, Drops, Bookkeeping,
       Traced, BackedOf, RegisteredOf, Worked
  <1>8. Carries(Rec, o) /\ refused' \in {refused, job} /\ UNCHANGED plan
    BY <1>1 DEF MoveDropDoes, Halts, Goes, Ended, Refuses
  <1> QED
    BY <1>3, <1>4, <1>5, <1>6, <1>7, <1>8, RecoveryKeepsBooks

\* Retiring the journal of a move, in recovery, keeps the books.
LEMMA MoveEndRecovers ==
  ASSUME Bookkeeping, NEW o \in Ops, job # None, job[2] = o, MoveEnd(Rec, o), UNCHANGED probe
  PROVE  Bookkeeping'
  <1>0. TypeOK
    BY DEF Bookkeeping
  <1>1. MoveEndDoes(Rec, o)
    BY MoveEndEffect
  <1>2. run[Rec] \in Moving \cup Recovering
    BY <1>1 DEF MoveEndDoes, Moving, Recovering
  <1>3. Values(o)
    BY <1>0, <1>1 DEF Values, MoveEndDoes, Halts, Goes, Ended, Refuses, TypeOK,
       StoreTyped, RecordsTyped, LocationsTyped, ProcessTyped, HistoryTyped
  <1>4. Shared(o)
    BY <1>0, <1>1, KeysOf DEF Shared, MoveEndDoes, Halts, Goes, Ended, Refuses, Adds,
       Drops, TypeOK, StoreTyped, RecordsTyped, LocationsTyped, ProcessTyped,
       HistoryTyped
  <1>5. Shrinks(o)
    BY <1>1 DEF Shrinks, MoveEndDoes
  <1>6. NextOf(o)
    BY <1>1, <1>3 DEF NextOf, MoveEndDoes, Halts, Goes, Ended, Refuses, Bookkeeping,
       Worked, Moving, Recovering
  <1>7. BackedOf(o)' /\ (phase = "up" => RegisteredOf(o)')
    BY <1>1 DEF MoveEndDoes, Halts, Goes, Ended, Refuses, Adds, Drops, Bookkeeping,
       Traced, BackedOf, RegisteredOf, Worked
  <1>8. Carries(Rec, o) /\ refused' \in {refused, job} /\ UNCHANGED plan
    BY <1>1 DEF MoveEndDoes, Halts, Goes, Ended, Refuses
  <1> QED
    BY <1>3, <1>4, <1>5, <1>6, <1>7, <1>8, RecoveryKeepsBooks

\* Recovery of a session keeps the books in order.
LEMMA RecoverPartsBooks ==
  ASSUME Bookkeeping, NEW o \in Ops, job # None, job[2] = o, RecoverParts(o), UNCHANGED probe
  PROVE  Bookkeeping'
  <1>0. TypeOK
    BY DEF Bookkeeping
  <1>1. RecoverPartsDoes(o)
    BY RecoverPartsEffect
  <1>2. run[Rec] \in Moving \cup Recovering
    BY <1>1 DEF RecoverPartsDoes, Moving, Recovering
  <1>3. Values(o)
    BY <1>0, <1>1 DEF Values, RecoverPartsDoes, Goes, Ended, TypeOK, StoreTyped,
       RecordsTyped, LocationsTyped, ProcessTyped, HistoryTyped
  <1>4. Shared(o)
    BY <1>0, <1>1, KeysOf DEF Shared, RecoverPartsDoes, Goes, Ended, Adds, Drops,
       TypeOK, StoreTyped, RecordsTyped, LocationsTyped, ProcessTyped, HistoryTyped
  <1>5. Shrinks(o)
    BY <1>1 DEF Shrinks, RecoverPartsDoes
  <1>6. NextOf(o)
    BY <1>1, <1>3 DEF NextOf, RecoverPartsDoes, Goes, Ended, Bookkeeping, Worked,
       Moving, Recovering
  <1>7. BackedOf(o)' /\ (phase = "up" => RegisteredOf(o)')
    BY <1>1 DEF RecoverPartsDoes, Goes, Ended, Adds, Drops, Bookkeeping, Traced,
       BackedOf, RegisteredOf, Worked
  <1>8. Carries(Rec, o) /\ refused' \in {refused, job} /\ UNCHANGED plan
    BY <1>1 DEF RecoverPartsDoes, Goes, Ended
  <1> QED
    BY <1>3, <1>4, <1>5, <1>6, <1>7, <1>8, RecoveryKeepsBooks

\* Recovery of an upload keeps the books in order.
LEMMA RecoverUploadBooks ==
  ASSUME Bookkeeping, NEW o \in Ops, job # None, job[2] = o, RecoverUpload(o), UNCHANGED probe
  PROVE  Bookkeeping'
  <1>0. TypeOK
    BY DEF Bookkeeping
  <1>1. RecoverUploadDoes(o)
    BY RecoverUploadEffect
  <1>2. run[Rec] \in Moving \cup Recovering
    BY <1>1 DEF RecoverUploadDoes, Moving, Recovering
  <1>3. Values(o)
    BY <1>0, <1>1 DEF Values, RecoverUploadDoes, Goes, Ended, TypeOK, StoreTyped,
       RecordsTyped, LocationsTyped, ProcessTyped, HistoryTyped
  <1>4. Shared(o)
    BY <1>0, <1>1, KeysOf DEF Shared, RecoverUploadDoes, Goes, Ended, Adds, Drops,
       TypeOK, StoreTyped, RecordsTyped, LocationsTyped, ProcessTyped, HistoryTyped
  <1>5. Shrinks(o)
    BY <1>1 DEF Shrinks, RecoverUploadDoes
  <1>6. NextOf(o)
    BY <1>1, <1>3 DEF NextOf, RecoverUploadDoes, Goes, Ended, Bookkeeping, Worked,
       Moving, Recovering
  <1>7. BackedOf(o)' /\ (phase = "up" => RegisteredOf(o)')
    BY <1>1 DEF RecoverUploadDoes, Goes, Ended, Adds, Drops, Bookkeeping, Traced,
       BackedOf, RegisteredOf, Worked
  <1>8. Carries(Rec, o) /\ refused' \in {refused, job} /\ UNCHANGED plan
    BY <1>1 DEF RecoverUploadDoes, Goes, Ended
  <1> QED
    BY <1>3, <1>4, <1>5, <1>6, <1>7, <1>8, RecoveryKeepsBooks

\* Recovery that discards what an upload held keeps the books in order.
LEMMA RecoverFinishBooks ==
  ASSUME Bookkeeping, NEW o \in Ops, job # None, job[2] = o, RecoverFinish(o), UNCHANGED probe
  PROVE  Bookkeeping'
  <1>0. TypeOK
    BY DEF Bookkeeping
  <1>1. RecoverFinishDoes(o)
    BY RecoverFinishEffect
  <1>2. run[Rec] \in Moving \cup Recovering
    BY <1>1 DEF RecoverFinishDoes, Moving, Recovering
  <1>3. Values(o)
    BY <1>0, <1>1 DEF Values, RecoverFinishDoes, Goes, Ended, Discards, TypeOK,
       StoreTyped, RecordsTyped, LocationsTyped, ProcessTyped, HistoryTyped
  <1>4. Shared(o)
    BY <1>0, <1>1, KeysOf DEF Shared, RecoverFinishDoes, Goes, Ended, Discards, Adds,
       Drops, TypeOK, StoreTyped, RecordsTyped, LocationsTyped, ProcessTyped,
       HistoryTyped
  <1>5. Shrinks(o)
    BY <1>1 DEF Shrinks, RecoverFinishDoes, Discards
  <1>6. NextOf(o)
    BY <1>1, <1>3 DEF NextOf, RecoverFinishDoes, Goes, Ended, Discards, Bookkeeping,
       Worked, Moving, Recovering
  <1>7. BackedOf(o)' /\ (phase = "up" => RegisteredOf(o)')
    BY <1>1 DEF RecoverFinishDoes, Goes, Ended, Discards, Adds, Drops, Bookkeeping,
       Traced, BackedOf, RegisteredOf, Worked
  <1>8. Carries(Rec, o) /\ refused' \in {refused, job} /\ UNCHANGED plan
    BY <1>1 DEF RecoverFinishDoes, Goes, Ended, Discards
  <1> QED
    BY <1>3, <1>4, <1>5, <1>6, <1>7, <1>8, RecoveryKeepsBooks

\* Recovery of an intent keeps the books in order.
LEMMA RecoverIntentBooks ==
  ASSUME Bookkeeping, NEW o \in Ops, job # None, job[2] = o, RecoverIntent(o), UNCHANGED probe
  PROVE  Bookkeeping'
  <1>0. TypeOK
    BY DEF Bookkeeping
  <1>1. RecoverIntentDoes(o)
    BY RecoverIntentEffect
  <1>2. run[Rec] \in Moving \cup Recovering
    BY <1>1 DEF RecoverIntentDoes, Moving, Recovering
  <1>3. Values(o)
    BY <1>0, <1>1 DEF Values, RecoverIntentDoes, Goes, Ended, TypeOK, StoreTyped,
       RecordsTyped, LocationsTyped, ProcessTyped, HistoryTyped
  <1>4. Shared(o)
    BY <1>0, <1>1, KeysOf DEF Shared, RecoverIntentDoes, Goes, Ended, Adds, Drops,
       TypeOK, StoreTyped, RecordsTyped, LocationsTyped, ProcessTyped, HistoryTyped
  <1>5. Shrinks(o)
    BY <1>1 DEF Shrinks, RecoverIntentDoes
  <1>6. NextOf(o)
    BY <1>1, <1>3 DEF NextOf, RecoverIntentDoes, Goes, Ended, Bookkeeping, Worked,
       Moving, Recovering
  <1>7. BackedOf(o)' /\ (phase = "up" => RegisteredOf(o)')
    BY <1>1 DEF RecoverIntentDoes, Goes, Ended, Adds, Drops, Bookkeeping, Traced,
       BackedOf, RegisteredOf, Worked
  <1>8. Carries(Rec, o) /\ refused' \in {refused, job} /\ UNCHANGED plan
    BY <1>1 DEF RecoverIntentDoes, Goes, Ended
  <1> QED
    BY <1>3, <1>4, <1>5, <1>6, <1>7, <1>8, RecoveryKeepsBooks

-----------------------------------------------------------------------------
(***************************************************************************)
(* The worker, activation, a crash and the other client change no journal. *)
(***************************************************************************)

\* A step that changes no object, journal or request of an operation, and no location,
\* keeps what is said of operations alone.
LEMMA OpsUntouched ==
  ASSUME Bookkeeping,
         UNCHANGED <<staged, backup, session, intent, parts, upload, move, plan, known>>,
         \A q \in Ops : run'[q] = run[q],
         file' = file \/ (\A f \in Files : file'[f] = file[f] \/ file'[f] # None)
  PROVE  Plans' /\ Held' /\ (\A q \in Ops : BackedOf(q)' /\ Sends(q)' = Sends(q))
  <1>1. ASSUME NEW q \in Ops
        PROVE  PlanOf(q)' /\ HeldOf(q)' /\ BackedOf(q)' /\ Sends(q)' = Sends(q)
    <2>1. PlanOf(q)'
      BY DEF Bookkeeping, Plans, PlanOf
    <2>2. ASSUME run[q] \in {"journal", "handoff", "backup"}, file[plan[q].to] # None
          PROVE  file'[plan[q].to] # None
      BY <2>2, Mine DEF Bookkeeping, Plans, PlanOf
    <2>3. HeldOf(q)'
      BY <2>2 DEF Bookkeeping, Held, HeldOf, Bare, Staged
    <2>4. BackedOf(q)'
      BY DEF Bookkeeping, Traced, BackedOf
    <2>5. Sends(q)' = Sends(q)
      BY DEF Sends, Staged
    <2> QED
      BY <2>1, <2>3, <2>4, <2>5
  <1> QED
    BY <1>1 DEF Plans, Held

\* The worker that wakes keeps the books in order.
LEMMA WorkerWakesBooks ==
  ASSUME Bookkeeping, WorkerWakes, UNCHANGED probe
  PROVE  Bookkeeping'
  <1>1. /\ UNCHANGED <<file, staged, backup, session, intent, parts, upload, move, plan, known,
                       probe, pending, verified, gate, job, phase, answer, effect, stale,
                       refused, faults, crashes, foreign>>
        /\ phase = "up" /\ run[Rec] = "idle" /\ run' = [run EXCEPT ![Rec] = "wait"]
    BY DEF WorkerWakes, store, records, ghosts, limits, At, Goto
  <1>2. run'[Rec] = "wait" /\ \A q \in Ops : run'[q] = run[q]
    BY <1>1, OpsAssumption DEF Bookkeeping, TypeOK, LocationsTyped
  <1>3. TypeOK'
    BY <1>1, <1>2, OpsAssumption DEF Bookkeeping, TypeOK, StoreTyped, RecordsTyped,
       LocationsTyped,
       ProcessTyped, HistoryTyped, RecLocations
  <1>4. Plans' /\ Held' /\ \A q \in Ops : BackedOf(q)' /\ Sends(q)' = Sends(q)
    BY <1>1, <1>2, OpsUntouched
  <1>5. Doors' /\ Worked'
    BY <1>1, <1>2, <1>4 DEF Bookkeeping, Doors, GateOf, Worked, Moving, Recovering,
       Probing
  <1>6. Traced'
    BY <1>1, <1>4 DEF Bookkeeping, Traced, RegisteredOf
  <1> QED
    BY <1>3, <1>4, <1>5, <1>6 DEF Bookkeeping

\* Recovery starts on the journal it found first.
LEMMA Entries ==
  ASSUME TypeOK, NEW j \in Keys, j \in Journals
  PROVE  /\ Entry(j) \in Moving \cup Recovering /\ Entry(j) # "mv_mark" /\ j # None
         /\ Entry(j) \in Moving => move[j[2]] # None
         /\ Entry(j) = "r_upload" => upload[j[2]] # None
         /\ Entry(j) # "r_finish"
         /\ Entry(j) \in {"r_parts", "r_upload", "r_intent", "mv_copy", "mv_drop"}
  <1>1. j[1] \in {"parts", "move", "upload", "intent"} /\ j # None
    BY KeysOf DEF Kinds
  <1>2. CASE j[1] = "parts"
    BY <1>1, <1>2 DEF Entry, Moving, Recovering
  <1>3. CASE j[1] = "move"
    BY <1>1, <1>3 DEF Entry, Moving, Recovering, Journals
  <1>4. CASE j[1] = "upload"
    BY <1>1, <1>4 DEF Entry, Moving, Recovering, Journals
  <1>5. CASE j[1] = "intent"
    BY <1>1, <1>5 DEF Entry, Moving, Recovering
  <1> QED
    BY <1>1, <1>2, <1>3, <1>4, <1>5

\* The worker that enters keeps the books in order.
LEMMA WorkerEntersBooks ==
  ASSUME Bookkeeping, WorkerEnters, UNCHANGED probe
  PROVE  Bookkeeping'
  <1>0. TypeOK
    BY DEF Bookkeeping
  <1>1. /\ UNCHANGED <<file, staged, backup, session, intent, parts, upload, move, plan, known,
                       probe, verified, phase, answer, effect, stale, refused, crashes, foreign>>
        /\ phase = "up" /\ run[Rec] = "wait" /\ gate = None
        /\ \A q \in Ops : Live(q) => plan[q].mode \notin Uploads
    BY DEF WorkerEnters, store, records, ghosts, At
  <1>2. \/ Goto(Rec, "idle") /\ UNCHANGED <<gate, job, pending, faults>>
        \/ Read(FALSE) /\ UNCHANGED <<run, gate, job, pending>>
        \/ \E j \in pending : /\ j \in Journals
                              /\ job' = j /\ gate' = Rec /\ Goto(Rec, Entry(j))
                              /\ UNCHANGED <<pending, faults>>
        \/ \E j \in pending : /\ j \notin Journals
                              /\ pending' = pending \ {j}
                              /\ UNCHANGED <<run, gate, job, faults>>
    BY DEF WorkerEnters, First
  <1>3. job = None
    BY <1>1 DEF Bookkeeping, Doors, Moving, Recovering
  <1>4. \A q \in Ops : ~ Sends(q) /\ run[q] \notin Gated
    BY <1>1, OpsAssumption DEF Bookkeeping, Doors, GateOf, Plans, PlanOf, Sends,
       Staged, Live, Gated, Staging,
       Committing, Copying, Deleting, Moving
  <1>5. faults' \in 0 .. MaxFaults
    BY <1>0, <1>2, Reads DEF TypeOK, HistoryTyped
  <1>6. CASE Goto(Rec, "idle") /\ UNCHANGED <<gate, job, pending, faults>>
    <2>1. run' = [run EXCEPT ![Rec] = "idle"] /\ run'[Rec] = "idle" /\ \A q \in Ops : run'[q] = run[q]
      BY <1>0, <1>6, OpsAssumption DEF Goto, TypeOK, LocationsTyped
    <2>2. TypeOK'
      BY <1>0, <1>1, <1>6, <2>1, OpsAssumption DEF TypeOK, StoreTyped, RecordsTyped,
         LocationsTyped,
         ProcessTyped, HistoryTyped, RecLocations
    <2>3. Plans' /\ Held' /\ \A q \in Ops : BackedOf(q)' /\ Sends(q)' = Sends(q)
      BY <1>1, <2>1, OpsUntouched
    <2>4. Doors' /\ Worked'
      BY <1>1, <1>6, <2>1, <2>3 DEF Bookkeeping, Doors, GateOf, Worked, Moving,
         Recovering, Probing
    <2>5. Traced'
      BY <1>1, <1>6, <2>3 DEF Bookkeeping, Traced, RegisteredOf
    <2> QED
      BY <2>2, <2>3, <2>4, <2>5 DEF Bookkeeping
  <1>7. CASE Read(FALSE) /\ UNCHANGED <<run, gate, job, pending>>
    <2>1. TypeOK'
      BY <1>0, <1>1, <1>5, <1>7 DEF TypeOK, StoreTyped, RecordsTyped, LocationsTyped,
         ProcessTyped,
         HistoryTyped
    <2>2. Plans' /\ Held' /\ \A q \in Ops : BackedOf(q)' /\ Sends(q)' = Sends(q)
      BY <1>1, <1>7, OpsUntouched
    <2>3. Doors' /\ Worked'
      BY <1>1, <1>7, <2>2 DEF Bookkeeping, Doors, GateOf, Worked
    <2>4. Traced'
      BY <1>1, <1>7, <2>2 DEF Bookkeeping, Traced, RegisteredOf
    <2> QED
      BY <2>1, <2>2, <2>3, <2>4 DEF Bookkeeping
  <1>8. ASSUME NEW j \in pending, j \in Journals, job' = j, gate' = Rec, Goto(Rec, Entry(j)),
               UNCHANGED <<pending, faults>>
        PROVE  Bookkeeping'
    <2>0. j \in Keys
      BY <1>0, <1>8 DEF TypeOK, ProcessTyped
    <2>1. run' = [run EXCEPT ![Rec] = Entry(j)] /\ run'[Rec] = Entry(j) /\ \A q \in Ops : run'[q] = run[q]
      BY <1>0, <1>8, OpsAssumption DEF Goto, TypeOK, LocationsTyped
    <2>2. /\ Entry(j) \in Moving \cup Recovering /\ Entry(j) # "mv_mark" /\ Entry(j) # "r_finish"
          /\ j # None /\ (Entry(j) \in Moving => move[j[2]] # None)
          /\ Entry(j) = "r_upload" => upload[j[2]] # None
      BY <1>0, <1>8, <2>0, Entries
    <2>3. TypeOK'
      BY <1>0, <1>1, <1>8, <2>0, <2>1, <2>2, OpsAssumption DEF TypeOK, StoreTyped,
         RecordsTyped,
         LocationsTyped, ProcessTyped, HistoryTyped, RecLocations
    <2>4. Plans' /\ Held' /\ \A q \in Ops : BackedOf(q)' /\ Sends(q)' = Sends(q)
      BY <1>1, <2>1, OpsUntouched
    <2>5. Doors'
      BY <1>1, <1>4, <1>8, <2>1, <2>2, <2>4, OpsAssumption DEF Doors, GateOf, Moving,
         Recovering, Probing
    <2>6. Worked'
      BY <1>1, <1>8, <2>1, <2>2 DEF Bookkeeping, Worked, Moving, Recovering
    <2>7. Traced'
      BY <1>1, <1>8, <2>4 DEF Bookkeeping, Traced, RegisteredOf
    <2> QED
      BY <2>3, <2>4, <2>5, <2>6, <2>7 DEF Bookkeeping
  <1>9. ASSUME NEW j \in pending, j \notin Journals, pending' = pending \ {j},
               UNCHANGED <<run, gate, job, faults>>
        PROVE  Bookkeeping'
    <2>1. TypeOK'
      BY <1>0, <1>1, <1>9 DEF TypeOK, StoreTyped, RecordsTyped, LocationsTyped,
         ProcessTyped,
         HistoryTyped
    <2>2. Plans' /\ Held' /\ \A q \in Ops : BackedOf(q)' /\ Sends(q)' = Sends(q)
      BY <1>1, <1>9, OpsUntouched
    <2>3. Doors' /\ Worked'
      BY <1>1, <1>9, <2>2 DEF Bookkeeping, Doors, GateOf, Worked
    <2>4. ASSUME NEW q \in Ops
          PROVE  RegisteredOf(q)'
      <3>1. /\ q \in intent => <<"intent", q>> \in Journals
            /\ parts[q] # "none" => <<"parts", q>> \in Journals
            /\ upload[q] # None => <<"upload", q>> \in Journals
            /\ move[q] # None => <<"move", q>> \in Journals
        BY KeysOf DEF Journals
      <3> QED
        BY <1>1, <1>9, <3>1 DEF Bookkeeping, Traced, RegisteredOf
    <2> QED
      BY <1>1, <2>1, <2>2, <2>3, <2>4 DEF Bookkeeping, Traced
  <1> QED
    BY <1>2, <1>6, <1>7, <1>8, <1>9

\* The next journal of an activation keeps the books in order.
LEMMA ActivationStepBooks ==
  ASSUME Bookkeeping, ActivationStep, UNCHANGED probe
  PROVE  Bookkeeping'
  <1>0. TypeOK
    BY DEF Bookkeeping
  <1>1. /\ UNCHANGED <<file, staged, backup, session, intent, parts, upload, move, plan, known,
                       probe, pending, verified, gate, answer, effect, stale, refused, faults,
                       crashes, foreign>>
        /\ phase = "starting" /\ run[Rec] = "idle"
    BY DEF ActivationStep, store, records, ghosts, limits, At
  <1>2. \/ Journals = {} /\ phase' = "up" /\ UNCHANGED <<run, job>>
        \/ \E j \in Journals : job' = j /\ Goto(Rec, Entry(j)) /\ UNCHANGED phase
    BY DEF ActivationStep, First
  <1>3. job = None /\ gate = None /\ \A q \in Ops : run[q] \in {"idle", "done"}
    BY <1>1 DEF Bookkeeping, Doors, Moving, Recovering
  <1>4. CASE Journals = {} /\ phase' = "up" /\ UNCHANGED <<run, job>>
    <2>1. TypeOK'
      BY <1>0, <1>1, <1>4 DEF TypeOK, StoreTyped, RecordsTyped, LocationsTyped,
         ProcessTyped,
         HistoryTyped
    <2>2. Plans' /\ Held' /\ \A q \in Ops : BackedOf(q)' /\ Sends(q)' = Sends(q)
      BY <1>1, <1>4, OpsUntouched
    <2>3. Doors' /\ Worked'
      BY <1>1, <1>3, <1>4, <2>2, OpsAssumption DEF Bookkeeping, Doors, GateOf, Worked,
         Moving, Recovering, Probing
    <2>4. ASSUME NEW q \in Ops
          PROVE  RegisteredOf(q)'
      <3>1. q \notin intent /\ parts[q] = "none" /\ upload[q] = None /\ move[q] = None
        BY <1>4, KeysOf DEF Journals
      <3> QED
        BY <1>1, <3>1 DEF RegisteredOf
    <2> QED
      BY <2>1, <2>2, <2>3, <2>4 DEF Bookkeeping, Traced
  <1>5. ASSUME NEW j \in Journals, job' = j, Goto(Rec, Entry(j)), UNCHANGED phase
        PROVE  Bookkeeping'
    <2>0. j \in Keys
      BY DEF Journals
    <2>1. run' = [run EXCEPT ![Rec] = Entry(j)] /\ run'[Rec] = Entry(j) /\ \A q \in Ops : run'[q] = run[q]
      BY <1>0, <1>5, OpsAssumption DEF Goto, TypeOK, LocationsTyped
    <2>2. /\ Entry(j) \in Moving \cup Recovering /\ Entry(j) # "mv_mark" /\ Entry(j) # "r_finish"
          /\ j # None /\ (Entry(j) \in Moving => move[j[2]] # None)
          /\ Entry(j) = "r_upload" => upload[j[2]] # None
      BY <1>0, <1>5, <2>0, Entries
    <2>3. TypeOK'
      BY <1>0, <1>1, <1>5, <2>0, <2>1, <2>2, OpsAssumption DEF TypeOK, StoreTyped,
         RecordsTyped,
         LocationsTyped, ProcessTyped, HistoryTyped, RecLocations
    <2>4. Plans' /\ Held' /\ \A q \in Ops : BackedOf(q)' /\ Sends(q)' = Sends(q)
      BY <1>1, <2>1, OpsUntouched
    <2>5. \A q \in Ops : ~ Sends(q)
      BY <1>3 DEF Sends, Staged, Staging, Committing
    <2>6. Doors'
      BY <1>1, <1>3, <1>5, <2>1, <2>2, <2>4, <2>5, OpsAssumption DEF Doors, GateOf,
         Gated, Committing, Copying,
         Deleting, Moving, Recovering, Probing
    <2>7. Worked'
      BY <1>1, <1>5, <2>1, <2>2 DEF Bookkeeping, Worked, Moving, Recovering
    <2>8. Traced'
      BY <1>1, <1>5, <2>4 DEF Traced
    <2> QED
      BY <2>3, <2>4, <2>6, <2>7, <2>8 DEF Bookkeeping
  <1> QED
    BY <1>2, <1>4, <1>5

\* A crash keeps the books in order.
LEMMA CrashBooks ==
  ASSUME Bookkeeping, Crash, UNCHANGED probe
  PROVE  Bookkeeping'
  <1>0. TypeOK
    BY DEF Bookkeeping
  <1>1. /\ UNCHANGED <<file, staged, backup, session, intent, parts, upload, move, plan, known,
                       probe, answer, effect, stale, refused, faults, foreign>>
        /\ phase' = "down" /\ gate' = None /\ job' = None /\ pending' = {} /\ verified' = FALSE
        /\ crashes < MaxCrashes /\ crashes' = crashes + 1
        /\ run' = [a \in Ops \cup {Rec} |-> IF run[a] = "idle" \/ a = Rec THEN "idle" ELSE "done"]
    BY DEF Crash, store, records, ghosts
  <1>2. /\ run'[Rec] = "idle"
        /\ \A q \in Ops : run'[q] = IF run[q] = "idle" THEN "idle" ELSE "done"
    BY <1>1, OpsAssumption
  <1>3. TypeOK'
    <2>1. LocationsTyped'
      BY <1>1, <1>2 DEF LocationsTyped, OpLocations, RecLocations
    <2>2. HistoryTyped'
      BY <1>0, <1>1, ConstantsAssumption, SMT DEF TypeOK, HistoryTyped
    <2> QED
      BY <1>0, <1>1, <2>1, <2>2 DEF TypeOK, StoreTyped, RecordsTyped, ProcessTyped
  <1>4. ASSUME NEW q \in Ops
        PROVE  /\ PlanOf(q)' /\ HeldOf(q)' /\ BackedOf(q)' /\ ~ Sends(q)' /\ GateOf(q)'
    <2>1. run'[q] \in {"idle", "done"} /\ (run'[q] = "idle" <=> run[q] = "idle")
      BY <1>2
    <2>2. PlanOf(q)'
      BY <1>1, <2>1 DEF Bookkeeping, Plans, PlanOf, Staging, Committing, Copying,
         Deleting, Moving
    <2>3. HeldOf(q)'
      BY <1>1, <2>1 DEF Bookkeeping, Held, HeldOf, Bare, Staged, Staging, Committing,
         Moving
    <2>4. BackedOf(q)'
      BY <1>1 DEF Bookkeeping, Traced, BackedOf
    <2>5. ~ Sends(q)'
      BY <2>1 DEF Sends, Staged, Staging, Committing
    <2>6. GateOf(q)'
      BY <1>1, <2>1, OpsAssumption DEF GateOf, Gated, Committing, Copying, Deleting,
         Moving
    <2> QED
      BY <2>2, <2>3, <2>4, <2>5, <2>6
  <1>5. Doors'
    BY <1>1, <1>2, <1>4, OpsAssumption DEF Doors, Moving, Recovering, Probing
  <1>6. Worked'
    BY <1>1, <1>2 DEF Bookkeeping, Worked, Moving
  <1> QED
    BY <1>1, <1>3, <1>4, <1>5, <1>6 DEF Bookkeeping, Plans, Held, Traced

\* Another client's write keeps the books in order.
LEMMA ForeignWriteBooks ==
  ASSUME Bookkeeping, NEW f \in Files, ForeignWrite(f), UNCHANGED probe
  PROVE  Bookkeeping'
  <1>0. TypeOK
    BY DEF Bookkeeping
  <1>1. /\ UNCHANGED <<staged, backup, session, intent, parts, upload, move, plan, known, run, gate,
                       probe, pending, verified, job, phase, answer, effect, refused, faults, crashes>>
        /\ file' = [file EXCEPT ![f] = Object(Guest, None)] /\ Touch(None, f)
        /\ foreign < MaxForeign /\ foreign' = foreign + 1
    BY DEF ForeignWrite, records, local
  <1>2. Object(Guest, None) \in Objects /\ Object(Guest, None) # None
    BY Uploaded DEF Bodies
  <1>3. \A g \in Files : file'[g] = file[g] \/ file'[g] # None
    BY <1>0, <1>1, <1>2 DEF TypeOK, StoreTyped
  <1>4. TypeOK'
    <2>1. StoreTyped'
      BY <1>0, <1>1, <1>2 DEF TypeOK, StoreTyped
    <2>2. HistoryTyped'
      BY <1>0, <1>1, ConstantsAssumption, SMT DEF TypeOK, HistoryTyped, Touch
    <2> QED
      BY <1>0, <1>1, <2>1, <2>2 DEF TypeOK, RecordsTyped, LocationsTyped, ProcessTyped
  <1>5. Plans' /\ Held' /\ \A q \in Ops : BackedOf(q)' /\ Sends(q)' = Sends(q)
    BY <1>1, <1>3, OpsUntouched
  <1>6. Doors' /\ Worked'
    BY <1>1, <1>5 DEF Bookkeeping, Doors, GateOf, Worked
  <1>7. Traced'
    BY <1>1, <1>5 DEF Bookkeeping, Traced, RegisteredOf
  <1> QED
    BY <1>4, <1>5, <1>6, <1>7 DEF Bookkeeping

\* The beginning of an activation keeps the books in order.
LEMMA ActivateBooks ==
  ASSUME Bookkeeping, Activate
  PROVE  Bookkeeping'
  <1>0. TypeOK
    BY DEF Bookkeeping
  <1>1. /\ UNCHANGED <<file, staged, backup, session, intent, parts, upload, move, plan, known,
                       probe, verified, gate, job, answer, effect, stale, refused, faults, crashes,
                       foreign>>
        /\ phase = "down" /\ phase' = "starting" /\ pending' = {}
        /\ run' = [run EXCEPT ![Rec] = "p_before"]
    BY DEF Activate, store, records, ghosts, limits, Goto
  <1>2. run'[Rec] = "p_before" /\ \A q \in Ops : run'[q] = run[q]
    BY <1>0, <1>1, OpsAssumption DEF TypeOK, LocationsTyped
  <1>3. TypeOK'
    BY <1>0, <1>1, <1>2, OpsAssumption DEF TypeOK, StoreTyped, RecordsTyped,
       LocationsTyped,
       ProcessTyped, HistoryTyped, RecLocations, Probing
  <1>4. Plans' /\ Held' /\ \A q \in Ops : BackedOf(q)' /\ Sends(q)' = Sends(q)
    BY <1>1, <1>2, OpsUntouched
  <1>5. Doors' /\ Worked'
    BY <1>1, <1>2, <1>4 DEF Bookkeeping, Doors, GateOf, Worked, Moving, Recovering,
       Probing
  <1>6. Traced'
    BY <1>1, <1>4 DEF Traced
  <1> QED
    BY <1>3, <1>4, <1>5, <1>6 DEF Bookkeeping

\* A step of the probe.
LEMMA ProbeBooks ==
  ASSUME Bookkeeping, run[Rec] \in Probing, NEW pc,
         UNCHANGED <<file, staged, backup, session, intent, parts, upload, move, plan, known,
                     pending, verified, gate, job, answer, effect, stale, refused, crashes,
                     foreign>>,
         faults' \in 0 .. MaxFaults, probe' \subseteq {"intent", "source", "copy"},
         probe' # {} => "intent" \in probe',
         pc \in {"p_put", "p_copy"} => "intent" \in probe',
         Goto(Rec, pc), pc \in Probing \cup {"idle"},
         phase' = phase \/ (phase' = "down" /\ pc = "idle")
  PROVE  Bookkeeping'
  <1>0. TypeOK /\ phase = "starting"
    BY DEF Bookkeeping, Doors
  <1>1. run' = [run EXCEPT ![Rec] = pc] /\ run'[Rec] = pc /\ \A q \in Ops : run'[q] = run[q]
    BY <1>0, OpsAssumption DEF Goto, TypeOK, LocationsTyped
  <1>2. TypeOK'
    <2>1. pc \in RecLocations
      BY DEF RecLocations
    <2> QED
      BY <1>0, <1>1, <2>1, OpsAssumption DEF TypeOK, StoreTyped, RecordsTyped,
         LocationsTyped,
         ProcessTyped, HistoryTyped
  <1>3. Plans' /\ Held' /\ \A q \in Ops : BackedOf(q)' /\ Sends(q)' = Sends(q)
    BY <1>1, OpsUntouched
  <1>4. Doors' /\ Worked'
    BY <1>0, <1>1, <1>3 DEF Bookkeeping, Doors, GateOf, Worked, Moving, Recovering,
       Probing
  <1>5. Traced'
    BY <1>0, <1>3 DEF Traced
  <1> QED
    BY <1>2, <1>3, <1>4, <1>5 DEF Bookkeeping

\* A request of the activation probe keeps the books in order.
LEMMA ProbeStoreBooks ==
  ASSUME Bookkeeping, NEW at \in {"p_intent", "p_put", "p_copy"},
         NEW what \in {"intent", "source", "copy"},
         NEW next \in {"p_put", "p_copy", "p_passed"}, NEW otherwise \in {"down", "p_failed"},
         ProbeStore(at, what, next, otherwise),
         at = "p_intent" <=> what = "intent"
  PROVE  Bookkeeping'
  <1>0. TypeOK /\ run[Rec] = at /\ run[Rec] \in Probing
    BY DEF Bookkeeping, ProbeStore, At, Probing
  <1>1. UNCHANGED <<file, staged, backup, session, intent, parts, upload, move, plan, known,
                    pending, verified, gate, job, answer, effect, stale, refused, crashes, foreign>>
    BY DEF ProbeStore, store, records, ghosts
  <1>2. PICK x, ok \in BOOLEAN :
          /\ Call(x, ok)
          /\ probe' = IF x THEN probe \cup {what} ELSE probe
          /\ IF ok THEN Goto(Rec, next) /\ UNCHANGED phase
             ELSE IF otherwise = "down" THEN Close
             ELSE Goto(Rec, otherwise) /\ UNCHANGED phase
    BY DEF ProbeStore
  <1>3. faults' \in 0 .. MaxFaults /\ (x \/ ~ ok)
    BY <1>0, <1>2, Calls DEF Call
  <1>4. "intent" \in probe \/ what = "intent"
    BY <1>0 DEF Bookkeeping, Worked
  <1>5. /\ probe' \subseteq {"intent", "source", "copy"}
        /\ probe' # {} => "intent" \in probe'
        /\ ok => "intent" \in probe'
    BY <1>0, <1>2, <1>3, <1>4 DEF TypeOK, RecordsTyped, Bookkeeping, Worked
  <1>6. CASE ok
    BY <1>0, <1>1, <1>2, <1>3, <1>5, <1>6, ProbeBooks DEF Probing
  <1>7. CASE ~ ok /\ otherwise = "down"
    BY <1>0, <1>1, <1>2, <1>3, <1>5, <1>7, ProbeBooks DEF Close
  <1>8. CASE ~ ok /\ otherwise # "down"
    BY <1>0, <1>1, <1>2, <1>3, <1>5, <1>8, ProbeBooks DEF Probing
  <1> QED
    BY <1>6, <1>7, <1>8

\* The removal of what the probe left keeps the books in order.
LEMMA ProbeSettleBooks ==
  ASSUME Bookkeeping, ProbeSettle
  PROVE  Bookkeeping'
  <1>0. TypeOK /\ run[Rec] \in {"p_before", "p_passed", "p_failed"} /\ run[Rec] \in Probing
    BY DEF Bookkeeping, ProbeSettle, Probing
  <1>1. UNCHANGED <<file, staged, backup, session, intent, parts, upload, move, plan, known,
                    pending, verified, gate, job, answer, effect, stale, refused, crashes, foreign>>
    BY DEF ProbeSettle, store, records, ghosts
  <1>2. CASE probe = {}
    <2>1. UNCHANGED <<probe, faults>>
      BY <1>2 DEF ProbeSettle
    <2>2. faults' \in 0 .. MaxFaults
      BY <1>0, <2>1 DEF TypeOK, HistoryTyped
    <2>3. \/ run[Rec] = "p_before" /\ Goto(Rec, "p_intent") /\ UNCHANGED phase
          \/ run[Rec] = "p_passed" /\ Goto(Rec, "idle") /\ UNCHANGED phase
          \/ run[Rec] = "p_failed" /\ Close
      BY <1>0, <1>2 DEF ProbeSettle, At
    <2>4. CASE run[Rec] = "p_before" /\ Goto(Rec, "p_intent") /\ UNCHANGED phase
      BY <1>0, <1>1, <1>2, <2>1, <2>2, <2>4, ProbeBooks DEF Probing
    <2>5. CASE run[Rec] = "p_passed" /\ Goto(Rec, "idle") /\ UNCHANGED phase
      BY <1>0, <1>1, <1>2, <2>1, <2>2, <2>5, ProbeBooks
    <2>6. CASE run[Rec] = "p_failed" /\ Close
      BY <1>0, <1>1, <1>2, <2>1, <2>2, <2>6, ProbeBooks DEF Close
    <2> QED
      BY <2>3, <2>4, <2>5, <2>6
  <1>3. CASE probe # {}
    <2>1. PICK x, ok \in BOOLEAN :
            /\ Call(x, ok)
            /\ probe' = IF x THEN probe \ {ProbeDebris} ELSE probe
            /\ IF ok THEN UNCHANGED <<run, phase>> ELSE Close
      BY <1>3 DEF ProbeSettle
    <2>2. faults' \in 0 .. MaxFaults
      BY <1>0, <2>1, Calls
    <2>3. probe' \subseteq {"intent", "source", "copy"} /\ (probe' # {} => "intent" \in probe')
      BY <1>0, <1>3, <2>1 DEF ProbeDebris, TypeOK, RecordsTyped, Bookkeeping, Worked
    <2>4. CASE ok
      <3>1. Goto(Rec, run[Rec])
        BY <1>0, <2>1, <2>4 DEF Goto, TypeOK, LocationsTyped
      <3> QED
        BY <1>0, <1>1, <2>1, <2>2, <2>3, <2>4, <3>1, ProbeBooks
    <2>5. CASE ~ ok
      BY <1>0, <1>1, <2>1, <2>2, <2>3, <2>5, ProbeBooks DEF Close
    <2> QED
      BY <2>4, <2>5
  <1> QED
    BY <1>2, <1>3

\* The activation and its probe keeps the books in order.
LEMMA ActivationBooks ==
  ASSUME Bookkeeping, Activation
  PROVE  Bookkeeping'
  <1>1. CASE Activate
    BY <1>1, ActivateBooks
  <1>2. CASE ProbeIntent
    BY <1>2, ProbeStoreBooks DEF ProbeIntent
  <1>3. CASE ProbePut
    BY <1>3, ProbeStoreBooks DEF ProbePut
  <1>4. CASE ProbeCopy
    BY <1>4, ProbeStoreBooks DEF ProbeCopy
  <1>5. CASE ProbeSettle
    BY <1>5, ProbeSettleBooks
  <1> QED
    BY <1>1, <1>2, <1>3, <1>4, <1>5 DEF Activation

\* Every step of an operation keeps the books in order.
LEMMA OperationBooks ==
  ASSUME Bookkeeping, NEW o \in Ops, Operation(o), UNCHANGED probe
  PROVE  Bookkeeping'
  <1>1. CASE WriteIntent(o)
    BY <1>1, WriteIntentBooks
  <1>2. CASE StageSingle(o)
    BY <1>2, StageSingleBooks
  <1>3. CASE OpenSession(o)
    BY <1>3, OpenSessionBooks
  <1>4. CASE CreateSession(o)
    BY <1>4, CreateSessionBooks
  <1>5. CASE ReleaseUnstarted(o)
    BY <1>5, ReleaseUnstartedBooks
  <1>6. CASE BindSession(o)
    BY <1>6, BindSessionBooks
  <1>7. CASE UnbindSession(o)
    BY <1>7, UnbindSessionBooks
  <1>8. CASE CompleteParts(o)
    BY <1>8, CompletePartsBooks
  <1>9. CASE PartsMissing(o)
    BY <1>9, PartsMissingBooks
  <1>10. CASE ReleaseSession(o)
    BY <1>10, ReleaseSessionBooks
  <1>11. CASE AbortSession(o)
    BY <1>11, AbortSessionBooks
  <1>12. CASE Inspect(o)
    BY <1>12, InspectBooks
  <1>13. CASE Abandon(o)
    BY <1>13, AbandonBooks
  <1>14. CASE Check(o)
    BY <1>14, CheckBooks
  <1>15. CASE WriteTransaction(o)
    BY <1>15, WriteTransactionBooks
  <1>16. CASE ReleaseIntent(o)
    BY <1>16, ReleaseIntentBooks
  <1>17. CASE BackUp(o)
    BY <1>17, BackUpBooks
  <1>18. CASE MarkBackup(o)
    BY <1>18, MarkBackupBooks
  <1>19. CASE Verify(o)
    BY <1>19, VerifyBooks
  <1>20. CASE MarkStarted(o)
    BY <1>20, MarkStartedBooks
  <1>21. CASE Publish(o)
    BY <1>21, PublishBooks
  <1>22. CASE MarkRejected(o)
    BY <1>22, MarkRejectedBooks
  <1>23. CASE Confirm(o)
    BY <1>23, ConfirmBooks
  <1>24. CASE Restore(o)
    BY <1>24, RestoreBooks
  <1>25. CASE Remark(o)
    BY <1>25, RemarkBooks
  <1>26. CASE Clean(o)
    BY <1>26, CleanBooks
  <1>27. CASE CopyFile(o)
    BY <1>27, CopyFileBooks
  <1>28. CASE ConfirmCopy(o)
    BY <1>28, ConfirmCopyBooks
  <1>29. CASE DeleteFile(o)
    BY <1>29, DeleteFileBooks
  <1>30. CASE ConfirmDelete(o)
    BY <1>30, ConfirmDeleteBooks
  <1>31. CASE BeginMove(o)
    BY <1>31, BeginMoveBooks
  <1>32. CASE MoveCopy(o, o)
    BY <1>32, MoveCopyBooks
  <1>33. CASE MoveLost(o, o)
    BY <1>33, MoveLostBooks
  <1>34. CASE MoveMark(o, o)
    BY <1>34, MoveMarkBooks
  <1>35. CASE MoveDrop(o, o)
    BY <1>35, MoveDropBooks
  <1>36. CASE MoveEnd(o, o)
    BY <1>36, MoveEndBooks
  <1> QED
    BY <1>1, <1>2, <1>3, <1>4, <1>5, <1>6, <1>7, <1>8, <1>9, <1>10, <1>11, <1>12,
       <1>13, <1>14, <1>15, <1>16, <1>17, <1>18, <1>19, <1>20, <1>21, <1>22, <1>23,
       <1>24, <1>25, <1>26, <1>27, <1>28, <1>29, <1>30, <1>31, <1>32, <1>33, <1>34,
       <1>35, <1>36 DEF Operation

\* Every step of recovery keeps the books in order.
LEMMA RecoveryBooks ==
  ASSUME Bookkeeping, Recovery, UNCHANGED probe
  PROVE  Bookkeeping'
  <1>0. job # None => job[2] \in Ops
    BY KeysOf DEF Bookkeeping, TypeOK, ProcessTyped
  <1>1. CASE WorkerWakes
    BY <1>1, WorkerWakesBooks
  <1>2. CASE WorkerEnters
    BY <1>2, WorkerEntersBooks
  <1>3. CASE ActivationStep
    BY <1>3, ActivationStepBooks
  <1>4. CASE job # None /\ RecoverParts(job[2])
    BY <1>0, <1>4, RecoverPartsBooks
  <1>5. CASE job # None /\ RecoverUpload(job[2])
    BY <1>0, <1>5, RecoverUploadBooks
  <1>6. CASE job # None /\ RecoverFinish(job[2])
    BY <1>0, <1>6, RecoverFinishBooks
  <1>7. CASE job # None /\ RecoverIntent(job[2])
    BY <1>0, <1>7, RecoverIntentBooks
  <1>8. CASE job # None /\ MoveCopy(Rec, job[2])
    BY <1>0, <1>8, MoveCopyRecovers
  <1>9. CASE job # None /\ MoveLost(Rec, job[2])
    BY <1>0, <1>9, MoveLostRecovers
  <1>10. CASE job # None /\ MoveMark(Rec, job[2])
    BY <1>0, <1>10, MoveMarkRecovers
  <1>11. CASE job # None /\ MoveDrop(Rec, job[2])
    BY <1>0, <1>11, MoveDropRecovers
  <1>12. CASE job # None /\ MoveEnd(Rec, job[2])
    BY <1>0, <1>12, MoveEndRecovers
  <1> QED
    BY <1>1, <1>2, <1>3, <1>4, <1>5, <1>6, <1>7, <1>8, <1>9, <1>10, <1>11,
       <1>12 DEF Recovery

-----------------------------------------------------------------------------
(***************************************************************************)
(* The bookkeeping of every behaviour.                                     *)
(***************************************************************************)

\* The books are in order at first.
LEMMA InitBooks == Init => Bookkeeping
  <1> SUFFICES ASSUME Init PROVE Bookkeeping
    OBVIOUS
  <1>1. \A q \in Ops : /\ staged[q] = None /\ backup[q] = None /\ parts[q] = "none"
                       /\ upload[q] = None /\ move[q] = None /\ plan[q] = None /\ known[q] = None
                       /\ run[q] = "idle" /\ q \notin intent
    BY DEF Init
  <1>2. run[Rec] = "idle" /\ gate = None /\ job = None /\ phase = "up" /\ probe = {}
    BY DEF Init
  <1>3. TypeOK
    <2>1. \A f \in Files : file[f] \in Objects \cup {None}
      BY Uploaded DEF Init, Bodies
    <2>2. StoreTyped
      BY <2>1 DEF Init, StoreTyped
    <2>3. RecordsTyped
      BY DEF Init, RecordsTyped
    <2>4. LocationsTyped
      BY DEF Init, LocationsTyped, OpLocations, RecLocations
    <2>5. ProcessTyped
      BY DEF Init, ProcessTyped
    <2>6. HistoryTyped
      BY ConstantsAssumption, SMT DEF Init, HistoryTyped
    <2> QED
      BY <2>2, <2>3, <2>4, <2>5, <2>6 DEF TypeOK
  <1>4. Doors
    BY <1>1, <1>2, OpsAssumption DEF Doors, GateOf, Gated, Committing, Copying,
       Deleting, Moving, Recovering,
       Probing
  <1>5. Plans
    BY <1>1 DEF Plans, PlanOf, Staging, Committing, Copying, Deleting, Moving
  <1>6. Held
    BY <1>1 DEF Held, HeldOf, Bare, Staged, Staging, Committing, Moving
  <1>7. Traced
    BY <1>1 DEF Traced, BackedOf, RegisteredOf
  <1>8. Worked
    BY <1>2 DEF Worked, Moving
  <1> QED
    BY <1>3, <1>4, <1>5, <1>6, <1>7, <1>8 DEF Bookkeeping

\* Every step keeps the books in order.
LEMMA NextBooks == Bookkeeping /\ [Next]_vars => Bookkeeping'
  <1> SUFFICES ASSUME Bookkeeping, [Next]_vars PROVE Bookkeeping'
    OBVIOUS
  <1>1. ASSUME NEW o \in Ops, Start(o) \/ Lock(o) \/ Interrupt(o) \/ Operation(o), UNCHANGED probe
        PROVE  Bookkeeping'
    BY <1>1, StartBooks, LockBooks, InterruptBooks, OperationBooks
  <1>2. ASSUME Recovery \/ Crash, UNCHANGED probe
        PROVE  Bookkeeping'
    BY <1>2, RecoveryBooks, CrashBooks
  <1>3. ASSUME NEW f \in Files, ForeignWrite(f), UNCHANGED probe
        PROVE  Bookkeeping'
    BY <1>3, ForeignWriteBooks
  <1>4. CASE Activation
    BY <1>4, ActivationBooks
  <1>5. CASE UNCHANGED vars
    <2>1. UNCHANGED <<file, staged, backup, session, intent, parts, upload, move, plan, known, run,
                      gate, probe, pending, verified, job, phase, answer, effect, stale, refused,
                      faults, crashes, foreign>>
      BY <1>5 DEF vars, store, records, local, ghosts, limits
    <2>2. TypeOK'
      BY <2>1 DEF Bookkeeping, TypeOK, StoreTyped, RecordsTyped, LocationsTyped,
         ProcessTyped,
         HistoryTyped
    <2>3. Plans' /\ Held' /\ \A q \in Ops : BackedOf(q)' /\ Sends(q)' = Sends(q)
      BY <2>1, OpsUntouched
    <2>4. Doors' /\ Worked'
      BY <2>1, <2>3 DEF Bookkeeping, Doors, GateOf, Worked
    <2>5. Traced'
      BY <2>1, <2>3 DEF Bookkeeping, Traced, RegisteredOf
    <2> QED
      BY <2>2, <2>3, <2>4, <2>5 DEF Bookkeeping
  <1> QED
    BY <1>1, <1>2, <1>3, <1>4, <1>5 DEF Next

\* The books are in order in every state of every behaviour.
THEOREM BooksInOrder == Spec => []Bookkeeping
  BY InitBooks, NextBooks, PTL DEF Spec

\* Every variable has its type in every reachable state (TypeOK).
THEOREM S3TypeCorrect == Spec => []TypeOK
  <1>1. Bookkeeping => TypeOK
    BY DEF Bookkeeping
  <1> QED
    BY <1>1, BooksInOrder, PTL

\* No staged object, backup or probe is ever without a journal, and the worker of an
\* active storage knows every journal of the bucket (NothingIsOrphaned).
THEOREM NothingIsLostFromSight == Spec => []NothingIsOrphaned
  <1>1. ASSUME Bookkeeping
        PROVE  NothingIsOrphaned
    <2>1. EveryObjectHasAJournal
      BY <1>1 DEF Bookkeeping, Traced, BackedOf, Worked, EveryObjectHasAJournal
    <2>2. ASSUME phase = "up", NEW j \in Journals
          PROVE  j \in pending
      <3>1. j \in Keys /\ j[2] \in Ops /\ j = <<j[1], j[2]>> /\ j[1] \in Kinds
        BY KeysOf DEF Journals
      <3>2. /\ j[1] = "parts" => parts[j[2]] # "none"
            /\ j[1] = "move" => move[j[2]] # None
            /\ j[1] = "upload" => upload[j[2]] # None
            /\ j[1] = "intent" => j[2] \in intent
        BY DEF Journals
      <3>3. RegisteredOf(j[2])
        BY <1>1, <2>2, <3>1 DEF Bookkeeping, Traced
      <3> QED
        BY <3>1, <3>2, <3>3 DEF RegisteredOf, Kinds
    <2> QED
      BY <2>1, <2>2 DEF NothingIsOrphaned, WorkerKnowsEveryJournal
  <1> QED
    BY <1>1, BooksInOrder, PTL

=============================================================================
