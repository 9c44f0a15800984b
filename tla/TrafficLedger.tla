--------------------------- MODULE TrafficLedger ---------------------------
(***************************************************************************)
(* File-content traffic accounting: the ledger with its snapshot and its   *)
(* journal, the single writer that commits charges in groups, and the      *)
(* streams that may pass bytes on only once they are charged (traffic.rs,  *)
(* traffic/commit.rs, traffic/stream.rs).                                  *)
(*                                                                         *)
(* One direction is modelled; the other has the same code with its own     *)
(* counters.  There is one ordinary account, so its allowance and the      *)
(* shared one of all accounts are two limits on one counter.  The day      *)
(* series is display data and left out.                                    *)
(***************************************************************************)
EXTENDS Naturals, Sequences, FiniteSets, SequencesExt

CONSTANTS
    Streams,        \* metered bodies
    SubjectsOf,     \* who may ask for each of them
    None,
    Size,           \* bytes of a body
    Limits,         \* Quota limits by counter, 0 for none
    DefaultCycle,   \* ResetCycle::default
    Cycles,         \* reset cycles an administrator may choose
    MaxBatch,       \* MAX_COMMIT_RECORDS
    MaxPending,     \* MAX_PENDING_CHARGES
    CompactAt,      \* COMPACTION_RECORDS
    MaxClock,       \* bound: latest time
    MaxSteps,       \* bound: changes of the clock
    MaxEdits,       \* bound: changes of the reset cycle
    MaxFaults,      \* bound: filesystem calls that fail
    MaxCrashes      \* bound: crashes

Counters == {"total", "guest", "users"}
Subjects == {"guest", "user", "admin", "webdav"}

ASSUME TrafficAssumption ==
    /\ None \notin Streams
    /\ SubjectsOf \in [Streams -> SUBSET Subjects]
    /\ Limits \in [Counters -> Nat]
    /\ Cycles \subseteq Nat \ {0} /\ DefaultCycle \in Cycles
    /\ {Size, MaxBatch, MaxPending, CompactAt} \subseteq Nat \ {0}
    /\ {MaxClock, MaxSteps, MaxEdits, MaxFaults, MaxCrashes} \subseteq Nat

VARIABLES
    now,        \* Utc::now, which may also go back
    cycle,      \* the configured ResetCycle
    snapshot,   \* traffic-usage.json
    journal,    \* traffic-usage.jsonl: its complete records, whether it ends in an
                \* open tail, and whether such a tail has been written over
    loading,    \* TrafficStore::load in progress
    runtime,    \* Runtime; None while the process is down
    queue,      \* the bounded channel of ChargeRequests
    group,      \* the writer's commit group
    streams,    \* the metered bodies
    steps, edits, faults, crashes,
    charged,    \* history: every record that reached the journal, in order
    released,   \* history: the records whose bytes were passed on
    origin,     \* history: the ledger the first start published
    unrecorded  \* history: an edited schedule took effect in a refused request
                \* before the first record of its group

disk == <<snapshot, journal>>
process == <<loading, runtime, queue, group>>
bounds == <<steps, edits, faults, crashes>>
history == <<charged, released, origin, unrecorded>>
vars == <<now, cycle, disk, process, streams, bounds, history>>

Holds == UNCHANGED faults
Fails == faults < MaxFaults /\ faults' = faults + 1

-----------------------------------------------------------------------------
(* Ledger.                                                                 *)

\* ResetCycle::next, of a cycle of hours or days whose anchor is the origin.
NextReset(c, t) == (t \div c + 1) * c

Unused == [k \in Counters |-> 0]
NewLedger(c, t) == [seq |-> 0, next |-> NextReset(c, t), cycle |-> c, time |-> t, used |-> Unused]

\* Ledger::advance: time never goes back; a boundary clears the counters; an
\* edited schedule changes the next boundary, never the counters.
Advance(l, t, c) ==
    LET at == IF t > l.time THEN t ELSE l.time
        passed == at >= l.next IN
    [l EXCEPT !.time = at, !.cycle = c,
              !.used = IF passed THEN Unused ELSE @,
              !.next = IF passed \/ l.cycle # c THEN NextReset(c, at) ELSE @]

Touches(subject) == CASE subject = "guest" -> {"total", "guest"}
                      [] subject = "user" -> {"total", "users"}
                      [] OTHER -> {"total"}

\* Ledger::apply
Apply(l, r) ==
    LET a == Advance(l, r.time, r.cycle) IN
    [a EXCEPT !.seq = r.seq,
              !.used = [k \in Counters |-> IF k \in Touches(r.subject) THEN @[k] + r.bytes ELSE @[k]]]

\* TrafficStore::check: the administrator is metered without a limit.
Check(l, subject, n) ==
    subject = "admin" \/ \A k \in Touches(subject) :
        Limits[k] = 0 \/ l.used[k] + n <= Limits[k]

\* A fold from the left whose accumulator TLC evaluates once.
Folded(op(_, _), base, seq) ==
    LET f[n \in 0..Len(seq)] ==
            IF n = 0 THEN base ELSE CHOOSE l \in {op(a, seq[n]) : a \in {f[n - 1]}} : TRUE
    IN  f[Len(seq)]

\* Mutant: the record the snapshot ends with is applied again.
SkipsBelow(l, r) == r.seq < l.seq

\* replay_complete_records: known records are skipped, a gap is an error.
Skips(l, r) == r.seq <= l.seq
Replay(l, records) ==
    Folded(LAMBDA a, r : IF Skips(a, r) THEN a ELSE Apply(a, r), l, records)
NoGap(l, records) ==
    \A i \in DOMAIN records : records[i].seq <= (IF i = 1 THEN l.seq ELSE
        IF records[i - 1].seq > l.seq THEN records[i - 1].seq ELSE l.seq) + 1

-----------------------------------------------------------------------------
(* Streams.                                                                *)

Body(state, subject, left, took) ==
    [state |-> state, subject |-> subject, left |-> left, took |-> took]

\* TrafficStore::download: the length, when it is known, is tried first.
Preflight(subject, n) ==
    /\ runtime # None /\ ~runtime.failed
    /\ Check(Advance(runtime.ledger, now, cycle), subject, n)
Open(s) ==
    /\ streams[s].state = "new"
    /\ \E subject \in SubjectsOf[s], n \in {1, Size} :
        /\ Preflight(subject, n)
        /\ streams' = [streams EXCEPT ![s] = Body("open", subject, Size, 0)]
    /\ UNCHANGED <<now, cycle, disk, process, bounds, history>>

\* ReadyBatch::collect takes what is ready; charge waits for room in the
\* channel and then for the answer.
Collect(s) ==
    /\ streams[s].state = "open" /\ runtime # None /\ Len(queue) < MaxPending
    /\ \E n \in 1..streams[s].left :
        /\ streams' = [streams EXCEPT ![s].state = "charging", ![s].took = n]
        /\ queue' = Append(queue, [stream |-> s, subject |-> streams[s].subject, bytes |-> n])
    /\ UNCHANGED <<now, cycle, disk, loading, runtime, group, bounds, history>>

\* The client disappears while its charge is in the channel, where it stays.
Leave(s) ==
    /\ streams[s].state = "charging"
    /\ streams' = [streams EXCEPT ![s].state = "gone"]
    /\ UNCHANGED <<now, cycle, disk, process, bounds, history>>

\* The answers of a group: granted records by stream, refusals, or an error
\* for all of them.
Answered(granted, refused) ==
    [s \in Streams |->
        LET b == streams[s] IN
        IF b.state # "charging" \/ s \notin granted \cup refused THEN b
        ELSE IF s \in refused \/ b.left = b.took THEN [b EXCEPT !.state = "gone"]
        ELSE [b EXCEPT !.state = "open", !.left = @ - b.took]]

-----------------------------------------------------------------------------
(* The writer.                                                             *)

\* The charge of request q if it is accepted on ledger l.
RecordOf(l, q) == [seq |-> l.seq + 1, time |-> l.time, subject |-> q.subject,
                   bytes |-> q.bytes, cycle |-> cycle]
Granted(g, l, q) == LET r == RecordOf(l, q) IN
    [g EXCEPT !.ledger = Apply(l, r), !.records = Append(@, r), !.granted = Append(@, q.stream)]
Refused(g, l, q) == [g EXCEPT !.ledger = l, !.refused = @ \cup {q.stream}]

\* Mutant: every request of a group is tried against the ledger before it.
ConsideredApart(g, q) == LET l == Advance(g.ledger, now, cycle) IN
    IF Check(Advance(runtime.ledger, now, cycle), q.subject, q.bytes)
    THEN Granted(g, l, q) ELSE Refused(g, l, q)

\* One request against the candidate ledger of the group.  A refused one adds
\* no record, and leaves the ledger advanced to the time it was refused at.
Considered(g, q) == LET l == Advance(g.ledger, now, cycle) IN
    IF Check(l, q.subject, q.bytes) THEN Granted(g, l, q) ELSE Refused(g, l, q)

\* run: everything that has arrived, at most MaxBatch.
TakeGroup ==
    /\ runtime # None /\ group = None /\ queue # <<>>
    /\ LET n == IF Len(queue) < MaxBatch THEN Len(queue) ELSE MaxBatch
           taken == SubSeq(queue, 1, n) IN
       /\ queue' = SubSeq(queue, n + 1, Len(queue))
       /\ IF runtime.failed
          THEN streams' = Answered({}, {q.stream : q \in Range(taken)}) /\ UNCHANGED group
          ELSE /\ group' = [at |-> "consider", waiting |-> taken, ledger |-> runtime.ledger,
                            records |-> <<>>, granted |-> <<>>, refused |-> {}]
               /\ UNCHANGED streams
    /\ UNCHANGED <<now, cycle, disk, loading, runtime, bounds, history>>

\* The requests are tried in order, each by the clock of its own moment.
EditIsLost(g) == /\ group.ledger.cycle # runtime.ledger.cycle
                 /\ group.records = <<>> /\ g.records # <<>>
Considers == group # None /\ group.at = "consider"
Consider ==
    /\ Considers /\ group.waiting # <<>>
    /\ LET g == Considered(group, Head(group.waiting)) IN
       /\ group' = [g EXCEPT !.waiting = Tail(@)]
       /\ unrecorded' = (unrecorded \/ EditIsLost(g))
    /\ UNCHANGED <<now, cycle, disk, loading, runtime, queue, streams, bounds, charged, released,
                   origin>>

Moves(to) == group' = [group EXCEPT !.at = to]

\* Mutant: a group without an accepted record is dropped unanswered.
NothingAcceptedSilent(g) == streams
NothingAccepted(g) == Answered({}, g.refused)

\* Without an accepted record nothing is kept, the advanced ledger included.
Conclude ==
    /\ Considers /\ group.waiting = <<>>
    /\ IF group.records = <<>>
       THEN streams' = NothingAccepted(group) /\ group' = None
       ELSE Moves("append") /\ UNCHANGED streams
    /\ UNCHANGED <<now, cycle, disk, loading, runtime, queue, bounds, history>>

Compacts == runtime.records + Len(group.records) >= CompactAt

\* The bytes of a write that did not finish: some records, then an open tail.
Partly(k, torn) ==
    /\ journal' = [records |-> journal.records \o SubSeq(group.records, 1, k),
                   torn |-> torn /\ k < Len(group.records),
                   spoilt |-> journal.spoilt \/ journal.torn]
    /\ charged' = charged \o SubSeq(group.records, 1, k)

\* write_all and sync_data
AppendRecords ==
    /\ group # None /\ group.at = "append"
    /\ \/ /\ Holds /\ Partly(Len(group.records), FALSE)
          /\ Moves(IF Compacts THEN "publish" ELSE "settle")
       \/ /\ Fails /\ Moves("error")
          /\ \E k \in 0..Len(group.records), torn \in BOOLEAN : Partly(k, torn)
    /\ UNCHANGED <<now, cycle, snapshot, loading, runtime, queue, streams, steps, edits, crashes,
                   released, origin, unrecorded>>

\* publish_traffic_snapshot: a rename that was not confirmed is an error.
PublishSnapshot ==
    /\ group # None /\ group.at = "publish"
    /\ \/ Holds /\ snapshot' = group.ledger /\ Moves("truncate")
       \/ Fails /\ Moves("error") /\ (UNCHANGED snapshot \/ snapshot' = group.ledger)
    /\ UNCHANGED <<now, cycle, journal, loading, runtime, queue, streams, steps, edits, crashes,
                   history>>

EmptyJournal == [records |-> <<>>, torn |-> FALSE, spoilt |-> FALSE]
TruncateJournal ==
    /\ group # None /\ group.at = "truncate"
    /\ \/ Holds /\ journal' = EmptyJournal /\ Moves("settle")
       \/ Fails /\ Moves("error") /\ (UNCHANGED journal \/ journal' = EmptyJournal)
    /\ UNCHANGED <<now, cycle, snapshot, loading, runtime, queue, streams, steps, edits, crashes,
                   history>>

\* The granted records whose body still waits for them.
Release(g) == {g.records[i] : i \in {k \in DOMAIN g.records : streams[g.granted[k]].state = "charging"}}

\* Mutant: charges are accepted again after an error.
Unlatched(r) == r
\* After an error no charge is accepted until the process is restarted.
Latched(r) == [r EXCEPT !.failed = TRUE]

\* Memory follows the disk, then the waiters are answered.
Settle ==
    /\ group # None /\ group.at \in {"settle", "error"}
    /\ IF group.at = "settle"
       THEN /\ runtime' = [runtime EXCEPT
                    !.ledger = group.ledger,
                    !.records = IF Compacts THEN 0 ELSE @ + Len(group.records)]
            /\ streams' = Answered(Range(group.granted), group.refused)
            /\ released' = released \cup Release(group)
       ELSE /\ runtime' = Latched(runtime)
            /\ streams' = Answered({}, Range(group.granted) \cup group.refused)
            /\ UNCHANGED released
    /\ group' = None
    /\ UNCHANGED <<now, cycle, disk, loading, queue, bounds, charged, origin, unrecorded>>

-----------------------------------------------------------------------------
(* Start, crash and the environment.                                       *)

Loadable ==
    IF snapshot = None THEN journal = None
    ELSE journal # None => ~journal.spoilt /\ NoGap(snapshot, journal.records)

\* TrafficStore::load: the open tail is cut only after the replay succeeded;
\* a first start creates the journal before the snapshot.
LoadLedger ==
    /\ runtime = None /\ loading = None /\ Loadable
    /\ LET base == IF snapshot = None THEN NewLedger(cycle, now) ELSE snapshot
           records == IF journal = None THEN <<>> ELSE journal.records IN
       /\ loading' = [at |-> "publish", ledger |-> Replay(base, records)]
       /\ journal' = [EmptyJournal EXCEPT !.records = records]
    /\ UNCHANGED <<now, cycle, snapshot, runtime, queue, group, streams, bounds, history>>

LoadPublish ==
    /\ loading # None /\ loading.at = "publish"
    /\ snapshot' = loading.ledger /\ loading' = [loading EXCEPT !.at = "truncate"]
    /\ origin' = IF origin = None THEN loading.ledger ELSE origin
    /\ UNCHANGED <<now, cycle, journal, runtime, queue, group, streams, bounds, charged, released,
                   unrecorded>>

LoadTruncate ==
    /\ loading # None /\ loading.at = "truncate"
    /\ journal' = EmptyJournal
    /\ runtime' = [ledger |-> loading.ledger, records |-> 0, failed |-> FALSE]
    /\ loading' = None
    /\ UNCHANGED <<now, cycle, snapshot, queue, group, streams, bounds, history>>

\* The process ends at any moment: a write in progress leaves a prefix.
Crash ==
    /\ runtime # None \/ loading # None
    /\ crashes < MaxCrashes /\ crashes' = crashes + 1
    /\ \/ /\ group # None /\ group.at = "append"
          /\ \E k \in 0..Len(group.records), torn \in BOOLEAN : Partly(k, torn)
       \/ UNCHANGED <<journal, charged>>
    /\ runtime' = None /\ loading' = None /\ group' = None /\ queue' = <<>>
    /\ streams' = [s \in Streams |-> IF streams[s].state = "new" THEN streams[s]
                                     ELSE [streams[s] EXCEPT !.state = "gone"]]
    /\ UNCHANGED <<now, cycle, snapshot, steps, edits, faults, released, origin,
                   unrecorded>>

Clock ==
    /\ steps < MaxSteps /\ steps' = steps + 1
    /\ now' \in 0..MaxClock \ {now}
    /\ UNCHANGED <<cycle, disk, process, streams, edits, faults, crashes, history>>

\* update: an administrator edits the schedule; the writer reads it under the
\* configuration's lock for as long as it considers a group.
EditCycle ==
    /\ ~Considers
    /\ edits < MaxEdits /\ edits' = edits + 1
    /\ cycle' \in Cycles \ {cycle}
    /\ UNCHANGED <<now, disk, process, streams, steps, faults, crashes, history>>

Init ==
    /\ now \in 0..MaxClock /\ cycle = DefaultCycle
    /\ snapshot = None /\ journal = None /\ loading = None /\ runtime = None
    /\ queue = <<>> /\ group = None
    /\ streams = [s \in Streams |-> Body("new", "guest", 0, 0)]
    /\ steps = 0 /\ edits = 0 /\ faults = 0 /\ crashes = 0
    /\ charged = <<>> /\ released = {} /\ origin = None
    /\ unrecorded = FALSE

Writer == Consider \/ Conclude \/ AppendRecords \/ PublishSnapshot \/ TruncateJournal \/ Settle
Next ==
    \/ \E s \in Streams : Open(s) \/ Collect(s) \/ Leave(s)
    \/ TakeGroup \/ Consider \/ Conclude
    \/ AppendRecords \/ PublishSnapshot \/ TruncateJournal \/ Settle
    \/ LoadLedger \/ LoadPublish \/ LoadTruncate
    \/ Crash \/ Clock \/ EditCycle

\* The writer is a task of the runtime and its file operations end.
Spec == Init /\ [][Next]_vars /\ WF_vars(TakeGroup) /\ WF_vars(Writer)

-----------------------------------------------------------------------------
(* Properties.                                                             *)

\* What a ledger is after the first n records that were ever charged.
After(n) == Folded(Apply, origin, SubSeq(charged, 1, n))

\* The ledger is the sum of the first n records, at the time it has seen last.
Sums(l, n) == LET sum == After(n) IN l = Advance(sum, l.time, sum.cycle)

\* A restart always loads, and what it loads is the sum of every record that
\* was ever charged, each counted once: no crash, torn tail, repeated replay,
\* failed write or interrupted compaction loses a record or counts it twice.
\* So is the ledger in memory between two commit groups.  A request refused
\* after the last record of a group moves the ledger in memory and in the
\* snapshot past a reset, which no record says (commit.rs:74, 116, 161); both
\* are then what that passing of time makes of the sum, and nothing else.  The
\* sum leaves out an edit of the schedule that took effect in a refused request
\* which a charge of the same group followed: a replay then resets what memory keeps.
ReplayIsExact ==
    origin # None /\ ~unrecorded =>
        /\ Loadable
        /\ Sums(Replay(snapshot, journal.records), Len(charged))
        /\ runtime # None /\ ~runtime.failed /\ group = None => Sums(runtime.ledger, Len(charged))

\* Bytes reach the consumer of a body only after their record is durable, and
\* that record stays the one its number names.
ReleasedIsDurable == \A r \in released : r.seq <= Len(charged) /\ charged[r.seq] = r

\* No charge of a guest or an account ever takes a counter above its limit,
\* however charges are grouped, refused, retried or replayed.
QuotaIsHard == ~unrecorded =>
    \A n \in DOMAIN charged : charged[n].subject # "admin" =>
        \A k \in Touches(charged[n].subject) : Limits[k] = 0 \/ After(n).used[k] <= Limits[k]

\* Every body that waits for its charge gets an answer.
ChargesAreAnswered ==
    \A s \in Streams : (streams[s].state = "charging") ~> (streams[s].state # "charging")

=============================================================================
