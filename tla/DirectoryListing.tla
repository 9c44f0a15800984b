-------------------------- MODULE DirectoryListing --------------------------
(***************************************************************************)
(* Listing one directory page by page: the store of sorted directory       *)
(* snapshots shared by all requests (directory_snapshot.rs), the scan that *)
(* fills one, the page cut out of it (directory_listing.rs), and the       *)
(* requests that claim, build or wait (StorageBackend::list_directory_page *)
(* and api.rs list_files).                                                 *)
(*                                                                         *)
(* An entry's name is its rank in the order of normalised names.  Search   *)
(* text and filter only select names, so a request carries the set of      *)
(* names it accepts.  An entry is one estimated byte.  FileRequests adds   *)
(* the operations that change the directory.                               *)
(***************************************************************************)
EXTENDS Naturals, Sequences, FiniteSets, SequencesExt

CONSTANTS
    Names,          \* entries the directory can have
    Dirs,           \* those that are directories
    Keys,           \* DirectorySnapshotKeys: accepted names, sort, direction
    Listers,        \* traversals of the directory, one page request at a time
    Limit,          \* DirectoryListRequest::limit
    MaxEntries,     \* MAX_SNAPSHOT_ENTRIES
    MaxSnapshots,   \* MAX_SNAPSHOTS
    MaxBytes,       \* MAX_SNAPSHOT_BYTES, in entries
    MaxBuilds,      \* MAX_CONCURRENT_BUILDS
    None

ASSUME ListingAssumption ==
    /\ Names \subseteq Nat \ {0} /\ IsFiniteSet(Names) /\ Dirs \subseteq Names
    /\ Keys \subseteq [accepts : SUBSET Names, sort : {"name", "size", "time"},
                       direction : {"asc", "desc"}]
    /\ {Limit, MaxEntries, MaxSnapshots, MaxBytes, MaxBuilds} \subseteq Nat \ {0}
    /\ None \notin Nat /\ None \notin Listers

VARIABLES
    kind,       \* StorageBackendKind
    files,      \* what the storage holds
    access,     \* the caller's permissions, and whether a folder lock is closed to it
    store,      \* SnapshotState
    sorting,    \* sorts running on the blocking pool, with the permit they own
    lister,     \* the traversals
    budget,     \* bound: how often each outside event may still happen
    answered    \* history: by name, the latest change whose request was answered

listing == <<store, sorting, lister>>

Spend(event) == budget[event] > 0 /\ budget' = [budget EXCEPT ![event] = @ - 1]

-----------------------------------------------------------------------------
(* Entries and their order. *)

Here == {n \in Names : files[n].here}

(* local_backend_entry, S3Entry: what a scan sees of a name.  The version  *)
(* is not part of the entry; it tells the properties what was read.        *)
Entry(n) == [n |-> n, size |-> files[n].size, at |-> files[n].at, v |-> files[n].v]

Primary(k, e) == CASE k.sort = "name" -> e.n
                   [] k.sort = "size" -> e.size
                   [] k.sort = "time" -> e.at

(* compare_entries = Ordering::Less: directories first, whatever the       *)
(* direction; the primary order, then names, which are never reversed.     *)
Before(k, a, b) ==
    LET A == Primary(k, a)  B == Primary(k, b) IN
    IF (a.n \in Dirs) # (b.n \in Dirs) THEN a.n \in Dirs
    ELSE IF A = B THEN a.n < b.n
    ELSE IF k.direction = "asc" THEN A < B ELSE A > B

(* prepare_snapshot: the unstable sort of a total order. *)
Sorted(k, entries) == SetToSortSeq(entries, LAMBDA a, b : Before(k, a, b))

(* The entries a cursor has not passed. *)
Beyond(k, after, e) == after = None \/ Before(k, after, e)

(* page_from_snapshot. *)
PageOf(k, after, entries) ==
    LET rest == SelectSeq(entries, LAMBDA e : Beyond(k, after, e))
        page == SubSeq(rest, 1, IF Len(rest) < Limit THEN Len(rest) ELSE Limit)
    IN [entries |-> page,
        next |-> IF Len(rest) > Len(page) THEN Last(page) ELSE None]

(* Mutant: the collector keeps only the page and never learns of more.     *)
CollectedToTheLimit(k, after, entries) ==
    LET all == Sorted(k, {e \in entries : Beyond(k, after, e)})
    IN {all[i] : i \in 1..(IF Len(all) > Limit THEN Limit ELSE Len(all))}

(* DirectoryPageCollector::consider: of the entries beyond the cursor, one *)
(* more than a page is kept, so that finish knows whether more follow.     *)
Collected(k, after, entries) ==
    LET all == Sorted(k, {e \in entries : Beyond(k, after, e)})
    IN {all[i] : i \in 1..(IF Len(all) > Limit + 1 THEN Limit + 1 ELSE Len(all))}

(* DirectorySnapshotCandidate::consider: everything is retained for a      *)
(* snapshot until the limits are met; from then on only the page is.       *)
Consider(c, k, after, e) ==
    IF e.n \notin k.accepts THEN c
    ELSE IF c.whole /\ Cardinality(c.kept) < MaxEntries /\ Cardinality(c.kept) < MaxBytes
         THEN [c EXCEPT !.kept = @ \cup {e}]
    ELSE [whole |-> FALSE, kept |-> Collected(k, after, c.kept \cup {e})]

-----------------------------------------------------------------------------
(* The snapshot store. *)

EmptyStore == [generation |-> 0, nextId |-> 0, snapshots |-> <<>>, builds |-> {}]

Snapshot(s, k) == CHOOSE x \in Range(s.snapshots) : x.key = k
HasSnapshot(s, k) == \E x \in Range(s.snapshots) : x.key = k
Building(s, k) == \E b \in s.builds : b.key = k
BuildOf(s, k) == CHOOSE b \in s.builds : b.key = k

(* prune_expired: time has passed for the snapshots of some keys. *)
Pruned(s, keys) == [s EXCEPT !.snapshots = SelectSeq(@, LAMBDA x : x.key \notin keys)]

(* last_used: the snapshots are in the order of their last use. *)
Used(s, k) == [s EXCEPT !.snapshots =
                  Append(SelectSeq(@, LAMBDA x : x.key # k), Snapshot(s, k))]

Claimed(s, k) == [s EXCEPT !.builds = @ \cup {[key |-> k, id |-> s.nextId]},
                           !.nextId = @ + 1]

Invalidated(s) == [s EXCEPT !.generation = @ + 1, !.snapshots = <<>>]

(* Mutant: a build that is given up stays in the map. *)
DroppedNever(s, id) == s

(* The build leaves the map and its waiters wake: Drop for SnapshotBuild.  *)
Dropped(s, id) == [s EXCEPT !.builds = {b \in @ : b.id # id}]

Retained(snapshots) == FoldSeq(LAMBDA x, sum : sum + Len(x.entries), 0, snapshots)

(* The least recently used snapshots go until the new one fits: the        *)
(* longest suffix that leaves room.                                        *)
Evicted(snapshots, size) ==
    LET Fits(i) == LET rest == SubSeq(snapshots, i, Len(snapshots)) IN
                   Len(rest) < MaxSnapshots /\ Retained(rest) + size <= MaxBytes
        first == CHOOSE i \in 1..(Len(snapshots) + 1) :
                    (i = Len(snapshots) + 1 \/ Fits(i)) /\ \A j \in 1..(i - 1) : ~Fits(j)
    IN SubSeq(snapshots, first, Len(snapshots))

(* Mutant: the generation is not compared. *)
MayRetainAlways(s, b) == \E x \in s.builds : x.key = b.key /\ x.id = b.id

(* Only a build of the current generation may be retained. *)
MayRetain(s, b) == /\ \E x \in s.builds : x.key = b.key /\ x.id = b.id
                   /\ s.generation = b.generation

(* SnapshotBuild::publish. *)
Published(s, b) ==
    IF MayRetain(s, b) /\ Len(b.entries) <= MaxEntries /\ Len(b.entries) <= MaxBytes
    THEN [Dropped(s, b.id) EXCEPT !.snapshots =
             Append(Evicted(@, Len(b.entries)), [key |-> b.key, entries |-> b.entries])]
    ELSE Dropped(s, b.id)

-----------------------------------------------------------------------------
(* The page requests. *)

NewCandidate == [whole |-> TRUE, kept |-> {}]

IdleLister == [phase |-> "idle", asks |-> {}, key |-> None, after |-> None, build |-> None,
               generation |-> None, candidate |-> NewCandidate, todo |-> {},
               got |-> <<>>, mark |-> None, start |-> None]

InRequest == {"claim", "wait", "permit", "scan", "sort"}

(* What was known to have happened to each name when a request arrived. *)
Settled(n) == IF answered[n] = files[n].v THEN files[n].v ELSE None

Request(l, r) ==
    /\ "browse" \in access.may /\ ~access.locked
    /\ lister' = [lister EXCEPT ![l] = r]
    /\ UNCHANGED <<store, sorting, budget>>

(* list_files for the first page of a key. *)
ListFirst(l) ==
    /\ lister[l].phase = "idle"
    /\ \E k \in lister[l].asks :
          Request(l, [IdleLister EXCEPT !.phase = "claim", !.key = k, !.mark = answered,
                                        !.start = [n \in Names |-> Settled(n)]])

(* list_files with the cursor of the page before. *)
ListNext(l) ==
    /\ lister[l].phase = "next"
    /\ Request(l, [lister[l] EXCEPT !.phase = "claim", !.mark = answered])

(* The page is answered; it is the last one when it has no next position. *)
Delivered(r, page) ==
    [r EXCEPT !.phase = IF page.next = None THEN "done" ELSE "next",
              !.after = page.next, !.build = None, !.generation = None,
              !.candidate = NewCandidate, !.todo = {}, !.mark = None,
              !.got = @ \o [i \in 1..Len(page.entries) |->
                               [n |-> page.entries[i].n, v |-> page.entries[i].v,
                                known |-> r.mark[page.entries[i].n]]]]

Deliver(l, page) == lister' = [lister EXCEPT ![l] = Delivered(@, page)]

(* SnapshotClaim: a retained snapshot, somebody's build, or a build of     *)
(* this request, which then waits for a permit.                            *)
Claim(l) ==
    LET r == lister[l] IN
    /\ r.phase = "claim"
    /\ \E expired \in SUBSET {x.key : x \in Range(store.snapshots)} :
          LET s == Pruned(store, expired) IN
          IF HasSnapshot(s, r.key)
          THEN /\ store' = Used(s, r.key)
               /\ Deliver(l, PageOf(r.key, r.after, Snapshot(s, r.key).entries))
          ELSE IF Building(s, r.key)
          THEN /\ store' = s
               /\ lister' = [lister EXCEPT ![l].phase = "wait",
                                           ![l].build = BuildOf(s, r.key).id]
          ELSE /\ store' = Claimed(s, r.key)
               /\ lister' = [lister EXCEPT ![l].phase = "permit", ![l].build = s.nextId,
                                           ![l].generation = s.generation]
    /\ UNCHANGED <<sorting, budget>>

(* completed.changed(): the build waited for has ended; claim again. *)
Wake(l) ==
    /\ lister[l].phase = "wait"
    /\ \A b \in store.builds : b.id # lister[l].build
    /\ lister' = [lister EXCEPT ![l].phase = "claim", ![l].build = None]
    /\ UNCHANGED <<store, sorting, budget>>

PermitsTaken == Cardinality(sorting) + Cardinality({l \in Listers : lister[l].phase = "scan"})

(* acquire_build_permit. *)
TakePermit(l) ==
    /\ lister[l].phase = "permit"
    /\ PermitsTaken < MaxBuilds
    /\ lister' = [lister EXCEPT ![l].phase = "scan", ![l].todo = Names]
    /\ UNCHANGED <<store, sorting, budget>>

(* scan_directory meets names in any order, S3 pages are in key order.     *)
NextNames(todo) == IF kind = "s3" THEN {n \in todo : \A m \in todo : n <= m} ELSE todo

(* The scan meets one name.  A name that is not there is not met.          *)
Scan(l) ==
    LET r == lister[l] IN
    /\ r.phase = "scan"
    /\ \E n \in NextNames(r.todo) :
          lister' = [lister EXCEPT
              ![l].todo = @ \ {n},
              ![l].candidate = IF n \in Here
                               THEN Consider(@, r.key, r.after, Entry(n)) ELSE @]
    /\ UNCHANGED <<store, sorting, budget>>

(* A directory within the limits is sorted by a blocking task that owns    *)
(* the permit and the build; a larger one has its page and drops both.     *)
ScanEnd(l) ==
    LET r == lister[l] IN
    /\ r.phase = "scan" /\ r.todo = {}
    /\ IF r.candidate.whole
       THEN /\ sorting' = sorting \cup {[id |-> r.build, key |-> r.key,
                                         generation |-> r.generation,
                                         entries |-> Sorted(r.key, r.candidate.kept)]}
            /\ lister' = [lister EXCEPT ![l].phase = "sort"]
            /\ UNCHANGED store
       ELSE /\ store' = Dropped(store, r.build)
            /\ Deliver(l, PageOf(r.key, r.after, Sorted(r.key, r.candidate.kept)))
            /\ UNCHANGED sorting
    /\ UNCHANGED budget

(* The scan fails: the build is dropped and the request answered with the  *)
(* error.                                                                  *)
ScanFails(l) ==
    /\ lister[l].phase = "scan"
    /\ Spend("errors")
    /\ store' = Dropped(store, lister[l].build)
    /\ lister' = [lister EXCEPT ![l] = [IdleLister EXCEPT !.phase = "left"]]
    /\ UNCHANGED sorting

(* The sort ends: the snapshot is published, the permit returned, and the  *)
(* request answered if it is still there.                                  *)
SortEnd(b) ==
    /\ b \in sorting
    /\ sorting' = sorting \ {b}
    /\ store' = Published(store, b)
    /\ lister' = [l \in Listers |->
          IF lister[l].phase = "sort" /\ lister[l].build = b.id
          THEN Delivered(lister[l], PageOf(b.key, lister[l].after, b.entries))
          ELSE lister[l]]
    /\ UNCHANGED budget

(* The client goes away.  Its future is dropped, and with it a build that  *)
(* no blocking task owns yet.                                              *)
Abandon(l) ==
    /\ lister[l].phase \in InRequest
    /\ Spend("aborts")
    /\ store' = IF lister[l].phase \in {"permit", "scan"}
                THEN Dropped(store, lister[l].build) ELSE store
    /\ lister' = [lister EXCEPT ![l] = [IdleLister EXCEPT !.phase = "left"]]
    /\ UNCHANGED sorting

ListingInit ==
    /\ store = EmptyStore
    /\ sorting = {}

ListerStep(l) == Claim(l) \/ Wake(l) \/ TakePermit(l) \/ Scan(l) \/ ScanEnd(l)

ListingNext ==
    \/ \E l \in Listers :
          \/ ListFirst(l) \/ ListNext(l) \/ ListerStep(l)
          \/ ScanFails(l) \/ Abandon(l)
    \/ \E b \in sorting : SortEnd(b)

-----------------------------------------------------------------------------
(* A page never shows an entry as it was before a change that had been     *)
(* answered when the page was requested, nor one whose deletion had been:  *)
(* the generation keeps a scan that began before the change out of the     *)
(* store (SnapshotBuild::publish), and waiters claim again.                *)
ListingsAreFresh ==
    \A l \in Listers : \A g \in Range(lister[l].got) : g.v >= g.known

(* A traversal from the first page to the last delivers every entry that   *)
(* was there, and known to be, when it began and has not changed since,    *)
(* exactly once, and never one that was not: whatever else is inserted,    *)
(* removed or moved between its pages, whichever snapshot, scan or         *)
(* bounded page each of them comes from.                                   *)
PagesCoverTheDirectory ==
    \A l \in Listers : lister[l].phase = "done" =>
        \A n \in lister[l].key.accepts :
            lister[l].start[n] = files[n].v =>
                Cardinality({i \in 1..Len(lister[l].got) : lister[l].got[i].n = n})
                    = IF files[n].here THEN 1 ELSE 0

(* A page request is answered, or fails, whoever else builds, waits, fails *)
(* or goes away: nobody waits for a build that has no owner, and permits   *)
(* come back.                                                              *)
ListersAreServed ==
    \A l \in Listers : lister[l].phase \in InRequest ~> lister[l].phase \notin InRequest
=============================================================================
