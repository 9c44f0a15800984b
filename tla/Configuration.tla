--------------------------- MODULE Configuration ---------------------------
(***************************************************************************)
(* The configuration file, its backup, the file of initial credentials and *)
(* the index of retired S3 connections, with the storage settings handlers *)
(* and the worker that settles retired connections (config/commit.rs,      *)
(* config/persistence.rs, config/retired_storage.rs, state.rs,             *)
(* state/storage_update.rs, bootstrap.rs).                                 *)
(*                                                                         *)
(* A connection is an S3 namespace with its credentials.  It owes work     *)
(* from the moment users may write through it until a worker pass has      *)
(* settled what they left: its journals name objects nobody else will      *)
(* remove.  Of the rest of the configuration the two passwords of the      *)
(* first start are kept, and which instances WebDAV shares, folder locks   *)
(* and account permissions refer to: the settings other handlers change.   *)
(***************************************************************************)
EXTENDS Naturals, Sequences, FiniteSets, SequencesExt

CONSTANTS
    Ids,            \* ids of storage instances (an id is never given out twice)
    Conns,          \* S3 connections
    None,           \* no connection, no file, nobody
    MaxRetired,     \* MAX_CONNECTIONS
    MaxEdits,       \* bound: storage requests
    MaxSettings,    \* bound: other settings requests
    MaxPasses,      \* bound: worker passes
    MaxFaults,      \* bound: filesystem calls that fail
    MaxCrashes,     \* bound: power losses
    MaxDamage       \* bound: primary files that become unreadable

Passwords == {"admin", "web"}
Connections == [Ids -> Conns \cup {None}]
Configs == [conn : Connections, on : SUBSET Ids,
            staged : [conn : Conns \cup {None}, on : BOOLEAN],
            refs : SUBSET Ids, initial : SUBSET Passwords]
Files == [main : Configs \cup {None}, backup : Configs \cup {None}, creds : BOOLEAN]
Entries == [id : Ids, conn : Conns, runtime : BOOLEAN]
Jobs == [at : {"rotate", "rename", "sync", "refresh", "done", "failed"},
         by : {"storage", "setting"}, next : Configs, refresh : BOOLEAN]
Operations == [pc : {"prepare", "persist", "publishing", "install"},
               id : Ids \cup {None}, next : Configs, fetch : BOOLEAN, guard : BOOLEAN]
Settings == [pc : {"waiting", "saving", "saved"}, which : SUBSET Passwords,
             add : SUBSET Ids, drop : SUBSET Ids]
Visits == [entry : Entries, via : {"live", "runtime", "detached"},
           at : {"recover", "settle"}, quiet : BOOLEAN]

ASSUME ConfigurationAssumption ==
    /\ None \notin Ids \cup Conns \cup Configs \cup Jobs \cup Operations
                \cup Settings \cup Visits
    /\ MaxRetired \in Nat \ {0}
    /\ {MaxEdits, MaxSettings, MaxPasses, MaxFaults, MaxCrashes, MaxDamage} \subseteq Nat

VARIABLES
    dir,        \* configuration directory: its contents after each operation
                \* since the last sync; a crash keeps one of them
    index,      \* retired-storage.enc
    config,     \* config_file; None while the process is down
    entries,    \* RetiredStorage.entries
    ready,      \* StorageRegistry: the connection behind each id's backend
    op,         \* the storage request that holds storage_updates
    setting,    \* a request that changes other settings
    job,        \* the publication that holds config_updates
    pass,       \* the worker's current pass
    edits, settings, passes, faults, crashes, damage,
    warned,     \* the last publication was reported as unconfirmed
    lost,       \* history: a crash came while it was
    cut,        \* history: the backup on disk may be older than a publication
    used,       \* history: ids given out
    owing,      \* history: connections users wrote through, not settled since
    raced,      \* history: connections whose entry a pass ended although they had
                \* been in service again, or on disk alone
    accepted    \* history: initial passwords whose change was answered

disk == <<dir, index>>
memory == <<config, entries, ready>>
bounds == <<edits, settings, passes, faults, crashes, damage>>
history == <<used, owing, raced, accepted>>
reports == <<warned, lost, cut>>
vars == <<disk, memory, op, setting, job, pass, bounds, reports, history>>

Entry(i, c) == [id |-> i, conn |-> c, runtime |-> FALSE]
Plain(es) == {Entry(e.id, e.conn) : e \in es}

Now == Last(dir)
Does(files) == dir' = Append(dir, files)      \* a rename or an unlink
Synced(files) == dir' = <<files>>

Holds == UNCHANGED faults
Fails == faults < MaxFaults /\ faults' = faults + 1

-----------------------------------------------------------------------------
(* Configurations.                                                         *)

Live(cfg) == {cfg.conn[i] : i \in Ids} \ {None}

\* ConfigFile::validate: namespaces of instances do not overlap, neither does
\* the staged one, and every reference is to an instance.
Disjoint(cfg) ==
    /\ \A i, j \in Ids : cfg.conn[i] # None /\ cfg.conn[i] = cfg.conn[j] => i = j
    /\ cfg.staged.conn \notin Live(cfg)
Valid(cfg) == Disjoint(cfg) /\ \A i \in cfg.refs : cfg.conn[i] # None

NoStaged == [conn |-> None, on |-> FALSE]
NewConfig == [conn |-> [i \in Ids |-> None], on |-> {}, staged |-> NoStaged,
              refs |-> {}, initial |-> Passwords]

\* Mutant: the request's copy of the configuration is published.
MergedWhole(cfg, next) == next
\* persist_storage_selection copies the storage fields alone.
Merged(cfg, next) == [cfg EXCEPT !.conn = next.conn, !.on = next.on, !.staged = next.staged]

-----------------------------------------------------------------------------
(* publish_with_backup: one blocking job no request can interrupt.  The    *)
(* previous file becomes the backup, the new one is renamed into place and *)
(* the directory synced; a storage change then refreshes the backup.  Only *)
(* failures before the rename are errors.                                  *)

Job(by, next, refresh) == [at |-> "rotate", by |-> by, next |-> next, refresh |-> refresh]
Advance(to) == job' = [job EXCEPT !.at = to]

Rotate ==
    /\ job # None /\ job.at = "rotate"
    /\ \/ /\ Does([Now EXCEPT !.backup = Now.main])
          /\ Advance("rename") /\ Holds
       \/ Fails /\ Advance("failed") /\ UNCHANGED dir
    /\ UNCHANGED <<index, memory, op, setting, pass, edits, settings, passes, crashes, damage,
                   reports, history>>

Rename ==
    /\ job # None /\ job.at = "rename"
    /\ \/ /\ Does([Now EXCEPT !.main = job.next])
          /\ Advance("sync") /\ Holds
       \/ Fails /\ Advance("failed") /\ UNCHANGED dir
    /\ UNCHANGED <<index, memory, op, setting, pass, edits, settings, passes, crashes, damage,
                   reports, history>>

\* ConfigDurability: an unconfirmed publication is a warning, not an error.
Sync ==
    /\ job # None /\ job.at = "sync"
    /\ \/ Synced(Now) /\ Holds /\ warned' = FALSE /\ cut' = FALSE
       \/ Fails /\ warned' = TRUE /\ UNCHANGED <<dir, cut>>
    /\ Advance(IF job.refresh THEN "refresh" ELSE "done")
    /\ UNCHANGED <<index, memory, op, setting, pass, edits, settings, passes, crashes, damage,
                   lost, history>>

RefreshBackup ==
    /\ job # None /\ job.at = "refresh"
    /\ \/ Synced([Now EXCEPT !.backup = job.next]) /\ Holds /\ UNCHANGED cut
       \/ Fails /\ cut' = TRUE /\ UNCHANGED dir
    /\ Advance("done")
    /\ UNCHANGED <<index, memory, op, setting, pass, edits, settings, passes, crashes, damage,
                   warned, lost, history>>

\* Memory follows the file; the request that asked goes on.
Published ==
    /\ job # None /\ job.at = "done"
    /\ config' = job.next /\ job' = None
    /\ IF job.by = "storage" THEN op' = [op EXCEPT !.pc = "install"] /\ UNCHANGED setting
       ELSE setting' = [setting EXCEPT !.pc = "saved"] /\ UNCHANGED op
    /\ UNCHANGED <<disk, entries, ready, pass, bounds, reports, history>>

Refused ==
    /\ job # None /\ job.at = "failed"
    /\ job' = None
    /\ IF job.by = "storage" THEN op' = None /\ UNCHANGED setting
       ELSE setting' = None /\ UNCHANGED op
    /\ UNCHANGED <<disk, memory, pass, bounds, reports, history>>

-----------------------------------------------------------------------------
(* The requests that change settings other than storage: new passwords     *)
(* (update_admin_account, which then removes the initial file if neither of *)
(* its passwords is still active) and references to an instance (shares,   *)
(* folder locks, account permissions).                                     *)

Request(which, add, drop) == [pc |-> "waiting", which |-> which, add |-> add, drop |-> drop]
Asks(request) ==
    /\ setting = None /\ setting' = request
    /\ settings < MaxSettings /\ settings' = settings + 1
    /\ UNCHANGED <<disk, memory, op, job, pass, edits, passes, faults, crashes, damage,
                   reports, history>>

ChangePasswords ==
    config # None /\ \E which \in SUBSET config.initial \ {{}} : Asks(Request(which, {}, {}))
AddReference == config # None /\ \E i \in Ids \ config.refs : Asks(Request({}, {i}, {}))
DropReference == config # None /\ \E i \in config.refs : Asks(Request({}, {}, {i}))

\* update_config edits the configuration of the moment it has the lock and
\* validates the result.
Edited(cfg) == [cfg EXCEPT !.initial = @ \ setting.which,
                           !.refs = (@ \cup setting.add) \ setting.drop]
UpdateConfig ==
    /\ setting # None /\ setting.pc = "waiting"
    /\ \/ /\ job = None /\ Valid(Edited(config))
          /\ job' = Job("setting", Edited(config), FALSE)
          /\ setting' = [setting EXCEPT !.pc = "saving"]
       \/ /\ job # None \/ ~Valid(Edited(config))         \* or five seconds passed
          /\ setting' = None /\ UNCHANGED job
    /\ UNCHANGED <<disk, memory, op, pass, bounds, reports, history>>

\* Mutant: one changed password is enough.
RotatedAny(cfg) == cfg.initial # Passwords
\* remove_initial_credentials_if_rotated
Rotated(cfg) == cfg.initial = {}
Answer ==
    /\ setting # None /\ setting.pc = "saved"
    /\ LET removes == setting.which # {} /\ Rotated(config) IN
       \/ ~removes /\ Holds /\ UNCHANGED dir
       \/ removes /\ Holds /\ Synced([Now EXCEPT !.creds = FALSE])
       \/ removes /\ Fails /\ (UNCHANGED dir \/ Does([Now EXCEPT !.creds = FALSE]))
    /\ setting' = None /\ accepted' = accepted \cup setting.which
    /\ UNCHANGED <<index, memory, op, job, pass, edits, settings, passes, crashes, damage, reports,
                   used, owing, raced>>

-----------------------------------------------------------------------------
(* The index of retired connections.                                       *)

\* A failed save may have replaced the file all the same.
SaveIndex(es) == index' = Plain(es)

\* remember_removed: every S3 connection of the old configuration that its
\* instance no longer has.
Removed(old, new) ==
    {Entry(i, old.conn[i]) : i \in {k \in Ids : old.conn[k] # None /\ new.conn[k] # old.conn[k]}}
\* Mutant: an instance that only changed its connection owes nothing.
RememberedByName(old, new) ==
    entries \cup {e \in Removed(old, new) : new.conn[e.id] = None}
Remembered(old, new) ==
    entries \cup {e \in Removed(old, new) :
                    ~\E x \in entries : x.id = e.id /\ x.conn = e.conn}

\* bind_runtime: an entry keeps the backend that served its connection.
Bound(es, cfg) ==
    {IF cfg.conn[e.id] = e.conn /\ ready[e.id] = e.conn THEN [e EXCEPT !.runtime = TRUE] ELSE e :
        e \in es}

\* activation_allowed
ActivationAllowed(c, es, cfg) == c \in Live(cfg) \/ ~\E e \in es : e.conn = c

-----------------------------------------------------------------------------
(* Storage requests: one at a time (storage_updates is try_lock).          *)

Free == config # None /\ op = None /\ edits < MaxEdits
Starts(o) == op' = o /\ edits' = edits + 1
Op(pc, id, next, fetch, guard) ==
    [pc |-> pc, id |-> id, next |-> next, fetch |-> fetch, guard |-> guard]

\* The gate and the flag `editing` of the backend behind an id: a change of
\* its connection and a worker's recovery through it exclude one another.
Recovering(i) == /\ pass # None /\ pass.at = "recover" /\ pass.via = "live"
                 /\ config.conn[i] = pass.entry.conn
Editing(i) == op # None /\ op.guard /\ op.id = i
RequestFrame == UNCHANGED <<disk, memory, setting, job, pass, settings, passes, faults, crashes, damage,
                            reports, history>>

\* stage_s3_storage: the connection is probed, not yet used.
Stage ==
    /\ Free
    /\ \E c \in Conns, on \in BOOLEAN :
        LET next == [config EXCEPT !.staged = [conn |-> c, on |-> on]] IN
        /\ ActivationAllowed(c, entries, config)
        /\ Starts(Op("persist", None, next, FALSE, FALSE))
    /\ RequestFrame

\* discard_pending_storage
Discard ==
    /\ Free /\ config.staged # NoStaged
    /\ Starts(Op("persist", None, [config EXCEPT !.staged = NoStaged], FALSE, FALSE))
    /\ RequestFrame

\* activate_pending_storage: an enabled one is prepared first.
Activate ==
    /\ Free /\ config.staged # NoStaged
    /\ \E i \in Ids \ used :
        LET s == config.staged
            next == [config EXCEPT !.conn[i] = s.conn, !.staged = NoStaged,
                                   !.on = IF s.on THEN @ \cup {i} ELSE @] IN
        /\ Valid(next)
        /\ Starts(Op(IF s.on THEN "prepare" ELSE "persist", i, next, s.on, FALSE))
        /\ used' = used \cup {i}
    /\ UNCHANGED <<disk, memory, setting, job, pass, settings, passes, faults, crashes, damage, reports,
                   owing, raced, accepted>>

\* update_s3_storage and update_storage_access: a backend whose connection
\* stays is kept; another is prepared only for an enabled instance.  A change
\* of connection, or enabling again, has to wait for the worker's recovery.
Reuses(i, next) == ready[i] # None /\ next.conn[i] = config.conn[i]
MustWait(i, next) == ready[i] # None /\ (~Reuses(i, next) \/ (i \in next.on /\ i \notin config.on))
Edit ==
    /\ Free
    /\ \E i \in Ids, c \in Conns, on \in BOOLEAN :
        LET next == [config EXCEPT !.conn[i] = c,
                                   !.on = IF on THEN @ \cup {i} ELSE @ \ {i}]
            fetch == on /\ ~Reuses(i, next) IN
        /\ config.conn[i] # None
        /\ Valid(next)
        /\ MustWait(i, next) => ~Recovering(i)
        /\ Starts(Op(IF fetch THEN "prepare" ELSE "persist", i, next, fetch,
                     ready[i] # None /\ ~(Reuses(i, next) /\ on /\ i \in config.on)))
    /\ RequestFrame

\* delete_storage: no share, lock or permission refers to the instance.  It
\* interrupts what it can and waits for nobody.
Delete ==
    /\ Free
    /\ \E i \in Ids :
        LET next == [config EXCEPT !.conn[i] = None, !.on = @ \ {i}] IN
        /\ config.conn[i] # None /\ i \notin config.refs
        /\ Starts(Op("persist", i, next, FALSE, ready[i] # None))
    /\ RequestFrame

\* prepare_storage_backend asks the files, not memory, whether the namespace
\* is free, then probes and recovers it; any of that may fail.
Prepare ==
    /\ op # None /\ op.pc = "prepare"
    /\ \/ /\ ActivationAllowed(op.next.conn[op.id], index, Now.main)
          /\ op' = [op EXCEPT !.pc = "persist"]
       \/ op' = None
    /\ UNCHANGED <<disk, memory, setting, job, pass, bounds, reports, history>>

\* persist_storage_selection up to the publication: the old connections are
\* on disk before a configuration without them is.
Persist ==
    /\ op # None /\ op.pc = "persist"
    /\ LET next == Merged(config, op.next)
           es == Remembered(config, next) IN
       \/ /\ job = None /\ Valid(next) /\ Cardinality(es) <= MaxRetired /\ Holds
          /\ (IF es = entries THEN UNCHANGED index ELSE SaveIndex(es))
          /\ entries' = Bound(es, config)
          /\ job' = Job("storage", next, TRUE) /\ op' = [op EXCEPT !.pc = "publishing"]
       \/ /\ job = None /\ Valid(next) /\ es # entries /\ Fails
          /\ (UNCHANGED index \/ SaveIndex(es))
          /\ op' = None /\ UNCHANGED <<entries, job>>
       \/ /\ job # None \/ ~Valid(next) \/ Cardinality(es) > MaxRetired
          /\ Holds /\ op' = None /\ UNCHANGED <<index, entries, job>>
    /\ UNCHANGED <<dir, config, ready, setting, pass, edits, settings, passes, crashes, damage,
                   reports, history>>

\* publish_backend, retire and remove: users reach the new connection.
Installed ==
    IF op.id = None THEN ready
    ELSE [ready EXCEPT ![op.id] =
            IF op.fetch THEN config.conn[op.id]
            ELSE IF @ = config.conn[op.id] THEN @ ELSE None]
Serving(r) == {r[i] : i \in Ids} \ {None}
Install ==
    /\ op # None /\ op.pc = "install"
    /\ ready' = Installed
    /\ owing' = owing \cup ({Installed[i] : i \in config.on} \ {None})
    /\ op' = None
    /\ pass' = IF pass # None /\ pass.entry.conn \in Serving(Installed)
               THEN [pass EXCEPT !.quiet = FALSE] ELSE pass
    /\ UNCHANGED <<disk, config, entries, setting, job, bounds, reports, used, raced, accepted>>

-----------------------------------------------------------------------------
(* The worker of retired connections: one pass at a time over one entry of *)
(* a snapshot.                                                             *)

\* A connection that is configured is recovered under its backend's gate.
Owner(c) == CHOOSE i \in Ids : config.conn[i] = c
Via(e) == IF e.conn \in Live(config) THEN "live" ELSE IF e.runtime THEN "runtime" ELSE "detached"
PassBegin ==
    /\ config # None /\ pass = None /\ passes < MaxPasses /\ passes' = passes + 1
    /\ \E e \in entries :
        /\ Via(e) = "live" => ready[Owner(e.conn)] # None /\ ~Editing(Owner(e.conn))
        /\ Via(e) = "runtime" => ~(Editing(e.id) /\ ready[e.id] = e.conn)
        /\ pass' = [entry |-> e, via |-> Via(e), at |-> "recover", quiet |-> FALSE]
    /\ UNCHANGED <<disk, memory, op, setting, job, edits, settings, faults, crashes, damage,
                   reports, history>>

\* Every journal is settled; the gate is released before the upload tickets
\* of the connection are looked at.  `quiet' remembers that nobody has been
\* served by the connection since.
PassRecovers ==
    /\ pass # None /\ pass.at = "recover"
    /\ pass' = [pass EXCEPT !.at = "settle", !.quiet = pass.entry.conn \notin Serving(ready)]
    /\ UNCHANGED <<disk, memory, op, setting, job, bounds, reports, history>>

\* RetiredStorage::finish compares id and connection.
Finished == {x \in entries : x.id # pass.entry.id \/ x.conn # pass.entry.conn}

\* Every upload ticket has its result.
PassFinish ==
    /\ pass # None /\ pass.at = "settle"
    /\ LET c == pass.entry.conn
           upcoming == IF job = None THEN config ELSE job.next IN
       /\ \/ Holds /\ SaveIndex(Finished) /\ entries' = Finished
             /\ raced' = IF pass.quiet \/ c \in Live(config) \cap Live(upcoming)
                         THEN raced ELSE raced \cup {c}
          \/ Fails /\ UNCHANGED <<index, entries, raced>>
          \/ Fails /\ SaveIndex(Finished) /\ UNCHANGED entries /\ raced' = raced \cup {c}
       /\ owing' = IF pass.quiet THEN owing \ {c} ELSE owing
    /\ pass' = None
    /\ UNCHANGED <<dir, config, ready, op, setting, job, edits, settings, passes, crashes, damage, reports,
                   used, accepted>>

\* A conflict, an unreachable store, the deadline or an unsettled ticket.
PassGivesUp ==
    /\ pass # None /\ pass' = None
    /\ UNCHANGED <<disk, memory, op, setting, job, bounds, reports, history>>

-----------------------------------------------------------------------------
(* Restart.                                                                *)

\* Power loss: a prefix of the operations since the last sync survives.  The
\* primary may turn out unreadable; that this and a publication without its
\* backup happen together is left out.
Crash ==
    /\ crashes < MaxCrashes /\ crashes' = crashes + 1
    /\ \E k \in DOMAIN dir :
        \/ dir' = <<dir[k]>> /\ UNCHANGED damage
        \/ /\ damage < MaxDamage /\ damage' = damage + 1
           /\ job = None /\ ~cut /\ dir[k].backup # None
           /\ dir' = <<[dir[k] EXCEPT !.main = None]>>
    /\ warned' = FALSE /\ lost' = (lost \/ warned) /\ cut' = (cut \/ job # None)
    /\ config' = None /\ entries' = {} /\ ready' = [i \in Ids |-> None]
    /\ op' = None /\ setting' = None /\ job' = None /\ pass' = None
    /\ UNCHANGED <<index, edits, settings, passes, faults, history>>

\* load_config_inner: the primary, else the backup, which becomes the primary;
\* a first start writes the initial credentials and then a configuration.
Loaded == IF Now.main # None THEN Now.main
          ELSE IF Now.backup # None THEN Now.backup ELSE NewConfig
\* AppState::new: each enabled instance is prepared; one that fails stays
\* unavailable.  Requests and the worker wait for all of it.
Starting(up) == [i \in Ids |-> IF i \in up /\ ActivationAllowed(Loaded.conn[i], index, Loaded)
                               THEN Loaded.conn[i] ELSE None]
FirstStart ==
    /\ config = None /\ Now.main = None /\ Now.backup = None /\ ~Now.creds
    /\ Synced([Now EXCEPT !.creds = TRUE])
    /\ UNCHANGED <<index, memory, op, setting, job, pass, bounds, reports, history>>
Start ==
    /\ config = None
    /\ Now.main # None \/ Now.backup # None \/ Now.creds
    /\ config' = Loaded /\ entries' = index
    /\ IF Now.main # None THEN UNCHANGED dir ELSE Synced([Now EXCEPT !.main = Loaded])
    /\ \E up \in SUBSET Loaded.on :
        /\ ready' = Starting(up)
        /\ owing' = owing \cup Serving(Starting(up))
    /\ UNCHANGED <<index, op, setting, job, pass, bounds, reports, used, raced, accepted>>

\* A directory before the first start, or of a server with one connection.
Fresh == [main |-> None, backup |-> None, creds |-> FALSE]
OneStorage(i, c, refs) ==
    LET cfg == [NewConfig EXCEPT !.conn[i] = c, !.on = {i}, !.refs = refs] IN
    [main |-> cfg, backup |-> cfg, creds |-> TRUE]
Init ==
    /\ \/ dir = <<Fresh>> /\ used = {} /\ owing = {}
       \/ \E i \in Ids, c \in Conns : \E refs \in SUBSET {i} :
            dir = <<OneStorage(i, c, refs)>> /\ used = {i} /\ owing = {c}
    /\ index = {} /\ config = None /\ entries = {} /\ ready = [i \in Ids |-> None]
    /\ op = None /\ setting = None /\ job = None /\ pass = None
    /\ edits = 0 /\ settings = 0 /\ passes = 0 /\ faults = 0 /\ crashes = 0 /\ damage = 0
    /\ warned = FALSE /\ lost = FALSE /\ cut = FALSE /\ raced = {} /\ accepted = {}

FilesTyped ==
    /\ dir \in Seq(Files) /\ dir # <<>>
    /\ index \subseteq Entries /\ entries \subseteq Entries

MemoryTyped ==
    /\ config \in Configs \cup {None} /\ ready \in Connections
    /\ job \in Jobs \cup {None} /\ op \in Operations \cup {None}
    /\ setting \in Settings \cup {None} /\ pass \in Visits \cup {None}

BoundsTyped ==
    /\ edits \in 0..MaxEdits /\ settings \in 0..MaxSettings /\ passes \in 0..MaxPasses
    /\ faults \in 0..MaxFaults /\ crashes \in 0..MaxCrashes /\ damage \in 0..MaxDamage

HistoryTyped ==
    /\ {warned, lost, cut} \subseteq BOOLEAN
    /\ used \subseteq Ids /\ owing \subseteq Conns /\ raced \subseteq Conns
    /\ accepted \subseteq Passwords

TypeOK == FilesTyped /\ MemoryTyped /\ BoundsTyped /\ HistoryTyped

Next ==
    \/ Rotate \/ Rename \/ Sync \/ RefreshBackup \/ Published \/ Refused
    \/ ChangePasswords \/ AddReference \/ DropReference \/ UpdateConfig \/ Answer
    \/ Stage \/ Discard \/ Activate \/ Edit \/ Delete \/ Prepare \/ Persist \/ Install
    \/ PassBegin \/ PassRecovers \/ PassFinish \/ PassGivesUp
    \/ Crash \/ FirstStart \/ Start

Spec == Init /\ [][Next]_vars

-----------------------------------------------------------------------------
(* Properties.                                                             *)

\* Where a restart at this moment would find the connections: the primary of
\* every directory a crash may leave, or the index.
Recorded(files) == Live(files.main) \cup {e.conn : e \in index}
KeptEverywhere(cs) ==
    \A k \in DOMAIN dir : dir[k].main # None => cs \subseteq Recorded(dir[k])

\* Whatever crashes, saves that fail, edits and worker passes do, a connection
\* that still owes work is in the configuration or in the retired index a
\* restart reads, unless a publication was reported as unconfirmed
\* (docs/backend-design.md:172; retired_storage.rs:76-77).  The one exception is
\* the surplus entry of a configured connection that a pass ends while the
\* connection is being deleted (`raced').
OwedIsKept == warned \/ lost \/ KeptEverywhere(owing \ raced)

\* While a password of the first start is active in a primary that a restart
\* may load, the file that holds it in plain text is still there
\* (persistence.rs:257-260).
InitialPasswordsStayReadable ==
    damage > 0 \/ \A k \in DOMAIN dir :
        dir[k].main # None /\ dir[k].main.initial # {} => dir[k].creds

\* A password change that was answered is never undone: not by a storage
\* request that read the configuration before it, and not by a crash after
\* a confirmed publication (state.rs:776-777).
AcceptedChangesStay ==
    damage = 0 /\ ~warned /\ ~lost =>
        /\ config # None => accepted \cap config.initial = {}
        /\ \A k \in DOMAIN dir :
            dir[k].main # None => accepted \cap dir[k].main.initial = {}

=============================================================================
