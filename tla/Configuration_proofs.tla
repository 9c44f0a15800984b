------------------------ MODULE Configuration_proofs ------------------------
(***************************************************************************)
(* A connection that owes work stays recorded, initial passwords stay      *)
(* readable and accepted changes stay, for any number of instances,        *)
(* connections and requests, and of failed calls and restarts.             *)
(***************************************************************************)
EXTENDS Configuration, SequenceTheorems, TLAPS

(***************************************************************************)
(* The inductive invariant.                                                *)
(***************************************************************************)

\* The directories a crash may leave.
Reach == {dir[k] : k \in DOMAIN dir}
Conned(es) == {e.conn : e \in es}
Owed == owing \ raced

\* Requests are made of a running server, and one waits for the job it started.
Requests ==
    /\ config = None => /\ op = None /\ setting = None /\ job = None /\ pass = None
                        /\ entries = {} /\ ~ warned
    /\ job # None => IF job.by = "storage" THEN op # None /\ op.pc = "publishing"
                     ELSE setting # None /\ setting.pc = "saving"
    /\ op # None /\ op.pc = "publishing" => job # None /\ job.by = "storage"
    /\ setting # None /\ setting.pc = "saving" => job # None /\ job.by = "setting"
    /\ job # None => (job.refresh <=> job.by = "storage")
    /\ job # None /\ job.at = "refresh" => job.refresh

\* A running server has its configuration in every directory; a restart finds one.
Mains ==
    /\ config = None => Reach = {Now}
    /\ config # None => \A f \in Reach : f.main # None
    /\ \A f \in Reach : f.main = None => damage > 0 \/ f.backup = None
    /\ \A f \in Reach : f.main = None /\ f.backup = None => owing = {} /\ accepted = {}

\* The primary is the configuration in memory or, from the rename to the end of the
\* job, the next one; an unconfirmed publication aside, so is that of every directory
\* a crash may leave.
Shown == IF job # None /\ job.at \in {"sync", "refresh", "done"} THEN job.next ELSE config
Directory ==
    config # None =>
        /\ Now.main = Shown
        /\ ~ warned => \A f \in Reach : f.main \in {config, Shown}
        /\ ~ warned /\ job # None /\ job.at \in {"refresh", "done"} =>
              \A f \in Reach : f.main = job.next

\* The backup belongs to the same connections, unless a refresh failed or was
\* interrupted.
BackedBy(m) == \A f \in Reach : f.backup # None => f.backup.conn = m.conn
Backups ==
    /\ job # None /\ job.at \in {"rename", "sync"} =>
          Now.backup # None /\ Now.backup.conn = config.conn
    /\ ~ lost /\ ~ cut /\ ~ warned =>
          /\ config # None /\ (job = None \/ job.at \in {"rotate", "rename", "failed"}) =>
                BackedBy(config)
          /\ job # None /\ job.at = "done" => BackedBy(job.next)
          /\ config = None /\ Now.main # None => BackedBy(Now.main)

\* A job changes what its request asked for.
Publication ==
    job # None =>
        /\ job.next.initial \subseteq config.initial
        /\ job.by = "setting" => /\ job.next.conn = config.conn
                                 /\ setting.which \cap job.next.initial = {}
        /\ job.by = "storage" => job.next.conn = op.next.conn

Intent ==
    /\ setting # None /\ setting.pc = "saved" => setting.which \cap config.initial = {}
    /\ op # None /\ op.pc # "install" =>
          \A i \in Ids \ {op.id} : op.next.conn[i] = config.conn[i]

\* Behind an id is the connection that the configuration names, until an edit is installed.
Served ==
    config # None =>
        \A i \in Ids : \/ ready[i] \in {None, config.conn[i]}
                       \/ op # None /\ op.pc = "install" /\ op.id = i

\* A connection that owes work is configured, now and after the job, or it has an
\* entry; the entries of memory are on disk.
Kept ==
    ~ lost =>
        /\ config # None => /\ Owed \subseteq Live(config) \cup Conned(entries)
                            /\ job # None => Owed \subseteq Live(job.next) \cup Conned(entries)
        /\ Conned(entries) \ raced \subseteq Conned(index)
        /\ config = None =>
              \A f \in Reach :
                 /\ f.main # None => Owed \subseteq Live(f.main) \cup Conned(index)
                 /\ f.main = None /\ f.backup # None =>
                       Owed \subseteq Live(f.backup) \cup Conned(index)

\* The initial passwords: the file is there while one of them is active.
Readable ==
    damage = 0 =>
        /\ \A f \in Reach : f.main # None /\ f.main.initial # {} => f.creds
        /\ config # None /\ config.initial # {} => Now.creds

\* A change that was answered is in the configuration and in the directory.
Accepted ==
    damage = 0 /\ ~ lost =>
        /\ config # None => accepted \cap config.initial = {}
        /\ config = None => \A f \in Reach : f.main # None => accepted \cap f.main.initial = {}

IInv ==
    /\ TypeOK /\ Requests /\ Mains /\ Directory /\ Backups /\ Publication /\ Intent
    /\ Served /\ Kept /\ Readable /\ Accepted

(***************************************************************************)
(* Records.  Each lemma says what an update of one field leaves alone, and *)
(* the sets of records stay unexpanded in the steps that follow.           *)
(***************************************************************************)

\* A configuration and its fields (config.rs: ConfigFile).
LEMMA ConfigFields ==
  ASSUME NEW c \in Configs
  PROVE  /\ c.conn \in Connections /\ c.on \in SUBSET Ids /\ c.refs \in SUBSET Ids
         /\ c.staged \in [conn : Conns \cup {None}, on : BOOLEAN]
         /\ c.initial \in SUBSET Passwords
         /\ c # None
BY ConfigurationAssumption DEF Configs

\* What storage requests ask for (state.rs: stage, activate, update, delete).
LEMMA ConfigEdits ==
  ASSUME NEW c \in Configs
  PROVE  /\ \A s \in [conn : Conns \cup {None}, on : BOOLEAN] :
                LET d == [c EXCEPT !.staged = s] IN
                d \in Configs /\ d.conn = c.conn /\ d.on = c.on /\ d.initial = c.initial
         /\ \A i \in Ids, x \in Conns \cup {None}, on \in SUBSET Ids :
                LET d == [c EXCEPT !.conn[i] = x, !.on = on] IN
                d \in Configs /\ d.conn = [c.conn EXCEPT ![i] = x] /\ d.initial = c.initial
         /\ \A i \in Ids, x \in Conns \cup {None}, on \in SUBSET Ids :
                LET d == [c EXCEPT !.conn[i] = x, !.staged = NoStaged, !.on = on] IN
                d \in Configs /\ d.conn = [c.conn EXCEPT ![i] = x] /\ d.initial = c.initial
         /\ \A which \in SUBSET Passwords, add \in SUBSET Ids, drop \in SUBSET Ids :
                LET d == [c EXCEPT !.initial = @ \ which, !.refs = (@ \cup add) \ drop] IN
                d \in Configs /\ d.conn = c.conn /\ d.initial = c.initial \ which
BY DEF Configs, Connections, NoStaged

LEMMA MergedFields ==
  ASSUME NEW c \in Configs, NEW d \in Configs
  PROVE  /\ Merged(c, d) \in Configs
         /\ Merged(c, d).conn = d.conn /\ Merged(c, d).initial = c.initial
BY DEF Configs, Merged

LEMMA NewConfigFields ==
  NewConfig \in Configs /\ NewConfig.initial = Passwords /\ Live(NewConfig) = {}
BY DEF Configs, NewConfig, NoStaged, Connections, Live

\* The two files and the initial credentials.
LEMMA FileFields ==
  ASSUME NEW f \in Files
  PROVE  /\ f.main \in Configs \cup {None} /\ f.backup \in Configs \cup {None}
         /\ f.creds \in BOOLEAN
         /\ \A m \in Configs \cup {None} : LET g == [f EXCEPT !.main = m] IN
                g \in Files /\ g.main = m /\ g.backup = f.backup /\ g.creds = f.creds
         /\ \A m \in Configs \cup {None} : LET g == [f EXCEPT !.backup = m] IN
                g \in Files /\ g.main = f.main /\ g.backup = m /\ g.creds = f.creds
         /\ \A b \in BOOLEAN : LET g == [f EXCEPT !.creds = b] IN
                g \in Files /\ g.main = f.main /\ g.backup = f.backup /\ g.creds = b
BY DEF Files

LEMMA JobFields ==
  ASSUME NEW j \in Jobs
  PROVE  /\ j.at \in {"rotate", "rename", "sync", "refresh", "done", "failed"}
         /\ j.by \in {"storage", "setting"} /\ j.next \in Configs /\ j.refresh \in BOOLEAN
         /\ j # None
         /\ \A at \in {"rotate", "rename", "sync", "refresh", "done", "failed"} :
                LET k == [j EXCEPT !.at = at] IN
                /\ k \in Jobs /\ k # None
                /\ k.at = at /\ k.by = j.by /\ k.next = j.next /\ k.refresh = j.refresh
BY ConfigurationAssumption DEF Jobs

LEMMA NewJob ==
  ASSUME NEW by \in {"storage", "setting"}, NEW c \in Configs, NEW b \in BOOLEAN
  PROVE  LET j == Job(by, c, b) IN
         j \in Jobs /\ j # None /\ j.at = "rotate" /\ j.by = by /\ j.next = c /\ j.refresh = b
BY ConfigurationAssumption DEF Jobs, Job

LEMMA OperationFields ==
  ASSUME NEW o \in Operations
  PROVE  /\ o.pc \in {"prepare", "persist", "publishing", "install"}
         /\ o.id \in Ids \cup {None} /\ o.next \in Configs
         /\ o.fetch \in BOOLEAN /\ o.guard \in BOOLEAN /\ o # None
         /\ \A pc \in {"prepare", "persist", "publishing", "install"} :
                LET p == [o EXCEPT !.pc = pc] IN
                /\ p \in Operations /\ p # None /\ p.pc = pc /\ p.id = o.id
                /\ p.next = o.next /\ p.fetch = o.fetch /\ p.guard = o.guard
BY ConfigurationAssumption DEF Operations

LEMMA NewOperation ==
  ASSUME NEW pc \in {"prepare", "persist"}, NEW i \in Ids \cup {None}, NEW c \in Configs,
         NEW fetch \in BOOLEAN, NEW guard \in BOOLEAN
  PROVE  LET o == Op(pc, i, c, fetch, guard) IN
         /\ o \in Operations /\ o # None /\ o.pc = pc /\ o.id = i /\ o.next = c
BY ConfigurationAssumption DEF Operations, Op

LEMMA SettingFields ==
  ASSUME NEW s \in Settings
  PROVE  /\ s.pc \in {"waiting", "saving", "saved"} /\ s.which \in SUBSET Passwords
         /\ s.add \in SUBSET Ids /\ s.drop \in SUBSET Ids /\ s # None
         /\ \A pc \in {"waiting", "saving", "saved"} : LET t == [s EXCEPT !.pc = pc] IN
                /\ t \in Settings /\ t # None /\ t.pc = pc /\ t.which = s.which
BY ConfigurationAssumption DEF Settings

LEMMA NewSetting ==
  ASSUME NEW which \in SUBSET Passwords, NEW add \in SUBSET Ids, NEW drop \in SUBSET Ids
  PROVE  LET s == Request(which, add, drop) IN s \in Settings /\ s # None /\ s.pc = "waiting"
BY ConfigurationAssumption DEF Settings, Request

LEMMA VisitFields ==
  ASSUME NEW p \in Visits
  PROVE  /\ p.entry \in Entries /\ p.at \in {"recover", "settle"} /\ p.quiet \in BOOLEAN
         /\ p # None
         /\ \A b \in BOOLEAN : LET v == [p EXCEPT !.quiet = b] IN v \in Visits /\ v # None
         /\ \A b \in BOOLEAN : LET v == [p EXCEPT !.at = "settle", !.quiet = b] IN
                v \in Visits /\ v # None
BY ConfigurationAssumption DEF Visits

(***************************************************************************)
(* The directory: what a rename, a sync and nothing leave a crash to find. *)
(***************************************************************************)

LEMMA Directories ==
  ASSUME FilesTyped
  PROVE  /\ Now \in Reach /\ Reach \subseteq Files
         /\ \A k \in DOMAIN dir : dir[k] \in Reach
         /\ dir' = dir => Reach' = Reach /\ Now' = Now
         /\ \A f \in Files : Does(f) => /\ Reach' = Reach \cup {f} /\ Now' = f
                                        /\ dir' \in Seq(Files) /\ dir' # <<>>
         /\ \A f \in Files : Synced(f) => /\ Reach' = {f} /\ Now' = f
                                          /\ dir' \in Seq(Files) /\ dir' # <<>>
<1>1. dir \in Seq(Files) /\ Len(dir) \in Nat \ {0} /\ DOMAIN dir = 1..Len(dir)
  BY DEF FilesTyped
<1>2. Now \in Reach /\ Reach \subseteq Files /\ \A k \in DOMAIN dir : dir[k] \in Reach
  BY <1>1 DEF Now, Last, Reach
<1>3. dir' = dir => Reach' = Reach /\ Now' = Now
  BY DEF Now, Last, Reach
<1>4. ASSUME NEW f \in Files, Does(f)
      PROVE  Reach' = Reach \cup {f} /\ Now' = f /\ dir' \in Seq(Files) /\ dir' # <<>>
  <2>1. dir' = Append(dir, f) /\ dir' \in Seq(Files) /\ Len(dir') = Len(dir) + 1
        /\ DOMAIN dir' = 1..(Len(dir) + 1) /\ dir'[Len(dir) + 1] = f
        /\ \A k \in 1..Len(dir) : dir'[k] = dir[k]
    BY <1>1, <1>4 DEF Does
  <2>2. Reach' = {dir'[k] : k \in 1..(Len(dir) + 1)}
    BY <2>1 DEF Reach
  <2>3. Reach = {dir[k] : k \in 1..Len(dir)}
    BY <1>1 DEF Reach
  <2>4. 1..(Len(dir) + 1) = 1..Len(dir) \cup {Len(dir) + 1}
    BY <1>1
  <2>5. Reach' = {dir'[k] : k \in 1..Len(dir)} \cup {dir'[Len(dir) + 1]}
    BY <2>2, <2>4, Zenon
  <2>7. {dir'[k] : k \in 1..Len(dir)} = Reach
    BY <2>1, <2>3, Zenon
  <2>6. Now' = f /\ dir' # <<>>
    BY <1>1, <2>1 DEF Now, Last
  <2>. QED
    BY <2>1, <2>5, <2>6, <2>7
<1>5. ASSUME NEW f \in Files, Synced(f)
      PROVE  Reach' = {f} /\ Now' = f /\ dir' \in Seq(Files) /\ dir' # <<>>
  <2>1. dir' = <<f>> /\ dir' \in Seq(Files) /\ Len(dir') = 1 /\ DOMAIN dir' = {1} /\ dir'[1] = f
    BY <1>5 DEF Synced
  <2>. QED
    BY <2>1 DEF Now, Last, Reach
<1>. QED
  BY <1>2, <1>3, <1>4, <1>5

(***************************************************************************)
(* The index of retired connections.                                       *)
(***************************************************************************)

LEMMA EntryFields ==
  ASSUME NEW e \in Entries
  PROVE  /\ e.id \in Ids /\ e.conn \in Conns /\ e.runtime \in BOOLEAN
         /\ LET x == [e EXCEPT !.runtime = TRUE] IN x \in Entries /\ x.conn = e.conn
BY DEF Entries

LEMMA NewEntry ==
  ASSUME NEW i \in Ids, NEW c \in Conns
  PROVE  Entry(i, c) \in Entries /\ Entry(i, c).conn = c
BY DEF Entry, Entries

\* A save writes the connection of every entry.
LEMMA Saved ==
  ASSUME NEW es \in SUBSET Entries
  PROVE  Plain(es) \in SUBSET Entries /\ Conned(Plain(es)) = Conned(es)
<1>1. \A e \in es : Entry(e.id, e.conn) \in Entries /\ Entry(e.id, e.conn).conn = e.conn
  BY EntryFields, NewEntry
<1>2. Plain(es) \in SUBSET Entries
  BY <1>1 DEF Plain
<1>3. Conned(Plain(es)) = Conned(es)
  <2>1. ASSUME NEW c \in Conned(es)
        PROVE  c \in Conned(Plain(es))
    <3>1. PICK e \in es : e.conn = c
      BY DEF Conned
    <3>2. Entry(e.id, e.conn) \in Plain(es)
      BY DEF Plain
    <3>. QED
      BY <1>1, <3>1, <3>2 DEF Conned
  <2>2. ASSUME NEW c \in Conned(Plain(es))
        PROVE  c \in Conned(es)
    <3>1. PICK x \in Plain(es) : x.conn = c
      BY DEF Conned
    <3>2. PICK e \in es : x = Entry(e.id, e.conn)
      BY DEF Plain
    <3>. QED
      BY <1>1, <3>1, <3>2 DEF Conned
  <2>. QED
    BY <2>1, <2>2
<1>. QED
  BY <1>2, <1>3

\* bind_runtime changes no connection.
LEMMA BoundKeeps ==
  ASSUME NEW es \in SUBSET Entries, NEW cfg
  PROVE  Bound(es, cfg) \in SUBSET Entries /\ Conned(Bound(es, cfg)) = Conned(es)
<1> DEFINE B(e) == IF cfg.conn[e.id] = e.conn /\ ready[e.id] = e.conn
                   THEN [e EXCEPT !.runtime = TRUE] ELSE e
<1>1. \A e \in es : B(e) \in Entries /\ B(e).conn = e.conn
  BY EntryFields
<1>2. Bound(es, cfg) = {B(e) : e \in es}
  BY DEF Bound
<1> HIDE DEF B
<1>3. ASSUME NEW c \in Conned(es)
      PROVE  c \in Conned(Bound(es, cfg))
  <2>1. PICK e \in es : e.conn = c
    BY DEF Conned
  <2>. QED
    BY <1>1, <1>2, <2>1 DEF Conned
<1>4. ASSUME NEW c \in Conned(Bound(es, cfg))
      PROVE  c \in Conned(es)
  <2>1. PICK x \in Bound(es, cfg) : x.conn = c
    BY DEF Conned
  <2>2. PICK e \in es : x = B(e)
    BY <1>2
  <2>. QED
    BY <1>1, <2>1, <2>2 DEF Conned
<1>. QED
  BY <1>1, <1>2, <1>3, <1>4

\* What a change of the configuration no longer names has an entry.
LEMMA RememberedKeeps ==
  ASSUME entries \subseteq Entries, NEW old \in Configs, NEW new \in Configs
  PROVE  /\ Remembered(old, new) \in SUBSET Entries
         /\ Conned(entries) \subseteq Conned(Remembered(old, new))
         /\ Live(old) \subseteq Live(new) \cup Conned(Remembered(old, new))
<1>1. /\ \A i \in Ids : old.conn[i] \in Conns \cup {None} /\ new.conn[i] \in Conns \cup {None}
      /\ Live(old) \subseteq Conns /\ Live(new) \subseteq Conns
  BY ConfigFields DEF Connections, Live
<1>2. Removed(old, new) \subseteq Entries
  BY <1>1, NewEntry DEF Removed
<1>3. entries \subseteq Remembered(old, new) /\ Remembered(old, new) \in SUBSET Entries
  BY <1>2 DEF Remembered
<1>4. ASSUME NEW c \in Live(old), c \notin Live(new)
      PROVE  c \in Conned(Remembered(old, new))
  <2>1. PICK i \in Ids : old.conn[i] = c /\ c # None
    BY DEF Live
  <2>2. new.conn[i] # old.conn[i]
    BY <1>4, <2>1 DEF Live
  <2>3. Entry(i, c) \in Removed(old, new) /\ Entry(i, c).conn = c
    BY <1>1, <2>1, <2>2, NewEntry DEF Removed
  <2>4. CASE \E x \in entries : x.id = Entry(i, c).id /\ x.conn = Entry(i, c).conn
    BY <1>3, <2>3, <2>4 DEF Conned
  <2>5. CASE ~ \E x \in entries : x.id = Entry(i, c).id /\ x.conn = Entry(i, c).conn
    BY <2>3, <2>5 DEF Conned, Remembered
  <2>. QED
    BY <2>4, <2>5
<1>. QED
  BY <1>3, <1>4 DEF Conned

\* An entry that a pass ends takes one connection off the index at most.
LEMMA FinishedKeeps ==
  ASSUME entries \subseteq Entries
  PROVE  /\ Finished \in SUBSET Entries
         /\ Conned(entries) \subseteq Conned(Finished) \cup {pass.entry.conn}
         /\ Conned(Finished) \subseteq Conned(entries)
BY DEF Finished, Conned

-----------------------------------------------------------------------------
(* Types.                                                                  *)

\* The directory, the index and its copy in memory.
LEMMA FilesStep ==
  ASSUME IInv, [Next]_vars
  PROVE  FilesTyped'
<1> USE DEF IInv, TypeOK, FilesTyped, MemoryTyped, BoundsTyped, HistoryTyped, disk,
   memory, bounds, reports, history
<1>1. ASSUME Rotate
      PROVE  FilesTyped'
  <2>1. job \in Jobs /\ Now \in Files /\ job.next \in Configs
    BY <1>1, JobFields, Directories DEF Rotate
  <2>2. [Now EXCEPT !.backup = Now.main] \in Files
    BY <2>1, FileFields
  <2>. QED
    BY <1>1, <2>1, <2>2, Directories DEF Rotate
<1>2. ASSUME Rename
      PROVE  FilesTyped'
  <2>1. job \in Jobs /\ Now \in Files /\ job.next \in Configs
    BY <1>2, JobFields, Directories DEF Rename
  <2>2. [Now EXCEPT !.main = job.next] \in Files
    BY <2>1, FileFields
  <2>. QED
    BY <1>2, <2>1, <2>2, Directories DEF Rename
<1>3. ASSUME Sync
      PROVE  FilesTyped'
  <2>1. job \in Jobs /\ Now \in Files /\ job.next \in Configs
    BY <1>3, JobFields, Directories DEF Sync
  <2>2. Now \in Files
    BY <2>1, FileFields
  <2>. QED
    BY <1>3, <2>1, <2>2, Directories DEF Sync
<1>4. ASSUME RefreshBackup
      PROVE  FilesTyped'
  <2>1. job \in Jobs /\ Now \in Files /\ job.next \in Configs
    BY <1>4, JobFields, Directories DEF RefreshBackup
  <2>2. [Now EXCEPT !.backup = job.next] \in Files
    BY <2>1, FileFields
  <2>. QED
    BY <1>4, <2>1, <2>2, Directories DEF RefreshBackup
<1>5. ASSUME Published
      PROVE  FilesTyped'
  BY <1>5 DEF Published
<1>6. ASSUME Refused
      PROVE  FilesTyped'
  BY <1>6 DEF Refused
<1>7. ASSUME ChangePasswords
      PROVE  FilesTyped'
  BY <1>7 DEF ChangePasswords, Asks
<1>8. ASSUME AddReference
      PROVE  FilesTyped'
  BY <1>8 DEF AddReference, Asks
<1>9. ASSUME DropReference
      PROVE  FilesTyped'
  BY <1>9 DEF DropReference, Asks
<1>10. ASSUME UpdateConfig
      PROVE  FilesTyped'
  BY <1>10 DEF UpdateConfig
<1>11. ASSUME Answer
      PROVE  FilesTyped'
  <2>1. Now \in Files /\ [Now EXCEPT !.creds = FALSE] \in Files
    BY FileFields, Directories
  <2>. QED
    BY <1>11, <2>1, Directories DEF Answer
<1>12. ASSUME Stage
      PROVE  FilesTyped'
  BY <1>12 DEF Stage, Free, Starts, RequestFrame
<1>13. ASSUME Discard
      PROVE  FilesTyped'
  BY <1>13 DEF Discard, Free, Starts, RequestFrame
<1>14. ASSUME Activate
      PROVE  FilesTyped'
  BY <1>14 DEF Activate, Free, Starts
<1>15. ASSUME Edit
      PROVE  FilesTyped'
  BY <1>15 DEF Edit, Free, Starts, RequestFrame
<1>16. ASSUME Delete
      PROVE  FilesTyped'
  BY <1>16 DEF Delete, Free, Starts, RequestFrame
<1>17. ASSUME Prepare
      PROVE  FilesTyped'
  BY <1>17 DEF Prepare
<1>18. ASSUME Persist
      PROVE  FilesTyped'
  <2> DEFINE next == Merged(config, op.next)
             es == Remembered(config, next)
  <2>1. config \in Configs /\ op \in Operations /\ next \in Configs
    BY <1>18, MergedFields, OperationFields DEF Persist, Requests
  <2>2. es \in SUBSET Entries
    BY <2>1, RememberedKeeps
  <2>3. Bound(es, config) \in SUBSET Entries /\ Plain(es) \in SUBSET Entries
    BY <2>2, BoundKeeps, Saved
  <2>. QED
    BY <1>18, <2>2, <2>3 DEF Persist, SaveIndex
<1>19. ASSUME Install
      PROVE  FilesTyped'
  BY <1>19 DEF Install
<1>20. ASSUME PassBegin
      PROVE  FilesTyped'
  BY <1>20 DEF PassBegin
<1>21. ASSUME PassRecovers
      PROVE  FilesTyped'
  BY <1>21 DEF PassRecovers
<1>22. ASSUME PassFinish
      PROVE  FilesTyped'
  <2>1. Finished \in SUBSET Entries /\ Plain(Finished) \in SUBSET Entries
    BY FinishedKeeps, Saved
  <2>. QED
    BY <1>22, <2>1 DEF PassFinish, SaveIndex
<1>23. ASSUME PassGivesUp
      PROVE  FilesTyped'
  BY <1>23 DEF PassGivesUp
<1>24. ASSUME Crash
      PROVE  FilesTyped'
  <2>1. PICK k \in DOMAIN dir : \/ Synced(dir[k])
                                \/ Synced([dir[k] EXCEPT !.main = None])
    BY <1>24 DEF Crash, Synced
  <2>2. dir[k] \in Files /\ [dir[k] EXCEPT !.main = None] \in Files
    BY Directories, FileFields
  <2>. QED
    BY <1>24, <2>1, <2>2, Directories DEF Crash
<1>25. ASSUME FirstStart
      PROVE  FilesTyped'
  <2>1. [Now EXCEPT !.creds = TRUE] \in Files
    BY FileFields, Directories
  <2>. QED
    BY <1>25, <2>1, Directories DEF FirstStart
<1>26. ASSUME Start
      PROVE  FilesTyped'
  <2>1. Now \in Files
    BY Directories
  <2>2. Loaded \in Configs
    BY <1>26, <2>1, FileFields, NewConfigFields DEF Start, Loaded
  <2>3. [Now EXCEPT !.main = Loaded] \in Files
    BY <2>1, <2>2, FileFields
  <2>. QED
    BY <1>26, <2>3, Directories DEF Start
<1>27. ASSUME UNCHANGED vars
      PROVE  FilesTyped'
  BY <1>27 DEF vars
<1> HIDE DEF IInv, TypeOK, FilesTyped, MemoryTyped, BoundsTyped, HistoryTyped, disk,
   memory, bounds, reports, history
<1>. QED
  BY <1>1, <1>2, <1>3, <1>4, <1>5, <1>6, <1>7, <1>8, <1>9, <1>10, <1>11, <1>12, <1>13,
     <1>14, <1>15, <1>16, <1>17, <1>18, <1>19, <1>20, <1>21, <1>22, <1>23, <1>24,
     <1>25, <1>26, <1>27, Zenon DEF Next

\* The configuration, the connections behind the ids, and who is at work.
LEMMA MemoryStep ==
  ASSUME IInv, [Next]_vars
  PROVE  MemoryTyped'
<1> USE DEF IInv, TypeOK, FilesTyped, MemoryTyped, BoundsTyped, HistoryTyped, disk,
   memory, bounds, reports, history
<1>1. ASSUME Rotate
      PROVE  MemoryTyped'
  <2>1. \A at \in {"rename", "failed"} : [job EXCEPT !.at = at] \in Jobs
    BY <1>1, JobFields DEF Rotate
  <2>2. job' \in Jobs
    BY <1>1, <2>1 DEF Rotate, Advance
  <2>. QED
    BY <1>1, <2>2 DEF Rotate
<1>2. ASSUME Rename
      PROVE  MemoryTyped'
  <2>1. \A at \in {"sync", "failed"} : [job EXCEPT !.at = at] \in Jobs
    BY <1>2, JobFields DEF Rename
  <2>2. job' \in Jobs
    BY <1>2, <2>1 DEF Rename, Advance
  <2>. QED
    BY <1>2, <2>2 DEF Rename
<1>3. ASSUME Sync
      PROVE  MemoryTyped'
  <2>1. \A at \in {"refresh", "done"} : [job EXCEPT !.at = at] \in Jobs
    BY <1>3, JobFields DEF Sync
  <2>2. job' \in Jobs
    BY <1>3, <2>1 DEF Sync, Advance
  <2>. QED
    BY <1>3, <2>2 DEF Sync
<1>4. ASSUME RefreshBackup
      PROVE  MemoryTyped'
  <2>1. \A at \in {"done"} : [job EXCEPT !.at = at] \in Jobs
    BY <1>4, JobFields DEF RefreshBackup
  <2>2. job' \in Jobs
    BY <1>4, <2>1 DEF RefreshBackup, Advance
  <2>. QED
    BY <1>4, <2>2 DEF RefreshBackup
<1>5. ASSUME Published
      PROVE  MemoryTyped'
  <2>1. config' \in Configs /\ job' = None
    BY <1>5, JobFields DEF Published
  <2>2. CASE job.by = "storage"
    <3>1. [op EXCEPT !.pc = "install"] \in Operations
      BY <1>5, <2>2, OperationFields DEF Published, Requests
    <3>. QED
      BY <1>5, <2>1, <2>2, <3>1 DEF Published
  <2>3. CASE job.by # "storage"
    <3>1. [setting EXCEPT !.pc = "saved"] \in Settings
      BY <1>5, <2>3, SettingFields DEF Published, Requests
    <3>. QED
      BY <1>5, <2>1, <2>3, <3>1 DEF Published
  <2>. QED
    BY <2>2, <2>3
<1>6. ASSUME Refused
      PROVE  MemoryTyped'
  BY <1>6 DEF Refused
<1>7. ASSUME ChangePasswords
      PROVE  MemoryTyped'
  <2>1. PICK which \in SUBSET config.initial \ {{}} : setting' = Request(which, {}, {})
    BY <1>7 DEF ChangePasswords, Asks
  <2>2. config.initial \subseteq Passwords /\ config.refs \subseteq Ids
    BY <1>7, ConfigFields DEF ChangePasswords
  <2>3. setting' \in Settings
    BY <2>1, <2>2, NewSetting
  <2>. QED
    BY <1>7, <2>3 DEF ChangePasswords, Asks
<1>8. ASSUME AddReference
      PROVE  MemoryTyped'
  <2>1. PICK i \in Ids \ config.refs : setting' = Request({}, {i}, {})
    BY <1>8 DEF AddReference, Asks
  <2>2. config.initial \subseteq Passwords /\ config.refs \subseteq Ids
    BY <1>8, ConfigFields DEF AddReference
  <2>3. setting' \in Settings
    BY <2>1, <2>2, NewSetting
  <2>. QED
    BY <1>8, <2>3 DEF AddReference, Asks
<1>9. ASSUME DropReference
      PROVE  MemoryTyped'
  <2>1. PICK i \in config.refs : setting' = Request({}, {}, {i})
    BY <1>9 DEF DropReference, Asks
  <2>2. config.initial \subseteq Passwords /\ config.refs \subseteq Ids
    BY <1>9, ConfigFields DEF DropReference
  <2>3. setting' \in Settings
    BY <2>1, <2>2, NewSetting
  <2>. QED
    BY <1>9, <2>3 DEF DropReference, Asks
<1>10. ASSUME UpdateConfig
      PROVE  MemoryTyped'
  <2>1. config \in Configs /\ setting \in Settings
    BY <1>10 DEF UpdateConfig, Requests
  <2>2. Edited(config) \in Configs
    BY <2>1, ConfigEdits, SettingFields DEF Edited
  <2>4. Job("setting", Edited(config), FALSE) \in Jobs /\ [setting EXCEPT !.pc = "saving"] \in Settings
    BY <2>1, <2>2, NewJob, SettingFields
  <2>3. job' \in Jobs \cup {None} /\ setting' \in Settings \cup {None}
    BY <1>10, <2>4 DEF UpdateConfig
  <2>. QED
    BY <1>10, <2>3 DEF UpdateConfig
<1>11. ASSUME Answer
      PROVE  MemoryTyped'
  BY <1>11 DEF Answer, Holds, Fails
<1>12. ASSUME Stage
      PROVE  MemoryTyped'
  <2>1. PICK c \in Conns, on \in BOOLEAN :
           op' = Op("persist", None, [config EXCEPT !.staged = [conn |-> c, on |-> on]],
                    FALSE, FALSE)
    BY <1>12 DEF Stage, Starts
  <2>2. [config EXCEPT !.staged = [conn |-> c, on |-> on]] \in Configs
    BY <1>12, ConfigEdits DEF Stage, Free
  <2>3. op' \in Operations
    BY <2>1, <2>2, NewOperation
  <2>. QED
    BY <1>12, <2>3 DEF Stage, RequestFrame
<1>13. ASSUME Discard
      PROVE  MemoryTyped'
  <2>1. NoStaged \in [conn : Conns \cup {None}, on : BOOLEAN]
    BY DEF NoStaged
  <2>2. [config EXCEPT !.staged = NoStaged] \in Configs
    BY <1>13, <2>1, ConfigEdits DEF Discard, Free
  <2>3. op' \in Operations
    BY <1>13, <2>2, NewOperation DEF Discard, Starts
  <2>. QED
    BY <1>13, <2>3 DEF Discard, RequestFrame
<1>14. ASSUME Activate
      PROVE  MemoryTyped'
  <2>1. PICK i \in Ids \ used :
           LET s == config.staged
               next == [config EXCEPT !.conn[i] = s.conn, !.staged = NoStaged,
                                      !.on = IF s.on THEN @ \cup {i} ELSE @] IN
           op' = Op(IF s.on THEN "prepare" ELSE "persist", i, next, s.on, FALSE)
    BY <1>14 DEF Activate, Starts
  <2>2. config \in Configs /\ config.staged.conn \in Conns \cup {None}
        /\ config.staged.on \in BOOLEAN /\ config.on \in SUBSET Ids
    BY <1>14, ConfigFields DEF Activate, Free
  <2> DEFINE on == IF config.staged.on THEN config.on \cup {i} ELSE config.on
             next == [config EXCEPT !.conn[i] = config.staged.conn, !.staged = NoStaged, !.on = on]
  <2>3. on \in SUBSET Ids
    BY <2>2
  <2>4. next \in Configs
    <3> HIDE DEF on
    <3>. QED
      BY <2>2, <2>3, ConfigEdits
  <2>5. op' = Op(IF config.staged.on THEN "prepare" ELSE "persist", i, next,
                 config.staged.on, FALSE)
    BY <2>1
  <2>6. op' \in Operations
    <3> HIDE DEF next
    <3>. QED
      BY <2>2, <2>4, <2>5, NewOperation
  <2>. QED
    BY <1>14, <2>6 DEF Activate
<1>15. ASSUME Edit
      PROVE  MemoryTyped'
  <2>1. PICK i \in Ids, c \in Conns, on \in BOOLEAN :
           LET next == [config EXCEPT !.conn[i] = c, !.on = IF on THEN @ \cup {i} ELSE @ \ {i}]
               fetch == on /\ ~Reuses(i, next) IN
           /\ config.conn[i] # None
           /\ Valid(next)
           /\ MustWait(i, next) => ~Recovering(i)
           /\ Starts(Op(IF fetch THEN "prepare" ELSE "persist", i, next, fetch,
                        ready[i] # None /\ ~(Reuses(i, next) /\ on /\ i \in config.on)))
    BY <1>15 DEF Edit
  <2>2. config \in Configs /\ config.on \in SUBSET Ids
    BY <1>15, ConfigFields DEF Edit, Free
  <2> DEFINE enabled == IF on THEN config.on \cup {i} ELSE config.on \ {i}
             next == [config EXCEPT !.conn[i] = c, !.on = enabled]
             fetch == on /\ ~Reuses(i, next)
             guard == ready[i] # None /\ ~(Reuses(i, next) /\ on /\ i \in config.on)
  <2>3. enabled \in SUBSET Ids
    BY <2>2
  <2>4. next \in Configs
    <3> HIDE DEF enabled
    <3>. QED
      BY <2>2, <2>3, ConfigEdits
  <2>5. fetch \in BOOLEAN /\ guard \in BOOLEAN
    OBVIOUS
  <2>6. op' = Op(IF fetch THEN "prepare" ELSE "persist", i, next, fetch, guard)
    BY <2>1 DEF Starts
  <2>7. op' \in Operations
    <3> HIDE DEF next, fetch, guard
    <3>. QED
      BY <2>4, <2>5, <2>6, NewOperation
  <2>. QED
    BY <1>15, <2>7 DEF Edit, RequestFrame
<1>16. ASSUME Delete
      PROVE  MemoryTyped'
  <2>1. PICK i \in Ids :
           op' = Op("persist", i, [config EXCEPT !.conn[i] = None, !.on = @ \ {i}], FALSE,
                    ready[i] # None)
    BY <1>16 DEF Delete, Starts
  <2>2. config \in Configs /\ config.on \ {i} \in SUBSET Ids
    BY <1>16, ConfigFields DEF Delete, Free
  <2>3. [config EXCEPT !.conn[i] = None, !.on = config.on \ {i}] \in Configs
    BY <2>2, ConfigEdits
  <2>4. op' \in Operations
    BY <2>1, <2>3, NewOperation
  <2>. QED
    BY <1>16, <2>4 DEF Delete, RequestFrame
<1>17. ASSUME Prepare
      PROVE  MemoryTyped'
  <2>1. [op EXCEPT !.pc = "persist"] \in Operations
    BY <1>17, OperationFields DEF Prepare
  <2>. QED
    BY <1>17, <2>1 DEF Prepare
<1>18. ASSUME Persist
      PROVE  MemoryTyped'
  <2> DEFINE next == Merged(config, op.next)
  <2>1. config \in Configs /\ op \in Operations /\ next \in Configs
    BY <1>18, MergedFields, OperationFields DEF Persist, Requests
  <2>2. Job("storage", next, TRUE) \in Jobs
    BY <2>1, NewJob
  <2>3. [op EXCEPT !.pc = "publishing"] \in Operations
    BY <2>1, OperationFields
  <2>. QED
    BY <1>18, <2>2, <2>3 DEF Persist
<1>19. ASSUME Install
      PROVE  MemoryTyped'
  <2>1. config \in Configs /\ op \in Operations
    BY <1>19 DEF Install, Requests
  <2>2. \A i \in Ids : config.conn[i] \in Conns \cup {None} /\ ready[i] \in Conns \cup {None}
    BY <2>1, ConfigFields DEF Connections
  <2>3. Installed \in Connections
    BY <2>1, <2>2, OperationFields DEF Installed, Connections
  <2>4. pass' \in Visits \cup {None}
    BY <1>19, VisitFields DEF Install
  <2>. QED
    BY <1>19, <2>3, <2>4 DEF Install
<1>20. ASSUME PassBegin
      PROVE  MemoryTyped'
  <2>1. PICK e \in entries :
           pass' = [entry |-> e, via |-> Via(e), at |-> "recover", quiet |-> FALSE]
    BY <1>20 DEF PassBegin
  <2>2. Via(e) \in {"live", "runtime", "detached"}
    BY DEF Via
  <2>3. pass' \in Visits
    BY <2>1, <2>2 DEF Visits
  <2>. QED
    BY <1>20, <2>3 DEF PassBegin
<1>21. ASSUME PassRecovers
      PROVE  MemoryTyped'
  BY <1>21, VisitFields DEF PassRecovers
<1>22. ASSUME PassFinish
      PROVE  MemoryTyped'
  BY <1>22 DEF PassFinish
<1>23. ASSUME PassGivesUp
      PROVE  MemoryTyped'
  BY <1>23 DEF PassGivesUp
<1>24. ASSUME Crash
      PROVE  MemoryTyped'
  <2>1. [i \in Ids |-> None] \in Connections
    BY DEF Connections
  <2>. QED
    BY <1>24, <2>1 DEF Crash
<1>25. ASSUME FirstStart
      PROVE  MemoryTyped'
  BY <1>25 DEF FirstStart
<1>26. ASSUME Start
      PROVE  MemoryTyped'
  <2>1. Now \in Files
    BY Directories
  <2>2. Loaded \in Configs
    BY <1>26, <2>1, FileFields, NewConfigFields DEF Start, Loaded
  <2>3. \A up : Starting(up) \in Connections
    BY <2>2, ConfigFields DEF Starting, Connections
  <2>. QED
    BY <1>26, <2>2, <2>3 DEF Start
<1>27. ASSUME UNCHANGED vars
      PROVE  MemoryTyped'
  BY <1>27 DEF vars
<1> HIDE DEF IInv, TypeOK, FilesTyped, MemoryTyped, BoundsTyped, HistoryTyped, disk,
   memory, bounds, reports, history
<1>. QED
  BY <1>1, <1>2, <1>3, <1>4, <1>5, <1>6, <1>7, <1>8, <1>9, <1>10, <1>11, <1>12, <1>13,
     <1>14, <1>15, <1>16, <1>17, <1>18, <1>19, <1>20, <1>21, <1>22, <1>23, <1>24,
     <1>25, <1>26, <1>27, Zenon DEF Next

\* The bounds.
LEMMA BoundsStep ==
  ASSUME IInv, [Next]_vars
  PROVE  BoundsTyped'
<1> USE DEF BoundsTyped, bounds
<1>0. /\ MaxEdits \in Nat /\ MaxSettings \in Nat /\ MaxPasses \in Nat /\ MaxFaults \in Nat
      /\ MaxCrashes \in Nat /\ MaxDamage \in Nat /\ BoundsTyped
  BY ConfigurationAssumption DEF IInv, TypeOK
<1>1. ASSUME Rotate
      PROVE  BoundsTyped'
  BY <1>1, <1>0 DEF Rotate, Advance, Holds, Fails
<1>2. ASSUME Rename
      PROVE  BoundsTyped'
  BY <1>2, <1>0 DEF Rename, Advance, Holds, Fails
<1>3. ASSUME Sync
      PROVE  BoundsTyped'
  BY <1>3, <1>0 DEF Sync, Advance, Holds, Fails
<1>4. ASSUME RefreshBackup
      PROVE  BoundsTyped'
  BY <1>4, <1>0 DEF RefreshBackup, Advance, Holds, Fails
<1>5. ASSUME Published
      PROVE  BoundsTyped'
  BY <1>5, <1>0 DEF Published
<1>6. ASSUME Refused
      PROVE  BoundsTyped'
  BY <1>6, <1>0 DEF Refused
<1>7. ASSUME ChangePasswords
      PROVE  BoundsTyped'
  BY <1>7, <1>0 DEF ChangePasswords, Asks
<1>8. ASSUME AddReference
      PROVE  BoundsTyped'
  BY <1>8, <1>0 DEF AddReference, Asks
<1>9. ASSUME DropReference
      PROVE  BoundsTyped'
  BY <1>9, <1>0 DEF DropReference, Asks
<1>10. ASSUME UpdateConfig
      PROVE  BoundsTyped'
  BY <1>10, <1>0 DEF UpdateConfig
<1>11. ASSUME Answer
      PROVE  BoundsTyped'
  BY <1>11, <1>0 DEF Answer, Holds, Fails
<1>12. ASSUME Stage
      PROVE  BoundsTyped'
  BY <1>12, <1>0 DEF Stage, Free, Starts, RequestFrame
<1>13. ASSUME Discard
      PROVE  BoundsTyped'
  BY <1>13, <1>0 DEF Discard, Free, Starts, RequestFrame
<1>14. ASSUME Activate
      PROVE  BoundsTyped'
  BY <1>14, <1>0 DEF Activate, Free, Starts
<1>15. ASSUME Edit
      PROVE  BoundsTyped'
  BY <1>15, <1>0 DEF Edit, Free, Starts, RequestFrame
<1>16. ASSUME Delete
      PROVE  BoundsTyped'
  BY <1>16, <1>0 DEF Delete, Free, Starts, RequestFrame
<1>17. ASSUME Prepare
      PROVE  BoundsTyped'
  BY <1>17, <1>0 DEF Prepare
<1>18. ASSUME Persist
      PROVE  BoundsTyped'
  <2>1. faults' = faults \/ (faults < MaxFaults /\ faults' = faults + 1)
    BY <1>18 DEF Persist, Holds, Fails
  <2>. QED
    BY <1>18, <1>0, <2>1 DEF Persist
<1>19. ASSUME Install
      PROVE  BoundsTyped'
  BY <1>19, <1>0 DEF Install
<1>20. ASSUME PassBegin
      PROVE  BoundsTyped'
  BY <1>20, <1>0 DEF PassBegin
<1>21. ASSUME PassRecovers
      PROVE  BoundsTyped'
  BY <1>21, <1>0 DEF PassRecovers
<1>22. ASSUME PassFinish
      PROVE  BoundsTyped'
  BY <1>22, <1>0 DEF PassFinish, Holds, Fails
<1>23. ASSUME PassGivesUp
      PROVE  BoundsTyped'
  BY <1>23, <1>0 DEF PassGivesUp
<1>24. ASSUME Crash
      PROVE  BoundsTyped'
  BY <1>24, <1>0 DEF Crash
<1>25. ASSUME FirstStart
      PROVE  BoundsTyped'
  BY <1>25, <1>0 DEF FirstStart
<1>26. ASSUME Start
      PROVE  BoundsTyped'
  BY <1>26, <1>0 DEF Start
<1>27. ASSUME UNCHANGED vars
      PROVE  BoundsTyped'
  BY <1>27, <1>0 DEF vars
<1> HIDE DEF BoundsTyped, bounds
<1>. QED
  BY <1>1, <1>2, <1>3, <1>4, <1>5, <1>6, <1>7, <1>8, <1>9, <1>10, <1>11, <1>12, <1>13,
     <1>14, <1>15, <1>16, <1>17, <1>18, <1>19, <1>20, <1>21, <1>22, <1>23, <1>24,
     <1>25, <1>26, <1>27, Zenon DEF Next

\* The history.
LEMMA HistoryStep ==
  ASSUME IInv, [Next]_vars
  PROVE  HistoryTyped'
<1> USE DEF IInv, TypeOK, FilesTyped, MemoryTyped, BoundsTyped, HistoryTyped, disk,
   memory, bounds, reports, history
<1>1. ASSUME Rotate
      PROVE  HistoryTyped'
  BY <1>1 DEF Rotate, Advance, Holds, Fails
<1>2. ASSUME Rename
      PROVE  HistoryTyped'
  BY <1>2 DEF Rename, Advance, Holds, Fails
<1>3. ASSUME Sync
      PROVE  HistoryTyped'
  BY <1>3 DEF Sync, Advance, Holds, Fails
<1>4. ASSUME RefreshBackup
      PROVE  HistoryTyped'
  BY <1>4 DEF RefreshBackup, Advance, Holds, Fails
<1>5. ASSUME Published
      PROVE  HistoryTyped'
  BY <1>5 DEF Published
<1>6. ASSUME Refused
      PROVE  HistoryTyped'
  BY <1>6 DEF Refused
<1>7. ASSUME ChangePasswords
      PROVE  HistoryTyped'
  BY <1>7 DEF ChangePasswords, Asks
<1>8. ASSUME AddReference
      PROVE  HistoryTyped'
  BY <1>8 DEF AddReference, Asks
<1>9. ASSUME DropReference
      PROVE  HistoryTyped'
  BY <1>9 DEF DropReference, Asks
<1>10. ASSUME UpdateConfig
      PROVE  HistoryTyped'
  BY <1>10 DEF UpdateConfig
<1>11. ASSUME Answer
      PROVE  HistoryTyped'
  <2>1. setting.which \subseteq Passwords
    BY <1>11, SettingFields DEF Answer
  <2>. QED
    BY <1>11, <2>1 DEF Answer
<1>12. ASSUME Stage
      PROVE  HistoryTyped'
  BY <1>12 DEF Stage, Free, Starts, RequestFrame
<1>13. ASSUME Discard
      PROVE  HistoryTyped'
  BY <1>13 DEF Discard, Free, Starts, RequestFrame
<1>14. ASSUME Activate
      PROVE  HistoryTyped'
  BY <1>14 DEF Activate, Free, Starts
<1>15. ASSUME Edit
      PROVE  HistoryTyped'
  BY <1>15 DEF Edit, Free, Starts, RequestFrame
<1>16. ASSUME Delete
      PROVE  HistoryTyped'
  BY <1>16 DEF Delete, Free, Starts, RequestFrame
<1>17. ASSUME Prepare
      PROVE  HistoryTyped'
  BY <1>17 DEF Prepare
<1>18. ASSUME Persist
      PROVE  HistoryTyped'
  BY <1>18 DEF Persist, Holds, Fails
<1>19. ASSUME Install
      PROVE  HistoryTyped'
  <2>1. config \in Configs /\ op \in Operations
    BY <1>19 DEF Install, Requests
  <2>2. \A i \in Ids : config.conn[i] \in Conns \cup {None} /\ ready[i] \in Conns \cup {None}
    BY <2>1, ConfigFields DEF Connections
  <2>3. Installed \in Connections
    BY <2>1, <2>2, OperationFields DEF Installed, Connections
  <2>4. config.on \subseteq Ids /\ {Installed[i] : i \in config.on} \ {None} \subseteq Conns
    BY <2>1, <2>3, ConfigFields DEF Connections
  <2>. QED
    BY <1>19, <2>4 DEF Install
<1>20. ASSUME PassBegin
      PROVE  HistoryTyped'
  BY <1>20 DEF PassBegin
<1>21. ASSUME PassRecovers
      PROVE  HistoryTyped'
  BY <1>21 DEF PassRecovers
<1>22. ASSUME PassFinish
      PROVE  HistoryTyped'
  <2>1. pass.entry.conn \in Conns
    BY <1>22, VisitFields, EntryFields DEF PassFinish
  <2>. QED
    BY <1>22, <2>1 DEF PassFinish
<1>23. ASSUME PassGivesUp
      PROVE  HistoryTyped'
  BY <1>23 DEF PassGivesUp
<1>24. ASSUME Crash
      PROVE  HistoryTyped'
  BY <1>24 DEF Crash
<1>25. ASSUME FirstStart
      PROVE  HistoryTyped'
  BY <1>25 DEF FirstStart
<1>26. ASSUME Start
      PROVE  HistoryTyped'
  <2>1. Now \in Files
    BY Directories
  <2>2. Loaded \in Configs
    BY <1>26, <2>1, FileFields, NewConfigFields DEF Start, Loaded
  <2>3. \A up : Serving(Starting(up)) \subseteq Conns
    BY <2>2, ConfigFields DEF Starting, Serving, Connections
  <2>. QED
    BY <1>26, <2>3 DEF Start
<1>27. ASSUME UNCHANGED vars
      PROVE  HistoryTyped'
  BY <1>27 DEF vars
<1> HIDE DEF IInv, TypeOK, FilesTyped, MemoryTyped, BoundsTyped, HistoryTyped, disk,
   memory, bounds, reports, history
<1>. QED
  BY <1>1, <1>2, <1>3, <1>4, <1>5, <1>6, <1>7, <1>8, <1>9, <1>10, <1>11, <1>12, <1>13,
     <1>14, <1>15, <1>16, <1>17, <1>18, <1>19, <1>20, <1>21, <1>22, <1>23, <1>24,
     <1>25, <1>26, <1>27, Zenon DEF Next

-----------------------------------------------------------------------------
(* What each step does to the directories a crash may leave and to the rest.  *)

\* The previous file becomes the backup.
LEMMA RotateEffect ==
  ASSUME IInv, Rotate
  PROVE  /\ job # None /\ job.at = "rotate" /\ job' # None
         /\ job'.by = job.by /\ job'.next = job.next /\ job'.refresh = job.refresh

         /\ \/ /\ job'.at = "rename"
               /\ \E f \in Files : /\ Reach' = Reach \cup {f} /\ Now' = f
                                   /\ f.main = Now.main /\ f.backup = Now.main
                                   /\ f.creds = Now.creds
            \/ job'.at = "failed" /\ Reach' = Reach /\ Now' = Now
         /\ UNCHANGED <<index, config, entries, ready, op, setting, pass, damage,
                        warned, lost, cut, owing, raced, accepted>>
<1>1. FilesTyped /\ job \in Jobs /\ job # None /\ job.next \in Configs
  BY JobFields DEF IInv, TypeOK, MemoryTyped, Rotate
<1> DEFINE J(at) == [job EXCEPT !.at = at]
<1>2. \A at \in {"rename", "sync", "refresh", "done", "failed"} :
        /\ J(at) # None /\ J(at).at = at /\ J(at).by = job.by /\ J(at).next = job.next
        /\ J(at).refresh = job.refresh
  BY <1>1, ConfigurationAssumption DEF Jobs
<1> DEFINE f == [Now EXCEPT !.backup = Now.main]
<1>3. /\ Now \in Files /\ f \in Files /\ f.main = Now.main /\ f.backup = Now.main
      /\ f.creds = Now.creds
  BY <1>1, Directories, FileFields DEF Files
<1>4. job.at = "rotate" /\ UNCHANGED <<index, config, entries, ready, op, setting,
                                       pass, damage, warned, lost, cut, owing, raced, accepted>>
  BY DEF Rotate, memory, bounds, history, reports
<1>5. \/ Does(f) /\ job' = J("rename")
      \/ dir' = dir /\ job' = J("failed")
  BY DEF Rotate, Advance, Holds
<1> HIDE DEF J, f
<1>6. CASE Does(f) /\ job' = J("rename")
  <2>1. ("rename") \in {"rename", "sync", "refresh", "done", "failed"}
    BY <1>1, JobFields
  <2>2. /\ job' # None /\ job'.at = ("rename") /\ job'.by = job.by /\ job'.next = job.next
        /\ job'.refresh = job.refresh
    BY <1>2, <1>6, <2>1
  <2>. QED
    BY <1>1, <1>3, <1>4, <1>6, <2>2, Directories
<1>7. CASE dir' = dir /\ job' = J("failed")
  <2>1. ("failed") \in {"rename", "sync", "refresh", "done", "failed"}
    BY <1>1, JobFields
  <2>2. /\ job' # None /\ job'.at = ("failed") /\ job'.by = job.by /\ job'.next = job.next
        /\ job'.refresh = job.refresh
    BY <1>2, <1>7, <2>1
  <2>. QED
    BY <1>1, <1>3, <1>4, <1>7, <2>2, Directories
<1>. QED
  BY <1>5, <1>6, <1>7

\* The new file is renamed into place.
LEMMA RenameEffect ==
  ASSUME IInv, Rename
  PROVE  /\ job # None /\ job.at = "rename" /\ job' # None
         /\ job'.by = job.by /\ job'.next = job.next /\ job'.refresh = job.refresh

         /\ \/ /\ job'.at = "sync"
               /\ \E f \in Files : /\ Reach' = Reach \cup {f} /\ Now' = f
                                   /\ f.main = job.next /\ f.backup = Now.backup
                                   /\ f.creds = Now.creds
            \/ job'.at = "failed" /\ Reach' = Reach /\ Now' = Now
         /\ UNCHANGED <<index, config, entries, ready, op, setting, pass, damage,
                        warned, lost, cut, owing, raced, accepted>>
<1>1. FilesTyped /\ job \in Jobs /\ job # None /\ job.next \in Configs
  BY JobFields DEF IInv, TypeOK, MemoryTyped, Rename
<1> DEFINE J(at) == [job EXCEPT !.at = at]
<1>2. \A at \in {"rename", "sync", "refresh", "done", "failed"} :
        /\ J(at) # None /\ J(at).at = at /\ J(at).by = job.by /\ J(at).next = job.next
        /\ J(at).refresh = job.refresh
  BY <1>1, ConfigurationAssumption DEF Jobs
<1> DEFINE f == [Now EXCEPT !.main = job.next]
<1>3. /\ Now \in Files /\ f \in Files /\ f.main = job.next /\ f.backup = Now.backup
      /\ f.creds = Now.creds
  BY <1>1, Directories, FileFields DEF Files
<1>4. job.at = "rename" /\ UNCHANGED <<index, config, entries, ready, op, setting,
                                       pass, damage, warned, lost, cut, owing, raced, accepted>>
  BY DEF Rename, memory, bounds, history, reports
<1>5. \/ Does(f) /\ job' = J("sync")
      \/ dir' = dir /\ job' = J("failed")
  BY DEF Rename, Advance, Holds
<1> HIDE DEF J, f
<1>6. CASE Does(f) /\ job' = J("sync")
  <2>1. ("sync") \in {"rename", "sync", "refresh", "done", "failed"}
    BY <1>1, JobFields
  <2>2. /\ job' # None /\ job'.at = ("sync") /\ job'.by = job.by /\ job'.next = job.next
        /\ job'.refresh = job.refresh
    BY <1>2, <1>6, <2>1
  <2>. QED
    BY <1>1, <1>3, <1>4, <1>6, <2>2, Directories
<1>7. CASE dir' = dir /\ job' = J("failed")
  <2>1. ("failed") \in {"rename", "sync", "refresh", "done", "failed"}
    BY <1>1, JobFields
  <2>2. /\ job' # None /\ job'.at = ("failed") /\ job'.by = job.by /\ job'.next = job.next
        /\ job'.refresh = job.refresh
    BY <1>2, <1>7, <2>1
  <2>. QED
    BY <1>1, <1>3, <1>4, <1>7, <2>2, Directories
<1>. QED
  BY <1>5, <1>6, <1>7

\* The publication is confirmed, or a warning says that it is not.
LEMMA SyncEffect ==
  ASSUME IInv, Sync
  PROVE  /\ job # None /\ job.at = "sync" /\ job' # None
         /\ job'.by = job.by /\ job'.next = job.next /\ job'.refresh = job.refresh

         /\ job'.at = IF job.refresh THEN "refresh" ELSE "done"
         /\ \/ Reach' = {Now} /\ Now' = Now /\ ~ warned' /\ ~ cut'
            \/ Reach' = Reach /\ Now' = Now /\ warned' /\ cut' = cut
         /\ UNCHANGED <<index, config, entries, ready, op, setting, pass, damage,
                        lost, owing, raced, accepted>>
<1>1. FilesTyped /\ job \in Jobs /\ job # None /\ job.next \in Configs
  BY JobFields DEF IInv, TypeOK, MemoryTyped, Sync
<1> DEFINE J(at) == [job EXCEPT !.at = at]
<1>2. \A at \in {"rename", "sync", "refresh", "done", "failed"} :
        /\ J(at) # None /\ J(at).at = at /\ J(at).by = job.by /\ J(at).next = job.next
        /\ J(at).refresh = job.refresh
  BY <1>1, ConfigurationAssumption DEF Jobs
<1> DEFINE f == Now
<1>3. /\ Now \in Files /\ f \in Files /\ f.main = Now.main /\ f.backup = Now.backup
      /\ f.creds = Now.creds /\ f = Now
  BY <1>1, Directories, FileFields DEF Files
<1>4. job.at = "sync" /\ UNCHANGED <<index, config, entries, ready, op, setting,
                                     pass, damage, lost, owing, raced, accepted>>
  BY DEF Sync, memory, bounds, history, reports
<1>5. \/ Synced(f) /\ job' = J(IF job.refresh THEN "refresh" ELSE "done")
         /\ warned' = FALSE /\ cut' = FALSE
      \/ dir' = dir /\ job' = J(IF job.refresh THEN "refresh" ELSE "done")
         /\ warned' = TRUE /\ cut' = cut
  BY DEF Sync, Advance, Holds
<1> HIDE DEF J, f
<1>6. CASE Synced(f) /\ job' = J(IF job.refresh THEN "refresh" ELSE "done")
         /\ warned' = FALSE /\ cut' = FALSE
  <2>1. (IF job.refresh THEN "refresh" ELSE "done") \in {"rename", "sync", "refresh", "done", "failed"}
    BY <1>1, JobFields
  <2>2. /\ job' # None /\ job'.at = (IF job.refresh THEN "refresh" ELSE "done") /\ job'.by = job.by /\ job'.next = job.next
        /\ job'.refresh = job.refresh
    BY <1>2, <1>6, <2>1
  <2>. QED
    BY <1>1, <1>3, <1>4, <1>6, <2>2, Directories
<1>7. CASE dir' = dir /\ job' = J(IF job.refresh THEN "refresh" ELSE "done")
         /\ warned' = TRUE /\ cut' = cut
  <2>1. (IF job.refresh THEN "refresh" ELSE "done") \in {"rename", "sync", "refresh", "done", "failed"}
    BY <1>1, JobFields
  <2>2. /\ job' # None /\ job'.at = (IF job.refresh THEN "refresh" ELSE "done") /\ job'.by = job.by /\ job'.next = job.next
        /\ job'.refresh = job.refresh
    BY <1>2, <1>7, <2>1
  <2>. QED
    BY <1>1, <1>3, <1>4, <1>7, <2>2, Directories
<1>. QED
  BY <1>5, <1>6, <1>7

\* The backup follows a storage change.
LEMMA RefreshEffect ==
  ASSUME IInv, RefreshBackup
  PROVE  /\ job # None /\ job.at = "refresh" /\ job' # None
         /\ job'.by = job.by /\ job'.next = job.next /\ job'.refresh = job.refresh

         /\ job'.at = "done"
         /\ \/ /\ cut' = cut
               /\ \E f \in Files : /\ Reach' = {f} /\ Now' = f /\ f.main = Now.main
                                   /\ f.backup = job.next /\ f.creds = Now.creds
            \/ cut' /\ Reach' = Reach /\ Now' = Now
         /\ UNCHANGED <<index, config, entries, ready, op, setting, pass, damage,
                        warned, lost, owing, raced, accepted>>
<1>1. FilesTyped /\ job \in Jobs /\ job # None /\ job.next \in Configs
  BY JobFields DEF IInv, TypeOK, MemoryTyped, RefreshBackup
<1> DEFINE J(at) == [job EXCEPT !.at = at]
<1>2. \A at \in {"rename", "sync", "refresh", "done", "failed"} :
        /\ J(at) # None /\ J(at).at = at /\ J(at).by = job.by /\ J(at).next = job.next
        /\ J(at).refresh = job.refresh
  BY <1>1, ConfigurationAssumption DEF Jobs
<1> DEFINE f == [Now EXCEPT !.backup = job.next]
<1>3. /\ Now \in Files /\ f \in Files /\ f.main = Now.main /\ f.backup = job.next
      /\ f.creds = Now.creds
  BY <1>1, Directories, FileFields DEF Files
<1>4. job.at = "refresh" /\ UNCHANGED <<index, config, entries, ready, op, setting,
                                        pass, damage, warned, lost, owing, raced, accepted>>
  BY DEF RefreshBackup, memory, bounds, history, reports
<1>5. \/ Synced(f) /\ job' = J("done") /\ cut' = cut
      \/ dir' = dir /\ job' = J("done") /\ cut' = TRUE
  BY DEF RefreshBackup, Advance, Holds
<1> HIDE DEF J, f
<1>6. CASE Synced(f) /\ job' = J("done") /\ cut' = cut
  <2>1. ("done") \in {"rename", "sync", "refresh", "done", "failed"}
    BY <1>1, JobFields
  <2>2. /\ job' # None /\ job'.at = ("done") /\ job'.by = job.by /\ job'.next = job.next
        /\ job'.refresh = job.refresh
    BY <1>2, <1>6, <2>1
  <2>. QED
    BY <1>1, <1>3, <1>4, <1>6, <2>2, Directories
<1>7. CASE dir' = dir /\ job' = J("done") /\ cut' = TRUE
  <2>1. ("done") \in {"rename", "sync", "refresh", "done", "failed"}
    BY <1>1, JobFields
  <2>2. /\ job' # None /\ job'.at = ("done") /\ job'.by = job.by /\ job'.next = job.next
        /\ job'.refresh = job.refresh
    BY <1>2, <1>7, <2>1
  <2>. QED
    BY <1>1, <1>3, <1>4, <1>7, <2>2, Directories
<1>. QED
  BY <1>5, <1>6, <1>7

\* Memory follows the file.
LEMMA PublishedEffect ==
  ASSUME IInv, Published
  PROVE  /\ job # None /\ job.at = "done" /\ job' = None
         /\ config # None /\ config' = job.next /\ config' # None
         /\ \/ /\ job.by = "storage" /\ setting' = setting /\ op # None
               /\ op' # None /\ op'.pc = "install" /\ op'.id = op.id
            \/ /\ job.by = "setting" /\ op' = op /\ setting # None
               /\ setting' # None /\ setting'.pc = "saved" /\ setting'.which = setting.which
         /\ Reach' = Reach /\ Now' = Now
         /\ UNCHANGED <<index, entries, ready, pass, damage, warned, lost, cut,
                        owing, raced, accepted>>
<1>1. job \in Jobs /\ job # None /\ config # None /\ FilesTyped
  BY DEF IInv, TypeOK, MemoryTyped, Published, Requests
<1>2. CASE job.by = "storage"
  <2>1. op \in Operations
    BY <1>1, <1>2 DEF IInv, TypeOK, MemoryTyped, Requests
  <2>2. LET o == [op EXCEPT !.pc = "install"] IN o # None /\ o.pc = "install" /\ o.id = op.id
    BY <2>1, ConfigurationAssumption DEF Operations
  <2>. QED
    BY <1>1, <1>2, <2>1, <2>2, JobFields, OperationFields, ConfigFields, Directories
       DEF Published, disk, bounds, history, reports
<1>3. CASE job.by = "setting"
  <2>1. setting \in Settings
    BY <1>1, <1>3 DEF IInv, TypeOK, MemoryTyped, Requests
  <2>2. LET t == [setting EXCEPT !.pc = "saved"] IN
        t # None /\ t.pc = "saved" /\ t.which = setting.which
    BY <2>1, ConfigurationAssumption DEF Settings
  <2>. QED
    BY <1>1, <1>3, <2>1, <2>2, JobFields, SettingFields, ConfigFields, Directories
       DEF Published, disk, bounds, history, reports
<1>. QED
  BY <1>1, <1>2, <1>3, JobFields

\* A job that failed before the rename is an error.
LEMMA RefusedEffect ==
  ASSUME IInv, Refused
  PROVE  /\ job # None /\ job.at = "failed" /\ job' = None
         /\ \/ job.by = "storage" /\ op' = None /\ setting' = setting
            \/ job.by = "setting" /\ op' = op /\ setting' = None
         /\ Reach' = Reach /\ Now' = Now
         /\ UNCHANGED <<index, config, entries, ready, pass, damage, warned, lost,
                        cut, owing, raced, accepted>>
<1>1. job \in Jobs /\ FilesTyped
  BY DEF IInv, TypeOK, MemoryTyped, Refused
<1>. QED
  BY <1>1, JobFields, Directories DEF Refused, disk, memory, bounds, history, reports

\* A request that changes other settings waits for the lock.
LEMMA SettingAsked ==
  ASSUME IInv, ChangePasswords \/ AddReference \/ DropReference
  PROVE  /\ config # None /\ setting = None
         /\ setting' # None /\ setting'.pc = "waiting"
         /\ Reach' = Reach /\ Now' = Now
         /\ UNCHANGED <<index, config, entries, ready, op, pass, damage, warned,
                        lost, cut, owing, raced, accepted, job>>
<1>1. config # None /\ \E which \in SUBSET Passwords, add, drop \in SUBSET Ids :
                          Asks(Request(which, add, drop))
  <2>1. config # None => config.initial \subseteq Passwords /\ config.refs \subseteq Ids
    BY ConfigFields DEF IInv, TypeOK, MemoryTyped
  <2>2. CASE ChangePasswords
    BY <2>1, <2>2 DEF ChangePasswords
  <2>3. CASE AddReference
    BY <2>1, <2>3 DEF AddReference
  <2>4. CASE DropReference
    BY <2>1, <2>4 DEF DropReference
  <2>. QED
    BY <2>2, <2>3, <2>4
<1>2. FilesTyped
  BY DEF IInv, TypeOK, MemoryTyped
<1>. QED
  BY <1>1, <1>2, NewSetting, Directories DEF Asks, disk, memory, bounds, history,
     reports

\* It edits the configuration of the moment it has the lock.
LEMMA UpdateEffect ==
  ASSUME IInv, UpdateConfig
  PROVE  /\ setting # None /\ setting.pc = "waiting" /\ config # None
         /\ \/ /\ job = None /\ job' # None /\ job'.at = "rotate" /\ job'.by = "setting"
               /\ job'.refresh = FALSE /\ job'.next.conn = config.conn
               /\ job'.next.initial = config.initial \ setting.which
               /\ setting' # None /\ setting'.pc = "saving"
               /\ setting'.which = setting.which
            \/ setting' = None /\ job' = job
         /\ Reach' = Reach /\ Now' = Now
         /\ UNCHANGED <<index, config, entries, ready, op, pass, damage, warned,
                        lost, cut, owing, raced, accepted>>
<1>1. FilesTyped /\ setting \in Settings /\ config \in Configs
  BY DEF IInv, TypeOK, MemoryTyped, UpdateConfig, Requests
<1>2. /\ Edited(config) \in Configs /\ Edited(config).conn = config.conn
      /\ Edited(config).initial = config.initial \ setting.which
  BY <1>1, SettingFields, ConfigEdits DEF Edited, Configs
<1>3. LET j == Job("setting", Edited(config), FALSE) IN
      /\ j # None /\ j.at = "rotate" /\ j.by = "setting" /\ j.next = Edited(config)
      /\ j.refresh = FALSE
  BY <1>2, NewJob
<1>4. LET s == [setting EXCEPT !.pc = "saving"] IN
      s # None /\ s.pc = "saving" /\ s.which = setting.which
  BY <1>1, SettingFields
<1>5. config # None /\ setting # None /\ setting.pc = "waiting"
  BY <1>1, ConfigFields DEF UpdateConfig
<1>6. CASE /\ job' = Job("setting", Edited(config), FALSE) /\ job = None
           /\ setting' = [setting EXCEPT !.pc = "saving"]
  BY <1>1, <1>2, <1>3, <1>4, <1>5, <1>6, Directories DEF UpdateConfig, disk, memory,
     bounds, history, reports
<1>7. CASE setting' = None /\ job' = job
  BY <1>1, <1>5, <1>7, Directories DEF UpdateConfig, disk, memory, bounds, history,
     reports
<1>. QED
  BY <1>6, <1>7 DEF UpdateConfig

\* It is answered, and the initial credentials go when none of them is active.
LEMMA AnswerEffect ==
  ASSUME IInv, Answer
  PROVE  /\ setting # None /\ setting.pc = "saved" /\ config # None
         /\ setting' = None /\ accepted' = accepted \cup setting.which
         /\ \/ Reach' = Reach /\ Now' = Now
            \/ /\ config.initial = {}
               /\ \E f \in Files : /\ Reach' = {f} \/ Reach' = Reach \cup {f}
                                   /\ Now' = f /\ f.main = Now.main
                                   /\ f.backup = Now.backup /\ f.creds = FALSE
         /\ UNCHANGED <<index, config, entries, ready, op, pass, damage, warned,
                        lost, cut, owing, raced, job>>
<1>1. FilesTyped /\ config # None
  BY DEF IInv, TypeOK, MemoryTyped, Answer, Requests
<1> DEFINE f == [Now EXCEPT !.creds = FALSE]
<1>2. f \in Files /\ f.main = Now.main /\ f.backup = Now.backup /\ f.creds = FALSE
  BY <1>1, Directories DEF Files
<1>3. /\ setting # None /\ setting.pc = "saved" /\ setting' = None
      /\ accepted' = accepted \cup setting.which /\ UNCHANGED <<index, config,
                                                                entries, ready, op, pass, damage, warned, lost, cut, owing, raced, job>>
  BY DEF Answer, memory, reports
<1>4. \/ dir' = dir
      \/ config.initial = {} /\ (Synced(f) \/ Does(f))
  BY DEF Answer, Rotated
<1> HIDE DEF f
<1>5. CASE dir' = dir
  BY <1>1, <1>3, <1>5, Directories
<1>6. CASE config.initial = {} /\ (Synced(f) \/ Does(f))
  BY <1>1, <1>2, <1>3, <1>6, Directories
<1>. QED
  BY <1>4, <1>5, <1>6

\* A storage request changes the connection of one instance at most.
LEMMA StorageAsked ==
  ASSUME IInv, Stage \/ Discard \/ Activate \/ Edit \/ Delete
  PROVE  /\ config # None /\ op = None
         /\ op' # None /\ op'.pc \in {"prepare", "persist"}
         /\ \A i \in Ids \ {op'.id} : op'.next.conn[i] = config.conn[i]
         /\ Reach' = Reach /\ Now' = Now
         /\ UNCHANGED <<index, config, entries, ready, setting, pass, damage, warned,
                        lost, cut, owing, raced, accepted, job>>
<1>1. config # None => config \in Configs
  BY DEF IInv, TypeOK, MemoryTyped
<1> DEFINE Asked ==
      /\ op' # None /\ op'.pc \in {"prepare", "persist"}
      /\ \A i \in Ids \ {op'.id} : op'.next.conn[i] = config.conn[i]
<1>3. ASSUME Stage
      PROVE  Asked
  <2>1. PICK c \in Conns, on \in BOOLEAN :
           op' = Op("persist", None, [config EXCEPT !.staged = [conn |-> c, on |-> on]],
                    FALSE, FALSE)
    BY <1>3 DEF Stage, Starts
  <2> DEFINE next == [config EXCEPT !.staged = [conn |-> c, on |-> on]]
  <2>2. next \in Configs /\ next.conn = config.conn
    BY <1>3, <1>1, ConfigEdits DEF Stage, Free, Configs
  <2>3. op' = Op("persist", None, next, FALSE, FALSE)
    BY <2>1
  <2> HIDE DEF next
  <2>4. op' \in Operations
    BY <2>2, <2>3, NewOperation
  <2>5. op'.pc = "persist" /\ op'.next = next
    BY <2>3 DEF Op
  <2>. QED
    BY <2>2, <2>4, <2>5, OperationFields
<1>4. ASSUME Discard
      PROVE  Asked
  <2> DEFINE next == [config EXCEPT !.staged = NoStaged]
  <2>1. NoStaged \in [conn : Conns \cup {None}, on : BOOLEAN]
    BY DEF NoStaged
  <2>2. next \in Configs /\ next.conn = config.conn
    BY <1>4, <1>1, <2>1, ConfigEdits DEF Discard, Free, Configs
  <2>3. op' = Op("persist", None, next, FALSE, FALSE)
    BY <1>4 DEF Discard, Starts
  <2> HIDE DEF next
  <2>4. op' \in Operations
    BY <2>2, <2>3, NewOperation
  <2>5. op'.pc = "persist" /\ op'.next = next
    BY <2>3 DEF Op
  <2>. QED
    BY <2>2, <2>4, <2>5, OperationFields
<1>5. ASSUME Activate
      PROVE  Asked
  <2>1. PICK i \in Ids \ used :
           LET s == config.staged
               next == [config EXCEPT !.conn[i] = s.conn, !.staged = NoStaged,
                                      !.on = IF s.on THEN @ \cup {i} ELSE @] IN
           op' = Op(IF s.on THEN "prepare" ELSE "persist", i, next, s.on, FALSE)
    BY <1>5 DEF Activate, Starts
  <2>2. config \in Configs /\ config.staged.conn \in Conns \cup {None}
        /\ config.staged.on \in BOOLEAN /\ config.on \in SUBSET Ids
    BY <1>5, <1>1, ConfigFields DEF Activate, Free
  <2> DEFINE on == IF config.staged.on THEN config.on \cup {i} ELSE config.on
             next == [config EXCEPT !.conn[i] = config.staged.conn, !.staged = NoStaged, !.on = on]
  <2>3. on \in SUBSET Ids
    BY <2>2
  <2>4. next \in Configs /\ next.conn = [config.conn EXCEPT ![i] = config.staged.conn]
    <3> HIDE DEF on
    <3>. QED
      BY <2>2, <2>3 DEF Configs, Connections, NoStaged
  <2>5. op' = Op(IF config.staged.on THEN "prepare" ELSE "persist", i, next,
                 config.staged.on, FALSE)
    BY <2>1
  <2> HIDE DEF next, on
  <2>7. op' \in Operations
    BY <2>2, <2>4, <2>5, NewOperation
  <2>8. op'.pc \in {"prepare", "persist"} /\ op'.id = i /\ op'.next = next
    BY <2>5 DEF Op
  <2>6. op' # None /\ op'.pc \in {"prepare", "persist"} /\ op'.id = i /\ op'.next = next
    BY <2>7, <2>8, OperationFields
  <2>. QED
    BY <2>2, <2>4, <2>6, ConfigFields DEF Connections
<1>6. ASSUME Edit
      PROVE  Asked
  <2>1. PICK i \in Ids, c \in Conns, on \in BOOLEAN :
           LET next == [config EXCEPT !.conn[i] = c, !.on = IF on THEN @ \cup {i} ELSE @ \ {i}]
               fetch == on /\ ~Reuses(i, next) IN
           /\ config.conn[i] # None
           /\ Valid(next)
           /\ MustWait(i, next) => ~Recovering(i)
           /\ Starts(Op(IF fetch THEN "prepare" ELSE "persist", i, next, fetch,
                        ready[i] # None /\ ~(Reuses(i, next) /\ on /\ i \in config.on)))
    BY <1>6 DEF Edit
  <2>2. config \in Configs /\ config.on \in SUBSET Ids
    BY <1>6, <1>1, ConfigFields DEF Edit, Free
  <2> DEFINE enabled == IF on THEN config.on \cup {i} ELSE config.on \ {i}
             next == [config EXCEPT !.conn[i] = c, !.on = enabled]
             fetch == on /\ ~Reuses(i, next)
             guard == ready[i] # None /\ ~(Reuses(i, next) /\ on /\ i \in config.on)
  <2>3. enabled \in SUBSET Ids
    BY <2>2
  <2>4. next \in Configs /\ next.conn = [config.conn EXCEPT ![i] = c]
    <3> HIDE DEF enabled
    <3>. QED
      BY <2>2, <2>3 DEF Configs, Connections, NoStaged
  <2>5. fetch \in BOOLEAN /\ guard \in BOOLEAN
    OBVIOUS
  <2>6. op' = Op(IF fetch THEN "prepare" ELSE "persist", i, next, fetch, guard)
    BY <2>1 DEF Starts
  <2> HIDE DEF next, enabled, fetch, guard
  <2>7. op' # None /\ op'.pc \in {"prepare", "persist"} /\ op'.id = i /\ op'.next = next
    BY <2>4, <2>5, <2>6, NewOperation DEF Op
  <2>. QED
    BY <2>2, <2>4, <2>7, ConfigFields DEF Connections
<1>7. ASSUME Delete
      PROVE  Asked
  <2>1. PICK i \in Ids :
           op' = Op("persist", i, [config EXCEPT !.conn[i] = None, !.on = @ \ {i}], FALSE,
                    ready[i] # None)
    BY <1>7 DEF Delete, Starts
  <2>2. config \in Configs /\ config.on \ {i} \in SUBSET Ids
    BY <1>7, <1>1, ConfigFields DEF Delete, Free
  <2> DEFINE next == [config EXCEPT !.conn[i] = None, !.on = config.on \ {i}]
  <2>3. next \in Configs /\ next.conn = [config.conn EXCEPT ![i] = None]
    BY <2>2 DEF Configs, Connections
  <2>4. op' = Op("persist", i, next, FALSE, ready[i] # None)
    BY <2>1
  <2> HIDE DEF next
  <2>6. op' \in Operations
    BY <2>3, <2>4, NewOperation
  <2>7. op'.pc = "persist" /\ op'.id = i /\ op'.next = next
    BY <2>4 DEF Op
  <2>5. op' # None /\ op'.pc = "persist" /\ op'.id = i /\ op'.next = next
    BY <2>6, <2>7, OperationFields
  <2>. QED
    BY <2>2, <2>3, <2>5, ConfigFields DEF Connections
<1>8. FilesTyped
  BY DEF IInv, TypeOK, MemoryTyped
<1>9. Asked
  BY <1>3, <1>4, <1>5, <1>6, <1>7
<1> HIDE DEF Asked
<1>10. config # None /\ op = None /\ UNCHANGED <<disk, memory, setting, job, pass,
                                                 damage, reports, owing, raced, accepted>>
  BY DEF Stage, Discard, Activate, Edit, Delete, RequestFrame, Free, history
<1>. QED
  BY <1>8, <1>9, <1>10, Directories DEF Asked, disk, memory, reports

\* Its backend is prepared, or the request ends.
LEMMA PrepareEffect ==
  ASSUME IInv, Prepare
  PROVE  /\ op # None /\ op.pc = "prepare"
         /\ \/ op' = None
            \/ op' # None /\ op'.pc = "persist" /\ op'.id = op.id /\ op'.next = op.next
         /\ Reach' = Reach /\ Now' = Now
         /\ UNCHANGED <<index, config, entries, ready, setting, pass, damage, warned,
                        lost, cut, owing, raced, accepted, job>>
<1>1. FilesTyped /\ op \in Operations
  BY DEF IInv, TypeOK, MemoryTyped, Prepare
<1>2. LET o == [op EXCEPT !.pc = "persist"] IN
      o # None /\ o.pc = "persist" /\ o.id = op.id /\ o.next = op.next
  BY <1>1, ConfigurationAssumption DEF Operations
<1>. QED
  BY <1>1, <1>2, Directories DEF Prepare, disk, memory, bounds, history, reports

\* The old connections are on disk before the publication begins.
LEMMA PersistEffect ==
  ASSUME IInv, Persist
  PROVE  /\ op # None /\ op.pc = "persist" /\ config # None
         /\ \/ /\ job = None /\ job' # None /\ job'.at = "rotate" /\ job'.by = "storage"
               /\ job'.refresh = TRUE /\ job'.next.conn = op.next.conn
               /\ job'.next.initial = config.initial
               /\ op' # None /\ op'.pc = "publishing" /\ op'.id = op.id /\ op'.next = op.next
               /\ Conned(entries) \subseteq Conned(entries')
               /\ Live(config) \subseteq Live(job'.next) \cup Conned(entries')
               /\ \/ Conned(index') = Conned(entries')
                  \/ index' = index /\ Conned(entries') = Conned(entries)
            \/ /\ op' = None /\ job' = job /\ entries' = entries
               /\ index' = index \/ Conned(entries) \subseteq Conned(index')
         /\ Reach' = Reach /\ Now' = Now
         /\ UNCHANGED <<config, ready, setting, pass, damage, warned, lost, cut,
                        owing, raced, accepted>>
<1> DEFINE next == Merged(config, op.next)
           es == Remembered(config, next)
<1>1. FilesTyped /\ op \in Operations /\ config \in Configs /\ entries \subseteq Entries
  BY DEF IInv, TypeOK, MemoryTyped, FilesTyped, Persist, Requests
<1>2. /\ next \in Configs /\ next.conn = op.next.conn /\ next.initial = config.initial
  <2>1. op.next \in Configs
    BY <1>1, OperationFields
  <2>. QED
    BY <1>1, <2>1, MergedFields
<1>3. /\ es \in SUBSET Entries /\ Conned(entries) \subseteq Conned(es)
      /\ Live(config) \subseteq Live(next) \cup Conned(es)
  BY <1>1, <1>2, RememberedKeeps
<1>4. /\ Conned(Plain(es)) = Conned(es) /\ Conned(Bound(es, config)) = Conned(es)
  BY <1>3, Saved, BoundKeeps
<1>5. LET j == Job("storage", next, TRUE) IN
      j # None /\ j.at = "rotate" /\ j.by = "storage" /\ j.next = next /\ j.refresh = TRUE
  BY <1>2, NewJob
<1>6. LET o == [op EXCEPT !.pc = "publishing"] IN
      o # None /\ o.pc = "publishing" /\ o.id = op.id /\ o.next = op.next
  BY <1>1, ConfigurationAssumption DEF Operations
<1>7. op # None /\ op.pc = "persist" /\ config # None /\ Reach' = Reach /\ Now' = Now
  BY <1>1, ConfigFields, Directories DEF Persist
<1>8. UNCHANGED <<config, ready, setting, pass, damage, warned, lost, cut, owing,
                  raced, accepted>>
  BY DEF Persist, history, reports
<1> HIDE DEF next, es
<1>9. CASE /\ job = None /\ (IF es = entries THEN UNCHANGED index ELSE SaveIndex(es))
           /\ entries' = Bound(es, config) /\ job' = Job("storage", next, TRUE)
           /\ op' = [op EXCEPT !.pc = "publishing"]
  <2>1. Conned(entries') = Conned(es)
    BY <1>4, <1>9 DEF Conned
  <2>2. CASE es = entries
    <3>1. index' = index /\ Conned(entries') = Conned(entries)
      BY <1>9, <2>1, <2>2
    <3>. QED
      BY <1>2, <1>3, <1>5, <1>6, <1>7, <1>8, <1>9, <2>1, <3>1
  <2>3. CASE es # entries
    <3>1. Conned(index') = Conned(entries')
      BY <1>4, <1>9, <2>1, <2>3 DEF SaveIndex, Conned
    <3>. QED
      BY <1>2, <1>3, <1>5, <1>6, <1>7, <1>8, <1>9, <2>1, <3>1
  <2>. QED
    BY <2>2, <2>3
<1>10. CASE op' = None /\ UNCHANGED <<entries,
                                      job>> /\ (UNCHANGED index \/ SaveIndex(es))
  <2>1. CASE UNCHANGED index
    BY <1>7, <1>8, <1>10, <2>1
  <2>2. CASE SaveIndex(es)
    <3>1. Conned(index') = Conned(es)
      BY <1>4, <2>2 DEF SaveIndex, Conned
    <3>. QED
      BY <1>3, <1>7, <1>8, <1>10, <3>1
  <2>. QED
    BY <1>10, <2>1, <2>2
<1>. QED
  BY <1>9, <1>10 DEF Persist, next, es

\* Users reach the connection that the configuration names.
LEMMA InstallEffect ==
  ASSUME IInv, Install
  PROVE  /\ op # None /\ op.pc = "install" /\ op' = None /\ config # None
         /\ \A i \in Ids : ready'[i] \in {None, config.conn[i]}
         /\ \E cs \in SUBSET Live(config) : owing' = owing \cup cs
         /\ Reach' = Reach /\ Now' = Now
         /\ UNCHANGED <<index, config, entries, setting, damage, warned, lost, cut,
                        raced, accepted, job>>
<1>1. FilesTyped /\ op \in Operations /\ config \in Configs /\ ready \in Connections
  BY DEF IInv, TypeOK, MemoryTyped, Install, Requests
<1>2. /\ config # None /\ op # None /\ op.pc = "install" /\ op.id \in Ids \cup {None}
      /\ config.on \subseteq Ids /\ op' = None
  <2>1. op.id \in Ids \cup {None}
    BY <1>1, OperationFields
  <2>2. config.on \subseteq Ids /\ config # None
    BY <1>1, ConfigFields
  <2>. QED
    BY <2>1, <2>2 DEF Install
<1>3. \A i \in Ids : ready[i] \in {None, config.conn[i]} \/ op.id = i
  BY <1>2 DEF IInv, Served
<1>4. \A i \in Ids : Installed[i] \in {None, config.conn[i]}
  BY <1>1, <1>2, <1>3, ConfigurationAssumption DEF Installed, Connections
<1>5. {Installed[i] : i \in config.on} \ {None} \in SUBSET Live(config)
  BY <1>2, <1>4 DEF Live
<1>. QED
  BY <1>1, <1>2, <1>4, <1>5, Directories DEF Install, disk, bounds, reports

\* A pass that begins, recovers or gives up changes no file.
LEMMA PassEffect ==
  ASSUME IInv, PassBegin \/ PassRecovers \/ PassGivesUp
  PROVE  /\ config # None
         /\ Reach' = Reach /\ Now' = Now
         /\ UNCHANGED <<index, config, entries, ready, op, setting, damage, warned,
                        lost, cut, owing, raced, accepted, job>>
<1>1. FilesTyped /\ config # None
  BY DEF IInv, TypeOK, MemoryTyped, PassBegin, PassRecovers, PassGivesUp, Requests
<1>. QED
  BY <1>1, Directories DEF PassBegin, PassRecovers, PassGivesUp, disk, memory, bounds,
     history, reports

\* A pass ends its entry, in memory and on disk or on disk alone.
LEMMA FinishEffect ==
  ASSUME IInv, PassFinish
  PROVE  /\ config # None
         /\ \E c \in Conns :
            /\ \/ /\ Conned(index') = Conned(entries')
                  /\ Conned(entries) \subseteq Conned(entries') \cup {c}
                  /\ \/ raced' = raced \cup {c}
                     \/ /\ raced' = raced
                        /\ \/ pass.quiet
                           \/ c \in Live(config) /\ (job # None => c \in Live(job.next))
               \/ index' = index /\ entries' = entries /\ raced' = raced
               \/ /\ entries' = entries /\ raced' = raced \cup {c}
                  /\ Conned(entries) \subseteq Conned(index') \cup {c}
            /\ owing' = IF pass.quiet THEN owing \ {c} ELSE owing
         /\ Reach' = Reach /\ Now' = Now
         /\ UNCHANGED <<config, ready, op, setting, damage, warned, lost, cut,
                        accepted, job>>
<1> DEFINE c == pass.entry.conn
<1>1. FilesTyped /\ pass \in Visits /\ config # None /\ entries \subseteq Entries
  BY DEF IInv, TypeOK, MemoryTyped, FilesTyped, PassFinish, Requests
<1>2. c \in Conns
  BY <1>1, VisitFields, EntryFields
<1>3. /\ Conned(entries) \subseteq Conned(Finished) \cup {c}
      /\ Conned(Plain(Finished)) = Conned(Finished)
  BY <1>1, FinishedKeeps, Saved
<1>4. /\ Reach' = Reach /\ Now' = Now
      /\ UNCHANGED <<config, ready, op, setting, damage, warned, lost, cut, accepted,
                     job>>
  BY <1>1, Directories DEF PassFinish, reports
<1>5. owing' = IF pass.quiet THEN owing \ {c} ELSE owing
  BY DEF PassFinish
<1>6. SaveIndex(Finished) => Conned(index') = Conned(Finished)
  BY <1>3 DEF SaveIndex, Conned
<1>7. CASE /\ SaveIndex(Finished) /\ entries' = Finished
           /\ raced' = IF \/ pass.quiet
                          \/ c \in Live(config) \cap Live(IF job = None THEN config ELSE job.next)
                       THEN raced ELSE raced \cup {c}
  <2>1. Conned(entries') = Conned(Finished)
    BY <1>7 DEF Conned
  <2>. QED
    BY <1>1, <1>2, <1>3, <1>4, <1>5, <1>6, <1>7, <2>1
<1>8. CASE UNCHANGED <<index, entries, raced>>
  BY <1>1, <1>2, <1>4, <1>5, <1>8
<1>9. CASE SaveIndex(Finished) /\ UNCHANGED entries /\ raced' = raced \cup {c}
  BY <1>1, <1>2, <1>3, <1>4, <1>5, <1>6, <1>9
<1>. QED
  BY <1>7, <1>8, <1>9 DEF PassFinish

\* One of the directories survives, perhaps without a readable primary.
LEMMA CrashEffect ==
  ASSUME IInv, Crash
  PROVE  /\ \E g \in Reach :
            \/ Reach' = {g} /\ Now' = g /\ damage' = damage
            \/ /\ job = None /\ ~ cut /\ g.backup # None /\ damage' = damage + 1
               /\ \E f \in Files : /\ Reach' = {f} /\ Now' = f /\ f.main = None
                                   /\ f.backup = g.backup /\ f.creds = g.creds
         /\ ~ warned' /\ lost' = (lost \/ warned) /\ cut' = (cut \/ job # None)
         /\ config' = None /\ entries' = {} /\ op' = None /\ setting' = None
         /\ job' = None /\ pass' = None
         /\ UNCHANGED <<index, owing, raced, accepted>>
<1>1. FilesTyped
  BY DEF IInv, TypeOK, MemoryTyped
<1>2. PICK k \in DOMAIN dir :
         \/ Synced(dir[k]) /\ damage' = damage
         \/ /\ job = None /\ ~ cut /\ dir[k].backup # None /\ damage' = damage + 1
            /\ Synced([dir[k] EXCEPT !.main = None])
  BY DEF Crash, Synced
<1>3. dir[k] \in Reach /\ dir[k] \in Files
  BY <1>1, Directories
<1>4. LET f == [dir[k] EXCEPT !.main = None] IN
      f \in Files /\ f.main = None /\ f.backup = dir[k].backup /\ f.creds = dir[k].creds
  BY <1>3, FileFields
<1>5. /\ ~ warned' /\ lost' = (lost \/ warned) /\ cut' = (cut \/ job # None)
      /\ config' = None /\ entries' = {} /\ op' = None /\ setting' = None
      /\ job' = None /\ pass' = None
      /\ UNCHANGED <<index, owing, raced, accepted>>
  BY DEF Crash, history
<1>6. CASE Synced(dir[k]) /\ damage' = damage
  BY <1>1, <1>3, <1>5, <1>6, Directories
<1>7. CASE /\ job = None /\ ~ cut /\ dir[k].backup # None /\ damage' = damage + 1
           /\ Synced([dir[k] EXCEPT !.main = None])
  BY <1>1, <1>3, <1>4, <1>5, <1>7, Directories
<1>. QED
  BY <1>2, <1>6, <1>7

\* The first start writes the initial credentials.
LEMMA FirstStartEffect ==
  ASSUME IInv, FirstStart
  PROVE  /\ config = None /\ Now.main = None /\ Now.backup = None
         /\ \E f \in Files : /\ Reach' = {f} /\ Now' = f /\ f.main = None
                             /\ f.backup = None /\ f.creds = TRUE
         /\ UNCHANGED <<index, config, entries, ready, op, setting, pass, damage,
                        warned, lost, cut, owing, raced, accepted, job>>
<1>1. FilesTyped
  BY DEF IInv, TypeOK, MemoryTyped
<1>2. Now \in Files
  BY <1>1, Directories
<1>3. LET f == [Now EXCEPT !.creds = TRUE] IN
      f \in Files /\ f.main = Now.main /\ f.backup = Now.backup /\ f.creds = TRUE
  BY <1>2, FileFields
<1>. QED
  BY <1>1, <1>3, Directories DEF FirstStart, memory, bounds, history, reports

\* A start loads the primary, else the backup, else a new configuration.
LEMMA StartEffect ==
  ASSUME IInv, Start
  PROVE  /\ config = None /\ config' # None /\ entries' = index
         /\ \/ Now.main # None /\ config' = Now.main /\ Reach' = Reach /\ Now' = Now
            \/ /\ Now.main = None
               /\ \E f \in Files : /\ Reach' = {f} /\ Now' = f /\ f.main = config'
                                   /\ f.backup = Now.backup /\ f.creds = Now.creds
               /\ \/ Now.backup # None /\ config' = Now.backup
                  \/ Now.backup = None /\ Now.creds
         /\ \A i \in Ids : ready'[i] \in {None, config'.conn[i]}
         /\ \E cs \in SUBSET Live(config') : owing' = owing \cup cs
         /\ UNCHANGED <<index, op, setting, pass, damage, warned, lost, cut, raced,
                        accepted, job>>
<1>1. FilesTyped
  BY DEF IInv, TypeOK, MemoryTyped
<1>2. Now \in Files
  BY <1>1, Directories
<1>3. Loaded \in Configs /\ Loaded # None
  BY <1>2, FileFields, NewConfigFields, ConfigFields DEF Start, Loaded
<1>4. LET f == [Now EXCEPT !.main = Loaded] IN
      f \in Files /\ f.main = Loaded /\ f.backup = Now.backup /\ f.creds = Now.creds
  BY <1>2, <1>3, FileFields
<1>5. PICK up \in SUBSET Loaded.on :
         ready' = Starting(up) /\ owing' = owing \cup Serving(Starting(up))
  BY DEF Start
<1>6. \A i \in Ids : Starting(up)[i] \in {None, Loaded.conn[i]}
  BY DEF Starting
<1>7. Serving(Starting(up)) \in SUBSET Live(Loaded)
  BY <1>6 DEF Serving, Live
<1>8. config = None /\ config' = Loaded /\ entries' = index
      /\ UNCHANGED <<index, op, setting, pass, damage, warned, lost, cut, raced,
                     accepted, job>>
  BY DEF Start, bounds, reports
<1>9. /\ \A i \in Ids : ready'[i] \in {None, config'.conn[i]}
      /\ \E cs \in SUBSET Live(config') : owing' = owing \cup cs
  BY <1>5, <1>6, <1>7, <1>8
<1>10. CASE Now.main # None
  BY <1>1, <1>3, <1>8, <1>9, <1>10, Directories DEF Start, Loaded
<1>11. CASE Now.main = None
  <2>1. \E f \in Files : /\ Reach' = {f} /\ Now' = f /\ f.main = config'
                         /\ f.backup = Now.backup /\ f.creds = Now.creds
    BY <1>1, <1>4, <1>8, <1>11, Directories DEF Start
  <2>2. \/ Now.backup # None /\ config' = Now.backup
        \/ Now.backup = None /\ Now.creds
    BY <1>8, <1>11 DEF Start, Loaded
  <2>. QED
    BY <1>3, <1>8, <1>9, <1>11, <2>1, <2>2
<1>. QED
  BY <1>10, <1>11

\* A stuttering step.
LEMMA NothingEffect ==
  ASSUME IInv, UNCHANGED vars
  PROVE  /\ Reach' = Reach /\ Now' = Now
         /\ UNCHANGED <<index, config, entries, ready, op, setting, pass, damage,
                        warned, lost, cut, owing, raced, accepted, job>>
<1>1. FilesTyped
  BY DEF IInv, TypeOK, MemoryTyped
<1>. QED
  BY <1>1, Directories DEF vars, disk, memory, bounds, history, reports


-----------------------------------------------------------------------------
(* The parts of the invariant, one step per action or group of actions.    *)

\* Requests are made of a running server, and one waits for the job it started.
LEMMA RequestsStep ==
  ASSUME IInv, [Next]_vars
  PROVE  Requests'
<1>0. Requests
  BY DEF IInv
<1>1. ASSUME Rotate
      PROVE  Requests'
  BY <1>0, <1>1, RotateEffect DEF Requests
<1>2. ASSUME Rename
      PROVE  Requests'
  BY <1>0, <1>2, RenameEffect DEF Requests
<1>3. ASSUME Sync
      PROVE  Requests'
  BY <1>0, <1>3, SyncEffect DEF Requests
<1>4. ASSUME RefreshBackup
      PROVE  Requests'
  BY <1>0, <1>4, RefreshEffect DEF Requests
<1>5. ASSUME Published
      PROVE  Requests'
  BY <1>0, <1>5, PublishedEffect DEF Requests
<1>6. ASSUME Refused
      PROVE  Requests'
  BY <1>0, <1>6, RefusedEffect DEF Requests
<1>7. ASSUME ChangePasswords \/ AddReference \/ DropReference
      PROVE  Requests'
  BY <1>0, <1>7, SettingAsked DEF Requests
<1>8. ASSUME UpdateConfig
      PROVE  Requests'
  BY <1>0, <1>8, UpdateEffect DEF Requests
<1>9. ASSUME Answer
      PROVE  Requests'
  BY <1>0, <1>9, AnswerEffect DEF Requests
<1>10. ASSUME Stage \/ Discard \/ Activate \/ Edit \/ Delete
      PROVE  Requests'
  BY <1>0, <1>10, StorageAsked DEF Requests
<1>11. ASSUME Prepare
      PROVE  Requests'
  BY <1>0, <1>11, PrepareEffect DEF Requests
<1>12. ASSUME Persist
      PROVE  Requests'
  BY <1>0, <1>12, PersistEffect DEF Requests
<1>13. ASSUME Install
      PROVE  Requests'
  BY <1>0, <1>13, InstallEffect DEF Requests
<1>14. ASSUME PassBegin \/ PassRecovers \/ PassGivesUp
      PROVE  Requests'
  BY <1>0, <1>14, PassEffect DEF Requests
<1>15. ASSUME PassFinish
      PROVE  Requests'
  BY <1>0, <1>15, FinishEffect DEF Requests
<1>16. ASSUME Crash
      PROVE  Requests'
  BY <1>0, <1>16, CrashEffect DEF Requests
<1>17. ASSUME FirstStart
      PROVE  Requests'
  BY <1>0, <1>17, FirstStartEffect DEF Requests
<1>18. ASSUME Start
      PROVE  Requests'
  BY <1>0, <1>18, StartEffect DEF Requests
<1>19. ASSUME UNCHANGED vars
      PROVE  Requests'
  BY <1>0, <1>19, NothingEffect DEF Requests
<1>. QED
  BY <1>1, <1>2, <1>3, <1>4, <1>5, <1>6, <1>7, <1>8, <1>9, <1>10, <1>11, <1>12, <1>13,
     <1>14, <1>15, <1>16, <1>17, <1>18, <1>19, Zenon DEF Next

\* Every directory but that of a first start has a primary or a backup.
LEMMA MainsStep ==
  ASSUME IInv, [Next]_vars
  PROVE  Mains'
<1>0. Mains /\ Requests
  BY DEF IInv
<1>now. Now \in Reach /\ damage \in Nat
  BY Directories DEF IInv, TypeOK, FilesTyped, BoundsTyped
<1>1. ASSUME Rotate
      PROVE  Mains'
  BY <1>0, <1>1, RotateEffect, <1>now DEF Mains, Requests
<1>2. ASSUME Rename
      PROVE  Mains'
  <2>1. job.next # None
    BY RenameEffect, <1>2, JobFields, ConfigFields DEF IInv, TypeOK, MemoryTyped
  <2>. QED
    BY <1>0, <1>2, <2>1, RenameEffect, <1>now DEF Mains, Requests
<1>3. ASSUME Sync
      PROVE  Mains'
  BY <1>0, <1>3, SyncEffect, <1>now DEF Mains, Requests
<1>4. ASSUME RefreshBackup
      PROVE  Mains'
  BY <1>0, <1>4, RefreshEffect, <1>now DEF Mains, Requests
<1>5. ASSUME Published
      PROVE  Mains'
  BY <1>0, <1>5, PublishedEffect, <1>now DEF Mains, Requests
<1>6. ASSUME Refused
      PROVE  Mains'
  BY <1>0, <1>6, RefusedEffect, <1>now DEF Mains, Requests
<1>7. ASSUME ChangePasswords \/ AddReference \/ DropReference
      PROVE  Mains'
  BY <1>0, <1>7, SettingAsked, <1>now DEF Mains, Requests
<1>8. ASSUME UpdateConfig
      PROVE  Mains'
  BY <1>0, <1>8, UpdateEffect, <1>now DEF Mains, Requests
<1>9. ASSUME Answer
      PROVE  Mains'
  BY <1>0, <1>9, AnswerEffect, <1>now DEF Mains, Requests
<1>10. ASSUME Stage \/ Discard \/ Activate \/ Edit \/ Delete
      PROVE  Mains'
  BY <1>0, <1>10, StorageAsked, <1>now DEF Mains, Requests
<1>11. ASSUME Prepare
      PROVE  Mains'
  BY <1>0, <1>11, PrepareEffect, <1>now DEF Mains, Requests
<1>12. ASSUME Persist
      PROVE  Mains'
  BY <1>0, <1>12, PersistEffect, <1>now DEF Mains, Requests
<1>13. ASSUME Install
      PROVE  Mains'
  BY <1>0, <1>13, InstallEffect, <1>now DEF Mains, Requests
<1>14. ASSUME PassBegin \/ PassRecovers \/ PassGivesUp
      PROVE  Mains'
  BY <1>0, <1>14, PassEffect, <1>now DEF Mains, Requests
<1>15. ASSUME PassFinish
      PROVE  Mains'
  BY <1>0, <1>15, FinishEffect, <1>now DEF Mains, Requests
<1>16. ASSUME Crash
      PROVE  Mains'
  BY <1>0, <1>16, CrashEffect, <1>now DEF Mains, Requests
<1>17. ASSUME FirstStart
      PROVE  Mains'
  BY <1>0, <1>17, FirstStartEffect, <1>now DEF Mains, Requests
<1>18. ASSUME Start
      PROVE  Mains'
  BY <1>0, <1>18, StartEffect, <1>now DEF Mains, Requests
<1>19. ASSUME UNCHANGED vars
      PROVE  Mains'
  BY <1>0, <1>19, NothingEffect, <1>now DEF Mains, Requests
<1>. QED
  BY <1>1, <1>2, <1>3, <1>4, <1>5, <1>6, <1>7, <1>8, <1>9, <1>10, <1>11, <1>12, <1>13,
     <1>14, <1>15, <1>16, <1>17, <1>18, <1>19, Zenon DEF Next

\* The primary follows the job.
LEMMA DirectoryStep ==
  ASSUME IInv, [Next]_vars
  PROVE  Directory'
<1>0. Directory /\ Requests /\ Mains
  BY DEF IInv
<1>1. ASSUME Rotate
      PROVE  Directory'
  BY <1>0, <1>1, RotateEffect DEF Directory, Requests, Mains, Shown
<1>2. ASSUME Rename
      PROVE  Directory'
  BY <1>0, <1>2, RenameEffect DEF Directory, Requests, Mains, Shown
<1>3. ASSUME Sync
      PROVE  Directory'
  BY <1>0, <1>3, SyncEffect DEF Directory, Requests, Mains, Shown
<1>4. ASSUME RefreshBackup
      PROVE  Directory'
  BY <1>0, <1>4, RefreshEffect DEF Directory, Requests, Mains, Shown
<1>5. ASSUME Published
      PROVE  Directory'
  BY <1>0, <1>5, PublishedEffect DEF Directory, Requests, Mains, Shown
<1>6. ASSUME Refused
      PROVE  Directory'
  BY <1>0, <1>6, RefusedEffect DEF Directory, Requests, Mains, Shown
<1>7. ASSUME ChangePasswords \/ AddReference \/ DropReference
      PROVE  Directory'
  BY <1>0, <1>7, SettingAsked DEF Directory, Requests, Mains, Shown
<1>8. ASSUME UpdateConfig
      PROVE  Directory'
  BY <1>0, <1>8, UpdateEffect DEF Directory, Requests, Mains, Shown
<1>9. ASSUME Answer
      PROVE  Directory'
  BY <1>0, <1>9, AnswerEffect DEF Directory, Requests, Mains, Shown
<1>10. ASSUME Stage \/ Discard \/ Activate \/ Edit \/ Delete
      PROVE  Directory'
  BY <1>0, <1>10, StorageAsked DEF Directory, Requests, Mains, Shown
<1>11. ASSUME Prepare
      PROVE  Directory'
  BY <1>0, <1>11, PrepareEffect DEF Directory, Requests, Mains, Shown
<1>12. ASSUME Persist
      PROVE  Directory'
  BY <1>0, <1>12, PersistEffect DEF Directory, Requests, Mains, Shown
<1>13. ASSUME Install
      PROVE  Directory'
  BY <1>0, <1>13, InstallEffect DEF Directory, Requests, Mains, Shown
<1>14. ASSUME PassBegin \/ PassRecovers \/ PassGivesUp
      PROVE  Directory'
  BY <1>0, <1>14, PassEffect DEF Directory, Requests, Mains, Shown
<1>15. ASSUME PassFinish
      PROVE  Directory'
  BY <1>0, <1>15, FinishEffect DEF Directory, Requests, Mains, Shown
<1>16. ASSUME Crash
      PROVE  Directory'
  BY <1>0, <1>16, CrashEffect DEF Directory, Requests, Mains, Shown
<1>17. ASSUME FirstStart
      PROVE  Directory'
  BY <1>0, <1>17, FirstStartEffect DEF Directory, Requests, Mains, Shown
<1>18. ASSUME Start
      PROVE  Directory'
  BY <1>0, <1>18, StartEffect DEF Directory, Requests, Mains, Shown
<1>19. ASSUME UNCHANGED vars
      PROVE  Directory'
  BY <1>0, <1>19, NothingEffect DEF Directory, Requests, Mains, Shown
<1>. QED
  BY <1>1, <1>2, <1>3, <1>4, <1>5, <1>6, <1>7, <1>8, <1>9, <1>10, <1>11, <1>12, <1>13,
     <1>14, <1>15, <1>16, <1>17, <1>18, <1>19, Zenon DEF Next

\* The backup follows storage changes.
LEMMA BackupsStep ==
  ASSUME IInv, [Next]_vars
  PROVE  Backups'
<1>0. Backups /\ Requests /\ Directory /\ Mains /\ Publication
  BY DEF IInv
<1>now. Now \in Reach /\ damage \in Nat
  BY Directories DEF IInv, TypeOK, FilesTyped, BoundsTyped
<1>1. ASSUME Rotate
      PROVE  Backups'
  BY <1>0, <1>1, RotateEffect, <1>now DEF Backups, Requests, Directory, Mains,
     Publication, Shown, BackedBy
<1>2. ASSUME Rename
      PROVE  Backups'
  BY <1>0, <1>2, RenameEffect, <1>now DEF Backups, Requests, Directory, Mains,
     Publication, Shown, BackedBy
<1>3. ASSUME Sync
      PROVE  Backups'
  BY <1>0, <1>3, SyncEffect, <1>now DEF Backups, Requests, Directory, Mains,
     Publication, Shown, BackedBy
<1>4. ASSUME RefreshBackup
      PROVE  Backups'
  BY <1>0, <1>4, RefreshEffect, <1>now DEF Backups, Requests, Directory, Mains,
     Publication, Shown, BackedBy
<1>5. ASSUME Published
      PROVE  Backups'
  BY <1>0, <1>5, PublishedEffect, <1>now DEF Backups, Requests, Directory, Mains,
     Publication, Shown, BackedBy
<1>6. ASSUME Refused
      PROVE  Backups'
  BY <1>0, <1>6, RefusedEffect, <1>now DEF Backups, Requests, Directory, Mains,
     Publication, Shown, BackedBy
<1>7. ASSUME ChangePasswords \/ AddReference \/ DropReference
      PROVE  Backups'
  BY <1>0, <1>7, SettingAsked, <1>now DEF Backups, Requests, Directory, Mains,
     Publication, Shown, BackedBy
<1>8. ASSUME UpdateConfig
      PROVE  Backups'
  BY <1>0, <1>8, UpdateEffect, <1>now DEF Backups, Requests, Directory, Mains,
     Publication, Shown, BackedBy
<1>9. ASSUME Answer
      PROVE  Backups'
  <2>1. /\ \A g \in Reach' : \E h \in Reach : g.backup = h.backup
        /\ Now'.backup = Now.backup /\ Now'.main = Now.main
    BY <1>9, <1>now, AnswerEffect
  <2>2. UNCHANGED <<config, job, warned, lost, cut>>
    BY <1>9, AnswerEffect
  <2>3. \A m : BackedBy(m) => \A g \in Reach' : g.backup # None => g.backup.conn = m.conn
    BY <2>1 DEF BackedBy
  <2>. QED
    BY <1>0, <2>1, <2>2, <2>3 DEF Backups, BackedBy
<1>10. ASSUME Stage \/ Discard \/ Activate \/ Edit \/ Delete
      PROVE  Backups'
  BY <1>0, <1>10, StorageAsked, <1>now DEF Backups, Requests, Directory, Mains,
     Publication, Shown, BackedBy
<1>11. ASSUME Prepare
      PROVE  Backups'
  BY <1>0, <1>11, PrepareEffect, <1>now DEF Backups, Requests, Directory, Mains,
     Publication, Shown, BackedBy
<1>12. ASSUME Persist
      PROVE  Backups'
  BY <1>0, <1>12, PersistEffect, <1>now DEF Backups, Requests, Directory, Mains,
     Publication, Shown, BackedBy
<1>13. ASSUME Install
      PROVE  Backups'
  BY <1>0, <1>13, InstallEffect, <1>now DEF Backups, Requests, Directory, Mains,
     Publication, Shown, BackedBy
<1>14. ASSUME PassBegin \/ PassRecovers \/ PassGivesUp
      PROVE  Backups'
  BY <1>0, <1>14, PassEffect, <1>now DEF Backups, Requests, Directory, Mains,
     Publication, Shown, BackedBy
<1>15. ASSUME PassFinish
      PROVE  Backups'
  BY <1>0, <1>15, FinishEffect, <1>now DEF Backups, Requests, Directory, Mains,
     Publication, Shown, BackedBy
<1>16. ASSUME Crash
      PROVE  Backups'
  BY <1>0, <1>16, CrashEffect, <1>now DEF Backups, Requests, Directory, Mains,
     Publication, Shown, BackedBy
<1>17. ASSUME FirstStart
      PROVE  Backups'
  BY <1>0, <1>17, FirstStartEffect, <1>now DEF Backups, Requests, Directory, Mains,
     Publication, Shown, BackedBy
<1>18. ASSUME Start
      PROVE  Backups'
  BY <1>0, <1>18, StartEffect, <1>now DEF Backups, Requests, Directory, Mains,
     Publication, Shown, BackedBy
<1>19. ASSUME UNCHANGED vars
      PROVE  Backups'
  BY <1>0, <1>19, NothingEffect, <1>now DEF Backups, Requests, Directory, Mains,
     Publication, Shown, BackedBy
<1>. QED
  BY <1>1, <1>2, <1>3, <1>4, <1>5, <1>6, <1>7, <1>8, <1>9, <1>10, <1>11, <1>12, <1>13,
     <1>14, <1>15, <1>16, <1>17, <1>18, <1>19, Zenon DEF Next

\* A job changes what its request asked for.
LEMMA PublicationStep ==
  ASSUME IInv, [Next]_vars
  PROVE  Publication'
<1>0. Publication /\ Requests
  BY DEF IInv
<1>1. ASSUME Rotate
      PROVE  Publication'
  BY <1>0, <1>1, RotateEffect DEF Publication, Requests
<1>2. ASSUME Rename
      PROVE  Publication'
  BY <1>0, <1>2, RenameEffect DEF Publication, Requests
<1>3. ASSUME Sync
      PROVE  Publication'
  BY <1>0, <1>3, SyncEffect DEF Publication, Requests
<1>4. ASSUME RefreshBackup
      PROVE  Publication'
  BY <1>0, <1>4, RefreshEffect DEF Publication, Requests
<1>5. ASSUME Published
      PROVE  Publication'
  BY <1>0, <1>5, PublishedEffect DEF Publication, Requests
<1>6. ASSUME Refused
      PROVE  Publication'
  BY <1>0, <1>6, RefusedEffect DEF Publication, Requests
<1>7. ASSUME ChangePasswords \/ AddReference \/ DropReference
      PROVE  Publication'
  BY <1>0, <1>7, SettingAsked DEF Publication, Requests
<1>8. ASSUME UpdateConfig
      PROVE  Publication'
  BY <1>0, <1>8, UpdateEffect DEF Publication, Requests
<1>9. ASSUME Answer
      PROVE  Publication'
  BY <1>0, <1>9, AnswerEffect DEF Publication, Requests
<1>10. ASSUME Stage \/ Discard \/ Activate \/ Edit \/ Delete
      PROVE  Publication'
  BY <1>0, <1>10, StorageAsked DEF Publication, Requests
<1>11. ASSUME Prepare
      PROVE  Publication'
  BY <1>0, <1>11, PrepareEffect DEF Publication, Requests
<1>12. ASSUME Persist
      PROVE  Publication'
  BY <1>0, <1>12, PersistEffect DEF Publication, Requests
<1>13. ASSUME Install
      PROVE  Publication'
  BY <1>0, <1>13, InstallEffect DEF Publication, Requests
<1>14. ASSUME PassBegin \/ PassRecovers \/ PassGivesUp
      PROVE  Publication'
  BY <1>0, <1>14, PassEffect DEF Publication, Requests
<1>15. ASSUME PassFinish
      PROVE  Publication'
  BY <1>0, <1>15, FinishEffect DEF Publication, Requests
<1>16. ASSUME Crash
      PROVE  Publication'
  BY <1>0, <1>16, CrashEffect DEF Publication, Requests
<1>17. ASSUME FirstStart
      PROVE  Publication'
  BY <1>0, <1>17, FirstStartEffect DEF Publication, Requests
<1>18. ASSUME Start
      PROVE  Publication'
  BY <1>0, <1>18, StartEffect DEF Publication, Requests
<1>19. ASSUME UNCHANGED vars
      PROVE  Publication'
  BY <1>0, <1>19, NothingEffect DEF Publication, Requests
<1>. QED
  BY <1>1, <1>2, <1>3, <1>4, <1>5, <1>6, <1>7, <1>8, <1>9, <1>10, <1>11, <1>12, <1>13,
     <1>14, <1>15, <1>16, <1>17, <1>18, <1>19, Zenon DEF Next

\* A storage request changes the connection of its own instance.
LEMMA IntentStep ==
  ASSUME IInv, [Next]_vars
  PROVE  Intent'
<1>0. Intent /\ Requests /\ Publication
  BY DEF IInv
<1>1. ASSUME Rotate
      PROVE  Intent'
  BY <1>0, <1>1, RotateEffect DEF Intent, Requests, Publication
<1>2. ASSUME Rename
      PROVE  Intent'
  BY <1>0, <1>2, RenameEffect DEF Intent, Requests, Publication
<1>3. ASSUME Sync
      PROVE  Intent'
  BY <1>0, <1>3, SyncEffect DEF Intent, Requests, Publication
<1>4. ASSUME RefreshBackup
      PROVE  Intent'
  BY <1>0, <1>4, RefreshEffect DEF Intent, Requests, Publication
<1>5. ASSUME Published
      PROVE  Intent'
  BY <1>0, <1>5, PublishedEffect DEF Intent, Requests, Publication
<1>6. ASSUME Refused
      PROVE  Intent'
  BY <1>0, <1>6, RefusedEffect DEF Intent, Requests, Publication
<1>7. ASSUME ChangePasswords \/ AddReference \/ DropReference
      PROVE  Intent'
  BY <1>0, <1>7, SettingAsked DEF Intent, Requests, Publication
<1>8. ASSUME UpdateConfig
      PROVE  Intent'
  BY <1>0, <1>8, UpdateEffect DEF Intent, Requests, Publication
<1>9. ASSUME Answer
      PROVE  Intent'
  BY <1>0, <1>9, AnswerEffect DEF Intent, Requests, Publication
<1>10. ASSUME Stage \/ Discard \/ Activate \/ Edit \/ Delete
      PROVE  Intent'
  BY <1>0, <1>10, StorageAsked DEF Intent, Requests, Publication
<1>11. ASSUME Prepare
      PROVE  Intent'
  BY <1>0, <1>11, PrepareEffect DEF Intent, Requests, Publication
<1>12. ASSUME Persist
      PROVE  Intent'
  BY <1>0, <1>12, PersistEffect DEF Intent, Requests, Publication
<1>13. ASSUME Install
      PROVE  Intent'
  BY <1>0, <1>13, InstallEffect DEF Intent, Requests, Publication
<1>14. ASSUME PassBegin \/ PassRecovers \/ PassGivesUp
      PROVE  Intent'
  BY <1>0, <1>14, PassEffect DEF Intent, Requests, Publication
<1>15. ASSUME PassFinish
      PROVE  Intent'
  BY <1>0, <1>15, FinishEffect DEF Intent, Requests, Publication
<1>16. ASSUME Crash
      PROVE  Intent'
  BY <1>0, <1>16, CrashEffect DEF Intent, Requests, Publication
<1>17. ASSUME FirstStart
      PROVE  Intent'
  BY <1>0, <1>17, FirstStartEffect DEF Intent, Requests, Publication
<1>18. ASSUME Start
      PROVE  Intent'
  BY <1>0, <1>18, StartEffect DEF Intent, Requests, Publication
<1>19. ASSUME UNCHANGED vars
      PROVE  Intent'
  BY <1>0, <1>19, NothingEffect DEF Intent, Requests, Publication
<1>. QED
  BY <1>1, <1>2, <1>3, <1>4, <1>5, <1>6, <1>7, <1>8, <1>9, <1>10, <1>11, <1>12, <1>13,
     <1>14, <1>15, <1>16, <1>17, <1>18, <1>19, Zenon DEF Next

\* Users reach the connection that the configuration names.
LEMMA ServedStep ==
  ASSUME IInv, [Next]_vars
  PROVE  Served'
<1>0. Served /\ Requests /\ Intent /\ Publication
  BY DEF IInv
<1>1. ASSUME Rotate
      PROVE  Served'
  BY <1>0, <1>1, RotateEffect DEF Served, Requests, Intent, Publication
<1>2. ASSUME Rename
      PROVE  Served'
  BY <1>0, <1>2, RenameEffect DEF Served, Requests, Intent, Publication
<1>3. ASSUME Sync
      PROVE  Served'
  BY <1>0, <1>3, SyncEffect DEF Served, Requests, Intent, Publication
<1>4. ASSUME RefreshBackup
      PROVE  Served'
  BY <1>0, <1>4, RefreshEffect DEF Served, Requests, Intent, Publication
<1>5. ASSUME Published
      PROVE  Served'
  BY <1>0, <1>5, PublishedEffect DEF Served, Requests, Intent, Publication
<1>6. ASSUME Refused
      PROVE  Served'
  BY <1>0, <1>6, RefusedEffect DEF Served, Requests, Intent, Publication
<1>7. ASSUME ChangePasswords \/ AddReference \/ DropReference
      PROVE  Served'
  BY <1>0, <1>7, SettingAsked DEF Served, Requests, Intent, Publication
<1>8. ASSUME UpdateConfig
      PROVE  Served'
  BY <1>0, <1>8, UpdateEffect DEF Served, Requests, Intent, Publication
<1>9. ASSUME Answer
      PROVE  Served'
  BY <1>0, <1>9, AnswerEffect DEF Served, Requests, Intent, Publication
<1>10. ASSUME Stage \/ Discard \/ Activate \/ Edit \/ Delete
      PROVE  Served'
  BY <1>0, <1>10, StorageAsked DEF Served, Requests, Intent, Publication
<1>11. ASSUME Prepare
      PROVE  Served'
  BY <1>0, <1>11, PrepareEffect DEF Served, Requests, Intent, Publication
<1>12. ASSUME Persist
      PROVE  Served'
  BY <1>0, <1>12, PersistEffect DEF Served, Requests, Intent, Publication
<1>13. ASSUME Install
      PROVE  Served'
  BY <1>0, <1>13, InstallEffect DEF Served, Requests, Intent, Publication
<1>14. ASSUME PassBegin \/ PassRecovers \/ PassGivesUp
      PROVE  Served'
  BY <1>0, <1>14, PassEffect DEF Served, Requests, Intent, Publication
<1>15. ASSUME PassFinish
      PROVE  Served'
  BY <1>0, <1>15, FinishEffect DEF Served, Requests, Intent, Publication
<1>16. ASSUME Crash
      PROVE  Served'
  BY <1>0, <1>16, CrashEffect DEF Served, Requests, Intent, Publication
<1>17. ASSUME FirstStart
      PROVE  Served'
  BY <1>0, <1>17, FirstStartEffect DEF Served, Requests, Intent, Publication
<1>18. ASSUME Start
      PROVE  Served'
  BY <1>0, <1>18, StartEffect DEF Served, Requests, Intent, Publication
<1>19. ASSUME UNCHANGED vars
      PROVE  Served'
  BY <1>0, <1>19, NothingEffect DEF Served, Requests, Intent, Publication
<1>. QED
  BY <1>1, <1>2, <1>3, <1>4, <1>5, <1>6, <1>7, <1>8, <1>9, <1>10, <1>11, <1>12, <1>13,
     <1>14, <1>15, <1>16, <1>17, <1>18, <1>19, Zenon DEF Next

\* What owes work is configured or has an entry.
LEMMA KeptStep ==
  ASSUME IInv, [Next]_vars
  PROVE  Kept'
<1>0. Kept /\ Requests /\ Directory /\ Mains /\ Backups /\ Publication
  BY DEF IInv
<1>now. Now \in Reach /\ damage \in Nat
  BY Directories DEF IInv, TypeOK, FilesTyped, BoundsTyped
<1>1. ASSUME Rotate
      PROVE  Kept'
  BY <1>0, <1>1, RotateEffect, <1>now DEF Kept, Requests, Directory, Mains, Backups,
     Publication, Shown, BackedBy, Owed
<1>2. ASSUME Rename
      PROVE  Kept'
  BY <1>0, <1>2, RenameEffect, <1>now DEF Kept, Requests, Directory, Mains, Backups,
     Publication, Shown, BackedBy, Owed
<1>3. ASSUME Sync
      PROVE  Kept'
  BY <1>0, <1>3, SyncEffect, <1>now DEF Kept, Requests, Directory, Mains, Backups,
     Publication, Shown, BackedBy, Owed
<1>4. ASSUME RefreshBackup
      PROVE  Kept'
  BY <1>0, <1>4, RefreshEffect, <1>now DEF Kept, Requests, Directory, Mains, Backups,
     Publication, Shown, BackedBy, Owed
<1>5. ASSUME Published
      PROVE  Kept'
  BY <1>0, <1>5, PublishedEffect, <1>now DEF Kept, Requests, Directory, Mains,
     Backups, Publication, Shown, BackedBy, Owed
<1>6. ASSUME Refused
      PROVE  Kept'
  BY <1>0, <1>6, RefusedEffect, <1>now DEF Kept, Requests, Directory, Mains, Backups,
     Publication, Shown, BackedBy, Owed
<1>7. ASSUME ChangePasswords \/ AddReference \/ DropReference
      PROVE  Kept'
  BY <1>0, <1>7, SettingAsked, <1>now DEF Kept, Requests, Directory, Mains, Backups,
     Publication, Shown, BackedBy, Owed
<1>8. ASSUME UpdateConfig
      PROVE  Kept'
  <2>1. CASE job' = job
    BY <1>0, <1>8, <2>1, UpdateEffect DEF Kept, Requests, Directory, Mains, Backups,
       Publication, Shown, BackedBy, Owed
  <2>2. CASE job' # job
    <3>1. Live(job'.next) = Live(config)
      BY <1>8, <2>2, UpdateEffect DEF Live
    <3>. QED
      BY <1>0, <1>8, <2>2, <3>1, UpdateEffect DEF Kept, Requests, Directory, Mains,
         Backups, Publication, Shown, BackedBy, Owed
  <2>. QED
    BY <2>1, <2>2
<1>9. ASSUME Answer
      PROVE  Kept'
  BY <1>0, <1>9, AnswerEffect, <1>now DEF Kept, Requests, Directory, Mains, Backups,
     Publication, Shown, BackedBy, Owed
<1>10. ASSUME Stage \/ Discard \/ Activate \/ Edit \/ Delete
      PROVE  Kept'
  BY <1>0, <1>10, StorageAsked, <1>now DEF Kept, Requests, Directory, Mains, Backups,
     Publication, Shown, BackedBy, Owed
<1>11. ASSUME Prepare
      PROVE  Kept'
  BY <1>0, <1>11, PrepareEffect, <1>now DEF Kept, Requests, Directory, Mains, Backups,
     Publication, Shown, BackedBy, Owed
<1>12. ASSUME Persist
      PROVE  Kept'
  BY <1>0, <1>12, PersistEffect, <1>now DEF Kept, Requests, Directory, Mains, Backups,
     Publication, Shown, BackedBy, Owed
<1>13. ASSUME Install
      PROVE  Kept'
  <2>1. job # None => Live(job.next) = Live(config)
    BY <1>0, <1>13, InstallEffect, JobFields
       DEF Requests, Publication, Live, IInv, TypeOK, MemoryTyped
  <2>. QED
    BY <1>0, <1>13, <2>1, InstallEffect DEF Kept, Requests, Directory, Mains, Backups,
       Publication, Shown, BackedBy, Owed
<1>14. ASSUME PassBegin \/ PassRecovers \/ PassGivesUp
      PROVE  Kept'
  BY <1>0, <1>14, PassEffect, <1>now DEF Kept, Requests, Directory, Mains, Backups,
     Publication, Shown, BackedBy, Owed
<1>15. ASSUME PassFinish
      PROVE  Kept'
  BY <1>0, <1>15, FinishEffect, <1>now DEF Kept, Requests, Directory, Mains, Backups,
     Publication, Shown, BackedBy, Owed
<1>16. ASSUME Crash
      PROVE  Kept'
  <2>1. SUFFICES ASSUME ~ lost, ~ warned
                 PROVE  Kept'
    BY <1>16, CrashEffect DEF Kept
  <2>2. /\ config' = None /\ entries' = {} /\ UNCHANGED <<index, owing, raced>>
    BY <1>16, CrashEffect
  <2>3. \A g \in Reach : g.main # None => Owed \subseteq Live(g.main) \cup Conned(index)
    BY <1>0, <2>1 DEF Kept, Requests, Directory, Mains, Backups, Publication, Shown,
       BackedBy, Owed
  <2>4. \A g \in Reach : g.main = None /\ g.backup # None =>
           Owed \subseteq Live(g.backup) \cup Conned(index)
    BY <1>0, <2>1 DEF Kept, Requests, Directory, Mains, Backups, Publication, Shown,
       BackedBy, Owed
  <2>5. PICK g \in Reach :
          \/ Reach' = {g}
          \/ /\ job = None /\ ~ cut /\ g.backup # None
             /\ \E f \in Files : Reach' = {f} /\ f.main = None /\ f.backup = g.backup
    BY <1>16, CrashEffect
  <2>6. CASE Reach' = {g}
    BY <2>2, <2>3, <2>4, <2>6 DEF Kept, Owed, Conned
  <2>7. CASE /\ job = None /\ ~ cut /\ g.backup # None
             /\ \E f \in Files : Reach' = {f} /\ f.main = None /\ f.backup = g.backup
    <3>1. ASSUME g.main # None
          PROVE  Live(g.backup) = Live(g.main)
      <4>1. g.backup.conn = g.main.conn
        BY <1>0, <2>1, <2>7, <3>1 DEF Kept, Requests, Directory, Mains, Backups,
           Publication, Shown, BackedBy, Owed
      <4>. QED
        BY <4>1 DEF Live
    <3>2. Owed \subseteq Live(g.backup) \cup Conned(index)
      BY <2>3, <2>4, <2>7, <3>1
    <3>. QED
      BY <2>2, <2>7, <3>2 DEF Kept, Owed, Conned
  <2>. QED
    BY <2>5, <2>6, <2>7
<1>17. ASSUME FirstStart
      PROVE  Kept'
  BY <1>0, <1>17, FirstStartEffect, <1>now DEF Kept, Requests, Directory, Mains,
     Backups, Publication, Shown, BackedBy, Owed
<1>18. ASSUME Start
      PROVE  Kept'
  BY <1>0, <1>18, StartEffect, <1>now DEF Kept, Requests, Directory, Mains, Backups,
     Publication, Shown, BackedBy, Owed
<1>19. ASSUME UNCHANGED vars
      PROVE  Kept'
  BY <1>0, <1>19, NothingEffect, <1>now DEF Kept, Requests, Directory, Mains, Backups,
     Publication, Shown, BackedBy, Owed
<1>. QED
  BY <1>1, <1>2, <1>3, <1>4, <1>5, <1>6, <1>7, <1>8, <1>9, <1>10, <1>11, <1>12, <1>13,
     <1>14, <1>15, <1>16, <1>17, <1>18, <1>19, Zenon DEF Next

\* The initial passwords stay readable.
LEMMA ReadableStep ==
  ASSUME IInv, [Next]_vars
  PROVE  Readable'
<1>0. Readable /\ Requests /\ Directory /\ Mains /\ Publication
  BY DEF IInv
<1>1. ASSUME Rotate
      PROVE  Readable'
  BY <1>0, <1>1, RotateEffect DEF Readable, Requests, Directory, Mains, Publication,
     Shown
<1>2. ASSUME Rename
      PROVE  Readable'
  BY <1>0, <1>2, RenameEffect DEF Readable, Requests, Directory, Mains, Publication,
     Shown
<1>3. ASSUME Sync
      PROVE  Readable'
  BY <1>0, <1>3, SyncEffect DEF Readable, Requests, Directory, Mains, Publication, Shown
<1>4. ASSUME RefreshBackup
      PROVE  Readable'
  BY <1>0, <1>4, RefreshEffect DEF Readable, Requests, Directory, Mains, Publication,
     Shown
<1>5. ASSUME Published
      PROVE  Readable'
  BY <1>0, <1>5, PublishedEffect DEF Readable, Requests, Directory, Mains,
     Publication, Shown
<1>6. ASSUME Refused
      PROVE  Readable'
  BY <1>0, <1>6, RefusedEffect DEF Readable, Requests, Directory, Mains, Publication,
     Shown
<1>7. ASSUME ChangePasswords \/ AddReference \/ DropReference
      PROVE  Readable'
  BY <1>0, <1>7, SettingAsked DEF Readable, Requests, Directory, Mains, Publication,
     Shown
<1>8. ASSUME UpdateConfig
      PROVE  Readable'
  BY <1>0, <1>8, UpdateEffect DEF Readable, Requests, Directory, Mains, Publication,
     Shown
<1>9. ASSUME Answer
      PROVE  Readable'
  BY <1>0, <1>9, AnswerEffect DEF Readable, Requests, Directory, Mains, Publication,
     Shown
<1>10. ASSUME Stage \/ Discard \/ Activate \/ Edit \/ Delete
      PROVE  Readable'
  BY <1>0, <1>10, StorageAsked DEF Readable, Requests, Directory, Mains, Publication,
     Shown
<1>11. ASSUME Prepare
      PROVE  Readable'
  BY <1>0, <1>11, PrepareEffect DEF Readable, Requests, Directory, Mains, Publication,
     Shown
<1>12. ASSUME Persist
      PROVE  Readable'
  BY <1>0, <1>12, PersistEffect DEF Readable, Requests, Directory, Mains, Publication,
     Shown
<1>13. ASSUME Install
      PROVE  Readable'
  BY <1>0, <1>13, InstallEffect DEF Readable, Requests, Directory, Mains, Publication,
     Shown
<1>14. ASSUME PassBegin \/ PassRecovers \/ PassGivesUp
      PROVE  Readable'
  BY <1>0, <1>14, PassEffect DEF Readable, Requests, Directory, Mains, Publication,
     Shown
<1>15. ASSUME PassFinish
      PROVE  Readable'
  BY <1>0, <1>15, FinishEffect DEF Readable, Requests, Directory, Mains, Publication,
     Shown
<1>16. ASSUME Crash
      PROVE  Readable'
  BY <1>0, <1>16, CrashEffect DEF Readable, Requests, Directory, Mains, Publication,
     Shown
<1>17. ASSUME FirstStart
      PROVE  Readable'
  BY <1>0, <1>17, FirstStartEffect DEF Readable, Requests, Directory, Mains,
     Publication, Shown
<1>18. ASSUME Start
      PROVE  Readable'
  BY <1>0, <1>18, StartEffect DEF Readable, Requests, Directory, Mains, Publication,
     Shown
<1>19. ASSUME UNCHANGED vars
      PROVE  Readable'
  BY <1>0, <1>19, NothingEffect DEF Readable, Requests, Directory, Mains, Publication,
     Shown
<1>. QED
  BY <1>1, <1>2, <1>3, <1>4, <1>5, <1>6, <1>7, <1>8, <1>9, <1>10, <1>11, <1>12, <1>13,
     <1>14, <1>15, <1>16, <1>17, <1>18, <1>19, Zenon DEF Next

\* An answered change stays.
LEMMA AcceptedStep ==
  ASSUME IInv, [Next]_vars
  PROVE  Accepted'
<1>0. Accepted /\ Requests /\ Directory /\ Mains /\ Publication /\ Intent
  BY DEF IInv
<1>1. ASSUME Rotate
      PROVE  Accepted'
  BY <1>0, <1>1, RotateEffect DEF Accepted, Requests, Directory, Mains, Publication,
     Intent, Shown
<1>2. ASSUME Rename
      PROVE  Accepted'
  BY <1>0, <1>2, RenameEffect DEF Accepted, Requests, Directory, Mains, Publication,
     Intent, Shown
<1>3. ASSUME Sync
      PROVE  Accepted'
  BY <1>0, <1>3, SyncEffect DEF Accepted, Requests, Directory, Mains, Publication,
     Intent, Shown
<1>4. ASSUME RefreshBackup
      PROVE  Accepted'
  BY <1>0, <1>4, RefreshEffect DEF Accepted, Requests, Directory, Mains, Publication,
     Intent, Shown
<1>5. ASSUME Published
      PROVE  Accepted'
  BY <1>0, <1>5, PublishedEffect DEF Accepted, Requests, Directory, Mains,
     Publication, Intent, Shown
<1>6. ASSUME Refused
      PROVE  Accepted'
  BY <1>0, <1>6, RefusedEffect DEF Accepted, Requests, Directory, Mains, Publication,
     Intent, Shown
<1>7. ASSUME ChangePasswords \/ AddReference \/ DropReference
      PROVE  Accepted'
  BY <1>0, <1>7, SettingAsked DEF Accepted, Requests, Directory, Mains, Publication,
     Intent, Shown
<1>8. ASSUME UpdateConfig
      PROVE  Accepted'
  BY <1>0, <1>8, UpdateEffect DEF Accepted, Requests, Directory, Mains, Publication,
     Intent, Shown
<1>9. ASSUME Answer
      PROVE  Accepted'
  BY <1>0, <1>9, AnswerEffect DEF Accepted, Requests, Directory, Mains, Publication,
     Intent, Shown
<1>10. ASSUME Stage \/ Discard \/ Activate \/ Edit \/ Delete
      PROVE  Accepted'
  BY <1>0, <1>10, StorageAsked DEF Accepted, Requests, Directory, Mains, Publication,
     Intent, Shown
<1>11. ASSUME Prepare
      PROVE  Accepted'
  BY <1>0, <1>11, PrepareEffect DEF Accepted, Requests, Directory, Mains, Publication,
     Intent, Shown
<1>12. ASSUME Persist
      PROVE  Accepted'
  BY <1>0, <1>12, PersistEffect DEF Accepted, Requests, Directory, Mains, Publication,
     Intent, Shown
<1>13. ASSUME Install
      PROVE  Accepted'
  BY <1>0, <1>13, InstallEffect DEF Accepted, Requests, Directory, Mains, Publication,
     Intent, Shown
<1>14. ASSUME PassBegin \/ PassRecovers \/ PassGivesUp
      PROVE  Accepted'
  BY <1>0, <1>14, PassEffect DEF Accepted, Requests, Directory, Mains, Publication,
     Intent, Shown
<1>15. ASSUME PassFinish
      PROVE  Accepted'
  BY <1>0, <1>15, FinishEffect DEF Accepted, Requests, Directory, Mains, Publication,
     Intent, Shown
<1>16. ASSUME Crash
      PROVE  Accepted'
  <2>1. SUFFICES ASSUME damage = 0, ~ lost, ~ warned, damage' = damage
                 PROVE  Accepted'
    <3>1. damage \in Nat
      BY DEF IInv, TypeOK, BoundsTyped
    <3>2. damage' = damage \/ damage' = damage + 1
      BY <1>16, CrashEffect
    <3>. QED
      BY <1>16, <3>1, <3>2, CrashEffect DEF Accepted
  <2>2. \A g \in Reach : g.main # None => accepted \cap g.main.initial = {}
    <3>1. CASE config = None
      BY <1>0, <2>1, <3>1 DEF Accepted
    <3>2. CASE config # None
      <4>1. \A g \in Reach : g.main = config \/ (job # None /\ g.main = job.next)
        BY <1>0, <2>1, <3>2 DEF Directory, Shown
      <4>. QED
        BY <1>0, <2>1, <3>2, <4>1 DEF Accepted, Publication
    <3>. QED
      BY <3>1, <3>2
  <2>3. \E g \in Reach : Reach' = {g} \/ \E f : Reach' = {f} /\ f.main = None
    BY <1>16, CrashEffect
  <2>. QED
    BY <1>16, <2>2, <2>3, CrashEffect DEF Accepted
<1>17. ASSUME FirstStart
      PROVE  Accepted'
  BY <1>0, <1>17, FirstStartEffect DEF Accepted, Requests, Directory, Mains,
     Publication, Intent, Shown
<1>18. ASSUME Start
      PROVE  Accepted'
  BY <1>0, <1>18, StartEffect DEF Accepted, Requests, Directory, Mains, Publication,
     Intent, Shown
<1>19. ASSUME UNCHANGED vars
      PROVE  Accepted'
  BY <1>0, <1>19, NothingEffect DEF Accepted, Requests, Directory, Mains, Publication,
     Intent, Shown
<1>. QED
  BY <1>1, <1>2, <1>3, <1>4, <1>5, <1>6, <1>7, <1>8, <1>9, <1>10, <1>11, <1>12, <1>13,
     <1>14, <1>15, <1>16, <1>17, <1>18, <1>19, Zenon DEF Next

-----------------------------------------------------------------------------
(* The theorems.                                                           *)

\* A new directory, or a server with one connection that works.
LEMMA InitStep ==
  ASSUME Init
  PROVE  IInv
<1>1. /\ index = {} /\ config = None /\ entries = {} /\ ready = [i \in Ids |-> None]
      /\ op = None /\ setting = None /\ job = None /\ pass = None
      /\ edits = 0 /\ settings = 0 /\ passes = 0 /\ faults = 0 /\ crashes = 0 /\ damage = 0
      /\ warned = FALSE /\ lost = FALSE /\ cut = FALSE /\ raced = {} /\ accepted = {}
  BY DEF Init
<1>2. \E f \in Files :
        /\ dir = <<f>> /\ used \subseteq Ids /\ owing \subseteq Conns
        /\ \/ f.main = None /\ f.backup = None /\ owing = {}
           \/ /\ f.main # None /\ f.backup = f.main /\ f.creds
              /\ owing \subseteq Live(f.main)
  <2>1. CASE dir = <<Fresh>> /\ used = {} /\ owing = {}
    <3>1. Fresh \in Files /\ Fresh.main = None /\ Fresh.backup = None
      BY DEF Fresh, Files
    <3>. QED
      BY <2>1, <3>1
  <2>2. ASSUME NEW i \in Ids, NEW c \in Conns, NEW refs \in SUBSET {i},
               dir = <<OneStorage(i, c, refs)>>, used = {i}, owing = {c}
        PROVE  \E f \in Files :
                 /\ dir = <<f>> /\ used \subseteq Ids /\ owing \subseteq Conns
                 /\ f.main # None /\ f.backup = f.main /\ f.creds
                 /\ owing \subseteq Live(f.main)
    <3> DEFINE cfg == [NewConfig EXCEPT !.conn[i] = c, !.on = {i}, !.refs = refs]
               f == [main |-> cfg, backup |-> cfg, creds |-> TRUE]
    <3>1. cfg \in Configs /\ cfg.conn[i] = c
      BY NewConfigFields DEF Configs, NewConfig, Connections
    <3>2. cfg # None /\ c # None
      BY <3>1, ConfigFields, ConfigurationAssumption
    <3>3. c \in Live(cfg)
      BY <3>1, <3>2 DEF Live
    <3>4. OneStorage(i, c, refs) = f
      BY DEF OneStorage
    <3> HIDE DEF cfg
    <3>5. f \in Files /\ f.main = cfg /\ f.backup = cfg /\ f.creds
      BY <3>1 DEF Files
    <3>. QED
      BY <2>2, <3>2, <3>3, <3>4, <3>5
  <2>. QED
    BY <2>1, <2>2 DEF Init
<1>3. PICK f \in Files :
        /\ dir = <<f>> /\ used \subseteq Ids /\ owing \subseteq Conns
        /\ \/ f.main = None /\ f.backup = None /\ owing = {}
           \/ /\ f.main # None /\ f.backup = f.main /\ f.creds
              /\ owing \subseteq Live(f.main)
  BY <1>2
<1>4. dir \in Seq(Files) /\ dir # <<>> /\ DOMAIN dir = {1} /\ Reach = {f} /\ Now = f
  BY <1>3 DEF Reach, Now, Last
<1>5. TypeOK
  <2>1. [i \in Ids |-> None] \in Connections
    BY DEF Connections
  <2>2. FilesTyped
    BY <1>1, <1>4 DEF FilesTyped
  <2>3. MemoryTyped
    BY <1>1, <2>1 DEF MemoryTyped
  <2>4. /\ MaxEdits \in Nat /\ MaxSettings \in Nat /\ MaxPasses \in Nat /\ MaxFaults \in Nat
        /\ MaxCrashes \in Nat /\ MaxDamage \in Nat
    BY ConfigurationAssumption
  <2>5. BoundsTyped
    BY <1>1, <2>4 DEF BoundsTyped
  <2>6. HistoryTyped
    BY <1>1, <1>3 DEF HistoryTyped
  <2>. QED
    BY <2>2, <2>3, <2>5, <2>6 DEF TypeOK
<1>6. Requests /\ Mains /\ Directory /\ Publication /\ Intent /\ Served
  BY <1>1, <1>3, <1>4 DEF Requests, Mains, Directory, Publication, Intent, Served
<1>7. Backups /\ Kept /\ Readable /\ Accepted
  BY <1>1, <1>3, <1>4
     DEF Backups, BackedBy, Kept, Owed, Conned, Readable, Accepted
<1>. QED
  BY <1>5, <1>6, <1>7 DEF IInv

\* Whatever requests, worker passes, failed calls and restarts do, in any order,
\* the state stays in the inductive invariant (state.rs,
\* config/persistence.rs).
THEOREM Invariance == Spec => []IInv
<1>1. ASSUME IInv, [Next]_vars
      PROVE  IInv'
  <2>1. FilesTyped' /\ MemoryTyped' /\ BoundsTyped' /\ HistoryTyped'
    BY <1>1, FilesStep, MemoryStep, BoundsStep, HistoryStep
  <2>. QED
    BY <1>1, <2>1, RequestsStep, MainsStep, DirectoryStep, BackupsStep, PublicationStep,
       IntentStep, ServedStep, KeptStep, ReadableStep, AcceptedStep DEF IInv, TypeOK
<1>. QED
  BY <1>1, InitStep, PTL DEF Spec

\* The configuration, the index and the requests stay well formed.
THEOREM ConfigurationTypeCorrect == Spec => []TypeOK
<1>1. IInv => TypeOK
  BY DEF IInv
<1>. QED
  BY <1>1, Invariance, PTL

\* A connection that owes work is in every configuration a restart may load, or in
\* the index, unless a publication was reported as unconfirmed or its entry was ended
\* while users were served by it again (`raced'): nothing else makes the server forget
\* what users wrote through it (state.rs: persist_storage_selection; config/retired_storage.rs).
THEOREM OwedStaysRecorded == Spec => []OwedIsKept
<1>1. ASSUME IInv, ~ warned, ~ lost
      PROVE  \A g \in Reach : g.main # None => Owed \subseteq Live(g.main) \cup Conned(index)
  <2>0. Requests /\ Directory /\ Kept
    BY <1>1 DEF IInv
  <2>1. CASE config = None
    BY <1>1, <2>0, <2>1 DEF Kept
  <2>2. CASE config # None
    <3>1. Owed \subseteq Live(config) \cup Conned(index)
      BY <1>1, <2>0, <2>2 DEF Kept, Owed
    <3>2. job # None => Owed \subseteq Live(job.next) \cup Conned(index)
      BY <1>1, <2>0, <2>2 DEF Kept, Owed
    <3>3. \A g \in Reach : g.main = config \/ (job # None /\ g.main = job.next)
      BY <1>1, <2>0, <2>2 DEF Directory, Shown
    <3>. QED
      BY <3>1, <3>2, <3>3
  <2>. QED
    BY <2>1, <2>2
<1>2. IInv => OwedIsKept
  <2>1. SUFFICES ASSUME IInv, ~ warned, ~ lost, NEW k \in DOMAIN dir, dir[k].main # None
                 PROVE  owing \ raced \subseteq Recorded(dir[k])
    BY DEF OwedIsKept, KeptEverywhere
  <2>2. dir[k] \in Reach
    BY DEF Reach
  <2>. QED
    BY <1>1, <2>1, <2>2 DEF Owed, Recorded, Conned
<1>. QED
  BY <1>2, Invariance, PTL

\* While a password of the first start is active in a primary that a restart may
\* load, the file that names it is there (bootstrap.rs, config/persistence.rs).
THEOREM PasswordsStayReadable == Spec => []InitialPasswordsStayReadable
<1>1. ASSUME IInv
      PROVE  InitialPasswordsStayReadable
  <2>1. \A k \in DOMAIN dir : dir[k] \in Reach
    BY DEF Reach
  <2>2. damage \in Nat /\ Readable
    BY <1>1 DEF IInv, TypeOK, BoundsTyped
  <2>. QED
    BY <2>1, <2>2 DEF InitialPasswordsStayReadable, Readable
<1>. QED
  BY <1>1, Invariance, PTL

\* No storage request that read the configuration before it, and no crash after a
\* confirmed publication, undoes a password change that was answered
\* (state.rs: persist_storage_selection, update_config).
THEOREM ChangesStay == Spec => []AcceptedChangesStay
<1>1. ASSUME IInv
      PROVE  AcceptedChangesStay
  <2>0. Requests /\ Directory /\ Publication /\ Accepted
    BY <1>1 DEF IInv
  <2>1. SUFFICES ASSUME damage = 0, ~ warned, ~ lost
                 PROVE  /\ config # None => accepted \cap config.initial = {}
                        /\ \A k \in DOMAIN dir :
                             dir[k].main # None => accepted \cap dir[k].main.initial = {}
    BY DEF AcceptedChangesStay
  <2>2. config # None => accepted \cap config.initial = {}
    BY <2>0, <2>1 DEF Accepted
  <2>3. ASSUME NEW g \in Reach, g.main # None
        PROVE  accepted \cap g.main.initial = {}
    <3>1. CASE config = None
      BY <2>0, <2>1, <2>3, <3>1 DEF Accepted
    <3>2. CASE config # None
      <4>1. g.main = config \/ (job # None /\ g.main = job.next)
        BY <2>0, <2>1, <3>2 DEF Directory, Shown
      <4>2. job # None => job.next.initial \subseteq config.initial
        BY <2>0 DEF Publication
      <4>. QED
        BY <2>2, <3>2, <4>1, <4>2
    <3>. QED
      BY <3>1, <3>2
  <2>. QED
    BY <2>2, <2>3 DEF Reach
<1>. QED
  BY <1>1, Invariance, PTL

=============================================================================
