------------------------------ MODULE Accounts ------------------------------
(***************************************************************************)
(* Who may enter: login attempts, the credentials in the configuration,    *)
(* browser sessions and scoped tokens, the second factor of the            *)
(* administrator, and the limit on wrong passwords (auth.rs, its modules,  *)
(* login_security.rs, totp.rs, webdav/access.rs, api.rs unlock_folder and  *)
(* the credential handlers of admin_api.rs).                               *)
(*                                                                         *)
(* There are five doors.  "admin" and "account" issue browser sessions,    *)
(* "web" the site-access token, "folder" the token of a folder lock, and   *)
(* "webdav" issues nothing: each request proves itself.  A credential is a *)
(* generation number, new for every change and 0 when there is none, so    *)
(* that equality of generations is equality of names and hashes.           *)
(***************************************************************************)
EXTENDS Integers, Sequences, FiniteSets, SequencesExt

CONSTANTS
    Attempts,       \* login requests, each used once
    Changes,        \* administrator requests that change credentials
    Doors,          \* the entries that are open in this instance
    Edits,          \* the changes administrators make: [door, what]
    Addresses,      \* client addresses
    Loopback,       \* the one that is the server itself
    RecoveryCodes,  \* recovery codes per enrolment (generate_recovery_codes)
    MaxFailures,    \* LoginPolicy.maximum_failures
    MaxRecords,     \* MAX_RESTRICTIONS
    PerScope,       \* MAX_ACCESS_TOKENS_PER_SCOPE
    MaxClock,       \* bound: TOTP periods that pass
    MaxFaults,      \* bound: writes that fail
    MaxCrashes,     \* bound: restarts
    Nobody          \* a free lock

ASSUME AccountsAssumption ==
    /\ MaxFailures \in Nat \ {0} /\ MaxRecords \in Nat \ {0} /\ PerScope \in Nat \ {0}
    /\ Doors \subseteq {"admin", "account", "web", "folder", "webdav"}
    /\ Edits \subseteq [door : Doors, what : {"renew", "drop"}]
            \cup [door : {"account"}, what : {"flip"}]
            \cup [door : {"admin"}, what : {"enrol", "leave"}]
    /\ Loopback \in Addresses /\ Nobody \notin Attempts \cup Changes

VARIABLES
    config,     \* config_file: the configuration every request reads
    stored,     \* the same on disk
    pending,    \* an update_config whose file is written, not yet published
    fresh,      \* the last generation handed out
    records,    \* LoginSecurity.data, oldest attempt first (memory and disk agree)
    attempt,    \* what each login request is doing
    change,     \* what each administrator request is doing
    stripe,     \* LoginAttemptGates: the attempt at each (door, address)
    auth,       \* auth_transitions: its holder
    tokens,     \* SessionStore and AccessTokenStore, oldest first
    consumed,   \* TotpReplayStore
    proofs,     \* CredentialCache: WebDAV credentials verified lately
    clock,      \* TOTP period
    faults, crashes,
    spent,      \* history: second-factor proofs that opened something, and when
    wrong       \* history: denials answered per (door, address) since a pardon

vars == <<config, stored, pending, fresh, records, attempt, change, stripe, auth,
          tokens, consumed, proofs, clock, faults, crashes, spent, wrong>>

Keys == Doors \X Addresses
Guarded == Doors \ {"folder"}          \* unlock_folder has no failure record
Opening == Doors \ {"webdav"}

NoFactor == <<"none">>
Totp(secret, period) == <<"totp", secret, period, crashes>>
Code(secret, i) == <<"code", secret, i>>
Use(proof) == [proof |-> proof, at |-> clock]

Idle == [pc |-> "idle"]
Done == [pc |-> "done"]
Key(a) == <<attempt[a].door, attempt[a].addr>>

\* Each step of a request answers or moves it on; an answer drops its locks.
Moves(a, to) == attempt' = [attempt EXCEPT ![a].pc = to]
Ends(a) == attempt' = [attempt EXCEPT ![a] = Done]
Without(lock, who) == [k \in DOMAIN lock |-> IF lock[k] = who THEN Nobody ELSE lock[k]]
Release(a) == stripe' = Without(stripe, a) /\ auth' = IF auth = a THEN Nobody ELSE auth

-----------------------------------------------------------------------------
(* LoginSecurity: one record per door and address.  Each of these is one   *)
(* critical section: the new state is written to its file and only then    *)
(* published, and a failed write changes neither.                          *)

RecordAt(k) == SelectInSeq(records, LAMBDA r : r.key = k)
Known(k) == RecordAt(k) # 0
NewRecord(k) == [key |-> k, fails |-> 0, block |-> "no"]
RecordOf(k) == IF Known(k) THEN records[RecordAt(k)] ELSE NewRecord(k)
Blocked(k) == RecordOf(k).block = "active"

\* ensure_capacity: the oldest record that blocks nobody makes room.
Evictable == SelectInSeq(records, LAMBDA r : r.block # "active")
HasRoom(k) == Known(k) \/ Len(records) < MaxRecords \/ Evictable # 0
Evicts(k) == ~Known(k) /\ Len(records) >= MaxRecords
Evicted(k) == IF Evicts(k) THEN {records[Evictable].key} ELSE {}
Rest(k) == IF Known(k) THEN RemoveAt(records, RecordAt(k))
           ELSE IF Evicts(k) THEN RemoveAt(records, Evictable) ELSE records

\* get_or_insert and last_attempt_at := now
Touched(k, r) == Append(Rest(k), r)
InPlace(k, r) == ReplaceAt(records, RecordAt(k), r)

Failed(k) == LET r == RecordOf(k) IN
    [r EXCEPT !.fails = @ + 1,
              !.block = IF r.fails + 1 >= MaxFailures THEN "active" ELSE @]
Cleared(k) == NewRecord(k)
Pardon(ks) == wrong' = [k \in Keys |-> IF k \in ks THEN 0 ELSE wrong[k]]

WriteFails == faults < MaxFaults /\ faults' = faults + 1
WriteHolds == UNCHANGED faults

RecordFailure(k) ==
    /\ HasRoom(k)
    /\ records' = Touched(k, Failed(k))
    /\ wrong' = [x \in Keys |-> IF x = k THEN wrong[x] + 1
                                ELSE IF x \in Evicted(k) THEN 0 ELSE wrong[x]]
RecordSuccess(k) ==
    HasRoom(k) /\ records' = Touched(k, Cleared(k)) /\ Pardon({k} \cup Evicted(k))
ClearWebdavFailures(k) ==
    \/ Known(k) /\ records' = InPlace(k, Cleared(k)) /\ Pardon({k})
    \/ ~Known(k) /\ UNCHANGED <<records, wrong>>
Lapse(k) == records' = InPlace(k, Cleared(k)) /\ Pardon({k})
RestrictedRecord(k) == [RecordOf(k) EXCEPT !.block = "active"]
RestrictLogin(k) ==
    HasRoom(k) /\ records' = Touched(k, RestrictedRecord(k)) /\ Pardon(Evicted(k))
\* record_webdav_request_failure: what went wrong was not the password
RecordRequestFailure == UNCHANGED <<records, wrong>>
UnblockLogin(k) == Known(k) /\ records' = Touched(k, Cleared(k)) /\ Pardon({k})

-----------------------------------------------------------------------------
(* Configuration.                                                          *)

Basis(cfg, d) == <<cfg.pw[d], cfg.on[d], IF d = "admin" THEN cfg.totp ELSE 0>>

Codes(secret) == {Code(secret, i) : i \in 1..RecoveryCodes}

Renewed(cfg, d) == [cfg EXCEPT !.pw[d] = fresh + 1]
Dropped(cfg, d) == [cfg EXCEPT !.pw[d] = 0]

\* The closures the credential handlers give to update_config.
UpdateAdminAccount(cfg, e) == IF e.what = "drop" THEN Dropped(cfg, e.door) ELSE Renewed(cfg, e.door)
UpdateUserAccount(cfg, e) == IF e.what = "flip" THEN [cfg EXCEPT !.on["account"] = ~@]
                             ELSE Renewed(cfg, "account")
DeleteUserAccount(cfg) == Dropped(cfg, "account")
ChangeLock(cfg, e) == IF e.what = "drop" THEN Dropped(cfg, "folder") ELSE Renewed(cfg, "folder")
ChangeShare(cfg, e) == IF e.what = "drop" THEN Dropped(cfg, "webdav") ELSE Renewed(cfg, "webdav")
EnableTotp(cfg) == [cfg EXCEPT !.totp = fresh + 1, !.codes = Codes(fresh + 1)]
DisableTotp(cfg) == [cfg EXCEPT !.totp = 0, !.codes = {}]

Edited(cfg, e) ==
    CASE e.what = "enrol" -> EnableTotp(cfg)
      [] e.what = "leave" -> DisableTotp(cfg)
      [] e = [door |-> "account", what |-> "drop"] -> DeleteUserAccount(cfg)
      [] e.door = "account" -> UpdateUserAccount(cfg, e)
      [] e.door = "folder" -> ChangeLock(cfg, e)
      [] e.door = "webdav" -> ChangeShare(cfg, e)
      [] OTHER -> UpdateAdminAccount(cfg, e)

\* NotFound, Conflict and the refusals of the second-factor handlers.
EditFits(cfg, e) ==
    CASE e.what \in {"drop", "flip"} -> cfg.pw[e.door] # 0
      [] e.what = "enrol" -> cfg.totp = 0
      [] OTHER -> TRUE

\* Creating an account or a lock, and every change of a WebDAV mount, happen
\* without auth_transitions; nothing was issued for them before.
TakesAuth(e) == e.door # "webdav"

\* The administrator may have enrolled a second factor in an earlier life.
InitialConfigs ==
    {[pw |-> [d \in Doors |-> 1], on |-> [d \in Doors |-> TRUE], totp |-> t,
      codes |-> IF t = 0 THEN {} ELSE Codes(t)] : t \in {0, 1}}

-----------------------------------------------------------------------------
(* Login attempts.                                                         *)

\* The credential snapshot is read before the request waits for its stripe.
Capture(d) == [pw |-> config.pw[d], on |-> config.on[d],
               totp |-> IF d = "admin" THEN config.totp ELSE 0,
               codes |-> IF d = "admin" THEN config.codes ELSE {}]

Factors(d) ==
    IF d # "admin" THEN {NoFactor}
    ELSE {NoFactor} \cup config.codes
         \cup (IF config.totp = 0 THEN {} ELSE {Totp(config.totp, clock)})

Arrive(a) ==
    /\ attempt[a].pc = "idle"
    /\ \E d \in Doors, addr \in Addresses, right \in BOOLEAN :
       \E f \in Factors(d) :
        attempt' = [attempt EXCEPT ![a] =
            [pc |-> IF d = "folder" THEN "admitted" ELSE "waiting",
             door |-> d, addr |-> addr, right |-> right, factor |-> f,
             snap |-> Capture(d), proof |-> NoFactor]]
    /\ UNCHANGED <<config, stored, pending, fresh, records, change, stripe, auth, tokens,
                   consumed, proofs, clock, faults, crashes, spent, wrong>>

\* Mutant: the admission check does not wait for the attempt before it.
AdmittedTogether(a) ==
    /\ ~Blocked(Key(a))
    /\ stripe' = [stripe EXCEPT ![Key(a)] = a]
    /\ Moves(a, "admitted")

\* The stripe is held from here to the answer; is_blocked runs under it.
Admitted(a) ==
    /\ stripe[Key(a)] = Nobody
    /\ ~Blocked(Key(a))
    /\ stripe' = [stripe EXCEPT ![Key(a)] = a]
    /\ Moves(a, "admitted")

Admit(a) ==
    /\ attempt[a].pc = "waiting"
    /\ LET k == Key(a) IN
       \/ Admitted(a) /\ RecordOf(k).block = "no" /\ WriteHolds
          /\ UNCHANGED <<records, wrong>>
       \/ Admitted(a) /\ RecordOf(k).block = "lapsed" /\ WriteHolds
          /\ Lapse(k)
       \/ /\ stripe[k] = Nobody
          /\ \/ Blocked(k) /\ WriteHolds
             \/ RecordOf(k).block = "lapsed" /\ WriteFails
          /\ Ends(a) /\ UNCHANGED <<stripe, records, wrong>>
    /\ UNCHANGED <<config, stored, pending, fresh, change, auth, tokens, consumed, proofs,
                   clock, crashes, spent>>

\* The password and the second factor are computed outside every lock but the
\* stripe.  An unknown, disabled or deleted account never matches; a site
\* without a password admits the server's own address; a WebDAV password that
\* was right lately, for the mount as it was then, is not computed again.
Matches(a) == attempt[a].right /\ attempt[a].snap.pw # 0 /\ attempt[a].snap.on
GateMatches(a) == IF attempt[a].snap.pw = 0 THEN attempt[a].addr = Loopback ELSE Matches(a)
ShareMatches(a) == attempt[a].right /\ (attempt[a].snap.pw \in proofs \/ Matches(a))
PasswordValid(a) ==
    CASE attempt[a].door = "web" -> GateMatches(a)
      [] attempt[a].door = "webdav" -> ShareMatches(a)
      [] OTHER -> Matches(a)
NeedsFactor(a) == attempt[a].snap.totp # 0
FactorValid(a) == LET f == attempt[a].factor IN
    \/ f[1] = "totp" /\ f[2] = attempt[a].snap.totp /\ f[3] \in (clock - 1)..(clock + 1)
    \/ f \in attempt[a].snap.codes
Challenged(a) == PasswordValid(a) /\ NeedsFactor(a) /\ attempt[a].factor = NoFactor
Authenticated(a) == PasswordValid(a) /\ (NeedsFactor(a) => FactorValid(a))

Verify(a) ==
    /\ attempt[a].pc = "admitted"
    /\ IF Challenged(a) \/ (attempt[a].door = "folder" /\ ~Authenticated(a))
       THEN Ends(a) /\ Release(a) /\ UNCHANGED proofs
       ELSE /\ attempt' = [attempt EXCEPT
                ![a].pc = IF Authenticated(a) THEN "proved" ELSE "denied",
                ![a].proof = IF NeedsFactor(a) THEN attempt[a].factor ELSE NoFactor]
            /\ proofs' = IF attempt[a].door = "webdav" /\ Authenticated(a)
                         THEN proofs \cup {attempt[a].snap.pw} ELSE proofs
            /\ UNCHANGED <<stripe, auth>>
    /\ UNCHANGED <<config, stored, pending, fresh, records, change, tokens, consumed, clock,
                   faults, crashes, spent, wrong>>

\* record_failure, then the answer.
Deny(a) ==
    /\ attempt[a].pc = "denied"
    /\ LET k == Key(a) IN
       \/ RecordFailure(k) /\ WriteHolds
       \/ ~HasRoom(k) /\ WriteHolds /\ UNCHANGED <<records, wrong>>
       \/ WriteFails /\ UNCHANGED <<records, wrong>>
    /\ Ends(a) /\ Release(a)
    /\ UNCHANGED <<config, stored, pending, fresh, change, tokens, consumed, proofs, clock,
                   crashes, spent>>

\* Mutant: only the second factor is compared again.
CurrentFactor(a) == attempt[a].door = "admin" => config.totp = attempt[a].snap.totp

\* AccountLoginSnapshot::is_current; the web door and a lock compare the hash.
CurrentAccount(a) == LET s == attempt[a].snap  d == attempt[a].door IN
    /\ config.pw[d] = s.pw
    /\ d = "account" => config.on[d]
    /\ d = "admin" => config.totp = s.totp
    /\ attempt[a].proof[1] = "code" => attempt[a].proof \in config.codes
CurrentHash(a) == config.pw[attempt[a].door] = attempt[a].snap.pw
Current(a) == IF attempt[a].door \in {"web", "folder"} THEN CurrentHash(a) ELSE CurrentAccount(a)

\* Mutant: a period is forgotten as soon as the clock leaves it.
RetainedThisPeriod == {period \in consumed : period >= clock}

\* TotpReplayStore::consume forgets periods that no code can match any more.
Retained == {period \in consumed : period + 2 >= clock}
Replayed(p) == p[3] \in Retained
Consumed(p) == Retained \cup {p[3]}

\* auth_transitions is taken; the snapshot is compared with the configuration
\* of this moment and a TOTP period is used up.  WebDAV has no such step.
Prove(a) ==
    /\ attempt[a].pc = "proved" /\ attempt[a].door \in Opening
    /\ auth = Nobody
    /\ LET p == attempt[a].proof IN
       IF ~Current(a) \/ (p[1] = "totp" /\ Replayed(p))
       THEN /\ IF attempt[a].door = "folder" THEN Ends(a) ELSE Moves(a, "denied")
            /\ UNCHANGED <<auth, consumed>>
       ELSE /\ auth' = a
            /\ consumed' = IF p[1] = "totp" THEN Consumed(p) ELSE consumed
            /\ Moves(a, IF p[1] = "code" THEN "spending" ELSE "issuing")
    /\ UNCHANGED <<config, stored, pending, fresh, records, change, stripe, tokens, proofs,
                   clock, faults, crashes, spent, wrong>>

\* update_config that removes the recovery code: read, edit and write the file
\* under config_updates.  The write is detached from the request.
Spend(a) ==
    /\ attempt[a].pc = "spending"
    /\ LET p == attempt[a].proof
           next == [config EXCEPT !.codes = @ \ {p}] IN
       \/ /\ pending = Nobody /\ p \in config.codes
          /\ stored' = next /\ pending' = [by |-> a, next |-> next]
          /\ Moves(a, "saving") /\ WriteHolds /\ UNCHANGED <<stripe, auth>>
       \/ /\ \/ (pending # Nobody \/ p \notin config.codes) /\ WriteHolds
             \/ pending = Nobody /\ WriteFails
          /\ Ends(a) /\ Release(a) /\ UNCHANGED <<stored, pending>>
    /\ UNCHANGED <<config, fresh, records, change, tokens, consumed, proofs, clock, crashes,
                   spent, wrong>>

\* The detached writer publishes the configuration it has written.
Publish ==
    /\ pending # Nobody
    /\ config' = pending.next /\ pending' = Nobody
    /\ attempt' = [a \in Attempts |-> IF a = pending.by /\ attempt[a].pc = "saving"
                                      THEN [attempt[a] EXCEPT !.pc = "issuing"] ELSE attempt[a]]
    /\ change' = [c \in Changes |-> IF c = pending.by
                                    THEN [change[c] EXCEPT !.pc = "revoking"] ELSE change[c]]
    /\ UNCHANGED <<stored, fresh, records, stripe, auth, tokens, consumed, proofs, clock,
                   faults, crashes, spent, wrong>>

\* SessionStore::create_for and AccessTokenStore::create: one session per
\* account, PerScope tokens per scope, the oldest makes room.
Limit(d) == IF d \in {"admin", "account"} THEN 1 ELSE PerScope
SameScope(d) == SelectSeq(tokens, LAMBDA t : t.door = d)
Kept(d) == LET first == SelectInSeq(tokens, LAMBDA t : t.door = d) IN
           IF Len(SameScope(d)) >= Limit(d) THEN RemoveAt(tokens, first) ELSE tokens
Issued(a) == Append(Kept(attempt[a].door),
    [id |-> a, door |-> attempt[a].door,
     basis |-> <<attempt[a].snap.pw, TRUE, attempt[a].snap.totp>>])

\* record_success, then the session or token; both under auth_transitions.
Issue(a) ==
    /\ attempt[a].pc = "issuing"
    /\ LET k == Key(a) IN
       \/ /\ \/ attempt[a].door = "folder" /\ UNCHANGED <<records, wrong>>
             \/ attempt[a].door # "folder" /\ RecordSuccess(k)
          /\ WriteHolds
          /\ tokens' = Issued(a)
          /\ spent' = IF attempt[a].proof = NoFactor THEN spent
                      ELSE Append(spent, Use(attempt[a].proof))
       \/ /\ attempt[a].door # "folder"
          /\ (~HasRoom(k) /\ WriteHolds) \/ WriteFails
          /\ UNCHANGED <<records, wrong, tokens, spent>>
    /\ Ends(a) /\ Release(a)
    /\ UNCHANGED <<config, stored, pending, fresh, change, consumed, proofs, clock, crashes>>

\* A WebDAV request with the right password: clear_webdav_failures under the
\* stripe, and the result of a PROPFIND after it (record_success, or
\* record_webdav_request_failure, which counts nothing).
Serve(a) ==
    /\ attempt[a].pc = "proved" /\ attempt[a].door = "webdav"
    /\ LET k == Key(a) IN
       \/ ClearWebdavFailures(k) /\ WriteHolds /\ (Ends(a) \/ Moves(a, "answered"))
       \/ WriteFails /\ Ends(a) /\ UNCHANGED <<records, wrong>>
    /\ stripe' = Without(stripe, a)
    /\ UNCHANGED <<config, stored, pending, fresh, change, auth, tokens, consumed, proofs,
                   clock, crashes, spent>>

Answered(a) ==
    /\ attempt[a].pc = "answered"
    /\ LET k == Key(a) IN
       \/ RecordSuccess(k)
       \/ RecordRequestFailure
    /\ Ends(a)
    /\ UNCHANGED <<config, stored, pending, fresh, change, stripe, auth, tokens, consumed,
                   proofs, clock, faults, crashes, spent>>

\* The client goes away: the request's future is dropped with its locks, but
\* not the configuration write it has started.
Disconnect(a) ==
    /\ attempt[a].pc \notin {"idle", "done"}
    /\ Ends(a) /\ Release(a)
    /\ UNCHANGED <<config, stored, pending, fresh, records, change, tokens, consumed, proofs,
                   clock, faults, crashes, spent, wrong>>

-----------------------------------------------------------------------------
(* Administrator requests; complete_mutation detaches them from their      *)
(* client, so they are never dropped half way.                             *)

\* Leaving the second factor needs a proof of it, used up like a login's.
LeaveProofs == IF config.totp = 0 THEN {}
               ELSE config.codes
                    \cup (IF clock \in Retained THEN {} ELSE {Totp(config.totp, clock)})

Begin(c) ==
    /\ change[c].pc = "idle"
    /\ \E e \in Edits :
        /\ TakesAuth(e) => auth = Nobody
        /\ auth' = IF TakesAuth(e) THEN c ELSE auth
        /\ IF e.what = "leave"
           THEN \E p \in LeaveProofs :
                /\ change' = [change EXCEPT ![c] = [pc |-> "writing", edit |-> e, proof |-> p]]
                /\ consumed' = IF p[1] = "totp" THEN Consumed(p) ELSE consumed
           ELSE /\ change' = [change EXCEPT ![c] =
                                [pc |-> "writing", edit |-> e, proof |-> NoFactor]]
                /\ UNCHANGED consumed
    /\ UNCHANGED <<config, stored, pending, fresh, records, attempt, stripe, tokens, proofs,
                   clock, faults, crashes, spent, wrong>>

Write(c) ==
    /\ change[c].pc = "writing"
    /\ LET e == change[c].edit  next == Edited(config, e) IN
       \/ /\ pending = Nobody /\ EditFits(config, e)
          /\ stored' = next /\ pending' = [by |-> c, next |-> next] /\ fresh' = fresh + 1
          /\ change' = [change EXCEPT ![c].pc = "saving"] /\ WriteHolds /\ UNCHANGED auth
       \/ /\ \/ (pending # Nobody \/ ~EditFits(config, e)) /\ WriteHolds
             \/ pending = Nobody /\ WriteFails
          /\ change' = [change EXCEPT ![c] = Done]
          /\ auth' = IF auth = c THEN Nobody ELSE auth
          /\ UNCHANGED <<stored, pending, fresh>>
    /\ UNCHANGED <<config, records, attempt, stripe, tokens, consumed, proofs, clock, crashes,
                   spent, wrong>>

\* revoke_administrator and revoke_user; gate_access.clear and remove_scope
RevokedSessions(d) == SelectSeq(tokens, LAMBDA t : t.door # d)
RemovedScope(d) == SelectSeq(tokens, LAMBDA t : t.door # d)
Revoked(e) == IF e.door \in {"admin", "account"} THEN RevokedSessions(e.door) ELSE RemovedScope(e.door)

Revoke(c) ==
    /\ change[c].pc = "revoking"
    /\ LET e == change[c].edit IN
        /\ tokens' = Revoked(e)
        /\ consumed' = IF e.what \in {"enrol", "leave"} THEN {} ELSE consumed
        /\ spent' = IF e.what = "leave" THEN Append(spent, Use(change[c].proof)) ELSE spent
    /\ change' = [change EXCEPT ![c] = Done]
    /\ auth' = IF auth = c THEN Nobody ELSE auth
    /\ UNCHANGED <<config, stored, pending, fresh, records, attempt, stripe, proofs, clock,
                   faults, crashes, wrong>>

\* block_login and unblock_login
AdminBlock(c) ==
    /\ change[c].pc = "idle" /\ change' = [change EXCEPT ![c] = Done]
    /\ \E k \in Guarded \X Addresses : RestrictLogin(k) \/ UnblockLogin(k)
    /\ UNCHANGED <<config, stored, pending, fresh, attempt, stripe, auth, tokens, consumed,
                   proofs, clock, faults, crashes, spent>>

-----------------------------------------------------------------------------
(* The environment.                                                        *)

\* revoke_browser_credentials holds all three stores before it removes; a
\* token whose time is over leaves its store the same way.
Remaining(held) == SelectSeq(tokens, LAMBDA t : t.id \notin held)
Logout ==
    /\ \E held \in SUBSET {tokens[i].id : i \in DOMAIN tokens} :
        held # {} /\ tokens' = Remaining(held)
    /\ UNCHANGED <<config, stored, pending, fresh, records, attempt, change, stripe, auth,
                   consumed, proofs, clock, faults, crashes, spent, wrong>>

\* Time: a TOTP period passes, blocks run out, cached proofs expire.
Tick ==
    /\ clock < MaxClock /\ clock' = clock + 1
    /\ \E lapse \in SUBSET {i \in DOMAIN records : records[i].block = "active"} :
        records' = [i \in DOMAIN records |-> IF i \in lapse
                        THEN [records[i] EXCEPT !.block = "lapsed"] ELSE records[i]]
    /\ proofs' \in SUBSET proofs
    /\ UNCHANGED <<config, stored, pending, fresh, attempt, change, stripe, auth, tokens,
                   consumed, faults, crashes, spent, wrong>>

\* Sessions, consumed periods and cached proofs are memory.
Crash ==
    /\ crashes < MaxCrashes /\ crashes' = crashes + 1
    /\ config' = stored /\ pending' = Nobody
    /\ attempt' = [a \in Attempts |-> IF attempt[a].pc = "idle" THEN Idle ELSE Done]
    /\ change' = [c \in Changes |-> IF change[c].pc = "idle" THEN Idle ELSE Done]
    /\ stripe' = [k \in Keys |-> Nobody] /\ auth' = Nobody
    /\ tokens' = <<>> /\ consumed' = {} /\ proofs' = {}
    /\ UNCHANGED <<stored, fresh, records, clock, faults, spent, wrong>>

Init ==
    /\ config \in InitialConfigs /\ stored = config /\ pending = Nobody /\ fresh = 1
    /\ records = <<>> /\ tokens = <<>> /\ consumed = {} /\ proofs = {}
    /\ attempt = [a \in Attempts |-> Idle] /\ change = [c \in Changes |-> Idle]
    /\ stripe = [k \in Keys |-> Nobody] /\ auth = Nobody
    /\ clock = 1 /\ faults = 0 /\ crashes = 0
    /\ spent = <<>> /\ wrong = [k \in Keys |-> 0]

Progress(a) == Admit(a) \/ Verify(a) \/ Deny(a) \/ Prove(a) \/ Spend(a) \/ Issue(a)
               \/ Serve(a) \/ Answered(a)

Next ==
    \/ \E a \in Attempts : Arrive(a) \/ Progress(a) \/ Disconnect(a)
    \/ \E c \in Changes : Begin(c) \/ Write(c) \/ Revoke(c) \/ AdminBlock(c)
    \/ Publish \/ Logout \/ Tick \/ Crash

Spec == Init /\ [][Next]_vars

-----------------------------------------------------------------------------
(* Properties.                                                             *)

\* No session or token outlives the credential it was issued for, and none is
\* issued for one that has changed since the password was computed
\* (login.rs:78-80): outside the window in which the change that holds
\* auth_transitions is about to revoke, every token stands for the credential
\* now configured, and for an account that is enabled.
SessionsAreCurrent ==
    \A i \in DOMAIN tokens :
        auth \in Changes \/ tokens[i].basis = Basis(config, tokens[i].door)

\* A recovery code opens one thing at most, and so does a TOTP period for as
\* long as TotpReplayStore::consume remembers it (totp.rs:24, auth.rs:230-253):
\* no disconnect while its removal is being written, no concurrent use from
\* another address and no restart lets the same code count twice (TOTP periods:
\* within one process).  What is left out is the login that verified a code,
\* waited for auth_transitions until the period was forgotten, and used it then.
Forgotten(use) == use.proof[1] = "totp" /\ use.proof[3] + 2 < use.at
ProofsAreSpentOnce ==
    \A i, j \in DOMAIN spent :
        i < j /\ spent[i].proof = spent[j].proof => Forgotten(spent[j])

\* However requests are interleaved or lost in a restart, no address is told
\* more than MaxFailures times that its password is wrong without a success, an
\* expired block, an administrator's pardon or the eviction of a record that
\* blocks nobody in between (auth.rs:165-167).
FailuresAreLimited == \A k \in Keys : wrong[k] <= MaxFailures

=============================================================================
