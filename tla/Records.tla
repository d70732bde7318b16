------------------------------- MODULE Records -------------------------------
(***************************************************************************)
(* The alerts and the accounts of the database, and everything that reads  *)
(* or writes them at the same time: the pipeline that stores alerts, the   *)
(* retention job (firewall/scheduler.py), the registration of users, the   *)
(* statistics page and the data reset, with lock timeouts and crashes.     *)
(*                                                                         *)
(* Each SELECT is a step of its own and reads what is committed by then.   *)
(* A request answers before get_db commits its session.                    *)
(***************************************************************************)
EXTENDS WriteLock, Integers, FiniteSets, Sequences

CONSTANTS
    Requests,       \* requests of the HTTP API, each served once
    Errands,        \* bound: which requests come together
    Verdicts,       \* bound: the severities of the alerts raised
    Names,          \* user names that may be asked for
    Admin,          \* DEFAULT_ADMIN_USER
    MaxAlerts,      \* DB_MAX_ALERTS_RETENTION
    Critical, Raised, Many,     \* threat level: 5 and 2 high, 5 medium alerts
    Cuts,           \* bound: how many of the first alerts may be over 15 minutes old
    MaxInserts,     \* bound: alerts raised
    MaxCrashes      \* bound: ends of the process

Severities == {"low", "medium", "high"}
Routes     == {"register", "login", "stats", "reset"}

\* nr counts the alerts in the order of their time stamps; ids are used again.
Alert   == [id : Nat \ {0}, nr : Nat \ {0}, sev : Severities, resolved : BOOLEAN]
\* by is who chose the password.
Account == [name : Names \cup {Admin}, by : Requests \cup {Admin}]
Tables  == [alerts : SUBSET Alert, users : SUBSET Account]

ASSUME RecordsAssumption ==
    /\ {"pipeline", "job", None, Admin} \cap Requests = {}
    /\ None \notin {"pipeline", "job"}
    /\ Admin \notin Names
    /\ Errands \subseteq [Requests -> Routes]
    /\ Verdicts \subseteq Severities /\ Cuts \subseteq Nat
    /\ MaxAlerts \in Nat /\ MaxInserts \in Nat /\ MaxCrashes \in Nat
    /\ {Critical, Raised, Many} \subseteq Nat \ {0} /\ Raised <= Critical

VARIABLES
    up,         \* the process runs
    crashes,    \* history: how often it ended
    raised,     \* history: how many alerts were flushed
    job,        \* the retention job: pc, how many alerts are in excess, the ids
                \* selected; reset, whether a reset overtook it
    req         \* per request: where it is and what it holds

vars == <<db, tx, up, crashes, raised, job, req>>

Process == <<up, crashes>>

Ended == {"registered", "token", "served", "refused", "conflict", "failed", "lost"}

Idle == [pc |-> "idle", excess |-> 0, ids |-> {}, reset |-> FALSE]

\* INTEGER PRIMARY KEY without AUTOINCREMENT: one more than the last.
IsNextId(alerts, id) ==
    /\ \A al \in alerts : al.id < id
    /\ id = 1 \/ \E last \in alerts : last.id = id - 1

\* The n alerts first in order of timestamp and id.
Oldest(alerts, n) ==
    {al \in alerts : Cardinality({other \in alerts : other.nr < al.nr}) < n}

\* What the job selects: resolved alerts first, then any, the oldest first.  No
\* alert is ever resolved (the only assignment is that of FlushAlert), so that
\* the first SELECT finds none and it matters only when the second is made.
Doomed(alerts, n) ==
    LET resolved == Oldest({al \in alerts : al.resolved}, n) IN
    resolved \cup Oldest(alerts \ resolved, n - Cardinality(resolved))

Named(users, name) == {u \in users : u.name = name}

\* Mutant: connections share a cache and read uncommitted rows.
VisibleDirty == tx.data

\* What a SELECT of a session that has written nothing reads.
Visible == db

\* get_current_user: the accounts a valid token may name, looked up again for
\* every request.
Callers == Visible.users

\* A request that waits for its turn or has come to an end.
Resting(place) == [pc |-> place, name |-> Admin, seen |-> << >>, cut |-> 0,
                   standing |-> {}, ever |-> {}, level |-> "low"]

End(r, place)  == req' = [req EXCEPT ![r] = Resting(place)]
Goto(r, place) == req' = [req EXCEPT ![r].pc = place]
At(r, place)   == up /\ req[r].pc = place

(***************************************************************************)
(* The pipeline: process_alert flushes the alert and commits it, or the    *)
(* session is rolled back (modules Pipeline and Enforcement say when).     *)
(***************************************************************************)
FlushAlert ==
    /\ up
    /\ tx.owner = None
    /\ raised < MaxInserts
    /\ \E sev \in Verdicts, id \in 1..MaxInserts :
        /\ IsNextId(db.alerts, id)
        /\ Write("pipeline", [db EXCEPT !.alerts =
              @ \cup {[id |-> id, nr |-> raised + 1, sev |-> sev, resolved |-> FALSE]}])
    /\ raised' = raised + 1
    /\ UNCHANGED <<Process, job, req>>

\* What was counted may change while a page is being read: standing keeps the
\* alerts committed all the time, ever those committed at some time.
Watched(alerts) ==
    [r \in Requests |->
        IF req[r].pc = "reading"
        THEN [req[r] EXCEPT !.standing = @ \cap alerts, !.ever = @ \cup alerts]
        ELSE req[r]]

KeepAlert ==
    /\ tx.owner = "pipeline"
    /\ Commit(tx.data)
    /\ req' = Watched(tx.data.alerts)
    /\ UNCHANGED <<Process, raised, job>>

DropAlert ==
    /\ tx.owner = "pipeline"
    /\ Rollback("pipeline")
    /\ UNCHANGED <<Process, raised, job, req>>

(***************************************************************************)
(* maintain_database_health: count, select, delete.                        *)
(***************************************************************************)
\* Mutant: one too many.
CountOneMore ==
    /\ up
    /\ job.pc = "idle"
    /\ Cardinality(db.alerts) > MaxAlerts
    /\ job' = [Idle EXCEPT !.pc = "select", !.excess = Cardinality(db.alerts) - MaxAlerts + 1]
    /\ UNCHANGED <<db, tx, Process, raised, req>>

CountAlerts ==
    /\ up
    /\ job.pc = "idle"
    /\ Cardinality(db.alerts) > MaxAlerts
    /\ job' = [Idle EXCEPT !.pc = "select", !.excess = Cardinality(db.alerts) - MaxAlerts]
    /\ UNCHANGED <<db, tx, Process, raised, req>>

\* Mutant: the newest alerts are selected.
SelectNewest ==
    /\ job.pc = "select"
    /\ job' = [job EXCEPT !.pc = "prune",
                          !.ids = {al.id : al \in db.alerts \ Doomed(db.alerts, job.excess)}]
    /\ UNCHANGED <<db, tx, Process, raised, req>>

SelectOldest ==
    /\ job.pc = "select"
    /\ job' = [job EXCEPT !.pc = "prune",
                          !.ids = {al.id : al \in Doomed(db.alerts, job.excess)}]
    /\ UNCHANGED <<db, tx, Process, raised, req>>

\* Nothing is left to delete, or the delete takes the lock.
Prune ==
    /\ job.pc = "prune"
    /\ \/ /\ job.ids = {}
          /\ job' = Idle
          /\ UNCHANGED <<db, tx>>
       \/ /\ job.ids # {}
          /\ CanWrite("job")
          /\ Write("job", [db EXCEPT !.alerts = {al \in @ : al.id \notin job.ids}])
          /\ job' = [job EXCEPT !.pc = "commit"]
    /\ UNCHANGED <<Process, raised, req>>

\* Mutant: the session is left open.
PruneLeftOpen ==
    /\ job.pc = "commit"
    /\ job' = Idle
    /\ UNCHANGED <<db, tx, Process, raised, req>>

\* Mutant: the session is closed without commit.
PruneForgotten ==
    /\ job.pc = "commit"
    /\ Rollback("job")
    /\ job' = Idle
    /\ UNCHANGED <<Process, raised, req>>

PruneCommit ==
    /\ job.pc = "commit"
    /\ Commit(tx.data)
    /\ job' = Idle
    /\ req' = Watched(tx.data.alerts)
    /\ UNCHANGED <<Process, raised>>

(***************************************************************************)
(* register: the caller must be an admin and the name free; the row is     *)
(* flushed, the answer sent, the session committed.                        *)
(***************************************************************************)
Register(r) ==
    /\ At(r, "register")
    /\ \E name \in Names \cup {Admin}, caller \in Callers :
        IF caller.by = Admin THEN req' = [req EXCEPT ![r].pc = "check", ![r].name = name]
                             ELSE End(r, "refused")
    /\ UNCHANGED <<db, tx, Process, raised, job>>

CheckName(r) ==
    /\ At(r, "check")
    /\ IF Named(Visible.users, req[r].name) = {} THEN Goto(r, "insert") ELSE End(r, "conflict")
    /\ UNCHANGED <<db, tx, Process, raised, job>>

\* Mutant: without flush the row is sent, and UNIQUE checked, by the commit.
InsertDeferred(r) ==
    /\ At(r, "insert")
    /\ CanWrite(r)
    /\ Write(r, db)
    /\ Goto(r, "flushed")
    /\ UNCHANGED <<Process, raised, job>>

\* UNIQUE decides between two requests that both found the name free.
InsertUser(r) ==
    /\ At(r, "insert")
    /\ CanWrite(r)
    /\ IF Named(db.users, req[r].name) = {}
       THEN /\ Write(r, [db EXCEPT !.users = @ \cup {[name |-> req[r].name, by |-> r]}])
            /\ Goto(r, "flushed")
       ELSE /\ End(r, "failed")
            /\ UNCHANGED <<db, tx>>
    /\ UNCHANGED <<Process, raised, job>>

AnswerUser(r) ==
    /\ At(r, "flushed")
    /\ Goto(r, "answered")
    /\ UNCHANGED <<db, tx, Process, raised, job>>

CommitUser(r) ==
    /\ At(r, "answered")
    /\ Commit(tx.data)
    /\ Goto(r, "registered")
    /\ UNCHANGED <<Process, raised, job>>

(***************************************************************************)
(* login: the token says no more than the name.                            *)
(***************************************************************************)
Login(r) ==
    /\ At(r, "login")
    /\ \E as \in Account :
        IF as \in Visible.users THEN req' = [req EXCEPT ![r].pc = "token", ![r].name = as.name]
                                ELSE End(r, "refused")
    /\ UNCHANGED <<db, tx, Process, raised, job>>

(***************************************************************************)
(* get_stats: a count after the other; cut stands for 15 minutes ago.  The *)
(* counts by day, type, address, port, protocol and hour are left out:     *)
(* they read the same rows between these.                                  *)
(***************************************************************************)
All      == [sevs |-> Severities, recent |-> FALSE]
Of(sev)  == [sevs |-> {sev}, recent |-> FALSE]
New(sev) == [sevs |-> {sev}, recent |-> TRUE]

Queries == << All, Of("low"), Of("medium"), Of("high"), New("high"), New("medium") >>

\* What a query of the page counts among the alerts.
Counts(query, alerts, cut) ==
    Cardinality({al \in alerts : al.sev \in query.sevs /\ (query.recent => al.nr > cut)})

OpenStats(r) ==
    /\ At(r, "stats")
    /\ Callers # {}
    /\ \E cut \in Cuts :
        req' = [req EXCEPT ![r].pc = "reading", ![r].cut = cut,
                           ![r].standing = db.alerts, ![r].ever = db.alerts]
    /\ UNCHANGED <<db, tx, Process, raised, job>>

ReadStats(r) ==
    /\ At(r, "reading")
    /\ Len(req[r].seen) < Len(Queries)
    /\ req' = [req EXCEPT ![r].seen = Append(@,
                  Counts(Queries[Len(req[r].seen) + 1], Visible.alerts, req[r].cut))]
    /\ UNCHANGED <<db, tx, Process, raised, job>>

ThreatLevel(highs, mediums) ==
    IF highs >= Critical THEN "critical"
    ELSE IF highs >= Raised THEN "high"
    ELSE IF mediums >= Many \/ highs >= 1 THEN "medium"
    ELSE "low"

AnswerStats(r) ==
    /\ At(r, "reading")
    /\ Len(req[r].seen) = Len(Queries)
    /\ req' = [req EXCEPT ![r] = [Resting("served") EXCEPT
                  !.level = ThreatLevel(req[r].seen[5], req[r].seen[6])]]
    /\ UNCHANGED <<db, tx, Process, raised, job>>

(***************************************************************************)
(* reset_system_data, as far as it deletes alerts (module Enforcement has  *)
(* what it does to rules): one at a time, then VACUUM on a connection of   *)
(* its own, whose failure is only logged.                                  *)
(***************************************************************************)
Resetting == {r \in Requests : req[r].pc \in {"purge", "purged", "compact", "compacting"}}

Reset(r) ==
    /\ At(r, "reset")
    /\ Callers # {}
    /\ IF Resetting = {} THEN Goto(r, "purge") ELSE End(r, "conflict")
    /\ UNCHANGED <<db, tx, Process, raised, job>>

Purge(r) ==
    /\ At(r, "purge")
    /\ CanWrite(r)
    /\ Write(r, [db EXCEPT !.alerts = {}])
    /\ Goto(r, "purged")
    /\ UNCHANGED <<Process, raised, job>>

PurgeCommit(r) ==
    /\ At(r, "purged")
    /\ Commit(tx.data)
    /\ req' = [Watched({}) EXCEPT ![r].pc = "compact"]
    /\ job' = [job EXCEPT !.reset = job.pc # "idle"]
    /\ UNCHANGED <<Process, raised>>

Compact(r) ==
    /\ At(r, "compact")
    /\ CanWrite(r)
    /\ Write(r, db)
    /\ Goto(r, "compacting")
    /\ UNCHANGED <<Process, raised, job>>

Compacted(r) ==
    /\ At(r, "compacting")
    /\ Rollback(r)
    /\ Goto(r, "served")
    /\ UNCHANGED <<Process, raised, job>>

(***************************************************************************)
(* Failures.                                                               *)
(***************************************************************************)

\* A statement waited for the lock longer than busy_timeout.
JobTimeout ==
    /\ job.pc = "prune"
    /\ job.ids # {}
    /\ ~CanWrite("job")
    /\ job' = Idle
    /\ UNCHANGED <<db, tx, Process, raised, req>>

RequestTimeout(r) ==
    /\ up
    /\ ~CanWrite(r)
    /\ \/ req[r].pc \in {"insert", "purge"} /\ End(r, "failed")
       \/ req[r].pc = "compact" /\ Goto(r, "served")
    /\ UNCHANGED <<db, tx, Process, raised, job>>

\* The requests that were not answered fail; of those that were, one that was
\* not committed is lost.
Crash ==
    /\ up
    /\ crashes < MaxCrashes
    /\ up' = FALSE
    /\ crashes' = crashes + 1
    /\ tx' = [owner |-> None, data |-> db]
    /\ job' = Idle
    /\ req' = [r \in Requests |->
          IF req[r].pc \in Routes \cup Ended THEN req[r]
          ELSE Resting(IF req[r].pc = "answered" THEN "lost" ELSE "failed")]
    /\ UNCHANGED <<db, raised>>

\* lifespan: the default admin is created when there is no user at all.
Start ==
    /\ ~up
    /\ up' = TRUE
    /\ IF db.users = {} THEN Commit([db EXCEPT !.users = {[name |-> Admin, by |-> Admin]}])
                        ELSE UNCHANGED <<db, tx>>
    /\ UNCHANGED <<crashes, raised, job, req>>

Init ==
    /\ db = [alerts |-> {}, users |-> {}]
    /\ tx = [owner |-> None, data |-> db]
    /\ up = FALSE
    /\ crashes = 0
    /\ raised = 0
    /\ job = Idle
    /\ \E errands \in Errands : req = [r \in Requests |-> Resting(errands[r])]

Pipeline  == FlushAlert \/ KeepAlert \/ DropAlert
Retention == CountAlerts \/ SelectOldest \/ Prune \/ PruneCommit \/ JobTimeout

\* A request comes in.
Comes(r) == Register(r) \/ Login(r) \/ OpenStats(r) \/ Reset(r)

\* A request goes on.
Goes(r) ==
    \/ CheckName(r) \/ InsertUser(r) \/ AnswerUser(r) \/ CommitUser(r)
    \/ ReadStats(r) \/ AnswerStats(r)
    \/ Purge(r) \/ PurgeCommit(r) \/ Compact(r) \/ Compacted(r)

Next ==
    \/ Pipeline \/ Retention \/ Crash \/ Start
    \/ \E r \in Requests : Comes(r) \/ Goes(r) \/ RequestTimeout(r)

\* The event loop resumes whoever can go on, the scheduler calls its job again
\* and again, and a supervisor starts the process.  Alerts and requests need
\* not come, crashes and timeouts need not happen.
Fairness ==
    /\ WF_vars(KeepAlert \/ DropAlert)
    /\ WF_vars(CountAlerts \/ SelectOldest \/ Prune \/ PruneCommit)
    /\ WF_vars(Start)
    /\ \A r \in Requests : WF_vars(Goes(r))

Spec == Init /\ [][Next]_vars /\ Fairness
-------------------------------------------------------------------------------
(***************************************************************************)
(* Properties.                                                             *)
(***************************************************************************)
Severity == [low |-> 0, medium |-> 1, high |-> 2, critical |-> 3]
Levels   == {"low", "medium", "high", "critical"}

\* Every variable has its type; the write transaction is that of the handler
\* whose steps say so.
TypeOK ==
    /\ db \in Tables
    /\ tx \in [owner : Requests \cup {"pipeline", "job", None}, data : Tables]
    /\ up \in BOOLEAN
    /\ crashes \in 0..MaxCrashes
    /\ raised \in 0..MaxInserts
    /\ job \in [pc : {"idle", "select", "prune", "commit"}, excess : Nat,
                ids : SUBSET (Nat \ {0}), reset : BOOLEAN]
    /\ req \in [Requests ->
           [pc : Routes \cup {"check", "insert", "flushed", "answered", "reading",
                  "purge", "purged", "compact", "compacting"} \cup Ended,
            name : Names \cup {Admin}, seen : Seq(Nat), cut : Nat,
            standing : SUBSET Alert, ever : SUBSET Alert, level : Levels]]
    /\ tx.owner = None => tx.data = db
    /\ tx.owner = "job" <=> job.pc = "commit"
    /\ \A r \in Requests :
           tx.owner = r <=> req[r].pc \in {"flushed", "answered", "purged", "compacting"}

\* "ordered deterministically by timestamp, id" (firewall/scheduler.py:85):
\* whatever was stored between the count, the select and the delete, the job
\* deletes no alert that is newer than one it leaves; unless a reset emptied the
\* table meanwhile (ActiveArePreserved has these rounds).  The order is all that
\* holds: the source says "oldest resolved alerts", but nothing ever resolves
\* one, so that all it deletes are active.
PrunesOldest ==
    [][job.pc = "commit" /\ job'.pc = "idle" /\ up' /\ ~job.reset =>
           \A gone \in db.alerts \ db'.alerts, left \in db'.alerts : gone.nr < left.nr]_vars

\* Stated by the job (firewall/scheduler.py:84): "If total alerts exceed
\* DB_MAX_ALERTS_RETENTION, prunes the oldest resolved alerts ... while
\* preserving recent/active incidents".  Nothing is ever resolved, so the limit
\* is all that is left to preserve an alert: an active one goes only when there
\* are too many.  A reset between select and delete empties the table and starts
\* the ids anew, and the job deletes the alerts that got its ids, however few.
ActiveArePreserved ==
    [][job.pc = "commit" /\ job'.pc = "idle" /\ up' =>
           \A gone \in db.alerts \ db'.alerts :
               gone.resolved \/ Cardinality(db.alerts) > MaxAlerts]_vars

\* Nor does it delete too many: what it counted may be stale when it deletes,
\* but the limit's worth of alerts is left, a reset apart.
KeepsLimit ==
    [][job.pc = "commit" /\ job'.pc = "idle" /\ up' /\ ~job.reset =>
           Cardinality(db'.alerts) >= MaxAlerts]_vars

\* "Enforces alert retention" (firewall/scheduler.py:84): a table above the
\* limit is brought back to it, timeouts, resets and crashes notwithstanding.
ExcessIsPruned ==
    (Cardinality(db.alerts) > MaxAlerts) ~> (Cardinality(db.alerts) <= MaxAlerts)

\* A name has one account, and a registration that was answered with success
\* owns it: the row is committed, or about to be with nobody able to take the
\* name meanwhile.  Only a crash between the answer and the commit undoes it.
AnswerHolds ==
    /\ \A u, v \in db.users : u.name = v.name => u = v
    /\ \A r \in Requests :
        /\ req[r].pc = "registered" => [name |-> req[r].name, by |-> r] \in db.users
        /\ req[r].pc = "answered" =>
               /\ [name |-> req[r].name, by |-> r] \in tx.data.users
               /\ Named(db.users, req[r].name) = {}

\* A token names an account for as long as the database exists: get_current_user
\* never finds that the user of a valid token is missing.
TokensStayValid ==
    \A r \in Requests : req[r].pc = "token" => Named(db.users, req[r].name) # {}

\* The page's counts come from many reads and need not agree with each other,
\* but each counts all alerts that were there all the time and no alert that
\* never was, and so does the threat level.
StatsBracketed ==
    [][\A r \in Requests : req[r].pc = "reading" /\ req'[r].pc = "served" =>
        LET counted(n, alerts) == Counts(Queries[n], alerts, req[r].cut)
            levelOf(alerts) == Severity[ThreatLevel(counted(5, alerts), counted(6, alerts))]
        IN  /\ \A n \in DOMAIN Queries : /\ counted(n, req[r].standing) <= req[r].seen[n]
                                         /\ req[r].seen[n] <= counted(n, req[r].ever)
            /\ levelOf(req[r].standing) <= Severity[req'[r].level]
            /\ Severity[req'[r].level] <= levelOf(req[r].ever)]_vars
=============================================================================
