---------------------------- MODULE RecordsProofs ----------------------------
(***************************************************************************)
(* The alerts and accounts of the database under every interleaving of the *)
(* pipeline, the retention job and any number of requests.                 *)
(***************************************************************************)
EXTENDS Records, FiniteSetTheorems, SequenceTheorems, TLAPS

Owners    == Requests \cup {"pipeline", "job", None}
JobStates == [pc : {"idle", "select", "prune", "commit"}, excess : Nat,
              ids : SUBSET (Nat \ {0}), reset : BOOLEAN]
Writing   == {"flushed", "answered", "purged", "compacting"}
Places    == Routes \cup {"check", "insert", "flushed", "answered", "reading",
                  "purge", "purged", "compact", "compacting"} \cup Ended
ReqStates == [pc : Places, name : Names \cup {Admin}, seen : Seq(Nat), cut : Nat,
              standing : SUBSET Alert, ever : SUBSET Alert, level : Levels]

(* Tables.  Alerts are numbered, and given ids, in the order they came; a  *)
(* name has one account.                                                    *)

Ordered(alerts) ==
    \A al, other \in alerts :
        /\ al.id = other.id => al = other
        /\ al.id < other.id => al.nr < other.nr

Unique(users) == \A u, v \in users : u.name = v.name => u = v

\* The statement that would resolve an alert is nowhere.
Active(alerts) == \A al \in alerts : al.resolved = FALSE

Sound(t, n) ==
    /\ t \in Tables
    /\ IsFiniteSet(t.alerts)
    /\ Active(t.alerts)
    /\ Ordered(t.alerts)
    /\ \A al \in t.alerts : al.nr <= n
    /\ Unique(t.users)

\* more has the alerts of some and newer ones.
Extends(more, some) ==
    /\ some \subseteq more
    /\ \A new \in more \ some, al \in some : al.id < new.id

StoreInv ==
    /\ Sound(db, raised) /\ Sound(tx.data, raised)
    /\ tx = [owner |-> tx.owner, data |-> tx.data]
    /\ tx.owner \in Owners
    /\ tx.owner = None => tx.data = db
    /\ db.users \subseteq tx.data.users
    /\ tx.owner = "pipeline" => Extends(tx.data.alerts, db.alerts)
    /\ up \in BOOLEAN /\ crashes \in 0..MaxCrashes /\ raised \in 0..MaxInserts
    /\ ~up => tx.owner = None

LockInv ==
    /\ tx.owner = "job" <=> job.pc = "commit"
    /\ \A r \in Requests : tx.owner = r <=> req[r].pc \in Writing

(* What the job holds is still right about the alerts, a reset apart. *)

Leaving(alerts, ids) == {al \in alerts : al.id \notin ids}
OlderGone(gone, left) == \A g \in gone, l \in left : g.nr < l.nr

JobInv ==
    /\ job \in JobStates
    /\ ~up => job.pc = "idle"
    /\ job.pc = "select" /\ ~job.reset =>
           Cardinality(db.alerts) >= job.excess + MaxAlerts
    /\ job.pc = "prune" /\ ~job.reset =>
           /\ job.ids \subseteq {al.id : al \in db.alerts}
           /\ OlderGone(db.alerts \ Leaving(db.alerts, job.ids), Leaving(db.alerts, job.ids))
           /\ Cardinality(Leaving(db.alerts, job.ids)) >= MaxAlerts
    /\ job.pc = "commit" /\ ~job.reset =>
           /\ OlderGone(db.alerts \ tx.data.alerts, tx.data.alerts)
           /\ Cardinality(tx.data.alerts) >= MaxAlerts

(* What a request was told or is being told is so. *)

Bracketed(q) ==
    /\ IsFiniteSet(q.ever) /\ q.standing \subseteq q.ever
    /\ Len(q.seen) <= Len(Queries)
    /\ \A n \in 1..Len(q.seen) :
           /\ Counts(Queries[n], q.standing, q.cut) <= q.seen[n]
           /\ q.seen[n] <= Counts(Queries[n], q.ever, q.cut)

ToldAs(r, q, d, pending) ==
    /\ q.pc = "registered" => [name |-> q.name, by |-> r] \in d.users
    /\ q.pc = "token" => Named(d.users, q.name) # {}
    /\ q.pc \in {"flushed", "answered"} =>
           /\ [name |-> q.name, by |-> r] \in pending.users
           /\ Named(d.users, q.name) = {}
           /\ pending.alerts = d.alerts
    /\ q.pc = "purged" => pending.alerts = {}
    /\ q.pc = "stats" => q.seen = << >>
    /\ q.pc = "reading" =>
           /\ Bracketed(q)
           /\ q.standing \subseteq d.alerts
           /\ d.alerts \subseteq q.ever

Told(r) == ToldAs(r, req[r], db, tx.data)

ReqInv ==
    /\ req \in [Requests -> ReqStates]
    /\ \A r \in Requests : Told(r)

Inv == StoreInv /\ LockInv /\ JobInv /\ ReqInv
-------------------------------------------------------------------------------
(* Finite sets and counting. *)

LEMMA CardNat ==
    ASSUME NEW S, IsFiniteSet(S)
    PROVE  Cardinality(S) \in Nat
BY FS_CardinalityType

LEMMA SubsetCard ==
    ASSUME NEW S, IsFiniteSet(S), NEW T \in SUBSET S
    PROVE  IsFiniteSet(T) /\ Cardinality(T) \in Nat /\ Cardinality(T) <= Cardinality(S)
BY FS_Subset, FS_CardinalityType

\* The n oldest are at most n: leave out the newest of them, and the others
\* are among those older than it.
LEMMA OldestFew ==
    ASSUME NEW alerts \in SUBSET Alert, IsFiniteSet(alerts), Ordered(alerts),
           NEW m \in Nat, \A al \in alerts : al.nr <= m, NEW n \in Nat
    PROVE  Cardinality(Oldest(alerts, n)) <= n
<1> DEFINE O == Oldest(alerts, n)
           Less == {ss \in Nat \X Nat : ss[1] < ss[2]}
           T == {m - al.nr : al \in O}
<1>1. O \in SUBSET alerts /\ IsFiniteSet(O) /\ Cardinality(O) \in Nat
    BY SubsetCard DEF Oldest
<1>2. CASE O = {}
    BY <1>2, FS_EmptySet
<1>3. CASE O # {}
    <2>1. \A al \in O : al.nr \in Nat /\ al.nr <= m /\ al.id \in Nat
        BY <1>1 DEF Alert
    <2> HIDE DEF O
    <2>2. T \subseteq Nat /\ T # {}
        BY <1>3, <2>1
    <2>3. IsWellFoundedOn(Less, Nat)
        BY NatLessThanWellFounded DEF OpToRel
    <2>4. \A k, j \in Nat : k < j => <<k, j>> \in Less
        OBVIOUS
    <2> HIDE DEF Less, T
    <2>5. PICK x \in T : \A y \in T : <<y, x>> \notin Less
        BY <2>2, <2>3, WFMin
    <2>6. PICK last \in O : x = m - last.nr
        BY <2>5 DEF T
    <2>7. \A al \in O : al.nr <= last.nr
        <3> TAKE al \in O
        <3>1. m - al.nr \in T /\ m - al.nr \in Nat /\ x \in Nat
            BY <2>1, <2>2, <2>5 DEF T
        <3>2. ~(m - al.nr < x)
            BY <2>4, <2>5, <3>1
        <3> QED
            BY <2>1, <2>6, <3>1, <3>2
    <2> DEFINE older == {other \in alerts : other.nr < last.nr}
    <2>8. Cardinality(older) < n
        BY <2>6 DEF O, Oldest
    <2>9. O \ {last} \in SUBSET older
        <3> SUFFICES ASSUME NEW al \in O, al # last PROVE al \in older
            OBVIOUS
        <3>1. al \in alerts /\ last \in alerts /\ al.id # last.id
            BY <1>1, <2>6 DEF Ordered
        <3>2. al.id < last.id \/ last.id < al.id
            BY <2>1, <2>6, <3>1
        <3>3. al.nr # last.nr
            BY <2>1, <2>6, <3>1, <3>2 DEF Ordered
        <3> QED
            BY <2>1, <2>6, <2>7, <3>1, <3>3
    <2>10. IsFiniteSet(older) /\ Cardinality(older) \in Nat
        BY SubsetCard
    <2>11. Cardinality(O \ {last}) <= Cardinality(older)
        BY <2>9, <2>10, SubsetCard
    <2>12. Cardinality(O \ {last}) = Cardinality(O) - 1
        BY <1>1, <2>6, FS_RemoveElement
    <2> HIDE DEF older
    <2> QED
        BY <1>1, <2>8, <2>10, <2>11, <2>12 DEF O
<1> QED
    BY <1>2, <1>3

\* No alert is resolved: the job's selection is the oldest alerts.
LEMMA DoomedOldest ==
    ASSUME NEW alerts, Active(alerts), NEW n \in Nat
    PROVE  Doomed(alerts, n) = Oldest(alerts, n)
<1>1. {al \in alerts : al.resolved} = {}
    BY DEF Active
<1>2. Oldest({}, n) = {}
    BY DEF Oldest
<1>3. Doomed(alerts, n) = Oldest(alerts \ {}, n - Cardinality({}))
    BY <1>1, <1>2 DEF Doomed
<1>4. Cardinality({}) = 0 /\ n - 0 = n /\ alerts \ {} = alerts
    BY FS_EmptySet
<1> QED
    BY <1>3, <1>4

\* Whoever is not among the n oldest is newer than all of them.
LEMMA OldestOlder ==
    ASSUME NEW alerts \in SUBSET Alert, IsFiniteSet(alerts), NEW n \in Nat,
           NEW g \in Oldest(alerts, n), NEW l \in alerts \ Oldest(alerts, n)
    PROVE  g.nr < l.nr
<1> DEFINE before(al) == {other \in alerts : other.nr < al.nr}
<1>1. g \in alerts /\ l \in alerts /\ Cardinality(before(g)) < n /\ ~(Cardinality(before(l)) < n)
    BY DEF Oldest
<1>2. \A al \in alerts : al.nr \in Nat
    BY DEF Alert
<1> SUFFICES ASSUME l.nr <= g.nr PROVE FALSE
    BY <1>1, <1>2
<1>3. before(l) \in SUBSET before(g)
    BY <1>1, <1>2
<1>4. IsFiniteSet(before(g)) /\ Cardinality(before(g)) \in Nat
    BY SubsetCard
<1>5. Cardinality(before(l)) <= Cardinality(before(g)) /\ Cardinality(before(l)) \in Nat
    BY <1>3, <1>4, SubsetCard
<1> HIDE DEF before
<1> QED
    BY <1>1, <1>4, <1>5

(* The statistics grow with the alerts they count. *)

LEMMA QueryAt == Len(Queries) = 6 /\ Queries[5] = New("high") /\ Queries[6] = New("medium")
BY DEF Queries

LEMMA CountsGrow ==
    ASSUME NEW more, IsFiniteSet(more), NEW some \in SUBSET more, NEW query, NEW cut
    PROVE  /\ Counts(query, some, cut) \in Nat /\ Counts(query, more, cut) \in Nat
           /\ Counts(query, some, cut) <= Counts(query, more, cut)
<1> DEFINE counted(alerts) ==
        {al \in alerts : al.sev \in query.sevs /\ (query.recent => al.nr > cut)}
<1>1. counted(more) \in SUBSET more /\ counted(some) \in SUBSET counted(more)
    OBVIOUS
<1> HIDE DEF counted
<1>2. IsFiniteSet(counted(more)) /\ Cardinality(counted(more)) \in Nat
    BY <1>1, SubsetCard
<1>3. Cardinality(counted(some)) \in Nat /\ Cardinality(counted(some)) <= Cardinality(counted(more))
    BY <1>1, <1>2, SubsetCard
<1> QED
    BY <1>2, <1>3 DEF Counts, counted

LEMMA LevelType ==
    ASSUME NEW highs \in Nat, NEW mediums \in Nat
    PROVE  ThreatLevel(highs, mediums) \in Levels
BY DEF ThreatLevel, Levels

LEMMA LevelGrows ==
    ASSUME NEW h \in Nat, NEW m \in Nat, NEW hh \in Nat, NEW mm \in Nat,
           h <= hh, m <= mm
    PROVE  Severity[ThreatLevel(h, m)] <= Severity[ThreatLevel(hh, mm)]
<1>1. Critical \in Nat /\ Raised \in Nat /\ Many \in Nat /\ Raised <= Critical
    BY RecordsAssumption
<1> QED
    BY <1>1 DEF ThreatLevel, Severity

(* What the statements do to sound tables. *)

LEMMA SoundParts ==
    ASSUME NEW t, NEW n, Sound(t, n)
    PROVE  /\ t = [alerts |-> t.alerts, users |-> t.users]
           /\ t.alerts \in SUBSET Alert /\ t.users \in SUBSET Account
           /\ IsFiniteSet(t.alerts) /\ Ordered(t.alerts) /\ Unique(t.users)
           /\ Active(t.alerts)
           /\ \A al \in t.alerts : al.nr <= n
BY DEF Sound, Tables

LEMMA SoundOf ==
    ASSUME NEW alerts \in SUBSET Alert, NEW users \in SUBSET Account, NEW n,
           IsFiniteSet(alerts), Ordered(alerts), Active(alerts), Unique(users),
           \A al \in alerts : al.nr <= n
    PROVE  Sound([alerts |-> alerts, users |-> users], n)
BY DEF Sound, Tables

LEMMA SoundFewer ==
    ASSUME NEW t, NEW n, Sound(t, n), NEW alerts \in SUBSET t.alerts
    PROVE  Sound([t EXCEPT !.alerts = alerts], n)
<1>1. [t EXCEPT !.alerts = alerts] = [alerts |-> alerts, users |-> t.users]
    BY DEF Sound, Tables
<1>2. IsFiniteSet(alerts) /\ Ordered(alerts) /\ Active(alerts)
    BY SoundParts, SubsetCard DEF Ordered, Active
<1> QED
    BY <1>1, <1>2, SoundParts, SoundOf

LEMMA SoundUsers ==
    ASSUME NEW t, NEW n, Sound(t, n), NEW users \in SUBSET Account, Unique(users)
    PROVE  Sound([t EXCEPT !.users = users], n)
<1>1. [t EXCEPT !.users = users] = [alerts |-> t.alerts, users |-> users]
    BY DEF Sound, Tables
<1> QED
    BY <1>1, SoundParts, SoundOf

LEMMA SoundLater ==
    ASSUME NEW t, NEW n \in Nat, Sound(t, n)
    PROVE  Sound(t, n + 1)
<1>1. \A al \in t.alerts : al.nr \in Nat /\ al.nr <= n + 1
    BY SoundParts DEF Alert
<1> QED
    BY <1>1 DEF Sound

LEMMA SoundNewer ==
    ASSUME NEW t, NEW n \in Nat, Sound(t, n), NEW id \in Nat \ {0}, NEW sev \in Severities,
           IsNextId(t.alerts, id)
    PROVE  LET new  == [id |-> id, nr |-> n + 1, sev |-> sev, resolved |-> FALSE]
               more == [t EXCEPT !.alerts = @ \cup {new}]
           IN  /\ Sound(more, n + 1)
               /\ Extends(more.alerts, t.alerts)
               /\ more.users = t.users
<1> DEFINE new  == [id |-> id, nr |-> n + 1, sev |-> sev, resolved |-> FALSE]
           alerts == t.alerts \cup {new}
<1>1. new \in Alert /\ new.id = id /\ new.nr = n + 1 /\ new.resolved = FALSE
    <2>1. n + 1 \in Nat \ {0}
        OBVIOUS
    <2>2. new \in Alert
        BY <2>1, Zenon DEF Alert
    <2>3. new.id = id /\ new.nr = n + 1 /\ new.resolved = FALSE
        BY Zenon
    <2> QED
        BY <2>2, <2>3
<1> HIDE DEF new
<1>2. [t EXCEPT !.alerts = @ \cup {new}] = [alerts |-> alerts, users |-> t.users]
    <2>1. t = [alerts |-> t.alerts, users |-> t.users]
        BY SoundParts
    <2> QED
        BY <2>1
<1>3. \A al \in t.alerts : al.id \in Nat /\ al.nr \in Nat /\ al.id < id /\ al.nr <= n
    BY SoundParts DEF Alert, IsNextId
<1>4. Ordered(alerts) /\ Active(alerts)
    <2>1. Ordered(alerts)
        BY <1>1, <1>3, SoundParts DEF Ordered
    <2>2. Active(alerts)
        BY <1>1, SoundParts DEF Active
    <2> QED
        BY <2>1, <2>2
<1>5. IsFiniteSet(alerts)
    BY SoundParts, FS_AddElement
<1>6. alerts \in SUBSET Alert /\ \A al \in alerts : al.nr <= n + 1
    BY <1>1, <1>3, SoundParts
<1>7. Sound([alerts |-> alerts, users |-> t.users], n + 1)
    BY <1>4, <1>5, <1>6, SoundParts, SoundOf
<1>8. Extends(alerts, t.alerts)
    BY <1>1, <1>3 DEF Extends
<1> QED
    BY <1>2, <1>7, <1>8 DEF new
-------------------------------------------------------------------------------
(* The steps, one part of the invariant after the other: the tables.       *)

LEMMA StoreSame ==
    ASSUME StoreInv, UNCHANGED <<db, tx, Process, raised>>
    PROVE  StoreInv'
BY DEF StoreInv, Process

LEMMA StoreCommit ==
    ASSUME StoreInv, up, Commit(tx.data), UNCHANGED <<Process, raised>>
    PROVE  StoreInv'
BY RecordsAssumption DEF StoreInv, Commit, Process, Owners

LEMMA StoreRollback ==
    ASSUME StoreInv, NEW s, Rollback(s), UNCHANGED <<Process, raised>>
    PROVE  StoreInv'
BY RecordsAssumption DEF StoreInv, Rollback, Process, Owners

LEMMA StoreWrite ==
    ASSUME StoreInv, NEW s \in Owners, s # "pipeline", s # None, up,
           NEW t, Write(s, t), Sound(t, raised), db.users \subseteq t.users,
           UNCHANGED <<Process, raised>>
    PROVE  StoreInv'
BY DEF StoreInv, Write, Process

LEMMA StoreFlush ==
    ASSUME StoreInv, FlushAlert
    PROVE  StoreInv'
<1>1. PICK sev \in Verdicts, id \in 1..MaxInserts :
        /\ IsNextId(db.alerts, id)
        /\ Write("pipeline", [db EXCEPT !.alerts =
              @ \cup {[id |-> id, nr |-> raised + 1, sev |-> sev, resolved |-> FALSE]}])
    BY DEF FlushAlert
<1> DEFINE t == [db EXCEPT !.alerts =
              @ \cup {[id |-> id, nr |-> raised + 1, sev |-> sev, resolved |-> FALSE]}]
<1>2. raised \in Nat /\ id \in Nat \ {0} /\ sev \in Severities /\ Sound(db, raised)
    BY RecordsAssumption DEF StoreInv
<1>3. Sound(t, raised + 1) /\ Extends(t.alerts, db.alerts) /\ t.users = db.users
    BY <1>1, <1>2, SoundNewer
<1>4. Sound(db, raised + 1)
    BY <1>2, SoundLater
<1>5. raised' = raised + 1 /\ raised' \in 0..MaxInserts /\ UNCHANGED <<up, crashes>> /\ up
    BY RecordsAssumption DEF FlushAlert, StoreInv, Process
<1>6. tx' = [owner |-> "pipeline", data |-> t] /\ db' = db
    BY <1>1 DEF Write
<1> HIDE DEF t
<1> QED
    BY <1>3, <1>4, <1>5, <1>6, RecordsAssumption DEF StoreInv, Owners

LEMMA StoreRetention ==
    ASSUME StoreInv, LockInv, JobInv, Retention
    PROVE  StoreInv'
<1>1. CASE CountAlerts \/ SelectOldest \/ JobTimeout
    BY <1>1, StoreSame DEF CountAlerts, SelectOldest, JobTimeout
<1>2. CASE Prune
    <2>1. CASE UNCHANGED <<db, tx>>
        BY <1>2, <2>1, StoreSame DEF Prune
    <2>2. CASE Write("job", [db EXCEPT !.alerts = {al \in @ : al.id \notin job.ids}])
        <3> DEFINE t == [db EXCEPT !.alerts = {al \in @ : al.id \notin job.ids}]
        <3>1. Sound(db, raised) /\ db \in Tables
            BY DEF StoreInv, Sound
        <3>2. t.users = db.users /\ t = [db EXCEPT !.alerts = Leaving(db.alerts, job.ids)]
            BY <3>1 DEF Tables, Leaving
        <3>3. Leaving(db.alerts, job.ids) \in SUBSET db.alerts
            BY DEF Leaving
        <3>4. Sound(t, raised)
            BY <3>1, <3>2, <3>3, SoundFewer
        <3>5. up
            BY <1>2 DEF Prune, JobInv, StoreInv
        <3> HIDE DEF t
        <3> QED
            BY <1>2, <2>2, <3>2, <3>4, <3>5, StoreWrite, RecordsAssumption DEF t, Prune, Owners
    <2> QED
        BY <1>2, <2>1, <2>2 DEF Prune
<1>3. CASE PruneCommit
    <2>1. tx.owner = "job"
        BY <1>3 DEF PruneCommit, LockInv
    <2>2. up
        BY <2>1, RecordsAssumption DEF StoreInv
    <2> QED
        BY <1>3, <2>2, StoreCommit DEF PruneCommit
<1> QED
    BY <1>1, <1>2, <1>3 DEF Retention

LEMMA StoreRequests ==
    ASSUME StoreInv, LockInv, ReqInv, NEW r \in Requests,
           Comes(r) \/ Goes(r) \/ RequestTimeout(r)
    PROVE  StoreInv'
<1> USE RecordsAssumption
<1>1. r \in Owners /\ r # "pipeline" /\ r # None
    BY DEF Owners
<1>2. CASE UNCHANGED <<db, tx>>
    <2>1. UNCHANGED <<Process, raised>>
        BY <1>2 DEF Comes, Register, Login, OpenStats, Reset, Goes, CheckName, InsertUser,
                    AnswerUser, CommitUser, ReadStats, AnswerStats, Purge, PurgeCommit,
                    Compact, Compacted, RequestTimeout
    <2> QED
        BY <1>2, <2>1, StoreSame
<1>3. CASE CommitUser(r) \/ PurgeCommit(r)
    BY <1>3, StoreCommit DEF CommitUser, PurgeCommit, At
<1>4. CASE Compacted(r)
    BY <1>4, StoreRollback DEF Compacted
<1>5. CASE InsertUser(r) /\ ~UNCHANGED <<db, tx>>
    <2> DEFINE new == [name |-> req[r].name, by |-> r]
    <2>1. /\ Named(db.users, req[r].name) = {}
          /\ Write(r, [db EXCEPT !.users = @ \cup {new}])
          /\ UNCHANGED <<Process, raised>> /\ up
        BY <1>5 DEF InsertUser, At
    <2>2. db \in Tables /\ Sound(db, raised)
        BY DEF StoreInv, Sound
    <2>3. new \in Account
        BY DEF ReqInv, ReqStates, Account
    <2>4. db.users \cup {new} \in SUBSET Account /\ Unique(db.users \cup {new})
        BY <2>1, <2>2, <2>3, SoundParts DEF Unique, Named
    <2> HIDE DEF new
    <2>5. [db EXCEPT !.users = @ \cup {new}] = [db EXCEPT !.users = db.users \cup {new}]
        OBVIOUS
    <2>6. Sound([db EXCEPT !.users = db.users \cup {new}], raised)
        BY <2>2, <2>4, SoundUsers
    <2>7. db.users \subseteq [db EXCEPT !.users = db.users \cup {new}].users
        BY <2>2 DEF Tables
    <2> QED
        BY <1>1, <2>1, <2>5, <2>6, <2>7, StoreWrite
<1>6. CASE Purge(r)
    <2>1. db \in Tables /\ Sound(db, raised)
        BY DEF StoreInv, Sound
    <2>2. Sound([db EXCEPT !.alerts = {}], raised)
        BY <2>1, SoundFewer
    <2>3. [db EXCEPT !.alerts = {}].users = db.users
        BY <2>1 DEF Tables
    <2> QED
        BY <1>1, <1>6, <2>2, <2>3, StoreWrite DEF Purge, At
<1>7. CASE Compact(r)
    BY <1>1, <1>7, StoreWrite DEF Compact, At, StoreInv
<1> QED
    BY <1>2, <1>3, <1>4, <1>5, <1>6, <1>7
       DEF Comes, Register, Login, OpenStats, Reset, Goes, CheckName, AnswerUser,
           ReadStats, AnswerStats, RequestTimeout

LEMMA StoreEnds ==
    ASSUME StoreInv, Crash \/ Start
    PROVE  StoreInv'
<1> USE RecordsAssumption
<1>1. CASE Crash
    <2>1. tx' = [owner |-> None, data |-> db] /\ db' = db /\ raised' = raised /\ up' = FALSE
        BY <1>1 DEF Crash
    <2>2. crashes' \in 0..MaxCrashes
        BY <1>1 DEF Crash, StoreInv
    <2> QED
        BY <2>1, <2>2 DEF StoreInv, Owners
<1>2. CASE Start
    <2> DEFINE admin == {[name |-> Admin, by |-> Admin]}
    <2>1. UNCHANGED <<crashes, raised>> /\ up' = TRUE
        BY <1>2 DEF Start
    <2>2. CASE UNCHANGED <<db, tx>>
        BY <2>1, <2>2 DEF StoreInv
    <2>3. CASE Commit([db EXCEPT !.users = admin])
        <3>1. admin \in SUBSET Account /\ Unique(admin)
            BY DEF Account, Unique
        <3>2. Sound([db EXCEPT !.users = admin], raised)
            BY <3>1, SoundUsers DEF StoreInv
        <3> HIDE DEF admin
        <3> QED
            BY <2>1, <2>3, <3>2 DEF StoreInv, Commit, Owners
    <2> QED
        BY <1>2, <2>2, <2>3 DEF Start
<1> QED
    BY <1>1, <1>2

LEMMA StoreNext ==
    ASSUME Inv, [Next]_vars
    PROVE  StoreInv'
<1>1. CASE Pipeline
    <2>1. CASE KeepAlert
        <3>1. up
            BY <2>1, RecordsAssumption DEF KeepAlert, Inv, StoreInv
        <3> QED
            BY <2>1, <3>1, StoreCommit DEF KeepAlert, Inv
    <2>2. CASE DropAlert
        BY <2>2, StoreRollback DEF DropAlert, Inv
    <2>3. CASE FlushAlert
        BY <2>3, StoreFlush DEF Inv
    <2> QED
        BY <1>1, <2>1, <2>2, <2>3 DEF Pipeline
<1>2. CASE UNCHANGED vars
    BY <1>2, StoreSame DEF vars, Process, Inv
<1> QED
    BY <1>1, <1>2, StoreRetention, StoreRequests, StoreEnds DEF Next, Inv

(* The requests.                                                            *)

LEMMA ToldStill ==
    ASSUME NEW r, NEW q, NEW d, NEW t, NEW dd, NEW tt, ToldAs(r, q, d, t),
           d.users \subseteq dd.users, dd.alerts = d.alerts,
           q.pc \in Writing => dd = d /\ tt = t
    PROVE  ToldAs(r, q, dd, tt)
BY DEF ToldAs, Named, Writing

\* One request moves to q; whoever else owns the transaction keeps it.
LEMMA RequestMoves ==
    ASSUME Inv, NEW r \in Requests, NEW q \in ReqStates,
           req' = [req EXCEPT ![r] = q], job' = job,
           db.users \subseteq db'.users, db'.alerts = db.alerts,
           \/ UNCHANGED <<db, tx>> /\ (q.pc \in Writing <=> req[r].pc \in Writing)
           \/ tx.owner \in {None, r} /\ tx'.owner = r /\ q.pc \in Writing
           \/ tx.owner = r /\ tx'.owner = None /\ q.pc \notin Writing,
           ToldAs(r, q, db', tx'.data)
    PROVE  LockInv' /\ ReqInv'
<1>1. req \in [Requests -> ReqStates] /\ None \notin Requests /\ "job" \notin Requests /\ "job" # None
    BY RecordsAssumption DEF Inv, ReqInv
<1>2. req' \in [Requests -> ReqStates] /\ req'[r] = q
        /\ \A o \in Requests : o # r => req'[o] = req[o]
    BY <1>1
<1>3. LockInv'
    BY <1>1, <1>2 DEF Inv, LockInv
<1>4. \A o \in Requests : Told(o)'
    <2> TAKE o \in Requests
    <2>1. CASE o = r
        BY <1>2, <2>1 DEF Told
    <2>2. CASE o # r
        <3>1. req'[o] = req[o] /\ ToldAs(o, req[o], db, tx.data)
            BY <1>2, <2>2 DEF Inv, ReqInv, Told
        <3>2. req[o].pc \in Writing => db' = db /\ tx'.data = tx.data
            BY <1>1, <2>2 DEF Inv, LockInv
        <3>3. ToldAs(o, req[o], db', tx'.data)
            BY <3>1, <3>2, ToldStill
        <3> QED
            BY <3>1, <3>3 DEF Told
    <2> QED
        BY <2>1, <2>2
<1> QED
    BY <1>2, <1>3, <1>4 DEF ReqInv

LEMMA RestingType ==
    ASSUME NEW pc \in Routes \cup Ended
    PROVE  Resting(pc) \in ReqStates /\ Resting(pc).pc = pc
<1>1. << >> \in Seq(Nat)
    BY EmptySeq
<1> QED
    BY <1>1 DEF Resting, ReqStates, Places, Levels

\* The places at which something is owed to a request.
Owed == {"registered", "token", "flushed", "answered", "purged", "reading", "stats"}

LEMMA NothingTold ==
    ASSUME NEW r, NEW q, NEW d, NEW t,
           q.pc \notin Owed
    PROVE  ToldAs(r, q, d, t)
BY DEF ToldAs, Owed

LEMMA RequestEnds ==
    ASSUME Inv, NEW r \in Requests, NEW pc \in Ended \ {"registered", "token"},
           End(r, pc), req[r].pc \notin Writing, UNCHANGED <<db, tx, job>>
    PROVE  LockInv' /\ ReqInv'
<1>1. Resting(pc) \in ReqStates /\ Resting(pc).pc = pc
    BY RestingType
<1>2. pc \notin Writing /\ pc \notin Owed
    BY DEF Ended, Writing, Owed
<1>3. ToldAs(r, Resting(pc), db', tx'.data)
    BY <1>1, <1>2, NothingTold
<1>4. req' = [req EXCEPT ![r] = Resting(pc)]
    BY DEF End
<1> HIDE DEF Resting
<1> QED
    BY <1>1, <1>2, <1>3, <1>4, RequestMoves

\* The state of a request with only its place changed.
Moved(q, pc) ==
    [pc |-> pc, name |-> q.name, seen |-> q.seen, cut |-> q.cut,
     standing |-> q.standing, ever |-> q.ever, level |-> q.level]

LEMMA MovedType ==
    ASSUME NEW q \in ReqStates, NEW pc \in Places
    PROVE  Moved(q, pc) \in ReqStates
BY DEF Moved, ReqStates

LEMMA MovedIs ==
    ASSUME NEW q \in ReqStates, NEW pc
    PROVE  [q EXCEPT !.pc = pc] = Moved(q, pc)
BY DEF ReqStates, Moved

LEMMA SeenIs ==
    ASSUME NEW q \in ReqStates, NEW seen
    PROVE  [q EXCEPT !.seen = seen]
               = [pc |-> q.pc, name |-> q.name, seen |-> seen, cut |-> q.cut,
                  standing |-> q.standing, ever |-> q.ever, level |-> q.level]
BY DEF ReqStates

LEMMA GotoMoves ==
    ASSUME ReqInv, NEW r \in Requests, NEW pc, Goto(r, pc)
    PROVE  req' = [req EXCEPT ![r] = Moved(req[r], pc)]
<1>1. req \in [Requests -> ReqStates] /\ req[r] \in ReqStates
    BY DEF ReqInv
<1>2. [req[r] EXCEPT !.pc = pc] = Moved(req[r], pc)
    BY <1>1, MovedIs
<1>3. req' = [req EXCEPT ![r] = [req[r] EXCEPT !.pc = pc]]
    BY <1>1 DEF Goto
<1> QED
    BY <1>2, <1>3

\* ... and with its name.
Renamed(q, pc, name) ==
    [pc |-> pc, name |-> name, seen |-> q.seen, cut |-> q.cut,
     standing |-> q.standing, ever |-> q.ever, level |-> q.level]

LEMMA RenamedIs ==
    ASSUME NEW q \in ReqStates, NEW pc, NEW name
    PROVE  [[q EXCEPT !.pc = pc] EXCEPT !.name = name] = Renamed(q, pc, name)
<1>1. [Moved(q, pc) EXCEPT !.name = name] = Renamed(q, pc, name)
    BY DEF Moved, Renamed
<1> QED
    BY <1>1, MovedIs

LEMMA RenameMoves ==
    ASSUME ReqInv, NEW r \in Requests, NEW pc \in Places, NEW name \in Names \cup {Admin},
           req' = [req EXCEPT ![r].pc = pc, ![r].name = name]
    PROVE  /\ req' = [req EXCEPT ![r] = Renamed(req[r], pc, name)]
           /\ Renamed(req[r], pc, name) \in ReqStates
<1>1. req \in [Requests -> ReqStates] /\ req[r] \in ReqStates
    BY DEF ReqInv
<1>2. [[req[r] EXCEPT !.pc = pc] EXCEPT !.name = name] = Renamed(req[r], pc, name)
    BY <1>1, RenamedIs
<1>3. req' = [req EXCEPT ![r] = [[req[r] EXCEPT !.pc = pc] EXCEPT !.name = name]]
    BY <1>1
<1>4. Renamed(req[r], pc, name) \in ReqStates
    BY <1>1 DEF Renamed, ReqStates
<1> QED
    BY <1>2, <1>3, <1>4

\* A request goes to another place, at which nothing is owed to it yet.
LEMMA RequestGoesOn ==
    ASSUME Inv, NEW r \in Requests, NEW pc \in Places, Goto(r, pc), UNCHANGED job,
           db.users \subseteq db'.users, db'.alerts = db.alerts,
           \/ UNCHANGED <<db, tx>> /\ (pc \in Writing <=> req[r].pc \in Writing)
           \/ tx.owner \in {None, r} /\ tx'.owner = r /\ pc \in Writing
           \/ tx.owner = r /\ tx'.owner = None /\ pc \notin Writing,
           ToldAs(r, Moved(req[r], pc), db', tx'.data)
    PROVE  LockInv' /\ ReqInv'
<1>1. req[r] \in ReqStates
    BY DEF Inv, ReqInv
<1>2. Moved(req[r], pc) \in ReqStates /\ Moved(req[r], pc).pc = pc
    BY <1>1, MovedType DEF Moved
<1>3. req' = [req EXCEPT ![r] = Moved(req[r], pc)]
    BY GotoMoves DEF Inv
<1> QED
    BY <1>2, <1>3, RequestMoves

LEMMA RegisterKeeps ==
    ASSUME Inv, NEW r \in Requests,
           Register(r) \/ CheckName(r) \/ InsertUser(r) \/ AnswerUser(r) \/ CommitUser(r)
    PROVE  LockInv' /\ ReqInv'
<1>1. req[r] \in ReqStates /\ Told(r) /\ (tx.owner = r <=> req[r].pc \in Writing)
    BY DEF Inv, ReqInv, LockInv
<1>2. db \in Tables /\ tx.data \in Tables /\ db.users \subseteq tx.data.users
    BY DEF Inv, StoreInv, Sound
<1>3. None # r
    BY RecordsAssumption
<1>4. CASE Register(r)
    <2>1. req[r].pc = "register" /\ UNCHANGED <<db, tx, job>>
        BY <1>4 DEF Register, At
    <2>2. CASE End(r, "refused")
        BY <2>1, <2>2, RequestEnds DEF Ended, Writing
    <2>3. CASE ~End(r, "refused")
        <3>1. PICK name \in Names \cup {Admin} :
                req' = [req EXCEPT ![r].pc = "check", ![r].name = name]
            BY <1>4, <2>3 DEF Register
        <3> DEFINE q == Renamed(req[r], "check", name)
        <3>2. req' = [req EXCEPT ![r] = q] /\ q \in ReqStates
            BY <3>1, RenameMoves DEF Inv, Places
        <3>3. q.pc = "check"
            BY DEF Renamed
        <3> HIDE DEF q
        <3>4. ToldAs(r, q, db', tx'.data)
            BY <3>3, NothingTold DEF Owed
        <3> QED
            BY <2>1, <3>2, <3>3, <3>4, RequestMoves DEF Writing
    <2> QED
        BY <2>2, <2>3
<1>5. CASE CheckName(r)
    <2>1. req[r].pc = "check" /\ UNCHANGED <<db, tx, job>>
        BY <1>5 DEF CheckName, At
    <2>2. CASE End(r, "conflict")
        BY <2>1, <2>2, RequestEnds DEF Ended, Writing
    <2>3. CASE Goto(r, "insert")
        <3>1. ToldAs(r, Moved(req[r], "insert"), db', tx'.data)
            BY NothingTold DEF Moved, Owed
        <3> QED
            BY <2>1, <2>3, <3>1, RequestGoesOn DEF Places, Writing
    <2> QED
        BY <1>5, <2>2, <2>3 DEF CheckName
<1>6. CASE InsertUser(r)
    <2>1. req[r].pc = "insert" /\ UNCHANGED job /\ CanWrite(r)
        BY <1>6 DEF InsertUser, At
    <2>2. CASE End(r, "failed") /\ UNCHANGED <<db, tx>>
        BY <2>1, <2>2, RequestEnds DEF Ended, Writing
    <2>3. CASE ~(End(r, "failed") /\ UNCHANGED <<db, tx>>)
        <3> DEFINE new == [name |-> req[r].name, by |-> r]
        <3>1. /\ Named(db.users, req[r].name) = {}
              /\ Write(r, [db EXCEPT !.users = @ \cup {new}])
              /\ Goto(r, "flushed")
            BY <1>6, <2>3 DEF InsertUser
        <3>2. db' = db /\ tx'.owner = r /\ tx'.data.alerts = db.alerts
                /\ tx'.data.users = db.users \cup {new}
            BY <1>2, <3>1 DEF Write, Tables
        <3>3. ToldAs(r, Moved(req[r], "flushed"), db', tx'.data)
            BY <3>1, <3>2 DEF ToldAs, Moved
        <3>4. tx.owner \in {None, r}
            BY <2>1 DEF CanWrite
        <3> QED
            BY <2>1, <3>1, <3>2, <3>3, <3>4, RequestGoesOn DEF Places, Writing
    <2> QED
        BY <2>2, <2>3
<1>7. CASE AnswerUser(r)
    <2>1. req[r].pc = "flushed" /\ UNCHANGED <<db, tx, job>> /\ Goto(r, "answered")
        BY <1>7 DEF AnswerUser, At
    <2>2. ToldAs(r, Moved(req[r], "answered"), db', tx'.data)
        BY <1>1, <2>1 DEF Told, ToldAs, Moved
    <2> QED
        BY <2>1, <2>2, RequestGoesOn DEF Places, Writing
<1>8. CASE CommitUser(r)
    <2>1. req[r].pc = "answered" /\ Commit(tx.data) /\ UNCHANGED job /\ Goto(r, "registered")
        BY <1>8 DEF CommitUser, At
    <2>2. db' = tx.data /\ tx'.owner = None /\ tx.owner = r
        BY <1>1, <2>1 DEF Commit, Writing
    <2>3. ToldAs(r, Moved(req[r], "registered"), db', tx'.data) /\ db'.alerts = db.alerts
        BY <1>1, <2>1, <2>2 DEF Told, ToldAs, Moved
    <2> QED
        BY <1>2, <2>1, <2>2, <2>3, RequestGoesOn DEF Places, Writing, Ended
<1> QED
    BY <1>4, <1>5, <1>6, <1>7, <1>8
LEMMA LoginKeeps ==
    ASSUME Inv, NEW r \in Requests, Login(r)
    PROVE  LockInv' /\ ReqInv'
<1>1. req[r].pc = "login" /\ UNCHANGED <<db, tx, job>>
    BY DEF Login, At
<1>2. CASE End(r, "refused")
    BY <1>1, <1>2, RequestEnds DEF Ended, Writing
<1>3. CASE ~End(r, "refused")
    <2>1. PICK as \in Account :
            as \in db.users /\ req' = [req EXCEPT ![r].pc = "token", ![r].name = as.name]
        BY <1>3 DEF Login, Visible
    <2>2. PICK name \in Names \cup {Admin} :
            /\ req' = [req EXCEPT ![r].pc = "token", ![r].name = name]
            /\ as.name = name
        BY <2>1 DEF Account
    <2> DEFINE q == Renamed(req[r], "token", name)
    <2>3. req' = [req EXCEPT ![r] = q] /\ q \in ReqStates
        <3>1. "token" \in Places
            BY DEF Places, Ended
        <3>2. ReqInv
            BY DEF Inv
        <3>3. req' = [req EXCEPT ![r].pc = "token", ![r].name = name]
            BY <2>2
        <3> QED
            BY <3>1, <3>2, <3>3, RenameMoves
    <2>4. q.pc = "token" /\ q.name = as.name
        BY <2>2 DEF Renamed
    <2> HIDE DEF q
    <2>5. ToldAs(r, q, db', tx'.data)
        BY <1>1, <2>1, <2>4 DEF ToldAs, Named
    <2> QED
        BY <1>1, <2>3, <2>4, <2>5, RequestMoves DEF Writing
<1> QED
    BY <1>2, <1>3

\* One more count for a page that is being read.
LEMMA ReadOn ==
    ASSUME NEW q \in ReqStates, NEW d \in Tables, Bracketed(q), Len(q.seen) < Len(Queries),
           q.standing \subseteq d.alerts, d.alerts \subseteq q.ever,
           NEW c, c = Counts(Queries[Len(q.seen) + 1], d.alerts, q.cut),
           NEW more \in ReqStates, more.seen = Append(q.seen, c), more.cut = q.cut,
           more.standing = q.standing, more.ever = q.ever
    PROVE  Bracketed(more)
<1>1. IsFiniteSet(q.ever) /\ q.standing \subseteq q.ever /\ q.seen \in Seq(Nat)
    BY DEF Bracketed, ReqStates
<1>2. IsFiniteSet(d.alerts)
    BY <1>1, SubsetCard
<1> DEFINE last == Len(q.seen) + 1
<1>3. /\ c \in Nat
      /\ Counts(Queries[last], q.standing, q.cut) <= c
      /\ c <= Counts(Queries[last], q.ever, q.cut)
    BY <1>1, <1>2, CountsGrow
<1>4. /\ Len(more.seen) = last
      /\ more.seen[last] = c
      /\ \A n \in 1..Len(q.seen) : more.seen[n] = q.seen[n]
    BY <1>1, <1>3, AppendProperties
<1>5. \A n \in 1..Len(more.seen) :
          /\ Counts(Queries[n], more.standing, more.cut) <= more.seen[n]
          /\ more.seen[n] <= Counts(Queries[n], more.ever, more.cut)
    <2> TAKE n \in 1..Len(more.seen)
    <2>1. CASE n = last
        BY <1>3, <1>4, <2>1
    <2>2. CASE n # last
        <3>1. n \in 1..Len(q.seen)
            BY <1>1, <1>4, <2>2, LenProperties
        <3> QED
            BY <1>4, <3>1 DEF Bracketed
    <2> QED
        BY <2>1, <2>2
<1>6. Len(more.seen) <= Len(Queries)
    BY <1>1, <1>4, QueryAt, LenProperties
<1> QED
    BY <1>1, <1>5, <1>6 DEF Bracketed

LEMMA StatsKeeps ==
    ASSUME Inv, NEW r \in Requests, OpenStats(r) \/ ReadStats(r) \/ AnswerStats(r)
    PROVE  LockInv' /\ ReqInv'
<1>1. req \in [Requests -> ReqStates] /\ req[r] \in ReqStates /\ Told(r)
    BY DEF Inv, ReqInv
<1>2. db \in Tables /\ IsFiniteSet(db.alerts) /\ db.alerts \in SUBSET Alert
    BY SoundParts DEF Inv, StoreInv, Sound
<1>3. UNCHANGED <<db, tx, job>>
    BY DEF OpenStats, ReadStats, AnswerStats
<1>4. CASE OpenStats(r)
    <2>1. PICK cut \in Cuts :
            req' = [req EXCEPT ![r].pc = "reading", ![r].cut = cut,
                               ![r].standing = db.alerts, ![r].ever = db.alerts]
        BY <1>4 DEF OpenStats
    <2> DEFINE q == [pc |-> "reading", name |-> req[r].name, seen |-> req[r].seen,
                     cut |-> cut, standing |-> db.alerts, ever |-> db.alerts,
                     level |-> req[r].level]
    <2>2. req[r].pc = "stats" /\ req[r].seen = << >> /\ cut \in Nat
        BY <1>1, <1>4, RecordsAssumption DEF OpenStats, At, Told, ToldAs
    <2>3. [[[[req[r] EXCEPT !.pc = "reading"] EXCEPT !.cut = cut]
              EXCEPT !.standing = db.alerts] EXCEPT !.ever = db.alerts] = q
        <3>1. [req[r] EXCEPT !.pc = "reading"] = Moved(req[r], "reading")
            BY <1>1, MovedIs
        <3> DEFINE q1 == [Moved(req[r], "reading") EXCEPT !.cut = cut]
                   q2 == [q1 EXCEPT !.standing = db.alerts]
                   q3 == [q2 EXCEPT !.ever = db.alerts]
        <3>2. q1 = [pc |-> "reading", name |-> req[r].name, seen |-> req[r].seen,
                    cut |-> cut, standing |-> req[r].standing, ever |-> req[r].ever,
                    level |-> req[r].level]
            BY DEF Moved
        <3> HIDE DEF q1
        <3>3. q2 = [pc |-> "reading", name |-> req[r].name, seen |-> req[r].seen,
                    cut |-> cut, standing |-> db.alerts, ever |-> req[r].ever,
                    level |-> req[r].level]
            BY <3>2
        <3> HIDE DEF q2
        <3>4. q3 = q
            BY <3>3
        <3> QED
            BY <3>1, <3>4 DEF q1, q2
    <2>4. req' = [req EXCEPT ![r] = q]
        <3>1. req' = [req EXCEPT ![r] =
                [[[[req[r] EXCEPT !.pc = "reading"] EXCEPT !.cut = cut]
                    EXCEPT !.standing = db.alerts] EXCEPT !.ever = db.alerts]]
            BY <1>1, <2>1
        <3> QED
            BY <2>3, <3>1
    <2>5. q \in ReqStates
        BY <1>1, <1>2, <2>2 DEF ReqStates, Places
    <2>6. q.pc = "reading" /\ q.seen = << >> /\ q.standing = db.alerts /\ q.ever = db.alerts
        BY <2>2
    <2> HIDE DEF q
    <2>7. Bracketed(q)
        BY <1>2, <2>6, QueryAt, EmptySeq DEF Bracketed
    <2>8. ToldAs(r, q, db', tx'.data)
        BY <1>3, <2>6, <2>7 DEF ToldAs
    <2> QED
        BY <1>3, <2>2, <2>4, <2>5, <2>6, <2>8, RequestMoves DEF Writing
<1>5. CASE ReadStats(r)
    <2> DEFINE c == Counts(Queries[Len(req[r].seen) + 1], db.alerts, req[r].cut)
               q == [pc |-> req[r].pc, name |-> req[r].name, seen |-> Append(req[r].seen, c),
                     cut |-> req[r].cut, standing |-> req[r].standing,
                     ever |-> req[r].ever, level |-> req[r].level]
    <2>1. req[r].pc = "reading" /\ Len(req[r].seen) < Len(Queries)
        BY <1>5 DEF ReadStats, At
    <2>2. /\ Bracketed(req[r]) /\ req[r].standing \subseteq db.alerts
          /\ db.alerts \subseteq req[r].ever
        BY <1>1, <2>1 DEF Told, ToldAs
    <2>3. req' = [req EXCEPT ![r].seen = Append(@, c)]
        BY <1>5 DEF ReadStats, Visible
    <2>4. c \in Nat
        BY <1>2, CountsGrow
    <2> HIDE DEF c
    <2>5. [req[r] EXCEPT !.seen = Append(@, c)] = q
        BY <1>1, SeenIs
    <2>6. req' = [req EXCEPT ![r] = q]
        BY <2>3, <2>5
    <2>7. Append(req[r].seen, c) \in Seq(Nat)
        BY <1>1, <2>4, AppendProperties DEF ReqStates
    <2>8. q \in ReqStates
        BY <1>1, <2>7 DEF ReqStates
    <2>9. /\ q.pc = "reading" /\ q.seen = Append(req[r].seen, c) /\ q.cut = req[r].cut
          /\ q.standing = req[r].standing /\ q.ever = req[r].ever
        BY <2>1
    <2> HIDE DEF q
    <2>10. Bracketed(q)
        BY <1>1, <1>2, <2>1, <2>2, <2>8, <2>9, ReadOn DEF c
    <2>11. ToldAs(r, q, db', tx'.data)
        BY <1>3, <2>2, <2>9, <2>10 DEF ToldAs
    <2> QED
        BY <1>3, <2>1, <2>6, <2>8, <2>9, <2>11, RequestMoves DEF Writing
<1>6. CASE AnswerStats(r)
    <2> DEFINE level == ThreatLevel(req[r].seen[5], req[r].seen[6])
               q == [Resting("served") EXCEPT !.level = level]
    <2>1. req[r].pc = "reading" /\ Len(req[r].seen) = 6 /\ req' = [req EXCEPT ![r] = q]
        BY <1>6, QueryAt DEF AnswerStats, At
    <2>2. req[r].seen[5] \in Nat /\ req[r].seen[6] \in Nat
        BY <1>1, <2>1, ElementOfSeq DEF ReqStates
    <2>3. level \in Levels
        BY <2>2, LevelType
    <2> HIDE DEF level
    <2>4. q \in ReqStates /\ q.pc = "served"
        BY <2>3, RestingType DEF Resting, ReqStates, Ended
    <2> HIDE DEF q
    <2>5. ToldAs(r, q, db', tx'.data)
        BY <2>4, NothingTold DEF Owed
    <2> QED
        BY <1>3, <2>1, <2>4, <2>5, RequestMoves DEF Writing
<1> QED
    BY <1>4, <1>5, <1>6
(* The pages that are being read when alerts come or go. *)

\* The state of a request that reads while alerts are committed.
Watching(q, alerts) ==
    [pc |-> q.pc, name |-> q.name, seen |-> q.seen, cut |-> q.cut,
     standing |-> q.standing \cap alerts, ever |-> q.ever \cup alerts, level |-> q.level]

LEMMA WatchingIs ==
    ASSUME NEW q \in ReqStates, NEW alerts
    PROVE  [q EXCEPT !.standing = @ \cap alerts, !.ever = @ \cup alerts] = Watching(q, alerts)
<1>1. q = Moved(q, q.pc)
    BY DEF ReqStates, Moved
<1> DEFINE q1 == [Moved(q, q.pc) EXCEPT !.standing = q.standing \cap alerts]
<1>2. q1 = [pc |-> q.pc, name |-> q.name, seen |-> q.seen, cut |-> q.cut,
            standing |-> q.standing \cap alerts, ever |-> q.ever, level |-> q.level]
    BY DEF Moved
<1> HIDE DEF q1
<1>3. [q1 EXCEPT !.ever = q.ever \cup alerts] = Watching(q, alerts)
    BY <1>2 DEF Watching
<1>4. [q EXCEPT !.standing = @ \cap alerts, !.ever = @ \cup alerts]
        = [[q EXCEPT !.standing = q.standing \cap alerts] EXCEPT !.ever = q.ever \cup alerts]
    BY <1>1 DEF Moved
<1> QED
    BY <1>1, <1>3, <1>4 DEF q1

LEMMA WatchedType ==
    ASSUME ReqInv, NEW alerts \in SUBSET Alert
    PROVE  /\ Watched(alerts) \in [Requests -> ReqStates]
           /\ \A r \in Requests : Watched(alerts)[r].pc = req[r].pc
<1> SUFFICES ASSUME NEW r \in Requests
             PROVE  Watched(alerts)[r] \in ReqStates /\ Watched(alerts)[r].pc = req[r].pc
    BY DEF Watched
<1> DEFINE q == req[r]
<1>1. q \in ReqStates
    BY DEF ReqInv
<1>2. CASE q.pc # "reading"
    BY <1>1, <1>2 DEF Watched
<1>3. CASE q.pc = "reading"
    <2>1. Watched(alerts)[r] = [q EXCEPT !.standing = @ \cap alerts, !.ever = @ \cup alerts]
        BY <1>3 DEF Watched
    <2> HIDE DEF q
    <2>2. [q EXCEPT !.standing = @ \cap alerts, !.ever = @ \cup alerts] = Watching(q, alerts)
        BY <1>1, WatchingIs
    <2> QED
        BY <1>1, <2>1, <2>2 DEF Watching, ReqStates, q
<1> QED
    BY <1>2, <1>3

LEMMA BracketedStill ==
    ASSUME NEW q \in ReqStates, Bracketed(q), NEW alerts, IsFiniteSet(alerts)
    PROVE  Bracketed(Watching(q, alerts))
<1> DEFINE w == Watching(q, alerts)
<1>1. /\ w.seen = q.seen /\ w.cut = q.cut
      /\ w.standing = q.standing \cap alerts /\ w.ever = q.ever \cup alerts
    BY DEF Watching
<1> HIDE DEF w
<1>2. IsFiniteSet(q.ever) /\ q.standing \subseteq q.ever /\ q.seen \in Seq(Nat)
    BY DEF Bracketed, ReqStates
<1>3. IsFiniteSet(w.ever) /\ IsFiniteSet(q.standing)
    BY <1>1, <1>2, FS_Union, SubsetCard
<1>4. \A n \in 1..Len(w.seen) : /\ Counts(Queries[n], w.standing, w.cut) <= w.seen[n]
                                /\ w.seen[n] <= Counts(Queries[n], w.ever, w.cut)
    <2> TAKE n \in 1..Len(w.seen)
    <2>1. /\ Counts(Queries[n], q.standing, q.cut) <= q.seen[n]
          /\ q.seen[n] <= Counts(Queries[n], q.ever, q.cut)
        BY <1>1 DEF Bracketed
    <2>2. /\ Counts(Queries[n], w.standing, q.cut) \in Nat
          /\ Counts(Queries[n], q.standing, q.cut) \in Nat
          /\ Counts(Queries[n], w.standing, q.cut) <= Counts(Queries[n], q.standing, q.cut)
        BY <1>1, <1>3, CountsGrow
    <2>3. /\ Counts(Queries[n], q.ever, q.cut) \in Nat
          /\ Counts(Queries[n], w.ever, q.cut) \in Nat
          /\ Counts(Queries[n], q.ever, q.cut) <= Counts(Queries[n], w.ever, q.cut)
        BY <1>1, <1>3, CountsGrow
    <2>4. q.seen[n] \in Nat
        BY <1>1, <1>2, ElementOfSeq
    <2> QED
        BY <1>1, <2>1, <2>2, <2>3, <2>4
<1> QED
    BY <1>1, <1>2, <1>3, <1>4 DEF Bracketed, w

\* A request that owns nothing is told nothing else when alerts are committed.
LEMMA WatchedTold ==
    ASSUME Inv, NEW r \in Requests, req[r].pc \notin Writing,
           NEW d, d = tx.data, NEW alerts, alerts = d.alerts
    PROVE  ToldAs(r, Watched(alerts)[r], d, d)
<1>1. req[r] \in ReqStates /\ Told(r)
    BY DEF Inv, ReqInv
<1>2. Sound(d, raised) /\ db.users \subseteq d.users
    BY DEF Inv, StoreInv
<1>3. IsFiniteSet(alerts)
    BY <1>2, SoundParts
<1>4. CASE req[r].pc # "reading"
    <2>1. Watched(alerts)[r] = req[r]
        BY <1>4 DEF Watched
    <2> QED
        BY <1>1, <1>2, <1>4, <2>1 DEF Told, ToldAs, Named, Writing
<1>5. CASE req[r].pc = "reading"
    <2>1. Watched(alerts)[r] = Watching(req[r], alerts)
        BY <1>1, <1>5, WatchingIs DEF Watched
    <2>2. Bracketed(Watching(req[r], alerts))
        BY <1>1, <1>3, <1>5, BracketedStill DEF Told, ToldAs
    <2>3. /\ Watching(req[r], alerts).pc = "reading"
          /\ Watching(req[r], alerts).standing \subseteq alerts
          /\ alerts \subseteq Watching(req[r], alerts).ever
        BY <1>5 DEF Watching
    <2> QED
        BY <2>1, <2>2, <2>3 DEF ToldAs
<1> QED
    BY <1>4, <1>5

\* The pipeline or the job commits.
LEMMA CommitWatched ==
    ASSUME Inv, tx.owner \in {"pipeline", "job"}, Commit(tx.data),
           req' = Watched(tx.data.alerts)
    PROVE  ReqInv' /\ \A r \in Requests : (tx'.owner = r <=> req'[r].pc \in Writing)
<1>1. tx.data.alerts \in SUBSET Alert
    BY SoundParts DEF Inv, StoreInv
<1>2. req' \in [Requests -> ReqStates] /\ \A r \in Requests : req'[r].pc = req[r].pc
    BY <1>1, WatchedType DEF Inv
<1>3. \A r \in Requests : req[r].pc \notin Writing
    BY RecordsAssumption DEF Inv, LockInv
<1>4. db' = tx.data /\ tx'.data = tx.data /\ tx'.owner = None
    BY DEF Commit
<1>5. \A r \in Requests : Told(r)'
    <2> TAKE r \in Requests
    <2>1. ToldAs(r, Watched(tx.data.alerts)[r], tx.data, tx.data)
        BY <1>3, WatchedTold
    <2> QED
        BY <1>4, <2>1 DEF Told
<1> QED
    BY <1>2, <1>3, <1>4, <1>5, RecordsAssumption DEF ReqInv
LEMMA ResetKeeps ==
    ASSUME Inv, NEW r \in Requests, Reset(r) \/ Purge(r) \/ Compact(r) \/ Compacted(r)
    PROVE  LockInv' /\ ReqInv'
<1>1. req[r] \in ReqStates /\ (tx.owner = r <=> req[r].pc \in Writing) /\ None # r
    BY RecordsAssumption DEF Inv, ReqInv, LockInv
<1>2. db \in Tables
    BY DEF Inv, StoreInv, Sound
<1>3. CASE Reset(r)
    <2>1. req[r].pc = "reset" /\ UNCHANGED <<db, tx, job>>
        BY <1>3 DEF Reset, At
    <2>2. CASE End(r, "conflict")
        BY <2>1, <2>2, RequestEnds DEF Ended, Writing
    <2>3. CASE Goto(r, "purge")
        <3>1. ToldAs(r, Moved(req[r], "purge"), db', tx'.data)
            BY NothingTold DEF Moved, Owed
        <3> QED
            BY <2>1, <2>3, <3>1, RequestGoesOn DEF Places, Writing
    <2> QED
        BY <1>3, <2>2, <2>3 DEF Reset
<1>4. CASE Purge(r)
    <2>1. /\ UNCHANGED <<db, job>> /\ CanWrite(r) /\ Goto(r, "purged")
          /\ tx' = [owner |-> r, data |-> [db EXCEPT !.alerts = {}]]
        BY <1>4 DEF Purge, Write
    <2>2. tx'.owner = r /\ tx'.data.alerts = {} /\ tx.owner \in {None, r}
        BY <1>2, <2>1 DEF Tables, CanWrite
    <2>3. ToldAs(r, Moved(req[r], "purged"), db', tx'.data)
        BY <2>2 DEF ToldAs, Moved
    <2> QED
        BY <2>1, <2>2, <2>3, RequestGoesOn DEF Places, Writing
<1>5. CASE Compact(r)
    <2>1. /\ UNCHANGED <<db, job>> /\ CanWrite(r) /\ Goto(r, "compacting")
          /\ tx' = [owner |-> r, data |-> db]
        BY <1>5 DEF Compact, Write
    <2>2. tx'.owner = r /\ tx.owner \in {None, r}
        BY <2>1 DEF CanWrite
    <2>3. ToldAs(r, Moved(req[r], "compacting"), db', tx'.data)
        BY NothingTold DEF Moved, Owed
    <2> QED
        BY <2>1, <2>2, <2>3, RequestGoesOn DEF Places, Writing
<1>6. CASE Compacted(r)
    <2>1. req[r].pc = "compacting" /\ Rollback(r) /\ UNCHANGED job /\ Goto(r, "served")
        BY <1>6 DEF Compacted, At
    <2>2. tx.owner = r /\ tx'.owner = None /\ db' = db
        BY <1>1, <2>1 DEF Rollback, Writing
    <2>3. ToldAs(r, Moved(req[r], "served"), db', tx'.data)
        BY NothingTold DEF Moved, Owed
    <2>4. "served" \in Places /\ "served" \notin Writing
        BY DEF Places, Ended, Writing
    <2> QED
        BY <2>1, <2>2, <2>3, <2>4, RequestGoesOn
<1> QED
    BY <1>3, <1>4, <1>5, <1>6

LEMMA TimeoutKeeps ==
    ASSUME Inv, NEW r \in Requests, RequestTimeout(r)
    PROVE  LockInv' /\ ReqInv'
<1>1. UNCHANGED <<db, tx, job>>
    BY DEF RequestTimeout
<1>2. CASE req[r].pc \in {"insert", "purge"} /\ End(r, "failed")
    BY <1>1, <1>2, RequestEnds DEF Ended, Writing
<1>3. CASE req[r].pc = "compact" /\ Goto(r, "served")
    <2>1. ToldAs(r, Moved(req[r], "served"), db', tx'.data)
        BY NothingTold DEF Moved, Owed
    <2>2. "served" \in Places /\ "served" \notin Writing /\ "compact" \notin Writing
        BY DEF Places, Ended, Writing
    <2> QED
        BY <1>1, <1>3, <2>1, <2>2, RequestGoesOn
<1> QED
    BY <1>2, <1>3 DEF RequestTimeout

LEMMA PurgeCommitKeeps ==
    ASSUME Inv, NEW r \in Requests, PurgeCommit(r)
    PROVE  LockInv' /\ ReqInv'
<1> DEFINE w == Watched({})
<1>1. /\ req[r].pc = "purged" /\ Commit(tx.data)
      /\ req' = [w EXCEPT ![r].pc = "compact"]
      /\ job' = [job EXCEPT !.reset = job.pc # "idle"]
    BY DEF PurgeCommit, At
<1>2. tx.owner = r /\ tx.data.alerts = {} /\ req[r] \in ReqStates
    BY <1>1 DEF Inv, LockInv, ReqInv, Told, ToldAs, Writing
<1>3. w \in [Requests -> ReqStates] /\ \A o \in Requests : w[o].pc = req[o].pc
    BY WatchedType DEF Inv
<1>4. w[r] = req[r]
    BY <1>1 DEF Watched
<1>5. [req[r] EXCEPT !.pc = "compact"] = Moved(req[r], "compact")
    BY <1>2, MovedIs
<1>6. \A o \in Requests : o # r => ToldAs(o, w[o], tx.data, tx.data)
    BY <1>2, WatchedTold DEF Inv, LockInv
<1>7. db' = tx.data /\ tx'.data = tx.data /\ tx'.owner = None
    BY <1>1 DEF Commit
<1> HIDE DEF w
<1>8. req' = [w EXCEPT ![r] = [w[r] EXCEPT !.pc = "compact"]]
    BY <1>1, <1>3
<1>9. req' = [w EXCEPT ![r] = Moved(req[r], "compact")]
    BY <1>4, <1>5, <1>8
<1>10. Moved(req[r], "compact") \in ReqStates /\ Moved(req[r], "compact").pc = "compact"
    BY <1>2, MovedType DEF Places, Moved
<1>11. req' \in [Requests -> ReqStates]
    BY <1>3, <1>9, <1>10
<1>12. \A o \in Requests : req'[o].pc \notin Writing /\ Told(o)'
    <2> TAKE o \in Requests
    <2>1. CASE o = r
        <3>1. req'[o] = Moved(req[r], "compact")
            BY <1>3, <1>9, <2>1
        <3>2. ToldAs(o, req'[o], db', tx'.data)
            BY <1>10, <3>1, NothingTold DEF Owed
        <3> QED
            BY <1>10, <3>1, <3>2 DEF Told, Writing
    <2>2. CASE o # r
        <3>1. req'[o] = w[o]
            BY <1>3, <1>9, <2>2
        <3> QED
            BY <1>2, <1>3, <1>6, <1>7, <2>2, <3>1 DEF Told, Inv, LockInv
    <2> QED
        BY <2>1, <2>2
<1>13. job'.pc = job.pc
    BY <1>1 DEF Inv, JobInv, JobStates
<1>14. LockInv'
    <2>1. job.pc # "commit"
        BY <1>2, RecordsAssumption DEF Inv, LockInv
    <2> QED
        BY <1>7, <1>12, <1>13, <2>1, RecordsAssumption DEF LockInv
<1> QED
    BY <1>11, <1>12, <1>14 DEF ReqInv

\* Nobody who writes is touched, and the requests stay where they are.
LEMMA BesideRequests ==
    ASSUME Inv, UNCHANGED <<db, req>>,
           \A r \in Requests : tx.owner = r => UNCHANGED tx,
           \A r \in Requests : tx'.owner = r => tx.owner = r,
           tx'.owner = "job" <=> job'.pc = "commit"
    PROVE  LockInv' /\ ReqInv'
<1>1. \A r \in Requests : Told(r)'
    <2> TAKE r \in Requests
    <2>1. ToldAs(r, req[r], db, tx.data)
        BY DEF Inv, ReqInv, Told
    <2>2. req[r].pc \in Writing => tx'.data = tx.data
        BY DEF Inv, LockInv
    <2>3. ToldAs(r, req[r], db, tx'.data)
        BY <2>1, <2>2, ToldStill
    <2> QED
        BY <2>3 DEF Told
<1>2. LockInv'
    BY DEF Inv, LockInv
<1> QED
    BY <1>1, <1>2 DEF Inv, ReqInv

LEMMA PipelineKeeps ==
    ASSUME Inv, Pipeline
    PROVE  LockInv' /\ ReqInv'
<1> USE RecordsAssumption
<1>1. CASE FlushAlert
    <2>1. UNCHANGED <<db, req, job>> /\ tx.owner = None /\ tx'.owner = "pipeline"
        BY <1>1 DEF FlushAlert, Write
    <2> QED
        BY <2>1, BesideRequests DEF Inv, LockInv
<1>2. CASE DropAlert
    <2>1. UNCHANGED <<db, req, job>> /\ tx.owner = "pipeline" /\ tx'.owner = None
        BY <1>2 DEF DropAlert, Rollback
    <2> QED
        BY <2>1, BesideRequests DEF Inv, LockInv
<1>3. CASE KeepAlert
    <2>1. /\ tx.owner = "pipeline" /\ Commit(tx.data) /\ UNCHANGED job
          /\ req' = Watched(tx.data.alerts) /\ tx'.owner = None
        BY <1>3 DEF KeepAlert, Commit
    <2>2. ReqInv' /\ \A r \in Requests : (tx'.owner = r <=> req'[r].pc \in Writing)
        BY <2>1, CommitWatched
    <2> QED
        BY <2>1, <2>2 DEF Inv, LockInv
<1> QED
    BY <1>1, <1>2, <1>3 DEF Pipeline

LEMMA JobParts ==
    ASSUME NEW j \in JobStates
    PROVE  j = [pc |-> j.pc, excess |-> j.excess, ids |-> j.ids, reset |-> j.reset]
BY DEF JobStates

LEMMA RetentionKeeps ==
    ASSUME Inv, Retention
    PROVE  LockInv' /\ ReqInv'
<1> USE RecordsAssumption
<1>0. job \in JobStates
    BY DEF Inv, JobInv
<1>1. CASE CountAlerts \/ SelectOldest \/ JobTimeout
    <2>1. UNCHANGED <<db, tx, req>> /\ job.pc # "commit"
        BY <1>1 DEF CountAlerts, SelectOldest, JobTimeout
    <2>2. job'.pc # "commit"
        <3>1. CASE CountAlerts
            BY <3>1 DEF CountAlerts, Idle
        <3>2. CASE SelectOldest
            BY <3>2, JobParts, <1>0 DEF SelectOldest
        <3>3. CASE JobTimeout
            BY <3>3 DEF JobTimeout, Idle
        <3> QED
            BY <1>1, <3>1, <3>2, <3>3
    <2> QED
        BY <2>1, <2>2, BesideRequests DEF Inv, LockInv
<1>2. CASE Prune
    <2>1. UNCHANGED req /\ job.pc = "prune"
        BY <1>2 DEF Prune
    <2>2. CASE job' = Idle /\ UNCHANGED <<db, tx>>
        BY <2>1, <2>2, BesideRequests DEF Inv, LockInv, Idle
    <2>3. CASE ~(job' = Idle /\ UNCHANGED <<db, tx>>)
        <3>1. /\ CanWrite("job") /\ job' = [job EXCEPT !.pc = "commit"]
              /\ UNCHANGED db /\ tx'.owner = "job"
            BY <1>2, <2>3 DEF Prune, Write
        <3>2. job'.pc = "commit" /\ tx.owner \in {None, "job"}
            BY <1>0, <3>1 DEF JobStates, CanWrite
        <3> QED
            BY <2>1, <3>1, <3>2, BesideRequests
    <2> QED
        BY <2>2, <2>3
<1>3. CASE PruneCommit
    <2>1. /\ job.pc = "commit" /\ Commit(tx.data) /\ job' = Idle
          /\ req' = Watched(tx.data.alerts) /\ tx'.owner = None
        BY <1>3 DEF PruneCommit, Commit
    <2>2. tx.owner = "job"
        BY <2>1 DEF Inv, LockInv
    <2>3. ReqInv' /\ \A r \in Requests : (tx'.owner = r <=> req'[r].pc \in Writing)
        BY <2>1, <2>2, CommitWatched
    <2> QED
        BY <2>1, <2>3 DEF LockInv, Idle
<1> QED
    BY <1>1, <1>2, <1>3 DEF Retention

LEMMA EndsKeep ==
    ASSUME Inv, Crash \/ Start
    PROVE  LockInv' /\ ReqInv'
<1> USE RecordsAssumption
<1>1. req \in [Requests -> ReqStates]
    BY DEF Inv, ReqInv
<1>2. CASE Crash
    <2>1. /\ db' = db /\ tx'.owner = None /\ job' = Idle
          /\ req' = [r \in Requests |->
                IF req[r].pc \in Routes \cup Ended THEN req[r]
                ELSE Resting(IF req[r].pc = "answered" THEN "lost" ELSE "failed")]
        BY <1>2 DEF Crash
    <2>2. \A r \in Requests : /\ req'[r] \in ReqStates /\ req'[r].pc \notin Writing
                              /\ Told(r)'
        <3> TAKE r \in Requests
        <3>1. CASE req[r].pc \in Routes \cup Ended
            <4>1. req'[r] = req[r] /\ ToldAs(r, req[r], db, tx.data) /\ req[r] \in ReqStates
                BY <1>1, <2>1, <3>1 DEF Inv, ReqInv, Told
            <4>2. req[r].pc \notin Writing
                BY <3>1 DEF Routes, Ended, Writing
            <4>3. ToldAs(r, req[r], db', tx'.data)
                BY <2>1, <4>1, <4>2, ToldStill
            <4> QED
                BY <4>1, <4>2, <4>3 DEF Told
        <3>2. CASE req[r].pc \notin Routes \cup Ended
            <4>1. PICK pc \in {"lost", "failed"} : req'[r] = Resting(pc)
                BY <2>1, <3>2
            <4>2. pc \in Ended /\ pc \notin Writing \cup Owed
                BY DEF Ended, Writing, Owed
            <4>3. Resting(pc) \in ReqStates /\ Resting(pc).pc = pc
                BY <4>2, RestingType
            <4>4. ToldAs(r, Resting(pc), db', tx'.data)
                BY <4>2, <4>3, NothingTold
            <4> QED
                BY <4>1, <4>2, <4>3, <4>4 DEF Told
        <3> QED
            BY <3>1, <3>2
    <2>3. req' \in [Requests -> ReqStates]
        BY <2>1, <2>2
    <2> QED
        BY <2>1, <2>2, <2>3 DEF LockInv, ReqInv, Idle
<1>3. CASE Start
    <2>1. tx.owner = None /\ UNCHANGED <<job, req>>
        BY <1>3 DEF Start, Inv, StoreInv
    <2>2. CASE UNCHANGED <<db, tx>>
        BY <2>1, <2>2, BesideRequests DEF Inv, LockInv
    <2>3. CASE db.users = {} /\ Commit([db EXCEPT !.users = {[name |-> Admin, by |-> Admin]}])
        <3>1. /\ db.users \subseteq db'.users /\ db'.alerts = db.alerts
              /\ tx'.owner = None
            BY <2>3 DEF Commit, Inv, StoreInv, Sound, Tables
        <3>2. \A r \in Requests : req[r].pc \notin Writing
            BY <2>1 DEF Inv, LockInv
        <3>3. \A r \in Requests : Told(r)'
            <4> TAKE r \in Requests
            <4>1. ToldAs(r, req[r], db, tx.data)
                BY DEF Inv, ReqInv, Told
            <4>2. ToldAs(r, req[r], db', tx'.data)
                BY <3>1, <3>2, <4>1, ToldStill
            <4> QED
                BY <2>1, <4>2 DEF Told
        <3> QED
            BY <1>1, <2>1, <3>1, <3>2, <3>3 DEF Inv, LockInv, ReqInv
    <2> QED
        BY <1>3, <2>2, <2>3 DEF Start
<1> QED
    BY <1>2, <1>3

LEMMA RequestsNext ==
    ASSUME Inv, [Next]_vars
    PROVE  LockInv' /\ ReqInv'
<1>1. CASE UNCHANGED vars
    BY <1>1, BesideRequests DEF vars, Inv, LockInv
<1>2. CASE \E r \in Requests : Comes(r) \/ Goes(r) \/ RequestTimeout(r)
    <2>1. PICK r \in Requests : Comes(r) \/ Goes(r) \/ RequestTimeout(r)
        BY <1>2
    <2>2. CASE Register(r) \/ CheckName(r) \/ InsertUser(r) \/ AnswerUser(r) \/ CommitUser(r)
        BY <2>2, RegisterKeeps
    <2>3. CASE Login(r)
        BY <2>3, LoginKeeps
    <2>4. CASE OpenStats(r) \/ ReadStats(r) \/ AnswerStats(r)
        BY <2>4, StatsKeeps
    <2>5. CASE Reset(r) \/ Purge(r) \/ Compact(r) \/ Compacted(r)
        BY <2>5, ResetKeeps
    <2>6. CASE PurgeCommit(r)
        BY <2>6, PurgeCommitKeeps
    <2>7. CASE RequestTimeout(r)
        BY <2>7, TimeoutKeeps
    <2> QED
        BY <2>1, <2>2, <2>3, <2>4, <2>5, <2>6, <2>7 DEF Comes, Goes
<1> QED
    BY <1>1, <1>2, PipelineKeeps, RetentionKeeps, EndsKeep DEF Next
(* The job. *)

LEMMA JobIdle ==
    ASSUME job' = Idle
    PROVE  JobInv'
BY DEF JobInv, JobStates, Idle

\* A step that leaves the job, and the rows it works on, alone.
LEMMA JobStill ==
    ASSUME Inv, job' = job, up' \/ up' = up, db'.alerts = db.alerts,
           tx.owner = "job" => UNCHANGED tx
    PROVE  JobInv'
<1>1. job.pc = "commit" => tx'.data = tx.data
    BY DEF Inv, LockInv
<1>2. JobInv
    BY DEF Inv
<1> QED
    BY <1>1, <1>2 DEF JobInv

LEMMA JobCounts ==
    ASSUME Inv, CountAlerts
    PROVE  JobInv'
<1> DEFINE n == Cardinality(db.alerts)
<1>1. n \in Nat /\ n > MaxAlerts /\ db' = db /\ up' /\ n - MaxAlerts \in Nat
    BY SoundParts, CardNat, RecordsAssumption DEF Inv, StoreInv, CountAlerts, Process
<1>2. job' = [pc |-> "select", excess |-> n - MaxAlerts, ids |-> {}, reset |-> FALSE]
    BY DEF CountAlerts, Idle
<1>3. Cardinality(db'.alerts) >= n - MaxAlerts + MaxAlerts
    BY <1>1, RecordsAssumption
<1> HIDE DEF n
<1>4. job' \in JobStates /\ job'.pc = "select" /\ job'.excess = n - MaxAlerts
    BY <1>1, <1>2 DEF JobStates
<1> QED
    BY <1>1, <1>3, <1>4 DEF JobInv

LEMMA JobSelects ==
    ASSUME Inv, SelectOldest
    PROVE  JobInv'
<1> DEFINE alerts == db.alerts
           old == Oldest(alerts, job.excess)
           ids == {al.id : al \in old}
<1>0. Doomed(alerts, job.excess) = old
    BY DoomedOldest DEF Inv, StoreInv, Sound, JobInv, JobStates
<1>1. /\ job \in JobStates /\ job.pc = "select" /\ UNCHANGED <<db, up>>
      /\ job' = [job EXCEPT !.pc = "prune", !.ids = ids]
    BY <1>0 DEF SelectOldest, Inv, JobInv, Process
<1>2. /\ alerts \in SUBSET Alert /\ IsFiniteSet(alerts) /\ Ordered(alerts)
      /\ raised \in Nat /\ \A al \in alerts : al.nr <= raised
    BY SoundParts DEF Inv, StoreInv
<1>3. old \in SUBSET alerts /\ job.excess \in Nat /\ ids \in SUBSET (Nat \ {0})
    <2>1. old \in SUBSET alerts
        BY DEF Oldest
    <2> QED
        BY <1>1, <1>2, <2>1 DEF JobStates, Alert
<1>4. Leaving(alerts, ids) = alerts \ old
    BY <1>2, <1>3 DEF Leaving, Ordered
<1>5. alerts \ Leaving(alerts, ids) = old
    BY <1>3, <1>4
<1>6. OlderGone(alerts \ Leaving(alerts, ids), Leaving(alerts, ids))
    BY <1>2, <1>3, <1>4, <1>5, OldestOlder DEF OlderGone
<1>7. ~job.reset => Cardinality(Leaving(alerts, ids)) >= MaxAlerts
    <2>1. Cardinality(old) \in Nat /\ Cardinality(old) <= job.excess
        BY <1>2, <1>3, OldestFew, SubsetCard
    <2>2. alerts \cap old = old
        BY <1>3
    <2> HIDE DEF old, ids
    <2>3. Cardinality(alerts \ old) = Cardinality(alerts) - Cardinality(old)
        BY <1>2, <2>2, FS_Difference
    <2>4. Cardinality(alerts) \in Nat /\ MaxAlerts \in Nat
        BY <1>2, CardNat, RecordsAssumption
    <2>5. ~job.reset => Cardinality(alerts) >= job.excess + MaxAlerts
        BY <1>1 DEF Inv, JobInv
    <2> QED
        BY <1>3, <1>4, <2>1, <2>3, <2>4, <2>5, SMTT(30)
<1> HIDE DEF ids, old
<1>8. job' = [pc |-> "prune", excess |-> job.excess, ids |-> ids, reset |-> job.reset]
    <2>1. job = [pc |-> job.pc, excess |-> job.excess, ids |-> job.ids, reset |-> job.reset]
        BY <1>1, JobParts
    <2> QED
        BY <1>1, <2>1
<1>9. /\ job' \in JobStates /\ job'.pc = "prune" /\ job'.ids = ids /\ job'.reset = job.reset
    BY <1>1, <1>3, <1>8 DEF JobStates
<1>10. ids \subseteq {al.id : al \in alerts}
    BY <1>3 DEF ids
<1>11. up'
    BY <1>1 DEF Inv, JobInv, StoreInv
<1> QED
    BY <1>1, <1>6, <1>7, <1>9, <1>10, <1>11 DEF JobInv

LEMMA JobPrunes ==
    ASSUME Inv, Prune
    PROVE  JobInv'
<1>1. CASE job' = Idle
    BY <1>1, JobIdle
<1>2. CASE job' # Idle
    <2>1. /\ job.pc = "prune" /\ UNCHANGED <<db, up>> /\ job' = [job EXCEPT !.pc = "commit"]
          /\ tx' = [owner |-> "job",
                    data |-> [db EXCEPT !.alerts = {al \in @ : al.id \notin job.ids}]]
        BY <1>2 DEF Prune, Process, Write
    <2>2. db \in Tables /\ job \in JobStates
        BY DEF Inv, JobInv, StoreInv, Sound
    <2>3. tx'.data.alerts = Leaving(db.alerts, job.ids)
        BY <2>1, <2>2 DEF Tables, Leaving
    <2>4. job' = [pc |-> "commit", excess |-> job.excess, ids |-> job.ids, reset |-> job.reset]
        <3>1. job = [pc |-> job.pc, excess |-> job.excess, ids |-> job.ids, reset |-> job.reset]
            BY <2>2, JobParts
        <3> QED
            BY <2>1, <3>1
    <2>5. job' \in JobStates /\ job'.pc = "commit" /\ job'.reset = job.reset
        BY <2>2, <2>4 DEF JobStates
    <2>6. up'
        BY <2>1 DEF Inv, JobInv, StoreInv
    <2> QED
        BY <2>1, <2>3, <2>5, <2>6 DEF Inv, JobInv
<1> QED
    BY <1>1, <1>2

\* Alerts are stored while the job has its ids in hand.
LEMMA JobOvertaken ==
    ASSUME Inv, KeepAlert
    PROVE  JobInv'
<1> DEFINE some == db.alerts
           more == tx.data.alerts
           gone(alerts) == alerts \ Leaving(alerts, job.ids)
<1>1. /\ tx.owner = "pipeline" /\ db' = tx.data /\ UNCHANGED <<job, up>>
      /\ Extends(more, some)
    BY DEF KeepAlert, Commit, Inv, StoreInv, Process
<1>2. /\ more \in SUBSET Alert /\ IsFiniteSet(more) /\ Ordered(more)
      /\ some \in SUBSET more
    BY <1>1, SoundParts DEF Inv, StoreInv, Extends
<1>3. job.pc # "commit" /\ JobInv
    BY <1>1, RecordsAssumption DEF Inv, LockInv
<1>4. IsFiniteSet(some) /\ Cardinality(some) \in Nat /\ Cardinality(more) \in Nat
        /\ Cardinality(some) <= Cardinality(more)
    BY <1>2, SubsetCard
<1>5. job.pc = "select" /\ ~job.reset => Cardinality(more) >= job.excess + MaxAlerts
    BY <1>3, <1>4, RecordsAssumption DEF JobInv, JobStates
<1>6. ASSUME job.pc = "prune", ~job.reset
      PROVE  /\ job.ids \subseteq {al.id : al \in more}
             /\ OlderGone(gone(more), Leaving(more, job.ids))
             /\ Cardinality(Leaving(more, job.ids)) >= MaxAlerts
    <2>1. /\ job.ids \subseteq {al.id : al \in some}
          /\ OlderGone(gone(some), Leaving(some, job.ids))
          /\ Cardinality(Leaving(some, job.ids)) >= MaxAlerts
        BY <1>3, <1>6 DEF JobInv
    <2>2. job.ids \subseteq {al.id : al \in more}
        BY <1>2, <2>1
    <2>3. gone(more) \subseteq gone(some)
        BY <1>2, <2>1 DEF Leaving, Ordered
    <2>4. ASSUME NEW g \in gone(more), NEW l \in Leaving(more, job.ids)
          PROVE  g.nr < l.nr
        <3>1. g \in gone(some) /\ g \in some
            BY <2>3
        <3>2. CASE l \in some
            <4>1. l \in Leaving(some, job.ids)
                BY <3>2 DEF Leaving
            <4> QED
                BY <2>1, <3>1, <4>1 DEF OlderGone
        <3>3. CASE l \notin some
            <4>1. l \in more \ some
                BY <3>3 DEF Leaving
            <4>2. g.id < l.id
                BY <1>1, <3>1, <4>1 DEF Extends
            <4> QED
                BY <1>2, <3>1, <4>1, <4>2 DEF Ordered
        <3> QED
            BY <3>2, <3>3
    <2>5. Leaving(some, job.ids) \in SUBSET Leaving(more, job.ids)
            /\ Leaving(more, job.ids) \in SUBSET more
        BY <1>2 DEF Leaving
    <2>6. IsFiniteSet(Leaving(more, job.ids)) /\ Cardinality(Leaving(more, job.ids)) \in Nat
        BY <1>2, <2>5, SubsetCard
    <2>7. /\ Cardinality(Leaving(some, job.ids)) \in Nat
          /\ Cardinality(Leaving(some, job.ids)) <= Cardinality(Leaving(more, job.ids))
        BY <2>5, <2>6, SubsetCard
    <2>8. Cardinality(Leaving(more, job.ids)) >= MaxAlerts
        BY <2>1, <2>6, <2>7, RecordsAssumption
    <2> QED
        BY <2>2, <2>4, <2>8 DEF OlderGone
<1> QED
    BY <1>1, <1>3, <1>5, <1>6 DEF JobInv

LEMMA JobReset ==
    ASSUME Inv, NEW r \in Requests, PurgeCommit(r)
    PROVE  JobInv'
<1>1. /\ req[r].pc = "purged" /\ up /\ up' = up
      /\ job' = [job EXCEPT !.reset = job.pc # "idle"]
    BY DEF PurgeCommit, At, Process
<1>2. job \in JobStates
    BY DEF Inv, JobInv
<1>3. job' = [pc |-> job.pc, excess |-> job.excess, ids |-> job.ids, reset |-> job.pc # "idle"]
    <2>1. job = [pc |-> job.pc, excess |-> job.excess, ids |-> job.ids, reset |-> job.reset]
        BY <1>2, JobParts
    <2> QED
        BY <1>1, <2>1
<1>4. job' \in JobStates /\ job'.pc = job.pc
    BY <1>2, <1>3 DEF JobStates
<1>5. job'.reset <=> job.pc # "idle"
    BY <1>3
<1> QED
    BY <1>1, <1>4, <1>5 DEF JobInv

LEMMA JobNext ==
    ASSUME Inv, [Next]_vars
    PROVE  JobInv'
<1> USE RecordsAssumption
<1>1. CASE UNCHANGED vars
    BY <1>1, JobStill DEF vars
<1>2. CASE Pipeline
    <2>1. CASE FlushAlert
        <3>1. job' = job /\ up' = up /\ db' = db /\ tx.owner = None
            BY <2>1 DEF FlushAlert, Write, Process
        <3> QED
            BY <3>1, JobStill
    <2>2. CASE DropAlert
        <3>1. job' = job /\ up' = up /\ db' = db /\ tx.owner = "pipeline"
            BY <2>2 DEF DropAlert, Rollback, Process
        <3> QED
            BY <3>1, JobStill
    <2> QED
        BY <1>2, <2>1, <2>2, JobOvertaken DEF Pipeline
<1>3. CASE Retention
    <2>1. CASE PruneCommit \/ JobTimeout
        BY <2>1, JobIdle DEF PruneCommit, JobTimeout
    <2> QED
        BY <1>3, <2>1, JobCounts, JobSelects, JobPrunes DEF Retention
<1>4. CASE Crash
    BY <1>4, JobIdle DEF Crash
<1>5. CASE Start
    <2>1. job' = job /\ up' /\ tx.owner = None
        BY <1>5 DEF Start, Inv, StoreInv
    <2>2. db'.alerts = db.alerts
        BY <1>5 DEF Start, Commit, Inv, StoreInv, Sound, Tables
    <2> QED
        BY <2>1, <2>2, JobStill
<1>6. CASE \E r \in Requests : Comes(r) \/ Goes(r) \/ RequestTimeout(r)
    <2>1. PICK r \in Requests : Comes(r) \/ Goes(r) \/ RequestTimeout(r)
        BY <1>6
    <2>2. req[r].pc \in Writing <=> tx.owner = r
        BY DEF Inv, LockInv
    <2>3. CASE PurgeCommit(r)
        BY <2>3, JobReset
    <2>4. CASE ~PurgeCommit(r)
        <3>1. job' = job /\ up' = up
            BY <2>1, <2>4
               DEF Comes, Goes, Register, Login, OpenStats, Reset, CheckName, InsertUser,
                   AnswerUser, CommitUser, ReadStats, AnswerStats, Purge, Compact, Compacted,
                   RequestTimeout, Process
        <3>2. CASE UNCHANGED <<db, tx>>
            BY <3>1, <3>2, JobStill
        <3>3. CASE (InsertUser(r) \/ Purge(r) \/ Compact(r)) /\ ~UNCHANGED <<db, tx>>
            <4>1. UNCHANGED db /\ tx.owner \in {None, r}
                BY <3>3 DEF InsertUser, Purge, Compact, Write, CanWrite
            <4> QED
                BY <3>1, <4>1, JobStill
        <3>4. CASE CommitUser(r)
            <4>1. db' = tx.data /\ req[r].pc = "answered"
                BY <3>4 DEF CommitUser, Commit, At
            <4>2. tx.owner = r /\ tx.data.alerts = db.alerts
                BY <2>2, <4>1 DEF Writing, Inv, ReqInv, Told, ToldAs
            <4> QED
                BY <3>1, <4>1, <4>2, JobStill
        <3>5. CASE Compacted(r)
            <4>1. UNCHANGED db /\ req[r].pc = "compacting"
                BY <3>5 DEF Compacted, Rollback, At
            <4>2. tx.owner = r
                BY <2>2, <4>1 DEF Writing
            <4> QED
                BY <3>1, <4>1, <4>2, JobStill
        <3> QED
            BY <2>1, <2>4, <3>2, <3>3, <3>4, <3>5
               DEF Comes, Goes, Register, Login, OpenStats, Reset, CheckName,
                   AnswerUser, ReadStats, AnswerStats, RequestTimeout
    <2> QED
        BY <2>3, <2>4
<1> QED
    BY <1>1, <1>2, <1>3, <1>4, <1>5, <1>6 DEF Next
-------------------------------------------------------------------------------
LEMMA InvInit ==
    ASSUME Init
    PROVE  Inv
<1> USE RecordsAssumption
<1> DEFINE empty == [alerts |-> {}, users |-> {}]
<1>1. PICK errands \in Errands : req = [r \in Requests |-> Resting(errands[r])]
    BY DEF Init
<1>2. /\ db = empty /\ tx = [owner |-> None, data |-> empty] /\ up = FALSE
      /\ crashes = 0 /\ raised = 0 /\ job = Idle
    BY DEF Init
<1>3. \A r \in Requests : errands[r] \in Routes
    OBVIOUS
<1>4. Sound(empty, 0)
    BY FS_EmptySet DEF Sound, Tables, Ordered, Active, Unique
<1>5. empty.users = {} /\ empty.alerts = {}
    OBVIOUS
<1> HIDE DEF empty
<1>6. StoreInv
    <2>1. 0 \in 0..MaxCrashes /\ 0 \in 0..MaxInserts
        OBVIOUS
    <2>2. tx.owner = None /\ tx.data = empty /\ tx = [owner |-> tx.owner, data |-> tx.data]
        BY <1>2
    <2>3. None \in Owners /\ None # "pipeline"
        BY DEF Owners
    <2> QED
        BY <1>2, <1>4, <2>1, <2>2, <2>3 DEF StoreInv
<1>7. \A r \in Requests : /\ req[r] \in ReqStates /\ req[r].pc \in Routes
                          /\ req[r].seen = << >>
    <2> TAKE r \in Requests
    <2>1. req[r] = Resting(errands[r])
        BY <1>1
    <2>2. errands[r] \in Routes
        BY <1>3
    <2> QED
        BY <2>1, <2>2, RestingType DEF Resting
<1>8. LockInv
    BY <1>2, <1>7 DEF LockInv, Idle, Routes, Writing
<1>9. JobInv
    BY <1>2 DEF JobInv, JobStates, Idle
<1>10. ReqInv
    <2>1. req \in [Requests -> ReqStates]
        BY <1>1, <1>7
    <2>2. \A r \in Requests : Told(r)
        BY <1>7 DEF Told, ToldAs, Routes
    <2> QED
        BY <2>1, <2>2 DEF ReqInv
<1> QED
    BY <1>6, <1>8, <1>9, <1>10 DEF Inv

LEMMA InvNext ==
    ASSUME Inv, [Next]_vars
    PROVE  Inv'
BY StoreNext, RequestsNext, JobNext DEF Inv

\* The tables, the transaction, the job and the requests agree with each other.
LEMMA Invariance == Spec => []Inv
<1>1. Init => Inv
    BY InvInit
<1>2. Inv /\ [Next]_vars => Inv'
    BY InvNext
<1> QED
    BY <1>1, <1>2, PTL DEF Spec
-------------------------------------------------------------------------------
\* Every variable has its type, and the write transaction is that of the
\* handler whose steps say so, with any number of requests.
THEOREM TypeCorrect == Spec => []TypeOK
<1>1. Inv => TypeOK
    <2> SUFFICES ASSUME Inv PROVE TypeOK
        OBVIOUS
    <2>1. /\ db \in Tables /\ tx \in [owner : Owners, data : Tables]
          /\ up \in BOOLEAN /\ crashes \in 0..MaxCrashes /\ raised \in 0..MaxInserts
          /\ tx.owner = None => tx.data = db
        BY DEF Inv, StoreInv, Sound
    <2>2. job \in JobStates
        BY DEF Inv, JobInv
    <2>3. req \in [Requests -> ReqStates]
        BY DEF Inv, ReqInv
    <2>4. LockInv
        BY DEF Inv
    <2> QED
        BY <2>1, <2>2, <2>3, <2>4
           DEF TypeOK, Owners, JobStates, ReqStates, Places, LockInv, Writing
<1> QED
    BY <1>1, Invariance, PTL

\* A name has one account and who was told that it is theirs owns it, however
\* many registrations, resets, alerts and crashes come together.
THEOREM AnswersHold == Spec => []AnswerHolds
<1>1. Inv => AnswerHolds
    BY DEF Inv, StoreInv, Sound, Unique, ReqInv, Told, ToldAs, AnswerHolds
<1> QED
    BY <1>1, Invariance, PTL

\* No step takes the account away that a token names.
THEOREM TokensValid == Spec => []TokensStayValid
<1>1. Inv => TokensStayValid
    BY DEF Inv, ReqInv, Told, ToldAs, TokensStayValid
<1> QED
    BY <1>1, Invariance, PTL

(* Which step ends a page and which a round of the job. *)

LEMMA OnlyAnswerServes ==
    ASSUME Inv, Next, NEW r \in Requests, req[r].pc = "reading", req'[r].pc = "served"
    PROVE  AnswerStats(r)
<1> USE RecordsAssumption
<1>1. req \in [Requests -> ReqStates] /\ req' # req
    BY DEF Inv, ReqInv
<1>2. ASSUME NEW alerts \in SUBSET Alert PROVE Watched(alerts)[r].pc = "reading"
    BY WatchedType DEF Inv
<1>3. tx.data.alerts \in SUBSET Alert
    BY SoundParts DEF Inv, StoreInv
<1>4. CASE Pipeline \/ Retention
    <2>1. req' # Watched(tx.data.alerts)
        BY <1>2, <1>3
    <2> QED
        BY <1>1, <1>4, <2>1
           DEF Pipeline, FlushAlert, KeepAlert, DropAlert, Retention, CountAlerts,
               SelectOldest, Prune, PruneCommit, JobTimeout
<1>5. CASE Crash
    <2>1. req'[r] = Resting("failed")
        BY <1>5 DEF Crash, Routes, Ended
    <2> QED
        BY <2>1 DEF Resting
<1>6. CASE Start
    BY <1>1, <1>6 DEF Start
<1>7. CASE \E o \in Requests : Comes(o) \/ Goes(o) \/ RequestTimeout(o)
    <2>1. PICK o \in Requests : Comes(o) \/ Goes(o) \/ RequestTimeout(o)
        BY <1>7
    <2>2. CASE o # r
        <3>1. CASE PurgeCommit(o)
            <4>1. Watched({}) \in [Requests -> ReqStates]
                BY WatchedType DEF Inv
            <4>2. req'[r] = Watched({})[r]
                BY <2>2, <3>1, <4>1 DEF PurgeCommit
            <4> QED
                BY <1>2, <4>2
        <3>2. CASE ~PurgeCommit(o)
            <4>1. req'[r] = req[r]
                BY <1>1, <2>1, <2>2, <3>2
                   DEF Comes, Goes, Register, Login, OpenStats, Reset, CheckName, InsertUser,
                       AnswerUser, CommitUser, ReadStats, AnswerStats, Purge, Compact,
                       Compacted, RequestTimeout, End, Goto
            <4> QED
                BY <4>1
        <3> QED
            BY <3>1, <3>2
    <2>3. CASE o = r
        <3>1. CASE ReadStats(r)
            BY <1>1, <3>1 DEF ReadStats, ReqStates
        <3>2. AnswerStats(r) \/ ReadStats(r)
            BY <2>1, <2>3
               DEF Comes, Goes, Register, Login, OpenStats, Reset, CheckName, InsertUser,
                   AnswerUser, CommitUser, Purge, PurgeCommit, Compact,
                   Compacted, RequestTimeout, At
        <3> QED
            BY <3>1, <3>2
    <2> QED
        BY <2>2, <2>3
<1> QED
    BY <1>4, <1>5, <1>6, <1>7 DEF Next

LEMMA OnlyCommitEnds ==
    ASSUME Inv, Next, job.pc = "commit", job'.pc = "idle", up'
    PROVE  PruneCommit
<1> USE RecordsAssumption
<1>1. job \in JobStates /\ job' # job
    BY DEF Inv, JobInv
<1>2. CASE Pipeline
    BY <1>1, <1>2 DEF Pipeline, FlushAlert, KeepAlert, DropAlert
<1>3. CASE Retention
    BY <1>3 DEF Retention, CountAlerts, SelectOldest, Prune, JobTimeout
<1>4. CASE Crash \/ Start
    BY <1>1, <1>4 DEF Crash, Start
<1>5. CASE \E r \in Requests : Comes(r) \/ Goes(r) \/ RequestTimeout(r)
    <2>1. PICK r \in Requests : Comes(r) \/ Goes(r) \/ RequestTimeout(r)
        BY <1>5
    <2>2. CASE PurgeCommit(r)
        <3>1. tx.owner = r
            BY <2>2 DEF PurgeCommit, At, Writing, Inv, LockInv
        <3> QED
            BY <3>1 DEF Inv, LockInv
    <2>3. CASE ~PurgeCommit(r)
        BY <1>1, <2>1, <2>3
           DEF Comes, Goes, Register, Login, OpenStats, Reset, CheckName, InsertUser,
               AnswerUser, CommitUser, ReadStats, AnswerStats, Purge, Compact, Compacted,
               RequestTimeout
    <2> QED
        BY <2>2, <2>3
<1> QED
    BY <1>2, <1>3, <1>4, <1>5 DEF Next

\* Between which alerts the numbers of a page lie, whatever is stored, pruned
\* or purged while it is read.
THEOREM StatsAreBracketed == Spec => StatsBracketed
<1> DEFINE Step == \A r \in Requests : req[r].pc = "reading" /\ req'[r].pc = "served" =>
        LET counted(n, alerts) == Counts(Queries[n], alerts, req[r].cut)
            levelOf(alerts) == Severity[ThreatLevel(counted(5, alerts), counted(6, alerts))]
        IN  /\ \A n \in DOMAIN Queries : /\ counted(n, req[r].standing) <= req[r].seen[n]
                                         /\ req[r].seen[n] <= counted(n, req[r].ever)
            /\ levelOf(req[r].standing) <= Severity[req'[r].level]
            /\ Severity[req'[r].level] <= levelOf(req[r].ever)
<1>1. Inv /\ [Next]_vars => [Step]_vars
    <2> SUFFICES ASSUME Inv, Next, NEW r \in Requests,
                        req[r].pc = "reading", req'[r].pc = "served"
                 PROVE  LET counted(n, alerts) == Counts(Queries[n], alerts, req[r].cut)
                            levelOf(alerts) ==
                                Severity[ThreatLevel(counted(5, alerts), counted(6, alerts))]
                        IN  /\ \A n \in DOMAIN Queries :
                                   /\ counted(n, req[r].standing) <= req[r].seen[n]
                                   /\ req[r].seen[n] <= counted(n, req[r].ever)
                            /\ levelOf(req[r].standing) <= Severity[req'[r].level]
                            /\ Severity[req'[r].level] <= levelOf(req[r].ever)
        BY DEF vars
    <2> DEFINE q == req[r]
               counted(n, alerts) == Counts(Queries[n], alerts, q.cut)
    <2>1. AnswerStats(r)
        BY OnlyAnswerServes
    <2>2. Len(q.seen) = 6 /\ DOMAIN Queries = 1..6 /\ q.seen \in Seq(Nat)
        BY <2>1, QueryAt DEF AnswerStats, Inv, ReqInv, ReqStates, Queries
    <2>3. /\ IsFiniteSet(q.ever) /\ q.standing \in SUBSET q.ever
          /\ \A n \in 1..6 : /\ counted(n, q.standing) <= q.seen[n]
                             /\ q.seen[n] <= counted(n, q.ever)
        BY <2>2 DEF Inv, ReqInv, Told, ToldAs, Bracketed
    <2>4. req'[r].level = ThreatLevel(q.seen[5], q.seen[6])
        BY <2>1 DEF AnswerStats, Inv, ReqInv, Resting
    <2>5. IsFiniteSet(q.standing)
        BY <2>3, SubsetCard
    <2>6. \A n \in 1..6 : /\ counted(n, q.standing) \in Nat /\ counted(n, q.ever) \in Nat
                          /\ q.seen[n] \in Nat
        BY <2>2, <2>3, <2>5, CountsGrow, ElementOfSeq
    <2> HIDE DEF q, counted
    <2>7. /\ Severity[ThreatLevel(counted(5, q.standing), counted(6, q.standing))]
               <= Severity[ThreatLevel(q.seen[5], q.seen[6])]
          /\ Severity[ThreatLevel(q.seen[5], q.seen[6])]
               <= Severity[ThreatLevel(counted(5, q.ever), counted(6, q.ever))]
        <3>1. ASSUME NEW n \in {5, 6}
              PROVE  /\ counted(n, q.standing) \in Nat /\ counted(n, q.ever) \in Nat
                     /\ q.seen[n] \in Nat
                     /\ counted(n, q.standing) <= q.seen[n] /\ q.seen[n] <= counted(n, q.ever)
            <4>1. n \in 1..6
                OBVIOUS
            <4> QED
                BY <2>3, <2>6, <4>1
        <3>2. PICK a \in Nat, b \in Nat : a = counted(5, q.standing) /\ b = counted(6, q.standing)
            BY <3>1
        <3>3. PICK c \in Nat, d \in Nat : c = q.seen[5] /\ d = q.seen[6]
            BY <3>1
        <3>4. PICK e \in Nat, f \in Nat : e = counted(5, q.ever) /\ f = counted(6, q.ever)
            BY <3>1
        <3>5. a <= c /\ b <= d /\ c <= e /\ d <= f
            BY <3>1, <3>2, <3>3, <3>4
        <3>6. Severity[ThreatLevel(a, b)] <= Severity[ThreatLevel(c, d)]
            BY <3>5, LevelGrows
        <3>7. Severity[ThreatLevel(c, d)] <= Severity[ThreatLevel(e, f)]
            BY <3>5, LevelGrows
        <3> QED
            BY <3>2, <3>3, <3>4, <3>6, <3>7
    <2> QED
        BY <2>2, <2>3, <2>4, <2>7 DEF q, counted
<1> QED
    BY <1>1, Invariance, PTL DEF Spec, StatsBracketed

\* The job deletes the oldest alerts, whatever was stored while it counted,
\* selected and deleted.
THEOREM OldestPruned == Spec => PrunesOldest
<1>1. Inv /\ [Next]_vars =>
        [job.pc = "commit" /\ job'.pc = "idle" /\ up' /\ ~job.reset =>
            \A gone \in db.alerts \ db'.alerts, left \in db'.alerts : gone.nr < left.nr]_vars
    <2> SUFFICES ASSUME Inv, Next, job.pc = "commit", job'.pc = "idle", up', ~job.reset
                 PROVE  \A gone \in db.alerts \ db'.alerts, left \in db'.alerts :
                            gone.nr < left.nr
        BY DEF vars
    <2>1. db' = tx.data
        BY OnlyCommitEnds DEF PruneCommit, Commit
    <2> QED
        BY <2>1 DEF Inv, JobInv, OlderGone
<1> QED
    BY <1>1, Invariance, PTL DEF Spec, PrunesOldest

\* And leaves the limit's worth of alerts.
THEOREM LimitKept == Spec => KeepsLimit
<1>1. Inv /\ [Next]_vars =>
        [job.pc = "commit" /\ job'.pc = "idle" /\ up' /\ ~job.reset =>
            Cardinality(db'.alerts) >= MaxAlerts]_vars
    <2> SUFFICES ASSUME Inv, Next, job.pc = "commit", job'.pc = "idle", up', ~job.reset
                 PROVE  Cardinality(db'.alerts) >= MaxAlerts
        BY DEF vars
    <2>1. db' = tx.data
        BY OnlyCommitEnds DEF PruneCommit, Commit
    <2> QED
        BY <2>1 DEF Inv, JobInv
<1> QED
    BY <1>1, Invariance, PTL DEF Spec, KeepsLimit
===============================================================================
