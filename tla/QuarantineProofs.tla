--------------------------- MODULE QuarantineProofs ---------------------------
(***************************************************************************)
(* With one handler at a time, the committed list of blocked addresses     *)
(* behaves as Quarantine promises, wherever crashes, timeouts and          *)
(* rollbacks cut the handlers short.                                       *)
(***************************************************************************)
EXTENDS StoreProofs, FiniteSetTheorems

(***************************************************************************)
(* The list of blocked addresses that tables t make.                       *)
(***************************************************************************)
Unique(t) ==
    \A x, y \in Ids(t.blocked) : t.blocked[x].ip = t.blocked[y].ip => x = y

Listed(t) == [ip \in IPs |-> StatusOf(t, ip)]

\* What Quarantine does to a list.
Freed(f, ips) == [ip \in IPs |-> IF ip \in ips THEN "free" ELSE f[ip]]

Adds(f, g) ==
    \E ip \in IPs, kind \in {"temporary", "permanent"} :
        f[ip] = "free" /\ g = [f EXCEPT ![ip] = kind]

Temporaries(f) == {ip \in IPs : f[ip] = "temporary"}

LEMMA StayStep ==
    ASSUME Listed(db)' = Listed(db)
    PROVE  BlockList!Next
<1>1. BlockList!Expire
    <2>1. {} \in SUBSET (BlockList!Temporary \cap
                         {db.blocked[b].ip : b \in {b \in Ids(db.blocked) :
                              \E id \in Ids(db.rules) :
                                  id = db.blocked[b].rule /\ Expired(db.rules[id])}})
        OBVIOUS
    <2>2. Listed(db)' = BlockList!Lifted({})
        BY DEF BlockList!Lifted, Listed
    <2> QED
        BY <2>1, <2>2 DEF BlockList!Expire, Listed
<1> QED
    BY <1>1 DEF BlockList!Next

LEMMA AddStep ==
    ASSUME Adds(Listed(db), Listed(db)')
    PROVE  BlockList!Next
<1>1. PICK ip \in IPs : BlockList!Block(ip)
    BY DEF Adds, Listed, BlockList!Block
<1> QED
    BY <1>1 DEF BlockList!Next

LEMMA LiftStep ==
    ASSUME NEW c \in Clients, NEW ip \in IPs, ip \in Named(c),
           Listed(db)' = Freed(Listed(db), {ip})
    PROVE  BlockList!Next
<1>1. BlockList!Lift(ip)
    BY DEF Freed, Listed, BlockList!Lift, BlockList!Lifted
<1> QED
    BY <1>1 DEF BlockList!Next

LEMMA ResetStep ==
    ASSUME Listed(db)' = Freed(Listed(db), Temporaries(Listed(db)))
    PROVE  BlockList!Next
<1>1. BlockList!Reset
    BY DEF Freed, Temporaries, Listed, BlockList!Reset, BlockList!Lifted, BlockList!Temporary
<1> QED
    BY <1>1 DEF BlockList!Next

DueAddresses ==
    {db.blocked[b].ip : b \in {b \in Ids(db.blocked) :
        \E id \in Ids(db.rules) : id = db.blocked[b].rule /\ Expired(db.rules[id])}}

LEMMA ExpireStep ==
    ASSUME NEW ips \in SUBSET (Temporaries(Listed(db)) \cap DueAddresses),
           Listed(db)' = Freed(Listed(db), ips)
    PROVE  BlockList!Next
<1>1. BlockList!Expire
    <2>1. ips \in SUBSET (BlockList!Temporary \cap DueAddresses)
        BY DEF Temporaries, Listed, BlockList!Temporary
    <2>2. Listed(db)' = BlockList!Lifted(ips)
        BY DEF Freed, Listed, BlockList!Lifted
    <2> QED
        BY <2>1, <2>2 DEF BlockList!Expire, Listed, DueAddresses
<1> QED
    BY <1>1 DEF BlockList!Next

(* What the statements of the handlers do to the list. *)

LEMMA StatusCases ==
    ASSUME NEW t \in Tables, Unique(t), NEW ip \in IPs
    PROVE  /\ BlockedFor(t, ip) = {} <=> StatusOf(t, ip) = "free"
           /\ \A b \in BlockedFor(t, ip) :
                  StatusOf(t, ip) = IF t.blocked[b].perm THEN "permanent" ELSE "temporary"
<1>1. \A x, y \in BlockedFor(t, ip) : x = y
    BY DEF Unique, BlockedFor
<1>2. ASSUME NEW b \in BlockedFor(t, ip)
      PROVE  BlockedFor(t, ip) = {b}
    BY <1>1
<1>3. ASSUME NEW b \in BlockedFor(t, ip)
      PROVE  StatusOf(t, ip) = IF t.blocked[b].perm THEN "permanent" ELSE "temporary"
    BY <1>2 DEF StatusOf
<1>4. BlockedFor(t, ip) = {} => StatusOf(t, ip) = "free"
    BY DEF StatusOf
<1> QED
    BY <1>3, <1>4

LEMMA TemporaryIs ==
    ASSUME NEW t \in Tables, Unique(t)
    PROVE  Temporaries(Listed(t)) = {t.blocked[b].ip : b \in {b \in Ids(t.blocked) : ~t.blocked[b].perm}}
<1>1. \A b \in Ids(t.blocked) : t.blocked[b].ip \in IPs
    BY DbBlocked DEF BlockedIP
<1>2. ASSUME NEW ip \in IPs
      PROVE  StatusOf(t, ip) = "temporary"
                 <=> \E b \in Ids(t.blocked) : t.blocked[b].ip = ip /\ ~t.blocked[b].perm
    <2>1. CASE BlockedFor(t, ip) = {}
        BY <2>1, StatusCases DEF BlockedFor
    <2>2. CASE BlockedFor(t, ip) # {}
        <3>1. PICK b \in BlockedFor(t, ip) : TRUE
            BY <2>2
        <3>2. StatusOf(t, ip) = IF t.blocked[b].perm THEN "permanent" ELSE "temporary"
            BY <3>1, StatusCases
        <3>3. \A x \in Ids(t.blocked) : t.blocked[x].ip = ip => x = b
            BY <3>1 DEF BlockedFor, Unique
        <3> QED
            BY <3>1, <3>2, <3>3 DEF BlockedFor
    <2> QED
        BY <2>1, <2>2
<1>3. Temporaries(Listed(t)) = {ip \in IPs : StatusOf(t, ip) = "temporary"}
    BY DEF Temporaries, Listed
<1> QED
    BY <1>1, <1>2, <1>3

\* Tables with the same blocked rows.
LEMMA SameList ==
    ASSUME NEW t, NEW u, u.blocked = t.blocked
    PROVE  /\ Listed(u) = Listed(t)
           /\ Unique(t) => Unique(u)
BY DEF Listed, StatusOf, BlockedFor, Unique

\* Tables without the blocked rows gone.
LEMMA FewerListed ==
    ASSUME NEW t \in Tables, Unique(t), NEW u \in Tables, NEW gone,
           \A b \in RowIds : u.blocked[b] = IF b \in gone THEN None ELSE t.blocked[b]
    PROVE  /\ Unique(u)
           /\ Listed(u) = Freed(Listed(t), {t.blocked[b].ip : b \in gone \cap Ids(t.blocked)})
<1> DEFINE ips == {t.blocked[b].ip : b \in gone \cap Ids(t.blocked)}
<1>1. /\ Ids(u.blocked) = Ids(t.blocked) \ gone
      /\ \A b \in Ids(u.blocked) : u.blocked[b] = t.blocked[b]
    BY DEF Ids
<1>2. Unique(u)
    BY <1>1 DEF Unique
<1>3. ASSUME NEW ip \in IPs, ip \in ips
      PROVE  StatusOf(u, ip) = "free"
    <2>1. PICK b \in gone \cap Ids(t.blocked) : t.blocked[b].ip = ip
        BY <1>3
    <2>2. \A x \in Ids(t.blocked) : t.blocked[x].ip = ip => x = b
        BY <2>1 DEF Unique
    <2>3. BlockedFor(u, ip) = {}
        BY <1>1, <2>1, <2>2 DEF BlockedFor
    <2> QED
        BY <2>3 DEF StatusOf
<1>4. ASSUME NEW ip \in IPs, ip \notin ips
      PROVE  StatusOf(u, ip) = StatusOf(t, ip)
    <2>1. BlockedFor(u, ip) = BlockedFor(t, ip)
        BY <1>1, <1>4 DEF BlockedFor
    <2>2. \A b \in BlockedFor(t, ip) : u.blocked[b] = t.blocked[b]
        BY <1>1, <2>1 DEF BlockedFor
    <2> QED
        BY <1>2, <2>1, <2>2, StatusCases
<1> HIDE DEF ips
<1>5. Listed(u) = Freed(Listed(t), ips)
    BY <1>3, <1>4 DEF Listed, Freed
<1> QED
    BY <1>2, <1>5 DEF ips

\* Tables with one more blocked row, for an address that had none.
LEMMA OneMoreListed ==
    ASSUME NEW t \in Tables, Unique(t), NEW id \in RowIds, NEW b \in RowIds,
           NEW r \in Rule, NEW perm \in BOOLEAN,
           IsNextId(t.blocked, b), BlockedFor(t, r.ip) = {}
    PROVE  /\ Unique(WithBlock(t, id, r, b, perm))
           /\ Adds(Listed(t), Listed(WithBlock(t, id, r, b, perm)))
<1> DEFINE u == WithBlock(t, id, r, b, perm)
           row == [ip |-> r.ip, perm |-> perm, rule |-> id]
           kind == IF perm THEN "permanent" ELSE "temporary"
<1>1. u.blocked = [t.blocked EXCEPT ![b] = row] /\ t.blocked \in [RowIds -> BlockedIP \cup {None}]
    BY TablesFields DEF WithBlock
<1>2. t.blocked[b] = None
    BY DEF IsNextId, Ids, RowIds
<1>3. u \in Tables /\ r.ip \in IPs
    BY WithBlockType DEF Rule
<1>4. row # None /\ row.ip = r.ip /\ row.perm = perm
    BY NoneAssumption, <1>3 DEF BlockedIP
<1> HIDE DEF u, row
<1>5. /\ Ids(u.blocked) = Ids(t.blocked) \cup {b}
      /\ \A x \in Ids(t.blocked) : u.blocked[x] = t.blocked[x] /\ x # b
      /\ u.blocked[b] = row
    BY <1>1, <1>2, <1>4 DEF Ids
<1>6. \A x \in Ids(t.blocked) : t.blocked[x].ip # r.ip
    BY DEF BlockedFor
<1>7. Unique(u)
    BY <1>4, <1>5, <1>6 DEF Unique
<1>8. b \in BlockedFor(u, r.ip)
    BY <1>4, <1>5 DEF BlockedFor
<1>9. StatusOf(u, r.ip) = kind
    BY <1>3, <1>4, <1>5, <1>7, <1>8, StatusCases
<1>10. ASSUME NEW ip \in IPs, ip # r.ip
       PROVE  StatusOf(u, ip) = StatusOf(t, ip)
    <2>1. BlockedFor(u, ip) = BlockedFor(t, ip)
        BY <1>4, <1>5, <1>10 DEF BlockedFor
    <2>2. \A x \in BlockedFor(t, ip) : u.blocked[x] = t.blocked[x]
        BY <1>5 DEF BlockedFor
    <2> QED
        BY <1>3, <1>7, <2>1, <2>2, StatusCases
<1>11. StatusOf(t, r.ip) = "free"
    BY <1>3, StatusCases
<1> HIDE DEF kind
<1>12. Listed(u) = [Listed(t) EXCEPT ![r.ip] = kind] /\ Listed(t)[r.ip] = "free"
    BY <1>3, <1>9, <1>10, <1>11 DEF Listed
<1>13. kind \in {"temporary", "permanent"}
    BY DEF kind
<1>14. Adds(Listed(t), Listed(u))
    BY <1>3, <1>12, <1>13 DEF Adds
<1> QED
    BY <1>7, <1>14 DEF u

(***************************************************************************)
(* The invariant.  A session that is not idle is alone; what it knows of   *)
(* the tables is still so, and what it has written and not yet committed   *)
(* is one step of the list.                                                *)
(***************************************************************************)
Alone(s) == \A other \in Sessions : other # s => ses[other] = Idle

OneAtATime ==
    /\ \E s \in Sessions : Alone(s)
    /\ \E held : ses["startup"] = [Idle EXCEPT !.held = held]
    /\ phase = "running" => ses["startup"] = Idle
    /\ phase # "running" => tx.owner = None /\ Alone("startup")

\* Places in which a session may own the write lock.
Writing == {"alerted", "alert_insert", "expire", "expire_mark", "create_apply",
            "update_apply", "block_apply", "announce", "unblock_commit", "commit"}

\* A request that commits now changes one address, or none.
Pending(c) ==
    \/ Listed(tx.data) = Listed(db)
    \/ Adds(Listed(db), Listed(tx.data))
    \/ /\ ses[c].pc = "commit"
       /\ \E ip \in Named(c) \cap IPs : Listed(tx.data) = Freed(Listed(db), {ip})

\* The expiry job has only deleted blocked rows of expired rules.
Shortened ==
    \A b \in RowIds :
        \/ tx.data.blocked[b] = db.blocked[b]
        \/ /\ tx.data.blocked[b] = None
           /\ b \in Ids(db.blocked)
           /\ Expired(db.rules[db.blocked[b].rule])

TxOK ==
    /\ tx.owner \notin Clients \cup {"expiry"} => tx.data = db
    /\ tx.owner = "expiry" => Shortened
    /\ tx.owner \in Clients => Unique(tx.data) /\ Pending(tx.owner)
    /\ tx.owner # None => ses[tx.owner].pc \in Writing

\* What session x knows: whose blocked row it loaded, whose rule it is about
\* to delete, which rules have expired.
RowKnown(x) == x.row \in Ids(db.blocked) => db.blocked[x.row].ip = x.ip

RuleKnown(x) ==
    x.pc \in {"delete_unhook", "delete_flush"} =>
        \A id \in Ids(x.held) : id \in Ids(db.rules) => db.rules[id].ip = x.held[id].ip

DueKnown(x) ==
    \A id \in RowIds : id \in Ids(x.held) \/ id = x.rule =>
        id \in Ids(db.rules) /\ Expired(db.rules[id])

Knows(s) ==
    /\ s \in Clients => RowKnown(ses[s]) /\ RuleKnown(ses[s])
    /\ s = "expiry" => DueKnown(ses[s])

ListInv ==
    /\ OneAtATime
    /\ TxOK
    /\ Unique(db)
    /\ \A s \in Sessions : Knows(s)

LEMMA IdleFields ==
    /\ Idle.pc = "idle" /\ Idle.row = 0 /\ Idle.rule = 0 /\ Idle.ip = None
    /\ Ids(Idle.held) = {}
    /\ 0 \notin RowIds
BY DEF Idle, NoRules, Ids, RowIds

LEMMA IdleKnows ==
    ASSUME NEW s, ses'[s] = Idle
    PROVE  Knows(s)'
BY IdleFields DEF Knows, RowKnown, RuleKnown, DueKnown, Ids

LEMMA Names ==
    /\ "pipeline" \in Sessions /\ "expiry" \in Sessions /\ "startup" \in Sessions
    /\ "pipeline" \notin Clients /\ "expiry" \notin Clients /\ "startup" \notin Clients
    /\ None \notin Sessions
    /\ \A c \in Clients : c \in Sessions
BY StoreAssumption DEF Sessions

\* Whoever is at work or may begin is alone, and nobody else has the lock.
LEMMA Turn ==
    ASSUME IInv, ListInv, MaxBusy <= 1, NEW s \in Sessions,
           ses[s] # Idle \/ \E operation : CanStart(s, operation)
    PROVE  Alone(s) /\ tx.owner \in {None, s}
<1>1. PICK x \in Sessions : Alone(x)
    BY DEF ListInv, OneAtATime
<1>2. ASSUME ses[s] # Idle
      PROVE  Alone(s)
    BY <1>1, <1>2 DEF Alone
<1>3. ASSUME \E operation : CanStart(s, operation)
      PROVE  Alone(s)
    <2>1. Cardinality(Busy) < MaxBusy /\ MaxBusy \in Nat
        BY <1>3, EnforcementAssumption DEF CanStart
    <2>2. CASE ses[x] = Idle
        BY <1>1, <2>2 DEF Alone
    <2>3. CASE ses[x] # Idle
        <3>1. Busy = {x}
            BY <1>1, <2>3 DEF Alone, Busy
        <3>2. Cardinality({x}) = 1
            BY FS_Singleton
        <3> QED
            BY <2>1, <3>1, <3>2
    <2> QED
        BY <2>2, <2>3
<1>4. Alone(s)
    BY <1>2, <1>3
<1>5. tx.owner \in Sessions \cup {None}
    BY DEF IInv, TypeOK, Transactions
<1>6. ASSUME tx.owner \notin {None, s} PROVE FALSE
    <2>1. ses[tx.owner] = Idle
        BY <1>4, <1>5, <1>6 DEF Alone
    <2>2. ses[tx.owner].pc \in Writing
        BY <1>6 DEF ListInv, TxOK
    <2> QED
        BY <2>1, <2>2, IdleFields DEF Writing
<1> QED
    BY <1>4, <1>6

LEMMA MovesOnly ==
    ASSUME IInv, NEW s \in Sessions, NEW new, Move(s, new)
    PROVE  ses'[s] = new /\ \A other \in Sessions : other # s => ses'[other] = ses[other]
BY InvParts DEF SesOK, Move

\* A step of session s alone.
LEMMA Stepped ==
    ASSUME IInv, ListInv, phase = "running", UNCHANGED Process,
           NEW s \in Sessions, s # "startup", Alone(s), NEW new, Move(s, new),
           Unique(db)', TxOK', Knows(s)'
    PROVE  ListInv'
<1>1. \A other \in Sessions : other # s => ses'[other] = Idle
    BY MovesOnly DEF Alone
<1>2. Alone(s)'
    BY <1>1 DEF Alone
<1>3. ses'["startup"] = Idle /\ phase' = "running"
    BY <1>1, Names DEF Process
<1>4. Idle = [Idle EXCEPT !.held = NoRules]
    BY DEF Idle
<1>5. OneAtATime'
    BY <1>2, <1>3, <1>4 DEF OneAtATime
<1>6. \A other \in Sessions : Knows(other)'
    BY <1>1, IdleKnows
<1> QED
    BY <1>5, <1>6 DEF ListInv
(* The kinds of steps. *)

LEMMA SameStore ==
    ASSUME db' = db
    PROVE  /\ BlockList!Next
           /\ Unique(db)' <=> Unique(db)
<1>1. Listed(db)' = Listed(db)
    BY DEF Listed, StatusOf, BlockedFor, Ids
<1>2. Unique(db)' <=> Unique(db)
    BY DEF Unique, Ids
<1> QED
    BY <1>1, <1>2, StayStep

\* A step that leaves the tables alone and does not give up the lock.
LEMMA QuietMove ==
    ASSUME IInv, ListInv, phase = "running", UNCHANGED <<Process, Store>>,
           NEW s \in Sessions, s # "startup", Alone(s), tx.owner \in {None, s},
           NEW new, Move(s, new),
           tx.owner = s => new.pc \in Writing /\ ses[s].pc # "commit",
           Knows(s)'
    PROVE  ListInv' /\ BlockList!Next
<1>1. db' = db /\ tx' = tx
    BY DEF Store
<1>2. ses'[s] = new
    BY MovesOnly
<1>3. TxOK'
    <2>1. CASE tx.owner = None
        <3>1. tx.owner \notin Clients \cup {"expiry"}
            BY <2>1, Names
        <3>2. tx.data = db
            BY <3>1 DEF ListInv, TxOK
        <3> QED
            BY <1>1, <2>1, <3>1, <3>2 DEF TxOK
    <2>2. CASE tx.owner = s
        <3>1. tx'.owner = s /\ ses'[s].pc \in Writing
            BY <1>1, <1>2, <2>2
        <3>2. s \notin Clients \cup {"expiry"} => tx.data = db
            BY <2>2 DEF ListInv, TxOK
        <3>3. s = "expiry" => Shortened'
            <4>1. s = "expiry" => Shortened
                BY <2>2 DEF ListInv, TxOK
            <4> QED
                BY <1>1, <4>1 DEF Shortened, Ids
        <3>4. s \in Clients => Unique(tx.data)' /\ Pending(s)'
            <4>1. s \in Clients => Unique(tx.data) /\ Pending(s) /\ ses[s].pc # "commit"
                BY <2>2 DEF ListInv, TxOK
            <4>2. Listed(tx.data)' = Listed(tx.data) /\ Listed(db)' = Listed(db)
                BY <1>1 DEF Listed, StatusOf, BlockedFor, Ids
            <4>3. Unique(tx.data) => Unique(tx.data)'
                BY <1>1 DEF Unique, Ids
            <4>4. Adds(Listed(db), Listed(tx.data)) => Adds(Listed(db), Listed(tx.data))'
                BY <4>2 DEF Adds
            <4> QED
                BY <4>1, <4>2, <4>3, <4>4 DEF Pending
        <3> QED
            BY <1>1, <3>1, <3>2, <3>3, <3>4, Names DEF TxOK
    <2> QED
        BY <2>1, <2>2
<1>4. Unique(db)' /\ BlockList!Next
    BY <1>1, SameStore DEF ListInv
<1>5. ListInv'
    BY <1>3, <1>4, Stepped
<1> QED
    BY <1>4, <1>5

\* With no owner the transaction shows the committed tables.
LEMMA NoWriter ==
    ASSUME tx'.owner = None, tx'.data = db'
    PROVE  TxOK'
BY Names DEF TxOK

\* What is written is rolled back, or was nothing.
LEMMA RollbackMove ==
    ASSUME IInv, ListInv, phase = "running", UNCHANGED Process,
           NEW s \in Sessions, s # "startup", Alone(s), tx.owner \in {None, s},
           Rollback(s), Finish(s)
    PROVE  ListInv' /\ BlockList!Next
<1>1. db' = db
    BY DEF Rollback
<1>2. tx'.owner = None /\ tx'.data = db'
    <2>1. CASE tx.owner = s
        BY <2>1 DEF Rollback
    <2>2. CASE tx.owner = None /\ tx.owner # s
        <3>1. tx.data = db
            BY <2>2, Names DEF ListInv, TxOK
        <3> QED
            BY <1>1, <2>2, <3>1 DEF Rollback
    <2> QED
        BY <2>1, <2>2
<1>3. ses'[s] = Idle
    BY MovesOnly DEF Finish
<1>4. Knows(s)'
    BY <1>3, IdleKnows
<1>5. Unique(db)' /\ BlockList!Next
    BY <1>1, SameStore DEF ListInv
<1>6. ListInv'
    BY <1>2, <1>4, <1>5, NoWriter, Stepped DEF Finish
<1> QED
    BY <1>5, <1>6

LEMMA CommitMove ==
    ASSUME IInv, ListInv, phase = "running", UNCHANGED Process,
           NEW s \in Sessions, s # "startup", Alone(s),
           NEW t, Commit(t), Unique(t), NEW new, Move(s, new),
           new = Idle \/ s = "pipeline"
    PROVE  ListInv'
<1>1. tx'.owner = None /\ tx'.data = db' /\ db' = t
    BY DEF Commit
<1>2. Unique(db)'
    BY <1>1 DEF Unique, Ids
<1>3. ses'[s] = new
    BY MovesOnly
<1>4. Knows(s)'
    BY <1>3, IdleKnows, Names DEF Knows
<1> QED
    BY <1>1, <1>2, <1>4, NoWriter, Stepped

LEMMA WriteMove ==
    ASSUME IInv, ListInv, phase = "running", UNCHANGED Process,
           NEW s \in Sessions, s # "startup", Alone(s),
           NEW t, Write(s, t), NEW new, Move(s, new), new.pc \in Writing,
           s \notin Clients \cup {"expiry"} => t = db,
           s = "expiry" => Shortened',
           s \in Clients => Unique(t) /\ Pending(s)',
           Knows(s)'
    PROVE  ListInv' /\ BlockList!Next
<1>1. tx' = [owner |-> s, data |-> t] /\ db' = db
    BY DEF Write
<1>2. tx'.owner = s /\ tx'.data = t
    BY <1>1
<1>3. ses'[s] = new
    BY MovesOnly
<1>4. s \in Clients => Unique(tx.data)'
    BY <1>2 DEF Unique, Ids
<1>5. TxOK'
    BY <1>1, <1>2, <1>3, <1>4, Names DEF TxOK
<1>6. Unique(db)' /\ BlockList!Next
    BY <1>1, SameStore DEF ListInv
<1>7. ListInv'
    BY <1>5, <1>6, Stepped
<1> QED
    BY <1>6, <1>7
(* The steps of requests that write nothing. *)

LEMMA FieldsOf ==
    ASSUME NEW x \in Session
    PROVE  \A p : LET y == [x EXCEPT !.pc = p] IN
               /\ y.pc = p /\ y.row = x.row /\ y.ip = x.ip /\ y.held = x.held
               /\ y.rule = x.rule
BY DEF Session

LEMMA RequestQuiet ==
    ASSUME IInv, ListInv, MaxBusy <= 1, phase = "running", UNCHANGED <<Process, Store>>,
           NEW c \in Clients, ses[c].pc # "idle" \/ \E operation : CanStart(c, operation),
           NEW new, Move(c, new),
           ses[c].pc \in Writing => new.pc \in Writing /\ ses[c].pc # "commit",
           RowKnown(new), RuleKnown(new)
    PROVE  ListInv' /\ BlockList!Next
<1>1. c \in Sessions /\ c # "startup" /\ c # "expiry" /\ c # None
    BY Names
<1>2. Alone(c) /\ tx.owner \in {None, c}
    BY <1>1, Turn, IdleFields
<1>3. tx.owner = c => ses[c].pc \in Writing
    BY <1>1 DEF ListInv, TxOK
<1>4. ses'[c] = new /\ db' = db
    BY <1>1, MovesOnly DEF Store
<1>5. Knows(c)'
    BY <1>1, <1>4 DEF Knows, RowKnown, RuleKnown, Ids
<1> QED
    BY <1>1, <1>2, <1>3, <1>5, QuietMove

LEMMA GoesOn ==
    ASSUME IInv, ListInv, MaxBusy <= 1, phase = "running", UNCHANGED <<Process, Store>>,
           NEW c \in Clients, ses[c].pc # "idle", NEW p, GoTo(c, p),
           ses[c].pc \in Writing => p \in Writing /\ ses[c].pc # "commit",
           p = "delete_flush" => ses[c].pc = "delete_unhook", p # "delete_unhook"
    PROVE  ListInv' /\ BlockList!Next
<1> DEFINE x == ses[c]
           y == [x EXCEPT !.pc = p]
<1>1. c \in Sessions
    BY Names
<1>2. x \in Session
    BY <1>1, InvParts, SessionFields
<1>3. /\ y.pc = p /\ y.row = x.row /\ y.ip = x.ip /\ y.held = x.held
    BY <1>2, FieldsOf
<1>4. RowKnown(x) /\ RuleKnown(x)
    BY <1>1 DEF ListInv, Knows
<1>5. Move(c, y)
    BY DEF GoTo
<1> HIDE DEF y
<1>6. RowKnown(y)
    BY <1>3, <1>4 DEF RowKnown
<1>7. RuleKnown(y)
    BY <1>3, <1>4 DEF RuleKnown
<1> QED
    BY <1>3, <1>5, <1>6, <1>7, RequestQuiet

LEMMA CreateApplyMaps ==
    ASSUME IInv, ListInv, MaxBusy <= 1, NEW c \in Clients, CreateApply(c)
    PROVE  ListInv' /\ BlockList!Next
<1>1. phase = "running" /\ ses[c].pc = "create_apply" /\ GoTo(c, "commit") /\ UNCHANGED <<Process, Store>>
    BY DEF CreateApply, At
<1> QED
    BY <1>1, GoesOn DEF Writing

LEMMA UnhookMaps ==
    ASSUME IInv, ListInv, MaxBusy <= 1, NEW c \in Clients, UpdateUnhook(c) \/ DeleteUnhook(c)
    PROVE  ListInv' /\ BlockList!Next
<1>1. CASE UpdateUnhook(c)
    <2>1. /\ phase = "running" /\ ses[c].pc = "update_unhook" /\ GoTo(c, "update_flush")
          /\ UNCHANGED <<Process, Store>>
        BY <1>1 DEF UpdateUnhook, UnhookRule, At
    <2> QED
        BY <2>1, GoesOn DEF Writing
<1>2. CASE DeleteUnhook(c)
    <2>1. /\ phase = "running" /\ ses[c].pc = "delete_unhook" /\ GoTo(c, "delete_flush")
          /\ UNCHANGED <<Process, Store>>
        BY <1>2 DEF DeleteUnhook, UnhookRule, At
    <2> QED
        BY <2>1, GoesOn DEF Writing
<1> QED
    BY <1>1, <1>2

LEMMA ApplyMaps ==
    ASSUME IInv, ListInv, MaxBusy <= 1, NEW c \in Clients, UpdateApply(c) \/ BlockApply(c)
    PROVE  ListInv' /\ BlockList!Next
<1>1. CASE UpdateApply(c)
    <2>1. /\ phase = "running" /\ ses[c].pc = "update_apply" /\ GoTo(c, "commit")
          /\ UNCHANGED <<Process, Store>>
        BY <1>1 DEF UpdateApply, At
    <2> QED
        BY <2>1, GoesOn DEF Writing
<1>2. CASE BlockApply(c)
    <2>1. /\ phase = "running" /\ ses[c].pc = "block_apply" /\ GoTo(c, "announce")
          /\ UNCHANGED <<Process, Store>>
        BY <1>2 DEF BlockApply, At
    <2> QED
        BY <2>1, GoesOn DEF Writing
<1> QED
    BY <1>1, <1>2

LEMMA AnnounceMaps ==
    ASSUME IInv, ListInv, MaxBusy <= 1, NEW c \in Clients, Announce(c)
    PROVE  ListInv' /\ BlockList!Next
<1>1. phase = "running" /\ ses[c].pc = "announce" /\ UNCHANGED Process /\ c \in Sessions
      /\ c # "startup"
    BY Names DEF Announce, At
<1>2. CASE UNCHANGED Store /\ \E p \in {"commit", "unblock_commit"} : GoTo(c, p)
    BY <1>1, <1>2, GoesOn DEF Writing
<1>3. CASE Rollback(c) /\ Finish(c)
    <2>1. Alone(c) /\ tx.owner \in {None, c}
        BY <1>1, Turn, IdleFields
    <2> QED
        BY <1>1, <1>3, <2>1, RollbackMove
<1> QED
    BY <1>2, <1>3 DEF Announce

\* A row without anything loaded yet.
LEMMA FreshRow ==
    ASSUME NEW c, CanStart(c, "block") \/ CanStart(c, "reset") \/ CanStart(c, "unblock")
                  \/ CanStart(c, "update") \/ CanStart(c, "delete") \/ CanStart(c, "create")
    PROVE  /\ phase = "running" /\ ses[c] = Idle /\ \E operation : CanStart(c, operation)
           /\ ses[c].row \notin RowIds /\ ses[c].pc = "idle" /\ ses[c].pc \notin Writing
BY IdleFields DEF CanStart, Writing

LEMMA LoadMaps ==
    ASSUME IInv, ListInv, MaxBusy <= 1, NEW c \in Clients, UpdateLoad(c) \/ DeleteLoad(c)
    PROVE  ListInv' /\ BlockList!Next
<1>1. /\ CanStart(c, "update") \/ CanStart(c, "delete")
      /\ UNCHANGED <<Process, Store>>
    BY DEF UpdateLoad, DeleteLoad, LoadRule
<1>2. PICK p \in {"update_unhook", "delete_unhook"}, id \in Ids(db.rules) :
          Move(c, [ses[c] EXCEPT !.pc = p, !.held = Only(id, db.rules[id])])
    BY DEF UpdateLoad, DeleteLoad, LoadRule
<1> DEFINE x == ses[c]
           y == [x EXCEPT !.pc = p, !.held = Only(id, db.rules[id])]
<1>3. x \in Session
    BY Names, InvParts, SessionFields
<1>4. y.row = x.row /\ y.held = Only(id, db.rules[id])
    BY <1>3 DEF Session
<1> HIDE DEF y
<1>5. RowKnown(y)
    BY <1>1, <1>4, FreshRow DEF RowKnown, Ids
<1>6. \A i \in Ids(y.held) : y.held[i] = db.rules[i]
    BY <1>4 DEF Only, NoRules, Ids
<1>7. RuleKnown(y)
    BY <1>6 DEF RuleKnown
<1> QED
    BY <1>1, <1>2, <1>5, <1>7, FreshRow, RequestQuiet DEF y

LEMMA BlockCheckMaps ==
    ASSUME IInv, ListInv, MaxBusy <= 1, NEW c \in Clients, BlockCheck(c)
    PROVE  ListInv' /\ BlockList!Next
<1>1. CanStart(c, "block") /\ UNCHANGED <<Process, Store>>
    BY DEF BlockCheck
<1>2. PICK ip : Move(c, [ses[c] EXCEPT !.pc = "block_insert", !.ip = ip])
    BY DEF BlockCheck
<1> DEFINE x == ses[c]
           y == [x EXCEPT !.pc = "block_insert", !.ip = ip]
<1>3. x \in Session
    BY Names, InvParts, SessionFields
<1>4. y.row = x.row /\ y.pc = "block_insert"
    BY <1>3 DEF Session
<1> HIDE DEF y
<1>5. RowKnown(y) /\ RuleKnown(y)
    BY <1>1, <1>4, FreshRow DEF RowKnown, RuleKnown, Ids
<1> QED
    BY <1>1, <1>2, <1>5, FreshRow, RequestQuiet DEF y

LEMMA UnblockMaps ==
    ASSUME IInv, ListInv, MaxBusy <= 1, NEW c \in Clients,
           UnblockSelect(c) \/ UnblockLoad(c) \/ UnblockList(c) \/ UnblockLine(c)
               \/ UnblockLinesDone(c)
    PROVE  ListInv' /\ BlockList!Next
<1> DEFINE x == ses[c]
<1>0. x \in Session /\ c \in Sessions
    BY Names, InvParts, SessionFields
<1>1. CASE UnblockSelect(c)
    <2>1. CanStart(c, "unblock") /\ UNCHANGED <<Process, Store>>
        BY <1>1 DEF UnblockSelect
    <2>2. PICK b \in Ids(db.blocked) :
              Move(c, [x EXCEPT !.pc = "unblock_load", !.row = b, !.ip = db.blocked[b].ip,
                                !.rule = db.blocked[b].rule])
        BY <1>1 DEF UnblockSelect
    <2> DEFINE y == [x EXCEPT !.pc = "unblock_load", !.row = b, !.ip = db.blocked[b].ip,
                              !.rule = db.blocked[b].rule]
    <2>3. y.row = b /\ y.ip = db.blocked[b].ip /\ y.pc = "unblock_load"
        BY <1>0 DEF Session
    <2> HIDE DEF y
    <2>4. RowKnown(y) /\ RuleKnown(y)
        BY <2>3 DEF RowKnown, RuleKnown
    <2> QED
        BY <2>1, <2>2, <2>4, FreshRow, RequestQuiet DEF y
<1>2. ASSUME NEW y, Move(c, y), phase = "running", UNCHANGED <<Process, Store>>,
             x.pc \in {"unblock_load", "unblock_list", "unblock_lines"},
             y.pc \in {"unblock_list", "unblock_lines"}, y.row = x.row, y.ip = x.ip
      PROVE  ListInv' /\ BlockList!Next
    <2>1. RowKnown(x)
        BY <1>0 DEF ListInv, Knows
    <2>2. RowKnown(y) /\ RuleKnown(y)
        BY <1>2, <2>1 DEF RowKnown, RuleKnown
    <2> QED
        BY <1>2, <2>2, RequestQuiet DEF Writing
<1>3. CASE UnblockLoad(c)
    <2>1. PICK held : Move(c, [x EXCEPT !.pc = "unblock_list", !.held = held])
        BY <1>3 DEF UnblockLoad
    <2>2. phase = "running" /\ x.pc = "unblock_load" /\ UNCHANGED <<Process, Store>>
        BY <1>3 DEF UnblockLoad, At
    <2> DEFINE y == [x EXCEPT !.pc = "unblock_list", !.held = held]
    <2>3. y.row = x.row /\ y.ip = x.ip /\ y.pc = "unblock_list"
        BY <1>0 DEF Session
    <2> HIDE DEF y
    <2> QED
        BY <1>2, <2>1, <2>2, <2>3 DEF y
<1>4. CASE UnblockList(c)
    <2>1. phase = "running" /\ x.pc = "unblock_list" /\ UNCHANGED <<Process, Store>>
        BY <1>4 DEF UnblockList, At
    <2>2. CASE GoTo(c, "unblock_lines")
        BY <2>1, <2>2, GoesOn DEF Writing
    <2>3. CASE Move(c, [x EXCEPT !.pc = "unblock_lines", !.lines = LinesFor(chain, x.ip)])
        <3> DEFINE y == [x EXCEPT !.pc = "unblock_lines", !.lines = LinesFor(chain, x.ip)]
        <3>1. y.row = x.row /\ y.ip = x.ip /\ y.pc = "unblock_lines"
            BY <1>0 DEF Session
        <3> HIDE DEF y
        <3> QED
            BY <1>2, <2>1, <2>3, <3>1 DEF y
    <2> QED
        BY <1>4, <2>2, <2>3 DEF UnblockList
<1>5. CASE UnblockLine(c)
    <2>1. phase = "running" /\ x.pc = "unblock_lines" /\ UNCHANGED <<Process, Store>>
        BY <1>5 DEF UnblockLine, At
    <2>2. PICK n : Move(c, [x EXCEPT !.lines = @ \ {n}])
        BY <1>5 DEF UnblockLine
    <2> DEFINE y == [x EXCEPT !.lines = @ \ {n}]
    <2>3. y.row = x.row /\ y.ip = x.ip /\ y.pc = x.pc
        BY <1>0 DEF Session
    <2> HIDE DEF y
    <2> QED
        BY <1>2, <2>1, <2>2, <2>3 DEF y
<1>6. CASE UnblockLinesDone(c)
    <2>1. phase = "running" /\ x.pc = "unblock_lines" /\ UNCHANGED <<Process, Store>>
          /\ GoTo(c, "announce")
        BY <1>6 DEF UnblockLinesDone, At
    <2> QED
        BY <2>1, GoesOn DEF Writing
<1> QED
    BY <1>1, <1>3, <1>4, <1>5, <1>6

LEMMA ResetLoadMaps ==
    ASSUME IInv, ListInv, MaxBusy <= 1, NEW c \in Clients, ResetLoad(c) \/ ResetUnhook(c)
    PROVE  ListInv' /\ BlockList!Next
<1> DEFINE x == ses[c]
<1>0. x \in Session /\ c \in Sessions
    BY Names, InvParts, SessionFields
<1>1. CASE ResetLoad(c)
    <2>1. CanStart(c, "reset") /\ UNCHANGED <<Process, Store>>
        BY <1>1 DEF ResetLoad
    <2>2. PICK held : Move(c, [x EXCEPT !.pc = "reset", !.held = held])
        BY <1>1 DEF ResetLoad
    <2> DEFINE y == [x EXCEPT !.pc = "reset", !.held = held]
    <2>3. y.row = x.row /\ y.pc = "reset"
        BY <1>0 DEF Session
    <2> HIDE DEF y
    <2>4. RowKnown(y) /\ RuleKnown(y)
        BY <2>1, <2>3, FreshRow DEF RowKnown, RuleKnown, Ids
    <2> QED
        BY <2>1, <2>2, <2>4, FreshRow, RequestQuiet DEF y
<1>2. CASE ResetUnhook(c)
    <2>1. phase = "running" /\ x.pc = "reset" /\ UNCHANGED <<Process, Store>>
        BY <1>2 DEF ResetUnhook, At
    <2>2. PICK id : Move(c, [x EXCEPT !.held[id] = None])
        BY <1>2 DEF ResetUnhook
    <2> DEFINE y == [x EXCEPT !.held[id] = None]
    <2>3. y.row = x.row /\ y.ip = x.ip /\ y.pc = x.pc
        BY <1>0 DEF Session
    <2> HIDE DEF y
    <2>4. RowKnown(x)
        BY <1>0 DEF ListInv, Knows
    <2>5. RowKnown(y) /\ RuleKnown(y)
        BY <2>1, <2>3, <2>4 DEF RowKnown, RuleKnown
    <2> QED
        BY <2>1, <2>2, <2>3, <2>5, RequestQuiet DEF y, Writing
<1> QED
    BY <1>1, <1>2
(* The steps of requests that write, commit or roll back. *)

LEMMA RequestTurn ==
    ASSUME IInv, ListInv, MaxBusy <= 1, NEW c \in Clients,
           ses[c].pc # "idle" \/ \E operation : CanStart(c, operation)
    PROVE  /\ c \in Sessions /\ c # "startup" /\ c # "expiry" /\ c # "pipeline" /\ c # None
           /\ ses[c] \in Session
           /\ Alone(c) /\ tx.owner \in {None, c}
           /\ RowKnown(ses[c]) /\ RuleKnown(ses[c])
           /\ ses[c].pc \notin Writing => tx.owner = None /\ View(c) = db
<1>1. c \in Sessions /\ c # "startup" /\ c # "expiry" /\ c # "pipeline" /\ c # None
    BY Names
<1>2. Alone(c) /\ tx.owner \in {None, c}
    BY <1>1, Turn, IdleFields
<1>3. tx.owner = c => ses[c].pc \in Writing
    BY <1>1 DEF ListInv, TxOK
<1> QED
    BY <1>1, <1>2, <1>3, InvParts, SessionFields DEF View, ListInv, Knows

\* Of whom a session x speaks.
Mentions(x, ip) == ip = x.ip \/ \E id \in Ids(x.held) : x.held[id].ip = ip

LEMMA RequestWrite ==
    ASSUME IInv, ListInv, MaxBusy <= 1, phase = "running", UNCHANGED Process,
           NEW c \in Clients, ses[c].pc # "idle" \/ \E operation : CanStart(c, operation),
           NEW t, Write(c, t), Unique(t), NEW new, Move(c, new), new.pc \in Writing,
           \/ Listed(t) = Listed(db)
           \/ Adds(Listed(db), Listed(t))
           \/ /\ new.pc = "commit"
              /\ \E ip \in IPs : Mentions(new, ip) /\ Listed(t) = Freed(Listed(db), {ip}),
           RowKnown(new), RuleKnown(new)
    PROVE  ListInv' /\ BlockList!Next
<1>1. /\ c \in Sessions /\ c # "startup" /\ c # "expiry" /\ c # "pipeline"
      /\ Alone(c)
    BY RequestTurn
<1>2. db' = db /\ tx'.data = t /\ ses'[c] = new
    BY <1>1, MovesOnly DEF Write
<1>3. Listed(tx.data)' = Listed(t) /\ Listed(db)' = Listed(db)
    BY <1>2 DEF Listed, StatusOf, BlockedFor, Ids
<1>4. Adds(Listed(db), Listed(t)) => Adds(Listed(db), Listed(tx.data))'
    BY <1>3 DEF Adds
<1>5. \A ip : Mentions(new, ip) => ip \in Named(c)'
    BY <1>2 DEF Mentions, Named, Ids
<1>6. Pending(c)'
    BY <1>2, <1>3, <1>4, <1>5 DEF Pending, Freed
<1>7. Knows(c)'
    BY <1>1, <1>2 DEF Knows, RowKnown, RuleKnown, Ids
<1> QED
    BY <1>1, <1>6, <1>7, WriteMove

LEMMA CreateFlushMaps ==
    ASSUME IInv, ListInv, MaxBusy <= 1, NEW c \in Clients, CreateFlush(c)
    PROVE  ListInv' /\ BlockList!Next
<1>1. CanStart(c, "create") /\ UNCHANGED Process
    BY DEF CreateFlush
<1>2. PICK body \in NewRules, id \in RowIds :
          /\ Write(c, [db EXCEPT !.rules[id] = ManualRule(body)])
          /\ Move(c, [ses[c] EXCEPT !.pc = "create_apply", !.held = Only(id, ManualRule(body))])
    BY DEF CreateFlush
<1> DEFINE y == [ses[c] EXCEPT !.pc = "create_apply", !.held = Only(id, ManualRule(body))]
           t == [db EXCEPT !.rules[id] = ManualRule(body)]
<1>3. y.pc = "create_apply" /\ y.row = ses[c].row /\ t.blocked = db.blocked
    BY <1>1, RequestTurn, InvParts DEF Session, Tables
<1> HIDE DEF y, t
<1>4. Listed(t) = Listed(db) /\ Unique(t)
    BY <1>3, SameList DEF ListInv
<1>5. RowKnown(y) /\ RuleKnown(y)
    BY <1>1, <1>3, FreshRow DEF RowKnown, RuleKnown, Ids
<1>6. Write(c, t) /\ Move(c, y) /\ y.pc \in Writing
    BY <1>2, <1>3 DEF y, t, Writing
<1> QED
    BY <1>1, <1>4, <1>5, <1>6, FreshRow, RequestWrite

LEMMA UpdateFlushMaps ==
    ASSUME IInv, ListInv, MaxBusy <= 1, NEW c \in Clients, UpdateFlush(c)
    PROVE  ListInv' /\ BlockList!Next
<1>1. phase = "running" /\ ses[c].pc = "update_flush" /\ UNCHANGED Process
    BY DEF UpdateFlush, At
<1>2. CASE GoTo(c, "update_apply") /\ UNCHANGED Store
    BY <1>1, <1>2, GoesOn DEF Writing
<1>3. CASE Rollback(c) /\ Finish(c)
    BY <1>1, <1>3, RequestTurn, RollbackMove
<1>4. ASSUME NEW r, NEW id, NEW new,
             Write(c, [View(c) EXCEPT !.rules[id] = r]),
             Move(c, [ses[c] EXCEPT !.pc = "update_apply", !.held[id] = new])
      PROVE  ListInv' /\ BlockList!Next
    <2> DEFINE y == [ses[c] EXCEPT !.pc = "update_apply", !.held[id] = new]
               t == [db EXCEPT !.rules[id] = r]
    <2>1. /\ y.pc = "update_apply" /\ y.row = ses[c].row /\ y.ip = ses[c].ip
          /\ t.blocked = db.blocked
        BY <1>1, RequestTurn, InvParts DEF Session, Tables
    <2>2. View(c) = db
        BY <1>1, RequestTurn DEF Writing
    <2>3. Write(c, t) /\ Move(c, y)
        BY <1>4, <2>2
    <2> HIDE DEF y, t
    <2>4. Listed(t) = Listed(db) /\ Unique(t)
        BY <2>1, SameList DEF ListInv
    <2>5. RowKnown(y) /\ RuleKnown(y)
        BY <1>1, <2>1, RequestTurn DEF RowKnown, RuleKnown
    <2> QED
        BY <1>1, <2>1, <2>3, <2>4, <2>5, RequestWrite DEF Writing
<1> QED
    BY <1>2, <1>3, <1>4 DEF UpdateFlush

LEMMA DeleteFlushMaps ==
    ASSUME IInv, ListInv, LinkInv, MaxBusy <= 1, NEW c \in Clients, DeleteFlush(c)
    PROVE  ListInv' /\ BlockList!Next
<1>1. phase = "running" /\ ses[c].pc = "delete_flush" /\ UNCHANGED Process /\ GoTo(c, "commit")
    BY DEF DeleteFlush, At
<1>2. View(c) = db /\ c \in Sessions /\ ses[c] \in Session /\ RowKnown(ses[c]) /\ RuleKnown(ses[c])
    BY <1>1, RequestTurn DEF Writing
<1>3. PICK id \in Ids(ses[c].held) :
          Write(c, WithoutRules(WithoutBlocked(db, BlockedBy(db, id)), {id}))
    BY <1>2 DEF DeleteFlush
<1> DEFINE x == ses[c]
           y == [x EXCEPT !.pc = "commit"]
           w == WithoutBlocked(db, BlockedBy(db, id))
           t == WithoutRules(w, {id})
           ips == {db.blocked[b].ip : b \in BlockedBy(db, id) \cap Ids(db.blocked)}
           ip == x.held[id].ip
<1>4. y.pc = "commit" /\ y.row = x.row /\ y.ip = x.ip /\ y.held = x.held
    BY <1>2, FieldsOf
<1>5. w \in Tables /\ t \in Tables
    BY InvParts, WithoutType
<1>6. \A b \in RowIds : t.blocked[b] = IF b \in BlockedBy(db, id) THEN None ELSE db.blocked[b]
    <2>1. w.blocked = [b \in RowIds |-> IF b \in BlockedBy(db, id) THEN None ELSE db.blocked[b]]
        BY InvParts DEF WithoutBlocked, Tables
    <2>2. t.blocked = w.blocked
        BY <1>5 DEF WithoutRules, Tables
    <2> QED
        BY <2>1, <2>2
<1>7. Unique(t) /\ Listed(t) = Freed(Listed(db), ips)
    <2> DEFINE gone == BlockedBy(db, id)
    <2>1. ips = {db.blocked[b].ip : b \in gone \cap Ids(db.blocked)}
        OBVIOUS
    <2>2. \A b \in RowIds : t.blocked[b] = IF b \in gone THEN None ELSE db.blocked[b]
        BY <1>6
    <2>3. db \in Tables /\ Unique(db) /\ t \in Tables
        BY <1>5, InvParts DEF ListInv
    <2> HIDE DEF gone, ips, t
    <2> QED
        BY <2>1, <2>2, <2>3, FewerListed
<1>8. ip \in IPs
    BY <1>2, InvParts, HeldType DEF Rule
<1>9. ASSUME NEW b \in BlockedBy(db, id)
      PROVE  db.blocked[b].ip = ip
    <2>1. b \in Ids(db.blocked) /\ db.blocked[b].rule = id
        BY DEF BlockedBy
    <2>2. /\ db.rules[id] # None /\ db.rules[id].ip = db.blocked[b].ip
        BY <2>1 DEF LinkInv, Linked, LinkedRow
    <2>3. id \in Ids(db.rules)
        BY <1>3, <2>2 DEF Ids
    <2> QED
        BY <1>1, <1>2, <1>3, <2>2, <2>3 DEF RuleKnown
<1>10. Write(c, t) /\ Move(c, y)
    BY <1>1, <1>3 DEF GoTo
<1>11. Mentions(y, ip)
    BY <1>3, <1>4 DEF Mentions
<1>12. ips = {} \/ ips = {ip}
    BY <1>9
<1> HIDE DEF y, t, w, ips, ip
<1>13. Listed(t) = Listed(db) \/ Listed(t) = Freed(Listed(db), {ip})
    <2>1. Freed(Listed(db), {}) = Listed(db)
        BY DEF Freed, Listed
    <2> QED
        BY <1>7, <1>12, <2>1
<1>14. RowKnown(y) /\ RuleKnown(y) /\ y.pc \in Writing
    BY <1>2, <1>4 DEF RowKnown, RuleKnown, Writing
<1> QED
    BY <1>1, <1>4, <1>7, <1>8, <1>10, <1>11, <1>13, <1>14, RequestWrite

LEMMA BlockInsertMaps ==
    ASSUME IInv, ListInv, MaxBusy <= 1, NEW c \in Clients, BlockInsert(c)
    PROVE  ListInv' /\ BlockList!Next
<1>1. phase = "running" /\ ses[c].pc = "block_insert" /\ UNCHANGED Process
    BY DEF BlockInsert, At
<1>2. /\ View(c) = db /\ c \in Sessions /\ c # "startup" /\ ses[c] \in Session
      /\ RowKnown(ses[c]) /\ Alone(c) /\ tx.owner \in {None, c}
    BY <1>1, RequestTurn DEF Writing
<1>3. CASE Rollback(c) /\ Finish(c)
    BY <1>1, <1>2, <1>3, RollbackMove
<1>4. CASE ~(Rollback(c) /\ Finish(c))
    <2>1. BlockedFor(db, ses[c].ip) = {}
        BY <1>2, <1>4 DEF BlockInsert
    <2>2. PICK body \in Blocks, id \in RowIds, b \in RowIds :
              /\ body.ip = ses[c].ip
              /\ IsNextId(db.blocked, b)
              /\ Write(c, WithBlock(db, id, BlockRule(body), b, body.perm))
              /\ Move(c, [ses[c] EXCEPT !.pc = "block_apply", !.held = Only(id, BlockRule(body))])
        BY <1>2, <1>4 DEF BlockInsert
    <2> DEFINE r == BlockRule(body)
               t == WithBlock(db, id, r, b, body.perm)
               y == [ses[c] EXCEPT !.pc = "block_apply", !.held = Only(id, r)]
    <2>3. r \in Rule /\ r.ip = ses[c].ip /\ body.perm \in BOOLEAN
        BY <2>2, BlockRuleType, EnforcementAssumption DEF BlockRule
    <2>4. y.pc = "block_apply" /\ y.row = ses[c].row /\ y.ip = ses[c].ip
        BY <1>2 DEF Session
    <2>5. Write(c, t) /\ Move(c, y)
        BY <2>2
    <2> HIDE DEF r, y
    <2>6. Unique(t) /\ Adds(Listed(db), Listed(t))
        BY <2>1, <2>2, <2>3, InvParts, OneMoreListed DEF ListInv
    <2> HIDE DEF t
    <2>7. RowKnown(y) /\ RuleKnown(y) /\ y.pc \in Writing
        BY <1>2, <2>4 DEF RowKnown, RuleKnown, Writing
    <2> QED
        BY <1>1, <2>5, <2>6, <2>7, RequestWrite
<1> QED
    BY <1>3, <1>4
LEMMA DbAfter ==
    ASSUME IInv'
    PROVE  db' \in Tables
BY DEF IInv, TypeOK

LEMMA RequestCommitMaps ==
    ASSUME IInv, ListInv, MaxBusy <= 1, NEW c \in Clients, RequestCommit(c)
    PROVE  ListInv' /\ BlockList!Next
<1>1. /\ phase = "running" /\ ses[c].pc = "commit" /\ UNCHANGED Process
      /\ Move(c, Idle) /\ Finish(c)
    BY DEF RequestCommit, At, Finish
<1>2. /\ c \in Sessions /\ c # "startup" /\ Alone(c) /\ tx.owner \in {None, c} /\ c # None
    BY <1>1, RequestTurn
<1>3. CASE tx.owner # c
    <2>1. UNCHANGED Store
        BY <1>3 DEF RequestCommit
    <2>2. Knows(c)'
        BY <1>1, <1>2, MovesOnly, IdleKnows
    <2> QED
        BY <1>1, <1>2, <1>3, <2>1, <2>2, QuietMove
<1>4. CASE tx.owner = c
    <2>1. Commit(tx.data) /\ db' = tx.data
        BY <1>4 DEF RequestCommit, Commit
    <2>2. Unique(tx.data) /\ Pending(c)
        BY <1>4 DEF ListInv, TxOK
    <2>3. ListInv'
        BY <1>1, <1>2, <2>1, <2>2, CommitMove
    <2>4. Listed(db)' = Listed(tx.data)
        BY <2>1 DEF Listed, StatusOf, BlockedFor, Ids
    <2>5. BlockList!Next
        <3>1. CASE Listed(tx.data) = Listed(db)
            BY <2>4, <3>1, StayStep
        <3>2. CASE Adds(Listed(db), Listed(tx.data))
            BY <2>4, <3>2, AddStep
        <3>3. CASE \E ip \in Named(c) \cap IPs : Listed(tx.data) = Freed(Listed(db), {ip})
            BY <2>4, <3>3, LiftStep
        <3> QED
            BY <2>2, <3>1, <3>2, <3>3 DEF Pending
    <2> QED
        BY <2>3, <2>5
<1> QED
    BY <1>3, <1>4

\* Tables after a commit that deleted blocked rows.
LEMMA CommitFewer ==
    ASSUME IInv, IInv', ListInv, NEW gone,
           \A b \in RowIds : db'.blocked[b] = IF b \in gone THEN None ELSE db.blocked[b]
    PROVE  /\ Unique(db')
           /\ Listed(db)' = Freed(Listed(db), {db.blocked[b].ip : b \in gone \cap Ids(db.blocked)})
<1>1. db \in Tables /\ Unique(db) /\ db' \in Tables
    BY InvParts, DbAfter DEF ListInv
<1>2. /\ Unique(db')
      /\ Listed(db') = Freed(Listed(db), {db.blocked[b].ip : b \in gone \cap Ids(db.blocked)})
    BY <1>1, FewerListed
<1>3. Listed(db)' = Listed(db')
    BY DEF Listed, StatusOf, BlockedFor, Ids
<1> QED
    BY <1>2, <1>3

LEMMA UnblockCommitMaps ==
    ASSUME IInv, IInv', ListInv, MaxBusy <= 1, NEW c \in Clients, UnblockCommit(c)
    PROVE  ListInv' /\ BlockList!Next
<1>1. /\ phase = "running" /\ ses[c].pc = "unblock_commit" /\ UNCHANGED Process
      /\ Move(c, Idle) /\ Finish(c)
    BY DEF UnblockCommit, At, Finish
<1>2. /\ c \in Sessions /\ c # "startup" /\ Alone(c) /\ tx.owner \in {None, c}
      /\ RowKnown(ses[c])
    BY <1>1, RequestTurn
<1>3. CASE Rollback(c)
    BY <1>1, <1>2, <1>3, RollbackMove
<1>4. CASE ~Rollback(c)
    <2> DEFINE row == ses[c].row
               w == WithoutBlocked(db, {row})
               ips == {db.blocked[b].ip : b \in {row} \cap Ids(db.blocked)}
    <2>1. PICK rs : Commit([w EXCEPT !.rules = rs])
        BY <1>4 DEF UnblockCommit
    <2> DEFINE t == [w EXCEPT !.rules = rs]
    <2>2. t.blocked = w.blocked
        BY InvParts, WithoutType DEF Tables
    <2>3. w.blocked = [b \in RowIds |-> IF b \in {row} THEN None ELSE db.blocked[b]]
        BY InvParts DEF WithoutBlocked, Tables
    <2>4. Commit(t) /\ db' = t
        BY <2>1 DEF Commit
    <2> HIDE DEF t, w, row
    <2>5. \A b \in RowIds : db'.blocked[b] = IF b \in {row} THEN None ELSE db.blocked[b]
        BY <2>2, <2>3, <2>4
    <2>6. Unique(db') /\ Listed(db)' = Freed(Listed(db), ips)
        BY <2>5, CommitFewer
    <2>7. ListInv'
        BY <1>1, <1>2, <2>4, <2>6, CommitMove
    <2>8. BlockList!Next
        <3>1. CASE row \notin Ids(db.blocked)
            <4>1. ips = {}
                BY <3>1
            <4>2. Freed(Listed(db), {}) = Listed(db)
                BY DEF Freed, Listed
            <4> QED
                BY <2>6, <4>1, <4>2, StayStep
        <3>2. CASE row \in Ids(db.blocked)
            <4>1. ips = {ses[c].ip}
                BY <1>2, <3>2 DEF RowKnown, row
            <4>2. ses[c].ip \in IPs
                <5>1. db.blocked[row] \in BlockedIP
                    BY <3>2, InvParts, DbBlocked
                <5> QED
                    BY <1>2, <3>2, <5>1 DEF RowKnown, row, BlockedIP
            <4>3. ses[c].ip \in Named(c)
                BY DEF Named
            <4> HIDE DEF ips
            <4> QED
                BY <2>6, <4>1, <4>2, <4>3, LiftStep
        <3> QED
            BY <3>1, <3>2
    <2> QED
        BY <2>7, <2>8
<1> QED
    BY <1>3, <1>4

LEMMA ResetPurgeMaps ==
    ASSUME IInv, IInv', ListInv, MaxBusy <= 1, NEW c \in Clients, ResetPurge(c)
    PROVE  ListInv' /\ BlockList!Next
<1> DEFINE passing == {b \in Ids(db.blocked) : ~db.blocked[b].perm}
           temps   == {id \in Ids(db.rules) : db.rules[id].temp}
           w == WithoutBlocked(db, passing)
           t == WithoutRules(w, temps)
<1>1. /\ phase = "running" /\ ses[c].pc = "reset" /\ UNCHANGED Process
      /\ Move(c, Idle) /\ Commit(t)
    BY DEF ResetPurge, At, Finish
<1>2. /\ c \in Sessions /\ c # "startup" /\ Alone(c)
    BY <1>1, RequestTurn
<1>3. w.blocked = [b \in RowIds |-> IF b \in passing THEN None ELSE db.blocked[b]]
    BY InvParts DEF WithoutBlocked, Tables
<1>4. t.blocked = w.blocked
    BY InvParts, WithoutType DEF WithoutRules, Tables
<1>5. db' = t
    BY <1>1 DEF Commit
<1>6. {db.blocked[b].ip : b \in passing \cap Ids(db.blocked)} = Temporaries(Listed(db))
    <2>1. passing \cap Ids(db.blocked) = passing
        OBVIOUS
    <2> QED
        BY <2>1, InvParts, TemporaryIs DEF ListInv
<1> HIDE DEF t, w, passing
<1>7. \A b \in RowIds : db'.blocked[b] = IF b \in passing THEN None ELSE db.blocked[b]
    BY <1>3, <1>4, <1>5
<1>8. Unique(db') /\ Listed(db)' = Freed(Listed(db), Temporaries(Listed(db)))
    BY <1>6, <1>7, CommitFewer
<1>9. ListInv'
    BY <1>1, <1>2, <1>5, <1>8, CommitMove
<1> QED
    BY <1>8, <1>9, ResetStep

LEMMA RequestMaps ==
    ASSUME IInv, IInv', ListInv, LinkInv, MaxBusy <= 1, NEW c \in Clients, RequestStep(c)
    PROVE  ListInv' /\ BlockList!Next
BY RequestCommitMaps, CreateFlushMaps, CreateApplyMaps, LoadMaps, UnhookMaps, UpdateFlushMaps,
   ApplyMaps, DeleteFlushMaps, BlockCheckMaps, BlockInsertMaps, AnnounceMaps, UnblockMaps,
   UnblockCommitMaps, ResetLoadMaps, ResetPurgeMaps
   DEF RequestStep

(* The steps of the engine. *)

LEMMA EngineTurn ==
    ASSUME IInv, ListInv, MaxBusy <= 1,
           ses["pipeline"].pc # "idle" \/ \E operation : CanStart("pipeline", operation)
    PROVE  /\ Alone("pipeline") /\ tx.owner \in {None, "pipeline"}
           /\ View("pipeline") = db
           /\ Knows("pipeline")'
           /\ ses["pipeline"] \in Session
           /\ tx.owner = "pipeline" => ses["pipeline"].pc \in Writing
<1>1. Alone("pipeline") /\ tx.owner \in {None, "pipeline"}
    BY Names, Turn, IdleFields
<1>2. View("pipeline") = db
    BY Names DEF ListInv, TxOK, View
<1>3. Knows("pipeline")'
    BY Names DEF Knows
<1>4. tx.owner = "pipeline" => ses["pipeline"].pc \in Writing
    BY Names DEF ListInv, TxOK
<1> QED
    BY <1>1, <1>2, <1>3, <1>4, Names, InvParts, SessionFields

LEMMA EngineMaps ==
    ASSUME IInv, IInv', ListInv, MaxBusy <= 1, PipelineStep
    PROVE  ListInv' /\ BlockList!Next
<1> DEFINE p == "pipeline"
           x == ses[p]
<1>0. p \in Sessions /\ p # "startup" /\ p \notin Clients \cup {"expiry"} /\ p # None
    BY Names
<1>1. CASE AlertFlush
    <2>1. CanStart(p, "alert") /\ UNCHANGED Process /\ Write(p, db) /\ phase = "running"
        BY <1>1 DEF AlertFlush, CanStart
    <2>2. Alone(p) /\ Knows(p)' /\ x \in Session
        BY <2>1, EngineTurn
    <2> DEFINE y == [x EXCEPT !.pc = "alerted"]
    <2>3. Move(p, y) /\ y.pc = "alerted"
        BY <1>1, <2>2 DEF AlertFlush, GoTo, Session
    <2> HIDE DEF y
    <2> QED
        BY <1>0, <2>1, <2>2, <2>3, WriteMove DEF Writing
<1>2. CASE AlertOnly
    <2>1. phase = "running" /\ x.pc = "alerted" /\ UNCHANGED Process /\ Rollback(p) /\ Finish(p)
        BY <1>2 DEF AlertOnly, At
    <2> QED
        BY <1>0, <2>1, EngineTurn, RollbackMove
<1>3. CASE AlertBlocks
    <2>1. phase = "running" /\ x.pc = "alerted" /\ UNCHANGED <<Process, Store>>
        BY <1>3 DEF AlertBlocks, At
    <2>2. PICK ip : Move(p, [x EXCEPT !.pc = "alert_insert", !.ip = ip])
        BY <1>3 DEF AlertBlocks
    <2> DEFINE y == [x EXCEPT !.pc = "alert_insert", !.ip = ip]
    <2>3. y.pc = "alert_insert"
        BY <2>1, EngineTurn DEF Session
    <2> HIDE DEF y
    <2>4. y.pc \in Writing
        BY <2>3 DEF Writing
    <2> QED
        BY <1>0, <2>1, <2>2, <2>4, EngineTurn, QuietMove DEF y
<1>4. CASE AlertInsert
    <2>1. phase = "running" /\ x.pc = "alert_insert" /\ UNCHANGED Process
        BY <1>4 DEF AlertInsert, At
    <2>2. Alone(p) /\ tx.owner \in {None, p} /\ View(p) = db
        BY <2>1, EngineTurn
    <2>3. CASE Rollback(p) /\ Finish(p)
        BY <1>0, <2>1, <2>2, <2>3, RollbackMove
    <2>4. CASE ~(Rollback(p) /\ Finish(p))
        <3>1. BlockedFor(db, x.ip) = {}
            BY <1>4, <2>2, <2>4 DEF AlertInsert
        <3>2. PICK al \in Alerts, id \in RowIds, b \in RowIds :
                  /\ al.ip = x.ip
                  /\ IsNextId(db.blocked, b)
                  /\ Commit(WithBlock(db, id, AutoRule(al), b, al.sev = "high"))
                  /\ Move(p, [x EXCEPT !.pc = "alert_enforce", !.held = Only(id, AutoRule(al))])
            BY <1>4, <2>2, <2>4 DEF AlertInsert
        <3> DEFINE r == AutoRule(al)
                   perm == (al.sev = "high")
                   t == WithBlock(db, id, r, b, perm)
                   y == [x EXCEPT !.pc = "alert_enforce", !.held = Only(id, r)]
        <3>3. r \in Rule /\ r.ip = x.ip /\ perm \in BOOLEAN
            BY <3>2, AutoRuleType DEF AutoRule
        <3>4. Commit(t) /\ Move(p, y) /\ db' = t
            BY <3>2 DEF Commit
        <3> HIDE DEF r, perm, y
        <3>5. Unique(t) /\ Adds(Listed(db), Listed(t))
            BY <3>1, <3>2, <3>3, InvParts, OneMoreListed DEF ListInv
        <3> HIDE DEF t
        <3>6. ListInv'
            BY <1>0, <2>1, <2>2, <3>4, <3>5, CommitMove
        <3>7. Listed(db)' = Listed(t)
            BY <3>4 DEF Listed, StatusOf, BlockedFor, Ids
        <3> QED
            BY <3>5, <3>6, <3>7, AddStep
    <2> QED
        BY <2>3, <2>4
<1>5. CASE AlertEnforce
    <2>1. phase = "running" /\ x.pc = "alert_enforce" /\ UNCHANGED <<Process, Store>> /\ Move(p, Idle)
        BY <1>5 DEF AlertEnforce, At, Finish
    <2>2. tx.owner # p
        BY <2>1, EngineTurn DEF Writing
    <2> QED
        BY <1>0, <2>1, <2>2, EngineTurn, QuietMove
<1> QED
    BY <1>1, <1>2, <1>3, <1>4, <1>5 DEF PipelineStep
(* The steps of the expiry job. *)

LEMMA JobTurn ==
    ASSUME IInv, ListInv, MaxBusy <= 1,
           ses["expiry"].pc # "idle" \/ \E operation : CanStart("expiry", operation)
    PROVE  /\ Alone("expiry") /\ tx.owner \in {None, "expiry"}
           /\ ses["expiry"] \in Session /\ DueKnown(ses["expiry"])
           /\ tx.owner = "expiry" => ses["expiry"].pc \in Writing /\ Shortened
           /\ tx.owner # "expiry" => tx.data = db /\ View("expiry") = db
<1>1. Alone("expiry") /\ tx.owner \in {None, "expiry"}
    BY Names, Turn, IdleFields
<1>2. tx.owner = None => tx.data = db
    BY Names DEF ListInv, TxOK
<1>3. tx.owner = "expiry" => ses["expiry"].pc \in Writing /\ Shortened
    BY Names DEF ListInv, TxOK
<1>4. DueKnown(ses["expiry"])
    BY Names DEF ListInv, Knows
<1> QED
    BY <1>1, <1>2, <1>3, <1>4, Names, InvParts, SessionFields DEF View

\* What the job knows after a step that leaves db alone.
LEMMA JobKnows ==
    ASSUME db' = db, NEW new, ses'["expiry"] = new, DueKnown(new)
    PROVE  Knows("expiry")'
BY Names DEF Knows, DueKnown, Ids

LEMMA ExpiryQuietMaps ==
    ASSUME IInv, ListInv, MaxBusy <= 1, ExpirySelect \/ ExpiryUnhook
    PROVE  ListInv' /\ BlockList!Next
<1> DEFINE e == "expiry"
           x == ses[e]
<1>0. e \in Sessions /\ e # "startup"
    BY Names
<1>1. CASE ExpirySelect
    <2>1. CanStart(e, "expire") /\ UNCHANGED <<Process, Store>> /\ db' = db /\ phase = "running"
          /\ x = Idle
        BY <1>1 DEF ExpirySelect, CanStart, Store
    <2>2. Alone(e) /\ tx.owner \in {None, e} /\ x \in Session
          /\ (tx.owner = e => x.pc \in Writing)
        BY <2>1, JobTurn
    <2>3. tx.owner # e
        BY <2>1, <2>2, IdleFields DEF Writing
    <2> DEFINE y == [x EXCEPT !.pc = "expire", !.held = Loaded(db, Expired)]
    <2>4. y.held = Loaded(db, Expired) /\ y.rule = x.rule
        BY <2>2 DEF Session
    <2>5. Move(e, y)
        BY <1>1 DEF ExpirySelect
    <2> HIDE DEF y
    <2>6. \A id \in Ids(y.held) : id \in Ids(db.rules) /\ Expired(db.rules[id])
        BY <2>4 DEF Loaded, Ids
    <2>7. DueKnown(y)
        BY <2>1, <2>4, <2>6, IdleFields DEF DueKnown
    <2>8. Knows(e)'
        BY <1>0, <2>1, <2>5, <2>7, MovesOnly, JobKnows
    <2> QED
        BY <1>0, <2>1, <2>2, <2>3, <2>5, <2>8, QuietMove
<1>2. CASE ExpiryUnhook
    <2>1. phase = "running" /\ x.pc = "expire" /\ UNCHANGED <<Process, Store>> /\ db' = db
        BY <1>2 DEF ExpiryUnhook, At, Store
    <2>2. Alone(e) /\ tx.owner \in {None, e} /\ x \in Session /\ DueKnown(x)
        BY <2>1, JobTurn
    <2>3. PICK id \in Ids(x.held) : Move(e, [x EXCEPT !.pc = "expire_mark", !.rule = id])
        BY <1>2 DEF ExpiryUnhook
    <2> DEFINE y == [x EXCEPT !.pc = "expire_mark", !.rule = id]
    <2>4. y.pc = "expire_mark" /\ y.held = x.held /\ y.rule = id
        BY <2>2 DEF Session
    <2>5. Move(e, y)
        BY <2>3
    <2> HIDE DEF y
    <2>6. DueKnown(y)
        BY <2>2, <2>3, <2>4 DEF DueKnown
    <2>7. Knows(e)'
        BY <1>0, <2>1, <2>5, <2>6, MovesOnly, JobKnows
    <2>8. y.pc \in Writing /\ x.pc # "commit"
        BY <2>1, <2>4 DEF Writing
    <2> QED
        BY <1>0, <2>1, <2>2, <2>5, <2>7, <2>8, QuietMove
<1> QED
    BY <1>1, <1>2

LEMMA ExpiryMarkMaps ==
    ASSUME IInv, ListInv, MaxBusy <= 1, ExpiryMark
    PROVE  ListInv' /\ BlockList!Next
<1> DEFINE e == "expiry"
           x == ses[e]
           id == x.rule
           t == View(e)
           w == WithoutBlocked(t, BlockedBy(t, id))
           u == [w EXCEPT !.rules[id].active = FALSE]
           y == [x EXCEPT !.pc = "expire", !.held[id] = None, !.rule = 0]
<1>0. e \in Sessions /\ e # "startup" /\ e \notin Clients
    BY Names
<1>1. phase = "running" /\ x.pc = "expire_mark" /\ UNCHANGED Process
    BY DEF ExpiryMark, At
<1>2. /\ Alone(e) /\ tx.owner \in {None, e} /\ x \in Session /\ DueKnown(x)
      /\ tx.owner = e => Shortened
      /\ tx.owner # e => t = db
    BY <1>1, JobTurn
<1>3. CASE Rollback(e) /\ Finish(e)
    BY <1>0, <1>1, <1>2, <1>3, RollbackMove
<1>4. CASE Write(e, u) /\ Move(e, y)
    <2>1. t \in Tables /\ w \in Tables
        BY InvParts, ViewType, WithoutType
    <2>2. u.blocked = w.blocked
        BY <2>1 DEF Tables
    <2>3. w.blocked = [b \in RowIds |-> IF b \in BlockedBy(t, id) THEN None ELSE t.blocked[b]]
        BY <2>1 DEF WithoutBlocked, Tables
    <2>4. ASSUME NEW b \in RowIds
          PROVE  \/ t.blocked[b] = db.blocked[b]
                 \/ /\ t.blocked[b] = None
                    /\ b \in Ids(db.blocked)
                    /\ Expired(db.rules[db.blocked[b].rule])
        BY <1>2 DEF Shortened, View
    <2>5. y.pc = "expire" /\ y.rule = 0 /\ y.held = [x.held EXCEPT ![id] = None]
        BY <1>2 DEF Session
    <2>6. db' = db /\ tx'.data = u /\ ses'[e] = y
        BY <1>0, <1>4, MovesOnly DEF Write
    <2>7. x.held \in [RowIds -> Rule \cup {None}]
        BY <1>2 DEF Session
    <2> HIDE DEF y, u, w, t, id
    <2>8. ASSUME NEW b \in BlockedBy(t, id)
          PROVE  /\ b \in Ids(db.blocked)
                 /\ Expired(db.rules[db.blocked[b].rule])
        <3>1. b \in Ids(t.blocked) /\ t.blocked[b].rule = id
            BY DEF BlockedBy
        <3>2. b \in RowIds /\ t.blocked[b] \in BlockedIP /\ t.blocked[b] # None
            BY <2>1, <3>1, DbBlocked DEF Ids
        <3>3. t.blocked[b] = db.blocked[b] /\ id \in RowIds
            BY <2>4, <3>1, <3>2 DEF BlockedIP
        <3>4. Expired(db.rules[id])
            BY <1>2, <3>3 DEF DueKnown, id
        <3> QED
            BY <3>1, <3>2, <3>3, <3>4 DEF Ids
    <2>9. \A b \in RowIds : u.blocked[b] = IF b \in BlockedBy(t, id) THEN None ELSE t.blocked[b]
        BY <2>2, <2>3
    <2>10. \A b \in RowIds : \/ u.blocked[b] = db.blocked[b]
                             \/ /\ u.blocked[b] = None
                                /\ b \in Ids(db.blocked)
                                /\ Expired(db.rules[db.blocked[b].rule])
        BY <2>4, <2>8, <2>9
    <2>11. Shortened'
        BY <2>6, <2>10 DEF Shortened, Ids
    <2>12. \A i \in Ids(y.held) : i \in Ids(x.held)
        BY <2>5, <2>7 DEF Ids
    <2>13. DueKnown(y)
        BY <1>2, <2>5, <2>12, IdleFields DEF DueKnown
    <2>14. Knows(e)'
        BY <2>6, <2>13, JobKnows
    <2>15. y.pc \in Writing
        BY <2>5 DEF Writing
    <2> QED
        BY <1>0, <1>1, <1>2, <1>4, <2>11, <2>14, <2>15, WriteMove
<1> QED
    BY <1>3, <1>4 DEF ExpiryMark

LEMMA ExpiryCommitMaps ==
    ASSUME IInv, IInv', ListInv, LinkInv, MaxBusy <= 1, ExpiryCommit
    PROVE  ListInv' /\ BlockList!Next
<1> DEFINE e == "expiry"
           t == View(e)
<1>0. e \in Sessions /\ e # "startup"
    BY Names
<1>1. /\ phase = "running" /\ ses[e].pc = "expire" /\ UNCHANGED Process
      /\ Commit(t) /\ Move(e, Idle) /\ db' = t
    BY DEF ExpiryCommit, At, Finish, Commit
<1>2. /\ Alone(e)
      /\ tx.owner = e => Shortened /\ t = tx.data
      /\ tx.owner # e => t = db
    BY <1>1, JobTurn DEF View
<1> DEFINE gone == {b \in Ids(db.blocked) : t.blocked[b] = None}
           ips == {db.blocked[b].ip : b \in gone \cap Ids(db.blocked)}
<1>3. ASSUME NEW b \in RowIds
      PROVE  \/ t.blocked[b] = db.blocked[b]
             \/ /\ t.blocked[b] = None
                /\ b \in Ids(db.blocked)
                /\ Expired(db.rules[db.blocked[b].rule])
    BY <1>2 DEF Shortened
<1> HIDE DEF t
<1>4. \A b \in RowIds : db'.blocked[b] = IF b \in gone THEN None ELSE db.blocked[b]
    BY <1>1, <1>3 DEF Ids
<1>5. ASSUME NEW b \in gone
      PROVE  /\ db.blocked[b].ip \in DueAddresses
             /\ ~db.blocked[b].perm
    <2>1. b \in RowIds /\ b \in Ids(db.blocked) /\ Expired(db.rules[db.blocked[b].rule])
        BY <1>3 DEF Ids
    <2>2. db.blocked[b].rule \in RowIds
        BY <2>1, InvParts, DbBlocked DEF BlockedIP
    <2>3. LinkedRow(db, b)
        BY <2>1 DEF LinkInv, Linked
    <2>4. db.blocked[b].rule \in Ids(db.rules)
        BY <2>2, <2>3 DEF LinkedRow, Ids
    <2>5. ~db.blocked[b].perm
        BY <2>1, <2>3 DEF LinkedRow, Expired
    <2> QED
        BY <2>1, <2>4, <2>5 DEF DueAddresses
<1>6. ips \subseteq Temporaries(Listed(db)) \cap DueAddresses
    <2>1. Temporaries(Listed(db)) = {db.blocked[b].ip : b \in {b \in Ids(db.blocked) : ~db.blocked[b].perm}}
        BY InvParts, TemporaryIs DEF ListInv
    <2> HIDE DEF gone
    <2>2. ips \subseteq {db.blocked[b].ip : b \in {b \in Ids(db.blocked) : ~db.blocked[b].perm}}
        BY <1>5
    <2>3. ips \subseteq DueAddresses
        BY <1>5
    <2> QED
        BY <2>1, <2>2, <2>3
<1> HIDE DEF gone
<1>7. Unique(db') /\ Listed(db)' = Freed(Listed(db), ips)
    BY <1>4, CommitFewer
<1>8. ListInv'
    BY <1>0, <1>1, <1>2, <1>7, CommitMove
<1> HIDE DEF ips
<1>9. ips \in SUBSET (Temporaries(Listed(db)) \cap DueAddresses)
    BY <1>6
<1> QED
    BY <1>7, <1>8, <1>9, ExpireStep

(* Startup, time, crashes. *)

\* A step of startup: the tables are those of nobody else.
LEMMA StartupStep ==
    ASSUME IInv, ListInv, phase # "running", UNCHANGED Store, OneAtATime',
           \A s \in Sessions : s # "startup" => ses'[s] = ses[s]
    PROVE  ListInv' /\ BlockList!Next
<1>1. db' = db /\ tx' = tx /\ tx.owner = None /\ Alone("startup")
    BY DEF ListInv, OneAtATime, Store
<1>2. tx.data = db
    BY <1>1, Names DEF ListInv, TxOK
<1>3. TxOK'
    BY <1>1, <1>2, NoWriter
<1>4. \A s \in Sessions : Knows(s)'
    <2> TAKE s \in Sessions
    <2>1. CASE s = "startup"
        BY <2>1, Names DEF Knows
    <2>2. CASE s # "startup"
        BY <1>1, <2>2, IdleKnows DEF Alone
    <2> QED
        BY <2>1, <2>2
<1>5. Unique(db)' /\ BlockList!Next
    BY <1>1, SameStore DEF ListInv
<1> QED
    BY <1>3, <1>4, <1>5 DEF ListInv

LEMMA StartMaps ==
    ASSUME IInv, ListInv, StartStep
    PROVE  ListInv' /\ BlockList!Next
<1> DEFINE u == "startup"
           x == ses[u]
<1>0. phase # "running" /\ UNCHANGED Store /\ u \in Sessions /\ x \in Session
    BY Names, InvParts, SessionFields DEF StartStep, StartFlush, StartLoad, StartApply, StartServing
<1>1. tx.owner = None /\ Alone(u)
    BY <1>0 DEF ListInv, OneAtATime
<1>2. PICK old : x = [Idle EXCEPT !.held = old]
    BY DEF ListInv, OneAtATime
<1>3. CASE StartFlush
    <2>1. UNCHANGED ses /\ phase' = "load" /\ tx' = tx
        BY <1>0, <1>3 DEF StartFlush, Store
    <2>2. OneAtATime'
        BY <1>0, <1>1, <1>2, <2>1 DEF OneAtATime, Alone
    <2> QED
        BY <1>0, <2>1, <2>2, StartupStep
<1>4. ASSUME NEW held, Move(u, [x EXCEPT !.held = held]), phase' = "apply"
      PROVE  ListInv' /\ BlockList!Next
    <2>1. ses'[u] = [x EXCEPT !.held = held] /\ \A s \in Sessions : s # u => ses'[s] = ses[s]
        BY <1>0, <1>4, MovesOnly
    <2>2. [x EXCEPT !.held = held] = [Idle EXCEPT !.held = held]
        BY <1>2 DEF Idle
    <2>3. tx' = tx
        BY <1>0 DEF Store
    <2>4. Alone(u)'
        BY <1>1, <2>1 DEF Alone
    <2>5. OneAtATime'
        BY <1>0, <1>1, <1>4, <2>1, <2>2, <2>3, <2>4 DEF OneAtATime
    <2> QED
        BY <1>0, <2>1, <2>5, StartupStep
<1>5. CASE StartLoad
    BY <1>4, <1>5 DEF StartLoad
<1>6. CASE StartApply
    <2>1. PICK id : Move(u, [x EXCEPT !.held[id] = None])
        BY <1>6 DEF StartApply
    <2>2. [x EXCEPT !.held[id] = None] = [x EXCEPT !.held = [x.held EXCEPT ![id] = None]]
        BY <1>0 DEF Session
    <2>3. phase' = "apply"
        BY <1>6 DEF StartApply, Process
    <2> QED
        BY <1>4, <2>1, <2>2, <2>3
<1>7. CASE StartServing
    <2>1. Ids(x.held) = {} /\ UNCHANGED ses /\ phase' = "running"
        BY <1>7 DEF StartServing
    <2>2. x.held \in [RowIds -> Rule \cup {None}] /\ x.held = old
        BY <1>0, <1>2 DEF Session, Idle
    <2>3. x.held = NoRules
        BY <2>1, <2>2 DEF Ids, NoRules
    <2>4. x = Idle
        BY <1>2, <2>2, <2>3 DEF Idle
    <2>5. OneAtATime'
        BY <1>0, <1>1, <1>2, <2>1, <2>4 DEF OneAtATime, Alone
    <2> QED
        BY <1>0, <2>1, <2>5, StartupStep
<1> QED
    BY <1>3, <1>5, <1>6, <1>7 DEF StartStep

LEMMA TimeMaps ==
    ASSUME IInv, ListInv, TimePasses
    PROVE  ListInv' /\ BlockList!Next
<1>1. PICK i \in Ids(db.rules) : Commit([db EXCEPT !.rules[i].exp = "due"])
    BY DEF TimePasses
<1> DEFINE r == [db.rules[i] EXCEPT !.exp = "due"]
           t == [db EXCEPT !.rules = [db.rules EXCEPT ![i] = r]]
<1>2. i \in RowIds /\ db.rules[i] \in Rule /\ db.rules \in [RowIds -> Rule \cup {None}]
    BY InvParts, DbRule, TablesFields
<1>3. r \in Rule /\ r.ip = db.rules[i].ip /\ (Expired(db.rules[i]) => Expired(r))
    <2>1. r \in Rule
        BY <1>2, RuleExp DEF Expiries
    <2> QED
        BY <1>2, <2>1 DEF Rule, Expired
<1>4. t.blocked = db.blocked /\ t.rules = [db.rules EXCEPT ![i] = r]
    BY InvParts DEF Tables
<1>5. [db EXCEPT !.rules[i].exp = "due"] = t
    BY InvParts, <1>2 DEF Tables
<1>6. /\ db' = t /\ tx'.owner = None /\ tx'.data = db' /\ tx.owner = None
      /\ UNCHANGED <<phase, ses>>
    BY <1>1, <1>5 DEF TimePasses, Commit, Process
<1> HIDE DEF r, t
<1>7. r # None
    BY <1>3, NoneAssumption
<1>8. \A id \in RowIds :
          /\ id \in Ids(db'.rules) <=> id \in Ids(db.rules)
          /\ id \in Ids(db.rules) => /\ db'.rules[id].ip = db.rules[id].ip
                                     /\ Expired(db.rules[id]) => Expired(db'.rules[id])
    BY <1>2, <1>3, <1>4, <1>6, <1>7 DEF Ids
<1>9. \A s \in Sessions : Knows(s)'
    <2> TAKE s \in Sessions
    <2>1. Knows(s)
        BY DEF ListInv
    <2>2. RowKnown(ses[s]) => RowKnown(ses[s])'
        BY <1>4, <1>6 DEF RowKnown, Ids
    <2>3. RuleKnown(ses[s]) => RuleKnown(ses[s])'
        <3> DEFINE held == ses[s].held
        <3>1. \A id \in Ids(held) : id \in Ids(db.rules)' <=> id \in Ids(db.rules)
            BY <1>8 DEF Ids
        <3>2. \A id \in Ids(held) : id \in Ids(db.rules) => db'.rules[id].ip = db.rules[id].ip
            BY <1>8 DEF Ids
        <3> QED
            BY <1>6, <3>1, <3>2 DEF RuleKnown, Ids
    <2>4. DueKnown(ses[s]) => DueKnown(ses[s])'
        BY <1>6, <1>8 DEF DueKnown, Ids
    <2> QED
        BY <2>1, <2>2, <2>3, <2>4 DEF Knows
<1>10. OneAtATime'
    BY <1>6 DEF ListInv, OneAtATime, Alone
<1>11. TxOK'
    BY <1>6, NoWriter
<1>12. Unique(db)'
    BY <1>4, <1>6 DEF ListInv, Unique, Ids
<1>13. Listed(db)' = Listed(db)
    BY <1>4, <1>6 DEF Listed, StatusOf, BlockedFor, Ids
<1> QED
    BY <1>9, <1>10, <1>11, <1>12, <1>13, StayStep DEF ListInv

LEMMA CrashMaps ==
    ASSUME IInv, ListInv, Crash
    PROVE  ListInv' /\ BlockList!Next
<1>1. /\ phase' = "down" /\ db' = db /\ tx'.owner = None /\ tx'.data = db'
      /\ \A s \in Sessions : ses'[s] = Idle
    BY DEF Crash
<1>2. Idle = [Idle EXCEPT !.held = NoRules]
    BY DEF Idle
<1>3. OneAtATime'
    BY <1>1, <1>2, Names DEF OneAtATime, Alone
<1>4. TxOK'
    BY <1>1, NoWriter
<1>5. \A s \in Sessions : Knows(s)'
    BY <1>1, IdleKnows
<1>6. Unique(db)' /\ BlockList!Next
    BY <1>1, SameStore DEF ListInv
<1> QED
    BY <1>3, <1>4, <1>5, <1>6 DEF ListInv

\* One handler alone waits for nobody.
LEMMA NoTimeout ==
    ASSUME IInv, ListInv, MaxBusy <= 1, NEW s \in Sessions, LockTimeout(s)
    PROVE  FALSE
<1>1. ses[s] # Idle
    BY IdleFields DEF LockTimeout, AwaitsLock
<1>2. tx.owner \in {None, s}
    BY <1>1, Turn
<1> QED
    BY <1>2 DEF LockTimeout, CanWrite

LEMMA StepMaps ==
    ASSUME IInv, IInv', ListInv, LinkInv, MaxBusy <= 1, [Next]_vars
    PROVE  ListInv' /\ BlockList!Next
<1>1. CASE PipelineStep
    BY <1>1, EngineMaps
<1>2. CASE ExpiryStep
    BY <1>2, ExpiryQuietMaps, ExpiryMarkMaps, ExpiryCommitMaps DEF ExpiryStep
<1>3. CASE \E c \in Clients : RequestStep(c)
    BY <1>3, RequestMaps
<1>4. CASE \E s \in Sessions : LockTimeout(s)
    BY <1>4, NoTimeout
<1>5. CASE StartStep
    BY <1>5, StartMaps
<1>6. CASE TimePasses
    BY <1>6, TimeMaps
<1>7. CASE Crash
    BY <1>7, CrashMaps
<1>8. CASE UNCHANGED vars
    <2>1. UNCHANGED <<phase, db, tx, ses>>
        BY <1>8 DEF vars
    <2>2. OneAtATime' /\ \A s \in Sessions : Knows(s)'
        BY <2>1 DEF ListInv, OneAtATime, Alone, Knows, RowKnown, RuleKnown, DueKnown, Ids
    <2>3. Listed(tx.data)' = Listed(tx.data) /\ Listed(db)' = Listed(db)
        BY <2>1 DEF Listed, StatusOf, BlockedFor, Ids
    <2>4. ASSUME NEW c, Pending(c) PROVE Pending(c)'
        <3>1. Named(c)' = Named(c)
            BY <2>1 DEF Named, Ids
        <3>2. Adds(Listed(db), Listed(tx.data)) => Adds(Listed(db), Listed(tx.data))'
            BY <2>3 DEF Adds
        <3>3. \A ip : Freed(Listed(db), {ip})' = Freed(Listed(db), {ip})
            BY <2>3 DEF Freed
        <3> QED
            BY <2>1, <2>3, <2>4, <3>1, <3>2, <3>3 DEF Pending
    <2>5. (Shortened => Shortened') /\ (Unique(tx.data) => Unique(tx.data)')
        BY <2>1 DEF Shortened, Unique, Ids
    <2>6. TxOK'
        BY <2>1, <2>4, <2>5 DEF ListInv, TxOK
    <2> QED
        BY <2>1, <2>2, <2>6, SameStore DEF ListInv
<1> QED
    BY <1>1, <1>2, <1>3, <1>4, <1>5, <1>6, <1>7, <1>8 DEF Next

LEMMA InitLists ==
    ASSUME Init
    PROVE  ListInv /\ LinkInv /\ BlockList!Init
<1>1. /\ phase = "down" /\ db = NoTables /\ tx.owner = None /\ tx.data = db
      /\ \A s \in Sessions : ses[s] = Idle
    BY DEF Init
<1>2. Ids(db.blocked) = {}
    BY <1>1 DEF NoTables, NoRules, Ids
<1>3. LinkInv
    BY <1>1, LinkedNone DEF LinkInv
<1>4. BlockList!Init
    BY <1>2 DEF BlockList!Init, StatusOf, BlockedFor
<1>5. Idle = [Idle EXCEPT !.held = NoRules]
    BY DEF Idle
<1>6. OneAtATime
    BY <1>1, <1>5, Names DEF OneAtATime, Alone
<1>7. TxOK /\ Unique(db)
    BY <1>1, <1>2, Names DEF TxOK, Unique
<1>8. ASSUME NEW s \in Sessions PROVE Knows(s)
    <2>1. ses[s] = Idle
        BY <1>1
    <2>2. RowKnown(Idle) /\ RuleKnown(Idle)
        BY <1>2, IdleFields DEF RowKnown, RuleKnown
    <2>3. DueKnown(Idle)
        BY IdleFields DEF DueKnown
    <2> QED
        BY <2>1, <2>2, <2>3 DEF Knows
<1> QED
    BY <1>3, <1>4, <1>6, <1>7, <1>8 DEF ListInv

\* With one handler at a time and is_temporary left alone by updates, the
\* handlers implement Quarantine, for any number of clients, rows, addresses,
\* alerts and bodies of requests, with iptables commands and broadcasts that
\* fail and with crashes anywhere.
THEOREM ListBehaves == MaxBusy <= 1 /\ TempKept => (Spec => BlocksAsPromised)
<1> SUFFICES ASSUME MaxBusy <= 1, TempKept PROVE Spec => BlocksAsPromised
    OBVIOUS
<1>1. Init => ListInv /\ LinkInv /\ BlockList!Init
    BY InitLists
<1>2. IInv /\ LinkInv /\ [Next]_vars => LinkInv'
    BY NextLinks
<1>3. IInv /\ IInv' /\ LinkInv /\ ListInv /\ [Next]_vars
          => ListInv' /\ [BlockList!Next]_BlockList!vars
    BY StepMaps
<1> QED
    BY <1>1, <1>2, <1>3, Inductive, PTL DEF Spec, BlocksAsPromised, BlockList!Spec
===============================================================================
