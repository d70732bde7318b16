------------------------------ MODULE RuleStore ------------------------------
(***************************************************************************)
(* The two tables of the database that describe enforcement                *)
(* (db/models.py: firewall_rules, blocked_ips).                            *)
(***************************************************************************)
EXTENDS FirewallChain, WriteLock

CONSTANTS
    Clients,    \* request slots of the HTTP API, one session each
    MaxRules    \* bound: row ids of each table the database has room for

Sessions == Clients \cup {"pipeline", "expiry", "startup"}

ASSUME StoreAssumption ==
    /\ MaxRules \in Nat \ {0}
    /\ None \notin IPs
    /\ None \notin Sessions
    /\ Clients \cap {"pipeline", "expiry", "startup"} = {}

RowIds     == 1..MaxRules
Priorities == 1..9999
Expiries   == {"never", "later", "due"}    \* expires_at: NULL, future, past

Rule ==
    [ip : IPs, svc : Selectors, act : Actions, prio : Priorities,
     auto : BOOLEAN, temp : BOOLEAN, exp : Expiries, active : BOOLEAN]

BlockedIP == [ip : IPs, perm : BOOLEAN, rule : RowIds]

ASSUME NoneAssumption == None \notin Rule /\ None \notin BlockedIP

Tables ==
    [rules   : [RowIds -> Rule \cup {None}],
     blocked : [RowIds -> BlockedIP \cup {None}]]

Transactions == [owner : Sessions \cup {None}, data : Tables]

NoRules  == [id \in RowIds |-> None]
NoTables == [rules |-> NoRules, blocked |-> NoRules]

\* The rows of a table, and the id SQLite gives the next one: the ids are
\* INTEGER PRIMARY KEY without AUTOINCREMENT, so it is one more than the
\* largest id present and the id of a deleted last row is used again.
Ids(table) == {id \in RowIds : table[id] # None}

IsNextId(table, id) ==
    /\ \A other \in Ids(table) : other < id
    /\ id = 1 \/ id - 1 \in Ids(table)

\* PRAGMA max_page_count: no room for another rule or blocked row.
Full(t) == MaxRules \in Ids(t.rules) \cup Ids(t.blocked)

BlockedFor(t, ip) == {b \in Ids(t.blocked) : t.blocked[b].ip = ip}
BlockedBy(t, id)  == {b \in Ids(t.blocked) : t.blocked[b].rule = id}

\* t without the rows ids of one of its tables.
WithoutRules(t, ids) ==
    [t EXCEPT !.rules = [id \in RowIds |-> IF id \in ids THEN None ELSE t.rules[id]]]

WithoutBlocked(t, ids) ==
    [t EXCEPT !.blocked = [b \in RowIds |-> IF b \in ids THEN None ELSE t.blocked[b]]]
=============================================================================
