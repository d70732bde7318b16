----------------------------- MODULE Enforcement -----------------------------
(***************************************************************************)
(* Every handler that changes the firewall rules, run concurrently on one  *)
(* event loop: the decision engine on the detection pipeline, the expiry   *)
(* job of the scheduler, the requests of the HTTP API, and startup.        *)
(*                                                                         *)
(* A step is the code between two awaits.  Handlers therefore interleave   *)
(* at each database call, each iptables call and each broadcast, and keep  *)
(* in ses[s] what their session loaded before the await.                   *)
(***************************************************************************)
EXTENDS RuleStore

CONSTANTS
    Operations,     \* the operations this instance runs
    MaxBusy,        \* bound: handlers under way at once
    MaxChain,       \* bound: entries the kernel takes; -A fails beyond
    Failing,        \* iptables commands that may fail: "add", "del", "list", "flush"
    BroadcastFails, \* whether ws_manager.broadcast may raise
    LockTimeouts,   \* whether a wait for the write lock may reach busy_timeout
    Whitelists,     \* values of WHITELIST_IPS a start may read
    MinSeverity,    \* AUTO_BLOCK_MIN_SEVERITY
    Alerts,         \* alert events of the detectors
    NewRules,       \* bodies of POST /api/rules
    Changes,        \* bodies of PUT /api/rules/{id}
    Blocks          \* bodies of POST /api/block

Severities == {"low", "medium", "high"}

ASSUME EnforcementAssumption ==
    /\ Operations \subseteq {"alert", "expire", "create", "update", "delete",
                             "block", "unblock", "reset", "crash"}
    /\ {BroadcastFails, LockTimeouts} \subseteq BOOLEAN
    /\ {MaxBusy, MaxChain} \subseteq Nat
    /\ Failing \subseteq {"add", "del", "list", "flush"}
    /\ Whitelists \subseteq SUBSET IPs
    /\ MinSeverity \in Severities
    /\ Alerts \subseteq [ip : IPs, svc : Services, sev : Severities]
    /\ NewRules \subseteq [ip : IPs, svc : Services, act : Actions,
                           prio : Priorities, temp : BOOLEAN, ttl : BOOLEAN]
    /\ Changes \subseteq [prio : Priorities \cup {None}, act : Actions \cup {None},
                          temp : BOOLEAN \cup {None}, ttl : BOOLEAN]
    /\ Blocks \subseteq [ip : IPs, perm : BOOLEAN, ttl : BOOLEAN]

VARIABLES
    phase,      \* "down", the steps of startup, "running"
    whitelist,  \* WHITELIST_IPS as the running process read it
    chain,      \* the entries of IDS_FIREWALL, kept by the kernel
    ses         \* per session: its place in the handler and what it loaded

vars == <<phase, whitelist, db, tx, chain, ses>>

PCs == {"idle", "alerted", "alert_insert", "alert_enforce",
        "expire", "expire_mark", "create_apply", "update_unhook",
        "update_flush", "update_apply", "delete_unhook", "delete_flush",
        "block_insert", "block_apply", "unblock_load", "unblock_list",
        "unblock_lines", "announce", "unblock_commit", "reset", "commit"}

\* held: the rules the session loaded; ip: the address worked on; rule, row:
\* the ids of the rule and of the blocked row worked on; lines: line numbers
\* still to delete.
Session ==
    [pc : PCs, ip : IPs \cup {None}, held : [RowIds -> Rule \cup {None}],
     rule : {0} \cup RowIds, row : {0} \cup RowIds, lines : SUBSET Nat]

Idle == [pc |-> "idle", ip |-> None, held |-> NoRules,
         rule |-> 0, row |-> 0, lines |-> {}]

Only(id, r) == [NoRules EXCEPT ![id] = r]
Loaded(t, P(_)) ==
    [id \in RowIds |-> IF t.rules[id] # None /\ P(t.rules[id]) THEN t.rules[id] ELSE None]

At(s, pc)    == phase = "running" /\ ses[s].pc = pc
Move(s, new) == ses' = [ses EXCEPT ![s] = new]
GoTo(s, pc)  == Move(s, [ses[s] EXCEPT !.pc = pc])
Finish(s)    == Move(s, Idle)
Busy         == {s \in Sessions : ses[s] # Idle}
AllIdle      == Busy = {}
CanStart(s, operation) ==
    /\ phase = "running"
    /\ operation \in Operations
    /\ ses[s] = Idle
    /\ Cardinality(Busy) < MaxBusy

Process == <<phase, whitelist>>
Store   == <<db, tx>>

(***************************************************************************)
(* Calls to the firewall manager.  A failing command has no effect and its *)
(* return code is only logged.                                             *)
(***************************************************************************)
AddRule(r) ==
    \/ /\ Len(chain) < MaxChain
       /\ chain' = AddedRule(chain, r, whitelist)
    \/ /\ Len(chain) >= MaxChain \/ "add" \in Failing
       /\ UNCHANGED chain

RemoveRule(r) ==
    \/ chain' = RemovedRule(chain, r)
    \/ "del" \in Failing /\ UNCHANGED chain

(***************************************************************************)
(* DecisionEngine.process_alert, called by the detection pipeline.         *)
(***************************************************************************)
Rank == [low |-> 0, medium |-> 1, high |-> 2]

Blockable(al) ==
    /\ al.ip \notin whitelist
    /\ Rank[al.sev] >= Rank[MinSeverity]

\* Mutant: the alert is only added, the first flush comes with the rule.
AlertFlushDeferred ==
    /\ CanStart("pipeline", "alert")
    /\ GoTo("pipeline", "alerted")
    /\ UNCHANGED <<Process, Store, chain>>

\* The alert is flushed to get its id: from here the session owns the write
\* lock, through the broadcast of new_alert, until it commits.
AlertFlush ==
    /\ CanStart("pipeline", "alert")
    /\ CanWrite("pipeline")
    /\ Write("pipeline", db)
    /\ GoTo("pipeline", "alerted")
    /\ UNCHANGED <<Process, chain>>

\* Whitelisted, below the threshold or already blocked: the alert alone is
\* committed.  A broadcast that raises rolls it back instead; the rules and
\* the blocked addresses end the same.
AlertOnly ==
    /\ At("pipeline", "alerted")
    /\ \/ BroadcastFails
       \/ \E al \in Alerts : ~Blockable(al) \/ BlockedFor(View("pipeline"), al.ip) # {}
    /\ Rollback("pipeline")
    /\ Finish("pipeline")
    /\ UNCHANGED <<Process, chain>>

AlertBlocks ==
    /\ At("pipeline", "alerted")
    /\ \E al \in Alerts :
        /\ Blockable(al)
        /\ BlockedFor(View("pipeline"), al.ip) = {}
        /\ Move("pipeline", [ses["pipeline"] EXCEPT !.pc = "alert_insert",
                                                    !.ip = al.ip])
    /\ UNCHANGED <<Process, Store, chain>>

AutoRule(al) ==
    [ip |-> al.ip, svc |-> al.svc, act |-> "DROP",
     prio |-> IF al.sev = "high" THEN 50 ELSE 75,
     auto |-> TRUE, temp |-> al.sev # "high",
     exp |-> IF al.sev = "high" THEN "never" ELSE "later", active |-> TRUE]

\* The tables with a new rule and the blocked row that links to it.
WithBlock(t, id, r, b, perm) ==
    [rules   |-> [t.rules EXCEPT ![id] = r],
     blocked |-> [t.blocked EXCEPT ![b] = [ip |-> r.ip, perm |-> perm, rule |-> id]]]

\* Rule and blocked row are inserted and committed.  An address that is there
\* already breaks UNIQUE(ip_address), a database at max_page_count is full:
\* either raises and the session is rolled back.
AlertInsert ==
    /\ At("pipeline", "alert_insert")
    /\ CanWrite("pipeline")
    /\ LET t == View("pipeline") ip == ses["pipeline"].ip IN
       IF BlockedFor(t, ip) # {} \/ Full(t)
       THEN Rollback("pipeline") /\ Finish("pipeline")
       ELSE \E al \in Alerts, id, b \in RowIds :
              /\ al.ip = ip /\ Blockable(al)
              /\ IsNextId(t.rules, id) /\ IsNextId(t.blocked, b)
              /\ Commit(WithBlock(t, id, AutoRule(al), b, al.sev = "high"))
              /\ Move("pipeline", [ses["pipeline"] EXCEPT
                                       !.pc = "alert_enforce",
                                       !.held = Only(id, AutoRule(al))])
    /\ UNCHANGED <<Process, chain>>

\* iptables is told only after the commit, and its answer is not looked at.
AlertEnforce ==
    /\ At("pipeline", "alert_enforce")
    /\ \E id \in Ids(ses["pipeline"].held) : AddRule(ses["pipeline"].held[id])
    /\ Finish("pipeline")
    /\ UNCHANGED <<Process, Store>>

(***************************************************************************)
(* expire_temporary_blocks, a job that never overlaps itself.              *)
(***************************************************************************)
\* Mutant: every rule with an expiry time in the past.
ExpiredWhateverKind(r) == r.active /\ r.exp = "due"

Expired(r) == r.active /\ r.temp /\ r.exp = "due"

ExpirySelect ==
    /\ CanStart("expiry", "expire")
    /\ \E id \in Ids(db.rules) : Expired(db.rules[id])
    /\ Move("expiry", [ses["expiry"] EXCEPT !.pc = "expire",
                                            !.held = Loaded(db, Expired)])
    /\ UNCHANGED <<Process, Store, chain>>

ExpiryUnhook ==
    /\ At("expiry", "expire")
    /\ \E id \in Ids(ses["expiry"].held) :
        /\ RemoveRule(ses["expiry"].held[id])
        /\ Move("expiry", [ses["expiry"] EXCEPT !.pc = "expire_mark",
                                                !.rule = id])
    /\ UNCHANGED <<Process, Store>>

\* The query for the blocked row flushes is_active = False first.  An UPDATE
\* that finds no row, or a query that finds two, aborts the whole batch.
ExpiryMark ==
    /\ At("expiry", "expire_mark")
    /\ CanWrite("expiry")
    /\ LET t == View("expiry") id == ses["expiry"].rule IN
       IF t.rules[id] = None \/ Cardinality(BlockedBy(t, id)) > 1
       THEN Rollback("expiry") /\ Finish("expiry")
       ELSE /\ Write("expiry", [WithoutBlocked(t, BlockedBy(t, id))
                                 EXCEPT !.rules[id].active = FALSE])
            /\ Move("expiry", [ses["expiry"] EXCEPT !.pc = "expire",
                                                    !.held[id] = None,
                                                    !.rule = 0])
    /\ UNCHANGED <<Process, chain>>

\* Mutant: the batch is never committed.
ExpiryCommitForgotten ==
    /\ At("expiry", "expire")
    /\ Ids(ses["expiry"].held) = {}
    /\ Rollback("expiry")
    /\ Finish("expiry")
    /\ UNCHANGED <<Process, chain>>

ExpiryCommit ==
    /\ At("expiry", "expire")
    /\ Ids(ses["expiry"].held) = {}
    /\ Commit(View("expiry"))
    /\ Finish("expiry")
    /\ UNCHANGED <<Process, chain>>

(***************************************************************************)
(* The API handlers.  get_db commits when the handler has returned and     *)
(* rolls back when it has raised.                                          *)
(***************************************************************************)
RequestCommit(c) ==
    /\ At(c, "commit")
    /\ IF tx.owner = c THEN Commit(tx.data) ELSE UNCHANGED Store
    /\ Finish(c)
    /\ UNCHANGED <<Process, chain>>

ManualRule(body) ==
    [ip |-> body.ip, svc |-> body.svc, act |-> body.act, prio |-> body.prio,
     auto |-> FALSE, temp |-> body.temp,
     exp |-> IF body.temp /\ body.ttl THEN "later" ELSE "never", active |-> TRUE]

\* create_rule: 403 for a whitelisted source, flush, iptables, commit.
CreateFlush(c) ==
    /\ CanStart(c, "create")
    /\ CanWrite(c)
    /\ \E body \in NewRules, id \in RowIds :
        /\ body.ip \notin whitelist
        /\ IsNextId(db.rules, id)
        /\ Write(c, [db EXCEPT !.rules[id] = ManualRule(body)])
        /\ Move(c, [ses[c] EXCEPT !.pc = "create_apply",
                                  !.held = Only(id, ManualRule(body))])
    /\ UNCHANGED <<Process, chain>>

CreateApply(c) ==
    /\ At(c, "create_apply")
    /\ \E id \in Ids(ses[c].held) : AddRule(ses[c].held[id])
    /\ GoTo(c, "commit")
    /\ UNCHANGED <<Process, Store>>

\* update_rule and delete_rule load the rule and take it out of the chain,
\* whether or not it is active.
LoadRule(c, operation, pc) ==
    /\ CanStart(c, operation)
    /\ \E id \in Ids(db.rules) :
        Move(c, [ses[c] EXCEPT !.pc = pc, !.held = Only(id, db.rules[id])])
    /\ UNCHANGED <<Process, Store, chain>>

UnhookRule(c, pc, next) ==
    /\ At(c, pc)
    /\ \E id \in Ids(ses[c].held) : RemoveRule(ses[c].held[id])
    /\ GoTo(c, next)
    /\ UNCHANGED <<Process, Store>>

UpdateLoad(c)   == LoadRule(c, "update", "update_unhook")
UpdateUnhook(c) == UnhookRule(c, "update_unhook", "update_flush")
DeleteLoad(c)   == LoadRule(c, "delete", "delete_unhook")
DeleteUnhook(c) == UnhookRule(c, "delete_unhook", "delete_flush")

Given(value, default) == IF value = None THEN default ELSE value

Changed(r, ch) ==
    [r EXCEPT !.prio = Given(ch.prio, @), !.act = Given(ch.act, @),
              !.temp = Given(ch.temp, @), !.exp = IF ch.ttl THEN "later" ELSE @]

\* The UPDATE writes the columns whose value differs from the one loaded.
Merged(row, old, new) ==
    [row EXCEPT !.prio = IF new.prio # old.prio THEN new.prio ELSE @,
                !.act  = IF new.act # old.act THEN new.act ELSE @,
                !.temp = IF new.temp # old.temp THEN new.temp ELSE @]

UpdateFlush(c) ==
    /\ At(c, "update_flush")
    /\ \E ch \in Changes, id \in Ids(ses[c].held) :
        LET old == ses[c].held[id]
            new == Changed(old, ch)
            t   == View(c)
        IN  \/ \* nothing changed: no statement is sent
               /\ new = old /\ ~ch.ttl
               /\ GoTo(c, "update_apply")
               /\ UNCHANGED Store
            \/ /\ new # old \/ ch.ttl
               /\ CanWrite(c)
               /\ IF t.rules[id] = None
                  THEN Rollback(c) /\ Finish(c)
                  ELSE /\ Write(c, [t EXCEPT !.rules[id] =
                             [Merged(t.rules[id], old, new) EXCEPT
                                !.exp = IF ch.ttl THEN "later" ELSE @]])
                       /\ Move(c, [ses[c] EXCEPT !.pc = "update_apply",
                                                 !.held[id] = new])
    /\ UNCHANGED <<Process, chain>>

UpdateApply(c) ==
    /\ At(c, "update_apply")
    /\ \E id \in Ids(ses[c].held) :
        IF ses[c].held[id].active THEN AddRule(ses[c].held[id]) ELSE UNCHANGED chain
    /\ GoTo(c, "commit")
    /\ UNCHANGED <<Process, Store>>

\* Mutants: the blocked rows of the rule stay; their rule_id becomes NULL.
DeleteFlushRuleOnly(c) ==
    /\ At(c, "delete_flush")
    /\ CanWrite(c)
    /\ \E id \in Ids(ses[c].held) : Write(c, WithoutRules(View(c), {id}))
    /\ GoTo(c, "commit")
    /\ UNCHANGED <<Process, chain>>

DeleteFlushNullsLink(c) ==
    /\ At(c, "delete_flush")
    /\ CanWrite(c)
    /\ \E id \in Ids(ses[c].held) : LET t == View(c) IN
        Write(c, [WithoutRules(t, {id}) EXCEPT !.blocked = [b \in RowIds |->
            IF b \in BlockedBy(t, id) THEN [t.blocked[b] EXCEPT !.rule = None]
                                      ELSE t.blocked[b]]])
    /\ GoTo(c, "commit")
    /\ UNCHANGED <<Process, chain>>

\* A DELETE of a row that has gone is only warned about.
DeleteFlush(c) ==
    /\ At(c, "delete_flush")
    /\ CanWrite(c)
    /\ \E id \in Ids(ses[c].held) :
        Write(c, WithoutRules(WithoutBlocked(View(c), BlockedBy(View(c), id)), {id}))
    /\ GoTo(c, "commit")
    /\ UNCHANGED <<Process, chain>>

\* block_ip: 403 and 409 are answered before anything is written.
BlockCheck(c) ==
    /\ CanStart(c, "block")
    /\ \E body \in Blocks :
        /\ body.ip \notin whitelist
        /\ BlockedFor(db, body.ip) = {}
        /\ Move(c, [ses[c] EXCEPT !.pc = "block_insert", !.ip = body.ip])
    /\ UNCHANGED <<Process, Store, chain>>

BlockRule(body) ==
    [ip |-> body.ip, svc |-> [proto |-> "any", port |-> NoPort], act |-> "DROP",
     prio |-> 50, auto |-> FALSE, temp |-> ~body.perm,
     exp |-> IF ~body.perm /\ body.ttl THEN "later" ELSE "never", active |-> TRUE]

BlockInsert(c) ==
    /\ At(c, "block_insert")
    /\ CanWrite(c)
    /\ LET t == View(c) ip == ses[c].ip IN
       IF BlockedFor(t, ip) # {} \/ Full(t)
       THEN Rollback(c) /\ Finish(c)
       ELSE \E body \in Blocks, id, b \in RowIds :
              /\ body.ip = ip
              /\ IsNextId(t.rules, id) /\ IsNextId(t.blocked, b)
              /\ Write(c, WithBlock(t, id, BlockRule(body), b, body.perm))
              /\ Move(c, [ses[c] EXCEPT !.pc = "block_apply",
                                        !.held = Only(id, BlockRule(body))])
    /\ UNCHANGED <<Process, chain>>

BlockApply(c) ==
    /\ At(c, "block_apply")
    /\ \E id \in Ids(ses[c].held) : AddRule(ses[c].held[id])
    /\ GoTo(c, "announce")
    /\ UNCHANGED <<Process, Store>>

\* The broadcast at the end of block_ip and unblock_ip; when it raises, what
\* iptables was told stays and what the session wrote does not.
Announce(c) ==
    /\ At(c, "announce")
    /\ \/ /\ GoTo(c, IF ses[c].row = 0 THEN "commit" ELSE "unblock_commit")
          /\ UNCHANGED Store
       \/ /\ BroadcastFails
          /\ Rollback(c)
          /\ Finish(c)
    /\ UNCHANGED <<Process, chain>>

\* unblock_ip: 404 when there is no row; the row, then its rule, are loaded.
UnblockSelect(c) ==
    /\ CanStart(c, "unblock")
    /\ \E b \in Ids(db.blocked) :
        Move(c, [ses[c] EXCEPT !.pc = "unblock_load", !.row = b,
                               !.ip = db.blocked[b].ip,
                               !.rule = db.blocked[b].rule])
    /\ UNCHANGED <<Process, Store, chain>>

UnblockLoad(c) ==
    /\ At(c, "unblock_load")
    /\ LET id == ses[c].rule IN
       Move(c, [ses[c] EXCEPT !.pc = "unblock_list",
                              !.held = Only(id, db.rules[id])])
    /\ UNCHANGED <<Process, Store, chain>>

\* remove_rule_by_ip: the listing, then one deletion per line from the
\* highest down, each an await of its own.
UnblockList(c) ==
    /\ At(c, "unblock_list")
    /\ \/ Move(c, [ses[c] EXCEPT !.pc = "unblock_lines",
                                 !.lines = LinesFor(chain, ses[c].ip)])
       \/ "list" \in Failing /\ GoTo(c, "unblock_lines")
    /\ UNCHANGED <<Process, Store, chain>>

UnblockLine(c) ==
    /\ At(c, "unblock_lines")
    /\ \E n \in ses[c].lines :
        /\ \A m \in ses[c].lines : m <= n
        /\ \/ chain' = RemovedLine(chain, n)
           \/ "del" \in Failing /\ UNCHANGED chain
        /\ Move(c, [ses[c] EXCEPT !.lines = @ \ {n}])
    /\ UNCHANGED <<Process, Store>>

UnblockLinesDone(c) ==
    /\ At(c, "unblock_lines")
    /\ ses[c].lines = {}
    /\ GoTo(c, "announce")
    /\ UNCHANGED <<Process, Store, chain>>

\* The session is flushed at commit: is_active = False on the loaded rule if
\* it was active, and the blocked row by its id.
UnblockCommit(c) ==
    /\ At(c, "unblock_commit")
    /\ CanWrite(c)
    /\ LET dirty == {id \in Ids(ses[c].held) : ses[c].held[id].active}
           t     == WithoutBlocked(db, {ses[c].row})
       IN  IF \E id \in dirty : db.rules[id] = None
           THEN Rollback(c)
           ELSE Commit([t EXCEPT !.rules = [id \in RowIds |->
                   IF id \in dirty THEN [t.rules[id] EXCEPT !.active = FALSE]
                                   ELSE t.rules[id]]])
    /\ Finish(c)
    /\ UNCHANGED <<Process, chain>>

\* reset_system_data: 409 while another runs; temporary rules leave the chain
\* one by one, then both tables are purged and committed.
Temporary(r) == r.temp

ResetLoad(c) ==
    /\ CanStart(c, "reset")
    /\ \A other \in Clients : ses[other].pc # "reset"
    /\ Move(c, [ses[c] EXCEPT !.pc = "reset", !.held = Loaded(db, Temporary)])
    /\ UNCHANGED <<Process, Store, chain>>

ResetUnhook(c) ==
    /\ At(c, "reset")
    /\ \E id \in Ids(ses[c].held) :
        /\ RemoveRule(ses[c].held[id])
        /\ Move(c, [ses[c] EXCEPT !.held[id] = None])
    /\ UNCHANGED <<Process, Store>>

ResetPurge(c) ==
    /\ At(c, "reset")
    /\ Ids(ses[c].held) = {}
    /\ CanWrite(c)
    /\ LET passing == {b \in Ids(db.blocked) : ~db.blocked[b].perm}
           temps   == {id \in Ids(db.rules) : db.rules[id].temp}
       IN  Commit(WithoutRules(WithoutBlocked(db, passing), temps))
    /\ Finish(c)
    /\ UNCHANGED <<Process, chain>>

\* A statement that waited for the write lock longer than busy_timeout raises
\* and the handler's session is rolled back.
AwaitsLock(s) ==
    \/ ses[s].pc \in {"expire_mark", "update_flush", "delete_flush",
                      "block_insert", "unblock_commit"}
    \/ ses[s].pc = "reset" /\ Ids(ses[s].held) = {}

LockTimeout(s) ==
    /\ LockTimeouts
    /\ phase = "running"
    /\ AwaitsLock(s)
    /\ ~CanWrite(s)
    /\ Finish(s)
    /\ UNCHANGED <<Process, Store, chain>>

(***************************************************************************)
(* Time, crashes and startup.                                              *)
(***************************************************************************)

\* An expiry time passes.  Only ExpirySelect looks, at committed rows, so it
\* is enough to let it happen between write transactions.
TimePasses ==
    /\ tx.owner = None
    /\ \E id \in Ids(db.rules) :
        /\ db.rules[id].exp = "later"
        /\ Commit([db EXCEPT !.rules[id].exp = "due"])
    /\ UNCHANGED <<Process, chain, ses>>

\* The process ends at any point; uncommitted writes are lost.  The kernel
\* keeps the chain unless the host went down too.  The next start reads the
\* configuration again.
Crash ==
    /\ "crash" \in Operations
    /\ phase # "down"
    /\ phase' = "down"
    /\ whitelist' \in Whitelists
    /\ chain' \in {chain, <<>>}
    /\ ses' = [s \in Sessions |-> Idle]
    /\ tx' = [owner |-> None, data |-> db]
    /\ UNCHANGED db

\* lifespan: init_chain and the flush of reconcile.
StartFlush ==
    /\ phase = "down"
    /\ phase' = "load"
    /\ \/ chain' = <<>>
       \/ "flush" \in Failing /\ UNCHANGED chain
    /\ UNCHANGED <<whitelist, Store, ses>>

Active(r) == r.active

StartLoad ==
    /\ phase = "load"
    /\ phase' = "apply"
    /\ Move("startup", [ses["startup"] EXCEPT !.held = Loaded(db, Active)])
    /\ UNCHANGED <<whitelist, Store, chain>>

\* Mutant: the rules are applied in the order the table gives them.
StartApplyUnordered ==
    /\ phase = "apply"
    /\ LET held == ses["startup"].held IN
       \E id \in Ids(held) :
        /\ \A other \in Ids(held) : id <= other
        /\ AddRule(held[id])
        /\ Move("startup", [ses["startup"] EXCEPT !.held[id] = None])
    /\ UNCHANGED <<Process, Store>>

StartApply ==
    /\ phase = "apply"
    /\ LET held == ses["startup"].held IN
       \E id \in Ids(held) :
        /\ \A other \in Ids(held) : held[id].prio <= held[other].prio
        /\ AddRule(held[id])
        /\ Move("startup", [ses["startup"] EXCEPT !.held[id] = None])
    /\ UNCHANGED <<Process, Store>>

StartServing ==
    /\ phase = "apply"
    /\ Ids(ses["startup"].held) = {}
    /\ phase' = "running"
    /\ UNCHANGED <<whitelist, Store, chain, ses>>

Init ==
    /\ phase = "down"
    /\ whitelist \in Whitelists
    /\ db = NoTables
    /\ tx = [owner |-> None, data |-> NoTables]
    /\ chain = <<>>
    /\ ses = [s \in Sessions |-> Idle]

PipelineStep == AlertFlush \/ AlertOnly \/ AlertBlocks \/ AlertInsert \/ AlertEnforce

ExpiryStep == ExpirySelect \/ ExpiryUnhook \/ ExpiryMark \/ ExpiryCommit

RequestStep(c) ==
    \/ RequestCommit(c)
    \/ CreateFlush(c) \/ CreateApply(c)
    \/ UpdateLoad(c) \/ UpdateUnhook(c) \/ UpdateFlush(c) \/ UpdateApply(c)
    \/ DeleteLoad(c) \/ DeleteUnhook(c) \/ DeleteFlush(c)
    \/ BlockCheck(c) \/ BlockInsert(c) \/ BlockApply(c) \/ Announce(c)
    \/ UnblockSelect(c) \/ UnblockLoad(c) \/ UnblockList(c) \/ UnblockLine(c)
    \/ UnblockLinesDone(c) \/ UnblockCommit(c)
    \/ ResetLoad(c) \/ ResetUnhook(c) \/ ResetPurge(c)

StartStep == StartFlush \/ StartLoad \/ StartApply \/ StartServing

Next ==
    \/ PipelineStep
    \/ ExpiryStep
    \/ \E c \in Clients : RequestStep(c)
    \/ \E s \in Sessions : LockTimeout(s)
    \/ StartStep
    \/ TimePasses
    \/ Crash

Spec == Init /\ [][Next]_vars
-------------------------------------------------------------------------------
(***************************************************************************)
(* Properties.                                                             *)
(***************************************************************************)

\* Every variable has its type; with no writer the transaction shows the
\* committed tables.
TypeOK ==
    /\ phase \in {"down", "load", "apply", "running"}
    /\ whitelist \in SUBSET IPs
    /\ db \in Tables
    /\ tx \in Transactions
    /\ chain \in Seq(Entries)
    /\ ses \in [Sessions -> Session]

\* "Whitelisted IPs are NEVER blocked" (decision/engine.py:36): once startup
\* has flushed the chain, no entry of it is about an address the running
\* process has in its whitelist, whatever rules earlier configurations left
\* active in the database and whichever handlers are under way.
WhitelistNeverEnforced ==
    "flush" \notin Failing /\ phase # "down" =>
        \A n \in DOMAIN chain : chain[n].ip \notin whitelist

\* Every blocked_ips row is "linked back to the firewall rule that enforces
\* it" (db/models.py:85): the rule exists and is for the same address, in the
\* committed tables and in those of the open transaction.
Backed(t) ==
    \A b \in Ids(t.blocked) :
        LET id == t.blocked[b].rule IN
        t.rules[id] # None /\ t.rules[id].ip = t.blocked[b].ip

BlockedRowBacked == Backed(db) /\ Backed(tx.data)

\* process_alert looks for an existing block and inserts one in two steps; as
\* the alert it flushed first holds the write lock, no other session can have
\* blocked the address in between, so the insert never breaks UNIQUE.
AutoBlockNeverCollides ==
    At("pipeline", "alert_insert") =>
        BlockedFor(View("pipeline"), ses["pipeline"].ip) = {}

\* The entries the committed rules call for.
Enforceable == {id \in Ids(db.rules) : db.rules[id].active /\ db.rules[id].ip \notin whitelist}
Wanted(e)   == Cardinality({id \in Enforceable : SpecOf(db.rules[id]) = e})

\* Between operations the chain holds no entry that no active rule accounts
\* for: nobody is filtered without a record an operator can see and delete.
NoOrphanEntries ==
    phase = "running" /\ AllIdle =>
        \A n \in DOMAIN chain : CountOf(chain, chain[n]) <= Wanted(chain[n])

\* Whatever point the previous process died at, when startup hands over the
\* chain is the active, non-whitelisted rules of the database in priority
\* order (firewall/sync.py, reconcile).
Mirrors ==
    \E p \in [1..Len(chain) -> Enforceable] :
        /\ {p[n] : n \in 1..Len(chain)} = Enforceable
        /\ Len(chain) = Cardinality(Enforceable)
        /\ \A n \in 1..Len(chain) : chain[n] = SpecOf(db.rules[p[n]])
        /\ \A m, n \in 1..Len(chain) :
               m <= n => db.rules[p[m]].prio <= db.rules[p[n]].prio

RestartHeals == [][phase = "apply" /\ phase' = "running" => Mirrors']_vars

\* "Ensures the database rule table and the actual iptables state never drift
\* apart" (firewall/sync.py:4): between operations the chain has exactly the
\* entries the active rules call for.
NeverDriftsApart ==
    phase = "running" /\ AllIdle =>
        \A e \in {SpecOf(db.rules[id]) : id \in Enforceable}
                     \cup {chain[n] : n \in DOMAIN chain} :
            CountOf(chain, e) = Wanted(e)

(***************************************************************************)
(* Fairness: the event loop resumes every handler whose await is over, the *)
(* scheduler starts its job every interval, and a statement that polls for *)
(* the write lock gets it when the lock is free again and again.  Nothing  *)
(* makes a request, an alert or a crash happen.                            *)
(***************************************************************************)
PipelineResumes == AlertOnly \/ AlertBlocks \/ AlertInsert \/ AlertEnforce

RequestResumes(c) ==
    \/ RequestCommit(c) \/ CreateApply(c)
    \/ UpdateUnhook(c) \/ UpdateFlush(c) \/ UpdateApply(c)
    \/ DeleteUnhook(c) \/ DeleteFlush(c)
    \/ BlockInsert(c) \/ BlockApply(c) \/ Announce(c)
    \/ UnblockLoad(c) \/ UnblockList(c) \/ UnblockLine(c)
    \/ UnblockLinesDone(c) \/ UnblockCommit(c)
    \/ ResetUnhook(c) \/ ResetPurge(c)

Fairness ==
    /\ WF_vars(StartStep)
    /\ WF_vars(PipelineResumes)
    /\ \A c \in Clients : WF_vars(RequestResumes(c))
    /\ WF_vars(ExpirySelect) /\ WF_vars(ExpiryUnhook) /\ WF_vars(ExpiryCommit)
    /\ SF_vars(ExpiryMark)

FairSpec == Spec /\ Fairness

\* A temporary block does not outlive its expiry time for ever: once the time
\* has passed the rule is deactivated, removed or given more time
\* (firewall/scheduler.py, expire_temporary_blocks).
Overdue(id) == db.rules[id] # None /\ Expired(db.rules[id])

OverdueIsLifted == \A id \in RowIds : Overdue(id) ~> ~Overdue(id)

(***************************************************************************)
(* The committed blocked_ips rows, as the list of blocked addresses they   *)
(* are.  An address that had two rows would be neither free nor blocked.   *)
(***************************************************************************)
StatusOf(t, ip) ==
    LET rows == BlockedFor(t, ip) IN
    IF rows = {} THEN "free"
    ELSE IF \E b \in rows : rows # {b} THEN "twice"
    ELSE IF \A b \in rows : t.blocked[b].perm THEN "permanent" ELSE "temporary"

Named(s) == {ses[s].ip} \cup {ses[s].held[id].ip : id \in Ids(ses[s].held)}

BlockList == INSTANCE Quarantine WITH
    status <- [ip \in IPs |-> StatusOf(db, ip)],
    named  <- UNION {Named(c) : c \in Clients},
    due    <- {db.blocked[b].ip : b \in {b \in Ids(db.blocked) :
                  \E id \in Ids(db.rules) :
                      id = db.blocked[b].rule /\ Expired(db.rules[id])}}

\* Nine operations that span several transactions, each of which may be rolled
\* back or cut short by a crash: on the committed list of blocked addresses
\* they come down to the steps of Quarantine.  Nobody is released whom no
\* request named and whose time has not come, no permanent block ends by
\* itself, and no address is blocked twice.
BlocksAsPromised == BlockList!Spec
=============================================================================
