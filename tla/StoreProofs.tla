----------------------------- MODULE StoreProofs -----------------------------
(***************************************************************************)
(* What holds of the database whatever handlers interleave: the write lock *)
(* keeps the decision engine's check true until its insert, and every      *)
(* blocked row has its rule.                                               *)
(***************************************************************************)
EXTENDS EnforcementProofs

(***************************************************************************)
(* The lock.  Whoever waits for it leaves the engine's transaction alone,  *)
(* and the one commit that does not ask for it, that of the expiry job, is *)
(* made by its owner.                                                      *)
(***************************************************************************)
LockInv ==
    /\ ses["pipeline"].pc \in {"alerted", "alert_insert"} => tx.owner = "pipeline"
    /\ ses["pipeline"].pc = "alert_insert" =>
           BlockedFor(tx.data, ses["pipeline"].ip) = {}
    /\ ses["expiry"].pc = "expire" /\ Ids(ses["expiry"].held) = {} =>
           tx.owner = "expiry"

\* The sessions are different, and none of them is None.
LEMMA Distinct ==
    /\ "pipeline" \in Sessions /\ "expiry" \in Sessions /\ "startup" \in Sessions
    /\ "pipeline" # None /\ "expiry" # None
    /\ \A c \in Clients : c \in Sessions /\ c # None /\ c # "pipeline" /\ c # "expiry"
BY StoreAssumption DEF Sessions

\* A step of one session leaves the others where they are.
LEMMA Elsewhere ==
    ASSUME SesOK, NEW s \in Sessions, NEW p \in Sessions, s # p, NEW new, Move(s, new)
    PROVE  ses'[p] = ses[p] /\ ses'[s] = new
BY DEF SesOK, Move

\* Nothing that happens to other sessions disturbs the engine or the job when
\* it leaves their transaction alone.
LEMMA Undisturbed ==
    ASSUME LockInv,
           ses'["pipeline"] = ses["pipeline"], ses'["expiry"] = ses["expiry"],
           tx.owner \in {"pipeline", "expiry"} => tx' = tx
    PROVE  LockInv'
<1>1. LockInv!1' /\ LockInv!2'
    BY DEF LockInv, BlockedFor, Ids
<1>2. LockInv!3'
    BY DEF LockInv, Ids
<1> QED
    BY <1>1, <1>2 DEF LockInv

\* A request moves only itself, and touches the transaction only when nobody
\* else has it.
LEMMA RequestsWait ==
    ASSUME SesOK, NEW c \in Clients, RequestStep(c)
    PROVE  /\ \E new : Move(c, new)
           /\ tx.owner \notin {None, c} => tx' = tx
<1> USE DEF Store, GoTo, Finish, CanWrite, Write, Commit, Rollback
<1>1. CASE RequestCommit(c)
    BY <1>1 DEF RequestCommit
<1>2. CASE CreateFlush(c) \/ CreateApply(c)
    BY <1>2 DEF CreateFlush, CreateApply
<1>3. CASE UpdateLoad(c) \/ UpdateUnhook(c) \/ UpdateApply(c)
    BY <1>3 DEF UpdateLoad, LoadRule, UpdateUnhook, UnhookRule, UpdateApply
<1>4. CASE UpdateFlush(c)
    BY <1>4 DEF UpdateFlush
<1>5. CASE DeleteLoad(c) \/ DeleteUnhook(c) \/ DeleteFlush(c)
    BY <1>5 DEF DeleteLoad, LoadRule, DeleteUnhook, UnhookRule, DeleteFlush
<1>6. CASE BlockCheck(c) \/ BlockApply(c) \/ Announce(c)
    BY <1>6 DEF BlockCheck, BlockApply, Announce
<1>7. CASE BlockInsert(c)
    BY <1>7 DEF BlockInsert
<1>8. CASE UnblockSelect(c) \/ UnblockLoad(c) \/ UnblockList(c)
             \/ UnblockLine(c) \/ UnblockLinesDone(c)
    BY <1>8 DEF UnblockSelect, UnblockLoad, UnblockList, UnblockLine, UnblockLinesDone
<1>9. CASE UnblockCommit(c)
    BY <1>9 DEF UnblockCommit
<1>10. CASE ResetLoad(c) \/ ResetUnhook(c) \/ ResetPurge(c)
    BY <1>10 DEF ResetLoad, ResetUnhook, ResetPurge
<1> QED
    BY <1>1, <1>2, <1>3, <1>4, <1>5, <1>6, <1>7, <1>8, <1>9, <1>10 DEF RequestStep

LEMMA PipelineLocks ==
    ASSUME SesOK, LockInv, PipelineStep
    PROVE  LockInv'
<1> DEFINE p == "pipeline"
           e == "expiry"
<1> USE Distinct
<1>1. CASE AlertFlush
    <2>1. tx.owner \in {None, p} /\ tx'.owner = p
        BY <1>1 DEF AlertFlush, CanWrite, Write
    <2>2. ses'[p].pc = "alerted" /\ ses'[e] = ses[e]
        BY <1>1, Elsewhere, SessionFields DEF AlertFlush, GoTo, Session
    <2> QED
        BY <2>1, <2>2 DEF LockInv, Ids
<1>2. CASE AlertOnly
    <2>1. tx.owner = p
        BY <1>2 DEF AlertOnly, At, LockInv
    <2>2. ses'[p].pc = "idle" /\ ses'[e] = ses[e]
        BY <1>2, Elsewhere DEF AlertOnly, Finish, Idle
    <2> QED
        BY <2>1, <2>2 DEF LockInv, Ids
<1>3. CASE AlertBlocks
    <2>1. tx.owner = p /\ tx' = tx
        BY <1>3 DEF AlertBlocks, At, LockInv, Store
    <2>2. PICK al \in Alerts :
            /\ BlockedFor(View(p), al.ip) = {}
            /\ Move(p, [ses[p] EXCEPT !.pc = "alert_insert", !.ip = al.ip])
        BY <1>3 DEF AlertBlocks
    <2>3. ses'[p] = [ses[p] EXCEPT !.pc = "alert_insert", !.ip = al.ip] /\ ses'[e] = ses[e]
        BY <2>2, Elsewhere
    <2>4. ses'[p].pc = "alert_insert" /\ ses'[p].ip = al.ip
        BY <2>3, SessionFields DEF Session
    <2>5. BlockedFor(tx'.data, ses'[p].ip) = {}
        BY <2>1, <2>2, <2>4 DEF View
    <2> QED
        BY <2>1, <2>3, <2>4, <2>5 DEF LockInv, Ids
<1>4. CASE AlertInsert
    <2>1. tx.owner = p
        BY <1>4 DEF AlertInsert, At, LockInv
    <2>2. \/ Move(p, Idle)
          \/ \E held : Move(p, [ses[p] EXCEPT !.pc = "alert_enforce", !.held = held])
        BY <1>4 DEF AlertInsert, Finish
    <2>3. CASE Move(p, Idle)
        <3>1. ses'[p].pc = "idle" /\ ses'[e] = ses[e]
            BY <2>3, Elsewhere DEF Idle
        <3> QED
            BY <2>1, <3>1 DEF LockInv, Ids
    <2>4. CASE \E held : Move(p, [ses[p] EXCEPT !.pc = "alert_enforce", !.held = held])
        <3>1. PICK held : Move(p, [ses[p] EXCEPT !.pc = "alert_enforce", !.held = held])
            BY <2>4
        <3>2. ses'[p] = [ses[p] EXCEPT !.pc = "alert_enforce", !.held = held]
                /\ ses'[e] = ses[e]
            BY <3>1, Elsewhere
        <3>3. ses'[p].pc = "alert_enforce"
            BY <3>2, SessionFields DEF Session
        <3> QED
            BY <2>1, <3>2, <3>3 DEF LockInv, Ids
    <2> QED
        BY <2>2, <2>3, <2>4
<1>5. CASE AlertEnforce
    <2>1. ses'[p].pc = "idle" /\ ses'[e] = ses[e] /\ tx' = tx
        BY <1>5, Elsewhere DEF AlertEnforce, Finish, Idle, Store
    <2> QED
        BY <2>1 DEF LockInv, Ids
<1> QED
    BY <1>1, <1>2, <1>3, <1>4, <1>5 DEF PipelineStep

LEMMA ExpiryLocks ==
    ASSUME StoreOK, SesOK, LockInv, ExpiryStep
    PROVE  LockInv'
<1> DEFINE p == "pipeline"
           e == "expiry"
<1> USE Distinct
<1>1. CASE ExpirySelect
    <2>1. tx' = tx
        BY <1>1 DEF ExpirySelect, Store
    <2>2. Move(e, [ses[e] EXCEPT !.pc = "expire", !.held = Loaded(db, Expired)])
        BY <1>1 DEF ExpirySelect
    <2>3. ses'[e] = [ses[e] EXCEPT !.pc = "expire", !.held = Loaded(db, Expired)]
            /\ ses'[p] = ses[p]
        BY <2>2, Elsewhere
    <2>4. ses'[e].held = Loaded(db, Expired)
        BY <2>3, SessionFields DEF Session
    <2>5. PICK id \in Ids(db.rules) : Expired(db.rules[id])
        BY <1>1 DEF ExpirySelect
    <2>6. id \in Ids(Loaded(db, Expired))
        BY <2>5 DEF Ids, Loaded
    <2>7. Ids(ses'[e].held) # {}
        BY <2>4, <2>6
    <2> QED
        BY <2>1, <2>3, <2>7 DEF LockInv, BlockedFor, Ids
<1>2. CASE ExpiryUnhook
    <2>1. tx' = tx
        BY <1>2 DEF ExpiryUnhook, Store
    <2>2. PICK id : Move(e, [ses[e] EXCEPT !.pc = "expire_mark", !.rule = id])
        BY <1>2 DEF ExpiryUnhook
    <2>3. ses'[e] = [ses[e] EXCEPT !.pc = "expire_mark", !.rule = id] /\ ses'[p] = ses[p]
        BY <2>2, Elsewhere
    <2>4. ses'[e].pc = "expire_mark"
        BY <2>3, SessionFields DEF Session
    <2> QED
        BY <2>1, <2>3, <2>4 DEF LockInv, BlockedFor, Ids
<1>3. CASE ExpiryMark
    <2>1. tx.owner # p
        BY <1>3 DEF ExpiryMark, CanWrite
    <2>2. \/ Finish(e)
          \/ tx'.owner = e /\ \E new : Move(e, new)
        BY <1>3 DEF ExpiryMark, Write
    <2>3. ses'[p] = ses[p] /\ (ses'[e].pc = "idle" \/ tx'.owner = e)
        BY <2>2, Elsewhere DEF Finish, Idle
    <2> QED
        BY <2>1, <2>3 DEF LockInv
<1>4. CASE ExpiryCommit
    <2>1. tx.owner = e
        BY <1>4 DEF ExpiryCommit, At, LockInv
    <2>2. ses'[e].pc = "idle" /\ ses'[p] = ses[p]
        BY <1>4, Elsewhere DEF ExpiryCommit, Finish, Idle
    <2> QED
        BY <2>1, <2>2 DEF LockInv
<1> QED
    BY <1>1, <1>2, <1>3, <1>4 DEF ExpiryStep

LEMMA NextLocks ==
    ASSUME IInv, LockInv, [Next]_vars
    PROVE  LockInv'
<1> USE InvParts, Distinct
<1>1. CASE PipelineStep
    BY <1>1, PipelineLocks
<1>2. CASE ExpiryStep
    BY <1>2, ExpiryLocks
<1>3. CASE \E c \in Clients : RequestStep(c)
    <2>1. PICK c \in Clients : RequestStep(c)
        BY <1>3
    <2>2. ses'["pipeline"] = ses["pipeline"] /\ ses'["expiry"] = ses["expiry"]
        BY <2>1, RequestsWait, Elsewhere
    <2>3. tx.owner \in {"pipeline", "expiry"} => tx' = tx
        BY <2>1, RequestsWait
    <2> QED
        BY <2>2, <2>3, Undisturbed
<1>4. CASE \E s \in Sessions : LockTimeout(s)
    <2>1. PICK s \in Sessions : Finish(s) /\ tx' = tx
        BY <1>4 DEF LockTimeout, Store
    <2>2. /\ ses'["pipeline"] = ses["pipeline"] \/ ses'["pipeline"].pc = "idle"
          /\ ses'["expiry"] = ses["expiry"] \/ ses'["expiry"].pc = "idle"
        BY <2>1 DEF Finish, Move, Idle, SesOK
    <2> QED
        BY <2>1, <2>2 DEF LockInv, BlockedFor, Ids
<1>5. CASE StartStep
    <2>1. tx' = tx
        BY <1>5 DEF StartStep, StartFlush, StartLoad, StartApply, StartServing, Store
    <2>2. UNCHANGED ses \/ \E new : Move("startup", new)
        BY <1>5 DEF StartStep, StartFlush, StartLoad, StartApply, StartServing
    <2>3. ses'["pipeline"] = ses["pipeline"] /\ ses'["expiry"] = ses["expiry"]
        BY <2>2, Elsewhere
    <2> QED
        BY <2>1, <2>3, Undisturbed
<1>6. CASE TimePasses
    BY <1>6, Undisturbed DEF TimePasses
<1>7. CASE Crash
    <2>1. ses'["pipeline"].pc = "idle" /\ ses'["expiry"].pc = "idle"
        BY <1>7 DEF Crash, Idle
    <2> QED
        BY <2>1 DEF LockInv
<1>8. CASE UNCHANGED vars
    BY <1>8, Undisturbed DEF vars
<1> QED
    BY <1>1, <1>2, <1>3, <1>4, <1>5, <1>6, <1>7, <1>8 DEF Next

\* process_alert checks that the address is not blocked and inserts the block
\* after further awaits; with the write lock its alert took, that check still
\* holds when it inserts, however many requests try to block the address.
THEOREM EngineNeverCollides == Spec => []AutoBlockNeverCollides
<1>1. Init => LockInv
    BY Distinct DEF Init, LockInv, Idle
<1>2. IInv /\ LockInv /\ [Next]_vars => LockInv'
    BY NextLocks
<1>3. LockInv => AutoBlockNeverCollides
    BY DEF LockInv, AutoBlockNeverCollides, At, View
<1> QED
    BY <1>1, <1>2, <1>3, Inductive, PTL DEF Spec

(***************************************************************************)
(* The links.  The rule of a blocked row can go in two ways: delete_rule   *)
(* takes the blocked row with it, reset_system_data deletes the temporary  *)
(* rules and, by a condition of its own, the blocked rows that are not     *)
(* permanent.  The two conditions pick the same pairs as long as no update *)
(* changes is_temporary of a rule.                                         *)
(***************************************************************************)
TempKept == \A ch \in Changes : ch.temp = None

\* The blocked row's rule exists, is for its address, and is temporary exactly
\* when the row is not permanent.
LinkedRow(t, b) ==
    LET id == t.blocked[b].rule IN
    /\ t.rules[id] # None
    /\ t.rules[id].ip = t.blocked[b].ip
    /\ t.rules[id].temp <=> ~t.blocked[b].perm

Linked(t) == \A b \in Ids(t.blocked) : LinkedRow(t, b)

LinkInv == Linked(db) /\ Linked(tx.data)

(* What the statements of the handlers do to linked tables. *)

LEMMA LinkedNone == Linked(NoTables)
BY DEF Linked, NoTables, NoRules, Ids

LEMMA LinkedView ==
    ASSUME LinkInv, NEW s
    PROVE  Linked(View(s))
BY DEF LinkInv, View

LEMMA LinkedWithoutBlocked ==
    ASSUME NEW t \in Tables, NEW ids, Linked(t)
    PROVE  Linked(WithoutBlocked(t, ids))
<1> DEFINE u == WithoutBlocked(t, ids)
<1>1. u.rules = t.rules
    BY DEF WithoutBlocked, Tables
<1>2. \A b \in Ids(u.blocked) : b \in Ids(t.blocked) /\ u.blocked[b] = t.blocked[b]
    BY TablesFields DEF WithoutBlocked, Tables, Ids
<1> QED
    BY <1>1, <1>2 DEF Linked, LinkedRow

\* Rows of firewall_rules that keep their address and is_temporary.
LEMMA LinkedSame ==
    ASSUME NEW t \in Tables, Linked(t), NEW rs,
           \A id \in RowIds : t.rules[id] # None =>
               rs[id] # None /\ rs[id].ip = t.rules[id].ip /\ rs[id].temp = t.rules[id].temp
    PROVE  Linked([t EXCEPT !.rules = rs])
<1> DEFINE u == [t EXCEPT !.rules = rs]
<1>1. u.blocked = t.blocked /\ u.rules = rs
    BY DEF Tables
<1>2. ASSUME NEW b \in Ids(t.blocked)
      PROVE  LinkedRow(u, b)
    <2>1. t.blocked[b].rule \in RowIds
        BY DbBlocked DEF BlockedIP
    <2>2. LinkedRow(t, b)
        BY DEF Linked
    <2> QED
        BY <1>1, <2>1, <2>2 DEF LinkedRow
<1> QED
    BY <1>1, <1>2 DEF Linked

\* A row that keeps its address and is_temporary, or that is new.
LEMMA LinkedPut ==
    ASSUME NEW t \in Tables, Linked(t), NEW id \in RowIds, NEW r \in Rule,
           t.rules[id] # None => r.ip = t.rules[id].ip /\ r.temp = t.rules[id].temp
    PROVE  Linked([t EXCEPT !.rules[id] = r])
<1> DEFINE rs == [t.rules EXCEPT ![id] = r]
<1>1. r # None
    BY NoneAssumption
<1>2. t.rules \in [RowIds -> Rule \cup {None}]
    BY TablesFields
<1>3. \A other \in RowIds : t.rules[other] # None =>
        /\ rs[other] # None
        /\ rs[other].ip = t.rules[other].ip
        /\ rs[other].temp = t.rules[other].temp
    BY <1>1, <1>2
<1>4. Linked([t EXCEPT !.rules = rs])
    BY <1>3, LinkedSame
<1> QED
    BY <1>4

LEMMA LinkedWithBlock ==
    ASSUME NEW t \in Tables, Linked(t), NEW id \in RowIds, NEW b \in RowIds,
           NEW r \in Rule, NEW perm \in BOOLEAN,
           IsNextId(t.rules, id), r.temp <=> ~perm
    PROVE  Linked(WithBlock(t, id, r, b, perm))
<1> DEFINE u == WithBlock(t, id, r, b, perm)
           row == [ip |-> r.ip, perm |-> perm, rule |-> id]
<1>1. t.rules[id] = None
    <2>1. id \notin Ids(t.rules)
        BY DEF IsNextId, RowIds
    <2> QED
        BY <2>1 DEF Ids
<1>2. r # None
    BY NoneAssumption
<1>3. /\ u.rules = [t.rules EXCEPT ![id] = r]
      /\ u.blocked = [t.blocked EXCEPT ![b] = row]
    BY DEF WithBlock
<1>4. /\ t.rules \in [RowIds -> Rule \cup {None}]
      /\ t.blocked \in [RowIds -> BlockedIP \cup {None}]
    BY TablesFields
<1>5. LinkedRow(u, b)
    BY <1>2, <1>3, <1>4 DEF LinkedRow
<1>6. ASSUME NEW c \in Ids(u.blocked), c # b
      PROVE  LinkedRow(u, c)
    <2>1. c \in Ids(t.blocked) /\ u.blocked[c] = t.blocked[c]
        BY <1>3, <1>4, <1>6 DEF Ids
    <2>2. LinkedRow(t, c) /\ t.blocked[c].rule \in RowIds
        BY <2>1, DbBlocked DEF Linked, BlockedIP
    <2>3. t.blocked[c].rule # id
        BY <1>1, <2>2 DEF LinkedRow
    <2> QED
        BY <1>3, <1>4, <2>1, <2>2, <2>3 DEF LinkedRow
<1> QED
    BY <1>5, <1>6 DEF Linked

\* delete_rule: the blocked rows of the rule, then the rule.
LEMMA LinkedDelete ==
    ASSUME NEW t \in Tables, Linked(t), NEW id
    PROVE  Linked(WithoutRules(WithoutBlocked(t, BlockedBy(t, id)), {id}))
<1> DEFINE w == WithoutBlocked(t, BlockedBy(t, id))
           u == WithoutRules(w, {id})
<1>1. w \in Tables /\ w.rules = t.rules
    BY WithoutType DEF WithoutBlocked, Tables
<1>2. u.blocked = w.blocked /\ u.rules = [i \in RowIds |-> IF i = id THEN None ELSE t.rules[i]]
    BY <1>1 DEF WithoutRules, Tables
<1>3. ASSUME NEW b \in Ids(u.blocked)
      PROVE  LinkedRow(u, b)
    <2>1. b \in Ids(t.blocked) /\ u.blocked[b] = t.blocked[b] /\ t.blocked[b].rule # id
        BY <1>2, TablesFields DEF WithoutBlocked, BlockedBy, Tables, Ids
    <2>2. LinkedRow(t, b) /\ t.blocked[b].rule \in RowIds
        BY <2>1, DbBlocked DEF Linked, BlockedIP
    <2> QED
        BY <1>2, <2>1, <2>2 DEF LinkedRow
<1> QED
    BY <1>3 DEF Linked

\* reset_system_data: blocked rows that are not permanent, temporary rules.
LEMMA LinkedReset ==
    ASSUME NEW t \in Tables, Linked(t)
    PROVE  Linked(WithoutRules(
                      WithoutBlocked(t, {b \in Ids(t.blocked) : ~t.blocked[b].perm}),
                      {id \in Ids(t.rules) : t.rules[id].temp}))
<1> DEFINE passing == {b \in Ids(t.blocked) : ~t.blocked[b].perm}
           temps == {id \in Ids(t.rules) : t.rules[id].temp}
           w == WithoutBlocked(t, passing)
           u == WithoutRules(w, temps)
<1>1. w \in Tables /\ w.rules = t.rules
    BY WithoutType DEF WithoutBlocked, Tables
<1>2. /\ u.blocked = w.blocked
      /\ u.rules = [i \in RowIds |-> IF i \in temps THEN None ELSE t.rules[i]]
    BY <1>1 DEF WithoutRules, Tables
<1>3. ASSUME NEW b \in Ids(u.blocked)
      PROVE  LinkedRow(u, b)
    <2>1. b \in Ids(t.blocked) /\ u.blocked[b] = t.blocked[b] /\ t.blocked[b].perm
        <3>1. w.blocked = [i \in RowIds |-> IF i \in passing THEN None ELSE t.blocked[i]]
            BY DEF WithoutBlocked, Tables
        <3>2. b \in RowIds /\ b \notin passing /\ u.blocked[b] = t.blocked[b]
            BY <1>2, <3>1 DEF Ids
        <3> QED
            BY <3>2 DEF Ids
    <2>2. LinkedRow(t, b) /\ t.blocked[b].rule \in RowIds
        BY <2>1, DbBlocked DEF Linked, BlockedIP
    <2>3. t.blocked[b].rule \notin temps
        BY <2>1, <2>2 DEF LinkedRow
    <2>4. u.rules[t.blocked[b].rule] = t.rules[t.blocked[b].rule]
        BY <1>2, <2>2, <2>3
    <2> HIDE DEF u, temps
    <2> QED
        BY <2>1, <2>2, <2>4 DEF LinkedRow
<1> QED
    BY <1>3 DEF Linked

(* The steps. *)

LEMMA LinkWrite ==
    ASSUME LinkInv, NEW s, NEW t, Linked(t), Write(s, t)
    PROVE  LinkInv'
BY DEF LinkInv, Linked, LinkedRow, Ids, Write

LEMMA LinkCommit ==
    ASSUME NEW t, Linked(t), Commit(t)
    PROVE  LinkInv'
BY DEF LinkInv, Linked, LinkedRow, Ids, Commit

LEMMA LinkRollback ==
    ASSUME LinkInv, NEW s, Rollback(s)
    PROVE  LinkInv'
BY DEF LinkInv, Linked, LinkedRow, Ids, Rollback

LEMMA LinkUnchanged ==
    ASSUME LinkInv, UNCHANGED Store
    PROVE  LinkInv'
BY DEF LinkInv, Linked, LinkedRow, Ids, Store

LEMMA PipelineLinks ==
    ASSUME IInv, LinkInv, PipelineStep
    PROVE  LinkInv'
<1> USE InvParts
<1>1. CASE AlertFlush
    BY <1>1, LinkWrite DEF AlertFlush, LinkInv
<1>2. CASE AlertOnly
    BY <1>2, LinkRollback DEF AlertOnly
<1>3. CASE AlertBlocks \/ AlertEnforce
    BY <1>3, LinkUnchanged DEF AlertBlocks, AlertEnforce
<1>4. CASE AlertInsert
    <2> DEFINE t == View("pipeline")
    <2>1. CASE Rollback("pipeline")
        BY <2>1, LinkRollback
    <2>2. CASE ~Rollback("pipeline")
        <3>1. PICK al \in Alerts, id \in RowIds, b \in RowIds :
                /\ IsNextId(t.rules, id)
                /\ Commit(WithBlock(t, id, AutoRule(al), b, al.sev = "high"))
            BY <1>4, <2>2 DEF AlertInsert
        <3>2. AutoRule(al) \in Rule /\ (AutoRule(al).temp <=> ~(al.sev = "high"))
            BY AutoRuleType DEF AutoRule
        <3>3. t \in Tables /\ Linked(t)
            BY ViewType, LinkedView
        <3>4. Linked(WithBlock(t, id, AutoRule(al), b, al.sev = "high"))
            BY <3>1, <3>2, <3>3, LinkedWithBlock
        <3> QED
            BY <3>1, <3>4, LinkCommit
    <2> QED
        BY <2>1, <2>2
<1> QED
    BY <1>1, <1>2, <1>3, <1>4 DEF PipelineStep

LEMMA ExpiryLinks ==
    ASSUME IInv, LinkInv, ExpiryStep
    PROVE  LinkInv'
<1> USE InvParts
<1>1. CASE ExpirySelect \/ ExpiryUnhook
    BY <1>1, LinkUnchanged DEF ExpirySelect, ExpiryUnhook
<1>2. CASE ExpiryMark
    <2> DEFINE t  == View("expiry")
               id == ses["expiry"].rule
               w  == WithoutBlocked(t, BlockedBy(t, id))
               rs == [w.rules EXCEPT ![id].active = FALSE]
    <2>1. CASE Rollback("expiry")
        BY <2>1, LinkRollback
    <2>2. CASE ~Rollback("expiry")
        <3>1. Write("expiry", [w EXCEPT !.rules = rs]) /\ t.rules[id] # None
            BY <1>2, <2>2 DEF ExpiryMark
        <3>2. t \in Tables /\ Linked(t)
            BY ViewType, LinkedView
        <3>3. w \in Tables /\ Linked(w)
            BY <3>2, WithoutType, LinkedWithoutBlocked
        <3>4. w.rules \in [RowIds -> Rule \cup {None}]
            BY <3>3, TablesFields
        <3>5. w.rules[id] # None
            BY <3>1, <3>2 DEF WithoutBlocked, Tables
        <3> HIDE DEF w
        <3>6. ASSUME NEW i \in RowIds, w.rules[i] # None
              PROVE  rs[i] # None /\ rs[i].ip = w.rules[i].ip /\ rs[i].temp = w.rules[i].temp
            <4>1. w.rules[i] \in Rule
                BY <3>4, <3>6
            <4>2. [w.rules[i] EXCEPT !.active = FALSE] \in Rule
                BY <4>1, RuleActive
            <4>3. rs[i] = IF i = id THEN [w.rules[i] EXCEPT !.active = FALSE] ELSE w.rules[i]
                BY <3>4
            <4>4. CASE i = id
                <5>1. rs[i] = [w.rules[i] EXCEPT !.active = FALSE]
                    BY <4>3, <4>4
                <5> QED
                    BY <4>1, <4>2, <5>1, NoneAssumption DEF Rule
            <4>5. CASE i # id
                BY <3>6, <4>3, <4>5
            <4> QED
                BY <4>4, <4>5
        <3>7. Linked([w EXCEPT !.rules = rs])
            BY <3>3, <3>6, LinkedSame
        <3> QED
            BY <3>1, <3>7, LinkWrite
    <2> QED
        BY <2>1, <2>2
<1>3. CASE ExpiryCommit
    BY <1>3, LinkedView, LinkCommit DEF ExpiryCommit
<1> QED
    BY <1>1, <1>2, <1>3 DEF ExpiryStep

LEMMA RequestLinks ==
    ASSUME IInv, LinkInv, TempKept, NEW c \in Clients, RequestStep(c)
    PROVE  LinkInv'
<1> USE InvParts, Owners
<1>1. CASE UNCHANGED Store
    BY <1>1, LinkUnchanged
<1>2. CASE Rollback(c)
    BY <1>2, LinkRollback
<1>3. CASE RequestCommit(c)
    BY <1>3, LinkCommit, LinkUnchanged DEF RequestCommit, LinkInv
<1>4. CASE CreateFlush(c)
    <2>1. PICK body \in NewRules, id \in RowIds :
            /\ IsNextId(db.rules, id)
            /\ Write(c, [db EXCEPT !.rules[id] = ManualRule(body)])
        BY <1>4 DEF CreateFlush
    <2>2. db.rules[id] = None
        BY <2>1 DEF IsNextId, RowIds, Ids
    <2>3. ManualRule(body) \in Rule
        BY ManualRuleType
    <2>4. Linked([db EXCEPT !.rules[id] = ManualRule(body)])
        BY <2>2, <2>3, LinkedPut DEF LinkInv
    <2> QED
        BY <2>1, <2>4, LinkWrite
<1>5. CASE UpdateFlush(c) /\ ~UNCHANGED Store /\ ~Rollback(c)
    <2> DEFINE t == View(c)
    <2>1. PICK ch \in Changes, id \in Ids(ses[c].held) :
            /\ t.rules[id] # None
            /\ Write(c, [t EXCEPT !.rules[id] =
                    [Merged(t.rules[id], ses[c].held[id], Changed(ses[c].held[id], ch))
                        EXCEPT !.exp = IF ch.ttl THEN "later" ELSE @]])
        BY <1>5 DEF UpdateFlush
    <2> DEFINE old == ses[c].held[id]
               new == Changed(old, ch)
               row == t.rules[id]
               mid == Merged(row, old, new)
               put == [mid EXCEPT !.exp = IF ch.ttl THEN "later" ELSE @]
    <2>2. id \in RowIds /\ old \in Rule /\ t \in Tables /\ Linked(t)
        BY HeldType, ViewType, LinkedView
    <2>3. row \in Rule
        BY <2>1, <2>2, TablesFields
    <2>4. new \in Rule /\ new.temp = old.temp
        <3>1. new \in Rule
            BY <2>2, ChangedType
        <3>2. ch.temp = None
            BY DEF TempKept
        <3> QED
            BY <2>2, <3>1, <3>2 DEF Changed, Given, Rule
    <2>5. mid \in Rule
        BY <2>2, <2>3, <2>4, MergedType
    <2>6. mid.ip = row.ip /\ mid.temp = row.temp
        <3> HIDE DEF new, old
        <3> QED
            BY <2>3, <2>4 DEF Merged, Rule
    <2>7. (IF ch.ttl THEN "later" ELSE mid.exp) \in Expiries
        BY <2>5 DEF Rule, Expiries
    <2>8. put \in Rule /\ put.ip = mid.ip /\ put.temp = mid.temp
        <3> HIDE DEF mid
        <3>1. put \in Rule
            BY <2>5, <2>7, RuleExp
        <3> QED
            BY <2>5, <3>1 DEF Rule
    <2>9. Linked([t EXCEPT !.rules[id] = put])
        <3> HIDE DEF put, mid, row
        <3>1. put.ip = row.ip /\ put.temp = row.temp
            BY <2>6, <2>8
        <3>2. put.ip = t.rules[id].ip /\ put.temp = t.rules[id].temp
            BY <3>1 DEF row
        <3> QED
            BY <2>2, <2>8, <3>2, LinkedPut
    <2> QED
        BY <2>1, <2>9, LinkWrite
<1>6. CASE DeleteFlush(c)
    <2>1. PICK id : Write(c, WithoutRules(WithoutBlocked(View(c), BlockedBy(View(c), id)), {id}))
        BY <1>6 DEF DeleteFlush
    <2> QED
        BY <2>1, ViewType, LinkedView, LinkedDelete, LinkWrite
<1>7. CASE BlockInsert(c) /\ ~Rollback(c)
    <2> DEFINE t == View(c)
    <2>1. PICK body \in Blocks, id \in RowIds, b \in RowIds :
            /\ IsNextId(t.rules, id)
            /\ Write(c, WithBlock(t, id, BlockRule(body), b, body.perm))
        BY <1>7 DEF BlockInsert
    <2>2. /\ BlockRule(body) \in Rule /\ body.perm \in BOOLEAN
          /\ BlockRule(body).temp <=> ~body.perm
        BY BlockRuleType, EnforcementAssumption DEF BlockRule
    <2>3. t \in Tables /\ Linked(t)
        BY ViewType, LinkedView
    <2>4. Linked(WithBlock(t, id, BlockRule(body), b, body.perm))
        BY <2>1, <2>2, <2>3, LinkedWithBlock
    <2> QED
        BY <2>1, <2>4, LinkWrite
<1>8. CASE UnblockCommit(c) /\ ~Rollback(c)
    <2> DEFINE dirty == {id \in Ids(ses[c].held) : ses[c].held[id].active}
               t     == WithoutBlocked(db, {ses[c].row})
               marked == [id \in RowIds |->
                             IF id \in dirty THEN [t.rules[id] EXCEPT !.active = FALSE]
                                             ELSE t.rules[id]]
    <2>1. Commit([t EXCEPT !.rules = marked])
        BY <1>8 DEF UnblockCommit
    <2>2. t \in Tables /\ Linked(t)
        BY WithoutType, LinkedWithoutBlocked DEF LinkInv
    <2> HIDE DEF dirty, t
    <2>3. ASSUME NEW id \in RowIds, t.rules[id] # None
          PROVE  /\ marked[id] # None
                 /\ marked[id].ip = t.rules[id].ip
                 /\ marked[id].temp = t.rules[id].temp
        <3>1. t.rules[id] \in Rule
            BY <2>2, <2>3, TablesFields
        <3>2. [t.rules[id] EXCEPT !.active = FALSE] \in Rule
            BY <3>1, RuleActive
        <3> QED
            BY <2>3, <3>1, <3>2, NoneAssumption DEF Rule
    <2>4. Linked([t EXCEPT !.rules = marked])
        BY <2>2, <2>3, LinkedSame
    <2> QED
        BY <2>1, <2>4, LinkCommit
<1>9. CASE ResetPurge(c)
    BY <1>9, LinkedReset, LinkCommit DEF ResetPurge, LinkInv
<1> QED
    BY <1>1, <1>2, <1>3, <1>4, <1>5, <1>6, <1>7, <1>8, <1>9
       DEF RequestStep, CreateApply, UpdateLoad, UpdateUnhook, UpdateApply,
           DeleteLoad, DeleteUnhook, LoadRule, UnhookRule, BlockCheck, BlockApply,
           Announce, UnblockSelect, UnblockLoad, UnblockList, UnblockLine,
           UnblockLinesDone, ResetLoad, ResetUnhook

LEMMA NextLinks ==
    ASSUME IInv, LinkInv, TempKept, [Next]_vars
    PROVE  LinkInv'
<1> USE InvParts
<1>1. CASE PipelineStep
    BY <1>1, PipelineLinks
<1>2. CASE ExpiryStep
    BY <1>2, ExpiryLinks
<1>3. CASE \E c \in Clients : RequestStep(c)
    BY <1>3, RequestLinks
<1>4. CASE (\E s \in Sessions : LockTimeout(s)) \/ StartStep \/ UNCHANGED vars
    <2>1. UNCHANGED Store
        BY <1>4 DEF LockTimeout, StartStep, StartFlush, StartLoad, StartApply,
                    StartServing, Store, vars
    <2> QED
        BY <2>1, LinkUnchanged
<1>5. CASE TimePasses
    <2>1. PICK id \in Ids(db.rules) : Commit([db EXCEPT !.rules[id].exp = "due"])
        BY <1>5 DEF TimePasses
    <2> DEFINE r == [db.rules[id] EXCEPT !.exp = "due"]
    <2>2. id \in RowIds /\ db.rules[id] \in Rule
        BY DbRule
    <2>3. r \in Rule
        BY <2>2, RuleExp DEF Expiries
    <2>4. r.ip = db.rules[id].ip /\ r.temp = db.rules[id].temp
        BY <2>2, <2>3 DEF Rule
    <2>5. Linked([db EXCEPT !.rules[id] = r])
        <3> HIDE DEF r
        <3> QED
            BY <2>2, <2>3, <2>4, LinkedPut DEF LinkInv
    <2>6. [db EXCEPT !.rules[id].exp = "due"] = [db EXCEPT !.rules[id] = r]
        BY <2>2, TablesFields DEF Tables
    <2> QED
        BY <2>1, <2>5, <2>6, LinkCommit
<1>6. CASE Crash
    BY <1>6 DEF Crash, LinkInv, Linked, LinkedRow, Ids
<1> QED
    BY <1>1, <1>2, <1>3, <1>4, <1>5, <1>6 DEF Next

\* "linked back to the firewall rule that enforces it" (db/models.py:85): as
\* long as no request changes is_temporary of a rule, every blocked row, also
\* one not committed yet, has its rule, whatever handlers interleave, roll
\* back, time out or are cut short.
THEOREM BlockedRowsBacked == TempKept => (Spec => []BlockedRowBacked)
<1> SUFFICES ASSUME TempKept PROVE Spec => []BlockedRowBacked
    OBVIOUS
<1>1. Init => LinkInv
    BY LinkedNone DEF Init, LinkInv
<1>2. IInv /\ LinkInv /\ [Next]_vars => LinkInv'
    BY NextLinks
<1>3. LinkInv => BlockedRowBacked
    BY DEF LinkInv, Linked, LinkedRow, BlockedRowBacked, Backed
<1> QED
    BY <1>1, <1>2, <1>3, Inductive, PTL DEF Spec
=============================================================================
