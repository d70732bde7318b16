----------------------------- MODULE ChainProofs -----------------------------
(***************************************************************************)
(* What the chain holds: after a restart the active rules of the database  *)
(* in priority order, and between operations, when they come one at a      *)
(* time, never more than the active rules call for.                        *)
(***************************************************************************)
EXTENDS QuarantineProofs

(***************************************************************************)
(* What a rule a session loaded still has in common with its row: all that *)
(* iptables and the choice of rows read of it.                             *)
(***************************************************************************)
SameRule(r, row) ==
    /\ row # None
    /\ row.ip = r.ip /\ row.svc = r.svc /\ row.act = r.act
    /\ row.prio = r.prio /\ row.temp = r.temp /\ row.active = r.active

(***************************************************************************)
(* Restart.  While startup applies the rules it loaded, the chain is those *)
(* applied so far, in an order that no rule still held can break.          *)
(***************************************************************************)
Applied == Enforceable \ Ids(ses["startup"].held)

Lists(p) ==
    /\ p \in [1..Len(chain) -> Applied]
    /\ \A id \in Applied : \E n \in 1..Len(chain) : p[n] = id
    /\ \A n \in 1..Len(chain) : chain[n] = SpecOf(db.rules[p[n]])

InOrder(p) ==
    /\ \A m, n \in 1..Len(chain) : m <= n => db.rules[p[m]].prio <= db.rules[p[n]].prio
    /\ \A n \in 1..Len(chain), id \in Ids(ses["startup"].held) :
           db.rules[p[n]].prio <= db.rules[id].prio

HealInv ==
    /\ phase = "load" => chain = << >>
    /\ phase = "apply" =>
           /\ \A id \in Ids(ses["startup"].held) :
                  /\ SameRule(ses["startup"].held[id], db.rules[id])
                  /\ db.rules[id].active
           /\ Len(chain) = Cardinality(Applied)
           /\ \E p \in [1..Len(chain) -> Applied] : Lists(p) /\ InOrder(p)

(* Rules and their rows. *)

LEMMA SameSpec ==
    ASSUME NEW r \in Rule, NEW row \in Rule, SameRule(r, row)
    PROVE  SpecOf(row) = SpecOf(r) /\ row.ip = r.ip /\ row.active = r.active
BY DEF SameRule, SpecOf

LEMMA SameItself ==
    ASSUME NEW r \in Rule
    PROVE  SameRule(r, r)
BY NoneAssumption DEF SameRule

LEMMA PriorityType ==
    ASSUME NEW r \in Rule
    PROVE  r.prio \in Nat
<1>1. \A p \in Priorities : p \in Nat
    BY DEF Priorities
<1> QED
    BY <1>1 DEF Rule

LEMMA SameVia ==
    ASSUME NEW r, NEW row, NEW later, SameRule(r, row), SameRule(row, later)
    PROVE  SameRule(r, later)
BY DEF SameRule

LEMMA RowIdsFinite == IsFiniteSet(RowIds) /\ Cardinality(RowIds) = MaxRules
BY StoreAssumption, FS_Interval DEF RowIds

LEMMA RowsFinite ==
    ASSUME NEW rows, rows \subseteq RowIds
    PROVE  IsFiniteSet(rows) /\ Cardinality(rows) \in Nat /\ Cardinality(rows) <= MaxRules
BY RowIdsFinite, FS_Subset, FS_CardinalityType

\* An expiry time that passes changes nothing else of any row.
LEMMA TimeKeepsRules ==
    ASSUME IInv, TimePasses
    PROVE  /\ \A id \in RowIds :
                  /\ db'.rules[id] = None <=> db.rules[id] = None
                  /\ db.rules[id] # None => SameRule(db.rules[id], db'.rules[id])
           /\ tx'.data = db' /\ tx'.owner = None /\ tx.owner = None
           /\ UNCHANGED <<phase, whitelist, chain, ses>>
<1>1. PICK i \in Ids(db.rules) : Commit([db EXCEPT !.rules[i].exp = "due"])
    BY DEF TimePasses
<1> DEFINE r == [db.rules[i] EXCEPT !.exp = "due"]
<1>2. i \in RowIds /\ db.rules[i] \in Rule /\ db.rules \in [RowIds -> Rule \cup {None}]
    BY InvParts, DbRule, TablesFields
<1>3. SameRule(db.rules[i], r)
    <2>1. r \in Rule
        BY <1>2, RuleExp DEF Expiries
    <2> QED
        BY <1>2, <2>1, NoneAssumption DEF SameRule, Rule
<1>4. db'.rules = [db.rules EXCEPT ![i] = r] /\ tx'.data = db' /\ tx'.owner = None
    BY <1>1, InvParts DEF Commit, Tables
<1> HIDE DEF r
<1>5. ASSUME NEW id \in RowIds
      PROVE  /\ db'.rules[id] = None <=> db.rules[id] = None
             /\ db.rules[id] # None => SameRule(db.rules[id], db'.rules[id])
    <2>1. CASE id = i
        BY <1>2, <1>3, <1>4, <2>1, NoneAssumption DEF SameRule
    <2>2. CASE id # i
        <3>1. db'.rules[id] = db.rules[id]
            BY <1>2, <1>4, <2>2
        <3>2. db.rules[id] # None => db.rules[id] \in Rule
            BY <1>2
        <3> QED
            BY <3>1, <3>2, SameItself
    <2> QED
        BY <2>1, <2>2
<1> QED
    BY <1>4, <1>5 DEF TimePasses, Process

(* Steps outside the running phase. *)

LEMMA NotServing ==
    ASSUME phase # "running", [Next]_vars
    PROVE  StartStep \/ TimePasses \/ Crash \/ UNCHANGED vars
<1> USE DEF At, CanStart
<1>1. ~PipelineStep
    BY DEF PipelineStep, AlertFlush, AlertOnly, AlertBlocks, AlertInsert, AlertEnforce
<1>2. ~ExpiryStep
    BY DEF ExpiryStep, ExpirySelect, ExpiryUnhook, ExpiryMark, ExpiryCommit
<1>3. ASSUME NEW c \in Clients PROVE ~RequestStep(c)
    <2>1. ~(RequestCommit(c) \/ CreateFlush(c) \/ CreateApply(c) \/ UpdateLoad(c)
              \/ UpdateUnhook(c) \/ UpdateFlush(c) \/ UpdateApply(c))
        BY DEF RequestCommit, CreateFlush, CreateApply, UpdateLoad, LoadRule, UpdateUnhook,
               UnhookRule, UpdateFlush, UpdateApply
    <2>2. ~(DeleteLoad(c) \/ DeleteUnhook(c) \/ DeleteFlush(c) \/ BlockCheck(c)
              \/ BlockInsert(c) \/ BlockApply(c) \/ Announce(c))
        BY DEF DeleteLoad, LoadRule, DeleteUnhook, UnhookRule, DeleteFlush, BlockCheck,
               BlockInsert, BlockApply, Announce
    <2>3. ~(UnblockSelect(c) \/ UnblockLoad(c) \/ UnblockList(c) \/ UnblockLine(c)
              \/ UnblockLinesDone(c) \/ UnblockCommit(c) \/ ResetLoad(c) \/ ResetUnhook(c)
              \/ ResetPurge(c))
        BY DEF UnblockSelect, UnblockLoad, UnblockList, UnblockLine, UnblockLinesDone,
               UnblockCommit, ResetLoad, ResetUnhook, ResetPurge
    <2> QED
        BY <2>1, <2>2, <2>3 DEF RequestStep
<1>4. ASSUME NEW s \in Sessions PROVE ~LockTimeout(s)
    BY DEF LockTimeout
<1> QED
    BY <1>1, <1>2, <1>3, <1>4 DEF Next

\* A process that serves requests goes on or ends.
LEMMA ServingStays ==
    ASSUME phase = "running", [Next]_vars
    PROVE  phase' \in {"running", "down"}
<1> USE DEF Process
<1>1. CASE PipelineStep
    BY <1>1 DEF PipelineStep, AlertFlush, AlertOnly, AlertBlocks, AlertInsert, AlertEnforce
<1>2. CASE ExpiryStep
    BY <1>2 DEF ExpiryStep, ExpirySelect, ExpiryUnhook, ExpiryMark, ExpiryCommit
<1>3. ASSUME NEW c \in Clients, RequestStep(c) PROVE phase' = phase
    <2>1. CASE RequestCommit(c) \/ CreateFlush(c) \/ CreateApply(c) \/ UpdateLoad(c)
              \/ UpdateUnhook(c) \/ UpdateFlush(c) \/ UpdateApply(c)
        BY <2>1 DEF RequestCommit, CreateFlush, CreateApply, UpdateLoad, LoadRule, UpdateUnhook,
               UnhookRule, UpdateFlush, UpdateApply
    <2>2. CASE DeleteLoad(c) \/ DeleteUnhook(c) \/ DeleteFlush(c) \/ BlockCheck(c)
              \/ BlockInsert(c) \/ BlockApply(c) \/ Announce(c)
        BY <2>2 DEF DeleteLoad, LoadRule, DeleteUnhook, UnhookRule, DeleteFlush, BlockCheck,
               BlockInsert, BlockApply, Announce
    <2>3. CASE UnblockSelect(c) \/ UnblockLoad(c) \/ UnblockList(c) \/ UnblockLine(c)
              \/ UnblockLinesDone(c) \/ UnblockCommit(c) \/ ResetLoad(c) \/ ResetUnhook(c)
              \/ ResetPurge(c)
        BY <2>3 DEF UnblockSelect, UnblockLoad, UnblockList, UnblockLine, UnblockLinesDone,
               UnblockCommit, ResetLoad, ResetUnhook, ResetPurge
    <2> QED
        BY <1>3, <2>1, <2>2, <2>3 DEF RequestStep
<1>4. CASE \E s \in Sessions : LockTimeout(s)
    BY <1>4 DEF LockTimeout
<1>5. CASE StartStep
    BY <1>5 DEF StartStep, StartFlush, StartLoad, StartApply, StartServing
<1>6. CASE TimePasses \/ Crash
    BY <1>6 DEF TimePasses, Crash
<1>7. CASE UNCHANGED vars
    BY <1>7 DEF vars
<1> QED
    BY <1>1, <1>2, <1>3, <1>4, <1>5, <1>6, <1>7 DEF Next

(* Restart: each step keeps HealInv. *)

LEMMA LoadHeals ==
    ASSUME IInv, HealInv, StartLoad
    PROVE  HealInv'
<1> DEFINE u == "startup"
           held == Loaded(db, Active)
<1>1. /\ chain = << >> /\ chain' = chain /\ db' = db /\ whitelist' = whitelist
      /\ phase' = "apply"
    BY DEF HealInv, StartLoad, Store
<1>2. ses'[u].held = held
    <2>1. ses[u] \in Session /\ ses'[u] = [ses[u] EXCEPT !.held = held]
        BY Names, InvParts, SessionFields, MovesOnly DEF StartLoad
    <2> QED
        BY <2>1 DEF Session
<1>3. \A id \in Ids(held) : db.rules[id] \in Rule /\ held[id] = db.rules[id] /\ db.rules[id].active
    <2>1. \A id \in Ids(held) : db.rules[id] # None /\ held[id] = db.rules[id] /\ db.rules[id].active
        BY DEF Loaded, Active, Ids
    <2> QED
        BY <2>1, InvParts, TablesFields DEF Ids
<1>4. Enforceable' = Enforceable /\ Enforceable \subseteq Ids(held)
    BY <1>1 DEF Enforceable, Loaded, Active, Ids
<1> HIDE DEF held
<1>5. Applied' = {}
    BY <1>2, <1>4 DEF Applied, Ids
<1>6. Len(chain') = 0 /\ 1..Len(chain') = {}
    BY <1>1
<1>7. Len(chain') = Cardinality(Applied')
    BY <1>5, <1>6, FS_EmptySet
<1>8. \E p \in [1..Len(chain') -> Applied'] : Lists(p)' /\ InOrder(p)'
    <2>1. PICK p : p = [n \in {} |-> n]
        OBVIOUS
    <2>2. p \in [1..Len(chain') -> Applied']
        BY <1>6, <2>1
    <2>3. Lists(p)'
        BY <1>5, <1>6, <2>2 DEF Lists
    <2>4. InOrder(p)'
        BY <1>6 DEF InOrder
    <2> QED
        BY <2>2, <2>3, <2>4
<1>9. \A id \in Ids(held) : SameRule(held[id], db.rules[id]) /\ db.rules[id].active
    BY <1>3, SameItself
<1>10. \A id \in Ids(ses'[u].held) : SameRule(ses'[u].held[id], db'.rules[id]) /\ db'.rules[id].active
    BY <1>1, <1>2, <1>9 DEF Ids
<1> QED
    BY <1>1, <1>7, <1>8, <1>10 DEF HealInv

\* The places of startup's session, and the row of a rule it holds.
LEMMA StartupHolds ==
    ASSUME IInv, HealInv, phase = "apply", NEW id \in Ids(ses["startup"].held)
    PROVE  /\ id \in RowIds /\ ses["startup"].held[id] \in Rule /\ db.rules[id] \in Rule
           /\ SameRule(ses["startup"].held[id], db.rules[id])
           /\ id \notin Applied
           /\ id \in Enforceable <=> ses["startup"].held[id].ip \notin whitelist
<1>1. id \in RowIds /\ ses["startup"].held[id] \in Rule
    BY Names, InvParts, HeldType
<1>2. SameRule(ses["startup"].held[id], db.rules[id]) /\ db.rules[id].active
    BY DEF HealInv
<1>3. db.rules[id] \in Rule
    BY <1>1, <1>2, InvParts, TablesFields DEF SameRule
<1> QED
    BY <1>1, <1>2, <1>3 DEF Applied, Enforceable, Ids, SameRule

LEMMA ApplyHeals ==
    ASSUME IInv, HealInv, StartApply, "add" \notin Failing, MaxRules <= MaxChain
    PROVE  HealInv'
<1> DEFINE u == "startup"
           held == ses[u].held
<1>1. PICK id \in Ids(held) :
          /\ \A other \in Ids(held) : held[id].prio <= held[other].prio
          /\ AddRule(held[id])
          /\ Move(u, [ses[u] EXCEPT !.held[id] = None])
    BY DEF StartApply
<1>2. phase = "apply" /\ phase' = "apply" /\ db' = db /\ whitelist' = whitelist
    BY DEF StartApply, Process, Store
<1>3. /\ id \in RowIds /\ held[id] \in Rule /\ db.rules[id] \in Rule
      /\ SameRule(held[id], db.rules[id]) /\ id \notin Applied
      /\ id \in Enforceable <=> held[id].ip \notin whitelist
    BY <1>2, StartupHolds
<1>4. ses'[u].held = [held EXCEPT ![id] = None] /\ held \in [RowIds -> Rule \cup {None}]
    <2>1. ses[u] \in Session /\ ses'[u] = [ses[u] EXCEPT !.held[id] = None]
        BY <1>1, Names, InvParts, SessionFields, MovesOnly
    <2> QED
        BY <2>1 DEF Session
<1>5. /\ Ids(ses'[u].held) = Ids(held) \ {id}
      /\ \A i \in Ids(held) \ {id} : ses'[u].held[i] = held[i]
    BY <1>4 DEF Ids
<1>6. PICK p \in [1..Len(chain) -> Applied] : Lists(p) /\ InOrder(p)
    BY <1>2 DEF HealInv
<1>7. Len(chain) = Cardinality(Applied) /\ Len(chain) \in Nat /\ chain \in Seq(Entries)
    BY <1>2, InvParts DEF HealInv
<1>8. Enforceable' = Enforceable
    BY <1>2 DEF Enforceable, Ids
<1>9. \A i \in Ids(ses'[u].held) :
          SameRule(ses'[u].held[i], db'.rules[i]) /\ db'.rules[i].active
    BY <1>2, <1>5 DEF HealInv
<1>10. CASE held[id].ip \in whitelist
    <2>1. chain' = chain
        BY <1>1, <1>10 DEF AddRule, AddedRule
    <2>2. Applied' = Applied
        BY <1>3, <1>5, <1>8, <1>10 DEF Applied
    <2>3. Lists(p)' /\ InOrder(p)'
        BY <1>2, <1>5, <1>6, <2>1, <2>2 DEF Lists, InOrder
    <2> QED
        BY <1>2, <1>7, <1>9, <2>1, <2>2, <2>3 DEF HealInv
<1>11. CASE held[id].ip \notin whitelist
    <2>a. PICK n1 : n1 = Len(chain) + 1
        OBVIOUS
    <2>b. PICK q : q = [n \in 1..n1 |-> IF n = n1 THEN id ELSE p[n]]
        OBVIOUS
    <2>1. Applied' = Applied \cup {id}
        BY <1>3, <1>5, <1>8, <1>11 DEF Applied
    <2>2. Applied \subseteq RowIds \ {id}
        BY <1>3 DEF Applied, Enforceable, Ids
    <2>3. Cardinality(Applied') = n1
        BY <1>3, <1>7, <2>a, <2>1, <2>2, RowsFinite, FS_AddElement
    <2>4. Cardinality(Applied) < MaxRules
        <3>1. IsFiniteSet(RowIds \ {id}) /\ Cardinality(RowIds \ {id}) = MaxRules - 1
            BY <1>3, RowIdsFinite, FS_RemoveElement
        <3>2. Cardinality(Applied) <= MaxRules - 1
            BY <2>2, <3>1, FS_Subset
        <3> QED
            BY <1>7, <3>2, StoreAssumption
    <2>5. chain' = AddedRule(chain, held[id], whitelist)
        <3>1. ~(Len(chain) >= MaxChain)
            BY <1>7, <2>4, StoreAssumption, EnforcementAssumption
        <3> QED
            BY <1>1, <3>1 DEF AddRule
    <2>6. SpecOf(held[id]) = SpecOf(db.rules[id]) /\ SpecOf(db.rules[id]) \in Entries
        BY <1>3, SameSpec, SpecOfType
    <2>7. /\ Len(chain') = n1 /\ chain'[n1] = SpecOf(db.rules[id])
          /\ \A n \in 1..Len(chain) : chain'[n] = chain[n]
        BY <1>7, <1>11, <2>a, <2>5, <2>6 DEF AddedRule
    <2>8. /\ q \in [1..n1 -> Applied'] /\ q[n1] = id
          /\ \A n \in 1..Len(chain) : q[n] = p[n]
          /\ \A n \in 1..n1 : n \in 1..Len(chain) \/ n = n1
        BY <1>6, <1>7, <2>a, <2>b, <2>1
    <2>9. Lists(q)'
        <3>1. \A i \in Applied' : \E n \in 1..n1 : q[n] = i
            <4>1. n1 \in 1..n1 /\ 1..Len(chain) \subseteq 1..n1
                BY <1>7, <2>a
            <4>2. \A i \in Applied : \E n \in 1..Len(chain) : p[n] = i
                BY <1>6 DEF Lists
            <4> QED
                BY <2>1, <2>8, <4>1, <4>2
        <3>2. \A n \in 1..Len(chain) : chain[n] = SpecOf(db.rules[p[n]])
            BY <1>6 DEF Lists
        <3>3. \A n \in 1..n1 : chain'[n] = SpecOf(db.rules[q[n]])
            BY <2>7, <2>8, <3>2
        <3> QED
            BY <1>2, <2>7, <2>8, <3>1, <3>3 DEF Lists
    <2>10. InOrder(q)'
        <3>1. /\ \A m, n \in 1..Len(chain) : m <= n => db.rules[p[m]].prio <= db.rules[p[n]].prio
              /\ \A n \in 1..Len(chain), i \in Ids(held) : db.rules[p[n]].prio <= db.rules[i].prio
            BY <1>6 DEF InOrder
        <3>2. \A i \in Ids(held) : db.rules[id].prio <= db.rules[i].prio
            <4>1. \A i \in Ids(held) : SameRule(held[i], db.rules[i])
                BY <1>2 DEF HealInv
            <4> QED
                BY <1>1, <4>1 DEF SameRule
        <3>3. db.rules[id].prio \in Nat
            BY <1>3, PriorityType
        <3>4. ASSUME NEW m \in 1..n1, NEW n \in 1..n1, m <= n
              PROVE  db.rules[q[m]].prio <= db.rules[q[n]].prio
            <4>1. CASE n = n1
                <5>1. CASE m = n1
                    BY <2>8, <3>3, <4>1, <5>1
                <5>2. CASE m # n1
                    BY <2>8, <3>1, <4>1, <5>2
                <5> QED
                    BY <5>1, <5>2
            <4>2. CASE n # n1
                <5>1. m # n1
                    BY <1>7, <2>a, <3>4, <4>2
                <5> QED
                    BY <2>8, <3>1, <3>4, <4>2, <5>1
            <4> QED
                BY <4>1, <4>2
        <3>5. \A n \in 1..n1, i \in Ids(held) : db.rules[q[n]].prio <= db.rules[i].prio
            BY <2>8, <3>1, <3>2
        <3> QED
            BY <1>2, <1>5, <2>7, <3>4, <3>5 DEF InOrder
    <2> QED
        BY <1>2, <1>9, <2>3, <2>7, <2>8, <2>9, <2>10 DEF HealInv
<1> QED
    BY <1>10, <1>11

LEMMA TimeHeals ==
    ASSUME IInv, HealInv, TimePasses
    PROVE  HealInv'
<1> DEFINE held == ses["startup"].held
<1>1. /\ \A id \in RowIds :
             /\ db'.rules[id] = None <=> db.rules[id] = None
             /\ db.rules[id] # None => SameRule(db.rules[id], db'.rules[id])
      /\ UNCHANGED <<phase, whitelist, chain, ses>>
    BY TimeKeepsRules
<1>2. SUFFICES ASSUME phase = "apply" PROVE HealInv'
    BY <1>1 DEF HealInv
<1>3. Enforceable' = Enforceable
    BY <1>1 DEF Enforceable, Ids, SameRule
<1>4. Applied' = Applied
    BY <1>1, <1>3 DEF Applied, Ids
<1>5. \A id \in Ids(held) : SameRule(held[id], db'.rules[id]) /\ db'.rules[id].active
    <2> TAKE id \in Ids(held)
    <2>1. id \in RowIds /\ SameRule(held[id], db.rules[id]) /\ db.rules[id].active
        BY <1>2 DEF HealInv, Ids
    <2>2. SameRule(db.rules[id], db'.rules[id])
        BY <1>1, <2>1 DEF SameRule
    <2> QED
        BY <2>1, <2>2, SameVia DEF SameRule
<1>6. PICK p \in [1..Len(chain) -> Applied] : Lists(p) /\ InOrder(p)
    BY <1>2 DEF HealInv
<1>7. \A id \in Ids(db.rules) : /\ SpecOf(db'.rules[id]) = SpecOf(db.rules[id])
                                /\ db'.rules[id].prio = db.rules[id].prio
    BY <1>1 DEF Ids, SameRule, SpecOf
<1>8. /\ \A n \in 1..Len(chain) : p[n] \in Ids(db.rules)
      /\ \A id \in Ids(held) : id \in Ids(db.rules)
    BY <1>2, <1>6 DEF HealInv, SameRule, Applied, Enforceable, Ids
<1>9. Lists(p)'
    BY <1>1, <1>4, <1>6, <1>7, <1>8 DEF Lists
<1>10. InOrder(p)'
    <2>1. Ids(held)' = Ids(held)
        BY <1>1 DEF Ids
    <2> QED
        BY <1>1, <1>6, <1>7, <1>8, <2>1 DEF InOrder
<1>11. \A id \in Ids(held)' : SameRule(held[id], db.rules[id])' /\ db'.rules[id].active
    BY <1>1, <1>5 DEF Ids
<1> QED
    BY <1>1, <1>2, <1>4, <1>6, <1>9, <1>10, <1>11 DEF HealInv

LEMMA ServingMirrors ==
    ASSUME HealInv, StartServing
    PROVE  Mirrors'
<1>1. /\ phase = "apply" /\ Ids(ses["startup"].held) = {}
      /\ db' = db /\ chain' = chain /\ whitelist' = whitelist
    BY DEF StartServing, Store
<1>2. Applied = Enforceable /\ Enforceable' = Enforceable
    BY <1>1 DEF Applied, Enforceable, Ids
<1>3. PICK p \in [1..Len(chain) -> Applied] : Lists(p) /\ InOrder(p)
    BY <1>1 DEF HealInv
<1>4. {p[n] : n \in 1..Len(chain)} = Enforceable
    BY <1>2, <1>3 DEF Lists
<1>5. Len(chain) = Cardinality(Enforceable)
    BY <1>1, <1>2 DEF HealInv
<1> QED
    BY <1>1, <1>2, <1>3, <1>4, <1>5 DEF Mirrors, Lists, InOrder

LEMMA NextHeals ==
    ASSUME IInv, HealInv, [Next]_vars, {"add", "flush"} \cap Failing = {}, MaxRules <= MaxChain
    PROVE  HealInv' /\ (phase = "apply" /\ phase' = "running" => Mirrors')
<1>1. CASE phase = "running"
    <2>1. phase' \notin {"load", "apply"}
        BY <1>1, ServingStays
    <2> QED
        BY <1>1, <2>1 DEF HealInv
<1>2. CASE phase # "running"
    <2>1. CASE StartFlush
        BY <2>1 DEF StartFlush, HealInv
    <2>2. CASE StartLoad
        BY <2>2, LoadHeals DEF StartLoad
    <2>3. CASE StartApply
        BY <2>3, ApplyHeals DEF StartApply, Process
    <2>4. CASE StartServing
        BY <2>4, ServingMirrors DEF StartServing, HealInv
    <2>5. CASE TimePasses
        BY <2>5, TimeHeals DEF TimePasses, Process
    <2>6. CASE Crash
        BY <2>6 DEF Crash, HealInv
    <2>7. CASE UNCHANGED vars
        <3>1. UNCHANGED <<phase, whitelist, db, chain, ses>>
            BY <2>7 DEF vars
        <3> QED
            BY <3>1 DEF HealInv, Lists, InOrder, Applied, Enforceable, Ids
    <2> QED
        BY <1>2, <2>1, <2>2, <2>3, <2>4, <2>5, <2>6, <2>7, NotServing DEF StartStep
<1> QED
    BY <1>1, <1>2

\* Whatever point the previous process died at and whatever its chain was, when
\* startup hands over, the chain is the active, non-whitelisted rules in
\* priority order: for any number of rules the kernel has room for, as long as
\* flushing and appending do not fail, and with any handlers in between.
THEOREM RestartRepairs ==
    {"add", "flush"} \cap Failing = {} /\ MaxRules <= MaxChain => (Spec => RestartHeals)
<1> SUFFICES ASSUME {"add", "flush"} \cap Failing = {}, MaxRules <= MaxChain
             PROVE  Spec => RestartHeals
    OBVIOUS
<1>1. Init => HealInv
    BY DEF Init, HealInv
<1>2. IInv /\ HealInv /\ [Next]_vars
          => HealInv' /\ [phase = "apply" /\ phase' = "running" => Mirrors']_vars
    BY NextHeals
<1> QED
    BY <1>1, <1>2, Inductive, PTL DEF Spec, RestartHeals

(***************************************************************************)
(* Orphans.  Which rows of tables t call for entry e under whitelist wl,   *)
(* but for the rows out, whose entry is not there yet or no longer there.  *)
(***************************************************************************)
Calls(t, id, wl) ==
    t.rules[id] # None /\ t.rules[id].active /\ t.rules[id].ip \notin wl

Callers(t, out, wl, e) ==
    {id \in RowIds \ out : Calls(t, id, wl) /\ SpecOf(t.rules[id]) = e}

Within(c, t, out, wl) ==
    \A n \in DOMAIN c : CountOf(c, c[n]) <= Cardinality(Callers(t, out, wl, c[n]))

\* The rows whose entry a session at place x of its handler has removed, or has
\* still to add.
Out(x, t) ==
    IF x.pc \in {"idle", "alert_enforce", "create_apply", "update_flush",
                 "update_apply", "delete_flush", "block_apply"} THEN Ids(x.held)
    ELSE IF x.pc = "expire_mark" THEN {x.rule}
    ELSE IF x.pc = "reset" THEN {id \in Ids(t.rules) : t.rules[id].temp} \ Ids(x.held)
    ELSE {}

\* What the session loaded is still so; a handler of one rule holds one; a rule
\* to be added is active; the job marks a rule it holds.
Holds(x, t) ==
    /\ x.pc # "commit" => \A id \in Ids(x.held) : SameRule(x.held[id], t.rules[id])
    /\ x.pc \in {"alert_enforce", "create_apply", "update_unhook", "update_flush",
                 "update_apply", "delete_unhook", "delete_flush", "block_apply"} =>
           \A i, j \in Ids(x.held) : i = j
    /\ x.pc \in {"idle", "alert_enforce", "create_apply", "block_apply"} =>
           \A id \in Ids(x.held) : x.held[id].active
    /\ x.pc = "expire_mark" => x.rule \in Ids(x.held)

Unblocking(x) ==
    \/ x.pc \in {"unblock_list", "unblock_lines", "unblock_commit"}
    \/ x.pc = "announce" /\ x.row # 0

\* A block has no row to lift.  An unblock has written nothing before its commit;
\* the rule it is about is for its address; the lines it has still to delete are
\* all there are for it.
Lifts(x, t, d, c) ==
    /\ x.pc \in {"block_insert", "block_apply"} => x.row = 0
    /\ x.pc = "unblock_load" => x.rule \in RowIds
                                /\ (t.rules[x.rule] # None => t.rules[x.rule].ip = x.ip)
    /\ Unblocking(x) => t = d /\ \A id \in Ids(x.held) : x.held[id].ip = x.ip
    /\ x.pc = "unblock_lines" => \A n \in DOMAIN c : c[n].ip = x.ip => n \in x.lines
    /\ Unblocking(x) /\ x.pc \in {"announce", "unblock_commit"} =>
           \A n \in DOMAIN c : c[n].ip # x.ip

Fits(x, t, d, c, wl) == Within(c, t, Out(x, t), wl) /\ Holds(x, t) /\ Lifts(x, t, d, c)

OrphanInv ==
    /\ phase = "load" => chain = << >>
    /\ phase \in {"down", "load"} => ses["startup"] = Idle
    /\ phase # "down" =>
           \E s \in Sessions : Alone(s) /\ Fits(ses[s], tx.data, db, chain, whitelist)

(* Counting the entries rows call for. *)

LEMMA CallersType ==
    ASSUME NEW t, NEW out, NEW wl, NEW e
    PROVE  /\ IsFiniteSet(Callers(t, out, wl, e)) /\ Callers(t, out, wl, e) \subseteq RowIds
           /\ Cardinality(Callers(t, out, wl, e)) \in Nat
BY RowsFinite DEF Callers

LEMMA CallersSub ==
    ASSUME NEW t, NEW out, NEW u, NEW out2, NEW wl, NEW e,
           Callers(t, out, wl, e) \subseteq Callers(u, out2, wl, e)
    PROVE  Cardinality(Callers(t, out, wl, e)) <= Cardinality(Callers(u, out2, wl, e))
BY CallersType, FS_Subset

\* Within speaks of every specification, also of one the chain has not.
LEMMA WithinEach ==
    ASSUME NEW S, NEW c \in Seq(S), NEW t, NEW out, NEW wl, Within(c, t, out, wl), NEW e
    PROVE  CountOf(c, e) <= Cardinality(Callers(t, out, wl, e))
<1>1. CASE \E n \in DOMAIN c : c[n] = e
    BY <1>1 DEF Within
<1>2. CASE ~ \E n \in DOMAIN c : c[n] = e
    <2>1. Places(c, e) = {}
        BY <1>2 DEF Places
    <2>2. CountOf(c, e) = 0
        BY <2>1, FS_EmptySet DEF CountOf, Places
    <2> QED
        BY <2>2, CallersType
<1> QED
    BY <1>1, <1>2

\* Fewer entries, and rows that still call for those that are left.
LEMMA WithinMore ==
    ASSUME NEW S, NEW c \in Seq(S), NEW t, NEW out, NEW wl, Within(c, t, out, wl),
           NEW d \in Seq(S), \A e : CountOf(d, e) <= CountOf(c, e),
           NEW u, NEW out2,
           \A id \in RowIds \ out :
               Calls(t, id, wl) /\ (\E n \in DOMAIN d : d[n] = SpecOf(t.rules[id])) =>
                   /\ id \notin out2 /\ Calls(u, id, wl)
                   /\ SpecOf(u.rules[id]) = SpecOf(t.rules[id])
    PROVE  Within(d, u, out2, wl)
<1> SUFFICES ASSUME NEW n \in DOMAIN d
             PROVE  CountOf(d, d[n]) <= Cardinality(Callers(u, out2, wl, d[n]))
    BY DEF Within
<1> DEFINE e == d[n]
<1>1. Callers(t, out, wl, e) \subseteq Callers(u, out2, wl, e)
    BY DEF Callers
<1> HIDE DEF e
<1>2. CountOf(d, e) <= CountOf(c, e)
    OBVIOUS
<1>3. CountOf(c, e) <= Cardinality(Callers(t, out, wl, e))
    BY WithinEach
<1>4. CountOf(c, e) \in Nat /\ CountOf(d, e) \in Nat
    BY CountType
<1>5. CountOf(d, e) <= Cardinality(Callers(u, out2, wl, e))
    BY <1>1, <1>2, <1>3, <1>4, CallersSub, CallersType
<1> QED
    BY <1>5 DEF e

\* remove_rule for a row: its entry is out, if it was there.
LEMMA Unhooked ==
    ASSUME NEW S, NEW c \in Seq(S), NEW t, NEW out, NEW wl, Within(c, t, out, wl),
           NEW id \in RowIds, NEW r \in Rule, t.rules[id] \in Rule, SameRule(r, t.rules[id])
    PROVE  Within(RemovedRule(c, r), t, out \cup {id}, wl)
<1> DEFINE d == RemovedRule(c, r)
<1> SUFFICES ASSUME NEW n \in DOMAIN d
             PROVE  CountOf(d, d[n]) <= Cardinality(Callers(t, out \cup {id}, wl, d[n]))
    BY DEF Within
<1>1. PICK e : e = d[n]
    OBVIOUS
<1>2. d \in Seq(S)
    BY RemovedRuleType
<1>3. SpecOf(t.rules[id]) = SpecOf(r)
    BY SameSpec
<1>4. /\ CountOf(d, e) <= CountOf(c, e)
      /\ e = SpecOf(r) => CountOf(c, e) = 0 \/ CountOf(d, e) + 1 <= CountOf(c, e)
    BY RemovedRuleCount
<1>5. CountOf(c, e) <= Cardinality(Callers(t, out, wl, e))
    BY WithinEach
<1> HIDE DEF d
<1>6. CountOf(c, e) \in Nat /\ CountOf(d, e) \in Nat
    BY <1>2, CountType
<1> DEFINE old == Callers(t, out, wl, e)
           new == Callers(t, out \cup {id}, wl, e)
<1>7. IsFiniteSet(old) /\ IsFiniteSet(new) /\ Cardinality(old) \in Nat /\ Cardinality(new) \in Nat
    BY CallersType
<1>8. new = old \ {id}
    BY DEF Callers
<1>9. id \in old => e = SpecOf(r)
    BY <1>3 DEF Callers
<1> HIDE DEF old, new
<1>10. Cardinality(new) = IF id \in old THEN Cardinality(old) - 1 ELSE Cardinality(old)
    BY <1>7, <1>8, FS_RemoveElement
<1>11. CountOf(d, e) <= Cardinality(new)
    BY <1>4, <1>5, <1>6, <1>7, <1>9, <1>10 DEF old
<1> QED
    BY <1>1, <1>11 DEF new

\* add_rule for a row whose entry was out.
LEMMA Hooked ==
    ASSUME NEW S, NEW c \in Seq(S), NEW t, NEW out, NEW wl, Within(c, t, out, wl),
           NEW id \in RowIds, id \in out, NEW r \in Rule, t.rules[id] \in Rule,
           SameRule(r, t.rules[id]), r.active, SpecOf(r) \in S
    PROVE  Within(AddedRule(c, r, wl), t, out \ {id}, wl)
<1> DEFINE d == AddedRule(c, r, wl)
<1> SUFFICES ASSUME NEW n \in DOMAIN d
             PROVE  CountOf(d, d[n]) <= Cardinality(Callers(t, out \ {id}, wl, d[n]))
    BY DEF Within
<1>1. PICK e : e = d[n]
    OBVIOUS
<1>3. SpecOf(t.rules[id]) = SpecOf(r) /\ t.rules[id].ip = r.ip /\ t.rules[id].active = r.active
    BY SameSpec
<1>4. CountOf(d, e) = IF r.ip \notin wl /\ e = SpecOf(r) THEN CountOf(c, e) + 1 ELSE CountOf(c, e)
    BY AddedRuleCount
<1>5. CountOf(c, e) <= Cardinality(Callers(t, out, wl, e))
    BY WithinEach
<1>6. CountOf(c, e) \in Nat
    BY CountType
<1> DEFINE old == Callers(t, out, wl, e)
           new == Callers(t, out \ {id}, wl, e)
<1>7. IsFiniteSet(old) /\ IsFiniteSet(new) /\ Cardinality(old) \in Nat /\ Cardinality(new) \in Nat
    BY CallersType
<1>8. id \notin old /\ old \subseteq new
    BY DEF Callers
<1>9. r.ip \notin wl /\ e = SpecOf(r) => new = old \cup {id}
    BY <1>3, NoneAssumption DEF Callers, Calls
<1> HIDE DEF old, new, d
<1>10. Cardinality(old) <= Cardinality(new)
    BY <1>7, <1>8, FS_Subset
<1>11. r.ip \notin wl /\ e = SpecOf(r) => Cardinality(new) = Cardinality(old) + 1
    BY <1>7, <1>8, <1>9, FS_AddElement
<1>12. CountOf(d, e) <= Cardinality(new)
    BY <1>4, <1>5, <1>6, <1>7, <1>10, <1>11 DEF old
<1> QED
    BY <1>1, <1>12 DEF new

\* remove_rule_by_ip deletes from the highest line down: what is below stays
\* where it was, and nothing for the address is above.
LEMMA LinesLeft ==
    ASSUME NEW S, NEW c \in Seq(S), NEW ip, NEW lines \in SUBSET Nat,
           \A m \in DOMAIN c : c[m].ip = ip => m \in lines,
           NEW n \in lines, \A m \in lines : m <= n
    PROVE  \A m \in DOMAIN RemovedLine(c, n) : RemovedLine(c, n)[m].ip = ip => m \in lines \ {n}
<1>1. CASE n \notin DOMAIN c
    BY <1>1 DEF RemovedLine
<1>2. CASE n \in DOMAIN c
    <2> DEFINE d == RemoveAt(c, n)
    <2>1. RemovedLine(c, n) = d
        BY <1>2 DEF RemovedLine
    <2>2. n \in 1..Len(c) /\ Len(c) \in Nat /\ DOMAIN c = 1..Len(c)
        BY <1>2, LenProperties
    <2>3. /\ d \in Seq(S) /\ Len(d) = Len(c) - 1
          /\ \A i \in 1..(Len(c) - 1) : d[i] = IF i < n THEN c[i] ELSE c[i + 1]
        BY <2>2, RemoveAtType, RemoveAtPlaces
    <2>4. DOMAIN d = 1..(Len(c) - 1)
        BY <2>3, LenProperties
    <2> HIDE DEF d
    <2>5. ASSUME NEW m \in DOMAIN d, d[m].ip = ip
          PROVE  m \in lines \ {n}
        <3>1. CASE m < n
            BY <2>2, <2>3, <2>4, <2>5, <3>1
        <3>2. CASE ~(m < n)
            <4>1. m + 1 \in lines
                BY <2>2, <2>3, <2>4, <2>5, <3>2
            <4> QED
                BY <2>2, <2>4, <3>2, <4>1
        <3> QED
            BY <3>1, <3>2
    <2> QED
        BY <2>1, <2>5
<1> QED
    BY <1>1, <1>2

\* The same chain, and rows that still call for it as they did.
LEMMA WithinElse ==
    ASSUME NEW S, NEW c \in Seq(S), NEW t, NEW out, NEW wl, Within(c, t, out, wl),
           NEW u, NEW out2,
           \A id \in RowIds \ out : Calls(t, id, wl) =>
               id \notin out2 /\ u.rules[id] = t.rules[id]
    PROVE  Within(c, u, out2, wl)
<1>1. \A e : CountOf(c, e) <= CountOf(c, e)
    BY CountType
<1>2. \A id \in RowIds \ out : Calls(t, id, wl) =>
          id \notin out2 /\ Calls(u, id, wl) /\ SpecOf(u.rules[id]) = SpecOf(t.rules[id])
    BY DEF Calls
<1> QED
    BY <1>1, <1>2, WithinMore

LEMMA AddFits ==
    ASSUME IInv, NEW t, NEW out, Within(chain, t, out, whitelist), NEW id \in RowIds, id \in out,
           NEW r \in Rule, t.rules[id] \in Rule, SameRule(r, t.rules[id]), r.active, AddRule(r)
    PROVE  Within(chain', t, out \ {id}, whitelist)
<1>1. chain \in Seq(Entries) /\ SpecOf(r) \in Entries
    BY InvParts, SpecOfType
<1>2. CASE chain' = chain
    <2>1. Within(chain, t, out \ {id}, whitelist)
        BY <1>1, WithinElse
    <2> QED
        BY <1>2, <2>1
<1>3. CASE chain' = AddedRule(chain, r, whitelist)
    BY <1>1, <1>3, Hooked
<1> QED
    BY <1>2, <1>3 DEF AddRule

LEMMA RemoveFits ==
    ASSUME IInv, NEW t, NEW out, Within(chain, t, out, whitelist), NEW id \in RowIds,
           NEW r \in Rule, t.rules[id] \in Rule, SameRule(r, t.rules[id]), RemoveRule(r),
           "del" \notin Failing
    PROVE  Within(chain', t, out \cup {id}, whitelist)
BY InvParts, Unhooked DEF RemoveRule

(* The places of a handler. *)

LEMMA FitsIdle ==
    ASSUME NEW t, NEW d, NEW c, NEW wl, Within(c, t, {}, wl)
    PROVE  Fits(Idle, t, d, c, wl)
<1>1. Idle.pc = "idle" /\ Ids(Idle.held) = {}
    BY IdleFields
<1>2. Out(Idle, t) = {}
    BY <1>1 DEF Out
<1>3. Holds(Idle, t)
    BY <1>1 DEF Holds
<1>4. Lifts(Idle, t, d, c)
    BY <1>1 DEF Lifts, Unblocking
<1> QED
    BY <1>2, <1>3, <1>4 DEF Fits

LEMMA FitsCommit ==
    ASSUME NEW x, x.pc = "commit", NEW t, NEW d, NEW c, NEW wl, Within(c, t, {}, wl)
    PROVE  Fits(x, t, d, c, wl)
<1>2. Out(x, t) = {}
    BY DEF Out
<1>3. Holds(x, t)
    BY DEF Holds
<1>4. Lifts(x, t, d, c)
    BY DEF Lifts, Unblocking
<1> QED
    BY <1>2, <1>3, <1>4 DEF Fits

\* A handler of one rule, before and after its iptables calls.
LEMMA FitsOne ==
    ASSUME NEW x, NEW id, Ids(x.held) = {id}, NEW t, SameRule(x.held[id], t.rules[id]),
           NEW d, NEW c, NEW wl,
           \/ /\ x.pc \in {"update_unhook", "delete_unhook"}
              /\ Within(c, t, {}, wl)
           \/ /\ x.pc \in {"update_flush", "update_apply", "delete_flush"}
              /\ Within(c, t, {id}, wl)
           \/ /\ x.pc \in {"alert_enforce", "create_apply", "block_apply"}
              /\ x.held[id].active
              /\ x.pc = "block_apply" => x.row = 0
              /\ Within(c, t, {id}, wl)
    PROVE  Fits(x, t, d, c, wl)
<1>1. Within(c, t, Out(x, t), wl)
    BY DEF Out
<1>2. Holds(x, t)
    BY DEF Holds
<1>3. Lifts(x, t, d, c)
    BY DEF Lifts, Unblocking
<1> QED
    BY <1>1, <1>2, <1>3 DEF Fits

LEMMA OnlyIds ==
    ASSUME NEW id \in RowIds, NEW r, r # None
    PROVE  Ids(Only(id, r)) = {id} /\ Only(id, r)[id] = r
BY DEF Only, NoRules, Ids

LEMMA OneOf ==
    ASSUME NEW x, NEW t, Holds(x, t),
           x.pc \in {"alert_enforce", "create_apply", "update_unhook", "update_flush",
                     "update_apply", "delete_unhook", "delete_flush", "block_apply"},
           NEW id \in Ids(x.held)
    PROVE  /\ Ids(x.held) = {id} /\ SameRule(x.held[id], t.rules[id])
           /\ x.pc \in {"alert_enforce", "create_apply", "block_apply"} => x.held[id].active
BY DEF Holds

\* Whoever is at work is alone, sees the tables as it wrote them, and fits.
LEMMA AtWork ==
    ASSUME IInv, ListInv, OrphanInv, MaxBusy <= 1, phase = "running", NEW s \in Sessions,
           ses[s] # Idle \/ \E operation : CanStart(s, operation)
    PROVE  /\ Alone(s) /\ ses[s] \in Session /\ tx.data \in Tables /\ db \in Tables
           /\ Fits(ses[s], tx.data, db, chain, whitelist)
           /\ View(s) = tx.data
           /\ ses[s].pc \notin Writing \/ s = "pipeline" => tx.data = db
<1>1. Alone(s) /\ tx.owner \in {None, s}
    BY Turn
<1>2. PICK p \in Sessions : Alone(p) /\ Fits(ses[p], tx.data, db, chain, whitelist)
    BY DEF OrphanInv
<1>3. ses[s] = ses[p]
    BY <1>1, <1>2 DEF Alone
<1>4. tx.owner = None => tx.data = db
    BY Names DEF ListInv, TxOK
<1>5. ses[s].pc \notin Writing \/ s = "pipeline" => tx.data = db
    BY <1>1, <1>4, Names DEF ListInv, TxOK
<1>6. tx.data \in Tables
    BY DEF IInv, TypeOK, Transactions
<1> QED
    BY <1>1, <1>2, <1>3, <1>4, <1>5, <1>6, InvParts, SessionFields DEF View

LEMMA Onward ==
    ASSUME IInv, phase = "running", UNCHANGED Process, NEW s \in Sessions, Alone(s),
           NEW new, Move(s, new), Fits(new, tx'.data, db', chain', whitelist)
    PROVE  OrphanInv'
<1>1. ses'[s] = new /\ \A other \in Sessions : other # s => ses'[other] = ses[other]
    BY MovesOnly
<1>2. Alone(s)'
    BY <1>1 DEF Alone
<1>3. Fits(ses[s], tx.data, db, chain, whitelist)'
    BY <1>1 DEF Process
<1> QED
    BY <1>2, <1>3 DEF OrphanInv, Process

\* A place between iptables calls to another.
LEMMA FitsNext ==
    ASSUME NEW x, NEW y, NEW t, NEW d, NEW c, NEW wl, Fits(x, t, d, c, wl),
           x.pc \in {"alerted", "alert_insert", "block_insert"} \/ x = Idle,
           y.pc \in {"alerted", "alert_insert", "block_insert"}, y.held = x.held,
           y.pc = "block_insert" => y.row = 0
    PROVE  Fits(y, t, d, c, wl) /\ Within(c, t, {}, wl)
<1>1. Out(x, t) = {}
    BY IdleFields DEF Out
<1>2. Out(y, t) = {}
    BY DEF Out
<1>3. x.pc # "commit"
    BY IdleFields
<1>4. Holds(y, t)
    BY <1>3 DEF Fits, Holds
<1>5. Lifts(y, t, d, c)
    BY DEF Lifts, Unblocking
<1> QED
    BY <1>1, <1>2, <1>4, <1>5 DEF Fits

\* Nothing was written: the handler ends and the tables stay.
LEMMA GaveUp ==
    ASSUME IInv, phase = "running", UNCHANGED <<Process, chain>>, NEW s \in Sessions, Alone(s),
           Rollback(s), Finish(s), tx.data = db, Within(chain, db, {}, whitelist)
    PROVE  OrphanInv'
<1>1. tx'.data = db
    BY DEF Rollback
<1>2. Fits(Idle, tx'.data, db', chain', whitelist)
    BY <1>1, FitsIdle
<1> QED
    BY <1>2, Onward DEF Finish

\* A rule that was not there is written; its entry is still to be added.
LEMMA Inserted ==
    ASSUME NEW S, NEW c \in Seq(S), NEW t \in Tables, NEW wl, Within(c, t, {}, wl),
           NEW id \in RowIds, IsNextId(t.rules, id), NEW r \in Rule, r.active,
           NEW u, u.rules = [t.rules EXCEPT ![id] = r],
           NEW y, y.pc \in {"alert_enforce", "create_apply", "block_apply"}, y.held = Only(id, r),
           y.pc = "block_apply" => y.row = 0,
           NEW d
    PROVE  Fits(y, u, d, c, wl)
<1>1. id \notin Ids(t.rules)
    BY DEF IsNextId, RowIds
<1>2. t.rules \in [RowIds -> Rule \cup {None}] /\ t.rules[id] = None
    BY <1>1, TablesFields DEF Ids
<1>3. u.rules[id] = r /\ \A other \in RowIds : other # id => u.rules[other] = t.rules[other]
    BY <1>2
<1>4. Within(c, u, {id}, wl)
    BY <1>2, <1>3, WithinElse DEF Calls
<1>5. Ids(y.held) = {id} /\ y.held[id] = r
    BY OnlyIds, NoneAssumption
<1>6. SameRule(y.held[id], u.rules[id])
    BY <1>3, <1>5, SameItself
<1> QED
    BY <1>4, <1>5, <1>6, FitsOne

(* The steps of the engine. *)

LEMMA EngineFits ==
    ASSUME IInv, ListInv, OrphanInv, MaxBusy <= 1, PipelineStep
    PROVE  OrphanInv'
<1> DEFINE p == "pipeline"
           x == ses[p]
<1>0. p \in Sessions
    BY Names
<1>1. ASSUME phase = "running", x # Idle \/ \E operation : CanStart(p, operation)
      PROVE  /\ Alone(p) /\ x \in Session /\ db \in Tables
             /\ Fits(x, db, db, chain, whitelist) /\ View(p) = db /\ tx.data = db
    BY <1>0, <1>1, AtWork
<1>2. CASE AlertFlush
    <2>1. CanStart(p, "alert") /\ UNCHANGED <<Process, chain>> /\ phase = "running" /\ x = Idle
          /\ db' = db /\ tx'.data = db
        BY <1>2 DEF AlertFlush, CanStart, Write
    <2> DEFINE y == [x EXCEPT !.pc = "alerted"]
    <2>2. Move(p, y) /\ y.pc = "alerted" /\ y.held = x.held
        BY <1>1, <1>2, <2>1 DEF AlertFlush, GoTo, Session
    <2> HIDE DEF y
    <2>3. Fits(y, tx'.data, db', chain', whitelist)
        BY <1>1, <2>1, <2>2, FitsNext
    <2> QED
        BY <1>0, <1>1, <2>1, <2>2, <2>3, Onward
<1>3. CASE AlertOnly
    <2>1. phase = "running" /\ x.pc = "alerted" /\ UNCHANGED <<Process, chain>> /\ Rollback(p) /\ Finish(p)
        BY <1>3 DEF AlertOnly, At
    <2>2. x # Idle
        BY <2>1, IdleFields
    <2>3. Within(chain, db, {}, whitelist)
        BY <1>1, <2>1, <2>2, FitsNext
    <2> QED
        BY <1>0, <1>1, <2>1, <2>2, <2>3, GaveUp
<1>4. CASE AlertBlocks
    <2>1. /\ phase = "running" /\ x.pc = "alerted" /\ UNCHANGED <<Process, chain>>
          /\ db' = db /\ tx' = tx /\ x # Idle
        BY <1>4, IdleFields DEF AlertBlocks, At, Store
    <2>2. PICK ip : Move(p, [x EXCEPT !.pc = "alert_insert", !.ip = ip])
        BY <1>4 DEF AlertBlocks
    <2> DEFINE y == [x EXCEPT !.pc = "alert_insert", !.ip = ip]
    <2>3. y.pc = "alert_insert" /\ y.held = x.held
        BY <1>1, <2>1 DEF Session
    <2>4. Move(p, y)
        BY <2>2
    <2> HIDE DEF y
    <2>5. Fits(y, tx'.data, db', chain', whitelist)
        BY <1>1, <2>1, <2>3, FitsNext
    <2> QED
        BY <1>0, <1>1, <2>1, <2>4, <2>5, Onward
<1>5. CASE AlertInsert
    <2>1. phase = "running" /\ x.pc = "alert_insert" /\ UNCHANGED <<Process, chain>> /\ x # Idle
        BY <1>5, IdleFields DEF AlertInsert, At
    <2>2. Within(chain, db, {}, whitelist)
        BY <1>1, <2>1, FitsNext
    <2>3. CASE Rollback(p) /\ Finish(p)
        BY <1>0, <1>1, <2>1, <2>2, <2>3, GaveUp
    <2>4. CASE ~(Rollback(p) /\ Finish(p))
        <3>1. PICK al \in Alerts, id \in RowIds, b \in RowIds :
                  /\ IsNextId(db.rules, id)
                  /\ Commit(WithBlock(db, id, AutoRule(al), b, al.sev = "high"))
                  /\ Move(p, [x EXCEPT !.pc = "alert_enforce", !.held = Only(id, AutoRule(al))])
            BY <1>1, <1>5, <2>1, <2>4 DEF AlertInsert
        <3> DEFINE r == AutoRule(al)
                   t == WithBlock(db, id, r, b, al.sev = "high")
                   y == [x EXCEPT !.pc = "alert_enforce", !.held = Only(id, r)]
        <3>2. r \in Rule /\ r.active
            BY AutoRuleType DEF AutoRule
        <3>3. tx'.data = t /\ db' = t /\ Move(p, y)
            BY <3>1 DEF Commit
        <3>4. y.pc = "alert_enforce" /\ y.held = Only(id, r)
            BY <1>1, <2>1 DEF Session
        <3>5. t.rules = [db.rules EXCEPT ![id] = r]
            BY DEF WithBlock
        <3> HIDE DEF r, t, y
        <3>6. Fits(y, t, t, chain, whitelist)
            BY <1>1, <2>1, <2>2, <3>1, <3>2, <3>4, <3>5, InvParts, Inserted
        <3> QED
            BY <1>0, <1>1, <2>1, <3>3, <3>6, Onward
    <2> QED
        BY <2>3, <2>4
<1>6. CASE AlertEnforce
    <2>1. /\ phase = "running" /\ x.pc = "alert_enforce" /\ UNCHANGED Process /\ x # Idle
          /\ Move(p, Idle) /\ db' = db /\ tx' = tx
        BY <1>6, IdleFields DEF AlertEnforce, At, Finish, Store
    <2>2. PICK id \in Ids(x.held) : AddRule(x.held[id])
        BY <1>6 DEF AlertEnforce
    <2>3. /\ Holds(x, db) /\ Within(chain, db, Out(x, db), whitelist) /\ x \in Session /\ Alone(p)
          /\ tx.data = db
        BY <1>1, <2>1 DEF Fits
    <2>4. Ids(x.held) = {id} /\ SameRule(x.held[id], db.rules[id]) /\ x.held[id].active
        BY <2>1, <2>2, <2>3, OneOf
    <2>5. id \in RowIds /\ x.held[id] \in Rule /\ db.rules[id] \in Rule
        BY <1>0, <2>2, <2>4, InvParts, HeldType, TablesFields DEF SameRule
    <2>6. Within(chain, db, {id}, whitelist)
        BY <2>1, <2>3, <2>4 DEF Out
    <2>7. Within(chain', db, {id} \ {id}, whitelist)
        BY <2>2, <2>4, <2>5, <2>6, AddFits
    <2>8. Fits(Idle, tx'.data, db', chain', whitelist)
        BY <2>1, <2>3, <2>7, FitsIdle
    <2> QED
        BY <1>0, <2>1, <2>3, <2>8, Onward
<1> QED
    BY <1>2, <1>3, <1>4, <1>5, <1>6 DEF PipelineStep

(* The steps of the expiry job. *)

\* A session at a place that is no other's concern.
LEMMA FitsHeld ==
    ASSUME NEW x, NEW t, \A id \in Ids(x.held) : SameRule(x.held[id], t.rules[id]),
           NEW d, NEW c, NEW wl,
           \/ x.pc = "expire" /\ Within(c, t, {}, wl)
           \/ x.pc = "expire_mark" /\ x.rule \in Ids(x.held) /\ Within(c, t, {x.rule}, wl)
    PROVE  Fits(x, t, d, c, wl)
<1>1. Within(c, t, Out(x, t), wl)
    BY DEF Out
<1>2. Holds(x, t)
    BY DEF Holds
<1>3. Lifts(x, t, d, c)
    BY DEF Lifts, Unblocking
<1> QED
    BY <1>1, <1>2, <1>3 DEF Fits

LEMMA HeldFits ==
    ASSUME NEW x, NEW t, NEW d, NEW c, NEW wl, Fits(x, t, d, c, wl)
    PROVE  /\ x.pc = "expire" =>
                  /\ \A id \in Ids(x.held) : SameRule(x.held[id], t.rules[id])
                  /\ Within(c, t, {}, wl)
           /\ x.pc = "expire_mark" =>
                  /\ \A id \in Ids(x.held) : SameRule(x.held[id], t.rules[id])
                  /\ x.rule \in Ids(x.held) /\ Within(c, t, {x.rule}, wl)
BY DEF Fits, Holds, Out

\* The job's query finds at most one blocked row of a rule.
LEMMA OneBlocked ==
    ASSUME IInv, ListInv, LinkInv, MaxBusy <= 1, ses["expiry"].pc = "expire_mark", NEW id
    PROVE  Cardinality(BlockedBy(View("expiry"), id)) <= 1
<1> DEFINE t == View("expiry")
           rows == BlockedBy(t, id)
<1>1. \A b \in RowIds : t.blocked[b] # None => t.blocked[b] = db.blocked[b]
    BY JobTurn DEF Shortened, View
<1>2. ASSUME NEW b \in rows
      PROVE  b \in Ids(db.blocked) /\ db.blocked[b].ip = db.rules[id].ip
    <2>1. b \in RowIds /\ t.blocked[b] # None /\ t.blocked[b].rule = id
        BY DEF BlockedBy, Ids
    <2>2. b \in Ids(db.blocked) /\ db.blocked[b].rule = id
        BY <1>1, <2>1 DEF Ids
    <2>3. LinkedRow(db, b)
        BY <2>2 DEF LinkInv, Linked
    <2> QED
        BY <2>2, <2>3 DEF LinkedRow
<1>3. \A b1, b2 \in rows : b1 = b2
    BY <1>2 DEF ListInv, Unique
<1> HIDE DEF rows, t
<1>4. CASE rows = {}
    BY <1>4, FS_EmptySet DEF rows, t
<1>5. CASE rows # {}
    <2>1. PICK b : rows = {b}
        BY <1>3, <1>5
    <2>2. Cardinality({b}) = 1
        BY FS_Singleton
    <2> QED
        BY <2>1, <2>2 DEF rows, t
<1> QED
    BY <1>4, <1>5

LEMMA JobFits ==
    ASSUME IInv, ListInv, LinkInv, OrphanInv, MaxBusy <= 1, "del" \notin Failing, ExpiryStep
    PROVE  OrphanInv'
<1> DEFINE e == "expiry"
           x == ses[e]
           t == tx.data
<1>0. e \in Sessions
    BY Names
<1>1. ASSUME phase = "running", x # Idle \/ \E operation : CanStart(e, operation)
      PROVE  /\ Alone(e) /\ x \in Session /\ db \in Tables /\ t \in Tables
             /\ Fits(x, t, db, chain, whitelist) /\ View(e) = t
             /\ x.pc \notin Writing => t = db
    BY <1>0, <1>1, AtWork
<1>2. CASE ExpirySelect
    <2>1. CanStart(e, "expire") /\ UNCHANGED <<Process, chain>> /\ phase = "running" /\ x = Idle
          /\ db' = db /\ tx' = tx
        BY <1>2 DEF ExpirySelect, CanStart, Store
    <2> DEFINE y == [x EXCEPT !.pc = "expire", !.held = Loaded(db, Expired)]
    <2>2. /\ Alone(e) /\ x \in Session /\ db \in Tables /\ Fits(x, t, db, chain, whitelist)
          /\ t = db
        BY <1>1, <2>1, IdleFields DEF Writing
    <2>3. y.pc = "expire" /\ y.held = Loaded(db, Expired)
        BY <2>2 DEF Session
    <2>4. Move(e, y)
        BY <1>2 DEF ExpirySelect
    <2> HIDE DEF y
    <2>5. \A id \in Ids(y.held) : SameRule(y.held[id], db.rules[id])
        <3>1. \A id \in Ids(y.held) : id \in Ids(db.rules) /\ y.held[id] = db.rules[id]
            BY <2>3 DEF Loaded, Ids
        <3> QED
            BY <2>2, <3>1, DbRule, SameItself
    <2>6. Within(chain, t, {}, whitelist)
        BY <2>1, <2>2, IdleFields DEF Fits, Out
    <2>7. Fits(y, tx'.data, db', chain', whitelist)
        BY <2>1, <2>2, <2>3, <2>5, <2>6, FitsHeld
    <2> QED
        BY <1>0, <2>1, <2>2, <2>4, <2>7, Onward
<1>3. CASE ExpiryUnhook
    <2>1. /\ phase = "running" /\ x.pc = "expire" /\ UNCHANGED Process /\ x # Idle
          /\ db' = db /\ tx' = tx
        BY <1>3, IdleFields DEF ExpiryUnhook, At, Store
    <2>2. PICK id \in Ids(x.held) :
              /\ RemoveRule(x.held[id])
              /\ Move(e, [x EXCEPT !.pc = "expire_mark", !.rule = id])
        BY <1>3 DEF ExpiryUnhook
    <2> DEFINE y == [x EXCEPT !.pc = "expire_mark", !.rule = id]
    <2>3. Alone(e) /\ x \in Session /\ t \in Tables /\ Fits(x, t, db, chain, whitelist)
        BY <1>1, <2>1
    <2>4. y.pc = "expire_mark" /\ y.held = x.held /\ y.rule = id
        BY <2>3 DEF Session
    <2>5. Move(e, y)
        BY <2>2
    <2> HIDE DEF y
    <2>6. (\A i \in Ids(x.held) : SameRule(x.held[i], t.rules[i])) /\ Within(chain, t, {}, whitelist)
        BY <2>1, <2>3, HeldFits
    <2>7. id \in RowIds /\ x.held[id] \in Rule /\ t.rules[id] \in Rule
        BY <1>0, <2>2, <2>3, <2>6, InvParts, HeldType, TablesFields DEF SameRule
    <2>8. Within(chain', t, {id}, whitelist)
        <3>1. Within(chain', t, {} \cup {id}, whitelist)
            BY <2>2, <2>6, <2>7, RemoveFits
        <3>2. {} \cup {id} = {id}
            OBVIOUS
        <3> QED
            BY <3>1, <3>2
    <2>9. Fits(y, tx'.data, db', chain', whitelist)
        BY <2>1, <2>2, <2>4, <2>6, <2>8, FitsHeld
    <2> QED
        BY <1>0, <2>1, <2>3, <2>5, <2>9, Onward
<1>4. CASE ExpiryMark
    <2>1. /\ phase = "running" /\ x.pc = "expire_mark" /\ UNCHANGED <<Process, chain>> /\ x # Idle
        BY <1>4, IdleFields DEF ExpiryMark, At
    <2>2. /\ Alone(e) /\ x \in Session /\ t \in Tables /\ Fits(x, t, db, chain, whitelist)
          /\ View(e) = t
        BY <1>1, <2>1
    <2> DEFINE id == x.rule
               w == WithoutBlocked(t, BlockedBy(t, id))
               u == [w EXCEPT !.rules[id].active = FALSE]
               y == [x EXCEPT !.pc = "expire", !.held[id] = None, !.rule = 0]
    <2>3. /\ \A i \in Ids(x.held) : SameRule(x.held[i], t.rules[i])
          /\ id \in Ids(x.held) /\ Within(chain, t, {id}, whitelist)
        BY <2>1, <2>2, HeldFits
    <2>4. t.rules[id] # None /\ id \in RowIds
        BY <2>3 DEF SameRule, Ids
    <2>5. ~(Cardinality(BlockedBy(t, id)) > 1)
        <3>1. Cardinality(BlockedBy(t, id)) <= 1
            BY <2>1, <2>2, OneBlocked
        <3>2. Cardinality(BlockedBy(t, id)) \in Nat
            BY RowsFinite DEF BlockedBy, Ids
        <3> QED
            BY <3>1, <3>2
    <2>6. Write(e, u) /\ Move(e, y)
        BY <1>4, <2>2, <2>4, <2>5 DEF ExpiryMark
    <2>7. w \in Tables /\ w.rules = t.rules /\ t.rules \in [RowIds -> Rule \cup {None}]
        BY <2>2, WithoutType, TablesFields DEF WithoutBlocked, Tables
    <2>8. \A i \in RowIds : i # id => u.rules[i] = t.rules[i]
        BY <2>7 DEF Tables
    <2>9. y.pc = "expire" /\ y.held = [x.held EXCEPT ![id] = None]
        BY <2>2 DEF Session
    <2>10. x.held \in [RowIds -> Rule \cup {None}]
        BY <2>2 DEF Session
    <2>11. tx'.data = u /\ db' = db
        BY <2>6 DEF Write
    <2> HIDE DEF id, w, u, y
    <2>12. \A i \in Ids(y.held) : i \in RowIds /\ i # id /\ i \in Ids(x.held) /\ y.held[i] = x.held[i]
        BY <2>9, <2>10 DEF Ids
    <2>13. \A i \in Ids(y.held) : SameRule(y.held[i], u.rules[i])
        BY <2>3, <2>8, <2>12
    <2>14. Within(chain, u, {}, whitelist)
        BY <2>3, <2>8, InvParts, WithinElse
    <2>15. Fits(y, tx'.data, db', chain', whitelist)
        BY <2>1, <2>9, <2>11, <2>13, <2>14, FitsHeld
    <2> QED
        BY <1>0, <2>1, <2>2, <2>6, <2>15, Onward
<1>5. CASE ExpiryCommit
    <2>1. /\ phase = "running" /\ x.pc = "expire" /\ UNCHANGED <<Process, chain>> /\ x # Idle
          /\ Commit(View(e)) /\ Move(e, Idle)
        BY <1>5, IdleFields DEF ExpiryCommit, At, Finish
    <2>2. Alone(e) /\ Fits(x, t, db, chain, whitelist) /\ View(e) = t
        BY <1>1, <2>1
    <2>3. Within(chain, t, {}, whitelist) /\ tx'.data = t /\ db' = t
        BY <2>1, <2>2, HeldFits DEF Commit
    <2>4. Fits(Idle, tx'.data, db', chain', whitelist)
        BY <2>1, <2>3, FitsIdle
    <2> QED
        BY <1>0, <2>1, <2>2, <2>4, Onward
<1> QED
    BY <1>2, <1>3, <1>4, <1>5 DEF ExpiryStep

(* The steps of requests. *)

LEMMA RequestAtWork ==
    ASSUME IInv, ListInv, OrphanInv, MaxBusy <= 1, phase = "running", NEW c \in Clients,
           ses[c].pc # "idle" \/ \E operation : CanStart(c, operation)
    PROVE  /\ c \in Sessions /\ Alone(c) /\ ses[c] \in Session
           /\ tx.data \in Tables /\ db \in Tables
           /\ Fits(ses[c], tx.data, db, chain, whitelist)
           /\ View(c) = tx.data
           /\ ses[c].pc \notin Writing => tx.data = db
BY Names, IdleFields, AtWork

LEMMA Starting ==
    ASSUME IInv, ListInv, OrphanInv, MaxBusy <= 1, NEW c \in Clients,
           NEW operation, CanStart(c, operation)
    PROVE  /\ phase = "running" /\ ses[c] = Idle /\ c \in Sessions /\ Alone(c)
           /\ Idle \in Session /\ db \in Tables /\ tx.data = db
           /\ View(c) = db /\ Fits(Idle, db, db, chain, whitelist)
           /\ Within(chain, db, {}, whitelist)
<1>1. phase = "running" /\ ses[c] = Idle /\ ses[c].pc \notin Writing
    BY IdleFields DEF CanStart, Writing
<1>2. /\ c \in Sessions /\ Alone(c) /\ db \in Tables /\ tx.data = db
      /\ View(c) = db /\ Fits(Idle, db, db, chain, whitelist)
    BY <1>1, RequestAtWork
<1> QED
    BY <1>1, <1>2, IdleType, IdleFields DEF Fits, Out

LEMMA CommitFits ==
    ASSUME IInv, ListInv, OrphanInv, MaxBusy <= 1, NEW c \in Clients, RequestCommit(c)
    PROVE  OrphanInv'
<1>1. /\ phase = "running" /\ ses[c].pc = "commit" /\ UNCHANGED <<Process, chain>>
      /\ Move(c, Idle)
    BY DEF RequestCommit, At, Finish
<1>2. tx'.data = tx.data
    BY DEF RequestCommit, Commit, Store
<1>3. c \in Sessions /\ Alone(c) /\ Fits(ses[c], tx.data, db, chain, whitelist)
    BY <1>1, RequestAtWork
<1>4. Within(chain, tx.data, {}, whitelist)
    BY <1>1, <1>3 DEF Fits, Out
<1>5. Fits(Idle, tx'.data, db', chain', whitelist)
    BY <1>1, <1>2, <1>4, FitsIdle
<1> QED
    BY <1>1, <1>3, <1>5, Onward

LEMMA CreateFits ==
    ASSUME IInv, ListInv, OrphanInv, MaxBusy <= 1, NEW c \in Clients, CreateFlush(c)
    PROVE  OrphanInv'
<1>1. CanStart(c, "create") /\ UNCHANGED <<Process, chain>>
    BY DEF CreateFlush
<1>2. PICK body \in NewRules, id \in RowIds :
          /\ IsNextId(db.rules, id)
          /\ Write(c, [db EXCEPT !.rules[id] = ManualRule(body)])
          /\ Move(c, [ses[c] EXCEPT !.pc = "create_apply", !.held = Only(id, ManualRule(body))])
    BY DEF CreateFlush
<1> DEFINE r == ManualRule(body)
           t == [db EXCEPT !.rules[id] = r]
           y == [Idle EXCEPT !.pc = "create_apply", !.held = Only(id, r)]
<1>3. /\ phase = "running" /\ ses[c] = Idle /\ c \in Sessions /\ Alone(c) /\ Idle \in Session
      /\ Within(chain, db, {}, whitelist) /\ db \in Tables
    BY <1>1, Starting
<1>4. r \in Rule /\ r.active
    BY ManualRuleType DEF ManualRule
<1>5. tx'.data = t /\ db' = db /\ Move(c, y)
    BY <1>2, <1>3 DEF Write
<1>6. y.pc = "create_apply" /\ y.held = Only(id, r)
    BY <1>3 DEF Session
<1>7. t.rules = [db.rules EXCEPT ![id] = r]
    BY <1>3 DEF Tables
<1> HIDE DEF r, t, y
<1>8. Fits(y, t, db, chain, whitelist)
    BY <1>2, <1>3, <1>4, <1>6, <1>7, InvParts, Inserted
<1> QED
    BY <1>1, <1>3, <1>5, <1>8, Onward

\* update_rule and delete_rule: the rule loaded, then taken out of the chain.
LEMMA LoadFits ==
    ASSUME IInv, ListInv, OrphanInv, MaxBusy <= 1, NEW c \in Clients, UpdateLoad(c) \/ DeleteLoad(c)
    PROVE  OrphanInv'
<1>0. /\ CanStart(c, "update") \/ CanStart(c, "delete")
      /\ UNCHANGED <<Process, Store, chain>>
    BY DEF UpdateLoad, DeleteLoad, LoadRule
<1>1. PICK p \in {"update_unhook", "delete_unhook"}, id \in Ids(db.rules) :
          Move(c, [ses[c] EXCEPT !.pc = p, !.held = Only(id, db.rules[id])])
    BY DEF UpdateLoad, DeleteLoad, LoadRule
<1> DEFINE r == db.rules[id]
           y == [Idle EXCEPT !.pc = p, !.held = Only(id, r)]
<1>2. /\ phase = "running" /\ ses[c] = Idle /\ c \in Sessions /\ Alone(c) /\ Idle \in Session
      /\ Within(chain, db, {}, whitelist) /\ db \in Tables /\ tx.data = db
    BY <1>0, Starting
<1>3. id \in RowIds /\ r \in Rule /\ r # None
    BY <1>2, DbRule, NoneAssumption
<1>4. tx'.data = db /\ db' = db /\ Move(c, y)
    BY <1>0, <1>1, <1>2 DEF Store
<1>5. y.pc = p /\ y.held = Only(id, r)
    BY <1>2 DEF Session
<1>6. Ids(y.held) = {id} /\ SameRule(y.held[id], db.rules[id])
    BY <1>3, <1>5, OnlyIds, SameItself
<1> HIDE DEF y, r
<1>7. Fits(y, db, db, chain, whitelist)
    BY <1>2, <1>5, <1>6, FitsOne
<1> QED
    BY <1>0, <1>2, <1>4, <1>7, Onward

LEMMA UnhookFits ==
    ASSUME IInv, ListInv, OrphanInv, MaxBusy <= 1, "del" \notin Failing, NEW c \in Clients,
           UpdateUnhook(c) \/ DeleteUnhook(c)
    PROVE  OrphanInv'
<1> DEFINE x == ses[c]
           t == tx.data
<1>1. PICK p \in {"update_unhook", "delete_unhook"}, next \in {"update_flush", "delete_flush"},
           id \in Ids(x.held) :
          /\ phase = "running" /\ x.pc = p /\ UNCHANGED <<Process, Store>>
          /\ RemoveRule(x.held[id])
          /\ Move(c, [x EXCEPT !.pc = next])
    BY DEF UpdateUnhook, DeleteUnhook, UnhookRule, At, GoTo
<1>2. /\ c \in Sessions /\ Alone(c) /\ x \in Session /\ t \in Tables
      /\ Within(chain, t, Out(x, t), whitelist) /\ Holds(x, t)
    BY <1>1, RequestAtWork DEF Fits
<1>3. Ids(x.held) = {id} /\ SameRule(x.held[id], t.rules[id])
    BY <1>1, <1>2, OneOf
<1>4. id \in RowIds /\ x.held[id] \in Rule /\ t.rules[id] \in Rule
    BY <1>1, <1>2, <1>3, InvParts, HeldType, TablesFields DEF SameRule
<1>5. Within(chain, t, {}, whitelist)
    BY <1>1, <1>2 DEF Out
<1>6. Within(chain', t, {id}, whitelist)
    <2>1. Within(chain', t, {} \cup {id}, whitelist)
        BY <1>1, <1>3, <1>4, <1>5, RemoveFits
    <2>2. {} \cup {id} = {id}
        OBVIOUS
    <2> QED
        BY <2>1, <2>2
<1> DEFINE y == [x EXCEPT !.pc = next]
<1>7. y.pc = next /\ y.held = x.held
    BY <1>2, FieldsOf
<1>8. tx' = tx /\ db' = db /\ Move(c, y)
    BY <1>1 DEF Store
<1> HIDE DEF y
<1>9. Fits(y, t, db, chain', whitelist)
    BY <1>3, <1>6, <1>7, FitsOne
<1> QED
    BY <1>1, <1>2, <1>8, <1>9, Onward

\* add_rule, with the answer of iptables not looked at.
LEMMA ApplyFits ==
    ASSUME IInv, ListInv, OrphanInv, MaxBusy <= 1, NEW c \in Clients,
           CreateApply(c) \/ UpdateApply(c) \/ BlockApply(c)
    PROVE  OrphanInv'
<1> DEFINE x == ses[c]
           t == tx.data
<1>1. /\ phase = "running" /\ x.pc \in {"create_apply", "update_apply", "block_apply"}
      /\ UNCHANGED <<Process, Store>>
    BY DEF CreateApply, UpdateApply, BlockApply, At
<1>2. PICK id \in Ids(x.held) :
          /\ x.pc # "update_apply" \/ x.held[id].active => AddRule(x.held[id])
          /\ x.pc = "update_apply" /\ ~x.held[id].active => UNCHANGED chain
    BY <1>1 DEF CreateApply, UpdateApply, BlockApply, At
<1>3. PICK p : GoTo(c, p) /\ p = IF x.pc = "block_apply" THEN "announce" ELSE "commit"
    BY <1>1 DEF CreateApply, UpdateApply, BlockApply, At
<1>4. /\ c \in Sessions /\ Alone(c) /\ x \in Session /\ t \in Tables
      /\ Within(chain, t, Out(x, t), whitelist) /\ Holds(x, t) /\ Lifts(x, t, db, chain)
    BY <1>1, RequestAtWork DEF Fits
<1>5. /\ Ids(x.held) = {id} /\ SameRule(x.held[id], t.rules[id])
      /\ x.pc \in {"create_apply", "block_apply"} => x.held[id].active
    BY <1>1, <1>4, OneOf
<1>6. id \in RowIds /\ x.held[id] \in Rule /\ t.rules[id] \in Rule
    BY <1>2, <1>4, <1>5, InvParts, HeldType, TablesFields DEF SameRule
<1>7. Within(chain, t, {id}, whitelist)
    BY <1>1, <1>4, <1>5 DEF Out
<1>8. Within(chain', t, {}, whitelist)
    <2>1. CASE x.held[id].active
        <3>1. Within(chain', t, {id} \ {id}, whitelist)
            BY <1>2, <1>5, <1>6, <1>7, <2>1, AddFits
        <3> QED
            BY <3>1
    <2>2. CASE ~x.held[id].active
        <3>1. ~Calls(t, id, whitelist)
            BY <1>5, <2>2 DEF Calls, SameRule
        <3>2. chain' = chain /\ chain \in Seq(Entries)
            BY <1>1, <1>2, <1>5, <2>2, InvParts
        <3>3. Within(chain, t, {}, whitelist)
            BY <1>7, <3>1, <3>2, WithinElse
        <3> QED
            BY <3>2, <3>3
    <2> QED
        BY <2>1, <2>2
<1> DEFINE y == [x EXCEPT !.pc = p]
<1>9. y.pc = p /\ y.held = x.held /\ y.row = x.row
    BY <1>4, FieldsOf
<1>10. tx' = tx /\ db' = db /\ Move(c, y)
    BY <1>1, <1>3 DEF Store, GoTo
<1> HIDE DEF y
<1>11. Fits(y, t, db, chain', whitelist)
    <2>1. CASE p = "commit"
        BY <1>8, <1>9, <2>1, FitsCommit
    <2>2. CASE p = "announce"
        <3>1. x.row = 0
            BY <1>3, <1>4, <2>2 DEF Lifts
        <3>2. Out(y, t) = {} /\ ~Unblocking(y)
            BY <1>9, <2>2, <3>1 DEF Out, Unblocking
        <3>3. Holds(y, t)
            BY <1>5, <1>9, <2>2 DEF Holds
        <3>4. Lifts(y, t, db, chain')
            BY <1>9, <2>2, <3>2 DEF Lifts
        <3> QED
            BY <1>8, <3>2, <3>3, <3>4 DEF Fits
    <2> QED
        BY <1>3, <2>1, <2>2
<1> QED
    BY <1>1, <1>4, <1>10, <1>11, Onward

LEMMA DeleteFits ==
    ASSUME IInv, ListInv, OrphanInv, MaxBusy <= 1, NEW c \in Clients, DeleteFlush(c)
    PROVE  OrphanInv'
<1> DEFINE x == ses[c]
<1>1. phase = "running" /\ x.pc = "delete_flush" /\ UNCHANGED <<Process, chain>> /\ GoTo(c, "commit")
    BY DEF DeleteFlush, At
<1>2. /\ c \in Sessions /\ Alone(c) /\ x \in Session /\ db \in Tables /\ tx.data = db /\ View(c) = db
      /\ Within(chain, db, Out(x, db), whitelist) /\ Holds(x, db)
    BY <1>1, RequestAtWork DEF Fits, Writing
<1>3. PICK id \in Ids(x.held) :
          Write(c, WithoutRules(WithoutBlocked(db, BlockedBy(db, id)), {id}))
    BY <1>2 DEF DeleteFlush
<1> DEFINE w == WithoutBlocked(db, BlockedBy(db, id))
           u == WithoutRules(w, {id})
           y == [x EXCEPT !.pc = "commit"]
<1>4. w \in Tables /\ w.rules = db.rules
    BY <1>2, WithoutType DEF WithoutBlocked, Tables
<1>5. \A i \in RowIds : i # id => u.rules[i] = db.rules[i]
    BY <1>4 DEF WithoutRules, Tables
<1>6. Within(chain, db, {id}, whitelist)
    <2>1. Ids(x.held) = {id}
        BY <1>1, <1>2, OneOf
    <2> QED
        BY <1>1, <1>2, <2>1 DEF Out
<1>7. y.pc = "commit"
    BY <1>2, FieldsOf
<1>8. tx'.data = u /\ db' = db /\ Move(c, y)
    BY <1>1, <1>3 DEF Write, GoTo
<1> HIDE DEF w, u, y
<1>9. Within(chain, u, {}, whitelist)
    BY <1>5, <1>6, InvParts, WithinElse
<1>10. Fits(y, u, db, chain, whitelist)
    BY <1>7, <1>9, FitsCommit
<1> QED
    BY <1>1, <1>2, <1>8, <1>10, Onward

LEMMA BlockFits ==
    ASSUME IInv, ListInv, OrphanInv, MaxBusy <= 1, NEW c \in Clients,
           BlockCheck(c) \/ BlockInsert(c)
    PROVE  OrphanInv'
<1> DEFINE x == ses[c]
<1>1. CASE BlockCheck(c)
    <2>1. CanStart(c, "block") /\ UNCHANGED <<Process, Store, chain>>
        BY <1>1 DEF BlockCheck
    <2>2. PICK ip : Move(c, [x EXCEPT !.pc = "block_insert", !.ip = ip])
        BY <1>1 DEF BlockCheck
    <2>3. /\ phase = "running" /\ x = Idle /\ c \in Sessions /\ Alone(c) /\ Idle \in Session
          /\ Fits(Idle, db, db, chain, whitelist) /\ tx.data = db
        BY <2>1, Starting
    <2> DEFINE y == [Idle EXCEPT !.pc = "block_insert", !.ip = ip]
    <2>4. y.pc = "block_insert" /\ y.held = Idle.held /\ y.row = 0
        BY <2>3, IdleFields DEF Session
    <2>5. tx' = tx /\ db' = db /\ Move(c, y)
        BY <2>1, <2>2, <2>3 DEF Store
    <2> HIDE DEF y
    <2>6. Fits(y, db, db, chain, whitelist)
        BY <2>3, <2>4, FitsNext
    <2> QED
        BY <2>1, <2>3, <2>5, <2>6, Onward
<1>2. CASE BlockInsert(c)
    <2>1. phase = "running" /\ x.pc = "block_insert" /\ UNCHANGED <<Process, chain>>
        BY <1>2 DEF BlockInsert, At
    <2>2. /\ c \in Sessions /\ Alone(c) /\ x \in Session /\ db \in Tables /\ tx.data = db
          /\ View(c) = db /\ Within(chain, db, Out(x, db), whitelist) /\ Lifts(x, db, db, chain)
        BY <2>1, RequestAtWork DEF Fits, Writing
    <2>3. Within(chain, db, {}, whitelist) /\ x.row = 0
        BY <2>1, <2>2 DEF Out, Lifts
    <2>4. CASE Rollback(c) /\ Finish(c)
        BY <2>1, <2>2, <2>3, <2>4, GaveUp
    <2>5. CASE ~(Rollback(c) /\ Finish(c))
        <3>1. PICK body \in Blocks, id \in RowIds, b \in RowIds :
                  /\ IsNextId(db.rules, id)
                  /\ Write(c, WithBlock(db, id, BlockRule(body), b, body.perm))
                  /\ Move(c, [x EXCEPT !.pc = "block_apply", !.held = Only(id, BlockRule(body))])
            BY <1>2, <2>2, <2>5 DEF BlockInsert
        <3> DEFINE r == BlockRule(body)
                   t == WithBlock(db, id, r, b, body.perm)
                   y == [x EXCEPT !.pc = "block_apply", !.held = Only(id, r)]
        <3>2. r \in Rule /\ r.active
            BY BlockRuleType DEF BlockRule
        <3>3. y.pc = "block_apply" /\ y.held = Only(id, r) /\ y.row = 0
            BY <2>2, <2>3 DEF Session
        <3>4. t.rules = [db.rules EXCEPT ![id] = r]
            BY DEF WithBlock
        <3>5. tx'.data = t /\ db' = db /\ Move(c, y)
            BY <3>1 DEF Write
        <3> HIDE DEF r, t, y
        <3>6. Fits(y, t, db, chain, whitelist)
            BY <2>2, <2>3, <3>1, <3>2, <3>3, <3>4, InvParts, Inserted
        <3> QED
            BY <2>1, <2>2, <3>5, <3>6, Onward
    <2> QED
        BY <2>4, <2>5
<1> QED
    BY <1>1, <1>2

\* An UPDATE of the columns that changed makes the row what the session holds.
LEMMA MergedSame ==
    ASSUME NEW row \in Rule, NEW old \in Rule, SameRule(old, row), NEW ch \in Changes,
           NEW exp \in Expiries
    PROVE  SameRule(Changed(old, ch), [Merged(row, old, Changed(old, ch)) EXCEPT !.exp = exp])
<1> DEFINE new == Changed(old, ch)
           m == Merged(row, old, new)
<1>1. new \in Rule /\ new.ip = old.ip /\ new.svc = old.svc /\ new.active = old.active
    BY ChangedType DEF Changed, Rule
<1> HIDE DEF new
<1>2. m \in Rule
    BY <1>1, MergedType
<1>3. /\ m.ip = row.ip /\ m.svc = row.svc /\ m.active = row.active
      /\ m.prio = IF new.prio # old.prio THEN new.prio ELSE row.prio
      /\ m.act = IF new.act # old.act THEN new.act ELSE row.act
      /\ m.temp = IF new.temp # old.temp THEN new.temp ELSE row.temp
    BY DEF Merged, Rule
<1>4. SameRule(new, m)
    BY <1>1, <1>2, <1>3, NoneAssumption DEF SameRule
<1> HIDE DEF m
<1>5. [m EXCEPT !.exp = exp] \in Rule
    BY <1>2, RuleExp
<1>6. SameRule(m, [m EXCEPT !.exp = exp])
    BY <1>2, <1>5, NoneAssumption DEF SameRule, Rule
<1>7. SameRule(new, [m EXCEPT !.exp = exp])
    BY <1>4, <1>6, SameVia
<1> QED
    BY <1>7 DEF m, new

LEMMA UpdateFits ==
    ASSUME IInv, ListInv, OrphanInv, MaxBusy <= 1, NEW c \in Clients, UpdateFlush(c)
    PROVE  OrphanInv'
<1> DEFINE x == ses[c]
<1>1. phase = "running" /\ x.pc = "update_flush" /\ UNCHANGED <<Process, chain>>
    BY DEF UpdateFlush, At
<1>2. /\ c \in Sessions /\ Alone(c) /\ x \in Session /\ db \in Tables /\ tx.data = db /\ View(c) = db
      /\ Within(chain, db, Out(x, db), whitelist) /\ Holds(x, db)
    BY <1>1, RequestAtWork DEF Fits, Writing
<1>3. ASSUME NEW id \in Ids(x.held)
      PROVE  /\ Ids(x.held) = {id} /\ SameRule(x.held[id], db.rules[id])
             /\ Within(chain, db, {id}, whitelist)
             /\ id \in RowIds /\ x.held[id] \in Rule /\ db.rules[id] \in Rule
    <2>1. Ids(x.held) = {id} /\ SameRule(x.held[id], db.rules[id])
        BY <1>1, <1>2, OneOf
    <2>2. id \in RowIds /\ x.held[id] \in Rule
        BY <1>2, InvParts, HeldType
    <2>3. db.rules[id] \in Rule
        BY <1>2, <2>1, <2>2, TablesFields DEF SameRule
    <2> QED
        BY <1>1, <1>2, <2>1, <2>2, <2>3 DEF Out
<1>4. CASE GoTo(c, "update_apply") /\ UNCHANGED Store /\ Ids(x.held) # {}
    <2> DEFINE y == [x EXCEPT !.pc = "update_apply"]
    <2>1. PICK id \in Ids(x.held) : TRUE
        BY <1>4
    <2>2. y.pc = "update_apply" /\ y.held = x.held
        BY <1>2, FieldsOf
    <2>3. tx' = tx /\ db' = db /\ Move(c, y)
        BY <1>4 DEF Store, GoTo
    <2> HIDE DEF y
    <2>4. Fits(y, db, db, chain, whitelist)
        BY <1>3, <2>1, <2>2, FitsOne
    <2> QED
        BY <1>1, <1>2, <2>3, <2>4, Onward
<1>5. ASSUME NEW ch \in Changes, NEW id \in Ids(x.held), NEW exp \in Expiries,
             NEW new, new = Changed(x.held[id], ch), NEW m,
             m = [Merged(db.rules[id], x.held[id], new) EXCEPT !.exp = exp],
             Write(c, [db EXCEPT !.rules[id] = m]),
             Move(c, [x EXCEPT !.pc = "update_apply", !.held[id] = new])
      PROVE  OrphanInv'
    <2> DEFINE u == [db EXCEPT !.rules[id] = m]
               y == [x EXCEPT !.pc = "update_apply", !.held[id] = new]
    <2>1. /\ Ids(x.held) = {id} /\ SameRule(x.held[id], db.rules[id])
          /\ Within(chain, db, {id}, whitelist)
          /\ id \in RowIds /\ x.held[id] \in Rule /\ db.rules[id] \in Rule
        BY <1>3
    <2>2. SameRule(new, m)
        BY <1>5, <2>1, MergedSame
    <2>3. new \in Rule /\ new # None
        BY <1>5, <2>1, ChangedType, NoneAssumption
    <2>4. u.rules[id] = m /\ \A i \in RowIds : i # id => u.rules[i] = db.rules[i]
        BY <1>2, <2>1, TablesFields DEF Tables
    <2>5. y.pc = "update_apply" /\ y.held = [x.held EXCEPT ![id] = new]
        BY <1>2 DEF Session
    <2>6. x.held \in [RowIds -> Rule \cup {None}]
        BY <1>2 DEF Session
    <2>7. tx'.data = u /\ db' = db /\ Move(c, y)
        BY <1>5 DEF Write
    <2> HIDE DEF u, y
    <2>8. Ids(y.held) = {id} /\ y.held[id] = new
        BY <2>1, <2>3, <2>5, <2>6 DEF Ids
    <2>9. Within(chain, u, {id}, whitelist)
        BY <2>1, <2>4, InvParts, WithinElse
    <2>10. SameRule(y.held[id], u.rules[id])
        BY <2>2, <2>4, <2>8
    <2>11. Fits(y, u, db, chain, whitelist)
        BY <2>5, <2>8, <2>9, <2>10, FitsOne
    <2> QED
        BY <1>1, <1>2, <2>7, <2>11, Onward
<1>6. ASSUME NEW ch \in Changes, NEW id \in Ids(x.held), NEW new, new = Changed(x.held[id], ch),
             Write(c, [db EXCEPT !.rules[id] = [Merged(db.rules[id], x.held[id], new) EXCEPT
                                                    !.exp = IF ch.ttl THEN "later" ELSE @]]),
             Move(c, [x EXCEPT !.pc = "update_apply", !.held[id] = new])
      PROVE  OrphanInv'
    <2> DEFINE row == Merged(db.rules[id], x.held[id], new)
               exp == IF ch.ttl THEN "later" ELSE row.exp
    <2>1. row \in Rule
        BY <1>3, <1>6, ChangedType, MergedType
    <2>2. exp \in Expiries
        BY <2>1 DEF Rule, Expiries
    <2>3. Write(c, [db EXCEPT !.rules[id] = [row EXCEPT !.exp = exp]])
        BY <1>6
    <2> QED
        BY <1>5, <1>6, <2>2, <2>3
<1>7. PICK ch \in Changes, id \in Ids(x.held) :
          LET new == Changed(x.held[id], ch) IN
          \/ GoTo(c, "update_apply") /\ UNCHANGED Store
          \/ /\ Write(c, [db EXCEPT !.rules[id] = [Merged(db.rules[id], x.held[id], new) EXCEPT
                                                       !.exp = IF ch.ttl THEN "later" ELSE @]])
             /\ Move(c, [x EXCEPT !.pc = "update_apply", !.held[id] = new])
    <2>1. \A id \in Ids(x.held) : db.rules[id] # None
        BY <1>3 DEF SameRule
    <2> QED
        BY <1>2, <2>1 DEF UpdateFlush
<1> QED
    BY <1>4, <1>6, <1>7

(* unblock_ip. *)

\* Nothing is out while an unblock is under way.
LEMMA FitsUnblock ==
    ASSUME NEW x, x.pc \in {"unblock_list", "unblock_lines", "announce", "unblock_commit"},
           NEW t, NEW d, t = d, NEW c, NEW wl, Within(c, t, {}, wl),
           \A id \in Ids(x.held) : SameRule(x.held[id], t.rules[id]) /\ x.held[id].ip = x.ip,
           x.pc = "unblock_lines" => \A n \in DOMAIN c : c[n].ip = x.ip => n \in x.lines,
           x.pc \in {"announce", "unblock_commit"} => \A n \in DOMAIN c : c[n].ip # x.ip
    PROVE  Fits(x, t, d, c, wl)
<1>1. Within(c, t, Out(x, t), wl)
    BY DEF Out
<1>2. Holds(x, t)
    BY DEF Holds
<1>3. Lifts(x, t, d, c)
    BY DEF Lifts
<1> QED
    BY <1>1, <1>2, <1>3 DEF Fits

LEMMA UnblockFit ==
    ASSUME NEW x, NEW t, NEW d, NEW c, NEW wl, Fits(x, t, d, c, wl), Unblocking(x)
    PROVE  /\ t = d /\ Within(c, t, {}, wl)
           /\ \A id \in Ids(x.held) : SameRule(x.held[id], t.rules[id]) /\ x.held[id].ip = x.ip
           /\ x.pc = "unblock_lines" => \A n \in DOMAIN c : c[n].ip = x.ip => n \in x.lines
           /\ x.pc \in {"announce", "unblock_commit"} => \A n \in DOMAIN c : c[n].ip # x.ip
<1>1. Out(x, t) = {}
    BY DEF Unblocking, Out
<1>2. x.pc # "commit"
    BY DEF Unblocking
<1>3. \A id \in Ids(x.held) : SameRule(x.held[id], t.rules[id])
    BY <1>2 DEF Fits, Holds
<1> QED
    BY <1>1, <1>3 DEF Fits, Lifts

LEMMA UnblockStartFits ==
    ASSUME IInv, ListInv, LinkInv, OrphanInv, MaxBusy <= 1, NEW c \in Clients,
           UnblockSelect(c) \/ UnblockLoad(c)
    PROVE  OrphanInv'
<1> DEFINE x == ses[c]
<1>1. CASE UnblockSelect(c)
    <2>1. CanStart(c, "unblock") /\ UNCHANGED <<Process, Store, chain>>
        BY <1>1 DEF UnblockSelect
    <2>2. PICK b \in Ids(db.blocked) :
              Move(c, [x EXCEPT !.pc = "unblock_load", !.row = b, !.ip = db.blocked[b].ip,
                                !.rule = db.blocked[b].rule])
        BY <1>1 DEF UnblockSelect
    <2> DEFINE y == [Idle EXCEPT !.pc = "unblock_load", !.row = b, !.ip = db.blocked[b].ip,
                                 !.rule = db.blocked[b].rule]
    <2>3. /\ phase = "running" /\ x = Idle /\ c \in Sessions /\ Alone(c) /\ Idle \in Session
          /\ db \in Tables /\ tx.data = db /\ Within(chain, db, {}, whitelist)
        BY <2>1, Starting
    <2>4. /\ y.pc = "unblock_load" /\ y.held = Idle.held /\ y.ip = db.blocked[b].ip
          /\ y.rule = db.blocked[b].rule
        BY <2>3 DEF Session
    <2>5. tx' = tx /\ db' = db /\ Move(c, y)
        BY <2>1, <2>2, <2>3 DEF Store
    <2> HIDE DEF y
    <2>6. db.blocked[b].rule \in RowIds /\ LinkedRow(db, b)
        BY <2>3, DbBlocked DEF BlockedIP, LinkInv, Linked
    <2>7. Out(y, db) = {} /\ Holds(y, db)
        BY <2>4, IdleFields DEF Out, Holds
    <2>8. Lifts(y, db, db, chain)
        BY <2>4, <2>6 DEF Lifts, Unblocking, LinkedRow
    <2>9. Fits(y, db, db, chain, whitelist)
        BY <2>3, <2>7, <2>8 DEF Fits
    <2> QED
        BY <2>1, <2>3, <2>5, <2>9, Onward
<1>2. CASE UnblockLoad(c)
    <2>1. phase = "running" /\ x.pc = "unblock_load" /\ UNCHANGED <<Process, Store, chain>>
        BY <1>2 DEF UnblockLoad, At
    <2> DEFINE id == x.rule
               r == db.rules[id]
               y == [x EXCEPT !.pc = "unblock_list", !.held = Only(id, r)]
    <2>2. tx' = tx /\ db' = db /\ Move(c, y)
        BY <1>2, <2>1 DEF UnblockLoad, Store
    <2>3. /\ c \in Sessions /\ Alone(c) /\ x \in Session /\ db \in Tables /\ tx.data = db
          /\ Within(chain, db, Out(x, db), whitelist) /\ Lifts(x, db, db, chain)
        BY <2>1, RequestAtWork DEF Fits, Writing
    <2>4. Within(chain, db, {}, whitelist) /\ id \in RowIds /\ (r # None => r.ip = x.ip)
        BY <2>1, <2>3 DEF Out, Lifts
    <2>5. y.pc = "unblock_list" /\ y.held = Only(id, r) /\ y.ip = x.ip
        BY <2>3 DEF Session
    <2>6. r # None => SameRule(r, r)
        BY <2>3, <2>4, TablesFields, SameItself
    <2> HIDE DEF y
    <2>7. \A i \in Ids(y.held) : i = id /\ y.held[i] = r /\ r # None
        BY <2>4, <2>5 DEF Only, NoRules, Ids
    <2>8. \A i \in Ids(y.held) : SameRule(y.held[i], db.rules[i]) /\ y.held[i].ip = y.ip
        BY <2>4, <2>5, <2>6, <2>7
    <2>9. Fits(y, db, db, chain, whitelist)
        BY <2>4, <2>5, <2>8, FitsUnblock
    <2> QED
        BY <2>1, <2>2, <2>3, <2>9, Onward
<1> QED
    BY <1>1, <1>2

\* remove_rule_by_ip, when listing and deleting do not fail.
LEMMA UnblockLinesFit ==
    ASSUME IInv, ListInv, OrphanInv, MaxBusy <= 1, {"del", "list"} \cap Failing = {},
           NEW c \in Clients, UnblockList(c) \/ UnblockLine(c) \/ UnblockLinesDone(c)
    PROVE  OrphanInv'
<1> DEFINE x == ses[c]
           t == tx.data
<1>1. /\ phase = "running" /\ x.pc \in {"unblock_list", "unblock_lines"}
      /\ UNCHANGED <<Process, Store>>
    BY DEF UnblockList, UnblockLine, UnblockLinesDone, At
<1>2. /\ c \in Sessions /\ Alone(c) /\ x \in Session /\ Fits(x, t, db, chain, whitelist)
    BY <1>1, RequestAtWork
<1>3. Unblocking(x)
    BY <1>1 DEF Unblocking
<1>4. /\ t = db /\ Within(chain, t, {}, whitelist)
      /\ \A id \in Ids(x.held) : SameRule(x.held[id], t.rules[id]) /\ x.held[id].ip = x.ip
      /\ x.pc = "unblock_lines" => \A n \in DOMAIN chain : chain[n].ip = x.ip => n \in x.lines
    BY <1>2, <1>3, UnblockFit
<1>5. chain \in Seq(Entries) /\ x.lines \in SUBSET Nat /\ DOMAIN chain = 1..Len(chain)
    BY <1>2, InvParts, HeldType, LenProperties
<1>6. tx' = tx /\ db' = db
    BY <1>1 DEF Store
<1>7. CASE UnblockList(c)
    <2> DEFINE y == [x EXCEPT !.pc = "unblock_lines", !.lines = LinesFor(chain, x.ip)]
    <2>1. chain' = chain /\ Move(c, y)
        BY <1>7 DEF UnblockList
    <2>2. y.pc = "unblock_lines" /\ y.lines = LinesFor(chain, x.ip) /\ y.held = x.held /\ y.ip = x.ip
        BY <1>2 DEF Session
    <2> HIDE DEF y
    <2>3. \A n \in DOMAIN chain : chain[n].ip = y.ip => n \in y.lines
        <3>1. \A n \in DOMAIN chain : chain[n] \in Entries
            BY <1>5, ElementOfSeq
        <3>2. \A n \in DOMAIN chain : chain[n].ip \in InText[chain[n].ip]
            BY <3>1, InTextAssumption DEF Entries
        <3> QED
            BY <2>2, <3>2 DEF LinesFor
    <2>4. Fits(y, t, db, chain, whitelist)
        BY <1>4, <2>2, <2>3, FitsUnblock
    <2> QED
        BY <1>1, <1>2, <1>6, <2>1, <2>4, Onward
<1>8. CASE UnblockLine(c)
    <2>1. PICK n \in x.lines :
              /\ \A m \in x.lines : m <= n
              /\ chain' = RemovedLine(chain, n)
              /\ Move(c, [x EXCEPT !.lines = @ \ {n}])
        BY <1>8 DEF UnblockLine
    <2> DEFINE y == [x EXCEPT !.lines = @ \ {n}]
    <2>2. y.pc = "unblock_lines" /\ y.lines = x.lines \ {n} /\ y.held = x.held /\ y.ip = x.ip
        BY <1>2, <1>8 DEF Session, UnblockLine, At
    <2>3. Move(c, y)
        BY <2>1
    <2> HIDE DEF y
    <2>4. x.pc = "unblock_lines"
        BY <1>8 DEF UnblockLine, At
    <2>5. \A m \in DOMAIN chain' : chain'[m].ip = y.ip => m \in y.lines
        <3>1. \A m \in DOMAIN chain : chain[m].ip = x.ip => m \in x.lines
            BY <1>4, <2>4
        <3>2. n \in x.lines /\ \A m \in x.lines : m <= n
            BY <2>1
        <3>3. \A m \in DOMAIN RemovedLine(chain, n) : RemovedLine(chain, n)[m].ip = x.ip => m \in x.lines \ {n}
            <4>1. PICK ip, lines : ip = x.ip /\ lines = x.lines
                OBVIOUS
            <4>2. chain \in Seq(Entries) /\ lines \in SUBSET Nat /\ n \in lines /\ \A m \in lines : m <= n
                BY <1>5, <3>2, <4>1
            <4>3. \A m \in DOMAIN chain : chain[m].ip = ip => m \in lines
                BY <3>1, <4>1
            <4>4. \A m \in DOMAIN RemovedLine(chain, n) : RemovedLine(chain, n)[m].ip = ip => m \in lines \ {n}
                BY <4>2, <4>3, LinesLeft
            <4> QED
                BY <4>1, <4>4
        <3> QED
            BY <2>1, <2>2, <3>3
    <2>6. Within(chain', t, {}, whitelist)
        <3>1. chain' \in Seq(Entries) /\ \A e : CountOf(chain', e) <= CountOf(chain, e)
            BY <1>5, <2>1, RemovedLineType, RemovedLineCount
        <3> QED
            BY <1>4, <1>5, <3>1, WithinMore
    <2>7. Fits(y, t, db, chain', whitelist)
        BY <1>4, <2>2, <2>5, <2>6, FitsUnblock
    <2> QED
        BY <1>1, <1>2, <1>6, <2>3, <2>7, Onward
<1>9. CASE UnblockLinesDone(c)
    <2> DEFINE y == [x EXCEPT !.pc = "announce"]
    <2>1. chain' = chain /\ Move(c, y) /\ x.pc = "unblock_lines" /\ x.lines = {}
        BY <1>9 DEF UnblockLinesDone, At, GoTo
    <2>2. y.pc = "announce" /\ y.held = x.held /\ y.ip = x.ip
        BY <1>2, FieldsOf
    <2> HIDE DEF y
    <2>3. \A n \in DOMAIN chain : chain[n].ip # y.ip
        BY <1>4, <2>1, <2>2
    <2>4. Fits(y, t, db, chain, whitelist)
        BY <1>4, <2>2, <2>3, FitsUnblock
    <2> QED
        BY <1>1, <1>2, <1>6, <2>1, <2>4, Onward
<1> QED
    BY <1>7, <1>8, <1>9

LEMMA AnnounceFits ==
    ASSUME IInv, ListInv, OrphanInv, MaxBusy <= 1, ~BroadcastFails, NEW c \in Clients, Announce(c)
    PROVE  OrphanInv'
<1> DEFINE x == ses[c]
           t == tx.data
<1>1. /\ phase = "running" /\ x.pc = "announce" /\ UNCHANGED <<Process, Store, chain>>
      /\ GoTo(c, IF x.row = 0 THEN "commit" ELSE "unblock_commit")
    BY DEF Announce, At
<1>2. c \in Sessions /\ Alone(c) /\ x \in Session /\ Fits(x, t, db, chain, whitelist)
    BY <1>1, RequestAtWork
<1>3. tx' = tx /\ db' = db
    BY <1>1 DEF Store
<1>4. CASE x.row = 0
    <2> DEFINE y == [x EXCEPT !.pc = "commit"]
    <2>1. Move(c, y) /\ y.pc = "commit"
        BY <1>1, <1>2, <1>4, FieldsOf DEF GoTo
    <2> HIDE DEF y
    <2>2. Within(chain, t, {}, whitelist)
        BY <1>1, <1>2 DEF Fits, Out
    <2>3. Fits(y, t, db, chain, whitelist)
        BY <2>1, <2>2, FitsCommit
    <2> QED
        BY <1>1, <1>2, <1>3, <2>1, <2>3, Onward
<1>5. CASE x.row # 0
    <2> DEFINE y == [x EXCEPT !.pc = "unblock_commit"]
    <2>1. Move(c, y) /\ y.pc = "unblock_commit" /\ y.held = x.held /\ y.ip = x.ip
        BY <1>1, <1>2, <1>5, FieldsOf DEF GoTo
    <2> HIDE DEF y
    <2>2. Unblocking(x)
        BY <1>1, <1>5 DEF Unblocking
    <2>3. /\ t = db /\ Within(chain, t, {}, whitelist)
          /\ \A id \in Ids(x.held) : SameRule(x.held[id], t.rules[id]) /\ x.held[id].ip = x.ip
          /\ \A n \in DOMAIN chain : chain[n].ip # x.ip
        BY <1>1, <1>2, <2>2, UnblockFit
    <2>4. Fits(y, t, db, chain, whitelist)
        BY <2>1, <2>3, FitsUnblock
    <2> QED
        BY <1>1, <1>2, <1>3, <2>1, <2>4, Onward
<1> QED
    BY <1>4, <1>5

\* The rules deactivated are for the address, and no entry is.
LEMMA UnblockCommitFits ==
    ASSUME IInv, ListInv, OrphanInv, MaxBusy <= 1, NEW c \in Clients, UnblockCommit(c)
    PROVE  OrphanInv'
<1> DEFINE x == ses[c]
           dirty == {id \in Ids(x.held) : x.held[id].active}
           w == WithoutBlocked(db, {x.row})
           u == [w EXCEPT !.rules = [id \in RowIds |->
                    IF id \in dirty THEN [w.rules[id] EXCEPT !.active = FALSE] ELSE w.rules[id]]]
<1>1. phase = "running" /\ x.pc = "unblock_commit" /\ UNCHANGED <<Process, chain>> /\ Move(c, Idle)
    BY DEF UnblockCommit, At, Finish
<1>2. /\ c \in Sessions /\ Alone(c) /\ x \in Session /\ db \in Tables
      /\ Fits(x, tx.data, db, chain, whitelist)
    BY <1>1, RequestAtWork
<1>3. Unblocking(x)
    BY <1>1 DEF Unblocking
<1>4. /\ Within(chain, db, {}, whitelist)
      /\ \A id \in Ids(x.held) : SameRule(x.held[id], db.rules[id]) /\ x.held[id].ip = x.ip
      /\ \A n \in DOMAIN chain : chain[n].ip # x.ip
    BY <1>1, <1>2, <1>3, UnblockFit
<1>5. \A id \in dirty : db.rules[id] # None
    BY <1>4 DEF SameRule
<1>6. Commit(u)
    BY <1>5 DEF UnblockCommit
<1>7. w \in Tables /\ w.rules = db.rules
    BY <1>2, WithoutType DEF WithoutBlocked, Tables
<1>8. \A id \in RowIds : id \notin dirty => u.rules[id] = db.rules[id]
    BY <1>7 DEF Tables
<1>9. \A id \in dirty : db.rules[id] \in Rule /\ db.rules[id].ip = x.ip /\ SpecOf(db.rules[id]).ip = x.ip
    <2> TAKE id \in dirty
    <2>1. id \in RowIds /\ SameRule(x.held[id], db.rules[id]) /\ x.held[id].ip = x.ip
        BY <1>4 DEF Ids
    <2>2. db.rules[id] \in Rule /\ db.rules[id].ip = x.ip
        BY <1>2, <2>1, TablesFields DEF SameRule
    <2> QED
        BY <2>2, SpecOfType
<1>10. tx'.data = u /\ db' = u
    BY <1>6 DEF Commit
<1> HIDE DEF u, w, dirty
<1>11. Within(chain, u, {}, whitelist)
    <2>1. \A e : CountOf(chain, e) <= CountOf(chain, e)
        BY InvParts, CountType
    <2>2. ASSUME NEW id \in RowIds, Calls(db, id, whitelist),
                 \E n \in DOMAIN chain : chain[n] = SpecOf(db.rules[id])
          PROVE  Calls(u, id, whitelist) /\ SpecOf(u.rules[id]) = SpecOf(db.rules[id])
        <3>1. id \notin dirty
            BY <1>4, <1>9, <2>2
        <3> QED
            BY <1>8, <2>2, <3>1 DEF Calls
    <2> QED
        BY <1>4, <2>1, <2>2, InvParts, WithinMore
<1>12. Fits(Idle, u, u, chain, whitelist)
    BY <1>11, FitsIdle
<1> QED
    BY <1>1, <1>2, <1>10, <1>12, Onward
LEMMA FitsReset ==
    ASSUME NEW x, x.pc = "reset", NEW t, \A id \in Ids(x.held) : SameRule(x.held[id], t.rules[id]),
           NEW d, NEW S, NEW c \in Seq(S), NEW wl, NEW out, Within(c, t, out, wl),
           Out(x, t) \subseteq out
    PROVE  Fits(x, t, d, c, wl)
<1>1. Within(c, t, Out(x, t), wl)
    BY WithinElse
<1>2. Holds(x, t)
    BY DEF Holds
<1>3. Lifts(x, t, d, c)
    BY DEF Lifts, Unblocking
<1> QED
    BY <1>1, <1>2, <1>3 DEF Fits

\* The temporary rules are out of the chain when their rows go.
LEMMA ResetFits ==
    ASSUME IInv, ListInv, OrphanInv, MaxBusy <= 1, "del" \notin Failing, NEW c \in Clients,
           ResetLoad(c) \/ ResetUnhook(c) \/ ResetPurge(c)
    PROVE  OrphanInv'
<1> DEFINE x == ses[c]
           Temps == {id \in Ids(db.rules) : db.rules[id].temp}
<1>1. CASE ResetLoad(c)
    <2> DEFINE y == [Idle EXCEPT !.pc = "reset", !.held = Loaded(db, Temporary)]
    <2>1. CanStart(c, "reset") /\ UNCHANGED <<Process, chain>> /\ db' = db /\ tx' = tx
        BY <1>1 DEF ResetLoad, Store
    <2>2. /\ phase = "running" /\ x = Idle /\ c \in Sessions /\ Alone(c) /\ Idle \in Session
          /\ db \in Tables /\ tx.data = db /\ Within(chain, db, {}, whitelist)
        BY <2>1, Starting
    <2>3. Move(c, y)
        BY <1>1, <2>2 DEF ResetLoad
    <2>4. y.pc = "reset" /\ y.held = Loaded(db, Temporary)
        BY <2>2 DEF Session
    <2> HIDE DEF y
    <2>5. \A id \in Ids(y.held) : SameRule(y.held[id], db.rules[id])
        <3>1. \A id \in Ids(y.held) : id \in Ids(db.rules) /\ y.held[id] = db.rules[id]
            BY <2>4 DEF Loaded, Ids
        <3> QED
            BY <2>2, <3>1, DbRule, SameItself
    <2>6. Out(y, db) \subseteq {}
        BY <2>2, <2>4, DbRule, NoneAssumption DEF Out, Loaded, Temporary, Ids
    <2>7. Fits(y, db, db, chain, whitelist)
        BY <2>2, <2>4, <2>5, <2>6, InvParts, FitsReset
    <2> QED
        BY <2>1, <2>2, <2>3, <2>7, Onward
<1>2. ASSUME phase = "running", x.pc = "reset"
      PROVE  /\ c \in Sessions /\ Alone(c) /\ x \in Session /\ db \in Tables /\ tx.data = db
             /\ \A id \in Ids(x.held) : SameRule(x.held[id], db.rules[id])
             /\ Within(chain, db, Temps \ Ids(x.held), whitelist)
    <2>1. /\ c \in Sessions /\ Alone(c) /\ x \in Session /\ db \in Tables /\ tx.data = db
          /\ Fits(x, db, db, chain, whitelist)
        BY <1>2, RequestAtWork DEF Writing
    <2> QED
        BY <1>2, <2>1 DEF Fits, Holds, Out
<1>3. CASE ResetUnhook(c)
    <2>1. /\ phase = "running" /\ x.pc = "reset" /\ UNCHANGED Process /\ db' = db /\ tx' = tx
        BY <1>3 DEF ResetUnhook, At, Store
    <2>2. PICK id \in Ids(x.held) :
              RemoveRule(x.held[id]) /\ Move(c, [x EXCEPT !.held[id] = None])
        BY <1>3 DEF ResetUnhook
    <2> DEFINE y == [x EXCEPT !.held[id] = None]
    <2>3. y.pc = "reset" /\ y.held = [x.held EXCEPT ![id] = None]
        BY <1>2, <2>1 DEF Session
    <2>4. Move(c, y)
        BY <2>2
    <2> HIDE DEF y
    <2>5. x.held \in [RowIds -> Rule \cup {None}]
        BY <1>2, <2>1 DEF Session
    <2>6. /\ Ids(y.held) = Ids(x.held) \ {id}
          /\ \A i \in Ids(y.held) : y.held[i] = x.held[i]
        BY <2>3, <2>5 DEF Ids
    <2>7. id \in RowIds /\ x.held[id] \in Rule /\ db.rules[id] \in Rule
        BY <1>2, <2>1, <2>2, InvParts, HeldType, TablesFields DEF SameRule
    <2>8. Within(chain', db, (Temps \ Ids(x.held)) \cup {id}, whitelist)
        BY <1>2, <2>1, <2>2, <2>7, RemoveFits
    <2>9. Out(y, db) \subseteq (Temps \ Ids(x.held)) \cup {id}
        BY <2>3, <2>6 DEF Out
    <2>10. \A i \in Ids(y.held) : SameRule(y.held[i], db.rules[i])
        BY <1>2, <2>1, <2>6
    <2>11. chain' \in Seq(Entries)
        BY <2>2, <2>7, InvParts, RemovedRuleType DEF RemoveRule
    <2>12. Fits(y, db, db, chain', whitelist)
        BY <2>3, <2>8, <2>9, <2>10, <2>11, FitsReset
    <2> QED
        BY <1>2, <2>1, <2>4, <2>12, Onward
<1>4. CASE ResetPurge(c)
    <2> DEFINE w == WithoutBlocked(db, {b \in Ids(db.blocked) : ~db.blocked[b].perm})
               u == WithoutRules(w, Temps)
    <2>1. /\ phase = "running" /\ x.pc = "reset" /\ UNCHANGED <<Process, chain>> /\ Move(c, Idle)
          /\ Ids(x.held) = {} /\ db' = u /\ tx'.data = u
        BY <1>4 DEF ResetPurge, At, Finish, Commit
    <2>2. Within(chain, db, Temps, whitelist)
        BY <1>2, <2>1
    <2>3. w \in Tables /\ w.rules = db.rules
        BY <1>2, <2>1, WithoutType DEF WithoutBlocked, Tables
    <2>4. \A id \in RowIds \ Temps : u.rules[id] = db.rules[id]
        BY <2>3 DEF WithoutRules, Tables
    <2> HIDE DEF w, u, Temps
    <2>5. Within(chain, u, {}, whitelist)
        BY <2>2, <2>4, InvParts, WithinElse
    <2>6. Fits(Idle, u, u, chain, whitelist)
        BY <2>5, FitsIdle
    <2> QED
        BY <1>2, <2>1, <2>6, Onward
<1> QED
    BY <1>1, <1>3, <1>4

LEMMA RequestFits ==
    ASSUME IInv, ListInv, LinkInv, OrphanInv, MaxBusy <= 1, {"del", "list"} \cap Failing = {},
           ~BroadcastFails, NEW c \in Clients, RequestStep(c)
    PROVE  OrphanInv'
<1>1. CASE \/ RequestCommit(c) \/ CreateFlush(c) \/ CreateApply(c)
           \/ UpdateLoad(c) \/ UpdateUnhook(c) \/ UpdateFlush(c) \/ UpdateApply(c)
           \/ DeleteLoad(c) \/ DeleteUnhook(c) \/ DeleteFlush(c)
    BY <1>1, CommitFits, CreateFits, LoadFits, UnhookFits, ApplyFits, UpdateFits, DeleteFits
<1>2. CASE \/ BlockCheck(c) \/ BlockInsert(c) \/ BlockApply(c) \/ Announce(c)
           \/ ResetLoad(c) \/ ResetUnhook(c) \/ ResetPurge(c)
    BY <1>2, BlockFits, ApplyFits, AnnounceFits, ResetFits
<1>3. CASE \/ UnblockSelect(c) \/ UnblockLoad(c) \/ UnblockList(c) \/ UnblockLine(c)
           \/ UnblockLinesDone(c) \/ UnblockCommit(c)
    BY <1>3, UnblockStartFits, UnblockLinesFit, UnblockCommitFits
<1> QED
    BY <1>1, <1>2, <1>3 DEF RequestStep

(* Startup, time, and the next-state relation. *)

LEMMA StartingUp ==
    ASSUME IInv, ListInv, OrphanInv, phase # "running"
    PROVE  /\ Alone("startup") /\ tx.data = db /\ ses["startup"] \in Session
           /\ ses["startup"].pc = "idle"
           /\ phase # "down" => Fits(ses["startup"], db, db, chain, whitelist)
<1>1. Alone("startup") /\ tx.data = db
    BY Names DEF ListInv, OneAtATime, TxOK
<1>2. ses["startup"] \in Session
    BY Names, InvParts, SessionFields
<1>3. ses["startup"].pc = "idle"
    BY IdleType, IdleFields DEF ListInv, OneAtATime, Session
<1>4. ASSUME phase # "down"
      PROVE  Fits(ses["startup"], db, db, chain, whitelist)
    <2>1. PICK p \in Sessions : Alone(p) /\ Fits(ses[p], db, db, chain, whitelist)
        BY <1>1, <1>4 DEF OrphanInv
    <2>2. ses[p] = ses["startup"]
        BY <1>1, <2>1, Names DEF Alone
    <2> QED
        BY <2>1, <2>2
<1> QED
    BY <1>1, <1>2, <1>3, <1>4

\* Startup's session between its appends: what it holds is still to come.
LEMMA FitsStartup ==
    ASSUME NEW x, x.pc = "idle", NEW t, NEW d, NEW c, NEW wl, Within(c, t, Ids(x.held), wl),
           \A id \in Ids(x.held) : SameRule(x.held[id], t.rules[id]) /\ x.held[id].active
    PROVE  Fits(x, t, d, c, wl)
<1>1. Within(c, t, Out(x, t), wl)
    BY DEF Out
<1>2. Holds(x, t)
    BY DEF Holds
<1>3. Lifts(x, t, d, c)
    BY DEF Lifts, Unblocking
<1> QED
    BY <1>1, <1>2, <1>3 DEF Fits

LEMMA StartFits ==
    ASSUME IInv, ListInv, OrphanInv, "flush" \notin Failing, StartStep
    PROVE  OrphanInv'
<1> DEFINE u == "startup"
           x == ses[u]
<1>0. u \in Sessions
    BY Names
<1>1. CASE StartFlush
    <2>1. /\ phase = "down" /\ phase' = "load" /\ chain' = << >>
          /\ UNCHANGED <<whitelist, db, tx, ses>>
        BY <1>1 DEF StartFlush, Store
    <2>2. x = Idle /\ Alone(u) /\ tx.data = db
        BY <2>1, StartingUp DEF OrphanInv
    <2>3. Within(chain', db, {}, whitelist)
        BY <2>1 DEF Within
    <2>4. Fits(Idle, db, db, chain', whitelist)
        BY <2>3, FitsIdle
    <2>5. Alone(u)'
        BY <2>1, <2>2 DEF Alone
    <2>6. Fits(ses[u], tx.data, db, chain, whitelist)'
        BY <2>1, <2>2, <2>4
    <2> QED
        BY <1>0, <2>1, <2>2, <2>5, <2>6 DEF OrphanInv
<1>2. CASE StartLoad
    <2> DEFINE y == [x EXCEPT !.held = Loaded(db, Active)]
    <2>1. phase = "load" /\ phase' = "apply" /\ UNCHANGED <<whitelist, db, tx, chain>> /\ Move(u, y)
        BY <1>2 DEF StartLoad, Store
    <2>2. chain = << >> /\ x \in Session /\ x.pc = "idle" /\ Alone(u) /\ tx.data = db
        BY <2>1, StartingUp DEF OrphanInv
    <2>3. y.pc = "idle" /\ y.held = Loaded(db, Active)
        BY <2>2 DEF Session
    <2>4. ses'[u] = y /\ \A other \in Sessions : other # u => ses'[other] = ses[other]
        BY <1>0, <2>1, MovesOnly
    <2> HIDE DEF y
    <2>5. \A id \in Ids(y.held) : SameRule(y.held[id], db.rules[id]) /\ y.held[id].active
        <3>1. \A id \in Ids(y.held) :
                  id \in Ids(db.rules) /\ y.held[id] = db.rules[id] /\ db.rules[id].active
            BY <2>3 DEF Loaded, Active, Ids
        <3> QED
            BY <3>1, InvParts, DbRule, SameItself
    <2>6. Within(chain, db, Ids(y.held), whitelist)
        BY <2>2 DEF Within
    <2>7. Fits(y, db, db, chain, whitelist)
        BY <2>3, <2>5, <2>6, FitsStartup
    <2>8. Alone(u)'
        BY <2>2, <2>4 DEF Alone
    <2>9. Fits(ses[u], tx.data, db, chain, whitelist)'
        BY <2>1, <2>2, <2>4, <2>7
    <2> QED
        BY <1>0, <2>1, <2>8, <2>9 DEF OrphanInv
<1>3. CASE StartApply
    <2>1. phase = "apply" /\ phase' = "apply" /\ UNCHANGED <<whitelist, db, tx>>
        BY <1>3 DEF StartApply, Process, Store
    <2>2. PICK id \in Ids(x.held) : AddRule(x.held[id]) /\ Move(u, [x EXCEPT !.held[id] = None])
        BY <1>3 DEF StartApply
    <2> DEFINE y == [x EXCEPT !.held[id] = None]
    <2>3. /\ x \in Session /\ x.pc = "idle" /\ Alone(u) /\ tx.data = db
          /\ Fits(x, db, db, chain, whitelist)
        BY <2>1, StartingUp
    <2>4. y.pc = "idle" /\ y.held = [x.held EXCEPT ![id] = None]
        BY <2>3 DEF Session
    <2>5. ses'[u] = y /\ \A other \in Sessions : other # u => ses'[other] = ses[other]
        BY <1>0, <2>2, MovesOnly
    <2> HIDE DEF y
    <2>6. x.held \in [RowIds -> Rule \cup {None}]
        BY <2>3 DEF Session
    <2>7. /\ Ids(y.held) = Ids(x.held) \ {id}
          /\ \A i \in Ids(y.held) : y.held[i] = x.held[i]
        BY <2>4, <2>6 DEF Ids
    <2>8. /\ \A i \in Ids(x.held) : SameRule(x.held[i], db.rules[i]) /\ x.held[i].active
          /\ Within(chain, db, Ids(x.held), whitelist)
        BY <2>3 DEF Fits, Holds, Out
    <2>9. id \in RowIds /\ x.held[id] \in Rule /\ db.rules[id] \in Rule
        BY <1>0, <2>2, <2>8, InvParts, HeldType, TablesFields DEF SameRule
    <2>10. Within(chain', db, Ids(x.held) \ {id}, whitelist)
        BY <2>2, <2>8, <2>9, AddFits
    <2>11. Fits(y, db, db, chain', whitelist)
        BY <2>4, <2>7, <2>8, <2>10, FitsStartup
    <2>12. Alone(u)'
        BY <2>3, <2>5 DEF Alone
    <2>13. Fits(ses[u], tx.data, db, chain, whitelist)'
        BY <2>1, <2>3, <2>5, <2>11
    <2> QED
        BY <1>0, <2>1, <2>12, <2>13 DEF OrphanInv
<1>4. CASE StartServing
    <2>1. phase = "apply" /\ phase' = "running" /\ UNCHANGED <<whitelist, db, tx, chain, ses>>
        BY <1>4 DEF StartServing, Store
    <2>2. Alone(u) /\ tx.data = db /\ Fits(x, db, db, chain, whitelist)
        BY <2>1, StartingUp
    <2>3. Alone(u)'
        BY <2>1, <2>2 DEF Alone
    <2>4. Fits(ses[u], tx.data, db, chain, whitelist)'
        BY <2>1, <2>2
    <2> QED
        BY <1>0, <2>1, <2>3, <2>4 DEF OrphanInv
<1> QED
    BY <1>1, <1>2, <1>3, <1>4 DEF StartStep

\* An expiry time that passes is no concern of the chain.
LEMMA TimeFits ==
    ASSUME IInv, ListInv, OrphanInv, TimePasses
    PROVE  OrphanInv'
<1>1. /\ \A id \in RowIds :
             /\ db'.rules[id] = None <=> db.rules[id] = None
             /\ db.rules[id] # None => SameRule(db.rules[id], db'.rules[id])
      /\ tx'.data = db' /\ tx.owner = None /\ UNCHANGED <<phase, whitelist, chain, ses>>
    BY TimeKeepsRules
<1>2. tx.data = db
    BY <1>1, Names DEF ListInv, TxOK
<1>3. SUFFICES ASSUME phase # "down"
               PROVE  \E s \in Sessions : Alone(s)' /\ Fits(ses[s], tx.data, db, chain, whitelist)'
    BY <1>1 DEF OrphanInv
<1>4. PICK s \in Sessions : Alone(s) /\ Fits(ses[s], db, db, chain, whitelist)
    BY <1>2, <1>3 DEF OrphanInv
<1>5. Alone(s)'
    BY <1>1, <1>4 DEF Alone
<1>6. PICK x, u : x = ses[s] /\ u = db'
    OBVIOUS
<1>7. /\ x \in Session /\ chain \in Seq(Entries)
      /\ \A id \in Ids(x.held) : id \in RowIds
    BY <1>6, InvParts, SessionFields DEF Ids
<1>8. /\ \A id \in RowIds : u.rules[id] = None <=> db.rules[id] = None
      /\ \A id \in RowIds : db.rules[id] # None => SameRule(db.rules[id], u.rules[id])
    BY <1>1, <1>6
<1>9. Within(chain, db, Out(x, db), whitelist) /\ Holds(x, db) /\ Lifts(x, db, db, chain)
    BY <1>4, <1>6 DEF Fits
<1>10. Out(x, u) = Out(x, db)
    BY <1>8 DEF Out, Ids, SameRule
<1>11. Within(chain, u, Out(x, u), whitelist)
    <2>1. \A e : CountOf(chain, e) <= CountOf(chain, e)
        BY <1>7, CountType
    <2>2. \A id \in RowIds : Calls(db, id, whitelist) =>
              Calls(u, id, whitelist) /\ SpecOf(u.rules[id]) = SpecOf(db.rules[id])
        BY <1>8 DEF Calls, SameRule, SpecOf
    <2> QED
        BY <1>7, <1>9, <1>10, <2>1, <2>2, WithinMore
<1>12. Holds(x, u)
    <2>1. ASSUME NEW id \in Ids(x.held), SameRule(x.held[id], db.rules[id])
          PROVE  SameRule(x.held[id], u.rules[id])
        BY <1>7, <1>8, <2>1, SameVia DEF SameRule
    <2> QED
        BY <1>9, <2>1 DEF Holds
<1>13. Lifts(x, u, u, chain)
    BY <1>8, <1>9 DEF Lifts, SameRule
<1>14. Fits(x, u, u, chain, whitelist)
    BY <1>11, <1>12, <1>13 DEF Fits
<1>15. Fits(ses[s], tx.data, db, chain, whitelist)'
    BY <1>1, <1>6, <1>14
<1> QED
    BY <1>5, <1>15

LEMMA NextFits ==
    ASSUME IInv, ListInv, LinkInv, OrphanInv, [Next]_vars,
           MaxBusy <= 1, {"del", "list", "flush"} \cap Failing = {}, ~BroadcastFails
    PROVE  OrphanInv'
<1>1. CASE PipelineStep
    BY <1>1, EngineFits
<1>2. CASE ExpiryStep
    BY <1>2, JobFits
<1>3. CASE \E c \in Clients : RequestStep(c)
    BY <1>3, RequestFits
<1>4. CASE \E s \in Sessions : LockTimeout(s)
    BY <1>4, NoTimeout
<1>5. CASE StartStep
    BY <1>5, StartFits
<1>6. CASE TimePasses
    BY <1>6, TimeFits
<1>7. CASE Crash
    <2>1. phase' = "down" /\ ses'["startup"] = Idle
        BY <1>7, Names DEF Crash
    <2> QED
        BY <2>1 DEF OrphanInv
<1>8. CASE UNCHANGED vars
    <2>1. UNCHANGED <<phase, whitelist, db, tx, chain, ses>>
        BY <1>8 DEF vars
    <2> QED
        BY <2>1 DEF OrphanInv, Alone
<1> QED
    BY <1>1, <1>2, <1>3, <1>4, <1>5, <1>6, <1>7, <1>8 DEF Next

\* With everybody idle nothing is out and nothing is uncommitted.
LEMMA IdleFits ==
    ASSUME IInv, ListInv, OrphanInv
    PROVE  NoOrphanEntries
<1> SUFFICES ASSUME phase = "running", AllIdle, NEW n \in DOMAIN chain
             PROVE  CountOf(chain, chain[n]) <= Wanted(chain[n])
    BY DEF NoOrphanEntries
<1>1. \A s \in Sessions : ses[s] = Idle
    BY DEF AllIdle, Busy
<1>2. tx.data = db
    <2>1. tx.owner \in Sessions \cup {None}
        BY DEF IInv, TypeOK, Transactions
    <2>2. tx.owner = None
        BY <1>1, <2>1, IdleFields DEF ListInv, TxOK, Writing
    <2> QED
        BY <2>2, Names DEF ListInv, TxOK
<1>3. Within(chain, db, Out(Idle, db), whitelist)
    BY <1>1, <1>2 DEF OrphanInv, Fits
<1>4. Out(Idle, db) = {}
    BY IdleFields DEF Out
<1>5. CountOf(chain, chain[n]) <= Cardinality(Callers(db, {}, whitelist, chain[n]))
    BY <1>3, <1>4 DEF Within
<1>6. Callers(db, {}, whitelist, chain[n]) = {id \in Enforceable : SpecOf(db.rules[id]) = chain[n]}
    BY DEF Callers, Calls, Enforceable, Ids
<1> QED
    BY <1>5, <1>6 DEF Wanted

\* Between operations the chain holds no entry that no active rule accounts
\* for, for any number of rules, clients and addresses and whatever crashes and
\* restarts there are, when operations do not overlap and no deletion, listing,
\* flush or broadcast fails.  Failed appends do no harm.
THEOREM NoOrphans ==
    /\ MaxBusy <= 1 /\ TempKept
    /\ {"del", "list", "flush"} \cap Failing = {} /\ ~BroadcastFails
    => (Spec => []NoOrphanEntries)
<1> SUFFICES ASSUME MaxBusy <= 1, TempKept,
                    {"del", "list", "flush"} \cap Failing = {}, ~BroadcastFails
             PROVE  Spec => []NoOrphanEntries
    OBVIOUS
<1>1. Init => ListInv /\ LinkInv /\ OrphanInv
    <2>1. Init => OrphanInv
        BY Names DEF Init, OrphanInv
    <2> QED
        BY <2>1, InitLists
<1>2. IInv /\ LinkInv /\ [Next]_vars => LinkInv'
    BY NextLinks
<1>3. IInv /\ IInv' /\ LinkInv /\ ListInv /\ [Next]_vars => ListInv'
    BY StepMaps
<1>4. IInv /\ LinkInv /\ ListInv /\ OrphanInv /\ [Next]_vars => OrphanInv'
    BY NextFits
<1>5. IInv /\ ListInv /\ OrphanInv => NoOrphanEntries
    BY IdleFits
<1> QED
    BY <1>1, <1>2, <1>3, <1>4, <1>5, Inductive, PTL DEF Spec
==============================================================================
