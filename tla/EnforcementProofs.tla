-------------------------- MODULE EnforcementProofs --------------------------
(***************************************************************************)
(* Type correctness of the enforcement handlers, and that the chain never  *)
(* holds an entry for a whitelisted address.                               *)
(***************************************************************************)
EXTENDS Enforcement, FirewallChainProofs

(* The store. *)

LEMMA IdsHold ==
    ASSUME NEW X, None \notin X, NEW table \in [RowIds -> X \cup {None}],
           NEW id \in Ids(table)
    PROVE  id \in RowIds /\ table[id] \in X
BY DEF Ids

LEMMA TablesFields ==
    ASSUME NEW t \in Tables
    PROVE  /\ t.rules \in [RowIds -> Rule \cup {None}]
           /\ t.blocked \in [RowIds -> BlockedIP \cup {None}]
BY DEF Tables

LEMMA TablesOf ==
    ASSUME NEW rs \in [RowIds -> Rule \cup {None}],
           NEW bs \in [RowIds -> BlockedIP \cup {None}]
    PROVE  [rules |-> rs, blocked |-> bs] \in Tables
BY DEF Tables

LEMMA WithoutType ==
    ASSUME NEW t \in Tables, NEW ids
    PROVE  WithoutRules(t, ids) \in Tables /\ WithoutBlocked(t, ids) \in Tables
<1>1. WithoutRules(t, ids) \in Tables
    BY TablesFields DEF WithoutRules, Tables
<1>2. WithoutBlocked(t, ids) \in Tables
    BY TablesFields DEF WithoutBlocked, Tables
<1> QED
    BY <1>1, <1>2

LEMMA RulePut ==
    ASSUME NEW t \in Tables, NEW id \in RowIds, NEW r \in Rule
    PROVE  [t EXCEPT !.rules[id] = r] \in Tables
BY TablesFields DEF Tables

LEMMA NoTablesType == NoTables \in Tables
BY DEF NoTables, NoRules, Tables

StoreOK == db \in Tables /\ tx \in Transactions

LEMMA ViewType ==
    ASSUME StoreOK, NEW s
    PROVE  View(s) \in Tables
BY DEF StoreOK, View, Transactions

LEMMA WriteType ==
    ASSUME StoreOK, NEW s \in Sessions, NEW t \in Tables, Write(s, t)
    PROVE  StoreOK'
BY DEF StoreOK, Write, Transactions

LEMMA CommitType ==
    ASSUME NEW t \in Tables, Commit(t)
    PROVE  StoreOK'
BY DEF StoreOK, Commit, Transactions

LEMMA RollbackType ==
    ASSUME StoreOK, NEW s, Rollback(s)
    PROVE  StoreOK'
BY DEF StoreOK, Rollback, Transactions

LEMMA StoreUnchanged ==
    ASSUME StoreOK, UNCHANGED Store
    PROVE  StoreOK'
BY DEF StoreOK, Store

(* The sessions. *)

SesOK == ses \in [Sessions -> Session]

LEMMA SessionFields ==
    ASSUME SesOK, NEW s \in Sessions
    PROVE  ses[s] \in Session
BY DEF SesOK

LEMMA SesPut ==
    ASSUME SesOK, NEW s \in Sessions, NEW new \in Session, Move(s, new)
    PROVE  SesOK'
BY DEF SesOK, Move

LEMMA IdleType == Idle \in Session
BY DEF Idle, Session, PCs, NoRules

LEMMA FinishType ==
    ASSUME SesOK, NEW s \in Sessions, Finish(s)
    PROVE  SesOK'
BY IdleType, SesPut DEF Finish

LEMMA GoToType ==
    ASSUME SesOK, NEW s \in Sessions, NEW pc \in PCs, GoTo(s, pc)
    PROVE  SesOK'
<1>1. [ses[s] EXCEPT !.pc = pc] \in Session
    BY SessionFields DEF Session
<1> QED
    BY <1>1, SesPut DEF GoTo

LEMMA HeldType ==
    ASSUME SesOK, NEW s \in Sessions
    PROVE  /\ ses[s].held \in [RowIds -> Rule \cup {None}]
           /\ ses[s].rule \in {0} \cup RowIds
           /\ ses[s].row \in {0} \cup RowIds
           /\ ses[s].ip \in IPs \cup {None}
           /\ ses[s].lines \in SUBSET Nat
           /\ \A id \in Ids(ses[s].held) : id \in RowIds /\ ses[s].held[id] \in Rule
<1>1. ses[s] \in Session
    BY DEF SesOK
<1>2. ses[s].held \in [RowIds -> Rule \cup {None}]
    BY <1>1 DEF Session
<1> QED
    BY <1>1, <1>2, IdsHold, NoneAssumption DEF Session

LEMMA OnlyType ==
    ASSUME NEW id \in RowIds, NEW r \in Rule \cup {None}
    PROVE  Only(id, r) \in [RowIds -> Rule \cup {None}]
BY DEF Only, NoRules

LEMMA DbRule ==
    ASSUME NEW t \in Tables, NEW id \in Ids(t.rules)
    PROVE  id \in RowIds /\ t.rules[id] \in Rule
BY TablesFields, IdsHold, NoneAssumption

LEMMA LoadedType ==
    ASSUME NEW t \in Tables
    PROVE  /\ Loaded(t, Expired) \in [RowIds -> Rule \cup {None}]
           /\ Loaded(t, Temporary) \in [RowIds -> Rule \cup {None}]
           /\ Loaded(t, Active) \in [RowIds -> Rule \cup {None}]
BY TablesFields DEF Loaded

LEMMA DbBlocked ==
    ASSUME NEW t \in Tables, NEW b \in Ids(t.blocked)
    PROVE  b \in RowIds /\ t.blocked[b] \in BlockedIP
BY TablesFields, IdsHold, NoneAssumption

(* The rules the handlers build. *)

LEMMA NoPortType == NoPort \in Ports
BY DEF NoPort, Ports

LEMMA AlertFields ==
    ASSUME NEW al \in Alerts
    PROVE  al.ip \in IPs /\ al.svc \in Selectors /\ al.sev \in Severities
<1>1. al \in [ip : IPs, svc : Services, sev : Severities]
    BY EnforcementAssumption
<1>2. Services \subseteq Selectors
    BY ServicesAssumption DEF Selectors
<1> QED
    BY <1>1, <1>2

LEMMA AutoRuleType ==
    ASSUME NEW al \in Alerts
    PROVE  AutoRule(al) \in Rule
<1>1. al.ip \in IPs /\ al.svc \in Selectors
    BY AlertFields
<1>2. (IF al.sev = "high" THEN 50 ELSE 75) \in Priorities
    BY DEF Priorities
<1>3. (IF al.sev = "high" THEN "never" ELSE "later") \in Expiries
    BY DEF Expiries
<1>4. "DROP" \in Actions /\ (al.sev # "high") \in BOOLEAN
    BY DEF Actions
<1> QED
    BY <1>1, <1>2, <1>3, <1>4 DEF AutoRule, Rule

LEMMA ManualRuleType ==
    ASSUME NEW body \in NewRules
    PROVE  ManualRule(body) \in Rule
<1>1. body \in [ip : IPs, svc : Services, act : Actions,
                prio : Priorities, temp : BOOLEAN, ttl : BOOLEAN]
    BY EnforcementAssumption
<1>2. Services \subseteq Selectors
    BY ServicesAssumption DEF Selectors
<1>3. /\ body.ip \in IPs /\ body.svc \in Selectors /\ body.act \in Actions
      /\ body.prio \in Priorities /\ body.temp \in BOOLEAN
    BY <1>1, <1>2
<1>4. (IF body.temp /\ body.ttl THEN "later" ELSE "never") \in Expiries
    BY DEF Expiries
<1> QED
    BY <1>3, <1>4 DEF ManualRule, Rule

LEMMA BlockRuleType ==
    ASSUME NEW body \in Blocks
    PROVE  BlockRule(body) \in Rule
BY EnforcementAssumption, NoPortType
   DEF BlockRule, Rule, Selectors, Protocols, Actions, Priorities, Expiries

LEMMA ChangedType ==
    ASSUME NEW r \in Rule, NEW ch \in Changes
    PROVE  Changed(r, ch) \in Rule
BY EnforcementAssumption DEF Changed, Given, Rule, Expiries

LEMMA MergedType ==
    ASSUME NEW row \in Rule, NEW old \in Rule, NEW new \in Rule
    PROVE  Merged(row, old, new) \in Rule
BY DEF Merged, Rule

LEMMA RuleExp ==
    ASSUME NEW r \in Rule, NEW e \in Expiries
    PROVE  [r EXCEPT !.exp = e] \in Rule
BY DEF Rule

LEMMA RuleActive ==
    ASSUME NEW r \in Rule
    PROVE  [r EXCEPT !.active = FALSE] \in Rule
BY DEF Rule

LEMMA DeactivatedType ==
    ASSUME NEW t \in Tables, NEW id, t.rules[id] # None
    PROVE  [t EXCEPT !.rules[id].active = FALSE] \in Tables
<1>1. t.rules \in [RowIds -> Rule \cup {None}]
    BY TablesFields
<1>2. id \in RowIds => [t.rules[id] EXCEPT !.active = FALSE] \in Rule
    BY <1>1, RuleActive
<1>3. [t.rules EXCEPT ![id] = [t.rules[id] EXCEPT !.active = FALSE]]
        \in [RowIds -> Rule \cup {None}]
    BY <1>1, <1>2
<1> QED
    BY <1>3 DEF Tables

LEMMA SpecOfType ==
    ASSUME NEW r \in Rule
    PROVE  SpecOf(r) \in Entries /\ SpecOf(r).ip = r.ip
<1>1. r.ip \in IPs /\ r.svc \in Selectors /\ r.act \in Actions
    BY DEF Rule
<1>2. [r.svc EXCEPT !.port = NoPort] \in Selectors
    BY <1>1, NoPortType DEF Selectors
<1> QED
    BY <1>1, <1>2 DEF SpecOf, Entries

LEMMA WithBlockType ==
    ASSUME NEW t \in Tables, NEW id \in RowIds, NEW b \in RowIds,
           NEW r \in Rule, NEW perm \in BOOLEAN
    PROVE  WithBlock(t, id, r, b, perm) \in Tables
<1>1. [ip |-> r.ip, perm |-> perm, rule |-> id] \in BlockedIP
    BY DEF BlockedIP, Rule
<1> QED
    BY <1>1, TablesFields DEF WithBlock, Tables

(* The chain: entries for addresses that are not whitelisted. *)

Allowed == {e \in Entries : e.ip \notin whitelist}

LEMMA AddRuleKeeps ==
    ASSUME NEW r \in Rule, AddRule(r)
    PROVE  /\ chain \in Seq(Entries) => chain' \in Seq(Entries)
           /\ chain \in Seq(Allowed) => chain' \in Seq(Allowed)
<1>1. /\ SpecOf(r) \in Entries
      /\ r.ip \notin whitelist => SpecOf(r) \in Allowed
    BY SpecOfType DEF Allowed
<1>2. CASE UNCHANGED chain
    BY <1>2
<1>3. CASE chain' = AddedRule(chain, r, whitelist)
    BY <1>1, <1>3, AddedRuleType
<1> QED
    BY <1>2, <1>3 DEF AddRule

LEMMA RemoveRuleKeeps ==
    ASSUME NEW r, RemoveRule(r)
    PROVE  /\ chain \in Seq(Entries) => chain' \in Seq(Entries)
           /\ chain \in Seq(Allowed) => chain' \in Seq(Allowed)
BY RemovedRuleType DEF RemoveRule

(* The inductive invariant.  That no entry is for a whitelisted address is  *)
(* inductive once it is said of the chain as a sequence over Allowed: what  *)
(* removal does to single positions then need not be followed.              *)

Unlisted == "flush" \notin Failing /\ phase # "down" => chain \in Seq(Allowed)

IInv == TypeOK /\ Unlisted

LEMMA Keeps ==
    ASSUME IInv, StoreOK', SesOK', UNCHANGED Process,
           chain \in Seq(Entries) => chain' \in Seq(Entries),
           chain \in Seq(Allowed) => chain' \in Seq(Allowed)
    PROVE  IInv'
<1>1. Allowed' = Allowed
    BY DEF Allowed, Process
<1>2. TypeOK'
    BY DEF IInv, TypeOK, StoreOK, SesOK, Process
<1>3. Unlisted'
    BY <1>1 DEF IInv, Unlisted, Process
<1> QED
    BY <1>2, <1>3 DEF IInv

LEMMA KeepsChain ==
    ASSUME IInv, StoreOK', SesOK', UNCHANGED <<Process, chain>>
    PROVE  IInv'
BY Keeps

\* A step of startup after the flush: the phase may move on.
LEMMA StaysUp ==
    ASSUME IInv, StoreOK', SesOK', UNCHANGED <<whitelist, chain>>,
           phase # "down", phase' \in {"load", "apply", "running"}
    PROVE  IInv'
<1>1. Allowed' = Allowed
    BY DEF Allowed
<1> QED
    BY <1>1 DEF IInv, TypeOK, StoreOK, SesOK, Unlisted

LEMMA InvParts ==
    ASSUME IInv
    PROVE  StoreOK /\ SesOK /\ chain \in Seq(Entries) /\ db \in Tables
BY DEF IInv, TypeOK, StoreOK, SesOK

LEMMA Owners == {"pipeline", "expiry", "startup"} \subseteq Sessions /\ Clients \subseteq Sessions
BY DEF Sessions

(* One lemma per handler: each of its steps keeps the invariant. *)

LEMMA PipelineKeeps ==
    ASSUME IInv, PipelineStep
    PROVE  IInv'
<1> USE InvParts, Owners
<1>1. CASE AlertFlush
    <2>1. StoreOK'
        BY <1>1, WriteType DEF AlertFlush
    <2>2. SesOK'
        <3>1. "alerted" \in PCs
            BY DEF PCs
        <3> QED
            BY <1>1, <3>1, GoToType DEF AlertFlush
    <2> QED
        BY <1>1, <2>1, <2>2, KeepsChain DEF AlertFlush
<1>2. CASE AlertOnly
    <2>1. StoreOK' /\ SesOK'
        BY <1>2, RollbackType, FinishType DEF AlertOnly
    <2> QED
        BY <1>2, <2>1, KeepsChain DEF AlertOnly
<1>3. CASE AlertBlocks
    <2>1. StoreOK'
        BY <1>3, StoreUnchanged DEF AlertBlocks
    <2>2. PICK al \in Alerts :
            Move("pipeline", [ses["pipeline"] EXCEPT !.pc = "alert_insert",
                                                     !.ip = al.ip])
        BY <1>3 DEF AlertBlocks
    <2>3. [ses["pipeline"] EXCEPT !.pc = "alert_insert", !.ip = al.ip] \in Session
        BY SessionFields, AlertFields DEF Session, PCs
    <2>4. SesOK'
        BY <2>2, <2>3, SesPut
    <2> QED
        BY <1>3, <2>1, <2>4, KeepsChain DEF AlertBlocks
<1>4. CASE AlertInsert
    <2> DEFINE t == View("pipeline")
               ip == ses["pipeline"].ip
    <2>1. t \in Tables
        BY ViewType
    <2>2. CASE BlockedFor(t, ip) # {} \/ Full(t)
        <3>1. Rollback("pipeline") /\ Finish("pipeline")
            BY <1>4, <2>2 DEF AlertInsert
        <3>2. StoreOK' /\ SesOK'
            BY <3>1, RollbackType, FinishType
        <3> QED
            BY <1>4, <3>2, KeepsChain DEF AlertInsert
    <2>3. CASE ~(BlockedFor(t, ip) # {} \/ Full(t))
        <3>1. PICK al \in Alerts, id \in RowIds, b \in RowIds :
                /\ Commit(WithBlock(t, id, AutoRule(al), b, al.sev = "high"))
                /\ Move("pipeline", [ses["pipeline"] EXCEPT
                                         !.pc = "alert_enforce",
                                         !.held = Only(id, AutoRule(al))])
            BY <1>4, <2>3 DEF AlertInsert
        <3>2. AutoRule(al) \in Rule
            BY AutoRuleType
        <3>3. WithBlock(t, id, AutoRule(al), b, al.sev = "high") \in Tables
            BY <2>1, <3>2, WithBlockType
        <3>4. StoreOK'
            BY <3>1, <3>3, CommitType
        <3>5. Only(id, AutoRule(al)) \in [RowIds -> Rule \cup {None}]
            BY <3>2, OnlyType
        <3>6. [ses["pipeline"] EXCEPT !.pc = "alert_enforce",
                                      !.held = Only(id, AutoRule(al))] \in Session
            BY <3>5, SessionFields DEF Session, PCs
        <3>7. SesOK'
            BY <3>1, <3>6, SesPut
        <3> QED
            BY <1>4, <3>4, <3>7, KeepsChain DEF AlertInsert
    <2> QED
        BY <2>2, <2>3
<1>5. CASE AlertEnforce
    <2>1. PICK id \in Ids(ses["pipeline"].held) : AddRule(ses["pipeline"].held[id])
        BY <1>5 DEF AlertEnforce
    <2>2. ses["pipeline"].held[id] \in Rule
        BY HeldType
    <2>3. StoreOK' /\ SesOK'
        BY <1>5, StoreUnchanged, FinishType DEF AlertEnforce
    <2> QED
        BY <1>5, <2>1, <2>2, <2>3, AddRuleKeeps, Keeps DEF AlertEnforce
<1> QED
    BY <1>1, <1>2, <1>3, <1>4, <1>5 DEF PipelineStep

LEMMA ExpiryKeeps ==
    ASSUME IInv, ExpiryStep
    PROVE  IInv'
<1> USE InvParts, Owners
<1>1. CASE ExpirySelect
    <2>1. StoreOK'
        BY <1>1, StoreUnchanged DEF ExpirySelect
    <2>2. Loaded(db, Expired) \in [RowIds -> Rule \cup {None}]
        BY LoadedType
    <2>3. [ses["expiry"] EXCEPT !.pc = "expire", !.held = Loaded(db, Expired)]
            \in Session
        BY <2>2, SessionFields DEF Session, PCs
    <2>4. SesOK'
        BY <1>1, <2>3, SesPut DEF ExpirySelect
    <2> QED
        BY <1>1, <2>1, <2>4, KeepsChain DEF ExpirySelect
<1>2. CASE ExpiryUnhook
    <2>1. PICK id \in Ids(ses["expiry"].held) :
            /\ RemoveRule(ses["expiry"].held[id])
            /\ Move("expiry", [ses["expiry"] EXCEPT !.pc = "expire_mark",
                                                    !.rule = id])
        BY <1>2 DEF ExpiryUnhook
    <2>2. id \in RowIds /\ "expire_mark" \in PCs
        BY HeldType DEF PCs
    <2>3. [ses["expiry"] EXCEPT !.pc = "expire_mark", !.rule = id] \in Session
        BY <2>2, SessionFields DEF Session
    <2>4. SesOK'
        BY <2>1, <2>3, SesPut
    <2>5. StoreOK'
        BY <1>2, StoreUnchanged DEF ExpiryUnhook
    <2> QED
        BY <1>2, <2>1, <2>4, <2>5, RemoveRuleKeeps, Keeps DEF ExpiryUnhook
<1>3. CASE ExpiryMark
    <2> DEFINE t  == View("expiry")
               id == ses["expiry"].rule
               gone == t.rules[id] = None \/ Cardinality(BlockedBy(t, id)) > 1
    <2>1. t \in Tables
        BY ViewType
    <2>2. CASE gone
        <3>1. StoreOK' /\ SesOK'
            BY <1>3, <2>2, RollbackType, FinishType DEF ExpiryMark
        <3> QED
            BY <1>3, <3>1, KeepsChain DEF ExpiryMark
    <2>3. CASE ~gone
        <3> DEFINE w == WithoutBlocked(t, BlockedBy(t, id))
        <3>1. /\ Write("expiry", [w EXCEPT !.rules[id].active = FALSE])
              /\ Move("expiry", [ses["expiry"] EXCEPT !.pc = "expire",
                                                      !.held[id] = None,
                                                      !.rule = 0])
            BY <1>3, <2>3 DEF ExpiryMark
        <3>2. w \in Tables
            BY <2>1, WithoutType
        <3>3. t.rules[id] # None
            BY <2>3
        <3>4. w.rules = t.rules
            BY <2>1 DEF WithoutBlocked, Tables
        <3>5. [w EXCEPT !.rules[id].active = FALSE] \in Tables
            BY <3>2, <3>3, <3>4, DeactivatedType
        <3>6. StoreOK'
            BY <3>1, <3>5, WriteType
        <3>7. "expire" \in PCs
            BY DEF PCs
        <3>8. [ses["expiry"] EXCEPT !.pc = "expire", !.held[id] = None, !.rule = 0]
                \in Session
            BY <3>7, SessionFields DEF Session
        <3>9. SesOK'
            BY <3>1, <3>8, SesPut
        <3> QED
            BY <1>3, <3>6, <3>9, KeepsChain DEF ExpiryMark
    <2> QED
        BY <2>2, <2>3
<1>4. CASE ExpiryCommit
    <2>1. StoreOK' /\ SesOK'
        BY <1>4, ViewType, CommitType, FinishType DEF ExpiryCommit
    <2> QED
        BY <1>4, <2>1, KeepsChain DEF ExpiryCommit
<1> QED
    BY <1>1, <1>2, <1>3, <1>4 DEF ExpiryStep

\* The steps update_rule and delete_rule share: load a rule, take it out.
LEMMA LoadKeeps ==
    ASSUME IInv, NEW c \in Clients, NEW pc \in PCs, NEW operation,
           LoadRule(c, operation, pc)
    PROVE  IInv'
<1> USE InvParts, Owners
<1>1. PICK id \in Ids(db.rules) :
        Move(c, [ses[c] EXCEPT !.pc = pc, !.held = Only(id, db.rules[id])])
    BY DEF LoadRule
<1>2. Only(id, db.rules[id]) \in [RowIds -> Rule \cup {None}]
    BY DbRule, OnlyType
<1>3. [ses[c] EXCEPT !.pc = pc, !.held = Only(id, db.rules[id])] \in Session
    BY <1>2, SessionFields DEF Session
<1>4. StoreOK' /\ SesOK'
    BY <1>1, <1>3, SesPut, StoreUnchanged DEF LoadRule
<1> QED
    BY <1>4, KeepsChain DEF LoadRule

LEMMA UnhookKeeps ==
    ASSUME IInv, NEW c \in Clients, NEW pc, NEW next \in PCs,
           UnhookRule(c, pc, next)
    PROVE  IInv'
<1> USE InvParts, Owners
<1>1. PICK id \in Ids(ses[c].held) : RemoveRule(ses[c].held[id])
    BY DEF UnhookRule
<1>2. StoreOK' /\ SesOK'
    BY GoToType, StoreUnchanged DEF UnhookRule
<1> QED
    BY <1>1, <1>2, RemoveRuleKeeps, Keeps DEF UnhookRule

LEMMA CreateKeeps ==
    ASSUME IInv, NEW c \in Clients, CreateFlush(c) \/ CreateApply(c)
    PROVE  IInv'
<1> USE InvParts, Owners
<1>1. CASE CreateFlush(c)
    <2>1. PICK body \in NewRules, id \in RowIds :
            /\ Write(c, [db EXCEPT !.rules[id] = ManualRule(body)])
            /\ Move(c, [ses[c] EXCEPT !.pc = "create_apply",
                                      !.held = Only(id, ManualRule(body))])
        BY <1>1 DEF CreateFlush
    <2>2. ManualRule(body) \in Rule
        BY ManualRuleType
    <2>3. StoreOK'
        BY <2>1, <2>2, RulePut, WriteType
    <2>4. Only(id, ManualRule(body)) \in [RowIds -> Rule \cup {None}]
        BY <2>2, OnlyType
    <2>5. [ses[c] EXCEPT !.pc = "create_apply", !.held = Only(id, ManualRule(body))]
            \in Session
        BY <2>4, SessionFields DEF Session, PCs
    <2>6. SesOK'
        BY <2>1, <2>5, SesPut
    <2> QED
        BY <1>1, <2>3, <2>6, KeepsChain DEF CreateFlush
<1>2. CASE CreateApply(c)
    <2>1. PICK id \in Ids(ses[c].held) : AddRule(ses[c].held[id])
        BY <1>2 DEF CreateApply
    <2>2. ses[c].held[id] \in Rule /\ "commit" \in PCs
        BY HeldType DEF PCs
    <2>3. StoreOK' /\ SesOK'
        BY <1>2, <2>2, StoreUnchanged, GoToType DEF CreateApply
    <2> QED
        BY <1>2, <2>1, <2>2, <2>3, AddRuleKeeps, Keeps DEF CreateApply
<1> QED
    BY <1>1, <1>2

LEMMA UpdateKeeps ==
    ASSUME IInv, NEW c \in Clients,
           UpdateLoad(c) \/ UpdateUnhook(c) \/ UpdateFlush(c) \/ UpdateApply(c)
    PROVE  IInv'
<1> USE InvParts, Owners
<1>1. CASE UpdateLoad(c)
    BY <1>1, LoadKeeps DEF UpdateLoad, PCs
<1>2. CASE UpdateUnhook(c)
    BY <1>2, UnhookKeeps DEF UpdateUnhook, PCs
<1>3. CASE UpdateFlush(c)
    <2> DEFINE t == View(c)
    <2>1. PICK ch \in Changes, id \in Ids(ses[c].held) :
            LET old == ses[c].held[id]
                new == Changed(old, ch)
            IN  \/ GoTo(c, "update_apply") /\ UNCHANGED Store
                \/ IF t.rules[id] = None
                   THEN Rollback(c) /\ Finish(c)
                   ELSE /\ Write(c, [t EXCEPT !.rules[id] =
                              [Merged(t.rules[id], old, new) EXCEPT
                                 !.exp = IF ch.ttl THEN "later" ELSE @]])
                        /\ Move(c, [ses[c] EXCEPT !.pc = "update_apply",
                                                  !.held[id] = new])
        BY <1>3 DEF UpdateFlush
    <2> DEFINE old == ses[c].held[id]
               new == Changed(old, ch)
               put == [Merged(t.rules[id], old, new) EXCEPT
                          !.exp = IF ch.ttl THEN "later" ELSE @]
    <2>2. id \in RowIds /\ old \in Rule /\ t \in Tables /\ "update_apply" \in PCs
        BY HeldType, ViewType DEF PCs
    <2>3. new \in Rule
        BY <2>2, ChangedType
    <2>4. CASE GoTo(c, "update_apply") /\ UNCHANGED Store
        <3>1. StoreOK' /\ SesOK'
            BY <2>2, <2>4, GoToType, StoreUnchanged
        <3> QED
            BY <1>3, <3>1, KeepsChain DEF UpdateFlush
    <2>5. CASE Rollback(c) /\ Finish(c)
        <3>1. StoreOK' /\ SesOK'
            BY <2>5, RollbackType, FinishType
        <3> QED
            BY <1>3, <3>1, KeepsChain DEF UpdateFlush
    <2>6. CASE /\ t.rules[id] # None
               /\ Write(c, [t EXCEPT !.rules[id] = put])
               /\ Move(c, [ses[c] EXCEPT !.pc = "update_apply", !.held[id] = new])
        <3>1. t.rules[id] \in Rule
            BY <2>2, <2>6, TablesFields
        <3>2. Merged(t.rules[id], old, new) \in Rule
            BY <2>2, <2>3, <3>1, MergedType
        <3>3. (IF ch.ttl THEN "later" ELSE Merged(t.rules[id], old, new).exp) \in Expiries
            BY <3>2 DEF Rule, Expiries
        <3>4. put \in Rule
            BY <3>2, <3>3, RuleExp
        <3>5. StoreOK'
            BY <2>2, <2>6, <3>4, RulePut, WriteType
        <3>6. [ses[c] EXCEPT !.pc = "update_apply", !.held[id] = new] \in Session
            BY <2>2, <2>3, SessionFields DEF Session
        <3>7. SesOK'
            BY <2>6, <3>6, SesPut
        <3> QED
            BY <1>3, <3>5, <3>7, KeepsChain DEF UpdateFlush
    <2> QED
        BY <2>1, <2>4, <2>5, <2>6
<1>4. CASE UpdateApply(c)
    <2>1. PICK id \in Ids(ses[c].held) :
            IF ses[c].held[id].active THEN AddRule(ses[c].held[id]) ELSE UNCHANGED chain
        BY <1>4 DEF UpdateApply
    <2>2. ses[c].held[id] \in Rule /\ "commit" \in PCs
        BY HeldType DEF PCs
    <2>3. StoreOK' /\ SesOK'
        BY <1>4, <2>2, StoreUnchanged, GoToType DEF UpdateApply
    <2>4. /\ chain \in Seq(Entries) => chain' \in Seq(Entries)
          /\ chain \in Seq(Allowed) => chain' \in Seq(Allowed)
        BY <2>1, <2>2, AddRuleKeeps
    <2> QED
        BY <1>4, <2>3, <2>4, Keeps DEF UpdateApply
<1> QED
    BY <1>1, <1>2, <1>3, <1>4

LEMMA DeleteKeeps ==
    ASSUME IInv, NEW c \in Clients,
           DeleteLoad(c) \/ DeleteUnhook(c) \/ DeleteFlush(c)
    PROVE  IInv'
<1> USE InvParts, Owners
<1>1. CASE DeleteLoad(c)
    BY <1>1, LoadKeeps DEF DeleteLoad, PCs
<1>2. CASE DeleteUnhook(c)
    BY <1>2, UnhookKeeps DEF DeleteUnhook, PCs
<1>3. CASE DeleteFlush(c)
    <2> DEFINE t == View(c)
    <2>1. PICK id \in Ids(ses[c].held) :
            Write(c, WithoutRules(WithoutBlocked(t, BlockedBy(t, id)), {id}))
        BY <1>3 DEF DeleteFlush
    <2>2. WithoutRules(WithoutBlocked(t, BlockedBy(t, id)), {id}) \in Tables
        BY ViewType, WithoutType
    <2>3. StoreOK'
        BY <2>1, <2>2, WriteType
    <2>4. SesOK'
        BY <1>3, GoToType DEF DeleteFlush, PCs
    <2> QED
        BY <1>3, <2>3, <2>4, KeepsChain DEF DeleteFlush
<1> QED
    BY <1>1, <1>2, <1>3

LEMMA BlockKeeps ==
    ASSUME IInv, NEW c \in Clients,
           BlockCheck(c) \/ BlockInsert(c) \/ BlockApply(c) \/ Announce(c)
    PROVE  IInv'
<1> USE InvParts, Owners
<1>1. CASE BlockCheck(c)
    <2>1. PICK body \in Blocks :
            Move(c, [ses[c] EXCEPT !.pc = "block_insert", !.ip = body.ip])
        BY <1>1 DEF BlockCheck
    <2>2. body.ip \in IPs
        BY EnforcementAssumption
    <2>3. [ses[c] EXCEPT !.pc = "block_insert", !.ip = body.ip] \in Session
        BY <2>2, SessionFields DEF Session, PCs
    <2>4. StoreOK' /\ SesOK'
        BY <1>1, <2>1, <2>3, SesPut, StoreUnchanged DEF BlockCheck
    <2> QED
        BY <1>1, <2>4, KeepsChain DEF BlockCheck
<1>2. CASE BlockInsert(c)
    <2> DEFINE t == View(c)
               ip == ses[c].ip
    <2>1. CASE BlockedFor(t, ip) # {} \/ Full(t)
        <3>1. StoreOK' /\ SesOK'
            BY <1>2, <2>1, RollbackType, FinishType DEF BlockInsert
        <3> QED
            BY <1>2, <3>1, KeepsChain DEF BlockInsert
    <2>2. CASE ~(BlockedFor(t, ip) # {} \/ Full(t))
        <3>1. PICK body \in Blocks, id \in RowIds, b \in RowIds :
                /\ Write(c, WithBlock(t, id, BlockRule(body), b, body.perm))
                /\ Move(c, [ses[c] EXCEPT !.pc = "block_apply",
                                          !.held = Only(id, BlockRule(body))])
            BY <1>2, <2>2 DEF BlockInsert
        <3>2. BlockRule(body) \in Rule /\ body.perm \in BOOLEAN /\ t \in Tables
            BY BlockRuleType, EnforcementAssumption, ViewType
        <3>3. StoreOK'
            BY <3>1, <3>2, WithBlockType, WriteType
        <3>4. Only(id, BlockRule(body)) \in [RowIds -> Rule \cup {None}]
            BY <3>2, OnlyType
        <3>5. [ses[c] EXCEPT !.pc = "block_apply", !.held = Only(id, BlockRule(body))]
                \in Session
            BY <3>4, SessionFields DEF Session, PCs
        <3>6. SesOK'
            BY <3>1, <3>5, SesPut
        <3> QED
            BY <1>2, <3>3, <3>6, KeepsChain DEF BlockInsert
    <2> QED
        BY <2>1, <2>2
<1>3. CASE BlockApply(c)
    <2>1. PICK id \in Ids(ses[c].held) : AddRule(ses[c].held[id])
        BY <1>3 DEF BlockApply
    <2>2. ses[c].held[id] \in Rule /\ "announce" \in PCs
        BY HeldType DEF PCs
    <2>3. StoreOK' /\ SesOK'
        BY <1>3, <2>2, StoreUnchanged, GoToType DEF BlockApply
    <2> QED
        BY <1>3, <2>1, <2>2, <2>3, AddRuleKeeps, Keeps DEF BlockApply
<1>4. CASE Announce(c)
    <2>1. (IF ses[c].row = 0 THEN "commit" ELSE "unblock_commit") \in PCs
        BY DEF PCs
    <2>2. CASE GoTo(c, IF ses[c].row = 0 THEN "commit" ELSE "unblock_commit")
                 /\ UNCHANGED Store
        <3>1. StoreOK' /\ SesOK'
            BY <2>1, <2>2, GoToType, StoreUnchanged
        <3> QED
            BY <1>4, <3>1, KeepsChain DEF Announce
    <2>3. CASE Rollback(c) /\ Finish(c)
        <3>1. StoreOK' /\ SesOK'
            BY <2>3, RollbackType, FinishType
        <3> QED
            BY <1>4, <3>1, KeepsChain DEF Announce
    <2> QED
        BY <1>4, <2>2, <2>3 DEF Announce
<1> QED
    BY <1>1, <1>2, <1>3, <1>4

LEMMA UnblockKeeps ==
    ASSUME IInv, NEW c \in Clients,
           \/ UnblockSelect(c) \/ UnblockLoad(c) \/ UnblockList(c)
           \/ UnblockLine(c) \/ UnblockLinesDone(c) \/ UnblockCommit(c)
    PROVE  IInv'
<1> USE InvParts, Owners
<1>1. CASE UnblockSelect(c)
    <2>1. PICK b \in Ids(db.blocked) :
            Move(c, [ses[c] EXCEPT !.pc = "unblock_load", !.row = b,
                                   !.ip = db.blocked[b].ip,
                                   !.rule = db.blocked[b].rule])
        BY <1>1 DEF UnblockSelect
    <2>2. b \in RowIds /\ db.blocked[b].ip \in IPs /\ db.blocked[b].rule \in RowIds
        BY DbBlocked DEF BlockedIP
    <2>3. [ses[c] EXCEPT !.pc = "unblock_load", !.row = b,
                         !.ip = db.blocked[b].ip,
                         !.rule = db.blocked[b].rule] \in Session
        BY <2>2, SessionFields DEF Session, PCs
    <2>4. StoreOK' /\ SesOK'
        BY <1>1, <2>1, <2>3, SesPut, StoreUnchanged DEF UnblockSelect
    <2> QED
        BY <1>1, <2>4, KeepsChain DEF UnblockSelect
<1>2. CASE UnblockLoad(c)
    <2> DEFINE id == ses[c].rule
    <2>1. Only(id, db.rules[id]) \in [RowIds -> Rule \cup {None}]
        BY TablesFields DEF Only, NoRules
    <2>2. [ses[c] EXCEPT !.pc = "unblock_list", !.held = Only(id, db.rules[id])]
            \in Session
        BY <2>1, SessionFields DEF Session, PCs
    <2>3. StoreOK' /\ SesOK'
        BY <1>2, <2>2, SesPut, StoreUnchanged DEF UnblockLoad
    <2> QED
        BY <1>2, <2>3, KeepsChain DEF UnblockLoad
<1>3. CASE UnblockList(c)
    <2>1. LinesFor(chain, ses[c].ip) \in SUBSET Nat /\ "unblock_lines" \in PCs
        BY DEF LinesFor, PCs
    <2>2. [ses[c] EXCEPT !.pc = "unblock_lines", !.lines = LinesFor(chain, ses[c].ip)]
            \in Session
        BY <2>1, SessionFields DEF Session
    <2>3. StoreOK' /\ SesOK'
        BY <1>3, <2>1, <2>2, SesPut, GoToType, StoreUnchanged DEF UnblockList
    <2> QED
        BY <1>3, <2>3, KeepsChain DEF UnblockList
<1>4. CASE UnblockLine(c)
    <2>1. PICK n \in ses[c].lines :
            /\ chain' = RemovedLine(chain, n) \/ UNCHANGED chain
            /\ Move(c, [ses[c] EXCEPT !.lines = @ \ {n}])
        BY <1>4 DEF UnblockLine
    <2>2. [ses[c] EXCEPT !.lines = @ \ {n}] \in Session
        BY SessionFields DEF Session
    <2>3. StoreOK' /\ SesOK'
        BY <1>4, <2>1, <2>2, SesPut, StoreUnchanged DEF UnblockLine
    <2>4. /\ chain \in Seq(Entries) => chain' \in Seq(Entries)
          /\ chain \in Seq(Allowed) => chain' \in Seq(Allowed)
        BY <2>1, RemovedLineType
    <2> QED
        BY <1>4, <2>3, <2>4, Keeps DEF UnblockLine
<1>5. CASE UnblockLinesDone(c)
    <2>1. StoreOK' /\ SesOK'
        BY <1>5, GoToType, StoreUnchanged DEF UnblockLinesDone, PCs
    <2> QED
        BY <1>5, <2>1, KeepsChain DEF UnblockLinesDone
<1>6. CASE UnblockCommit(c)
    <2> DEFINE dirty == {id \in Ids(ses[c].held) : ses[c].held[id].active}
               t     == WithoutBlocked(db, {ses[c].row})
               marked == [id \in RowIds |->
                             IF id \in dirty THEN [t.rules[id] EXCEPT !.active = FALSE]
                                             ELSE t.rules[id]]
    <2>1. SesOK'
        BY <1>6, FinishType DEF UnblockCommit
    <2>2. CASE \E id \in dirty : db.rules[id] = None
        <3>1. StoreOK'
            BY <1>6, <2>2, RollbackType DEF UnblockCommit
        <3> QED
            BY <1>6, <2>1, <3>1, KeepsChain DEF UnblockCommit
    <2>3. CASE ~ \E id \in dirty : db.rules[id] = None
        <3>1. t \in Tables /\ t.rules = db.rules
            BY WithoutType DEF WithoutBlocked, Tables
        <3>2. \A id \in RowIds : t.rules[id] \in Rule \cup {None}
            BY <3>1, TablesFields
        <3>3. \A id \in RowIds : id \in dirty => [t.rules[id] EXCEPT !.active = FALSE] \in Rule
            BY <2>3, <3>1, <3>2, RuleActive
        <3>4. marked \in [RowIds -> Rule \cup {None}]
            BY <3>2, <3>3
        <3>5. [t EXCEPT !.rules = marked] \in Tables
            BY <3>1, <3>4 DEF Tables
        <3>6. Commit([t EXCEPT !.rules = marked])
            BY <1>6, <2>3 DEF UnblockCommit
        <3>7. StoreOK'
            BY <3>5, <3>6, CommitType
        <3> QED
            BY <1>6, <2>1, <3>7, KeepsChain DEF UnblockCommit
    <2> QED
        BY <2>2, <2>3
<1> QED
    BY <1>1, <1>2, <1>3, <1>4, <1>5, <1>6

LEMMA ResetKeeps ==
    ASSUME IInv, NEW c \in Clients, ResetLoad(c) \/ ResetUnhook(c) \/ ResetPurge(c)
    PROVE  IInv'
<1> USE InvParts, Owners
<1>1. CASE ResetLoad(c)
    <2>1. Loaded(db, Temporary) \in [RowIds -> Rule \cup {None}]
        BY LoadedType
    <2>2. [ses[c] EXCEPT !.pc = "reset", !.held = Loaded(db, Temporary)] \in Session
        BY <2>1, SessionFields DEF Session, PCs
    <2>3. StoreOK' /\ SesOK'
        BY <1>1, <2>2, SesPut, StoreUnchanged DEF ResetLoad
    <2> QED
        BY <1>1, <2>3, KeepsChain DEF ResetLoad
<1>2. CASE ResetUnhook(c)
    <2>1. PICK id \in Ids(ses[c].held) :
            /\ RemoveRule(ses[c].held[id])
            /\ Move(c, [ses[c] EXCEPT !.held[id] = None])
        BY <1>2 DEF ResetUnhook
    <2>2. [ses[c] EXCEPT !.held[id] = None] \in Session
        BY SessionFields DEF Session
    <2>3. StoreOK' /\ SesOK'
        BY <1>2, <2>1, <2>2, SesPut, StoreUnchanged DEF ResetUnhook
    <2> QED
        BY <1>2, <2>1, <2>3, RemoveRuleKeeps, Keeps DEF ResetUnhook
<1>3. CASE ResetPurge(c)
    <2>1. PICK passing, temps : Commit(WithoutRules(WithoutBlocked(db, passing), temps))
        BY <1>3 DEF ResetPurge
    <2>2. StoreOK' /\ SesOK'
        BY <1>3, <2>1, WithoutType, CommitType, FinishType DEF ResetPurge
    <2> QED
        BY <1>3, <2>2, KeepsChain DEF ResetPurge
<1> QED
    BY <1>1, <1>2, <1>3

LEMMA RequestKeeps ==
    ASSUME IInv, NEW c \in Clients, RequestStep(c)
    PROVE  IInv'
<1>1. CASE RequestCommit(c)
    <2>1. StoreOK'
        BY <1>1, InvParts, CommitType, StoreUnchanged
           DEF RequestCommit, StoreOK, Transactions
    <2>2. SesOK'
        BY <1>1, InvParts, Owners, FinishType DEF RequestCommit
    <2> QED
        BY <1>1, <2>1, <2>2, KeepsChain DEF RequestCommit
<1> QED
    BY <1>1, CreateKeeps, UpdateKeeps, DeleteKeeps, BlockKeeps, UnblockKeeps,
       ResetKeeps DEF RequestStep

LEMMA StartKeeps ==
    ASSUME IInv, StartStep
    PROVE  IInv'
<1> USE InvParts, Owners
<1>1. CASE StartFlush
    <2>1. StoreOK' /\ SesOK'
        BY <1>1, StoreUnchanged DEF StartFlush, SesOK
    <2>2. chain' = <<>> \/ ("flush" \in Failing /\ UNCHANGED chain)
        BY <1>1 DEF StartFlush
    <2>3. Allowed' = Allowed
        BY <1>1 DEF StartFlush, Allowed
    <2>4. <<>> \in Seq(Entries) /\ <<>> \in Seq(Allowed)
        BY EmptySeq
    <2>5. chain' \in Seq(Entries)
        BY <2>2, <2>4
    <2>6. "flush" \notin Failing => chain' \in Seq(Allowed)
        BY <2>2, <2>4
    <2>7. TypeOK'
        BY <1>1, <2>1, <2>5 DEF StartFlush, IInv, TypeOK, StoreOK, SesOK
    <2>8. Unlisted'
        BY <2>3, <2>6 DEF Unlisted
    <2> QED
        BY <2>7, <2>8 DEF IInv
<1>2. CASE StartLoad
    <2>1. Loaded(db, Active) \in [RowIds -> Rule \cup {None}]
        BY LoadedType
    <2>2. [ses["startup"] EXCEPT !.held = Loaded(db, Active)] \in Session
        BY <2>1, SessionFields DEF Session
    <2>3. StoreOK' /\ SesOK'
        BY <1>2, <2>2, SesPut, StoreUnchanged DEF StartLoad
    <2> QED
        BY <1>2, <2>3, StaysUp DEF StartLoad
<1>3. CASE StartApply
    <2>1. PICK id \in Ids(ses["startup"].held) :
            /\ AddRule(ses["startup"].held[id])
            /\ Move("startup", [ses["startup"] EXCEPT !.held[id] = None])
        BY <1>3 DEF StartApply
    <2>2. ses["startup"].held[id] \in Rule
        BY HeldType
    <2>3. [ses["startup"] EXCEPT !.held[id] = None] \in Session
        BY SessionFields DEF Session
    <2>4. StoreOK' /\ SesOK'
        BY <1>3, <2>1, <2>3, SesPut, StoreUnchanged DEF StartApply
    <2> QED
        BY <1>3, <2>1, <2>2, <2>4, AddRuleKeeps, Keeps DEF StartApply
<1>4. CASE StartServing
    <2>1. StoreOK' /\ SesOK'
        BY <1>4, StoreUnchanged DEF StartServing, SesOK
    <2> QED
        BY <1>4, <2>1, StaysUp DEF StartServing
<1> QED
    BY <1>1, <1>2, <1>3, <1>4 DEF StartStep

LEMMA CrashKeeps ==
    ASSUME IInv, Crash
    PROVE  IInv'
<1> USE InvParts
<1>1. StoreOK'
    BY DEF Crash, StoreOK, Transactions
<1>2. SesOK'
    BY IdleType DEF Crash, SesOK
<1>3. whitelist' \in SUBSET IPs
    BY EnforcementAssumption DEF Crash
<1>4. chain' \in Seq(Entries)
    <2>1. chain' = chain \/ chain' = <<>>
        BY DEF Crash
    <2>2. <<>> \in Seq(Entries)
        BY EmptySeq
    <2> QED
        BY <2>1, <2>2
<1>5. TypeOK'
    BY <1>1, <1>2, <1>3, <1>4 DEF Crash, TypeOK, StoreOK, SesOK
<1>6. Unlisted'
    BY DEF Crash, Unlisted
<1> QED
    BY <1>5, <1>6 DEF IInv

LEMMA NextKeeps ==
    ASSUME IInv, [Next]_vars
    PROVE  IInv'
<1> USE InvParts
<1>1. CASE PipelineStep
    BY <1>1, PipelineKeeps
<1>2. CASE ExpiryStep
    BY <1>2, ExpiryKeeps
<1>3. CASE \E c \in Clients : RequestStep(c)
    BY <1>3, RequestKeeps
<1>4. CASE \E s \in Sessions : LockTimeout(s)
    <2>1. StoreOK' /\ SesOK'
        BY <1>4, FinishType, StoreUnchanged DEF LockTimeout
    <2> QED
        BY <1>4, <2>1, KeepsChain DEF LockTimeout
<1>5. CASE StartStep
    BY <1>5, StartKeeps
<1>6. CASE TimePasses
    <2>1. PICK id \in Ids(db.rules) : Commit([db EXCEPT !.rules[id].exp = "due"])
        BY <1>6 DEF TimePasses
    <2>2. id \in RowIds /\ [db.rules[id] EXCEPT !.exp = "due"] \in Rule
        BY DbRule, RuleExp DEF Expiries
    <2>3. [db EXCEPT !.rules[id] = [db.rules[id] EXCEPT !.exp = "due"]] \in Tables
        BY <2>2, RulePut
    <2>4. [db EXCEPT !.rules[id].exp = "due"]
            = [db EXCEPT !.rules[id] = [db.rules[id] EXCEPT !.exp = "due"]]
        BY <2>2, TablesFields DEF Tables
    <2>5. StoreOK' /\ SesOK'
        BY <1>6, <2>1, <2>3, <2>4, CommitType DEF TimePasses, SesOK
    <2> QED
        BY <1>6, <2>5, KeepsChain DEF TimePasses
<1>7. CASE Crash
    BY <1>7, CrashKeeps
<1>8. CASE UNCHANGED vars
    <2>1. StoreOK' /\ SesOK'
        BY <1>8 DEF vars, StoreOK, SesOK
    <2> QED
        BY <1>8, <2>1, KeepsChain DEF vars, Process
<1> QED
    BY <1>1, <1>2, <1>3, <1>4, <1>5, <1>6, <1>7, <1>8 DEF Next

\* IInv is an invariant: it holds of every initial state and every step of
\* every handler, of startup, of time and of a crash keeps it.
THEOREM Inductive == Spec => []IInv
<1>1. Init => IInv
    BY EnforcementAssumption, NoTablesType, IdleType
       DEF Init, IInv, TypeOK, Unlisted, Transactions
<1>2. IInv /\ [Next]_vars => IInv'
    BY NextKeeps
<1> QED
    BY <1>1, <1>2, PTL DEF Spec

\* Type correctness of the handlers, for any number of clients, row ids,
\* addresses and services.
THEOREM TypeCorrect == Spec => []TypeOK
<1>1. IInv => TypeOK
    BY DEF IInv
<1> QED
    BY <1>1, Inductive, PTL

\* "Whitelisted IPs are NEVER blocked" (decision/engine.py:36), whatever the
\* database held before, whichever handlers interleave and whichever of them
\* a crash cuts short, unless the flush of startup itself fails.
THEOREM WhitelistRespected == Spec => []WhitelistNeverEnforced
<1>1. IInv => WhitelistNeverEnforced
    <2> SUFFICES ASSUME IInv, "flush" \notin Failing, phase # "down",
                        NEW n \in DOMAIN chain
                 PROVE  chain[n].ip \notin whitelist
        BY DEF WhitelistNeverEnforced
    <2>1. chain \in Seq(Allowed)
        BY DEF IInv, Unlisted
    <2>2. chain[n] \in Allowed
        BY <2>1
    <2> QED
        BY <2>2 DEF Allowed
<1> QED
    BY <1>1, Inductive, PTL
=============================================================================
