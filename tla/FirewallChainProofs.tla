------------------------- MODULE FirewallChainProofs -------------------------
(***************************************************************************)
(* What the chain operators preserve: whatever set of entries the chain is *)
(* drawn from, removing leaves it drawn from that set, and adding a rule   *)
(* adds at most that rule's entry, never one for a whitelisted address.    *)
(* And how many entries of a specification an operator leaves.             *)
(***************************************************************************)
EXTENDS FirewallChain, SequenceTheorems, FunctionTheorems, FiniteSetTheorems,
        WellFoundedInduction, TLAPS

\* A non-empty set of naturals has a least element, so Min is in the set.
LEMMA MinOfNaturals ==
    ASSUME NEW S, S \subseteq Nat, S # {}
    PROVE  Min(S) \in S
<1> DEFINE Less == {ss \in Nat \X Nat : ss[1] < ss[2]}
<1>1. IsWellFoundedOn(Less, Nat)
    BY NatLessThanWellFounded DEF OpToRel
<1>2. \A k, m \in Nat : k < m => <<k, m>> \in Less
    OBVIOUS
<1> HIDE DEF Less
<1>3. \E x \in S : \A y \in S : <<y, x>> \notin Less
    BY <1>1, WFMin
<1>4. PICK x \in S : \A y \in S : <<y, x>> \notin Less
    BY <1>3
<1>5. ASSUME NEW y \in S PROVE x <= y
    <2>1. x \in Nat /\ y \in Nat
        OBVIOUS
    <2>2. ~(y < x)
        BY <1>2, <1>4, <2>1
    <2> QED
        BY <2>1, <2>2
<1> QED
    BY <1>5 DEF Min

\* -D <n> leaves entries that were there.
LEMMA RemoveAtType ==
    ASSUME NEW S, NEW s \in Seq(S), NEW n \in 1..Len(s)
    PROVE  RemoveAt(s, n) \in Seq(S)
<1>1. \A i \in 1..Len(s) : s[i] \in S
    BY ElementOfSeq
<1>2. Len(s) \in Nat
    OBVIOUS
<1>3. SubSeq(s, 1, n - 1) \in Seq(S)
    <2>1. \A i \in 1..(n - 1) : s[i] \in S
        BY <1>1, <1>2
    <2> QED
        BY <2>1, SubSeqProperties
<1>4. SubSeq(s, n + 1, Len(s)) \in Seq(S)
    <2>1. \A i \in (n + 1)..Len(s) : s[i] \in S
        BY <1>1, <1>2
    <2> QED
        BY <2>1, <1>2, SubSeqProperties
<1> QED
    BY <1>3, <1>4, ConcatProperties DEF RemoveAt

\* remove_rule leaves entries that were there, whether or not it found one.
LEMMA RemovedRuleType ==
    ASSUME NEW S, NEW chain \in Seq(S), NEW r
    PROVE  RemovedRule(chain, r) \in Seq(S)
<1> DEFINE e == SpecOf(r)
           hits == {i \in 1..Len(chain) : chain[i] = e}
<1> HIDE DEF e
<1>1. CASE \E i \in 1..Len(chain) : chain[i] = e
    <2>1. hits \subseteq Nat /\ hits # {}
        BY <1>1
    <2>2. Min(hits) \in 1..Len(chain)
        BY <2>1, MinOfNaturals
    <2>3. RemoveFirst(chain, e) = RemoveAt(chain, Min(hits))
        BY <1>1, <2>1 DEF RemoveFirst, SelectInSeq
    <2> QED
        BY <2>2, <2>3, RemoveAtType DEF RemovedRule, e
<1>2. CASE ~ \E i \in 1..Len(chain) : chain[i] = e
    <2>1. RemoveFirst(chain, e) = chain
        BY <1>2 DEF RemoveFirst
    <2> QED
        BY <2>1 DEF RemovedRule, e
<1> QED
    BY <1>1, <1>2

\* Deleting by line number, also by a number that is stale.
LEMMA RemovedLineType ==
    ASSUME NEW S, NEW chain \in Seq(S), NEW n
    PROVE  RemovedLine(chain, n) \in Seq(S)
<1>1. DOMAIN chain = 1..Len(chain)
    OBVIOUS
<1> QED
    BY <1>1, RemoveAtType DEF RemovedLine

\* add_rule: the entry of the rule unless the source is whitelisted.
LEMMA AddedRuleType ==
    ASSUME NEW S, NEW chain \in Seq(S), NEW r, NEW whitelist,
           r.ip \notin whitelist => SpecOf(r) \in S
    PROVE  AddedRule(chain, r, whitelist) \in Seq(S)
<1>1. CASE r.ip \in whitelist
    BY <1>1 DEF AddedRule
<1>2. CASE r.ip \notin whitelist
    BY <1>2 DEF AddedRule
<1> QED
    BY <1>1, <1>2

(***************************************************************************)
(* Counting entries.                                                       *)
(***************************************************************************)
Places(chain, e) == {n \in DOMAIN chain : chain[n] = e}

LEMMA CountType ==
    ASSUME NEW S, NEW chain \in Seq(S), NEW e
    PROVE  /\ IsFiniteSet(Places(chain, e))
           /\ CountOf(chain, e) = Cardinality(Places(chain, e))
           /\ CountOf(chain, e) \in Nat
<1>1. DOMAIN chain = 1..Len(chain) /\ Len(chain) \in Nat
    BY LenProperties
<1>2. IsFiniteSet(1..Len(chain))
    BY <1>1, FS_Interval
<1>3. Places(chain, e) \in SUBSET (1..Len(chain))
    BY <1>1 DEF Places
<1>4. IsFiniteSet(Places(chain, e))
    BY <1>2, <1>3, FS_Subset
<1> QED
    BY <1>4, FS_CardinalityType DEF CountOf, Places

LEMMA CountEmpty ==
    ASSUME NEW e
    PROVE  CountOf(<< >>, e) = 0
<1>1. Places(<< >>, e) = {}
    BY DEF Places
<1> QED
    BY <1>1, FS_EmptySet DEF CountOf, Places

\* What -D <n> leaves: the entries after n move up by one.
LEMMA RemoveAtPlaces ==
    ASSUME NEW S, NEW s \in Seq(S), NEW n \in 1..Len(s)
    PROVE  /\ Len(RemoveAt(s, n)) = Len(s) - 1
           /\ \A i \in 1..(Len(s) - 1) :
                  RemoveAt(s, n)[i] = IF i < n THEN s[i] ELSE s[i + 1]
<1> DEFINE front == SubSeq(s, 1, n - 1)
           back  == SubSeq(s, n + 1, Len(s))
<1>1. \A i \in 1..Len(s) : s[i] \in S
    BY ElementOfSeq
<1>2. Len(s) \in Nat /\ n \in Nat
    OBVIOUS
<1>3. /\ front \in Seq(S) /\ Len(front) = n - 1
      /\ \A i \in 1..(n - 1) : front[i] = s[i]
    <2>1. \A i \in 1..(n - 1) : s[i] \in S
        BY <1>1, <1>2
    <2>2. /\ front \in Seq(S)
          /\ Len(front) = IF 1 <= n - 1 THEN n - 1 - 1 + 1 ELSE 0
          /\ \A i \in 1..(n - 1 - 1 + 1) : front[i] = s[1 + i - 1]
        BY <1>2, <2>1, SubSeqProperties
    <2> QED
        BY <1>2, <2>2
<1>4. /\ back \in Seq(S) /\ Len(back) = Len(s) - n
      /\ \A i \in 1..(Len(s) - n) : back[i] = s[n + i]
    <2>1. \A i \in (n + 1)..Len(s) : s[i] \in S
        BY <1>1, <1>2
    <2>2. /\ back \in Seq(S)
          /\ Len(back) = IF n + 1 <= Len(s) THEN Len(s) - (n + 1) + 1 ELSE 0
          /\ \A i \in 1..(Len(s) - (n + 1) + 1) : back[i] = s[n + 1 + i - 1]
        BY <1>2, <2>1, SubSeqProperties
    <2> QED
        BY <1>2, <2>2
<1> HIDE DEF front, back
<1>5. /\ Len(front \o back) = Len(front) + Len(back)
      /\ \A i \in 1..(Len(front) + Len(back)) :
             (front \o back)[i] = IF i <= Len(front) THEN front[i] ELSE back[i - Len(front)]
    BY <1>3, <1>4, ConcatProperties
<1>6. RemoveAt(s, n) = front \o back
    BY DEF RemoveAt, front, back
<1>7. Len(RemoveAt(s, n)) = Len(s) - 1
    BY <1>2, <1>3, <1>4, <1>5, <1>6
<1>8. ASSUME NEW i \in 1..(Len(s) - 1)
      PROVE  RemoveAt(s, n)[i] = IF i < n THEN s[i] ELSE s[i + 1]
    <2>1. i \in 1..(Len(front) + Len(back))
        BY <1>2, <1>3, <1>4
    <2>2. CASE i < n
        <3>1. i <= Len(front) /\ i \in 1..(n - 1)
            BY <1>2, <1>3, <2>2
        <3> QED
            BY <1>3, <1>5, <1>6, <2>1, <2>2, <3>1
    <2>3. CASE ~(i < n)
        <3>1. ~(i <= Len(front)) /\ i - Len(front) \in 1..(Len(s) - n)
            BY <1>2, <1>3, <2>3
        <3>2. n + (i - Len(front)) = i + 1
            BY <1>2, <1>3
        <3> QED
            BY <1>4, <1>5, <1>6, <2>1, <2>3, <3>1, <3>2
    <2> QED
        BY <2>2, <2>3
<1> QED
    BY <1>7, <1>8

\* Deleting line n leaves at most as many entries of each specification, and
\* fewer of the one that stood there.
LEMMA RemoveAtCount ==
    ASSUME NEW S, NEW s \in Seq(S), NEW n \in 1..Len(s), NEW e
    PROVE  /\ CountOf(RemoveAt(s, n), e) <= CountOf(s, e)
           /\ s[n] = e => CountOf(RemoveAt(s, n), e) + 1 <= CountOf(s, e)
<1> DEFINE left == Places(RemoveAt(s, n), e)
           from == Places(s, e) \ {n}
           back == [i \in left |-> IF i < n THEN i ELSE i + 1]
<1>1. Len(s) \in Nat /\ n \in Nat /\ DOMAIN s = 1..Len(s)
    BY LenProperties
<1>2. RemoveAt(s, n) \in Seq(S)
    BY RemoveAtType
<1>3. DOMAIN RemoveAt(s, n) = 1..(Len(s) - 1)
    BY <1>2, RemoveAtPlaces, LenProperties
<1>4. ASSUME NEW i \in left
      PROVE  back[i] \in from /\ i \in Int
    <2>1. i \in 1..(Len(s) - 1) /\ RemoveAt(s, n)[i] = e
        BY <1>3 DEF Places
    <2>2. s[back[i]] = e
        BY <2>1, RemoveAtPlaces
    <2>3. back[i] \in 1..Len(s) /\ back[i] # n
        BY <1>1, <2>1
    <2> QED
        BY <1>1, <2>1, <2>2, <2>3 DEF Places
<1>5. \A i, j \in left : back[i] = back[j] => i = j
    BY <1>1, <1>4
<1>6. back \in Injection(left, from)
    <2>1. back \in [left -> from]
        BY <1>4
    <2> QED
        BY <1>5, <2>1, Fun_IsInj
<1>7. IsFiniteSet(from) /\ Cardinality(from) = IF n \in Places(s, e)
                                              THEN CountOf(s, e) - 1 ELSE CountOf(s, e)
    BY CountType, FS_RemoveElement
<1>8. Cardinality(left) <= Cardinality(from)
    BY <1>6, <1>7, FS_Injection
<1>9. CountOf(RemoveAt(s, n), e) = Cardinality(left) /\ CountOf(RemoveAt(s, n), e) \in Nat
    BY <1>2, CountType
<1>10. CountOf(s, e) \in Nat
    BY CountType
<1>11. s[n] = e => n \in Places(s, e)
    BY <1>1 DEF Places
<1> HIDE DEF left, from
<1> QED
    BY <1>7, <1>8, <1>9, <1>10, <1>11

\* remove_rule deletes one entry of the rule's specification if there is one,
\* and none of another.
LEMMA RemovedRuleCount ==
    ASSUME NEW S, NEW chain \in Seq(S), NEW r, NEW e
    PROVE  /\ CountOf(RemovedRule(chain, r), e) <= CountOf(chain, e)
           /\ e = SpecOf(r) => \/ CountOf(chain, e) = 0
                               \/ CountOf(RemovedRule(chain, r), e) + 1 <= CountOf(chain, e)
<1> DEFINE spec == SpecOf(r)
           hits == {i \in 1..Len(chain) : chain[i] = spec}
<1> HIDE DEF spec
<1>1. CountOf(chain, e) \in Nat
    BY CountType
<1>2. CASE hits # {}
    <2>1. hits \subseteq Nat
        OBVIOUS
    <2>2. Min(hits) \in hits
        <3> HIDE DEF hits
        <3> QED
            BY <1>2, <2>1, MinOfNaturals
    <2>3. RemoveFirst(chain, spec) = RemoveAt(chain, Min(hits))
        BY <1>2 DEF RemoveFirst, SelectInSeq
    <2>4. RemovedRule(chain, r) = RemoveAt(chain, Min(hits))
        BY <2>3 DEF RemovedRule, spec
    <2>5. chain[Min(hits)] = spec /\ Min(hits) \in 1..Len(chain)
        BY <2>2
    <2> QED
        BY <2>4, <2>5, RemoveAtCount DEF spec
<1>3. CASE hits = {}
    <2>1. RemovedRule(chain, r) = chain
        BY <1>3 DEF RemovedRule, RemoveFirst, spec
    <2>2. Places(chain, spec) = {}
        BY <1>3 DEF Places
    <2>3. CountOf(chain, spec) = 0
        BY <2>2, FS_EmptySet DEF CountOf, Places
    <2> QED
        BY <1>1, <2>1, <2>3 DEF spec
<1> QED
    BY <1>2, <1>3

LEMMA RemovedLineCount ==
    ASSUME NEW S, NEW chain \in Seq(S), NEW n, NEW e
    PROVE  CountOf(RemovedLine(chain, n), e) <= CountOf(chain, e)
<1>1. DOMAIN chain = 1..Len(chain) /\ CountOf(chain, e) \in Nat
    BY LenProperties, CountType
<1> QED
    BY <1>1, RemoveAtCount DEF RemovedLine

\* add_rule adds one entry of the rule's specification, unless the source is
\* whitelisted.
LEMMA AddedRuleCount ==
    ASSUME NEW S, NEW chain \in Seq(S), NEW r, NEW whitelist, NEW e,
           r.ip \notin whitelist => SpecOf(r) \in S
    PROVE  CountOf(AddedRule(chain, r, whitelist), e)
               = IF r.ip \notin whitelist /\ e = SpecOf(r)
                 THEN CountOf(chain, e) + 1 ELSE CountOf(chain, e)
<1>1. CASE r.ip \in whitelist
    BY <1>1 DEF AddedRule
<1>2. CASE r.ip \notin whitelist
    <2> DEFINE spec == SpecOf(r)
               new  == Append(chain, spec)
               last == Len(chain) + 1
    <2>1. spec \in S /\ AddedRule(chain, r, whitelist) = new
        BY <1>2 DEF AddedRule
    <2> HIDE DEF spec
    <2>2. Len(chain) \in Nat /\ DOMAIN chain = 1..Len(chain)
        BY LenProperties
    <2>3. /\ DOMAIN new = 1..last
          /\ \A i \in 1..Len(chain) : new[i] = chain[i]
          /\ new[last] = spec
        BY <2>1
    <2> HIDE DEF new
    <2>4. last \notin Places(chain, e)
        BY <2>2 DEF Places
    <2>5. CASE e = spec
        <3>1. Places(new, e) = Places(chain, e) \cup {last}
            BY <2>2, <2>3, <2>5 DEF Places
        <3>2. Cardinality(Places(new, e)) = Cardinality(Places(chain, e)) + 1
            BY <2>4, <3>1, CountType, FS_AddElement
        <3> QED
            BY <1>2, <2>1, <2>5, <3>2 DEF CountOf, Places, spec
    <2>6. CASE e # spec
        <3>1. Places(new, e) = Places(chain, e)
            BY <2>2, <2>3, <2>6 DEF Places
        <3> QED
            BY <2>1, <2>6, <3>1 DEF CountOf, Places, spec
    <2> QED
        BY <2>5, <2>6
<1> QED
    BY <1>1, <1>2
=============================================================================
