--------------------------- MODULE DetectionProofs ---------------------------
(***************************************************************************)
(* The windows of the detectors and the reports they lead to, for any      *)
(* sources, thresholds, windows and any traffic of the two sources.        *)
(***************************************************************************)
EXTENDS TrafficSources, SequenceTheorems, FiniteSetTheorems,
        WellFoundedInduction, TLAPS

(* Sets of integers and sequences of entries. *)

LEMMA LeastNat ==
    ASSUME NEW S \in SUBSET Nat, S # {}
    PROVE  \E x \in S : \A y \in S : x <= y
<1> DEFINE Less == {ss \in Nat \X Nat : ss[1] < ss[2]}
<1>1. IsWellFoundedOn(Less, Nat)
    BY NatLessThanWellFounded DEF OpToRel
<1>2. \A k, j \in Nat : k < j => <<k, j>> \in Less
    OBVIOUS
<1> HIDE DEF Less
<1>3. PICK x \in S : \A y \in S : <<y, x>> \notin Less
    BY <1>1, WFMin
<1>4. \A y \in S : ~(y < x)
    BY <1>2, <1>3
<1>5. \A y \in S : x \in Nat /\ y \in Nat
    BY <1>3
<1> QED
    BY <1>3, <1>4, <1>5

\* What Evicted leaves is a rest of the deque; the entries before it are too
\* old and its head, if any, is not.
LEMMA EvictedRest ==
    ASSUME NEW dq \in Seq(Entries), NEW cutoff \in Int
    PROVE  \E k \in 0..Len(dq) :
               /\ Evicted(dq, cutoff) = SubSeq(dq, k + 1, Len(dq))
               /\ \A i \in 1..k : dq[i].ts < cutoff
               /\ k < Len(dq) => dq[k + 1].ts >= cutoff
<1> DEFINE fresh == Fresh(dq, cutoff)
<1>0. \A i \in 1..Len(dq) : dq[i] \in Entries
    BY ElementOfSeq
<1>1. Len(dq) \in Nat /\ DOMAIN dq = 1..Len(dq) /\ \A i \in 1..Len(dq) : dq[i].ts \in Nat
    BY <1>0, LenProperties DEF Entries
<1>2. fresh \in SUBSET (1..Len(dq)) /\ \A i \in 1..Len(dq) : i \in fresh <=> dq[i].ts >= cutoff
    BY <1>1 DEF Fresh
<1>3. CASE fresh = {}
    <2>1. Evicted(dq, cutoff) = << >>
        BY <1>3 DEF Evicted
    <2>2. SubSeq(dq, Len(dq) + 1, Len(dq)) = << >>
        BY <1>1, SubSeqEmpty
    <2>3. \A i \in 1..Len(dq) : dq[i].ts < cutoff
        BY <1>1, <1>2, <1>3
    <2>4. Len(dq) \in 0..Len(dq) /\ ~(Len(dq) < Len(dq))
        BY <1>1
    <2> QED
        BY <2>1, <2>2, <2>3, <2>4
<1>4. CASE fresh # {}
    <2> DEFINE first == CHOOSE i \in fresh : \A j \in fresh : i <= j
    <2>1. fresh \in SUBSET Nat
        BY <1>1, <1>2
    <2>2. first \in fresh /\ \A j \in fresh : first <= j
        BY <1>4, <2>1, LeastNat
    <2>3. Evicted(dq, cutoff) = SubSeq(dq, first, Len(dq))
        BY <1>4 DEF Evicted
    <2> HIDE DEF first, fresh
    <2>4. first \in 1..Len(dq)
        BY <1>2, <2>2
    <2>5. \A i \in 1..(first - 1) : i \in 1..Len(dq) /\ i \notin fresh
        BY <1>1, <1>2, <2>2, <2>4
    <2>6. \A i \in 1..(first - 1) : dq[i].ts < cutoff
        BY <1>1, <1>2, <2>5
    <2>7. first - 1 \in 0..Len(dq) /\ (first - 1) + 1 = first /\ dq[first].ts >= cutoff
        BY <1>1, <1>2, <2>2, <2>4
    <2> QED
        BY <2>3, <2>6, <2>7
<1> QED
    BY <1>3, <1>4

\* The part k + 1, k + 2, ... of s.
LEMMA RestOf ==
    ASSUME NEW s \in Seq(Entries), NEW k \in 0..Len(s)
    PROVE  LET w == SubSeq(s, k + 1, Len(s))
           IN  /\ w \in Seq(Entries)
               /\ Len(w) = Len(s) - k
               /\ \A i \in 1..Len(w) : w[i] = s[i + k]
<1>1. Len(s) \in Nat /\ \A i \in (k + 1)..Len(s) : s[i] \in Entries
    BY LenProperties, ElementOfSeq
<1> QED
    BY <1>1, SubSeqProperties

(***************************************************************************)
(* What a deque w of this width has kept of all the entries s it was       *)
(* given, the newest of which is from time now or earlier.                 *)
(***************************************************************************)
InOrder(s) == \A i, j \in 1..Len(s) : i <= j => s[j].ts >= s[i].ts - MaxLate
UpTo(s, now) == \A i \in 1..Len(s) : s[i].ts <= now

\* w is s without its first k entries.
IsRest(w, s, k) ==
    /\ k = Len(s) - Len(w) /\ k \in Nat
    /\ \A i \in 1..Len(w) : w[i] = s[i + k]

GoneOf(s, k, width) == \A i \in 1..k : \E j \in 1..Len(s) : s[i].ts < s[j].ts - width

Kept(w, s, width, now) ==
    /\ w \in Seq(Entries) /\ s \in Seq(Entries)
    /\ IsRest(w, s, Len(s) - Len(w))
    /\ GoneOf(s, Len(s) - Len(w), width)
    /\ s # << >> => Len(w) > 0 /\ w[1].ts >= s[Len(s)].ts - width
    /\ InOrder(s)
    /\ UpTo(s, now)

LEMMA Appended ==
    ASSUME NEW s \in Seq(Entries), NEW e \in Entries
    PROVE  /\ Append(s, e) \in Seq(Entries)
           /\ Append(s, e) # << >>
           /\ Len(s) \in Nat
           /\ Len(Append(s, e)) = Len(s) + 1
           /\ DOMAIN Append(s, e) = 1..(Len(s) + 1)
           /\ \A i \in 1..Len(s) : Append(s, e)[i] = s[i] /\ s[i] \in Entries
           /\ Append(s, e)[Len(s) + 1] = e
<1>1. \A i \in 1..Len(s) : s[i] \in Entries
    BY ElementOfSeq
<1>2. Append(s, e) \in Seq(Entries) /\ Len(Append(s, e)) = Len(s) + 1 /\ Len(s) \in Nat
    BY AppendProperties, LenProperties
<1>3. \A i \in 1..Len(s) : Append(s, e)[i] = s[i]
    BY <1>2, AppendProperties
<1>4. Append(s, e)[Len(s) + 1] = e
    BY <1>2, AppendProperties
<1>5. DOMAIN Append(s, e) = 1..(Len(s) + 1)
    BY <1>2, LenProperties
<1>6. Append(s, e) # << >>
    BY AppendProperties
<1> QED
    BY <1>1, <1>2, <1>3, <1>4, <1>5, <1>6

\* A deque that slides keeps all but what is too old, however late the entry.
LEMMA SlidKept ==
    ASSUME NEW w, NEW s, NEW width \in Nat, NEW now \in Nat, Kept(w, s, width, now),
           NEW e \in Entries, e.ts >= now - MaxLate, NEW later \in Nat,
           e.ts <= later, now <= later
    PROVE  Kept(Slid(w, e, width), Append(s, e), width, later)
<1> DEFINE n == Len(s)
           m == Len(w)
           k == n - m
           s2 == Append(s, e)
           a == Append(w, e)
           w2 == Slid(w, e, width)
<1>1. w \in Seq(Entries) /\ s \in Seq(Entries) /\ e.ts \in Nat /\ MaxLate \in Nat
    BY DetectionAssumption DEF Kept, Entries
<1>2. /\ s2 \in Seq(Entries) /\ n \in Nat /\ Len(s2) = n + 1
      /\ \A i \in 1..n : s2[i] = s[i] /\ s[i] \in Entries
      /\ s2[n + 1] = e
    BY <1>1, Appended
<1>3. /\ a \in Seq(Entries) /\ m \in Nat /\ Len(a) = m + 1
      /\ \A i \in 1..m : a[i] = w[i]
      /\ a[m + 1] = e
    BY <1>1, Appended
<1>4. k \in Nat /\ \A i \in 1..m : w[i] = s[i + k]
    BY DEF Kept, IsRest
<1>5. \A i \in 1..(m + 1) : a[i] = s2[i + k]
    <2> TAKE i \in 1..(m + 1)
    <2>1. CASE i = m + 1
        <3>1. i + k = n + 1
            BY <1>2, <1>3, <2>1
        <3> QED
            BY <1>2, <1>3, <2>1, <3>1
    <2>2. CASE i # m + 1
        <3>1. i \in 1..m /\ i + k \in 1..n
            BY <1>2, <1>3, <1>4, <2>2
        <3> QED
            BY <1>2, <1>3, <1>4, <3>1
    <2> QED
        BY <2>1, <2>2
<1>6. e.ts - width \in Int /\ w2 = Evicted(a, e.ts - width)
    BY <1>1 DEF Slid
<1> HIDE DEF w2, s2, a, n, m, k
<1>7. PICK j \in 0..Len(a) :
          /\ w2 = SubSeq(a, j + 1, Len(a))
          /\ \A i \in 1..j : a[i].ts < e.ts - width
          /\ j < Len(a) => a[j + 1].ts >= e.ts - width
    BY <1>3, <1>6, EvictedRest
<1>8. j < m + 1
    BY <1>1, <1>3, <1>7
<1>9. /\ w2 \in Seq(Entries) /\ Len(w2) = m + 1 - j
      /\ \A i \in 1..Len(w2) : w2[i] = a[i + j]
    BY <1>3, <1>7, RestOf
<1>10. Len(s2) - Len(w2) = k + j /\ k + j \in Nat
    BY <1>2, <1>3, <1>4, <1>7, <1>9 DEF k
<1>11. \A i \in 1..Len(w2) : w2[i] = s2[i + (k + j)]
    <2> TAKE i \in 1..Len(w2)
    <2>1. i + j \in 1..(m + 1) /\ (i + j) + k = i + (k + j)
        BY <1>3, <1>4, <1>7, <1>9
    <2> QED
        BY <1>5, <1>9, <2>1
<1>12. GoneOf(s2, k + j, width)
    <2> SUFFICES ASSUME NEW i \in 1..(k + j)
                 PROVE  \E l \in 1..Len(s2) : s2[i].ts < s2[l].ts - width
        BY DEF GoneOf
    <2>1. CASE i <= k
        <3>1. i \in 1..k /\ i \in 1..n
            BY <1>2, <1>3, <1>4, <2>1 DEF k
        <3>2. PICK l \in 1..n : s[i].ts < s[l].ts - width
            BY <3>1 DEF Kept, GoneOf, k, n, m
        <3>3. l \in 1..Len(s2) /\ s2[i] = s[i] /\ s2[l] = s[l]
            BY <1>2, <3>1
        <3> QED
            BY <3>2, <3>3
    <2>2. CASE ~(i <= k)
        <3>1. i - k \in 1..j /\ i - k \in 1..(m + 1) /\ (i - k) + k = i
            BY <1>3, <1>4, <1>7, <2>2
        <3>2. s2[i] = a[i - k] /\ a[i - k].ts < e.ts - width
            BY <1>5, <1>7, <3>1
        <3>3. n + 1 \in 1..Len(s2) /\ s2[n + 1] = e
            BY <1>2
        <3> QED
            BY <3>2, <3>3
    <2> QED
        BY <2>1, <2>2
<1>13. Len(w2) > 0 /\ w2[1].ts >= s2[Len(s2)].ts - width
    <2>1. Len(w2) > 0 /\ 1 \in 1..Len(w2) /\ 1 + j = j + 1
        BY <1>3, <1>7, <1>8, <1>9
    <2>2. w2[1] = a[j + 1] /\ s2[Len(s2)] = e /\ j < Len(a)
        BY <1>2, <1>3, <1>8, <1>9, <2>1
    <2> QED
        BY <1>7, <2>1, <2>2
<1>14. InOrder(s2)
    <2> SUFFICES ASSUME NEW i \in 1..Len(s2), NEW l \in 1..Len(s2), i <= l
                 PROVE  s2[l].ts >= s2[i].ts - MaxLate
        BY DEF InOrder
    <2>1. CASE l \in 1..n
        <3>1. i \in 1..n
            BY <1>2, <2>1
        <3> QED
            BY <1>2, <2>1, <3>1 DEF Kept, InOrder, n
    <2>2. CASE l = n + 1 /\ i \in 1..n
        <3>1. s[i].ts <= now /\ s[i].ts \in Nat
            BY <1>2, <2>2 DEF Kept, UpTo, n, Entries
        <3> QED
            BY <1>1, <1>2, <2>2, <3>1
    <2>3. CASE l = n + 1 /\ i = n + 1
        BY <1>1, <1>2, <2>3
    <2> QED
        BY <1>2, <2>1, <2>2, <2>3
<1>15. UpTo(s2, later)
    <2> SUFFICES ASSUME NEW i \in 1..Len(s2) PROVE s2[i].ts <= later
        BY DEF UpTo
    <2>1. CASE i \in 1..n
        <3>1. s[i].ts <= now /\ s[i].ts \in Nat
            BY <1>2, <2>1 DEF Kept, UpTo, n, Entries
        <3> QED
            BY <1>2, <2>1, <3>1
    <2>2. CASE i = n + 1
        BY <1>1, <1>2, <2>2
    <2> QED
        BY <1>2, <2>1, <2>2
<1>16. IsRest(w2, s2, Len(s2) - Len(w2)) /\ GoneOf(s2, Len(s2) - Len(w2), width)
    BY <1>10, <1>11, <1>12 DEF IsRest
<1>17. Kept(w2, s2, width, later)
    BY <1>2, <1>9, <1>13, <1>14, <1>15, <1>16 DEF Kept
<1> QED
    BY <1>17 DEF w2, s2

\* What is counted is no older than the window, lateness apart.
LEMMA KeptRecent ==
    ASSUME NEW w, NEW s, NEW width \in Nat, NEW now \in Nat, Kept(w, s, width, now)
    PROVE  \A i \in 1..Len(w) : w[i].ts >= s[Len(s)].ts - width - MaxLate
<1>1. w \in Seq(Entries) /\ s \in Seq(Entries) /\ MaxLate \in Nat
    BY DetectionAssumption DEF Kept
<1>2. Len(w) \in Nat /\ Len(s) \in Nat
    BY <1>1, LenProperties
<1>3. \A i \in 1..Len(w) : w[i] \in Entries
    BY <1>1, ElementOfSeq
<1> SUFFICES ASSUME NEW i \in 1..Len(w)
             PROVE  w[i].ts >= s[Len(s)].ts - width - MaxLate
    OBVIOUS
<1> DEFINE k == Len(s) - Len(w)
<1>4. k \in Nat /\ 1 \in 1..Len(w) /\ w[i] = s[i + k] /\ w[1] = s[1 + k]
    BY <1>2 DEF Kept, IsRest
<1>5. i + k \in 1..Len(s) /\ 1 + k \in 1..Len(s) /\ 1 + k <= i + k /\ Len(s) \in 1..Len(s)
    BY <1>2, <1>4
<1>6. s[i + k].ts >= s[1 + k].ts - MaxLate
    BY <1>5 DEF Kept, InOrder
<1>7. s # << >>
    BY <1>5, EmptySeq
<1>8. w[1].ts >= s[Len(s)].ts - width
    BY <1>7 DEF Kept
<1>9. w[i].ts \in Nat /\ w[1].ts \in Nat /\ s[Len(s)].ts \in Nat
    <2>1. s[Len(s)] \in Entries
        BY <1>1, <1>5, ElementOfSeq
    <2> QED
        BY <1>3, <1>4, <2>1 DEF Entries
<1> HIDE DEF k
<1>10. w[i].ts >= w[1].ts - MaxLate
    BY <1>4, <1>6
<1> QED
    BY <1>1, <1>8, <1>9, <1>10

(* Counting. *)

BetweenOf(s, lo, hi, n) == {i \in 1..n : s[i].ts >= lo /\ s[i].ts <= hi}

MeasuredOf(kind, s, S) ==
    IF kind = "port_scan" THEN Cardinality({s[i].port : i \in S}) ELSE Cardinality(S)

LEMMA MoreMeasured ==
    ASSUME NEW kind, NEW s, NEW n \in Nat, NEW T \in SUBSET (1..n), NEW S \in SUBSET T
    PROVE  /\ MeasuredOf(kind, s, S) \in Nat
           /\ MeasuredOf(kind, s, S) <= MeasuredOf(kind, s, T)
<1> DEFINE ports(X) == {s[i].port : i \in X}
           f == [i \in T |-> s[i].port]
<1>1. IsFiniteSet(1..n)
    BY FS_Interval
<1>2. IsFiniteSet(T)
    BY <1>1, FS_Subset
<1>3. Cardinality(S) \in Nat /\ Cardinality(T) \in Nat /\ Cardinality(S) <= Cardinality(T)
    BY <1>2, FS_Subset, FS_CardinalityType
<1>4. f \in Surjection(T, ports(T))
    BY DEF Surjection
<1>5. IsFiniteSet(ports(T))
    BY <1>2, <1>4, FS_Surjection
<1>6. ports(S) \in SUBSET ports(T)
    OBVIOUS
<1> HIDE DEF ports
<1>7. /\ Cardinality(ports(S)) \in Nat /\ Cardinality(ports(T)) \in Nat
      /\ Cardinality(ports(S)) <= Cardinality(ports(T))
    BY <1>5, <1>6, FS_Subset, FS_CardinalityType
<1> QED
    BY <1>3, <1>7 DEF MeasuredOf, ports

\* The measure of a rest of s is that of the places it comes from.
LEMMA RestMeasured ==
    ASSUME NEW kind, NEW w \in Seq(Entries), NEW s \in Seq(Entries),
           NEW k \in Nat, IsRest(w, s, k)
    PROVE  /\ Measure(kind, w) = MeasuredOf(kind, s, (k + 1)..Len(s))
           /\ Measure(kind, w) \in Nat
           /\ (k + 1)..Len(s) \in SUBSET (1..Len(s))
<1>1. Len(w) \in Nat /\ Len(s) \in Nat /\ DOMAIN w = 1..Len(w) /\ Len(w) = Len(s) - k
    BY LenProperties DEF IsRest
<1>2. (k + 1)..Len(s) \in SUBSET (1..Len(s))
    BY <1>1
<1>3. MeasuredOf(kind, s, (k + 1)..Len(s)) \in Nat
    BY <1>1, <1>2, MoreMeasured
<1>4. Cardinality((k + 1)..Len(s)) = Len(w)
    <2>1. k + 1 \in Int /\ Len(s) \in Int
        BY <1>1
    <2>2. Cardinality((k + 1)..Len(s)) = IF k + 1 > Len(s) THEN 0 ELSE Len(s) - (k + 1) + 1
        BY <2>1, FS_Interval
    <2> QED
        BY <1>1, <2>2
<1>5. {e.port : e \in {w[i] : i \in 1..Len(w)}} = {s[i].port : i \in (k + 1)..Len(s)}
    <2>1. \A i \in 1..Len(w) : i + k \in (k + 1)..Len(s) /\ w[i] = s[i + k]
        BY <1>1 DEF IsRest
    <2>2. \A i \in (k + 1)..Len(s) : i - k \in 1..Len(w) /\ (i - k) + k = i
        BY <1>1
    <2>3. \A i \in (k + 1)..Len(s) : s[i] = w[i - k]
        BY <2>1, <2>2
    <2>4. ASSUME NEW i \in 1..Len(w) PROVE w[i].port \in {s[l].port : l \in (k + 1)..Len(s)}
        BY <2>1
    <2>5. ASSUME NEW i \in (k + 1)..Len(s)
          PROVE  s[i].port \in {e.port : e \in {w[l] : l \in 1..Len(w)}}
        BY <2>2, <2>3
    <2> QED
        BY <2>4, <2>5
<1> QED
    BY <1>1, <1>2, <1>3, <1>4, <1>5 DEF Measure, MeasuredOf

\* All that lies in the window up to the peak is still in the deque.
LEMMA BurstIsKept ==
    ASSUME NEW kind, NEW w, NEW s, NEW width \in Nat, NEW now \in Nat,
           Kept(w, s, width, now), NEW peak \in Nat, UpTo(s, peak)
    PROVE  MeasuredOf(kind, s, BetweenOf(s, peak - width, peak, Len(s))) <= Measure(kind, w)
<1> DEFINE k == Len(s) - Len(w)
           S == BetweenOf(s, peak - width, peak, Len(s))
<1>1. w \in Seq(Entries) /\ s \in Seq(Entries) /\ k \in Nat /\ IsRest(w, s, k)
    BY DEF Kept, IsRest
<1>2. Len(s) \in Nat /\ \A i \in 1..Len(s) : s[i] \in Entries
    BY <1>1, LenProperties, ElementOfSeq
<1>3. S \in SUBSET ((k + 1)..Len(s))
    <2> SUFFICES ASSUME NEW i \in S PROVE i \in (k + 1)..Len(s)
        OBVIOUS
    <2>1. i \in 1..Len(s) /\ s[i].ts >= peak - width
        BY DEF BetweenOf
    <2> HIDE DEF S
    <2>2. CASE i <= k
        <3>1. i \in 1..k
            BY <1>1, <2>1, <2>2
        <3> HIDE DEF k
        <3>2. PICK j \in 1..Len(s) : s[i].ts < s[j].ts - width
            BY <3>1 DEF Kept, GoneOf, k
        <3>3. s[j].ts <= peak /\ s[j].ts \in Nat /\ s[i].ts \in Nat
            BY <1>2, <2>1 DEF UpTo, Entries
        <3> QED
            BY <2>1, <3>2, <3>3
    <2>3. CASE ~(i <= k)
        BY <1>1, <1>2, <2>1, <2>3
    <2> QED
        BY <2>2, <2>3
<1> HIDE DEF S, k
<1>4. /\ Measure(kind, w) = MeasuredOf(kind, s, (k + 1)..Len(s))
      /\ (k + 1)..Len(s) \in SUBSET (1..Len(s))
    BY <1>1, RestMeasured
<1>5. MeasuredOf(kind, s, S) <= MeasuredOf(kind, s, (k + 1)..Len(s))
    BY <1>2, <1>3, <1>4, MoreMeasured
<1> QED
    BY <1>4, <1>5 DEF S

\* All that is in the deque has come within a window, lateness apart.
LEMMA KeptIsRecent ==
    ASSUME NEW kind, NEW w, NEW s, NEW width \in Nat, NEW now \in Nat,
           Kept(w, s, width, now), NEW at \in Nat, s # << >>, s[Len(s)].ts = at,
           now <= at + MaxLate
    PROVE  Measure(kind, w) <=
               MeasuredOf(kind, s, BetweenOf(s, at - width - MaxLate, at + MaxLate, Len(s)))
<1> DEFINE k == Len(s) - Len(w)
           S == BetweenOf(s, at - width - MaxLate, at + MaxLate, Len(s))
<1>1. w \in Seq(Entries) /\ s \in Seq(Entries) /\ k \in Nat /\ IsRest(w, s, k)
    BY DEF Kept, IsRest
<1>2. Len(s) \in Nat /\ Len(w) \in Nat /\ \A i \in 1..Len(s) : s[i] \in Entries
    BY <1>1, LenProperties, ElementOfSeq
<1>3. (k + 1)..Len(s) \in SUBSET S
    <2> SUFFICES ASSUME NEW i \in (k + 1)..Len(s) PROVE i \in S
        OBVIOUS
    <2>1. i - k \in 1..Len(w) /\ i \in 1..Len(s) /\ (i - k) + k = i
        BY <1>1, <1>2
    <2> HIDE DEF k
    <2>2. w[i - k] = s[i]
        BY <1>1, <2>1 DEF IsRest
    <2>3. w[i - k].ts >= at - width - MaxLate
        BY <2>1, KeptRecent
    <2>4. s[i].ts <= now /\ s[i].ts \in Nat /\ MaxLate \in Nat
        BY <1>2, <2>1, DetectionAssumption DEF Kept, UpTo, Entries
    <2>5. s[i].ts <= at + MaxLate
        BY <2>4
    <2> QED
        BY <2>1, <2>2, <2>3, <2>5 DEF BetweenOf
<1>4. S \in SUBSET (1..Len(s))
    BY DEF BetweenOf
<1> HIDE DEF S, k
<1>5. Measure(kind, w) = MeasuredOf(kind, s, (k + 1)..Len(s))
    BY <1>1, RestMeasured
<1>6. MeasuredOf(kind, s, (k + 1)..Len(s)) <= MeasuredOf(kind, s, S)
    BY <1>2, <1>3, <1>4, MoreMeasured
<1> QED
    BY <1>5, <1>6 DEF S

\* The newest of some entries.
PeakOf(s) == CHOOSE ts \in {s[i].ts : i \in DOMAIN s} : \A i \in DOMAIN s : s[i].ts <= ts

LEMMA PeakIs ==
    ASSUME NEW s \in Seq(Entries), s # << >>, NEW now \in Nat, UpTo(s, now)
    PROVE  PeakOf(s) \in Nat /\ UpTo(s, PeakOf(s)) /\ PeakOf(s) <= now
<1> DEFINE T == {now - s[i].ts : i \in 1..Len(s)}
<1>1. Len(s) \in Nat \ {0} /\ DOMAIN s = 1..Len(s)
    BY EmptySeq, LenProperties
<1>2. \A i \in 1..Len(s) : s[i] \in Entries
    BY ElementOfSeq
<1>3. \A i \in 1..Len(s) : s[i].ts \in Nat /\ now - s[i].ts \in Nat
    BY <1>2 DEF Entries, UpTo
<1>4. T \in SUBSET Nat /\ T # {}
    <2>1. 1 \in 1..Len(s)
        BY <1>1
    <2>2. now - s[1].ts \in T
        BY <2>1
    <2>3. T \in SUBSET Nat
        BY <1>3
    <2> QED
        BY <2>2, <2>3
<1>5. PICK x \in T : \A y \in T : x <= y
    BY <1>4, LeastNat
<1>6. PICK l \in 1..Len(s) : x = now - s[l].ts
    BY <1>5
<1>7. \A i \in 1..Len(s) : now - s[i].ts \in T /\ now - s[l].ts <= now - s[i].ts
    BY <1>5, <1>6
<1>8. \A i \in 1..Len(s) : s[i].ts <= s[l].ts
    BY <1>3, <1>7
<1>9. /\ PeakOf(s) \in {s[i].ts : i \in 1..Len(s)}
      /\ \A i \in 1..Len(s) : s[i].ts <= PeakOf(s)
    BY <1>1, <1>8 DEF PeakOf
<1> QED
    BY <1>3, <1>9 DEF UpTo

LEMMA NoRates == Total(<< >>) = 0
<1> DEFINE base(f, s) == IF s = {} THEN 0
                         ELSE LET x == CHOOSE x \in s : TRUE IN << >>[x] + f[s \ {x}]
           iter[s \in SUBSET {}] == base(iter, s)
<1>1. \E f : f = [s \in SUBSET {} |-> base(f, s)]
    <2>1. [s \in SUBSET {} |-> 0] = [s \in SUBSET {} |-> base([z \in SUBSET {} |-> 0], s)]
        OBVIOUS
    <2> QED
        BY <2>1
<1>2. iter = [s \in SUBSET {} |-> base(iter, s)]
    BY <1>1
<1>3. iter[{}] = 0
    BY <1>2
<1>4. Total(<< >>) = iter[{}]
    BY DEF Total, SumFunction, SumFunctionOnSet, FoldFunctionOnSet, MapThenFoldSet
<1> QED
    BY <1>3, <1>4
-------------------------------------------------------------------------------
(* A packet. *)

Packets ==
    [src : Sources, ts : Nat, proto : {"TCP", "UDP", "ICMP"}, port : {NoPort} \cup Ports,
     syn : BOOLEAN, ack : BOOLEAN, slow : BOOLEAN, sigs : SUBSET (1..29)]

\* What the traffic guarantees of the next packet.
Timely(p) ==
    /\ p \in Packets
    /\ p.ts >= clock - MaxLate
    /\ \A kind \in Kinds : p.ts >= Window[kind]

LEMMA TrackIs ==
    ASSUME NEW t \in Tracks
    PROVE  /\ t[1] \in Kinds /\ t[2] \in Sources /\ t[3] \in Nat
           /\ t = <<t[1], t[2], t[3]>>
           /\ Window[t[1]] \in Nat \ {0} /\ Threshold[t[1]] \in Nat \ {0}
<1>1. SensitivePorts \subseteq Nat /\ NoPort \in Nat /\ "brute_force" \in Kinds
    BY DetectionAssumption DEF NoPort, Kinds
<1>2. \/ t \in (Kinds \ {"brute_force"}) \X Sources \X {NoPort}
      \/ t \in {"brute_force"} \X Sources \X SensitivePorts
    BY DEF Tracks
<1>3. t[1] \in Kinds /\ t[2] \in Sources /\ t[3] \in Nat /\ t = <<t[1], t[2], t[3]>>
    BY <1>1, <1>2
<1>4. Window \in [Kinds -> Nat \ {0}] /\ Threshold \in [Kinds -> Nat \ {0}]
    BY DetectionAssumption
<1> QED
    BY <1>3, <1>4

LEMMA TrackedIn ==
    ASSUME NEW p \in Packets
    PROVE  /\ Tracked(p) \subseteq Tracks
           /\ \A t \in Tracked(p) : t[2] = p.src
           /\ \A t \in Tracked(p) : t[1] = "syn_flood" => t = <<"syn_flood", p.src, NoPort>>
<1> SUFFICES ASSUME NEW kind \in Kinds, Watches(kind, p)
             PROVE  /\ Track(kind, p) \in Tracks /\ Track(kind, p)[2] = p.src
                    /\ Track(kind, p)[1] = "syn_flood" =>
                           Track(kind, p) = <<"syn_flood", p.src, NoPort>>
    BY DEF Tracked
<1>1. p.src \in Sources
    BY DEF Packets
<1>2. CASE kind = "brute_force"
    <2>1. p.port \in SensitivePorts
        BY <1>2 DEF Watches
    <2> QED
        BY <1>1, <1>2, <2>1 DEF Tracks, Track
<1>3. CASE kind # "brute_force"
    BY <1>1, <1>3 DEF Tracks, Track
<1> QED
    BY <1>2, <1>3

LEMMA StampIs ==
    ASSUME NEW p \in Packets
    PROVE  Stamp(p) \in Entries /\ Stamp(p).ts = p.ts /\ p.ts \in Nat /\ p.src \in Sources
<1>1. p.src \in Sources /\ p.ts \in Nat /\ p.port \in {NoPort} \cup Ports
    BY DEF Packets
<1>2. Ports \subseteq Nat /\ NoPort \in Nat
    BY DetectionAssumption DEF NoPort
<1>3. p.port \in Nat
    BY <1>1, <1>2
<1> QED
    BY <1>1, <1>3 DEF Stamp, Entries

(***************************************************************************)
(* The invariant: types, what the deques have kept, and that whoever is in *)
(* a cooldown has been reported.                                           *)
(***************************************************************************)
WindowsKept == \A t \in Tracks : Kept(windows[t], sent[t], Window[t[1]], clock)

Counting(al) == al.by # "pattern"

CooldownsEarned ==
    \A t \in Tracks : alerted[t] # 0 =>
        \E al \in alerts : al.track = t /\ al.at = alerted[t] /\ Counting(al)

AlertsPlaced ==
    \A al \in alerts : Counting(al) => al.track \in Tracks /\ al.seen <= Len(sent[al.track])

CountedFirst(t) == \E al \in alerts : al.track = t /\ al.by = "count"

RatesEarned ==
    \A src \in Sources : rates[src] # << >> => CountedFirst(<<"syn_flood", src, NoPort>>)

DetInv ==
    /\ DetectorsTyped
    /\ clock >= Start
    /\ WindowsKept
    /\ CooldownsEarned
    /\ AlertsPlaced
    /\ RatesEarned
    /\ BurstReported
    /\ AlertJustified

LEMMA KeptLater ==
    ASSUME NEW w, NEW s, NEW width, NEW now \in Nat, Kept(w, s, width, now),
           NEW later \in Nat, now <= later
    PROVE  Kept(w, s, width, later)
<1>1. s \in Seq(Entries) /\ UpTo(s, now)
    BY DEF Kept
<1>2. \A i \in 1..Len(s) : s[i] \in Entries
    BY <1>1, ElementOfSeq
<1>3. UpTo(s, later)
    BY <1>1, <1>2 DEF UpTo, Entries
<1> QED
    BY <1>3 DEF Kept

\* Where the deques and the clock are after packet p.
LEMMA Slides ==
    ASSUME DetInv, NEW p, Timely(p), Analyze(p)
    PROVE  /\ clock' \in Nat /\ clock' >= Start /\ clock' <= p.ts + MaxLate
           /\ windows' \in [Tracks -> Seq(Entries)]
           /\ sent' \in [Tracks -> Seq(Entries)]
           /\ windows' = WindowsSlid(p)
           /\ \A t \in Tracks : Kept(windows'[t], sent'[t], Window[t[1]], clock')
           /\ \A t \in Tracked(p) : sent'[t] = Append(sent[t], Stamp(p))
           /\ \A t \in Tracks \ Tracked(p) : sent'[t] = sent[t] /\ windows'[t] = windows[t]
<1>1. p \in Packets /\ p.ts >= clock - MaxLate /\ clock \in Nat /\ clock >= Start
      /\ MaxLate \in Nat /\ Start \in Nat
    BY DetectionAssumption DEF Timely, DetInv, DetectorsTyped
<1>2. Stamp(p) \in Entries /\ Stamp(p).ts = p.ts /\ p.ts \in Nat
    BY <1>1, StampIs
<1>3. clock' = IF p.ts > clock THEN p.ts ELSE clock
    BY DEF Analyze
<1>4. clock' \in Nat /\ clock' >= Start /\ clock' <= p.ts + MaxLate /\ clock <= clock' /\ p.ts <= clock'
    BY <1>1, <1>2, <1>3
<1>5. windows' = WindowsSlid(p)
    BY DEF Analyze
<1>6. sent' = [t \in Tracks |->
                  IF t \in Tracked(p) THEN Append(sent[t], Stamp(p)) ELSE sent[t]]
    BY DEF Analyze
<1>7. Tracked(p) \subseteq Tracks
    BY <1>1, TrackedIn
<1>8. \A t \in Tracked(p) : /\ sent'[t] = Append(sent[t], Stamp(p))
                            /\ windows'[t] = Slid(windows[t], Stamp(p), Window[t[1]])
    BY <1>5, <1>6, <1>7 DEF WindowsSlid
<1>9. \A t \in Tracks \ Tracked(p) : sent'[t] = sent[t] /\ windows'[t] = windows[t]
    BY <1>5, <1>6 DEF WindowsSlid
<1>10. \A t \in Tracks : Kept(windows'[t], sent'[t], Window[t[1]], clock')
    <2> TAKE t \in Tracks
    <2>1. Kept(windows[t], sent[t], Window[t[1]], clock) /\ Window[t[1]] \in Nat
        BY TrackIs DEF DetInv, WindowsKept
    <2>2. CASE t \in Tracked(p)
        <3>1. Stamp(p).ts >= clock - MaxLate /\ Stamp(p).ts <= clock'
            BY <1>1, <1>2, <1>4
        <3>2. Kept(Slid(windows[t], Stamp(p), Window[t[1]]), Append(sent[t], Stamp(p)),
                   Window[t[1]], clock')
            BY <1>1, <1>2, <1>4, <2>1, <3>1, SlidKept
        <3> QED
            BY <1>8, <2>2, <3>2
    <2>3. CASE t \notin Tracked(p)
        BY <1>1, <1>4, <1>9, <2>1, <2>3, KeptLater
    <2> QED
        BY <2>2, <2>3
<1>11. \A t \in Tracks : windows'[t] \in Seq(Entries) /\ sent'[t] \in Seq(Entries)
    BY <1>10 DEF Kept
<1>12. windows' \in [Tracks -> Seq(Entries)]
    BY <1>5, <1>11 DEF WindowsSlid
<1>13. sent' \in [Tracks -> Seq(Entries)]
    BY <1>6, <1>11
<1> QED
    BY <1>4, <1>5, <1>8, <1>9, <1>10, <1>12, <1>13

(* Types. *)

LEMMA RulesAre ==
    /\ DOMAIN Rules = 1..29
    /\ \A n \in 1..29 : Rules[n].sev \in {"low", "medium", "high"}
BY DEF Rules

LEMMA PushedTyped ==
    ASSUME NEW r \in Seq(Nat), Len(r) <= MaxRates, NEW count \in Nat
    PROVE  Pushed(r, count) \in Seq(Nat) /\ Len(Pushed(r, count)) <= MaxRates
<1> DEFINE all == Append(r, count)
<1>1. all \in Seq(Nat) /\ Len(all) = Len(r) + 1 /\ Len(r) \in Nat /\ MaxRates \in Nat
    BY AppendProperties, LenProperties, DetectionAssumption
<1>2. all # << >>
    BY AppendProperties
<1> HIDE DEF all
<1>3. Tail(all) \in Seq(Nat) /\ Len(Tail(all)) = Len(all) - 1
    BY <1>1, <1>2, HeadTailProperties
<1> QED
    BY <1>1, <1>3 DEF Pushed, all

LEMMA RatesAfterTyped ==
    ASSUME DetectorsTyped, NEW src \in Sources, NEW count \in Nat, NEW ts
    PROVE  /\ RatesAfter(src, count, ts) \in Seq(Nat)
           /\ Len(RatesAfter(src, count, ts)) <= MaxRates
BY PushedTyped DEF DetectorsTyped, RatesAfter

\* The alerts a packet raises by counting.
Raised(p) == Counted(p) \cup Deviant(p)

LEMMA SlidTyped ==
    ASSUME DetInv, NEW p, Timely(p), Analyze(p), NEW t \in Tracks
    PROVE  /\ WindowsSlid(p)[t] \in Seq(Entries)
           /\ Len(WindowsSlid(p)[t]) \in Nat
           /\ Measure(t[1], WindowsSlid(p)[t]) \in Nat
<1>1. WindowsSlid(p)[t] \in Seq(Entries)
    BY Slides
<1>2. WindowsSlid(p)[t] = windows'[t] /\ Kept(windows'[t], sent'[t], Window[t[1]], clock')
    BY Slides
<1>3. Measure(t[1], windows'[t]) \in Nat
    BY <1>2, RestMeasured DEF Kept, IsRest
<1> QED
    BY <1>1, <1>2, <1>3, LenProperties

LEMMA RaisedIs ==
    ASSUME DetInv, NEW p, Timely(p), Analyze(p), NEW al \in Raised(p)
    PROVE  /\ al.track \in Tracked(p) /\ al.track \in Tracks
           /\ al.at = p.ts
           /\ al.seen = Len(sent[al.track]) + 1
           /\ al.by \in {"count", "deviation"}
           /\ al.by = "count" => al.track \in Reaching(p)
           /\ al.by = "deviation" => al.track \in Deviating(p)
           /\ al \in Alert
<1>1. p \in Packets /\ p.ts \in Nat /\ p.src \in Sources
    BY StampIs DEF Timely
<1>2. Tracked(p) \subseteq Tracks
    BY <1>1, TrackedIn
<1>3. \A t \in Tracks : t \in AlertTypes \X Sources \X Nat
    <2> TAKE t \in Tracks
    <2>1. t[1] \in AlertTypes /\ t[2] \in Sources /\ t[3] \in Nat /\ t = <<t[1], t[2], t[3]>>
        BY TrackIs DEF AlertTypes
    <2> QED
        BY <2>1
<1>4. \A t \in Tracks : Len(sent[t]) \in Nat
    BY LenProperties DEF DetInv, DetectorsTyped
<1>5. CASE al \in Counted(p)
    <2>1. PICK t \in Reaching(p) :
              al = [track |-> t, at |-> p.ts, seen |-> Len(sent[t]) + 1,
                    sev |-> Severity(t[1], Measure(t[1], WindowsSlid(p)[t])), by |-> "count"]
        BY <1>5 DEF Counted
    <2>2. t \in Tracked(p) /\ t \in Tracks
        BY <1>2, <2>1 DEF Reaching
    <2>3. Severity(t[1], Measure(t[1], WindowsSlid(p)[t])) \in {"low", "medium", "high"}
        BY DEF Severity
    <2>4. t \in AlertTypes \X Sources \X Nat /\ Len(sent[t]) + 1 \in Nat
        BY <1>3, <1>4, <2>2
    <2> QED
        BY <1>1, <2>1, <2>2, <2>3, <2>4 DEF Alert
<1>6. CASE al \in Deviant(p)
    <2> DEFINE sev(t) == LET count == Len(WindowsSlid(p)[t])
                         IN  IF Exceeds(RatesAfter(p.src, count, p.ts), count, 2 * StdMult)
                             THEN "high" ELSE "medium"
    <2>1. PICK t \in Deviating(p) :
              al = [track |-> t, at |-> p.ts, seen |-> Len(sent[t]) + 1,
                    sev |-> sev(t), by |-> "deviation"]
        BY <1>6 DEF Deviant
    <2>2. t \in Tracked(p) /\ t \in Tracks
        BY <1>2, <2>1 DEF Deviating
    <2>3. sev(t) \in {"low", "medium", "high"}
        OBVIOUS
    <2> HIDE DEF sev
    <2>4. t \in AlertTypes \X Sources \X Nat /\ Len(sent[t]) + 1 \in Nat
        BY <1>3, <1>4, <2>2
    <2> QED
        BY <1>1, <2>1, <2>2, <2>3, <2>4 DEF Alert
<1> QED
    BY <1>5, <1>6 DEF Raised

LEMMA MatchedIs ==
    ASSUME NEW p \in Packets, NEW al \in Matched(p)
    PROVE  al \in Alert /\ al.by = "pattern"
<1>1. PICK n \in p.sigs :
          al = [track |-> <<Rules[n].type, p.src, NoPort>>, at |-> p.ts, seen |-> 0,
                sev |-> Rules[n].sev, by |-> "pattern"]
    BY DEF Matched
<1>2. n \in 1..29 /\ p.ts \in Nat /\ p.src \in Sources
    BY DEF Packets
<1>3. Rules[n].sev \in {"low", "medium", "high"} /\ Rules[n].type \in AlertTypes
    BY <1>2, RulesAre DEF AlertTypes
<1>4. NoPort \in Nat /\ 0 \in Nat
    BY DEF NoPort
<1> HIDE DEF NoPort
<1> QED
    BY <1>1, <1>2, <1>3, <1>4 DEF Alert

LEMMA TypesKept ==
    ASSUME DetInv, NEW p, Timely(p), Analyze(p)
    PROVE  DetectorsTyped'
<1> DEFINE flood == <<"syn_flood", p.src, NoPort>>
           count == Len(WindowsSlid(p)[flood])
<1>1. p \in Packets /\ p.ts \in Nat /\ p.src \in Sources
    BY StampIs DEF Timely
<1>2. DetectorsTyped
    BY DEF DetInv
<1>3. flood \in Tracks
    BY <1>1 DEF Tracks, Kinds
<1>4. count \in Nat
    BY <1>3, SlidTyped
<1> HIDE DEF flood, count
<1>5. clock' \in Nat /\ windows' \in [Tracks -> Seq(Entries)] /\ sent' \in [Tracks -> Seq(Entries)]
    BY Slides
<1>6. alerted' \in [Tracks -> Nat]
    <2>1. alerted' = [t \in Tracks |->
              IF t \in Reaching(p) \cup Deviating(p) THEN p.ts ELSE alerted[t]]
        BY DEF Analyze
    <2> QED
        BY <1>1, <1>2, <2>1 DEF DetectorsTyped
<1>7. /\ RatesAfter(p.src, count, p.ts) \in Seq(Nat)
      /\ Len(RatesAfter(p.src, count, p.ts)) <= MaxRates
    BY <1>1, <1>2, <1>4, RatesAfterTyped
<1>8. rates' \in [Sources -> Seq(Nat)] /\ \A src \in Sources : Len(rates'[src]) <= MaxRates
    <2>1. \/ rates' = [rates EXCEPT ![p.src] = RatesAfter(p.src, count, p.ts)]
          \/ rates' = rates
        BY DEF Analyze, flood, count
    <2> QED
        BY <1>1, <1>2, <1>7, <2>1 DEF DetectorsTyped
<1>9. rated' \in [Sources -> Nat]
    <2>1. rated' = [rated EXCEPT ![p.src] = p.ts] \/ rated' = rated
        BY DEF Analyze
    <2> QED
        BY <1>1, <1>2, <2>1 DEF DetectorsTyped
<1>10. alerts' \in SUBSET Alert
    <2>1. alerts' = alerts \cup Matched(p) \cup Raised(p)
        BY DEF Analyze, Raised
    <2> QED
        BY <1>1, <1>2, <2>1, MatchedIs, RaisedIs DEF DetectorsTyped
<1> QED
    BY <1>5, <1>6, <1>8, <1>9, <1>10 DEF DetectorsTyped

(* Reports. *)

BurstOf(t, s, als) ==
    s # << >> /\ MeasuredOf(t[1], s, BetweenOf(s, PeakOf(s) - Window[t[1]], PeakOf(s), Len(s)))
                     >= Threshold[t[1]]
        => \E al \in als : al.track = t /\ al.at > s[Len(s)].ts - Window[t[1]]

JustifiedOf(al, given, als) ==
    LET s == given[al.track]
        width == Window[al.track[1]]
    IN  /\ al.by = "count" =>
               MeasuredOf(al.track[1], s, BetweenOf(s, al.at - width - MaxLate,
                                                    al.at + MaxLate, al.seen))
                   >= Threshold[al.track[1]]
        /\ al.by = "deviation" =>
               \E first \in als : /\ first.track = al.track
                                  /\ first.by = "count"
                                  /\ first.seen < al.seen

LEMMA BurstIs == BurstReported <=> \A t \in Tracks : BurstOf(t, sent[t], alerts)
BY DEF BurstReported, BurstOf, MeasureOf, MeasuredOf, Between, BetweenOf, Peak, PeakOf, Newest

LEMMA BurstIsNext == BurstReported' <=> \A t \in Tracks : BurstOf(t, sent'[t], alerts')
BY DEF BurstReported, BurstOf, MeasureOf, MeasuredOf, Between, BetweenOf, Peak, PeakOf, Newest

LEMMA JustifiedIs == AlertJustified <=> \A al \in alerts : JustifiedOf(al, sent, alerts)
BY DEF AlertJustified, JustifiedOf, MeasureOf, MeasuredOf, Between, BetweenOf

LEMMA JustifiedIsNext == AlertJustified' <=> \A al \in alerts' : JustifiedOf(al, sent', alerts')
BY DEF AlertJustified, JustifiedOf, MeasureOf, MeasuredOf, Between, BetweenOf

LEMMA NewAlerts ==
    ASSUME NEW p, Analyze(p)
    PROVE  /\ alerts' = alerts \cup Matched(p) \cup Raised(p)
           /\ \A t \in Reaching(p) : \E al \in Raised(p) :
                  al.track = t /\ al.at = p.ts /\ al.by = "count"
           /\ \A t \in Deviating(p) : \E al \in Raised(p) :
                  al.track = t /\ al.at = p.ts /\ al.by = "deviation"
<1>1. alerts' = alerts \cup Matched(p) \cup Raised(p)
    BY DEF Analyze, Raised
<1>2. ASSUME NEW t \in Reaching(p)
      PROVE  \E al \in Raised(p) : al.track = t /\ al.at = p.ts /\ al.by = "count"
    <2> DEFINE al == [track |-> t, at |-> p.ts, seen |-> Len(sent[t]) + 1,
                      sev |-> Severity(t[1], Measure(t[1], WindowsSlid(p)[t])), by |-> "count"]
    <2>1. al \in Raised(p)
        BY DEF Raised, Counted
    <2>2. al.track = t /\ al.at = p.ts /\ al.by = "count"
        OBVIOUS
    <2> HIDE DEF al
    <2> QED
        BY <2>1, <2>2
<1>3. ASSUME NEW t \in Deviating(p)
      PROVE  \E al \in Raised(p) : al.track = t /\ al.at = p.ts /\ al.by = "deviation"
    <2> DEFINE al == [track |-> t, at |-> p.ts, seen |-> Len(sent[t]) + 1,
                      sev |-> LET count == Len(WindowsSlid(p)[t])
                              IN  IF Exceeds(RatesAfter(p.src, count, p.ts), count, 2 * StdMult)
                                  THEN "high" ELSE "medium",
                      by |-> "deviation"]
    <2>1. al \in Raised(p)
        BY DEF Raised, Deviant
    <2>2. al.track = t /\ al.at = p.ts /\ al.by = "deviation"
        OBVIOUS
    <2> HIDE DEF al
    <2> QED
        BY <2>1, <2>2
<1> QED
    BY <1>1, <1>2, <1>3

\* A track that reaches its threshold has been reported within its window,
\* now or before.
LEMMA OverIsReported ==
    ASSUME DetInv, NEW p, Timely(p), Analyze(p), NEW t \in Tracked(p),
           Measure(t[1], WindowsSlid(p)[t]) >= Threshold[t[1]]
    PROVE  \E al \in alerts' : /\ al.track = t /\ al.at > p.ts - Window[t[1]]
                               /\ Counting(al)
<1>1. p \in Packets /\ p.ts \in Nat
    BY StampIs DEF Timely
<1>2. t \in Tracks /\ t[1] \in Kinds /\ Window[t[1]] \in Nat \ {0}
    BY <1>1, TrackedIn, TrackIs
<1>3. CASE CooledDown(t, p.ts)
    <2>1. t \in Reaching(p)
        BY <1>3 DEF Reaching
    <2>2. PICK al \in Raised(p) : al.track = t /\ al.at = p.ts /\ al.by = "count"
        BY <2>1, NewAlerts
    <2>3. al \in alerts'
        BY NewAlerts
    <2>4. al.at > p.ts - Window[t[1]]
        BY <1>1, <1>2, <2>2
    <2> QED
        BY <2>2, <2>3, <2>4 DEF Counting
<1>4. CASE ~CooledDown(t, p.ts)
    <2>1. alerted[t] \in Nat
        BY <1>2 DEF DetInv, DetectorsTyped
    <2>2. p.ts - alerted[t] < Window[t[1]]
        BY <1>1, <1>2, <1>4, <2>1 DEF CooledDown
    <2>3. p.ts >= Window[t[1]]
        BY <1>2 DEF Timely
    <2>4. alerted[t] # 0 /\ alerted[t] > p.ts - Window[t[1]]
        BY <1>1, <1>2, <2>1, <2>2, <2>3
    <2>5. PICK al \in alerts : al.track = t /\ al.at = alerted[t] /\ Counting(al)
        BY <1>2, <2>4 DEF DetInv, CooldownsEarned
    <2>6. al \in alerts'
        BY NewAlerts
    <2> QED
        BY <2>4, <2>5, <2>6
<1> QED
    BY <1>3, <1>4

LEMMA CooldownsKept ==
    ASSUME DetInv, NEW p, Timely(p), Analyze(p)
    PROVE  CooldownsEarned'
<1> SUFFICES ASSUME NEW t \in Tracks, alerted'[t] # 0
             PROVE  \E al \in alerts' : al.track = t /\ al.at = alerted'[t] /\ Counting(al)
    BY DEF CooldownsEarned, Counting
<1>1. alerted' = [u \in Tracks |->
          IF u \in Reaching(p) \cup Deviating(p) THEN p.ts ELSE alerted[u]]
    BY DEF Analyze
<1>2. CASE t \in Reaching(p) \cup Deviating(p)
    <2>1. alerted'[t] = p.ts
        BY <1>1, <1>2
    <2>2. PICK al \in Raised(p) : al.track = t /\ al.at = p.ts /\ al.by \in {"count", "deviation"}
        BY <1>2, NewAlerts
    <2>3. al \in alerts' /\ Counting(al)
        BY <2>2, NewAlerts DEF Counting
    <2> QED
        BY <2>1, <2>2, <2>3
<1>3. CASE t \notin Reaching(p) \cup Deviating(p)
    <2>1. alerted'[t] = alerted[t]
        BY <1>1, <1>3
    <2>2. PICK al \in alerts : al.track = t /\ al.at = alerted[t] /\ Counting(al)
        BY <2>1 DEF DetInv, CooldownsEarned
    <2>3. al \in alerts'
        BY NewAlerts
    <2> QED
        BY <2>1, <2>2, <2>3
<1> QED
    BY <1>2, <1>3

\* How the entries given to a track have grown.
LEMMA SentGrows ==
    ASSUME DetInv, NEW p, Timely(p), Analyze(p), NEW t \in Tracks
    PROVE  /\ sent[t] \in Seq(Entries) /\ sent'[t] \in Seq(Entries)
           /\ Len(sent[t]) \in Nat /\ Len(sent'[t]) \in Nat
           /\ Len(sent[t]) <= Len(sent'[t])
           /\ \A i \in 1..Len(sent[t]) : sent'[t][i] = sent[t][i]
           /\ t \in Tracked(p) =>
                  /\ Len(sent'[t]) = Len(sent[t]) + 1
                  /\ sent'[t][Len(sent'[t])].ts = p.ts
                  /\ sent'[t] # << >>
<1>1. sent[t] \in Seq(Entries) /\ Stamp(p) \in Entries /\ Stamp(p).ts = p.ts
    BY StampIs DEF DetInv, DetectorsTyped, Timely
<1>2. Len(sent[t]) \in Nat
    BY <1>1, LenProperties
<1>3. CASE t \in Tracked(p)
    <2>1. sent'[t] = Append(sent[t], Stamp(p))
        BY <1>3, Slides
    <2>2. /\ sent'[t] \in Seq(Entries) /\ sent'[t] # << >> /\ Len(sent'[t]) = Len(sent[t]) + 1
          /\ \A i \in 1..Len(sent[t]) : sent'[t][i] = sent[t][i]
          /\ sent'[t][Len(sent[t]) + 1] = Stamp(p)
        BY <1>1, <2>1, Appended
    <2> QED
        BY <1>1, <1>2, <2>2
<1>4. CASE t \notin Tracked(p)
    <2>1. sent'[t] = sent[t]
        BY <1>4, Slides
    <2> QED
        BY <1>1, <1>2, <1>4, <2>1
<1> QED
    BY <1>3, <1>4

LEMMA PlacesKept ==
    ASSUME DetInv, NEW p, Timely(p), Analyze(p)
    PROVE  AlertsPlaced'
<1> SUFFICES ASSUME NEW al \in alerts', Counting(al)
             PROVE  al.track \in Tracks /\ al.seen <= Len(sent'[al.track])
    BY DEF AlertsPlaced, Counting
<1>1. CASE al \in alerts
    <2>1. al.track \in Tracks /\ al.seen <= Len(sent[al.track]) /\ al.seen \in Nat
        BY <1>1 DEF DetInv, AlertsPlaced, DetectorsTyped, Alert
    <2>2. Len(sent[al.track]) <= Len(sent'[al.track])
          /\ Len(sent[al.track]) \in Nat /\ Len(sent'[al.track]) \in Nat
        BY <2>1, SentGrows
    <2> QED
        BY <2>1, <2>2
<1>2. CASE al \in Raised(p)
    <2>1. al.track \in Tracked(p) /\ al.track \in Tracks /\ al.seen = Len(sent[al.track]) + 1
        BY <1>2, RaisedIs
    <2>2. Len(sent'[al.track]) = Len(sent[al.track]) + 1 /\ Len(sent[al.track]) \in Nat
        BY <2>1, SentGrows
    <2> QED
        BY <2>1, <2>2
<1>3. CASE al \in Matched(p)
    BY <1>3, MatchedIs DEF Counting, Timely
<1> QED
    BY <1>1, <1>2, <1>3, NewAlerts

LEMMA OneRate ==
    ASSUME NEW src, rates[src] = << >>, NEW count \in Nat, NEW ts
    PROVE  ~(Len(RatesAfter(src, count, ts)) >= 3)
<1>1. Len(Append(<< >>, count)) = 1 /\ Append(<< >>, count) \in Seq(Nat)
    BY AppendProperties, EmptySeq
<1>2. Len(Tail(Append(<< >>, count))) = 0
    BY <1>1, HeadTailProperties, EmptySeq
<1>3. Len(Pushed(<< >>, count)) \in {0, 1}
    BY <1>1, <1>2 DEF Pushed
<1>4. Len(RatesAfter(src, count, ts)) \in {0, 1}
    BY <1>3, EmptySeq DEF RatesAfter
<1> DEFINE n == Len(RatesAfter(src, count, ts))
<1>5. n \in {0, 1}
    BY <1>4
<1> HIDE DEF n
<1>6. ~(n >= 3)
    BY <1>5
<1> QED
    BY <1>6 DEF n

\* The first rate a source is remembered with is one that was reported.
LEMMA RatesKept ==
    ASSUME DetInv, NEW p, Timely(p), Analyze(p)
    PROVE  RatesEarned'
<1> SUFFICES ASSUME NEW src \in Sources, rates'[src] # << >>
             PROVE  \E al \in alerts' : /\ al.track = <<"syn_flood", src, NoPort>>
                                        /\ al.by = "count"
    BY DEF RatesEarned, CountedFirst
<1> DEFINE flood == <<"syn_flood", src, NoPort>>
           count == Len(WindowsSlid(p)[<<"syn_flood", p.src, NoPort>>])
<1>1. p \in Packets /\ p.ts \in Nat /\ p.src \in Sources
    BY StampIs DEF Timely
<1>2. flood \in Tracks /\ flood[1] = "syn_flood"
    BY DEF Tracks, Kinds
<1> HIDE DEF flood, count
<1>3. \A al \in alerts : al \in alerts'
    BY NewAlerts
<1>4. CASE rates[src] # << >>
    BY <1>3, <1>4 DEF DetInv, RatesEarned, CountedFirst
<1>5. CASE rates[src] = << >>
    <2>1. rates' = IF <<"syn_flood", p.src, NoPort>> \in Tracked(p)
                   THEN [rates EXCEPT ![p.src] = RatesAfter(p.src, count, p.ts)] ELSE rates
        BY DEF Analyze, count
    <2>2. rates \in [Sources -> Seq(Nat)]
        BY DEF DetInv, DetectorsTyped
    <2>3. /\ src = p.src /\ flood \in Tracked(p)
          /\ RatesAfter(p.src, count, p.ts) # rates[p.src]
        BY <1>1, <1>5, <2>1, <2>2 DEF flood
    <2>4. HasBaseline(src, count)
        BY <2>3 DEF RatesAfter, Snapshot
    <2>5. count >= Threshold["syn_flood"]
        BY <1>5, <2>4, NoRates DEF HasBaseline
    <2>6. count = Len(WindowsSlid(p)[flood])
        BY <2>3 DEF count, flood
    <2>7. Measure(flood[1], WindowsSlid(p)[flood]) >= Threshold[flood[1]]
        BY <1>2, <2>5, <2>6 DEF Measure
    <2>8. PICK al \in alerts' : al.track = flood /\ Counting(al)
        BY <2>3, <2>7, OverIsReported
    <2>9. CASE al \in Raised(p) \/ al \in Matched(p)
        <3>1. al \in Raised(p) /\ al.by \in {"count", "deviation"}
            BY <1>1, <2>8, <2>9, MatchedIs, RaisedIs DEF Counting
        <3>2. CASE al.by = "deviation"
            <4>1. flood \in Deviating(p)
                BY <2>8, <3>1, <3>2, RaisedIs
            <4>2. Len(RatesAfter(p.src, Len(WindowsSlid(p)[flood]), p.ts)) >= 3
                BY <4>1 DEF Deviating
            <4>3. Len(RatesAfter(src, count, p.ts)) >= 3
                BY <2>3, <2>6, <4>2
            <4>4. count \in Nat
                BY <1>2, <2>6, SlidTyped
            <4>5. ~(Len(RatesAfter(src, count, p.ts)) >= 3)
                BY <1>5, <4>4, OneRate
            <4> QED
                BY <4>3, <4>5
        <3> QED
            BY <2>8, <3>1, <3>2 DEF flood
    <2>10. CASE al \in alerts
        <3>1. al.by \in {"count", "deviation"}
            BY <2>8, <2>10 DEF DetInv, DetectorsTyped, Alert, Counting
        <3>2. CASE al.by = "deviation"
            <4>1. JustifiedOf(al, sent, alerts)
                BY <2>10, JustifiedIs DEF DetInv
            <4>2. PICK first \in alerts : first.track = flood /\ first.by = "count"
                BY <2>8, <3>2, <4>1 DEF JustifiedOf
            <4> QED
                BY <1>3, <4>2 DEF flood
        <3> QED
            BY <2>8, <3>1, <3>2 DEF flood
    <2> QED
        BY <2>8, <2>9, <2>10, NewAlerts
<1> QED
    BY <1>4, <1>5

LEMMA BurstsKept ==
    ASSUME DetInv, NEW p, Timely(p), Analyze(p)
    PROVE  BurstReported'
<1> SUFFICES ASSUME NEW t \in Tracks
             PROVE  BurstOf(t, sent'[t], alerts')
    BY BurstIsNext
<1>1. p \in Packets /\ p.ts \in Nat
    BY StampIs DEF Timely
<1>2. t[1] \in Kinds /\ Window[t[1]] \in Nat /\ Threshold[t[1]] \in Nat
    BY TrackIs
<1>3. CASE t \notin Tracked(p)
    <2>1. sent'[t] = sent[t] /\ BurstOf(t, sent[t], alerts)
        BY <1>3, Slides, BurstIs DEF DetInv
    <2>2. \A al \in alerts : al \in alerts'
        BY NewAlerts
    <2> QED
        BY <2>1, <2>2 DEF BurstOf
<1>4. CASE t \in Tracked(p)
    <2> DEFINE s == sent'[t]
               w == windows'[t]
               peak == PeakOf(s)
               M == MeasuredOf(t[1], s, BetweenOf(s, peak - Window[t[1]], peak, Len(s)))
    <2>1. /\ s \in Seq(Entries) /\ s # << >> /\ s[Len(s)].ts = p.ts
          /\ Kept(w, s, Window[t[1]], clock') /\ clock' \in Nat
        BY <1>4, SentGrows, Slides
    <2>2. UpTo(s, clock')
        BY <2>1 DEF Kept
    <2>3. peak \in Nat /\ UpTo(s, peak)
        BY <2>1, <2>2, PeakIs
    <2>4. M <= Measure(t[1], w) /\ w = WindowsSlid(p)[t] /\ Measure(t[1], w) \in Nat
        BY <1>2, <2>1, <2>3, BurstIsKept, Slides, SlidTyped
    <2>5. M \in Nat
        BY <2>1, LenProperties, MoreMeasured DEF BetweenOf
    <2> SUFFICES ASSUME M >= Threshold[t[1]]
                 PROVE  \E al \in alerts' : al.track = t /\ al.at > p.ts - Window[t[1]]
        BY <2>1 DEF BurstOf
    <2> HIDE DEF M, w, s, peak
    <2>6. Measure(t[1], WindowsSlid(p)[t]) >= Threshold[t[1]]
        BY <1>2, <2>4, <2>5
    <2> QED
        BY <1>4, <2>6, OverIsReported
<1> QED
    BY <1>3, <1>4

LEMMA JustifiedKept ==
    ASSUME DetInv, NEW p, Timely(p), Analyze(p)
    PROVE  AlertJustified'
<1> SUFFICES ASSUME NEW al \in alerts'
             PROVE  JustifiedOf(al, sent', alerts')
    BY JustifiedIsNext
<1>1. p \in Packets /\ p.ts \in Nat
    BY StampIs DEF Timely
<1>2. \A old \in alerts : old \in alerts'
    BY NewAlerts
<1>3. CASE al \in Matched(p)
    <2>1. al.by = "pattern"
        BY <1>1, <1>3, MatchedIs
    <2> QED
        BY <2>1 DEF JustifiedOf
<1>4. CASE al \in alerts
    <2>1. JustifiedOf(al, sent, alerts)
        BY <1>4, JustifiedIs DEF DetInv
    <2>2. CASE ~Counting(al)
        BY <2>2 DEF Counting, JustifiedOf
    <2>3. CASE Counting(al)
        <3> DEFINE t == al.track
        <3>1. t \in Tracks /\ al.seen <= Len(sent[t]) /\ al.seen \in Nat
            BY <1>4, <2>3 DEF DetInv, AlertsPlaced, DetectorsTyped, Alert
        <3>2. Len(sent[t]) \in Nat /\ \A i \in 1..Len(sent[t]) : sent'[t][i] = sent[t][i]
            BY <3>1, SentGrows
        <3> HIDE DEF t
        <3>3. \A i \in 1..al.seen : sent'[t][i] = sent[t][i]
            BY <3>1, <3>2
        <3>4. ASSUME NEW lo, NEW hi
              PROVE  MeasuredOf(t[1], sent'[t], BetweenOf(sent'[t], lo, hi, al.seen))
                         = MeasuredOf(t[1], sent[t], BetweenOf(sent[t], lo, hi, al.seen))
            <4> DEFINE S == BetweenOf(sent[t], lo, hi, al.seen)
            <4>1. BetweenOf(sent'[t], lo, hi, al.seen) = S
                BY <3>3 DEF BetweenOf
            <4>2. \A i \in S : sent'[t][i] = sent[t][i]
                BY <3>3 DEF BetweenOf
            <4> HIDE DEF S
            <4>3. {sent'[t][i].port : i \in S} = {sent[t][i].port : i \in S}
                BY <4>2
            <4> QED
                BY <4>1, <4>3 DEF MeasuredOf, S
        <3> QED
            BY <1>2, <2>1, <3>4 DEF JustifiedOf, t
    <2> QED
        BY <2>2, <2>3
<1>5. CASE al \in Raised(p)
    <2> DEFINE t == al.track
               s == sent'[t]
    <2>1. /\ t \in Tracked(p) /\ t \in Tracks /\ al.at = p.ts
          /\ al.seen = Len(sent[t]) + 1
          /\ al.by \in {"count", "deviation"}
          /\ al.by = "count" => t \in Reaching(p)
          /\ al.by = "deviation" => t \in Deviating(p)
        BY <1>5, RaisedIs
    <2>2. /\ s \in Seq(Entries) /\ s # << >> /\ s[Len(s)].ts = p.ts /\ al.seen = Len(s)
          /\ Len(s) \in Nat
          /\ Kept(windows'[t], s, Window[t[1]], clock')
          /\ clock' \in Nat /\ clock' <= p.ts + MaxLate
        BY <2>1, SentGrows, Slides
    <2>3. t[1] \in Kinds /\ Window[t[1]] \in Nat /\ Threshold[t[1]] \in Nat
        BY <2>1, TrackIs
    <2> HIDE DEF t, s
    <2>4. CASE al.by = "count"
        <3> DEFINE M == MeasuredOf(t[1], s, BetweenOf(s, p.ts - Window[t[1]] - MaxLate,
                                                      p.ts + MaxLate, Len(s)))
        <3>1. Measure(t[1], windows'[t]) <= M
            BY <1>1, <2>2, <2>3, KeptIsRecent
        <3>2. Measure(t[1], windows'[t]) >= Threshold[t[1]]
            BY <2>1, <2>4, Slides DEF Reaching
        <3>3. Measure(t[1], windows'[t]) \in Nat
            BY <2>1, Slides, SlidTyped
        <3>4. M \in Nat
            BY <2>2, MoreMeasured DEF BetweenOf
        <3> HIDE DEF M
        <3>5. M >= Threshold[t[1]]
            BY <2>3, <3>1, <3>2, <3>3, <3>4
        <3> QED
            BY <2>1, <2>2, <2>4, <3>5 DEF JustifiedOf, M, t, s
    <2>5. CASE al.by = "deviation"
        <3>1. t \in Deviating(p)
            BY <2>1, <2>5
        <3>2. t[1] = "syn_flood" /\ t = <<"syn_flood", p.src, NoPort>>
            BY <1>1, <2>1, <3>1, TrackedIn DEF Deviating
        <3>3. Len(RatesAfter(p.src, Len(WindowsSlid(p)[t]), p.ts)) >= 3
            BY <3>1 DEF Deviating
        <3>4. p.src \in Sources
            BY <1>1, StampIs
        <3>5. rates[p.src] # << >>
            <4>1. Len(WindowsSlid(p)[t]) \in Nat
                BY <2>1, SlidTyped
            <4> QED
                BY <3>3, <4>1, OneRate
        <3>6. PICK first \in alerts : first.track = t /\ first.by = "count"
            BY <3>2, <3>4, <3>5 DEF DetInv, RatesEarned, CountedFirst
        <3>7. first.seen <= Len(sent[t]) /\ first.seen \in Nat
            BY <3>6 DEF DetInv, AlertsPlaced, DetectorsTyped, Alert, Counting
        <3>8. first.seen < al.seen
            <4>1. Len(sent[t]) \in Nat
                BY <2>1, SentGrows
            <4> QED
                BY <2>1, <3>7, <4>1
        <3> QED
            BY <1>2, <2>5, <3>6, <3>8 DEF JustifiedOf, t
    <2> QED
        BY <2>1, <2>4, <2>5
<1> QED
    BY <1>3, <1>4, <1>5, NewAlerts

LEMMA DetectorsKeep ==
    ASSUME DetInv, NEW p, Timely(p), Analyze(p)
    PROVE  DetInv'
<1>1. DetectorsTyped' /\ CooldownsEarned' /\ AlertsPlaced' /\ RatesEarned'
    BY TypesKept, CooldownsKept, PlacesKept, RatesKept
<1>2. BurstReported' /\ AlertJustified'
    BY BurstsKept, JustifiedKept
<1>3. clock' >= Start
    BY Slides
<1>4. WindowsKept'
    BY Slides DEF WindowsKept
<1> QED
    BY <1>1, <1>2, <1>3, <1>4 DEF DetInv
-------------------------------------------------------------------------------
(* What the generator plans. *)

LEMMA SynIs == \A port \in {NoPort} \cup Ports : Syn(port) \in Shapes
BY DEF Syn, Shapes

LEMMA PushIs ==
    \A port \in {NoPort} \cup Ports, sigs \in SUBSET (1..29) : Push(port, sigs) \in Shapes
BY DEF Syn, Push, Shapes

LEMMA SlowIs ==
    \A port \in {NoPort} \cup Ports, sigs \in SUBSET (1..29) :
        [Push(port, sigs) EXCEPT !.slow = TRUE] \in Shapes
BY DEF Syn, Push, Shapes

LEMMA DatagramIs ==
    \A proto \in {"TCP", "UDP", "ICMP"}, port \in {NoPort} \cup Ports,
       sigs \in SUBSET (1..29) : Datagram(proto, port, sigs) \in Shapes
BY DEF Datagram, Shapes

LEMMA PortsAre == /\ ScanPorts \subseteq Ports /\ FloodPorts \subseteq Ports
                  /\ SensitivePorts \subseteq Ports
                  /\ {53, 80, 389, 443, 8080} \subseteq Ports
BY DetectionAssumption, SourcesAssumption

LEMMA ThresholdsAre == \A kind \in Kinds : Threshold[kind] \in Int
BY DetectionAssumption

LEMMA OneOrTwo ==
    ASSUME NEW S, NEW x \in S, NEW y \in S
    PROVE  << x >> \in Seq(S) /\ << x, y >> \in Seq(S)
OBVIOUS

LEMMA TimesIs ==
    ASSUME NEW n \in Int, NEW ip \in Sources, NEW shapes \in SUBSET Shapes
    PROVE  Times(n, ip, shapes) \in LoopOf /\ << Times(n, ip, shapes) >> \in Seq(LoopOf)
<1>1. Times(n, ip, shapes) \in LoopOf
    BY DEF Times, Loop, LoopOf
<1> QED
    BY <1>1, OneOrTwo

LEMMA BrowsingIs == Browsing \in Seq(LoopOf)
<1> DEFINE loop == Loop(2, 4, Sources, TRUE, {Push(80, {}), Push(443, {})})
<1>0. 80 \in {NoPort} \cup Ports /\ 443 \in {NoPort} \cup Ports /\ {} \in SUBSET (1..29)
    BY PortsAre
<1>1. {Push(80, {}), Push(443, {})} \in SUBSET Shapes
    BY <1>0, PushIs
<1> HIDE DEF loop
<1>2. loop \in LoopOf
    BY <1>1 DEF loop, Loop, LoopOf
<1>3. Browsing = [i \in 1..Sessions |-> loop]
    BY DEF Browsing, loop
<1>4. Sessions \in Nat
    BY SourcesAssumption
<1> QED
    BY <1>2, <1>3, <1>4

LEMMA ProbesAre ==
    ASSUME NEW ip \in Sources, NEW target \in SensitivePorts
    PROVE  /\ DOMAIN Probes(ip, target) = {"port_scan", "brute_force", "syn_flood"}
           /\ \A attack \in DOMAIN Probes(ip, target) :
                  Probes(ip, target)[attack] \in Seq(LoopOf)
<1> DEFINE scan  == << Times(Threshold["port_scan"] + 6, ip, {Syn(port) : port \in ScanPorts}) >>
           brute == << Times(Threshold["brute_force"] + 5, ip, {Syn(target)}) >>
           many  == Loop(Threshold["syn_flood"] + 5, Threshold["syn_flood"] + 5,
                         Sources, FALSE, {Syn(80)})
           flood == Times(2 * Threshold["syn_flood"] + 5, ip, {Syn(443)})
           both  == << many, flood >>
<1>1. Probes(ip, target) = [port_scan |-> scan, brute_force |-> brute, syn_flood |-> both]
    BY DEF Probes
<1>2. /\ Threshold["port_scan"] \in Int /\ Threshold["brute_force"] \in Int
      /\ Threshold["syn_flood"] \in Int
    BY ThresholdsAre DEF Kinds
<1>3. {Syn(port) : port \in ScanPorts} \in SUBSET Shapes
    BY PortsAre, SynIs
<1>4. {Syn(target)} \in SUBSET Shapes /\ {Syn(80)} \in SUBSET Shapes /\ {Syn(443)} \in SUBSET Shapes
    BY PortsAre, SynIs
<1>5. scan \in Seq(LoopOf)
    BY <1>2, <1>3, TimesIs
<1>6. brute \in Seq(LoopOf)
    BY <1>2, <1>4, TimesIs
<1>7. flood \in LoopOf
    BY <1>2, <1>4, TimesIs
<1>8. many \in LoopOf
    BY <1>2, <1>4 DEF Loop, LoopOf
<1> HIDE DEF scan, brute, many, flood
<1>9. both \in Seq(LoopOf)
    BY <1>7, <1>8, OneOrTwo
<1> HIDE DEF both
<1> QED
    BY <1>1, <1>5, <1>6, <1>9

LEMMA FloodsAre ==
    ASSUME NEW ip \in Sources
    PROVE  /\ DOMAIN Floods(ip) = {"slowloris", "udp_flood", "icmp_flood"}
           /\ \A attack \in DOMAIN Floods(ip) : Floods(ip)[attack] \in Seq(LoopOf)
<1> DEFINE slow == << Times(10, ip, {[Push(80, {}) EXCEPT !.slow = TRUE]}) >>
           udp  == << Times(18, ip, {Datagram("UDP", port, {}) : port \in FloodPorts}) >>
           icmp == << Times(18, ip, {Datagram("ICMP", NoPort, {})}) >>
<1>1. Floods(ip) = [slowloris |-> slow, udp_flood |-> udp, icmp_flood |-> icmp]
    BY DEF Floods
<1>2. [Push(80, {}) EXCEPT !.slow = TRUE] \in Shapes
    BY PortsAre, SlowIs
<1>3. \A port \in FloodPorts : Datagram("UDP", port, {}) \in Shapes
    BY PortsAre, DatagramIs
<1>4. Datagram("ICMP", NoPort, {}) \in Shapes
    BY DatagramIs
<1>5. slow \in Seq(LoopOf)
    <2> DEFINE shape == [Push(80, {}) EXCEPT !.slow = TRUE]
    <2>1. shape \in Shapes
        BY <1>2
    <2> HIDE DEF shape
    <2>2. << Times(10, ip, {shape}) >> \in Seq(LoopOf)
        BY <2>1, TimesIs
    <2> QED
        BY <2>2 DEF shape
<1>6. udp \in Seq(LoopOf)
    <2>1. {Datagram("UDP", port, {}) : port \in FloodPorts} \in SUBSET Shapes
        BY <1>3
    <2> QED
        BY <2>1, TimesIs
<1>7. icmp \in Seq(LoopOf)
    <2>1. {Datagram("ICMP", NoPort, {})} \in SUBSET Shapes
        BY <1>4
    <2> QED
        BY <2>1, TimesIs
<1> HIDE DEF slow, udp, icmp
<1> QED
    BY <1>1, <1>5, <1>6, <1>7

\* A few requests with a payload.
LEMMA PayloadIs ==
    ASSUME NEW ip \in Sources, NEW port \in {53, 80, 389, 443, 8080},
           NEW rules \in SUBSET (1..29), NEW n \in Int
    PROVE  << Times(n, ip, {Push(port, rules)}) >> \in Seq(LoopOf)
<1>1. port \in {NoPort} \cup Ports
    BY PortsAre
<1>2. {Push(port, rules)} \in SUBSET Shapes
    BY <1>1, PushIs
<1> QED
    BY <1>2, TimesIs

LEMMA PayloadsAre ==
    ASSUME NEW ip \in Sources
    PROVE  /\ DOMAIN Payloads(ip) =
                  {"sql_injection", "xss", "log4shell", "cloud_ssrf", "path_traversal",
                   "php_rce", "shellshock", "http_request_smuggling", "api_abuse",
                   "credential_stuffing", "jwt_attack", "dns_tunneling"}
           /\ \A attack \in DOMAIN Payloads(ip) : Payloads(ip)[attack] \in Seq(LoopOf)
<1> DEFINE put(port, rules) == << Times(1, ip, {Push(port, rules)}) >>
           four == << Times(4, ip, {Push(80, {22})}) >>
           dns  == << Times(1, ip, {Datagram("UDP", 53, {24})}) >>
<1>1. ASSUME NEW port \in {53, 80, 389, 443, 8080}, NEW rules \in SUBSET (1..29)
      PROVE  put(port, rules) \in Seq(LoopOf)
    <2>1. 1 \in Int
        OBVIOUS
    <2> QED
        BY <2>1, PayloadIs
<1>2. four \in Seq(LoopOf)
    <2>1. 4 \in Int /\ {22} \in SUBSET (1..29)
        OBVIOUS
    <2> QED
        BY <2>1, PayloadIs
<1>3. dns \in Seq(LoopOf)
    <2>1. {24} \in SUBSET (1..29) /\ 53 \in {NoPort} \cup Ports /\ 1 \in Int
        BY PortsAre
    <2>2. {Datagram("UDP", 53, {24})} \in SUBSET Shapes
        BY <2>1, DatagramIs
    <2> QED
        BY <2>1, <2>2, TimesIs
<1>4. Payloads(ip) =
          [sql_injection |-> put(80, {1, 4}), xss |-> put(80, {6}), log4shell |-> put(443, {17}),
           cloud_ssrf |-> put(80, {18}), path_traversal |-> put(80, {10, 11}),
           php_rce |-> put(80, {19}), shellshock |-> put(80, {16}),
           http_request_smuggling |-> put(80, {20}), api_abuse |-> put(8080, {21}),
           credential_stuffing |-> four, jwt_attack |-> put(443, {23}), dns_tunneling |-> dns]
    BY DEF Payloads
<1> HIDE DEF put, four, dns
<1>5. /\ put(80, {1, 4}) \in Seq(LoopOf) /\ put(80, {6}) \in Seq(LoopOf)
      /\ put(443, {17}) \in Seq(LoopOf) /\ put(80, {18}) \in Seq(LoopOf)
      /\ put(80, {10, 11}) \in Seq(LoopOf) /\ put(80, {19}) \in Seq(LoopOf)
      /\ put(80, {16}) \in Seq(LoopOf) /\ put(80, {20}) \in Seq(LoopOf)
      /\ put(8080, {21}) \in Seq(LoopOf) /\ put(443, {23}) \in Seq(LoopOf)
    <2>1. {1, 4} \in SUBSET (1..29) /\ {10, 11} \in SUBSET (1..29)
        OBVIOUS
    <2>2. put(80, {1, 4}) \in Seq(LoopOf)
        BY <1>1, <2>1
    <2>3. put(80, {10, 11}) \in Seq(LoopOf)
        BY <1>1, <2>1
    <2>4. ASSUME NEW port \in {53, 80, 389, 443, 8080}, NEW rule \in 1..29
          PROVE  put(port, {rule}) \in Seq(LoopOf)
        BY <1>1
    <2>5. put(80, {6}) \in Seq(LoopOf) /\ put(80, {16}) \in Seq(LoopOf)
        BY <2>4
    <2>6. put(80, {18}) \in Seq(LoopOf) /\ put(80, {19}) \in Seq(LoopOf)
        BY <2>4
    <2>8. put(80, {20}) \in Seq(LoopOf)
        BY <2>4
    <2>9. put(443, {17}) \in Seq(LoopOf) /\ put(443, {23}) \in Seq(LoopOf)
        BY <2>4
    <2>7. put(8080, {21}) \in Seq(LoopOf)
        BY <2>4
    <2> QED
        BY <2>2, <2>3, <2>5, <2>6, <2>7, <2>8, <2>9
<1> QED
    BY <1>2, <1>3, <1>4, <1>5

LEMMA MorePayloadsAre ==
    ASSUME NEW ip \in Sources
    PROVE  \A attack \in {"command_injection", "ldap_injection", "xxe", "ssti",
                          "insecure_deserialization"} :
               MorePayloads(ip)[attack] \in Seq(LoopOf)
<1> DEFINE one(port, rule) == << Times(1, ip, {Push(port, {rule})}) >>
<1>1. ASSUME NEW port \in {53, 80, 389, 443, 8080}, NEW rule \in 1..29
      PROVE  one(port, rule) \in Seq(LoopOf)
    <2>1. {rule} \in SUBSET (1..29) /\ 1 \in Int
        OBVIOUS
    <2> QED
        BY <2>1, PayloadIs
<1>2. MorePayloads(ip) =
          [command_injection |-> one(80, 13), ldap_injection |-> one(389, 25),
           xxe |-> one(80, 26), ssti |-> one(80, 27),
           insecure_deserialization |-> one(8080, 28)]
    BY DEF MorePayloads
<1> HIDE DEF one
<1>3. /\ one(80, 13) \in Seq(LoopOf) /\ one(389, 25) \in Seq(LoopOf)
      /\ one(80, 26) \in Seq(LoopOf) /\ one(80, 27) \in Seq(LoopOf)
      /\ one(8080, 28) \in Seq(LoopOf)
    BY <1>1
<1> QED
    BY <1>2, <1>3

LEMMA PlanIs ==
    ASSUME NEW attack \in Attacks \cup {"normal"}, NEW ip \in Sources,
           NEW target \in SensitivePorts
    PROVE  Plan(attack, ip, target) \in Seq(LoopOf)
<1>1. CASE attack = "normal"
    BY <1>1, BrowsingIs DEF Plan
<1>2. CASE attack # "normal" /\ attack \in DOMAIN Probes(ip, target)
    BY <1>2, ProbesAre DEF Plan
<1>3. CASE attack # "normal" /\ attack \notin DOMAIN Probes(ip, target) /\ attack \in DOMAIN Floods(ip)
    BY <1>3, FloodsAre DEF Plan
<1>4. CASE /\ attack # "normal" /\ attack \notin DOMAIN Probes(ip, target)
           /\ attack \notin DOMAIN Floods(ip) /\ attack \in DOMAIN Payloads(ip)
    BY <1>4, PayloadsAre DEF Plan
<1>5. CASE /\ attack # "normal" /\ attack \notin DOMAIN Probes(ip, target)
           /\ attack \notin DOMAIN Floods(ip) /\ attack \notin DOMAIN Payloads(ip)
    <2>1. attack \in {"command_injection", "ldap_injection", "xxe", "ssti",
                      "insecure_deserialization"}
        BY <1>5, ProbesAre, FloodsAre, PayloadsAre DEF Attacks
    <2>2. Plan(attack, ip, target) = MorePayloads(ip)[attack]
        BY <1>5 DEF Plan
    <2> QED
        BY <2>1, <2>2, MorePayloadsAre
<1> QED
    BY <1>1, <1>2, <1>3, <1>4, <1>5

LEMMA Unmoved ==
    ASSUME DetInv, UNCHANGED detectors
    PROVE  DetInv'
<1>1. /\ clock' = clock /\ windows' = windows /\ alerted' = alerted /\ rates' = rates
      /\ rated' = rated /\ sent' = sent /\ alerts' = alerts
    BY DEF detectors
<1>2. DetectorsTyped'
    BY <1>1 DEF DetInv, DetectorsTyped
<1>3. WindowsKept'
    BY <1>1 DEF DetInv, WindowsKept
<1>4. CooldownsEarned' /\ AlertsPlaced' /\ RatesEarned'
    BY <1>1 DEF DetInv, CooldownsEarned, AlertsPlaced, RatesEarned, CountedFirst, Counting
<1>5. BurstReported'
    BY <1>1, BurstIs, BurstIsNext DEF DetInv
<1>6. AlertJustified'
    BY <1>1, JustifiedIs, JustifiedIsNext DEF DetInv
<1> QED
    BY <1>1, <1>2, <1>3, <1>4, <1>5, <1>6 DEF DetInv
-------------------------------------------------------------------------------
(* The steps of the sources. *)

SceneOf(s) ==
    /\ s = [sniffed |-> s.sniffed, asked |-> s.asked, pauses |-> s.pauses, steps |-> s.steps]
    /\ s.sniffed \in [DOMAIN s.sniffed -> Nat]
    /\ DOMAIN s.sniffed \subseteq Shapes
    /\ s.asked \subseteq Attacks \cup {"normal"}
    /\ s.pauses \in Nat
    /\ s.steps \subseteq Int
    /\ \A d \in s.steps : d >= -MaxLate

Jobs == [attack : Attacks \cup {"normal"}, ip : Sources, left : Seq(LoopOf),
         since : Nat, last : Nat, ports : SUBSET ({NoPort} \cup Ports)]

SourcesInv ==
    /\ SceneOf(scene)
    /\ job # None => job \in Jobs

Inv == DetInv /\ SourcesInv

LEMMA MadeIsTimely ==
    ASSUME DetInv, SceneOf(scene), NEW shape \in Shapes, NEW src \in Sources,
           NEW d \in scene.steps
    PROVE  Timely(Made(shape, src, clock + d)) /\ clock + d \in Nat
<1> DEFINE p == Made(shape, src, clock + d)
<1>1. /\ clock \in Nat /\ clock >= Start /\ Start \in Nat /\ MaxLate \in Nat
      /\ d \in Int /\ d >= -MaxLate
    BY DetectionAssumption DEF DetInv, DetectorsTyped, SceneOf
<1>2. \A kind \in Kinds : Window[kind] + MaxLate <= Start /\ Window[kind] \in Nat
    BY DetectionAssumption
<1>3. \A kind \in Kinds : clock + d >= Window[kind]
    BY <1>1, <1>2
<1>4. clock + d \in Nat
    <2>1. "icmp_flood" \in Kinds
        BY DEF Kinds
    <2> QED
        BY <1>1, <1>2, <1>3, <2>1
<1>5. p.ts = clock + d /\ p \in Packets
    BY <1>4 DEF Made, Shapes, Packets
<1> QED
    BY <1>1, <1>3, <1>4, <1>5 DEF Timely

LEMMA Scenery ==
    ASSUME NEW s, SceneOf(s)
    PROVE  /\ \A sniffed : [s EXCEPT !.sniffed = sniffed]
                  = [sniffed |-> sniffed, asked |-> s.asked, pauses |-> s.pauses, steps |-> s.steps]
           /\ \A asked : [s EXCEPT !.asked = asked]
                  = [sniffed |-> s.sniffed, asked |-> asked, pauses |-> s.pauses, steps |-> s.steps]
           /\ \A pauses : [s EXCEPT !.pauses = pauses]
                  = [sniffed |-> s.sniffed, asked |-> s.asked, pauses |-> pauses, steps |-> s.steps]
<1> DEFINE r == [sniffed |-> s.sniffed, asked |-> s.asked, pauses |-> s.pauses, steps |-> s.steps]
<1>1. s = r
    BY DEF SceneOf
<1>2. \A sniffed : [r EXCEPT !.sniffed = sniffed]
          = [sniffed |-> sniffed, asked |-> s.asked, pauses |-> s.pauses, steps |-> s.steps]
    OBVIOUS
<1>3. \A asked : [r EXCEPT !.asked = asked]
          = [sniffed |-> s.sniffed, asked |-> asked, pauses |-> s.pauses, steps |-> s.steps]
    OBVIOUS
<1>4. \A pauses : [r EXCEPT !.pauses = pauses]
          = [sniffed |-> s.sniffed, asked |-> s.asked, pauses |-> pauses, steps |-> s.steps]
    OBVIOUS
<1> HIDE DEF r
<1> QED
    BY <1>1, <1>2, <1>3, <1>4

LEMMA SniffedKeeps ==
    ASSUME Inv, Sniffed
    PROVE  Inv'
<1>1. PICK shape \in DOMAIN scene.sniffed, src \in Sources, d \in scene.steps :
          /\ scene.sniffed[shape] > 0
          /\ Analyze(Made(shape, src, clock + d))
          /\ scene' = [scene EXCEPT !.sniffed[shape] = @ - 1]
    BY DEF Sniffed
<1>2. DetInv /\ SceneOf(scene) /\ shape \in Shapes
    BY DEF Inv, SourcesInv, SceneOf
<1>3. DetInv'
    BY <1>1, <1>2, MadeIsTimely, DetectorsKeep
<1> DEFINE sniffed == [scene.sniffed EXCEPT ![shape] = @ - 1]
<1>4. sniffed \in [DOMAIN scene.sniffed -> Nat] /\ DOMAIN sniffed = DOMAIN scene.sniffed
    BY <1>1, <1>2 DEF SceneOf
<1>5. scene' = [scene EXCEPT !.sniffed = sniffed]
    BY <1>1
<1> HIDE DEF sniffed
<1>6. scene' = [sniffed |-> sniffed, asked |-> scene.asked, pauses |-> scene.pauses,
                steps |-> scene.steps]
    BY <1>2, <1>5, Scenery
<1>7. SceneOf(scene')
    BY <1>2, <1>4, <1>6 DEF SceneOf
<1>8. job' = job
    BY DEF Sniffed
<1> QED
    BY <1>3, <1>7, <1>8 DEF Inv, SourcesInv

LEMMA AskKeeps ==
    ASSUME Inv, Ask
    PROVE  Inv'
<1>1. PICK attack \in scene.asked, ip \in Sources, target \in SensitivePorts :
          /\ job' = [attack |-> attack, ip |-> ip, left |-> Plan(attack, ip, target),
                     since |-> clock, last |-> clock, ports |-> {}]
          /\ scene' = [scene EXCEPT !.asked = @ \ {attack}]
    BY DEF Ask
<1>2. DetInv /\ SceneOf(scene) /\ clock \in Nat /\ UNCHANGED detectors
    BY DEF Inv, SourcesInv, DetInv, DetectorsTyped, Ask
<1>3. attack \in Attacks \cup {"normal"}
    BY <1>2 DEF SceneOf
<1>4. Plan(attack, ip, target) \in Seq(LoopOf)
    BY <1>3, PlanIs
<1>5. job' \in Jobs
    BY <1>1, <1>2, <1>3, <1>4 DEF Jobs
<1>6. scene' = [sniffed |-> scene.sniffed, asked |-> scene.asked \ {attack},
                pauses |-> scene.pauses, steps |-> scene.steps]
    BY <1>1, <1>2, Scenery
<1>7. SceneOf(scene')
    BY <1>2, <1>6 DEF SceneOf
<1>8. DetInv'
    BY <1>2, Unmoved
<1> QED
    BY <1>5, <1>7, <1>8 DEF Inv, SourcesInv

LEMMA LoopAgain ==
    ASSUME NEW loop \in LoopOf, NEW from \in SUBSET Sources
    PROVE  [loop EXCEPT !.least = @ - 1, !.most = @ - 1, !.from = from] \in LoopOf
<1> DEFINE x == loop.least - 1
           y == loop.most - 1
<1>1. x \in Int /\ y \in Int
    BY DEF LoopOf
<1> HIDE DEF x, y
<1>2. [loop EXCEPT !.least = x, !.most = y, !.from = from] \in LoopOf
    BY <1>1 DEF LoopOf
<1> QED
    BY <1>2 DEF x, y

LEMMA LoopsGoOn ==
    ASSUME NEW left \in Seq(LoopOf), left # << >>, NEW src \in Head(left).from
    PROVE  LET loop  == Head(left)
               again == [loop EXCEPT !.least = @ - 1, !.most = @ - 1,
                                     !.from = IF loop.same THEN {src} ELSE @]
           IN  /\ Tail(left) \in Seq(LoopOf)
               /\ << again >> \o Tail(left) \in Seq(LoopOf)
               /\ loop.from \subseteq Sources /\ loop.shapes \subseteq Shapes
<1> DEFINE loop  == Head(left)
           from  == IF loop.same THEN {src} ELSE loop.from
           again == [loop EXCEPT !.least = @ - 1, !.most = @ - 1, !.from = from]
<1>1. loop \in LoopOf /\ Tail(left) \in Seq(LoopOf)
    BY HeadTailProperties
<1>2. loop.from \subseteq Sources /\ loop.shapes \subseteq Shapes
    BY <1>1 DEF LoopOf
<1>3. from \in SUBSET Sources
    BY <1>2
<1> HIDE DEF loop, from
<1>4. again \in LoopOf
    BY <1>1, <1>3, LoopAgain
<1> HIDE DEF again
<1>5. << again >> \in Seq(LoopOf)
    BY <1>4, OneOrTwo
<1>6. << again >> \o Tail(left) \in Seq(LoopOf)
    BY <1>1, <1>5, ConcatProperties
<1> QED
    BY <1>1, <1>2, <1>6 DEF loop, from, again

LEMMA PutKeeps ==
    ASSUME Inv, Put
    PROVE  Inv'
<1> DEFINE loop == Head(job.left)
           again(src) == [loop EXCEPT !.least = @ - 1, !.most = @ - 1,
                                      !.from = IF loop.same THEN {src} ELSE @]
           ends == IF loop.least <= 1 THEN {Tail(job.left)} ELSE {}
           goes(src) == IF loop.most > 1 THEN {<< again(src) >> \o Tail(job.left)} ELSE {}
<1>1. PICK src \in loop.from, shape \in loop.shapes, d \in scene.steps :
          /\ d = 0 \/ (d > 0 /\ scene.pauses > 0)
          /\ Analyze(Made(shape, src, clock + d))
          /\ \E left \in ends \cup goes(src) :
                job' = [job EXCEPT !.left = left, !.last = clock + d,
                                   !.ports = @ \cup {shape.port},
                                   !.since = IF left = Tail(job.left) /\ left # << >>
                                             THEN clock + d ELSE @]
          /\ scene' = [scene EXCEPT !.pauses = IF d > 0 THEN @ - 1 ELSE @]
    BY DEF Put
<1>2. DetInv /\ SceneOf(scene) /\ job \in Jobs /\ job.left \in Seq(LoopOf) /\ job.left # << >>
    BY DEF Inv, SourcesInv, Put, Jobs
<1>3. /\ Tail(job.left) \in Seq(LoopOf)
      /\ << again(src) >> \o Tail(job.left) \in Seq(LoopOf)
      /\ loop.from \subseteq Sources /\ loop.shapes \subseteq Shapes
    BY <1>2, LoopsGoOn
<1>4. ends \cup goes(src) \in SUBSET Seq(LoopOf)
    BY <1>3
<1>5. Timely(Made(shape, src, clock + d)) /\ clock + d \in Nat
    BY <1>2, <1>3, MadeIsTimely
<1>6. DetInv'
    BY <1>1, <1>2, <1>5, DetectorsKeep
<1> HIDE DEF loop, again, ends, goes
<1>7. job' \in Jobs
    <2>1. PICK left \in ends \cup goes(src) :
              job' = [job EXCEPT !.left = left, !.last = clock + d,
                                 !.ports = @ \cup {shape.port},
                                 !.since = IF left = Tail(job.left) /\ left # << >>
                                           THEN clock + d ELSE @]
        BY <1>1
    <2>2. left \in Seq(LoopOf)
        BY <1>4, <2>1
    <2>3. job.since \in Nat /\ job.ports \in SUBSET ({NoPort} \cup Ports)
        BY <1>2 DEF Jobs
    <2>5. shape.port \in {NoPort} \cup Ports
        BY <1>1, <1>3 DEF Shapes
    <2> DEFINE ports == job.ports \cup {shape.port}
    <2>6. ports \in SUBSET ({NoPort} \cup Ports)
        BY <2>3, <2>5
    <2> DEFINE since == IF left = Tail(job.left) /\ left # << >> THEN clock + d ELSE job.since
    <2>4. since \in Nat /\ job' = [job EXCEPT !.left = left, !.last = clock + d, !.ports = ports,
                                             !.since = since]
        BY <1>5, <2>1, <2>3
    <2> HIDE DEF since, ports
    <2> QED
        BY <1>2, <1>5, <2>2, <2>4, <2>6 DEF Jobs
<1>8. SceneOf(scene')
    <2> DEFINE pauses == IF d > 0 THEN scene.pauses - 1 ELSE scene.pauses
    <2>1. pauses \in Nat
        BY <1>1, <1>2 DEF SceneOf
    <2>2. scene' = [scene EXCEPT !.pauses = pauses]
        BY <1>1
    <2> HIDE DEF pauses
    <2>3. scene' = [sniffed |-> scene.sniffed, asked |-> scene.asked, pauses |-> pauses,
                    steps |-> scene.steps]
        BY <1>2, <2>2, Scenery
    <2> QED
        BY <1>2, <2>1, <2>3 DEF SceneOf
<1> QED
    BY <1>6, <1>7, <1>8 DEF Inv, SourcesInv

\* A deque that was given nothing has kept it.
LEMMA NothingKept ==
    ASSUME NEW width, NEW now
    PROVE  Kept(<< >>, << >>, width, now)
<1>1. << >> \in Seq(Entries) /\ Len(<< >>) = 0 /\ 0 - 0 = 0 /\ 0 \in Nat
    BY EmptySeq
<1>2. \A i \in 1..0 : FALSE
    OBVIOUS
<1>3. IsRest(<< >>, << >>, 0)
    BY <1>1, <1>2 DEF IsRest
<1>4. GoneOf(<< >>, 0, width)
    BY <1>2 DEF GoneOf
<1>5. InOrder(<< >>)
    BY <1>1, <1>2 DEF InOrder
<1>6. UpTo(<< >>, now)
    BY <1>1, <1>2 DEF UpTo
<1> QED
    BY <1>1, <1>3, <1>4, <1>5, <1>6 DEF Kept

LEMMA InitKeeps == Init => Inv
<1> SUFFICES ASSUME Init PROVE Inv
    OBVIOUS
<1>1. DetectorsInit /\ scene \in Scenes /\ job = None
    BY DEF Init
<1>2. SceneOf(scene)
    BY <1>1, SourcesAssumption DEF SceneOf
<1>3. Start \in Nat /\ MaxRates \in Nat
    BY DetectionAssumption
<1>4. << >> \in Seq(Entries) /\ << >> \in Seq(Nat) /\ Len(<< >>) = 0
    BY EmptySeq
<1>5. clock = Start /\ alerts = {}
    BY <1>1 DEF DetectorsInit
<1>6. \A t \in Tracks : windows[t] = << >> /\ sent[t] = << >> /\ alerted[t] = 0
    BY <1>1 DEF DetectorsInit
<1>7. \A src \in Sources : rates[src] = << >>
    BY <1>1 DEF DetectorsInit
<1>8. DetectorsTyped
    BY <1>1, <1>3, <1>4 DEF DetectorsInit, DetectorsTyped
<1>9. WindowsKept
    BY <1>6, NothingKept DEF WindowsKept
<1>10. CooldownsEarned /\ AlertsPlaced /\ RatesEarned
    BY <1>5, <1>6, <1>7 DEF CooldownsEarned, AlertsPlaced, RatesEarned
<1>11. BurstReported
    BY <1>6, BurstIs DEF BurstOf
<1>12. AlertJustified
    BY <1>5 DEF AlertJustified
<1> QED
    BY <1>1, <1>2, <1>3, <1>5, <1>8, <1>9, <1>10, <1>11, <1>12 DEF Inv, DetInv, SourcesInv

LEMMA NextKeeps == Inv /\ [Next]_vars => Inv'
<1> SUFFICES ASSUME Inv, [Next]_vars PROVE Inv'
    OBVIOUS
<1>1. CASE Sniffed
    BY <1>1, SniffedKeeps
<1>2. CASE Ask
    BY <1>2, AskKeeps
<1>3. CASE Put
    BY <1>3, PutKeeps
<1>4. CASE Answer
    <2>1. job' = None /\ UNCHANGED <<detectors, scene>>
        BY <1>4 DEF Answer
    <2>2. DetInv'
        BY <2>1, Unmoved DEF Inv
    <2> QED
        BY <2>1, <2>2 DEF Inv, SourcesInv
<1>5. CASE UNCHANGED vars
    <2>1. UNCHANGED <<detectors, scene, job>>
        BY <1>5 DEF vars
    <2>2. DetInv'
        BY <2>1, Unmoved DEF Inv
    <2> QED
        BY <2>1, <2>2 DEF Inv, SourcesInv
<1> QED
    BY <1>1, <1>2, <1>3, <1>4, <1>5 DEF Next

\* What each deque has kept, where cooldowns, alerts and rates come from and
\* what the sources may still send, in every reachable state.
THEOREM Invariance == Spec => []Inv
<1>1. Init => Inv
    BY InitKeeps
<1>2. Inv /\ [Next]_vars => Inv'
    BY NextKeeps
<1> QED
    BY <1>1, <1>2, PTL DEF Spec

\* Every variable has its type, and rate_history never grows beyond maxlen.
THEOREM TypeCorrect == Spec => []TypeOK
<1>1. Inv => TypeOK
    <2> SUFFICES ASSUME Inv PROVE TypeOK
        OBVIOUS
    <2>1. job # None => job \in Jobs
        BY DEF Inv, SourcesInv
    <2>2. job # None => /\ job.attack \in Attacks \cup {"normal"}
                        /\ job.ip \in Sources
                        /\ job.left \in Seq(LoopOf)
                        /\ {job.since, job.last} \subseteq Nat
                        /\ job.ports \subseteq {NoPort} \cup Ports
        BY <2>1 DEF Jobs
    <2>3. DetectorsTyped /\ SceneOf(scene)
        BY DEF Inv, SourcesInv, DetInv
    <2> QED
        BY <2>2, <2>3 DEF TypeOK, SceneOf
<1> QED
    BY <1>1, Invariance, PTL

\* A deque loses nothing that still counts, however late packets are.
THEOREM OnlyExpiredAreDropped == Spec => []DropsOnlyExpired
<1>1. Inv => DropsOnlyExpired
    <2> SUFFICES ASSUME Inv, NEW t \in Tracks
                 PROVE  /\ windows[t] = SubSeq(sent[t], Lost(t) + 1, Len(sent[t]))
                        /\ \A i \in 1..Lost(t) : \E j \in DOMAIN sent[t] :
                               sent[t][i].ts < sent[t][j].ts - Window[t[1]]
        BY DEF DropsOnlyExpired
    <2> DEFINE w == windows[t]
               s == sent[t]
               k == Lost(t)
    <2>1. Kept(w, s, Window[t[1]], clock)
        BY DEF Inv, DetInv, WindowsKept
    <2>2. k = Len(s) - Len(w)
        BY DEF Lost
    <2> HIDE DEF w, s, k
    <2>3. w \in Seq(Entries) /\ s \in Seq(Entries) /\ IsRest(w, s, k) /\ GoneOf(s, k, Window[t[1]])
        BY <2>1, <2>2 DEF Kept
    <2>4. Len(w) \in Nat /\ Len(s) \in Nat /\ DOMAIN s = 1..Len(s) /\ k \in 0..Len(s)
        BY <2>2, <2>3, LenProperties DEF IsRest
    <2> DEFINE rest == SubSeq(s, k + 1, Len(s))
    <2>5. /\ rest \in Seq(Entries) /\ Len(rest) = Len(s) - k
          /\ \A i \in 1..Len(rest) : rest[i] = s[i + k]
        BY <2>3, <2>4, RestOf
    <2> HIDE DEF rest
    <2>6. Len(w) = Len(rest) /\ \A i \in 1..Len(w) : w[i] = rest[i]
        BY <2>2, <2>3, <2>4, <2>5 DEF IsRest
    <2>7. w = rest
        BY <2>3, <2>5, <2>6, SeqEqual
    <2>8. \A i \in 1..k : \E j \in DOMAIN s : s[i].ts < s[j].ts - Window[t[1]]
        BY <2>3, <2>4 DEF GoneOf
    <2> QED
        BY <2>7, <2>8 DEF w, s, k, rest
<1> QED
    BY <1>1, Invariance, PTL

\* What is counted with a packet is no older than its window and the lateness
\* of the traffic.
THEOREM OnlyRecentAreCounted == Spec => []CountsOnlyRecent
<1>1. Inv => CountsOnlyRecent
    <2> SUFFICES ASSUME Inv, NEW t \in Tracks, NEW i \in DOMAIN windows[t]
                 PROVE  windows[t][i].ts >= Newest(t).ts - Window[t[1]] - MaxLate
        BY DEF CountsOnlyRecent
    <2>1. Kept(windows[t], sent[t], Window[t[1]], clock) /\ clock \in Nat /\ Window[t[1]] \in Nat
        BY TrackIs DEF Inv, DetInv, DetectorsTyped, WindowsKept
    <2>2. i \in 1..Len(windows[t])
        BY <2>1, LenProperties DEF Kept
    <2> QED
        BY <2>1, <2>2, KeptRecent DEF Newest
<1> QED
    BY <1>1, Invariance, PTL

\* A burst is reported, whatever came before it and however late parts of it
\* are, for any thresholds and windows.
THEOREM BurstsAreReported == Spec => []BurstReported
<1>1. Inv => BurstReported
    BY DEF Inv, DetInv
<1> QED
    BY <1>1, Invariance, PTL

\* A report is earned by what the source sent, or follows one that was.
THEOREM AlertsAreJustified == Spec => []AlertJustified
<1>1. Inv => AlertJustified
    BY DEF Inv, DetInv
<1> QED
    BY <1>1, Invariance, PTL
-------------------------------------------------------------------------------
(***************************************************************************)
(* Genuine triggering: what a request has still to put, with what its      *)
(* track was given so far, is enough for the threshold.                    *)
(***************************************************************************)
\* Packets of this shape from the source of track t count on it.
Counts(t, shape) ==
    LET p == Made(shape, t[2], 0) IN Watches(t[1], p) /\ Track(t[1], p) = t

\* The first rule a payload of this shape matches reports the attack.
Tells(shape, attack) ==
    \E n \in shape.sigs : Rules[n].type = attack /\ \A other \in shape.sigs : n <= other

\* A loop of a fixed number of packets from one address.
Steady(loop, ip) ==
    /\ loop.from = {ip} /\ loop.same
    /\ loop.least = loop.most /\ loop.least \in Nat \ {0}

Aims(loop, t) == Steady(loop, t[2]) /\ \A shape \in loop.shapes : Counts(t, shape)

\* The different ports at these places.
PortsOf(s, S) == {s[i].port : i \in S}

GivenTo(t, x, s) == BetweenOf(s[t], x.since, x.last, Len(s[t]))

\* Request x is on its last loop and what s says the track was given since that
\* began will do.
Enough(t, x, s) ==
    /\ Len(x.left) = 1 /\ Aims(x.left[1], t)
    /\ IF t[1] = "port_scan" THEN x.ports \subseteq PortsOf(s[t], GivenTo(t, x, s))
       ELSE Threshold[t[1]] <= x.left[1].least + Cardinality(GivenTo(t, x, s))

\* It is on an earlier loop; the last one alone will do.
Ahead(t, x) ==
    /\ Len(x.left) = 2 /\ Aims(x.left[2], t)
    /\ t[1] # "port_scan" /\ Threshold[t[1]] <= x.left[2].least

\* A plan of one loop whose packets all tell the attack.
Shows(left, ip, attack) ==
    /\ Len(left) = 1 /\ Steady(left[1], ip)
    /\ \A shape \in left[1].shapes : Tells(shape, attack)

Heading(x, s) ==
    IF x.attack \in Kinds
    THEN \E t \in Tracks : t[1] = x.attack /\ t[2] = x.ip /\ (Ahead(t, x) \/ Enough(t, x, s))
    ELSE Shows(x.left, x.ip, x.attack)

ReportedIn(x, als, from) ==
    \E al \in als : al.track[1] = x.attack /\ al.track[2] = x.ip /\ al.at > from

Triggered(x, als) ==
    IF x.attack \in Kinds
    THEN /\ x.last - x.since <= Window[x.attack]
         /\ x.attack = "port_scan" => Cardinality(x.ports) >= Threshold["port_scan"]
         => ReportedIn(x, als, x.last - Window[x.attack])
    ELSE ReportedIn(x, als, x.since - 1)

JobOK(x, now, s, als) ==
    x # None /\ x.attack # "normal" =>
        /\ x.since <= x.last /\ x.last <= now
        /\ IF x.left = << >> THEN Triggered(x, als) ELSE Heading(x, s)

JobInv == JobOK(job, clock, sent, alerts)

(* What counts and what tells, for the plans of all attacks. *)

LEMMA CountsAlways ==
    ASSUME NEW t \in Tracks, NEW shape \in Shapes, Counts(t, shape), NEW ts
    PROVE  t \in Tracked(Made(shape, t[2], ts))
<1> DEFINE p == Made(shape, t[2], 0)
           q == Made(shape, t[2], ts)
<1>1. t[1] \in Kinds
    BY TrackIs
<1>2. /\ q.src = p.src /\ q.proto = p.proto /\ q.port = p.port
      /\ q.syn = p.syn /\ q.ack = p.ack /\ q.slow = p.slow
    BY DEF Made
<1>3. Watches(t[1], p) /\ Track(t[1], p) = t
    BY DEF Counts
<1> HIDE DEF p, q
<1>4. Watches(t[1], q) /\ Track(t[1], q) = t
    BY <1>2, <1>3 DEF Watches, Track
<1> QED
    BY <1>1, <1>4 DEF Tracked, q

LEMMA TimesAim ==
    ASSUME NEW t, NEW n \in Nat \ {0}, NEW shapes, \A shape \in shapes : Counts(t, shape)
    PROVE  Aims(Times(n, t[2], shapes), t) /\ Times(n, t[2], shapes).least = n
BY DEF Aims, Steady, Times, Loop

\* The last loop of an attack by count is enough for the threshold.
Suffices(t, left) ==
    \/ Len(left) = 1 /\ Aims(left[1], t) /\ Threshold[t[1]] <= left[1].least
    \/ Len(left) = 2 /\ Aims(left[2], t) /\ Threshold[t[1]] <= left[2].least /\ t[1] # "port_scan"

LEMMA OneSuffices ==
    ASSUME NEW t \in Tracks, NEW n \in Nat \ {0}, Threshold[t[1]] <= n,
           NEW shapes, \A shape \in shapes : Counts(t, shape)
    PROVE  Suffices(t, << Times(n, t[2], shapes) >>)
<1>1. PICK loop : loop = Times(n, t[2], shapes)
    OBVIOUS
<1>2. Aims(loop, t) /\ loop.least = n
    BY <1>1, TimesAim
<1> QED
    BY <1>1, <1>2 DEF Suffices

LEMMA ProbesSuffice ==
    ASSUME NEW ip \in Sources, NEW target \in SensitivePorts,
           NEW attack \in {"port_scan", "brute_force", "syn_flood"}
    PROVE  \E t \in Tracks : t[1] = attack /\ t[2] = ip /\ Suffices(t, Probes(ip, target)[attack])
<1>1. Threshold \in [Kinds -> Nat \ {0}] /\ attack \in Kinds
    BY DetectionAssumption DEF Kinds
<1>2. NoPort \notin ScanPorts
    BY SourcesAssumption
<1>3. CASE attack = "port_scan"
    <2> DEFINE n == Threshold["port_scan"] + 6
               shapes == {Syn(port) : port \in ScanPorts}
    <2>1. PICK t : t = <<"port_scan", ip, NoPort>>
        OBVIOUS
    <2>2. t \in Tracks /\ t[1] = "port_scan" /\ t[2] = ip
        BY <2>1 DEF Tracks, Kinds
    <2>3. \A shape \in shapes : Counts(t, shape)
        BY <1>2, <2>1 DEF Counts, Watches, Track, Made, Syn
    <2>4. n \in Nat \ {0} /\ Threshold[t[1]] <= n
        BY <1>1, <1>3, <2>2
    <2>5. Probes(ip, target)[attack] = << Times(n, t[2], shapes) >>
        BY <1>3, <2>2 DEF Probes
    <2> HIDE DEF n, shapes
    <2>6. Suffices(t, Probes(ip, target)[attack])
        BY <2>2, <2>3, <2>4, <2>5, OneSuffices
    <2> QED
        BY <1>3, <2>2, <2>6
<1>4. CASE attack = "brute_force"
    <2> DEFINE n == Threshold["brute_force"] + 5
               shapes == {Syn(target)}
    <2>1. PICK t : t = <<"brute_force", ip, target>>
        OBVIOUS
    <2>2. t \in Tracks /\ t[1] = "brute_force" /\ t[2] = ip
        BY <2>1 DEF Tracks, Kinds
    <2>3. \A shape \in shapes : Counts(t, shape)
        BY <2>1 DEF Counts, Watches, Track, Made, Syn
    <2>4. n \in Nat \ {0} /\ Threshold[t[1]] <= n
        BY <1>1, <1>4, <2>2
    <2>5. Probes(ip, target)[attack] = << Times(n, t[2], shapes) >>
        BY <1>4, <2>2 DEF Probes
    <2> HIDE DEF n, shapes
    <2>6. Suffices(t, Probes(ip, target)[attack])
        BY <2>2, <2>3, <2>4, <2>5, OneSuffices
    <2> QED
        BY <1>4, <2>2, <2>6
<1>5. CASE attack = "syn_flood"
    <2> DEFINE n == 2 * Threshold["syn_flood"] + 5
               shapes == {Syn(443)}
               many == Loop(Threshold["syn_flood"] + 5, Threshold["syn_flood"] + 5,
                            Sources, FALSE, {Syn(80)})
    <2>1. PICK t : t = <<"syn_flood", ip, NoPort>>
        OBVIOUS
    <2>2. t \in Tracks /\ t[1] = "syn_flood" /\ t[2] = ip
        BY <2>1 DEF Tracks, Kinds
    <2>3. \A shape \in shapes : Counts(t, shape)
        BY <2>1 DEF Counts, Watches, Track, Made, Syn
    <2>4. n \in Nat \ {0} /\ Threshold[t[1]] <= n
        BY <1>1, <1>5, <2>2
    <2>5. Probes(ip, target)[attack] = << many, Times(n, t[2], shapes) >>
        BY <1>5, <2>2 DEF Probes
    <2> HIDE DEF n, shapes, many
    <2>6. PICK loop : loop = Times(n, t[2], shapes)
        OBVIOUS
    <2>7. Aims(loop, t) /\ loop.least = n
        BY <2>3, <2>4, <2>6, TimesAim
    <2>8. Suffices(t, Probes(ip, target)[attack])
        BY <2>2, <2>4, <2>5, <2>6, <2>7 DEF Suffices
    <2> QED
        BY <1>5, <2>2, <2>8
<1> QED
    BY <1>3, <1>4, <1>5

LEMMA FloodsSuffice ==
    ASSUME NEW ip \in Sources, NEW attack \in {"slowloris", "udp_flood", "icmp_flood"}
    PROVE  \E t \in Tracks : t[1] = attack /\ t[2] = ip /\ Suffices(t, Floods(ip)[attack])
<1>1. /\ Threshold["slowloris"] <= 10 /\ Threshold["udp_flood"] <= 18
      /\ Threshold["icmp_flood"] <= 18 /\ 80 \in HttpPorts
    BY SourcesAssumption
<1>2. PICK t : t = <<attack, ip, NoPort>>
    OBVIOUS
<1>3. t \in Tracks /\ t[1] = attack /\ t[2] = ip
    BY <1>2 DEF Tracks, Kinds
<1>4. CASE attack = "slowloris"
    <2> DEFINE shapes == {[Push(80, {}) EXCEPT !.slow = TRUE]}
    <2>1. \A shape \in shapes : Counts(t, shape)
        BY <1>1, <1>2, <1>4 DEF Counts, Watches, Track, Made, Push, Syn
    <2>2. Floods(ip)[attack] = << Times(10, t[2], shapes) >>
        BY <1>3, <1>4 DEF Floods
    <2>3. 10 \in Nat \ {0} /\ Threshold[t[1]] <= 10
        BY <1>1, <1>3, <1>4
    <2> HIDE DEF shapes
    <2> QED
        BY <1>3, <2>1, <2>2, <2>3, OneSuffices
<1>5. CASE attack = "udp_flood"
    <2> DEFINE shapes == {Datagram("UDP", port, {}) : port \in FloodPorts}
    <2>1. \A shape \in shapes : Counts(t, shape)
        BY <1>2, <1>5 DEF Counts, Watches, Track, Made, Datagram
    <2>2. Floods(ip)[attack] = << Times(18, t[2], shapes) >>
        BY <1>3, <1>5 DEF Floods
    <2>3. 18 \in Nat \ {0} /\ Threshold[t[1]] <= 18
        BY <1>1, <1>3, <1>5
    <2> HIDE DEF shapes
    <2> QED
        BY <1>3, <2>1, <2>2, <2>3, OneSuffices
<1>6. CASE attack = "icmp_flood"
    <2> DEFINE shapes == {Datagram("ICMP", NoPort, {})}
    <2>1. \A shape \in shapes : Counts(t, shape)
        BY <1>2, <1>6 DEF Counts, Watches, Track, Made, Datagram
    <2>2. Floods(ip)[attack] = << Times(18, t[2], shapes) >>
        BY <1>3, <1>6 DEF Floods
    <2>3. 18 \in Nat \ {0} /\ Threshold[t[1]] <= 18
        BY <1>1, <1>3, <1>6
    <2> HIDE DEF shapes
    <2> QED
        BY <1>3, <2>1, <2>2, <2>3, OneSuffices
<1> QED
    BY <1>4, <1>5, <1>6

LEMMA PlanSuffices ==
    ASSUME NEW ip \in Sources, NEW target \in SensitivePorts, NEW attack \in Kinds
    PROVE  \E t \in Tracks : t[1] = attack /\ t[2] = ip /\ Suffices(t, Plan(attack, ip, target))
<1>1. /\ DOMAIN Probes(ip, target) = {"port_scan", "brute_force", "syn_flood"}
      /\ DOMAIN Floods(ip) = {"slowloris", "udp_flood", "icmp_flood"}
    BY ProbesAre, FloodsAre
<1>2. CASE attack \in {"port_scan", "brute_force", "syn_flood"}
    <2>1. Plan(attack, ip, target) = Probes(ip, target)[attack]
        BY <1>1, <1>2 DEF Plan
    <2> QED
        BY <1>2, <2>1, ProbesSuffice
<1>3. CASE attack \in {"slowloris", "udp_flood", "icmp_flood"}
    <2>1. Plan(attack, ip, target) = Floods(ip)[attack]
        BY <1>1, <1>3 DEF Plan
    <2> QED
        BY <1>3, <2>1, FloodsSuffice
<1> QED
    BY <1>2, <1>3 DEF Kinds

LEMMA OneShows ==
    ASSUME NEW ip, NEW n \in Nat \ {0}, NEW shape, NEW attack, Tells(shape, attack)
    PROVE  Shows(<< Times(n, ip, {shape}) >>, ip, attack)
BY DEF Shows, Steady, Times, Loop

\* A payload that matches one rule, or two of the same type, tells that type.
LEMMA RuleTells ==
    ASSUME NEW shape, NEW n \in 1..29, NEW m \in 1..29, n <= m, shape.sigs = {n, m},
           NEW attack, Rules[n].type = attack
    PROVE  Tells(shape, attack)
BY DEF Tells

LEMMA PushShows ==
    ASSUME NEW ip, NEW k \in Nat \ {0}, NEW port, NEW rules,
           NEW n \in 1..29, NEW m \in 1..29, n <= m, rules = {n, m}
    PROVE  Shows(<< Times(k, ip, {Push(port, rules)}) >>, ip, Rules[n].type)
<1>1. PICK shape : shape = Push(port, rules)
    OBVIOUS
<1>2. shape.sigs = {n, m}
    BY <1>1 DEF Push, Syn
<1>3. Tells(shape, Rules[n].type)
    BY <1>2, RuleTells
<1> QED
    BY <1>1, <1>3, OneShows

\* The rules of the payloads report what they are named for.
LEMMA RuleTypes ==
    /\ Rules[1].type = "sql_injection" /\ Rules[6].type = "xss"
    /\ Rules[10].type = "path_traversal" /\ Rules[13].type = "command_injection"
    /\ Rules[16].type = "shellshock" /\ Rules[17].type = "log4shell"
    /\ Rules[18].type = "cloud_ssrf" /\ Rules[19].type = "php_rce"
    /\ Rules[20].type = "http_request_smuggling" /\ Rules[21].type = "api_abuse"
    /\ Rules[22].type = "credential_stuffing" /\ Rules[23].type = "jwt_attack"
    /\ Rules[24].type = "dns_tunneling" /\ Rules[25].type = "ldap_injection"
    /\ Rules[26].type = "xxe" /\ Rules[27].type = "ssti"
    /\ Rules[28].type = "insecure_deserialization"
BY DEF Rules

LEMMA PayloadsShow ==
    ASSUME NEW ip \in Sources, NEW attack \in DOMAIN Payloads(ip)
    PROVE  Shows(Payloads(ip)[attack], ip, attack)
<1> DEFINE put(k, port, rules) == << Times(k, ip, {Push(port, rules)}) >>
           dns == << Times(1, ip, {Datagram("UDP", 53, {24})}) >>
<1>1. Payloads(ip) =
          [sql_injection |-> put(1, 80, {1, 4}), xss |-> put(1, 80, {6}),
           log4shell |-> put(1, 443, {17}), cloud_ssrf |-> put(1, 80, {18}),
           path_traversal |-> put(1, 80, {10, 11}), php_rce |-> put(1, 80, {19}),
           shellshock |-> put(1, 80, {16}), http_request_smuggling |-> put(1, 80, {20}),
           api_abuse |-> put(1, 8080, {21}), credential_stuffing |-> put(4, 80, {22}),
           jwt_attack |-> put(1, 443, {23}), dns_tunneling |-> dns]
    BY DEF Payloads
<1>2. ASSUME NEW k \in Nat \ {0}, NEW port, NEW n \in 1..29
      PROVE  Shows(put(k, port, {n}), ip, Rules[n].type)
    <2>1. n <= n /\ {n} = {n, n}
        OBVIOUS
    <2> QED
        BY <2>1, PushShows
<1>7. /\ Shows(put(1, 80, {1, 4}), ip, Rules[1].type)
      /\ Shows(put(1, 80, {10, 11}), ip, Rules[10].type)
    BY PushShows
<1>3. Shows(dns, ip, "dns_tunneling")
    <2>1. PICK shape : shape = Datagram("UDP", 53, {24})
        OBVIOUS
    <2>2. shape.sigs = {24, 24}
        BY <2>1 DEF Datagram
    <2>3. Tells(shape, "dns_tunneling")
        BY <2>2, RuleTypes, RuleTells
    <2> QED
        BY <2>1, <2>3, OneShows
<1> HIDE DEF put, dns
<1>4. /\ Shows(put(1, 80, {1, 4}), ip, "sql_injection")
      /\ Shows(put(1, 80, {6}), ip, "xss")
      /\ Shows(put(1, 443, {17}), ip, "log4shell")
      /\ Shows(put(1, 80, {18}), ip, "cloud_ssrf")
    BY <1>2, <1>7, RuleTypes
<1>5. /\ Shows(put(1, 80, {10, 11}), ip, "path_traversal")
      /\ Shows(put(1, 80, {19}), ip, "php_rce")
      /\ Shows(put(1, 80, {16}), ip, "shellshock")
      /\ Shows(put(1, 80, {20}), ip, "http_request_smuggling")
    BY <1>2, <1>7, RuleTypes
<1>6. /\ Shows(put(1, 8080, {21}), ip, "api_abuse")
      /\ Shows(put(4, 80, {22}), ip, "credential_stuffing")
      /\ Shows(put(1, 443, {23}), ip, "jwt_attack")
    BY <1>2, RuleTypes
<1> QED
    BY <1>1, <1>3, <1>4, <1>5, <1>6

LEMMA MorePayloadsShow ==
    ASSUME NEW ip \in Sources,
           NEW attack \in {"command_injection", "ldap_injection", "xxe", "ssti",
                           "insecure_deserialization"}
    PROVE  Shows(MorePayloads(ip)[attack], ip, attack)
<1> DEFINE one(port, rule) == << Times(1, ip, {Push(port, {rule})}) >>
<1>1. MorePayloads(ip) =
          [command_injection |-> one(80, 13), ldap_injection |-> one(389, 25),
           xxe |-> one(80, 26), ssti |-> one(80, 27),
           insecure_deserialization |-> one(8080, 28)]
    BY DEF MorePayloads
<1>2. ASSUME NEW port, NEW n \in 1..29
      PROVE  Shows(one(port, n), ip, Rules[n].type)
    <2>1. n <= n /\ {n} = {n, n} /\ 1 \in Nat \ {0}
        OBVIOUS
    <2> QED
        BY <2>1, PushShows
<1> HIDE DEF one
<1>3. /\ Shows(one(80, 13), ip, "command_injection")
      /\ Shows(one(389, 25), ip, "ldap_injection")
      /\ Shows(one(80, 26), ip, "xxe") /\ Shows(one(80, 27), ip, "ssti")
      /\ Shows(one(8080, 28), ip, "insecure_deserialization")
    BY <1>2, RuleTypes
<1> QED
    BY <1>1, <1>3

LEMMA PlanShows ==
    ASSUME NEW ip \in Sources, NEW target \in SensitivePorts, NEW attack \in Attacks \ Kinds
    PROVE  Shows(Plan(attack, ip, target), ip, attack)
<1>1. /\ DOMAIN Probes(ip, target) = {"port_scan", "brute_force", "syn_flood"}
      /\ DOMAIN Floods(ip) = {"slowloris", "udp_flood", "icmp_flood"}
    BY ProbesAre, FloodsAre
<1>2. /\ attack # "normal" /\ attack \notin DOMAIN Probes(ip, target)
      /\ attack \notin DOMAIN Floods(ip)
    BY <1>1 DEF Attacks, Kinds
<1>3. CASE attack \in DOMAIN Payloads(ip)
    <2>1. Plan(attack, ip, target) = Payloads(ip)[attack]
        BY <1>2, <1>3 DEF Plan
    <2> QED
        BY <1>3, <2>1, PayloadsShow
<1>4. CASE attack \notin DOMAIN Payloads(ip)
    <2>1. attack \in {"command_injection", "ldap_injection", "xxe", "ssti",
                      "insecure_deserialization"}
        BY <1>4, PayloadsAre DEF Attacks, Kinds
    <2>2. Plan(attack, ip, target) = MorePayloads(ip)[attack]
        BY <1>2, <1>4 DEF Plan
    <2> QED
        BY <2>1, <2>2, MorePayloadsShow
<1> QED
    BY <1>3, <1>4

(* The loops left. *)

LEMMA LastLoop ==
    ASSUME NEW left \in Seq(LoopOf), Len(left) = 1, NEW e \in LoopOf
    PROVE  /\ left # << >> /\ left[1] \in LoopOf /\ Head(left) = left[1] /\ Tail(left) = << >>
           /\ << e >> \o Tail(left) = << e >> /\ Len(<< e >>) = 1 /\ << e >>[1] = e
           /\ << e >> # << >>
<1>1. left # << >> /\ 1 \in 1..Len(left)
    BY EmptySeq
<1>2. left[1] \in LoopOf
    BY <1>1, ElementOfSeq
<1>3. Head(left) = left[1] /\ Tail(left) \in Seq(LoopOf) /\ Len(Tail(left)) = 0
    BY <1>1, HeadTailProperties
<1>4. Tail(left) = << >>
    BY <1>3, EmptySeq
<1>5. << e >> \in Seq(LoopOf)
    BY OneOrTwo
<1>6. << e >> \o << >> = << e >>
    BY <1>5, ConcatEmptySeq
<1> QED
    BY <1>1, <1>2, <1>3, <1>4, <1>6

LEMMA FirstLoop ==
    ASSUME NEW left \in Seq(LoopOf), Len(left) = 2, NEW e \in LoopOf
    PROVE  /\ left # << >> /\ left[2] \in LoopOf /\ Head(left) = left[1]
           /\ Len(Tail(left)) = 1 /\ Tail(left)[1] = left[2] /\ Tail(left) # << >>
           /\ Len(<< e >> \o Tail(left)) = 2
           /\ (<< e >> \o Tail(left))[2] = left[2]
           /\ << e >> \o Tail(left) # << >> /\ << e >> \o Tail(left) # Tail(left)
<1>1. left # << >> /\ 2 \in 1..Len(left)
    BY EmptySeq
<1>2. left[2] \in LoopOf
    BY <1>1, ElementOfSeq
<1>3. /\ Head(left) = left[1] /\ Tail(left) \in Seq(LoopOf) /\ Len(Tail(left)) = 1
      /\ \A i \in 1..Len(Tail(left)) : Tail(left)[i] = left[i + 1]
    BY <1>1, HeadTailProperties
<1>4. Tail(left)[1] = left[2]
    BY <1>3
<1>5. << e >> \in Seq(LoopOf) /\ Len(<< e >>) = 1
    BY OneOrTwo
<1> DEFINE both == << e >> \o Tail(left)
<1>6. Len(both) = 2 /\ \A i \in 1..2 : both[i] = IF i <= 1 THEN << e >>[i] ELSE Tail(left)[i - 1]
    BY <1>3, <1>5, ConcatProperties
<1>7. both[2] = left[2]
    BY <1>4, <1>6
<1> HIDE DEF both
<1>8. both # << >> /\ both # Tail(left) /\ Tail(left) # << >>
    <2>1. both \in Seq(LoopOf) /\ Len(both) # 0 /\ Len(Tail(left)) # 0
        BY <1>3, <1>5, <1>6, ConcatProperties DEF both
    <2>2. both # << >> /\ Tail(left) # << >>
        BY <1>3, <2>1, EmptySeq
    <2>3. ASSUME both = Tail(left) PROVE FALSE
        <3>1. Len(both) = 1
            BY <1>3, <2>3
        <3> QED
            BY <1>6, <3>1
    <2> QED
        BY <2>2, <2>3
<1> QED
    BY <1>1, <1>2, <1>3, <1>4, <1>6, <1>7, <1>8 DEF both

(* What a track was given from some time on. *)

LEMMA MoreGiven ==
    ASSUME NEW s \in Seq(Entries), NEW s2 \in Seq(Entries), Len(s) <= Len(s2),
           \A i \in 1..Len(s) : s2[i] = s[i],
           NEW lo \in Nat, NEW hi \in Nat, NEW later \in Nat, hi <= later
    PROVE  /\ BetweenOf(s, lo, hi, Len(s)) \subseteq BetweenOf(s2, lo, later, Len(s2))
           /\ IsFiniteSet(BetweenOf(s2, lo, later, Len(s2)))
           /\ Cardinality(BetweenOf(s, lo, hi, Len(s))) \in Nat
           /\ Cardinality(BetweenOf(s2, lo, later, Len(s2))) \in Nat
           /\ Cardinality(BetweenOf(s, lo, hi, Len(s)))
                  <= Cardinality(BetweenOf(s2, lo, later, Len(s2)))
           /\ PortsOf(s, BetweenOf(s, lo, hi, Len(s)))
                  \subseteq PortsOf(s2, BetweenOf(s2, lo, later, Len(s2)))
<1> DEFINE B == BetweenOf(s, lo, hi, Len(s))
           B2 == BetweenOf(s2, lo, later, Len(s2))
<1>1. Len(s) \in Nat /\ Len(s2) \in Nat /\ \A i \in 1..Len(s) : s[i] \in Entries
    BY LenProperties, ElementOfSeq
<1>2. \A i \in B : i \in B2 /\ i \in 1..Len(s)
    <2> SUFFICES ASSUME NEW i \in B PROVE i \in B2 /\ i \in 1..Len(s)
        OBVIOUS
    <2>1. i \in 1..Len(s) /\ s[i].ts >= lo /\ s[i].ts <= hi
        BY DEF BetweenOf
    <2>2. i \in 1..Len(s2) /\ s2[i] = s[i] /\ s[i].ts \in Nat
        BY <1>1, <2>1 DEF Entries
    <2>3. s2[i].ts >= lo /\ s2[i].ts <= later
        BY <2>1, <2>2
    <2> QED
        BY <2>1, <2>2, <2>3 DEF BetweenOf
<1>3. IsFiniteSet(1..Len(s2))
    BY <1>1, FS_Interval
<1>4. B2 \in SUBSET (1..Len(s2)) /\ B \in SUBSET B2
    BY <1>2 DEF BetweenOf
<1>5. IsFiniteSet(B2)
    BY <1>3, <1>4, FS_Subset
<1>6. Cardinality(B) \in Nat /\ Cardinality(B2) \in Nat /\ Cardinality(B) <= Cardinality(B2)
    BY <1>4, <1>5, FS_Subset, FS_CardinalityType
<1>7. \A i \in B : s[i].port = s2[i].port
    BY <1>2
<1> HIDE DEF B, B2
<1>8. PortsOf(s, B) \subseteq PortsOf(s2, B2)
    BY <1>4, <1>7 DEF PortsOf
<1> QED
    BY <1>4, <1>5, <1>6, <1>8 DEF B, B2

\* An entry from that time on counts.
LEMMA OneMoreGiven ==
    ASSUME NEW s \in Seq(Entries), NEW e \in Entries, NEW lo \in Nat, NEW hi \in Nat,
           hi <= e.ts, lo <= e.ts
    PROVE  /\ Cardinality(BetweenOf(s, lo, hi, Len(s))) + 1
                  <= Cardinality(BetweenOf(Append(s, e), lo, e.ts, Len(Append(s, e))))
           /\ e.port \in PortsOf(Append(s, e),
                             BetweenOf(Append(s, e), lo, e.ts, Len(Append(s, e))))
<1> DEFINE s2 == Append(s, e)
           B == BetweenOf(s, lo, hi, Len(s))
           B2 == BetweenOf(s2, lo, e.ts, Len(s2))
           n == Len(s) + 1
<1>1. /\ s2 \in Seq(Entries) /\ Len(s) \in Nat /\ Len(s2) = n /\ s2[n] = e
      /\ \A i \in 1..Len(s) : s2[i] = s[i]
    BY Appended
<1>2. e.ts \in Nat
    BY DEF Entries
<1> HIDE DEF s2
<1>3. B \subseteq B2 /\ IsFiniteSet(B2)
    <2>1. Len(s) <= Len(s2)
        BY <1>1
    <2> QED
        BY <1>1, <1>2, <2>1, MoreGiven
<1>4. n \in B2 /\ n \notin B
    BY <1>1, <1>2 DEF BetweenOf
<1> HIDE DEF B, B2, n
<1>5. B \cup {n} \subseteq B2 /\ IsFiniteSet(B)
    BY <1>3, <1>4, FS_Subset
<1>6. Cardinality(B \cup {n}) = Cardinality(B) + 1
    BY <1>4, <1>5, FS_AddElement
<1>7. Cardinality(B \cup {n}) <= Cardinality(B2)
    BY <1>3, <1>5, FS_Subset
<1>8. e.port \in PortsOf(s2, B2)
    BY <1>1, <1>4 DEF PortsOf
<1> QED
    BY <1>6, <1>7, <1>8 DEF s2, B, B2

\* A track that was given the threshold since lo, less than a window ago, has
\* been reported when bursts are.
LEMMA ThresholdReports ==
    ASSUME NEW t \in Tracks, NEW s \in Seq(Entries), s # << >>, NEW now \in Nat,
           UpTo(s, now), s[Len(s)].ts = now, NEW als, BurstOf(t, s, als),
           NEW lo \in Nat, now - lo <= Window[t[1]],
           MeasuredOf(t[1], s, BetweenOf(s, lo, now, Len(s))) >= Threshold[t[1]]
    PROVE  \E al \in als : al.track = t /\ al.at > now - Window[t[1]]
<1> DEFINE peak == PeakOf(s)
           S == BetweenOf(s, lo, now, Len(s))
           T == BetweenOf(s, peak - Window[t[1]], peak, Len(s))
<1>1. Len(s) \in Nat \ {0} /\ \A i \in 1..Len(s) : s[i] \in Entries
    BY EmptySeq, LenProperties, ElementOfSeq
<1>2. peak \in Nat /\ UpTo(s, peak) /\ peak <= now
    BY PeakIs
<1>3. now <= peak
    BY <1>1, <1>2 DEF UpTo
<1> HIDE DEF peak
<1>4. peak = now
    BY <1>2, <1>3
<1>5. Window[t[1]] \in Nat /\ Threshold[t[1]] \in Nat
    BY TrackIs
<1>6. S \in SUBSET T /\ T \in SUBSET (1..Len(s))
    BY <1>1, <1>4, <1>5 DEF BetweenOf, Entries
<1> HIDE DEF S, T
<1>7. /\ MeasuredOf(t[1], s, S) \in Nat
      /\ MeasuredOf(t[1], s, S) <= MeasuredOf(t[1], s, T)
    BY <1>1, <1>6, MoreMeasured
<1>8. MeasuredOf(t[1], s, T) \in Nat
    BY <1>1, <1>6, MoreMeasured
<1>9. MeasuredOf(t[1], s, T) >= Threshold[t[1]]
    BY <1>5, <1>7, <1>8 DEF S
<1> QED
    BY <1>9 DEF BurstOf, T, peak

(* The steps. *)

LEMMA JobIs == JobInv <=> JobOK(job, clock, sent, alerts)
BY DEF JobInv

LEMMA JobIsNext == JobInv' <=> JobOK(job', clock', sent', alerts')
BY DEF JobInv

\* A request begins with all of its plan before it.
LEMMA PlanHeads ==
    ASSUME NEW ip \in Sources, NEW target \in SensitivePorts, NEW attack \in Attacks,
           NEW now \in Nat, NEW s, \A t \in Tracks : s[t] \in Seq(Entries), NEW als, NEW x,
           x = [attack |-> attack, ip |-> ip, left |-> Plan(attack, ip, target),
                since |-> now, last |-> now, ports |-> {}]
    PROVE  JobOK(x, now, s, als)
<1>1. /\ x.attack = attack /\ x.ip = ip /\ x.left = Plan(attack, ip, target)
      /\ x.since = now /\ x.last = now /\ x.ports = {}
    OBVIOUS
<1>2. ASSUME x.left = << >> PROVE Len(x.left) = 0
    BY <1>2
<1>3. CASE attack \in Kinds
    <2>1. PICK t \in Tracks : t[1] = attack /\ t[2] = ip /\ Suffices(t, x.left)
        BY <1>1, <1>3, PlanSuffices
    <2>2. Threshold[t[1]] \in Nat
        BY TrackIs
    <2>3. Cardinality(GivenTo(t, x, s)) \in Nat
        <3>1. PICK r : r = s[t]
            OBVIOUS
        <3>2. r \in Seq(Entries) /\ Len(r) \in Nat
            BY <3>1, LenProperties
        <3>3. Cardinality(BetweenOf(r, now, now, Len(r))) \in Nat
            <4>1. Len(r) <= Len(r) /\ now <= now /\ \A i \in 1..Len(r) : r[i] = r[i]
                BY <3>2
            <4> QED
                BY <3>2, <4>1, MoreGiven
        <3> QED
            BY <1>1, <3>1, <3>3 DEF GivenTo
    <2>4. Ahead(t, x) \/ Enough(t, x, s)
        <3>1. CASE Len(x.left) = 1 /\ Aims(x.left[1], t) /\ Threshold[t[1]] <= x.left[1].least
            <4>1. x.left[1].least \in Nat
                BY <3>1 DEF Aims, Steady
            <4>2. Threshold[t[1]] <= x.left[1].least + Cardinality(GivenTo(t, x, s))
                BY <2>2, <2>3, <3>1, <4>1
            <4> QED
                BY <1>1, <3>1, <4>2 DEF Enough
        <3>2. CASE /\ Len(x.left) = 2 /\ Aims(x.left[2], t)
                   /\ Threshold[t[1]] <= x.left[2].least /\ t[1] # "port_scan"
            BY <3>2 DEF Ahead
        <3> QED
            BY <2>1, <3>1, <3>2 DEF Suffices
    <2>5. Heading(x, s)
        BY <1>1, <1>3, <2>1, <2>4 DEF Heading
    <2>6. x.left # << >>
        BY <1>2, <2>4 DEF Ahead, Enough
    <2> QED
        BY <1>1, <2>5, <2>6 DEF JobOK
<1>4. CASE attack \notin Kinds
    <2>1. Shows(x.left, ip, attack)
        BY <1>1, <1>4, PlanShows
    <2>2. Heading(x, s)
        BY <1>1, <1>4, <2>1 DEF Heading
    <2>3. x.left # << >>
        <3>1. Len(x.left) = 1
            BY <2>1 DEF Shows
        <3> QED
            BY <1>2, <3>1
    <2> QED
        BY <1>1, <2>2, <2>3 DEF JobOK
<1> QED
    BY <1>3, <1>4

LEMMA AskGenuine ==
    ASSUME Inv, Ask
    PROVE  JobInv'
<1>1. PICK attack \in scene.asked, ip \in Sources, target \in SensitivePorts :
          job' = [attack |-> attack, ip |-> ip, left |-> Plan(attack, ip, target),
                  since |-> clock, last |-> clock, ports |-> {}]
    BY DEF Ask
<1>2. /\ scene.asked \subseteq Attacks \cup {"normal"} /\ clock \in Nat
      /\ \A t \in Tracks : sent[t] \in Seq(Entries)
    BY DEF Inv, SourcesInv, SceneOf, DetInv, DetectorsTyped
<1>3. clock' = clock /\ sent' = sent
    BY DEF Ask, detectors
<1>4. PICK x : x = job'
    OBVIOUS
<1>5. CASE attack = "normal"
    <2>1. x.attack = "normal"
        BY <1>1, <1>4, <1>5
    <2> QED
        BY <1>4, <2>1, JobIsNext DEF JobOK
<1>6. CASE attack # "normal"
    <2>1. attack \in Attacks
        BY <1>2, <1>6
    <2>2. JobOK(x, clock, sent, alerts')
        BY <1>1, <1>2, <1>4, <2>1, PlanHeads
    <2> QED
        BY <1>3, <1>4, <2>2, JobIsNext
<1> QED
    BY <1>5, <1>6

\* A packet, whosever it is, takes nothing from what a track was given.
LEMMA GivenKept ==
    ASSUME DetInv, NEW p, Timely(p), Analyze(p), NEW t \in Tracks,
           NEW lo \in Nat, NEW hi \in Nat, NEW later \in Nat, hi <= later,
           NEW s, s = sent[t], NEW s2, s2 = sent'[t]
    PROVE  /\ IsFiniteSet(BetweenOf(s2, lo, later, Len(s2)))
           /\ Cardinality(BetweenOf(s, lo, hi, Len(s))) \in Nat
           /\ Cardinality(BetweenOf(s2, lo, later, Len(s2))) \in Nat
           /\ Cardinality(BetweenOf(s, lo, hi, Len(s)))
                  <= Cardinality(BetweenOf(s2, lo, later, Len(s2)))
           /\ PortsOf(s, BetweenOf(s, lo, hi, Len(s)))
                  \subseteq PortsOf(s2, BetweenOf(s2, lo, later, Len(s2)))
<1>1. /\ s \in Seq(Entries) /\ s2 \in Seq(Entries) /\ Len(s) <= Len(s2)
      /\ \A i \in 1..Len(s) : s2[i] = s[i]
    BY SentGrows
<1> QED
    BY <1>1, MoreGiven

LEMMA GivenOneMore ==
    ASSUME DetInv, NEW p, Timely(p), Analyze(p), NEW t \in Tracked(p), t \in Tracks,
           NEW lo \in Nat, NEW hi \in Nat, lo <= p.ts, hi <= p.ts,
           NEW s, s = sent[t], NEW s2, s2 = sent'[t]
    PROVE  /\ Cardinality(BetweenOf(s, lo, hi, Len(s))) + 1
                  <= Cardinality(BetweenOf(s2, lo, p.ts, Len(s2)))
           /\ p.port \in PortsOf(s2, BetweenOf(s2, lo, p.ts, Len(s2)))
<1>1. PICK e : e = Stamp(p)
    OBVIOUS
<1>2. e \in Entries /\ e.ts = p.ts /\ e.port = p.port
    BY <1>1, StampIs DEF Timely, Stamp
<1>3. s \in Seq(Entries) /\ s2 = Append(s, e)
    BY <1>1, SentGrows, Slides
<1>4. lo <= e.ts /\ hi <= e.ts
    BY <1>2
<1>5. /\ Cardinality(BetweenOf(s, lo, hi, Len(s))) + 1
             <= Cardinality(BetweenOf(Append(s, e), lo, e.ts, Len(Append(s, e))))
      /\ e.port \in PortsOf(Append(s, e),
                             BetweenOf(Append(s, e), lo, e.ts, Len(Append(s, e))))
    BY <1>2, <1>3, <1>4, OneMoreGiven
<1> QED
    BY <1>2, <1>3, <1>5, Zenon

\* Alerts are never taken back.
LEMMA TriggeredStays ==
    ASSUME NEW x, NEW als, NEW more, als \subseteq more, Triggered(x, als)
    PROVE  Triggered(x, more)
BY DEF Triggered, ReportedIn

LEMMA SniffedGenuine ==
    ASSUME Inv, JobInv, Sniffed
    PROVE  JobInv'
<1>1. PICK shape \in DOMAIN scene.sniffed, src \in Sources, d \in scene.steps :
          Analyze(Made(shape, src, clock + d))
    BY DEF Sniffed
<1>2. DetInv /\ SceneOf(scene) /\ shape \in Shapes /\ clock \in Nat
    BY DEF Inv, SourcesInv, SceneOf, DetInv, DetectorsTyped
<1>3. PICK p : p = Made(shape, src, clock + d)
    OBVIOUS
<1>4. Timely(p) /\ Analyze(p)
    BY <1>1, <1>2, <1>3, MadeIsTimely
<1>5. clock' \in Nat /\ clock <= clock'
    <2>1. clock' = (IF p.ts > clock THEN p.ts ELSE clock) /\ p.ts \in Nat
        BY <1>4, StampIs DEF Analyze, Timely
    <2> QED
        BY <1>2, <2>1
<1>6. alerts \subseteq alerts'
    BY <1>4, NewAlerts
<1>7. PICK x : x = job
    OBVIOUS
<1>8. x = job' /\ (x # None => x \in Jobs)
    BY <1>7 DEF Sniffed, Inv, SourcesInv
<1> SUFFICES ASSUME x # None, x.attack # "normal"
             PROVE  /\ x.since <= x.last /\ x.last <= clock'
                    /\ IF x.left = << >> THEN Triggered(x, alerts') ELSE Heading(x, sent')
    BY <1>8, JobIsNext DEF JobOK
<1>9. /\ x.since <= x.last /\ x.last <= clock
      /\ IF x.left = << >> THEN Triggered(x, alerts) ELSE Heading(x, sent)
    BY <1>7, JobIs DEF JobOK
<1>10. x.since \in Nat /\ x.last \in Nat
    BY <1>8 DEF Jobs
<1>11. x.last <= clock'
    BY <1>2, <1>5, <1>9, <1>10
<1>12. ASSUME NEW t \in Tracks, Enough(t, x, sent) PROVE Enough(t, x, sent')
    <2>1. PICK s : s = sent[t]
        OBVIOUS
    <2>2. PICK s2 : s2 = sent'[t]
        OBVIOUS
    <2>9. PICK lo \in Nat : lo = x.since
        BY <1>10
    <2>10. PICK hi \in Nat : hi = x.last
        BY <1>10
    <2> DEFINE B  == BetweenOf(s, lo, hi, Len(s))
               B2 == BetweenOf(s2, lo, hi, Len(s2))
    <2>3. GivenTo(t, x, sent) = B /\ GivenTo(t, x, sent') = B2
        BY <2>1, <2>2, <2>9, <2>10 DEF GivenTo
    <2>4. hi <= hi
        OBVIOUS
    <2>5. /\ Cardinality(B) \in Nat /\ Cardinality(B2) \in Nat
          /\ Cardinality(B) <= Cardinality(B2)
          /\ PortsOf(s, B) \subseteq PortsOf(s2, B2)
        <3> HIDE DEF B, B2
        <3>1. DetInv /\ Timely(p) /\ Analyze(p) /\ t \in Tracks /\ s = sent[t] /\ s2 = sent'[t]
            BY <1>2, <1>4, <2>1, <2>2
        <3>2. /\ Cardinality(BetweenOf(s, lo, hi, Len(s))) \in Nat
              /\ Cardinality(BetweenOf(s2, lo, hi, Len(s2))) \in Nat
              /\ Cardinality(BetweenOf(s, lo, hi, Len(s)))
                     <= Cardinality(BetweenOf(s2, lo, hi, Len(s2)))
            BY <2>4, <3>1, GivenKept
        <3>3. PortsOf(s, BetweenOf(s, lo, hi, Len(s)))
                  \subseteq PortsOf(s2, BetweenOf(s2, lo, hi, Len(s2)))
            BY <2>4, <3>1, GivenKept
        <3> QED
            BY <3>2, <3>3 DEF B, B2
    <2> HIDE DEF B, B2
    <2>6. Len(x.left) = 1 /\ Aims(x.left[1], t)
        BY <1>12 DEF Enough
    <2>7. CASE t[1] = "port_scan"
        <3>1. x.ports \subseteq PortsOf(s, B)
            BY <1>12, <2>1, <2>3, <2>7 DEF Enough
        <3>2. x.ports \subseteq PortsOf(sent'[t], GivenTo(t, x, sent'))
            BY <2>2, <2>3, <2>5, <3>1
        <3> QED
            BY <2>6, <2>7, <3>2 DEF Enough
    <2>8. CASE t[1] # "port_scan"
        <3>1. Threshold[t[1]] <= x.left[1].least + Cardinality(B)
            BY <1>12, <2>3, <2>8 DEF Enough
        <3>2. x.left[1].least \in Nat /\ Threshold[t[1]] \in Nat
            BY <2>6, TrackIs DEF Aims, Steady
        <3>3. Threshold[t[1]] <= x.left[1].least + Cardinality(B2)
            BY <2>5, <3>1, <3>2
        <3> QED
            BY <2>3, <2>6, <2>8, <3>3 DEF Enough
    <2> QED
        BY <2>7, <2>8
<1>13. Heading(x, sent) => Heading(x, sent')
    BY <1>12 DEF Heading
<1> QED
    BY <1>6, <1>9, <1>11, <1>13, TriggeredStays

\* The loop after a packet from src that was not its last.
Again(loop, src) ==
    [loop EXCEPT !.least = @ - 1, !.most = @ - 1,
                 !.from = IF loop.same THEN {src} ELSE @]

LEMMA AgainIs ==
    ASSUME NEW loop \in LoopOf, NEW src \in loop.from
    PROVE  Again(loop, src) \in LoopOf
<1> DEFINE from == IF loop.same THEN {src} ELSE loop.from
<1>1. from \in SUBSET Sources
    BY DEF LoopOf
<1>2. Again(loop, src) = [loop EXCEPT !.least = @ - 1, !.most = @ - 1, !.from = from]
    BY DEF Again
<1> HIDE DEF from
<1> QED
    BY <1>1, <1>2, LoopAgain

LEMMA AgainSteady ==
    ASSUME NEW loop \in LoopOf, NEW ip, Steady(loop, ip), NEW src \in loop.from, loop.most > 1
    PROVE  /\ Steady(Again(loop, src), ip) /\ src = ip
           /\ Again(loop, src).least = loop.least - 1
           /\ Again(loop, src).shapes = loop.shapes
<1>1. /\ loop = [least |-> loop.least, most |-> loop.most, from |-> loop.from,
                 same |-> loop.same, shapes |-> loop.shapes]
      /\ loop.least \in Int
    BY DEF LoopOf
<1>2. /\ loop.from = {ip} /\ loop.same /\ loop.least = loop.most /\ loop.least \in Nat \ {0}
      /\ src = ip
    BY DEF Steady
<1>3. PICK e : e = Again(loop, src)
    OBVIOUS
<1>4. /\ e.least = loop.least - 1 /\ e.most = loop.most - 1 /\ e.from = {ip} /\ e.same
      /\ e.shapes = loop.shapes
    BY <1>1, <1>2, <1>3 DEF Again
<1>5. e.least = e.most /\ e.least \in Nat \ {0}
    BY <1>2, <1>4
<1> QED
    BY <1>2, <1>3, <1>4, <1>5 DEF Steady

\* What a packet of the request does.
LEMMA PutIs ==
    ASSUME Inv, Put
    PROVE  \E shape \in Head(job.left).shapes, src \in Head(job.left).from,
              ts \in Nat : \E left, since :
               /\ Timely(Made(shape, src, ts)) /\ Analyze(Made(shape, src, ts))
               /\ ts >= clock
               /\ job' = [attack |-> job.attack, ip |-> job.ip, left |-> left, since |-> since,
                          last |-> ts, ports |-> job.ports \cup {shape.port}]
               /\ since = IF left = Tail(job.left) /\ left # << >> THEN ts ELSE job.since
               /\ \/ Head(job.left).least <= 1 /\ left = Tail(job.left)
                  \/ /\ Head(job.left).most > 1
                     /\ left = << Again(Head(job.left), src) >> \o Tail(job.left)
<1> DEFINE loop == Head(job.left)
           ends == IF loop.least <= 1 THEN {Tail(job.left)} ELSE {}
           goes(src) == IF loop.most > 1 THEN {<< Again(loop, src) >> \o Tail(job.left)} ELSE {}
<1>1. PICK src \in loop.from, shape \in loop.shapes, d \in scene.steps :
          /\ d = 0 \/ (d > 0 /\ scene.pauses > 0)
          /\ Analyze(Made(shape, src, clock + d))
          /\ \E left \in ends \cup goes(src) :
                job' = [job EXCEPT !.left = left, !.last = clock + d,
                                   !.ports = @ \cup {shape.port},
                                   !.since = IF left = Tail(job.left) /\ left # << >>
                                             THEN clock + d ELSE @]
    BY DEF Put, Again
<1>2. DetInv /\ SceneOf(scene) /\ job \in Jobs /\ job.left \in Seq(LoopOf) /\ job.left # << >>
    BY DEF Inv, SourcesInv, Put, Jobs
<1>3. shape \in Shapes /\ src \in Sources
    BY <1>1, <1>2, LoopsGoOn
<1>4. PICK ts : ts = clock + d
    OBVIOUS
<1>5. Timely(Made(shape, src, ts)) /\ ts \in Nat
    BY <1>2, <1>3, <1>4, MadeIsTimely
<1>6. ts >= clock
    <2>1. clock \in Nat /\ d \in Int
        BY <1>2 DEF DetInv, DetectorsTyped, SceneOf
    <2> QED
        BY <1>1, <1>4, <2>1
<1> HIDE DEF loop
<1>7. PICK left \in ends \cup goes(src) :
          job' = [job EXCEPT !.left = left, !.last = ts, !.ports = @ \cup {shape.port},
                             !.since = IF left = Tail(job.left) /\ left # << >> THEN ts ELSE @]
    BY <1>1, <1>4
<1>8. PICK since : since = IF left = Tail(job.left) /\ left # << >> THEN ts ELSE job.since
    OBVIOUS
<1>9. PICK ports : ports = job.ports \cup {shape.port}
    OBVIOUS
<1>10. job' = [job EXCEPT !.left = left, !.last = ts, !.ports = ports, !.since = since]
    BY <1>7, <1>8, <1>9
<1>11. job' = [attack |-> job.attack, ip |-> job.ip, left |-> left, since |-> since,
               last |-> ts, ports |-> ports]
    BY <1>2, <1>10 DEF Jobs
<1>12. \/ loop.least <= 1 /\ left = Tail(job.left)
       \/ loop.most > 1 /\ left = << Again(loop, src) >> \o Tail(job.left)
    BY <1>7
<1> HIDE DEF ends, goes
<1>13. Analyze(Made(shape, src, ts))
    BY <1>1, <1>4
<1>14. shape \in Head(job.left).shapes /\ src \in Head(job.left).from
    BY <1>1 DEF loop
<1> QED
    BY <1>5, <1>6, <1>8, <1>9, <1>11, <1>12, <1>13, <1>14 DEF loop

LEMMA TellingMatches ==
    ASSUME NEW shape, NEW attack, Tells(shape, attack), NEW src, NEW ts
    PROVE  \E al \in Matched(Made(shape, src, ts)) :
               al.track[1] = attack /\ al.track[2] = src /\ al.at = ts
<1>1. PICK n \in shape.sigs : Rules[n].type = attack /\ \A other \in shape.sigs : n <= other
    BY DEF Tells
<1>2. PICK p : p = Made(shape, src, ts)
    OBVIOUS
<1>3. p.sigs = shape.sigs /\ p.src = src /\ p.ts = ts
    BY <1>2 DEF Made
<1>4. PICK al : al = [track |-> <<Rules[n].type, p.src, NoPort>>, at |-> p.ts, seen |-> 0,
                      sev |-> Rules[n].sev, by |-> "pattern"]
    OBVIOUS
<1>5. al \in Matched(p)
    BY <1>1, <1>3, <1>4 DEF Matched
<1>6. al.track = <<attack, src, NoPort>> /\ al.at = ts
    BY <1>1, <1>3, <1>4
<1> QED
    BY <1>2, <1>5, <1>6

\* A packet from the source of a track, of a shape that counts there, counts.
LEMMA AimedIsTracked ==
    ASSUME NEW t \in Tracks, NEW loop, Aims(loop, t), NEW shape \in loop.shapes,
           shape \in Shapes, NEW src \in loop.from, NEW ts
    PROVE  t \in Tracked(Made(shape, src, ts))
<1>1. src = t[2] /\ Counts(t, shape)
    BY DEF Aims, Steady
<1>2. t \in Tracked(Made(shape, t[2], ts))
    BY <1>1, CountsAlways
<1> QED
    BY <1>1, <1>2

LEMMA AgainAims ==
    ASSUME NEW loop \in LoopOf, NEW t, Aims(loop, t), NEW src \in loop.from, loop.most > 1
    PROVE  Aims(Again(loop, src), t) /\ Again(loop, src).least = loop.least - 1
<1>1. PICK ip : ip = t[2]
    OBVIOUS
<1>2. Steady(loop, ip)
    BY <1>1 DEF Aims
<1>3. /\ Steady(Again(loop, src), ip) /\ Again(loop, src).least = loop.least - 1
      /\ Again(loop, src).shapes = loop.shapes
    BY <1>2, AgainSteady
<1> QED
    BY <1>1, <1>3 DEF Aims

\* A request of an attack by count after a packet of its last loop.
LEMMA EnoughGoesOn ==
    ASSUME DetInv, NEW x \in Jobs, NEW t \in Tracks, t[1] = x.attack, t[2] = x.ip,
           Enough(t, x, sent), x.since <= x.last, x.last <= clock,
           NEW shape \in x.left[1].shapes, shape \in Shapes, NEW src \in x.left[1].from,
           NEW ts \in Nat, ts >= clock,
           Timely(Made(shape, src, ts)), Analyze(Made(shape, src, ts)),
           NEW y, NEW left,
           y = [attack |-> x.attack, ip |-> x.ip, left |-> left, since |-> x.since,
                last |-> ts, ports |-> x.ports \cup {shape.port}]
    PROVE  /\ x.left[1].most > 1 /\ left = << Again(x.left[1], src) >>
                  => Enough(t, y, sent')
           /\ x.left[1].least <= 1 /\ left = << >> => Triggered(y, alerts')
<1> DEFINE loop == x.left[1]
<1>1. PICK p : p = Made(shape, src, ts)
    OBVIOUS
<1>2. /\ Timely(p) /\ Analyze(p) /\ p.ts = ts /\ p.port = shape.port
    BY <1>1 DEF Made
<1>3. /\ x.left \in Seq(LoopOf) /\ x.since \in Nat /\ x.last \in Nat
      /\ x.ports \in SUBSET ({NoPort} \cup Ports) /\ clock \in Nat
    BY DEF Jobs, DetInv, DetectorsTyped
<1>4. Len(x.left) = 1 /\ Aims(loop, t)
    BY DEF Enough
<1>5. loop \in LoopOf
    <2>1. 1 \in 1..Len(x.left)
        BY <1>4
    <2> QED
        BY <1>3, <2>1, ElementOfSeq
<1>6. t \in Tracked(p)
    BY <1>1, <1>4, AimedIsTracked
<1>7. loop.least \in Nat \ {0} /\ loop.least = loop.most /\ Threshold[t[1]] \in Nat \ {0}
    BY <1>4, TrackIs DEF Aims, Steady
<1>8. PICK s : s = sent[t]
    OBVIOUS
<1>9. PICK s2 : s2 = sent'[t]
    OBVIOUS
<1>10. PICK lo \in Nat : lo = x.since
    BY <1>3
<1>11. PICK hi \in Nat : hi = x.last
    BY <1>3
<1>12. lo <= ts /\ hi <= ts
    BY <1>3, <1>10, <1>11
<1> DEFINE B  == BetweenOf(s, lo, hi, Len(s))
           B2 == BetweenOf(s2, lo, ts, Len(s2))
<1>13. GivenTo(t, x, sent) = B /\ GivenTo(t, y, sent') = B2
    BY <1>8, <1>9, <1>10, <1>11 DEF GivenTo
<1> HIDE DEF loop, B, B2
<1>14. /\ IsFiniteSet(B2) /\ Cardinality(B) \in Nat /\ Cardinality(B2) \in Nat
       /\ PortsOf(s, B) \subseteq PortsOf(s2, B2)
    BY <1>2, <1>8, <1>9, <1>12, GivenKept DEF B, B2
<1>15. Cardinality(B) + 1 <= Cardinality(B2) /\ shape.port \in PortsOf(s2, B2)
    <2>1. /\ Cardinality(BetweenOf(s, lo, hi, Len(s))) + 1
                  <= Cardinality(BetweenOf(s2, lo, p.ts, Len(s2)))
          /\ p.port \in PortsOf(s2, BetweenOf(s2, lo, p.ts, Len(s2)))
        BY <1>2, <1>6, <1>8, <1>9, <1>12, GivenOneMore
    <2> QED
        BY <1>2, <2>1 DEF B, B2
<1>16. t[1] = "port_scan" => x.ports \cup {shape.port} \subseteq PortsOf(s2, B2)
    <2> SUFFICES ASSUME t[1] = "port_scan"
                 PROVE  x.ports \cup {shape.port} \subseteq PortsOf(s2, B2)
        OBVIOUS
    <2>1. x.ports \subseteq PortsOf(s, B)
        BY <1>8, <1>13 DEF Enough
    <2> QED
        BY <1>14, <1>15, <2>1
<1>17. t[1] # "port_scan" => Threshold[t[1]] <= (loop.least - 1) + Cardinality(B2)
    <2> SUFFICES ASSUME t[1] # "port_scan"
                 PROVE  Threshold[t[1]] <= (loop.least - 1) + Cardinality(B2)
        OBVIOUS
    <2>1. Threshold[t[1]] <= loop.least + Cardinality(B)
        BY <1>8, <1>13 DEF Enough, loop
    <2> QED
        BY <1>7, <1>14, <1>15, <2>1
<1>18. /\ y.attack = x.attack /\ y.ip = x.ip /\ y.left = left /\ y.since = x.since
       /\ y.last = ts /\ y.ports = x.ports \cup {shape.port}
    OBVIOUS
<1>19. ASSUME loop.most > 1, left = << Again(loop, src) >>
       PROVE  Enough(t, y, sent')
    <2>1. src \in loop.from
        BY DEF loop
    <2>2. PICK e : e = Again(loop, src)
        OBVIOUS
    <2>3. Aims(e, t) /\ e.least = loop.least - 1
        BY <1>4, <1>5, <1>19, <2>1, <2>2, AgainAims
    <2>4. Len(y.left) = 1 /\ y.left[1] = e
        BY <1>18, <1>19, <2>2
    <2>5. CASE t[1] = "port_scan"
        <3>1. y.ports \subseteq PortsOf(sent'[t], GivenTo(t, y, sent'))
            BY <1>9, <1>13, <1>16, <1>18, <2>5
        <3> QED
            BY <2>3, <2>4, <2>5, <3>1 DEF Enough
    <2>6. CASE t[1] # "port_scan"
        <3>1. Threshold[t[1]] <= y.left[1].least + Cardinality(GivenTo(t, y, sent'))
            BY <1>13, <1>17, <2>3, <2>4, <2>6
        <3> QED
            BY <2>3, <2>4, <2>6, <3>1 DEF Enough
    <2> QED
        BY <2>5, <2>6
<1>20. ASSUME loop.least <= 1, left = << >>
       PROVE  Triggered(y, alerts')
    <2>1. t[1] \in Kinds /\ Window[t[1]] \in Nat \ {0}
        BY TrackIs
    <2> SUFFICES ASSUME ts - lo <= Window[t[1]],
                        t[1] = "port_scan" =>
                            Cardinality(x.ports \cup {shape.port}) >= Threshold["port_scan"]
                 PROVE  ReportedIn(y, alerts', ts - Window[t[1]])
        BY <1>10, <1>18, <2>1 DEF Triggered
    <2>2. MeasuredOf(t[1], s2, B2) >= Threshold[t[1]]
        <3>1. CASE t[1] = "port_scan"
            <4>1. IsFiniteSet(PortsOf(s2, B2))
                <5> DEFINE f == [i \in B2 |-> s2[i].port]
                <5>1. f \in Surjection(B2, PortsOf(s2, B2))
                    BY DEF Surjection, PortsOf
                <5> QED
                    BY <1>14, <5>1, FS_Surjection
            <4> DEFINE put == x.ports \cup {shape.port}
            <4>2. put \in SUBSET PortsOf(s2, B2)
                BY <1>16, <3>1
            <4> HIDE DEF put
            <4>3. /\ Cardinality(put) \in Nat /\ Cardinality(PortsOf(s2, B2)) \in Nat
                  /\ Cardinality(put) <= Cardinality(PortsOf(s2, B2))
                BY <4>1, <4>2, FS_Subset, FS_CardinalityType
            <4>4. Cardinality(put) >= Threshold[t[1]]
                BY <3>1 DEF put
            <4>5. Cardinality(PortsOf(s2, B2)) >= Threshold[t[1]]
                BY <1>7, <4>3, <4>4
            <4> QED
                BY <3>1, <4>5 DEF MeasuredOf, PortsOf
        <3>2. CASE t[1] # "port_scan"
            <4>1. Cardinality(B2) >= Threshold[t[1]]
                BY <1>7, <1>14, <1>17, <1>20, <3>2
            <4> QED
                BY <3>2, <4>1 DEF MeasuredOf
        <3> QED
            BY <3>1, <3>2
    <2>3. PICK now \in Nat : now = clock'
        BY <1>2, Slides
    <2>4. now = ts
        BY <1>2, <1>3, <2>3 DEF Analyze
    <2>5. s2 \in Seq(Entries) /\ s2 # << >> /\ s2[Len(s2)].ts = now
        BY <1>2, <1>6, <1>9, <2>4, SentGrows
    <2>6. UpTo(s2, now)
        <3>1. Kept(windows'[t], sent'[t], Window[t[1]], clock')
            BY <1>2, Slides
        <3> QED
            BY <1>9, <2>3, <3>1 DEF Kept
    <2>7. PICK als : als = alerts'
        OBVIOUS
    <2>8. BurstOf(t, s2, als)
        <3>1. BurstReported'
            BY <1>2, BurstsKept
        <3> QED
            BY <1>9, <2>7, <3>1, BurstIsNext
    <2>9. MeasuredOf(t[1], s2, BetweenOf(s2, lo, now, Len(s2))) >= Threshold[t[1]]
        BY <2>2, <2>4 DEF B2
    <2>10. now - lo <= Window[t[1]]
        BY <2>4
    <2>11. PICK al \in als : al.track = t /\ al.at > now - Window[t[1]]
        BY <2>5, <2>6, <2>8, <2>9, <2>10, ThresholdReports
    <2> QED
        BY <1>18, <2>4, <2>7, <2>11 DEF ReportedIn
<1> QED
    BY <1>19, <1>20 DEF loop

LEMMA PutGenuine ==
    ASSUME Inv, JobInv, Put
    PROVE  JobInv'
<1>1. PICK x : x = job
    OBVIOUS
<1>2. DetInv /\ x \in Jobs /\ x # None /\ x.left # << >> /\ clock \in Nat
    BY <1>1 DEF Inv, SourcesInv, Put, DetInv, DetectorsTyped
<1>30. PICK shape \in Head(x.left).shapes, src \in Head(x.left).from, ts \in Nat :
          \E left, since :
              /\ Timely(Made(shape, src, ts)) /\ Analyze(Made(shape, src, ts))
              /\ ts >= clock
              /\ job' = [attack |-> x.attack, ip |-> x.ip, left |-> left, since |-> since,
                         last |-> ts, ports |-> x.ports \cup {shape.port}]
              /\ since = IF left = Tail(x.left) /\ left # << >> THEN ts ELSE x.since
              /\ \/ Head(x.left).least <= 1 /\ left = Tail(x.left)
                 \/ /\ Head(x.left).most > 1
                    /\ left = << Again(Head(x.left), src) >> \o Tail(x.left)
    BY <1>1, PutIs
<1>3. PICK left, since :
          /\ Timely(Made(shape, src, ts)) /\ Analyze(Made(shape, src, ts))
          /\ ts >= clock
          /\ job' = [attack |-> x.attack, ip |-> x.ip, left |-> left, since |-> since,
                     last |-> ts, ports |-> x.ports \cup {shape.port}]
          /\ since = IF left = Tail(x.left) /\ left # << >> THEN ts ELSE x.since
          /\ \/ Head(x.left).least <= 1 /\ left = Tail(x.left)
             \/ /\ Head(x.left).most > 1
                /\ left = << Again(Head(x.left), src) >> \o Tail(x.left)
    BY <1>30
<1>4. PICK y : y = job'
    OBVIOUS
<1>5. /\ y.attack = x.attack /\ y.ip = x.ip /\ y.left = left /\ y.since = since /\ y.last = ts
      /\ y.ports = x.ports \cup {shape.port}
    BY <1>3, <1>4
<1>6. clock' = ts
    <2>1. clock' = IF ts > clock THEN ts ELSE clock
        BY <1>3 DEF Analyze, Made
    <2> QED
        BY <1>2, <1>3, <2>1
<1> SUFFICES ASSUME x.attack # "normal"
             PROVE  /\ since <= ts
                    /\ IF left = << >> THEN Triggered(y, alerts') ELSE Heading(y, sent')
    BY <1>4, <1>5, <1>6, JobIsNext DEF JobOK
<1>7. /\ x.since <= x.last /\ x.last <= clock /\ Heading(x, sent)
    BY <1>1, <1>2, JobIs DEF JobOK
<1>8. x.left \in Seq(LoopOf) /\ x.since \in Nat /\ x.last \in Nat
    BY <1>2 DEF Jobs
<1>9. since <= ts /\ x.since <= ts
    BY <1>2, <1>3, <1>7, <1>8
<1>10. Head(x.left) \in LoopOf
    BY <1>2, <1>8, HeadTailProperties
<1>11. Again(Head(x.left), src) \in LoopOf /\ shape \in Shapes
    BY <1>3, <1>10, AgainIs DEF LoopOf
<1>12. PICK e \in LoopOf : e = Again(Head(x.left), src)
    BY <1>11
<1>13. CASE x.attack \notin Kinds
    <2>1. Shows(x.left, x.ip, x.attack)
        BY <1>7, <1>13 DEF Heading
    <2>2. Len(x.left) = 1
        BY <2>1 DEF Shows
    <2>3. /\ Head(x.left) = x.left[1] /\ Tail(x.left) = << >>
          /\ << e >> \o Tail(x.left) = << e >> /\ Len(<< e >>) = 1 /\ << e >>[1] = e
          /\ << e >> # << >>
        BY <1>8, <2>2, LastLoop
    <2>4. since = x.since
        BY <1>3, <2>3
    <2>5. Steady(Head(x.left), x.ip) /\ Tells(shape, x.attack)
        BY <2>1, <2>3 DEF Shows
    <2>6. CASE left = << >>
        <3>1. src = x.ip
            BY <2>5 DEF Steady
        <3>2. PICK al \in Matched(Made(shape, src, ts)) :
                  al.track[1] = x.attack /\ al.track[2] = src /\ al.at = ts
            BY <2>5, TellingMatches
        <3>3. al \in alerts'
            BY <1>3, NewAlerts
        <3>4. al.at > y.since - 1
            BY <1>5, <1>8, <1>9, <2>4, <3>2
        <3>5. ReportedIn(y, alerts', y.since - 1)
            BY <1>5, <3>1, <3>2, <3>3, <3>4 DEF ReportedIn
        <3>6. Triggered(y, alerts')
            BY <1>5, <1>13, <3>5 DEF Triggered
        <3> QED
            BY <1>9, <2>6, <3>6
    <2>7. CASE left # << >>
        <3>1. Head(x.left).most > 1 /\ left = << e >>
            BY <1>3, <1>12, <2>3, <2>7
        <3>2. Steady(e, x.ip) /\ e.shapes = Head(x.left).shapes
            BY <1>3, <1>10, <1>12, <2>5, <3>1, AgainSteady
        <3>3. \A sh \in e.shapes : Tells(sh, x.attack)
            BY <2>1, <2>3, <3>2 DEF Shows
        <3>4. Len(left) = 1 /\ left[1] = e
            BY <2>3, <3>1
        <3>5. Shows(left, x.ip, x.attack)
            BY <3>2, <3>3, <3>4 DEF Shows
        <3>6. Heading(y, sent')
            BY <1>5, <1>13, <3>5 DEF Heading
        <3> QED
            BY <1>9, <2>7, <3>6
    <2> QED
        BY <2>6, <2>7
<1>14. CASE x.attack \in Kinds
    <2>1. PICK t \in Tracks : /\ t[1] = x.attack /\ t[2] = x.ip
                              /\ Ahead(t, x) \/ Enough(t, x, sent)
        BY <1>7, <1>14 DEF Heading
    <2>2. CASE Ahead(t, x)
        <3>1. Len(x.left) = 2 /\ Aims(x.left[2], t) /\ t[1] # "port_scan"
              /\ Threshold[t[1]] <= x.left[2].least
            BY <2>2 DEF Ahead
        <3>2. /\ Len(Tail(x.left)) = 1 /\ Tail(x.left)[1] = x.left[2] /\ Tail(x.left) # << >>
              /\ Len(<< e >> \o Tail(x.left)) = 2
              /\ (<< e >> \o Tail(x.left))[2] = x.left[2]
              /\ << e >> \o Tail(x.left) # << >>
            BY <1>8, <3>1, FirstLoop
        <3>3. left # << >>
            BY <1>3, <1>12, <3>2
        <3>4. CASE left = Tail(x.left)
            <4>1. Len(y.left) = 1 /\ y.left[1] = x.left[2]
                BY <1>5, <3>2, <3>4
            <4>2. x.left[2].least \in Nat /\ Threshold[t[1]] \in Nat
                BY <3>1, TrackIs DEF Aims, Steady
            <4>3. Cardinality(GivenTo(t, y, sent')) \in Nat
                <5>1. PICK lo \in Nat : lo = y.since
                    BY <1>3, <1>5, <1>8
                <5>2. PICK s : s = sent[t]
                    OBVIOUS
                <5>3. PICK s2 : s2 = sent'[t]
                    OBVIOUS
                <5>4. ts <= ts
                    OBVIOUS
                <5>5. Cardinality(BetweenOf(s2, lo, ts, Len(s2))) \in Nat
                    BY <1>2, <1>3, <5>2, <5>3, <5>4, GivenKept
                <5> QED
                    BY <1>5, <5>1, <5>3, <5>5 DEF GivenTo
            <4>4. Threshold[t[1]] <= y.left[1].least + Cardinality(GivenTo(t, y, sent'))
                BY <3>1, <4>1, <4>2, <4>3
            <4>5. Enough(t, y, sent')
                BY <3>1, <4>1, <4>4 DEF Enough
            <4>6. Heading(y, sent')
                BY <1>5, <1>14, <2>1, <4>5 DEF Heading
            <4> QED
                BY <1>9, <3>3, <4>6
        <3>5. CASE left = << e >> \o Tail(x.left)
            <4>1. Len(y.left) = 2 /\ y.left[2] = x.left[2]
                BY <1>5, <3>2, <3>5
            <4>2. Ahead(t, y)
                BY <3>1, <4>1 DEF Ahead
            <4>3. Heading(y, sent')
                BY <1>5, <1>14, <2>1, <4>2 DEF Heading
            <4> QED
                BY <1>9, <3>3, <4>3
        <3> QED
            BY <1>3, <1>12, <3>4, <3>5
    <2>3. CASE Enough(t, x, sent)
        <3>1. Len(x.left) = 1
            BY <2>3 DEF Enough
        <3>2. /\ Head(x.left) = x.left[1] /\ Tail(x.left) = << >>
              /\ << e >> \o Tail(x.left) = << e >> /\ << e >> # << >>
            BY <1>8, <3>1, LastLoop
        <3>3. since = x.since
            BY <1>3, <3>2
        <3>4. y = [attack |-> x.attack, ip |-> x.ip, left |-> left, since |-> x.since,
                   last |-> ts, ports |-> x.ports \cup {shape.port}]
            BY <1>3, <1>4, <3>3
        <3>5. shape \in x.left[1].shapes /\ src \in x.left[1].from
            BY <1>3, <3>2
        <3>6. /\ x.left[1].most > 1 /\ left = << Again(x.left[1], src) >>
                     => Enough(t, y, sent')
              /\ x.left[1].least <= 1 /\ left = << >> => Triggered(y, alerts')
            BY <1>2, <1>3, <1>7, <1>11, <2>1, <2>3, <3>4, <3>5, EnoughGoesOn
        <3>7. CASE left = << >>
            <4>1. x.left[1].least <= 1
                BY <1>3, <1>12, <3>2, <3>7
            <4> QED
                BY <1>9, <3>6, <3>7, <4>1
        <3>8. CASE left # << >>
            <4>1. x.left[1].most > 1 /\ left = << Again(x.left[1], src) >>
                BY <1>3, <1>12, <3>2, <3>8
            <4>2. Heading(y, sent')
                BY <1>5, <1>14, <2>1, <3>6, <4>1 DEF Heading
            <4> QED
                BY <1>9, <3>8, <4>2
        <3> QED
            BY <3>7, <3>8
    <2> QED
        BY <2>1, <2>2, <2>3
<1> QED
    BY <1>13, <1>14

LEMMA GenuineNext == Inv /\ JobInv /\ [Next]_vars => JobInv'
<1> SUFFICES ASSUME Inv, JobInv, [Next]_vars PROVE JobInv'
    OBVIOUS
<1>1. CASE Answer
    BY <1>1, JobIsNext DEF Answer, JobOK
<1>2. CASE UNCHANGED vars
    BY <1>2, JobIs, JobIsNext DEF vars, detectors
<1> QED
    BY <1>1, <1>2, SniffedGenuine, AskGenuine, PutGenuine DEF Next

\* When an attack has been put, its source has been reported for that attack,
\* whatever the sniffer put in between, unless the request took longer than
\* the window or the random ports of a scan were too few different ones.
\* The floods of fixed size need thresholds no greater (SourcesAssumption).
THEOREM AttacksAreReported == Spec => []GenuineTriggering
<1>1. Init => JobInv
    BY JobIs DEF Init, JobOK
<1>2. Inv /\ JobInv /\ [Next]_vars => JobInv'
    BY GenuineNext
<1>3. JobInv => GenuineTriggering
    BY DEF JobInv, JobOK, Triggered, ReportedIn, GenuineTriggering, Quick, Reported
<1> QED
    BY <1>1, <1>2, <1>3, Invariance, PTL DEF Spec
===============================================================================
