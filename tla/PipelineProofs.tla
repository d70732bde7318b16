---------------------------- MODULE PipelineProofs ----------------------------
(***************************************************************************)
(* The invariants of Pipeline, for any number of clients, requests,        *)
(* detectors and packets.                                                  *)
(***************************************************************************)
EXTENDS Pipeline, FiniteSetTheorems, SequenceTheorems, TLAPS

(***************************************************************************)
(* The hub.                                                                *)
(***************************************************************************)
\* No walk has a socket ahead that never connected, or counts one as dead that
\* is connected.
WalksOK ==
    \A s \in Senders : Busy(s) =>
        /\ \A c \in sending[s].left : socket[c] # "new"
        /\ \A c \in sending[s].dead : socket[c] \in {"closed", "gone"}

HubInv == HubTypeOK /\ WalksOK /\ RegisteredIsServed

\* A step of the hub that starts no broadcast.
HubMoves ==
    \/ \E c \in Sockets : Register(c) \/ Refuse(c) \/ PeerLeaves(c) \/ Disconnect(c)
    \/ \E s \in Senders : Send(s) \/ Returns(s) \/ Raises(s)

\* What was shown, and what broadcasts under way will show, is in S.
ShowsOnly(S) ==
    /\ shown \subseteq S
    /\ \A s \in Senders : Busy(s) => Live(sending[s].msg) \subseteq S

LEMMA LeftFields ==
    ASSUME NEW b \in Broadcasts, NEW left \in SUBSET Sockets
    PROVE  /\ [b EXCEPT !.left = left] \in Broadcasts
           /\ [b EXCEPT !.left = left].left = left
           /\ [b EXCEPT !.left = left].dead = b.dead
           /\ [b EXCEPT !.left = left].msg = b.msg
BY DEF Broadcasts

LEMMA SendingType ==
    ASSUME HubTypeOK, NEW s \in Senders, Busy(s)
    PROVE  /\ sending[s] \in Broadcasts
           /\ sending[s].left \in SUBSET Sockets /\ sending[s].dead \in SUBSET Sockets
           /\ sending[s].msg \in Messages
BY DEF HubTypeOK, Busy, Broadcasts, Messages

LEMMA LiveType ==
    ASSUME NEW m \in Messages
    PROVE  Live(m) \subseteq Nat
BY DEF Live, Messages

\* The walks under way lose or gain what is ahead of them, nothing else.
LEMMA AheadKeeps ==
    ASSUME HubInv, NEW W \in SUBSET Walking, NEW ahead \in [W -> SUBSET Sockets],
           sending' = [s \in Senders |->
               IF s \in W THEN [sending[s] EXCEPT !.left = ahead[s]] ELSE sending[s]]
    PROVE  /\ sending' \in [Senders -> Broadcasts \cup {None}]
           /\ \A s \in Senders : sending'[s] # None =>
                /\ Busy(s)
                /\ sending'[s].left = IF s \in W THEN ahead[s] ELSE sending[s].left
                /\ sending'[s].dead = sending[s].dead
                /\ sending'[s].msg = sending[s].msg
<1>1. ASSUME NEW s \in Senders, s \in W
      PROVE  /\ sending'[s] \in Broadcasts /\ Busy(s)
             /\ sending'[s].left = ahead[s]
             /\ sending'[s].dead = sending[s].dead
             /\ sending'[s].msg = sending[s].msg
    <2>1. Busy(s)
        BY <1>1 DEF Walking
    <2>2. ahead[s] \in SUBSET Sockets
        BY <1>1
    <2>3. sending'[s] = [sending[s] EXCEPT !.left = ahead[s]]
        BY <1>1
    <2> QED
        BY <2>1, <2>2, <2>3, SendingType, LeftFields DEF HubInv
<1>2. ASSUME NEW s \in Senders, s \notin W
      PROVE  sending'[s] = sending[s]
    BY <1>2
<1>3. sending \in [Senders -> Broadcasts \cup {None}]
    BY DEF HubInv, HubTypeOK
<1>4. \A s \in Senders : sending'[s] \in Broadcasts \cup {None}
    BY <1>1, <1>2, <1>3
<1>5. sending' \in [Senders -> Broadcasts \cup {None}]
    BY <1>4
<1>6. \A s \in Senders : sending'[s] # None =>
                /\ Busy(s)
                /\ sending'[s].left = IF s \in W THEN ahead[s] ELSE sending[s].left
                /\ sending'[s].dead = sending[s].dead
                /\ sending'[s].msg = sending[s].msg
    BY <1>1, <1>2 DEF Busy
<1> QED
    BY <1>5, <1>6

LEMMA RegisterKeeps ==
    ASSUME HubInv, NEW c \in Sockets, Register(c), NEW S
    PROVE  HubInv' /\ (ShowsOnly(S) => ShowsOnly(S)')
<1>1. connections' \subseteq Sockets
    BY DEF Register, HubInv, HubTypeOK
<1>2. PICK ahead \in [Walking -> SUBSET connections'] :
        sending' = [s \in Senders |->
            IF s \in Walking THEN [sending[s] EXCEPT !.left = ahead[s]] ELSE sending[s]]
    BY DEF Register
<1>3. ahead \in [Walking -> SUBSET Sockets]
    BY <1>1
<1>4. /\ sending' \in [Senders -> Broadcasts \cup {None}]
      /\ \A s \in Senders : sending'[s] # None =>
            /\ Busy(s)
            /\ sending'[s].left = IF s \in Walking THEN ahead[s] ELSE sending[s].left
            /\ sending'[s].dead = sending[s].dead
            /\ sending'[s].msg = sending[s].msg
    BY <1>2, <1>3, AheadKeeps
<1>5. HubTypeOK'
    BY <1>1, <1>4 DEF Register, HubInv, HubTypeOK
<1>6. RegisteredIsServed'
    BY DEF Register, HubInv, HubTypeOK, RegisteredIsServed
<1>7. WalksOK'
    <2> SUFFICES ASSUME NEW s \in Senders, sending'[s] # None
                 PROVE  /\ \A d \in sending'[s].left : socket'[d] # "new"
                        /\ \A d \in sending'[s].dead : socket'[d] \in {"closed", "gone"}
        BY DEF WalksOK, Busy
    <2>1. Busy(s) /\ sending[s].left \in SUBSET Sockets /\ sending[s].dead \in SUBSET Sockets
        BY <1>4, SendingType DEF HubInv
    <2>2. socket' = [socket EXCEPT ![c] = "open"] /\ socket[c] = "new"
        BY DEF Register
    <2>3. ASSUME NEW d \in sending'[s].dead
          PROVE  socket'[d] \in {"closed", "gone"}
        <3>1. d \in Sockets /\ socket[d] \in {"closed", "gone"}
            BY <1>4, <2>1 DEF HubInv, WalksOK
        <3> QED
            BY <2>2, <3>1 DEF HubInv, HubTypeOK
    <2>4. ASSUME NEW d \in sending'[s].left
          PROVE  socket'[d] # "new"
        <3>1. CASE s \in Walking
            <4>1. d \in connections'
                BY <1>4, <3>1
            <4> QED
                BY <4>1, <1>1, <1>6 DEF RegisteredIsServed
        <3>2. CASE s \notin Walking
            <4>1. d \in Sockets /\ socket[d] # "new"
                BY <1>4, <2>1, <3>2 DEF HubInv, WalksOK
            <4> QED
                BY <4>1, <2>2 DEF HubInv, HubTypeOK
        <3> QED
            BY <3>1, <3>2
    <2> QED
        BY <2>3, <2>4
<1> QED
    BY <1>4, <1>5, <1>6, <1>7 DEF HubInv, ShowsOnly, Register, Busy

LEMMA DiscardKeeps ==
    ASSUME HubInv, NEW gone \in SUBSET Sockets, Discard(gone)
    PROVE  /\ connections' \subseteq Sockets
           /\ sending' \in [Senders -> Broadcasts \cup {None}]
           /\ \A s \in Senders : sending'[s] # None =>
                /\ Busy(s)
                /\ sending'[s].left \subseteq sending[s].left
                /\ sending'[s].dead = sending[s].dead
                /\ sending'[s].msg = sending[s].msg
<1> DEFINE ahead == [s \in Walking |-> sending[s].left \ gone]
<1>1. connections' \subseteq Sockets
    BY DEF Discard, HubInv, HubTypeOK
<1>2. \A s \in Walking : s \in Senders /\ sending[s].left \ gone \in SUBSET Sockets
    BY SendingType DEF Walking, HubInv
<1>3. ahead \in [Walking -> SUBSET Sockets]
    BY <1>2
<1>4. sending' = [s \in Senders |->
          IF s \in Walking THEN [sending[s] EXCEPT !.left = ahead[s]] ELSE sending[s]]
    BY DEF Discard
<1>5. \A s \in Walking : ahead[s] \subseteq sending[s].left
    OBVIOUS
<1> HIDE DEF ahead
<1>6. /\ sending' \in [Senders -> Broadcasts \cup {None}]
      /\ \A s \in Senders : sending'[s] # None =>
            /\ Busy(s)
            /\ sending'[s].left = IF s \in Walking THEN ahead[s] ELSE sending[s].left
            /\ sending'[s].dead = sending[s].dead
            /\ sending'[s].msg = sending[s].msg
    BY <1>3, <1>4, AheadKeeps
<1> QED
    BY <1>1, <1>5, <1>6

\* Sockets leave, walks lose them: what was not new is not new, what was dead
\* is dead.
LEMMA FewerWalksOK ==
    ASSUME HubInv, NEW c \in Sockets,
           \/ socket' = [socket EXCEPT ![c] = "gone"]
           \/ socket[c] = "open" /\ socket' = [socket EXCEPT ![c] = "closed"],
           \A s \in Senders : sending'[s] # None =>
                /\ Busy(s)
                /\ sending'[s].left \subseteq sending[s].left
                /\ sending'[s].dead = sending[s].dead
    PROVE  WalksOK'
<1> SUFFICES ASSUME NEW s \in Senders, sending'[s] # None
             PROVE  /\ \A d \in sending'[s].left : socket'[d] # "new"
                    /\ \A d \in sending'[s].dead : socket'[d] \in {"closed", "gone"}
    BY DEF WalksOK, Busy
<1>1. Busy(s) /\ sending[s].left \in SUBSET Sockets /\ sending[s].dead \in SUBSET Sockets
    BY SendingType DEF HubInv
<1>2. /\ \A d \in sending'[s].left : d \in Sockets /\ socket[d] # "new"
      /\ \A d \in sending'[s].dead : d \in Sockets /\ socket[d] \in {"closed", "gone"}
    BY <1>1 DEF HubInv, WalksOK
<1> QED
    BY <1>2 DEF HubInv, HubTypeOK

LEMMA DisconnectKeeps ==
    ASSUME HubInv, NEW c \in Sockets, Disconnect(c), NEW S
    PROVE  HubInv' /\ (ShowsOnly(S) => ShowsOnly(S)')
<1>1. /\ connections' \subseteq Sockets
      /\ sending' \in [Senders -> Broadcasts \cup {None}]
      /\ \A s \in Senders : sending'[s] # None =>
            /\ Busy(s)
            /\ sending'[s].left \subseteq sending[s].left
            /\ sending'[s].dead = sending[s].dead
            /\ sending'[s].msg = sending[s].msg
    BY DiscardKeeps DEF Disconnect
<1>2. HubTypeOK'
    BY <1>1 DEF Disconnect, HubInv, HubTypeOK
<1>3. RegisteredIsServed'
    BY DEF Disconnect, Discard, HubInv, HubTypeOK, RegisteredIsServed
<1>4. WalksOK'
    BY <1>1, FewerWalksOK DEF Disconnect
<1> QED
    BY <1>1, <1>2, <1>3, <1>4 DEF HubInv, ShowsOnly, Disconnect, Busy

LEMMA RefuseLeavesKeep ==
    ASSUME HubInv, NEW c \in Sockets, Refuse(c) \/ PeerLeaves(c), NEW S
    PROVE  HubInv' /\ (ShowsOnly(S) => ShowsOnly(S)')
<1>1. UNCHANGED <<connections, sending, shown>>
    BY DEF Refuse, PeerLeaves
<1>2. HubTypeOK'
    BY <1>1 DEF Refuse, PeerLeaves, HubInv, HubTypeOK
<1>3. RegisteredIsServed'
    BY <1>1 DEF Refuse, PeerLeaves, HubInv, HubTypeOK, RegisteredIsServed
<1>4. WalksOK'
    BY <1>1, FewerWalksOK DEF Refuse, PeerLeaves, Busy
<1> QED
    BY <1>1, <1>2, <1>3, <1>4 DEF HubInv, ShowsOnly, Busy

\* One send, of a broadcast that may be a new one.
LEMMA SendToKeeps ==
    ASSUME HubInv, NEW s \in Senders, NEW b \in Broadcasts, NEW c \in Sockets,
           SendTo(s, b, c), UNCHANGED <<socket, connections>>,
           \A d \in b.left : socket[d] # "new", c \in b.left,
           \A d \in b.dead : socket[d] \in {"closed", "gone"}, NEW S, Live(b.msg) \subseteq S
    PROVE  HubInv' /\ (ShowsOnly(S) => ShowsOnly(S)')
<1>1. b.left \ {c} \in SUBSET Sockets /\ b.dead \in SUBSET Sockets
      /\ b.dead \cup {c} \in SUBSET Sockets /\ b.msg \in Messages
    BY DEF Broadcasts, Messages
<1>2. /\ sending'[s] \in Broadcasts /\ sending'[s].msg = b.msg
      /\ sending'[s].left \subseteq b.left
      /\ \A d \in sending'[s].dead : socket[d] \in {"closed", "gone"}
      /\ sending' = [sending EXCEPT ![s] = sending'[s]]
      /\ shown' \subseteq shown \cup Live(b.msg)
    <2>1. CASE /\ socket[c] = "open"
               /\ sending' = [sending EXCEPT ![s] = [b EXCEPT !.left = @ \ {c}]]
               /\ shown' = shown \cup Live(b.msg)
        <3>1. sending'[s] = [b EXCEPT !.left = b.left \ {c}]
            BY <2>1 DEF HubInv, HubTypeOK
        <3>2. sending'[s] \in Broadcasts /\ sending'[s].msg = b.msg
              /\ sending'[s].dead = b.dead /\ sending'[s].left = b.left \ {c}
            BY <3>1, <1>1, LeftFields
        <3>3. sending' = [sending EXCEPT ![s] = sending'[s]]
            BY <2>1, <3>1
        <3>4. \A d \in sending'[s].dead : socket[d] \in {"closed", "gone"}
            BY <3>2
        <3>5. shown' \subseteq shown \cup Live(b.msg)
            BY <2>1
        <3> QED
            BY <3>2, <3>3, <3>4, <3>5
    <2>2. CASE /\ socket[c] # "open"
               /\ \E dead \in {b.dead, b.dead \cup {c}} :
                    sending' = [sending EXCEPT ![s] =
                        [b EXCEPT !.left = @ \ {c}, !.dead = dead]]
               /\ UNCHANGED shown
        <3>1. PICK dead \in {b.dead, b.dead \cup {c}} :
                  sending' = [sending EXCEPT ![s] =
                        [b EXCEPT !.left = b.left \ {c}, !.dead = dead]]
            BY <2>2
        <3>2. dead \in SUBSET Sockets
            BY <1>1
        <3>3. sending'[s] = [b EXCEPT !.left = b.left \ {c}, !.dead = dead]
            BY <3>1 DEF HubInv, HubTypeOK
        <3>4. sending'[s] \in Broadcasts /\ sending'[s].msg = b.msg
              /\ sending'[s].dead = dead /\ sending'[s].left = b.left \ {c}
            <4>1. PICK left \in SUBSET Sockets : left = b.left \ {c}
                BY <1>1
            <4>2. sending'[s] = [b EXCEPT !.left = left, !.dead = dead]
                BY <3>3, <4>1
            <4> QED
                BY <4>1, <4>2, <3>2 DEF Broadcasts
        <3>5. socket[c] \in {"closed", "gone"}
            BY <2>2, <1>1 DEF HubInv, HubTypeOK
        <3>6. sending' = [sending EXCEPT ![s] = sending'[s]]
            BY <3>1, <3>3
        <3>7. \A d \in sending'[s].dead : socket[d] \in {"closed", "gone"}
            BY <3>4, <3>5
        <3>8. shown' \subseteq shown \cup Live(b.msg)
            BY <2>2
        <3> QED
            BY <3>4, <3>6, <3>7, <3>8
    <2> QED
        BY <2>1, <2>2 DEF SendTo
<1>3. HubTypeOK'
    BY <1>1, <1>2, LiveType DEF HubInv, HubTypeOK
<1>4. WalksOK'
    BY <1>2 DEF WalksOK, HubInv, HubTypeOK, Busy
<1>5. RegisteredIsServed'
    BY DEF HubInv, RegisteredIsServed
<1>6. ShowsOnly(S) => ShowsOnly(S)'
    BY <1>2 DEF ShowsOnly, Busy, HubInv, HubTypeOK
<1> QED
    BY <1>3, <1>4, <1>5, <1>6 DEF HubInv

LEMMA SendKeeps ==
    ASSUME HubInv, NEW s \in Senders, Send(s), NEW S
    PROVE  HubInv' /\ (ShowsOnly(S) => ShowsOnly(S)')
<1>1. PICK c \in sending[s].left : SendTo(s, sending[s], c)
    BY DEF Send
<1>2. Busy(s)
    BY DEF Send, Walking
<1>3. sending[s] \in Broadcasts /\ c \in Sockets /\ sending[s].msg \in Messages
    BY <1>2, SendingType DEF HubInv
<1>4. /\ \A d \in sending[s].left : socket[d] # "new"
      /\ \A d \in sending[s].dead : socket[d] \in {"closed", "gone"}
    BY <1>2 DEF HubInv, WalksOK
<1>5. UNCHANGED <<socket, connections>>
    BY DEF Send
<1>6. ASSUME NEW T, Live(sending[s].msg) \subseteq T
      PROVE  HubInv' /\ (ShowsOnly(T) => ShowsOnly(T)')
    BY <1>1, <1>3, <1>4, <1>5, <1>6, SendToKeeps
<1>7. HubInv'
    BY <1>6
<1>8. ASSUME ShowsOnly(S) PROVE ShowsOnly(S)'
    BY <1>2, <1>6, <1>8 DEF ShowsOnly
<1> QED
    BY <1>7, <1>8

LEMMA BeginKeeps ==
    ASSUME HubInv, NEW s \in Senders, NEW m \in Messages, Begin(s, m),
           NEW S, Live(m) \subseteq S
    PROVE  HubInv' /\ (ShowsOnly(S) => ShowsOnly(S)')
<1> DEFINE b == [left |-> connections, size |-> Cardinality(connections),
                 dead |-> {}, msg |-> m]
<1>1. connections \in SUBSET Sockets
    BY DEF HubInv, HubTypeOK
<1>2. Cardinality(connections) \in 0..Cardinality(Sockets)
    BY <1>1, HubAssumption, FS_Subset, FS_CardinalityType
<1>3. b \in Broadcasts
    BY <1>1, <1>2 DEF Broadcasts, Messages
<1>4. \A d \in b.left : socket[d] # "new"
    BY <1>1 DEF HubInv, RegisteredIsServed
<1>5. \A d \in b.dead : socket[d] \in {"closed", "gone"}
    OBVIOUS
<1>6. UNCHANGED <<socket, connections>>
    BY DEF Begin
<1>7. b.msg = m /\ b.left = connections
    OBVIOUS
<1>8. \/ connections = {} /\ sending' = [sending EXCEPT ![s] = b] /\ UNCHANGED shown
      \/ \E c \in connections : SendTo(s, b, c)
    BY DEF Begin
<1> HIDE DEF b
<1>9. CASE \E c \in connections : SendTo(s, b, c)
    <2>1. PICK c \in connections : SendTo(s, b, c)
        BY <1>9
    <2> QED
        BY <2>1, <1>1, <1>3, <1>4, <1>5, <1>6, <1>7, SendToKeeps
<1>10. CASE connections = {} /\ sending' = [sending EXCEPT ![s] = b] /\ UNCHANGED shown
    <2>1. HubTypeOK'
        BY <1>10, <1>3, <1>6 DEF HubInv, HubTypeOK
    <2>2. WalksOK'
        BY <1>10, <1>4, <1>5, <1>6 DEF WalksOK, HubInv, HubTypeOK, Busy
    <2>3. RegisteredIsServed'
        BY <1>6 DEF HubInv, RegisteredIsServed
    <2>4. ShowsOnly(S) => ShowsOnly(S)'
        BY <1>10, <1>7 DEF ShowsOnly, Busy, HubInv, HubTypeOK
    <2> QED
        BY <2>1, <2>2, <2>3, <2>4 DEF HubInv
<1> QED
    BY <1>8, <1>9, <1>10

LEMMA ReturnsKeeps ==
    ASSUME HubInv, NEW s \in Senders, Returns(s), NEW S
    PROVE  HubInv' /\ (ShowsOnly(S) => ShowsOnly(S)')
<1>1. sending[s].dead \in SUBSET Sockets
    BY SendingType DEF Returns, HubInv
<1>2. \A c \in sending[s].dead : socket[c] \in {"closed", "gone"}
    BY DEF HubInv, WalksOK, Returns
<1>3. connections' = connections \ sending[s].dead /\ UNCHANGED <<socket, shown>>
    BY DEF Returns
<1>4. ASSUME NEW t \in Senders
      PROVE  /\ sending'[t] \in Broadcasts \cup {None}
             /\ sending'[t] # None =>
                  /\ Busy(t)
                  /\ sending'[t].left \subseteq sending[t].left
                  /\ sending'[t].dead = sending[t].dead
                  /\ sending'[t].msg = sending[t].msg
    <2>1. sending'[t] = IF t = s THEN None
              ELSE IF t \in Walking THEN [sending[t] EXCEPT !.left = @ \ sending[s].dead]
              ELSE sending[t]
        BY DEF Returns
    <2>2. CASE t # s /\ t \in Walking
        <3>1. Busy(t)
            BY <2>2 DEF Walking
        <3>2. sending[t] \in Broadcasts /\ sending[t].left \in SUBSET Sockets
            BY <3>1, SendingType DEF HubInv
        <3>3. PICK left \in SUBSET Sockets : left = sending[t].left \ sending[s].dead
            BY <3>2
        <3>4. sending'[t] = [sending[t] EXCEPT !.left = left]
            BY <2>1, <2>2, <3>3
        <3> QED
            BY <3>1, <3>2, <3>3, <3>4, LeftFields
    <2>3. CASE t = s \/ t \notin Walking
        BY <2>1, <2>3 DEF HubInv, HubTypeOK, Busy
    <2> QED
        BY <2>2, <2>3
<1>5. sending' \in [Senders -> Broadcasts \cup {None}]
    <2>1. sending' = [t \in Senders |-> sending'[t]]
        BY DEF Returns
    <2> QED
        BY <2>1, <1>4
<1>6. HubTypeOK'
    BY <1>3, <1>5 DEF HubInv, HubTypeOK
<1>7. WalksOK'
    BY <1>3, <1>4 DEF HubInv, WalksOK, Busy
<1>8. RegisteredIsServed'
    BY <1>2, <1>3 DEF HubInv, RegisteredIsServed
<1>9. ShowsOnly(S) => ShowsOnly(S)'
    BY <1>3, <1>4 DEF ShowsOnly, Busy
<1> QED
    BY <1>6, <1>7, <1>8, <1>9 DEF HubInv

LEMMA RaisesKeeps ==
    ASSUME HubInv, NEW s \in Senders, Raises(s), NEW S
    PROVE  HubInv' /\ (ShowsOnly(S) => ShowsOnly(S)')
<1>1. sending' = [sending EXCEPT ![s] = None] /\ UNCHANGED <<socket, connections, shown>>
    BY DEF Raises
<1>2. HubTypeOK'
    BY <1>1 DEF HubInv, HubTypeOK
<1>3. WalksOK'
    BY <1>1 DEF HubInv, HubTypeOK, WalksOK, Busy
<1>4. RegisteredIsServed'
    BY <1>1 DEF HubInv, RegisteredIsServed
<1>5. ShowsOnly(S) => ShowsOnly(S)'
    BY <1>1 DEF ShowsOnly, Busy, HubInv, HubTypeOK
<1> QED
    BY <1>2, <1>3, <1>4, <1>5 DEF HubInv

LEMMA HubKeeps ==
    ASSUME HubInv, HubMoves, NEW S
    PROVE  HubInv' /\ (ShowsOnly(S) => ShowsOnly(S)')
BY RegisterKeeps, DisconnectKeeps, RefuseLeavesKeep, SendKeeps, ReturnsKeeps,
   RaisesKeeps DEF HubMoves

(***************************************************************************)
(* The task.                                                               *)
(***************************************************************************)
Taken    == arrived - Len(queue)
Asked(n) == {Detectors[i] : i \in 1..n}

\* The alerts that ever were in the database: deletions move them, no more.
Logged == alerts \cup deleted

Flagged(p) == p.alert # 0 => \E al \in Logged : al.id = p.alert /\ al.pkt = p.no

\* The packets that may be among the recent ones.
Through == {p \in Packets : /\ Flagged(p)
                            /\ p.seen = Range(Detectors)
                            /\ ~clearing => p.no \notin forgotten}

\* The queue holds the packets that arrived last, in order and as they came.
QueueOK ==
    /\ arrived \in 0..MaxPackets /\ queue \in Seq(Packets) /\ Len(queue) <= arrived
    /\ \A i \in 1..Len(queue) :
        queue[i].no = Taken + i /\ queue[i].alert = 0 /\ queue[i].seen = {}

\* The packet in hand is the last one taken; the alert in hand is about it, and
\* while a block is announced it is in the database or was deleted from it.
HandOK ==
    /\ task.pkt = None <=> task.pc = "get"
    /\ task.pkt # None => /\ task.pkt.no = Taken
                          /\ Flagged(task.pkt)
                          /\ task.pkt.seen = Asked(task.asked)
    /\ task.pc \in {"announce", "decide", "enforce", "announce_block"} =>
        task.alert # None /\ task.alert.pkt = task.pkt.no
    /\ task.pc \in {"enforce", "announce_block"} => task.alert \in Logged

Done(pc) == pc \in {"get", "traffic", "ended"}

RecentOK ==
    /\ buffer \in Seq(Through) /\ Len(buffer) <= BufferSize
    /\ recorded = 1..(IF Done(task.pc) THEN Taken ELSE Taken - 1)

\* A reset forgets what was recorded before it, and nothing else.
StoreOK ==
    /\ Logged \subseteq Alert /\ doomed \subseteq Nat
    /\ clearing \in BOOLEAN /\ forgotten \subseteq recorded

FeedInv ==
    /\ HubInv /\ ShowsOnly(recorded)
    /\ QueueOK /\ task \in Tasks /\ StoreOK
    /\ HandOK /\ RecentOK

LEMMA HandType ==
    ASSUME task \in Tasks, HandOK, task.pc # "get"
    PROVE  /\ task.pkt \in Packets /\ task.pkt # None
           /\ task.asked \in 0..Len(Detectors)
           /\ task.alert \in Alert \cup {None}
BY DEF Tasks, HandOK

LEMMA AskedNext ==
    ASSUME NEW n \in Nat
    PROVE  Asked(n + 1) = Asked(n) \cup {Detectors[n + 1]}
BY DEF Asked

LEMMA AskedAll == Asked(Len(Detectors)) = Range(Detectors)
BY PipelineAssumption DEF Asked, Range

LEMMA OfferedFields ==
    ASSUME NEW t \in Tasks, t.pkt \in Packets, t.asked < Len(Detectors)
    PROVE  /\ Offered(t) \in Tasks
           /\ Offered(t).pc = t.pc /\ Offered(t).alert = t.alert
           /\ Offered(t).asked = t.asked + 1
           /\ Offered(t).pkt \in Packets
           /\ Offered(t).pkt.no = t.pkt.no
           /\ Offered(t).pkt.alert = t.pkt.alert
           /\ Offered(t).pkt.seen = t.pkt.seen \cup {Detectors[t.asked + 1]}
<1>1. Len(Detectors) \in Nat /\ t.asked \in 0..Len(Detectors)
    BY PipelineAssumption, LenProperties DEF Tasks
<1>2. Detectors[t.asked + 1] \in Range(Detectors)
    BY <1>1, PipelineAssumption DEF Range
<1> DEFINE p == [t.pkt EXCEPT !.seen = t.pkt.seen \cup {Detectors[t.asked + 1]}]
<1>3. /\ p \in Packets /\ p.no = t.pkt.no /\ p.alert = t.pkt.alert
      /\ p.seen = t.pkt.seen \cup {Detectors[t.asked + 1]}
    BY <1>2 DEF Packets
<1>4. Offered(t) = [pc |-> t.pc, pkt |-> p, asked |-> t.asked + 1, alert |-> t.alert]
    <2>1. t = [pc |-> t.pc, pkt |-> t.pkt, asked |-> t.asked, alert |-> t.alert]
        BY DEF Tasks
    <2>2. Offered(t) = [t EXCEPT !.asked = t.asked + 1, !.pkt = p]
        BY <2>1 DEF Offered
    <2> HIDE DEF p
    <2> QED
        BY <2>1, <2>2
<1> HIDE DEF p
<1>5. t.pc \in {"get", "analyse", "announce", "decide", "enforce",
                "announce_block", "traffic", "ended"}
      /\ t.alert \in Alert \cup {None} /\ t.asked + 1 \in 0..Len(Detectors)
    BY <1>1 DEF Tasks
<1> QED
    BY <1>3, <1>4, <1>5 DEF Tasks

LEMMA EnrichedFields ==
    ASSUME NEW t \in Tasks, t.pkt \in Packets, NEW id \in Nat
    PROVE  /\ Enriched(t, id) \in Tasks
           /\ Enriched(t, id).pc = "analyse"
           /\ Enriched(t, id).asked = t.asked
           /\ Enriched(t, id).pkt \in Packets
           /\ Enriched(t, id).pkt.no = t.pkt.no
           /\ Enriched(t, id).pkt.alert = id
           /\ Enriched(t, id).pkt.seen = t.pkt.seen
<1> DEFINE level == IF t.alert.sev \in {"CRITICAL", "HIGH"} THEN "MALICIOUS"
                    ELSE IF t.pkt.level # "MALICIOUS" THEN "SUSPICIOUS" ELSE t.pkt.level
           p == [t.pkt EXCEPT !.alert = id, !.level = level]
<1>1. level \in Levels
    BY DEF Packets, Levels
<1> HIDE DEF level
<1>2. p \in Packets /\ p.no = t.pkt.no /\ p.alert = id /\ p.seen = t.pkt.seen
    BY <1>1 DEF Packets
<1> HIDE DEF p
<1>3. Enriched(t, id) = [pc |-> "analyse", pkt |-> p, asked |-> t.asked, alert |-> None]
    <2>1. t = [pc |-> t.pc, pkt |-> t.pkt, asked |-> t.asked, alert |-> t.alert]
        BY DEF Tasks
    <2>2. Enriched(t, id) = [t EXCEPT !.pc = "analyse", !.alert = None, !.pkt = p]
        BY <2>1 DEF Enriched, level, p
    <2> QED
        BY <2>1, <2>2
<1>4. t.asked \in 0..Len(Detectors)
    BY DEF Tasks
<1> QED
    BY <1>2, <1>3, <1>4 DEF Tasks

\* Only the hub and the task move, and the packet in hand is on the same side
\* of being recorded.
LEMMA TaskMoves ==
    ASSUME FeedInv, UNCHANGED <<Traffic, Stored, Recent>>,
           HubInv', ShowsOnly(recorded)', task' \in Tasks,
           HandOK', Done(task'.pc) <=> Done(task.pc)
    PROVE  FeedInv'
<1>1. QueueOK' /\ Taken' = Taken
    BY DEF FeedInv, Traffic, QueueOK, Taken
<1>2. Through' = Through /\ StoreOK'
    BY DEF Through, Flagged, Logged, StoreOK, FeedInv, Stored, Purges, Recent
<1>3. RecentOK'
    BY <1>1, <1>2 DEF FeedInv, RecentOK, Recent
<1> QED
    BY <1>1, <1>2, <1>3 DEF FeedInv

LEMMA HubStays ==
    ASSUME FeedInv, UNCHANGED hub
    PROVE  HubInv' /\ (ShowsOnly(recorded) => \A S : recorded \subseteq S => ShowsOnly(S)')
<1>1. HubInv'
    BY DEF FeedInv, hub, HubInv, HubTypeOK, WalksOK, RegisteredIsServed, Busy
<1>2. ASSUME ShowsOnly(recorded), NEW S, recorded \subseteq S
      PROVE  ShowsOnly(S)'
    BY <1>2 DEF ShowsOnly, hub, Busy
<1> QED
    BY <1>1, <1>2

LEMMA ArriveKeeps ==
    ASSUME FeedInv, Arrive
    PROVE  FeedInv'
<1>1. PICK level \in Claims :
        queue' = Append(queue, [no |-> arrived + 1, level |-> level, alert |-> 0,
                                seen |-> {}])
    BY DEF Arrive
<1> DEFINE p == [no |-> arrived + 1, level |-> level, alert |-> 0, seen |-> {}]
<1>2. /\ arrived \in Nat /\ arrived + 1 \in 1..MaxPackets /\ arrived' = arrived + 1
      /\ UNCHANGED <<hub, task, Stored, buffer, recorded>>
    BY PipelineAssumption DEF Arrive, FeedInv, QueueOK, Recent
<1>3. p \in Packets /\ p.no = arrived + 1 /\ p.alert = 0 /\ p.seen = {}
    BY <1>2, PipelineAssumption DEF Packets
<1> HIDE DEF p
<1>4. queue \in Seq(Packets) /\ Len(queue) \in Nat
    BY LenProperties DEF FeedInv, QueueOK
<1>5. /\ queue' \in Seq(Packets) /\ Len(queue') = Len(queue) + 1
      /\ \A i \in 1..Len(queue) : queue'[i] = queue[i]
      /\ queue'[Len(queue) + 1] = p
    <2>1. queue' = Append(queue, p)
        BY <1>1 DEF p
    <2> QED
        BY <2>1, <1>3, <1>4, AppendProperties
<1>6. Taken' = Taken
    BY <1>2, <1>4, <1>5 DEF Taken
<1>7. QueueOK'
    <2>1. arrived' \in 0..MaxPackets /\ Len(queue') <= arrived'
        BY <1>2, <1>4, <1>5, PipelineAssumption DEF FeedInv, QueueOK
    <2>2. ASSUME NEW i \in 1..Len(queue')
          PROVE  queue'[i].no = Taken + i /\ queue'[i].alert = 0 /\ queue'[i].seen = {}
        <3>1. CASE i \in 1..Len(queue)
            BY <3>1, <1>5 DEF FeedInv, QueueOK
        <3>2. CASE i = Len(queue) + 1
            BY <3>2, <1>2, <1>3, <1>4, <1>5 DEF Taken
        <3> QED
            BY <3>1, <3>2, <1>4, <1>5
    <2> QED
        BY <2>1, <2>2, <1>5, <1>6 DEF QueueOK
<1>8. HandOK' /\ RecentOK' /\ StoreOK'
    BY <1>2, <1>6 DEF FeedInv, HandOK, RecentOK, StoreOK, Through, Flagged, Logged,
                      Stored, Purges
<1>9. HubInv' /\ ShowsOnly(recorded)'
    BY <1>2, HubStays DEF FeedInv
<1> QED
    BY <1>2, <1>7, <1>8, <1>9 DEF FeedInv

LEMMA TakeKeeps ==
    ASSUME FeedInv, Take
    PROVE  FeedInv'
<1>1. /\ task' = [task EXCEPT !.pc = "analyse", !.pkt = Head(queue), !.asked = 0]
      /\ queue # <<>> /\ queue' = Tail(queue) /\ task.pc = "get"
      /\ UNCHANGED <<hub, arrived, Stored, buffer, recorded>>
    BY DEF Take, At, Recent
<1>2. /\ queue \in Seq(Packets) /\ Len(queue) \in Nat /\ Len(queue) # 0
      /\ arrived \in Nat /\ Len(queue) <= arrived
    BY <1>1, LenProperties, EmptySeq, PipelineAssumption DEF FeedInv, QueueOK
<1>3. /\ queue' \in Seq(Packets) /\ Len(queue') = Len(queue) - 1
      /\ \A i \in 1..Len(queue') : queue'[i] = queue[i + 1]
      /\ Head(queue) \in Packets /\ Head(queue) = queue[1]
    BY <1>1, <1>2, HeadTailProperties
<1>4. Taken' = Taken + 1 /\ Taken \in Nat
    BY <1>1, <1>2, <1>3 DEF Taken
<1>5. QueueOK'
    <2>1. ASSUME NEW i \in 1..Len(queue')
          PROVE  /\ queue'[i].no = Taken' + i
                 /\ queue'[i].alert = 0 /\ queue'[i].seen = {}
        <3>1. i + 1 \in 1..Len(queue)
            BY <1>2, <1>3
        <3>2. /\ queue[i + 1].no = Taken + (i + 1)
              /\ queue[i + 1].alert = 0 /\ queue[i + 1].seen = {}
            BY <3>1 DEF FeedInv, QueueOK
        <3>3. queue'[i] = queue[i + 1]
            BY <1>3
        <3> QED
            BY <3>2, <3>3, <1>4
    <2> QED
        BY <2>1, <1>1, <1>2, <1>3 DEF FeedInv, QueueOK
<1>6. /\ task'.pc = "analyse" /\ task'.pkt = Head(queue) /\ task'.asked = 0
      /\ task' \in Tasks
    <2>1. Len(Detectors) \in Nat
        BY PipelineAssumption, LenProperties
    <2>2. /\ task = [pc |-> task.pc, pkt |-> task.pkt, asked |-> task.asked,
                     alert |-> task.alert]
          /\ task.alert \in Alert \cup {None}
        BY DEF FeedInv, Tasks
    <2>3. task' = [pc |-> "analyse", pkt |-> Head(queue), asked |-> 0,
                   alert |-> task.alert]
        BY <1>1, <2>2
    <2> QED
        BY <1>3, <2>1, <2>2, <2>3 DEF Tasks
<1>7. HandOK'
    <2>1. 1 \in 1..Len(queue)
        BY <1>2
    <2>2. /\ Head(queue).no = Taken + 1
          /\ Head(queue).alert = 0 /\ Head(queue).seen = {}
        BY <2>1, <1>3 DEF FeedInv, QueueOK
    <2>3. Asked(0) = {}
        BY DEF Asked
    <2>4. Head(queue) # None
        BY <1>3, PipelineAssumption
    <2> QED
        BY <2>2, <2>3, <2>4, <1>4, <1>6 DEF HandOK, Flagged
<1>8. RecentOK'
    <2>1. recorded = 1..Taken
        BY <1>1 DEF FeedInv, RecentOK, Done
    <2>2. recorded' = 1..(Taken' - 1)
        BY <2>1, <1>1, <1>4
    <2>3. Through' = Through
        BY <1>1 DEF Through, Flagged, Logged, Stored, Purges
    <2> QED
        BY <2>2, <2>3, <1>1, <1>6 DEF FeedInv, RecentOK, Done
<1>9. HubInv' /\ ShowsOnly(recorded)' /\ StoreOK'
    BY <1>1, HubStays DEF FeedInv, StoreOK, Logged, Stored, Purges
<1> QED
    BY <1>1, <1>5, <1>6, <1>7, <1>8, <1>9 DEF FeedInv

\* A detector was asked and nothing came of it.
LEMMA OfferKeeps ==
    ASSUME FeedInv, Asking, task' = Offered(task),
           UNCHANGED <<hub, Traffic, Stored, Recent>>
    PROVE  FeedInv'
<1>1. task.pc = "analyse" /\ task.asked < Len(Detectors)
    BY DEF Asking, At
<1>2. task.pkt \in Packets /\ task.pkt # None /\ task.asked \in Nat
    BY <1>1, HandType, PipelineAssumption, LenProperties DEF FeedInv
<1>3. /\ task' \in Tasks /\ task'.pc = "analyse" /\ task'.asked = task.asked + 1
      /\ task'.pkt \in Packets /\ task'.pkt.no = task.pkt.no
      /\ task'.pkt.alert = task.pkt.alert
      /\ task'.pkt.seen = task.pkt.seen \cup {Detectors[task.asked + 1]}
    BY <1>1, <1>2, OfferedFields DEF FeedInv
<1>4. UNCHANGED <<arrived, queue, Logged, buffer, recorded>> /\ Taken' = Taken
    BY DEF Traffic, Recent, Taken, Logged, Stored, Purges
<1>5. HandOK'
    <2>1. task'.pkt # None
        BY <1>3, PipelineAssumption
    <2>2. task'.pkt.seen = Asked(task'.asked)
        BY <1>2, <1>3, AskedNext DEF FeedInv, HandOK
    <2>3. task.pkt.no = Taken /\ Flagged(task.pkt)
        BY <1>2 DEF FeedInv, HandOK
    <2>4. task'.pkt.no = Taken'
        BY <2>3, <1>3, <1>4
    <2>5. Flagged(task.pkt)'
        BY <2>3, <1>3, <1>4 DEF Flagged
    <2> QED
        BY <2>1, <2>2, <2>4, <2>5, <1>3 DEF HandOK
<1>6. HubInv' /\ ShowsOnly(recorded)'
    BY <1>4, HubStays DEF FeedInv
<1> QED
    BY <1>1, <1>3, <1>4, <1>5, <1>6, TaskMoves DEF Done, Traffic, Recent
Places == {"get", "analyse", "announce", "decide", "enforce", "announce_block",
           "traffic", "ended"}

LEMMA MovedFields ==
    ASSUME NEW t \in Tasks, NEW pc \in Places
    PROVE  /\ [t EXCEPT !.pc = pc] \in Tasks
           /\ [t EXCEPT !.pc = pc].pc = pc /\ [t EXCEPT !.pc = pc].pkt = t.pkt
           /\ [t EXCEPT !.pc = pc].asked = t.asked
           /\ [t EXCEPT !.pc = pc].alert = t.alert
BY DEF Tasks, Places

LEMMA GiveUpFields ==
    ASSUME NEW t \in Tasks
    PROVE  /\ GiveUp(t) \in Tasks
           /\ GiveUp(t).pc = "analyse" /\ GiveUp(t).pkt = t.pkt
           /\ GiveUp(t).asked = t.asked
<1>1. t = [pc |-> t.pc, pkt |-> t.pkt, asked |-> t.asked, alert |-> t.alert]
    BY DEF Tasks
<1>2. GiveUp(t) = [pc |-> "analyse", pkt |-> t.pkt, asked |-> t.asked, alert |-> None]
    <2>1. GiveUp(t) = [t EXCEPT !.pc = "analyse", !.alert = None]
        BY DEF GiveUp
    <2> QED
        BY <1>1, <2>1
<1>3. t.pkt \in Packets \cup {None} /\ t.asked \in 0..Len(Detectors)
    BY DEF Tasks
<1> QED
    BY <1>2, <1>3 DEF Tasks

\* The task moves on with the packet it has in hand; alerts may be added.
LEMMA SamePacket ==
    ASSUME FeedInv, task.pc # "get", UNCHANGED Traffic,
           task'.pkt = task.pkt, task'.asked = task.asked, task'.pc # "get",
           Flagged(task.pkt)',
           task'.pc \in {"announce", "decide", "enforce", "announce_block"} =>
               task'.alert # None /\ task'.alert.pkt = task.pkt.no,
           task'.pc \in {"enforce", "announce_block"} => task'.alert \in Logged'
    PROVE  HandOK'
<1>1. task.pkt # None /\ task.pkt.no = Taken /\ task.pkt.seen = Asked(task.asked)
    BY DEF FeedInv, HandOK
<1>2. Taken' = Taken
    BY DEF Taken, Traffic
<1> QED
    BY <1>1, <1>2 DEF HandOK

LEMMA LoggedStays ==
    ASSUME UNCHANGED <<Traffic, Stored, Recent>>
    PROVE  UNCHANGED Logged
BY DEF Logged, Stored, Purges

\* What may be recorded only grows while it is recorded as it is.
LEMMA ShowsMore ==
    ASSUME NEW S, NEW T, S \subseteq T, ShowsOnly(S)
    PROVE  ShowsOnly(T)
BY DEF ShowsOnly

\* The pipeline's own broadcast goes out, ends or fails: recorded stays.
LEMMA HubOfTask ==
    ASSUME FeedInv, UNCHANGED recorded,
           \/ Returns("pipeline") \/ Raises("pipeline")
           \/ \E m \in Messages : m.type # "traffic" /\ Begin("pipeline", m)
    PROVE  HubInv' /\ ShowsOnly(recorded)'
<1>1. "pipeline" \in Senders
    BY PipelineAssumption
<1>2. PICK R : R = recorded
    OBVIOUS
<1>3. HubInv /\ ShowsOnly(R)
    BY <1>2 DEF FeedInv
<1>4. HubInv' /\ ShowsOnly(R)'
    <2>1. CASE Returns("pipeline")
        BY <2>1, <1>1, <1>3, ReturnsKeeps
    <2>2. CASE Raises("pipeline")
        BY <2>2, <1>1, <1>3, RaisesKeeps
    <2>3. CASE \E m \in Messages : m.type # "traffic" /\ Begin("pipeline", m)
        <3>1. PICK m \in Messages : m.type # "traffic" /\ Begin("pipeline", m)
            BY <2>3
        <3>2. Live(m) \subseteq R
            BY <3>1 DEF Live
        <3> QED
            BY <3>1, <3>2, <1>1, <1>3, BeginKeeps
    <2> QED
        BY <2>1, <2>2, <2>3
<1> QED
    BY <1>2, <1>4 DEF ShowsOnly

LEMMA Announces ==
    ASSUME FeedInv, UNCHANGED recorded, NEW n \in Nat,
           \/ Begin("pipeline", [type |-> "new_alert", pkt |-> n])
           \/ Begin("pipeline", [type |-> "ip_blocked", pkt |-> n])
    PROVE  HubInv' /\ ShowsOnly(recorded)'
<1>1. PICK m \in Messages : m.type # "traffic" /\ Begin("pipeline", m)
    <2>1. /\ [type |-> "new_alert", pkt |-> n] \in Messages
          /\ [type |-> "ip_blocked", pkt |-> n] \in Messages
        BY DEF Messages
    <2> QED
        BY <2>1
<1> QED
    BY <1>1, HubOfTask

LEMMA DetectorAlertsKeeps ==
    ASSUME FeedInv, DetectorAlerts
    PROVE  FeedInv'
<1>1. task.pc = "analyse" /\ task.asked < Len(Detectors)
    BY DEF DetectorAlerts, Asking, At
<1>2. task.pkt \in Packets /\ task.pkt # None /\ task.asked \in Nat
    BY <1>1, HandType, PipelineAssumption, LenProperties DEF FeedInv
<1>3. /\ Offered(task) \in Tasks /\ Offered(task).asked = task.asked + 1
      /\ Offered(task).pkt \in Packets /\ Offered(task).pkt.no = task.pkt.no
      /\ Offered(task).pkt.alert = task.pkt.alert
      /\ Offered(task).pkt.seen = task.pkt.seen \cup {Detectors[task.asked + 1]}
    BY <1>1, <1>2, OfferedFields DEF FeedInv
<1>4. /\ task.pkt.no \in 1..MaxPackets /\ Detectors[task.asked + 1] \in Range(Detectors)
      /\ Verdicts \subseteq Severities
    BY <1>1, <1>2, PipelineAssumption, LenProperties DEF Packets, Range
<1>5. PICK sev \in Verdicts, id \in NextIds :
        task' = [Offered(task) EXCEPT !.pc = "announce",
                     !.alert = [id |-> id, pkt |-> task.pkt.no,
                                by |-> Detectors[task.asked + 1], sev |-> sev]]
    BY DEF DetectorAlerts
<1> DEFINE a == [id |-> id, pkt |-> task.pkt.no, by |-> Detectors[task.asked + 1],
                 sev |-> sev]
           t == Offered(task)
<1>6. a \in Alert /\ a.pkt = task.pkt.no /\ a # None
    <2>1. id \in Nat \ {0}
        BY DEF NextIds, FeedInv, StoreOK, Logged, Alert
    <2>2. a \in Alert /\ a.pkt = task.pkt.no
        BY <2>1, <1>4 DEF Alert
    <2> QED
        BY <2>2, PipelineAssumption
<1>7. task' = [t EXCEPT !.pc = "announce", !.alert = a]
    BY <1>5
<1>8. t = [pc |-> t.pc, pkt |-> t.pkt, asked |-> t.asked, alert |-> t.alert]
      /\ t.asked \in 0..Len(Detectors)
    BY <1>3 DEF Tasks
<1> HIDE DEF a, t
<1>9. task' = [pc |-> "announce", pkt |-> t.pkt, asked |-> t.asked, alert |-> a]
    BY <1>7, <1>8
<1>10. task' \in Tasks
    BY <1>9, <1>8, <1>3, <1>6 DEF Tasks, t
<1>11. /\ task'.pc = "announce" /\ task'.alert = a /\ task'.asked = task.asked + 1
       /\ task'.pkt \in Packets /\ task'.pkt.no = task.pkt.no
       /\ task'.pkt.alert = task.pkt.alert
       /\ task'.pkt.seen = task.pkt.seen \cup {Detectors[task.asked + 1]}
    BY <1>9, <1>3 DEF t
<1>12. UNCHANGED <<Traffic, Stored, Recent>> /\ UNCHANGED recorded
    BY DEF DetectorAlerts, Recent
<1>13. HandOK'
    <2>1. task'.pkt # None /\ Taken' = Taken /\ UNCHANGED Logged
        BY <1>11, <1>12, PipelineAssumption DEF Taken, Traffic, Stored, Purges, Logged
    <2>2. task'.pkt.seen = Asked(task'.asked)
        BY <1>2, <1>11, AskedNext DEF FeedInv, HandOK
    <2>3. task.pkt.no = Taken /\ Flagged(task.pkt)
        BY <1>2 DEF FeedInv, HandOK
    <2>4. Flagged(task.pkt)'
        BY <2>1, <2>3, <1>11 DEF Flagged
    <2> QED
        BY <2>1, <2>2, <2>3, <2>4, <1>6, <1>11 DEF HandOK
<1>14. HubInv' /\ ShowsOnly(recorded)'
    <2>1. Begin("pipeline", [type |-> "new_alert", pkt |-> task.pkt.no])
        BY DEF DetectorAlerts
    <2>2. task.pkt.no \in Nat
        BY <1>4
    <2> QED
        BY <2>1, <2>2, <1>12, Announces
<1> QED
    BY <1>1, <1>10, <1>11, <1>12, <1>13, <1>14, TaskMoves DEF Done

LEMMA AnnouncedKeeps ==
    ASSUME FeedInv, AlertAnnounced
    PROVE  FeedInv'
<1>1. /\ task.pc = "announce" /\ Returns("pipeline") /\ task' = [task EXCEPT !.pc = "decide"]
      /\ UNCHANGED <<Traffic, Stored, Recent>> /\ UNCHANGED recorded
    BY DEF AlertAnnounced, At, GoTo, Recent
<1>2. task \in Tasks /\ "decide" \in Places
    BY DEF FeedInv, Places
<1>3. /\ task' \in Tasks /\ task'.pc = "decide" /\ task'.pkt = task.pkt
      /\ task'.asked = task.asked /\ task'.alert = task.alert
    BY <1>1, <1>2, MovedFields
<1>4. task.alert # None /\ task.alert.pkt = task.pkt.no /\ Flagged(task.pkt)
    BY <1>1, HandType DEF FeedInv, HandOK
<1>5. Flagged(task.pkt)'
    BY <1>1, <1>3, <1>4, LoggedStays DEF Flagged
<1>6. HandOK'
    BY <1>1, <1>3, <1>4, <1>5, SamePacket
<1>7. HubInv' /\ ShowsOnly(recorded)'
    BY <1>1, HubOfTask
<1> QED
    BY <1>1, <1>3, <1>6, <1>7, TaskMoves DEF Done

\* Nothing was committed, and the packet goes on without an alert.
LEMMA GiveUpKeeps ==
    ASSUME FeedInv, ~Done(task.pc), task' = GiveUp(task),
           UNCHANGED <<Traffic, Stored, Recent>>, HubInv', ShowsOnly(recorded)'
    PROVE  FeedInv'
<1>1. task \in Tasks /\ task.pc # "get"
    BY DEF FeedInv, Done
<1>2. /\ task' \in Tasks /\ task'.pc = "analyse" /\ task'.pkt = task.pkt
      /\ task'.asked = task.asked
    BY <1>1, GiveUpFields
<1>3. Flagged(task.pkt)
    BY <1>1, HandType DEF FeedInv, HandOK
<1>4. Flagged(task.pkt)'
    BY <1>2, <1>3, LoggedStays DEF Flagged
<1>5. HandOK'
    BY <1>1, <1>2, <1>4, SamePacket
<1> QED
    BY <1>2, <1>5, TaskMoves DEF Done

LEMMA AlertFailsKeeps ==
    ASSUME FeedInv, AlertLost \/ DecisionFails \/ BlockNotAnnounced
    PROVE  FeedInv'
<1>1. /\ ~Done(task.pc) /\ task' = GiveUp(task) /\ UNCHANGED <<Traffic, Stored, Recent>>
      /\ UNCHANGED recorded
    BY DEF AlertLost, DecisionFails, BlockNotAnnounced, At, Done, Recent
<1>2. HubInv' /\ ShowsOnly(recorded)'
    <2>1. CASE AlertLost \/ BlockNotAnnounced
        BY <2>1, <1>1, HubOfTask DEF AlertLost, BlockNotAnnounced
    <2>2. CASE DecisionFails
        BY <2>2, <1>1, HubStays DEF DecisionFails, FeedInv
    <2> QED
        BY <2>1, <2>2
<1> QED
    BY <1>1, <1>2, GiveUpKeeps

LEMMA SeqOfMore ==
    ASSUME NEW S, NEW T, S \subseteq T, NEW s \in Seq(S)
    PROVE  s \in Seq(T)
BY SeqDef

\* Alerts are committed or deleted: what was flagged is flagged by the same.
LEMMA LoggedGrows ==
    ASSUME Logged \subseteq Logged'
    PROVE  \A p : Flagged(p) =>
               (p.alert # 0 => \E al \in Logged' : al.id = p.alert /\ al.pkt = p.no)
BY DEF Flagged

LEMMA DecideKeeps ==
    ASSUME FeedInv, KeepAlert \/ BlockSource
    PROVE  FeedInv'
<1>1. /\ task.pc = "decide" /\ alerts' = alerts \cup {task.alert}
      /\ UNCHANGED <<hub, arrived, queue, doomed, clearing, deleted, forgotten,
                     buffer, recorded>>
    BY DEF KeepAlert, BlockSource, At, Traffic, Recent, Purges
<1>2. /\ task.pkt \in Packets /\ task.alert \in Alert /\ task.alert.pkt = task.pkt.no
      /\ task.pkt # None /\ task.pkt.seen = Asked(task.asked) /\ Flagged(task.pkt)
      /\ task.alert # None /\ task \in Tasks
    BY <1>1, HandType DEF FeedInv, HandOK
<1>3. /\ StoreOK' /\ task.alert \in Logged' /\ Through \subseteq Through'
      /\ task.pkt.alert # 0 => \E al \in Logged' : /\ al.id = task.pkt.alert
                                                  /\ al.pkt = task.pkt.no
    <2>1. Logged' = Logged \cup {task.alert}
        BY <1>1 DEF Logged
    <2>2. StoreOK'
        BY <2>1, <1>1, <1>2 DEF FeedInv, StoreOK
    <2>3. Through \subseteq Through'
        BY <2>1, <1>1, LoggedGrows DEF Through, Flagged
    <2> QED
        BY <2>1, <2>2, <2>3, <1>2, LoggedGrows
<1>4. Taken' = Taken /\ QueueOK'
    BY <1>1 DEF Taken, QueueOK, FeedInv
<1>5. HubInv' /\ ShowsOnly(recorded)'
    BY <1>1, HubStays DEF FeedInv
<1>6. task' \in Tasks /\ HandOK' /\ ~Done(task'.pc)
    <2>1. CASE BlockSource
        <3>1. task' = [task EXCEPT !.pc = "enforce"] /\ "enforce" \in Places
            BY <2>1 DEF BlockSource, GoTo, Places
        <3>2. /\ task' \in Tasks /\ task'.pc = "enforce" /\ task'.pkt = task.pkt
              /\ task'.asked = task.asked /\ task'.alert = task.alert
            BY <3>1, <1>2, MovedFields
        <3>3. Flagged(task.pkt)'
            BY <3>2, <1>3 DEF Flagged
        <3> QED
            BY <3>2, <3>3, <1>1, <1>2, <1>3, SamePacket DEF Done, Traffic
    <2>2. CASE KeepAlert
        <3>1. PICK id \in Nat : id = task.alert.id /\ task' = Enriched(task, id)
            BY <2>2, <1>2 DEF KeepAlert, Alert
        <3>2. /\ task' \in Tasks /\ task'.pc = "analyse" /\ task'.asked = task.asked
              /\ task'.pkt \in Packets /\ task'.pkt.no = task.pkt.no
              /\ task'.pkt.alert = id /\ task'.pkt.seen = task.pkt.seen
            BY <3>1, <1>2, EnrichedFields
        <3>3. task'.pkt # None
            BY <3>2, PipelineAssumption
        <3>4. Flagged(task.pkt)'
            BY <3>1, <3>2, <1>2, <1>3 DEF Flagged
        <3>5. task.pkt.no = Taken
            BY <1>2 DEF FeedInv, HandOK
        <3> QED
            BY <3>2, <3>3, <3>4, <3>5, <1>2, <1>4 DEF HandOK, Done
    <2> QED
        BY <2>1, <2>2
<1>7. RecentOK'
    <2>1. buffer \in Seq(Through) /\ Len(buffer) <= BufferSize /\ recorded = 1..(Taken - 1)
        BY <1>1 DEF FeedInv, RecentOK, Done
    <2>2. PICK T : T = Through'
        OBVIOUS
    <2>3. buffer \in Seq(T)
        BY <2>1, <2>2, <1>3, SeqOfMore
    <2> QED
        BY <2>1, <2>2, <2>3, <1>1, <1>4, <1>6 DEF RecentOK
<1> QED
    BY <1>3, <1>4, <1>5, <1>6, <1>7 DEF FeedInv

LEMMA AnnounceBlockKeeps ==
    ASSUME FeedInv, AnnounceBlock
    PROVE  FeedInv'
<1>1. /\ task.pc = "enforce" /\ task' = [task EXCEPT !.pc = "announce_block"]
      /\ Begin("pipeline", [type |-> "ip_blocked", pkt |-> task.pkt.no])
      /\ UNCHANGED <<Traffic, Stored, Recent>> /\ UNCHANGED recorded
    BY DEF AnnounceBlock, At, GoTo, Recent
<1>2. task \in Tasks /\ "announce_block" \in Places
    BY DEF FeedInv, Places
<1>3. /\ task' \in Tasks /\ task'.pc = "announce_block" /\ task'.pkt = task.pkt
      /\ task'.asked = task.asked /\ task'.alert = task.alert
    BY <1>1, <1>2, MovedFields
<1>4. /\ task.alert # None /\ task.alert.pkt = task.pkt.no /\ task.alert \in Logged
      /\ Flagged(task.pkt) /\ task.pkt.no \in Nat
    BY <1>1, HandType, PipelineAssumption DEF FeedInv, HandOK, Packets
<1>5. Flagged(task.pkt)' /\ UNCHANGED Logged
    BY <1>1, <1>3, <1>4, LoggedStays DEF Flagged
<1>6. HandOK'
    BY <1>1, <1>3, <1>4, <1>5, SamePacket
<1>7. HubInv' /\ ShowsOnly(recorded)'
    BY <1>1, <1>4, Announces
<1> QED
    BY <1>1, <1>3, <1>6, <1>7, TaskMoves DEF Done

LEMMA BlockAnnouncedKeeps ==
    ASSUME FeedInv, BlockAnnounced
    PROVE  FeedInv'
<1>1. /\ task.pc = "announce_block" /\ Returns("pipeline")
      /\ task' = Enriched(task, task.alert.id)
      /\ UNCHANGED <<Traffic, Stored, Recent>> /\ UNCHANGED recorded
    BY DEF BlockAnnounced, At, Recent
<1>2. /\ task.pkt \in Packets /\ task.pkt.no = Taken
      /\ task.pkt.seen = Asked(task.asked) /\ task \in Tasks
      /\ task.alert \in Logged /\ task.alert \in Alert /\ task.alert.pkt = task.pkt.no
    BY <1>1, HandType DEF FeedInv, HandOK, StoreOK
<1>3. PICK id \in Nat : id = task.alert.id /\ task' = Enriched(task, id)
    BY <1>1, <1>2 DEF Alert
<1>4. /\ task' \in Tasks /\ task'.pc = "analyse" /\ task'.asked = task.asked
      /\ task'.pkt \in Packets /\ task'.pkt.no = task.pkt.no
      /\ task'.pkt.alert = id /\ task'.pkt.seen = task.pkt.seen
    BY <1>2, <1>3, EnrichedFields
<1>5. HandOK'
    <2>1. task'.pkt # None /\ Taken' = Taken
        BY <1>1, <1>4, PipelineAssumption DEF Taken, Traffic
    <2>2. Flagged(task.pkt)'
        BY <1>1, <1>2, <1>3, <1>4, LoggedStays DEF Flagged
    <2> QED
        BY <2>1, <2>2, <1>2, <1>4 DEF HandOK
<1>6. HubInv' /\ ShowsOnly(recorded)'
    BY <1>1, HubOfTask
<1> QED
    BY <1>1, <1>4, <1>5, <1>6, TaskMoves DEF Done

\* The deque never grows beyond its limit and keeps only what was put in.
LEMMA NewestType ==
    ASSUME NEW S, NEW s \in Seq(S), NEW p \in S, Len(s) <= BufferSize
    PROVE  /\ Newest(Append(s, p)) \in Seq(S)
           /\ Len(Newest(Append(s, p))) <= BufferSize
<1> DEFINE t == Append(s, p)
<1>1. t \in Seq(S) /\ Len(t) = Len(s) + 1 /\ Len(s) \in Nat
    BY AppendProperties, LenProperties
<1> HIDE DEF t
<1>2. Tail(t) \in Seq(S) /\ Len(Tail(t)) = Len(t) - 1
    <2>1. t # <<>>
        BY <1>1, EmptySeq
    <2> QED
        BY <1>1, <2>1, HeadTailProperties
<1>3. BufferSize \in Nat
    BY PipelineAssumption
<1>4. Newest(t) \in Seq(S) /\ Len(Newest(t)) <= BufferSize
    BY <1>1, <1>2, <1>3 DEF Newest
<1> QED
    BY <1>4 DEF t

LEMMA RecordKeeps ==
    ASSUME FeedInv, Record
    PROVE  FeedInv'
<1>1. /\ task.pc = "analyse" /\ task.asked = Len(Detectors)
      /\ task' = [task EXCEPT !.pc = "traffic"]
      /\ buffer' = Newest(Append(buffer, task.pkt))
      /\ recorded' = recorded \cup {task.pkt.no}
      /\ Begin("pipeline", [type |-> "traffic", pkt |-> task.pkt.no])
      /\ UNCHANGED <<arrived, queue, alerts, doomed, clearing, deleted, forgotten>>
    BY DEF Record, At, GoTo, Traffic, Stored, Purges
<1>2. task \in Tasks /\ "traffic" \in Places
    BY DEF FeedInv, Places
<1>3. /\ task' \in Tasks /\ task'.pc = "traffic" /\ task'.pkt = task.pkt
      /\ task'.asked = task.asked
    BY <1>1, <1>2, MovedFields
<1>4. /\ task.pkt \in Packets /\ task.pkt.no = Taken /\ Flagged(task.pkt)
      /\ task.pkt.seen = Asked(task.asked)
    BY <1>1, HandType DEF FeedInv, HandOK
<1>5. task.pkt.no \in 1..MaxPackets /\ task.pkt.no \in Nat /\ Taken \in Nat \ {0}
    BY <1>4, PipelineAssumption DEF Packets
<1>6. Taken' = Taken /\ QueueOK' /\ StoreOK' /\ Through' = Through
    BY <1>1 DEF Taken, QueueOK, StoreOK, FeedInv, Through, Flagged, Logged
<1>7. HandOK'
    <2>1. Flagged(task.pkt)'
        BY <1>1, <1>3, <1>4 DEF Flagged, Logged
    <2> QED
        BY <1>1, <1>3, <2>1, SamePacket DEF Traffic
<1>8. RecentOK'
    <2>1. recorded = 1..(Taken - 1)
        BY <1>1 DEF FeedInv, RecentOK, Done
    <2>2. task.pkt \in Through
        <3>1. task.pkt.no \notin forgotten
            BY <2>1, <1>4, <1>5 DEF FeedInv, StoreOK
        <3> QED
            BY <3>1, <1>1, <1>4, AskedAll DEF Through
    <2>3. buffer' \in Seq(Through) /\ Len(buffer') <= BufferSize
        BY <2>2, <1>1, NewestType DEF FeedInv, RecentOK
    <2>4. recorded' = 1..Taken
        BY <2>1, <1>1, <1>4, <1>5
    <2> QED
        BY <2>3, <2>4, <1>3, <1>6 DEF RecentOK, Done
<1>9. HubInv' /\ ShowsOnly(recorded)'
    <2>1. PICK R : R = recorded \cup {task.pkt.no}
        OBVIOUS
    <2>2. PICK m \in Messages : m = [type |-> "traffic", pkt |-> task.pkt.no]
        BY <1>5 DEF Messages
    <2>3. Live(m) \subseteq R
        BY <2>1, <2>2 DEF Live
    <2>4. HubInv /\ ShowsOnly(R)
        BY <2>1 DEF FeedInv, ShowsOnly
    <2>5. "pipeline" \in Senders
        BY PipelineAssumption
    <2>6. HubInv' /\ ShowsOnly(R)'
        BY <2>2, <2>3, <2>4, <2>5, <1>1, BeginKeeps
    <2> QED
        BY <2>1, <2>6, <1>1 DEF ShowsOnly
<1> QED
    BY <1>1, <1>3, <1>6, <1>7, <1>8, <1>9 DEF FeedInv

LEMMA TrafficKeeps ==
    ASSUME FeedInv, TrafficSent \/ TrafficRaises
    PROVE  FeedInv'
<1>1. /\ task.pc = "traffic" /\ UNCHANGED <<Traffic, Stored, Recent>>
      /\ UNCHANGED recorded /\ (Returns("pipeline") \/ Raises("pipeline"))
    BY DEF TrafficSent, TrafficRaises, At, Recent
<1>2. HubInv' /\ ShowsOnly(recorded)'
    BY <1>1, HubOfTask
<1>3. task \in Tasks /\ Len(Detectors) \in Nat /\ "ended" \in Places /\ Flagged(task.pkt)
    BY <1>1, HandType, PipelineAssumption, LenProperties DEF FeedInv, Places, HandOK
<1>4. task' \in Tasks /\ HandOK' /\ Done(task'.pc)
    <2>1. CASE TrafficSent
        <3>1. task' = [task EXCEPT !.pc = "get", !.pkt = None, !.asked = 0]
            BY <2>1 DEF TrafficSent
        <3>2. /\ task = [pc |-> task.pc, pkt |-> task.pkt, asked |-> task.asked,
                         alert |-> task.alert]
              /\ task.alert \in Alert \cup {None}
            BY <1>3 DEF Tasks
        <3>3. task' = [pc |-> "get", pkt |-> None, asked |-> 0, alert |-> task.alert]
            BY <3>1, <3>2
        <3>4. task' \in Tasks
            BY <3>2, <3>3, <1>3 DEF Tasks
        <3> QED
            BY <3>3, <3>4 DEF HandOK, Done
    <2>2. CASE TrafficRaises
        <3>1. task' = [task EXCEPT !.pc = "ended"]
            BY <2>2 DEF TrafficRaises, GoTo
        <3>2. /\ task' \in Tasks /\ task'.pc = "ended" /\ task'.pkt = task.pkt
              /\ task'.asked = task.asked
            BY <3>1, <1>3, MovedFields
        <3>3. Flagged(task.pkt)'
            BY <3>2, <1>1, <1>3, LoggedStays DEF Flagged
        <3> QED
            BY <3>2, <3>3, <1>1, SamePacket DEF Done
    <2> QED
        BY <2>1, <2>2
<1> QED
    BY <1>1, <1>2, <1>4, TaskMoves DEF Done

\* The rest of the program moves the hub only.
LEMMA RestKeeps ==
    ASSUME FeedInv, UNCHANGED Rest, HubInv', ShowsOnly(recorded)'
    PROVE  FeedInv'
<1>1. UNCHANGED <<arrived, queue, task, Stored, buffer, recorded>>
    BY DEF Rest, Traffic, Recent
<1>2. QueueOK' /\ Taken' = Taken
    BY <1>1 DEF FeedInv, QueueOK, Taken
<1>3. HandOK' /\ RecentOK' /\ StoreOK'
    BY <1>1, <1>2 DEF FeedInv, HandOK, RecentOK, StoreOK, Through, Flagged, Logged,
                      Stored, Purges
<1> QED
    BY <1>1, <1>2, <1>3 DEF FeedInv

LEMMA OthersKeep ==
    ASSUME FeedInv,
           \/ \E r \in Requests : RequestBroadcasts(r) \/ RequestEnds(r)
           \/ \E s \in Senders : Sends(s)
           \/ \E c \in Sockets : Joins(c) \/ Leaves(c) \/ Noticed(c)
    PROVE  FeedInv'
<1>1. UNCHANGED Rest /\ (HubMoves \/ \E r \in Requests : RequestBroadcasts(r))
    <2>1. Requests \subseteq Senders
        BY PipelineAssumption
    <2> QED
        BY <2>1 DEF RequestBroadcasts, RequestEnds, Sends, Joins, Leaves, Noticed, HubMoves
<1>2. PICK R : R = recorded
    OBVIOUS
<1>3. HubInv /\ ShowsOnly(R) /\ UNCHANGED recorded
    BY <1>1, <1>2 DEF FeedInv, Rest, Recent
<1>4. HubInv' /\ ShowsOnly(R)'
    <2>1. CASE HubMoves
        BY <2>1, <1>3, HubKeeps
    <2>2. CASE \E r \in Requests : RequestBroadcasts(r)
        <3>1. PICK r \in Requests : Begin(r, [type |-> "request", pkt |-> 0])
            BY <2>2 DEF RequestBroadcasts
        <3>2. PICK m \in Messages : m = [type |-> "request", pkt |-> 0]
            BY DEF Messages
        <3>3. Live(m) \subseteq R /\ r \in Senders
            BY <3>2, PipelineAssumption DEF Live
        <3> QED
            BY <3>1, <3>2, <3>3, <1>3, BeginKeeps
    <2> QED
        BY <2>1, <2>2, <1>1
<1>5. ShowsOnly(recorded)'
    BY <1>2, <1>3, <1>4 DEF ShowsOnly
<1> QED
    BY <1>1, <1>4, <1>5, RestKeeps

\* The alerts that are left and those that are gone are the same together; the
\* recent packets stay, or are emptied.
LEMMA DeletionKeeps ==
    ASSUME FeedInv, UNCHANGED <<hub, Traffic, task, recorded>>,
           Logged' = Logged, doomed' \subseteq Nat, clearing' \in BOOLEAN,
           \/ buffer' = <<>> /\ UNCHANGED forgotten
           \/ buffer' = buffer /\ clearing' /\ forgotten' = recorded
           \/ UNCHANGED <<buffer, clearing, forgotten>>
    PROVE  FeedInv'
<1>1. QueueOK' /\ Taken' = Taken /\ HandOK' /\ StoreOK' /\ task' \in Tasks
    BY DEF FeedInv, QueueOK, Taken, HandOK, StoreOK, Flagged, Traffic
<1>2. buffer' \in Seq(Through') /\ Len(buffer') <= BufferSize
    <2>1. CASE buffer' = <<>>
        BY <2>1, EmptySeq, PipelineAssumption
    <2>2. CASE /\ buffer' = buffer
               /\ clearing' \/ UNCHANGED <<clearing, forgotten>>
        <3>1. PICK T : T = Through'
            OBVIOUS
        <3>2. Through \subseteq T
            BY <2>2, <3>1 DEF Through, Flagged
        <3>3. buffer \in Seq(T) /\ Len(buffer) <= BufferSize
            BY <3>2, SeqOfMore DEF FeedInv, RecentOK
        <3> QED
            BY <2>2, <3>1, <3>3
    <2> QED
        BY <2>1, <2>2
<1>3. RecentOK'
    BY <1>1, <1>2 DEF FeedInv, RecentOK
<1>4. HubInv' /\ ShowsOnly(recorded)'
    BY HubStays DEF FeedInv
<1> QED
    BY <1>1, <1>3, <1>4 DEF FeedInv

LEMMA ResetKeeps ==
    ASSUME FeedInv, ResetPurges \/ ResetClears \/ ResetSession
    PROVE  FeedInv'
<1>1. clearing \in BOOLEAN /\ doomed \subseteq Nat
    BY DEF FeedInv, StoreOK
<1>2. CASE ResetPurges
    <2>1. /\ UNCHANGED <<hub, Traffic, task, recorded>> /\ UNCHANGED doomed
          /\ Logged' = Logged /\ clearing' = TRUE
          /\ buffer' = buffer /\ forgotten' = recorded
        BY <1>2 DEF ResetPurges, Delete, Logged
    <2> QED
        BY <2>1, <1>1, DeletionKeeps
<1>3. CASE ResetClears
    <2>1. /\ UNCHANGED <<hub, Traffic, task, recorded>> /\ UNCHANGED doomed
          /\ Logged' = Logged /\ clearing' = FALSE
          /\ buffer' = <<>> /\ UNCHANGED forgotten
        BY <1>3 DEF ResetClears, Logged
    <2> QED
        BY <2>1, <1>1, DeletionKeeps
<1>4. CASE ResetSession
    <2>1. /\ UNCHANGED <<hub, Traffic, task, recorded>> /\ UNCHANGED doomed
          /\ Logged' = Logged /\ clearing' = clearing
          /\ buffer' = <<>> /\ UNCHANGED forgotten
        BY <1>4 DEF ResetSession, Stored, Purges, Logged
    <2> QED
        BY <2>1, <1>1, DeletionKeeps
<1> QED
    BY <1>2, <1>3, <1>4

LEMMA PruneKeeps ==
    ASSUME FeedInv, SelectDoomed \/ PruneDoomed \/ PruneFails
    PROVE  FeedInv'
<1>1. clearing \in BOOLEAN
    BY DEF FeedInv, StoreOK
<1>2. /\ UNCHANGED <<hub, Traffic, task, recorded>>
      /\ UNCHANGED <<buffer, clearing, forgotten>>
    BY DEF SelectDoomed, PruneDoomed, PruneFails, Delete, Recent
<1>3. Logged' = Logged
    BY DEF SelectDoomed, PruneDoomed, PruneFails, Delete, Logged
<1>4. doomed' \subseteq Nat
    <2>1. CASE SelectDoomed
        <3>1. \A al \in alerts : al.id \in Nat
            BY DEF FeedInv, StoreOK, Logged, Alert
        <3>2. PICK n : doomed' = {al.id : al \in Oldest(n)}
            BY <2>1 DEF SelectDoomed
        <3> QED
            BY <3>1, <3>2 DEF Oldest
    <2>2. CASE PruneDoomed \/ PruneFails
        BY <2>2 DEF PruneDoomed, PruneFails
    <2> QED
        BY <2>1, <2>2
<1> QED
    BY <1>1, <1>2, <1>3, <1>4, DeletionKeeps

LEMMA FeedNext ==
    ASSUME FeedInv, [Next]_vars
    PROVE  FeedInv'
<1>1. CASE Arrive
    BY <1>1, ArriveKeeps
<1>2. CASE Take
    BY <1>2, TakeKeeps
<1>3. CASE DetectorQuiet \/ DetectorRaises \/ AlertNotFlushed
    BY <1>3, OfferKeeps DEF DetectorQuiet, DetectorRaises, AlertNotFlushed
<1>4. CASE DetectorAlerts
    BY <1>4, DetectorAlertsKeeps
<1>5. CASE AlertAnnounced
    BY <1>5, AnnouncedKeeps
<1>6. CASE AlertLost \/ DecisionFails \/ BlockNotAnnounced
    BY <1>6, AlertFailsKeeps
<1>7. CASE KeepAlert \/ BlockSource
    BY <1>7, DecideKeeps
<1>8. CASE AnnounceBlock
    BY <1>8, AnnounceBlockKeeps
<1>9. CASE BlockAnnounced
    BY <1>9, BlockAnnouncedKeeps
<1>10. CASE Record
    BY <1>10, RecordKeeps
<1>11. CASE TrafficSent \/ TrafficRaises
    BY <1>11, TrafficKeeps
<1>12. CASE Deletion
    BY <1>12, ResetKeeps, PruneKeeps DEF Deletion
<1>13. CASE \/ \E r \in Requests : RequestBroadcasts(r) \/ RequestEnds(r)
            \/ \E s \in Senders : Sends(s)
            \/ \E c \in Sockets : Joins(c) \/ Leaves(c) \/ Noticed(c)
    BY <1>13, OthersKeep
<1>14. CASE UNCHANGED vars
    <2>1. UNCHANGED hub /\ UNCHANGED Rest /\ UNCHANGED recorded
        BY <1>14 DEF vars, Rest, Traffic, Recent, Stored, Purges
    <2> QED
        BY <2>1, HubStays, RestKeeps DEF FeedInv
<1> QED
    BY <1>1, <1>2, <1>3, <1>4, <1>5, <1>6, <1>7, <1>8, <1>9, <1>10, <1>11, <1>12,
       <1>13, <1>14 DEF Next, PipelineStep

LEMMA FeedInit ==
    ASSUME Init
    PROVE  FeedInv
<1>1. \A s \in Senders : ~Busy(s)
    BY DEF Init, HubInit, Busy
<1>2. HubInv /\ ShowsOnly(recorded)
    BY <1>1 DEF Init, HubInit, HubInv, HubTypeOK, WalksOK, RegisteredIsServed, ShowsOnly
<1>3. task \in Tasks /\ HandOK
    <2>1. Len(Detectors) \in Nat
        BY PipelineAssumption, LenProperties
    <2> QED
        BY <2>1 DEF Init, Tasks, HandOK
<1>4. arrived = 0 /\ Len(queue) = 0 /\ queue \in Seq(Packets) /\ StoreOK
      /\ buffer \in Seq(Through) /\ Len(buffer) = 0 /\ recorded = {} /\ task.pc = "get"
    BY EmptySeq DEF Init, StoreOK, Logged
<1>5. QueueOK /\ RecentOK
    BY <1>4, PipelineAssumption DEF QueueOK, RecentOK, Taken, Done
<1> QED
    BY <1>2, <1>3, <1>4, <1>5 DEF FeedInv

\* The facts of FeedInv, which relate queue, hand, alerts, recent packets and
\* broadcasts under way, hold of detection_pipeline in every run.
THEOREM FeedInvariant == Spec => []FeedInv
<1>1. Init => FeedInv
    BY FeedInit
<1>2. FeedInv /\ [Next]_vars => FeedInv'
    BY FeedNext
<1> QED
    BY <1>1, <1>2, PTL DEF Spec

\* Every variable of the pipeline and of the hub keeps its type; the deque of
\* recent packets never exceeds its limit.
THEOREM TypeCorrect == Spec => []TypeOK
<1>1. FeedInv => TypeOK
    <2> SUFFICES ASSUME FeedInv PROVE TypeOK
        OBVIOUS
    <2>1. buffer \in Seq(Packets) /\ Len(buffer) <= BufferSize
        BY SeqOfMore DEF FeedInv, RecentOK, Through
    <2>2. Taken \in Nat /\ Taken <= MaxPackets
        BY LenProperties, PipelineAssumption DEF FeedInv, QueueOK, Taken
    <2>3. recorded \subseteq 1..MaxPackets
        BY <2>2, PipelineAssumption DEF FeedInv, RecentOK
    <2> QED
        BY <2>1, <2>3 DEF FeedInv, QueueOK, HubInv, StoreOK, Logged, TypeOK
<1> QED
    BY <1>1, FeedInvariant, PTL

\* What is among the recent packets went through.
LEMMA RecentWentThrough ==
    ASSUME FeedInv, NEW p \in Range(buffer)
    PROVE  p \in Through
BY LenProperties DEF FeedInv, RecentOK, Range

\* The alert_id of a packet, in hand or recent, is one under which an alert
\* about that packet was committed, although process_alert announces before it
\* commits, may roll back after it, and retention and resets delete alerts and
\* make SQLite give their ids out again.
THEOREM AlertIdsWereStored == Spec => []FlaggedWasStored
<1>1. FeedInv => FlaggedWasStored
    <2> SUFFICES ASSUME FeedInv, NEW p \in InHand \cup Range(buffer) PROVE Flagged(p)
        BY DEF FlaggedWasStored, Flagged, Logged
    <2>1. CASE p \in Range(buffer)
        BY <2>1, RecentWentThrough DEF Through
    <2>2. CASE p \in InHand
        BY <2>2 DEF InHand, FeedInv, HandOK
    <2> QED
        BY <2>1, <2>2
<1> QED
    BY <1>1, FeedInvariant, PTL

\* reset_system_data leaves no packet among the recent ones that was recorded
\* before it deleted the alerts, however many are recorded while it goes on.
THEOREM ResetLeavesNothing == Spec => []ResetForgets
<1>1. FeedInv => ResetForgets
    BY RecentWentThrough DEF ResetForgets, Through
<1> QED
    BY <1>1, FeedInvariant, PTL

\* No packet is recorded that a detector was not asked about, whatever raised
\* in detectors, database or broadcasts on its way.
THEOREM AllDetectorsAsked == Spec => []RecordedWasSeenByAll
<1>1. FeedInv => RecordedWasSeenByAll
    BY RecentWentThrough DEF RecordedWasSeenByAll, Through
<1> QED
    BY <1>1, FeedInvariant, PTL

\* A packet is shown live only once it is recorded: a page that connects and
\* then fetches the recent packets misses none in between.
THEOREM ShownAfterRecorded == Spec => []ShownIsRecorded
<1>1. FeedInv => ShownIsRecorded
    BY DEF FeedInv, ShowsOnly, ShownIsRecorded
<1> QED
    BY <1>1, FeedInvariant, PTL

\* No exception makes detection_pipeline lose a packet it took from the queue.
THEOREM NoPacketLost == Spec => []TakenAreRecorded
<1>1. FeedInv => TakenAreRecorded
    BY DEF FeedInv, RecentOK, Done, Taken, TakenAreRecorded
<1> QED
    BY <1>1, FeedInvariant, PTL

\* Broadcasts never drop a client that is connected, and one whose endpoint
\* has returned is no longer registered, for any number of clients and tasks.
THEOREM ClientsAreServed == Spec => []RegisteredIsServed
<1>1. FeedInv => RegisteredIsServed
    BY DEF FeedInv, HubInv
<1> QED
    BY <1>1, FeedInvariant, PTL
=============================================================================
