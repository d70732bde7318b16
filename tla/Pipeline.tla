------------------------------ MODULE Pipeline -------------------------------
(***************************************************************************)
(* The way of a packet from the queue to the dashboards: the task          *)
(* detection_pipeline takes it, offers it to every detector, hands alerts  *)
(* to the decision engine, records it among the recent packets and         *)
(* broadcasts it.  What the engine does to the firewall is in Enforcement; *)
(* here it matters what it announces, stores and returns, and which of its *)
(* exceptions end where.                                                   *)
(***************************************************************************)
EXTENDS WebSocketHub, Functions

CONSTANTS
    Requests,   \* HTTP requests that broadcast, under way at once
    Detectors,  \* the detectors, in the order they are asked
    MaxPackets, \* bound: packets that arrive
    Claims,     \* the levels packets arrive with
    Verdicts,   \* the severities of the detectors
    BufferSize, \* maxlen of the recent packets
    MaxAlerts,  \* DB_MAX_ALERTS_RETENTION
    DbFails     \* whether the database may raise

Levels     == {"NORMAL", "SUSPICIOUS", "MALICIOUS"}
Severities == {"low", "medium", "high"}

\* alert: the alert_id, 0 for none; seen: history of the detectors that were
\* given the packet.
Packets == [no : 1..MaxPackets, level : Levels, alert : Nat,
            seen : SUBSET Range(Detectors)]
Alert   == [id : Nat \ {0}, pkt : 1..MaxPackets, by : Range(Detectors), sev : Severities]

\* asked: how many detectors were asked; alert: what the last one returned.
Tasks == [pc : {"get", "analyse", "announce", "decide", "enforce",
                "announce_block", "traffic", "ended"},
          pkt : Packets \cup {None}, asked : 0..Len(Detectors),
          alert : Alert \cup {None}]

ASSUME PipelineAssumption ==
    /\ Senders = {"pipeline"} \cup Requests /\ "pipeline" \notin Requests
    /\ Detectors \in Seq(STRING)
    /\ MaxPackets \in Nat /\ BufferSize \in Nat \ {0} /\ MaxAlerts \in Nat
    /\ Claims \subseteq Levels /\ Verdicts \subseteq Severities
    /\ DbFails \in BOOLEAN
    /\ None \notin Packets \cup Alert

VARIABLES
    arrived,  \* how many packets were put into the queue
    queue,    \* packet_queue
    task,     \* detection_pipeline: its place and the packet in hand
    alerts,   \* the alerts that are committed
    doomed,   \* the ids the retention job has selected
    clearing, \* a reset has deleted the alerts and not yet the recent packets
    buffer,   \* the recent packets, newest last
    recorded, \* history: the packets that were ever recorded
    deleted,  \* history: the alerts that were committed and then deleted
    forgotten \* history: what was recorded when a reset last deleted the alerts

vars == <<hub, arrived, queue, task, alerts, doomed, clearing, buffer, recorded,
          deleted, forgotten>>

TypeOK ==
    /\ HubTypeOK
    /\ arrived \in 0..MaxPackets
    /\ queue \in Seq(Packets)
    /\ task \in Tasks
    /\ alerts \subseteq Alert /\ deleted \subseteq Alert
    /\ doomed \subseteq Nat /\ clearing \in BOOLEAN
    /\ buffer \in Seq(Packets) /\ Len(buffer) <= BufferSize
    /\ recorded \subseteq 1..MaxPackets /\ forgotten \subseteq 1..MaxPackets

Init ==
    /\ HubInit
    /\ arrived = 0 /\ queue = <<>>
    /\ task = [pc |-> "get", pkt |-> None, asked |-> 0, alert |-> None]
    /\ alerts = {} /\ doomed = {} /\ clearing = FALSE
    /\ buffer = <<>> /\ recorded = {} /\ deleted = {} /\ forgotten = {}

Traffic == <<arrived, queue>>
Recent  == <<buffer, recorded>>
Purges  == <<doomed, clearing, deleted, forgotten>>
Stored  == <<alerts, Purges>>

(***************************************************************************)
(* Sources of packets: the sniffer thread, which leaves the put to the     *)
(* event loop, and the generator, which claims a level for its packets.    *)
(* The queue has no limit: a put never waits.                              *)
(***************************************************************************)
Arrive ==
    /\ arrived < MaxPackets
    /\ arrived' = arrived + 1
    /\ \E level \in Claims :
        queue' = Append(queue, [no |-> arrived', level |-> level, alert |-> 0,
                                seen |-> {}])
    /\ UNCHANGED <<hub, task, Stored, Recent>>

(***************************************************************************)
(* detection_pipeline.                                                     *)
(***************************************************************************)
At(pc)   == task.pc = pc
GoTo(pc) == task' = [task EXCEPT !.pc = pc]

Take ==
    /\ At("get") /\ queue # <<>>
    /\ task' = [task EXCEPT !.pc = "analyse", !.pkt = Head(queue), !.asked = 0]
    /\ queue' = Tail(queue)
    /\ UNCHANGED <<hub, arrived, Stored, Recent>>

Asking == At("analyse") /\ task.asked < Len(Detectors)
Offered(t) == [t EXCEPT !.asked = @ + 1, !.pkt.seen = @ \cup {Detectors[t.asked + 1]}]

DetectorQuiet ==
    /\ Asking
    /\ task' = Offered(task)
    /\ UNCHANGED <<hub, Traffic, Stored, Recent>>

\* Mutant: one try around the loop over the detectors.
DetectorRaisesOut ==
    /\ Asking
    /\ task' = [task EXCEPT !.asked = Len(Detectors)]
    /\ UNCHANGED <<hub, Traffic, Stored, Recent>>

\* The exception is logged; the next detector is asked all the same.
DetectorRaises ==
    /\ Asking
    /\ task' = Offered(task)
    /\ UNCHANGED <<hub, Traffic, Stored, Recent>>

\* INTEGER PRIMARY KEY without AUTOINCREMENT: one more than the last.
NextIds == {id \in {1} \cup {al.id + 1 : al \in alerts} : \A al \in alerts : al.id < id}

\* A detector returns an alert: it is flushed to the open transaction, which
\* gives it its id, and broadcast before anything is committed.
DetectorAlerts ==
    /\ Asking
    /\ \E sev \in Verdicts, id \in NextIds :
        LET by == Detectors[task.asked + 1] IN
        task' = [Offered(task) EXCEPT !.pc = "announce",
                     !.alert = [id |-> id, pkt |-> task.pkt.no, by |-> by, sev |-> sev]]
    /\ Begin("pipeline", [type |-> "new_alert", pkt |-> task.pkt.no])
    /\ UNCHANGED <<Traffic, Stored, Recent>>

\* The flush raises: locked, or full.
AlertNotFlushed ==
    /\ Asking /\ DbFails
    /\ task' = Offered(task)
    /\ UNCHANGED <<hub, Traffic, Stored, Recent>>

\* process_alert raised: the session is rolled back, the packet goes on as if
\* there had been no alert.
GiveUp(t) == [t EXCEPT !.pc = "analyse", !.alert = None]

\* What the pipeline writes into the packet for an alert of that id.  The
\* engine's severities are lower case, the test is for upper case.
Enriched(t, id) ==
    [t EXCEPT !.pc = "analyse", !.alert = None, !.pkt.alert = id,
              !.pkt.level = IF t.alert.sev \in {"CRITICAL", "HIGH"} THEN "MALICIOUS"
                            ELSE IF @ # "MALICIOUS" THEN "SUSPICIOUS" ELSE @]

AlertAnnounced ==
    /\ At("announce") /\ Returns("pipeline")
    /\ GoTo("decide")
    /\ UNCHANGED <<Traffic, Stored, Recent>>

\* Mutant: the exception is not caught.
AlertLostFatal ==
    /\ At("announce") /\ Raises("pipeline")
    /\ task' = [task EXCEPT !.pc = "ended", !.alert = None]
    /\ UNCHANGED <<Traffic, Stored, Recent>>

\* Mutant: the packet is flagged with the id the flush gave.
AlertLostFlagged ==
    /\ At("announce") /\ Raises("pipeline")
    /\ task' = Enriched(task, task.alert.id)
    /\ UNCHANGED <<Traffic, Stored, Recent>>

AlertLost ==
    /\ At("announce") /\ Raises("pipeline")
    /\ task' = GiveUp(task)
    /\ UNCHANGED <<Traffic, Stored, Recent>>

\* Whitelisted, below the threshold or blocked already: the alert is
\* committed alone.
KeepAlert ==
    /\ At("decide")
    /\ alerts' = alerts \cup {task.alert}
    /\ task' = Enriched(task, task.alert.id)
    /\ UNCHANGED <<hub, Traffic, Purges, Recent>>

\* The alert is committed with a rule and a blocked address.
BlockSource ==
    /\ At("decide")
    /\ alerts' = alerts \cup {task.alert}
    /\ GoTo("enforce")
    /\ UNCHANGED <<hub, Traffic, Purges, Recent>>

DecisionFails ==
    /\ At("decide") /\ DbFails
    /\ task' = GiveUp(task)
    /\ UNCHANGED <<hub, Traffic, Stored, Recent>>

\* iptables has answered; the block is broadcast.
AnnounceBlock ==
    /\ At("enforce")
    /\ Begin("pipeline", [type |-> "ip_blocked", pkt |-> task.pkt.no])
    /\ GoTo("announce_block")
    /\ UNCHANGED <<Traffic, Stored, Recent>>

\* The alert was committed before iptables was called; it may be deleted again.
BlockAnnounced ==
    /\ At("announce_block") /\ Returns("pipeline")
    /\ task' = Enriched(task, task.alert.id)
    /\ UNCHANGED <<Traffic, Stored, Recent>>

\* Committed and enforced, but the packet never learns of it.
BlockNotAnnounced ==
    /\ At("announce_block") /\ Raises("pipeline")
    /\ task' = GiveUp(task)
    /\ UNCHANGED <<Traffic, Stored, Recent>>

\* Mutant: a list without a limit.
AllOf(s) == s

\* deque(maxlen): the oldest packet makes room.
Newest(s) == IF Len(s) > BufferSize THEN Tail(s) ELSE s

\* Mutant: the packet is broadcast before it is recorded.
RecordLate ==
    /\ At("analyse") /\ task.asked = Len(Detectors)
    /\ Begin("pipeline", [type |-> "traffic", pkt |-> task.pkt.no])
    /\ GoTo("traffic")
    /\ UNCHANGED <<Traffic, Stored, Recent>>

\* All detectors were asked: record, then broadcast.
Record ==
    /\ At("analyse") /\ task.asked = Len(Detectors)
    /\ buffer' = Newest(Append(buffer, task.pkt))
    /\ recorded' = recorded \cup {task.pkt.no}
    /\ Begin("pipeline", [type |-> "traffic", pkt |-> task.pkt.no])
    /\ GoTo("traffic")
    /\ UNCHANGED <<Traffic, Stored>>

TrafficSent ==
    /\ At("traffic") /\ Returns("pipeline")
    /\ task' = [task EXCEPT !.pc = "get", !.pkt = None, !.asked = 0]
    /\ UNCHANGED <<Traffic, Stored, Recent>>

\* This broadcast is outside every try: the task ends.
TrafficRaises ==
    /\ At("traffic") /\ Raises("pipeline")
    /\ GoTo("ended")
    /\ UNCHANGED <<Traffic, Stored, Recent>>

(***************************************************************************)
(* The other tasks of the event loop.                                      *)
(***************************************************************************)
Rest == <<Traffic, task, Stored, Recent>>

\* block_ip, unblock_ip and reset_system tell the dashboards.
RequestBroadcasts(r) ==
    /\ sending[r] = None
    /\ Begin(r, [type |-> "request", pkt |-> 0])
    /\ UNCHANGED Rest

RequestEnds(r) == (Returns(r) \/ Raises(r)) /\ UNCHANGED Rest

\* From the flush of its alert to the commit the pipeline has the write lock.
Unlocked == ~(At("announce") \/ At("decide"))

Delete(gone) ==
    /\ alerts' = alerts \ gone
    /\ deleted' = deleted \cup gone
    /\ UNCHANGED <<hub, Traffic, task, recorded>>

\* reset_system_data, from its commit to the next await and then on: the
\* recent packets go last.  _reset_lock keeps a second reset out.
ResetPurges ==
    /\ ~clearing /\ clearing' = TRUE
    /\ Unlocked
    /\ Delete(alerts)
    /\ forgotten' = recorded
    /\ UNCHANGED <<doomed, buffer>>

\* Mutant: the recent packets are left alone.
ResetKeepsRecent ==
    /\ clearing /\ clearing' = FALSE
    /\ UNCHANGED <<hub, Traffic, task, alerts, doomed, deleted, forgotten, Recent>>

ResetClears ==
    /\ clearing /\ clearing' = FALSE
    /\ buffer' = <<>>
    /\ UNCHANGED <<hub, Traffic, task, alerts, doomed, deleted, forgotten, recorded>>

\* reset_traffic_session.
ResetSession ==
    /\ buffer' = <<>>
    /\ UNCHANGED <<hub, Traffic, task, Stored, recorded>>

\* maintain_database_health, which module Records has in full: the ids of the
\* oldest alerts are selected, and deleted when the lock is free, whoever has
\* these ids by then.  Among alerts that are stored, older ones have lower ids.
Oldest(n) == {al \in alerts : Cardinality({other \in alerts : other.id < al.id}) < n}

SelectDoomed ==
    /\ doomed = {} /\ Cardinality(alerts) > MaxAlerts
    /\ doomed' = {al.id : al \in Oldest(Cardinality(alerts) - MaxAlerts)}
    /\ UNCHANGED <<hub, Traffic, task, alerts, clearing, deleted, forgotten, Recent>>

PruneDoomed ==
    /\ doomed # {} /\ doomed' = {}
    /\ Unlocked
    /\ Delete({al \in alerts : al.id \in doomed})
    /\ UNCHANGED <<clearing, forgotten, buffer>>

PruneFails ==
    /\ doomed # {} /\ doomed' = {}
    /\ DbFails
    /\ UNCHANGED <<hub, Traffic, task, alerts, clearing, deleted, forgotten, Recent>>

Sends(s)   == Send(s) /\ UNCHANGED Rest
Joins(c)   == (Register(c) \/ Refuse(c)) /\ UNCHANGED Rest
Leaves(c)  == PeerLeaves(c) /\ UNCHANGED Rest
Noticed(c) == Disconnect(c) /\ UNCHANGED Rest

PipelineStep ==
    \/ Take \/ DetectorQuiet \/ DetectorRaises \/ DetectorAlerts \/ AlertNotFlushed
    \/ AlertAnnounced \/ AlertLost \/ KeepAlert \/ BlockSource \/ DecisionFails
    \/ AnnounceBlock \/ BlockAnnounced \/ BlockNotAnnounced
    \/ Record \/ TrafficSent \/ TrafficRaises

Deletion ==
    \/ ResetPurges \/ ResetClears \/ ResetSession
    \/ SelectDoomed \/ PruneDoomed \/ PruneFails

Next ==
    \/ Arrive \/ PipelineStep \/ Deletion
    \/ \E r \in Requests : RequestBroadcasts(r) \/ RequestEnds(r)
    \/ \E s \in Senders : Sends(s)
    \/ \E c \in Sockets : Joins(c) \/ Leaves(c) \/ Noticed(c)

\* The event loop runs every task that is ready, a send ends or raises, and
\* the server notices a peer that left (it pings).  Nothing makes clients
\* come or go, or packets arrive.
Spec ==
    /\ Init /\ [][Next]_vars
    /\ WF_vars(PipelineStep)
    /\ \A s \in Senders : WF_vars(Sends(s))
    /\ \A r \in Requests : WF_vars(RequestEnds(r))
    /\ \A c \in Sockets : WF_vars(Noticed(c))

(***************************************************************************)
(* Properties.                                                             *)
(***************************************************************************)
InHand == IF task.pkt = None THEN {} ELSE {task.pkt}

\* The alert_id in a packet, in hand or among the recent ones, is the id under
\* which an alert about that packet was committed, never one of an alert that
\* was announced and then rolled back, whose id another alert gets.  Retention
\* or a reset may have deleted the alert since.  A packet in hand at a reset is
\* even recorded after it, with an id that the next alert is given again.
FlaggedWasStored ==
    \A p \in InHand \cup Range(buffer) :
        p.alert # 0 => \E al \in alerts \cup deleted : al.id = p.alert /\ al.pkt = p.no

\* When reset_system_data is through, no packet recorded before it deleted the
\* alerts is among the recent ones, although packets are recorded while it
\* waits for its commit: what names a deleted alert then was in hand.
ResetForgets ==
    ~clearing => \A p \in Range(buffer) : p.no \notin forgotten

\* A packet is recorded only after every detector was asked about it, whatever
\* detectors, database and broadcasts raised on the way.
RecordedWasSeenByAll == \A p \in Range(buffer) : p.seen = Range(Detectors)

\* What a dashboard was shown live is recorded already: a page that is
\* registered when it fetches the recent packets misses none in between.
ShownIsRecorded == shown \subseteq recorded

\* No exception on the way loses a packet that was taken from the queue: when
\* the task is through with a packet, and when it has ended, all that were
\* taken are recorded.
TakenAreRecorded ==
    task.pc \in {"get", "traffic", "ended"} => recorded = 1..(arrived - Len(queue))

\* Broadcasts discard sockets while endpoints add and remove them: a client
\* that is there stays registered, one whose endpoint has returned does not.
RegisteredIsServed ==
    \A c \in Sockets : /\ socket[c] = "open" => c \in connections
                       /\ socket[c] \in {"new", "gone"} => c \notin connections

\* Stated by the project report: every packet admitted to the queue is
\* evaluated by all detectors.  The task ends when the set of connections
\* changes size during its broadcast, and the queue is never read again.
EveryPacketEvaluated ==
    \A n \in 1..MaxPackets : (arrived >= n) ~> (n \in recorded)

\* Stated by process_alert: an alert is always stored.  A client that comes or
\* leaves during the broadcast of new_alert makes it raise, and the alert is
\* rolled back.
AlertsAreStored ==
    [][task.alert # None /\ task'.alert = None => task.alert \in alerts' \cup deleted']_vars
=============================================================================
