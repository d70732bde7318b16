---------------------------- MODULE WebSocketHub -----------------------------
(***************************************************************************)
(* The WebSocketManager and the endpoint /ws/alerts: the set of registered *)
(* connections, and broadcasts that walk over that very set while they     *)
(* await each send.  Several tasks broadcast at once; clients come and go  *)
(* between the sends.                                                      *)
(***************************************************************************)
EXTENDS Naturals, Sequences, FiniteSets

CONSTANTS
    Sockets,    \* the WebSocket objects; each serves one connection
    Senders,    \* the tasks that broadcast
    None

VARIABLES
    socket,      \* per socket: "new", "open", "closed" by the peer, "gone"
    connections, \* WebSocketManager._connections
    sending,     \* per task: the broadcast it is in, or None
    shown        \* history: the packets some client was sent live

hub == <<socket, connections, sending, shown>>

\* pkt: the packet the message is about, 0 for what requests tell.
Messages == [type : {"new_alert", "ip_blocked", "traffic", "request"}, pkt : Nat]

\* left: what the iterator still finds ahead; size: the size of the set when
\* the iterator was made, 0 when the set was empty and no iterator is; dead:
\* sockets whose send raised.
Broadcasts == [left : SUBSET Sockets, size : 0..Cardinality(Sockets),
               dead : SUBSET Sockets, msg : Messages]

ASSUME HubAssumption == IsFiniteSet(Sockets) /\ None \notin Broadcasts

HubTypeOK ==
    /\ socket \in [Sockets -> {"new", "open", "closed", "gone"}]
    /\ connections \subseteq Sockets
    /\ sending \in [Senders -> Broadcasts \cup {None}]
    /\ shown \subseteq Nat

HubInit ==
    /\ socket = [c \in Sockets |-> "new"]
    /\ connections = {}
    /\ sending = [s \in Senders |-> None]
    /\ shown = {}

Busy(s) == sending[s] # None
Walking == {s \in Senders : Busy(s) /\ sending[s].size > 0}

(***************************************************************************)
(* The endpoint of one socket.                                             *)
(***************************************************************************)
\* A set that grows may be laid out anew: a walk then has any part of the new
\* set ahead of it, sockets it was through with included.
Register(c) ==
    /\ socket[c] = "new"
    /\ socket' = [socket EXCEPT ![c] = "open"]
    /\ connections' = connections \cup {c}
    /\ \E ahead \in [Walking -> SUBSET connections'] :
        sending' = [s \in Senders |->
            IF s \in Walking THEN [sending[s] EXCEPT !.left = ahead[s]] ELSE sending[s]]
    /\ UNCHANGED shown

\* No token, an invalid one, or a peer that is gone before it is accepted.
Refuse(c) ==
    /\ socket[c] = "new"
    /\ socket' = [socket EXCEPT ![c] = "gone"]
    /\ UNCHANGED <<connections, sending, shown>>

\* The peer leaves; until the endpoint notices, the socket stays registered.
PeerLeaves(c) ==
    /\ socket[c] = "open"
    /\ socket' = [socket EXCEPT ![c] = "closed"]
    /\ UNCHANGED <<connections, sending, shown>>

\* The set without the sockets of gone: walks no longer find these ahead.
Discard(gone) ==
    /\ connections' = connections \ gone
    /\ sending' = [s \in Senders |->
        IF s \in Walking THEN [sending[s] EXCEPT !.left = @ \ gone] ELSE sending[s]]

\* Mutant: a receive loop that ends without telling the manager.
DisconnectForgotten(c) ==
    /\ socket[c] = "closed"
    /\ socket' = [socket EXCEPT ![c] = "gone"]
    /\ UNCHANGED <<connections, sending, shown>>

\* receive_text, or the answer to a ping, raises.
Disconnect(c) ==
    /\ socket[c] = "closed"
    /\ socket' = [socket EXCEPT ![c] = "gone"]
    /\ Discard({c})
    /\ UNCHANGED shown

(***************************************************************************)
(* WebSocketManager.broadcast, from one send to the next.                  *)
(***************************************************************************)
\* Of the messages, only traffic events show a packet.
Live(m) == IF m.type = "traffic" THEN {m.pkt} ELSE {}

\* One send of s's broadcast b to c.  A peer that left may still be written
\* to for a while, to no effect; then the send raises.
SendTo(s, b, c) ==
    \/ /\ socket[c] = "open"
       /\ sending' = [sending EXCEPT ![s] = [b EXCEPT !.left = @ \ {c}]]
       /\ shown' = shown \cup Live(b.msg)
    \/ /\ socket[c] # "open"
       /\ \E dead \in {b.dead, b.dead \cup {c}} :
            sending' = [sending EXCEPT ![s] = [b EXCEPT !.left = @ \ {c}, !.dead = dead]]
       /\ UNCHANGED shown

\* Up to the first await: nothing comes between making the iterator and the
\* first send.
Begin(s, m) ==
    /\ LET b == [left |-> connections, size |-> Cardinality(connections),
                 dead |-> {}, msg |-> m] IN
       \/ connections = {} /\ sending' = [sending EXCEPT ![s] = b] /\ UNCHANGED shown
       \/ \E c \in connections : SendTo(s, b, c)
    /\ UNCHANGED <<socket, connections>>

SizeChanged(s) == s \in Walking /\ sending[s].size # Cardinality(connections)

Send(s) ==
    /\ s \in Walking
    /\ ~SizeChanged(s)
    /\ \E c \in sending[s].left : SendTo(s, sending[s], c)
    /\ UNCHANGED <<socket, connections>>

\* The walk is over: sockets that raised are discarded.
Returns(s) ==
    /\ Busy(s) /\ sending[s].left = {} /\ ~SizeChanged(s)
    /\ connections' = connections \ sending[s].dead
    /\ sending' = [t \in Senders |->
        IF t = s THEN None
        ELSE IF t \in Walking THEN [sending[t] EXCEPT !.left = @ \ sending[s].dead]
        ELSE sending[t]]
    /\ UNCHANGED <<socket, shown>>

\* "Set changed size during iteration"; what was found dead stays registered.
Raises(s) ==
    /\ SizeChanged(s)
    /\ sending' = [sending EXCEPT ![s] = None]
    /\ UNCHANGED <<socket, connections, shown>>
=============================================================================
