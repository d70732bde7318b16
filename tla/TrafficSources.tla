--------------------------- MODULE TrafficSources ---------------------------
(***************************************************************************)
(* Where the packets of the detectors come from: the sniffer thread and    *)
(* POST /api/generate-traffic, which put into one queue.  A packet carries *)
(* the time it was made; the thread hands its packets to the loop, so the  *)
(* two sources may be queued in another order than they were stamped, and  *)
(* the wall clock may be set back: a packet may be late by MaxLate.        *)
(***************************************************************************)
EXTENDS Detection

CONSTANTS
    ScanPorts,      \* the ports a synthetic scan picks from, 1024 to 65000
    FloodPorts,     \* the ports a synthetic UDP flood picks from, 53, 123 and 5000
    Sessions,       \* bound: browsing sessions of a normal request, 5 in the code
    Scenes,         \* bound: how much of which traffic there is
    None

VARIABLES
    scene,          \* traffic still to come: sniffed, per shape; asked, by request;
                    \* pauses, how often a request is slow; steps, how time may
                    \* move from the newest packet to the next
    job             \* the generate_traffic request under way: its attack and address,
                    \* the loops left, when its last loop began and last put,
                    \* and history: the different ports it has put

vars == <<detectors, scene, job>>

Syn(port)        == [proto |-> "TCP", port |-> port, syn |-> TRUE, ack |-> FALSE,
                     slow |-> FALSE, sigs |-> {}]
Push(port, sigs) == [Syn(port) EXCEPT !.syn = FALSE, !.ack = TRUE, !.sigs = sigs]
Datagram(proto, port, sigs) ==
    [proto |-> proto, port |-> port, syn |-> FALSE, ack |-> FALSE,
     slow |-> FALSE, sigs |-> sigs]

\* A loop of the handler: between least and most packets of one of the shapes,
\* from the addresses from, all from the same one if same.
Loop(least, most, from, same, shapes) ==
    [least |-> least, most |-> most, from |-> from, same |-> same, shapes |-> shapes]
Times(n, ip, shapes) == Loop(n, n, {ip}, TRUE, shapes)

\* Browsing sessions of random addresses.
Browsing == [i \in 1..Sessions |-> Loop(2, 4, Sources, TRUE, {Push(80, {}), Push(443, {})})]

\* Mutant: one attempt less than the threshold.
ProbesTooFew(ip, target) ==
    [port_scan   |-> << Times(Threshold["port_scan"] + 6, ip, {Syn(port) : port \in ScanPorts}) >>,
     brute_force |-> << Times(Threshold["brute_force"] - 1, ip, {Syn(target)}) >>,
     syn_flood   |-> << Times(2 * Threshold["syn_flood"] + 5, ip, {Syn(443)}) >>]

\* The bursts sized by the thresholds of the configuration; target is the
\* port a brute-force burst picked.
Probes(ip, target) ==
    [port_scan   |-> << Times(Threshold["port_scan"] + 6, ip, {Syn(port) : port \in ScanPorts}) >>,
     brute_force |-> << Times(Threshold["brute_force"] + 5, ip, {Syn(target)}) >>,
     syn_flood   |-> << Loop(Threshold["syn_flood"] + 5, Threshold["syn_flood"] + 5,
                             Sources, FALSE, {Syn(80)}),
                        Times(2 * Threshold["syn_flood"] + 5, ip, {Syn(443)}) >>]

\* The bursts of fixed size.
Floods(ip) ==
    [slowloris  |-> << Times(10, ip, {[Push(80, {}) EXCEPT !.slow = TRUE]}) >>,
     udp_flood  |-> << Times(18, ip, {Datagram("UDP", port, {}) : port \in FloodPorts}) >>,
     icmp_flood |-> << Times(18, ip, {Datagram("ICMP", NoPort, {})}) >>]

\* The payloads, each as the rules of detection/signature.py it matches.
Payloads(ip) ==
    LET web(rule)          == << Times(1, ip, {Push(80, {rule})}) >>
        one(port, rules)   == << Times(1, ip, {Push(port, rules)}) >>
    IN [sql_injection |-> one(80, {1, 4}), xss |-> web(6), log4shell |-> one(443, {17}),
        cloud_ssrf |-> web(18), path_traversal |-> one(80, {10, 11}), php_rce |-> web(19),
        shellshock |-> web(16), http_request_smuggling |-> web(20),
        api_abuse |-> one(8080, {21}),
        credential_stuffing |-> << Times(4, ip, {Push(80, {22})}) >>,
        jwt_attack |-> one(443, {23}),
        dns_tunneling |-> << Times(1, ip, {Datagram("UDP", 53, {24})}) >>]

MorePayloads(ip) ==
    LET one(port, rule) == << Times(1, ip, {Push(port, {rule})}) >>
    IN [command_injection |-> one(80, 13), ldap_injection |-> one(389, 25),
        xxe |-> one(80, 26), ssti |-> one(80, 27),
        insecure_deserialization |-> one(8080, 28)]

Plan(attack, ip, target) ==
    IF attack = "normal"                         THEN Browsing
    ELSE IF attack \in DOMAIN Probes(ip, target) THEN Probes(ip, target)[attack]
    ELSE IF attack \in DOMAIN Floods(ip)         THEN Floods(ip)[attack]
    ELSE IF attack \in DOMAIN Payloads(ip)       THEN Payloads(ip)[attack]
    ELSE MorePayloads(ip)[attack]

\* The types a burst request picks from, and what else may be asked for.
Attacks ==
    {"port_scan", "brute_force", "syn_flood", "sql_injection", "xss", "log4shell",
     "cloud_ssrf", "path_traversal", "php_rce", "shellshock", "http_request_smuggling",
     "api_abuse", "credential_stuffing", "jwt_attack", "dns_tunneling", "slowloris",
     "udp_flood", "icmp_flood", "command_injection", "ldap_injection", "xxe", "ssti",
     "insecure_deserialization"}

Made(shape, src, ts) ==
    [src |-> src, ts |-> ts, proto |-> shape.proto, port |-> shape.port, syn |-> shape.syn,
     ack |-> shape.ack, slow |-> shape.slow, sigs |-> shape.sigs]

ASSUME SourcesAssumption ==
    /\ ScanPorts \cup FloodPorts \subseteq Ports /\ NoPort \notin ScanPorts
    /\ 80 \in HttpPorts
    /\ {53, 80, 389, 443, 8080} \subseteq Ports
    /\ Sessions \in Nat
    /\ \A s \in Scenes : /\ s = [sniffed |-> s.sniffed, asked |-> s.asked,
                                 pauses |-> s.pauses, steps |-> s.steps]
                         /\ s.sniffed \in [DOMAIN s.sniffed -> Nat]
                         /\ DOMAIN s.sniffed \subseteq Shapes
                         /\ s.asked \subseteq Attacks \cup {"normal"}
                         /\ s.pauses \in Nat
                         /\ s.steps \subseteq Int /\ \A d \in s.steps : d >= -MaxLate
    /\ Threshold["slowloris"] <= 10 /\ Threshold["udp_flood"] <= 18
    /\ Threshold["icmp_flood"] <= 18

\* The sniffer's packet is put by the loop, late or not.
Sniffed ==
    /\ \E shape \in DOMAIN scene.sniffed, src \in Sources, d \in scene.steps :
        /\ scene.sniffed[shape] > 0
        /\ Analyze(Made(shape, src, clock + d))
        /\ scene' = [scene EXCEPT !.sniffed[shape] = @ - 1]
    /\ UNCHANGED job

\* A request for normal traffic, an attack or a random attack.  The address of
\* an attack and the port of a brute-force burst are random too.
Ask ==
    /\ job = None
    /\ \E attack \in scene.asked, ip \in Sources, target \in SensitivePorts :
        /\ job' = [attack |-> attack, ip |-> ip, left |-> Plan(attack, ip, target),
                   since |-> clock, last |-> clock, ports |-> {}]
        /\ scene' = [scene EXCEPT !.asked = @ \ {attack}]
    /\ UNCHANGED detectors

\* One packet of the loop under way; put and sleep let the sniffer's come between.
Put ==
    /\ job # None
    /\ job.left # << >>
    /\ \E src \in Head(job.left).from, shape \in Head(job.left).shapes, d \in scene.steps :
        LET loop  == Head(job.left)
            ts    == clock + d
            again == [loop EXCEPT !.least = @ - 1, !.most = @ - 1,
                                  !.from = IF loop.same THEN {src} ELSE @]
        IN  /\ d = 0 \/ (d > 0 /\ scene.pauses > 0)
            /\ Analyze(Made(shape, src, ts))
            /\ \E left \in (IF loop.least <= 1 THEN {Tail(job.left)} ELSE {})
                     \cup (IF loop.most > 1 THEN {<<again>> \o Tail(job.left)} ELSE {}) :
                job' = [job EXCEPT !.left = left, !.last = ts, !.ports = @ \cup {shape.port},
                                   !.since = IF left = Tail(job.left) /\ left # << >>
                                             THEN ts ELSE @]
            /\ scene' = [scene EXCEPT !.pauses = IF d > 0 THEN @ - 1 ELSE @]

Answer ==
    /\ job # None
    /\ job.left = << >>
    /\ job' = None
    /\ UNCHANGED <<detectors, scene>>

Init ==
    /\ DetectorsInit
    /\ scene \in Scenes
    /\ job = None

Next == Sniffed \/ Ask \/ Put \/ Answer

Spec == Init /\ [][Next]_vars
-------------------------------------------------------------------------------
LoopOf == [least : Int, most : Int, from : SUBSET Sources, same : BOOLEAN,
           shapes : SUBSET Shapes]

\* Every variable has its type.
TypeOK ==
    /\ DetectorsTyped
    /\ scene.sniffed \in [DOMAIN scene.sniffed -> Nat]
    /\ scene.asked \subseteq Attacks \cup {"normal"}
    /\ scene.pauses \in Nat
    /\ scene.steps \subseteq Int
    /\ job # None => /\ job.attack \in Attacks \cup {"normal"}
                     /\ job.ip \in Sources
                     /\ job.left \in Seq(LoopOf)
                     /\ {job.since, job.last} \subseteq Nat
                     /\ job.ports \subseteq {NoPort} \cup Ports

Quick ==
    /\ job.last - job.since <= Window[job.attack]
    /\ job.attack = "port_scan" => Cardinality(job.ports) >= Threshold["port_scan"]

Reported(from) ==
    \E al \in alerts : al.track[1] = job.attack /\ al.track[2] = job.ip /\ al.at > from

\* "Reads thresholds directly from config.py to ensure genuine triggering"
\* (api/routes_generator.py:6): when an attack has been put, its source has
\* been reported for that attack, unless the request took longer than the
\* window, or the random ports of a scan were too few different ones.
GenuineTriggering ==
    job # None /\ job.left = << >> /\ job.attack # "normal" =>
        IF job.attack \in Kinds
        THEN Quick => Reported(job.last - Window[job.attack])
        ELSE Reported(job.since - 1)
=============================================================================
