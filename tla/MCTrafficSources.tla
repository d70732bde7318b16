--------------------------- MODULE MCTrafficSources ---------------------------
(***************************************************************************)
(* Instances of TrafficSources for TLC.                                    *)
(***************************************************************************)
EXTENDS TrafficSources

CONSTANTS a, b

\* Small thresholds where sniffed traffic explores the windows, those of the
\* code where only the generator reaches them.
MCThreshold == [port_scan |-> 3, brute_force |-> 2, syn_flood |-> 4,
                udp_flood |-> 2, icmp_flood |-> 15, slowloris |-> 8]
MCWindow    == [port_scan |-> 2, brute_force |-> 3, syn_flood |-> 2,
                udp_flood |-> 2, icmp_flood |-> 2, slowloris |-> 3]
MCPorts     == {22, 23, 53, 80, 389, 443, 8080, 1024, 1025, 1026}

Quiet(S) == [shape \in S |-> 0]
Scene(sniffed, asked, pauses, steps) ==
    [sniffed |-> sniffed, asked |-> asked, pauses |-> pauses, steps |-> steps]

Datagrams == [shape \in {Datagram("UDP", 53, {})} |-> 6]
Logins    == [shape \in {Syn(22)} |-> 5]
Scans     == [shape \in {Syn(1024), Syn(1025), Datagram("UDP", 1026, {})} |-> 2]
Flood     == [shape \in {Syn(443)} |-> 10]

MCScenes ==
    {Scene(Datagrams, {}, 0, {-1, 0, 1, 2}), Scene(Logins, {}, 0, {-1, 0, 1, 3}),
     Scene(Scans, {}, 0, {-1, 0, 2}), Scene(Flood, {}, 0, {0, 2, 3}),
     Scene([shape \in {Syn(22)} |-> 2], {"brute_force"}, 1, {-1, 0, 2}),
     Scene(Quiet({Syn(22)}), {"normal"}, 0, {0})}
    \cup {Scene(Quiet({Syn(22)}), {attack}, IF attack = "port_scan" THEN 0 ELSE 1, {0, 2}) :
             attack \in Attacks}
=============================================================================
