------------------------------ MODULE Detection ------------------------------
(***************************************************************************)
(* The detectors of detection/: what a packet does to their windows, their *)
(* cooldowns and the rates the SYN flood detector remembers, and which     *)
(* alerts it raises.  No detector awaits inside analyze and none reads the *)
(* state of another, so a packet is one step, whoever puts packets into    *)
(* the queue (module TrafficSources).                                      *)
(***************************************************************************)
EXTENDS SlidingWindow, Functions, FiniteSets

CONSTANTS
    Sources,        \* source addresses
    Ports,          \* destination ports
    SensitivePorts, \* BRUTE_FORCE_PORTS
    HttpPorts,      \* the ports Slowloris is looked for on
    Threshold,      \* per kind: PORT_SCAN_THRESHOLD, SYN_FLOOD_MIN_PACKETS, ...
    Window,         \* per kind: PORT_SCAN_WINDOW, ..., in clock units
    StdMult,        \* SYN_FLOOD_STDDEV_MULTIPLIER
    MaxRates,       \* length of rate_history, 20
    MaxLate,        \* bound: how far behind the newest packet one may be stamped
    Start           \* bound: the time of the first packet

Kinds  == {"port_scan", "brute_force", "syn_flood", "udp_flood", "icmp_flood", "slowloris"}
NoPort == 0         \* dest_port is None

\* _SIGNATURE_RULES in their order: what a match of each reports.  Which rules
\* a payload matches is the packet's field sigs.
Rules ==
    LET high(type) == [type |-> type, sev |-> "high"]
        medium(type) == [type |-> type, sev |-> "medium"]
    IN << high("sql_injection"), high("sql_injection"), high("sql_injection"),
          [type |-> "sql_injection", sev |-> "low"], high("sql_injection"),
          high("xss"), medium("xss"), medium("xss"), medium("xss"),
          high("path_traversal"), high("path_traversal"), high("path_traversal"),
          high("command_injection"), medium("command_injection"),
          medium("command_injection"), high("shellshock"), high("log4shell"),
          high("cloud_ssrf"), high("php_rce"), high("http_request_smuggling"),
          medium("api_abuse"), high("credential_stuffing"), high("jwt_attack"),
          high("dns_tunneling"), high("ldap_injection"), high("xxe"), high("ssti"),
          high("insecure_deserialization"), medium("api_abuse") >>

\* What the detectors read of a packet: syn and ack, the letters among its TCP
\* flags; slow, a payload that looks like an unfinished HTTP header.
Shapes ==
    [proto : {"TCP", "UDP", "ICMP"}, port : {NoPort} \cup Ports,
     syn : BOOLEAN, ack : BOOLEAN, slow : BOOLEAN, sigs : SUBSET (1..29)]

\* A deque is kept per kind and source, and per port for brute force.
Tracks ==
    (Kinds \ {"brute_force"}) \X Sources \X {NoPort}
        \cup {"brute_force"} \X Sources \X SensitivePorts

ASSUME DetectionAssumption ==
    /\ Ports \subseteq Nat /\ SensitivePorts \subseteq Ports /\ HttpPorts \subseteq Ports
    /\ Threshold \in [Kinds -> Nat \ {0}]
    /\ Window \in [Kinds -> Nat \ {0}]
    /\ {StdMult, MaxRates} \subseteq Nat \ {0}
    /\ {MaxLate, Start} \subseteq Nat
    /\ \A kind \in Kinds : Window[kind] + MaxLate <= Start

VARIABLES
    clock,      \* the newest time stamp the detectors have seen
    windows,    \* _windows, _udp_windows, ..., stats.timestamps
    alerted,    \* _alerted: the time of the last alert, 0 before it
    rates,      \* stats.rate_history
    rated,      \* stats.last_window_end
    sent,       \* history: all the entries a deque was ever given
    alerts      \* history: the alerts raised

detectors == <<clock, windows, alerted, rates, rated, sent, alerts>>

Watches(kind, p) ==
    \/ kind = "port_scan"   /\ p.port # NoPort
    \/ kind = "brute_force" /\ p.proto = "TCP" /\ p.port \in SensitivePorts /\ p.syn
    \/ kind = "syn_flood"   /\ p.proto = "TCP" /\ p.syn /\ ~p.ack
    \/ kind = "udp_flood"   /\ p.proto = "UDP"
    \/ kind = "icmp_flood"  /\ p.proto = "ICMP"
    \/ kind = "slowloris"   /\ p.proto = "TCP" /\ p.port \in HttpPorts /\ p.slow

Track(kind, p) == <<kind, p.src, IF kind = "brute_force" THEN p.port ELSE NoPort>>
Tracked(p)     == {Track(kind, p) : kind \in {k \in Kinds : Watches(k, p)}}
Stamp(p)       == [ts |-> p.ts, port |-> p.port]

\* What is counted: the distinct ports of a scan, else the packets.
Measure(kind, entries) ==
    IF kind = "port_scan" THEN Cardinality({e.port : e \in {entries[i] : i \in DOMAIN entries}})
                          ELSE Len(entries)

Severity(kind, count) ==
    IF kind \in {"udp_flood", "icmp_flood", "syn_flood"} THEN "high"
    ELSE IF kind # "slowloris" /\ count >= 2 * Threshold[kind] THEN "high" ELSE "medium"

\* Mutant: an entry expires when it is exactly a window old.
WindowsSlidTooFar(p) ==
    [t \in Tracks |-> IF t \in Tracked(p)
                      THEN Slid(windows[t], Stamp(p), Window[t[1]] - 1) ELSE windows[t]]

\* Mutant: nothing expires.
WindowsNeverEvicted(p) ==
    [t \in Tracks |-> IF t \in Tracked(p) THEN Append(windows[t], Stamp(p)) ELSE windows[t]]

WindowsSlid(p) ==
    [t \in Tracks |-> IF t \in Tracked(p)
                      THEN Slid(windows[t], Stamp(p), Window[t[1]]) ELSE windows[t]]

CooledDown(t, ts) == ts - alerted[t] >= Window[t[1]]

\* Mutant: the test hits the threshold or nothing.
ReachingExactly(p) ==
    {t \in Tracked(p) : /\ Measure(t[1], WindowsSlid(p)[t]) = Threshold[t[1]]
                        /\ CooledDown(t, p.ts)}

\* The tracks that reach their threshold with this packet and are due an alert.
Reaching(p) ==
    {t \in Tracked(p) : /\ Measure(t[1], WindowsSlid(p)[t]) >= Threshold[t[1]]
                        /\ CooledDown(t, p.ts)}

(***************************************************************************)
(* SynFloodDetector: deviation from the rates of earlier windows.  With n  *)
(* rates of sum s and sum of squares q the variance is (nq - ss) / nn, so  *)
(* that the comparisons need no fractions.                                 *)
(***************************************************************************)
Total(r)  == SumFunction(r)
Spread(r) == Len(r) * SumFunction([i \in DOMAIN r |-> r[i] * r[i]]) - Total(r) * Total(r)

Varies(r) == Spread(r) >= Len(r) * Len(r)

Exceeds(r, count, mult) ==
    LET above == Len(r) * count - Total(r)
    IN  above >= 0 /\ above * above >= mult * mult * Spread(r)

\* Mutant: no baseline is asked for.
HasBaselineAlways(src, count) == TRUE

HasBaseline(src, count) == Total(rates[src]) # 0 \/ count >= Threshold["syn_flood"]

Snapshot(src, count, ts) == HasBaseline(src, count) /\ ts - rated[src] >= Window["syn_flood"]

\* Mutant: a history without maxlen.
PushedUntrimmed(r, count) == Append(r, count)

Pushed(r, count) ==
    LET all == Append(r, count) IN IF Len(all) > MaxRates THEN Tail(all) ELSE all

RatesAfter(src, count, ts) ==
    IF Snapshot(src, count, ts) THEN Pushed(rates[src], count) ELSE rates[src]

Deviating(p) ==
    {t \in Tracked(p) \ Reaching(p) :
        LET count == Len(WindowsSlid(p)[t])
            r     == RatesAfter(p.src, count, p.ts)
        IN  /\ t[1] = "syn_flood"
            /\ HasBaseline(p.src, count)
            /\ Len(r) >= 3
            /\ Varies(r)
            /\ Exceeds(r, count, StdMult)
            /\ CooledDown(t, p.ts)}

(***************************************************************************)
(* SignatureDetector: the first rule that matches, no cooldown.            *)
(***************************************************************************)
Matched(p) ==
    {[track |-> <<Rules[n].type, p.src, NoPort>>, at |-> p.ts, seen |-> 0,
      sev |-> Rules[n].sev, by |-> "pattern"] :
        n \in {m \in p.sigs : \A other \in p.sigs : m <= other}}

Counted(p) ==
    {[track |-> t, at |-> p.ts, seen |-> Len(sent[t]) + 1,
      sev |-> Severity(t[1], Measure(t[1], WindowsSlid(p)[t])), by |-> "count"] :
        t \in Reaching(p)}

Deviant(p) ==
    {[track |-> t, at |-> p.ts, seen |-> Len(sent[t]) + 1,
      sev |-> LET count == Len(WindowsSlid(p)[t])
              IN  IF Exceeds(RatesAfter(p.src, count, p.ts), count, 2 * StdMult)
                  THEN "high" ELSE "medium",
      by |-> "deviation"] : t \in Deviating(p)}

\* Every detector analyses packet p.
Analyze(p) ==
    LET flood == <<"syn_flood", p.src, NoPort>>
        count == Len(WindowsSlid(p)[flood])
    IN  /\ clock' = IF p.ts > clock THEN p.ts ELSE clock
        /\ windows' = WindowsSlid(p)
        /\ alerted' = [t \in Tracks |->
               IF t \in Reaching(p) \cup Deviating(p) THEN p.ts ELSE alerted[t]]
        /\ rates' = IF flood \in Tracked(p)
                    THEN [rates EXCEPT ![p.src] = RatesAfter(p.src, count, p.ts)] ELSE rates
        /\ rated' = IF flood \in Tracked(p) /\ Snapshot(p.src, count, p.ts)
                    THEN [rated EXCEPT ![p.src] = p.ts] ELSE rated
        /\ sent' = [t \in Tracks |->
               IF t \in Tracked(p) THEN Append(sent[t], Stamp(p)) ELSE sent[t]]
        /\ alerts' = alerts \cup Matched(p) \cup Counted(p) \cup Deviant(p)

DetectorsInit ==
    /\ clock = Start
    /\ windows = [t \in Tracks |-> << >>]
    /\ alerted = [t \in Tracks |-> 0]
    /\ rates = [src \in Sources |-> << >>]
    /\ rated = [src \in Sources |-> 0]
    /\ sent = [t \in Tracks |-> << >>]
    /\ alerts = {}
-------------------------------------------------------------------------------
(***************************************************************************)
(* Properties.                                                             *)
(***************************************************************************)
AlertTypes == Kinds \cup {Rules[n].type : n \in DOMAIN Rules}

Alert ==
    [track : AlertTypes \X Sources \X Nat, at : Nat, seen : Nat,
     sev : {"low", "medium", "high"}, by : {"pattern", "count", "deviation"}]

\* Every variable has its type; rate_history is never longer than maxlen.
DetectorsTyped ==
    /\ clock \in Nat
    /\ windows \in [Tracks -> Seq(Entries)]
    /\ alerted \in [Tracks -> Nat]
    /\ rates \in [Sources -> Seq(Nat)]
    /\ \A src \in Sources : Len(rates[src]) <= MaxRates
    /\ rated \in [Sources -> Nat]
    /\ sent \in [Tracks -> Seq(Entries)]
    /\ alerts \in SUBSET Alert

\* How many of the entries a deque was ever given its front has lost.
Lost(t) == Len(sent[t]) - Len(windows[t])
Newest(t) == sent[t][Len(sent[t])]

\* A deque loses nothing but what some packet of the track has left a whole
\* window behind: late packets do not push out those that still count.
DropsOnlyExpired ==
    \A t \in Tracks :
        /\ windows[t] = SubSeq(sent[t], Lost(t) + 1, Len(sent[t]))
        /\ \A i \in 1..Lost(t) : \E j \in DOMAIN sent[t] :
               sent[t][i].ts < sent[t][j].ts - Window[t[1]]

\* What is counted with a packet is no older than its window and the lateness
\* of the traffic: an entry hidden behind a newer head does not stay for ever.
CountsOnlyRecent ==
    \A t \in Tracks : \A i \in DOMAIN windows[t] :
        windows[t][i].ts >= Newest(t).ts - Window[t[1]] - MaxLate

\* The entries of a track with times from lo to hi, among the first n.
Between(t, lo, hi, n) ==
    {i \in 1..n : sent[t][i].ts >= lo /\ sent[t][i].ts <= hi}

MeasureOf(t, S) ==
    IF t[1] = "port_scan" THEN Cardinality({sent[t][i].port : i \in S}) ELSE Cardinality(S)

Peak(t) == CHOOSE ts \in {sent[t][i].ts : i \in DOMAIN sent[t]} :
               \A i \in DOMAIN sent[t] : sent[t][i].ts <= ts

\* A source that reached the threshold in the window up to its newest packet
\* has been reported since a window before its last one, whatever it sent
\* before, however late some of it was, and whether or not a cooldown ran.
BurstReported ==
    \A t \in Tracks :
        sent[t] # << >> /\ MeasureOf(t, Between(t, Peak(t) - Window[t[1]], Peak(t),
                                               Len(sent[t]))) >= Threshold[t[1]]
            => \E al \in alerts : al.track = t /\ al.at > Newest(t).ts - Window[t[1]]

\* "> 2x threshold -> high" (detection/port_scan.py:35, brute_force.py:42): a
\* source whose window holds more than twice the threshold has been reported
\* as high within the last window.
EscalatesToHigh ==
    \A t \in {u \in Tracks : u[1] \in {"port_scan", "brute_force"}} :
        Measure(t[1], windows[t]) > 2 * Threshold[t[1]]
            => \E al \in alerts : /\ al.track = t
                                  /\ al.sev = "high"
                                  /\ al.at > Newest(t).ts - Window[t[1]]

\* A source reported by count really sent as much as the threshold in one
\* window (lateness apart).  One reported by deviation has been reported by
\* count before: "The detector needs a minimum baseline of MIN_PACKETS
\* observations before it starts alerting" (detection/syn_flood.py:82).
AlertJustified ==
    \A al \in alerts :
        /\ al.by = "count" =>
              MeasureOf(al.track, Between(al.track, al.at - Window[al.track[1]] - MaxLate,
                                          al.at + MaxLate, al.seen))
                  >= Threshold[al.track[1]]
        /\ al.by = "deviation" =>
              \E first \in alerts : /\ first.track = al.track
                                    /\ first.by = "count"
                                    /\ first.seen < al.seen
=============================================================================
