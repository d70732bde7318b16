---------------------------- MODULE MCEnforcement ----------------------------
EXTENDS Enforcement

CONSTANTS a, b, c1, c2

AnyPort == [proto |-> "any", port |-> 0]
Ssh     == [proto |-> "tcp", port |-> 22]

MCServices == {AnyPort, Ssh}

\* The text of a is found in that of b, as 10.0.0.1 is in 10.0.0.10.
MCInText == [ip \in IPs |-> IF ip = a THEN IPs ELSE {ip}]

Symmetry == Permutations(Clients)

\* Races: a is raised by the detectors and blocked by hand, b by hand only.
NoWhitelist == {{}}
RaceAlerts  == {[ip |-> a, svc |-> Ssh, sev |-> "medium"]}
RaceBlocks  == [ip : {a, b}, perm : {TRUE}, ttl : {FALSE}]

\* Serial: every operation, on rules of both addresses.
SerialWhitelists == {{}, {b}}
SerialAlerts  == {[ip |-> a, svc |-> Ssh, sev |-> sev] : sev \in {"medium", "high"}}
SerialRules   == {[ip |-> b, svc |-> AnyPort, act |-> "DROP",
                   prio |-> 100, temp |-> TRUE, ttl |-> FALSE]}
SerialChanges == {[prio |-> 20, act |-> None, temp |-> None, ttl |-> FALSE],
                  [prio |-> None, act |-> None, temp |-> None, ttl |-> TRUE]}
SerialBlocks  == {[ip |-> b, perm |-> perm, ttl |-> TRUE] : perm \in BOOLEAN}

\* Expiry: two temporary blocks, one of which may be given more time.
ExpiryAlerts  == {[ip |-> a, svc |-> Ssh, sev |-> "medium"]}
ExpiryChanges == {[prio |-> None, act |-> None, temp |-> None, ttl |-> TRUE]}
ExpiryBlocks  == {[ip |-> b, perm |-> FALSE, ttl |-> TRUE]}

\* A permanent block made temporary, and a temporary one.
StuckChanges == {[prio |-> None, act |-> None, temp |-> TRUE, ttl |-> FALSE]}
StuckBlocks  == {[ip |-> a, perm |-> TRUE, ttl |-> FALSE],
                 [ip |-> b, perm |-> FALSE, ttl |-> TRUE]}

\* A rule of the operator's own for an address that is blocked, too.
DriftRules    == {[ip |-> a, svc |-> Ssh, act |-> "DROP", prio |-> 100,
                   temp |-> FALSE, ttl |-> FALSE]}
DriftBlocks   == {[ip |-> a, perm |-> TRUE, ttl |-> FALSE]}
==============================================================================
