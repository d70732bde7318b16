---------------------------- MODULE FirewallChain ----------------------------
(***************************************************************************)
(* The custom iptables chain as firewall/manager.py sees it: a sequence of *)
(* entries to which FirewallManager appends (-A), from which it deletes by *)
(* specification (-D <spec>) or by line number (-D <n>), which it lists    *)
(* (-L) and flushes (-F).  The operators are pure: a module that keeps the *)
(* chain in a variable says when each one is applied.                      *)
(***************************************************************************)
EXTENDS Integers, SequencesExt

CONSTANTS
    IPs,        \* source addresses
    Services,   \* (protocol, port) selectors a rule may carry
    InText      \* InText[ip]: the addresses whose text contains the text of ip

Protocols == {"any", "tcp", "udp", "icmp"}     \* "any": protocol is NULL
Ports     == 0..65535
NoPort    == 0                                 \* dest_port is NULL
Actions   == {"DROP", "ACCEPT"}

ASSUME ServicesAssumption ==
    Services \subseteq [proto : Protocols, port : Ports]

\* `ip in line` is a substring test: every address contains itself, and
\* 10.0.0.1 is found in a line for 10.0.0.10 too.
ASSUME InTextAssumption ==
    /\ InText \in [IPs -> SUBSET IPs]
    /\ \A ip \in IPs : ip \in InText[ip]

Selectors == [proto : Protocols, port : Ports]
Entries   == [ip : IPs, svc : Selectors, act : Actions]

\* The command line add_rule and remove_rule build from a rule: --dport is
\* only given when the protocol has ports.
SpecOf(r) ==
    [ip  |-> r.ip,
     svc |-> IF r.svc.proto \in {"tcp", "udp"}
             THEN r.svc ELSE [r.svc EXCEPT !.port = NoPort],
     act |-> r.act]

\* Mutant: no whitelist check in add_rule.
AddedRuleUnchecked(chain, r, whitelist) == Append(chain, SpecOf(r))

\* add_rule: refused for a whitelisted source, otherwise -A: the entry goes
\* to the end of the chain whatever the priority of the rule.
AddedRule(chain, r, whitelist) ==
    IF r.ip \in whitelist THEN chain ELSE Append(chain, SpecOf(r))

\* Mutant: remove_rule does not give the port back to -D.
RemovedRuleAnyPort(chain, r) ==
    RemoveFirst(chain, [SpecOf(r) EXCEPT !.svc.port = NoPort])

\* remove_rule: -D <spec> deletes the first entry with that specification,
\* and fails without effect when there is none.
RemovedRule(chain, r) == RemoveFirst(chain, SpecOf(r))

\* The line numbers remove_rule_by_ip collects from the listing.
LinesFor(chain, ip) == {n \in DOMAIN chain : chain[n].ip \in InText[ip]}

\* -D <chain> <n>: fails without effect when the chain has no line n.
RemovedLine(chain, n) ==
    IF n \in DOMAIN chain THEN RemoveAt(chain, n) ELSE chain

\* How many entries of the chain have a given specification.
CountOf(chain, e) == Cardinality({n \in DOMAIN chain : chain[n] = e})
=============================================================================
