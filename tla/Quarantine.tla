------------------------------ MODULE Quarantine ------------------------------
(***************************************************************************)
(* What an operator may rely on about the list of blocked addresses        *)
(* (blocked_ips), whatever sessions, locks and iptables do behind it.  An  *)
(* address is blocked alone, when it was free, and keeps the kind of its   *)
(* block until the block ends: by a request that names the address, when   *)
(* it is temporary and its time has come, or, for all temporary blocks     *)
(* together, by a reset of the data.                                       *)
(***************************************************************************)
CONSTANT IPs

VARIABLES
    status,     \* of each address
    named,      \* addresses that requests under way are about
    due         \* addresses of blocks whose expiry time has passed

vars == <<status, named, due>>

Init == status = [ip \in IPs |-> "free"]

Block(ip) ==
    /\ status[ip] = "free"
    /\ \E kind \in {"temporary", "permanent"} : status' = [status EXCEPT ![ip] = kind]

Lifted(ips) == [ip \in IPs |-> IF ip \in ips THEN "free" ELSE status[ip]]
Temporary   == {ip \in IPs : status[ip] = "temporary"}

Lift(ip) == ip \in named /\ status' = Lifted({ip})
Expire   == \E ips \in SUBSET (Temporary \cap due) : status' = Lifted(ips)
Reset    == status' = Lifted(Temporary)

\* Requests come and go and times pass as they like.
Next == (\E ip \in IPs : Block(ip) \/ Lift(ip)) \/ Expire \/ Reset

Spec == Init /\ [][Next]_vars
===============================================================================
