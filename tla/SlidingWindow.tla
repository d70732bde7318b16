---------------------------- MODULE SlidingWindow ----------------------------
(***************************************************************************)
(* The deques of time-stamped entries every rate detector keeps            *)
(* (detection/port_scan.py, brute_force.py, flood.py, syn_flood.py):       *)
(* entries are appended at the tail and expire at the head only.           *)
(***************************************************************************)
EXTENDS Integers, Sequences

Entries == [ts : Nat, port : Nat]

Fresh(dq, cutoff) == {i \in DOMAIN dq : dq[i].ts >= cutoff}

\* popleft while the head is older than the cutoff: what stays begins at the
\* first entry that is not, and keeps everything behind it, in whatever order
\* its times are.
Evicted(dq, cutoff) ==
    LET fresh == Fresh(dq, cutoff)
    IN  IF fresh = {} THEN << >>
        ELSE SubSeq(dq, CHOOSE i \in fresh : \A j \in fresh : i <= j, Len(dq))

\* The deque after entry e: append, then expire against the time of e.
Slid(dq, e, width) == Evicted(Append(dq, e), e.ts - width)
=============================================================================
