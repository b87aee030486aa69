--------------------------- MODULE BackoffHorizon ---------------------------
(* What TopicBackoff promises to the mesh logic of Gossip, without its       *)
(* circular buffer: for every peer the number of heartbeats it must still be *)
(* left alone.  A prune can only extend that number, up to the longest       *)
(* backoff the node ever uses; a heartbeat takes one off each of them.       *)
EXTENDS Integers

CONSTANTS
    Peers,      \* the peers the topic has seen
    MaxHorizon  \* the longest backoff, in heartbeats

VARIABLE remaining  \* heartbeats left for each peer

-----------------------------------------------------------------------------
TypeOK == remaining \in [Peers -> 0..MaxHorizon]

Init == remaining = [p \in Peers |-> 0]

Larger(a, b) == IF a < b THEN b ELSE a

(* A backoff of n heartbeats is requested for p; the later horizon wins.     *)
Extend(p, n) == remaining' = [remaining EXCEPT ![p] = Larger(@, n)]

(* One heartbeat goes by.                                                    *)
Tick == remaining' = [p \in Peers |-> Larger(remaining[p] - 1, 0)]

Next ==
    \/ \E p \in Peers, n \in 0..MaxHorizon : Extend(p, n)
    \/ Tick

Spec == Init /\ [][Next]_remaining
=============================================================================
