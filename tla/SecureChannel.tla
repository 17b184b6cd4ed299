---------------------------- MODULE SecureChannel ----------------------------
(***************************************************************************)
(* What a ratcheted session promises to the application: of the messages a *)
(* party has sent, each is handed to the other party at most once, in any  *)
(* order, and nothing else is ever handed over.                            *)
(***************************************************************************)
EXTENDS Integers

CONSTANTS
    Party,
    Peer(_),
    MaxSent     \* bound on the messages a party sends

VARIABLES
    sent,       \* sent[p]: number of messages p has sent
    delivered   \* delivered[p][k]: times p was handed its peer's k-th message

vars == <<sent, delivered>>

Init ==
    /\ sent = [p \in Party |-> 0]
    /\ delivered = [p \in Party |-> [k \in 1 .. MaxSent |-> 0]]

Send(p) ==
    /\ sent[p] < MaxSent
    /\ sent' = [sent EXCEPT ![p] = sent[p] + 1]
    /\ UNCHANGED delivered

Deliver(p, k) ==
    /\ k <= sent[Peer(p)]
    /\ delivered[p][k] = 0
    /\ delivered' = [delivered EXCEPT ![p] = [delivered[p] EXCEPT ![k] = 1]]
    /\ UNCHANGED sent

Next == \E p \in Party : Send(p) \/ \E k \in 1 .. MaxSent : Deliver(p, k)

Spec == Init /\ [][Next]_vars
=============================================================================
