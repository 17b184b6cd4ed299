-------------------------------- MODULE Braid --------------------------------
(***************************************************************************)
(* Two parties that share a secret run the ML-KEM Braid                    *)
(* (src/ratchet/braid).  A message can be handed to its receiver at any    *)
(* time, any number of times or never; once both parties have left its     *)
(* epoch, only if it is one of those the network may hold that long.       *)
(***************************************************************************)
EXTENDS BraidState

CONSTANTS
    Alice, Bob,     \* Alice generates the first key pair
    Shared,         \* the secret both authenticators start from
    MaxEpoch,       \* bound on the epochs that are started
    Lost,           \* <<type, index>> of the chunks that may never arrive
    Late            \* <<type, index>> of the messages that may still arrive
                    \* when both parties have left their epoch

ASSUME PartiesAssumption == Alice /= Bob /\ MaxEpoch \in Nat

\* Chunks in each type of message that carries some
ChunksOf == [Hdr |-> HeaderChunks, Ek |-> EkChunks, EkCt1Ack |-> EkChunks,
             Ct1 |-> Ct1Chunks, Ct2 |-> Ct2Chunks]

ASSUME LostAssumption ==
    \A typ \in DOMAIN ChunksOf :
        ChunksOf[typ] <=
            Cardinality({i \in 0 .. IndexSpace - 1 : <<typ, i>> \notin Lost})

VARIABLES
    braid,      \* braid[p]: the BraidScka of p
    drawn,      \* drawn[p]: key pairs and encapsulations p has drawn
    wire,       \* the messages sent that may still arrive
    outputs,    \* outputs[p]: the keys p has emitted
    failed      \* errors receive has returned

vars == <<braid, drawn, wire, outputs, failed>>

Party == {Alice, Bob}

Peer(p) == IF p = Alice THEN Bob ELSE Alice

Kind(msg) == <<msg.typ, msg.chunk.idx>>

\* What the network keeps of the messages w when the parties are at braids b
Kept(w, b) ==
    {m \in w : (\E p \in Party : b[p].epoch <= m.msg.epoch)
                    \/ Kind(m.msg) \in Late}

Init ==
    /\ braid = [p \in Party |-> IF p = Alice THEN init_alice(Shared)
                                             ELSE init_bob(Shared)]
    /\ drawn = [p \in Party |-> 0]
    /\ wire = {}
    /\ outputs = [p \in Party |-> <<>>]
    /\ failed = {}

Send(p) ==
    LET r == send(braid[p], <<p, drawn[p] + 1>>)
    IN  /\ braid[p].agent.at = "KeysUnsampled" => braid[p].epoch <= MaxEpoch
        /\ braid' = [braid EXCEPT ![p] = r.st]
        /\ drawn' = [drawn EXCEPT ![p] = IF Draws(braid[p]) THEN @ + 1 ELSE @]
        /\ wire' = wire \cup {[from |-> p, msg |-> r.msg]}
        /\ UNCHANGED <<outputs, failed>>

Receive(p, msg) ==
    LET r == receive(braid[p], msg)
    IN  /\ braid' = [braid EXCEPT ![p] = r.st]
        /\ outputs' = [outputs EXCEPT ![p] = @ \o [i \in DOMAIN r.out |->
                                                      r.out[i].key]]
        /\ failed' = failed \cup ({r.err} \ {"ok"})
        /\ wire' = Kept(wire, braid')
        /\ UNCHANGED drawn

Incoming(p) == {m.msg : m \in {w \in wire : w.from = Peer(p)}}

Next ==
    \E p \in Party :
        \/ Send(p)
        \/ \E msg \in Incoming(p) : Receive(p, msg)

\* The network delivers what is not lost; a lost chunk may still arrive.
Deliverable(p) ==
    {msg \in Incoming(p) : Kind(msg) \notin Lost}

Deliver(p) == \E msg \in Deliverable(p) : Receive(p, msg)

Fairness == \A p \in Party : WF_vars(Send(p)) /\ WF_vars(Deliver(p))

Spec == Init /\ [][Next]_vars /\ Fairness
------------------------------------------------------------------------------
(* Properties *)

Drawn == Party \X (1 .. MaxEpoch)

\* The keys send and receive can derive
KemKeys == {kdf_ok(<<ek, m>>, e) : ek \in Drawn, m \in Drawn,
                                   e \in 1 .. MaxEpoch}

Agreement == INSTANCE KeyAgreement WITH Keys <- KemKeys

\* The Braid implements the key agreement: both sides emit the same fresh key
\* for every epoch, none is skipped or repeated, and the encapsulator publishes
\* a key only after its peer has decapsulated it (complete_encapsulator).
ImplementsAgreement == Agreement!Spec

\* A decoder never holds chunks of two payloads: a late chunk of an earlier
\* epoch or of another part of the exchange is not mixed into the one being
\* reconstructed (Decoder::add_chunk, the epoch and type tests of receive).
ChunksAgree ==
    \A p \in Party :
        "dec" \in DOMAIN braid[p].agent =>
            \A c, d \in braid[p].agent.dec.got : c.of = d.of

\* receive accepts every message of the peer however late, early or often it
\* comes: the epochs stay within one of each other, and both authenticators
\* are updated with the same keys whenever a MAC is checked.
NoReceiveFails == failed = {}

\* At most one side holds a decapsulation key, the other one encapsulates to
\* it: the sides never generate key pairs for the same epoch.
OneDecapsulator ==
    ~ /\ braid[Alice].epoch = braid[Bob].epoch
      /\ \A p \in Party :
            "dk" \in DOMAIN braid[p].agent \/ braid[p].agent = KeysUnsampled

\* Every epoch that is started completes on both sides as long as enough
\* distinct chunk indices get through: no reachable pair of agent states waits
\* for each other (SentType against the Receive operators).
EpochsComplete ==
    \A e \in 1 .. MaxEpoch :
        <>(\A p \in Party : Len(outputs[p]) >= e)
=============================================================================
