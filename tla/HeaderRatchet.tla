---------------------------- MODULE HeaderRatchet ----------------------------
(***************************************************************************)
(* Two parties talk over the Double Ratchet with encrypted headers         *)
(* (src/ratchet/header_encrypt/mod.rs), over the same transport as in      *)
(* DoubleRatchet: it keeps every message, hands any of them over at any    *)
(* time and may mix up a header and a ciphertext.  A party may lose its    *)
(* memory at any time and continue from the state it has serialized.       *)
(***************************************************************************)
EXTENDS HeaderRatchetState

CONSTANTS
    Alice, Bob, Sk, Ad,
    MaxSent,        \* bound on the messages a party sends
    MaxOverruns     \* bound on the failed calls on an exhausted sending chain

VARIABLES
    ratchet,    \* ratchet[p]: the HeaderEncryptState of p
    generated,  \* generated[p]: key pairs p has generated since its first
    wire,       \* every message ever sent
    sent,       \* sent[p]: number of messages p has sent
    delivered   \* delivered[p][k]: times p was handed its peer's k-th message

vars == <<ratchet, generated, wire, sent, delivered>>

Persist == INSTANCE StateCodec

Party == {Alice, Bob}

Peer(p) == IF p = Alice THEN Bob ELSE Alice

DhKey(p, i) == <<p, i>>
Fresh(p) == DhKey(p, generated[p] + 1)

Init ==
    /\ ratchet = [p \in Party |->
                    IF p = Alice
                    THEN he_init_alice(Sk, DhKey(Alice, 0), DhKey(Bob, 0))
                    ELSE he_init_bob(Sk, DhKey(Bob, 0))]
    /\ generated = [p \in Party |-> 0]
    /\ wire = {}
    /\ sent = [p \in Party |-> 0]
    /\ delivered = [p \in Party |-> [k \in 1 .. MaxSent |-> 0]]

Encrypt(p) ==
    LET r == he_encrypt(ratchet[p], sent[p] + 1, Ad)
    IN  /\ sent[p] < MaxSent
        /\ r.err = "ok"
        /\ ratchet' = [ratchet EXCEPT ![p] = r.st]
        /\ wire' = wire \cup {[from |-> p, enc |-> r.enc, ct |-> r.ct]}
        /\ sent' = [sent EXCEPT ![p] = @ + 1]
        /\ UNCHANGED <<generated, delivered>>

\* No chain to send on yet, or the counter is at its last value
EncryptFails(p) ==
    LET r == he_encrypt(ratchet[p], sent[p] + 1, Ad)
    IN  /\ r.err /= "ok"
        /\ r.err = "LimitExceeded" =>
              ratchet[p].cks[2] < U32Max + MaxOverruns
        /\ ratchet' = [ratchet EXCEPT ![p] = r.st]
        /\ UNCHANGED <<generated, wire, sent, delivered>>

Incoming(p) == {m \in wire : m.from = Peer(p)}

Decrypt(p, enc, c) ==
    LET r == he_decrypt(ratchet[p], enc, c, Ad, Fresh(p))
    IN  /\ r.err = "ok"
        /\ ratchet' = [ratchet EXCEPT ![p] = r.st]
        /\ generated' = [generated EXCEPT ![p] =
                            IF r.st.dhs = ratchet[p].dhs THEN @ ELSE @ + 1]
        /\ delivered' = [delivered EXCEPT ![p][c.pt] = @ + 1]
        /\ UNCHANGED <<wire, sent>>

DecryptFails(p, enc, c) ==
    LET r == he_decrypt(ratchet[p], enc, c, Ad, Fresh(p))
    IN  /\ r.err /= "ok"
        /\ ratchet' = [ratchet EXCEPT ![p] = r.st]
        /\ UNCHANGED <<generated, wire, sent, delivered>>

\* The state is lost and restored from its serialized form
Reload(p) ==
    LET r == Persist!restore(Persist!persist_blob("HeaderEncrypt", ratchet[p]))
    IN  /\ r.err = "ok"
        /\ ratchet' = [ratchet EXCEPT ![p] = r.st]
        /\ UNCHANGED <<generated, wire, sent, delivered>>

Next ==
    \E p \in Party :
        \/ Encrypt(p)
        \/ EncryptFails(p)
        \/ \E m1, m2 \in Incoming(p) : Decrypt(p, m1.enc, m2.ct)
        \/ \E m1, m2 \in Incoming(p) : DecryptFails(p, m1.enc, m2.ct)
        \/ Reload(p)

Spec == Init /\ [][Next]_vars
------------------------------------------------------------------------------
(* Properties *)

\* Header keys shift with the chains (dh_ratchet): two messages share a header
\* key exactly when they are on one sending chain, so an opened header always
\* tells the receiver the right chain, in both directions.
HeaderKeyPerChain ==
    \A m1, m2 \in wire :
        m1.enc.hk = m2.enc.hk <=>
            m1.from = m2.from /\ m1.enc.header.dh = m2.enc.header.dh

MissingBefore(p, m) ==
    {x \in Incoming(p) : x.ct.pt < m.ct.pt /\ delivered[p][x.ct.pt] = 0}

\* A message that was sent and not yet received always opens when it arrives:
\* one of the header keys of the receiver finds its chain, and the message key
\* is the one it was sealed with, however late it is and also when a whole
\* chain change was lost before it.  The only exception is InvalidLength with
\* more than max_skip earlier messages missing.
UndeliveredStaysReadable ==
    \A p \in Party : \A m \in Incoming(p) :
        delivered[p][m.ct.pt] = 0 =>
            LET r == receive_key(ratchet[p], m.enc, Fresh(p))
            IN  \/ r.err = "ok" /\ r.mk = m.ct.mk
                \/ /\ r.err = "InvalidLength"
                   /\ Cardinality(MissingBefore(p, m)) > MaxSkip

\* Every state either side can be in survives serialize and deserialize, and
\* no part of the serialized state that a torn write might leave is accepted.
ReloadLosesNothing ==
    \A p \in Party :
        LET blob == Persist!persist_blob("HeaderEncrypt", ratchet[p])
        IN  /\ Persist!restore(blob) = [err |-> "ok", st |-> ratchet[p]]
            /\ \A n \in 0 .. Len(blob) - 1 :
                  Persist!restore(SubSeq(blob, 1, n)).err /= "ok"

------------------------------------------------------------------------------
(* Refinement: with its headers open, this is the classical Double Ratchet   *)

\* The ratchet key of the peer's chain that a message key of p belongs to: the
\* peer's half of the last secret in its root
ChainDh(p, mk) == CHOOSE dh \in mk[1][Len(mk[1])] : dh[1] = Peer(p)

\* MKSKIPPED by ratchet key instead of header key.  The classical sending
\* chain stands still where this one moves on a counter at its last value.
ClassicalState(p) ==
    LET st == ratchet[p]
        SlotOf(k) == <<ChainDh(p, st.mkskipped[k]), k[2]>>
        slots == {SlotOf(k) : k \in DOMAIN st.mkskipped}
    IN  [dhs |-> st.dhs, dhr |-> st.dhr, rk |-> st.rk,
         cks |-> IF st.cks = None THEN None ELSE <<st.cks[1], st.ns>>,
         ckr |-> st.ckr, ns |-> st.ns, nr |-> st.nr, pn |-> st.pn,
         mkskipped |-> [s \in slots |->
            st.mkskipped[CHOOSE k \in DOMAIN st.mkskipped : SlotOf(k) = s]]]

Opened(m) ==
    [from |-> m.from, header |-> m.enc.header,
     ct |-> [m.ct EXCEPT !.ad = concat_ad(Ad, m.enc.header)]]

Classical == INSTANCE DoubleRatchet WITH
    ratchet <- [p \in Party |-> ClassicalState(p)],
    wire <- {Opened(m) : m \in wire},
    U32Max <- U32Max + MaxSkip

\* Header encryption changes what the transport sees and nothing else: seen
\* with open headers every step is a step of the classical Double Ratchet, so
\* what is proved of that one (each key used once, each message returned at
\* most once, consumed keys gone) holds here.  The classical counters are
\* taken large enough that its own overflow check never refuses.
ImplementsClassical == Classical!Spec
=============================================================================
