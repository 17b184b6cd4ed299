---------------------------- MODULE DoubleRatchet ----------------------------
(***************************************************************************)
(* Two parties that share a secret talk over the classical Double Ratchet  *)
(* (src/ratchet/mod.rs).  The transport keeps every message ever sent and  *)
(* hands any of them to its receiver at any time: messages are lost,       *)
(* delayed, reordered and duplicated.  A message may also be damaged: the  *)
(* receiver is then handed a header and a ciphertext of different          *)
(* messages.                                                               *)
(***************************************************************************)
EXTENDS RatchetPair

CONSTANTS
    Alice, Bob,     \* initiator and responder
    Sk,             \* the shared secret of the handshake
    MaxSent,        \* bound on the messages a party sends
    MaxOverruns     \* bound on the failed calls on an exhausted sending chain

ASSUME PartyAssumption == Alice /= Bob
ASSUME MaxSentAssumption == MaxSent \in Nat

VARIABLES
    ratchet,    \* ratchet[p]: the DoubleRatchetState of p
    generated,  \* generated[p]: key pairs p has generated since its first
    wire,       \* every message ever sent
    sent,       \* sent[p]: number of messages p has sent
    delivered   \* delivered[p][k]: times decrypt returned the k-th plaintext
                \* of p's peer

vars == <<ratchet, generated, wire, sent, delivered>>

Party == {Alice, Bob}

Peer(p) == IF p = Alice THEN Bob ELSE Alice

\* X25519Secret::generate never returns the same key twice
Fresh(p) == DhKey(p, generated[p] + 1)

Init ==
    /\ ratchet = [p \in Party |->
                    IF p = Alice
                    THEN init_alice(<<Sk>>, DhKey(Alice, 0), DhKey(Bob, 0))
                    ELSE init_bob(<<Sk>>, DhKey(Bob, 0))]
    /\ generated = [p \in Party |-> 0]
    /\ wire = {}
    /\ sent = [p \in Party |-> 0]
    /\ delivered = [p \in Party |-> [k \in 1 .. MaxSent |-> 0]]

Encrypt(p) ==
    LET r == encrypt(ratchet[p], sent[p] + 1, Ad)
    IN  /\ sent[p] < MaxSent
        /\ r.err = "ok"
        /\ ratchet' = [ratchet EXCEPT ![p] = r.st]
        /\ wire' = wire \cup {[from |-> p, header |-> r.header, ct |-> r.ct]}
        /\ sent' = [sent EXCEPT ![p] = sent[p] + 1]
        /\ UNCHANGED <<generated, delivered>>

\* No chain to send on yet, or the counter is at its last value
EncryptFails(p) ==
    LET r == encrypt(ratchet[p], sent[p] + 1, Ad)
    IN  /\ r.err /= "ok"
        /\ r.err = "LimitExceeded" =>
              ratchet[p].cks[2] < U32Max + MaxOverruns
        /\ ratchet' = [ratchet EXCEPT ![p] = r.st]
        /\ UNCHANGED <<generated, wire, sent, delivered>>

\* What p can be handed: messages of its peer, possibly mixed up
Incoming(p) == {m \in wire : m.from = Peer(p)}

Decrypt(p, h, c) ==
    LET r == decrypt(ratchet[p], h, c, Ad, Fresh(p))
    IN  /\ r.err = "ok"
        /\ ratchet' = [ratchet EXCEPT ![p] = r.st]
        /\ generated' = IF r.st.dhs = ratchet[p].dhs THEN generated
                        ELSE [generated EXCEPT ![p] = generated[p] + 1]
        /\ delivered' = [delivered EXCEPT ![p] =
                            [delivered[p] EXCEPT ![c.pt] = delivered[p][c.pt] + 1]]
        /\ UNCHANGED <<wire, sent>>

DecryptFails(p, h, c) ==
    LET r == decrypt(ratchet[p], h, c, Ad, Fresh(p))
    IN  /\ r.err /= "ok"
        /\ ratchet' = [ratchet EXCEPT ![p] = r.st]
        /\ UNCHANGED <<generated, wire, sent, delivered>>

Next ==
    \E p \in Party :
        \/ Encrypt(p)
        \/ EncryptFails(p)
        \/ \E m1, m2 \in Incoming(p) : Decrypt(p, m1.header, m2.ct)
        \/ \E m1, m2 \in Incoming(p) : DecryptFails(p, m1.header, m2.ct)

Spec == Init /\ [][Next]_vars
------------------------------------------------------------------------------
(* Types *)

DhKeys == Party \X Nat
RootKeys == Seq({Sk} \cup SUBSET DhKeys)
ChainKeys == RootKeys \X Nat
U32 == 0 .. U32Max
Headers == [dh : DhKeys, pn : U32, n : U32]
Ciphertexts == [mk : ChainKeys, ad : {Ad} \X Headers, pt : 1 .. MaxSent]
Messages == [from : Party, header : Headers, ct : Ciphertexts]

\* MKSKIPPED is a map from <<ratchet key, message number>> to a message key
SkippedOK(mks) ==
    /\ mks = [k \in DOMAIN mks |-> mks[k]]
    /\ DOMAIN mks \subseteq DhKeys \X U32
    /\ IsFiniteSet(DOMAIN mks)
    /\ \A k \in DOMAIN mks : mks[k] \in ChainKeys

StateOK(st) ==
    /\ st = [dhs |-> st.dhs, dhr |-> st.dhr, rk |-> st.rk, cks |-> st.cks,
             ckr |-> st.ckr, ns |-> st.ns, nr |-> st.nr, pn |-> st.pn,
             mkskipped |-> st.mkskipped]
    /\ st.dhs \in DhKeys
    /\ st.dhr \in DhKeys \cup {None}
    /\ st.rk \in RootKeys
    /\ st.cks \in ChainKeys \cup {None}
    /\ st.ckr \in ChainKeys \cup {None}
    /\ st.ckr /= None => st.dhr /= None
    /\ st.ns \in U32
    /\ st.nr \in U32
    /\ st.pn \in U32
    /\ SkippedOK(st.mkskipped)

\* Every ratchet, message and counter has its type; in particular the u32
\* counters never leave their range (checked_inc, checked_add).
TypeOK ==
    /\ DOMAIN ratchet = Party
    /\ \A p \in Party : StateOK(ratchet[p])
    /\ generated \in [Party -> Nat]
    /\ wire \subseteq Messages
    /\ sent \in [Party -> 0 .. MaxSent]
    /\ delivered \in [Party -> [1 .. MaxSent -> Nat]]

------------------------------------------------------------------------------
(* Properties *)

\* No step of either side ever encrypts two messages under one message key:
\* key and nonce of the AEAD are both derived from it (aead_from_mk).
KeyUsedOnce ==
    \A m1, m2 \in wire : m1.ct.mk = m2.ct.mk => m1 = m2

\* skip_message_keys keeps the store of skipped keys within max_skip over the
\* whole session, whatever is lost and on however many chains.
SkippedBounded ==
    \A p \in Party : Cardinality(DOMAIN ratchet[p].mkskipped) <= MaxSkip

\* a is an earlier message key than b in the order a receiver derives them
Before(a, b) ==
    \/ Len(a[1]) < Len(b[1])
    \/ Len(a[1]) = Len(b[1]) /\ a[2] < b[2]

\* Forward secrecy: once decrypt has returned a message, the receiver holds
\* neither its key (MKSKIPPED) nor a chain key it could be derived from.
ConsumedKeysGone ==
    \A p \in Party : \A m \in Incoming(p) :
        delivered[p][m.ct.pt] > 0 =>
            /\ \A k \in DOMAIN ratchet[p].mkskipped :
                   ratchet[p].mkskipped[k] /= m.ct.mk
            /\ ratchet[p].ckr /= None
            /\ Before(m.ct.mk, ratchet[p].ckr)

\* The messages for p sent before m that p has not received
MissingBefore(p, m) ==
    {x \in Incoming(p) : x.ct.pt < m.ct.pt /\ delivered[p][x.ct.pt] = 0}

CounterExhausted(p) == ratchet[p].nr + MaxSkip > U32Max

\* A message that was sent and not yet received always decrypts when it
\* arrives, under the key it was sealed with, however late it is and whatever
\* was lost, reordered, duplicated or damaged before it; the only exception is
\* LimitExceeded, with more than max_skip earlier messages missing or the u32
\* receive counter about to overflow.
UndeliveredStaysReadable ==
    \A p \in Party : \A m \in Incoming(p) :
        delivered[p][m.ct.pt] = 0 =>
            LET r == ratchet_receive_key(ratchet[p], m.header, Fresh(p))
            IN  \/ r.err = "ok" /\ r.mk = m.ct.mk
                \/ /\ r.err = "LimitExceeded"
                   /\ \/ Cardinality(MissingBefore(p, m)) > MaxSkip
                      \/ CounterExhausted(p)

------------------------------------------------------------------------------
(* The inductive invariant behind KeyUsedOnce, ConsumedKeysGone and          *)
(* ImplementsChannel                                                         *)

\* Message keys that differ in their place in the order of derivation
Apart(a, b) == Before(a, b) \/ Before(b, a)

\* Within one state: the sending chain hangs off the root, the receiving chain
\* off an earlier one, and the stored keys are distinct keys the receiving
\* chain has passed.
ChainsOrdered(st) ==
    /\ st.cks /= None => st.cks[1] = st.rk
    /\ st.ckr /= None => Len(st.ckr[1]) < Len(st.rk)
    /\ \A k \in DOMAIN st.mkskipped :
           /\ st.ckr /= None
           /\ Before(st.mkskipped[k], st.ckr)
           /\ \A l \in DOMAIN st.mkskipped :
                 k /= l => Apart(st.mkskipped[k], st.mkskipped[l])

\* st can no longer produce the message key mk
Gone(st, mk) ==
    /\ st.ckr /= None
    /\ Before(mk, st.ckr)
    /\ \A k \in DOMAIN st.mkskipped : Apart(mk, st.mkskipped[k])

\* Alice's sending chains hang off roots of even length, Bob's off odd ones
Parity(p) == IF p = Alice THEN 0 ELSE 1

WireOrdered ==
    /\ \A m \in wire :
          /\ ratchet[m.from].cks /= None
          /\ Before(m.ct.mk, ratchet[m.from].cks)
          /\ Len(m.ct.mk[1]) % 2 = Parity(m.from)
          /\ m.ct.pt <= sent[m.from]
    /\ \A m1, m2 \in wire : m1 /= m2 =>
          /\ Apart(m1.ct.mk, m2.ct.mk)
          /\ m1.from = m2.from => m1.ct.pt /= m2.ct.pt

DeliveredGone ==
    \A p \in Party :
        /\ \A k \in 1 .. MaxSent :
              delivered[p][k] > 0 =>
                  delivered[p][k] = 1 /\ \E m \in Incoming(p) : m.ct.pt = k
        /\ \A m \in Incoming(p) :
              delivered[p][m.ct.pt] > 0 => Gone(ratchet[p], m.ct.mk)

\* Message keys are produced in one global order, by each side and on each
\* chain: a sender only moves forward in it, and what a receiver has used
\* lies behind it (ratchet_send_key, ratchet_receive_key, dh_ratchet).
KeysInOrder ==
    /\ \A p \in Party : /\ ChainsOrdered(ratchet[p])
                         /\ Len(ratchet[p].rk) % 2 = Parity(p)
    /\ WireOrdered
    /\ DeliveredGone

\* What every step of encrypt and decrypt preserves: the types, with the u32
\* counters in their range; the limit of skip_message_keys over the whole
\* session; and the order of the keys.
Inv == TypeOK /\ SkippedBounded /\ KeysInOrder

------------------------------------------------------------------------------
(* The inductive invariant behind UndeliveredStaysReadable                   *)

\* Slots are given out once, in the order of the plaintexts.
SentInOrder ==
    \A m1, m2 \in wire : m1.from = m2.from =>
        /\ Slot(m1) = Slot(m2) => m1 = m2
        /\ Earlier(Slot(m1), Slot(m2)) => m1.ct.pt < m2.ct.pt

\* The two sides never lose step: a message that is still to be delivered has
\* its key in the store, or lies ahead on the receiving chain or on the one the
\* next DH step opens (skip_message_keys, dh_ratchet).
InStep ==
    /\ \A m \in wire : HeaderTrue(m, ratchet[m.from], generated[m.from])
    /\ SentInOrder
    /\ \A p \in Party : Sender(ratchet[p], p, generated[p], wire)
    /\ \E p \in Party :
          Ahead(ratchet[p], ratchet[Peer(p)], p, generated[p], wire)
    /\ \A p \in Party : Stored(ratchet[p], Peer(p), wire)
    /\ \A p \in Party : \A m \in Incoming(p) :
          \/ delivered[p][m.ct.pt] > 0
          \/ Slot(m) \in DOMAIN ratchet[p].mkskipped
          \/ NotReached(ratchet[p], m, ratchet[Peer(p)].dhs)

\* Both sides stay in order and in step.
IInv == Inv /\ InStep

------------------------------------------------------------------------------
Channel == INSTANCE SecureChannel

\* The ratchet implements the channel: decrypt returns only plaintexts the
\* peer has encrypted, and each of them at most once.
ImplementsChannel == Channel!Spec
=============================================================================
