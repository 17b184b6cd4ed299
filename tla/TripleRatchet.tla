---------------------------- MODULE TripleRatchet ----------------------------
(***************************************************************************)
(* Two parties talk over the Triple Ratchet (src/ratchet/triple/mod.rs):   *)
(* the classical Double Ratchet and the post-quantum ratchet in parallel,  *)
(* the latter fed by the ML-KEM Braid, whose messages travel in the        *)
(* headers.  A message is sealed under the pair of both message keys.      *)
(*                                                                         *)
(* The transport keeps every message and hands any of them to its receiver *)
(* at any time.  A header and a ciphertext that do not belong together are *)
(* not tried here: open fails on them, and decrypt leaves the state alone. *)
(***************************************************************************)
EXTENDS DoubleRatchetState

CONSTANTS
    Alice, Bob, Sk, Ad,
    MaxSent,        \* bound on the messages a party sends
    HeaderChunks, EkChunks, Ct1Chunks, Ct2Chunks, IndexSpace,
    MaxSkipEpochs, SkipPerEpoch, MaxSkippedKeys

VARIABLES
    triple,     \* triple[p]: the TripleRatchetState of p
    generated,  \* generated[p]: ratchet key pairs p has generated
    drawn,      \* drawn[p]: KEM key pairs and encapsulations p has drawn
    wire,       \* every message ever sent
    sent,       \* sent[p]: number of messages p has sent
    delivered   \* delivered[p][k]: times p was handed its peer's k-th message

vars == <<triple, generated, drawn, wire, sent, delivered>>

Braid == INSTANCE BraidState
Spqr == INSTANCE SpqrState
Persist == INSTANCE StateCodec

Party == {Alice, Bob}

Peer(p) == IF p = Alice THEN Bob ELSE Alice

DhKey(p, i) == <<p, i>>
Fresh(p) == DhKey(p, generated[p] + 1)
FreshKem(p) == <<p, drawn[p] + 1>>

\* split_sk: independent secrets for the two ratchets
SkEc == <<Sk, "ec">>
SkPq == <<Sk, "pq">>

\* The handshake's post-quantum secret opens the first epoch
TripleState(classical, braid) ==
    [classical |-> classical, braid |-> braid,
     spqr |-> Spqr!advance_epoch(Spqr!init(SkPq), SkPq).st]

\* Mutant of kdf_hybrid: the classical key does not enter
PqOnly(ecMk, pqMk) == pqMk

kdf_hybrid(ecMk, pqMk) == <<ecMk, pqMk>>

Init ==
    /\ triple = [p \in Party |->
          IF p = Alice
          THEN TripleState(init_alice(<<SkEc>>, DhKey(Alice, 0), DhKey(Bob, 0)),
                           Braid!init_alice(SkPq))
          ELSE TripleState(init_bob(<<SkEc>>, DhKey(Bob, 0)),
                           Braid!init_bob(SkPq))]
    /\ generated = [p \in Party |-> 0]
    /\ drawn = [p \in Party |-> 0]
    /\ wire = {}
    /\ sent = [p \in Party |-> 0]
    /\ delivered = [p \in Party |-> [k \in 1 .. MaxSent |-> 0]]

\* encrypt: the Braid's turn, then a key of each ratchet.  Nothing is undone
\* when a later part fails.  (Braid!send never emits a key.)
triple_encrypt(t, pt, kem) ==
    LET b == Braid!send(t.braid, kem)
        c == ratchet_send_key(t.classical)
        s == Spqr!send_key(t.spqr)
        h == [classical |-> Header(t.classical.dhs, t.classical.pn,
                                   t.classical.ns),
              pq_epoch |-> t.spqr.sending.epoch, pq_n |-> t.spqr.sending.n,
              scka |-> b.msg]
    IN  IF c.err /= "ok"
        THEN [err |-> c.err, st |-> [t EXCEPT !.braid = b.st,
                                              !.classical = c.st]]
        ELSE [err |-> s.err,
              st |-> [braid |-> b.st, classical |-> c.st, spqr |-> s.st],
              header |-> h,
              ct |-> seal(kdf_hybrid(c.mk, s.mk), concat_ad(Ad, h), pt)]

\* Mutant of AdvanceFirst: the epoch always advances after the message
AdvanceAfter(spqr, h) == FALSE

\* A key from the Braid opens its epoch before the message key is derived if
\* the message is not in the current epoch, and after it otherwise.
AdvanceFirst(spqr, h) == spqr.receiving.epoch /= h.pq_epoch

\* Mutant of pending_scka: the key is forgotten
DropPending(spqr, h, out) == FALSE

pending_scka(spqr, h, out) == out /= None /\ ~AdvanceFirst(spqr, h)

\* The steps of decrypt in their order, each on the trial copies; the first
\* error ends it.  (A header on the wire always has a message of the Braid.)
triple_decrypt(t, h, ct, fresh) ==
    LET Fail(e) == [err |-> e, st |-> t]
        Advanced(spqr, out, due) ==
            IF due THEN Spqr!advance_epoch(spqr, out[1].key)
            ELSE [err |-> "ok", st |-> spqr]
        Keep(b, c, s) ==
            IF s.err /= "ok" THEN Fail(s.err)
            ELSE [err |-> "ok",
                  st |-> [classical |-> c.st, spqr |-> s.st, braid |-> b.st]]
        Unseal(b, c, s) ==
            IF s.err /= "ok" THEN Fail(s.err)
            ELSE IF ~open(kdf_hybrid(c.mk, s.mk), concat_ad(Ad, h), ct)
            THEN Fail("AeadAuthFailed")
            ELSE Keep(b, c, Advanced(s.st, b.out, pending_scka(t.spqr, h, b.out)))
        Keys(b, s, c) ==
            IF s.err /= "ok" THEN Fail(s.err)
            ELSE IF c.err /= "ok" THEN Fail(c.err)
            ELSE Unseal(b, c, Spqr!receive_key(s.st, h.pq_epoch, h.pq_n))
        Received(b) ==
            IF b.err /= "ok" THEN Fail(b.err)
            ELSE Keys(b, Advanced(t.spqr, b.out,
                                  b.out /= None /\ AdvanceFirst(t.spqr, h)),
                      ratchet_receive_key(t.classical, h.classical, fresh))
    IN  Received(Braid!receive(t.braid, h.scka))

Encrypt(p) ==
    LET r == triple_encrypt(triple[p], sent[p] + 1, FreshKem(p))
    IN  /\ sent[p] < MaxSent
        /\ r.err = "ok"
        /\ triple' = [triple EXCEPT ![p] = r.st]
        /\ drawn' = [drawn EXCEPT ![p] =
                        IF Braid!Draws(triple[p].braid) THEN @ + 1 ELSE @]
        /\ wire' = wire \cup {[from |-> p, header |-> r.header, ct |-> r.ct]}
        /\ sent' = [sent EXCEPT ![p] = @ + 1]
        /\ UNCHANGED <<generated, delivered>>

\* Bob before his first message: no classical chain to send on
EncryptFails(p) ==
    LET r == triple_encrypt(triple[p], sent[p] + 1, FreshKem(p))
    IN  /\ sent[p] < MaxSent
        /\ r.err /= "ok"
        /\ triple' = [triple EXCEPT ![p] = r.st]
        /\ drawn' = [drawn EXCEPT ![p] =
                        IF Braid!Draws(triple[p].braid) THEN @ + 1 ELSE @]
        /\ UNCHANGED <<generated, wire, sent, delivered>>

Incoming(p) == {m \in wire : m.from = Peer(p)}

\* Mutant of Decrypt: the trial copies are not kept
DecryptForgets(p, m) ==
    /\ triple_decrypt(triple[p], m.header, m.ct, Fresh(p)).err = "ok"
    /\ delivered' = [delivered EXCEPT ![p][m.ct.pt] = @ + 1]
    /\ UNCHANGED <<triple, generated, drawn, wire, sent>>

\* On an error decrypt leaves the state as it was.
Decrypt(p, m) ==
    LET Take(r) ==
            /\ triple' = [triple EXCEPT ![p] = r.st]
            /\ \/ /\ r.err = "ok"
                  /\ generated' = [generated EXCEPT ![p] =
                        IF r.st.classical.dhs = triple[p].classical.dhs
                        THEN @ ELSE @ + 1]
                  /\ delivered' = [delivered EXCEPT ![p][m.ct.pt] = @ + 1]
               \/ /\ r.err /= "ok"
                  /\ UNCHANGED <<generated, delivered>>
            /\ UNCHANGED <<drawn, wire, sent>>
    IN  Take(triple_decrypt(triple[p], m.header, m.ct, Fresh(p)))

Next ==
    \E p \in Party :
        \/ Encrypt(p)
        \/ EncryptFails(p)
        \/ \E m \in Incoming(p) : Decrypt(p, m)

Spec == Init /\ [][Next]_vars
------------------------------------------------------------------------------
(* Properties *)

\* No two messages are sealed under one hybrid key, although both directions
\* of an epoch run down the same post-quantum chain (advance_epoch).
HybridKeyUsedOnce ==
    \A m1, m2 \in wire : m1.ct.mk = m2.ct.mk => m1 = m2

\* The post-quantum ratchet is in the epoch of the Braid on each side, and the
\* side that is behind lacks only the last secret of the other one's root: the
\* keys the Braid emits enter both roots in one order (pending_scka).
RootsInStep ==
    /\ \A p \in Party :
          LET t == triple[p]
          IN  /\ t.spqr.next_epoch = t.braid.epoch + 1
              /\ t.spqr.receiving.epoch = t.braid.epoch
    /\ LET a == triple[Alice].spqr.root
           b == triple[Bob].spqr.root
       IN  a = b \/ a = SubSeq(b, 1, Len(b) - 1) \/ b = SubSeq(a, 1, Len(a) - 1)

MissingBefore(p, m) ==
    {x \in Incoming(p) : x.ct.pt < m.ct.pt /\ delivered[p][x.ct.pt] = 0}

Readable(p, m) ==
    triple_decrypt(triple[p], m.header, m.ct, Fresh(p)).err = "ok"

\* A message that was not yet received decrypts however late it is, as long as
\* its receiver has not left its post-quantum epoch and no more messages than
\* either limit allows are missing; in particular the first message of a new
\* epoch takes its receiver there.
ReadableUntilEpochEnds ==
    \A p \in Party : \A m \in Incoming(p) :
        /\ delivered[p][m.ct.pt] = 0
        /\ m.header.pq_epoch >= triple[p].spqr.receiving.epoch
        /\ Cardinality(MissingBefore(p, m)) <= MaxSkip
        /\ Cardinality(MissingBefore(p, m)) <= MaxSkippedKeys
        => Readable(p, m)

\* complete_encapsulator's comment: until the encapsulator hears of the new
\* epoch "both sides keep using the previous SPQR epoch so Triple message keys
\* match".  Then a transport that neither loses nor reorders anything never
\* delivers a message that does not decrypt.
InOrderReadable ==
    \A p \in Party : \A m \in Incoming(p) :
        (\A k \in 1 .. MaxSent : delivered[p][k] > 0 <=> k < m.ct.pt)
            => Readable(p, m)

\* A party that is restored from what it serialized has the state it lost:
\* the order of the fields, the presence bytes and the lengths of the three
\* nested states agree between serialize and deserialize in every state the
\* ratchets and the agent of the Braid go through.  (A restart is then no step
\* of its own.)
ReloadLosesNothing ==
    \A p \in Party :
        Persist!restore(Persist!persist_blob("Hybrid", triple[p])) =
            [err |-> "ok", st |-> triple[p]]

\* The header the receiver decodes is the one the sender put in, shown of the
\* last message of each side, with its message of the Braid and without: also
\* where the Braid has nothing to send or acknowledges without a chunk, for
\* which decode waives the length it asks of the other types.
HeadersParse ==
    \A m \in {x \in wire : x.ct.pt = sent[x.from]} :
        \A h \in {m.header, [m.header EXCEPT !.scka = Persist!None]} :
            Persist!triple_header_decode(Persist!triple_header_encode(h)) =
                [err |-> "ok", st |-> h]

\* What serialize and encode write is what deserialize and decode read, in
\* storage (ReloadLosesNothing) and on the wire (HeadersParse).
WrittenIsRead == ReloadLosesNothing /\ HeadersParse

Channel == INSTANCE SecureChannel

\* The Triple Ratchet implements the same channel as the classical one: only
\* what the peer encrypted is handed over, and each message at most once.
ImplementsChannel == Channel!Spec
=============================================================================
