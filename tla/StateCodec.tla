----------------------------- MODULE StateCodec -----------------------------
(***************************************************************************)
(* The serialized forms of the ratchet states, in which the engine keeps a *)
(* session in storage and restores it after a crash, and of the header of  *)
(* the Triple Ratchet.  The limits on skipped keys are written too, but    *)
(* they are constants of the model.                                        *)
(***************************************************************************)
EXTENDS Codec

Restored(st) == [err |-> "ok", st |-> st]
Refused == [err |-> "InvalidLength"]

\* The operator ? of the readers: go on with what r has read, or stop
Then(r, Continue(_)) == IF r.err /= "ok" THEN Refused ELSE Continue(r)

------------------------------------------------------------------------------
(* Classical Double Ratchet (ratchet/mod.rs) *)

ClassicalKinds == <<"flag", "flag", "fix", "flag", "flag",
                    "fix", "fix", "fix", "map">>

classical_serialize(st) ==
    WriteAll(ClassicalKinds, <<st.dhs, st.dhr, st.rk, st.cks, st.ckr,
                               st.ns, st.nr, st.pn, st.mkskipped>>)

\* Does not look for trailing data
classical_deserialize(data) ==
    LET State(r) ==
            LET v == r.vals
            IN  Restored([dhs |-> v[1], dhr |-> v[2], rk |-> v[3], cks |-> v[4],
                          ckr |-> v[5], ns |-> v[6], nr |-> v[7], pn |-> v[8],
                          mkskipped |-> v[9]])
    IN  Then(ReadAll(ClassicalKinds, data), State)

------------------------------------------------------------------------------
(* Header-encrypting ratchet (ratchet/header_encrypt/mod.rs) *)

HeKinds == <<"opt", "opt", "fix", "opt", "opt", "opt", "opt", "opt", "opt",
             "fix", "fix", "fix", "map">>

he_serialize(st) ==
    WriteAll(HeKinds, <<st.dhs, st.dhr, st.rk, st.cks, st.ckr, st.hks, st.hkr,
                        st.nhks, st.nhkr, st.ns, st.nr, st.pn, st.mkskipped>>)

\* Mutant of he_deserialize: the two next header keys are swapped
HeSwapped(data) ==
    LET State(r) ==
            LET v == r.vals
            IN  Restored([dhs |-> v[1], dhr |-> v[2], rk |-> v[3], cks |-> v[4],
                          ckr |-> v[5], hks |-> v[6], hkr |-> v[7],
                          nhks |-> v[9], nhkr |-> v[8], ns |-> v[10],
                          nr |-> v[11], pn |-> v[12], mkskipped |-> v[13]])
    IN  Then(Finish(ReadAll(HeKinds, data)), State)

he_deserialize(data) ==
    LET State(r) ==
            LET v == r.vals
            IN  Restored([dhs |-> v[1], dhr |-> v[2], rk |-> v[3], cks |-> v[4],
                          ckr |-> v[5], hks |-> v[6], hkr |-> v[7],
                          nhks |-> v[8], nhkr |-> v[9], ns |-> v[10],
                          nr |-> v[11], pn |-> v[12], mkskipped |-> v[13]])
    IN  Then(Finish(ReadAll(HeKinds, data)), State)

------------------------------------------------------------------------------
(* Sparse post-quantum ratchet (ratchet/spqr/mod.rs) *)

\* A chain is a presence byte and three values of fixed width (write_chain,
\* read_chain).
SpqrKinds == <<"fix", "fix", "opt", "opt", "map">>

spqr_serialize(s) ==
    WriteAll(SpqrKinds, <<s.root, s.next_epoch, s.sending, s.receiving,
                          s.skipped>>)

spqr_deserialize(data) ==
    LET State(r) ==
            LET v == r.vals
            IN  Restored([root |-> v[1], next_epoch |-> v[2], sending |-> v[3],
                          receiving |-> v[4], skipped |-> v[5]])
    IN  Then(Finish(ReadAll(SpqrKinds, data)), State)

------------------------------------------------------------------------------
(* ML-KEM Braid (ratchet/braid): the coders and the agent *)

\* The number of chunks follows from the payload.
encoder_encode(e) == <<e.next, e.payload>>

\* Mutant of encoder_decode: the index starts over
EncoderStartsOver(data) ==
    IF Len(data) /= 2 THEN Refused
    ELSE Restored([next |-> 0, payload |-> data[2]])

encoder_decode(data) ==
    IF Len(data) /= 2 THEN Refused
    ELSE Restored([next |-> data[1], payload |-> data[2]])

\* The chunks in the order of their indices, then the message if there are
\* enough of them
decoder_encode(d) ==
    WriteAll(<<"fix", "vec", "opt">>,
             <<d.k, SetToSeq(d.got),
               IF Cardinality(d.got) >= d.k
               THEN (CHOOSE c \in d.got : TRUE).of ELSE None>>)

decoder_decode(data) ==
    LET Decoder(r) == Restored([k |-> r.vals[1], got |-> ToSet(r.vals[2])])
        EndOf(r) == IF r.vals[3] /= None THEN Finish(r) ELSE r
    IN  Then(ReadAll(<<"fix", "vec", "opt">>, data),
             LAMBDA r : Then(EndOf(r), Decoder))

\* The tag Agent::write puts in front and the fields that follow it
AgentTag ==
    [KeysUnsampled |-> 0, KeysSampled |-> 1, HeaderSent |-> 2,
     Ct1Received |-> 3, EkSentCt1Received |-> 4, NoHeaderReceived |-> 5,
     HeaderReceived |-> 6, Ct1Sampled |-> 7, EkReceivedCt1Sampled |-> 8,
     Ct1Acknowledged |-> 9, Ct2Sampled |-> 10]

AgentWrites ==
    [KeysUnsampled |-> <<>>,
     KeysSampled |-> <<"dk", "enc">>,
     HeaderSent |-> <<"dk", "enc", "dec">>,
     Ct1Received |-> <<"dk", "ct1", "enc">>,
     EkSentCt1Received |-> <<"dk", "ct1", "dec">>,
     NoHeaderReceived |-> <<"dec">>,
     HeaderReceived |-> <<"ek", "dec">>,
     Ct1Sampled |-> <<"secret", "enc", "dec", "ss">>,
     EkReceivedCt1Sampled |-> <<"secret", "ek", "enc", "ss">>,
     Ct1Acknowledged |-> <<"secret", "dec", "ss">>,
     Ct2Sampled |-> <<"enc", "ss">>]

\* A coder is written as a slice of its own behind its length.
FieldKind(f) == IF f \in {"enc", "dec"} THEN "vec" ELSE "fix"

FieldBytes(f, v) ==
    CASE f = "enc" -> encoder_encode(v)
      [] f = "dec" -> decoder_encode(v)
      [] OTHER -> v

FieldValue(f, v) ==
    CASE f = "enc" -> encoder_decode(v)
      [] f = "dec" -> decoder_decode(v)
      [] OTHER -> Restored(v)

agent_write(a) ==
    LET fields == AgentWrites[a.at]
    IN  <<AgentTag[a.at]>> \o
        WriteAll([i \in DOMAIN fields |-> FieldKind(fields[i])],
                 [i \in DOMAIN fields |-> FieldBytes(fields[i], a[fields[i]])])

\* Agent::read: the state behind each tag from 0 on, and the fields it takes
AgentReads ==
    <<<<"KeysUnsampled", <<>>>>,
      <<"KeysSampled", <<"dk", "enc">>>>,
      <<"HeaderSent", <<"dk", "enc", "dec">>>>,
      <<"Ct1Received", <<"dk", "ct1", "enc">>>>,
      <<"EkSentCt1Received", <<"dk", "ct1", "dec">>>>,
      <<"NoHeaderReceived", <<"dec">>>>,
      <<"HeaderReceived", <<"ek", "dec">>>>,
      <<"Ct1Sampled", <<"secret", "enc", "dec", "ss">>>>,
      <<"EkReceivedCt1Sampled", <<"secret", "ek", "enc", "ss">>>>,
      <<"Ct1Acknowledged", <<"secret", "dec", "ss">>>>,
      <<"Ct2Sampled", <<"enc", "ss">>>>>>

\* The agent behind its tag; nothing may follow it (deserialize_v3)
agent_read(data) ==
    LET at == AgentReads[data[1] + 1][1]
        fields == AgentReads[data[1] + 1][2]
        Value(f, r) ==
            FieldValue(f, r.vals[CHOOSE i \in DOMAIN fields : fields[i] = f])
        Agent(r) ==
            IF \E f \in ToSet(fields) : Value(f, r).err /= "ok" THEN Refused
            ELSE Restored([f \in {"at"} \cup ToSet(fields) |->
                              IF f = "at" THEN at ELSE Value(f, r).st])
    IN  IF data = <<>> THEN Refused
        ELSE IF data[1] + 1 \notin DOMAIN AgentReads THEN Refused
        ELSE Then(Finish(ReadAll([i \in DOMAIN fields |-> FieldKind(fields[i])],
                                 Tail(data))), Agent)

braid_serialize(b) == <<"VCBRAID3", b.epoch, b.auth>> \o agent_write(b.agent)

\* Blobs of the two older versions are not written by this code.
braid_deserialize(data) ==
    LET State(a) ==
            Restored([epoch |-> data[2], auth |-> data[3], agent |-> a.st])
    IN  IF Len(data) < 3 THEN Refused
        ELSE IF data[1] /= "VCBRAID3" THEN Refused
        ELSE Then(agent_read(SubSeq(data, 4, Len(data))), State)

------------------------------------------------------------------------------
(* Triple Ratchet (ratchet/triple/mod.rs): three slices *)

triple_serialize(t) ==
    WriteAll(<<"vec", "vec", "vec">>,
             <<classical_serialize(t.classical), spqr_serialize(t.spqr),
               braid_serialize(t.braid)>>)

\* Mutant of triple_deserialize: the receiving chain is restored as the
\* sending one as well
OneChainRestored(data) ==
    LET v == ReadAll(<<"vec", "vec", "vec">>, data).vals
        s == spqr_deserialize(v[2]).st
    IN  Restored([classical |-> classical_deserialize(v[1]).st,
                  spqr |-> [s EXCEPT !.sending = s.receiving],
                  braid |-> braid_deserialize(v[3]).st])

triple_deserialize(data) ==
    LET Slices(r) ==
            Then(classical_deserialize(r.vals[1]), LAMBDA c :
            Then(spqr_deserialize(r.vals[2]), LAMBDA s :
            Then(braid_deserialize(r.vals[3]), LAMBDA b :
                 Restored([classical |-> c.st, spqr |-> s.st, braid |-> b.st]))))
    IN  Then(Finish(ReadAll(<<"vec", "vec", "vec">>, data)), Slices)

------------------------------------------------------------------------------
(* LiveRatchet (engine/mod.rs): a byte tells the ratchets apart *)

RatchetTag == [Classical |-> 1, Hybrid |-> 2, HeaderEncrypt |-> 3]

persist_blob(kind, st) ==
    <<RatchetTag[kind]>> \o
        CASE kind = "Classical" -> classical_serialize(st)
          [] kind = "Hybrid" -> triple_serialize(st)
          [] kind = "HeaderEncrypt" -> he_serialize(st)

restore(data) ==
    IF data = <<>> THEN [err |-> "Storage"]
    ELSE CASE data[1] = 1 -> classical_deserialize(Tail(data))
           [] data[1] = 2 -> triple_deserialize(Tail(data))
           [] data[1] = 3 -> he_deserialize(Tail(data))
           [] OTHER -> [err |-> "Storage"]

------------------------------------------------------------------------------
(* The header of a Triple Ratchet message, with the Braid's message in it *)

BraidType == <<"None", "Hdr", "Ek", "EkCt1Ack", "Ct1Ack", "Ct1", "Ct2">>

TypeByte(typ) == (CHOOSE i \in DOMAIN BraidType : BraidType[i] = typ) - 1

\* The chunk is what is left of a message, and absent if nothing is.
AbsentChunk == [idx |-> -1, of |-> [ek |-> None, m |-> None, mac |-> None]]

braid_message_encode(m) ==
    <<m.epoch, TypeByte(m.typ)>>
        \o IF m.chunk = AbsentChunk THEN <<>> ELSE <<m.chunk>>

\* Mutant of braid_message_decode: a chunk is asked of every type
ChunkAlways(data) ==
    LET typ == BraidType[data[2] + 1]
    IN  IF Len(data) /= 3 THEN Refused
        ELSE Restored([epoch |-> data[1], typ |-> typ, chunk |-> data[3]])

braid_message_decode(data) ==
    LET typ == BraidType[data[2] + 1]
        rest == SubSeq(data, 3, Len(data))
    IN  IF Len(data) < 2 THEN Refused
        ELSE IF data[2] + 1 \notin DOMAIN BraidType THEN Refused
        ELSE IF typ \notin {"None", "Ct1Ack"} /\ Len(rest) /= 1 THEN Refused
        ELSE Restored([epoch |-> data[1], typ |-> typ,
                       chunk |-> IF rest = <<>> THEN AbsentChunk ELSE rest[1]])

\* The message of the Braid is an option, though encrypt always puts one in.
triple_header_encode(h) ==
    <<h.classical, h.pq_epoch, h.pq_n>>
        \o IF h.scka = None THEN <<0>>
           ELSE <<1>> \o WriteField("vec", braid_message_encode(h.scka))

\* Without the presence byte the message is absent as well.
triple_header_decode(data) ==
    LET Header(scka) ==
            Restored([classical |-> data[1], pq_epoch |-> data[2],
                      pq_n |-> data[3], scka |-> scka])
    IN  IF Len(data) = 3 \/ (Len(data) = 4 /\ data[4] = 0) THEN Header(None)
        ELSE IF Len(data) < 5 \/ data[4] /= 1 THEN Refused
        ELSE Then(Finish(ReadAll(<<"vec">>, SubSeq(data, 5, Len(data)))), LAMBDA r :
             Then(braid_message_decode(r.vals[1]), LAMBDA m : Header(m.st)))
=============================================================================
