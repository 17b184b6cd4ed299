----------------------------- MODULE BraidState -----------------------------
(***************************************************************************)
(* The state of one side of the ML-KEM Braid, the continuous key agreement *)
(* under the Triple Ratchet, and the algorithms over it                    *)
(* (src/ratchet/braid).                                                    *)
(*                                                                         *)
(* One KEM exchange is an epoch.  Its header, encapsulation key and two    *)
(* ciphertext parts travel as erasure-coded chunks, one in each message.   *)
(*                                                                         *)
(* Secrets are symbolic: a KEM key pair and the randomness of an           *)
(* encapsulation are fresh names, the shared secret is the pair of the     *)
(* two, and the authenticator's root and MAC keys are the sequence of the  *)
(* <<epoch, key>> updates they are derived from.                           *)
(*                                                                         *)
(* receive returns [err, st, out]; err = "ok" is Ok(..), out is the Option *)
(* of an emitted key: None or <<[epoch, key]>>.                            *)
(***************************************************************************)
EXTENDS Integers, Sequences, FiniteSets

CONSTANTS
    HeaderChunks, EkChunks, Ct1Chunks, Ct2Chunks,
                    \* chunks that reconstruct each payload (k_chunks)
    IndexSpace      \* number of chunk indices (2^16 for the u16 index)

ASSUME ChunksAssumption ==
    {HeaderChunks, EkChunks, Ct1Chunks, Ct2Chunks} \subseteq 1 .. IndexSpace

None == <<>>

\* What is cut into chunks: an encapsulation key or its header, or a part of
\* the ciphertext of an encapsulation with randomness m
Payload(ek, m, mac) == [ek |-> ek, m |-> m, mac |-> mac]

NoChunk == [idx |-> -1, of |-> Payload(None, None, None)]

------------------------------------------------------------------------------
(* Erasure code (rs.rs): any k chunks with distinct indices reconstruct the *)
(* payload, and the sender's index wraps around                             *)

Encoder(payload) == [payload |-> payload, next |-> 0]

\* Encoder::next_chunk: the chunk, and the encoder after it
Chunk(enc) == [idx |-> enc.next, of |-> enc.payload]
NextChunk(enc) == [enc EXCEPT !.next = (enc.next + 1) % IndexSpace]

Decoder(k) == [k |-> k, got |-> {}]

add_chunk(dec, chunk) ==
    [dec EXCEPT !.got = {c \in dec.got : c.idx /= chunk.idx} \cup {chunk}]

has_message(dec) == Cardinality(dec.got) >= dec.k

\* Interpolation through the chunks of one payload
message(dec) == (CHOOSE c \in dec.got : TRUE).of

------------------------------------------------------------------------------
(* Authenticator (auth.rs) and incremental KEM (primitives/mlkem_inc.rs)    *)

update(auth, epoch, key) == Append(auth, <<epoch, key>>)

mac_hdr(auth, epoch, header) == <<"ekheader", auth, epoch, header>>
mac_ct(auth, epoch, ct1, ct2) == <<"ciphertext", auth, epoch, ct1, ct2>>

kdf_ok(ss, epoch) == <<"SCKA Key", ss, epoch>>

\* Encaps1 with randomness m on the header of key pair ek: the secret fixes
\* ct1 and the shared secret
EncapsSecret(ek, m) == <<ek, m>>
SharedSecret(secret) == secret

\* The ciphertext part that a payload carries, named by its encapsulation
CiphertextOf(payload) == <<payload.ek, payload.m>>

\* Decapsulating anything but the two parts of one encapsulation for dk gives
\* an unrelated secret (implicit rejection)
decapsulate(dk, ct1, ct2) ==
    IF ct1 = ct2 /\ ct1[1] = dk THEN SharedSecret(ct1)
    ELSE <<"rejected", dk, ct1, ct2>>

------------------------------------------------------------------------------
(* Agent states *)

KeysUnsampled == [at |-> "KeysUnsampled"]

KeysSampled(dk, enc) == [at |-> "KeysSampled", dk |-> dk, enc |-> enc]

HeaderSent(dk, enc, dec) ==
    [at |-> "HeaderSent", dk |-> dk, enc |-> enc, dec |-> dec]

Ct1Received(dk, ct1, enc) ==
    [at |-> "Ct1Received", dk |-> dk, ct1 |-> ct1, enc |-> enc]

EkSentCt1Received(dk, ct1, dec) ==
    [at |-> "EkSentCt1Received", dk |-> dk, ct1 |-> ct1, dec |-> dec]

NoHeaderReceived ==
    [at |-> "NoHeaderReceived", dec |-> Decoder(HeaderChunks)]

HeaderReceived(ek) ==
    [at |-> "HeaderReceived", ek |-> ek, dec |-> Decoder(EkChunks)]

Ct1Sampled(secret, ss, enc, dec) ==
    [at |-> "Ct1Sampled", secret |-> secret, ss |-> ss, enc |-> enc,
     dec |-> dec]

EkReceivedCt1Sampled(a, ek) ==
    [at |-> "EkReceivedCt1Sampled", secret |-> a.secret, ss |-> a.ss,
     enc |-> a.enc, ek |-> ek]

Ct1Acknowledged(a, dec) ==
    [at |-> "Ct1Acknowledged", secret |-> a.secret, ss |-> a.ss, dec |-> dec]

Ct2Sampled(ss, enc) == [at |-> "Ct2Sampled", ss |-> ss, enc |-> enc]

init_alice(shared) ==
    [epoch |-> 1, auth |-> update(<<>>, 1, shared), agent |-> KeysUnsampled]

init_bob(shared) ==
    [epoch |-> 1, auth |-> update(<<>>, 1, shared),
     agent |-> NoHeaderReceived]

------------------------------------------------------------------------------
(* Sending *)

\* Mutant of encaps1_if_needed: the authenticator is not updated
EncapsWithoutUpdate(st, m) ==
    LET secret == EncapsSecret(st.agent.ek, m)
    IN  [st EXCEPT !.agent = Ct1Sampled(secret,
                                 kdf_ok(SharedSecret(secret), st.epoch),
                                 Encoder(Payload(st.agent.ek, m, None)),
                                 st.agent.dec)]

\* In HeaderReceived: encapsulate, with fresh randomness m
encaps1_if_needed(st, m) ==
    LET secret == EncapsSecret(st.agent.ek, m)
        ss == kdf_ok(SharedSecret(secret), st.epoch)
    IN  [st EXCEPT !.auth = update(st.auth, st.epoch, ss),
                   !.agent = Ct1Sampled(secret, ss,
                                        Encoder(Payload(st.agent.ek, m, None)),
                                        st.agent.dec)]

\* In KeysUnsampled: generate the key pair fresh and start on its header
SampleKeys(st, fresh) ==
    [st EXCEPT !.agent =
        KeysSampled(fresh, Encoder(Payload(fresh, None,
                        mac_hdr(st.auth, st.epoch, fresh))))]

\* Mutant of SentType: Ct1Received does not acknowledge ct1
NoAck(at) ==
    CASE at = "KeysSampled" -> "Hdr"
      [] at \in {"HeaderSent", "Ct1Received"} -> "Ek"
      [] at \in {"Ct1Sampled", "EkReceivedCt1Sampled"} -> "Ct1"
      [] at = "Ct2Sampled" -> "Ct2"
      [] OTHER -> "None"

\* What the state the message is sent from puts in it
SentType(at) ==
    CASE at = "KeysSampled" -> "Hdr"
      [] at = "HeaderSent" -> "Ek"
      [] at = "Ct1Received" -> "EkCt1Ack"
      [] at \in {"Ct1Sampled", "EkReceivedCt1Sampled"} -> "Ct1"
      [] at = "Ct2Sampled" -> "Ct2"
      [] OTHER -> "None"

\* send draws fresh material in these two states only
Draws(st) == st.agent.at \in {"KeysUnsampled", "HeaderReceived"}

send(st, fresh) ==
    LET s == CASE st.agent.at = "KeysUnsampled" -> SampleKeys(st, fresh)
               [] st.agent.at = "HeaderReceived" -> encaps1_if_needed(st, fresh)
               [] OTHER -> st
        typ == SentType(s.agent.at)
    IN  IF typ = "None"
        THEN [st |-> s,
              msg |-> [epoch |-> s.epoch, typ |-> typ, chunk |-> NoChunk]]
        ELSE [st |-> [s EXCEPT !.agent.enc = NextChunk(s.agent.enc)],
              msg |-> [epoch |-> s.epoch, typ |-> typ,
                       chunk |-> Chunk(s.agent.enc)]]

------------------------------------------------------------------------------
(* Receiving: one operator for each agent state that reacts to a message *)

Ok(st) == [err |-> "ok", st |-> st, out |-> None]
Error(e, st) == [err |-> e, st |-> st, out |-> None]
Emit(st, epoch, key) ==
    [err |-> "ok", st |-> st, out |-> <<[epoch |-> epoch, key |-> key]>>]

\* Mutant of Current: the epoch of the message is not looked at
AnyEpoch(st, msg, types) == msg.typ \in types

Current(st, msg, types) == msg.epoch = st.epoch /\ msg.typ \in types

ReceiveKeysSampled(st, msg) ==
    IF ~Current(st, msg, {"Ct1"}) THEN Ok(st)
    ELSE Ok([st EXCEPT !.agent =
                HeaderSent(st.agent.dk,
                           Encoder(Payload(st.agent.dk, None, None)),
                           add_chunk(Decoder(Ct1Chunks), msg.chunk))])

ReceiveHeaderSent(st, msg) ==
    LET a == st.agent
        dec == add_chunk(a.dec, msg.chunk)
    IN  IF ~Current(st, msg, {"Ct1"}) THEN Ok(st)
        ELSE Ok([st EXCEPT !.agent =
                    IF has_message(dec)
                    THEN Ct1Received(a.dk, CiphertextOf(message(dec)), a.enc)
                    ELSE HeaderSent(a.dk, a.enc, dec)])

ReceiveCt1Received(st, msg) ==
    IF ~Current(st, msg, {"Ct2"}) THEN Ok(st)
    ELSE Ok([st EXCEPT !.agent =
                EkSentCt1Received(st.agent.dk, st.agent.ct1,
                                  add_chunk(Decoder(Ct2Chunks), msg.chunk))])

\* Mutant of NextEpoch: the side that decapsulated generates again
DecapsulateAgain(st, auth, ss) ==
    Emit([epoch |-> st.epoch + 1, auth |-> auth, agent |-> KeysUnsampled],
         st.epoch, ss)

\* The decapsulator turns to the next epoch, as its encapsulator
NextEpoch(st, auth, ss) ==
    Emit([epoch |-> st.epoch + 1, auth |-> auth, agent |-> NoHeaderReceived],
         st.epoch, ss)

\* The last part of the ciphertext: decapsulate, check its MAC under the
\* updated authenticator and emit the key
ReceiveEkSentCt1Received(st, msg) ==
    LET a == st.agent
        dec == add_chunk(a.dec, msg.chunk)
        p == message(dec)
        ct2 == CiphertextOf(p)
        ss == kdf_ok(decapsulate(a.dk, a.ct1, ct2), st.epoch)
        auth == update(st.auth, st.epoch, ss)
    IN  IF ~Current(st, msg, {"Ct2"}) THEN Ok(st)
        ELSE IF ~has_message(dec) THEN Ok([st EXCEPT !.agent.dec = dec])
        ELSE IF p.mac /= mac_ct(auth, st.epoch, a.ct1, ct2)
        THEN Error("AeadAuthFailed",
                   [st EXCEPT !.auth = auth, !.agent.dec = dec])
        ELSE NextEpoch(st, auth, ss)

ReceiveNoHeaderReceived(st, msg) ==
    LET dec == add_chunk(st.agent.dec, msg.chunk)
        p == message(dec)
    IN  IF ~Current(st, msg, {"Hdr"}) THEN Ok(st)
        ELSE IF ~has_message(dec) THEN Ok([st EXCEPT !.agent.dec = dec])
        ELSE IF p.mac /= mac_hdr(st.auth, st.epoch, p.ek)
        THEN Error("AeadAuthFailed", [st EXCEPT !.agent.dec = dec])
        ELSE Ok([st EXCEPT !.agent = HeaderReceived(p.ek)])

\* Encaps2 checks the reconstructed key against the hash in the header
encaps2(st, ek) ==
    LET s == st.agent.secret
    IN  IF ek /= s[1] THEN Error("InvalidPublicKey", st)
        ELSE Ok([st EXCEPT !.agent =
                    Ct2Sampled(st.agent.ss,
                        Encoder(Payload(s[1], s[2],
                                    mac_ct(st.auth, st.epoch, s, s))))])

\* In Ct1Sampled
recv_ek_or_ack(st, msg) ==
    LET dec == add_chunk(st.agent.dec, msg.chunk)
        s == [st EXCEPT !.agent.dec = dec]
        ack == msg.typ = "EkCt1Ack"
    IN  IF ~Current(st, msg, {"Ek", "EkCt1Ack"}) THEN Ok(st)
        ELSE IF has_message(dec) /\ ack THEN encaps2(s, message(dec).ek)
        ELSE IF has_message(dec)
        THEN Ok([st EXCEPT !.agent =
                    EkReceivedCt1Sampled(st.agent, message(dec).ek)])
        ELSE IF ack THEN Ok([st EXCEPT !.agent = Ct1Acknowledged(st.agent, dec)])
        ELSE Ok(s)

\* The peer has moved on: it has the key
complete_encapsulator(st, newEpoch) ==
    Emit([st EXCEPT !.epoch = newEpoch, !.agent = KeysUnsampled],
         st.epoch, st.agent.ss)

\* finish_encaps2 on an acknowledgement
ReceiveEkReceivedCt1Sampled(st, msg) ==
    IF Current(st, msg, {"EkCt1Ack", "Ct1Ack"}) THEN encaps2(st, st.agent.ek)
    ELSE IF msg.epoch = st.epoch + 1
    THEN complete_encapsulator(st, msg.epoch)
    ELSE Ok(st)

ReceiveCt1Acknowledged(st, msg) ==
    LET dec == add_chunk(st.agent.dec, msg.chunk)
        s == [st EXCEPT !.agent.dec = dec]
    IN  IF ~Current(st, msg, {"Ek", "EkCt1Ack"}) THEN Ok(st)
        ELSE IF has_message(dec) THEN encaps2(s, message(dec).ek)
        ELSE Ok(s)

\* Mutant of ReceiveCt2Sampled: any message tells that the peer has the key
CompleteEarly(st, msg) == complete_encapsulator(st, st.epoch + 1)

ReceiveCt2Sampled(st, msg) ==
    IF msg.epoch = st.epoch + 1 THEN complete_encapsulator(st, msg.epoch)
    ELSE Ok(st)

\* KeysUnsampled and HeaderReceived leave every message for later
receive(st, msg) ==
    LET at == st.agent.at
    IN  IF msg.epoch > st.epoch + 1 THEN Error("InvalidLength", st)
        ELSE CASE at = "KeysSampled" -> ReceiveKeysSampled(st, msg)
               [] at = "HeaderSent" -> ReceiveHeaderSent(st, msg)
               [] at = "Ct1Received" -> ReceiveCt1Received(st, msg)
               [] at = "EkSentCt1Received" -> ReceiveEkSentCt1Received(st, msg)
               [] at = "NoHeaderReceived" -> ReceiveNoHeaderReceived(st, msg)
               [] at = "Ct1Sampled" -> recv_ek_or_ack(st, msg)
               [] at = "EkReceivedCt1Sampled" ->
                     ReceiveEkReceivedCt1Sampled(st, msg)
               [] at = "Ct1Acknowledged" -> ReceiveCt1Acknowledged(st, msg)
               [] at = "Ct2Sampled" -> ReceiveCt2Sampled(st, msg)
               [] OTHER -> Ok(st)
=============================================================================
