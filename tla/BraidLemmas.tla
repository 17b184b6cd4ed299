----------------------------- MODULE BraidLemmas -----------------------------
(***************************************************************************)
(* What one side of the ML-KEM Braid sends, and what it does with the      *)
(* messages of its peer, in a given epoch: the lemmas behind BraidProofs.  *)
(*                                                                         *)
(* The argument: a party draws once in each epoch, so the secrets, the     *)
(* authenticator and the payloads of an epoch are determined by its        *)
(* number; a message on the wire carries the payload of its own epoch,     *)
(* however old it is; and the parties are in one epoch, in complementary   *)
(* roles, or the decapsulator is one ahead of a peer that has sent all of  *)
(* its ciphertext.                                                         *)
(***************************************************************************)
EXTENDS Braid, TLAPS

------------------------------------------------------------------------------
(* What an epoch determines *)

\* The decapsulator and the encapsulator of epoch e
Leader(e) == Agreement!Leader(e)
Follower(e) == Agreement!Follower(e)

\* The key pair, the encapsulation and the key of epoch e
Ek(e) == <<Leader(e), e>>
Secret(e) == <<Ek(e), <<Follower(e), e>>>>
Key(e) == kdf_ok(Secret(e), e)

\* The authenticator at the start of epoch e, and the keys of the first n epochs
Auth(e) == [i \in 1 .. e |-> IF i = 1 THEN <<1, Shared>> ELSE <<i - 1, Key(i - 1)>>]
KeysTo(n) == [i \in 1 .. n |-> Key(i)]

\* The payloads of epoch e
Hdr(e) == Payload(Ek(e), None, mac_hdr(Auth(e), e, Ek(e)))
EkPart(e) == Payload(Ek(e), None, None)
Ct1(e) == Payload(Ek(e), <<Follower(e), e>>, None)
Ct2(e) == Payload(Ek(e), <<Follower(e), e>>,
                  mac_ct(Auth(e + 1), e, Secret(e), Secret(e)))

------------------------------------------------------------------------------
(* The inductive invariant *)

\* The payload a chunk of a message belongs to
Carries(msg) ==
    /\ msg.epoch \in Nat \ {0}
    /\ msg.typ = "Hdr" => msg.chunk.of = Hdr(msg.epoch)
    /\ msg.typ \in {"Ek", "EkCt1Ack"} => msg.chunk.of = EkPart(msg.epoch)
    /\ msg.typ = "Ct1" => msg.chunk.of = Ct1(msg.epoch)
    /\ msg.typ = "Ct2" => msg.chunk.of = Ct2(msg.epoch)

Encodes(enc, payload) == enc = [payload |-> payload, next |-> enc.next]

Holds(dec, payload) ==
    /\ dec = [k |-> dec.k, got |-> dec.got]
    /\ \A c \in dec.got : c.of = payload

\* The agent a of the decapsulator of epoch e
LeaderAgent(a, e) ==
    \/ a.at = "KeysUnsampled" /\ a = KeysUnsampled
    \/ /\ a.at = "KeysSampled"
       /\ a = KeysSampled(Ek(e), a.enc) /\ Encodes(a.enc, Hdr(e))
    \/ /\ a.at = "HeaderSent"
       /\ a = HeaderSent(Ek(e), a.enc, a.dec)
       /\ Encodes(a.enc, EkPart(e)) /\ Holds(a.dec, Ct1(e))
    \/ /\ a.at = "Ct1Received"
       /\ a = Ct1Received(Ek(e), Secret(e), a.enc) /\ Encodes(a.enc, EkPart(e))
    \/ /\ a.at = "EkSentCt1Received"
       /\ a = EkSentCt1Received(Ek(e), Secret(e), a.dec) /\ Holds(a.dec, Ct2(e))

\* The agent a of the encapsulator of epoch e
FollowerAgent(a, e) ==
    \/ /\ a.at = "NoHeaderReceived"
       /\ a = [at |-> "NoHeaderReceived", dec |-> a.dec] /\ Holds(a.dec, Hdr(e))
    \/ /\ a.at = "HeaderReceived"
       /\ a = [at |-> "HeaderReceived", ek |-> Ek(e), dec |-> a.dec]
       /\ Holds(a.dec, EkPart(e))
    \/ /\ a.at = "Ct1Sampled"
       /\ a = Ct1Sampled(Secret(e), Key(e), a.enc, a.dec)
       /\ Encodes(a.enc, Ct1(e)) /\ Holds(a.dec, EkPart(e))
    \/ /\ a.at = "EkReceivedCt1Sampled"
       /\ a = [at |-> "EkReceivedCt1Sampled", secret |-> Secret(e),
               ss |-> Key(e), enc |-> a.enc, ek |-> Ek(e)]
       /\ Encodes(a.enc, Ct1(e))
    \/ /\ a.at = "Ct1Acknowledged"
       /\ a = [at |-> "Ct1Acknowledged", secret |-> Secret(e), ss |-> Key(e),
               dec |-> a.dec]
       /\ Holds(a.dec, EkPart(e))
    \/ /\ a.at = "Ct2Sampled"
       /\ a = Ct2Sampled(Key(e), a.enc) /\ Encodes(a.enc, Ct2(e))

\* The encapsulator has not drawn yet.
Early(a) == a.at \in {"NoHeaderReceived", "HeaderReceived"}

\* The state st of the decapsulator of epoch e, which has drawn d times
LeaderAt(st, d, e) ==
    /\ st = [epoch |-> e, auth |-> Auth(e), agent |-> st.agent]
    /\ LeaderAgent(st.agent, e)
    /\ d = IF st.agent.at = "KeysUnsampled" THEN e - 1 ELSE e
    /\ st.agent.at /= "KeysUnsampled" => e <= MaxEpoch

FollowerAt(st, d, e) ==
    /\ st = [epoch |-> e, auth |-> IF Early(st.agent) THEN Auth(e) ELSE Auth(e + 1),
             agent |-> st.agent]
    /\ FollowerAgent(st.agent, e)
    /\ d = IF Early(st.agent) THEN e - 1 ELSE e

\* Both parties are in epoch e.
Together(e) ==
    /\ LeaderAt(braid[Leader(e)], drawn[Leader(e)], e)
    /\ FollowerAt(braid[Follower(e)], drawn[Follower(e)], e)
    /\ outputs[Leader(e)] = KeysTo(e - 1)
    /\ outputs[Follower(e)] = KeysTo(e - 1)

\* The decapsulator of epoch e has decapsulated; its peer has to learn of it.
Apart(e) ==
    /\ FollowerAt(braid[Leader(e)], drawn[Leader(e)], e + 1)
    /\ braid[Leader(e)].agent = NoHeaderReceived
    /\ FollowerAt(braid[Follower(e)], drawn[Follower(e)], e)
    /\ braid[Follower(e)].agent.at = "Ct2Sampled"
    /\ e <= MaxEpoch
    /\ outputs[Leader(e)] = KeysTo(e)
    /\ outputs[Follower(e)] = KeysTo(e - 1)

\* A message w on the wire: not ahead of its sender, who is done with the
\* epoch once it has sent the second part of the ciphertext.
Sound(w, b) ==
    /\ Carries(w.msg)
    /\ w.from \in Party
    /\ w.msg.epoch <= b[w.from].epoch
    /\ w.msg.typ = "Ct2" /\ w.msg.epoch = b[w.from].epoch
          => b[w.from].agent.at = "Ct2Sampled"

IInv ==
    /\ braid = [p \in Party |-> braid[p]]
    /\ drawn = [p \in Party |-> drawn[p]]
    /\ outputs = [p \in Party |-> outputs[p]]
    /\ \E e \in Nat \ {0} : Together(e) \/ Apart(e)
    /\ \A w \in wire : Sound(w, braid)
    /\ failed = {}

------------------------------------------------------------------------------
(* The operators of an epoch *)

(***************************************************************************)
(* The roles alternate, and the two parties always have different ones.    *)
(***************************************************************************)
LEMMA RolesAlternate ==
    ASSUME NEW e \in Nat \ {0}
    PROVE  /\ Leader(e) \in Party /\ Follower(e) \in Party
           /\ Leader(e) /= Follower(e)
           /\ Party = {Leader(e), Follower(e)}
           /\ Leader(e + 1) = Follower(e) /\ Follower(e + 1) = Leader(e)
           /\ Peer(Leader(e)) = Follower(e) /\ Peer(Follower(e)) = Leader(e)
<1>1. e % 2 = 1 <=> (e + 1) % 2 /= 1
  OBVIOUS
<1>2. QED BY <1>1, PartiesAssumption
          DEF Leader, Follower, Agreement!Leader, Agreement!Follower, Party, Peer

(***************************************************************************)
(* The payloads of one epoch name its key pair and its encapsulation.      *)
(***************************************************************************)
LEMMA PayloadFields ==
    ASSUME NEW e
    PROVE  /\ Hdr(e).ek = Ek(e) /\ EkPart(e).ek = Ek(e)
           /\ Hdr(e).mac = mac_hdr(Auth(e), e, Ek(e))
           /\ CiphertextOf(Ct1(e)) = Secret(e) /\ CiphertextOf(Ct2(e)) = Secret(e)
           /\ Ct2(e).mac = mac_ct(Auth(e + 1), e, Secret(e), Secret(e))
BY DEF Hdr, EkPart, Ct1, Ct2, Payload, CiphertextOf, Secret

(***************************************************************************)
(* update takes the authenticator of an epoch to that of the next one.     *)
(***************************************************************************)
LEMMA AuthUpdate ==
    ASSUME NEW e \in Nat \ {0}
    PROVE  update(Auth(e), e, Key(e)) = Auth(e + 1)
<1> DEFINE A(n) == [i \in 1 .. n |-> IF i = 1 THEN <<1, Shared>>
                                              ELSE <<i - 1, Key(i - 1)>>]
<1>1. Len(A(e)) = e
  OBVIOUS
<1>2. Append(A(e), <<e, Key(e)>>) =
          [i \in 1 .. e + 1 |-> IF i = e + 1 THEN <<e, Key(e)>> ELSE A(e)[i]]
  BY <1>1
<1>3. QED BY <1>2 DEF update, Auth

\* The first epoch starts from the shared secret.
LEMMA AuthFirst == update(<<>>, 1, Shared) = Auth(1)
BY DEF update, Auth

\* Emitting the key of epoch e appends it to the keys before.
LEMMA KeysAppend ==
    ASSUME NEW e \in Nat \ {0}
    PROVE  /\ KeysTo(e) = Append(KeysTo(e - 1), Key(e))
           /\ Len(KeysTo(e - 1)) = e - 1 /\ Len(KeysTo(e)) = e
BY DEF KeysTo

\* The decapsulator of epoch e finds the key its peer has derived.
LEMMA DecapsulatesKey ==
    ASSUME NEW e
    PROVE  kdf_ok(decapsulate(Ek(e), Secret(e), Secret(e)), e) = Key(e)
BY DEF decapsulate, Secret, SharedSecret, Key

\* An encapsulation with the e-th draw of the encapsulator is that of epoch e.
LEMMA EncapsulatesKey ==
    ASSUME NEW e
    PROVE  /\ EncapsSecret(Ek(e), <<Follower(e), e>>) = Secret(e)
           /\ kdf_ok(SharedSecret(Secret(e)), e) = Key(e)
BY DEF EncapsSecret, SharedSecret, Secret, Key

\* The encapsulator holds no decapsulation key and will generate none.
LEMMA NoDecapsulationKey ==
    ASSUME NEW a, NEW e, FollowerAgent(a, e)
    PROVE  "dk" \notin DOMAIN a /\ a /= KeysUnsampled
<1>1. a /= KeysUnsampled
  <2>1. a.at \in {"NoHeaderReceived", "HeaderReceived", "Ct1Sampled",
                  "EkReceivedCt1Sampled", "Ct1Acknowledged", "Ct2Sampled"}
    BY Zenon DEF FollowerAgent
  <2>2. KeysUnsampled.at = "KeysUnsampled"
    BY DEF KeysUnsampled
  <2>3. a.at /= "KeysUnsampled"
    BY <2>1
  <2> QED BY <2>2, <2>3, Zenon
<1>2. ASSUME NEW dec, a = [at |-> "NoHeaderReceived", dec |-> dec]
      PROVE  "dk" \notin DOMAIN a
  BY <1>2
<1>3. ASSUME NEW ek, NEW dec, a = [at |-> "HeaderReceived", ek |-> ek, dec |-> dec]
      PROVE  "dk" \notin DOMAIN a
  BY <1>3
<1>4. ASSUME NEW secret, NEW ss, NEW enc, NEW dec, a = Ct1Sampled(secret, ss, enc, dec)
      PROVE  "dk" \notin DOMAIN a
  BY <1>4 DEF Ct1Sampled
<1>5. ASSUME NEW secret, NEW ss, NEW enc, NEW ek,
             a = [at |-> "EkReceivedCt1Sampled", secret |-> secret, ss |-> ss,
                  enc |-> enc, ek |-> ek]
      PROVE  "dk" \notin DOMAIN a
  BY <1>5
<1>6. ASSUME NEW secret, NEW ss, NEW dec,
             a = [at |-> "Ct1Acknowledged", secret |-> secret, ss |-> ss,
                  dec |-> dec]
      PROVE  "dk" \notin DOMAIN a
  BY <1>6
<1>7. ASSUME NEW ss, NEW enc, a = Ct2Sampled(ss, enc)
      PROVE  "dk" \notin DOMAIN a
  BY <1>7 DEF Ct2Sampled
<1> QED BY <1>1, <1>2, <1>3, <1>4, <1>5, <1>6, <1>7, Zenon DEF FollowerAgent

\* Whoever has a decoder has put chunks of one payload into it.
LEMMA DecoderOfOne ==
    ASSUME NEW a, NEW e, LeaderAgent(a, e) \/ FollowerAgent(a, e),
           "dec" \in DOMAIN a
    PROVE  \E payload : Holds(a.dec, payload)
<1>1. a /= KeysUnsampled
  BY DEF KeysUnsampled
<1>2. ASSUME NEW dk, NEW enc, a = KeysSampled(dk, enc) PROVE FALSE
  BY <1>2 DEF KeysSampled
<1>3. ASSUME NEW dk, NEW ct1, NEW enc, a = Ct1Received(dk, ct1, enc) PROVE FALSE
  BY <1>3 DEF Ct1Received
<1>4. ASSUME NEW secret, NEW ss, NEW enc, NEW ek,
             a = [at |-> "EkReceivedCt1Sampled", secret |-> secret, ss |-> ss,
                  enc |-> enc, ek |-> ek]
      PROVE  FALSE
  BY <1>4
<1>5. ASSUME NEW ss, NEW enc, a = Ct2Sampled(ss, enc) PROVE FALSE
  BY <1>5 DEF Ct2Sampled
<1>6. CASE LeaderAgent(a, e)
  BY <1>1, <1>2, <1>3, <1>6, Zenon DEF LeaderAgent
<1>7. CASE FollowerAgent(a, e)
  BY <1>4, <1>5, <1>7, Zenon DEF FollowerAgent
<1> QED BY <1>6, <1>7

(***************************************************************************)
(* A decoder that is given chunks of one payload holds only those, and     *)
(* reconstructs it.                                                        *)
(***************************************************************************)
LEMMA DecoderHolds ==
    ASSUME NEW dec, NEW chunk, NEW payload,
           Holds(dec, payload), chunk.of = payload
    PROVE  /\ Holds(add_chunk(dec, chunk), payload)
           /\ message(add_chunk(dec, chunk)) = payload
<1> DEFINE d == add_chunk(dec, chunk)
<1>1. /\ d = [k |-> d.k, got |-> d.got]
      /\ d.got = {c \in dec.got : c.idx /= chunk.idx} \cup {chunk}
  BY DEF Holds, add_chunk
<1> HIDE DEF d
<1>2. \A c \in d.got : c.of = payload
  BY <1>1 DEF Holds
<1>3. chunk \in d.got
  BY <1>1
<1>4. (CHOOSE c \in d.got : TRUE) \in d.got
  BY <1>3
<1>5. QED BY <1>1, <1>2, <1>4 DEF Holds, message, d

\* A fresh decoder holds nothing.
LEMMA DecoderEmpty ==
    ASSUME NEW k, NEW payload
    PROVE  Holds(Decoder(k), payload)
BY DEF Holds, Decoder

\* An encoder goes on with its payload, and cuts its chunks from it.
LEMMA EncoderEncodes ==
    ASSUME NEW enc, NEW payload, Encodes(enc, payload)
    PROVE  Encodes(NextChunk(enc), payload) /\ Chunk(enc).of = payload
BY DEF Encodes, NextChunk, Chunk

LEMMA EncoderFresh ==
    ASSUME NEW payload
    PROVE  Encodes(Encoder(payload), payload)
BY DEF Encodes, Encoder

------------------------------------------------------------------------------
(* Receiving *)

\* receive has returned normally, without a key, and leaves st.
Quiet(r, st) == r.err = "ok" /\ r.out = None /\ r.st = st

\* receive has emitted the key of epoch e and leaves st.
Emits(r, e, st) ==
    r.err = "ok" /\ r.out = <<[epoch |-> e, key |-> Key(e)]>> /\ r.st = st

\* What Ok, Emit and NextEpoch return
LEMMA Results ==
    ASSUME NEW st, NEW e
    PROVE  /\ Quiet(Ok(st), st)
           /\ Emits(Emit(st, e, Key(e)), e, st)
BY DEF Quiet, Emits, Ok, Emit

(***************************************************************************)
(* A message that is not ahead goes to the operator of the agent's state.  *)
(***************************************************************************)
LEMMA Dispatch ==
    ASSUME NEW st, NEW msg, ~(msg.epoch > st.epoch + 1)
    PROVE  /\ st.agent.at \in {"KeysUnsampled", "HeaderReceived"} =>
                 receive(st, msg) = Ok(st)
           /\ st.agent.at = "KeysSampled" =>
                 receive(st, msg) = ReceiveKeysSampled(st, msg)
           /\ st.agent.at = "HeaderSent" =>
                 receive(st, msg) = ReceiveHeaderSent(st, msg)
           /\ st.agent.at = "Ct1Received" =>
                 receive(st, msg) = ReceiveCt1Received(st, msg)
           /\ st.agent.at = "EkSentCt1Received" =>
                 receive(st, msg) = ReceiveEkSentCt1Received(st, msg)
           /\ st.agent.at = "NoHeaderReceived" =>
                 receive(st, msg) = ReceiveNoHeaderReceived(st, msg)
           /\ st.agent.at = "Ct1Sampled" =>
                 receive(st, msg) = recv_ek_or_ack(st, msg)
           /\ st.agent.at = "EkReceivedCt1Sampled" =>
                 receive(st, msg) = ReceiveEkReceivedCt1Sampled(st, msg)
           /\ st.agent.at = "Ct1Acknowledged" =>
                 receive(st, msg) = ReceiveCt1Acknowledged(st, msg)
           /\ st.agent.at = "Ct2Sampled" =>
                 receive(st, msg) = ReceiveCt2Sampled(st, msg)
BY Zenon DEF receive

(***************************************************************************)
(* The decapsulator of an epoch accepts whatever its peer has sent: it     *)
(* goes on in the epoch, or emits its key and starts on the next one.      *)
(***************************************************************************)
LEMMA LeaderReceives ==
    ASSUME NEW e \in Nat \ {0}, NEW d, NEW st, NEW msg,
           LeaderAt(st, d, e), Carries(msg), msg.epoch <= e
    PROVE  \E new :
             \/ Quiet(receive(st, msg), new) /\ LeaderAt(new, d, e)
             \/ /\ Emits(receive(st, msg), e, new)
                /\ FollowerAt(new, d, e + 1) /\ new.agent = NoHeaderReceived
                /\ e <= MaxEpoch /\ msg.typ = "Ct2" /\ msg.epoch = e
<1> DEFINE a == st.agent
<1>1. /\ st = [epoch |-> e, auth |-> Auth(e), agent |-> a] /\ st.epoch = e
      /\ LeaderAgent(a, e)
  BY DEF LeaderAt
<1>2. ~(msg.epoch > st.epoch + 1)
  BY <1>1 DEF Carries
<1>3. ASSUME receive(st, msg) = Ok(st)
      PROVE  Quiet(receive(st, msg), st) /\ LeaderAt(st, d, e)
  BY <1>3, Results
<1>4. ASSUME NEW b, receive(st, msg) = Ok([st EXCEPT !.agent = b]),
             LeaderAgent(b, e), b.at /= "KeysUnsampled", a.at /= "KeysUnsampled"
      PROVE  \E new : Quiet(receive(st, msg), new) /\ LeaderAt(new, d, e)
  <2> DEFINE new == [st EXCEPT !.agent = b]
  <2>1. new = [epoch |-> e, auth |-> Auth(e), agent |-> b]
    BY <1>1
  <2>2. LeaderAt(new, d, e)
    BY <1>4, <2>1 DEF LeaderAt
  <2>3. QED BY <1>4, <2>2, Results
<1> HIDE DEF a
<1>5. CASE a.at = "KeysUnsampled"
  BY <1>2, <1>3, <1>5, Dispatch DEF a
<1>6. CASE a.at = "KeysSampled"
  <2>1. receive(st, msg) = ReceiveKeysSampled(st, msg)
    BY <1>2, <1>6, Dispatch DEF a
  <2>2. CASE ~Current(st, msg, {"Ct1"})
    BY <1>3, <2>1, <2>2 DEF ReceiveKeysSampled
  <2>3. CASE Current(st, msg, {"Ct1"})
    <3> DEFINE b == HeaderSent(a.dk, Encoder(Payload(a.dk, None, None)),
                               add_chunk(Decoder(Ct1Chunks), msg.chunk))
    <3>1. receive(st, msg) = Ok([st EXCEPT !.agent = b])
      BY <2>1, <2>3 DEF ReceiveKeysSampled, a
    <3>2. a.dk = Ek(e)
      BY <1>1, <1>6 DEF LeaderAgent, KeysSampled
    <3>3. Encodes(b.enc, EkPart(e))
      BY <3>2, EncoderFresh DEF EkPart, HeaderSent
    <3>4. msg.chunk.of = Ct1(e)
      BY <1>1, <2>3 DEF Current, Carries
    <3>5. Holds(b.dec, Ct1(e))
      BY <3>4, DecoderEmpty, DecoderHolds DEF HeaderSent
    <3>6. b = HeaderSent(Ek(e), b.enc, b.dec) /\ b.at = "HeaderSent"
      BY <3>2 DEF HeaderSent
    <3> HIDE DEF b
    <3>7. LeaderAgent(b, e)
      BY <3>3, <3>5, <3>6 DEF LeaderAgent
    <3>8. QED BY <1>4, <1>6, <3>1, <3>6, <3>7
  <2>4. QED BY <2>2, <2>3
<1>7. CASE a.at = "HeaderSent"
  <2>1. receive(st, msg) = ReceiveHeaderSent(st, msg)
    BY <1>2, <1>7, Dispatch DEF a
  <2>2. CASE ~Current(st, msg, {"Ct1"})
    BY <1>3, <2>1, <2>2 DEF ReceiveHeaderSent
  <2>3. CASE Current(st, msg, {"Ct1"})
    <3> DEFINE dec == add_chunk(a.dec, msg.chunk)
               b == IF has_message(dec)
                    THEN Ct1Received(a.dk, CiphertextOf(message(dec)), a.enc)
                    ELSE HeaderSent(a.dk, a.enc, dec)
    <3>1. receive(st, msg) = Ok([st EXCEPT !.agent = b])
      BY <2>1, <2>3 DEF ReceiveHeaderSent, a
    <3>2. a.dk = Ek(e) /\ Encodes(a.enc, EkPart(e)) /\ Holds(a.dec, Ct1(e))
      BY <1>1, <1>7 DEF LeaderAgent, HeaderSent
    <3>3. msg.chunk.of = Ct1(e)
      BY <1>1, <2>3 DEF Current, Carries
    <3>4. Holds(dec, Ct1(e)) /\ CiphertextOf(message(dec)) = Secret(e)
      BY <3>2, <3>3, DecoderHolds, PayloadFields
    <3> HIDE DEF dec
    <3>5. \/ b = Ct1Received(Ek(e), Secret(e), a.enc)
          \/ b = HeaderSent(Ek(e), a.enc, dec)
      BY <3>2, <3>4
    <3> HIDE DEF b
    <3>6. LeaderAgent(b, e) /\ b.at /= "KeysUnsampled"
      BY <3>2, <3>4, <3>5 DEF LeaderAgent, Ct1Received, HeaderSent
    <3>7. QED BY <1>4, <1>7, <3>1, <3>6
  <2>4. QED BY <2>2, <2>3
<1>8. CASE a.at = "Ct1Received"
  <2>1. receive(st, msg) = ReceiveCt1Received(st, msg)
    BY <1>2, <1>8, Dispatch DEF a
  <2>2. CASE ~Current(st, msg, {"Ct2"})
    BY <1>3, <2>1, <2>2 DEF ReceiveCt1Received
  <2>3. CASE Current(st, msg, {"Ct2"})
    <3> DEFINE dec == add_chunk(Decoder(Ct2Chunks), msg.chunk)
               b == EkSentCt1Received(a.dk, a.ct1, dec)
    <3>1. receive(st, msg) = Ok([st EXCEPT !.agent = b])
      BY <2>1, <2>3 DEF ReceiveCt1Received, a
    <3>2. a.dk = Ek(e) /\ a.ct1 = Secret(e)
      BY <1>1, <1>8 DEF LeaderAgent, Ct1Received
    <3>3. msg.chunk.of = Ct2(e)
      BY <1>1, <2>3 DEF Current, Carries
    <3>4. Holds(dec, Ct2(e))
      BY <3>3, DecoderEmpty, DecoderHolds
    <3> HIDE DEF dec
    <3>5. LeaderAgent(b, e) /\ b.at /= "KeysUnsampled"
      BY <3>2, <3>4 DEF LeaderAgent, EkSentCt1Received
    <3> HIDE DEF b
    <3>6. QED BY <1>4, <1>8, <3>1, <3>5
  <2>4. QED BY <2>2, <2>3
<1>9. CASE a.at = "EkSentCt1Received"
  <2>1. receive(st, msg) = ReceiveEkSentCt1Received(st, msg)
    BY <1>2, <1>9, Dispatch DEF a
  <2>2. CASE ~Current(st, msg, {"Ct2"})
    BY <1>3, <2>1, <2>2 DEF ReceiveEkSentCt1Received
  <2>3. CASE Current(st, msg, {"Ct2"})
    <3> DEFINE dec == add_chunk(a.dec, msg.chunk)
               p == message(dec)
               ct2 == CiphertextOf(p)
               ss == kdf_ok(decapsulate(a.dk, a.ct1, ct2), st.epoch)
               auth == update(st.auth, st.epoch, ss)
    <3>1. /\ a = EkSentCt1Received(Ek(e), Secret(e), a.dec)
          /\ a.dk = Ek(e) /\ a.ct1 = Secret(e) /\ Holds(a.dec, Ct2(e))
      BY <1>1, <1>9 DEF LeaderAgent, EkSentCt1Received
    <3>2. msg.chunk.of = Ct2(e) /\ msg.typ = "Ct2" /\ msg.epoch = e
      BY <1>1, <2>3 DEF Current, Carries
    <3>3. Holds(dec, Ct2(e)) /\ p = Ct2(e) /\ ct2 = Secret(e)
      BY <3>1, <3>2, DecoderHolds, PayloadFields
    <3>4. ss = Key(e)
      BY <1>1, <3>1, <3>3, DecapsulatesKey
    <3>5. auth = Auth(e + 1)
      BY <1>1, <3>4, AuthUpdate
    <3>6. p.mac = mac_ct(auth, st.epoch, a.ct1, ct2)
      BY <1>1, <3>1, <3>3, <3>5, PayloadFields
    <3>7. receive(st, msg) =
              IF ~has_message(dec) THEN Ok([st EXCEPT !.agent.dec = dec])
              ELSE NextEpoch(st, auth, ss)
      BY <2>1, <2>3, <3>6 DEF ReceiveEkSentCt1Received, a
    <3> HIDE DEF dec, p, ct2, ss, auth
    <3>8. CASE ~has_message(dec)
      <4> DEFINE b == EkSentCt1Received(Ek(e), Secret(e), dec)
      <4>1. [st EXCEPT !.agent.dec = dec] = [st EXCEPT !.agent = b]
        BY <1>1, <3>1 DEF EkSentCt1Received, a
      <4>2. LeaderAgent(b, e) /\ b.at /= "KeysUnsampled"
        BY <3>3 DEF LeaderAgent, EkSentCt1Received
      <4> HIDE DEF b
      <4>3. receive(st, msg) = Ok([st EXCEPT !.agent = b])
        BY <3>7, <3>8, <4>1
      <4>4. QED BY <1>4, <1>9, <4>2, <4>3
    <3>9. CASE has_message(dec)
      <4> DEFINE new == [epoch |-> e + 1, auth |-> Auth(e + 1),
                         agent |-> NoHeaderReceived]
      <4>1. receive(st, msg) = Emit(new, e, Key(e))
        BY <1>1, <3>4, <3>5, <3>7, <3>9 DEF NextEpoch
      <4>2. FollowerAgent(NoHeaderReceived, e + 1) /\ Early(NoHeaderReceived)
        BY DecoderEmpty DEF NoHeaderReceived, FollowerAgent, Early
      <4>3. d = e /\ e <= MaxEpoch
        BY <1>9 DEF LeaderAt, a
      <4>4. FollowerAt(new, d, e + 1)
        BY <4>2, <4>3 DEF FollowerAt
      <4>5. Emits(receive(st, msg), e, new) /\ new.agent = NoHeaderReceived
        BY <4>1, Results
      <4> HIDE DEF new
      <4>6. QED BY <3>2, <4>3, <4>4, <4>5
    <3>10. QED BY <3>8, <3>9
  <2>4. QED BY <2>2, <2>3
<1>10. QED BY <1>1, <1>5, <1>6, <1>7, <1>8, <1>9 DEF LeaderAgent

(***************************************************************************)
(* Encaps2 succeeds on the encapsulation key of its epoch.                 *)
(***************************************************************************)
LEMMA EncapsulatorFinishes ==
    ASSUME NEW e, NEW s, s = [epoch |-> e, auth |-> Auth(e + 1), agent |-> s.agent],
           s.agent.secret = Secret(e), s.agent.ss = Key(e)
    PROVE  \E b : /\ encaps2(s, Ek(e)) = Ok([s EXCEPT !.agent = b])
                  /\ b.at = "Ct2Sampled" /\ FollowerAgent(b, e)
<1> DEFINE x == Secret(e)
           enc == Encoder(Payload(x[1], x[2], mac_ct(s.auth, s.epoch, x, x)))
           b == Ct2Sampled(s.agent.ss, enc)
<1>1. x[1] = Ek(e) /\ x[2] = <<Follower(e), e>>
  BY DEF Secret
<1>2. encaps2(s, Ek(e)) = Ok([s EXCEPT !.agent = b])
  BY <1>1 DEF encaps2
<1>3. s.auth = Auth(e + 1) /\ s.epoch = e
  OBVIOUS
<1>4. Payload(x[1], x[2], mac_ct(s.auth, s.epoch, x, x)) = Ct2(e)
  BY <1>1, <1>3 DEF Ct2
<1>5. Encodes(enc, Ct2(e))
  BY <1>4, EncoderFresh
<1> HIDE DEF x, enc
<1>6. b.at = "Ct2Sampled" /\ FollowerAgent(b, e)
  BY <1>5 DEF FollowerAgent, Ct2Sampled
<1>7. QED BY <1>2, <1>6

(***************************************************************************)
(* The encapsulator of an epoch accepts whatever its peer has sent in that *)
(* epoch or before, and emits nothing.                                     *)
(***************************************************************************)
LEMMA FollowerReceives ==
    ASSUME NEW e \in Nat \ {0}, NEW d, NEW st, NEW msg,
           FollowerAt(st, d, e), Carries(msg), msg.epoch <= e
    PROVE  \E new : /\ Quiet(receive(st, msg), new) /\ FollowerAt(new, d, e)
                    /\ st.agent.at = "Ct2Sampled" => new.agent.at = "Ct2Sampled"
<1> DEFINE a == st.agent
           Goal == \E new : /\ Quiet(receive(st, msg), new) /\ FollowerAt(new, d, e)
                            /\ a.at = "Ct2Sampled" => new.agent.at = "Ct2Sampled"
<1>1. /\ st = [epoch |-> e, auth |-> IF Early(a) THEN Auth(e) ELSE Auth(e + 1),
               agent |-> a]
      /\ st.epoch = e /\ FollowerAgent(a, e)
  BY DEF FollowerAt
<1>2. ~(msg.epoch > st.epoch + 1) /\ msg.epoch /= st.epoch + 1
  BY <1>1 DEF Carries
<1>3. ASSUME receive(st, msg) = Ok(st)
      PROVE  Goal
  BY <1>3, Results
<1>4. ASSUME NEW b, receive(st, msg) = Ok([st EXCEPT !.agent = b]),
             FollowerAgent(b, e), Early(b) <=> Early(a), a.at /= "Ct2Sampled"
      PROVE  Goal
  <2> DEFINE new == [st EXCEPT !.agent = b]
  <2>1. new = [epoch |-> e, auth |-> IF Early(b) THEN Auth(e) ELSE Auth(e + 1),
               agent |-> b]
    BY <1>1, <1>4
  <2>2. FollowerAt(new, d, e)
    BY <1>4, <2>1 DEF FollowerAt
  <2>3. QED BY <1>4, <2>2, Results
<1> SUFFICES Goal
  BY DEF a
<1> HIDE DEF a, Goal
<1>5. CASE a.at = "NoHeaderReceived"
  <2>1. receive(st, msg) = ReceiveNoHeaderReceived(st, msg)
    BY <1>2, <1>5, Dispatch DEF a
  <2>2. CASE ~Current(st, msg, {"Hdr"})
    BY <1>3, <2>1, <2>2 DEF ReceiveNoHeaderReceived
  <2>3. CASE Current(st, msg, {"Hdr"})
    <3> DEFINE dec == add_chunk(a.dec, msg.chunk)
               p == message(dec)
    <3>1. a = [at |-> "NoHeaderReceived", dec |-> a.dec] /\ Holds(a.dec, Hdr(e))
      BY <1>1, <1>5 DEF FollowerAgent
    <3>2. msg.chunk.of = Hdr(e)
      BY <1>1, <2>3 DEF Current, Carries
    <3>3. Holds(dec, Hdr(e)) /\ p = Hdr(e) /\ p.ek = Ek(e)
      BY <3>1, <3>2, DecoderHolds, PayloadFields
    <3>4. st.auth = Auth(e)
      BY <1>1, <1>5 DEF Early
    <3>5. p.mac = mac_hdr(st.auth, st.epoch, p.ek)
      BY <1>1, <3>3, <3>4, PayloadFields
    <3>6. receive(st, msg) =
              IF ~has_message(dec) THEN Ok([st EXCEPT !.agent.dec = dec])
              ELSE Ok([st EXCEPT !.agent = HeaderReceived(Ek(e))])
      BY <2>1, <2>3, <3>3, <3>5 DEF ReceiveNoHeaderReceived, a
    <3> HIDE DEF dec, p
    <3>7. CASE ~has_message(dec)
      <4> DEFINE b == [at |-> "NoHeaderReceived", dec |-> dec]
      <4>1. [st EXCEPT !.agent.dec = dec] = [st EXCEPT !.agent = b]
        BY <1>1, <3>1, SMTT(30) DEF a
      <4>2. FollowerAgent(b, e) /\ Early(b) /\ Early(a)
        BY <1>5, <3>3 DEF FollowerAgent, Early
      <4> HIDE DEF b
      <4>3. receive(st, msg) = Ok([st EXCEPT !.agent = b])
        BY <3>6, <3>7, <4>1
      <4>4. QED BY <1>4, <1>5, <4>2, <4>3
    <3>8. CASE has_message(dec)
      <4> DEFINE b == HeaderReceived(Ek(e))
      <4>1. FollowerAgent(b, e) /\ Early(b) /\ Early(a)
        BY <1>5, DecoderEmpty DEF FollowerAgent, Early, HeaderReceived
      <4> HIDE DEF b
      <4>2. receive(st, msg) = Ok([st EXCEPT !.agent = b])
        BY <3>6, <3>8 DEF b
      <4>3. QED BY <1>4, <1>5, <4>1, <4>2
    <3>9. QED BY <3>7, <3>8
  <2>4. QED BY <2>2, <2>3
<1>6. CASE a.at = "HeaderReceived"
  BY <1>2, <1>3, <1>6, Dispatch DEF a
<1>7. ASSUME a.at \in {"Ct1Sampled", "EkReceivedCt1Sampled", "Ct1Acknowledged"}
      PROVE  /\ a.secret = Secret(e) /\ a.ss = Key(e)
             /\ ~Early(a) /\ st.auth = Auth(e + 1)
  BY <1>1, <1>7 DEF FollowerAgent, Early, Ct1Sampled
<1>8. ASSUME NEW s, s = [epoch |-> e, auth |-> Auth(e + 1), agent |-> s.agent],
             \A b : [s EXCEPT !.agent = b] = [st EXCEPT !.agent = b],
             s.agent.secret = Secret(e), s.agent.ss = Key(e),
             receive(st, msg) = encaps2(s, Ek(e)), ~Early(a), a.at /= "Ct2Sampled"
      PROVE  Goal
  <2>1. PICK b : /\ encaps2(s, Ek(e)) = Ok([s EXCEPT !.agent = b])
                 /\ b.at = "Ct2Sampled" /\ FollowerAgent(b, e)
    BY <1>8, EncapsulatorFinishes, Zenon
  <2>2. receive(st, msg) = Ok([st EXCEPT !.agent = b]) /\ ~Early(b)
    BY <1>8, <2>1 DEF Early
  <2>3. QED BY <1>4, <1>8, <2>1, <2>2
<1>9. CASE a.at = "Ct1Sampled"
  <2>1. receive(st, msg) = recv_ek_or_ack(st, msg)
    BY <1>2, <1>9, Dispatch DEF a
  <2>2. CASE ~Current(st, msg, {"Ek", "EkCt1Ack"})
    BY <1>3, <2>1, <2>2 DEF recv_ek_or_ack
  <2>3. CASE Current(st, msg, {"Ek", "EkCt1Ack"})
    <3> DEFINE dec == add_chunk(a.dec, msg.chunk)
               s == [st EXCEPT !.agent.dec = dec]
    <3>1. /\ a = Ct1Sampled(Secret(e), Key(e), a.enc, a.dec)
          /\ Encodes(a.enc, Ct1(e)) /\ Holds(a.dec, EkPart(e))
      BY <1>1, <1>9 DEF FollowerAgent
    <3>2. msg.chunk.of = EkPart(e)
      BY <1>1, <2>3 DEF Current, Carries
    <3>3. Holds(dec, EkPart(e)) /\ message(dec).ek = Ek(e)
      BY <3>1, <3>2, DecoderHolds, PayloadFields
    <3>4. receive(st, msg) =
              IF has_message(dec) /\ msg.typ = "EkCt1Ack" THEN encaps2(s, Ek(e))
              ELSE IF has_message(dec)
              THEN Ok([st EXCEPT !.agent = EkReceivedCt1Sampled(a, Ek(e))])
              ELSE IF msg.typ = "EkCt1Ack"
              THEN Ok([st EXCEPT !.agent = Ct1Acknowledged(a, dec)])
              ELSE Ok(s)
      BY <2>1, <2>3, <3>3 DEF recv_ek_or_ack, a
    <3> HIDE DEF dec, s
    <3>5. st = [epoch |-> e, auth |-> Auth(e + 1), agent |-> a]
      BY <1>1, <1>7, <1>9
    <3>6. s.agent = Ct1Sampled(Secret(e), Key(e), a.enc, dec)
      BY <3>1, <3>5 DEF s, Ct1Sampled
    <3>7. s = [epoch |-> e, auth |-> Auth(e + 1), agent |-> s.agent]
      BY <3>5 DEF s
    <3>8. \A b : [s EXCEPT !.agent = b] = [st EXCEPT !.agent = b]
      BY <3>5, <3>7
    <3>9. CASE has_message(dec) /\ msg.typ = "EkCt1Ack"
      <4>1. s.agent.secret = Secret(e) /\ s.agent.ss = Key(e)
        BY <3>6 DEF Ct1Sampled
      <4>2. receive(st, msg) = encaps2(s, Ek(e))
        BY <3>4, <3>9
      <4>3. QED BY <1>7, <1>8, <1>9, <3>7, <3>8, <4>1, <4>2
    <3>10. CASE has_message(dec) /\ msg.typ /= "EkCt1Ack"
      <4> DEFINE b == EkReceivedCt1Sampled(a, Ek(e))
      <4>1. receive(st, msg) = Ok([st EXCEPT !.agent = b])
        BY <3>4, <3>10
      <4>2. FollowerAgent(b, e) /\ ~Early(b)
        BY <1>7, <1>9, <3>1 DEF FollowerAgent, Early, EkReceivedCt1Sampled
      <4> HIDE DEF b
      <4>3. QED BY <1>4, <1>7, <1>9, <4>1, <4>2
    <3>11. CASE ~has_message(dec) /\ msg.typ = "EkCt1Ack"
      <4> DEFINE b == Ct1Acknowledged(a, dec)
      <4>1. receive(st, msg) = Ok([st EXCEPT !.agent = b])
        BY <3>4, <3>11, SMTT(30)
      <4>2. FollowerAgent(b, e) /\ ~Early(b)
        BY <1>7, <1>9, <3>3 DEF FollowerAgent, Early, Ct1Acknowledged
      <4> HIDE DEF b
      <4>3. QED BY <1>4, <1>7, <1>9, <4>1, <4>2
    <3>12. CASE ~has_message(dec) /\ msg.typ /= "EkCt1Ack"
      <4>1. s = [st EXCEPT !.agent = s.agent]
        BY <3>5, <3>7
      <4>2. receive(st, msg) = Ok([st EXCEPT !.agent = s.agent])
        BY <3>4, <3>12, <4>1
      <4>3. FollowerAgent(s.agent, e) /\ ~Early(s.agent)
        BY <3>1, <3>3, <3>6 DEF FollowerAgent, Early, Ct1Sampled
      <4>4. QED BY <1>4, <1>7, <1>9, <4>2, <4>3
    <3>13. QED BY <3>9, <3>10, <3>11, <3>12
  <2>4. QED BY <2>2, <2>3
<1>10. CASE a.at = "EkReceivedCt1Sampled"
  <2>1. receive(st, msg) = ReceiveEkReceivedCt1Sampled(st, msg)
    BY <1>2, <1>10, Dispatch DEF a
  <2>2. a.ek = Ek(e)
    BY <1>1, <1>10 DEF FollowerAgent
  <2>3. receive(st, msg) = Ok(st) \/ receive(st, msg) = encaps2(st, Ek(e))
    BY <1>2, <2>1, <2>2 DEF ReceiveEkReceivedCt1Sampled, a
  <2>4. st = [epoch |-> e, auth |-> Auth(e + 1), agent |-> st.agent]
    BY <1>1, <1>7, <1>10
  <2>5. CASE receive(st, msg) = Ok(st)
    BY <1>3, <2>5
  <2>6. CASE receive(st, msg) = encaps2(st, Ek(e))
    <3>1. st.agent.secret = Secret(e) /\ st.agent.ss = Key(e) /\ ~Early(a)
      BY <1>7, <1>10 DEF a
    <3>2. QED BY <1>8, <1>10, <2>4, <2>6, <3>1
  <2>7. QED BY <2>3, <2>5, <2>6
<1>11. CASE a.at = "Ct1Acknowledged"
  <2>1. receive(st, msg) = ReceiveCt1Acknowledged(st, msg)
    BY <1>2, <1>11, Dispatch DEF a
  <2>2. CASE ~Current(st, msg, {"Ek", "EkCt1Ack"})
    BY <1>3, <2>1, <2>2 DEF ReceiveCt1Acknowledged
  <2>3. CASE Current(st, msg, {"Ek", "EkCt1Ack"})
    <3> DEFINE dec == add_chunk(a.dec, msg.chunk)
               s == [st EXCEPT !.agent.dec = dec]
    <3>1. /\ a = [at |-> "Ct1Acknowledged", secret |-> Secret(e),
                  ss |-> Key(e), dec |-> a.dec]
          /\ Holds(a.dec, EkPart(e))
      BY <1>1, <1>11 DEF FollowerAgent
    <3>2. msg.chunk.of = EkPart(e)
      BY <1>1, <2>3 DEF Current, Carries
    <3>3. Holds(dec, EkPart(e)) /\ message(dec).ek = Ek(e)
      BY <3>1, <3>2, DecoderHolds, PayloadFields
    <3>4. receive(st, msg) = IF has_message(dec) THEN encaps2(s, Ek(e)) ELSE Ok(s)
      BY <2>1, <2>3, <3>3 DEF ReceiveCt1Acknowledged, a
    <3> HIDE DEF dec, s
    <3>5. st = [epoch |-> e, auth |-> Auth(e + 1), agent |-> a]
      BY <1>1, <1>7, <1>11
    <3>6. s.agent = [at |-> "Ct1Acknowledged", secret |-> Secret(e),
                     ss |-> Key(e), dec |-> dec]
      BY <3>1, <3>5 DEF s
    <3>7. s = [epoch |-> e, auth |-> Auth(e + 1), agent |-> s.agent]
      BY <3>5 DEF s
    <3>8. CASE has_message(dec)
      <4>1. s.agent.secret = Secret(e) /\ s.agent.ss = Key(e)
        BY <3>6
      <4>2. receive(st, msg) = encaps2(s, Ek(e))
        BY <3>4, <3>8
      <4>3. \A b : [s EXCEPT !.agent = b] = [st EXCEPT !.agent = b]
        BY <3>5, <3>7
      <4>4. QED BY <1>7, <1>8, <1>11, <3>7, <4>1, <4>2, <4>3
    <3>9. CASE ~has_message(dec)
      <4>1. s = [st EXCEPT !.agent = s.agent]
        BY <3>5, <3>7
      <4>2. receive(st, msg) = Ok([st EXCEPT !.agent = s.agent])
        BY <3>4, <3>9, <4>1
      <4>3. FollowerAgent(s.agent, e) /\ ~Early(s.agent)
        BY <3>3, <3>6 DEF FollowerAgent, Early
      <4>4. QED BY <1>4, <1>7, <1>11, <4>2, <4>3
    <3>10. QED BY <3>8, <3>9
  <2>4. QED BY <2>2, <2>3
<1>12. CASE a.at = "Ct2Sampled"
  <2>1. receive(st, msg) = ReceiveCt2Sampled(st, msg)
    BY <1>2, <1>12, Dispatch DEF a
  <2>2. receive(st, msg) = Ok(st)
    BY <1>2, <2>1, SMTT(30) DEF ReceiveCt2Sampled
  <2>3. QED BY <1>3, <2>2
<1>13. QED
  BY <1>1, <1>5, <1>6, <1>9, <1>10, <1>11, <1>12 DEF FollowerAgent

(***************************************************************************)
(* The encapsulator that has sent its whole ciphertext emits the key when  *)
(* it hears of the next epoch, and generates the key pair of that one.     *)
(***************************************************************************)
LEMMA FollowerCompletes ==
    ASSUME NEW e \in Nat \ {0}, NEW d, NEW st, NEW msg,
           FollowerAt(st, d, e), st.agent.at = "Ct2Sampled", msg.epoch = e + 1
    PROVE  \E new : Emits(receive(st, msg), e, new) /\ LeaderAt(new, d, e + 1)
<1> DEFINE new == [epoch |-> e + 1, auth |-> Auth(e + 1), agent |-> KeysUnsampled]
<1>1. /\ st = [epoch |-> e, auth |-> Auth(e + 1), agent |-> st.agent]
      /\ d = e /\ FollowerAgent(st.agent, e)
  BY DEF FollowerAt, Early
<1>2. st.agent.ss = Key(e)
  BY <1>1 DEF FollowerAgent, Ct2Sampled
<1>3. receive(st, msg) = ReceiveCt2Sampled(st, msg)
  <2>1. ~(msg.epoch > st.epoch + 1)
    BY <1>1
  <2>2. QED BY <2>1, Dispatch
<1>4. [st EXCEPT !.epoch = msg.epoch, !.agent = KeysUnsampled] = new
  <2> DEFINE s == [st EXCEPT !.epoch = msg.epoch]
  <2>1. s = [epoch |-> e + 1, auth |-> Auth(e + 1), agent |-> st.agent]
    BY <1>1
  <2> HIDE DEF s
  <2>2. [s EXCEPT !.agent = KeysUnsampled] = new
    BY <2>1
  <2>3. QED BY <2>2, Zenon DEF s
<1>5. receive(st, msg) = Emit(new, e, Key(e))
  BY <1>1, <1>2, <1>3, <1>4 DEF ReceiveCt2Sampled, complete_encapsulator
<1>6. LeaderAgent(KeysUnsampled, e + 1) /\ KeysUnsampled.at = "KeysUnsampled"
  BY DEF LeaderAgent, KeysUnsampled
<1>7. LeaderAt(new, d, e + 1)
  BY <1>1, <1>6 DEF LeaderAt
<1>8. QED BY <1>5, <1>7, Results

------------------------------------------------------------------------------
(* Sending *)

\* What each state of an agent puts in a message
LEMMA SentTypes ==
    /\ SentType("KeysSampled") = "Hdr"
    /\ SentType("HeaderSent") = "Ek"
    /\ SentType("Ct1Received") = "EkCt1Ack"
    /\ SentType("Ct1Sampled") = "Ct1" /\ SentType("EkReceivedCt1Sampled") = "Ct1"
    /\ SentType("Ct2Sampled") = "Ct2"
    /\ SentType("EkSentCt1Received") = "None"
    /\ SentType("NoHeaderReceived") = "None"
    /\ SentType("Ct1Acknowledged") = "None"
BY Zenon DEF SentType

\* The state send cuts the chunk from
Sampled(st, fresh) ==
    IF st.agent.at = "KeysUnsampled" THEN SampleKeys(st, fresh)
    ELSE IF st.agent.at = "HeaderReceived" THEN encaps1_if_needed(st, fresh)
    ELSE st

\* send takes the next chunk of the payload that its state is sending.
LEMMA SendForm ==
    ASSUME NEW st, NEW fresh, NEW s, s = Sampled(st, fresh)
    PROVE  send(st, fresh) =
             IF SentType(s.agent.at) = "None"
             THEN [st |-> s, msg |-> [epoch |-> s.epoch, typ |-> "None",
                                      chunk |-> NoChunk]]
             ELSE [st |-> [s EXCEPT !.agent.enc = NextChunk(s.agent.enc)],
                   msg |-> [epoch |-> s.epoch, typ |-> SentType(s.agent.at),
                            chunk |-> Chunk(s.agent.enc)]]
<1>1. s = CASE st.agent.at = "KeysUnsampled" -> SampleKeys(st, fresh)
            [] st.agent.at = "HeaderReceived" -> encaps1_if_needed(st, fresh)
            [] OTHER -> st
  BY Zenon DEF Sampled
<1>2. QED BY <1>1, Zenon DEF send

(***************************************************************************)
(* The decapsulator sends chunks of the header and of the key of its       *)
(* epoch, for which it generates the key pair once.                        *)
(***************************************************************************)
LEMMA LeaderSends ==
    ASSUME NEW e \in Nat \ {0}, NEW d, NEW st, NEW r,
           LeaderAt(st, d, e), st.agent.at = "KeysUnsampled" => e <= MaxEpoch,
           r = send(st, <<Leader(e), d + 1>>)
    PROVE  /\ LeaderAt(r.st, IF Draws(st) THEN d + 1 ELSE d, e)
           /\ Carries(r.msg) /\ r.msg.epoch = e /\ r.msg.typ /= "Ct2"
<1> DEFINE fresh == <<Leader(e), d + 1>>
           s == Sampled(st, fresh)
           a == s.agent
<1>1. /\ LeaderAt(s, e, e) /\ a.at /= "KeysUnsampled"
      /\ e = IF Draws(st) THEN d + 1 ELSE d
  <2>1. CASE st.agent.at = "KeysUnsampled"
    <3> DEFINE b == KeysSampled(Ek(e), Encoder(Hdr(e)))
    <3>1. /\ st = [epoch |-> e, auth |-> Auth(e), agent |-> st.agent]
          /\ d = e - 1 /\ e <= MaxEpoch
      BY <2>1 DEF LeaderAt
    <3>2. fresh = Ek(e)
      BY <3>1 DEF Ek
    <3>3. s = [st EXCEPT !.agent = b]
      <4>1. s = SampleKeys(st, fresh)
        BY <2>1 DEF Sampled
      <4>2. QED BY <3>1, <3>2, <4>1 DEF SampleKeys, Hdr
    <3>4. LeaderAgent(b, e) /\ b.at = "KeysSampled"
      BY EncoderFresh, Zenon DEF LeaderAgent, KeysSampled
    <3> HIDE DEF b
    <3>5. s = [epoch |-> e, auth |-> Auth(e), agent |-> b]
      BY <3>1, <3>3
    <3> HIDE DEF s
    <3>6. LeaderAt(s, e, e)
      BY <3>1, <3>4, <3>5 DEF LeaderAt
    <3>7. QED BY <2>1, <3>1, <3>4, <3>5, <3>6 DEF Draws
  <2>2. CASE st.agent.at /= "KeysUnsampled"
    <3>1. st.agent.at /= "HeaderReceived"
      BY DEF LeaderAt, LeaderAgent
    <3>2. s = st
      BY <2>2, <3>1 DEF Sampled
    <3>3. QED BY <2>2, <3>1, <3>2 DEF Draws, LeaderAt
  <2>3. QED BY <2>1, <2>2
<1>2. r = IF SentType(a.at) = "None"
          THEN [st |-> s, msg |-> [epoch |-> s.epoch, typ |-> "None",
                                   chunk |-> NoChunk]]
          ELSE [st |-> [s EXCEPT !.agent.enc = NextChunk(a.enc)],
                msg |-> [epoch |-> s.epoch, typ |-> SentType(a.at),
                         chunk |-> Chunk(a.enc)]]
  BY SendForm
<1> HIDE DEF s
<1>3. /\ s = [epoch |-> e, auth |-> Auth(e), agent |-> a]
      /\ LeaderAgent(a, e) /\ e <= MaxEpoch
  BY <1>1 DEF LeaderAt
<1>4. ASSUME NEW typ, NEW b, SentType(a.at) = typ, typ /= "None", typ /= "Ct2",
             [a EXCEPT !.enc = NextChunk(a.enc)] = b,
             LeaderAgent(b, e), b.at /= "KeysUnsampled",
             Carries([epoch |-> e, typ |-> typ, chunk |-> Chunk(a.enc)])
      PROVE  /\ LeaderAt(r.st, e, e)
             /\ Carries(r.msg) /\ r.msg.epoch = e /\ r.msg.typ /= "Ct2"
  <2>1. r.st = [epoch |-> e, auth |-> Auth(e), agent |-> b]
    BY <1>2, <1>3, <1>4
  <2>2. r.msg = [epoch |-> e, typ |-> typ, chunk |-> Chunk(a.enc)]
    BY <1>2, <1>3, <1>4
  <2>3. LeaderAt(r.st, e, e)
    BY <1>3, <1>4, <2>1 DEF LeaderAt
  <2>4. QED BY <1>4, <2>2, <2>3
<1>5. CASE a.at = "KeysSampled"
  <2>1. a = KeysSampled(Ek(e), a.enc) /\ Encodes(a.enc, Hdr(e))
    BY <1>3, <1>5 DEF LeaderAgent
  <2>2. Encodes(NextChunk(a.enc), Hdr(e)) /\ Chunk(a.enc).of = Hdr(e)
    BY <2>1, EncoderEncodes
  <2> DEFINE b == KeysSampled(Ek(e), NextChunk(a.enc))
  <2>3. [a EXCEPT !.enc = NextChunk(a.enc)] = b
    BY <2>1, SMTT(30) DEF KeysSampled
  <2>4. LeaderAgent(b, e) /\ b.at /= "KeysUnsampled"
    BY <2>2 DEF LeaderAgent, KeysSampled
  <2>5. Carries([epoch |-> e, typ |-> "Hdr", chunk |-> Chunk(a.enc)])
    BY <2>2 DEF Carries
  <2> HIDE DEF b
  <2>6. QED BY <1>1, <1>4, <1>5, <2>3, <2>4, <2>5, SentTypes
<1>6. CASE a.at = "HeaderSent"
  <2>1. /\ a = HeaderSent(Ek(e), a.enc, a.dec)
        /\ Encodes(a.enc, EkPart(e)) /\ Holds(a.dec, Ct1(e))
    BY <1>3, <1>6, SMTT(30) DEF LeaderAgent
  <2>2. Encodes(NextChunk(a.enc), EkPart(e)) /\ Chunk(a.enc).of = EkPart(e)
    BY <2>1, EncoderEncodes
  <2> DEFINE b == HeaderSent(Ek(e), NextChunk(a.enc), a.dec)
  <2>3. [a EXCEPT !.enc = NextChunk(a.enc)] = b
    BY <2>1, SMTT(30) DEF HeaderSent
  <2>4. LeaderAgent(b, e) /\ b.at /= "KeysUnsampled"
    BY <2>1, <2>2 DEF LeaderAgent, HeaderSent
  <2>5. Carries([epoch |-> e, typ |-> "Ek", chunk |-> Chunk(a.enc)])
    BY <2>2 DEF Carries
  <2> HIDE DEF b
  <2>6. QED BY <1>1, <1>4, <1>6, <2>3, <2>4, <2>5, SentTypes
<1>7. CASE a.at = "Ct1Received"
  <2>1. a = Ct1Received(Ek(e), Secret(e), a.enc) /\ Encodes(a.enc, EkPart(e))
    BY <1>3, <1>7 DEF LeaderAgent
  <2>2. Encodes(NextChunk(a.enc), EkPart(e)) /\ Chunk(a.enc).of = EkPart(e)
    BY <2>1, EncoderEncodes
  <2> DEFINE b == Ct1Received(Ek(e), Secret(e), NextChunk(a.enc))
  <2>3. [a EXCEPT !.enc = NextChunk(a.enc)] = b
    BY <2>1, SMTT(30) DEF Ct1Received
  <2>4. LeaderAgent(b, e) /\ b.at /= "KeysUnsampled"
    BY <2>2 DEF LeaderAgent, Ct1Received
  <2>5. Carries([epoch |-> e, typ |-> "EkCt1Ack", chunk |-> Chunk(a.enc)])
    BY <2>2 DEF Carries
  <2> HIDE DEF b
  <2>6. QED BY <1>1, <1>4, <1>7, <2>3, <2>4, <2>5, SentTypes
<1>8. CASE a.at = "EkSentCt1Received"
  <2>1. r.st = s /\ r.msg = [epoch |-> e, typ |-> "None", chunk |-> NoChunk]
    BY <1>2, <1>3, <1>8, SentTypes
  <2>2. QED BY <1>1, <2>1 DEF Carries
<1>9. QED BY <1>1, <1>3, <1>5, <1>6, <1>7, <1>8 DEF LeaderAgent

(***************************************************************************)
(* The encapsulator sends chunks of the two parts of the ciphertext of its *)
(* epoch, for which it encapsulates once.                                  *)
(***************************************************************************)
LEMMA FollowerSends ==
    ASSUME NEW e \in Nat \ {0}, NEW d, NEW st, NEW r,
           FollowerAt(st, d, e), r = send(st, <<Follower(e), d + 1>>)
    PROVE  /\ FollowerAt(r.st, IF Draws(st) THEN d + 1 ELSE d, e)
           /\ Carries(r.msg) /\ r.msg.epoch = e
           /\ r.msg.typ = "Ct2" => r.st.agent.at = "Ct2Sampled"
           /\ st.agent.at = "Ct2Sampled" => r.st.agent.at = "Ct2Sampled"
           /\ st.agent.at = "NoHeaderReceived" => r.st = st
<1> DEFINE fresh == <<Follower(e), d + 1>>
           s == Sampled(st, fresh)
           a == s.agent
           d2 == IF Draws(st) THEN d + 1 ELSE d
<1>1. /\ FollowerAt(s, d2, e) /\ a.at /= "HeaderReceived"
      /\ st.agent.at /= "HeaderReceived" => s = st
      /\ st.agent.at = "HeaderReceived" => a.at = "Ct1Sampled"
  <2>1. CASE st.agent.at = "HeaderReceived"
    <3> DEFINE enc == Encoder(Ct1(e))
               b == Ct1Sampled(Secret(e), Key(e), enc, st.agent.dec)
    <3>1. /\ st = [epoch |-> e, auth |-> Auth(e), agent |-> st.agent]
          /\ d = e - 1 /\ FollowerAgent(st.agent, e)
      BY <2>1 DEF FollowerAt, Early
    <3>2. fresh = <<Follower(e), e>> /\ d2 = e
      BY <2>1, <3>1 DEF Draws
    <3>3. st.agent.ek = Ek(e) /\ Holds(st.agent.dec, EkPart(e))
      BY <2>1, <3>1 DEF FollowerAgent
    <3>4. /\ EncapsSecret(st.agent.ek, fresh) = Secret(e)
          /\ kdf_ok(SharedSecret(Secret(e)), st.epoch) = Key(e)
          /\ Payload(st.agent.ek, fresh, None) = Ct1(e)
          /\ update(st.auth, st.epoch, Key(e)) = Auth(e + 1)
      BY <3>1, <3>2, <3>3, EncapsulatesKey, AuthUpdate DEF Ct1
    <3>5. s = encaps1_if_needed(st, fresh)
      BY <2>1 DEF Sampled
    <3>6. s = [[st EXCEPT !.auth = Auth(e + 1)] EXCEPT !.agent = b]
      BY <3>4, <3>5, Zenon DEF encaps1_if_needed
    <3> DEFINE t == [st EXCEPT !.auth = Auth(e + 1)]
    <3>7. t = [epoch |-> e, auth |-> Auth(e + 1), agent |-> st.agent]
      BY <3>1
    <3>8. s = [t EXCEPT !.agent = b]
      BY <3>6, Zenon
    <3> HIDE DEF t, b, s
    <3>9. s = [epoch |-> e, auth |-> Auth(e + 1), agent |-> b]
      BY <3>7, <3>8
    <3>10. Encodes(enc, Ct1(e))
      BY EncoderFresh
    <3> HIDE DEF enc
    <3>11. FollowerAgent(b, e) /\ ~Early(b) /\ b.at = "Ct1Sampled"
      BY <3>3, <3>10, Zenon DEF FollowerAgent, Early, Ct1Sampled, b
    <3>12. FollowerAt(s, e, e)
      BY <3>9, <3>11 DEF FollowerAt
    <3>13. QED BY <2>1, <3>2, <3>9, <3>11, <3>12
  <2>2. CASE st.agent.at /= "HeaderReceived"
    <3>1. st.agent.at /= "KeysUnsampled"
      BY DEF FollowerAt, FollowerAgent
    <3>2. s = st /\ ~Draws(st)
      BY <2>2, <3>1 DEF Sampled, Draws
    <3>3. QED BY <2>2, <3>2
  <2>3. QED BY <2>1, <2>2
<1>2. r = IF SentType(a.at) = "None"
          THEN [st |-> s, msg |-> [epoch |-> s.epoch, typ |-> "None",
                                   chunk |-> NoChunk]]
          ELSE [st |-> [s EXCEPT !.agent.enc = NextChunk(a.enc)],
                msg |-> [epoch |-> s.epoch, typ |-> SentType(a.at),
                         chunk |-> Chunk(a.enc)]]
  BY SendForm
<1> HIDE DEF s, d2
<1>3. /\ s = [epoch |-> e, auth |-> IF Early(a) THEN Auth(e) ELSE Auth(e + 1),
              agent |-> a]
      /\ FollowerAgent(a, e) /\ d2 = IF Early(a) THEN e - 1 ELSE e
  BY <1>1 DEF FollowerAt
<1>4. ASSUME NEW typ, NEW b, SentType(a.at) = typ, typ /= "None",
             typ = "Ct2" => b.at = "Ct2Sampled", b.at = a.at,
             [a EXCEPT !.enc = NextChunk(a.enc)] = b, FollowerAgent(b, e),
             Carries([epoch |-> e, typ |-> typ, chunk |-> Chunk(a.enc)])
      PROVE  /\ FollowerAt(r.st, d2, e)
             /\ Carries(r.msg) /\ r.msg.epoch = e
             /\ r.msg.typ = "Ct2" => r.st.agent.at = "Ct2Sampled"
             /\ r.st.agent.at = a.at
  <2>1. Early(b) <=> Early(a)
    BY <1>4 DEF Early
  <2>2. r.st = [epoch |-> e, auth |-> IF Early(b) THEN Auth(e) ELSE Auth(e + 1),
                agent |-> b]
    BY <1>2, <1>3, <1>4, <2>1
  <2>3. r.msg = [epoch |-> e, typ |-> typ, chunk |-> Chunk(a.enc)]
    BY <1>2, <1>3, <1>4
  <2>4. FollowerAt(r.st, d2, e)
    BY <1>3, <1>4, <2>1, <2>2 DEF FollowerAt
  <2>5. QED BY <1>4, <2>2, <2>3, <2>4
<1>5. CASE SentType(a.at) = "None"
  <2>1. r.st = s /\ r.msg = [epoch |-> e, typ |-> "None", chunk |-> NoChunk]
    BY <1>2, <1>3, <1>5
  <2>2. a.at /= "Ct2Sampled" /\ a.at /= "Ct1Sampled"
    BY <1>5, SentTypes
  <2>3. QED BY <1>1, <2>1, <2>2 DEF Carries, d2
<1>6. CASE a.at = "Ct1Sampled"
  <2>1. /\ a = Ct1Sampled(Secret(e), Key(e), a.enc, a.dec)
        /\ Encodes(a.enc, Ct1(e)) /\ Holds(a.dec, EkPart(e))
    BY <1>3, <1>6 DEF FollowerAgent
  <2>2. Encodes(NextChunk(a.enc), Ct1(e)) /\ Chunk(a.enc).of = Ct1(e)
    BY <2>1, EncoderEncodes
  <2> DEFINE b == Ct1Sampled(Secret(e), Key(e), NextChunk(a.enc), a.dec)
  <2>3. [a EXCEPT !.enc = NextChunk(a.enc)] = b
    BY <2>1 DEF Ct1Sampled
  <2>4. FollowerAgent(b, e) /\ b.at = "Ct1Sampled"
    BY <2>1, <2>2, Zenon DEF FollowerAgent, Ct1Sampled
  <2>5. Carries([epoch |-> e, typ |-> "Ct1", chunk |-> Chunk(a.enc)])
    BY <2>2 DEF Carries
  <2> HIDE DEF b
  <2>6. QED BY <1>1, <1>4, <1>6, <2>3, <2>4, <2>5, SentTypes DEF d2
<1>7. CASE a.at = "EkReceivedCt1Sampled"
  <2>1. /\ a = [at |-> "EkReceivedCt1Sampled", secret |-> Secret(e),
                ss |-> Key(e), enc |-> a.enc, ek |-> Ek(e)]
        /\ Encodes(a.enc, Ct1(e))
    BY <1>3, <1>7, SMTT(30) DEF FollowerAgent
  <2>2. Encodes(NextChunk(a.enc), Ct1(e)) /\ Chunk(a.enc).of = Ct1(e)
    BY <2>1, EncoderEncodes
  <2> DEFINE b == [at |-> "EkReceivedCt1Sampled", secret |-> Secret(e),
                   ss |-> Key(e), enc |-> NextChunk(a.enc), ek |-> Ek(e)]
  <2>3. [a EXCEPT !.enc = NextChunk(a.enc)] = b
    BY <2>1
  <2>4. FollowerAgent(b, e) /\ b.at = "EkReceivedCt1Sampled"
    BY <2>2, Zenon DEF FollowerAgent
  <2>5. Carries([epoch |-> e, typ |-> "Ct1", chunk |-> Chunk(a.enc)])
    BY <2>2 DEF Carries
  <2> HIDE DEF b
  <2>6. QED BY <1>1, <1>4, <1>7, <2>3, <2>4, <2>5, SentTypes DEF d2
<1>8. CASE a.at = "Ct2Sampled"
  <2>1. a = Ct2Sampled(Key(e), a.enc) /\ Encodes(a.enc, Ct2(e))
    BY <1>3, <1>8 DEF FollowerAgent
  <2>2. Encodes(NextChunk(a.enc), Ct2(e)) /\ Chunk(a.enc).of = Ct2(e)
    BY <2>1, EncoderEncodes
  <2> DEFINE b == Ct2Sampled(Key(e), NextChunk(a.enc))
  <2>3. [a EXCEPT !.enc = NextChunk(a.enc)] = b
    <3>1. \A k, x, y : [Ct2Sampled(k, x) EXCEPT !.enc = y] = Ct2Sampled(k, y)
      BY DEF Ct2Sampled
    <3>2. QED BY <2>1, <3>1
  <2>4. FollowerAgent(b, e) /\ b.at = "Ct2Sampled"
    <3>1. b.at = "Ct2Sampled" /\ b.enc = NextChunk(a.enc)
      BY DEF Ct2Sampled
    <3>2. QED BY <2>2, <3>1, ZenonT(40) DEF FollowerAgent
  <2>5. Carries([epoch |-> e, typ |-> "Ct2", chunk |-> Chunk(a.enc)])
    BY <2>2 DEF Carries
  <2> HIDE DEF b
  <2>6. QED BY <1>1, <1>4, <1>8, <2>3, <2>4, <2>5, SentTypes DEF d2
<1>9. a.at \in {"NoHeaderReceived", "Ct1Acknowledged"} => SentType(a.at) = "None"
  BY SentTypes
<1>10. QED BY <1>1, <1>3, <1>5, <1>6, <1>7, <1>8, <1>9 DEF FollowerAgent
==============================================================================
