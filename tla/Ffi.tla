--------------------------------- MODULE Ffi ---------------------------------
(***************************************************************************)
(* The C interface (src/ffi/mod.rs): a table of engines behind a mutex,    *)
(* called by threads of foreign code with handles, output buffers and size *)
(* queries.                                                                *)
(*                                                                         *)
(* A call is one step.  What it does before it takes the lock looks at its *)
(* arguments only, and a caller may present any handle, session id or      *)
(* message it was ever given, so the steps in any order are the calls of   *)
(* any number of threads, the ones that waited while their engine was      *)
(* destroyed included.  A call whose buffer is below its bound returns     *)
(* before the lock and changes nothing.                                    *)
(*                                                                         *)
(* The engine behind a handle is what Engine promises of it: a handshake   *)
(* per one-time prekey, each message accepted once, everything committed   *)
(* on return.  Lengths are in bytes, for the classical ratchet.            *)
(***************************************************************************)
EXTENDS Integers, Sequences, FiniteSets, Fingerprint

CONSTANTS
    PtLen,      \* lengths of the plaintexts
    Buffer,     \* lengths of the output buffers; 0 is a null pointer as well
    Count,      \* numbers of one-time prekeys asked for
    U64Max,     \* largest value of the u64 handle counter
    MaxCreated, \* bound on the engines initialized
    MaxMade,    \* bound on the sessions an engine makes
    MaxSealed   \* bound on the messages sent after the handshakes

ASSUME LengthsAssumption == PtLen \subseteq Nat /\ Buffer \subseteq Nat

VARIABLES
    next,       \* Registry.next
    engines,    \* Registry.engines: handle -> engine
    created,    \* number of engines initialized so far
    handles,    \* <<handle, engine id>> returned to callers
    bundles,    \* every bundle, packet and sealed message returned to callers
    packets,
    sealed,
    known,      \* <<handle, session id>> returned to callers
    handed      \* <<session id, message>> of the plaintexts returned to callers

registry == <<next, engines>>
outputs == <<handles, bundles, packets, sealed, known, handed>>
vars == <<registry, created, outputs>>

------------------------------------------------------------------------------
(* Sizes *)

BUNDLE_BOUND == 4096

\* Mutant of PT_BOUND: the room a header would need
HeaderBound == 64

PT_BOUND == 4096

packet_bound(len) == 8192 + len

\* Mutant of sealed_bound: the room for the header and the tag is forgotten
BoundWithoutHeader(len) == len

sealed_bound(len) == 4096 + len

\* SealedMessage::encode with a 40 byte header and a 16 byte tag
SealedLen(len) == 8 + 16 + 4 + 40 + 4 + (len + 16)

\* InitiationPacket::encode with an ML-KEM-768 ciphertext and a one-time key
PacketLen(len) == 8 + 32 + 32 + 2 + 1088 + 4 + 5 + 4 + 4 + SealedLen(len)

\* PublicPrekeyBundle::encode
BundleLen == 8 + 32 + 4 + 32 + 64 + 37 + 4 + 2 + 1184 + 64 + 1

need_buffer(buffer, bound) == buffer < bound

\* copy_out, and the copies with a test of their own
Fits(buffer, len) == len <= buffer

------------------------------------------------------------------------------
(* The engine behind a handle.  A bundle names the one-time prekey it offers  *)
(* or LastResort; a session id names the engine and counts its sessions.      *)

LastResort == 0

EngineOf(id, pool, nextKey, made, sessions) ==
    [id |-> id, pool |-> pool, nextKey |-> nextKey, made |-> made,
     sessions |-> sessions]

NewEngine(id) == EngineOf(id, {}, 1, 0, [s \in {} |-> 0])

WithPool(e, pool, nextKey) == EngineOf(e.id, pool, nextKey, e.made, e.sessions)

WithSessions(e, sessions) == EngineOf(e.id, e.pool, e.nextKey, e.made, sessions)

Session(hs, side) == [hs |-> hs, side |-> side, sent |-> 0, got |-> {}]

Sent(sess) == [sess EXCEPT !.sent = @ + 1]
Accepted(sess, m) == [sess EXCEPT !.got = @ \cup {m}]

NextSid(e) == <<e.id, e.made + 1>>

AddSession(e, sess) ==
    EngineOf(e.id, e.pool, e.nextKey, e.made + 1,
             [s \in DOMAIN e.sessions \cup {NextSid(e)} |->
                 IF s = NextSid(e) THEN sess ELSE e.sessions[s]])

Message(hs, side, n, len) == [hs |-> hs, side |-> side, n |-> n, len |-> len]

Ok(e, out) == [err |-> "Ok", e |-> e, out |-> out]
Err(code) == [err |-> code]

\* The pool is filled up to count; any key of it may be the one offered.
generate_public_prekey_bundle(e, count) ==
    LET missing == IF Cardinality(e.pool) < count
                   THEN count - Cardinality(e.pool) ELSE 0
        filled == WithPool(e, e.pool \cup e.nextKey .. e.nextKey + missing - 1,
                           e.nextKey + missing)
    IN  {Ok(filled, <<e.id, k>>) :
            k \in IF filled.pool = {} THEN {LastResort} ELSE filled.pool}

establish_outbound_session(e, bundle, len) ==
    LET hs == NextSid(e)
    IN  Ok(AddSession(e, Session(hs, "initiator")),
           [hs |-> hs, bundle |-> bundle,
            first |-> Message(hs, "initiator", 0, len)])

process_inbound_session(e, p) ==
    IF p.bundle[1] /= e.id THEN Err("CryptoFailure")
    ELSE IF p.bundle[2] \notin e.pool \cup {LastResort} THEN Err("CryptoFailure")
    ELSE Ok(AddSession(WithPool(e, e.pool \ {p.bundle[2]}, e.nextKey),
                       Accepted(Session(p.hs, "responder"), p.first)),
            p.first)

encrypt(e, sid, len) ==
    LET sess == e.sessions[sid]
    IN  IF sid \notin DOMAIN e.sessions THEN Err("StateError")
        ELSE Ok(WithSessions(e, [e.sessions EXCEPT ![sid] = Sent(@)]),
                Message(sess.hs, sess.side, sess.sent + 1, len))

decrypt(e, sid, m) ==
    LET sess == e.sessions[sid]
    IN  IF sid \notin DOMAIN e.sessions THEN Err("StateError")
        ELSE IF m \in sess.got THEN Err("StateError")
        ELSE IF m.hs /= sess.hs \/ m.side = sess.side THEN Err("CryptoFailure")
        ELSE Ok(WithSessions(e, [e.sessions EXCEPT ![sid] = Accepted(@, m)]), m)

delete_session(e, sid) ==
    IF sid \notin DOMAIN e.sessions THEN Err("StateError")
    ELSE Ok(WithSessions(e, [s \in DOMAIN e.sessions \ {sid} |-> e.sessions[s]]),
            sid)

------------------------------------------------------------------------------
(* Calls *)

Init ==
    /\ next = 1
    /\ engines = [h \in {} |-> 0]
    /\ created = 0
    /\ handles = {} /\ bundles = {} /\ packets = {} /\ sealed = {}
    /\ known = {} /\ handed = {}

\* Mutant of alloc: the first free number
AllocFree(n, table) ==
    LET free == {h \in 1 .. U64Max - 1 : h \notin table}
    IN  IF free = {} THEN [err |-> "LimitExceeded", next |-> n]
        ELSE [err |-> "Ok", next |-> n,
              h |-> CHOOSE h \in free : \A k \in free : h <= k]

\* Registry::alloc; table are the handles in use, which it does not look at
alloc(n, table) ==
    IF n = U64Max THEN [err |-> "LimitExceeded", next |-> n]
    ELSE [err |-> "Ok", next |-> n + 1, h |-> n]

\* The engine is initialized, and its secrets made, before a handle is sought.
vc_engine_create ==
    LET a == alloc(next, DOMAIN engines)
        e == NewEngine(created + 1)
    IN  /\ created < MaxCreated
        /\ created' = created + 1
        /\ next' = a.next
        /\ IF a.err = "Ok"
           THEN /\ engines' = [h \in DOMAIN engines \cup {a.h} |->
                                 IF h = a.h THEN e ELSE engines[h]]
                /\ handles' = handles \cup {<<a.h, e.id>>}
           ELSE UNCHANGED <<engines, handles>>
        /\ UNCHANGED <<bundles, packets, sealed, known, handed>>

vc_engine_destroy(h) ==
    /\ h \in DOMAIN engines
    /\ engines' = [k \in DOMAIN engines \ {h} |-> engines[k]]
    /\ UNCHANGED <<next, created, outputs>>

\* The engine's answer to the call, or NotFound.  An operation that fails
\* leaves the engine as it was.
Answer(h, r) == IF h \notin DOMAIN engines THEN Err("NotFound") ELSE r

Commit(h, r) ==
    engines' = IF r.err = "Ok" THEN [engines EXCEPT ![h] = r.e] ELSE engines

vc_generate_bundle(h, count, buffer) ==
    /\ h \in DOMAIN engines
    /\ ~need_buffer(buffer, BUNDLE_BOUND)
    /\ \E r \in generate_public_prekey_bundle(engines[h], count) :
        /\ engines' = [engines EXCEPT ![h] = r.e]
        /\ bundles' = IF Fits(buffer, BundleLen) THEN bundles \cup {r.out}
                                                 ELSE bundles
    /\ UNCHANGED <<next, created, handles, packets, sealed, known, handed>>

vc_establish_outbound(h, bundle, len, buffer) ==
    LET r == Answer(h, establish_outbound_session(engines[h], bundle, len))
        returned == r.err = "Ok" /\ Fits(buffer, PacketLen(len))
    IN  /\ ~need_buffer(buffer, packet_bound(len))
        /\ Commit(h, r)
        /\ packets' = IF returned THEN packets \cup {r.out} ELSE packets
        /\ known' = IF returned THEN known \cup {<<h, r.out.hs>>} ELSE known
        /\ UNCHANGED <<next, created, handles, bundles, sealed, handed>>

vc_process_inbound(h, p, buffer) ==
    LET r == Answer(h, process_inbound_session(engines[h], p))
        sid == NextSid(engines[h])
        returned == r.err = "Ok" /\ Fits(buffer, p.first.len)
    IN  /\ ~need_buffer(buffer, PT_BOUND)
        /\ Commit(h, r)
        /\ known' = IF returned THEN known \cup {<<h, sid>>} ELSE known
        /\ handed' = IF returned THEN handed \cup {<<sid, r.out>>} ELSE handed
        /\ UNCHANGED <<next, created, handles, bundles, packets, sealed>>

vc_encrypt(h, sid, len, buffer) ==
    LET r == Answer(h, encrypt(engines[h], sid, len))
        returned == r.err = "Ok" /\ Fits(buffer, SealedLen(len))
    IN  /\ ~need_buffer(buffer, sealed_bound(len))
        /\ Commit(h, r)
        /\ sealed' = IF returned THEN sealed \cup {r.out} ELSE sealed
        /\ UNCHANGED <<next, created, handles, bundles, packets, known, handed>>

\* The message is committed as received before its plaintext is copied out.
vc_decrypt(h, sid, m, buffer) ==
    LET r == Answer(h, decrypt(engines[h], sid, m))
        returned == r.err = "Ok" /\ Fits(buffer, m.len)
    IN  /\ ~need_buffer(buffer, PT_BOUND)
        /\ Commit(h, r)
        /\ handed' = IF returned THEN handed \cup {<<sid, m>>} ELSE handed
        /\ UNCHANGED <<next, created, handles, bundles, packets, sealed, known>>

vc_delete_session(h, sid) ==
    /\ Commit(h, Answer(h, delete_session(engines[h], sid)))
    /\ UNCHANGED <<next, created, outputs>>

NUMERIC_DIGIT_COUNT == 60
NoBuffer == <<>>    \* a null pointer for the decimal form
ZeroKey == 0        \* the key X25519Public::from_bytes refuses

\* numeric is an option, the length of the buffer for the decimal form.  The
\* binary form is written before that length is looked at.
vc_fingerprint(a, b, numeric) ==
    IF ZeroKey \in {a.key, b.key} THEN [err |-> "CryptoFailure"]
    ELSE [binary |-> compute_fingerprint(a, b),
          err |-> IF numeric /= NoBuffer /\ ~Fits(numeric[1], NUMERIC_DIGIT_COUNT)
                  THEN "InvalidArgument" ELSE "Ok"]

\* The callers pass what the interface has returned to them, a session id with
\* the handle it came from.
MayMake(h) == h \in DOMAIN engines => engines[h].made < MaxMade

Next ==
    \/ vc_engine_create
    \/ \E e \in handles, buffer \in Buffer :
        \/ \E count \in Count : vc_generate_bundle(e[1], count, buffer)
        \/ \E b \in bundles, len \in PtLen :
              MayMake(e[1]) /\ vc_establish_outbound(e[1], b, len, buffer)
        \/ \E p \in packets : MayMake(e[1]) /\ vc_process_inbound(e[1], p, buffer)
    \/ \E s \in known, buffer \in Buffer :
        \/ \E len \in PtLen :
              /\ Cardinality(sealed) < MaxSealed
              /\ vc_encrypt(s[1], s[2], len, buffer)
        \/ \E m \in sealed : vc_decrypt(s[1], s[2], m, buffer)
    \/ \E s \in known : vc_delete_session(s[1], s[2])
    \/ \E e \in handles : vc_engine_destroy(e[1])

Spec == Init /\ [][Next]_vars

------------------------------------------------------------------------------
(* Properties *)

(***************************************************************************)
(* A handle names one engine for ever: alloc never returns a number twice, *)
(* so a call prepared before its engine was destroyed and others created   *)
(* finds that engine or nothing, never another one's keys.                 *)
(***************************************************************************)
HandleNamesOneEngine ==
    /\ \A p, q \in handles : p[1] = q[1] => p = q
    /\ \A h \in DOMAIN engines : <<h, engines[h].id>> \in handles

(***************************************************************************)
(* An engine commits a decryption before its plaintext is copied out, and  *)
(* a second attempt is refused as a replay.  The size query that comes     *)
(* first keeps every message up to its bound of 4096 bytes from being lost *)
(* that way, and so the session id of every inbound handshake whose first  *)
(* message is within the bound.                                            *)
(***************************************************************************)
LostOnlyOversize ==
    \A h \in DOMAIN engines : \A sid \in DOMAIN engines[h].sessions :
        LET sess == engines[h].sessions[sid]
        IN  \A m \in sess.got :
               m.len <= 4096 => <<h, sid>> \in known /\ <<sid, m>> \in handed

(***************************************************************************)
(* Nothing an engine has sent stays inside: every number of a sending      *)
(* chain that vc_encrypt used belongs to a ciphertext its caller received, *)
(* and the initiator of every session received its packet.  The bounds of  *)
(* packet_bound and sealed_bound cover what encode writes.                 *)
(***************************************************************************)
SentIsReturned ==
    \A h \in DOMAIN engines : \A sid \in DOMAIN engines[h].sessions :
        LET sess == engines[h].sessions[sid]
        IN  /\ sess.side = "initiator" =>
                  <<h, sid>> \in known /\ \E p \in packets : p.hs = sess.hs
            /\ \A n \in 1 .. sess.sent : \E m \in sealed :
                  m.hs = sess.hs /\ m.side = sess.side /\ m.n = n

(***************************************************************************)
(* The two parties of a pair see one fingerprint, whoever computes it and  *)
(* whatever buffer is passed for its decimal form, and it shows the key    *)
(* and device of both.  Ordering by key and then device (canonical_order)  *)
(* must agree with what compute_fingerprint hashes, also for two devices   *)
(* of one identity and for absent device ids.  In every state the identity *)
(* created last is compared with all so far, which covers every pair.      *)
(***************************************************************************)
FingerprintsAgree ==
    LET Material == [key : 1 .. created,
                     device : {NoDevice} \cup {<<d>> : d \in EmptyId .. 1}]
        Seen(m) == <<m.key, DeviceBytes(m)>>
    IN  \A a, b \in Material : a.key = created =>
           LET f == vc_fingerprint(a, b, NoBuffer).binary
           IN  /\ f = vc_fingerprint(b, a, <<0>>).binary
               /\ {<<f[1], f[2]>>, <<f[3], f[4]>>} = {Seen(a), Seen(b)}
=============================================================================
