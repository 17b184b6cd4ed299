------------------------------- MODULE Engine -------------------------------
(***************************************************************************)
(* VoiceChatCryptoEngine (src/engine/mod.rs) on several devices: prekey    *)
(* bundles and their one-time keys (src/prekeys/mod.rs), the PQXDH         *)
(* handshake (src/pqxdh/mod.rs), sessions over the classical Double        *)
(* Ratchet, the replay cache (src/replay/mod.rs), the trust store          *)
(* (src/fingerprint/mod.rs), and what of all this is committed to storage  *)
(* (src/storage/mod.rs) and survives a crash.                              *)
(*                                                                         *)
(* The transport keeps every packet and sealed message ever produced and   *)
(* hands any of them to any device and session at any time.  Everything    *)
(* random (keys, KEM randomness, session ids) is named <<device, n>>, the  *)
(* n-th thing that device has drawn.                                       *)
(***************************************************************************)
EXTENDS DoubleRatchetState, Bags

CONSTANTS
    Device,         \* devices; a device stands for its identity key as well
    EmptyDeviceId,  \* the device id of length zero
    ReplayCapacity, \* capacity of the replay cache
    Instances       \* the bounds explored, records of
                    \*   conversations, device_ids: what the callers pass
                    \*   one_time: on one_time_count
                    \*   bundles, sessions: on the bundles published and the
                    \*     outbound sessions established
                    \*   messages: on the messages sealed after the first ones
                    \*   accepted: on the plaintexts handed out before a handshake
                    \*   own_bundles: whether a device may also open a session
                    \*     with itself

ASSUME ReplayCapacityAssumption == ReplayCapacity \in Nat \ {0}

VARIABLES
    bounds,     \* the member of Instances this behaviour keeps to
    prekeys,    \* prekeys[d]: the PrekeyStore
    sessions,   \* sessions[d]: session id -> LiveSession
    replay,     \* replay[d]: the keys of the ReplayCache, oldest first
    trust,      \* trust[d]: identity -> TrustRecord
    stored,     \* stored[d]: the committed blobs
    drawn,      \* drawn[d]: how much randomness d has used
    bundles,    \* every bundle published
    packets,    \* every InitiationPacket sent
    messages,   \* every other SealedMessage sent
    accepted,   \* bag of <<d, sid, sealed>>: plaintexts handed to d's application
    inbound,    \* inbound[d]: packets d has accepted
    acked       \* acked[d][i]: device id option d's user last verified i with

Persist == INSTANCE EngineCodec

volatile == <<prekeys, sessions, replay, trust>>
network == <<bundles, packets, messages>>
history == <<accepted, inbound, acked>>
vars == <<bounds, volatile, stored, drawn, network, history>>

Some(x) == <<x>>
DeviceIdOption ==
    IF bounds.device_ids = {} THEN {}
    ELSE {None} \cup {Some(x) : x \in bounds.device_ids}

\* Map update: HashMap::insert and HashMap::remove
Put(f, k, v) == [x \in DOMAIN f \cup {k} |-> IF x = k THEN v ELSE f[x]]
Del(f, k) == [x \in DOMAIN f \ {k} |-> f[x]]
EmptyMap == [x \in {} |-> None]

------------------------------------------------------------------------------
(* Keys *)

IdentityKey(d) == <<d, 0>>
SignedPrekey(d) == <<d, 1>>
LastResortPq(d) == <<d, 2>>
FirstDraw == 2

Draw(d, i) == <<d, drawn[d] + i>>

\* The signed prekey and the last-resort prekey have id 1, one-time keys have
\* ids from 2 on; 0 stands for an absent one-time key.
SignedId == 1
LastResortId == 1
NoId == 0

\* ML-KEM: encapsulation with randomness r yields the ciphertext r and the
\* secret {key, r}; another key decapsulates it to an unrelated secret.
kem(key, r) == {key, r}

\* The key material of a handshake; the fourth DH only with a one-time key
pqxdh_kdf(dh1, dh2, dh3, dh4, ss) == <<dh1, dh2, dh3, dh4, ss>>

alice_initiate(a, b, ek, r) ==
    LET ss == kem(b.pq, r)
        dh4 == IF b.ec_id = NoId THEN {} ELSE diffie_hellman(ek, b.ec)
    IN  [sk |-> pqxdh_kdf(diffie_hellman(IdentityKey(a), b.signed),
                          diffie_hellman(ek, IdentityKey(b.owner)),
                          diffie_hellman(ek, b.signed), dh4, ss),
         ad |-> <<IdentityKey(a), IdentityKey(b.owner), b.pq>>]

\* ec and pq are the responder's keys under the ids of the packet
bob_process(d, p, ec, pq) ==
    LET dh4 == IF p.used_ec_opk_id = NoId THEN {}
               ELSE diffie_hellman(p.ephemeral, ec)
    IN  [sk |-> pqxdh_kdf(diffie_hellman(IdentityKey(p.sender), SignedPrekey(d)),
                          diffie_hellman(p.ephemeral, IdentityKey(d)),
                          diffie_hellman(p.ephemeral, SignedPrekey(d)), dh4,
                          kem(pq, p.kem_ciphertext)),
         ad |-> <<IdentityKey(p.sender), IdentityKey(d), pq>>]

------------------------------------------------------------------------------
(* PrekeyStore *)

NewPrekeyStore == [ec |-> EmptyMap, pq |-> EmptyMap, next_ec |-> 2, next_pq |-> 2]

\* New one-time keys for the ids from next on, until there are count
Replenished(keys, next, count, firstKey) ==
    LET missing == IF count > Cardinality(DOMAIN keys)
                   THEN count - Cardinality(DOMAIN keys) ELSE 0
    IN  [keys |-> [id \in DOMAIN keys \cup next .. next + missing - 1 |->
                     IF id < next THEN keys[id]
                     ELSE <<firstKey[1], firstKey[2] + (id - next)>>],
         next |-> next + missing]

\* ec keys are drawn first, then pq keys
replenish(store, count, firstKey) ==
    LET ec == Replenished(store.ec, store.next_ec, count, firstKey)
        new == ec.next - store.next_ec
        pq == Replenished(store.pq, store.next_pq, count,
                          <<firstKey[1], firstKey[2] + new>>)
    IN  [ec |-> ec.keys, next_ec |-> ec.next, pq |-> pq.keys, next_pq |-> pq.next]

\* public_bundle offers whichever one-time keys the hash maps yield first, and
\* the last-resort key when there is no one-time pq key.
public_bundles(d, store) ==
    {[owner |-> d, signed_id |-> SignedId, signed |-> SignedPrekey(d),
      ec_id |-> e, ec |-> IF e = NoId THEN None ELSE store.ec[e],
      pq_id |-> q, pq |-> IF q = LastResortId THEN LastResortPq(d) ELSE store.pq[q]] :
        e \in IF store.ec = EmptyMap THEN {NoId} ELSE DOMAIN store.ec,
        q \in IF store.pq = EmptyMap THEN {LastResortId} ELSE DOMAIN store.pq}

\* Mutant of Consume: the key stays in the map
ConsumeKeeps(keys, id) == keys

Consume(keys, id) == Del(keys, id)

------------------------------------------------------------------------------
(* ReplayCache *)

\* The header and the first bytes of the ciphertext stand for the message.
replay_key(sid, sealed) == <<sid, sealed>>

contains(cache, key) == \E i \in 1 .. Len(cache) : cache[i] = key

check_and_insert(cache, key) ==
    Append(IF Len(cache) >= ReplayCapacity THEN Tail(cache) ELSE cache, key)

------------------------------------------------------------------------------
(* TrustStore: identity -> [device, acknowledged] *)

\* Mutant of record_seen: insert in place of entry().or_insert()
RecordSeenInserts(t, i) == Put(t, i, [device |-> None, acknowledged |-> FALSE])

record_seen(t, i) ==
    IF i \in DOMAIN t THEN t
    ELSE Put(t, i, [device |-> None, acknowledged |-> FALSE])

\* dev is an Option: callers may verify an identity without a device id.
acknowledge(t, i, dev) == Put(t, i, [device |-> dev, acknowledged |-> TRUE])

\* remote_identity_state of a trust store: IdentityTracker::observe
IdentityStateOf(t, i, dev) ==
    IF i \notin DOMAIN t \/ ~t[i].acknowledged THEN "Unknown"
    ELSE IF t[i].device = dev THEN "Verified" ELSE "IdentityChanged"

------------------------------------------------------------------------------
(* Storage: one transaction writes all its blobs.  The identity key pair is  *)
(* written with the prekeys and never changes; it has no field of its own.   *)
(* What is stored is kept here as it was before it was serialized, and goes  *)
(* through both conversions when it is read back; an empty device id is      *)
(* written like an absent one.                                               *)

TrustBlob(t) ==
    Some([i \in DOMAIN t |->
            IF t[i].device = Some(EmptyDeviceId)
            THEN [t[i] EXCEPT !.device = None] ELSE t[i]])

persist_device_state(db, pk, rp, tr) ==
    [db EXCEPT !.prekeys = Some(pk), !.replay = Some(rp), !.trust = TrustBlob(tr)]

\* Mutant of persist_session_aux: the session is left out once it is there
PersistAuxOnly(db, sid, sess, rp, tr) ==
    [db EXCEPT !.sessions = IF sid \in DOMAIN @ THEN @ ELSE Put(@, sid, sess),
               !.replay = Some(rp), !.trust = TrustBlob(tr)]

persist_session_aux(db, sid, sess, rp, tr) ==
    [db EXCEPT !.sessions = Put(db.sessions, sid, sess),
               !.replay = Some(rp), !.trust = TrustBlob(tr)]

\* Mutant of persist_handshake: the prekey store is left out
PersistWithoutPrekeys(db, pk, sid, sess, rp, tr) ==
    [db EXCEPT !.sessions = Put(db.sessions, sid, sess),
               !.replay = Some(rp), !.trust = TrustBlob(tr)]

persist_handshake(db, pk, sid, sess, rp, tr) ==
    [db EXCEPT !.prekeys = Some(pk), !.sessions = Put(db.sessions, sid, sess),
               !.replay = Some(rp), !.trust = TrustBlob(tr)]

\* What is read back of a stored session, prekey store and replay cache
SessionsRead(db) ==
    LET read == {Persist!decode_session(Persist!encode_session(sid, db.sessions[sid])) :
                    sid \in DOMAIN db.sessions}
    IN  [id \in {r.sid : r \in read} |-> (CHOOSE r \in read : r.sid = id).sess]

PrekeysRead(pk) == Persist!prekeys_deserialize(Persist!prekeys_serialize(pk)).st

ReplayRead(rp) == Persist!replay_deserialize(Persist!replay_serialize(rp)).st

NoBlobs == [prekeys |-> None, sessions |-> EmptyMap, replay |-> None, trust |-> None]

------------------------------------------------------------------------------

\* Mutant of bound_ad: the conversation is not bound
AdWithoutConversation(sess) == <<sess.handshake_ad, None>>

\* The caller's own associated data is the same at both ends.
bound_ad(sess) == <<sess.handshake_ad, sess.conversation>>

LiveSession(ratchet, remote, conv, ad) ==
    [ratchet |-> ratchet, remote |-> remote, conversation |-> conv,
     handshake_ad |-> ad]

SealedFrom(r) == [header |-> r.header, ct |-> r.ct]

Sealed == messages \cup {p.first_message : p \in packets}

\* initialize_device: a new identity, a new prekey store, persisted
Init ==
    /\ bounds \in Instances
    /\ prekeys = [d \in Device |-> NewPrekeyStore]
    /\ sessions = [d \in Device |-> EmptyMap]
    /\ replay = [d \in Device |-> <<>>]
    /\ trust = [d \in Device |-> EmptyMap]
    /\ stored = [d \in Device |->
                    persist_device_state(NoBlobs, NewPrekeyStore, <<>>, EmptyMap)]
    /\ drawn = [d \in Device |-> FirstDraw]
    /\ bundles = {} /\ packets = {} /\ messages = {}
    /\ accepted = EmptyBag
    /\ inbound = [d \in Device |-> {}]
    /\ acked = [d \in Device |-> EmptyMap]

\* generate_public_prekey_bundle, replenish_prekeys
GenerateBundle(d, count) ==
    LET store == replenish(prekeys[d], count, Draw(d, 1))
    IN  /\ Cardinality(bundles) < bounds.bundles
        /\ prekeys' = [prekeys EXCEPT ![d] = store]
        /\ drawn' = [drawn EXCEPT ![d] =
                        @ + (store.next_ec - prekeys[d].next_ec)
                          + (store.next_pq - prekeys[d].next_pq)]
        /\ stored' = [stored EXCEPT ![d] =
                         persist_device_state(@, store, replay[d], trust[d])]
        /\ \E b \in public_bundles(d, store) : bundles' = bundles \cup {b}
        /\ UNCHANGED <<bounds, sessions, replay, trust, packets, messages, history>>

\* establish_outbound_session; its call of encrypt makes the first message
EstablishOutbound(d, b, conv) ==
    LET ek == Draw(d, 1)
        sid == Draw(d, 2)
        shared == alice_initiate(d, b, ek, Draw(d, 3))
        st == init_alice(<<shared.sk>>, Draw(d, 4), b.signed)
        sess == LiveSession(st, b.owner, conv, shared.ad)
        r == encrypt(st, sid, bound_ad(sess))
        tr == record_seen(trust[d], b.owner)
    IN  /\ Cardinality(packets) < bounds.sessions
        /\ trust' = [trust EXCEPT ![d] = tr]
        /\ sessions' = [sessions EXCEPT ![d] =
                           Put(@, sid, [sess EXCEPT !.ratchet = r.st])]
        /\ stored' = [stored EXCEPT ![d] =
                         persist_session_aux(@, sid, sessions'[d][sid], replay[d], tr)]
        /\ packets' = packets \cup
              {[sender |-> d, ephemeral |-> ek, kem_ciphertext |-> Draw(d, 3),
                used_spk_id |-> b.signed_id, used_ec_opk_id |-> b.ec_id,
                pq_prekey_id |-> b.pq_id, first_message |-> SealedFrom(r),
                to |-> b.owner]}
        /\ drawn' = [drawn EXCEPT ![d] = @ + 4]
        /\ UNCHANGED <<bounds, prekeys, replay, bundles, messages, history>>

\* Bob's session for packet p and his attempt to open its first message
InboundSession(d, p, conv) ==
    LET pq == IF p.pq_prekey_id = LastResortId THEN LastResortPq(d)
              ELSE prekeys[d].pq[p.pq_prekey_id]
        ec == IF p.used_ec_opk_id = NoId THEN None
              ELSE prekeys[d].ec[p.used_ec_opk_id]
        shared == bob_process(d, p, ec, pq)
        sess == LiveSession(init_bob(<<shared.sk>>, SignedPrekey(d)), p.sender,
                            conv, shared.ad)
        r == decrypt(sess.ratchet, p.first_message.header, p.first_message.ct,
                     bound_ad(sess), Draw(d, 2))
    IN  [err |-> r.err, sess |-> [sess EXCEPT !.ratchet = r.st]]

\* The checks of process_inbound_session before it computes anything
PrekeysKnown(d, p) ==
    /\ p.used_spk_id = SignedId
    /\ p.used_ec_opk_id \in DOMAIN prekeys[d].ec \cup {NoId}
    /\ p.pq_prekey_id \in DOMAIN prekeys[d].pq \cup {LastResortId}

Acceptable(d, p, conv) ==
    PrekeysKnown(d, p) /\ InboundSession(d, p, conv).err = "ok"

\* process_inbound_session: one transaction for the session, the consumed
\* one-time keys, the replay cache and the trust store
ProcessInbound(d, p, conv) ==
    LET sid == Draw(d, 1)
        opened == InboundSession(d, p, conv)
        sess == opened.sess
        rp == check_and_insert(replay[d], replay_key(sid, p.first_message))
        tr == record_seen(trust[d], p.sender)
        pk == [prekeys[d] EXCEPT !.ec = Consume(@, p.used_ec_opk_id),
                                 !.pq = Consume(@, p.pq_prekey_id)]
    IN  /\ BagCardinality(accepted) < bounds.accepted
        /\ PrekeysKnown(d, p) /\ opened.err = "ok"
        /\ sessions' = [sessions EXCEPT ![d] = Put(@, sid, sess)]
        /\ replay' = [replay EXCEPT ![d] = rp]
        /\ trust' = [trust EXCEPT ![d] = tr]
        /\ prekeys' = [prekeys EXCEPT ![d] = pk]
        /\ stored' = [stored EXCEPT ![d] =
                         persist_handshake(@, pk, sid, sess, rp, tr)]
        /\ drawn' = [drawn EXCEPT ![d] = @ + 2]
        /\ accepted' = accepted (+) SetToBag({<<d, sid, p.first_message>>})
        /\ inbound' = [inbound EXCEPT ![d] = @ \cup {p}]
        /\ UNCHANGED <<bounds, network, acked>>

\* Mutant of ProcessInboundFails: the one-time keys are consumed, not peeked
ConsumesOnFailure(d, p, conv) ==
    /\ ~Acceptable(d, p, conv)
    /\ prekeys' = [prekeys EXCEPT ![d].ec = Consume(@, p.used_ec_opk_id)]
    /\ UNCHANGED <<bounds, sessions, replay, trust, stored, drawn, network, history>>

\* It fails before the session exists, or the first message does not open and
\* the session is removed again; the sender stays in the trust store, in
\* memory only.
ProcessInboundFails(d, p, conv) ==
    /\ ~Acceptable(d, p, conv)
    /\ trust' = [trust EXCEPT ![d] =
                    IF PrekeysKnown(d, p) THEN record_seen(@, p.sender) ELSE @]
    /\ UNCHANGED <<bounds, prekeys, sessions, replay, stored, drawn, network, history>>

\* encrypt: the ciphertext is returned after the new state is committed.  A
\* session that exists can encrypt: Alice's from the start, Bob's because it
\* has received.
Encrypt(d, sid) ==
    LET sess == sessions[d][sid]
        r == encrypt(sess.ratchet, <<d, Cardinality(messages)>>, bound_ad(sess))
        new == [sess EXCEPT !.ratchet = r.st]
    IN  /\ Cardinality(messages) < bounds.messages
        /\ r.err = "ok"
        /\ sessions' = [sessions EXCEPT ![d] = Put(@, sid, new)]
        /\ stored' = [stored EXCEPT ![d] =
                         persist_session_aux(@, sid, new, replay[d], trust[d])]
        /\ messages' = messages \cup {SealedFrom(r)}
        /\ UNCHANGED <<bounds, prekeys, replay, trust, drawn, bundles, packets, history>>

\* apply_decrypt: the replay check, then the ratchet on a trial copy
apply_decrypt(d, sid, m) ==
    LET sess == sessions[d][sid]
    IN  IF contains(replay[d], replay_key(sid, m))
        THEN [err |-> "Replay", st |-> sess.ratchet]
        ELSE decrypt(sess.ratchet, m.header, m.ct, bound_ad(sess), Draw(d, 1))

\* Mutant of Decrypt: the plaintext is returned without a commit
DecryptUncommitted(d, sid, m) ==
    LET r == apply_decrypt(d, sid, m)
    IN  /\ r.err = "ok"
        /\ sessions' = [sessions EXCEPT ![d][sid].ratchet = r.st]
        /\ replay' = [replay EXCEPT ![d] =
                         check_and_insert(@, replay_key(sid, m))]
        /\ drawn' = [drawn EXCEPT ![d] = @ + 1]
        /\ accepted' = accepted (+) SetToBag({<<d, sid, m>>})
        /\ UNCHANGED <<bounds, prekeys, trust, stored, network, inbound, acked>>

Decrypt(d, sid, m) ==
    LET r == apply_decrypt(d, sid, m)
        new == [sessions[d][sid] EXCEPT !.ratchet = r.st]
        rp == check_and_insert(replay[d], replay_key(sid, m))
    IN  /\ r.err = "ok"
        /\ sessions' = [sessions EXCEPT ![d] = Put(@, sid, new)]
        /\ replay' = [replay EXCEPT ![d] = rp]
        /\ stored' = [stored EXCEPT ![d] =
                         persist_session_aux(@, sid, new, rp, trust[d])]
        /\ drawn' = [drawn EXCEPT ![d] =
                        IF r.st.dhs = sessions[d][sid].ratchet.dhs THEN @ ELSE @ + 1]
        /\ accepted' = accepted (+) SetToBag({<<d, sid, m>>})
        /\ UNCHANGED <<bounds, prekeys, trust, network, inbound, acked>>

\* A replay, or a message that does not open, leaves no trace.
DecryptFails(d) ==
    /\ ~ \A x \in (DOMAIN sessions[d]) \X Sealed : apply_decrypt(d, x[1], x[2]).err = "ok"
    /\ UNCHANGED vars

\* acknowledge_identity_change; the trackers inside the sessions are read by
\* nothing else and left out.
AcknowledgeIdentity(d, i, dev) ==
    /\ trust' = [trust EXCEPT ![d] = acknowledge(@, i, dev)]
    /\ stored' = [stored EXCEPT ![d] =
                     persist_device_state(@, prekeys[d], replay[d], trust'[d])]
    /\ acked' = [acked EXCEPT ![d] = Put(@, i, dev)]
    /\ UNCHANGED <<bounds, prekeys, sessions, replay, drawn, network, accepted, inbound>>

\* Mutant of DeleteSession: the blob is not deleted
DeleteSessionInMemory(d, sid) ==
    /\ sessions' = [sessions EXCEPT ![d] = Del(@, sid)]
    /\ UNCHANGED <<bounds, prekeys, replay, trust, stored, drawn, network, history>>

DeleteSession(d, sid) ==
    /\ sessions' = [sessions EXCEPT ![d] = Del(@, sid)]
    /\ stored' = [stored EXCEPT ![d].sessions = Del(@, sid)]
    /\ UNCHANGED <<bounds, prekeys, replay, trust, drawn, network, history>>

\* delete_all_sessions clears the whole store, not only the sessions.
DeleteAllSessions(d) ==
    /\ sessions' = [sessions EXCEPT ![d] = EmptyMap]
    /\ stored' = [stored EXCEPT ![d] = NoBlobs]
    /\ UNCHANGED <<bounds, prekeys, replay, trust, drawn, network, history>>

\* simulate_crash_reload: the sessions are the committed ones, the rest is
\* replaced by its blob where there is one.
CrashReload(d) ==
    LET Reload(blob, mem, Read(_)) == IF blob = None THEN mem ELSE Read(blob[1])
        TrustRead(t) == t
    IN  /\ sessions' = [sessions EXCEPT ![d] = SessionsRead(stored[d])]
        /\ prekeys' = [prekeys EXCEPT ![d] =
                          Reload(stored[d].prekeys, @, PrekeysRead)]
        /\ replay' = [replay EXCEPT ![d] = Reload(stored[d].replay, @, ReplayRead)]
        /\ trust' = [trust EXCEPT ![d] = Reload(stored[d].trust, @, TrustRead)]
        /\ UNCHANGED <<bounds, stored, drawn, network, history>>

\* The bundles the application of d opens sessions with
Offered(d) == {b \in bundles : b.owner /= d \/ bounds.own_bundles}

Next ==
    \E d \in Device :
        \/ \E n \in 0 .. bounds.one_time : GenerateBundle(d, n)
        \/ \E b \in Offered(d), c \in bounds.conversations : EstablishOutbound(d, b, c)
        \/ \E p \in packets, c \in bounds.conversations : ProcessInbound(d, p, c)
        \/ \E p \in packets, c \in bounds.conversations : ProcessInboundFails(d, p, c)
        \/ \E s \in DOMAIN sessions[d] : Encrypt(d, s)
        \/ \E s \in DOMAIN sessions[d], m \in Sealed : Decrypt(d, s, m)
        \/ DecryptFails(d)
        \/ \E i \in Device, dev \in DeviceIdOption : AcknowledgeIdentity(d, i, dev)
        \/ \E s \in DOMAIN sessions[d] : DeleteSession(d, s)
        \/ DeleteAllSessions(d)
        \/ CrashReload(d)

Spec == Init /\ [][Next]_vars

------------------------------------------------------------------------------
(* Properties *)

\* No message key is used for two sealed messages, whatever crashes happen
\* between two calls of encrypt: the ciphertext is released after the commit.
KeyUsedOnce ==
    \A m1, m2 \in Sealed : m1.ct.mk = m2.ct.mk => m1 = m2

\* The packets that carry no one-time key
Reusable(p) == p.used_ec_opk_id = NoId /\ p.pq_prekey_id = LastResortId

SameHandshake(m, p) == m.ct.mk[1][1] = p.first_message.ct.mk[1][1]

\* The application is handed a sealed message at most once in a session, with
\* a replay cache that has long evicted it and across crashes; and it is
\* handed it in one session only, unless it belongs to a handshake without
\* one-time keys, whose packet may be accepted again.
AcceptedOnce ==
    \A x, y \in BagToSet(accepted) :
        /\ CopiesIn(x, accepted) = 1
        /\ x[1] = y[1] /\ x[3] = y[3] /\ x[2] /= y[2] =>
               \E p \in packets : Reusable(p) /\ SameHandshake(x[3], p)

\* "Accepted message /= second application event" (docs/SECURITY_INVARIANTS.md)
ReplayRejection ==
    \A x, y \in BagToSet(accepted) :
        x[1] = y[1] /\ x[3] = y[3] => x = y /\ CopiesIn(x, accepted) = 1

\* A one-time prekey, ec or pq, serves at most one accepted handshake, and an
\* id stands for one key forever: reload never brings a consumed key back.
OneTimeKeysUsedOnce ==
    \A d \in Device : \A p1, p2 \in inbound[d] :
        p1 /= p2 =>
            /\ p1.used_ec_opk_id = p2.used_ec_opk_id => p1.used_ec_opk_id = NoId
            /\ p1.pq_prekey_id = p2.pq_prekey_id => p1.pq_prekey_id = LastResortId

\* The one-time keys of p have gone into an accepted handshake
KeysSpent(d, p) ==
    \E q \in inbound[d] :
        \/ p.used_ec_opk_id /= NoId /\ q.used_ec_opk_id = p.used_ec_opk_id
        \/ p.pq_prekey_id /= LastResortId /\ q.pq_prekey_id = p.pq_prekey_id

SenderConversation(p) == p.first_message.ct.ad[1][2]

\* An initiation packet stays acceptable to the device whose bundle it was
\* made from until its one-time keys are spent: failed attempts (another
\* conversation), crashes and deletions do not use a key up.
InitiationStaysAcceptable ==
    \A p \in packets : ~KeysSpent(p.to, p) =>
        Acceptable(p.to, p, SenderConversation(p))

\* Nothing an application has been told of is lost in a crash: the sessions
\* read back from the store are the live ones, and prekeys and replay cache are
\* up to date wherever they are committed at all.
CrashLosesNothing ==
    \A d \in Device :
        /\ SessionsRead(stored[d]) = sessions[d]
        /\ stored[d].prekeys /= None =>
              PrekeysRead(stored[d].prekeys[1]) = prekeys[d]
        /\ stored[d].replay /= None => ReplayRead(stored[d].replay[1]) = replay[d]

\* What a user was told about an identity is what the user decided: it is
\* Verified for the device id acknowledged last and IdentityChanged for every
\* other, or Unknown if it was never acknowledged; no session, failed
\* handshake, restart or first contact changes that.  The one exception is an
\* acknowledged empty device id, which a restart may turn into the absent one.
TrustIsExplicit ==
    \A d, i \in Device :
        LET Held(dev) ==
                \A o \in DeviceIdOption : IdentityStateOf(trust[d], i, o) =
                    IF o = dev THEN "Verified" ELSE "IdentityChanged"
        IN  IF i \in DOMAIN acked[d]
            THEN \/ Held(acked[d][i])
                 \/ acked[d][i] = Some(EmptyDeviceId) /\ Held(None)
            ELSE \A o \in DeviceIdOption :
                    IdentityStateOf(trust[d], i, o) = "Unknown"

\* The two ends of a session agree on who they are and what the session is
\* about: sessions that grew out of the same secret have each other's
\* identities, the same conversation and the same handshake transcript.
EndsAgree ==
    \A d, e \in Device : \A s \in DOMAIN sessions[d], t \in DOMAIN sessions[e] :
        LET x == sessions[d][s]
            y == sessions[e][t]
        IN  x.ratchet.rk[1] = y.ratchet.rk[1] /\ <<d, s>> /= <<e, t>> =>
                /\ x.conversation = y.conversation
                /\ x.handshake_ad = y.handshake_ad
                /\ (d /= e) => x.remote = e /\ y.remote = d
=============================================================================
