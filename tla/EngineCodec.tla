----------------------------- MODULE EngineCodec -----------------------------
(***************************************************************************)
(* The blobs the engine commits: sessions (src/engine/mod.rs), the prekey  *)
(* store (src/prekeys/mod.rs) and the replay cache (src/replay/mod.rs).    *)
(***************************************************************************)
EXTENDS StateCodec

\* Conversation and handshake data are slices of their own.
SessionKinds == <<"fix", "fix", "fix", "vec", "vec", "vec">>

encode_session(sid, sess) ==
    WriteAll(SessionKinds, <<"VCSESS01", sid, sess.remote,
                             <<sess.conversation>>, <<sess.handshake_ad>>,
                             persist_blob("Classical", sess.ratchet)>>)

decode_session(data) ==
    LET Session(v, ratchet) ==
            IF ratchet.err /= "ok" THEN [err |-> ratchet.err]
            ELSE [err |-> "ok", sid |-> v[2],
                  sess |-> [ratchet |-> ratchet.st, remote |-> v[3],
                            conversation |-> v[4][1], handshake_ad |-> v[5][1]]]
        Fields(r) ==
            IF r.err /= "ok" THEN [err |-> "Storage"]
            ELSE IF r.vals[1] /= "VCSESS01" THEN [err |-> "Storage"]
            ELSE Session(r.vals, restore(r.vals[6]))
    IN  Fields(Finish(ReadAll(SessionKinds, data)))

\* The signed prekey and the last-resort key are written in front.
PrekeyKinds == <<"fix", "fix", "fix", "map", "map">>

prekeys_serialize(pk) ==
    WriteAll(PrekeyKinds, <<"VCPREK01", pk.next_ec, pk.next_pq, pk.ec, pk.pq>>)

prekeys_deserialize(data) ==
    LET Store(r) ==
            IF r.vals[1] /= "VCPREK01" THEN Refused
            ELSE Restored([next_ec |-> r.vals[2], next_pq |-> r.vals[3],
                           ec |-> r.vals[4], pq |-> r.vals[5]])
    IN  Then(Finish(ReadAll(PrekeyKinds, data)), Store)

\* The keys in the order they will be evicted in
replay_serialize(cache) == WriteAll(<<"fix", "vec">>, <<"VCREPL01", cache>>)

replay_deserialize(data) ==
    LET Cache(r) == IF r.vals[1] /= "VCREPL01" THEN Refused ELSE Restored(r.vals[2])
    IN  Then(Finish(ReadAll(<<"fix", "vec">>, data)), Cache)
=============================================================================
