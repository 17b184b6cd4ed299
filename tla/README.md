# TLA+ verification of voicechat-crypto

`voicechat-crypto` (`src/`) is a Rust library of the Signal protocol family:
a PQXDH handshake from published prekeys, a Double Ratchet per session, a
post-quantum "triple" ratchet and a header-encrypting ratchet as other
profiles, an engine that ties them to transactional storage, a replay cache and
a trust store, a Sesame-style multi-device session manager, and a C interface.
This directory holds TLA+ models of it, TLC configurations that check them on
small instances, and theorems that TLAPS proves for every value of the
constants. `PROJECT.json` maps each definition to the source lines it stands
for.

## Inventory

| Component | State | Operations | What is hard |
|---|---|---|---|
| Classical Double Ratchet, `ratchet/mod.rs` | DH key pair and peer key, root key, two chain keys, three u32 counters, the bounded map of skipped message keys | `init_alice`, `init_bob`, `encrypt`, `decrypt` | any order, loss and duplication of messages; a trial copy that must leave no trace; keys of several chains in one bounded store; counters at their last value |
| Engine, `engine/mod.rs` | identity, prekeys, sessions, replay cache, trust store; the same again as committed blobs | bundle, outbound and inbound handshake, encrypt, decrypt, acknowledge, delete, crash reload | which fields a commit covers; a crash between calls; a handshake that fails halfway; duplicated initiation packets |
| Prekeys and PQXDH, `prekeys/`, `pqxdh/` | signed, last-resort and one-time keys | `replenish`, `public_bundle`, peek and consume; `alice_initiate`, `bob_process` | one bundle used by several initiators; one-time keys running out |
| Replay cache, `replay/` | bounded FIFO of keys | `contains`, `check_and_insert` | eviction |
| Trust store, `fingerprint/` | identity to (device id, acknowledged) | `record_seen`, `acknowledge`, `observe` | trust must follow acknowledgements only, across restarts |
| Storage, `storage/` | committed map, one staged transaction, epoch | begin, put, delete, commit, abort, clear | stale transaction ids, rollback detection |
| Session manager, `session/mod.rs` | users, their devices, one active and several inactive sessions each, a counter of initiating sessions | prepare, confirm, receive, fail, stale, sweep, acknowledge | long sequences of legal calls at the limits |
| Sesame node, `session/sesame.rs`, `mailbox.rs` | message records, mailboxes | send, receive_all, retry | a drained mailbox and an early return; retries |
| ML-KEM Braid, SPQR, Triple Ratchet, `ratchet/braid`, `spqr`, `triple` | an eleven-state agent per party, epochs and their chains | send, receive, advance_epoch, encrypt, decrypt | agreement on epochs over a lossy transport; messages across an epoch change |
| Header-encrypting ratchet, `ratchet/header_encrypt` | the ratchet plus header keys | encrypt, decrypt | trial decryption with several header keys |
| State encodings, spread over the modules above | none | serialize, deserialize, header encode and decode | a writer and a reader that list the same fields separately |
| Safety fingerprints, `fingerprint/` | none | `compute_fingerprint` | the same for both parties, whoever asks |
| Envelopes, policy, padding | none | pure functions | injective encodings, boundaries |
| C interface, `ffi/` | registry of engines behind a mutex | one function per engine call | results that do not fit the caller's buffer after a commit |
| Primitives, `primitives/` | none | AEAD, KDF, KEM, X25519, signatures | trusted, see below |

## Modules

| Module | Role |
|---|---|
| `DoubleRatchetState` | one side of the ratchet: the state record and the algorithms as operators named after the Rust functions |
| `RatchetPair` | what the states of two sides have to do with each other and with the messages between them: the vocabulary of the invariant `InStep` |
| `DoubleRatchet` | two ratchets and a transport that keeps every message and pairs any header with any ciphertext |
| `SecureChannel` | what a user of the ratchet may rely on: plaintexts come out only if sent, each at most once |
| `DoubleRatchetProofs` | lemmas and theorems about the order of keys and the channel |
| `InStepLemmas` | lemmas about two ratchet states in step, without a specification |
| `ReadableProofs` | the two sides stay in step, and what is undelivered stays readable |
| `Engine` | devices with prekeys, sessions, replay cache, trust store and storage; uses `DoubleRatchetState` for the sessions |
| `SessionManagerState` | the records of a session manager and its operations as operators |
| `SessionManager` | a manager under every order of calls |
| `SessionManagerLemmas`, `SessionManagerProofs` | lemmas about the manager's operations; the invariant and the theorems |
| `BraidState` | one side of the ML-KEM Braid: agent states, chunks, authenticator, `send` and `receive` |
| `Braid` | two Braid parties and a network that loses, repeats, reorders and holds back chunks |
| `BraidStorage` | the Braid with the blobs it is restored from |
| `BraidLemmas`, `BraidProofs` | what an epoch determines and what one side sends and receives in it; the invariant and the theorems |
| `KeyAgreement` | what the Braid promises: one fresh key per epoch, emitted by both parties in the same order, in turn first by one and by the other |
| `SpqrState` | the post-quantum ratchet: epochs, their chains, skipped keys |
| `TripleRatchet` | two parties with a classical ratchet, an SPQR and a Braid each; uses the three State modules |
| `HeaderRatchetState`, `HeaderRatchet` | one side of the header-encrypting ratchet; two of them and a transport |
| `Codec` | fields one after the other: fixed, optional, counted; a writer and a reader |
| `StateCodec` | the encodings of the three ratchets, of the Braid's agents and coders, and of the Triple Ratchet's header |
| `EngineCodec` | the blobs of sessions, prekeys and replay cache |
| `Sesame` | nodes, mailboxes, receipts and retries over `SessionManagerState` and `DoubleRatchetState` |
| `Ffi`, `Fingerprint` | the C interface over a table of engines; the fingerprint it computes |
| `FfiProofs` | lemmas and theorems about the handles, what callers are told, and the fingerprint |
| `MCDoubleRatchet`, `MCEngine`, `MCSessionManager`, `MCBraid`, `MCTripleRatchet`, `MCHeaderRatchet`, `MCSesame`, `MCFfi` | instances for TLC |

Operators whose comment begins "Mutant of X" are wrong variants of
X. Substituting one for X must make TLC report the property it belongs to; this
shows that the property depends on that piece of code.

### Abstraction

Cryptography is symbolic. A DH public key is `<<party, i>>`, a shared secret is
the set of the two keys, a root key is the sequence of secrets mixed into it, a
chain key is a root and a position, and a message key is named by the chain key
it comes from. Two values are equal exactly when the code derives them from
equal inputs. The AEAD opens exactly what was sealed under the same key and the
same associated data. Random values (keys, session ids) are drawn fresh. This
idealisation is the trusted base of the models, and it stands for `primitives/`.

Everything that decides is kept: guards, early returns, error results, and
their order. An operation returns `[err, st]`, and failing calls are actions
too. Messages stay in growing sets, so a transport that loses, delays,
reorders or duplicates needs no actions of its own. Bounds on the number of
messages, bundles, sessions and acceptances (`Max...`) are conjuncts of the
guards.

### How the ratchet corresponds to the code

The record of `DoubleRatchetState` has the fields of the Rust struct.
`skip_message_keys`, `dh_ratchet`, `ratchet_receive_key` and `decrypt` follow
their functions; the loop that stores skipped keys is the map it builds, and
`StoreFull` says when the loop meets its limit. `decrypt` works on a trial copy
and returns the old state with every error. In `ratchet_send_key` the chain key
has advanced when the counter check fails, as in the code; `EncryptFails` is the
call that ends so. `MaxOverruns` bounds how often it may be repeated.

### How the engine corresponds to the code

Each function of `CryptoEngineApi` that changes state is one action, including
its commit: with `MemoryStorage` a commit cannot fail once begun, so the code
between `begin` and `commit` is one step. `stored[d]` is the committed map,
with the fields `persist_device_state`, `persist_session_aux` and
`persist_handshake` write. `CrashReload` is `simulate_crash_reload`: sessions
are replaced by the committed ones, the rest only where a blob exists. Sessions,
prekeys and replay cache are read back through the encodings of `EngineCodec`.
The trust store's does not restore what was written (an empty device id becomes
an absent one), which is `TrustBlob`; `TrustIsExplicit` allows for this one
confusion and no other: a reload may turn the state of an identity acknowledged
with an empty device id to verified for callers that pass none, and to changed for
callers that pass the empty one. A failed
inbound handshake removes the session again and leaves the sender in the trust
store, as the code does.

The one-time keys of a bundle are any of those in the store, since the code takes
whatever the hash map yields first. The application's own associated data is
taken to be the same at both ends. The trackers kept in sessions are left out:
no result depends on them.

### How the session manager corresponds to the code

`SessionManagerState` keeps the nesting of users, devices and sessions. Limits
are constants with the source's names. Errors leave the records that
`ensure_user_device` has already inserted. `SessionManager` records what the
last call returned (`result`) and what the application last acknowledged
(`acked`), which only the properties read.

### How the Braid and the Triple Ratchet correspond to the code

`BraidState` has a constructor for each variant of `Agent` and an operator for
each arm of `receive`'s match. A payload is cut into chunks that carry it by name
together with their index; a decoder has the payload once it holds `k` chunks of
distinct indices, which is what the erasure code guarantees for chunks of one
payload, and `ChunksAgree` checks that it never holds others. The u16 index wraps
at `IndexSpace`. The authenticator is the sequence of keys mixed into it, so a
MAC verifies exactly when both sides have mixed in the same ones. Decapsulating
parts that do not belong together gives an unrelated secret, as ML-KEM does.
`emitted_ss` is never set and is left out, the u64 epoch does not overflow, and
chunks have the length the parser has enforced.

`triple_decrypt` follows `decrypt` step by step on the trial copies: the Braid,
the epoch change if the message is in the new epoch, the classical key, the
post-quantum key, the AEAD, the epoch change otherwise. `triple_encrypt` keeps
what was changed before an error, as the code does. The Braid's message is part
of the header and hence of the associated data.

### How the encodings correspond to the code

A byte string is the sequence of its fields, and a field of fixed width is one
element. Each serializer and each deserializer lists its fields on its own, as in
the code, with the checks of the reader: presence bytes, counts, tags, versions,
trailing data (`DoubleRatchetState::deserialize` does not look for any). Hash maps are written in some order and read back as maps. The
limits on skipped keys are written and ignored by the readers. Widths in bytes and
byte order are left out.

### How the header-encrypting ratchet corresponds to the code

`HeaderRatchetState` follows `header_encrypt/mod.rs` as `DoubleRatchetState`
follows `ratchet/mod.rs`. A header key is named by the root it is derived from.
`receive_key` tries the skipped keys, the current and the next header key, in
this order, on a trial copy. `ImplementsClassical` reads the state as one of the
classical ratchet with the headers opened, so each step is one of `DoubleRatchet`.

### How Sesame corresponds to the code

A call works on a record (`Call`) of what it has changed so far. `Return` keeps
these changes also after an error, and hands plaintexts over only without one:
`receive_all` empties the mailbox first and returns at the first error. The
sender's session id never equals an id at the receiver, which draws its own, so
`try_decrypt` falls back to the active session, and the calls of
`receive_on_session` and `confirm_session` that follow find nothing. A session
begun by `send` therefore stays `Initiating` and counts against
`MAX_INITIATING_SESSIONS` although messages have come back. Inbound sessions,
failures and the clock come from the application. It prepares an inbound session
only for a peer that has written to it.

### How the C interface corresponds to the code

A call is one step. Before it takes the registry's lock it looks at its arguments
only; callers may present any handle, session id or message they were ever given,
so the steps in any order are the calls of any number of threads. A call whose
buffer is below the bound of its size query changes nothing and is no step. The
engine behind a handle is reduced to its one-time keys, its sessions and what they
have sent and accepted; lengths are those the encoders produce for the classical
ratchet.

## Runs

| Run | Checks | Shows |
|---|---|---|
| `ratchet` | `IInv` (`Inv`, which is `TypeOK`, `SkippedBounded` and `KeysInOrder`; and `InStep`), `KeyUsedOnce`, `ConsumedKeysGone`, `UndeliveredStaysReadable`, `ImplementsChannel` | five messages in any direction and order with at most two skipped keys: the sides stay in step, keys are unique and gone after use, what has not been delivered stays readable within the limit, also when a counter has reached its last value, and the pair implements `SecureChannel` |
| `engine_handshakes` | `AcceptedOnce`, `OneTimeKeysUsedOnce`, `InitiationStaysAcceptable`, `EndsAgree` | two instances: two bundles, two handshakes, two conversations, repeated and misdirected packets, crashes and deletions; and one handshake that may be with the device itself, with a message after it |
| `engine_messages` | `KeyUsedOnce`, `AcceptedOnce`, `CrashLosesNothing`, `TrustIsExplicit` | two instances: messages after a handshake, a replay cache of one entry, crashes between any two calls; and acknowledgements with, without and with an empty device id, among handshakes, deletions and crashes |
| `session_manager` | `WellFormed` (`TypeOK`, `LimitsHold` and `CountCovers`), `AcknowledgedUntilSwept`, `SessionKept`, `FailedStaysFailed` | all call orders on a manager whose limits are within reach |
| `braid` | `ChunksAgree`, `NoReceiveFails`, `RestoredMidEpoch`, `OneDecapsulator`, `ImplementsAgreement`, `EpochsComplete` | three epochs with late, repeated and lost chunks: decoders never mix payloads, no message of the peer makes `receive` fail, every state is restored from its blob, the pair implements `KeyAgreement`, and under fair delivery every epoch completes |
| `triple_ratchet` | `HybridKeyUsedOnce`, `RootsInStep`, `ReadableUntilEpochEnds`, `WrittenIsRead` (`ReloadLosesNothing` and `HeadersParse`), `ImplementsChannel` | five messages each way in any order across an epoch change: hybrid keys are unique, the roots stay in step, messages stay readable until their receiver leaves their epoch, every state and header, with a message of the Braid or without, is read as it was written, and the pair implements `SecureChannel` |
| `header_ratchet` | `HeaderKeyPerChain`, `UndeliveredStaysReadable`, `ReloadLosesNothing`, `ImplementsClassical` | messages in any order, with reloads: each chain has a header key of its own, undelivered messages are found and opened, and the pair implements `DoubleRatchet` |
| `sesame` | `CopiesBounded`, `DeliveredOnce`, `LostOnlyOnError`, `UnknownIdNeedsClash` | two nodes that write to each other, retry, fail sessions and see the clock move: resends are bounded, nothing is decrypted twice, and a message is lost only by a call of `receive_all` that returns an error, or, after such an error, by a retry that answers for another message with the same id |
| `ffi` | `HandleNamesOneEngine`, `LostOnlyOversize`, `SentIsReturned`, `FingerprintsAgree` | engines created, used and destroyed until the handles run out, with buffers and plaintexts on both sides of the bounds |

Deadlock is checked in all of them but `ffi`, where the bounds on engines and
messages bring every behaviour to an end. Runs that are expected to fail state what
a document or comment of the repository says and show that the code does
otherwise:

| Run | Says | The code |
|---|---|---|
| `replay_rejection` | an accepted message is no second application event (`docs/SECURITY_INVARIANTS.md:12`) | accepts a duplicated initiation packet without one-time keys again, in a new session |
| `initiating_count` | the counter is the number of initiating sessions (`session/mod.rs:145`) | never decrements for failed or swept ones |
| `epoch_change` | until the encapsulator hears of the new epoch "both sides keep using the previous SPQR epoch" (`ratchet/braid/mod.rs:531`) | the decapsulator changes epoch at once, and the encapsulator's next message, in order and still in the old epoch, does not decrypt |

Two more disagreements were reproduced by runs of their own in an earlier
version of this project. Those runs are no longer kept, and no run checks them
now:

- `docs/SECURITY_INVARIANTS.md:16` says that unauthenticated data does not commit
  state. `process_inbound_session` (`engine/mod.rs:927`) records the sender in the
  trust store before the first message is opened and does not take it back; the
  next commit writes it. `ProcessInboundFails` models this.
- `docs/SESSION_MANAGER.md:37` says that outbound is blocked until
  `acknowledge_identity`. `sweep_stale` (`session/mod.rs:305`) removes a user with
  the last device, and with it the acknowledged identity; the next session may
  have another one. `AcknowledgedUntilSwept` is the weaker statement that holds:
  `SweepStale` drops the swept user from `acked` too.

Other disagreements can be read off the definitions and have no run.
`StoreFull` counts the skipped keys of all chains, while `ratchet/mod.rs:28` calls
the limit "per chain". `prepare_outbound` overwrites the failed session it
replaces, which `docs/SESSION_MANAGER.md:31` says is pushed to the inactive list.
`prepare_inbound` returns the id of an active session that has failed, which
`session/mod.rs:67` calls "Permanently unusable". `docs/FFI.md:36` promises
the required length for an undersized buffer, and `ffi/mod.rs:94` that "a size query
never commits crypto state"; a plaintext above 4096 bytes is decrypted and committed
before `copy_out` refuses a buffer that is too small for it, and cannot be decrypted
again. `LostOnlyOversize` shows that no shorter plaintext is lost so.
`binary_to_numeric` (`fingerprint/mod.rs:124`) speaks of twelve groups of digits;
32 bytes give seven, and the rest are zeros.

### Bounds

Ratchet: two DH steps in each direction need four messages; the fifth lets a
message of the first chain arrive after all of them. `MaxSkip` 2 lets the store
fill from two chains. The counters end at 4, so that a side that sends all five
messages runs over.

Engine: two handshakes are the least that share a one-time key, and one key per
kind the least that runs out. Three acceptances allow a repetition beside them.
A replay cache of one entry forgets at the second message. Three messages make
one DH step each way possible after the handshake and leave one to be repeated.
Devices and conversations are interchangeable, so the runs use symmetry; no
temporal formula beyond an action property is checked under it. The bounds are a
record that the initial state takes from `Instances` and no step changes, so one
run can explore instances with different bounds. The code lets a device open a
session with itself; `own_bundles` admits such sessions in an instance with one
handshake, elsewhere the application contacts the other device only. Where
identities are verified
one acceptance is enough: `record_seen` meets a known identity after an
acknowledgement or a failed handshake as well.

Session manager: one user and two devices at the limits, with a user and a
device more than fit; two initiating sessions with three ids. `MAX_LATENCY_SECS`
is 0, so that one tick makes a stale device outdated.

Braid: the parties swap roles with every epoch, so the third is the first in which
a late chunk meets a decoder for its own type. Two chunks are the least that a
decoder can mix, and the least that lets an acknowledgement come before the whole
key. `IndexSpace` 2 wraps at the third chunk. `Late` bounds what the network
holds once both parties have left an epoch: at least one chunk of every type.
Until then everything may still arrive.

Triple ratchet: five messages each way complete an epoch of one-chunk payloads
with a message to spare on either side. `MaxSkip` and `MaxSkippedKeys` of 2 are
reached by three missing messages; `MaxSkipEpochs` 1 keeps skipped keys of the
previous epoch. `U32Max` is out of reach here, the `ratchet` run covers it.

Header-encrypting ratchet: as for the classical one, with counters that end at 4.

Sesame: two sends per node are the least that give two messages one id. With two
attempts, one failed session, one initiating session and one tick, calls meet
unknown records, exhausted retries, missing mailboxes and the limit on initiating
sessions. Each user has one device; sending
to two devices of a user multiplies the states beyond what a run can hold together
with failures and ticks.

C interface: three calls of `vc_engine_create`. The second may follow the
destruction of the first engine, so a handle could come back; the third finds
`next` at `U64Max` 3 and `alloc` runs out. Plaintexts of 100 and 5000 bytes lie on
both sides of 4096; buffers are absent, below, at and above the bounds. One session
per engine and two messages after the handshakes.

### Fairness

`EpochsComplete` assumes, for each party, weak fairness of sending and of
receiving something that changes its state among the chunks that are not lost.
Every call of `encrypt` sends a Braid message, so the first says that both parties
keep talking; nothing in the code sends by itself. The second says that the
network does not withhold all of the useful messages. `LostAssumption` states how
much may be lost for ever: each payload keeps as many chunk indices as it needs.
Nothing is assumed about order or repetition.

The other specifications state no fairness. `UndeliveredStaysReadable`,
`ReadableUntilEpochEnds` and `InitiationStaysAcceptable` are the safety side of
progress: what should be possible later has not become impossible.

## Proofs

The theorems hold for every value of the constants that satisfies the named
assumptions. These say that limits and bounds are natural numbers
(`MaxSkipAssumption`, `U32MaxAssumption`, `MaxSentAssumption`,
`BoundsAssumption`, `LengthsAssumption`), that the two parties differ
(`PartyAssumption`, `PartiesAssumption`), and that the session manager's limits
on devices and on sessions of a device are not zero, as in the source
(`LimitsAssumption`). No theorem assumes anything about the transport.

| Module | Theorem | States |
|---|---|---|
| `DoubleRatchetProofs` | `Invariance` | `Spec => []Inv` |
| | `TypeCorrect`, `StoreBounded`, `Ordered` | its parts: `TypeOK`, `SkippedBounded`, `KeysInOrder` |
| | `UniqueMessageKey` | `Spec => []KeyUsedOnce` |
| | `ForwardSecrecy` | `Spec => []ConsumedKeysGone` |
| | `Refinement` | `Spec => ImplementsChannel`, the specification of `SecureChannel` |
| `ReadableProofs` | `StaysInStep` | `Spec => []IInv`, that is `Inv` and `InStep` |
| | `AlwaysReadable` | `Spec => []UndeliveredStaysReadable` |
| `SessionManagerProofs` | `RecordsWellFormed` | `Spec => []WellFormed` |
| | `IdentityGate` | `Spec => []AcknowledgedUntilSwept` |
| | `SessionsKept`, `FailuresAreFinal` | the action properties `SessionKept`, `FailedStaysFailed` |
| `BraidProofs` | `EveryMessageIsAccepted` | `Spec => []NoReceiveFails` |
| | `DecodersHoldOnePayload` | `Spec => []ChunksAgree` |
| | `OneSideDecapsulates` | `Spec => []OneDecapsulator` |
| | `BraidAgrees` | `Spec => ImplementsAgreement`, the specification of `KeyAgreement` |
| `FfiProofs` | `HandlesAreNeverReused` | `Spec => []HandleNamesOneEngine` |
| | `OnlyOversizeIsLost` | `Spec => []LostOnlyOversize` |
| | `EverythingSentIsReturned` | `Spec => []SentIsReturned` |
| | `FingerprintsAlwaysAgree` | `Spec => []FingerprintsAgree` |

### The order of message keys

`KeyUsedOnce` is not inductive: it says nothing of keys not used yet. The
argument orders all chain keys, first by the length of the root they grow from,
then by position. A side's sending keys lie behind its sending chain key in this
order, Alice's on roots of even length and Bob's on odd ones, so the two never
meet. A key a receiver has consumed is "gone": it lies behind the receiving
chain key and differs from every stored one. `KeysInOrder` says all this, and
`Inv`, which is `TypeOK /\ SkippedBounded /\ KeysInOrder`, is inductive. The lemmas show in turn
that skipping, a DH step and receiving move a state forward in the order and
derive only keys that were not gone; then there is one lemma per action.
`UniqueMessageKey` and `ForwardSecrecy` follow from the invariant, and
`Refinement` from the fact that a delivered plaintext's key is gone, so a
successful decrypt never returns it again.

### The two sides in step

`UndeliveredStaysReadable` says of every message that is still to be delivered
that `decrypt` would derive its key, however many messages were lost, reordered,
repeated or damaged before, unless more than `MaxSkip` earlier ones are missing or
the receive counter is at its last value. It needs the position of each message
relative to its receiver, which `Inv` does not have. `InStep` adds it:

- one side is ahead of the other by exactly one DH step (`Ahead`): it receives on
  the sending chain of its peer, and its peer receives on the sending chain it
  had before, or on none yet;
- a header tells the truth about the chain its message was sent on
  (`HeaderTrue`), and every number below a sender's counters `ns` and `pn` was
  used for a message (`Sender`, `Complete`), each number once (`SentInOrder`);
- a stored key belongs to a message the receiving chain has passed (`Stored`);
- an undelivered message has its key in the store, or lies ahead on the receiving
  chain, or on the chain the next DH step opens (`NotReached`).

`IInv == Inv /\ InStep` is inductive. `encrypt` extends the sender's chain, a
`decrypt` on the current chain moves the receiver along it, and a `decrypt` under
the peer's new key makes the side that was behind the one that is ahead: the chain
it leaves is skipped to its end, which the header's `pn` gives truthfully. A damaged
or repeated message fails on the trial copy and changes nothing.

`AlwaysReadable` then counts. If the store were full although at most `MaxSkip`
earlier messages are missing, each key in the store and each number the receiver
would have to skip is the slot of a different missing message; there are too many
of them. This argument is about cardinalities of the set of missing messages and
of the set of slots, with a one-to-one map between them.

### The session manager

`WellFormed` does not carry itself. That `prepare_outbound` keeps the limit on
initiating sessions needs `initiating_count` to cover them; that the counter
stays in its range needs it to be at most the number of ids drawn; and the
identity gate needs what the manager holds as acknowledged to be what the
application acknowledged last. `IInv` of `SessionManagerProofs` has these, with
the finiteness of the sets whose cardinalities are compared. `SessionManagerLemmas`
has one lemma for what each operation does to a device, to the users and to the
set of initiating sessions. The two action properties follow from `StepDevices`: in a step a
session stays as it is, or changes its status but not from `Failed`, or an
unusable one gives way to a fresh id.

### The Braid

A party draws once in each epoch, so the number of the epoch determines the key
pair, the encapsulation, the authenticator and all payloads, as functions of it.
`IInv` of `BraidLemmas` says that a message on the wire, however old, carries the
payload of its own epoch (`Carries`, `Sound`); that each of the eleven agent
states holds what its epoch determines, with coders and decoders for the right
payload (`LeaderAgent`, `FollowerAgent`); and that the parties are in the same
epoch in complementary roles (`Together`), or the decapsulator is one ahead of a
peer that is sending the last part of its ciphertext (`Apart`). Nothing weaker is
inductive: that a MAC verifies needs both authenticators, and these need the keys
of all earlier epochs. The refinement maps the keys emitted so far to those of
`KeyAgreement`; a step emits the key of the next epoch, first at the decapsulator,
or none. `Kept`, the bound on late chunks, only removes messages and
is not used.

### The C interface

That a handle names one engine is not inductive: a new handle must differ from
those of engines long destroyed. `HInv` adds that every handle ever returned lies
below `Registry.next`. For what callers were told, `TInv` says of every session
that callers have what it committed (`Told`): the session's id and each plaintext within
the bound, the packet of a handshake it began, and each message it has sealed. Each
operation changes at most one session, and its result is copied out in the same
call if the buffer passed the size query. The fingerprint is proved symmetric from
the case analysis of `canonical_order`, for any identities.

### Only model-checked

- `EpochsComplete` is a liveness property, which is out of the prover's reach,
  like `ENABLED`.
- `RestoredMidEpoch`, `ReloadLosesNothing` and `WrittenIsRead` are about encodings
  of maps and lists of any length. Their proofs are inductions over the data, and
  the provers cannot apply an induction theorem. The same holds for
  Sesame, whose calls fold over the devices of a user and the messages of a
  mailbox.
- The engine: `AcceptedOnce`, `OneTimeKeysUsedOnce`, `InitiationStaysAcceptable`,
  `EndsAgree`, `KeyUsedOnce`, `CrashLosesNothing`, `TrustIsExplicit`. A reload
  passes every blob through `EngineCodec`, so an inductive
  invariant of `Engine` rests on the codecs' round trip.
- The Triple and the header-encrypting ratchet. Their invariants combine those
  proved for the classical ratchet and the Braid with one of the other component;
  these proofs have not been done.

## Not modelled

The arithmetic of the primitives, the width and order of bytes, zeroization, and
the constant-time behaviour of code are outside what TLA+ describes. Inside
`Engine` the sessions are classical; the other two ratchets are checked on their
own. Storage transactions begin and commit inside one engine call, so `begin`,
`put`, `abort`, the storage epoch and `RollbackGuard` are not steps that anything
can come between; the engine never reads the epoch. Envelopes, policy and padding
are pure functions of one call, `wire/envelope.rs` is not compiled, and the legacy
`ratchet/scka.rs` is used by tests and a fuzzing entry point only. Blobs of the Braid's two older
formats are read but no longer written. Test support and the parity harness have
no behaviour of their own.
