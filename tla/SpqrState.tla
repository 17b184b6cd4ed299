------------------------------ MODULE SpqrState ------------------------------
(***************************************************************************)
(* The sparse post-quantum ratchet (src/ratchet/spqr/mod.rs): a chain of   *)
(* message keys for each epoch, both directions starting from the same     *)
(* chain key.  Keys are symbolic as in DoubleRatchetState.                 *)
(***************************************************************************)
EXTENDS Integers, Sequences, FiniteSets

CONSTANTS
    MaxSkipEpochs,      \* max_skip_epochs: epochs whose skipped keys are kept
    SkipPerEpoch,       \* keys one receive may skip, per epoch kept (64)
    MaxSkippedKeys,     \* size of the store of skipped keys (256)
    U32Max              \* largest value of the u32 counters

None == <<>>

EpochChain(epoch, root) == [epoch |-> epoch, chain_key |-> <<root, 0>>, n |-> 0]

kdf_ck_spqr(ck) == <<ck[1], ck[2] + 1>>

init(sk) == [root |-> <<sk>>, next_epoch |-> 1, sending |-> None,
             receiving |-> None, skipped |-> [k \in {} |-> None]]

\* The keys of recent epochs survive; the rest of the old receiving chain
\* does not.
Retain(skipped, epoch) ==
    [k \in {x \in DOMAIN skipped : x[1] + MaxSkipEpochs >= epoch} |->
        skipped[k]]

advance_epoch(s, secret) ==
    LET root == Append(s.root, secret)
    IN  IF s.next_epoch = U32Max THEN [err |-> "LimitExceeded", st |-> s]
        ELSE [err |-> "ok",
              st |-> [root |-> root, next_epoch |-> s.next_epoch + 1,
                      sending |-> EpochChain(s.next_epoch, root),
                      receiving |-> EpochChain(s.next_epoch, root),
                      skipped |-> Retain(s.skipped, s.next_epoch)]]

\* At the last u32 value the chain key has moved but the counter has not.
send_key(s) ==
    LET c == s.sending
        moved == [s EXCEPT !.sending.chain_key = kdf_ck_spqr(c.chain_key)]
    IN  IF c = None THEN [err |-> "Internal", st |-> s, mk |-> None]
        ELSE IF c.n = U32Max
        THEN [err |-> "LimitExceeded", st |-> moved, mk |-> None]
        ELSE [err |-> "ok", st |-> [moved EXCEPT !.sending.n = c.n + 1],
              mk |-> c.chain_key]

\* The slots <<epoch, i>> of the keys receive_key skips to reach n
SkipSlots(c, n) == {<<c.epoch, i>> : i \in c.n .. n - 1}

\* The message key i steps down a receiving chain
KeyAt(c, i) == <<c.chain_key[1], c.chain_key[2] + i - c.n>>

Skip(s, n) ==
    [k \in DOMAIN s.skipped \cup SkipSlots(s.receiving, n) |->
        IF k \in DOMAIN s.skipped THEN s.skipped[k]
                                  ELSE KeyAt(s.receiving, k[2])]

TakeSkipped(s, slot) ==
    [s EXCEPT !.skipped = [k \in DOMAIN s.skipped \ {slot} |-> s.skipped[k]]]

\* Not in the epoch of the chain, behind it, or too far ahead of it
Unusable(s, epoch, n) ==
    \/ s.receiving.epoch /= epoch
    \/ n < s.receiving.n
    \/ n - s.receiving.n > MaxSkipEpochs * SkipPerEpoch
    \/ Cardinality(DOMAIN s.skipped \cup SkipSlots(s.receiving, n))
          > MaxSkippedKeys /\ n > s.receiving.n

\* Callers work on a trial copy that an error discards.
receive_key(s, epoch, n) ==
    LET c == s.receiving
        mk == KeyAt(c, n)
        Fail(e) == [err |-> e, st |-> s, mk |-> None]
    IN  IF <<epoch, n>> \in DOMAIN s.skipped
        THEN [err |-> "ok", st |-> TakeSkipped(s, <<epoch, n>>),
              mk |-> s.skipped[<<epoch, n>>]]
        ELSE IF c = None THEN Fail("Internal")
        ELSE IF Unusable(s, epoch, n) THEN Fail("InvalidLength")
        ELSE IF n = U32Max THEN Fail("LimitExceeded")
        ELSE [err |-> "ok", mk |-> mk,
              st |-> [s EXCEPT !.skipped = Skip(s, n),
                               !.receiving.chain_key = kdf_ck_spqr(mk),
                               !.receiving.n = n + 1]]
=============================================================================
