------------------------- MODULE DoubleRatchetState -------------------------
(***************************************************************************)
(* The state of one side of the classical Double Ratchet and the           *)
(* algorithms over it (src/ratchet/mod.rs).                                *)
(*                                                                         *)
(* Keys are symbolic.  A root key is the sequence of the secrets mixed     *)
(* into it (KDF_RK is Append), a chain key is <<root, i>>: the chain that  *)
(* starts at that root, advanced i times (KDF_CK).  The message key that   *)
(* KDF_CK returns beside the next chain key is named by the chain key it   *)
(* was derived from.  Two keys are equal exactly when the code derives     *)
(* them from the same inputs, which is what the KDFs are trusted for.      *)
(*                                                                         *)
(* An operation returns [err, st] or [err, st, mk]; err = "ok" is Ok(..).  *)
(***************************************************************************)
EXTENDS Integers, Sequences, FiniteSets

CONSTANTS
    MaxSkip,    \* max_skip: bound on skipped keys and on a single skip
    U32Max      \* largest value of the u32 counters

ASSUME MaxSkipAssumption == MaxSkip \in Nat
ASSUME U32MaxAssumption == U32Max \in Nat

\* Option::None, for ratchet public keys and for chain keys
None == <<>>

\* X25519: both holders of one of the key pairs compute the same secret
diffie_hellman(a, b) == {a, b}

kdf_rk(rk, dhOut) == Append(rk, dhOut)

ChainKey(root) == <<root, 0>>

kdf_ck(ck) == <<ck[1], ck[2] + 1>>

\* kdf_ck applied k times
kdf_ck_n(ck, k) == <<ck[1], ck[2] + k>>

Header(dh, pn, n) == [dh |-> dh, pn |-> pn, n |-> n]

\* The AEAD under a message key: opens exactly what was sealed under the same
\* key with the same associated data.
seal(mk, ad, pt) == [mk |-> mk, ad |-> ad, pt |-> pt]
open(mk, ad, ct) == ct.mk = mk /\ ct.ad = ad

concat_ad(ad, header) == <<ad, header>>

------------------------------------------------------------------------------

NoSkippedKeys == [k \in {} |-> None]

\* init_alice: rk is the shared secret, dhs a freshly generated key
init_alice(rk, dhs, bobDh) ==
    LET root == kdf_rk(rk, diffie_hellman(dhs, bobDh))
    IN  [dhs |-> dhs, dhr |-> bobDh, rk |-> root,
         cks |-> ChainKey(root), ckr |-> None,
         ns |-> 0, nr |-> 0, pn |-> 0, mkskipped |-> NoSkippedKeys]

\* init_bob: dhs is the signed prekey Alice used
init_bob(rk, bobDh) ==
    [dhs |-> bobDh, dhr |-> None, rk |-> rk, cks |-> None, ckr |-> None,
     ns |-> 0, nr |-> 0, pn |-> 0, mkskipped |-> NoSkippedKeys]

\* Mutants of ratchet_send_key: the chain key is not advanced; the counter is
\* incremented without checked_inc.
SendKeyStands(st) ==
    [err |-> IF st.cks = None THEN "Internal" ELSE "ok", mk |-> st.cks,
     st |-> [st EXCEPT !.ns = st.ns + 1]]

SendKeyUnchecked(st) ==
    IF st.cks = None THEN [err |-> "Internal", st |-> st, mk |-> None]
    ELSE [err |-> "ok", mk |-> st.cks,
          st |-> [st EXCEPT !.cks = kdf_ck(st.cks), !.ns = st.ns + 1]]

\* A state that has never received encrypts only on Alice's side; at the last
\* u32 value the chain key has moved but the counter has not.
ratchet_send_key(st) ==
    IF st.cks = None THEN [err |-> "Internal", st |-> st, mk |-> None]
    ELSE IF st.ns = U32Max
    THEN [err |-> "LimitExceeded",
          st |-> [st EXCEPT !.cks = kdf_ck(st.cks)], mk |-> None]
    ELSE [err |-> "ok", mk |-> st.cks,
          st |-> [st EXCEPT !.cks = kdf_ck(st.cks), !.ns = st.ns + 1]]

\* encrypt: the header carries the counter the message key belongs to
encrypt(st, pt, ad) ==
    LET r == ratchet_send_key(st)
        h == Header(st.dhs, st.pn, st.ns)
    IN  [err |-> r.err, st |-> r.st, header |-> h,
         ct |-> seal(r.mk, concat_ad(ad, h), pt)]

------------------------------------------------------------------------------

\* The slots <<dhr, nr>>, ..., <<dhr, until - 1>> of MKSKIPPED
SkipSlots(st, until) == {<<st.dhr, i>> : i \in st.nr .. until - 1}

\* Mutant of StoreFull: the limit counts the keys of the current chain only
ChainFull(st, until) ==
    \E i \in st.nr .. until - 1 :
        Cardinality({k \in DOMAIN st.mkskipped : k[1] = st.dhr}
                        \cup SkipSlots(st, i)) >= MaxSkip

\* The loop stops with an error when it meets a full store: MKSKIPPED is
\* counted over every chain of the session.
StoreFull(st, until) ==
    \E i \in st.nr .. until - 1 :
        Cardinality(DOMAIN st.mkskipped \cup SkipSlots(st, i)) >= MaxSkip

\* Mutant of StoreSkipped: the key after the skipped one is stored
StoreNext(st, until) ==
    [k \in DOMAIN st.mkskipped \cup SkipSlots(st, until) |->
        IF k \in SkipSlots(st, until) THEN kdf_ck_n(st.ckr, k[2] - st.nr + 1)
                                      ELSE st.mkskipped[k]]

StoreSkipped(st, until) ==
    [k \in DOMAIN st.mkskipped \cup SkipSlots(st, until) |->
        IF k \in SkipSlots(st, until) THEN kdf_ck_n(st.ckr, k[2] - st.nr)
                                      ELSE st.mkskipped[k]]

\* Every caller works on a trial copy that it drops on an error, so what an
\* error leaves half done in it is not kept.
skip_message_keys(st, until) ==
    IF st.nr + MaxSkip > U32Max \/ st.nr + MaxSkip < until
    THEN [err |-> "LimitExceeded", st |-> st]
    ELSE IF st.ckr = None \/ until <= st.nr THEN [err |-> "ok", st |-> st]
    ELSE IF StoreFull(st, until) THEN [err |-> "LimitExceeded", st |-> st]
    ELSE [err |-> "ok",
          st |-> [st EXCEPT !.mkskipped = StoreSkipped(st, until),
                            !.ckr = kdf_ck_n(st.ckr, until - st.nr),
                            !.nr = until]]

\* dh_ratchet: a receiving chain under the old key pair, then a sending chain
\* under the fresh one
dh_ratchet(st, header, fresh) ==
    LET rk1 == kdf_rk(st.rk, diffie_hellman(st.dhs, header.dh))
        rk2 == kdf_rk(rk1, diffie_hellman(fresh, header.dh))
    IN  [st EXCEPT !.pn = st.ns, !.ns = 0, !.nr = 0,
                   !.dhr = header.dh, !.dhs = fresh, !.rk = rk2,
                   !.ckr = ChainKey(rk1), !.cks = ChainKey(rk2)]

\* Mutant of TakeSkipped: get instead of remove
ReadSkipped(st, slot) == st

TakeSkipped(st, slot) ==
    [st EXCEPT !.mkskipped = [k \in DOMAIN st.mkskipped \ {slot} |->
                                 st.mkskipped[k]]]

\* Mutant of receive_on_chain: the receiving chain key is not advanced
ReceiveStands(st, header) ==
    LET s == skip_message_keys(st, header.n)
    IN  IF s.err /= "ok" THEN [err |-> s.err, st |-> s.st, mk |-> None]
        ELSE IF s.st.ckr = None
        THEN [err |-> "Internal", st |-> s.st, mk |-> None]
        ELSE [err |-> "ok", mk |-> s.st.ckr,
              st |-> [s.st EXCEPT !.nr = s.st.nr + 1]]

\* The tail of ratchet_receive_key, on the chain the header belongs to
receive_on_chain(st, header) ==
    LET s == skip_message_keys(st, header.n)
    IN  IF s.err /= "ok" THEN [err |-> s.err, st |-> s.st, mk |-> None]
        ELSE IF s.st.ckr = None
        THEN [err |-> "Internal", st |-> s.st, mk |-> None]
        ELSE IF s.st.nr = U32Max
        THEN [err |-> "LimitExceeded", st |-> s.st, mk |-> None]
        ELSE [err |-> "ok", mk |-> s.st.ckr,
              st |-> [s.st EXCEPT !.ckr = kdf_ck(s.st.ckr),
                                  !.nr = s.st.nr + 1]]

ratchet_receive_key(st, header, fresh) ==
    LET slot == <<header.dh, header.n>>
        s == skip_message_keys(st, header.pn)
    IN  IF slot \in DOMAIN st.mkskipped
        THEN [err |-> "ok", st |-> TakeSkipped(st, slot),
              mk |-> st.mkskipped[slot]]
        ELSE IF st.dhr = header.dh THEN receive_on_chain(st, header)
        ELSE IF s.err /= "ok" THEN [err |-> s.err, st |-> s.st, mk |-> None]
        ELSE receive_on_chain(dh_ratchet(s.st, header, fresh), header)

\* Mutant of decrypt: the trial state is kept before the AEAD has opened
DecryptKeepsTrial(st, header, ct, ad, fresh) ==
    LET r == ratchet_receive_key(st, header, fresh)
    IN  IF r.err /= "ok" THEN [err |-> r.err, st |-> st]
        ELSE IF ~open(r.mk, concat_ad(ad, header), ct)
        THEN [err |-> "AuthFailure", st |-> r.st]
        ELSE [err |-> "ok", st |-> r.st]

\* decrypt: everything happens on a trial copy, which replaces the state only
\* once the AEAD has opened; every error leaves the state as it was.
decrypt(st, header, ct, ad, fresh) ==
    LET r == ratchet_receive_key(st, header, fresh)
    IN  IF r.err /= "ok" THEN [err |-> r.err, st |-> st]
        ELSE IF ~open(r.mk, concat_ad(ad, header), ct)
        THEN [err |-> "AuthFailure", st |-> st]
        ELSE [err |-> "ok", st |-> r.st]
=============================================================================
