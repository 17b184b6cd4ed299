------------------------- MODULE HeaderRatchetState -------------------------
(***************************************************************************)
(* The state of one side of the Double Ratchet with encrypted headers and  *)
(* the algorithms over it (src/ratchet/header_encrypt/mod.rs).             *)
(*                                                                         *)
(* Keys are symbolic as in DoubleRatchetState.  KDF_RK_HE returns a third  *)
(* key beside the root and the chain key: the header key of the chain      *)
(* after the next, named by the root it is derived with.  A receiver does  *)
(* not see the header: it learns which chain a message belongs to from the *)
(* header key that opens it.                                               *)
(***************************************************************************)
EXTENDS DoubleRatchetState

\* he_keys_from_sk: the two header keys the handshake gives both sides
SharedHka(sk) == <<"hka", sk>>
SharedNhkb(sk) == <<"nhkb", sk>>

\* The third output of kdf_rk_he at a root
HeaderKey(root) == <<"nhk", root>>

hencrypt(hk, header) == [hk |-> hk, header |-> header]
hdecrypt(hk, enc) == enc.hk = hk

he_init_alice(sk, dhs, bobDh) ==
    LET root == kdf_rk(<<sk>>, diffie_hellman(dhs, bobDh))
    IN  [dhs |-> dhs, dhr |-> bobDh, rk |-> root,
         cks |-> ChainKey(root), ckr |-> None,
         hks |-> SharedHka(sk), hkr |-> None,
         nhks |-> HeaderKey(root), nhkr |-> SharedNhkb(sk),
         ns |-> 0, nr |-> 0, pn |-> 0, mkskipped |-> NoSkippedKeys]

he_init_bob(sk, bobDh) ==
    [dhs |-> bobDh, dhr |-> None, rk |-> <<sk>>, cks |-> None, ckr |-> None,
     hks |-> None, hkr |-> None,
     nhks |-> SharedNhkb(sk), nhkr |-> SharedHka(sk),
     ns |-> 0, nr |-> 0, pn |-> 0, mkskipped |-> NoSkippedKeys]

\* The chain key moves before the counter is checked, and the header key is
\* looked at last.
he_encrypt(st, pt, ad) ==
    LET moved == [st EXCEPT !.cks = kdf_ck(st.cks)]
        next == [moved EXCEPT !.ns = st.ns + 1]
        enc == hencrypt(st.hks, Header(st.dhs, st.pn, st.ns))
    IN  IF st.cks = None THEN [err |-> "Internal", st |-> st]
        ELSE IF st.ns = U32Max THEN [err |-> "LimitExceeded", st |-> moved]
        ELSE IF st.hks = None THEN [err |-> "Internal", st |-> next]
        ELSE [err |-> "ok", st |-> next, enc |-> enc,
              ct |-> seal(st.cks, concat_ad(ad, enc), pt)]

------------------------------------------------------------------------------

\* MKSKIPPED is indexed by the header key of the chain
HeSkipSlots(st, until) == {<<st.hkr, i>> : i \in st.nr .. until - 1}

HeStoreFull(st, until) ==
    \E i \in st.nr .. until - 1 :
        Cardinality(DOMAIN st.mkskipped \cup HeSkipSlots(st, i)) >= MaxSkip

HeStoreSkipped(st, until) ==
    [k \in DOMAIN st.mkskipped \cup HeSkipSlots(st, until) |->
        IF k \in HeSkipSlots(st, until) THEN kdf_ck_n(st.ckr, k[2] - st.nr)
                                        ELSE st.mkskipped[k]]

saturating_add(a, b) == IF a + b > U32Max THEN U32Max ELSE a + b

\* The distance is limited by a saturating sum: next to the end of the u32
\* range the limit tightens where the classical ratchet refuses.
he_skip_message_keys(st, until) ==
    IF saturating_add(st.nr, MaxSkip) < until
    THEN [err |-> "InvalidLength", st |-> st]
    ELSE IF st.ckr = None \/ st.hkr = None \/ until <= st.nr
    THEN [err |-> "ok", st |-> st]
    ELSE IF HeStoreFull(st, until) THEN [err |-> "InvalidLength", st |-> st]
    ELSE [err |-> "ok",
          st |-> [st EXCEPT !.mkskipped = HeStoreSkipped(st, until),
                            !.ckr = kdf_ck_n(st.ckr, until - st.nr),
                            !.nr = until]]

\* Mutant of he_dh_ratchet: the sending header key is not shifted
HeadersStand(st, header, fresh) ==
    LET rk1 == kdf_rk(st.rk, diffie_hellman(st.dhs, header.dh))
        rk2 == kdf_rk(rk1, diffie_hellman(fresh, header.dh))
    IN  [st EXCEPT !.pn = st.ns, !.ns = 0, !.nr = 0,
                   !.hks = IF st.hks = None THEN st.nhks ELSE st.hks,
                   !.hkr = st.nhkr, !.dhr = header.dh,
                   !.ckr = ChainKey(rk1), !.nhkr = HeaderKey(rk1),
                   !.rk = rk2, !.cks = ChainKey(rk2), !.nhks = HeaderKey(rk2),
                   !.dhs = fresh]

\* The next header keys become current, then both chains move on and leave
\* the next ones behind.
he_dh_ratchet(st, header, fresh) ==
    LET rk1 == kdf_rk(st.rk, diffie_hellman(st.dhs, header.dh))
        rk2 == kdf_rk(rk1, diffie_hellman(fresh, header.dh))
    IN  [st EXCEPT !.pn = st.ns, !.ns = 0, !.nr = 0,
                   !.hks = st.nhks, !.hkr = st.nhkr, !.dhr = header.dh,
                   !.ckr = ChainKey(rk1), !.nhkr = HeaderKey(rk1),
                   !.rk = rk2, !.cks = ChainKey(rk2), !.nhks = HeaderKey(rk2),
                   !.dhs = fresh]

\* The slot of MKSKIPPED for a header that a stored header key opens
SkippedSlot(st, enc) ==
    {k \in DOMAIN st.mkskipped : hdecrypt(k[1], enc) /\ k[2] = enc.header.n}

\* Mutant of try_skipped: get instead of remove
HeReadSkipped(st, enc) ==
    [st |-> st,
     mk |-> {st.mkskipped[k] : k \in SkippedSlot(st, enc)}]

\* try_skipped: the state without the slot, and the key it held, if any
try_skipped(st, enc) ==
    [st |-> [st EXCEPT !.mkskipped =
                [k \in DOMAIN st.mkskipped \ SkippedSlot(st, enc) |->
                    st.mkskipped[k]]],
     mk |-> {st.mkskipped[k] : k \in SkippedSlot(st, enc)}]

\* The tail of receive_key, on the chain whose header key opened the header
HeReceiveOnChain(st, n) ==
    LET s == he_skip_message_keys(st, n)
        Fail(e) == [err |-> e, st |-> st, mk |-> None]
    IN  IF s.err /= "ok" THEN Fail(s.err)
        ELSE IF s.st.ckr = None THEN Fail("Internal")
        ELSE IF s.st.nr = U32Max THEN Fail("LimitExceeded")
        ELSE [err |-> "ok", mk |-> s.st.ckr,
              st |-> [s.st EXCEPT !.ckr = kdf_ck(s.st.ckr),
                                  !.nr = s.st.nr + 1]]

\* Mutant of receive_key: the rest of the old chain is not skipped over
ReceiveDropsChain(st, enc, fresh) ==
    LET t == try_skipped(st, enc)
    IN  IF t.mk /= {}
        THEN [err |-> "ok", st |-> t.st, mk |-> CHOOSE mk \in t.mk : TRUE]
        ELSE IF st.hkr /= None /\ hdecrypt(st.hkr, enc)
        THEN HeReceiveOnChain(st, enc.header.n)
        ELSE IF st.nhkr = None \/ ~hdecrypt(st.nhkr, enc)
        THEN [err |-> "AeadAuthFailed", st |-> st, mk |-> None]
        ELSE HeReceiveOnChain(he_dh_ratchet(st, enc.header, fresh),
                              enc.header.n)

\* A stored header key, the current one, or the next one, which starts a new
\* chain; callers work on a trial copy that an error discards.
receive_key(st, enc, fresh) ==
    LET t == try_skipped(st, enc)
        s == he_skip_message_keys(st, enc.header.pn)
    IN  IF t.mk /= {}
        THEN [err |-> "ok", st |-> t.st, mk |-> CHOOSE mk \in t.mk : TRUE]
        ELSE IF st.hkr /= None /\ hdecrypt(st.hkr, enc)
        THEN HeReceiveOnChain(st, enc.header.n)
        ELSE IF st.nhkr = None \/ ~hdecrypt(st.nhkr, enc)
        THEN [err |-> "AeadAuthFailed", st |-> st, mk |-> None]
        ELSE IF s.err /= "ok" THEN [err |-> s.err, st |-> st, mk |-> None]
        ELSE HeReceiveOnChain(he_dh_ratchet(s.st, enc.header, fresh),
                              enc.header.n)

he_decrypt(st, enc, ct, ad, fresh) ==
    LET r == receive_key(st, enc, fresh)
    IN  IF r.err /= "ok" THEN [err |-> r.err, st |-> st]
        ELSE IF ~open(r.mk, concat_ad(ad, enc), ct)
        THEN [err |-> "AeadAuthFailed", st |-> st]
        ELSE [err |-> "ok", st |-> r.st]
=============================================================================
