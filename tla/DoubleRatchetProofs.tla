------------------------ MODULE DoubleRatchetProofs ------------------------
(***************************************************************************)
(* Proofs about the Double Ratchet, for every bound on skipped keys, every *)
(* counter width and every number of messages.                             *)
(***************************************************************************)
EXTENDS DoubleRatchet, FiniteSetTheorems, TLAPS

------------------------------------------------------------------------------
(* Chain keys and their order *)

\* Mixing a secret into a root key gives a root key one longer.
LEMMA RootGrows ==
    ASSUME NEW rk \in RootKeys, NEW a \in DhKeys, NEW b \in DhKeys
    PROVE  /\ kdf_rk(rk, diffie_hellman(a, b)) \in RootKeys
           /\ Len(kdf_rk(rk, diffie_hellman(a, b))) = Len(rk) + 1
           /\ Len(rk) \in Nat
<1>1. diffie_hellman(a, b) \in {Sk} \cup SUBSET DhKeys
  BY DEF diffie_hellman
<1> QED
  BY <1>1 DEF RootKeys, kdf_rk

\* A chain key is not None, and its two parts have their types.
LEMMA ChainKeyParts ==
    ASSUME NEW ck \in ChainKeys
    PROVE  /\ ck /= None
           /\ ck[1] \in RootKeys
           /\ Len(ck[1]) \in Nat
           /\ ck[2] \in Nat
           /\ ck = <<ck[1], ck[2]>>
<1>1. PICK r \in RootKeys, i \in Nat : ck = <<r, i>>
  BY DEF ChainKeys
<1>2. ck[1] = r /\ ck[2] = i
  BY <1>1
<1>3. Len(r) \in Nat
  BY DEF RootKeys
<1>4. <<r, i>> /= <<>>
  OBVIOUS
<1> QED
  BY <1>1, <1>2, <1>3, <1>4 DEF None

\* Advancing a chain key keeps its root and adds to its index.
LEMMA ChainAdvances ==
    ASSUME NEW ck \in ChainKeys, NEW k \in Nat
    PROVE  /\ kdf_ck_n(ck, k) \in ChainKeys
           /\ kdf_ck_n(ck, k)[1] = ck[1]
           /\ kdf_ck_n(ck, k)[2] = ck[2] + k
           /\ kdf_ck(ck) \in ChainKeys
           /\ kdf_ck(ck)[1] = ck[1]
           /\ kdf_ck(ck)[2] = ck[2] + 1
  BY DEF kdf_ck_n, kdf_ck, ChainKeys

\* The order of derivation is a strict total order on places.
LEMMA BeforeOrder ==
    ASSUME NEW a \in ChainKeys, NEW b \in ChainKeys, NEW c \in ChainKeys
    PROVE  /\ ~Before(a, a)
           /\ Before(a, b) => ~Before(b, a)
           /\ Before(a, b) /\ Before(b, c) => Before(a, c)
           /\ Apart(a, b) => a /= b
           /\ Apart(a, b) <=> Apart(b, a)
  BY ChainKeyParts DEF Before, Apart

\* Along one chain the order is the order of the indices, and what lies before
\* a chain key lies before every key the chain still produces.
LEMMA ChainOrder ==
    ASSUME NEW ck \in ChainKeys, NEW j \in Nat, NEW k \in Nat,
           NEW x \in ChainKeys
    PROVE  /\ j < k => Before(kdf_ck_n(ck, j), kdf_ck_n(ck, k))
           /\ j /= k => Apart(kdf_ck_n(ck, j), kdf_ck_n(ck, k))
           /\ 0 < k => Before(ck, kdf_ck_n(ck, k))
           /\ Before(ck, kdf_ck(ck))
           /\ ~Before(kdf_ck_n(ck, k), ck)
           /\ Before(x, ck) => /\ Before(x, kdf_ck_n(ck, k))
                               /\ Before(x, kdf_ck(ck))
<1>1. /\ kdf_ck_n(ck, k)[1] = ck[1] /\ kdf_ck_n(ck, k)[2] = ck[2] + k
      /\ kdf_ck_n(ck, j)[1] = ck[1] /\ kdf_ck_n(ck, j)[2] = ck[2] + j
      /\ kdf_ck(ck)[1] = ck[1] /\ kdf_ck(ck)[2] = ck[2] + 1
  BY ChainAdvances
<1>2. /\ Len(ck[1]) \in Nat /\ ck[2] \in Nat
      /\ Len(x[1]) \in Nat /\ x[2] \in Nat
  BY ChainKeyParts
<1>3. j < k => Before(kdf_ck_n(ck, j), kdf_ck_n(ck, k))
  BY <1>1, <1>2 DEF Before
<1>4. j /= k => Apart(kdf_ck_n(ck, j), kdf_ck_n(ck, k))
  BY <1>1, <1>2 DEF Before, Apart
<1>5. /\ 0 < k => Before(ck, kdf_ck_n(ck, k))
      /\ Before(ck, kdf_ck(ck))
      /\ ~Before(kdf_ck_n(ck, k), ck)
  BY <1>1, <1>2 DEF Before
<1>6. Before(x, ck) => /\ Before(x, kdf_ck_n(ck, k))
                       /\ Before(x, kdf_ck(ck))
  BY <1>1, <1>2 DEF Before
<1> QED
  BY <1>3, <1>4, <1>5, <1>6

------------------------------------------------------------------------------
(* Skipping message keys *)

\* What one state satisfies on its own: the types, the bound on the store and
\* the order of its chains.
GoodState(st) ==
    /\ StateOK(st)
    /\ ChainsOrdered(st)
    /\ Cardinality(DOMAIN st.mkskipped) <= MaxSkip

\* The slots a skip fills are finitely many slots of the receiving chain.
LEMMA SlotsFinite ==
    ASSUME NEW st, StateOK(st), st.ckr /= None, NEW until \in U32
    PROVE  /\ IsFiniteSet(SkipSlots(st, until))
           /\ SkipSlots(st, until) \subseteq DhKeys \X U32
           /\ \A k \in SkipSlots(st, until) :
                 k[2] \in Nat /\ k[2] >= st.nr /\ k[2] < until
<1> DEFINE f == [i \in st.nr .. until - 1 |-> <<st.dhr, i>>]
<1>0. st.nr \in Nat /\ until \in Nat /\ until <= U32Max
  BY U32MaxAssumption DEF StateOK, U32
<1>1. f \in Surjection(st.nr .. until - 1, SkipSlots(st, until))
  BY DEF Surjection, SkipSlots
<1>2. IsFiniteSet(st.nr .. until - 1)
  BY <1>0, FS_Interval, SMTT(40)
<1>3. IsFiniteSet(SkipSlots(st, until))
  BY <1>1, <1>2, FS_Surjection
<1>4. st.dhr \in DhKeys
  BY DEF StateOK
<1>5. SkipSlots(st, until) \subseteq DhKeys \X U32
  BY <1>0, <1>4, U32MaxAssumption DEF SkipSlots, U32
<1>6. ASSUME NEW k \in SkipSlots(st, until)
      PROVE  k[2] \in Nat /\ k[2] >= st.nr /\ k[2] < until
  <2>1. PICK i \in st.nr .. until - 1 : k = <<st.dhr, i>>
    BY DEF SkipSlots
  <2> QED
    BY <2>1, <1>0
<1> QED
  BY <1>3, <1>5, <1>6

\* A skip that does not meet a full store keeps the store within MaxSkip.
LEMMA StoreStaysBounded ==
    ASSUME NEW st, GoodState(st), st.ckr /= None, NEW until \in U32,
           st.nr < until, ~StoreFull(st, until)
    PROVE  /\ IsFiniteSet(DOMAIN st.mkskipped \cup SkipSlots(st, until))
           /\ Cardinality(DOMAIN st.mkskipped \cup SkipSlots(st, until))
                 <= MaxSkip
<1> DEFINE D == DOMAIN st.mkskipped \cup SkipSlots(st, until - 1)
           x == <<st.dhr, until - 1>>
<1>0. /\ st.nr \in Nat /\ until \in Nat /\ until - 1 \in U32
      /\ StateOK(st)
      /\ until - 1 \in st.nr .. until - 1
  BY U32MaxAssumption DEF GoodState, StateOK, U32
<1>1. IsFiniteSet(D)
  BY <1>0, SlotsFinite, FS_Union, Zenon DEF StateOK, SkippedOK
<1>2. Cardinality(D) < MaxSkip
  <2>1. ~(Cardinality(D) >= MaxSkip)
    BY <1>0, Zenon DEF StoreFull
  <2>2. Cardinality(D) \in Nat
    BY <1>1, FS_CardinalityType
  <2> QED
    BY <2>1, <2>2, MaxSkipAssumption
<1>3. DOMAIN st.mkskipped \cup SkipSlots(st, until) = D \cup {x}
  <2>1. st.nr .. until - 1 = (st.nr .. (until - 1) - 1) \cup {until - 1}
    BY <1>0
  <2>2. SkipSlots(st, until) = SkipSlots(st, until - 1) \cup {x}
    BY <2>1 DEF SkipSlots
  <2> QED
    BY <2>2
<1>4. /\ IsFiniteSet(D \cup {x})
      /\ Cardinality(D \cup {x}) = IF x \in D THEN Cardinality(D)
                                              ELSE Cardinality(D) + 1
  BY <1>1, FS_AddElement, Zenon
<1>5. Cardinality(D) \in Nat
  BY <1>1, FS_CardinalityType
<1> HIDE DEF D, x
<1> QED
  BY <1>2, <1>3, <1>4, <1>5, MaxSkipAssumption

\* The fields of the state a successful, non-trivial skip returns.
LEMMA SkipFields ==
    ASSUME NEW st, StateOK(st), NEW until \in U32,
           skip_message_keys(st, until).err = "ok",
           st.ckr /= None, st.nr < until
    PROVE  LET s == skip_message_keys(st, until).st
           IN  /\ ~StoreFull(st, until)
               /\ s = [dhs |-> st.dhs, dhr |-> st.dhr, rk |-> st.rk,
                       cks |-> st.cks, ckr |-> kdf_ck_n(st.ckr, until - st.nr),
                       ns |-> st.ns, nr |-> until, pn |-> st.pn,
                       mkskipped |-> StoreSkipped(st, until)]
<1>0. st.nr \in Nat /\ until \in Nat
  BY U32MaxAssumption DEF StateOK, U32
<1>1. ~(until <= st.nr)
  BY <1>0
<1>2. /\ ~(st.nr + MaxSkip > U32Max \/ st.nr + MaxSkip < until)
      /\ ~StoreFull(st, until)
  BY <1>1 DEF skip_message_keys
<1>3. skip_message_keys(st, until).st
        = [st EXCEPT !.mkskipped = StoreSkipped(st, until),
                     !.ckr = kdf_ck_n(st.ckr, until - st.nr),
                     !.nr = until]
  BY <1>1, <1>2 DEF skip_message_keys
<1> QED
  BY <1>2, <1>3, Zenon DEF StateOK

\* Otherwise a successful skip returns the state it was given.
LEMMA SkipNothing ==
    ASSUME NEW st, NEW until, skip_message_keys(st, until).err = "ok",
           st.ckr = None \/ until <= st.nr
    PROVE  skip_message_keys(st, until).st = st
  BY DEF skip_message_keys

\* skip_message_keys keeps a state good, touches neither root nor sending
\* chain, and never brings a used key back.
LEMMA SkipKeepsGood ==
    ASSUME NEW st, GoodState(st), NEW until \in U32,
           skip_message_keys(st, until).err = "ok"
    PROVE  LET s == skip_message_keys(st, until).st
           IN  /\ GoodState(s)
               /\ s.rk = st.rk /\ s.cks = st.cks /\ s.dhs = st.dhs
               /\ (s.ckr = None) <=> (st.ckr = None)
               /\ \A x \in ChainKeys : Gone(st, x) => Gone(s, x)
<1> DEFINE s == skip_message_keys(st, until).st
<1>1. CASE st.ckr = None \/ until <= st.nr
  <2>1. s = st
    BY <1>1, SkipNothing
  <2> QED
    BY <2>1
<1>2. CASE st.ckr /= None /\ ~(until <= st.nr)
  <2>0. /\ StateOK(st) /\ ChainsOrdered(st)
        /\ st.ckr \in ChainKeys
        /\ st.nr \in Nat /\ until \in Nat /\ st.nr < until
        /\ until - st.nr \in Nat
    BY <1>2, U32MaxAssumption DEF GoodState, StateOK, U32
  <2>1. /\ ~StoreFull(st, until)
        /\ s = [dhs |-> st.dhs, dhr |-> st.dhr, rk |-> st.rk,
                cks |-> st.cks, ckr |-> kdf_ck_n(st.ckr, until - st.nr),
                ns |-> st.ns, nr |-> until, pn |-> st.pn,
                mkskipped |-> StoreSkipped(st, until)]
    BY <1>2, <2>0, SkipFields
  <2> DEFINE new == SkipSlots(st, until)
             mks == s.mkskipped
  <2>2. /\ s.dhs = st.dhs /\ s.dhr = st.dhr /\ s.rk = st.rk /\ s.cks = st.cks
        /\ s.ns = st.ns /\ s.nr = until /\ s.pn = st.pn
        /\ s.ckr = kdf_ck_n(st.ckr, until - st.nr)
        /\ mks = StoreSkipped(st, until)
    BY <2>1
  <2>3. /\ s.ckr \in ChainKeys
        /\ s.ckr[1] = st.ckr[1]
        /\ Before(st.ckr, s.ckr)
    <3>1. 0 < until - st.nr
      BY <2>0
    <3> HIDE DEF s
    <3> QED
      BY <2>0, <2>2, <3>1, ChainAdvances, ChainOrder
  <2>4. /\ DOMAIN mks = DOMAIN st.mkskipped \cup new
        /\ mks = [k \in DOMAIN mks |-> mks[k]]
        /\ \A k \in new : mks[k] = kdf_ck_n(st.ckr, k[2] - st.nr)
        /\ \A k \in DOMAIN st.mkskipped \ new : mks[k] = st.mkskipped[k]
    BY <2>2 DEF StoreSkipped
  <2>5. \A k \in new : k[2] \in Nat /\ k[2] >= st.nr /\ k[2] < until
    BY <1>2, <2>0, SlotsFinite
  <2>6. ASSUME NEW k \in new
        PROVE  /\ mks[k] \in ChainKeys
               /\ Before(mks[k], s.ckr)
               /\ \A x \in ChainKeys : Before(x, st.ckr) => Before(x, mks[k])
    <3>1. k[2] - st.nr \in Nat /\ k[2] - st.nr < until - st.nr
      BY <2>0, <2>5
    <3>2. mks[k] = kdf_ck_n(st.ckr, k[2] - st.nr)
      BY <2>4
    <3> HIDE DEF mks, s, new
    <3> QED
      BY <2>0, <2>2, <3>1, <3>2, ChainAdvances, ChainOrder
  <2>7. ASSUME NEW k \in DOMAIN st.mkskipped \ new
        PROVE  /\ mks[k] \in ChainKeys
               /\ mks[k] = st.mkskipped[k]
               /\ Before(mks[k], st.ckr)
               /\ Before(mks[k], s.ckr)
    <3>1. mks[k] = st.mkskipped[k] /\ st.mkskipped[k] \in ChainKeys
      BY <2>0, <2>4 DEF StateOK, SkippedOK
    <3>2. Before(st.mkskipped[k], st.ckr)
      BY <2>0 DEF ChainsOrdered
    <3> HIDE DEF mks, s, new
    <3> QED
      BY <2>0, <2>3, <3>1, <3>2, BeforeOrder
  <2>8. SkippedOK(mks)
    <3>1. IsFiniteSet(DOMAIN mks)
      BY <1>2, <2>0, <2>1, <2>4, StoreStaysBounded
    <3>2. DOMAIN mks \subseteq DhKeys \X U32
      BY <1>2, <2>0, <2>4, SlotsFinite DEF StateOK, SkippedOK
    <3>3. \A k \in DOMAIN mks : mks[k] \in ChainKeys
      BY <2>4, <2>6, <2>7
    <3> QED
      BY <2>4, <3>1, <3>2, <3>3 DEF SkippedOK
  <2>9. StateOK(s)
    <3>1. s = [dhs |-> s.dhs, dhr |-> s.dhr, rk |-> s.rk, cks |-> s.cks,
               ckr |-> s.ckr, ns |-> s.ns, nr |-> s.nr, pn |-> s.pn,
               mkskipped |-> s.mkskipped]
      BY <2>1, <2>2
    <3> HIDE DEF s
    <3> QED
      BY <1>2, <2>0, <2>2, <2>3, <2>8, <3>1 DEF StateOK
  <2>10. Cardinality(DOMAIN mks) <= MaxSkip
    BY <1>2, <2>0, <2>1, <2>4, StoreStaysBounded
  <2>11. ASSUME NEW k \in DOMAIN mks, NEW l \in DOMAIN mks, k /= l
         PROVE  Apart(mks[k], mks[l])
    <3>1. CASE k \in new /\ l \in new
      <4>1. k[2] /= l[2]
        BY <3>1, <2>11 DEF SkipSlots
      <4> QED
        <5>1. /\ k[2] - st.nr \in Nat /\ l[2] - st.nr \in Nat
              /\ k[2] - st.nr /= l[2] - st.nr
          BY <4>1, <3>1, <2>0, <2>5
        <5>2. /\ mks[k] = kdf_ck_n(st.ckr, k[2] - st.nr)
              /\ mks[l] = kdf_ck_n(st.ckr, l[2] - st.nr)
          BY <2>4, <3>1
        <5> HIDE DEF mks, s, new
        <5> QED
          BY <2>0, <5>1, <5>2, ChainOrder
    <3>2. CASE k \in new /\ l \notin new
      BY <3>2, <2>4, <2>6, <2>7 DEF Apart
    <3>3. CASE k \notin new /\ l \in new
      BY <3>3, <2>4, <2>6, <2>7 DEF Apart
    <3>4. CASE k \notin new /\ l \notin new
      BY <3>4, <2>11, <2>4, <2>0, <2>7 DEF ChainsOrdered
    <3> QED
      BY <3>1, <3>2, <3>3, <3>4
  <2>12. ChainsOrdered(s)
    <3>1. s.ckr /= None
      BY <2>3, ChainKeyParts
    <3>2. \A k \in DOMAIN mks : Before(mks[k], s.ckr)
      BY <2>4, <2>6, <2>7
    <3>3. st.cks /= None => st.cks[1] = st.rk
      BY <2>0 DEF ChainsOrdered
    <3>4. Len(st.ckr[1]) < Len(st.rk)
      BY <1>2, <2>0 DEF ChainsOrdered
    <3> HIDE DEF s
    <3> QED
      BY <2>2, <2>3, <2>11, <3>1, <3>2, <3>3, <3>4 DEF ChainsOrdered
  <2>13. ASSUME NEW x \in ChainKeys, Gone(st, x)
         PROVE  Gone(s, x)
    <3>1. Before(x, st.ckr) /\ Before(x, s.ckr)
      BY <2>0, <2>3, <2>13, BeforeOrder DEF Gone
    <3>2. ASSUME NEW k \in DOMAIN mks
          PROVE  Apart(x, mks[k])
      <4>1. CASE k \in new
        BY <4>1, <2>6, <3>1 DEF Apart
      <4>2. CASE k \notin new
        BY <4>2, <2>4, <2>7, <2>13 DEF Gone
      <4> QED
        BY <4>1, <4>2
    <3>3. s.ckr /= None
      BY <2>3, ChainKeyParts
    <3> QED
      BY <3>1, <3>2, <3>3 DEF Gone
  <2>14. s.ckr /= None
    BY <2>3, ChainKeyParts
  <2> QED
    BY <1>2, <2>2, <2>9, <2>10, <2>12, <2>13, <2>14 DEF GoodState
<1> QED
  BY <1>1, <1>2

------------------------------------------------------------------------------
(* The steps of ratchet_receive_key *)

\* dh_ratchet keeps a state good, lengthens the root by two secrets, starts
\* both chains anew and brings no used key back.
LEMMA RatchetKeepsGood ==
    ASSUME NEW st, GoodState(st), NEW h \in Headers, NEW fresh \in DhKeys
    PROVE  LET d == dh_ratchet(st, h, fresh)
           IN  /\ GoodState(d)
               /\ d.ckr /= None
               /\ d.cks = ChainKey(d.rk)
               /\ Len(d.rk) = Len(st.rk) + 2
               /\ \A x \in ChainKeys : Gone(st, x) => Gone(d, x)
<1> DEFINE rk1 == kdf_rk(st.rk, diffie_hellman(st.dhs, h.dh))
           rk2 == kdf_rk(rk1, diffie_hellman(fresh, h.dh))
           d == dh_ratchet(st, h, fresh)
<1>1. /\ StateOK(st) /\ ChainsOrdered(st)
      /\ Cardinality(DOMAIN st.mkskipped) <= MaxSkip
      /\ st.rk \in RootKeys /\ st.dhs \in DhKeys /\ h.dh \in DhKeys
      /\ st.ckr \in ChainKeys \cup {None}
  BY DEF GoodState, StateOK, Headers
<1>2. /\ rk1 \in RootKeys /\ Len(rk1) = Len(st.rk) + 1
      /\ Len(st.rk) \in Nat
  BY <1>1, RootGrows, Zenon
<1>3. rk2 \in RootKeys /\ Len(rk2) = Len(rk1) + 1
  BY <1>1, <1>2, RootGrows, Zenon
<1>4. d = [dhs |-> fresh, dhr |-> h.dh, rk |-> rk2, cks |-> ChainKey(rk2),
           ckr |-> ChainKey(rk1), ns |-> 0, nr |-> 0, pn |-> st.ns,
           mkskipped |-> st.mkskipped]
  <2>1. st = [dhs |-> st.dhs, dhr |-> st.dhr, rk |-> st.rk, cks |-> st.cks,
              ckr |-> st.ckr, ns |-> st.ns, nr |-> st.nr, pn |-> st.pn,
              mkskipped |-> st.mkskipped]
    BY <1>1 DEF StateOK
  <2>2. d = [st EXCEPT !.pn = st.ns, !.ns = 0, !.nr = 0, !.dhr = h.dh,
                       !.dhs = fresh, !.rk = rk2, !.ckr = ChainKey(rk1),
                       !.cks = ChainKey(rk2)]
    BY Zenon DEF dh_ratchet
  <2> HIDE DEF rk1, rk2, d
  <2> QED
    BY <2>1, <2>2, ZenonT(40)
<1> HIDE DEF rk1, rk2, d
<1>5. /\ d.dhs = fresh /\ d.dhr = h.dh /\ d.rk = rk2
      /\ d.cks = ChainKey(rk2) /\ d.ckr = ChainKey(rk1)
      /\ d.ns = 0 /\ d.nr = 0 /\ d.pn = st.ns /\ d.mkskipped = st.mkskipped
  BY <1>4
<1>6. /\ ChainKey(rk1) \in ChainKeys /\ ChainKey(rk1)[1] = rk1
      /\ ChainKey(rk2) \in ChainKeys /\ ChainKey(rk2)[1] = rk2
  BY <1>2, <1>3 DEF ChainKey, ChainKeys
<1>7. d.ckr /= None /\ d.cks /= None
  BY <1>5, <1>6, ChainKeyParts
<1>8. ASSUME NEW x \in ChainKeys, st.ckr /= None, Before(x, st.ckr)
      PROVE  Before(x, d.ckr)
  <2>1. st.ckr \in ChainKeys /\ Len(st.ckr[1]) < Len(st.rk)
    BY <1>1, <1>8 DEF ChainsOrdered
  <2>2. /\ Len(st.ckr[1]) \in Nat /\ Len(x[1]) \in Nat
    BY <2>1, ChainKeyParts
  <2>3. Len(x[1]) <= Len(st.ckr[1])
    BY <1>8, <2>2 DEF Before
  <2> QED
    BY <1>2, <1>5, <1>6, <2>1, <2>2, <2>3 DEF Before
<1>9. StateOK(d)
  <2>1. d = [dhs |-> d.dhs, dhr |-> d.dhr, rk |-> d.rk, cks |-> d.cks,
             ckr |-> d.ckr, ns |-> d.ns, nr |-> d.nr, pn |-> d.pn,
             mkskipped |-> d.mkskipped]
    BY <1>4, <1>5
  <2>2. st.ns \in U32 /\ 0 \in U32 /\ SkippedOK(st.mkskipped)
    BY <1>1, U32MaxAssumption DEF StateOK, U32
  <2>3. h.dh /= None
    <3>1. PICK p \in Party, i \in Nat : h.dh = <<p, i>>
      BY <1>1 DEF DhKeys
    <3>2. <<p, i>> /= <<>>
      OBVIOUS
    <3> QED
      BY <3>1, <3>2 DEF None
  <2> QED
    BY <1>1, <1>3, <1>5, <1>6, <2>1, <2>2, <2>3 DEF StateOK
<1>10. \A k \in DOMAIN st.mkskipped :
          /\ st.mkskipped[k] \in ChainKeys
          /\ st.ckr /= None /\ Before(st.mkskipped[k], st.ckr)
  BY <1>1 DEF ChainsOrdered, StateOK, SkippedOK
<1>11. ChainsOrdered(d)
  <2>1. \A k \in DOMAIN st.mkskipped : Before(st.mkskipped[k], d.ckr)
    BY <1>8, <1>10
  <2>2. \A k, l \in DOMAIN st.mkskipped :
          k /= l => Apart(st.mkskipped[k], st.mkskipped[l])
    BY <1>1 DEF ChainsOrdered
  <2> QED
    BY <1>2, <1>3, <1>5, <1>6, <1>7, <2>1, <2>2 DEF ChainsOrdered
<1>12. ASSUME NEW x \in ChainKeys, Gone(st, x)
       PROVE  Gone(d, x)
  BY <1>5, <1>7, <1>8, <1>12 DEF Gone
<1>13. Len(d.rk) = Len(st.rk) + 2
  BY <1>2, <1>3, <1>5
<1>14. GoodState(d)
  BY <1>1, <1>5, <1>9, <1>11 DEF GoodState
<1> QED
  BY <1>5, <1>7, <1>12, <1>13, <1>14 DEF d

\* What a successful derivation of a receive key does: the new state is good,
\* the derived key is one the old state could still produce and the new one
\* cannot, and no used key comes back.
Derives(st, r) ==
    /\ GoodState(r.st)
    /\ r.mk \in ChainKeys
    /\ Gone(r.st, r.mk)
    /\ ~Gone(st, r.mk)
    /\ \A x \in ChainKeys : Gone(st, x) => Gone(r.st, x)

\* The derivation of a key on the current receiving chain, with its skips.
LEMMA OnChainDerives ==
    ASSUME NEW st, GoodState(st), NEW h \in Headers,
           receive_on_chain(st, h).err = "ok"
    PROVE  /\ Derives(st, receive_on_chain(st, h))
           /\ receive_on_chain(st, h).st.rk = st.rk
           /\ receive_on_chain(st, h).st.cks = st.cks
           /\ receive_on_chain(st, h).st.dhs = st.dhs
<1> DEFINE s == skip_message_keys(st, h.n).st
           r == receive_on_chain(st, h)
<1>1. /\ skip_message_keys(st, h.n).err = "ok"
      /\ s.ckr /= None /\ s.nr /= U32Max
      /\ r.mk = s.ckr
      /\ r.st = [s EXCEPT !.ckr = kdf_ck(s.ckr), !.nr = s.nr + 1]
  BY DEF receive_on_chain
<1>2. h.n \in U32
  BY DEF Headers
<1>3. /\ GoodState(s)
      /\ s.rk = st.rk /\ s.cks = st.cks /\ s.dhs = st.dhs
      /\ (s.ckr = None) <=> (st.ckr = None)
      /\ \A x \in ChainKeys : Gone(st, x) => Gone(s, x)
  BY <1>1, <1>2, SkipKeepsGood
<1> HIDE DEF s, r
<1>4. /\ StateOK(s) /\ ChainsOrdered(s)
      /\ Cardinality(DOMAIN s.mkskipped) <= MaxSkip
      /\ s.ckr \in ChainKeys
  BY <1>1, <1>3 DEF GoodState, StateOK
<1>5. r.st = [dhs |-> s.dhs, dhr |-> s.dhr, rk |-> s.rk, cks |-> s.cks,
              ckr |-> kdf_ck(s.ckr), ns |-> s.ns, nr |-> s.nr + 1,
              pn |-> s.pn, mkskipped |-> s.mkskipped]
  BY <1>1, <1>4, ZenonT(40) DEF StateOK
<1>6. /\ r.st.dhs = s.dhs /\ r.st.dhr = s.dhr /\ r.st.rk = s.rk
      /\ r.st.cks = s.cks /\ r.st.ckr = kdf_ck(s.ckr) /\ r.st.ns = s.ns
      /\ r.st.nr = s.nr + 1 /\ r.st.pn = s.pn
      /\ r.st.mkskipped = s.mkskipped
  BY <1>5
<1>7. /\ kdf_ck(s.ckr) \in ChainKeys /\ kdf_ck(s.ckr)[1] = s.ckr[1]
      /\ kdf_ck(s.ckr) /= None
      /\ Before(s.ckr, kdf_ck(s.ckr))
      /\ \A x \in ChainKeys : Before(x, s.ckr) => Before(x, kdf_ck(s.ckr))
  <2>1. kdf_ck(s.ckr) \in ChainKeys /\ kdf_ck(s.ckr)[1] = s.ckr[1]
    BY <1>4, ChainAdvances
  <2>2. /\ Before(s.ckr, kdf_ck(s.ckr))
        /\ \A x \in ChainKeys : Before(x, s.ckr) => Before(x, kdf_ck(s.ckr))
    BY <1>4, ChainOrder
  <2> QED
    BY <2>1, <2>2, ChainKeyParts
<1>8. StateOK(r.st)
  <2>1. s.nr + 1 \in U32
    BY <1>1, <1>4, U32MaxAssumption DEF StateOK, U32
  <2>2. r.st = [dhs |-> r.st.dhs, dhr |-> r.st.dhr, rk |-> r.st.rk,
                cks |-> r.st.cks, ckr |-> r.st.ckr, ns |-> r.st.ns,
                nr |-> r.st.nr, pn |-> r.st.pn,
                mkskipped |-> r.st.mkskipped]
    BY <1>5, <1>6
  <2> QED
    BY <1>1, <1>4, <1>6, <1>7, <2>1, <2>2 DEF StateOK
<1>9. \A k \in DOMAIN s.mkskipped :
         s.mkskipped[k] \in ChainKeys /\ Before(s.mkskipped[k], s.ckr)
  BY <1>4 DEF ChainsOrdered, StateOK, SkippedOK
<1>10. ChainsOrdered(r.st)
  <2>1. /\ s.cks /= None => s.cks[1] = s.rk
        /\ Len(s.ckr[1]) < Len(s.rk)
        /\ \A k, l \in DOMAIN s.mkskipped :
              k /= l => Apart(s.mkskipped[k], s.mkskipped[l])
    BY <1>1, <1>4 DEF ChainsOrdered
  <2> QED
    BY <1>6, <1>7, <1>9, <2>1 DEF ChainsOrdered
<1>11. GoodState(r.st)
  BY <1>4, <1>6, <1>8, <1>10 DEF GoodState
<1>12. Gone(r.st, r.mk)
  BY <1>1, <1>6, <1>7, <1>9 DEF Gone, Apart
<1>13. \A x \in ChainKeys : Gone(st, x) => Gone(r.st, x)
  BY <1>3, <1>6, <1>7 DEF Gone
<1>14. ~Gone(s, r.mk)
  BY <1>1, <1>4, BeforeOrder DEF Gone
<1>15. ~Gone(st, r.mk)
  BY <1>1, <1>3, <1>4, <1>14
<1> QED
  BY <1>1, <1>3, <1>4, <1>6, <1>11, <1>12, <1>13, <1>15 DEF Derives, r

\* The derivation of a key that was stored when its message was skipped.
LEMMA TakeDerives ==
    ASSUME NEW st, GoodState(st), NEW slot \in DOMAIN st.mkskipped
    PROVE  /\ Derives(st, [err |-> "ok", st |-> TakeSkipped(st, slot),
                           mk |-> st.mkskipped[slot]])
           /\ TakeSkipped(st, slot).rk = st.rk
           /\ TakeSkipped(st, slot).cks = st.cks
           /\ TakeSkipped(st, slot).dhs = st.dhs
<1> DEFINE t == TakeSkipped(st, slot)
           mk == st.mkskipped[slot]
           rest == [k \in DOMAIN st.mkskipped \ {slot} |-> st.mkskipped[k]]
<1>1. /\ StateOK(st) /\ ChainsOrdered(st)
      /\ Cardinality(DOMAIN st.mkskipped) <= MaxSkip
      /\ SkippedOK(st.mkskipped)
  BY DEF GoodState, StateOK
<1>2. t = [dhs |-> st.dhs, dhr |-> st.dhr, rk |-> st.rk, cks |-> st.cks,
           ckr |-> st.ckr, ns |-> st.ns, nr |-> st.nr, pn |-> st.pn,
           mkskipped |-> rest]
  BY <1>1 DEF TakeSkipped, StateOK
<1>3. /\ DOMAIN rest = DOMAIN st.mkskipped \ {slot}
      /\ rest = [k \in DOMAIN rest |-> rest[k]]
      /\ \A k \in DOMAIN rest : rest[k] = st.mkskipped[k]
  OBVIOUS
<1> HIDE DEF t, rest
<1>4. /\ t.dhs = st.dhs /\ t.dhr = st.dhr /\ t.rk = st.rk /\ t.cks = st.cks
      /\ t.ckr = st.ckr /\ t.ns = st.ns /\ t.nr = st.nr /\ t.pn = st.pn
      /\ t.mkskipped = rest
  BY <1>2
<1>5. /\ IsFiniteSet(DOMAIN rest)
      /\ Cardinality(DOMAIN rest) <= MaxSkip
  <2>1. IsFiniteSet(DOMAIN st.mkskipped)
    BY <1>1 DEF SkippedOK
  <2>2. /\ IsFiniteSet(DOMAIN rest)
        /\ Cardinality(DOMAIN rest) = Cardinality(DOMAIN st.mkskipped) - 1
    BY <1>3, <2>1, FS_RemoveElement
  <2>3. Cardinality(DOMAIN st.mkskipped) \in Nat
    BY <2>1, FS_CardinalityType
  <2> QED
    BY <1>1, <2>2, <2>3, MaxSkipAssumption
<1>6. SkippedOK(rest)
  BY <1>1, <1>3, <1>5 DEF SkippedOK
<1>7. StateOK(t)
  <2>1. t = [dhs |-> t.dhs, dhr |-> t.dhr, rk |-> t.rk, cks |-> t.cks,
             ckr |-> t.ckr, ns |-> t.ns, nr |-> t.nr, pn |-> t.pn,
             mkskipped |-> t.mkskipped]
    BY <1>2, <1>4
  <2> QED
    BY <1>1, <1>4, <1>6, <2>1 DEF StateOK
<1>8. ChainsOrdered(t)
  BY <1>1, <1>3, <1>4 DEF ChainsOrdered
<1>9. GoodState(t)
  BY <1>4, <1>5, <1>7, <1>8 DEF GoodState
<1>10. mk \in ChainKeys
  BY <1>1 DEF SkippedOK
<1>11. Gone(t, mk)
  BY <1>1, <1>3, <1>4 DEF Gone, ChainsOrdered
<1>12. ~Gone(st, mk)
  BY <1>10, BeforeOrder DEF Gone, Apart
<1>13. \A x \in ChainKeys : Gone(st, x) => Gone(t, x)
  BY <1>3, <1>4 DEF Gone
<1> QED
  BY <1>4, <1>9, <1>10, <1>11, <1>12, <1>13 DEF Derives, t

\* Every successful ratchet_receive_key derives a key; it moves the sending
\* side only by a whole DH ratchet step.
LEMMA ReceiveDerives ==
    ASSUME NEW st, GoodState(st), NEW h \in Headers, NEW fresh \in DhKeys,
           ratchet_receive_key(st, h, fresh).err = "ok"
    PROVE  LET r == ratchet_receive_key(st, h, fresh)
           IN  /\ Derives(st, r)
               /\ \/ r.st.rk = st.rk /\ r.st.cks = st.cks
                  \/ /\ Len(r.st.rk) = Len(st.rk) + 2
                     /\ r.st.cks = ChainKey(r.st.rk)
<1> DEFINE slot == <<h.dh, h.n>>
           r == ratchet_receive_key(st, h, fresh)
           s == skip_message_keys(st, h.pn)
           d == dh_ratchet(s.st, h, fresh)
<1>1. CASE slot \in DOMAIN st.mkskipped
  <2>1. r = [err |-> "ok", st |-> TakeSkipped(st, slot),
             mk |-> st.mkskipped[slot]]
    BY <1>1 DEF ratchet_receive_key
  <2> HIDE DEF r
  <2> QED
    BY <1>1, <2>1, TakeDerives, SMTT(40) DEF r
<1>2. CASE slot \notin DOMAIN st.mkskipped /\ st.dhr = h.dh
  <2>1. r = receive_on_chain(st, h)
    BY <1>2 DEF ratchet_receive_key
  <2> HIDE DEF r
  <2>2. receive_on_chain(st, h).err = "ok"
    BY <2>1 DEF r
  <2> QED
    BY <2>1, <2>2, OnChainDerives DEF r
<1>3. CASE slot \notin DOMAIN st.mkskipped /\ st.dhr /= h.dh
  <2>1. s.err = "ok" /\ r = receive_on_chain(d, h)
    BY <1>3 DEF ratchet_receive_key
  <2>2. h.pn \in U32
    BY DEF Headers
  <2>3. /\ GoodState(s.st) /\ s.st.rk = st.rk
        /\ \A x \in ChainKeys : Gone(st, x) => Gone(s.st, x)
    BY <2>1, <2>2, SkipKeepsGood
  <2>4. /\ GoodState(d)
        /\ d.cks = ChainKey(d.rk)
        /\ Len(d.rk) = Len(st.rk) + 2
        /\ \A x \in ChainKeys : Gone(s.st, x) => Gone(d, x)
    BY <2>3, RatchetKeepsGood
  <2> HIDE DEF r, s, d
  <2>5. /\ Derives(d, r) /\ r.st.rk = d.rk /\ r.st.cks = d.cks
    BY <2>1, <2>4, OnChainDerives DEF r
  <2>6. Derives(st, r)
    BY <2>3, <2>4, <2>5 DEF Derives
  <2> QED
    BY <2>4, <2>5, <2>6, SMTT(40) DEF r
<1> QED
  BY <1>1, <1>2, <1>3

\* ratchet_send_key only moves the sending chain, by one step.
LEMMA SendAdvances ==
    ASSUME NEW st, GoodState(st)
    PROVE  LET r == ratchet_send_key(st)
           IN  /\ GoodState(r.st)
               /\ r.st.rk = st.rk /\ r.st.ckr = st.ckr /\ r.st.dhs = st.dhs
               /\ r.st.mkskipped = st.mkskipped
               /\ \/ r.st.cks = st.cks
                  \/ st.cks \in ChainKeys /\ r.st.cks = kdf_ck(st.cks)
               /\ r.err = "ok" =>
                     /\ st.cks \in ChainKeys /\ r.mk = st.cks
                     /\ r.st.cks = kdf_ck(st.cks)
<1> DEFINE r == ratchet_send_key(st)
<1>1. /\ StateOK(st) /\ ChainsOrdered(st)
      /\ Cardinality(DOMAIN st.mkskipped) <= MaxSkip
      /\ st.ns \in U32
  BY DEF GoodState, StateOK
<1>2. CASE st.cks = None
  BY <1>2 DEF ratchet_send_key
<1>3. CASE st.cks /= None
  <2>1. /\ st.cks \in ChainKeys /\ st.cks[1] = st.rk
    BY <1>1, <1>3 DEF StateOK, ChainsOrdered
  <2>2. /\ kdf_ck(st.cks) \in ChainKeys /\ kdf_ck(st.cks)[1] = st.cks[1]
        /\ kdf_ck(st.cks) /= None
    BY <2>1, ChainAdvances, ChainKeyParts, ZenonT(40)
  <2>3. PICK n \in U32 :
          r.st = [st EXCEPT !.cks = kdf_ck(st.cks), !.ns = n]
    <3>1. CASE st.ns = U32Max
      <4>1. r.st = [st EXCEPT !.cks = kdf_ck(st.cks)]
        BY <1>3, <3>1 DEF ratchet_send_key
      <4>2. r.st = [st EXCEPT !.cks = kdf_ck(st.cks), !.ns = st.ns]
        BY <1>1, <4>1, Zenon DEF StateOK
      <4> QED
        BY <1>1, <4>2, Zenon
    <3>2. CASE st.ns /= U32Max
      <4>1. r.st = [st EXCEPT !.cks = kdf_ck(st.cks), !.ns = st.ns + 1]
        BY <1>3, <3>2 DEF ratchet_send_key
      <4>2. st.ns + 1 \in U32
        BY <1>1, <3>2, U32MaxAssumption DEF U32
      <4> QED
        BY <4>1, <4>2, Zenon
    <3> QED
      BY <3>1, <3>2, Zenon
  <2>4. r.st = [dhs |-> st.dhs, dhr |-> st.dhr, rk |-> st.rk,
                cks |-> kdf_ck(st.cks), ckr |-> st.ckr, ns |-> n,
                nr |-> st.nr, pn |-> st.pn, mkskipped |-> st.mkskipped]
    BY <1>1, <2>3, ZenonT(40) DEF StateOK
  <2>5. r.err = "ok" => r.mk = st.cks
    BY <1>3 DEF ratchet_send_key
  <2> HIDE DEF r
  <2>6. /\ r.st.dhs = st.dhs /\ r.st.dhr = st.dhr /\ r.st.rk = st.rk
        /\ r.st.cks = kdf_ck(st.cks) /\ r.st.ckr = st.ckr /\ r.st.ns = n
        /\ r.st.nr = st.nr /\ r.st.pn = st.pn
        /\ r.st.mkskipped = st.mkskipped
    BY <2>4
  <2>7. StateOK(r.st)
    <3>1. r.st = [dhs |-> r.st.dhs, dhr |-> r.st.dhr, rk |-> r.st.rk,
                  cks |-> r.st.cks, ckr |-> r.st.ckr, ns |-> r.st.ns,
                  nr |-> r.st.nr, pn |-> r.st.pn,
                  mkskipped |-> r.st.mkskipped]
      BY <2>4, <2>6
    <3> QED
      BY <1>1, <2>2, <2>6, <3>1 DEF StateOK
  <2>8. ChainsOrdered(r.st)
    BY <1>1, <2>1, <2>2, <2>6 DEF ChainsOrdered
  <2>9. GoodState(r.st)
    BY <1>1, <2>6, <2>7, <2>8 DEF GoodState
  <2> QED
    BY <2>1, <2>5, <2>6, <2>9 DEF r
<1> QED
  BY <1>2, <1>3

------------------------------------------------------------------------------
(* The inductive invariant, Inv *)

LEMMA PeerOfParty ==
    ASSUME NEW p \in Party
    PROVE  Peer(p) \in Party /\ Peer(p) /= p /\ Peer(Peer(p)) = p
           /\ \A q \in Party : q /= p => q = Peer(p)
BY PartyAssumption DEF Party, Peer

LEMMA InvGood ==
    ASSUME Inv, NEW p \in Party
    PROVE  GoodState(ratchet[p])
BY Zenon DEF Inv, TypeOK, SkippedBounded, KeysInOrder, GoodState

LEMMA InitInv ==
    ASSUME Init
    PROVE  Inv
<1> DEFINE a == ratchet[Alice]
           b == ratchet[Bob]
           dh == diffie_hellman(DhKey(Alice, 0), DhKey(Bob, 0))
<1>1. /\ a = init_alice(<<Sk>>, DhKey(Alice, 0), DhKey(Bob, 0))
      /\ b = init_bob(<<Sk>>, DhKey(Bob, 0))
      /\ DOMAIN ratchet = Party
  BY PartyAssumption DEF Init, Party
<1>2. /\ DhKey(Alice, 0) \in DhKeys /\ DhKey(Bob, 0) \in DhKeys
      /\ DhKey(Alice, 0) /= None /\ DhKey(Bob, 0) /= None
  <2>1. \A p : <<p, 0>> /= <<>>
    OBVIOUS
  <2> QED
    BY <2>1 DEF DhKey, DhKeys, Party, None
<1>3. /\ <<Sk>> \in RootKeys /\ Len(<<Sk>>) = 1
  BY DEF RootKeys
<1>4. /\ kdf_rk(<<Sk>>, dh) \in RootKeys
      /\ Len(kdf_rk(<<Sk>>, dh)) = 2
  <2>1. /\ kdf_rk(<<Sk>>, dh) \in RootKeys
        /\ Len(kdf_rk(<<Sk>>, dh)) = Len(<<Sk>>) + 1
    BY <1>2, <1>3, RootGrows, Zenon
  <2> QED
    BY <1>3, <2>1
<1>5. /\ SkippedOK(NoSkippedKeys)
      /\ DOMAIN NoSkippedKeys = {} /\ Cardinality(DOMAIN NoSkippedKeys) = 0
  BY FS_EmptySet DEF SkippedOK, NoSkippedKeys
<1>6. 0 \in U32
  BY U32MaxAssumption DEF U32
<1>7. /\ StateOK(a) /\ ChainsOrdered(a) /\ Len(a.rk) % 2 = 0
      /\ DOMAIN a.mkskipped = {} /\ Cardinality(DOMAIN a.mkskipped) = 0
  <2> DEFINE root == kdf_rk(<<Sk>>, dh)
  <2>1. a = [dhs |-> DhKey(Alice, 0), dhr |-> DhKey(Bob, 0), rk |-> root,
             cks |-> ChainKey(root), ckr |-> None, ns |-> 0, nr |-> 0,
             pn |-> 0, mkskipped |-> NoSkippedKeys]
    BY <1>1 DEF init_alice
  <2>2. ChainKey(root) \in ChainKeys /\ ChainKey(root)[1] = root
    BY <1>4 DEF ChainKey, ChainKeys
  <2> HIDE DEF a, root
  <2>3. /\ a.dhs = DhKey(Alice, 0) /\ a.dhr = DhKey(Bob, 0) /\ a.rk = root
        /\ a.cks = ChainKey(root) /\ a.ckr = None /\ a.ns = 0 /\ a.nr = 0
        /\ a.pn = 0 /\ a.mkskipped = NoSkippedKeys
    BY <2>1
  <2>4. a = [dhs |-> a.dhs, dhr |-> a.dhr, rk |-> a.rk, cks |-> a.cks,
             ckr |-> a.ckr, ns |-> a.ns, nr |-> a.nr, pn |-> a.pn,
             mkskipped |-> a.mkskipped]
    BY <2>1, <2>3
  <2>5. StateOK(a)
    BY <1>2, <1>4, <1>5, <1>6, <2>2, <2>3, <2>4 DEF StateOK, root
  <2>6. ChainsOrdered(a)
    BY <1>5, <2>2, <2>3 DEF ChainsOrdered
  <2>7. Len(a.rk) % 2 = 0
    <3>1. Len(a.rk) = 2
      BY <1>4, <2>3 DEF root
    <3>2. 2 % 2 = 0
      OBVIOUS
    <3> QED
      BY <3>1, <3>2
  <2> QED
    BY <1>5, <2>3, <2>5, <2>6, <2>7
<1>8. /\ StateOK(b) /\ ChainsOrdered(b) /\ Len(b.rk) % 2 = 1
      /\ DOMAIN b.mkskipped = {} /\ Cardinality(DOMAIN b.mkskipped) = 0
  <2>1. b = [dhs |-> DhKey(Bob, 0), dhr |-> None, rk |-> <<Sk>>,
             cks |-> None, ckr |-> None, ns |-> 0, nr |-> 0, pn |-> 0,
             mkskipped |-> NoSkippedKeys]
    BY <1>1 DEF init_bob
  <2> HIDE DEF b
  <2>2. /\ b.dhs = DhKey(Bob, 0) /\ b.dhr = None /\ b.rk = <<Sk>>
        /\ b.cks = None /\ b.ckr = None /\ b.ns = 0 /\ b.nr = 0 /\ b.pn = 0
        /\ b.mkskipped = NoSkippedKeys
    BY <2>1
  <2>3. b = [dhs |-> b.dhs, dhr |-> b.dhr, rk |-> b.rk, cks |-> b.cks,
             ckr |-> b.ckr, ns |-> b.ns, nr |-> b.nr, pn |-> b.pn,
             mkskipped |-> b.mkskipped]
    BY <2>1, <2>2
  <2>4. StateOK(b)
    BY <1>2, <1>3, <1>5, <1>6, <2>2, <2>3 DEF StateOK
  <2>5. ChainsOrdered(b)
    BY <1>5, <2>2 DEF ChainsOrdered
  <2>6. Len(b.rk) % 2 = 1
    BY <1>3, <2>2
  <2> QED
    BY <1>5, <2>2, <2>4, <2>5, <2>6
<1> HIDE DEF a, b
<1>9. \A p \in Party :
        /\ StateOK(ratchet[p]) /\ ChainsOrdered(ratchet[p])
        /\ Len(ratchet[p].rk) % 2 = Parity(p)
        /\ Cardinality(DOMAIN ratchet[p].mkskipped) = 0
  BY <1>7, <1>8, PartyAssumption, Zenon DEF Party, Parity, a, b
<1>10. TypeOK
  <2>1. /\ generated \in [Party -> Nat] /\ wire \subseteq Messages
        /\ sent \in [Party -> 0 .. MaxSent]
    BY MaxSentAssumption DEF Init
  <2>2. delivered \in [Party -> [1 .. MaxSent -> Nat]]
    BY DEF Init
  <2> QED
    BY <1>1, <1>9, <2>1, <2>2, Zenon DEF TypeOK
<1>11. SkippedBounded
  <2>1. 0 <= MaxSkip
    BY MaxSkipAssumption
  <2> QED
    BY <1>9, <2>1, Zenon DEF SkippedBounded
<1>12. WireOrdered /\ DeliveredGone
  BY MaxSentAssumption DEF Init, WireOrdered, DeliveredGone, Incoming
<1> QED
  BY <1>9, <1>10, <1>11, <1>12, Zenon DEF Inv, KeysInOrder

\* Keys of the two sides are never the same: their roots differ in length.
LEMMA SidesApart ==
    ASSUME NEW a \in ChainKeys, NEW b \in ChainKeys,
           NEW p \in Party, NEW q \in Party, p /= q,
           Len(a[1]) % 2 = Parity(p), Len(b[1]) % 2 = Parity(q)
    PROVE  Apart(a, b)
<1>1. Len(a[1]) \in Nat /\ Len(b[1]) \in Nat
  BY ChainKeyParts
<1>2. Parity(p) /= Parity(q)
  BY DEF Party, Parity
<1>3. Len(a[1]) /= Len(b[1])
  BY <1>2, Zenon
<1>4. Len(a[1]) < Len(b[1]) \/ Len(b[1]) < Len(a[1])
  BY <1>1, <1>3
<1> QED
  BY <1>4 DEF Apart, Before

\* What the messages in flight are
LEMMA WireParts ==
    ASSUME Inv, NEW m \in wire
    PROVE  /\ m.from \in Party /\ m.header \in Headers
           /\ m.ct \in Ciphertexts /\ m.ct.mk \in ChainKeys
           /\ m.ct.pt \in 1 .. MaxSent
           /\ ratchet[m.from].cks /= None
           /\ ratchet[m.from].cks \in ChainKeys
           /\ Before(m.ct.mk, ratchet[m.from].cks)
           /\ Len(m.ct.mk[1]) % 2 = Parity(m.from)
           /\ m.ct.pt <= sent[m.from]
<1>1. m \in Messages
  BY DEF Inv, TypeOK
<1>2. /\ m.from \in Party /\ m.header \in Headers /\ m.ct \in Ciphertexts
  BY <1>1 DEF Messages
<1>3. m.ct.mk \in ChainKeys /\ m.ct.pt \in 1 .. MaxSent
  BY <1>2 DEF Ciphertexts
<1>4. ratchet[m.from].cks \in ChainKeys \cup {None}
  BY <1>2 DEF Inv, TypeOK, StateOK
<1> QED
  BY <1>2, <1>3, <1>4, Zenon DEF Inv, KeysInOrder, WireOrdered

LEMMA EncryptKeepsInv ==
    ASSUME Inv, NEW p \in Party, Encrypt(p)
    PROVE  Inv'
<1> DEFINE st == ratchet[p]
           s == ratchet_send_key(st)
           h == Header(st.dhs, st.pn, st.ns)
           c == seal(s.mk, concat_ad(Ad, h), sent[p] + 1)
           m == [from |-> p, header |-> h, ct |-> c]
<1>1. GoodState(st)
  BY InvGood
<1>2. /\ s.err = "ok" /\ sent[p] < MaxSent
      /\ ratchet' = [ratchet EXCEPT ![p] = s.st]
      /\ wire' = wire \cup {m}
      /\ sent' = [sent EXCEPT ![p] = sent[p] + 1]
      /\ generated' = generated /\ delivered' = delivered
  BY DEF Encrypt, encrypt
<1>3. /\ GoodState(s.st)
      /\ s.st.rk = st.rk /\ s.st.ckr = st.ckr
      /\ s.st.mkskipped = st.mkskipped
      /\ st.cks \in ChainKeys /\ s.mk = st.cks
      /\ s.st.cks = kdf_ck(st.cks)
  BY <1>1, <1>2, SendAdvances
<1>4. /\ sent \in [Party -> 0 .. MaxSent] /\ DOMAIN ratchet = Party
      /\ sent[p] \in 0 .. MaxSent
      /\ StateOK(st) /\ st.cks[1] = st.rk
      /\ Len(st.rk) % 2 = Parity(p)
  <2>1. st.cks /= None
    BY <1>3, ChainKeyParts
  <2> QED
    BY <1>1, <2>1, ZenonT(40)
       DEF Inv, TypeOK, KeysInOrder, GoodState, ChainsOrdered
<1>5. /\ m.from = p /\ m.ct = c /\ m.header = h
      /\ m.ct.mk = st.cks /\ m.ct.pt = sent[p] + 1
  BY <1>3 DEF seal
<1>6. m \in Messages
  <2>1. h \in Headers
    BY <1>4, SMTT(40) DEF Header, Headers, StateOK
  <2>2. sent[p] + 1 \in 1 .. MaxSent
    BY <1>2, <1>4, MaxSentAssumption
  <2>3. c \in Ciphertexts
    BY <1>3, <2>1, <2>2 DEF seal, concat_ad, Ciphertexts
  <2> QED
    BY <2>1, <2>3 DEF Messages
<1> HIDE DEF s, h, c, m
<1>7. /\ ratchet'[p] = s.st
      /\ \A q \in Party : q /= p => ratchet'[q] = ratchet[q]
      /\ sent'[p] = sent[p] + 1
      /\ \A q \in Party : q /= p => sent'[q] = sent[q]
  BY <1>2, <1>4
<1>8. \A q \in Party : GoodState(ratchet'[q])
  BY <1>3, <1>7, InvGood
<1>9. TypeOK'
  <2>1. sent' \in [Party -> 0 .. MaxSent]
    BY <1>2, <1>4, MaxSentAssumption
  <2>2. wire' \subseteq Messages
    BY <1>2, <1>6 DEF Inv, TypeOK
  <2>3. DOMAIN ratchet' = Party
    BY <1>2, <1>4
  <2> QED
    BY <1>2, <1>8, <2>1, <2>2, <2>3 DEF Inv, TypeOK, GoodState
<1>10. SkippedBounded'
  BY <1>8 DEF SkippedBounded, GoodState
<1>11. \A q \in Party : /\ ChainsOrdered(ratchet'[q])
                         /\ Len(ratchet'[q].rk) % 2 = Parity(q)
  BY <1>3, <1>4, <1>7, <1>8, Zenon DEF GoodState, Inv, KeysInOrder
<1>12. /\ kdf_ck(st.cks) \in ChainKeys /\ kdf_ck(st.cks) /= None
       /\ Before(st.cks, kdf_ck(st.cks))
       /\ \A x \in ChainKeys :
             Before(x, st.cks) => Before(x, kdf_ck(st.cks))
  <2>1. kdf_ck(st.cks) \in ChainKeys
    BY <1>3, ChainAdvances
  <2>2. kdf_ck(st.cks) /= None
    BY <2>1, ChainKeyParts
  <2> QED
    BY <1>3, <2>1, <2>2, ChainOrder
<1>13. ASSUME NEW x \in wire'
       PROVE  /\ ratchet'[x.from].cks /= None
              /\ Before(x.ct.mk, ratchet'[x.from].cks)
              /\ Len(x.ct.mk[1]) % 2 = Parity(x.from)
              /\ x.ct.pt <= sent'[x.from]
  <2>1. CASE x = m
    <3>1. /\ ratchet'[p].cks = kdf_ck(st.cks) /\ x.from = p
          /\ x.ct.mk = st.cks /\ x.ct.pt = sent'[p]
          /\ sent'[p] \in Nat
      BY <1>3, <1>4, <1>5, <1>7, <2>1, MaxSentAssumption
    <3>2. x.ct.pt <= sent'[p]
      BY <3>1
    <3> QED
      BY <1>4, <1>12, <3>1, <3>2, ZenonT(40)
  <2>2. CASE x \in wire /\ x.from = p
    <3>1. x.ct.pt <= sent[p] + 1
      <4>1. x.ct.pt <= sent[p] /\ x.ct.pt \in 1 .. MaxSent
        BY <2>2, WireParts, Zenon
      <4>2. sent[p] \in Nat
        BY <1>4
      <4> QED
        BY <4>1, <4>2, MaxSentAssumption
    <3> QED
      BY <1>3, <1>7, <1>12, <2>2, <3>1, WireParts, Zenon
  <2>3. CASE x \in wire /\ x.from /= p
    BY <1>7, <2>3, WireParts, Zenon
  <2> QED
    BY <1>2, <2>1, <2>2, <2>3, Zenon
<1>14. ASSUME NEW x \in wire
       PROVE  /\ Apart(x.ct.mk, m.ct.mk) /\ Apart(m.ct.mk, x.ct.mk)
              /\ x.from = m.from => x.ct.pt /= m.ct.pt
  <2>1. CASE x.from = p
    <3>1. Before(x.ct.mk, m.ct.mk)
      BY <1>5, <2>1, WireParts, Zenon
    <3>2. x.ct.pt /= m.ct.pt
      <4>1. x.ct.pt <= sent[p] /\ x.ct.pt \in 1 .. MaxSent
        BY <2>1, WireParts, Zenon
      <4>2. sent[p] \in Nat
        BY <1>4
      <4> QED
        BY <1>5, <4>1, <4>2, MaxSentAssumption
    <3> QED
      BY <3>1, <3>2 DEF Apart
  <2>2. CASE x.from /= p
    <3>1. Len(m.ct.mk[1]) % 2 = Parity(p) /\ m.ct.mk \in ChainKeys
      BY <1>3, <1>4, <1>5, Zenon
    <3>2. Apart(x.ct.mk, m.ct.mk)
      BY <2>2, <3>1, WireParts, SidesApart, Zenon
    <3> QED
      BY <1>5, <2>2, <3>2 DEF Apart
  <2> QED
    BY <2>1, <2>2
<1>15. ASSUME NEW x \in wire', NEW y \in wire', x /= y
       PROVE  /\ Apart(x.ct.mk, y.ct.mk)
              /\ x.from = y.from => x.ct.pt /= y.ct.pt
  <2>1. CASE x \in wire /\ y \in wire
    BY <1>15, <2>1 DEF Inv, KeysInOrder, WireOrdered
  <2>2. CASE x = m /\ y \in wire
    BY <1>14, <2>2
  <2>3. CASE x \in wire /\ y = m
    BY <1>14, <2>3
  <2> QED
    BY <1>2, <1>15, <2>1, <2>2, <2>3
<1>16. WireOrdered'
  BY <1>13, <1>15, ZenonT(40) DEF WireOrdered
<1>17. DeliveredGone'
  <2> SUFFICES ASSUME NEW q \in Party
               PROVE  /\ \A k \in 1 .. MaxSent : delivered'[q][k] > 0 =>
                            /\ delivered'[q][k] = 1
                            /\ \E x \in wire' : x.from = Peer(q) /\ x.ct.pt = k
                      /\ \A x \in wire' : x.from = Peer(q) =>
                            (delivered'[q][x.ct.pt] > 0 =>
                                 Gone(ratchet'[q], x.ct.mk))
    BY DEF DeliveredGone, Incoming
  <2>1. /\ \A k \in 1 .. MaxSent : delivered[q][k] > 0 =>
              /\ delivered[q][k] = 1
              /\ \E x \in wire : x.from = Peer(q) /\ x.ct.pt = k
        /\ \A x \in wire : x.from = Peer(q) =>
              (delivered[q][x.ct.pt] > 0 => Gone(ratchet[q], x.ct.mk))
    BY DEF Inv, KeysInOrder, DeliveredGone, Incoming
  <2>2. \A y : Gone(ratchet'[q], y) <=> Gone(ratchet[q], y)
    BY <1>3, <1>7 DEF Gone
  <2>3. m.from = Peer(q) => ~(delivered[q][m.ct.pt] > 0)
    <3> SUFFICES ASSUME m.from = Peer(q), delivered[q][m.ct.pt] > 0
                 PROVE  FALSE
      OBVIOUS
    <3>1. m.ct.pt \in 1 .. MaxSent
      BY <1>6 DEF Messages, Ciphertexts
    <3>2. PICK x \in wire : x.from = Peer(q) /\ x.ct.pt = m.ct.pt
      BY <2>1, <3>1
    <3>3. x.ct.pt <= sent[p]
      BY <1>5, <3>2, WireParts, Zenon
    <3> QED
      BY <1>4, <1>5, <3>2, <3>3
  <2> QED
    BY <1>2, <2>1, <2>2, <2>3
<1> QED
  BY <1>9, <1>10, <1>11, <1>16, <1>17, ZenonT(40) DEF Inv, KeysInOrder

\* A step that at most moves a sending chain forward
LEMMA QuietStepKeepsInv ==
    ASSUME Inv, NEW p \in Party, NEW st, GoodState(st),
           st.rk = ratchet[p].rk, st.ckr = ratchet[p].ckr,
           st.mkskipped = ratchet[p].mkskipped,
           \/ st.cks = ratchet[p].cks
           \/ ratchet[p].cks \in ChainKeys /\ st.cks = kdf_ck(ratchet[p].cks),
           ratchet' = [ratchet EXCEPT ![p] = st],
           UNCHANGED <<generated, wire, sent, delivered>>
    PROVE  Inv'
<1>1. /\ generated' = generated /\ wire' = wire /\ sent' = sent
      /\ delivered' = delivered
  OBVIOUS
<1>2. DOMAIN ratchet = Party
  BY DEF Inv, TypeOK
<1>3. /\ ratchet'[p] = st /\ DOMAIN ratchet' = Party
      /\ \A q \in Party : q /= p => ratchet'[q] = ratchet[q]
  BY <1>2
<1>4. \A q \in Party : GoodState(ratchet'[q])
  BY <1>3, InvGood
<1>5. TypeOK'
  BY <1>1, <1>3, <1>4 DEF Inv, TypeOK, GoodState
<1>6. SkippedBounded'
  BY <1>4 DEF SkippedBounded, GoodState
<1>7. \A q \in Party : /\ ChainsOrdered(ratchet'[q])
                        /\ Len(ratchet'[q].rk) % 2 = Parity(q)
  BY <1>3, <1>4, Zenon DEF GoodState, Inv, KeysInOrder
<1>8. ASSUME NEW x \in wire
      PROVE  /\ ratchet'[x.from].cks /= None
             /\ Before(x.ct.mk, ratchet'[x.from].cks)
  <2>1. CASE x.from = p
    <3> DEFINE old == ratchet[p].cks
    <3>1. /\ old \in ChainKeys /\ Before(x.ct.mk, old) /\ old /= None
          /\ x.ct.mk \in ChainKeys
      BY <2>1, WireParts, Zenon
    <3>2. CASE st.cks = old
      BY <1>3, <2>1, <3>1, <3>2
    <3>3. CASE st.cks = kdf_ck(old)
      <4>1. kdf_ck(old) \in ChainKeys
        BY <3>1, ChainAdvances
      <4>2. kdf_ck(old) /= None
        BY <4>1, ChainKeyParts
      <4>3. Before(x.ct.mk, kdf_ck(old))
        BY <3>1, ChainOrder
      <4> QED
        BY <1>3, <2>1, <3>3, <4>2, <4>3
    <3> QED
      BY <3>2, <3>3
  <2>2. CASE x.from /= p
    BY <1>3, <2>2, WireParts, Zenon
  <2> QED
    BY <2>1, <2>2
<1>9. WireOrdered'
  BY <1>1, <1>8, Zenon DEF Inv, KeysInOrder, WireOrdered
<1>10. \A q \in Party : \A y : Gone(ratchet'[q], y) <=> Gone(ratchet[q], y)
  BY <1>3 DEF Gone
<1>11. DeliveredGone'
  BY <1>1, <1>10 DEF Inv, KeysInOrder, DeliveredGone, Incoming
<1> QED
  BY <1>5, <1>6, <1>7, <1>9, <1>11, Zenon DEF Inv, KeysInOrder

LEMMA EncryptFailsKeepsInv ==
    ASSUME Inv, NEW p \in Party, EncryptFails(p)
    PROVE  Inv'
<1> DEFINE s == ratchet_send_key(ratchet[p])
<1>1. /\ ratchet' = [ratchet EXCEPT ![p] = s.st]
      /\ UNCHANGED <<generated, wire, sent, delivered>>
  BY DEF EncryptFails, encrypt
<1>2. /\ GoodState(s.st)
      /\ s.st.rk = ratchet[p].rk /\ s.st.ckr = ratchet[p].ckr
      /\ s.st.mkskipped = ratchet[p].mkskipped
      /\ \/ s.st.cks = ratchet[p].cks
         \/ /\ ratchet[p].cks \in ChainKeys
            /\ s.st.cks = kdf_ck(ratchet[p].cks)
  BY InvGood, SendAdvances
<1> HIDE DEF s
<1> QED
  BY <1>1, <1>2, QuietStepKeepsInv, Zenon

LEMMA DecryptFailsKeepsInv ==
    ASSUME Inv, NEW p \in Party, NEW h, NEW c, DecryptFails(p, h, c)
    PROVE  Inv'
<1>1. /\ ratchet' = [ratchet EXCEPT ![p] = ratchet[p]]
      /\ UNCHANGED <<generated, wire, sent, delivered>>
  BY ZenonT(40) DEF DecryptFails, decrypt
<1>2. GoodState(ratchet[p])
  BY InvGood
<1> QED
  BY <1>1, <1>2, QuietStepKeepsInv, Zenon

\* What a successful decrypt says: the plaintext had not been returned before,
\* and the new state is one ratchet_receive_key leads to.
LEMMA DecryptParts ==
    ASSUME Inv, NEW p \in Party, NEW m1 \in Incoming(p), NEW m2 \in Incoming(p),
           Decrypt(p, m1.header, m2.ct)
    PROVE  LET r == ratchet_receive_key(ratchet[p], m1.header, Fresh(p))
           IN  /\ Derives(ratchet[p], r) /\ r.mk = m2.ct.mk
               /\ \/ r.st.rk = ratchet[p].rk /\ r.st.cks = ratchet[p].cks
                  \/ /\ Len(r.st.rk) = Len(ratchet[p].rk) + 2
                     /\ r.st.cks = ChainKey(r.st.rk)
               /\ ratchet' = [ratchet EXCEPT ![p] = r.st]
               /\ delivered[p][m2.ct.pt] = 0
<1> DEFINE r == ratchet_receive_key(ratchet[p], m1.header, Fresh(p))
<1>1. /\ m1 \in wire /\ m2 \in wire
      /\ m1.from = Peer(p) /\ m2.from = Peer(p)
  BY DEF Incoming
<1>2. m1.header \in Headers /\ m2.ct.mk \in ChainKeys /\ m2.ct.pt \in 1 .. MaxSent
  BY <1>1, WireParts, Zenon
<1>3. Fresh(p) \in DhKeys
  BY DEF Inv, TypeOK, Fresh, DhKey, DhKeys
<1>4. /\ r.err = "ok" /\ r.mk = m2.ct.mk
      /\ ratchet' = [ratchet EXCEPT ![p] = r.st]
  BY ZenonT(40) DEF Decrypt, decrypt, open
<1>5. GoodState(ratchet[p])
  BY InvGood
<1>6. /\ Derives(ratchet[p], r)
      /\ \/ r.st.rk = ratchet[p].rk /\ r.st.cks = ratchet[p].cks
         \/ /\ Len(r.st.rk) = Len(ratchet[p].rk) + 2
            /\ r.st.cks = ChainKey(r.st.rk)
  BY <1>2, <1>3, <1>4, <1>5, ReceiveDerives
<1> HIDE DEF r
<1>7. ~Gone(ratchet[p], m2.ct.mk)
  BY <1>4, <1>6 DEF Derives
<1>8. ~(delivered[p][m2.ct.pt] > 0)
  BY <1>7 DEF Inv, KeysInOrder, DeliveredGone
<1>9. delivered[p][m2.ct.pt] \in Nat
  BY <1>2, Zenon DEF Inv, TypeOK
<1>10. delivered[p][m2.ct.pt] = 0
  BY <1>8, <1>9
<1> QED
  BY <1>4, <1>6, <1>10, Zenon DEF r

LEMMA DecryptKeepsInv ==
    ASSUME Inv, NEW p \in Party, NEW m1 \in Incoming(p), NEW m2 \in Incoming(p),
           Decrypt(p, m1.header, m2.ct)
    PROVE  Inv'
<1> DEFINE st == ratchet[p]
           r == ratchet_receive_key(st, m1.header, Fresh(p))
           k0 == m2.ct.pt
<1>1. /\ Derives(st, r) /\ r.mk = m2.ct.mk
      /\ \/ r.st.rk = st.rk /\ r.st.cks = st.cks
         \/ /\ Len(r.st.rk) = Len(st.rk) + 2
            /\ r.st.cks = ChainKey(r.st.rk)
      /\ ratchet' = [ratchet EXCEPT ![p] = r.st]
      /\ delivered[p][k0] = 0
  BY DecryptParts
<1> HIDE DEF r
<1>2. /\ wire' = wire /\ sent' = sent
      /\ delivered' = [delivered EXCEPT ![p] =
                          [delivered[p] EXCEPT ![k0] = delivered[p][k0] + 1]]
      /\ generated' \in [Party -> Nat]
  <2>1. wire' = wire /\ sent' = sent
    BY DEF Decrypt
  <2>2. delivered' = [delivered EXCEPT ![p] =
                         [delivered[p] EXCEPT ![k0] = delivered[p][k0] + 1]]
    BY Zenon DEF Decrypt
  <2>3. \/ generated' = generated
        \/ generated' = [generated EXCEPT ![p] = generated[p] + 1]
    BY Zenon DEF Decrypt
  <2>4. generated \in [Party -> Nat]
    BY DEF Inv, TypeOK
  <2>5. generated' \in [Party -> Nat]
    BY <2>3, <2>4
  <2> QED
    BY <2>1, <2>2, <2>5
<1>3. /\ m2 \in wire /\ m2.from = Peer(p) /\ k0 \in 1 .. MaxSent
      /\ m2.ct.mk \in ChainKeys
  BY WireParts, Zenon DEF Incoming
<1>4. /\ DOMAIN ratchet = Party
      /\ delivered \in [Party -> [1 .. MaxSent -> Nat]]
  BY DEF Inv, TypeOK
<1>5. /\ ratchet'[p] = r.st /\ DOMAIN ratchet' = Party
      /\ \A q \in Party : q /= p => ratchet'[q] = ratchet[q]
  BY <1>1, <1>4
<1>6. /\ delivered' \in [Party -> [1 .. MaxSent -> Nat]]
      /\ delivered'[p][k0] = 1
      /\ \A k \in 1 .. MaxSent : k /= k0 => delivered'[p][k] = delivered[p][k]
      /\ \A q \in Party : q /= p => delivered'[q] = delivered[q]
  <2> HIDE DEF k0
  <2>1. delivered[p][k0] + 1 = 1
    BY <1>1
  <2>2. delivered[p] \in [1 .. MaxSent -> Nat]
    BY <1>4
  <2> DEFINE d == [delivered[p] EXCEPT ![k0] = 1]
  <2>3. /\ d \in [1 .. MaxSent -> Nat] /\ d[k0] = 1
        /\ \A k \in 1 .. MaxSent : k /= k0 => d[k] = delivered[p][k]
    BY <1>3, <2>2, Zenon
  <2>4. delivered' = [delivered EXCEPT ![p] = d]
    BY <1>2, <2>1, ZenonT(40)
  <2> HIDE DEF d
  <2> QED
    BY <1>4, <2>3, <2>4
<1>7. \A q \in Party : GoodState(ratchet'[q])
  BY <1>1, <1>5, InvGood DEF Derives
<1>8. TypeOK'
  BY <1>2, <1>5, <1>6, <1>7, SMTT(40) DEF Inv, TypeOK, GoodState
<1>9. SkippedBounded'
  BY <1>7 DEF SkippedBounded, GoodState
<1>10. Len(r.st.rk) % 2 = Parity(p)
  <2>1. Len(st.rk) % 2 = Parity(p) /\ Len(st.rk) \in Nat
    <3>1. st.rk \in RootKeys
      BY InvGood, Zenon DEF GoodState, StateOK
    <3>2. Len(st.rk) \in Nat
      BY <3>1 DEF RootKeys
    <3> QED
      BY <3>2, Zenon DEF Inv, KeysInOrder
  <2>2. \A n \in Nat : (n + 2) % 2 = n % 2
    OBVIOUS
  <2> QED
    BY <1>1, <2>1, <2>2, Zenon
<1>11. \A q \in Party : /\ ChainsOrdered(ratchet'[q])
                         /\ Len(ratchet'[q].rk) % 2 = Parity(q)
  BY <1>5, <1>7, <1>10, ZenonT(40) DEF GoodState, Inv, KeysInOrder
<1>12. ASSUME NEW x \in wire
       PROVE  /\ ratchet'[x.from].cks /= None
              /\ Before(x.ct.mk, ratchet'[x.from].cks)
  <2>1. CASE x.from /= p
    BY <1>5, <2>1, WireParts, Zenon
  <2>2. CASE x.from = p /\ r.st.cks = st.cks
    BY <1>5, <2>2, WireParts, ZenonT(40)
  <2>3. CASE /\ x.from = p /\ Len(r.st.rk) = Len(st.rk) + 2
             /\ r.st.cks = ChainKey(r.st.rk)
    <3>1. /\ st.cks \in ChainKeys /\ st.cks /= None
          /\ Before(x.ct.mk, st.cks) /\ x.ct.mk \in ChainKeys
      BY <2>3, WireParts, ZenonT(40)
    <3>2. st.cks[1] = st.rk /\ r.st.rk \in RootKeys /\ st.rk \in RootKeys
      <4>1. GoodState(st) /\ GoodState(r.st)
        BY <1>1, InvGood DEF Derives
      <4> QED
        BY <3>1, <4>1, Zenon DEF GoodState, StateOK, ChainsOrdered
    <3>3. r.st.cks[1] = r.st.rk /\ r.st.cks \in ChainKeys
      BY <2>3, <3>2 DEF ChainKey, ChainKeys
    <3>4. /\ Len(x.ct.mk[1]) \in Nat /\ Len(st.rk) \in Nat
          /\ Len(x.ct.mk[1]) <= Len(st.rk)
      <4>1. Len(x.ct.mk[1]) \in Nat /\ Len(st.cks[1]) \in Nat
        BY <3>1, ChainKeyParts
      <4> QED
        BY <3>1, <3>2, <4>1 DEF Before
    <3>5. Len(x.ct.mk[1]) < Len(r.st.rk)
      BY <2>3, <3>4
    <3>6. r.st.cks /= None
      BY <3>3, ChainKeyParts
    <3> QED
      BY <1>5, <2>3, <3>3, <3>5, <3>6 DEF Before
  <2> QED
    BY <1>1, <2>1, <2>2, <2>3
<1>13. WireOrdered'
  BY <1>2, <1>12, ZenonT(40) DEF Inv, KeysInOrder, WireOrdered
<1>14. \A q \in Party : \A x \in ChainKeys :
          Gone(ratchet[q], x) => Gone(ratchet'[q], x)
  BY <1>1, <1>5 DEF Derives
<1>15. ASSUME NEW q \in Party
       PROVE  /\ \A k \in 1 .. MaxSent : delivered'[q][k] > 0 =>
                    /\ delivered'[q][k] = 1
                    /\ \E x \in wire : x.from = Peer(q) /\ x.ct.pt = k
              /\ \A x \in wire : x.from = Peer(q) =>
                    (delivered'[q][x.ct.pt] > 0 => Gone(ratchet'[q], x.ct.mk))
  <2>1. /\ \A k \in 1 .. MaxSent : delivered[q][k] > 0 =>
              /\ delivered[q][k] = 1
              /\ \E x \in wire : x.from = Peer(q) /\ x.ct.pt = k
        /\ \A x \in wire : x.from = Peer(q) =>
              (delivered[q][x.ct.pt] > 0 => Gone(ratchet[q], x.ct.mk))
    BY DEF Inv, KeysInOrder, DeliveredGone, Incoming
  <2>2. \A x \in wire : x.ct.mk \in ChainKeys /\ x.ct.pt \in 1 .. MaxSent
    BY WireParts, ZenonT(40)
  <2>3. CASE q /= p
    BY <1>6, <1>14, <2>1, <2>2, <2>3
  <2>4. CASE q = p
    <3>1. \A k \in 1 .. MaxSent : delivered'[q][k] > 0 =>
             /\ delivered'[q][k] = 1
             /\ \E x \in wire : x.from = Peer(q) /\ x.ct.pt = k
      BY <1>3, <1>6, <2>1, <2>4
    <3>2. ASSUME NEW x \in wire, x.from = Peer(q), delivered'[q][x.ct.pt] > 0
          PROVE  Gone(ratchet'[q], x.ct.mk)
      <4>1. CASE x = m2
        <5>1. Gone(r.st, r.mk)
          BY <1>1, Zenon DEF Derives
        <5>2. ratchet'[q] = r.st /\ x.ct.mk = r.mk
          BY <1>1, <1>5, <2>4, <4>1, Zenon
        <5> QED
          BY <5>1, <5>2, Zenon
      <4>2. CASE x /= m2
        <5>1. x.ct.pt /= k0
          <6>1. \A y, z \in wire : y /= z /\ y.from = z.from => y.ct.pt /= z.ct.pt
            BY Zenon DEF Inv, KeysInOrder, WireOrdered
          <6> QED
            BY <1>3, <2>4, <3>2, <4>2, <6>1, Zenon
        <5>2. delivered[q][x.ct.pt] > 0
          BY <1>6, <2>2, <2>4, <3>2, <5>1, Zenon
        <5>3. Gone(ratchet[q], x.ct.mk)
          BY <2>1, <3>2, <5>2, Zenon
        <5> QED
          BY <1>14, <2>2, <5>3, Zenon
      <4> QED
        BY <4>1, <4>2, Zenon
    <3> QED
      BY <3>1, <3>2
  <2> QED
    BY <2>3, <2>4
<1>16. DeliveredGone'
  BY <1>2, <1>15 DEF DeliveredGone, Incoming
<1> QED
  BY <1>8, <1>9, <1>11, <1>13, <1>16, Zenon DEF Inv, KeysInOrder

\* Every step of either side, successful or not, keeps the invariant.
LEMMA NextKeepsInv ==
    ASSUME Inv, [Next]_vars
    PROVE  Inv'
<1>1. CASE UNCHANGED vars
  <2>1. /\ ratchet' = ratchet /\ generated' = generated /\ wire' = wire
        /\ sent' = sent /\ delivered' = delivered
    BY <1>1 DEF vars
  <2> QED
    BY <2>1, ZenonT(40)
       DEF Inv, TypeOK, SkippedBounded, KeysInOrder, WireOrdered,
                DeliveredGone, Incoming
<1>2. ASSUME NEW p \in Party, Encrypt(p)
      PROVE  Inv'
  BY <1>2, EncryptKeepsInv
<1>3. ASSUME NEW p \in Party, EncryptFails(p)
      PROVE  Inv'
  BY <1>3, EncryptFailsKeepsInv
<1>4. ASSUME NEW p \in Party, NEW m1 \in Incoming(p), NEW m2 \in Incoming(p),
             Decrypt(p, m1.header, m2.ct)
      PROVE  Inv'
  BY <1>4, DecryptKeepsInv
<1>5. ASSUME NEW p \in Party, NEW m1 \in Incoming(p), NEW m2 \in Incoming(p),
             DecryptFails(p, m1.header, m2.ct)
      PROVE  Inv'
  BY <1>5, DecryptFailsKeepsInv
<1> QED
  BY <1>1, <1>2, <1>3, <1>4, <1>5, SMTT(40) DEF Next

\* In every behaviour, every reachable state has its types, a bounded store
\* of skipped keys, and its message keys in order.
THEOREM Invariance == Spec => []Inv
<1>1. Init => Inv
  BY InitInv
<1>2. Inv /\ [Next]_vars => Inv'
  BY NextKeepsInv
<1> QED
  BY <1>1, <1>2, PTL DEF Spec

\* Every ratchet state, message and u32 counter always has its type.
THEOREM TypeCorrect == Spec => []TypeOK
<1>1. Inv => TypeOK
  BY DEF Inv
<1> QED
  BY <1>1, Invariance, PTL

\* The store of skipped keys never exceeds max_skip, for every max_skip.
THEOREM StoreBounded == Spec => []SkippedBounded
<1>1. Inv => SkippedBounded
  BY DEF Inv
<1> QED
  BY <1>1, Invariance, PTL

\* The invariant behind the next theorems, on its own.
THEOREM Ordered == Spec => []KeysInOrder
<1>1. Inv => KeysInOrder
  BY DEF Inv
<1> QED
  BY <1>1, Invariance, PTL

\* No message key, and so no AEAD key and nonce, is used for two messages.
THEOREM UniqueMessageKey == Spec => []KeyUsedOnce
<1>1. Inv => KeyUsedOnce
  <2> SUFFICES ASSUME Inv, NEW m1 \in wire, NEW m2 \in wire,
                      m1.ct.mk = m2.ct.mk, m1 /= m2
               PROVE  FALSE
    BY DEF KeyUsedOnce
  <2>1. Apart(m1.ct.mk, m2.ct.mk)
    BY DEF Inv, KeysInOrder, WireOrdered
  <2>2. m1.ct.mk \in ChainKeys
    BY WireParts, Zenon
  <2> QED
    BY <2>1, <2>2, BeforeOrder DEF Apart
<1> QED
  BY <1>1, Invariance, PTL

\* A receiver that has returned a message can no longer produce its key.
THEOREM ForwardSecrecy == Spec => []ConsumedKeysGone
<1>1. Inv => ConsumedKeysGone
  <2> SUFFICES ASSUME Inv, NEW p \in Party, NEW m \in Incoming(p),
                      delivered[p][m.ct.pt] > 0
               PROVE  /\ \A k \in DOMAIN ratchet[p].mkskipped :
                             ratchet[p].mkskipped[k] /= m.ct.mk
                      /\ ratchet[p].ckr /= None
                      /\ Before(m.ct.mk, ratchet[p].ckr)
    BY DEF ConsumedKeysGone
  <2>1. Gone(ratchet[p], m.ct.mk)
    BY DEF Inv, KeysInOrder, DeliveredGone
  <2>2. m.ct.mk \in ChainKeys
    BY WireParts, Zenon DEF Incoming
  <2>3. ~Apart(m.ct.mk, m.ct.mk)
    BY <2>2, BeforeOrder DEF Apart
  <2> QED
    BY <2>1, <2>3 DEF Gone
<1> QED
  BY <1>1, Invariance, PTL

\* The ratchet implements the channel that hands every sent message over at
\* most once: Decrypt is Deliver, Encrypt is Send, a failed call is a stutter.
THEOREM Refinement == Spec => ImplementsChannel
<1>1. Init => Channel!Init
  BY DEF Init, Channel!Init
<1>2. ASSUME Inv, [Next]_vars
      PROVE  [Channel!Next]_(Channel!vars)
  <2>1. CASE UNCHANGED vars
    BY <2>1 DEF vars, Channel!vars
  <2>2. ASSUME NEW p \in Party, Encrypt(p)
        PROVE  Channel!Send(p)
    BY <2>2 DEF Encrypt, Channel!Send
  <2>3. ASSUME NEW p \in Party, EncryptFails(p)
        PROVE  UNCHANGED Channel!vars
    BY <2>3 DEF EncryptFails, Channel!vars
  <2>4. ASSUME NEW p \in Party, NEW m1 \in Incoming(p), NEW m2 \in Incoming(p),
               Decrypt(p, m1.header, m2.ct)
        PROVE  m2.ct.pt \in 1 .. MaxSent /\ Channel!Deliver(p, m2.ct.pt)
    <3>1. /\ m2 \in wire /\ m2.from = Peer(p)
      BY DEF Incoming
    <3>2. m2.ct.pt \in 1 .. MaxSent /\ m2.ct.pt <= sent[Peer(p)]
      BY <1>2, <3>1, WireParts, Zenon
    <3>3. delivered[p][m2.ct.pt] = 0
      BY <1>2, <2>4, DecryptParts
    <3>4. delivered' = [delivered EXCEPT ![p] =
                           [delivered[p] EXCEPT ![m2.ct.pt] = 1]]
      <4>1. delivered[p][m2.ct.pt] + 1 = 1
        BY <3>3
      <4> QED
        BY <2>4, <4>1, Zenon DEF Decrypt
    <3>5. sent' = sent
      BY <2>4 DEF Decrypt
    <3> QED
      BY <3>2, <3>3, <3>4, <3>5 DEF Channel!Deliver
  <2>5. ASSUME NEW p \in Party, NEW m1 \in Incoming(p), NEW m2 \in Incoming(p),
               DecryptFails(p, m1.header, m2.ct)
        PROVE  UNCHANGED Channel!vars
    BY <2>5 DEF DecryptFails, Channel!vars
  <2> QED
    BY <1>2, <2>1, <2>2, <2>3, <2>4, <2>5 DEF Next, Channel!Next
<1> QED
  BY <1>1, <1>2, Invariance, PTL DEF Spec, ImplementsChannel, Channel!Spec
=============================================================================
