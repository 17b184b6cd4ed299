---------------------------- MODULE InStepLemmas ----------------------------
(***************************************************************************)
(* What the operations of the Double Ratchet do to a pair of states that   *)
(* are in step: lemmas about two states and a set of messages.             *)
(***************************************************************************)
EXTENDS RatchetPair, TLAPS

------------------------------------------------------------------------------
(* What the operations do to a state *)

IsState(st) ==
    /\ st = [dhs |-> st.dhs, dhr |-> st.dhr, rk |-> st.rk, cks |-> st.cks,
             ckr |-> st.ckr, ns |-> st.ns, nr |-> st.nr, pn |-> st.pn,
             mkskipped |-> st.mkskipped]
    /\ st.nr \in Nat

\* The receiving chain stands at the number of the next message.
OnChain(st) ==
    /\ IsState(st)
    /\ st.ckr /= None
    /\ st.ckr = <<st.ckr[1], st.nr>>

\* More keys would have to be stored than skip_message_keys allows.
TooMany(st, until) == st.nr + MaxSkip < until \/ StoreFull(st, until)

\* t is st after its receiving chain has passed the numbers below n and given
\* out the first j of the rest: the keys passed are in the store.
Passed(st, t, n, j) ==
    /\ t.dhs = st.dhs /\ t.dhr = st.dhr /\ t.rk = st.rk /\ t.cks = st.cks
    /\ t.ns = st.ns /\ t.pn = st.pn
    /\ t.nr = n + j
    /\ t.ckr = <<st.ckr[1], n + j>>
    /\ DOMAIN t.mkskipped = DOMAIN st.mkskipped \cup SkipSlots(st, n)
    /\ \A k \in SkipSlots(st, n) : t.mkskipped[k] = <<st.ckr[1], k[2]>>
    /\ \A k \in DOMAIN st.mkskipped \ SkipSlots(st, n) :
          t.mkskipped[k] = st.mkskipped[k]

\* The keys that a new chain makes the receiver store of the chain before it
OldSlots(st, h) == IF st.ckr = None THEN {} ELSE SkipSlots(st, h.pn)

NewSlots(h, n) == {<<h.dh, i>> : i \in 0 .. n - 1}

\* t is st after a DH step on the header h, whose message it has received: the
\* keys passed on the old and on the new receiving chain are in the store.
Opened(st, t, h, fresh, rk1) ==
    /\ t.dhs = fresh /\ t.dhr = h.dh
    /\ t.rk = kdf_rk(rk1, diffie_hellman(fresh, h.dh))
    /\ t.cks = <<t.rk, 0>> /\ t.ckr = <<rk1, h.n + 1>>
    /\ t.ns = 0 /\ t.pn = st.ns /\ t.nr = h.n + 1
    /\ DOMAIN t.mkskipped
          = DOMAIN st.mkskipped \cup OldSlots(st, h) \cup NewSlots(h, h.n)
    /\ \A k \in NewSlots(h, h.n) : t.mkskipped[k] = <<rk1, k[2]>>
    /\ \A k \in OldSlots(st, h) \ NewSlots(h, h.n) :
          t.mkskipped[k] = <<st.ckr[1], k[2]>>
    /\ \A k \in DOMAIN st.mkskipped \ (OldSlots(st, h) \cup NewSlots(h, h.n)) :
          t.mkskipped[k] = st.mkskipped[k]

\* More keys would have to be stored on the new chain than allowed.
TooManyNew(st, h) ==
    \/ MaxSkip < h.n
    \/ \E i \in 0 .. h.n - 1 :
          Cardinality(DOMAIN st.mkskipped \cup OldSlots(st, h)
                         \cup NewSlots(h, i)) >= MaxSkip

\* The state before a message of the chain that the next DH step opens
BeforeChain(st, h) ==
    /\ IsState(st)
    /\ <<h.dh, h.n>> \notin DOMAIN st.mkskipped
    /\ st.dhr /= h.dh
    /\ h.n \in Nat /\ h.pn \in Nat
    /\ st.ckr = None => h.pn = 0
    /\ st.ckr /= None => st.ckr = <<st.ckr[1], st.nr>> /\ st.nr <= h.pn

------------------------------------------------------------------------------
(* Two states that are in step *)

\* What the invariants say of the values of two states and of the messages W
Sides(st, sq, p, q, g, gq, W) ==
    /\ IsState(st) /\ st.ns \in Nat /\ st.pn \in Nat /\ g \in Nat
    /\ IsState(sq) /\ sq.ns \in Nat /\ sq.pn \in Nat /\ gq \in Nat
    /\ p /= q
    /\ st.cks /= None => st.cks = <<st.rk, st.cks[2]>>
    /\ st.ckr /= None => st.ckr = <<st.ckr[1], st.ckr[2]>>
    /\ \A x \in W : /\ x.from = p \/ x.from = q
                    /\ x.header.dh = <<x.header.dh[1], x.header.dh[2]>>
                    /\ x.header.dh[2] \in Nat /\ x.header.n \in Nat
                    /\ x.ct.mk = <<x.ct.mk[1], x.ct.mk[2]>>
                    /\ x.from = p => st.cks /= None
    /\ \A k \in DOMAIN st.mkskipped :
          k[1][2] \in Nat /\ k[2] \in Nat /\ st.ckr /= None

\* One of the two is a DH step ahead of the other.
Paired(st, sq, p, q, g, gq, W) ==
    Ahead(st, sq, p, g, W) \/ Ahead(sq, st, q, gq, W)

\* The conjuncts of InStep, for p in the state st and its peer q in sq
Faces(st, sq, p, q, g, gq, W) ==
    /\ \A x \in W : x.from = p => HeaderTrue(x, st, g)
    /\ \A x \in W : x.from = q => HeaderTrue(x, sq, gq)
    /\ Sender(st, p, g, W) /\ Sender(sq, q, gq, W)
    /\ Paired(st, sq, p, q, g, gq, W)
    /\ Stored(st, q, W) /\ Stored(sq, p, W)

InOrder(W) ==
    \A x, y \in W : x.from = y.from =>
        /\ Slot(x) = Slot(y) => x = y
        /\ Earlier(Slot(x), Slot(y)) => x.ct.pt < y.ct.pt

\* d is how often the message m was delivered to the holder of the state st.
Found(st, m, dhs, d) ==
    \/ d > 0
    \/ Slot(m) \in DOMAIN st.mkskipped
    \/ NotReached(st, m, dhs)

\* W holds the message of q with number i under key pair d, sealed with the key
\* that number has on the chain c.
SentUnder(W, q, d, c, i) ==
    \E x \in W : x.from = q /\ Slot(x) = <<d, i>> /\ x.ct.mk = <<c, i>>

\* A message from q under the key pair of its state belongs to its sending
\* chain.
LEMMA SendersChain ==
    ASSUME NEW st, NEW sq, NEW p, NEW q, NEW g, NEW gq, NEW W,
           Sides(st, sq, p, q, g, gq, W), Faces(st, sq, p, q, g, gq, W),
           NEW x \in W, x.from = q, x.header.dh = sq.dhs
    PROVE  /\ x.ct.mk = <<sq.rk, x.header.n>>
           /\ x.header.n < sq.ns /\ x.header.pn = sq.pn
<1>1. HeaderTrue(x, sq, gq) /\ x.ct.mk = <<x.ct.mk[1], x.ct.mk[2]>>
  BY DEF Faces, Sides
<1>2. sq.dhs = <<q, gq>>
  BY DEF Faces, Sender, DhKey
<1> QED
  BY <1>1, <1>2 DEF HeaderTrue

\* The receiving chain of p stands at the next number.
LEMMA ChainPosition ==
    ASSUME NEW st, NEW sq, NEW p, NEW q, NEW g, NEW gq, NEW W,
           Sides(st, sq, p, q, g, gq, W), Faces(st, sq, p, q, g, gq, W),
           st.ckr /= None
    PROVE  st.ckr = <<st.ckr[1], st.nr>>
<1>1. st.ckr = <<st.ckr[1], st.ckr[2]>> /\ Paired(st, sq, p, q, g, gq, W)
  BY DEF Faces, Sides
<1>2. CASE Ahead(st, sq, p, g, W)
  BY <1>2 DEF Ahead
<1>3. CASE Ahead(sq, st, q, gq, W)
  BY <1>1, <1>3 DEF Ahead
<1> QED
  BY <1>1, <1>2, <1>3 DEF Paired

\* A message from q on the chain p is receiving on is sealed under its keys.
LEMMA ReceiversChain ==
    ASSUME NEW st, NEW sq, NEW p, NEW q, NEW g, NEW gq, NEW W,
           Sides(st, sq, p, q, g, gq, W), Faces(st, sq, p, q, g, gq, W),
           NEW x \in W, x.from = q, x.header.dh = st.dhr, st.ckr /= None
    PROVE  x.ct.mk = <<st.ckr[1], x.header.n>>
<1>1. /\ HeaderTrue(x, sq, gq) /\ x.ct.mk = <<x.ct.mk[1], x.ct.mk[2]>>
      /\ Paired(st, sq, p, q, g, gq, W)
  BY DEF Faces, Sides
<1>2. CASE Ahead(st, sq, p, g, W)
  <2>1. st.dhr = sq.dhs /\ st.ckr = <<sq.rk, st.nr>>
    BY <1>2 DEF Ahead
  <2>2. st.ckr[1] = sq.rk
    BY <2>1
  <2> QED
    BY <2>1, <2>2, SendersChain
<1>3. CASE Ahead(sq, st, q, gq, W)
  <2>1. x.ct.mk[1] = st.ckr[1]
    BY <1>3 DEF Ahead
  <2> QED
    BY <1>1, <2>1 DEF HeaderTrue
<1> QED
  BY <1>1, <1>2, <1>3 DEF Paired

\* When q has another key pair than the one p receives on, q is ahead.
LEMMA PeerAhead ==
    ASSUME NEW st, NEW sq, NEW p, NEW q, NEW g, NEW gq, NEW W,
           Faces(st, sq, p, q, g, gq, W), sq.dhs /= st.dhr
    PROVE  /\ Ahead(sq, st, q, gq, W)
           /\ sq.rk = kdf_rk(st.rk, diffie_hellman(st.dhs, sq.dhs))
<1>1. Ahead(sq, st, q, gq, W)
  BY DEF Faces, Paired, Ahead
<1>2. sq.rk = kdf_rk(st.rk, diffie_hellman(sq.dhs, st.dhs))
  BY <1>1 DEF Ahead
<1>3. diffie_hellman(st.dhs, sq.dhs) = diffie_hellman(sq.dhs, st.dhs)
  BY DEF diffie_hellman
<1> QED
  BY <1>1, <1>2, <1>3

\* Every number below that of the sending chain of q belongs to a message.
LEMMA SendersFilled ==
    ASSUME NEW st, NEW sq, NEW p, NEW q, NEW g, NEW gq, NEW W,
           Sides(st, sq, p, q, g, gq, W), Faces(st, sq, p, q, g, gq, W),
           NEW i \in Nat, i < sq.ns
    PROVE  SentUnder(W, q, sq.dhs, sq.rk, i)
<1>1. Complete(W, q, gq, sq.ns) /\ sq.ns \in Nat /\ sq.dhs = DhKey(q, gq)
  BY DEF Faces, Sender, Sides
<1>2. i \in 0 .. sq.ns - 1
  BY <1>1
<1>3. PICK x \in W : x.from = q /\ Slot(x) = <<DhKey(q, gq), i>>
  BY <1>1, <1>2 DEF Complete
<1>4. x.header.dh = sq.dhs /\ x.header.n = i /\ Slot(x) = <<sq.dhs, i>>
  BY <1>1, <1>3 DEF Slot
<1>5. x.ct.mk = <<sq.rk, x.header.n>>
  BY <1>3, <1>4, SendersChain
<1> QED
  BY <1>3, <1>4, <1>5 DEF SentUnder

\* While q is ahead, every number of the chain p is still receiving on belongs
\* to a message.
LEMMA ReceiversFilled ==
    ASSUME NEW st, NEW sq, NEW p, NEW q, NEW g, NEW gq, NEW W,
           Sides(st, sq, p, q, g, gq, W), Faces(st, sq, p, q, g, gq, W),
           Ahead(sq, st, q, gq, W), st.ckr /= None,
           NEW i \in Nat, i < sq.pn
    PROVE  SentUnder(W, q, st.dhr, st.ckr[1], i)
<1>1. Complete(W, q, gq - 1, sq.pn) /\ sq.pn \in Nat
  BY DEF Faces, Sender, Sides
<1>2. i \in 0 .. sq.pn - 1 /\ st.dhr = DhKey(q, gq - 1)
  BY <1>1 DEF Ahead
<1>3. PICK x \in W : x.from = q /\ Slot(x) = <<DhKey(q, gq - 1), i>>
  BY <1>1, <1>2 DEF Complete
<1>4. x.header.dh = st.dhr /\ x.header.n = i /\ Slot(x) = <<st.dhr, i>>
  BY <1>2, <1>3 DEF Slot
<1>5. x.ct.mk = <<st.ckr[1], x.header.n>>
  BY <1>3, <1>4, ReceiversChain
<1> QED
  BY <1>3, <1>4, <1>5 DEF SentUnder

\* Before a message m on the present receiving chain of p, every number belongs
\* to a message from q.
LEMMA ThisChainFilled ==
    ASSUME NEW st, NEW sq, NEW p, NEW q, NEW g, NEW gq, NEW W,
           Sides(st, sq, p, q, g, gq, W), Faces(st, sq, p, q, g, gq, W),
           NEW m \in W, m.from = q, m.header.dh = st.dhr, st.ckr /= None
    PROVE  /\ Ahead(st, sq, p, g, W) => m.header.n < sq.ns
           /\ Ahead(sq, st, q, gq, W) => m.header.n < sq.pn
           /\ \A i \in Nat :
                 i < m.header.n => SentUnder(W, q, st.dhr, st.ckr[1], i)
<1>1. /\ HeaderTrue(m, sq, gq) /\ m.header.n \in Nat
      /\ sq.ns \in Nat /\ sq.pn \in Nat /\ gq \in Nat
  BY DEF Faces, Sides
<1>2. Paired(st, sq, p, q, g, gq, W)
  BY DEF Faces
<1>3. CASE Ahead(st, sq, p, g, W)
  <2>1. st.dhr = sq.dhs /\ st.ckr[1] = sq.rk
    BY <1>3 DEF Ahead
  <2>2. m.header.n < sq.ns
    BY <2>1, SendersChain
  <2>3. ~Ahead(sq, st, q, gq, W)
    BY <2>1 DEF Ahead
  <2>4. ASSUME NEW i \in Nat, i < m.header.n
        PROVE  SentUnder(W, q, st.dhr, st.ckr[1], i)
    <3>1. i < sq.ns
      BY <1>1, <2>2, <2>4
    <3> QED
      BY <2>1, <3>1, SendersFilled
  <2> QED
    BY <2>2, <2>3, <2>4
<1>4. CASE Ahead(sq, st, q, gq, W)
  <2>1. st.dhr = DhKey(q, gq - 1) /\ st.dhr /= sq.dhs
    BY <1>4 DEF Ahead
  <2>2. m.header.n < sq.pn
    BY <1>1, <2>1 DEF HeaderTrue, DhKey
  <2>3. ~Ahead(st, sq, p, g, W)
    BY <2>1 DEF Ahead
  <2>4. ASSUME NEW i \in Nat, i < m.header.n
        PROVE  SentUnder(W, q, st.dhr, st.ckr[1], i)
    <3>1. i < sq.pn
      BY <1>1, <2>2, <2>4
    <3> QED
      BY <1>4, <3>1, ReceiversFilled
  <2> QED
    BY <2>2, <2>3, <2>4, Zenon
<1> QED
  BY <1>2, <1>3, <1>4, Zenon DEF Paired

------------------------------------------------------------------------------
(* Sending a message to the peer *)

\* t differs from st in its sending chain and the counter of it at most.
SameReceiving(st, t) ==
    /\ t.dhs = st.dhs /\ t.dhr = st.dhr /\ t.rk = st.rk /\ t.ckr = st.ckr
    /\ t.nr = st.nr /\ t.pn = st.pn /\ t.mkskipped = st.mkskipped

\* The sending chain of st is one message further in t.
Advanced(st, t) ==
    /\ SameReceiving(st, t)
    /\ st.cks /= None /\ st.cks = <<st.rk, st.ns>> /\ st.ns < U32Max
    /\ t.ns = st.ns + 1 /\ t.cks = <<st.rk, st.ns + 1>>

\* t differs from st in a sending chain that has no number left at most.
Spent(st, t) ==
    /\ SameReceiving(st, t) /\ t.ns = st.ns
    /\ \/ t.cks = st.cks
       \/ st.cks /= None /\ t.cks /= None /\ st.ns = U32Max

\* ratchet_send_key gives out the key of the next number, or none.
LEMMA SendOutcome ==
    ASSUME NEW st, NEW sq, NEW p, NEW q, NEW g, NEW gq, NEW W,
           Sides(st, sq, p, q, g, gq, W), Faces(st, sq, p, q, g, gq, W),
           st.ns <= U32Max
    PROVE  LET r == ratchet_send_key(st)
           IN  \/ r.err = "ok" /\ r.mk = st.cks /\ Advanced(st, r.st)
               \/ r.err /= "ok" /\ Spent(st, r.st)
<1> DEFINE r == ratchet_send_key(st)
           t == r.st
<1>1. /\ IsState(st) /\ st.ns \in Nat /\ Sender(st, p, g, W)
      /\ st.cks /= None => st.cks = <<st.rk, st.cks[2]>>
  BY DEF Sides, Faces
<1>2. CASE st.cks = None
  <2>1. r = [err |-> "Internal", st |-> st, mk |-> None]
    BY <1>2 DEF ratchet_send_key
  <2>2. t = st /\ r.err = "Internal"
    BY <2>1
  <2> HIDE DEF r, t
  <2>3. Spent(st, t)
    BY <2>2 DEF SameReceiving, Spent
  <2> QED
    BY <2>2, <2>3 DEF r, t
<1>3. CASE st.cks /= None /\ st.ns = U32Max
  <2>1. r = [err |-> "LimitExceeded", mk |-> None,
             st |-> [st EXCEPT !.cks = kdf_ck(st.cks)]]
    BY <1>3 DEF ratchet_send_key
  <2>2. r.err = "LimitExceeded" /\ t = [st EXCEPT !.cks = kdf_ck(st.cks)]
    BY <2>1
  <2>3. kdf_ck(st.cks) /= None
    BY DEF kdf_ck, None
  <2> HIDE DEF r, t
  <2>4. t = [dhs |-> st.dhs, dhr |-> st.dhr, rk |-> st.rk,
             cks |-> kdf_ck(st.cks), ckr |-> st.ckr, ns |-> st.ns,
             nr |-> st.nr, pn |-> st.pn, mkskipped |-> st.mkskipped]
    BY <1>1, <2>2, ZenonT(40) DEF IsState
  <2>5. SameReceiving(st, t) /\ t.ns = st.ns /\ t.cks = kdf_ck(st.cks)
    BY <2>4 DEF SameReceiving
  <2>6. Spent(st, t)
    BY <1>3, <2>3, <2>5 DEF Spent
  <2> QED
    BY <2>2, <2>6 DEF r, t
<1>4. CASE st.cks /= None /\ st.ns /= U32Max
  <2>1. r = [err |-> "ok", mk |-> st.cks,
             st |-> [st EXCEPT !.cks = kdf_ck(st.cks), !.ns = st.ns + 1]]
    BY <1>4 DEF ratchet_send_key
  <2>2. /\ r.err = "ok" /\ r.mk = st.cks
        /\ t = [st EXCEPT !.cks = kdf_ck(st.cks), !.ns = st.ns + 1]
    BY <2>1
  <2> HIDE DEF r, t
  <2>3. t = [dhs |-> st.dhs, dhr |-> st.dhr, rk |-> st.rk,
             cks |-> kdf_ck(st.cks), ckr |-> st.ckr, ns |-> st.ns + 1,
             nr |-> st.nr, pn |-> st.pn, mkskipped |-> st.mkskipped]
    BY <1>1, <2>2, ZenonT(40) DEF IsState
  <2>4. SameReceiving(st, t) /\ t.ns = st.ns + 1 /\ t.cks = kdf_ck(st.cks)
    BY <2>3 DEF SameReceiving
  <2>5. st.ns < U32Max
    BY <1>1, <1>4, U32MaxAssumption
  <2>6. st.cks = <<st.rk, st.ns>>
    BY <1>1, <1>4, <2>5 DEF Sender
  <2>7. kdf_ck(st.cks) = <<st.rk, st.ns + 1>>
    BY <2>6 DEF kdf_ck
  <2>8. Advanced(st, t)
    BY <1>4, <2>4, <2>5, <2>6, <2>7, Zenon DEF Advanced
  <2> QED
    BY <2>2, <2>8, Zenon DEF r, t
<1> QED
  BY <1>2, <1>3, <1>4

\* Moving a sending chain does not change which side is ahead.
LEMMA SendKeepsAhead ==
    ASSUME NEW st, NEW t, NEW sq, NEW p, NEW g, NEW V, NEW W,
           SameReceiving(st, t),
           Ahead(st, sq, p, g, V),
           \A m \in W : m.from = p => m \in V \/ m.header.dh = st.dhs
    PROVE  Ahead(t, sq, p, g, W)
  BY DEF Ahead, SameReceiving

LEMMA SendKeepsBehind ==
    ASSUME NEW st, NEW t, NEW sq, NEW q, NEW g, NEW V, NEW W,
           SameReceiving(st, t),
           sq.nr \in Nat, st.ns \in Nat, t.ns \in Nat, st.ns <= t.ns,
           st.cks = None => t.cks = None,
           Ahead(sq, st, q, g, V),
           \A m \in W : m.from = q => m \in V
    PROVE  Ahead(sq, t, q, g, W)
  BY DEF Ahead, SameReceiving

\* More messages on the wire make no stored key wrong.
LEMMA SendKeepsStored ==
    ASSUME NEW st, NEW t, NEW q, NEW V, NEW W,
           SameReceiving(st, t), V \subseteq W, Stored(st, q, V)
    PROVE  Stored(t, q, W)
  BY DEF Stored, SameReceiving

LEMMA CompleteGrows ==
    ASSUME NEW p, NEW i, NEW n, NEW V, NEW W, V \subseteq W, Complete(V, p, i, n)
    PROVE  Complete(W, p, i, n)
  BY DEF Complete

\* A sending chain without numbers changes nothing for the other side.
LEMMA SpentKeepsFaces ==
    ASSUME NEW st, NEW sq, NEW p, NEW q, NEW g, NEW gq, NEW W,
           Sides(st, sq, p, q, g, gq, W), Faces(st, sq, p, q, g, gq, W),
           NEW t, Spent(st, t)
    PROVE  Faces(t, sq, p, q, g, gq, W)
<1>1. /\ SameReceiving(st, t) /\ t.ns = st.ns
      /\ \/ t.cks = st.cks
         \/ st.cks /= None /\ t.cks /= None /\ st.ns = U32Max
      /\ st.ns \in Nat /\ sq.nr \in Nat
  BY DEF Spent, Sides, IsState
<1>2. \A x \in W : x.from = p => HeaderTrue(x, t, g)
  BY <1>1 DEF Faces, HeaderTrue, SameReceiving
<1>3. Sender(t, p, g, W)
  BY <1>1, U32MaxAssumption DEF Faces, Sender, SameReceiving
<1>4. Paired(t, sq, p, q, g, gq, W)
  <2>1. CASE Ahead(st, sq, p, g, W)
    BY <1>1, <2>1, SendKeepsAhead DEF Paired
  <2>2. CASE Ahead(sq, st, q, gq, W)
    <3>1. st.cks = None => t.cks = None
      BY <1>1
    <3>2. t.ns \in Nat /\ st.ns <= t.ns
      BY <1>1
    <3> QED
      BY <1>1, <2>2, <3>1, <3>2, SendKeepsBehind DEF Paired
  <2> QED
    BY <2>1, <2>2 DEF Faces, Paired
<1>5. Stored(t, q, W)
  BY <1>1, SendKeepsStored DEF Faces
<1> QED
  BY <1>2, <1>3, <1>4, <1>5, Zenon DEF Faces

\* The message x of p, the latest, has the next number of the chain: it lies
\* ahead of the peer, and every message before it has an earlier slot.
LEMMA SendKeepsFaces ==
    ASSUME NEW st, NEW sq, NEW p, NEW q, NEW g, NEW gq, NEW W,
           Sides(st, sq, p, q, g, gq, W), Faces(st, sq, p, q, g, gq, W),
           InOrder(W), NEW t, Advanced(st, t), NEW x, x.from = p,
           x.header.dh = st.dhs, x.header.pn = st.pn, x.header.n = st.ns,
           x.ct.mk = st.cks, x.ct.ad = concat_ad(Ad, x.header),
           \A m \in W : m.from = p => m.ct.pt < x.ct.pt
    PROVE  /\ Faces(t, sq, p, q, g, gq, W \cup {x})
           /\ InOrder(W \cup {x})
           /\ NotReached(sq, x, t.dhs)
<1> DEFINE V == W \cup {x}
<1>1. /\ SameReceiving(st, t)
      /\ st.cks /= None /\ st.cks = <<st.rk, st.ns>> /\ st.ns < U32Max
      /\ t.ns = st.ns + 1 /\ t.cks = <<st.rk, st.ns + 1>>
  BY DEF Advanced
<1>2. /\ g \in Nat /\ st.ns \in Nat /\ sq.nr \in Nat /\ p /= q
      /\ \A m \in W : m.header.dh[2] \in Nat /\ m.header.n \in Nat
  BY DEF Sides, IsState
<1>3. /\ \A m \in W : m.from = p => HeaderTrue(m, st, g)
      /\ \A m \in W : m.from = q => HeaderTrue(m, sq, gq)
      /\ Sender(st, p, g, W) /\ Sender(sq, q, gq, W)
      /\ Paired(st, sq, p, q, g, gq, W)
      /\ Stored(st, q, W) /\ Stored(sq, p, W)
  BY DEF Faces
<1>4. st.dhs = DhKey(p, g) /\ st.dhs[1] = p /\ st.dhs[2] = g
  BY <1>3 DEF Sender, DhKey
<1>5. /\ W \subseteq V /\ x \in V /\ \A m \in V : m \in W \/ m = x
  OBVIOUS
<1> HIDE DEF V
<1>6. HeaderTrue(x, t, g)
  <2>1. x.ct.mk[1] = st.rk /\ x.ct.mk[2] = st.ns
    BY <1>1
  <2> QED
    BY <1>1, <1>2, <1>4, <2>1 DEF HeaderTrue, SameReceiving
<1>7. \A m \in W : m.from = p => HeaderTrue(m, t, g)
  BY <1>1, <1>2, <1>3 DEF HeaderTrue, SameReceiving
<1>8. \A m \in W : m.from = p =>
         /\ m.header.dh[2] <= g
         /\ m.header.dh[2] = g => m.header.n < st.ns
  BY <1>3 DEF HeaderTrue
<1>9. /\ Slot(x)[1][2] = g /\ Slot(x)[2] = st.ns
      /\ \A m \in W : Slot(m)[1] = m.header.dh /\ Slot(m)[2] = m.header.n
  BY <1>4 DEF Slot
<1>10. \A m \in W : m.from = p =>
          Slot(m) /= Slot(x) /\ ~Earlier(Slot(x), Slot(m))
  BY <1>2, <1>8, <1>9 DEF Earlier
<1>11. ~Earlier(Slot(x), Slot(x))
  BY <1>2, <1>9 DEF Earlier
<1>12. InOrder(V)
  BY <1>5, <1>10, <1>11, ZenonT(40) DEF InOrder
<1>13. Sender(t, p, g, V)
  <2>1. Complete(W, p, g, st.ns) /\ Complete(W, p, g - 1, st.pn)
    BY <1>3 DEF Sender
  <2>2. Complete(V, p, g - 1, st.pn)
    BY <1>5, <2>1, CompleteGrows
  <2>3. Complete(V, p, g, st.ns)
    BY <1>5, <2>1, CompleteGrows
  <2>4. Slot(x) = <<DhKey(p, g), st.ns>>
    BY <1>4 DEF Slot
  <2>5. Complete(V, p, g, st.ns + 1)
    <3>1. ASSUME NEW k \in 0 .. (st.ns + 1) - 1
          PROVE  \E m \in V : m.from = p /\ Slot(m) = <<DhKey(p, g), k>>
      <4>1. CASE k = st.ns
        BY <1>5, <2>4, <4>1
      <4>2. CASE k /= st.ns
        <5>1. k \in 0 .. st.ns - 1
          BY <1>2, <4>2
        <5> QED
          BY <2>3, <5>1 DEF Complete
      <4> QED
        BY <4>1, <4>2
    <3> QED
      BY <3>1, Zenon DEF Complete
  <2>6. t.cks /= None /\ t.cks[2] = t.ns
    BY <1>1 DEF None
  <2> QED
    BY <1>1, <1>4, <2>2, <2>5, <2>6 DEF Sender, SameReceiving
<1>14. Sender(sq, q, gq, V)
  BY <1>3, <1>5, CompleteGrows DEF Sender
<1>15. /\ t.ns \in Nat /\ st.ns <= t.ns
       /\ \A m \in V : m.from = p => m \in W \/ m.header.dh = st.dhs
       /\ \A m \in V : m.from = q => m \in W
  BY <1>1, <1>2, <1>5
<1>16. Paired(t, sq, p, q, g, gq, V) /\ NotReached(sq, x, t.dhs)
  <2>1. CASE Ahead(st, sq, p, g, W)
    <3>1. Ahead(t, sq, p, g, V)
      BY <1>1, <1>15, <2>1, SendKeepsAhead
    <3>2. NotReached(sq, x, t.dhs)
      BY <1>1, <2>1 DEF NotReached, Ahead, SameReceiving
    <3> QED
      BY <3>1, <3>2 DEF Paired
  <2>2. CASE Ahead(sq, st, q, gq, W)
    <3>1. Ahead(sq, t, q, gq, V)
      BY <1>1, <1>2, <1>15, <2>2, SendKeepsBehind, Zenon
    <3>2. NotReached(sq, x, t.dhs)
      BY <1>1, <1>2, <2>2 DEF NotReached, Ahead, SameReceiving
    <3> QED
      BY <3>1, <3>2 DEF Paired
  <2> QED
    BY <1>3, <2>1, <2>2 DEF Paired
<1>17. Stored(t, q, V)
  BY <1>1, <1>3, <1>5, SendKeepsStored
<1>18. Stored(sq, p, V)
  BY <1>3, <1>5, SendKeepsStored DEF SameReceiving
<1>19. /\ \A m \in V : m.from = p => HeaderTrue(m, t, g)
       /\ \A m \in V : m.from = q => HeaderTrue(m, sq, gq)
  BY <1>3, <1>5, <1>6, <1>7, <1>15, Zenon
<1>20. Faces(t, sq, p, q, g, gq, V)
  BY <1>13, <1>14, <1>16, <1>17, <1>18, <1>19, Zenon DEF Faces
<1> QED
  BY <1>12, <1>16, <1>20, Zenon DEF V

------------------------------------------------------------------------------
(* Receiving a message from the peer *)

\* The ways in which the key of a message m still to be delivered is found in
\* the state st: in the store, on the receiving chain, or on the next one.
InStore(st, m) == Slot(m) \in DOMAIN st.mkskipped

OnThis(st, m) ==
    /\ ~InStore(st, m)
    /\ st.ckr /= None /\ m.header.dh = st.dhr /\ st.nr <= m.header.n

OnNext(st, m, dhs) ==
    /\ ~InStore(st, m)
    /\ m.header.dh = dhs /\ m.header.dh /= st.dhr

\* t is what st becomes when m is received from a peer with the key pair dhs.
Received(st, t, m, dhs, fresh) ==
    \/ InStore(st, m) /\ t = TakeSkipped(st, Slot(m))
    \/ OnThis(st, m) /\ Passed(st, t, m.header.n, 1)
    \/ OnNext(st, m, dhs) /\ Opened(st, t, m.header, fresh, m.ct.mk[1])

\* t sends as st does.
SameSending(st, t) ==
    /\ t.dhs = st.dhs /\ t.rk = st.rk /\ t.cks = st.cks
    /\ t.ns = st.ns /\ t.pn = st.pn

LEMMA SameSendingKeeps ==
    ASSUME NEW st, NEW t, SameSending(st, t), NEW p, NEW g, NEW W
    PROVE  /\ \A m : HeaderTrue(m, st, g) => HeaderTrue(m, t, g)
           /\ Sender(st, p, g, W) => Sender(t, p, g, W)
  BY DEF SameSending, HeaderTrue, Sender

\* Every message from q but m is as well placed in t as in st, whether it was
\* delivered or not.
StillFound(st, t, m, q, dhs, W) ==
    \A x \in W : x.from = q =>
        \A d : Found(st, x, dhs, d) => Found(t, x, dhs, d) \/ Slot(x) = Slot(m)

\* The parts of Faces that receiving disturbs
LEMMA ReceiveFaces ==
    ASSUME NEW st, NEW t, NEW sq, NEW p, NEW q, NEW g, NEW gq, NEW W,
           Faces(st, sq, p, q, g, gq, W), SameSending(st, t),
           Paired(t, sq, p, q, g, gq, W), Stored(t, q, W)
    PROVE  Faces(t, sq, p, q, g, gq, W)
<1>1. /\ \A x \in W : x.from = p => HeaderTrue(x, t, g)
      /\ Sender(t, p, g, W)
  BY SameSendingKeeps, Zenon DEF Faces
<1> QED
  BY <1>1, Zenon DEF Faces

\* A message from the store: its slot is given up.
LEMMA TakeKeepsFaces ==
    ASSUME NEW st, NEW sq, NEW p, NEW q, NEW g, NEW gq, NEW W,
           Sides(st, sq, p, q, g, gq, W), Faces(st, sq, p, q, g, gq, W),
           NEW m \in W, m.from = q, InStore(st, m),
           NEW t, t = TakeSkipped(st, Slot(m))
    PROVE  /\ Faces(t, sq, p, q, g, gq, W)
           /\ t.dhs = st.dhs
           /\ StillFound(st, t, m, q, sq.dhs, W)
<1> DEFINE M == [k \in DOMAIN st.mkskipped \ {Slot(m)} |-> st.mkskipped[k]]
<1>1. IsState(st) /\ Stored(st, q, W) /\ Paired(st, sq, p, q, g, gq, W)
  BY DEF Sides, Faces
<1>2. t = [st EXCEPT !.mkskipped = M]
  BY DEF TakeSkipped
<1>3. t = [dhs |-> st.dhs, dhr |-> st.dhr, rk |-> st.rk, cks |-> st.cks,
           ckr |-> st.ckr, ns |-> st.ns, nr |-> st.nr, pn |-> st.pn,
           mkskipped |-> M]
  BY <1>1, <1>2, ZenonT(40) DEF IsState
<1>4. /\ SameSending(st, t) /\ t.dhr = st.dhr /\ t.ckr = st.ckr
      /\ t.nr = st.nr /\ t.mkskipped = M
  BY <1>3 DEF SameSending
<1>5. /\ DOMAIN M = DOMAIN st.mkskipped \ {Slot(m)}
      /\ \A k \in DOMAIN M : M[k] = st.mkskipped[k]
  OBVIOUS
<1> HIDE DEF M
<1>6. Paired(t, sq, p, q, g, gq, W)
  BY <1>1, <1>4, Zenon DEF Paired, Ahead, SameSending
<1>7. Stored(t, q, W)
  BY <1>1, <1>4, <1>5 DEF Stored
<1>8. StillFound(st, t, m, q, sq.dhs, W)
  BY <1>4, <1>5, Zenon DEF StillFound, Found, NotReached
<1> QED
  BY <1>4, <1>6, <1>7, <1>8, ReceiveFaces DEF SameSending

\* A message further on the receiving chain: the keys passed are stored.
LEMMA PassKeepsFaces ==
    ASSUME NEW st, NEW sq, NEW p, NEW q, NEW g, NEW gq, NEW W,
           Sides(st, sq, p, q, g, gq, W), Faces(st, sq, p, q, g, gq, W),
           NEW m \in W, m.from = q, OnThis(st, m),
           NEW t, Passed(st, t, m.header.n, 1)
    PROVE  /\ Faces(t, sq, p, q, g, gq, W)
           /\ t.dhs = st.dhs
           /\ StillFound(st, t, m, q, sq.dhs, W)
<1> DEFINE n == m.header.n
<1>1. /\ st.nr \in Nat /\ n \in Nat /\ sq.ns \in Nat /\ sq.pn \in Nat
      /\ \A x \in W : x.header.n \in Nat
      /\ \A k \in DOMAIN st.mkskipped : k[2] \in Nat
  BY DEF Sides, IsState
<1>2. st.ckr /= None /\ m.header.dh = st.dhr /\ st.nr <= n
  BY DEF OnThis
<1>3. Stored(st, q, W) /\ Paired(st, sq, p, q, g, gq, W)
  BY DEF Faces
<1>4. /\ Ahead(st, sq, p, g, W) => n < sq.ns
      /\ Ahead(sq, st, q, gq, W) => n < sq.pn
      /\ \A i \in Nat : i < n => SentUnder(W, q, st.dhr, st.ckr[1], i)
  BY <1>2, ThisChainFilled
<1>5. /\ t.dhs = st.dhs /\ t.dhr = st.dhr /\ t.rk = st.rk /\ t.cks = st.cks
      /\ t.ns = st.ns /\ t.pn = st.pn
      /\ t.nr = n + 1
      /\ t.ckr = <<st.ckr[1], n + 1>>
      /\ DOMAIN t.mkskipped = DOMAIN st.mkskipped \cup SkipSlots(st, n)
      /\ \A k \in SkipSlots(st, n) : t.mkskipped[k] = <<st.ckr[1], k[2]>>
      /\ \A k \in DOMAIN st.mkskipped \ SkipSlots(st, n) :
            t.mkskipped[k] = st.mkskipped[k]
  BY DEF Passed
<1>6. Slot(m) = <<st.dhr, n>>
  BY <1>2 DEF Slot
<1> HIDE DEF n
<1>7. \A k : k \in SkipSlots(st, n) <=>
         \E i \in Nat : st.nr <= i /\ i < n /\ k = <<st.dhr, i>>
  BY <1>1 DEF SkipSlots
<1>8. SameSending(st, t) /\ t.ckr /= None
  BY <1>5 DEF SameSending, None
<1>9. Paired(t, sq, p, q, g, gq, W)
  <2>1. CASE Ahead(st, sq, p, g, W)
    <3>1. st.ckr = <<sq.rk, st.nr>>
      BY <1>2, <2>1 DEF Ahead
    <3>2. st.ckr[1] = sq.rk
      BY <3>1
    <3>3. t.ckr = <<sq.rk, t.nr>> /\ t.nr <= sq.ns
      BY <1>1, <1>4, <1>5, <2>1, <3>2
    <3>4. Ahead(t, sq, p, g, W)
      BY <1>5, <1>8, <2>1, <3>3, Zenon DEF Ahead
    <3> QED
      BY <3>4 DEF Paired
  <2>2. CASE Ahead(sq, st, q, gq, W)
    <3>1. t.ckr[1] = st.ckr[1] /\ t.ckr[2] = t.nr /\ t.nr <= sq.pn
      BY <1>1, <1>4, <1>5, <2>2
    <3>2. /\ t.ns = st.ns /\ t.cks = st.cks /\ t.rk = st.rk
          /\ t.dhs = st.dhs /\ t.dhr = st.dhr
      BY <1>5
    <3>3. Ahead(sq, t, q, gq, W)
      BY <1>2, <1>8, <2>2, <3>1, <3>2, ZenonT(40) DEF Ahead
    <3> QED
      BY <3>3 DEF Paired
  <2> QED
    BY <1>3, <2>1, <2>2 DEF Paired
<1>10. Stored(t, q, W)
  <2> SUFFICES ASSUME NEW k \in DOMAIN t.mkskipped
               PROVE  /\ Earlier(k, <<t.dhr, t.nr>>)
                      /\ \E x \in W : /\ x.from = q
                                      /\ Slot(x) = k
                                      /\ t.mkskipped[k] = x.ct.mk
    BY Zenon DEF Stored
  <2>1. CASE k \in SkipSlots(st, n)
    <3>1. PICK i \in Nat : st.nr <= i /\ i < n /\ k = <<st.dhr, i>>
      BY <1>7, <2>1
    <3>2. t.mkskipped[k] = <<st.ckr[1], i>>
      BY <1>5, <2>1, <3>1
    <3>3. Earlier(k, <<t.dhr, t.nr>>)
      BY <1>1, <1>5, <3>1 DEF Earlier
    <3> QED
      BY <1>4, <3>1, <3>2, <3>3, Zenon DEF SentUnder
  <2>2. CASE k \in DOMAIN st.mkskipped \ SkipSlots(st, n)
    <3>1. Earlier(k, <<st.dhr, st.nr>>)
      BY <1>3, <2>2 DEF Stored
    <3>2. k[2] < st.nr => k[2] < n + 1
      BY <1>1, <1>2, <2>2
    <3>3. Earlier(k, <<t.dhr, t.nr>>)
      BY <1>5, <3>1, <3>2 DEF Earlier
    <3>4. t.mkskipped[k] = st.mkskipped[k]
      BY <1>5, <2>2
    <3> QED
      BY <1>3, <2>2, <3>3, <3>4, Zenon DEF Stored
  <2> QED
    BY <1>5, <2>1, <2>2
<1>11. ASSUME NEW x \in W, x.from = q, NEW d, Found(st, x, sq.dhs, d)
       PROVE  Found(t, x, sq.dhs, d) \/ Slot(x) = Slot(m)
  <2>1. Slot(x) \in DOMAIN st.mkskipped => Slot(x) \in DOMAIN t.mkskipped
    BY <1>5
  <2>2. ASSUME x.header.dh = st.dhr, x.header.n >= st.nr
        PROVE  \/ x.header.n >= t.nr
               \/ Slot(x) = Slot(m)
               \/ Slot(x) \in DOMAIN t.mkskipped
    <3>1. x.header.n \in Nat /\ Slot(x) = <<st.dhr, x.header.n>>
      BY <1>1, <2>2 DEF Slot
    <3>2. CASE x.header.n = n
      BY <1>6, <3>1, <3>2
    <3>3. CASE x.header.n < n
      BY <1>5, <1>7, <2>2, <3>1, <3>3
    <3> QED
      BY <1>1, <1>5, <3>1, <3>2, <3>3
  <2> QED
    BY <1>5, <1>8, <1>11, <2>1, <2>2, Zenon DEF Found, NotReached
<1>12. StillFound(st, t, m, q, sq.dhs, W)
  BY <1>11, Zenon DEF StillFound
<1> QED
  BY <1>5, <1>8, <1>9, <1>10, <1>12, ReceiveFaces

\* A message of the next chain: p takes a DH step, stores the keys passed on
\* both chains, and is now ahead.
LEMMA OpenKeepsFaces ==
    ASSUME NEW st, NEW sq, NEW p, NEW q, NEW g, NEW gq, NEW W,
           Sides(st, sq, p, q, g, gq, W), Faces(st, sq, p, q, g, gq, W),
           NEW m \in W, m.from = q, OnNext(st, m, sq.dhs),
           NEW t, Opened(st, t, m.header, DhKey(p, g + 1), m.ct.mk[1])
    PROVE  /\ Faces(t, sq, p, q, g + 1, gq, W)
           /\ t.dhs /= st.dhs
           /\ StillFound(st, t, m, q, sq.dhs, W)
           /\ sq.dhr = st.dhs
<1> DEFINE h == m.header
           n == m.header.n
           rk1 == m.ct.mk[1]
<1>1. /\ st.nr \in Nat /\ st.ns \in Nat /\ g \in Nat
      /\ sq.nr \in Nat /\ sq.ns \in Nat /\ sq.pn \in Nat /\ gq \in Nat
      /\ n \in Nat
      /\ \A x \in W : x.header.n \in Nat /\ x.header.dh[2] \in Nat
      /\ \A x \in W : x.from = p => st.cks /= None
      /\ \A k \in DOMAIN st.mkskipped :
            k[1][2] \in Nat /\ k[2] \in Nat /\ st.ckr /= None
  BY DEF Sides, IsState
<1>2. h.dh = sq.dhs /\ h.dh /= st.dhr /\ Slot(m) = <<sq.dhs, n>>
  BY DEF OnNext, Slot
<1>3. /\ \A x \in W : x.from = p => HeaderTrue(x, st, g)
      /\ \A x \in W : x.from = q => HeaderTrue(x, sq, gq)
      /\ Sender(st, p, g, W) /\ Sender(sq, q, gq, W)
      /\ Stored(st, q, W) /\ Stored(sq, p, W)
  BY DEF Faces
<1>4. /\ m.ct.mk = <<sq.rk, n>> /\ n < sq.ns /\ h.pn = sq.pn
  BY <1>2, SendersChain
<1>5. rk1 = sq.rk
  BY <1>4
<1>6. Ahead(sq, st, q, gq, W)
  BY <1>2, PeerAhead
<1>7. \A i \in Nat : i < n => SentUnder(W, q, h.dh, rk1, i)
  <2> SUFFICES ASSUME NEW i \in Nat, i < n
               PROVE  SentUnder(W, q, sq.dhs, sq.rk, i)
    BY <1>2, <1>5, Zenon
  <2>1. i < sq.ns
    BY <1>1, <1>4
  <2> QED
    BY <2>1, SendersFilled
<1>8. \A i \in Nat : st.ckr /= None /\ i < h.pn =>
         SentUnder(W, q, st.dhr, st.ckr[1], i)
  BY <1>4, <1>6, ReceiversFilled
<1>9. /\ t.dhs = DhKey(p, g + 1) /\ t.dhr = h.dh
      /\ t.rk = kdf_rk(rk1, diffie_hellman(DhKey(p, g + 1), h.dh))
      /\ t.cks = <<t.rk, 0>> /\ t.ckr = <<rk1, n + 1>>
      /\ t.ns = 0 /\ t.pn = st.ns /\ t.nr = n + 1
      /\ DOMAIN t.mkskipped
            = DOMAIN st.mkskipped \cup OldSlots(st, h) \cup NewSlots(h, n)
      /\ \A k \in NewSlots(h, n) : t.mkskipped[k] = <<rk1, k[2]>>
      /\ \A k \in OldSlots(st, h) \ NewSlots(h, n) :
            t.mkskipped[k] = <<st.ckr[1], k[2]>>
      /\ \A k \in DOMAIN st.mkskipped \ (OldSlots(st, h) \cup NewSlots(h, n)) :
            t.mkskipped[k] = st.mkskipped[k]
  BY Zenon DEF Opened
<1> HIDE DEF h, n, rk1
<1>10. /\ st.dhs = DhKey(p, g) /\ sq.dhs = DhKey(q, gq)
       /\ DhKey(p, g + 1) /= DhKey(p, g)
       /\ h.dh = DhKey(q, gq) /\ h.dh[2] = gq /\ h.pn \in Nat
  BY <1>1, <1>2, <1>3, <1>4 DEF Sender, DhKey
<1>11. \A k : k \in OldSlots(st, h) <=>
          \E i \in Nat : /\ st.ckr /= None /\ st.nr <= i /\ i < h.pn
                         /\ k = <<st.dhr, i>>
  BY <1>1, <1>10 DEF OldSlots, SkipSlots
<1>12. \A k : k \in NewSlots(h, n) <=>
          \E i \in Nat : i < n /\ k = <<h.dh, i>>
  BY <1>1 DEF NewSlots
<1>13. ASSUME NEW x \in W, x.from = p
       PROVE  HeaderTrue(x, t, g + 1)
  <2>1. /\ x.header.dh[1] = x.from /\ x.header.n = x.ct.mk[2]
        /\ x.header.n < U32Max /\ x.ct.ad = concat_ad(Ad, x.header)
        /\ x.header.dh[2] <= g
        /\ x.header.dh[2] = g => x.header.n < st.ns
    BY <1>3, <1>13, Zenon DEF HeaderTrue
  <2>2. /\ x.header.dh[2] \in Nat /\ g \in Nat /\ t.pn = st.ns
    BY <1>1, <1>9, Zenon
  <2>3. /\ x.header.dh[2] <= g + 1 /\ x.header.dh[2] /= g + 1
        /\ x.header.dh[2] = (g + 1) - 1 => x.header.n < t.pn
    BY <2>1, <2>2
  <2> QED
    BY <2>1, <2>3, Zenon DEF HeaderTrue
<1>14. Sender(t, p, g + 1, W)
  <2>1. Complete(W, p, g + 1, 0)
    BY DEF Complete
  <2>2. Complete(W, p, g, st.ns)
    BY <1>3, Zenon DEF Sender
  <2>3. t.cks /= None /\ t.cks[2] = 0
    BY <1>9, SMTT(30) DEF None
  <2>4. (g + 1) - 1 = g
    BY <1>1
  <2>5. t.ns = 0 /\ t.pn = st.ns
    BY <1>9, Zenon
  <2>6. /\ Complete(W, p, g + 1, t.ns)
        /\ Complete(W, p, (g + 1) - 1, t.pn)
    BY <2>1, <2>2, <2>4, <2>5, Zenon
  <2> QED
    BY <1>9, <2>3, <2>5, <2>6, Zenon DEF Sender
<1>15. st.ckr /= None => st.dhr = DhKey(q, gq - 1)
  BY <1>6, Zenon DEF Ahead
<1>16. Paired(t, sq, p, q, g + 1, gq, W) /\ sq.dhr = st.dhs
  <2>1. /\ sq.dhr = st.dhs
        /\ sq.ckr = None => st.cks = None
        /\ sq.ckr /= None => sq.ckr = <<st.rk, sq.nr>> /\ sq.nr <= st.ns
    BY <1>6 DEF Ahead
  <2>2. /\ t.rk = kdf_rk(sq.rk, diffie_hellman(t.dhs, sq.dhs))
        /\ t.dhr = sq.dhs
    BY <1>2, <1>5, <1>9, Zenon
  <2>3. t.ckr /= None /\ t.ckr = <<sq.rk, t.nr>> /\ t.nr <= sq.ns
    BY <1>1, <1>4, <1>5, <1>9 DEF None
  <2>4. sq.dhr /= t.dhs
    BY <1>9, <1>10, <2>1
  <2>5. sq.ckr = None => t.pn = 0 /\ \A x \in W : x.from # p
    BY <1>1, <1>3, <1>9, <2>1, Zenon DEF Sender
  <2>6. ASSUME sq.ckr /= None
        PROVE  /\ sq.dhr = DhKey(p, (g + 1) - 1)
               /\ sq.ckr[2] = sq.nr
               /\ sq.nr <= t.pn
               /\ \A x \in W : x.from = p /\ x.header.dh = sq.dhr =>
                                  x.ct.mk[1] = sq.ckr[1]
    <3>1. sq.dhr = DhKey(p, (g + 1) - 1)
      BY <1>1, <1>10, <2>1
    <3>2. sq.ckr[1] = st.rk /\ sq.ckr[2] = sq.nr /\ sq.nr <= t.pn
      BY <1>9, <2>1, <2>6
    <3>3. \A x \in W : x.from = p /\ x.header.dh = sq.dhr => x.ct.mk[1] = st.rk
      BY <1>3, <1>10, <2>1 DEF HeaderTrue, DhKey
    <3> QED
      BY <3>1, <3>2, <3>3, Zenon
  <2>7. Ahead(t, sq, p, g + 1, W)
    BY <2>2, <2>3, <2>4, <2>5, <2>6, ZenonT(40) DEF Ahead
  <2> QED
    BY <2>1, <2>7, Zenon DEF Paired
<1>17. Stored(t, q, W)
  <2> SUFFICES ASSUME NEW k \in DOMAIN t.mkskipped
               PROVE  /\ Earlier(k, <<t.dhr, t.nr>>)
                      /\ \E x \in W : /\ x.from = q
                                      /\ Slot(x) = k
                                      /\ t.mkskipped[k] = x.ct.mk
    BY Zenon DEF Stored
  <2>1. <<t.dhr, t.nr>>[1][2] = gq /\ <<t.dhr, t.nr>>[2] = n + 1
    BY <1>9, <1>10, Zenon
  <2>2. CASE k \in NewSlots(h, n)
    <3>1. PICK i \in Nat : i < n /\ k = <<h.dh, i>>
      BY <1>12, <2>2, Zenon
    <3>2. t.mkskipped[k] = <<rk1, i>>
      BY <1>9, <2>2, <3>1, Zenon
    <3>3. k[1][2] = gq /\ k[2] = i
      BY <1>10, <3>1
    <3>4. Earlier(k, <<t.dhr, t.nr>>)
      BY <1>1, <2>1, <3>1, <3>3 DEF Earlier
    <3> QED
      BY <1>7, <3>1, <3>2, <3>4, Zenon DEF SentUnder
  <2>3. CASE k \in OldSlots(st, h) \ NewSlots(h, n)
    <3>1. PICK i \in Nat : /\ st.ckr /= None /\ st.nr <= i /\ i < h.pn
                           /\ k = <<st.dhr, i>>
      BY <1>11, <2>3
    <3>2. t.mkskipped[k] = <<st.ckr[1], i>>
      BY <1>9, <2>3, <3>1, Zenon
    <3>3. k[1][2] = gq - 1
      BY <1>15, <3>1 DEF DhKey
    <3>4. Earlier(k, <<t.dhr, t.nr>>)
      BY <1>1, <2>1, <3>3 DEF Earlier
    <3> QED
      BY <1>8, <3>1, <3>2, <3>4, Zenon DEF SentUnder
  <2>4. CASE k \in DOMAIN st.mkskipped \ (OldSlots(st, h) \cup NewSlots(h, n))
    <3>1. Earlier(k, <<st.dhr, st.nr>>)
      BY <1>3, <2>4, Zenon DEF Stored
    <3>2. /\ <<st.dhr, st.nr>>[1][2] = gq - 1 /\ <<st.dhr, st.nr>>[2] = st.nr
          /\ k[1][2] \in Nat
      BY <1>1, <1>15, <2>4 DEF DhKey
    <3>3. Earlier(k, <<t.dhr, t.nr>>)
      BY <1>1, <2>1, <3>1, <3>2 DEF Earlier
    <3>4. t.mkskipped[k] = st.mkskipped[k]
      BY <1>9, <2>4, Zenon
    <3> QED
      BY <1>3, <2>4, <3>3, <3>4, Zenon DEF Stored
  <2> QED
    BY <1>9, <2>2, <2>3, <2>4, Zenon
<1>18. ASSUME NEW x \in W, x.from = q, NEW d, Found(st, x, sq.dhs, d)
       PROVE  Found(t, x, sq.dhs, d) \/ Slot(x) = Slot(m)
  <2>1. /\ HeaderTrue(x, sq, gq) /\ x.header.n \in Nat
        /\ Slot(x) = <<x.header.dh, x.header.n>>
    BY <1>1, <1>3, <1>18, Zenon DEF Slot
  <2>2. Slot(x) \in DOMAIN st.mkskipped => Slot(x) \in DOMAIN t.mkskipped
    BY <1>9, Zenon
  <2>3. ASSUME st.ckr /= None, x.header.dh = st.dhr, x.header.n >= st.nr
        PROVE  Slot(x) \in DOMAIN t.mkskipped
    <3>1. x.header.dh[2] = gq - 1
      BY <1>15, <2>3 DEF DhKey
    <3>2. x.header.n < h.pn
      BY <1>4, <2>1, <3>1 DEF HeaderTrue
    <3>3. Slot(x) \in OldSlots(st, h)
      BY <1>1, <1>11, <2>1, <2>3, <3>2
    <3> QED
      BY <1>9, <3>3, Zenon
  <2>4. ASSUME x.header.dh = sq.dhs
        PROVE  \/ NotReached(t, x, sq.dhs)
               \/ Slot(x) = Slot(m)
               \/ Slot(x) \in DOMAIN t.mkskipped
    <3>1. CASE x.header.n = n
      BY <1>2, <2>1, <2>4, <3>1
    <3>2. CASE x.header.n < n
      <4>1. Slot(x) \in NewSlots(h, n)
        BY <1>2, <1>12, <2>1, <2>4, <3>2, Zenon
      <4> QED
        BY <1>9, <4>1, Zenon
    <3>3. CASE x.header.n >= n + 1
      <4>1. t.ckr /= None
        BY <1>9 DEF None
      <4> QED
        BY <1>2, <1>9, <2>4, <3>3, <4>1, Zenon DEF NotReached
    <3> QED
      BY <1>1, <2>1, <3>1, <3>2, <3>3
  <2> QED
    BY <1>18, <2>2, <2>3, <2>4, Zenon DEF Found, NotReached
<1>19. StillFound(st, t, m, q, sq.dhs, W)
  BY <1>18, Zenon DEF StillFound
<1>20. t.dhs /= st.dhs
  BY <1>9, <1>10
<1> QED
  BY <1>3, <1>13, <1>14, <1>16, <1>17, <1>19, <1>20, Zenon DEF Faces

\* The three ways of receiving keep the sides in step.
LEMMA ReceivedKeepsFaces ==
    ASSUME NEW st, NEW sq, NEW p, NEW q, NEW g, NEW gq, NEW W,
           Sides(st, sq, p, q, g, gq, W), Faces(st, sq, p, q, g, gq, W),
           NEW m \in W, m.from = q,
           NEW t, Received(st, t, m, sq.dhs, DhKey(p, g + 1)),
           NEW e, t.dhs = st.dhs => e = g, t.dhs /= st.dhs => e = g + 1
    PROVE  /\ Faces(t, sq, p, q, e, gq, W)
           /\ t.dhs = st.dhs \/ sq.dhr = st.dhs
           /\ StillFound(st, t, m, q, sq.dhs, W)
<1>1. CASE InStore(st, m) /\ t = TakeSkipped(st, Slot(m))
  <2>1. /\ Faces(t, sq, p, q, g, gq, W) /\ t.dhs = st.dhs
        /\ StillFound(st, t, m, q, sq.dhs, W)
    BY <1>1, TakeKeepsFaces
  <2> QED
    BY <2>1, Zenon
<1>2. CASE OnThis(st, m) /\ Passed(st, t, m.header.n, 1)
  <2>1. /\ Faces(t, sq, p, q, g, gq, W) /\ t.dhs = st.dhs
        /\ StillFound(st, t, m, q, sq.dhs, W)
    BY <1>2, PassKeepsFaces
  <2> QED
    BY <2>1, Zenon
<1>3. CASE OnNext(st, m, sq.dhs)
             /\ Opened(st, t, m.header, DhKey(p, g + 1), m.ct.mk[1])
  <2>1. /\ Faces(t, sq, p, q, g + 1, gq, W) /\ t.dhs /= st.dhs
        /\ StillFound(st, t, m, q, sq.dhs, W) /\ sq.dhr = st.dhs
    BY <1>3, OpenKeepsFaces, Zenon
  <2> QED
    BY <2>1, Zenon
<1> QED
  BY <1>1, <1>2, <1>3, Zenon DEF Received

------------------------------------------------------------------------------
(* The messages in front of one that is still to be delivered *)

\* k is the slot of a message from q, sent before m, whose key is in the store
\* or lies ahead.
InFront(st, q, dhs, W, m, k) ==
    \E x \in W : /\ x.from = q
                 /\ Slot(x) = k
                 /\ x.ct.pt < m.ct.pt
                 /\ InStore(st, x) \/ NotReached(st, x, dhs)

\* The store holds no number that the receiving chain has not passed.
LEMMA StoreIsPassed ==
    ASSUME NEW st, NEW sq, NEW p, NEW q, NEW g, NEW gq, NEW W,
           Sides(st, sq, p, q, g, gq, W), Faces(st, sq, p, q, g, gq, W),
           NEW i \in Nat, st.nr <= i
    PROVE  <<st.dhr, i>> \notin DOMAIN st.mkskipped
<1> SUFFICES ASSUME <<st.dhr, i>> \in DOMAIN st.mkskipped
             PROVE  FALSE
  OBVIOUS
<1>1. /\ Earlier(<<st.dhr, i>>, <<st.dhr, st.nr>>)
      /\ <<st.dhr, i>>[1][2] \in Nat /\ st.nr \in Nat
  BY Zenon DEF Faces, Stored, Sides, IsState
<1> QED
  BY <1>1 DEF Earlier

LEMMA StoredInFront ==
    ASSUME NEW st, NEW q, NEW dhs, NEW W, Stored(st, q, W), InOrder(W),
           NEW m \in W, m.from = q,
           NEW k \in DOMAIN st.mkskipped, Earlier(k, Slot(m))
    PROVE  InFront(st, q, dhs, W, m, k)
<1>1. PICK x \in W : x.from = q /\ Slot(x) = k
  BY DEF Stored
<1>2. x.ct.pt < m.ct.pt
  BY <1>1 DEF InOrder
<1> QED
  BY <1>1, <1>2 DEF InFront, InStore

\* The slots between the receiving chain and a message m on it
LEMMA ThisChainInFront ==
    ASSUME NEW st, NEW sq, NEW p, NEW q, NEW g, NEW gq, NEW W,
           Sides(st, sq, p, q, g, gq, W), Faces(st, sq, p, q, g, gq, W),
           InOrder(W), NEW m \in W, m.from = q, OnThis(st, m)
    PROVE  /\ \A k \in DOMAIN st.mkskipped : InFront(st, q, sq.dhs, W, m, k)
           /\ \A i \in Nat : st.nr <= i /\ i < m.header.n =>
                 InFront(st, q, sq.dhs, W, m, <<st.dhr, i>>)
<1>1. /\ st.ckr /= None /\ m.header.dh = st.dhr /\ st.nr <= m.header.n
      /\ Slot(m) = <<st.dhr, m.header.n>>
  BY DEF OnThis, Slot
<1>2. /\ st.nr \in Nat /\ m.header.n \in Nat /\ st.dhr[2] \in Nat
      /\ Stored(st, q, W)
      /\ \A k \in DOMAIN st.mkskipped : k[1][2] \in Nat /\ k[2] \in Nat
  BY <1>1 DEF Sides, IsState, Faces
<1>3. ASSUME NEW k \in DOMAIN st.mkskipped
      PROVE  InFront(st, q, sq.dhs, W, m, k)
  <2>1. Earlier(k, <<st.dhr, st.nr>>)
    BY <1>2 DEF Stored
  <2>2. Earlier(k, Slot(m))
    BY <1>1, <1>2, <2>1 DEF Earlier
  <2> QED
    BY <1>2, <2>2, StoredInFront
<1>4. ASSUME NEW i \in Nat, st.nr <= i, i < m.header.n
      PROVE  InFront(st, q, sq.dhs, W, m, <<st.dhr, i>>)
  <2>1. SentUnder(W, q, st.dhr, st.ckr[1], i)
    BY <1>1, <1>4, ThisChainFilled
  <2>2. PICK x \in W : x.from = q /\ Slot(x) = <<st.dhr, i>>
    BY <2>1 DEF SentUnder
  <2>3. x.header.dh = st.dhr /\ x.header.n = i
    BY <2>2 DEF Slot
  <2>4. NotReached(st, x, sq.dhs)
    BY <1>1, <1>2, <1>4, <2>3 DEF NotReached
  <2>5. Earlier(Slot(x), Slot(m))
    BY <1>1, <1>4, <2>2 DEF Earlier
  <2>6. x.ct.pt < m.ct.pt
    BY <2>2, <2>5 DEF InOrder
  <2> QED
    BY <2>2, <2>4, <2>6 DEF InFront
<1> QED
  BY <1>3, <1>4, Zenon

\* The slots in front of a message m of the next chain: the rest of the present
\* chain, and those before m on the next one.
LEMMA NextChainInFront ==
    ASSUME NEW st, NEW sq, NEW p, NEW q, NEW g, NEW gq, NEW W,
           Sides(st, sq, p, q, g, gq, W), Faces(st, sq, p, q, g, gq, W),
           InOrder(W), NEW m \in W, m.from = q, OnNext(st, m, sq.dhs)
    PROVE  /\ BeforeChain(st, m.header)
           /\ \A k \in DOMAIN st.mkskipped : InFront(st, q, sq.dhs, W, m, k)
           /\ st.ckr /= None =>
                 \A i \in Nat : st.nr <= i /\ i < m.header.pn =>
                    InFront(st, q, sq.dhs, W, m, <<st.dhr, i>>)
           /\ \A i \in Nat : i < m.header.n =>
                 InFront(st, q, sq.dhs, W, m, <<m.header.dh, i>>)
           /\ \A i \in Nat : <<m.header.dh, i>> \notin DOMAIN st.mkskipped
<1>1. /\ m.header.dh = sq.dhs /\ m.header.dh /= st.dhr
      /\ Slot(m) = <<sq.dhs, m.header.n>> /\ Slot(m) \notin DOMAIN st.mkskipped
  BY DEF OnNext, InStore, Slot
<1>2. /\ IsState(st) /\ st.nr \in Nat /\ m.header.n \in Nat /\ gq \in Nat
      /\ sq.ns \in Nat /\ sq.pn \in Nat
      /\ Stored(st, q, W)
      /\ \A k \in DOMAIN st.mkskipped :
            k[1][2] \in Nat /\ k[2] \in Nat /\ st.ckr /= None
  BY DEF Sides, IsState, Faces
<1>3. Ahead(sq, st, q, gq, W)
  BY <1>1, PeerAhead
<1>4. m.header.n < sq.ns /\ m.header.pn = sq.pn
  BY <1>1, SendersChain
<1>5. /\ sq.dhs[2] = gq
      /\ st.ckr /= None => st.dhr[2] = gq - 1
  BY <1>3 DEF Faces, Sender, Ahead, DhKey
<1>6. BeforeChain(st, m.header)
  BY <1>1, <1>2, <1>3, <1>4, ChainPosition DEF BeforeChain, Ahead
<1>7. ASSUME NEW k \in DOMAIN st.mkskipped
      PROVE  k[1][2] < gq /\ InFront(st, q, sq.dhs, W, m, k)
  <2>1. Earlier(k, <<st.dhr, st.nr>>)
    BY <1>2 DEF Stored
  <2>2. k[1][2] < gq
    BY <1>2, <1>5, <2>1 DEF Earlier
  <2>3. Earlier(k, Slot(m))
    BY <1>1, <1>2, <1>5, <2>2 DEF Earlier
  <2> QED
    BY <1>2, <2>2, <2>3, StoredInFront
<1>8. ASSUME NEW i \in Nat, st.ckr /= None, st.nr <= i, i < m.header.pn
      PROVE  InFront(st, q, sq.dhs, W, m, <<st.dhr, i>>)
  <2>1. SentUnder(W, q, st.dhr, st.ckr[1], i)
    BY <1>3, <1>4, <1>8, ReceiversFilled
  <2>2. PICK x \in W : x.from = q /\ Slot(x) = <<st.dhr, i>>
    BY <2>1 DEF SentUnder
  <2>3. x.header.dh = st.dhr /\ x.header.n = i
    BY <2>2 DEF Slot
  <2>4. NotReached(st, x, sq.dhs)
    BY <1>2, <1>8, <2>3 DEF NotReached
  <2>5. Earlier(Slot(x), Slot(m))
    BY <1>1, <1>2, <1>5, <1>8, <2>2 DEF Earlier
  <2>6. x.ct.pt < m.ct.pt
    BY <2>2, <2>5 DEF InOrder
  <2> QED
    BY <2>2, <2>4, <2>6 DEF InFront
<1>9. ASSUME NEW i \in Nat, i < m.header.n
      PROVE  InFront(st, q, sq.dhs, W, m, <<m.header.dh, i>>)
  <2>1. i < sq.ns
    BY <1>2, <1>4, <1>9
  <2>2. SentUnder(W, q, sq.dhs, sq.rk, i)
    BY <2>1, SendersFilled
  <2>3. PICK x \in W : x.from = q /\ Slot(x) = <<sq.dhs, i>>
    BY <2>2 DEF SentUnder
  <2>4. x.header.dh = sq.dhs
    BY <2>3 DEF Slot
  <2>5. NotReached(st, x, sq.dhs)
    BY <1>1, <2>4 DEF NotReached
  <2>6. Earlier(Slot(x), Slot(m))
    BY <1>1, <1>9, <2>3 DEF Earlier
  <2>7. x.ct.pt < m.ct.pt
    BY <2>3, <2>6 DEF InOrder
  <2> QED
    BY <1>1, <2>3, <2>5, <2>7 DEF InFront
<1>10. ASSUME NEW i \in Nat, <<m.header.dh, i>> \in DOMAIN st.mkskipped
       PROVE  FALSE
  <2>1. m.header.dh[2] < gq
    BY <1>7, <1>10
  <2> QED
    BY <1>1, <1>2, <1>5, <2>1
<1> QED
  BY <1>6, <1>7, <1>8, <1>9, <1>10, Zenon

------------------------------------------------------------------------------
(* What ratchet_receive_key returns *)

\* A skip fails only for its limits, or passes the numbers below until.
LEMMA SkipOutcome ==
    ASSUME NEW st, OnChain(st), NEW until \in Nat, st.nr <= until
    PROVE  LET s == skip_message_keys(st, until)
           IN  \/ s.err = "ok" /\ Passed(st, s.st, until, 0) /\ IsState(s.st)
               \/ /\ s.err = "LimitExceeded"
                  /\ st.nr + MaxSkip > U32Max \/ TooMany(st, until)
<1> DEFINE s == skip_message_keys(st, until)
           t == s.st
           M == StoreSkipped(st, until)
<1>0. IsState(st) /\ st.nr \in Nat /\ st.ckr /= None
  BY DEF OnChain, IsState
<1>1. st.ckr = <<st.ckr[1], st.nr>> /\ st.ckr[2] = st.nr
  BY DEF OnChain
<1>2. CASE s.err /= "ok"
  BY <1>0, <1>2 DEF skip_message_keys, TooMany
<1>3. CASE s.err = "ok" /\ until <= st.nr
  <2>1. until = st.nr /\ s.st = st
    BY <1>0, <1>3 DEF skip_message_keys
  <2>2. SkipSlots(st, until) = {}
    BY <1>0, <2>1 DEF SkipSlots
  <2>3. Passed(st, st, until, 0)
    BY <1>0, <1>1, <2>1, <2>2 DEF Passed
  <2> QED
    BY <1>0, <1>3, <2>1, <2>3, Zenon
<1>4. CASE s.err = "ok" /\ st.nr < until
  <2>1. t = [st EXCEPT !.mkskipped = M,
                       !.ckr = kdf_ck_n(st.ckr, until - st.nr),
                       !.nr = until]
    BY <1>0, <1>4 DEF skip_message_keys
  <2>2. kdf_ck_n(st.ckr, until - st.nr) = <<st.ckr[1], until + 0>>
    BY <1>0, <1>1 DEF kdf_ck_n
  <2>3. ASSUME NEW k \in SkipSlots(st, until)
        PROVE  kdf_ck_n(st.ckr, k[2] - st.nr) = <<st.ckr[1], k[2]>>
    <3>1. k[2] \in Nat
      BY <1>0 DEF SkipSlots
    <3> QED
      BY <1>0, <1>1, <3>1 DEF kdf_ck_n
  <2>4. /\ DOMAIN M = DOMAIN st.mkskipped \cup SkipSlots(st, until)
        /\ \A k \in SkipSlots(st, until) : M[k] = kdf_ck_n(st.ckr, k[2] - st.nr)
        /\ \A k \in DOMAIN st.mkskipped \ SkipSlots(st, until) :
              M[k] = st.mkskipped[k]
    BY DEF StoreSkipped
  <2> HIDE DEF M, t, s
  <2>5. t = [dhs |-> st.dhs, dhr |-> st.dhr, rk |-> st.rk, cks |-> st.cks,
             ckr |-> kdf_ck_n(st.ckr, until - st.nr), ns |-> st.ns,
             nr |-> until, pn |-> st.pn, mkskipped |-> M]
    BY <1>0, <2>1, ZenonT(40) DEF IsState
  <2>6. /\ t.dhs = st.dhs /\ t.dhr = st.dhr /\ t.rk = st.rk /\ t.cks = st.cks
        /\ t.ns = st.ns /\ t.pn = st.pn /\ t.nr = until + 0
        /\ t.ckr = <<st.ckr[1], until + 0>> /\ t.mkskipped = M
    BY <2>2, <2>5
  <2>7. IsState(t)
    BY <2>5 DEF IsState
  <2>8. Passed(st, t, until, 0)
    BY <2>3, <2>4, <2>6 DEF Passed
  <2> QED
    BY <1>4, <2>7, <2>8, Zenon DEF s, t
<1> QED
  BY <1>0, <1>2, <1>3, <1>4

\* A message the receiving chain has not reached is received under the chain's
\* key of that number, unless a limit is met.
LEMMA OnChainOutcome ==
    ASSUME NEW st, OnChain(st), NEW h, h.n \in Nat, st.nr <= h.n, h.n < U32Max
    PROVE  LET r == receive_on_chain(st, h)
           IN  \/ /\ r.err = "ok"
                  /\ r.mk = <<st.ckr[1], h.n>>
                  /\ Passed(st, r.st, h.n, 1)
               \/ /\ r.err = "LimitExceeded"
                  /\ st.nr + MaxSkip > U32Max \/ TooMany(st, h.n)
<1> DEFINE s == skip_message_keys(st, h.n)
           t == s.st
           u == [t EXCEPT !.ckr = kdf_ck(t.ckr), !.nr = t.nr + 1]
           r == receive_on_chain(st, h)
<1>1. \/ s.err = "ok" /\ Passed(st, t, h.n, 0) /\ IsState(t)
      \/ /\ s.err = "LimitExceeded"
         /\ st.nr + MaxSkip > U32Max \/ TooMany(st, h.n)
  BY SkipOutcome
<1>2. CASE s.err = "ok" /\ Passed(st, t, h.n, 0) /\ IsState(t)
  <2>1. r = IF t.ckr = None
            THEN [err |-> "Internal", st |-> t, mk |-> None]
            ELSE IF t.nr = U32Max
            THEN [err |-> "LimitExceeded", st |-> t, mk |-> None]
            ELSE [err |-> "ok", mk |-> t.ckr, st |-> u]
    BY <1>2 DEF receive_on_chain
  <2> HIDE DEF s, t
  <2>2. t.nr = h.n /\ t.ckr = <<st.ckr[1], h.n>>
    BY <1>2 DEF Passed
  <2>3. t.ckr /= None
    BY <2>2 DEF None
  <2>4. t.nr /= U32Max
    BY <2>2, U32MaxAssumption
  <2>5. kdf_ck(t.ckr) = <<st.ckr[1], h.n + 1>>
    BY <2>2 DEF kdf_ck
  <2>6. u = [dhs |-> t.dhs, dhr |-> t.dhr, rk |-> t.rk, cks |-> t.cks,
             ckr |-> kdf_ck(t.ckr), ns |-> t.ns, nr |-> t.nr + 1,
             pn |-> t.pn, mkskipped |-> t.mkskipped]
    <3>1. u = [t EXCEPT !.ckr = kdf_ck(t.ckr), !.nr = t.nr + 1]
      OBVIOUS
    <3> HIDE DEF u
    <3> QED
      BY <1>2, <3>1, ZenonT(40) DEF IsState
  <2>7. r.err = "ok" /\ r.mk = <<st.ckr[1], h.n>> /\ r.st = u
    BY <2>1, <2>2, <2>3, <2>4
  <2> HIDE DEF u, r
  <2>8. /\ u.dhs = t.dhs /\ u.dhr = t.dhr /\ u.rk = t.rk
        /\ u.cks = t.cks /\ u.ns = t.ns /\ u.pn = t.pn
        /\ u.mkskipped = t.mkskipped
        /\ u.ckr = <<st.ckr[1], h.n + 1>> /\ u.nr = h.n + 1
    BY <2>2, <2>5, <2>6
  <2>9. Passed(st, u, h.n, 1)
    BY <1>2, <2>8 DEF Passed
  <2> QED
    BY <2>7, <2>9, Zenon DEF r
<1>3. CASE s.err /= "ok"
  <2>1. r = [err |-> s.err, st |-> s.st, mk |-> None]
    BY <1>3 DEF receive_on_chain
  <2> QED
    BY <1>1, <1>3, <2>1
<1> QED
  BY <1>1, <1>2, <1>3

\* The fields of a state after a DH step
LEMMA RatchetFields ==
    ASSUME NEW st, IsState(st), NEW h, NEW fresh
    PROVE  LET d == dh_ratchet(st, h, fresh)
               rk1 == kdf_rk(st.rk, diffie_hellman(st.dhs, h.dh))
               rk2 == kdf_rk(rk1, diffie_hellman(fresh, h.dh))
           IN  /\ IsState(d)
               /\ d.dhs = fresh /\ d.dhr = h.dh /\ d.rk = rk2
               /\ d.cks = <<rk2, 0>> /\ d.ckr = <<rk1, 0>>
               /\ d.ns = 0 /\ d.nr = 0 /\ d.pn = st.ns
               /\ d.mkskipped = st.mkskipped
<1> DEFINE rk1 == kdf_rk(st.rk, diffie_hellman(st.dhs, h.dh))
           rk2 == kdf_rk(rk1, diffie_hellman(fresh, h.dh))
           d == dh_ratchet(st, h, fresh)
<1>1. st = [dhs |-> st.dhs, dhr |-> st.dhr, rk |-> st.rk, cks |-> st.cks,
            ckr |-> st.ckr, ns |-> st.ns, nr |-> st.nr, pn |-> st.pn,
            mkskipped |-> st.mkskipped]
  BY DEF IsState
<1>2. d = [st EXCEPT !.pn = st.ns, !.ns = 0, !.nr = 0, !.dhr = h.dh,
                     !.dhs = fresh, !.rk = rk2, !.ckr = <<rk1, 0>>,
                     !.cks = <<rk2, 0>>]
  BY Zenon DEF dh_ratchet, ChainKey
<1> HIDE DEF rk1, rk2, d
<1>3. d = [dhs |-> fresh, dhr |-> h.dh, rk |-> rk2, cks |-> <<rk2, 0>>,
           ckr |-> <<rk1, 0>>, ns |-> 0, nr |-> 0, pn |-> st.ns,
           mkskipped |-> st.mkskipped]
  BY <1>1, <1>2, ZenonT(40)
<1>4. /\ d.dhs = fresh /\ d.dhr = h.dh /\ d.rk = rk2
      /\ d.cks = <<rk2, 0>> /\ d.ckr = <<rk1, 0>>
      /\ d.ns = 0 /\ d.nr = 0 /\ d.pn = st.ns
      /\ d.mkskipped = st.mkskipped
  BY <1>3
<1>5. IsState(d)
  BY <1>3 DEF IsState
<1> QED
  BY <1>4, <1>5, Zenon DEF d, rk1, rk2

\* What skipping to the end of the old chain leaves
LEMMA OldChainOutcome ==
    ASSUME NEW st, NEW h, BeforeChain(st, h)
    PROVE  LET s == skip_message_keys(st, h.pn)
               t == s.st
           IN  \/ /\ s.err = "ok"
                  /\ IsState(t)
                  /\ t.dhs = st.dhs /\ t.rk = st.rk /\ t.ns = st.ns
                  /\ DOMAIN t.mkskipped = DOMAIN st.mkskipped \cup OldSlots(st, h)
                  /\ \A k \in OldSlots(st, h) :
                        t.mkskipped[k] = <<st.ckr[1], k[2]>>
                  /\ \A k \in DOMAIN st.mkskipped \ OldSlots(st, h) :
                        t.mkskipped[k] = st.mkskipped[k]
               \/ /\ s.err = "LimitExceeded"
                  /\ \/ st.nr + MaxSkip > U32Max
                     \/ st.ckr /= None /\ TooMany(st, h.pn)
<1> DEFINE s == skip_message_keys(st, h.pn)
           t == s.st
<1>0. h.pn \in Nat /\ st.nr \in Nat /\ IsState(st)
  BY DEF BeforeChain, IsState
<1>1. CASE st.ckr = None
  <2>1. h.pn = 0 /\ h.pn <= st.nr
    BY <1>0, <1>1 DEF BeforeChain
  <2>2. s.err = "ok" => t = st
    BY <1>1 DEF skip_message_keys
  <2>3. s.err /= "ok" => s.err = "LimitExceeded" /\ st.nr + MaxSkip > U32Max
    BY <1>0, <1>1, <2>1, MaxSkipAssumption DEF skip_message_keys
  <2>4. OldSlots(st, h) = {}
    BY <1>1 DEF OldSlots
  <2> QED
    BY <1>0, <2>2, <2>3, <2>4, ZenonT(40)
<1>2. CASE st.ckr /= None
  <2>1. OnChain(st) /\ st.nr <= h.pn
    BY <1>0, <1>2 DEF BeforeChain, OnChain
  <2>2. \/ s.err = "ok" /\ Passed(st, t, h.pn, 0) /\ IsState(t)
        \/ /\ s.err = "LimitExceeded"
           /\ st.nr + MaxSkip > U32Max \/ TooMany(st, h.pn)
    BY <1>0, <2>1, SkipOutcome
  <2>3. OldSlots(st, h) = SkipSlots(st, h.pn)
    BY <1>2 DEF OldSlots
  <2> QED
    BY <1>2, <2>2, <2>3, ZenonT(40) DEF Passed
<1> QED
  BY <1>1, <1>2

\* A message of the chain that the next DH step opens is received under the key
\* of its number on that chain, unless a limit is met.
LEMMA NewChainOutcome ==
    ASSUME NEW st, NEW h, BeforeChain(st, h), h.n < U32Max, NEW fresh
    PROVE  LET r == ratchet_receive_key(st, h, fresh)
               rk1 == kdf_rk(st.rk, diffie_hellman(st.dhs, h.dh))
           IN  \/ /\ r.err = "ok"
                  /\ r.mk = <<rk1, h.n>>
                  /\ Opened(st, r.st, h, fresh, rk1)
               \/ /\ r.err = "LimitExceeded"
                  /\ \/ st.nr + MaxSkip > U32Max
                     \/ st.ckr /= None /\ TooMany(st, h.pn)
                     \/ TooManyNew(st, h)
<1> DEFINE r == ratchet_receive_key(st, h, fresh)
           rk1 == kdf_rk(st.rk, diffie_hellman(st.dhs, h.dh))
           s == skip_message_keys(st, h.pn)
           t == s.st
           d == dh_ratchet(t, h, fresh)
           u == receive_on_chain(d, h)
<1>0. /\ h.n \in Nat /\ st.nr \in Nat
      /\ <<h.dh, h.n>> \notin DOMAIN st.mkskipped /\ st.dhr /= h.dh
  BY DEF BeforeChain, IsState
<1>1. CASE s.err /= "ok"
  <2>1. s.err = "LimitExceeded" /\ (\/ st.nr + MaxSkip > U32Max
                                    \/ st.ckr /= None /\ TooMany(st, h.pn))
    BY <1>1, OldChainOutcome, ZenonT(40)
  <2>2. r = [err |-> s.err, st |-> s.st, mk |-> None]
    BY <1>0, <1>1, Zenon DEF ratchet_receive_key
  <2> QED
    BY <2>1, <2>2
<1>2. CASE s.err = "ok"
  <2>1. /\ IsState(t)
        /\ t.dhs = st.dhs /\ t.rk = st.rk /\ t.ns = st.ns
        /\ DOMAIN t.mkskipped = DOMAIN st.mkskipped \cup OldSlots(st, h)
        /\ \A k \in OldSlots(st, h) : t.mkskipped[k] = <<st.ckr[1], k[2]>>
        /\ \A k \in DOMAIN st.mkskipped \ OldSlots(st, h) :
              t.mkskipped[k] = st.mkskipped[k]
    BY <1>2, OldChainOutcome, ZenonT(40)
  <2>2. r = u
    BY <1>0, <1>2, Zenon DEF ratchet_receive_key
  <2> HIDE DEF s, t
  <2>3. /\ IsState(d) /\ d.dhs = fresh /\ d.dhr = h.dh
        /\ d.rk = kdf_rk(rk1, diffie_hellman(fresh, h.dh))
        /\ d.cks = <<d.rk, 0>> /\ d.ckr = <<rk1, 0>>
        /\ d.ns = 0 /\ d.nr = 0 /\ d.pn = st.ns
        /\ d.mkskipped = t.mkskipped
    <3> DEFINE x1 == kdf_rk(t.rk, diffie_hellman(t.dhs, h.dh))
    <3>1. x1 = rk1
      BY <2>1
    <3>2. /\ IsState(d) /\ d.dhs = fresh /\ d.dhr = h.dh
          /\ d.rk = kdf_rk(x1, diffie_hellman(fresh, h.dh))
          /\ d.cks = <<kdf_rk(x1, diffie_hellman(fresh, h.dh)), 0>>
          /\ d.ckr = <<x1, 0>>
          /\ d.ns = 0 /\ d.nr = 0 /\ d.pn = t.ns
          /\ d.mkskipped = t.mkskipped
      BY <2>1, RatchetFields
    <3> HIDE DEF x1, rk1, d
    <3> QED
      BY <2>1, <3>1, <3>2
  <2> HIDE DEF d, rk1, r
  <2>4. OnChain(d) /\ d.nr <= h.n
    <3>1. <<rk1, 0>> /= None
      BY DEF None
    <3> QED
      BY <1>0, <2>3, <3>1 DEF OnChain
  <2>5. \/ /\ u.err = "ok"
           /\ u.mk = <<d.ckr[1], h.n>>
           /\ Passed(d, u.st, h.n, 1)
        \/ /\ u.err = "LimitExceeded"
           /\ d.nr + MaxSkip > U32Max \/ TooMany(d, h.n)
    BY <1>0, <2>4, OnChainOutcome
  <2> HIDE DEF u
  <2>6. \A n : SkipSlots(d, n) = NewSlots(h, n)
    BY <2>3 DEF SkipSlots, NewSlots
  <2>7. CASE u.err = "ok" /\ u.mk = <<d.ckr[1], h.n>> /\ Passed(d, u.st, h.n, 1)
    <3>1. u.mk = <<rk1, h.n>>
      BY <2>3, <2>7
    <3> DEFINE v == u.st
    <3> HIDE DEF v
    <3>2. /\ v.dhs = fresh /\ v.dhr = h.dh
          /\ v.rk = kdf_rk(rk1, diffie_hellman(fresh, h.dh))
          /\ v.cks = <<v.rk, 0>> /\ v.ckr = <<rk1, h.n + 1>>
          /\ v.ns = 0 /\ v.pn = st.ns /\ v.nr = h.n + 1
      BY <2>3, <2>7 DEF Passed, v
    <3>3. /\ DOMAIN v.mkskipped = DOMAIN t.mkskipped \cup NewSlots(h, h.n)
          /\ \A k \in NewSlots(h, h.n) : v.mkskipped[k] = <<rk1, k[2]>>
          /\ \A k \in DOMAIN t.mkskipped \ NewSlots(h, h.n) :
                v.mkskipped[k] = t.mkskipped[k]
      BY <2>3, <2>6, <2>7 DEF Passed, v
    <3>4. Opened(st, v, h, fresh, rk1)
      BY <2>1, <3>2, <3>3 DEF Opened
    <3> QED
      BY <2>2, <2>7, <3>1, <3>4, Zenon DEF r, rk1, v
  <2>8. CASE /\ u.err = "LimitExceeded"
             /\ d.nr + MaxSkip > U32Max \/ TooMany(d, h.n)
    <3>1. d.nr + MaxSkip > U32Max => st.nr + MaxSkip > U32Max
      BY <1>0, <2>3, MaxSkipAssumption, U32MaxAssumption
    <3>2. TooMany(d, h.n) => TooManyNew(st, h)
      BY <2>1, <2>3, <2>6, MaxSkipAssumption
         DEF TooMany, TooManyNew, StoreFull
    <3> QED
      BY <2>2, <2>8, <3>1, <3>2, Zenon DEF r
  <2> QED
    BY <2>5, <2>7, <2>8
<1> QED
  BY <1>1, <1>2

\* What ratchet_receive_key does with such a message, case by case.
LEMMA ReadFromStore ==
    ASSUME NEW st, NEW q, NEW W, Stored(st, q, W), InOrder(W),
           NEW m \in W, m.from = q, InStore(st, m), NEW fresh
    PROVE  ratchet_receive_key(st, m.header, fresh)
             = [err |-> "ok", st |-> TakeSkipped(st, Slot(m)), mk |-> m.ct.mk]
<1>1. PICK x \in W : /\ x.from = q /\ Slot(x) = Slot(m)
                     /\ st.mkskipped[Slot(m)] = x.ct.mk
  BY Zenon DEF Stored, InStore
<1>2. x = m
  BY <1>1 DEF InOrder
<1> QED
  BY <1>1, <1>2 DEF ratchet_receive_key, InStore, Slot

LEMMA ReadOnThis ==
    ASSUME NEW st, NEW sq, NEW p, NEW q, NEW g, NEW gq, NEW W,
           Sides(st, sq, p, q, g, gq, W), Faces(st, sq, p, q, g, gq, W),
           NEW m \in W, m.from = q, OnThis(st, m), NEW fresh
    PROVE  LET r == ratchet_receive_key(st, m.header, fresh)
           IN  \/ /\ r.err = "ok"
                  /\ r.mk = m.ct.mk
                  /\ Passed(st, r.st, m.header.n, 1)
               \/ /\ r.err = "LimitExceeded"
                  /\ \/ st.nr + MaxSkip > U32Max
                     \/ TooMany(st, m.header.n)
<1> DEFINE r == ratchet_receive_key(st, m.header, fresh)
<1>1. /\ m.header.n \in Nat /\ m.header.n < U32Max /\ IsState(st)
  BY DEF Sides, Faces, HeaderTrue
<1>2. /\ st.ckr /= None /\ m.header.dh = st.dhr /\ st.nr <= m.header.n
      /\ <<m.header.dh, m.header.n>> \notin DOMAIN st.mkskipped
  BY DEF OnThis, InStore, Slot
<1>3. m.ct.mk = <<st.ckr[1], m.header.n>>
  BY <1>2, ReceiversChain
<1>4. OnChain(st)
  BY <1>1, <1>2, ChainPosition DEF OnChain
<1>5. r = receive_on_chain(st, m.header)
  BY <1>2, Zenon DEF ratchet_receive_key
<1> HIDE DEF r
<1>6. \/ /\ r.err = "ok"
         /\ r.mk = <<st.ckr[1], m.header.n>>
         /\ Passed(st, r.st, m.header.n, 1)
      \/ /\ r.err = "LimitExceeded"
         /\ st.nr + MaxSkip > U32Max \/ TooMany(st, m.header.n)
  BY <1>1, <1>2, <1>4, <1>5, OnChainOutcome
<1> QED
  BY <1>3, <1>6, Zenon DEF r

LEMMA ReadOnNext ==
    ASSUME NEW st, NEW sq, NEW p, NEW q, NEW g, NEW gq, NEW W,
           Sides(st, sq, p, q, g, gq, W), Faces(st, sq, p, q, g, gq, W),
           NEW m \in W, m.from = q, OnNext(st, m, sq.dhs), NEW fresh
    PROVE  LET r == ratchet_receive_key(st, m.header, fresh)
           IN  \/ /\ r.err = "ok"
                  /\ r.mk = m.ct.mk
                  /\ Opened(st, r.st, m.header, fresh, m.ct.mk[1])
               \/ /\ r.err = "LimitExceeded"
                  /\ \/ st.nr + MaxSkip > U32Max
                     \/ st.ckr /= None /\ TooMany(st, m.header.pn)
                     \/ TooManyNew(st, m.header)
<1> DEFINE rk1 == kdf_rk(st.rk, diffie_hellman(st.dhs, m.header.dh))
           r == ratchet_receive_key(st, m.header, fresh)
<1>1. /\ m.header.n \in Nat /\ m.header.n < U32Max /\ IsState(st)
      /\ sq.pn \in Nat
  BY DEF Sides, Faces, HeaderTrue
<1>2. /\ m.header.dh = sq.dhs /\ st.dhr /= m.header.dh
      /\ <<m.header.dh, m.header.n>> \notin DOMAIN st.mkskipped
  BY DEF OnNext, InStore, Slot
<1>3. m.ct.mk = <<sq.rk, m.header.n>> /\ m.header.pn = sq.pn
  BY <1>2, SendersChain
<1>4. Ahead(sq, st, q, gq, W) /\ sq.rk = rk1
  BY <1>2, PeerAhead
<1> HIDE DEF r, rk1
<1>5. BeforeChain(st, m.header)
  BY <1>1, <1>2, <1>3, <1>4, ChainPosition, SMTT(30) DEF BeforeChain, Ahead
<1>6. \/ /\ r.err = "ok"
         /\ r.mk = <<rk1, m.header.n>>
         /\ Opened(st, r.st, m.header, fresh, rk1)
      \/ /\ r.err = "LimitExceeded"
         /\ \/ st.nr + MaxSkip > U32Max
            \/ st.ckr /= None /\ TooMany(st, m.header.pn)
            \/ TooManyNew(st, m.header)
  BY <1>1, <1>5, NewChainOutcome DEF r, rk1
<1>7. rk1 = m.ct.mk[1]
  BY <1>3, <1>4, SMTT(30)
<1> QED
  BY <1>3, <1>4, <1>6, <1>7, Zenon DEF r

=============================================================================
