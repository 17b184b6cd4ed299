--------------------------- MODULE ReadableProofs ---------------------------
(***************************************************************************)
(* Proof that the two sides of the Double Ratchet stay in step, and that a *)
(* message that was not delivered can therefore always be read, for every  *)
(* bound on skipped keys, every counter width and every number of          *)
(* messages.                                                               *)
(***************************************************************************)
EXTENDS DoubleRatchetProofs, InStepLemmas

------------------------------------------------------------------------------
(* What the invariant says of a party and its peer *)

\* p and its peer, with the messages on the wire, have the shape of two sides.
SidesNow(p) ==
    Sides(ratchet[p], ratchet[Peer(p)], p, Peer(p),
          generated[p], generated[Peer(p)], wire)

FacesNow(p) ==
    Faces(ratchet[p], ratchet[Peer(p)], p, Peer(p),
          generated[p], generated[Peer(p)], wire)

LEMMA StateParts ==
    ASSUME Inv, NEW p \in Party
    PROVE  LET st == ratchet[p]
           IN  /\ IsState(st) /\ st.ns \in Nat /\ st.pn \in Nat
               /\ st.ns <= U32Max /\ generated[p] \in Nat
               /\ st.cks /= None => st.cks = <<st.rk, st.cks[2]>>
               /\ st.ckr /= None => st.ckr = <<st.ckr[1], st.ckr[2]>>
               /\ \A k \in DOMAIN st.mkskipped :
                     k[1][2] \in Nat /\ k[2] \in Nat /\ st.ckr /= None
<1> DEFINE st == ratchet[p]
<1>1. StateOK(st) /\ ChainsOrdered(st) /\ generated[p] \in Nat
  BY InvGood DEF GoodState, Inv, TypeOK
<1> HIDE DEF st
<1>2. /\ st = [dhs |-> st.dhs, dhr |-> st.dhr, rk |-> st.rk, cks |-> st.cks,
               ckr |-> st.ckr, ns |-> st.ns, nr |-> st.nr, pn |-> st.pn,
               mkskipped |-> st.mkskipped]
      /\ st.cks \in ChainKeys \cup {None} /\ st.ckr \in ChainKeys \cup {None}
      /\ st.ns \in U32 /\ st.nr \in U32 /\ st.pn \in U32
      /\ DOMAIN st.mkskipped \subseteq DhKeys \X U32
  BY <1>1, Zenon DEF StateOK, SkippedOK
<1>3. /\ st.ns \in Nat /\ st.pn \in Nat /\ st.nr \in Nat /\ st.ns <= U32Max
  BY <1>2, U32MaxAssumption DEF U32
<1>4. IsState(st)
  BY <1>2, <1>3 DEF IsState
<1>5. /\ st.cks /= None => st.cks = <<st.cks[1], st.cks[2]>>
      /\ st.ckr /= None => st.ckr = <<st.ckr[1], st.ckr[2]>>
  BY <1>2, ChainKeyParts
<1>6. /\ st.cks /= None => st.cks[1] = st.rk
      /\ \A k \in DOMAIN st.mkskipped : st.ckr /= None
  BY <1>1 DEF ChainsOrdered
<1>7. \A k \in DOMAIN st.mkskipped : k[1][2] \in Nat /\ k[2] \in Nat
  BY <1>2, U32MaxAssumption DEF DhKeys, U32
<1> QED
  BY <1>1, <1>3, <1>4, <1>5, <1>6, <1>7 DEF st

LEMMA MessageParts ==
    ASSUME Inv, NEW x \in wire
    PROVE  /\ x.from \in Party
           /\ x.header.dh = <<x.header.dh[1], x.header.dh[2]>>
           /\ x.header.dh[2] \in Nat /\ x.header.n \in Nat
           /\ x.ct.mk \in ChainKeys
           /\ x.ct.mk = <<x.ct.mk[1], x.ct.mk[2]>>
           /\ x.ct.pt \in 1 .. MaxSent /\ x.ct.pt <= sent[x.from]
           /\ ratchet[x.from].cks /= None
<1>1. /\ x.from \in Party /\ x.header \in Headers
      /\ x.ct.mk \in ChainKeys /\ x.ct.pt \in 1 .. MaxSent
      /\ x.ct.pt <= sent[x.from] /\ ratchet[x.from].cks /= None
  BY WireParts, Zenon
<1>2. /\ x.header.dh \in DhKeys /\ x.header.n \in U32
  BY <1>1 DEF Headers
<1>3. /\ x.header.dh = <<x.header.dh[1], x.header.dh[2]>>
      /\ x.header.dh[2] \in Nat /\ x.header.n \in Nat
  BY <1>2, U32MaxAssumption DEF DhKeys, U32
<1>4. x.ct.mk = <<x.ct.mk[1], x.ct.mk[2]>>
  BY <1>1, ChainKeyParts
<1> QED
  BY <1>1, <1>3, <1>4

LEMMA InvSides ==
    ASSUME Inv, NEW p \in Party
    PROVE  SidesNow(p)
<1> DEFINE q == Peer(p)
<1>1. q \in Party /\ q /= p /\ \A x \in Party : x = p \/ x = q
  BY PeerOfParty
<1> HIDE DEF q
<1>2. \A x \in wire : /\ x.from = p \/ x.from = q
                      /\ x.header.dh = <<x.header.dh[1], x.header.dh[2]>>
                      /\ x.header.dh[2] \in Nat /\ x.header.n \in Nat
                      /\ x.ct.mk = <<x.ct.mk[1], x.ct.mk[2]>>
                      /\ x.from = p => ratchet[p].cks /= None
  BY <1>1, MessageParts, Zenon
<1>3. LET st == ratchet[p]
      IN  /\ IsState(st) /\ st.ns \in Nat /\ st.pn \in Nat
          /\ generated[p] \in Nat
          /\ st.cks /= None => st.cks = <<st.rk, st.cks[2]>>
          /\ st.ckr /= None => st.ckr = <<st.ckr[1], st.ckr[2]>>
          /\ \A k \in DOMAIN st.mkskipped :
                k[1][2] \in Nat /\ k[2] \in Nat /\ st.ckr /= None
  BY StateParts, Zenon
<1>4. /\ IsState(ratchet[q]) /\ ratchet[q].ns \in Nat /\ ratchet[q].pn \in Nat
      /\ generated[q] \in Nat
  BY <1>1, StateParts, Zenon
<1> QED
  BY <1>1, <1>2, <1>3, <1>4, Zenon DEF SidesNow, Sides, q

LEMMA InStepFaces ==
    ASSUME IInv, NEW p \in Party
    PROVE  /\ SidesNow(p) /\ FacesNow(p) /\ InOrder(wire)
           /\ \A x \in wire : x.from = Peer(p) =>
                 Found(ratchet[p], x, ratchet[Peer(p)].dhs, delivered[p][x.ct.pt])
           /\ \A x \in wire : x.from = p =>
                 Found(ratchet[Peer(p)], x, ratchet[p].dhs,
                       delivered[Peer(p)][x.ct.pt])
<1> DEFINE q == Peer(p)
<1>1. q \in Party /\ Peer(q) = p /\ \A x \in Party : x = p \/ x = q
  BY PeerOfParty, Zenon
<1>2. InStep
  BY DEF IInv
<1>3. SidesNow(p)
  BY InvSides DEF IInv
<1> HIDE DEF q
<1>4. /\ \A m \in wire : HeaderTrue(m, ratchet[m.from], generated[m.from])
      /\ SentInOrder
      /\ Sender(ratchet[p], p, generated[p], wire)
      /\ Sender(ratchet[q], q, generated[q], wire)
  BY <1>1, <1>2, Zenon DEF InStep
<1>5. /\ Stored(ratchet[p], q, wire) /\ Stored(ratchet[q], p, wire)
  BY <1>1, <1>2, Zenon DEF InStep, q
<1>6. Paired(ratchet[p], ratchet[q], p, q, generated[p], generated[q], wire)
  BY <1>1, <1>2, Zenon DEF InStep, Paired, q
<1>7. FacesNow(p)
  BY <1>4, <1>5, <1>6, Zenon DEF FacesNow, Faces, q
<1>8. InOrder(wire)
  BY <1>4, Zenon DEF SentInOrder, InOrder
<1>9. \A x \in Party : \A m \in wire : m.from = Peer(x) =>
         Found(ratchet[x], m, ratchet[Peer(x)].dhs, delivered[x][m.ct.pt])
  BY <1>2, Zenon DEF InStep, Incoming, Found
<1> QED
  BY <1>1, <1>3, <1>7, <1>8, <1>9, Zenon DEF q

\* A step keeps the two sides in step when it does so for p and for its peer.
LEMMA InStepFromFaces ==
    ASSUME NEW p \in Party, \A x \in wire' : x.from \in Party,
           FacesNow(p)', InOrder(wire'),
           \A x \in wire' : x.from = Peer(p) =>
              Found(ratchet'[p], x, ratchet'[Peer(p)].dhs, delivered'[p][x.ct.pt]),
           \A x \in wire' : x.from = p =>
              Found(ratchet'[Peer(p)], x, ratchet'[p].dhs,
                    delivered'[Peer(p)][x.ct.pt])
    PROVE  InStep'
<1> DEFINE q == Peer(p)
<1>1. q \in Party /\ Peer(q) = p /\ \A x \in Party : x = p \/ x = q
  BY PeerOfParty, Zenon
<1> HIDE DEF q
<1>2. Faces(ratchet'[p], ratchet'[q], p, q, generated'[p], generated'[q], wire')
  BY Zenon DEF FacesNow, q
<1>3. \A m \in wire' : HeaderTrue(m, ratchet'[m.from], generated'[m.from])
  BY <1>1, <1>2, Zenon DEF Faces
<1>4. \A x \in Party : Sender(ratchet'[x], x, generated'[x], wire')
  BY <1>1, <1>2, Zenon DEF Faces
<1>5. \E x \in Party :
         Ahead(ratchet'[x], ratchet'[Peer(x)], x, generated'[x], wire')
  BY <1>1, <1>2, Zenon DEF Faces, Paired, q
<1>6. \A x \in Party : Stored(ratchet'[x], Peer(x), wire')
  BY <1>1, <1>2, Zenon DEF Faces, q
<1>7. \A x \in Party : \A m \in wire' : m.from = Peer(x) =>
         Found(ratchet'[x], m, ratchet'[Peer(x)].dhs, delivered'[x][m.ct.pt])
  <2>1. SUFFICES ASSUME NEW x \in Party, NEW m \in wire', m.from = Peer(x)
                 PROVE  Found(ratchet'[x], m, ratchet'[Peer(x)].dhs,
                              delivered'[x][m.ct.pt])
    BY Zenon
  <2>2. CASE x = p
    BY <2>1, <2>2, Zenon
  <2>3. CASE x = q
    <3>1. Peer(x) = p /\ m.from = p
      BY <1>1, <2>1, <2>3
    <3>2. Found(ratchet'[q], m, ratchet'[p].dhs, delivered'[q][m.ct.pt])
      BY <3>1, Zenon DEF q
    <3> QED
      BY <2>3, <3>1, <3>2
  <2> QED
    BY <1>1, <2>2, <2>3
<1>8. (\A x \in Party : \A m \in Incoming(x) :
          \/ delivered[x][m.ct.pt] > 0
          \/ Slot(m) \in DOMAIN ratchet[x].mkskipped
          \/ NotReached(ratchet[x], m, ratchet[Peer(x)].dhs))'
  BY <1>7, Zenon DEF Incoming, Found
<1>9. SentInOrder'
  BY Zenon DEF SentInOrder, InOrder
<1> QED
  BY <1>3, <1>4, <1>5, <1>6, <1>8, <1>9, Zenon DEF InStep

------------------------------------------------------------------------------
(* encrypt *)

\* Another state of p with the same receiving side, and nothing else changed
LEMMA QuietKeepsStep ==
    ASSUME IInv, NEW p \in Party, NEW t, ratchet' = [ratchet EXCEPT ![p] = t],
           t.dhs = ratchet[p].dhs, t.dhr = ratchet[p].dhr,
           t.ckr = ratchet[p].ckr, t.nr = ratchet[p].nr,
           t.mkskipped = ratchet[p].mkskipped,
           Faces(t, ratchet[Peer(p)], p, Peer(p),
                 generated[p], generated[Peer(p)], wire),
           wire' = wire, generated' = generated, delivered' = delivered
    PROVE  InStep'
<1> DEFINE q == Peer(p)
           st == ratchet[p]
<1>1. DOMAIN ratchet = Party /\ q \in Party /\ q /= p
  BY PeerOfParty DEF IInv, Inv, TypeOK
<1>2. ratchet'[p] = t /\ ratchet'[q] = ratchet[q]
  BY <1>1
<1>3. \A x \in wire : x.from \in Party
  BY MessageParts DEF IInv
<1>4. /\ InOrder(wire)
      /\ \A x \in wire : x.from = q =>
            Found(st, x, ratchet[q].dhs, delivered[p][x.ct.pt])
      /\ \A x \in wire : x.from = p =>
            Found(ratchet[q], x, st.dhs, delivered[q][x.ct.pt])
  BY InStepFaces, Zenon
<1> HIDE DEF q, st
<1>5. Faces(ratchet'[p], ratchet'[q], p, q, generated'[p], generated'[q], wire')
  BY <1>2, Zenon DEF q
<1>6. FacesNow(p)'
  BY <1>5, Zenon DEF FacesNow, q
<1>7. \A x, dhs, d : Found(st, x, dhs, d) => Found(t, x, dhs, d)
  BY Zenon DEF Found, NotReached, st
<1>8. \A x \in wire' : x.from = q =>
         Found(ratchet'[p], x, ratchet'[q].dhs, delivered'[p][x.ct.pt])
  BY <1>2, <1>4, <1>7
<1>9. \A x \in wire' : x.from = p =>
         Found(ratchet'[q], x, ratchet'[p].dhs, delivered'[q][x.ct.pt])
  BY <1>2, <1>4 DEF st
<1>10. InOrder(wire')
  BY <1>4
<1> QED
  BY <1>3, <1>6, <1>8, <1>9, <1>10, InStepFromFaces, Zenon DEF q

LEMMA SendFacts ==
    ASSUME IInv, NEW p \in Party
    PROVE  LET r == ratchet_send_key(ratchet[p])
           IN  \/ /\ r.err = "ok" /\ r.mk = ratchet[p].cks
                  /\ Advanced(ratchet[p], r.st)
               \/ r.err /= "ok" /\ Spent(ratchet[p], r.st)
<1>1. SidesNow(p) /\ FacesNow(p)
  BY InStepFaces, Zenon
<1>2. ratchet[p].ns <= U32Max
  BY StateParts DEF IInv
<1> QED
  BY <1>1, <1>2, SendOutcome, Zenon DEF SidesNow, FacesNow

LEMMA EncryptFailsKeepsStep ==
    ASSUME IInv, NEW p \in Party, EncryptFails(p)
    PROVE  InStep'
<1> DEFINE t == ratchet_send_key(ratchet[p]).st
<1>1. /\ ratchet_send_key(ratchet[p]).err /= "ok"
      /\ ratchet' = [ratchet EXCEPT ![p] = t]
      /\ generated' = generated /\ wire' = wire /\ delivered' = delivered
  BY DEF EncryptFails, encrypt
<1>2. Spent(ratchet[p], t)
  BY <1>1, SendFacts
<1> HIDE DEF t
<1>3. SidesNow(p) /\ FacesNow(p)
  BY InStepFaces, Zenon
<1>4. Faces(t, ratchet[Peer(p)], p, Peer(p),
            generated[p], generated[Peer(p)], wire)
  BY <1>2, <1>3, SpentKeepsFaces, Zenon DEF SidesNow, FacesNow
<1>5. /\ t.dhs = ratchet[p].dhs /\ t.dhr = ratchet[p].dhr
      /\ t.ckr = ratchet[p].ckr /\ t.nr = ratchet[p].nr
      /\ t.mkskipped = ratchet[p].mkskipped
  BY <1>2 DEF Spent, SameReceiving
<1> QED
  BY <1>1, <1>4, <1>5, QuietKeepsStep, Zenon

\* decrypt leaves the state alone when it fails.
LEMMA DecryptFailsKeepsStep ==
    ASSUME IInv, NEW p \in Party, NEW h, NEW c, DecryptFails(p, h, c)
    PROVE  InStep'
<1>1. /\ ratchet' = [ratchet EXCEPT ![p] = ratchet[p]]
      /\ generated' = generated /\ wire' = wire /\ delivered' = delivered
  BY ZenonT(40) DEF DecryptFails, decrypt
<1>2. FacesNow(p)
  BY InStepFaces, Zenon
<1>3. Faces(ratchet[p], ratchet[Peer(p)], p, Peer(p),
            generated[p], generated[Peer(p)], wire)
  BY <1>2, Zenon DEF FacesNow
<1> QED
  BY <1>1, <1>3, QuietKeepsStep, Zenon

LEMMA EncryptKeepsStep ==
    ASSUME IInv, NEW p \in Party, Encrypt(p)
    PROVE  InStep'
<1> DEFINE q == Peer(p)
           st == ratchet[p]
           s == ratchet_send_key(st)
           h == Header(st.dhs, st.pn, st.ns)
           c == seal(s.mk, concat_ad(Ad, h), sent[p] + 1)
           x == [from |-> p, header |-> h, ct |-> c]
           t == s.st
<1>1. /\ s.err = "ok" /\ ratchet' = [ratchet EXCEPT ![p] = t]
      /\ wire' = wire \cup {x}
      /\ generated' = generated /\ delivered' = delivered
  BY DEF Encrypt, encrypt
<1>2. s.mk = st.cks /\ Advanced(st, t)
  BY <1>1, SendFacts
<1>3. /\ h.dh = st.dhs /\ h.pn = st.pn /\ h.n = st.ns
      /\ c.mk = s.mk /\ c.ad = concat_ad(Ad, h) /\ c.pt = sent[p] + 1
  BY DEF Header, seal
<1>4. DOMAIN ratchet = Party /\ q \in Party /\ q /= p
  BY PeerOfParty DEF IInv, Inv, TypeOK
<1> HIDE DEF t, s, h, c, q
<1>5. x.from = p /\ x.header = h /\ x.ct = c
  OBVIOUS
<1> HIDE DEF x
<1>6. /\ x.header.dh = st.dhs /\ x.header.pn = st.pn /\ x.header.n = st.ns
      /\ x.ct.mk = st.cks /\ x.ct.ad = concat_ad(Ad, x.header)
      /\ x.ct.pt = sent[p] + 1
  BY <1>2, <1>3, <1>5
<1>7. \A m \in wire : m.from = p => m.ct.pt < x.ct.pt
  <2>1. SUFFICES ASSUME NEW m \in wire, m.from = p
                 PROVE  m.ct.pt < x.ct.pt
    OBVIOUS
  <2>2. m.ct.pt \in 1 .. MaxSent /\ m.ct.pt <= sent[p]
    BY <2>1, MessageParts DEF IInv
  <2>3. sent[p] \in Nat
    BY MaxSentAssumption DEF IInv, Inv, TypeOK
  <2> QED
    BY <1>6, <2>2, <2>3
<1>8. /\ SidesNow(p) /\ FacesNow(p) /\ InOrder(wire)
      /\ \A y \in wire : y.from = q =>
            Found(st, y, ratchet[q].dhs, delivered[p][y.ct.pt])
      /\ \A y \in wire : y.from = p =>
            Found(ratchet[q], y, st.dhs, delivered[q][y.ct.pt])
  BY InStepFaces, Zenon DEF q
<1> HIDE DEF st
<1>9. /\ Faces(t, ratchet[q], p, q, generated[p], generated[q], wire \cup {x})
      /\ InOrder(wire \cup {x})
      /\ NotReached(ratchet[q], x, t.dhs)
  <2>1. /\ Sides(st, ratchet[q], p, q, generated[p], generated[q], wire)
        /\ Faces(st, ratchet[q], p, q, generated[p], generated[q], wire)
    BY <1>8, Zenon DEF SidesNow, FacesNow, q, st
  <2> QED
    BY <1>2, <1>5, <1>6, <1>7, <1>8, <2>1, SendKeepsFaces, Zenon
<1>10. ratchet'[p] = t /\ ratchet'[q] = ratchet[q]
  BY <1>1, <1>4
<1>11. FacesNow(p)'
  BY <1>1, <1>9, <1>10 DEF FacesNow, q
<1>12. InOrder(wire')
  BY <1>1, <1>9
<1>13. \A y \in wire' : y.from \in Party
  BY <1>1, <1>5, MessageParts DEF IInv
<1>14. \A y, dhs, d : Found(st, y, dhs, d) => Found(t, y, dhs, d)
  <2>1. /\ t.dhr = st.dhr /\ t.ckr = st.ckr /\ t.nr = st.nr
        /\ t.mkskipped = st.mkskipped
    BY <1>2 DEF Advanced, SameReceiving
  <2> QED
    BY <2>1, Zenon DEF Found, NotReached
<1>15. t.dhs = st.dhs
  BY <1>2 DEF Advanced, SameReceiving
<1>16. \A y \in wire' : y.from = q =>
          Found(ratchet'[p], y, ratchet'[q].dhs, delivered'[p][y.ct.pt])
  BY <1>1, <1>4, <1>5, <1>8, <1>10, <1>14
<1>17. \A y \in wire' : y.from = p =>
          Found(ratchet'[q], y, ratchet'[p].dhs, delivered'[q][y.ct.pt])
  <2>1. Found(ratchet[q], x, t.dhs, delivered[q][x.ct.pt])
    BY <1>9, Zenon DEF Found
  <2> QED
    BY <1>1, <1>8, <1>10, <1>15, <2>1
<1> QED
  BY <1>11, <1>12, <1>13, <1>16, <1>17, InStepFromFaces, Zenon DEF q

------------------------------------------------------------------------------
(* decrypt *)

\* d counts the deliveries to a party before, and e after that of the message m.
Counted(d, e, m) ==
    /\ e[m.ct.pt] > 0
    /\ \A k \in 1 .. MaxSent : d[k] > 0 => e[k] > 0

\* The key of a message that was not delivered is in one of three places.
LEMMA WhereTheKeyIs ==
    ASSUME IInv, NEW p \in Party, NEW m \in wire, m.from = Peer(p),
           delivered[p][m.ct.pt] = 0
    PROVE  \/ InStore(ratchet[p], m)
           \/ OnThis(ratchet[p], m)
           \/ OnNext(ratchet[p], m, ratchet[Peer(p)].dhs)
<1>1. Found(ratchet[p], m, ratchet[Peer(p)].dhs, delivered[p][m.ct.pt])
  BY InStepFaces, Zenon
<1>2. m.header.n \in Nat /\ ratchet[p].nr \in Nat
  BY MessageParts, StateParts, Zenon DEF IInv, IsState
<1> QED
  BY <1>1, <1>2 DEF Found, NotReached, InStore, OnThis, OnNext

LEMMA WhatReceiveDoes ==
    ASSUME IInv, NEW p \in Party, NEW m \in wire, m.from = Peer(p),
           delivered[p][m.ct.pt] = 0,
           ratchet_receive_key(ratchet[p], m.header, Fresh(p)).err = "ok"
    PROVE  Received(ratchet[p],
                    ratchet_receive_key(ratchet[p], m.header, Fresh(p)).st,
                    m, ratchet[Peer(p)].dhs, Fresh(p))
<1> DEFINE q == Peer(p)
           st == ratchet[p]
           sq == ratchet[q]
           r == ratchet_receive_key(st, m.header, Fresh(p))
<1>1. r.err = "ok"
  OBVIOUS
<1>2. SidesNow(p) /\ FacesNow(p) /\ InOrder(wire)
  BY InStepFaces, Zenon
<1>3. /\ Sides(st, sq, p, q, generated[p], generated[q], wire)
      /\ Faces(st, sq, p, q, generated[p], generated[q], wire)
      /\ Stored(st, q, wire)
  BY <1>2, Zenon DEF SidesNow, FacesNow, Faces
<1>4. CASE InStore(st, m)
  <2>1. r = [err |-> "ok", st |-> TakeSkipped(st, Slot(m)), mk |-> m.ct.mk]
    BY <1>2, <1>3, <1>4, ReadFromStore, Zenon
  <2> HIDE DEF r
  <2>2. r.st = TakeSkipped(st, Slot(m))
    BY <2>1
  <2>3. Received(st, r.st, m, sq.dhs, Fresh(p))
    BY <1>4, <2>2, Zenon DEF Received
  <2> QED
    BY <2>3, Zenon DEF r
<1>5. CASE OnThis(st, m)
  <2>1. Passed(st, r.st, m.header.n, 1)
    <3>1. \/ /\ r.err = "ok" /\ r.mk = m.ct.mk
             /\ Passed(st, r.st, m.header.n, 1)
          \/ r.err = "LimitExceeded"
      BY <1>3, <1>5, ReadOnThis, Zenon
    <3> HIDE DEF r
    <3> QED
      BY <1>1, <3>1
  <2> QED
    BY <1>5, <2>1, Zenon DEF Received
<1>6. CASE OnNext(st, m, sq.dhs)
  <2>1. Opened(st, r.st, m.header, Fresh(p), m.ct.mk[1])
    <3>1. \/ /\ r.err = "ok" /\ r.mk = m.ct.mk
             /\ Opened(st, r.st, m.header, Fresh(p), m.ct.mk[1])
          \/ r.err = "LimitExceeded"
      BY <1>3, <1>6, ReadOnNext, Zenon
    <3> HIDE DEF r
    <3> QED
      BY <1>1, <3>1
  <2> QED
    BY <1>6, <2>1, Zenon DEF Received
<1> QED
  BY <1>4, <1>5, <1>6, WhereTheKeyIs, Zenon

LEMMA DecryptOutcome ==
    ASSUME IInv, NEW p \in Party, NEW m1 \in Incoming(p), NEW m \in Incoming(p),
           Decrypt(p, m1.header, m.ct)
    PROVE  /\ m \in wire /\ m.from = Peer(p)
           /\ Received(ratchet[p], ratchet'[p], m, ratchet[Peer(p)].dhs, Fresh(p))
           /\ ratchet'[Peer(p)] = ratchet[Peer(p)]
           /\ wire' = wire
           /\ ratchet'[p].dhs = ratchet[p].dhs => generated'[p] = generated[p]
           /\ ratchet'[p].dhs /= ratchet[p].dhs =>
                 generated'[p] = generated[p] + 1
           /\ generated'[Peer(p)] = generated[Peer(p)]
           /\ delivered'[Peer(p)] = delivered[Peer(p)]
           /\ Counted(delivered[p], delivered'[p], m)
<1> DEFINE st == ratchet[p]
           q == Peer(p)
           sq == ratchet[q]
           r == ratchet_receive_key(st, m.header, Fresh(p))
<1>1. /\ m1 \in wire /\ m \in wire /\ m1.from = q /\ m.from = q
      /\ q \in Party /\ q /= p
  BY PeerOfParty DEF Incoming
<1>2. Inv
  BY DEF IInv
<1>3. /\ delivered[p][m.ct.pt] = 0
      /\ ratchet' = [ratchet EXCEPT ![p] =
            ratchet_receive_key(st, m1.header, Fresh(p)).st]
  BY <1>2, DecryptParts
<1>4. /\ ratchet_receive_key(st, m1.header, Fresh(p)).err = "ok"
      /\ m.ct.ad = concat_ad(Ad, m1.header)
  BY ZenonT(40) DEF Decrypt, decrypt, open
<1>5. m.ct.ad = concat_ad(Ad, m.header)
  BY <1>1, Zenon DEF IInv, InStep, HeaderTrue
<1>6. m1.header = m.header
  BY <1>4, <1>5 DEF concat_ad
<1>7. r.err = "ok" /\ ratchet' = [ratchet EXCEPT ![p] = r.st]
  BY <1>3, <1>4, <1>6
<1>8. /\ DOMAIN ratchet = Party /\ generated \in [Party -> Nat]
      /\ delivered \in [Party -> [1 .. MaxSent -> Nat]]
  BY <1>2 DEF Inv, TypeOK
<1>9. ratchet'[p] = r.st /\ ratchet'[q] = sq
  BY <1>1, <1>7, <1>8
<1>10. Received(st, r.st, m, sq.dhs, Fresh(p))
  BY <1>1, <1>3, <1>7, WhatReceiveDoes, Zenon
<1>11. m.ct.pt \in 1 .. MaxSent
  BY <1>1, <1>2, MessageParts
<1>12. /\ wire' = wire
       /\ delivered' = [delivered EXCEPT ![p] =
             [delivered[p] EXCEPT ![m.ct.pt] = delivered[p][m.ct.pt] + 1]]
  BY Zenon DEF Decrypt
<1>13. generated' = IF r.st.dhs = st.dhs THEN generated
                    ELSE [generated EXCEPT ![p] = generated[p] + 1]
  <2>1. decrypt(st, m1.header, m.ct, Ad, Fresh(p)).st = r.st
    BY <1>6, ZenonT(40) DEF Decrypt, decrypt
  <2> QED
    BY <2>1, Zenon DEF Decrypt
<1> HIDE DEF r
<1>14. /\ ratchet'[p].dhs = st.dhs => generated'[p] = generated[p]
       /\ ratchet'[p].dhs /= st.dhs => generated'[p] = generated[p] + 1
       /\ generated'[q] = generated[q]
  BY <1>1, <1>8, <1>9, <1>13
<1>15. delivered'[q] = delivered[q]
  BY <1>1, <1>8, <1>12
<1>16. delivered'[p] = [delivered[p] EXCEPT ![m.ct.pt] = 1]
  BY <1>3, <1>8, <1>12
<1>17. Counted(delivered[p], delivered'[p], m)
  <2>1. DOMAIN delivered[p] = 1 .. MaxSent
    BY <1>8
  <2>2. /\ delivered'[p][m.ct.pt] = 1
        /\ \A k \in 1 .. MaxSent :
              k /= m.ct.pt => delivered'[p][k] = delivered[p][k]
    BY <1>11, <1>16, <2>1, Zenon
  <2>3. delivered'[p][m.ct.pt] > 0
    BY <2>2
  <2> QED
    BY <2>2, <2>3, Zenon DEF Counted
<1> QED
  BY <1>1, <1>9, <1>10, <1>12, <1>14, <1>15, <1>17

LEMMA DecryptKeepsStep ==
    ASSUME IInv, NEW p \in Party, NEW m1 \in Incoming(p), NEW m \in Incoming(p),
           Decrypt(p, m1.header, m.ct)
    PROVE  InStep'
<1> DEFINE q == Peer(p)
           st == ratchet[p]
           t == ratchet'[p]
           sq == ratchet[q]
<1>1. /\ SidesNow(p) /\ FacesNow(p) /\ InOrder(wire)
      /\ \A x \in wire : x.from = q =>
            Found(st, x, sq.dhs, delivered[p][x.ct.pt])
      /\ \A x \in wire : x.from = p =>
            Found(sq, x, st.dhs, delivered[q][x.ct.pt])
  BY InStepFaces, Zenon
<1>2. /\ m \in wire /\ m.from = q
      /\ Received(st, t, m, sq.dhs, Fresh(p))
      /\ ratchet'[q] = sq /\ wire' = wire
      /\ t.dhs = st.dhs => generated'[p] = generated[p]
      /\ t.dhs /= st.dhs => generated'[p] = generated[p] + 1
      /\ generated'[q] = generated[q] /\ delivered'[q] = delivered[q]
      /\ Counted(delivered[p], delivered'[p], m)
  BY DecryptOutcome, Zenon
<1>3. /\ Sides(st, sq, p, q, generated[p], generated[q], wire)
      /\ Faces(st, sq, p, q, generated[p], generated[q], wire)
  BY <1>1, Zenon DEF SidesNow, FacesNow
<1>4. Received(st, t, m, sq.dhs, DhKey(p, generated[p] + 1))
  BY <1>2, Zenon DEF Fresh
<1>5. q \in Party /\ q /= p
  BY PeerOfParty
<1> HIDE DEF q, st, t, sq
<1>6. /\ Faces(t, sq, p, q, generated'[p], generated[q], wire)
      /\ t.dhs = st.dhs \/ sq.dhr = st.dhs
      /\ StillFound(st, t, m, q, sq.dhs, wire)
  BY <1>2, <1>3, <1>4, ReceivedKeepsFaces
<1>7. FacesNow(p)'
  <2>1. Faces(t, ratchet'[q], p, q, generated'[p], generated'[q], wire')
    BY <1>2, <1>6
  <2> QED
    BY <2>1, Zenon DEF FacesNow, t, q
<1>8. \A x \in wire' : x.from \in Party
  BY <1>2, MessageParts DEF IInv
<1>9. \A x \in wire' : x.from = q =>
         Found(t, x, ratchet'[q].dhs, delivered'[p][x.ct.pt])
  <2>1. SUFFICES ASSUME NEW x \in wire, x.from = q
                 PROVE  Found(t, x, sq.dhs, delivered'[p][x.ct.pt])
    BY <1>2
  <2>2. x.ct.pt \in 1 .. MaxSent
    BY MessageParts DEF IInv
  <2>3. CASE Slot(x) = Slot(m)
    <3>1. x = m
      BY <1>1, <1>2, <2>1, <2>3, Zenon DEF InOrder
    <3> QED
      BY <1>2, <3>1, Zenon DEF Counted, Found
  <2>4. CASE Slot(x) /= Slot(m)
    <3>1. Found(t, x, sq.dhs, delivered[p][x.ct.pt])
      BY <1>1, <1>6, <2>1, <2>4, Zenon DEF StillFound
    <3>2. delivered[p][x.ct.pt] > 0 => delivered'[p][x.ct.pt] > 0
      BY <1>2, <2>2, Zenon DEF Counted
    <3> QED
      BY <3>1, <3>2, Zenon DEF Found
  <2> QED
    BY <2>3, <2>4
<1>10. \A x \in wire' : x.from = p =>
          Found(ratchet'[q], x, t.dhs, delivered'[q][x.ct.pt])
  <2>1. SUFFICES ASSUME NEW x \in wire, x.from = p
                 PROVE  Found(sq, x, t.dhs, delivered[q][x.ct.pt])
    BY <1>2
  <2>2. Found(sq, x, st.dhs, delivered[q][x.ct.pt])
    BY <1>1, <2>1
  <2> QED
    BY <1>6, <2>2, Zenon DEF Found, NotReached
<1>11. InOrder(wire')
  BY <1>1, <1>2
<1> QED
  BY <1>7, <1>8, <1>9, <1>10, <1>11, InStepFromFaces, Zenon DEF q, t

------------------------------------------------------------------------------
(* What was not delivered, counted *)

\* A message whose key is in the store was not delivered.
LEMMA StoredNotDelivered ==
    ASSUME IInv, NEW p \in Party, NEW x \in wire, x.from = Peer(p),
           InStore(ratchet[p], x)
    PROVE  delivered[p][x.ct.pt] = 0
<1> DEFINE st == ratchet[p]
           k == Slot(x)
<1>1. FacesNow(p) /\ InOrder(wire)
  BY InStepFaces, Zenon
<1>2. Stored(st, Peer(p), wire)
  BY <1>1, Zenon DEF FacesNow, Faces
<1>3. PICK y \in wire : y.from = Peer(p) /\ Slot(y) = k /\ st.mkskipped[k] = y.ct.mk
  BY <1>2, Zenon DEF Stored, InStore
<1>4. y = x
  BY <1>1, <1>3, Zenon DEF InOrder
<1>5. x.ct.mk \in ChainKeys /\ x.ct.pt \in 1 .. MaxSent
  BY MessageParts DEF IInv
<1>6. ~(delivered[p][x.ct.pt] > 0)
  <2>1. ~Apart(x.ct.mk, st.mkskipped[k])
    BY <1>3, <1>4, <1>5, BeforeOrder
  <2>2. ~Gone(st, x.ct.mk)
    BY <2>1, Zenon DEF Gone, InStore
  <2> QED
    BY <2>2, Zenon DEF IInv, Inv, KeysInOrder, DeliveredGone, Incoming
<1>7. delivered[p][x.ct.pt] \in Nat
  BY <1>5, Zenon DEF IInv, Inv, TypeOK
<1> QED
  BY <1>6, <1>7

\* Neither was one that the receiving chain has not reached.
LEMMA NotReachedNotDelivered ==
    ASSUME IInv, NEW p \in Party, NEW x \in wire, x.from = Peer(p),
           NotReached(ratchet[p], x, ratchet[Peer(p)].dhs)
    PROVE  delivered[p][x.ct.pt] = 0
<1> DEFINE st == ratchet[p]
           q == Peer(p)
           sq == ratchet[q]
<1>1. /\ x.ct.pt \in 1 .. MaxSent /\ x.ct.mk \in ChainKeys
      /\ x.header.n \in Nat
  BY MessageParts DEF IInv
<1>2. delivered[p][x.ct.pt] \in Nat
  BY <1>1, Zenon DEF IInv, Inv, TypeOK
<1>3. delivered[p][x.ct.pt] > 0 => st.ckr /= None /\ Before(x.ct.mk, st.ckr)
  BY Zenon DEF IInv, Inv, KeysInOrder, DeliveredGone, Gone, Incoming
<1>4. GoodState(st) /\ GoodState(sq) /\ st.nr \in Nat
  BY InvGood, StateParts, PeerOfParty, Zenon DEF IInv, IsState
<1>5. st.ckr /= None => st.ckr \in ChainKeys /\ Len(st.ckr[1]) < Len(st.rk)
  BY <1>4, Zenon DEF GoodState, StateOK, ChainsOrdered
<1>6. SidesNow(p) /\ FacesNow(p)
  BY InStepFaces, Zenon
<1>7. /\ Sides(st, sq, p, q, generated[p], generated[q], wire)
      /\ Faces(st, sq, p, q, generated[p], generated[q], wire)
  BY <1>6, Zenon DEF SidesNow, FacesNow
<1>8. st.rk \in RootKeys /\ st.dhs \in DhKeys /\ sq.dhs \in DhKeys
  BY <1>4, Zenon DEF GoodState, StateOK
<1> HIDE DEF st, q, sq
<1>9. CASE st.ckr /= None /\ x.header.dh = st.dhr /\ x.header.n >= st.nr
  <2>0. x.ct.mk = <<st.ckr[1], x.header.n>>
    BY <1>7, <1>9, ReceiversChain DEF q
  <2>1. st.ckr = <<st.ckr[1], st.nr>>
    BY <1>7, <1>9, ChainPosition
  <2>2. /\ x.ct.mk[1] = st.ckr[1] /\ x.ct.mk[2] = x.header.n
        /\ st.ckr[2] = st.nr
    BY <2>0, <2>1
  <2>3. Len(st.ckr[1]) \in Nat
    BY <1>5, <1>9, ChainKeyParts
  <2>4. ~Before(x.ct.mk, st.ckr)
    BY <1>1, <1>4, <1>9, <2>2, <2>3 DEF Before
  <2> QED
    BY <1>2, <1>3, <2>4
<1>10. CASE x.header.dh = sq.dhs /\ x.header.dh /= st.dhr
  <2>1. sq.rk = kdf_rk(st.rk, diffie_hellman(st.dhs, sq.dhs))
    BY <1>7, <1>10, PeerAhead, Zenon
  <2>2. x.ct.mk = <<sq.rk, x.header.n>>
    BY <1>7, <1>10, SendersChain DEF q
  <2>3. Len(x.ct.mk[1]) = Len(st.rk) + 1 /\ Len(st.rk) \in Nat
    BY <1>8, <2>1, <2>2, RootGrows
  <2>4. ~(st.ckr /= None /\ Before(x.ct.mk, st.ckr))
    <3>1. ASSUME st.ckr /= None
          PROVE  Len(st.ckr[1]) \in Nat /\ Len(st.ckr[1]) < Len(st.rk)
      BY <1>5, <3>1, ChainKeyParts
    <3> QED
      BY <2>3, <3>1 DEF Before
  <2> QED
    BY <1>2, <1>3, <2>4
<1> QED
  BY <1>9, <1>10, Zenon DEF NotReached, st, sq, q

\* A message of the peer in the slot k, sent before m, was not delivered to p.
Missing(p, m, k) ==
    \E x \in Incoming(p) : /\ Slot(x) = k
                           /\ x.ct.pt < m.ct.pt
                           /\ delivered[p][x.ct.pt] = 0

LEMMA FrontIsMissing ==
    ASSUME IInv, NEW p \in Party, NEW m, NEW k,
           InFront(ratchet[p], Peer(p), ratchet[Peer(p)].dhs, wire, m, k)
    PROVE  Missing(p, m, k)
<1>1. PICK x \in wire :
         /\ x.from = Peer(p) /\ Slot(x) = k /\ x.ct.pt < m.ct.pt
         /\ \/ InStore(ratchet[p], x)
            \/ NotReached(ratchet[p], x, ratchet[Peer(p)].dhs)
  BY Zenon DEF InFront
<1>2. delivered[p][x.ct.pt] = 0
  BY <1>1, StoredNotDelivered, NotReachedNotDelivered, Zenon
<1> QED
  BY <1>1, <1>2, Zenon DEF Missing, Incoming

\* There are at least as many missing messages as slots of missing messages.
LEMMA MissingCount ==
    ASSUME IInv, NEW p \in Party, NEW m \in Incoming(p), NEW S,
           \A k \in S : Missing(p, m, k)
    PROVE  /\ IsFiniteSet(S)
           /\ Cardinality(S) \in Nat /\ Cardinality(MissingBefore(p, m)) \in Nat
           /\ Cardinality(S) <= Cardinality(MissingBefore(p, m))
<1> DEFINE M == MissingBefore(p, m)
           T == {Slot(x) : x \in M}
           f == [x \in M |-> x.ct.pt]
           g == [x \in M |-> Slot(x)]
<1>1. /\ \A x \in M : x \in wire /\ x.from = Peer(p) /\ x.ct.pt \in 1 .. MaxSent
  BY MessageParts DEF MissingBefore, Incoming, IInv
<1>2. f \in Injection(M, 1 .. MaxSent)
  <2>1. \A x, y \in M : x.ct.pt = y.ct.pt => x = y
    BY <1>1 DEF IInv, Inv, KeysInOrder, WireOrdered
  <2> HIDE DEF M
  <2>2. f \in [M -> 1 .. MaxSent]
    BY <1>1
  <2> QED
    BY <2>1, <2>2 DEF Injection, IsInjective
<1>3. IsFiniteSet(1 .. MaxSent)
  BY FS_Interval, MaxSentAssumption
<1>4. IsFiniteSet(M)
  BY <1>2, <1>3, FS_Injection
<1>5. g \in Surjection(M, T)
  <2> HIDE DEF M
  <2> QED
    BY DEF Surjection
<1>6. IsFiniteSet(T) /\ Cardinality(T) <= Cardinality(M)
  BY <1>4, <1>5, FS_Surjection
<1>7. S \subseteq T
  BY DEF Missing, MissingBefore
<1>8. IsFiniteSet(S) /\ Cardinality(S) <= Cardinality(T)
  BY <1>6, <1>7, FS_Subset
<1>9. Cardinality(S) \in Nat /\ Cardinality(T) \in Nat /\ Cardinality(M) \in Nat
  BY <1>4, <1>6, <1>8, FS_CardinalityType
<1> QED
  BY <1>6, <1>8, <1>9

\* The slots of one chain from number a to below number b
Slots(d, a, b) == {<<d, i>> : i \in a .. b - 1}

LEMMA SlotsOfState ==
    ASSUME NEW st, NEW h, NEW n
    PROVE  /\ SkipSlots(st, n) = Slots(st.dhr, st.nr, n)
           /\ NewSlots(h, n) = Slots(h.dh, 0, n)
  BY DEF SkipSlots, NewSlots, Slots

LEMMA SlotsCount ==
    ASSUME NEW d, NEW a \in Nat, NEW b \in Nat, a <= b
    PROVE  IsFiniteSet(Slots(d, a, b)) /\ Cardinality(Slots(d, a, b)) = b - a
<1> DEFINE f == [i \in a .. b - 1 |-> <<d, i>>]
<1>1. IsFiniteSet(a .. b - 1) /\ Cardinality(a .. b - 1) = b - a
  <2>1. /\ IsFiniteSet(a .. b - 1)
        /\ Cardinality(a .. b - 1) = IF a > b - 1 THEN 0 ELSE (b - 1) - a + 1
    BY FS_Interval
  <2> QED
    BY <2>1
<1>2. f \in Bijection(a .. b - 1, Slots(d, a, b))
  <2>1. f \in Surjection(a .. b - 1, Slots(d, a, b))
    BY Zenon DEF Surjection, Slots
  <2>2. f \in Injection(a .. b - 1, Slots(d, a, b))
    BY DEF Injection, IsInjective, Slots
  <2> QED
    BY <2>1, <2>2 DEF Bijection
<1> QED
  BY <1>1, <1>2, FS_Bijection DEF ExistsBijection

\* A full store and the slot of one message more
LEMMA OneMore ==
    ASSUME IInv, NEW p \in Party, NEW m \in Incoming(p), NEW S, NEW k,
           \A j \in S : Missing(p, m, j), Missing(p, m, k), k \notin S,
           Cardinality(S) >= MaxSkip
    PROVE  Cardinality(MissingBefore(p, m)) > MaxSkip
<1>1. IsFiniteSet(S) /\ Cardinality(S) \in Nat
  BY MissingCount
<1>2. Cardinality(S \cup {k}) = Cardinality(S) + 1
  BY <1>1, FS_AddElement, Zenon
<1>3. \A j \in S \cup {k} : Missing(p, m, j)
  OBVIOUS
<1>4. /\ Cardinality(MissingBefore(p, m)) \in Nat
      /\ Cardinality(S \cup {k}) <= Cardinality(MissingBefore(p, m))
  BY <1>3, MissingCount
<1> QED
  BY <1>1, <1>2, <1>4, MaxSkipAssumption

\* So a limit is met only when too many messages are missing.
LEMMA ThisChainLimit ==
    ASSUME IInv, NEW p \in Party, NEW m \in Incoming(p),
           OnThis(ratchet[p], m), TooMany(ratchet[p], m.header.n)
    PROVE  Cardinality(MissingBefore(p, m)) > MaxSkip
<1> DEFINE st == ratchet[p]
           n == m.header.n
<1>1. m \in wire /\ m.from = Peer(p)
  BY DEF Incoming
<1>2. n \in Nat /\ st.nr \in Nat /\ st.nr <= n
  BY <1>1, MessageParts, StateParts, Zenon DEF OnThis, IInv, IsState
<1>3. /\ \A k \in DOMAIN st.mkskipped : Missing(p, m, k)
      /\ \A i \in Nat : st.nr <= i /\ i < n => Missing(p, m, <<st.dhr, i>>)
      /\ \A i \in Nat : st.nr <= i => <<st.dhr, i>> \notin DOMAIN st.mkskipped
  <2>1. SidesNow(p) /\ FacesNow(p) /\ InOrder(wire)
    BY InStepFaces, Zenon
  <2>2. /\ \A k \in DOMAIN st.mkskipped :
              InFront(st, Peer(p), ratchet[Peer(p)].dhs, wire, m, k)
        /\ \A i \in Nat : st.nr <= i /\ i < n =>
              InFront(st, Peer(p), ratchet[Peer(p)].dhs, wire, m, <<st.dhr, i>>)
    BY <1>1, <2>1, ThisChainInFront, Zenon DEF SidesNow, FacesNow
  <2>3. \A i \in Nat : st.nr <= i => <<st.dhr, i>> \notin DOMAIN st.mkskipped
    BY <2>1, StoreIsPassed, Zenon DEF SidesNow, FacesNow
  <2> QED
    BY <2>2, <2>3, FrontIsMissing, Zenon
<1>4. st.nr + MaxSkip < n \/ StoreFull(st, n)
  BY DEF TooMany
<1> HIDE DEF st, n
<1>5. \A i \in 0 .. n : SkipSlots(st, i) = Slots(st.dhr, st.nr, i)
  BY SlotsOfState
<1>6. \A i \in 0 .. n : \A k \in SkipSlots(st, i) :
         \E j \in Nat : st.nr <= j /\ j < i /\ k = <<st.dhr, j>>
  BY <1>2 DEF SkipSlots
<1>7. CASE st.nr + MaxSkip < n
  <2>1. \A k \in Slots(st.dhr, st.nr, n) : Missing(p, m, k)
    BY <1>2, <1>3, <1>5, <1>6
  <2>2. Cardinality(Slots(st.dhr, st.nr, n)) = n - st.nr
    BY <1>2, SlotsCount
  <2>3. /\ Cardinality(MissingBefore(p, m)) \in Nat
        /\ Cardinality(Slots(st.dhr, st.nr, n)) <= Cardinality(MissingBefore(p, m))
    BY <2>1, MissingCount
  <2> QED
    BY <1>2, <1>7, <2>2, <2>3, MaxSkipAssumption
<1>8. CASE StoreFull(st, n)
  <2>1. PICK i \in st.nr .. n - 1 :
          Cardinality(DOMAIN st.mkskipped \cup SkipSlots(st, i)) >= MaxSkip
    BY <1>8, Zenon DEF StoreFull
  <2>2. i \in Nat /\ i \in 0 .. n /\ st.nr <= i /\ i < n
    BY <1>2
  <2>3. \A k \in DOMAIN st.mkskipped \cup SkipSlots(st, i) : Missing(p, m, k)
    BY <1>2, <1>3, <1>6, <2>2
  <2>4. Missing(p, m, <<st.dhr, i>>)
    BY <1>3, <2>2
  <2>5. <<st.dhr, i>> \notin DOMAIN st.mkskipped \cup SkipSlots(st, i)
    BY <1>3, <1>6, <2>2
  <2> QED
    BY <2>1, <2>3, <2>4, <2>5, OneMore, Zenon
<1> QED
  BY <1>4, <1>7, <1>8

LEMMA NextChainLimit ==
    ASSUME IInv, NEW p \in Party, NEW m \in Incoming(p),
           OnNext(ratchet[p], m, ratchet[Peer(p)].dhs),
           \/ ratchet[p].ckr /= None /\ TooMany(ratchet[p], m.header.pn)
           \/ TooManyNew(ratchet[p], m.header)
    PROVE  Cardinality(MissingBefore(p, m)) > MaxSkip
<1> DEFINE st == ratchet[p]
           h == m.header
<1>1. m \in wire /\ m.from = Peer(p)
  BY DEF Incoming
<1>2. SidesNow(p) /\ FacesNow(p) /\ InOrder(wire)
  BY InStepFaces, Zenon
<1>3. /\ BeforeChain(st, h)
      /\ \A k \in DOMAIN st.mkskipped :
            InFront(st, Peer(p), ratchet[Peer(p)].dhs, wire, m, k)
      /\ st.ckr /= None =>
            \A i \in Nat : st.nr <= i /\ i < h.pn =>
               InFront(st, Peer(p), ratchet[Peer(p)].dhs, wire, m, <<st.dhr, i>>)
      /\ \A i \in Nat : i < h.n =>
            InFront(st, Peer(p), ratchet[Peer(p)].dhs, wire, m, <<h.dh, i>>)
      /\ \A i \in Nat : <<h.dh, i>> \notin DOMAIN st.mkskipped
  BY <1>2, <1>1, NextChainInFront, Zenon DEF SidesNow, FacesNow
<1>4. \A i \in Nat : st.nr <= i => <<st.dhr, i>> \notin DOMAIN st.mkskipped
  BY <1>2, StoreIsPassed, Zenon DEF SidesNow, FacesNow
<1>5. /\ h.n \in Nat /\ h.pn \in Nat /\ st.nr \in Nat
  BY <1>3 DEF BeforeChain, IsState
<1>6. st.ckr /= None => st.nr <= h.pn
  BY <1>3 DEF BeforeChain
<1>7. /\ \A k \in DOMAIN st.mkskipped : Missing(p, m, k)
      /\ st.ckr /= None =>
            \A i \in Nat : st.nr <= i /\ i < h.pn => Missing(p, m, <<st.dhr, i>>)
      /\ \A i \in Nat : i < h.n => Missing(p, m, <<h.dh, i>>)
      /\ \A i \in Nat : st.nr <= i => <<st.dhr, i>> \notin DOMAIN st.mkskipped
      /\ \A i \in Nat : <<h.dh, i>> \notin DOMAIN st.mkskipped
      /\ h.dh /= st.dhr
  <2>1. ASSUME NEW k \in DOMAIN st.mkskipped
        PROVE  Missing(p, m, k)
    BY <1>3, FrontIsMissing, Zenon
  <2>2. ASSUME st.ckr /= None, NEW i \in Nat, st.nr <= i, i < h.pn
        PROVE  Missing(p, m, <<st.dhr, i>>)
    BY <1>3, <2>2, FrontIsMissing, Zenon
  <2>3. ASSUME NEW i \in Nat, i < h.n
        PROVE  Missing(p, m, <<h.dh, i>>)
    BY <1>3, <2>3, FrontIsMissing, Zenon
  <2>4. h.dh /= st.dhr
    BY Zenon DEF OnNext
  <2> HIDE DEF st, h
  <2> QED
    BY <1>3, <1>4, <2>1, <2>2, <2>3, <2>4, Zenon
<1> HIDE DEF st, h
<1>8. \A i \in Nat : \A k \in SkipSlots(st, i) :
         \E j \in Nat : st.nr <= j /\ j < i /\ k = <<st.dhr, j>>
  BY <1>5 DEF SkipSlots
<1>9. \A i \in Nat : \A k \in NewSlots(h, i) :
         \E j \in Nat : j < i /\ k = <<h.dh, j>>
  BY DEF NewSlots
<1>10. \A k \in OldSlots(st, h) : k[1] = st.dhr /\ Missing(p, m, k)
  BY <1>5, <1>7, <1>8 DEF OldSlots
<1>11. CASE st.ckr /= None /\ st.nr + MaxSkip < h.pn
  <2>1. SkipSlots(st, h.pn) = Slots(st.dhr, st.nr, h.pn)
    BY SlotsOfState
  <2>2. \A k \in SkipSlots(st, h.pn) : Missing(p, m, k)
    BY <1>5, <1>7, <1>8, <1>11
  <2>3. Cardinality(SkipSlots(st, h.pn)) = h.pn - st.nr
    BY <1>5, <1>6, <1>11, <2>1, SlotsCount
  <2>4. /\ Cardinality(MissingBefore(p, m)) \in Nat
        /\ Cardinality(SkipSlots(st, h.pn)) <= Cardinality(MissingBefore(p, m))
    BY <2>2, MissingCount
  <2> QED
    BY <1>5, <1>11, <2>3, <2>4, MaxSkipAssumption
<1>12. CASE st.ckr /= None /\ StoreFull(st, h.pn)
  <2>1. PICK i \in st.nr .. h.pn - 1 :
          Cardinality(DOMAIN st.mkskipped \cup SkipSlots(st, i)) >= MaxSkip
    BY <1>12, Zenon DEF StoreFull
  <2>2. i \in Nat /\ st.nr <= i /\ i < h.pn
    BY <1>5
  <2>3. \A k \in DOMAIN st.mkskipped \cup SkipSlots(st, i) : Missing(p, m, k)
    BY <1>5, <1>7, <1>8, <1>12, <2>2
  <2>4. Missing(p, m, <<st.dhr, i>>)
    BY <1>7, <1>12, <2>2
  <2>5. <<st.dhr, i>> \notin DOMAIN st.mkskipped \cup SkipSlots(st, i)
    BY <1>7, <1>8, <2>2
  <2> QED
    BY <2>1, <2>3, <2>4, <2>5, OneMore, Zenon
<1>13. CASE MaxSkip < h.n
  <2>1. NewSlots(h, h.n) = Slots(h.dh, 0, h.n)
    BY SlotsOfState
  <2>2. \A k \in NewSlots(h, h.n) : Missing(p, m, k)
    BY <1>5, <1>7, <1>9
  <2>3. Cardinality(NewSlots(h, h.n)) = h.n - 0
    BY <1>5, <2>1, SlotsCount
  <2>4. /\ Cardinality(MissingBefore(p, m)) \in Nat
        /\ Cardinality(NewSlots(h, h.n)) <= Cardinality(MissingBefore(p, m))
    BY <2>2, MissingCount
  <2> QED
    BY <1>5, <1>13, <2>3, <2>4, MaxSkipAssumption
<1>14. ASSUME NEW i \in 0 .. h.n - 1,
              Cardinality(DOMAIN st.mkskipped \cup OldSlots(st, h)
                             \cup NewSlots(h, i)) >= MaxSkip
       PROVE  Cardinality(MissingBefore(p, m)) > MaxSkip
  <2> DEFINE S == DOMAIN st.mkskipped \cup OldSlots(st, h) \cup NewSlots(h, i)
  <2>1. i \in Nat /\ i < h.n
    BY <1>5
  <2>2. \A k \in S : Missing(p, m, k)
    BY <1>5, <1>7, <1>9, <1>10, <2>1
  <2>3. Missing(p, m, <<h.dh, i>>)
    BY <1>7, <2>1
  <2>4. <<h.dh, i>> \notin S
    <3>1. <<h.dh, i>> \notin DOMAIN st.mkskipped
      BY <1>7, <2>1
    <3>2. <<h.dh, i>> \notin OldSlots(st, h)
      BY <1>7, <1>10
    <3>3. <<h.dh, i>> \notin NewSlots(h, i)
      BY <1>9, <2>1
    <3> QED
      BY <3>1, <3>2, <3>3
  <2> HIDE DEF S
  <2> QED
    BY <1>14, <2>2, <2>3, <2>4, OneMore, Zenon DEF S
<1> QED
  BY <1>11, <1>12, <1>13, <1>14, Zenon DEF TooMany, TooManyNew, st, h

\* In a state in which the two sides are in step, every message that is still
\* to be delivered can be read, up to the limits.
LEMMA InStepReadable ==
    ASSUME IInv
    PROVE  UndeliveredStaysReadable
<1> SUFFICES ASSUME NEW p \in Party, NEW m \in Incoming(p),
                    delivered[p][m.ct.pt] = 0
             PROVE  LET r == ratchet_receive_key(ratchet[p], m.header, Fresh(p))
                    IN  \/ r.err = "ok" /\ r.mk = m.ct.mk
                        \/ /\ r.err = "LimitExceeded"
                           /\ \/ Cardinality(MissingBefore(p, m)) > MaxSkip
                              \/ CounterExhausted(p)
  BY Zenon DEF UndeliveredStaysReadable
<1> DEFINE r == ratchet_receive_key(ratchet[p], m.header, Fresh(p))
<1>1. m \in wire /\ m.from = Peer(p)
  BY DEF Incoming
<1>2. SidesNow(p) /\ FacesNow(p) /\ InOrder(wire)
  BY InStepFaces, Zenon
<1>3. Stored(ratchet[p], Peer(p), wire)
  BY <1>2, Zenon DEF FacesNow, Faces
<1>4. CASE InStore(ratchet[p], m)
  <2>1. r = [err |-> "ok", st |-> TakeSkipped(ratchet[p], Slot(m)), mk |-> m.ct.mk]
    BY <1>4, <1>1, <1>2, <1>3, ReadFromStore, Zenon
  <2> HIDE DEF r
  <2>2. r.err = "ok" /\ r.mk = m.ct.mk
    BY <2>1
  <2> QED
    BY <2>2, Zenon DEF r
<1>5. CASE OnThis(ratchet[p], m)
  <2>1. \/ r.err = "ok" /\ r.mk = m.ct.mk
        \/ /\ r.err = "LimitExceeded"
           /\ \/ ratchet[p].nr + MaxSkip > U32Max
              \/ TooMany(ratchet[p], m.header.n)
    BY <1>5, <1>1, <1>2, ReadOnThis, Zenon DEF SidesNow, FacesNow
  <2>2. TooMany(ratchet[p], m.header.n) => Cardinality(MissingBefore(p, m)) > MaxSkip
    BY <1>5, ThisChainLimit
  <2> QED
    BY <2>1, <2>2, Zenon DEF CounterExhausted
<1>6. CASE OnNext(ratchet[p], m, ratchet[Peer(p)].dhs)
  <2>1. \/ r.err = "ok" /\ r.mk = m.ct.mk
        \/ /\ r.err = "LimitExceeded"
           /\ \/ ratchet[p].nr + MaxSkip > U32Max
              \/ ratchet[p].ckr /= None /\ TooMany(ratchet[p], m.header.pn)
              \/ TooManyNew(ratchet[p], m.header)
    BY <1>6, <1>1, <1>2, ReadOnNext, Zenon DEF SidesNow, FacesNow
  <2>2. \/ ratchet[p].ckr /= None /\ TooMany(ratchet[p], m.header.pn)
        \/ TooManyNew(ratchet[p], m.header)
        => Cardinality(MissingBefore(p, m)) > MaxSkip
    BY <1>6, NextChainLimit
  <2> QED
    BY <2>1, <2>2, Zenon DEF CounterExhausted
<1> QED
  BY <1>4, <1>5, <1>6, <1>1, WhereTheKeyIs, Zenon

------------------------------------------------------------------------------
(* The theorems *)

LEMMA InitInStep ==
    ASSUME Init
    PROVE  InStep
<1> DEFINE a == ratchet[Alice]
           b == ratchet[Bob]
           da == DhKey(Alice, 0)
           db == DhKey(Bob, 0)
           root == kdf_rk(<<Sk>>, diffie_hellman(da, db))
<1>1. /\ a = init_alice(<<Sk>>, da, db) /\ b = init_bob(<<Sk>>, db)
      /\ generated[Alice] = 0 /\ generated[Bob] = 0 /\ wire = {}
  BY PartyAssumption DEF Init, Party
<1>2. /\ a.dhs = da /\ a.dhr = db /\ a.rk = root /\ a.cks = <<root, 0>>
      /\ a.ckr = None /\ a.ns = 0 /\ a.nr = 0 /\ a.pn = 0
      /\ a.mkskipped = NoSkippedKeys
  BY <1>1 DEF init_alice, ChainKey
<1>3. /\ b.dhs = db /\ b.dhr = None /\ b.rk = <<Sk>> /\ b.cks = None
      /\ b.ckr = None /\ b.ns = 0 /\ b.nr = 0 /\ b.pn = 0
      /\ b.mkskipped = NoSkippedKeys
  BY <1>1 DEF init_bob
<1>4. DOMAIN NoSkippedKeys = {}
  BY DEF NoSkippedKeys
<1>5. Peer(Alice) = Bob /\ Alice \in Party /\ \A p \in Party : p = Alice \/ p = Bob
  BY DEF Peer, Party
<1>6. da /= None
  <2>1. \A p : <<p, 0>> /= <<>>
    OBVIOUS
  <2> QED
    BY <2>1 DEF DhKey, None
<1> HIDE DEF a, b, root
<1>7. Complete(wire, Alice, 0, 0) /\ Complete(wire, Alice, 0 - 1, 0)
      /\ Complete(wire, Bob, 0, 0) /\ Complete(wire, Bob, 0 - 1, 0)
  BY DEF Complete
<1>8. a.cks[2] = 0
  BY <1>2
<1>9. Sender(a, Alice, 0, wire) /\ Sender(b, Bob, 0, wire)
  BY <1>2, <1>3, <1>7, <1>8, Zenon DEF Sender
<1>10. Ahead(a, b, Alice, 0, wire)
  BY <1>1, <1>2, <1>3, <1>6, Zenon DEF Ahead, root
<1>11. /\ \A p \in Party : Sender(ratchet[p], p, generated[p], wire)
       /\ \A p \in Party : Stored(ratchet[p], Peer(p), wire)
  BY <1>1, <1>2, <1>3, <1>4, <1>5, <1>9, Zenon DEF Stored, a, b
<1>12. \E p \in Party : Ahead(ratchet[p], ratchet[Peer(p)], p, generated[p], wire)
  BY <1>1, <1>5, <1>10, Zenon DEF a, b
<1> QED
  BY <1>1, <1>11, <1>12, Zenon DEF InStep, SentInOrder, Incoming

LEMMA NextKeepsStep ==
    ASSUME IInv, [Next]_vars
    PROVE  IInv'
<1>1. Inv'
  BY NextKeepsInv DEF IInv
<1>2. CASE UNCHANGED vars
  <2>1. /\ ratchet' = ratchet /\ generated' = generated /\ wire' = wire
        /\ sent' = sent /\ delivered' = delivered
    BY <1>2 DEF vars
  <2>2. InStep'
    BY <2>1, ZenonT(40) DEF IInv, InStep, SentInOrder, Incoming
  <2> QED
    BY <1>1, <2>2 DEF IInv
<1>3. ASSUME NEW p \in Party, Encrypt(p)
      PROVE  InStep'
  BY <1>3, EncryptKeepsStep
<1>4. ASSUME NEW p \in Party, EncryptFails(p)
      PROVE  InStep'
  BY <1>4, EncryptFailsKeepsStep
<1>5. ASSUME NEW p \in Party, NEW m1 \in Incoming(p), NEW m2 \in Incoming(p),
             Decrypt(p, m1.header, m2.ct)
      PROVE  InStep'
  BY <1>5, DecryptKeepsStep
<1>6. ASSUME NEW p \in Party, NEW m1 \in Incoming(p), NEW m2 \in Incoming(p),
             DecryptFails(p, m1.header, m2.ct)
      PROVE  InStep'
  BY <1>6, DecryptFailsKeepsStep
<1>7. CASE Next
  <2>1. InStep'
    BY <1>3, <1>4, <1>5, <1>6, <1>7, SMTT(40) DEF Next
  <2> QED
    BY <1>1, <2>1 DEF IInv
<1> QED
  BY <1>2, <1>7

\* In every behaviour the keys stay in order and the two sides in step: every
\* message still to be delivered has its key in MKSKIPPED, or on the receiving
\* chain, or on the one the next dh_ratchet opens.
THEOREM StaysInStep == Spec => []IInv
<1>1. Init => IInv
  BY InitInv, InitInStep DEF IInv
<1>2. IInv /\ [Next]_vars => IInv'
  BY NextKeepsStep
<1> QED
  BY <1>1, <1>2, PTL DEF Spec

\* Whatever was lost, delayed, reordered, duplicated or damaged, decrypt finds
\* the key of every message that was not delivered yet, unless more than
\* max_skip earlier messages are missing or the u32 receive counter is about to
\* overflow.
THEOREM AlwaysReadable == Spec => []UndeliveredStaysReadable
<1>1. IInv => UndeliveredStaysReadable
  BY InStepReadable
<1> QED
  BY <1>1, StaysInStep, PTL

=============================================================================
