---------------------------- MODULE RatchetPair ----------------------------
(***************************************************************************)
(* What the states of the two sides of a Double Ratchet session have to do *)
(* with each other and with the messages sent between them                 *)
(* (src/ratchet/mod.rs): the vocabulary of the invariant InStep of         *)
(* DoubleRatchet.                                                          *)
(***************************************************************************)
EXTENDS DoubleRatchetState

CONSTANT Ad     \* the caller's associated data

\* The i-th ratchet key pair of p, by its public key; Bob's key 0 is his
\* signed prekey.
DhKey(p, i) == <<p, i>>

\* The place of a message among those of its sender
Slot(m) == <<m.header.dh, m.header.n>>

\* Slots in the order in which a sender uses them
Earlier(j, k) ==
    \/ j[1][2] < k[1][2]
    \/ j[1][2] = k[1][2] /\ j[2] < k[2]

\* What the header of m tells about the state st of its sender, g key pairs on
HeaderTrue(m, st, g) ==
    /\ m.header.dh[1] = m.from
    /\ m.header.dh[2] <= g
    /\ m.header.n = m.ct.mk[2]
    /\ m.header.n < U32Max
    /\ m.ct.ad = concat_ad(Ad, m.header)
    /\ m.header.dh[2] = g =>
          /\ m.header.n < st.ns
          /\ m.header.pn = st.pn
          /\ m.ct.mk[1] = st.rk
    /\ m.header.dh[2] = g - 1 => m.header.n < st.pn

\* W holds a message of p for each of the first n numbers under key pair i
Complete(W, p, i, n) ==
    \A k \in 0 .. n - 1 :
        \E m \in W : m.from = p /\ Slot(m) = <<DhKey(p, i), k>>

\* The sending chain of p has the position of the next message; every message
\* of this chain and of the one before it was sent.
Sender(st, p, g, W) ==
    /\ st.dhs = DhKey(p, g)
    /\ st.cks = None => st.ns = 0
    /\ st.cks /= None /\ st.ns < U32Max => st.cks[2] = st.ns
    /\ Complete(W, p, g, st.ns)
    /\ Complete(W, p, g - 1, st.pn)

\* The state sa of party a, with g key pairs, is one DH step ahead of the
\* peer's state sb: a receives on the peer's sending chain, and the peer on the
\* sending chain a had before.
Ahead(sa, sb, a, g, W) ==
    /\ sa.rk = kdf_rk(sb.rk, diffie_hellman(sa.dhs, sb.dhs))
    /\ sa.dhr = sb.dhs
    /\ sa.ckr = None => sb.cks = None
    /\ sa.ckr /= None => sa.ckr = <<sb.rk, sa.nr>> /\ sa.nr <= sb.ns
    /\ sb.dhr /= sa.dhs
    /\ sb.ckr = None => /\ sa.pn = 0
                        /\ \A m \in W : m.from = a => m.header.dh = sa.dhs
    /\ sb.ckr /= None =>
          /\ sb.dhr = DhKey(a, g - 1)
          /\ sb.ckr[2] = sb.nr
          /\ sb.nr <= sa.pn
          /\ \A m \in W : m.from = a /\ m.header.dh = sb.dhr =>
                              m.ct.mk[1] = sb.ckr[1]

\* Every stored key is the key of a message from q that the receiving chain has
\* passed.
Stored(st, q, W) ==
    \A k \in DOMAIN st.mkskipped :
        /\ Earlier(k, <<st.dhr, st.nr>>)
        /\ \E m \in W : /\ m.from = q
                         /\ Slot(m) = k
                         /\ st.mkskipped[k] = m.ct.mk

\* The receiving chain has not reached m, sent under the peer's key pair dhs
NotReached(st, m, dhs) ==
    \/ st.ckr /= None /\ m.header.dh = st.dhr /\ m.header.n >= st.nr
    \/ m.header.dh = dhs /\ m.header.dh /= st.dhr

=============================================================================
