----------------------------- MODULE FfiProofs -----------------------------
(***************************************************************************)
(* The C interface, for every number of engines, sessions and messages,    *)
(* every width of the handle counter and every set of plaintext and buffer *)
(* lengths.                                                                *)
(*                                                                         *)
(* HandleNamesOneEngine is not inductive: that alloc hands out a fresh     *)
(* number needs every number handed out to be below the counter, whether   *)
(* its engine still exists or not (HInv).                                  *)
(*                                                                         *)
(* LostOnlyOversize and SentIsReturned are inductive for a session that    *)
(* calls reach through an id the interface has returned (TInv).            *)
(***************************************************************************)
EXTENDS Ffi, TLAPS

\* Every number handed out is below the counter; the table is a function.
HandlesBelowNext ==
    /\ next \in Nat
    /\ \A p \in handles : p[1] \in Nat /\ p[1] < next
    /\ \A p \in handles : p = <<p[1], p[2]>>
    /\ engines = [h \in DOMAIN engines |-> engines[h]]

HInv == HandlesBelowNext /\ HandleNamesOneEngine

\* An operation of an engine leaves its identity alone: r is an error, or the
\* engine it commits is the one it was given as far as the table can tell.
SameEngine(e, r) == r.err = "Ok" => r.e.id = e.id

(***************************************************************************)
(* No operation of an engine changes its identity, whatever its arguments. *)
(***************************************************************************)
LEMMA OperationsKeepIdentity ==
    ASSUME NEW e
    PROVE  /\ \A count : \A r \in generate_public_prekey_bundle(e, count) :
                 r.err = "Ok" /\ SameEngine(e, r)
           /\ \A b, len : SameEngine(e, establish_outbound_session(e, b, len))
           /\ \A p : SameEngine(e, process_inbound_session(e, p))
           /\ \A sid, len : SameEngine(e, encrypt(e, sid, len))
           /\ \A sid, m : SameEngine(e, decrypt(e, sid, m))
           /\ \A sid : SameEngine(e, delete_session(e, sid))
<1>1. \A count : \A r \in generate_public_prekey_bundle(e, count) :
         r.err = "Ok" /\ SameEngine(e, r)
  BY DEF generate_public_prekey_bundle, SameEngine, Ok, WithPool, EngineOf
<1>2. \A b, len : SameEngine(e, establish_outbound_session(e, b, len))
  BY DEF establish_outbound_session, SameEngine, Ok, AddSession, EngineOf
<1>3. \A p : SameEngine(e, process_inbound_session(e, p))
  BY DEF process_inbound_session, SameEngine, Ok, Err, AddSession, WithPool, EngineOf
<1>4. \A sid, len : SameEngine(e, encrypt(e, sid, len))
  BY DEF encrypt, SameEngine, Ok, Err, WithSessions, EngineOf
<1>5. \A sid, m : SameEngine(e, decrypt(e, sid, m))
  BY DEF decrypt, SameEngine, Ok, Err, WithSessions, EngineOf
<1>6. \A sid : SameEngine(e, delete_session(e, sid))
  BY DEF delete_session, SameEngine, Ok, Err, WithSessions, EngineOf
<1>7. QED BY <1>1, <1>2, <1>3, <1>4, <1>5, <1>6

(***************************************************************************)
(* Committing an operation's result keeps the invariant: no handle is      *)
(* given out, and the engine behind each handle is the same one.           *)
(***************************************************************************)
LEMMA CommitKeeps ==
    ASSUME HInv, NEW h, NEW r, Commit(h, r),
           h \in DOMAIN engines => SameEngine(engines[h], r),
           h \notin DOMAIN engines => r.err /= "Ok",
           UNCHANGED <<next, handles>>
    PROVE  HInv'
<1>1. CASE r.err /= "Ok"
  BY <1>1 DEF Commit, HInv, HandlesBelowNext, HandleNamesOneEngine
<1>2. CASE r.err = "Ok"
  <2>1. /\ h \in DOMAIN engines
        /\ engines' = [engines EXCEPT ![h] = r.e]
        /\ r.e.id = engines[h].id
    BY <1>2 DEF Commit, SameEngine
  <2>2. DOMAIN engines' = DOMAIN engines
    BY <2>1
  <2>3. \A k \in DOMAIN engines : engines'[k].id = engines[k].id
    BY <2>1 DEF HInv, HandlesBelowNext
  <2>4. HandlesBelowNext'
    BY <2>1, <2>2, <2>3, Zenon DEF HInv, HandlesBelowNext
  <2>5. HandleNamesOneEngine'
    BY <2>2, <2>3 DEF HInv, HandleNamesOneEngine
  <2>6. QED BY <2>4, <2>5 DEF HInv
<1>3. QED BY <1>1, <1>2

\* A fresh registry has no handles and has handed none out.
LEMMA HInvInit == Init => HInv
BY DEF Init, HInv, HandlesBelowNext, HandleNamesOneEngine

(***************************************************************************)
(* Every call of the interface keeps the invariant.                        *)
(***************************************************************************)
LEMMA HInvStep == HInv /\ [Next]_vars => HInv'
<1> SUFFICES ASSUME HInv, [Next]_vars PROVE HInv'
  OBVIOUS
<1> USE DEF outputs
<1>1. CASE vc_engine_create
  <2> DEFINE e == NewEngine(created + 1)
  <2>1. CASE next = U64Max
    <3>1. UNCHANGED <<next, engines, handles>>
      BY <1>1, <2>1 DEF vc_engine_create, alloc
    <3>2. QED BY <3>1 DEF HInv, HandlesBelowNext, HandleNamesOneEngine
  <2>2. CASE next /= U64Max
    <3>1. /\ next' = next + 1
          /\ engines' = [h \in DOMAIN engines \cup {next} |->
                           IF h = next THEN e ELSE engines[h]]
          /\ handles' = handles \cup {<<next, e.id>>}
      BY <1>1, <2>2 DEF vc_engine_create, alloc
    <3>3. HandlesBelowNext'
      BY <3>1 DEF HInv, HandlesBelowNext
    <3>4. \A p \in handles : p[1] /= next
      BY DEF HInv, HandlesBelowNext
    <3>5. \A p, q \in handles' : p[1] = q[1] => p = q
      BY <3>1, <3>4 DEF HInv, HandleNamesOneEngine
    <3>6. \A h \in DOMAIN engines' : <<h, engines'[h].id>> \in handles'
      BY <3>1 DEF HInv, HandleNamesOneEngine
    <3>7. QED BY <3>3, <3>5, <3>6 DEF HInv, HandleNamesOneEngine
  <2>3. QED BY <2>1, <2>2
<1>2. ASSUME NEW h, NEW count, NEW buffer, vc_generate_bundle(h, count, buffer)
      PROVE  HInv'
  <2>1. PICK r \in generate_public_prekey_bundle(engines[h], count) :
           engines' = [engines EXCEPT ![h] = r.e]
    BY <1>2, Zenon DEF vc_generate_bundle
  <2>2. h \in DOMAIN engines /\ UNCHANGED <<next, handles>>
    BY <1>2 DEF vc_generate_bundle
  <2>3. r.err = "Ok" /\ SameEngine(engines[h], r)
    BY <2>1, <2>2, OperationsKeepIdentity
  <2>4. Commit(h, r)
    BY <2>1, <2>3 DEF Commit
  <2>5. QED BY <2>2, <2>3, <2>4, CommitKeeps
<1>3. ASSUME NEW h, NEW b, NEW len, NEW buffer,
             vc_establish_outbound(h, b, len, buffer)
      PROVE  HInv'
  <2> DEFINE r == Answer(h, establish_outbound_session(engines[h], b, len))
  <2>1. Commit(h, r) /\ UNCHANGED <<next, handles>>
    BY <1>3 DEF vc_establish_outbound
  <2>2. /\ h \in DOMAIN engines => SameEngine(engines[h], r)
        /\ h \notin DOMAIN engines => r.err /= "Ok"
    BY OperationsKeepIdentity DEF Answer, Err
  <2>3. QED BY <2>1, <2>2, CommitKeeps
<1>4. ASSUME NEW h, NEW p, NEW buffer, vc_process_inbound(h, p, buffer)
      PROVE  HInv'
  <2> DEFINE r == Answer(h, process_inbound_session(engines[h], p))
  <2>1. Commit(h, r) /\ UNCHANGED <<next, handles>>
    BY <1>4 DEF vc_process_inbound
  <2>2. /\ h \in DOMAIN engines => SameEngine(engines[h], r)
        /\ h \notin DOMAIN engines => r.err /= "Ok"
    BY OperationsKeepIdentity DEF Answer, Err
  <2>3. QED BY <2>1, <2>2, CommitKeeps
<1>5. ASSUME NEW h, NEW sid, NEW len, NEW buffer, vc_encrypt(h, sid, len, buffer)
      PROVE  HInv'
  <2> DEFINE r == Answer(h, encrypt(engines[h], sid, len))
  <2>1. Commit(h, r) /\ UNCHANGED <<next, handles>>
    BY <1>5 DEF vc_encrypt
  <2>2. /\ h \in DOMAIN engines => SameEngine(engines[h], r)
        /\ h \notin DOMAIN engines => r.err /= "Ok"
    BY OperationsKeepIdentity DEF Answer, Err
  <2>3. QED BY <2>1, <2>2, CommitKeeps
<1>6. ASSUME NEW h, NEW sid, NEW m, NEW buffer, vc_decrypt(h, sid, m, buffer)
      PROVE  HInv'
  <2> DEFINE r == Answer(h, decrypt(engines[h], sid, m))
  <2>1. Commit(h, r) /\ UNCHANGED <<next, handles>>
    BY <1>6 DEF vc_decrypt
  <2>2. /\ h \in DOMAIN engines => SameEngine(engines[h], r)
        /\ h \notin DOMAIN engines => r.err /= "Ok"
    BY OperationsKeepIdentity DEF Answer, Err
  <2>3. QED BY <2>1, <2>2, CommitKeeps
<1>7. ASSUME NEW h, NEW sid, vc_delete_session(h, sid)
      PROVE  HInv'
  <2> DEFINE r == Answer(h, delete_session(engines[h], sid))
  <2>1. Commit(h, r) /\ UNCHANGED <<next, handles>>
    BY <1>7 DEF vc_delete_session
  <2>2. /\ h \in DOMAIN engines => SameEngine(engines[h], r)
        /\ h \notin DOMAIN engines => r.err /= "Ok"
    BY OperationsKeepIdentity DEF Answer, Err
  <2>3. QED BY <2>1, <2>2, CommitKeeps
<1>8. ASSUME NEW h, vc_engine_destroy(h)
      PROVE  HInv'
  <2>1. /\ engines' = [k \in DOMAIN engines \ {h} |-> engines[k]]
        /\ UNCHANGED <<next, handles>>
    BY <1>8 DEF vc_engine_destroy
  <2>2. QED BY <2>1 DEF HInv, HandlesBelowNext, HandleNamesOneEngine
<1>9. CASE UNCHANGED vars
  BY <1>9 DEF vars, registry, HInv, HandlesBelowNext, HandleNamesOneEngine
<1>10. QED
  BY <1>1, <1>2, <1>3, <1>4, <1>5, <1>6, <1>7, <1>8, <1>9 DEF Next

(***************************************************************************)
(* A handle names one engine for ever, also after it was destroyed: no     *)
(* call can reach another engine through a stale handle.                   *)
(***************************************************************************)
THEOREM HandlesAreNeverReused == Spec => []HandleNamesOneEngine
<1>1. HInv => HandleNamesOneEngine
  BY DEF HInv
<1>2. QED BY <1>1, HInvInit, HInvStep, PTL DEF Spec

------------------------------------------------------------------------------
(* What the callers have received of a session, for every plaintext length *)
(* and every buffer.                                                       *)

\* The session s with id sid, behind handle h, has kept nothing from callers
\* who were given the ids k, plaintexts r, packets p and ciphertexts c: its
\* part of LostOnlyOversize and of SentIsReturned.
Told(h, sid, s, k, r, p, c) ==
    /\ \A m \in s.got : m.len <= 4096 => <<h, sid>> \in k /\ <<sid, m>> \in r
    /\ s.side = "initiator" => <<h, sid>> \in k /\ \E x \in p : x.hs = s.hs
    /\ \A n \in 1 .. s.sent : \E m \in c :
          m.hs = s.hs /\ m.side = s.side /\ m.n = n

IsSession(s) ==
    /\ s = [hs |-> s.hs, side |-> s.side, sent |-> s.sent, got |-> s.got]
    /\ s.sent \in Nat

\* The sessions of engine e behind handle h
AllTold(h, e, k, r, p, c) ==
    /\ e.sessions = [sid \in DOMAIN e.sessions |-> e.sessions[sid]]
    /\ \A sid \in DOMAIN e.sessions :
          IsSession(e.sessions[sid]) /\ Told(h, sid, e.sessions[sid], k, r, p, c)

\* Messages have the length of some plaintext, and a known id came with a handle.
Lengths(k, p, c) ==
    /\ \A x \in p : x.first.len \in Nat
    /\ \A m \in c : m.len \in Nat
    /\ \A x \in k : x = <<x[1], x[2]>>

TInv ==
    /\ engines = [h \in DOMAIN engines |-> engines[h]]
    /\ created \in Nat
    /\ Lengths(known, packets, sealed)
    /\ \A h \in DOMAIN engines :
          AllTold(h, engines[h], known, handed, packets, sealed)

(***************************************************************************)
(* What a caller has received is never taken back, so a session that has   *)
(* told everything stays so whatever else is returned.                     *)
(***************************************************************************)
LEMMA ToldGrows ==
    ASSUME NEW k, NEW r, NEW p, NEW c, NEW k2, NEW r2, NEW p2, NEW c2,
           k \subseteq k2, r \subseteq r2, p \subseteq p2, c \subseteq c2,
           NEW h, NEW e, AllTold(h, e, k, r, p, c)
    PROVE  AllTold(h, e, k2, r2, p2, c2)
<1>1. ASSUME NEW sid, NEW s, Told(h, sid, s, k, r, p, c)
      PROVE  Told(h, sid, s, k2, r2, p2, c2)
  BY <1>1 DEF Told
<1>2. QED BY <1>1 DEF AllTold

(***************************************************************************)
(* The three ways an operation changes the sessions of an engine: a new    *)
(* one (AddSession), a change of one, a removal.                           *)
(***************************************************************************)
LEMMA ToldAdded ==
    ASSUME NEW h, NEW e, NEW s, NEW k, NEW r, NEW p, NEW c,
           AllTold(h, e, k, r, p, c),
           IsSession(s), Told(h, NextSid(e), s, k, r, p, c)
    PROVE  AllTold(h, AddSession(e, s), k, r, p, c)
<1> DEFINE f == AddSession(e, s)
<1>1. f.sessions = [sid \in DOMAIN e.sessions \cup {NextSid(e)} |->
                       IF sid = NextSid(e) THEN s ELSE e.sessions[sid]]
  BY DEF AddSession, EngineOf
<1> HIDE DEF f
<1>2. QED BY <1>1 DEF AllTold, f

\* A session that sent or accepted a message
LEMMA ToldChanged ==
    ASSUME NEW h, NEW e, NEW s, NEW k, NEW r, NEW p, NEW c,
           AllTold(h, e, k, r, p, c),
           NEW sid \in DOMAIN e.sessions,
           IsSession(s), Told(h, sid, s, k, r, p, c)
    PROVE  AllTold(h, WithSessions(e, [e.sessions EXCEPT ![sid] = s]), k, r, p, c)
<1> DEFINE f == WithSessions(e, [e.sessions EXCEPT ![sid] = s])
<1>1. f.sessions = [e.sessions EXCEPT ![sid] = s]
  BY DEF WithSessions, EngineOf
<1> HIDE DEF f
<1>2. /\ DOMAIN f.sessions = DOMAIN e.sessions
      /\ f.sessions = [x \in DOMAIN f.sessions |-> f.sessions[x]]
      /\ \A x \in DOMAIN e.sessions :
            f.sessions[x] = IF x = sid THEN s ELSE e.sessions[x]
  BY <1>1 DEF AllTold
<1>3. QED BY <1>2 DEF AllTold, f

\* delete_session
LEMMA ToldRemoved ==
    ASSUME NEW h, NEW e, NEW sid, NEW k, NEW r, NEW p, NEW c,
           AllTold(h, e, k, r, p, c)
    PROVE  AllTold(h, WithSessions(e, [x \in DOMAIN e.sessions \ {sid} |->
                                          e.sessions[x]]), k, r, p, c)
BY DEF AllTold, WithSessions, EngineOf

\* The prekey pool has no part in what a session has told.
LEMMA ToldPool ==
    ASSUME NEW h, NEW e, NEW pool, NEW nextKey, NEW k, NEW r, NEW p, NEW c,
           AllTold(h, e, k, r, p, c)
    PROVE  /\ AllTold(h, WithPool(e, pool, nextKey), k, r, p, c)
           /\ NextSid(WithPool(e, pool, nextKey)) = NextSid(e)
BY DEF AllTold, WithPool, EngineOf, NextSid

(***************************************************************************)
(* A call that returns more, and leaves the engine behind h as e, keeps    *)
(* the invariant when e has told everything.                               *)
(***************************************************************************)
LEMMA OneEngineChanged ==
    ASSUME TInv, NEW h \in DOMAIN engines, NEW e,
           engines' = [engines EXCEPT ![h] = e], created' = created,
           known \subseteq known', handed \subseteq handed',
           packets \subseteq packets', sealed \subseteq sealed',
           Lengths(known', packets', sealed'),
           AllTold(h, e, known', handed', packets', sealed')
    PROVE  TInv'
<1>1. /\ DOMAIN engines' = DOMAIN engines
      /\ engines' = [x \in DOMAIN engines' |-> engines'[x]]
      /\ \A x \in DOMAIN engines : engines'[x] = IF x = h THEN e ELSE engines[x]
  BY Zenon DEF TInv
<1>2. ASSUME NEW x \in DOMAIN engines
      PROVE  AllTold(x, engines'[x], known', handed', packets', sealed')
  <2>1. AllTold(x, engines[x], known', handed', packets', sealed')
    BY ToldGrows DEF TInv
  <2>2. QED BY <1>1, <2>1
<1>3. QED BY <1>1, <1>2 DEF TInv

\* A call that fails, and one that does not find its engine
LEMMA NothingChanged ==
    ASSUME TInv, engines' = engines, created' = created,
           UNCHANGED <<known, handed, packets, sealed>>
    PROVE  TInv'
BY DEF TInv

(***************************************************************************)
(* The bounds a caller is told to reserve cover what is copied out.        *)
(***************************************************************************)
LEMMA BoundsCover ==
    ASSUME NEW buffer \in Nat, NEW len \in Nat
    PROVE  /\ ~need_buffer(buffer, packet_bound(len)) => Fits(buffer, PacketLen(len))
           /\ ~need_buffer(buffer, sealed_bound(len)) => Fits(buffer, SealedLen(len))
           /\ ~need_buffer(buffer, PT_BOUND) /\ len <= 4096 => Fits(buffer, len)
BY DEF need_buffer, packet_bound, sealed_bound, PT_BOUND, Fits, PacketLen, SealedLen

\* A fresh registry has no engines.
LEMMA TInvInit == Init => TInv
BY DEF Init, TInv, Lengths

(***************************************************************************)
(* The calls that make or use a session, one lemma each.                   *)
(***************************************************************************)
LEMMA EstablishTells ==
    ASSUME TInv, NEW h, NEW b, NEW len \in Nat, NEW buffer \in Nat,
           vc_establish_outbound(h, b, len, buffer)
    PROVE  TInv'
<1> DEFINE r == establish_outbound_session(engines[h], b, len)
           sid == NextSid(engines[h])
           s == Session(sid, "initiator")
           packet == [hs |-> sid, bundle |-> b,
                      first |-> Message(sid, "initiator", 0, len)]
<1>1. CASE h \notin DOMAIN engines
  <2>1. engines' = engines /\ UNCHANGED <<created, known, handed, packets, sealed>>
    BY <1>1 DEF vc_establish_outbound, Answer, Err, Commit
  <2>2. QED BY <2>1, NothingChanged
<1>2. CASE h \in DOMAIN engines
  <2>1. r.err = "Ok" /\ r.e = AddSession(engines[h], s) /\ r.out = packet
    BY DEF establish_outbound_session, Ok
  <2>2. Fits(buffer, PacketLen(len))
    BY BoundsCover DEF vc_establish_outbound
  <2> HIDE DEF r, s, packet, sid
  <2>3. /\ engines' = [engines EXCEPT ![h] = AddSession(engines[h], s)]
        /\ packets' = packets \cup {packet}
        /\ known' = known \cup {<<h, packet.hs>>}
        /\ UNCHANGED <<created, handed, sealed>>
    BY <1>2, <2>1, <2>2, Zenon DEF vc_establish_outbound, Answer, Commit, r
  <2>4. packet.hs = sid /\ packet.first.len = len
    BY DEF packet, Message
  <2>5. Lengths(known', packets', sealed')
    <3>1. \A x \in known' : x = <<x[1], x[2]>>
      BY <2>3 DEF TInv, Lengths
    <3>2. \A x \in packets' : x.first.len \in Nat
      BY <2>3, <2>4 DEF TInv, Lengths
    <3>3. QED BY <2>3, <3>1, <3>2 DEF TInv, Lengths
  <2>6. AllTold(h, engines[h], known', handed', packets', sealed')
    BY <1>2, <2>3, ToldGrows DEF TInv
  <2>7. IsSession(s)
    BY DEF IsSession, s, Session
  <2>8. Told(h, sid, s, known', handed', packets', sealed')
    BY <2>3, <2>4 DEF Told, s, Session
  <2>9. AllTold(h, AddSession(engines[h], s), known', handed', packets', sealed')
    BY <2>6, <2>7, <2>8, ToldAdded DEF sid
  <2>10. QED BY <1>2, <2>3, <2>5, <2>9, OneEngineChanged, Zenon
<1>3. QED BY <1>1, <1>2

\* A handshake is committed before its first message and id are copied out.
LEMMA ProcessTells ==
    ASSUME TInv, NEW h, NEW p \in packets, NEW buffer \in Nat,
           vc_process_inbound(h, p, buffer)
    PROVE  TInv'
<1> DEFINE r == process_inbound_session(engines[h], p)
           sid == NextSid(engines[h])
           s == Accepted(Session(p.hs, "responder"), p.first)
           e == WithPool(engines[h], engines[h].pool \ {p.bundle[2]},
                         engines[h].nextKey)
<1>1. CASE h \notin DOMAIN engines \/ r.err /= "Ok"
  <2>1. engines' = engines /\ UNCHANGED <<created, known, handed, packets, sealed>>
    BY <1>1 DEF vc_process_inbound, Answer, Err, Commit
  <2>2. QED BY <2>1, NothingChanged
<1>2. CASE h \in DOMAIN engines /\ r.err = "Ok"
  <2>1. r = Ok(AddSession(e, s), p.first)
    BY <1>2 DEF process_inbound_session, Err
  <2>2. r.e = AddSession(e, s) /\ r.out = p.first
    BY <2>1 DEF Ok
  <2> HIDE DEF r, s, sid, e
  <2>3. /\ engines' = [engines EXCEPT ![h] = AddSession(e, s)]
        /\ known' = IF Fits(buffer, p.first.len) THEN known \cup {<<h, sid>>}
                                                 ELSE known
        /\ handed' = IF Fits(buffer, p.first.len)
                     THEN handed \cup {<<sid, p.first>>} ELSE handed
        /\ UNCHANGED <<created, packets, sealed>>
    BY <1>2, <2>2, Zenon DEF vc_process_inbound, Answer, Commit, r, sid
  <2>4. p.first.len \in Nat
    BY DEF TInv, Lengths
  <2>5. p.first.len <= 4096 => <<h, sid>> \in known' /\ <<sid, p.first>> \in handed'
    BY <2>3, <2>4, BoundsCover DEF vc_process_inbound
  <2>6. Lengths(known', packets', sealed')
    BY <2>3 DEF TInv, Lengths
  <2>7. known \subseteq known' /\ handed \subseteq handed'
    BY <2>3
  <2>8. AllTold(h, engines[h], known', handed', packets', sealed')
    BY <1>2, <2>3, <2>7, ToldGrows DEF TInv
  <2>9. AllTold(h, e, known', handed', packets', sealed') /\ NextSid(e) = sid
    BY <2>8, ToldPool DEF e, sid
  <2>10. IsSession(s)
    BY DEF IsSession, s, Session, Accepted
  <2>11. Told(h, sid, s, known', handed', packets', sealed')
    BY <2>5 DEF Told, s, Session, Accepted
  <2>12. AllTold(h, AddSession(e, s), known', handed', packets', sealed')
    BY <2>9, <2>10, <2>11, ToldAdded
  <2>13. QED BY <1>2, <2>3, <2>6, <2>7, <2>12, OneEngineChanged, Zenon
<1>3. QED BY <1>1, <1>2

\* vc_encrypt advances the sending chain, and returns what it sealed.
LEMMA EncryptTells ==
    ASSUME TInv, NEW h, NEW sid, NEW len \in Nat, NEW buffer \in Nat,
           vc_encrypt(h, sid, len, buffer)
    PROVE  TInv'
<1> DEFINE r == encrypt(engines[h], sid, len)
           s == engines[h].sessions[sid]
           m == Message(s.hs, s.side, s.sent + 1, len)
<1>1. CASE h \notin DOMAIN engines \/ r.err /= "Ok"
  <2>1. engines' = engines /\ UNCHANGED <<created, known, handed, packets, sealed>>
    BY <1>1 DEF vc_encrypt, Answer, Err, Commit
  <2>2. QED BY <2>1, NothingChanged
<1>2. CASE h \in DOMAIN engines /\ r.err = "Ok"
  <2>1. /\ sid \in DOMAIN engines[h].sessions
        /\ r = Ok(WithSessions(engines[h],
                      [engines[h].sessions EXCEPT ![sid] = Sent(s)]), m)
    BY <1>2 DEF encrypt, Err
  <2>2. /\ r.e = WithSessions(engines[h],
                      [engines[h].sessions EXCEPT ![sid] = Sent(s)])
        /\ r.out = m
    BY <2>1 DEF Ok
  <2>3. Fits(buffer, SealedLen(len))
    BY BoundsCover DEF vc_encrypt
  <2> HIDE DEF r, s, m
  <2>4. /\ engines' = [engines EXCEPT ![h] = r.e]
        /\ sealed' = sealed \cup {m}
        /\ UNCHANGED <<created, known, handed, packets>>
    BY <1>2, <2>2, <2>3, Zenon DEF vc_encrypt, Answer, Commit, r
  <2>5. m.hs = s.hs /\ m.side = s.side /\ m.n = s.sent + 1 /\ m.len = len
    BY DEF m, Message
  <2>6. Lengths(known', packets', sealed')
    BY <2>4, <2>5 DEF TInv, Lengths
  <2>7. AllTold(h, engines[h], known', handed', packets', sealed')
    BY <1>2, <2>4, ToldGrows DEF TInv
  <2>8. IsSession(s) /\ Told(h, sid, s, known', handed', packets', sealed')
    BY <2>1, <2>7 DEF AllTold, s
  <2>9. /\ Sent(s).hs = s.hs /\ Sent(s).side = s.side /\ Sent(s).got = s.got
        /\ Sent(s).sent = s.sent + 1 /\ IsSession(Sent(s))
    BY <2>8 DEF IsSession, Sent
  <2>10. ASSUME NEW n \in 1 .. Sent(s).sent
         PROVE  \E x \in sealed' : x.hs = s.hs /\ x.side = s.side /\ x.n = n
    <3>1. n \in 1 .. s.sent \/ n = s.sent + 1
      BY <2>8, <2>9 DEF IsSession
    <3>2. QED BY <2>4, <2>5, <2>8, <3>1 DEF Told
  <2>11. Told(h, sid, Sent(s), known', handed', packets', sealed')
    BY <2>8, <2>9, <2>10 DEF Told
  <2>12. AllTold(h, r.e, known', handed', packets', sealed')
    BY <2>1, <2>2, <2>7, <2>9, <2>11, ToldChanged
  <2>13. QED BY <1>2, <2>4, <2>6, <2>12, OneEngineChanged, Zenon
<1>3. QED BY <1>1, <1>2

\* vc_decrypt commits the message as received, and returns it if it fits.
LEMMA DecryptTells ==
    ASSUME TInv, NEW h, NEW sid, NEW m \in sealed, NEW buffer \in Nat,
           <<h, sid>> \in known, vc_decrypt(h, sid, m, buffer)
    PROVE  TInv'
<1> DEFINE r == decrypt(engines[h], sid, m)
           s == engines[h].sessions[sid]
<1>1. CASE h \notin DOMAIN engines \/ r.err /= "Ok"
  <2>1. engines' = engines /\ UNCHANGED <<created, known, handed, packets, sealed>>
    BY <1>1 DEF vc_decrypt, Answer, Err, Commit
  <2>2. QED BY <2>1, NothingChanged
<1>2. CASE h \in DOMAIN engines /\ r.err = "Ok"
  <2>1. /\ sid \in DOMAIN engines[h].sessions
        /\ r = Ok(WithSessions(engines[h],
                      [engines[h].sessions EXCEPT ![sid] = Accepted(s, m)]), m)
    BY <1>2 DEF decrypt, Err
  <2>2. r.e = WithSessions(engines[h],
                  [engines[h].sessions EXCEPT ![sid] = Accepted(s, m)])
    BY <2>1 DEF Ok
  <2> HIDE DEF r, s
  <2>3. /\ engines' = [engines EXCEPT ![h] = r.e]
        /\ handed' = IF Fits(buffer, m.len) THEN handed \cup {<<sid, m>>}
                                            ELSE handed
        /\ UNCHANGED <<created, known, packets, sealed>>
    BY <1>2 DEF vc_decrypt, Answer, Commit, r
  <2>4. m.len \in Nat
    BY DEF TInv, Lengths
  <2>5. m.len <= 4096 => <<sid, m>> \in handed'
    BY <2>3, <2>4, BoundsCover DEF vc_decrypt
  <2>6. handed \subseteq handed'
    BY <2>3
  <2>7. AllTold(h, engines[h], known', handed', packets', sealed')
    BY <1>2, <2>3, <2>6, ToldGrows DEF TInv
  <2>8. IsSession(s) /\ Told(h, sid, s, known', handed', packets', sealed')
    BY <2>1, <2>7 DEF AllTold, s
  <2>9. /\ Accepted(s, m).hs = s.hs /\ Accepted(s, m).side = s.side
        /\ Accepted(s, m).got = s.got \cup {m} /\ Accepted(s, m).sent = s.sent
        /\ IsSession(Accepted(s, m))
    BY <2>8 DEF IsSession, Accepted
  <2>10. Told(h, sid, Accepted(s, m), known', handed', packets', sealed')
    BY <2>3, <2>5, <2>8, <2>9 DEF Told
  <2>11. AllTold(h, r.e, known', handed', packets', sealed')
    BY <2>1, <2>2, <2>7, <2>9, <2>10, ToldChanged
  <2>12. Lengths(known', packets', sealed')
    BY <2>3 DEF TInv
  <2>13. QED BY <1>2, <2>3, <2>6, <2>11, <2>12, OneEngineChanged, Zenon
<1>3. QED BY <1>1, <1>2

(***************************************************************************)
(* Every call of the interface keeps the invariant.                        *)
(***************************************************************************)
LEMMA TInvStep == TInv /\ [Next]_vars => TInv'
<1> SUFFICES ASSUME TInv, [Next]_vars PROVE TInv'
  OBVIOUS
<1> USE DEF outputs
<1>1. CASE vc_engine_create
  <2> DEFINE a == alloc(next, DOMAIN engines)
             e == NewEngine(created + 1)
  <2>1. UNCHANGED <<known, handed, packets, sealed>> /\ created' \in Nat
    BY <1>1 DEF vc_engine_create, TInv
  <2>2. CASE a.err /= "Ok"
    <3>1. engines' = engines
      BY <1>1, <2>2 DEF vc_engine_create
    <3>2. QED BY <2>1, <3>1 DEF TInv
  <2>3. CASE a.err = "Ok"
    <3>1. engines' = [h \in DOMAIN engines \cup {a.h} |->
                        IF h = a.h THEN e ELSE engines[h]]
      BY <1>1, <2>3 DEF vc_engine_create
    <3>2. e.sessions = [s \in {} |-> 0]
      BY DEF NewEngine, EngineOf
    <3>3. AllTold(a.h, e, known, handed, packets, sealed)
      BY <3>2 DEF AllTold
    <3> HIDE DEF a, e
    <3>4. QED BY <2>1, <3>1, <3>3 DEF TInv
  <2>4. QED BY <2>2, <2>3
<1>2. ASSUME NEW h, NEW count, NEW buffer, vc_generate_bundle(h, count, buffer)
      PROVE  TInv'
  <2>1. PICK r \in generate_public_prekey_bundle(engines[h], count) :
           engines' = [engines EXCEPT ![h] = r.e]
    BY <1>2, Zenon DEF vc_generate_bundle
  <2>2. PICK pool, nextKey : r.e = WithPool(engines[h], pool, nextKey)
    BY <2>1 DEF generate_public_prekey_bundle, Ok
  <2>3. h \in DOMAIN engines /\ UNCHANGED <<created, known, handed, packets, sealed>>
    BY <1>2 DEF vc_generate_bundle
  <2>4. AllTold(h, r.e, known, handed, packets, sealed)
    BY <2>2, <2>3, ToldPool DEF TInv
  <2>5. Lengths(known, packets, sealed)
    BY DEF TInv
  <2>6. QED BY <2>1, <2>3, <2>4, <2>5, OneEngineChanged, Zenon
<1>3. ASSUME NEW h, NEW b, NEW len \in PtLen, NEW buffer \in Buffer,
             vc_establish_outbound(h, b, len, buffer)
      PROVE  TInv'
  BY <1>3, EstablishTells, LengthsAssumption
<1>4. ASSUME NEW h, NEW p \in packets, NEW buffer \in Buffer,
             vc_process_inbound(h, p, buffer)
      PROVE  TInv'
  BY <1>4, ProcessTells, LengthsAssumption
<1>5. ASSUME NEW h, NEW sid, NEW len \in PtLen, NEW buffer \in Buffer,
             vc_encrypt(h, sid, len, buffer)
      PROVE  TInv'
  BY <1>5, EncryptTells, LengthsAssumption
<1>6. ASSUME NEW s \in known, NEW m \in sealed, NEW buffer \in Buffer,
             vc_decrypt(s[1], s[2], m, buffer)
      PROVE  TInv'
  <2>1. <<s[1], s[2]>> \in known
    BY DEF TInv, Lengths
  <2>2. QED BY <1>6, <2>1, DecryptTells, LengthsAssumption
<1>7. ASSUME NEW h, NEW sid, vc_delete_session(h, sid)
      PROVE  TInv'
  <2> DEFINE r == delete_session(engines[h], sid)
  <2>1. UNCHANGED <<created, known, handed, packets, sealed>>
    BY <1>7 DEF vc_delete_session
  <2>2. CASE h \notin DOMAIN engines \/ r.err /= "Ok"
    <3>1. engines' = engines
      BY <1>7, <2>2 DEF vc_delete_session, Answer, Err, Commit
    <3>2. QED BY <2>1, <3>1, NothingChanged
  <2>3. CASE h \in DOMAIN engines /\ r.err = "Ok"
    <3>1. r.e = WithSessions(engines[h], [x \in DOMAIN engines[h].sessions \ {sid} |->
                                             engines[h].sessions[x]])
      BY <2>3 DEF delete_session, Err, Ok
    <3>2. engines' = [engines EXCEPT ![h] = r.e]
      BY <1>7, <2>3 DEF vc_delete_session, Answer, Commit
    <3> HIDE DEF r
    <3>3. AllTold(h, r.e, known, handed, packets, sealed)
      <4>1. AllTold(h, engines[h], known, handed, packets, sealed)
        BY <2>3 DEF TInv
      <4>2. QED BY <3>1, <4>1, ToldRemoved
    <3>4. Lengths(known, packets, sealed)
      BY DEF TInv
    <3>5. QED BY <2>1, <2>3, <3>2, <3>3, <3>4, OneEngineChanged, Zenon
  <2>4. QED BY <2>2, <2>3
<1>8. ASSUME NEW h, vc_engine_destroy(h)
      PROVE  TInv'
  <2>1. /\ engines' = [k \in DOMAIN engines \ {h} |-> engines[k]]
        /\ UNCHANGED <<created, known, handed, packets, sealed>>
    BY <1>8 DEF vc_engine_destroy
  <2>2. QED BY <2>1 DEF TInv
<1>9. CASE UNCHANGED vars
  BY <1>9, NothingChanged DEF vars, registry
<1>10. QED
  BY <1>1, <1>2, <1>3, <1>4, <1>5, <1>6, <1>7, <1>8, <1>9 DEF Next

\* TInv says it of each session of each engine.
LEMMA SessionTold ==
    ASSUME TInv, NEW h \in DOMAIN engines, NEW sid \in DOMAIN engines[h].sessions
    PROVE  Told(h, sid, engines[h].sessions[sid], known, handed, packets, sealed)
<1>1. AllTold(h, engines[h], known, handed, packets, sealed)
  BY DEF TInv
<1>2. QED BY <1>1, Zenon DEF AllTold

\* The invariant holds throughout.
LEMMA Telling == Spec => []TInv
BY TInvInit, TInvStep, PTL DEF Spec

(***************************************************************************)
(* No plaintext within PT_BOUND, and no session id of a handshake whose    *)
(* first message is within it, is lost between an engine's commit and the  *)
(* copy to the caller, for every set of plaintext and buffer lengths.      *)
(***************************************************************************)
THEOREM OnlyOversizeIsLost == Spec => []LostOnlyOversize
<1>1. TInv => LostOnlyOversize
  <2> SUFFICES ASSUME TInv, NEW h \in DOMAIN engines,
                      NEW sid \in DOMAIN engines[h].sessions,
                      NEW m \in engines[h].sessions[sid].got, m.len <= 4096
               PROVE  <<h, sid>> \in known /\ <<sid, m>> \in handed
    BY Zenon DEF LostOnlyOversize
  <2>1. Told(h, sid, engines[h].sessions[sid], known, handed, packets, sealed)
    BY SessionTold
  <2>2. QED BY <2>1 DEF Told
<1>2. QED BY <1>1, Telling, PTL

(***************************************************************************)
(* Every ciphertext and packet an engine has made was returned: the room   *)
(* vc_encrypt and vc_establish_outbound ask for covers what encode writes, *)
(* for every length.                                                       *)
(***************************************************************************)
THEOREM EverythingSentIsReturned == Spec => []SentIsReturned
<1>1. TInv => SentIsReturned
  <2> SUFFICES ASSUME TInv, NEW h \in DOMAIN engines,
                      NEW sid \in DOMAIN engines[h].sessions
               PROVE  Told(h, sid, engines[h].sessions[sid],
                           known, handed, packets, sealed)
    BY Zenon DEF SentIsReturned, Told
  <2>1. QED BY SessionTold
<1>2. QED BY <1>1, Telling, PTL

------------------------------------------------------------------------------
(* The fingerprint *)

\* The key and device of a party as a fingerprint shows them
Shown(m) == <<m.key, DeviceBytes(m)>>

(***************************************************************************)
(* canonical_order puts two parties in an order of its own: what is shown  *)
(* does not depend on who comes first, and it shows both.                  *)
(***************************************************************************)
LEMMA OrderIsCanonical ==
    ASSUME NEW a, NEW b, a.key \in Nat, b.key \in Nat,
           DeviceBytes(a) \in Nat, DeviceBytes(b) \in Nat
    PROVE  LET f == compute_fingerprint(a, b)
               g == compute_fingerprint(b, a)
           IN  /\ f = g
               /\ \/ <<f[1], f[2]>> = Shown(a) /\ <<f[3], f[4]>> = Shown(b)
                  \/ <<f[1], f[2]>> = Shown(b) /\ <<f[3], f[4]>> = Shown(a)
<1> DEFINE AB == <<a.key, DeviceBytes(a), b.key, DeviceBytes(b)>>
           BA == <<b.key, DeviceBytes(b), a.key, DeviceBytes(a)>>
<1>1. /\ canonical_order(a, b) = <<a, b>> => compute_fingerprint(a, b) = AB
      /\ canonical_order(a, b) = <<b, a>> => compute_fingerprint(a, b) = BA
      /\ canonical_order(b, a) = <<a, b>> => compute_fingerprint(b, a) = AB
      /\ canonical_order(b, a) = <<b, a>> => compute_fingerprint(b, a) = BA
  BY DEF compute_fingerprint
<1>2. \/ compute_fingerprint(a, b) = AB /\ compute_fingerprint(b, a) = AB
      \/ compute_fingerprint(a, b) = BA /\ compute_fingerprint(b, a) = BA
  <2>1. CASE a.key < b.key
    <3>1. ~(b.key < a.key)
      BY <2>1
    <3>2. canonical_order(a, b) = <<a, b>> /\ canonical_order(b, a) = <<a, b>>
      BY Zenon, <2>1, <3>1 DEF canonical_order
    <3>3. QED BY Zenon, <1>1, <3>2
  <2>2. CASE b.key < a.key
    <3>1. ~(a.key < b.key)
      BY <2>2
    <3>2. canonical_order(a, b) = <<b, a>> /\ canonical_order(b, a) = <<b, a>>
      BY Zenon, <2>2, <3>1 DEF canonical_order
    <3>3. QED BY Zenon, <1>1, <3>2
  <2>3. CASE ~(a.key < b.key) /\ ~(b.key < a.key)
    <3>1. a.key = b.key
      BY <2>3
    <3>2. CASE DeviceBytes(a) = DeviceBytes(b)
      <4>1. AB = BA
        BY Zenon, <3>1, <3>2
      <4>2. /\ canonical_order(a, b) \in {<<a, b>>, <<b, a>>}
            /\ canonical_order(b, a) \in {<<a, b>>, <<b, a>>}
        BY Zenon DEF canonical_order
      <4>3. QED BY Zenon, <1>1, <4>1, <4>2
    <3>3. CASE DeviceBytes(a) < DeviceBytes(b)
      <4>1. DeviceBytes(a) <= DeviceBytes(b) /\ ~(DeviceBytes(b) <= DeviceBytes(a))
        BY <3>3
      <4>2. canonical_order(a, b) = <<a, b>> /\ canonical_order(b, a) = <<a, b>>
        BY Zenon, <2>3, <4>1 DEF canonical_order
      <4>3. QED BY Zenon, <1>1, <4>2
    <3>4. CASE DeviceBytes(b) < DeviceBytes(a)
      <4>1. DeviceBytes(b) <= DeviceBytes(a) /\ ~(DeviceBytes(a) <= DeviceBytes(b))
        BY <3>4
      <4>2. canonical_order(a, b) = <<b, a>> /\ canonical_order(b, a) = <<b, a>>
        BY Zenon, <2>3, <4>1 DEF canonical_order
      <4>3. QED BY Zenon, <1>1, <4>2
    <3>5. QED BY <3>2, <3>3, <3>4
  <2>4. QED BY Zenon, <2>1, <2>2, <2>3
<1>3. /\ <<AB[1], AB[2]>> = Shown(a) /\ <<AB[3], AB[4]>> = Shown(b)
      /\ <<BA[1], BA[2]>> = Shown(b) /\ <<BA[3], BA[4]>> = Shown(a)
  BY DEF Shown
<1> HIDE DEF AB, BA
<1>4. QED BY Zenon, <1>2, <1>3

(***************************************************************************)
(* The two sides of a conversation compare equal fingerprints, and a       *)
(* fingerprint shows both identity keys and devices, for any number of     *)
(* identities.                                                             *)
(***************************************************************************)
THEOREM FingerprintsAlwaysAgree == Spec => []FingerprintsAgree
<1>1. TInv => FingerprintsAgree
  <2> SUFFICES ASSUME TInv,
                      NEW a \in [key : 1 .. created,
                                 device : {NoDevice} \cup {<<d>> : d \in EmptyId .. 1}],
                      NEW b \in [key : 1 .. created,
                                 device : {NoDevice} \cup {<<d>> : d \in EmptyId .. 1}]
               PROVE  LET f == vc_fingerprint(a, b, NoBuffer).binary
                      IN  /\ f = vc_fingerprint(b, a, <<0>>).binary
                          /\ {<<f[1], f[2]>>, <<f[3], f[4]>>} = {Shown(a), Shown(b)}
    BY DEF FingerprintsAgree, Shown
  <2>1. a.key \in Nat /\ b.key \in Nat
    BY DEF TInv
  <2>2. \A m \in {a, b} : DeviceBytes(m) \in Nat
    BY DEF DeviceBytes, NoDevice, EmptyId
  <2>3. ZeroKey \notin {a.key, b.key}
    BY DEF TInv, ZeroKey
  <2>4. \A numeric : /\ vc_fingerprint(a, b, numeric).binary = compute_fingerprint(a, b)
                     /\ vc_fingerprint(b, a, numeric).binary = compute_fingerprint(b, a)
    BY <2>3 DEF vc_fingerprint
  <2> DEFINE f == compute_fingerprint(a, b)
  <2>5. DeviceBytes(a) \in Nat /\ DeviceBytes(b) \in Nat
    BY <2>2
  <2>6. /\ f = compute_fingerprint(b, a)
        /\ \/ <<f[1], f[2]>> = Shown(a) /\ <<f[3], f[4]>> = Shown(b)
           \/ <<f[1], f[2]>> = Shown(b) /\ <<f[3], f[4]>> = Shown(a)
    BY Zenon, <2>1, <2>5, OrderIsCanonical
  <2>7. {<<f[1], f[2]>>, <<f[3], f[4]>>} = {Shown(a), Shown(b)}
    BY Zenon, <2>6
  <2> HIDE DEF f
  <2>8. vc_fingerprint(a, b, NoBuffer).binary = f
    BY Zenon, <2>4 DEF f
  <2>9. \A n : f = vc_fingerprint(b, a, <<n>>).binary
    BY Zenon, <2>4, <2>6 DEF f
  <2>10. QED BY Zenon, <2>7, <2>8, <2>9
<1>2. QED BY <1>1, Telling, PTL
=============================================================================
