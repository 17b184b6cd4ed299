------------------------------- MODULE Sesame -------------------------------
(***************************************************************************)
(* Sesame nodes (src/session/sesame.rs) that exchange messages, delivery   *)
(* receipts and retry requests through a directory with mailboxes          *)
(* (src/session/mailbox.rs).  Each node is a device with a SessionManager  *)
(* whose sessions are Double Ratchets; the application prepares inbound    *)
(* sessions, fails sessions and reads the clock.                           *)
(*                                                                         *)
(* A node is <<user, device>>.  Session ids and ratchet keys are drawn at  *)
(* random and named <<node, n>>; a plaintext is named by the call of send  *)
(* that sent it.                                                           *)
(***************************************************************************)
EXTENDS SessionManagerState, SequencesExt, Bags

CONSTANTS
    Node,
    Recipients,     \* Recipients[n]: sequence of the users n sends to
    MAX_RESEND_ATTEMPTS,
    MaxSkip,
    U32Max,
    MaxSends,       \* MaxSends[n]: bound on the calls of send of n
    MaxFailed,      \* bound on the sessions that applications fail
    MaxClock        \* bound on the application clock

DR == INSTANCE DoubleRatchetState

VARIABLES
    dir,        \* MemoryDirectory: [devices, boxes]
    mgr,        \* mgr[n]: the SessionManager
    records,    \* records[n]: the MessageRecords, oldest first
    drawn,      \* drawn[n]: how much randomness n has used
    clock,      \* the application clock
    sends,      \* sends[n]: calls of send
    failures,   \* sessions failed by applications
    posted,     \* every encrypted envelope put into a mailbox, with its addressee
    returned,   \* returned[n]: bag of plaintexts receive_all has returned
    opened,     \* opened[n]: bag of plaintexts n has decrypted
    errors      \* errors[n]: errors that calls of n have returned

history == <<posted, returned, opened, errors>>
vars == <<dir, mgr, records, drawn, clock, sends, failures, history>>

User(n) == n[1]
OfUser(u) == <<u, 0>>   \* devices are numbered from 1
Identity(u) == <<OfUser(u), 0>>
SignedPrekey(u) == <<OfUser(u), 1>>
Secret(n, u) == <<"sk", User(n), u>>
RetrySecret == <<"sk", "fixed", "fixed">>    \* the constant [9u8; 32]
Ad == "sesame"

------------------------------------------------------------------------------
(* MemoryDirectory *)

register(d, n) ==
    LET list == IF User(n) \in DOMAIN d.devices THEN d.devices[User(n)] ELSE <<>>
    IN  [devices |-> Put(d.devices, User(n),
                         IF Contains(list, n[2]) THEN list ELSE Append(list, n[2])),
         boxes |-> IF n \in DOMAIN d.boxes THEN d.boxes ELSE Put(d.boxes, n, <<>>)]

Encrypted(id, sid, r) ==
    [kind |-> "Encrypted", id |-> id, sid |-> sid, header |-> r.header, ct |-> r.ct]
RetryRequest(id) == [kind |-> "RetryRequest", id |-> id]
DeliveryReceipt(id) == [kind |-> "DeliveryReceipt", id |-> id]

\* A call in progress: what it has done so far and its error, if any
Call(n) ==
    [dir |-> dir, mgr |-> mgr[n], records |-> records[n], drawn |-> drawn[n],
     posted |-> posted, out |-> <<>>, opened |-> <<>>, err |-> "ok"]

Fails(c, err) == [c EXCEPT !.err = err]

\* Directory::send
dir_send(c, n, to, body) ==
    IF to \notin DOMAIN c.dir.boxes THEN Fails(c, "NoMailbox")
    ELSE [c EXCEPT !.dir.boxes[to] = Append(@, [from |-> n, body |-> body]),
                   !.posted = IF body.kind = "Encrypted"
                              THEN @ \cup {[to |-> to, body |-> body]} ELSE @]

------------------------------------------------------------------------------
(* Sending *)

\* A hash of the three
msg_id(sid, now, n) == <<sid, now, n>>

MessageRecord(id, pt, user, sid) ==
    [id |-> id, pt |-> pt, user |-> user, sid |-> sid, attempts |-> 1]

\* What EncryptTo has done, and the session and message it made if it succeeds
Sealing(c, sid, sealed) == [c |-> c, sid |-> sid, sealed |-> sealed]

\* Encrypt on the session that is active after prepare_outbound returned p; a new
\* session has drawn two values.
EncryptOn(c, to, p, pt, new) ==
    LET kept == [c EXCEPT !.mgr = p.mgr,
                          !.drawn = IF p.id = Some(new) THEN @ + 2 ELSE @]
        Store(r) ==
            Sealing([kept EXCEPT
                        !.mgr.users[to[1]].devices[to[2]].active[1].ratchet = r.st,
                        !.err = r.err], p.id[1], r)
    IN  IF p.err /= "ok" THEN Sealing(Fails(kept, p.err), None, None)
        ELSE Store(DR!encrypt(Device(p.mgr, to[1], to[2]).active[1].ratchet, pt, Ad))

\* prepare_outbound with the secret and the peer's key of a new session
EncryptTo(c, n, to, pt, sk, dh) ==
    EncryptOn(c, to,
        prepare_outbound(c.mgr, to[1], to[2], Identity(to[1]),
                         DR!init_alice(<<sk>>, <<n, c.drawn + 1>>, dh),
                         <<n, c.drawn + 2>>),
        pt, <<n, c.drawn + 2>>)

\* One device of a recipient; i devices of its user have been sent to before.
SendToDevice(c, n, to, pt, now, i) ==
    LET Keep(s, id, sid) ==
            IF s.err /= "ok" THEN s
            ELSE [s EXCEPT !.records = Append(@, MessageRecord(id, pt, to[1], sid))]
        Post(e, id) ==
            Keep(dir_send(e.c, n, to, Encrypted(id, e.sid, e.sealed)), id, e.sid)
        Number(e) == IF e.c.err /= "ok" THEN e.c ELSE Post(e, msg_id(e.sid, now, i))
    IN  Number(EncryptTo(c, n, to, pt, Secret(n, to[1]), SignedPrekey(to[1])))

SendToUser(c, n, u, pt, now) ==
    LET others == SelectSeq(IF u \in DOMAIN c.dir.devices THEN c.dir.devices[u]
                            ELSE <<>>, LAMBDA dv : <<u, dv>> /= n)
    IN  FoldLeft(LAMBDA a, i : IF a.err /= "ok" THEN a
                               ELSE SendToDevice(a, n, <<u, others[i]>>, pt, now, i - 1),
                 c, [i \in 1 .. Len(others) |-> i])

\* SesameNode::send
send(c, n, recipients, pt, now) ==
    FoldLeft(LAMBDA a, u : IF a.err /= "ok" THEN a ELSE SendToUser(a, n, u, pt, now),
             c, recipients)

------------------------------------------------------------------------------
(* Receiving *)

\* The session with the sender's id, or else the active one, whose id was
\* chosen at this end.  A DH step draws a key.
try_decrypt(c, n, from, sid, header, ct) ==
    LET d == Device(c.mgr, from[1], from[2])
        pos == CHOOSE i \in 1 .. Len(d.inactive) : d.inactive[i].id = sid
        Open(st, Store(_)) ==
            LET Keep(r) ==
                    IF r.err /= "ok" THEN Fails(c, r.err)
                    ELSE [c EXCEPT
                             !.drawn = IF r.st.dhs = st.dhs THEN @ ELSE @ + 1,
                             !.mgr = SetDevice(@, from[1], from[2], Store(r.st))]
            IN  Keep(DR!decrypt(st, header, ct, Ad, <<n, c.drawn + 1>>))
    IN  IF ~HasDevice(c.mgr, from[1], from[2]) THEN Fails(c, "Internal")
        ELSE IF ~IsActive(d, sid) /\ IsInactive(d, sid)
        THEN Open(d.inactive[pos].ratchet,
                  LAMBDA st : [d EXCEPT !.inactive[pos].ratchet = st])
        ELSE IF d.active = None THEN Fails(c, "Internal")
        ELSE Open(d.active[1].ratchet, LAMBDA st : [d EXCEPT !.active[1].ratchet = st])

\* The receipt is sent before the plaintext is kept for the caller.
Acknowledge(c, n, from, b) ==
    LET Keep(s) == IF s.err /= "ok" THEN s ELSE [s EXCEPT !.out = Append(@, b.ct.pt)]
    IN  Keep(dir_send([c EXCEPT !.opened = Append(@, b.ct.pt)], n, from,
                      DeliveryReceipt(b.id)))

\* Mutant of ReceiveEncrypted: no retry request for a device without sessions
ReceiveUnknownIgnored(c, n, from, b) ==
    LET Opened(r) ==
            IF r.err = "Internal" THEN c
            ELSE IF r.err /= "ok" THEN dir_send(c, n, from, RetryRequest(b.id))
            ELSE Acknowledge(r, n, from, b)
    IN  Opened(try_decrypt(c, n, from, b.sid, b.header, b.ct))

ReceiveEncrypted(c, n, from, b) ==
    LET Confirm(m) == confirm_session(m, from[1], from[2], b.sid).mgr
        Opened(r) ==
            IF r.err /= "ok" THEN dir_send(c, n, from, RetryRequest(b.id))
            ELSE Acknowledge([r EXCEPT !.mgr =
                     Confirm(receive_on_session(@, from[1], from[2], b.sid).mgr)],
                     n, from, b)
    IN  Opened(try_decrypt(c, n, from, b.sid, b.header, b.ct))

\* Mutant of Position: the newest record with this id
NewestPosition(recs, id) ==
    CHOOSE i \in 1 .. Len(recs) :
        recs[i].id = id /\ \A j \in i + 1 .. Len(recs) : recs[j].id /= id

\* The oldest record with this id
Position(recs, id) ==
    CHOOSE i \in 1 .. Len(recs) :
        recs[i].id = id /\ \A j \in 1 .. i - 1 : recs[j].id /= id

HasRecord(recs, id) == \E i \in 1 .. Len(recs) : recs[i].id = id

\* Encrypt the i-th record again and post it under a new id, which the record
\* takes over as Update says
Resend(c, n, from, i, now, Update(_, _)) ==
    LET Post(e, id) ==
            dir_send([e.c EXCEPT !.records[i] = Update(@, [id |-> id, sid |-> e.sid])],
                     n, from, Encrypted(id, e.sid, e.sealed))
        Number(e) == IF e.c.err /= "ok" THEN e.c
                     ELSE Post(e, msg_id(e.sid, now, e.c.records[i].attempts))
    IN  Number(EncryptTo(c, n, from, c.records[i].pt, RetrySecret, Identity(from[1])))

\* The checks of handle_retry, before Again does the work on the record
Retry(c, from, id, Again(_)) ==
    LET At(i) ==
            IF c.records[i].attempts >= MAX_RESEND_ATTEMPTS THEN Fails(c, "Exhausted")
            ELSE IF c.records[i].user /= from[1] THEN c
            ELSE Again(i)
    IN  IF ~HasRecord(c.records, id) THEN Fails(c, "NoRecord")
        ELSE At(Position(c.records, id))

Counted(c, i) == [c EXCEPT !.records[i].attempts = @ + 1]
TakesOver(rec, new) == [rec EXCEPT !.id = new.id, !.sid = new.sid]

\* Mutants of handle_retry: the attempt is not counted; the record keeps the
\* id of the first attempt.
RetryUncounted(c, n, from, id, now) ==
    Retry(c, from, id, LAMBDA i : Resend(c, n, from, i, now, TakesOver))

RetryKeepsId(c, n, from, id, now) ==
    Retry(c, from, id,
          LAMBDA i : Resend(Counted(c, i), n, from, i, now, LAMBDA rec, new : rec))

\* The attempt is counted before anything can fail.
handle_retry(c, n, from, id, now) ==
    Retry(c, from, id, LAMBDA i : Resend(Counted(c, i), n, from, i, now, TakesOver))

ReceiveReceipt(c, id) ==
    [c EXCEPT !.records = SelectSeq(@, LAMBDA r : r.id /= id)]

\* SesameNode::receive_all: the mailbox is emptied first, and the first error
\* ends the call.
receive_all(c, n, now) ==
    LET inbox == IF n \in DOMAIN c.dir.boxes THEN c.dir.boxes[n] ELSE <<>>
        fetched == IF n \in DOMAIN c.dir.boxes THEN [c EXCEPT !.dir.boxes[n] = <<>>]
                   ELSE c
        Step(a, env) ==
            CASE a.err /= "ok" -> a
              [] a.err = "ok" /\ env.body.kind = "Encrypted" ->
                    ReceiveEncrypted(a, n, env.from, env.body)
              [] a.err = "ok" /\ env.body.kind = "RetryRequest" ->
                    handle_retry(a, n, env.from, env.body.id, now)
              [] a.err = "ok" /\ env.body.kind = "DeliveryReceipt" ->
                    ReceiveReceipt(a, env.body.id)
    IN  FoldLeft(Step, fetched, inbox)

------------------------------------------------------------------------------

Init ==
    /\ dir = [devices |-> NoUsers, boxes |-> NoUsers]
    /\ mgr = [n \in Node |-> NewManager]
    /\ records = [n \in Node |-> <<>>]
    /\ drawn = [n \in Node |-> 0]
    /\ clock = 0
    /\ sends = [n \in Node |-> 0]
    /\ failures = 0
    /\ posted = {}
    /\ returned = [n \in Node |-> EmptyBag]
    /\ opened = [n \in Node |-> EmptyBag]
    /\ errors = [n \in Node |-> {}]

\* The end of a call: what it has changed stays, also after an error, but the
\* plaintexts are returned only without one.
Return(n, c) ==
    LET BagOf(seq) == FoldLeft(LAMBDA b, x : b (+) SetToBag({x}), EmptyBag, seq)
    IN  /\ dir' = c.dir
        /\ mgr' = [mgr EXCEPT ![n] = c.mgr]
        /\ records' = [records EXCEPT ![n] = c.records]
        /\ drawn' = [drawn EXCEPT ![n] = c.drawn]
        /\ posted' = c.posted
        /\ opened' = [opened EXCEPT ![n] = @ (+) BagOf(c.opened)]
        /\ returned' = [returned EXCEPT ![n] = IF c.err = "ok" THEN @ (+) BagOf(c.out)
                                               ELSE @]
        /\ errors' = [errors EXCEPT ![n] = IF c.err = "ok" THEN @ ELSE @ \cup {c.err}]

Register(n) ==
    /\ n \notin DOMAIN dir.boxes
    /\ dir' = register(dir, n)
    /\ UNCHANGED <<mgr, records, drawn, clock, sends, failures, history>>

Send(n) ==
    /\ sends[n] < MaxSends[n]
    /\ sends' = [sends EXCEPT ![n] = @ + 1]
    /\ Return(n, send(Call(n), n, Recipients[n], <<n, sends[n]>>, clock))
    /\ UNCHANGED <<clock, failures>>

ReceiveAll(n) ==
    /\ Return(n, receive_all(Call(n), n, clock))
    /\ UNCHANGED <<clock, sends, failures>>

\* The application answers a handshake: it prepares the session that the peer
\* has the secret of.
PrepareInbound(n, from) ==
    LET p == prepare_inbound(mgr[n], from[1], from[2], Identity(from[1]),
                             DR!init_bob(<<Secret(from, User(n))>>,
                                         SignedPrekey(User(n))),
                             <<n, drawn[n] + 1>>)
        c == [Call(n) EXCEPT !.mgr = p.mgr,
                 !.drawn = IF p.id = Some(<<n, drawn[n] + 1>>) THEN @ + 1 ELSE @,
                 !.err = p.err]
    IN  /\ \E e \in posted : e.to = n /\ e.body.sid[1] = from
        /\ Return(n, c)
        /\ UNCHANGED <<clock, sends, failures>>

\* The application gives up a session.
MarkFailed(n, peer) ==
    LET id == Device(mgr[n], peer[1], peer[2]).active[1].id
        f == mark_failed(mgr[n], peer[1], peer[2], id)
    IN  /\ failures < MaxFailed
        /\ HasDevice(mgr[n], peer[1], peer[2])
        /\ Device(mgr[n], peer[1], peer[2]).active /= None
        /\ failures' = failures + 1
        /\ Return(n, [Call(n) EXCEPT !.mgr = f.mgr, !.err = f.err])
        /\ UNCHANGED <<clock, sends>>

Tick ==
    /\ clock < MaxClock
    /\ clock' = clock + 1
    /\ UNCHANGED <<dir, mgr, records, drawn, sends, failures, history>>

Next ==
    \/ \E n \in Node :
        \/ Register(n)
        \/ Send(n)
        \/ ReceiveAll(n)
        \/ \E from \in Node : PrepareInbound(n, from)
        \/ \E peer \in Node : MarkFailed(n, peer)
    \/ Tick

Spec == Init /\ [][Next]_vars

------------------------------------------------------------------------------
(* Properties *)

Sent == {<<e.body.ct.pt, e.to>> : e \in posted}
Copies(x) == {e \in posted : e.body.ct.pt = x[1] /\ e.to = x[2]}

(***************************************************************************)
(* A plaintext is put into a device's mailbox at most MAX_RESEND_ATTEMPTS  *)
(* times, whatever retry requests, clock values and failed sessions come   *)
(* together: handle_retry counts before it tries and refuses at the limit. *)
(***************************************************************************)
CopiesBounded == \A x \in Sent : Cardinality(Copies(x)) <= MAX_RESEND_ATTEMPTS

(***************************************************************************)
(* A plaintext is decrypted at most once by each device: the retry of a    *)
(* message that could not be read never brings back one that was, also     *)
(* when the ids of two messages are equal and one retry request or receipt *)
(* names both.                                                             *)
(***************************************************************************)
DeliveredOnce ==
    \A n \in Node : \A pt \in BagToSet(opened[n]) : CopiesIn(pt, opened[n]) = 1

Mailbox(n) == IF n \in DOMAIN dir.boxes THEN ToSet(dir.boxes[n]) ELSE {}

\* A copy is in the mailbox, or a request to send it again that names one
UnderWay(x) ==
    \/ \E env \in Mailbox(x[2]) :
          env.body.kind = "Encrypted" /\ env.body.ct.pt = x[1]
    \/ \E env \in Mailbox(x[1][1]) : env.from = x[2] /\
          env.body.kind = "RetryRequest" /\ \E e \in Copies(x) : e.body.id = env.body.id

Clashes(e) == \E f \in posted : f /= e /\ f.body.id = e.body.id

Lost(x) == x[1] \notin BagToSet(returned[x[2]]) /\ ~UnderWay(x)

(***************************************************************************)
(* receive_all empties the mailbox and then stops at the first error.  A   *)
(* message that was put into a mailbox stays under way until it is         *)
(* returned to the application, unless a call of receive_all at either end *)
(* loses it and returns an error.  A call that succeeds loses a message    *)
(* only if one before it failed and the message shares its id with another *)
(* (msg_id): the retry request it is lost with is answered with the other. *)
(***************************************************************************)
LostOnlyOnError ==
    [][\A x \in Sent' : Lost(x)' =>
        \/ x \in Sent /\ Lost(x)
        \/ \E n \in {x[2], x[1][1]} :
              ReceiveAll(n) /\ receive_all(Call(n), n, clock).err /= "ok"
        \/ /\ errors[x[2]] \cup errors[x[1][1]] /= {}
           /\ \E e \in Copies(x) : Clashes(e)]_vars

(***************************************************************************)
(* A retry request finds its record: receive_all meets an unknown id only  *)
(* after two messages of the node were given one id (msg_id), by two calls *)
(* of send or two retries on one session at one clock value.               *)
(***************************************************************************)
UnknownIdNeedsClash ==
    \A n \in Node : "NoRecord" \in errors[n] =>
        \E e \in posted : e.body.ct.pt[1] = n /\ Clashes(e)
=============================================================================
