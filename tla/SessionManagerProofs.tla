------------------------ MODULE SessionManagerProofs ------------------------
(***************************************************************************)
(* Proofs about the session manager, for all limits, any users, devices    *)
(* and identities, and any number of sessions.                             *)
(***************************************************************************)
EXTENDS SessionManagerLemmas

------------------------------------------------------------------------------
(* The inductive invariant *)

\* WellFormed does not carry itself: that prepare_outbound keeps the limit on
\* sessions being initiated needs the counter to cover them, the counter's bound
\* needs it to be at most the ids drawn, and the identity gate needs what the
\* manager holds as acknowledged to be what the application acknowledged.
IInv ==
    /\ Bounded(mgr)
    /\ clock \in Nat /\ drawn \in 0 .. MaxIds
    /\ mgr.initiating_count <= drawn
    /\ mgr.initiating_count <= MAX_INITIATING_SESSIONS
    /\ DevicesFine(mgr, drawn, clock)
    /\ IsFiniteSet(InitiatingIn(mgr))
    /\ Cardinality(InitiatingIn(mgr)) <= mgr.initiating_count
    /\ acked = Acknowledged(mgr)
    /\ AcknowledgedUntilSwept

\* The types in the invariant.
LEMMA Basics ==
    ASSUME IInv
    PROVE  /\ Bounded(mgr) /\ mgr \in Managers
           /\ drawn \in Nat /\ drawn <= MaxIds /\ drawn + 1 \in Nat
           /\ clock \in Nat
<1>1. Bounded(mgr) /\ clock \in Nat /\ drawn \in 0 .. MaxIds
  BY Zenon DEF IInv
<1>2. mgr \in Managers
  BY <1>1, Zenon DEF Bounded
<1>3. drawn \in Nat /\ drawn <= MaxIds /\ drawn + 1 \in Nat
  BY <1>1, BoundsAssumption
<1>4. QED BY <1>1, <1>2, <1>3

\* Some step's results are no prepare call's.
LEMMA OtherResult ==
    ASSUME NEW op, NEW r, op \notin {"prepare_outbound", "prepare_inbound"},
           Returns(op, r)
    PROVE  AcknowledgedUntilSwept'
<1>1. result'.op = op
  BY DEF Returns
<1>2. QED BY <1>1 DEF AcknowledgedUntilSwept

LEMMA InvInit == Init => IInv
<1> SUFFICES ASSUME Init
             PROVE  IInv
  OBVIOUS
<1>1. /\ mgr = [users |-> NoUsers, initiating_count |-> 0]
      /\ clock = 0 /\ drawn = 0 /\ acked = NoUsers /\ result.op = "new"
  BY DEF Init, NewManager
<1>2. NoUsers \in [{} -> UserRecords] /\ DOMAIN NoUsers = {}
  BY DEF NoUsers
<1>3. NoUsers \in Maps(User, UserRecords)
  BY <1>2, MapIntro, Zenon
<1>4. mgr \in Managers /\ mgr.users = NoUsers /\ mgr.initiating_count = 0
  BY <1>1, <1>3 DEF Managers
<1>5. \A u, dv : ~HasDevice(mgr, u, dv)
  BY <1>2, <1>4 DEF HasDevice
<1>6. InitiatingIn(mgr) = {}
  BY <1>5 DEF InitiatingIn, Devices
<1>7. IsFiniteSet({}) /\ Cardinality({}) = 0
  BY FS_EmptySet
<1>8. Bounded(mgr)
  BY <1>2, <1>4, <1>7, LimitsAssumption DEF Bounded
<1>9. DevicesFine(mgr, drawn, clock)
  BY <1>5 DEF DevicesFine
<1>10. acked = Acknowledged(mgr)
  <2>1. {v \in DOMAIN mgr.users : mgr.users[v].acknowledged /= None} = {}
    BY <1>2, <1>4
  <2>2. QED BY <1>1, <2>1 DEF Acknowledged, NoUsers
<1>11. AcknowledgedUntilSwept
  BY <1>1 DEF AcknowledgedUntilSwept
<1>12. QED
  BY <1>1, <1>4, <1>6, <1>7, <1>8, <1>9, <1>10, <1>11, LimitsAssumption,
     BoundsAssumption DEF IInv

\* More ids and a later time keep every device fine.
LEMMA FineLater ==
    ASSUME NEW m \in Managers, NEW i \in Nat, NEW t \in Nat,
           DevicesFine(m, i, t), NEW j \in Nat, i <= j, NEW w \in Nat, t <= w
    PROVE  DevicesFine(m, j, w)
<1> SUFFICES ASSUME NEW u, NEW dv, HasDevice(m, u, dv)
             PROVE  DeviceFine(Device(m, u, dv), j, w)
  BY DEF DevicesFine
<1>1. Device(m, u, dv) \in DeviceRecords
  BY Lookup DEF HasDevice
<1>2. Device(m, u, dv).stale \in Option(Nat)
  BY <1>1, DeviceParts
<1>3. Device(m, u, dv).stale /= None => Device(m, u, dv).stale[1] \in Nat
  BY <1>2, Options
<1>4. DeviceFine(Device(m, u, dv), i, t)
  BY DEF DevicesFine
<1>5. QED BY <1>3, <1>4 DEF DeviceFine

\* A prepare call that only admits
LEMMA AdmitStep ==
    ASSUME IInv, NEW n, Bounded(n), Grows(mgr, n)
    PROVE  /\ n.initiating_count = mgr.initiating_count
           /\ InitiatingIn(n) = InitiatingIn(mgr)
           /\ Acknowledged(n) = acked
           /\ DevicesFine(n, drawn, clock)
<1>1. mgr \in Managers
  BY DEF IInv, Bounded
<1>2. /\ InitiatingIn(n) = InitiatingIn(mgr)
      /\ Acknowledged(n) = Acknowledged(mgr)
      /\ DevicesFine(n, drawn, clock)
  BY <1>1, GrowsKeeps DEF IInv
<1>3. QED BY <1>2 DEF IInv, Grows

\* Whoever is let through the gate shows the identity acknowledged last.
LEMMA GateStep ==
    ASSUME NEW n, NEW u, NEW dv, NEW identity, HasDevice(n, u, dv),
           n.users[u].acknowledged \in {None, Some(identity)},
           u \in DOMAIN Acknowledged(n)
    PROVE  Acknowledged(n)[u] = identity
  BY DEF Acknowledged, Some

\* k is n with a new session for the device, counted if it is to be confirmed.
Starts(n, k, u, dv, id, status) ==
    /\ HasDevice(n, u, dv)
    /\ Replaces(n, k, u, dv,
          [Device(n, u, dv) EXCEPT !.active = Some(Record(id, status, None))])
    /\ \/ /\ status = "Initiating"
          /\ n.initiating_count < MAX_INITIATING_SESSIONS
          /\ k.initiating_count = n.initiating_count + 1
       \/ /\ status = "Active"
          /\ k.initiating_count = n.initiating_count

\* With a new session the counter still covers those being initiated.
LEMMA StartsKeeps ==
    ASSUME NEW n, Bounded(n), NEW k, NEW u, NEW dv, NEW id \in Nat \ {0},
           NEW status \in Status, Starts(n, k, u, dv, id, status),
           NEW now \in Nat, DevicesFine(n, id, now),
           n.initiating_count < id, n.initiating_count <= MAX_INITIATING_SESSIONS,
           IsFiniteSet(InitiatingIn(n)),
           Cardinality(InitiatingIn(n)) <= n.initiating_count
    PROVE  /\ Bounded(k)
           /\ Acknowledged(k) = Acknowledged(n)
           /\ DevicesFine(k, id, now)
           /\ k.initiating_count <= id
           /\ k.initiating_count <= MAX_INITIATING_SESSIONS
           /\ IsFiniteSet(InitiatingIn(k))
           /\ Cardinality(InitiatingIn(k)) <= k.initiating_count
<1> DEFINE d == Device(n, u, dv)
           s == Record(id, status, None)
           e == [d EXCEPT !.active = Some(s)]
           x == <<u, dv>>
           S == InitiatingIn(n)
<1>1. n \in Managers /\ n.initiating_count \in Nat
  BY Lookup DEF Bounded
<1>2. d \in DeviceRecords
  BY <1>1, Lookup DEF HasDevice, Starts
<1>3. s \in SessionRecords /\ s.id = id /\ s.status = status
  BY RecordType
<1> HIDE DEF s
<1>4. e.active = Some(s) /\ e.stale = d.stale
  BY <1>2, <1>3, DeviceParts
<1>5. Replaces(n, k, u, dv, e)
  BY DEF Starts, s
<1>6. DeviceFine(d, id, now)
  BY DEF Starts, DevicesFine
<1> HIDE DEF d, e
<1>7. DeviceFine(e, id, now)
  BY <1>3, <1>4, <1>6 DEF DeviceFine, Some
<1>8. DevicesFine(k, id, now)
  BY <1>5, <1>7, ReplacesFine
<1>9. /\ Bounded(k) /\ Acknowledged(k) = Acknowledged(n)
      /\ InitiatingIn(k) = InitiatingWith(n, u, dv, e)
  BY <1>5, ReplacesKeeps
<1>10. IsInitiating(e) <=> status = "Initiating"
  BY <1>3, <1>4 DEF IsInitiating, Some, None
<1>11. IsFiniteSet(S) /\ Cardinality(S) <= n.initiating_count
  OBVIOUS
<1>12. CASE status = "Initiating"
  <2>1. InitiatingIn(k) = S \cup {x}
    BY <1>9, <1>10, <1>12 DEF InitiatingWith
  <2>2. /\ n.initiating_count < MAX_INITIATING_SESSIONS
        /\ k.initiating_count = n.initiating_count + 1
    BY <1>12 DEF Starts
  <2> HIDE DEF S
  <2>3. /\ IsFiniteSet(S \cup {x}) /\ Cardinality(S) \in Nat
        /\ Cardinality(S \cup {x}) \in Nat
        /\ Cardinality(S \cup {x}) <= Cardinality(S) + 1
    BY <1>11, AddOne, Zenon
  <2>4. QED BY <1>1, <1>8, <1>9, <1>11, <2>1, <2>2, <2>3, LimitsAssumption
<1>13. CASE status = "Active"
  <2>1. InitiatingIn(k) = S \ {x}
    BY <1>9, <1>10, <1>13 DEF InitiatingWith
  <2>2. k.initiating_count = n.initiating_count
    BY <1>13 DEF Starts
  <2> HIDE DEF S
  <2>3. IsFiniteSet(S \ {x}) /\ Cardinality(S \ {x}) <= n.initiating_count
    BY <1>1, <1>11, Smaller
  <2>4. QED BY <1>1, <1>8, <1>9, <2>1, <2>2, <2>3, LimitsAssumption
<1>14. QED BY <1>12, <1>13 DEF Starts

\* A prepare call that admits and, it may be, gives the device a new session of
\* the next id and the given status: what both calls do
LEMMA PreparedStep ==
    ASSUME IInv, NEW op, NEW u \in User, NEW dv \in DeviceName, NEW identity,
           NEW r, Prepared(op, u, identity, r),
           NEW status \in Status, NEW n, Bounded(n), Grows(mgr, n),
           r.err = "ok" => HasDevice(n, u, dv)
                             /\ n.users[u].acknowledged \in {None, Some(identity)},
           \/ r.mgr = n
           \/ r.id = Some(drawn + 1) /\ Starts(n, r.mgr, u, dv, drawn + 1, status)
    PROVE  IInv'
<1>1. /\ mgr' = r.mgr /\ clock' = clock /\ acked' = acked /\ drawn < MaxIds
      /\ drawn' = IF r.id = Some(drawn + 1) THEN drawn + 1 ELSE drawn
      /\ result' = [op |-> op, err |-> r.err, id |-> r.id, with |-> <<u, identity>>]
  BY DEF Prepared
<1>2. /\ n.initiating_count = mgr.initiating_count
      /\ InitiatingIn(n) = InitiatingIn(mgr)
      /\ Acknowledged(n) = acked
      /\ DevicesFine(n, drawn, clock)
  BY AdmitStep
<1>3. /\ clock \in Nat /\ drawn \in Nat /\ drawn' \in 0 .. MaxIds /\ drawn <= drawn'
      /\ drawn + 1 \in Nat
  BY <1>1, BoundsAssumption DEF IInv
<1>4. /\ mgr.initiating_count <= drawn
      /\ mgr.initiating_count <= MAX_INITIATING_SESSIONS
      /\ IsFiniteSet(InitiatingIn(n))
      /\ Cardinality(InitiatingIn(n)) <= mgr.initiating_count
      /\ mgr.initiating_count \in Nat
  BY <1>2, Lookup DEF IInv, Bounded
<1>5. n \in Managers
  BY DEF Bounded
<1>6. ASSUME Acknowledged(r.mgr) = acked
      PROVE  acked' = Acknowledged(mgr') /\ AcknowledgedUntilSwept'
  <2>1. acked' = Acknowledged(mgr')
    BY <1>1, <1>6
  <2>2. ASSUME result'.err = "ok", u \in DOMAIN acked
        PROVE  acked[u] = identity
    <3>1. r.err = "ok"
      BY <1>1, <2>2
    <3>2. QED BY <1>2, <2>2, <3>1, GateStep, Zenon
  <2>3. result'.with[1] = u /\ result'.with[2] = identity
    BY <1>1
  <2>4. QED BY <1>1, <2>1, <2>2, <2>3 DEF AcknowledgedUntilSwept
<1>7. CASE r.mgr = n
  <2>1. DevicesFine(mgr', drawn', clock')
    BY <1>1, <1>2, <1>3, <1>5, <1>7, FineLater
  <2>2. QED BY <1>1, <1>2, <1>3, <1>4, <1>6, <1>7, <2>1 DEF IInv
<1>8. CASE r.id = Some(drawn + 1) /\ Starts(n, r.mgr, u, dv, drawn + 1, status)
  <2> DEFINE k == r.mgr
  <2>1. drawn' = drawn + 1 /\ drawn + 1 \in Nat \ {0}
    BY <1>1, <1>3, <1>8
  <2>2. DevicesFine(n, drawn + 1, clock)
    BY <1>2, <1>3, <1>5, FineLater
  <2>3. /\ n.initiating_count < drawn + 1
        /\ n.initiating_count <= MAX_INITIATING_SESSIONS
        /\ Cardinality(InitiatingIn(n)) <= n.initiating_count
    BY <1>2, <1>3, <1>4
  <2>4. Starts(n, k, u, dv, drawn + 1, status)
    BY <1>8
  <2> HIDE DEF k
  <2>5. /\ Bounded(k)
        /\ Acknowledged(k) = Acknowledged(n)
        /\ DevicesFine(k, drawn + 1, clock)
        /\ k.initiating_count <= drawn + 1
        /\ k.initiating_count <= MAX_INITIATING_SESSIONS
        /\ IsFiniteSet(InitiatingIn(k))
        /\ Cardinality(InitiatingIn(k)) <= k.initiating_count
    BY <1>3, <1>4, <2>1, <2>2, <2>3, <2>4, StartsKeeps
  <2>6. acked' = Acknowledged(mgr') /\ AcknowledgedUntilSwept'
    BY <1>2, <1>6, <2>5 DEF k
  <2>7. mgr' = k
    BY <1>1 DEF k
  <2>8. QED BY <1>1, <1>3, <2>1, <2>5, <2>6, <2>7 DEF IInv
<1>9. QED BY <1>7, <1>8

\* Replacing a device by one whose session is not being initiated, or is as it
\* was, with the counter still covering
LEMMA ReplacedStep ==
    ASSUME IInv, NEW u, NEW dv, NEW d, Replaces(mgr, mgr', u, dv, d),
           DeviceFine(d, drawn, clock),
           UNCHANGED <<clock, drawn, acked>>, AcknowledgedUntilSwept',
           \/ /\ mgr'.initiating_count = mgr.initiating_count
              /\ IsInitiating(d) => IsInitiating(Device(mgr, u, dv))
           \/ /\ IsInitiating(Device(mgr, u, dv)) /\ ~IsInitiating(d)
              /\ mgr'.initiating_count =
                    IF mgr.initiating_count = 0 THEN 0 ELSE mgr.initiating_count - 1
    PROVE  IInv'
<1> DEFINE S == InitiatingIn(mgr)
           x == <<u, dv>>
<1>0. x \in Devices(mgr)
  BY KnownDevice DEF IInv, Bounded, Replaces
<1>1. /\ Bounded(mgr')
      /\ IsInitiating(d) => InitiatingIn(mgr') = S \cup {x}
      /\ ~IsInitiating(d) => InitiatingIn(mgr') = S \ {x}
      /\ Acknowledged(mgr') = Acknowledged(mgr)
      /\ DevicesFine(mgr', drawn, clock)
  BY ReplacesKeeps, ReplacesFine DEF IInv, InitiatingWith
<1>2. IsInitiating(Device(mgr, u, dv)) => x \in S
  BY <1>0 DEF InitiatingIn
<1> HIDE DEF S
<1>3. /\ mgr.initiating_count \in Nat /\ drawn \in Nat
      /\ mgr.initiating_count <= drawn
      /\ mgr.initiating_count <= MAX_INITIATING_SESSIONS
      /\ IsFiniteSet(S) /\ Cardinality(S) <= mgr.initiating_count
  BY Basics, Lookup DEF IInv, S
<1>4. /\ mgr'.initiating_count <= drawn
      /\ mgr'.initiating_count <= MAX_INITIATING_SESSIONS
      /\ IsFiniteSet(InitiatingIn(mgr'))
      /\ Cardinality(InitiatingIn(mgr')) <= mgr'.initiating_count
  <2>1. CASE /\ mgr'.initiating_count = mgr.initiating_count
             /\ IsInitiating(d) => IsInitiating(Device(mgr, u, dv))
    <3>1. InitiatingIn(mgr') \subseteq S
      BY <1>1, <1>2, <2>1
    <3>2. IsFiniteSet(InitiatingIn(mgr'))
          /\ Cardinality(InitiatingIn(mgr')) <= mgr.initiating_count
      BY <1>3, <3>1, Smaller
    <3>3. QED BY <1>3, <2>1, <3>2
  <2>2. CASE /\ IsInitiating(Device(mgr, u, dv)) /\ ~IsInitiating(d)
             /\ mgr'.initiating_count =
                   IF mgr.initiating_count = 0 THEN 0 ELSE mgr.initiating_count - 1
    <3>1. InitiatingIn(mgr') = S \ {x} /\ x \in S
      BY <1>1, <1>2, <2>2
    <3>2. IsFiniteSet(S \ {x}) /\ Cardinality(S \ {x}) = Cardinality(S) - 1
      BY <1>3, <3>1, FS_RemoveElement, Zenon
    <3>3. Cardinality(S) \in Nat /\ Cardinality(S \ {x}) \in Nat
      BY <1>3, <3>2, FS_CardinalityType
    <3>4. QED BY <1>3, <2>2, <3>1, <3>2, <3>3, LimitsAssumption
  <2>3. QED BY <2>1, <2>2
<1>5. QED BY <1>1, <1>4 DEF IInv

LEMMA SameManager ==
    ASSUME IInv, UNCHANGED <<mgr, drawn, acked>>, clock' \in Nat, clock <= clock',
           AcknowledgedUntilSwept'
    PROVE  IInv'
<1>1. mgr \in Managers /\ drawn \in Nat /\ clock \in Nat /\ DevicesFine(mgr, drawn, clock)
  BY Basics, Zenon DEF IInv
<1>2. DevicesFine(mgr, drawn, clock')
  BY <1>1, FineLater
<1>3. QED BY <1>2 DEF IInv

\* What is known of a device of the manager
LEMMA DeviceKnown ==
    ASSUME IInv, NEW u, NEW dv, HasDevice(mgr, u, dv)
    PROVE  /\ mgr \in Managers
           /\ Device(mgr, u, dv) \in DeviceRecords
           /\ DeviceFine(Device(mgr, u, dv), drawn, clock)
           /\ clock \in Nat /\ drawn \in Nat
<1>1. mgr \in Managers
  BY DEF IInv, Bounded
<1>2. Device(mgr, u, dv) \in DeviceRecords
  BY <1>1, Lookup DEF HasDevice
<1>3. QED BY <1>1, <1>2, BoundsAssumption DEF IInv, DevicesFine

LEMMA OutboundStep ==
    ASSUME IInv, NEW u \in User, NEW dv \in DeviceName, NEW i \in Identity,
           PrepareOutbound(u, dv, i)
    PROVE  IInv'
<1> DEFINE r == prepare_outbound(mgr, u, dv, i, None, drawn + 1)
<1>1. Bounded(mgr) /\ drawn + 1 \in Nat
  BY BoundsAssumption DEF IInv
<1>2. PICK n : OutboundResult(mgr, n, r, u, dv, i, drawn + 1)
  BY <1>1, OutboundOutcomes
<1>3. Prepared("prepare_outbound", u, i, r)
  BY DEF PrepareOutbound
<1> HIDE DEF r
<1>4. \/ r.mgr = n
      \/ r.id = Some(drawn + 1) /\ Starts(n, r.mgr, u, dv, drawn + 1, "Initiating")
  BY <1>2 DEF OutboundResult, Starts
<1>5. /\ Bounded(n) /\ Grows(mgr, n)
      /\ r.err = "ok" => HasDevice(n, u, dv)
                           /\ n.users[u].acknowledged \in {None, Some(i)}
  BY <1>2 DEF OutboundResult
<1>6. QED BY <1>3, <1>4, <1>5, PreparedStep DEF Status

LEMMA InboundStep ==
    ASSUME IInv, NEW u \in User, NEW dv \in DeviceName, NEW i \in Identity,
           PrepareInbound(u, dv, i)
    PROVE  IInv'
<1> DEFINE r == prepare_inbound(mgr, u, dv, i, None, drawn + 1)
<1>1. Bounded(mgr) /\ drawn + 1 \in Nat
  BY BoundsAssumption DEF IInv
<1>2. PICK n : InboundResult(mgr, n, r, u, dv, i, drawn + 1)
  BY <1>1, InboundOutcomes
<1>3. Prepared("prepare_inbound", u, i, r)
  BY DEF PrepareInbound
<1> HIDE DEF r
<1>4. \/ r.mgr = n
      \/ r.id = Some(drawn + 1) /\ Starts(n, r.mgr, u, dv, drawn + 1, "Active")
  BY <1>2 DEF InboundResult, Starts
<1>5. /\ Bounded(n) /\ Grows(mgr, n)
      /\ r.err = "ok" => HasDevice(n, u, dv)
                           /\ n.users[u].acknowledged \in {None, Some(i)}
  BY <1>2 DEF InboundResult
<1>6. QED BY <1>3, <1>4, <1>5, PreparedStep DEF Status

LEMMA ConfirmStep ==
    ASSUME IInv, NEW u, NEW dv, NEW id, ConfirmSession(u, dv, id)
    PROVE  IInv'
<1> DEFINE d == Device(mgr, u, dv)
           e == Restatus(d, "Active")
<1>1. /\ mgr' = confirm_session(mgr, u, dv, id).mgr
      /\ UNCHANGED <<clock, drawn, acked>>
      /\ Returns("confirm_session", confirm_session(mgr, u, dv, id))
  BY DEF ConfirmSession
<1>2. AcknowledgedUntilSwept'
  BY <1>1, OtherResult
<1>3. mgr \in Managers /\ clock \in Nat
  BY DEF IInv, Bounded
<1>4. CASE mgr' = mgr
  BY <1>1, <1>2, <1>3, <1>4, SameManager, SMTT(30)
<1>5. CASE /\ HasDevice(mgr, u, dv) /\ IsInitiating(d)
           /\ Replaces(mgr, mgr', u, dv, e)
           /\ mgr'.initiating_count =
                 IF mgr.initiating_count = 0 THEN 0 ELSE mgr.initiating_count - 1
  <2>1. d \in DeviceRecords /\ DeviceFine(d, drawn, clock) /\ d.active /= None
    BY <1>5, DeviceKnown DEF IsInitiating
  <2>2. /\ e.active /= None /\ e.active[1].id = d.active[1].id
        /\ e.active[1].status = "Active" /\ e.stale = d.stale
    BY <2>1, RestatusParts DEF Status
  <2> HIDE DEF d, e
  <2>3. DeviceFine(e, drawn, clock) /\ ~IsInitiating(e)
    BY <2>1, <2>2 DEF DeviceFine, IsInitiating
  <2>4. QED BY <1>1, <1>2, <1>5, <2>3, ReplacedStep DEF d
<1>6. QED BY <1>1, <1>3, <1>4, <1>5, ConfirmOutcomes

LEMMA ReceiveStep ==
    ASSUME IInv, NEW u, NEW dv, NEW id, ReceiveOnSession(u, dv, id)
    PROVE  mgr' = mgr /\ IInv'
<1>1. mgr \in Managers /\ clock \in Nat
  BY DEF IInv, Bounded
<1>2. mgr' = mgr /\ UNCHANGED <<clock, drawn, acked>>
  BY <1>1, ReceiveOutcome DEF ReceiveOnSession
<1>3. AcknowledgedUntilSwept'
  BY OtherResult DEF ReceiveOnSession
<1>4. QED BY <1>1, <1>2, <1>3, SameManager

LEMMA FailStep ==
    ASSUME IInv, NEW u, NEW dv, NEW id, MarkFailed(u, dv, id)
    PROVE  IInv'
<1> DEFINE d == Device(mgr, u, dv)
           e == Restatus(d, "Failed")
<1>1. /\ mgr' = mark_failed(mgr, u, dv, id).mgr
      /\ UNCHANGED <<clock, drawn, acked>>
      /\ Returns("mark_failed", mark_failed(mgr, u, dv, id))
  BY DEF MarkFailed
<1>2. AcknowledgedUntilSwept'
  BY <1>1, OtherResult
<1>3. mgr \in Managers /\ clock \in Nat
  BY DEF IInv, Bounded
<1>4. CASE mgr' = mgr
  BY <1>1, <1>2, <1>3, <1>4, SameManager
<1>5. CASE /\ HasDevice(mgr, u, dv) /\ IsActive(d, id)
           /\ Replaces(mgr, mgr', u, dv, e)
           /\ mgr'.initiating_count = mgr.initiating_count
  <2>1. d \in DeviceRecords /\ DeviceFine(d, drawn, clock) /\ d.active /= None
    BY <1>5, DeviceKnown DEF IsActive
  <2>2. /\ e.active /= None /\ e.active[1].id = d.active[1].id
        /\ e.active[1].status = "Failed" /\ e.stale = d.stale
    BY <2>1, RestatusParts DEF Status
  <2> HIDE DEF d, e
  <2>3. DeviceFine(e, drawn, clock) /\ ~IsInitiating(e)
    BY <2>1, <2>2 DEF DeviceFine, IsInitiating
  <2>4. QED BY <1>1, <1>2, <1>5, <2>3, ReplacedStep DEF d
<1>6. QED BY <1>1, <1>3, <1>4, <1>5, FailOutcomes

LEMMA StaleStep ==
    ASSUME IInv, NEW u, NEW dv, MarkDeviceStale(u, dv)
    PROVE  IInv'
<1> DEFINE d == Device(mgr, u, dv)
           e == [d EXCEPT !.stale = Some(clock)]
<1>1. /\ mgr' = mark_device_stale(mgr, u, dv, clock).mgr
      /\ UNCHANGED <<clock, drawn, acked>>
      /\ Returns("mark_device_stale", mark_device_stale(mgr, u, dv, clock))
  BY DEF MarkDeviceStale
<1>2. AcknowledgedUntilSwept'
  BY <1>1, OtherResult
<1>3. mgr \in Managers /\ clock \in Nat
  BY DEF IInv, Bounded
<1>4. CASE mgr' = mgr
  BY <1>1, <1>2, <1>3, <1>4, SameManager, SMTT(30)
<1>5. CASE /\ HasDevice(mgr, u, dv)
           /\ Replaces(mgr, mgr', u, dv, e)
           /\ mgr'.initiating_count = mgr.initiating_count
           /\ e.active = d.active /\ e.stale = Some(clock)
  <2>1. DeviceFine(d, drawn, clock)
    BY <1>5, DeviceKnown
  <2> HIDE DEF d, e
  <2>2. DeviceFine(e, drawn, clock) /\ (IsInitiating(e) <=> IsInitiating(d))
    BY <1>3, <1>5, <2>1 DEF DeviceFine, IsInitiating, Some
  <2>3. QED BY <1>1, <1>2, <1>5, <2>2, ReplacedStep DEF d
<1>6. QED BY <1>1, <1>3, <1>4, <1>5, StaleOutcomes

LEMMA SweepStep ==
    ASSUME IInv, SweepStale
    PROVE  IInv'
<1> DEFINE n == sweep_stale(mgr, clock)
<1>1. /\ mgr' = n /\ UNCHANGED <<clock, drawn>>
      /\ acked' = [u \in DOMAIN acked \cap DOMAIN mgr'.users |-> acked[u]]
      /\ Returns("sweep_stale", [err |-> "ok"])
  BY DEF SweepStale
<1>2. AcknowledgedUntilSwept'
  BY <1>1, OtherResult
<1>3. /\ Bounded(n)
      /\ n.initiating_count = mgr.initiating_count
      /\ DOMAIN n.users \subseteq DOMAIN mgr.users
      /\ \A u \in DOMAIN n.users :
            n.users[u].acknowledged = mgr.users[u].acknowledged
      /\ \A u, dv : HasDevice(n, u, dv) =>
            HasDevice(mgr, u, dv) /\ Device(n, u, dv) = Device(mgr, u, dv)
  BY SweepOutcome DEF IInv
<1> HIDE DEF n
<1>4. DevicesFine(n, drawn, clock)
  BY <1>3 DEF IInv, DevicesFine
<1>5. InitiatingIn(n) \subseteq InitiatingIn(mgr)
  BY <1>3 DEF InitiatingIn, Devices
<1>6. /\ IsFiniteSet(InitiatingIn(mgr)) /\ mgr.initiating_count \in Nat
      /\ Cardinality(InitiatingIn(mgr)) <= mgr.initiating_count
  BY Lookup DEF IInv, Bounded
<1>7. IsFiniteSet(InitiatingIn(n)) /\ Cardinality(InitiatingIn(n)) <= mgr.initiating_count
  BY <1>5, <1>6, Smaller
<1>8. acked' = Acknowledged(mgr')
  <2>1. acked = Acknowledged(mgr)
    BY DEF IInv
  <2>2. DOMAIN acked \cap DOMAIN n.users
          = {v \in DOMAIN n.users : n.users[v].acknowledged /= None}
    BY <1>3, <2>1 DEF Acknowledged
  <2>3. \A u \in DOMAIN acked \cap DOMAIN n.users : acked[u] = n.users[u].acknowledged[1]
    BY <1>3, <2>1 DEF Acknowledged
  <2>4. QED BY <1>1, <2>2, <2>3 DEF Acknowledged
<1>9. QED BY <1>1, <1>2, <1>3, <1>4, <1>7, <1>8 DEF IInv

LEMMA AcknowledgeStep ==
    ASSUME IInv, NEW u \in User, NEW i \in Identity, AcknowledgeIdentity(u, i)
    PROVE  IInv'
<1> DEFINE n == [mgr EXCEPT !.users[u].acknowledged = Some(i)]
<1>1. UNCHANGED <<clock, drawn>> /\ AcknowledgedUntilSwept'
  BY OtherResult DEF AcknowledgeIdentity
<1>2. CASE u \notin DOMAIN mgr.users
  <2>1. UNCHANGED <<mgr, acked>> /\ clock \in Nat
    BY <1>2 DEF AcknowledgeIdentity, acknowledge_identity, IInv
  <2>2. QED BY <1>1, <2>1, SameManager
<1>3. CASE u \in DOMAIN mgr.users
  <2>1. mgr' = n /\ acked' = Put(acked, u, i)
    BY <1>3 DEF AcknowledgeIdentity, acknowledge_identity
  <2>2. /\ Bounded(n)
        /\ n.initiating_count = mgr.initiating_count
        /\ \A v, dv : HasDevice(n, v, dv) <=> HasDevice(mgr, v, dv)
        /\ \A v, dv : HasDevice(mgr, v, dv) => Device(n, v, dv) = Device(mgr, v, dv)
        /\ Acknowledged(n) = Put(Acknowledged(mgr), u, i)
    BY <1>3, AcknowledgeOutcome, Zenon DEF IInv
  <2> HIDE DEF n
  <2>3. InitiatingIn(n) = InitiatingIn(mgr)
    BY <2>2 DEF InitiatingIn, Devices
  <2>4. DevicesFine(n, drawn, clock)
    BY <2>2 DEF IInv, DevicesFine
  <2>5. QED BY <1>1, <2>1, <2>2, <2>3, <2>4 DEF IInv
<1>4. QED BY <1>2, <1>3

LEMMA InvNext == IInv /\ [Next]_vars => IInv'
<1> SUFFICES ASSUME IInv, [Next]_vars
             PROVE  IInv'
  OBVIOUS
<1>1. ASSUME NEW u \in User, NEW dv \in DeviceName, NEW i \in Identity,
             PrepareOutbound(u, dv, i)
      PROVE  IInv'
  BY <1>1, OutboundStep
<1>2. ASSUME NEW u \in User, NEW dv \in DeviceName, NEW i \in Identity,
             PrepareInbound(u, dv, i)
      PROVE  IInv'
  BY <1>2, InboundStep
<1>3. ASSUME NEW u \in User, NEW dv \in DeviceName, NEW id \in 1 .. drawn,
             ConfirmSession(u, dv, id) \/ ReceiveOnSession(u, dv, id)
               \/ MarkFailed(u, dv, id)
      PROVE  IInv'
  BY <1>3, ConfirmStep, ReceiveStep, FailStep
<1>4. ASSUME NEW u \in User, NEW dv \in DeviceName, MarkDeviceStale(u, dv)
      PROVE  IInv'
  BY <1>4, StaleStep
<1>5. CASE SweepStale
  BY <1>5, SweepStep
<1>6. ASSUME NEW u \in User, NEW i \in Identity, AcknowledgeIdentity(u, i)
      PROVE  IInv'
  BY <1>6, AcknowledgeStep
<1>7. CASE Tick
  <2>1. clock \in Nat /\ AcknowledgedUntilSwept
    BY DEF IInv
  <2>2. UNCHANGED <<mgr, drawn, acked, result>> /\ clock' = clock + 1
    BY <1>7 DEF Tick
  <2>3. AcknowledgedUntilSwept'
    BY <2>1, <2>2 DEF AcknowledgedUntilSwept
  <2>4. QED BY <2>1, <2>2, <2>3, SameManager
<1>8. CASE UNCHANGED vars
  <2>1. clock \in Nat /\ AcknowledgedUntilSwept
    BY DEF IInv
  <2>2. UNCHANGED <<mgr, drawn, acked, result, clock>>
    BY <1>8 DEF vars
  <2>3. AcknowledgedUntilSwept'
    BY <2>1, <2>2 DEF AcknowledgedUntilSwept
  <2>4. QED BY <2>1, <2>2, <2>3, SameManager
<1>9. QED BY <1>1, <1>2, <1>3, <1>4, <1>5, <1>6, <1>7, <1>8 DEF Next

LEMMA Invariance == Spec => []IInv
<1>1. QED BY InvInit, InvNext, PTL DEF Spec

LEMMA InvImpliesWellFormed == IInv => WellFormed
<1> SUFFICES ASSUME IInv
             PROVE  WellFormed
  OBVIOUS
<1>1. mgr \in Managers /\ mgr.initiating_count \in Nat /\ drawn \in Nat
      /\ mgr.initiating_count <= drawn /\ drawn <= MaxIds /\ clock \in Nat
  BY Basics, Lookup DEF IInv
<1>2. Initiating = InitiatingIn(mgr)
  BY DEF Initiating, InitiatingIn, IsInitiating
<1>3. CountCovers
  <2>1. Cardinality(InitiatingIn(mgr)) \in Nat
    BY FS_CardinalityType DEF IInv
  <2>2. QED BY <1>1, <1>2, <2>1 DEF IInv, CountCovers
<1>4. \A u \in DOMAIN mgr.users :
        /\ u \in User /\ DOMAIN mgr.users[u].devices /= {}
        /\ Cardinality(DOMAIN mgr.users[u].devices) <= MAX_DEVICES_PER_USER
        /\ mgr.users[u].acknowledged \in {None} \cup {Some(i) : i \in Identity}
  <2>1. \A u \in DOMAIN mgr.users :
          u \in User /\ mgr.users[u].acknowledged \in {None} \cup {Some(i) : i \in Identity}
    BY <1>1, Lookup DEF Option
  <2>2. QED BY <2>1 DEF IInv, Bounded
<1>5. ASSUME NEW x \in Devices(mgr)
      PROVE  LET d == Device(mgr, x[1], x[2])
                 records == {d.active[i] : i \in 1 .. Len(d.active)}
                              \cup {d.inactive[i] : i \in 1 .. Len(d.inactive)}
             IN  /\ Len(d.active) <= 1
                 /\ \A r \in records : r.id \in 1 .. drawn /\ r.status \in Status
                 /\ d.stale \in {None} \cup {Some(t) : t \in 0 .. clock}
                 /\ session_count(d) <= MAX_SESSIONS_PER_DEVICE
  <2> DEFINE d == Device(mgr, x[1], x[2])
  <2>1. HasDevice(mgr, x[1], x[2])
    BY DEF Devices
  <2>2. d \in DeviceRecords /\ DeviceFine(d, drawn, clock)
    BY <2>1, DeviceKnown
  <2> HIDE DEF d
  <2>3. /\ d.active \in Option(SessionRecords) /\ d.inactive = <<>>
        /\ d.stale \in Option(Nat)
    BY <2>2, DeviceParts
  <2>4. Len(d.inactive) = 0 /\ {d.inactive[i] : i \in 1 .. Len(d.inactive)} = {}
    BY <2>3
  <2>5. CASE d.active = None
    <3>1. Len(d.active) = 0 /\ {d.active[i] : i \in 1 .. Len(d.active)} = {}
      BY <2>5 DEF None
    <3>2. d.stale \in {None} \cup {Some(t) : t \in 0 .. clock}
      BY <1>1, <2>2, <2>3 DEF DeviceFine, Option, Some
    <3>3. QED BY <2>4, <3>1, <3>2, LimitsAssumption DEF session_count, d
  <2>6. CASE d.active /= None
    <3>1. /\ d.active[1] \in SessionRecords /\ Len(d.active) = 1
          /\ {d.active[i] : i \in 1 .. Len(d.active)} = {d.active[1]}
      BY <2>3, <2>6, Options
    <3>2. d.active[1].id \in 1 .. drawn /\ d.active[1].status \in Status
      BY <2>2, <2>6, <3>1, SMTT(30) DEF DeviceFine, SessionRecords
    <3>3. d.stale \in {None} \cup {Some(t) : t \in 0 .. clock}
      BY <1>1, <2>2, <2>3 DEF DeviceFine, Option, Some
    <3>4. QED BY <2>4, <3>1, <3>2, <3>3, LimitsAssumption DEF session_count, d
  <2>7. QED BY <2>5, <2>6
<1>6. TypeOK
  BY <1>1, <1>4, <1>5, BoundsAssumption DEF TypeOK
<1>7. LimitsHold
  <2>1. Cardinality(Initiating) \in Nat
    BY <1>2, FS_CardinalityType DEF IInv
  <2>2. Cardinality(Initiating) <= MAX_INITIATING_SESSIONS
    BY <1>1, <1>2, <2>1, LimitsAssumption DEF IInv
  <2>3. Cardinality(DOMAIN mgr.users) <= MAX_USERS
    BY DEF IInv, Bounded
  <2>4. QED BY <1>4, <1>5, <2>2, <2>3 DEF LimitsHold
<1>8. QED BY <1>3, <1>6, <1>7 DEF WellFormed

\* For all limits, users, devices and identities, and however the calls of the
\* manager (src/session/mod.rs) are ordered: the records have their types, the
\* limits on users, devices, sessions and initiating sessions hold, and
\* initiating_count covers the sessions being initiated.
THEOREM RecordsWellFormed == Spec => []WellFormed
<1>1. QED BY Invariance, InvImpliesWellFormed, PTL

\* No prepare call succeeds for an identity other than the one the application
\* acknowledged last for the user, until sweep_stale forgets the user.
THEOREM IdentityGate == Spec => []AcknowledgedUntilSwept
<1>1. IInv => AcknowledgedUntilSwept
  BY DEF IInv
<1>2. QED BY <1>1, Invariance, PTL

------------------------------------------------------------------------------
(* What a step does to a device *)

\* The session stays; or it changes its status, but not from Failed; or an
\* unusable one gives way to the session with the next id.
Changes(d, e, id) ==
    \/ e.active = d.active
    \/ /\ d.active /= None /\ e.active /= None
       /\ e.active[1].id = d.active[1].id
       /\ d.active[1].status = "Failed" => e.active[1].status = "Failed"
    \/ ~Usable(d) /\ e.active /= None /\ e.active[1].id = id

\* So it is after replacing a device, and of the others.
LEMMA ReplacedChanges ==
    ASSUME NEW m, NEW n, NEW u, NEW dv, NEW d, Replaces(m, n, u, dv, d), NEW id,
           Changes(Device(m, u, dv), d, id),
           NEW v, NEW w, HasDevice(m, v, w)
    PROVE  HasDevice(n, v, w) /\ Changes(Device(m, v, w), Device(n, v, w), id)
<1>1. HasDevice(n, v, w)
  BY DEF Replaces, HasDevice
<1>2. CASE v = u /\ w = dv
  BY <1>1, <1>2 DEF Replaces
<1>3. CASE ~(v = u /\ w = dv)
  <2>1. <<v, w>> /= <<u, dv>>
    BY <1>3
  <2>2. Device(n, v, w) = Device(m, v, w)
    BY <2>1 DEF Replaces
  <2>3. QED BY <1>1, <2>2 DEF Changes
<1>4. QED BY <1>2, <1>3

LEMMA StartsChanges ==
    ASSUME NEW m \in Managers, NEW n, NEW k, Grows(m, n), NEW u, NEW dv,
           NEW id \in Nat, NEW status \in Status, Starts(n, k, u, dv, id, status),
           ~Usable(Device(n, u, dv)), NEW v, NEW w, HasDevice(m, v, w)
    PROVE  HasDevice(k, v, w) /\ Changes(Device(m, v, w), Device(k, v, w), id)
<1> DEFINE d == Device(n, u, dv)
           s == Record(id, status, None)
           e == [d EXCEPT !.active = Some(s)]
<1>1. n \in Managers /\ HasDevice(n, v, w) /\ Device(n, v, w) = Device(m, v, w)
  BY DEF Grows
<1>2. d \in DeviceRecords
  BY <1>1, Lookup DEF HasDevice, Starts
<1>3. s \in SessionRecords /\ s.id = id
  BY RecordType
<1> HIDE DEF s
<1>4. e.active = Some(s)
  BY <1>2, <1>3, DeviceParts
<1>5. Replaces(n, k, u, dv, e)
  BY DEF Starts, s
<1> HIDE DEF e
<1>6. Changes(d, e, id)
  BY <1>3, <1>4 DEF Changes, Some, None
<1> HIDE DEF d
<1>7. HasDevice(k, v, w) /\ Changes(Device(n, v, w), Device(k, v, w), id)
  BY <1>1, <1>5, <1>6, ReplacedChanges, SMTT(30) DEF d
<1>8. QED BY <1>1, <1>7

LEMMA StepDevices ==
    ASSUME IInv, [Next]_vars, NEW v, NEW w, HasDevice(mgr, v, w)
    PROVE  /\ HasDevice(mgr', v, w) \/ Outdated(Device(mgr, v, w), clock)
           /\ HasDevice(mgr', v, w) =>
                 Changes(Device(mgr, v, w), Device(mgr', v, w), drawn + 1)
<1> DEFINE Goal ==
        /\ HasDevice(mgr', v, w) \/ Outdated(Device(mgr, v, w), clock)
        /\ HasDevice(mgr', v, w) =>
              Changes(Device(mgr, v, w), Device(mgr', v, w), drawn + 1)
<1>1. Bounded(mgr) /\ mgr \in Managers /\ drawn + 1 \in Nat /\ clock \in Nat
  BY Basics
<1>2. mgr' = mgr => Goal
  BY DEF Changes
<1>3. ASSUME NEW u \in User, NEW dv \in DeviceName, NEW i \in Identity,
             PrepareOutbound(u, dv, i)
      PROVE  Goal
  <2> DEFINE r == prepare_outbound(mgr, u, dv, i, None, drawn + 1)
  <2>1. PICK n : OutboundResult(mgr, n, r, u, dv, i, drawn + 1)
    BY <1>1, OutboundOutcomes
  <2>2. mgr' = r.mgr
    BY <1>3 DEF PrepareOutbound, Prepared
  <2> HIDE DEF r
  <2>3. Grows(mgr, n)
    BY <2>1, SMTT(30) DEF OutboundResult
  <2>4. CASE mgr' = n
    BY <2>3, <2>4 DEF Grows, Changes
  <2>5. CASE mgr' /= n
    <3>1. Starts(n, mgr', u, dv, drawn + 1, "Initiating") /\ ~Usable(Device(n, u, dv))
      BY <2>1, <2>2, <2>5, SMTT(30) DEF OutboundResult, Starts
    <3>2. QED BY <1>1, <2>3, <3>1, StartsChanges, Zenon DEF Status
  <2>6. QED BY <2>4, <2>5
<1>4. ASSUME NEW u \in User, NEW dv \in DeviceName, NEW i \in Identity,
             PrepareInbound(u, dv, i)
      PROVE  Goal
  <2> DEFINE r == prepare_inbound(mgr, u, dv, i, None, drawn + 1)
  <2>1. PICK n : InboundResult(mgr, n, r, u, dv, i, drawn + 1)
    BY <1>1, InboundOutcomes
  <2>2. mgr' = r.mgr
    BY <1>4 DEF PrepareInbound, Prepared
  <2> HIDE DEF r
  <2>3. Grows(mgr, n)
    BY <2>1 DEF InboundResult
  <2>4. CASE mgr' = n
    BY <2>3, <2>4 DEF Grows, Changes
  <2>5. CASE mgr' /= n
    <3>1. Starts(n, mgr', u, dv, drawn + 1, "Active") /\ ~Usable(Device(n, u, dv))
      BY <2>1, <2>2, <2>5, SMTT(30) DEF InboundResult, Starts, Usable
    <3>2. QED BY <1>1, <2>3, <3>1, StartsChanges DEF Status
  <2>6. QED BY <2>4, <2>5
<1>5. ASSUME NEW u, NEW dv, NEW id, ConfirmSession(u, dv, id)
      PROVE  Goal
  <2> DEFINE d == Device(mgr, u, dv)
             e == Restatus(d, "Active")
  <2>1. mgr' = confirm_session(mgr, u, dv, id).mgr
    BY <1>5 DEF ConfirmSession
  <2>2. CASE HasDevice(mgr, u, dv) /\ IsInitiating(d) /\ Replaces(mgr, mgr', u, dv, e)
    <3>1. d \in DeviceRecords /\ d.active /= None
      BY <2>2, DeviceKnown DEF IsInitiating
    <3>2. e.active /= None /\ e.active[1].id = d.active[1].id
      BY <3>1, RestatusParts, SMTT(30) DEF Status
    <3> HIDE DEF e
    <3>3. Changes(d, e, drawn + 1)
      BY <2>2, <3>1, <3>2 DEF Changes, IsInitiating
    <3>4. QED BY <2>2, <3>3, ReplacedChanges, SMTT(30)
  <2>3. QED BY <1>1, <1>2, <2>1, <2>2, ConfirmOutcomes
<1>6. ASSUME NEW u, NEW dv, NEW id, ReceiveOnSession(u, dv, id)
      PROVE  Goal
  BY <1>2, <1>6, ReceiveStep, SMTT(30)
<1>7. ASSUME NEW u, NEW dv, NEW id, MarkFailed(u, dv, id)
      PROVE  Goal
  <2> DEFINE d == Device(mgr, u, dv)
             e == Restatus(d, "Failed")
  <2>1. mgr' = mark_failed(mgr, u, dv, id).mgr
    BY <1>7 DEF MarkFailed
  <2>2. CASE HasDevice(mgr, u, dv) /\ IsActive(d, id) /\ Replaces(mgr, mgr', u, dv, e)
    <3>1. d \in DeviceRecords /\ d.active /= None
      BY <2>2, DeviceKnown DEF IsActive
    <3>2. /\ e.active /= None /\ e.active[1].id = d.active[1].id
          /\ e.active[1].status = "Failed"
      BY <3>1, RestatusParts DEF Status
    <3> HIDE DEF e
    <3>3. Changes(d, e, drawn + 1)
      BY <3>1, <3>2 DEF Changes
    <3>4. QED BY <2>2, <3>3, ReplacedChanges, SMTT(30)
  <2>3. QED BY <1>1, <1>2, <2>1, <2>2, FailOutcomes
<1>8. ASSUME NEW u, NEW dv, MarkDeviceStale(u, dv)
      PROVE  Goal
  <2> DEFINE d == Device(mgr, u, dv)
             e == [d EXCEPT !.stale = Some(clock)]
  <2>1. mgr' = mark_device_stale(mgr, u, dv, clock).mgr
    BY <1>8 DEF MarkDeviceStale
  <2>2. CASE Replaces(mgr, mgr', u, dv, e) /\ e.active = d.active
    <3> HIDE DEF e
    <3>1. Changes(d, e, drawn + 1)
      BY <2>2, SMTT(30) DEF Changes
    <3>2. QED BY <2>2, <3>1, ReplacedChanges, SMTT(30)
  <2>3. QED BY <1>1, <1>2, <2>1, <2>2, StaleOutcomes
<1>9. CASE SweepStale
  <2>1. mgr' = sweep_stale(mgr, clock)
    BY <1>9 DEF SweepStale
  <2>2. /\ HasDevice(mgr', v, w) => Device(mgr', v, w) = Device(mgr, v, w)
        /\ HasDevice(mgr', v, w) \/ Outdated(Device(mgr, v, w), clock)
    BY <1>1, <2>1, SweepOutcome
  <2>3. QED BY <2>2, SMTT(30) DEF Changes
<1>10. ASSUME NEW u \in User, NEW i \in Identity, AcknowledgeIdentity(u, i)
       PROVE  Goal
  <2>1. CASE u \notin DOMAIN mgr.users
    <3>1. mgr' = mgr
      BY <1>10, <2>1, SMTT(30) DEF AcknowledgeIdentity, acknowledge_identity
    <3>2. QED BY <1>2, <3>1
  <2>2. CASE u \in DOMAIN mgr.users
    <3>1. mgr' = [mgr EXCEPT !.users[u].acknowledged = Some(i)]
      BY <1>10, <2>2 DEF AcknowledgeIdentity, acknowledge_identity
    <3>2. HasDevice(mgr', v, w) /\ Device(mgr', v, w) = Device(mgr, v, w)
      <4> DEFINE n == [mgr EXCEPT !.users[u].acknowledged = Some(i)]
      <4>1. /\ \A a, b : HasDevice(n, a, b) <=> HasDevice(mgr, a, b)
            /\ \A a, b : HasDevice(mgr, a, b) => Device(n, a, b) = Device(mgr, a, b)
        BY <1>1, <2>2, AcknowledgeOutcome
      <4> HIDE DEF n
      <4>2. mgr' = n
        BY <3>1 DEF n
      <4>3. QED BY <4>1, <4>2
    <3>3. QED BY <3>2 DEF Changes
  <2>3. QED BY <2>1, <2>2
<1>11. CASE Tick \/ UNCHANGED vars
  BY <1>2, <1>11 DEF Tick, vars
<1>12. QED
  BY <1>3, <1>4, <1>5, <1>6, <1>7, <1>8, <1>9, <1>10, <1>11, SMTT(30) DEF Next

\* A usable session is its device's until it is marked failed or the device is
\* outdated: no call replaces it, in particular neither prepare call.
THEOREM SessionsKept == Spec => SessionKept
<1>1. ASSUME IInv, [Next]_vars, NEW x \in Devices(mgr),
             Usable(Device(mgr, x[1], x[2])), ~Outdated(Device(mgr, x[1], x[2]), clock)
      PROVE  /\ x \in Devices(mgr')
             /\ IsActive(Device(mgr', x[1], x[2]), Device(mgr, x[1], x[2]).active[1].id)
  <2>1. x \in User \X DeviceName /\ HasDevice(mgr, x[1], x[2])
    BY DEF Devices
  <2>2. /\ HasDevice(mgr', x[1], x[2])
        /\ Changes(Device(mgr, x[1], x[2]), Device(mgr', x[1], x[2]), drawn + 1)
    BY <1>1, <2>1, StepDevices, SMTT(30)
  <2>3. QED BY <1>1, <2>1, <2>2 DEF Devices, Changes, IsActive, Usable
<1>2. IInv /\ [Next]_vars =>
        \A x \in Devices(mgr) :
            LET d == Device(mgr, x[1], x[2])
            IN  Usable(d) =>
                    \/ Outdated(d, clock)
                    \/ /\ x \in Devices(mgr')
                       /\ IsActive(Device(mgr', x[1], x[2]), d.active[1].id)
  BY <1>1
<1>3. QED BY <1>2, Invariance, PTL DEF Spec, SessionKept

\* No late confirmation or message revives a failed session: as long as it is
\* remembered it stays failed.
THEOREM FailuresAreFinal == Spec => FailedStaysFailed
<1>1. ASSUME IInv, [Next]_vars, NEW x \in Devices(mgr) \cap Devices(mgr'),
             Device(mgr, x[1], x[2]).active /= None,
             Device(mgr, x[1], x[2]).active[1].status = "Failed",
             IsActive(Device(mgr', x[1], x[2]), Device(mgr, x[1], x[2]).active[1].id)
      PROVE  Device(mgr', x[1], x[2]).active[1].status = "Failed"
  <2>1. HasDevice(mgr, x[1], x[2]) /\ HasDevice(mgr', x[1], x[2])
    BY DEF Devices
  <2>2. Changes(Device(mgr, x[1], x[2]), Device(mgr', x[1], x[2]), drawn + 1)
    BY <1>1, <2>1, StepDevices, SMTT(30)
  <2>3. DeviceFine(Device(mgr, x[1], x[2]), drawn, clock) /\ drawn \in Nat
    BY <1>1, <2>1, DeviceKnown
  <2>4. Device(mgr, x[1], x[2]).active[1].id /= drawn + 1
    BY <1>1, <2>3 DEF DeviceFine
  <2>5. QED BY <1>1, <2>2, <2>4 DEF Changes, IsActive
<1>2. IInv /\ [Next]_vars =>
        \A x \in Devices(mgr) \cap Devices(mgr') :
            LET d == Device(mgr, x[1], x[2])
                e == Device(mgr', x[1], x[2])
            IN  /\ d.active /= None /\ d.active[1].status = "Failed"
                /\ IsActive(e, d.active[1].id)
                => e.active[1].status = "Failed"
  BY <1>1
<1>3. QED BY <1>2, Invariance, PTL DEF Spec, FailedStaysFailed
=============================================================================
