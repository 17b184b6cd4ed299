--------------------------- MODULE SessionManager ---------------------------
(***************************************************************************)
(* One SessionManager (src/session/mod.rs) under every order of calls: its *)
(* caller prepares, confirms and fails sessions with the devices of remote *)
(* users, marks devices stale, sweeps and acknowledges identities.         *)
(***************************************************************************)
EXTENDS SessionManagerState

CONSTANTS
    User,       \* remote users
    DeviceName, \* names of their devices
    Identity,   \* identities a remote user shows in the course of time
    MaxIds,     \* bound on the sessions created
    MaxClock    \* bound on the application clock

ASSUME LimitsAssumption ==
    /\ MAX_USERS \in Nat
    /\ MAX_DEVICES_PER_USER \in Nat \ {0}
    /\ MAX_SESSIONS_PER_DEVICE \in Nat \ {0}
    /\ MAX_INITIATING_SESSIONS \in Nat
    /\ MAX_LATENCY_SECS \in Nat

ASSUME BoundsAssumption == MaxIds \in Nat /\ MaxClock \in Nat

VARIABLES
    mgr,        \* the manager
    clock,      \* the application clock, never going back
    drawn,      \* session ids drawn so far
    result,     \* what the last call returned: [op, err, id, with]
    acked       \* acked[u]: identity the application last acknowledged, while u
                \* is remembered

vars == <<mgr, clock, drawn, result, acked>>

Returns(op, r) == result' = [op |-> op, err |-> r.err, id |-> None, with |-> None]

\* A prepare call; with is the user and the identity it was given
Prepared(op, u, identity, r) ==
    /\ drawn < MaxIds
    /\ mgr' = r.mgr
    /\ drawn' = IF r.id = Some(drawn + 1) THEN drawn + 1 ELSE drawn
    /\ result' = [op |-> op, err |-> r.err, id |-> r.id, with |-> <<u, identity>>]
    /\ UNCHANGED <<clock, acked>>

Init ==
    /\ mgr = NewManager
    /\ clock = 0
    /\ drawn = 0
    /\ result = [op |-> "new", err |-> "ok", id |-> None, with |-> None]
    /\ acked = NoUsers

PrepareOutbound(u, dv, identity) ==
    Prepared("prepare_outbound", u, identity,
             prepare_outbound(mgr, u, dv, identity, None, drawn + 1))

PrepareInbound(u, dv, identity) ==
    Prepared("prepare_inbound", u, identity,
             prepare_inbound(mgr, u, dv, identity, None, drawn + 1))

ConfirmSession(u, dv, id) ==
    LET r == confirm_session(mgr, u, dv, id)
    IN  /\ mgr' = r.mgr
        /\ Returns("confirm_session", r)
        /\ UNCHANGED <<clock, drawn, acked>>

ReceiveOnSession(u, dv, id) ==
    LET r == receive_on_session(mgr, u, dv, id)
    IN  /\ mgr' = r.mgr
        /\ Returns("receive_on_session", r)
        /\ UNCHANGED <<clock, drawn, acked>>

MarkFailed(u, dv, id) ==
    LET r == mark_failed(mgr, u, dv, id)
    IN  /\ mgr' = r.mgr
        /\ Returns("mark_failed", r)
        /\ UNCHANGED <<clock, drawn, acked>>

MarkDeviceStale(u, dv) ==
    LET r == mark_device_stale(mgr, u, dv, clock)
    IN  /\ mgr' = r.mgr
        /\ Returns("mark_device_stale", r)
        /\ UNCHANGED <<clock, drawn, acked>>

SweepStale ==
    /\ mgr' = sweep_stale(mgr, clock)
    /\ Returns("sweep_stale", [err |-> "ok"])
    /\ acked' = [u \in DOMAIN acked \cap DOMAIN mgr'.users |-> acked[u]]
    /\ UNCHANGED <<clock, drawn>>

AcknowledgeIdentity(u, identity) ==
    LET r == acknowledge_identity(mgr, u, identity)
    IN  /\ mgr' = r.mgr
        /\ Returns("acknowledge_identity", r)
        /\ acked' = IF r.err = "ok" THEN Put(acked, u, identity) ELSE acked
        /\ UNCHANGED <<clock, drawn>>

Tick ==
    /\ clock < MaxClock
    /\ clock' = clock + 1
    /\ UNCHANGED <<mgr, drawn, result, acked>>

Next ==
    \/ \E u \in User, dv \in DeviceName :
        \/ \E i \in Identity : PrepareOutbound(u, dv, i)
        \/ \E i \in Identity : PrepareInbound(u, dv, i)
        \/ \E id \in 1 .. drawn : ConfirmSession(u, dv, id)
        \/ \E id \in 1 .. drawn : ReceiveOnSession(u, dv, id)
        \/ \E id \in 1 .. drawn : MarkFailed(u, dv, id)
        \/ MarkDeviceStale(u, dv)
    \/ SweepStale
    \/ \E u \in User, i \in Identity : AcknowledgeIdentity(u, i)
    \/ Tick

Spec == Init /\ [][Next]_vars

------------------------------------------------------------------------------
(* Properties *)

Devices(m) == {x \in User \X DeviceName : HasDevice(m, x[1], x[2])}

Initiating ==
    {x \in Devices(mgr) :
        LET d == Device(mgr, x[1], x[2])
        IN  d.active /= None /\ d.active[1].status = "Initiating"}

Status == {"Initiating", "Active", "Inactive", "Failed"}

\* The records have their types, and a user is known by at least one device:
\* sweep_stale leaves no user record without devices.
TypeOK ==
    /\ mgr.initiating_count \in 0 .. MaxIds
    /\ \A u \in DOMAIN mgr.users :
        /\ u \in User /\ DOMAIN mgr.users[u].devices /= {}
        /\ mgr.users[u].acknowledged \in {None} \cup {Some(i) : i \in Identity}
    /\ \A x \in Devices(mgr) :
        LET d == Device(mgr, x[1], x[2])
            records == {d.active[i] : i \in 1 .. Len(d.active)}
                         \cup {d.inactive[i] : i \in 1 .. Len(d.inactive)}
        IN  /\ Len(d.active) <= 1
            /\ \A r \in records : r.id \in 1 .. drawn /\ r.status \in Status
            /\ d.stale \in {None} \cup {Some(t) : t \in 0 .. clock}

\* The hard limits of the manager hold however its calls are ordered: users,
\* devices per user, sessions per device and sessions being initiated.
LimitsHold ==
    /\ Cardinality(DOMAIN mgr.users) <= MAX_USERS
    /\ \A u \in DOMAIN mgr.users :
        Cardinality(DOMAIN mgr.users[u].devices) <= MAX_DEVICES_PER_USER
    /\ \A x \in Devices(mgr) :
        session_count(Device(mgr, x[1], x[2])) <= MAX_SESSIONS_PER_DEVICE
    /\ Cardinality(Initiating) <= MAX_INITIATING_SESSIONS

\* initiating_count never falls below the sessions that are being initiated,
\* whatever was confirmed twice, failed or swept in between.
CountCovers == mgr.initiating_count >= Cardinality(Initiating)

\* The records of the manager have their types, its hard limits hold, and the
\* counter that guards one of them covers the sessions it counts, however the
\* calls of prepare, confirm, fail, receive and sweep_stale are ordered.
WellFormed == TypeOK /\ LimitsHold /\ CountCovers

\* "Global count of initiating sessions" (src/session/mod.rs, the field's
\* comment): the counter is the number of sessions being initiated.
CountExact == mgr.initiating_count = Cardinality(Initiating)

\* A usable session is the device's session until it is marked failed or the
\* device, stale for longer than MAX_LATENCY_SECS, is swept: no prepare call
\* replaces it, so messages under way on it can still be read.
SessionKept ==
    [][\A x \in Devices(mgr) :
        LET d == Device(mgr, x[1], x[2])
        IN  Usable(d) =>
                \/ Outdated(d, clock)
                \/ /\ x \in Devices(mgr')
                   /\ IsActive(Device(mgr', x[1], x[2]), d.active[1].id)]_vars

\* A failed session stays failed as long as it is remembered: neither a late
\* confirmation nor a late message revives it.
FailedStaysFailed ==
    [][\A x \in Devices(mgr) \cap Devices(mgr') :
        LET d == Device(mgr, x[1], x[2])
            e == Device(mgr', x[1], x[2])
        IN  /\ d.active /= None /\ d.active[1].status = "Failed"
            /\ IsActive(e, d.active[1].id)
            => e.active[1].status = "Failed"]_vars

\* No session is prepared for an identity other than the one acknowledged last
\* ("outbound blocked until `acknowledge_identity`", docs/SESSION_MANAGER.md),
\* whatever devices come and go, until sweep_stale takes the user's last device
\* and with it the record of what was acknowledged.
AcknowledgedUntilSwept ==
    result.op \in {"prepare_outbound", "prepare_inbound"} /\ result.err = "ok"
        /\ result.with[1] \in DOMAIN acked =>
        result.with[2] = acked[result.with[1]]
=============================================================================
