------------------------ MODULE SessionManagerState ------------------------
(***************************************************************************)
(* The records of a SessionManager (src/session/mod.rs) and its            *)
(* operations.  A manager is [users, initiating_count]; a user is          *)
(* [devices, acknowledged], acknowledged being what its IdentityTracker    *)
(* holds; a device is [active, inactive, stale].  Options are None or      *)
(* <<x>>.  Fields that no operation reads (a record's timestamp, a         *)
(* device's identity) and the user's stale mark, which none sets, are left *)
(* out.  An operation returns [err, mgr] or [err, mgr, id].                *)
(***************************************************************************)
EXTENDS Integers, Sequences, FiniteSets

CONSTANTS
    MAX_USERS,
    MAX_DEVICES_PER_USER,
    MAX_SESSIONS_PER_DEVICE,
    MAX_INITIATING_SESSIONS,
    MAX_LATENCY_SECS

None == <<>>
Some(x) == <<x>>

NoUsers == [u \in {} |-> None]
Put(f, k, v) == [x \in DOMAIN f \cup {k} |-> IF x = k THEN v ELSE f[x]]

NewManager == [users |-> NoUsers, initiating_count |-> 0]
NewUser == [devices |-> NoUsers, acknowledged |-> None]
NewDevice == [active |-> None, inactive |-> <<>>, stale |-> None]

HasDevice(m, u, dv) == u \in DOMAIN m.users /\ dv \in DOMAIN m.users[u].devices
Device(m, u, dv) == m.users[u].devices[dv]
SetDevice(m, u, dv, d) == [m EXCEPT !.users[u].devices = Put(@, dv, d)]

session_count(d) == Len(d.inactive) + Len(d.active)

\* IdentityTracker::observe
observe(user, identity) ==
    IF user.acknowledged = None THEN "Unknown"
    ELSE IF user.acknowledged = Some(identity) THEN "Verified"
    ELSE "IdentityChanged"

\* Mutant of ensure_user_device: the device limit is off by one
EnsureOneMore(m, u, dv) ==
    LET users == IF u \in DOMAIN m.users THEN m.users ELSE Put(m.users, u, NewUser)
    IN  IF Cardinality(DOMAIN users) > MAX_USERS
        THEN [err |-> "InvalidLength", mgr |-> m]
        ELSE IF dv \in DOMAIN users[u].devices
        THEN [err |-> "ok", mgr |-> [m EXCEPT !.users = users]]
        ELSE IF Cardinality(DOMAIN users[u].devices) > MAX_DEVICES_PER_USER
        THEN [err |-> "InvalidLength", mgr |-> [m EXCEPT !.users = users]]
        ELSE [err |-> "ok",
              mgr |-> SetDevice([m EXCEPT !.users = users], u, dv, NewDevice)]

ensure_user_device(m, u, dv) ==
    LET users == IF u \in DOMAIN m.users THEN m.users ELSE Put(m.users, u, NewUser)
    IN  IF Cardinality(DOMAIN users) > MAX_USERS
        THEN [err |-> "InvalidLength", mgr |-> m]
        ELSE IF dv \in DOMAIN users[u].devices
        THEN [err |-> "ok", mgr |-> [m EXCEPT !.users = users]]
        ELSE IF Cardinality(DOMAIN users[u].devices) >= MAX_DEVICES_PER_USER
        THEN [err |-> "InvalidLength", mgr |-> [m EXCEPT !.users = users]]
        ELSE [err |-> "ok",
              mgr |-> SetDevice([m EXCEPT !.users = users], u, dv, NewDevice)]

\* Mutant of Admit: a device that was not known before is let through
AdmitNewDevice(m, u, dv, identity) ==
    LET e == ensure_user_device(m, u, dv)
    IN  IF e.err = "ok" /\ observe(e.mgr.users[u], identity) = "IdentityChanged"
              /\ HasDevice(m, u, dv)
        THEN [e EXCEPT !.err = "Internal"] ELSE e

\* The common start of prepare_outbound and prepare_inbound: the records, then
\* the identity gate.  An error of the gate leaves the new records in place.
Admit(m, u, dv, identity) ==
    LET e == ensure_user_device(m, u, dv)
    IN  IF e.err = "ok" /\ observe(e.mgr.users[u], identity) = "IdentityChanged"
        THEN [e EXCEPT !.err = "Internal"] ELSE e

Record(id, status, ratchet) == [id |-> id, status |-> status, ratchet |-> ratchet]

Usable(d) == d.active /= None /\ d.active[1].status \in {"Active", "Initiating"}

\* Mutant of prepare_outbound: only an Active session is reused
OutboundReusesActive(m, u, dv, identity, ratchet, id) ==
    LET a == Admit(m, u, dv, identity)
        d == Device(a.mgr, u, dv)
    IN  IF a.err /= "ok" THEN [err |-> a.err, mgr |-> a.mgr, id |-> None]
        ELSE IF d.active /= None /\ d.active[1].status = "Active"
        THEN [err |-> "ok", mgr |-> a.mgr, id |-> Some(d.active[1].id)]
        ELSE IF a.mgr.initiating_count >= MAX_INITIATING_SESSIONS
        THEN [err |-> "InvalidLength", mgr |-> a.mgr, id |-> None]
        ELSE [err |-> "ok", id |-> Some(id),
              mgr |-> [SetDevice(a.mgr, u, dv,
                           [d EXCEPT !.active = Some(Record(id, "Initiating", ratchet))])
                       EXCEPT !.initiating_count = @ + 1]]

\* id and ratchet are the new session's, should there be one
prepare_outbound(m, u, dv, identity, ratchet, id) ==
    LET a == Admit(m, u, dv, identity)
        d == Device(a.mgr, u, dv)
        kept == IF session_count(d) >= MAX_SESSIONS_PER_DEVICE /\ d.inactive /= <<>>
                THEN SubSeq(d.inactive, 1, Len(d.inactive) - 1) ELSE d.inactive
    IN  IF a.err /= "ok" THEN [err |-> a.err, mgr |-> a.mgr, id |-> None]
        ELSE IF Usable(d) THEN [err |-> "ok", mgr |-> a.mgr, id |-> Some(d.active[1].id)]
        ELSE IF a.mgr.initiating_count >= MAX_INITIATING_SESSIONS
        THEN [err |-> "InvalidLength", mgr |-> a.mgr, id |-> None]
        ELSE [err |-> "ok", id |-> Some(id),
              mgr |-> [SetDevice(a.mgr, u, dv,
                           [d EXCEPT !.active = Some(Record(id, "Initiating", ratchet)),
                                     !.inactive = kept])
                       EXCEPT !.initiating_count = @ + 1]]

prepare_inbound(m, u, dv, identity, ratchet, id) ==
    LET a == Admit(m, u, dv, identity)
        d == Device(a.mgr, u, dv)
    IN  IF a.err /= "ok" THEN [err |-> a.err, mgr |-> a.mgr, id |-> None]
        ELSE IF d.active /= None
        THEN [err |-> "ok", mgr |-> a.mgr, id |-> Some(d.active[1].id)]
        ELSE [err |-> "ok", id |-> Some(id),
              mgr |-> SetDevice(a.mgr, u, dv,
                          [d EXCEPT !.active = Some(Record(id, "Active", ratchet))])]

IsActive(d, id) == d.active /= None /\ d.active[1].id = id

\* Mutant of confirm_session: a session already confirmed is counted again
ConfirmAny(m, u, dv, id) ==
    IF ~HasDevice(m, u, dv) THEN [err |-> "Internal", mgr |-> m]
    ELSE IF ~IsActive(Device(m, u, dv), id) THEN [err |-> "ok", mgr |-> m]
    ELSE [err |-> "ok",
          mgr |-> [m EXCEPT !.users[u].devices[dv].active[1].status = "Active",
                            !.initiating_count = IF @ = 0 THEN 0 ELSE @ - 1]]

confirm_session(m, u, dv, id) ==
    IF ~HasDevice(m, u, dv) THEN [err |-> "Internal", mgr |-> m]
    ELSE IF ~IsActive(Device(m, u, dv), id)
              \/ Device(m, u, dv).active[1].status /= "Initiating"
    THEN [err |-> "ok", mgr |-> m]
    ELSE [err |-> "ok",
          mgr |-> [m EXCEPT !.users[u].devices[dv].active[1].status = "Active",
                            !.initiating_count = IF @ = 0 THEN 0 ELSE @ - 1]]

\* DeviceRecord::activate: promote the inactive session with this id
activate(d, id) ==
    LET pos == CHOOSE i \in 1 .. Len(d.inactive) : d.inactive[i].id = id
        demoted == [i \in 1 .. Len(d.active) |->
                       [d.active[i] EXCEPT !.status = "Inactive"]]
        others == SubSeq(d.inactive, 1, pos - 1)
                    \o SubSeq(d.inactive, pos + 1, Len(d.inactive))
        rest == demoted \o others
    IN  [d EXCEPT !.active = Some([d.inactive[pos] EXCEPT !.status = "Active"]),
                  !.inactive = SubSeq(rest, 1, IF Len(rest) < MAX_SESSIONS_PER_DEVICE
                                               THEN Len(rest)
                                               ELSE MAX_SESSIONS_PER_DEVICE - 1)]

IsInactive(d, id) == \E i \in 1 .. Len(d.inactive) : d.inactive[i].id = id

receive_on_session(m, u, dv, id) ==
    IF ~HasDevice(m, u, dv) THEN [err |-> "Internal", mgr |-> m]
    ELSE IF ~IsInactive(Device(m, u, dv), id) THEN [err |-> "ok", mgr |-> m]
    ELSE [err |-> "ok", mgr |-> SetDevice(m, u, dv, activate(Device(m, u, dv), id))]

\* The first record with this id, the active one before the inactive ones
mark_failed(m, u, dv, id) ==
    LET d == Device(m, u, dv)
        pos == CHOOSE i \in 1 .. Len(d.inactive) : d.inactive[i].id = id
    IN  IF ~HasDevice(m, u, dv) THEN [err |-> "Internal", mgr |-> m]
        ELSE IF IsActive(d, id)
        THEN [err |-> "ok",
              mgr |-> SetDevice(m, u, dv, [d EXCEPT !.active[1].status = "Failed"])]
        ELSE IF IsInactive(d, id)
        THEN [err |-> "ok",
              mgr |-> SetDevice(m, u, dv, [d EXCEPT !.inactive[pos].status = "Failed"])]
        ELSE [err |-> "Internal", mgr |-> m]

mark_device_stale(m, u, dv, now) ==
    IF ~HasDevice(m, u, dv) THEN [err |-> "Internal", mgr |-> m]
    ELSE [err |-> "ok",
          mgr |-> [m EXCEPT !.users[u].devices[dv].stale = Some(now)]]

Outdated(d, now) == d.stale /= None /\ now - d.stale[1] > MAX_LATENCY_SECS

\* Mutant of sweep_stale: users without devices stay
SweepKeepsUsers(m, now) ==
    [m EXCEPT !.users = [u \in DOMAIN m.users |->
        [m.users[u] EXCEPT !.devices =
            [dv \in {x \in DOMAIN @ : ~Outdated(@[x], now)} |-> @[dv]]]]]

\* A user whose last device goes is forgotten, its acknowledged identity
\* included.
sweep_stale(m, now) ==
    LET Kept(u) == {dv \in DOMAIN m.users[u].devices : ~Outdated(Device(m, u, dv), now)}
    IN  [m EXCEPT !.users =
            [u \in {x \in DOMAIN m.users : Kept(x) /= {}} |->
                [m.users[u] EXCEPT !.devices = [dv \in Kept(u) |-> @[dv]]]]]

acknowledge_identity(m, u, identity) ==
    IF u \notin DOMAIN m.users THEN [err |-> "Internal", mgr |-> m]
    ELSE [err |-> "ok", mgr |-> [m EXCEPT !.users[u].acknowledged = Some(identity)]]
=============================================================================
