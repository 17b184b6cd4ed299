------------------------ MODULE SessionManagerLemmas ------------------------
(***************************************************************************)
(* What the operations of SessionManagerState do to the records of a       *)
(* manager, for all limits, users, devices and identities: the lemmas of   *)
(* SessionManagerProofs.                                                   *)
(***************************************************************************)
EXTENDS SessionManager, FiniteSetTheorems, TLAPS

------------------------------------------------------------------------------
(* Types *)

Maps(K, V) == UNION {[D -> V] : D \in SUBSET K}
Option(S) == {None} \cup {Some(x) : x \in S}

SessionRecords == [id : Nat, status : Status, ratchet : {None}]

\* No operation fills the list of inactive sessions: prepare_outbound drops the
\* session it replaces, and activate only exchanges one of the list.
DeviceRecords ==
    [active : Option(SessionRecords), inactive : {<<>>}, stale : Option(Nat)]

UserRecords ==
    [devices : Maps(DeviceName, DeviceRecords), acknowledged : Option(Identity)]

Managers == [users : Maps(User, UserRecords), initiating_count : Nat]

\* An option is None or has one element.
LEMMA Options ==
    ASSUME NEW S, NEW o \in Option(S)
    PROVE  /\ o = None \/ o /= None
           /\ o /= None => o[1] \in S /\ o = Some(o[1]) /\ Len(o) = 1
           /\ \A x \in S : Some(x) \in Option(S) /\ Some(x) /= None /\ Some(x)[1] = x
           /\ None \in Option(S) /\ Len(None) = 0
  BY DEF Option, Some, None

\* What a map of a set of maps is, and how to build one
LEMMA MapElim ==
    ASSUME NEW K, NEW V, NEW f \in Maps(K, V)
    PROVE  /\ f \in [DOMAIN f -> V]
           /\ DOMAIN f \subseteq K
           /\ \A x \in DOMAIN f : x \in K /\ f[x] \in V
<1>1. PICK D \in SUBSET K : f \in [D -> V]
  BY DEF Maps
<1>2. QED BY <1>1

LEMMA MapIntro ==
    ASSUME NEW K, NEW V, NEW D \in SUBSET K, NEW f \in [D -> V]
    PROVE  f \in Maps(K, V)
  BY DEF Maps

\* Put changes one entry of a map.
LEMMA PutMap ==
    ASSUME NEW K, NEW V, NEW f \in Maps(K, V), NEW k \in K, NEW v \in V
    PROVE  Put(f, k, v) \in Maps(K, V)
<1>1. f \in [DOMAIN f -> V] /\ DOMAIN f \subseteq K
  BY MapElim
<1>2. Put(f, k, v) \in [DOMAIN f \cup {k} -> V]
  BY <1>1 DEF Put
<1>3. QED BY <1>1, <1>2, MapIntro, Zenon

\* The records a user is remembered by, and those of its devices
LEMMA Lookup ==
    ASSUME NEW m \in Managers
    PROVE  /\ m.users \in Maps(User, UserRecords)
           /\ m.initiating_count \in Nat
           /\ \A u \in DOMAIN m.users :
                 /\ u \in User
                 /\ m.users[u] \in UserRecords
                 /\ m.users[u].devices \in Maps(DeviceName, DeviceRecords)
                 /\ m.users[u].acknowledged \in Option(Identity)
                 /\ DOMAIN m.users[u].devices \subseteq DeviceName
                 /\ \A dv \in DOMAIN m.users[u].devices :
                       Device(m, u, dv) \in DeviceRecords
<1>1. m.users \in Maps(User, UserRecords) /\ m.initiating_count \in Nat
  BY DEF Managers
<1>2. ASSUME NEW u \in DOMAIN m.users
      PROVE  /\ u \in User /\ m.users[u] \in UserRecords
             /\ m.users[u].devices \in Maps(DeviceName, DeviceRecords)
             /\ m.users[u].acknowledged \in Option(Identity)
  <2>1. u \in User /\ m.users[u] \in UserRecords
    BY <1>1, MapElim
  <2>2. QED BY <2>1 DEF UserRecords
<1>3. ASSUME NEW u \in DOMAIN m.users
      PROVE  /\ DOMAIN m.users[u].devices \subseteq DeviceName
             /\ \A dv \in DOMAIN m.users[u].devices :
                   Device(m, u, dv) \in DeviceRecords
  BY <1>2, MapElim DEF Device
<1>4. QED BY <1>1, <1>2, <1>3

\* How a manager is changed: no device changes but that users and devices may
\* be new, with nothing known of them.
Grows(m, n) ==
    /\ n \in Managers
    /\ n.initiating_count = m.initiating_count
    /\ DOMAIN m.users \subseteq DOMAIN n.users
    /\ \A u \in DOMAIN m.users : n.users[u].acknowledged = m.users[u].acknowledged
    /\ \A u \in DOMAIN n.users \ DOMAIN m.users : n.users[u].acknowledged = None
    /\ \A u, dv : HasDevice(m, u, dv) =>
          HasDevice(n, u, dv) /\ Device(n, u, dv) = Device(m, u, dv)
    /\ \A u, dv : HasDevice(n, u, dv) /\ ~HasDevice(m, u, dv) =>
          Device(n, u, dv) = NewDevice

\* Or the device dv of u becomes d, and the others stay.
Replaces(m, n, u, dv, d) ==
    /\ n \in Managers
    /\ DOMAIN n.users = DOMAIN m.users
    /\ \A v \in DOMAIN m.users :
          /\ n.users[v].acknowledged = m.users[v].acknowledged
          /\ DOMAIN n.users[v].devices = DOMAIN m.users[v].devices
    /\ HasDevice(m, u, dv) /\ Device(n, u, dv) = d
    /\ \A v, e : HasDevice(m, v, e) /\ <<v, e>> /= <<u, dv>> =>
          Device(n, v, e) = Device(m, v, e)

\* The limits on users and devices, and a device for every user
Bounded(m) ==
    /\ m \in Managers
    /\ IsFiniteSet(DOMAIN m.users) /\ Cardinality(DOMAIN m.users) <= MAX_USERS
    /\ \A u \in DOMAIN m.users :
          /\ IsFiniteSet(DOMAIN m.users[u].devices)
          /\ Cardinality(DOMAIN m.users[u].devices) <= MAX_DEVICES_PER_USER
          /\ DOMAIN m.users[u].devices /= {}

\* SetDevice adds or changes one device of a known user.
LEMMA SetDeviceFields ==
    ASSUME NEW m \in Managers, NEW u \in DOMAIN m.users, NEW dv \in DeviceName,
           NEW d \in DeviceRecords
    PROVE  LET n == SetDevice(m, u, dv, d)
           IN  /\ n \in Managers
               /\ n.initiating_count = m.initiating_count
               /\ DOMAIN n.users = DOMAIN m.users
               /\ \A v \in DOMAIN m.users \ {u} : n.users[v] = m.users[v]
               /\ n.users[u].acknowledged = m.users[u].acknowledged
               /\ n.users[u].devices = Put(m.users[u].devices, dv, d)
<1> DEFINE n == SetDevice(m, u, dv, d)
           ds == Put(m.users[u].devices, dv, d)
           r == [m.users[u] EXCEPT !.devices = ds]
<1>1. /\ m.users \in Maps(User, UserRecords) /\ m.initiating_count \in Nat
      /\ u \in User /\ m.users[u] \in UserRecords
      /\ m.users[u].devices \in Maps(DeviceName, DeviceRecords)
  BY Lookup
<1>2. ds \in Maps(DeviceName, DeviceRecords)
  BY <1>1, PutMap
<1> HIDE DEF ds
<1>3. /\ r \in UserRecords /\ r.devices = ds
      /\ r.acknowledged = m.users[u].acknowledged
  BY <1>1, <1>2 DEF UserRecords
<1>4. n = [m EXCEPT !.users = [m.users EXCEPT ![u] = r]]
  BY <1>1 DEF SetDevice, Managers, ds
<1> HIDE DEF r, n
<1>5. m.users \in [DOMAIN m.users -> UserRecords] /\ DOMAIN m.users \subseteq User
  BY <1>1, MapElim
<1>6. [m.users EXCEPT ![u] = r] \in [DOMAIN m.users -> UserRecords]
  BY <1>3, <1>5
<1>7. [m.users EXCEPT ![u] = r] \in Maps(User, UserRecords)
  BY <1>5, <1>6, MapIntro, Zenon
<1>8. /\ n.users = [m.users EXCEPT ![u] = r]
      /\ n.initiating_count = m.initiating_count
      /\ n \in Managers
  BY <1>1, <1>4, <1>7 DEF Managers
<1>9. /\ DOMAIN n.users = DOMAIN m.users
      /\ \A v \in DOMAIN m.users \ {u} : n.users[v] = m.users[v]
      /\ n.users[u] = r
  BY <1>5, <1>8
<1>10. QED BY <1>3, <1>8, <1>9 DEF n, ds

\* SetDevice on a known device replaces it.
LEMMA SetDeviceReplaces ==
    ASSUME NEW m \in Managers, NEW u, NEW dv, HasDevice(m, u, dv),
           NEW d \in DeviceRecords
    PROVE  LET n == SetDevice(m, u, dv, d)
           IN  Replaces(m, n, u, dv, d) /\ n.initiating_count = m.initiating_count
<1> DEFINE n == SetDevice(m, u, dv, d)
<1>1. u \in DOMAIN m.users /\ dv \in DOMAIN m.users[u].devices /\ dv \in DeviceName
  BY Lookup DEF HasDevice
<1>2. m.users[u].devices \in Maps(DeviceName, DeviceRecords)
  BY <1>1, Lookup
<1>3. /\ n \in Managers
      /\ n.initiating_count = m.initiating_count
      /\ DOMAIN n.users = DOMAIN m.users
      /\ \A v \in DOMAIN m.users \ {u} : n.users[v] = m.users[v]
      /\ n.users[u].acknowledged = m.users[u].acknowledged
      /\ n.users[u].devices = Put(m.users[u].devices, dv, d)
  BY <1>1, SetDeviceFields
<1> HIDE DEF n
<1>4. /\ DOMAIN n.users[u].devices = DOMAIN m.users[u].devices
      /\ n.users[u].devices[dv] = d
      /\ \A e \in DOMAIN m.users[u].devices :
            e /= dv => n.users[u].devices[e] = m.users[u].devices[e]
  <2> DEFINE f == m.users[u].devices
             g == Put(f, dv, d)
  <2>1. /\ DOMAIN g = DOMAIN f \cup {dv} /\ g[dv] = d
        /\ \A e \in DOMAIN f : e /= dv => g[e] = f[e]
    BY DEF Put
  <2>2. dv \in DOMAIN f /\ n.users[u].devices = g
    BY <1>1, <1>3
  <2> HIDE DEF f, g
  <2>3. QED BY <2>1, <2>2 DEF f
<1>5. Replaces(m, n, u, dv, d)
  BY <1>1, <1>3, <1>4 DEF Replaces, HasDevice, Device
<1>6. QED BY <1>3, <1>5 DEF n

\* A set of at least one more element than allowed is a grown set.
LEMMA AddOne ==
    ASSUME NEW S, IsFiniteSet(S), NEW x
    PROVE  /\ IsFiniteSet(S \cup {x})
           /\ Cardinality(S) \in Nat
           /\ Cardinality(S \cup {x}) \in Nat
           /\ Cardinality(S \cup {x}) <= Cardinality(S) + 1
  BY FS_AddElement, FS_CardinalityType

LEMMA Smaller ==
    ASSUME NEW S, NEW T, IsFiniteSet(T), S \subseteq T, NEW k \in Nat,
           Cardinality(T) <= k
    PROVE  /\ IsFiniteSet(S) /\ Cardinality(S) \in Nat
           /\ Cardinality(S) <= Cardinality(T) /\ Cardinality(S) <= k
<1>1. IsFiniteSet(S) /\ Cardinality(S) <= Cardinality(T)
  BY FS_Subset
<1>2. Cardinality(S) \in Nat /\ Cardinality(T) \in Nat
  BY <1>1, FS_CardinalityType
<1>3. QED BY <1>1, <1>2

\* What a new device or user is remembered by
LEMMA NewRecords ==
    /\ NewDevice \in DeviceRecords
    /\ NewUser \in UserRecords /\ NewUser.acknowledged = None
    /\ DOMAIN NewUser.devices = {}
<1>1. NewDevice \in DeviceRecords
  BY DEF NewDevice, DeviceRecords, Option
<1>2. NoUsers \in [{} -> DeviceRecords] /\ DOMAIN NoUsers = {}
  BY DEF NoUsers
<1>3. NoUsers \in Maps(DeviceName, DeviceRecords)
  BY <1>2, MapIntro, Zenon
<1>4. QED BY <1>1, <1>2, <1>3 DEF NewUser, UserRecords, Option

\* The user of ensure_user_device is added to the map of users, when it is new.
LEMMA AddUser ==
    ASSUME NEW m \in Managers, NEW u \in User, u \notin DOMAIN m.users
    PROVE  LET n == [m EXCEPT !.users = Put(m.users, u, NewUser)]
           IN  /\ n \in Managers
               /\ n.users = Put(m.users, u, NewUser)
               /\ DOMAIN n.users = DOMAIN m.users \cup {u}
               /\ n.users[u] = NewUser
               /\ \A v \in DOMAIN m.users : n.users[v] = m.users[v]
               /\ n.initiating_count = m.initiating_count
               /\ Grows(m, n)
<1> DEFINE us == Put(m.users, u, NewUser)
           n == [m EXCEPT !.users = us]
<1>1. m.users \in Maps(User, UserRecords) /\ NewUser \in UserRecords
  BY Lookup, NewRecords
<1>2. /\ DOMAIN us = DOMAIN m.users \cup {u}
      /\ us[u] = NewUser
      /\ \A v \in DOMAIN m.users : us[v] = m.users[v]
  BY DEF Put
<1>21. us \in Maps(User, UserRecords)
  BY <1>1, PutMap
<1> HIDE DEF us
<1>3. /\ n \in Managers /\ n.users = us
      /\ n.initiating_count = m.initiating_count
  BY <1>21 DEF Managers
<1> HIDE DEF n
<1>4. \A v, e : HasDevice(n, v, e) <=> HasDevice(m, v, e)
  BY <1>2, <1>3, NewRecords DEF HasDevice
<1>5. \A v, e : HasDevice(m, v, e) => Device(n, v, e) = Device(m, v, e)
  BY <1>2, <1>3 DEF HasDevice, Device
<1>6. Grows(m, n)
  BY <1>2, <1>3, <1>4, <1>5, NewRecords DEF Grows
<1>7. QED BY <1>2, <1>3, <1>6 DEF n, us

LEMMA GrowsReflexive ==
    ASSUME NEW m \in Managers
    PROVE  Grows(m, m)
  BY DEF Grows

\* A new device of a known user
LEMMA AddDevice ==
    ASSUME NEW m \in Managers, NEW u \in DOMAIN m.users, NEW dv \in DeviceName,
           dv \notin DOMAIN m.users[u].devices
    PROVE  LET n == SetDevice(m, u, dv, NewDevice)
           IN  /\ Grows(m, n)
               /\ DOMAIN n.users = DOMAIN m.users
               /\ \A v \in DOMAIN m.users \ {u} : n.users[v] = m.users[v]
               /\ DOMAIN n.users[u].devices = DOMAIN m.users[u].devices \cup {dv}
<1> DEFINE n == SetDevice(m, u, dv, NewDevice)
           f == m.users[u].devices
           g == Put(f, dv, NewDevice)
<1>1. /\ n \in Managers
      /\ n.initiating_count = m.initiating_count
      /\ DOMAIN n.users = DOMAIN m.users
      /\ \A v \in DOMAIN m.users \ {u} : n.users[v] = m.users[v]
      /\ n.users[u].acknowledged = m.users[u].acknowledged
      /\ n.users[u].devices = g
  BY NewRecords, SetDeviceFields
<1>2. f \in Maps(DeviceName, DeviceRecords) /\ NewDevice \in DeviceRecords
  BY Lookup, NewRecords
<1>3. /\ DOMAIN g = DOMAIN f \cup {dv} /\ g[dv] = NewDevice
      /\ \A e \in DOMAIN f : g[e] = f[e]
  BY DEF Put
<1> HIDE DEF n, g
<1>4. Grows(m, n)
  BY <1>1, <1>3 DEF Grows, HasDevice, Device
<1>5. QED BY <1>1, <1>3, <1>4 DEF n

\* ensure_user_device adds at most a user and a device, within the limits; a
\* user it adds gets a device.
LEMMA EnsureGrows ==
    ASSUME NEW m, Bounded(m), NEW u \in User, NEW dv \in DeviceName
    PROVE  LET e == ensure_user_device(m, u, dv)
           IN  /\ Bounded(e.mgr) /\ Grows(m, e.mgr)
               /\ e.err = "ok" => HasDevice(e.mgr, u, dv)
<1> DEFINE e == ensure_user_device(m, u, dv)
           users == IF u \in DOMAIN m.users THEN m.users ELSE Put(m.users, u, NewUser)
           n == [m EXCEPT !.users = users]
           k == SetDevice(n, u, dv, NewDevice)
<1>0. m \in Managers
  BY DEF Bounded
<1>1. /\ n \in Managers /\ n.users = users /\ u \in DOMAIN n.users
      /\ Grows(m, n)
      /\ DOMAIN n.users = DOMAIN m.users \cup {u}
      /\ \A v \in DOMAIN m.users : n.users[v] = m.users[v]
      /\ u \notin DOMAIN m.users => DOMAIN n.users[u].devices = {}
  <2>1. CASE u \in DOMAIN m.users
    <3>1. n = m
      BY <1>0, <2>1 DEF Managers
    <3>2. Grows(m, m)
      BY <1>0, GrowsReflexive
    <3> HIDE DEF n
    <3>3. QED BY <1>0, <2>1, <3>1, <3>2
  <2>2. CASE u \notin DOMAIN m.users
    <3>1. n = [m EXCEPT !.users = Put(m.users, u, NewUser)]
      BY <2>2
    <3> HIDE DEF n
    <3>2. /\ n \in Managers
          /\ n.users = Put(m.users, u, NewUser)
          /\ DOMAIN n.users = DOMAIN m.users \cup {u}
          /\ n.users[u] = NewUser
          /\ \A v \in DOMAIN m.users : n.users[v] = m.users[v]
          /\ Grows(m, n)
      BY <1>0, <2>2, <3>1, AddUser
    <3>3. QED BY <2>2, <3>2, NewRecords
  <2>3. QED BY <2>1, <2>2
<1>2. CASE Cardinality(DOMAIN users) > MAX_USERS
  <2>1. e.mgr = m /\ e.err = "InvalidLength"
    BY <1>2 DEF ensure_user_device
  <2>2. QED BY <1>0, <2>1, GrowsReflexive
<1>3. CASE ~(Cardinality(DOMAIN users) > MAX_USERS)
  <2>1. IsFiniteSet(DOMAIN n.users) /\ Cardinality(DOMAIN n.users) <= MAX_USERS
    <3>1. IsFiniteSet(DOMAIN n.users)
      <4> HIDE DEF n
      <4>1. IsFiniteSet(DOMAIN m.users)
        BY DEF Bounded
      <4>2. QED BY <1>1, <4>1, AddOne, ZenonT(40)
    <3>2. Cardinality(DOMAIN n.users) \in Nat
      BY <3>1, FS_CardinalityType
    <3>3. DOMAIN n.users = DOMAIN users
      BY <1>1
    <3> HIDE DEF n, users
    <3>4. QED BY <1>3, <3>1, <3>2, <3>3, LimitsAssumption
  <2>2. \A v \in DOMAIN n.users : v /= u \/ u \in DOMAIN m.users =>
            /\ IsFiniteSet(DOMAIN n.users[v].devices)
            /\ Cardinality(DOMAIN n.users[v].devices) <= MAX_DEVICES_PER_USER
            /\ DOMAIN n.users[v].devices /= {}
    <3> HIDE DEF n
    <3>1. QED BY <1>1 DEF Bounded
  <2>3. /\ IsFiniteSet(DOMAIN n.users[u].devices)
        /\ Cardinality(DOMAIN n.users[u].devices) \in Nat
        /\ u \notin DOMAIN m.users =>
              Cardinality(DOMAIN n.users[u].devices) < MAX_DEVICES_PER_USER
    <3> HIDE DEF n
    <3>1. CASE u \in DOMAIN m.users
      BY <1>1, <2>2, <3>1, FS_CardinalityType
    <3>2. CASE u \notin DOMAIN m.users
      <4>1. DOMAIN n.users[u].devices = {}
        BY <1>1, <3>2
      <4>2. QED BY <4>1, FS_EmptySet, LimitsAssumption
    <3>3. QED BY <3>1, <3>2
  <2>4. CASE dv \in DOMAIN users[u].devices
    <3>1. e.mgr = n /\ e.err = "ok"
      BY <1>3, <2>4 DEF ensure_user_device
    <3>2. u \in DOMAIN m.users /\ HasDevice(n, u, dv)
      <4>1. dv \in DOMAIN n.users[u].devices
        BY <1>1, <2>4
      <4> HIDE DEF n
      <4>2. QED BY <1>1, <4>1 DEF HasDevice
    <3> HIDE DEF n
    <3>3. Bounded(n)
      BY <1>1, <2>1, <2>2, <3>2 DEF Bounded
    <3>4. QED BY <1>1, <3>1, <3>2, <3>3
  <2>5. CASE dv \notin DOMAIN users[u].devices
             /\ Cardinality(DOMAIN users[u].devices) >= MAX_DEVICES_PER_USER
    <3>1. e.mgr = n /\ e.err = "InvalidLength"
      BY <1>3, <2>5 DEF ensure_user_device
    <3>2. u \in DOMAIN m.users
      <4>1. n.users[u].devices = users[u].devices
        BY <1>1
      <4> HIDE DEF n, users
      <4>2. QED BY <2>3, <2>5, <4>1, LimitsAssumption
    <3> HIDE DEF n
    <3>3. Bounded(n)
      BY <1>1, <2>1, <2>2, <3>2 DEF Bounded
    <3>4. QED BY <1>1, <3>1, <3>2, <3>3
  <2>6. CASE dv \notin DOMAIN users[u].devices
             /\ ~(Cardinality(DOMAIN users[u].devices) >= MAX_DEVICES_PER_USER)
    <3>1. e.mgr = k /\ e.err = "ok"
      BY <1>3, <2>6 DEF ensure_user_device
    <3>2. dv \notin DOMAIN n.users[u].devices
          /\ Cardinality(DOMAIN n.users[u].devices) < MAX_DEVICES_PER_USER
      <4>1. n.users[u].devices = users[u].devices
        BY <1>1
      <4> HIDE DEF n, users
      <4>2. QED BY <2>3, <2>6, <4>1, LimitsAssumption
    <3> HIDE DEF n
    <3>3. /\ Grows(n, k)
          /\ DOMAIN k.users = DOMAIN n.users
          /\ \A v \in DOMAIN n.users \ {u} : k.users[v] = n.users[v]
          /\ DOMAIN k.users[u].devices = DOMAIN n.users[u].devices \cup {dv}
      BY <1>1, <3>2, AddDevice
    <3> HIDE DEF k, e, users
    <3>4. Grows(m, k)
      BY <1>1, <3>3 DEF Grows, HasDevice, Device
    <3>5. /\ IsFiniteSet(DOMAIN k.users[u].devices)
          /\ Cardinality(DOMAIN k.users[u].devices) <= MAX_DEVICES_PER_USER
          /\ DOMAIN k.users[u].devices /= {}
      <4> DEFINE S == DOMAIN n.users[u].devices
      <4>1. IsFiniteSet(S) /\ Cardinality(S) \in Nat /\ Cardinality(S) < MAX_DEVICES_PER_USER
        BY <2>3, <3>2
      <4>2. DOMAIN k.users[u].devices = S \cup {dv}
        BY <3>3
      <4> HIDE DEF S
      <4>3. /\ IsFiniteSet(S \cup {dv}) /\ Cardinality(S \cup {dv}) \in Nat
            /\ Cardinality(S \cup {dv}) <= Cardinality(S) + 1
        BY <4>1, AddOne
      <4>4. QED BY <4>1, <4>2, <4>3, LimitsAssumption
    <3>6. k \in Managers
      BY <3>4 DEF Grows
    <3>7. Bounded(k)
      BY <2>1, <2>2, <3>3, <3>5, <3>6, Zenon DEF Bounded
    <3>8. HasDevice(k, u, dv)
      BY <1>1, <3>3 DEF HasDevice
    <3>9. QED BY <3>1, <3>4, <3>7, <3>8 DEF e
  <2>7. QED BY <2>4, <2>5, <2>6
<1>4. QED BY <1>2, <1>3

------------------------------------------------------------------------------
(* What the invariant says of a manager *)

\* Ids and times that have been given out
DeviceFine(d, ids, now) ==
    /\ d.active /= None => d.active[1].id \in 1 .. ids
    /\ d.stale /= None => d.stale[1] <= now

DevicesFine(m, ids, now) ==
    \A u, dv : HasDevice(m, u, dv) => DeviceFine(Device(m, u, dv), ids, now)

IsInitiating(d) == d.active /= None /\ d.active[1].status = "Initiating"

InitiatingIn(m) == {x \in Devices(m) : IsInitiating(Device(m, x[1], x[2]))}

\* The identities the manager holds as acknowledged
Acknowledged(m) ==
    [u \in {v \in DOMAIN m.users : m.users[v].acknowledged /= None} |->
        m.users[u].acknowledged[1]]

LEMMA GrowsKeeps ==
    ASSUME NEW m \in Managers, NEW n, Grows(m, n), NEW ids, NEW now
    PROVE  /\ InitiatingIn(n) = InitiatingIn(m)
           /\ Acknowledged(n) = Acknowledged(m)
           /\ DevicesFine(m, ids, now) => DevicesFine(n, ids, now)
<1>1. \A u, dv : IsInitiating(Device(n, u, dv)) /\ HasDevice(n, u, dv)
                    <=> IsInitiating(Device(m, u, dv)) /\ HasDevice(m, u, dv)
  BY DEF Grows, IsInitiating, NewDevice
<1>2. InitiatingIn(n) = InitiatingIn(m)
  BY <1>1 DEF InitiatingIn, Devices
<1>3. {v \in DOMAIN n.users : n.users[v].acknowledged /= None}
        = {v \in DOMAIN m.users : m.users[v].acknowledged /= None}
  BY DEF Grows
<1>4. Acknowledged(n) = Acknowledged(m)
  BY <1>3 DEF Acknowledged, Grows
<1>5. DevicesFine(m, ids, now) => DevicesFine(n, ids, now)
  BY DEF Grows, DevicesFine, DeviceFine, NewDevice
<1>6. QED BY <1>2, <1>4, <1>5

LEMMA KnownDevice ==
    ASSUME NEW m \in Managers, NEW u, NEW dv, HasDevice(m, u, dv)
    PROVE  <<u, dv>> \in Devices(m)
<1>1. u \in User /\ dv \in DeviceName
  BY Lookup DEF HasDevice
<1>2. QED BY <1>1 DEF Devices

\* The devices that are initiating once the device dv of u is d
InitiatingWith(m, u, dv, d) ==
    IF IsInitiating(d) THEN InitiatingIn(m) \cup {<<u, dv>>}
    ELSE InitiatingIn(m) \ {<<u, dv>>}

LEMMA ReplacesKeeps ==
    ASSUME NEW m, Bounded(m), NEW n, NEW u, NEW dv, NEW d,
           Replaces(m, n, u, dv, d)
    PROVE  /\ Bounded(n)
           /\ InitiatingIn(n) = InitiatingWith(m, u, dv, d)
           /\ Acknowledged(n) = Acknowledged(m)
<1>1. Bounded(n)
  BY DEF Bounded, Replaces
<1>2. \A v, e : HasDevice(n, v, e) <=> HasDevice(m, v, e)
  BY DEF Replaces, HasDevice
<1>3. Devices(n) = Devices(m)
  BY <1>2 DEF Devices
<1>4. <<u, dv>> \in Devices(m)
  BY KnownDevice DEF Bounded, Replaces
<1>5. \A x \in Devices(m) : x /= <<u, dv>> =>
          Device(n, x[1], x[2]) = Device(m, x[1], x[2])
  BY DEF Devices, Replaces
<1>6. Device(n, u, dv) = d
  BY DEF Replaces
<1>7. /\ IsInitiating(d) => InitiatingIn(n) = InitiatingIn(m) \cup {<<u, dv>>}
      /\ ~IsInitiating(d) => InitiatingIn(n) = InitiatingIn(m) \ {<<u, dv>>}
  BY <1>3, <1>4, <1>5, <1>6 DEF InitiatingIn
<1>8. {v \in DOMAIN n.users : n.users[v].acknowledged /= None}
        = {v \in DOMAIN m.users : m.users[v].acknowledged /= None}
  BY DEF Replaces
<1>9. Acknowledged(n) = Acknowledged(m)
  BY <1>8 DEF Acknowledged, Replaces
<1>10. QED BY <1>1, <1>7, <1>9 DEF InitiatingWith

LEMMA ReplacesFine ==
    ASSUME NEW m, NEW n, NEW u, NEW dv, NEW d, Replaces(m, n, u, dv, d),
           NEW ids, NEW now, DevicesFine(m, ids, now), DeviceFine(d, ids, now)
    PROVE  DevicesFine(n, ids, now)
<1>1. \A v, e : HasDevice(n, v, e) <=> HasDevice(m, v, e)
  BY DEF Replaces, HasDevice
<1>2. QED BY <1>1 DEF Replaces, DevicesFine

\* The identity gate: whoever passes it shows the acknowledged identity.
LEMMA AdmitGrows ==
    ASSUME NEW m, Bounded(m), NEW u \in User, NEW dv \in DeviceName, NEW identity
    PROVE  LET a == Admit(m, u, dv, identity)
           IN  /\ Bounded(a.mgr) /\ Grows(m, a.mgr)
               /\ a.err = "ok" =>
                     /\ HasDevice(a.mgr, u, dv)
                     /\ a.mgr.users[u].acknowledged \in {None, Some(identity)}
<1> DEFINE e == ensure_user_device(m, u, dv)
           a == Admit(m, u, dv, identity)
<1>1. /\ Bounded(e.mgr) /\ Grows(m, e.mgr)
      /\ e.err = "ok" => HasDevice(e.mgr, u, dv)
  BY EnsureGrows
<1>2. \/ a = e /\ (e.err = "ok" => observe(e.mgr.users[u], identity) /= "IdentityChanged")
      \/ a = [e EXCEPT !.err = "Internal"]
  BY DEF Admit
<1>3. e = [err |-> e.err, mgr |-> e.mgr]
  BY DEF ensure_user_device
<1> HIDE DEF e, a
<1>4. a.mgr = e.mgr /\ (a.err = "ok" => a = e)
  BY <1>2, <1>3
<1>5. a.err = "ok" => a.mgr.users[u].acknowledged \in {None, Some(identity)}
  BY <1>2, <1>3, <1>4 DEF observe
<1>6. QED BY <1>1, <1>4, <1>5 DEF a

\* The counter is independent of the records.
LEMMA CountApart ==
    ASSUME NEW m, NEW n, NEW u, NEW dv, NEW d, Replaces(m, n, u, dv, d), NEW c \in Nat
    PROVE  LET k == [n EXCEPT !.initiating_count = c]
           IN  Replaces(m, k, u, dv, d) /\ k.initiating_count = c
<1> DEFINE k == [n EXCEPT !.initiating_count = c]
<1>1. n \in Managers
  BY DEF Replaces
<1>2. k \in Managers /\ k.users = n.users /\ k.initiating_count = c
  BY <1>1 DEF Managers
<1> HIDE DEF k
<1>3. QED BY <1>2 DEF Replaces, HasDevice, Device, k

LEMMA DeviceParts ==
    ASSUME NEW d \in DeviceRecords
    PROVE  /\ d.active \in Option(SessionRecords)
           /\ d.inactive = <<>>
           /\ d.stale \in Option(Nat)
           /\ \A r \in SessionRecords :
                 /\ [d EXCEPT !.active = Some(r)] \in DeviceRecords
                 /\ [d EXCEPT !.active = Some(r)].active = Some(r)
                 /\ [d EXCEPT !.active = Some(r)].stale = d.stale
<1>1. d.active \in Option(SessionRecords) /\ d.inactive = <<>> /\ d.stale \in Option(Nat)
  BY DEF DeviceRecords
<1>2. ASSUME NEW r \in SessionRecords
      PROVE  /\ [d EXCEPT !.active = Some(r)] \in DeviceRecords
             /\ [d EXCEPT !.active = Some(r)].active = Some(r)
             /\ [d EXCEPT !.active = Some(r)].stale = d.stale
  <2>1. Some(r) \in Option(SessionRecords)
    BY DEF Option
  <2>2. QED BY <2>1 DEF DeviceRecords
<1>3. QED BY <1>1, <1>2

LEMMA RecordType ==
    ASSUME NEW id \in Nat, NEW status \in Status
    PROVE  /\ Record(id, status, None) \in SessionRecords
           /\ Record(id, status, None).id = id
           /\ Record(id, status, None).status = status
  BY DEF Record, SessionRecords

\* The outcomes of prepare_outbound: the records n it admits and, where no usable
\* session is there and the limit permits, one more session being initiated
OutboundResult(m, n, r, u, dv, identity, id) ==
    /\ Bounded(n) /\ Grows(m, n)
    /\ r.err = "ok" =>
          HasDevice(n, u, dv)
            /\ n.users[u].acknowledged \in {None, Some(identity)}
    /\ \/ r.mgr = n
       \/ /\ HasDevice(n, u, dv) /\ ~Usable(Device(n, u, dv))
          /\ n.initiating_count < MAX_INITIATING_SESSIONS
          /\ r.id = Some(id)
          /\ Replaces(n, r.mgr, u, dv,
                [Device(n, u, dv) EXCEPT !.active =
                    Some(Record(id, "Initiating", None))])
          /\ r.mgr.initiating_count = n.initiating_count + 1

LEMMA OutboundOutcomes ==
    ASSUME NEW m, Bounded(m), NEW u \in User, NEW dv \in DeviceName, NEW identity,
           NEW id \in Nat
    PROVE  LET r == prepare_outbound(m, u, dv, identity, None, id)
           IN  \E n : OutboundResult(m, n, r, u, dv, identity, id)
<1> DEFINE r == prepare_outbound(m, u, dv, identity, None, id)
           a == Admit(m, u, dv, identity)
           n == a.mgr
           d == Device(n, u, dv)
           e == [d EXCEPT !.active = Some(Record(id, "Initiating", None))]
<1>1. /\ Bounded(n) /\ Grows(m, n)
      /\ a.err = "ok" => HasDevice(n, u, dv)
                           /\ n.users[u].acknowledged \in {None, Some(identity)}
  BY AdmitGrows
<1>2. CASE a.err /= "ok"
  <2>1. r.mgr = n /\ r.err = a.err
    BY <1>2 DEF prepare_outbound
  <2> HIDE DEF a, r
  <2>2. QED BY <1>1, <1>2, <2>1, Zenon DEF OutboundResult, r
<1>3. CASE a.err = "ok" /\ (Usable(d) \/ n.initiating_count >= MAX_INITIATING_SESSIONS)
  <2>1. r.mgr = n
    BY <1>3 DEF prepare_outbound
  <2> HIDE DEF a, r
  <2>2. QED BY <1>1, <1>3, <2>1, Zenon DEF OutboundResult, r
<1>4. CASE a.err = "ok" /\ ~Usable(d) /\ ~(n.initiating_count >= MAX_INITIATING_SESSIONS)
  <2>1. n \in Managers /\ HasDevice(n, u, dv) /\ n.initiating_count \in Nat
    BY <1>1, <1>4, Lookup DEF Bounded
  <2>2. d \in DeviceRecords
    BY <2>1, Lookup DEF HasDevice
  <2>3. d.inactive = <<>> /\ e \in DeviceRecords
    BY <2>2, DeviceParts, RecordType, Zenon DEF Status
  <2>4. e = [d EXCEPT !.active = Some(Record(id, "Initiating", None)),
                      !.inactive = <<>>]
    BY <2>2, <2>3, Zenon DEF DeviceRecords
  <2>5. /\ r.id = Some(id)
        /\ r.mgr = [SetDevice(n, u, dv, e) EXCEPT !.initiating_count = @ + 1]
    BY <1>4, <2>3, <2>4 DEF prepare_outbound
  <2> HIDE DEF a, r, d, e
  <2>6. Replaces(n, SetDevice(n, u, dv, e), u, dv, e)
        /\ SetDevice(n, u, dv, e).initiating_count = n.initiating_count
    BY <2>1, <2>3, SetDeviceReplaces
  <2>7. r.mgr = [SetDevice(n, u, dv, e) EXCEPT !.initiating_count = n.initiating_count + 1]
    BY <2>5, <2>6
  <2>8. Replaces(n, r.mgr, u, dv, e) /\ r.mgr.initiating_count = n.initiating_count + 1
    BY <2>1, <2>6, <2>7, CountApart
  <2>9. n.initiating_count < MAX_INITIATING_SESSIONS
    BY <1>4, <2>1, LimitsAssumption
  <2>10. QED BY <1>1, <1>4, <2>1, <2>5, <2>8, <2>9, ZenonT(40) DEF OutboundResult, r, d, e
<1>5. QED BY <1>2, <1>3, <1>4

\* Those of prepare_inbound: a session where the device has none
InboundResult(m, n, r, u, dv, identity, id) ==
    /\ Bounded(n) /\ Grows(m, n)
    /\ r.err = "ok" =>
          HasDevice(n, u, dv)
            /\ n.users[u].acknowledged \in {None, Some(identity)}
    /\ \/ r.mgr = n
       \/ /\ HasDevice(n, u, dv) /\ Device(n, u, dv).active = None
          /\ r.id = Some(id)
          /\ Replaces(n, r.mgr, u, dv,
                [Device(n, u, dv) EXCEPT !.active =
                    Some(Record(id, "Active", None))])
          /\ r.mgr.initiating_count = n.initiating_count

LEMMA InboundOutcomes ==
    ASSUME NEW m, Bounded(m), NEW u \in User, NEW dv \in DeviceName, NEW identity,
           NEW id \in Nat
    PROVE  LET r == prepare_inbound(m, u, dv, identity, None, id)
           IN  \E n : InboundResult(m, n, r, u, dv, identity, id)
<1> DEFINE r == prepare_inbound(m, u, dv, identity, None, id)
           a == Admit(m, u, dv, identity)
           n == a.mgr
           d == Device(n, u, dv)
           e == [d EXCEPT !.active = Some(Record(id, "Active", None))]
<1>1. /\ Bounded(n) /\ Grows(m, n)
      /\ a.err = "ok" => HasDevice(n, u, dv)
                           /\ n.users[u].acknowledged \in {None, Some(identity)}
  BY AdmitGrows
<1>2. CASE a.err /= "ok"
  <2>1. r.mgr = n /\ r.err = a.err
    BY <1>2 DEF prepare_inbound
  <2> HIDE DEF a, r
  <2>2. QED BY <1>1, <1>2, <2>1, Zenon DEF InboundResult, r
<1>3. CASE a.err = "ok" /\ d.active /= None
  <2>1. r.mgr = n
    BY <1>3 DEF prepare_inbound
  <2> HIDE DEF a, r
  <2>2. QED BY <1>1, <1>3, <2>1, Zenon DEF InboundResult, r
<1>4. CASE a.err = "ok" /\ d.active = None
  <2>1. n \in Managers /\ HasDevice(n, u, dv)
    BY <1>1, <1>4 DEF Bounded
  <2>2. d \in DeviceRecords
    BY <2>1, Lookup DEF HasDevice
  <2>3. e \in DeviceRecords
    BY <2>2, DeviceParts, RecordType, Zenon DEF Status
  <2>4. r.id = Some(id) /\ r.mgr = SetDevice(n, u, dv, e)
    BY <1>4 DEF prepare_inbound
  <2> HIDE DEF a, r, d, e
  <2>5. Replaces(n, r.mgr, u, dv, e) /\ r.mgr.initiating_count = n.initiating_count
    BY <2>1, <2>3, <2>4, SetDeviceReplaces
  <2>6. QED BY <1>1, <1>4, <2>1, <2>4, <2>5, ZenonT(40) DEF InboundResult, r, d, e
<1>5. QED BY <1>2, <1>3, <1>4

\* The status of a device's session is changed in place.
Restatus(d, status) == [d EXCEPT !.active = Some([d.active[1] EXCEPT !.status = status])]

LEMMA RestatusParts ==
    ASSUME NEW d \in DeviceRecords, d.active /= None, NEW status \in Status
    PROVE  /\ Restatus(d, status) \in DeviceRecords
           /\ Restatus(d, status) = [d EXCEPT !.active[1].status = status]
           /\ Restatus(d, status).active /= None
           /\ Restatus(d, status).active[1].id = d.active[1].id
           /\ Restatus(d, status).active[1].status = status
           /\ Restatus(d, status).stale = d.stale
<1> DEFINE r == [d.active[1] EXCEPT !.status = status]
<1>1. d.active \in Option(SessionRecords)
  BY DeviceParts
<1>2. d.active[1] \in SessionRecords /\ d.active = Some(d.active[1])
  BY <1>1, Options
<1>3. r \in SessionRecords /\ r.id = d.active[1].id /\ r.status = status
  BY <1>2 DEF SessionRecords
<1>4. [d.active EXCEPT ![1].status = status] = Some(r)
  BY <1>2 DEF Some
<1>5. [d EXCEPT !.active[1].status = status] = [d EXCEPT !.active = Some(r)]
  BY <1>4 DEF DeviceRecords
<1> HIDE DEF r
<1>6. Some(r)[1] = r /\ Some(r) /= None
  BY DEF Some, None
<1>7. /\ [d EXCEPT !.active = Some(r)] \in DeviceRecords
      /\ [d EXCEPT !.active = Some(r)].active = Some(r)
      /\ [d EXCEPT !.active = Some(r)].stale = d.stale
  BY <1>3, DeviceParts
<1>8. QED BY <1>3, <1>5, <1>6, <1>7, Zenon DEF Restatus, r

\* On a known device SetDevice is an assignment to its entry.
LEMMA SetDeviceExcept ==
    ASSUME NEW m \in Managers, NEW u, NEW dv, HasDevice(m, u, dv), NEW d
    PROVE  SetDevice(m, u, dv, d) = [m EXCEPT !.users[u].devices[dv] = d]
<1>1. m.users[u].devices \in Maps(DeviceName, DeviceRecords)
  BY Lookup DEF HasDevice
<1>2. m.users[u].devices \in [DOMAIN m.users[u].devices -> DeviceRecords]
  BY <1>1, MapElim
<1>3. Put(m.users[u].devices, dv, d) = [m.users[u].devices EXCEPT ![dv] = d]
  BY <1>2 DEF Put, HasDevice
<1>4. QED BY <1>3 DEF SetDevice

\* confirm_session counts down when it makes an initiating session active, and
\* otherwise changes nothing.
LEMMA ConfirmOutcomes ==
    ASSUME NEW m \in Managers, NEW u, NEW dv, NEW id
    PROVE  LET r == confirm_session(m, u, dv, id)
               d == Device(m, u, dv)
           IN  \/ r.mgr = m
               \/ /\ HasDevice(m, u, dv) /\ IsInitiating(d)
                  /\ Replaces(m, r.mgr, u, dv, Restatus(d, "Active"))
                  /\ r.mgr.initiating_count =
                        IF m.initiating_count = 0 THEN 0 ELSE m.initiating_count - 1
<1> DEFINE r == confirm_session(m, u, dv, id)
           d == Device(m, u, dv)
           c == IF m.initiating_count = 0 THEN 0 ELSE m.initiating_count - 1
           e == Restatus(d, "Active")
<1>1. CASE \/ ~HasDevice(m, u, dv) \/ ~IsActive(d, id)
           \/ d.active[1].status /= "Initiating"
  BY <1>1 DEF confirm_session
<1>2. CASE HasDevice(m, u, dv) /\ IsActive(d, id) /\ d.active[1].status = "Initiating"
  <2>1. d \in DeviceRecords /\ d.active /= None
    BY <1>2, Lookup DEF HasDevice, IsActive
  <2>2. e \in DeviceRecords /\ e = [d EXCEPT !.active[1].status = "Active"]
    BY <2>1, RestatusParts DEF Status
  <2>3. r.mgr = [m EXCEPT !.users[u].devices[dv].active[1].status = "Active",
                          !.initiating_count = IF @ = 0 THEN 0 ELSE @ - 1]
    BY <1>2 DEF confirm_session
  <2>4. r.mgr = [[m EXCEPT !.users[u].devices[dv] = [d EXCEPT !.active[1].status = "Active"]]
                   EXCEPT !.initiating_count = c]
    BY <2>3 DEF Device, Managers
  <2>5. r.mgr = [SetDevice(m, u, dv, e) EXCEPT !.initiating_count = c]
    <3>1. SetDevice(m, u, dv, e) = [m EXCEPT !.users[u].devices[dv] = e]
      BY <1>2, SetDeviceExcept
    <3> HIDE DEF d, e, r, c
    <3>2. QED BY <2>2, <2>4, <3>1, Zenon
  <2>6. c \in Nat
    BY Lookup
  <2> HIDE DEF r, d, e, c
  <2>7. Replaces(m, SetDevice(m, u, dv, e), u, dv, e)
    BY <1>2, <2>2, SetDeviceReplaces
  <2>8. Replaces(m, r.mgr, u, dv, e) /\ r.mgr.initiating_count = c
    BY <2>5, <2>6, <2>7, CountApart
  <2>9. QED BY <1>2, <2>1, <2>8 DEF IsInitiating, r, d, e, c
<1>3. QED BY <1>1, <1>2

\* No session is ever inactive, so a message received on one activates none.
LEMMA ReceiveOutcome ==
    ASSUME NEW m \in Managers, NEW u, NEW dv, NEW id
    PROVE  receive_on_session(m, u, dv, id).mgr = m
<1>1. ASSUME HasDevice(m, u, dv)
      PROVE  ~IsInactive(Device(m, u, dv), id)
  <2>1. Device(m, u, dv) \in DeviceRecords
    BY <1>1, Lookup DEF HasDevice
  <2>2. QED BY <2>1, DeviceParts DEF IsInactive
<1>2. QED BY <1>1 DEF receive_on_session

LEMMA FailOutcomes ==
    ASSUME NEW m \in Managers, NEW u, NEW dv, NEW id
    PROVE  LET r == mark_failed(m, u, dv, id)
               d == Device(m, u, dv)
           IN  \/ r.mgr = m
               \/ /\ HasDevice(m, u, dv) /\ IsActive(d, id)
                  /\ Replaces(m, r.mgr, u, dv, Restatus(d, "Failed"))
                  /\ r.mgr.initiating_count = m.initiating_count
<1> DEFINE r == mark_failed(m, u, dv, id)
           d == Device(m, u, dv)
           e == Restatus(d, "Failed")
<1>1. CASE ~HasDevice(m, u, dv)
  BY <1>1 DEF mark_failed
<1>2. CASE HasDevice(m, u, dv)
  <2>1. d \in DeviceRecords /\ ~IsInactive(d, id)
    BY <1>2, Lookup, DeviceParts DEF HasDevice, IsInactive
  <2>2. CASE ~IsActive(d, id)
    BY <1>2, <2>1, <2>2 DEF mark_failed
  <2>3. CASE IsActive(d, id)
    <3>1. e \in DeviceRecords /\ e = [d EXCEPT !.active[1].status = "Failed"]
      BY <2>1, <2>3, RestatusParts DEF IsActive, Status
    <3>2. r.mgr = SetDevice(m, u, dv, e)
      BY <1>2, <2>3, <3>1 DEF mark_failed
    <3> HIDE DEF r, d, e
    <3>3. Replaces(m, r.mgr, u, dv, e) /\ r.mgr.initiating_count = m.initiating_count
      BY <1>2, <3>1, <3>2, SetDeviceReplaces
    <3>4. QED BY <1>2, <2>3, <3>3 DEF r, d, e
  <2>4. QED BY <2>2, <2>3
<1>3. QED BY <1>1, <1>2

LEMMA StaleOutcomes ==
    ASSUME NEW m \in Managers, NEW u, NEW dv, NEW now \in Nat
    PROVE  LET r == mark_device_stale(m, u, dv, now)
               d == Device(m, u, dv)
               e == [d EXCEPT !.stale = Some(now)]
           IN  \/ r.mgr = m
               \/ /\ HasDevice(m, u, dv)
                  /\ Replaces(m, r.mgr, u, dv, e)
                  /\ r.mgr.initiating_count = m.initiating_count
                  /\ e.active = d.active /\ e.stale = Some(now)
<1> DEFINE r == mark_device_stale(m, u, dv, now)
           d == Device(m, u, dv)
           e == [d EXCEPT !.stale = Some(now)]
<1>1. CASE ~HasDevice(m, u, dv)
  BY <1>1 DEF mark_device_stale
<1>2. CASE HasDevice(m, u, dv)
  <2>1. d \in DeviceRecords
    BY <1>2, Lookup DEF HasDevice
  <2>2. Some(now) \in Option(Nat)
    BY DEF Option
  <2>3. e \in DeviceRecords /\ e.active = d.active /\ e.stale = Some(now)
    BY <2>1, <2>2 DEF DeviceRecords
  <2>4. r.mgr = [m EXCEPT !.users[u].devices[dv] = e]
    BY <1>2 DEF mark_device_stale, Device
  <2> HIDE DEF r, d, e
  <2>5. r.mgr = SetDevice(m, u, dv, e)
    BY <1>2, <2>4, SetDeviceExcept
  <2>6. Replaces(m, r.mgr, u, dv, e) /\ r.mgr.initiating_count = m.initiating_count
    BY <1>2, <2>3, <2>5, SetDeviceReplaces
  <2>7. QED BY <1>2, <2>3, <2>6 DEF r, d, e
<1>3. QED BY <1>1, <1>2

\* sweep_stale takes outdated devices, the users left without one, and nothing
\* else.
LEMMA SweepOutcome ==
    ASSUME NEW m, Bounded(m), NEW now
    PROVE  LET n == sweep_stale(m, now)
           IN  /\ Bounded(n)
               /\ n.initiating_count = m.initiating_count
               /\ DOMAIN n.users \subseteq DOMAIN m.users
               /\ \A u \in DOMAIN n.users :
                     n.users[u].acknowledged = m.users[u].acknowledged
               /\ \A u, dv : HasDevice(n, u, dv) =>
                     HasDevice(m, u, dv) /\ Device(n, u, dv) = Device(m, u, dv)
               /\ \A u, dv : HasDevice(m, u, dv) /\ ~Outdated(Device(m, u, dv), now) =>
                     HasDevice(n, u, dv)
<1> DEFINE n == sweep_stale(m, now)
           Kept(u) == {dv \in DOMAIN m.users[u].devices : ~Outdated(Device(m, u, dv), now)}
           ds(u) == [dv \in Kept(u) |-> m.users[u].devices[dv]]
           D == {x \in DOMAIN m.users : Kept(x) /= {}}
           users == [u \in D |-> [m.users[u] EXCEPT !.devices = ds(u)]]
<1>0. m \in Managers
  BY DEF Bounded
<1>1. n = [m EXCEPT !.users = users]
  BY DEF sweep_stale
<1> HIDE DEF n
<1>2. \A u : Kept(u) \subseteq DOMAIN m.users[u].devices
  OBVIOUS
<1>3. ASSUME NEW u \in DOMAIN m.users
      PROVE  /\ ds(u) \in Maps(DeviceName, DeviceRecords)
             /\ [m.users[u] EXCEPT !.devices = ds(u)] \in UserRecords
             /\ [m.users[u] EXCEPT !.devices = ds(u)].devices = ds(u)
             /\ [m.users[u] EXCEPT !.devices = ds(u)].acknowledged = m.users[u].acknowledged
  <2>1. /\ m.users[u] \in UserRecords
        /\ m.users[u].devices \in Maps(DeviceName, DeviceRecords)
    BY <1>0, Lookup
  <2>2. /\ m.users[u].devices \in [DOMAIN m.users[u].devices -> DeviceRecords]
        /\ DOMAIN m.users[u].devices \subseteq DeviceName
    BY <2>1, MapElim
  <2>3. Kept(u) \in SUBSET DeviceName /\ ds(u) \in [Kept(u) -> DeviceRecords]
    BY <1>2, <2>2
  <2> HIDE DEF ds, Kept
  <2>4. ds(u) \in Maps(DeviceName, DeviceRecords)
    BY <2>3, MapIntro
  <2>5. QED BY <2>1, <2>4 DEF UserRecords
<1>4. users \in Maps(User, UserRecords)
  <2>1. D \subseteq DOMAIN m.users /\ DOMAIN m.users \subseteq User
    BY <1>0, Lookup
  <2>2. \A u \in D : [m.users[u] EXCEPT !.devices = ds(u)] \in UserRecords
    BY <1>3, <2>1, Zenon
  <2> HIDE DEF D, ds
  <2>3. users \in [D -> UserRecords] /\ D \in SUBSET User
    BY <2>1, <2>2
  <2> HIDE DEF users
  <2>4. QED BY <2>3, MapIntro, Zenon
<1>5. D \subseteq DOMAIN m.users /\ DOMAIN users = D
  OBVIOUS
<1>6. \A u \in D : /\ users[u].devices = ds(u)
                   /\ users[u].acknowledged = m.users[u].acknowledged
  <2> HIDE DEF ds
  <2>1. \A u \in D : users[u] = [m.users[u] EXCEPT !.devices = ds(u)]
    OBVIOUS
  <2>2. \A u \in D : u \in DOMAIN m.users
    OBVIOUS
  <2> HIDE DEF D, users
  <2>3. QED BY <1>3, <2>1, <2>2, Zenon
<1>7. \A u \in D : Kept(u) /= {}
  OBVIOUS
<1>8. \A u \in DOMAIN m.users : Kept(u) /= {} => u \in D
  OBVIOUS
<1> HIDE DEF users, D
<1>9. n \in Managers /\ n.users = users /\ n.initiating_count = m.initiating_count
  BY <1>0, <1>1, <1>4 DEF Managers
<1>10. \A u : DOMAIN ds(u) = Kept(u)
              /\ \A dv \in Kept(u) : ds(u)[dv] = m.users[u].devices[dv]
  OBVIOUS
<1> HIDE DEF ds
<1>11. \A u, dv : HasDevice(n, u, dv) =>
          HasDevice(m, u, dv) /\ Device(n, u, dv) = Device(m, u, dv)
  BY <1>2, <1>5, <1>6, <1>9, <1>10, ZenonT(40) DEF HasDevice, Device
<1>12. \A u, dv : HasDevice(m, u, dv) /\ ~Outdated(Device(m, u, dv), now) =>
          HasDevice(n, u, dv)
  <2>1. \A u, dv : HasDevice(m, u, dv) /\ ~Outdated(Device(m, u, dv), now) =>
            u \in DOMAIN m.users /\ dv \in Kept(u)
    BY DEF HasDevice
  <2>2. QED BY <1>5, <1>6, <1>8, <1>9, <1>10, <2>1, ZenonT(40) DEF HasDevice
<1>13. IsFiniteSet(DOMAIN n.users) /\ Cardinality(DOMAIN n.users) <= MAX_USERS
  <2>1. /\ IsFiniteSet(DOMAIN m.users) /\ Cardinality(DOMAIN m.users) <= MAX_USERS
        /\ DOMAIN n.users \subseteq DOMAIN m.users
    BY <1>5, <1>9 DEF Bounded
  <2>2. QED BY <2>1, Smaller, LimitsAssumption, Zenon
<1>14. ASSUME NEW u \in DOMAIN n.users
       PROVE  /\ IsFiniteSet(DOMAIN n.users[u].devices)
              /\ Cardinality(DOMAIN n.users[u].devices) <= MAX_DEVICES_PER_USER
              /\ DOMAIN n.users[u].devices /= {}
  <2>1. u \in DOMAIN m.users /\ u \in D /\ DOMAIN n.users[u].devices = Kept(u)
    BY <1>5, <1>6, <1>9, <1>10, Zenon
  <2>2. /\ IsFiniteSet(DOMAIN m.users[u].devices)
        /\ Cardinality(DOMAIN m.users[u].devices) <= MAX_DEVICES_PER_USER
        /\ Kept(u) \subseteq DOMAIN m.users[u].devices /\ Kept(u) /= {}
    BY <1>2, <1>7, <2>1 DEF Bounded
  <2> HIDE DEF Kept
  <2>3. QED BY <2>1, <2>2, Smaller, LimitsAssumption
<1>15. Bounded(n)
  BY <1>9, <1>13, <1>14 DEF Bounded
<1>16. QED BY <1>5, <1>6, <1>9, <1>11, <1>12, <1>15 DEF n

\* acknowledge_identity changes what is held as acknowledged of one known user.
LEMMA AcknowledgeOutcome ==
    ASSUME NEW m, Bounded(m), NEW u \in DOMAIN m.users, NEW i \in Identity
    PROVE  LET n == [m EXCEPT !.users[u].acknowledged = Some(i)]
           IN  /\ Bounded(n)
               /\ n.initiating_count = m.initiating_count
               /\ \A v, dv : HasDevice(n, v, dv) <=> HasDevice(m, v, dv)
               /\ \A v, dv : HasDevice(m, v, dv) => Device(n, v, dv) = Device(m, v, dv)
               /\ Acknowledged(n) = Put(Acknowledged(m), u, i)
<1> DEFINE n == [m EXCEPT !.users[u].acknowledged = Some(i)]
           r == [m.users[u] EXCEPT !.acknowledged = Some(i)]
<1>1. /\ m \in Managers /\ m.users \in Maps(User, UserRecords)
      /\ m.users[u] \in UserRecords /\ u \in User
  BY Lookup DEF Bounded
<1>2. m.users \in [DOMAIN m.users -> UserRecords] /\ DOMAIN m.users \subseteq User
  BY <1>1, MapElim
<1>3. Some(i) \in Option(Identity)
  BY DEF Option
<1>4. /\ r \in UserRecords /\ r.devices = m.users[u].devices
      /\ r.acknowledged = Some(i)
  BY <1>1, <1>3 DEF UserRecords
<1>5. n = [m EXCEPT !.users = [m.users EXCEPT ![u] = r]]
  BY <1>1 DEF Managers
<1> HIDE DEF n, r
<1>6. [m.users EXCEPT ![u] = r] \in [DOMAIN m.users -> UserRecords]
  BY <1>2, <1>4
<1>7. [m.users EXCEPT ![u] = r] \in Maps(User, UserRecords)
  BY <1>2, <1>6, MapIntro, Zenon
<1>8. /\ n.users = [m.users EXCEPT ![u] = r] /\ n \in Managers
      /\ n.initiating_count = m.initiating_count
  BY <1>1, <1>5, <1>7 DEF Managers
<1>9. /\ DOMAIN n.users = DOMAIN m.users /\ n.users[u] = r
      /\ \A v \in DOMAIN m.users \ {u} : n.users[v] = m.users[v]
  BY <1>2, <1>8
<1>10. \A v \in DOMAIN m.users : n.users[v].devices = m.users[v].devices
  BY <1>4, <1>9
<1>11. Bounded(n)
  BY <1>8, <1>9, <1>10 DEF Bounded
<1>12. /\ \A v, dv : HasDevice(n, v, dv) <=> HasDevice(m, v, dv)
       /\ \A v, dv : HasDevice(m, v, dv) => Device(n, v, dv) = Device(m, v, dv)
  BY <1>9, <1>10 DEF HasDevice, Device
<1>13. Acknowledged(n) = Put(Acknowledged(m), u, i)
  <2>1. Some(i) /= None /\ Some(i)[1] = i
    BY DEF Some, None
  <2> DEFINE D == {v \in DOMAIN m.users : m.users[v].acknowledged /= None}
             E == {v \in DOMAIN n.users : n.users[v].acknowledged /= None}
  <2>2. E = D \cup {u}
    BY <1>4, <1>9, <2>1
  <2>3. \A v \in E : n.users[v].acknowledged[1] =
                        IF v = u THEN i ELSE m.users[v].acknowledged[1]
    BY <1>4, <1>9, <2>1
  <2>4. /\ Acknowledged(m) = [v \in D |-> m.users[v].acknowledged[1]]
        /\ Acknowledged(n) = [v \in E |-> n.users[v].acknowledged[1]]
    BY DEF Acknowledged
  <2> HIDE DEF D, E
  <2>5. QED BY <2>2, <2>3, <2>4 DEF Put
<1>14. QED BY <1>8, <1>11, <1>12, <1>13 DEF n

=============================================================================
