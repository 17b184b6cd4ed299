----------------------------- MODULE BraidProofs -----------------------------
(***************************************************************************)
(* The ML-KEM Braid implements the key agreement, and no message of the    *)
(* peer is ever refused, for every number of chunks and epochs and every   *)
(* pattern of loss, duplication and delay.                                 *)
(***************************************************************************)
EXTENDS BraidLemmas

------------------------------------------------------------------------------
(* The two parties *)

\* A change of one party's part of a variable
LEMMA OneParty ==
    ASSUME NEW f, NEW p \in Party, NEW v, NEW g,
           f = [q \in Party |-> f[q]], g = [f EXCEPT ![p] = v]
    PROVE  /\ g[p] = v /\ g = [q \in Party |-> g[q]]
           /\ \A q \in Party : q /= p => g[q] = f[q]
OBVIOUS

\* Neither epoch goes back, and a sender of Ct2 sends it until its epoch ends.
Advances(b, c) ==
    \A q \in Party :
        /\ b[q].epoch \in Nat /\ c[q].epoch \in Nat /\ b[q].epoch <= c[q].epoch
        /\ b[q].epoch = c[q].epoch /\ b[q].agent.at = "Ct2Sampled"
              => c[q].agent.at = "Ct2Sampled"

(***************************************************************************)
(* A message stays sound while the parties move on.                        *)
(***************************************************************************)
LEMMA SoundStays ==
    ASSUME NEW w, NEW b, NEW c, Sound(w, b), Advances(b, c)
    PROVE  Sound(w, c)
BY DEF Sound, Advances, Carries

\* What outputs holds after a receive that emitted nothing or the key of e
LEMMA Emitted ==
    ASSUME NEW e \in Nat \ {0}, NEW out, NEW n \in Nat
    PROVE  /\ out = None => KeysTo(n) \o [i \in DOMAIN out |-> out[i].key] = KeysTo(n)
           /\ out = <<[epoch |-> e, key |-> Key(e)]>> =>
                 KeysTo(e - 1) \o [i \in DOMAIN out |-> out[i].key] = KeysTo(e)
<1>1. ASSUME out = None
      PROVE  KeysTo(n) \o [i \in DOMAIN out |-> out[i].key] = KeysTo(n)
  <2>1. [i \in DOMAIN out |-> out[i].key] = <<>>
    BY <1>1 DEF None
  <2>2. QED BY <2>1 DEF KeysTo
<1>2. ASSUME out = <<[epoch |-> e, key |-> Key(e)]>>
      PROVE  KeysTo(e - 1) \o [i \in DOMAIN out |-> out[i].key] = KeysTo(e)
  <2>1. [i \in DOMAIN out |-> out[i].key] = <<Key(e)>>
    BY <1>2
  <2>2. KeysTo(e - 1) \o <<Key(e)>> = Append(KeysTo(e - 1), Key(e))
    BY DEF KeysTo
  <2>3. QED BY <2>1, <2>2, KeysAppend, Zenon
<1>3. QED BY <1>1, <1>2, Zenon

\* The epochs of the parties
LEMMA Epochs ==
    ASSUME NEW e \in Nat \ {0}
    PROVE  /\ Together(e) => /\ braid[Leader(e)].epoch = e
                             /\ braid[Follower(e)].epoch = e
           /\ Apart(e) => /\ braid[Leader(e)].epoch = e + 1
                          /\ braid[Follower(e)].epoch = e
           /\ \A st, d : LeaderAt(st, d, e) \/ FollowerAt(st, d, e) => st.epoch = e
BY DEF Together, Apart, LeaderAt, FollowerAt

(***************************************************************************)
(* The parties start in the first epoch.                                   *)
(***************************************************************************)
LEMMA IInvInit == Init => IInv
<1> SUFFICES ASSUME Init PROVE IInv
  OBVIOUS
<1>1. Leader(1) = Alice /\ Follower(1) = Bob
  BY DEF Leader, Follower, Agreement!Leader, Agreement!Follower
<1>2. /\ braid[Alice] = init_alice(Shared) /\ braid[Bob] = init_bob(Shared)
      /\ drawn[Alice] = 0 /\ drawn[Bob] = 0
      /\ outputs[Alice] = <<>> /\ outputs[Bob] = <<>>
  BY PartiesAssumption DEF Init, Party
<1>3. LeaderAgent(KeysUnsampled, 1) /\ KeysUnsampled.at = "KeysUnsampled"
  BY DEF LeaderAgent, KeysUnsampled
<1>4. LeaderAt(braid[Alice], 0, 1)
  <2>1. braid[Alice] = [epoch |-> 1, auth |-> Auth(1), agent |-> KeysUnsampled]
    BY <1>2, AuthFirst, SMTT(30) DEF init_alice
  <2>2. QED BY <1>3, <2>1 DEF LeaderAt
<1>5. FollowerAgent(NoHeaderReceived, 1) /\ Early(NoHeaderReceived)
  BY DecoderEmpty DEF NoHeaderReceived, FollowerAgent, Early
<1>6. FollowerAt(braid[Bob], 0, 1)
  <2>1. braid[Bob] = [epoch |-> 1, auth |-> Auth(1), agent |-> NoHeaderReceived]
    BY <1>2, AuthFirst DEF init_bob
  <2>2. QED BY <1>5, <2>1 DEF FollowerAt
<1>7. KeysTo(1 - 1) = <<>>
  BY DEF KeysTo
<1>8. Together(1)
  BY <1>1, <1>2, <1>4, <1>6, <1>7 DEF Together
<1>9. /\ braid = [p \in Party |-> braid[p]] /\ drawn = [p \in Party |-> drawn[p]]
      /\ outputs = [p \in Party |-> outputs[p]] /\ wire = {} /\ failed = {}
  BY DEF Init
<1>10. QED BY <1>8, <1>9 DEF IInv

(***************************************************************************)
(* Sending keeps the invariant: the message carries what the epoch of its  *)
(* sender determines.                                                      *)
(***************************************************************************)
LEMMA SendKeeps ==
    ASSUME IInv, NEW p \in Party, Send(p)
    PROVE  IInv'
<1> DEFINE r == send(braid[p], <<p, drawn[p] + 1>>)
           d2 == IF Draws(braid[p]) THEN drawn[p] + 1 ELSE drawn[p]
           w2 == [from |-> p, msg |-> r.msg]
<1>1. /\ braid[p].agent.at = "KeysUnsampled" => braid[p].epoch <= MaxEpoch
      /\ braid' = [braid EXCEPT ![p] = r.st]
      /\ drawn' = [drawn EXCEPT ![p] = d2]
      /\ wire' = wire \cup {w2}
      /\ outputs' = outputs /\ failed' = failed
  BY DEF Send
<1> HIDE DEF r, d2
<1>2. /\ braid = [q \in Party |-> braid[q]] /\ drawn = [q \in Party |-> drawn[q]]
      /\ outputs = [q \in Party |-> outputs[q]]
      /\ failed = {} /\ \A w \in wire : Sound(w, braid)
  BY DEF IInv
<1>3. /\ braid'[p] = r.st /\ braid' = [q \in Party |-> braid'[q]]
      /\ \A q \in Party : q /= p => braid'[q] = braid[q]
  BY <1>1, <1>2, OneParty, Zenon
<1>4. /\ drawn'[p] = d2 /\ drawn' = [q \in Party |-> drawn'[q]]
      /\ \A q \in Party : q /= p => drawn'[q] = drawn[q]
  BY <1>1, <1>2, OneParty, Zenon
<1>5. PICK e \in Nat \ {0} : Together(e) \/ Apart(e)
  BY DEF IInv
<1>6. ASSUME Together(e)' \/ Apart(e)', Carries(r.msg),
             r.msg.epoch = braid[p].epoch, r.st.epoch = braid[p].epoch,
             braid[p].agent.at = "Ct2Sampled" => r.st.agent.at = "Ct2Sampled",
             r.msg.typ = "Ct2" => r.st.agent.at = "Ct2Sampled"
      PROVE  IInv'
  <2>1. \A q \in Party : braid[q].epoch \in Nat
    BY <1>5, Epochs, RolesAlternate
  <2>2. Advances(braid, braid')
    BY <1>3, <1>6, <2>1 DEF Advances
  <2>3. \A w \in wire : Sound(w, braid')
    BY <1>2, <2>2, SoundStays
  <2>4. w2.from = p /\ w2.msg = r.msg
    OBVIOUS
  <2>5. Sound(w2, braid')
    BY <1>3, <1>6, <2>1, <2>4 DEF Sound
  <2>6. \A w \in wire' : Sound(w, braid')
    BY <1>1, <2>3, <2>5, Zenon
  <2>7. QED BY <1>1, <1>2, <1>3, <1>4, <1>6, <2>6 DEF IInv
<1>7. CASE Together(e) /\ p = Leader(e)
  <2>1. LeaderAt(braid[p], drawn[p], e)
    BY <1>7 DEF Together
  <2>2. braid[p].epoch = e
    BY <2>1, Epochs, SMTT(30)
  <2>3. /\ LeaderAt(r.st, d2, e)
        /\ Carries(r.msg) /\ r.msg.epoch = e /\ r.msg.typ /= "Ct2"
    BY <1>1, <1>7, <2>1, <2>2, LeaderSends, SMTT(30) DEF r, d2
  <2>4. r.st.epoch = e
    BY <2>3, Epochs, SMTT(30)
  <2>5. braid[p].agent.at /= "Ct2Sampled"
    BY <2>1 DEF LeaderAt, LeaderAgent
  <2>6. braid'[Follower(e)] = braid[Follower(e)] /\ drawn'[Follower(e)] = drawn[Follower(e)]
    BY <1>3, <1>4, <1>7, RolesAlternate
  <2>7. Together(e)'
    BY <1>1, <1>3, <1>4, <1>7, <2>3, <2>6 DEF Together
  <2>8. QED BY <1>6, <2>2, <2>3, <2>4, <2>5, <2>7
<1>8. CASE p = Follower(e)
  <2>1. FollowerAt(braid[p], drawn[p], e)
    BY <1>5, <1>8, SMTT(30) DEF Together, Apart
  <2>2. braid[p].epoch = e
    BY <2>1, Epochs
  <2>3. /\ FollowerAt(r.st, d2, e)
        /\ Carries(r.msg) /\ r.msg.epoch = e
        /\ r.msg.typ = "Ct2" => r.st.agent.at = "Ct2Sampled"
        /\ braid[p].agent.at = "Ct2Sampled" => r.st.agent.at = "Ct2Sampled"
    BY <1>8, <2>1, FollowerSends DEF r, d2
  <2>4. r.st.epoch = e
    BY <2>3, Epochs
  <2>5. braid'[Leader(e)] = braid[Leader(e)] /\ drawn'[Leader(e)] = drawn[Leader(e)]
    BY <1>3, <1>4, <1>8, RolesAlternate
  <2>6. Together(e) => Together(e)'
    BY <1>1, <1>3, <1>4, <1>8, <2>3, <2>5 DEF Together
  <2>7. Apart(e) => Apart(e)'
    BY <1>1, <1>3, <1>4, <1>8, <2>3, <2>5, SMTT(30) DEF Apart
  <2>8. QED BY <1>5, <1>6, <2>2, <2>3, <2>4, <2>6, <2>7
<1>9. CASE Apart(e) /\ p = Leader(e)
  <2>1. /\ FollowerAt(braid[p], drawn[p], e + 1)
        /\ braid[p].agent = NoHeaderReceived /\ p = Follower(e + 1)
    BY <1>9, RolesAlternate, SMTT(30) DEF Apart
  <2>2. e + 1 \in Nat \ {0} /\ braid[p].epoch = e + 1
    BY <1>9, Epochs
  <2>3. braid[p].agent.at = "NoHeaderReceived"
    BY <2>1, SMTT(30) DEF NoHeaderReceived
  <2>4. /\ FollowerAt(r.st, d2, e + 1) /\ r.st = braid[p]
        /\ Carries(r.msg) /\ r.msg.epoch = e + 1
        /\ r.msg.typ = "Ct2" => r.st.agent.at = "Ct2Sampled"
    BY <2>1, <2>2, <2>3, FollowerSends DEF r, d2
  <2>5. braid'[Follower(e)] = braid[Follower(e)] /\ drawn'[Follower(e)] = drawn[Follower(e)]
    BY <1>3, <1>4, <1>9, RolesAlternate
  <2>6. Apart(e)'
    BY <1>1, <1>3, <1>4, <1>9, <2>1, <2>4, <2>5 DEF Apart
  <2>7. QED BY <1>6, <2>2, <2>4, <2>6
<1>10. QED BY <1>5, <1>7, <1>8, <1>9, RolesAlternate

(***************************************************************************)
(* What the outputs do is what the key agreement does: the decapsulator    *)
(* leads with a key that is new, its peer follows with the same key.       *)
(***************************************************************************)
LEMMA LeadStep ==
    ASSUME NEW e \in Nat \ {0}, e <= MaxEpoch,
           outputs[Leader(e)] = KeysTo(e - 1), outputs[Follower(e)] = KeysTo(e - 1),
           outputs' = [outputs EXCEPT ![Leader(e)] = KeysTo(e)]
    PROVE  Agreement!Next
<1>1. outputs[Alice] = KeysTo(e - 1) /\ outputs[Bob] = KeysTo(e - 1)
  BY RolesAlternate DEF Party
<1>2. /\ Len(outputs[Alice]) = Len(outputs[Bob])
      /\ Len(outputs[Alice]) + 1 = e
  BY <1>1, KeysAppend
<1>3. Key(e) \in KemKeys
  <2>1. Leader(e) \in Party /\ Follower(e) \in Party
    BY RolesAlternate
  <2>2. e \in 1 .. MaxEpoch
    BY PartiesAssumption
  <2>3. Ek(e) \in Drawn /\ <<Follower(e), e>> \in Drawn
    BY <2>1, <2>2 DEF Ek, Drawn
  <2>4. QED BY <2>2, <2>3 DEF Key, Secret, KemKeys
<1>4. ASSUME NEW i \in 1 .. e - 1
      PROVE  outputs[Alice][i] /= Key(e)
  <2>1. outputs[Alice][i] = Key(i)
    BY <1>1 DEF KeysTo
  <2>2. Key(i)[3] = i /\ Key(e)[3] = e /\ i /= e
    BY DEF Key, kdf_ok
  <2>3. QED BY <2>1, <2>2
<1>5. outputs' = [outputs EXCEPT ![Leader(e)] = Append(outputs[Leader(e)], Key(e))]
  BY KeysAppend, Zenon
<1>6. QED
  BY <1>2, <1>3, <1>4, <1>5, Zenon DEF Agreement!Next, Agreement!Lead, Leader

LEMMA FollowStep ==
    ASSUME NEW e \in Nat \ {0},
           outputs[Leader(e)] = KeysTo(e), outputs[Follower(e)] = KeysTo(e - 1),
           outputs' = [outputs EXCEPT ![Follower(e)] = KeysTo(e)]
    PROVE  Agreement!Next
<1>1. Len(outputs[Leader(e)]) = e /\ Len(outputs[Follower(e)]) = e - 1
  BY KeysAppend
<1>2. e \in 1 .. Len(outputs[Alice]) + Len(outputs[Bob])
  <2>1. \/ Leader(e) = Alice /\ Follower(e) = Bob
        \/ Leader(e) = Bob /\ Follower(e) = Alice
    BY RolesAlternate DEF Party
  <2>2. e \in 1 .. e + (e - 1) /\ e \in 1 .. (e - 1) + e
    OBVIOUS
  <2>3. QED BY <1>1, <2>1, <2>2, Zenon
<1>3. outputs[Leader(e)][e] = Key(e)
  BY DEF KeysTo
<1>4. outputs' = [outputs EXCEPT ![Follower(e)] =
                     Append(outputs[Follower(e)], outputs[Leader(e)][e])]
  BY <1>3, KeysAppend, Zenon
<1>5. QED
  BY <1>1, <1>2, <1>4, Zenon DEF Agreement!Next, Agreement!Follow, Leader, Follower

(***************************************************************************)
(* Receiving any message of the peer keeps the invariant and is a step of  *)
(* the key agreement, or emits nothing.                                    *)
(***************************************************************************)
LEMMA ReceiveKeeps ==
    ASSUME IInv, NEW p \in Party, NEW msg \in Incoming(p), Receive(p, msg)
    PROVE  IInv' /\ (Agreement!Next \/ outputs' = outputs)
<1> DEFINE r == receive(braid[p], msg)
           o2 == outputs[p] \o [i \in DOMAIN r.out |-> r.out[i].key]
<1>1. /\ braid' = [braid EXCEPT ![p] = r.st] /\ drawn' = drawn
      /\ outputs' = [outputs EXCEPT ![p] = o2]
      /\ failed' = failed \cup ({r.err} \ {"ok"})
      /\ wire' \subseteq wire
  BY DEF Receive, Kept
<1> HIDE DEF r, o2
<1>2. /\ braid = [q \in Party |-> braid[q]] /\ drawn = [q \in Party |-> drawn[q]]
      /\ outputs = [q \in Party |-> outputs[q]]
      /\ failed = {} /\ \A w \in wire : Sound(w, braid)
  BY DEF IInv
<1>3. /\ braid'[p] = r.st /\ braid' = [q \in Party |-> braid'[q]]
      /\ \A q \in Party : q /= p => braid'[q] = braid[q]
  BY <1>1, <1>2, OneParty, Zenon
<1>4. /\ outputs'[p] = o2 /\ outputs' = [q \in Party |-> outputs'[q]]
      /\ \A q \in Party : q /= p => outputs'[q] = outputs[q]
  BY <1>1, <1>2, OneParty, ZenonT(40)
<1>5. PICK e \in Nat \ {0} : Together(e) \/ Apart(e)
  BY DEF IInv
<1>6. /\ Carries(msg) /\ msg.epoch <= braid[Peer(p)].epoch
      /\ msg.typ = "Ct2" /\ msg.epoch = braid[Peer(p)].epoch
            => braid[Peer(p)].agent.at = "Ct2Sampled"
  BY <1>2 DEF Incoming, Sound
<1>7. ASSUME NEW n \in Nat \ {0}, Together(n)' \/ Apart(n)', r.err = "ok",
             r.st.epoch \in Nat, braid[p].epoch <= r.st.epoch,
             braid[p].epoch = r.st.epoch /\ braid[p].agent.at = "Ct2Sampled"
                => r.st.agent.at = "Ct2Sampled"
      PROVE  IInv'
  <2>1. \A q \in Party : braid[q].epoch \in Nat
    BY <1>5, Epochs, RolesAlternate
  <2>2. Advances(braid, braid')
    BY <1>3, <1>7, <2>1 DEF Advances
  <2>3. \A w \in wire' : Sound(w, braid')
    BY <1>1, <1>2, <2>2, SoundStays
  <2>4. failed' = {}
    BY <1>1, <1>2, <1>7
  <2>5. QED BY <1>1, <1>2, <1>3, <1>4, <1>7, <2>3, <2>4 DEF IInv
<1>8. ASSUME NEW n \in Nat, outputs[p] = KeysTo(n), NEW new, Quiet(r, new)
      PROVE  o2 = outputs[p] /\ outputs' = outputs /\ r.err = "ok" /\ r.st = new
  <2>1. r.out = None /\ r.err = "ok" /\ r.st = new
    BY <1>8 DEF Quiet
  <2>2. o2 = outputs[p]
    BY <1>8, <2>1, Emitted, ZenonT(40) DEF o2
  <2>3. QED BY <1>1, <1>2, <2>1, <2>2
<1>9. ASSUME outputs[p] = KeysTo(e - 1), NEW new, Emits(r, e, new)
      PROVE  o2 = KeysTo(e) /\ r.err = "ok" /\ r.st = new
  <2>1. r.out = <<[epoch |-> e, key |-> Key(e)]>> /\ r.err = "ok" /\ r.st = new
    BY <1>9 DEF Emits
  <2>2. QED BY <1>9, <2>1, Emitted, Zenon DEF o2
<1>10. CASE Together(e) /\ p = Leader(e)
  <2>1. /\ LeaderAt(braid[p], drawn[p], e) /\ outputs[p] = KeysTo(e - 1)
        /\ FollowerAt(braid[Follower(e)], drawn[Follower(e)], e)
        /\ outputs[Follower(e)] = KeysTo(e - 1)
    BY <1>10 DEF Together
  <2>2. braid[p].epoch = e /\ braid[Follower(e)].epoch = e /\ Peer(p) = Follower(e)
    BY <1>10, Epochs, RolesAlternate
  <2>3. /\ braid'[Follower(e)] = braid[Follower(e)]
        /\ outputs'[Follower(e)] = outputs[Follower(e)]
    BY <1>3, <1>4, <1>10, RolesAlternate, SMTT(30)
  <2>4. PICK new :
          \/ Quiet(r, new) /\ LeaderAt(new, drawn[p], e)
          \/ /\ Emits(r, e, new)
             /\ FollowerAt(new, drawn[p], e + 1) /\ new.agent = NoHeaderReceived
             /\ e <= MaxEpoch /\ msg.typ = "Ct2" /\ msg.epoch = e
    BY <1>6, <2>1, <2>2, LeaderReceives DEF r
  <2>5. braid[p].agent.at /= "Ct2Sampled"
    BY <2>1, ZenonT(40) DEF LeaderAt, LeaderAgent
  <2>6. CASE Quiet(r, new) /\ LeaderAt(new, drawn[p], e)
    <3>1. outputs' = outputs /\ r.err = "ok" /\ r.st = new
      BY <1>8, <2>1, <2>6
    <3>2. Together(e)'
      BY <1>1, <1>3, <1>10, <2>1, <2>3, <2>6, <3>1, SMTT(30) DEF Together
    <3>3. new.epoch = e
      BY <2>6, Epochs
    <3>4. QED BY <1>7, <2>2, <2>5, <3>1, <3>2, <3>3, SMTT(30)
  <2>7. CASE /\ Emits(r, e, new)
             /\ FollowerAt(new, drawn[p], e + 1) /\ new.agent = NoHeaderReceived
             /\ e <= MaxEpoch /\ msg.typ = "Ct2" /\ msg.epoch = e
    <3>1. o2 = KeysTo(e) /\ r.err = "ok" /\ r.st = new
      BY <1>9, <2>1, <2>7, SMTT(30)
    <3>2. braid[Follower(e)].agent.at = "Ct2Sampled"
      BY <1>6, <2>2, <2>7, SMTT(30)
    <3>3. Apart(e)'
      BY <1>1, <1>3, <1>4, <1>10, <2>1, <2>3, <2>7, <3>1, <3>2 DEF Apart
    <3>4. new.epoch = e + 1
      BY <2>7 DEF FollowerAt
    <3>5. IInv'
      BY <1>7, <2>2, <3>1, <3>3, <3>4
    <3>6. Agreement!Next
      BY <1>1, <1>10, <2>1, <2>7, <3>1, LeadStep, Zenon
    <3>7. QED BY <3>5, <3>6
  <2>8. QED BY <2>4, <2>6, <2>7
<1>11. CASE Together(e) /\ p = Follower(e)
  <2>1. /\ FollowerAt(braid[p], drawn[p], e) /\ outputs[p] = KeysTo(e - 1)
    BY <1>11, SMTT(30) DEF Together
  <2>2. braid[p].epoch = e /\ braid[Leader(e)].epoch = e /\ Peer(p) = Leader(e)
    BY <1>11, Epochs, RolesAlternate, SMTT(30)
  <2>3. PICK new : /\ Quiet(r, new) /\ FollowerAt(new, drawn[p], e)
                   /\ braid[p].agent.at = "Ct2Sampled" => new.agent.at = "Ct2Sampled"
    BY <1>6, <2>1, <2>2, FollowerReceives DEF r
  <2>4. outputs' = outputs /\ r.err = "ok" /\ r.st = new
    BY <1>8, <2>1, <2>3
  <2>5. braid'[Leader(e)] = braid[Leader(e)]
    BY <1>3, <1>11, RolesAlternate
  <2>6. Together(e)'
    BY <1>1, <1>3, <1>11, <2>3, <2>4, <2>5 DEF Together
  <2>7. new.epoch = e
    BY <2>3, Epochs
  <2>8. QED BY <1>7, <2>2, <2>3, <2>4, <2>6, <2>7
<1>12. CASE Apart(e) /\ p = Leader(e)
  <2>1. /\ FollowerAt(braid[p], drawn[p], e + 1) /\ outputs[p] = KeysTo(e)
        /\ braid[p].agent = NoHeaderReceived
    BY <1>12 DEF Apart
  <2>2. braid[p].epoch = e + 1 /\ braid[Follower(e)].epoch = e /\ Peer(p) = Follower(e)
    BY <1>12, Epochs, RolesAlternate, Zenon
  <2>3. msg.epoch <= e /\ msg.epoch \in Nat
    BY <1>6, <2>2 DEF Carries
  <2>4. r = Ok(braid[p])
    <3>1. braid[p].agent.at = "NoHeaderReceived"
      BY <2>1, SMTT(30) DEF NoHeaderReceived
    <3>2. r = ReceiveNoHeaderReceived(braid[p], msg)
      BY <2>2, <2>3, <3>1, Dispatch DEF r
    <3>3. ~Current(braid[p], msg, {"Hdr"})
      BY <2>2, <2>3 DEF Current
    <3>4. QED BY <3>2, <3>3, SMTT(30) DEF ReceiveNoHeaderReceived
  <2>5. Quiet(r, braid[p])
    BY <2>4, Results
  <2>6. outputs' = outputs /\ r.err = "ok" /\ r.st = braid[p]
    BY <1>8, <2>1, <2>5
  <2>7. \A q \in Party : braid'[q] = braid[q]
    BY <1>3, <2>6, SMTT(30)
  <2>8. Apart(e)'
    BY <1>1, <1>12, <2>6, <2>7, RolesAlternate, SMTT(30) DEF Apart
  <2>9. QED BY <1>7, <2>2, <2>6, <2>8
<1>13. CASE Apart(e) /\ p = Follower(e)
  <2>1. /\ FollowerAt(braid[p], drawn[p], e) /\ outputs[p] = KeysTo(e - 1)
        /\ braid[p].agent.at = "Ct2Sampled"
        /\ FollowerAt(braid[Leader(e)], drawn[Leader(e)], e + 1)
        /\ outputs[Leader(e)] = KeysTo(e)
    BY <1>13 DEF Apart
  <2>2. braid[p].epoch = e /\ braid[Leader(e)].epoch = e + 1 /\ Peer(p) = Leader(e)
    BY <1>13, Epochs, RolesAlternate
  <2>3. /\ braid'[Leader(e)] = braid[Leader(e)]
        /\ outputs'[Leader(e)] = outputs[Leader(e)]
    BY <1>3, <1>4, <1>13, RolesAlternate
  <2>4. CASE msg.epoch <= e
    <3>1. PICK new : /\ Quiet(r, new) /\ FollowerAt(new, drawn[p], e)
                     /\ braid[p].agent.at = "Ct2Sampled" => new.agent.at = "Ct2Sampled"
      BY <1>6, <2>1, <2>4, FollowerReceives DEF r
    <3>2. outputs' = outputs /\ r.err = "ok" /\ r.st = new
      BY <1>8, <2>1, <3>1
    <3>3. Apart(e)'
      BY <1>1, <1>3, <1>13, <2>1, <2>3, <3>1, <3>2, SMTT(30) DEF Apart
    <3>4. new.epoch = e
      BY <3>1, Epochs
    <3>5. QED BY <1>7, <2>2, <3>1, <3>2, <3>3, <3>4, SMTT(30)
  <2>5. CASE msg.epoch = e + 1
    <3>1. PICK new : Emits(r, e, new) /\ LeaderAt(new, drawn[p], e + 1)
      BY <2>1, <2>5, FollowerCompletes, SMTT(30) DEF r
    <3>2. o2 = KeysTo(e) /\ r.err = "ok" /\ r.st = new
      BY <1>9, <2>1, <3>1
    <3>3. Leader(e + 1) = p /\ Follower(e + 1) = Leader(e) /\ (e + 1) - 1 = e
      BY <1>13, RolesAlternate
    <3>4. Together(e + 1)'
      BY <1>1, <1>3, <1>4, <2>1, <2>3, <3>1, <3>2, <3>3 DEF Together
    <3>5. new.epoch = e + 1
      BY <3>1 DEF LeaderAt
    <3>6. IInv'
      BY <1>7, <2>2, <3>2, <3>4, <3>5
    <3>7. Agreement!Next
      BY <1>1, <1>13, <2>1, <3>2, FollowStep, Zenon
    <3>8. QED BY <3>6, <3>7
  <2>6. QED BY <1>6, <2>2, <2>4, <2>5 DEF Carries
<1>14. QED BY <1>5, <1>10, <1>11, <1>12, <1>13, RolesAlternate

------------------------------------------------------------------------------
(* The theorems *)

(***************************************************************************)
(* Every step keeps the invariant and is one of the key agreement or       *)
(* leaves the outputs alone.                                               *)
(***************************************************************************)
LEMMA IInvStep == IInv /\ [Next]_vars => IInv' /\ (Agreement!Next \/ outputs' = outputs)
<1> SUFFICES ASSUME IInv, [Next]_vars
             PROVE  IInv' /\ (Agreement!Next \/ outputs' = outputs)
  OBVIOUS
<1>1. ASSUME NEW p \in Party, Send(p)
      PROVE  IInv' /\ outputs' = outputs
  <2>1. outputs' = outputs
    BY <1>1 DEF Send
  <2>2. QED BY <1>1, <2>1, SendKeeps
<1>2. ASSUME NEW p \in Party, NEW msg \in Incoming(p), Receive(p, msg)
      PROVE  IInv' /\ (Agreement!Next \/ outputs' = outputs)
  BY <1>2, ReceiveKeeps
<1>3. CASE UNCHANGED vars
  <2>1. /\ braid' = braid /\ drawn' = drawn /\ wire' = wire
        /\ outputs' = outputs /\ failed' = failed
    BY <1>3, SMTT(30) DEF vars
  <2>2. \A e : (Together(e) => Together(e)') /\ (Apart(e) => Apart(e)')
    BY <2>1 DEF Together, Apart
  <2>3. QED BY <2>1, <2>2 DEF IInv
<1>4. QED BY <1>1, <1>2, <1>3 DEF Next

LEMMA Invariance == Spec => []IInv
BY IInvInit, IInvStep, PTL DEF Spec

(***************************************************************************)
(* receive never refuses a message of the peer, however late or often it   *)
(* comes: its epoch is never too far ahead, and every MAC and every key    *)
(* hash it is checked against agrees.                                      *)
(***************************************************************************)
THEOREM EveryMessageIsAccepted == Spec => []NoReceiveFails
<1>1. IInv => NoReceiveFails
  BY DEF IInv, NoReceiveFails
<1>2. QED BY <1>1, Invariance, PTL

(***************************************************************************)
(* No decoder mixes chunks of two payloads, for any number of chunks and   *)
(* any messages of earlier epochs still under way.                         *)
(***************************************************************************)
THEOREM DecodersHoldOnePayload == Spec => []ChunksAgree
<1>1. IInv => ChunksAgree
  <2> SUFFICES ASSUME IInv, NEW p \in Party, "dec" \in DOMAIN braid[p].agent,
                      NEW c \in braid[p].agent.dec.got,
                      NEW d \in braid[p].agent.dec.got
               PROVE  c.of = d.of
    BY DEF ChunksAgree
  <2>1. PICK e \in Nat \ {0} : Together(e) \/ Apart(e)
    BY SMTT(30) DEF IInv
  <2>2. PICK n : LeaderAgent(braid[p].agent, n) \/ FollowerAgent(braid[p].agent, n)
    <3>1. FollowerAgent(braid[Follower(e)].agent, e)
      BY <2>1, ZenonT(40) DEF Together, Apart, FollowerAt
    <3>2. \/ LeaderAgent(braid[Leader(e)].agent, e)
          \/ FollowerAgent(braid[Leader(e)].agent, e + 1)
      BY <2>1, ZenonT(40) DEF Together, Apart, LeaderAt, FollowerAt
    <3>3. p = Leader(e) \/ p = Follower(e)
      BY RolesAlternate
    <3>4. QED BY <3>1, <3>2, <3>3
  <2>3. \E payload : Holds(braid[p].agent.dec, payload)
    BY <2>2, DecoderOfOne
  <2>4. QED BY <2>3 DEF Holds
<1>2. QED BY <1>1, Invariance, PTL

(***************************************************************************)
(* The two sides never hold decapsulation keys for one epoch.              *)
(***************************************************************************)
THEOREM OneSideDecapsulates == Spec => []OneDecapsulator
<1>1. IInv => OneDecapsulator
  <2> SUFFICES ASSUME IInv, braid[Alice].epoch = braid[Bob].epoch
               PROVE  \E p \in Party : /\ "dk" \notin DOMAIN braid[p].agent
                                       /\ braid[p].agent /= KeysUnsampled
    BY DEF OneDecapsulator
  <2>1. PICK e \in Nat \ {0} : Together(e) \/ Apart(e)
    BY DEF IInv
  <2>2. FollowerAgent(braid[Follower(e)].agent, e)
    BY <2>1, ZenonT(40) DEF Together, Apart, FollowerAt
  <2>3. /\ "dk" \notin DOMAIN braid[Follower(e)].agent
        /\ braid[Follower(e)].agent /= KeysUnsampled
    BY <2>2, NoDecapsulationKey
  <2>4. QED BY <2>3, RolesAlternate
<1>2. QED BY <1>1, Invariance, PTL

(***************************************************************************)
(* The Braid implements the key agreement: both sides emit the same fresh  *)
(* key for every epoch, in order, the decapsulator first.                  *)
(***************************************************************************)
THEOREM BraidAgrees == Spec => ImplementsAgreement
<1>1. Init => Agreement!Init
  BY DEF Init, Agreement!Init, Party
<1>2. IInv /\ [Next]_vars => [Agreement!Next]_outputs
  BY IInvStep
<1>3. QED BY <1>1, <1>2, Invariance, PTL DEF Spec, ImplementsAgreement, Agreement!Spec
=============================================================================
