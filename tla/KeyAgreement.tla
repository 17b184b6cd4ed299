---------------------------- MODULE KeyAgreement ----------------------------
(***************************************************************************)
(* What the continuous key agreement promises the ratchet above it: a      *)
(* sequence of fresh keys, one for each epoch, that the parties emit in    *)
(* the same order.  They lead in turn: the follower emits the key of an    *)
(* epoch after its leader and leads the next one.                          *)
(***************************************************************************)
EXTENDS Integers, Sequences

CONSTANTS Alice, Bob, Keys

VARIABLE outputs    \* outputs[p]: the keys p has emitted, by epoch

Leader(epoch) == IF epoch % 2 = 1 THEN Alice ELSE Bob

Follower(epoch) == IF epoch % 2 = 1 THEN Bob ELSE Alice

Init == outputs = [p \in {Alice, Bob} |-> <<>>]

Lead ==
    LET epoch == Len(outputs[Alice]) + 1
    IN  /\ Len(outputs[Alice]) = Len(outputs[Bob])
        /\ \E key \in Keys :
              /\ \A i \in 1 .. epoch - 1 : outputs[Alice][i] /= key
              /\ outputs' = [outputs EXCEPT ![Leader(epoch)] = Append(@, key)]

Follow ==
    \E epoch \in 1 .. Len(outputs[Alice]) + Len(outputs[Bob]) :
        /\ Len(outputs[Leader(epoch)]) = epoch
        /\ Len(outputs[Follower(epoch)]) = epoch - 1
        /\ outputs' = [outputs EXCEPT ![Follower(epoch)] =
                          Append(@, outputs[Leader(epoch)][epoch])]

Next == Lead \/ Follow

Spec == Init /\ [][Next]_outputs
=============================================================================
