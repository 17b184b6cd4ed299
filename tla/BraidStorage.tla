---------------------------- MODULE BraidStorage ----------------------------
(***************************************************************************)
(* The ML-KEM Braid with the serialized form in which a session keeps it   *)
(* (StateCodec).                                                           *)
(***************************************************************************)
EXTENDS Braid

Persist == INSTANCE StateCodec

\* A party can be restored at any point of an epoch: what serialize writes in
\* any of the eleven agent states, with decoders half full, deserialize reads
\* back as it was, and it refuses every part of it a torn write might leave.
RestoredMidEpoch ==
    \A p \in Party :
        LET blob == Persist!braid_serialize(braid[p])
        IN  /\ Persist!braid_deserialize(blob) = [err |-> "ok", st |-> braid[p]]
            /\ \A n \in 0 .. Len(blob) - 1 :
                  Persist!braid_deserialize(SubSeq(blob, 1, n)).err /= "ok"
=============================================================================
