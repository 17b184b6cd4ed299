----------------------------- MODULE Fingerprint -----------------------------
(***************************************************************************)
(* The safety fingerprint of two parties (src/fingerprint/mod.rs).         *)
(*                                                                         *)
(* Identity keys and device ids are numbers, ordered as their bytes are; a *)
(* device id is an option, and EmptyId is the one of length zero, which    *)
(* orders first.  The iterated hash is the material itself.                *)
(***************************************************************************)
EXTENDS Integers, Sequences

EmptyId == 0
NoDevice == <<>>

\* unwrap_or(&[]): an absent device id is ordered and written as an empty one
DeviceBytes(m) == IF m.device = NoDevice THEN EmptyId ELSE m.device[1]

\* Mutant of canonical_order: parties with one key stay in the caller's order
OrderByKey(a, b) == IF a.key <= b.key THEN <<a, b>> ELSE <<b, a>>

canonical_order(a, b) ==
    IF a.key < b.key THEN <<a, b>>
    ELSE IF b.key < a.key THEN <<b, a>>
    ELSE IF DeviceBytes(a) <= DeviceBytes(b) THEN <<a, b>> ELSE <<b, a>>

compute_fingerprint(a, b) ==
    LET o == canonical_order(a, b)
    IN  <<o[1].key, DeviceBytes(o[1]), o[2].key, DeviceBytes(o[2])>>
=============================================================================
