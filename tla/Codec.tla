------------------------------- MODULE Codec -------------------------------
(***************************************************************************)
(* How the serializers of the crate lay out a state: fields one after the  *)
(* other, in an order that the writer and the reader each have of their    *)
(* own.  A byte string is the sequence of its fields; a field of fixed     *)
(* width is one element, whatever its width.                               *)
(*                                                                         *)
(* Kinds of a field:                                                       *)
(*   "fix"  a value of fixed width                                         *)
(*   "opt"  a presence byte 0 or 1, then the value if it is 1              *)
(*   "flag" the same, read with any other byte taken for 0                 *)
(*   "vec"  a length, then that many fields                                *)
(*   "map"  a count, then that many entries of a map, in any order         *)
(***************************************************************************)
EXTENDS Integers, Sequences, FiniteSets, SequencesExt

None == <<>>

Entries(f) ==
    LET keys == SetToSeq(DOMAIN f)
    IN  [i \in DOMAIN keys |-> <<keys[i], f[keys[i]]>>]

WriteField(kind, v) ==
    CASE kind = "fix" -> <<v>>
      [] kind \in {"opt", "flag"} -> IF v = None THEN <<0>> ELSE <<1, v>>
      [] kind = "vec" -> <<Len(v)>> \o v
      [] kind = "map" -> <<Cardinality(DOMAIN v)>> \o Entries(v)

\* The fields vals, each as its kind says
WriteAll(kinds, vals) ==
    FlattenSeq([i \in DOMAIN kinds |-> WriteField(kinds[i], vals[i])])

------------------------------------------------------------------------------
(* A reader is a cursor: what is left, and the values read so far *)

Reader(data) == [err |-> "ok", data |-> data, vals |-> <<>>]

Fail(r) == [r EXCEPT !.err = "InvalidLength"]

\* Take n fields and keep val as what they mean
Take(r, n, val) ==
    [r EXCEPT !.data = SubSeq(r.data, n + 1, Len(r.data)),
              !.vals = Append(r.vals, val)]

AsMap(entries) ==
    [k \in {entries[i][1] : i \in DOMAIN entries} |->
        (CHOOSE e \in ToSet(entries) : e[1] = k)[2]]

\* The fields behind a length or count that are really there
Counted(r) == SubSeq(r.data, 2, r.data[1] + 1)

ReadField(r, kind) ==
    IF r.err /= "ok" THEN r
    ELSE IF r.data = <<>> THEN Fail(r)
    ELSE CASE kind = "fix" -> Take(r, 1, r.data[1])
           [] kind = "opt" ->
                 IF r.data[1] = 0 THEN Take(r, 1, None)
                 ELSE IF r.data[1] /= 1 \/ Len(r.data) < 2 THEN Fail(r)
                 ELSE Take(r, 2, r.data[2])
           [] kind = "flag" ->
                 IF r.data[1] /= 1 THEN Take(r, 1, None)
                 ELSE IF Len(r.data) < 2 THEN Fail(r)
                 ELSE Take(r, 2, r.data[2])
           [] kind \in {"vec", "map"} ->
                 IF Len(r.data) < r.data[1] + 1 THEN Fail(r)
                 ELSE Take(r, r.data[1] + 1,
                           IF kind = "vec" THEN Counted(r)
                                           ELSE AsMap(Counted(r)))

ReadAll(kinds, data) ==
    LET after[i \in 0 .. Len(kinds)] ==
            IF i = 0 THEN Reader(data) ELSE ReadField(after[i - 1], kinds[i])
    IN  after[Len(kinds)]

\* Nothing may be left over
Finish(r) == IF r.err = "ok" /\ r.data /= <<>> THEN Fail(r) ELSE r
=============================================================================
