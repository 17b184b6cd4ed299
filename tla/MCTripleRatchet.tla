--------------------------- MODULE MCTripleRatchet ---------------------------
(* One chunk to a payload, and enough messages to complete an epoch *)
EXTENDS TripleRatchet

=============================================================================
