--------------------------- MODULE MCDoubleRatchet ---------------------------
(* Two parties over a small ratchet *)
EXTENDS DoubleRatchet

=============================================================================
