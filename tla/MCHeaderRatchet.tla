--------------------------- MODULE MCHeaderRatchet ---------------------------
(* Two parties over a small ratchet with encrypted headers *)
EXTENDS HeaderRatchet

=============================================================================
