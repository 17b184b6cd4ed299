-------------------------------- MODULE MCFfi --------------------------------
EXTENDS Ffi
=============================================================================
