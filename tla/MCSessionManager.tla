-------------------------- MODULE MCSessionManager --------------------------
(* One manager; the constants are in MCSessionManager*.cfg *)
EXTENDS SessionManager, TLC

\* Users, device names and identities are interchangeable.
Symmetry ==
    Permutations(User) \cup Permutations(DeviceName) \cup Permutations(Identity)
=============================================================================
