------------------------------ MODULE MCEngine ------------------------------
(* The engine on two devices; a run may explore several instances, each with
   the bounds that let one part of the engine be seen in full. *)
EXTENDS Engine

CONSTANTS Conversation, DeviceId

Bounds(conversations, ids, one_time, n, sealed, accept, own) ==
    [conversations |-> conversations, device_ids |-> ids, one_time |-> one_time,
     bundles |-> n, sessions |-> n, messages |-> sealed, accepted |-> accept,
     own_bundles |-> own]

\* Two handshakes of two devices, in two conversations, each with a one-time
\* key or without; and one handshake, with the other device or with itself,
\* and a message after it
Handshakes ==
    {Bounds(Conversation, {}, 1, 2, 0, 3, FALSE)}
        \cup {Bounds({c}, {}, 1, 1, 1, 2, TRUE) : c \in Conversation}

\* One session that carries three messages after the first
Messages == {Bounds({c}, {}, 1, 1, 3, 2, FALSE) : c \in Conversation}

\* One session, accepted once, and users that verify identities
Verification == {Bounds({c}, DeviceId, 1, 1, 0, 1, FALSE) : c \in Conversation}

MessagesAndVerification == Messages \cup Verification

\* A bundle without one-time keys whose packet arrives twice
MCReplay == {Bounds({c}, {}, 0, 1, 0, 2, FALSE) : c \in Conversation}

\* Devices and conversations are interchangeable.
Symmetry == Permutations(Device) \cup Permutations(Conversation)
=============================================================================
