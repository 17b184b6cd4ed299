------------------------------- MODULE MCBraid -------------------------------
(* Three epochs: in the third one each party has its role of the first again, *)
(* and meets late messages of the types it waits for.  Either of two chunks   *)
(* is enough for the header, and its first one is lost.                       *)
EXTENDS BraidStorage

MCLost == {<<"Hdr", 0>>}

MCLate == {<<"Hdr", 0>>, <<"Ek", 0>>, <<"EkCt1Ack", 0>>}
              \cup ({"Ct1", "Ct2"} \X {0, 1})
=============================================================================
