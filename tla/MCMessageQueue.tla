--------------------------- MODULE MCMessageQueue ---------------------------
(***************************************************************************)
(* The message queue with a few buffers: the last one is posted as an      *)
(* emergency message, and a careless caller may post the null pointer.     *)
(***************************************************************************)
EXTENDS MessageQueue

CONSTANTS m1, m2, m3

NormalAndEmergency == {m1, m3}
BuffersAndNull     == {m1, m2, m3, NULL}
LastIsEmergency    == {m3}
=============================================================================
