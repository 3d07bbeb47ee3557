---------------------------- MODULE MCDtmfServer ----------------------------
(***************************************************************************)
(* Datagrams on either side of each test of handle_msgUDP.                 *)
(***************************************************************************)
EXTENDS DtmfServer

Packet(size, type, event, flags) ==
  [size |-> size, port |-> 4000 + event, type |-> type, timestamp |-> 160 * event,
   event |-> event, flags |-> flags]

\* An end packet with the RTP marker bit, and one cut before its flags.
SomeDatagrams == {Packet(16, 229, 6, 138), Packet(13, 101, 9, 138)}

\* Also an end packet without the marker, the packet before it, and voice.
AllDatagrams ==
  SomeDatagrams \cup {Packet(16, 101, 5, 138), Packet(16, 101, 7, 10), Packet(172, 0, 8, 255)}
=============================================================================
