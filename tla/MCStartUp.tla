----------------------------- MODULE MCStartUp ------------------------------
(***************************************************************************)
(* Starts for TLC: every command line of up to four arguments, and every   *)
(* one of the usage, with the configuration of conf/dtmf.xml, and two of   *)
(* the usage with that configuration after one change, or cut off at any   *)
(* symbol.                                                                 *)
(***************************************************************************)
EXTENDS StartUp

Setting(name, value) ==
  Node("element", <<name>>, <<>>, IF value = <<>> THEN <<>> ELSE <<Node("text", value, <<>>, <<>>)>>)

\* A value is its setting's, and has two parts.
ValueOf(name) == <<name, "0">>

SettingsOfConf == SelectSeq(Settings, LAMBDA name : name # "remotelogserverip")
Standard == [i \in 1..Len(SettingsOfConf) |-> Setting(SettingsOfConf[i], ValueOf(SettingsOfConf[i]))]

Additions == {Node("comment", <<"local_ip">>, <<>>, <<>>),
              Setting("remotelogserverip", ValueOf("remotelogserverip")),
              Setting("other", <<"other">>),
              Node("element", <<"other">>, <<>>, Standard)}

\* One setting missing, empty, said twice, or moved; or something added.
Changed ==
  {RemoveAt(Standard, i) : i \in DOMAIN Standard}
  \cup {[Standard EXCEPT ![i] = Setting(SettingsOfConf[i], <<>>)] : i \in DOMAIN Standard}
  \cup {InsertAt(Standard, j, Setting(SettingsOfConf[i], <<"other">>)) :
          i \in DOMAIN Standard, j \in 1..(Len(Standard) + 1)}
  \cup {InsertAt(RemoveAt(Standard, i), j, Standard[i]) : i \in DOMAIN Standard, j \in DOMAIN Standard}
  \cup {InsertAt(Standard, j, n) : j \in 1..(Len(Standard) + 1), n \in Additions}

Arguments == SeqOf({"-c", "-t", "-d", "-h", "-x", "conf", "log"}, 4)
             \cup UNION {Lines(trace) : trace \in {<<>>, <<"-t">>, <<"-t", "log">>}}
Usual == {<<"-c", "conf">>, <<"-c", "conf", "-t", "log">>}

Started(args, configuration, left, root, logger) ==
  [args |-> args, configuration |-> configuration, left |-> left, root |-> root, logger |-> logger]

Whole(configuration) == Len(Printed(configuration))

StartsValue ==
  {Started(args, Standard, Whole(Standard), root, TRUE) : args \in Arguments, root \in BOOLEAN}
  \cup {Started(args, Standard, Whole(Standard), root, logger) :
          args \in Usual, root \in BOOLEAN, logger \in BOOLEAN}
  \cup {Started(args, c, Whole(c), FALSE, TRUE) : args \in Usual, c \in Changed}
  \cup {Started(args, Standard, k, FALSE, TRUE) : args \in Usual, k \in 1..Whole(Standard)}
=============================================================================
