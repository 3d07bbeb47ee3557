------------------------------ MODULE StartUp -------------------------------
(***************************************************************************)
(* The start of the server (dtmf/src/Dtmfmain.cpp and the first half of    *)
(* Dtmf.cpp): main reads its arguments, loads the configuration file,      *)
(* opens the log, and reads the settings, one after the other; what it     *)
(* starts then is DtmfServer's subject.                                    *)
(*                                                                         *)
(* The file is printed from the configuration that somebody wrote, and may *)
(* have lost its end.                                                      *)
(***************************************************************************)
EXTENDS CXML

CONSTANTS ConfigPath,       (* the name of the file                          *)
          Starts            (* records of the arguments, the configuration,  *)
                            (* the symbols the file has left of it, whether  *)
                            (* DTMFServer_ROOT is set, and whether the       *)
                            (* logger can be opened                          *)

Dashed == {"-c", "-t", "-d", "-h", "-v", "-V", "-x"}
NoName == "null"

VARIABLES start,            (* which of the Starts it is                     *)
          next, state,      (* of the loop over the arguments                *)
          options,
          stage,            (* of main                                       *)
          position,         (* among the settings                            *)
          settings          (* their values                                  *)

ownVars == <<start, next, state, options, stage, position, settings>>
allVars == <<vars, ownVars>>

\* The settings in the order in which they are read, and those that are searched from
\* the root of the document, not from the one before.
Settings == <<"loglevel", "logsize", "lognum", "remotelogserverip",
              "local_ip", "local_port", "RTPPROXY_ip", "RTPPROXY_port">>
Searched == {"loglevel", "remotelogserverip"}

Printed(configuration) ==
  FilePrint(Document(<<Node("element", <<"DTMFServer">>, <<>>, configuration)>>))
WholeFile == Printed(start.configuration)

StartInit == /\ Init
             /\ start \in Starts
             /\ file = SubSeq(WholeFile, 1, start.left)
             /\ next = 1 /\ state = 0
             /\ options = [pConfigFilePath |-> NoName, pLogDirectory |-> NoName]
             /\ stage = "arguments"
             /\ position = 1
             /\ settings = [i \in 1..Len(Settings) |-> <<>>]

-----------------------------------------------------------------------------
(***************************************************************************)
(* The command line                                                        *)
(***************************************************************************)
Exit == stage' = "exited" /\ UNCHANGED <<next, state, options, aborted>>

Advance(s) == next' = next + 1 /\ state' = s /\ UNCHANGED <<stage, aborted>>

\* The help, the version, or an option that is not known end the program.
AcceptOption(a) ==
  \/ a \notin {"-c", "-t", "-d"} /\ Exit
  \/ a = "-d" /\ Advance(0) /\ UNCHANGED options
  \/ a = "-c" /\ Advance(1) /\ UNCHANGED options
  \/ a = "-t" /\ Advance(2) /\ UNCHANGED options

\* A second file deletes the name of the first, which is an argument of main.
ExpectFile(a) ==
  \/ a \in Dashed /\ Exit
  \/ /\ a \notin Dashed /\ options.pConfigFilePath = NoName
     /\ Advance(0) /\ options' = [options EXCEPT !.pConfigFilePath = a]
  \/ /\ a \notin Dashed /\ options.pConfigFilePath # NoName
     /\ aborted' = TRUE /\ UNCHANGED <<next, state, options, stage>>

\* The directory may be missing.
ExpectDirectory(a) ==
  \/ a \in Dashed /\ AcceptOption(a)
  \/ a \notin Dashed /\ Advance(0) /\ options' = [options EXCEPT !.pLogDirectory = a]

ParseArgument ==
  /\ stage = "arguments" /\ ~ aborted /\ next <= Len(start.args)
  /\ LET a == start.args[next]
     IN  \/ state = 0 /\ AcceptOption(a)
         \/ state = 1 /\ ExpectFile(a)
         \/ state = 2 /\ ExpectDirectory(a)
  /\ UNCHANGED <<m_xml, pElement, file, start, position, settings>>

\* There is a file, or the program ends.
ProcessArgs ==
  /\ stage = "arguments" /\ ~ aborted /\ next > Len(start.args)
  /\ IF state = 1 \/ options.pConfigFilePath = NoName THEN Exit
     ELSE stage' = "load" /\ UNCHANGED <<next, state, options, aborted>>
  /\ UNCHANGED <<m_xml, pElement, file, start, position, settings>>

-----------------------------------------------------------------------------
(***************************************************************************)
(* The configuration                                                       *)
(***************************************************************************)
\* Whether the file could be loaded is not looked at.
Load == /\ stage = "load"
        /\ ParseXmlFile(IF options.pConfigFilePath = ConfigPath THEN file ELSE Absent)
        /\ stage' = "log"
        /\ UNCHANGED <<start, next, state, options, position, settings>>

\* Without a directory it is that of the environment, whose memory is deleted.
logInit ==
  /\ stage = "log" /\ ~ aborted
  /\ aborted' = (options.pLogDirectory = NoName /\ start.root)
  /\ stage' = IF start.logger THEN "settings" ELSE "exited"
  /\ UNCHANGED <<m_xml, pElement, file, start, next, state, options, position, settings>>

\* Mutant: a setting that is searched is looked up, and the cursor's is copied.
ValueAtCursor(name) == NextValue(<<name>>)

Value(name) == IF name \in Searched THEN FirstValue(<<name>>) ELSE NextValue(<<name>>)

\* One setting, in logInit and in DTMFMessageManager::init.
ReadSetting ==
  /\ stage = "settings" /\ ~ aborted
  /\ LET name == Settings[position]
     IN  /\ IF name \in Searched THEN getFirstElementValue(<<name>>)
            ELSE getNextElementValue(<<name>>)
         /\ settings' = [settings EXCEPT ![position] = Value(name)]
  /\ position' = position + 1
  /\ stage' = IF position = Len(Settings) THEN "running" ELSE stage
  /\ UNCHANGED <<start, next, state, options>>

Running == stage = "running" /\ ~ aborted
Stopped == stage = "exited" \/ aborted

\* main sleeps; a program that has ended stays so.
Sleep == Running /\ UNCHANGED allVars
Stay == Stopped /\ UNCHANGED allVars

Next == ParseArgument \/ ProcessArgs \/ Load \/ logInit \/ ReadSetting \/ Sleep \/ Stay

Spec == StartInit /\ [][Next]_allVars
-----------------------------------------------------------------------------

Named(name) == {n \in ToSet(start.configuration) : n.type = "element" /\ n.value = <<name>>}

Understood == \E i \in 1..(Len(start.args) - 1) :
                /\ start.args[i] = "-c" /\ start.args[i + 1] = options.pConfigFilePath
                /\ \A a \in ToSet(start.args) : a \notin {"-h", "-v", "-V", "-x"}

\* A server that runs was told its file by -c, and if the file was whole runs with the
\* values that the file gives, each under its own name.  Only the port of the proxy, the
\* last one read, may be missing.
RunningIsConfigured ==
  Running =>
    /\ Understood /\ options.pConfigFilePath = ConfigPath
    /\ start.left = Len(WholeFile) =>
         \A i \in DOMAIN Settings :
           \/ \E n \in Named(Settings[i]) : settings[i] = n.children[1].value
           \/ Settings[i] \in {"remotelogserverip", "RTPPROXY_port"} /\ settings[i] = <<>>

\* The configuration has all settings in the order of their reading, whatever is between them.
InOrder(configuration) ==
  /\ \A n \in ToSet(configuration) : n.type = "element" =>
        n.children # <<>> /\ \A i \in DOMAIN n.children : n.children[i].type = "text"
  /\ \A i \in DOMAIN Settings : Settings[i] = "remotelogserverip" \/ Named(Settings[i]) # {}
  /\ \A i, j \in DOMAIN Settings : \A p, q \in DOMAIN configuration :
        i < j /\ configuration[p].value = <<Settings[i]>> /\ configuration[q].value = <<Settings[j]>>
          => p < q

\* The parts of a command line, in any order; a part may be empty.
Lines(trace) == {FlattenSeq([i \in 1..3 |-> <<<<"-c", ConfigPath>>, trace, daemon>>[order[i]]]) :
                   order \in Permutations(1..3), daemon \in {<<>>, <<"-d">>}}

\* As the usage has it: DTMFServer -c <config_file> [-t [<trace_dir>]] [-d].
WithDirectory(args) == \E directory \in ToSet(args) \ Dashed : args \in Lines(<<"-t", directory>>)
AsUsed(args) == WithDirectory(args) \/ args \in Lines(<<"-t">>) \cup Lines(<<>>)

\* With arguments as the usage has them, a logger, and a whole file with the settings in
\* order, the server does not give up on its way: as no step of main waits, it gets to
\* run.  Against the usage, this takes a command line with a directory for the log, or
\* an environment without one, as logInit deletes what getenv returns.
ProperStartRuns ==
  AsUsed(start.args) /\ start.logger /\ start.left = Len(WholeFile) /\ InOrder(start.configuration) =>
    ~ Stopped \/ (start.root /\ ~ WithDirectory(start.args))
=============================================================================
