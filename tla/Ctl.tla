--------------------------------- MODULE Ctl ---------------------------------
(***************************************************************************)
(* How ioswitchctl decides which daemon gets which command: getopt goes    *)
(* through the arguments in their order, then the configuration file, read *)
(* by the scanner of ConfigFile, has the last word.  What becomes of the   *)
(* command is in ListenerPool and SenderControl.                           *)
(*                                                                         *)
(* A command is compared by its first letters, of which no word has those  *)
(* of two commands: a word is the command it begins with, or "other".      *)
(* source_port is left out, since nothing reads it, and so is -c, which    *)
(* names the file that is scanned.                                         *)
(***************************************************************************)
EXTENDS ConfigFile

CONSTANTS
  DaemonIp,     \* two more variables: "daemon_ip"
  DaemonPort,   \* and "daemon_port"
  Localhost,    \* "127.0.0.1"
  Argvs         \* the arguments users give

Commands == {"NONE", "LIST", "START", "STOP", "SWITCH", "RELOAD", "KILL"}

\* The options getopt returns; "?" is any other, ":" one without its argument.
Options ==
  [opt : {"t"}, arg : Commands \cup {"other"}]
  \cup [opt : {"d", "i"}, arg : Words]
  \cup [opt : {"n"}, arg : {"0", "1"}]
  \cup [opt : {"p", "l", "?", ":"}, arg : {<<>>}]

ASSUME CtlAssumption ==
  /\ {DaemonIp, DaemonPort} \subseteq Vars
  /\ Localhost \in Words
  /\ Argvs \subseteq Seq(Options)

StrToCommand(text) == IF text \in Commands THEN text ELSE "NONE"

CtlConfig == [command |-> "NONE", daemon_ip |-> Localhost, daemon_port |-> 8080, parse |-> TRUE]

\* One turn of the getopt loop.  do_parse_config is 0 after any -n, whose argument
\* nobody reads; -p and -l are accepted and do nothing.
Taken(config, option) ==
  CASE option.opt = "t" -> [config EXCEPT !.command = StrToCommand(option.arg)]
    [] option.opt = "d" -> [config EXCEPT !.daemon_port = PortOf(option.arg)]
    [] option.opt = "i" -> [config EXCEPT !.daemon_ip = option.arg]
    [] option.opt = "n" -> [config EXCEPT !.parse = FALSE]
    [] OTHER -> config

ParseConfig(config) ==
  LET ip == GetVariable(DaemonIp)
      port == GetVariable(DaemonPort)
  IN  [config EXCEPT !.daemon_ip = IF ip = <<>> THEN @ ELSE Chosen(ip),
                     !.daemon_port = IF port = <<>> \/ Number[Chosen(port)] = 0 THEN @
                                     ELSE PortOf(Chosen(port))]

\* The whole getopt loop.
Getopt(config, argv) ==
  LET after[n \in 0 .. Len(argv)] ==
        IF n = 0 THEN config ELSE Taken(after[n - 1], argv[n])
  IN  after[Len(argv)]

\* Mutant: the file is read before the options are.
MainFileFirst(argv) ==
  IF \E n \in DOMAIN argv : argv[n].opt = "?"
  THEN {}
  ELSE {Getopt(ParseConfig(CtlConfig), argv)}

\* What main sends, and where: nothing after an unknown option.
Main(argv) ==
  IF \E n \in DOMAIN argv : argv[n].opt = "?"
  THEN {}
  ELSE LET config == Getopt(CtlConfig, argv)
       IN  {IF config.parse THEN ParseConfig(config) ELSE config}

-----------------------------------------------------------------------------

\* What the user says with the option o: its last argument counts.
Says(argv, o) == {n \in DOMAIN argv : argv[n].opt = o}
LastSaid(argv, o) == argv[CHOOSE n \in Says(argv, o) : \A m \in Says(argv, o) : m <= n].arg

\* A user who gives -n 1 is not covered by CtlAsTold: see ParseFlagHonoured.
AsksToParse(argv) == \E n \in Says(argv, "n") : argv[n].arg = "1"

\* The command is the last one named, whatever stands around it.  It goes to the
\* address the file gives, however the options are ordered, if the file may be
\* read and has one; else to the one last named by an option; else to port 8080
\* of this computer.  A file without a usable port leaves the option's port, and
\* its address does not depend on that.  So main does for arguments without -n 1.
CtlAsTold ==
  LET ips == written[DaemonIp]
      ports == written[DaemonPort]
  IN  loaded /\ (tokens # <<>> => damaged \cap {DaemonIp, DaemonPort} = {}) =>
        \A argv \in {a \in Argvs : ~AsksToParse(a)} : \A sent \in Main(argv) :
          LET file == Says(argv, "n") = {} /\ tokens # <<>> IN
          /\ Says(argv, "?") = {}
          /\ sent.command = IF Says(argv, "t") = {} \/ LastSaid(argv, "t") = "other" THEN "NONE"
                            ELSE LastSaid(argv, "t")
          /\ sent.daemon_ip = IF file /\ ips # <<>> THEN ips[1]
                              ELSE IF Says(argv, "i") # {} THEN LastSaid(argv, "i") ELSE Localhost
          /\ LET port == IF file /\ ports # <<>> /\ Number[ports[1]] # 0 THEN Number[ports[1]]
                         ELSE IF Says(argv, "d") # {} THEN Number[LastSaid(argv, "d")] ELSE 8080
             IN  port < 2 ^ 16 => sent.daemon_port = port

\* "-n <parse_config:1|0>": with 1 the file is parsed, and its address counts.
ParseFlagHonoured ==
  LET ips == written[DaemonIp]
  IN  Opened /\ DaemonIp \notin damaged /\ ips # <<>> =>
        \A argv \in {a \in Argvs : Says(a, "n") # {} /\ LastSaid(a, "n") = "1"} :
          \A sent \in Main(argv) : sent.daemon_ip = ips[1]
=============================================================================
