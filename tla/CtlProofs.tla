------------------------------ MODULE CtlProofs ------------------------------
(***************************************************************************)
(* The theorem about ioswitchctl: for every list of arguments and every    *)
(* configuration file.                                                     *)
(***************************************************************************)
EXTENDS Ctl, ConfigFileProofs

Configs == [command : Commands, daemon_ip : Words, daemon_port : Nat, parse : BOOLEAN]

LEMMA PortIsNat ==
  ASSUME NEW w \in Words
  PROVE  PortOf(w) \in Nat /\ (Number[w] < 2 ^ 16 => PortOf(w) = Number[w])
<1>1. Number[w] \in Nat
  BY FileAssumption
<1> QED
  BY <1>1 DEF PortOf

LEMMA OptionArgs ==
  ASSUME NEW option \in Options
  PROVE  /\ option.opt = "t" => option.arg \in Commands \cup {"other"}
         /\ option.opt \in {"d", "i"} => option.arg \in Words
  BY DEF Options

LEMMA CommandIsCommand ==
  ASSUME NEW text
  PROVE  StrToCommand(text) \in Commands
  BY DEF StrToCommand, Commands

LEMMA CtlConfigIsConfig == CtlConfig \in Configs
  BY CtlAssumption DEF CtlConfig, Configs, Commands

\* What a turn of the getopt loop does to each field.
LEMMA TakenFields ==
  ASSUME NEW config \in Configs, NEW option \in Options
  PROVE  LET next == Taken(config, option) IN
         /\ next \in Configs
         /\ next.command = IF option.opt = "t" THEN StrToCommand(option.arg) ELSE config.command
         /\ next.daemon_ip = IF option.opt = "i" THEN option.arg ELSE config.daemon_ip
         /\ next.daemon_port = IF option.opt = "d" THEN PortOf(option.arg) ELSE config.daemon_port
         /\ next.parse = IF option.opt = "n" THEN FALSE ELSE config.parse
<1>1. CASE option.opt = "t"
  <2>1. StrToCommand(option.arg) \in Commands
    BY CommandIsCommand
  <2>2. Taken(config, option) = [config EXCEPT !.command = StrToCommand(option.arg)]
    BY <1>1 DEF Taken
  <2> QED
    BY <1>1, <2>1, <2>2 DEF Configs
<1>2. CASE option.opt = "d"
  <2>1. PortOf(option.arg) \in Nat
    BY <1>2, OptionArgs, PortIsNat
  <2>2. Taken(config, option) = [config EXCEPT !.daemon_port = PortOf(option.arg)]
    BY <1>2 DEF Taken
  <2> QED
    BY <1>2, <2>1, <2>2 DEF Configs
<1>3. CASE option.opt = "i"
  <2>1. option.arg \in Words
    BY <1>3, OptionArgs
  <2>2. Taken(config, option) = [config EXCEPT !.daemon_ip = option.arg]
    BY <1>3 DEF Taken
  <2> QED
    BY <1>3, <2>1, <2>2 DEF Configs
<1>4. CASE option.opt = "n"
  <2>1. Taken(config, option) = [config EXCEPT !.parse = FALSE]
    BY <1>4 DEF Taken
  <2> QED
    BY <1>4, <2>1 DEF Configs
<1>5. CASE option.opt \notin {"t", "d", "i", "n"}
  <2>1. Taken(config, option) = config
    BY <1>5 DEF Taken
  <2> QED
    BY <1>5, <2>1
<1> QED
  BY <1>1, <1>2, <1>3, <1>4, <1>5

-----------------------------------------------------------------------------
(* The last of some options *)

\* Is the m-th argument the last o among the first n?
Last(argv, n, o, m) ==
  /\ m \in 1 .. n
  /\ argv[m].opt = o
  /\ \A k \in m + 1 .. n : argv[k].opt # o

None(argv, n, o) == \A k \in 1 .. n : argv[k].opt # o

LEMMA LastTurn ==
  ASSUME NEW argv, NEW n \in Nat, NEW o
  PROVE  /\ argv[n + 1].opt = o => /\ ~None(argv, n + 1, o)
                                   /\ \A m : Last(argv, n + 1, o, m) <=> m = n + 1
         /\ argv[n + 1].opt # o => /\ None(argv, n + 1, o) <=> None(argv, n, o)
                                   /\ \A m : Last(argv, n + 1, o, m) <=> Last(argv, n, o, m)
<1>1. ASSUME argv[n + 1].opt = o
      PROVE  /\ ~None(argv, n + 1, o)
             /\ \A m : Last(argv, n + 1, o, m) <=> m = n + 1
  <2>1. n + 1 \in 1 .. n + 1
    OBVIOUS
  <2>2. ASSUME NEW m, Last(argv, n + 1, o, m)
        PROVE  m = n + 1
    <3>1. m \in 1 .. n + 1 /\ \A k \in m + 1 .. n + 1 : argv[k].opt # o
      BY <2>2 DEF Last
    <3>2. n + 1 \notin m + 1 .. n + 1
      BY <1>1, <3>1
    <3> QED
      BY <3>1, <3>2
  <2>3. Last(argv, n + 1, o, n + 1)
    <3>1. \A k \in (n + 1) + 1 .. n + 1 : FALSE
      OBVIOUS
    <3> QED
      BY <1>1, <2>1, <3>1 DEF Last
  <2> QED
    BY <1>1, <2>1, <2>2, <2>3 DEF None
<1>2. ASSUME argv[n + 1].opt # o
      PROVE  /\ None(argv, n + 1, o) <=> None(argv, n, o)
             /\ \A m : Last(argv, n + 1, o, m) <=> Last(argv, n, o, m)
  <2>1. \A k : k \in 1 .. n + 1 <=> k \in 1 .. n \/ k = n + 1
    OBVIOUS
  <2>2. ASSUME NEW m \in 1 .. n
        PROVE  \A k : k \in m + 1 .. n + 1 <=> k \in m + 1 .. n \/ k = n + 1
    OBVIOUS
  <2>3. ASSUME NEW m \in 1 .. n
        PROVE  Last(argv, n + 1, o, m) <=> Last(argv, n, o, m)
    BY <1>2, <2>1, <2>2 DEF Last
  <2>4. ASSUME NEW m, m \notin 1 .. n
        PROVE  ~Last(argv, n + 1, o, m) /\ ~Last(argv, n, o, m)
    BY <1>2, <2>1, <2>4 DEF Last
  <2> QED
    BY <1>2, <2>1, <2>3, <2>4 DEF None
<1> QED
  BY <1>1, <1>2

LEMMA SomeLast ==
  ASSUME NEW argv, NEW n \in Nat, NEW o
  PROVE  None(argv, n, o) \/ \E m : Last(argv, n, o, m)
<1> DEFINE T == {k \in Nat : None(argv, k, o) \/ \E m : Last(argv, k, o, m)}
<1>1. 0 \in T
  BY DEF None
<1>2. ASSUME NEW k \in Nat, k \in T
      PROVE  k + 1 \in T
  <2>1. CASE argv[k + 1].opt = o
    <3>1. Last(argv, k + 1, o, k + 1)
      BY <2>1, LastTurn
    <3> QED
      BY <3>1
  <2>2. CASE argv[k + 1].opt # o
    <3>1. None(argv, k + 1, o) <=> None(argv, k, o)
      BY <2>2, LastTurn
    <3>2. ASSUME NEW m, Last(argv, k, o, m)
          PROVE  Last(argv, k + 1, o, m)
      BY <2>2, <3>2, LastTurn
    <3> QED
      BY <1>2, <3>1, <3>2
  <2> QED
    BY <2>1, <2>2
<1>3. Nat \subseteq T
  <2> HIDE DEF T
  <2> QED
    BY <1>1, <1>2, Induction
<1> QED
  BY <1>3

LEMMA LastIsSaid ==
  ASSUME NEW argv \in Seq(Options), NEW o
  PROVE  /\ Says(argv, o) = {} <=> None(argv, Len(argv), o)
         /\ Says(argv, o) # {} => \E m \in 1 .. Len(argv) :
              Last(argv, Len(argv), o, m) /\ argv[m].opt = o /\ LastSaid(argv, o) = argv[m].arg
<1>1. Len(argv) \in Nat /\ DOMAIN argv = 1 .. Len(argv)
  OBVIOUS
<1>2. Says(argv, o) = {} <=> None(argv, Len(argv), o)
  BY <1>1 DEF Says, None
<1>3. ASSUME Says(argv, o) # {}
      PROVE  \E m \in 1 .. Len(argv) :
               Last(argv, Len(argv), o, m) /\ argv[m].opt = o /\ LastSaid(argv, o) = argv[m].arg
  <2>1. PICK m : Last(argv, Len(argv), o, m)
    BY <1>1, <1>2, <1>3, SomeLast
  <2>2. m \in 1 .. Len(argv) /\ argv[m].opt = o /\ \A k \in m + 1 .. Len(argv) : argv[k].opt # o
    BY <2>1 DEF Last
  <2>3. m \in Says(argv, o)
    BY <1>1, <2>2 DEF Says
  <2>4. ASSUME NEW k \in Says(argv, o)
        PROVE  k <= m /\ k \in 1 .. Len(argv)
    <3>1. k \in 1 .. Len(argv) /\ argv[k].opt = o
      BY <1>1, <2>4 DEF Says
    <3>2. k \notin m + 1 .. Len(argv)
      BY <2>2, <3>1
    <3> QED
      BY <1>1, <2>2, <3>1, <3>2
  <2> DEFINE IsMax(n) == n \in Says(argv, o) /\ \A k \in Says(argv, o) : k <= n
  <2>5. \A n : IsMax(n) => n = m
    <3> SUFFICES ASSUME NEW n, IsMax(n)
                 PROVE  n = m
      OBVIOUS
    <3>1. n <= m /\ m <= n /\ n \in 1 .. Len(argv)
      BY <2>3, <2>4
    <3> QED
      BY <1>1, <2>2, <3>1
  <2>6. IsMax(m)
    BY <2>3, <2>4
  <2>7. (CHOOSE n \in Says(argv, o) : \A k \in Says(argv, o) : k <= n) = m
    BY <2>5, <2>6
  <2> QED
    BY <2>1, <2>2, <2>7 DEF LastSaid
<1> QED
  BY <1>2, <1>3

-----------------------------------------------------------------------------
(* The getopt loop *)

\* What is in config after n of the arguments.
Told(config, argv, n) ==
  /\ config \in Configs
  /\ None(argv, n, "t") => config.command = "NONE"
  /\ \A m : Last(argv, n, "t", m) => config.command = StrToCommand(argv[m].arg)
  /\ None(argv, n, "i") => config.daemon_ip = Localhost
  /\ \A m : Last(argv, n, "i", m) => config.daemon_ip = argv[m].arg
  /\ None(argv, n, "d") => config.daemon_port = 8080
  /\ \A m : Last(argv, n, "d", m) => config.daemon_port = PortOf(argv[m].arg)
  /\ config.parse <=> None(argv, n, "n")

LEMMA ToldStarts ==
  ASSUME NEW argv
  PROVE  Told(CtlConfig, argv, 0)
<1>1. \A o : None(argv, 0, o) /\ \A m : ~Last(argv, 0, o, m)
  BY DEF None, Last
<1>2. /\ CtlConfig.command = "NONE" /\ CtlConfig.daemon_ip = Localhost
      /\ CtlConfig.daemon_port = 8080 /\ CtlConfig.parse = TRUE
  BY DEF CtlConfig
<1> QED
  BY <1>1, <1>2, CtlConfigIsConfig DEF Told

LEMMA ToldTurn ==
  ASSUME NEW argv, NEW n \in Nat, argv[n + 1] \in Options, NEW config, Told(config, argv, n)
  PROVE  Told(Taken(config, argv[n + 1]), argv, n + 1)
<1> DEFINE option == argv[n + 1]
           next == Taken(config, option)
<1>1. config \in Configs
  BY DEF Told
<1>2. /\ next \in Configs
      /\ next.command = IF option.opt = "t" THEN StrToCommand(option.arg) ELSE config.command
      /\ next.daemon_ip = IF option.opt = "i" THEN option.arg ELSE config.daemon_ip
      /\ next.daemon_port = IF option.opt = "d" THEN PortOf(option.arg) ELSE config.daemon_port
      /\ next.parse = IF option.opt = "n" THEN FALSE ELSE config.parse
  BY <1>1, TakenFields
<1> HIDE DEF next
<1>3. /\ None(argv, n + 1, "t") => next.command = "NONE"
      /\ \A m : Last(argv, n + 1, "t", m) => next.command = StrToCommand(argv[m].arg)
  <2>1. CASE option.opt = "t"
    <3>1. ~None(argv, n + 1, "t") /\ \A m : Last(argv, n + 1, "t", m) <=> m = n + 1
      BY <2>1, LastTurn
    <3> QED
      BY <1>2, <2>1, <3>1
  <2>2. CASE option.opt # "t"
    <3>1. /\ None(argv, n + 1, "t") <=> None(argv, n, "t")
          /\ \A m : Last(argv, n + 1, "t", m) <=> Last(argv, n, "t", m)
      BY <2>2, LastTurn
    <3>2. next.command = config.command
      BY <1>2, <2>2
    <3> QED
      BY <3>1, <3>2 DEF Told
  <2> QED
    BY <2>1, <2>2
<1>4. /\ None(argv, n + 1, "i") => next.daemon_ip = Localhost
      /\ \A m : Last(argv, n + 1, "i", m) => next.daemon_ip = argv[m].arg
  <2>1. CASE option.opt = "i"
    <3>1. ~None(argv, n + 1, "i") /\ \A m : Last(argv, n + 1, "i", m) <=> m = n + 1
      BY <2>1, LastTurn
    <3> QED
      BY <1>2, <2>1, <3>1
  <2>2. CASE option.opt # "i"
    <3>1. /\ None(argv, n + 1, "i") <=> None(argv, n, "i")
          /\ \A m : Last(argv, n + 1, "i", m) <=> Last(argv, n, "i", m)
      BY <2>2, LastTurn
    <3>2. next.daemon_ip = config.daemon_ip
      BY <1>2, <2>2
    <3> QED
      BY <3>1, <3>2 DEF Told
  <2> QED
    BY <2>1, <2>2
<1>5. /\ None(argv, n + 1, "d") => next.daemon_port = 8080
      /\ \A m : Last(argv, n + 1, "d", m) => next.daemon_port = PortOf(argv[m].arg)
  <2>1. CASE option.opt = "d"
    <3>1. ~None(argv, n + 1, "d") /\ \A m : Last(argv, n + 1, "d", m) <=> m = n + 1
      BY <2>1, LastTurn
    <3> QED
      BY <1>2, <2>1, <3>1
  <2>2. CASE option.opt # "d"
    <3>1. /\ None(argv, n + 1, "d") <=> None(argv, n, "d")
          /\ \A m : Last(argv, n + 1, "d", m) <=> Last(argv, n, "d", m)
      BY <2>2, LastTurn
    <3>2. next.daemon_port = config.daemon_port
      BY <1>2, <2>2
    <3> QED
      BY <3>1, <3>2 DEF Told
  <2> QED
    BY <2>1, <2>2
<1>6. next.parse <=> None(argv, n + 1, "n")
  <2>1. CASE option.opt = "n"
    BY <1>2, <2>1, LastTurn
  <2>2. CASE option.opt # "n"
    BY <1>2, <2>2, LastTurn DEF Told
  <2> QED
    BY <2>1, <2>2
<1> QED
  BY <1>2, <1>3, <1>4, <1>5, <1>6 DEF Told, next, option

LEMMA GetoptTold ==
  ASSUME NEW argv \in Seq(Options)
  PROVE  Told(Getopt(CtlConfig, argv), argv, Len(argv))
<1> DEFINE N == Len(argv)
           turn == [p \in Configs \X (1 .. N) |-> Taken(p[1], argv[p[2]])]
           Equation(f) == f = [n \in 0 .. N |-> IF n = 0 THEN CtlConfig ELSE Taken(f[n - 1], argv[n])]
<1>1. N \in Nat /\ \A n \in 1 .. N : argv[n] \in Options
  OBVIOUS
<1>2. turn \in [Configs \X (1 .. N) -> Configs]
  <2>1. ASSUME NEW p \in Configs \X (1 .. N)
        PROVE  Taken(p[1], argv[p[2]]) \in Configs
    <3>1. p[1] \in Configs /\ argv[p[2]] \in Options
      BY <1>1
    <3> QED
      BY <3>1, TakenFields
  <2> QED
    BY <2>1
<1>3. \A c \in Configs, n \in 1 .. N : turn[<<c, n>>] = Taken(c, argv[n])
  OBVIOUS
<1> HIDE DEF turn, N
<1>4. PICK f \in [0 .. N -> Configs] : Computes(f, N, CtlConfig, turn)
  BY <1>1, <1>2, CtlConfigIsConfig, LoopExists
<1>5. Equation(f)
  <2>1. ASSUME NEW n \in 0 .. N, n # 0
        PROVE  f[n] = Taken(f[n - 1], argv[n])
    <3>1. n \in 1 .. N /\ n - 1 \in 0 .. N
      BY <1>1, <2>1
    <3> QED
      BY <1>3, <1>4, <3>1 DEF Computes
  <2> QED
    BY <1>4, <2>1 DEF Computes
<1>6. Equation(CHOOSE g : Equation(g))
  BY <1>5, Zenon
<1> DEFINE h == CHOOSE g : Equation(g)
<1>7. Getopt(CtlConfig, argv) = h[N]
  BY DEF Getopt, N
<1>8. h[0] = CtlConfig /\ \A n \in 1 .. N : h[n] = Taken(h[n - 1], argv[n])
  <2>1. \A n \in 0 .. N : h[n] = IF n = 0 THEN CtlConfig ELSE Taken(h[n - 1], argv[n])
    BY <1>6
  <2> HIDE DEF h
  <2>2. 0 \in 0 .. N /\ \A n \in 1 .. N : n \in 0 .. N /\ n # 0
    BY <1>1
  <2> QED
    BY <2>1, <2>2
<1> HIDE DEF h
<1> DEFINE T == {n \in Nat : n <= N => Told(h[n], argv, n)}
<1>9. 0 \in T
  BY <1>8, ToldStarts
<1>10. ASSUME NEW n \in Nat, n \in T
       PROVE  n + 1 \in T
  <2>1. SUFFICES ASSUME n + 1 <= N
                 PROVE  Told(h[n + 1], argv, n + 1)
    OBVIOUS
  <2>2. n + 1 \in 1 .. N /\ (n + 1) - 1 = n /\ Told(h[n], argv, n)
    BY <1>1, <1>10, <2>1
  <2>3. h[n + 1] = Taken(h[n], argv[n + 1]) /\ argv[n + 1] \in Options
    BY <1>1, <1>8, <2>2
  <2> QED
    BY <2>2, <2>3, ToldTurn
<1>11. Nat \subseteq T
  <2> HIDE DEF T
  <2> QED
    BY <1>9, <1>10, Induction
<1> QED
  BY <1>1, <1>7, <1>11 DEF N

-----------------------------------------------------------------------------
(* The file *)

LEMMA EmptyLookup ==
  ASSUME NEW v
  PROVE  Lookup(<<>>, v).values = <<>>
<1> DEFINE none == <<>>
<1>1. none \in Seq(Tokens) /\ Len(none) = 0
  OBVIOUS
<1> HIDE DEF none
<1>2. PICK f : Looks(f, none, v)
  BY <1>1, LookupIsLoop
<1>3. Lookup(none, v) = Unfound
  BY <1>1, <1>2 DEF Looks
<1> QED
  BY <1>3 DEF none, Unfound

\* What the file has for a variable, if it could be opened.
Has(v) == IF tokens = <<>> THEN <<>> ELSE written[v]

LEMMA FileHas ==
  ASSUME IInv, NEW v \in Vars, tokens # <<>> => v \notin damaged
  PROVE  GetVariable(v) = Has(v) /\ Has(v) \in Seq(Words)
<1>1. written[v] \in Seq(Words)
  BY DEF IInv, Author
<1>2. CASE tokens = <<>>
  BY <1>2, EmptyLookup DEF GetVariable, Has
<1>3. CASE tokens # <<>>
  BY <1>1, <1>3 DEF IInv, Values, GetVariable, Has
<1> QED
  BY <1>2, <1>3

\* parse_config's part in what is sent.
LEMMA ParseConfigFields ==
  ASSUME IInv, tokens # <<>> => damaged \cap {DaemonIp, DaemonPort} = {}, NEW config \in Configs
  PROVE  LET next == ParseConfig(config)
             ips == Has(DaemonIp)
             ports == Has(DaemonPort)
         IN
         /\ next.command = config.command
         /\ next.daemon_ip = IF ips # <<>> THEN ips[1] ELSE config.daemon_ip
         /\ next.daemon_port = IF ports # <<>> /\ Number[ports[1]] # 0 THEN PortOf(ports[1])
                               ELSE config.daemon_port
<1> DEFINE ips == Has(DaemonIp)
           ports == Has(DaemonPort)
<1>1. GetVariable(DaemonIp) = ips /\ GetVariable(DaemonPort) = ports
  BY FileHas, CtlAssumption
<1>2. (ips # <<>> => Chosen(ips) = ips[1]) /\ (ports # <<>> => Chosen(ports) = ports[1])
  BY FileHas, CtlAssumption DEF Chosen
<1> HIDE DEF ips, ports
<1>3. ParseConfig(config) =
        [config EXCEPT !.daemon_ip = IF ips = <<>> THEN @ ELSE Chosen(ips),
                       !.daemon_port = IF ports = <<>> \/ Number[Chosen(ports)] = 0 THEN @
                                       ELSE PortOf(Chosen(ports))]
  BY <1>1 DEF ParseConfig
<1>4. /\ ParseConfig(config).command = config.command
      /\ ParseConfig(config).daemon_ip = IF ips = <<>> THEN config.daemon_ip ELSE Chosen(ips)
      /\ ParseConfig(config).daemon_port =
           IF ports = <<>> \/ Number[Chosen(ports)] = 0 THEN config.daemon_port ELSE PortOf(Chosen(ports))
  BY <1>3 DEF Configs
<1> QED
  BY <1>2, <1>4 DEF ips, ports

\* What main sends is what the last options and the file say, for any arguments
\* without -n 1.
THEOREM CtlDoesAsTold == Spec => []CtlAsTold
<1>1. ASSUME IInv
      PROVE  CtlAsTold
  <2> SUFFICES ASSUME tokens # <<>> => damaged \cap {DaemonIp, DaemonPort} = {},
                      NEW argv \in Seq(Options), NEW sent \in Main(argv)
               PROVE  LET ips == written[DaemonIp]
                          ports == written[DaemonPort]
                          file == Says(argv, "n") = {} /\ tokens # <<>>
                      IN
                      /\ Says(argv, "?") = {}
                      /\ sent.command = IF Says(argv, "t") = {} \/ LastSaid(argv, "t") = "other"
                                        THEN "NONE" ELSE LastSaid(argv, "t")
                      /\ sent.daemon_ip = IF file /\ ips # <<>> THEN ips[1]
                                          ELSE IF Says(argv, "i") # {} THEN LastSaid(argv, "i")
                                          ELSE Localhost
                      /\ LET port == IF file /\ ports # <<>> /\ Number[ports[1]] # 0
                                     THEN Number[ports[1]]
                                     ELSE IF Says(argv, "d") # {} THEN Number[LastSaid(argv, "d")]
                                     ELSE 8080
                         IN  port < 2 ^ 16 => sent.daemon_port = port
    BY CtlAssumption DEF CtlAsTold
  <2> DEFINE got == Getopt(CtlConfig, argv)
  <2>1. Told(got, argv, Len(argv))
    BY GetoptTold
  <2> HIDE DEF got
  <2>2. Says(argv, "?") = {}
    BY DEF Main, Says
  <2>3. sent = IF got.parse THEN ParseConfig(got) ELSE got
    BY <2>2 DEF Main, Says, got
  <2>4. got \in Configs /\ (got.parse <=> Says(argv, "n") = {})
    BY <2>1, LastIsSaid DEF Told
  <2>5. got.command = IF Says(argv, "t") = {} \/ LastSaid(argv, "t") = "other" THEN "NONE"
                      ELSE LastSaid(argv, "t")
    <3>1. CASE Says(argv, "t") = {}
      BY <2>1, <3>1, LastIsSaid DEF Told
    <3>2. CASE Says(argv, "t") # {}
      <4>1. PICK m \in 1 .. Len(argv) : /\ Last(argv, Len(argv), "t", m) /\ argv[m].opt = "t"
                                        /\ LastSaid(argv, "t") = argv[m].arg
        BY <3>2, LastIsSaid
      <4>2. got.command = StrToCommand(LastSaid(argv, "t"))
        BY <2>1, <4>1 DEF Told
      <4>3. LastSaid(argv, "t") \in Commands \cup {"other"}
        BY <4>1, OptionArgs
      <4>4. "other" \notin Commands
        BY DEF Commands
      <4> QED
        BY <3>2, <4>2, <4>3, <4>4 DEF StrToCommand
    <3> QED
      BY <3>1, <3>2
  <2>6. got.daemon_ip = IF Says(argv, "i") # {} THEN LastSaid(argv, "i") ELSE Localhost
    <3>1. CASE Says(argv, "i") = {}
      BY <2>1, <3>1, LastIsSaid DEF Told
    <3>2. CASE Says(argv, "i") # {}
      <4>1. PICK m \in 1 .. Len(argv) : /\ Last(argv, Len(argv), "i", m)
                                        /\ LastSaid(argv, "i") = argv[m].arg
        BY <3>2, LastIsSaid
      <4> QED
        BY <2>1, <3>2, <4>1 DEF Told
    <3> QED
      BY <3>1, <3>2
  <2>7. /\ Says(argv, "d") = {} => got.daemon_port = 8080
        /\ Says(argv, "d") # {} => /\ LastSaid(argv, "d") \in Words
                                   /\ got.daemon_port = PortOf(LastSaid(argv, "d"))
    <3>1. CASE Says(argv, "d") = {}
      BY <2>1, <3>1, LastIsSaid DEF Told
    <3>2. CASE Says(argv, "d") # {}
      <4>1. PICK m \in 1 .. Len(argv) : /\ Last(argv, Len(argv), "d", m) /\ argv[m].opt = "d"
                                        /\ LastSaid(argv, "d") = argv[m].arg
        BY <3>2, LastIsSaid
      <4>2. argv[m].arg \in Words
        BY <4>1, OptionArgs
      <4> QED
        BY <2>1, <3>2, <4>1, <4>2 DEF Told
    <3> QED
      BY <3>1, <3>2
  <2> DEFINE ips == written[DaemonIp]
             ports == written[DaemonPort]
             file == Says(argv, "n") = {} /\ tokens # <<>>
  <2>8. /\ sent.command = got.command
        /\ sent.daemon_ip = IF file /\ ips # <<>> THEN ips[1] ELSE got.daemon_ip
        /\ sent.daemon_port = IF file /\ ports # <<>> /\ Number[ports[1]] # 0 THEN PortOf(ports[1])
                              ELSE got.daemon_port
    <3>1. CASE got.parse
      <4>1. sent = ParseConfig(got) /\ (file <=> tokens # <<>>)
        BY <2>3, <2>4, <3>1
      <4>2. /\ sent.command = got.command
            /\ sent.daemon_ip = IF Has(DaemonIp) # <<>> THEN Has(DaemonIp)[1] ELSE got.daemon_ip
            /\ sent.daemon_port = IF Has(DaemonPort) # <<>> /\ Number[Has(DaemonPort)[1]] # 0
                                  THEN PortOf(Has(DaemonPort)[1]) ELSE got.daemon_port
        BY <1>1, <2>4, <4>1, ParseConfigFields
      <4> QED
        BY <4>1, <4>2 DEF Has
    <3>2. CASE ~got.parse
      BY <2>3, <2>4, <3>2
    <3> QED
      BY <3>1, <3>2
  <2>9. ports \in Seq(Words)
    BY <1>1, CtlAssumption DEF IInv, Author
  <2>10. ports # <<>> => ports[1] \in Words
    BY <2>9
  <2> HIDE DEF ips, ports
  <2>11. ASSUME NEW w \in Words, Number[w] < 2 ^ 16
         PROVE  PortOf(w) = Number[w]
    BY <2>11, PortIsNat
  <2>12. LET port == IF file /\ ports # <<>> /\ Number[ports[1]] # 0 THEN Number[ports[1]]
                     ELSE IF Says(argv, "d") # {} THEN Number[LastSaid(argv, "d")] ELSE 8080
         IN  port < 2 ^ 16 => sent.daemon_port = port
    <3>1. CASE file /\ ports # <<>> /\ Number[ports[1]] # 0
      BY <2>8, <2>10, <2>11, <3>1
    <3>2. CASE ~(file /\ ports # <<>> /\ Number[ports[1]] # 0)
      BY <2>7, <2>8, <2>11, <3>2
    <3> QED
      BY <3>1, <3>2
  <2> QED
    BY <2>2, <2>5, <2>6, <2>8, <2>12 DEF ips, ports
<1> QED
  BY <1>1, IInvHolds, PTL
=============================================================================
