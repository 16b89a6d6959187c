---------------------------- MODULE MCPrograms ----------------------------
(* What a user types at: the command line of a client of the simulation     *)
(* server, two chat programs, and the console of a machine.  One is run.    *)
EXTENDS Negotiation, Chat

CONSTANTS A, B, u, longUser, p, shortMap, longMap, shortNode, longNode, i1, i2, Junk, NaN, hi, you

VARIABLES kind, console, input, cin, asked, base_port, executed, ended

MCListenPort == (A :> 10000) @@ (B :> 10001)
MCTexts == {<<"a">>, <<"b", "c">>}

-----------------------------------------------------------------------------
\* A line is a sequence of words; what each line is that is a command.
Text(t) == [text |-> t, parts |-> <<>>, slash |-> <<>>, colon |-> <<>>]
Dotted(parts) == [Text("") EXCEPT !.parts = parts]
Num(i) == Dotted(<<i>>)
Words(texts) == [i \in 1..Len(texts) |-> Text(texts[i])]
Run(type, args) == [type |-> type, args |-> args]

\* The numbers at the limits, and past the width of the field they go to.
LeaseClientMeaning ==
  (Words(<<"get", "ip", "for", "time">>) \o <<Num(9999)>> :> Run("GET_IP", <<9999>>)) @@
  (Words(<<"accept", "offer:">>) \o <<Dotted(<<10, 0, 255, 256>>)>> \o Words(<<"for", "time">>) \o <<Num(5)>>
     :> Run("ACCEPT_OFFER", <<<<10, 0, 255, 0>>, 5>>)) @@
  (Words(<<"release">>) \o <<Dotted(<<10, 0, 0, 1>>)>> :> Run("RELEASE", <<<<10, 0, 0, 1>>>>)) @@
  (Words(<<"extend", "lease">>) \o <<Dotted(<<10, 0, 0, 1>>)>> \o Words(<<"for", "time">>) \o <<Num(7)>>
     :> Run("EXTEND_LEASE", <<<<10, 0, 0, 1>>, 7>>)) @@
  (Words(<<"print", "ip">>) :> Run("PRINT_IP", <<>>))
LeaseServerMeaning ==
  (Words(<<"add", "pool">>) \o <<[Dotted(<<10, 0, 0, 8>>) EXCEPT !.slash = <<30>>]>>
     :> Run("ADD_POOL", <<<<10, 0, 0, 8>>, 30>>)) @@
  (Words(<<"add", "time">>) \o <<Num(9)>> :> Run("ADD_TIME", <<9>>)) @@
  (Words(<<"print", "pool">>) :> Run("PRINT_POOL", <<>>))
Told(i, message) == [Num(i) EXCEPT !.colon = message]
PeerMeaning ==
  (Words(<<"make", "a", "connection", "to", "server", "on", "port">>) \o <<Num(65537)>>
     :> Run("MAKE_CONNECTION", <<1>>)) @@
  (Words(<<"get", "info", "of">>) \o <<Num(31)>> :> Run("GET_ID_INFO", <<31>>)) @@
  (Words(<<"make", "a", "local", "session", "to">>) \o <<Num(32)>> :> Run("MAKE_LOCAL_SESSION", <<0>>)) @@
  (Words(<<"make", "a", "public", "session", "to">>) \o <<Num(1)>> :> Run("MAKE_PUBLIC_SESSION", <<1>>)) @@
  (Words(<<"send", "msg", "to">>) \o <<Told(1, <<hi>>)>> :> Run("SEND_MSG", <<1, <<hi>>>>)) @@
  (Words(<<"send", "msg", "to">>) \o <<Told(1, <<hi>>), Text("there")>>
     :> Run("SEND_MSG", <<1, <<hi, Text("there")>>>>)) @@
  (Words(<<"send", "msg", "to">>) \o <<Told(1, <<hi, you>>), Text("there")>> :> Run("SEND_MSG", <<1, <<hi>>>>)) @@
  (Words(<<"status">>) :> Run("STATUS", <<>>))
NatMeaning ==
  (Words(<<"block", "port", "range">>) \o <<Num(0), Num(65535)>> :> Run("BLOCK_RANGE", <<0, 65535>>)) @@
  (Words(<<"reset_setting", "network", "settings">>) :> Run("RESET", <<>>))
MCMeaning ==
  ("lease client" :> LeaseClientMeaning) @@ ("lease server" :> LeaseServerMeaning)
  @@ ("peer" :> PeerMeaning) @@ ("nat" :> NatMeaning)

\* Next to the commands: no word, a word too few, a last word that is empty or no
\* number or a number too large, a mask or a message that is missing.
Cut(l) == SubSeq(l, 1, Len(l) - 1)
Unread(l) == Cut(l) \o <<Num(NaN)>>
Huge(l) == Cut(l) \o <<Num(1000000)>>
Bare(l) == Cut(l) \o <<[l[Len(l)] EXCEPT !.slash = <<>>, !.colon = <<>>]>>
MCLines ==
  [x \in DOMAIN MCMeaning |->
     LET good == DOMAIN MCMeaning[x]
         some == { l \in good : l[Len(l)] # Text("there") }
     IN good \cup { Cut(l) : l \in some } \cup { Unread(l) : l \in some } \cup { Huge(l) : l \in some }
        \cup { Bare(l) : l \in some } \cup { Cut(l) \o <<Text("")>> : l \in some } \cup {<<>>}]

T == INSTANCE Console WITH
  IntLimit <- 999999, Lines <- MCLines, Meaning <- MCMeaning,
  BaseWords <- {Num(0), Num(3000), Num(65536), Text("no")}

convars == <<console, input, cin, asked, base_port, executed, ended>>
allvars == <<vars, chat, convars, kind>>

MCInit ==
  /\ Init /\ ChatInit /\ T!ConInit
  /\ kind \in {"client", "chat", "console"}
  /\ kind # "console" => console = "nat"

MCNext ==
  \/ kind = "client" /\ Next /\ UNCHANGED <<kind, chat, convars>>
  \/ kind = "chat" /\ ChatNext /\ UNCHANGED <<kind, vars, convars>>
  \/ kind = "console" /\ T!ConNext /\ UNCHANGED <<kind, vars, chat>>

MCSpec == MCInit /\ [][MCNext]_allvars

\* The line typed at a console is the command that is run (the parse_input
\* functions); a line that is none runs none, or, at a machine that does not
\* tell the two apart, what Console says.
LinesTaken == T!LinesTaken

-----------------------------------------------------------------------------
\* The longest names that are taken, and longer ones.
MCName == {u, longUser, p, shortMap, longMap, shortNode, longNode}
MCLength == (u :> 20) @@ (longUser :> 21) @@ (p :> 50)
  @@ (shortMap :> 1524 - 12 - 20) @@ (longMap :> 1524 - 12 - 19)
  @@ (shortNode :> 1521) @@ (longNode :> 1522)
MCTyped == ("--map" :> {shortMap, longMap}) @@ ("--user" :> {u, longUser}) @@ ("--pass" :> {p, Empty})
  @@ ("--id" :> {u, longUser}) @@ ("--node" :> {shortNode, longNode, Empty})

MCIpTexts ==
  { <<1, 9, 2, Dot, 0, Dot, 0, 0, 1, Dot, 7>>, <<Dot, Dot, Dot>>, <<2, 5, 5, Dot, 2, 5, 6, Dot, 1, Dot, 1>>,
    <<1, Dot, 2, Dot, 3>>, <<1, Dot, 2, Dot, 3, Dot, 4, Dot, 5>>, <<1, Dot, Junk, Dot, 3, Dot, 4>>,
    <<0, 0, 0, 1, Dot, 1, Dot, 1, Dot, 1>>, <<1, Dot, 2, Dot, 3, Dot, 4, Dot>>, <<>> }
MCPortTexts == { <<9, 3, 3, 9>>, <<>>, <<6, 5, 5, 3, 6>>, <<8, Junk>>, <<9, 9, 9, 9, 9, 9, 9>> }
=============================================================================
