------------------------------ MODULE Console ------------------------------
(***************************************************************************)
(* The console loops of the four machines (parse_input, parse_admin_input  *)
(* and the switch of run): which command a line is taken for, with which   *)
(* numbers.  A line is a sequence of words.                                *)
(***************************************************************************)
EXTENDS Integers, Sequences, FiniteSetsExt

CONSTANTS
  NaN,          \* a piece of a word that stoi cannot read
  IntLimit,     \* 2^31 - 1 in the code
  Lines,        \* what may be typed at each console
  BaseWords,    \* what may be typed when reset_setting asks for the base port
  Meaning       \* the lines that are commands, and the command each one means

VARIABLES
  console,      \* the machine whose console it is
  input,        \* the lines typed and not read yet
  cin,          \* "good", or "fail" after an extraction that failed
  asked,        \* inside reset_setting, which waits for the base port
  base_port,
  executed,     \* the last line read and the command run for it
  ended         \* an exception nobody catches, or an index past the end

conVars == <<console, input, cin, asked, base_port, executed, ended>>

\* A word is a text or numbers with dots between; behind a slash is the mask,
\* behind each colon a piece of the message.
Text(t) == [text |-> t, parts |-> <<>>, slash |-> <<>>, colon |-> <<>>]
Dotted(parts) == [text |-> "", parts |-> parts, slash |-> <<>>, colon |-> <<>>]
Num(n) == Dotted(<<n>>)
Pool(parts, mask) == [Dotted(parts) EXCEPT !.slash = mask]
Told(id, message) == [Num(id) EXCEPT !.colon = message]
Nothing == Text("")

Words(texts) == [i \in 1..Len(texts) |-> Text(texts[i])]

-----------------------------------------------------------------------------
(* Reading a line. *)

\* regex_match with "<words> .*": a space has to follow, anything may.
Begins(line, words) ==
  Len(line) > Len(words) /\ SubSeq(line, 1, Len(words)) = Words(words)
Is(line, words) == line = Words(words)

\* split: a piece that is empty at the end of the line is none.
Split(line) ==
  IF line # <<>> /\ line[Len(line)] = Nothing THEN SubSeq(line, 1, Len(line) - 1) ELSE line

\* command_info[i], counted from 0, and stoi of a piece of it: stoi throws
\* on a piece that is no number, and a piece behind the last is not there.
\* Nobody catches, and either is the end of the program.
Has(line, i) == i < Len(Split(line))
Word(line, i) == Split(line)[i + 1]
Readable(n) == n # NaN /\ n <= IntLimit
StoI(line, i) == Word(line, i).parts[1]
IsNumber(line, i) ==
  Has(line, i) /\ Word(line, i).parts # <<>> /\ Readable(StoI(line, i))

\* make_up_uint32: four pieces, each cut to its byte.
IsIp(line, i) ==
  /\ Has(line, i) /\ Len(Word(line, i).parts) >= 4
  /\ \A k \in 1..4 : Readable(Word(line, i).parts[k])
MakeUpUint32(line, i) == [k \in 1..4 |-> Word(line, i).parts[k] % 256]

\* The numbers that fill the fields of the input record.
Time(t) == <<t>>
IpTime(ip, t) == <<ip, t>>
Cmd(type, args) == [type |-> type, args |-> args]
InvalidCommand == Cmd("invalid command", <<>>)
DhcpCommandType ==
  {"GET_IP", "ACCEPT_OFFER", "RELEASE", "EXTEND_LEASE", "PRINT_IP", "ADD_POOL", "ADD_TIME", "PRINT_POOL"}
InputTypeClient ==
  {"MAKE_CONNECTION", "GET_ID_INFO", "MAKE_LOCAL_SESSION", "MAKE_PUBLIC_SESSION", "SEND_MSG", "STATUS"}
InputTypeNat == {"BLOCK_RANGE", "RESET"}

Ends == Cmd("ended", <<>>)
Taken(type, ok, args) == IF ok THEN Cmd(type, args) ELSE Ends

-----------------------------------------------------------------------------
(* The four parsers.  Each gives the commands that may be run.              *)

\* Mutant: the record is not cleared either.
LeaseClientUncleared == { Cmd(t, <<0>>) : t \in {"GET_IP", "PRINT_IP"} }

\* The record is cleared, and 0 is GET_IP: the default of the switch is never
\* reached, and a line that is no command asks for an address.
LeaseClientDefault == { Cmd("GET_IP", Time(0)) }

\* ClientMachine::parse_input of scratch1
ParseLeaseClient(l) ==
  CASE Begins(l, <<"get", "ip", "for", "time">>) ->
         { Taken("GET_IP", IsNumber(l, 4), Time(StoI(l, 4))) }
    [] Begins(l, <<"accept", "offer:">>) ->
         { Taken("ACCEPT_OFFER", IsIp(l, 2) /\ IsNumber(l, 5),
                 IpTime(MakeUpUint32(l, 2), StoI(l, 5))) }
    [] Begins(l, <<"release">>) -> { Taken("RELEASE", IsIp(l, 1), <<MakeUpUint32(l, 1)>>) }
    [] Begins(l, <<"extend", "lease">>) ->
         { Taken("EXTEND_LEASE", IsIp(l, 2) /\ IsNumber(l, 5),
                 IpTime(MakeUpUint32(l, 2), StoI(l, 5))) }
    [] Is(l, <<"print", "ip">>) -> { Cmd("PRINT_IP", <<>>) }
    [] OTHER -> LeaseClientDefault

\* ServerMachine::parse_admin_input: the record is not cleared, so a line that
\* is no command is any command with whatever numbers the memory held.
LeaseServerLeft == { Cmd(t, <<NaN>>) : t \in DhcpCommandType }

ParseAdminInput(l) ==
  CASE Begins(l, <<"add", "pool">>) ->
         { Taken("ADD_POOL",
                 IsIp(l, 2) /\ Word(l, 2).slash # <<>> /\ Readable(Word(l, 2).slash[1]),
                 <<MakeUpUint32(l, 2), Word(l, 2).slash[1] % 256>>) }
    [] Begins(l, <<"add", "time">>) -> { Taken("ADD_TIME", IsNumber(l, 2), Time(StoI(l, 2))) }
    [] Is(l, <<"print", "pool">>) -> { Cmd("PRINT_POOL", <<>>) }
    [] OTHER -> LeaseServerLeft

\* Five bits for an id, sixteen for a port.
ID(n) == n % 32
Port(n) == n % 65536

\* name_resan[1]: what stands between the first two colons of the whole line,
\* with the words that follow when no second colon stands in the word.
HasMessage(l) == \E i \in DOMAIN l : l[i].colon # <<>>
Message(l) ==
  LET i == Min({ j \in DOMAIN l : l[j].colon # <<>> })
      next == Min({ j \in i+1..Len(l) : l[j].colon # <<>> } \cup {Len(l) + 1})
  IN IF Len(l[i].colon) > 1 THEN <<l[i].colon[1]>>
     ELSE l[i].colon \o [k \in 1..next - i - 1 |-> l[i + k]]
          \o (IF next <= Len(l) THEN <<[l[next] EXCEPT !.colon = <<>>]>> ELSE <<>>)

\* ClientMachine::parse_input of scratch2.
ParsePeer(l) ==
  CASE Begins(l, <<"make", "a", "connection", "to", "server", "on", "port">>) ->
         { Taken("MAKE_CONNECTION", IsNumber(l, 7), <<Port(StoI(l, 7))>>) }
    [] Begins(l, <<"get", "info", "of">>) ->
         { Taken("GET_ID_INFO", IsNumber(l, 3), <<ID(StoI(l, 3))>>) }
    [] Begins(l, <<"make", "a", "local", "session", "to">>) ->
         { Taken("MAKE_LOCAL_SESSION", IsNumber(l, 5), <<ID(StoI(l, 5))>>) }
    [] Begins(l, <<"make", "a", "public", "session", "to">>) ->
         { Taken("MAKE_PUBLIC_SESSION", IsNumber(l, 5), <<ID(StoI(l, 5))>>) }
    [] Begins(l, <<"send", "msg", "to">>) ->
         { Taken("SEND_MSG", IsNumber(l, 3) /\ HasMessage(l),
                 <<ID(StoI(l, 3)), Message(l)>>) }
    [] Is(l, <<"status">>) -> { Cmd("STATUS", <<>>) }
    [] OTHER -> {InvalidCommand}

\* NatMachine::parse_input
ParseNat(l) ==
  CASE Begins(l, <<"block", "port", "range">>) ->
         { Taken("BLOCK_RANGE", IsNumber(l, 3) /\ IsNumber(l, 4),
                 <<Port(StoI(l, 3)), Port(StoI(l, 4))>>) }
    [] Is(l, <<"reset_setting", "network", "settings">>) -> { Cmd("RESET", <<>>) }
    [] OTHER -> {InvalidCommand}

ParseInput(l) ==
  CASE console = "lease client" -> ParseLeaseClient(l)
    [] console = "lease server" -> ParseAdminInput(l)
    [] console = "peer" -> ParsePeer(l)
    [] console = "nat" -> ParseNat(l)

-----------------------------------------------------------------------------
(* The loop of run. *)

\* The cases of its switch.
Switch ==
  CASE console = "lease client" -> {"GET_IP", "ACCEPT_OFFER", "RELEASE", "EXTEND_LEASE", "PRINT_IP"}
    [] console = "lease server" -> {"ADD_POOL", "ADD_TIME", "PRINT_POOL"}
    [] console = "peer" -> InputTypeClient
    [] console = "nat" -> InputTypeNat
Run(c) == IF c = Ends \/ c.type \in Switch THEN c ELSE InvalidCommand

ConInit ==
  /\ console \in DOMAIN Lines
  /\ input = <<>>
  /\ cin = "good"
  /\ asked = FALSE
  /\ base_port = 2000
  /\ executed = <<<<>>, InvalidCommand>>
  /\ ended = FALSE

MaxAhead == 2   \* bound on the lines typed ahead

TypeLine ==
  /\ ~ended /\ Len(input) < MaxAhead
  /\ \E l \in Lines[console] \cup (IF console = "nat" THEN { <<w>> : w \in BaseWords } ELSE {}) :
       input' = Append(input, l)
  /\ UNCHANGED <<console, cin, asked, base_port, executed, ended>>

\* getline, the parser, and the command.
Execute(l) ==
  \E c \in ParseInput(l) :
    /\ executed' = <<l, Run(c)>>
    /\ ended' = (c = Ends)
    /\ asked' = (c.type = "RESET")

ReadLine ==
  /\ ~ended /\ ~asked /\ cin = "good" /\ input # <<>>
  /\ input' = Tail(input)
  /\ Execute(Head(input))
  /\ UNCHANGED <<console, cin, base_port>>

\* getline on a stream that has failed gives an empty line, at once.
ReadNothing ==
  /\ ~ended /\ ~asked /\ cin = "fail"
  /\ Execute(<<>>)
  /\ UNCHANGED <<console, input, cin, base_port>>

\* What stays in the stream: the rest of the line, if only its end.
Rest(lines) == <<Tail(Head(lines))>> \o Tail(lines)

\* cin >> base_port: empty lines are passed over.
ReadBase ==
  /\ asked /\ input # <<>>
  /\ \/ /\ Head(input) = <<>>
        /\ input' = Tail(input)
        /\ UNCHANGED <<cin, asked, base_port>>
     \/ /\ Head(input) # <<>>
        /\ asked' = FALSE
        /\ LET w == Head(input)[1]
               n == IF w.parts = <<>> THEN NaN ELSE w.parts[1]
           IN \/ /\ n # NaN /\ n <= 65535
                 /\ base_port' = n
                 /\ input' = Rest(input)
                 /\ UNCHANGED cin
              \/ /\ ~(n # NaN /\ n <= 65535)
                 /\ base_port' = IF n = NaN THEN 0 ELSE 65535
                 /\ cin' = "fail"
                 /\ UNCHANGED input
  /\ UNCHANGED <<console, executed, ended>>

ConNext == TypeLine \/ ReadLine \/ ReadNothing \/ ReadBase

-----------------------------------------------------------------------------
\* What is run is what was typed, with the numbers that were typed.  A line that
\* is no command runs nothing at a peer and at a NAT, and at a lease client it
\* does no more than ask for an address for the time 0 (at a lease server it may
\* be anything); and no line that is a command ends the program (the parse_input functions and the loops of run).
LinesTaken ==
  LET l == executed[1]
      c == executed[2]
  IN /\ l \in DOMAIN Meaning[console] => c = Meaning[console][l]
     /\ l \notin DOMAIN Meaning[console] /\ c # Ends =>
          \/ c = InvalidCommand
          \/ console = "lease client" /\ c = Cmd("GET_IP", Time(0))
          \/ console = "lease server"
=============================================================================
