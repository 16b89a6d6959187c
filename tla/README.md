# NetW: models, checks and proofs

NetW holds three network programs written against the Partov "client framework"
(`scratch1`, `scratch2`, `scratch3`) and a stand-alone chat program (`scratch`).
This directory models their logic in TLA+, checks it with TLC on small instances
and proves the central invariants with TLAPS for all values of the constants.

Paths below are relative to `src/`; `pa1` is `scratch1/cpp-cf-pa1`, `pa2` is
`scratch2/cpp-cf`.

## 1. The system

### Components, their state and their operations

| part | files | state | operations |
|---|---|---|---|
| NAT machine | `pa2/user/nat_machine.*` | `blocked_range`, `table`, `sessions`, `base_port`, `counter` | `processFrame` (outside to inside, inside to outside), console `block_range`, `reset_setting` |
| rendezvous server | `pa2/user/server_machine.*` | `information`, `current_free_id` | `rec_request_id`, `rec_ip_request`, `rec_update_request`, `receive_status` |
| peer client | `pa2/user/client_machine.*` | `my_port`, `my_ID`, `peer_info`, `peer_ID`, `connected`, `peer_session_kind` | six console commands, ten packet handlers |
| packet layer | `pa2/user/simpleMachine.*` | none | `fill_header`, `get_checksum`, `get_data_type`, the two `detect` functions, `find_gateway` of each machine |
| consoles | `parse_input`, `parse_admin_input`, `run` of each machine | the line read, `cin` | the commands above, each from a line of words |
| lease server | `pa1/user/server_machine.*` | `ip_pool`, `offered_IPs`, `given_IPs` | discover, request, ack, release, extend; console `add_pool`, `add_time`, `print_pool` |
| lease client | `pa1/user/client_machine.*` | `old_IPs`, `offers`, `current_ip` | four console commands, four packet handlers, forwarding |
| client framework | `*/base/*` (three identical copies) | connection, shared frame buffer, mutex, `initialized` | negotiation, event loop, `sendFrame`, recovery |
| chat program | `scratch/main.cpp` | sockets, `in_connection` | connect, listen, send, recv, exit |
| PA3 skeleton | `scratch3/PA3-cpp-cf/user/*` | none | copies each frame |
| machine glue | `*/user/sm.cpp`, `facade.cpp`, `pa1/user/simpleMachine.*` | `simpleMachine` | choice of the machine by its role, delegation, conversion |

### How they interact

The framework starts one thread for a machine's `run()` (a console loop) and calls
`processFrame` on the main thread for every frame the simulator delivers.
`sendFrame` is the only synchronised operation: whatever a machine's console
command and its frame handler share, they share without a lock.  All frames come
in through one buffer that is used again for the next frame.

In `pa2`, clients behind NAT machines register at the rendezvous server, ask it
for the address of a peer, and punch a path to the peer with ping and pong.  In
`pa1`, a client broadcasts DISCOVER, takes an OFFER, requests it, and later
releases or extends it; clients forward what is not for them, so servers can be
several links away, and a forwarded ACK tells the other servers that their offer
is not wanted.

### What is hard, and what makes each component correct

* **NAT machine.** Two threads on three vectors without a lock: `reset_setting`
  clears them one after the other while a frame is between two of its reads.
  Right: one mapping per client; no two mappings with one public address; a frame
  gets in only to the client that contacted its sender; a client that contacted a
  host can be answered.
* **Rendezvous server.** One thread, but ids in five bits and a counter that goes
  round, lookups by address and by id, and an answer with id 0 that means
  something else (DROP).  Right: an id names one client as long as it can, and
  answers about it stay the same whatever registers later.
* **Peer client.** `response_ip`, pings, pongs and DROPs overwrite the same four
  fields, in whatever order the network delivers.  Right: the address kept for a
  peer is the peer's; nobody is connected to a peer that knows nothing of it;
  two clients that have punched for each other get connected; a handshake completes.
* **Lease server.** An address wanders between pool, offers and leases through
  commands that look it up by different keys; times are unsigned 32 bits.
  Right: every address is in one place; a lease runs as long as was granted.
* **Lease client.** Its use of an address must agree with what some server
  believes, with releases, extensions and timeouts crossing on the links.
* **Client framework.** Condition variable at start-up, a mutex for two-part
  frames, and recovery of a broken connection by one thread while the other is
  sending.  Right: the server hears whole commands in protocol order on every
  connection; no machine runs before it is initialized; nobody waits for ever.
  Before that the command line and the negotiations: what is typed is what is asked
  for, names of any length fit the messages, and a recovery comes back to the same
  instance of the map.  Below it one byte stream in each direction, read and written
  in pieces, and an exit that destroys what the other thread uses.
* **Chat program.** A buffer that is never cleared between two messages.

PROJECT.json lists the hazards of the code at their lines, with the properties
that would catch each going wrong.

## 2. The modules

| module | models | used by |
|---|---|---|
| `Vec` | a `std::vector` used by two threads without a lock: slots that outlive `clear()`, `push_back` in two halves | `Nat` |
| `Nat` | the NAT machine, both threads | `MCNat`, `NatProofs` |
| `Packet` | packet types, their three-bit code, the id cut to its bits, how each end tells packets apart | `Rendezvous`, `HolePunch` |
| `Rendezvous` | the server of `pa2`, one action per handler | `MCRendezvous`, `RendezvousProofs`, and `HolePunch` by `INSTANCE` |
| `HolePunch` | clients, one NAT per client, the server, and a network | `MCHolePunch` |
| `Lease` | the lease server as functions of its state | `LeaseServer`, `LeaseNet` |
| `LeaseServer` | one lease server under any frames and commands | `MCLeaseServer` |
| `Allocation` | what a lease server promises: the abstract specification of one | `LeaseServer` |
| `LeaseNet` | servers and clients over links | `MCLeaseNet` |
| `PeerThreads` | the two threads of one `pa2` client, load by load and store by store | `MCPeerThreads` |
| `Routing` | one packet on its way through clients, NAT machines and the server: headers, checksum, TTL, `find_gateway` | `MCRendezvous`, `RendezvousProofs` |
| `Scfcp` | what the simulation server may rely on: the abstract specification of a framework client | `Framework` |
| `Framework` | connection, start-up, sending from two threads, recovery | `MCFramework` |
| `Stream` | the bytes of a running connection, both ways, and the end of the program | `MCStream` |
| `Arguments` | `parseIP` and `parsePort` as functions | `Negotiation` |
| `Negotiation` | a client from its command line through the negotiations to a running and a recovered simulation | `MCPrograms` |
| `Console` | the four `parse_input` functions, `run`, and the prompt of `reset_setting` | `MCPrograms`, by `INSTANCE` |
| `Chat` | two chat programs and the kernel between them | `MCPrograms`, by `INSTANCE` |
| `NatProofs`, `RendezvousProofs`, `FrameworkProofs`, `HolePunchProofs`, `LeaseProofs`, `ThreadProofs`, `ProgramProofs`, `StreamProofs` | theorems and proofs | |

`MCRendezvous` and `MCPrograms` hold two and three specifications that share no
variable; a variable `kind`, chosen at the start, says which one is run.

The three copies of the framework (`base/`) are the same file for file.  `Framework` follows the one of `pa2`, `Negotiation` the one of `pa1`,
and `Stream` the one of PA3.

### How state and actions correspond to the code

PROJECT.json maps every definition to its lines.  In outline:

* **`Nat`.** `main` is where the main thread is inside `processFrame`, with the
  locals it has read by then; `console` is where the console thread is inside
  `reset_setting`.  A step is what happens between two accesses to shared vectors:
  `InLookup`, `InFilter`, `InForward` for a frame from outside, `OutCheck`,
  `OutLookup`, `OutAllocate`, `OutGrow`, `OutIndex`, `OutSession`, `OutForward`
  for one from inside.  `table.clear()` leaves the slots' contents in place, as
  `std::vector` does, so a stale index reads an old mapping.  `push_back` may
  keep the old end pointer in a register or read it again: both are behaviours.
  A read of storage that `block_range` has freed gives any verdict or a crash.
* **`Rendezvous`.** `reply` is the packet the last handler sent.  `NToHS` is the
  16-bit conversion the code applies to a 32-bit address in `find_client_by_local`:
  that comparison never matches, so a client that asks twice is registered twice.
* **`HolePunch`.** One action per packet handler and per console command, and
  `NatOut`, `NatIn`, `DirectLink`, `NoRoute` for the ways of a packet.  At this
  level a NAT's handler is one step and its console only blocks ports; what its
  two threads do to each other is the matter of `Nat`.
* **`Lease`.** The pool is a bag because the code sorts it before every read;
  the order of entries that compare equal is a choice (`Lowest`), and so is the order
  `std::sort`, which is not stable, leaves leases of equal time in (`ByTime`).  The entry
  `Kept` is the pointer into the frame buffer that `r_dhcp_release` and
  `r_dhcp_extend_request` push; its value is whatever the last frame carried.
  An operator returns the set of possible outcomes, state and answer.
* **`Allocation`.** `place[a]` is the set of places of an address: free, offered to a
  client, leased to one until a time.  It tells of no frame, no vector and no order among
  them.  `LeaseServer` implements it with `Whereabouts`; a server that has shown a flaw
  promises nothing any more (`broken`).
* **`LeaseNet`.** Frames stay in order on a link.  `extend_lease` sends first and
  clears `current_ip` afterwards; the two are separate steps, since an answer can
  be handled between them.  Every other handler is one step.  A network is a set of
  links, given with the pools and how often each command is typed; `Onward`, `Beyond`
  and `NoCycle` say which networks are meant.
* **`PeerThreads`.** `todo[t]` is the list of loads, tests and stores that the
  handler or command of thread t has still to do, in the order of the code; a step
  is the first of them.  `reg[t]` are its local variables.  The network is reduced
  to what reaches this client; the server registers it again, under another id, whenever it
  asks again (`Answer`).
* **`Routing`.** One packet under way at a time, with its header; a machine's step
  is its whole `processFrame`.  The checksum is computed with `get_checksum` as the
  code does, so a wrong one is noticed two machines later, where it is tested.
* **`Framework`.** `main.pc` and `st` are where the two threads are, `sending[t]`
  where thread t is inside `sendFrame`; mutex and condition variable are modelled
  as pthreads defines them, spurious wake-ups included.  The connection can break
  with an error or with the end of the stream at any moment; sending on a dead
  connection fails or kills the process (SIGPIPE).
* **`Stream`.** Bytes are counted in units; `sendOrReceive` moves any part of what
  is left in one step, and the stream breaks after any part.  What `send` has accepted is
  in `outgoing` until the server reads it (`Arrive`); after a reset it never does, although
  the caller of a command in it was told true.  One buffer holds the
  header of a message and then its body, as in the code.  The text of a warning is received
  by the size the server tells (`base/cf.cpp:633`): what does not fit is written behind
  the buffer, which is the last member of the framework's object, onto the machine and its
  interfaces on the heap (`WriteOver`, `overrun`), and the process may crash from then on
  (`Crash`).  `ender` is the thread in
  `systemInterrupt`: it closes the socket, deletes the machine and exits in three
  steps, between which the other thread goes on.
* **`Negotiation`.** `argv` is chosen as it is read.  A question and its answer are one
  step; the buffer counts how far it is written (`top`), and the server reads by the
  lengths in the message.  The record of an interface is received after a test of its size,
  the custom information without one (538): longer than the buffer, it may leave anything
  in the interfaces (`SetCustomInformation`) and crash the process (`OverrunCrash`).  The server's instances of maps may change by other
  sessions while a client is between connections.
* **`Console`.** A line is a sequence of words, a word the pieces the code splits it
  into.  `Meaning` in the MC module says of each line what command it is and with
  which numbers, and not how it is taken apart.
* **`Chat`.** A call of the kernel is a step; `recv` brings any part of what is there.

History variables (`issued`, `contacted`, `delivered`, `race`, `accepted`,
`due`, `added`, `gets`, `acks`, `flaws`, `faults`, `returned`, `crossed`, `notified`, `long`,
`tried`, `muddled`) record what happened; no action reads them but
for a bound (`MaxFlaws`).

### Properties with a condition

Several properties hold only outside of windows the code really has.  Each
window is recorded by the action that falls into it, under a name the property
then excludes, so the property says exactly what the window costs:

| name | the window |
|---|---|
| `race`: "filter" | `block_range` moved the vector the frame's port check was reading |
| `race`: "table" | `table.clear()` fell between a `push_back` and the use of its index |
| `race`: "session" | `sessions.clear()` fell after a mapping was made from the new table |
| `Shared` | a change of base port made two counters give one address |
| `flaws`, `faults`: "kept" | a pointer into the frame buffer stayed in the pool |
| `flaws`: "overlap" | `add_pool` was given addresses that are offered or leased |
| `flaws`: "wrapped" | a lease's time left its 32 bits |
| `faults`: "crossed" | a late release or extension ended another client's lease |
| `faults`: "overtaken" | the answer to an extension was handled before `extend_lease` was done |
| `during` | `response_ip` or `request_session` ran while a command was reading the same fields |
| `muddled` | a second "make a connection" before the first has an id, or a port blocked after it |
| `crossed` (`Stream`) | two threads were in `setIp` or `setMask` at a time |
| `overrun`, `announced` | a warning or custom information longer than the buffer was written past its end |
| `wrapped` | a NAT or the server took the TTL of a packet below zero |

## 3. What the runs check

| run | instance | properties | shows |
|---|---|---|---|
| `nat` | two clients with one IP and different ports, two hosts, one blocked range, one reset to base port 1900 (chosen so that 1900 + 100 meets 2000), three mappings, three sessions | `SameBaseUnique`, `OneMappingPerClient`, `OwnAddress`, `NoMisdelivery`, `ReplyPath`, `CrashOnlyInRace` | addresses and mappings stay unique through resets, and misdelivery, lost replies and crashes happen in the named windows only |
| `rendezvous` | two-bit ids, two local and three source addresses, four registrations; and a network of the server, two NATs and four clients, one behind another, with two packets | `NeverAssignsDrop`, `IdsUnique`, `FirstOwnerAnswered`, `HeadersValid`, `RequestAnswered`, `Ends` | ids wrap, 0 is skipped, and the first owner of an id keeps its answers; every header is right at every machine; a request finds its way to the server and the answer its way back; a packet that nobody takes ends with its TTL, unless that has wrapped below zero |
| `punch` | two clients behind NATs, each typing connect, info and session once, with fairness | `HolePunched`, `PongCompletes` | two clients that have pinged each other end up connected to each other, whatever was dropped or overtaken, unless one accepted a ping before it had an id for its pong; a pong connects its addressee, unless that has turned to another peer |
| `punch_direct` | one client behind a NAT, one without, one loss; three budgets: punching; a blocked port with status questions and updates; and a message | `PeerIsHolder`, `ConnectedByConsent` | answers, pings and pongs in any order keep address, id and consent together |
| `punch_again` | two clients without NATs, the second asks and pings twice, with fairness | `PingAnswered` (violated) | see section 6 |
| `lease_server` | three addresses in the pools 0-1 and 2, each of which may be added again, two clients, lease times of three bits, no flaw | `TypeOK`, `ExactlyOnce`, `RunsItsTime`, `KeepsPromise` | no address is handed out twice or lost, no lease ends early or late, and the vectors implement `Allocation!Spec` |
| `lease_kept` | the same with one kind of flaw | `OffersFromPool` (violated) | see section 6 |
| `lease_net` | two servers with one address each on either side of a client that a second client goes through; and one server with two addresses and every command | `NoSquatting`, `NoConflict`, `GrantedIsUsed`, `OffersTakenBack` | the forwarded ACK takes the other offer back; releases, extensions and timeouts that cross on the links |
| `peer_threads` | two peers, two ports that are blocked, and three budgets: connecting twice, or commands among packets of both peers, with fairness | `MessageDestined`, `SpeaksAsRegistered`, `RegistersAtLast` | what is sent goes to the peer named, from the port that is registered, and a blocked client registers in the end |
| `framework` | one frame per thread, two breaks, so up to three connections, with fairness | `InitializedFirst`, `Implements`, `StartupEnds`, `SendersServed` | what the server hears is `Scfcp!Spec`; start-up and senders never hang |
| `programs` | every choice of arguments with names one byte below and above each limit, records and custom information of nothing, of the buffer's size and of a byte more, one break; every line of the consoles with its neighbours; two chats with two conversations | `ArgumentsTaken`, `LinesTaken`, `WellFormed`, `SameInstance`, `InterfacesValid`, `PrintsWhatCame` | what is typed is what is done; nothing is written past the buffer but custom information that is longer than it; a recovered simulation is the one that was begun |
| `stream` | one call of each thread, or two of the machine's; frames that may be sent and too long ones; three streams of messages, one with a warning that is longer than the buffer; a break anywhere with anything in flight, SIGINT | `Delivered`, `InStep`, `AddressAgrees` | commands go out whole and in order or their callers are told, and a reset takes the last ones only; frames are read where they begin, and only a long warning is written past the buffer; both sides agree on an address once everything has arrived |

Every property of a passing run has a mutant in PROJECT.json: a definition changed
the way a plausible slip would change the code, under which TLC finds the property
violated.

### The bounds and why they are enough

* `MaxCounter`, `MaxSessions`, `MaxResets`: three mappings use all three port
  offsets of a base; one reset meets every step of a frame because it can start at
  any of them.
* `IdSpace` 4 (3 in `HolePunch`) in place of 32, `MaxClients` 4: ids wrap, 0 is
  skipped, and a second owner of an id registers.  `Id` only occurs through its
  size, so the width changes when it wraps and not what happens then.
* `ByteSpace` and `TimeSpace` stand for 2^8 and 2^32; times of up to 2 and a
  `DefaultTime` of 2 let leases end exactly, early relative to others, and after
  an extension.
* `MaxFlaws`: a run of `LeaseServer` stops when more kinds of flaw than this have
  occurred.  Its properties exclude the flaws, so with 0 nothing is lost to them; but
  it means that what a server does after a release is the matter of `LeaseNet`, where
  flaws do not stop a run, and of `lease_kept`.
* `HolePunch!Budgets`: how often each command is typed.  Every exchange of the protocol takes
  one command per side; what repeats it is covered by `punch_again`, so `HolePunched` is a
  property of clients that look each other up once.
* The network of `HolePunch` is a set: delivery in any order, loss up to
  `MaxLoss`; a second packet equal to one under way merges with it, so of two equal
  pings or pongs at the same place one is delivered, which loss could also bring about.
* `MaxMappings` bounds the table of one NAT in `HolePunch`: a client gets another
  mapping only when its port moves, which takes a DROP for each.
* `MaxFrames` 1 and `MaxBreaks` 2: both threads can be at any place of `sendFrame`
  when either break falls, and the second break can fall into the recovery of the
  first.

* `Routing!MaxSends` 2: the request of one client and a packet that meets what the
  request left in the NATs; the five destinations are one in each kind of net and two
  that nobody has.
* `PeerThreads!Budgets`: three packets against one command and two against two; every
  list of operations is overlapped by every other.  Ports go up from 65500, so the
  first try wraps, and both first ports are blocked.
* `Stream!Budgets`, `BufferSize` 4: every kind of command from either thread against
  every other, and one behind the other on one thread; a message can be shorter and longer
  than the buffer and the header.
* `Negotiation!Sizes`: an empty record, one as it is, one that fills the buffer and one a
  byte longer.
* `Negotiation!MaxBreaks` 1: a recovery that fails ends the program, and one that
  succeeds comes back to the state it began in.
* `Chat!MaxConns` 2, `MaxSends` 3: a long message, a short one over it, and the next
  conversation on the same buffer.

Deadlock is not checked: the bounds and the end of the program stop every model.

### Fairness

* `HolePunch!FairSpec`: some packet under way is handled in the end, which the
  event loops of the machines do.  Commands are typed by users and are not fair.
  Which packet is next is not prescribed.
* `MCRendezvous`: the machine a packet is at handles it (`WF` on `ProcessFrame`).
* `PeerThreads!FairSpec`: both threads go on, the main thread takes the next packet
  when it is idle, and a request to the server is answered, by the server or by the
  NAT's DROP.  What users type and what peers send is not fair.
* `Framework!FairSpec`: the scheduler runs both threads (`WF` per thread), and a
  thread that waits for the mutex while it is free again and again gets it (`SF`
  on the acquisitions, since pthreads does not promise an order but every
  scheduler the program runs under lets a runnable thread try).  Negotiation is
  fair because the simulation server answers or the connection ends.  There is no
  fairness on frames from the server, on breaks, on `processFrame` or `run()`
  returning, or on spurious wake-ups.

## 4. What is proved

Assumptions: those the modules declare.  `Nat`: base ports and the clients' ports
are 16-bit numbers, bounds are natural numbers.  `Packet` and `Rendezvous`: at
least two ids, addresses whose IP is a natural number, a non-zero half word,
ping different from pong.  `HolePunch`: the clients with a NAT are clients, and the
server's address is not one of theirs.  `PeerThreads`: 0 is no id, and the client's own is
not a peer's.  `Lease` and `LeaseServer`: a non-empty byte and
time space, the default time in it, arguments of commands that fit it, and a `Kept` that
is no number.  `LeaseNet`: lease times that fit the time space, a server is no client,
every link goes both ways, a pool is for a server, no two administrators add one address,
and from one machine to another there is one way at most (`NoCycle`).  The clients flood
what is not for them and neither remember it nor count hops, so on a cycle of clients one
DISCOVER would go round for ever and be answered each time; the program is for networks
where it does not.  Every forest satisfies `NoCycle`: TLC checks that for all graphs of the
machines of its run (`ForestsAdmitted`).  `Framework`: bounds are natural numbers.
`Arguments`: an int reaches beyond the ports, and a refusal is no number or address.
`Negotiation`: what is typed are sequences of characters, a name has a length
and the empty text is none (`strlen` counts it), what memory nobody has written holds is no
number, address, name or instance, and `buffer` has room for the longest user and password (78 bytes;
`FRAME_BUFFER_SIZE` is 1524) and a size of 16 bits, and the sizes the server announces are natural numbers.  `Chat`: texts are of
letters other than the zero that ends them (`strlen` ends there).  `Routing`: octets and ports are of
their width, every machine has an interface, and links lead to machines.  `Stream`: lengths and
indices are natural numbers, `buffer` takes a header,
and a message of the server is a type, the size of its body and the body.  Nothing else
is assumed of the constants, so clients, hosts, addresses, texts and bounds are arbitrary.
The type invariants of `Nat`, `Rendezvous` and `Framework` are proved (`TypeCorrect`) and not run.

### `NatProofs`

`TypeCorrect`, `OneMapping`, `OwnAddressHolds`, `SameBaseUniqueHolds`,
`CrashOnlyInRaceHolds`, `NoMisdeliveryHolds` and `ReplyPathHolds` prove all properties
of the run `nat`.  None of them is inductive.  The invariant `IInv`
adds:

* `BaseInv`, `IssuedInv`: every address handed out was computed from the counter it
  carries and the base of that time, and the counter is beyond all of them;
  uniqueness then follows from `NewAddressInjective` (three ports, 100 apart,
  stay different modulo 2^16).
* `TableInv`: every slot of the table that was ever constructed, also those
  `clear()` has left behind, holds a pair that was handed out.  That is what makes
  a stale index harmless for `NoMisdelivery` where it is.
* `SessionInv`: a slot of the sessions is backed by a frame that was sent, or by
  the one about to be.
* `MainInv`: what the main thread's locals say about the vectors at each step, unless
  a reset came in between.
* `DeliveredInv`: every address a frame was let in under was handed out to the
  client that got the frame, and its sender had been contacted from it.

`ReplyInv` is the invariant of `ReplyPath`: every mapping in use that a contacted host
knows has its session.  While a frame is between the halves of a `push_back` it says
so of the slots up to the one being pushed, since a `clear()` in the middle may bring
them all back; a new mapping is nobody's yet, because every contacted address was
handed out and the new one was not.

The proof has a lemma per action, and lemmas on the two halves of `push_back`
(`ConstructVec`, `GrownVec`) and on `clear()` (`ClearVec`).

### `RendezvousProofs`

`TypeCorrect`, `NeverAssignsDropHolds`, `IdsUniqueHolds` and
`FirstOwnerAnsweredHolds`, for any width of the id field and any number of registrations; and
two facts no run checks, `OnlyRegisteredAskHolds` (only a registered client is given
an address) and `RegistrationStableHolds` (a registration changes by an update only).
`IInv` adds `IdInv`: until the ids wrap the i-th registration has id i, and the
free id follows the last one given.

`HeadersValidHolds`, for any machines, interfaces, links, destinations, base ports and
number of packets: no machine on the way leaves a header its checksum is not right for.
It is inductive with the shape of headers and of the NATs' tables (`WayInv`), and rests on
what `get_checksum` computes: `OnesAddResidue` (adding with 0xffff taken off is adding
modulo 0xffff, with 1 to 0xffff for the residues), `TenWords` (so the sum of a header is
the residue of the sum of its words, whichever of them is the checksum) and
`CheckedValid` (so the complement, put in the place of the zero it was computed with,
makes the sum 0xffff and the checksum 0).  `ForwardInv` does not ask for the header to be
right before, which is why the NATs need not test it.

### `FrameworkProofs`

`TypeCorrect`, `InitializedFirstHolds` and `ImplementsHolds`: every step of the
framework is a step of `Scfcp` or leaves what the server hears alone, for any
number of frames and breaks.  The refinement mapping is the identity on
`connection` and `heard`.  `IInv` adds:

* `ConnectionInv`: where the main thread is in the requests of the connection.
* `MutexInv`: who holds the mutex, as a function of where the two threads are; so a
  frame's two pieces and a recovery exclude each other.
* `StartInv`: what is set by the time each thread gets to a place.
* `WireInv`: while the connection is up, what was heard is as far as the negotiation
  is, and a header is the last thing heard exactly while its sender is about to
  send the payload.


### `HolePunchProofs`

`PeerIsHolderHolds` and `ConnectedByConsentHolds`, for any `Client`, `Natted`, `LocalIp`,
`NatIp`, budgets and losses, under `NattedAssumption` and `AddressAssumption`: the
server's address is not an address of a client or of its NAT.  `ShapeInv`
says that the tables of the NATs are sequences and that packets have the fields a NAT
rewrites; it is kept by a lemma for each NAT direction, one for the server (through the
`INSTANCE` of `Rendezvous`), and one for all handlers and commands that leave the NATs alone.
`PeerInv` adds what a packet may say, by the link it is on.  Going up, a ping carries the
id of its sender or 0, and a pong is in the history `accepted`.  On the way, a packet is
an answer of the server, and then the address in it is registered with the id in it, or
it comes from an address of the client that said it.  Going down, it says the same of
the client it has reached, because the NAT rewrote the address and nothing else.  The
predicates take the registrations and the history as parameters: both only grow, so one
lemma (`FrameStays`, `ClientStays`) carries every frame and every client over a step, and
a handler has to be looked at only for the frame it sends and the client it changes.

### `LeaseProofs`

`ExactlyOnceHolds` and `TypeCorrect`, for any `Mac`, `Times`, `Steps`, `Pools` and any
`ByteSpace`, `TimeSpace` and `DefaultTime` that `SpaceAssumption` and
`ArgumentsAssumption` admit.  Copies are
counted with `Cardinality`, so the first lemmas say what an append, an erase, a cut
and a rearrangement of a vector do to the count of an address; they are proved with
bijections between the places, not by induction.  `Keeps` is what every handler does:
types stay, and while no pointer is in the pool no address comes or goes; each
handler has a lemma for the states it can leave and one for `Keeps`.  `add_time` keeps
whatever rearrangement the sort leaves.  `add_pool` is the one command that makes
addresses.  The invariant adds to `ExactlyOnce` the types and that a pointer in the
pool is a flaw already noted; without that an extension could give out an address
that is nowhere else.

`RunsItsTimeHolds`, under the same assumptions.  `RInv` is `RunsItsTime` with the type
of `due`, while there is no flaw; it is inductive next to the invariant of
`ExactlyOnceHolds`: a lease is looked up by its address, so a grant or an extension sets the
right end only if no other lease has that address, and `ExactlyOnce` says so.  A lemma
per handler says what it answers.  That `add_time` ends all leases that have no time
left, and no other, is `ExpiredFront`: the expired places of a list in order are a
front of it, because a place behind their number would make them too many.

`KeepsPromiseHolds`: `LeaseServer` implements `Allocation`, until a flaw shows.  The
refinement mapping (`Whereabouts`) reads off the vectors the set of places an address is
in, and when its lease ends; `clock` is `now`, and any flaw is `broken`.  `WhereIs` says
what is in that set, `OnePlace` that it has one element exactly if the address is counted
once, and `Unbroken` takes that from `ExactlyOnce`: this is where the invariant of
`ExactlyOnceHolds` is needed.  It makes half of a step enough: a lemma per handler
(`DiscoverMoves`, `RequestMoves`, `AckMoves`, `ExtendMovesOne`) says which address has a
new place, and that every other place is still there, and since no address has two places
there are no others (`BookMoves`).  An extension goes through the pool, and comes out with
the address it was asked for because a pointer that was left in the pool would be a flaw.
For `add_time`, `PlaceAges` follows each place through the ageing, the sort and the erase;
`RInv` is needed only for a step of no time, which must end nothing.

`LeaseLastsHolds` is what a client gets out of it, as an action property: a lease that is
not due is still one after any step, and ends no earlier.  It follows from the actions of
`Allocation` (`NextLasts`), so it holds of whatever implements them.

The same module proves the four properties of `LeaseNet` for any servers, clients, pools,
budgets and networks, under the assumptions above: `NoSquattingHolds`, `NoConflictHolds`,
`GrantedIsUsedHolds` and `OffersTakenBackHolds`.  `Flows` is what every step does to the
links: it takes the first frame of one link, or none, and puts the same frames on some
links of one machine.  A lemma says where a frame is after that (`OldPlace`, `PutPlace`),
and where a frame that is there now was before (`NewPlace`).  `Reach(l)` is whom a frame
sent over l comes to; what the clauses of `NoCycle` say of it is stated once (`ReachApart`,
`ReachOnward`, `ReachNext`, `ReachClosed`), and nearly all the proofs use that alone of the
network.  `NetTyped` is the type invariant.  Then:

* `SquatInv`, for `NoSquatting`: the address a client uses is covered, and so is each
  grant on its way.  A use is covered by the lease at a server, or by the frame that ends
  it somewhere on the way from that server.  For a grant that is not enough: the end has to
  be *behind* the grant, or the client would take an address that nothing ends any more.
  So the links must keep frames in order, and a client must be reached over one way only.
* `StockInv`, for `NoConflict`: as long as no pointer was kept, every address of a
  server's pool is in one place at that server and nowhere else, so there is at most one
  lease of it; `NoSquatting` says that two users would both have it.
* `UseInv`, for `GrantedIsUsed`: a client that was never granted an address has no lease
  and is told nothing (`Fresh`).  One that was granted one has at most one lease (`Single`),
  and if it has one it is told of nothing else, and (`Known`) it uses the address
  (`Settled`), or a grant is on its way to it (`Coming`), or what it asked, to extend or
  release the lease, is on its way to the server (`Going`).  `Asks` says where the frames
  of a client can be: on links that lead away from it.
* `OfferInv`, for `OffersTakenBack`, next to `UseInv`.  While there was one request, a
  server has that request still to come in one place or has one offer out, and never both
  (`Token`).  From the moment a server grants the address, an ACK is on its way to every
  other server with an offer, and follows the request wherever that is still on its way
  (`TakesBack`).  That it comes *after* the request, and to the same servers, is what the
  order on the links and the one way give.

### `ThreadProofs`

`SpeaksAsRegisteredHolds`, for any `Peer`, `MyId`, `Port`, `Blocked` and `Budgets`,
under `IdsAssumption`: 0 is no id, and the client's own is not a peer's.
`SpeaksAsRegistered` is about a client that has its id; `ThreadInv` says what is true
on the way there.  It follows the one request of the
client: nobody has asked, the console asks, the request is on its way, it was refused,
`receive_drop_packet` tries the next port, the server has registered the port it came
from, the client has its id.  Each phase says how much of `make_connection` or of
`receive_drop_packet` is left to do, and which value the thread has already loaded,
so that the two loads of `my_port` and the store between them cannot be forgotten.
Everything else the threads do is a list of operations that are not about the port
(`AllQuiet`), and a step of such a list leaves the phase alone, whatever the other
thread is doing (`QuietStep`).  The invariant says nothing once `muddled` holds: a
second request, or a block after the request was let through, and then the property
says nothing either.

`MessageDestinedHolds`, for the same constants and under `ValuesAssumption`: what nobody
has written is no peer's address, and no record is not a record of one.  `DestInv` is about
the record of the peer, which one thread fills field by field while the other reads it.  It
says how far the main thread has come, in `response_ip` (`IpAt`: which fields are written,
and that `peer_ID` still holds the peer before) or in `request_session` (`PingAt`), or that it
is at rest and the record is all of one peer (`Settled`); and how far the console's command
has come (`CommandAt`: what it has still to do of `make_session` or `send_message`, what it
has checked, and that what it loaded is an address of the peer it named).  What it says of the
command is conditional on what ran into it (`Alone`, which looks at `during`), because
`MessageDestined` is.  There is a lemma for each operation and each stage of it; a step of
one thread leaves what is said of the other true, or adds to `during`.

### `ProgramProofs`

`WellFormedHolds`, `SameInstanceHolds` and `InterfacesValidHolds`, for any names, lengths,
addresses, maps and counts of interfaces.  `NegotiationInv` says for each phase how far
the program and the server are, and it is the recovery that makes it necessary: the
negotiations run again with the settings as they are, after `needNewMap` was cleared,
against a server where the instance may have been freed and another session may have
made one.  `OneInstance` ties the setting, the instance the server answered with, the
first one of the run and those made since.  `WellFormed` rests on a lemma that a message
that fits the buffer is not cut by the 16 bits of its length (`ReadAsMeant`), so the server
finds each name where the length before it says.  The limits on the names are the code's own
tests; for what the server sends, the size of a record is tested before it is read, so
`top` passes the end of the buffer only with custom information (`top = announced`), and
`InterfacesValid` speaks of runs in which that has not happened.

`ArgumentsTakenHolds`, for any texts and any order of the arguments.  Its invariant
(`TakenInv`) says that a setting is written with its mark, unless the program has ended in
between, and that an address or a port is the one typed.  Below it are lemmas on the two
parsers, which are loops: `DigitsNumber` (the int of `parsePort` is the number, up to the
digit at which it overflows) by a least counterexample, and for `parseIP` a round as a step from
one end of a field to the next (`OctetTaken`), four of them as a walk along the text
(`IPParsed`), and such a walk as the three dots and four fields of the definition `Quad`
(`FieldBetween`, `ThreeCuts`), so that `QuadParsed` is an equivalence.

`PrintsWhatCameHolds`, for any programs, ports, texts and buffer size, is about
`ChatSpec`, the chat program by itself: the run composes it with the clients only
to check both at once.  `Buffers` says that the buffer is zero behind the longest
message yet and holds letters before it, so the first zero behind what `recv` brought is
at its end or not before the end of a longer message.

### `StreamProofs`

`DeliveredHolds` and `AddressAgreesHolds`, for any frames, interfaces, values and numbers
of calls.  `CallInv` says where each call is in its command, that one thread at a time is
between `lock` and `unlock`, and that what the server will have read once all that is in
flight has arrived (`Sent`) is the commands returned and the part of the one under way that
was sent; `ReadAllOf` is the lemma on the server's side: a piece of a command read behind
what was read of it makes a longer part, or the whole, and never two.  That the server
reads a unit (`Arrive`) leaves `Sent` as it is, and a reset leaves it too: it only keeps the
server from getting there.  What the server has read is a beginning of `Sent` because
reading takes nothing back.  `AddressInv` adds that a value is stored already, or will be by
the call that told the server, while nothing has been written past the buffer.

`InStepHolds`, for any messages of the server: its run has sequences of messages, the
proof any.  `StepInv` says that there are messages `handled` and `rest`: the frames copied
are `handled`, the frames sent are those of `handled` and then of `rest`, and the bytes
on their way are what is left of `rest` behind the `Taken` bytes of its first message that
the loop has read; the buffer has them.  A partial `recv` moves `Taken`, the end of a
message moves its head from `rest` to `handled`.  `OverrunSteps` is the other half of the
property: a piece that passes the end of the buffer is a warning, and while no message was
a long one (`NoneLong`) there is no such piece.  It rests on what `FlattenSeq` does to
the head of a list (`FlattenCons`), which the library does not state and which is proved
here by a least counterexample.

### Only model-checked

`HolePunched`, which says where every order of look-ups, pings and pongs ends, the liveness
of `HolePunch` (`PongCompletes`), `RegistersAtLast` of
`PeerThreads`, the parsers of `Console` (`LinesTaken`), and the liveness of
`Routing` (`RequestAnswered`, `Ends`) are checked by TLC and not proved.  `LinesTaken` compares
what is parsed with what the line means, and that meaning is a table of the lines of the
run, so there is nothing to prove for all lines.

Liveness (`PongCompletes`, `RequestAnswered`, `Ends`, `RegistersAtLast`,
`StartupEnds`, `SendersServed`) is out of the prover's reach, as are `ENABLED`,
and operators declared `RECURSIVE` (no module here declares one).  The library's theorems
on induction take an operator and cannot be used; where a proof needs induction over
numbers it takes a least counterexample (`Least` in `ProgramProofs`, `StreamProofs`, `RendezvousProofs`).

## 5. What is not modelled, and why

* The outcome "dangling" of a `push_back` that reallocates while `clear()` runs in
  `Nat`: it corrupts memory, and no property says anything of the states beyond.
* More than one packet under way in `Routing`, and ARP, which the program does not do.
* Printing, and the sorting that only serves printing (`print_pool`, `print ip`).
* The regular expressions behind the parsers character by character: a word of
  `Console` is what they let through or not.
* Pools that span several /24 prefixes: the comparator `pa1` sorts with is no order
  across prefixes, and `std::sort` is then undefined.
* Which bytes a message that is longer than the buffer leaves in which object: `Stream` and
  `Negotiation` say that the interfaces may hold anything and that the process may crash,
  and their properties, but for the ones that say when it can happen, end there.
* What a thread reads from an object that the other has destroyed at exit: `Stream`
  has the order of the destruction and what reaches the server in it, not the values
  read from freed memory.
* The vectors of the `pa1` server under its two threads: a frame or a command is one
  step in `LeaseServer`.  `Nat` has the same hazard at the level of the vectors, with
  the outcomes it can have.
* The two threads of one `pa1` client, but for `extend_lease`: they share one address
  and two lists, and the one window that loses a grant is in `LeaseNet`.
* A console whose `cin` has failed reads nothing more (`Console!ReadNothing`); that a
  typed line is read at all is therefore no property of the program.

## 6. Where the code and its own words disagree

* `punch_again`: the client prints "connection lost, ... ask server for updates"
  (`pa2/user/client_machine.cpp:268`).  A client that asks again has its
  `connected` cleared by the answer (308); the peer, for which the connection
  stands, ignores every further ping (359); no pong comes, and the client stays
  unconnected for good.
* `lease_kept`: "ownership of the data of the frame is not with you.  If you need it,
  make a copy for yourself" (`pa1/user/server_machine.cpp:49-50`).  A release (291) and
  an extension (307) push a pointer into the frame to the pool; after the next
  DISCOVER, whose address is zero, the server offers 0.0.0.0.

## 7. What could come next

1. The vectors of the `pa1` server at the level of `Vec`, with `add_time` between the
   steps of a frame, as a refinement of `LeaseServer` outside of the windows.
2. An abstract specification of a NAT (a partial injection from clients to public
   addresses with a set of permitted pairs) that `Nat` implements outside of the
   windows, and the NATs of `HolePunch` always.
3. `Framework` as an implementation of `Stream` with whole messages, so that the
   recovery of the one starts where the bytes of the other end.
