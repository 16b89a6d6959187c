----------------------------- MODULE Rendezvous -----------------------------
(***************************************************************************)
(* The rendezvous server of scratch2 (server_machine.cpp): it hands out    *)
(* ids, remembers the address each id was requested from, and tells one    *)
(* client the addresses of another.  run() returns at once, so processFrame*)
(* is the only thread and every handler is one action.                     *)
(***************************************************************************)
EXTENDS Packet, Sequences

CONSTANTS
  LocalAddr,    \* what a client may say its own address is, records ip, port
  SourceAddr,   \* the addresses frames arrive from, behind a NAT or not
  HalfWord,     \* 2^16 in the code
  ServerAddr,   \* 1.1.1.1:1234
  MaxClients    \* bound on the number of registrations

ASSUME LocalAddrAssumption == \A a \in LocalAddr : a.ip \in Nat
ASSUME HalfWordAssumption == HalfWord \in Nat \ {0}
ASSUME MaxClientsAssumption == MaxClients \in Nat

VARIABLES
  information,      \* information: the registrations, in order of arrival
  current_free_id,  \* current_free_id, a 5-bit field
  reply             \* the packet the last handler sent, None if it sent none

vars == <<information, current_free_id, reply>>

ClientInfo == [ID : Id, local : LocalAddr, public : SourceAddr]
Metadata == [local : LocalAddr, public : SourceAddr]
Reply == [code : 0..7, id : Id, src : {ServerAddr}, dst : LocalAddr \cup SourceAddr,
          pl : Metadata \cup {None}]

-----------------------------------------------------------------------------
\* Mutant: the last match is taken.
LastOf(i, S) == i \in S /\ \A j \in S : j <= i

\* What find_client_by_public, find_client_by_ID and find_client_by_local scan for.
ByPublic(a) == { i \in 1..Len(information) : information[i].public = a }
ByID(id) == { i \in 1..Len(information) : information[i].ID = id }
ByLocal(ip) == { i \in 1..Len(information) : information[i].local.ip = ip }

First(i, S) == i \in S /\ \A j \in S : i <= j

\* ntohs of a 32-bit address in network order: its upper half in host order.
NToHS(ip) == ip \div HalfWord

\* Mutants: 0 is handed out; the field is cut too early.
FreeIdZero(c) == c
NextIdShort(id) == (id + 1) % (IdSpace - 1)

\* The id handed out when current_free_id is c, and the field after that.
FreeId(c) == IF c = 0 THEN 1 ELSE c
NextId(id) == (id + 1) % IdSpace

Init ==
  /\ information = <<>>
  /\ current_free_id = 0
  /\ reply = None

Send(p) == reply' = p

-----------------------------------------------------------------------------
\* rec_request_id: the free id is made non-zero, given out and incremented in
\* its five bits.
RecRequestId(src, local) ==
  /\ Len(information) < MaxClients   \* bound
  /\ IF ByLocal(NToHS(local.ip)) # {}
     THEN UNCHANGED <<information, current_free_id>> /\ Send(None)
     ELSE LET id == FreeId(current_free_id) IN
            /\ id <= IdSpace - 1
            /\ information' = Append(information, [ID |-> id, local |-> local, public |-> src])
            /\ current_free_id' = NextId(id)
            /\ Send(Packet("RESPONSE_ASSIGNING_ID", ServerAddr, src, id, None))

\* rec_ip_request: both the asker's address and the id must be known.
RecIpRequest(src, id) ==
  /\ IF ByPublic(src) = {} \/ ByID(id) = {}
     THEN Send(None)
     ELSE \E b \in 1..Len(information) :
            /\ First(b, ByID(id))
            /\ Send(Packet("RESPONSE_GETTING_IP", ServerAddr, src, information[b].ID,
                           [local |-> information[b].local, public |-> information[b].public]))
  /\ UNCHANGED <<information, current_free_id>>

\* rec_update_request: only the local address is replaced.
RecUpdateRequest(id, local) ==
  /\ IF ByID(id) = {}
     THEN UNCHANGED information
     ELSE \E i \in 1..Len(information) :
            /\ First(i, ByID(id))
            /\ information' = [information EXCEPT ![i].local = local]
  /\ Send(None)
  /\ UNCHANGED current_free_id

\* receive_status: the answer goes to the address the client says it has.
ReceiveStatus(src, local) ==
  /\ Send(Packet("STATUS_RESPONSE", ServerAddr, local,
                 IF local = src THEN 1 ELSE 0, None))
  /\ UNCHANGED <<information, current_free_id>>

Next ==
  \/ \E src \in SourceAddr, local \in LocalAddr : RecRequestId(src, local)
  \/ \E src \in SourceAddr, id \in Id : RecIpRequest(src, id)
  \/ \E id \in Id, local \in LocalAddr : RecUpdateRequest(id, local)
  \/ \E src \in SourceAddr, local \in LocalAddr : ReceiveStatus(src, local)

Spec == Init /\ [][Next]_vars

-----------------------------------------------------------------------------
(* Properties. *)

\* Registrations, the free id and the last packet are of their declared types.
TypeOK ==
  /\ information \in Seq(ClientInfo)
  /\ current_free_id \in Id
  /\ reply \in Reply \cup {None}

\* An answer to an id request is never what a client takes for DROP: id 0 is
\* skipped also after the 5-bit counter has wrapped (current_free_id == 0).
NeverAssignsDrop ==
  reply # None /\ reply.code = 0 => ClientDetect(reply) = "RESPONSE_ASSIGNING_ID"

\* Up to 31 registrations every id names one registration.
IdsUnique ==
  Len(information) < IdSpace =>
    \A i, j \in 1..Len(information) : information[i].ID = information[j].ID => i = j

\* Addresses are told only to an asker whose own address is registered.
OnlyRegisteredAsk ==
  reply # None /\ reply.code = 1 =>
    \E i \in 1..Len(information) : information[i].public = reply.dst

\* Every answer about an id carries the public address of the first client that
\* was given it, also when the ids have wrapped and a later client has it too.
FirstOwnerAnswered ==
  reply # None /\ reply.code = 1 =>
    \E i \in 1..Len(information) :
      /\ information[i].ID = reply.id
      /\ \A j \in 1..(i - 1) : information[j].ID # reply.id
      /\ information[i].public = reply.pl.public

\* A registration never loses its id or the public address it was made from,
\* whatever updates follow.
RegistrationStable ==
  [][ \A i \in 1..Len(information) :
        /\ i \in 1..Len(information')
        /\ information'[i].ID = information[i].ID
        /\ information'[i].public = information[i].public ]_vars
=============================================================================
