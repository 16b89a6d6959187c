------------------------------- MODULE Packet -------------------------------
(***************************************************************************)
(* The packets of scratch2 (simpleMachine.h, simpleMachine.cpp): what      *)
(* fill_header writes and what the two ends read back.  Fourteen kinds of  *)
(* packet share the eight values of a 3-bit type field, so the receiver    *)
(* tells some of them apart by the 5-bit id or by the payload.             *)
(***************************************************************************)
EXTENDS Naturals

CONSTANTS
  IdSpace,      \* 2^5 in the code: the values of data_id.id
  Ping, Pong,   \* the payloads "ping" and "pong"
  None          \* no packet, no payload, nullptr

ASSUME IdSpaceAssumption == IdSpace \in Nat /\ IdSpace >= 2
ASSUME PayloadAssumption == Ping # Pong

Id == 0..(IdSpace - 1)

DataType ==
  { "REQUEST_ASSIGNING_ID", "RESPONSE_ASSIGNING_ID", "DROP",
    "REQUEST_GETTING_IP", "RESPONSE_GETTING_IP",
    "REQUEST_LOCAL_SESSION", "RESPONSE_LOCAL_SESSION",
    "REQUEST_PUBLIC_SESSION", "RESPONSE_PUBLIC_SESSION",
    "MESSAGE", "NAT_UPDATED", "REQUEST_UPDATING_INFO", "STATUS", "STATUS_RESPONSE" }

\* get_data_type
TypeCode(type) ==
  CASE type \in {"REQUEST_ASSIGNING_ID", "RESPONSE_ASSIGNING_ID", "DROP"} -> 0
    [] type \in {"REQUEST_GETTING_IP", "RESPONSE_GETTING_IP"} -> 1
    [] type \in {"REQUEST_LOCAL_SESSION", "RESPONSE_LOCAL_SESSION",
                 "REQUEST_PUBLIC_SESSION", "RESPONSE_PUBLIC_SESSION"} -> 2
    [] type = "MESSAGE" -> 3
    [] type = "NAT_UPDATED" -> 4
    [] type = "REQUEST_UPDATING_INFO" -> 5
    [] type = "STATUS" -> 6
    [] type = "STATUS_RESPONSE" -> 7

\* fill_header and the payload written behind it; the id is cut to its 5 bits.
Packet(type, src, dst, id, pl) ==
  [code |-> TypeCode(type), id |-> id % IdSpace, src |-> src, dst |-> dst, pl |-> pl]

\* ServerMachine::detect_type
ServerDetect(p) ==
  CASE p.code = 0 -> "REQUEST_ASSIGNING_ID"
    [] p.code = 1 -> "REQUEST_GETTING_IP"
    [] p.code = 5 -> "REQUEST_UPDATING_INFO"
    [] p.code = 6 -> "STATUS"
    [] OTHER -> "INVALID"

\* ClientMachine::detect_data_type
ClientDetect(p) ==
  CASE p.code = 0 /\ p.id = 0 -> "DROP"
    [] p.code = 0 /\ p.id # 0 -> "RESPONSE_ASSIGNING_ID"
    [] p.code = 1 -> "RESPONSE_GETTING_IP"
    [] p.code = 2 /\ p.pl = Ping -> "REQUEST_LOCAL_SESSION"
    [] p.code = 2 /\ p.pl = Pong -> "RESPONSE_LOCAL_SESSION"
    [] p.code = 3 -> "MESSAGE"
    [] p.code = 4 -> "NAT_UPDATED"
    [] p.code = 7 -> "STATUS_RESPONSE"
    [] OTHER -> "INVALID"
=============================================================================
