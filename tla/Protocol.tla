------------------------------ MODULE Protocol ------------------------------
(***************************************************************************)
(* The packets that Arda and the iluvatarSons exchange (communications.c). *)
(* A packet on the wire is                                                  *)
(*      1 byte type | header, up to and with ']' | 2 bytes length | data    *)
(* and is abstracted here to the record of its type, header and data.  A    *)
(* packet that comes in pieces is one that comes when its last piece does;  *)
(* one whose last piece never comes is Torn.                                *)
(***************************************************************************)
EXTENDS Integers

CONSTANT NULL   \* the null pointer: no data, no packet, no record

NEW_SON       == "[NEW_SON]"
CONOK         == "[CONOK]"
CONKO         == "[CONKO]"
LIST_REQUEST  == "[LIST_REQUEST]"
LIST_RESPONSE == "[LIST_RESPONSE]"
SEND_MSG      == "[MSG]"
MSGOK         == "[MSGOK]"
SEND_FILE     == "[NEW_FILE]"
FILE_DATA     == "[FILE_DATA]"
CHECK_OK      == "[CHECK_OK]"
CHECK_KO      == "[CHECK_KO]"
EXIT          == "[EXIT]"
UNKNOWN       == "[UNKNOWN]"
NEW_MSG       == "[NEW_MSG]"

(* isPacketValid: the headers that go with each type. *)
HeadersOfType == <<
  {NEW_SON, CONOK, CONKO},
  {LIST_REQUEST, LIST_RESPONSE},
  {SEND_MSG, MSGOK},
  {SEND_FILE, FILE_DATA},
  {CHECK_OK, CHECK_KO},
  {EXIT, CONOK, CONKO},
  {UNKNOWN},
  {NEW_MSG} >>

Headers == UNION {HeadersOfType[t] : t \in 1..8}

(* getType: the type a header is sent with.  CONOK and CONKO have type 1 in *)
(* an answer and type 6 in an exit exchange; EXIT exists only in the        *)
(* latter.  Whatever fits nowhere has the type of UNKNOWN.                  *)
getType(header, exit) ==
  CASE exit  /\ header \in HeadersOfType[6] -> 6
    [] ~exit /\ header \in HeadersOfType[1] -> 1
    [] ~exit /\ header \in HeadersOfType[2] -> 2
    [] ~exit /\ header \in HeadersOfType[3] -> 3
    [] ~exit /\ header \in HeadersOfType[4] -> 4
    [] ~exit /\ header \in HeadersOfType[5] -> 5
    [] ~exit /\ header \in HeadersOfType[8] -> 8
    [] OTHER -> 7

(* isPacketValid: what both COM_writePacket and COM_readPacket insist on. *)
isPacketValid(p) == p.type \in 1..8 /\ p.header \in HeadersOfType[p.type]

(* COM_writePacket: the packet that is put on the wire.  A header that      *)
(* getType does not know is replaced by UNKNOWN and loses its data.         *)
COM_writePacket(header, data, exit) ==
  LET type == getType(header, exit) IN
  IF type = 7 THEN [type |-> 7, header |-> UNKNOWN, data |-> NULL]
              ELSE [type |-> type, header |-> header, data |-> data]

(* The beginning of a packet that is never completed: its writer died, or   *)
(* stopped, in the middle of it.                                            *)
Torn == [type |-> 0, header |-> "?", data |-> NULL]

=============================================================================
