--------------------------- MODULE MCPacketStream ---------------------------
(* A small instance of PacketStream: lengths of two bits, data with the      *)
(* bytes that mean something in a packet.                                    *)
EXTENDS PacketStream
MCSent  == {FILE_DATA, CHECK_OK}
MCDatas == {<<>>, <<CLOSE>>, <<ZERO, NUL>>, <<NUL, OPEN, ZERO, CLOSE, ZERO>>}
MCJunk  == {ZERO, CLOSE}
MCHeaders == <<NEW_SON, CONOK, CONKO, LIST_REQUEST, LIST_RESPONSE, SEND_MSG, MSGOK,
               SEND_FILE, FILE_DATA, CHECK_OK, CHECK_KO, EXIT, UNKNOWN, NEW_MSG>>
MCLetter == [h \in Headers |-> 100 + CHOOSE i \in 1..14 : MCHeaders[i] = h]
=============================================================================
