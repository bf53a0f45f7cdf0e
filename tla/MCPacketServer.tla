--------------------------- MODULE MCPacketServer ---------------------------
(* A server and two datagrams for TLC. *)
EXTENDS PacketServer

MCDatagrams == {<<"other", "ping">>, <<"shutdown", "broken">>}
=============================================================================
