--------------------------- MODULE MCPacketReader ---------------------------
(* Values for the constants of PacketReader: a prefix of two bytes that    *)
(* ends with the length, and packets of one, two and three bytes of body.  *)
EXTENDS PacketReader

SizeMC == <<4, 3, 5, 4>>

(* The client may be handed any chunk, the server only whole packets.      *)
SetupsThatWork == {<<"client", "any">>, <<"client", "whole">>,
                   <<"server", "whole">>}
ClientOnly == {<<"client", "any">>}
ServerOnly == {<<"server", "any">>}
=============================================================================
