---------------------------- MODULE MCSendQueue ----------------------------
(* Values for the constants of SendQueue.  Message 4 is the answer to a    *)
(* request to cancel message 2.                                            *)
EXTENDS SendQueue

CONSTANTS s1, s2

OneSocket  == {s1}
TwoSockets == {s1, s2}

Four == 1..4
KindFour    == <<"direct", "file", "direct", "direct">>
PacketsFour == <<1, 3, 2, 1>>
DestFour    == [m \in Four |-> s1]
AnswerFour  == <<0, 4, 0, 0>>

(* Two messages, for two clients of one server or for one.                 *)
Two == 1..2
KindTwo    == <<"direct", "file">>
PacketsTwo == <<1, 2>>
DestTwo    == <<s1, s2>>
DestSame   == <<s1, s1>>
NoAnswer   == <<0, 0>>

(* Bound: nothing is promised once the main thread has disturbed a block,  *)
(* so no such state has its successors explored.                           *)
UntilDisturbed == disturbed = {}
=============================================================================
