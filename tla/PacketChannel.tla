--------------------------- MODULE PacketChannel ---------------------------
(***************************************************************************)
(* What the receiving half of the device link promises over one            *)
(* connection: whole packets, in the order they were sent, each once.      *)
(* A connection that is lost takes what it still holds with it, and the    *)
(* next one begins with nothing received.                                  *)
(***************************************************************************)
EXTENDS Sequences

CONSTANT Packets

VARIABLES
    inFlight,   \* the packets sent and not yet received
    received    \* the packets received

channelVars == <<inFlight, received>>

TypeOK == inFlight \in Seq(Packets) /\ received \in Seq(Packets)

Init == inFlight = << >> /\ received = << >>

Send(p) ==
    /\ inFlight' = Append(inFlight, p)
    /\ UNCHANGED received

Receive ==
    /\ inFlight # << >>
    /\ inFlight' = Tail(inFlight)
    /\ received' = Append(received, Head(inFlight))

Lose == inFlight' = << >> /\ received' = << >>

Next == (\E p \in Packets : Send(p)) \/ Receive \/ Lose

Spec == Init /\ [][Next]_channelVars
=============================================================================
