--------------------------- MODULE MessageStream ---------------------------
(***************************************************************************)
(* What the sending half of the device link promises of each connection:   *)
(* the packets on it belong to the messages meant for it, one message      *)
(* after the other, each from its first packet on, none left out or sent   *)
(* twice; the header of a packet names the bytes it carries; and a         *)
(* message is broken off only if it was withdrawn.  A connection that      *)
(* breaks takes its stream with it.  Once two threads were at work on one  *)
(* message nothing is promised any more.                                   *)
(***************************************************************************)
EXTENDS Naturals, Sequences

CONSTANTS
    Sockets,    \* the connections
    Messages,   \* the keys of the messages, each positive
    Packets,    \* Packets[m]: the packets message m is cut into
    Dest        \* Dest[m]: the connection message m is meant for

VARIABLES
    stream,     \* stream[s]: the packets on connection s
    begun,      \* the messages whose first packet was sent
    withdrawn,  \* the messages somebody asked to cancel
    disturbed   \* the messages two threads were at work on

streamVars == <<stream, begun, withdrawn, disturbed>>

(* A packet: what its header says, and the bytes it carries.               *)
Packet(m, i) == [key |-> m, index |-> i, of |-> m, part |-> i]

Init ==
    /\ stream = [s \in Sockets |-> << >>]
    /\ begun = {}
    /\ withdrawn = {}
    /\ disturbed = {}

LastOf(s) == stream[s][Len(stream[s])]

(* The message sent last on s is over.                                     *)
IsOver(s) ==
    \/ stream[s] = << >>
    \/ LastOf(s).of \in withdrawn
    \/ LastOf(s).part + 1 = Packets[LastOf(s).of]

Begin(m) ==
    /\ m \notin begun
    /\ Packets[m] > 0
    /\ IsOver(Dest[m])
    /\ stream' = [stream EXCEPT ![Dest[m]] = Append(@, Packet(m, 0))]
    /\ begun' = begun \cup {m}
    /\ UNCHANGED withdrawn

Continue(s) ==
    /\ stream[s] # << >>
    /\ LastOf(s).part + 1 < Packets[LastOf(s).of]
    /\ stream' = [stream EXCEPT ![s] =
                     Append(@, Packet(LastOf(s).of, LastOf(s).part + 1))]
    /\ UNCHANGED <<begun, withdrawn>>

Withdraw(S) ==
    /\ withdrawn' = withdrawn \cup S
    /\ UNCHANGED <<stream, begun>>

Break(s) ==
    /\ stream' = [stream EXCEPT ![s] = << >>]
    /\ UNCHANGED <<begun, withdrawn>>

Proceed ==
    \/ \E m \in Messages : Begin(m)
    \/ \E s \in Sockets : Continue(s) \/ Break(s)
    \/ \E S \in SUBSET Messages : Withdraw(S)

Next == IF disturbed' = {} THEN Proceed ELSE disturbed \subseteq disturbed'

Spec == Init /\ [][Next]_streamVars
=============================================================================
