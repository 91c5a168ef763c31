---------------------------- MODULE FileTransfer ----------------------------
(***************************************************************************)
(* What the device link promises the app that asks for files: a request is *)
(* sent at most once and its completion block called at most once, when    *)
(* all the packets of the answer have come in one after the other, and     *)
(* given all of them; a cancelled request is never completed; and a        *)
(* request that a lost connection took away is given up, not resumed with  *)
(* what another connection brings.  The promise is withdrawn for good when *)
(* the making of a message is disturbed.                                   *)
(***************************************************************************)
EXTENDS Naturals, Sequences

CONSTANTS
    Requests,   \* the requests, each with a key of its own
    Packets     \* Packets[r]: packets of the answer to r

VARIABLES
    asked,      \* the requests the app made
    unsent,     \* those of them the client has still to send
    expecting,  \* those whose completion block may still be called
    got,        \* got[r]: packets of the answer received, while expecting it
    given,      \* given[r]: what the completion block of r was given
    cancelled,  \* the requests the app cancelled
    disturbed   \* the making of a message was disturbed

transferVars == <<asked, unsent, expecting, got, given, cancelled, disturbed>>

Init ==
    /\ asked = {}
    /\ unsent = {}
    /\ expecting = {}
    /\ got = [r \in Requests |-> 0]
    /\ given = [r \in Requests |-> << >>]
    /\ cancelled = {}
    /\ disturbed = FALSE

Ask(r) ==
    /\ r \notin asked
    /\ asked' = asked \cup {r}
    /\ unsent' = unsent \cup {r}
    /\ UNCHANGED <<expecting, got, given, cancelled>>

Send(r) ==
    /\ r \in unsent
    /\ unsent' = unsent \ {r}
    /\ expecting' = expecting \cup {r}
    /\ UNCHANGED <<asked, got, given, cancelled>>

Receive(r) ==
    /\ r \in expecting
    /\ got[r] + 1 < Packets[r]
    /\ got' = [got EXCEPT ![r] = got[r] + 1]
    /\ UNCHANGED <<asked, unsent, expecting, given, cancelled>>

Complete(r) ==
    /\ r \in expecting
    /\ got[r] + 1 = Packets[r]
    /\ given' = [given EXCEPT ![r] = [i \in 1..Packets[r] |-> i - 1]]
    /\ expecting' = expecting \ {r}
    /\ got' = [got EXCEPT ![r] = 0]
    /\ UNCHANGED <<asked, unsent, cancelled>>

(* A request that has not been sent cannot be cancelled.                   *)
Cancel(r) ==
    /\ r \in asked \ (unsent \cup cancelled)
    /\ cancelled' = cancelled \cup {r}
    /\ expecting' = expecting \ {r}
    /\ got' = [got EXCEPT ![r] = 0]
    /\ UNCHANGED <<asked, unsent, given>>

Lose ==
    /\ unsent' = {}
    /\ expecting' = {}
    /\ got' = [r \in Requests |-> 0]
    /\ UNCHANGED <<asked, given, cancelled>>

Proceed ==
    \/ \E r \in Requests :
           Ask(r) \/ Send(r) \/ Receive(r) \/ Complete(r) \/ Cancel(r)
    \/ Lose

(* Nothing is promised from the first disturbance on.                      *)
Next == \/ ~disturbed /\ ~disturbed' /\ Proceed
        \/ disturbed' = TRUE

Spec == Init /\ [][Next]_transferVars
=============================================================================
