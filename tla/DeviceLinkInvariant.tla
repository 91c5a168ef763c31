------------------------ MODULE DeviceLinkInvariant -------------------------
(***************************************************************************)
(* The inductive invariant of DeviceLink: a request and its answer are in  *)
(* one place at a time, and what the client has of an answer is what the   *)
(* server has sent of it, short of what is on the way.  The second half    *)
(* holds until the main thread disturbs a block.                           *)
(***************************************************************************)
EXTENDS DeviceLink

Is(m, what, r) == m.what = what /\ m.about = r
In(q, what, r) == \E i \in DOMAIN q : Is(q[i], what, r)
Once(q, what, r) ==
    \A i, j \in DOMAIN q : Is(q[i], what, r) /\ Is(q[j], what, r) => i = j

(* What arrives of r after the answer to its cancelling is nothing.        *)
CancelledLast(q, r) ==
    \A i, j \in DOMAIN q :
        i < j /\ Is(q[i], "cancelled", r) => ~Is(q[j], "answer", r)

AnswerIsCurrent(r) == Is(current, "answer", r)

(* A request is where it was put, and its answer is nowhere yet.           *)
NotSent(r) ==
    /\ ~waiting[r].is
    /\ ~In(toServer, "request", r)
    /\ ~In(serverQueue, "answer", r)
    /\ ~AnswerIsCurrent(r)
    /\ ~In(toClient, "answer", r)

(* The server has nothing left of r, and will get nothing.                 *)
NothingToSend(r) ==
    /\ ~In(clientQueue, "request", r)
    /\ ~In(toServer, "request", r)
    /\ ~In(serverQueue, "answer", r)
    /\ ~AnswerIsCurrent(r)

RequestIsUnsent ==
    \A r \in Requests :
        /\ r \notin asked => NotSent(r) /\ ~In(clientQueue, "request", r)
        /\ In(clientQueue, "request", r) => NotSent(r)
        /\ Once(clientQueue, "request", r)

RequestIsOnTheWay ==
    \A r \in Requests :
        /\ In(toServer, "request", r) => /\ ~In(serverQueue, "answer", r)
                                         /\ ~AnswerIsCurrent(r)
                                         /\ ~In(toClient, "answer", r)
        /\ Once(toServer, "request", r)

(* The operation of the current task is the one that is executing, if it   *)
(* has not been cancelled.                                                 *)
AnswerIsQueued ==
    \A r \in Requests :
        /\ Once(serverQueue, "answer", r)
        /\ AnswerIsCurrent(r) => \/ ~In(serverQueue, "answer", r)
                                 \/ /\ running
                                    /\ serverQueue # << >>
                                    /\ Is(Head(serverQueue), "answer", r)
        /\ In(serverQueue, "answer", r) =>
               AnswerIsCurrent(r) \/ ~In(toClient, "answer", r)

CancelledExpectsNothing ==
    \A r \in cancelled : /\ r \in asked
                         /\ ~waiting[r].block
                         /\ ~In(clientQueue, "request", r)

(* The connection, as both sides see it.                                   *)
ConnectionIsKnown ==
    /\ live => clientSide = "up"
    /\ ~live => toServer = << >> /\ toClient = << >>
    /\ clientSide = "down" => /\ clientQueue = << >>
                              /\ \A r \in Requests : ~waiting[r].is
    /\ \A i \in DOMAIN serverQueue : serverQueue[i].conn <= conn
    /\ \A r \in Requests : waiting[r].block => waiting[r].is

CancelledIsExpected ==
    \A r \in Requests :
        /\ In(toServer, "cancel", r) => cancelWait[r].block \/ r \in answered
        /\ In(toClient, "cancelled", r) => cancelWait[r].block \/ r \in answered
        /\ live =>
               \A i \in DOMAIN serverQueue :
                   Is(serverQueue[i], "cancelled", r) /\ serverQueue[i].conn = conn
                       => cancelWait[r].block \/ r \in answered

CancelledIsLast ==
    \A r \in Requests :
        /\ In(serverQueue, "cancelled", r) => NothingToSend(r)
        /\ In(toClient, "cancelled", r) => NothingToSend(r)
        /\ CancelledLast(toClient, r)
        /\ In(serverQueue, "cancelled", r) \/ In(toClient, "cancelled", r)
               => r \in asked
        /\ In(toServer, "cancel", r) \/ In(clientQueue, "cancel", r)
               => r \in asked /\ ~In(clientQueue, "request", r)

AnsweredIsOver ==
    \A r \in answered : /\ r \in asked
                        /\ NothingToSend(r)
                        /\ ~In(toClient, "answer", r)
                        /\ ~waiting[r].is

(* The packets lo..n-1 of the answer to r are on the way, in order.        *)
OnTheWay(q, r, lo, n) ==
    /\ \A i \in DOMAIN q :
           Is(q[i], "answer", r) =>
               /\ q[i].index \in lo..(n - 1)
               /\ q[i].count = Packets[r]
               /\ \A j \in DOMAIN q :
                      i < j /\ Is(q[j], "answer", r) => q[i].index < q[j].index
    /\ \A k \in lo..(n - 1) :
           \E i \in DOMAIN q : Is(q[i], "answer", r) /\ q[i].index = k

(* The first n packets of the answer to r were sent: those received make   *)
(* up the parts, the others are on the way, in order.                      *)
Sent(r, n) ==
    /\ Len(waiting[r].parts) <= n
    /\ \A k \in 1..Len(waiting[r].parts) : waiting[r].parts[k] = k - 1
    /\ OnTheWay(toClient, r, Len(waiting[r].parts), n)
    /\ AnswerIsCurrent(r) => current.next = n
    /\ In(toServer, "request", r) => n = 0
    /\ \A i \in DOMAIN serverQueue :
           Is(serverQueue[i], "answer", r) => /\ serverQueue[i].conn = conn
                                              /\ ~AnswerIsCurrent(r) => n = 0

PartsFollow ==
    \A r \in Requests :
        live /\ waiting[r].block => \E n \in 0..Packets[r] : Sent(r, n)

Placed == /\ RequestIsUnsent /\ RequestIsOnTheWay /\ AnswerIsQueued
          /\ CancelledExpectsNothing

LinkInv == /\ TypeOK /\ Placed /\ ConnectionIsKnown
           /\ ~disturbed =>
                  /\ CancelledIsExpected /\ CancelledIsLast /\ AnsweredIsOver
                  /\ PartsFollow /\ CompletedIsAlwaysWhole

-----------------------------------------------------------------------------
(* What WaitsForSomething needs beside: a request that waits is on the     *)
(* way, or its answer has an operation that is not finished, or the packet *)
(* that completes it is on the way.                                        *)
LastIsOnTheWay(r) ==
    \E i \in DOMAIN toClient : /\ Is(toClient[i], "answer", r)
                               /\ IsLast(toClient[i])

AnswerIsToCome ==
    \A r \in Requests :
        live /\ waiting[r].block =>
            \/ In(toServer, "request", r)
            \/ In(serverQueue, "answer", r)
            \/ LastIsOnTheWay(r)

(* The server learns that a connection is lost before there is another.    *)
LossIsKnown == live => unnoticed = 0

CancelIsOfCancelled ==
    \A r \in Requests : In(clientQueue, "cancel", r) \/ In(toServer, "cancel", r)
                           => r \in cancelled

WaitInv == AnswerIsToCome /\ LossIsKnown /\ CancelIsOfCancelled

-----------------------------------------------------------------------------
(* The refinement of FileTransfer: a request is expected while its receive *)
(* task has a completion block, and what came in of its answer are the     *)
(* parts of that task.                                                     *)
Unsent    == {r \in Requests : In(clientQueue, "request", r)}
Awaited   == {r \in Requests : waiting[r].block}
PartsHeld == [r \in Requests |->
                 IF waiting[r].block THEN Len(waiting[r].parts) ELSE 0]

Transfer == INSTANCE FileTransfer
                WITH unsent <- Unsent, expecting <- Awaited,
                     got <- PartsHeld, given <- completed

(* What the client does with answers, whatever arrives late, is cancelled  *)
(* or is lost with its connection, is what FileTransfer promises: a        *)
(* completion block is called at most once, with all the parts and after   *)
(* the last of them, and never for a request that was cancelled or given   *)
(* up with a connection.                                                   *)
DeliversFiles == Transfer!Spec

(* A receive task that waits for the answer to a cancelling belongs to a   *)
(* request that was cancelled.                                             *)
CancelWaitIsOfCancelled ==
    \A r \in Requests : cancelWait[r].block => r \in cancelled
=============================================================================
