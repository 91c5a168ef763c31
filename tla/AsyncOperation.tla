--------------------------- MODULE AsyncOperation ---------------------------
(***************************************************************************)
(* The life of the operations both queues of the pipeline are made of      *)
(* (PPCustomAsyncOperation, with the cancel of its two subclasses): start  *)
(* is called by the queue, main runs on a thread start detaches, cancel    *)
(* comes from any thread, and the network answer finishes the operation.   *)
(* start and main take no lock; cancel and finishOperation share one.      *)
(* DownloadPipeline treats start, main and cancel as atomic; here they     *)
(* interleave statement by statement.  An operator that nothing else uses  *)
(* is a mistake the code might have made; PROJECT.json names the property  *)
(* that notices it.                                                        *)
(***************************************************************************)
EXTENDS Naturals, FiniteSets

CONSTANTS
    Ops,          \* the operations of the queue
    Limit,        \* maxConcurrentOperationCount
    CancelTests,  \* isExecuting tests in cancel: 1, or 2 in ParseOperation
    Cancellable   \* the operations that may be cancelled

ASSUME OperationAssumption ==
    /\ IsFiniteSet(Ops)
    /\ Limit \in Nat \ {0}
    /\ CancelTests \in {1, 2}
    /\ Cancellable \subseteq Ops

VARIABLES
    cancelled,   \* isCancelled
    executing,   \* operationExecuting
    finished,    \* operationFinished
    request,     \* the network request main sends
    starter,     \* where start is; hasStart is set on leaving "waiting"
    worker,      \* where main is
    canceller    \* isExecuting tests cancel has still to make

vars == <<cancelled, executing, finished, request, starter, worker, canceller>>

NotCalled == CancelTests + 1

TypeOK ==
    /\ cancelled \in [Ops -> BOOLEAN]
    /\ executing \in [Ops -> BOOLEAN]
    /\ finished \in [Ops -> BOOLEAN]
    /\ request \in [Ops -> {"none", "sent", "answered"}]
    /\ starter \in [Ops -> {"waiting", "check", "signal", "detach",
                            "execute", "returned"}]
    /\ worker \in [Ops -> {"none", "check", "send", "returned"}]
    /\ canceller \in [Ops -> 0..NotCalled]

Init ==
    /\ cancelled = [o \in Ops |-> FALSE]
    /\ executing = [o \in Ops |-> FALSE]
    /\ finished  = [o \in Ops |-> FALSE]
    /\ request   = [o \in Ops |-> "none"]
    /\ starter   = [o \in Ops |-> "waiting"]
    /\ worker    = [o \in Ops |-> "none"]
    /\ canceller = [o \in Ops |-> NotCalled]

HasStart(o) == starter[o] # "waiting"
LockFree(o) == canceller[o] \in {0, NotCalled}
Occupying   == {o \in Ops : HasStart(o) /\ ~finished[o]}

(* signKVOComplete, and finishOperation which guards it.                   *)
SignComplete(o) ==
    /\ executing' = [executing EXCEPT ![o] = FALSE]
    /\ finished' = [finished EXCEPT ![o] = TRUE]

FinishIfExecuting(o) ==
    IF ~executing[o] \/ ~HasStart(o)
    THEN UNCHANGED <<executing, finished>>
    ELSE SignComplete(o)

FinishOperation(o) ==
    IF (~executing[o] /\ finished[o]) \/ ~HasStart(o)
    THEN UNCHANGED <<executing, finished>>
    ELSE SignComplete(o)

-----------------------------------------------------------------------------
(* start, called by the queue when it has room.                            *)
StartBegins(o) ==
    /\ starter[o] = "waiting"
    /\ Cardinality(Occupying) < Limit
    /\ starter' = [starter EXCEPT ![o] = "check"]
    /\ UNCHANGED <<cancelled, executing, finished, request, worker, canceller>>

StartChecks(o) ==
    /\ starter[o] = "check"
    /\ starter' = [starter EXCEPT ![o] =
                      IF cancelled[o] THEN "signal" ELSE "detach"]
    /\ UNCHANGED <<cancelled, executing, finished, request, worker, canceller>>

StartSignals(o) ==
    /\ starter[o] = "signal"
    /\ SignComplete(o)
    /\ starter' = [starter EXCEPT ![o] = "returned"]
    /\ UNCHANGED <<cancelled, request, worker, canceller>>

StartDetaches(o) ==
    /\ starter[o] = "detach"
    /\ worker' = [worker EXCEPT ![o] = "check"]
    /\ starter' = [starter EXCEPT ![o] = "execute"]
    /\ UNCHANGED <<cancelled, executing, finished, request, canceller>>

StartExecutes(o) ==
    /\ starter[o] = "execute"
    /\ executing' = [executing EXCEPT ![o] = TRUE]
    /\ starter' = [starter EXCEPT ![o] = "returned"]
    /\ UNCHANGED <<cancelled, finished, request, worker, canceller>>

(* main, on the detached thread.                                           *)
MainChecks(o) ==
    /\ worker[o] = "check"
    /\ worker' = [worker EXCEPT ![o] =
                     IF cancelled[o] THEN "returned" ELSE "send"]
    /\ UNCHANGED <<cancelled, executing, finished, request, starter, canceller>>

MainSendsAndFinishes(o) ==
    /\ worker[o] = "send"
    /\ request' = [request EXCEPT ![o] = "sent"]
    /\ worker' = [worker EXCEPT ![o] = "returned"]
    /\ FinishOperation(o)
    /\ UNCHANGED <<cancelled, starter, canceller>>

MainSends(o) ==
    /\ worker[o] = "send"
    /\ request' = [request EXCEPT ![o] = "sent"]
    /\ worker' = [worker EXCEPT ![o] = "returned"]
    /\ UNCHANGED <<cancelled, executing, finished, starter, canceller>>

(* The answer, which ends with finishOperation.                            *)
Answer(o) ==
    /\ request[o] = "sent" /\ LockFree(o)
    /\ request' = [request EXCEPT ![o] = "answered"]
    /\ FinishOperation(o)
    /\ UNCHANGED <<cancelled, starter, worker, canceller>>

(* cancel: under the lock, set isCancelled, then finish if executing.      *)
CancelBegins(o) ==
    /\ o \in Cancellable /\ canceller[o] = NotCalled
    /\ cancelled' = [cancelled EXCEPT ![o] = TRUE]
    /\ canceller' = [canceller EXCEPT ![o] = CancelTests]
    /\ UNCHANGED <<executing, finished, request, starter, worker>>

CancelTestsOnceMore(o) ==
    /\ canceller[o] # NotCalled /\ canceller[o] >= 0
    /\ \/ executing[o] /\ FinishOperation(o)
       \/ ~executing[o] /\ UNCHANGED <<executing, finished>>
    /\ canceller' = [canceller EXCEPT ![o] = @ - 1]
    /\ UNCHANGED <<cancelled, request, starter, worker>>

CancelTest(o) ==
    /\ canceller[o] \in 1..CancelTests
    /\ \/ executing[o] /\ FinishOperation(o)
       \/ ~executing[o] /\ UNCHANGED <<executing, finished>>
    /\ canceller' = [canceller EXCEPT ![o] = @ - 1]
    /\ UNCHANGED <<cancelled, request, starter, worker>>

StartStep(o) == \/ StartBegins(o)   \/ StartChecks(o) \/ StartSignals(o)
                \/ StartDetaches(o) \/ StartExecutes(o)
MainStep(o)  == MainChecks(o) \/ MainSends(o)

Next == \E o \in Ops : \/ StartStep(o) \/ MainStep(o) \/ Answer(o)
                       \/ CancelBegins(o) \/ CancelTest(o)

(* Threads run on and requests are answered; nobody has to cancel.         *)
Fairness == \A o \in Ops : /\ WF_vars(StartStep(o)) /\ WF_vars(MainStep(o))
                           /\ WF_vars(Answer(o))    /\ WF_vars(CancelTest(o))

Spec == Init /\ [][Next]_vars
FairSpec == Spec /\ Fairness

-----------------------------------------------------------------------------
(* An operation that no cancel overtakes gives its place in the queue back:*)
(* once start was called it is finished, whichever of start, main and the  *)
(* answer runs ahead of the others, or else it was cancelled.              *)
StartedEndsOrIsCancelled ==
    \A o \in Ops : HasStart(o) ~> finished[o] \/ cancelled[o]

(* A place in the queue is held until the answer came: the operation is    *)
(* not finished while its request is on its way, unless it was cancelled.  *)
PlaceIsHeldUntilAnswer ==
    \A o \in Ops : finished[o] /\ request[o] # "answered" => cancelled[o]

(* "If the operation is not canceled, begin executing the task": start     *)
(* never marks a cancelled operation as executing.  The mark comes after   *)
(* the test, without the lock; a cancel between the two finds nothing to   *)
(* finish, and main returns without finishing either, so the operation     *)
(* keeps its place in the queue for good.                                  *)
CancelledNeverBegins ==
    [][\A o \in Ops : ~executing[o] /\ executing'[o] => ~cancelled[o]]_vars
=============================================================================
