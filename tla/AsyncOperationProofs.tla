------------------------ MODULE AsyncOperationProofs ------------------------
(* Proofs about AsyncOperation, for every number of operations and limit.  *)
EXTENDS AsyncOperation, TLAPS

(* An operation is given up only after it was cancelled: by start, which   *)
(* signals completion when its own test found isCancelled, or by cancel,   *)
(* which sets isCancelled before it tests isExecuting.                     *)
GivenUpIsCancelled ==
    \A o \in Ops : /\ starter[o] = "signal" => cancelled[o]
                   /\ canceller[o] # NotCalled => cancelled[o]

(* main is called once and sends the request last.                         *)
SentOnce ==
    \A o \in Ops : /\ request[o] # "none" => worker[o] = "returned"
                   /\ worker[o] # "none" => starter[o] \in {"execute", "returned"}

PlaceInv == TypeOK /\ GivenUpIsCancelled /\ SentOnce /\ PlaceIsHeldUntilAnswer

(* What finishing one operation may change.                                *)
LEMMA FinishTypes ==
    ASSUME TypeOK, NEW o \in Ops
    PROVE  /\ SignComplete(o) => /\ executing' \in [Ops -> BOOLEAN]
                                 /\ finished' \in [Ops -> BOOLEAN]
                                 /\ \A p \in Ops \ {o} : finished'[p] = finished[p]
           /\ FinishOperation(o) => /\ executing' \in [Ops -> BOOLEAN]
                                    /\ finished' \in [Ops -> BOOLEAN]
                                    /\ \A p \in Ops \ {o} :
                                          finished'[p] = finished[p]
<1>1. SignComplete(o) => /\ executing' \in [Ops -> BOOLEAN]
                         /\ finished' \in [Ops -> BOOLEAN]
                         /\ \A p \in Ops \ {o} : finished'[p] = finished[p]
  BY DEF SignComplete, TypeOK
<1> QED
  BY <1>1 DEF FinishOperation, TypeOK

(* start: it signals completion only on its own account.                   *)
LEMMA PlaceStart ==
    ASSUME PlaceInv, NEW o \in Ops, StartStep(o)
    PROVE  PlaceInv'
<1> USE DEF PlaceInv, TypeOK, GivenUpIsCancelled, SentOnce,
           PlaceIsHeldUntilAnswer
<1>1. CASE StartBegins(o)
  BY <1>1 DEF StartBegins
<1>2. CASE StartChecks(o)
  BY <1>2 DEF StartChecks
<1>3. CASE StartSignals(o)
  BY <1>3, FinishTypes DEF StartSignals
<1>4. CASE StartDetaches(o)
  BY <1>4 DEF StartDetaches
<1>5. CASE StartExecutes(o)
  BY <1>5 DEF StartExecutes
<1> QED
  BY <1>1, <1>2, <1>3, <1>4, <1>5 DEF StartStep

(* main, the answer and cancel.                                            *)
LEMMA PlaceOther ==
    ASSUME PlaceInv, NEW o \in Ops,
           MainStep(o) \/ Answer(o) \/ CancelBegins(o) \/ CancelTest(o)
    PROVE  PlaceInv'
<1> USE DEF PlaceInv, TypeOK, GivenUpIsCancelled, SentOnce,
           PlaceIsHeldUntilAnswer
<1>1. CASE MainStep(o)
  <2>1. CASE MainChecks(o)
    BY <2>1 DEF MainChecks
  <2>2. CASE MainSends(o)
    BY <2>2 DEF MainSends
  <2> QED
    BY <1>1, <2>1, <2>2 DEF MainStep
<1>2. CASE Answer(o)
  BY <1>2, FinishTypes DEF Answer
<1>3. CASE CancelBegins(o)
  <2>1. CancelTests \in 0..NotCalled
    BY OperationAssumption DEF NotCalled
  <2> QED
    BY <1>3, <2>1 DEF CancelBegins
<1>4. CASE CancelTest(o)
  <2>1. /\ canceller'[o] \in 0..NotCalled /\ cancelled[o]
        /\ \A p \in Ops \ {o} : canceller'[p] = canceller[p]
    BY <1>4, OperationAssumption DEF CancelTest, NotCalled
  <2> QED
    BY <1>4, <2>1, FinishTypes DEF CancelTest
<1> QED
  BY <1>1, <1>2, <1>3, <1>4

(* PlaceInv is inductive.                                                  *)
LEMMA PlaceStep == PlaceInv /\ [Next]_vars => PlaceInv'
<1> SUFFICES ASSUME PlaceInv, [Next]_vars PROVE PlaceInv'
  OBVIOUS
<1>1. CASE UNCHANGED vars
  BY <1>1 DEF vars, PlaceInv, TypeOK, GivenUpIsCancelled, SentOnce,
     PlaceIsHeldUntilAnswer
<1> QED
  BY <1>1, PlaceStart, PlaceOther DEF Next

(* Nothing is cancelled, finished or under way at first.                   *)
LEMMA PlaceInit == Init => PlaceInv
BY OperationAssumption DEF Init, PlaceInv, TypeOK, GivenUpIsCancelled, SentOnce,
   PlaceIsHeldUntilAnswer, NotCalled

(* However start, main, cancel and the answer interleave, an operation     *)
(* that was not cancelled keeps its place in the queue until the answer to *)
(* its request came: the queue never runs more requests than its limit     *)
(* because one of them was taken for finished.                             *)
THEOREM PlaceIsKept == Spec => [](TypeOK /\ PlaceIsHeldUntilAnswer)
<1>1. PlaceInv => TypeOK /\ PlaceIsHeldUntilAnswer
  BY DEF PlaceInv
<1> QED
  BY <1>1, PlaceInit, PlaceStep, PTL DEF Spec

(* Every flag of an operation keeps its type, whoever of its starter, its  *)
(* worker and its canceller comes first.                                   *)
THEOREM OperationTypeCorrect == Spec => []TypeOK
<1>1. TypeOK /\ PlaceIsHeldUntilAnswer => TypeOK
  OBVIOUS
<1> QED
  BY <1>1, PlaceIsKept, PTL
=============================================================================
