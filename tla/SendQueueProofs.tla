--------------------------- MODULE SendQueueProofs ---------------------------
(***************************************************************************)
(* What the sending half of SendQueue promises of one connection, for      *)
(* every set of messages: as long as the main thread has not disturbed a   *)
(* block, it is the MessageStream of the messages meant for it, and the    *)
(* queue of operations is never stuck.                                     *)
(***************************************************************************)
EXTENDS SendQueue, SequenceTheorems, TLAPS

-----------------------------------------------------------------------------
(* The conditions.                                                         *)

OneConnection == \A s, t \in Sockets : s = t

(* The app sends only while it believes to be connected.                   *)
AlwaysOnline == "offline" \notin Allowed

(* A file that is missing or empty is never finished.                      *)
FilesExist == \A m \in Messages : Kind[m] = "file" => Packets[m] > 0

(* A request to cancel is answered with a message of its own.              *)
AnswersAreOwn ==
    \A m, n \in Messages : Answer[m] = Answer[n] /\ Answer[m] # NoMsg => m = n

SendsInOrder ==
    OneConnection /\ AlwaysOnline /\ FilesExist /\ AnswersAreOwn

-----------------------------------------------------------------------------
(* The inductive invariant.                                                *)

Due(m) == pc[m] \notin {"none", "over"}
Calm == \A a \in Actors : act[a].at = "idle"

(* The queue holds the operations that are not over, each once, and none   *)
(* but the first is executing.                                             *)
QueueInv ==
    /\ \A i, j \in DOMAIN queue : queue[i] = queue[j] => i = j
    /\ \A i \in DOMAIN queue : op[queue[i]] \in {"queued", "executing"}
    /\ \A m \in Messages : op[m] = "queued" => m \in ToSet(queue)
    /\ \A m \in Messages :
          op[m] = "executing" => queue # << >> /\ Head(queue) = m
    /\ \A m \in isCancelled : op[m] = "finished"
    /\ \A m \in Answers :
          op[m] # "unsent" => \E n \in withdrawn : Answer[n] = m

(* A block runs while its operation is executing.                          *)
BlockInv ==
    \A m \in Messages :
        /\ op[m] \in {"unsent", "queued"} => pc[m] = "none"
        /\ op[m] = "executing" => pc[m] # "none"
        /\ Due(m) => op[m] = "executing"

(* The current task is the one of the executing operation, or of one that  *)
(* was withdrawn.                                                          *)
CurrentInv ==
    \A m \in Messages :
        /\ current = m => pc[m] \notin {"none", "create"}
        /\ current = m /\ op[m] # "executing" => m \in withdrawn
        /\ op[m] = "executing" /\ pc[m] # "create" => current = m

(* One actor at a time is in sendBodyMessage, with the current task.       *)
ActInv ==
    /\ \A a, b \in Actors : act[a].at # "idle" /\ act[b].at # "idle" => a = b
    /\ \A a \in Actors : act[a].at # "idle" =>
          /\ act[a].task = current /\ current # NoMsg
          /\ act[a].sock \in Sockets
          /\ a # Main => pc[a] = "send"
    /\ act[Main].at # "idle" =>
          \A m \in Messages : Due(m) => pc[m] = "create"

(* The task of m, off packets of which were cut and index written.         *)
Made(m, off, index) ==
    /\ task[m].kind = Kind[m] /\ task[m].data = m /\ task[m].key = m
    /\ task[m].off = off /\ task[m].index = index
    /\ task[m].done <=> off > 0 /\ off = Packets[m]

(* A task is as far as its block, or as sendBodyMessage, has come with it. *)
TaskInv ==
    /\ \A m \in Messages :
          /\ pc[m] \in {"none", "create", "kind"} => task[m] = NoTask
          /\ pc[m] \in {"data", "key"} =>
                /\ task[m].kind = Kind[m] /\ ~task[m].done
                /\ task[m].off = 0 /\ task[m].index = 0
          /\ pc[m] = "key" => task[m].data = m
          /\ pc[m] = "send" /\ act[m].at = "idle" => Made(m, 0, 0)
          /\ pc[m] = "over" /\ current = m /\ act[Main].at = "idle" =>
                /\ Made(m, task[m].index, task[m].index)
                /\ task[m].index < Packets[m]
    /\ \A a \in Actors : LET x == act[a] IN
          /\ x.at = "cut" => Made(x.task, x.off, x.off)
          /\ x.at = "write" => Made(x.task, x.off + 1, x.off)
          /\ x.at \in {"cut", "write"} => x.off < Packets[x.task]
          /\ x.at = "finish" => Made(x.task, Packets[x.task], Packets[x.task])

Cells == [key : Messages, index : Nat, of : Messages, part : Nat]

(* The message sent last on s is neither complete nor withdrawn.           *)
IsOpen(s) ==
    /\ wire[s] # << >>
    /\ Last(wire[s]).of \notin withdrawn
    /\ Last(wire[s]).part + 1 # Packets[Last(wire[s]).of]

(* The last packet of s is the one before packet index of m.               *)
Precedes(s, m) ==
    /\ wire[s] # << >>
    /\ Last(wire[s]).of = m
    /\ Last(wire[s]).part + 1 = task[m].index

(* Something will go on with the current task over s.                      *)
IsGoingOn(s) == pend[s] > 0 \/ \E a \in Actors : act[a].at \in {"cut", "write"}

WireInv ==
    /\ wire \in [Sockets -> Seq(Cells)]
    /\ \A m \in begun : task[m].index > 0
    /\ \A s \in Sockets :
          /\ link[s] # "up" => wire[s] = << >>
          /\ IsOpen(s) =>
                /\ current \in Messages
                /\ op[current] = "executing" /\ Precedes(s, current)
          /\ link[s] = "up" /\ IsGoingOn(s) =>
                \A m \in Messages : current = m /\ task[m].index > 0 =>
                    Precedes(s, m) /\ m \in begun

(* A connection that is down has nothing left to do.                       *)
DownInv ==
    \A s \in Sockets :
        link[s] = "down" => queue = << >> /\ pend[s] = 0 /\ Calm

(* A packet of the executing operation is to be reported written.          *)
FollowInv ==
    \A m \in Messages, s \in Sockets :
        op[m] = "executing" /\ pc[m] = "over" /\ Calm /\ link[s] = "up" =>
            pend[s] > 0

SendInv ==
    /\ TypeOK
    /\ QueueInv
    /\ BlockInv
    /\ CurrentInv
    /\ ActInv
    /\ TaskInv
    /\ WireInv
    /\ DownInv
    /\ FollowInv

-----------------------------------------------------------------------------
(* Sequences.                                                              *)

(* A sequence without one of its elements.                                 *)
LEMMA RemoveAtType ==
    ASSUME NEW S, NEW q \in Seq(S), NEW i \in 1..Len(q)
    PROVE  RemoveAt(q, i) \in Seq(S)
<1>1. Len(q) \in Nat /\ \A j \in 1..Len(q) : q[j] \in S
  BY LenProperties, ElementOfSeq
<1>2. SubSeq(q, 1, i - 1) \in Seq(S) /\ SubSeq(q, i + 1, Len(q)) \in Seq(S)
  BY <1>1, SubSeqProperties
<1> QED
  BY <1>2, ConcatProperties DEF RemoveAt

LEMMA WithoutType ==
    ASSUME queue \in Seq(Messages), NEW m
    PROVE  Without(m) \in Seq(Messages)
<1>1. CASE m \in ToSet(queue)
  <2> DEFINE i == CHOOSE k \in DOMAIN queue : queue[k] = m
  <2>1. i \in DOMAIN queue
    BY <1>1 DEF ToSet
  <2>2. DOMAIN queue = 1..Len(queue)
    BY LenProperties
  <2> HIDE DEF i
  <2>3. RemoveAt(queue, i) \in Seq(Messages)
    BY <2>1, <2>2, RemoveAtType
  <2> QED
    BY <1>1, <2>3 DEF Without, i
<1>2. CASE m \notin ToSet(queue)
  BY <1>2 DEF Without
<1> QED
  BY <1>1, <1>2

(* Without its first element a queue is its tail.                          *)
LEMMA WithoutHead ==
    ASSUME queue \in Seq(Messages), queue # << >>,
           \A i, j \in DOMAIN queue : queue[i] = queue[j] => i = j
    PROVE  Without(Head(queue)) = Tail(queue)
<1>1. Len(queue) \in Nat /\ DOMAIN queue = 1..Len(queue) /\ Len(queue) # 0
  BY LenProperties, EmptySeq
<1>2. 1 \in DOMAIN queue /\ queue[1] = Head(queue)
  BY <1>1, HeadTailProperties
<1> DEFINE i == CHOOSE k \in DOMAIN queue : queue[k] = Head(queue)
<1>3. i \in DOMAIN queue /\ queue[i] = Head(queue)
  BY <1>2
<1> HIDE DEF i
<1>4. i = 1
  BY <1>2, <1>3
<1>5. Without(Head(queue)) = RemoveAt(queue, 1)
  BY <1>2, <1>4 DEF Without, ToSet, i
<1>6. SubSeq(queue, 1, 1 - 1) = << >>
  BY <1>1, SubSeqEmpty
<1>7. SubSeq(queue, 1 + 1, Len(queue)) = Tail(queue)
  BY <1>1, TailIsSubSeq
<1>8. Tail(queue) \in Seq(Messages)
  BY HeadTailProperties
<1> QED
  BY <1>5, <1>6, <1>7, <1>8, ConcatEmptySeq DEF RemoveAt

-----------------------------------------------------------------------------
(* Type correctness.                                                       *)

Tasks == [kind : {"direct", "file"}, data : Messages \cup {NoMsg},
          key : Messages \cup {NoMsg}, off : Nat, index : Nat, done : BOOLEAN]

Acts == [at : {"idle", "cut", "write", "finish"},
         task : Messages \cup {NoMsg},
         sock : Sockets \cup {NoMsg}, off : Nat]

LEMMA TypeParts ==
    TypeOK <=>
        /\ op \in [Messages -> {"unsent", "queued", "executing", "finished"}]
        /\ queue \in Seq(Messages)
        /\ isCancelled \subseteq Messages
        /\ pc \in [Messages -> Places]
        /\ current \in Messages \cup {NoMsg}
        /\ task \in [Messages -> Tasks]
        /\ act \in [Actors -> Acts]
        /\ pend \in [Sockets -> Nat]
        /\ link \in [Sockets -> {"up", "broken", "down"}]
        /\ withdrawn \subseteq Messages
        /\ begun \subseteq Messages
        /\ disturbed \subseteq Messages
        /\ breaks \in 0..MaxBreaks
BY DEF TypeOK, Tasks, Acts

(* What a sequence holds.                                                  *)
LEMMA QueueElements ==
    ASSUME queue \in Seq(Messages)
    PROVE  ToSet(queue) \subseteq Messages
BY ElementOfSeq, LenProperties DEF ToSet

(* A packet is cut from data that is there.                                *)
DataIsThere ==
    \A a \in Actors : act[a].at \in {"cut", "write"} =>
        act[a].task \in Messages /\ task[act[a].task].data \in Messages

LEMMA TaskUpdates ==
    ASSUME NEW t \in Tasks, NEW i \in Nat, NEW b \in BOOLEAN
    PROVE  /\ [t EXCEPT !.index = @ + 1] \in Tasks
           /\ [t EXCEPT !.off = i, !.done = b] \in Tasks
<1>1. [t EXCEPT !.index = @ + 1] \in Tasks
  BY DEF Tasks
<1>2. [t EXCEPT !.off = i, !.done = b] \in Tasks
  BY DEF Tasks
<1> QED
  BY <1>1, <1>2

LEMMA BodyType ==
    ASSUME TypeOK, NEW a, NEW s \in Sockets
    PROVE  BodyOf(a, s) \in Acts
<1>1. Idle \in Acts
  BY DEF Idle, Acts
<1>2. CASE current \in Messages
  <2>1. task[current].off \in Nat
    BY <1>2, TypeParts DEF Tasks
  <2> DEFINE b(at) == [at |-> at, task |-> current, sock |-> s,
                       off |-> task[current].off]
  <2>2. b("cut") \in Acts /\ b("finish") \in Acts
    BY <1>2, <2>1 DEF Acts
  <2>3. BodyOf(a, s) \in {Idle, b("cut"), b("finish")}
    BY DEF BodyOf
  <2> QED
    BY <1>1, <2>2, <2>3
<1>3. CASE current = NoMsg
  BY <1>1, <1>3 DEF BodyOf
<1> QED
  BY <1>2, <1>3, TypeParts

LEMMA ReturnType ==
    ASSUME TypeOK, NEW a \in Actors, NEW place \in {"idle", "finish"},
           Return(a, place)
    PROVE  act' \in [Actors -> Acts] /\ pc' \in [Messages -> Places]
<1>1. Idle \in Acts /\ [act[a] EXCEPT !.at = place] \in Acts
  BY TypeParts DEF Idle, Acts
<1>2. act' \in [Actors -> Acts]
  BY <1>1, TypeParts DEF Return
<1>3. pc' \in [Messages -> Places]
  BY TypeParts DEF Return, Places
<1> QED
  BY <1>2, <1>3

LEMMA SetTaskType ==
    ASSUME TypeOK, NEW m \in Messages, NEW t \in Tasks, NEW place \in Places,
           task' = IF current = NoMsg THEN task
                   ELSE [task EXCEPT ![current] = t],
           pc' = [pc EXCEPT ![m] = place], DisturbIfMainIsBusy(m),
           UNCHANGED <<queueVars, current, act, netVars, history, withdrawn>>
    PROVE  TypeOK'
<1>1. task' \in [Messages -> Tasks] /\ pc' \in [Messages -> Places]
  BY TypeParts
<1> QED
  BY <1>1, TypeParts DEF TypeOK, Tasks, Acts, DisturbIfMainIsBusy, Disturb,
                         queueVars, netVars, history

LEMMA TypeStep == TypeOK /\ DataIsThere /\ [Next]_vars => TypeOK'
<1> SUFFICES ASSUME TypeOK, DataIsThere, [Next]_vars PROVE TypeOK'
  OBVIOUS
<1> DEFINE Shape ==
      /\ op \in [Messages -> {"unsent", "queued", "executing", "finished"}]
      /\ queue \in Seq(Messages)
      /\ isCancelled \subseteq Messages
      /\ pc \in [Messages -> Places]
      /\ current \in Messages \cup {NoMsg}
      /\ task \in [Messages -> Tasks]
      /\ act \in [Actors -> Acts]
      /\ pend \in [Sockets -> Nat]
      /\ link \in [Sockets -> {"up", "broken", "down"}]
      /\ withdrawn \subseteq Messages
      /\ begun \subseteq Messages
      /\ disturbed \subseteq Messages
      /\ breaks \in 0..MaxBreaks
<1>shape. Shape' => TypeOK'
  BY DEF TypeOK, Tasks, Acts
<1>t. Shape
  BY TypeParts
<1> USE <1>t
<1>q. ToSet(queue) \subseteq Messages
  BY QueueElements
<1>d. \A a \in Actors : act[a].at \in {"cut", "write"} =>
         act[a].task \in Messages /\ task[act[a].task].data \in Messages
  BY DEF DataIsThere
<1>c. SendAssumption
  BY SendAssumption DEF SendAssumption
<1>1. ASSUME UNCHANGED vars PROVE TypeOK'
  BY <1>1, <1>shape DEF vars, queueVars, taskVars, netVars, history
<1>2. CASE StartOperation
  <2>1. Head(queue) \in Messages
    BY <1>2, HeadTailProperties DEF StartOperation
  <2> QED
    BY <1>2, <2>1, <1>shape
    DEF StartOperation, Places, taskVars, netVars, history
<1>3. ASSUME NEW m \in Messages, Send(m) PROVE TypeOK'
  <2>1. queue' \in Seq(Messages)
    BY <1>3, AppendProperties DEF Send, Enqueue
  <2> QED
    BY <1>3, <2>1, <1>shape DEF Send, Enqueue, taskVars, netVars, history
<1>4. ASSUME NEW m \in Messages, Create(m) PROVE TypeOK'
  BY <1>4, <1>shape DEF Create, DisturbIfMainIsBusy, Disturb, Places,
                        queueVars, netVars, history
<1>5. ASSUME NEW m \in Messages, SetKind(m) PROVE TypeOK'
  <2>1. CASE current \in Messages
    <3> DEFINE t == [task[current] EXCEPT !.kind = Kind[m], !.done = FALSE]
    <3>0. task[current] \in Tasks
      BY <2>1
    <3>1. t \in Tasks
      BY <3>0, <1>c DEF Tasks, SendAssumption
    <3> QED
      BY <1>5, <3>1, SetTaskType DEF SetKind, SetTask, Places
  <2>2. CASE current = NoMsg
    BY <1>5, <2>2, <1>shape
    DEF SetKind, SetTask, DisturbIfMainIsBusy, Disturb, Places, queueVars,
        netVars, history
  <2> QED
    BY <2>1, <2>2
<1>6. ASSUME NEW m \in Messages, SetData(m) PROVE TypeOK'
  <2>1. CASE current \in Messages
    <3> DEFINE t == IF Kind[m] = "file" /\ Packets[m] = 0 THEN task[current]
                    ELSE [task[current] EXCEPT !.data = m]
    <3>0. task[current] \in Tasks
      BY <2>1
    <3>1. t \in Tasks
      BY <3>0 DEF Tasks
    <3> QED
      BY <1>6, <3>1, SetTaskType DEF SetData, SetTask, Places
  <2>2. CASE current = NoMsg
    BY <1>6, <2>2, <1>shape
    DEF SetData, SetTask, DisturbIfMainIsBusy, Disturb, Places, queueVars,
        netVars, history
  <2> QED
    BY <2>1, <2>2
<1>7. ASSUME NEW m \in Messages, SetKey(m) PROVE TypeOK'
  <2>1. CASE current \in Messages
    <3> DEFINE t == [task[current] EXCEPT !.key = m]
    <3>0. task[current] \in Tasks
      BY <2>1
    <3>1. t \in Tasks
      BY <3>0 DEF Tasks
    <3> QED
      BY <1>7, <3>1, SetTaskType DEF SetKey, SetTask, Places
  <2>2. CASE current = NoMsg
    BY <1>7, <2>2, <1>shape
    DEF SetKey, SetTask, DisturbIfMainIsBusy, Disturb, Places, queueVars,
        netVars, history
  <2> QED
    BY <2>1, <2>2
<1>8. ASSUME NEW m \in Messages, SendFirst(m) PROVE TypeOK'
  <2>1. Dest[m] \in Sockets
    BY <1>c DEF SendAssumption
  <2>2. BodyOf(m, Dest[m]) \in Acts
    BY <2>1, BodyType
  <2> QED
    BY <1>8, <2>2, <1>shape
    DEF SendFirst, DisturbIfMainIsBusy, Disturb, Places, queueVars, taskVars,
        netVars, history
<1>9. ASSUME NEW s \in Sockets, DidWrite(s) PROVE TypeOK'
  <2>1. BodyOf(Main, s) \in Acts
    BY BodyType
  <2>2. act' \in [Actors -> Acts]
    BY <1>9, <2>1 DEF DidWrite
  <2>3. pend' \in [Sockets -> Nat]
    <3>1. pend[s] \in Nat /\ pend[s] > 0
      BY <1>9 DEF DidWrite
    <3>2. pend[s] - 1 \in Nat
      BY <3>1
    <3> QED
      BY <1>9, <3>2 DEF DidWrite
  <2> QED
    BY <1>9, <2>2, <2>3, <1>shape
    DEF DidWrite, Disturb, HalfMade, DueBlocks, queueVars, taskVars, history
<1>10. ASSUME NEW a \in Actors, CutBody(a) PROVE TypeOK'
  <2> DEFINE x == act[a]
  <2>1. act[a] \in Acts
    BY DEF Acts
  <2>2. x.off + 1 \in Nat /\ x.task \in Messages \cup {NoMsg}
    BY <2>1 DEF Acts
  <2>3. task' \in [Messages -> Tasks]
    <3>0. task[x.task] \in Tasks
      BY <1>d, <1>10 DEF CutBody
    <3> DEFINE b == task[x.task].done
                    \/ x.off + 1 = Packets[task[x.task].data]
               r == [task[x.task] EXCEPT !.off = x.off + 1, !.done = b]
    <3>b. b \in BOOLEAN
      BY <3>0 DEF Tasks
    <3>1. r \in Tasks
      <4> HIDE DEF b
      <4> QED
        BY <3>0, <3>b, <2>2, TaskUpdates
    <3>2. task' = [task EXCEPT ![x.task] = r]
      BY <1>10, Zenon DEF CutBody
    <3> HIDE DEF r
    <3> QED
      BY <3>1, <3>2
  <2>4. act' \in [Actors -> Acts]
    BY <1>10, <2>1 DEF CutBody, Acts
  <2> QED
    BY <1>10, <2>3, <2>4, <1>shape DEF CutBody, queueVars, netVars, history
<1>11. ASSUME NEW a \in Actors, WriteCell(a) PROVE TypeOK'
  <2> DEFINE x == act[a]
  <2>1. task' \in [Messages -> Tasks]
    <3>0. task[x.task] \in Tasks
      BY <1>d, <1>11 DEF WriteCell
    <3> DEFINE r == [task[x.task] EXCEPT !.index = @ + 1]
    <3>1. r \in Tasks
      BY <3>0, TaskUpdates
    <3>2. task' = [task EXCEPT ![x.task] = r]
      BY <1>11 DEF WriteCell
    <3> HIDE DEF r
    <3> QED
      BY <3>1, <3>2
  <2>2. act' \in [Actors -> Acts] /\ pc' \in [Messages -> Places]
    BY <1>11, ReturnType DEF WriteCell
  <2>3. pend' \in [Sockets -> Nat]
    <3>1. CASE UNCHANGED pend
      BY <3>1
    <3>2. CASE pend' = [pend EXCEPT ![x.sock] = @ + 1]
      <4>1. \A s \in Sockets : pend'[s] \in Nat
        BY <3>2
      <4>2. pend' = [s \in Sockets |-> pend'[s]]
        BY <3>2
      <4> QED
        BY <4>1, <4>2
    <3> QED
      BY <1>11, <3>1, <3>2 DEF WriteCell
  <2>4. begun' \subseteq Messages
    <3>1. begun' = begun \/ begun' = begun \cup {task[x.task].data}
      BY <1>11 DEF WriteCell
    <3>2. task[x.task].data \in Messages
      BY <1>d, <1>11 DEF WriteCell
    <3> QED
      BY <3>1, <3>2
  <2> QED
    BY <1>11, <2>1, <2>2, <2>3, <2>4, <1>shape DEF WriteCell, queueVars
<1>12. ASSUME NEW a \in Actors, FinishTask(a) PROVE TypeOK'
  <2>1. act' \in [Actors -> Acts] /\ pc' \in [Messages -> Places]
    BY <1>12, ReturnType DEF FinishTask
  <2>2. queue' \in Seq(Messages)
    BY <1>12, WithoutType DEF FinishTask, Finish
  <2>3. op' \in [Messages -> {"unsent", "queued", "executing", "finished"}]
    BY <1>12 DEF FinishTask, Finish
  <2> QED
    BY <1>12, <2>1, <2>2, <2>3, <1>shape DEF FinishTask, netVars, history
<1>13. ASSUME NEW m \in Messages, CancelSendingTask(m) PROVE TypeOK'
  <2> DEFINE answers == (current # NoMsg /\ task[current].key = m)
                        /\ Answer[m] # NoMsg
             rest == IF op[m] = "executing" THEN Without(m) ELSE queue
             new == IF answers THEN <<Answer[m]>> ELSE << >>
  <2>1. queue' = rest \o new
    BY <1>13 DEF CancelSendingTask
  <2>2. rest \in Seq(Messages)
    BY WithoutType
  <2>3. new \in Seq(Messages)
    BY <1>c DEF SendAssumption
  <2>4. queue' \in Seq(Messages)
    BY <2>1, <2>2, <2>3, ConcatProperties
  <2>5. op' \in [Messages -> {"unsent", "queued", "executing", "finished"}]
    BY <1>13 DEF CancelSendingTask
  <2> QED
    BY <1>13, <2>4, <2>5, <1>shape
    DEF CancelSendingTask, Disturb, DueBlocks, netVars, history
<1>14. ASSUME CancelAll
       PROVE  /\ op' \in [Messages -> {"unsent", "queued", "executing",
                                       "finished"}]
              /\ queue' \in Seq(Messages)
              /\ isCancelled' \subseteq Messages
              /\ withdrawn' \subseteq Messages
  BY <1>14, <1>q, EmptySeq DEF CancelAll
<1>15. CASE CancelSendingAll
  BY <1>15, <1>14, <1>shape
  DEF CancelSendingAll, Disturb, DueBlocks, taskVars, netVars, history
<1>16. ASSUME NEW s \in Sockets, Break(s) PROVE TypeOK'
  BY <1>16, <1>c, <1>shape DEF Break, queueVars, taskVars, SendAssumption
<1>17. ASSUME NEW s \in Sockets, DidDisconnect(s) PROVE TypeOK'
  BY <1>17, <1>14, <1>shape
  DEF DidDisconnect, Disturb, DueBlocks, taskVars, history
<1>18. ASSUME NEW s \in Sockets, DidConnect(s) PROVE TypeOK'
  BY <1>18, <1>shape DEF DidConnect, queueVars, taskVars, history
<1> QED
  BY <1>1, <1>2, <1>3, <1>4, <1>5, <1>6, <1>7, <1>8, <1>9, <1>10, <1>11, <1>12,
     <1>13, <1>15, <1>16, <1>17, <1>18 DEF Next, Block, SendBody

LEMMA DataStep == TypeOK /\ DataIsThere /\ [Next]_vars => DataIsThere'
<1> SUFFICES ASSUME TypeOK, DataIsThere, [Next]_vars,
                    NEW b \in Actors, act[b].at' \in {"cut", "write"}
             PROVE  act[b].task' \in Messages
                    /\ task[act[b].task].data' \in Messages
  BY DEF DataIsThere
<1> DEFINE n == act[b].task
           Kept == act[b].task' \in Messages
                   /\ task[act[b].task].data' \in Messages
<1>t. /\ task \in [Messages -> Tasks] /\ act \in [Actors -> Acts]
      /\ current \in Messages \cup {NoMsg}
      /\ \A m \in Messages : task[m].data \in Messages \cup {NoMsg}
  BY TypeParts DEF Tasks
<1>d. \A a \in Actors : act[a].at \in {"cut", "write"} =>
         act[a].task \in Messages /\ task[act[a].task].data \in Messages
  BY DEF DataIsThere
(* A task that is sent keeps its data.                                     *)
<1>k. ASSUME UNCHANGED act, \A m \in Messages :
                 task[m].data \in Messages => task'[m].data \in Messages
      PROVE  Kept
  BY <1>d, <1>k
<1>s. ASSUME NEW m \in Messages, NEW t, NEW place,
             task' = IF current = NoMsg THEN task
                     ELSE [task EXCEPT ![current] = t],
             current # NoMsg => t.data \in {task[current].data, m},
             UNCHANGED act
      PROVE  Kept
  BY <1>k, <1>s, <1>t
<1>1. ASSUME UNCHANGED <<task, act>> PROVE Kept
  BY <1>k, <1>1
<1>2. CASE StartOperation
  BY <1>1, <1>2 DEF StartOperation, taskVars
<1>3. ASSUME NEW m \in Messages, Send(m) PROVE Kept
  BY <1>1, <1>3 DEF Send, taskVars
<1>4. ASSUME NEW m \in Messages, Create(m) PROVE Kept
  BY <1>1, <1>4 DEF Create
<1>5. ASSUME NEW m \in Messages, SetKind(m) PROVE Kept
  <2> DEFINE t == [task[current] EXCEPT !.kind = Kind[m], !.done = FALSE]
  <2>1. current # NoMsg => t.data = task[current].data
    BY <1>t DEF Tasks
  <2> QED
    BY <1>s, <1>5, <2>1 DEF SetKind, SetTask
<1>6. ASSUME NEW m \in Messages, SetData(m) PROVE Kept
  <2> DEFINE t == IF Kind[m] = "file" /\ Packets[m] = 0 THEN task[current]
                  ELSE [task[current] EXCEPT !.data = m]
  <2>1. current # NoMsg => t.data \in {task[current].data, m}
    BY <1>t DEF Tasks
  <2> QED
    BY <1>s, <1>6, <2>1 DEF SetData, SetTask
<1>7. ASSUME NEW m \in Messages, SetKey(m) PROVE Kept
  <2> DEFINE t == [task[current] EXCEPT !.key = m]
  <2>1. current # NoMsg => t.data = task[current].data
    BY <1>t DEF Tasks
  <2> QED
    BY <1>s, <1>7, <2>1 DEF SetKey, SetTask
(* sendBodyMessage begins where there is more to send.                     *)
<1>b. ASSUME NEW a \in Actors, NEW s, act' = [act EXCEPT ![a] = BodyOf(a, s)],
             UNCHANGED task
      PROVE  Kept
  <2>1. CASE b # a
    BY <1>b, <1>d, <1>t, <2>1
  <2>2. CASE b = a
    <3>1. act'[b] = BodyOf(a, s)
      BY <1>b, <1>t, <2>2
    <3>2. BodyOf(a, s).at \in {"cut", "write"} =>
             current # NoMsg /\ HasMore(task[current])
             /\ BodyOf(a, s).task = current
      BY DEF BodyOf, Idle
    <3> QED
      BY <1>b, <1>t, <3>1, <3>2 DEF HasMore
  <2> QED
    BY <2>1, <2>2
<1>8. ASSUME NEW m \in Messages, SendFirst(m) PROVE Kept
  BY <1>b, <1>8 DEF SendFirst, taskVars, Actors
<1>9. ASSUME NEW s \in Sockets, DidWrite(s) PROVE Kept
  BY <1>b, <1>9 DEF DidWrite, taskVars, Actors
<1>10. ASSUME NEW a \in Actors, CutBody(a) PROVE Kept
  <2>1. act'[b].task = act[b].task /\ act[b].at \in {"cut", "write"}
    BY <1>10, <1>t DEF CutBody, Acts
  <2>2. \A m \in Messages : task'[m].data = task[m].data
    BY <1>10, <1>t DEF CutBody, Tasks
  <2> QED
    BY <1>d, <2>1, <2>2
<1>11. ASSUME NEW a \in Actors, WriteCell(a) PROVE Kept
  <2>1. act'[b] = act[b]
    BY <1>11, <1>t DEF WriteCell, Return, Acts, Idle
  <2>2. \A m \in Messages : task'[m].data = task[m].data
    BY <1>11, <1>t DEF WriteCell, Tasks
  <2> QED
    BY <1>d, <2>1, <2>2
<1>12. ASSUME NEW a \in Actors, FinishTask(a) PROVE Kept
  <2>1. act'[b] = act[b]
    BY <1>12, <1>t DEF FinishTask, Return, Acts, Idle
  <2> QED
    BY <1>d, <1>12, <2>1 DEF FinishTask
<1>13. ASSUME NEW m \in Messages, CancelSendingTask(m) PROVE Kept
  BY <1>1, <1>13 DEF CancelSendingTask
<1>14. CASE CancelSendingAll
  BY <1>1, <1>14 DEF CancelSendingAll, taskVars
<1>15. ASSUME NEW s \in Sockets, Break(s) \/ DidDisconnect(s) \/ DidConnect(s)
       PROVE  Kept
  BY <1>1, <1>15 DEF Break, DidDisconnect, DidConnect, taskVars
<1>16. CASE UNCHANGED vars
  BY <1>1, <1>16 DEF vars, taskVars
<1> QED
  BY <1>2, <1>3, <1>4, <1>5, <1>6, <1>7, <1>8, <1>9, <1>10, <1>11, <1>12,
     <1>13, <1>14, <1>15, <1>16 DEF Next, Block, SendBody

(* Every variable of the sending half keeps its type, however its steps    *)
(* interleave: a packet is only cut from data the task has.                *)
THEOREM SendTypeCorrect == Spec => []TypeOK
<1>1. Init => TypeOK /\ DataIsThere
  BY SendAssumption, EmptySeq
  DEF Init, TypeOK, DataIsThere, SendAssumption, NoTask, Idle, Places
<1>2. TypeOK /\ DataIsThere /\ [Next]_vars => (TypeOK /\ DataIsThere)'
  BY TypeStep, DataStep
<1> QED
  BY <1>1, <1>2, PTL DEF Spec

-----------------------------------------------------------------------------
(* Who is where.                                                           *)

LEMMA Names ==
    /\ NoMsg \notin Messages /\ Main \notin Messages
    /\ Main \in Actors /\ Messages \subseteq Actors
    /\ \A a \in Actors : a # Main => a \in Messages
BY SendAssumption DEF SendAssumption, NoMsg, Main, Actors

LEMMA OneExecuting ==
    ASSUME QueueInv, NEW m \in Messages, NEW n \in Messages,
           op[m] = "executing", op[n] = "executing"
    PROVE  m = n
BY DEF QueueInv

(* The main thread is free, and no task is half made: nobody is in         *)
(* sendBodyMessage, and the executing operation has sent its first packet  *)
(* or has not made its task yet.                                           *)
LEMMA FreeFacts ==
    ASSUME SendInv, MainIsFree, HalfMade = {}
    PROVE  /\ Calm
           /\ \A m \in Messages : Due(m) => pc[m] = "create"
           /\ \A m \in Messages : op[m] = "executing" =>
                 pc[m] = "create" \/ (pc[m] = "over" /\ current = m)
           /\ \A m \in Messages : current = m =>
                 /\ pc[m] = "over"
                 /\ Made(m, task[m].index, task[m].index)
                 /\ task[m].index < Packets[m]
<1>1. \A m \in Messages : Due(m) => pc[m] = "create"
  BY DEF HalfMade, DueBlocks, Due
<1>2. Calm
  BY <1>1, Names DEF SendInv, ActInv, MainIsFree, Calm, Due
<1>3. \A m \in Messages : op[m] = "executing" =>
          pc[m] = "create" \/ (pc[m] = "over" /\ current = m)
  BY <1>1 DEF SendInv, BlockInv, CurrentInv, Due
<1>4. \A m \in Messages : current = m => pc[m] = "over"
  BY <1>1 DEF SendInv, CurrentInv, Due
<1>5. \A m \in Messages : current = m =>
          Made(m, task[m].index, task[m].index) /\ task[m].index < Packets[m]
  BY <1>4 DEF SendInv, TaskInv, MainIsFree
<1> QED
  BY <1>1, <1>2, <1>3, <1>4, <1>5

(* The same when no block has begun that is not over.                      *)
LEMMA QuietFacts ==
    ASSUME SendInv, MainIsFree, DueBlocks = {}
    PROVE  /\ Calm
           /\ \A m \in Messages : ~Due(m)
           /\ \A m \in Messages :
                 op[m] = "executing" => pc[m] = "over" /\ current = m
           /\ \A m \in Messages :
                 current = m => Made(m, task[m].index, task[m].index)
<1>1. HalfMade = {} /\ \A m \in Messages : ~Due(m)
  BY DEF HalfMade, DueBlocks, Due
<1> QED
  BY <1>1, FreeFacts DEF Due

(* A step that leaves nobody disturbed disturbs nobody.                    *)
LEMMA NoneDisturbed ==
    ASSUME NEW S, Disturb(S), disturbed' = {}
    PROVE  S = {}
BY DEF Disturb

LEMMA BlockIsAlone ==
    ASSUME NEW m, DisturbIfMainIsBusy(m), disturbed' = {}
    PROVE  MainIsFree
BY NoneDisturbed DEF DisturbIfMainIsBusy

(* A block that goes on undisturbed does so while nobody else is at work.  *)
LEMMA BlockFacts ==
    ASSUME SendInv, MainIsFree, NEW m \in Messages,
           NEW place \in {"create", "kind", "data", "key", "send"},
           BlockIsAt(m, place)
    PROVE  /\ Calm
           /\ pc[m] = place /\ op[m] = "executing"
           /\ \A n \in Messages : n # m => op[n] # "executing" /\ ~Due(n)
           /\ queue # << >> /\ m = Head(queue)
           /\ place # "create" => current = m
           /\ place = "create" => current # m
<1>1. pc[m] = place /\ Due(m) /\ op[m] = "executing"
  BY DEF BlockIsAt, SendInv, BlockInv, Due
<1>2. \A n \in Messages : n # m => op[n] # "executing"
  BY <1>1, OneExecuting DEF SendInv
<1>3. \A n \in Messages : n # m => ~Due(n)
  BY <1>2 DEF SendInv, BlockInv
<1>4. act[Main].at = "idle" /\ act[m].at = "idle"
  BY DEF BlockIsAt, MainIsFree
<1>5. Calm
  BY <1>3, <1>4, Names DEF SendInv, ActInv, Calm, Due
<1> QED
  BY <1>1, <1>2, <1>3, <1>5 DEF SendInv, QueueInv, CurrentInv

(* Who is in sendBodyMessage is there alone, and with the current task.    *)
LEMMA ActFacts ==
    ASSUME SendInv, NEW a \in Actors, act[a].at # "idle"
    PROVE  /\ \A b \in Actors : b # a => act[b].at = "idle"
           /\ current \in Messages /\ act[a].task = current
           /\ act[a].sock \in Sockets
           /\ pc[current] \in {"send", "over"}
           /\ a # Main => a = current /\ pc[a] = "send" /\ op[a] = "executing"
           /\ a = Main => pc[current] = "over"
           /\ \A s \in Sockets : link[s] # "down"
<1>1. /\ \A b \in Actors : b # a => act[b].at = "idle"
      /\ act[a].task = current /\ current # NoMsg
      /\ act[a].sock \in Sockets
      /\ a # Main => pc[a] = "send"
  BY DEF SendInv, ActInv
<1>2. current \in Messages
  BY <1>1, TypeParts DEF SendInv
<1>3. a # Main => a = current /\ op[a] = "executing"
  BY <1>1, Names DEF SendInv, BlockInv, CurrentInv, Due
<1>4. a = Main => pc[current] = "over"
  BY <1>2 DEF SendInv, ActInv, CurrentInv, Due
<1>5. \A s \in Sockets : link[s] # "down"
  BY DEF SendInv, DownInv, Calm
<1> QED
  BY <1>1, <1>2, <1>3, <1>4, <1>5

-----------------------------------------------------------------------------
(* The invariant is kept: operations and blocks.                           *)

LEMMA InvStart == ASSUME SendInv, TypeOK', StartOperation PROVE SendInv'
<1> DEFINE m == Head(queue)
<1>t. TypeOK /\ queue \in Seq(Messages) /\ queue # << >>
      /\ op \in [Messages -> {"unsent", "queued", "executing", "finished"}]
      /\ pc \in [Messages -> Places]
  BY TypeParts DEF SendInv, StartOperation
<1>m. m \in Messages
  BY <1>t, HeadTailProperties
<1>1. /\ op[m] = "queued" /\ op' = [op EXCEPT ![m] = "executing"]
      /\ pc' = [pc EXCEPT ![m] = "create"]
      /\ UNCHANGED <<queue, isCancelled, current, task, act, pend, link,
                     breaks, wire, begun, withdrawn>>
  BY DEF StartOperation, taskVars, netVars, history
<1> HIDE DEF m
<1>2. pc[m] = "none" /\ current # m
  BY <1>1, <1>m DEF SendInv, BlockInv, CurrentInv
<1>h. Head(queue) = m
  BY DEF m
<1>3. \A n \in Messages : op[n] # "executing"
  BY <1>1, <1>h DEF SendInv, QueueInv
<1>4. QueueInv'
  <2>1. \A i \in DOMAIN queue : queue[i] \in Messages
    BY <1>t, ElementOfSeq, LenProperties
  <2>2. Answers \subseteq Messages
    BY SendAssumption DEF Answers, SendAssumption
  <2>3. isCancelled \subseteq Messages
    BY TypeParts DEF SendInv
  <2> QED
    BY <1>1, <1>3, <1>h, <1>m, <1>t, <2>1, <2>2, <2>3 DEF SendInv, QueueInv
<1>5. BlockInv'
  BY <1>1, <1>m, <1>t DEF SendInv, BlockInv, Due
<1>6. CurrentInv'
  BY <1>1, <1>2, <1>3, <1>m, <1>t DEF SendInv, CurrentInv
<1>7. ActInv'
  BY <1>1, <1>2, <1>m, <1>t, Names DEF SendInv, ActInv, Due
<1>8. TaskInv'
  BY <1>1, <1>2, <1>m, <1>t DEF SendInv, TaskInv, Made
<1>9. WireInv'
  BY <1>1, <1>3, <1>m, <1>t
  DEF SendInv, WireInv, IsOpen, Precedes, IsGoingOn
<1>10. DownInv'
  BY <1>1, <1>t DEF SendInv, DownInv
<1>11. FollowInv'
  BY <1>1, <1>3, <1>m, <1>t DEF FollowInv
<1> QED
  BY <1>4, <1>5, <1>6, <1>7, <1>8, <1>9, <1>10, <1>11 DEF SendInv

(* A queue with one more operation.                                        *)
LEMMA EnqueueKeeps ==
    ASSUME NEW q \in Seq(Messages), NEW m \in Messages, m \notin ToSet(q),
           \A i, j \in DOMAIN q : q[i] = q[j] => i = j
    PROVE  LET r == Append(q, m) IN
           /\ \A i, j \in DOMAIN r : r[i] = r[j] => i = j
           /\ ToSet(r) = ToSet(q) \cup {m}
           /\ q # << >> => r # << >> /\ Head(r) = Head(q)
<1> DEFINE r == Append(q, m)
<1>1. /\ Len(q) \in Nat /\ DOMAIN q = 1..Len(q)
      /\ r \in Seq(Messages) /\ DOMAIN r = 1..Len(r)
      /\ Len(r) = Len(q) + 1 /\ r # << >>
      /\ \A i \in 1..Len(q) : r[i] = q[i]
      /\ r[Len(q) + 1] = m
  BY AppendProperties, LenProperties
<1>2. Head(r) = IF q = << >> THEN m ELSE Head(q)
  BY HeadTailAppend
<1>3. \A i \in DOMAIN q : q[i] # m
  BY DEF ToSet
<1> HIDE DEF r
<1>4. \A i, j \in DOMAIN r : r[i] = r[j] => i = j
  BY <1>1, <1>3
<1>5. ToSet(r) = ToSet(q) \cup {m}
  BY <1>1 DEF ToSet
<1> QED
  BY <1>1, <1>2, <1>4, <1>5 DEF r

LEMMA InvSend ==
    ASSUME SendInv, SendsInOrder, TypeOK', NEW m \in Messages, Send(m)
    PROVE  SendInv'
<1>t. TypeOK /\ queue \in Seq(Messages)
      /\ op \in [Messages -> {"unsent", "queued", "executing", "finished"}]
      /\ isCancelled \subseteq Messages
  BY TypeParts DEF SendInv
<1>1. /\ op[m] = "unsent" /\ op' = [op EXCEPT ![m] = "queued"]
      /\ m \notin Answers /\ queue' = Append(queue, m)
      /\ UNCHANGED <<isCancelled, pc, current, task, act, pend, link,
                     breaks, wire, begun, withdrawn>>
  BY DEF Send, Enqueue, taskVars, netVars, history
<1>2. \A s \in Sockets : link[s] # "down"
  BY SendAssumption DEF Send, SendsInOrder, AlwaysOnline, OneConnection,
                        SendAssumption
<1>3. /\ \A i, j \in DOMAIN queue' : queue'[i] = queue'[j] => i = j
      /\ ToSet(queue') = ToSet(queue) \cup {m}
      /\ queue # << >> => queue' # << >> /\ Head(queue') = Head(queue)
  <2>1. m \notin ToSet(queue)
    BY <1>1 DEF SendInv, QueueInv, ToSet
  <2>2. \A i, j \in DOMAIN queue : queue[i] = queue[j] => i = j
    BY DEF SendInv, QueueInv
  <2> QED
    BY <1>1, <1>t, <2>1, <2>2, EnqueueKeeps
<1>4. QueueInv'
  <2>1. Answers \subseteq Messages
    BY SendAssumption DEF Answers, SendAssumption
  <2>2. \A i \in DOMAIN queue' : op'[queue'[i]] \in {"queued", "executing"}
    <3>1. \A i \in DOMAIN queue' : queue'[i] \in ToSet(queue) \cup {m}
      BY <1>3 DEF ToSet
    <3>2. \A n \in ToSet(queue) : op[n] \in {"queued", "executing"}
      BY DEF SendInv, QueueInv, ToSet
    <3>3. ToSet(queue) \subseteq Messages
      BY <1>t, QueueElements
    <3> QED
      BY <1>1, <1>t, <3>1, <3>2, <3>3
  <2>3. \A n \in Messages : op'[n] = "queued" => n \in ToSet(queue')
    BY <1>1, <1>3, <1>t DEF SendInv, QueueInv
  <2>4. \A n \in Messages :
            op'[n] = "executing" => queue' # << >> /\ Head(queue') = n
    BY <1>1, <1>3, <1>t DEF SendInv, QueueInv
  <2>5. \A n \in isCancelled' : op'[n] = "finished"
    BY <1>1, <1>t DEF SendInv, QueueInv
  <2>6. \A n \in Answers :
            op'[n] # "unsent" => \E k \in withdrawn' : Answer[k] = n
    BY <1>1, <1>t, <2>1 DEF SendInv, QueueInv
  <2> QED
    BY <1>3, <2>2, <2>3, <2>4, <2>5, <2>6 DEF QueueInv
<1>5. BlockInv'
  BY <1>1, <1>t DEF SendInv, BlockInv, Due
<1>6. CurrentInv'
  BY <1>1, <1>t DEF SendInv, CurrentInv
<1>7. ActInv'
  BY <1>1 DEF SendInv, ActInv, Due
<1>8. TaskInv'
  BY <1>1 DEF SendInv, TaskInv, Made
<1>9. WireInv'
  BY <1>1, <1>t DEF SendInv, WireInv, IsOpen, Precedes, IsGoingOn
<1>10. DownInv'
  BY <1>1, <1>2 DEF DownInv
<1>11. FollowInv'
  BY <1>1, <1>t DEF SendInv, FollowInv, Calm
<1> QED
  BY <1>4, <1>5, <1>6, <1>7, <1>8, <1>9, <1>10, <1>11 DEF SendInv

(* No message is open while a task is made: the one before is complete,    *)
(* or was withdrawn.                                                       *)
LEMMA NoneIsOpen ==
    ASSUME SendInv, MainIsFree, NEW m \in Messages,
           NEW place \in {"create", "kind", "data", "key", "send"},
           BlockIsAt(m, place)
    PROVE  /\ task[m].index = 0 /\ m \notin begun
           /\ \A s \in Sockets : ~IsOpen(s)
<1>1. /\ Calm /\ pc[m] = place /\ op[m] = "executing"
      /\ \A n \in Messages : n # m => op[n] # "executing" /\ ~Due(n)
      /\ place # "create" => current = m
      /\ place = "create" => current # m
  BY BlockFacts
<1>2. task[m].index = 0
  BY <1>1, Names DEF SendInv, TaskInv, Made, Calm, NoTask
<1>3. m \notin begun
  BY <1>2 DEF SendInv, WireInv
<1>4. ASSUME NEW s \in Sockets, IsOpen(s) PROVE FALSE
  <2>1. current \in Messages /\ op[current] = "executing" /\ Precedes(s, current)
    BY <1>4 DEF SendInv, WireInv
  <2>2. current = m
    BY <1>1, <2>1
  <2>3. Last(wire[s]).part + 1 = 0
    BY <1>2, <2>1, <2>2 DEF Precedes
  <2>4. wire[s] \in Seq(Cells) /\ wire[s] # << >>
    BY <2>1 DEF SendInv, WireInv, Precedes
  <2>5. Last(wire[s]) \in Cells
    BY <2>4, LenProperties, ElementOfSeq, EmptySeq DEF Last
  <2> QED
    BY <2>3, <2>5 DEF Cells
<1> QED
  BY <1>2, <1>3, <1>4

LEMMA InvCreate ==
    ASSUME SendInv, TypeOK', disturbed' = {}, NEW m \in Messages, Create(m)
    PROVE  SendInv'
<1>t. TypeOK /\ pc \in [Messages -> Places]
      /\ op \in [Messages -> {"unsent", "queued", "executing", "finished"}]
  BY TypeParts DEF SendInv
<1>b. BlockIsAt(m, "create") /\ MainIsFree
  BY BlockIsAlone DEF Create
<1>1. /\ Calm /\ pc[m] = "create" /\ op[m] = "executing" /\ queue # << >>
      /\ \A n \in Messages : n # m => op[n] # "executing" /\ ~Due(n)
  BY <1>b, BlockFacts
<1>2. /\ pc' = [pc EXCEPT ![m] = "kind"] /\ current' = m
      /\ UNCHANGED <<op, queue, isCancelled, task, act, pend, link,
                     breaks, wire, begun, withdrawn>>
  BY <1>1 DEF Create, SendInv, QueueInv, queueVars, netVars, history
<1>3. task[m].index = 0 /\ \A s \in Sockets : ~IsOpen(s)
  BY <1>b, NoneIsOpen
<1>4. QueueInv'
  BY <1>2 DEF SendInv, QueueInv
<1>5. BlockInv'
  BY <1>1, <1>2, <1>t DEF SendInv, BlockInv, Due
<1>6. CurrentInv'
  BY <1>1, <1>2, <1>t DEF CurrentInv
<1>7. ActInv'
  BY <1>1, <1>2, Names DEF ActInv, Calm
<1>8. TaskInv'
  BY <1>1, <1>2, <1>t DEF SendInv, TaskInv, Made, Calm
<1>9. WireInv'
  BY <1>2, <1>3 DEF SendInv, WireInv, IsOpen, IsGoingOn
<1>10. DownInv'
  BY <1>1, <1>2 DEF SendInv, DownInv
<1>11. FollowInv'
  BY <1>1, <1>2, <1>t DEF FollowInv
<1> QED
  BY <1>4, <1>5, <1>6, <1>7, <1>8, <1>9, <1>10, <1>11 DEF SendInv

(* A field of the current task is set.                                     *)
LEMMA InvSetTask ==
    ASSUME SendInv, SendsInOrder, TypeOK', disturbed' = {},
           NEW m \in Messages, SetKind(m) \/ SetData(m) \/ SetKey(m)
    PROVE  SendInv'
<1>t. /\ TypeOK /\ pc \in [Messages -> Places] /\ task \in [Messages -> Tasks]
      /\ op \in [Messages -> {"unsent", "queued", "executing", "finished"}]
      /\ act \in [Actors -> Acts]
  BY TypeParts DEF SendInv
<1>p. PICK p \in {"kind", "data", "key"} :
          /\ BlockIsAt(m, p) /\ MainIsFree
          /\ p = "kind" => SetKind(m)
          /\ p = "data" => SetData(m)
          /\ p = "key" => SetKey(m)
  BY BlockIsAlone DEF SetKind, SetData, SetKey, SetTask
<1>1. /\ Calm /\ pc[m] = p /\ op[m] = "executing" /\ queue # << >>
      /\ \A n \in Messages : n # m => op[n] # "executing" /\ ~Due(n)
      /\ current = m
  BY <1>p, BlockFacts
<1>2. /\ pc'[m] = IF p = "kind" THEN "data" ELSE IF p = "data" THEN "key"
                  ELSE "send"
      /\ \A n \in Messages : n # m => pc'[n] = pc[n] /\ task'[n] = task[n]
      /\ UNCHANGED <<op, queue, isCancelled, current, act, pend, link,
                     breaks, wire, begun, withdrawn>>
  BY <1>p, <1>1, <1>t
  DEF SetKind, SetData, SetKey, SetTask, queueVars, netVars, history
<1>3. /\ task[m].index = 0 /\ m \notin begun
      /\ \A s \in Sockets : ~IsOpen(s)
  BY <1>p, NoneIsOpen
<1>m. m # NoMsg /\ task[m] \in Tasks
  BY <1>t, Names
<1>f. Kind[m] = "file" => Packets[m] > 0
  BY DEF SendsInOrder, FilesExist
(* What has become of the task.                                            *)
<1>k. /\ task'[m].kind = Kind[m] /\ ~task'[m].done
      /\ task'[m].off = 0 /\ task'[m].index = 0
      /\ p # "kind" => task'[m].data = m
      /\ p = "key" => task'[m].key = m
  <2>1. CASE p = "kind"
    <3>1. task[m].off = 0 /\ task[m].index = 0
      BY <1>1, <2>1 DEF SendInv, TaskInv, NoTask
    <3>2. task'[m] = [task[m] EXCEPT !.kind = Kind[m], !.done = FALSE]
      BY <1>p, <1>1, <1>m, <1>t, <2>1 DEF SetKind, SetTask
    <3> QED
      BY <1>m, <2>1, <3>1, <3>2 DEF Tasks
  <2>2. CASE p = "data"
    <3>1. task'[m] = [task[m] EXCEPT !.data = m]
      BY <1>p, <1>1, <1>m, <1>t, <1>f, <2>2 DEF SetData, SetTask
    <3>2. /\ task[m].kind = Kind[m] /\ ~task[m].done
          /\ task[m].off = 0 /\ task[m].index = 0
      BY <1>1, <2>2 DEF SendInv, TaskInv
    <3> QED
      BY <1>m, <2>2, <3>1, <3>2 DEF Tasks
  <2>3. CASE p = "key"
    <3>1. task'[m] = [task[m] EXCEPT !.key = m]
      BY <1>p, <1>1, <1>m, <1>t, <2>3 DEF SetKey, SetTask
    <3>2. /\ task[m].kind = Kind[m] /\ ~task[m].done /\ task[m].data = m
          /\ task[m].off = 0 /\ task[m].index = 0
      BY <1>1, <2>3 DEF SendInv, TaskInv
    <3> QED
      BY <1>m, <2>3, <3>1, <3>2 DEF Tasks
  <2> QED
    BY <2>1, <2>2, <2>3
<1>4. QueueInv'
  BY <1>2 DEF SendInv, QueueInv
<1>5. BlockInv'
  BY <1>1, <1>2, <1>t DEF SendInv, BlockInv, Due
<1>6. CurrentInv'
  BY <1>1, <1>2, <1>t DEF SendInv, CurrentInv
<1>7. ActInv'
  BY <1>1, <1>2, Names DEF ActInv, Calm
<1>8. TaskInv'
  <2>1. \A a \in Actors : act'[a].at = "idle"
    BY <1>1, <1>2 DEF Calm
  <2>2. pc'[m] = "send" => Made(m, 0, 0)'
    BY <1>2, <1>k, <1>p DEF Made
  <2>3. pc'[m] \in {"data", "key", "send"} /\ (pc'[m] = "key" => p = "data")
    BY <1>2, <1>p
  <2>4. ASSUME NEW n \in Messages, n # m
        PROVE  /\ pc'[n] \in {"none", "create", "kind"} => task'[n] = NoTask
               /\ pc'[n] \notin {"data", "key", "send"}
    BY <1>1, <1>2, <2>4 DEF SendInv, TaskInv, Due
  <2> QED
    BY <1>1, <1>2, <1>k, <2>1, <2>2, <2>3, <2>4 DEF TaskInv
<1>9. WireInv'
  <2>1. \A n \in begun' : task'[n].index > 0
    BY <1>2, <1>3, <1>t, TypeParts DEF SendInv, WireInv
  <2>2. \A s \in Sockets : ~IsOpen(s)'
    BY <1>2, <1>3 DEF IsOpen
  <2>3. \A n \in Messages : ~(current' = n /\ task'[n].index > 0)
    BY <1>1, <1>2, <1>k
  <2> QED
    BY <1>2, <2>1, <2>2, <2>3 DEF SendInv, WireInv
<1>10. DownInv'
  BY <1>1, <1>2 DEF SendInv, DownInv
<1>11. FollowInv'
  BY <1>1, <1>2, <1>p, <1>t DEF FollowInv
<1> QED
  BY <1>4, <1>5, <1>6, <1>7, <1>8, <1>9, <1>10, <1>11 DEF SendInv

-----------------------------------------------------------------------------
(* The invariant is kept: sendBodyMessage.                                 *)

(* The first packet of the task a block made.                              *)
LEMMA InvSendFirst ==
    ASSUME SendInv, SendsInOrder, TypeOK', disturbed' = {},
           NEW m \in Messages, SendFirst(m)
    PROVE  SendInv'
<1>t. /\ TypeOK /\ pc \in [Messages -> Places] /\ act \in [Actors -> Acts]
      /\ op \in [Messages -> {"unsent", "queued", "executing", "finished"}]
      /\ m \in Actors /\ m # Main
  BY TypeParts, Names DEF SendInv
<1>b. BlockIsAt(m, "send") /\ MainIsFree
  BY BlockIsAlone DEF SendFirst
<1>1. /\ Calm /\ pc[m] = "send" /\ op[m] = "executing" /\ queue # << >>
      /\ \A n \in Messages : n # m => op[n] # "executing" /\ ~Due(n)
      /\ current = m /\ m # NoMsg
  BY <1>b, BlockFacts, Names
<1>2. /\ task[m].index = 0 /\ Made(m, 0, 0)
      /\ \A s \in Sockets : ~IsOpen(s)
  BY <1>b, <1>1, <1>t, NoneIsOpen DEF Calm, SendInv, TaskInv
<1>3. /\ Dest[m] \in Sockets /\ Packets[m] \in Nat
      /\ Kind[m] = "direct" \/ Packets[m] > 0
  BY SendAssumption DEF SendsInOrder, FilesExist, SendAssumption
<1>4. \E at \in {"cut", "finish"} :
          /\ BodyOf(m, Dest[m]) = [at |-> at, task |-> m, sock |-> Dest[m],
                                   off |-> 0]
          /\ at = "cut" => Packets[m] > 0
          /\ at = "finish" => Packets[m] = 0
  <2>1. HasMore(task[m]) <=> Packets[m] > 0
    BY <1>1, <1>2 DEF HasMore, Made
  <2>2. task[m].kind = Kind[m] /\ task[m].off = 0
    BY <1>2 DEF Made
  <2> QED
    BY <1>1, <1>3, <2>1, <2>2 DEF BodyOf
<1>5. PICK at \in {"cut", "finish"} :
          /\ BodyOf(m, Dest[m]) = [at |-> at, task |-> m, sock |-> Dest[m],
                                   off |-> 0]
          /\ at = "cut" => Packets[m] > 0
          /\ at = "finish" => Packets[m] = 0
  BY <1>4
<1>6. /\ act'[m].at = at /\ act'[m].task = m /\ act'[m].sock = Dest[m]
      /\ act'[m].off = 0
      /\ \A a \in Actors : a # m => act'[a] = act[a] /\ act'[a].at = "idle"
      /\ UNCHANGED <<op, queue, isCancelled, pc, current, task, pend, link,
                     breaks, wire, begun, withdrawn>>
  <2>1. BodyOf(m, Dest[m]) # Idle
    BY <1>5 DEF Idle
  <2>2. pc' = pc
    BY <1>1, <1>t, <2>1 DEF SendFirst
  <2> QED
    BY <1>1, <1>5, <1>t, <2>2
    DEF SendFirst, Calm, queueVars, taskVars, netVars, history
<1>7. QueueInv'
  BY <1>6 DEF SendInv, QueueInv
<1>8. BlockInv'
  BY <1>6 DEF SendInv, BlockInv, Due
<1>9. CurrentInv'
  BY <1>6 DEF SendInv, CurrentInv
<1>10. ActInv'
  BY <1>1, <1>3, <1>6, <1>t, Names DEF ActInv
<1>11. TaskInv'
  <2>1. \A n \in Messages : n # m => pc'[n] \in {"none", "over"}
    BY <1>1, <1>6 DEF Due
  <2>2. \A n \in Messages : pc'[n] = "none" => task'[n] = NoTask
    BY <1>6 DEF SendInv, TaskInv
  <2>3. Made(m, 0, 0)'
    BY <1>2, <1>6 DEF Made
  <2>4. at = "finish" => Made(m, Packets[m], Packets[m])'
    BY <1>5, <2>3
  <2> QED
    BY <1>1, <1>5, <1>6, <1>t, <2>1, <2>2, <2>3, <2>4 DEF TaskInv
<1>12. WireInv'
  BY <1>1, <1>2, <1>6 DEF SendInv, WireInv, IsOpen
<1>13. DownInv'
  BY <1>1, <1>6 DEF SendInv, DownInv
<1>14. FollowInv'
  BY <1>1, <1>6 DEF FollowInv
<1> QED
  BY <1>7, <1>8, <1>9, <1>10, <1>11, <1>12, <1>13, <1>14 DEF SendInv

(* The next packet of the current task, if there is one.                   *)
LEMMA InvDidWrite ==
    ASSUME SendInv, SendsInOrder, TypeOK', disturbed' = {},
           NEW s \in Sockets, DidWrite(s)
    PROVE  SendInv'
<1>t. /\ TypeOK /\ act \in [Actors -> Acts] /\ pend \in [Sockets -> Nat]
      /\ current \in Messages \cup {NoMsg} /\ task \in [Messages -> Tasks]
  BY TypeParts DEF SendInv
<1>1. /\ Calm /\ \A m \in Messages : Due(m) => pc[m] = "create"
      /\ \A m \in Messages : op[m] = "executing" =>
            pc[m] = "create" \/ (pc[m] = "over" /\ current = m)
      /\ \A m \in Messages : current = m =>
            /\ pc[m] = "over"
            /\ Made(m, task[m].index, task[m].index)
            /\ task[m].index < Packets[m]
  BY NoneDisturbed, FreeFacts DEF DidWrite
<1>2. \A u \in Sockets : u = s
  BY DEF SendsInOrder, OneConnection
<1>3. /\ act' = [act EXCEPT ![Main] = BodyOf(Main, s)]
      /\ pend[s] > 0 /\ pend'[s] = pend[s] - 1
      /\ UNCHANGED <<op, queue, isCancelled, pc, current, task, link,
                     breaks, wire, begun, withdrawn>>
  BY <1>t DEF DidWrite, queueVars, taskVars, history
<1>4. link[s] # "down"
  BY <1>3 DEF SendInv, DownInv
<1>5. ASSUME current \in Messages
      PROVE  BodyOf(Main, s) = [at |-> "cut", task |-> current, sock |-> s,
                                off |-> task[current].index]
  <2>1. /\ task[current].data = current
        /\ task[current].off = task[current].index
        /\ task[current].index < Packets[current]
    BY <1>1, <1>5 DEF Made
  <2> QED
    BY <1>5, <2>1, Names DEF BodyOf, HasMore
<1>6. current = NoMsg => BodyOf(Main, s) = Idle
  BY DEF BodyOf
<1>7. /\ \A a \in Actors : a # Main => act'[a].at = "idle"
      /\ current = NoMsg => act'[Main].at = "idle"
      /\ current # NoMsg =>
            /\ act'[Main].at = "cut" /\ act'[Main].task = current
            /\ act'[Main].sock = s /\ act'[Main].off = task[current].index
  BY <1>1, <1>3, <1>5, <1>6, <1>t, Names DEF Calm, Idle
<1>8. QueueInv'
  BY <1>3 DEF SendInv, QueueInv
<1>9. BlockInv'
  BY <1>3 DEF SendInv, BlockInv, Due
<1>10. CurrentInv'
  BY <1>3 DEF SendInv, CurrentInv
<1>11. ActInv'
  BY <1>1, <1>3, <1>7, Names DEF ActInv, Due
<1>12. TaskInv'
  <2>1. \A n \in Messages : pc'[n] \in {"none", "create", "over"}
    BY <1>1, <1>3 DEF Due
  <2>2. \A n \in Messages :
            pc'[n] \in {"none", "create"} => task'[n] = NoTask
    BY <1>3 DEF SendInv, TaskInv
  <2>3. ASSUME NEW n \in Messages, current' = n
        PROVE  /\ Made(n, task[n].index, task[n].index)'
               /\ task[n].index < Packets[n]
    BY <1>1, <1>3, <2>3 DEF Made
  <2> QED
    BY <1>3, <1>7, <1>t, <2>1, <2>2, <2>3, Names DEF TaskInv
<1>13. WireInv'
  <2>1. IsGoingOn(s)
    BY <1>3 DEF IsGoingOn
  <2> QED
    BY <1>2, <1>3, <2>1 DEF SendInv, WireInv, IsOpen, Precedes
<1>14. DownInv'
  BY <1>2, <1>3, <1>4 DEF DownInv
<1>15. FollowInv'
  <2>1. ASSUME NEW m \in Messages, op'[m] = "executing", pc'[m] = "over"
        PROVE  ~Calm'
    BY <1>1, <1>3, <1>7, <2>1, Names DEF Calm
  <2> QED
    BY <2>1 DEF FollowInv
<1> QED
  BY <1>8, <1>9, <1>10, <1>11, <1>12, <1>13, <1>14, <1>15 DEF SendInv

(* A packet is cut.                                                        *)
LEMMA InvCut ==
    ASSUME SendInv, TypeOK', NEW a \in Actors, CutBody(a)
    PROVE  SendInv'
<1>t. /\ TypeOK /\ act \in [Actors -> Acts] /\ task \in [Messages -> Tasks]
      /\ pc \in [Messages -> Places] /\ act[a] \in Acts
  BY TypeParts DEF SendInv
<1>0. act[a].at = "cut"
  BY DEF CutBody
<1>c. PICK c \in Messages, i \in Nat : c = current /\ i = act[a].off
  BY <1>0, <1>t, ActFacts DEF Acts
<1>1. /\ \A b \in Actors : b # a => act[b].at = "idle"
      /\ c = current /\ i = act[a].off /\ act[a].task = c /\ act[a].sock \in Sockets
      /\ pc[c] \in {"send", "over"}
      /\ a # Main => a = c /\ pc[a] = "send" /\ op[a] = "executing"
      /\ a = Main => pc[c] = "over"
      /\ \A s \in Sockets : link[s] # "down"
  BY <1>0, <1>c, ActFacts
<1>2. Made(c, i, i) /\ i < Packets[c]
  BY <1>0, <1>1 DEF SendInv, TaskInv
<1>3. /\ act'[a].at = "write" /\ act'[a].task = c /\ act'[a].off = i
      /\ act'[a].sock = act[a].sock
      /\ \A b \in Actors : b # a => act'[b] = act[b] /\ act'[b].at = "idle"
      /\ UNCHANGED <<op, queue, isCancelled, pc, current, pend, link,
                     breaks, wire, begun, withdrawn>>
  BY <1>1, <1>t DEF CutBody, Acts, queueVars, netVars, history
<1>4. /\ \A n \in Messages : n # c => task'[n] = task[n]
      /\ Made(c, i + 1, i)'
  <2> DEFINE d == task[c].done \/ i + 1 = Packets[c]
  <2>1. task[c] \in Tasks /\ task[c].data = c /\ (task[c].done <=> i > 0 /\ i = Packets[c])
        /\ task[c].key = c /\ task[c].kind = Kind[c] /\ task[c].index = i
    BY <1>1, <1>2, <1>t DEF Made
  <2>2. task' = [task EXCEPT ![c] = [task[c] EXCEPT !.off = i + 1, !.done = d]]
    <3>1. task' = [task EXCEPT ![c] = [task[c] EXCEPT !.off = i + 1,
                       !.done = task[c].done \/ i + 1 = Packets[task[c].data]]]
      BY <1>1, Zenon DEF CutBody
    <3> QED
      BY <2>1, <3>1
  <2>3. d \in BOOLEAN /\ (d <=> i + 1 > 0 /\ i + 1 = Packets[c])
    BY <1>2, <2>1 DEF Tasks
  <2> HIDE DEF d
  <2>4. task'[c] = [task[c] EXCEPT !.off = i + 1, !.done = d]
    BY <1>1, <1>t, <2>2
  <2>5. /\ task'[c].off = i + 1 /\ task'[c].data = task[c].data
        /\ task'[c].key = task[c].key /\ task'[c].kind = task[c].kind
        /\ task'[c].index = task[c].index
    BY <2>1, <2>4 DEF Tasks
  <2>6. task'[c].done <=> d
    BY <2>1, <2>4, Zenon DEF Tasks
  <2>7. Made(c, i + 1, i)'
    BY <2>1, <2>3, <2>5, <2>6 DEF Made
  <2> QED
    BY <1>t, <2>2, <2>7
<1>5. \A n \in Messages : task'[n].index = task[n].index
  <2>1. task'[c].index = i /\ task[c].index = i
    BY <1>2, <1>4 DEF Made
  <2> QED
    BY <1>4, <2>1
<1>6. QueueInv'
  BY <1>3 DEF SendInv, QueueInv
<1>7. BlockInv'
  BY <1>3 DEF SendInv, BlockInv, Due
<1>8. CurrentInv'
  BY <1>3 DEF SendInv, CurrentInv
<1>9. ActInv'
  BY <1>0, <1>1, <1>3, Names DEF SendInv, ActInv, Due
<1>10. TaskInv'
  <2>1. ASSUME NEW n \in Messages, n # c
        PROVE  /\ pc'[n] \in {"none", "create", "kind"} => task'[n] = NoTask
               /\ pc'[n] \in {"data", "key"} =>
                     /\ task'[n].kind = Kind[n] /\ ~task'[n].done
                     /\ task'[n].off = 0 /\ task'[n].index = 0
               /\ pc'[n] = "key" => task'[n].data = n
               /\ pc'[n] = "send" /\ act'[n].at = "idle" => Made(n, 0, 0)'
               /\ current' # n
    <3>1. act'[n].at = "idle" => act[n].at = "idle"
      BY <1>0, <1>3, <2>1, Names
    <3> QED
      BY <1>1, <1>3, <1>4, <2>1, <3>1 DEF SendInv, TaskInv, Made
  <2>2. pc'[c] \in {"send", "over"}
        /\ (pc'[c] = "send" => act'[c].at # "idle")
        /\ (pc'[c] = "over" => act'[Main].at # "idle")
    BY <1>1, <1>3, Names DEF SendInv, CurrentInv, BlockInv, Due
  <2>3. /\ act'[a].at = "write" => Made(act[a].task, act[a].off + 1, act[a].off)'
        /\ act'[a].off < Packets[act'[a].task]
    BY <1>2, <1>3, <1>4 DEF Made
  <2>4. \A b \in Actors : b # a => act'[b].at = "idle"
    BY <1>3
  <2> QED
    BY <1>3, <2>1, <2>2, <2>3, <2>4 DEF TaskInv
<1>11. WireInv'
  <2>1. \A s \in Sockets : IsGoingOn(s)
    BY <1>0 DEF IsGoingOn
  <2> QED
    BY <1>3, <1>5, <2>1, TypeParts DEF SendInv, WireInv, IsOpen, Precedes
<1>12. DownInv'
  BY <1>1, <1>3 DEF DownInv
<1>13. FollowInv'
  BY <1>3 DEF FollowInv, Calm
<1> QED
  BY <1>6, <1>7, <1>8, <1>9, <1>10, <1>11, <1>12, <1>13 DEF SendInv

(* A sequence with one more element ends with it.                          *)
LEMMA LastOfAppend ==
    ASSUME NEW S, NEW q \in Seq(S), NEW e \in S
    PROVE  /\ Append(q, e) \in Seq(S) /\ Append(q, e) # << >>
           /\ Last(Append(q, e)) = e
BY AppendProperties, LenProperties DEF Last

(* Packet i of message c is written to s, if s is up.                      *)
Writes(a, c, i, s) ==
    /\ current = c /\ i < Packets[c] /\ i + 1 \in Nat
    /\ act[a].task = c /\ act[a].off = i /\ act[a].sock = s
    /\ Made(c, i + 1, i)
    /\ Cell(act[a]) = [key |-> c, index |-> i, of |-> c, part |-> i]
    /\ Cell(act[a]) \in Cells
    /\ IF link[s] = "up"
       THEN /\ wire' = [wire EXCEPT ![s] = Append(@, Cell(act[a]))]
            /\ pend' = [pend EXCEPT ![s] = @ + 1]
            /\ begun' = begun \cup {c}
       ELSE UNCHANGED <<wire, pend, begun>>
    /\ task' = [task EXCEPT ![c].index = i + 1]
    /\ Return(a, IF i + 1 = Packets[c] THEN "finish" ELSE "idle")
    /\ UNCHANGED <<op, queue, isCancelled, current, link, breaks, withdrawn>>

LEMMA WriteFacts ==
    ASSUME SendInv, NEW a \in Actors, WriteCell(a)
    PROVE  \E c \in Messages, i \in Nat, s \in Sockets : Writes(a, c, i, s)
<1>0. act[a].at = "write" /\ act[a] \in Acts
  BY TypeParts DEF WriteCell, SendInv
<1>1. PICK c \in Messages, i \in Nat, s \in Sockets :
          c = current /\ i = act[a].off /\ s = act[a].sock
  BY <1>0, ActFacts DEF Acts
<1>2. act[a].task = c
  BY <1>0, <1>1, ActFacts
<1>3. Made(c, i + 1, i) /\ i < Packets[c]
  BY <1>0, <1>1, <1>2 DEF SendInv, TaskInv
<1>4. task[c].key = c /\ task[c].data = c /\ task[c].index = i
      /\ (task[c].done <=> i + 1 = Packets[c])
  BY <1>3 DEF Made
<1>5. Cell(act[a]) = [key |-> c, index |-> i, of |-> c, part |-> i]
  BY <1>1, <1>2, <1>4 DEF Cell
<1>6. Cell(act[a]) \in Cells
  BY <1>5 DEF Cells
<1>7. IF link[s] = "up"
      THEN /\ wire' = [wire EXCEPT ![s] = Append(@, Cell(act[a]))]
           /\ pend' = [pend EXCEPT ![s] = @ + 1]
           /\ begun' = begun \cup {c}
      ELSE UNCHANGED <<wire, pend, begun>>
  <2>1. task[act[a].task].kind = "file" =>
            task[act[a].task].index < Packets[task[act[a].task].data]
    BY <1>2, <1>3, <1>4
  <2> QED
    BY <1>1, <1>2, <1>4, <2>1, Names DEF WriteCell
<1>8. task' = [task EXCEPT ![c].index = i + 1]
  BY <1>2, <1>4 DEF WriteCell
<1>9. Return(a, IF i + 1 = Packets[c] THEN "finish" ELSE "idle")
  <2>1. Return(a, IF task[c].done THEN "finish" ELSE "idle")
    BY <1>2 DEF WriteCell
  <2> QED
    BY <1>4, <2>1
<1>10. i + 1 \in Nat
      /\ UNCHANGED <<op, queue, isCancelled, current, link, breaks, withdrawn>>
  BY DEF WriteCell, queueVars
<1> WITNESS c \in Messages, i \in Nat, s \in Sockets
<1> QED
  BY <1>1, <1>2, <1>3, <1>5, <1>6, <1>7, <1>8, <1>9, <1>10 DEF Writes

LEMMA InvWrite ==
    ASSUME SendInv, SendsInOrder, TypeOK', NEW a \in Actors, WriteCell(a)
    PROVE  SendInv'
<1>t. /\ TypeOK /\ act \in [Actors -> Acts] /\ task \in [Messages -> Tasks]
      /\ pc \in [Messages -> Places] /\ pend \in [Sockets -> Nat]
      /\ link \in [Sockets -> {"up", "broken", "down"}]
      /\ begun \subseteq Messages
      /\ wire \in [Sockets -> Seq(Cells)]
  BY TypeParts DEF SendInv, WireInv
<1>0. act[a].at = "write"
  BY DEF WriteCell
<1>w. PICK c \in Messages, i \in Nat, s \in Sockets : Writes(a, c, i, s)
  BY WriteFacts
<1>1. /\ current = c /\ i < Packets[c] /\ i + 1 \in Nat
      /\ act[a].task = c /\ act[a].off = i /\ act[a].sock = s
      /\ Made(c, i + 1, i)
      /\ Cell(act[a]) = [key |-> c, index |-> i, of |-> c, part |-> i]
      /\ Cell(act[a]) \in Cells
      /\ IF link[s] = "up"
         THEN /\ wire' = [wire EXCEPT ![s] = Append(@, Cell(act[a]))]
              /\ pend' = [pend EXCEPT ![s] = @ + 1]
              /\ begun' = begun \cup {c}
         ELSE UNCHANGED <<wire, pend, begun>>
      /\ task' = [task EXCEPT ![c].index = i + 1]
      /\ Return(a, IF i + 1 = Packets[c] THEN "finish" ELSE "idle")
      /\ UNCHANGED <<op, queue, isCancelled, current, link, breaks,
                     withdrawn>>
  BY <1>w DEF Writes
<1>2. /\ \A b \in Actors : b # a => act[b].at = "idle"
      /\ pc[c] \in {"send", "over"}
      /\ a # Main => a = c /\ pc[a] = "send" /\ op[a] = "executing"
      /\ a = Main => pc[c] = "over"
      /\ \A u \in Sockets : link[u] # "down"
  BY <1>0, <1>1, ActFacts
<1>3. \A u \in Sockets : u = s
  BY DEF SendsInOrder, OneConnection
<1>4. /\ \A n \in Messages : n # c => task'[n] = task[n]
      /\ task[c].index = i /\ task'[c].index = i + 1
      /\ Made(c, i + 1, i + 1)'
  <2>1. task'[c] = [task[c] EXCEPT !.index = i + 1] /\ task[c] \in Tasks
    BY <1>1, <1>t
  <2>2. /\ task'[c].index = i + 1 /\ task'[c].off = task[c].off
        /\ task'[c].kind = task[c].kind /\ task'[c].data = task[c].data
        /\ task'[c].key = task[c].key
    BY <2>1 DEF Tasks
  <2>3. task'[c].done = task[c].done
    BY <2>1, Zenon DEF Tasks
  <2>4. Made(c, i + 1, i + 1)'
    BY <1>1, <2>2, <2>3 DEF Made
  <2> QED
    BY <1>1, <1>t, <2>2, <2>4 DEF Made
<1>5. /\ \A b \in Actors : b # a => act'[b] = act[b] /\ act'[b].at = "idle"
      /\ i + 1 = Packets[c] =>
            /\ act'[a].at = "finish" /\ act'[a].task = c /\ act'[a].sock = s
            /\ pc' = pc
      /\ i + 1 # Packets[c] =>
            /\ act'[a].at = "idle"
            /\ \A n \in Messages : n # a => pc'[n] = pc[n]
            /\ a # Main => pc'[a] = "over"
      /\ \A n \in Messages : n # a => pc'[n] = pc[n]
  <2>1. act[a] \in Acts
    BY <1>t
  <2>2. CASE i + 1 = Packets[c]
    BY <1>1, <1>2, <1>t, <2>1, <2>2 DEF Return, Acts
  <2>3. CASE i + 1 # Packets[c]
    BY <1>1, <1>2, <1>t, <2>3, Names DEF Return, Idle
  <2> QED
    BY <2>2, <2>3
<1>p. /\ pc'[c] \in {"send", "over"}
      /\ pc'[c] = "send" => a = c /\ i + 1 = Packets[c]
      /\ \A n \in Messages : n # c => pc'[n] = pc[n]
      /\ \A n \in Messages : pc'[n] = pc[n] \/ (pc[n] = "send" /\ pc'[n] = "over")
  BY <1>2, <1>5, Names DEF SendInv, CurrentInv
<1>6. QueueInv'
  BY <1>1 DEF SendInv, QueueInv
<1>7. BlockInv'
  BY <1>1, <1>p DEF SendInv, BlockInv, Due
<1>8. CurrentInv'
  BY <1>1, <1>p DEF SendInv, CurrentInv
<1>9. ActInv'
  <2>1. a # Main => (act'[a].at # "idle" => pc'[a] = "send")
    BY <1>2, <1>5
  <2>2. a = Main => \A n \in Messages : Due(n)' => pc'[n] = "create"
    BY <1>0, <1>p DEF SendInv, ActInv, Due
  <2> QED
    BY <1>1, <1>5, <2>1, <2>2, Names DEF ActInv
<1>10. TaskInv'
  <2>1. ASSUME NEW n \in Messages, n # c
        PROVE  /\ pc'[n] \in {"none", "create", "kind"} => task'[n] = NoTask
               /\ pc'[n] \in {"data", "key"} =>
                     /\ task'[n].kind = Kind[n] /\ ~task'[n].done
                     /\ task'[n].off = 0 /\ task'[n].index = 0
               /\ pc'[n] = "key" => task'[n].data = n
               /\ pc'[n] = "send" /\ act'[n].at = "idle" => Made(n, 0, 0)'
               /\ current' # n
    <3>1. n # a /\ act'[n] = act[n]
      BY <1>2, <1>5, <2>1, Names
    <3> QED
      BY <1>1, <1>4, <1>p, <2>1, <3>1 DEF SendInv, TaskInv, Made
  <2>2. pc'[c] \in {"send", "over"}
        /\ (pc'[c] = "send" => act'[c].at # "idle")
        /\ (act'[Main].at = "idle" /\ pc'[c] = "over" => i + 1 # Packets[c])
    <3>1. CASE i + 1 = Packets[c]
      BY <1>2, <1>5, <1>p, <3>1, Names
    <3>2. CASE i + 1 # Packets[c]
      BY <1>p, <3>2
    <3> QED
      BY <3>1, <3>2
  <2>3. act'[a].at \in {"idle", "finish"}
        /\ (act'[a].at = "finish" => act'[a].task = c /\ i + 1 = Packets[c])
    BY <1>5
  <2>4. i + 1 # Packets[c] => i + 1 < Packets[c]
    BY <1>1, SendAssumption DEF SendAssumption
  <2>5. /\ i + 1 = Packets[c] => Made(c, Packets[c], Packets[c])'
        /\ Made(c, task[c].index, task[c].index)'
    BY <1>4
  <2>6. \A n \in Messages :
           /\ pc'[n] \in {"none", "create", "kind"} => task'[n] = NoTask
           /\ pc'[n] \in {"data", "key"} =>
                 /\ task'[n].kind = Kind[n] /\ ~task'[n].done
                 /\ task'[n].off = 0 /\ task'[n].index = 0
           /\ pc'[n] = "key" => task'[n].data = n
           /\ pc'[n] = "send" /\ act'[n].at = "idle" => Made(n, 0, 0)'
           /\ pc'[n] = "over" /\ current' = n /\ act'[Main].at = "idle" =>
                 /\ Made(n, task[n].index, task[n].index)'
                 /\ task'[n].index < Packets[n]
    BY <1>4, <2>1, <2>2, <2>4, <2>5
  <2>7. \A b \in Actors :
           /\ act'[b].at \in {"idle", "finish"}
           /\ act'[b].at = "finish" =>
                 Made(act[b].task, Packets[act[b].task], Packets[act[b].task])'
    <3>1. act'[a].at = "finish" =>
              Made(act[a].task, Packets[act[a].task], Packets[act[a].task])'
      BY <1>4, <1>5, <2>3 DEF Made
    <3> QED
      BY <1>5, <2>3, <3>1
  <2> QED
    BY <2>6, <2>7 DEF TaskInv
<1>11. WireInv'
  <2>1. \A n \in begun' : task'[n].index > 0
    BY <1>1, <1>4, <1>t DEF SendInv, WireInv
  <2>2. CASE link[s] # "up"
    <3>1. wire' = wire /\ wire[s] = << >>
      BY <1>1, <2>2 DEF SendInv, WireInv
    <3> QED
      BY <1>1, <1>3, <1>t, <2>1, <2>2, <3>1 DEF WireInv, IsOpen
  <2>3. CASE link[s] = "up"
    <3>1. /\ wire'[s] \in Seq(Cells) /\ wire'[s] # << >>
          /\ Last(wire'[s]) = Cell(act[a]) /\ c \in begun'
          /\ wire' \in [Sockets -> Seq(Cells)]
      <4>1. wire' = [wire EXCEPT ![s] = Append(wire[s], Cell(act[a]))]
            /\ c \in begun' /\ Cell(act[a]) \in Cells
        BY <1>1, <2>3
      <4>2. wire'[s] = Append(wire[s], Cell(act[a])) /\ wire[s] \in Seq(Cells)
        BY <1>t, <4>1
      <4>3. /\ Append(wire[s], Cell(act[a])) \in Seq(Cells)
            /\ Append(wire[s], Cell(act[a])) # << >>
            /\ Last(Append(wire[s], Cell(act[a]))) = Cell(act[a])
        BY <4>1, <4>2, LastOfAppend
      <4> QED
        BY <1>t, <4>1, <4>2, <4>3
    <3>2. Last(wire'[s]).of = c /\ Last(wire'[s]).part = i
      BY <1>1, <3>1
    <3>3. Precedes(s, c)'
      BY <1>4, <3>1, <3>2 DEF Precedes
    <3>4. IsOpen(s)' => op'[c] = "executing"
      BY <1>1, <3>2 DEF IsOpen, SendInv, CurrentInv
    <3> QED
      BY <1>1, <1>3, <2>1, <2>3, <3>1, <3>3, <3>4 DEF WireInv
  <2> QED
    BY <2>2, <2>3
<1>12. DownInv'
  BY <1>1, <1>2 DEF DownInv
<1>13. FollowInv'
  BY <1>1, <1>3, <1>t DEF FollowInv
<1> QED
  BY <1>6, <1>7, <1>8, <1>9, <1>10, <1>11, <1>12, <1>13 DEF SendInv

(* The queue without its first element.                                    *)
LEMMA DequeueKeeps ==
    ASSUME TypeOK, QueueInv, queue # << >>
    PROVE  LET q == Without(Head(queue)) IN
           /\ \A i, j \in DOMAIN q : q[i] = q[j] => i = j
           /\ ToSet(q) = ToSet(queue) \ {Head(queue)}
           /\ q \in Seq(Messages)
<1> DEFINE q == Tail(queue)
<1>1. queue \in Seq(Messages)
  BY TypeParts
<1>2. Without(Head(queue)) = q
  BY <1>1, WithoutHead DEF QueueInv
<1>3. /\ Len(queue) \in Nat /\ DOMAIN queue = 1..Len(queue) /\ Len(queue) # 0
      /\ q \in Seq(Messages) /\ DOMAIN q = 1..Len(q)
      /\ Len(q) = Len(queue) - 1
      /\ \A i \in 1..Len(q) : q[i] = queue[i + 1]
      /\ queue[1] = Head(queue)
  BY <1>1, HeadTailProperties, LenProperties, EmptySeq
<1> HIDE DEF q
<1>4. \A i, j \in DOMAIN q : q[i] = q[j] => i = j
  <2> SUFFICES ASSUME NEW i \in 1..Len(q), NEW j \in 1..Len(q), q[i] = q[j]
               PROVE  i = j
    BY <1>3
  <2>1. i + 1 \in DOMAIN queue /\ j + 1 \in DOMAIN queue
        /\ queue[i + 1] = queue[j + 1]
    BY <1>3
  <2>2. i + 1 = j + 1
    BY <2>1 DEF QueueInv
  <2> QED
    BY <2>2
<1>5. ToSet(q) = ToSet(queue) \ {Head(queue)}
  <2>1. ASSUME NEW i \in 1..Len(q)
        PROVE  q[i] \in ToSet(queue) /\ q[i] # Head(queue)
    <3>1. i + 1 \in DOMAIN queue /\ 1 \in DOMAIN queue /\ i + 1 # 1
          /\ q[i] = queue[i + 1]
      BY <1>3
    <3>2. queue[i + 1] # queue[1]
      BY <3>1 DEF QueueInv
    <3> QED
      BY <1>3, <3>1, <3>2 DEF ToSet
  <2>2. ASSUME NEW k \in DOMAIN queue, queue[k] # Head(queue)
        PROVE  queue[k] \in ToSet(q)
    <3>1. k - 1 \in DOMAIN q /\ q[k - 1] = queue[k]
      BY <1>3, <2>2
    <3> QED
      BY <3>1 DEF ToSet
  <2> QED
    BY <1>3, <2>1, <2>2 DEF ToSet
<1> QED
  BY <1>2, <1>3, <1>4, <1>5

(* The queue after the executing operation m ended.                        *)
LEMMA EndedKeeps ==
    ASSUME SendInv, NEW m \in Messages, op[m] = "executing"
    PROVE  /\ \A i, j \in DOMAIN Without(m) :
                  Without(m)[i] = Without(m)[j] => i = j
           /\ ToSet(Without(m)) = ToSet(queue) \ {m}
           /\ Without(m) \in Seq(Messages)
           /\ queue # << >> /\ m = Head(queue)
<1>1. queue # << >> /\ m = Head(queue)
  BY DEF SendInv, QueueInv
<1> QED
  BY <1>1, DequeueKeeps DEF SendInv

LEMMA InvFinish ==
    ASSUME SendInv, TypeOK', NEW a \in Actors, FinishTask(a)
    PROVE  SendInv'
<1>t. /\ TypeOK /\ act \in [Actors -> Acts] /\ pc \in [Messages -> Places]
      /\ op \in [Messages -> {"unsent", "queued", "executing", "finished"}]
      /\ isCancelled \subseteq Messages /\ queue \in Seq(Messages)
      /\ current \in Messages \cup {NoMsg}
  BY TypeParts DEF SendInv
<1>0. act[a].at = "finish"
  BY DEF FinishTask
<1>c. PICK c \in Messages : c = current
  BY <1>0, ActFacts
<1>1. /\ \A b \in Actors : b # a => act[b].at = "idle"
      /\ act[a].task = c /\ c # NoMsg
      /\ a # Main => a = c
      /\ \A u \in Sockets : link[u] # "down"
      /\ pc[c] \in {"send", "over"}
      /\ a = Main => pc[c] = "over"
  BY <1>0, <1>c, ActFacts, Names
<1>2. Made(c, Packets[c], Packets[c])
  BY <1>0, <1>1 DEF SendInv, TaskInv
<1>3. task[current].key = c /\ task[c].index = Packets[c]
  BY <1>2, <1>c DEF Made
<1>4. /\ current' = NoMsg
      /\ IF op[c] = "executing"
         THEN op' = [op EXCEPT ![c] = "finished"] /\ queue' = Without(c)
         ELSE UNCHANGED <<op, queue>>
      /\ UNCHANGED <<isCancelled, task, pend, link, breaks, wire, begun,
                     withdrawn>>
  BY <1>1, <1>3, <1>c DEF FinishTask, Finish, netVars, history
<1>5. /\ \A b \in Actors : act'[b].at = "idle"
      /\ \A n \in Messages : n # c => pc'[n] = pc[n]
      /\ pc'[c] = "over"
  BY <1>0, <1>1, <1>t DEF FinishTask, Return, Idle
<1>6. \A n \in Messages : op'[n] = "executing" =>
          op[n] = "executing" /\ n # c /\ pc[n] = "create"
          /\ UNCHANGED <<op, queue>>
  <2> SUFFICES ASSUME NEW n \in Messages, op'[n] = "executing"
               PROVE  op[n] = "executing" /\ n # c /\ pc[n] = "create"
                      /\ UNCHANGED <<op, queue>>
    OBVIOUS
  <2>1. op[n] = "executing" /\ n # c
    BY <1>4, <1>t
  <2>2. op[c] # "executing"
    BY <2>1, OneExecuting DEF SendInv
  <2>3. pc[n] = "create"
    BY <1>c, <2>1 DEF SendInv, CurrentInv
  <2> QED
    BY <1>4, <2>1, <2>2, <2>3
<1>7. QueueInv'
  <2>1. CASE op[c] # "executing"
    BY <1>4, <2>1 DEF SendInv, QueueInv
  <2>2. CASE op[c] = "executing"
    <3>1. /\ \A i, j \in DOMAIN queue' : queue'[i] = queue'[j] => i = j
          /\ ToSet(queue') = ToSet(queue) \ {c}
      BY <1>4, <2>2, EndedKeeps
    <3>2. \A i \in DOMAIN queue' : op'[queue'[i]] \in {"queued", "executing"}
      <4>1. \A i \in DOMAIN queue' : queue'[i] \in ToSet(queue) \ {c}
        BY <3>1 DEF ToSet
      <4>2. \A n \in ToSet(queue) : op[n] \in {"queued", "executing"}
        BY DEF SendInv, QueueInv, ToSet
      <4>3. ToSet(queue) \subseteq Messages
        BY <1>t, QueueElements
      <4> QED
        BY <1>4, <1>t, <2>2, <4>1, <4>2, <4>3
    <3>3. \A n \in Messages : op'[n] = "queued" => n \in ToSet(queue')
      BY <1>4, <1>t, <2>2, <3>1 DEF SendInv, QueueInv
    <3>4. \A n \in Messages : op'[n] # "executing"
      BY <1>4, <1>6, <1>t, <2>2
    <3>5. \A n \in isCancelled' : op'[n] = "finished"
      BY <1>4, <1>t, <2>2 DEF SendInv, QueueInv
    <3>6. \A n \in Answers :
              op'[n] # "unsent" => \E k \in withdrawn' : Answer[k] = n
      <4>1. Answers \subseteq Messages
        BY SendAssumption DEF Answers, SendAssumption
      <4> QED
        BY <1>4, <1>t, <2>2, <4>1 DEF SendInv, QueueInv
    <3> QED
      BY <3>1, <3>2, <3>3, <3>4, <3>5, <3>6 DEF QueueInv
  <2> QED
    BY <2>1, <2>2
<1>8. BlockInv'
  <2>1. op[c] \notin {"unsent", "queued"}
    BY <1>1 DEF SendInv, BlockInv
  <2>2. \A n \in Messages : n # c => op'[n] = op[n] /\ pc'[n] = pc[n]
    BY <1>4, <1>5, <1>t
  <2>3. op'[c] = "finished" \/ op'[c] = op[c]
    BY <1>4, <1>t
  <2>4. ASSUME NEW n \in Messages
        PROVE  /\ op'[n] \in {"unsent", "queued"} => pc'[n] = "none"
               /\ op'[n] = "executing" => pc'[n] # "none"
               /\ Due(n)' => op'[n] = "executing"
    <3>1. CASE n = c
      BY <1>5, <2>1, <2>3, <3>1 DEF Due
    <3>2. CASE n # c
      BY <2>2, <3>2 DEF SendInv, BlockInv, Due
    <3> QED
      BY <3>1, <3>2
  <2> QED
    BY <2>4 DEF BlockInv
<1>9. CurrentInv'
  BY <1>1, <1>4, <1>5, <1>6, Names DEF CurrentInv
<1>10. ActInv'
  BY <1>5, Names DEF ActInv
<1>11. TaskInv'
  <2>1. \A n \in Messages : current' # n
    BY <1>4, Names
  <2>2. ASSUME NEW n \in Messages, pc'[n] = "send" PROVE Made(n, 0, 0)'
    <3>1. n # c /\ pc[n] = "send"
      BY <1>5, <2>2
    <3>2. act[n].at = "idle"
      BY <1>1, <3>1, Names
    <3> QED
      BY <1>4, <3>1, <3>2 DEF SendInv, TaskInv, Made
  <2> QED
    BY <1>4, <1>5, <2>1, <2>2 DEF SendInv, TaskInv
<1>12. WireInv'
  <2>1. \A s \in Sockets : ~IsOpen(s)
    BY <1>3, <1>c DEF SendInv, WireInv, IsOpen, Precedes
  <2>2. \A n \in Messages : current' # n
    BY <1>4, Names
  <2> QED
    BY <1>4, <2>1, <2>2 DEF SendInv, WireInv, IsOpen
<1>13. DownInv'
  BY <1>1, <1>4 DEF DownInv
<1>14. FollowInv'
  BY <1>5, <1>6 DEF FollowInv
<1> QED
  BY <1>7, <1>8, <1>9, <1>10, <1>11, <1>12, <1>13, <1>14 DEF SendInv

-----------------------------------------------------------------------------
(* The invariant is kept: cancelling, and the connections.                 *)

(* cancelSendingTask, with its cases told apart: the operation of m ends   *)
(* if it is executing, and if m is answered, its answer is queued.         *)
LEMMA CancelFacts ==
    ASSUME SendInv, SendsInOrder, disturbed' = {}, NEW m \in Messages,
           CancelSendingTask(m)
    PROVE  LET answers == current = m /\ Answer[m] # NoMsg
               rest    == IF op[m] = "executing" THEN Without(m) ELSE queue IN
           /\ m \notin withdrawn /\ withdrawn' = withdrawn \cup {m}
           /\ op[m] # "unsent"
           /\ answers => /\ op[m] = "executing" /\ op[Answer[m]] = "unsent"
                         /\ Answer[m] \in Messages /\ Answer[m] # m
           /\ current' = IF answers THEN NoMsg ELSE current
           /\ \A n \in Messages : op'[n] =
                  IF n = m /\ op[m] = "executing" THEN "finished"
                  ELSE IF answers /\ n = Answer[m] THEN "queued"
                  ELSE op[n]
           /\ queue' = IF answers THEN Append(rest, Answer[m]) ELSE rest
           /\ UNCHANGED <<isCancelled, pc, task, act, pend, link, breaks,
                          wire, begun>>
<1> DEFINE answers == current = m /\ Answer[m] # NoMsg
           rest == IF op[m] = "executing" THEN Without(m) ELSE queue
           asked == (current # NoMsg /\ task[current].key = m)
                    /\ Answer[m] # NoMsg
<1>t. /\ TypeOK /\ queue \in Seq(Messages)
      /\ current \in Messages \cup {NoMsg}
  BY TypeParts DEF SendInv
<1>1. /\ m \notin withdrawn /\ withdrawn' = withdrawn \cup {m}
      /\ op[m] # "unsent"
      /\ current' = IF asked THEN NoMsg ELSE current
      /\ op' = [n \in Messages |->
                   IF n = m /\ op[n] = "executing" THEN "finished"
                   ELSE IF asked /\ n = Answer[m] THEN "queued" ELSE op[n]]
      /\ queue' = rest \o (IF asked THEN <<Answer[m]>> ELSE << >>)
      /\ UNCHANGED <<isCancelled, pc, task, act, pend, link, breaks,
                     wire, begun>>
  BY DEF CancelSendingTask, netVars, history
<1>2. asked <=> answers
  <2>1. ASSUME current \in Messages PROVE task[current].key = current
    BY <2>1, NoneDisturbed, QuietFacts DEF CancelSendingTask, Made
  <2> QED
    BY <1>t, <2>1, Names
<1>3. rest \in Seq(Messages)
  BY <1>t, WithoutType
<1>4. ASSUME answers
      PROVE  /\ op[m] = "executing" /\ op[Answer[m]] = "unsent"
             /\ Answer[m] \in Messages /\ Answer[m] # m
  <2>1. op[m] = "executing"
    BY <1>1, <1>4 DEF SendInv, CurrentInv
  <2>2. Answer[m] \in Messages /\ Answer[m] \in Answers /\ Answer[m] # NoMsg
    BY <1>4, SendAssumption DEF SendAssumption, Answers
  <2>3. ASSUME op[Answer[m]] # "unsent" PROVE FALSE
    <3>1. PICK n \in withdrawn : Answer[n] = Answer[m]
      BY <2>2, <2>3 DEF SendInv, QueueInv
    <3>2. n \in Messages
      BY TypeParts DEF SendInv
    <3>3. n = m
      BY <2>2, <3>1, <3>2 DEF SendsInOrder, AnswersAreOwn
    <3> QED
      BY <1>1, <3>3
  <2> QED
    BY <2>1, <2>2, <2>3
<1>5. queue' = IF answers THEN Append(rest, Answer[m]) ELSE rest
  <2>1. CASE answers
    BY <1>1, <1>2, <1>3, <1>4, <2>1, AppendIsConcat
  <2>2. CASE ~answers
    BY <1>1, <1>2, <1>3, <2>2, ConcatEmptySeq
  <2> QED
    BY <2>1, <2>2
<1> QED
  BY <1>1, <1>2, <1>4, <1>5

LEMMA InvCancel ==
    ASSUME SendInv, SendsInOrder, TypeOK', disturbed' = {},
           NEW m \in Messages, CancelSendingTask(m)
    PROVE  SendInv'
<1> DEFINE answers == current = m /\ Answer[m] # NoMsg
           rest == IF op[m] = "executing" THEN Without(m) ELSE queue
           last == Answer[m]
<1>q. queue' \in Seq(Messages)
  BY DEF TypeOK
<1>t. /\ TypeOK /\ queue \in Seq(Messages)
      /\ current \in Messages \cup {NoMsg} /\ isCancelled \subseteq Messages
      /\ op \in [Messages -> {"unsent", "queued", "executing", "finished"}]
      /\ Answers \subseteq Messages
  BY TypeParts, SendAssumption DEF SendInv, Answers, SendAssumption
<1>1. /\ m \notin withdrawn /\ withdrawn' = withdrawn \cup {m}
      /\ op[m] # "unsent"
      /\ answers => /\ op[m] = "executing" /\ op[last] = "unsent"
                    /\ last \in Messages /\ last # m
      /\ current' = IF answers THEN NoMsg ELSE current
      /\ \A n \in Messages : op'[n] =
             IF n = m /\ op[m] = "executing" THEN "finished"
             ELSE IF answers /\ n = last THEN "queued" ELSE op[n]
      /\ queue' = IF answers THEN Append(rest, last) ELSE rest
      /\ UNCHANGED <<isCancelled, pc, task, act, pend, link, breaks,
                     wire, begun>>
  BY CancelFacts
<1>2. /\ Calm /\ \A n \in Messages : ~Due(n)
      /\ \A n \in Messages :
            op[n] = "executing" => pc[n] = "over" /\ current = n
  BY NoneDisturbed, QuietFacts DEF CancelSendingTask
<1>3. /\ \A i, j \in DOMAIN rest : rest[i] = rest[j] => i = j
      /\ ToSet(rest) = {n \in ToSet(queue) : ~(n = m /\ op[m] = "executing")}
      /\ rest \in Seq(Messages)
  <2>1. CASE op[m] = "executing"
    <3>1. /\ \A i, j \in DOMAIN Without(m) :
                Without(m)[i] = Without(m)[j] => i = j
          /\ ToSet(Without(m)) = ToSet(queue) \ {m}
          /\ Without(m) \in Seq(Messages)
      BY <2>1, EndedKeeps
    <3> QED
      BY <2>1, <3>1
  <2>2. CASE op[m] # "executing"
    BY <1>t, <2>2 DEF SendInv, QueueInv
  <2> QED
    BY <2>1, <2>2
<1>4. \A n \in Messages : op'[n] = "executing" =>
          op[n] = "executing" /\ n # m /\ rest = queue /\ ~answers
  BY <1>1, <1>2, OneExecuting DEF SendInv
<1> HIDE DEF rest
<1>5. /\ \A i, j \in DOMAIN queue' : queue'[i] = queue'[j] => i = j
      /\ ToSet(queue') = ToSet(rest) \cup (IF answers THEN {last} ELSE {})
  <2>1. CASE answers
    <3>1. last \notin ToSet(queue)
      BY <1>1, <2>1 DEF SendInv, QueueInv, ToSet
    <3> QED
      BY <1>1, <1>3, <2>1, <3>1, EnqueueKeeps
  <2>2. CASE ~answers
    BY <1>1, <1>3, <2>2
  <2> QED
    BY <2>1, <2>2
<1>6. QueueInv'
  <2>1. \A i \in DOMAIN queue' : op'[queue'[i]] \in {"queued", "executing"}
    <3>1. \A i \in DOMAIN queue' : queue'[i] \in ToSet(queue')
      BY DEF ToSet
    <3>2. \A n \in ToSet(queue) : op[n] \in {"queued", "executing"}
      BY DEF SendInv, QueueInv, ToSet
    <3>3. ToSet(queue) \subseteq Messages
      BY <1>t, QueueElements
    <3> QED
      BY <1>1, <1>3, <1>5, <3>1, <3>2, <3>3
  <2>2. \A n \in Messages : op'[n] = "queued" => n \in ToSet(queue')
    <3>1. \A n \in Messages : op[n] = "queued" => n \in ToSet(queue)
      BY DEF SendInv, QueueInv
    <3> QED
      BY <1>1, <1>3, <1>5, <3>1
  <2>3. \A n \in Messages :
            op'[n] = "executing" => queue' # << >> /\ Head(queue') = n
    BY <1>1, <1>4 DEF SendInv, QueueInv
  <2>4. \A n \in isCancelled' : op'[n] = "finished"
    BY <1>1, <1>t DEF SendInv, QueueInv
  <2>5. \A n \in Answers :
            op'[n] # "unsent" => \E k \in withdrawn' : Answer[k] = n
    <3>1. \A n \in Answers :
              op[n] # "unsent" => \E k \in withdrawn : Answer[k] = n
      BY DEF SendInv, QueueInv
    <3>2. \A n \in Answers :
              op'[n] # "unsent" => op[n] # "unsent" \/ n = Answer[m]
      BY <1>1, <1>t
    <3> QED
      BY <1>1, <3>1, <3>2
  <2> QED
    BY <1>5, <2>1, <2>2, <2>3, <2>4, <2>5 DEF QueueInv
<1>7. BlockInv'
  <2>1. \A n \in Messages : op'[n] \in {"unsent", "queued"} =>
            op[n] \in {"unsent", "queued"}
    BY <1>1
  <2> QED
    BY <1>1, <1>2, <1>4, <2>1 DEF SendInv, BlockInv, Due
<1>8. CurrentInv'
  <2>1. ASSUME NEW n \in Messages, current' = n, op'[n] # "executing"
        PROVE  n \in withdrawn'
    BY <1>1, <2>1, Names DEF SendInv, CurrentInv
  <2>2. ASSUME NEW n \in Messages, current' = n
        PROVE  pc'[n] \notin {"none", "create"}
    BY <1>1, <2>2, Names DEF SendInv, CurrentInv
  <2>3. ASSUME NEW n \in Messages, op'[n] = "executing" PROVE current' = n
    BY <1>1, <1>2, <1>4, <2>3
  <2> QED
    BY <2>1, <2>2, <2>3 DEF CurrentInv
<1>9. ActInv'
  BY <1>1, <1>2, Names DEF ActInv, Calm
<1>10. TaskInv'
  <2>1. \A n \in Messages : current' = n => current = n
    BY <1>1, Names
  <2> QED
    BY <1>1, <2>1 DEF SendInv, TaskInv, Made
<1>11. WireInv'
  <2>1. \A n \in Messages : current' = n => current = n
    BY <1>1, Names
  <2>2. ASSUME NEW s \in Sockets, IsOpen(s)'
        PROVE  /\ current' \in Messages /\ op'[current'] = "executing"
               /\ Precedes(s, current)'
    <3>1. IsOpen(s) /\ Last(wire[s]).of # m
      BY <1>1, <2>2 DEF IsOpen
    <3>2. /\ current \in Messages /\ op[current] = "executing"
          /\ Precedes(s, current)
      BY <3>1 DEF SendInv, WireInv
    <3>3. current # m
      BY <3>1, <3>2 DEF Precedes
    <3> QED
      BY <1>1, <3>2, <3>3 DEF Precedes
  <2> QED
    BY <1>1, <2>1, <2>2 DEF SendInv, WireInv, IsGoingOn, Precedes
<1>12. DownInv'
  <2> SUFFICES ASSUME NEW s \in Sockets, link'[s] = "down"
               PROVE  queue' = << >> /\ pend'[s] = 0 /\ Calm'
    BY DEF DownInv
  <2>1. queue = << >> /\ pend[s] = 0
    BY <1>1 DEF SendInv, DownInv
  <2>2. op[m] # "executing"
    BY <2>1 DEF SendInv, QueueInv
  <2> QED
    BY <1>1, <1>2, <2>1, <2>2 DEF Calm, rest
<1>13. FollowInv'
  BY <1>1, <1>4 DEF SendInv, FollowInv, Calm
<1> QED
  BY <1>6, <1>7, <1>8, <1>9, <1>10, <1>11, <1>12, <1>13 DEF SendInv

(* All operations are cancelled, by the app or for a connection that was   *)
(* lost.                                                                   *)
LEMMA InvCancelAll ==
    ASSUME SendInv, TypeOK', CancelAll, MainIsFree, DueBlocks = {},
           UNCHANGED <<pc, current, task, act, breaks, wire, begun>>,
           \/ UNCHANGED <<link, pend>>
           \/ \E s \in Sockets :
                 /\ link[s] = "broken" /\ link' = [link EXCEPT ![s] = "down"]
                 /\ pend' = [pend EXCEPT ![s] = 0]
    PROVE  SendInv'
<1>t. /\ TypeOK /\ queue \in Seq(Messages)
      /\ current \in Messages \cup {NoMsg} /\ isCancelled \subseteq Messages
      /\ link \in [Sockets -> {"up", "broken", "down"}]
      /\ pend \in [Sockets -> Nat]
      /\ op \in [Messages -> {"unsent", "queued", "executing", "finished"}]
      /\ Answers \subseteq Messages /\ ToSet(queue) \subseteq Messages
  BY TypeParts, QueueElements, SendAssumption
  DEF SendInv, Answers, SendAssumption
<1>1. /\ \A n \in Messages : op'[n] =
             IF op[n] \in {"queued", "executing"} THEN "finished" ELSE op[n]
      /\ queue' = << >>
      /\ isCancelled' = isCancelled \cup ToSet(queue)
      /\ withdrawn' = withdrawn \cup ToSet(queue)
  BY DEF CancelAll
<1>2. /\ Calm /\ \A n \in Messages : ~Due(n)
  BY QuietFacts
<1>3. \A n \in Messages : op[n] = "executing" => n \in ToSet(queue)
  <2>1. ASSUME NEW n \in Messages, op[n] = "executing" PROVE n \in ToSet(queue)
    <3>1. queue # << >> /\ Head(queue) = n
      BY <2>1 DEF SendInv, QueueInv
    <3>2. 1 \in DOMAIN queue /\ queue[1] = n
      BY <1>t, <3>1, LenProperties, EmptySeq, HeadTailProperties
    <3> QED
      BY <3>2 DEF ToSet
  <2> QED
    BY <2>1
<1>4. \A n \in ToSet(queue) : op[n] \in {"queued", "executing"}
  BY DEF SendInv, QueueInv, ToSet
<1>5. \A n \in Messages : op'[n] \in {"unsent", "finished"}
      /\ (op'[n] = "unsent" <=> op[n] = "unsent")
  BY <1>1, <1>t
<1>6. \A s \in Sockets :
          /\ link'[s] = "up" <=> link[s] = "up"
          /\ link'[s] # "up" => link[s] # "up"
          /\ link'[s] = "up" => pend'[s] = pend[s]
          /\ link'[s] = "down" => pend'[s] = 0
  BY <1>t DEF SendInv, DownInv
<1>7. QueueInv'
  <2>1. DOMAIN queue' = {}
    BY <1>1, LenProperties, EmptySeq
  <2>2. \A n \in isCancelled' : op'[n] = "finished"
    BY <1>1, <1>4, <1>t DEF SendInv, QueueInv
  <2> QED
    BY <1>1, <1>5, <1>t, <2>1, <2>2 DEF SendInv, QueueInv
<1>8. BlockInv'
  BY <1>2, <1>5 DEF SendInv, BlockInv, Due
<1>9. CurrentInv'
  BY <1>1, <1>3, <1>5 DEF SendInv, CurrentInv
<1>10. ActInv'
  BY <1>2, Names DEF ActInv, Calm
<1>11. TaskInv'
  BY DEF SendInv, TaskInv, Made
<1>12. WireInv'
  <2>1. ASSUME NEW s \in Sockets, IsOpen(s)' PROVE FALSE
    <3>1. IsOpen(s) /\ Last(wire[s]).of \notin ToSet(queue)
      BY <1>1, <2>1 DEF IsOpen
    <3>2. /\ current \in Messages /\ op[current] = "executing"
          /\ Precedes(s, current)
      BY <3>1 DEF SendInv, WireInv
    <3> QED
      BY <1>3, <3>1, <3>2 DEF Precedes
  <2>2. ASSUME NEW s \in Sockets, link'[s] = "up", IsGoingOn(s)'
        PROVE  link[s] = "up" /\ IsGoingOn(s)
    BY <1>6, <2>2 DEF IsGoingOn
  <2> QED
    BY <1>6, <2>1, <2>2 DEF SendInv, WireInv, Precedes
<1>13. DownInv'
  BY <1>1, <1>2, <1>6 DEF DownInv, Calm
<1>14. FollowInv'
  BY <1>5 DEF FollowInv
<1> QED
  BY <1>7, <1>8, <1>9, <1>10, <1>11, <1>12, <1>13, <1>14 DEF SendInv

LEMMA InvLink ==
    ASSUME SendInv, SendsInOrder, TypeOK', NEW s \in Sockets,
           Break(s) \/ DidConnect(s)
    PROVE  SendInv'
<1>t. /\ TypeOK /\ link \in [Sockets -> {"up", "broken", "down"}]
      /\ wire \in [Sockets -> Seq(Cells)] /\ << >> \in Seq(Cells)
  BY TypeParts, EmptySeq DEF SendInv, WireInv
<1>1. UNCHANGED <<op, queue, isCancelled, pc, current, task, act, pend,
                  begun, withdrawn>>
  BY DEF Break, DidConnect, queueVars, taskVars, history
<1>2. Break(s) => /\ link' = [link EXCEPT ![s] = "broken"]
                  /\ wire' = [wire EXCEPT ![s] = << >>]
  BY DEF Break
<1>3. DidConnect(s) => /\ link[s] = "down" /\ wire' = wire
                       /\ link' = [link EXCEPT ![s] = "up"]
                       /\ queue = << >> /\ pend[s] = 0 /\ Calm
  BY DEF DidConnect, history, SendInv, DownInv
<1>4. QueueInv' /\ BlockInv' /\ CurrentInv'
  BY <1>1 DEF SendInv, QueueInv, BlockInv, CurrentInv, Due
<1>5. ActInv'
  BY <1>1 DEF SendInv, ActInv, Due
<1>6. TaskInv'
  BY <1>1 DEF SendInv, TaskInv, Made
<1>7. WireInv'
  <2>1. wire' \in [Sockets -> Seq(Cells)]
    BY <1>2, <1>3, <1>t
  <2>2. ASSUME NEW u \in Sockets
        PROVE  /\ link'[u] # "up" => wire'[u] = << >>
               /\ wire'[u] \in {<< >>, wire[u]}
               /\ link'[u] = "up" /\ IsGoingOn(u)' =>
                     link[u] = "up" /\ IsGoingOn(u) /\ wire'[u] = wire[u]
    <3>1. CASE Break(s)
      BY <1>1, <1>2, <1>t, <3>1 DEF SendInv, WireInv, IsGoingOn
    <3>2. CASE DidConnect(s)
      BY <1>1, <1>3, <1>t, <3>2 DEF SendInv, WireInv, IsGoingOn, Calm
    <3> QED
      BY <3>1, <3>2
  <2>3. ASSUME NEW u \in Sockets, IsOpen(u)'
        PROVE  IsOpen(u) /\ wire'[u] = wire[u]
    BY <1>1, <2>2, <2>3 DEF IsOpen
  <2> QED
    BY <1>1, <2>1, <2>2, <2>3 DEF SendInv, WireInv, Precedes
<1>8. DownInv'
  BY <1>1, <1>2, <1>3, <1>t DEF SendInv, DownInv, Calm
<1>9. FollowInv'
  <2>1. CASE Break(s)
    BY <1>1, <1>2, <1>t, <2>1 DEF SendInv, FollowInv, Calm
  <2>2. CASE DidConnect(s)
    <3>1. \A m \in Messages : op[m] # "executing"
      BY <1>3, <2>2 DEF SendInv, QueueInv
    <3> QED
      BY <1>1, <3>1 DEF FollowInv
  <2> QED
    BY <2>1, <2>2
<1> QED
  BY <1>4, <1>5, <1>6, <1>7, <1>8, <1>9 DEF SendInv

LEMMA InvUnchanged == ASSUME SendInv, UNCHANGED vars PROVE SendInv'
<1>1. UNCHANGED <<op, queue, isCancelled, pc, current, task, act, pend, link,
                  breaks, wire, begun, withdrawn, disturbed>>
  BY DEF vars, queueVars, taskVars, netVars, history
<1>2. TypeOK'
  BY <1>1 DEF SendInv, TypeOK
<1>3. QueueInv' /\ BlockInv' /\ CurrentInv'
  BY <1>1 DEF SendInv, QueueInv, BlockInv, CurrentInv, Due
<1>4. ActInv' /\ TaskInv'
  BY <1>1 DEF SendInv, ActInv, TaskInv, Due, Made
<1>5. WireInv' /\ DownInv' /\ FollowInv'
  BY <1>1 DEF SendInv, WireInv, DownInv, FollowInv, IsOpen, Precedes,
              IsGoingOn, Calm
<1> QED
  BY <1>2, <1>3, <1>4, <1>5 DEF SendInv

-----------------------------------------------------------------------------
(* The theorems.                                                           *)

LEMMA InvInit == Init => SendInv
<1> SUFFICES ASSUME Init PROVE SendInv
  OBVIOUS
<1>1. TypeOK
  BY SendAssumption, EmptySeq
  DEF Init, TypeOK, SendAssumption, NoTask, Idle, Places
<1>2. QueueInv
  <2>1. DOMAIN queue = {}
    BY LenProperties, EmptySeq DEF Init
  <2>2. Answers \subseteq Messages
    BY SendAssumption DEF Answers, SendAssumption
  <2> QED
    BY <2>1, <2>2 DEF Init, QueueInv
<1>3. BlockInv /\ CurrentInv
  BY Names DEF Init, BlockInv, CurrentInv, Due
<1>4. ActInv /\ TaskInv
  BY Names DEF Init, ActInv, TaskInv, Due, Idle
<1>5. WireInv
  <2>1. wire \in [Sockets -> Seq(Cells)]
    BY EmptySeq DEF Init
  <2> QED
    BY <2>1, Names DEF Init, WireInv, IsOpen
<1>6. DownInv /\ FollowInv
  BY DEF Init, DownInv, FollowInv
<1> QED
  BY <1>1, <1>2, <1>3, <1>4, <1>5, <1>6 DEF SendInv

LEMMA InvStep ==
    ASSUME SendsInOrder, SendInv, [Next]_vars, disturbed' = {}
    PROVE  SendInv'
<1>t. TypeOK'
  <2>1. DataIsThere
    <3> SUFFICES ASSUME NEW a \in Actors, act[a].at \in {"cut", "write"}
                 PROVE  act[a].task \in Messages
                        /\ task[act[a].task].data \in Messages
      BY DEF DataIsThere
    <3>1. act[a].task \in Messages
      BY ActFacts
    <3> QED
      BY <3>1 DEF SendInv, TaskInv, Made
  <2> QED
    BY <2>1, TypeStep DEF SendInv
<1>1. CASE StartOperation
  BY <1>1, <1>t, InvStart
<1>2. ASSUME NEW m \in Messages, Send(m) PROVE SendInv'
  BY <1>2, <1>t, InvSend
<1>3. ASSUME NEW m \in Messages, Block(m) PROVE SendInv'
  BY <1>3, <1>t, InvCreate, InvSetTask, InvSendFirst DEF Block
<1>4. ASSUME NEW m \in Messages, CancelSendingTask(m) PROVE SendInv'
  BY <1>4, <1>t, InvCancel
<1>5. ASSUME NEW a \in Actors, SendBody(a) PROVE SendInv'
  BY <1>5, <1>t, InvCut, InvWrite, InvFinish DEF SendBody
<1>6. ASSUME NEW s \in Sockets, DidWrite(s) PROVE SendInv'
  BY <1>6, <1>t, InvDidWrite
<1>7. ASSUME NEW s \in Sockets, Break(s) \/ DidConnect(s) PROVE SendInv'
  BY <1>7, <1>t, InvLink
<1>8. ASSUME NEW s \in Sockets, DidDisconnect(s) PROVE SendInv'
  BY <1>8, <1>t, NoneDisturbed, InvCancelAll
  DEF DidDisconnect, taskVars, history
<1>9. CASE CancelSendingAll
  BY <1>9, <1>t, NoneDisturbed, InvCancelAll
  DEF CancelSendingAll, taskVars, netVars, history
<1>10. CASE UNCHANGED vars
  BY <1>10, InvUnchanged
<1> QED
  BY <1>1, <1>2, <1>3, <1>4, <1>5, <1>6, <1>7, <1>8, <1>9, <1>10 DEF Next

(* Who was disturbed stays so.                                             *)
LEMMA DisturbedGrows == ASSUME [Next]_vars PROVE disturbed \subseteq disturbed'
<1>1. \A S : Disturb(S) => disturbed \subseteq disturbed'
  BY DEF Disturb
<1>2. ASSUME NEW m \in Messages, Block(m)
      PROVE  disturbed \subseteq disturbed'
  BY <1>1, <1>2
  DEF Block, Create, SetKind, SetData, SetKey, SetTask, SendFirst,
      DisturbIfMainIsBusy
<1>3. ASSUME NEW m \in Messages, Send(m) \/ CancelSendingTask(m)
      PROVE  disturbed \subseteq disturbed'
  BY <1>1, <1>3 DEF Send, CancelSendingTask
<1>4. ASSUME NEW a \in Actors, SendBody(a)
      PROVE  disturbed \subseteq disturbed'
  BY <1>4 DEF SendBody, CutBody, WriteCell, FinishTask
<1>5. ASSUME NEW s \in Sockets,
             DidWrite(s) \/ Break(s) \/ DidDisconnect(s) \/ DidConnect(s)
      PROVE  disturbed \subseteq disturbed'
  BY <1>1, <1>5 DEF DidWrite, Break, DidDisconnect, DidConnect
<1>6. CASE StartOperation \/ CancelSendingAll \/ UNCHANGED vars
  BY <1>1, <1>6 DEF StartOperation, CancelSendingAll, vars
<1> QED
  BY <1>2, <1>3, <1>4, <1>5, <1>6 DEF Next

(* What holds as long as no block was disturbed.                           *)
UndisturbedInv == disturbed = {} => SendInv

LEMMA InvAlways == SendsInOrder => (Spec => []UndisturbedInv)
<1> SUFFICES ASSUME SendsInOrder PROVE Spec => []UndisturbedInv
  OBVIOUS
<1>1. Init => UndisturbedInv
  BY InvInit DEF UndisturbedInv
<1>2. UndisturbedInv /\ [Next]_vars => UndisturbedInv'
  BY InvStep, DisturbedGrows DEF UndisturbedInv
<1> QED
  BY <1>1, <1>2, PTL DEF Spec

(* As long as the main thread has not disturbed a block, the queue of      *)
(* operations is never stuck: while an operation is executing whose block  *)
(* is over, somebody is in sendBodyMessage, or a packet is still to be     *)
(* reported written, or the connection is about to be reported lost.       *)
THEOREM QueueIsNeverStuck == SendsInOrder => (Spec => []QueueFollows)
<1> SUFFICES ASSUME SendsInOrder PROVE Spec => []QueueFollows
  OBVIOUS
<1>1. SendInv => TasksFollow
  <2> SUFFICES ASSUME SendInv, NEW m \in Messages, op[m] = "executing",
                      pc[m] = "over", Calm
               PROVE  \E s \in Sockets : pend[s] > 0 \/ link[s] = "broken"
    BY DEF TasksFollow, Calm
  <2>1. Dest[m] \in Sockets /\ link[Dest[m]] \in {"up", "broken", "down"}
    BY TypeParts, SendAssumption DEF SendInv, SendAssumption
  <2>2. link[Dest[m]] # "down"
    BY <2>1 DEF SendInv, DownInv, QueueInv
  <2>3. link[Dest[m]] = "up" => pend[Dest[m]] > 0
    BY <2>1 DEF SendInv, FollowInv
  <2> QED
    BY <2>1, <2>2, <2>3
<1>2. UndisturbedInv => QueueFollows
  BY <1>1 DEF UndisturbedInv, QueueFollows
<1>3. Spec => []UndisturbedInv
  BY InvAlways
<1> QED
  BY <1>2, <1>3, PTL

(* Each step of the sending half is one of the stream it promises, or      *)
(* leaves the stream as it is.                                             *)
LEMMA StreamStep ==
    ASSUME UndisturbedInv, SendsInOrder, [Next]_vars
    PROVE  [Stream!Next]_(Stream!streamVars)
<1>d. disturbed \subseteq disturbed'
  BY DisturbedGrows
<1>n. disturbed' # {} => Stream!Next
  BY <1>d DEF Stream!Next
<1> SUFFICES ASSUME disturbed' = {}
             PROVE  [Stream!Next]_(Stream!streamVars)
  BY <1>n
<1>i. SendInv /\ disturbed' = disturbed
  BY <1>d DEF UndisturbedInv
<1>p. Stream!Proceed => Stream!Next
  BY DEF Stream!Next
<1>1. ASSUME UNCHANGED <<wire, begun, withdrawn>>
      PROVE  [Stream!Next]_(Stream!streamVars)
  BY <1>1, <1>i DEF Stream!streamVars
<1>2. ASSUME NEW S \in SUBSET Messages, withdrawn' = withdrawn \cup S,
             UNCHANGED <<wire, begun>>
      PROVE  [Stream!Next]_(Stream!streamVars)
  BY <1>2, <1>p DEF Stream!Proceed, Stream!Withdraw
<1>3. CASE StartOperation
  BY <1>1, <1>3 DEF StartOperation, history
<1>4. ASSUME NEW m \in Messages, Send(m)
      PROVE  [Stream!Next]_(Stream!streamVars)
  BY <1>1, <1>4 DEF Send, history
<1>5. ASSUME NEW m \in Messages, Block(m)
      PROVE  [Stream!Next]_(Stream!streamVars)
  <2>1. Create(m) => UNCHANGED <<wire, begun, withdrawn>>
    BY DEF Create, history
  <2>2. SetKind(m) => UNCHANGED <<wire, begun, withdrawn>>
    BY DEF SetKind, SetTask, history
  <2>3. SetData(m) => UNCHANGED <<wire, begun, withdrawn>>
    BY DEF SetData, SetTask, history
  <2>4. SetKey(m) => UNCHANGED <<wire, begun, withdrawn>>
    BY DEF SetKey, SetTask, history
  <2>5. SendFirst(m) => UNCHANGED <<wire, begun, withdrawn>>
    BY DEF SendFirst, history
  <2> QED
    BY <1>1, <1>5, <2>1, <2>2, <2>3, <2>4, <2>5 DEF Block
<1>6. ASSUME NEW m \in Messages, CancelSendingTask(m)
      PROVE  [Stream!Next]_(Stream!streamVars)
  BY <1>2, <1>6 DEF CancelSendingTask, history
<1>7. ASSUME NEW a \in Actors, WriteCell(a)
      PROVE  [Stream!Next]_(Stream!streamVars)
  <2>w. PICK c \in Messages, i \in Nat, s \in Sockets : Writes(a, c, i, s)
    BY <1>7, <1>i, WriteFacts
  <2>1. /\ current = c /\ i < Packets[c]
        /\ Made(c, i + 1, i)
        /\ Cell(act[a]) = [key |-> c, index |-> i, of |-> c, part |-> i]
        /\ IF link[s] = "up"
           THEN /\ wire' = [wire EXCEPT ![s] = Append(@, Cell(act[a]))]
                /\ begun' = begun \cup {c}
           ELSE UNCHANGED <<wire, begun>>
        /\ UNCHANGED withdrawn
    BY <2>w DEF Writes
  <2>2. CASE link[s] # "up"
    BY <1>1, <2>1, <2>2
  <2>3. CASE link[s] = "up" /\ i > 0
    <3>1. Precedes(s, c) /\ c \in begun
      BY <1>7, <1>i, <2>1, <2>3 DEF WriteCell, SendInv, WireInv, IsGoingOn, Made
    <3>2. /\ wire[s] # << >> /\ Stream!LastOf(s).of = c
          /\ Stream!LastOf(s).part + 1 = i
      BY <2>1, <3>1 DEF Precedes, Made, Stream!LastOf, Last
    <3>3. Cell(act[a]) = Stream!Packet(Stream!LastOf(s).of,
                                       Stream!LastOf(s).part + 1)
      BY <2>1, <3>2 DEF Stream!Packet
    <3>4. begun' = begun
      BY <2>1, <2>3, <3>1
    <3>5. Stream!Continue(s)
      BY <2>1, <2>3, <3>2, <3>3, <3>4 DEF Stream!Continue
    <3> QED
      BY <1>p, <3>5 DEF Stream!Proceed
  <2>4. CASE link[s] = "up" /\ i = 0
    <3>1. Dest[c] = s
      BY SendAssumption DEF SendsInOrder, OneConnection, SendAssumption
    <3>2. c \notin begun
      BY <1>i, <2>1, <2>4 DEF SendInv, WireInv, Made
    <3>3. ASSUME IsOpen(s) PROVE FALSE
      <4>1. Precedes(s, c)
        BY <1>i, <2>1, <3>3 DEF SendInv, WireInv
      <4>2. Last(wire[s]) \in Cells
        BY <1>i, <4>1, LenProperties, ElementOfSeq, EmptySeq
        DEF SendInv, WireInv, Precedes, Last
      <4> QED
        BY <2>1, <2>4, <4>1, <4>2 DEF Precedes, Made, Cells
    <3>4. Stream!IsOver(s)
      BY <3>3 DEF IsOpen, Stream!IsOver, Stream!LastOf, Last
    <3>5. Cell(act[a]) = Stream!Packet(c, 0)
      BY <2>1, <2>4 DEF Stream!Packet
    <3>6. Stream!Begin(c)
      BY <2>1, <2>4, <3>1, <3>2, <3>4, <3>5 DEF Stream!Begin
    <3> QED
      BY <1>p, <3>6 DEF Stream!Proceed
  <2> QED
    BY <2>1, <2>2, <2>3, <2>4
<1>8. ASSUME NEW a \in Actors, CutBody(a) \/ FinishTask(a)
      PROVE  [Stream!Next]_(Stream!streamVars)
  BY <1>1, <1>8 DEF CutBody, FinishTask, history
<1>9. ASSUME NEW s \in Sockets, DidWrite(s) \/ DidConnect(s)
      PROVE  [Stream!Next]_(Stream!streamVars)
  BY <1>1, <1>9 DEF DidWrite, DidConnect, history
<1>10. ASSUME NEW s \in Sockets, Break(s)
       PROVE  [Stream!Next]_(Stream!streamVars)
  BY <1>10, <1>p DEF Break, Stream!Proceed, Stream!Break
<1>11. ASSUME CancelAll, UNCHANGED history
       PROVE  [Stream!Next]_(Stream!streamVars)
  BY <1>2, <1>11, <1>i, TypeParts, QueueElements DEF CancelAll, history, SendInv
<1>12. ASSUME NEW s \in Sockets, DidDisconnect(s)
       PROVE  [Stream!Next]_(Stream!streamVars)
  BY <1>11, <1>12 DEF DidDisconnect
<1>13. CASE CancelSendingAll
  BY <1>11, <1>13 DEF CancelSendingAll
<1>14. CASE UNCHANGED vars
  BY <1>1, <1>14 DEF vars, history
<1> QED
  BY <1>3, <1>4, <1>5, <1>6, <1>7, <1>8, <1>9, <1>10, <1>12, <1>13, <1>14
  DEF Next, SendBody

(* As long as the main thread has not disturbed a block, what goes over    *)
(* the connection is the stream of the messages meant for it: one message  *)
(* after the other, each from its first packet on, no packet left out,     *)
(* sent twice or under another message's key, and none broken off that     *)
(* nobody withdrew, whatever is cancelled or lost.                         *)
THEOREM SendingImplementsStream == SendsInOrder => (Spec => StreamInOrder)
<1> SUFFICES ASSUME SendsInOrder PROVE Spec => StreamInOrder
  OBVIOUS
<1>1. Init => Stream!Init
  BY DEF Init, Stream!Init
<1>2. UndisturbedInv /\ [Next]_vars => [Stream!Next]_(Stream!streamVars)
  BY StreamStep
<1>3. Spec => []UndisturbedInv
  BY InvAlways
<1> QED
  BY <1>1, <1>2, <1>3, PTL DEF Spec, StreamInOrder, Stream!Spec
=============================================================================
