----------------------------- MODULE SendQueue -----------------------------
(***************************************************************************)
(* The sending half of a PPSocket manager.  A message is an operation of   *)
(* sendMessageQueue, which runs one at a time.  Its block, on a thread of  *)
(* its own, makes a send task, puts it in currentSendMessageTask and sends *)
(* the first packet; every later packet is sent by the main thread, each   *)
(* time a socket reports that a packet was written.  The packet that       *)
(* completes a task finishes the operation, and the queue goes on.         *)
(*                                                                         *)
(* No lock guards currentSendMessageTask.  A block is taken field by field *)
(* and sendBodyMessage in the steps that read and write shared state, and  *)
(* the main thread may come between any two of them.  It does harm there:  *)
(* disturbed records the messages it happened to, and what is promised of  *)
(* the others is promised until it happens.  A task is identified by the   *)
(* message it was made for.  An operator that nothing else uses is a       *)
(* mistake the code might have made; PROJECT.json names the property that  *)
(* notices it.                                                             *)
(***************************************************************************)
EXTENDS Naturals, Sequences, SequencesExt

CONSTANTS
    Sockets,      \* the connections: one for a client, one per client for a server
    Messages,     \* the keys of the messages, each positive
    Kind,         \* Kind[m]: "direct" (data) or "file"
    Packets,      \* Packets[m]: packets of m; 0 for no data, or no such file
    Dest,         \* Dest[m]: the socket m is sent with
    Answer,       \* Answer[m]: the answer to a request to cancel m, or NoMsg
    Cancellable,  \* the messages somebody may ask to cancel
    Allowed,      \* what the app may do besides
    MaxBreaks     \* bound: how often a connection breaks

NoMsg == 0
Main  == 0
Actors == {Main} \cup Messages
Answers == {Answer[m] : m \in Messages} \ {NoMsg}

(* "offline": the app sends when no connection is up.  "cancelAll":        *)
(* cancelRequest without a key.                                            *)
AllAllowed == {"offline", "cancelAll"}

ASSUME SendAssumption ==
    /\ Messages \subseteq Nat \ {0}
    /\ Kind \in [Messages -> {"direct", "file"}]
    /\ Packets \in [Messages -> Nat]
    /\ Dest \in [Messages -> Sockets]
    /\ Answer \in [Messages -> Messages \cup {NoMsg}]
    /\ Cancellable \subseteq Messages
    /\ Allowed \subseteq AllAllowed
    /\ MaxBreaks \in Nat

VARIABLES
    op,           \* op[m]: the operation of message m
    queue,        \* sendMessageQueue.operations
    isCancelled,  \* the operations cancelAllOperations was called on
    pc,           \* pc[m]: where the block of m is
    current,      \* currentSendMessageTask
    task,         \* task[m]: the task the block of m made
    act,          \* act[a]: where actor a is in sendBodyMessage
    pend,         \* pend[s]: packets written, not yet reported
    link,         \* link[s]: whether connection s is up
    wire,         \* wire[s]: the packets written to connection s
    withdrawn,    \* history: the messages somebody asked to cancel
    begun,        \* history: the messages a packet of which was written
    disturbed,    \* history: the messages the main thread disturbed
    breaks        \* how often a connection broke so far

queueVars == <<op, queue, isCancelled>>
taskVars  == <<current, task>>
netVars   == <<pend, link, breaks>>
history   == <<wire, begun>>
vars == <<queueVars, pc, taskVars, act, netVars, history, withdrawn, disturbed>>

Places == {"none", "create", "kind", "data", "key", "send", "over"}

NoTask == [kind |-> "direct", data |-> NoMsg, key |-> NoMsg,
           off |-> 0, index |-> 0, done |-> TRUE]

Idle == [at |-> "idle", task |-> NoMsg, sock |-> NoMsg, off |-> 0]

TypeOK ==
    /\ op \in [Messages -> {"unsent", "queued", "executing", "finished"}]
    /\ queue \in Seq(Messages)
    /\ isCancelled \subseteq Messages
    /\ pc \in [Messages -> Places]
    /\ current \in Messages \cup {NoMsg}
    /\ task \in [Messages -> [kind : {"direct", "file"},
                              data : Messages \cup {NoMsg},
                              key : Messages \cup {NoMsg},
                              off : Nat, index : Nat, done : BOOLEAN]]
    /\ act \in [Actors -> [at : {"idle", "cut", "write", "finish"},
                           task : Messages \cup {NoMsg},
                           sock : Sockets \cup {NoMsg}, off : Nat]]
    /\ pend \in [Sockets -> Nat]
    /\ link \in [Sockets -> {"up", "broken", "down"}]
    /\ withdrawn \subseteq Messages
    /\ begun \subseteq Messages
    /\ disturbed \subseteq Messages
    /\ breaks \in 0..MaxBreaks

Init ==
    /\ op = [m \in Messages |-> "unsent"]
    /\ queue = << >>
    /\ isCancelled = {}
    /\ pc = [m \in Messages |-> "none"]
    /\ current = NoMsg
    /\ task = [m \in Messages |-> NoTask]
    /\ act = [a \in Actors |-> Idle]
    /\ pend = [s \in Sockets |-> 0]
    /\ link = [s \in Sockets |-> "up"]
    /\ wire = [s \in Sockets |-> << >>]
    /\ withdrawn = {}
    /\ begun = {}
    /\ disturbed = {}
    /\ breaks = 0

-----------------------------------------------------------------------------
(* Who runs, and whom it disturbs.                                         *)

(* The main thread takes its next event.                                   *)
MainIsFree == act[Main].at = "idle"

(* The block of m goes on.                                                 *)
BlockIsAt(m, place) == pc[m] = place /\ act[m].at = "idle"

(* The messages whose block has begun and is not over, and those of them   *)
(* whose task is in currentSendMessageTask, half made.                     *)
DueBlocks == {m \in Messages : pc[m] \notin {"none", "over"}}
HalfMade  == {m \in DueBlocks : pc[m] # "create"}

Disturb(S) == disturbed' = disturbed \cup S

(* A step of the block of m while the main thread is in sendBodyMessage.   *)
DisturbIfMainIsBusy(m) == Disturb(IF MainIsFree THEN {} ELSE {m})

-----------------------------------------------------------------------------
(* The queue of operations.                                                *)

Enqueue(m) ==
    /\ op' = [op EXCEPT ![m] = "queued"]
    /\ queue' = Append(queue, m)

(* The queue without m, which is in it once at most.                       *)
Without(m) ==
    IF m \in ToSet(queue)
    THEN RemoveAt(queue, CHOOSE i \in DOMAIN queue : queue[i] = m)
    ELSE queue

(* finishOperation: of no effect on an operation that was not started.     *)
Finish(m) ==
    IF m # NoMsg /\ op[m] = "executing"
    THEN /\ op' = [op EXCEPT ![m] = "finished"]
         /\ queue' = Without(m)
    ELSE UNCHANGED <<op, queue>>

(* cancelAllOperations: those not started are finished as they start.      *)
CancelAllWaiting ==
    /\ op' = [m \in Messages |-> IF op[m] = "queued" THEN "finished" ELSE op[m]]
    /\ queue' = SelectSeq(queue, LAMBDA m : op[m] = "executing")
    /\ isCancelled' = isCancelled \cup ToSet(queue)
    /\ withdrawn' = withdrawn \cup ToSet(queue)

CancelAll ==
    /\ op' = [m \in Messages |->
                 IF op[m] \in {"queued", "executing"} THEN "finished"
                 ELSE op[m]]
    /\ queue' = << >>
    /\ isCancelled' = isCancelled \cup ToSet(queue)
    /\ withdrawn' = withdrawn \cup ToSet(queue)

(* sendDirectionData and sendFileData.                                     *)
Send(m) ==
    /\ op[m] = "unsent"
    /\ m \notin Answers
    /\ "offline" \in Allowed \/ link[Dest[m]] # "down"
    /\ Enqueue(m)
    /\ UNCHANGED <<isCancelled, pc, taskVars, act, netVars, history, withdrawn,
                   disturbed>>

StartOperation ==
    /\ queue # << >>
    /\ LET m == Head(queue)
       IN  /\ op[m] = "queued"
           /\ op' = [op EXCEPT ![m] = "executing"]
           /\ pc' = [pc EXCEPT ![m] = "create"]
    /\ UNCHANGED <<queue, isCancelled, taskVars, act, netVars, history,
                   withdrawn, disturbed>>

-----------------------------------------------------------------------------
(* The block of an operation.  Every statement but the first is about      *)
(* whatever currentSendMessageTask is by then, nil included.               *)

Create(m) ==
    /\ BlockIsAt(m, "create")
    /\ IF m \in isCancelled
       THEN /\ pc' = [pc EXCEPT ![m] = "over"]
            /\ UNCHANGED current
       ELSE /\ pc' = [pc EXCEPT ![m] = "kind"]
            /\ current' = m
    /\ DisturbIfMainIsBusy(m)
    /\ UNCHANGED <<queueVars, task, act, netVars, history, withdrawn>>

(* Set fields of the current task with f, and go on to place.              *)
SetTask(m, f(_), place) ==
    /\ task' = IF current = NoMsg THEN task
               ELSE [task EXCEPT ![current] = f(@)]
    /\ pc' = [pc EXCEPT ![m] = place]
    /\ DisturbIfMainIsBusy(m)
    /\ UNCHANGED <<queueVars, current, act, netVars, history, withdrawn>>

SetKind(m) ==
    /\ BlockIsAt(m, "kind")
    /\ SetTask(m, LAMBDA t : [t EXCEPT !.kind = Kind[m], !.done = FALSE],
               "data")

(* A file that is missing or empty gets no handle.                         *)
SetData(m) ==
    /\ BlockIsAt(m, "data")
    /\ SetTask(m, LAMBDA t : IF Kind[m] = "file" /\ Packets[m] = 0 THEN t
                             ELSE [t EXCEPT !.data = m], "key")

SetKey(m) ==
    /\ BlockIsAt(m, "key")
    /\ SetTask(m, LAMBDA t : [t EXCEPT !.key = m], "send")

-----------------------------------------------------------------------------
(* sendBodyMessage, by the main thread or by a block.                      *)

HasMore(t) == t.data # NoMsg /\ t.off < Packets[t.data]

(* The checks of createJsonBodyData and createSendFileBodyData; where the  *)
(* first ends the message, the second only reports a failure.              *)
BodyOf(a, s) ==
    LET t == task[current]
    IN  IF current = NoMsg \/ (~HasMore(t) /\ t.kind = "file") THEN Idle
        ELSE [at |-> IF HasMore(t) THEN "cut" ELSE "finish",
              task |-> current, sock |-> s, off |-> t.off]

SendFirst(m) ==
    /\ BlockIsAt(m, "send")
    /\ act' = [act EXCEPT ![m] = BodyOf(m, Dest[m])]
    /\ pc' = [pc EXCEPT ![m] = IF BodyOf(m, Dest[m]) = Idle THEN "over"
                               ELSE "send"]
    /\ DisturbIfMainIsBusy(m)
    /\ UNCHANGED <<queueVars, taskVars, netVars, history, withdrawn>>

(* didWriteDataWithTag: whatever is current goes to the socket that wrote. *)
DidWriteUnasked(s) ==
    /\ MainIsFree
    /\ pend' = [pend EXCEPT ![s] = @ - 1]
    /\ act' = [act EXCEPT ![Main] = BodyOf(Main, s)]
    /\ Disturb(HalfMade)
    /\ UNCHANGED <<queueVars, pc, taskVars, link, breaks, history, withdrawn>>

DidWrite(s) ==
    /\ MainIsFree
    /\ pend[s] > 0
    /\ pend' = [pend EXCEPT ![s] = @ - 1]
    /\ act' = [act EXCEPT ![Main] = BodyOf(Main, s)]
    /\ Disturb(HalfMade)
    /\ UNCHANGED <<queueVars, pc, taskVars, link, breaks, history, withdrawn>>

(* The next bytes are taken from the data or the file.                     *)
CutBody(a) ==
    /\ act[a].at = "cut"
    /\ LET x == act[a]
           t == task[x.task]
       IN  task' = [task EXCEPT ![x.task] =
                       [t EXCEPT !.off = x.off + 1,
                           !.done = t.done \/ x.off + 1 = Packets[t.data]]]
    /\ act' = [act EXCEPT ![a].at = "write"]
    /\ UNCHANGED <<queueVars, pc, current, netVars, history, withdrawn,
                   disturbed>>

Return(a, place) ==
    /\ act' = [act EXCEPT ![a] = IF place = "idle" THEN Idle
                                 ELSE [@ EXCEPT !.at = place]]
    /\ pc' = IF place = "idle" /\ a # Main THEN [pc EXCEPT ![a] = "over"]
             ELSE pc

(* sendCellBodyData: nothing is written when the task is gone by now, or   *)
(* for a file whose packets have all been, and a socket that is not        *)
(* connected drops what it is given.                                       *)
CellFromOne(x) ==
    [key |-> task[current].key, index |-> task[x.task].index + 1,
     of |-> task[x.task].data, part |-> x.off]

Cell(x) ==
    [key |-> task[current].key, index |-> task[x.task].index,
     of |-> task[x.task].data, part |-> x.off]

WriteCell(a) ==
    /\ act[a].at = "write"
    /\ LET x == act[a]
           t == task[x.task]
       IN  /\ IF /\ current # NoMsg /\ link[x.sock] = "up"
                 /\ t.kind = "file" => t.index < Packets[t.data]
              THEN /\ wire' = [wire EXCEPT ![x.sock] = Append(@, Cell(x))]
                   /\ pend' = [pend EXCEPT ![x.sock] = @ + 1]
                   /\ begun' = begun \cup {t.data}
              ELSE UNCHANGED <<wire, pend, begun>>
           /\ task' = [task EXCEPT ![x.task].index = @ + 1]
           /\ Return(a, IF t.done THEN "finish" ELSE "idle")
    /\ UNCHANGED <<queueVars, current, link, breaks, withdrawn, disturbed>>

(* finishedAllTask: the operation named by the current task is finished.   *)
ForgetTask(a) ==
    /\ act[a].at = "finish"
    /\ current' = NoMsg
    /\ Return(a, "idle")
    /\ UNCHANGED <<op, queue, isCancelled, task, netVars, history, withdrawn,
                   disturbed>>

FinishTask(a) ==
    /\ act[a].at = "finish"
    /\ IF current # NoMsg
       THEN Finish(task[current].key) /\ current' = NoMsg
       ELSE UNCHANGED <<op, queue, current>>
    /\ Return(a, "idle")
    /\ UNCHANGED <<isCancelled, task, netVars, history, withdrawn, disturbed>>

-----------------------------------------------------------------------------
(* Cancelling, and the connections.                                        *)

(* cancelSendingTask, its sending half.  The peer that is asked to cancel  *)
(* answers only if the message is the current one; the client that cancels *)
(* its own request has no answer to send.                                  *)
CancelSendingTask(m) ==
    /\ MainIsFree
    /\ m \in Cancellable
    /\ op[m] # "unsent"
    /\ m \notin withdrawn
    /\ withdrawn' = withdrawn \cup {m}
    /\ LET isCurrent == current # NoMsg /\ task[current].key = m
           answers   == isCurrent /\ Answer[m] # NoMsg
           ends(n)   == n = m /\ op[n] = "executing"
       IN  /\ current' = IF answers THEN NoMsg ELSE current
           /\ op' = [n \in Messages |->
                        IF ends(n) THEN "finished"
                        ELSE IF answers /\ n = Answer[m] THEN "queued"
                        ELSE op[n]]
           /\ queue' = (IF ends(m) THEN Without(m) ELSE queue)
                       \o (IF answers THEN <<Answer[m]>> ELSE << >>)
    /\ Disturb(DueBlocks)
    /\ UNCHANGED <<isCancelled, pc, task, act, netVars, history>>

(* cancelSendingTask without a key: every operation, not the current task. *)
CancelSendingAll ==
    /\ "cancelAll" \in Allowed
    /\ MainIsFree
    /\ queue # << >>
    /\ CancelAll
    /\ Disturb(DueBlocks)
    /\ UNCHANGED <<pc, taskVars, act, netVars, history>>

(* The connection is lost; nobody has been told yet.                       *)
Break(s) ==
    /\ breaks < MaxBreaks
    /\ link[s] = "up"
    /\ link' = [link EXCEPT ![s] = "broken"]
    /\ wire' = [wire EXCEPT ![s] = << >>]
    /\ breaks' = breaks + 1
    /\ UNCHANGED <<queueVars, pc, taskVars, act, pend, begun, withdrawn,
                   disturbed>>

(* socketDidDisconnect: all operations are cancelled, of all sockets;      *)
(* currentSendMessageTask stays what it was.                               *)
DidDisconnect(s) ==
    /\ MainIsFree
    /\ link[s] = "broken"
    /\ link' = [link EXCEPT ![s] = "down"]
    /\ pend' = [pend EXCEPT ![s] = 0]
    /\ CancelAll
    /\ Disturb(DueBlocks)
    /\ UNCHANGED <<pc, taskVars, act, breaks, history>>

DidConnect(s) ==
    /\ MainIsFree
    /\ link[s] = "down"
    /\ link' = [link EXCEPT ![s] = "up"]
    /\ UNCHANGED <<queueVars, pc, taskVars, act, pend, breaks, history,
                   withdrawn, disturbed>>

Block(m) == \/ Create(m) \/ SetKind(m) \/ SetData(m) \/ SetKey(m)
            \/ SendFirst(m)

SendBody(a) == CutBody(a) \/ WriteCell(a) \/ FinishTask(a)

Next ==
    \/ StartOperation
    \/ \E m \in Messages : Send(m) \/ Block(m) \/ CancelSendingTask(m)
    \/ \E a \in Actors : SendBody(a)
    \/ \E s \in Sockets : DidWrite(s) \/ Break(s) \/ DidDisconnect(s)
                          \/ DidConnect(s)
    \/ CancelSendingAll

Spec == Init /\ [][Next]_vars

(* The queue starts what it holds, threads run, and a socket that is up    *)
(* reports what it has written or that it is closed.  Nothing makes the    *)
(* app send, the connection break or come back.                            *)
Fairness ==
    /\ WF_vars(StartOperation)
    /\ \A m \in Messages : WF_vars(Block(m))
    /\ \A a \in Actors : WF_vars(SendBody(a))
    /\ \A s \in Sockets : WF_vars(DidWrite(s)) /\ WF_vars(DidDisconnect(s))

FairSpec == Spec /\ Fairness

-----------------------------------------------------------------------------
(* Properties.                                                             *)

(* The messages go on by themselves (currentSendMessageTask: tasks follow  *)
(* by themselves): while an operation is executing whose block is over, a  *)
(* packet is still to be reported written or somebody is in                *)
(* sendBodyMessage.  Nothing else would ever finish the operation, and one *)
(* that is never finished holds back all that are sent after it, up to the *)
(* next disconnection.  Not so when the main thread disturbs a block.      *)
TasksFollow ==
    \A m \in Messages :
        op[m] = "executing" /\ pc[m] = "over" =>
            \/ \E a \in Actors : act[a].at # "idle"
            \/ \E s \in Sockets : pend[s] > 0 \/ link[s] = "broken"

(* As long as the main thread has not disturbed a block, the queue is      *)
(* never stuck, whatever was cancelled or lost.  This supposes files that  *)
(* exist, one connection, and an app that sends only while it believes to  *)
(* be connected.                                                           *)
QueueFollows == disturbed = {} => TasksFollow

(* A packet goes out on the socket its message is for: sendBodyMessage is  *)
(* given the socket that reported a write, whoever the current task is for.*)
RightSocket ==
    \A s \in Sockets : \A i \in DOMAIN wire[s] : Dest[wire[s][i].of] = s

(* The sending half implements the stream it promises, up to the moment    *)
(* when the main thread disturbs a block, and under the same conditions.   *)
Stream == INSTANCE MessageStream WITH stream <- wire
StreamInOrder == Stream!Spec

(* Every message whose operation was queued is over some time, written in  *)
(* full or cancelled, and none waits for ever behind another, unless the   *)
(* main thread disturbs a block; under the same conditions.                *)
EveryOperationEnds ==
    \A m \in Messages :
        op[m] = "queued" ~> op[m] = "finished" \/ disturbed # {}
=============================================================================
