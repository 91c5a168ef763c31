----------------------------- MODULE DeviceLink -----------------------------
(***************************************************************************)
(* A client and a server of the device link: requests for files and for    *)
(* lists of files, the packets that answer them, the receive tasks the     *)
(* client keeps for the answers it expects, cancelling, timeouts, and the  *)
(* loss of the connection, of which each side is told at a time of its own.*)
(*                                                                         *)
(* A packet travels whole and in order (PacketReader).  One action is one  *)
(* callback or one block.  A block runs on a thread of its own, and        *)
(* nothing keeps the main thread from reporting a written packet between   *)
(* two of its statements: StartDisturbed and TransmitDisturbed are a block *)
(* with such reports inside it, and disturbed says that one has happened.  *)
(* SendQueue has the race statement by statement, with what this module    *)
(* leaves out: two threads inside sendBodyMessage at once, a cancelling or *)
(* a loss inside a block.  What a client sends fits one packet.            *)
(* An operator that nothing else uses is a mistake the code might have     *)
(* made; PROJECT.json names the property that notices it.                  *)
(***************************************************************************)
EXTENDS Naturals, Sequences

CONSTANTS
    Requests,   \* the requests a client makes, each with a key of its own
    Packets,    \* Packets[r]: packets of the answer: 1 for a list of files,
                \* any number for a file, 0 if the file is missing
    Allowed,    \* what may happen besides
    MaxBreaks   \* bound: how often the connection breaks

(* "lateLoss": the client is back before the server learns that the old    *)
(* connection is lost.  "remove": the server sends the client away.        *)
(* "timeout": a receive task may wait longer than its time.                *)
AllAllowed == {"lateLoss", "remove", "timeout"}

ASSUME LinkAssumption ==
    /\ Packets \in [Requests -> Nat]
    /\ Allowed \subseteq AllAllowed
    /\ MaxBreaks \in Nat

VARIABLES
    asked,       \* the requests made
    clientQueue, \* the client's messages not yet sent
    waiting,     \* waiting[r]: the receive task for the answer to request r
    cancelWait,  \* cancelWait[r]: the one for the answer to its cancelling
    completed,   \* completed[r]: what the completion block of r was given
    cancelled,   \* the requests whose receive task cancelRequest ended
    answered,    \* the requests whose cancelling the server answered
    toServer,    \* packets on the way to the server
    toClient,    \* packets on the way to the client
    clientSide,  \* the connection as the client knows it
    conn,        \* the number of the connection
    live,        \* the connection still exists
    unnoticed,   \* connections whose loss the server has not learned of
    serverQueue, \* the server's operations
    running,     \* the first of them is executing
    current,     \* the server's currentSendMessageTask
    written,     \* packets the server's socket has still to report
    disturbed    \* history: a block was disturbed by the main thread

clientVars == <<asked, clientQueue, waiting, cancelWait, completed, cancelled,
                answered, clientSide>>
netVars    == <<toServer, toClient, conn, live, unnoticed>>
serverVars == <<serverQueue, running, current, written>>
vars       == <<clientVars, netVars, serverVars, disturbed>>

(* A receive task: whether it has a completion block, the parts received   *)
(* so far, and whether its time ran out.                                   *)
ReceiveTask(is, block) ==
    [is |-> is, block |-> block, parts |-> << >>, late |-> FALSE]
NoTask    == ReceiveTask(FALSE, FALSE)
Expecting == ReceiveTask(TRUE, TRUE)
Stray     == ReceiveTask(TRUE, FALSE)

NoRequest == 0
NoCurrent == [what |-> "none", about |-> NoRequest, conn |-> 0, next |-> 0]

(* A "stuck" one is an operation that executes for ever.                   *)
ClientMessages == [what : {"request", "cancel", "stuck"}, about : Requests]
                      \cup [what : {"name"}, about : {NoRequest}]

ServerMessages == [what : {"answer", "cancelled"}, about : Requests, conn : Nat]
                      \cup [what : {"remove"}, about : {NoRequest}, conn : Nat]

CellBodies == [what : {"answer", "cancelled"}, about : Requests,
               index : Nat, count : Nat]
                  \cup [what : {"remove"}, about : {NoRequest},
                        index : Nat, count : Nat]

(* Only an answer to a request has more than one packet to send.           *)
SendTasks == {NoCurrent} \cup
                 [what : {"answer"}, about : Requests, conn : Nat, next : Nat]

ReceiveTasks == [is : BOOLEAN, block : BOOLEAN, parts : Seq(Nat),
                 late : BOOLEAN]

TypeOK ==
    /\ asked \subseteq Requests
    /\ clientQueue \in Seq(ClientMessages)
    /\ waiting \in [Requests -> ReceiveTasks]
    /\ cancelWait \in [Requests -> ReceiveTasks]
    /\ completed \in [Requests -> Seq(Nat)]
    /\ cancelled \subseteq Requests
    /\ answered \subseteq Requests
    /\ toServer \in Seq(ClientMessages)
    /\ toClient \in Seq(CellBodies)
    /\ clientSide \in {"up", "broken", "down"}
    /\ conn \in Nat
    /\ live \in BOOLEAN
    /\ unnoticed \in Nat
    /\ serverQueue \in Seq(ServerMessages)
    /\ running \in BOOLEAN
    /\ current \in SendTasks
    /\ written \in Nat
    /\ disturbed \in BOOLEAN

Message(what, r) == [what |-> what, about |-> r]
Reply(what, r)   == [what |-> what, about |-> r, conn |-> conn]
Count(m) == IF m.what = "answer" THEN Packets[m.about] ELSE 1
WholeFile(r) == [i \in 1..Packets[r] |-> i - 1]

Init ==
    /\ asked = {}
    /\ clientQueue = << >>
    /\ waiting = [r \in Requests |-> NoTask]
    /\ cancelWait = [r \in Requests |-> NoTask]
    /\ completed = [r \in Requests |-> << >>]
    /\ cancelled = {}
    /\ answered = {}
    /\ toServer = << >>
    /\ toClient = << >>
    /\ clientSide = "down"
    /\ conn = 0
    /\ live = FALSE
    /\ unnoticed = 0
    /\ serverQueue = << >>
    /\ running = FALSE
    /\ current = NoCurrent
    /\ written = 0
    /\ disturbed = FALSE

-----------------------------------------------------------------------------
(* The client sends.                                                       *)

(* sendDownloadRequest, sendQueryFileList.                                 *)
Request(r) ==
    /\ r \notin asked
    /\ clientSide # "down"
    /\ asked' = asked \cup {r}
    /\ clientQueue' = Append(clientQueue, Message("request", r))
    /\ UNCHANGED <<waiting, cancelWait, completed, cancelled, answered,
                   clientSide, netVars, serverVars, disturbed>>

(* The block of the next operation: the receive task is made, the packet   *)
(* written, the operation finished.  A dead socket drops the packet.       *)
Transmit ==
    /\ clientQueue # << >>
    /\ Head(clientQueue).what # "stuck"
    /\ LET m == Head(clientQueue)
       IN  /\ toServer' = IF live THEN Append(toServer, m) ELSE toServer
           /\ waiting' = IF m.what = "request"
                         THEN [waiting EXCEPT ![m.about] = Expecting]
                         ELSE waiting
           /\ cancelWait' = IF m.what = "cancel"
                            THEN [cancelWait EXCEPT ![m.about] = Expecting]
                            ELSE cancelWait
    /\ clientQueue' = Tail(clientQueue)
    /\ UNCHANGED <<asked, completed, cancelled, answered, clientSide,
                   toClient, conn, live, unnoticed, serverVars, disturbed>>

(* The same block with the report of the message before inside it: the     *)
(* main thread ends the task before it has data, or sends the packet, as   *)
(* likely as not under a key nobody knows, and ends the task, and its      *)
(* operation or none.  The block makes a receive task if the main thread   *)
(* has not ended the send task by then.  The name, first on a connection,  *)
(* has no message before it.  A request under another key is left out:     *)
(* nobody knows its answer.  The server obeys a cancelling under any key;  *)
(* left out is only that its answer may not find the receive task.         *)
TransmitDisturbed ==
    /\ clientQueue # << >>
    /\ Head(clientQueue).what \in {"request", "cancel"}
    /\ \E sent, expects, ends \in BOOLEAN :
           LET m == Head(clientQueue)
           IN  /\ sent => ends
               /\ toServer' = IF sent /\ live THEN Append(toServer, m)
                              ELSE toServer
               /\ waiting' = IF expects /\ m.what = "request"
                             THEN [waiting EXCEPT ![m.about] = Expecting]
                             ELSE waiting
               /\ cancelWait' = IF expects /\ m.what = "cancel"
                                THEN [cancelWait EXCEPT ![m.about] = Expecting]
                                ELSE cancelWait
               /\ clientQueue' =
                      IF ends THEN Tail(clientQueue)
                      ELSE [clientQueue EXCEPT ![1] = Message("stuck", m.about)]
    /\ disturbed' = TRUE
    /\ UNCHANGED <<asked, completed, cancelled, answered, clientSide,
                   toClient, conn, live, unnoticed, serverVars>>

(* cancelRequest: only a request that has been sent has a receive task to  *)
(* end; one that still waits in the queue is not touched.                  *)
IsStuck(r) ==
    disturbed /\ clientQueue # << >> /\ Head(clientQueue) = Message("stuck", r)

CancelRequest(r) ==
    /\ r \in asked \ cancelled
    /\ waiting[r].is
    /\ ~IsStuck(r)
    /\ cancelled' = cancelled \cup {r}
    /\ waiting' = [waiting EXCEPT ![r] = NoTask]
    /\ clientQueue' = Append(clientQueue, Message("cancel", r))
    /\ UNCHANGED <<asked, cancelWait, completed, answered, clientSide,
                   netVars, serverVars, disturbed>>

(* cancelRequest finishes an operation of the request that executes still. *)
CancelStuck(r) ==
    /\ r \in asked \ cancelled
    /\ IsStuck(r)
    /\ IF waiting[r].is
       THEN /\ cancelled' = cancelled \cup {r}
            /\ waiting' = [waiting EXCEPT ![r] = NoTask]
            /\ clientQueue' = Append(Tail(clientQueue), Message("cancel", r))
       ELSE /\ clientQueue' = Tail(clientQueue)
            /\ UNCHANGED <<cancelled, waiting>>
    /\ UNCHANGED <<asked, cancelWait, completed, answered, clientSide,
                   netVars, serverVars, disturbed>>

-----------------------------------------------------------------------------
(* The client receives.                                                    *)

(* socketDidReceiveData: the receive task of the key, or a new one, with   *)
(* the part added.                                                         *)
WithPartExpected(t, i) ==
    [IF t.is THEN t ELSE Expecting EXCEPT !.parts = Append(@, i)]

WithPart(t, i) == [IF t.is THEN t ELSE Stray EXCEPT !.parts = Append(@, i)]

IsLastButOne(p) == p.index + 2 >= p.count
IsLast(p) == p.index + 1 = p.count

(* The last packet of an answer calls the completion block, if there is    *)
(* one, and releases the receive task.                                     *)
ReceiveAnswer ==
    /\ toClient # << >>
    /\ Head(toClient).what = "answer"
    /\ LET p == Head(toClient)
           t == WithPart(waiting[p.about], p.index)
       IN  /\ waiting' = [waiting EXCEPT ![p.about] =
                             IF IsLast(p) THEN NoTask ELSE t]
           /\ completed' = IF IsLast(p) /\ t.block
                           THEN [completed EXCEPT ![p.about] = t.parts]
                           ELSE completed
    /\ toClient' = Tail(toClient)
    /\ UNCHANGED <<asked, clientQueue, cancelWait, cancelled, answered,
                   clientSide, toServer, conn, live, unnoticed, serverVars,
                   disturbed>>

(* The block of sendToCancelTask: what has come in since is released too.  *)
KeptAfterCancel(r) == waiting[r]
AfterCancel(r) == IF cancelWait[r].block THEN NoTask ELSE waiting[r]

ReceiveCancelled ==
    /\ toClient # << >>
    /\ Head(toClient).what = "cancelled"
    /\ LET r == Head(toClient).about
       IN  /\ waiting' = [waiting EXCEPT ![r] = AfterCancel(r)]
           /\ cancelWait' = [cancelWait EXCEPT ![r] = NoTask]
           /\ answered' = answered \cup {r}
    /\ toClient' = Tail(toClient)
    /\ UNCHANGED <<asked, clientQueue, completed, cancelled, clientSide,
                   toServer, conn, live, unnoticed, serverVars, disturbed>>

(* The connection is gone, with what it held; nobody has been told yet.    *)
LoseConnection ==
    /\ live' = FALSE
    /\ clientSide' = "broken"
    /\ unnoticed' = unnoticed + 1
    /\ toServer' = << >>
    /\ toClient' = << >>
    /\ written' = 0

(* receiveDirectionData, removeClient: the client closes its socket.       *)
ReceiveRemove ==
    /\ toClient # << >>
    /\ Head(toClient).what = "remove"
    /\ LoseConnection
    /\ UNCHANGED <<asked, clientQueue, waiting, cancelWait, completed,
                   cancelled, answered, conn, serverQueue, running, current,
                   disturbed>>

(* The timer of a receive task counts to its limit, stops, and calls a     *)
(* block nobody sets.                                                      *)
Timeout(r) ==
    /\ "timeout" \in Allowed
    /\ waiting[r].is
    /\ waiting[r].block
    /\ ~waiting[r].late
    /\ waiting' = [waiting EXCEPT ![r].late = TRUE]
    /\ UNCHANGED <<asked, clientQueue, cancelWait, completed, cancelled,
                   answered, clientSide, netVars, serverVars, disturbed>>

-----------------------------------------------------------------------------
(* The server.                                                             *)

(* receiveRequestToDownloadFile, sendFolderList: the answer is an          *)
(* operation.                                                              *)
ReceiveRequest ==
    /\ toServer # << >>
    /\ Head(toServer).what = "request"
    /\ serverQueue' = Append(serverQueue, Reply("answer", Head(toServer).about))
    /\ toServer' = Tail(toServer)
    /\ UNCHANGED <<clientVars, toClient, conn, live, unnoticed, running,
                   current, written, disturbed>>

ReceiveName ==
    /\ toServer # << >>
    /\ Head(toServer).what = "name"
    /\ toServer' = Tail(toServer)
    /\ UNCHANGED <<clientVars, toClient, conn, live, unnoticed, serverVars,
                   disturbed>>

(* The operation of message m ends if it is the one that is executing.     *)
Ends(q, busy, m) == /\ busy
                    /\ q # << >>
                    /\ Head(q).what = m.what
                    /\ Head(q).about = m.about

Finish(q, busy, m) ==
    /\ serverQueue' = IF Ends(q, busy, m) THEN Tail(q) ELSE q
    /\ running' = (busy /\ ~Ends(q, busy, m))

(* receiveRequestToCancelTask: what is being sent is dropped and an answer *)
(* queued; an operation that was not started is not touched, and nothing   *)
(* is answered.                                                            *)
AnyIsCurrent(r) == current.what = "answer"
IsCurrent(r) == current.what = "answer" /\ current.about = r

ReceiveCancel ==
    /\ toServer # << >>
    /\ Head(toServer).what = "cancel"
    /\ LET r      == Head(toServer).about
           answer == IF IsCurrent(r) THEN <<Reply("cancelled", r)>> ELSE << >>
       IN  /\ current' = IF IsCurrent(r) THEN NoCurrent ELSE current
           /\ Finish(serverQueue \o answer, running, Reply("answer", r))
    /\ toServer' = Tail(toServer)
    /\ UNCHANGED <<clientVars, toClient, conn, live, unnoticed, written,
                   disturbed>>

HasMore(c) == c.what # "none" /\ c.next < Count(c)
IsLastOf(c) == HasMore(c) /\ c.next + 1 = Count(c)

(* sendBodyMessage: the next packet of task c goes to connection s, and    *)
(* the last one ends the task and its operation.  A missing file sends     *)
(* nothing and ends nothing.                                               *)
SendBody(c, s, busy, reported) ==
    LET goesOut == HasMore(c) /\ live /\ s = conn
        p == [what |-> c.what, about |-> c.about, index |-> c.next,
              count |-> Count(c)]
    IN  /\ toClient' = IF goesOut THEN Append(toClient, p) ELSE toClient
        /\ written' = (written - reported) + (IF goesOut THEN 1 ELSE 0)
        /\ current' = IF IsLastOf(c) THEN NoCurrent
                      ELSE IF HasMore(c) THEN [c EXCEPT !.next = @ + 1]
                      ELSE c
        /\ IF IsLastOf(c) THEN Finish(serverQueue, busy, c)
           ELSE running' = busy /\ UNCHANGED serverQueue

(* The block of the next operation: a task of its own replaces whatever    *)
(* was current.                                                            *)
StartOperation ==
    /\ serverQueue # << >>
    /\ ~running
    /\ LET m == Head(serverQueue)
       IN  SendBody([what |-> m.what, about |-> m.about, conn |-> m.conn,
                     next |-> 0], m.conn, TRUE, 0)
    /\ UNCHANGED <<clientVars, toServer, conn, live, unnoticed, disturbed>>

(* The same block with reports of the message before inside it.  One that  *)
(* comes before the task has its data ends the task, and no operation.     *)
(* With the data, each one sends a packet under a key nobody knows, which  *)
(* is left out unless the client obeys it whatever its key; the block goes *)
(* on with the packet after these.  If none is left, the task ended under  *)
(* that key, and its operation never does, or its own was set just before. *)
StartDisturbed ==
    /\ serverQueue # << >>
    /\ ~running
    /\ written > 0
    /\ LET m == Head(serverQueue)
       IN  \/ /\ current' = NoCurrent
              /\ running' = TRUE
              /\ written' = written - 1
              /\ UNCHANGED <<serverQueue, toClient>>
           \/ \E lost \in 1..(Count(m) - 1) :
                  SendBody([what |-> m.what, about |-> m.about,
                            conn |-> m.conn, next |-> lost], m.conn, TRUE, 0)
           \/ /\ Count(m) > 0
              /\ current' = NoCurrent
              /\ \/ running' = TRUE /\ UNCHANGED serverQueue
                 \/ running' = FALSE /\ serverQueue' = Tail(serverQueue)
              /\ toClient' = IF m.what = "remove" /\ live
                             THEN Append(toClient, [what |-> "remove",
                                                    about |-> NoRequest,
                                                    index |-> 0, count |-> 1])
                             ELSE toClient
              /\ UNCHANGED written
    /\ disturbed' = TRUE
    /\ UNCHANGED <<clientVars, toServer, conn, live, unnoticed>>

(* didWriteDataWithTag.                                                    *)
DidWriteUnasked ==
    /\ SendBody(current, conn, running, 1)
    /\ UNCHANGED <<clientVars, toServer, conn, live, unnoticed, disturbed>>

DidWrite ==
    /\ written > 0
    /\ SendBody(current, conn, running, 1)
    /\ UNCHANGED <<clientVars, toServer, conn, live, unnoticed, disturbed>>

(* sendRemoveClient.  Bound: once, until the client has obeyed.            *)
RemoveClient ==
    /\ "remove" \in Allowed
    /\ live
    /\ serverQueue = << >>
    /\ \A i \in DOMAIN toClient : toClient[i].what # "remove"
    /\ serverQueue' = <<Reply("remove", NoRequest)>>
    /\ UNCHANGED <<clientVars, netVars, running, current, written, disturbed>>

-----------------------------------------------------------------------------
(* The connection.                                                         *)

Break ==
    /\ live
    /\ LoseConnection
    /\ UNCHANGED <<asked, clientQueue, waiting, cancelWait, completed,
                   cancelled, answered, conn, serverQueue, running, current,
                   disturbed>>

(* socketDidDisconnect at the client: its operations are cancelled and its *)
(* receive tasks released; no completion block is called.                  *)
KeptAfterLoss(tasks) == tasks
AfterLoss(tasks) == [r \in Requests |-> NoTask]

ClientDidDisconnect ==
    /\ clientSide = "broken"
    /\ clientSide' = "down"
    /\ clientQueue' = << >>
    /\ waiting' = AfterLoss(waiting)
    /\ cancelWait' = AfterLoss(cancelWait)
    /\ UNCHANGED <<asked, completed, cancelled, answered, netVars, serverVars,
                   disturbed>>

(* socketDidDisconnect at the server, for one of the lost connections:     *)
(* every operation is cancelled, whichever connection it is for, and the   *)
(* current task stays.                                                     *)
ServerDidDisconnect ==
    /\ unnoticed > 0
    /\ unnoticed' = unnoticed - 1
    /\ serverQueue' = << >>
    /\ running' = FALSE
    /\ UNCHANGED <<clientVars, toServer, toClient, conn, live, current,
                   written, disturbed>>

(* didConnectToHost and didAcceptNewSocket: a connection of its own, on    *)
(* which the client first tells its name.                                  *)
Connect ==
    /\ clientSide = "down"
    /\ conn <= MaxBreaks
    /\ "lateLoss" \in Allowed \/ unnoticed = 0
    /\ clientSide' = "up"
    /\ live' = TRUE
    /\ conn' = conn + 1
    /\ clientQueue' = Append(clientQueue, Message("name", NoRequest))
    /\ UNCHANGED <<asked, waiting, cancelWait, completed, cancelled, answered,
                   toServer, toClient, unnoticed, serverVars, disturbed>>

ClientReceive == ReceiveAnswer \/ ReceiveCancelled \/ ReceiveRemove
ServerReceive == ReceiveRequest \/ ReceiveName \/ ReceiveCancel

Next ==
    \/ \E r \in Requests : \/ Request(r) \/ CancelRequest(r) \/ CancelStuck(r)
                         \/ Timeout(r)
    \/ Transmit \/ TransmitDisturbed \/ ClientReceive \/ ServerReceive
    \/ StartOperation \/ StartDisturbed \/ DidWrite \/ RemoveClient
    \/ Break \/ ClientDidDisconnect \/ ServerDidDisconnect \/ Connect

Spec == Init /\ [][Next]_vars

(* Queues start what they hold, packets arrive, sockets report what was    *)
(* written and that they are closed.                                       *)
Fairness ==
    /\ WF_vars(Transmit) /\ WF_vars(ClientReceive) /\ WF_vars(ServerReceive)
    /\ WF_vars(StartOperation) /\ WF_vars(DidWrite)
    /\ WF_vars(ClientDidDisconnect) /\ WF_vars(ServerDidDisconnect)

FairSpec == Spec /\ Fairness

-----------------------------------------------------------------------------
(* Properties.                                                             *)

(* A completion block is given the whole file, every part once and in      *)
(* order: parts of a download that was cancelled, or begun on a connection *)
(* now lost, never end up in the answer to another one.  This holds until  *)
(* a report comes into a block: then the first parts may be missing.       *)
CompletedIsAlwaysWhole ==
    \A r \in Requests : completed[r] # << >> => completed[r] = WholeFile(r)

CompletedIsWhole == ~disturbed => CompletedIsAlwaysWhole

(* The completion block of a download is not called any more once          *)
(* cancelRequest ended its receive task, although packets of it may still  *)
(* be on the way and make a receive task anew.                             *)
CancelIsFinal ==
    [][\A r \in cancelled : completed'[r] = completed[r]]_vars

(* Once the server has answered the cancelling, the client holds nothing   *)
(* of the download any more, and no packet of it is still to come (as long *)
(* as no block was disturbed: the cancelling itself may have no receive    *)
(* task otherwise).                                                        *)
AnsweredCancelLeavesNothing ==
    ~disturbed => \A r \in answered :
        /\ ~waiting[r].is
        /\ \A i \in DOMAIN toClient :
               toClient[i].what = "answer" => toClient[i].about # r

InServer(r) ==
    \/ \E i \in DOMAIN serverQueue : serverQueue[i] = Reply("answer", r)
    \/ current.what = "answer" /\ current.about = r /\ written > 0

(* While the connection is up, a client that waits for an answer waits for *)
(* something: its request, or packets of the answer, are on the way or     *)
(* with the server, as long as no block was disturbed.                     *)
WaitsForSomething ==
    ~disturbed => \A r \in Requests :
        live /\ waiting[r].block =>
            \/ \E i \in DOMAIN toServer : toServer[i] = Message("request", r)
            \/ InServer(r)
            \/ \E i \in DOMAIN toClient : /\ toClient[i].what = "answer"
                                          /\ toClient[i].about = r

(* Every receive task made for a request, or for packets that come after   *)
(* it was cancelled, is released some time, if the file exists and the     *)
(* server learns of a loss before the client is back, unless a block is    *)
(* disturbed: its operation may go on for ever, and every message waits    *)
(* behind it until the connection is lost.                                 *)
EveryReceiveTaskEnds ==
    \A r \in Requests : waiting[r].is ~> ~waiting[r].is \/ disturbed

(* A receive task whose time ran out is cancelled (receiveMessageTimeout-  *)
(* Interver: when it times out the receive task is cancelled).             *)
LateTaskIsCancelled ==
    \A r \in Requests : waiting[r].late => ~waiting[r].block
=============================================================================
