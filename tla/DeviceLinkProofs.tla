-------------------------- MODULE DeviceLinkProofs --------------------------
(***************************************************************************)
(* Proofs about DeviceLink, for every number of requests and packets and   *)
(* however often the connection breaks.                                    *)
(***************************************************************************)
EXTENDS DeviceLinkInvariant, SequenceTheorems, TLAPS

-----------------------------------------------------------------------------
(* Queues.                                                                 *)

(* The first element of a queue, and the others.                           *)
LEMMA TakeFirst ==
    ASSUME NEW S, NEW q \in Seq(S), q # << >>
    PROVE  /\ Head(q) \in S /\ Tail(q) \in Seq(S)
           /\ 1 \in DOMAIN q /\ Head(q) = q[1]
           /\ \A i \in DOMAIN Tail(q) : /\ i + 1 \in DOMAIN q
                                        /\ Tail(q)[i] = q[i + 1]
           /\ \A i \in DOMAIN q : i = 1 \/ i - 1 \in DOMAIN Tail(q)
           /\ \A i \in DOMAIN q : q[i] \in S
           /\ DOMAIN q \subseteq Nat /\ DOMAIN Tail(q) \subseteq Nat \ {0}
<1>1. /\ Tail(q) \in Seq(S) /\ Len(Tail(q)) = Len(q) - 1
      /\ \A i \in 1..Len(Tail(q)) : Tail(q)[i] = q[i + 1]
      /\ Head(q) \in S /\ Len(q) \in Nat \ {0}
  BY HeadTailProperties, EmptySeq
<1>2. DOMAIN q = 1..Len(q) /\ DOMAIN Tail(q) = 1..Len(Tail(q))
  BY <1>1, LenProperties
<1>3. \A i \in DOMAIN q : q[i] \in S
  BY <1>2, ElementOfSeq
<1>4. Head(q) = q[1]
  OBVIOUS
<1> QED
  BY <1>1, <1>2, <1>3, <1>4

(* A queue whose first element is another.                                 *)
LEMMA FirstChanged ==
    ASSUME NEW S, NEW q \in Seq(S), q # << >>, NEW e \in S
    PROVE  /\ [q EXCEPT ![1] = e] \in Seq(S)
           /\ DOMAIN [q EXCEPT ![1] = e] = DOMAIN q
           /\ [q EXCEPT ![1] = e][1] = e
           /\ \A i \in DOMAIN q : i # 1 => [q EXCEPT ![1] = e][i] = q[i]
<1>1. DOMAIN q = 1..Len(q) /\ Len(q) \in Nat /\ 1 \in 1..Len(q)
  BY TakeFirst, LenProperties
<1>2. /\ [q EXCEPT ![1] = e] \in Seq(S) /\ Len([q EXCEPT ![1] = e]) = Len(q)
      /\ \A j \in 1..Len(q) : [q EXCEPT ![1] = e][j] = IF j = 1 THEN e ELSE q[j]
  BY <1>1, ExceptSeq
<1> QED
  BY <1>1, <1>2

(* A queue with one element more.                                          *)
LEMMA AddLast ==
    ASSUME NEW S, NEW q \in Seq(S), NEW e \in S
    PROVE  /\ Append(q, e) \in Seq(S)
           /\ Append(q, e) # << >>
           /\ \A i \in DOMAIN q : /\ i \in DOMAIN Append(q, e)
                                  /\ Append(q, e)[i] = q[i]
                                  /\ q[i] \in S
           /\ Len(q) + 1 \in DOMAIN Append(q, e)
           /\ Append(q, e)[Len(q) + 1] = e
           /\ \A i \in DOMAIN Append(q, e) : i \in DOMAIN q \/ i = Len(q) + 1
           /\ \A i \in DOMAIN q : i < Len(q) + 1 /\ i \in Nat
           /\ Len(q) \in Nat
<1>1. /\ Append(q, e) \in Seq(S) /\ Len(Append(q, e)) = Len(q) + 1
      /\ \A i \in 1..Len(q) : Append(q, e)[i] = q[i]
      /\ Append(q, e)[Len(q) + 1] = e
  BY AppendProperties
<1>2. DOMAIN q = 1..Len(q) /\ Len(q) \in Nat
  BY LenProperties
<1>3. DOMAIN Append(q, e) = 1..(Len(q) + 1)
  BY <1>1, LenProperties
<1>4. Append(q, e) # << >>
  BY <1>1, <1>2, EmptySeq
<1>5. \A i \in DOMAIN q : q[i] \in S
  BY <1>2, ElementOfSeq
<1> QED
  BY <1>1, <1>2, <1>3, <1>4, <1>5

(* What taking the first element of a queue does to what is in it.         *)
LEMMA InTail ==
    ASSUME NEW S, NEW q \in Seq(S), q # << >>, NEW w, NEW r
    PROVE  /\ In(Tail(q), w, r) => In(q, w, r)
           /\ In(q, w, r) => Is(Head(q), w, r) \/ In(Tail(q), w, r)
           /\ Is(Head(q), w, r) => In(q, w, r)
           /\ Once(q, w, r) => Once(Tail(q), w, r)
           /\ Once(q, w, r) /\ Is(Head(q), w, r) => ~In(Tail(q), w, r)
           /\ CancelledLast(q, r) => CancelledLast(Tail(q), r)
           /\ CancelledLast(q, r) /\ Is(Head(q), "cancelled", r)
                  => ~In(Tail(q), "answer", r)
<1>1. /\ 1 \in DOMAIN q /\ Head(q) = q[1]
      /\ \A i \in DOMAIN Tail(q) : i + 1 \in DOMAIN q /\ Tail(q)[i] = q[i + 1]
      /\ \A i \in DOMAIN q : i = 1 \/ i - 1 \in DOMAIN Tail(q)
      /\ DOMAIN q \subseteq Nat /\ DOMAIN Tail(q) \subseteq Nat \ {0}
  BY TakeFirst
<1>2. /\ In(Tail(q), w, r) => In(q, w, r)
      /\ Is(Head(q), w, r) => In(q, w, r)
  BY <1>1 DEF In
<1>3. In(q, w, r) => Is(Head(q), w, r) \/ In(Tail(q), w, r)
  <2>1. \A i \in DOMAIN q : i # 1 => /\ i - 1 \in DOMAIN Tail(q)
                                     /\ Tail(q)[i - 1] = q[i]
    BY <1>1
  <2> QED
    BY <1>1, <2>1 DEF In
<1>4. /\ Once(q, w, r) => Once(Tail(q), w, r)
      /\ Once(q, w, r) /\ Is(Head(q), w, r) => ~In(Tail(q), w, r)
  BY <1>1 DEF Once, In
<1>5. /\ CancelledLast(q, r) => CancelledLast(Tail(q), r)
      /\ CancelledLast(q, r) /\ Is(Head(q), "cancelled", r)
             => ~In(Tail(q), "answer", r)
  BY <1>1 DEF CancelledLast, In
<1> QED
  BY <1>2, <1>3, <1>4, <1>5

(* What adding an element to a queue does to what is in it.                *)
LEMMA InAppend ==
    ASSUME NEW S, NEW q \in Seq(S), NEW e \in S, NEW w, NEW r
    PROVE  /\ In(Append(q, e), w, r) <=> In(q, w, r) \/ Is(e, w, r)
           /\ Once(q, w, r) /\ ~(In(q, w, r) /\ Is(e, w, r))
                  => Once(Append(q, e), w, r)
           /\ CancelledLast(q, r)
                  /\ ~(In(q, "cancelled", r) /\ Is(e, "answer", r))
                  => CancelledLast(Append(q, e), r)
           /\ q # << >> => Head(Append(q, e)) = Head(q)
           /\ q = << >> => Head(Append(q, e)) = e
<1>1. /\ Append(q, e) \in Seq(S) /\ Append(q, e) # << >>
      /\ \A i \in DOMAIN q : /\ i \in DOMAIN Append(q, e)
                             /\ Append(q, e)[i] = q[i]
      /\ Len(q) + 1 \in DOMAIN Append(q, e)
      /\ Append(q, e)[Len(q) + 1] = e
      /\ \A i \in DOMAIN Append(q, e) : i \in DOMAIN q \/ i = Len(q) + 1
      /\ \A i \in DOMAIN q : i < Len(q) + 1 /\ i \in Nat
      /\ Len(q) \in Nat
  BY AddLast
<1>2. In(Append(q, e), w, r) <=> In(q, w, r) \/ Is(e, w, r)
  BY <1>1 DEF In
<1>3. Once(q, w, r) /\ ~(In(q, w, r) /\ Is(e, w, r))
          => Once(Append(q, e), w, r)
  BY <1>1 DEF Once, In
<1>4. CancelledLast(q, r) /\ ~(In(q, "cancelled", r) /\ Is(e, "answer", r))
          => CancelledLast(Append(q, e), r)
  BY <1>1 DEF CancelledLast, In
<1>5. q # << >> => Head(Append(q, e)) = Head(q)
  BY <1>1, TakeFirst
<1>6. q = << >> => Head(Append(q, e)) = e
  <2>1. q = << >> => Len(q) = 0
    BY EmptySeq
  <2>2. Head(Append(q, e)) = Append(q, e)[1]
    BY <1>1, TakeFirst
  <2> QED
    BY <1>1, <2>1, <2>2
<1> QED
  BY <1>2, <1>3, <1>4, <1>5, <1>6

(* Nothing is in the empty queue.                                          *)
LEMMA InEmpty ==
    \A w, r : /\ ~In(<< >>, w, r) /\ Once(<< >>, w, r)
              /\ CancelledLast(<< >>, r)
BY DEF In, Once, CancelledLast

-----------------------------------------------------------------------------
(* Types.                                                                  *)

(* What messages, replies and packets are about.                           *)
LEMMA Elements ==
    /\ \A m \in ClientMessages : /\ m.what \in {"request", "cancel", "stuck", "name"}
                                 /\ m.what # "name" => m.about \in Requests
    /\ \A m \in ServerMessages :
           /\ m.what \in {"answer", "cancelled", "remove"} /\ m.conn \in Nat
           /\ m.what # "remove" => m.about \in Requests
    /\ \A p \in CellBodies :
           /\ p.what \in {"answer", "cancelled", "remove"} /\ p.index \in Nat
           /\ p.count \in Nat /\ (p.what # "remove" => p.about \in Requests)
    /\ \A c \in SendTasks :
           /\ c.what \in {"answer", "none"} /\ c.next \in Nat /\ c.conn \in Nat
           /\ c.what = "answer" => c.about \in Requests
    /\ \A r \in Requests : /\ Message("request", r) \in ClientMessages
                           /\ Message("cancel", r) \in ClientMessages
                           /\ Message("stuck", r) \in ClientMessages
                           /\ Packets[r] \in Nat
    /\ Message("name", NoRequest) \in ClientMessages
    /\ NoTask \in ReceiveTasks /\ Expecting \in ReceiveTasks
    /\ Stray \in ReceiveTasks
    /\ NoCurrent \in SendTasks /\ NoCurrent.what = "none"
<1>1. /\ \A m \in ClientMessages : /\ m.what \in {"request", "cancel", "stuck", "name"}
                                   /\ m.what # "name" => m.about \in Requests
      /\ \A m \in ServerMessages :
             /\ m.what \in {"answer", "cancelled", "remove"} /\ m.conn \in Nat
             /\ m.what # "remove" => m.about \in Requests
  BY DEF ClientMessages, ServerMessages
<1>2. \A p \in CellBodies :
          /\ p.what \in {"answer", "cancelled", "remove"} /\ p.index \in Nat
          /\ p.count \in Nat /\ (p.what # "remove" => p.about \in Requests)
  BY DEF CellBodies
<1>3. /\ \A c \in SendTasks :
             /\ c.what \in {"answer", "none"} /\ c.next \in Nat /\ c.conn \in Nat
             /\ c.what = "answer" => c.about \in Requests
      /\ NoCurrent \in SendTasks /\ NoCurrent.what = "none"
  BY DEF SendTasks, NoCurrent
<1>4. /\ \A r \in Requests : /\ Message("request", r) \in ClientMessages
                             /\ Message("cancel", r) \in ClientMessages
                             /\ Message("stuck", r) \in ClientMessages
                             /\ Packets[r] \in Nat
      /\ Message("name", NoRequest) \in ClientMessages
  BY LinkAssumption DEF ClientMessages, Message
<1>5. \A is, block \in BOOLEAN : ReceiveTask(is, block) \in ReceiveTasks
  BY DEF ReceiveTask, ReceiveTasks
<1> QED
  BY <1>1, <1>2, <1>3, <1>4, <1>5 DEF NoTask, Expecting, Stray

(* The task of a server message that is started, some packets of it gone   *)
(* out under another key, or the current one.                              *)
LateTask(m, lost) ==
    [what |-> m.what, about |-> m.about, conn |-> m.conn, next |-> lost]
StartTask(m) == LateTask(m, 0)

Tasks == SendTasks \cup {StartTask(m) : m \in ServerMessages}

(* Only an answer has packets that can be lost before the others.          *)
LEMMA LateTasks ==
    ASSUME NEW m \in ServerMessages, NEW lost \in 1..(Count(m) - 1)
    PROVE  LateTask(m, lost) \in SendTasks /\ lost \in Nat
<1>1. m.what = "answer"
  <2>1. m.what # "answer" => Count(m) = 1
    BY DEF Count
  <2>2. 1..(1 - 1) = {}
    OBVIOUS
  <2> QED
    BY <2>1, <2>2
<1>2. m.about \in Requests /\ m.conn \in Nat /\ Count(m) \in Nat
  BY <1>1, Elements DEF Count
<1>3. lost \in Nat
  BY <1>2
<1> QED
  BY <1>1, <1>2, <1>3 DEF LateTask, SendTasks

(* What sending a packet of c does to the types, and what it is.           *)
LEMMA SendTypes ==
    ASSUME TypeOK, NEW c \in Tasks, NEW s \in Nat, NEW busy \in BOOLEAN,
           NEW reported \in Nat, reported <= written,
           SendBody(c, s, busy, reported)
    PROVE  /\ toClient' \in Seq(CellBodies) /\ written' \in Nat
           /\ current' \in SendTasks /\ serverQueue' \in Seq(ServerMessages)
           /\ running' \in BOOLEAN
<1>1. /\ c.what \in {"none", "answer", "cancelled", "remove"} /\ c.next \in Nat
      /\ c.what \in {"answer", "cancelled"} => c.about \in Requests
      /\ c.what \in {"cancelled", "remove"} => c.next = 0
      /\ c.what = "remove" => c.about = NoRequest
      /\ c.what \in {"answer", "none"} => c \in SendTasks
  <2>1. CASE c \in SendTasks
    BY <2>1, Elements
  <2>2. CASE c \in {StartTask(m) : m \in ServerMessages}
    BY <2>2 DEF StartTask, LateTask, ServerMessages, SendTasks
  <2> QED
    BY <2>1, <2>2 DEF Tasks
<1>2. c.what # "none" => Count(c) \in Nat
  BY <1>1, Elements DEF Count
<1> DEFINE p == [what |-> c.what, about |-> c.about, index |-> c.next,
                 count |-> Count(c)]
<1>3. c.what # "none" => p \in CellBodies
  BY <1>1, <1>2 DEF CellBodies
<1>4. toClient' \in Seq(CellBodies)
  <2>1. HasMore(c) => p \in CellBodies
    BY <1>3 DEF HasMore
  <2>2. toClient \in Seq(CellBodies)
    BY DEF TypeOK
  <2> QED
    BY <2>1, <2>2, AddLast DEF SendBody
<1>5. written' \in Nat
  BY DEF SendBody, TypeOK
<1>6. current' \in SendTasks
  <2>1. HasMore(c) /\ ~IsLastOf(c) => c.what = "answer"
    BY <1>1 DEF HasMore, IsLastOf, Count
  <2>2. c \in SendTasks /\ c.what = "answer"
            => [c EXCEPT !.next = @ + 1] \in SendTasks
    BY DEF SendTasks, NoCurrent
  <2>3. ~HasMore(c) => c.what \in {"none", "answer"}
    BY <1>1 DEF HasMore, Count
  <2> QED
    BY <1>1, <2>1, <2>2, <2>3, Elements DEF SendBody
<1>7. serverQueue' \in Seq(ServerMessages) /\ running' \in BOOLEAN
  <2>1. serverQueue \in Seq(ServerMessages)
    BY DEF TypeOK
  <2>2. serverQueue # << >> => Tail(serverQueue) \in Seq(ServerMessages)
    BY <2>1, TakeFirst
  <2>3. Ends(serverQueue, busy, c) => serverQueue # << >>
    BY DEF Ends
  <2>4. serverQueue' \in {serverQueue, Tail(serverQueue)}
        /\ (serverQueue' = Tail(serverQueue) => serverQueue' = serverQueue
               \/ Ends(serverQueue, busy, c))
        /\ running' \in BOOLEAN
    BY DEF SendBody, Finish
  <2> QED
    BY <2>1, <2>2, <2>3, <2>4
<1> QED
  BY <1>4, <1>5, <1>6, <1>7

(* A receive task that is given a part, or whose time runs out.            *)
LEMMA TaskChanges ==
    ASSUME NEW t \in ReceiveTasks, NEW k \in Nat
    PROVE  /\ WithPart(t, k) \in ReceiveTasks
           /\ WithPart(t, k).is
           /\ WithPart(t, k).block <=> t.is /\ t.block
           /\ WithPart(t, k).parts = Append(IF t.is THEN t.parts ELSE << >>, k)
           /\ [t EXCEPT !.late = TRUE] \in ReceiveTasks
           /\ [t EXCEPT !.late = TRUE].is = t.is
           /\ [t EXCEPT !.late = TRUE].block = t.block
           /\ [t EXCEPT !.late = TRUE].parts = t.parts
<1>1. /\ Append(t.parts, k) \in Seq(Nat) /\ << >> \in Seq(Nat)
      /\ Append(<< >>, k) \in Seq(Nat)
  BY AddLast, EmptySeq DEF ReceiveTasks
<1>2. /\ [t EXCEPT !.late = TRUE] \in ReceiveTasks
      /\ [t EXCEPT !.late = TRUE].is = t.is
      /\ [t EXCEPT !.late = TRUE].block = t.block
      /\ [t EXCEPT !.late = TRUE].parts = t.parts
  BY DEF ReceiveTasks
<1>3. \A u \in ReceiveTasks :
          Append(u.parts, k) \in Seq(Nat) =>
              /\ [u EXCEPT !.parts = Append(@, k)] \in ReceiveTasks
              /\ [u EXCEPT !.parts = Append(@, k)].is = u.is
              /\ [u EXCEPT !.parts = Append(@, k)].block = u.block
              /\ [u EXCEPT !.parts = Append(@, k)].parts = Append(u.parts, k)
  BY DEF ReceiveTasks
<1>4. /\ Stray \in ReceiveTasks /\ Stray.is /\ ~Stray.block
      /\ Stray.parts = << >> /\ t.is \in BOOLEAN /\ t.block \in BOOLEAN
  BY Elements DEF Stray, ReceiveTask, ReceiveTasks
<1> QED
  BY <1>1, <1>2, <1>3, <1>4 DEF WithPart

(* The type invariant is inductive.                                        *)
LEMMA TypeStep == TypeOK /\ [Next]_vars => TypeOK'
<1> SUFFICES ASSUME TypeOK, [Next]_vars PROVE TypeOK'
  OBVIOUS
<1>0. /\ clientQueue \in Seq(ClientMessages) /\ toServer \in Seq(ClientMessages)
      /\ toClient \in Seq(CellBodies) /\ serverQueue \in Seq(ServerMessages)
      /\ waiting \in [Requests -> ReceiveTasks]
      /\ cancelWait \in [Requests -> ReceiveTasks]
      /\ completed \in [Requests -> Seq(Nat)]
      /\ << >> \in Seq(ClientMessages) /\ << >> \in Seq(CellBodies)
      /\ << >> \in Seq(ServerMessages)
  BY EmptySeq DEF TypeOK
<1>1. ASSUME NEW r \in Requests, Request(r) PROVE TypeOK'
  BY <1>0, <1>1, AddLast, Elements DEF Request, TypeOK, netVars, serverVars
<1>2. ASSUME NEW r \in Requests, CancelRequest(r) PROVE TypeOK'
  BY <1>0, <1>2, AddLast, Elements DEF CancelRequest, TypeOK, netVars, serverVars
<1>3. ASSUME NEW r \in Requests, Timeout(r) PROVE TypeOK'
  <2>1. waiting' = [waiting EXCEPT ![r] = [waiting[r] EXCEPT !.late = TRUE]]
    BY <1>3 DEF Timeout
  <2>2. waiting' \in [Requests -> ReceiveTasks]
    BY <1>0, <2>1, TaskChanges
  <2> QED
    BY <1>0, <1>3, <2>2 DEF Timeout, TypeOK, netVars, serverVars
<1>19. ASSUME NEW r \in Requests, CancelStuck(r) PROVE TypeOK'
  <2>1. Tail(clientQueue) \in Seq(ClientMessages)
    BY <1>0, <1>19, TakeFirst DEF CancelStuck, IsStuck
  <2>2. Append(Tail(clientQueue), Message("cancel", r)) \in Seq(ClientMessages)
    BY <2>1, AddLast, Elements
  <2>3. /\ clientQueue' \in Seq(ClientMessages)
        /\ waiting' \in [Requests -> ReceiveTasks] /\ cancelled' \subseteq Requests
    <3>1. CASE waiting[r].is
      <4>1. /\ clientQueue' = Append(Tail(clientQueue), Message("cancel", r))
            /\ waiting' = [waiting EXCEPT ![r] = NoTask]
            /\ cancelled' = cancelled \cup {r}
        BY <1>19, <3>1 DEF CancelStuck
      <4> QED
        BY <1>0, <2>2, <4>1, Elements DEF TypeOK
    <3>2. CASE ~waiting[r].is
      BY <1>0, <1>19, <2>1, <3>2 DEF CancelStuck, TypeOK
    <3> QED
      BY <3>1, <3>2
  <2> QED
    BY <1>0, <1>19, <2>3 DEF CancelStuck, TypeOK, netVars, serverVars
<1>20. CASE TransmitDisturbed
  <2> DEFINE m == Head(clientQueue)
             e == Message("stuck", m.about)
  <2>1. /\ m \in ClientMessages /\ Tail(clientQueue) \in Seq(ClientMessages)
        /\ Append(toServer, m) \in Seq(ClientMessages)
    BY <1>0, <1>20, TakeFirst, AddLast DEF TransmitDisturbed
  <2>2. m.about \in Requests /\ e \in ClientMessages
    BY <1>20, <2>1, Elements DEF TransmitDisturbed
  <2>3. [clientQueue EXCEPT ![1] = e] \in Seq(ClientMessages)
    BY <1>0, <1>20, <2>2, FirstChanged DEF TransmitDisturbed
  <2>4. PICK sent, expects, ends \in BOOLEAN :
            /\ toServer' = IF sent /\ live THEN Append(toServer, m) ELSE toServer
            /\ waiting' = IF expects /\ m.what = "request"
                          THEN [waiting EXCEPT ![m.about] = Expecting]
                          ELSE waiting
            /\ cancelWait' = IF expects /\ m.what = "cancel"
                             THEN [cancelWait EXCEPT ![m.about] = Expecting]
                             ELSE cancelWait
            /\ clientQueue' = IF ends THEN Tail(clientQueue)
                              ELSE [clientQueue EXCEPT ![1] = e]
    BY <1>20 DEF TransmitDisturbed
  <2>5. /\ toServer' \in Seq(ClientMessages) /\ clientQueue' \in Seq(ClientMessages)
        /\ waiting' \in [Requests -> ReceiveTasks]
        /\ cancelWait' \in [Requests -> ReceiveTasks]
    BY <1>0, <2>1, <2>2, <2>3, <2>4, Elements
  <2> QED
    BY <1>0, <1>20, <2>5 DEF TransmitDisturbed, TypeOK, serverVars
<1>21. CASE StartDisturbed
  <2> DEFINE m == Head(serverQueue)
             p == [what |-> "remove", about |-> NoRequest, index |-> 0,
                   count |-> 1]
  <2>1. m \in ServerMessages /\ Tail(serverQueue) \in Seq(ServerMessages)
    BY <1>0, <1>21, TakeFirst DEF StartDisturbed
  <2>2. written \in Nat /\ written > 0
    BY <1>21 DEF StartDisturbed, TypeOK
  <2>3. p \in CellBodies
    BY DEF CellBodies
  <2>4. Append(toClient, p) \in Seq(CellBodies)
    BY <1>0, <2>3, AddLast
  <2>5. /\ toClient' \in Seq(CellBodies) /\ written' \in Nat
        /\ current' \in SendTasks /\ serverQueue' \in Seq(ServerMessages)
        /\ running' \in BOOLEAN
    <3>1. CASE /\ current' = NoCurrent /\ running' = TRUE
               /\ written' = written - 1
               /\ UNCHANGED <<serverQueue, toClient>>
      BY <1>0, <2>2, <3>1, Elements
    <3>2. CASE \E lost \in 1..(Count(m) - 1) :
                   SendBody(LateTask(m, lost), m.conn, TRUE, 0)
      <4>1. PICK lost \in 1..(Count(m) - 1) :
                SendBody(LateTask(m, lost), m.conn, TRUE, 0)
        BY <3>2
      <4>2. LateTask(m, lost) \in Tasks /\ m.conn \in Nat /\ 0 <= written
        BY <2>1, <2>2, LateTasks, Elements DEF Tasks
      <4> QED
        BY <4>1, <4>2, SendTypes
    <3>3. CASE /\ current' = NoCurrent /\ written' = written
               /\ running' \in BOOLEAN
               /\ serverQueue' \in {serverQueue, Tail(serverQueue)}
               /\ toClient' \in {toClient, Append(toClient, p)}
      BY <1>0, <2>1, <2>2, <2>4, <3>3, Elements
    <3> QED
      BY <1>21, <3>1, <3>2, <3>3 DEF StartDisturbed, LateTask
  <2> QED
    BY <1>21, <2>5 DEF StartDisturbed, TypeOK, clientVars
<1>4. CASE Transmit
  <2>1. /\ Head(clientQueue) \in ClientMessages
        /\ Tail(clientQueue) \in Seq(ClientMessages)
        /\ Append(toServer, Head(clientQueue)) \in Seq(ClientMessages)
    BY <1>0, <1>4, TakeFirst, AddLast DEF Transmit
  <2> QED
    BY <1>0, <1>4, <2>1, Elements DEF Transmit, TypeOK, serverVars
<1>5. CASE ReceiveAnswer
  <2> DEFINE p == Head(toClient)
             t == WithPart(waiting[p.about], p.index)
  <2>1. p \in CellBodies /\ Tail(toClient) \in Seq(CellBodies)
    BY <1>0, <1>5, TakeFirst DEF ReceiveAnswer
  <2>2. t \in ReceiveTasks /\ t.parts \in Seq(Nat)
    <3>1. p.about \in Requests /\ p.index \in Nat
      BY <1>5, <2>1, Elements DEF ReceiveAnswer
    <3>2. t \in ReceiveTasks
      BY <1>0, <3>1, TaskChanges
    <3> QED
      BY <3>2 DEF ReceiveTasks
  <2> HIDE DEF t
  <2>3. /\ waiting' = [waiting EXCEPT ![p.about] =
                           IF IsLast(p) THEN NoTask ELSE t]
        /\ completed' = IF IsLast(p) /\ t.block
                        THEN [completed EXCEPT ![p.about] = t.parts]
                        ELSE completed
    BY <1>5 DEF ReceiveAnswer, t
  <2> QED
    BY <1>0, <1>5, <2>1, <2>2, <2>3, Elements DEF ReceiveAnswer, TypeOK, serverVars
<1>6. CASE ReceiveCancelled
  <2>1. /\ Head(toClient) \in CellBodies /\ Tail(toClient) \in Seq(CellBodies)
    BY <1>0, <1>6, TakeFirst DEF ReceiveCancelled
  <2> QED
    BY <1>0, <1>6, <2>1, Elements DEF ReceiveCancelled, TypeOK, serverVars, AfterCancel
<1>7. CASE ReceiveRemove
  <2>1. unnoticed' \in Nat /\ written' \in Nat
    BY <1>7 DEF ReceiveRemove, LoseConnection, TypeOK
  <2>2. live' \in BOOLEAN /\ running' \in BOOLEAN
    BY <1>7 DEF ReceiveRemove, LoseConnection, TypeOK
  <2> QED
    BY <1>0, <1>7, <2>1, <2>2 DEF ReceiveRemove, LoseConnection, TypeOK
<1>8. CASE ReceiveRequest
  <2>1. /\ Head(toServer) \in ClientMessages
        /\ Tail(toServer) \in Seq(ClientMessages)
        /\ Reply("answer", Head(toServer).about) \in ServerMessages
    BY <1>0, <1>8, TakeFirst, Elements DEF ReceiveRequest, Reply, ServerMessages, TypeOK
  <2> QED
    BY <1>0, <1>8, <2>1, AddLast DEF ReceiveRequest, TypeOK, clientVars
<1>9. CASE ReceiveName
  BY <1>0, <1>9, TakeFirst DEF ReceiveName, TypeOK, clientVars, serverVars
<1>10. CASE ReceiveCancel
  <2> DEFINE r == Head(toServer).about
             answer == IF IsCurrent(r) THEN <<Reply("cancelled", r)>> ELSE << >>
  <2>1. /\ r \in Requests /\ Tail(toServer) \in Seq(ClientMessages)
    BY <1>0, <1>10, TakeFirst, Elements DEF ReceiveCancel
  <2>2. Reply("cancelled", r) \in ServerMessages
    BY <2>1 DEF Reply, ServerMessages, TypeOK
  <2>3. serverQueue \o answer \in Seq(ServerMessages)
    BY <1>0, <2>2, ConcatProperties
  <2> HIDE DEF answer, r
  <2>4. Ends(serverQueue \o answer, running, Reply("answer", r))
            => Tail(serverQueue \o answer) \in Seq(ServerMessages)
    BY <2>3, TakeFirst DEF Ends
  <2>5. /\ serverQueue' \in Seq(ServerMessages) /\ running' \in BOOLEAN
        /\ current' \in SendTasks
    BY <1>10, <2>3, <2>4, Elements DEF ReceiveCancel, Finish, TypeOK, answer, r
  <2> QED
    BY <1>0, <1>10, <2>1, <2>5 DEF ReceiveCancel, TypeOK, clientVars
<1>11. CASE StartOperation
  <2>1. Head(serverQueue) \in ServerMessages
    BY <1>0, <1>11, TakeFirst DEF StartOperation
  <2>2. StartTask(Head(serverQueue)) \in Tasks
    BY <2>1 DEF Tasks
  <2>3. SendBody(StartTask(Head(serverQueue)), Head(serverQueue).conn, TRUE, 0)
    BY <1>11 DEF StartOperation, StartTask, LateTask
  <2>4. /\ toClient' \in Seq(CellBodies) /\ written' \in Nat
        /\ current' \in SendTasks /\ serverQueue' \in Seq(ServerMessages)
        /\ running' \in BOOLEAN
    <3>1. Head(serverQueue).conn \in Nat /\ 0 <= written
      BY <2>1, Elements DEF TypeOK
    <3> QED
      BY <2>2, <2>3, <3>1, SendTypes
  <2> QED
    BY <1>11, <2>4 DEF StartOperation, TypeOK, clientVars
<1>12. CASE DidWrite
  <2>1. /\ toClient' \in Seq(CellBodies) /\ written' \in Nat
        /\ current' \in SendTasks /\ serverQueue' \in Seq(ServerMessages)
        /\ running' \in BOOLEAN
    BY <1>12, SendTypes DEF DidWrite, TypeOK, Tasks
  <2> QED
    BY <1>12, <2>1 DEF DidWrite, TypeOK, clientVars
<1>13. CASE RemoveClient
  <2>1. Reply("remove", NoRequest) \in ServerMessages
    BY DEF Reply, ServerMessages, TypeOK
  <2>2. <<Reply("remove", NoRequest)>> \in Seq(ServerMessages)
    BY <2>1
  <2> QED
    BY <1>13, <2>2 DEF RemoveClient, TypeOK, clientVars, netVars
<1>14. CASE Break
  <2>1. unnoticed' \in Nat /\ written' \in Nat
    BY <1>14 DEF Break, LoseConnection, TypeOK
  <2>2. live' \in BOOLEAN /\ running' \in BOOLEAN
    BY <1>14 DEF Break, LoseConnection, TypeOK
  <2> QED
    BY <1>0, <1>14, <2>1, <2>2 DEF Break, LoseConnection, TypeOK
<1>15. CASE ClientDidDisconnect
  BY <1>0, <1>15, Elements DEF ClientDidDisconnect, AfterLoss, TypeOK, netVars, serverVars
<1>16. CASE ServerDidDisconnect
  <2>1. unnoticed' \in Nat /\ written' \in Nat
    BY <1>16 DEF ServerDidDisconnect, TypeOK
  <2>2. live' \in BOOLEAN /\ running' \in BOOLEAN
    BY <1>16 DEF ServerDidDisconnect, TypeOK
  <2> QED
    BY <1>0, <1>16, <2>1, <2>2 DEF ServerDidDisconnect, TypeOK, clientVars
<1>17. CASE Connect
  BY <1>0, <1>17, AddLast, Elements DEF Connect, TypeOK, serverVars
<1>18. CASE UNCHANGED vars
  BY <1>18 DEF vars, clientVars, netVars, serverVars, TypeOK
<1> QED
  BY <1>1, <1>2, <1>3, <1>4, <1>5, <1>6, <1>7, <1>8, <1>9, <1>10, <1>11, <1>12,
     <1>13, <1>14, <1>15, <1>16, <1>17, <1>18, <1>19, <1>20, <1>21
     DEF Next, ClientReceive, ServerReceive

-----------------------------------------------------------------------------
(* What is where.                                                          *)

(* Taking operations off the server's queue.                               *)
LEMMA QueueShrinks ==
    ASSUME NEW q \in Seq(ServerMessages), q # << >>
    PROVE  /\ \A w, r : /\ In(Tail(q), w, r) => In(q, w, r)
                        /\ Once(q, w, r) => Once(Tail(q), w, r)
                        /\ Once(q, w, r) /\ Is(Head(q), w, r)
                               => ~In(Tail(q), w, r)
           /\ \A i \in DOMAIN Tail(q) : \E j \in DOMAIN q : Tail(q)[i] = q[j]
BY InTail, TakeFirst

(* Sending a packet of c: only c goes out; the operation that ends is the  *)
(* first one, and the one of c.                                            *)
LEMMA SendEffect ==
    ASSUME TypeOK, NEW c \in Tasks, NEW s \in Nat, NEW busy \in BOOLEAN,
           NEW reported \in Nat, SendBody(c, s, busy, reported)
    PROVE  /\ HasMore(c) /\ live /\ s = conn =>
                  toClient' = Append(toClient, [what |-> c.what, about |-> c.about,
                                                index |-> c.next, count |-> Count(c)])
           /\ ~(HasMore(c) /\ live /\ s = conn) => toClient' = toClient
           /\ \A w, r : In(toClient', w, r) <=>
                  \/ In(toClient, w, r)
                  \/ Is(c, w, r) /\ HasMore(c) /\ live /\ s = conn
           /\ \A r : CancelledLast(toClient, r)
                      /\ ~(In(toClient, "cancelled", r) /\ Is(c, "answer", r))
                      => CancelledLast(toClient', r)
           /\ IsLastOf(c) => current' = NoCurrent
           /\ ~IsLastOf(c) => /\ serverQueue' = serverQueue /\ running' = busy
                              /\ current'.what = c.what /\ current'.about = c.about
                              /\ current'.next = c.next
                                     + (IF HasMore(c) THEN 1 ELSE 0)
           /\ \A w, r : /\ In(serverQueue', w, r) => In(serverQueue, w, r)
                        /\ Once(serverQueue, w, r) => Once(serverQueue', w, r)
           /\ \A i \in DOMAIN serverQueue' :
                  \E j \in DOMAIN serverQueue : serverQueue'[i] = serverQueue[j]
           /\ \A w, r : /\ Is(c, w, r) /\ IsLastOf(c) /\ busy /\ serverQueue # << >>
                        /\ Is(Head(serverQueue), w, r) /\ Once(serverQueue, w, r)
                        => ~In(serverQueue', w, r)
           /\ serverQueue' # serverQueue =>
                  /\ IsLastOf(c) /\ serverQueue # << >> /\ busy
                  /\ \A w, r : Is(Head(serverQueue), w, r) <=> Is(c, w, r)
           /\ serverQueue' = serverQueue => running' = busy \/ serverQueue = << >>
<1> DEFINE p == [what |-> c.what, about |-> c.about, index |-> c.next,
                 count |-> Count(c)]
<1>1. p \in CellBodies \/ ~HasMore(c)
  <2>1. /\ c.what \in {"none", "answer", "cancelled", "remove"} /\ c.next \in Nat
        /\ c.what \in {"answer", "cancelled"} => c.about \in Requests
        /\ c.what = "remove" => c.about = NoRequest
    <3>1. CASE c \in SendTasks
      BY <3>1, Elements
    <3>2. CASE c \in {StartTask(m) : m \in ServerMessages}
      BY <3>2 DEF StartTask, LateTask, ServerMessages
    <3> QED
      BY <3>1, <3>2 DEF Tasks
  <2>2. c.what # "none" => Count(c) \in Nat
    BY <2>1, Elements DEF Count
  <2> QED
    BY <2>1, <2>2 DEF CellBodies, HasMore
<1>2. /\ toClient \in Seq(CellBodies) /\ serverQueue \in Seq(ServerMessages)
      /\ \A w, r : Is(p, w, r) <=> Is(c, w, r)
  BY DEF TypeOK, Is
<1>3. /\ HasMore(c) /\ live /\ s = conn => toClient' = Append(toClient, p)
      /\ ~(HasMore(c) /\ live /\ s = conn) => toClient' = toClient
  BY DEF SendBody
<1>4. \A w, r : /\ In(toClient', w, r) <=>
                       \/ In(toClient, w, r)
                       \/ Is(c, w, r) /\ HasMore(c) /\ live /\ s = conn
                /\ CancelledLast(toClient, r)
                       /\ ~(In(toClient, "cancelled", r) /\ Is(c, "answer", r))
                       => CancelledLast(toClient', r)
  <2> HIDE DEF p
  <2>1. CASE HasMore(c) /\ live /\ s = conn
    <3>1. toClient' = Append(toClient, p) /\ p \in CellBodies
      BY <1>1, <1>3, <2>1
    <3>2. \A w, r : /\ In(Append(toClient, p), w, r) <=>
                           In(toClient, w, r) \/ Is(p, w, r)
                    /\ CancelledLast(toClient, r)
                           /\ ~(In(toClient, "cancelled", r) /\ Is(p, "answer", r))
                           => CancelledLast(Append(toClient, p), r)
      BY <1>2, <3>1, InAppend
    <3> QED
      BY <1>2, <2>1, <3>1, <3>2
  <2>2. CASE ~(HasMore(c) /\ live /\ s = conn)
    BY <1>3, <2>2
  <2> QED
    BY <2>1, <2>2
<1>5. /\ IsLastOf(c) => current' = NoCurrent
      /\ ~IsLastOf(c) => /\ serverQueue' = serverQueue /\ running' = busy
                         /\ current' = IF HasMore(c)
                                       THEN [c EXCEPT !.next = @ + 1] ELSE c
      /\ IsLastOf(c) => Finish(serverQueue, busy, c)
  BY DEF SendBody
<1>6. ~IsLastOf(c) =>
          /\ current'.what = c.what /\ current'.about = c.about
          /\ current'.next = c.next + (IF HasMore(c) THEN 1 ELSE 0)
  <2>1. \A d \in Tasks : /\ [d EXCEPT !.next = @ + 1].what = d.what
                         /\ [d EXCEPT !.next = @ + 1].about = d.about
                         /\ [d EXCEPT !.next = @ + 1].next = d.next + 1
                         /\ d.next + 0 = d.next
    BY DEF Tasks, SendTasks, StartTask, LateTask, NoCurrent
  <2> QED
    BY <1>5, <2>1
<1>7. /\ IsLastOf(c) /\ Ends(serverQueue, busy, c)
             => serverQueue' = Tail(serverQueue)
      /\ ~(IsLastOf(c) /\ Ends(serverQueue, busy, c))
             => serverQueue' = serverQueue
  BY <1>5 DEF Finish
<1>8. Ends(serverQueue, busy, c) <=>
          /\ busy /\ serverQueue # << >>
          /\ \A w, r : Is(Head(serverQueue), w, r) <=> Is(c, w, r)
  BY DEF Ends, Is
<1>9. /\ \A w, r : /\ In(serverQueue', w, r) => In(serverQueue, w, r)
                   /\ Once(serverQueue, w, r) => Once(serverQueue', w, r)
      /\ \A i \in DOMAIN serverQueue' :
             \E j \in DOMAIN serverQueue : serverQueue'[i] = serverQueue[j]
  <2>1. CASE serverQueue' = serverQueue
    BY <2>1
  <2>2. CASE serverQueue' = Tail(serverQueue) /\ serverQueue # << >>
    BY <1>2, <2>2, QueueShrinks
  <2> QED
    BY <1>7, <1>8, <2>1, <2>2
<1>10. \A w, r : /\ Is(c, w, r) /\ IsLastOf(c) /\ busy /\ serverQueue # << >>
                 /\ Is(Head(serverQueue), w, r) /\ Once(serverQueue, w, r)
                 => ~In(serverQueue', w, r)
  <2>1. \A w, r : Is(c, w, r) /\ busy /\ serverQueue # << >>
                  /\ Is(Head(serverQueue), w, r) => Ends(serverQueue, busy, c)
    BY DEF Ends, Is
  <2>2. serverQueue # << >> =>
            \A w, r : Once(serverQueue, w, r) /\ Is(Head(serverQueue), w, r)
                       => ~In(Tail(serverQueue), w, r)
    BY <1>2, QueueShrinks
  <2> QED
    BY <1>7, <2>1, <2>2
<1>11. serverQueue' = serverQueue => running' = busy \/ serverQueue = << >>
  <2>1. serverQueue # << >> => Tail(serverQueue) # serverQueue
    BY <1>2, HeadTailProperties, EmptySeq
  <2>2. ~Ends(serverQueue, busy, c) /\ IsLastOf(c) => running' = busy
    BY <1>5 DEF Finish
  <2> QED
    BY <1>5, <1>7, <1>8, <2>1, <2>2
<1> QED
  BY <1>3, <1>4, <1>5, <1>6, <1>7, <1>8, <1>9, <1>10, <1>11

(* The cancelling of a request: its operation leaves the queue if it is    *)
(* the current one, and its reply is added.                                *)
LEMMA CancelEffect ==
    ASSUME TypeOK, ReceiveCancel, NEW r, r = Head(toServer).about
    PROVE  /\ r \in Requests
           /\ IsCurrent(r) => current' = NoCurrent
           /\ ~IsCurrent(r) => current' = current
           /\ \A w, x : In(serverQueue', w, x) =>
                  In(serverQueue, w, x)
                      \/ (IsCurrent(r) /\ w = "cancelled" /\ x = r)
           /\ \A x : Once(serverQueue, "answer", x)
                      => Once(serverQueue', "answer", x)
           /\ \A i \in DOMAIN serverQueue' :
                  \/ \E j \in DOMAIN serverQueue : serverQueue'[i] = serverQueue[j]
                  \/ serverQueue'[i] = Reply("cancelled", r)
           /\ IsCurrent(r) /\ Once(serverQueue, "answer", r) /\ running
                  /\ serverQueue # << >> /\ Is(Head(serverQueue), "answer", r)
                  => ~In(serverQueue', "answer", r)
           /\ \A x : running /\ serverQueue # << >>
                      /\ Is(Head(serverQueue), "answer", x) /\ x # r
                      => /\ running' /\ serverQueue' # << >>
                         /\ Is(Head(serverQueue'), "answer", x)
<1>1. /\ r \in Requests /\ toServer # << >>
  BY TakeFirst, Elements DEF ReceiveCancel, TypeOK
<1> DEFINE e == Reply("cancelled", r)
           q == IF IsCurrent(r) THEN Append(serverQueue, e) ELSE serverQueue
<1>2. e \in ServerMessages /\ ~Is(e, "answer", r) /\ e.what = "cancelled"
      /\ \A w, x : Is(e, w, x) => w = "cancelled" /\ x = r
  BY <1>1 DEF Reply, ServerMessages, TypeOK, Is
<1>3. /\ serverQueue \in Seq(ServerMessages)
      /\ serverQueue \o <<e>> = Append(serverQueue, e)
      /\ serverQueue \o << >> = serverQueue
  <2>1. serverQueue \in Seq(ServerMessages)
    BY DEF TypeOK
  <2> QED
    BY <1>2, <2>1, AppendIsConcat, ConcatEmptySeq
<1>4. /\ current' = IF IsCurrent(r) THEN NoCurrent ELSE current
      /\ Finish(q, running, Reply("answer", r))
  BY <1>3 DEF ReceiveCancel
<1>5. /\ q \in Seq(ServerMessages)
      /\ \A w, x : In(q, w, x) <=>
             In(serverQueue, w, x) \/ (IsCurrent(r) /\ Is(e, w, x))
      /\ \A x : Once(serverQueue, "answer", x) => Once(q, "answer", x)
      /\ \A i \in DOMAIN q : \/ \E j \in DOMAIN serverQueue : q[i] = serverQueue[j]
                            \/ q[i] = e
      /\ serverQueue # << >> => q # << >> /\ Head(q) = Head(serverQueue)
  <2>1. CASE IsCurrent(r)
    <3>1. /\ q = Append(serverQueue, e) /\ Append(serverQueue, e) \in Seq(ServerMessages)
          /\ \A w, x : In(Append(serverQueue, e), w, x)
                           <=> In(serverQueue, w, x) \/ Is(e, w, x)
          /\ \A x : Once(serverQueue, "answer", x)
                 => Once(Append(serverQueue, e), "answer", x)
          /\ Append(serverQueue, e) # << >>
          /\ serverQueue # << >> => Head(Append(serverQueue, e)) = Head(serverQueue)
      BY <1>2, <1>3, <2>1, InAppend, AddLast DEF Is
    <3>2. \A i \in DOMAIN Append(serverQueue, e) :
              \/ \E j \in DOMAIN serverQueue :
                     Append(serverQueue, e)[i] = serverQueue[j]
              \/ Append(serverQueue, e)[i] = e
      BY <1>2, <1>3, AddLast
    <3> QED
      BY <2>1, <3>1, <3>2
  <2>2. CASE ~IsCurrent(r)
    BY <1>3, <2>2
  <2> QED
    BY <2>1, <2>2
<1> HIDE DEF q, e
<1>6. Ends(q, running, Reply("answer", r)) <=>
          running /\ q # << >> /\ Is(Head(q), "answer", r)
  BY DEF Ends, Is, Reply
<1>7. \/ /\ Ends(q, running, Reply("answer", r))
         /\ serverQueue' = Tail(q) /\ q # << >>
      \/ /\ ~Ends(q, running, Reply("answer", r))
         /\ serverQueue' = q /\ (running => running')
  BY <1>4, <1>6 DEF Finish
<1>8. /\ \A w, x : In(serverQueue', w, x) => In(q, w, x)
      /\ \A x : Once(q, "answer", x) => Once(serverQueue', "answer", x)
      /\ \A i \in DOMAIN serverQueue' : \E j \in DOMAIN q : serverQueue'[i] = q[j]
  <2>1. CASE serverQueue' = q
    BY <2>1
  <2>2. CASE serverQueue' = Tail(q) /\ q # << >>
    BY <1>5, <2>2, QueueShrinks
  <2> QED
    BY <1>7, <2>1, <2>2
<1>9. Once(serverQueue, "answer", r) /\ running /\ serverQueue # << >>
          /\ Is(Head(serverQueue), "answer", r) => ~In(serverQueue', "answer", r)
  <2>1. q # << >> => (Once(q, "answer", r) /\ Is(Head(q), "answer", r)
                          => ~In(Tail(q), "answer", r))
    BY <1>5, QueueShrinks
  <2> QED
    BY <1>5, <1>6, <1>7, <2>1
<1>10. \A x : running /\ serverQueue # << >>
              /\ Is(Head(serverQueue), "answer", x) /\ x # r
              => /\ running' /\ serverQueue' # << >>
                 /\ Is(Head(serverQueue'), "answer", x)
  <2>1. \A x : Is(Head(q), "answer", x) /\ x # r => ~Is(Head(q), "answer", r)
    BY DEF Is
  <2> QED
    BY <1>5, <1>6, <1>7, <2>1
<1> QED
  BY <1>1, <1>2, <1>4, <1>5, <1>8, <1>9, <1>10 DEF e

-----------------------------------------------------------------------------
(* A request and its answer are in one place at a time.                    *)

Base == TypeOK /\ Placed /\ ConnectionIsKnown

(* Asking, sending and cancelling at the client.                           *)
LEMMA PlacedClient ==
    ASSUME Base, TypeOK', NEW r \in Requests,
           Request(r) \/ CancelRequest(r) \/ Timeout(r)
    PROVE  Base'
<1> USE DEF Base, Placed, RequestIsUnsent, RequestIsOnTheWay, AnswerIsQueued,
           CancelledExpectsNothing, ConnectionIsKnown, NotSent, AnswerIsCurrent
<1>0. /\ clientQueue \in Seq(ClientMessages)
      /\ waiting \in [Requests -> ReceiveTasks]
      /\ cancelled \subseteq Requests
  BY DEF TypeOK
<1>1. CASE Request(r)
  <2>1. /\ clientQueue' = Append(clientQueue, Message("request", r))
        /\ asked' = asked \cup {r} /\ r \notin asked
        /\ clientSide # "down"
        /\ UNCHANGED <<waiting, cancelWait, completed, cancelled, answered,
                       clientSide, toServer, toClient, conn, live, unnoticed,
                       serverQueue, running, current, written>>
    BY <1>1 DEF Request, netVars, serverVars
  <2>2. \A x : /\ In(clientQueue', "request", x)
                      <=> In(clientQueue, "request", x) \/ x = r
               /\ Once(clientQueue, "request", x)
                      /\ ~(In(clientQueue, "request", x) /\ x = r)
                      => Once(clientQueue', "request", x)
    <3>1. \A x : Is(Message("request", r), "request", x) <=> x = r
      BY DEF Is, Message
    <3> QED
      BY <1>0, <2>1, <3>1, InAppend, Elements
  <2> QED
    BY <2>1, <2>2
<1>2. CASE CancelRequest(r)
  <2>1. /\ clientQueue' = Append(clientQueue, Message("cancel", r))
        /\ cancelled' = cancelled \cup {r} /\ r \in asked /\ waiting[r].is
        /\ waiting' = [waiting EXCEPT ![r] = NoTask]
        /\ UNCHANGED <<asked, cancelWait, completed, answered,
                       clientSide, toServer, toClient, conn, live, unnoticed,
                       serverQueue, running, current, written>>
    BY <1>2 DEF CancelRequest, netVars, serverVars
  <2>2. \A x : /\ In(clientQueue', "request", x)
                      <=> In(clientQueue, "request", x)
               /\ Once(clientQueue, "request", x)
                      => Once(clientQueue', "request", x)
    <3>1. \A x : ~Is(Message("cancel", r), "request", x)
      BY DEF Is, Message
    <3> QED
      BY <1>0, <2>1, <3>1, InAppend, Elements
  <2>3. /\ ~waiting'[r].is /\ ~waiting'[r].block
        /\ \A x \in Requests \ {r} : waiting'[x] = waiting[x]
    BY <1>0, <2>1 DEF NoTask, ReceiveTask
  <2> QED
    BY <1>0, <2>1, <2>2, <2>3
<1>3. CASE Timeout(r)
  <2>1. /\ waiting' = [waiting EXCEPT ![r] = [waiting[r] EXCEPT !.late = TRUE]]
        /\ waiting[r].is
        /\ UNCHANGED <<asked, clientQueue, cancelWait, completed, cancelled,
                       answered, clientSide, toServer, toClient, conn, live,
                       unnoticed, serverQueue, running, current, written>>
    BY <1>3 DEF Timeout, netVars, serverVars
  <2>2. \A x \in Requests : /\ waiting'[x].is = waiting[x].is
                            /\ waiting'[x].block = waiting[x].block
    BY <1>0, <2>1, TaskChanges
  <2> QED
    BY <1>0, <2>1, <2>2
<1> QED
  BY <1>1, <1>2, <1>3

(* An operation that executes for ever is cancelled with its request.      *)
LEMMA PlacedStuck ==
    ASSUME Base, TypeOK', NEW r \in Requests, CancelStuck(r)
    PROVE  Base'
<1> USE DEF Base, Placed, RequestIsUnsent, RequestIsOnTheWay, AnswerIsQueued,
           CancelledExpectsNothing, ConnectionIsKnown, NotSent, AnswerIsCurrent
<1> DEFINE e == Message("cancel", r)
           q == Tail(clientQueue)
<1>0. /\ clientQueue \in Seq(ClientMessages) /\ clientQueue # << >>
      /\ q \in Seq(ClientMessages) /\ e \in ClientMessages
      /\ \A x : ~Is(e, "request", x)
  <2>1. /\ clientQueue \in Seq(ClientMessages) /\ clientQueue # << >>
    BY DEF TypeOK, CancelStuck, IsStuck
  <2> QED
    BY <2>1, TakeFirst, Elements DEF Is, Message
<1>1. /\ \/ /\ waiting[r].is /\ clientQueue' = Append(q, e)
            /\ cancelled' = cancelled \cup {r}
            /\ waiting' = [waiting EXCEPT ![r] = NoTask]
         \/ clientQueue' = q /\ cancelled' = cancelled /\ waiting' = waiting
      /\ r \in asked
      /\ UNCHANGED <<asked, cancelWait, completed, answered,
                     clientSide, toServer, toClient, conn, live, unnoticed,
                     serverQueue, running, current, written>>
  BY DEF CancelStuck, netVars, serverVars
<1>2. \A x : /\ In(q, "request", x) => In(clientQueue, "request", x)
             /\ Once(clientQueue, "request", x) => Once(q, "request", x)
  BY <1>0, InTail
<1>3. \A x : /\ In(Append(q, e), "request", x) <=> In(q, "request", x)
             /\ Once(q, "request", x) => Once(Append(q, e), "request", x)
  BY <1>0, InAppend
<1>4. clientSide # "down" /\ waiting \in [Requests -> ReceiveTasks]
      /\ cancelled \subseteq Requests
  BY <1>0 DEF TypeOK
<1> HIDE DEF q, e
<1>5. CASE clientQueue' = q /\ cancelled' = cancelled /\ waiting' = waiting
  BY <1>1, <1>2, <1>4, <1>5
<1>6. CASE /\ waiting[r].is /\ clientQueue' = Append(q, e)
           /\ cancelled' = cancelled \cup {r}
           /\ waiting' = [waiting EXCEPT ![r] = NoTask]
  <2>1. /\ ~waiting'[r].is /\ ~waiting'[r].block
        /\ \A x \in Requests \ {r} : waiting'[x] = waiting[x]
    BY <1>4, <1>6 DEF NoTask, ReceiveTask
  <2>2. \A x : /\ In(clientQueue', "request", x) => In(clientQueue, "request", x)
               /\ Once(clientQueue, "request", x)
                      => Once(clientQueue', "request", x)
    BY <1>2, <1>3, <1>6
  <2> QED
    BY <1>1, <1>4, <1>6, <2>1, <2>2
<1> QED
  BY <1>1, <1>5, <1>6

(* The next message of the client is written.                              *)
LEMMA PlacedTransmit ==
    ASSUME Base, TypeOK', Transmit
    PROVE  Base'
<1> USE DEF Base, Placed, RequestIsUnsent, RequestIsOnTheWay, AnswerIsQueued,
           CancelledExpectsNothing, ConnectionIsKnown, NotSent, AnswerIsCurrent
<1> DEFINE m == Head(clientQueue)
<1>0. /\ clientQueue \in Seq(ClientMessages) /\ toServer \in Seq(ClientMessages)
      /\ waiting \in [Requests -> ReceiveTasks]
      /\ cancelled \subseteq Requests /\ clientQueue # << >>
      /\ m \in ClientMessages
  BY TakeFirst DEF TypeOK, Transmit
<1>1. /\ clientQueue' = Tail(clientQueue)
      /\ toServer' = IF live THEN Append(toServer, m) ELSE toServer
      /\ waiting' = IF m.what = "request"
                    THEN [waiting EXCEPT ![m.about] = Expecting] ELSE waiting
      /\ UNCHANGED <<asked, completed, cancelled, answered, clientSide,
                     toClient, conn, live, unnoticed, serverQueue, running,
                     current, written>>
  BY DEF Transmit, serverVars
<1>2. \A x : /\ In(clientQueue', "request", x) => In(clientQueue, "request", x)
             /\ Is(m, "request", x) => In(clientQueue, "request", x)
             /\ Once(clientQueue, "request", x) => Once(clientQueue', "request", x)
             /\ Once(clientQueue, "request", x) /\ Is(m, "request", x)
                    => ~In(clientQueue', "request", x)
  BY <1>0, <1>1, InTail
<1>3. \A x : /\ In(toServer', "request", x) =>
                    In(toServer, "request", x) \/ (Is(m, "request", x) /\ live)
             /\ Once(toServer, "request", x)
                    /\ ~(In(toServer, "request", x) /\ Is(m, "request", x))
                    => Once(toServer', "request", x)
  <2>1. CASE live
    BY <1>0, <1>1, <2>1, InAppend
  <2>2. CASE ~live
    BY <1>1, <2>2
  <2> QED
    BY <2>1, <2>2
<1>4. \A x \in Requests : /\ Is(m, "request", x) => waiting'[x] = Expecting
                          /\ ~Is(m, "request", x) => waiting'[x] = waiting[x]
  BY <1>0, <1>1, Elements DEF Is
<1>5. Expecting.is /\ Expecting.block
  BY DEF Expecting, ReceiveTask
<1>6. clientSide # "down"
  BY <1>0
<1> HIDE DEF m
<1> QED
  BY <1>0, <1>1, <1>2, <1>3, <1>4, <1>5, <1>6

(* The next message of the client, disturbed by the main thread.           *)
LEMMA PlacedTransmitDisturbed ==
    ASSUME Base, TypeOK', TransmitDisturbed
    PROVE  Base'
<1> USE DEF Base, Placed, RequestIsUnsent, RequestIsOnTheWay, AnswerIsQueued,
           CancelledExpectsNothing, ConnectionIsKnown, NotSent, AnswerIsCurrent
<1> DEFINE m == Head(clientQueue)
           e == Message("stuck", m.about)
           q == [clientQueue EXCEPT ![1] = e]
<1>0. /\ clientQueue \in Seq(ClientMessages) /\ toServer \in Seq(ClientMessages)
      /\ waiting \in [Requests -> ReceiveTasks]
      /\ cancelled \subseteq Requests /\ clientQueue # << >>
      /\ m \in ClientMessages /\ m.what \in {"request", "cancel"}
      /\ e \in ClientMessages /\ \A x : ~Is(e, "request", x)
  <2>1. /\ clientQueue \in Seq(ClientMessages) /\ clientQueue # << >>
        /\ m \in ClientMessages /\ m.what \in {"request", "cancel"}
    BY TakeFirst DEF TypeOK, TransmitDisturbed
  <2> QED
    BY <2>1, Elements DEF TypeOK, Is, Message
<1>1. /\ clientQueue' \in {Tail(clientQueue), q}
      /\ toServer' \in {toServer, IF live THEN Append(toServer, m) ELSE toServer}
      /\ waiting' \in {waiting, IF m.what = "request"
                               THEN [waiting EXCEPT ![m.about] = Expecting]
                               ELSE waiting}
      /\ UNCHANGED <<asked, completed, cancelled, answered, clientSide,
                     toClient, conn, live, unnoticed, serverQueue, running,
                     current, written>>
  BY DEF TransmitDisturbed, serverVars
<1>2. \A x : /\ In(clientQueue', "request", x) => In(clientQueue, "request", x)
             /\ Is(m, "request", x) => In(clientQueue, "request", x)
             /\ Once(clientQueue, "request", x) => Once(clientQueue', "request", x)
             /\ Once(clientQueue, "request", x) /\ Is(m, "request", x)
                    => ~In(clientQueue', "request", x)
  <2>1. CASE clientQueue' = Tail(clientQueue)
    BY <1>0, <2>1, InTail
  <2>2. CASE clientQueue' = q
    <3>1. /\ DOMAIN q = DOMAIN clientQueue /\ q[1] = e
          /\ \A i \in DOMAIN clientQueue : i # 1 => q[i] = clientQueue[i]
          /\ 1 \in DOMAIN clientQueue /\ m = clientQueue[1]
      BY <1>0, FirstChanged, TakeFirst
    <3> HIDE DEF q, e, m
    <3>2. \A x : In(q, "request", x) => In(clientQueue, "request", x)
      BY <1>0, <3>1 DEF In
    <3>3. \A x : Is(m, "request", x) => In(clientQueue, "request", x)
      BY <3>1 DEF In
    <3>4. \A x : Once(clientQueue, "request", x) => Once(q, "request", x)
      BY <1>0, <3>1 DEF Once
    <3>5. \A x : Once(clientQueue, "request", x) /\ Is(m, "request", x)
                    => ~In(q, "request", x)
      BY <1>0, <3>1 DEF Once, In
    <3> QED
      BY <2>2, <3>2, <3>3, <3>4, <3>5
  <2> QED
    BY <1>1, <2>1, <2>2
<1>3. \A x : /\ In(toServer', "request", x) =>
                    In(toServer, "request", x) \/ (Is(m, "request", x) /\ live)
             /\ Once(toServer, "request", x)
                    /\ ~(In(toServer, "request", x) /\ Is(m, "request", x))
                    => Once(toServer', "request", x)
  <2>1. CASE toServer' = Append(toServer, m) /\ live
    BY <1>0, <2>1, InAppend
  <2>2. CASE toServer' = toServer
    BY <2>2
  <2> QED
    BY <1>1, <2>1, <2>2
<1>4. \A x \in Requests :
          \/ waiting'[x] = waiting[x]
          \/ Is(m, "request", x) /\ waiting'[x] = Expecting
  BY <1>0, <1>1, Elements DEF Is
<1>5. Expecting.is /\ Expecting.block
  BY DEF Expecting, ReceiveTask
<1>6. clientSide # "down" /\ (~live => toServer' = toServer)
  BY <1>0, <1>1
<1> HIDE DEF m, q, e
<1> QED
  BY <1>0, <1>1, <1>2, <1>3, <1>4, <1>5, <1>6

(* What a receive task is after a packet has arrived.                      *)
LEMMA ReceiveEffect ==
    ASSUME TypeOK, ReceiveAnswer, NEW p, p = Head(toClient)
    PROVE  /\ p \in CellBodies /\ p.about \in Requests /\ p.index \in Nat
           /\ Is(p, "answer", p.about)
           /\ \A x \in Requests \ {p.about} : /\ waiting'[x] = waiting[x]
                                             /\ completed'[x] = completed[x]
           /\ IsLast(p) => waiting'[p.about] = NoTask
           /\ ~IsLast(p) =>
                  /\ waiting'[p.about].is
                  /\ waiting'[p.about].block
                         <=> waiting[p.about].is /\ waiting[p.about].block
                  /\ waiting[p.about].is =>
                         waiting'[p.about].parts
                             = Append(waiting[p.about].parts, p.index)
           /\ IsLast(p) /\ waiting[p.about].is /\ waiting[p.about].block =>
                  completed'[p.about] = Append(waiting[p.about].parts, p.index)
           /\ ~(IsLast(p) /\ waiting[p.about].is /\ waiting[p.about].block) =>
                  completed'[p.about] = completed[p.about]
<1> DEFINE t == WithPart(waiting[p.about], p.index)
<1>1. /\ waiting \in [Requests -> ReceiveTasks]
      /\ completed \in [Requests -> Seq(Nat)]
      /\ p \in CellBodies /\ p.about \in Requests /\ p.index \in Nat
      /\ p.what = "answer"
  BY TakeFirst, Elements DEF TypeOK, ReceiveAnswer
<1>2. /\ t.is /\ (t.block <=> waiting[p.about].is /\ waiting[p.about].block)
      /\ waiting[p.about].is => t.parts = Append(waiting[p.about].parts, p.index)
  <2>1. waiting[p.about] \in ReceiveTasks
    BY <1>1
  <2>2. t.parts = Append(IF waiting[p.about].is THEN waiting[p.about].parts
                         ELSE << >>, p.index)
    BY <1>1, <2>1, TaskChanges
  <2>3. t.is /\ (t.block <=> waiting[p.about].is /\ waiting[p.about].block)
    BY <1>1, <2>1, TaskChanges
  <2> QED
    BY <2>2, <2>3
<1>3. /\ waiting' = [waiting EXCEPT ![p.about] = IF IsLast(p) THEN NoTask ELSE t]
      /\ completed' = IF IsLast(p) /\ t.block
                      THEN [completed EXCEPT ![p.about] = t.parts] ELSE completed
  BY DEF ReceiveAnswer
<1> HIDE DEF t
<1> QED
  BY <1>1, <1>2, <1>3 DEF Is

(* An empty receive task.                                                  *)
LEMMA EmptyTask == ~NoTask.is /\ ~NoTask.block
BY DEF NoTask, ReceiveTask

(* Packets arrive at the client, or the connection is lost.                *)
LEMMA PlacedReceive ==
    ASSUME Base, TypeOK', ClientReceive \/ Break
    PROVE  Base'
<1>0. /\ toClient \in Seq(CellBodies) /\ cancelled \subseteq Requests
      /\ waiting \in [Requests -> ReceiveTasks]
      /\ toClient # << >> => clientSide = "up" /\ live
      /\ toClient # << >> =>
             \A x : /\ In(Tail(toClient), "answer", x)
                           => In(toClient, "answer", x)
                    /\ Is(Head(toClient), "answer", x)
                           => In(toClient, "answer", x)
  BY InTail DEF TypeOK, Base, ConnectionIsKnown
<1>1. CASE ReceiveAnswer
  <2> DEFINE p == Head(toClient)
  <2>1. /\ p.about \in Requests /\ Is(p, "answer", p.about)
        /\ \A x \in Requests \ {p.about} : waiting'[x] = waiting[x]
        /\ waiting'[p.about].block => waiting[p.about].block
        /\ waiting'[p.about].block => waiting'[p.about].is
    BY <1>1, ReceiveEffect, EmptyTask DEF Base, ConnectionIsKnown
  <2>2. /\ toClient' = Tail(toClient) /\ toClient # << >>
        /\ UNCHANGED <<asked, clientQueue, cancelled, clientSide, toServer, conn,
                       live, serverQueue, running, current>>
    BY <1>1 DEF ReceiveAnswer, serverVars
  <2>3. In(toClient, "answer", p.about)
    BY <1>0, <2>1, <2>2
  <2>4. /\ \A x : In(toClient', "answer", x) => In(toClient, "answer", x)
        /\ clientSide = "up" /\ live
    BY <1>0, <2>2
  <2> HIDE DEF p
  <2> QED
    BY <1>0, <2>1, <2>2, <2>3, <2>4 DEF Base, Placed,
       RequestIsUnsent, RequestIsOnTheWay, AnswerIsQueued, CancelledExpectsNothing,
       ConnectionIsKnown, NotSent, AnswerIsCurrent
<1>2. CASE ReceiveCancelled
  <2>1. /\ toClient' = Tail(toClient) /\ toClient # << >>
        /\ UNCHANGED <<asked, clientQueue, cancelled, clientSide, toServer, conn,
                       live, serverQueue, running, current>>
        /\ waiting' = [waiting EXCEPT ![Head(toClient).about] =
                          AfterCancel(Head(toClient).about)]
    BY <1>2 DEF ReceiveCancelled, serverVars
  <2>2. \A x \in Requests : waiting'[x] \in {waiting[x], NoTask}
    BY <1>0, <2>1 DEF AfterCancel
  <2>3. /\ \A x : In(toClient', "answer", x) => In(toClient, "answer", x)
        /\ clientSide = "up" /\ live
    BY <1>0, <2>1
  <2> QED
    BY <1>0, <2>1, <2>2, <2>3, EmptyTask DEF Base, Placed,
       RequestIsUnsent, RequestIsOnTheWay, AnswerIsQueued, CancelledExpectsNothing,
       ConnectionIsKnown, NotSent, AnswerIsCurrent
<1>3. CASE ReceiveRemove \/ Break
  <2>1. /\ live' = FALSE /\ clientSide' = "broken" /\ live
        /\ toServer' = << >> /\ toClient' = << >>
        /\ UNCHANGED <<asked, clientQueue, waiting, cancelled, conn, serverQueue,
                       running, current>>
    BY <1>0, <1>3 DEF ReceiveRemove, Break, LoseConnection
  <2> QED
    BY <2>1, InEmpty DEF Base, Placed,
       RequestIsUnsent, RequestIsOnTheWay, AnswerIsQueued, CancelledExpectsNothing,
       ConnectionIsKnown, NotSent, AnswerIsCurrent
<1> QED
  BY <1>1, <1>2, <1>3 DEF ClientReceive

(* What a client asked for arrives at the server.                          *)
LEMMA PlacedServer ==
    ASSUME Base, TypeOK', ServerReceive
    PROVE  Base'
<1>0. /\ toServer \in Seq(ClientMessages) /\ cancelled \subseteq Requests
      /\ serverQueue \in Seq(ServerMessages) /\ toServer # << >> /\ conn \in Nat
      /\ toServer' = Tail(toServer) /\ Head(toServer) \in ClientMessages
      /\ UNCHANGED <<asked, clientQueue, waiting, cancelled, clientSide, toClient,
                     conn, live>>
  BY TakeFirst DEF Base, TypeOK, ServerReceive, ReceiveRequest, ReceiveName,
     ReceiveCancel, clientVars
<1>1. \A x : /\ In(toServer', "request", x) => In(toServer, "request", x)
             /\ Is(Head(toServer), "request", x) => In(toServer, "request", x)
             /\ Once(toServer, "request", x) => Once(toServer', "request", x)
             /\ Once(toServer, "request", x) /\ Is(Head(toServer), "request", x)
                    => ~In(toServer', "request", x)
  BY <1>0, InTail
<1>2. live /\ toServer' \in Seq(ClientMessages)
  BY <1>0 DEF TypeOK, Base, ConnectionIsKnown
<1>3. CASE ReceiveRequest
  <2> DEFINE r == Head(toServer).about
             e == Reply("answer", r)
  <2>1. /\ r \in Requests /\ Is(Head(toServer), "request", r)
        /\ serverQueue' = Append(serverQueue, e)
        /\ running' = running /\ current' = current
    BY <1>0, <1>3, Elements DEF ReceiveRequest, Is
  <2>2. e \in ServerMessages /\ e.conn = conn /\ \A x : Is(e, "answer", x) <=> x = r
    BY <1>0, <2>1 DEF Reply, ServerMessages, Is
  <2> HIDE DEF e
  <2>3. /\ \A x : /\ In(serverQueue', "answer", x)
                         <=> In(serverQueue, "answer", x) \/ x = r
                  /\ Once(serverQueue, "answer", x)
                        /\ ~(In(serverQueue, "answer", x) /\ x = r)
                        => Once(serverQueue', "answer", x)
        /\ serverQueue # << >> => serverQueue' # << >>
                                  /\ Head(serverQueue') = Head(serverQueue)
        /\ \A i \in DOMAIN serverQueue' :
               serverQueue'[i] = e \/ \E j \in DOMAIN serverQueue :
                                         serverQueue'[i] = serverQueue[j]
    BY <1>0, <2>1, <2>2, InAppend, AddLast
  <2>4. In(toServer, "request", r) /\ ~In(toServer', "request", r)
    BY <1>1, <2>1 DEF Base, Placed, RequestIsOnTheWay
  <2> HIDE DEF r
  <2>5. \A i \in DOMAIN serverQueue' : serverQueue'[i].conn <= conn
    BY <1>0, <2>2, <2>3 DEF Base, ConnectionIsKnown
  <2>6. /\ r \in asked /\ ~In(clientQueue, "request", r)
        /\ ~In(serverQueue, "answer", r) /\ ~Is(current, "answer", r)
        /\ ~In(toClient, "answer", r)
    BY <2>1, <2>4 DEF Base, Placed, RequestIsUnsent, RequestIsOnTheWay,
       NotSent, AnswerIsCurrent
  <2>7. RequestIsUnsent'
    BY <1>0, <1>1, <2>1, <2>3, <2>6 DEF Base, Placed, RequestIsUnsent, NotSent,
       AnswerIsCurrent
  <2>8. RequestIsOnTheWay'
    BY <1>0, <1>1, <2>1, <2>3, <2>4, <2>6 DEF Base, Placed, RequestIsOnTheWay,
       AnswerIsCurrent
  <2>9. CancelledExpectsNothing'
    BY <1>0 DEF Base, Placed, CancelledExpectsNothing
  <2>10. AnswerIsQueued'
    <3>1. \A x : In(serverQueue, "answer", x) => serverQueue # << >>
      BY InEmpty
    <3> QED
      BY <1>0, <2>1, <2>3, <2>6, <3>1 DEF Base, Placed, AnswerIsQueued,
         AnswerIsCurrent
  <2>11. ConnectionIsKnown'
    BY <1>0, <1>2, <2>5 DEF Base, Placed,
       RequestIsUnsent, RequestIsOnTheWay, AnswerIsQueued, CancelledExpectsNothing,
       ConnectionIsKnown, NotSent, AnswerIsCurrent
  <2> QED
    BY <2>7, <2>8, <2>9, <2>10, <2>11 DEF Base, Placed
<1>4. CASE ReceiveName
  <2>1. UNCHANGED <<serverQueue, running, current>>
    BY <1>4 DEF ReceiveName, serverVars
  <2> QED
    BY <1>0, <1>1, <1>2, <2>1 DEF Base, Placed,
       RequestIsUnsent, RequestIsOnTheWay, AnswerIsQueued, CancelledExpectsNothing,
       ConnectionIsKnown, NotSent, AnswerIsCurrent
<1>5. CASE ReceiveCancel
  <2> DEFINE r == Head(toServer).about
  <2>1. /\ r \in Requests
        /\ IsCurrent(r) => current' = NoCurrent
        /\ ~IsCurrent(r) => current' = current
        /\ \A x : In(serverQueue', "answer", x) => In(serverQueue, "answer", x)
        /\ \A x : Once(serverQueue, "answer", x) => Once(serverQueue', "answer", x)
        /\ \A i \in DOMAIN serverQueue' :
               \/ \E j \in DOMAIN serverQueue : serverQueue'[i] = serverQueue[j]
               \/ serverQueue'[i] = Reply("cancelled", r)
        /\ IsCurrent(r) /\ Once(serverQueue, "answer", r) /\ running
               /\ serverQueue # << >> /\ Is(Head(serverQueue), "answer", r)
               => ~In(serverQueue', "answer", r)
        /\ \A x : running /\ serverQueue # << >>
                   /\ Is(Head(serverQueue), "answer", x) /\ x # r
                   => /\ running' /\ serverQueue' # << >>
                      /\ Is(Head(serverQueue'), "answer", x)
    BY <1>5, CancelEffect DEF Base
  <2>2. /\ Reply("cancelled", r).conn = conn /\ ~Is(NoCurrent, "answer", r)
        /\ \A x : ~Is(NoCurrent, "answer", x)
        /\ IsCurrent(r) <=> Is(current, "answer", r)
        /\ \A x : Is(current, "answer", x) /\ Is(current, "answer", r) => x = r
    BY DEF Reply, NoCurrent, Is, IsCurrent
  <2> HIDE DEF r
  <2>3. \A i \in DOMAIN serverQueue' : serverQueue'[i].conn <= conn
    BY <1>0, <2>1, <2>2 DEF Base, ConnectionIsKnown
  <2> QED
    BY <1>0, <1>1, <1>2, <2>1, <2>2, <2>3 DEF Base, Placed,
       RequestIsUnsent, RequestIsOnTheWay, AnswerIsQueued, CancelledExpectsNothing,
       ConnectionIsKnown, NotSent, AnswerIsCurrent
<1> QED
  BY <1>3, <1>4, <1>5 DEF ServerReceive

(* The task c that sends a packet is the current one, or that of the first *)
(* operation, of which nothing has been sent.                              *)
Sends(c, s, busy) ==
    \/ c = current /\ s = conn /\ busy = running /\ written > 0
    \/ /\ serverQueue # << >> /\ ~running
       /\ c = StartTask(Head(serverQueue)) /\ s = Head(serverQueue).conn
       /\ busy = TRUE

(* Or it is that of the first operation, some of its packets gone.         *)
SendsLate(c, s, busy) ==
    /\ serverQueue # << >> /\ ~running
    /\ \E lost \in 1..(Count(Head(serverQueue)) - 1) :
           c = LateTask(Head(serverQueue), lost)
    /\ s = Head(serverQueue).conn /\ busy = TRUE

LEMMA SendsTyped ==
    ASSUME Base, NEW c, NEW s, NEW busy,
           Sends(c, s, busy) \/ SendsLate(c, s, busy)
    PROVE  /\ c \in Tasks /\ s \in Nat /\ busy \in BOOLEAN
           /\ \A x \in Requests :
                 /\ Is(c, "answer", x) => \/ In(serverQueue, "answer", x)
                                         \/ AnswerIsCurrent(x)
                 /\ Is(c, "answer", x) /\ In(serverQueue, "answer", x) =>
                        /\ busy /\ serverQueue # << >>
                        /\ Is(Head(serverQueue), "answer", x)
                 /\ ~Is(c, "answer", x) /\ In(serverQueue, "answer", x) =>
                        ~AnswerIsCurrent(x)
<1>0. serverQueue \in Seq(ServerMessages) /\ current \in SendTasks
      /\ conn \in Nat /\ running \in BOOLEAN
  BY DEF Base, TypeOK
<1>1. CASE c = current /\ s = conn /\ busy = running
  BY <1>0, <1>1 DEF Tasks, Base, Placed, AnswerIsQueued, AnswerIsCurrent
<1>2. CASE /\ serverQueue # << >> /\ ~running
           /\ \/ c = StartTask(Head(serverQueue))
              \/ \E lost \in 1..(Count(Head(serverQueue)) - 1) :
                     c = LateTask(Head(serverQueue), lost)
           /\ s = Head(serverQueue).conn /\ busy = TRUE
  <2>1. Head(serverQueue) \in ServerMessages
    BY <1>0, <1>2, TakeFirst
  <2>2. c \in Tasks /\ s \in Nat
    BY <1>2, <2>1, LateTasks, Elements DEF Tasks
  <2>3. \A x : /\ Is(c, "answer", x) <=> Is(Head(serverQueue), "answer", x)
               /\ Is(Head(serverQueue), "answer", x)
                     => In(serverQueue, "answer", x)
    <3>1. \A x : Is(c, "answer", x) <=> Is(Head(serverQueue), "answer", x)
      BY <1>2 DEF StartTask, LateTask, Is
    <3> QED
      BY <1>0, <1>2, <3>1, InTail
  <2> QED
    BY <1>2, <2>2, <2>3 DEF Base, Placed, AnswerIsQueued
<1> QED
  BY <1>1, <1>2 DEF Sends, SendsLate

(* A packet of c is written.                                               *)
LEMMA PlacedSend ==
    ASSUME Base, TypeOK', NEW c, NEW s, NEW busy,
           Sends(c, s, busy) \/ SendsLate(c, s, busy),
           NEW reported \in Nat, SendBody(c, s, busy, reported),
           UNCHANGED <<clientVars, toServer, conn, live, unnoticed>>
    PROVE  Base'
<1>0. /\ UNCHANGED <<asked, clientQueue, waiting, cancelled, clientSide, toServer,
                     conn, live>>
      /\ \A x : ~Is(NoCurrent, "answer", x)
  BY DEF clientVars, NoCurrent, Is
<1>1. \A x \in Requests :
          /\ Is(c, "answer", x) => \/ In(serverQueue, "answer", x)
                                  \/ AnswerIsCurrent(x)
          /\ Is(c, "answer", x) /\ In(serverQueue, "answer", x) =>
                 /\ busy /\ serverQueue # << >>
                 /\ Is(Head(serverQueue), "answer", x)
          /\ ~Is(c, "answer", x) /\ In(serverQueue, "answer", x) =>
                 ~AnswerIsCurrent(x)
  BY SendsTyped
<1>2. c \in Tasks /\ s \in Nat /\ busy \in BOOLEAN /\ TypeOK
  BY SendsTyped DEF Base
<1>3. /\ \A x : In(toClient', "answer", x) =>
                    In(toClient, "answer", x) \/ Is(c, "answer", x)
      /\ ~live => toClient' = toClient
      /\ IsLastOf(c) => current' = NoCurrent
      /\ ~IsLastOf(c) => /\ serverQueue' = serverQueue /\ running' = busy
                         /\ current'.what = c.what /\ current'.about = c.about
      /\ \A x : /\ In(serverQueue', "answer", x) => In(serverQueue, "answer", x)
                /\ Once(serverQueue, "answer", x) => Once(serverQueue', "answer", x)
      /\ \A i \in DOMAIN serverQueue' :
             \E j \in DOMAIN serverQueue : serverQueue'[i] = serverQueue[j]
      /\ \A x : /\ Is(c, "answer", x) /\ IsLastOf(c) /\ busy /\ serverQueue # << >>
                /\ Is(Head(serverQueue), "answer", x)
                /\ Once(serverQueue, "answer", x)
                => ~In(serverQueue', "answer", x)
  BY <1>2, SendEffect
<1>4. \A x : AnswerIsCurrent(x)' <=> Is(c, "answer", x) /\ ~IsLastOf(c)
  BY <1>0, <1>3 DEF AnswerIsCurrent, Is
<1>5. RequestIsUnsent'
  BY <1>0, <1>1, <1>3, <1>4 DEF Base, Placed, RequestIsUnsent, NotSent
<1>6. RequestIsOnTheWay'
  BY <1>0, <1>1, <1>3, <1>4 DEF Base, Placed, RequestIsOnTheWay
<1>7. CancelledExpectsNothing'
  BY <1>0 DEF Base, Placed, CancelledExpectsNothing
<1>8. AnswerIsQueued'
  BY <1>1, <1>3, <1>4 DEF Base, Placed, AnswerIsQueued
<1>9. ConnectionIsKnown'
  BY <1>0, <1>3 DEF Base, ConnectionIsKnown
<1> QED
  BY <1>5, <1>6, <1>7, <1>8, <1>9 DEF Base, Placed

(* The steps of the server that send a packet.                             *)
LEMMA SendingSteps ==
    /\ StartOperation =>
           /\ Sends(StartTask(Head(serverQueue)), Head(serverQueue).conn, TRUE)
           /\ SendBody(StartTask(Head(serverQueue)), Head(serverQueue).conn, TRUE, 0)
           /\ UNCHANGED <<clientVars, toServer, conn, live, unnoticed>>
    /\ DidWrite =>
           /\ Sends(current, conn, running)
           /\ SendBody(current, conn, running, 1)
           /\ UNCHANGED <<clientVars, toServer, conn, live, unnoticed>>
BY DEF StartOperation, DidWrite, StartTask, LateTask, Sends

(* The first operation of the server, disturbed by the main thread.        *)
LEMMA PlacedStartDisturbed ==
    ASSUME Base, TypeOK', StartDisturbed
    PROVE  Base'
<1> DEFINE m == Head(serverQueue)
           p == [what |-> "remove", about |-> NoRequest, index |-> 0,
                 count |-> 1]
<1>1. /\ serverQueue # << >> /\ ~running
      /\ UNCHANGED <<clientVars, toServer, conn, live, unnoticed>>
  BY DEF StartDisturbed
<1>2. CASE \E lost \in 1..(Count(m) - 1) :
               SendBody(LateTask(m, lost), m.conn, TRUE, 0)
  <2>1. PICK lost \in 1..(Count(m) - 1) :
            SendBody(LateTask(m, lost), m.conn, TRUE, 0)
    BY <1>2
  <2>2. SendsLate(LateTask(m, lost), m.conn, TRUE)
    BY <1>1 DEF SendsLate
  <2> QED
    BY <1>1, <2>1, <2>2, PlacedSend
<1>3. CASE /\ current' = NoCurrent
           /\ serverQueue' \in {serverQueue, Tail(serverQueue)}
           /\ toClient' \in {toClient, Append(toClient, p)}
           /\ toClient' # toClient => live
  <2>1. /\ UNCHANGED <<asked, clientQueue, waiting, cancelled, clientSide,
                       toServer, conn, live>>
        /\ \A x : ~Is(NoCurrent, "answer", x)
    BY <1>1 DEF clientVars, NoCurrent, Is
  <2>2. serverQueue \in Seq(ServerMessages) /\ toClient \in Seq(CellBodies)
        /\ p \in CellBodies /\ \A x : ~Is(p, "answer", x)
    BY DEF Base, TypeOK, CellBodies, Is
  <2>3. /\ \A x : /\ In(serverQueue', "answer", x) => In(serverQueue, "answer", x)
                  /\ Once(serverQueue, "answer", x)
                         => Once(serverQueue', "answer", x)
        /\ \A i \in DOMAIN serverQueue' :
               \E j \in DOMAIN serverQueue : serverQueue'[i] = serverQueue[j]
    <3>1. CASE serverQueue' = serverQueue
      BY <3>1
    <3>2. CASE serverQueue' = Tail(serverQueue)
      BY <1>1, <2>2, <3>2, QueueShrinks
    <3> QED
      BY <1>3, <3>1, <3>2
  <2> HIDE DEF p
  <2>4. \A x : In(toClient', "answer", x) => In(toClient, "answer", x)
    BY <1>3, <2>2, InAppend
  <2>5. \A x \in Requests : In(serverQueue, "answer", x) => ~AnswerIsCurrent(x)
    BY <1>1 DEF Base, Placed, AnswerIsQueued
  <2>6. \A x : ~AnswerIsCurrent(x)'
    BY <1>3, <2>1 DEF AnswerIsCurrent
  <2>7. RequestIsUnsent' /\ RequestIsOnTheWay'
    BY <2>1, <2>3, <2>4, <2>6 DEF Base, Placed, RequestIsUnsent, NotSent,
       RequestIsOnTheWay
  <2>8. AnswerIsQueued'
    BY <2>3, <2>4, <2>5, <2>6 DEF Base, Placed, AnswerIsQueued
  <2>9. CancelledExpectsNothing' /\ ConnectionIsKnown'
    BY <1>3, <2>1, <2>3 DEF Base, Placed, CancelledExpectsNothing,
       ConnectionIsKnown
  <2> QED
    BY <2>7, <2>8, <2>9 DEF Base, Placed
<1>4. \/ \E lost \in 1..(Count(m) - 1) :
              SendBody(LateTask(m, lost), m.conn, TRUE, 0)
      \/ /\ current' = NoCurrent
         /\ serverQueue' \in {serverQueue, Tail(serverQueue)}
         /\ toClient' \in {toClient, Append(toClient, p)}
         /\ toClient' # toClient => live
  BY DEF StartDisturbed, LateTask
<1> QED
  BY <1>2, <1>3, <1>4

(* The connection is closed at one side, or made again.                    *)
LEMMA PlacedConnection ==
    ASSUME Base, TypeOK',
           \/ RemoveClient \/ ClientDidDisconnect \/ ServerDidDisconnect
           \/ Connect
    PROVE  Base'
<1>1. CASE RemoveClient
  <2> DEFINE e == Reply("remove", NoRequest)
  <2>1. /\ serverQueue = << >> /\ serverQueue' = <<e>>
        /\ UNCHANGED <<asked, clientQueue, waiting, cancelled, clientSide, toServer,
                       toClient, conn, live, running, current>>
    BY <1>1 DEF RemoveClient, clientVars, netVars
  <2>2. /\ \A x : ~In(serverQueue', "answer", x) /\ Once(serverQueue', "answer", x)
        /\ \A i \in DOMAIN serverQueue' : serverQueue'[i].conn <= conn
    <3>1. DOMAIN serverQueue' = {1} /\ serverQueue'[1] = e
      BY <2>1
    <3>2. e.what = "remove" /\ e.conn = conn /\ conn \in Nat
      BY DEF Reply, Base, TypeOK
    <3> QED
      BY <3>1, <3>2 DEF In, Once, Is
  <2> HIDE DEF e
  <2> QED
    BY <2>1, <2>2 DEF Base, Placed, RequestIsUnsent, RequestIsOnTheWay,
       AnswerIsQueued, CancelledExpectsNothing, ConnectionIsKnown, NotSent,
       AnswerIsCurrent
<1>2. CASE ClientDidDisconnect
  <2>1. /\ clientQueue' = << >> /\ \A x \in Requests : waiting'[x] = NoTask
        /\ UNCHANGED <<asked, cancelled, toServer, toClient, conn, live,
                       serverQueue, running, current>>
        /\ clientSide = "broken" /\ cancelled \subseteq Requests
    BY <1>2 DEF ClientDidDisconnect, AfterLoss, netVars, serverVars, Base, TypeOK
  <2>2. ~live
    BY <2>1 DEF Base, ConnectionIsKnown
  <2> QED
    BY <2>1, <2>2, InEmpty, EmptyTask DEF Base, Placed, RequestIsUnsent,
       RequestIsOnTheWay, AnswerIsQueued, CancelledExpectsNothing,
       ConnectionIsKnown, NotSent, AnswerIsCurrent
<1>3. CASE ServerDidDisconnect
  <2>1. /\ serverQueue' = << >>
        /\ UNCHANGED <<asked, clientQueue, waiting, cancelled, clientSide, toServer,
                       toClient, conn, live, current>>
    BY <1>3 DEF ServerDidDisconnect, clientVars
  <2>2. \A i \in DOMAIN serverQueue' : FALSE
    BY <2>1
  <2> QED
    BY <2>1, <2>2, InEmpty DEF Base, Placed, RequestIsUnsent,
       RequestIsOnTheWay, AnswerIsQueued, CancelledExpectsNothing,
       ConnectionIsKnown, NotSent, AnswerIsCurrent
<1>4. CASE Connect
  <2> DEFINE e == Message("name", NoRequest)
  <2>1. /\ clientQueue' = Append(clientQueue, e) /\ clientSide' = "up"
        /\ live' = TRUE /\ conn' = conn + 1
        /\ UNCHANGED <<asked, waiting, cancelled, toServer, toClient,
                       serverQueue, running, current>>
    BY <1>4 DEF Connect, serverVars
  <2>2. \A x : /\ In(clientQueue', "request", x) => In(clientQueue, "request", x)
               /\ Once(clientQueue, "request", x)
                     => Once(clientQueue', "request", x)
    <3>1. \A x : ~Is(e, "request", x)
      BY DEF Is, Message
    <3>2. clientQueue \in Seq(ClientMessages) /\ e \in ClientMessages
      BY Elements DEF Base, TypeOK
    <3> QED
      BY <2>1, <3>1, <3>2, InAppend
  <2> HIDE DEF e
  <2>3. \A i \in DOMAIN serverQueue' : serverQueue'[i].conn <= conn'
    <3>1. \A i \in DOMAIN serverQueue : /\ serverQueue[i].conn \in Nat
                                       /\ serverQueue[i].conn <= conn
      <4>1. serverQueue # << >> =>
                \A i \in DOMAIN serverQueue : serverQueue[i] \in ServerMessages
        BY TakeFirst DEF Base, TypeOK
      <4>2. \A i \in DOMAIN serverQueue : serverQueue # << >>
        OBVIOUS
      <4> QED
        BY <4>1, <4>2, Elements DEF Base, ConnectionIsKnown
    <3>2. conn \in Nat
      BY DEF Base, TypeOK
    <3> QED
      BY <2>1, <3>1, <3>2
  <2>4. RequestIsUnsent' /\ RequestIsOnTheWay' /\ AnswerIsQueued'
        /\ CancelledExpectsNothing'
    BY <2>1, <2>2 DEF Base, Placed, RequestIsUnsent, RequestIsOnTheWay,
       AnswerIsQueued, CancelledExpectsNothing, NotSent, AnswerIsCurrent
  <2>5. ConnectionIsKnown'
    BY <2>1, <2>3 DEF Base, ConnectionIsKnown
  <2> QED
    BY <2>4, <2>5 DEF Base, Placed
<1> QED
  BY <1>1, <1>2, <1>3, <1>4

(* Base is inductive.                                                      *)
LEMMA BaseStep == Base /\ [Next]_vars => Base'
<1> SUFFICES ASSUME Base, [Next]_vars PROVE Base'
  OBVIOUS
<1>1. TypeOK'
  BY TypeStep DEF Base
<1>2. ASSUME NEW r \in Requests, Request(r) \/ CancelRequest(r) \/ Timeout(r)
      PROVE  Base'
  BY <1>1, <1>2, PlacedClient
<1>3. CASE Transmit
  BY <1>1, <1>3, PlacedTransmit
<1>4. CASE ClientReceive \/ Break
  BY <1>1, <1>4, PlacedReceive
<1>5. CASE ServerReceive
  BY <1>1, <1>5, PlacedServer
<1>6. CASE StartOperation \/ DidWrite
  BY <1>1, <1>6, SendingSteps, PlacedSend
<1>9. ASSUME NEW r \in Requests, CancelStuck(r) PROVE Base'
  BY <1>1, <1>9, PlacedStuck
<1>10. CASE TransmitDisturbed
  BY <1>1, <1>10, PlacedTransmitDisturbed
<1>11. CASE StartDisturbed
  BY <1>1, <1>11, PlacedStartDisturbed
<1>7. CASE RemoveClient \/ ClientDidDisconnect \/ ServerDidDisconnect \/ Connect
  BY <1>1, <1>7, PlacedConnection
<1>8. CASE UNCHANGED vars
  <2>1. UNCHANGED <<asked, clientQueue, waiting, cancelled, clientSide, toServer,
                   toClient, conn, live, serverQueue, running, current>>
    BY <1>8 DEF vars, clientVars, netVars, serverVars
  <2> QED
    BY <1>1, <2>1 DEF Base, Placed, RequestIsUnsent, RequestIsOnTheWay,
       AnswerIsQueued, CancelledExpectsNothing, ConnectionIsKnown, NotSent,
       AnswerIsCurrent
<1> QED
  BY <1>2, <1>3, <1>4, <1>5, <1>6, <1>7, <1>8, <1>9, <1>10, <1>11 DEF Next

(* Nothing is anywhere at first.                                           *)
LEMMA BaseInit == Init => Base
<1> SUFFICES ASSUME Init PROVE Base
  OBVIOUS
<1>1. /\ \A S : << >> \in Seq(S) /\ DOMAIN << >> = {}
      /\ NoTask \in ReceiveTasks /\ NoCurrent \in SendTasks
      /\ \A x : ~Is(NoCurrent, "answer", x)
  BY EmptySeq, Elements DEF NoCurrent, Is
<1>2. TypeOK
  <2>1. /\ << >> \in Seq(ClientMessages) /\ << >> \in Seq(CellBodies)
        /\ << >> \in Seq(ServerMessages) /\ << >> \in Seq(Nat)
    BY EmptySeq
  <2> QED
    BY <1>1, <2>1 DEF Init, TypeOK
<1>3. \A r \in Requests : waiting[r] = NoTask
  BY DEF Init
<1>4. RequestIsUnsent /\ RequestIsOnTheWay /\ AnswerIsQueued
      /\ CancelledExpectsNothing
  BY <1>1, <1>3, InEmpty, EmptyTask DEF Init, RequestIsUnsent,
     RequestIsOnTheWay, AnswerIsQueued, CancelledExpectsNothing, NotSent,
     AnswerIsCurrent
<1>5. ConnectionIsKnown
  BY <1>1, <1>3, EmptyTask DEF Init, ConnectionIsKnown
<1> QED
  BY <1>2, <1>4, <1>5 DEF Base, Placed

(* The type invariant, for any number of requests and packets.             *)
THEOREM LinkTypeCorrect == Spec => []TypeOK
<1>1. Base => TypeOK
  BY DEF Base
<1> QED
  BY <1>1, BaseInit, BaseStep, PTL DEF Spec

(* A request that cancelRequest ended gets no answer any more: its receive *)
(* task is gone, and one made anew for packets that were still on the way  *)
(* has no completion block; the request cannot be sent again.              *)
THEOREM CancelledStaysCancelled == Spec => CancelIsFinal
<1>1. Base /\ [Next]_vars
          => [\A r \in cancelled : completed'[r] = completed[r]]_vars
  <2> SUFFICES ASSUME Base, Next, NEW r \in cancelled
               PROVE  completed'[r] = completed[r]
    OBVIOUS
  <2>1. CASE ReceiveAnswer
    <3>1. r \in Requests /\ ~waiting[r].block
      BY DEF Base, Placed, CancelledExpectsNothing, TypeOK
    <3> QED
      BY <2>1, <3>1, ReceiveEffect DEF Base
  <2>2. CASE ~ReceiveAnswer
    BY <2>2 DEF Next, Request, CancelRequest, CancelStuck, Timeout, Transmit,
       TransmitDisturbed, StartDisturbed, ClientReceive,
       ReceiveCancelled, ReceiveRemove, ServerReceive, ReceiveRequest,
       ReceiveName, ReceiveCancel, StartOperation, DidWrite, RemoveClient, Break,
       ClientDidDisconnect, ServerDidDisconnect, Connect, clientVars
  <2> QED
    BY <2>1, <2>2
<1> QED
  BY <1>1, BaseInit, BaseStep, PTL DEF Spec, CancelIsFinal

-----------------------------------------------------------------------------
(* The steps that disturb no block.                                        *)

QuietNext ==
    \/ \E r \in Requests : Request(r) \/ CancelRequest(r) \/ Timeout(r)
    \/ Transmit \/ ClientReceive \/ ServerReceive
    \/ StartOperation \/ DidWrite \/ RemoveClient
    \/ Break \/ ClientDidDisconnect \/ ServerDidDisconnect \/ Connect

(* What was disturbed stays so, and until then the steps are the quiet     *)
(* ones.                                                                   *)
LEMMA QuietSteps ==
    [Next]_vars /\ ~disturbed' => /\ ~disturbed /\ disturbed' = disturbed
                                 /\ [QuietNext]_vars
<1> SUFFICES ASSUME [Next]_vars, ~disturbed'
             PROVE  /\ ~disturbed /\ disturbed' = disturbed
                    /\ [QuietNext]_vars
  OBVIOUS
<1>1. /\ ~TransmitDisturbed /\ ~StartDisturbed
      /\ \A r \in Requests : ~CancelStuck(r)
  <2>1. TransmitDisturbed => disturbed' = TRUE
    BY DEF TransmitDisturbed
  <2>2. StartDisturbed => disturbed' = TRUE
    BY DEF StartDisturbed
  <2>3. \A r \in Requests :
            CancelStuck(r) => disturbed /\ disturbed' = disturbed
    BY DEF CancelStuck, IsStuck
  <2> QED
    BY <2>1, <2>2, <2>3
<1>2. [QuietNext]_vars
  BY <1>1 DEF Next, QuietNext
<1>3. disturbed' = disturbed
  BY <1>2 DEF QuietNext, Request, CancelRequest, Timeout, Transmit,
     ClientReceive, ReceiveAnswer, ReceiveCancelled, ReceiveRemove,
     ServerReceive, ReceiveRequest, ReceiveName, ReceiveCancel, StartOperation,
     DidWrite, RemoveClient, Break, ClientDidDisconnect, ServerDidDisconnect,
     Connect, vars
<1> QED
  BY <1>2, <1>3

-----------------------------------------------------------------------------
(* The answer to a cancelling comes last.                                  *)

Cancels == CancelledIsExpected /\ CancelledIsLast /\ AnsweredIsOver

(* Asking, sending and cancelling at the client.                           *)
LEMMA CancelsClient ==
    ASSUME Base, Cancels, NEW r \in Requests,
           Request(r) \/ CancelRequest(r) \/ Timeout(r)
    PROVE  Cancels'
<1>0. /\ clientQueue \in Seq(ClientMessages)
      /\ waiting \in [Requests -> ReceiveTasks]
      /\ answered \subseteq Requests
  BY DEF Base, TypeOK
<1>1. CASE Request(r)
  <2>1. /\ clientQueue' = Append(clientQueue, Message("request", r))
        /\ asked' = asked \cup {r} /\ r \notin asked
        /\ UNCHANGED <<waiting, cancelWait, answered, toServer, toClient, conn,
                       live, serverQueue, current>>
    BY <1>1 DEF Request, netVars, serverVars
  <2>2. \A x : /\ In(clientQueue', "request", x)
                      => In(clientQueue, "request", x) \/ x = r
               /\ In(clientQueue', "cancel", x) => In(clientQueue, "cancel", x)
    <3>1. \A x : /\ Is(Message("request", r), "request", x) => x = r
                 /\ ~Is(Message("request", r), "cancel", x)
      BY DEF Is, Message
    <3> QED
      BY <1>0, <2>1, <3>1, InAppend, Elements
  <2>3. CancelledIsExpected'
    BY <2>1 DEF Cancels, CancelledIsExpected
  <2>4. CancelledIsLast'
    BY <2>1, <2>2 DEF Cancels, CancelledIsLast, NothingToSend, AnswerIsCurrent
  <2>5. AnsweredIsOver'
    BY <2>1, <2>2 DEF Cancels, AnsweredIsOver, NothingToSend, AnswerIsCurrent
  <2> QED
    BY <2>3, <2>4, <2>5 DEF Cancels
<1>2. CASE CancelRequest(r)
  <2>1. /\ clientQueue' = Append(clientQueue, Message("cancel", r))
        /\ r \in asked /\ waiting[r].is
        /\ waiting' = [waiting EXCEPT ![r] = NoTask]
        /\ UNCHANGED <<asked, cancelWait, answered, toServer, toClient, conn,
                       live, serverQueue, current>>
    BY <1>2 DEF CancelRequest, netVars, serverVars
  <2>2. \A x : /\ In(clientQueue', "request", x) => In(clientQueue, "request", x)
               /\ In(clientQueue', "cancel", x)
                      => In(clientQueue, "cancel", x) \/ x = r
    <3>1. \A x : /\ ~Is(Message("cancel", r), "request", x)
                 /\ Is(Message("cancel", r), "cancel", x) => x = r
      BY DEF Is, Message
    <3> QED
      BY <1>0, <2>1, <3>1, InAppend, Elements
  <2>3. ~In(clientQueue, "request", r)
    BY <2>1 DEF Base, Placed, RequestIsUnsent, NotSent
  <2>4. \A x \in Requests : waiting'[x].is => waiting[x].is
    BY <1>0, <2>1, EmptyTask
  <2>5. CancelledIsExpected'
    BY <2>1 DEF Cancels, CancelledIsExpected
  <2>6. CancelledIsLast'
    BY <2>1, <2>2, <2>3 DEF Cancels, CancelledIsLast, NothingToSend,
       AnswerIsCurrent
  <2>7. AnsweredIsOver'
    BY <1>0, <2>1, <2>2, <2>4 DEF Cancels, AnsweredIsOver, NothingToSend,
       AnswerIsCurrent
  <2> QED
    BY <2>5, <2>6, <2>7 DEF Cancels
<1>3. CASE Timeout(r)
  <2>1. /\ waiting' = [waiting EXCEPT ![r] = [waiting[r] EXCEPT !.late = TRUE]]
        /\ UNCHANGED <<asked, clientQueue, cancelWait, answered, toServer, toClient,
                       conn, live, serverQueue, current>>
    BY <1>3 DEF Timeout, netVars, serverVars
  <2>2. \A x \in Requests : waiting'[x].is = waiting[x].is
    BY <1>0, <2>1, TaskChanges
  <2> QED
    BY <1>0, <2>1, <2>2 DEF Cancels, CancelledIsExpected, CancelledIsLast,
       AnsweredIsOver, NothingToSend, AnswerIsCurrent
<1> QED
  BY <1>1, <1>2, <1>3

(* The next message of the client is written.                              *)
LEMMA CancelsTransmit ==
    ASSUME Base, Cancels, Transmit
    PROVE  Cancels'
<1> DEFINE m == Head(clientQueue)
<1>0. /\ clientQueue \in Seq(ClientMessages) /\ toServer \in Seq(ClientMessages)
      /\ waiting \in [Requests -> ReceiveTasks]
      /\ cancelWait \in [Requests -> ReceiveTasks]
      /\ answered \subseteq Requests /\ clientQueue # << >>
      /\ m \in ClientMessages
  BY TakeFirst DEF Base, TypeOK, Transmit
<1>1. /\ clientQueue' = Tail(clientQueue)
      /\ toServer' = IF live THEN Append(toServer, m) ELSE toServer
      /\ waiting' = IF m.what = "request"
                    THEN [waiting EXCEPT ![m.about] = Expecting] ELSE waiting
      /\ cancelWait' = IF m.what = "cancel"
                       THEN [cancelWait EXCEPT ![m.about] = Expecting]
                       ELSE cancelWait
      /\ UNCHANGED <<asked, answered, toClient, conn, live, serverQueue, current>>
  BY DEF Transmit, serverVars
<1>2. \A x : /\ In(clientQueue', "request", x) => In(clientQueue, "request", x)
             /\ In(clientQueue', "cancel", x) => In(clientQueue, "cancel", x)
             /\ Is(m, "request", x) => In(clientQueue, "request", x)
             /\ Is(m, "cancel", x) => In(clientQueue, "cancel", x)
  BY <1>0, <1>1, InTail
<1>3. \A x : /\ In(toServer', "request", x) =>
                    In(toServer, "request", x) \/ Is(m, "request", x)
             /\ In(toServer', "cancel", x) =>
                    In(toServer, "cancel", x) \/ Is(m, "cancel", x)
  <2>1. CASE live
    BY <1>0, <1>1, <2>1, InAppend
  <2>2. CASE ~live
    BY <1>1, <2>2
  <2> QED
    BY <2>1, <2>2
<1>4. \A x \in Requests : /\ ~Is(m, "request", x) => waiting'[x] = waiting[x]
                          /\ Is(m, "cancel", x) => cancelWait'[x].block
                          /\ cancelWait[x].block => cancelWait'[x].block
  <2>1. Expecting.block
    BY DEF Expecting, ReceiveTask
  <2> QED
    BY <1>0, <1>1, <2>1, Elements DEF Is
<1> HIDE DEF m
<1>5. CancelledIsExpected'
  BY <1>1, <1>3, <1>4 DEF Cancels, CancelledIsExpected
<1>6. CancelledIsLast'
  BY <1>1, <1>2, <1>3 DEF Cancels, CancelledIsLast, NothingToSend,
     AnswerIsCurrent
<1>7. AnsweredIsOver'
  BY <1>0, <1>1, <1>2, <1>3, <1>4 DEF Cancels, AnsweredIsOver, NothingToSend,
     AnswerIsCurrent
<1> QED
  BY <1>5, <1>6, <1>7 DEF Cancels

(* Packets arrive at the client, or the connection is lost.                *)
LEMMA CancelsReceive ==
    ASSUME Base, Cancels, ClientReceive \/ Break
    PROVE  Cancels'
<1>0. /\ toClient \in Seq(CellBodies) /\ answered \subseteq Requests
      /\ waiting \in [Requests -> ReceiveTasks]
      /\ cancelWait \in [Requests -> ReceiveTasks]
      /\ toClient # << >> =>
             \A x : /\ In(Tail(toClient), "answer", x)
                           => In(toClient, "answer", x)
                    /\ In(Tail(toClient), "cancelled", x)
                           => In(toClient, "cancelled", x)
                    /\ Is(Head(toClient), "answer", x)
                           => In(toClient, "answer", x)
                    /\ Is(Head(toClient), "cancelled", x)
                           => In(toClient, "cancelled", x)
                    /\ CancelledLast(toClient, x) => CancelledLast(Tail(toClient), x)
                    /\ CancelledLast(toClient, x)
                           /\ Is(Head(toClient), "cancelled", x)
                           => ~In(Tail(toClient), "answer", x)
  BY InTail DEF Base, TypeOK
<1>1. CASE ReceiveAnswer
  <2> DEFINE p == Head(toClient)
  <2>1. /\ p.about \in Requests /\ Is(p, "answer", p.about)
        /\ \A x \in Requests \ {p.about} : waiting'[x] = waiting[x]
    BY <1>1, ReceiveEffect DEF Base
  <2>2. /\ toClient' = Tail(toClient) /\ toClient # << >>
        /\ UNCHANGED <<asked, clientQueue, cancelWait, answered, toServer, conn,
                       live, serverQueue, current>>
    BY <1>1 DEF ReceiveAnswer, serverVars
  <2>3. p.about \notin answered
    BY <1>0, <2>1, <2>2 DEF Cancels, AnsweredIsOver
  <2> HIDE DEF p
  <2>4. CancelledIsExpected' /\ CancelledIsLast'
    BY <1>0, <2>2 DEF Cancels, CancelledIsExpected, CancelledIsLast,
       NothingToSend, AnswerIsCurrent
  <2>5. AnsweredIsOver'
    BY <1>0, <2>1, <2>2, <2>3 DEF Cancels, AnsweredIsOver, NothingToSend,
       AnswerIsCurrent
  <2> QED
    BY <2>4, <2>5 DEF Cancels
<1>2. CASE ReceiveCancelled
  <2> DEFINE r == Head(toClient).about
  <2>1. /\ toClient' = Tail(toClient) /\ toClient # << >>
        /\ UNCHANGED <<asked, clientQueue, toServer, conn, live, serverQueue,
                       current>>
        /\ waiting' = [waiting EXCEPT ![r] = AfterCancel(r)]
        /\ cancelWait' = [cancelWait EXCEPT ![r] = NoTask]
        /\ answered' = answered \cup {r}
        /\ Is(Head(toClient), "cancelled", r)
    BY <1>2 DEF ReceiveCancelled, serverVars, Is
  <2>2. r \in Requests
    BY <1>0, <1>2, TakeFirst, Elements DEF ReceiveCancelled
  <2>3. In(toClient, "cancelled", r) /\ ~In(toClient', "answer", r)
    BY <1>0, <2>1, <2>2 DEF Cancels, CancelledIsLast
  <2> HIDE DEF r
  <2>4. /\ ~waiting'[r].is
        /\ \A x \in Requests \ {r} : /\ waiting'[x] = waiting[x]
                                    /\ cancelWait'[x] = cancelWait[x]
    <3>1. cancelWait[r].block \/ r \in answered
      BY <2>2, <2>3 DEF Cancels, CancelledIsExpected
    <3>2. r \in answered => ~waiting[r].is
      BY DEF Cancels, AnsweredIsOver
    <3> QED
      BY <1>0, <2>1, <2>2, <3>1, <3>2, EmptyTask DEF AfterCancel
  <2>5. CancelledIsExpected'
    BY <1>0, <2>1, <2>4 DEF Cancels, CancelledIsExpected
  <2>6. CancelledIsLast'
    BY <1>0, <2>1 DEF Cancels, CancelledIsLast, NothingToSend, AnswerIsCurrent
  <2>7. AnsweredIsOver'
    <3>1. NothingToSend(r) /\ r \in asked
      BY <2>2, <2>3 DEF Cancels, CancelledIsLast
    <3> QED
      BY <1>0, <2>1, <2>2, <2>3, <2>4, <3>1 DEF Cancels, AnsweredIsOver,
         NothingToSend, AnswerIsCurrent
  <2> QED
    BY <2>5, <2>6, <2>7 DEF Cancels
<1>3. CASE ReceiveRemove \/ Break
  <2>1. /\ live' = FALSE /\ toServer' = << >> /\ toClient' = << >>
        /\ UNCHANGED <<asked, clientQueue, waiting, cancelWait, answered, conn,
                       serverQueue, current>>
    BY <1>3 DEF ReceiveRemove, Break, LoseConnection
  <2> QED
    BY <2>1, InEmpty DEF Cancels, CancelledIsExpected, CancelledIsLast,
       AnsweredIsOver, NothingToSend, AnswerIsCurrent
<1> QED
  BY <1>1, <1>2, <1>3 DEF ClientReceive

(* What a client asked for arrives at the server.                          *)
LEMMA CancelsServer ==
    ASSUME Base, Cancels, ServerReceive
    PROVE  Cancels'
<1>0. /\ toServer \in Seq(ClientMessages) /\ answered \subseteq Requests
      /\ serverQueue \in Seq(ServerMessages) /\ toServer # << >>
      /\ toServer' = Tail(toServer) /\ Head(toServer) \in ClientMessages
      /\ UNCHANGED <<asked, clientQueue, waiting, cancelWait, answered, toClient,
                     conn, live>>
  BY TakeFirst DEF Base, TypeOK, ServerReceive, ReceiveRequest, ReceiveName,
     ReceiveCancel, clientVars
<1>1. \A x : /\ In(toServer', "request", x) => In(toServer, "request", x)
             /\ In(toServer', "cancel", x) => In(toServer, "cancel", x)
             /\ Is(Head(toServer), "request", x) => In(toServer, "request", x)
             /\ Is(Head(toServer), "cancel", x) => In(toServer, "cancel", x)
             /\ Once(toServer, "request", x) /\ Is(Head(toServer), "request", x)
                    => ~In(toServer', "request", x)
  BY <1>0, InTail
<1>2. CASE ReceiveRequest
  <2> DEFINE r == Head(toServer).about
             e == Reply("answer", r)
  <2>1. /\ r \in Requests /\ Is(Head(toServer), "request", r)
        /\ serverQueue' = Append(serverQueue, e) /\ current' = current
    BY <1>0, <1>2, Elements DEF ReceiveRequest, Is
  <2>2. /\ e \in ServerMessages
        /\ \A x : /\ Is(e, "answer", x) => x = r
                  /\ ~Is(e, "cancelled", x)
    BY <2>1 DEF Reply, ServerMessages, Is, Base, TypeOK
  <2> HIDE DEF e
  <2>3. /\ \A x : /\ In(serverQueue', "answer", x)
                         => In(serverQueue, "answer", x) \/ x = r
                  /\ In(serverQueue', "cancelled", x)
                         => In(serverQueue, "cancelled", x)
        /\ \A i \in DOMAIN serverQueue' :
               serverQueue'[i] = e \/ \E j \in DOMAIN serverQueue :
                                         serverQueue'[i] = serverQueue[j]
    BY <1>0, <2>1, <2>2, InAppend, AddLast
  <2>4. In(toServer, "request", r)
    BY <1>1, <2>1
  <2>5. /\ r \notin answered /\ ~In(serverQueue, "cancelled", r)
        /\ ~In(toClient, "cancelled", r)
    BY <2>1, <2>4 DEF Cancels, AnsweredIsOver, CancelledIsLast, NothingToSend
  <2> HIDE DEF r
  <2>6. CancelledIsExpected'
    BY <1>0, <1>1, <2>2, <2>3 DEF Cancels, CancelledIsExpected
  <2>7. CancelledIsLast'
    BY <1>0, <1>1, <2>1, <2>3, <2>5 DEF Cancels, CancelledIsLast, NothingToSend,
       AnswerIsCurrent
  <2>8. AnsweredIsOver'
    BY <1>0, <1>1, <2>1, <2>3, <2>5 DEF Cancels, AnsweredIsOver, NothingToSend,
       AnswerIsCurrent
  <2> QED
    BY <2>6, <2>7, <2>8 DEF Cancels
<1>3. CASE ReceiveName
  <2>1. UNCHANGED <<serverQueue, current>>
    BY <1>3 DEF ReceiveName, serverVars
  <2> QED
    BY <1>0, <1>1, <2>1 DEF Cancels, CancelledIsExpected, CancelledIsLast,
       AnsweredIsOver, NothingToSend, AnswerIsCurrent
<1>4. CASE ReceiveCancel
  <2> DEFINE r == Head(toServer).about
  <2>1. /\ r \in Requests
        /\ IsCurrent(r) => current' = NoCurrent
        /\ ~IsCurrent(r) => current' = current
        /\ \A x : /\ In(serverQueue', "answer", x) => In(serverQueue, "answer", x)
                  /\ In(serverQueue', "cancelled", x) =>
                         In(serverQueue, "cancelled", x) \/ (IsCurrent(r) /\ x = r)
        /\ \A i \in DOMAIN serverQueue' :
               \/ \E j \in DOMAIN serverQueue : serverQueue'[i] = serverQueue[j]
               \/ serverQueue'[i] = Reply("cancelled", r)
        /\ IsCurrent(r) /\ Once(serverQueue, "answer", r) /\ running
               /\ serverQueue # << >> /\ Is(Head(serverQueue), "answer", r)
               => ~In(serverQueue', "answer", r)
    BY <1>4, CancelEffect DEF Base
  <2>2. /\ \A x : ~Is(NoCurrent, "answer", x)
        /\ IsCurrent(r) <=> AnswerIsCurrent(r)
        /\ Is(Head(toServer), "cancel", r)
        /\ \A x : Is(Reply("cancelled", r), "cancelled", x) => x = r
    BY <1>4 DEF Reply, NoCurrent, Is, IsCurrent, AnswerIsCurrent, ReceiveCancel
  <2>3. /\ In(toServer, "cancel", r)
        /\ r \in asked /\ ~In(clientQueue, "request", r)
        /\ cancelWait[r].block \/ r \in answered
    BY <1>1, <2>1, <2>2 DEF Cancels, CancelledIsLast, CancelledIsExpected
  <2>4. IsCurrent(r) => /\ ~In(toServer', "request", r)
                        /\ ~In(serverQueue', "answer", r)
    BY <1>1, <2>1, <2>2 DEF Base, Placed, RequestIsOnTheWay, AnswerIsQueued
  <2> HIDE DEF r
  <2>5. \A x : AnswerIsCurrent(x)' => AnswerIsCurrent(x) /\ ~(IsCurrent(r) /\ x = r)
    BY <2>1, <2>2 DEF AnswerIsCurrent
  <2>6. CancelledIsExpected'
    BY <1>0, <1>1, <2>1, <2>2, <2>3 DEF Cancels, CancelledIsExpected
  <2>7. CancelledIsLast'
    BY <1>0, <1>1, <2>1, <2>3, <2>4, <2>5 DEF Cancels, CancelledIsLast,
       NothingToSend
  <2>8. AnsweredIsOver'
    BY <1>0, <1>1, <2>1, <2>5 DEF Cancels, AnsweredIsOver, NothingToSend
  <2> QED
    BY <2>6, <2>7, <2>8 DEF Cancels
<1> QED
  BY <1>2, <1>3, <1>4 DEF ServerReceive

(* A packet of c is written.                                               *)
LEMMA CancelsSend ==
    ASSUME Base, Cancels, NEW c, NEW s, NEW busy, Sends(c, s, busy),
           NEW reported \in Nat, SendBody(c, s, busy, reported),
           UNCHANGED <<clientVars, toServer, conn, live, unnoticed>>
    PROVE  Cancels'
<1>0. /\ UNCHANGED <<asked, clientQueue, waiting, cancelWait, answered, toServer,
                     conn, live>>
      /\ \A x : ~Is(NoCurrent, "answer", x)
      /\ answered \subseteq Requests
  BY DEF clientVars, NoCurrent, Is, Base, TypeOK
<1>1. /\ \A x \in Requests : Is(c, "answer", x) => \/ In(serverQueue, "answer", x)
                                                  \/ AnswerIsCurrent(x)
      /\ c \in Tasks /\ s \in Nat /\ busy \in BOOLEAN /\ TypeOK
  BY SendsTyped DEF Base
<1>2. /\ \A x : /\ In(toClient', "answer", x) =>
                      In(toClient, "answer", x) \/ Is(c, "answer", x)
                /\ In(toClient', "cancelled", x) =>
                      \/ In(toClient, "cancelled", x)
                      \/ Is(c, "cancelled", x) /\ live /\ s = conn
                /\ CancelledLast(toClient, x)
                      /\ ~(In(toClient, "cancelled", x) /\ Is(c, "answer", x))
                      => CancelledLast(toClient', x)
      /\ IsLastOf(c) => current' = NoCurrent
      /\ ~IsLastOf(c) => current'.what = c.what /\ current'.about = c.about
      /\ \A x : /\ In(serverQueue', "answer", x) => In(serverQueue, "answer", x)
                /\ In(serverQueue', "cancelled", x)
                      => In(serverQueue, "cancelled", x)
      /\ \A i \in DOMAIN serverQueue' :
             \E j \in DOMAIN serverQueue : serverQueue'[i] = serverQueue[j]
  BY <1>1, SendEffect
<1>3. \A x : AnswerIsCurrent(x)' => Is(c, "answer", x)
  BY <1>0, <1>2 DEF AnswerIsCurrent, Is
<1>4. \A x : NothingToSend(x) /\ x \in Requests
             => NothingToSend(x)' /\ ~Is(c, "answer", x)
  BY <1>0, <1>1, <1>2, <1>3 DEF NothingToSend
<1>5. \A x : Is(c, "cancelled", x) =>
             /\ In(serverQueue, "cancelled", x)
             /\ \E i \in DOMAIN serverQueue : /\ Is(serverQueue[i], "cancelled", x)
                                            /\ serverQueue[i].conn = s
  <2>1. CASE c = current
    BY <2>1, Elements DEF Base, TypeOK, Is
  <2>2. CASE /\ serverQueue # << >> /\ s = Head(serverQueue).conn
             /\ c = StartTask(Head(serverQueue))
    <3>1. 1 \in DOMAIN serverQueue /\ Head(serverQueue) = serverQueue[1]
      BY <2>2, TakeFirst DEF Base, TypeOK
    <3>2. \A x : Is(c, "cancelled", x) => Is(Head(serverQueue), "cancelled", x)
      BY <2>2 DEF StartTask, LateTask, Is
    <3> QED
      BY <2>2, <3>1, <3>2 DEF In
  <2> QED
    BY <2>1, <2>2 DEF Sends
<1>6. CancelledIsExpected'
  BY <1>0, <1>2, <1>5 DEF Cancels, CancelledIsExpected
<1>7. CancelledIsLast'
  BY <1>0, <1>2, <1>4, <1>5 DEF Cancels, CancelledIsLast
<1>8. AnsweredIsOver'
  BY <1>0, <1>2, <1>4 DEF Cancels, AnsweredIsOver
<1> QED
  BY <1>6, <1>7, <1>8 DEF Cancels

(* The connection is closed at one side, or made again.                    *)
LEMMA CancelsConnection ==
    ASSUME Base, Cancels,
           \/ RemoveClient \/ ClientDidDisconnect \/ ServerDidDisconnect
           \/ Connect
    PROVE  Cancels'
<1>0. answered \subseteq Requests /\ conn \in Nat
  BY DEF Base, TypeOK
<1>1. CASE RemoveClient
  <2> DEFINE e == Reply("remove", NoRequest)
  <2>1. /\ serverQueue' = <<e>>
        /\ UNCHANGED <<asked, clientQueue, waiting, cancelWait, answered, toServer,
                       toClient, conn, live, current>>
    BY <1>1 DEF RemoveClient, clientVars, netVars
  <2>2. /\ \A x : /\ ~In(serverQueue', "answer", x)
                  /\ ~In(serverQueue', "cancelled", x)
        /\ \A i \in DOMAIN serverQueue' : \A x : ~Is(serverQueue'[i], "cancelled", x)
    <3>1. DOMAIN serverQueue' = {1} /\ serverQueue'[1] = e
      BY <2>1
    <3>2. e.what = "remove"
      BY DEF Reply
    <3> QED
      BY <3>1, <3>2 DEF In, Is
  <2> HIDE DEF e
  <2> QED
    BY <2>1, <2>2 DEF Cancels, CancelledIsExpected, CancelledIsLast,
       AnsweredIsOver, NothingToSend, AnswerIsCurrent
<1>2. CASE ClientDidDisconnect
  <2>1. /\ clientQueue' = << >> /\ \A x \in Requests : waiting'[x] = NoTask
        /\ UNCHANGED <<asked, answered, toServer, toClient, conn, live,
                       serverQueue, current>>
        /\ clientSide = "broken"
    BY <1>2 DEF ClientDidDisconnect, AfterLoss, netVars, serverVars
  <2>2. ~live /\ toServer = << >> /\ toClient = << >>
    BY <2>1 DEF Base, ConnectionIsKnown
  <2>3. CancelledIsExpected'
    BY <2>1, <2>2, InEmpty DEF CancelledIsExpected
  <2>4. CancelledIsLast' /\ AnsweredIsOver'
    BY <1>0, <2>1, <2>2, InEmpty, EmptyTask DEF Cancels, CancelledIsLast,
       AnsweredIsOver, NothingToSend, AnswerIsCurrent
  <2> QED
    BY <2>3, <2>4 DEF Cancels
<1>3. CASE ServerDidDisconnect
  <2>1. /\ serverQueue' = << >>
        /\ UNCHANGED <<asked, clientQueue, waiting, cancelWait, answered, toServer,
                       toClient, conn, live, current>>
    BY <1>3 DEF ServerDidDisconnect, clientVars
  <2>2. \A i \in DOMAIN serverQueue' : FALSE
    BY <2>1
  <2> QED
    BY <2>1, <2>2, InEmpty DEF Cancels, CancelledIsExpected, CancelledIsLast,
       AnsweredIsOver, NothingToSend, AnswerIsCurrent
<1>4. CASE Connect
  <2> DEFINE e == Message("name", NoRequest)
  <2>1. /\ clientQueue' = Append(clientQueue, e) /\ conn' = conn + 1
        /\ UNCHANGED <<asked, waiting, cancelWait, answered, toServer, toClient,
                       serverQueue, current>>
    BY <1>4 DEF Connect, serverVars
  <2>2. \A x : /\ In(clientQueue', "request", x) => In(clientQueue, "request", x)
               /\ In(clientQueue', "cancel", x) => In(clientQueue, "cancel", x)
    <3>1. \A x : ~Is(e, "request", x) /\ ~Is(e, "cancel", x)
      BY DEF Is, Message
    <3>2. clientQueue \in Seq(ClientMessages) /\ e \in ClientMessages
      BY Elements DEF Base, TypeOK
    <3> QED
      BY <2>1, <3>1, <3>2, InAppend
  <2> HIDE DEF e
  <2>3. \A i \in DOMAIN serverQueue' : serverQueue'[i].conn # conn'
    <3>1. \A i \in DOMAIN serverQueue : serverQueue[i].conn <= conn
      BY DEF Base, ConnectionIsKnown
    <3>2. \A i \in DOMAIN serverQueue : serverQueue[i].conn \in Nat
      <4>1. serverQueue # << >> =>
                \A i \in DOMAIN serverQueue : serverQueue[i] \in ServerMessages
        BY TakeFirst DEF Base, TypeOK
      <4>2. \A i \in DOMAIN serverQueue : serverQueue # << >>
        OBVIOUS
      <4> QED
        BY <4>1, <4>2, Elements
    <3> QED
      BY <1>0, <2>1, <3>1, <3>2
  <2>4. CancelledIsExpected'
    BY <2>1, <2>3 DEF Cancels, CancelledIsExpected
  <2>5. CancelledIsLast' /\ AnsweredIsOver'
    BY <2>1, <2>2 DEF Cancels, CancelledIsLast, AnsweredIsOver, NothingToSend,
       AnswerIsCurrent
  <2> QED
    BY <2>4, <2>5 DEF Cancels
<1> QED
  BY <1>1, <1>2, <1>3, <1>4

(* Cancels is inductive, given Base.                                       *)
LEMMA CancelsStep == Base /\ Cancels /\ [QuietNext]_vars => Cancels'
<1> SUFFICES ASSUME Base, Cancels, [QuietNext]_vars PROVE Cancels'
  OBVIOUS
<1>1. ASSUME NEW r \in Requests, Request(r) \/ CancelRequest(r) \/ Timeout(r)
      PROVE  Cancels'
  BY <1>1, CancelsClient
<1>2. CASE Transmit
  BY <1>2, CancelsTransmit
<1>3. CASE ClientReceive \/ Break
  BY <1>3, CancelsReceive
<1>4. CASE ServerReceive
  BY <1>4, CancelsServer
<1>5. CASE StartOperation \/ DidWrite
  BY <1>5, SendingSteps, CancelsSend
<1>6. CASE RemoveClient \/ ClientDidDisconnect \/ ServerDidDisconnect \/ Connect
  BY <1>6, CancelsConnection
<1>7. CASE UNCHANGED vars
  <2>1. UNCHANGED <<asked, clientQueue, waiting, cancelWait, answered, toServer,
                   toClient, conn, live, serverQueue, current>>
    BY <1>7 DEF vars, clientVars, netVars, serverVars
  <2> QED
    BY <2>1 DEF Cancels, CancelledIsExpected, CancelledIsLast, AnsweredIsOver,
       NothingToSend, AnswerIsCurrent
<1> QED
  BY <1>1, <1>2, <1>3, <1>4, <1>5, <1>6, <1>7 DEF QuietNext

(* Once the client has the answer to a cancelling it has nothing of the    *)
(* download, and no packet of it is still to come: the server dropped the  *)
(* rest before it answered, and the connection keeps the order.  The main  *)
(* thread is assumed to have disturbed no block so far.                    *)
THEOREM CancelLeavesNothing == Spec => []AnsweredCancelLeavesNothing
<1> DEFINE QuietCancels == ~disturbed => Cancels
<1>1. Init => QuietCancels
  <2>1. Init => /\ answered = {} /\ toServer = << >> /\ toClient = << >>
                /\ serverQueue = << >> /\ clientQueue = << >> /\ ~live
    BY DEF Init
  <2>2. \A i \in DOMAIN << >> : FALSE
    OBVIOUS
  <2> QED
    BY <2>1, <2>2, InEmpty DEF Cancels, CancelledIsExpected, CancelledIsLast,
       AnsweredIsOver
<1>2. QuietCancels => AnsweredCancelLeavesNothing
  BY DEF Cancels, AnsweredIsOver, AnsweredCancelLeavesNothing, In, Is
<1>3. Base /\ QuietCancels /\ [Next]_vars => QuietCancels'
  BY QuietSteps, CancelsStep
<1> HIDE DEF QuietCancels
<1> QED
  BY <1>1, <1>2, <1>3, BaseInit, BaseStep, PTL DEF Spec

-----------------------------------------------------------------------------
(* The parts of an answer follow each other.                               *)

(* The first packet on the way is taken.                                   *)
LEMMA WayTail ==
    ASSUME NEW q \in Seq(CellBodies), q # << >>, NEW r, NEW lo \in Nat,
           NEW n \in Nat, OnTheWay(q, r, lo, n)
    PROVE  /\ ~Is(Head(q), "answer", r) => OnTheWay(Tail(q), r, lo, n)
           /\ Is(Head(q), "answer", r) =>
                  /\ Head(q).index = lo /\ lo < n /\ Head(q).count = Packets[r]
                  /\ OnTheWay(Tail(q), r, lo + 1, n)
<1>1. /\ 1 \in DOMAIN q /\ Head(q) = q[1]
      /\ \A i \in DOMAIN Tail(q) : /\ i + 1 \in DOMAIN q
                                   /\ Tail(q)[i] = q[i + 1]
      /\ \A i \in DOMAIN q : i = 1 \/ i - 1 \in DOMAIN Tail(q)
      /\ \A i \in DOMAIN q : q[i] \in CellBodies
      /\ DOMAIN q \subseteq Nat /\ DOMAIN Tail(q) \subseteq Nat \ {0}
  BY TakeFirst
<1>2. \A i \in DOMAIN q : q[i].index \in Nat
  BY <1>1, Elements
<1>3. \A i \in DOMAIN q :
          Is(q[i], "answer", r) =>
              /\ q[i].index \in lo..(n - 1) /\ q[i].count = Packets[r]
              /\ \A j \in DOMAIN q :
                     i < j /\ Is(q[j], "answer", r) => q[i].index < q[j].index
  BY DEF OnTheWay
<1>4. \A k \in lo..(n - 1) :
          \E i \in DOMAIN q : Is(q[i], "answer", r) /\ q[i].index = k
  BY DEF OnTheWay
<1>5. \A i \in DOMAIN q : i # 1 => /\ i - 1 \in DOMAIN Tail(q)
                                  /\ Tail(q)[i - 1] = q[i]
  BY <1>1
<1>6. \A i \in DOMAIN Tail(q) :
          Is(Tail(q)[i], "answer", r) =>
              /\ Tail(q)[i].index \in lo..(n - 1)
              /\ Tail(q)[i].count = Packets[r]
              /\ \A j \in DOMAIN Tail(q) :
                     i < j /\ Is(Tail(q)[j], "answer", r)
                         => Tail(q)[i].index < Tail(q)[j].index
  BY <1>1, <1>3
<1>7. CASE ~Is(Head(q), "answer", r)
  <2>1. \A k \in lo..(n - 1) :
            \E i \in DOMAIN Tail(q) :
                Is(Tail(q)[i], "answer", r) /\ Tail(q)[i].index = k
    <3> SUFFICES ASSUME NEW k \in lo..(n - 1)
                 PROVE  \E i \in DOMAIN Tail(q) :
                            Is(Tail(q)[i], "answer", r) /\ Tail(q)[i].index = k
      OBVIOUS
    <3>1. PICK i \in DOMAIN q : Is(q[i], "answer", r) /\ q[i].index = k
      BY <1>4
    <3>2. i # 1
      BY <1>1, <1>7, <3>1
    <3> QED
      BY <1>5, <3>1, <3>2
  <2> QED
    BY <1>6, <1>7, <2>1 DEF OnTheWay
<1>8. CASE Is(Head(q), "answer", r)
  <2>1. q[1].index \in lo..(n - 1) /\ q[1].count = Packets[r]
    BY <1>1, <1>3, <1>8
  <2>2. \A j \in DOMAIN q : j # 1 /\ Is(q[j], "answer", r)
                               => q[1].index < q[j].index
    <3>1. \A j \in DOMAIN q : j # 1 => 1 < j
      BY <1>1
    <3> QED
      BY <1>1, <1>3, <1>8, <3>1
  <2>3. q[1].index = lo
    <3>1. lo \in lo..(n - 1)
      BY <2>1
    <3>2. PICK i \in DOMAIN q : Is(q[i], "answer", r) /\ q[i].index = lo
      BY <1>4, <3>1
    <3> QED
      BY <1>1, <2>1, <2>2, <3>2
  <2>4. \A i \in DOMAIN Tail(q) :
            Is(Tail(q)[i], "answer", r) => Tail(q)[i].index \in (lo + 1)..(n - 1)
    <3>1. \A i \in DOMAIN Tail(q) :
              /\ i + 1 \in DOMAIN q /\ i + 1 # 1 /\ Tail(q)[i] = q[i + 1]
      BY <1>1
    <3> QED
      BY <1>2, <1>6, <2>2, <2>3, <3>1
  <2>5. \A k \in (lo + 1)..(n - 1) :
            \E i \in DOMAIN Tail(q) :
                Is(Tail(q)[i], "answer", r) /\ Tail(q)[i].index = k
    <3> SUFFICES ASSUME NEW k \in (lo + 1)..(n - 1)
                 PROVE  \E i \in DOMAIN Tail(q) :
                            Is(Tail(q)[i], "answer", r) /\ Tail(q)[i].index = k
      OBVIOUS
    <3>1. k \in lo..(n - 1) /\ k # lo
      OBVIOUS
    <3>2. PICK i \in DOMAIN q : Is(q[i], "answer", r) /\ q[i].index = k
      BY <1>4, <3>1
    <3>3. i # 1
      BY <2>3, <3>1, <3>2
    <3> QED
      BY <1>5, <3>2, <3>3
  <2> QED
    BY <1>1, <1>6, <1>8, <2>1, <2>3, <2>4, <2>5 DEF OnTheWay
<1> QED
  BY <1>7, <1>8

(* One more packet on the way.                                             *)
LEMMA WayAppend ==
    ASSUME NEW q \in Seq(CellBodies), NEW e \in CellBodies, NEW r,
           NEW lo \in Nat, NEW n \in Nat, lo <= n, OnTheWay(q, r, lo, n)
    PROVE  /\ ~Is(e, "answer", r) => OnTheWay(Append(q, e), r, lo, n)
           /\ Is(e, "answer", r) /\ e.index = n /\ e.count = Packets[r]
                  => OnTheWay(Append(q, e), r, lo, n + 1)
<1> DEFINE a == Append(q, e)
<1>1. /\ \A i \in DOMAIN q : i \in DOMAIN a /\ a[i] = q[i]
      /\ Len(q) + 1 \in DOMAIN a /\ a[Len(q) + 1] = e
      /\ \A i \in DOMAIN a : i \in DOMAIN q \/ i = Len(q) + 1
      /\ \A i \in DOMAIN q : i < Len(q) + 1 /\ i \in Nat
      /\ Len(q) \in Nat
  BY AddLast
<1>2. \A i \in DOMAIN q :
          Is(q[i], "answer", r) =>
              /\ q[i].index \in lo..(n - 1) /\ q[i].count = Packets[r]
              /\ \A j \in DOMAIN q :
                     i < j /\ Is(q[j], "answer", r) => q[i].index < q[j].index
  BY DEF OnTheWay
<1>3. \A k \in lo..(n - 1) :
          \E i \in DOMAIN q : Is(q[i], "answer", r) /\ q[i].index = k
  BY DEF OnTheWay
<1> HIDE DEF a
<1>4. CASE ~Is(e, "answer", r)
  <2>1. \A i \in DOMAIN a : Is(a[i], "answer", r) => i \in DOMAIN q /\ a[i] = q[i]
    BY <1>1, <1>4
  <2>2. \A k \in lo..(n - 1) :
            \E i \in DOMAIN a : Is(a[i], "answer", r) /\ a[i].index = k
    BY <1>1, <1>3
  <2>3. OnTheWay(a, r, lo, n)
    BY <1>2, <2>1, <2>2 DEF OnTheWay
  <2> QED
    BY <1>4, <2>3 DEF a
<1>5. CASE Is(e, "answer", r) /\ e.index = n /\ e.count = Packets[r]
  <2>1. \A i \in DOMAIN a :
            Is(a[i], "answer", r) =>
                /\ a[i].index \in lo..n /\ a[i].count = Packets[r]
                /\ \A j \in DOMAIN a :
                       i < j /\ Is(a[j], "answer", r) => a[i].index < a[j].index
    <3>1. \A i \in DOMAIN q : Is(q[i], "answer", r) => /\ q[i].index \in lo..n
                                                     /\ q[i].index < n
      BY <1>2
    <3>2. \A i, j \in DOMAIN a : i < j => i \in DOMAIN q
      BY <1>1
    <3> QED
      BY <1>1, <1>2, <1>5, <3>1, <3>2
  <2>2. \A k \in lo..n :
            \E i \in DOMAIN a : Is(a[i], "answer", r) /\ a[i].index = k
    <3>1. \A k \in lo..n : k = n \/ k \in lo..(n - 1)
      OBVIOUS
    <3> QED
      BY <1>1, <1>3, <1>5, <3>1
  <2>3. (n + 1) - 1 = n
    OBVIOUS
  <2>4. OnTheWay(a, r, lo, n + 1)
    BY <2>1, <2>2, <2>3 DEF OnTheWay
  <2> QED
    BY <1>5, <2>4 DEF a
<1> QED
  BY <1>4, <1>5

(* Nothing on the way.                                                     *)
LEMMA WayEmpty ==
    ASSUME NEW q, NEW r, ~In(q, "answer", r)
    PROVE  OnTheWay(q, r, 0, 0)
<1>1. 0..(0 - 1) = {}
  OBVIOUS
<1> QED
  BY <1>1 DEF OnTheWay, In

Parts == PartsFollow /\ CompletedIsAlwaysWhole

(* Nothing of the answer to r changes: what was sent of it stays sent.     *)
LEMMA SentStays ==
    ASSUME NEW r, NEW n, Sent(r, n),
           waiting'[r].parts = waiting[r].parts,
           OnTheWay(toClient', r, Len(waiting[r].parts), n),
           AnswerIsCurrent(r)' <=> AnswerIsCurrent(r),
           AnswerIsCurrent(r) => current' = current,
           In(toServer', "request", r) => In(toServer, "request", r),
           conn' = conn,
           \A i \in DOMAIN serverQueue' :
               Is(serverQueue'[i], "answer", r) =>
                   \E j \in DOMAIN serverQueue : serverQueue'[i] = serverQueue[j]
    PROVE  Sent(r, n)'
BY DEF Sent

(* The steps that send and receive no packet of an answer.                 *)
LEMMA PartsQuiet ==
    ASSUME Base, Parts, completed' = completed, conn' = conn, live' => live,
           \A r \in Requests :
               waiting'[r].block => /\ waiting[r].block
                                    /\ waiting'[r].parts = waiting[r].parts,
           toClient' = toClient,
           \A r \in Requests :
               /\ AnswerIsCurrent(r)' <=> AnswerIsCurrent(r)
               /\ AnswerIsCurrent(r) => current' = current
               /\ In(toServer', "request", r) => In(toServer, "request", r)
               /\ \A i \in DOMAIN serverQueue' :
                      Is(serverQueue'[i], "answer", r) =>
                          \E j \in DOMAIN serverQueue :
                              serverQueue'[i] = serverQueue[j]
    PROVE  Parts'
<1>1. CompletedIsAlwaysWhole'
  BY DEF Parts, CompletedIsAlwaysWhole, WholeFile
<1>2. ASSUME NEW r \in Requests, live', waiting'[r].block
      PROVE  \E n \in 0..Packets[r] : Sent(r, n)'
  <2>1. PICK n \in 0..Packets[r] : Sent(r, n)
    BY <1>2 DEF Parts, PartsFollow
  <2>2. OnTheWay(toClient', r, Len(waiting[r].parts), n)
    BY <2>1 DEF Sent
  <2>3. waiting'[r].parts = waiting[r].parts
    BY <1>2
  <2>4. Sent(r, n)'
    BY <2>1, <2>2, <2>3, SentStays
  <2> QED
    BY <2>4
<1>3. PartsFollow'
  BY <1>2 DEF PartsFollow
<1> QED
  BY <1>1, <1>3 DEF Parts

(* Asking, cancelling, timing out, naming, and losing the connection.      *)
LEMMA PartsOther ==
    ASSUME Base, Parts,
           \/ \E r \in Requests : Request(r) \/ CancelRequest(r) \/ Timeout(r)
           \/ ReceiveName \/ RemoveClient \/ ClientDidDisconnect
           \/ ServerDidDisconnect \/ ReceiveRemove \/ Break
           \/ UNCHANGED vars
    PROVE  Parts'
<1>0. /\ waiting \in [Requests -> ReceiveTasks]
      /\ toServer \in Seq(ClientMessages)
  BY DEF Base, TypeOK
<1>1. CASE ReceiveRemove \/ Break
  <2>1. ~live' /\ completed' = completed
    BY <1>1 DEF ReceiveRemove, Break, LoseConnection
  <2> QED
    BY <2>1 DEF Parts, PartsFollow, CompletedIsAlwaysWhole, WholeFile
<1>2. CASE ~(ReceiveRemove \/ Break)
  <2>1. UNCHANGED <<completed, conn, live, toClient, current>>
    BY <1>2 DEF Request, CancelRequest, Timeout, ReceiveName, RemoveClient,
       ClientDidDisconnect, ServerDidDisconnect, clientVars, netVars, serverVars,
       vars
  <2>2. \A r \in Requests :
            waiting'[r].block => /\ waiting[r].block
                                 /\ waiting'[r].parts = waiting[r].parts
    <3>1. ASSUME NEW q \in Requests, Timeout(q)
          PROVE  \A r \in Requests : /\ waiting'[r].block = waiting[r].block
                                     /\ waiting'[r].parts = waiting[r].parts
      <4>1. waiting' = [waiting EXCEPT ![q] = [waiting[q] EXCEPT !.late = TRUE]]
        BY <3>1 DEF Timeout
      <4> QED
        BY <1>0, <4>1, TaskChanges
    <3>2. ASSUME NEW q \in Requests, CancelRequest(q)
          PROVE  \A r \in Requests : waiting'[r] \in {waiting[r], NoTask}
      BY <1>0, <3>2 DEF CancelRequest
    <3>3. ClientDidDisconnect => \A r \in Requests : waiting'[r] = NoTask
      BY DEF ClientDidDisconnect, AfterLoss
    <3>4. ASSUME \/ \E r \in Requests : Request(r)
                 \/ ReceiveName \/ RemoveClient \/ ServerDidDisconnect
                 \/ UNCHANGED vars
          PROVE  waiting' = waiting
      BY <3>4 DEF Request, ReceiveName, RemoveClient, ServerDidDisconnect,
         clientVars, vars
    <3> QED
      BY <1>2, <3>1, <3>2, <3>3, <3>4, EmptyTask
  <2>3. \A r \in Requests :
            In(toServer', "request", r) => In(toServer, "request", r)
    <3>1. ReceiveName => toServer # << >> /\ toServer' = Tail(toServer)
      BY DEF ReceiveName
    <3>2. ~ReceiveName => toServer' = toServer
      BY <1>2 DEF Request, CancelRequest, Timeout, RemoveClient,
         ClientDidDisconnect, ServerDidDisconnect, clientVars, netVars, vars
    <3>3. toServer # << >> =>
              \A r : In(Tail(toServer), "request", r) => In(toServer, "request", r)
      BY <1>0, InTail
    <3> QED
      BY <3>1, <3>2, <3>3
  <2>4. \A i \in DOMAIN serverQueue' :
            \/ \E j \in DOMAIN serverQueue : serverQueue'[i] = serverQueue[j]
            \/ serverQueue'[i].what = "remove"
    <3>1. CASE RemoveClient
      <4>1. serverQueue' = <<Reply("remove", NoRequest)>>
        BY <3>1 DEF RemoveClient
      <4> QED
        BY <4>1 DEF Reply
    <3>2. CASE ServerDidDisconnect
      BY <3>2 DEF ServerDidDisconnect
    <3>3. CASE ~RemoveClient /\ ~ServerDidDisconnect
      <4>1. serverQueue' = serverQueue
        BY <1>2, <3>3 DEF Request, CancelRequest, Timeout, ReceiveName,
           ClientDidDisconnect, serverVars, vars
      <4> QED
        BY <4>1
    <3> QED
      BY <3>1, <3>2, <3>3
  <2>5. \A r \in Requests, i \in DOMAIN serverQueue' :
            Is(serverQueue'[i], "answer", r) =>
                \E j \in DOMAIN serverQueue : serverQueue'[i] = serverQueue[j]
    BY <2>4 DEF Is
  <2>6. \A r : AnswerIsCurrent(r)' <=> AnswerIsCurrent(r)
    BY <2>1 DEF AnswerIsCurrent
  <2> QED
    BY <2>1, <2>2, <2>3, <2>5, <2>6, PartsQuiet
<1> QED
  BY <1>1, <1>2

(* The next message of the client is written: nothing of an answer is sent *)
(* yet when the receive task for it is made.                               *)
LEMMA PartsTransmit ==
    ASSUME Base, Parts, Transmit
    PROVE  Parts'
<1> DEFINE m == Head(clientQueue)
<1>0. /\ clientQueue \in Seq(ClientMessages) /\ toServer \in Seq(ClientMessages)
      /\ waiting \in [Requests -> ReceiveTasks] /\ clientQueue # << >>
      /\ m \in ClientMessages /\ conn \in Nat
  BY TakeFirst DEF Base, TypeOK, Transmit
<1>1. /\ toServer' = IF live THEN Append(toServer, m) ELSE toServer
      /\ waiting' = IF m.what = "request"
                    THEN [waiting EXCEPT ![m.about] = Expecting] ELSE waiting
      /\ UNCHANGED <<completed, toClient, conn, live, serverQueue, current>>
  BY DEF Transmit, serverVars
<1>2. \A x : In(toServer', "request", x) =>
                 In(toServer, "request", x) \/ Is(m, "request", x)
  <2>1. CASE live
    BY <1>0, <1>1, <2>1, InAppend
  <2>2. CASE ~live
    BY <1>1, <2>2
  <2> QED
    BY <2>1, <2>2
<1>3. \A x \in Requests : /\ Is(m, "request", x) => waiting'[x] = Expecting
                          /\ ~Is(m, "request", x) => waiting'[x] = waiting[x]
  BY <1>0, <1>1, Elements DEF Is
<1>4. \A x : Is(m, "request", x) => In(clientQueue, "request", x)
  BY <1>0, InTail
<1> HIDE DEF m
<1>5. ASSUME NEW r \in Requests, live', waiting'[r].block
      PROVE  \E n \in 0..Packets[r] : Sent(r, n)'
  <2>1. CASE Is(m, "request", r)
    <3>1. NotSent(r)
      BY <1>4, <2>1 DEF Base, Placed, RequestIsUnsent
    <3>2. waiting'[r].parts = << >> /\ Len(<< >>) = 0
      BY <1>3, <2>1, EmptySeq DEF Expecting, ReceiveTask
    <3>3. OnTheWay(toClient', r, 0, 0)
      BY <1>1, <3>1, WayEmpty DEF NotSent
    <3>4. /\ ~AnswerIsCurrent(r)'
          /\ \A i \in DOMAIN serverQueue' : ~Is(serverQueue'[i], "answer", r)
      BY <1>1, <3>1 DEF NotSent, AnswerIsCurrent, In
    <3>5. Len(waiting'[r].parts) = 0 /\ 1..0 = {}
      BY <3>2
    <3>6. Sent(r, 0)'
      BY <3>3, <3>4, <3>5 DEF Sent
    <3>7. 0 \in 0..Packets[r]
      BY Elements
    <3> QED
      BY <3>6, <3>7
  <2>2. CASE ~Is(m, "request", r)
    <3>1. waiting'[r] = waiting[r] /\ live
      BY <1>1, <1>3, <1>5, <2>2
    <3>2. PICK n \in 0..Packets[r] : Sent(r, n)
      BY <1>5, <3>1 DEF Parts, PartsFollow
    <3>3. /\ OnTheWay(toClient', r, Len(waiting[r].parts), n)
          /\ AnswerIsCurrent(r)' <=> AnswerIsCurrent(r)
          /\ In(toServer', "request", r) => In(toServer, "request", r)
          /\ \A i \in DOMAIN serverQueue' :
                 \E j \in DOMAIN serverQueue : serverQueue'[i] = serverQueue[j]
      BY <1>1, <1>2, <2>2, <3>2 DEF Sent, AnswerIsCurrent
    <3>4. Sent(r, n)'
      BY <1>1, <3>1, <3>2, <3>3, SentStays
    <3> QED
      BY <3>4
  <2> QED
    BY <2>1, <2>2
<1>6. PartsFollow'
  BY <1>5 DEF PartsFollow
<1>7. CompletedIsAlwaysWhole'
  BY <1>1 DEF Parts, CompletedIsAlwaysWhole, WholeFile
<1> QED
  BY <1>6, <1>7 DEF Parts

(* The parts received in order, and the next one.                          *)
LEMMA NextPart ==
    ASSUME NEW t \in Seq(Nat), \A k \in 1..Len(t) : t[k] = k - 1
    PROVE  LET s == Append(t, Len(t))
           IN  /\ Len(s) = Len(t) + 1 /\ s \in Seq(Nat)
               /\ \A k \in 1..Len(s) : s[k] = k - 1
<1> DEFINE s == Append(t, Len(t))
<1>1. Len(t) \in Nat
  BY LenProperties
<1>2. /\ s \in Seq(Nat) /\ Len(s) = Len(t) + 1
      /\ \A k \in 1..Len(t) : s[k] = t[k]
      /\ s[Len(t) + 1] = Len(t)
  BY <1>1, AppendProperties
<1> HIDE DEF s
<1>3. \A k \in 1..Len(s) : s[k] = k - 1
  <2> SUFFICES ASSUME NEW k \in 1..Len(s) PROVE s[k] = k - 1
    OBVIOUS
  <2>1. CASE k = Len(t) + 1
    <3>1. (Len(t) + 1) - 1 = Len(t)
      BY <1>1
    <3> QED
      BY <1>2, <2>1, <3>1
  <2>2. CASE k # Len(t) + 1
    <3>1. k \in 1..Len(t)
      BY <1>1, <1>2, <2>2
    <3> QED
      BY <1>2, <3>1
  <2> QED
    BY <2>1, <2>2
<1> QED
  BY <1>2, <1>3 DEF s

(* A packet of an answer arrives: it is the one expected next, and with    *)
(* the last one the parts are the whole file.                              *)
LEMMA PartsReceive ==
    ASSUME Base, Parts, ReceiveAnswer
    PROVE  Parts'
<1> DEFINE p == Head(toClient)
           q == p.about
<1>0. /\ toClient \in Seq(CellBodies) /\ toClient # << >>
      /\ toClient' = Tail(toClient)
      /\ waiting \in [Requests -> ReceiveTasks]
      /\ UNCHANGED <<toServer, conn, live, serverQueue, current>>
  BY DEF Base, TypeOK, ReceiveAnswer, serverVars
<1>1. /\ q \in Requests /\ p.index \in Nat /\ Is(p, "answer", q)
      /\ \A x \in Requests \ {q} : /\ waiting'[x] = waiting[x]
                                  /\ completed'[x] = completed[x]
      /\ IsLast(p) => waiting'[q] = NoTask
      /\ ~IsLast(p) =>
             /\ waiting'[q].block <=> waiting[q].is /\ waiting[q].block
             /\ waiting[q].is =>
                    waiting'[q].parts = Append(waiting[q].parts, p.index)
      /\ IsLast(p) /\ waiting[q].is /\ waiting[q].block =>
             completed'[q] = Append(waiting[q].parts, p.index)
      /\ ~(IsLast(p) /\ waiting[q].is /\ waiting[q].block) =>
             completed'[q] = completed[q]
  BY ReceiveEffect DEF Base
<1>2. live
  BY <1>0 DEF Base, ConnectionIsKnown
<1>3. \A x : x # q => ~Is(p, "answer", x)
  BY DEF Is
<1> HIDE DEF p, q
<1>4. ASSUME waiting[q].is, waiting[q].block
      PROVE  \E n \in 0..Packets[q] :
                 /\ Sent(q, n) /\ Len(waiting[q].parts) \in Nat
                 /\ p.index = Len(waiting[q].parts) /\ p.index < n
                 /\ p.count = Packets[q]
                 /\ OnTheWay(toClient', q, Len(waiting[q].parts) + 1, n)
                 /\ LET s == Append(waiting[q].parts, p.index)
                    IN  /\ Len(s) = Len(waiting[q].parts) + 1
                        /\ s \in Seq(Nat)
                        /\ \A k \in 1..Len(s) : s[k] = k - 1
  <2>1. PICK n \in 0..Packets[q] : Sent(q, n)
    BY <1>1, <1>2, <1>4 DEF Parts, PartsFollow
  <2>2. waiting[q].parts \in Seq(Nat) /\ Packets[q] \in Nat
    BY <1>0, <1>1, Elements DEF ReceiveTasks
  <2>3. Len(waiting[q].parts) \in Nat /\ n \in Nat
    BY <2>2, LenProperties
  <2>4. /\ OnTheWay(toClient, q, Len(waiting[q].parts), n)
        /\ \A k \in 1..Len(waiting[q].parts) : waiting[q].parts[k] = k - 1
    BY <2>1 DEF Sent
  <2>5. /\ p.index = Len(waiting[q].parts) /\ p.index < n
        /\ p.count = Packets[q]
        /\ OnTheWay(toClient', q, Len(waiting[q].parts) + 1, n)
    BY <1>0, <1>1, <2>3, <2>4, WayTail DEF p
  <2>6. LET s == Append(waiting[q].parts, p.index)
        IN  /\ Len(s) = Len(waiting[q].parts) + 1
            /\ s \in Seq(Nat)
            /\ \A k \in 1..Len(s) : s[k] = k - 1
    <3> DEFINE t == waiting[q].parts
    <3>1. LET s == Append(t, Len(t))
          IN  /\ Len(s) = Len(t) + 1 /\ s \in Seq(Nat)
              /\ \A k \in 1..Len(s) : s[k] = k - 1
      <4> HIDE DEF t
      <4>1. t \in Seq(Nat) /\ \A k \in 1..Len(t) : t[k] = k - 1
        BY <2>2, <2>4 DEF t
      <4> QED
        BY <4>1, NextPart
    <3>2. p.index = Len(t)
      BY <2>5
    <3> QED
      BY <3>1, <3>2
  <2> QED
    BY <2>1, <2>3, <2>5, <2>6
<1>5. ASSUME NEW r \in Requests, live', waiting'[r].block
      PROVE  \E n \in 0..Packets[r] : Sent(r, n)'
  <2>0. /\ AnswerIsCurrent(r)' <=> AnswerIsCurrent(r)
        /\ \A i \in DOMAIN serverQueue' :
               \E j \in DOMAIN serverQueue : serverQueue'[i] = serverQueue[j]
    BY <1>0 DEF AnswerIsCurrent
  <2>1. CASE r = q
    <3>1. ~IsLast(p) /\ waiting[r].is /\ waiting[r].block
      BY <1>1, <1>5, <2>1, EmptyTask
    <3>2. PICK n \in 0..Packets[r] :
              /\ Sent(r, n) /\ Len(waiting[r].parts) \in Nat
              /\ p.index = Len(waiting[r].parts) /\ p.index < n
              /\ OnTheWay(toClient', r, Len(waiting[r].parts) + 1, n)
              /\ LET s == Append(waiting[r].parts, p.index)
                 IN  /\ Len(s) = Len(waiting[r].parts) + 1
                     /\ \A k \in 1..Len(s) : s[k] = k - 1
      BY <1>4, <2>1, <3>1
    <3>3. waiting'[r].parts = Append(waiting[r].parts, p.index)
      BY <1>1, <2>1, <3>1
    <3>4. /\ Len(waiting'[r].parts) = Len(waiting[r].parts) + 1
          /\ Len(waiting'[r].parts) <= n
          /\ \A k \in 1..Len(waiting'[r].parts) : waiting'[r].parts[k] = k - 1
      BY <3>2, <3>3
    <3>5. OnTheWay(toClient', r, Len(waiting'[r].parts), n)
      BY <3>2, <3>4
    <3>6. /\ AnswerIsCurrent(r) => current.next = n
          /\ In(toServer, "request", r) => n = 0
          /\ \A i \in DOMAIN serverQueue :
                 Is(serverQueue[i], "answer", r) =>
                     serverQueue[i].conn = conn /\ (~AnswerIsCurrent(r) => n = 0)
      BY <3>2 DEF Sent
    <3>7. Sent(r, n)'
      BY <1>0, <2>0, <3>4, <3>5, <3>6 DEF Sent
    <3> QED
      BY <3>7
  <2>2. CASE r # q
    <3>1. waiting'[r] = waiting[r] /\ live /\ ~Is(p, "answer", r)
      BY <1>1, <1>2, <1>3, <2>2
    <3>2. PICK n \in 0..Packets[r] : Sent(r, n)
      BY <1>5, <3>1 DEF Parts, PartsFollow
    <3>3. Len(waiting[r].parts) \in Nat /\ n \in Nat
      <4>1. waiting[r].parts \in Seq(Nat) /\ Packets[r] \in Nat
        BY <1>0, Elements DEF ReceiveTasks
      <4> QED
        BY <4>1, LenProperties
    <3>4. OnTheWay(toClient', r, Len(waiting[r].parts), n)
      <4>1. OnTheWay(toClient, r, Len(waiting[r].parts), n)
        BY <3>2 DEF Sent
      <4> QED
        BY <1>0, <3>1, <3>3, <4>1, WayTail DEF p
    <3>5. Sent(r, n)'
      BY <1>0, <2>0, <3>1, <3>2, <3>4, SentStays
    <3> QED
      BY <3>5
  <2> QED
    BY <2>1, <2>2
<1>6. PartsFollow'
  BY <1>5 DEF PartsFollow
<1>7. CompletedIsAlwaysWhole'
  <2> SUFFICES ASSUME NEW r \in Requests, completed'[r] # << >>
               PROVE  completed'[r] = WholeFile(r)
    BY DEF CompletedIsAlwaysWhole, WholeFile
  <2>1. completed[r] # << >> => completed[r] = WholeFile(r)
    BY DEF Parts, CompletedIsAlwaysWhole
  <2>2. CASE r = q /\ IsLast(p) /\ waiting[q].is /\ waiting[q].block
    <3>1. PICK n \in 0..Packets[q] :
              /\ Len(waiting[q].parts) \in Nat
              /\ p.index = Len(waiting[q].parts) /\ p.count = Packets[q]
              /\ LET s == Append(waiting[q].parts, p.index)
                 IN  /\ Len(s) = Len(waiting[q].parts) + 1
                     /\ s \in Seq(Nat)
                     /\ \A k \in 1..Len(s) : s[k] = k - 1
      BY <1>4, <2>2
    <3>2. completed'[q] = Append(waiting[q].parts, p.index)
      BY <1>1, <2>2
    <3>3. Len(completed'[q]) = Packets[q]
      BY <1>1, <2>2, <3>1, <3>2 DEF IsLast
    <3>4. completed'[q] \in Seq(Nat) /\ \A k \in 1..Packets[q] : completed'[q][k] = k - 1
      BY <3>1, <3>2, <3>3
    <3>5. completed'[q] = [k \in 1..Packets[q] |-> completed'[q][k]]
      <4>1. completed'[q] \in [1..Packets[q] -> Nat]
        BY <3>3, <3>4, LenProperties
      <4> QED
        BY <4>1
    <3> QED
      BY <2>2, <3>4, <3>5 DEF WholeFile
  <2>3. CASE ~(r = q /\ IsLast(p) /\ waiting[q].is /\ waiting[q].block)
    BY <1>1, <2>1, <2>3
  <2> QED
    BY <2>2, <2>3
<1> QED
  BY <1>6, <1>7 DEF Parts

(* The answer to a cancelling arrives.                                     *)
LEMMA PartsReceiveCancelled ==
    ASSUME Base, Parts, ReceiveCancelled
    PROVE  Parts'
<1>1. /\ toClient \in Seq(CellBodies) /\ toClient # << >>
      /\ toClient' = Tail(toClient) /\ Head(toClient).what = "cancelled"
      /\ waiting \in [Requests -> ReceiveTasks]
      /\ UNCHANGED <<completed, toServer, conn, live, serverQueue, current>>
  BY DEF Base, TypeOK, ReceiveCancelled, serverVars
<1>2. \A r \in Requests : waiting'[r] \in {waiting[r], NoTask}
  BY <1>1 DEF ReceiveCancelled, AfterCancel
<1>3. ASSUME NEW r \in Requests, live', waiting'[r].block
      PROVE  \E n \in 0..Packets[r] : Sent(r, n)'
  <2>1. waiting'[r] = waiting[r] /\ live /\ ~Is(Head(toClient), "answer", r)
    BY <1>1, <1>2, <1>3, EmptyTask DEF Is
  <2>2. PICK n \in 0..Packets[r] : Sent(r, n)
    BY <1>3, <2>1 DEF Parts, PartsFollow
  <2>3. Len(waiting[r].parts) \in Nat /\ n \in Nat
    <3>1. waiting[r].parts \in Seq(Nat) /\ Packets[r] \in Nat
      BY <1>1, Elements DEF ReceiveTasks
    <3> QED
      BY <3>1, LenProperties
  <2>4. OnTheWay(toClient', r, Len(waiting[r].parts), n)
    <3>1. OnTheWay(toClient, r, Len(waiting[r].parts), n)
      BY <2>2 DEF Sent
    <3> QED
      BY <1>1, <2>1, <2>3, <3>1, WayTail
  <2>5. /\ AnswerIsCurrent(r)' <=> AnswerIsCurrent(r)
        /\ \A i \in DOMAIN serverQueue' :
               \E j \in DOMAIN serverQueue : serverQueue'[i] = serverQueue[j]
    BY <1>1 DEF AnswerIsCurrent
  <2>6. Sent(r, n)'
    BY <1>1, <2>1, <2>2, <2>4, <2>5, SentStays
  <2> QED
    BY <2>6
<1>4. PartsFollow'
  BY <1>3 DEF PartsFollow
<1>5. CompletedIsAlwaysWhole'
  BY <1>1 DEF Parts, CompletedIsAlwaysWhole, WholeFile
<1> QED
  BY <1>4, <1>5 DEF Parts

(* A request, or its cancelling, arrives at the server.                    *)
LEMMA PartsServer ==
    ASSUME Base, Parts, ReceiveRequest \/ ReceiveCancel
    PROVE  Parts'
<1> DEFINE q == Head(toServer).about
<1>0. /\ toServer \in Seq(ClientMessages) /\ toServer # << >>
      /\ serverQueue \in Seq(ServerMessages) /\ q \in Requests
      /\ toServer' = Tail(toServer)
      /\ UNCHANGED <<waiting, completed, toClient, conn, live>>
  <2>1. toServer # << >> /\ Head(toServer).what # "name"
    BY DEF ReceiveRequest, ReceiveCancel
  <2> QED
    BY <2>1, TakeFirst, Elements DEF Base, TypeOK, ReceiveRequest, ReceiveCancel,
       clientVars
<1>1. \A r : /\ In(toServer', "request", r) => In(toServer, "request", r)
             /\ Is(Head(toServer), "request", r) => In(toServer, "request", r)
  BY <1>0, InTail
<1>2. CASE ReceiveRequest
  <2> DEFINE e == Reply("answer", q)
  <2>1. /\ serverQueue' = Append(serverQueue, e) /\ current' = current
        /\ Is(Head(toServer), "request", q)
    BY <1>2 DEF ReceiveRequest, Is
  <2>2. e \in ServerMessages /\ e.conn = conn /\ \A r : Is(e, "answer", r) <=> r = q
    BY <1>0 DEF Reply, ServerMessages, Is, Base, TypeOK
  <2> HIDE DEF e
  <2>3. \A i \in DOMAIN serverQueue' :
            serverQueue'[i] = e \/ \E j \in DOMAIN serverQueue :
                                      serverQueue'[i] = serverQueue[j]
    BY <1>0, <2>1, <2>2, AddLast
  <2>4. In(toServer, "request", q)
    BY <1>1, <2>1
  <2> HIDE DEF q
  <2>5. ASSUME NEW r \in Requests, live', waiting'[r].block
        PROVE  \E n \in 0..Packets[r] : Sent(r, n)'
    <3>1. PICK n \in 0..Packets[r] : Sent(r, n)
      BY <1>0, <2>5 DEF Parts, PartsFollow
    <3>2. r = q => n = 0
      BY <2>4, <3>1 DEF Sent
    <3>3. \A i \in DOMAIN serverQueue :
              Is(serverQueue[i], "answer", r) =>
                  serverQueue[i].conn = conn /\ (~AnswerIsCurrent(r) => n = 0)
      BY <3>1 DEF Sent
    <3>4. \A i \in DOMAIN serverQueue' :
              Is(serverQueue'[i], "answer", r) =>
                  serverQueue'[i].conn = conn /\ (~AnswerIsCurrent(r) => n = 0)
      BY <2>2, <2>3, <3>2, <3>3
    <3>5. AnswerIsCurrent(r)' <=> AnswerIsCurrent(r)
      BY <2>1 DEF AnswerIsCurrent
    <3>6. Sent(r, n)'
      BY <1>0, <1>1, <2>1, <3>1, <3>4, <3>5 DEF Sent
    <3> QED
      BY <3>6
  <2>6. PartsFollow'
    BY <2>5 DEF PartsFollow
  <2>7. CompletedIsAlwaysWhole'
    BY <1>0 DEF Parts, CompletedIsAlwaysWhole, WholeFile
  <2> QED
    BY <2>6, <2>7 DEF Parts
<1>3. CASE ReceiveCancel
  <2>1. /\ IsCurrent(q) => current' = NoCurrent
        /\ ~IsCurrent(q) => current' = current
        /\ \A i \in DOMAIN serverQueue' :
               \/ \E j \in DOMAIN serverQueue : serverQueue'[i] = serverQueue[j]
               \/ serverQueue'[i] = Reply("cancelled", q)
        /\ IsCurrent(q) /\ Once(serverQueue, "answer", q) /\ running
               /\ serverQueue # << >> /\ Is(Head(serverQueue), "answer", q)
               => ~In(serverQueue', "answer", q)
        /\ \A x : In(serverQueue', "answer", x) => In(serverQueue, "answer", x)
    BY <1>3, CancelEffect DEF Base
  <2>2. /\ IsCurrent(q) <=> AnswerIsCurrent(q)
        /\ \A x : ~Is(NoCurrent, "answer", x) /\ ~Is(Reply("cancelled", q), "answer", x)
        /\ \A x : AnswerIsCurrent(x) /\ AnswerIsCurrent(q) => x = q
    BY DEF IsCurrent, AnswerIsCurrent, Is, NoCurrent, Reply
  <2>3. IsCurrent(q) => ~In(serverQueue', "answer", q)
    BY <1>0, <2>1, <2>2 DEF Base, Placed, AnswerIsQueued
  <2> HIDE DEF q
  <2>4. ASSUME NEW r \in Requests, live', waiting'[r].block
        PROVE  \E n \in 0..Packets[r] : Sent(r, n)'
    <3>1. PICK n \in 0..Packets[r] : Sent(r, n)
      BY <1>0, <2>4 DEF Parts, PartsFollow
    <3>2. \A i \in DOMAIN serverQueue' :
              Is(serverQueue'[i], "answer", r) =>
                  \E j \in DOMAIN serverQueue : serverQueue'[i] = serverQueue[j]
      BY <2>1, <2>2
    <3>3. CASE ~(IsCurrent(q) /\ r = q)
      <4>1. /\ AnswerIsCurrent(r)' <=> AnswerIsCurrent(r)
            /\ AnswerIsCurrent(r) => current' = current
        BY <2>1, <2>2, <3>3 DEF AnswerIsCurrent
      <4>2. OnTheWay(toClient', r, Len(waiting[r].parts), n)
        BY <1>0, <3>1 DEF Sent
      <4>3. Sent(r, n)'
        BY <1>0, <1>1, <3>1, <3>2, <4>1, <4>2, SentStays
      <4> QED
        BY <4>3
    <3>4. CASE IsCurrent(q) /\ r = q
      <4>1. /\ ~AnswerIsCurrent(r)'
            /\ \A i \in DOMAIN serverQueue' : ~Is(serverQueue'[i], "answer", r)
        BY <2>1, <2>2, <2>3, <3>4 DEF AnswerIsCurrent, In
      <4>2. Sent(r, n)'
        BY <1>0, <1>1, <3>1, <4>1 DEF Sent
      <4> QED
        BY <4>2
    <3> QED
      BY <3>3, <3>4
  <2>5. PartsFollow'
    BY <2>4 DEF PartsFollow
  <2>6. CompletedIsAlwaysWhole'
    BY <1>0 DEF Parts, CompletedIsAlwaysWhole, WholeFile
  <2> QED
    BY <2>5, <2>6 DEF Parts
<1> QED
  BY <1>2, <1>3

(* A packet of c is written: if c answers a request the client waits for,  *)
(* it is the packet after those sent.                                      *)
LEMMA PartsSend ==
    ASSUME Base, Parts, NEW c, NEW s, NEW busy, Sends(c, s, busy),
           NEW reported \in Nat, SendBody(c, s, busy, reported),
           UNCHANGED <<clientVars, toServer, conn, live, unnoticed>>
    PROVE  Parts'
<1> DEFINE p == [what |-> c.what, about |-> c.about, index |-> c.next,
                 count |-> Count(c)]
<1>0. /\ UNCHANGED <<waiting, completed, toServer, conn, live>>
      /\ toClient \in Seq(CellBodies) /\ serverQueue \in Seq(ServerMessages)
      /\ waiting \in [Requests -> ReceiveTasks]
      /\ \A x : ~Is(NoCurrent, "answer", x)
  BY DEF clientVars, Base, TypeOK, Is, NoCurrent
<1>1. /\ c \in Tasks /\ s \in Nat /\ busy \in BOOLEAN /\ TypeOK
      /\ \A x \in Requests :
             /\ Is(c, "answer", x) => \/ In(serverQueue, "answer", x)
                                     \/ AnswerIsCurrent(x)
             /\ Is(c, "answer", x) /\ In(serverQueue, "answer", x) =>
                    /\ busy /\ serverQueue # << >>
                    /\ Is(Head(serverQueue), "answer", x)
             /\ ~Is(c, "answer", x) /\ In(serverQueue, "answer", x) =>
                    ~AnswerIsCurrent(x)
  BY SendsTyped DEF Base
<1>2. /\ HasMore(c) /\ live /\ s = conn => toClient' = Append(toClient, p)
      /\ ~(HasMore(c) /\ live /\ s = conn) => toClient' = toClient
      /\ IsLastOf(c) => current' = NoCurrent
      /\ ~IsLastOf(c) => /\ serverQueue' = serverQueue
                         /\ current'.what = c.what /\ current'.about = c.about
                         /\ current'.next = c.next
                                + (IF HasMore(c) THEN 1 ELSE 0)
      /\ \A i \in DOMAIN serverQueue' :
             \E j \in DOMAIN serverQueue : serverQueue'[i] = serverQueue[j]
      /\ \A x : In(serverQueue', "answer", x) => In(serverQueue, "answer", x)
      /\ \A x : /\ Is(c, "answer", x) /\ IsLastOf(c) /\ busy /\ serverQueue # << >>
                /\ Is(Head(serverQueue), "answer", x)
                /\ Once(serverQueue, "answer", x)
                => ~In(serverQueue', "answer", x)
  BY <1>1, SendEffect
<1>3. HasMore(c) => p \in CellBodies
  <2>1. /\ c.what \in {"none", "answer", "cancelled", "remove"} /\ c.next \in Nat
        /\ c.what \in {"answer", "cancelled"} => c.about \in Requests
        /\ c.what = "remove" => c.about = NoRequest
    <3>1. CASE c \in SendTasks
      BY <3>1, Elements
    <3>2. CASE c \in {StartTask(m) : m \in ServerMessages}
      BY <3>2 DEF StartTask, LateTask, ServerMessages
    <3> QED
      BY <1>1, <3>1, <3>2 DEF Tasks
  <2>2. c.what # "none" => Count(c) \in Nat
    BY <2>1, Elements DEF Count
  <2> QED
    BY <2>1, <2>2 DEF CellBodies, HasMore
<1>4. \A x : AnswerIsCurrent(x)' <=> Is(c, "answer", x) /\ ~IsLastOf(c)
  BY <1>0, <1>2 DEF AnswerIsCurrent, Is
<1>5. \A x : /\ Is(p, "answer", x) <=> Is(c, "answer", x)
             /\ Is(c, "answer", x) => p.count = Packets[x] /\ p.index = c.next
  BY DEF Is, Count
<1> HIDE DEF p
<1>6. ASSUME NEW r \in Requests, live', waiting'[r].block
      PROVE  \E n \in 0..Packets[r] : Sent(r, n)'
  <2>1. PICK n \in 0..Packets[r] : Sent(r, n)
    BY <1>0, <1>6 DEF Parts, PartsFollow
  <2>2. Len(waiting[r].parts) \in Nat /\ n \in Nat /\ Packets[r] \in Nat
        /\ Len(waiting[r].parts) <= n
    <3>1. waiting[r].parts \in Seq(Nat) /\ Packets[r] \in Nat
      BY <1>0, Elements DEF ReceiveTasks
    <3> QED
      BY <2>1, <3>1, LenProperties DEF Sent
  <2>3. /\ OnTheWay(toClient, r, Len(waiting[r].parts), n)
        /\ AnswerIsCurrent(r) => current.next = n
        /\ In(toServer, "request", r) => n = 0
        /\ \A i \in DOMAIN serverQueue :
               Is(serverQueue[i], "answer", r) =>
                   serverQueue[i].conn = conn /\ (~AnswerIsCurrent(r) => n = 0)
        /\ \A k \in 1..Len(waiting[r].parts) : waiting[r].parts[k] = k - 1
    BY <2>1 DEF Sent
  <2>4. CASE ~Is(c, "answer", r)
    <3>1. OnTheWay(toClient', r, Len(waiting[r].parts), n)
      BY <1>0, <1>2, <1>3, <1>5, <2>2, <2>3, <2>4, WayAppend
    <3>2. ~AnswerIsCurrent(r)'
      BY <1>4, <2>4
    <3>3. \A i \in DOMAIN serverQueue' :
              Is(serverQueue'[i], "answer", r) =>
                  serverQueue'[i].conn = conn /\ n = 0
      <4>1. \A j \in DOMAIN serverQueue :
                Is(serverQueue[j], "answer", r) => ~AnswerIsCurrent(r)
        BY <1>1, <2>4 DEF In
      <4> QED
        BY <1>2, <2>3, <4>1
    <3>4. Sent(r, n)'
      BY <1>0, <2>2, <2>3, <3>1, <3>2, <3>3 DEF Sent
    <3> QED
      BY <3>4
  <2>5. CASE Is(c, "answer", r)
    <3>1. c.next = n /\ s = conn /\ live
      <4>1. CASE c = current /\ s = conn
        BY <1>0, <1>6, <2>3, <2>5, <4>1 DEF AnswerIsCurrent
      <4>2. CASE /\ serverQueue # << >> /\ ~running
                 /\ c = StartTask(Head(serverQueue)) /\ s = Head(serverQueue).conn
        <5>1. /\ 1 \in DOMAIN serverQueue /\ Head(serverQueue) = serverQueue[1]
          BY <1>0, <4>2, TakeFirst
        <5>2. Is(serverQueue[1], "answer", r) /\ c.next = 0
          BY <2>5, <4>2, <5>1 DEF StartTask, LateTask, Is
        <5>3. ~AnswerIsCurrent(r)
          BY <4>2, <5>1, <5>2 DEF Base, Placed, AnswerIsQueued, In
        <5> QED
          BY <1>0, <1>6, <2>3, <4>2, <5>1, <5>2, <5>3
      <4> QED
        BY <4>1, <4>2 DEF Sends
    <3>2. HasMore(c) <=> n < Packets[r]
      BY <2>5, <3>1 DEF HasMore, Is, Count
    <3>3. ~In(toServer', "request", r)
      BY <1>0, <1>1, <2>5 DEF Base, Placed, RequestIsOnTheWay
    <3>4. IsLastOf(c) => ~In(serverQueue', "answer", r)
      BY <1>1, <1>2, <2>5 DEF Base, Placed, AnswerIsQueued
    <3>5. \A i \in DOMAIN serverQueue' :
              Is(serverQueue'[i], "answer", r) =>
                  serverQueue'[i].conn = conn /\ AnswerIsCurrent(r)'
      BY <1>2, <1>4, <2>3, <2>5, <3>4 DEF In
    <3>6. CASE HasMore(c)
      <4>1. OnTheWay(toClient', r, Len(waiting[r].parts), n + 1)
        <5>1. toClient' = Append(toClient, p)
          BY <1>2, <3>1, <3>6
        <5>2. p \in CellBodies
          BY <1>3, <3>6
        <5>3. Is(p, "answer", r) /\ p.index = n /\ p.count = Packets[r]
          BY <1>5, <2>5, <3>1
        <5>4. toClient \in Seq(CellBodies)
          BY <1>1 DEF TypeOK
        <5>5. OnTheWay(Append(toClient, p), r, Len(waiting[r].parts), n + 1)
          BY <2>2, <2>3, <5>2, <5>3, <5>4, WayAppend
        <5> QED
          BY <5>1, <5>5
      <4>2. AnswerIsCurrent(r)' => current'.next = n + 1
        BY <1>2, <1>4, <3>1, <3>6
      <4>3. n + 1 \in 0..Packets[r] /\ Len(waiting[r].parts) <= n + 1
        BY <2>2, <3>2, <3>6
      <4>4. Sent(r, n + 1)'
        BY <1>0, <2>3, <3>3, <3>5, <4>1, <4>2, <4>3 DEF Sent
      <4> QED
        BY <4>3, <4>4
    <3>7. CASE ~HasMore(c)
      <4>1. OnTheWay(toClient', r, Len(waiting[r].parts), n)
        BY <1>2, <2>3, <3>7
      <4>2. AnswerIsCurrent(r)' => current'.next = n
        BY <1>2, <1>4, <2>2, <3>1, <3>7
      <4>3. Sent(r, n)'
        BY <1>0, <2>2, <2>3, <3>3, <3>5, <4>1, <4>2 DEF Sent
      <4> QED
        BY <4>3
    <3> QED
      BY <3>6, <3>7
  <2> QED
    BY <2>4, <2>5
<1>7. PartsFollow'
  BY <1>6 DEF PartsFollow
<1>8. CompletedIsAlwaysWhole'
  BY <1>0 DEF Parts, CompletedIsAlwaysWhole, WholeFile
<1> QED
  BY <1>7, <1>8 DEF Parts

(* Parts is inductive, given Base.                                         *)
LEMMA PartsStep == Base /\ Parts /\ [QuietNext]_vars => Parts'
<1> SUFFICES ASSUME Base, Parts, [QuietNext]_vars PROVE Parts'
  OBVIOUS
<1>1. CASE \/ \E r \in Requests : Request(r) \/ CancelRequest(r) \/ Timeout(r)
           \/ ReceiveName \/ RemoveClient \/ ClientDidDisconnect
           \/ ServerDidDisconnect \/ ReceiveRemove \/ Break \/ UNCHANGED vars
  BY <1>1, PartsOther
<1>2. CASE Transmit
  BY <1>2, PartsTransmit
<1>3. CASE ReceiveAnswer
  BY <1>3, PartsReceive
<1>4. CASE ReceiveCancelled
  BY <1>4, PartsReceiveCancelled
<1>5. CASE ReceiveRequest \/ ReceiveCancel
  BY <1>5, PartsServer
<1>6. CASE StartOperation \/ DidWrite
  BY <1>6, SendingSteps, PartsSend
<1>7. CASE Connect
  <2>1. /\ UNCHANGED <<waiting, completed>> /\ clientSide = "down"
    BY <1>7 DEF Connect
  <2>2. \A r \in Requests : ~waiting'[r].block
    BY <2>1 DEF Base, ConnectionIsKnown
  <2> QED
    BY <2>1, <2>2 DEF Parts, PartsFollow, CompletedIsAlwaysWhole, WholeFile
<1> QED
  BY <1>1, <1>2, <1>3, <1>4, <1>5, <1>6, <1>7 DEF QuietNext, ClientReceive,
     ServerReceive

(* Whatever is lost, cancelled, timed out or sent again, and however many  *)
(* connections there were, a completion block is given every part of its   *)
(* file, once and in order, until the main thread disturbs a block.  The   *)
(* code does not keep it from that.                                        *)
THEOREM OnlyWholeFilesComplete == Spec => []CompletedIsWhole
<1> DEFINE QuietParts == ~disturbed => Parts
<1>1. Init => QuietParts
  <2>1. Init => ~live /\ \A r \in Requests : completed[r] = << >>
    BY DEF Init
  <2> QED
    BY <2>1 DEF Parts, PartsFollow, CompletedIsAlwaysWhole
<1>2. QuietParts => CompletedIsWhole
  BY DEF Parts, CompletedIsWhole
<1>3. Base /\ QuietParts /\ [Next]_vars => QuietParts'
  BY QuietSteps, PartsStep
<1> HIDE DEF QuietParts
<1> QED
  BY <1>1, <1>2, <1>3, BaseInit, BaseStep, PTL DEF Spec

-----------------------------------------------------------------------------
(* What each step keeps.                                                   *)

(* A request to cancel is one the client made.                             *)
LEMMA CancelsAsked ==
    ASSUME Base, CancelIsOfCancelled, [QuietNext]_vars
    PROVE  CancelIsOfCancelled'
<1>0. clientQueue \in Seq(ClientMessages) /\ toServer \in Seq(ClientMessages)
  BY DEF Base, TypeOK
<1>1. CASE \E r \in Requests : Request(r)
  <2>1. PICK r \in Requests : Request(r)
    BY <1>1
  <2> DEFINE e == Message("request", r)
  <2>2. /\ clientQueue' = Append(clientQueue, e)
        /\ UNCHANGED <<cancelled, toServer>>
    BY <2>1 DEF Request, netVars
  <2>3. e \in ClientMessages /\ \A x : ~Is(e, "cancel", x)
    BY DEF Message, ClientMessages, Is
  <2> HIDE DEF e
  <2>4. \A x : In(clientQueue', "cancel", x) => In(clientQueue, "cancel", x)
    BY <1>0, <2>2, <2>3, InAppend
  <2> QED
    BY <2>2, <2>4 DEF CancelIsOfCancelled
<1>2. CASE \E r \in Requests : CancelRequest(r)
  <2>1. PICK r \in Requests : CancelRequest(r)
    BY <1>2
  <2> DEFINE e == Message("cancel", r)
  <2>2. /\ clientQueue' = Append(clientQueue, e)
        /\ cancelled' = cancelled \cup {r} /\ UNCHANGED toServer
    BY <2>1 DEF CancelRequest, netVars
  <2>3. e \in ClientMessages /\ \A x : Is(e, "cancel", x) => x = r
    BY DEF Message, ClientMessages, Is
  <2> HIDE DEF e
  <2>4. \A x : In(clientQueue', "cancel", x)
                   => In(clientQueue, "cancel", x) \/ x = r
    BY <1>0, <2>2, <2>3, InAppend
  <2> QED
    BY <2>2, <2>4 DEF CancelIsOfCancelled
<1>3. CASE Transmit
  <2> DEFINE m == Head(clientQueue)
  <2>1. /\ clientQueue # << >> /\ clientQueue' = Tail(clientQueue)
        /\ toServer' = IF live THEN Append(toServer, m) ELSE toServer
        /\ UNCHANGED cancelled
    BY <1>3 DEF Transmit
  <2>2. \A x : /\ In(clientQueue', "cancel", x) => In(clientQueue, "cancel", x)
               /\ Is(m, "cancel", x) => In(clientQueue, "cancel", x)
    BY <1>0, <2>1, InTail
  <2>3. m \in ClientMessages
    BY <1>0, <2>1, TakeFirst
  <2> HIDE DEF m
  <2>4. \A x : In(toServer', "cancel", x)
                   => In(toServer, "cancel", x) \/ Is(m, "cancel", x)
    BY <1>0, <2>1, <2>3, InAppend
  <2> QED
    BY <2>1, <2>2, <2>4 DEF CancelIsOfCancelled
<1>4. CASE ServerReceive
  <2>1. /\ toServer # << >> /\ toServer' = Tail(toServer)
        /\ UNCHANGED <<clientQueue, cancelled>>
    BY <1>4 DEF ServerReceive, ReceiveRequest, ReceiveName, ReceiveCancel,
       clientVars
  <2>2. \A x : In(toServer', "cancel", x) => In(toServer, "cancel", x)
    BY <1>0, <2>1, InTail
  <2> QED
    BY <2>1, <2>2 DEF CancelIsOfCancelled
<1>5. CASE ReceiveRemove \/ Break \/ ClientDidDisconnect
  <2>1. /\ clientQueue' = << >> \/ clientQueue' = clientQueue
        /\ toServer' = << >> \/ toServer' = toServer
        /\ UNCHANGED cancelled
    BY <1>5 DEF ReceiveRemove, Break, ClientDidDisconnect, LoseConnection,
       netVars
  <2> QED
    BY <2>1, InEmpty DEF CancelIsOfCancelled
<1>6. CASE Connect
  <2> DEFINE e == Message("name", NoRequest)
  <2>1. clientQueue' = Append(clientQueue, e) /\ UNCHANGED <<cancelled, toServer>>
    BY <1>6 DEF Connect
  <2>2. e \in ClientMessages /\ \A x : ~Is(e, "cancel", x)
    BY DEF Message, ClientMessages, Is
  <2> HIDE DEF e
  <2>3. \A x : In(clientQueue', "cancel", x) => In(clientQueue, "cancel", x)
    BY <1>0, <2>1, <2>2, InAppend
  <2> QED
    BY <2>1, <2>3 DEF CancelIsOfCancelled
<1>7. CASE \/ \E r \in Requests : Timeout(r)
           \/ ReceiveAnswer \/ ReceiveCancelled \/ StartOperation \/ DidWrite
           \/ RemoveClient \/ ServerDidDisconnect \/ UNCHANGED vars
  <2>1. UNCHANGED <<clientQueue, cancelled, toServer>>
    BY <1>7 DEF Timeout, ReceiveAnswer, ReceiveCancelled, StartOperation,
       DidWrite, RemoveClient, ServerDidDisconnect, vars, clientVars, netVars
  <2> QED
    BY <2>1 DEF CancelIsOfCancelled
<1> QED
  BY <1>1, <1>2, <1>3, <1>4, <1>5, <1>6, <1>7 DEF QuietNext, ClientReceive

(* The server learns of a loss before the next connection.                 *)
LEMMA LossStaysKnown ==
    ASSUME Base, LossIsKnown, "lateLoss" \notin Allowed, [QuietNext]_vars
    PROVE  LossIsKnown'
<1>1. CASE ReceiveRemove \/ Break
  BY <1>1 DEF ReceiveRemove, Break, LoseConnection, LossIsKnown
<1>2. CASE ServerDidDisconnect
  <2>1. ~live /\ UNCHANGED live
    BY <1>2 DEF ServerDidDisconnect, LossIsKnown, Base, TypeOK
  <2> QED
    BY <2>1 DEF LossIsKnown
<1>3. CASE Connect
  BY <1>3 DEF Connect, LossIsKnown, serverVars
<1>4. CASE \/ \E r \in Requests : Request(r) \/ CancelRequest(r) \/ Timeout(r)
           \/ Transmit \/ ReceiveAnswer \/ ReceiveCancelled \/ ServerReceive
           \/ StartOperation \/ DidWrite \/ RemoveClient \/ ClientDidDisconnect
           \/ UNCHANGED vars
  <2>1. UNCHANGED <<live, unnoticed>>
    BY <1>4 DEF Request, CancelRequest, Timeout, Transmit, ReceiveAnswer,
       ReceiveCancelled, ServerReceive, ReceiveRequest, ReceiveName,
       ReceiveCancel, StartOperation, DidWrite, RemoveClient,
       ClientDidDisconnect, vars, netVars, serverVars
  <2> QED
    BY <2>1 DEF LossIsKnown
<1> QED
  BY <1>1, <1>2, <1>3, <1>4 DEF QuietNext, ClientReceive

(* A step that leaves the answers on their way to the client alone, and    *)
(* finishes no operation of one it waits for.                              *)
LEMMA AnswerStillToCome ==
    ASSUME AnswerIsToCome, UNCHANGED toClient, live' => live,
           \A r \in Requests : live /\ waiting'[r].block =>
               /\ waiting[r].block
               /\ In(toServer, "request", r) =>
                      \/ In(toServer', "request", r)
                      \/ In(serverQueue', "answer", r)
               /\ In(serverQueue, "answer", r) => In(serverQueue', "answer", r)
    PROVE  AnswerIsToCome'
BY DEF AnswerIsToCome, LastIsOnTheWay

(* The client asks, cancels, or sees a timer run out; the server reads a   *)
(* name or sends the client away; nothing happens.                         *)
LEMMA WaitsOther ==
    ASSUME Base, AnswerIsToCome,
           \/ \E r \in Requests : Request(r) \/ CancelRequest(r) \/ Timeout(r)
           \/ ReceiveName \/ RemoveClient \/ ReceiveCancelled
           \/ UNCHANGED vars
    PROVE  AnswerIsToCome'
<1>0. /\ waiting \in [Requests -> ReceiveTasks]
      /\ toServer \in Seq(ClientMessages) /\ toClient \in Seq(CellBodies)
      /\ serverQueue \in Seq(ServerMessages)
  BY DEF Base, TypeOK
<1>1. CASE \/ \E r \in Requests : Request(r) \/ CancelRequest(r) \/ Timeout(r)
           \/ UNCHANGED vars
  <2>1. /\ UNCHANGED <<toServer, toClient, live, serverQueue>>
        /\ \A r \in Requests : waiting'[r].block => waiting[r].block
    BY <1>0, <1>1, EmptyTask, TaskChanges DEF Request, CancelRequest, Timeout,
       vars, clientVars, netVars, serverVars
  <2> QED
    BY <2>1, AnswerStillToCome
<1>2. CASE ReceiveName
  <2>1. /\ UNCHANGED <<waiting, toClient, live, serverQueue>>
        /\ toServer # << >> /\ toServer' = Tail(toServer)
        /\ Head(toServer).what = "name"
    BY <1>2 DEF ReceiveName, clientVars, serverVars
  <2>2. \A r : In(toServer, "request", r) => In(toServer', "request", r)
    BY <1>0, <2>1, InTail DEF Is
  <2> QED
    BY <2>1, <2>2, AnswerStillToCome
<1>3. CASE RemoveClient
  <2>1. /\ UNCHANGED <<waiting, toServer, toClient, live>>
        /\ serverQueue = << >>
    BY <1>3 DEF RemoveClient, clientVars, netVars
  <2> QED
    BY <2>1, InEmpty, AnswerStillToCome
<1>4. CASE ReceiveCancelled
  <2>1. /\ UNCHANGED <<toServer, live, serverQueue>>
        /\ toClient # << >> /\ toClient' = Tail(toClient)
        /\ Head(toClient).what = "cancelled"
    BY <1>4 DEF ReceiveCancelled, serverVars
  <2>2. \A r \in Requests : waiting'[r].block => waiting[r].block
    <3>1. waiting' = [waiting EXCEPT ![Head(toClient).about]
                                        = AfterCancel(Head(toClient).about)]
      BY <1>4 DEF ReceiveCancelled
    <3>2. \A r : AfterCancel(r) = NoTask \/ AfterCancel(r) = waiting[r]
      BY DEF AfterCancel
    <3> QED
      BY <1>0, <3>1, <3>2, EmptyTask
  <2>3. \A r : LastIsOnTheWay(r) => LastIsOnTheWay(r)'
    <3>1. \A i \in DOMAIN toClient : i # 1 => /\ i - 1 \in DOMAIN Tail(toClient)
                                             /\ Tail(toClient)[i - 1] = toClient[i]
      BY <1>0, <2>1, TakeFirst
    <3>2. \A r : ~Is(toClient[1], "answer", r)
      BY <1>0, <2>1, TakeFirst DEF Is
    <3> QED
      BY <2>1, <3>1, <3>2 DEF LastIsOnTheWay
  <2> QED
    BY <2>1, <2>2, <2>3 DEF AnswerIsToCome
<1> QED
  BY <1>1, <1>2, <1>3, <1>4

(* A request is written: it is on the way from then on.                    *)
LEMMA WaitsTransmit ==
    ASSUME Base, AnswerIsToCome, Transmit
    PROVE  AnswerIsToCome'
<1> DEFINE m == Head(clientQueue)
<1>0. /\ clientQueue \in Seq(ClientMessages) /\ clientQueue # << >>
      /\ toServer \in Seq(ClientMessages)
      /\ waiting \in [Requests -> ReceiveTasks] /\ m \in ClientMessages
  BY TakeFirst DEF Base, TypeOK, Transmit
<1>1. /\ toServer' = IF live THEN Append(toServer, m) ELSE toServer
      /\ waiting' = IF m.what = "request"
                    THEN [waiting EXCEPT ![m.about] = Expecting] ELSE waiting
      /\ UNCHANGED <<toClient, live, serverQueue>>
  BY DEF Transmit, serverVars
<1>2. \A r \in Requests : ~Is(m, "request", r) => waiting'[r] = waiting[r]
  BY <1>0, <1>1, Elements DEF Is
<1> HIDE DEF m
<1>3. \A r : live => /\ In(toServer, "request", r) => In(toServer', "request", r)
                     /\ Is(m, "request", r) => In(toServer', "request", r)
  BY <1>0, <1>1, InAppend
<1> QED
  BY <1>1, <1>2, <1>3 DEF AnswerIsToCome, LastIsOnTheWay

(* A packet of an answer arrives: the last one completes it.               *)
LEMMA WaitsReceive ==
    ASSUME Base, AnswerIsToCome, ReceiveAnswer
    PROVE  AnswerIsToCome'
<1> DEFINE p == Head(toClient)
<1>0. /\ toClient \in Seq(CellBodies) /\ toClient # << >>
      /\ UNCHANGED <<toServer, live, serverQueue>> /\ toClient' = Tail(toClient)
      /\ waiting \in [Requests -> ReceiveTasks]
  BY DEF Base, TypeOK, ReceiveAnswer, serverVars
<1>1. /\ p.about \in Requests
      /\ \A x \in Requests \ {p.about} : waiting'[x] = waiting[x]
      /\ IsLast(p) => waiting'[p.about] = NoTask
      /\ ~IsLast(p) => (waiting'[p.about].block => waiting[p.about].block)
  BY ReceiveEffect DEF Base
<1>2. /\ 1 \in DOMAIN toClient /\ p = toClient[1]
      /\ \A i \in DOMAIN toClient : i # 1 =>
             i - 1 \in DOMAIN toClient' /\ toClient'[i - 1] = toClient[i]
  BY <1>0, TakeFirst
<1> HIDE DEF p
<1>3. ASSUME NEW r \in Requests, live, waiting'[r].block
      PROVE  /\ waiting[r].block
             /\ LastIsOnTheWay(r) => LastIsOnTheWay(r)'
  <2>1. waiting[r].block
    BY <1>1, <1>3, EmptyTask
  <2>2. ~(Is(p, "answer", r) /\ IsLast(p))
    BY <1>1, <1>3, EmptyTask DEF Is
  <2> QED
    BY <1>2, <2>1, <2>2 DEF LastIsOnTheWay
<1> QED
  BY <1>0, <1>3 DEF AnswerIsToCome

(* Cancelling takes no operation off the server's queue but the answer to  *)
(* the request that is cancelled.                                          *)
LEMMA CancelKeepsOthers ==
    ASSUME TypeOK, ReceiveCancel, NEW r, r # Head(toServer).about,
           In(serverQueue, "answer", r)
    PROVE  In(serverQueue', "answer", r)
<1> DEFINE x == Head(toServer).about
           e == Reply("cancelled", x)
           q == IF IsCurrent(x) THEN Append(serverQueue, e) ELSE serverQueue
<1>1. /\ x \in Requests /\ serverQueue \in Seq(ServerMessages)
      /\ conn \in Nat
  BY TakeFirst, Elements DEF ReceiveCancel, TypeOK
<1>2. e \in ServerMessages
  BY <1>1 DEF Reply, ServerMessages
<1>3. /\ serverQueue \o <<e>> = Append(serverQueue, e)
      /\ serverQueue \o << >> = serverQueue
  BY <1>1, <1>2, AppendIsConcat, ConcatEmptySeq
<1>4. Finish(q, running, Reply("answer", x))
  BY <1>3 DEF ReceiveCancel
<1>5. q \in Seq(ServerMessages) /\ In(q, "answer", r)
  BY <1>1, <1>2, AddLast, InAppend
<1>6. \A m : Is(m, "answer", r) => ~(m.what = "answer" /\ m.about = x)
  BY DEF Is
<1> HIDE DEF q, e, x
<1>7. \/ serverQueue' = q
      \/ /\ serverQueue' = Tail(q) /\ q # << >>
         /\ Head(q).what = "answer" /\ Head(q).about = x
  BY <1>4 DEF Finish, Ends, Reply
<1>8. CASE serverQueue' = q
  BY <1>5, <1>8
<1>9. CASE /\ serverQueue' = Tail(q) /\ q # << >>
           /\ Head(q).what = "answer" /\ Head(q).about = x
  <2>1. ~Is(Head(q), "answer", r)
    BY <1>6, <1>9
  <2>2. In(q, "answer", r) => Is(Head(q), "answer", r) \/ In(Tail(q), "answer", r)
    BY <1>5, <1>9, InTail
  <2> QED
    BY <1>5, <1>9, <2>1, <2>2
<1> QED
  BY <1>7, <1>8, <1>9

(* The server reads a request, and has an operation for its answer; or one *)
(* to cancel it, after which nobody waits for it.                          *)
LEMMA WaitsServer ==
    ASSUME Base, WaitInv, ReceiveRequest \/ ReceiveCancel
    PROVE  AnswerIsToCome'
<1> DEFINE q == Head(toServer).about
<1>0. /\ toServer \in Seq(ClientMessages) /\ toServer # << >>
      /\ serverQueue \in Seq(ServerMessages) /\ q \in Requests
      /\ toServer' = Tail(toServer)
      /\ UNCHANGED <<waiting, toClient, live>>
  <2>1. toServer # << >> /\ Head(toServer).what # "name"
    BY DEF ReceiveRequest, ReceiveCancel
  <2> QED
    BY <2>1, TakeFirst, Elements DEF Base, TypeOK, ReceiveRequest, ReceiveCancel,
       clientVars
<1>1. \A r : /\ In(toServer, "request", r) =>
                    Is(Head(toServer), "request", r) \/ In(toServer', "request", r)
             /\ Is(Head(toServer), "cancel", r) => In(toServer, "cancel", r)
  BY <1>0, InTail
<1>2. CASE ReceiveRequest
  <2> DEFINE e == Reply("answer", q)
  <2>1. serverQueue' = Append(serverQueue, e)
    BY <1>2 DEF ReceiveRequest
  <2>2. e \in ServerMessages /\ Is(e, "answer", q)
    BY <1>0 DEF Reply, ServerMessages, Is, Base, TypeOK
  <2> HIDE DEF e
  <2>3. \A r : In(serverQueue, "answer", r) \/ r = q
                   => In(serverQueue', "answer", r)
    BY <1>0, <2>1, <2>2, InAppend
  <2>4. \A r : Is(Head(toServer), "request", r) => r = q
    BY DEF Is
  <2> QED
    BY <1>0, <1>1, <2>3, <2>4, AnswerStillToCome DEF WaitInv
<1>3. CASE ReceiveCancel
  <2>1. Is(Head(toServer), "cancel", q)
        /\ \A r : ~Is(Head(toServer), "request", r)
    BY <1>3 DEF ReceiveCancel, Is
  <2>2. ~waiting[q].block
    BY <1>0, <1>1, <2>1 DEF WaitInv, CancelIsOfCancelled, Base, Placed,
       CancelledExpectsNothing
  <2>3. \A r : r # q /\ In(serverQueue, "answer", r)
                   => In(serverQueue', "answer", r)
    BY <1>3, CancelKeepsOthers DEF Base
  <2> HIDE DEF q
  <2> QED
    BY <1>0, <1>1, <2>1, <2>2, <2>3, AnswerStillToCome DEF WaitInv
<1> QED
  BY <1>2, <1>3

(* A packet of c is written: the operation that ends is of c, and the      *)
(* packet is its last one.                                                 *)
LEMMA WaitsSend ==
    ASSUME Base, Parts, AnswerIsToCome,
           NEW c, NEW s, NEW busy, Sends(c, s, busy),
           NEW reported \in Nat, SendBody(c, s, busy, reported),
           UNCHANGED <<clientVars, toServer, conn, live, unnoticed>>
    PROVE  AnswerIsToCome'
<1> DEFINE p == [what |-> c.what, about |-> c.about, index |-> c.next,
                 count |-> Count(c)]
<1>0. /\ UNCHANGED <<waiting, toServer, conn, live>>
      /\ toClient \in Seq(CellBodies) /\ serverQueue \in Seq(ServerMessages)
  BY DEF clientVars, Base, TypeOK
<1>1. /\ c \in Tasks /\ s \in Nat /\ busy \in BOOLEAN /\ TypeOK
  BY SendsTyped DEF Base
<1>2. /\ HasMore(c) /\ live /\ s = conn => toClient' = Append(toClient, p)
      /\ ~(HasMore(c) /\ live /\ s = conn) => toClient' = toClient
      /\ serverQueue' # serverQueue =>
             /\ IsLastOf(c) /\ serverQueue # << >>
             /\ \A w, r : Is(Head(serverQueue), w, r) <=> Is(c, w, r)
  BY <1>1, SendEffect
<1>3. serverQueue' # serverQueue => serverQueue' = Tail(serverQueue)
  BY DEF SendBody, Finish
<1>4. p \in CellBodies \/ ~HasMore(c)
  <2>1. /\ c.what \in {"none", "answer", "cancelled", "remove"} /\ c.next \in Nat
        /\ c.what \in {"answer", "cancelled"} => c.about \in Requests
        /\ c.what = "remove" => c.about = NoRequest
    <3>1. CASE c \in SendTasks
      BY <3>1, Elements
    <3>2. CASE c \in {StartTask(m) : m \in ServerMessages}
      BY <3>2 DEF StartTask, LateTask, ServerMessages
    <3> QED
      BY <1>1, <3>1, <3>2 DEF Tasks
  <2>2. c.what # "none" => Count(c) \in Nat
    BY <2>1, Elements DEF Count
  <2> QED
    BY <2>1, <2>2 DEF CellBodies, HasMore
<1>5. IsLastOf(c) => IsLast(p) /\ HasMore(c)
  BY DEF IsLastOf, IsLast
<1>6. \A r : Is(p, "answer", r) <=> Is(c, "answer", r)
  BY DEF Is
<1> HIDE DEF p
<1>7. ASSUME NEW r \in Requests, live', waiting'[r].block
      PROVE  \/ In(toServer, "request", r)'
             \/ In(serverQueue, "answer", r)'
             \/ LastIsOnTheWay(r)'
  <2>1. \/ In(toServer, "request", r) \/ In(serverQueue, "answer", r)
        \/ LastIsOnTheWay(r)
    BY <1>0, <1>7 DEF AnswerIsToCome
  <2>2. LastIsOnTheWay(r) => LastIsOnTheWay(r)'
    <3>1. CASE toClient' = toClient
      BY <3>1 DEF LastIsOnTheWay
    <3>2. CASE toClient' = Append(toClient, p) /\ p \in CellBodies
      <4>1. \A i \in DOMAIN toClient : /\ i \in DOMAIN toClient'
                                       /\ toClient'[i] = toClient[i]
        BY <1>0, <3>2, AddLast
      <4> QED
        BY <4>1 DEF LastIsOnTheWay
    <3> QED
      BY <1>2, <1>4, <3>1, <3>2
  <2>3. CASE In(serverQueue, "answer", r) /\ serverQueue' # serverQueue
    <3>1. /\ serverQueue' = Tail(serverQueue) /\ serverQueue # << >>
          /\ IsLastOf(c)
          /\ Is(Head(serverQueue), "answer", r) <=> Is(c, "answer", r)
      BY <1>2, <1>3, <2>3
    <3>2. Is(Head(serverQueue), "answer", r) \/ In(Tail(serverQueue), "answer", r)
      BY <1>0, <2>3, <3>1, InTail
    <3>3. CASE Is(Head(serverQueue), "answer", r)
      <4>1. /\ 1 \in DOMAIN serverQueue /\ Head(serverQueue) = serverQueue[1]
        BY <1>0, <3>1, TakeFirst
      <4>2. Head(serverQueue).conn = conn
        BY <1>0, <1>7, <3>3, <4>1 DEF Parts, PartsFollow, Sent
      <4>3. s = conn
        BY <4>2 DEF Sends
      <4>4. /\ toClient' = Append(toClient, p) /\ p \in CellBodies
            /\ Is(p, "answer", r) /\ IsLast(p)
        BY <1>0, <1>2, <1>4, <1>5, <1>6, <1>7, <3>1, <3>3, <4>3
      <4>5. /\ Len(toClient) + 1 \in DOMAIN toClient'
            /\ toClient'[Len(toClient) + 1] = p
        BY <1>0, <4>4, AddLast
      <4> QED
        BY <4>4, <4>5 DEF LastIsOnTheWay
    <3> QED
      BY <3>1, <3>2, <3>3
  <2> QED
    BY <1>0, <2>1, <2>2, <2>3
<1> QED
  BY <1>7 DEF AnswerIsToCome

(* Nobody waits while there is no connection, and the server learns of the *)
(* loss of one before it has operations for the next.                      *)
LEMMA WaitsConnection ==
    ASSUME Base, WaitInv,
           \/ ReceiveRemove \/ Break \/ ClientDidDisconnect
           \/ ServerDidDisconnect \/ Connect
    PROVE  AnswerIsToCome'
<1>1. CASE ReceiveRemove \/ Break
  BY <1>1 DEF ReceiveRemove, Break, LoseConnection, AnswerIsToCome
<1>2. CASE ClientDidDisconnect
  BY <1>2, EmptyTask DEF ClientDidDisconnect, AfterLoss, AnswerIsToCome
<1>3. CASE ServerDidDisconnect
  <2>1. ~live /\ UNCHANGED live
    BY <1>3 DEF ServerDidDisconnect, WaitInv, LossIsKnown, Base, TypeOK
  <2> QED
    BY <2>1 DEF AnswerIsToCome
<1>4. CASE Connect
  <2>1. UNCHANGED waiting /\ clientSide = "down"
    BY <1>4 DEF Connect
  <2> QED
    BY <2>1 DEF Base, ConnectionIsKnown, AnswerIsToCome
<1> QED
  BY <1>1, <1>2, <1>3, <1>4

(* WaitInv is inductive, given Base and Parts.                             *)
LEMMA WaitsStep ==
    ASSUME "lateLoss" \notin Allowed
    PROVE  Base /\ Parts /\ WaitInv /\ [QuietNext]_vars => WaitInv'
<1> SUFFICES ASSUME Base, Parts, WaitInv, [QuietNext]_vars PROVE WaitInv'
  OBVIOUS
<1>1. CancelIsOfCancelled' /\ LossIsKnown'
  BY CancelsAsked, LossStaysKnown DEF WaitInv
<1>2. CASE \/ \E r \in Requests : Request(r) \/ CancelRequest(r) \/ Timeout(r)
           \/ ReceiveName \/ RemoveClient \/ ReceiveCancelled
           \/ UNCHANGED vars
  BY <1>1, <1>2, WaitsOther DEF WaitInv
<1>3. CASE Transmit
  BY <1>1, <1>3, WaitsTransmit DEF WaitInv
<1>4. CASE ReceiveAnswer
  BY <1>1, <1>4, WaitsReceive DEF WaitInv
<1>5. CASE ReceiveRequest \/ ReceiveCancel
  BY <1>1, <1>5, WaitsServer DEF WaitInv
<1>6. CASE StartOperation \/ DidWrite
  <2>1. AnswerIsToCome'
    BY <1>6, SendingSteps, WaitsSend DEF WaitInv
  <2> QED
    BY <1>1, <2>1 DEF WaitInv
<1>7. CASE \/ ReceiveRemove \/ Break \/ ClientDidDisconnect
           \/ ServerDidDisconnect \/ Connect
  BY <1>1, <1>7, WaitsConnection DEF WaitInv
<1> QED
  BY <1>2, <1>3, <1>4, <1>5, <1>6, <1>7 DEF QuietNext, ClientReceive,
     ServerReceive

(* What the invariant says of one request.                                 *)
LEMMA WaitsMeans == Base /\ Parts /\ WaitInv => WaitsForSomething
<1> SUFFICES ASSUME Base, Parts, WaitInv,
                    NEW r \in Requests, live, waiting[r].block
             PROVE  \/ \E i \in DOMAIN toServer : toServer[i] = Message("request", r)
                    \/ InServer(r)
                    \/ \E i \in DOMAIN toClient : /\ toClient[i].what = "answer"
                                                  /\ toClient[i].about = r
  BY DEF WaitsForSomething
<1>0. toServer \in Seq(ClientMessages) /\ serverQueue \in Seq(ServerMessages)
  BY DEF Base, TypeOK
<1>1. CASE In(toServer, "request", r)
  <2>1. PICK i \in DOMAIN toServer : Is(toServer[i], "request", r)
    BY <1>1 DEF In
  <2>2. toServer[i] \in ClientMessages
    BY <1>0, TakeFirst, EmptySeq
  <2>3. toServer[i] = Message("request", r)
    BY <2>1, <2>2 DEF Is, Message, ClientMessages
  <2> QED
    BY <2>3
<1>2. CASE In(serverQueue, "answer", r)
  <2>1. PICK i \in DOMAIN serverQueue : Is(serverQueue[i], "answer", r)
    BY <1>2 DEF In
  <2>2. serverQueue[i] \in ServerMessages
    BY <1>0, TakeFirst, EmptySeq
  <2>3. serverQueue[i].conn = conn
    BY <2>1 DEF Parts, PartsFollow, Sent
  <2>4. serverQueue[i] = Reply("answer", r)
    BY <2>1, <2>2, <2>3 DEF Is, Reply, ServerMessages
  <2> QED
    BY <2>4 DEF InServer
<1>3. CASE LastIsOnTheWay(r)
  BY <1>3 DEF LastIsOnTheWay, Is
<1> QED
  BY <1>1, <1>2, <1>3 DEF WaitInv, AnswerIsToCome

(* While the connection is up, a client that waits for an answer waits for *)
(* something that is on its way, if the server learns of the loss of a     *)
(* connection before it has the next and the main thread disturbed no      *)
(* block: no cancelling, timeout or loss of another connection takes away  *)
(* an answer somebody waits for.                                           *)
THEOREM ClientWaitsForSomething ==
    ASSUME "lateLoss" \notin Allowed
    PROVE  Spec => []WaitsForSomething
<1> DEFINE QuietWaits == ~disturbed => Parts /\ WaitInv
<1>1. Init => QuietWaits
  <2>1. Init => /\ ~live /\ toServer = << >> /\ clientQueue = << >>
                /\ \A r \in Requests : completed[r] = << >>
    BY DEF Init
  <2> QED
    BY <2>1, InEmpty DEF Parts, PartsFollow, CompletedIsAlwaysWhole, WaitInv,
       AnswerIsToCome, LossIsKnown, CancelIsOfCancelled
<1>2. Base /\ QuietWaits /\ [Next]_vars => QuietWaits'
  BY QuietSteps, PartsStep, WaitsStep
<1>3. Base /\ QuietWaits => WaitsForSomething
  BY WaitsMeans DEF WaitsForSomething
<1> HIDE DEF QuietWaits
<1> QED
  BY <1>1, <1>2, <1>3, BaseInit, BaseStep, PTL DEF Spec

-----------------------------------------------------------------------------
(* The client implements FileTransfer.                                     *)

(* A receive task for the answer to a cancelling is made when the client   *)
(* sends that it cancels, and no request is ever taken for cancelled anew. *)
LEMMA CancelWaitStep ==
    ASSUME Base, CancelIsOfCancelled, CancelWaitIsOfCancelled, [QuietNext]_vars
    PROVE  CancelWaitIsOfCancelled'
<1>0. /\ clientQueue \in Seq(ClientMessages)
      /\ cancelWait \in [Requests -> ReceiveTasks]
  BY DEF Base, TypeOK
<1>1. CASE Transmit
  <2> DEFINE m == Head(clientQueue)
  <2>1. /\ clientQueue # << >> /\ UNCHANGED cancelled
        /\ cancelWait' = IF m.what = "cancel"
                         THEN [cancelWait EXCEPT ![m.about] = Expecting]
                         ELSE cancelWait
    BY <1>1 DEF Transmit
  <2>2. \A x : Is(m, "cancel", x) => In(clientQueue, "cancel", x)
    BY <1>0, <2>1, InTail
  <2> HIDE DEF m
  <2>3. m.what = "cancel" /\ m.about \in Requests => m.about \in cancelled
    BY <2>2 DEF Is, CancelIsOfCancelled
  <2>4. \A x \in Requests : cancelWait'[x] = cancelWait[x]
                                \/ (m.what = "cancel" /\ m.about = x)
    BY <1>0, <2>1
  <2> QED
    BY <2>1, <2>3, <2>4 DEF CancelWaitIsOfCancelled
<1>2. CASE ReceiveCancelled \/ ClientDidDisconnect
  <2>1. /\ UNCHANGED cancelled
        /\ \A x \in Requests : cancelWait'[x] \in {cancelWait[x], NoTask}
    BY <1>0, <1>2 DEF ReceiveCancelled, ClientDidDisconnect, AfterLoss
  <2> QED
    BY <2>1, EmptyTask DEF CancelWaitIsOfCancelled
<1>3. CASE ~(Transmit \/ ReceiveCancelled \/ ClientDidDisconnect)
  <2>1. UNCHANGED cancelWait /\ cancelled \subseteq cancelled'
    BY <1>3 DEF QuietNext, Request, CancelRequest, Timeout, ClientReceive,
       ReceiveAnswer, ReceiveRemove, ServerReceive, ReceiveRequest, ReceiveName,
       ReceiveCancel, StartOperation, DidWrite, RemoveClient, Break,
       ServerDidDisconnect, Connect, clientVars, vars
  <2> QED
    BY <2>1 DEF CancelWaitIsOfCancelled
<1> QED
  BY <1>1, <1>2, <1>3

Kept == <<asked, Unsent, Awaited, PartsHeld, completed, cancelled>>

(* A step of neither the requests nor what is received of their answers.   *)
LEMMA TransferQuiet ==
    ASSUME UNCHANGED <<asked, completed, cancelled>>,
           \A x \in Requests :
               /\ In(clientQueue', "request", x) <=> In(clientQueue, "request", x)
               /\ waiting'[x].block <=> waiting[x].block
               /\ waiting[x].block => waiting'[x].parts = waiting[x].parts
    PROVE  UNCHANGED Kept
<1>1. Unsent' = Unsent
  BY DEF Unsent
<1>2. Awaited' = Awaited
  BY DEF Awaited
<1>3. PartsHeld' = PartsHeld
  BY DEF PartsHeld
<1> QED
  BY <1>1, <1>2, <1>3 DEF Kept

(* The app asks, cancels, or a timer runs out.                             *)
LEMMA TransferClient ==
    ASSUME Base, NEW r \in Requests,
           Request(r) \/ CancelRequest(r) \/ Timeout(r)
    PROVE  [Transfer!Proceed]_Kept
<1>0. /\ clientQueue \in Seq(ClientMessages)
      /\ waiting \in [Requests -> ReceiveTasks]
      /\ ~NoTask.block
  BY EmptyTask DEF Base, TypeOK
<1>1. CASE Request(r)
  <2> DEFINE e == Message("request", r)
  <2>1. /\ r \notin asked /\ asked' = asked \cup {r}
        /\ clientQueue' = Append(clientQueue, e)
        /\ UNCHANGED <<waiting, completed, cancelled>>
    BY <1>1 DEF Request
  <2>2. e \in ClientMessages /\ \A x : Is(e, "request", x) <=> x = r
    BY DEF Message, ClientMessages, Is
  <2> HIDE DEF e
  <2>3. \A x : In(clientQueue', "request", x)
                   <=> In(clientQueue, "request", x) \/ x = r
    BY <1>0, <2>1, <2>2, InAppend
  <2>4. Unsent' = Unsent \cup {r}
    BY <2>3 DEF Unsent
  <2>5. UNCHANGED <<Awaited, PartsHeld>>
    BY <2>1 DEF Awaited, PartsHeld
  <2>6. Transfer!Ask(r)
    BY <2>1, <2>4, <2>5 DEF Transfer!Ask
  <2> QED
    BY <2>6 DEF Transfer!Proceed
<1>2. CASE CancelRequest(r)
  <2> DEFINE e == Message("cancel", r)
  <2>1. /\ r \in asked \ cancelled /\ waiting[r].is
        /\ cancelled' = cancelled \cup {r}
        /\ waiting' = [waiting EXCEPT ![r] = NoTask]
        /\ clientQueue' = Append(clientQueue, e)
        /\ UNCHANGED <<asked, completed>>
    BY <1>2 DEF CancelRequest
  <2>2. e \in ClientMessages /\ \A x : ~Is(e, "request", x)
    BY DEF Message, ClientMessages, Is
  <2> HIDE DEF e
  <2>3. \A x : In(clientQueue', "request", x) <=> In(clientQueue, "request", x)
    BY <1>0, <2>1, <2>2, InAppend
  <2>4. Unsent' = Unsent
    BY <2>3 DEF Unsent
  <2>5. r \notin Unsent
    BY <2>1 DEF Unsent, Base, Placed, RequestIsUnsent, NotSent
  <2>6. Awaited' = Awaited \ {r}
    BY <1>0, <2>1 DEF Awaited
  <2>7. PartsHeld' = [PartsHeld EXCEPT ![r] = 0]
    BY <1>0, <2>1 DEF PartsHeld
  <2>8. Transfer!Cancel(r)
    BY <2>1, <2>4, <2>5, <2>6, <2>7 DEF Transfer!Cancel
  <2> QED
    BY <2>8 DEF Transfer!Proceed
<1>3. CASE Timeout(r)
  <2>1. /\ waiting' = [waiting EXCEPT ![r] = [waiting[r] EXCEPT !.late = TRUE]]
        /\ UNCHANGED <<asked, clientQueue, completed, cancelled>>
    BY <1>3 DEF Timeout
  <2>2. \A x \in Requests : /\ waiting'[x].block = waiting[x].block
                            /\ waiting'[x].parts = waiting[x].parts
    BY <1>0, <2>1, TaskChanges
  <2> QED
    BY <2>1, <2>2, TransferQuiet
<1> QED
  BY <1>1, <1>2, <1>3

(* The next message of the client is written: a request is expected from   *)
(* then on.                                                                *)
LEMMA TransferTransmit ==
    ASSUME Base, Transmit
    PROVE  [Transfer!Proceed]_Kept
<1> DEFINE m == Head(clientQueue)
           r == m.about
<1>0. /\ clientQueue \in Seq(ClientMessages) /\ clientQueue # << >>
      /\ waiting \in [Requests -> ReceiveTasks]
      /\ m \in ClientMessages
  BY TakeFirst DEF Base, TypeOK, Transmit
<1>1. /\ clientQueue' = Tail(clientQueue)
      /\ waiting' = IF m.what = "request"
                    THEN [waiting EXCEPT ![r] = Expecting] ELSE waiting
      /\ UNCHANGED <<asked, completed, cancelled>>
  BY DEF Transmit
<1>2. \A x : /\ In(clientQueue', "request", x) => In(clientQueue, "request", x)
             /\ In(clientQueue, "request", x)
                    => Is(m, "request", x) \/ In(clientQueue', "request", x)
             /\ Is(m, "request", x) => In(clientQueue, "request", x)
             /\ Once(clientQueue, "request", x) /\ Is(m, "request", x)
                    => ~In(clientQueue', "request", x)
  BY <1>0, <1>1, InTail
<1>3. m.what = "request" => r \in Requests /\ Is(m, "request", r)
  BY <1>0, Elements DEF Is
<1>4. \A x : Is(m, "request", x) => m.what = "request" /\ x = r
  BY DEF Is
<1>5. Expecting.is /\ Expecting.block /\ Len(Expecting.parts) = 0
  BY EmptySeq DEF Expecting, ReceiveTask
<1> HIDE DEF m, r
<1>6. CASE m.what = "request"
  <2>1. r \in Unsent /\ ~In(clientQueue', "request", r) /\ ~waiting[r].block
    BY <1>2, <1>3, <1>6
       DEF Unsent, Base, Placed, RequestIsUnsent, NotSent, ConnectionIsKnown
  <2>2. Unsent' = Unsent \ {r}
    BY <1>2, <1>4, <2>1 DEF Unsent
  <2>3. /\ waiting'[r] = Expecting
        /\ \A x \in Requests \ {r} : waiting'[x] = waiting[x]
    BY <1>0, <1>1, <1>3, <1>6
  <2>4. Awaited' = Awaited \cup {r}
    BY <1>3, <1>5, <1>6, <2>3 DEF Awaited
  <2>5. PartsHeld' = PartsHeld
    BY <1>5, <2>1, <2>3 DEF PartsHeld
  <2>6. Transfer!Send(r)
    BY <1>1, <2>1, <2>2, <2>4, <2>5 DEF Transfer!Send
  <2> QED
    BY <1>3, <1>6, <2>6 DEF Transfer!Proceed
<1>7. CASE m.what # "request"
  <2>1. waiting' = waiting
    BY <1>1, <1>7
  <2>2. \A x : In(clientQueue', "request", x) <=> In(clientQueue, "request", x)
    BY <1>2, <1>4, <1>7
  <2> QED
    BY <1>1, <2>1, <2>2, TransferQuiet
<1> QED
  BY <1>6, <1>7

(* A packet of an answer arrives: it is counted, or the completion block   *)
(* is called, or nobody expects it.                                        *)
LEMMA TransferReceive ==
    ASSUME Base, Parts, ReceiveAnswer
    PROVE  [Transfer!Proceed]_Kept
<1> DEFINE p == Head(toClient)
           q == p.about
<1>0. /\ toClient \in Seq(CellBodies) /\ toClient # << >>
      /\ waiting \in [Requests -> ReceiveTasks]
      /\ completed' \in [Requests -> Seq(Nat)]
      /\ completed \in [Requests -> Seq(Nat)]
      /\ UNCHANGED <<asked, clientQueue, cancelled>>
  <2>1. TypeOK'
    BY TypeStep DEF Base, Next, ClientReceive
  <2> QED
    BY <2>1 DEF Base, TypeOK, ReceiveAnswer
<1>1. /\ q \in Requests /\ p.index \in Nat /\ Is(p, "answer", q)
      /\ \A x \in Requests \ {q} : /\ waiting'[x] = waiting[x]
                                  /\ completed'[x] = completed[x]
      /\ IsLast(p) => waiting'[q] = NoTask
      /\ ~IsLast(p) =>
             /\ waiting'[q].block <=> waiting[q].is /\ waiting[q].block
             /\ waiting[q].is =>
                    waiting'[q].parts = Append(waiting[q].parts, p.index)
      /\ IsLast(p) /\ waiting[q].is /\ waiting[q].block =>
             completed'[q] = Append(waiting[q].parts, p.index)
      /\ ~(IsLast(p) /\ waiting[q].is /\ waiting[q].block) =>
             completed'[q] = completed[q]
  BY ReceiveEffect DEF Base
<1>2. live /\ (waiting[q].block => waiting[q].is)
  BY <1>0, <1>1 DEF Base, ConnectionIsKnown
<1>3. Unsent' = Unsent
  BY <1>0 DEF Unsent
<1> HIDE DEF q
<1>4. CASE ~waiting[q].block
  <2> HIDE DEF p
  <2>1. \A x \in Requests : /\ waiting'[x].block <=> waiting[x].block
                            /\ waiting[x].block => waiting'[x] = waiting[x]
    BY <1>1, <1>4, EmptyTask
  <2>2. completed' = completed
    BY <1>0, <1>1, <1>4
  <2> QED
    BY <1>0, <2>1, <2>2, TransferQuiet
<1>5. CASE waiting[q].block
  <2>1. PICK n \in 0..Packets[q] : Sent(q, n)
    BY <1>1, <1>2, <1>5 DEF Parts, PartsFollow
  <2>2. waiting[q].parts \in Seq(Nat) /\ Packets[q] \in Nat
    BY <1>0, <1>1, Elements DEF ReceiveTasks
  <2>3. Len(waiting[q].parts) \in Nat /\ n \in Nat
    BY <2>2, LenProperties
  <2>4. OnTheWay(toClient, q, Len(waiting[q].parts), n)
    BY <2>1 DEF Sent
  <2>5. /\ p.index = Len(waiting[q].parts) /\ p.index < n
        /\ p.count = Packets[q]
    BY <1>0, <1>1, <2>3, <2>4, WayTail
  <2>6. /\ Len(Append(waiting[q].parts, p.index)) = Len(waiting[q].parts) + 1
        /\ Append(waiting[q].parts, p.index) # << >>
    BY <1>1, <2>2, AppendProperties, AddLast
  <2> HIDE DEF p
  <2>7. q \in Awaited /\ PartsHeld[q] = p.index
    BY <1>1, <1>5, <2>5 DEF Awaited, PartsHeld
  <2>8. CASE IsLast(p)
    <3>1. p.index + 1 = Packets[q]
      BY <2>5, <2>8 DEF IsLast
    <3>2. completed'[q] = WholeFile(q)
      <4>1. Parts'
        BY PartsReceive
      <4>2. completed'[q] # << >>
        BY <1>1, <1>2, <1>5, <2>6, <2>8
      <4> QED
        BY <1>1, <4>1, <4>2 DEF Parts, CompletedIsAlwaysWhole, WholeFile
    <3>3. completed' = [completed EXCEPT ![q] = WholeFile(q)]
      BY <1>0, <1>1, <3>2
    <3>4. Awaited' = Awaited \ {q}
      BY <1>1, <2>8, EmptyTask DEF Awaited
    <3>5. PartsHeld' = [PartsHeld EXCEPT ![q] = 0]
      BY <1>1, <2>8, EmptyTask DEF PartsHeld
    <3>6. Transfer!Complete(q)
      BY <1>0, <1>3, <2>7, <3>1, <3>3, <3>4, <3>5
         DEF Transfer!Complete, WholeFile
    <3> QED
      BY <1>1, <3>6 DEF Transfer!Proceed
  <2>9. CASE ~IsLast(p)
    <3>1. p.index + 1 < Packets[q]
      BY <1>1, <2>2, <2>3, <2>5, <2>9 DEF IsLast
    <3>2. completed' = completed
      BY <1>0, <1>1, <2>9
    <3>3. /\ waiting'[q].block
          /\ Len(waiting'[q].parts) = PartsHeld[q] + 1
      BY <1>1, <1>2, <1>5, <2>5, <2>6, <2>7, <2>9
    <3>4. Awaited' = Awaited
      BY <1>1, <1>5, <3>3 DEF Awaited
    <3>5. PartsHeld' = [PartsHeld EXCEPT ![q] = PartsHeld[q] + 1]
      BY <1>1, <3>3 DEF PartsHeld
    <3>6. Transfer!Receive(q)
      BY <1>0, <1>3, <2>7, <3>1, <3>2, <3>4, <3>5 DEF Transfer!Receive
    <3> QED
      BY <1>1, <3>6 DEF Transfer!Proceed
  <2> QED
    BY <2>8, <2>9
<1> QED
  BY <1>4, <1>5

(* The other steps: the connection and the server.                         *)
LEMMA TransferOther ==
    ASSUME Base, CancelWaitIsOfCancelled,
           \/ ReceiveCancelled \/ ReceiveRemove \/ ServerReceive
           \/ StartOperation \/ DidWrite \/ RemoveClient \/ Break
           \/ ClientDidDisconnect \/ ServerDidDisconnect \/ Connect
           \/ UNCHANGED vars
    PROVE  [Transfer!Proceed]_Kept
<1>0. /\ clientQueue \in Seq(ClientMessages)
      /\ waiting \in [Requests -> ReceiveTasks]
      /\ ~NoTask.block
  BY EmptyTask DEF Base, TypeOK
<1>1. CASE ReceiveCancelled
  <2> DEFINE r == Head(toClient).about
  <2>1. /\ waiting' = [waiting EXCEPT ![r] = AfterCancel(r)]
        /\ UNCHANGED <<asked, clientQueue, completed, cancelled>>
    BY <1>1 DEF ReceiveCancelled
  <2> HIDE DEF r
  <2>2. r \in Requests /\ cancelWait[r].block => ~waiting[r].block
    BY DEF CancelWaitIsOfCancelled, Base, Placed, CancelledExpectsNothing
  <2>3. \A x \in Requests : /\ waiting'[x].block <=> waiting[x].block
                            /\ waiting[x].block => waiting'[x] = waiting[x]
    BY <1>0, <2>1, <2>2 DEF AfterCancel
  <2> QED
    BY <2>1, <2>3, TransferQuiet
<1>2. CASE ClientDidDisconnect
  <2>1. /\ clientQueue' = << >> /\ waiting' = [r \in Requests |-> NoTask]
        /\ UNCHANGED <<asked, completed, cancelled>>
    BY <1>2 DEF ClientDidDisconnect, AfterLoss
  <2>2. Unsent' = {}
    BY <2>1, InEmpty DEF Unsent
  <2>3. Awaited' = {} /\ PartsHeld' = [r \in Requests |-> 0]
    BY <1>0, <2>1 DEF Awaited, PartsHeld
  <2>4. Transfer!Lose
    BY <2>1, <2>2, <2>3 DEF Transfer!Lose
  <2> QED
    BY <2>4 DEF Transfer!Proceed
<1>3. CASE Connect
  <2> DEFINE e == Message("name", NoRequest)
  <2>1. /\ clientQueue' = Append(clientQueue, e)
        /\ UNCHANGED <<asked, waiting, completed, cancelled>>
    BY <1>3 DEF Connect
  <2>2. e \in ClientMessages /\ \A x : ~Is(e, "request", x)
    BY DEF Message, ClientMessages, Is
  <2> HIDE DEF e
  <2>3. \A x : In(clientQueue', "request", x) <=> In(clientQueue, "request", x)
    BY <1>0, <2>1, <2>2, InAppend
  <2> QED
    BY <2>1, <2>3, TransferQuiet
<1>4. CASE \/ ReceiveRemove \/ ServerReceive \/ StartOperation \/ DidWrite
           \/ RemoveClient \/ Break \/ ServerDidDisconnect \/ UNCHANGED vars
  <2>1. UNCHANGED <<asked, clientQueue, waiting, completed, cancelled>>
    BY <1>4 DEF ReceiveRemove, ServerReceive, ReceiveRequest, ReceiveName,
       ReceiveCancel, StartOperation, DidWrite, RemoveClient, Break,
       ServerDidDisconnect, clientVars, vars
  <2> QED
    BY <2>1, TransferQuiet
<1> QED
  BY <1>1, <1>2, <1>3, <1>4

(* The client and the server implement FileTransfer, for any number of     *)
(* requests and packets, with every fault, cancel and late notice of a     *)
(* loss: a completion block is called at most once, in the connection its  *)
(* request was sent on, when the last of all the packets came in, and      *)
(* never after a cancel, until the main thread disturbs a block.           *)
THEOREM LinkImplementsTransfer == Spec => DeliversFiles
<1> DEFINE Quiet == Parts /\ CancelIsOfCancelled /\ CancelWaitIsOfCancelled
           Inv   == Base /\ (~disturbed => Quiet)
<1>1. Init => Inv /\ Transfer!Init
  <2> SUFFICES ASSUME Init PROVE Inv /\ Transfer!Init
    OBVIOUS
  <2>1. /\ ~live /\ toServer = << >> /\ clientQueue = << >>
        /\ asked = {} /\ cancelled = {} /\ disturbed = FALSE
        /\ completed = [r \in Requests |-> << >>]
        /\ \A r \in Requests : waiting[r] = NoTask /\ cancelWait[r] = NoTask
    BY DEF Init
  <2>2. Inv
    BY <2>1, BaseInit, InEmpty, EmptyTask DEF Parts, PartsFollow,
       CompletedIsAlwaysWhole, CancelIsOfCancelled, CancelWaitIsOfCancelled
  <2>3. /\ Unsent = {} /\ Awaited = {}
        /\ PartsHeld = [r \in Requests |-> 0]
    BY <2>1, InEmpty, EmptyTask DEF Unsent, Awaited, PartsHeld
  <2> QED
    BY <2>1, <2>2, <2>3 DEF Transfer!Init
<1>2. Inv /\ [Next]_vars => Inv'
  <2>1. Base /\ Quiet /\ [QuietNext]_vars => Quiet'
    BY PartsStep, CancelsAsked, CancelWaitStep
  <2> HIDE DEF Quiet
  <2> QED
    BY <2>1, BaseStep, QuietSteps
<1>3. Base /\ Quiet /\ [QuietNext]_vars => [Transfer!Proceed]_Kept
  BY TransferClient, TransferTransmit, TransferReceive, TransferOther
     DEF QuietNext, ClientReceive
<1>4. Inv /\ [Next]_vars => [Transfer!Next]_(Transfer!transferVars)
  <2> SUFFICES ASSUME Inv, [Next]_vars
               PROVE  [Transfer!Next]_(Transfer!transferVars)
    OBVIOUS
  <2> HIDE DEF Quiet
  <2>1. CASE disturbed'
    <3>1. disturbed' = TRUE
      BY <1>2, <2>1 DEF Base, TypeOK
    <3> QED
      BY <3>1 DEF Transfer!Next
  <2>2. CASE ~disturbed'
    <3>1. /\ ~disturbed /\ disturbed' = disturbed
          /\ [Transfer!Proceed]_Kept
      BY <1>3, <2>2, QuietSteps
    <3>2. UNCHANGED Kept => UNCHANGED Transfer!transferVars
      BY <3>1 DEF Kept, Transfer!transferVars
    <3> QED
      BY <2>2, <3>1, <3>2 DEF Transfer!Next
  <2> QED
    BY <2>1, <2>2
<1> HIDE DEF Inv
<1> QED
  BY <1>1, <1>2, <1>4, PTL DEF Spec, DeliversFiles, Transfer!Spec
=============================================================================
