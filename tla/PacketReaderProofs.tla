------------------------- MODULE PacketReaderProofs -------------------------
(***************************************************************************)
(* What the framing of PacketReader promises, for every number of packets, *)
(* every size of them and every prefix: however TCP cuts the stream, the   *)
(* packets are handed over whole, once and in order, as long as the server *)
(* is not given a part of a packet and no connection is lost inside one.   *)
(***************************************************************************)
EXTENDS PacketReader, SequenceTheorems, TLAPS

-----------------------------------------------------------------------------
(* The inductive invariant.                                                *)

(* The condition: where a part of a packet reaches the server, or is left  *)
(* behind by a connection, packets are mixed up (StreamServer.cfg,         *)
(* StreamReconnect.cfg).                                                   *)
PacketsStayWhole == <<"server", "any">> \notin Setups /\ ~MidPacket

(* The packet to be delivered next.                                        *)
First == next - (Len(sent) - Len(delivered))

(* The bytes sent and not yet taken: those of the buffer, then those in    *)
(* the network.                                                            *)
Total == Len(buffer) + Len(flight)
At(i) == IF i <= Len(buffer) THEN buffer[i] ELSE flight[i - Len(buffer)]

(* They are the packets First..next-1, of which p comes after start[p]     *)
(* bytes; if chunks are whole, the buffer ends where one of them ends.     *)
LaidOut(start) ==
    /\ start \in [First..next -> Nat]
    /\ start[First] = 0 /\ start[next] = Total
    /\ \A p \in First..(next - 1) :
          /\ start[p + 1] = start[p] + Size[p]
          /\ \A k \in 1..Size[p] : At(start[p] + k) = <<p, k>>
    /\ \A p, q \in First..next : p < q => start[p] + Size[p] <= start[q]
    /\ \A i \in 1..Total : \E p \in First..(next - 1) :
          start[p] < i /\ i <= start[p + 1]
    /\ chunks = "whole" => \E q \in First..next : Len(buffer) = start[q]

(* Packets are sent by their numbers, and delivered as they were sent.     *)
InOrder ==
    /\ Len(sent) < next
    /\ \A i \in 1..Len(sent) : sent[i] = next - 1 - Len(sent) + i
    /\ Len(delivered) <= Len(sent)
    /\ \A i \in 1..Len(delivered) : delivered[i] = sent[i]

(* A connection that is down holds nothing, and leaves nothing behind.     *)
DownIsEmpty == ~up => flight = << >> /\ buffer = << >> /\ ~parsing

(* Between two reads the buffer holds less than a packet.                  *)
LessThanOne ==
    up /\ ~parsing => buffer = << >> \/ (First < next /\ Len(buffer) < Size[First])

ServerIsGivenWhole == role = "server" => chunks = "whole"

ReaderInv ==
    /\ TypeOK
    /\ ServerIsGivenWhole
    /\ InOrder
    /\ DownIsEmpty
    /\ LessThanOne
    /\ up => \E start : LaidOut(start)

-----------------------------------------------------------------------------
(* Sequences.                                                              *)

(* One sequence is the beginning of another if its elements are.           *)
LEMMA PrefixByElements ==
    ASSUME NEW S, NEW s \in Seq(S), NEW t \in Seq(S),
           Len(s) <= Len(t), \A i \in 1..Len(s) : s[i] = t[i]
    PROVE  IsPrefix(s, t)
<1>1. Len(s) \in Nat /\ Len(t) \in Nat
  BY LenProperties
<1>2. \A i \in 1..Len(s) : s[i] \in S /\ t[i] \in S
  BY <1>1, ElementOfSeq
<1> DEFINE u == SubSeq(t, 1, Len(s))
<1>3. /\ u \in Seq(S) /\ Len(u) = Len(s)
      /\ \A i \in 1..Len(s) : u[i] = t[i]
  <2>1. /\ u \in Seq(S)
        /\ Len(u) = IF 1 <= Len(s) THEN Len(s) - 1 + 1 ELSE 0
        /\ \A i \in 1..(Len(s) - 1 + 1) : u[i] = t[1 + i - 1]
    BY <1>1, <1>2, SubSeqProperties
  <2> HIDE DEF u
  <2> QED
    BY <1>1, <2>1
<1>4. u = s
  <2> HIDE DEF u
  <2> QED
    BY <1>3, SeqEqual
<1>5. SubSeq(s, 1, Len(s)) = s
  BY SubSeqFull
<1> QED
  BY <1>4, <1>5 DEF IsPrefix

(* The first n elements of a sequence, and those after them.               *)
LEMMA SplitSeq ==
    ASSUME NEW S, NEW s \in Seq(S), NEW n \in 0..Len(s)
    PROVE  /\ SubSeq(s, 1, n) \in Seq(S) /\ Len(SubSeq(s, 1, n)) = n
           /\ \A i \in 1..n : SubSeq(s, 1, n)[i] = s[i]
           /\ SubSeq(s, n + 1, Len(s)) \in Seq(S)
           /\ Len(SubSeq(s, n + 1, Len(s))) = Len(s) - n
           /\ \A i \in 1..(Len(s) - n) : SubSeq(s, n + 1, Len(s))[i] = s[n + i]
<1>1. Len(s) \in Nat
  BY LenProperties
<1>2. \A i \in 1..Len(s) : s[i] \in S
  BY ElementOfSeq
<1>3. /\ SubSeq(s, 1, n) \in Seq(S)
      /\ Len(SubSeq(s, 1, n)) = IF 1 <= n THEN n - 1 + 1 ELSE 0
      /\ \A i \in 1..(n - 1 + 1) : SubSeq(s, 1, n)[i] = s[1 + i - 1]
  BY <1>1, <1>2, SubSeqProperties
<1>4. /\ SubSeq(s, n + 1, Len(s)) \in Seq(S)
      /\ Len(SubSeq(s, n + 1, Len(s))) = IF n + 1 <= Len(s)
                                         THEN Len(s) - (n + 1) + 1 ELSE 0
      /\ \A i \in 1..(Len(s) - (n + 1) + 1) :
            SubSeq(s, n + 1, Len(s))[i] = s[(n + 1) + i - 1]
  BY <1>1, <1>2, SubSeqProperties
<1> QED
  BY <1>1, <1>3, <1>4

-----------------------------------------------------------------------------
(* Bytes and packets.                                                      *)

(* A byte is of a packet and at one of its places.                         *)
LEMMA ByteParts ==
    \A p, k : <<p, k>> \in Bytes <=> p \in Packets /\ k \in 1..Size[p]
BY DEF Bytes

(* The bytes of a packet, as a sequence.                                   *)
LEMMA BytesOfPacket ==
    ASSUME NEW p \in Packets
    PROVE  /\ BytesOf(p) \in Seq(Bytes) /\ Len(BytesOf(p)) = Size[p]
           /\ \A k \in 1..Size[p] : BytesOf(p)[k] = <<p, k>>
           /\ Size[p] \in Nat /\ Size[p] > Prefix
<1>1. Size[p] \in Nat /\ Size[p] > Prefix
  BY ReaderAssumption
<1>2. \A k \in 1..Size[p] : <<p, k>> \in Bytes
  BY DEF Bytes
<1>3. BytesOf(p) \in [1..Size[p] -> Bytes]
  BY <1>2 DEF BytesOf
<1>4. BytesOf(p) \in Seq(Bytes)
  BY <1>1, <1>3, SeqDef
<1>5. Len(BytesOf(p)) = Size[p]
  BY <1>1, <1>3, <1>4
<1> QED
  BY <1>1, <1>4, <1>5 DEF BytesOf

(* What bytes are taken for is nothing, a packet, or corrupt.              *)
LEMMA HandledType ==
    ASSUME NEW bytes \in Seq(Bytes)
    PROVE  Handled(bytes) \in Seq(Packets \cup {Corrupt})
<1>1. Prefix \in Nat \ {0} /\ Len(bytes) \in Nat
  BY ReaderAssumption
<1>2. CASE Len(bytes) < Prefix
  BY <1>2 DEF Handled
<1>3. CASE Len(bytes) >= Prefix
  <2>1. bytes[1] \in Bytes
    BY <1>1, <1>3, ElementOfSeq
  <2>2. bytes[1][1] \in Packets
    BY <2>1 DEF Bytes
  <2>3. Handled(bytes) \in {<< >>, <<bytes[1][1]>>, <<Corrupt>>}
    BY DEF Handled
  <2>4. << >> \in Seq(Packets \cup {Corrupt})
    BY EmptySeq
  <2>5. <<bytes[1][1]>> \in Seq(Packets \cup {Corrupt})
    BY <2>2
  <2>6. <<Corrupt>> \in Seq(Packets \cup {Corrupt})
    OBVIOUS
  <2> QED
    BY <2>3, <2>4, <2>5, <2>6
<1> QED
  BY <1>1, <1>2, <1>3

(* The lengths the reader may read are natural.                            *)
LEMMA LengthsType ==
    ASSUME TypeOK, NEW n \in Lengths
    PROVE  n \in Nat /\ Len(buffer) >= Prefix
<1>1. LengthAt \in 1..Prefix /\ Prefix \in Nat /\ Misread \subseteq Nat
  BY ReaderAssumption
<1>2. Len(buffer) \in Nat /\ Len(buffer) >= Prefix
  BY <1>1 DEF TypeOK, Lengths
<1>3. buffer[LengthAt] \in Bytes
  BY <1>1, <1>2, ElementOfSeq DEF TypeOK
<1>4. Size[buffer[LengthAt][1]] \in Nat
  BY <1>3, ReaderAssumption DEF Bytes
<1>5. n \in {Size[buffer[LengthAt][1]]} \/ n \in Misread
  BY <1>2, <1>1 DEF Lengths
<1> QED
  BY <1>1, <1>2, <1>4, <1>5

-----------------------------------------------------------------------------
(* Types.                                                                  *)

(* The first state.                                                        *)
LEMMA TypeInit == Init => TypeOK
<1> SUFFICES ASSUME Init PROVE TypeOK
  OBVIOUS
<1>1. role \in Roles /\ chunks \in Chunks
  <2>1. PICK s \in Setups : role = s[1] /\ chunks = s[2]
    BY DEF Init
  <2>2. s \in Roles \X Chunks
    BY ReaderAssumption
  <2> QED
    BY <2>1, <2>2
<1>2. 1 \in 1..(LastPacket + 1) /\ 0 \in 0..MaxLosses
  BY ReaderAssumption
<1>3. /\ << >> \in Seq(Packets) /\ << >> \in Seq(Bytes)
      /\ << >> \in Seq(Packets \cup {Corrupt})
  BY EmptySeq
<1> QED
  BY <1>1, <1>2, <1>3 DEF Init, TypeOK

(* Reading: bytes are moved from the network to the buffer ...             *)
LEMMA TypeDidRead ==
    ASSUME TypeOK, DidRead
    PROVE  TypeOK'
<1>1. PICK n \in Cuts : /\ buffer' = buffer \o SubSeq(flight, 1, n)
                        /\ flight' = SubSeq(flight, n + 1, Len(flight))
  BY DEF DidRead
<1>2. n \in 0..Len(flight) /\ flight \in Seq(Bytes) /\ buffer \in Seq(Bytes)
  BY DEF Cuts, PacketEnds, TypeOK
<1>3. SubSeq(flight, 1, n) \in Seq(Bytes) /\ flight' \in Seq(Bytes)
  BY <1>1, <1>2, SplitSeq
<1>4. buffer' \in Seq(Bytes)
  BY <1>1, <1>2, <1>3, ConcatProperties
<1> QED
  BY <1>3, <1>4 DEF DidRead, TypeOK, setup

(* ... and taken from it.                                                  *)
LEMMA TypeTakePacket ==
    ASSUME TypeOK, TakePacket
    PROVE  TypeOK'
<1>1. PICK n \in Lengths :
          /\ n <= Len(buffer)
          /\ delivered' = delivered \o Handled(SubSeq(buffer, 1, n))
          /\ buffer' = After(n)
  BY DEF TakePacket
<1>2. buffer \in Seq(Bytes) /\ delivered \in Seq(Packets \cup {Corrupt})
  BY DEF TypeOK
<1>3. n \in 0..Len(buffer)
  BY <1>1, <1>2, LengthsType
<1>4. SubSeq(buffer, 1, n) \in Seq(Bytes) /\ buffer' \in Seq(Bytes)
  BY <1>1, <1>2, <1>3, SplitSeq DEF After
<1>5. delivered' \in Seq(Packets \cup {Corrupt})
  BY <1>1, <1>2, <1>4, HandledType, ConcatProperties
<1> QED
  BY <1>4, <1>5 DEF TakePacket, TypeOK, setup

(* The type invariant is inductive.                                        *)
LEMMA TypeStep == TypeOK /\ [Next]_vars => TypeOK'
<1> SUFFICES ASSUME TypeOK, [Next]_vars PROVE TypeOK'
  OBVIOUS
<1>1. CASE UNCHANGED vars
  BY <1>1 DEF vars, setup, TypeOK
<1>2. CASE SendPacket
  <2>1. next \in Packets /\ next + 1 \in 1..(LastPacket + 1)
    BY <1>2, ReaderAssumption DEF SendPacket, TypeOK, Packets
  <2>2. flight' \in Seq(Bytes)
    BY <1>2, <2>1, BytesOfPacket, ConcatProperties DEF SendPacket, TypeOK
  <2>3. sent' \in Seq(Packets)
    BY <1>2, <2>1, AppendProperties DEF SendPacket, TypeOK
  <2> QED
    BY <1>2, <2>1, <2>2, <2>3 DEF SendPacket, TypeOK, setup
<1>3. CASE ReturnFromRead
  <2>1. buffer' \in Seq(Bytes)
    BY <1>3 DEF ReturnFromRead, Rest, TypeOK
  <2> QED
    BY <1>3, <2>1 DEF ReturnFromRead, TypeOK, setup
<1>4. CASE DidDisconnect
  <2>1. buffer' \in Seq(Bytes) /\ flight' \in Seq(Bytes)
    BY <1>4 DEF DidDisconnect, TypeOK
  <2>2. losses' \in 0..MaxLosses
    BY <1>4, ReaderAssumption DEF DidDisconnect, TypeOK
  <2> QED
    BY <1>4, <2>1, <2>2 DEF DidDisconnect, TypeOK, setup
<1>5. CASE DidConnect
  BY <1>5 DEF DidConnect, TypeOK, setup
<1> QED
  BY <1>1, <1>2, <1>3, <1>4, <1>5, TypeDidRead, TypeTakePacket
  DEF Next, ReadLoop

(* Whatever TCP cuts, the reader misreads or a connection loses, every     *)
(* variable keeps its type: what is handed over is a packet or corrupt.    *)
THEOREM ReaderTypeCorrect == Spec => []TypeOK
BY TypeInit, TypeStep, PTL DEF Spec

-----------------------------------------------------------------------------
(* What is to be delivered, and the bytes it is in.                        *)

(* The next packet to be delivered is the first that was not.              *)
LEMMA FirstIsNext ==
    ASSUME TypeOK, InOrder
    PROVE  /\ First \in 1..next /\ next \in Nat /\ next <= LastPacket + 1
           /\ Len(sent) \in Nat /\ Len(delivered) \in Nat
           /\ Len(delivered) < Len(sent) <=> First < next
           /\ First < next => /\ sent[Len(delivered) + 1] = First
                              /\ First \in Packets
           /\ First..(next - 1) \subseteq Packets
<1>1. /\ Len(sent) \in Nat /\ Len(delivered) \in Nat
      /\ next \in 1..(LastPacket + 1) /\ LastPacket \in Nat
  BY LenProperties, ReaderAssumption DEF TypeOK
<1>2. Len(delivered) < Len(sent)
          => sent[Len(delivered) + 1] = next - 1 - Len(sent) + (Len(delivered) + 1)
  BY <1>1 DEF InOrder
<1> QED
  BY <1>1, <1>2 DEF InOrder, First, Packets

(* Every byte that is to be read is one that was sent.                     *)
LEMMA BytesAhead ==
    ASSUME TypeOK
    PROVE  /\ Len(buffer) \in Nat /\ Len(flight) \in Nat /\ Total \in Nat
           /\ \A i \in 1..Len(buffer) : At(i) = buffer[i]
           /\ \A i \in 1..Len(flight) : At(Len(buffer) + i) = flight[i]
           /\ \A i \in 1..Total : At(i) \in Bytes
<1>1. Len(buffer) \in Nat /\ Len(flight) \in Nat
  BY LenProperties DEF TypeOK
<1>2. \A i \in 1..Len(buffer) : buffer[i] \in Bytes
  BY ElementOfSeq DEF TypeOK
<1>3. \A i \in 1..Len(flight) : flight[i] \in Bytes
  BY ElementOfSeq DEF TypeOK
<1> QED
  BY <1>1, <1>2, <1>3 DEF Total, At

(* What the layout says of the first packet: its bytes come first.         *)
LEMMA FirstIsInFront ==
    ASSUME TypeOK, InOrder, NEW start, LaidOut(start), Total > 0
    PROVE  /\ First < next /\ First \in Packets /\ Size[First] \in Nat
           /\ Size[First] > Prefix /\ Size[First] <= Total
           /\ start[First + 1] = Size[First]
           /\ \A k \in 1..Size[First] : At(k) = <<First, k>>
<1>1. /\ First \in 1..next /\ next \in Nat /\ First..(next - 1) \subseteq Packets
  BY FirstIsNext
<1>2. start[First] = 0 /\ start[next] = Total
  BY DEF LaidOut
<1>3. First < next
  BY <1>1, <1>2
<1>4. First \in Packets /\ First \in First..(next - 1)
  BY <1>1, <1>3
<1>5. Size[First] \in Nat /\ Size[First] > Prefix
  BY <1>4, BytesOfPacket
<1>6. /\ start[First + 1] = start[First] + Size[First]
      /\ \A k \in 1..Size[First] : At(start[First] + k) = <<First, k>>
  BY <1>4 DEF LaidOut
<1>7. start[First] + Size[First] <= start[next]
  BY <1>1, <1>3 DEF LaidOut
<1> QED
  BY <1>2, <1>3, <1>4, <1>5, <1>6, <1>7

(* Once there are bytes for a prefix, the length read is that of the next  *)
(* packet.                                                                 *)
LEMMA ReadLength ==
    ASSUME TypeOK, InOrder, NEW start, LaidOut(start), Len(buffer) >= Prefix
    PROVE  /\ Lengths = {Size[First]} /\ Total > 0
<1>1. Prefix \in Nat \ {0} /\ LengthAt \in 1..Prefix
  BY ReaderAssumption
<1>2. Len(buffer) \in Nat /\ Len(flight) \in Nat /\ Total > 0
  BY <1>1, BytesAhead DEF Total
<1>3. At(LengthAt) = <<First, LengthAt>>
  <2>1. /\ Size[First] \in Nat /\ Size[First] > Prefix
        /\ \A k \in 1..Size[First] : At(k) = <<First, k>>
    BY <1>2, FirstIsInFront
  <2>2. LengthAt \in 1..Size[First]
    BY <1>1, <2>1
  <2> QED
    BY <2>1, <2>2
<1>4. buffer[LengthAt] = <<First, LengthAt>>
  <2>1. LengthAt \in 1..Len(buffer)
    BY <1>1, <1>2
  <2> QED
    BY <1>3, <2>1, BytesAhead
<1> QED
  BY <1>1, <1>2, <1>4 DEF Lengths

(* What is taken from the buffer is the next packet, and nothing else.     *)
LEMMA TakenIsFirst ==
    ASSUME TypeOK, InOrder, NEW start, LaidOut(start), TakePacket
    PROVE  /\ Size[First] <= Len(buffer) /\ Total > 0
           /\ delivered' = Append(delivered, First)
           /\ buffer' = SubSeq(buffer, Size[First] + 1, Len(buffer))
<1>1. PICK n \in Lengths :
          /\ n <= Len(buffer)
          /\ delivered' = delivered \o Handled(SubSeq(buffer, 1, n))
          /\ buffer' = After(n)
  BY DEF TakePacket
<1>2. Len(buffer) >= Prefix
  BY <1>1, LengthsType
<1>3. n = Size[First] /\ Total > 0
  BY <1>1, <1>2, ReadLength
<1>4. /\ First \in Packets /\ Size[First] \in Nat /\ Size[First] > Prefix
      /\ \A k \in 1..Size[First] : At(k) = <<First, k>>
  BY <1>3, FirstIsInFront
<1> DEFINE bytes == SubSeq(buffer, 1, n)
<1>5. /\ bytes \in Seq(Bytes) /\ Len(bytes) = n
      /\ \A k \in 1..n : bytes[k] = buffer[k]
  <2>1. buffer \in Seq(Bytes) /\ n \in 0..Len(buffer)
    BY <1>1, <1>3, <1>4, BytesAhead DEF TypeOK
  <2> QED
    BY <2>1, SplitSeq
<1>6. \A k \in 1..n : bytes[k] = BytesOf(First)[k]
  <2>1. \A k \in 1..n : buffer[k] = At(k)
    BY <1>1, <1>3, <1>4, BytesAhead
  <2> QED
    BY <1>3, <1>4, <1>5, <2>1, BytesOfPacket
<1>7. bytes = BytesOf(First)
  <2>1. BytesOf(First) \in Seq(Bytes) /\ Len(BytesOf(First)) = n
    BY <1>3, <1>4, BytesOfPacket
  <2> HIDE DEF bytes
  <2> QED
    BY <1>5, <1>6, <2>1, SeqEqual
<1>8. Handled(bytes) = <<First>>
  <2>1. bytes[1][1] = First
    <3>1. 1 \in 1..n /\ Prefix \in Nat \ {0}
      BY <1>3, <1>4, ReaderAssumption
    <3> HIDE DEF bytes
    <3>2. bytes[1] = <<First, 1>>
      BY <1>3, <1>4, <1>6, <3>1, BytesOfPacket
    <3> QED
      BY <3>2
  <2>2. ~(Len(bytes) < Prefix)
    <3> HIDE DEF bytes
    <3> QED
      BY <1>3, <1>4, <1>5, ReaderAssumption
  <2> HIDE DEF bytes
  <2> QED
    BY <1>7, <2>1, <2>2 DEF Handled
<1>9. delivered' = delivered \o <<First>>
  BY <1>1, <1>8
<1>10. delivered' = Append(delivered, First)
  BY <1>4, <1>9, AppendIsConcat DEF TypeOK
<1> QED
  BY <1>1, <1>3, <1>10 DEF After

-----------------------------------------------------------------------------
(* The steps.                                                              *)

(* A packet that is sent comes after all the others.                       *)
LEMMA SentComesLast ==
    ASSUME ReaderInv, SendPacket
    PROVE  ReaderInv'
<1>0. /\ TypeOK /\ InOrder /\ TypeOK' /\ next <= LastPacket /\ up
      /\ next' = next + 1 /\ sent' = Append(sent, next)
      /\ flight' = flight \o BytesOf(next)
      /\ role' = role /\ chunks' = chunks /\ buffer' = buffer
      /\ parsing' = parsing /\ delivered' = delivered /\ up' = up
  BY TypeStep DEF ReaderInv, SendPacket, Next, setup
<1>1. /\ First \in 1..next /\ next \in Nat /\ Len(sent) \in Nat
      /\ Len(delivered) \in Nat /\ next \in Packets /\ LastPacket \in Nat
  BY <1>0, FirstIsNext, ReaderAssumption DEF Packets, TypeOK
<1>2. /\ Size[next] \in Nat /\ Size[next] > Prefix /\ Prefix \in Nat
      /\ BytesOf(next) \in Seq(Bytes) /\ Len(BytesOf(next)) = Size[next]
      /\ \A k \in 1..Size[next] : BytesOf(next)[k] = <<next, k>>
  BY <1>1, BytesOfPacket, ReaderAssumption
<1>3. /\ Len(sent') = Len(sent) + 1 /\ sent'[Len(sent) + 1] = next
      /\ \A i \in 1..Len(sent) : sent'[i] = sent[i]
  BY <1>0, <1>1, AppendProperties DEF TypeOK
<1>4. InOrder'
  <2>1. \A i \in 1..(Len(sent) + 1) :
            sent'[i] = next + 1 - 1 - (Len(sent) + 1) + i
    <3>1. \A i \in 1..Len(sent) : sent[i] = next - 1 - Len(sent) + i
      BY <1>0 DEF InOrder
    <3> QED
      BY <1>1, <1>3, <3>1
  <2>2. \A i \in 1..Len(delivered) : delivered[i] = sent'[i]
    BY <1>0, <1>1, <1>3 DEF InOrder
  <2> QED
    BY <1>0, <1>1, <1>3, <2>1, <2>2 DEF InOrder
<1>5. First' = First
  BY <1>0, <1>1, <1>3 DEF First
<1>6. /\ Len(buffer) \in Nat /\ Len(flight) \in Nat /\ Total \in Nat
      /\ Len(flight') = Len(flight) + Size[next] /\ Total' = Total + Size[next]
      /\ \A i \in 1..Len(flight) : flight'[i] = flight[i]
      /\ \A k \in 1..Size[next] : flight'[Len(flight) + k] = <<next, k>>
  <2>1. flight \in Seq(Bytes) /\ Len(flight) \in Nat /\ Len(buffer) \in Nat
    BY <1>0, BytesAhead DEF TypeOK
  <2>2. /\ Len(flight') = Len(flight) + Size[next]
        /\ \A i \in 1..(Len(flight) + Size[next]) :
              flight'[i] = IF i <= Len(flight) THEN flight[i]
                           ELSE BytesOf(next)[i - Len(flight)]
    <3>1. /\ Len(flight \o BytesOf(next)) = Len(flight) + Len(BytesOf(next))
          /\ \A i \in 1..(Len(flight) + Len(BytesOf(next))) :
                (flight \o BytesOf(next))[i] =
                    IF i <= Len(flight) THEN flight[i]
                    ELSE BytesOf(next)[i - Len(flight)]
      BY <1>2, <2>1, ConcatProperties
    <3> QED
      BY <1>0, <1>2, <3>1
  <2>3. ASSUME NEW i \in 1..Len(flight) PROVE flight'[i] = flight[i]
    <3>1. i \in 1..(Len(flight) + Size[next]) /\ i <= Len(flight)
      BY <1>2, <2>1
    <3> QED
      BY <2>2, <3>1
  <2>4. ASSUME NEW k \in 1..Size[next]
        PROVE  flight'[Len(flight) + k] = <<next, k>>
    <3>0. Size[next] \in Nat /\ Len(flight) \in Nat
      BY <1>2, <2>1
    <3>1. PICK i \in 1..(Len(flight) + Size[next]) : i = Len(flight) + k
      BY <3>0
    <3>2. ~(i <= Len(flight)) /\ i - Len(flight) = k
      BY <3>0, <3>1
    <3> QED
      BY <1>2, <2>2, <3>1, <3>2
  <2>5. Total \in Nat /\ Total' = Total + Size[next]
    BY <1>0, <1>2, <2>1, <2>2 DEF Total
  <2> QED
    BY <2>1, <2>2, <2>3, <2>4, <2>5
<1>7. /\ \A i \in 1..Total : At(i)' = At(i)
      /\ \A k \in 1..Size[next], i \in Nat : i = Total + k => At(i)' = <<next, k>>
  <2>1. \A i \in 1..Total : At(i)' = At(i)
    BY <1>0, <1>6 DEF At, Total
  <2>2. ASSUME NEW k \in 1..Size[next], NEW i \in Nat, i = Total + k
        PROVE  At(i)' = <<next, k>>
    <3>1. ~(i <= Len(buffer)) /\ i - Len(buffer) = Len(flight) + k
      BY <1>2, <1>6, <2>2 DEF Total
    <3>2. At(i)' = flight'[i - Len(buffer)]
      BY <1>0, <3>1 DEF At
    <3> QED
      BY <1>6, <3>1, <3>2
  <2> QED
    BY <2>1, <2>2
<1>8. PICK start : LaidOut(start)
  BY <1>0 DEF ReaderInv
<1>9. PICK s2 : s2 = [p \in First..(next + 1) |->
                         IF p = next + 1 THEN Total + Size[next] ELSE start[p]]
  OBVIOUS
<1>10. LaidOut(s2)'
  <2>1. /\ s2 \in [First..(next + 1) -> Nat] /\ s2[First] = 0
        /\ s2[next + 1] = Total'
    <3>1. start \in [First..next -> Nat] /\ start[First] = 0
      BY <1>8 DEF LaidOut
    <3>2. Total + Size[next] \in Nat
      BY <1>2, <1>6
    <3>3. \A p \in First..(next + 1) : p # next + 1 => p \in First..next
      BY <1>1
    <3> QED
      BY <1>1, <1>6, <1>9, <3>1, <3>2, <3>3
  <2>2. \A p \in First..next : s2[p] = start[p] /\ start[p] \in Nat
    BY <1>1, <1>8, <1>9 DEF LaidOut
  <2>3. s2[next + 1] = Total + Size[next] /\ start[next] = Total
    BY <1>1, <1>8, <1>9 DEF LaidOut
  <2>4. \A p, q \in First..next : p < q => start[p] + Size[p] <= start[q]
    BY <1>8 DEF LaidOut
  <2>5. \A p \in First..next : s2[p + 1] = s2[p] + Size[p]
    <3>1. \A p \in First..(next - 1) : start[p + 1] = start[p] + Size[p]
      BY <1>8 DEF LaidOut
    <3> QED
      BY <1>1, <2>2, <2>3, <3>1
  <2>6. \A p \in First..next : \A k \in 1..Size[p] : At(s2[p] + k)' = <<p, k>>
    <3> SUFFICES ASSUME NEW p \in First..next, NEW k \in 1..Size[p]
                 PROVE  At(s2[p] + k)' = <<p, k>>
      OBVIOUS
    <3>1. CASE p = next
      <4>0. s2[p] = Total /\ k \in Nat /\ Total \in Nat
        BY <1>2, <1>6, <2>2, <2>3, <3>1
      <4>1. Total + k \in Nat /\ s2[p] + k = Total + k
        BY <4>0
      <4> QED
        BY <1>7, <3>1, <4>1
    <3>2. CASE p < next
      <4>1. p \in Packets /\ Size[p] \in Nat
        BY <1>0, <1>1, <3>2, BytesOfPacket DEF Packets
      <4>2. start[p] + Size[p] <= Total
        BY <1>1, <2>3, <2>4, <3>2
      <4>3. At(start[p] + k) = <<p, k>>
        BY <1>1, <1>8, <3>2 DEF LaidOut
      <4> QED
        BY <1>6, <1>7, <2>2, <4>1, <4>2, <4>3
    <3> QED
      BY <1>1, <3>1, <3>2
  <2>7. \A p, q \in First..(next + 1) : p < q => s2[p] + Size[p] <= s2[q]
    <3> SUFFICES ASSUME NEW p \in First..(next + 1), NEW q \in First..(next + 1),
                        p < q
                 PROVE  s2[p] + Size[p] <= s2[q]
      OBVIOUS
    <3>1. p \in First..next /\ Size[p] \in Nat
      <4>1. p \in First..next /\ p \in Packets
        BY <1>0, <1>1 DEF Packets
      <4> QED
        BY <4>1, BytesOfPacket
    <3>2. CASE q # next + 1
      BY <1>1, <2>2, <2>4, <3>1, <3>2
    <3>3. CASE q = next + 1
      <4>1. p = next \/ start[p] + Size[p] <= Total
        BY <1>1, <2>3, <2>4, <3>1
      <4>2. CASE p = next
        BY <1>2, <1>6, <2>2, <2>3, <3>1, <3>3, <4>2
      <4>3. CASE p # next
        <5>1. s2[p] + Size[p] <= Total /\ s2[q] = Total + Size[next]
          BY <2>2, <2>3, <3>1, <3>3, <4>1, <4>3
        <5>2. s2[p] + Size[p] \in Nat
          BY <2>2, <3>1
        <5> QED
          BY <1>2, <1>6, <5>1, <5>2
      <4> QED
        BY <4>2, <4>3
    <3> QED
      BY <3>2, <3>3
  <2>8. \A i \in 1..Total' : \E p \in First..next : s2[p] < i /\ i <= s2[p + 1]
    <3> SUFFICES ASSUME NEW i \in 1..Total'
                 PROVE  \E p \in First..next : s2[p] < i /\ i <= s2[p + 1]
      OBVIOUS
    <3>1. CASE i <= Total
      <4>1. PICK p \in First..(next - 1) : start[p] < i /\ i <= start[p + 1]
        BY <1>6, <1>8, <3>1 DEF LaidOut
      <4> QED
        BY <1>1, <2>2, <4>1
    <3>2. CASE i > Total
      <4>1. next \in First..next /\ s2[next] = Total
        BY <1>1, <2>2, <2>3
      <4>2. s2[next] < i /\ i <= s2[next + 1]
        BY <1>6, <2>3, <3>2, <4>1
      <4> QED
        BY <4>1, <4>2
    <3> QED
      BY <1>6, <3>1, <3>2
  <2>9. chunks' = "whole" => \E q \in First..(next + 1) : Len(buffer') = s2[q]
    <3>1. chunks = "whole" => \E q \in First..next : Len(buffer) = start[q]
      BY <1>8 DEF LaidOut
    <3>2. \A q \in First..next : q \in First..(next + 1)
      BY <1>1
    <3> QED
      BY <1>0, <2>2, <3>1, <3>2
  <2>10. /\ First' = First /\ next' = next + 1 /\ next' - 1 = next
    BY <1>0, <1>1, <1>5
  <2>11. s2[next'] = Total' /\ s2 \in [First'..next' -> Nat] /\ s2[First'] = 0
    BY <2>1, <2>10
  <2>12. \A p \in First'..(next' - 1) :
            /\ s2[p + 1] = s2[p] + Size[p]
            /\ \A k \in 1..Size[p] : At(s2[p] + k)' = <<p, k>>
    BY <2>5, <2>6, <2>10
  <2>13. \A p, q \in First'..next' : p < q => s2[p] + Size[p] <= s2[q]
    BY <2>7, <2>10
  <2>14. \A i \in 1..Total' : \E p \in First'..(next' - 1) :
            s2[p] < i /\ i <= s2[p + 1]
    BY <2>8, <2>10
  <2>15. chunks' = "whole" => \E q \in First'..next' : Len(buffer') = s2[q]
    BY <2>9, <2>10
  <2> QED
    BY <2>11, <2>12, <2>13, <2>14, <2>15 DEF LaidOut
<1>11. LessThanOne'
  BY <1>0, <1>1, <1>5 DEF ReaderInv, LessThanOne
<1> QED
  BY <1>0, <1>4, <1>10, <1>11
  DEF ReaderInv, ServerIsGivenWhole, DownIsEmpty, setup

(* Reading moves bytes from the network to the buffer and none elsewhere;  *)
(* of whole chunks the last byte is the last of a packet.                  *)
LEMMA ReadKeepsBytes ==
    ASSUME ReaderInv, DidRead
    PROVE  ReaderInv'
<1>0. /\ TypeOK /\ InOrder /\ TypeOK' /\ up /\ parsing' = TRUE
      /\ role' = role /\ chunks' = chunks /\ next' = next /\ sent' = sent
      /\ delivered' = delivered /\ up' = up
  BY TypeStep DEF ReaderInv, DidRead, Next, setup
<1>1. PICK n \in Cuts : /\ buffer' = buffer \o SubSeq(flight, 1, n)
                        /\ flight' = SubSeq(flight, n + 1, Len(flight))
  BY DEF DidRead
<1>2. /\ First \in 1..next /\ next \in Nat
      /\ Len(buffer) \in Nat /\ Len(flight) \in Nat
      /\ n \in 1..Len(flight)
  BY <1>0, <1>1, FirstIsNext, BytesAhead DEF Cuts, PacketEnds
<1>3. /\ Len(SubSeq(flight, 1, n)) = n /\ SubSeq(flight, 1, n) \in Seq(Bytes)
      /\ \A i \in 1..n : SubSeq(flight, 1, n)[i] = flight[i]
      /\ Len(flight') = Len(flight) - n
      /\ \A i \in 1..(Len(flight) - n) : flight'[i] = flight[n + i]
  <2>1. n \in 0..Len(flight) /\ flight \in Seq(Bytes)
    BY <1>0, <1>2 DEF TypeOK
  <2> QED
    BY <1>1, <2>1, SplitSeq
<1>4. /\ Len(buffer') = Len(buffer) + n
      /\ \A i \in 1..Len(buffer) : buffer'[i] = buffer[i]
      /\ \A i \in 1..n : buffer'[Len(buffer) + i] = flight[i]
  <2>1. /\ Len(buffer') = Len(buffer) + n
        /\ \A i \in 1..(Len(buffer) + n) :
              buffer'[i] = IF i <= Len(buffer) THEN buffer[i]
                           ELSE SubSeq(flight, 1, n)[i - Len(buffer)]
    <3> DEFINE u == SubSeq(flight, 1, n)
    <3>1. buffer \in Seq(Bytes) /\ u \in Seq(Bytes) /\ Len(u) = n
      BY <1>0, <1>3 DEF TypeOK
    <3> HIDE DEF u
    <3>2. /\ Len(buffer \o u) = Len(buffer) + Len(u)
          /\ \A i \in 1..(Len(buffer) + Len(u)) :
                (buffer \o u)[i] = IF i <= Len(buffer) THEN buffer[i]
                                   ELSE u[i - Len(buffer)]
      BY <3>1, ConcatProperties
    <3>3. buffer' = buffer \o u
      BY <1>1 DEF u
    <3> QED
      BY <3>1, <3>2, <3>3 DEF u
  <2>2. \A i \in 1..n : /\ Len(buffer) + i \in 1..(Len(buffer) + n)
                        /\ ~(Len(buffer) + i <= Len(buffer))
                        /\ Len(buffer) + i - Len(buffer) = i
    BY <1>2
  <2>3. \A i \in 1..n : buffer'[Len(buffer) + i] = SubSeq(flight, 1, n)[i]
    <3> SUFFICES ASSUME NEW i \in 1..n
                 PROVE  buffer'[Len(buffer) + i] = SubSeq(flight, 1, n)[i]
      OBVIOUS
    <3>1. PICK j \in 1..(Len(buffer) + n) : j = Len(buffer) + i
      BY <2>2
    <3>2. ~(j <= Len(buffer)) /\ j - Len(buffer) = i
      BY <2>2, <3>1
    <3>3. buffer'[j] = SubSeq(flight, 1, n)[j - Len(buffer)]
      BY <2>1, <3>2
    <3> QED
      BY <3>1, <3>2, <3>3
  <2> QED
    BY <1>2, <1>3, <2>1, <2>3
<1>5. First' = First /\ Total' = Total
  BY <1>0, <1>2, <1>3, <1>4 DEF First, Total
<1>6. \A i \in 1..Total : At(i)' = At(i)
  <2> SUFFICES ASSUME NEW i \in 1..Total PROVE At(i)' = At(i)
    OBVIOUS
  <2>1. CASE i <= Len(buffer)
    BY <1>2, <1>4, <2>1 DEF At
  <2>2. CASE i > Len(buffer) /\ i <= Len(buffer) + n
    <3>1. i - Len(buffer) \in 1..n /\ i = Len(buffer) + (i - Len(buffer))
      BY <1>2, <2>2
    <3>2. buffer'[i] = flight[i - Len(buffer)]
      BY <1>4, <3>1
    <3> QED
      BY <1>2, <1>4, <2>2, <3>2 DEF At
  <2>3. CASE i > Len(buffer) + n
    <3>1. /\ i - Len(buffer) - n \in 1..(Len(flight) - n)
          /\ n + (i - Len(buffer) - n) = i - Len(buffer)
          /\ i - (Len(buffer) + n) = i - Len(buffer) - n
      BY <1>2, <2>3 DEF Total
    <3>2. flight'[i - (Len(buffer) + n)] = flight[i - Len(buffer)]
      BY <1>3, <3>1
    <3> QED
      BY <1>2, <1>4, <2>3, <3>2 DEF At
  <2> QED
    BY <1>2, <2>1, <2>2, <2>3
<1>7. PICK start : LaidOut(start)
  BY <1>0 DEF ReaderInv
<1>8. chunks = "whole" => \E q \in First..next : Len(buffer') = start[q]
  <2> SUFFICES ASSUME chunks = "whole"
               PROVE  \E q \in First..next : Len(buffer') = start[q]
    OBVIOUS
  <2>1. start[next] = Total
    BY <1>7 DEF LaidOut
  <2>2. CASE n = Len(flight)
    BY <1>2, <1>4, <2>1, <2>2 DEF Total
  <2>3. CASE n < Len(flight)
    <3>1. flight[n + 1][2] = 1
      BY <1>1, <2>3 DEF Cuts, PacketEnds
    <3>0. PICK i \in Nat : i = Len(buffer) + n + 1
      BY <1>2
    <3>2. i \in 1..Total /\ i > Len(buffer) /\ i - Len(buffer) = n + 1
      BY <1>2, <2>3, <3>0 DEF Total
    <3>3. At(i)[2] = 1
      BY <1>2, <3>1, <3>2 DEF At
    <3>4. PICK p \in First..(next - 1) : start[p] < i /\ i <= start[p + 1]
      BY <1>7, <3>2 DEF LaidOut
    <3>5. /\ start[p] \in Nat /\ start[p + 1] = start[p] + Size[p]
          /\ \A k \in 1..Size[p] : At(start[p] + k) = <<p, k>>
      BY <1>2, <1>7 DEF LaidOut
    <3>6. Size[p] \in Nat
      BY <1>0, FirstIsNext, BytesOfPacket
    <3>7. i - start[p] \in 1..Size[p] /\ start[p] + (i - start[p]) = i
      BY <3>2, <3>4, <3>5, <3>6
    <3>8. At(i) = <<p, i - start[p]>>
      BY <3>5, <3>7
    <3>9. i - start[p] = 1
      BY <3>3, <3>8
    <3>10. Len(buffer') = start[p]
      <4>1. start[p] \in Nat /\ Len(buffer') = Len(buffer) + n
        BY <1>4, <3>5
      <4> QED
        BY <1>2, <3>0, <3>9, <4>1
    <3> QED
      BY <1>2, <3>10
  <2> QED
    BY <1>2, <2>2, <2>3
<1>9. LaidOut(start)'
  <2>1. \A p \in First..(next - 1) : \A k \in 1..Size[p] :
            At(start[p] + k)' = <<p, k>>
    <3> SUFFICES ASSUME NEW p \in First..(next - 1), NEW k \in 1..Size[p]
                 PROVE  At(start[p] + k)' = <<p, k>>
      OBVIOUS
    <3>1. /\ start[p] \in Nat /\ start[next] = Total
          /\ start[p] + Size[p] <= start[next]
          /\ At(start[p] + k) = <<p, k>>
      BY <1>2, <1>7 DEF LaidOut
    <3>2. Size[p] \in Nat /\ Total \in Nat
      BY <1>0, FirstIsNext, BytesOfPacket, BytesAhead
    <3>3. start[p] + k \in 1..Total
      BY <3>1, <3>2
    <3> QED
      BY <1>6, <3>1, <3>3
  <2> QED
    BY <1>0, <1>5, <1>7, <1>8, <2>1 DEF LaidOut
<1>10. InOrder'
  BY <1>0 DEF InOrder
<1> QED
  BY <1>0, <1>9, <1>10
  DEF ReaderInv, ServerIsGivenWhole, DownIsEmpty, LessThanOne

(* Taking a packet leaves the bytes of those after it.                     *)
LEMMA TakingKeepsOrder ==
    ASSUME ReaderInv, TakePacket
    PROVE  ReaderInv'
<1>0. /\ TypeOK /\ InOrder /\ TypeOK' /\ parsing /\ up
      /\ role' = role /\ chunks' = chunks /\ next' = next /\ sent' = sent
      /\ parsing' = parsing /\ up' = up /\ flight' = flight
  BY TypeStep DEF ReaderInv, TakePacket, Next, ReadLoop, setup, DownIsEmpty
<1>1. PICK start : LaidOut(start)
  BY <1>0 DEF ReaderInv
<1>2. /\ Size[First] <= Len(buffer) /\ Total > 0
      /\ delivered' = Append(delivered, First)
      /\ buffer' = SubSeq(buffer, Size[First] + 1, Len(buffer))
  BY <1>0, <1>1, TakenIsFirst
<1>3. PICK n \in Nat : n = Size[First]
  BY <1>0, <1>1, <1>2, FirstIsInFront
<1>4. /\ First \in 1..next /\ next \in Nat /\ First < next /\ First \in Packets
      /\ Len(sent) \in Nat /\ Len(delivered) \in Nat
      /\ Len(delivered) < Len(sent) /\ sent[Len(delivered) + 1] = First
      /\ n > 0 /\ start[First + 1] = n
  BY <1>0, <1>1, <1>2, <1>3, FirstIsNext, FirstIsInFront, ReaderAssumption
<1>5. /\ Len(buffer) \in Nat /\ Len(flight) \in Nat
      /\ Len(buffer') = Len(buffer) - n
      /\ \A i \in 1..(Len(buffer) - n) : buffer'[i] = buffer[n + i]
  <2>1. n \in 0..Len(buffer) /\ buffer \in Seq(Bytes)
    BY <1>0, <1>2, <1>3, BytesAhead DEF TypeOK
  <2> QED
    BY <1>0, <1>2, <1>3, <2>1, SplitSeq, BytesAhead
<1>6. /\ Len(delivered') = Len(delivered) + 1
      /\ delivered'[Len(delivered) + 1] = First
      /\ \A i \in 1..Len(delivered) : delivered'[i] = delivered[i]
  BY <1>0, <1>2, <1>4, AppendProperties DEF TypeOK
<1>7. First' = First + 1
  BY <1>0, <1>4, <1>6 DEF First
<1>8. InOrder'
  <2>1. \A i \in 1..(Len(delivered) + 1) : delivered'[i] = sent[i]
    <3>1. \A i \in 1..Len(delivered) : delivered[i] = sent[i]
      BY <1>0 DEF InOrder
    <3> QED
      BY <1>4, <1>6, <3>1
  <2> QED
    BY <1>0, <1>4, <1>6, <2>1 DEF InOrder
<1>9. Total' = Total - n /\ Total \in Nat
  BY <1>0, <1>5 DEF Total
<1>10. \A i \in 1..(Total - n), j \in Nat : j = n + i => At(i)' = At(j)
  <2> SUFFICES ASSUME NEW i \in 1..(Total - n), NEW j \in Nat, j = n + i
               PROVE  At(i)' = At(j)
    OBVIOUS
  <2>1. CASE i <= Len(buffer) - n
    <3>1. i \in 1..(Len(buffer) - n) /\ j <= Len(buffer)
      BY <1>5, <2>1
    <3>2. buffer'[i] = buffer[j]
      BY <1>5, <3>1
    <3> QED
      BY <1>5, <2>1, <3>1, <3>2 DEF At
  <2>2. CASE i > Len(buffer) - n
    <3>1. ~(j <= Len(buffer)) /\ j - Len(buffer) = i - (Len(buffer) - n)
      BY <1>5, <2>2
    <3> QED
      BY <1>0, <1>5, <2>2, <3>1 DEF At
  <2> QED
    BY <1>5, <2>1, <2>2
<1>11. /\ \A p \in (First + 1)..next : p \in First..next /\ start[p] \in Nat
       /\ \A p \in (First + 1)..next : n <= start[p]
       /\ start[First] = 0 /\ start[next] = Total
  <2>1. /\ start \in [First..next -> Nat]
        /\ \A q \in First..next : First < q
                                     => start[First] + Size[First] <= start[q]
        /\ start[First] = 0 /\ start[next] = Total
    <3>1. First \in First..next
      BY <1>4
    <3>2. \A p, q \in First..next : p < q => start[p] + Size[p] <= start[q]
      BY <1>1 DEF LaidOut
    <3>3. /\ start \in [First..next -> Nat]
          /\ start[First] = 0 /\ start[next] = Total
      BY <1>1 DEF LaidOut
    <3> QED
      BY <3>1, <3>2, <3>3
  <2> QED
    BY <1>3, <1>4, <2>1
<1>12. PICK s2 : s2 = [p \in (First + 1)..next |-> start[p] - n]
  OBVIOUS
<1>13. /\ s2 \in [(First + 1)..next -> Nat]
       /\ \A p \in (First + 1)..next : s2[p] = start[p] - n
  <2>1. \A p \in (First + 1)..next : start[p] - n \in Nat
    BY <1>11
  <2> QED
    BY <1>12, <2>1
<1>14. LaidOut(s2)'
  <2>1. s2[First + 1] = 0 /\ s2[next] = Total'
    BY <1>4, <1>9, <1>11, <1>13
  <2>2. \A p \in (First + 1)..(next - 1) :
            p \in First..(next - 1) /\ p + 1 \in (First + 1)..next
            /\ p \in (First + 1)..next /\ Size[p] \in Nat
    BY <1>0, <1>4, FirstIsNext, BytesOfPacket
  <2>3. \A p \in (First + 1)..(next - 1) : s2[p + 1] = s2[p] + Size[p]
    <3>1. \A p \in First..(next - 1) : start[p + 1] = start[p] + Size[p]
      BY <1>1 DEF LaidOut
    <3> QED
      BY <1>11, <1>13, <2>2, <3>1
  <2>4. \A p, q \in (First + 1)..next : p < q => s2[p] + Size[p] <= s2[q]
    <3> SUFFICES ASSUME NEW p \in (First + 1)..next,
                        NEW q \in (First + 1)..next, p < q
                 PROVE  s2[p] + Size[p] <= s2[q]
      OBVIOUS
    <3>1. p \in First..next /\ q \in First..next /\ p \in (First + 1)..(next - 1)
      BY <1>4
    <3>2. start[p] + Size[p] <= start[q]
      BY <1>1, <3>1 DEF LaidOut
    <3> QED
      BY <1>11, <1>13, <2>2, <3>1, <3>2
  <2>5. \A p \in (First + 1)..(next - 1) : \A k \in 1..Size[p] :
            At(s2[p] + k)' = <<p, k>>
    <3> SUFFICES ASSUME NEW p \in (First + 1)..(next - 1), NEW k \in 1..Size[p]
                 PROVE  At(s2[p] + k)' = <<p, k>>
      OBVIOUS
    <3>1. At(start[p] + k) = <<p, k>> /\ start[p] + Size[p] <= Total
      <4>1. p < next /\ next \in First..next /\ p \in First..next
        BY <1>4, <2>2
      <4> QED
        BY <1>1, <1>11, <2>2, <4>1 DEF LaidOut
    <3>2. PICK i \in Nat : i = s2[p] + k
      BY <1>13, <2>2
    <3>3. i \in 1..(Total - n) /\ start[p] + k \in Nat /\ start[p] + k = n + i
      <4>1. /\ start[p] \in Nat /\ s2[p] = start[p] - n /\ n <= start[p]
            /\ Size[p] \in Nat /\ start[p] + Size[p] <= Total /\ Total \in Nat
        BY <1>9, <1>11, <1>13, <2>2, <3>1
      <4> QED
        BY <3>2, <4>1
    <3> QED
      BY <1>10, <3>1, <3>2, <3>3
  <2>6. \A i \in 1..Total' : \E p \in (First + 1)..(next - 1) :
            s2[p] < i /\ i <= s2[p + 1]
    <3> SUFFICES ASSUME NEW i \in 1..(Total - n)
                 PROVE  \E p \in (First + 1)..(next - 1) :
                            s2[p] < i /\ i <= s2[p + 1]
      BY <1>9
    <3>1. n + i \in 1..Total
      BY <1>9
    <3>2. PICK p \in First..(next - 1) : start[p] < n + i /\ n + i <= start[p + 1]
      BY <1>1, <3>1 DEF LaidOut
    <3>3. p # First
      BY <1>4, <3>2
    <3>4. p \in (First + 1)..(next - 1)
      BY <1>4, <3>3
    <3> QED
      BY <1>11, <1>13, <2>2, <3>2, <3>4
  <2>7. chunks = "whole" => \E q \in (First + 1)..next : Len(buffer') = s2[q]
    <3> SUFFICES ASSUME chunks = "whole"
                 PROVE  \E q \in (First + 1)..next : Len(buffer') = s2[q]
      OBVIOUS
    <3>1. PICK q \in First..next : Len(buffer) = start[q]
      BY <1>1 DEF LaidOut
    <3>2. q # First
      BY <1>2, <1>3, <1>4, <1>11, <3>1
    <3>3. q \in (First + 1)..next
      BY <1>4, <3>2
    <3> QED
      BY <1>5, <1>13, <3>1, <3>3
  <2> QED
    BY <1>0, <1>7, <1>13, <2>1, <2>3, <2>4, <2>5, <2>6, <2>7 DEF LaidOut
<1> QED
  BY <1>0, <1>8, <1>14
  DEF ReaderInv, ServerIsGivenWhole, DownIsEmpty, LessThanOne

(* When the loop ends the buffer holds less than a packet, and nothing at  *)
(* all if chunks are whole: the server loses nothing with its copy.        *)
LEMMA LoopLeavesLessThanOne ==
    ASSUME TypeOK, InOrder, NEW start, LaidOut(start), LoopEnds,
           role = "server" => chunks = "whole"
    PROVE  /\ buffer = << >> \/ (First < next /\ Len(buffer) < Size[First])
           /\ Rest = buffer
<1>1. /\ Prefix \in Nat \ {0} /\ Len(buffer) \in Nat /\ Len(flight) \in Nat
      /\ buffer = << >> <=> Len(buffer) = 0
  BY ReaderAssumption, BytesAhead, EmptySeq DEF TypeOK
<1>2. CASE buffer = << >>
  BY <1>2 DEF Rest
<1>3. CASE buffer # << >>
  <2>1. Total > 0
    BY <1>1, <1>3 DEF Total
  <2>2. First < next /\ Size[First] \in Nat /\ Size[First] > Prefix
    BY <2>1, FirstIsInFront
  <2>3. Len(buffer) < Size[First]
    <3>1. CASE Len(buffer) < Prefix
      BY <1>1, <2>2, <3>1
    <3>2. CASE Len(buffer) >= Prefix
      <4>1. Lengths = {Size[First]}
        BY <3>2, ReadLength
      <4> QED
        BY <1>1, <2>2, <4>1 DEF LoopEnds
    <3> QED
      BY <1>1, <3>1, <3>2
  <2>4. role = "client"
    <3> SUFFICES ASSUME role = "server" PROVE FALSE
      BY DEF TypeOK, Roles
    <3>1. PICK q \in First..next : Len(buffer) = start[q]
      BY DEF LaidOut
    <3>2. start[First] = 0 /\ First \in 1..next /\ next \in Nat
      BY FirstIsNext DEF LaidOut
    <3>3. q # First
      BY <1>1, <1>3, <3>1, <3>2
    <3>4. start[First] + Size[First] <= start[q]
      BY <3>2, <3>3 DEF LaidOut
    <3> QED
      BY <1>1, <2>2, <2>3, <3>1, <3>2, <3>4
  <2> QED
    BY <2>2, <2>3, <2>4 DEF Rest
<1> QED
  BY <1>2, <1>3

(* The end of didRead keeps what the buffer holds.                         *)
LEMMA ReturnKeepsRest ==
    ASSUME ReaderInv, ReturnFromRead
    PROVE  ReaderInv'
<1>0. /\ TypeOK /\ InOrder /\ TypeOK' /\ up /\ LoopEnds /\ buffer' = Rest
      /\ role' = role /\ chunks' = chunks /\ next' = next /\ sent' = sent
      /\ delivered' = delivered /\ up' = up /\ flight' = flight
      /\ parsing' = FALSE /\ (role = "server" => chunks = "whole")
  BY TypeStep DEF ReaderInv, ReturnFromRead, Next, ReadLoop, setup, DownIsEmpty,
     ServerIsGivenWhole
<1>1. PICK start : LaidOut(start)
  BY <1>0 DEF ReaderInv
<1>2. /\ buffer = << >> \/ (First < next /\ Len(buffer) < Size[First])
      /\ buffer' = buffer
  BY <1>0, <1>1, LoopLeavesLessThanOne
<1>3. First' = First
  BY <1>0 DEF First
<1>4. LessThanOne'
  BY <1>0, <1>2, <1>3 DEF LessThanOne
<1>5. LaidOut(start)'
  <2>1. \A i : At(i)' = At(i)
    BY <1>0, <1>2 DEF At
  <2>2. Total' = Total
    BY <1>0, <1>2 DEF Total
  <2> QED
    BY <1>0, <1>1, <1>2, <1>3, <2>1, <2>2 DEF LaidOut
<1> QED
  BY <1>0, <1>4, <1>5 DEF ReaderInv, InOrder, ServerIsGivenWhole, DownIsEmpty

(* A connection is lost between packets, and the next one begins empty.    *)
LEMMA ConnectionsBeginEmpty ==
    ASSUME ReaderInv, PacketsStayWhole, DidDisconnect \/ DidConnect
    PROVE  ReaderInv'
<1>1. CASE DidDisconnect
  <2>1. /\ TypeOK' /\ ~parsing /\ buffer = << >> /\ buffer' = << >>
        /\ flight' = << >> /\ ~up' /\ parsing' = parsing /\ role' = role
        /\ chunks' = chunks /\ next' = next /\ sent' = sent
        /\ delivered' = delivered
    BY <1>1, TypeStep
    DEF ReaderInv, DidDisconnect, PacketsStayWhole, Next, setup
  <2> QED
    BY <2>1 DEF ReaderInv, InOrder, ServerIsGivenWhole, DownIsEmpty, LessThanOne
<1>2. CASE DidConnect
  <2>1. /\ TypeOK /\ TypeOK' /\ ~parsing' /\ buffer' = << >> /\ flight' = << >>
        /\ up' /\ role' = role /\ chunks' = chunks /\ next' = next
        /\ sent' = << >> /\ delivered' = << >>
    BY <1>2, TypeStep DEF ReaderInv, DownIsEmpty, DidConnect, Next, setup
  <2>2. Len(<< >>) = 0 /\ next \in Nat \ {0}
    BY <2>1, EmptySeq, ReaderAssumption DEF TypeOK
  <2>3. InOrder'
    BY <2>1, <2>2 DEF InOrder
  <2>4. First' = next /\ Total' = 0 /\ Len(buffer') = 0
    BY <2>1, <2>2 DEF First, Total
  <2>5. PICK start : start = [p \in next..next |-> 0]
    OBVIOUS
  <2>6. LaidOut(start)'
    BY <2>1, <2>2, <2>4, <2>5 DEF LaidOut
  <2> QED
    BY <2>1, <2>3, <2>6
    DEF ReaderInv, ServerIsGivenWhole, DownIsEmpty, LessThanOne
<1> QED
  BY <1>1, <1>2

(* ReaderInv is inductive.                                                 *)
LEMMA ReaderStep == PacketsStayWhole /\ ReaderInv /\ [Next]_vars => ReaderInv'
<1> SUFFICES ASSUME PacketsStayWhole, ReaderInv, [Next]_vars PROVE ReaderInv'
  OBVIOUS
<1>1. CASE UNCHANGED vars
  BY <1>1 DEF vars, setup, ReaderInv, TypeOK, InOrder, ServerIsGivenWhole,
     DownIsEmpty, LessThanOne, First, LaidOut, Total, At
<1> QED
  BY <1>1, SentComesLast, ReadKeepsBytes, TakingKeepsOrder, ReturnKeepsRest,
     ConnectionsBeginEmpty DEF Next, ReadLoop

(* The first state.                                                        *)
LEMMA ReaderInit == PacketsStayWhole /\ Init => ReaderInv
<1> SUFFICES ASSUME PacketsStayWhole, Init PROVE ReaderInv
  OBVIOUS
<1>1. /\ TypeOK /\ next = 1 /\ sent = << >> /\ flight = << >> /\ up
      /\ buffer = << >> /\ delivered = << >>
  BY TypeInit DEF Init
<1>2. Len(<< >>) = 0
  BY EmptySeq
<1>3. InOrder
  BY <1>1, <1>2 DEF InOrder
<1>4. ServerIsGivenWhole
  <2>1. PICK s \in Setups : role = s[1] /\ chunks = s[2]
    BY DEF Init
  <2>2. s \in Roles \X Chunks
    BY ReaderAssumption
  <2>3. s = <<role, chunks>> /\ chunks \in {"any", "whole"}
    BY <2>1, <2>2 DEF Chunks
  <2> QED
    BY <2>3 DEF PacketsStayWhole, ServerIsGivenWhole
<1>5. \E start : LaidOut(start)
  <2>1. First = 1 /\ Total = 0 /\ Len(buffer) = 0
    BY <1>1, <1>2 DEF First, Total
  <2>2. PICK start : start = [p \in 1..1 |-> 0]
    OBVIOUS
  <2>3. LaidOut(start)
    BY <1>1, <2>1, <2>2 DEF LaidOut
  <2> QED
    BY <2>3
<1> QED
  BY <1>1, <1>3, <1>4, <1>5 DEF ReaderInv, DownIsEmpty, LessThanOne

-----------------------------------------------------------------------------
(* What the invariant says of the packets handed over.                     *)

(* Delivered is the beginning of what was sent.                            *)
LEMMA InOrderIsPrefix == TypeOK /\ InOrder => NothingIsMixedUp
<1> SUFFICES ASSUME TypeOK, InOrder PROVE IsPrefix(delivered, sent)
  BY DEF NothingIsMixedUp
<1>1. /\ delivered \in Seq(Packets \cup {Corrupt})
      /\ sent \in Seq(Packets \cup {Corrupt})
  BY SeqMonotonic DEF TypeOK
<1> QED
  BY <1>1, PrefixByElements DEF InOrder

(* Less than a packet is the beginning of the next one.                    *)
LEMMA RestIsPartial == ReaderInv => BufferIsOnePartialPacket
<1> SUFFICES ASSUME ReaderInv, up, ~parsing, buffer # << >>
             PROVE  /\ Len(delivered) < Len(sent)
                    /\ IsPrefix(buffer, BytesOf(sent[Len(delivered) + 1]))
                    /\ Len(buffer) < Size[sent[Len(delivered) + 1]]
  BY DEF BufferIsOnePartialPacket
<1>1. /\ TypeOK /\ InOrder /\ First < next /\ Len(buffer) < Size[First]
  BY DEF ReaderInv, LessThanOne
<1>2. /\ Len(delivered) < Len(sent) /\ sent[Len(delivered) + 1] = First
  BY <1>1, FirstIsNext
<1>3. PICK start : LaidOut(start)
  BY DEF ReaderInv
<1>4. /\ Len(buffer) \in Nat \ {0} /\ Total > 0
      /\ buffer \in Seq(Bytes) /\ \A i \in 1..Len(buffer) : At(i) = buffer[i]
  BY <1>1, BytesAhead, EmptySeq DEF TypeOK, Total
<1>5. /\ First \in Packets /\ Size[First] \in Nat
      /\ \A k \in 1..Size[First] : At(k) = <<First, k>>
  BY <1>1, <1>3, <1>4, FirstIsInFront
<1>6. /\ BytesOf(First) \in Seq(Bytes) /\ Len(BytesOf(First)) = Size[First]
      /\ \A k \in 1..Size[First] : BytesOf(First)[k] = <<First, k>>
  BY <1>5, BytesOfPacket
<1>7. \A i \in 1..Len(buffer) : buffer[i] = BytesOf(First)[i]
  <2>1. \A i \in 1..Len(buffer) : i \in 1..Size[First]
    BY <1>1, <1>4, <1>5
  <2> QED
    BY <1>4, <1>5, <1>6, <2>1
<1>8. IsPrefix(buffer, BytesOf(First))
  BY <1>1, <1>4, <1>6, <1>7, PrefixByElements
<1> QED
  BY <1>1, <1>2, <1>8

(* Every reachable state satisfies the invariant.                          *)
LEMMA ReaderAlways == PacketsStayWhole => (Spec => []ReaderInv)
<1> SUFFICES ASSUME PacketsStayWhole PROVE Spec => []ReaderInv
  OBVIOUS
<1>1. Init => ReaderInv
  BY ReaderInit
<1>2. ReaderInv /\ [Next]_vars => ReaderInv'
  BY ReaderStep
<1> QED
  BY <1>1, <1>2, PTL DEF Spec

(* However TCP cuts the stream, no packet made of the bytes of two is      *)
(* handed over, none twice and none out of order.                          *)
THEOREM NothingIsEverMixedUp == PacketsStayWhole => (Spec => []NothingIsMixedUp)
<1> SUFFICES ASSUME PacketsStayWhole PROVE Spec => []NothingIsMixedUp
  OBVIOUS
<1>1. ReaderInv => NothingIsMixedUp
  BY InOrderIsPrefix DEF ReaderInv
<1>2. Spec => []ReaderInv
  BY ReaderAlways
<1> QED
  BY <1>1, <1>2, PTL

(* Between two reads the buffer holds less than a packet, and that is the  *)
(* beginning of the next one.                                              *)
THEOREM BufferStaysPartial ==
    PacketsStayWhole => (Spec => []BufferIsOnePartialPacket)
<1> SUFFICES ASSUME PacketsStayWhole PROVE Spec => []BufferIsOnePartialPacket
  OBVIOUS
<1>1. Spec => []ReaderInv
  BY ReaderAlways
<1> QED
  BY RestIsPartial, <1>1, PTL

-----------------------------------------------------------------------------
(* The reader implements PacketChannel.                                    *)

(* What is left of a sequence with one element more.                       *)
LEMMA RestOfAppend ==
    ASSUME NEW S, NEW s \in Seq(S), NEW e \in S, NEW n \in 0..Len(s)
    PROVE  SubSeq(Append(s, e), n + 1, Len(Append(s, e)))
               = Append(SubSeq(s, n + 1, Len(s)), e)
<1> DEFINE t == Append(s, e)
           u == SubSeq(s, n + 1, Len(s))
           v == SubSeq(t, n + 1, Len(t))
<1>1. /\ t \in Seq(S) /\ Len(t) = Len(s) + 1 /\ t[Len(s) + 1] = e
      /\ \A i \in 1..Len(s) : t[i] = s[i]
      /\ Len(s) \in Nat
  BY AppendProperties, LenProperties
<1>2. /\ u \in Seq(S) /\ Len(u) = Len(s) - n
      /\ \A i \in 1..(Len(s) - n) : u[i] = s[n + i]
  BY SplitSeq
<1>3. /\ v \in Seq(S) /\ Len(v) = Len(t) - n
      /\ \A i \in 1..(Len(t) - n) : v[i] = t[n + i]
  <2>1. n \in 0..Len(t)
    BY <1>1
  <2> HIDE DEF t
  <2> QED
    BY <1>1, <2>1, SplitSeq
<1> HIDE DEF t, u, v
<1>4. /\ Append(u, e) \in Seq(S) /\ Len(Append(u, e)) = Len(u) + 1
      /\ Append(u, e)[Len(u) + 1] = e
      /\ \A i \in 1..Len(u) : Append(u, e)[i] = u[i]
  BY <1>2, AppendProperties
<1>5. ASSUME NEW i \in 1..Len(v) PROVE v[i] = Append(u, e)[i]
  <2>1. v[i] = t[n + i]
    BY <1>1, <1>3
  <2>2. CASE i = Len(u) + 1
    <3>1. n + i = Len(s) + 1
      BY <1>1, <1>2, <2>2
    <3> QED
      BY <1>1, <1>4, <2>1, <2>2, <3>1
  <2>3. CASE i <= Len(u)
    <3>1. i \in 1..Len(u) /\ i \in 1..(Len(s) - n) /\ n + i \in 1..Len(s)
      BY <1>1, <1>2, <2>3
    <3> QED
      BY <1>1, <1>2, <1>4, <2>1, <3>1
  <2> QED
    BY <1>1, <1>2, <1>3, <2>2, <2>3
<1>6. v = Append(u, e)
  <2>1. Len(v) = Len(Append(u, e))
    BY <1>1, <1>2, <1>3, <1>4
  <2> QED
    BY <1>3, <1>4, <1>5, <2>1, SeqEqual
<1> QED
  BY <1>6 DEF t, u, v

(* At first nothing is sent or delivered.                                  *)
LEMMA ChannelInit == Init => Channel!Init
<1> SUFFICES ASSUME Init PROVE Channel!Init
  OBVIOUS
<1>1. sent = << >> /\ delivered = << >> /\ Len(<< >>) = 0
  BY EmptySeq DEF Init
<1>2. SubSeq(sent, Len(delivered) + 1, Len(sent)) = << >>
  BY <1>1, SubSeqEmpty
<1> QED
  BY <1>1, <1>2 DEF Channel!Init

(* Every step is one of the channel, or changes nothing of it.             *)
LEMMA ChannelStep ==
    ASSUME ReaderInv, [Next]_vars
    PROVE  [Channel!Next]_(Channel!channelVars)
<1>0. /\ TypeOK /\ InOrder /\ sent \in Seq(Packets)
      /\ Len(sent) \in Nat /\ Len(delivered) \in 0..Len(sent)
  BY FirstIsNext DEF ReaderInv, InOrder, TypeOK
<1>1. CASE sent' = sent /\ delivered' = delivered
  BY <1>1 DEF Channel!channelVars
<1>2. CASE SendPacket
  <2>1. /\ sent' = Append(sent, next) /\ delivered' = delivered
        /\ next \in Packets
    BY <1>0, <1>2, ReaderAssumption DEF SendPacket, TypeOK, Packets
  <2>2. SubSeq(sent', Len(delivered') + 1, Len(sent'))
            = Append(SubSeq(sent, Len(delivered) + 1, Len(sent)), next)
    BY <1>0, <2>1, RestOfAppend
  <2>3. Channel!Send(next)
    BY <2>1, <2>2 DEF Channel!Send
  <2> QED
    BY <2>1, <2>3 DEF Channel!Next
<1>3. CASE TakePacket
  <2>1. PICK start : LaidOut(start)
    BY <1>3 DEF ReaderInv, TakePacket, DownIsEmpty
  <2>2. /\ delivered' = Append(delivered, First) /\ sent' = sent
        /\ Total > 0
    BY <1>0, <1>3, <2>1, TakenIsFirst DEF TakePacket
  <2>3. /\ First \in Packets /\ Len(delivered) < Len(sent)
        /\ sent[Len(delivered) + 1] = First
    BY <1>0, <2>1, <2>2, FirstIsInFront, FirstIsNext
  <2>4. Len(delivered') = Len(delivered) + 1
    BY <1>0, <2>2, <2>3, AppendProperties DEF TypeOK
  <2> DEFINE q == SubSeq(sent, Len(delivered) + 1, Len(sent))
  <2>5. /\ Head(q) = First /\ q # << >>
        /\ Tail(q) = SubSeq(sent, Len(delivered) + 1 + 1, Len(sent))
    <3>1. /\ Len(delivered) + 1 \in 1..Len(sent)
          /\ Len(sent) \in (Len(delivered) + 1)..Len(sent)
      BY <1>0, <2>3
    <3>2. /\ Head(q) = sent[Len(delivered) + 1]
          /\ Tail(q) = SubSeq(sent, Len(delivered) + 1 + 1, Len(sent))
      BY <1>0, <3>1, HeadTailOfSubSeq
    <3>3. Len(q) = Len(sent) - Len(delivered)
      BY <1>0, SplitSeq
    <3>4. q # << >>
      <4>1. Len(q) # 0 /\ Len(<< >>) = 0
        BY <1>0, <2>3, <3>3, EmptySeq
      <4> HIDE DEF q
      <4> QED
        BY <4>1
    <3> QED
      BY <2>3, <3>2, <3>4
  <2>6. Channel!Receive
    BY <2>2, <2>4, <2>5 DEF Channel!Receive
  <2> QED
    BY <2>6 DEF Channel!Next
<1>4. CASE DidConnect
  <2>1. sent' = << >> /\ delivered' = << >> /\ Len(<< >>) = 0
    BY <1>4, EmptySeq DEF DidConnect
  <2>2. SubSeq(sent', Len(delivered') + 1, Len(sent')) = << >>
    BY <2>1, SubSeqEmpty
  <2> QED
    BY <2>1, <2>2 DEF Channel!Lose, Channel!Next
<1>5. CASE UNCHANGED vars \/ DidRead \/ ReturnFromRead \/ DidDisconnect
  BY <1>1, <1>5 DEF vars, DidRead, ReturnFromRead, DidDisconnect
<1> QED
  BY <1>2, <1>3, <1>4, <1>5 DEF Next, ReadLoop

(* The reader keeps the promise of PacketChannel: over one connection the  *)
(* packets sent are delivered whole, once and in order, and a new          *)
(* connection begins with nothing received.                                *)
THEOREM ReaderImplementsChannel ==
    PacketsStayWhole => (Spec => ReadsWholePackets)
<1> SUFFICES ASSUME PacketsStayWhole PROVE Spec => ReadsWholePackets
  OBVIOUS
<1>1. Init => Channel!Init
  BY ChannelInit
<1>2. ReaderInv /\ [Next]_vars => [Channel!Next]_(Channel!channelVars)
  BY ChannelStep
<1>3. Spec => []ReaderInv
  BY ReaderAlways
<1> QED
  BY <1>1, <1>2, <1>3, PTL DEF Spec, ReadsWholePackets, Channel!Spec
=============================================================================
