---------------------------- MODULE PacketReader ----------------------------
(***************************************************************************)
(* The framing of the device link.  A packet is a prefix of fixed length,  *)
(* one field of which is the length of the whole packet, and a body.  TCP  *)
(* hands the bytes over in chunks cut anywhere; socket(_:didRead:) adds a  *)
(* chunk to a buffer and takes whole packets from its front.  The client   *)
(* keeps one buffer for ever.  The server has a dictionary of buffers, one *)
(* for each connection, but works on a copy it never puts back.            *)
(*                                                                         *)
(* A byte is <<p, i>>, the i-th of packet p.  Only the prefix and what is  *)
(* read from it matter, so a prefix is a few bytes long here and the       *)
(* length is read from one of them.  An operator that nothing else uses is *)
(* a mistake the code might have made; PROJECT.json names the property     *)
(* that notices it.                                                        *)
(***************************************************************************)
EXTENDS Naturals, Sequences, SequencesExt

CONSTANTS
    LastPacket,  \* the packets to be sent are 1..LastPacket
    Size,        \* Size[p]: the bytes of packet p
    Prefix,      \* prefixLength
    LengthAt,    \* the byte of the prefix the length is read from
    Misread,     \* what a byte that is no length may be read as
    Setups,      \* <<role, chunks>>: who reads, and how TCP cuts the stream
    MidPacket,   \* the connection may be lost while the client holds a part
    MaxLosses    \* bound: how often the connection is lost

Packets == 1..LastPacket
Roles   == {"client", "server"}

(* "whole": every chunk ends where a packet ends.                          *)
Chunks  == {"any", "whole"}

ASSUME ReaderAssumption ==
    /\ LastPacket \in Nat
    /\ Prefix \in Nat \ {0}
    /\ LengthAt \in 1..Prefix
    /\ Size \in [Packets -> Nat]
    /\ \A p \in Packets : Size[p] > Prefix
    /\ Misread \subseteq Nat
    /\ Setups \subseteq Roles \X Chunks
    /\ MidPacket \in BOOLEAN
    /\ MaxLosses \in Nat

VARIABLES
    role,       \* who reads; fixed
    chunks,     \* how the stream is cut; fixed
    next,       \* the next packet to be sent
    sent,       \* the packets sent on this connection
    flight,     \* the bytes in the network
    buffer,     \* receiveBuffer
    parsing,    \* the reader is in the loop of didRead
    delivered,  \* what was handed to socketDidReceiveData as a packet
    up,         \* the connection is up
    losses      \* how often it was lost so far

setup == <<role, chunks>>
vars  == <<setup, next, sent, flight, buffer, parsing, delivered, up, losses>>

Bytes == UNION {{p} \X (1..Size[p]) : p \in Packets}

(* Delivered bytes that begin with the prefix of one packet and are not    *)
(* that packet.                                                            *)
Corrupt == 0

BytesFromZero(p) == [i \in 1..Size[p] |-> <<p, i - 1>>]
BytesOf(p) == [i \in 1..Size[p] |-> <<p, i>>]

TypeOK ==
    /\ role \in Roles
    /\ chunks \in Chunks
    /\ next \in 1..(LastPacket + 1)
    /\ sent \in Seq(Packets)
    /\ flight \in Seq(Bytes)
    /\ buffer \in Seq(Bytes)
    /\ parsing \in BOOLEAN
    /\ delivered \in Seq(Packets \cup {Corrupt})
    /\ up \in BOOLEAN
    /\ losses \in 0..MaxLosses

Init ==
    /\ \E s \in Setups : role = s[1] /\ chunks = s[2]
    /\ next = 1
    /\ sent = << >>
    /\ flight = << >>
    /\ buffer = << >>
    /\ parsing = FALSE
    /\ delivered = << >>
    /\ up = TRUE
    /\ losses = 0

(* createSendCellBodyData, written by sendCellBodyData.                    *)
SendPacket ==
    /\ up
    /\ next <= LastPacket
    /\ next' = next + 1
    /\ sent' = Append(sent, next)
    /\ flight' = flight \o BytesOf(next)
    /\ UNCHANGED <<setup, buffer, parsing, delivered, up, losses>>

-----------------------------------------------------------------------------
(* didRead: the chunk is added to the buffer ...                           *)

PacketEnds == {n \in 1..Len(flight) : n < Len(flight) => flight[n + 1][2] = 1}

Cuts == IF chunks = "whole" THEN PacketEnds ELSE 1..Len(flight)

DidRead ==
    /\ up
    /\ ~parsing
    /\ \E n \in Cuts :
          /\ buffer' = buffer \o SubSeq(flight, 1, n)
          /\ flight' = SubSeq(flight, n + 1, Len(flight))
    /\ parsing' = TRUE
    /\ UNCHANGED <<setup, next, sent, delivered, up, losses>>

(* ... the length is read from where the prefix would have it, once there  *)
(* are bytes for a prefix ...                                              *)
Lengths ==
    IF Len(buffer) < Prefix THEN {}
    ELSE LET b == buffer[LengthAt]
         IN  IF b[2] = LengthAt THEN {Size[b[1]]} ELSE Misread

(* What socketDidReceiveData makes of some bytes: a packet if they begin   *)
(* with a prefix, nothing otherwise.                                       *)
Handled(bytes) ==
    LET prefix == SubSeq(bytes, 1, Prefix)
        p      == bytes[1][1]
    IN  IF Len(bytes) < Prefix \/ prefix # SubSeq(BytesOf(p), 1, Prefix)
        THEN << >>
        ELSE IF bytes = BytesOf(p) THEN <<p>> ELSE <<Corrupt>>

AfterGap(n) == SubSeq(buffer, n + 2, Len(buffer))
After(n)    == SubSeq(buffer, n + 1, Len(buffer))

(* ... and that many bytes are taken as a packet.  Only the server is      *)
(* prepared for a length of zero.                                          *)
TakePacket ==
    /\ parsing
    /\ \E n \in Lengths :
          /\ n <= Len(buffer)
          /\ role = "client" \/ n > 0
          /\ delivered' = delivered \o Handled(SubSeq(buffer, 1, n))
          /\ buffer' = After(n)
    /\ UNCHANGED <<setup, next, sent, flight, parsing, up, losses>>

(* The loop ends when the buffer holds less than a packet, and at the      *)
(* server also on a length of zero, where it throws the buffer away.       *)
LoopEndsAnyTime == TRUE
LoopEndsEmpty   == buffer = << >>

LoopEnds ==
    \/ Lengths = {}
    \/ \E n \in Lengths : n > Len(buffer) \/ (n = 0 /\ role = "server")

(* The end of didRead: what is left waits for the next chunk at the        *)
(* client, and is gone with the copy at the server.                        *)
RestIsGone == << >>
Rest == IF role = "client" THEN buffer ELSE << >>

ReturnFromRead ==
    /\ parsing
    /\ LoopEnds
    /\ parsing' = FALSE
    /\ buffer' = Rest
    /\ UNCHANGED <<setup, next, sent, flight, delivered, up, losses>>

-----------------------------------------------------------------------------
(* socketDidDisconnect: the server resets the buffer of the connection,    *)
(* the client leaves its buffer as it is.                                  *)
DidDisconnect ==
    /\ up
    /\ ~parsing
    /\ losses < MaxLosses
    /\ MidPacket \/ buffer = << >>
    /\ up' = FALSE
    /\ losses' = losses + 1
    /\ flight' = << >>
    /\ buffer' = IF role = "client" THEN buffer ELSE << >>
    /\ UNCHANGED <<setup, next, sent, parsing, delivered>>

(* didConnectToHost, didAcceptNewSocket: a new connection.                 *)
DidConnect ==
    /\ ~up
    /\ up' = TRUE
    /\ sent' = << >>
    /\ delivered' = << >>
    /\ UNCHANGED <<setup, next, flight, buffer, parsing, losses>>

ReadLoop == TakePacket \/ ReturnFromRead

Next == SendPacket \/ DidRead \/ ReadLoop \/ DidDisconnect \/ DidConnect

Spec == Init /\ [][Next]_vars

(* What is in the network arrives, and the reader's thread runs.           *)
Fairness == WF_vars(DidRead) /\ WF_vars(ReadLoop)

FairSpec == Spec /\ Fairness

-----------------------------------------------------------------------------
(* Properties.                                                             *)

(* Every packet sent on a connection is handed over whole, once and in     *)
(* order, however TCP cuts the stream (receiveBuffer: each read need not   *)
(* be complete, the reader sees to the integrity of the data).             *)
Channel == INSTANCE PacketChannel WITH
    inFlight <- SubSeq(sent, Len(delivered) + 1, Len(sent)),
    received <- delivered
ReadsWholePackets == Channel!Spec

(* No packet made of the bytes of two is handed over, and none that was    *)
(* not sent on this connection.                                            *)
NothingIsMixedUp == IsPrefix(delivered, sent)

(* Between two reads the buffer holds less than a packet, and what it      *)
(* holds is the beginning of the next one to be delivered.                 *)
BufferIsOnePartialPacket ==
    up /\ ~parsing => \/ buffer = << >>
                      \/ /\ Len(delivered) < Len(sent)
                         /\ LET p == sent[Len(delivered) + 1]
                            IN  /\ IsPrefix(buffer, BytesOf(p))
                                /\ Len(buffer) < Size[p]

(* The loop of didRead ends, and the main thread with it.                  *)
ReadReturns == parsing ~> ~parsing

(* Every packet sent is delivered, unless its connection is lost.          *)
EveryPacketArrives ==
    \A p \in Packets : p \in ToSet(sent) ~> p \in ToSet(delivered) \/ ~up
=============================================================================
