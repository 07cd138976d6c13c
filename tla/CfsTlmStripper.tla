--------------------------- MODULE CfsTlmStripper ---------------------------
(***************************************************************************)
(* FprimeGds::CfsTlmStripper: the downlink stage that removes the cFS       *)
(* telemetry secondary header from space packets, in place.                *)
(*                                                                         *)
(* A buffer is a storage of bytes and a window on it, as Fw::Buffer is: the *)
(* handler moves the window and rewrites a header inside the storage. Byte *)
(* and length-field arithmetic keep the widths of the code. Buffers travel *)
(* bridge -> stripper -> downstream and back; several may be downstream at *)
(* once. CfsBridge and the aggregator behind dataOut are external.         *)
(***************************************************************************)
EXTENDS Integers

CONSTANTS
  Buffers,            \* buffers the bridge allocates packets in
  Packets,            \* packets it may receive from the software bus
  ComStatusConnected  \* whether the comStatusOut port is connected

Byte == 0 .. 255

\* A packet: its size and its bytes.
ASSUME PacketsAssumption ==
  \A p \in Packets : p.size \in Nat /\ p.bytes \in [0 .. p.size - 1 -> Byte]

ASSUME ComStatusConnectedAssumption == ComStatusConnected \in BOOLEAN

VARIABLES
  owner,      \* who holds each buffer: the bridge or the components downstream
  data,       \* what each buffer's window shows, and its frame context
  sent,       \* the packet each buffer last carried into dataIn
  arrived,    \* buffers that have carried a packet into dataIn
  malformed,  \* buffers whose last packet was reported by MalformedPacket
  comStatus   \* last status passed up through comStatusOut

vars == <<owner, data, sent, arrived, malformed, comStatus>>

PRI_HDR_SIZE  == 6
SEC_HDR_SIZE  == 10
SEC_HDR_FLAG  == 8
TYPE_FLAG     == 16
LENGTH_OFFSET == 4

Statuses == {"SUCCESS", "FAILURE"}

-----------------------------------------------------------------------------
(* Bytes through a buffer's window.                                         *)

\* getData()[i]
ByteAt(d, i) == d.bytes[d.first + i]

\* (byte & flag) != 0, for a flag of one bit
HasFlag(byte, flag) == (byte \div flag) % 2 = 1

\* byte & ~flag
ClearFlag(byte, flag) == IF HasFlag(byte, flag) THEN byte - flag ELSE byte

IsTelemetry(d) == ~HasFlag(ByteAt(d, 0), TYPE_FLAG)
HasSecHdr(d)   == HasFlag(ByteAt(d, 0), SEC_HDR_FLAG)

\* The big-endian packet data length field.
LengthField(d) == ByteAt(d, LENGTH_OFFSET) * 256 + ByteAt(d, LENGTH_OFFSET + 1)

\* The length field of a complete packet counts the bytes behind the primary
\* header, less one.
Complete(d) ==
  /\ d.size > PRI_HDR_SIZE
  /\ LengthField(d) = d.size - PRI_HDR_SIZE - 1

\* Mutant: the size is not compared with the headers'.
Strippable_AnySize(d) ==
  /\ IsTelemetry(d)
  /\ HasSecHdr(d)

\* The handler's condition "strip".
Strippable(d) ==
  /\ IsTelemetry(d)
  /\ HasSecHdr(d)
  /\ d.size >= PRI_HDR_SIZE + SEC_HDR_SIZE + 1

\* lengthToken: a 64-bit difference of which the two low bytes are written.
LengthToken(d) == (LengthField(d) + 65536 - SEC_HDR_SIZE) % 65536

\* Mutant: as many bytes are moved as are removed.
MoveHeader_TooMany(d) ==
  [i \in DOMAIN d.bytes |->
     IF i \in d.first + SEC_HDR_SIZE .. d.first + 2 * SEC_HDR_SIZE - 1
     THEN d.bytes[i - SEC_HDR_SIZE]
     ELSE d.bytes[i]]

\* std::memmove of the primary header to just ahead of the payload.
MoveHeader(d) ==
  [i \in DOMAIN d.bytes |->
     IF i \in d.first + SEC_HDR_SIZE .. d.first + SEC_HDR_SIZE + PRI_HDR_SIZE - 1
     THEN d.bytes[i - SEC_HDR_SIZE]
     ELSE d.bytes[i]]

\* Mutant: the borrow from the high byte of the length is lost.
Strip_LengthBorrow(d) ==
  LET out == d.first + SEC_HDR_SIZE
  IN  [bytes |-> [MoveHeader(d) EXCEPT
                    ![out] = ClearFlag(@, SEC_HDR_FLAG),
                    ![out + LENGTH_OFFSET + 1] = (@ + 256 - SEC_HDR_SIZE) % 256],
       first |-> out,
       size  |-> d.size - SEC_HDR_SIZE,
       hasSecHdr |-> FALSE]

\* Mutant: the header is written where the secondary header began.
Strip_WrongPlace(d) ==
  [bytes |-> [d.bytes EXCEPT ![d.first] = ClearFlag(@, SEC_HDR_FLAG)],
   first |-> d.first,
   size  |-> d.size - SEC_HDR_SIZE,
   hasSecHdr |-> FALSE]

\* The packet without its secondary header, in the same storage.
Strip(d) ==
  LET out == d.first + SEC_HDR_SIZE
  IN  [bytes |-> [MoveHeader(d) EXCEPT
                    ![out] = ClearFlag(@, SEC_HDR_FLAG),
                    ![out + LENGTH_OFFSET] = LengthToken(d) \div 256,
                    ![out + LENGTH_OFFSET + 1] = LengthToken(d) % 256],
       first |-> out,
       size  |-> d.size - SEC_HDR_SIZE,
       hasSecHdr |-> FALSE]

\* What dataIn forwards.
Forwarded(d) == IF Strippable(d) THEN Strip(d) ELSE d

\* The buffer the bridge hands over for packet p.
Arriving(p, hasSecHdr) ==
  [bytes |-> p.bytes, first |-> 0, size |-> p.size, hasSecHdr |-> hasSecHdr]

-----------------------------------------------------------------------------
NoPacket == [size |-> 0, bytes |-> [i \in {} |-> 0]]

Init ==
  /\ owner = [b \in Buffers |-> "bridge"]
  /\ data = [b \in Buffers |-> Arriving(NoPacket, FALSE)]
  /\ sent = [b \in Buffers |-> Arriving(NoPacket, FALSE)]
  /\ arrived = {}
  /\ malformed = {}
  /\ comStatus = "none"

\* Mutant: the size of the incoming buffer is not checked.
DataIn_Unchecked(b, p, hasSecHdr) ==
  /\ owner[b] = "bridge"
  /\ sent' = [sent EXCEPT ![b] = Arriving(p, hasSecHdr)]
  /\ arrived' = arrived \union {b}
  /\ owner' = [owner EXCEPT ![b] = "downstream"]
  /\ data' = [data EXCEPT ![b] =
                IF p.size < PRI_HDR_SIZE THEN Arriving(p, hasSecHdr)
                                         ELSE Forwarded(Arriving(p, hasSecHdr))]
  /\ malformed' = malformed \ {b}
  /\ UNCHANGED comStatus

\* Mutant: a short buffer is returned without the warning.
DataIn_Silent(b, p, hasSecHdr) ==
  LET d == Arriving(p, hasSecHdr)
  IN  /\ owner[b] = "bridge"
      /\ sent' = [sent EXCEPT ![b] = d]
      /\ arrived' = arrived \union {b}
      /\ malformed' = malformed \ {b}
      /\ data' = [data EXCEPT ![b] = IF d.size < PRI_HDR_SIZE THEN d ELSE Forwarded(d)]
      /\ owner' = [owner EXCEPT ![b] = IF d.size < PRI_HDR_SIZE THEN "bridge" ELSE "downstream"]
      /\ UNCHANGED comStatus

\* dataIn_handler
DataIn(b, p, hasSecHdr) ==
  LET d == Arriving(p, hasSecHdr)
  IN  /\ owner[b] = "bridge"
      /\ sent' = [sent EXCEPT ![b] = d]
      /\ arrived' = arrived \union {b}
      /\ IF d.size < PRI_HDR_SIZE
         THEN /\ malformed' = malformed \union {b}
              /\ data' = [data EXCEPT ![b] = d]
              /\ UNCHANGED owner
         ELSE /\ malformed' = malformed \ {b}
              /\ data' = [data EXCEPT ![b] = Forwarded(d)]
              /\ owner' = [owner EXCEPT ![b] = "downstream"]
      /\ UNCHANGED comStatus

\* dataReturnIn_handler: the buffer goes back as it comes.
DataReturnIn(b) ==
  /\ owner[b] = "downstream"
  /\ owner' = [owner EXCEPT ![b] = "bridge"]
  /\ UNCHANGED <<data, sent, arrived, malformed, comStatus>>

\* comStatusIn_handler
ComStatusIn(condition) ==
  /\ ComStatusConnected
  /\ comStatus' = condition
  /\ UNCHANGED <<owner, data, sent, arrived, malformed>>

Next ==
  \/ \E b \in Buffers :
       \/ \E p \in Packets, hasSecHdr \in BOOLEAN : DataIn(b, p, hasSecHdr)
       \/ DataReturnIn(b)
  \/ \E condition \in Statuses : ComStatusIn(condition)

Spec == Init /\ [][Next]_vars
-----------------------------------------------------------------------------
(* Properties.                                                              *)

\* The window lies inside the storage.
IsBuffer(d) ==
  /\ d.first \in Nat /\ d.size \in Nat
  /\ d.bytes \in [0 .. d.first + d.size - 1 -> Byte]
  /\ d.hasSecHdr \in BOOLEAN

TypeOK ==
  /\ owner \in [Buffers -> {"bridge", "downstream"}]
  /\ DOMAIN data = Buffers /\ DOMAIN sent = Buffers
  /\ \A b \in Buffers : IsBuffer(data[b]) /\ IsBuffer(sent[b])
  /\ arrived \in SUBSET Buffers /\ malformed \in SUBSET Buffers
  /\ comStatus \in Statuses \union {"none"}

\* What a packet says, whatever its secondary header: its fields and payload.
SameFields(d, e) ==
  /\ ClearFlag(ByteAt(d, 0), SEC_HDR_FLAG) = ClearFlag(ByteAt(e, 0), SEC_HDR_FLAG)
  /\ \A i \in 1 .. 3 : ByteAt(d, i) = ByteAt(e, i)

SamePayload(d, e, skip) ==
  /\ d.size + skip = e.size
  /\ \A i \in PRI_HDR_SIZE .. d.size - 1 : ByteAt(d, i) = ByteAt(e, i + skip)

\* Requirement 002: a packet that was stripped says what it said before: same
\* type, APID and sequence, the payload behind the secondary header, no flag.
StrippedPacketFaithful ==
  \A b \in Buffers : owner[b] = "downstream" /\ Strippable(sent[b]) =>
    /\ ~HasSecHdr(data[b]) /\ ~data[b].hasSecHdr
    /\ SameFields(data[b], sent[b])
    /\ SamePayload(data[b], sent[b], SEC_HDR_SIZE)

\* A complete packet is forwarded as a complete packet: the receiver on the
\* ground finds its end, and the next packet, by the length field.
CompletePacketsStayComplete ==
  \A b \in Buffers : owner[b] = "downstream" /\ Complete(sent[b]) => Complete(data[b])

\* d differs from e at most in the six bytes its window begins with.
RewritesOnlyHeader(d, e) ==
  /\ DOMAIN d.bytes = DOMAIN e.bytes
  /\ \A i \in DOMAIN e.bytes :
       d.bytes[i] # e.bytes[i] => i \in d.first .. d.first + PRI_HDR_SIZE - 1

\* Requirement 003: stripping copies no payload: only the six bytes of the
\* rebuilt header differ from what the bridge wrote.
StripsInPlace ==
  \A b \in Buffers : owner[b] = "downstream" => RewritesOnlyHeader(data[b], sent[b])

\* Requirement 004: commands and packets without the flag go through as they
\* are, context included.
OthersUntouched ==
  \A b \in Buffers :
    owner[b] = "downstream" /\ (~IsTelemetry(sent[b]) \/ ~HasSecHdr(sent[b])) =>
      data[b] = sent[b]

\* The buffers whose last packet had no room for a primary header.
ShortBuffers == {b \in arrived : sent[b].size < PRI_HDR_SIZE}

\* Requirement 005: a buffer without a primary header is with the bridge again,
\* as it came and never downstream, and the warning event was emitted for each
\* such packet and for no other, whatever the same buffer carried before.
ShortBuffersComeBack ==
  /\ malformed = ShortBuffers
  /\ \A b \in ShortBuffers : owner[b] = "bridge" /\ data[b] = sent[b]

\* Requirement 001 as docs/sdd.md words it: each telemetry packet that arrives
\* with a secondary header leaves without it. The code forwards a packet that
\* ends with its secondary header (no payload behind it) as it is.
NoSecHdrDownstream ==
  \A b \in Buffers :
    /\ owner[b] = "downstream" /\ IsTelemetry(sent[b]) /\ HasSecHdr(sent[b])
    /\ sent[b].size >= PRI_HDR_SIZE + SEC_HDR_SIZE
    => ~HasSecHdr(data[b]) /\ ~data[b].hasSecHdr
=============================================================================
