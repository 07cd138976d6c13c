------------------------ MODULE CfsTlmStripperProofs ------------------------
(***************************************************************************)
(* Proofs about CfsTlmStripper for packets of every size and content and   *)
(* any number of buffers. What holds of one packet is proved of the        *)
(* operator Forwarded; that a buffer downstream always holds Forwarded of  *)
(* what was sent is the inductive invariant.                               *)
(***************************************************************************)
EXTENDS CfsTlmStripper, TLAPS

USE DEF PRI_HDR_SIZE, SEC_HDR_SIZE, SEC_HDR_FLAG, TYPE_FLAG, LENGTH_OFFSET

\* Bytes by their bounds. Literal ranges are best kept out of the other proofs.
LEMMA ByteBounds == \A x : x \in Byte <=> x \in Int /\ 0 <= x /\ x < 256
BY DEF Byte

\* Clearing the secondary header flag of a byte clears it, and nothing more is
\* cleared by doing it again.
LEMMA FlagCleared ==
  ASSUME NEW byte \in Byte
  PROVE  /\ ClearFlag(byte, SEC_HDR_FLAG) \in Byte
         /\ ~HasFlag(ClearFlag(byte, SEC_HDR_FLAG), SEC_HDR_FLAG)
         /\ ClearFlag(ClearFlag(byte, SEC_HDR_FLAG), SEC_HDR_FLAG) = ClearFlag(byte, SEC_HDR_FLAG)
BY DEF Byte, ClearFlag, HasFlag

\* Splitting a 16-bit number into bytes and joining them is the identity.
LEMMA TwoBytes ==
  ASSUME NEW n \in Nat, n < 65536
  PROVE  n \div 256 \in Byte /\ n % 256 \in Byte /\ (n \div 256) * 256 + (n % 256) = n
<1>1. /\ n \div 256 \in Int /\ n % 256 \in Int /\ 0 <= n % 256 /\ n % 256 < 256
      /\ (n \div 256) * 256 + (n % 256) = n
  OBVIOUS
<1>2. 0 <= n \div 256 /\ n \div 256 < 256
  BY <1>1
<1> QED
  BY <1>1, <1>2, ByteBounds

\* What the window shows are bytes.
LEMMA WindowTyped ==
  ASSUME NEW d, IsBuffer(d), NEW i \in 0 .. d.size - 1
  PROVE  /\ d.first + i \in 0 .. d.first + d.size - 1
         /\ d.first + i \in DOMAIN d.bytes
         /\ ByteAt(d, i) \in Byte
BY DEF IsBuffer, ByteAt

\* The length field is a 16-bit number, and so is what is written in its place:
\* the field less the secondary header, unless the field was shorter than that.
LEMMA LengthTyped ==
  ASSUME NEW d, IsBuffer(d), d.size >= PRI_HDR_SIZE
  PROVE  /\ LengthField(d) \in Nat /\ LengthField(d) < 65536
         /\ LengthToken(d) \in Nat /\ LengthToken(d) < 65536
         /\ LengthField(d) >= SEC_HDR_SIZE => LengthToken(d) = LengthField(d) - SEC_HDR_SIZE
<1>1. ByteAt(d, LENGTH_OFFSET) \in Byte /\ ByteAt(d, LENGTH_OFFSET + 1) \in Byte
  BY WindowTyped DEF IsBuffer
<1>2. LengthField(d) \in Nat /\ LengthField(d) < 65536
  BY <1>1, ByteBounds DEF LengthField
<1> DEFINE m == LengthField(d) + 65536 - SEC_HDR_SIZE
<1>3. m \in Nat /\ m >= 65526 /\ m < 131062
  BY <1>2
<1>4. LengthToken(d) = m % 65536
  BY DEF LengthToken
<1> HIDE DEF m
<1>5. m % 65536 \in Nat /\ m % 65536 < 65536
  BY <1>3
<1>6. CASE m >= 65536
  <2>1. m % 65536 = m - 65536
    BY <1>3, <1>6
  <2> QED
    BY <1>2, <1>4, <1>5, <2>1 DEF m
<1>7. CASE m < 65536
  BY <1>2, <1>4, <1>5, <1>7 DEF m
<1> QED
  BY <1>3, <1>6, <1>7
-----------------------------------------------------------------------------
\* What stripping makes of each byte of the storage.
LEMMA StripBytes ==
  ASSUME NEW d, IsBuffer(d), Strippable(d)
  PROVE  LET s == Strip(d)
             out == d.first + SEC_HDR_SIZE
         IN  /\ s.first = out /\ s.size = d.size - SEC_HDR_SIZE /\ s.hasSecHdr = FALSE
             /\ DOMAIN s.bytes = DOMAIN d.bytes
             /\ s.bytes[out] = ClearFlag(ByteAt(d, 0), SEC_HDR_FLAG)
             /\ \A i \in 1 .. 3 : s.bytes[out + i] = ByteAt(d, i)
             /\ s.bytes[out + 4] = LengthToken(d) \div 256
             /\ s.bytes[out + 5] = LengthToken(d) % 256
             /\ \A j \in DOMAIN d.bytes \ (out .. out + 5) : s.bytes[j] = d.bytes[j]
<1> DEFINE out == d.first + SEC_HDR_SIZE
           s == Strip(d)
           m == MoveHeader(d)
<1>1. d.first \in Nat /\ d.size \in Nat /\ d.size >= 17
      /\ DOMAIN d.bytes = 0 .. d.first + d.size - 1
  BY DEF IsBuffer, Strippable
<1>2. DOMAIN m = DOMAIN d.bytes
  BY DEF MoveHeader
<1>3. \A i \in 0 .. 5 : out + i \in DOMAIN m /\ m[out + i] = ByteAt(d, i)
  <2> TAKE i \in 0 .. 5
  <2>1. out + i \in DOMAIN d.bytes /\ out + i \in out .. out + PRI_HDR_SIZE - 1
    BY <1>1
  <2>2. m[out + i] = d.bytes[(out + i) - SEC_HDR_SIZE]
    BY <2>1 DEF MoveHeader
  <2>3. (out + i) - SEC_HDR_SIZE = d.first + i
    BY <1>1
  <2> QED
    BY <1>2, <2>1, <2>2, <2>3 DEF ByteAt
<1>4. \A j \in DOMAIN d.bytes \ (out .. out + 5) : m[j] = d.bytes[j]
  BY <1>1 DEF MoveHeader
<1>5. s.bytes = [m EXCEPT ![out] = ClearFlag(@, SEC_HDR_FLAG),
                          ![out + LENGTH_OFFSET] = LengthToken(d) \div 256,
                          ![out + LENGTH_OFFSET + 1] = LengthToken(d) % 256]
  BY Zenon DEF Strip
<1>6. s.first = out /\ s.size = d.size - SEC_HDR_SIZE /\ s.hasSecHdr = FALSE
  BY Zenon DEF Strip
<1> HIDE DEF m, s
<1>7. DOMAIN s.bytes = DOMAIN d.bytes
  BY <1>2, <1>5
<1>8. out \in Nat /\ \A j \in DOMAIN d.bytes : j \in Int
  BY <1>1
<1> HIDE DEF out
<1>9. s.bytes[out] = ClearFlag(m[out], SEC_HDR_FLAG)
  BY <1>2, <1>3, <1>5, <1>8
<1>10. \A i \in 1 .. 3 : s.bytes[out + i] = m[out + i]
  BY <1>2, <1>3, <1>5, <1>8
<1>11. s.bytes[out + 4] = LengthToken(d) \div 256
  BY <1>2, <1>3, <1>5, <1>8
<1>12. s.bytes[out + 5] = LengthToken(d) % 256
  BY <1>2, <1>3, <1>5, <1>8
<1>13. \A j \in DOMAIN d.bytes \ (out .. out + 5) : s.bytes[j] = m[j]
  BY <1>2, <1>3, <1>5, <1>8
<1> QED
  BY <1>3, <1>4, <1>6, <1>7, <1>8, <1>9, <1>10, <1>11, <1>12, <1>13 DEF out, s

LEMMA StripTyped ==
  ASSUME NEW d, IsBuffer(d), Strippable(d)
  PROVE  IsBuffer(Strip(d))
<1> DEFINE out == d.first + SEC_HDR_SIZE
           s == Strip(d)
<1>1. d.first \in Nat /\ d.size \in Nat /\ d.size >= 17
      /\ DOMAIN d.bytes = 0 .. d.first + d.size - 1
  BY DEF IsBuffer, Strippable
<1>2. s.first \in Nat /\ s.size \in Nat /\ s.hasSecHdr \in BOOLEAN
  <2>1. s.first = d.first + SEC_HDR_SIZE /\ s.size = d.size - SEC_HDR_SIZE
    BY StripBytes
  <2>2. s.hasSecHdr \in BOOLEAN
    BY Zenon DEF Strip
  <2> HIDE DEF s
  <2> QED
    BY <1>1, <2>1, <2>2
<1>3. s.first + s.size - 1 = d.first + d.size - 1
  <2>1. s.first = d.first + SEC_HDR_SIZE /\ s.size = d.size - SEC_HDR_SIZE
    BY StripBytes
  <2> HIDE DEF s
  <2> QED
    BY <1>1, <2>1
<1>4. DOMAIN s.bytes = 0 .. d.first + d.size - 1
  BY <1>1, StripBytes
<1>5. s.bytes[out] \in Byte /\ \A i \in 1 .. 3 : s.bytes[out + i] \in Byte
  <2>1. s.bytes[out] = ClearFlag(ByteAt(d, 0), SEC_HDR_FLAG)
        /\ \A i \in 1 .. 3 : s.bytes[out + i] = ByteAt(d, i)
    BY StripBytes
  <2>2. \A i \in 0 .. 3 : ByteAt(d, i) \in Byte
    BY <1>1, WindowTyped
  <2> HIDE DEF s, out
  <2> QED
    BY <2>1, <2>2, FlagCleared
<1>6. s.bytes[out + 4] \in Byte /\ s.bytes[out + 5] \in Byte
  <2>1. s.bytes[out + 4] = LengthToken(d) \div 256
        /\ s.bytes[out + 5] = LengthToken(d) % 256
    BY StripBytes
  <2>2. LengthToken(d) \in Nat /\ LengthToken(d) < 65536
    BY <1>1, LengthTyped
  <2> HIDE DEF s, out
  <2> QED
    BY <2>1, <2>2, TwoBytes
<1>7. \A j \in DOMAIN d.bytes \ (out .. out + 5) : s.bytes[j] \in Byte
  BY StripBytes DEF IsBuffer
<1>8. s.bytes = [j \in DOMAIN s.bytes |-> s.bytes[j]]
  BY DEF Strip, MoveHeader
<1>9. \A j \in DOMAIN s.bytes : s.bytes[j] \in Byte
  <2> HIDE DEF s, out
  <2> SUFFICES ASSUME NEW j \in DOMAIN s.bytes, j \in out .. out + 5
               PROVE  s.bytes[j] \in Byte
    BY <1>1, <1>4, <1>7
  <2>1. out \in Int /\ j \in Int
    BY <1>1, <1>4 DEF out
  <2>2. j = out \/ j = out + 1 \/ j = out + 2 \/ j = out + 3 \/ j = out + 4 \/ j = out + 5
    BY <2>1
  <2> QED
    BY <1>5, <1>6, <2>2
<1> HIDE DEF s, out
<1>10. s.bytes \in [0 .. s.first + s.size - 1 -> Byte]
  BY <1>3, <1>4, <1>8, <1>9
<1> QED
  BY <1>2, <1>10 DEF IsBuffer, s

\* Requirement 002 of one packet.
LEMMA StripFaithful ==
  ASSUME NEW d, IsBuffer(d), Strippable(d)
  PROVE  /\ ~HasSecHdr(Strip(d)) /\ ~Strip(d).hasSecHdr
         /\ SameFields(Strip(d), d)
         /\ SamePayload(Strip(d), d, SEC_HDR_SIZE)
<1> DEFINE out == d.first + SEC_HDR_SIZE
           s == Strip(d)
<1>1. d.first \in Nat /\ d.size \in Nat /\ d.size >= 17
      /\ DOMAIN d.bytes = 0 .. d.first + d.size - 1
  BY DEF IsBuffer, Strippable
<1>2. s.first = out /\ s.size = d.size - SEC_HDR_SIZE /\ s.hasSecHdr = FALSE
  BY StripBytes
<1>3. s.bytes[out] = ClearFlag(ByteAt(d, 0), SEC_HDR_FLAG)
      /\ \A i \in 1 .. 3 : s.bytes[out + i] = ByteAt(d, i)
  BY StripBytes
<1>4. \A j \in DOMAIN d.bytes \ (out .. out + 5) : s.bytes[j] = d.bytes[j]
  BY StripBytes
<1>5. ByteAt(d, 0) \in Byte
  BY <1>1, WindowTyped
<1> HIDE DEF s
<1>6. ByteAt(s, 0) = ClearFlag(ByteAt(d, 0), SEC_HDR_FLAG)
  <2>1. ByteAt(s, 0) = s.bytes[s.first + 0] /\ s.first + 0 = out
    BY <1>1, <1>2 DEF ByteAt
  <2> QED
    BY <1>3, <2>1
<1>7. \A i \in 1 .. 3 : ByteAt(s, i) = ByteAt(d, i)
  BY <1>1, <1>2, <1>3 DEF ByteAt
<1>8. ~HasSecHdr(s) /\ SameFields(s, d)
  BY <1>5, <1>6, <1>7, FlagCleared DEF HasSecHdr, SameFields
<1>9. ASSUME NEW i \in PRI_HDR_SIZE .. s.size - 1
      PROVE  ByteAt(s, i) = ByteAt(d, i + SEC_HDR_SIZE)
  <2>1. out + i \in DOMAIN d.bytes \ (out .. out + 5)
        /\ out + i = d.first + (i + SEC_HDR_SIZE)
    BY <1>1, <1>2
  <2> QED
    BY <1>2, <1>4, <2>1 DEF ByteAt
<1>10. SamePayload(s, d, SEC_HDR_SIZE)
  BY <1>1, <1>2, <1>9 DEF SamePayload
<1> QED
  BY <1>2, <1>8, <1>10 DEF s

\* Requirement 003 of one packet.
LEMMA StripRewritesHeader ==
  ASSUME NEW d, IsBuffer(d), Strippable(d)
  PROVE  RewritesOnlyHeader(Strip(d), d)
<1> DEFINE s == Strip(d)
<1>1. d.first \in Nat
  BY DEF IsBuffer
<1>2. /\ s.first = d.first + SEC_HDR_SIZE
      /\ DOMAIN s.bytes = DOMAIN d.bytes
      /\ \A j \in DOMAIN d.bytes \ (d.first + SEC_HDR_SIZE .. d.first + SEC_HDR_SIZE + 5) :
           s.bytes[j] = d.bytes[j]
  BY StripBytes
<1> HIDE DEF s
<1>3. s.first + PRI_HDR_SIZE - 1 = d.first + SEC_HDR_SIZE + 5
  BY <1>1, <1>2
<1> QED
  BY <1>2, <1>3 DEF RewritesOnlyHeader, s

\* A complete packet is stripped to a complete packet.
LEMMA StripComplete ==
  ASSUME NEW d, IsBuffer(d), Strippable(d), Complete(d)
  PROVE  Complete(Strip(d))
<1> DEFINE s == Strip(d)
<1>1. d.first \in Nat /\ d.size \in Nat /\ d.size >= 17 /\ LengthField(d) = d.size - 7
  BY DEF IsBuffer, Strippable, Complete
<1>2. /\ LengthToken(d) = d.size - 17
      /\ LengthToken(d) \in Nat /\ LengthToken(d) < 65536
  BY <1>1, LengthTyped
<1>3. s.first = d.first + SEC_HDR_SIZE /\ s.size = d.size - SEC_HDR_SIZE
      /\ s.bytes[d.first + SEC_HDR_SIZE + 4] = LengthToken(d) \div 256
      /\ s.bytes[d.first + SEC_HDR_SIZE + 5] = LengthToken(d) % 256
  BY StripBytes
<1> HIDE DEF s
<1>4. ByteAt(s, LENGTH_OFFSET) = LengthToken(d) \div 256
      /\ ByteAt(s, LENGTH_OFFSET + 1) = LengthToken(d) % 256
  BY <1>1, <1>3 DEF ByteAt
<1>5. LengthField(s) = LengthToken(d)
  BY <1>2, <1>4, TwoBytes DEF LengthField
<1> QED
  BY <1>1, <1>2, <1>3, <1>5 DEF Complete, s

-----------------------------------------------------------------------------
\* A buffer downstream is what the handler makes of the packet it was sent
\* with; one that is too short is with the bridge, as it was sent, and reported.
IInv ==
  /\ TypeOK
  /\ \A b \in Buffers :
       /\ owner[b] = "downstream" =>
            /\ data[b] = Forwarded(sent[b])
            /\ sent[b].size >= PRI_HDR_SIZE
       /\ b \in malformed <=> b \in arrived /\ sent[b].size < PRI_HDR_SIZE
       /\ b \in malformed => owner[b] = "bridge" /\ data[b] = sent[b]

LEMMA ForwardedTyped ==
  ASSUME NEW d, IsBuffer(d)
  PROVE  IsBuffer(Forwarded(d))
BY StripTyped DEF Forwarded

LEMMA ArrivingTyped ==
  ASSUME NEW p \in Packets \union {NoPacket}, NEW h \in BOOLEAN
  PROVE  IsBuffer(Arriving(p, h))
<1>1. p.size \in Nat /\ p.bytes \in [0 .. p.size - 1 -> Byte]
  <2>1. CASE p \in Packets
    BY <2>1, PacketsAssumption
  <2>2. CASE p = NoPacket
    <3>1. p.size = 0 /\ p.bytes = [i \in {} |-> 0]
      BY <2>2 DEF NoPacket
    <3>2. 0 .. p.size - 1 = {}
      BY <3>1
    <3>3. p.bytes \in [{} -> Byte]
      BY <3>1
    <3> QED
      BY <3>1, <3>2, <3>3
  <2> QED
    BY <2>1, <2>2
<1>2. 0 + p.size - 1 = p.size - 1
  BY <1>1
<1> QED
  BY <1>1, <1>2 DEF Arriving, IsBuffer

LEMMA InitEstablishes == Init => IInv
<1> SUFFICES ASSUME Init PROVE IInv
  OBVIOUS
<1>1. IsBuffer(Arriving(NoPacket, FALSE))
  BY ArrivingTyped
<1> QED
  BY <1>1 DEF Init, IInv, TypeOK

LEMMA InvariantStep == IInv /\ [Next]_vars => IInv'
<1> SUFFICES ASSUME IInv, [Next]_vars PROVE IInv'
  OBVIOUS
<1> USE DEF IInv, TypeOK
<1>1. ASSUME NEW b \in Buffers, NEW p \in Packets, NEW h \in BOOLEAN, DataIn(b, p, h)
      PROVE  IInv'
  <2> DEFINE d == Arriving(p, h)
  <2>1. IsBuffer(d) /\ IsBuffer(Forwarded(d))
    BY ArrivingTyped, ForwardedTyped
  <2> HIDE DEF d
  <2>2. CASE d.size < PRI_HDR_SIZE
    BY <1>1, <2>1, <2>2 DEF DataIn, d
  <2>3. CASE ~(d.size < PRI_HDR_SIZE)
    <3>1. d.size >= PRI_HDR_SIZE
      BY <2>1, <2>3 DEF IsBuffer
    <3> QED
      BY <1>1, <2>1, <2>3, <3>1 DEF DataIn, d
  <2> QED
    BY <2>2, <2>3
<1>2. ASSUME NEW b \in Buffers, DataReturnIn(b)
      PROVE  IInv'
  BY <1>2 DEF DataReturnIn
<1>3. ASSUME NEW condition \in Statuses, ComStatusIn(condition)
      PROVE  IInv'
  BY <1>3 DEF ComStatusIn
<1>4. CASE UNCHANGED vars
  BY <1>4 DEF vars
<1> QED
  BY <1>1, <1>2, <1>3, <1>4 DEF Next

LEMMA Invariant == Spec => []IInv
BY InitEstablishes, InvariantStep, PTL DEF Spec

\* Buffers keep their windows inside their storage.
THEOREM TypeCorrect == Spec => []TypeOK
<1>1. IInv => TypeOK
  BY DEF IInv
<1> QED
  BY <1>1, Invariant, PTL

\* Requirement 002, for packets of every size and content.
THEOREM StrippingIsFaithful == Spec => []StrippedPacketFaithful
<1>1. IInv => StrippedPacketFaithful
  BY StripFaithful DEF IInv, TypeOK, StrippedPacketFaithful, Forwarded
<1> QED
  BY <1>1, Invariant, PTL

\* The receiver finds the end of every packet whose length field was right.
THEOREM CompletenessIsKept == Spec => []CompletePacketsStayComplete
<1>1. IInv => CompletePacketsStayComplete
  BY StripComplete DEF IInv, TypeOK, CompletePacketsStayComplete, Forwarded
<1> QED
  BY <1>1, Invariant, PTL

\* Requirement 003.
THEOREM StrippingIsInPlace == Spec => []StripsInPlace
<1>1. ASSUME IInv, NEW b \in Buffers, owner[b] = "downstream"
      PROVE  RewritesOnlyHeader(data[b], sent[b])
  <2>1. IsBuffer(sent[b]) /\ data[b] = Forwarded(sent[b])
    BY <1>1 DEF IInv, TypeOK
  <2>2. CASE Strippable(sent[b])
    BY <2>1, <2>2, StripRewritesHeader DEF Forwarded
  <2>3. CASE ~Strippable(sent[b])
    BY <2>1, <2>3 DEF Forwarded, RewritesOnlyHeader
  <2> QED
    BY <2>2, <2>3
<1>2. IInv => StripsInPlace
  BY <1>1 DEF StripsInPlace
<1> QED
  BY <1>2, Invariant, PTL

\* Requirement 004.
THEOREM OthersPassUntouched == Spec => []OthersUntouched
<1>1. IInv => OthersUntouched
  BY DEF IInv, OthersUntouched, Forwarded, Strippable
<1> QED
  BY <1>1, Invariant, PTL

\* Requirement 005, for any number of buffers and every history of each.
THEOREM ShortBuffersAreReturned == Spec => []ShortBuffersComeBack
<1>1. IInv => ShortBuffersComeBack
  BY DEF IInv, TypeOK, ShortBuffersComeBack, ShortBuffers
<1> QED
  BY <1>1, Invariant, PTL
=============================================================================
