--------------------------- MODULE DownlinkProofs ---------------------------
(***************************************************************************)
(* Proofs about Downlink, for pipes and frames of every size and any       *)
(* number of packets: type correctness, the one permission of the bridge,  *)
(* its buffers, the order and the fate of every packet, and that the       *)
(* downlink is a lossy FIFO channel.                                       *)
(*                                                                         *)
(* The invariant joins to them what is in the two tasks' hands at each     *)
(* step (Holdings), which status messages may be on their way while        *)
(* comStub does or does not owe one (StatusOwed, a property of its own),   *)
(* and that the books on packets are straight (Books, of OrderLemmas).     *)
(* StatusOwed and PermissionConserved then name a cause whenever the       *)
(* downlink stands still.                                                  *)
(***************************************************************************)
EXTENDS Downlink, OrderLemmas, TLAPS

USE PipeAssumption, SizesAssumption, BoundAssumption

\* A packet is held, and a frame filled, at certain steps only.
Holdings ==
  /\ aggregator = "filling" => held = <<>>
  /\ aggregator \in {"reporting", "waiting"} => frame = <<>>
  /\ ~started => aggregator = "waiting"

PacketBooks == Books(received, InTransit, published, MaxPublished, fate, "received")

IInv ==
  /\ TypeOK /\ Holdings /\ StatusOwed
  /\ PermissionConserved /\ BuffersComeBack /\ PacketBooks
-----------------------------------------------------------------------------
(* Packets and their turns.                                                 *)

LEMMA PacketTurns ==
  ASSUME NEW s \in Seq(Packets)
  PROVE  /\ Ids(s) \in Seq(Nat) /\ Len(Ids(s)) = Len(s)
         /\ IdSet(s) = ToSet(Ids(s))
<1>1. Turned(Packets, Nat)
  BY DEF Turned, Packets
<1>2. Ids(s) = Turns(s)
  BY DEF Ids, Turns
<1>3. /\ Ids(s) \in Seq(Nat) /\ Len(Ids(s)) = Len(s)
      /\ \A i \in 1 .. Len(s) : Ids(s)[i] = s[i].id
  BY <1>1, <1>2, TurnsTyped
<1>4. DOMAIN s = 1 .. Len(s) /\ DOMAIN Ids(s) = 1 .. Len(s)
  BY <1>3
<1>5. IdSet(s) = ToSet(Ids(s))
  BY <1>3, <1>4 DEF IdSet, ToSet
<1> QED
  BY <1>3, <1>5

LEMMA PacketIds ==
  /\ Ids(<<>>) = <<>>
  /\ \A p \in Packets : Ids(<<p>>) = <<p.id>> /\ <<p.id>> \in Seq(Nat)
  /\ \A s, t \in Seq(Packets) : Ids(s \o t) = Ids(s) \o Ids(t)
<1>1. Turned(Packets, Nat)
  BY DEF Turned, Packets
<1>2. \A s : Ids(s) = Turns(s)
  BY DEF Ids, Turns
<1>3. \A p \in Packets : <<p.id>> \in Seq(Nat)
  BY DEF Packets
<1> QED
  BY <1>1, <1>2, <1>3, TurnsOfEmpty, TurnsOfOne, TurnsOfConcat

\* The first packet of a queue, and the rest of it.
LEMMA FirstPacket ==
  ASSUME NEW s \in Seq(Packets), s # <<>>
  PROVE  /\ Head(s) \in Packets /\ Tail(s) \in Seq(Packets) /\ <<Head(s)>> \in Seq(Packets)
         /\ Len(Tail(s)) = Len(s) - 1 /\ Len(s) \in Nat \ {0}
         /\ Ids(s) = <<Head(s).id>> \o Ids(Tail(s))
         /\ <<Head(s).id>> \in Seq(Nat)
<1>1. /\ Head(s) \in Packets /\ Tail(s) \in Seq(Packets) /\ <<Head(s)>> \in Seq(Packets)
      /\ s = <<Head(s)>> \o Tail(s)
  BY HeadFirst
<1>2. Len(Tail(s)) = Len(s) - 1 /\ Len(s) \in Nat \ {0}
  OBVIOUS
<1>3. Ids(<<Head(s)>> \o Tail(s)) = Ids(<<Head(s)>>) \o Ids(Tail(s))
  BY <1>1, PacketIds
<1>4. Ids(<<Head(s)>>) = <<Head(s).id>> /\ <<Head(s).id>> \in Seq(Nat)
  BY <1>1, PacketIds
<1> QED
  BY <1>1, <1>2, <1>3, <1>4

\* A queue that ends with one more packet.
LEMMA LastPacket ==
  ASSUME NEW s \in Seq(Packets), NEW p \in Packets
  PROVE  /\ Append(s, p) \in Seq(Packets) /\ Len(Append(s, p)) = Len(s) + 1
         /\ Ids(Append(s, p)) = Ids(s) \o <<p.id>>
<1>1. Append(s, p) = s \o <<p>> /\ <<p>> \in Seq(Packets) /\ Append(s, p) \in Seq(Packets)
  BY AppendConcatenates
<1>2. Ids(s \o <<p>>) = Ids(s) \o Ids(<<p>>)
  BY <1>1, PacketIds
<1>3. Ids(<<p>>) = <<p.id>>
  BY PacketIds
<1>4. Len(Append(s, p)) = Len(s) + 1
  OBVIOUS
<1> QED
  BY <1>1, <1>2, <1>3, <1>4

\* The status messages that can be in the queue.
LEMMA StatusMessages ==
  /\ \A e \in Statuses : /\ Append(<<>>, e) = <<e>> /\ Tail(<<e>>) = <<>> /\ Head(<<e>>) = e
                        /\ <<e>> \in Seq(Statuses)
  /\ \A e, f \in Statuses : /\ Append(<<e>>, f) = <<e, f>> /\ Tail(<<e, f>>) = <<f>>
                           /\ Head(<<e, f>>) = e /\ <<e, f>> \in Seq(Statuses)
  /\ "SUCCESS" \in Statuses /\ "FAILURE" \in Statuses /\ <<>> \in Seq(Statuses)
<1>1. ASSUME NEW S, NEW e \in S
      PROVE  /\ Append(<<>>, e) = <<e>> /\ Tail(<<e>>) = <<>> /\ Head(<<e>>) = e
             /\ <<e>> \in Seq(S)
  OBVIOUS
<1>2. ASSUME NEW S, NEW e \in S, NEW f \in S
      PROVE  /\ Append(<<e>>, f) = <<e, f>> /\ Tail(<<e, f>>) = <<f>>
             /\ Head(<<e, f>>) = e /\ <<e, f>> \in Seq(S)
  <2>1. <<e>> \in Seq(S) /\ Len(<<e>>) = 1 /\ <<e, f>> \in Seq(S) /\ Len(<<e, f>>) = 2
    OBVIOUS
  <2>2. Head(<<e, f>>) = e
    BY <2>1
  <2>3. Append(<<e>>, f) = <<e, f>>
    <3>1. Append(<<e>>, f) \in Seq(S) /\ Len(Append(<<e>>, f)) = 2
      BY <2>1
    <3>2. \A i \in 1 .. 2 : Append(<<e>>, f)[i] = <<e, f>>[i]
      BY <2>1
    <3> QED
      BY <2>1, <3>1, <3>2, SeqEqual
  <2>4. Tail(<<e, f>>) = <<f>>
    <3>1. Tail(<<e, f>>) \in Seq(S) /\ Len(Tail(<<e, f>>)) = 1 /\ Tail(<<e, f>>)[1] = <<e, f>>[2]
      BY <2>1, HeadTailProperties
    <3>2. <<f>> \in Seq(S) /\ Len(<<f>>) = 1 /\ \A i \in 1 .. 1 : <<f>>[i] = Tail(<<e, f>>)[i]
      BY <3>1
    <3> QED
      BY <3>1, <3>2, SeqEqual
  <2> QED
    BY <2>1, <2>2, <2>3, <2>4
<1>3. "SUCCESS" \in Statuses /\ "FAILURE" \in Statuses /\ <<>> \in Seq(Statuses)
  BY DEF Statuses
<1> QED
  BY <1>1, <1>2, <1>3
-----------------------------------------------------------------------------
(* The invariant.                                                           *)

LEMMA InitInvariant == Init => IInv
<1> SUFFICES ASSUME Init PROVE IInv
  OBVIOUS
<1>1. /\ <<>> \in Seq(Packets) /\ <<>> \in Seq(1 .. MaxPublished) /\ <<>> \in Seq(Statuses)
      /\ Len(<<>>) = 0 /\ \A n : <<>> \in Seq(1 .. n)
  OBVIOUS
<1>2. fate \in [1 .. MaxPublished -> Fates] /\ \A i \in 1 .. MaxPublished : fate[i] = "none"
  BY DEF Init, Fates
<1>3. TypeOK
  <2>1. pipe = <<>> /\ Len(pipe) <= PipeDepth /\ lent \in SUBSET (1 .. MaxPublished)
    BY <1>1 DEF Init
  <2>2. published \in 0 .. MaxPublished /\ loop \in {"setup", "process", "cycle"}
    BY DEF Init
  <2>3. /\ permission \in BOOLEAN /\ tick \in BOOLEAN /\ started \in BOOLEAN
        /\ sentOk \in BOOLEAN /\ reinit \in BOOLEAN
    BY DEF Init
  <2>4. /\ pipe \in Seq(Packets) /\ input \in Seq(Packets) /\ statuses \in Seq(Statuses)
        /\ frame \in Seq(Packets) /\ held \in Seq(Packets) /\ received \in Seq(1 .. MaxPublished)
    BY <1>1 DEF Init
  <2>5. /\ aggregator \in {"filling", "sending", "reporting", "waiting"}
        /\ client \in {"none", "accepted", "ready"}
    BY DEF Init
  <2> QED
    BY <1>2, <2>1, <2>3, <2>4, <2>5, <2>2 DEF TypeOK
<1>4. Holdings /\ StatusOwed
  BY DEF Init, Holdings, StatusOwed
<1>5. ~Malformed
  BY <1>2 DEF Malformed
<1>6. PermissionConserved
  BY <1>1, <1>5 DEF Init, PermissionConserved, Count
<1>7. BuffersComeBack
  BY DEF Init, BuffersComeBack, IdSet
<1>8. InTransit = <<>> /\ received \o InTransit = <<>>
  <2>1. <<>> \in Seq(Nat) /\ <<>> \o <<>> = <<>>
    BY ConcatEmptySeq
  <2> QED
    BY <2>1, PacketIds DEF Init, InTransit
<1>9. PacketBooks
  <2>1. Increasing(<<>>)
    BY DEF Increasing
  <2>2. published = 0 /\ received = <<>> /\ \A i \in 1 .. MaxPublished : i > published
    BY DEF Init
  <2> QED
    BY <1>1, <1>2, <1>8, <2>1, <2>2, SetOfEmpty DEF PacketBooks, Books
<1> QED
  BY <1>3, <1>4, <1>6, <1>7, <1>9 DEF IInv

\* What the turns in transit are made of.
LEMMA TransitTyped ==
  ASSUME TypeOK
  PROVE  /\ Ids(frame) \in Seq(Nat) /\ Ids(held) \in Seq(Nat) /\ Ids(input) \in Seq(Nat)
         /\ Ids(pipe) \in Seq(Nat) /\ Ids(frame) \o Ids(held) \in Seq(Nat)
         /\ Ids(frame) \o Ids(held) \o Ids(input) \in Seq(Nat)
         /\ Ids(held) \o Ids(input) \in Seq(Nat)
         /\ Ids(held) \o Ids(input) \o Ids(pipe) \in Seq(Nat)
         /\ InTransit = Ids(frame) \o (Ids(held) \o Ids(input) \o Ids(pipe))
<1>1. /\ Ids(frame) \in Seq(Nat) /\ Ids(held) \in Seq(Nat) /\ Ids(input) \in Seq(Nat)
      /\ Ids(pipe) \in Seq(Nat)
  BY PacketTurns DEF TypeOK
<1>2. Ids(frame) \o Ids(held) \in Seq(Nat) /\ Ids(held) \o Ids(input) \in Seq(Nat)
  BY <1>1, ConcatNat
<1>3. /\ Ids(frame) \o Ids(held) \o Ids(input) \in Seq(Nat)
      /\ Ids(held) \o Ids(input) \o Ids(pipe) \in Seq(Nat)
  BY <1>1, <1>2, ConcatNat
<1>4. Ids(frame) \o Ids(held) \o Ids(input) = Ids(frame) \o (Ids(held) \o Ids(input))
  BY <1>1, ConcatNat
<1>5. (Ids(frame) \o (Ids(held) \o Ids(input))) \o Ids(pipe)
        = Ids(frame) \o ((Ids(held) \o Ids(input)) \o Ids(pipe))
  BY <1>1, <1>2, ConcatNat
<1> QED
  BY <1>1, <1>2, <1>3, <1>4, <1>5 DEF InTransit

\* No packet that is lost or received now was malformed before.
LEMMA MalformedKept ==
  ASSUME TypeOK, fate' \in [1 .. MaxPublished -> Fates],
         \A i \in 1 .. MaxPublished : fate'[i] # fate[i] => fate[i] = "none" /\ fate'[i] # "malformed"
  PROVE  Malformed' = Malformed
<1>1. DOMAIN fate = 1 .. MaxPublished /\ DOMAIN fate' = 1 .. MaxPublished
  BY DEF TypeOK
<1>2. \A i \in 1 .. MaxPublished : fate[i] = "malformed" <=> fate'[i] = "malformed"
  OBVIOUS
<1>3. Malformed' = \E i \in 1 .. MaxPublished : fate'[i] = "malformed"
  BY <1>1 DEF Malformed
<1>4. Malformed = \E i \in 1 .. MaxPublished : fate[i] = "malformed"
  BY <1>1 DEF Malformed
<1> QED
  BY <1>2, <1>3, <1>4, Zenon

\* Where the one permission is, and that it is nowhere else.
LEMMA OnePermission ==
  ASSUME TypeOK, PermissionConserved
  PROVE  /\ permission => input = <<>> /\ held = <<>> /\ started /\ ~Malformed
         /\ input # <<>> => ~permission /\ Len(input) = 1 /\ held = <<>> /\ started /\ ~Malformed
         /\ held # <<>> => ~permission /\ Len(held) = 1 /\ input = <<>> /\ started /\ ~Malformed
         /\ ~started => ~permission /\ input = <<>> /\ held = <<>> /\ ~Malformed
<1>1. /\ Len(input) \in Nat /\ (Len(input) = 0 <=> input = <<>>)
      /\ Len(held) \in Nat /\ (Len(held) = 0 <=> held = <<>>)
  BY DEF TypeOK
<1>2. /\ Count(permission) \in {0, 1} /\ (permission => Count(permission) = 1)
      /\ Count(~started) \in {0, 1} /\ (~started => Count(~started) = 1)
      /\ Count(Malformed) \in {0, 1} /\ (Malformed => Count(Malformed) = 1)
      /\ (~permission \/ Count(permission) = 1)
  BY DEF Count
<1> DEFINE a == Count(permission)
           b == Count(~started)
           c == Count(Malformed)
           u == Len(input)
           v == Len(held)
<1>3. a + u + v + b + c = 1
  BY DEF PermissionConserved
<1>4. u \in Nat /\ v \in Nat
  BY <1>1
<1> HIDE DEF a, b, c, u, v
<1>5. /\ a \in {0, 1} /\ b \in {0, 1} /\ c \in {0, 1}
      /\ permission => a = 1
      /\ ~started => b = 1
      /\ Malformed => c = 1
  BY <1>2 DEF a, b, c
<1>6. /\ u # 0 => a = 0 /\ u = 1 /\ v = 0 /\ b = 0 /\ c = 0
      /\ v # 0 => a = 0 /\ v = 1 /\ u = 0 /\ b = 0 /\ c = 0
      /\ a = 1 => u = 0 /\ v = 0 /\ b = 0 /\ c = 0
      /\ b = 1 => a = 0 /\ u = 0 /\ v = 0 /\ c = 0
  BY <1>3, <1>5, <1>4
<1> QED
  BY <1>1, <1>5, <1>6 DEF u, v

\* Steps that move no packet.
LEMMA SameBooks ==
  ASSUME PacketBooks, UNCHANGED <<received, fate, published, pipe, input, frame, held>>
  PROVE  PacketBooks'
BY DEF PacketBooks, InTransit

\* Steps that neither move a packet nor touch the bridge's turn.
LEMMA SameTurn ==
  ASSUME IInv, UNCHANGED <<received, fate, published, pipe, input, frame, held, turnVars, started>>
  PROVE  PacketBooks' /\ PermissionConserved' /\ BuffersComeBack'
<1>1. PacketBooks'
  BY SameBooks DEF IInv
<1>2. PermissionConserved'
  BY DEF IInv, PermissionConserved, Malformed, turnVars
<1>3. BuffersComeBack'
  BY DEF IInv, BuffersComeBack, turnVars
<1> QED
  BY <1>1, <1>2, <1>3
-----------------------------------------------------------------------------
(* The software bus and the main task.                                      *)

LEMMA PublishStep ==
  ASSUME IInv, NEW size \in Sizes, Publish(size)
  PROVE  IInv'
<1> DEFINE p == [id |-> published + 1, size |-> size]
<1>1. TypeOK /\ published \in Nat /\ published < MaxPublished /\ published + 1 \in 1 .. MaxPublished
  BY DEF IInv, TypeOK, Publish
<1>2. p \in Packets /\ p.id = published + 1
  BY <1>1 DEF Packets
<1>3. UNCHANGED <<input, held, lent, permission, started, received, frame, aggregator, statuses, reinit>>
  BY DEF Publish, turnVars, aggVars, linkVars
<1>4. Holdings' /\ StatusOwed' /\ BuffersComeBack'
  BY <1>3 DEF IInv, Holdings, StatusOwed, BuffersComeBack
<1>5. CASE Len(pipe) < PipeDepth
  <2>1. pipe' = Append(pipe, p) /\ fate' = fate /\ published' = published + 1
    BY <1>5 DEF Publish
  <2>2. /\ pipe' \in Seq(Packets) /\ Len(pipe') = Len(pipe) + 1
        /\ Ids(pipe') = Ids(pipe) \o <<published + 1>>
    BY <1>1, <1>2, <2>1, LastPacket DEF TypeOK
  <2>3. Len(pipe') <= PipeDepth
    BY <1>1, <1>5, <2>2 DEF TypeOK
  <2>4. TypeOK'
    BY <1>1, <1>3, <2>1, <2>2, <2>3 DEF TypeOK, Publish, turnVars, aggVars, linkVars
  <2>5. InTransit' = InTransit \o <<published + 1>>
    <3>1. InTransit' = Ids(frame) \o Ids(held) \o Ids(input) \o (Ids(pipe) \o <<published + 1>>)
      BY <1>3, <2>2 DEF InTransit
    <3> DEFINE X == Ids(frame) \o Ids(held) \o Ids(input)
    <3>2. X \in Seq(Nat) /\ Ids(pipe) \in Seq(Nat)
      BY <1>1, TransitTyped
    <3>3. <<published + 1>> \in Seq(Nat)
      BY <1>1
    <3>4. InTransit = X \o Ids(pipe) /\ InTransit' = X \o (Ids(pipe) \o <<published + 1>>)
      BY <3>1 DEF InTransit
    <3> HIDE DEF X
    <3> QED
      BY <3>2, <3>3, <3>4, ConcatNat
  <2>6. PacketBooks'
    BY <1>1, <1>3, <2>1, <2>5, BooksSetOut DEF IInv, PacketBooks
  <2>7. PermissionConserved'
    BY <1>3, <2>1 DEF IInv, PermissionConserved, Malformed
  <2> QED
    BY <1>4, <2>4, <2>6, <2>7 DEF IInv
<1>6. CASE ~(Len(pipe) < PipeDepth)
  <2>1. /\ pipe' = pipe /\ published' = published + 1
        /\ fate' = [fate EXCEPT ![published + 1] = "dropped"]
    BY <1>6 DEF Publish
  <2>2. /\ fate' \in [1 .. MaxPublished -> Fates] /\ fate'[published + 1] = "dropped"
        /\ \A i \in 1 .. MaxPublished : i # published + 1 => fate'[i] = fate[i]
    BY <1>1, <2>1 DEF TypeOK, Fates
  <2>3. TypeOK'
    BY <1>1, <1>3, <2>1, <2>2 DEF TypeOK, Publish, turnVars, aggVars, linkVars
  <2>4. InTransit' = InTransit
    BY <1>3, <2>1 DEF InTransit
  <2>5. Books(received, InTransit, published + 1, MaxPublished, fate', "received")
    BY <1>1, <2>2, BooksTurnedAway DEF IInv, PacketBooks
  <2>6. PacketBooks'
    BY <1>3, <2>1, <2>4, <2>5 DEF PacketBooks
  <2>7. fate[published + 1] = "none"
    <3>1. published + 1 > published
      BY <1>1
    <3> QED
      BY <1>1, <3>1, BooksOpen DEF IInv, PacketBooks
  <2>8. Malformed' = Malformed
    BY <1>1, <2>2, <2>7, MalformedKept
  <2>9. PermissionConserved'
    BY <1>3, <2>8 DEF IInv, PermissionConserved
  <2> QED
    BY <1>4, <2>3, <2>6, <2>9 DEF IInv
<1> QED
  BY <1>5, <1>6

\* A packet goes through the stripper to the aggregator, or comes back.
LEMMA ProcessStep ==
  ASSUME IInv, Process
  PROVE  IInv'
<1> DEFINE h == Head(pipe)
           X == Ids(frame) \o Ids(held) \o Ids(input)
<1>1. TypeOK /\ pipe # <<>> /\ pipe' = Tail(pipe) /\ pipe \in Seq(Packets)
  BY DEF IInv, TypeOK, Process
<1>2. /\ h \in Packets /\ pipe' \in Seq(Packets) /\ Len(pipe') <= PipeDepth
      /\ Ids(pipe) = <<h.id>> \o Ids(pipe') /\ <<h.id>> \in Seq(Nat) /\ Ids(pipe') \in Seq(Nat)
      /\ h.id \in 1 .. MaxPublished
  <2>1. Len(pipe) \in Nat /\ Len(pipe) <= PipeDepth
    BY <1>1 DEF TypeOK
  <2>2. Len(pipe') <= PipeDepth
    BY <1>1, <2>1, FirstPacket
  <2>3. h \in Packets /\ h.id \in 1 .. MaxPublished
    BY <1>1, FirstPacket DEF Packets
  <2> QED
    BY <1>1, <2>2, <2>3, FirstPacket, PacketTurns
<1>3. /\ input = <<>> /\ held = <<>> /\ started /\ ~Malformed /\ permission' = FALSE
      /\ UNCHANGED <<published, started, aggregator, frame, held, statuses, reinit, received>>
  BY <1>1, OnePermission DEF IInv, Process, aggVars, linkVars
<1>4. Holdings' /\ StatusOwed'
  BY <1>3 DEF IInv, Holdings, StatusOwed
<1>5. X \in Seq(Nat) /\ InTransit = X \o (<<h.id>> \o Ids(pipe'))
  BY <1>1, <1>2, TransitTyped DEF InTransit
<1>6. CASE h.size = 0
  <2>1. /\ fate' = [fate EXCEPT ![h.id] = "malformed"] /\ UNCHANGED <<lent, input>>
    BY <1>6 DEF Process
  <2>2. /\ fate' \in [1 .. MaxPublished -> Fates] /\ fate'[h.id] = "malformed"
        /\ \A i \in 1 .. MaxPublished : i # h.id => fate'[i] = fate[i]
    BY <1>1, <1>2, <2>1 DEF TypeOK, Fates
  <2>3. TypeOK'
    BY <1>1, <1>2, <1>3, <2>1, <2>2 DEF TypeOK, Process, aggVars, linkVars
  <2>4. ToSet(<<h.id>>) = {h.id}
    BY SetOfOne
  <2>5. Books(received, X \o <<h.id>> \o Ids(pipe'), published, MaxPublished, fate, "received")
    BY <1>2, <1>5, ConcatNat DEF IInv, PacketBooks
  <2>6. Books(received, X \o Ids(pipe'), published, MaxPublished, fate', "received")
    <3>1. \A i \in 1 .. MaxPublished :
            IF i \in ToSet(<<h.id>>) THEN fate'[i] # "none" /\ fate'[i] # "received"
                                    ELSE fate'[i] = fate[i]
      BY <2>2, <2>4
    <3> HIDE DEF X, h
    <3> QED
      BY <1>2, <1>5, <2>5, <3>1, BooksLost
  <2>7. PacketBooks'
    BY <1>3, <2>1, <2>6 DEF PacketBooks, InTransit
  <2>8. Malformed'
    <3>1. DOMAIN fate' = 1 .. MaxPublished
      BY <2>2
    <3> QED
      BY <1>2, <2>2, <3>1 DEF Malformed
  <2>9. PermissionConserved'
    <3>1. Len(input') = 0 /\ Len(held') = 0
      BY <1>3, <2>1
    <3> QED
      BY <1>3, <2>8, <3>1 DEF PermissionConserved, Count
  <2>10. BuffersComeBack'
    BY <1>3, <2>1 DEF IInv, BuffersComeBack
  <2> QED
    BY <1>4, <2>3, <2>7, <2>9, <2>10 DEF IInv
<1>7. CASE h.size # 0
  <2>1. /\ fate' = fate /\ lent' = lent \union {h.id} /\ input' = Append(input, h)
    BY <1>7 DEF Process
  <2>2. /\ input' \in Seq(Packets) /\ Len(input') = Len(input) + 1
        /\ Ids(input') = Ids(input) \o <<h.id>>
    BY <1>1, <1>2, <2>1, LastPacket DEF TypeOK
  <2>3. TypeOK'
    BY <1>1, <1>2, <1>3, <2>1, <2>2 DEF TypeOK, Process, aggVars, linkVars
  <2>4. InTransit' = InTransit
    <3>1. InTransit' = Ids(frame) \o Ids(held) \o (Ids(input) \o <<h.id>>) \o Ids(pipe')
      BY <1>3, <2>2 DEF InTransit
    <3>2. Ids(frame) \o Ids(held) \o (Ids(input) \o <<h.id>>) = X \o <<h.id>>
      <4> DEFINE Y == Ids(frame) \o Ids(held)
      <4>1. Y \in Seq(Nat) /\ Ids(input) \in Seq(Nat)
        BY <1>1, TransitTyped
      <4> HIDE DEF Y
      <4>2. Y \o (Ids(input) \o <<h.id>>) = (Y \o Ids(input)) \o <<h.id>>
        BY <1>2, <4>1, ConcatNat
      <4> QED
        BY <4>2 DEF Y
    <3>3. (X \o <<h.id>>) \o Ids(pipe') = X \o (<<h.id>> \o Ids(pipe'))
      BY <1>2, <1>5, ConcatNat
    <3> QED
      BY <1>5, <3>1, <3>2, <3>3
  <2>5. PacketBooks'
    BY <1>3, <2>1, <2>4 DEF IInv, PacketBooks
  <2>6. PermissionConserved'
    <3>1. Len(input') = 1 /\ Len(held') = 0
      BY <1>3, <2>2
    <3>2. ~Malformed'
      BY <1>3, <2>1 DEF Malformed
    <3> QED
      BY <1>3, <3>1, <3>2 DEF PermissionConserved, Count
  <2>7. BuffersComeBack'
    <3>1. IdSet(input) = {} /\ IdSet(held) = {} /\ IdSet(held') = {}
      BY <1>3 DEF IdSet
    <3>2. input' = <<h>>
      BY <1>3, <2>1
    <3>3. IdSet(input') = {h.id}
      BY <3>2 DEF IdSet
    <3> QED
      BY <2>1, <3>1, <3>3 DEF IInv, BuffersComeBack
  <2> QED
    BY <1>4, <2>3, <2>5, <2>6, <2>7 DEF IInv
<1> QED
  BY <1>6, <1>7

LEMMA MainStep ==
  ASSUME IInv, MainTask
  PROVE  IInv'
<1>1. CASE SetupDone
  BY <1>1, SameTurn DEF SetupDone, IInv, TypeOK, Holdings, StatusOwed, busVars, turnVars, aggVars, linkVars, history
<1>2. CASE ProcessIdle
  BY <1>2, SameTurn DEF ProcessIdle, IInv, TypeOK, Holdings, StatusOwed, busVars, turnVars, aggVars, linkVars, history
<1>3. CASE CycleTick
  BY <1>3, SameTurn DEF CycleTick, Timeout, IInv, TypeOK, Holdings, StatusOwed, busVars, turnVars, aggVars, linkVars, history
<1>4. CASE CycleIdle
  BY <1>4, SameTurn DEF CycleIdle, IInv, TypeOK, Holdings, StatusOwed, busVars, turnVars, aggVars, linkVars, history
<1> QED
  BY <1>1, <1>2, <1>3, <1>4, ProcessStep DEF MainTask
-----------------------------------------------------------------------------
(* The aggregator's task.                                                   *)

\* A packet goes into the frame, or is held for the next one.
LEMMA TakePacketStep ==
  ASSUME IInv, TakePacket
  PROVE  IInv'
<1> DEFINE h == Head(input)
           F == Ids(frame)
           I == Ids(input')
           P == Ids(pipe)
<1>1. TypeOK /\ input # <<>> /\ input' = Tail(input) /\ input \in Seq(Packets) /\ aggregator = "filling"
  BY DEF IInv, TypeOK, TakePacket
<1>2. /\ ~permission /\ Len(input) = 1 /\ held = <<>> /\ started /\ ~Malformed
      /\ statuses = <<>> /\ ~reinit
      /\ UNCHANGED <<published, pipe, loop, tick, statuses, started, sentOk, reinit, client, received, fate>>
  BY <1>1, OnePermission DEF IInv, StatusOwed, TakePacket, busVars, linkVars, history
<1>3. /\ h \in Packets /\ <<h>> \in Seq(Packets) /\ input' \in Seq(Packets) /\ Len(input') = 0
      /\ Ids(input) = <<h.id>> \o I /\ <<h.id>> \in Seq(Nat) /\ I \in Seq(Nat)
  <2>1. /\ h \in Packets /\ <<h>> \in Seq(Packets) /\ input' \in Seq(Packets)
        /\ Len(input') = Len(input) - 1
        /\ Ids(input) = <<h.id>> \o I /\ <<h.id>> \in Seq(Nat)
    BY <1>1, FirstPacket
  <2>2. I \in Seq(Nat)
    BY <2>1, PacketTurns
  <2>3. Len(input') = 0
    BY <1>2, <2>1
  <2> QED
    BY <2>1, <2>2, <2>3
<1>4. /\ lent = {h.id} /\ IdSet(input') = {}
  <2>1. input' = <<>> /\ DOMAIN input = {1} /\ h = input[1]
    BY <1>1, <1>2, <1>3
  <2>2. IdSet(input') = {} /\ IdSet(input) = {h.id} /\ IdSet(held) = {}
    BY <1>2, <2>1 DEF IdSet
  <2> QED
    BY <2>2 DEF IInv, BuffersComeBack
<1>5. F \in Seq(Nat) /\ P \in Seq(Nat) /\ InTransit = F \o (<<h.id>> \o I) \o P
  <2>1. F \in Seq(Nat) /\ P \in Seq(Nat)
    BY <1>1, TransitTyped
  <2>2. Ids(held) = <<>> /\ F \o <<>> = F
    BY <1>2, <2>1, PacketIds, ConcatEmptySeq
  <2> QED
    BY <1>3, <2>1, <2>2 DEF InTransit
<1>6. F \o (<<h.id>> \o I) = (F \o <<h.id>>) \o I
  <2>1. F \in Seq(Nat) /\ I \in Seq(Nat) /\ <<h.id>> \in Seq(Nat)
    BY <1>3, <1>5
  <2> HIDE DEF F, I, h
  <2>2. \A u \in Seq(Nat) : F \o (u \o I) = (F \o u) \o I
    BY <2>1, ConcatNat
  <2> QED
    BY <2>1, <2>2
<1>7. ~Malformed'
  BY <1>2 DEF Malformed
<1>8. CASE Room(frame) + h.size <= FrameSize
  <2>1. /\ frame' = Append(frame, h) /\ aggregator' \in {"filling", "sending"}
        /\ lent' = lent \ {h.id} /\ permission' = TRUE /\ held' = held
    BY <1>8 DEF TakePacket, ReturnBuffer, GiveTurn
  <2>2. frame' \in Seq(Packets) /\ Ids(frame') = F \o <<h.id>>
    BY <1>1, <1>3, <2>1, LastPacket DEF TypeOK
  <2>3. TypeOK'
    BY <1>1, <1>2, <1>3, <2>1, <2>2 DEF TypeOK
  <2>4. Holdings' /\ StatusOwed'
    BY <1>2, <2>1 DEF Holdings, StatusOwed
  <2>5. PermissionConserved'
    <3>1. Len(held') = 0
      BY <1>2, <2>1
    <3> QED
      BY <1>2, <1>3, <1>7, <2>1, <3>1 DEF PermissionConserved, Count
  <2>6. BuffersComeBack'
    <3>1. IdSet(held') = {}
      BY <1>2, <2>1 DEF IdSet
    <3> QED
      BY <1>4, <2>1, <3>1 DEF BuffersComeBack
  <2>7. InTransit' = InTransit
    <3>1. Ids(held') = <<>> /\ (F \o <<h.id>>) \o <<>> = F \o <<h.id>>
      <4>1. F \o <<h.id>> \in Seq(Nat)
        BY <1>3, <1>5, ConcatNat
      <4> QED
        BY <1>2, <2>1, <4>1, PacketIds, ConcatEmptySeq
    <3> QED
      BY <1>2, <1>5, <1>6, <2>2, <3>1 DEF InTransit
  <2>8. PacketBooks'
    BY <1>2, <2>7 DEF IInv, PacketBooks
  <2> QED
    BY <2>3, <2>4, <2>5, <2>6, <2>8 DEF IInv
<1>9. CASE ~(Room(frame) + h.size <= FrameSize)
  <2>1. held' = <<h>> /\ aggregator' = "sending" /\ UNCHANGED <<permission, lent, frame>>
    BY <1>9 DEF TakePacket, turnVars
  <2>2. Len(held') = 1 /\ Ids(held') = <<h.id>> /\ held' \in Seq(Packets)
    BY <1>3, <2>1, PacketIds
  <2>3. TypeOK'
    BY <1>1, <1>2, <1>3, <2>1, <2>2 DEF TypeOK
  <2>4. Holdings' /\ StatusOwed'
    BY <1>2, <2>1 DEF Holdings, StatusOwed
  <2>5. PermissionConserved'
    BY <1>2, <1>3, <1>7, <2>1, <2>2 DEF PermissionConserved, Count
  <2>6. BuffersComeBack'
    <3>1. IdSet(held') = {h.id}
      BY <2>1 DEF IdSet
    <3> QED
      BY <1>4, <2>1, <3>1 DEF BuffersComeBack
  <2>7. InTransit' = InTransit
    BY <1>2, <1>5, <1>6, <2>1, <2>2 DEF InTransit
  <2>8. PacketBooks'
    BY <1>2, <2>7 DEF IInv, PacketBooks
  <2> QED
    BY <2>3, <2>4, <2>5, <2>6, <2>8 DEF IInv
<1> QED
  BY <1>8, <1>9

\* A frame reaches the client, or all of it is lost.
LEMMA DriverSendStep ==
  ASSUME IInv, NEW ok \in BOOLEAN, DriverSend(ok)
  PROVE  IInv'
<1> DEFINE F == Ids(frame)
           Y == Ids(held) \o Ids(input) \o Ids(pipe)
<1>1. /\ TypeOK /\ aggregator = "sending" /\ aggregator' = "reporting" /\ sentOk' = ok /\ frame' = <<>>
      /\ UNCHANGED <<published, pipe, loop, permission, lent, input, tick, statuses, started, held, reinit, client>>
  BY DEF IInv, DriverSend, busVars, turnVars
<1>2. PICK arrives \in {FALSE, ok} :
        /\ received' = IF arrives THEN received \o F ELSE received
        /\ fate' = [i \in DOMAIN fate |-> IF i \notin IdSet(frame) THEN fate[i]
                                          ELSE IF arrives THEN "received" ELSE "lost"]
  BY DEF DriverSend
<1>3. F \in Seq(Nat) /\ Y \in Seq(Nat) /\ InTransit = F \o Y /\ IdSet(frame) = ToSet(F)
  BY <1>1, TransitTyped, PacketTurns DEF TypeOK
<1>4. InTransit' = Y
  <2>1. Ids(frame') = <<>> /\ Ids(held) \in Seq(Nat) /\ <<>> \o Ids(held) = Ids(held)
    BY <1>1, PacketIds, TransitTyped, ConcatEmptySeq
  <2> QED
    BY <1>1, <2>1 DEF InTransit
<1>5. DOMAIN fate = 1 .. MaxPublished
  BY <1>1 DEF TypeOK
<1>6. fate' \in [1 .. MaxPublished -> Fates]
  BY <1>1, <1>2, <1>5 DEF TypeOK, Fates
<1>7. PacketBooks'
  <2> HIDE DEF F, Y
  <2>1. Books(received, F \o Y, published, MaxPublished, fate, "received")
    BY <1>3 DEF IInv, PacketBooks
  <2>2. CASE arrives
    <3>1. /\ received' = received \o F
          /\ \A i \in 1 .. MaxPublished : fate'[i] = IF i \in ToSet(F) THEN "received" ELSE fate[i]
      BY <1>2, <1>3, <1>5, <2>2
    <3>2. Books(received \o F, Y, published, MaxPublished, fate', "received")
      BY <1>3, <2>1, <3>1, BooksArrive
    <3> QED
      BY <1>1, <1>4, <3>1, <3>2 DEF PacketBooks
  <2>3. CASE ~arrives
    <3>1. /\ received' = received
          /\ \A i \in 1 .. MaxPublished :
               IF i \in ToSet(F) THEN fate'[i] # "none" /\ fate'[i] # "received" ELSE fate'[i] = fate[i]
      BY <1>2, <1>3, <1>5, <2>3
    <3>2. <<>> \in Seq(Nat) /\ <<>> \o F = F /\ <<>> \o Y = Y
      BY <1>3, ConcatEmptySeq
    <3>3. Books(received, <<>> \o F \o Y, published, MaxPublished, fate, "received")
      BY <2>1, <3>2
    <3>4. Books(received, <<>> \o Y, published, MaxPublished, fate', "received")
      BY <1>3, <3>1, <3>2, <3>3, BooksLost
    <3> QED
      BY <1>1, <1>4, <3>1, <3>2, <3>4 DEF PacketBooks
  <2> QED
    BY <2>2, <2>3
<1>8. TypeOK'
  <2>1. received' \in Seq(1 .. published) /\ published \in Nat /\ published <= MaxPublished
    BY <1>1, <1>7 DEF PacketBooks, Books, TypeOK
  <2>2. received' \in Seq(1 .. MaxPublished)
    BY <2>1, Wider
  <2>3. frame' \in Seq(Packets)
    BY <1>1
  <2> QED
    BY <1>1, <1>6, <2>2, <2>3 DEF TypeOK
<1>9. Holdings' /\ StatusOwed'
  BY <1>1 DEF IInv, Holdings, StatusOwed
<1>10. Malformed' = Malformed
  <2>1. \A i \in ToSet(F) : fate[i] = "none"
    <3>1. ToSet(InTransit) = ToSet(F) \union ToSet(Y)
      BY <1>3, SetOfConcat
    <3> QED
      BY <3>1, BooksOpen DEF IInv, PacketBooks
  <2>2. \A i \in 1 .. MaxPublished :
          fate'[i] # fate[i] => fate[i] = "none" /\ fate'[i] # "malformed"
    BY <1>2, <1>3, <1>5, <2>1
  <2> QED
    BY <1>1, <1>6, <2>2, MalformedKept
<1>11. PermissionConserved' /\ BuffersComeBack'
  BY <1>1, <1>10 DEF IInv, PermissionConserved, BuffersComeBack
<1> QED
  BY <1>7, <1>8, <1>9, <1>11 DEF IInv

\* comStub tells how the send went.
LEMMA ReportStep ==
  ASSUME IInv, Report
  PROVE  IInv'
<1>1. /\ aggregator = "reporting" /\ aggregator' = "waiting" /\ reinit' = ~sentOk /\ sentOk \in BOOLEAN
      /\ statuses = <<>> /\ frame = <<>>
      /\ statuses' = Append(statuses, IF sentOk THEN "SUCCESS" ELSE "FAILURE")
  BY DEF IInv, TypeOK, Holdings, StatusOwed, Report, ComStatus
<1>2. IF reinit' THEN statuses' = <<"FAILURE">> ELSE statuses' = <<"SUCCESS">>
  BY <1>1, StatusMessages
<1>3. statuses' \in Seq(Statuses) /\ reinit' \in BOOLEAN
  BY <1>1, <1>2, StatusMessages
<1>4. TypeOK'
  BY <1>1, <1>3 DEF IInv, TypeOK, Report, busVars, turnVars, history
<1>5. Holdings' /\ StatusOwed'
  BY <1>1, <1>2 DEF IInv, Holdings, StatusOwed, Report
<1>6. PacketBooks' /\ PermissionConserved' /\ BuffersComeBack'
  BY SameTurn DEF Report, busVars, turnVars, history
<1> QED
  BY <1>4, <1>5, <1>6 DEF IInv

\* The aggregator takes a status: a good one ends its wait.
LEMMA TakeStatusStep ==
  ASSUME IInv, TakeStatus
  PROVE  IInv'
<1>1. /\ TypeOK /\ aggregator = "waiting" /\ statuses # <<>> /\ statuses' = Tail(statuses) /\ frame = <<>>
      /\ UNCHANGED <<published, pipe, loop, input, tick, sentOk, reinit, client, received, fate>>
  BY DEF IInv, Holdings, TakeStatus, busVars, linkVars, history
<1>2. \/ reinit /\ statuses = <<"FAILURE">>
      \/ ~reinit /\ statuses = <<"SUCCESS">>
      \/ ~reinit /\ statuses = <<"FAILURE", "SUCCESS">>
  BY <1>1 DEF IInv, StatusOwed
<1>3. Malformed' = Malformed
  BY <1>1 DEF Malformed
<1>4. CASE Head(statuses) = "FAILURE"
  <2>1. UNCHANGED <<permission, lent, started, aggregator, frame, held>>
    BY <1>4 DEF TakeStatus, aggVars, turnVars
  <2>2. statuses' = IF reinit THEN <<>> ELSE <<"SUCCESS">>
    <3>1. \/ statuses = <<"FAILURE">> /\ reinit
          \/ statuses = <<"FAILURE", "SUCCESS">> /\ ~reinit
      <4>1. Head(<<"SUCCESS">>) = "SUCCESS" /\ "SUCCESS" # "FAILURE"
        BY StatusMessages
      <4>2. ASSUME statuses = <<"SUCCESS">> PROVE FALSE
        <5>1. Head(statuses) = "SUCCESS"
          BY <4>1, <4>2, Zenon
        <5> QED
          BY <1>4, <5>1
      <4> QED
        BY <1>2, <4>2, Zenon
    <3> QED
      BY <1>1, <3>1, StatusMessages
  <2>3. statuses' \in Seq(Statuses)
    BY <2>2, StatusMessages
  <2>4. TypeOK'
    BY <1>1, <2>1, <2>3 DEF TypeOK
  <2>5. Holdings' /\ StatusOwed'
    BY <1>1, <2>1, <2>2 DEF IInv, Holdings, StatusOwed
  <2>6. PacketBooks' /\ PermissionConserved' /\ BuffersComeBack'
    BY <1>1, <2>1, SameTurn DEF turnVars
  <2> QED
    BY <2>4, <2>5, <2>6 DEF IInv
<1>5. CASE Head(statuses) = "SUCCESS"
  <2>1. /\ aggregator' = "filling" /\ started' = TRUE /\ frame' = held /\ held' = <<>>
        /\ IF held # <<>> THEN lent' = lent \ {held[1].id} /\ permission' = TRUE
           ELSE lent' = lent /\ permission' = IF started THEN permission ELSE TRUE
    BY <1>5 DEF TakeStatus, ReturnBuffer, GiveTurn
  <2>2. statuses' = <<>> /\ ~reinit
    BY <1>1, <1>2, <1>5
  <2>3. TypeOK'
    <3>1. <<>> \in Seq(Packets) /\ <<>> \in Seq(Statuses)
      OBVIOUS
    <3>2. permission' \in BOOLEAN /\ lent' \in SUBSET (1 .. MaxPublished)
      BY <1>1, <2>1 DEF TypeOK
    <3> QED
      BY <1>1, <2>1, <2>2, <3>1, <3>2 DEF TypeOK
  <2>4. Holdings' /\ StatusOwed'
    BY <1>1, <2>1, <2>2 DEF Holdings, StatusOwed
  <2>5. InTransit' = InTransit
    <3>1. Ids(held) \in Seq(Nat) /\ Ids(<<>>) = <<>>
      BY <1>1, TransitTyped, PacketIds
    <3>2. <<>> \o Ids(held) = Ids(held) /\ Ids(held) \o <<>> = Ids(held)
      BY <3>1, ConcatEmptySeq
    <3> QED
      BY <1>1, <2>1, <3>1, <3>2 DEF InTransit
  <2>6. PacketBooks'
    BY <1>1, <2>5 DEF IInv, PacketBooks
  <2>7. Len(held') = 0 /\ IdSet(held') = {}
    BY <2>1 DEF IdSet
  <2>8. CASE held # <<>>
    <3>1. input = <<>> /\ Len(held) = 1 /\ ~Malformed /\ held \in Seq(Packets)
      BY <1>1, <2>8, OnePermission DEF IInv, TypeOK
    <3>2. IdSet(held) = {held[1].id} /\ IdSet(input) = {}
      <4>1. DOMAIN held = {1}
        BY <3>1
      <4> QED
        BY <3>1, <4>1 DEF IdSet
    <3>3. PermissionConserved'
      <4>1. Len(input') = 0
        BY <1>1, <3>1
      <4> QED
        BY <1>3, <2>1, <2>7, <2>8, <3>1, <4>1 DEF PermissionConserved, Count
    <3>4. BuffersComeBack'
      BY <1>1, <2>1, <2>7, <2>8, <3>2 DEF IInv, BuffersComeBack
    <3> QED
      BY <2>3, <2>4, <2>6, <3>3, <3>4 DEF IInv
  <2>9. CASE held = <<>>
    <3>1. BuffersComeBack'
      BY <1>1, <2>1, <2>9 DEF IInv, BuffersComeBack
    <3>2. CASE started
      BY <1>1, <1>3, <2>1, <2>3, <2>4, <2>6, <2>9, <3>1, <3>2 DEF IInv, PermissionConserved
    <3>3. CASE ~started
      <4>1. input' = <<>> /\ ~Malformed
        BY <1>1, <3>3, OnePermission DEF IInv
      <4>2. Len(input') = 0
        BY <4>1
      <4>3. PermissionConserved'
        BY <1>3, <2>1, <2>7, <2>9, <3>3, <4>1, <4>2 DEF PermissionConserved, Count
      <4> QED
        BY <2>3, <2>4, <2>6, <3>1, <4>3 DEF IInv
    <3> QED
      BY <3>2, <3>3
  <2> QED
    BY <2>8, <2>9
<1>6. Head(statuses) \in {"SUCCESS", "FAILURE"}
  BY <1>2
<1> QED
  BY <1>4, <1>5, <1>6

LEMMA AggregatorStep ==
  ASSUME IInv, Aggregator
  PROVE  IInv'
<1>1. CASE TakeTick
  <2>1. PacketBooks' /\ PermissionConserved' /\ BuffersComeBack'
    BY <1>1, SameTurn DEF TakeTick, busVars, turnVars, history
  <2>2. TypeOK'
    BY <1>1 DEF TakeTick, IInv, TypeOK, busVars, turnVars, linkVars, history
  <2>3. Holdings' /\ StatusOwed'
    BY <1>1 DEF TakeTick, IInv, Holdings, StatusOwed, linkVars
  <2> QED
    BY <2>1, <2>2, <2>3 DEF IInv
<1> QED
  BY <1>1, TakePacketStep, DriverSendStep, ReportStep, TakeStatusStep DEF Aggregator

\* The driver's receive task: a new client may bring the status that is owed.
LEMMA ReceiverStep ==
  ASSUME IInv, Receiver
  PROVE  IInv'
<1>1. CASE Connect
  <2>1. PacketBooks' /\ PermissionConserved' /\ BuffersComeBack'
    BY <1>1, SameTurn DEF Connect, busVars, turnVars, aggVars, history
  <2> QED
    BY <1>1, <2>1 DEF Connect, IInv, TypeOK, Holdings, StatusOwed, busVars, turnVars, aggVars, history
<1>2. CASE Leave
  <2>1. PacketBooks' /\ PermissionConserved' /\ BuffersComeBack'
    BY <1>2, SameTurn DEF Leave, busVars, turnVars, aggVars, history
  <2> QED
    BY <1>2, <2>1 DEF Leave, IInv, TypeOK, Holdings, StatusOwed, busVars, turnVars, aggVars, history
<1>3. CASE Ready
  <2>1. PacketBooks' /\ PermissionConserved' /\ BuffersComeBack'
    BY <1>3, SameTurn DEF Ready, busVars, turnVars, aggVars, history
  <2>2. Holdings'
    BY <1>3 DEF Ready, IInv, Holdings, aggVars
  <2>3. CASE reinit
    <3>1. reinit' = FALSE /\ statuses' = Append(statuses, "SUCCESS") /\ aggregator' = aggregator
      BY <1>3, <2>3 DEF Ready, DrvConnected, ComStatus, aggVars
    <3>2. aggregator = "waiting" /\ statuses \in {<<>>, <<"FAILURE">>}
      BY <2>3 DEF IInv, StatusOwed
    <3>3. statuses' \in {<<"SUCCESS">>, <<"FAILURE", "SUCCESS">>}
      BY <3>1, <3>2, StatusMessages
    <3>4. statuses' \in Seq(Statuses)
      BY <3>3, StatusMessages
    <3>5. StatusOwed'
      BY <3>1, <3>2, <3>3 DEF StatusOwed
    <3>6. TypeOK'
      BY <1>3, <3>1, <3>4 DEF Ready, IInv, TypeOK, busVars, turnVars, aggVars, history
    <3> QED
      BY <2>1, <2>2, <3>5, <3>6 DEF IInv
  <2>4. CASE ~reinit
    BY <1>3, <2>1, <2>2, <2>4
       DEF Ready, DrvConnected, IInv, TypeOK, StatusOwed, busVars, turnVars, aggVars, history
  <2> QED
    BY <2>3, <2>4
<1> QED
  BY <1>1, <1>2, <1>3 DEF Receiver

LEMMA Invariance == Spec => []IInv
<1>1. IInv /\ [Next]_vars => IInv'
  <2> SUFFICES ASSUME IInv, [Next]_vars PROVE IInv'
    OBVIOUS
  <2>1. CASE UNCHANGED vars
    <3>1. UNCHANGED <<received, fate, published, pipe, input, frame, held, turnVars, started>>
      BY <2>1 DEF vars, busVars, aggVars, history
    <3>2. PacketBooks' /\ PermissionConserved' /\ BuffersComeBack'
      BY <3>1, SameTurn
    <3> QED
      BY <2>1, <3>2
         DEF vars, IInv, TypeOK, Holdings, StatusOwed, busVars, turnVars, aggVars, linkVars, history
  <2> QED
    BY <2>1, PublishStep, MainStep, AggregatorStep, ReceiverStep DEF Next
<1> QED
  BY <1>1, InitInvariant, PTL DEF Spec
-----------------------------------------------------------------------------
(* Theorems.                                                                *)

\* The types of Downlink's state, the pipe within its depth among them.
THEOREM TypeCorrect == Spec => []TypeOK
<1>1. IInv => TypeOK
  BY DEF IInv
<1> QED
  BY <1>1, Invariance, PTL

\* Each buffer comes back once the aggregator has copied its packet.
THEOREM NoBufferLeaks == Spec => []BuffersComeBack
<1>1. IInv => BuffersComeBack
  BY DEF IInv
<1> QED
  BY <1>1, Invariance, PTL

\* comStub is given no frame between a failed send and the next client.
THEOREM SendsAreReady == Spec => []SendsOnlyWhenReady
<1>1. IInv => SendsOnlyWhenReady
  BY DEF IInv, StatusOwed, SendsOnlyWhenReady
<1> QED
  BY <1>1, Invariance, PTL

\* Every packet is on its way in order, received, or lost for one reason.
THEOREM PacketsAccounted == Spec => []LossesAccounted
<1>1. ASSUME IInv PROVE LossesAccounted
  <2>1. Increasing(received \o InTransit)
    BY <1>1 DEF IInv, PacketBooks, Books
  <2>2. ASSUME NEW i \in 1 .. published
        PROVE  /\ fate[i] = "none" <=> i \in ToSet(InTransit)
               /\ fate[i] = "received" <=> i \in ToSet(received)
    <3>1. i \in 1 .. MaxPublished /\ ~(i > published)
      BY <1>1 DEF IInv, TypeOK
    <3> QED
      BY <1>1, <3>1 DEF IInv, PacketBooks, Books
  <2> QED
    BY <2>1, <2>2 DEF LossesAccounted, Increasing
<1> QED
  BY <1>1, Invariance, PTL

\* A good status is owed or on its way exactly while the aggregator waits for it.
THEOREM OneStatusOwed == Spec => []StatusOwed
<1>1. IInv => StatusOwed
  BY DEF IInv
<1> QED
  BY <1>1, Invariance, PTL

\* One packet and two statuses are the most that wait in the aggregator's queue.
THEOREM QueueStaysShort == Spec => []FewMessages
<1>1. ASSUME IInv PROVE FewMessages
  <2> DEFINE u == Len(input)
             v == Len(statuses)
  <2>1. u = 0 \/ u = 1
    <3>1. Len(<<>>) = 0
      OBVIOUS
    <3>2. input # <<>> => u = 1
      BY <1>1, OnePermission DEF IInv
    <3> QED
      BY <3>1, <3>2, Zenon
  <2>2. v = 0 \/ v = 1 \/ v = 2
    <3>1. statuses \in {<<>>, <<"FAILURE">>, <<"SUCCESS">>, <<"FAILURE", "SUCCESS">>}
      BY <1>1 DEF IInv, StatusOwed
    <3>2. /\ Len(<<>>) = 0 /\ Len(<<"FAILURE">>) = 1 /\ Len(<<"SUCCESS">>) = 1
          /\ Len(<<"FAILURE", "SUCCESS">>) = 2
      OBVIOUS
    <3> QED
      BY <3>1, <3>2, Zenon
  <2> HIDE DEF u, v
  <2>3. u <= 1 /\ v <= 2
    BY <2>1, <2>2
  <2> QED
    BY <2>3 DEF FewMessages, u, v
<1> QED
  BY <1>1, Invariance, PTL

\* Nothing comes late: what is missing before a received packet is lost.
THEOREM GapsAreFinal == Spec => []GapsAreLosses
<1>1. ASSUME IInv, NEW k \in DOMAIN received, NEW i \in 1 .. received[k]
      PROVE  i \in ToSet(received) \/ fate[i] \in {"dropped", "malformed", "lost"}
  <2>1. Books(received, InTransit, published, MaxPublished, fate, "received")
    BY <1>1 DEF IInv, PacketBooks
  <2>2. i \in 1 .. MaxPublished /\ fate[i] # "none" /\ (fate[i] = "received" <=> i \in ToSet(received))
    BY <1>1, <2>1, BooksPast
  <2>3. fate[i] \in Fates
    BY <1>1, <2>2 DEF IInv, TypeOK
  <2> QED
    BY <2>2, <2>3 DEF Fates
<1>2. IInv => GapsAreLosses
  BY <1>1 DEF GapsAreLosses
<1> QED
  BY <1>2, Invariance, PTL

\* A step gives a fate only to packets that had none: those it turns away at the
\* pipe, those the stripper turns back, and those of the frame that is sent.
THEOREM OneFate == Spec => FatesAreFinal
<1> DEFINE Final == \A i \in 1 .. MaxPublished : fate[i] # "none" => fate'[i] = fate[i]
<1>1. IInv /\ [Next]_vars => [Final]_vars
  <2> SUFFICES ASSUME IInv, [Next]_vars PROVE Final
    OBVIOUS
  <2>1. /\ TypeOK /\ DOMAIN fate = 1 .. MaxPublished /\ published \in Nat
        /\ Books(received, InTransit, published, MaxPublished, fate, "received")
    BY DEF IInv, TypeOK, PacketBooks
  <2>2. /\ \A i \in ToSet(InTransit) : fate[i] = "none"
        /\ \A i \in 1 .. MaxPublished : i > published => fate[i] = "none"
    BY <2>1, BooksOpen
  <2>3. CASE fate' = fate
    BY <2>3
  <2>4. ASSUME NEW size \in Sizes, Publish(size) PROVE Final
    <3>1. fate' = fate \/ fate' = [fate EXCEPT ![published + 1] = "dropped"]
      BY <2>4 DEF Publish
    <3>2. published + 1 \in 1 .. MaxPublished /\ published + 1 > published
      BY <2>1, <2>4 DEF Publish, TypeOK
    <3> QED
      BY <2>1, <2>2, <3>1, <3>2
  <2>5. CASE Process
    <3>1. fate' = fate \/ fate' = [fate EXCEPT ![Head(pipe).id] = "malformed"]
      BY <2>5 DEF Process
    <3>2. Head(pipe).id \in ToSet(InTransit)
      <4> DEFINE X == Ids(frame) \o Ids(held) \o Ids(input)
      <4>1. /\ Ids(pipe) = <<Head(pipe).id>> \o Ids(Tail(pipe)) /\ <<Head(pipe).id>> \in Seq(Nat)
            /\ Tail(pipe) \in Seq(Packets)
        BY <2>1, <2>5, FirstPacket DEF Process, TypeOK
      <4>2. X \in Seq(Nat) /\ Ids(pipe) \in Seq(Nat) /\ InTransit = X \o Ids(pipe)
        BY <2>1, TransitTyped DEF InTransit
      <4> HIDE DEF X
      <4>3. ToSet(InTransit) = ToSet(X) \union ToSet(Ids(pipe))
        BY <4>2, SetOfConcat
      <4>4. ToSet(Ids(pipe)) = ToSet(<<Head(pipe).id>>) \union ToSet(Ids(Tail(pipe)))
        <5> DEFINE first == <<Head(pipe).id>>
                   rest  == Ids(Tail(pipe))
        <5>1. first \in Seq(Nat) /\ rest \in Seq(Nat) /\ Ids(pipe) = first \o rest
          BY <4>1, PacketTurns
        <5> HIDE DEF first, rest
        <5>2. ToSet(Ids(pipe)) = ToSet(first) \union ToSet(rest)
          BY <5>1, SetOfConcat
        <5> QED
          BY <5>2 DEF first, rest
      <4> QED
        BY <4>3, <4>4, SetOfOne
    <3> QED
      BY <2>1, <2>2, <3>1, <3>2
  <2>6. ASSUME NEW ok \in BOOLEAN, DriverSend(ok) PROVE Final
    <3>1. \A i \in DOMAIN fate : i \notin IdSet(frame) => fate'[i] = fate[i]
      BY <2>6 DEF DriverSend
    <3>2. IdSet(frame) \subseteq ToSet(InTransit)
      <4> DEFINE F == Ids(frame)
                 Y == Ids(held) \o Ids(input) \o Ids(pipe)
      <4>1. F \in Seq(Nat) /\ Y \in Seq(Nat) /\ InTransit = F \o Y /\ IdSet(frame) = ToSet(F)
        BY <2>1, TransitTyped, PacketTurns DEF TypeOK
      <4> HIDE DEF F, Y
      <4> QED
        BY <4>1, SetOfConcat
    <3> QED
      BY <2>1, <2>2, <3>1, <3>2
  <2>7. CASE SetupDone \/ ProcessIdle \/ CycleTick \/ CycleIdle
    BY <2>3, <2>7 DEF SetupDone, ProcessIdle, CycleTick, CycleIdle, history
  <2>8. CASE TakePacket \/ TakeTick \/ Report \/ TakeStatus
    BY <2>3, <2>8 DEF TakePacket, TakeTick, Report, TakeStatus, history
  <2>9. CASE Receiver \/ UNCHANGED vars
    BY <2>3, <2>9 DEF Receiver, Connect, Ready, Leave, vars, history
  <2> QED
    BY <2>4, <2>5, <2>6, <2>7, <2>8, <2>9 DEF Next, MainTask, Aggregator
<1> QED
  BY <1>1, Invariance, PTL DEF Spec, FatesAreFinal

\* cfsBridge's permission to pass a packet on is in one place at any time, however
\* statuses and connections interleave, and only a malformed packet takes it away,
\* for good, since its fate is final.
THEOREM OneTurn == Spec => []PermissionConserved /\ TurnStaysTaken
<1> DEFINE Final == \A i \in 1 .. MaxPublished : fate[i] # "none" => fate'[i] = fate[i]
<1>1. IInv => PermissionConserved
  BY DEF IInv
<1>2. IInv /\ IInv' /\ [Final]_vars => [Malformed => Malformed']_vars
  <2> SUFFICES ASSUME IInv, IInv', Final, Malformed PROVE Malformed'
    OBVIOUS
  <2>1. DOMAIN fate = 1 .. MaxPublished /\ DOMAIN fate' = 1 .. MaxPublished
    BY DEF IInv, TypeOK
  <2>2. PICK i \in 1 .. MaxPublished : fate[i] = "malformed"
    BY <2>1 DEF Malformed
  <2> QED
    BY <2>1, <2>2 DEF Malformed
<1>3. Spec => [][Final]_vars
  BY OneFate DEF FatesAreFinal
<1> HIDE DEF Final
<1> QED
  BY <1>1, <1>2, <1>3, Invariance, PTL DEF TurnStaysTaken

\* Whenever the aggregator finds its queue empty, someone owes it a message: the
\* turn is the bridge's and the status comStub's, or a malformed packet took it.
THEOREM NoUnexplainedStall == Spec => []StallsExplained
<1>1. ASSUME IInv, aggregator = "filling", input = <<>>
      PROVE  permission \/ Malformed
  <2>1. /\ Len(input) = 0 /\ Len(held) = 0
        /\ Count(~started) = 0
    <3>1. held = <<>> /\ started
      BY <1>1 DEF IInv, Holdings
    <3>2. Len(<<>>) = 0
      OBVIOUS
    <3> QED
      BY <1>1, <3>1, <3>2 DEF Count
  <2>2. CASE ~permission /\ ~Malformed
    <3>1. Count(permission) = 0 /\ Count(Malformed) = 0
      BY <2>2, Zenon DEF Count
    <3>2. Count(permission) + Len(input) + Len(held) + Count(~started) + Count(Malformed) = 1
      BY <1>1 DEF IInv, PermissionConserved
    <3>3. 0 + 0 + 0 + 0 + 0 = 1
      BY <2>1, <3>1, <3>2, Zenon
    <3> QED
      BY <3>3
  <2> QED
    BY <2>2
<1>2. ASSUME IInv, aggregator = "waiting", statuses = <<>>
      PROVE  reinit
  BY <1>2 DEF IInv, StatusOwed
<1>3. IInv => StallsExplained
  BY <1>1, <1>2 DEF StallsExplained, IInv, TypeOK
<1> QED
  BY <1>3, Invariance, PTL

\* The packets in the frame have met no end.
FrameIsOpen == \A i \in IdSet(frame) : fate[i] = "none"

LEMMA OpenFrame == Spec => []FrameIsOpen
<1>1. ASSUME IInv PROVE FrameIsOpen
  <2>1. TypeOK /\ \A i \in ToSet(InTransit) : fate[i] = "none"
    BY <1>1, BooksOpen, BoundAssumption DEF IInv, PacketBooks
  <2> DEFINE F == Ids(frame)
             Y == Ids(held) \o Ids(input) \o Ids(pipe)
  <2>2. F \in Seq(Nat) /\ Y \in Seq(Nat) /\ InTransit = F \o Y /\ IdSet(frame) = ToSet(F)
    BY <2>1, TransitTyped, PacketTurns DEF TypeOK
  <2> HIDE DEF F, Y
  <2>3. ToSet(InTransit) = ToSet(F) \union ToSet(Y)
    BY <2>2, SetOfConcat
  <2> QED
    BY <2>1, <2>2, <2>3 DEF FrameIsOpen
<1> QED
  BY <1>1, Invariance, PTL

\* A frame only grows until it is sent, and its packets end with its sending.
THEOREM FramesEndWhole == Spec => FramesAreAtomic
<1> DEFINE Atomic == \A i, j \in IdSet(frame) : fate'[i] = fate'[j]
<1>1. ASSUME IInv, FrameIsOpen, FrameIsOpen', [Next]_vars PROVE Atomic
  <2>1. /\ frame \in Seq(Packets) /\ input \in Seq(Packets)
        /\ DOMAIN fate = 1 .. MaxPublished /\ IdSet(frame) \subseteq 1 .. MaxPublished
        /\ aggregator = "waiting" => IdSet(frame) = {}
    <3>1. \A i \in DOMAIN frame : frame[i] \in Packets
      BY <1>1 DEF IInv, TypeOK
    <3>2. aggregator = "waiting" => frame = <<>>
      BY <1>1 DEF IInv, Holdings
    <3>3. IdSet(<<>>) = {}
      BY DEF IdSet
    <3> QED
      BY <1>1, <3>1, <3>2, <3>3 DEF IInv, TypeOK, IdSet, Packets
  <2>2. ASSUME IdSet(frame) \subseteq IdSet(frame') PROVE Atomic
    BY <1>1, <2>2 DEF FrameIsOpen
  <2>3. CASE TakePacket
    <3>1. \/ frame' = frame
          \/ frame' = Append(frame, Head(input)) /\ input # <<>>
      BY <2>3 DEF TakePacket
    <3>2. ASSUME frame' = Append(frame, Head(input)), input # <<>>
          PROVE  IdSet(frame) \subseteq IdSet(frame')
      <4>1. Head(input) \in Packets
        BY <2>1, <3>2
      <4>2. \A i \in DOMAIN frame : i \in DOMAIN frame' /\ frame'[i] = frame[i]
        BY <2>1, <3>2, <4>1
      <4> QED
        BY <4>2 DEF IdSet
    <3> QED
      BY <2>2, <3>1, <3>2
  <2>4. ASSUME NEW ok \in BOOLEAN, DriverSend(ok) PROVE Atomic
    <3>1. PICK arrives \in {FALSE, ok} :
            fate' = [i \in DOMAIN fate |->
                       IF i \notin IdSet(frame) THEN fate[i]
                       ELSE IF arrives THEN "received" ELSE "lost"]
      BY <2>4 DEF DriverSend
    <3>2. \A i \in IdSet(frame) : fate'[i] = IF arrives THEN "received" ELSE "lost"
      BY <2>1, <3>1
    <3> QED
      BY <3>2
  <2>5. CASE TakeStatus
    BY <2>1, <2>5 DEF TakeStatus
  <2>6. CASE (\E size \in Sizes : Publish(size)) \/ MainTask
    <3>1. frame' = frame
      BY <2>6 DEF Publish, MainTask, SetupDone, ProcessIdle, Process, CycleTick, CycleIdle, aggVars
    <3> QED
      BY <2>2, <3>1
  <2>7. CASE TakeTick \/ Report \/ Receiver \/ UNCHANGED vars
    <3>1. frame' = frame
      BY <2>7 DEF TakeTick, Report, Receiver, Connect, Ready, Leave, vars, aggVars
    <3> QED
      BY <2>2, <3>1
  <2> QED
    BY <1>1, <2>3, <2>4, <2>5, <2>6, <2>7 DEF Next, Aggregator
<1>2. IInv /\ FrameIsOpen /\ FrameIsOpen' /\ [Next]_vars => [Atomic]_vars
  BY <1>1
<1> QED
  BY <1>2, Invariance, OpenFrame, PTL DEF Spec, FramesAreAtomic

\* The downlink implements a lossy FIFO channel: what clients receive was
\* published, and arrives in order and once.
THEOREM DownlinkIsLossyFifo == Spec => ImplementsLossyFifo
<1>1. Init => LossyFifo!Init
  BY DEF Init, LossyFifo!Init
<1>2. ASSUME IInv, IInv', [Next]_vars
      PROVE  [LossyFifo!Next]_LossyFifo!fvars
  <2> USE DEF LossyFifo!fvars
  <2>1. ASSUME NEW size \in Sizes, Publish(size) PROVE LossyFifo!Publish
    BY <2>1 DEF Publish, LossyFifo!Publish
  <2>2. ASSUME NEW ok \in BOOLEAN, DriverSend(ok)
        PROVE  LossyFifo!Arrive \/ UNCHANGED <<published, received>>
    <3>1. published' = published /\ (received' = received \/ received' = received \o Ids(frame))
      BY <2>2 DEF DriverSend, busVars
    <3>2. CASE received' = received \o Ids(frame) /\ Ids(frame) # <<>>
      <4>1. received \in Seq(Nat) /\ Ids(frame) \in Seq(Nat) /\ received' \in Seq(1 .. published)
        <5>1. received \in Seq(1 .. published) /\ published \in Nat
          BY <1>2 DEF IInv, TypeOK, PacketBooks, Books
        <5>2. received' \in Seq(1 .. published')
          BY <1>2 DEF IInv, PacketBooks, Books
        <5> QED
          BY <1>2, <3>1, <5>1, <5>2, Wider, TransitTyped DEF IInv
      <4>2. /\ Len(received') = Len(received) + Len(Ids(frame)) /\ Len(Ids(frame)) > 0
            /\ Len(received) \in Nat /\ Len(Ids(frame)) \in Nat
        BY <3>2, <4>1, ConcatProperties, EmptySeq
      <4>3. SubSeq(received', 1, Len(received)) = received
        <5>1. CASE received = <<>>
          BY <5>1, SubSeqEmpty
        <5>2. CASE received # <<>>
          <6>1. 1 \in 1 .. Len(received) /\ Len(received) \in 1 .. Len(received)
            BY <4>1, <4>2, <5>2
          <6>2. SubSeq(received', 1, Len(received)) = SubSeq(received, 1, Len(received))
            BY <3>2, <4>1, <6>1, SubSeqOfConcat1
          <6> QED
            BY <4>1, <6>2, SubSeqFull
        <5> QED
          BY <5>1, <5>2
      <4>4. LossyFifo!Increasing(received')
        <5>1. received' \in Seq(Nat) /\ InTransit' \in Seq(Nat)
          <6>1. /\ received' \in Seq(1 .. published') /\ InTransit' \in Seq(1 .. published')
                /\ published' \in Nat
            BY <1>2 DEF IInv, TypeOK, PacketBooks, Books
          <6> QED
            BY <6>1, Wider
        <5>2. Increasing(received' \o InTransit')
          BY <1>2 DEF IInv, PacketBooks, Books
        <5>3. Increasing(received')
          BY <5>1, <5>2, IncreasingConcat
        <5> QED
          BY <5>1, <5>3 DEF Increasing, LossyFifo!Increasing
      <4> QED
        BY <3>1, <4>1, <4>2, <4>3, <4>4 DEF LossyFifo!Arrive
    <3>3. CASE received' = received \o Ids(frame) /\ Ids(frame) = <<>>
      <4>1. received \in Seq(1 .. published)
        BY <1>2 DEF IInv, PacketBooks, Books
      <4>2. received' = received
        BY <3>3, <4>1, ConcatEmptySeq
      <4> QED
        BY <3>1, <4>2
    <3> QED
      BY <3>1, <3>2, <3>3
  <2>3. CASE UNCHANGED vars
    BY <2>3 DEF vars, busVars, history
  <2>4. CASE MainTask
    BY <2>4 DEF MainTask, SetupDone, ProcessIdle, Process, CycleTick, CycleIdle, busVars, history
  <2>5. CASE TakePacket \/ TakeTick \/ Report \/ TakeStatus
    BY <2>5 DEF TakePacket, TakeTick, Report, TakeStatus, busVars, history
  <2>6. CASE Receiver
    BY <2>6 DEF Receiver, Connect, Ready, Leave, busVars, history
  <2> QED
    BY <1>2, <2>1, <2>2, <2>3, <2>4, <2>5, <2>6 DEF Next, Aggregator, LossyFifo!Next
<1> QED
  BY <1>1, <1>2, Invariance, PTL DEF Spec, ImplementsLossyFifo, LossyFifo!Spec

\* The channel's promises hold of the downlink.
Relied == INSTANCE LossyFifoProofs

\* What the ground received was published, in order and once, and what it has not
\* received by the time it receives a later packet it never will.
THEOREM GroundMayRely == Spec => []LossyFifo!Promises /\ LossyFifo!NothingComesLate
<1>1. Relied!Spec => []Relied!Promises
  BY Relied!ChannelPromises
<1>2. Relied!Spec => Relied!NothingComesLate
  BY Relied!ChannelGapsStay
<1> USE DEF LossyFifo!fvars, Relied!fvars, LossyFifo!Increasing, Relied!Increasing
<1>3. /\ LossyFifo!Init <=> Relied!Init
      /\ LossyFifo!Promises <=> Relied!Promises
      /\ LossyFifo!PassedOver = Relied!PassedOver
  BY DEF LossyFifo!Init, Relied!Init, LossyFifo!Promises, Relied!Promises,
         LossyFifo!PassedOver, Relied!PassedOver
<1>4. [LossyFifo!Next]_LossyFifo!fvars => [Relied!Next]_Relied!fvars
  BY DEF LossyFifo!Next, Relied!Next, LossyFifo!Publish, Relied!Publish,
         LossyFifo!Arrive, Relied!Arrive
<1>5. LossyFifo!NothingComesLate <=> Relied!NothingComesLate
  BY PTL DEF LossyFifo!NothingComesLate, Relied!NothingComesLate, LossyFifo!PassedOver, Relied!PassedOver
<1> QED
  BY <1>1, <1>2, <1>3, <1>4, <1>5, DownlinkIsLossyFifo, PTL
  DEF ImplementsLossyFifo, LossyFifo!Spec, Relied!Spec
=============================================================================
