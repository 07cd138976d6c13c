--------------------------- MODULE LossyFifoProofs ---------------------------
(***************************************************************************)
(* Proofs about LossyFifo, for channels that carry any number of packets:  *)
(* what the receiver may conclude from what has arrived. Both directions   *)
(* of the bridge implement LossyFifo, and so these promises.               *)
(***************************************************************************)
EXTENDS LossyFifo, SequenceTheorems, TLAPS

Inv == published \in Nat /\ Promises

\* A longer list of turns has all elements of the sequences over a shorter one.
LEMMA WiderTurns ==
  ASSUME NEW n \in Nat, NEW s \in Seq(1 .. n)
  PROVE  s \in Seq(1 .. n + 1)
<1>1. \A i \in 1 .. Len(s) : s[i] \in 1 .. n + 1
  OBVIOUS
<1> QED
  BY <1>1

LEMMA InvInit == Init => Inv
BY DEF Init, Inv, Promises, Increasing

LEMMA InvStep == Inv /\ [Next]_fvars => Inv'
<1> SUFFICES ASSUME Inv, [Next]_fvars PROVE Inv'
  OBVIOUS
<1> USE DEF Inv, Promises
<1>1. CASE Publish
  <2>1. published' = published + 1 /\ received' = received
    BY <1>1 DEF Publish
  <2>2. received' \in Seq(1 .. published')
    BY <2>1, WiderTurns
  <2> QED
    BY <2>1, <2>2 DEF Increasing
<1>2. CASE Arrive
  BY <1>2 DEF Arrive, Increasing
<1>3. CASE UNCHANGED fvars
  BY <1>3 DEF fvars, Increasing
<1> QED
  BY <1>1, <1>2, <1>3 DEF Next

LEMMA Invariant == Spec => []Inv
BY InvInit, InvStep, PTL DEF Spec

\* What has arrived through such a channel was published, and arrived once and
\* in order.
THEOREM ChannelPromises == Spec => []Promises
BY Invariant, PTL DEF Inv

\* An arrival only adds to what has arrived.
LEMMA ArrivalExtends ==
  ASSUME Inv, Arrive
  PROVE  /\ Len(received) \in Nat /\ Len(received') \in Nat
         /\ Len(received) < Len(received')
         /\ \A i \in 1 .. Len(received) : received'[i] = received[i]
<1>1. /\ received \in Seq(1 .. published) /\ received' \in Seq(1 .. published)
      /\ Len(received') > Len(received)
      /\ SubSeq(received', 1, Len(received)) = received
  BY DEF Inv, Promises, Arrive
<1>2. Len(received) \in Nat /\ Len(received') \in Nat
  BY <1>1
<1>3. \A i \in 1 .. Len(received) : SubSeq(received', 1, Len(received))[i] = received'[i]
  BY <1>1, <1>2
<1> QED
  BY <1>1, <1>2, <1>3

\* A packet that one of a later turn has overtaken never arrives, and what has
\* arrived is never taken back.
THEOREM ChannelGapsStay == Spec => NothingComesLate
<1> DEFINE Stays == /\ \A i \in 1 .. Len(received) : received'[i] = received[i]
                    /\ PassedOver \subseteq PassedOver'
<1>1. Inv /\ Inv' /\ [Next]_fvars => [Stays]_fvars
  <2> SUFFICES ASSUME Inv, Inv', Next PROVE Stays
    OBVIOUS
  <2>1. CASE Publish
    <3>1. published' = published + 1 /\ received' = received /\ published \in Nat
      BY <2>1 DEF Publish, Inv
    <3> QED
      BY <3>1 DEF PassedOver
  <2>2. CASE Arrive
    <3>1. /\ Len(received) \in Nat /\ Len(received') \in Nat
          /\ Len(received) < Len(received')
          /\ \A i \in 1 .. Len(received) : received'[i] = received[i]
          /\ published' = published
      BY <2>2, ArrivalExtends DEF Arrive
    <3>2. ASSUME NEW t \in PassedOver PROVE t \in PassedOver'
      <4>1. PICK k \in 1 .. Len(received) : t < received[k]
        BY <3>2 DEF PassedOver
      <4>2. t \in 1 .. published /\ \A i \in 1 .. Len(received) : received[i] # t
        BY <3>2 DEF PassedOver
      <4>3. k \in 1 .. Len(received') /\ t < received'[k]
        BY <3>1, <4>1
      <4>4. ASSUME NEW i \in 1 .. Len(received') PROVE received'[i] # t
        <5>1. CASE i \in 1 .. Len(received)
          BY <3>1, <4>2, <5>1
        <5>2. CASE i \notin 1 .. Len(received)
          <6>1. k < i /\ received'[k] < received'[i]
            BY <3>1, <4>1, <4>3, <5>2 DEF Inv, Promises, Increasing
          <6>2. received'[k] \in Nat /\ received'[i] \in Nat /\ t \in Nat
            BY <4>2, <4>3, <4>4 DEF Inv, Promises
          <6> QED
            BY <4>3, <6>1, <6>2
        <5> QED
          BY <5>1, <5>2
      <4> QED
        BY <3>1, <4>2, <4>3, <4>4 DEF PassedOver
    <3> QED
      BY <3>1, <3>2
  <2> QED
    BY <2>1, <2>2 DEF Next
<1> QED
  BY <1>1, Invariant, PTL DEF Spec, NothingComesLate
=============================================================================
