---------------------------- MODULE MsgInvProofs ----------------------------
(***************************************************************************)
(* Proofs about MsgInv for every limit and every set of vectors.  What     *)
(* Decode's FoldLeft over AddInvVect computes for every list (RoundTrip)  *)
(* needs induction over the list and stays with TLC.                       *)
(***************************************************************************)
EXTENDS MsgInv, TLAPS

(***************************************************************************)
(* The shapes the proofs need: the lists are sequences, what Encode wrote *)
(* starts with a count, and a stream Decode accepted has at least as many *)
(* vectors after its count as the count says.                             *)
(***************************************************************************)
MsgShape ==
    /\ msg \in Seq(InvVects) /\ encoded \in Seq(InvVects)
    /\ wire \in Seq(Nat \cup InvVects) /\ (wire # <<>> => wire[1] \in Nat)
    /\ decodeIn \in Seq(Nat \cup InvVects)
    /\ decodeOk => /\ decodeIn # <<>> /\ decodeIn[1] \in Nat
                   /\ decodeIn[1] <= Len(decodeIn) - 1

\* The lists a caller can assign are sequences of vectors.
LEMMA ListsAreSeqs == Lists \subseteq Seq(InvVects)
<1> SUFFICES ASSUME NEW l \in Lists PROVE l \in Seq(InvVects)
  OBVIOUS
<1>1. PICK m \in 0..MaxInvPerMsg + 1 : l \in [1..m -> InvVects]
  BY DEF Lists, SeqOf
<1>2. QED
  BY <1>1, MaxAssumption

\* Every stream the receiver may read is a sequence starting with a count.
LEMMA StreamsShape ==
    ASSUME MsgShape, NEW r \in Streams
    PROVE  r \in Seq(Nat \cup InvVects) /\ (r # <<>> => r[1] \in Nat)
<1>1. CASE \E n \in 0..Len(wire) : r = SubSeq(wire, 1, n)
  BY <1>1 DEF MsgShape
<1>2. CASE \E c \in 0..MaxInvPerMsg + 1, l \in Lists : r = <<c>> \o l
  <2>1. PICK c \in 0..MaxInvPerMsg + 1, l \in Lists : r = <<c>> \o l
    BY <1>2
  <2>2. l \in Seq(InvVects)
    BY ListsAreSeqs
  <2>3. QED
    BY <2>1, <2>2, MaxAssumption
<1>3. QED
  BY <1>1, <1>2 DEF Streams

LEMMA MsgShapeInit == Init => MsgShape
BY DEF Init, MsgShape

LEMMA MsgShapeStep == MsgShape /\ [Next]_vars => MsgShape'
<1> SUFFICES ASSUME MsgShape, [Next]_vars PROVE MsgShape'
  OBVIOUS
<1>1. CASE NewMsgInv
  BY <1>1 DEF NewMsgInv, MsgShape
<1>2. ASSUME NEW l \in Lists, AssignInvList(l) PROVE MsgShape'
  BY <1>2, ListsAreSeqs DEF AssignInvList, MsgShape
<1>3. ASSUME NEW iv \in InvVects, AddInvVectAction(iv) PROVE MsgShape'
  BY <1>3 DEF AddInvVectAction, AddInvVect, MsgShape
<1>4. ASSUME NEW cap \in 0..MaxCap, Encode(cap) PROVE MsgShape'
  <2>1. CASE Len(msg) > MaxInvPerMsg
    BY <1>4, <2>1 DEF Encode, MsgShape
  <2>2. CASE ~(Len(msg) > MaxInvPerMsg)
    <3> DEFINE full == Encoding(msg)
               k == IF cap < Len(full) THEN cap ELSE Len(full)
    <3>1. full \in Seq(Nat \cup InvVects) /\ full[1] = Len(msg) /\ Len(full) = Len(msg) + 1
      BY DEF MsgShape, Encoding
    <3>2. wire' = SubSeq(full, 1, k) /\ encoded' = msg /\ UNCHANGED <<msg, decodeIn, decodeOk>>
      BY <1>4, <2>2 DEF Encode
    <3>3. k \in 0..Len(full)
      BY <3>1, MaxAssumption
    <3>4. wire' \in Seq(Nat \cup InvVects)
      BY <3>1, <3>2, <3>3
    <3>5. wire' # <<>> => wire'[1] \in Nat
      BY <3>1, <3>2, <3>3
    <3>6. QED
      BY <3>2, <3>4, <3>5 DEF MsgShape
  <2>3. QED
    BY <2>1, <2>2
<1>5. ASSUME NEW r \in Streams, DecodeAction(r) PROVE MsgShape'
  <2>1. r \in Seq(Nat \cup InvVects) /\ (r # <<>> => r[1] \in Nat)
    BY StreamsShape
  <2>2. decodeIn' = r /\ decodeOk' = Decode(recv, r).ok
        /\ UNCHANGED <<msg, wire, encoded>>
    BY <1>5 DEF DecodeAction
  <2>3. Decode(recv, r).ok => r # <<>> /\ r[1] <= Len(r) - 1
    BY DEF Decode
  <2>4. QED
    BY <2>1, <2>2, <2>3 DEF MsgShape
<1>6. CASE UNCHANGED vars
  BY <1>6 DEF vars, MsgShape
<1>7. QED
  BY <1>1, <1>2, <1>3, <1>4, <1>5, <1>6 DEF Next

(***************************************************************************)
(* For every limit and every set of vectors, Decode fails on a strict     *)
(* prefix of a complete encoding: the prefix starts with the full count,  *)
(* so it holds fewer vectors than its count, and Decode's read of the     *)
(* missing vectors hits the end of the stream.  It rests on Decode         *)
(* returning the error of a short read rather than stopping quietly.      *)
(***************************************************************************)
THEOREM TruncatedDecodeFailsTheorem == Spec => []TruncatedDecodeFails
<1>1. MsgShape => TruncatedDecodeFails
  <2> SUFFICES ASSUME MsgShape, IsStrictPrefix(decodeIn, Encoding(encoded)), decodeOk
               PROVE  FALSE
    BY DEF TruncatedDecodeFails
  <2> DEFINE e == Encoding(encoded)
  <2>1. e \in Seq(Nat \cup InvVects) /\ e[1] = Len(encoded) /\ Len(e) = Len(encoded) + 1
    BY DEF MsgShape, Encoding
  <2>2. decodeIn \in Seq(Nat \cup InvVects) /\ decodeIn # <<>> /\ decodeIn[1] \in Nat
        /\ decodeIn[1] <= Len(decodeIn) - 1
    BY DEF MsgShape
  <2>3. Len(decodeIn) <= Len(e) /\ SubSeq(decodeIn, 1, Len(decodeIn)) = SubSeq(e, 1, Len(decodeIn))
        /\ decodeIn # e
    BY DEF IsStrictPrefix, IsPrefix
  <2>4. decodeIn[1] = e[1]
    BY <2>1, <2>2, <2>3
  <2>5. Len(decodeIn) < Len(e)
    BY <2>1, <2>2, <2>3
  <2>6. QED
    BY <2>1, <2>2, <2>4, <2>5
<1>2. QED
  BY <1>1, MsgShapeInit, MsgShapeStep, PTL DEF Spec

=============================================================================
