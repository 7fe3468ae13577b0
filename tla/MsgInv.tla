------------------------------ MODULE MsgInv ------------------------------
(***************************************************************************)
(* The inv message of the wire package (MsgInv, src/unnamed/part_001):     *)
(* a sender builds an inventory list with AddInvVect (or assigns the       *)
(* exported InvList field), encodes it through a writer that may have a    *)
(* fixed capacity, and a receiver decodes what it is given into its own    *)
(* MsgInv, which it reuses from one Decode to the next.                    *)
(*                                                                         *)
(* The wire is a sequence of tokens: the varint count, then one token per  *)
(* inventory vector.  Truncation happens at token boundaries.              *)
(***************************************************************************)
EXTENDS Naturals, Sequences, SequencesExt

CONSTANTS
    InvVects,      \* inventory vectors (hashes), as model values
    MaxInvPerMsg,  \* wire.MaxInvPerMsg
    MaxCap         \* largest fixed-writer capacity tried, in tokens

ASSUME MaxAssumption == MaxInvPerMsg \in Nat \ {0} /\ MaxCap \in Nat

VARIABLES
    msg,        \* the sender's MsgInv.InvList
    wire,       \* what the sender's last Encode wrote
    encodeOk,   \* whether that Encode returned nil
    encoded,    \* the InvList that Encode was writing (history)
    recv,       \* the receiver's MsgInv.InvList
    decodeIn,   \* the stream the receiver's last Decode read
    decodeOk    \* whether that Decode returned nil

vars == <<msg, wire, encodeOk, encoded, recv, decodeIn, decodeOk>>

\* Lists a caller can hold: one past the limit, since InvList is exported.
Lists == SeqOf(InvVects, MaxInvPerMsg + 1)

\* Mutant: AddInvVect without the limit.
AddInvVectUnchecked(list, iv) == Append(list, iv)

\* Mutant: AddInvVect refusing one vector early.
AddInvVectEarly(list, iv) ==
    IF Len(list) + 1 >= MaxInvPerMsg THEN list ELSE Append(list, iv)

\* AddInvVect on a list: the error path leaves the list as it was.
AddInvVect(list, iv) ==
    IF Len(list) + 1 > MaxInvPerMsg THEN list ELSE Append(list, iv)

\* Encode's complete output for a list.
Encoding(list) == <<Len(list)>> \o list

\* Mutant: Decode that stops quietly at the end of a short stream.
DecodeStopAtEOF(list, r) ==
    IF r = <<>> \/ r[1] > MaxInvPerMsg
        THEN [ok |-> FALSE, list |-> list]
        ELSE [ok |-> TRUE,
              list |-> FoldLeft(AddInvVect, <<>>,
                                SubSeq(r, 2, IF Len(r) - 1 < r[1] THEN Len(r) ELSE r[1] + 1))]

(***************************************************************************)
(* Decode of stream r into a MsgInv holding list.  A failed ReadVarInt or  *)
(* a count over the limit returns before InvList is replaced; otherwise    *)
(* InvList is reset and each vector read is added with AddInvVect, whose   *)
(* error Decode ignores; a short stream fails after the vectors it held.   *)
(***************************************************************************)
Decode(list, r) ==
    IF r = <<>> \/ r[1] > MaxInvPerMsg
        THEN [ok |-> FALSE, list |-> list]
        ELSE LET count == r[1]
                 avail == Len(r) - 1
                 read  == IF avail < count THEN avail ELSE count
             IN  [ok |-> avail >= count,
                  list |-> FoldLeft(AddInvVect, <<>>, SubSeq(r, 2, read + 1))]

(***************************************************************************)
(* Actions.                                                                *)
(***************************************************************************)
\* NewMsgInv: a fresh, empty message on the sender side.
NewMsgInv ==
    /\ msg' = <<>>
    /\ UNCHANGED <<wire, encodeOk, encoded, recv, decodeIn, decodeOk>>

\* The caller assigns the exported InvList field directly.
AssignInvList(list) ==
    /\ msg' = list
    /\ UNCHANGED <<wire, encodeOk, encoded, recv, decodeIn, decodeOk>>

AddInvVectAction(iv) ==
    /\ msg' = AddInvVect(msg, iv)
    /\ UNCHANGED <<wire, encodeOk, encoded, recv, decodeIn, decodeOk>>

\* Encode into a writer that accepts cap tokens and then fails.  A list
\* over the limit is refused before anything is written.
Encode(cap) ==
    IF Len(msg) > MaxInvPerMsg
        THEN /\ wire' = <<>>
             /\ encodeOk' = FALSE
             /\ UNCHANGED <<msg, encoded, recv, decodeIn, decodeOk>>
        ELSE LET full == Encoding(msg)
             IN  /\ wire' = SubSeq(full, 1, IF cap < Len(full) THEN cap ELSE Len(full))
                 /\ encodeOk' = (cap >= Len(full))
                 /\ encoded' = msg
                 /\ UNCHANGED <<msg, recv, decodeIn, decodeOk>>

\* The receiver decodes what the sender wrote, truncated by a reader that
\* stops early, or a stream a peer made up.
Streams ==
    {SubSeq(wire, 1, n) : n \in 0..Len(wire)}
        \cup {<<c>> \o s : c \in 0..MaxInvPerMsg + 1, s \in Lists}

DecodeAction(r) ==
    /\ recv' = Decode(recv, r).list
    /\ decodeOk' = Decode(recv, r).ok
    /\ decodeIn' = r
    /\ UNCHANGED <<msg, wire, encodeOk, encoded>>

Init ==
    /\ msg = <<>>
    /\ wire = <<>>
    /\ encodeOk = FALSE
    /\ encoded = <<>>
    /\ recv = <<>>
    /\ decodeIn = <<>>
    /\ decodeOk = FALSE

Next ==
    \/ NewMsgInv
    \/ \E list \in Lists : AssignInvList(list)
    \/ \E iv \in InvVects : AddInvVectAction(iv)
    \/ \E cap \in 0..MaxCap : Encode(cap)
    \/ \E r \in Streams : DecodeAction(r)

Spec == Init /\ [][Next]_vars

-----------------------------------------------------------------------------
\* Type invariant: only a caller's own assignment exceeds the limit.
TypeOK ==
    /\ msg \in Lists
    /\ encoded \in SeqOf(InvVects, MaxInvPerMsg)
    /\ recv \in SeqOf(InvVects, MaxInvPerMsg)
    /\ wire \in Seq(Nat \cup InvVects) /\ decodeIn \in Seq(Nat \cup InvVects)
    /\ encodeOk \in BOOLEAN /\ decodeOk \in BOOLEAN

(***************************************************************************)
(* Round trip of Encode and Decode: when Encode succeeded and the receiver *)
(* decoded exactly what it wrote, Decode succeeded and the receiver holds  *)
(* the list the sender encoded.  It fails if Encode lets through a list    *)
(* that Decode refuses, or if AddInvVect, whose error Decode ignores,      *)
(* drops a vector at the boundary.                                         *)
(***************************************************************************)
RoundTrip ==
    (encodeOk /\ decodeIn = wire) => (decodeOk /\ recv = encoded)

(***************************************************************************)
(* Truncation robustness (spec section 8): decoding a strict prefix of a   *)
(* complete encoding fails, whatever the cut.                              *)
(***************************************************************************)
TruncatedDecodeFails ==
    IsStrictPrefix(decodeIn, Encoding(encoded)) => ~decodeOk
=============================================================================
