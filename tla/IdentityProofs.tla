--------------------------- MODULE IdentityProofs ---------------------------
(***************************************************************************)
(* Proofs about the identity generation model: NewDeterministic hands out  *)
(* no key twice within a slice.                                            *)
(***************************************************************************)
EXTENDS Identity, TLAPS

\* The identities NewDeterministic can build: both keys from one
\* passphrase, the decryption nonce one above the signing nonce.
DetIds ==
    {Ident(DetKey(px[1], px[2]), DetKey(px[1], px[2] + 1), NoAddress) :
        px \in Passphrases \X Nat}

\* The signing nonce an identity of DetIds was made from.
Nonce(i) == i.sign[3]

(***************************************************************************)
(* The nonces: the decryption nonce stays one above the signing nonce,     *)
(* which is even; the identities found so far were made from even         *)
(* nonces below the current one, in increasing order.                      *)
(***************************************************************************)
NonceInv ==
    /\ sn \in Nat
    /\ dn = sn + 1
    /\ sn % 2 = 0
    /\ call = "NewDeterministic" => args.pass \in Passphrases
    /\ out \in Seq(DetIds)
    /\ \A j \in 1..Len(out) : Nonce(out[j]) % 2 = 0 /\ Nonce(out[j]) < sn
    /\ \A j, k \in 1..Len(out) : j < k => Nonce(out[j]) < Nonce(out[k])

IInv == NonceInv /\ DetDistinct

-----------------------------------------------------------------------------
(***************************************************************************)
(* A slice built from even signing nonces in increasing order has no key   *)
(* twice: two identities have different nonces, and a signing key (even    *)
(* nonce) is never a decryption key (odd nonce).                           *)
(***************************************************************************)
LEMMA DistinctFromNonces ==
    ASSUME NEW s \in Seq(DetIds),
           \A j \in 1..Len(s) : Nonce(s[j]) % 2 = 0,
           \A j, k \in 1..Len(s) : j < k => Nonce(s[j]) < Nonce(s[k])
    PROVE  DistinctKeys(s)
<1> SUFFICES ASSUME NEW j \in 1..Len(s), NEW k \in 1..Len(s)
             PROVE  /\ j # k => s[j].sign # s[k].sign /\ s[j].dec # s[k].dec
                    /\ s[j].sign # s[k].dec
    BY DEF DistinctKeys
<1>1. s[j] \in DetIds /\ s[k] \in DetIds
    OBVIOUS
<1>2. PICK px1 \in Passphrases \X Nat :
          s[j] = Ident(DetKey(px1[1], px1[2]), DetKey(px1[1], px1[2] + 1), NoAddress)
    BY <1>1 DEF DetIds
<1>3. PICK px2 \in Passphrases \X Nat :
          s[k] = Ident(DetKey(px2[1], px2[2]), DetKey(px2[1], px2[2] + 1), NoAddress)
    BY <1>1 DEF DetIds
<1> DEFINE x1 == px1[2]
           x2 == px2[2]
<1>9. x1 \in Nat /\ x2 \in Nat
    OBVIOUS
<1>4. Nonce(s[j]) = x1 /\ Nonce(s[k]) = x2
    BY <1>2, <1>3 DEF Nonce, Ident, DetKey
<1>5. x1 % 2 = 0 /\ x2 % 2 = 0
    BY <1>4, <1>9
<1>6. j # k => x1 # x2
    BY <1>4
<1>10. \A a, b \in Nat : a % 2 = 0 /\ b % 2 = 0 => a # b + 1
    OBVIOUS
<1>7. x1 # x2 + 1
    BY <1>5, <1>9, <1>10
<1>8. QED
    BY <1>2, <1>3, <1>6, <1>7 DEF Ident, DetKey

(***************************************************************************)
(* The actions other than NewDeterministic and DetAttempt leave the        *)
(* nonces, the slice and the results alone, and start no NewDeterministic. *)
(***************************************************************************)
LEMMA OtherActionsFrame ==
    ASSUME IInv,
           \/ \E z \in 0..MaxZeros : NewRandom(z)
           \/ RandomAttempt
           \/ \E m \in Masters \cup {PublicMaster}, n \in HDIndices, s \in Streams : NewHD(m, n, s)
           \/ HDAttempt
           \/ \E a \in ImportAddresses, sw \in ImportWIFs, dw \in ImportWIFs : ImportWIF(a, sw, dw)
           \/ UNCHANGED vars
    PROVE  /\ UNCHANGED <<sn, dn, out, results>>
           /\ call' = "NewDeterministic" => call' = call /\ args' = args
<1>1. CASE \E z \in 0..MaxZeros : NewRandom(z)
    BY <1>1 DEF NewRandom, Return
<1>2. CASE RandomAttempt
    BY <1>2 DEF RandomAttempt, RandomDraw, Finish, Return
<1>3. CASE \E m \in Masters \cup {PublicMaster}, n \in HDIndices, s \in Streams : NewHD(m, n, s)
    BY <1>3 DEF NewHD, Return
<1>4. CASE HDAttempt
    BY <1>4 DEF HDAttempt, Finish, Return
<1>5. CASE \E a \in ImportAddresses, sw \in ImportWIFs, dw \in ImportWIFs : ImportWIF(a, sw, dw)
    BY <1>5 DEF ImportWIF, Return
<1>6. CASE UNCHANGED vars
    BY <1>6 DEF vars
<1>7. QED
    BY <1>1, <1>2, <1>3, <1>4, <1>5, <1>6

\* The nonce of an identity of DetIds is a natural number, and a pair
\* (passphrase, even nonce) makes one.
LEMMA DetIdsNonce ==
    ASSUME NEW i \in DetIds
    PROVE  Nonce(i) \in Nat
<1>1. PICK px \in Passphrases \X Nat :
          i = Ident(DetKey(px[1], px[2]), DetKey(px[1], px[2] + 1), NoAddress)
    BY DEF DetIds
<1>2. QED
    BY <1>1 DEF Nonce, Ident, DetKey

LEMMA DetIdsMember ==
    ASSUME NEW p \in Passphrases, NEW x \in Nat
    PROVE  /\ Ident(DetKey(p, x), DetKey(p, x + 1), NoAddress) \in DetIds
           /\ Nonce(Ident(DetKey(p, x), DetKey(p, x + 1), NoAddress)) = x
<1>1. <<p, x>> \in Passphrases \X Nat
    OBVIOUS
<1>2. Ident(DetKey(p, x), DetKey(p, x + 1), NoAddress)
        = Ident(DetKey(<<p, x>>[1], <<p, x>>[2]), DetKey(<<p, x>>[1], <<p, x>>[2] + 1), NoAddress)
    OBVIOUS
<1>3. QED
    BY <1>1, <1>2 DEF DetIds, Nonce, Ident, DetKey

LEMMA IInvInit == Init => IInv
BY DEF Init, IInv, NonceInv, DetDistinct

(***************************************************************************)
(* DetAttempt keeps the nonce invariant: the identity it finds comes from  *)
(* the current nonces, which are then left behind; and the slice it       *)
(* returns is one of distinct keys.                                        *)
(***************************************************************************)
LEMMA DetAttemptStep ==
    ASSUME IInv, DetAttempt
    PROVE  IInv'
<1> DEFINE P == args.pass
           new == Ident(DetKey(P, sn), DetKey(P, dn), NoAddress)
           ids == Append(out, new)
<1>1. /\ call = "NewDeterministic"
      /\ sn' = sn + 2 /\ dn' = dn + 2
      /\ args' = args
    BY DEF DetAttempt
<1>2. P \in Passphrases /\ sn \in Nat /\ dn = sn + 1 /\ sn % 2 = 0
    BY <1>1 DEF IInv, NonceInv
<1>3. new \in DetIds /\ Nonce(new) = sn
    BY <1>2, DetIdsMember
<1>4. PICK v \in Answers(Ripe(DetKey(P, sn), DetKey(P, dn)), args.zeros, sn >= MaxNonce) :
          IF v >= args.zeros
            THEN /\ out' = ids
                 /\ IF Len(ids) = args.n
                      THEN /\ results' = results \cup
                                {[pass |-> P, zeros |-> args.zeros, ids |-> ids]}
                           /\ Finish("NewDeterministic", NoIdentity, {ids[j] : j \in 1..Len(ids)})
                      ELSE UNCHANGED <<held, results, call, last>>
            ELSE UNCHANGED <<held, results, call, last, out>>
    BY DEF DetAttempt
<1>5. /\ sn' \in Nat /\ dn' = sn' + 1 /\ sn' % 2 = 0
      /\ call' = "NewDeterministic" => args'.pass \in Passphrases
    BY <1>1, <1>2
<1>6. CASE v >= args.zeros
    <2>1. out' = ids
        BY <1>4, <1>6
    <2>2. out \in Seq(DetIds)
        BY DEF IInv, NonceInv
    <2>3. ids \in Seq(DetIds) /\ Len(ids) = Len(out) + 1
          /\ \A j \in 1..Len(out) : ids[j] = out[j]
          /\ ids[Len(ids)] = new
        BY <1>3, <2>2
    <2>4. \A j \in 1..Len(ids) : Nonce(ids[j]) % 2 = 0 /\ Nonce(ids[j]) < sn + 2
        <3>1. SUFFICES ASSUME NEW j \in 1..Len(ids)
                       PROVE  Nonce(ids[j]) % 2 = 0 /\ Nonce(ids[j]) < sn + 2
            OBVIOUS
        <3>2. CASE j \in 1..Len(out)
            <4>1. Nonce(out[j]) \in Nat /\ Nonce(out[j]) % 2 = 0 /\ Nonce(out[j]) < sn
                BY <2>2, <3>2, DetIdsNonce DEF IInv, NonceInv
            <4>2. QED
                BY <1>2, <2>3, <3>2, <4>1
        <3>3. CASE j = Len(ids)
            BY <1>2, <1>3, <2>3, <3>3
        <3>4. QED
            BY <2>2, <2>3, <3>2, <3>3
    <2>5. \A j, k \in 1..Len(ids) : j < k => Nonce(ids[j]) < Nonce(ids[k])
        <3>1. SUFFICES ASSUME NEW j \in 1..Len(ids), NEW k \in 1..Len(ids), j < k
                       PROVE  Nonce(ids[j]) < Nonce(ids[k])
            OBVIOUS
        <3>2. j \in 1..Len(out) /\ ids[j] = out[j]
            BY <2>2, <2>3, <3>1
        <3>3. Nonce(out[j]) \in Nat /\ Nonce(out[j]) < sn
            BY <2>2, <3>2, DetIdsNonce DEF IInv, NonceInv
        <3>4. CASE k \in 1..Len(out)
            BY <2>3, <3>1, <3>2, <3>4 DEF IInv, NonceInv
        <3>5. CASE k = Len(ids)
            BY <1>3, <2>3, <3>2, <3>3, <3>5
        <3>6. QED
            BY <2>2, <2>3, <3>4, <3>5
    <2>6. NonceInv'
        BY <1>1, <1>5, <2>1, <2>3, <2>4, <2>5 DEF NonceInv
    <2>7. DistinctKeys(ids)
        BY <2>3, <2>4, <2>5, DistinctFromNonces
    <2>8. results' = results \/ results' = results \cup {[pass |-> P, zeros |-> args.zeros, ids |-> ids]}
        BY <1>4, <1>6
    <2>9. DetDistinct'
        <3>1. SUFFICES ASSUME NEW r \in results' PROVE DistinctKeys(r.ids)
            BY DEF DetDistinct
        <3>2. CASE r \in results
            BY <3>2 DEF IInv, DetDistinct
        <3>3. CASE r = [pass |-> P, zeros |-> args.zeros, ids |-> ids]
            BY <2>7, <3>3
        <3>4. QED
            BY <2>8, <3>2, <3>3
    <2>10. QED
        BY <2>6, <2>9 DEF IInv
<1>7. CASE ~(v >= args.zeros)
    <2>1. UNCHANGED <<results, out>>
        BY <1>4, <1>7
    <2>2. \A j \in 1..Len(out) : Nonce(out[j]) \in Nat
        BY DetIdsNonce DEF IInv, NonceInv
    <2>3. NonceInv'
        BY <1>1, <1>2, <1>5, <2>1, <2>2 DEF IInv, NonceInv
    <2>4. QED
        BY <2>1, <2>3 DEF IInv, DetDistinct
<1>8. QED
    BY <1>6, <1>7

\* A new NewDeterministic call starts from nonces 0 and 1 and an empty
\* slice; with n = 0 it returns the empty slice at once.
LEMMA NewDeterministicStep ==
    ASSUME IInv,
           NEW p \in Passphrases, NEW z \in 0..MaxZeros, NEW n \in 0..MaxN,
           NewDeterministic(p, z, n)
    PROVE  IInv'
<1>1. CASE z < 1
    <2>1. UNCHANGED <<sn, dn, out, results, call, args>>
        BY <1>1 DEF NewDeterministic, Return
    <2>2. \A j \in 1..Len(out) : Nonce(out[j]) \in Nat
        BY DetIdsNonce DEF IInv, NonceInv
    <2>3. QED
        BY <2>1 DEF IInv, NonceInv, DetDistinct
<1>2. CASE z >= 1
    <2>1. sn' = 0 /\ dn' = 1 /\ out' = <<>> /\ args'.pass = p
        BY <1>2 DEF NewDeterministic
    <2>2. NonceInv'
        BY <2>1 DEF NonceInv
    <2>3. results' = results \/ results' = results \cup {[pass |-> p, zeros |-> z, ids |-> <<>>]}
        BY <1>2 DEF NewDeterministic, Finish
    <2>4. DistinctKeys(<<>>)
        BY DEF DistinctKeys
    <2>5. DetDistinct'
        BY <2>3, <2>4 DEF IInv, DetDistinct
    <2>6. QED
        BY <2>2, <2>5 DEF IInv
<1>3. QED
    BY <1>1, <1>2

LEMMA IInvStep == IInv /\ [Next]_vars => IInv'
<1> SUFFICES ASSUME IInv, [Next]_vars PROVE IInv'
    OBVIOUS
<1>1. CASE \E p \in Passphrases, z \in 0..MaxZeros, n \in 0..MaxN : NewDeterministic(p, z, n)
    BY <1>1, NewDeterministicStep
<1>2. CASE DetAttempt
    BY <1>2, DetAttemptStep
<1>3. CASE ~(\E p \in Passphrases, z \in 0..MaxZeros, n \in 0..MaxN : NewDeterministic(p, z, n))
           /\ ~DetAttempt
    <2>1. /\ UNCHANGED <<sn, dn, out, results>>
          /\ call' = "NewDeterministic" => call' = call /\ args' = args
        BY <1>3, OtherActionsFrame DEF Next
    <2>2. \A j \in 1..Len(out) : Nonce(out[j]) \in Nat
        BY DetIdsNonce DEF IInv, NonceInv
    <2>3. QED
        BY <2>1, <2>2 DEF IInv, NonceInv, DetDistinct
<1>4. QED
    BY <1>1, <1>2, <1>3

(***************************************************************************)
(* For every passphrase set and every bound, NewDeterministic never        *)
(* returns a slice in which a key appears twice (as two identities'        *)
(* signing or decryption keys, or as one's signing and another's           *)
(* decryption key).                                                        *)
(***************************************************************************)
THEOREM DetDistinctTheorem == Spec => []DetDistinct
<1>1. Init => IInv
    BY IInvInit
<1>2. IInv /\ [Next]_vars => IInv'
    BY IInvStep
<1>3. IInv => DetDistinct
    BY DEF IInv
<1>4. QED
    BY <1>1, <1>2, <1>3, PTL DEF Spec

=============================================================================
