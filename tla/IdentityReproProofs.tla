------------------------- MODULE IdentityReproProofs -------------------------
(***************************************************************************)
(* Proof that NewDeterministic is reproducible: what it returns is a       *)
(* function of the passphrase, the number of zeros and the hash oracle.    *)
(* The operators below take the oracle o as an argument, so the lemmas    *)
(* about them apply to the oracle before and after a step alike.          *)
(***************************************************************************)
EXTENDS IdentityTypeProofs, FiniteSetTheorems

\* The pair hashed at signing nonce t: keys from nonces t and t + 1.
PairAt(p, t) == Ripe(DetKey(p, t), DetKey(p, t + 1))

\* The identity NewDeterministic builds at signing nonce t.
DetIdent(p, t) == Ident(DetKey(p, t), DetKey(p, t + 1), NoAddress)

\* The signing nonces below L at which the hash test passes.
DetHits(o, p, z, L) ==
    {t \in 0..L - 1 : t % 2 = 0 /\ o[PairAt(p, t)] >= z}

\* The oracle has answered for every signing nonce below L.
Queried(o, p, L) == \A t \in 0..L - 1 : t % 2 = 0 => PairAt(p, t) \in DOMAIN o

(***************************************************************************)
(* s lists hits of the search below L in order: its j-th identity is made *)
(* at a hit with j - 1 hits before it.                                     *)
(***************************************************************************)
SliceOf(o, p, z, L, s) ==
    /\ Queried(o, p, L)
    /\ \A j \in 1..Len(s) :
          \E t \in DetHits(o, p, z, L) :
             s[j] = DetIdent(p, t) /\ Cardinality(DetHits(o, p, z, t)) = j - 1

(***************************************************************************)
(* The invariant behind DetReproducible: every returned slice, and the     *)
(* slice being filled, lists the first hits of its search; the running     *)
(* call has found exactly the hits below its signing nonce.                *)
(***************************************************************************)
ReproInv ==
    /\ sn \in Nat /\ sn % 2 = 0
    /\ \A r \in results :
          \E L \in 0..NonceCap + 2 : SliceOf(lead, r.pass, r.zeros, L, r.ids)
    /\ call = "NewDeterministic" =>
          /\ SliceOf(lead, args.pass, args.zeros, sn, out)
          /\ Len(out) = Cardinality(DetHits(lead, args.pass, args.zeros, sn))

-----------------------------------------------------------------------------
(***************************************************************************)
(* The oracle only grows: a query answers a known pair with its recorded  *)
(* value and adds a new pair, so what was recorded stays.                 *)
(***************************************************************************)
Extends(o1, o2) ==
    /\ DOMAIN o1 \subseteq DOMAIN o2
    /\ \A q \in DOMAIN o1 : o2[q] = o1[q]

LEMMA QueryExtends ==
    ASSUME NEW pair, NEW z, NEW atBound, NEW v \in Answers(pair, z, atBound),
           Query(pair, v)
    PROVE  /\ Extends(lead, lead')
           /\ pair \in DOMAIN lead' /\ lead'[pair] = v
BY DEF Answers, Query, Extends

LEMMA HitsFinite ==
    ASSUME NEW o, NEW p, NEW z, NEW L \in Nat
    PROVE  IsFiniteSet(DetHits(o, p, z, L))
<1>1. IsFiniteSet(0..L - 1)
  BY FS_Interval
<1>2. DetHits(o, p, z, L) \subseteq 0..L - 1
  BY DEF DetHits
<1>3. QED
  BY <1>1, <1>2, FS_Subset

\* Where the oracle has answered, a larger oracle gives the same hits.
LEMMA QueriedStable ==
    ASSUME NEW o1, NEW o2, Extends(o1, o2), NEW p, NEW L, Queried(o1, p, L)
    PROVE  Queried(o2, p, L)
BY DEF Extends, Queried

LEMMA HitsStable ==
    ASSUME NEW o1, NEW o2, Extends(o1, o2), NEW p, NEW z, NEW L \in Nat,
           Queried(o1, p, L), NEW t \in 0..L
    PROVE  DetHits(o2, p, z, t) = DetHits(o1, p, z, t)
BY DEF Extends, Queried, DetHits

LEMMA SliceStable ==
    ASSUME NEW o1, NEW o2, Extends(o1, o2), NEW p, NEW z, NEW L \in Nat,
           NEW s, SliceOf(o1, p, z, L, s)
    PROVE  SliceOf(o2, p, z, L, s)
<1>1. Queried(o1, p, L) /\ Queried(o2, p, L)
  BY QueriedStable DEF SliceOf
<1>2. DetHits(o2, p, z, L) = DetHits(o1, p, z, L)
  BY <1>1, HitsStable
<1>3. \A t \in DetHits(o1, p, z, L) : DetHits(o2, p, z, t) = DetHits(o1, p, z, t)
  <2> TAKE t \in DetHits(o1, p, z, L)
  <2>1. t \in 0..L
    BY DEF DetHits
  <2>2. QED
    BY <1>1, <2>1, HitsStable
<1>4. QED
  BY <1>1, <1>2, <1>3 DEF SliceOf

\* The search moves on by one signing nonce (nonces go up by two).
LEMMA HitsNext ==
    ASSUME NEW o, NEW p, NEW z, NEW L \in Nat, L % 2 = 0
    PROVE  DetHits(o, p, z, L + 2) =
              DetHits(o, p, z, L) \cup (IF o[PairAt(p, L)] >= z THEN {L} ELSE {})
BY DEF DetHits

\* A hit t has more hits below any later nonce than below itself.
LEMMA HitsStrict ==
    ASSUME NEW o, NEW p, NEW z, NEW L, NEW t1 \in DetHits(o, p, z, L),
           NEW t2 \in Nat, t1 < t2
    PROVE  Cardinality(DetHits(o, p, z, t1)) < Cardinality(DetHits(o, p, z, t2))
<1>1. t1 \in Nat /\ o[PairAt(p, t1)] >= z /\ t1 % 2 = 0
  BY DEF DetHits
<1>2. IsFiniteSet(DetHits(o, p, z, t1)) /\ IsFiniteSet(DetHits(o, p, z, t2))
  BY <1>1, HitsFinite
<1>3. t1 \notin DetHits(o, p, z, t1)
  BY DEF DetHits
<1>4. DetHits(o, p, z, t1) \cup {t1} \subseteq DetHits(o, p, z, t2)
  BY <1>1 DEF DetHits
<1>5. Cardinality(DetHits(o, p, z, t1) \cup {t1}) = Cardinality(DetHits(o, p, z, t1)) + 1
  BY <1>2, <1>3, FS_AddElement
<1>6. Cardinality(DetHits(o, p, z, t1) \cup {t1}) <= Cardinality(DetHits(o, p, z, t2))
  BY <1>2, <1>4, FS_Subset
<1>7. Cardinality(DetHits(o, p, z, t1)) \in Nat /\ Cardinality(DetHits(o, p, z, t2)) \in Nat
  BY <1>2, FS_CardinalityType
<1>8. QED
  BY <1>5, <1>6, <1>7

\* After the oracle answers at nonce L, the search has queried below L + 2.
LEMMA QueriedNext ==
    ASSUME NEW o, NEW p, NEW L \in Nat, L % 2 = 0, Queried(o, p, L),
           PairAt(p, L) \in DOMAIN o
    PROVE  Queried(o, p, L + 2)
BY DEF Queried

(***************************************************************************)
(* One step of the search keeps a slice that lists exactly the hits below *)
(* the nonce: a hit appends the identity made at the nonce, a miss leaves *)
(* the slice as it is.                                                     *)
(***************************************************************************)
LEMMA SliceHit ==
    ASSUME NEW o, NEW p, NEW z, NEW L \in Nat, L % 2 = 0, NEW s \in Seq(Identities),
           SliceOf(o, p, z, L, s), Len(s) = Cardinality(DetHits(o, p, z, L)),
           PairAt(p, L) \in DOMAIN o, o[PairAt(p, L)] >= z
    PROVE  /\ SliceOf(o, p, z, L + 2, Append(s, DetIdent(p, L)))
           /\ Len(Append(s, DetIdent(p, L))) = Cardinality(DetHits(o, p, z, L + 2))
<1> DEFINE s2 == Append(s, DetIdent(p, L))
<1>1. Queried(o, p, L + 2)
  BY QueriedNext DEF SliceOf
<1>2. DetHits(o, p, z, L + 2) = DetHits(o, p, z, L) \cup {L}
  BY HitsNext
<1>3. Cardinality(DetHits(o, p, z, L + 2)) = Cardinality(DetHits(o, p, z, L)) + 1
  <2>1. L \notin DetHits(o, p, z, L)
    BY DEF DetHits
  <2>2. QED
    BY <1>2, <2>1, HitsFinite, FS_AddElement
<1>4. L \in DetHits(o, p, z, L + 2)
  BY <1>2
<1>5. ASSUME NEW j \in 1..Len(s2)
      PROVE  \E t \in DetHits(o, p, z, L + 2) :
                s2[j] = DetIdent(p, t) /\ Cardinality(DetHits(o, p, z, t)) = j - 1
  <2>1. CASE j \in 1..Len(s)
    <3>1. PICK t \in DetHits(o, p, z, L) :
             s[j] = DetIdent(p, t) /\ Cardinality(DetHits(o, p, z, t)) = j - 1
      BY <2>1 DEF SliceOf
    <3>2. t \in DetHits(o, p, z, L + 2) /\ s2[j] = s[j]
      BY <1>2, <2>1
    <3>3. QED
      BY <3>1, <3>2
  <2>2. CASE j = Len(s) + 1
    BY <1>4, <2>2
  <2>3. QED
    BY <2>1, <2>2
<1>6. QED
  BY <1>1, <1>3, <1>5 DEF SliceOf

LEMMA SliceMiss ==
    ASSUME NEW o, NEW p, NEW z, NEW L \in Nat, L % 2 = 0, NEW s \in Seq(Identities),
           SliceOf(o, p, z, L, s), Len(s) = Cardinality(DetHits(o, p, z, L)),
           PairAt(p, L) \in DOMAIN o, ~(o[PairAt(p, L)] >= z)
    PROVE  /\ SliceOf(o, p, z, L + 2, s)
           /\ Len(s) = Cardinality(DetHits(o, p, z, L + 2))
<1>1. Queried(o, p, L + 2)
  BY QueriedNext DEF SliceOf
<1>2. DetHits(o, p, z, L + 2) = DetHits(o, p, z, L)
  <2>1. DetHits(o, p, z, L + 2) =
          DetHits(o, p, z, L) \cup (IF o[PairAt(p, L)] >= z THEN {L} ELSE {})
    BY HitsNext
  <2>2. (IF o[PairAt(p, L)] >= z THEN {L} ELSE {}) = {}
    OBVIOUS
  <2>3. QED
    BY <2>1, <2>2
<1>3. \A j \in 1..Len(s) :
         \E t \in DetHits(o, p, z, L + 2) :
            s[j] = DetIdent(p, t) /\ Cardinality(DetHits(o, p, z, t)) = j - 1
  BY <1>2 DEF SliceOf
<1>4. QED
  BY <1>1, <1>2, <1>3 DEF SliceOf

(***************************************************************************)
(* Two slices of the same search agree where both are defined: their j-th *)
(* identities are made at hits with j - 1 hits before them, and there is  *)
(* only one such hit.                                                      *)
(***************************************************************************)
LEMMA SlicePrefix ==
    ASSUME NEW o, NEW p, NEW z, NEW L1, NEW L2,
           NEW s1 \in Seq(Identities), NEW s2 \in Seq(Identities),
           SliceOf(o, p, z, L1, s1), SliceOf(o, p, z, L2, s2), Len(s1) <= Len(s2)
    PROVE  s1 = SubSeq(s2, 1, Len(s1))
<1>1. ASSUME NEW j \in 1..Len(s1) PROVE s1[j] = s2[j]
  <2>1. PICK t1 \in DetHits(o, p, z, L1) :
           s1[j] = DetIdent(p, t1) /\ Cardinality(DetHits(o, p, z, t1)) = j - 1
    BY DEF SliceOf
  <2>2. PICK t2 \in DetHits(o, p, z, L2) :
           s2[j] = DetIdent(p, t2) /\ Cardinality(DetHits(o, p, z, t2)) = j - 1
    BY DEF SliceOf
  <2>3. t1 \in Nat /\ t2 \in Nat
    BY DEF DetHits
  <2>4. ~(t1 < t2)
    BY <2>1, <2>2, <2>3, HitsStrict
  <2>5. ~(t2 < t1)
    BY <2>1, <2>2, <2>3, HitsStrict
  <2>6. QED
    BY <2>1, <2>2, <2>3, <2>4, <2>5
<1>2. QED
  BY <1>1

-----------------------------------------------------------------------------
(***************************************************************************)
(* ReproInv is inductive.                                                  *)
(***************************************************************************)
\* A step that leaves the nonces, the slices and the results alone, starts
\* no NewDeterministic and only extends the oracle keeps ReproInv.
LEMMA ReproFrame ==
    ASSUME TInv, ReproInv, Extends(lead, lead'), UNCHANGED <<results, sn, out>>,
           call' = "NewDeterministic" => call = "NewDeterministic" /\ args' = args
    PROVE  ReproInv'
<1>1. ASSUME NEW r \in results'
      PROVE  \E L \in 0..NonceCap + 2 : SliceOf(lead', r.pass, r.zeros, L, r.ids)
  <2>1. PICK L \in 0..NonceCap + 2 : SliceOf(lead, r.pass, r.zeros, L, r.ids)
    BY <1>1 DEF ReproInv
  <2>2. L \in Nat
    BY NonceCapNat
  <2>3. QED
    BY <2>1, <2>2, SliceStable
<1>2. ASSUME call' = "NewDeterministic"
      PROVE  /\ SliceOf(lead', args'.pass, args'.zeros, sn', out')
             /\ Len(out') = Cardinality(DetHits(lead', args'.pass, args'.zeros, sn'))
  <2>1. /\ SliceOf(lead, args.pass, args.zeros, sn, out)
        /\ Len(out) = Cardinality(DetHits(lead, args.pass, args.zeros, sn))
        /\ sn \in Nat
    BY <1>2 DEF ReproInv
  <2>2. DetHits(lead', args.pass, args.zeros, sn) = DetHits(lead, args.pass, args.zeros, sn)
    BY <2>1, HitsStable DEF SliceOf
  <2>3. QED
    BY <1>2, <2>1, <2>2, SliceStable
<1>3. QED
  BY <1>1, <1>2 DEF ReproInv

\* The actions of NewRandom, NewHD and ImportWIF.
LEMMA ReproOthers ==
    ASSUME TInv, ReproInv,
           \/ \E z \in 0..MaxZeros : NewRandom(z)
           \/ RandomAttempt
           \/ \E m \in Masters \cup {PublicMaster}, n \in HDIndices, s \in Streams :
                 NewHD(m, n, s)
           \/ HDAttempt
           \/ \E a \in ImportAddresses, sw \in ImportWIFs, dw \in ImportWIFs :
                 ImportWIF(a, sw, dw)
           \/ UNCHANGED vars
    PROVE  ReproInv'
<1>1. Extends(lead, lead) 
  BY DEF Extends
<1>2. CASE \E z \in 0..MaxZeros : NewRandom(z)
  BY <1>1, <1>2, ReproFrame DEF NewRandom, Return
<1>3. CASE RandomAttempt
  <2>1. call = "NewRandom" /\ call' \in {"NewRandom", "idle"}
        /\ UNCHANGED <<results, sn, out, args>>
    BY <1>3 DEF RandomAttempt, RandomDraw, Finish
  <2>2. Extends(lead, lead')
    <3>1. CASE UNCHANGED lead
      BY <3>1, <1>1
    <3>2. CASE RandomDraw(RandomKey(drawn), Ripe(id.sign, RandomKey(drawn)))
      <4>1. PICK v \in Answers(Ripe(id.sign, RandomKey(drawn)), args.zeros,
                               drawn + 1 = MaxDraws) :
               Query(Ripe(id.sign, RandomKey(drawn)), v)
        BY <3>2 DEF RandomDraw
      <4>2. QED
        BY <4>1, QueryExtends
    <3>3. QED
      BY <1>3, <3>1, <3>2 DEF RandomAttempt
  <2>3. QED
    BY <2>1, <2>2, ReproFrame
<1>4. CASE \E m \in Masters \cup {PublicMaster}, n \in HDIndices, s \in Streams :
              NewHD(m, n, s)
  BY <1>1, <1>4, ReproFrame DEF NewHD, Return
<1>5. CASE HDAttempt
  <2>1. call = "NewHD" /\ call' \in {"NewHD", "idle"}
        /\ UNCHANGED <<results, sn, out, args>>
    BY <1>5 DEF HDAttempt, Finish
  <2>2. PICK v \in Answers(Ripe(id.sign, HDKey(args.master, args.n, args.stream, idx)), 1, FALSE) :
           Query(Ripe(id.sign, HDKey(args.master, args.n, args.stream, idx)), v)
    BY <1>5 DEF HDAttempt
  <2>3. Extends(lead, lead')
    BY <2>2, QueryExtends
  <2>4. QED
    BY <2>1, <2>3, ReproFrame
<1>6. CASE \E a \in ImportAddresses, sw \in ImportWIFs, dw \in ImportWIFs :
              ImportWIF(a, sw, dw)
  BY <1>1, <1>6, ReproFrame DEF ImportWIF, Return
<1>7. CASE UNCHANGED vars
  BY <1>1, <1>7, ReproFrame DEF vars
<1>8. QED
  BY <1>2, <1>3, <1>4, <1>5, <1>6, <1>7


\* NewDeterministic starts a search at nonce 0 with an empty slice, or
\* returns the empty slice at once.
LEMMA ReproNewDeterministic ==
    ASSUME TInv, ReproInv, NEW p \in Passphrases, NEW z \in 0..MaxZeros,
           NEW n \in 0..MaxN, NewDeterministic(p, z, n)
    PROVE  ReproInv'
<1>1. UNCHANGED lead /\ Extends(lead, lead)
  BY DEF NewDeterministic, Extends
<1>2. CASE z < 1
  BY <1>1, <1>2, ReproFrame DEF NewDeterministic, Return
<1>3. CASE z >= 1
  <2>1. sn' = 0 /\ out' = <<>> /\ args' = [pass |-> p, zeros |-> z, n |-> n]
        /\ results' \subseteq results \cup {[pass |-> p, zeros |-> z, ids |-> <<>>]}
    BY <1>3 DEF NewDeterministic, Finish
  <2>2. SliceOf(lead, p, z, 0, <<>>)
    BY DEF SliceOf, Queried
  <2>3. Cardinality(DetHits(lead, p, z, 0)) = 0
    <3>1. DetHits(lead, p, z, 0) = {}
      BY DEF DetHits
    <3>2. QED
      BY <3>1, FS_EmptySet
  <2>4. ASSUME NEW r \in results'
        PROVE  \E L \in 0..NonceCap + 2 : SliceOf(lead', r.pass, r.zeros, L, r.ids)
    <3>1. CASE r \in results
      BY <1>1, <3>1 DEF ReproInv
    <3>2. CASE r = [pass |-> p, zeros |-> z, ids |-> <<>>]
      BY <1>1, <2>2, <3>2, NonceCapNat
    <3>3. QED
      BY <2>1, <3>1, <3>2
  <2>5. QED
    BY <1>1, <2>1, <2>2, <2>3, <2>4 DEF ReproInv
<1>4. QED
  BY <1>2, <1>3

\* DetAttempt asks the oracle about the pair at the current nonces and
\* moves both nonces on by two; a hit is appended to the slice, and the
\* slice is returned once it has n identities.
LEMMA ReproDetAttempt ==
    ASSUME TInv, ReproInv, DetAttempt
    PROVE  ReproInv'
<1> DEFINE p == args.pass
           z == args.zeros
           pair == PairAt(p, sn)
<1>1. /\ call = "NewDeterministic" /\ sn <= NonceCap
      /\ args \in [pass : Passphrases, zeros : 1..MaxZeros, n : Nat]
      /\ dn = sn + 1 /\ sn \in Nat /\ sn % 2 = 0 /\ out \in Seq(Identities)
      /\ SliceOf(lead, p, z, sn, out)
      /\ Len(out) = Cardinality(DetHits(lead, p, z, sn))
  BY DEF DetAttempt, TInv, TypeOK, CallInv, ReproInv
<1>2. sn' = sn + 2 /\ args' = args
  BY DEF DetAttempt
<1>3. PICK v \in Answers(pair, z, sn >= MaxNonce) :
         /\ Query(pair, v)
         /\ IF v >= z
              THEN LET ids == Append(out, DetIdent(p, sn))
                   IN  /\ out' = ids
                       /\ IF Len(ids) = args.n
                            THEN /\ results' = results \cup {[pass |-> p, zeros |-> z, ids |-> ids]}
                                 /\ Finish("NewDeterministic", NoIdentity,
                                           {ids[j] : j \in 1..Len(ids)})
                            ELSE UNCHANGED <<held, results, call, last>>
              ELSE UNCHANGED <<held, results, call, last, out>>
  BY <1>1 DEF DetAttempt, PairAt, DetIdent
<1>4. Extends(lead, lead') /\ pair \in DOMAIN lead' /\ lead'[pair] = v
  BY <1>3, QueryExtends
<1>5. /\ SliceOf(lead', p, z, sn, out)
      /\ Len(out) = Cardinality(DetHits(lead', p, z, sn))
  <2>1. DetHits(lead', p, z, sn) = DetHits(lead, p, z, sn)
    BY <1>1, <1>4, HitsStable DEF SliceOf
  <2>2. QED
    BY <1>1, <1>4, <2>1, SliceStable
<1>6. \A r \in results : \E L \in 0..NonceCap + 2 : SliceOf(lead', r.pass, r.zeros, L, r.ids)
  <2> TAKE r \in results
  <2>1. PICK L \in 0..NonceCap + 2 : SliceOf(lead, r.pass, r.zeros, L, r.ids)
    BY DEF ReproInv
  <2>2. QED
    BY <1>4, <2>1, NonceCapNat, SliceStable
<1>7. (sn \in Nat /\ sn % 2 = 0)'
  BY <1>1, <1>2
<1>8. CASE v >= z
  <2> DEFINE ids == Append(out, DetIdent(p, sn))
  <2>1. /\ SliceOf(lead', p, z, sn + 2, ids)
        /\ Len(ids) = Cardinality(DetHits(lead', p, z, sn + 2))
    BY <1>1, <1>4, <1>5, <1>8, SliceHit
  <2>2. out' = ids
    BY <1>3, <1>8
  <2>3. \/ results' = results \cup {[pass |-> p, zeros |-> z, ids |-> ids]} /\ call' = "idle"
        \/ results' = results /\ call' = call
    BY <1>3, <1>8 DEF Finish
  <2>4. sn + 2 \in 0..NonceCap + 2
    BY <1>1, NonceCapNat
  <2>5. ASSUME NEW r \in results'
        PROVE  \E L \in 0..NonceCap + 2 : SliceOf(lead', r.pass, r.zeros, L, r.ids)
    <3>1. CASE r \in results
      BY <1>6, <3>1
    <3>2. CASE r = [pass |-> p, zeros |-> z, ids |-> ids]
      BY <2>1, <2>4, <3>2
    <3>3. QED
      BY <2>3, <3>1, <3>2
  <2>6. call' = "NewDeterministic" =>
          /\ SliceOf(lead', args'.pass, args'.zeros, sn', out')
          /\ Len(out') = Cardinality(DetHits(lead', args'.pass, args'.zeros, sn'))
    BY <1>2, <2>1, <2>2
  <2>7. QED
    BY <1>7, <2>5, <2>6 DEF ReproInv
<1>9. CASE ~(v >= z)
  <2>1. /\ SliceOf(lead', p, z, sn + 2, out)
        /\ Len(out) = Cardinality(DetHits(lead', p, z, sn + 2))
    BY <1>1, <1>4, <1>5, <1>9, SliceMiss
  <2>2. out' = out /\ results' = results /\ call' = call
    BY <1>3, <1>9
  <2>3. QED
    BY <1>1, <1>2, <1>6, <1>7, <2>1, <2>2 DEF ReproInv
<1>10. QED
  BY <1>8, <1>9


LEMMA ReproInit == Init => ReproInv
BY DEF Init, ReproInv

LEMMA ReproStep == TInv /\ ReproInv /\ [Next]_vars => ReproInv'
<1> SUFFICES ASSUME TInv, ReproInv, [Next]_vars PROVE ReproInv'
  OBVIOUS
<1>1. CASE \E p \in Passphrases, z \in 0..MaxZeros, n \in 0..MaxN : NewDeterministic(p, z, n)
  BY <1>1, ReproNewDeterministic
<1>2. CASE DetAttempt
  BY <1>2, ReproDetAttempt
<1>3. QED
  BY <1>1, <1>2, ReproOthers DEF Next

(***************************************************************************)
(* For every passphrase set and every bound, two NewDeterministic calls    *)
(* with the same passphrase and the same number of zeros agree on every   *)
(* identity both return: each slice lists the first hits of one search    *)
(* over the nonces 0, 2, 4, ..., and the hash oracle never changes an     *)
(* answer.  This rests on NewDeterministic restarting the nonces at 0 and *)
(* on DetAttempt sharing them across the identities of a slice.           *)
(***************************************************************************)
THEOREM DetReproducibleTheorem == Spec => []DetReproducible
<1>1. Init => TInv /\ ReproInv
  BY TInvInit, ReproInit
<1>2. TInv /\ ReproInv /\ [Next]_vars => (TInv /\ ReproInv)'
  BY TInvStep, ReproStep
<1>3. TInv /\ ReproInv => DetReproducible
  <2> SUFFICES ASSUME TInv, ReproInv, NEW r1 \in results, NEW r2 \in results,
                      r1.pass = r2.pass, r1.zeros = r2.zeros, Len(r1.ids) <= Len(r2.ids)
               PROVE  r1.ids = SubSeq(r2.ids, 1, Len(r1.ids))
    BY DEF DetReproducible
  <2>1. r1.ids \in Seq(Identities) /\ r2.ids \in Seq(Identities)
    BY DEF TInv, TypeOK
  <2>2. PICK L1 \in 0..NonceCap + 2 : SliceOf(lead, r1.pass, r1.zeros, L1, r1.ids)
    BY DEF ReproInv
  <2>3. PICK L2 \in 0..NonceCap + 2 : SliceOf(lead, r2.pass, r2.zeros, L2, r2.ids)
    BY DEF ReproInv
  <2>4. QED
    BY <2>1, <2>2, <2>3, SlicePrefix
<1>4. QED
  BY <1>1, <1>2, <1>3, PTL DEF Spec

=============================================================================
