------------------------- MODULE IdentityTypeProofs -------------------------
(***************************************************************************)
(* Type correctness of the identity model, and the two properties of       *)
(* ImportWIF and ExportWIF that rest on it: an import keeps the address it *)
(* was given, and an exported identity imports back unchanged.             *)
(***************************************************************************)
EXTENDS Identity, TLAPS

(***************************************************************************)
(* The strengthening of TypeOK: the locals of the call in progress are     *)
(* those its entry point set up, and the signing nonce stays within two of *)
(* DetAttempt's cap (the decryption nonce one above it).                   *)
(***************************************************************************)
LocalId == [sign : Keys, dec : Keys \cup {NoKey}, addr : {NoAddress}]

CallInv ==
    /\ sn <= NonceCap + 2 /\ dn = sn + 1
    /\ call = "NewRandom" => args \in [zeros : 1..MaxZeros] /\ id \in LocalId
    /\ call = "NewDeterministic" =>
          args \in [pass : Passphrases, zeros : 1..MaxZeros, n : Nat]
    /\ call = "NewHD" =>
          args \in [master : Masters, n : HDIndices, stream : Streams] /\ id \in LocalId

TInv == TypeOK /\ CallInv

(***************************************************************************)
(* Every held identity with an address has the address of its own keys:   *)
(* NewHD builds it from the pair it found, ImportWIF rebuilds it from the  *)
(* imported pair; NewDeterministic's identities have no address.           *)
(***************************************************************************)
AddressOfKeys ==
    /\ \A i \in held : i.addr # NoAddress => i.addr.ripe = Ripe(i.sign, i.dec)
    /\ \A j \in 1..Len(out) : out[j].addr = NoAddress

-----------------------------------------------------------------------------
(***************************************************************************)
(* Keys, the oracle and the child counter.                                 *)
(***************************************************************************)
LEMMA NonceCapNat == NonceCap \in Nat
BY BoundsAssumption DEF NonceCap

LEMMA KeysMembers ==
    /\ \A k \in 0..MaxDraws : RandomKey(k) \in Keys
    /\ \A p \in Passphrases, x \in 0..NonceCap + 3 : DetKey(p, x) \in Keys
    /\ \A m \in Masters, n \in HDIndices, s \in Streams, c \in 0..IndexRange - 1 :
          HDKey(m, n, s, c) \in Keys
BY DEF Keys

\* i++ on the counter stays in 0..2^IndexBits - 1.
LEMMA NextIndexRange ==
    ASSUME NEW i \in 0..IndexRange - 1
    PROVE  NextIndex(i) \in 0..IndexRange - 1
BY IndexRangeAssumption DEF NextIndex

\* What the oracle answers is a count of zero bytes it may report.
LEMMA AnswersRange ==
    ASSUME TypeOK, NEW pair, NEW z \in 1..MaxZeros, NEW b \in BOOLEAN
    PROVE  Answers(pair, z, b) \subseteq 0..MaxZeros
BY DEF Answers, TypeOK

\* Recording an answer for a pair of keys keeps the oracle well typed.
LEMMA QueryType ==
    ASSUME TypeOK, NEW pair \in Keys \X Keys, NEW v \in 0..MaxZeros, Query(pair, v)
    PROVE  /\ DOMAIN lead' \subseteq Keys \X Keys
           /\ \A q \in DOMAIN lead' : lead'[q] \in 0..MaxZeros
BY DEF Query, TypeOK

\* The keys an ImportWIF input can carry are keys of held identities.
LEMMA HeldKeysType ==
    ASSUME TypeOK
    PROVE  HeldKeys \subseteq Keys
BY DEF HeldKeys, TypeOK, Identities

-----------------------------------------------------------------------------
(***************************************************************************)
(* Each operation keeps TInv.                                              *)
(***************************************************************************)
\* A call that returns an error changes nothing but what it returned.
LEMMA TInvReturnError ==
    ASSUME TInv, NEW c, NEW e,
           Return(c, e, NoAddress, NoIdentity),
           UNCHANGED <<held, results, lead, drawn, call, args, id, sn, dn, idx, out>>
    PROVE  TInv'
BY DEF TInv, TypeOK, CallInv, Return

LEMMA TInvNewRandom ==
    ASSUME TInv, NEW z \in 0..MaxZeros, NewRandom(z)
    PROVE  TInv'
<1>1. CASE /\ z >= 1
           /\ drawn < MaxDraws
           /\ drawn' = drawn + 1
           /\ call' = "NewRandom"
           /\ args' = [zeros |-> z]
           /\ id' = Ident(RandomKey(drawn), NoKey, NoAddress)
           /\ UNCHANGED <<held, results, lead, sn, dn, idx, out, last>>
  <2>1. RandomKey(drawn) \in Keys
    BY <1>1, KeysMembers DEF TInv, TypeOK
  <2>2. Ident(RandomKey(drawn), NoKey, NoAddress) \in LocalId
    BY <2>1 DEF Ident, LocalId
  <2>3. drawn' \in 0..MaxDraws
    BY <1>1, BoundsAssumption DEF TInv, TypeOK
  <2>4. id' \in [sign : Keys, dec : Keys \cup {NoKey}, addr : {NoAddress}] \cup {NoIdentity}
    BY <1>1, <2>2 DEF LocalId
  <2>5. UNCHANGED <<held, results, lead, sn, dn, idx, out, last>>
    BY <1>1
  <2>6. TypeOK'
    BY <2>3, <2>4, <2>5, <1>1 DEF TInv, TypeOK
  <2>7. CallInv'
    BY <1>1, <2>2 DEF TInv, CallInv
  <2>8. QED
    BY <2>6, <2>7 DEF TInv
<1>2. QED
  BY <1>1, TInvReturnError DEF NewRandom

LEMMA TInvRandomAttempt ==
    ASSUME TInv, RandomAttempt
    PROVE  TInv'
<1> DEFINE ek == RandomKey(drawn)
           pair == Ripe(id.sign, ek)
<1>1. call = "NewRandom" /\ UNCHANGED <<results, args, sn, dn, idx, out>>
  BY DEF RandomAttempt
<1>2. args \in [zeros : 1..MaxZeros] /\ id \in LocalId
  BY <1>1 DEF TInv, CallInv
<1>3. CASE /\ call' = "idle"
           /\ Return("NewRandom", "Entropy", NoAddress, NoIdentity)
           /\ UNCHANGED <<held, lead, drawn, id>>
  BY <1>1, <1>3 DEF TInv, TypeOK, CallInv, Return
<1>4. CASE RandomDraw(ek, pair)
  <2>1. drawn < MaxDraws /\ drawn' = drawn + 1 /\ drawn' \in 0..MaxDraws
    BY <1>4, BoundsAssumption DEF RandomDraw, TInv, TypeOK
  <2>2. ek \in Keys /\ pair \in Keys \X Keys
    BY <1>2, <2>1, KeysMembers DEF TInv, TypeOK, LocalId, Ripe
  <2>3. Ident(id.sign, ek, NoAddress) \in Identities
          /\ Ident(id.sign, ek, NoAddress) \in LocalId
    BY <1>2, <2>2 DEF Ident, Identities, LocalId
  <2>4. PICK v \in Answers(pair, args.zeros, drawn + 1 = MaxDraws) :
          /\ Query(pair, v)
          /\ IF v >= args.zeros
               THEN /\ Finish("NewRandom", Ident(id.sign, ek, NoAddress),
                              {Ident(id.sign, ek, NoAddress)})
                    /\ id' = Ident(id.sign, ek, NoAddress)
               ELSE /\ id' = Ident(id.sign, ek, NoAddress)
                    /\ UNCHANGED <<held, call, last>>
    BY <1>4 DEF RandomDraw
  <2>5. v \in 0..MaxZeros
    BY <1>2, <2>4, AnswersRange DEF TInv
  <2>6. /\ DOMAIN lead' \subseteq Keys \X Keys
        /\ \A q \in DOMAIN lead' : lead'[q] \in 0..MaxZeros
    BY <2>2, <2>4, <2>5, QueryType DEF TInv
  <2>7. CASE v >= args.zeros
    <3> DEFINE found == Ident(id.sign, ek, NoAddress)
    <3>1. held' = held \cup {found} /\ call' = "idle" /\ last'.id = found
          /\ id' = found
      BY <2>4, <2>7 DEF Finish, Return
    <3>2. TypeOK'
      BY <1>1, <2>1, <2>3, <2>6, <3>1 DEF TInv, TypeOK, LocalId
    <3>3. QED
      BY <3>1, <3>2, <1>1 DEF TInv, CallInv
  <2>8. CASE ~(v >= args.zeros)
    <3>1. id' = Ident(id.sign, ek, NoAddress) /\ UNCHANGED <<held, call, last>>
      BY <2>4, <2>8
    <3>2. TypeOK'
      BY <1>1, <2>1, <2>3, <2>6, <3>1 DEF TInv, TypeOK, LocalId
    <3>3. QED
      BY <1>1, <1>2, <2>3, <3>1, <3>2 DEF TInv, CallInv
  <2>9. QED
    BY <2>7, <2>8
<1>5. QED
  BY <1>3, <1>4 DEF RandomAttempt

LEMMA TInvNewDeterministic ==
    ASSUME TInv, NEW p \in Passphrases, NEW z \in 0..MaxZeros, NEW n \in 0..MaxN,
           NewDeterministic(p, z, n)
    PROVE  TInv'
<1>1. CASE z < 1
  BY <1>1, TInvReturnError DEF NewDeterministic
<1>2. CASE z >= 1
  <2>1. /\ sn' = 0 /\ dn' = 1 /\ out' = <<>>
        /\ args' = [pass |-> p, zeros |-> z, n |-> n]
        /\ UNCHANGED <<lead, drawn, id, idx>>
    BY <1>2 DEF NewDeterministic
  <2>2. args' \in [pass : Passphrases, zeros : 1..MaxZeros, n : Nat]
    BY <1>2, <2>1, BoundsAssumption
  <2>3. sn' <= NonceCap + 2 /\ dn' = sn' + 1 /\ sn' \in Nat /\ dn' \in Nat
        /\ out' \in Seq(Identities)
    BY <2>1, NonceCapNat
  <2>4. CASE n = 0
    <3>1. /\ results' = results \cup {[pass |-> p, zeros |-> z, ids |-> <<>>]}
          /\ held' = held /\ call' = "idle" /\ last'.id = NoIdentity
      BY <1>2, <2>4 DEF NewDeterministic, Finish, Return
    <3>2. [pass |-> p, zeros |-> z, ids |-> <<>>]
            \in [pass : Passphrases, zeros : 1..MaxZeros, ids : Seq(Identities)]
      BY <1>2
    <3>3. TypeOK'
      BY <2>1, <2>3, <3>1, <3>2 DEF TInv, TypeOK
    <3>4. QED
      BY <2>3, <3>1, <3>3 DEF TInv, CallInv
  <2>5. CASE n # 0
    <3>1. call' = "NewDeterministic" /\ UNCHANGED <<held, results, last>>
      BY <1>2, <2>5 DEF NewDeterministic
    <3>2. TypeOK'
      BY <2>1, <2>3, <3>1 DEF TInv, TypeOK
    <3>3. QED
      BY <2>2, <2>3, <3>1, <3>2 DEF TInv, CallInv
  <2>6. QED
    BY <2>4, <2>5
<1>3. QED
  BY <1>1, <1>2

LEMMA TInvDetAttempt ==
    ASSUME TInv, DetAttempt
    PROVE  TInv'
<1> DEFINE sk == DetKey(args.pass, sn)
           ek == DetKey(args.pass, dn)
           pair == Ripe(sk, ek)
           new == Ident(sk, ek, NoAddress)
           ids == Append(out, new)
<1>1. /\ call = "NewDeterministic" /\ sn <= NonceCap
      /\ sn' = sn + 2 /\ dn' = dn + 2
      /\ UNCHANGED <<drawn, args, id, idx>>
  BY DEF DetAttempt
<1>2. /\ args \in [pass : Passphrases, zeros : 1..MaxZeros, n : Nat]
      /\ sn \in Nat /\ dn = sn + 1
  BY <1>1 DEF TInv, CallInv, TypeOK
<1>3. /\ sk \in Keys /\ ek \in Keys /\ pair \in Keys \X Keys
      /\ new \in Identities
  BY <1>1, <1>2, NonceCapNat, KeysMembers DEF Ripe, Ident, Identities
<1>4. /\ sn' <= NonceCap + 2 /\ dn' = sn' + 1 /\ sn' \in Nat /\ dn' \in Nat
  BY <1>1, <1>2, NonceCapNat
<1>5. PICK v \in Answers(pair, args.zeros, sn >= MaxNonce) :
         /\ Query(pair, v)
         /\ IF v >= args.zeros
              THEN /\ out' = ids
                   /\ IF Len(ids) = args.n
                        THEN /\ results' = results \cup
                                  {[pass |-> args.pass, zeros |-> args.zeros, ids |-> ids]}
                             /\ Finish("NewDeterministic", NoIdentity,
                                       {ids[j] : j \in 1..Len(ids)})
                        ELSE UNCHANGED <<held, results, call, last>>
              ELSE UNCHANGED <<held, results, call, last, out>>
  BY DEF DetAttempt
<1>6. /\ DOMAIN lead' \subseteq Keys \X Keys
      /\ \A q \in DOMAIN lead' : lead'[q] \in 0..MaxZeros
  <2>1. Answers(pair, args.zeros, sn >= MaxNonce) \subseteq 0..MaxZeros
    <3>1. args.zeros \in 1..MaxZeros /\ (sn >= MaxNonce) \in BOOLEAN
      BY <1>2
    <3>2. QED
      BY <3>1, AnswersRange DEF TInv
  <2>2. QED
    BY <1>3, <1>5, <2>1, QueryType DEF TInv
<1>7. CASE v >= args.zeros
  <2>1. out' = ids /\ ids \in Seq(Identities)
    BY <1>3, <1>5, <1>7 DEF TInv, TypeOK
  <2>2. CASE Len(ids) = args.n
    <3>1. /\ results' = results \cup
                {[pass |-> args.pass, zeros |-> args.zeros, ids |-> ids]}
          /\ held' = held \cup {ids[j] : j \in 1..Len(ids)}
          /\ call' = "idle" /\ last'.id = NoIdentity
      BY <1>5, <1>7, <2>2 DEF Finish, Return
    <3>2. {ids[j] : j \in 1..Len(ids)} \subseteq Identities
      BY <2>1
    <3>3. [pass |-> args.pass, zeros |-> args.zeros, ids |-> ids]
            \in [pass : Passphrases, zeros : 1..MaxZeros, ids : Seq(Identities)]
      BY <1>2, <2>1
    <3>4. TypeOK'
      BY <1>1, <1>4, <1>6, <2>1, <3>1, <3>2, <3>3 DEF TInv, TypeOK
    <3>5. QED
      BY <1>4, <3>1, <3>4 DEF TInv, CallInv
  <2>3. CASE Len(ids) # args.n
    <3>1. UNCHANGED <<held, results, call, last>>
      BY <1>5, <1>7, <2>3
    <3>2. TypeOK'
      BY <1>1, <1>4, <1>6, <2>1, <3>1 DEF TInv, TypeOK
    <3>3. QED
      BY <1>1, <1>2, <1>4, <3>1, <3>2 DEF TInv, CallInv
  <2>4. QED
    BY <2>2, <2>3
<1>8. CASE ~(v >= args.zeros)
  <2>1. UNCHANGED <<held, results, call, last, out>>
    BY <1>5, <1>8
  <2>2. TypeOK'
    BY <1>1, <1>4, <1>6, <2>1 DEF TInv, TypeOK
  <2>3. QED
    BY <1>1, <1>2, <1>4, <2>1, <2>2 DEF TInv, CallInv
<1>9. QED
  BY <1>7, <1>8

LEMMA TInvNewHD ==
    ASSUME TInv, NEW m \in Masters \cup {PublicMaster}, NEW n \in HDIndices,
           NEW s \in Streams, NewHD(m, n, s)
    PROVE  TInv'
<1>1. CASE \E e \in {"NotPrivate", "ChildDerivation"} :
              /\ Return("NewHD", e, NoAddress, NoIdentity)
              /\ UNCHANGED <<held, results, lead, drawn, call, args, id, sn, dn, idx, out>>
  BY <1>1, TInvReturnError
<1>2. CASE /\ m # PublicMaster
           /\ call' = "NewHD"
           /\ args' = [master |-> m, n |-> n, stream |-> s]
           /\ id' = Ident(HDKey(m, n, s, 0), NoKey, NoAddress)
           /\ idx' = 1
           /\ UNCHANGED <<held, results, lead, drawn, sn, dn, out, last>>
  <2>1. m \in Masters /\ 0 \in 0..IndexRange - 1 /\ 1 \in 0..IndexRange - 1
    BY <1>2, IndexRangeAssumption
  <2>2. id' \in LocalId
    BY <1>2, <2>1, KeysMembers DEF Ident, LocalId
  <2>3. TypeOK'
    BY <1>2, <2>1, <2>2 DEF TInv, TypeOK, LocalId
  <2>4. QED
    BY <1>2, <2>1, <2>2, <2>3 DEF TInv, CallInv
<1>3. QED
  BY <1>1, <1>2 DEF NewHD

LEMMA TInvHDAttempt ==
    ASSUME TInv, HDAttempt
    PROVE  TInv'
<1> DEFINE ek == HDKey(args.master, args.n, args.stream, idx)
           pair == Ripe(id.sign, ek)
           found == Ident(id.sign, ek, CreateAddress(4, args.stream, pair))
<1>1. /\ call = "NewHD"
      /\ id' = Ident(id.sign, ek, NoAddress)
      /\ UNCHANGED <<results, drawn, args, sn, dn, out>>
  BY DEF HDAttempt
<1>2. /\ args \in [master : Masters, n : HDIndices, stream : Streams]
      /\ id \in LocalId /\ idx \in 0..IndexRange - 1
  BY <1>1 DEF TInv, CallInv, TypeOK
<1>3. /\ ek \in Keys /\ pair \in Keys \X Keys
      /\ found \in Identities
      /\ id' \in LocalId
  BY <1>1, <1>2, KeysMembers DEF LocalId, Ripe, Ident, Identities, Addresses,
                                 CreateAddress
<1>4. PICK v \in Answers(pair, 1, FALSE) :
         /\ Query(pair, v)
         /\ IF v >= 1
              THEN /\ Finish("NewHD", found, {found})
                   /\ UNCHANGED idx
              ELSE /\ idx' = NextIndex(idx)
                   /\ UNCHANGED <<held, call, last>>
  BY DEF HDAttempt
<1>5. /\ DOMAIN lead' \subseteq Keys \X Keys
      /\ \A q \in DOMAIN lead' : lead'[q] \in 0..MaxZeros
  <2>1. Answers(pair, 1, FALSE) \subseteq 0..MaxZeros
    <3>1. 1 \in 1..MaxZeros
      BY BoundsAssumption
    <3>2. QED
      BY <3>1, AnswersRange DEF TInv
  <2>2. QED
    BY <1>3, <1>4, <2>1, QueryType DEF TInv
<1>6. CASE v >= 1
  <2>1. /\ held' = held \cup {found} /\ call' = "idle" /\ last'.id = found
        /\ UNCHANGED idx
    BY <1>4, <1>6 DEF Finish, Return
  <2>2. TypeOK'
    BY <1>1, <1>3, <1>5, <2>1 DEF TInv, TypeOK, LocalId
  <2>3. QED
    BY <1>1, <2>1, <2>2 DEF TInv, CallInv
<1>7. CASE ~(v >= 1)
  <2>1. idx' = NextIndex(idx) /\ UNCHANGED <<held, call, last>>
    BY <1>4, <1>7
  <2>2. idx' \in 0..IndexRange - 1
    BY <1>2, <2>1, NextIndexRange
  <2>3. TypeOK'
    BY <1>1, <1>3, <1>5, <2>1, <2>2 DEF TInv, TypeOK, LocalId
  <2>4. QED
    BY <1>1, <1>2, <1>3, <2>1, <2>3 DEF TInv, CallInv
<1>8. QED
  BY <1>6, <1>7

(***************************************************************************)
(* What ImportWIF returns.  An error comes without an identity.  Without   *)
(* an error, the address, the signing key and the decryption key were     *)
(* decoded, and the identity holds the two keys and the address rebuilt   *)
(* from them with the given version and stream, whose ripe hash is the    *)
(* given one: it is the given address.                                     *)
(***************************************************************************)
LEMMA ImportResultError ==
    ASSUME NEW a, NEW sw, NEW dw, ImportResult(a, sw, dw).err # "nil"
    PROVE  ImportResult(a, sw, dw).id = NoIdentity
BY DEF ImportResult

LEMMA ImportResultAccepted ==
    ASSUME TypeOK, NEW a \in ImportAddresses, NEW sw \in ImportWIFs,
           NEW dw \in ImportWIFs, ImportResult(a, sw, dw).err = "nil"
    PROVE  \E v \in Versions, st \in Streams, k1 \in Keys, k2 \in Keys :
              /\ a = EncodeAddress(CreateAddress(v, st, Ripe(k1, k2)))
              /\ ImportResult(a, sw, dw).id =
                    Ident(k1, k2, CreateAddress(v, st, Ripe(k1, k2)))
<1>1. a # BadAddress /\ sw # BadWIF /\ dw # BadWIF
  BY DEF ImportResult
<1>2. PICK v \in Versions, st \in Streams, j \in {i \in held : i.addr # NoAddress} :
          a = EncodeAddress(CreateAddress(v, st, j.addr.ripe))
  BY <1>1 DEF ImportAddresses
<1>3. PICK k1 \in HeldKeys : sw = EncodeWIF(k1)
  BY <1>1 DEF ImportWIFs
<1>4. PICK k2 \in HeldKeys : dw = EncodeWIF(k2)
  BY <1>1 DEF ImportWIFs
<1>5. k1 \in Keys /\ k2 \in Keys
  BY <1>3, <1>4, HeldKeysType
<1>6. j.addr.ripe = Ripe(k1, k2)
  BY <1>1, <1>2, <1>3, <1>4 DEF ImportResult, EncodeAddress, EncodeWIF, CreateAddress
<1>7. ImportResult(a, sw, dw).id = Ident(k1, k2, CreateAddress(v, st, Ripe(k1, k2)))
  BY <1>1, <1>2, <1>3, <1>4, <1>6 DEF ImportResult, EncodeAddress, EncodeWIF,
                                        CreateAddress
<1>8. QED
  BY <1>2, <1>5, <1>6, <1>7

LEMMA TInvImportWIF ==
    ASSUME TInv, NEW a \in ImportAddresses, NEW sw \in ImportWIFs,
           NEW dw \in ImportWIFs, ImportWIF(a, sw, dw)
    PROVE  TInv'
<1> DEFINE r == ImportResult(a, sw, dw)
<1>1. /\ held' = IF r.err = "nil" THEN held \cup {r.id} ELSE held
      /\ last'.id = r.id
      /\ UNCHANGED <<results, lead, drawn, call, args, id, sn, dn, idx, out>>
  BY DEF ImportWIF, Return
<1>2. r.err = "nil" => r.id \in Identities
  <2>1. SUFFICES ASSUME r.err = "nil" PROVE r.id \in Identities
    OBVIOUS
  <2>2. PICK v \in Versions, st \in Streams, k1 \in Keys, k2 \in Keys :
           r.id = Ident(k1, k2, CreateAddress(v, st, Ripe(k1, k2)))
    BY <2>1, ImportResultAccepted DEF TInv
  <2>3. QED
    BY <2>2 DEF Ident, Identities, Addresses, CreateAddress, Ripe
<1>3. r.err # "nil" => r.id = NoIdentity
  BY ImportResultError
<1>4. TypeOK'
  BY <1>1, <1>2, <1>3 DEF TInv, TypeOK
<1>5. QED
  BY <1>1, <1>4 DEF TInv, CallInv

LEMMA TInvInit == Init => TInv
<1> SUFFICES ASSUME Init PROVE TInv
  OBVIOUS
<1>1. /\ held = {} /\ results = {} /\ lead = [q \in {} |-> 0] /\ drawn = 0
      /\ call = "idle" /\ id = NoIdentity /\ sn = 0 /\ dn = 1 /\ idx = 0
      /\ out = <<>> /\ last.id = NoIdentity
  BY DEF Init
<1>2. drawn \in 0..MaxDraws /\ idx \in 0..IndexRange - 1 /\ sn <= NonceCap + 2
  BY <1>1, IndexRangeAssumption, BoundsAssumption, NonceCapNat
<1>3. DOMAIN lead = {}
  BY <1>1
<1>4. TypeOK
  BY <1>1, <1>2, <1>3 DEF TypeOK
<1>5. QED
  BY <1>1, <1>2, <1>4 DEF TInv, CallInv

LEMMA TInvStep == TInv /\ [Next]_vars => TInv'
<1> SUFFICES ASSUME TInv, [Next]_vars PROVE TInv'
  OBVIOUS
<1>1. CASE UNCHANGED vars
  BY <1>1 DEF vars, TInv, TypeOK, CallInv
<1>2. QED
  BY <1>1, TInvNewRandom, TInvRandomAttempt, TInvNewDeterministic, TInvDetAttempt,
     TInvNewHD, TInvHDAttempt, TInvImportWIF DEF Next

(***************************************************************************)
(* Type correctness of the identity model for every value of the          *)
(* constants: in particular NewHD's child counter stays a uint32 of width *)
(* IndexBits, and every identity handed out or imported is made of keys   *)
(* the generators and the decoder can produce.                            *)
(***************************************************************************)
THEOREM TypeCorrect == Spec => []TypeOK
<1>1. TInv => TypeOK
  BY DEF TInv
<1>2. QED
  BY TInvInit, TInvStep, <1>1, PTL DEF Spec


-----------------------------------------------------------------------------
(***************************************************************************)
(* ImportWIF keeps the address it was given.  Only ImportWIF returns as    *)
(* "ImportWIF"; every other step leaves last alone or returns as another   *)
(* call.                                                                   *)
(***************************************************************************)
LEMMA OtherCallsLast ==
    ASSUME \/ \E z \in 0..MaxZeros : NewRandom(z)
           \/ RandomAttempt
           \/ \E p \in Passphrases, z \in 0..MaxZeros, n \in 0..MaxN : NewDeterministic(p, z, n)
           \/ DetAttempt
           \/ \E m \in Masters \cup {PublicMaster}, n \in HDIndices, s \in Streams : NewHD(m, n, s)
           \/ HDAttempt
    PROVE  last' = last \/ last'.call # "ImportWIF"
<1>1. CASE \E z \in 0..MaxZeros : NewRandom(z)
  BY <1>1 DEF NewRandom, Return
<1>2. CASE RandomAttempt
  BY <1>2 DEF RandomAttempt, RandomDraw, Finish, Return
<1>3. CASE \E p \in Passphrases, z \in 0..MaxZeros, n \in 0..MaxN : NewDeterministic(p, z, n)
  BY <1>3 DEF NewDeterministic, Finish, Return
<1>4. CASE DetAttempt
  BY <1>4 DEF DetAttempt, Finish, Return
<1>5. CASE \E m \in Masters \cup {PublicMaster}, n \in HDIndices, s \in Streams : NewHD(m, n, s)
  BY <1>5 DEF NewHD, Return
<1>6. CASE HDAttempt
  BY <1>6 DEF HDAttempt, Finish, Return
<1>7. QED
  BY <1>1, <1>2, <1>3, <1>4, <1>5, <1>6

LEMMA ImportKeepsAddressStep ==
    TypeOK /\ ImportKeepsAddress /\ [Next]_vars => ImportKeepsAddress'
<1> SUFFICES ASSUME TypeOK, ImportKeepsAddress, [Next]_vars
             PROVE  ImportKeepsAddress'
  OBVIOUS
<1>1. ASSUME NEW a \in ImportAddresses, NEW sw \in ImportWIFs,
             NEW dw \in ImportWIFs, ImportWIF(a, sw, dw)
      PROVE  ImportKeepsAddress'
  <2> DEFINE r == ImportResult(a, sw, dw)
  <2>1. last' = [call |-> "ImportWIF", err |-> r.err,
                 given |-> IF a = BadAddress THEN NoAddress ELSE a.str, id |-> r.id]
    BY <1>1 DEF ImportWIF, Return
  <2>2. CASE r.err = "nil"
    <3>1. PICK v \in Versions, st \in Streams, k1 \in Keys, k2 \in Keys :
             /\ a = EncodeAddress(CreateAddress(v, st, Ripe(k1, k2)))
             /\ r.id = Ident(k1, k2, CreateAddress(v, st, Ripe(k1, k2)))
      BY <2>2, ImportResultAccepted
    <3>2. a # BadAddress
      BY <2>2 DEF ImportResult
    <3>3. QED
      BY <2>1, <3>1, <3>2 DEF ImportKeepsAddress, EncodeAddress, Ident
  <2>3. CASE r.err # "nil"
    BY <2>1, <2>3 DEF ImportKeepsAddress
  <2>4. QED
    BY <2>2, <2>3
<1>2. CASE ~\E a \in ImportAddresses, sw \in ImportWIFs, dw \in ImportWIFs : ImportWIF(a, sw, dw)
  <2>1. last' = last \/ last'.call # "ImportWIF"
    <3>1. CASE UNCHANGED vars
      BY <3>1 DEF vars
    <3>2. CASE ~UNCHANGED vars
      BY <1>2, <3>2, OtherCallsLast DEF Next
    <3>3. QED
      BY <3>1, <3>2
  <2>2. QED
    BY <2>1 DEF ImportKeepsAddress
<1>3. QED
  BY <1>1, <1>2

(***************************************************************************)
(* ImportWIF never returns an identity for another address than the one   *)
(* it was given, for every value of the constants: the address it returns  *)
(* is rebuilt from the given version, stream and imported keys, and it    *)
(* is returned only when its ripe hash is the given one.                   *)
(***************************************************************************)
THEOREM ImportKeepsAddressTheorem == Spec => []ImportKeepsAddress
<1>1. Init => ImportKeepsAddress
  BY DEF Init, ImportKeepsAddress
<1>2. TInv /\ ImportKeepsAddress /\ [Next]_vars => (TInv /\ ImportKeepsAddress)'
  BY TInvStep, ImportKeepsAddressStep DEF TInv
<1>3. QED
  BY TInvInit, <1>1, <1>2, PTL DEF Spec


-----------------------------------------------------------------------------
(***************************************************************************)
(* Export then import gives the identity back.                             *)
(***************************************************************************)
\* Adding identities without an address, or with the address of their own
\* keys, keeps the first half of AddressOfKeys.
LEMMA HeldGrowth ==
    ASSUME AddressOfKeys, NEW new,
           \A i \in new : i.addr # NoAddress => i.addr.ripe = Ripe(i.sign, i.dec),
           held' = held \cup new
    PROVE  \A i \in held' : i.addr # NoAddress => i.addr.ripe = Ripe(i.sign, i.dec)
BY DEF AddressOfKeys

LEMMA AddressOfKeysStep ==
    TInv /\ AddressOfKeys /\ [Next]_vars => AddressOfKeys'
<1> SUFFICES ASSUME TInv, AddressOfKeys, [Next]_vars PROVE AddressOfKeys'
  OBVIOUS
<1>1. ASSUME NEW z \in 0..MaxZeros, NewRandom(z) PROVE AddressOfKeys'
  BY <1>1 DEF NewRandom, AddressOfKeys
<1>2. ASSUME RandomAttempt PROVE AddressOfKeys'
  <2>1. UNCHANGED out /\ \E new \in {{}, {Ident(id.sign, RandomKey(drawn), NoAddress)}} :
                           held' = held \cup new
    BY <1>2 DEF RandomAttempt, RandomDraw, Finish
  <2>2. QED
    BY <2>1, HeldGrowth DEF AddressOfKeys, Ident
<1>3. ASSUME NEW p \in Passphrases, NEW z \in 0..MaxZeros, NEW n \in 0..MaxN,
             NewDeterministic(p, z, n)
      PROVE  AddressOfKeys'
  BY <1>3 DEF NewDeterministic, Finish, AddressOfKeys
<1>4. ASSUME DetAttempt PROVE AddressOfKeys'
  <2> DEFINE new == Ident(DetKey(args.pass, sn), DetKey(args.pass, dn), NoAddress)
             ids == Append(out, new)
  <2>1. out \in Seq(Identities)
    BY DEF TInv, TypeOK
  <2>2. \A j \in 1..Len(ids) : ids[j].addr = NoAddress
    BY <2>1 DEF AddressOfKeys, Ident
  <2>3. \/ UNCHANGED <<held, out>>
        \/ out' = ids /\ UNCHANGED held
        \/ out' = ids /\ held' = held \cup {ids[j] : j \in 1..Len(ids)}
    BY <1>4 DEF DetAttempt, Finish
  <2>4. QED
    BY <2>2, <2>3, HeldGrowth DEF AddressOfKeys
<1>5. ASSUME NEW m \in Masters \cup {PublicMaster}, NEW n \in HDIndices,
             NEW s \in Streams, NewHD(m, n, s)
      PROVE  AddressOfKeys'
  BY <1>5 DEF NewHD, AddressOfKeys
<1>6. ASSUME HDAttempt PROVE AddressOfKeys'
  <2> DEFINE ek == HDKey(args.master, args.n, args.stream, idx)
             found == Ident(id.sign, ek, CreateAddress(4, args.stream, Ripe(id.sign, ek)))
  <2>1. UNCHANGED out /\ \E new \in {{}, {found}} : held' = held \cup new
    BY <1>6 DEF HDAttempt, Finish
  <2>2. found.addr.ripe = Ripe(found.sign, found.dec)
    BY DEF Ident, CreateAddress
  <2>3. QED
    BY <2>1, <2>2, HeldGrowth DEF AddressOfKeys
<1>7. ASSUME NEW a \in ImportAddresses, NEW sw \in ImportWIFs,
             NEW dw \in ImportWIFs, ImportWIF(a, sw, dw)
      PROVE  AddressOfKeys'
  <2> DEFINE r == ImportResult(a, sw, dw)
  <2>1. UNCHANGED out /\ held' = held \cup (IF r.err = "nil" THEN {r.id} ELSE {})
    BY <1>7 DEF ImportWIF
  <2>2. r.err = "nil" => r.id.addr.ripe = Ripe(r.id.sign, r.id.dec)
    <3>1. SUFFICES ASSUME r.err = "nil" PROVE r.id.addr.ripe = Ripe(r.id.sign, r.id.dec)
      OBVIOUS
    <3>2. PICK v \in Versions, st \in Streams, k1 \in Keys, k2 \in Keys :
             r.id = Ident(k1, k2, CreateAddress(v, st, Ripe(k1, k2)))
      BY <3>1, ImportResultAccepted DEF TInv
    <3>3. QED
      BY <3>2 DEF Ident, CreateAddress
  <2>3. QED
    BY <2>1, <2>2, HeldGrowth DEF AddressOfKeys
<1>8. CASE UNCHANGED vars
  BY <1>8 DEF vars, AddressOfKeys
<1>9. QED
  BY <1>1, <1>2, <1>3, <1>4, <1>5, <1>6, <1>7, <1>8 DEF Next

\* An identity whose address is that of its keys survives ExportWIF and
\* ImportWIF: the strings decode, and the rebuilt address is its address.
LEMMA RoundTripOfAddressOfKeys ==
    ASSUME TypeOK, AddressOfKeys
    PROVE  ExportImportRoundTrip
<1> SUFFICES ASSUME NEW i \in held, i.addr # NoAddress
             PROVE  LET e == ExportWIF(i)
                    IN  ImportResult(e.address, e.sign, e.dec) = [err |-> "nil", id |-> i]
  BY DEF ExportImportRoundTrip
<1>1. i \in Identities /\ i.addr \in Addresses /\ i.sign \in Keys /\ i.dec \in Keys
  BY DEF TypeOK, Identities
<1>2. i.addr.ripe = Ripe(i.sign, i.dec)
  BY DEF AddressOfKeys
<1>3. /\ EncodeAddress(i.addr) # BadAddress
      /\ EncodeWIF(i.sign) # BadWIF /\ EncodeWIF(i.dec) # BadWIF
  BY <1>1, EncodingAssumption DEF EncodeAddress, EncodeWIF
<1>4. CreateAddress(i.addr.version, i.addr.stream, Ripe(i.sign, i.dec)) = i.addr
  BY <1>1, <1>2 DEF Addresses, CreateAddress
<1>5. i = Ident(i.sign, i.dec, i.addr)
  BY <1>1 DEF Identities, Ident
<1>6. QED
  BY <1>3, <1>4, <1>5 DEF ExportWIF, ImportResult, EncodeAddress, EncodeWIF

(***************************************************************************)
(* ExportWIF followed by ImportWIF gives back every identity that has an   *)
(* address (from NewHD or from an earlier import), for every value of the *)
(* constants: both generate the ripe hash from the keys in the same order *)
(* and NewHD builds its address from the pair it returns.                  *)
(***************************************************************************)
THEOREM ExportImportRoundTripTheorem == Spec => []ExportImportRoundTrip
<1>1. Init => AddressOfKeys
  BY DEF Init, AddressOfKeys
<1>2. TInv /\ AddressOfKeys /\ [Next]_vars => (TInv /\ AddressOfKeys)'
  BY TInvStep, AddressOfKeysStep
<1>3. TInv /\ AddressOfKeys => ExportImportRoundTrip
  BY RoundTripOfAddressOfKeys DEF TInv
<1>4. QED
  BY TInvInit, <1>1, <1>2, <1>3, PTL DEF Spec

=============================================================================
