------------------------------ MODULE Identity ------------------------------
(***************************************************************************)
(* Private identities (package identity, src/unnamed/part_002): generation *)
(* from randomness (NewRandom), from a passphrase (NewDeterministic), from *)
(* an HD master key (NewHD), and import from WIF strings (ImportWIF).      *)
(*                                                                         *)
(* Keys and hashes are symbolic.  A private key is a term naming how it    *)
(* was made; SHA-512 of passphrase and nonce, and HD child derivation, are *)
(* injective.  The ripe hash of a key pair is the pair itself; how many    *)
(* leading zero bytes it has is decided by a hash oracle, lead, sampled    *)
(* lazily: the first query of a pair chooses any count, later queries of   *)
(* the same pair get the same answer.  The generation loops are taken one  *)
(* iteration per step, so that each query sees the oracle as it stands.    *)
(***************************************************************************)
EXTENDS Naturals, Sequences

CONSTANTS
    Passphrases,   \* passphrases given to NewDeterministic
    Masters,       \* private HD master keys
    PublicMaster,  \* an HD master key that is not private
    HDIndices,     \* identity numbers n given to NewHD
    Streams,       \* stream numbers
    Versions,      \* address versions accepted by DecodeAddress
    MaxZeros,      \* largest number of leading zero bytes the oracle reports
    MaxN,          \* largest n given to NewDeterministic
    MaxNonce,      \* NewDeterministic nonces from which the hash is a hit
    MaxDraws,      \* random keys NewRandom may draw
    IndexBits,     \* width of NewHD's child counter i (32 in the code)
    NoKey, NoAddress, BadAddress, BadWIF, NoIdentity

ASSUME BoundsAssumption ==
    /\ MaxZeros \in Nat \ {0} /\ MaxN \in Nat /\ MaxNonce \in Nat
    /\ MaxDraws \in Nat /\ IndexBits \in Nat \ {0}

VARIABLES
    held,     \* identities returned to the application
    results,  \* completed NewDeterministic calls: arguments and the slice
    lead,     \* the hash oracle: leading zero bytes of each queried pair
    drawn,    \* random private keys drawn so far
    call,     \* the generation call running, or "idle"
    args,     \* its arguments
    id,       \* the identity it is building (its local id)
    sn, dn,   \* NewDeterministic's signingKeyNonce and decryptionKeyNonce
    idx,      \* NewHD's child counter i
    out,      \* NewDeterministic's ids filled so far
    last      \* what the last completed call returned

vars == <<held, results, lead, drawn, call, args, id, sn, dn, idx, out, last>>

\* Nonces past which NewDeterministic stops trying (never reached when
\* every hash from MaxNonce on is a hit).
NonceCap == MaxNonce + 2 * MaxN + 1

\* uint32 arithmetic of NewHD's counter, at width IndexBits.
IndexRange == 2 ^ IndexBits

\* 2^IndexBits is at least 2 (the provers do not know exponentiation).
ASSUME IndexRangeAssumption == IndexRange \in Nat \ {0, 1}

(***************************************************************************)
(* Keys, hashes and encodings.                                             *)
(***************************************************************************)
\* btcec.NewPrivateKey: the k-th key drawn from the random source.
RandomKey(k) == <<"random", k>>

\* PrivKeyFromBytes(sha512(passphrase || varint(nonce))[:32]).
DetKey(p, nonce) == <<"det", p, nonce>>

\* m / purpose' / n' / stream' / 0' / c.
HDKey(m, n, s, c) == <<"hd", m, n, s, c>>

\* hashHelper over the two public keys: ripemd160(sha512(sk || ek)).
Ripe(sk, ek) == <<sk, ek>>

CreateAddress(version, stream, ripe) ==
    [version |-> version, stream |-> stream, ripe |-> ripe]

EncodeWIF(k) == [wif |-> k]
EncodeAddress(a) == [str |-> a]

\* The oracle's answers for a pair: fixed once queried; for a fresh pair
\* any count, or only hits when the caller's bound is reached.
Answers(pair, z, atBound) ==
    IF pair \in DOMAIN lead THEN {lead[pair]}
    ELSE IF atBound THEN z..MaxZeros ELSE 0..MaxZeros

Query(pair, v) ==
    lead' = [q \in DOMAIN lead \cup {pair} |-> IF q = pair THEN v ELSE lead[q]]

Ident(sk, ek, addr) == [sign |-> sk, dec |-> ek, addr |-> addr]

Return(c, err, given, res) ==
    last' = [call |-> c, err |-> err, given |-> given, id |-> res]

\* Back to idle with the call's result handed to the application.
Finish(c, res, newHeld) ==
    /\ held' = held \cup newHeld
    /\ call' = "idle"
    /\ Return(c, "nil", NoAddress, res)

(***************************************************************************)
(* NewRandom (lines 82-114).                                               *)
(***************************************************************************)
NewRandom(z) ==
    /\ call = "idle"
    /\ \/ /\ z < 1
          /\ Return("NewRandom", "MinZeros", NoAddress, NoIdentity)
          /\ UNCHANGED <<held, results, lead, drawn, call, args, id, sn, dn, idx, out>>
       \/ /\ z >= 1
          /\ Return("NewRandom", "Entropy", NoAddress, NoIdentity)
          /\ UNCHANGED <<held, results, lead, drawn, call, args, id, sn, dn, idx, out>>
       \/ /\ z >= 1
          /\ drawn < MaxDraws
          /\ drawn' = drawn + 1
          /\ call' = "NewRandom"
          /\ args' = [zeros |-> z]
          /\ id' = Ident(RandomKey(drawn), NoKey, NoAddress)
          /\ UNCHANGED <<held, results, lead, sn, dn, idx, out, last>>

\* A decryption key drawn, and the hash test on the pair.
RandomDraw(ek, pair) ==
    /\ drawn < MaxDraws
    /\ drawn' = drawn + 1
    /\ \E v \in Answers(pair, args.zeros, drawn + 1 = MaxDraws) :
         /\ Query(pair, v)
         /\ IF v >= args.zeros
              THEN /\ Finish("NewRandom", Ident(id.sign, ek, NoAddress),
                             {Ident(id.sign, ek, NoAddress)})
                   /\ id' = Ident(id.sign, ek, NoAddress)
              ELSE /\ id' = Ident(id.sign, ek, NoAddress)
                   /\ UNCHANGED <<held, call, last>>

\* One iteration of the loop: a fresh decryption key, then the hash test;
\* or the random source fails and the call returns its error.
RandomAttempt ==
    LET ek == RandomKey(drawn)
        pair == Ripe(id.sign, ek)
    IN  /\ call = "NewRandom"
        /\ \/ /\ call' = "idle"
              /\ Return("NewRandom", "Entropy", NoAddress, NoIdentity)
              /\ UNCHANGED <<held, lead, drawn, id>>
           \/ RandomDraw(ek, pair)
        /\ UNCHANGED <<results, args, sn, dn, idx, out>>

(***************************************************************************)
(* NewDeterministic (lines 118-173).                                       *)
(***************************************************************************)
\* Mutant: the nonces are not reset by a new call (declared outside it).
NewDeterministicKeepNonces(p, z, n) ==
    /\ call = "idle"
    /\ \/ /\ z < 1
          /\ Return("NewDeterministic", "MinZeros", NoAddress, NoIdentity)
          /\ UNCHANGED <<held, results, lead, drawn, call, args, id, sn, dn, idx, out>>
       \/ /\ z >= 1
          /\ out' = <<>>
          /\ args' = [pass |-> p, zeros |-> z, n |-> n]
          /\ IF n = 0
               THEN /\ results' = results \cup {[pass |-> p, zeros |-> z, ids |-> <<>>]}
                    /\ Finish("NewDeterministic", NoIdentity, {})
               ELSE /\ call' = "NewDeterministic"
                    /\ UNCHANGED <<held, results, last>>
          /\ UNCHANGED <<lead, drawn, id, idx, sn, dn>>

NewDeterministic(p, z, n) ==
    /\ call = "idle"
    /\ \/ /\ z < 1
          /\ Return("NewDeterministic", "MinZeros", NoAddress, NoIdentity)
          /\ UNCHANGED <<held, results, lead, drawn, call, args, id, sn, dn, idx, out>>
       \/ /\ z >= 1
          /\ sn' = 0
          /\ dn' = 1
          /\ out' = <<>>
          /\ args' = [pass |-> p, zeros |-> z, n |-> n]
          /\ IF n = 0
               THEN /\ results' = results \cup {[pass |-> p, zeros |-> z, ids |-> <<>>]}
                    /\ Finish("NewDeterministic", NoIdentity, {})
               ELSE /\ call' = "NewDeterministic"
                    /\ UNCHANGED <<held, results, last>>
          /\ UNCHANGED <<lead, drawn, id, idx>>

\* Mutant: the nonces restart for every identity of the slice.
DetAttemptResetPerIdentity ==
    LET sk == DetKey(args.pass, sn)
        ek == DetKey(args.pass, dn)
        pair == Ripe(sk, ek)
    IN  /\ call = "NewDeterministic"
        /\ sn <= NonceCap
        /\ \E v \in Answers(pair, args.zeros, sn >= MaxNonce) :
             /\ Query(pair, v)
             /\ IF v >= args.zeros
                  THEN LET ids == Append(out, Ident(sk, ek, NoAddress))
                       IN  /\ out' = ids
                           /\ sn' = 0
                           /\ dn' = 1
                           /\ IF Len(ids) = args.n
                                THEN /\ results' = results \cup
                                          {[pass |-> args.pass, zeros |-> args.zeros, ids |-> ids]}
                                     /\ Finish("NewDeterministic", NoIdentity,
                                               {ids[j] : j \in 1..Len(ids)})
                                ELSE UNCHANGED <<held, results, call, last>>
                  ELSE /\ sn' = sn + 2
                       /\ dn' = dn + 2
                       /\ UNCHANGED <<held, results, call, last, out>>
        /\ UNCHANGED <<drawn, args, id, idx>>

(***************************************************************************)
(* One iteration of the inner loop: the signing key from the passphrase   *)
(* and signingKeyNonce, the decryption key from decryptionKeyNonce, both  *)
(* nonces up by two, then the hash test; on a hit the identity goes into  *)
(* ids[i], and after the n-th the slice is returned.                       *)
(***************************************************************************)
DetAttempt ==
    LET sk == DetKey(args.pass, sn)
        ek == DetKey(args.pass, dn)
        pair == Ripe(sk, ek)
    IN  /\ call = "NewDeterministic"
        /\ sn <= NonceCap
        /\ sn' = sn + 2
        /\ dn' = dn + 2
        /\ \E v \in Answers(pair, args.zeros, sn >= MaxNonce) :
             /\ Query(pair, v)
             /\ IF v >= args.zeros
                  THEN LET ids == Append(out, Ident(sk, ek, NoAddress))
                       IN  /\ out' = ids
                           /\ IF Len(ids) = args.n
                                THEN /\ results' = results \cup
                                          {[pass |-> args.pass, zeros |-> args.zeros, ids |-> ids]}
                                     /\ Finish("NewDeterministic", NoIdentity,
                                               {ids[j] : j \in 1..Len(ids)})
                                ELSE UNCHANGED <<held, results, call, last>>
                  ELSE UNCHANGED <<held, results, call, last, out>>
        /\ UNCHANGED <<drawn, args, id, idx>>

(***************************************************************************)
(* NewHD (lines 179-238): a public master key is refused; deriving the    *)
(* path m / purpose' / n' / stream' / 0' may fail (an invalid child key);  *)
(* otherwise child 0 of the path is the signing key and the search starts. *)
(***************************************************************************)
NewHD(m, n, s) ==
    /\ call = "idle"
    /\ \/ /\ m = PublicMaster
          /\ Return("NewHD", "NotPrivate", NoAddress, NoIdentity)
          /\ UNCHANGED <<held, results, lead, drawn, call, args, id, sn, dn, idx, out>>
       \/ /\ m # PublicMaster
          /\ Return("NewHD", "ChildDerivation", NoAddress, NoIdentity)
          /\ UNCHANGED <<held, results, lead, drawn, call, args, id, sn, dn, idx, out>>
       \/ /\ m # PublicMaster
          /\ call' = "NewHD"
          /\ args' = [master |-> m, n |-> n, stream |-> s]
          /\ id' = Ident(HDKey(m, n, s, 0), NoKey, NoAddress)
          /\ idx' = 1
          /\ UNCHANGED <<held, results, lead, drawn, sn, dn, out, last>>

\* Mutant: the child counter without uint32 wrap-around.
NextIndexNoWrap(i) == i + 1

\* i++ on NewHD's uint32 counter.
NextIndex(i) == (i + 1) % IndexRange

(***************************************************************************)
(* One iteration of the search for the decryption key: child i of the      *)
(* address key, the first byte of the hash of the pair must be zero, then  *)
(* i++.  A failed derivation of child i continues to i+1 like a miss, and  *)
(* is left to the oracle's miss answer.                                    *)
(***************************************************************************)
HDAttempt ==
    LET ek == HDKey(args.master, args.n, args.stream, idx)
        pair == Ripe(id.sign, ek)
        found == Ident(id.sign, ek, CreateAddress(4, args.stream, pair))
    IN  /\ call = "NewHD"
        /\ \E v \in Answers(pair, 1, FALSE) :
             /\ Query(pair, v)
             /\ IF v >= 1
                  THEN /\ Finish("NewHD", found, {found})
                       /\ UNCHANGED idx
                  ELSE /\ idx' = NextIndex(idx)
                       /\ UNCHANGED <<held, call, last>>
        /\ id' = Ident(id.sign, ek, NoAddress)
        /\ UNCHANGED <<results, drawn, args, sn, dn, out>>

(***************************************************************************)
(* ImportWIF (lines 247-285) and ExportWIF (lines 290-296).  The result of *)
(* ImportWIF is a function of its inputs: the error, or the identity.      *)
(***************************************************************************)
\* Mutant: ImportWIF without the comparison of the ripe hashes.
ImportResultNoRipeCheck(addrStr, signWIF, decWIF) ==
    IF addrStr = BadAddress THEN [err |-> "AddressDecode", id |-> NoIdentity]
    ELSE IF signWIF = BadWIF THEN [err |-> "SigningKeyDecode", id |-> NoIdentity]
    ELSE IF decWIF = BadWIF THEN [err |-> "DecryptionKeyDecode", id |-> NoIdentity]
    ELSE LET addr == addrStr.str
         IN  [err |-> "nil",
              id |-> Ident(signWIF.wif, decWIF.wif,
                           CreateAddress(addr.version, addr.stream,
                                         Ripe(signWIF.wif, decWIF.wif)))]

\* Mutant: ImportWIF hashing the decryption key before the signing key.
ImportResultSwappedHash(addrStr, signWIF, decWIF) ==
    IF addrStr = BadAddress THEN [err |-> "AddressDecode", id |-> NoIdentity]
    ELSE IF signWIF = BadWIF THEN [err |-> "SigningKeyDecode", id |-> NoIdentity]
    ELSE IF decWIF = BadWIF THEN [err |-> "DecryptionKeyDecode", id |-> NoIdentity]
    ELSE LET addr == addrStr.str
             rebuilt == CreateAddress(addr.version, addr.stream, Ripe(decWIF.wif, signWIF.wif))
         IN  IF rebuilt.ripe # addr.ripe
               THEN [err |-> "AddressMismatch", id |-> NoIdentity]
               ELSE [err |-> "nil", id |-> Ident(signWIF.wif, decWIF.wif, rebuilt)]

ImportResult(addrStr, signWIF, decWIF) ==
    IF addrStr = BadAddress THEN [err |-> "AddressDecode", id |-> NoIdentity]
    ELSE IF signWIF = BadWIF THEN [err |-> "SigningKeyDecode", id |-> NoIdentity]
    ELSE IF decWIF = BadWIF THEN [err |-> "DecryptionKeyDecode", id |-> NoIdentity]
    ELSE LET addr == addrStr.str
             sk   == signWIF.wif
             ek   == decWIF.wif
             rebuilt == CreateAddress(addr.version, addr.stream, Ripe(sk, ek))
         IN  IF rebuilt.ripe # addr.ripe
               THEN [err |-> "AddressMismatch", id |-> NoIdentity]
               ELSE [err |-> "nil", id |-> Ident(sk, ek, rebuilt)]

ExportWIF(i) ==
    [address |-> EncodeAddress(i.addr), sign |-> EncodeWIF(i.sign), dec |-> EncodeWIF(i.dec)]

\* What a user may paste into ImportWIF: strings exported from held
\* identities, recombined, under any version and stream, or malformed.
HeldKeys == ({i.sign : i \in held} \cup {i.dec : i \in held}) \ {NoKey}

ImportAddresses ==
    {EncodeAddress(CreateAddress(v, s, i.addr.ripe)) :
        v \in Versions, s \in Streams, i \in {j \in held : j.addr # NoAddress}}
    \cup {BadAddress}

ImportWIFs == {EncodeWIF(k) : k \in HeldKeys} \cup {BadWIF}

ImportWIF(addrStr, signWIF, decWIF) ==
    LET r == ImportResult(addrStr, signWIF, decWIF)
    IN  /\ call = "idle"
        /\ held' = IF r.err = "nil" THEN held \cup {r.id} ELSE held
        /\ Return("ImportWIF", r.err,
                  IF addrStr = BadAddress THEN NoAddress ELSE addrStr.str, r.id)
        /\ UNCHANGED <<results, lead, drawn, call, args, id, sn, dn, idx, out>>

(***************************************************************************)
(* The specification.                                                      *)
(***************************************************************************)
Init ==
    /\ held = {}
    /\ results = {}
    /\ lead = [q \in {} |-> 0]
    /\ drawn = 0
    /\ call = "idle"
    /\ args = [none |-> 0]
    /\ id = NoIdentity
    /\ sn = 0
    /\ dn = 1
    /\ idx = 0
    /\ out = <<>>
    /\ last = [call |-> "none", err |-> "nil", given |-> NoAddress, id |-> NoIdentity]

Next ==
    \/ \E z \in 0..MaxZeros : NewRandom(z)
    \/ RandomAttempt
    \/ \E p \in Passphrases, z \in 0..MaxZeros, n \in 0..MaxN : NewDeterministic(p, z, n)
    \/ DetAttempt
    \/ \E m \in Masters \cup {PublicMaster}, n \in HDIndices, s \in Streams : NewHD(m, n, s)
    \/ HDAttempt
    \/ \E a \in ImportAddresses, sw \in ImportWIFs, dw \in ImportWIFs : ImportWIF(a, sw, dw)

Spec == Init /\ [][Next]_vars

-----------------------------------------------------------------------------
Keys ==
    {RandomKey(k) : k \in 0..MaxDraws}
    \cup {DetKey(p, x) : p \in Passphrases, x \in 0..NonceCap + 3}
    \cup {HDKey(m, n, s, c) : m \in Masters, n \in HDIndices, s \in Streams,
                              c \in 0..IndexRange - 1}

Addresses == [version : Versions \cup {4}, stream : Streams, ripe : Keys \X Keys]

Identities == [sign : Keys, dec : Keys, addr : Addresses \cup {NoAddress}]

\* A malformed address or WIF string is not the encoding of an address or
\* a key, and an identity without an address has none of the addresses.
ASSUME EncodingAssumption ==
    /\ NoAddress \notin Addresses
    /\ BadAddress \notin [str : Addresses]
    /\ BadWIF \notin [wif : Keys]

\* Type invariant.
TypeOK ==
    /\ held \subseteq Identities
    /\ results \subseteq [pass : Passphrases, zeros : 1..MaxZeros, ids : Seq(Identities)]
    /\ DOMAIN lead \subseteq Keys \X Keys
    /\ \A q \in DOMAIN lead : lead[q] \in 0..MaxZeros
    /\ drawn \in 0..MaxDraws
    /\ call \in {"idle", "NewRandom", "NewDeterministic", "NewHD"}
    /\ id \in [sign : Keys, dec : Keys \cup {NoKey}, addr : {NoAddress}] \cup {NoIdentity}
    /\ sn \in Nat /\ dn \in Nat /\ idx \in 0..IndexRange - 1
    /\ out \in Seq(Identities)
    /\ last.id \in Identities \cup {NoIdentity}

\* No key appears twice among the signing and decryption keys of a slice.
DistinctKeys(ids) ==
    \A j, k \in 1..Len(ids) :
        /\ j # k => ids[j].sign # ids[k].sign /\ ids[j].dec # ids[k].dec
        /\ ids[j].sign # ids[k].dec

(***************************************************************************)
(* NewDeterministic returns n different identities: the 2n keys of one    *)
(* slice are pairwise distinct.  The signing and decryption nonces are     *)
(* shared by the identities of the slice and by the retries of each one;   *)
(* restarting them anywhere would hand out a key twice.                    *)
(***************************************************************************)
DetDistinct ==
    \A r \in results : DistinctKeys(r.ids)

(***************************************************************************)
(* NewDeterministic is deterministic: two calls with the same passphrase   *)
(* and number of initial zeros agree on every identity both return, so a   *)
(* user recovers the same identities from the passphrase, whatever else    *)
(* was generated in between.                                               *)
(***************************************************************************)
DetReproducible ==
    \A r1, r2 \in results :
        (r1.pass = r2.pass /\ r1.zeros = r2.zeros /\ Len(r1.ids) <= Len(r2.ids))
            => r1.ids = SubSeq(r2.ids, 1, Len(r1.ids))

(***************************************************************************)
(* ExportWIF followed by ImportWIF gives back the identity: every          *)
(* identity with an address (from NewHD or from an earlier import) is      *)
(* accepted by ImportWIF's address check and rebuilt exactly.  It fails if *)
(* NewHD's address is not made from the key pair it returns, or if the    *)
(* import hashes the keys differently from the generation.                 *)
(***************************************************************************)
ExportImportRoundTrip ==
    \A i \in held :
        i.addr # NoAddress =>
            LET e == ExportWIF(i)
            IN  ImportResult(e.address, e.sign, e.dec) = [err |-> "nil", id |-> i]

(***************************************************************************)
(* ImportWIF never returns an identity for another address than the one   *)
(* it was given ("address does not correspond to private keys"), whatever  *)
(* keys, versions and streams the user recombines.                         *)
(***************************************************************************)
ImportKeepsAddress ==
    (last.call = "ImportWIF" /\ last.err = "nil") => last.id.addr = last.given

(***************************************************************************)
(* No identity decrypts with its signing key.  NewHD's search for the      *)
(* decryption key counts the child index i in a uint32 from 1 with no      *)
(* bound; after 2^32 - 1 misses it wraps to 0, the signing key's index.    *)
(***************************************************************************)
SigningKeyNotDecryptionKey ==
    \A i \in held : i.sign # i.dec

=============================================================================
