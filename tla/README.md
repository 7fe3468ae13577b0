# Formal models of bmutil

TLA+ models of the parts of bmutil (a Go library for the Bitmessage protocol)
that hold protocol logic: the broadcast cipher (`src/cipher/broadcast.go`),
the inv wire message (`src/unnamed/part_001`) and private identities
(`src/unnamed/part_002`). The models are checked with TLC on small instances.
Every safety property of the passing runs except the inv round trip (and the
inv type invariant it rests on) is also proved with TLAPS for every value of
the constants (section 4).

## 1. The system and its parts

| Part | Source | State and operations | Model |
|---|---|---|---|
| Broadcast cipher | `src/cipher/broadcast.go` | `CreateTaglessBroadcast`/`CreateTaggedBroadcast` sign and then encrypt. `NewTaglessBroadcast`/`NewTaggedBroadcast` filter on the tag, then decrypt, decode, check the address and verify the signature. | `BroadcastCipher` (modelled) |
| Shared sign/encrypt protocol | `broadcast.go` (`signAndEncrypt`, `verify`, `newBroadcast`) | Hashes the header and the Bitmessage, signs them, then encrypts the Bitmessage together with its signature. Verify regenerates the address from the embedded keys and tries SHA-256 first, then SHA-1. | `BroadcastCipher` (as broadcasts use it) |
| PubKey cipher | only its tests are in `src/unnamed/part_000` | Decrypting and verifying an extended/encrypted pubkey. | not modelled: the code is not under `src/` |
| Inv message | `src/unnamed/part_001` | `AddInvVect`, `Decode`, `Encode`, `NewMsgInv`. Callers can also assign the exported `InvList` directly. | `MsgInv` (modelled) |
| Private identity | `src/unnamed/part_002` | `Address` and `hash`. `NewRandom`, `NewDeterministic`, `NewHD`, `ImportWIF` and `ExportWIF` generate keys. | `Identity` (modelled). `BroadcastCipher` uses the same injective address of the key pair. |
| Bitmessage payload | not under `src/` | `encodeBroadcast` | modelled from the spec: `EncodeBroadcast` |
| varint, object headers, EC and hash primitives | external | byte-level encoding and cryptography | not modelled. A varint is a single token, and the cryptography is symbolic. |

How the parts interact:
- A broadcast is created by an identity (`identity.Private`) that has an address, such as one from `NewHD` or `ImportWIF` (`NewRandom` and `NewDeterministic` return identities without one). Its key is derived from the identity's public **address**: `V4BroadcastDecryptionKey` for tagless broadcasts, and `V5BroadcastDecryptionKey` plus `Tag` for tagged ones.
- As a result, anyone who knows the address can decrypt the broadcast. The cipher is authentic only because of the signature and the check that the embedded keys regenerate the address.
- An inv message announces objects, such as broadcasts, to peers.

What makes this code hard to test:
- An adversary reads every broadcast. It can then:
  - re-encrypt a broadcast for another address;
  - move a broadcast from tagless to tagged, or re-tag it;
  - swap in its own keys;
  - sign with its own key, using SHA-256 or SHA-1;
  - send garbage, overlong signatures and unparsable signatures.
- On the wire side, streams can be cut short by fixed writers or readers, and lists can sit exactly at the limit of `MaxInvPerMsg`.

PROJECT.json lists the hazards at the lines where they bite.

## 2. Modules

### `BroadcastCipher.tla`

**Constants:**
- `Identity`: the key pairs, with `Attacker` one of them.
- `AddressVersion`.
- `Streams` and `StreamOf`: each identity's stream.
- `Expirations`.
- `Payloads`: the abstract behavior/pow/body of a Bitmessage.
- `MaxSent`.
- Model values for the `nil`/error cases.

**Cryptography.** Cryptography is perfect and symbolic:
- `Ripe(sk, ek)` is the injective pair `<<sk, ek>>`, so two key pairs never share an address (part_002 `hash`).
- An identity's address, `Address(id)`, is built from its own key pair, as `NewHD` builds it (part_002 232) and `ImportWIF` checks it. The model's senders are therefore addressed identities.
- A signature is the record `[signer, alg, content]`, and `SigVerify` holds only for the record the key's owner would produce.
- `Encrypt(key, plain)` can be opened only with `key`.
- Broadcast keys and tags are distinct, publicly computable functions of the address. This is what `bmutil` does, and it is modelled from the spec.

**State:**
- `sent`: the broadcasts honest identities have created, each with its creator.
- `last`: the most recent reception (address, header, outcome), or `NoReception`.

**Actions:**
- `CreateTaglessBroadcast` (lines 279-300) and `CreateTaggedBroadcast` (302-323).
  - An honest identity encodes the header (`TaglessHeader`/`TaggedHeader`, 30-80) and signs it together with the Bitmessage.
  - It encrypts the result under the V4 or V5 key of its own address, using `SignAndEncrypt` (181-218).
  - A tagged broadcast takes its tag from the caller, as the code does.
  - The Bitmessage's `signKey` and `encKey` are the creator's own (`Bitmessages(id)`). The code does not check this; it is the caller's obligation, since spec section 3 says these keys identify the sender. A Bitmessage carrying other keys is created without error, but no address opens it as its creator's.
  - A Bitmessage with a destination is refused, following the guard of `encodeBroadcast`.
  - Signing and encryption errors return no object, so they are stutters.
- `ReceiveTagless` and `ReceiveTagged` call `NewTaglessBroadcast` (353-362) or `NewTaggedBroadcast` (364-377) for any address, on any object the adversary can build (`Ciphertexts`). Such an object can be:
  - a replay of a sent object, possibly re-headered, re-tagged or re-encrypted under another address's key;
  - a plain with substituted keys;
  - a plain signed by the attacker under SHA-256 or SHA-1;
  - garbage, or a plain with an overlong or unparsable signature.

  `NewBroadcast` (325-351) and `Verify` (220-277) follow the code's order of checks:
  1. tag, in tagged mode;
  2. decrypt, giving `DecryptError`;
  3. the encryption key embedded in the plain is the decryption key, giving `InvalidIdentity`;
  4. the signature length, giving `Malformed`;
  5. the keys, giving `KeyError`;
  6. the regenerated address equals the address, giving `AddressMismatch`;
  7. the signature parses, giving `InvalidSignature`;
  8. SHA-256, then SHA-1, verification, giving `InvalidSignature`.
- The adversary's data is limited to matching key pairs plus an unusable key (`BadKey`). A mixed pair regenerates the address of no identity, so it fails at step 6 exactly as a foreign pair does.

**Why spoofing gives a generic error.** The code's spoofing rejection (a key mismatch in `newBroadcast`) is a `fmt.Errorf`, not `ErrInvalidIdentity`. Spec §7/§8 call this case InvalidIdentity. The model names the error kind but no property depends on the error value.

### `MsgInv.tla`

**State:**
- The sender's `InvList` (`msg`).
- What its last `Encode` wrote (`wire`, `encodeOk`, `encoded`).
- The receiver's reused `InvList` (`recv`) and its last `Decode` (`decodeIn`, `decodeOk`).

**Actions:**
- `NewMsgInv`.
- `AssignInvList`: the field is exported, so a caller can put `MaxInvPerMsg+1` vectors in it.
- `AddInvVect` (38-48), with its limit.
- `Encode` (77-100), into a writer that fails after `cap` tokens, so any prefix can be written.
- `DecodeAction` (50-75), on a prefix of what was written, or on a crafted stream `<<count>> \o vectors` with a count up to `MaxInvPerMsg+1`.

`Decode` keeps the code's structure:
1. It returns before touching `InvList` when the count is missing or too large.
2. Otherwise it resets `InvList` and calls `AddInvVect` for each vector it reads, ignoring its error.
3. When the stream is short, it fails after the vectors the stream held.

### `Identity.tla`

**Keys and hashes.** Keys are symbolic terms:
- `RandomKey(k)` is the k-th key drawn from the random source;
- `DetKey(p, nonce)` is the key hashed from the passphrase and the nonce;
- `HDKey(m, n, s, c)` is child c of the path m / purpose' / n' / s' / 0'.

Distinct terms are distinct keys. The number of leading zero bytes of `hash()` on a key pair is a lazily sampled random oracle, `lead`:
- The first query of a pair may return any count in `0..MaxZeros`.
- A pair asked again gets the same answer.
- At the model's bound (`MaxDraws` random keys, nonce `MaxNonce`), only hits are offered. This keeps the loops finite without removing any order of hits and misses below the bound.

**State:**
- `held`: the identities handed to the application.
- `results`: every slice `NewDeterministic` returned, with its passphrase and zeros.
- `call`, `args`, `id`, `sn`, `dn`, `idx` and `out`: the locals of the generation call in progress.
- `last`: what the last call returned.

**Actions.** Each loop runs one iteration per step.
- `NewRandom` (82-114) and `RandomAttempt`. The errors come in the code's order: fewer than one zero, then a failure of the random source for the signing key or for any decryption key.
- `NewDeterministic` (118-173) and `DetAttempt`.
  - Both nonces start at 0 and 1 and go up by two on every attempt.
  - They are shared across the n identities and across the retries of each identity.
  - `n = 0` returns the empty slice.
- `NewHD` (179-238) and `HDAttempt`.
  - A public master key is refused, and any derivation on the path may fail.
  - The signing key is child 0. The search tries children 1, 2, ... for a hash whose first byte is zero.
  - `i` is a uint32. The model counts it modulo `2^IndexBits`.
  - A failed derivation of child i continues with i+1 (`continue`). It is indistinguishable from a miss, so the oracle's miss answer covers it.
- `ImportWIF` (247-285). Errors come in the code's order: address decode, signing-key decode, decryption-key decode, then the address rebuilt from the keys, whose ripe hash must equal the given one.
  - Its inputs are every encoded address of a held identity, under every version and stream, and every encoded held key, each recombined freely, plus malformed strings.
  - `ExportWIF` (290-296) gives the encoded strings.

PoW parameters and behavior (`setDefaultPOWParams`, `Public`, `ToPubKeyData`) are constant or pure conversions, and no property depends on them.

## 3. Runs

| Run | Module / cfg | Properties | Result |
|---|---|---|---|
| `broadcast_safety` | `MC_BroadcastCipher` / `BroadcastCipher.cfg` | `TypeOK`, `Authenticity`, `SenderCanOpen` | pass: 6567 distinct states, about 1.5 min |
| `msginv_codec` | `MC_MsgInv` / `MsgInv.cfg` | `TypeOK`, `RoundTrip`, `TruncatedDecodeFails` | pass: 56520 distinct states, a few seconds |
| `identity_generation` | `MC_Identity` / `Identity.cfg` | `TypeOK`, `DetDistinct`, `DetReproducible`, `ExportImportRoundTrip`, `ImportKeepsAddress` | pass: about 355000 distinct states, about 75 s |
| `hd_index_wrap` | `MC_Identity` / `Identity_SigningKeyNotDecryptionKey.cfg` | `SigningKeyNotDecryptionKey` | violation, as expected |

**Properties:**
- **Authenticity.** Suppose a reception succeeds for an address whose owner is not the attacker. Then that owner created a broadcast with the same header and the same Bitmessage.
  - This fails if the address comparison of `verify` is dropped: surreptitious forwarding.
  - It also fails if the signature does not cover the header as received, or if the SHA-1 fallback accepts a signature of another signer.
  - Honest senders sign with SHA-256 only (`signAndEncrypt`), so the model holds no honest SHA-1 signature. A fallback that accepted a SHA-1 signature over other content is therefore not caught.
- **SenderCanOpen.** Take a broadcast created with no tag or with the creator's own tag. `NewTaglessBroadcast`/`NewTaggedBroadcast` on the creator's address accept it and return the Bitmessage that was signed.
- **RoundTrip.** If `Encode` succeeded and the receiver read exactly its output, then `Decode` succeeded and holds the list that was encoded. This fails if `Encode` and `Decode` disagree on the limit, or if `AddInvVect` drops a vector at the boundary.
- **TruncatedDecodeFails.** Decoding any strict prefix of a complete encoding fails.
- **DetDistinct.** No key repeats within a slice returned by `NewDeterministic`. This fails if the nonces restart for each identity.
- **DetReproducible.** Two `NewDeterministic` calls with the same passphrase and zeros agree on their common prefix. This fails if the nonces are not reset by a new call.
- **ExportImportRoundTrip.** Every held identity with an address is accepted back unchanged by `ImportWIF` from its `ExportWIF` strings. This fails if the import hashes the keys in another order than generation does.
- **ImportKeepsAddress.** A successful `ImportWIF` returns an identity whose address is the decoded address given. This fails without the ripe-hash comparison.
- **SigningKeyNotDecryptionKey** (violation, a code bug). `NewHD`'s counter wraps to 0 after `2^IndexBits - 1` misses (2^32 - 1 in the code). The next hit returns the signing key as the decryption key too. With a miss probability of 255/256 per child, reaching the wrap is practically impossible, but the code does not prevent it.

Each property has a mutant of the code that TLC catches (see PROJECT.json). Among them:
- an address check left out;
- a V4 key used for tagged broadcasts;
- an off-by-one in `AddInvVect`;
- a `Decode` that stops quietly at end of stream.

**Bounds:**
- The broadcast run has three identities, one of them the attacker; two payloads; and two sent broadcasts.
  - This is enough for one honest identity's broadcast to be forwarded to, or forged for, another honest address.
  - It is also enough for a second broadcast to supply a different header or payload to splice.
  - One stream and one expiration suffice, because both are only copied into the header. A re-header is already exercised by the tagless/tagged switch and by re-tagging.
- The inv run has `MaxInvPerMsg = 2`, with lists of up to 3 vectors (one over the limit) and writer capacities 0 to 4. So every truncation point of every legal encoding is reached, as are the limit and the limit plus one.

- The identity run has one passphrase, one master key plus the public one, and one index and stream. Its bounds are:
  - `MaxZeros = 1`, so every test can hit or miss;
  - `MaxN = 2`, so slices hold two identities and share nonces;
  - `MaxNonce = 2`, so `NewDeterministic` can miss and retry before the forced hit;
  - `MaxDraws = 3`, so `NewRandom`'s first decryption key can miss and a second one be drawn (its signing key is the first draw);
  - `IndexBits = 2`, so the counter wraps after 3 misses;
  - `Versions = {3, 4}`, so the import sees an address re-versioned.

  Two `NewDeterministic` calls of different lengths make `DetReproducible` compare prefixes.

**Fairness.** All properties are safety properties. No fairness is assumed, and none is justified: the library's functions are called by applications that may never call them. Deadlock does not arise, because receiving, `NewMsgInv` and `ImportWIF` are always enabled. The generation loops end only with probability one. That is not a fairness condition, so no termination property is claimed; the model forces a hit at its bounds only to stay finite.

## 4. Proofs

### `BroadcastCipherProofs.tla`

Three theorems are checked by tlapm. They hold for every value of the constants that satisfies `IdentityAssumption`, `StreamAssumption`, `MaxSentAssumption` and `MarkerAssumption`. The last one says that the markers `BadKey`, `NoTag`, `Garbage`, `Overlong` and `Unparsable` are not identities, tags, ciphertexts or signatures; TLC evaluates it on every broadcast run.

- **`TypeCorrect`**: `Spec => []TypeOK`.
- **`AuthenticityTheorem`**: `Spec => []Authenticity`.
- **`SenderCanOpenTheorem`**: `Spec => []SenderCanOpen`.

`Authenticity` is not inductive on its own: a step that receives must know that every sent object carries its creator's signature. The inductive invariant is therefore:

`IInv == TypeOK /\ SentSigned /\ Authenticity`

where `SentSigned` says that every element of `sent` carries the SHA-256 signature of its creator over its own header and data. TLC checked `IInv` as an invariant before it was proved.

The key lemma is `AcceptedWasSent`. Suppose an object built by the adversary is accepted for an honest address. The embedded keys then regenerate that address, so by the injectivity of `Ripe`/`CreateAddress` they are its owner's keys. The signature verifies under the owner's key, so it is not the attacker's. It is therefore a signature that was read from `sent`, and by `SentSigned` that signature covers exactly this header and this data.

Creation steps preserve `SentSigned` by construction. Receive steps preserve `Authenticity` by the lemma.

`SenderCanOpen` needs a second fact about `sent`. `SentKeyed` says every created broadcast is encrypted under the key `newBroadcast` derives from its creator's address for its version (V4 for tagless, V5 for tagged), and carries its creator's keys. With `SentSigned`, every check of `newBroadcast` and `verify` passes for the creator's address (lemma `OpenOwnBroadcast`). A tagged header has a tag in `Tags`, so it is not `NoTag`, and the premise makes it the address's own.

### `IdentityProofs.tla`

**`DetDistinctTheorem`** is `Spec => []DetDistinct`, for every passphrase set and bound. It needs only `BoundsAssumption`.

The inductive invariant is `NonceInv /\ DetDistinct`. While a `NewDeterministic` call runs, `NonceInv` says:
- `sn` is even and `dn = sn + 1`;
- `out` holds deterministic identities whose keys are `DetKey(pass, k)` and `DetKey(pass, k+1)` for even k below `sn`;
- these k strictly increase along `out`.

So every key of the slice has its own nonce (lemma `DistinctFromNonces`), and the next identity's nonce exceeds them all. The steps of the other calls do not touch `results`, `sn`, `dn` or `out` (lemma `OtherActionsFrame`). TLC checked the invariant on the identity instance before it was proved.

### `IdentityTypeProofs.tla`

Three theorems, under `BoundsAssumption`, `IndexRangeAssumption` and `EncodingAssumption`:
- **`TypeCorrect`**: `Spec => []TypeOK`.
- **`ImportKeepsAddressTheorem`**: `Spec => []ImportKeepsAddress`.
- **`ExportImportRoundTripTheorem`**: `Spec => []ExportImportRoundTrip`.

`TypeOK` is not inductive: a step of a running call needs the shape of that call's `args` and `id`. The strengthening `TInv == TypeOK /\ CallInv` adds, for each running call, the record type of its arguments, that its local identity has no address yet, and the bounds `sn <= NonceCap + 2`, `dn = sn + 1`. There is one lemma per action (`TInvNewRandom` ... `TInvImportWIF`).

`ImportKeepsAddress` rests on lemma `ImportResultAccepted`: an accepted import returns the identity built from the two decoded keys and the decoded address, after the ripe hash of those keys was compared with that address. Every other action leaves `last` alone or records another call (lemma `OtherCallsLast`).

`ExportImportRoundTrip` needs `AddressOfKeys`. This says that every held identity with an address has the address of its own key pair, and that the identities of a running `NewDeterministic` slice have no address. `NewHD` builds its address from the pair it found, and an import rebuilds it from the decoded keys. Given `AddressOfKeys`, the export strings decode, and the rebuilt address is the identity's own (lemma `RoundTripOfAddressOfKeys`).

Two assumptions are needed only by the provers; TLC evaluates both on every identity run.
- `IndexRangeAssumption` says that `2^IndexBits` is at least 2, because the SMT backend does not interpret `^`.
- `EncodingAssumption` says that the malformed strings `BadAddress` and `BadWIF` are not encodings of an address or a key, and that `NoAddress` is not an address. They are model values, and the provers cannot tell a model value from a record.

### `IdentityReproProofs.tla`

**`DetReproducibleTheorem`** is `Spec => []DetReproducible`.

The argument does not need induction over sequences. Each slice is characterised by counting:
- `DetHits(o, p, z, L)` is the set of even nonces below L whose pair the oracle `o` answers with at least z zeros.
- `SliceOf(o, p, z, L, s)` says the oracle answered at every even nonce below L, and that the j-th identity of s is made at a hit with exactly j - 1 hits below it.
- `ReproInv` says every result is such a slice. It also says the running call's `out` is one for its `sn`, with as many identities as there are hits below `sn`.

The j-th element of two such slices is made at the same nonce: a hit t1 below t2 makes the hits below t2 strictly more (lemma `HitsStrict`, from `FS_AddElement` and `FS_Subset`). This gives `SlicePrefix`.

The oracle only grows and never changes an answer (`QueryExtends`). So slices stay slices when other calls query it (`SliceStable`). `DetAttempt` extends the slice by one search step (`SliceHit`, `SliceMiss`), and `NewDeterministic` restarts at nonce 0.

The operators take the oracle as an argument, so the same lemmas serve before and after a step. TLC checked `ReproInv` on the identity instance first.

### `MsgInvProofs.tla`

**`TruncatedDecodeFailsTheorem`** is `Spec => []TruncatedDecodeFails`, under `MaxAssumption`. The invariant `MsgShape` says:
- the lists and streams are sequences;
- `wire` starts with a count;
- a stream `Decode` accepted has at least as many tokens after its count as the count says.

A strict prefix of `<<Len(e)>> \o e` starts with `Len(e)` and is shorter than the encoding. Hence `Decode` reports the short read. The fold that rebuilds the list plays no part.

### What stays with TLC only

- **`RoundTrip`, and `MsgInv`'s `TypeOK`.** Both need what `FoldLeft(AddInvVect, <<>>, l)` returns for every list l: it returns l when `Len(l) <= MaxInvPerMsg`. That is induction over the list. The library's induction theorems take an operator parameter, and the installed provers cannot instantiate one.
- **The violation runs.** They are counterexamples, not theorems.
- **Liveness.** No liveness is claimed (see Fairness). ENABLED and liveness are beyond tlapm in any case.

TLC checked every inductive invariant above as an invariant before it was proved:
- `IInv`, `SentSigned` and `SentKeyed`;
- `TInv` and `AddressOfKeys`;
- `NonceInv`;
- `ReproInv`;
- `MsgShape`.

## 5. Not modelled

- **The PubKey cipher.** Its code is not under `src/`; only its tests are (part_000).
- **Byte-level encodings** (varint, object headers). These are symbolic or tokens.
- **Elliptic-curve and hash algorithms.** These are assumed perfect.
- **PoW data and behavior bits of identities.** Constants and pure conversions.
- **Termination of the key search loops.** It is probabilistic, and bounded in the model.
- **`createAddress` errors in `NewHD` and `ImportWIF`.** They arise only for a version or stream outside the range `createAddress` accepts. `NewHD` passes version 4, and `ImportWIF` rebuilds with the version it decoded, so the models treat the call as total.
- **`NewBroadcast`'s decode failures** other than an overlong signature are folded into the undecryptable case (`Garbage`, `DecryptError`). Each is an error return, and no property tells them apart.
- **`NewDeterministic` with a negative n.** This panics in `make`; the model's n is non-negative.

## 6. Plan

1. **Compose** `Identity` with `BroadcastCipher`, so that imported and HD identities are senders.
2. **MsgInv round trip.** Prove `RoundTrip` by stating the fold's result as a lemma per list length up to a bound, or by a `Decode` whose list is built without a fold.
3. **The PubKey cipher**, from the spec and the tests in part_000.
