-------------------------- MODULE BroadcastCipher --------------------------
(***************************************************************************)
(* The broadcast cipher of src/cipher/broadcast.go, with the network       *)
(* between its users in the hands of an adversary.                         *)
(*                                                                         *)
(* Honest identities create tagless (v4) and tagged (v5) broadcasts:       *)
(* sign the signing encoding (object header, tag, Bitmessage), then        *)
(* encrypt the Bitmessage and the signature under a key derived from the   *)
(* sender's address.  Receivers open any object they are handed with the   *)
(* address they subscribe to.  The cryptography is symbolic: a hash is     *)
(* injective, a ciphertext can be opened only with the key it was made     *)
(* for, and a signature verifies only for the key and the digest it was    *)
(* made with.  The broadcast keys and tags are derived from public         *)
(* addresses, so the adversary can read every broadcast; it can replay     *)
(* what it reads under any header and any key, substitute the keys of the  *)
(* Bitmessage, sign with its own key (SHA-256 or the legacy SHA-1), and    *)
(* send malformed ciphertexts and signatures.                              *)
(***************************************************************************)
EXTENDS Naturals, FiniteSets

CONSTANTS
    Identity,       \* private identities (key pairs) of the users
    Attacker,       \* the identity whose private keys the adversary holds
    AddressVersion, \* the version of every identity's address
    Streams,        \* stream numbers
    StreamOf,       \* StreamOf[id]: the stream of id's address
    Expirations,    \* expiration times a caller may pass
    Payloads,       \* behavior, pow and body of a Bitmessage, abstracted
    MaxSent,        \* bound on the number of broadcasts created
    NoTag,          \* the tag field of a tagless object (there is none)
    NoDest,         \* a nil Bitmessage.Destination
    BadKey,         \* a public key that does not parse (ToBtcec fails)
    Garbage,        \* a ciphertext btcec.Decrypt rejects without ErrInvalidMAC
    Overlong,       \* a signature whose length exceeds SignatureMaxLength
    Unparsable,     \* signature bytes btcec.ParseSignature rejects
    NoReception     \* value of last before any object was opened

ASSUME IdentityAssumption == Attacker \in Identity
ASSUME StreamAssumption == StreamOf \in [Identity -> Streams]
ASSUME MaxSentAssumption == MaxSent \in Nat

VARIABLES
    sent,  \* the broadcasts created: [from |-> identity, obj |-> object]
    last   \* what the last NewTaglessBroadcast/NewTaggedBroadcast returned

vars == <<sent, last>>

\* obj.TaglessBroadcastVersion and obj.TaggedBroadcastVersion.
TaglessBroadcastVersion == 4
TaggedBroadcastVersion == 5

(***************************************************************************)
(* Addresses, keys and tags.  The RIPEMD-160 of the SHA-512 of the two     *)
(* public keys is an injective function of them.                           *)
(***************************************************************************)
Ripe(signKey, encKey) == <<signKey, encKey>>

CreateAddress(version, stream, ripe) ==
    [version |-> version, stream |-> stream, ripe |-> ripe]

Address(id) == CreateAddress(AddressVersion, StreamOf[id], Ripe(id, id))

Addresses == {Address(id) : id \in Identity}

\* The identity that holds the private keys of address a.
Owner(a) == CHOOSE id \in Identity : Address(id) = a

V4BroadcastDecryptionKey(a) == <<"v4", a>>
V5BroadcastDecryptionKey(a) == <<"v5", a>>
Tag(a) == <<"tag", a>>

BroadcastKeys ==
    {V4BroadcastDecryptionKey(a) : a \in Addresses}
        \cup {V5BroadcastDecryptionKey(a) : a \in Addresses}

Tags == {Tag(a) : a \in Addresses}

(***************************************************************************)
(* Headers.  An object is its header (what EncodeForSigning writes: the    *)
(* object header without nonce, and the tag of a tagged broadcast) and its *)
(* ciphertext.                                                             *)
(***************************************************************************)
TaglessHeader(expiration, stream) ==
    [version |-> TaglessBroadcastVersion, expiration |-> expiration,
     stream |-> stream, tag |-> NoTag]

TaggedHeader(expiration, stream, tag) ==
    [version |-> TaggedBroadcastVersion, expiration |-> expiration,
     stream |-> stream, tag |-> tag]

Headers ==
    {TaglessHeader(e, s) : e \in Expirations, s \in Streams}
        \cup {TaggedHeader(e, s, t) : e \in Expirations, s \in Streams, t \in Tags}

\* Bitmessage.encodeBroadcast: a broadcast carries no destination.
EncodeBroadcast(bm) ==
    [signKey |-> bm.signKey, encKey |-> bm.encKey, payload |-> bm.payload]

\* The signing encoding: header (and tag) followed by the Bitmessage.
EncodeForSigning(header, data) == <<header, data>>

\* A signature by the private signing key of id over a digest.
Sign(id, alg, content) == [signer |-> id, alg |-> alg, content |-> content]

\* sig.Verify(digest, key): made by key's private half over that digest.
SigVerify(sig, alg, content, key) ==
    sig = Sign(key, alg, content)

\* encodeForEncryption: the Bitmessage and the length-prefixed signature.
EncodeForEncryption(data, sig) == [data |-> data, sig |-> sig]

Encrypt(key, plain) == [key |-> key, plain |-> plain]

\* Mutant: signAndEncrypt signing and encrypting the caller's Bitmessage as
\* it is, destination included, instead of its broadcast encoding.
SignAndEncryptUnencoded(id, header, key, bm) ==
    LET sig == Sign(id, "sha256", EncodeForSigning(header, bm))
    IN  [header |-> header,
         encrypted |-> Encrypt(key, EncodeForEncryption(bm, sig))]

(***************************************************************************)
(* Creation: signAndEncrypt with the incomplete header of each variant.    *)
(***************************************************************************)
SignAndEncrypt(id, header, key, bm) ==
    LET data == EncodeBroadcast(bm)
        sig  == Sign(id, "sha256", EncodeForSigning(header, data))
    IN  [header |-> header,
         encrypted |-> Encrypt(key, EncodeForEncryption(data, sig))]

\* The Bitmessages a caller holding identity id builds for a broadcast.
Bitmessages(id) ==
    [signKey : {id}, encKey : {id}, payload : Payloads,
     destination : {NoDest} \cup Addresses]

CreateTaglessBroadcast(id, expiration, bm) ==
    LET a == Address(id)
    IN  /\ Cardinality(sent) < MaxSent
        /\ bm.destination = NoDest
        /\ sent' = sent \cup
             {[from |-> id,
               obj  |-> SignAndEncrypt(id, TaglessHeader(expiration, a.stream),
                                       V4BroadcastDecryptionKey(a), bm)]}
        /\ UNCHANGED last

CreateTaggedBroadcast(id, expires, bm, tag) ==
    LET a == Address(id)
    IN  /\ Cardinality(sent) < MaxSent
        /\ bm.destination = NoDest
        /\ sent' = sent \cup
             {[from |-> id,
               obj  |-> SignAndEncrypt(id, TaggedHeader(expires, a.stream, tag),
                                       V5BroadcastDecryptionKey(a), bm)]}
        /\ UNCHANGED last

(***************************************************************************)
(* Opening: newBroadcast decrypts, decodes and verifies.                   *)
(***************************************************************************)
Reject(kind) == [result |-> kind]
Accept(data) == [result |-> "ok", data |-> data]

\* Mutant: verify without the check of the keys against the address.
VerifySkipAddressCheck(header, plain, a) ==
    LET data    == plain.data
        content == EncodeForSigning(header, data)
    IN  IF data.signKey = BadKey \/ data.encKey = BadKey
            THEN Reject("KeyError")
        ELSE IF plain.sig = Unparsable
            THEN Reject("InvalidSignature")
        ELSE IF ~SigVerify(plain.sig, "sha256", content, data.signKey)
                /\ ~SigVerify(plain.sig, "sha1", content, data.signKey)
            THEN Reject("InvalidSignature")
        ELSE Accept(data)

\* verify: the embedded keys must regenerate the decrypting address, then
\* the signature must verify over the SHA-256, or else the SHA-1, digest.
Verify(header, plain, a) ==
    LET data    == plain.data
        content == EncodeForSigning(header, data)
    IN  IF data.signKey = BadKey \/ data.encKey = BadKey
            THEN Reject("KeyError")
        ELSE IF CreateAddress(a.version, a.stream,
                              Ripe(data.signKey, data.encKey)) # a
            THEN Reject("AddressMismatch")
        ELSE IF plain.sig = Unparsable
            THEN Reject("InvalidSignature")
        ELSE IF ~SigVerify(plain.sig, "sha256", content, data.signKey)
                /\ ~SigVerify(plain.sig, "sha1", content, data.signKey)
            THEN Reject("InvalidSignature")
        ELSE Accept(data)

NewBroadcast(o, key, a) ==
    IF o.encrypted = Garbage THEN Reject("DecryptError")
    ELSE IF o.encrypted.key # key THEN Reject("InvalidIdentity")
    ELSE IF o.encrypted.plain.sig = Overlong THEN Reject("Malformed")
    ELSE Verify(o.header, o.encrypted.plain, a)

NewTaglessBroadcast(o, a) ==
    NewBroadcast(o, V4BroadcastDecryptionKey(a), a)

\* Mutant: the tagged entry point derives the v4 decryption key.
NewTaggedBroadcastV4Key(o, a) ==
    IF o.header.tag # Tag(a) THEN Reject("InvalidIdentity")
    ELSE NewBroadcast(o, V4BroadcastDecryptionKey(a), a)

NewTaggedBroadcast(o, a) ==
    IF o.header.tag # Tag(a) THEN Reject("InvalidIdentity")
    ELSE NewBroadcast(o, V5BroadcastDecryptionKey(a), a)

(***************************************************************************)
(* What the adversary can put on the wire, given the broadcasts sent so    *)
(* far.  Key pairs of the Bitmessage are those of an identity (a mixed     *)
(* pair regenerates no address and fails like a foreign one) or a bad key. *)
(***************************************************************************)
KnownPlains == {s.obj.encrypted.plain : s \in sent}

WireData ==
    {[signKey |-> k, encKey |-> k, payload |-> m] : k \in Identity, m \in Payloads}
        \cup {[signKey |-> BadKey, encKey |-> Attacker, payload |-> m] : m \in Payloads}

ForgedSigs(header, data) ==
    {p.sig : p \in KnownPlains}
        \cup {Sign(Attacker, alg, EncodeForSigning(header, data)) : alg \in {"sha256", "sha1"}}
        \cup {Overlong, Unparsable}

Ciphertexts(header) ==
    {Garbage}
        \cup UNION {{Encrypt(k, EncodeForEncryption(d, sig)) : sig \in ForgedSigs(header, d)}
                      : k \in BroadcastKeys, d \in WireData}

Receive(version, Open(_, _)) ==
    \E a \in Addresses, h \in Headers :
        /\ h.version = version
        /\ \E c \in Ciphertexts(h) :
              last' = [addr |-> a, header |-> h,
                       outcome |-> Open([header |-> h, encrypted |-> c], a)]
        /\ UNCHANGED sent

ReceiveTagless == Receive(TaglessBroadcastVersion, NewTaglessBroadcast)
ReceiveTagged == Receive(TaggedBroadcastVersion, NewTaggedBroadcast)

Init ==
    /\ sent = {}
    /\ last = NoReception

Next ==
    \/ \E id \in Identity \ {Attacker}, e \in Expirations :
          \E bm \in Bitmessages(id) : CreateTaglessBroadcast(id, e, bm)
    \/ \E id \in Identity \ {Attacker}, e \in Expirations, t \in Tags :
          \E bm \in Bitmessages(id) : CreateTaggedBroadcast(id, e, bm, t)
    \/ ReceiveTagless
    \/ ReceiveTagged

Spec == Init /\ [][Next]_vars

-----------------------------------------------------------------------------
(***************************************************************************)
(* Properties.                                                             *)
(***************************************************************************)
ErrorKinds ==
    {"DecryptError", "InvalidIdentity", "Malformed", "KeyError",
     "AddressMismatch", "InvalidSignature"}

Outcomes == [result : ErrorKinds] \cup [result : {"ok"}, data : WireData]

Signatures ==
    [signer : Identity, alg : {"sha256", "sha1"}, content : Headers \X WireData]

Objects ==
    [header : Headers,
     encrypted : [key : BroadcastKeys, plain : [data : WireData, sig : Signatures]]]

\* The markers for what does not parse or decrypt are not keys, tags,
\* ciphertexts or signatures.
ASSUME MarkerAssumption ==
    /\ BadKey \notin Identity
    /\ NoTag \notin Tags
    /\ Garbage \notin [key : BroadcastKeys, plain : [data : WireData, sig : Signatures]]
    /\ {Overlong, Unparsable} \cap Signatures = {}

\* Type invariant: created broadcasts are well-formed objects of honest
\* senders, and an opened object yields one of the outcomes newBroadcast has.
TypeOK ==
    /\ sent \subseteq [from : Identity \ {Attacker}, obj : Objects]
    /\ last \in {NoReception} \cup [addr : Addresses, header : Headers, outcome : Outcomes]

\* The entry point a receiver calls for an object: NewTaglessBroadcast for a
\* *obj.TaglessBroadcast, NewTaggedBroadcast for a *obj.TaggedBroadcast.
Open(o, a) ==
    IF o.header.version = TaglessBroadcastVersion
        THEN NewTaglessBroadcast(o, a)
        ELSE NewTaggedBroadcast(o, a)

(***************************************************************************)
(* Authenticity (the surreptitious-forwarding defence of verify): whenever *)
(* NewTaglessBroadcast or NewTaggedBroadcast accepts an object with an     *)
(* address the adversary does not own, the owner of that address created a *)
(* broadcast with exactly that header (version, expiration, stream, tag)   *)
(* and that Bitmessage.  It rests on the address check and on the          *)
(* signature covering the header and the tag as well as the Bitmessage.   *)
(***************************************************************************)
Authenticity ==
    (last # NoReception /\ last.outcome.result = "ok" /\ Owner(last.addr) # Attacker)
        => \E s \in sent :
              /\ s.from = Owner(last.addr)
              /\ s.obj.header = last.header
              /\ s.obj.encrypted.plain.data = last.outcome.data

(***************************************************************************)
(* Round trip of Create* and New*: a broadcast opened with the address of  *)
(* the identity that created it, whose tag (if any) is that address's tag, *)
(* decrypts and verifies, and yields the Bitmessage that was encrypted.    *)
(***************************************************************************)
SenderCanOpen ==
    \A s \in sent :
        LET a == Address(s.from)
        IN  s.obj.header.tag \in {NoTag, Tag(a)}
               => Open(s.obj, a) = Accept(s.obj.encrypted.plain.data)
=============================================================================
