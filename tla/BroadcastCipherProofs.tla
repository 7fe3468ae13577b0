----------------------- MODULE BroadcastCipherProofs -----------------------
(***************************************************************************)
(* Proofs about BroadcastCipher for every value of its constants.          *)
(***************************************************************************)
EXTENDS BroadcastCipher, TLAPS

(***************************************************************************)
(* Every broadcast created carries the SHA-256 signature of its creator    *)
(* over its own header and Bitmessage (what signAndEncrypt writes).        *)
(***************************************************************************)
SentSigned ==
    \A s \in sent :
        s.obj.encrypted.plain.sig =
            Sign(s.from, "sha256",
                 EncodeForSigning(s.obj.header, s.obj.encrypted.plain.data))

\* The inductive invariant behind Authenticity.
IInv == TypeOK /\ SentSigned /\ Authenticity

-----------------------------------------------------------------------------
(***************************************************************************)
(* Addresses: two identities with the same address are the same identity, *)
(* so an address has one owner.                                           *)
(***************************************************************************)
LEMMA AddressInjective ==
    \A i, j \in Identity : Address(i) = Address(j) => i = j
BY DEF Address, CreateAddress, Ripe

LEMMA OwnerOfAddress ==
    \A id \in Identity : Owner(Address(id)) = id
BY AddressInjective DEF Owner

LEMMA AddressHasOwner ==
    \A a \in Addresses : Owner(a) \in Identity /\ a = Address(Owner(a))
BY OwnerOfAddress DEF Addresses

(***************************************************************************)
(* The shape of what the adversary can send: garbage, or a ciphertext      *)
(* under a broadcast key of a Bitmessage and a signature it can forge.     *)
(***************************************************************************)
LEMMA CiphertextShape ==
    ASSUME NEW h, NEW c \in Ciphertexts(h), c # Garbage
    PROVE  \E k \in BroadcastKeys, d \in WireData :
              \E sig \in ForgedSigs(h, d) :
                 c = Encrypt(k, EncodeForEncryption(d, sig))
BY DEF Ciphertexts

\* An object under a forged ciphertext that newBroadcast accepts yields its
\* own Bitmessage, a member of WireData.
LEMMA NewBroadcastOutcome ==
    ASSUME NEW h, NEW c \in Ciphertexts(h), NEW k, NEW a
    PROVE  NewBroadcast([header |-> h, encrypted |-> c], k, a) \in Outcomes
<1> DEFINE o == [header |-> h, encrypted |-> c]
<1>1. CASE c = Garbage
  BY <1>1 DEF NewBroadcast, Reject, Outcomes, ErrorKinds
<1>2. CASE c # Garbage
  <2>1. PICK kk \in BroadcastKeys, d \in WireData :
              \E sig \in ForgedSigs(h, d) :
                 c = Encrypt(kk, EncodeForEncryption(d, sig))
    BY <1>2, CiphertextShape
  <2> PICK sig \in ForgedSigs(h, d) : c = Encrypt(kk, EncodeForEncryption(d, sig))
    BY <2>1
  <2>2. o.encrypted.plain = [data |-> d, sig |-> sig]
    BY <2>1 DEF Encrypt, EncodeForEncryption
  <2>3. Verify(h, o.encrypted.plain, a) \in Outcomes
    BY <2>2 DEF Verify, Reject, Accept, Outcomes, ErrorKinds
  <2>4. QED
    BY <2>3, <1>2 DEF NewBroadcast, Reject, Outcomes, ErrorKinds
<1>3. QED
  BY <1>1, <1>2
(***************************************************************************)
(* The core of Authenticity: if newBroadcast accepts, with an address      *)
(* whose owner is not the adversary, an object the adversary can build,    *)
(* then the owner created a broadcast with that header and Bitmessage.     *)
(* The address check pins the embedded signing key to the owner's key; a   *)
(* signature by that key is one the adversary read from a broadcast the    *)
(* owner created, over that broadcast's header and Bitmessage.             *)
(***************************************************************************)
LEMMA AcceptedWasSent ==
    ASSUME TypeOK, SentSigned,
           NEW h, NEW c \in Ciphertexts(h), NEW k, NEW a \in Addresses,
           Owner(a) # Attacker,
           NewBroadcast([header |-> h, encrypted |-> c], k, a).result = "ok"
    PROVE  \E s \in sent :
              /\ s.from = Owner(a)
              /\ s.obj.header = h
              /\ s.obj.encrypted.plain.data =
                    NewBroadcast([header |-> h, encrypted |-> c], k, a).data
<1> DEFINE o == [header |-> h, encrypted |-> c]
           id == Owner(a)
<1>1. c # Garbage
  BY DEF NewBroadcast, Reject
<1>2. PICK kk \in BroadcastKeys, d \in WireData :
            \E sig \in ForgedSigs(h, d) :
               c = Encrypt(kk, EncodeForEncryption(d, sig))
  BY <1>1, CiphertextShape
<1>3. PICK sig \in ForgedSigs(h, d) : c = Encrypt(kk, EncodeForEncryption(d, sig))
  BY <1>2
<1>4. o.encrypted.plain = [data |-> d, sig |-> sig]
  BY <1>3 DEF Encrypt, EncodeForEncryption
<1>5. /\ sig # Overlong
      /\ NewBroadcast(o, k, a) = Verify(h, o.encrypted.plain, a)
  BY <1>1, <1>4 DEF NewBroadcast, Reject
<1>6. /\ d.signKey # BadKey /\ d.encKey # BadKey
      /\ CreateAddress(a.version, a.stream, Ripe(d.signKey, d.encKey)) = a
      /\ sig # Unparsable
      /\ \/ SigVerify(sig, "sha256", EncodeForSigning(h, d), d.signKey)
         \/ SigVerify(sig, "sha1", EncodeForSigning(h, d), d.signKey)
      /\ NewBroadcast(o, k, a).data = d
  BY <1>4, <1>5 DEF Verify, Reject, Accept
<1>7. id \in Identity /\ a = Address(id)
  BY AddressHasOwner
<1>8. d.signKey = id
  BY <1>6, <1>7 DEF CreateAddress, Address, Ripe
<1>9. \E alg \in {"sha256", "sha1"} : sig = Sign(id, alg, EncodeForSigning(h, d))
  BY <1>6, <1>8 DEF SigVerify
<1>10. CASE sig \in {p.sig : p \in KnownPlains}
  <2>1. PICK s \in sent : sig = s.obj.encrypted.plain.sig
    BY <1>10 DEF KnownPlains
  <2>2. sig = Sign(s.from, "sha256",
                   EncodeForSigning(s.obj.header, s.obj.encrypted.plain.data))
    BY <2>1 DEF SentSigned
  <2>3. s.from = id /\ s.obj.header = h /\ s.obj.encrypted.plain.data = d
    BY <1>9, <2>2 DEF Sign, EncodeForSigning
  <2>4. QED
    BY <2>3, <1>6
<1>11. CASE sig \in {Sign(Attacker, alg, EncodeForSigning(h, d)) : alg \in {"sha256", "sha1"}}
  BY <1>9, <1>11 DEF Sign
<1>12. QED
  BY <1>3, <1>5, <1>6, <1>10, <1>11 DEF ForgedSigs
(***************************************************************************)
(* What the two entry points return is an outcome of newBroadcast, and an  *)
(* acceptance by either is an acceptance by newBroadcast.                  *)
(***************************************************************************)
LEMMA OpenOutcome ==
    ASSUME NEW h, NEW c \in Ciphertexts(h), NEW a
    PROVE  /\ NewTaglessBroadcast([header |-> h, encrypted |-> c], a) \in Outcomes
           /\ NewTaggedBroadcast([header |-> h, encrypted |-> c], a) \in Outcomes
BY NewBroadcastOutcome DEF NewTaglessBroadcast, NewTaggedBroadcast, Reject,
                           Outcomes, ErrorKinds

LEMMA OpenAccepted ==
    ASSUME NEW o, NEW a,
           \/ NewTaglessBroadcast(o, a).result = "ok"
           \/ NewTaggedBroadcast(o, a).result = "ok"
    PROVE  \E key : /\ NewBroadcast(o, key, a).result = "ok"
                   /\ \/ NewTaglessBroadcast(o, a) = NewBroadcast(o, key, a)
                      \/ NewTaggedBroadcast(o, a) = NewBroadcast(o, key, a)
BY DEF NewTaglessBroadcast, NewTaggedBroadcast, Reject

\* A broadcast created by an honest identity is a well-formed object.
LEMMA SignAndEncryptType ==
    ASSUME NEW id \in Identity, NEW h \in Headers, NEW key \in BroadcastKeys,
           NEW bm \in Bitmessages(id)
    PROVE  SignAndEncrypt(id, h, key, bm) \in Objects
<1>1. EncodeBroadcast(bm) \in WireData
  BY DEF EncodeBroadcast, Bitmessages, WireData
<1>2. QED
  BY <1>1 DEF SignAndEncrypt, Objects, Signatures, Sign, EncodeForSigning,
              Encrypt, EncodeForEncryption

LEMMA CreatedAddress ==
    ASSUME NEW id \in Identity
    PROVE  /\ Address(id).stream \in Streams
           /\ V4BroadcastDecryptionKey(Address(id)) \in BroadcastKeys
           /\ V5BroadcastDecryptionKey(Address(id)) \in BroadcastKeys
<1>1. Address(id).stream \in Streams
  BY StreamAssumption DEF Address, CreateAddress
<1>2. Address(id) \in Addresses
  BY DEF Addresses
<1>3. QED
  BY <1>1, <1>2 DEF BroadcastKeys

LEMMA CreatedHeaders ==
    ASSUME NEW e \in Expirations, NEW st \in Streams
    PROVE  /\ TaglessHeader(e, st) \in Headers
           /\ \A t \in Tags : TaggedHeader(e, st, t) \in Headers
BY DEF Headers

-----------------------------------------------------------------------------
(***************************************************************************)
(* Type correctness of the specification.                                  *)
(***************************************************************************)
LEMMA TypeOKInit == Init => TypeOK
BY DEF Init, TypeOK

LEMMA TypeOKStep == TypeOK /\ [Next]_vars => TypeOK'
<1> SUFFICES ASSUME TypeOK, [Next]_vars PROVE TypeOK'
  OBVIOUS
<1>1. ASSUME NEW id \in Identity \ {Attacker}, NEW e \in Expirations,
             NEW bm \in Bitmessages(id), CreateTaglessBroadcast(id, e, bm)
      PROVE  TypeOK'
  <2> DEFINE a == Address(id)
  <2>1. a.stream \in Streams /\ V4BroadcastDecryptionKey(a) \in BroadcastKeys
    BY CreatedAddress
  <2>2. TaglessHeader(e, a.stream) \in Headers
    BY <2>1, CreatedHeaders
  <2>3. SignAndEncrypt(id, TaglessHeader(e, a.stream), V4BroadcastDecryptionKey(a), bm)
          \in Objects
    BY <2>1, <2>2, SignAndEncryptType
  <2>4. QED
    BY <1>1, <2>3 DEF CreateTaglessBroadcast, TypeOK
<1>2. ASSUME NEW id \in Identity \ {Attacker}, NEW e \in Expirations,
             NEW t \in Tags, NEW bm \in Bitmessages(id),
             CreateTaggedBroadcast(id, e, bm, t)
      PROVE  TypeOK'
  <2> DEFINE a == Address(id)
  <2>1. a.stream \in Streams /\ V5BroadcastDecryptionKey(a) \in BroadcastKeys
    BY CreatedAddress
  <2>2. TaggedHeader(e, a.stream, t) \in Headers
    BY <2>1, CreatedHeaders
  <2>3. SignAndEncrypt(id, TaggedHeader(e, a.stream, t), V5BroadcastDecryptionKey(a), bm)
          \in Objects
    BY <2>1, <2>2, SignAndEncryptType
  <2>4. QED
    BY <1>2, <2>3 DEF CreateTaggedBroadcast, TypeOK
<1>3. ASSUME ReceiveTagless \/ ReceiveTagged PROVE TypeOK'
  <2>1. PICK a \in Addresses, h \in Headers :
            \E c \in Ciphertexts(h) :
              /\ \/ last' = [addr |-> a, header |-> h,
                             outcome |-> NewTaglessBroadcast([header |-> h, encrypted |-> c], a)]
                 \/ last' = [addr |-> a, header |-> h,
                             outcome |-> NewTaggedBroadcast([header |-> h, encrypted |-> c], a)]
              /\ UNCHANGED sent
    BY <1>3 DEF ReceiveTagless, ReceiveTagged, Receive
  <2>2. PICK c \in Ciphertexts(h) :
              /\ \/ last' = [addr |-> a, header |-> h,
                             outcome |-> NewTaglessBroadcast([header |-> h, encrypted |-> c], a)]
                 \/ last' = [addr |-> a, header |-> h,
                             outcome |-> NewTaggedBroadcast([header |-> h, encrypted |-> c], a)]
              /\ UNCHANGED sent
    BY <2>1
  <2>3. QED
    BY <2>2, OpenOutcome DEF TypeOK
<1>4. CASE UNCHANGED vars
  BY <1>4 DEF vars, TypeOK
<1>5. QED
  BY <1>1, <1>2, <1>3, <1>4 DEF Next

\* TypeOK holds in every reachable state, for every value of the constants.
THEOREM TypeCorrect == Spec => []TypeOK
BY TypeOKInit, TypeOKStep, PTL DEF Spec
-----------------------------------------------------------------------------
(***************************************************************************)
(* Authenticity for every value of the constants.  IInv adds to it and to  *)
(* TypeOK that every created broadcast carries its creator's signature     *)
(* over its own header and Bitmessage: without it, a signature read from   *)
(* the wire could be any record and acceptance would say nothing.          *)
(***************************************************************************)
LEMMA IInvInit == Init => IInv
BY DEF Init, IInv, TypeOK, SentSigned, Authenticity

LEMMA SentSignedStep == TypeOK /\ SentSigned /\ [Next]_vars => SentSigned'
<1> SUFFICES ASSUME TypeOK, SentSigned, [Next]_vars PROVE SentSigned'
  OBVIOUS
<1>1. ASSUME NEW id \in Identity \ {Attacker}, NEW e \in Expirations,
             NEW bm \in Bitmessages(id), CreateTaglessBroadcast(id, e, bm)
      PROVE  SentSigned'
  BY <1>1 DEF CreateTaglessBroadcast, SentSigned, SignAndEncrypt, Encrypt,
              EncodeForEncryption
<1>2. ASSUME NEW id \in Identity \ {Attacker}, NEW e \in Expirations,
             NEW t \in Tags, NEW bm \in Bitmessages(id),
             CreateTaggedBroadcast(id, e, bm, t)
      PROVE  SentSigned'
  BY <1>2 DEF CreateTaggedBroadcast, SentSigned, SignAndEncrypt, Encrypt,
              EncodeForEncryption
<1>3. ASSUME ReceiveTagless \/ ReceiveTagged PROVE SentSigned'
  BY <1>3 DEF ReceiveTagless, ReceiveTagged, Receive, SentSigned
<1>4. CASE UNCHANGED vars
  BY <1>4 DEF vars, SentSigned
<1>5. QED
  BY <1>1, <1>2, <1>3, <1>4 DEF Next

LEMMA AuthenticityStep ==
    TypeOK /\ SentSigned /\ Authenticity /\ [Next]_vars => Authenticity'
<1> SUFFICES ASSUME TypeOK, SentSigned, Authenticity, [Next]_vars
             PROVE  Authenticity'
  OBVIOUS
<1>1. CASE \/ \E id \in Identity \ {Attacker}, e \in Expirations :
               \E bm \in Bitmessages(id) : CreateTaglessBroadcast(id, e, bm)
         \/ \E id \in Identity \ {Attacker}, e \in Expirations, t \in Tags :
               \E bm \in Bitmessages(id) : CreateTaggedBroadcast(id, e, bm, t)
  \* last is unchanged and sent only grows: the old witness still serves.
  <2>1. last' = last /\ sent \subseteq sent'
    BY <1>1 DEF CreateTaglessBroadcast, CreateTaggedBroadcast
  <2>2. QED
    BY <2>1 DEF Authenticity
<1>2. CASE ReceiveTagless \/ ReceiveTagged
  <2>1. PICK a \in Addresses, h \in Headers :
            \E c \in Ciphertexts(h) :
              /\ \/ last' = [addr |-> a, header |-> h,
                             outcome |-> NewTaglessBroadcast([header |-> h, encrypted |-> c], a)]
                 \/ last' = [addr |-> a, header |-> h,
                             outcome |-> NewTaggedBroadcast([header |-> h, encrypted |-> c], a)]
              /\ UNCHANGED sent
    BY <1>2 DEF ReceiveTagless, ReceiveTagged, Receive
  <2>2. PICK c \in Ciphertexts(h) :
              /\ \/ last' = [addr |-> a, header |-> h,
                             outcome |-> NewTaglessBroadcast([header |-> h, encrypted |-> c], a)]
                 \/ last' = [addr |-> a, header |-> h,
                             outcome |-> NewTaggedBroadcast([header |-> h, encrypted |-> c], a)]
              /\ UNCHANGED sent
    BY <2>1
  <2> DEFINE o == [header |-> h, encrypted |-> c]
  <2>3. SUFFICES ASSUME last'.outcome.result = "ok", Owner(a) # Attacker
                 PROVE  \E s \in sent :
                           /\ s.from = Owner(a)
                           /\ s.obj.header = h
                           /\ s.obj.encrypted.plain.data = last'.outcome.data
    BY <2>2 DEF Authenticity
  <2>4. PICK key : /\ NewBroadcast(o, key, a).result = "ok"
                   /\ last'.outcome = NewBroadcast(o, key, a)
    <3>1. \/ NewTaglessBroadcast(o, a).result = "ok"
          \/ NewTaggedBroadcast(o, a).result = "ok"
      BY <2>2, <2>3
    <3>2. PICK k2 : /\ NewBroadcast(o, k2, a).result = "ok"
                    /\ \/ NewTaglessBroadcast(o, a) = NewBroadcast(o, k2, a)
                       \/ NewTaggedBroadcast(o, a) = NewBroadcast(o, k2, a)
      BY <3>1, OpenAccepted
    <3>3. CASE last'.outcome = NewTaglessBroadcast(o, a)
      <4>1. NewTaglessBroadcast(o, a) = NewBroadcast(o, V4BroadcastDecryptionKey(a), a)
        BY DEF NewTaglessBroadcast
      <4>2. QED
        BY <3>3, <4>1, <2>3
    <3>4. CASE last'.outcome = NewTaggedBroadcast(o, a)
      <4>1. NewTaggedBroadcast(o, a) = NewBroadcast(o, V5BroadcastDecryptionKey(a), a)
        BY <3>4, <2>3 DEF NewTaggedBroadcast, Reject
      <4>2. QED
        BY <3>4, <4>1, <2>3
    <3>5. QED
      BY <2>2, <3>3, <3>4
  <2>5. QED
    BY <2>2, <2>4, <2>3, AcceptedWasSent
<1>3. CASE UNCHANGED vars
  BY <1>3 DEF vars, Authenticity
<1>4. QED
  BY <1>1, <1>2, <1>3 DEF Next

(***************************************************************************)
(* Authenticity of broadcasts (verify's surreptitious-forwarding check     *)
(* together with the signature over header, tag and Bitmessage): in every  *)
(* reachable state, an object accepted with an honest address is, header   *)
(* and Bitmessage, one that address's owner created.                       *)
(***************************************************************************)
THEOREM AuthenticityTheorem == Spec => []Authenticity
<1>1. IInv /\ [Next]_vars => IInv'
  BY TypeOKStep, SentSignedStep, AuthenticityStep DEF IInv
<1>2. QED
  BY IInvInit, <1>1, PTL DEF Spec, IInv

-----------------------------------------------------------------------------
(***************************************************************************)
(* The sender can open its own broadcast.                                  *)
(***************************************************************************)
\* Every broadcast created is encrypted under the key newBroadcast derives
\* from its creator's address for the object's version, and carries its
\* creator's keys.
SentKeyed ==
    \A s \in sent :
        LET a == Address(s.from)
        IN  /\ s.obj.encrypted.key =
                  IF s.obj.header.version = TaglessBroadcastVersion
                      THEN V4BroadcastDecryptionKey(a)
                      ELSE V5BroadcastDecryptionKey(a)
            /\ s.obj.encrypted.plain.data.signKey = s.from
            /\ s.obj.encrypted.plain.data.encKey = s.from

LEMMA SentKeyedStep == SentKeyed /\ [Next]_vars => SentKeyed'
<1> SUFFICES ASSUME SentKeyed, [Next]_vars PROVE SentKeyed'
  OBVIOUS
<1>1. ASSUME NEW id \in Identity \ {Attacker}, NEW e \in Expirations,
             NEW bm \in Bitmessages(id), CreateTaglessBroadcast(id, e, bm)
      PROVE  SentKeyed'
  BY <1>1 DEF CreateTaglessBroadcast, SentKeyed, SignAndEncrypt, Encrypt,
              EncodeForEncryption, EncodeBroadcast, Bitmessages, TaglessHeader
<1>2. ASSUME NEW id \in Identity \ {Attacker}, NEW e \in Expirations,
             NEW t \in Tags, NEW bm \in Bitmessages(id),
             CreateTaggedBroadcast(id, e, bm, t)
      PROVE  SentKeyed'
  BY <1>2 DEF CreateTaggedBroadcast, SentKeyed, SignAndEncrypt, Encrypt,
              EncodeForEncryption, EncodeBroadcast, Bitmessages, TaggedHeader,
              TaglessBroadcastVersion, TaggedBroadcastVersion
<1>3. ASSUME ReceiveTagless \/ ReceiveTagged PROVE SentKeyed'
  BY <1>3 DEF ReceiveTagless, ReceiveTagged, Receive, SentKeyed
<1>4. CASE UNCHANGED vars
  BY <1>4 DEF vars, SentKeyed
<1>5. QED
  BY <1>1, <1>2, <1>3, <1>4 DEF Next

\* newBroadcast accepts a well-formed object of an honest sender, keyed and
\* signed as signAndEncrypt makes it, with the sender's address.
LEMMA OpenOwnBroadcast ==
    ASSUME TypeOK, SentSigned, SentKeyed, NEW s \in sent
    PROVE  LET a == Address(s.from)
           IN  NewBroadcast(s.obj, s.obj.encrypted.key, a) = Accept(s.obj.encrypted.plain.data)
<1> DEFINE a == Address(s.from)
           o == s.obj
           data == o.encrypted.plain.data
<1>1. s.from \in Identity /\ o \in Objects
  BY DEF TypeOK
<1>2. o.encrypted # Garbage /\ o.encrypted.plain.sig \notin {Overlong, Unparsable}
  BY <1>1, MarkerAssumption DEF Objects
<1>3. data.signKey = s.from /\ data.encKey = s.from /\ s.from # BadKey
  BY <1>1, MarkerAssumption DEF SentKeyed
<1>4. CreateAddress(a.version, a.stream, Ripe(data.signKey, data.encKey)) = a
  BY <1>3 DEF Address, CreateAddress
<1>5. SigVerify(o.encrypted.plain.sig, "sha256", EncodeForSigning(o.header, data),
                data.signKey)
  BY <1>3 DEF SentSigned, SigVerify
<1>6. QED
  BY <1>2, <1>3, <1>4, <1>5 DEF NewBroadcast, Verify

LEMMA SenderCanOpenOfKeyed ==
    ASSUME TypeOK, SentSigned, SentKeyed
    PROVE  SenderCanOpen
<1> SUFFICES ASSUME NEW s \in sent,
                    s.obj.header.tag \in {NoTag, Tag(Address(s.from))}
             PROVE  Open(s.obj, Address(s.from)) = Accept(s.obj.encrypted.plain.data)
  BY DEF SenderCanOpen
<1> DEFINE a == Address(s.from)
           o == s.obj
<1>1. o \in Objects
  BY DEF TypeOK
<1>2. NewBroadcast(o, o.encrypted.key, a) = Accept(o.encrypted.plain.data)
  BY OpenOwnBroadcast
<1>3. CASE o.header.version = TaglessBroadcastVersion
  BY <1>2, <1>3 DEF SentKeyed, Open, NewTaglessBroadcast
<1>4. CASE o.header.version # TaglessBroadcastVersion
  <2>1. o.header.tag \in Tags
    BY <1>1, <1>4 DEF Objects, Headers, TaglessHeader, TaggedHeader
  <2>2. o.header.tag = Tag(a)
    BY <2>1, MarkerAssumption
  <2>3. QED
    BY <1>2, <1>4, <2>2 DEF SentKeyed, Open, NewTaggedBroadcast
<1>5. QED
  BY <1>3, <1>4

(***************************************************************************)
(* For every value of the constants, NewTaglessBroadcast and               *)
(* NewTaggedBroadcast, called with its sender's address, accept every      *)
(* broadcast an honest identity created whose tag is that address's tag   *)
(* (or that has none), and return its Bitmessage: the decryption key,      *)
(* the address check and the signature check of newBroadcast all match    *)
(* what signAndEncrypt produced.                                           *)
(***************************************************************************)
THEOREM SenderCanOpenTheorem == Spec => []SenderCanOpen
<1>1. Init => TypeOK /\ SentSigned /\ SentKeyed
  BY DEF Init, TypeOK, SentSigned, SentKeyed
<1>2. TypeOK /\ SentSigned /\ SentKeyed /\ [Next]_vars
        => (TypeOK /\ SentSigned /\ SentKeyed)'
  BY TypeOKStep, SentSignedStep, SentKeyedStep
<1>3. TypeOK /\ SentSigned /\ SentKeyed => SenderCanOpen
  BY SenderCanOpenOfKeyed
<1>4. QED
  BY <1>1, <1>2, <1>3, PTL DEF Spec

=============================================================================
