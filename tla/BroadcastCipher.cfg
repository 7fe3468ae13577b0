CONSTANTS
    Identity = {alice, bob, eve}
    Attacker = eve
    AddressVersion = 4
    Streams = {1}
    StreamOf <- MCStreamOf
    Expirations = {1}
    Payloads = {m1, m2}
    MaxSent = 2
    NoTag = NoTag
    NoDest = NoDest
    BadKey = BadKey
    Garbage = Garbage
    Overlong = Overlong
    Unparsable = Unparsable
    NoReception = NoReception
SPECIFICATION Spec
INVARIANTS TypeOK Authenticity SenderCanOpen
