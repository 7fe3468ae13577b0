CONSTANTS
    InvVects = {v1, v2}
    MaxInvPerMsg = 2
    MaxCap = 4
SPECIFICATION Spec
INVARIANTS TypeOK RoundTrip TruncatedDecodeFails
