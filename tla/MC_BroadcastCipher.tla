------------------------ MODULE MC_BroadcastCipher ------------------------
(* Small instance of BroadcastCipher: two honest identities and the        *)
(* adversary, one address version and stream, one expiration time.        *)
EXTENDS BroadcastCipher

MCStreamOf == [id \in Identity |-> 1]
=============================================================================
