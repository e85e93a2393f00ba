------------------------- MODULE MCBallotEncryption -------------------------
(* Threads are interchangeable.  Whether a ballot that was not verified is *)
(* returned whole or compact makes no difference to what went before, and  *)
(* the compact one may be expanded, so encrypt is called with              *)
(* verification only.                                                      *)
EXTENDS BallotEncryption, TLC

ThreadSymmetry == Permutations(Threads)

MCModes == [op : {"compactEncrypt"}, verify : BOOLEAN]
              \cup {[op |-> "encrypt", verify |-> TRUE]}
=============================================================================
