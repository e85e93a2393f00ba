------------------------ MODULE MCContestEncryption ------------------------
(* Two candidates, one of them a write-in, and an id from elsewhere.       *)
EXTENDS ContestEncryption

CONSTANTS a, b, x
MCCandidates == << a, b >>
MCWriteIns == {b}
MCStrangers == {x}
=============================================================================
