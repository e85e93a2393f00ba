---------------------------- MODULE OneShotPool ----------------------------
(***************************************************************************)
(* What the precompute buffers promise the encryption code: a pool of      *)
(* random values in which each value is supplied once and leaves once,     *)
(* either handed to exactly one caller or thrown away.  A value that has   *)
(* left never comes back: two ciphertexts sharing a nonce would reveal     *)
(* both plaintexts.                                                        *)
(***************************************************************************)
VARIABLES stock, used, gone

poolVars == << stock, used, gone >>

PoolInit == stock = {} /\ used = {} /\ gone = {}

\* New values arrive, none of them seen before.
Supply ==
    /\ stock \subseteq stock'
    /\ (stock' \ stock) \cap (used \cup gone) = {}
    /\ UNCHANGED << used, gone >>

\* One value goes to one caller.
Take ==
    /\ \E v \in stock :
          /\ v \notin used
          /\ stock' = stock \ {v}
          /\ used' = used \cup {v}
    /\ UNCHANGED gone

Discard ==
    /\ stock' \subseteq stock
    /\ gone' = gone \cup (stock \ stock')
    /\ UNCHANGED used

PoolNext == Supply \/ Take \/ Discard

PoolSpec == PoolInit /\ [][PoolNext]_poolVars
=============================================================================
