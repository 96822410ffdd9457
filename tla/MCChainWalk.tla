----------------------------- MODULE MCChainWalk -----------------------------
(* ChainWalk for TLC: appends at least a millisecond apart.            *)
EXTENDS ChainWalk

Ticking == {1, 2}
=============================================================================
