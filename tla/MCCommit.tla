------------------------------- MODULE MCCommit -------------------------------
(* Commit for TLC: every job has a token of its own, as corr.New mints them.*)
EXTENDS Commit

OwnToken == [j \in Jobs |-> j]
=============================================================================
