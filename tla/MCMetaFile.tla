----------------------------- MODULE MCMetaFile -----------------------------
(* Ids for TLC: a digit, a number of two digits, and two ids that differ   *)
(* after a letter only.                                                    *)
EXTENDS MetaFile

MCTokens == {<<0, 0, 7>>, <<0, 1, 0>>, <<0, 1, 10>>, <<0, 1, 11>>}

=============================================================================
