---------------------------- MODULE MCPublishing ----------------------------
(* Publishing for model checking: the publishes that await an answer are    *)
(* interchangeable, and so are the connection ids.                          *)
EXTENDS Publishing, TLC

Symmetry == Permutations(AckRequired) \union Permutations(Ids)

=============================================================================
