------------------------------- MODULE MCMman -------------------------------
(***************************************************************************)
(* Values for model checking Mman: three free lists besides large_blk, and *)
(* callers that are interchangeable.                                       *)
(***************************************************************************)
EXTENDS Mman

MCLimits == <<4, 8, 20>>
Symmetric == Permutations(Client)
=============================================================================
