---------------------------- MODULE MCFrameAlloc ----------------------------
(* Two usable regions with a hole between them; the bitmap covers the      *)
(* first twelve of 48 frames (three bytes of four bits), so a free run may *)
(* cross a byte boundary.                                                  *)
EXTENDS FrameAlloc, TLC

MCRegions == <<[base |-> 1, length |-> 5], [base |-> 7, length |-> 41]>>
Symmetric == Permutations(CPU)
=============================================================================
