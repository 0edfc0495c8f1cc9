------------------------------ MODULE MCMpool -------------------------------
(***************************************************************************)
(* Values for model checking Mpool: two small classes and the large list,  *)
(* clients that are interchangeable, and states that are told apart by the *)
(* words somebody will read.                                               *)
(***************************************************************************)
EXTENDS Mpool, TLC

MCLimits == <<64, 128>>
Symmetric == Permutations(Owner)

(* The rest of a free block, and what a client has not written of its own, *)
(* keeps the leftovers of earlier blocks: the allocator writes a tag or a  *)
(* link there before it reads one, so these words do not distinguish       *)
(* states.                                                                 *)
InUse ==
    LET starts == BlockStarts
    IN  {Base, End - WORD}
        \cup {p - WORD : p \in starts}
        \cup {p + blk_size(pool, p) : p \in starts}
        \cup UNION {{p, p + WORD} : p \in FreeStarts}
        \cup UNION {held[o].ptr .. held[o].ptr + held[o].filled - WORD :
                        o \in {x \in Owner : held[x] # Nothing}}

View ==
    LET used == InUse
    IN  <<[w \in Words |-> IF w \in used THEN pool.mem[w] ELSE 0],
          pool.freed, pool.alloced, held, resizes, halted>>
=============================================================================
