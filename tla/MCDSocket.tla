----------------------------- MODULE MCDSocket ------------------------------
(***************************************************************************)
(* Model checking DSocket: CPUs are interchangeable, and states are told   *)
(* apart by the bytes that will be read: not by those behind the end of a  *)
(* buffer, nor by those of a buffer of which nothing is claimed any more.  *)
(* Bytes never decide what the code does.                                  *)
(***************************************************************************)
EXTENDS DSocket, TLC

Symmetric == Permutations(CPU)

Pending(p, e) ==
    IF \E c \in CPU : pc[c] = "sent" /\ loc[c].p = p /\ loc[c].e = e THEN BufSize
    ELSE pair[p].pos[e]

Visible(p, e) ==
    IF <<p, e>> \in raced THEN <<>>
    ELSE <<got[p][e], [i \in 0 .. Pending(p, e) - 1 |-> pair[p].bytes[e][i]]>>

View ==
    <<sock, fds, pc, loc, wild, crossed, raced,
      [p \in DOMAIN pair |-> <<[pair[p] EXCEPT !.bytes = 0], [e \in Ends |-> Visible(p, e)]>>]>>
=============================================================================
