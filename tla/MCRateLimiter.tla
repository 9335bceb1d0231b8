--------------------------- MODULE MCRateLimiter ---------------------------
(* RateLimiter on scaled-down lengths: a minute is 2 ticks, an hour 4, a block 2. *)
EXTENDS RateLimiter, TLC

MCConfig ==
  { [coarse |-> 2, chat |-> 1, upload |-> 1, ident |-> 1, distinct |-> 2],
    [coarse |-> 2, chat |-> 2, upload |-> 0, ident |-> 2, distinct |-> 2],
    [coarse |-> 3, chat |-> 0, upload |-> 2, ident |-> 0, distinct |-> 1] }

DniSymmetry == Permutations(Dni)

=============================================================================
