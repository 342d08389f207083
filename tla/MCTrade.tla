------------------------------- MODULE MCTrade -------------------------------
(***************************************************************************)
(* Trade with the proportions of pump.fun's global account (1073 : 30 : 793)*)
(* and amounts small enough for TLC: a second global account with other    *)
(* reserves and mayhem mode, and two fee tiers that trades and burns cross.*)
(***************************************************************************)
EXTENDS Trade

MCGlobals ==
    {[vT |-> 10730, vS |-> 3000, rT |-> 7931, mayhem |-> FALSE,
      protocol |-> 95, creator |-> 5],
     [vT |-> 9000, vS |-> 4100, rT |-> 7000, mayhem |-> TRUE,
      protocol |-> 95, creator |-> 5]}

MCTiers ==
    << [threshold |-> 0, protocol |-> 95, creator |-> 30],
       [threshold |-> 6000, protocol |-> 80, creator |-> 95] >>

==============================================================================
