---------------------------- MODULE MCPumpCalls ----------------------------
(* A small instance of PumpCalls: a plain coin and one with both modes,   *)
(* and lists of shareholders of which all but two are turned down.        *)
EXTENDS PumpCalls

MCModes == { [mayhem |-> FALSE, cashback |-> FALSE], [mayhem |-> TRUE, cashback |-> TRUE] }

Holder(who, platform, bps) == [who |-> who, platform |-> platform, bps |-> bps]
MCShareLists ==
  { << Holder("wallet-1", "none", 10000) >>,
    << Holder("octocat", "GitHub", 4000), Holder("dev", "none", 6000) >>,
    << Holder("someone", "X", 10000) >>,                                    \* not supported
    << Holder("octocat", "GitHub", 5000), Holder("octocat", "GitHub", 5000) >>, \* twice the same
    << Holder("dev", "none", 10000), Holder("wallet-1", "none", 0) >>,
    << Holder("dev", "none", 9999) >>,
    [i \in 1..11 |-> Holder(<<"a","b","c","d","e","f","g","h","i","j","k">>[i], "none",
                            IF i = 11 THEN 1000 ELSE 900)],
    << >> }
=============================================================================
