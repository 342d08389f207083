------------------------------ MODULE LaunchPlan ------------------------------
(***************************************************************************)
(* What a launch promises about the transactions it submits: the launch,   *)
(* then one buy per wallet in order, then the dev sell, then sells of some *)
(* of the wallets that bought, in order, and nothing twice.                *)
(***************************************************************************)
EXTENDS Naturals, Sequences

CONSTANT NumWallets

Dev == 0
Order(kind, wallet) == [kind |-> kind, wallet |-> wallet]
Orders ==
    {Order("launch", Dev), Order("sell", Dev)}
      \cup {Order(kind, w) : kind \in {"buy", "sell"}, w \in 1 .. NumWallets}

VARIABLE submitted

Init == submitted = <<>>

Last == submitted[Len(submitted)]

\* May o come right after what has been submitted?
Follows(o) ==
    \/ submitted = <<>> /\ o = Order("launch", Dev)
    \/ /\ submitted # <<>>
       /\ \/ o.kind = "buy" /\ \/ Last.kind = "launch" /\ o.wallet = 1
                               \/ Last.kind = "buy" /\ o.wallet = Last.wallet + 1
          \/ o = Order("sell", Dev) /\ Len(submitted) = NumWallets + 1
          \/ o.kind = "sell" /\ Last.kind = "sell" /\ o.wallet > Last.wallet

Next == \E o \in Orders : Follows(o) /\ submitted' = Append(submitted, o)

Spec == Init /\ [][Next]_submitted
=============================================================================
