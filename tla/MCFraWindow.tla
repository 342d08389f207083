---------------------------- MODULE MCFraWindow ----------------------------
(***************************************************************************)
(* Leader files for TLC: an epoch of one word, one that ends in its second *)
(* and one in its third, at the bottom, in the middle and at the very top  *)
(* of the slots, and files that from_wire refuses.                         *)
(***************************************************************************)
EXTENDS FraWindow

\* Leaders hold four slots in a row; every eleventh has no known country.
Code(i) == IF i % 11 = 7 THEN UNKNOWN_REGION_CODE ELSE (i \div 4) % 2

Epoch(start, n, regions) ==
    [epoch_start_slot |-> start, epoch_end_slot |-> start + n - 1, slots_in_epoch |-> n,
     regions |-> regions, slots |-> [i \in 1 .. n |-> Code(i)]]

Sample == Epoch(20, 80, <<"DE", "NL">>)

MCFiles == {
    Epoch(0, 66, <<"DE", "NL">>),
    Epoch(50, 130, <<"DE", "NL">>),
    Epoch(TwoTo64 - 70, 70, <<"DE", "NL">>),
    Epoch(20, 80, <<"DE", "DE">>),
    [Sample EXCEPT !.epoch_start_slot = 40, !.epoch_end_slot = 10, !.slots_in_epoch = 1,
                   !.slots = <<1>>],
    [Sample EXCEPT !.slots_in_epoch = 79],
    [Sample EXCEPT !.slots = Append(@, 0)],
    [Sample EXCEPT !.regions = <<"DE">>]}
=============================================================================
