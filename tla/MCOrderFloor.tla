---------------------------- MODULE MCOrderFloor -----------------------------
(***************************************************************************)
(* Instances of OrderFloor for TLC.  Amounts are the shipped defaults in   *)
(* minor units: a threshold of 3,000 and 5% tax.  A cart of 2,000 stays    *)
(* under the threshold and two of them reach it; one of 4,000 exceeds it   *)
(* with tax by 1,200 and owes an advance of 30%.                           *)
(***************************************************************************)
EXTENDS OrderScreens, TLC

MCSmall  == 200000
MCLarge  == 400000
MCSmallCarts == {MCSmall}
MCBothCarts  == {MCSmall, MCLarge}
MCLargeCarts == {MCLarge}
MCNoExtras   == {}
MCExtras     == {100000, 200000, 300000, 400000}
MCSmallExtra == {100000}
MCMaxLines   == 500000

MCBothGates  == [threshold |-> 300000, approvalRequired |-> TRUE,  advanceRequired |-> TRUE]
MCApproval   == [threshold |-> 300000, approvalRequired |-> TRUE,  advanceRequired |-> FALSE]

HandlerSymmetry == Permutations(Handlers)
FloorSymmetry == Permutations(Orders) \union Permutations(Tables)
=============================================================================
