------------------------------- MODULE MCSweep ------------------------------
(* The instances of the memory sweep that TLC checks. *)
EXTENDS Sweep

Range(l, u, s) == [lower |-> l, upper |-> u, step |-> s]

(* Every small range, the invalid and the empty ones included. *)
MCEveryRange == [lower : 0..6, upper : 0..13, step : 0..4]
MCNeeds      == 0..14

(* An odd range on a grid of two, wide enough for two bisections, and one   *)
(* with a single aligned limit.                                             *)
MCRanges == {Range(3, 11, 2), Range(5, 9, 4)}
MCLow    == {7}
MCPair   == {Range(2, 4, 2)}
=============================================================================
