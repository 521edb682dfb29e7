---------------------------- MODULE MCAlgorithms ----------------------------
(***************************************************************************)
(* Bounds for the algorithms.                                              *)
(***************************************************************************)
EXTENDS Algorithms, TLC

AllPrices == 0..41
AllSizes == 0..130
ReadBounds == "rates" :> 4 @@ "facts" :> 3 @@ "logs" :> 2
=============================================================================
