----------------------------- MODULE MCSessions ------------------------------
(* One tab with two calls at a time.                                         *)
EXTENDS Sessions, TLC

CONSTANTS c1, c2, t1

OneTab == c1 :> t1 @@ c2 :> t1
=============================================================================
