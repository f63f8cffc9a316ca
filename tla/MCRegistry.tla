----------------------------- MODULE MCRegistry ------------------------------
(***************************************************************************)
(* Two requests in flight over two categories and one dish, three accounts *)
(* in two roles, one table and one order.                                  *)
(***************************************************************************)
EXTENDS Registry, TLC

Symmetry == Permutations(Handlers) \union Permutations(Categories)
              \union Permutations(Users) \union Permutations(Keys)
=============================================================================
