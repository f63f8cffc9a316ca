---------------------------- MODULE MCLiveUpdates ----------------------------
(* A diner's phone and a screen of the staff, each on its own: screens share
   nothing but the order and the process that tells them, so the bounds are
   spent on the changes and the faults one screen meets.                     *)
EXTENDS LiveUpdates, TLC

CONSTANTS d1, s1

OneScreen == \A s, t \in Screens : page[s] # "closed" /\ page[t] # "closed" => s = t
=============================================================================
