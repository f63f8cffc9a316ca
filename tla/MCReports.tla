------------------------------ MODULE MCReports ------------------------------
(***************************************************************************)
(* One order under everything the floor can do to it, read on clocks of    *)
(* two slots a day in a zone one slot ahead of UTC that loses it for good  *)
(* at the fifth slot.                                                      *)
(***************************************************************************)
EXTENDS Reports, Invoices, MCOrderFloor

MCOffset == [ t \in -SlotsPerDay .. Horizon |-> IF t < 4 THEN 1 ELSE 0 ]
=============================================================================
