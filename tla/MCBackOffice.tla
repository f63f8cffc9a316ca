---------------------------- MODULE MCBackOffice -----------------------------
(***************************************************************************)
(* Instances of BackOffice, Access and MenuPricing for TLC.  A desk's row, *)
(* an account's role and a dish's price share no state: a behaviour is     *)
(* about one of the three, and the others stand still.                     *)
(*                                                                         *)
(* Of the desks, all, with boxes that hold one text or nothing.  Of the    *)
(* roles, every permission alone, every permission missing, the page and   *)
(* the button of every button, and the four that are seeded, each of them  *)
(* the starting point of changes by an administrator.  Of the prices, a    *)
(* discount of 400 fits 501 and exceeds 300; 400 hundredths of a percent   *)
(* of 501 must be rounded; 10000 is a dish given away, or more than any    *)
(* price here.                                                             *)
(***************************************************************************)
EXTENDS BackOffice, Access, MenuPricing, TLC

MCSets ==
    { {p} : p \in Permissions } \cup { Permissions \ {p} : p \in Permissions }
      \cup UNION { { {Guard[page], a[2]} : a \in Asks[page] } : page \in Pages }

MCStarters == SeededRoles \cup { [name |-> "CUSTOM", holds |-> holds] : holds \in MCSets }

MCEditions == {{}, {"order:updateStatus"}, KitchenSeed, StaffSeed, AdminSeed, Permissions}

VARIABLE about   \* "row", "role" or "price"

\* Where a component stands while a behaviour is about another one.
RowStill   == desk = "role" /\ \A f \in DOMAIN row : row[f].val = House
RoleStill  == role = [name |-> "CUSTOM", holds |-> {Guard["kitchen"]}]
PriceStill == food.offer = [price |-> 501, active |-> FALSE, type |-> "NONE", value |-> Null]

MCInit ==
    /\ about \in {"row", "role", "price"}
    /\ Init /\ (about = "row" \/ RowStill)
    /\ AccessInit /\ (about = "role" \/ RoleStill)
    /\ MenuInit /\ (about = "price" \/ PriceStill)

MCNext ==
    /\ UNCHANGED about
    /\ \/ about = "row"   /\ Next       /\ UNCHANGED <<accessVars, menuVars>>
       \/ about = "role"  /\ AccessNext /\ UNCHANGED <<vars, menuVars>>
       \/ about = "price" /\ MenuNext   /\ UNCHANGED <<vars, accessVars>>

MCSpec == MCInit /\ [][MCNext]_<<vars, accessVars, menuVars, about>>

EditorSymmetry == Permutations(Editors)
=============================================================================
