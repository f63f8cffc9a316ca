---------------------------- MODULE FloorPromise -----------------------------
(***************************************************************************)
(* What services/order.service.ts promises of orders and tables: every     *)
(* placing and every change of status happens at one instant, follows the  *)
(* workflow, and moves the table in that same instant ("everything a       *)
(* transition implies ... happens here, atomically").  No requests, no     *)
(* reads, no money: OrderFloor with one handler implements this.           *)
(***************************************************************************)
EXTENDS OrderStatus

CONSTANTS Orders, Tables, NoTable

VARIABLES
    status,    \* of each order
    seat,      \* the table of each order
    occupied   \* the tables that read OCCUPIED

vars == <<status, seat, occupied>>

Init ==
    /\ status = [o \in Orders |-> "UNPLACED"]
    /\ seat = [o \in Orders |-> NoTable]
    /\ occupied = {}

\* placeOrder: an order starts held or in the kitchen's queue, and takes its table.
Place(o, t) ==
    /\ status[o] = "UNPLACED"
    /\ \E s \in HELD_STATUSES \union {"PENDING"} : status' = [status EXCEPT ![o] = s]
    /\ seat' = [seat EXCEPT ![o] = t]
    /\ occupied' = occupied \union ({t} \ {NoTable})

OthersOpen(o) ==
    \E p \in Orders \ {o} : /\ seat[p] = seat[o]
                            /\ status[p] \notin TerminalStatuses \union {"UNPLACED"}

\* A change of status; the last order to close frees the table.
Move(o, next) ==
    /\ CanTransition(status[o], next)
    /\ status' = [status EXCEPT ![o] = next]
    /\ occupied' = IF next \in TerminalStatuses /\ ~OthersOpen(o)
                   THEN occupied \ {seat[o]} ELSE occupied
    /\ UNCHANGED seat

Next == \E o \in Orders :
           \/ \E t \in Tables \union {NoTable} : Place(o, t)
           \/ \E next \in OrderStatuses : Move(o, next)

Spec == Init /\ [][Next]_vars
=============================================================================
