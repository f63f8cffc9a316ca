--------------------------- MODULE MCReservations ---------------------------
(* A house of one table and two seats, two bookings, two requests at a time. *)
(* Moments are half hours: a booking lasts one, or three when staff          *)
(* stretch it, so that the one at 0 reaches into the one at 2 only then.     *)
EXTENDS ReservationDesk, TLC

CONSTANTS b1, b2, h1, h2, t1

MCSeats     == t1 :> 2
MCSizes     == {1, 2}
MCTimes     == {0, 2}
MCDurations == {3}
MCOffsets   == {-2, 1, 2}

\* Grow, stretch, assign; and a longer sitting earlier.
MCPatches ==
    LET nothing == [size |-> Keep, at |-> Keep, lasts |-> Keep, table |-> Keep]
    IN  { [nothing EXCEPT !.size = 2], [nothing EXCEPT !.lasts = 3],
          [nothing EXCEPT !.table = t1], [nothing EXCEPT !.at = 0, !.lasts = 3] }

Symmetry == Permutations({b1, b2}) \union Permutations({h1, h2})

\* Once the lock has been bypassed, NeverOversold says no more.
Guarded == breaches = {}

\* Nothing tells the closed statuses apart or reads the status of a table.
Merged(status) == IF status \in ClosedStatuses THEN "CLOSED" ELSE status
View ==
    << [b \in Bookings |-> [booking[b] EXCEPT !.status = Merged(@)]],
       [t \in Tables |-> table[t].isActive],
       [h \in Handlers |-> IF Doing(h, "status") THEN [request[h] EXCEPT !.next = Merged(@)]
                                                  ELSE request[h]],
       breaches >>
=============================================================================
