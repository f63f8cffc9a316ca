--------------------------- MODULE ReservationDesk ---------------------------
(***************************************************************************)
(* What the two screens over the reservation book offer, as a function of   *)
(* the book's state: the guest's booking form (pages/customer/Reserve.tsx), *)
(* with the availability endpoint behind it, and the staff's list of        *)
(* bookings (pages/staff/AdminReservations.tsx), with the list endpoint     *)
(* behind it.  The screens keep no state of the house's: each operator says *)
(* what is on offer to someone whose page has just loaded.                  *)
(***************************************************************************)
EXTENDS Reservations

CONSTANTS
    PartySizes,   \* the sizes the form offers
    Offsets,      \* how far from the wanted moment alternatives are looked for
    Lead,         \* how long before a sitting the form stops offering it
    DayLength,    \* Times fall into days of this length
    PageLimit     \* how many bookings the list loads

ASSUME DeskAssumption ==
    /\ Offsets \subseteq Int /\ Lead \in Nat /\ PageLimit \in Nat
    /\ DayLength \in Nat \ {0}

-----------------------------------------------------------------------------
(* The guest's form *)

Asked(size, at) == [size |-> size, at |-> at, lasts |-> DefaultDuration]
Day(at)         == at \div DayLength

\* The form's sittings: on the day itself, those that are not gone or about to begin.
AvailableTimes(now) == { at \in Times : Day(now) = Day(at) => at > now + Lead }

\* checkAvailability, as the endpoint answers it.
Available(size, at) == Fits(Asked(size, at), {})

\* (mutant) alternatives are offered without counting seats
SuggestUncounted(size, around, now) ==
    { slot \in { around + offset : offset \in Offsets } : slot >= now }

\* suggestSlots
Suggest(size, around, now) ==
    { slot \in { around + offset : offset \in Offsets } : slot >= now /\ Available(size, slot) }

\* The first sitting of the day is selected when the form opens, gone or not.
Preselected(now) ==
    { at \in Times : Day(at) = Day(now) /\ \A other \in Times : Day(other) = Day(at) => at <= other }

\* slotFull and the button, the guest's name and number given and the answer there.
CanBook(size, at) == Available(size, at)

\* The moments the form offers, one after the other: a sitting selected that has room
\* or, selected in vain, the alternatives that are shown instead.
Offered(size, now) ==
    UNION { IF CanBook(size, at) THEN {at} ELSE Suggest(size, at, now) :
              at \in AvailableTimes(now) \union Preselected(now) }

\* What POST /reservations accepts: the schema, then the check under the lock.
Accepted(size, at, now) ==
    /\ at > now
    /\ Fits([size |-> size, at |-> at, lasts |-> DefaultDuration], {})

-----------------------------------------------------------------------------
(* The staff's list *)

NEXT_ACTIONS ==
    [ status \in Statuses |->
        CASE status = "PENDING"   -> {"CONFIRMED", "CANCELLED"}
          [] status = "CONFIRMED" -> {"SEATED", "NO_SHOW", "CANCELLED"}
          [] status = "SEATED"    -> {"COMPLETED"}
          [] OTHER                -> {} ]

\* listReservations for the screen's own filter, the bookings of the day: soonest first,
\* one page of them.  Midnight belongs to both days.
Matching(now) ==
    { b \in Bookings : /\ booking[b].status # "NONE"
                       /\ DayLength * Day(now) <= booking[b].claim.at
                       /\ booking[b].claim.at <= DayLength * (Day(now) + 1) }

\* Rows of the same moment come in any order: each of them may be the one cut off.
Listed(now) ==
    { b \in Matching(now) :
        Cardinality({ c \in Matching(now) \ {b} : booking[c].claim.at <= booking[b].claim.at })
            < PageLimit }

\* A row's buttons: a party without a table cannot be seated.
ActionsOf(b) ==
    { next \in NEXT_ACTIONS[booking[b].status] : next = "SEATED" => booking[b].table # NoTable }

\* The tables offered to a confirmed party that has none: of those listTables returns,
\* which are in use, the ones that are large enough.
TablesFor(b) ==
    { t \in Tables : /\ booking[b].status = "CONFIRMED" /\ booking[b].table = NoTable
                     /\ table[t].isActive
                     /\ Seats[t] >= booking[b].claim.size }

\* What PATCH /reservations/:id accepts of an assignment (updateReservation).
AssignmentStands(b, t) == table[t].isActive /\ Seats[t] >= booking[b].claim.size

-----------------------------------------------------------------------------
(* Properties *)

\* What the form offers a guest is booked, whatever the book holds, unless its moment
\* is gone; and the form turns away only those the house would refuse (Reserve.tsx,
\* suggestSlots, createReservation).
FormStands ==
    \A size \in PartySizes, now \in Times :
        LET offered == Offered(size, now)
        IN  /\ \A at \in offered : at <= now \/ Accepted(size, at, now)
            /\ \A at \in Times \ offered : at <= now + Lead \/ ~Accepted(size, at, now)

\* What the list offers is accepted; no booking is left without a way out; and the active
\* bookings of the day are all in the list, until it overflows (AdminReservations.tsx,
\* updateReservationStatus, listReservations).
ListStands ==
    /\ \A b \in Bookings : booking[b].status # "NONE" =>
          /\ \A next \in ActionsOf(b) : <<booking[b].status, next>> \in ALLOWED_TRANSITIONS
          /\ \A t \in TablesFor(b) : AssignmentStands(b, t)
          /\ Active(b) => ActionsOf(b) # {}
          /\ (booking[b].status = "CONFIRMED" /\ \E t \in Tables : AssignmentStands(b, t))
                => "SEATED" \in ActionsOf(b) \/ TablesFor(b) # {}
    /\ \A now \in Times, b \in Bookings :
          Active(b) /\ Day(booking[b].claim.at) = Day(now) =>
              b \in Listed(now) \/ Cardinality(Matching(now)) > PageLimit

\* Both screens offer what the house will do (ReservationDesk).
OffersStand == FormStands /\ ListStands
=============================================================================
