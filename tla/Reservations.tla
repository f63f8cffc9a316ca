---------------------------- MODULE Reservations -----------------------------
(***************************************************************************)
(* The reservation book (services/reservation.service.ts): bookings that   *)
(* claim seats for a stretch of the evening, the house's tables, and the   *)
(* requests in flight.                                                     *)
(*                                                                         *)
(* createReservation and updateReservation decide about seats while they   *)
(* hold one advisory lock, from the check to the commit.  Everything else  *)
(* takes no lock: a status change and an edit read the booking first and   *)
(* write it by id later, an edit that touches neither size nor time is not *)
(* checked, and the table's row is written after the booking's, in a       *)
(* transaction of its own.                                                 *)
(***************************************************************************)
EXTENDS Integers, FiniteSets

CONSTANTS
    Bookings, Tables, Handlers,
    Seats,            \* Table.capacity
    Sizes,            \* party sizes a booking may have
    Times,            \* moments a booking may start at
    Durations,        \* lengths staff may set
    Patches,          \* the edits staff may send
    DefaultDuration,  \* the length of a new booking
    MaxDuration,      \* the longest booking the validation accepts
    MaxCover,         \* bound: no party and no table is larger
    NoTable,          \* a tableId that is null
    Keep              \* a column an edit does not carry

ASSUME BookingsAssumption == IsFiniteSet(Bookings) /\ IsFiniteSet(Tables) /\ NoTable \notin Tables
ASSUME CoversAssumption ==
    /\ MaxCover \in Nat
    /\ Sizes \subseteq 1..MaxCover /\ Sizes # {}
    /\ Seats \in [Tables -> 1..MaxCover]
ASSUME TimesAssumption ==
    /\ Times \subseteq Nat /\ Times # {}
    /\ MaxDuration \in Nat
    /\ Durations \subseteq 1..MaxDuration
    /\ DefaultDuration \in 1..MaxDuration
ASSUME KeepAssumption == Keep \notin Sizes \union Times \union Durations \union Tables

VARIABLES
    booking,   \* the Reservation rows
    table,     \* the Table rows
    request,   \* what each handler is doing
    breaches   \* history: what has been done that the capacity lock does not guard

vars == <<booking, table, request, breaches>>

ACTIVE_STATUSES == {"PENDING", "CONFIRMED", "SEATED"}
ClosedStatuses  == {"COMPLETED", "CANCELLED", "NO_SHOW"}
Statuses        == ACTIVE_STATUSES \union ClosedStatuses

ALLOWED_TRANSITIONS ==
    { <<"PENDING", "CONFIRMED">>, <<"PENDING", "CANCELLED">>,
      <<"CONFIRMED", "SEATED">>, <<"CONFIRMED", "CANCELLED">>, <<"CONFIRMED", "NO_SHOW">>,
      <<"SEATED", "COMPLETED">>, <<"SEATED", "CANCELLED">> }

\* What a booking claims: so many covers, from a moment on, for so long.
Claim    == [size: Sizes, at: Times, lasts: 1..MaxDuration]
Row      == [status: Statuses \union {"NONE"}, claim: Claim, table: Tables \union {NoTable}]
TableRow == [status: {"AVAILABLE", "OCCUPIED", "INACTIVE"}, isActive: BOOLEAN]
Patch    == [size: Sizes \union {Keep}, at: Times \union {Keep},
             lasts: Durations \union {Keep}, table: Tables \union {Keep}]

ASSUME PatchesAssumption == Patches \subseteq Patch

Idle      == [op |-> "none"]
CreateReq == [op: {"create"}, b: Bookings, claim: Claim]
EditReq   == [op: {"edit"}, b: Bookings, patch: Patch, seen: Claim]
WriteReq  == [op: {"write"}, b: Bookings, patch: Patch, checked: Claim]
StatusReq == [op: {"status"}, b: Bookings, next: Statuses, byGuest: BOOLEAN]
FloorReq  == [op: {"floor"}, t: Tables, to: {"AVAILABLE", "OCCUPIED"}]
Request   == {Idle} \union CreateReq \union EditReq \union WriteReq \union StatusReq
               \union FloorReq

Doing(h, op)     == request[h].op = op
Start(h, req)    == Doing(h, "none") /\ request' = [request EXCEPT ![h] = req]
Continue(h, req) == request' = [request EXCEPT ![h] = req]
Finish(h)        == request' = [request EXCEPT ![h] = Idle]
Breach(kinds)    == breaches' = breaches \union kinds

-----------------------------------------------------------------------------
(* Seats are counted cover by cover: a pair of a booking (or a table) and a *)
(* number up to its size.                                                   *)

Active(b)  == booking[b].status \in ACTIVE_STATUSES
Ends(c)    == c.at + c.lasts
Clash(c, d) == c.at < Ends(d) /\ Ends(c) > d.at

CoversOf(bs) == { p \in bs \X (1..MaxCover) : p[2] <= booking[p[1]].claim.size }

\* The rows the query fetches before it filters: the widest possible sitting.
Nearby(c, d) == d.at - MaxDuration <= c.at /\ c.at <= Ends(d)

\* seatsTakenDuring: what the others have taken while claim d lasts.
SeatsTakenDuring(d, excluded) ==
    Cardinality(CoversOf({ b \in Bookings \ excluded :
        Active(b) /\ Nearby(booking[b].claim, d) /\ Clash(booking[b].claim, d) }))

TotalCapacity ==
    Cardinality({ p \in Tables \X (1..MaxCover) : table[p[1]].isActive /\ p[2] <= Seats[p[1]] })

\* checkAvailability, and the test of updateReservation
Fits(claim, excluded) == TotalCapacity - SeatsTakenDuring(claim, excluded) >= claim.size

\* An edit that carries a size or a time takes the lock.
TakesLock(patch) == patch.size # Keep \/ patch.at # Keep
Holds(h) == Doing(h, "create") \/ (Doing(h, "write") /\ TakesLock(request[h].patch))
LockFree == \A h \in Handlers : ~Holds(h)

Init ==
    /\ booking = [b \in Bookings |->
                     [status |-> "NONE", claim |-> CHOOSE c \in Claim : TRUE,
                      table |-> NoTable]]
    /\ table = [t \in Tables |-> [status |-> "AVAILABLE", isActive |-> TRUE]]
    /\ request = [h \in Handlers |-> Idle]
    /\ breaches = {}

-----------------------------------------------------------------------------
(* createReservation *)

\* (mutant) two bookings may be decided at the same time
LockCreateUnlocked(h, b, claim) ==
    /\ booking[b].status = "NONE"
    /\ \A k \in Handlers : Doing(k, "create") => request[k].b # b
    /\ Fits(claim, {})
    /\ Start(h, [op |-> "create", b |-> b, claim |-> claim])
    /\ UNCHANGED <<booking, table, breaches>>

\* The lock is taken, seats are counted, and the transaction goes on if there is room.
LockCreate(h, b, claim) ==
    /\ booking[b].status = "NONE"
    /\ LockFree
    /\ Fits(claim, {})
    /\ Start(h, [op |-> "create", b |-> b, claim |-> claim])
    /\ UNCHANGED <<booking, table, breaches>>

CommitCreate(h) ==
    /\ Doing(h, "create")
    /\ booking' = [booking EXCEPT ![request[h].b] =
                      [status |-> "PENDING", claim |-> request[h].claim, table |-> NoTable]]
    /\ Finish(h)
    /\ UNCHANGED <<table, breaches>>

-----------------------------------------------------------------------------
(* updateReservation *)

Merge(patch, claim) ==
    [ size  |-> IF patch.size  = Keep THEN claim.size  ELSE patch.size,
      at    |-> IF patch.at    = Keep THEN claim.at    ELSE patch.at,
      lasts |-> IF patch.lasts = Keep THEN claim.lasts ELSE patch.lasts ]

\* The booking is read before the transaction opens.
ReadEdit(h, b, patch) ==
    /\ booking[b].status # "NONE"
    /\ Start(h, [op |-> "edit", b |-> b, patch |-> patch, seen |-> booking[b].claim])
    /\ UNCHANGED <<booking, table, breaches>>

\* The checks of the transaction, against what was read before it.
CheckEdit(h) ==
    /\ Doing(h, "edit")
    /\ LET patch  == request[h].patch
           wanted == Merge(patch, request[h].seen)
       IN  /\ TakesLock(patch) => LockFree /\ Fits(wanted, {request[h].b})
           /\ patch.table # Keep => /\ table[patch.table].isActive
                                    /\ Seats[patch.table] >= wanted.size
           /\ Continue(h, [op |-> "write", b |-> request[h].b, patch |-> patch,
                           checked |-> wanted])
    /\ UNCHANGED <<booking, table, breaches>>

\* The patched columns are written into the row as it now is.  A breach: a longer
\* booking that was not checked, or a row that is not the one that was checked.
CommitEdit(h) ==
    /\ Doing(h, "write")
    /\ LET b     == request[h].b
           patch == request[h].patch
           claim == Merge(patch, booking[b].claim)
       IN  /\ booking' = [booking EXCEPT ![b].claim = claim,
                             ![b].table = IF patch.table = Keep THEN booking[b].table
                                                                ELSE patch.table]
           /\ Breach(IF TakesLock(patch)
                     THEN IF claim = request[h].checked THEN {} ELSE {"moved"}
                     ELSE IF claim.lasts <= booking[b].claim.lasts THEN {} ELSE {"stretched"})
    /\ Finish(h)
    /\ UNCHANGED table

-----------------------------------------------------------------------------
(* updateReservationStatus and cancelByReference *)

ReadStatus(h, b, next, byGuest) ==
    /\ <<booking[b].status, next>> \in ALLOWED_TRANSITIONS
    /\ byGuest => next = "CANCELLED"
    /\ Start(h, [op |-> "status", b |-> b, next |-> next, byGuest |-> byGuest])
    /\ UNCHANGED <<booking, table, breaches>>

\* The row is written by id; unless the guest cancelled, its table's row comes next.
CommitStatus(h) ==
    /\ Doing(h, "status")
    /\ LET b    == request[h].b
           next == request[h].next
           t    == booking[b].table
       IN  /\ booking' = [booking EXCEPT ![b].status = next]
           /\ IF t = NoTable \/ request[h].byGuest \/ next = "CONFIRMED" THEN Finish(h)
              ELSE Continue(h, [op |-> "floor", t |-> t,
                                to |-> IF next = "SEATED" THEN "OCCUPIED" ELSE "AVAILABLE"])
           /\ Breach(IF ~Active(b) /\ next \in ACTIVE_STATUSES THEN {"revived"} ELSE {})
    /\ UNCHANGED table

WriteTable(h) ==
    /\ Doing(h, "floor")
    /\ table' = [table EXCEPT ![request[h].t].status = request[h].to]
    /\ Finish(h)
    /\ UNCHANGED <<booking, breaches>>

-----------------------------------------------------------------------------
\* setTableActive: the floor plan changes, and with it the seats the house has.
SetTableActive(t, isActive) ==
    /\ table' = [table EXCEPT ![t] =
                    [status |-> IF isActive THEN "AVAILABLE" ELSE "INACTIVE",
                     isActive |-> isActive]]
    /\ Breach(IF table[t].isActive /\ ~isActive THEN {"closed"} ELSE {})
    /\ UNCHANGED <<booking, request>>

\* A request dies: a check failed, a transaction timed out, the server restarted.
Abort(h) ==
    /\ ~Doing(h, "none")
    /\ Finish(h)
    /\ UNCHANGED <<booking, table, breaches>>

Serve(h) ==
    \/ \E b \in Bookings :
          \/ \E size \in Sizes, at \in Times :
                LockCreate(h, b, [size |-> size, at |-> at, lasts |-> DefaultDuration])
          \/ \E patch \in Patches : ReadEdit(h, b, patch)
          \/ \E next \in Statuses, byGuest \in BOOLEAN : ReadStatus(h, b, next, byGuest)
    \/ CommitCreate(h)
    \/ CheckEdit(h) \/ CommitEdit(h)
    \/ CommitStatus(h) \/ WriteTable(h)
    \/ Abort(h)

Next ==
    \/ \E h \in Handlers : Serve(h)
    \/ \E t \in Tables, isActive \in BOOLEAN : SetTableActive(t, isActive)

Spec == Init /\ [][Next]_vars

-----------------------------------------------------------------------------
TypeOK ==
    /\ booking \in [Bookings -> Row]
    /\ table \in [Tables -> TableRow]
    /\ request \in [Handlers -> Request]
    /\ breaches \subseteq {"moved", "stretched", "revived", "closed"}

\* The parties that are entitled to a seat at a moment.
Expected(moment) ==
    { b \in Bookings : Active(b) /\ booking[b].claim.at <= moment
                                 /\ moment < Ends(booking[b].claim) }

SeatsSuffice ==
    \A moment \in Times : Cardinality(CoversOf(Expected(moment))) <= TotalCapacity

\* At no moment are more seats promised than the house has, however bookings, edits,
\* cancellations and failures overlap, until one of four things the lock does not
\* guard has happened: an unchecked extension, a write over a row other than the
\* checked one, the revival of a closed booking, the closing of a table
\* (createReservation, updateReservation).  The fullest moment is one a booking
\* starts at.
NeverOversold == breaches # {} \/ SeatsSuffice
=============================================================================
