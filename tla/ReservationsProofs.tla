------------------------- MODULE ReservationsProofs -------------------------
(***************************************************************************)
(* Proofs about the reservation book.  NeverOversold is not inductive: a    *)
(* request that has been granted seats commits them in a later step.  What  *)
(* carries it there is that only one request at a time is between its check *)
(* and its commit (OneHolder), and that what it was granted is still free   *)
(* when it commits (RoomKept).  What the two screens of the book offer is   *)
(* held against the house in any well formed state (OffersStand).           *)
(***************************************************************************)
EXTENDS ReservationDesk, FiniteSetTheorems, TLAPS

\* At most one request holds the capacity lock.
OneHolder == \A g, h \in Handlers : Holds(g) /\ Holds(h) => g = h

\* What handler h was granted and has not committed: a new booking, or a move of b.
Creates(h, c)  == request[h].op = "create" /\ request[h].claim = c
Moves(h, b, c) == /\ request[h].op = "write" /\ TakesLock(request[h].patch)
                  /\ request[h].b = b /\ request[h].checked = c

\* The seats granted are still free.
RoomKept ==
    \A h \in Handlers, c \in Claim :
        /\ Creates(h, c) => Fits(c, {})
        /\ \A b \in Bookings : Moves(h, b, c) => Fits(c, {b})

IInv == /\ TypeOK
        /\ OneHolder
        /\ breaches = {} => SeatsSuffice /\ RoomKept

-----------------------------------------------------------------------------
(* Types *)

\* A request of each kind has the fields of its kind.
LEMMA RequestKinds ==
    ASSUME TypeOK, NEW h \in Handlers
    PROVE  /\ Doing(h, "create") => request[h] \in CreateReq
           /\ Doing(h, "edit")   => request[h] \in EditReq
           /\ Doing(h, "write")  => request[h] \in WriteReq
           /\ Doing(h, "status") => request[h] \in StatusReq
           /\ Doing(h, "floor")  => request[h] \in FloorReq
  <1> DEFINE r == request[h]
  <1>1. r \in Request
    BY DEF TypeOK
  <1> HIDE DEF r
  <1>2. /\ r.op = "create" => r \in CreateReq
        /\ r.op = "edit"   => r \in EditReq
        /\ r.op = "write"  => r \in WriteReq
        /\ r.op = "status" => r \in StatusReq
        /\ r.op = "floor"  => r \in FloorReq
    BY <1>1 DEF Request, Idle, CreateReq, EditReq, WriteReq, StatusReq, FloorReq
  <1> QED BY <1>2 DEF r, Doing

\* A patched claim is a claim.
LEMMA MergeType ==
    ASSUME NEW patch \in Patch, NEW claim \in Claim
    PROVE  Merge(patch, claim) \in Claim
  <1>1. \A d \in Durations : d \in 1..MaxDuration
    BY TimesAssumption
  <1> QED BY <1>1 DEF Merge, Patch, Claim

\* A request is replaced by a well formed one.
LEMMA StartType ==
    ASSUME TypeOK, NEW h \in Handlers, NEW req \in Request,
           request' = [request EXCEPT ![h] = req]
    PROVE  request' \in [Handlers -> Request]
  BY DEF TypeOK

LEMMA InitType == Init => TypeOK
  <1> SUFFICES ASSUME Init PROVE TypeOK
    OBVIOUS
  <1>1. \E c \in Claim : TRUE
    <2>1. PICK size \in Sizes : TRUE
      BY CoversAssumption
    <2>2. PICK at \in Times : TRUE
      BY TimesAssumption
    <2>3. [size |-> size, at |-> at, lasts |-> DefaultDuration] \in Claim
      BY TimesAssumption DEF Claim
    <2> QED BY <2>3
  <1>2. (CHOOSE c \in Claim : TRUE) \in Claim
    BY <1>1
  <1>3. booking \in [Bookings -> Row]
    BY <1>2 DEF Init, Row
  <1>4. table \in [Tables -> TableRow]
    BY DEF Init, TableRow
  <1>5. request \in [Handlers -> Request]
    BY DEF Init, Request
  <1> QED BY <1>3, <1>4, <1>5 DEF Init, TypeOK

-----------------------------------------------------------------------------
(* Counting covers *)

\* Sets of covers are finite, and a smaller set has no more covers.
LEMMA FewerCovers ==
    ASSUME NEW T \in SUBSET (Bookings \X (1..MaxCover)), NEW S \in SUBSET T
    PROVE  /\ IsFiniteSet(T) /\ IsFiniteSet(S)
           /\ Cardinality(T) \in Nat /\ Cardinality(S) \in Nat
           /\ Cardinality(S) <= Cardinality(T)
  <1>1. IsFiniteSet(1..MaxCover)
    BY CoversAssumption, FS_Interval
  <1>2. IsFiniteSet(Bookings \X (1..MaxCover))
    BY <1>1, BookingsAssumption, FS_Product
  <1>3. IsFiniteSet(T)
    BY <1>2, FS_Subset
  <1>4. IsFiniteSet(S) /\ Cardinality(S) <= Cardinality(T)
    BY <1>3, FS_Subset
  <1> QED BY <1>3, <1>4, FS_CardinalityType

\* A party of n has n covers.
LEMMA PartyCovers ==
    ASSUME NEW b, NEW n \in 1..MaxCover
    PROVE  IsFiniteSet({b} \X (1..n)) /\ Cardinality({b} \X (1..n)) = n
  <1>1. n \in Nat /\ n >= 1
    BY CoversAssumption
  <1>2. IsFiniteSet(1..n) /\ Cardinality(1..n) = n
    BY <1>1, FS_Interval
  <1>3. IsFiniteSet({b}) /\ Cardinality({b}) = 1
    BY FS_Singleton
  <1> QED BY <1>1, <1>2, <1>3, FS_Product

\* Adding a party to a set of covers adds at most its size.
LEMMA OneMoreParty ==
    ASSUME NEW T \in SUBSET (Bookings \X (1..MaxCover)),
           NEW b \in Bookings, NEW n \in 1..MaxCover,
           NEW S \in SUBSET (T \union ({b} \X (1..n)))
    PROVE  Cardinality(S) <= Cardinality(T) + n
  <1> DEFINE U == T \union ({b} \X (1..n))
  <1>1. IsFiniteSet(T) /\ Cardinality(T) \in Nat
    BY FewerCovers
  <1>2. IsFiniteSet({b} \X (1..n)) /\ Cardinality({b} \X (1..n)) = n
    BY PartyCovers
  <1>3. /\ IsFiniteSet(U)
        /\ Cardinality(U) = Cardinality(T) + n - Cardinality(T \cap ({b} \X (1..n)))
    BY <1>1, <1>2, FS_Union
  <1>4. Cardinality(T \cap ({b} \X (1..n))) \in Nat
    BY <1>1, FS_Intersection, FS_CardinalityType
  <1>5. Cardinality(S) <= Cardinality(U) /\ Cardinality(S) \in Nat /\ Cardinality(U) \in Nat
    BY <1>3, FS_Subset, FS_CardinalityType
  <1>6. n \in Nat
    BY CoversAssumption
  <1> HIDE DEF U
  <1> QED BY <1>1, <1>3, <1>4, <1>5, <1>6

\* The house's seats are finitely many.
LEMMA CapacityType ==
    ASSUME NEW S \in SUBSET (Tables \X (1..MaxCover))
    PROVE  IsFiniteSet(S) /\ Cardinality(S) \in Nat
  <1>1. IsFiniteSet(1..MaxCover)
    BY CoversAssumption, FS_Interval
  <1>2. IsFiniteSet(Tables \X (1..MaxCover))
    BY <1>1, BookingsAssumption, FS_Product
  <1> QED BY <1>2, FS_Subset, FS_CardinalityType

-----------------------------------------------------------------------------
(* Steps that only free seats *)

\* The bookings that clash with claim d, and whose rows the query fetches.
Taken(d, excluded) ==
    { b \in Bookings \ excluded :
        Active(b) /\ Nearby(booking[b].claim, d) /\ Clash(booking[b].claim, d) }

\* No booking claims more than before, and the house has no fewer seats.
Frees ==
    /\ TotalCapacity' >= TotalCapacity
    /\ \A b \in Bookings : Active(b)' =>
          /\ Active(b)
          /\ booking'[b].claim.size = booking[b].claim.size
          /\ booking'[b].claim.at = booking[b].claim.at
          /\ booking'[b].claim.lasts <= booking[b].claim.lasts

LEMMA SeatNumbers ==
    /\ TotalCapacity \in Nat /\ TotalCapacity' \in Nat
    /\ \A bs \in SUBSET Bookings :
          /\ CoversOf(bs) \in SUBSET (Bookings \X (1..MaxCover))
          /\ Cardinality(CoversOf(bs)) \in Nat
  <1>1. TotalCapacity \in Nat /\ TotalCapacity' \in Nat
    BY CapacityType DEF TotalCapacity
  <1>2. ASSUME NEW bs \in SUBSET Bookings
        PROVE  /\ CoversOf(bs) \in SUBSET (Bookings \X (1..MaxCover))
               /\ Cardinality(CoversOf(bs)) \in Nat
    <2>1. CoversOf(bs) \in SUBSET (Bookings \X (1..MaxCover))
      BY DEF CoversOf
    <2> QED BY <2>1, FewerCovers
  <1> QED BY <1>1, <1>2

\* The fields of a booking's row, before and after a step.
LEMMA RowFields ==
    ASSUME TypeOK, TypeOK', NEW b \in Bookings
    PROVE  /\ booking[b] \in Row /\ booking'[b] \in Row
           /\ booking[b].claim \in Claim /\ booking'[b].claim \in Claim
  BY DEF TypeOK, Row

LEMMA ClaimFields ==
    ASSUME NEW c \in Claim
    PROVE  c.size \in 1..MaxCover /\ c.size \in Nat /\ c.at \in Nat /\ c.lasts \in Nat
              /\ c.lasts <= MaxDuration /\ c.lasts >= 1 /\ MaxDuration \in Nat
  <1>1. c.size \in Sizes /\ c.at \in Times /\ c.lasts \in 1..MaxDuration
    BY DEF Claim
  <1>2. /\ MaxCover \in Nat /\ MaxDuration \in Nat
        /\ \A n \in Sizes : n \in 1..MaxCover
        /\ \A n \in Times : n \in Nat
    BY CoversAssumption, TimesAssumption
  <1> QED BY <1>1, <1>2

LEMMA FreesKeepsSuffice ==
    ASSUME TypeOK, TypeOK', Frees, SeatsSuffice
    PROVE  SeatsSuffice'
  <1> SUFFICES ASSUME NEW m \in Times
               PROVE  Cardinality(CoversOf(Expected(m))') <= TotalCapacity'
    BY DEF SeatsSuffice
  <1>1. CoversOf(Expected(m))' \subseteq CoversOf(Expected(m))
    <2>1. \A b \in Bookings : b \in Expected(m)' =>
             b \in Expected(m) /\ booking'[b].claim.size = booking[b].claim.size
      <3> SUFFICES ASSUME NEW b \in Bookings, b \in Expected(m)'
                   PROVE  b \in Expected(m) /\ booking'[b].claim.size = booking[b].claim.size
        OBVIOUS
      <3>1. booking[b].claim.at \in Nat /\ booking[b].claim.lasts \in Nat /\ m \in Nat
        BY RowFields, ClaimFields, TimesAssumption
      <3>2. booking'[b].claim.lasts \in Nat
        BY RowFields, ClaimFields
      <3> QED BY <3>1, <3>2 DEF Expected, Frees, Ends
    <2>2. Expected(m)' \subseteq Bookings
      BY DEF Expected
    <2> QED BY <2>1, <2>2 DEF CoversOf
  <1>2. Cardinality(CoversOf(Expected(m))) <= TotalCapacity
    BY DEF SeatsSuffice
  <1>3. CoversOf(Expected(m)) \in SUBSET (Bookings \X (1..MaxCover))
    BY SeatNumbers DEF Expected
  <1>4. /\ Cardinality(CoversOf(Expected(m))') <= Cardinality(CoversOf(Expected(m)))
        /\ Cardinality(CoversOf(Expected(m))') \in Nat /\ Cardinality(CoversOf(Expected(m))) \in Nat
    BY <1>1, <1>3, FewerCovers
  <1> QED BY <1>2, <1>4, SeatNumbers DEF Frees

LEMMA FreesKeepsFits ==
    ASSUME TypeOK, TypeOK', Frees, NEW d \in Claim, NEW excluded, Fits(d, excluded)
    PROVE  Fits(d, excluded)'
  <1>1. CoversOf(Taken(d, excluded))' \subseteq CoversOf(Taken(d, excluded))
    <2>1. \A b \in Bookings : b \in Taken(d, excluded)' =>
             b \in Taken(d, excluded) /\ booking'[b].claim.size = booking[b].claim.size
      <3> SUFFICES ASSUME NEW b \in Bookings, b \in Taken(d, excluded)'
                   PROVE  /\ b \in Taken(d, excluded)
                          /\ booking'[b].claim.size = booking[b].claim.size
        OBVIOUS
      <3>1. /\ booking[b].claim.at \in Nat /\ booking[b].claim.lasts \in Nat
            /\ booking'[b].claim.lasts \in Nat /\ d.at \in Nat /\ d.lasts \in Nat
        BY RowFields, ClaimFields
      <3> QED BY <3>1 DEF Taken, Frees, Nearby, Clash, Ends
    <2>2. Taken(d, excluded)' \subseteq Bookings
      BY DEF Taken
    <2> QED BY <2>1, <2>2 DEF CoversOf
  <1>2. CoversOf(Taken(d, excluded)) \in SUBSET (Bookings \X (1..MaxCover))
    BY SeatNumbers DEF Taken
  <1>3. /\ Cardinality(CoversOf(Taken(d, excluded))') <= Cardinality(CoversOf(Taken(d, excluded)))
        /\ Cardinality(CoversOf(Taken(d, excluded))') \in Nat
        /\ Cardinality(CoversOf(Taken(d, excluded))) \in Nat
    BY <1>1, <1>2, FewerCovers
  <1>4. /\ SeatsTakenDuring(d, excluded)  = Cardinality(CoversOf(Taken(d, excluded)))
        /\ SeatsTakenDuring(d, excluded)' = Cardinality(CoversOf(Taken(d, excluded))')
    BY DEF SeatsTakenDuring, Taken
  <1>5. d.size \in Nat
    BY ClaimFields
  <1> QED BY <1>3, <1>4, <1>5, SeatNumbers DEF Fits, Frees

-----------------------------------------------------------------------------
(* Placing a claim that fits *)

\* Who is expected while claim d lasts clashes with it, and is found by the query.
LEMMA ExpectedAreTaken ==
    ASSUME TypeOK, NEW d \in Claim, NEW m \in Times, d.at <= m, m < Ends(d),
           NEW b \in Bookings, b \in Expected(m), NEW excluded, b \notin excluded
    PROVE  b \in Taken(d, excluded)
  <1>1. booking[b].claim \in Claim
    BY DEF TypeOK, Row
  <1>2. /\ booking[b].claim.at \in Nat /\ booking[b].claim.lasts \in Nat
        /\ booking[b].claim.lasts <= MaxDuration /\ MaxDuration \in Nat
        /\ d.at \in Nat /\ d.lasts \in Nat /\ m \in Nat
    BY <1>1, ClaimFields, TimesAssumption
  <1>3. booking[b].claim.at <= m /\ m < Ends(booking[b].claim) /\ Active(b)
    BY DEF Expected
  <1> QED BY <1>2, <1>3 DEF Taken, Nearby, Clash, Ends

\* The seats still suffice when one booking is given a claim that fits.
LEMMA PlacingKeepsSuffice ==
    ASSUME TypeOK, TypeOK', SeatsSuffice, table' = table,
           NEW b \in Bookings, NEW d \in Claim, NEW excluded \in SUBSET {b},
           Fits(d, excluded),
           booking'[b].claim = d,
           \A x \in Bookings \ {b} : booking'[x] = booking[x]
    PROVE  SeatsSuffice'
  <1> SUFFICES ASSUME NEW m \in Times
               PROVE  Cardinality(CoversOf(Expected(m))') <= TotalCapacity'
    BY DEF SeatsSuffice
  <1>1. TotalCapacity' = TotalCapacity
    BY DEF TotalCapacity
  <1>2. \A x \in Bookings \ {b} : x \in Expected(m)' => x \in Expected(m)
    BY DEF Expected, Active, Ends
  <1>3. Expected(m)' \subseteq Bookings /\ Expected(m) \subseteq Bookings
    BY DEF Expected
  <1>4. CASE b \in Expected(m)'
    <2>1. d.at <= m /\ m < Ends(d)
      BY <1>4 DEF Expected, Ends
    <2>2. \A x \in Expected(m)' \ {b} : x \in Taken(d, excluded)
      BY <2>1, <1>2, <1>3, ExpectedAreTaken
    <2>3. CoversOf(Expected(m))' \subseteq CoversOf(Taken(d, excluded)) \union ({b} \X (1..d.size))
      <3> SUFFICES ASSUME NEW p \in CoversOf(Expected(m))'
                   PROVE  p \in CoversOf(Taken(d, excluded)) \union ({b} \X (1..d.size))
        OBVIOUS
      <3>1. /\ p \in Bookings \X (1..MaxCover) /\ p[1] \in Expected(m)'
            /\ p[2] <= booking'[p[1]].claim.size
        BY <1>3 DEF CoversOf
      <3>2. CASE p[1] = b
        BY <3>1, <3>2, ClaimFields
      <3>3. CASE p[1] # b
        BY <3>1, <3>3, <2>2, <1>3 DEF CoversOf
      <3> QED BY <3>2, <3>3
    <2>4. CoversOf(Taken(d, excluded)) \in SUBSET (Bookings \X (1..MaxCover))
      BY SeatNumbers DEF Taken
    <2>5. d.size \in 1..MaxCover /\ d.size \in Nat
      BY ClaimFields
    <2>6. Cardinality(CoversOf(Expected(m))') <= Cardinality(CoversOf(Taken(d, excluded))) + d.size
      BY <2>3, <2>4, <2>5, OneMoreParty
    <2>7. TotalCapacity - Cardinality(CoversOf(Taken(d, excluded))) >= d.size
      BY DEF Fits, SeatsTakenDuring, Taken
    <2>8. /\ Cardinality(CoversOf(Taken(d, excluded))) \in Nat
          /\ Cardinality(CoversOf(Expected(m))') \in Nat
      BY <2>3, <2>4, <2>5, PartyCovers, FewerCovers, FS_Union, FS_Subset, FS_CardinalityType
    <2> QED BY <1>1, <2>5, <2>6, <2>7, <2>8, SeatNumbers
  <1>5. CASE b \notin Expected(m)'
    <2>1. CoversOf(Expected(m))' \subseteq CoversOf(Expected(m))
      BY <1>2, <1>3, <1>5 DEF CoversOf
    <2>2. CoversOf(Expected(m)) \in SUBSET (Bookings \X (1..MaxCover))
      BY <1>3, SeatNumbers
    <2>3. /\ Cardinality(CoversOf(Expected(m))') <= Cardinality(CoversOf(Expected(m)))
          /\ Cardinality(CoversOf(Expected(m))') \in Nat
          /\ Cardinality(CoversOf(Expected(m))) \in Nat
      BY <2>1, <2>2, FewerCovers
    <2>4. Cardinality(CoversOf(Expected(m))) <= TotalCapacity
      BY DEF SeatsSuffice
    <2> QED BY <1>1, <2>3, <2>4, SeatNumbers
  <1> QED BY <1>4, <1>5

-----------------------------------------------------------------------------
(* The steps keep the types *)

\* A step of a handler is one of these.
LEMMA Steps ==
    ASSUME Next
    PROVE  \/ \E h \in Handlers, b \in Bookings :
                \/ \E c \in Claim : LockCreate(h, b, c)
                \/ \E patch \in Patch : ReadEdit(h, b, patch)
                \/ \E next \in Statuses, byGuest \in BOOLEAN : ReadStatus(h, b, next, byGuest)
           \/ \E h \in Handlers :
                \/ CommitCreate(h) \/ CheckEdit(h) \/ CommitEdit(h)
                \/ CommitStatus(h) \/ WriteTable(h) \/ Abort(h)
           \/ \E t \in Tables, isActive \in BOOLEAN : SetTableActive(t, isActive)
  <1>1. \A size \in Sizes, at \in Times :
            [size |-> size, at |-> at, lasts |-> DefaultDuration] \in Claim
    BY TimesAssumption DEF Claim
  <1>2. CASE \E t \in Tables, isActive \in BOOLEAN : SetTableActive(t, isActive)
    BY <1>2
  <1>3. ASSUME NEW h \in Handlers, Serve(h)
        PROVE  \/ \E b \in Bookings :
                     \/ \E c \in Claim : LockCreate(h, b, c)
                     \/ \E patch \in Patch : ReadEdit(h, b, patch)
                     \/ \E next \in Statuses, byGuest \in BOOLEAN :
                           ReadStatus(h, b, next, byGuest)
               \/ CommitCreate(h) \/ CheckEdit(h) \/ CommitEdit(h)
               \/ CommitStatus(h) \/ WriteTable(h) \/ Abort(h)
    <2>1. \A b \in Bookings, size \in Sizes, at \in Times :
            LockCreate(h, b, [size |-> size, at |-> at, lasts |-> DefaultDuration])
              => \E c \in Claim : LockCreate(h, b, c)
      BY <1>1
    <2>2. \A b \in Bookings, patch \in Patches :
            ReadEdit(h, b, patch) => \E q \in Patch : ReadEdit(h, b, q)
      BY PatchesAssumption
    <2> QED BY <1>3, <2>1, <2>2 DEF Serve
  <1> QED BY <1>2, <1>3 DEF Next

LEMMA NextType == TypeOK /\ [Next]_vars => TypeOK'
  <1> SUFFICES ASSUME TypeOK, [Next]_vars PROVE TypeOK'
    OBVIOUS
  <1>1. ASSUME NEW h \in Handlers, NEW b \in Bookings, NEW c \in Claim, LockCreate(h, b, c)
        PROVE  TypeOK'
    <2>1. [op |-> "create", b |-> b, claim |-> c] \in Request
      BY DEF Request, CreateReq
    <2> QED BY <1>1, <2>1, StartType DEF LockCreate, Start, TypeOK
  <1>2. ASSUME NEW h \in Handlers, NEW b \in Bookings, NEW patch \in Patch,
               ReadEdit(h, b, patch)
        PROVE  TypeOK'
    <2>1. booking[b].claim \in Claim
      BY DEF TypeOK, Row
    <2>2. [op |-> "edit", b |-> b, patch |-> patch, seen |-> booking[b].claim] \in Request
      BY <2>1 DEF Request, EditReq
    <2> QED BY <1>2, <2>2, StartType DEF ReadEdit, Start, TypeOK
  <1>3. ASSUME NEW h \in Handlers, NEW b \in Bookings, NEW next \in Statuses,
               NEW byGuest \in BOOLEAN, ReadStatus(h, b, next, byGuest)
        PROVE  TypeOK'
    <2>1. [op |-> "status", b |-> b, next |-> next, byGuest |-> byGuest] \in Request
      BY DEF Request, StatusReq
    <2> QED BY <1>3, <2>1, StartType DEF ReadStatus, Start, TypeOK
  <1>4. ASSUME NEW h \in Handlers, Finish(h) PROVE request' \in [Handlers -> Request]
    <2>1. Idle \in Request
      BY DEF Request
    <2> QED BY <1>4, <2>1, StartType DEF Finish
  <1>5. ASSUME NEW h \in Handlers, CommitCreate(h) PROVE TypeOK'
    <2>1. request[h] \in CreateReq
      BY <1>5, RequestKinds DEF CommitCreate
    <2>2. request[h].b \in Bookings /\ request[h].claim \in Claim
      BY <2>1 DEF CreateReq
    <2>3. [status |-> "PENDING", claim |-> request[h].claim, table |-> NoTable] \in Row
      BY <2>2 DEF Row, Statuses, ACTIVE_STATUSES
    <2>4. booking' \in [Bookings -> Row]
      BY <1>5, <2>3 DEF CommitCreate, TypeOK
    <2> QED BY <1>4, <1>5, <2>4 DEF CommitCreate, TypeOK
  <1>6. ASSUME NEW h \in Handlers, CheckEdit(h) PROVE TypeOK'
    <2>1. request[h] \in EditReq
      BY <1>6, RequestKinds DEF CheckEdit
    <2> DEFINE wanted == Merge(request[h].patch, request[h].seen)
    <2>2. request[h].b \in Bookings /\ request[h].patch \in Patch /\ request[h].seen \in Claim
      BY <2>1 DEF EditReq
    <2>3. wanted \in Claim
      BY <2>2, MergeType
    <2> HIDE DEF wanted
    <2>4. [op |-> "write", b |-> request[h].b, patch |-> request[h].patch, checked |-> wanted]
            \in Request
      BY <2>2, <2>3 DEF Request, WriteReq
    <2>5. request' \in [Handlers -> Request]
      BY <1>6, <2>4, StartType DEF CheckEdit, Continue, wanted
    <2> QED BY <1>6, <2>5 DEF CheckEdit, TypeOK
  <1>7. ASSUME NEW h \in Handlers, CommitEdit(h) PROVE TypeOK'
    <2>1. request[h] \in WriteReq
      BY <1>7, RequestKinds DEF CommitEdit
    <2> DEFINE b == request[h].b
               claim == Merge(request[h].patch, booking[b].claim)
               row == [booking[b] EXCEPT !.claim = claim,
                         !.table = IF request[h].patch.table = Keep THEN booking[b].table
                                                                    ELSE request[h].patch.table]
    <2>2. b \in Bookings /\ request[h].patch \in Patch
      BY <2>1 DEF WriteReq
    <2>3. booking[b] \in Row /\ booking[b].claim \in Claim
      BY <2>2 DEF TypeOK, Row
    <2>4. claim \in Claim
      BY <2>2, <2>3, MergeType
    <2>5. request[h].patch.table \in Tables \union {Keep}
      BY <2>2 DEF Patch
    <2> HIDE DEF b, claim
    <2>6. row \in Row
      BY <2>3, <2>4, <2>5 DEF Row
    <2>7. booking' = [booking EXCEPT ![b] = row]
      BY <1>7, <2>2 DEF CommitEdit, b, claim, TypeOK
    <2>8. booking' \in [Bookings -> Row]
      BY <2>6, <2>7 DEF TypeOK
    <2>9. breaches' \subseteq {"moved", "stretched", "revived", "closed"}
      BY <1>7 DEF CommitEdit, Breach, TypeOK
    <2> QED BY <1>4, <1>7, <2>8, <2>9 DEF CommitEdit, TypeOK
  <1>8. ASSUME NEW h \in Handlers, CommitStatus(h) PROVE TypeOK'
    <2>1. request[h] \in StatusReq
      BY <1>8, RequestKinds DEF CommitStatus
    <2> DEFINE b == request[h].b
               floor == [op |-> "floor", t |-> booking[b].table,
                         to |-> IF request[h].next = "SEATED" THEN "OCCUPIED" ELSE "AVAILABLE"]
    <2>2. b \in Bookings /\ request[h].next \in Statuses
      BY <2>1 DEF StatusReq
    <2>3. booking[b] \in Row /\ booking[b].table \in Tables \union {NoTable}
      BY <2>2 DEF TypeOK, Row
    <2>4. [booking[b] EXCEPT !.status = request[h].next] \in Row
      BY <2>2, <2>3 DEF Row
    <2>5. booking' \in [Bookings -> Row]
      BY <1>8, <2>2, <2>4 DEF CommitStatus, TypeOK
    <2>6. booking[b].table # NoTable => floor \in Request
      BY <2>3 DEF Request, FloorReq
    <2>7. request' \in [Handlers -> Request]
      <3>1. \/ Finish(h)
            \/ booking[b].table # NoTable /\ request' = [request EXCEPT ![h] = floor]
        BY <1>8 DEF CommitStatus, Continue
      <3> HIDE DEF floor
      <3> QED BY <3>1, <2>6, <1>4, StartType
    <2>8. breaches' \subseteq {"moved", "stretched", "revived", "closed"}
      BY <1>8 DEF CommitStatus, Breach, TypeOK
    <2> QED BY <1>8, <2>5, <2>7, <2>8 DEF CommitStatus, TypeOK
  <1>9. ASSUME NEW h \in Handlers, WriteTable(h) PROVE TypeOK'
    <2>1. request[h] \in FloorReq
      BY <1>9, RequestKinds DEF WriteTable
    <2>2. request[h].t \in Tables /\ request[h].to \in {"AVAILABLE", "OCCUPIED"}
      BY <2>1 DEF FloorReq
    <2>3. [table[request[h].t] EXCEPT !.status = request[h].to] \in TableRow
      BY <2>2 DEF TypeOK, TableRow
    <2>4. table' \in [Tables -> TableRow]
      BY <1>9, <2>2, <2>3 DEF WriteTable, TypeOK
    <2> QED BY <1>4, <1>9, <2>4 DEF WriteTable, TypeOK
  <1>10. ASSUME NEW h \in Handlers, Abort(h) PROVE TypeOK'
    BY <1>4, <1>10 DEF Abort, TypeOK
  <1>11. ASSUME NEW t \in Tables, NEW isActive \in BOOLEAN, SetTableActive(t, isActive)
         PROVE  TypeOK'
    <2>1. [status |-> IF isActive THEN "AVAILABLE" ELSE "INACTIVE", isActive |-> isActive]
             \in TableRow
      BY DEF TableRow
    <2>2. table' \in [Tables -> TableRow]
      BY <1>11, <2>1 DEF SetTableActive, TypeOK
    <2>3. breaches' \subseteq {"moved", "stretched", "revived", "closed"}
      BY <1>11 DEF SetTableActive, Breach, TypeOK
    <2> QED BY <1>11, <2>2, <2>3 DEF SetTableActive, TypeOK
  <1>12. CASE UNCHANGED vars
    BY <1>12 DEF vars, TypeOK
  <1> QED BY <1>1, <1>2, <1>3, <1>5, <1>6, <1>7, <1>8, <1>9, <1>10, <1>11, <1>12, Steps

\* In every reachable state the bookings, the tables and the requests are well formed.
THEOREM TypeCorrect == Spec => []TypeOK
  <1> QED BY InitType, NextType, PTL DEF Spec

-----------------------------------------------------------------------------
(* Mutual exclusion *)

\* A handler that finishes holds nothing, and the others go on as they were.
LEMMA FinishReleases ==
    ASSUME TypeOK, NEW h \in Handlers, Finish(h)
    PROVE  /\ ~Holds(h)'
           /\ \A g \in Handlers \ {h} : request'[g] = request[g]
           /\ \A c : ~Creates(h, c)' /\ \A b : ~Moves(h, b, c)'
  <1>1. request'[h] = Idle /\ \A g \in Handlers \ {h} : request'[g] = request[g]
    BY DEF Finish, TypeOK
  <1> QED BY <1>1 DEF Idle, Holds, Doing, Creates, Moves

\* What a step may do to the lock: h takes it while it is free, or no one new holds it.
LEMMA LockStep ==
    ASSUME TypeOK, OneHolder, NEW h \in Handlers,
           \A g \in Handlers \ {h} : request'[g] = request[g],
           Holds(h)' => LockFree \/ Holds(h)
    PROVE  OneHolder'
  <1>1. \A g \in Handlers \ {h} : Holds(g)' => Holds(g)
    BY DEF Holds, Doing
  <1> QED BY <1>1 DEF OneHolder, LockFree

LEMMA HolderStep == TypeOK /\ OneHolder /\ [Next]_vars => OneHolder'
  <1> SUFFICES ASSUME TypeOK, OneHolder, [Next]_vars PROVE OneHolder'
    OBVIOUS
  <1>1. ASSUME NEW h \in Handlers, NEW b \in Bookings, NEW c \in Claim, LockCreate(h, b, c)
        PROVE  OneHolder'
    BY <1>1, LockStep DEF LockCreate, Start, TypeOK
  <1>2. ASSUME NEW h \in Handlers, NEW b \in Bookings, NEW patch \in Patch,
               ReadEdit(h, b, patch)
        PROVE  OneHolder'
    <2>1. /\ request'[h].op = "edit"
          /\ \A g \in Handlers \ {h} : request'[g] = request[g]
      BY <1>2 DEF ReadEdit, Start, TypeOK
    <2> QED BY <2>1, LockStep DEF Holds, Doing
  <1>3. ASSUME NEW h \in Handlers, NEW b \in Bookings, NEW next \in Statuses,
               NEW byGuest \in BOOLEAN, ReadStatus(h, b, next, byGuest)
        PROVE  OneHolder'
    <2>1. /\ request'[h].op = "status"
          /\ \A g \in Handlers \ {h} : request'[g] = request[g]
      BY <1>3 DEF ReadStatus, Start, TypeOK
    <2> QED BY <2>1, LockStep DEF Holds, Doing
  <1>4. ASSUME NEW h \in Handlers, CheckEdit(h) PROVE OneHolder'
    <2>1. /\ request'[h].op = "write" /\ request'[h].patch = request[h].patch
          /\ \A g \in Handlers \ {h} : request'[g] = request[g]
          /\ TakesLock(request[h].patch) => LockFree
      BY <1>4 DEF CheckEdit, Continue, TypeOK
    <2> QED BY <2>1, LockStep DEF Holds, Doing
  <1>5. ASSUME NEW h \in Handlers, Finish(h) PROVE OneHolder'
    BY <1>5, FinishReleases, LockStep
  <1>6. ASSUME NEW h \in Handlers, CommitStatus(h) PROVE OneHolder'
    <2>1. CASE Finish(h)
      BY <1>5, <2>1
    <2>2. CASE \E t, to : request' = [request EXCEPT ![h] = [op |-> "floor", t |-> t, to |-> to]]
      <3>1. /\ request'[h].op = "floor"
            /\ \A g \in Handlers \ {h} : request'[g] = request[g]
        BY <2>2 DEF TypeOK
      <3> QED BY <3>1, LockStep DEF Holds, Doing
    <2> QED BY <1>6, <2>1, <2>2 DEF CommitStatus, Continue
  <1>7. CASE request' = request
    BY <1>7 DEF OneHolder, Holds, Doing
  <1>8. ASSUME NEW t \in Tables, NEW isActive \in BOOLEAN, SetTableActive(t, isActive)
        PROVE  OneHolder'
    BY <1>7, <1>8 DEF SetTableActive
  <1> QED BY <1>1, <1>2, <1>3, <1>4, <1>5, <1>6, <1>7, <1>8, Steps
          DEF CommitCreate, CommitEdit, WriteTable, Abort, vars

-----------------------------------------------------------------------------
(* Seats granted stay free until they are taken *)

\* A step that frees seats, or does nothing to them, and grants only what fits.
LEMMA FreesKeepsRoom ==
    ASSUME TypeOK, TypeOK', Frees, SeatsSuffice, RoomKept,
           \A g \in Handlers, c \in Claim :
              /\ Creates(g, c)' => Creates(g, c) \/ Fits(c, {})
              /\ \A b \in Bookings : Moves(g, b, c)' => Moves(g, b, c) \/ Fits(c, {b})
    PROVE  SeatsSuffice' /\ RoomKept'
  <1>1. \A g \in Handlers, c \in Claim : Creates(g, c)' => Fits(c, {})'
    BY FreesKeepsFits DEF RoomKept
  <1>2. \A g \in Handlers, c \in Claim, b \in Bookings : Moves(g, b, c)' => Fits(c, {b})'
    BY FreesKeepsFits DEF RoomKept
  <1> QED BY <1>1, <1>2, FreesKeepsSuffice DEF RoomKept

LEMMA QuietFrees ==
    ASSUME TypeOK, booking' = booking, table' = table
    PROVE  Frees
  <1>1. TotalCapacity' = TotalCapacity
    BY DEF TotalCapacity
  <1>2. \A b \in Bookings : Active(b)' <=> Active(b)
    BY DEF Active
  <1>3. \A b \in Bookings : booking[b].claim.lasts \in Nat
    <2>1. \A b \in Bookings : booking[b].claim \in Claim
      BY DEF TypeOK, Row
    <2> QED BY <2>1, ClaimFields
  <1> QED BY <1>1, <1>2, <1>3, SeatNumbers DEF Frees

\* Switching a table on adds its seats; one that is off already adds and removes none.
LEMMA SwitchFrees ==
    ASSUME TypeOK, NEW t \in Tables, NEW isActive \in BOOLEAN, SetTableActive(t, isActive),
           breaches' = {}
    PROVE  Frees
  <1> DEFINE Covers  == { p \in Tables \X (1..MaxCover) : table[p[1]].isActive /\ p[2] <= Seats[p[1]] }
             Covers1 == { p \in Tables \X (1..MaxCover) : table'[p[1]].isActive /\ p[2] <= Seats[p[1]] }
  <1>1. table[t].isActive => isActive
    BY DEF SetTableActive, Breach
  <1>2. \A u \in Tables : table[u].isActive => table'[u].isActive
    BY <1>1 DEF SetTableActive, TypeOK
  <1>3. Covers \in SUBSET Covers1 /\ Covers1 \in SUBSET (Tables \X (1..MaxCover))
    BY <1>2
  <1>4. IsFiniteSet(Covers1)
    BY <1>3, CapacityType
  <1>5. Cardinality(Covers) <= Cardinality(Covers1)
    BY <1>3, <1>4, FS_Subset
  <1>6. TotalCapacity = Cardinality(Covers) /\ TotalCapacity' = Cardinality(Covers1)
    BY DEF TotalCapacity
  <1>7. \A b \in Bookings : Active(b)' <=> Active(b)
    BY DEF Active, SetTableActive
  <1>8. \A b \in Bookings : booking[b].claim.lasts \in Nat
    <2>1. \A b \in Bookings : booking[b].claim \in Claim
      BY DEF TypeOK, Row
    <2> QED BY <2>1, ClaimFields
  <1> HIDE DEF Covers, Covers1
  <1>9. TotalCapacity' >= TotalCapacity
    BY <1>5, <1>6, SeatNumbers
  <1> QED BY <1>7, <1>8, <1>9 DEF Frees, SetTableActive

\* A closed booking that is not revived, an open one that is closed: no claim grows.
LEMMA StatusFrees ==
    ASSUME TypeOK, TypeOK', NEW h \in Handlers, CommitStatus(h), breaches' = {}
    PROVE  Frees
  <1>1. request[h] \in StatusReq
    BY RequestKinds DEF CommitStatus
  <1> DEFINE b == request[h].b
  <1>2. b \in Bookings
    BY <1>1 DEF StatusReq
  <1>3. /\ booking' = [booking EXCEPT ![b].status = request[h].next]
        /\ request[h].next \in ACTIVE_STATUSES => Active(b)
    BY DEF CommitStatus, Breach
  <1>4. TotalCapacity' = TotalCapacity
    BY DEF CommitStatus, TotalCapacity
  <1>5. \A x \in Bookings : Active(x)' => Active(x)
    BY <1>2, <1>3 DEF Active, TypeOK
  <1>6. \A x \in Bookings : booking'[x].claim = booking[x].claim
    <2>1. booking[b] \in Row
      BY <1>2 DEF TypeOK
    <2> HIDE DEF b
    <2> QED BY <1>2, <1>3, <2>1 DEF TypeOK, Row
  <1>7. \A x \in Bookings : booking[x].claim.lasts \in Nat
    BY RowFields, ClaimFields
  <1> QED BY <1>4, <1>5, <1>6, <1>7, SeatNumbers DEF Frees

\* What CommitEdit writes.
LEMMA EditWrites ==
    ASSUME TypeOK, NEW h \in Handlers, CommitEdit(h)
    PROVE  /\ request[h].b \in Bookings /\ request[h].patch \in Patch
           /\ request[h].checked \in Claim
           /\ booking'[request[h].b].claim = Merge(request[h].patch, booking[request[h].b].claim)
           /\ booking'[request[h].b].status = booking[request[h].b].status
           /\ \A x \in Bookings \ {request[h].b} : booking'[x] = booking[x]
           /\ table' = table
  <1>1. request[h] \in WriteReq
    BY RequestKinds DEF CommitEdit
  <1> DEFINE b == request[h].b
             claim == Merge(request[h].patch, booking[b].claim)
             tab == IF request[h].patch.table = Keep THEN booking[b].table
                                                     ELSE request[h].patch.table
  <1>2. b \in Bookings /\ request[h].patch \in Patch /\ request[h].checked \in Claim
    BY <1>1 DEF WriteReq
  <1>3. booking[b] \in Row
    BY <1>2 DEF TypeOK
  <1>4. booking' = [booking EXCEPT ![b].claim = claim, ![b].table = tab] /\ table' = table
    BY DEF CommitEdit
  <1> HIDE DEF b, claim, tab
  <1>5. /\ booking'[b].claim = claim /\ booking'[b].status = booking[b].status
        /\ \A x \in Bookings \ {b} : booking'[x] = booking[x]
    BY <1>2, <1>3, <1>4 DEF TypeOK, Row
  <1> QED BY <1>2, <1>4, <1>5 DEF b, claim

\* An edit that took no lock, and was no breach, leaves the claim as it was or shorter.
LEMMA ShortenFrees ==
    ASSUME TypeOK, TypeOK', NEW h \in Handlers, CommitEdit(h), ~TakesLock(request[h].patch),
           breaches' = {}
    PROVE  Frees
  <1> DEFINE b == request[h].b
             old == booking[b].claim
             claim == Merge(request[h].patch, old)
  <1>1. claim.lasts <= old.lasts
    BY DEF CommitEdit, Breach
  <1>2. claim.size = old.size /\ claim.at = old.at
    BY DEF Merge, TakesLock
  <1>3. TotalCapacity' = TotalCapacity
    BY EditWrites DEF TotalCapacity
  <1>4. \A x \in Bookings : Active(x)' <=> Active(x)
    BY EditWrites DEF Active
  <1>5. \A x \in Bookings : booking[x].claim.lasts \in Nat
    BY RowFields, ClaimFields
  <1>6. b \in Bookings /\ booking'[b].claim = claim
        /\ \A x \in Bookings \ {b} : booking'[x] = booking[x]
    BY EditWrites
  <1> HIDE DEF b, claim
  <1> QED BY <1>1, <1>2, <1>3, <1>4, <1>5, <1>6, SeatNumbers DEF Frees

LEMMA SeatsStep ==
    ASSUME TypeOK, TypeOK', OneHolder, [Next]_vars, SeatsSuffice, RoomKept, breaches' = {}
    PROVE  SeatsSuffice' /\ RoomKept'
  <1>1. ASSUME NEW h \in Handlers, NEW b \in Bookings, NEW c \in Claim, LockCreate(h, b, c)
        PROVE  SeatsSuffice' /\ RoomKept'
    <2>1. /\ request'[h] = [op |-> "create", b |-> b, claim |-> c] /\ Fits(c, {})
          /\ \A g \in Handlers \ {h} : request'[g] = request[g]
          /\ Frees
      BY <1>1, QuietFrees DEF LockCreate, Start, TypeOK
    <2>2. /\ \A e : Creates(h, e)' => e = c
          /\ \A e, x : ~Moves(h, x, e)'
      BY <2>1 DEF Creates, Moves
    <2> QED BY <2>1, <2>2, FreesKeepsRoom DEF Creates, Moves
  <1>2. ASSUME NEW h \in Handlers, NEW b \in Bookings, NEW patch \in Patch,
               ReadEdit(h, b, patch)
        PROVE  SeatsSuffice' /\ RoomKept'
    <2>1. /\ request'[h].op = "edit"
          /\ \A g \in Handlers \ {h} : request'[g] = request[g]
          /\ Frees
      BY <1>2, QuietFrees DEF ReadEdit, Start, TypeOK
    <2> QED BY <2>1, FreesKeepsRoom DEF Creates, Moves
  <1>3. ASSUME NEW h \in Handlers, NEW b \in Bookings, NEW next \in Statuses,
               NEW byGuest \in BOOLEAN, ReadStatus(h, b, next, byGuest)
        PROVE  SeatsSuffice' /\ RoomKept'
    <2>1. /\ request'[h].op = "status"
          /\ \A g \in Handlers \ {h} : request'[g] = request[g]
          /\ Frees
      BY <1>3, QuietFrees DEF ReadStatus, Start, TypeOK
    <2> QED BY <2>1, FreesKeepsRoom DEF Creates, Moves
  <1>4. ASSUME NEW h \in Handlers, CheckEdit(h)
        PROVE  SeatsSuffice' /\ RoomKept'
    <2> DEFINE wanted == Merge(request[h].patch, request[h].seen)
    <2>1. /\ request'[h] = [op |-> "write", b |-> request[h].b, patch |-> request[h].patch,
                            checked |-> wanted]
          /\ \A g \in Handlers \ {h} : request'[g] = request[g]
          /\ TakesLock(request[h].patch) => Fits(wanted, {request[h].b})
          /\ Frees
      BY <1>4, QuietFrees DEF CheckEdit, Continue, TypeOK
    <2> HIDE DEF wanted
    <2>2. /\ \A e : ~Creates(h, e)'
          /\ \A e, x : Moves(h, x, e)' =>
                e = wanted /\ x = request[h].b /\ TakesLock(request[h].patch)
      BY <2>1 DEF Creates, Moves
    <2> QED BY <2>1, <2>2, FreesKeepsRoom DEF Creates, Moves
  <1>5. ASSUME NEW h \in Handlers, CommitCreate(h)
        PROVE  SeatsSuffice' /\ RoomKept'
    <2> DEFINE b == request[h].b
               c == request[h].claim
    <2>1. request[h] \in CreateReq
      BY <1>5, RequestKinds DEF CommitCreate
    <2>2. b \in Bookings /\ c \in Claim
      BY <2>1 DEF CreateReq
    <2>3. Fits(c, {})
      BY <1>5, <2>2 DEF CommitCreate, RoomKept, Creates, Doing
    <2>4. /\ booking'[b].claim = c
          /\ \A x \in Bookings \ {b} : booking'[x] = booking[x]
          /\ table' = table /\ Finish(h)
      BY <1>5, <2>2 DEF CommitCreate, TypeOK
    <2>5. SeatsSuffice'
      <3> HIDE DEF b, c
      <3> QED BY <2>2, <2>3, <2>4, PlacingKeepsSuffice
    <2>6. RoomKept'
      <3>1. \A g \in Handlers \ {h} : ~Holds(g)
        BY <1>5 DEF CommitCreate, OneHolder, Holds
      <3>2. \A g \in Handlers \ {h} : \A e : ~Creates(g, e)' /\ \A x : ~Moves(g, x, e)'
        BY <2>4, <3>1, FinishReleases DEF Holds, Doing, Creates, Moves
      <3> QED BY <2>4, <3>2, FinishReleases DEF RoomKept
    <2> QED BY <2>5, <2>6
  <1>6. ASSUME NEW h \in Handlers, CommitEdit(h)
        PROVE  SeatsSuffice' /\ RoomKept'
    <2>1. Finish(h) /\ Doing(h, "write")
      BY <1>6 DEF CommitEdit
    <2>2. CASE ~TakesLock(request[h].patch)
      <3>1. Frees
        BY <1>6, <2>2, ShortenFrees
      <3>2. \A g \in Handlers \ {h} : request'[g] = request[g]
        BY <2>1, FinishReleases
      <3> QED BY <2>1, <3>1, <3>2, FinishReleases, FreesKeepsRoom DEF Creates, Moves
    <2>3. CASE TakesLock(request[h].patch)
      <3> DEFINE b == request[h].b
                 c == request[h].checked
      <3>1. /\ b \in Bookings /\ c \in Claim /\ table' = table
            /\ \A x \in Bookings \ {b} : booking'[x] = booking[x]
        BY <1>6, EditWrites
      <3>2. booking'[b].claim = c
        BY <1>6, <2>3, EditWrites DEF CommitEdit, Breach
      <3>3. Fits(c, {b})
        BY <2>1, <2>3, <3>1 DEF RoomKept, Moves, Doing
      <3>4. SeatsSuffice'
        <4> HIDE DEF b, c
        <4> QED BY <3>1, <3>2, <3>3, PlacingKeepsSuffice
      <3>5. \A g \in Handlers \ {h} : ~Holds(g)
        BY <2>1, <2>3 DEF OneHolder, Holds
      <3>6. \A g \in Handlers \ {h} : \A e : ~Creates(g, e)' /\ \A x : ~Moves(g, x, e)'
        BY <2>1, <3>5, FinishReleases DEF Holds, Doing, Creates, Moves
      <3> QED BY <2>1, <3>4, <3>6, FinishReleases DEF RoomKept
    <2> QED BY <2>2, <2>3
  <1>7. ASSUME NEW h \in Handlers, CommitStatus(h)
        PROVE  SeatsSuffice' /\ RoomKept'
    <2>1. Frees
      BY <1>7, StatusFrees
    <2>2. /\ \A e : ~Creates(h, e)' /\ \A x : ~Moves(h, x, e)'
          /\ \A g \in Handlers \ {h} : request'[g] = request[g]
      <3>1. CASE Finish(h)
        BY <3>1, FinishReleases
      <3>2. CASE \E t, to : request' = [request EXCEPT ![h] = [op |-> "floor", t |-> t, to |-> to]]
        <4>1. /\ request'[h].op = "floor"
              /\ \A g \in Handlers \ {h} : request'[g] = request[g]
          BY <3>2 DEF TypeOK
        <4> QED BY <4>1 DEF Creates, Moves
      <3> QED BY <1>7, <3>1, <3>2 DEF CommitStatus, Continue
    <2> QED BY <2>1, <2>2, FreesKeepsRoom DEF Creates, Moves
  <1>8. ASSUME NEW h \in Handlers, WriteTable(h)
        PROVE  SeatsSuffice' /\ RoomKept'
    <2>1. request[h] \in FloorReq
      BY <1>8, RequestKinds DEF WriteTable
    <2>2. \A u \in Tables : table'[u].isActive = table[u].isActive
      <3>1. request[h].t \in Tables /\ table[request[h].t] \in TableRow
        BY <2>1 DEF FloorReq, TypeOK
      <3> QED BY <1>8, <3>1 DEF WriteTable, TypeOK, TableRow
    <2>3. TotalCapacity' = TotalCapacity
      BY <2>2 DEF TotalCapacity
    <2>4. booking' = booking /\ Finish(h)
      BY <1>8 DEF WriteTable
    <2>5. Frees
      <3>1. \A b \in Bookings : booking[b].claim.lasts \in Nat
        BY RowFields, ClaimFields
      <3>2. \A b \in Bookings : Active(b)' <=> Active(b)
        BY <2>4 DEF Active
      <3> QED BY <2>3, <2>4, <3>1, <3>2, SeatNumbers DEF Frees
    <2> QED BY <2>4, <2>5, FinishReleases, FreesKeepsRoom DEF Creates, Moves
  <1>9. ASSUME NEW h \in Handlers, Abort(h)
        PROVE  SeatsSuffice' /\ RoomKept'
    <2>1. Finish(h) /\ Frees
      BY <1>9, QuietFrees DEF Abort
    <2> QED BY <2>1, FinishReleases, FreesKeepsRoom DEF Creates, Moves
  <1>10. ASSUME NEW t \in Tables, NEW isActive \in BOOLEAN, SetTableActive(t, isActive)
         PROVE  SeatsSuffice' /\ RoomKept'
    <2>1. Frees /\ request' = request
      BY <1>10, SwitchFrees DEF SetTableActive
    <2> QED BY <2>1, FreesKeepsRoom DEF Creates, Moves
  <1>11. CASE UNCHANGED vars
    <2>1. Frees /\ request' = request
      BY <1>11, QuietFrees DEF vars
    <2> QED BY <2>1, FreesKeepsRoom DEF Creates, Moves
  <1> QED BY <1>1, <1>2, <1>3, <1>4, <1>5, <1>6, <1>7, <1>8, <1>9, <1>10, <1>11, Steps

-----------------------------------------------------------------------------
(* The theorems *)

LEMMA InitInv == Init => IInv
  <1> SUFFICES ASSUME Init PROVE IInv
    OBVIOUS
  <1>1. TypeOK
    BY InitType
  <1>2. \A h \in Handlers : request[h].op = "none"
    BY DEF Init, Idle
  <1>3. \A m \in Times : Cardinality(CoversOf(Expected(m))) <= TotalCapacity
    <2> SUFFICES ASSUME NEW m \in Times
                 PROVE  Cardinality(CoversOf(Expected(m))) <= TotalCapacity
      OBVIOUS
    <2>1. Expected(m) = {}
      BY DEF Init, Expected, Active, ACTIVE_STATUSES
    <2>2. CoversOf(Expected(m)) = {}
      BY <2>1 DEF CoversOf
    <2> QED BY <2>2, FS_EmptySet, SeatNumbers
  <1> QED BY <1>1, <1>2, <1>3
          DEF IInv, OneHolder, RoomKept, Holds, Doing, Creates, Moves, SeatsSuffice

LEMMA NextInv == IInv /\ [Next]_vars => IInv'
  <1> SUFFICES ASSUME IInv, [Next]_vars PROVE IInv'
    OBVIOUS
  <1>1. TypeOK' /\ OneHolder'
    BY NextType, HolderStep DEF IInv
  <1>2. ASSUME breaches' = {} PROVE breaches = {}
    <2>1. \A kinds : Breach(kinds) => breaches = {}
      BY <1>2 DEF Breach
    <2>2. ASSUME NEW h \in Handlers, CommitEdit(h) \/ CommitStatus(h) PROVE breaches = {}
      BY <2>1, <2>2 DEF CommitEdit, CommitStatus
    <2>3. ASSUME NEW t \in Tables, NEW isActive \in BOOLEAN, SetTableActive(t, isActive)
          PROVE  breaches = {}
      BY <2>1, <2>3 DEF SetTableActive
    <2>4. CASE breaches' = breaches
      BY <1>2, <2>4
    <2> QED BY <2>2, <2>3, <2>4, Steps
            DEF LockCreate, ReadEdit, ReadStatus, CommitCreate, CheckEdit, WriteTable, Abort, vars
  <1>3. breaches' = {} => SeatsSuffice' /\ RoomKept'
    BY <1>1, <1>2, SeatsStep DEF IInv
  <1> QED BY <1>1, <1>3 DEF IInv

\* For any bookings, tables, parties, sittings and requests at a time: no interleaving
\* of booking, changing, cancelling, seating and failing promises more seats at a moment
\* than the house has, until a step the capacity lock does not guard has been taken.
THEOREM SeatsAreNeverOversold == Spec => []NeverOversold
  <1>1. IInv => NeverOversold
    BY DEF IInv, NeverOversold
  <1> QED BY <1>1, InitInv, NextInv, PTL DEF Spec

\* The advisory lock serialises: two requests never decide about seats at the same time
\* (lockCapacity).
THEOREM OneDecisionAtATime == Spec => []OneHolder
  <1>1. IInv => OneHolder
    BY DEF IInv
  <1> QED BY <1>1, InitInv, NextInv, PTL DEF Spec

\* Looking no further back than the longest sitting loses no booking that clashes
\* (seatsTakenDuring).
WindowIsComplete ==
    \A b \in Bookings, d \in Claim :
        Clash(booking[b].claim, d) => Nearby(booking[b].claim, d)

\* The rows the query fetches are enough, in every reachable state.
THEOREM WindowLosesNoClash == Spec => []WindowIsComplete
  <1>1. TypeOK => WindowIsComplete
    <2> SUFFICES ASSUME TypeOK, NEW b \in Bookings, NEW d \in Claim, Clash(booking[b].claim, d)
                 PROVE  Nearby(booking[b].claim, d)
      BY DEF WindowIsComplete
    <2>1. booking[b].claim \in Claim
      BY DEF TypeOK, Row
    <2> QED BY <2>1, ClaimFields DEF Clash, Nearby, Ends
  <1> QED BY <1>1, TypeCorrect, PTL

-----------------------------------------------------------------------------
(* The screens over the book. *)

LEMMA FormHolds == TypeOK => FormStands
  <1> SUFFICES ASSUME TypeOK, NEW size \in PartySizes, NEW now \in Times
               PROVE  /\ \A at \in Offered(size, now) : at <= now \/ Accepted(size, at, now)
                      /\ \A at \in Times \ Offered(size, now) :
                            at <= now + Lead \/ ~Accepted(size, at, now)
    BY DEF FormStands
  <1>t. now \in Nat /\ \A at \in Times : at \in Nat
    BY TimesAssumption
  <1>f. ASSUME NEW at \in Int, Available(size, at), at > now PROVE Accepted(size, at, now)
    BY <1>f DEF Available, Accepted, Asked
  <1>1. ASSUME NEW at \in Offered(size, now), ~(at <= now) PROVE Accepted(size, at, now)
    <2>1. PICK chosen \in AvailableTimes(now) \union Preselected(now) :
             at \in (IF CanBook(size, chosen) THEN {chosen} ELSE Suggest(size, chosen, now))
      BY <1>1 DEF Offered
    <2>2. chosen \in Nat
      BY <1>t DEF AvailableTimes, Preselected
    <2>3. at \in Int /\ Available(size, at)
      BY <2>1, <2>2, DeskAssumption DEF CanBook, Suggest
    <2> QED BY <1>1, <1>f, <1>t, <2>3
  <1>2. ASSUME NEW at \in Times \ Offered(size, now), ~(at <= now + Lead)
        PROVE  ~Accepted(size, at, now)
    <2>1. at > now + Lead
      BY <1>2, <1>t, DeskAssumption
    <2>2. at \in AvailableTimes(now)
      BY <2>1 DEF AvailableTimes
    <2>3. ~CanBook(size, at)
      BY <2>2 DEF Offered
    <2> QED BY <2>3 DEF CanBook, Available, Accepted, Asked
  <1> QED BY <1>1, <1>2

\* A moment lies in its day.
LEMMA WithinItsDay ==
    ASSUME NEW x \in Nat
    PROVE  /\ Day(x) \in Int
           /\ DayLength * Day(x) <= x /\ x <= DayLength * (Day(x) + 1)
  <1>1. DayLength \in Nat \ {0}
    BY DeskAssumption
  <1>2. PICK d \in Int : d = x \div DayLength
    BY <1>1
  <1>3. DayLength * d <= x /\ x < DayLength * d + DayLength
    BY <1>1, <1>2
  <1>4. DayLength * (d + 1) = DayLength * d + DayLength
    BY <1>1
  <1>5. DayLength * d \in Int
    BY <1>1
  <1>6. DayLength * d <= x /\ x <= DayLength * (d + 1)
    BY <1>1, <1>3, <1>4, <1>5
  <1> QED BY <1>2, <1>6 DEF Day

LEMMA ListHolds == TypeOK => ListStands
  <1> SUFFICES ASSUME TypeOK PROVE ListStands
    OBVIOUS
  <1>1. ASSUME NEW b \in Bookings, booking[b].status # "NONE"
        PROVE  /\ \A next \in ActionsOf(b) : <<booking[b].status, next>> \in ALLOWED_TRANSITIONS
               /\ \A t \in TablesFor(b) : AssignmentStands(b, t)
               /\ Active(b) => ActionsOf(b) # {}
               /\ (booking[b].status = "CONFIRMED" /\ \E t \in Tables : AssignmentStands(b, t))
                     => "SEATED" \in ActionsOf(b) \/ TablesFor(b) # {}
    <2>0. PICK s \in Statuses : s = booking[b].status
      BY <1>1 DEF TypeOK, Row
    <2>1. /\ s = "PENDING" => NEXT_ACTIONS[s] = {"CONFIRMED", "CANCELLED"}
          /\ s = "CONFIRMED" => NEXT_ACTIONS[s] = {"SEATED", "NO_SHOW", "CANCELLED"}
          /\ s = "SEATED" => NEXT_ACTIONS[s] = {"COMPLETED"}
          /\ s \notin ACTIVE_STATUSES => NEXT_ACTIONS[s] = {}
      BY DEF NEXT_ACTIONS, ACTIVE_STATUSES
    <2>2. \A next \in NEXT_ACTIONS[s] : <<s, next>> \in ALLOWED_TRANSITIONS
      BY <2>1 DEF ALLOWED_TRANSITIONS, ACTIVE_STATUSES
    <2>3. \A next \in ActionsOf(b) : <<booking[b].status, next>> \in ALLOWED_TRANSITIONS
      BY <2>0, <2>2 DEF ActionsOf
    <2>4. \A t \in TablesFor(b) : AssignmentStands(b, t)
      BY DEF TablesFor, AssignmentStands
    <2>5. Active(b) => ActionsOf(b) # {}
      <3>1. s = "PENDING" => "CONFIRMED" \in ActionsOf(b)
        BY <2>0, <2>1 DEF ActionsOf
      <3>2. s = "CONFIRMED" => "CANCELLED" \in ActionsOf(b)
        BY <2>0, <2>1 DEF ActionsOf
      <3>3. s = "SEATED" => "COMPLETED" \in ActionsOf(b)
        BY <2>0, <2>1 DEF ActionsOf
      <3> QED BY <2>0, <3>1, <3>2, <3>3 DEF Active, ACTIVE_STATUSES
    <2>6. ASSUME s = "CONFIRMED", NEW t \in Tables, AssignmentStands(b, t)
          PROVE  "SEATED" \in ActionsOf(b) \/ TablesFor(b) # {}
      <3>1. CASE booking[b].table # NoTable
        BY <2>0, <2>1, <2>6, <3>1 DEF ActionsOf
      <3>2. CASE booking[b].table = NoTable
        <4>1. t \in TablesFor(b)
          BY <2>0, <2>6, <3>2 DEF TablesFor, AssignmentStands
        <4> QED BY <4>1
      <3> QED BY <3>1, <3>2
    <2> QED BY <2>0, <2>3, <2>4, <2>5, <2>6
  <1>2. ASSUME NEW now \in Times, NEW b \in Bookings, Active(b),
               Day(booking[b].claim.at) = Day(now)
        PROVE  b \in Listed(now) \/ Cardinality(Matching(now)) > PageLimit
    <2>1. booking[b].claim.at \in Nat
      BY TimesAssumption DEF TypeOK, Row, Claim
    <2>2. b \in Matching(now)
      BY <1>2, <2>1, WithinItsDay DEF Matching, Active, ACTIVE_STATUSES
    <2>3. IsFiniteSet(Matching(now))
      BY BookingsAssumption, FS_Subset DEF Matching
    <2> DEFINE others == { c \in Matching(now) \ {b} :
                             booking[c].claim.at <= booking[b].claim.at }
    <2>4. Cardinality(Matching(now) \ {b}) = Cardinality(Matching(now)) - 1
          /\ IsFiniteSet(Matching(now) \ {b})
      BY <2>2, <2>3, FS_RemoveElement
    <2>5. IsFiniteSet(others) /\ Cardinality(others) <= Cardinality(Matching(now) \ {b})
      BY <2>4, FS_Subset
    <2>6. Cardinality(others) \in Nat /\ Cardinality(Matching(now)) \in Nat
      BY <2>3, <2>5, FS_CardinalityType
    <2>7. PICK n \in Nat : n = Cardinality(Matching(now))
      BY <2>6
    <2>8. PICK m \in Nat : m = Cardinality(others)
      BY <2>6
    <2>9. m <= n - 1
      BY <2>4, <2>5, <2>7, <2>8
    <2>10. m < PageLimit \/ n > PageLimit
      BY <2>9, DeskAssumption
    <2>11. m < PageLimit => b \in Listed(now)
      BY <2>2, <2>8 DEF Listed
    <2> QED BY <2>7, <2>10, <2>11
  <1> QED BY <1>1, <1>2 DEF ListStands

\* What the booking form and the list of bookings offer is what the endpoints accept, for
\* every book, every house and every page length (Reserve.tsx, AdminReservations.tsx).
THEOREM DeskKeepsItsWord == Spec => []OffersStand
  <1>1. TypeOK => OffersStand
    BY FormHolds, ListHolds DEF OffersStand
  <1> QED BY <1>1, TypeCorrect, PTL
=============================================================================
