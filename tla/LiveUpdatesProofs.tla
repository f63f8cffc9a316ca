-------------------------- MODULE LiveUpdatesProofs ---------------------------
(***************************************************************************)
(* Proofs about live updates, for any number of screens, changes and       *)
(* faults.  NoSilentStaleness says what a screen that shows something is    *)
(* owed.  A load that has read the order but not yet been shown is owed the *)
(* same, or showing it would leave the screen behind: that is what makes    *)
(* the invariant inductive (LoadsCaught).  NeverGoesBack needs that a       *)
(* screen has one load at a time and that no load is older than what the    *)
(* screen shows (InOrder).                                                  *)
(***************************************************************************)
EXTENDS LiveUpdates, TLAPS

\* The changes a screen will hear of, or has an excuse for not hearing of.
Known(s) == Untold \union wire[s] \union missed[s]

\* A screen that has the order as of version r knows of every later change.
Caught(s, r) == \A v \in 1..version : v > r => v \in Known(s)

LoadsCaught(s) == \A l \in loads[s] : l.read # Unread => Caught(s, l.read)

ShownCaught(s) ==
    shown[s] # Nothing =>
        \A v \in 1..version : v > shown[s] =>
            v \in Known(s) \/ \E l \in loads[s] : l.read = Unread \/ l.read >= v

\* Nobody has read the future, there is one load at a time, and it is no older than what
\* the screen shows.
InOrder(s) ==
    /\ shown[s] # Nothing => shown[s] <= version
    /\ \A l \in loads[s] : l.read # Unread => l.read <= version
    /\ \A l, m \in loads[s] : l = m
    /\ \A l \in loads[s] : l.read # Unread /\ shown[s] # Nothing => l.read >= shown[s]

Settled(s) == LoadsCaught(s) /\ ShownCaught(s) /\ InOrder(s)

IInv == TypeOK /\ \A s \in Screens : Settled(s)

-----------------------------------------------------------------------------
(* Types *)

LEMMA Bounds ==
    ASSUME TypeOK
    PROVE  /\ MaxVersion \in Nat /\ version \in Nat /\ version <= MaxVersion
           /\ Versions \subseteq Nat /\ Unread \notin Nat /\ Nothing \notin Nat
           /\ version \in Versions \union {0}
           /\ 1..version \subseteq Versions
           /\ Untold \subseteq Versions
  <1>1. MaxVersion \in Nat /\ version \in 0..MaxVersion /\ outbox \subseteq Event
    BY BoundsAssumption DEF TypeOK
  <1>2. Untold \subseteq Versions
    BY <1>1 DEF Untold, Event
  <1> QED BY <1>1, <1>2, MarksAssumption DEF Versions

LEMMA LoadFields ==
    ASSUME TypeOK, NEW s \in Screens, NEW l \in loads[s]
    PROVE  /\ l \in Load /\ l.tries \in 0..2
           /\ l.read = Unread \/ (l.read \in Nat /\ l.read <= MaxVersion)
  <1>1. l \in Load
    BY DEF TypeOK
  <1>2. l.read \in Versions \union {0, Unread} /\ l.tries \in 0..2
    BY <1>1 DEF Load
  <1> QED BY <1>1, <1>2, Bounds DEF Versions

LEMMA LoadsMade ==
    /\ Fresh \in Load /\ Fresh.read = Unread
    /\ \A n \in 0..2 : [read |-> Unread, tries |-> n] \in Load
  BY DEF Fresh, Load

LEMMA InitType == Init => TypeOK
  <1> SUFFICES ASSUME Init PROVE TypeOK
    OBVIOUS
  <1>1. 0 \in 0..MaxVersion /\ 0 \in 0..MaxFaults
    BY BoundsAssumption
  <1> QED BY <1>1 DEF Init, TypeOK

LEMMA FaultType ==
    ASSUME TypeOK, Fault
    PROVE  faults' \in 0..MaxFaults
  BY BoundsAssumption DEF TypeOK, Fault

LEMMA MissesType ==
    ASSUME TypeOK, NEW s \in Screens, NEW V \in SUBSET Versions
    PROVE  /\ Misses(s, V) \in [Screens -> SUBSET Versions]
           /\ Misses(s, V)[s] = missed[s] \union V
           /\ \A t \in Screens \ {s} : Misses(s, V)[t] = missed[t]
  BY DEF TypeOK, Misses

LEMMA CommitType ==
    ASSUME TypeOK, NEW to \in SUBSET Screens, Commit(to)
    PROVE  TypeOK'
  <1>1. version + 1 \in Versions /\ version' \in 0..MaxVersion
    BY Bounds DEF Commit, Versions
  <1>2. outbox' \subseteq Event
    BY <1>1 DEF Commit, Event, TypeOK
  <1> QED BY <1>1, <1>2 DEF Commit, socket, query, TypeOK

LEMMA EmitType ==
    ASSUME TypeOK, NEW e \in outbox, Emit(e)
    PROVE  TypeOK'
  <1>1. e.of \in Versions
    BY DEF TypeOK, Event
  <1>2. wire' \in [Screens -> SUBSET Versions] /\ missed' \in [Screens -> SUBSET Versions]
    BY <1>1 DEF Emit, TypeOK
  <1> QED BY <1>2 DEF Emit, query, TypeOK

LEMMA CrashType ==
    ASSUME TypeOK, Crash
    PROVE  TypeOK'
  <1>1. missed' \in [Screens -> SUBSET Versions]
    BY Bounds DEF Crash, TypeOK
  <1>2. link' \in [Screens -> {"up", "down", "refused"}]
    BY DEF Crash, TypeOK
  <1> QED BY <1>1, <1>2, FaultType DEF Crash, query, TypeOK

LEMMA SocketType ==
    ASSUME TypeOK, NEW s \in Screens, SocketStep(s)
    PROVE  TypeOK'
  <1>1. CASE Resume(s)
    BY <1>1 DEF Resume, query, TypeOK
  <1>2. CASE Handshake(s)
    <2>1. missed' \in [Screens -> SUBSET Versions]
      BY <1>2, MissesType DEF Handshake, TypeOK
    <2>2. link' \in [Screens -> {"up", "down", "refused"}]
      BY <1>2 DEF Handshake, TypeOK
    <2>3. asking' \in [Screens -> BOOLEAN]
      BY <1>2 DEF Handshake, TypeOK
    <2>4. room' \in [Screens -> BOOLEAN]
      BY <1>2 DEF Handshake, TypeOK
    <2> QED BY <1>2, <2>1, <2>2, <2>3, <2>4 DEF Handshake, query, TypeOK
  <1>3. CASE Subscribe(s)
    BY <1>3 DEF Subscribe, query, TypeOK
  <1>4. CASE Drop(s)
    BY <1>4, FaultType DEF Drop, query, TypeOK
  <1>5. CASE TokenExpires(s)
    BY <1>5 DEF TokenExpires, query, TypeOK
  <1> QED BY <1>1, <1>2, <1>3, <1>4, <1>5 DEF SocketStep

LEMMA PageType ==
    ASSUME TypeOK, NEW s \in Screens, PageStep(s)
    PROVE  TypeOK'
  <1>1. ASSUME Mount(s), faults' \in 0..MaxFaults PROVE TypeOK'
    <2>1. missed' \in [Screens -> SUBSET Versions]
      BY <1>1, MissesType DEF Mount, TypeOK
    <2>2. loads' \in [Screens -> SUBSET Load]
      BY <1>1, LoadsMade DEF Mount, TypeOK
    <2> QED BY <1>1, <2>1, <2>2 DEF Mount, TypeOK
  <1>2. CASE Open(s)
    BY <1>1, <1>2 DEF Open, TypeOK
  <1>3. CASE Reload(s)
    BY <1>1, <1>3, FaultType DEF Reload
  <1>4. CASE Hide(s)
    BY <1>4 DEF Hide, socket, query, TypeOK
  <1>5. CASE Unhide(s)
    BY <1>5 DEF Unhide, socket, query, TypeOK
  <1> QED BY <1>2, <1>3, <1>4, <1>5 DEF PageStep

LEMMA QueryType ==
    ASSUME TypeOK, NEW s \in Screens, QueryStep(s)
    PROVE  TypeOK'
  <1>1. CASE Poll(s)
    BY <1>1, LoadsMade DEF Poll, socket, TypeOK
  <1>2. ASSUME NEW v \in Versions, Hear(s, v) PROVE TypeOK'
    <2>1. loads' \in [Screens -> SUBSET Load]
      BY <1>2, LoadsMade DEF Hear, Invalidate, TypeOK
    <2>2. missed' \in [Screens -> SUBSET Versions]
      BY <1>2, MissesType DEF Hear, TypeOK
    <2> QED BY <1>2, <2>1, <2>2 DEF Hear, TypeOK
  <1>3. ASSUME NEW l \in loads[s], Read(s, l) PROVE TypeOK'
    <2>1. [l EXCEPT !.read = version] \in Load
      BY Bounds, LoadFields DEF Load
    <2> QED BY <1>3, <2>1 DEF Read, socket, TypeOK
  <1>4. ASSUME NEW l \in loads[s], Show(s, l) PROVE TypeOK'
    <2>1. l.read \in 0..MaxVersion
      BY <1>4, Bounds, LoadFields DEF Show
    <2> QED BY <1>4, <2>1 DEF Show, socket, TypeOK
  <1>5. ASSUME NEW l \in loads[s], Retry(s, l) PROVE TypeOK'
    <2>1. l.tries + 1 \in 0..2
      BY <1>5, LoadFields DEF Retry
    <2>2. [read |-> Unread, tries |-> l.tries + 1] \in Load
      BY <2>1, LoadsMade
    <2> QED BY <1>5, <2>2, FaultType DEF Retry, socket, TypeOK
  <1>6. ASSUME NEW l \in loads[s], GiveUp(s, l) PROVE TypeOK'
    <2>1. missed' \in [Screens -> SUBSET Versions]
      BY <1>6, Bounds, MissesType DEF GiveUp
    <2> QED BY <1>6, <2>1, FaultType DEF GiveUp, socket, TypeOK
  <1> QED BY <1>1, <1>2, <1>3, <1>4, <1>5, <1>6 DEF QueryStep

LEMMA StepType == TypeOK /\ [Next]_vars => TypeOK'
  <1> SUFFICES ASSUME TypeOK, [Next]_vars PROVE TypeOK'
    OBVIOUS
  <1>1. CASE Place \/ ChangeOrder \/ SettleOrderPayment
    <2>1. Staff \in SUBSET Screens /\ {} \in SUBSET Screens /\ Screens \in SUBSET Screens
      BY DEF Screens
    <2> QED BY <1>1, <2>1, CommitType DEF Place, ChangeOrder, SettleOrderPayment
  <1>2. CASE UNCHANGED vars
    BY <1>2 DEF vars, socket, query, TypeOK
  <1> QED BY <1>1, <1>2, EmitType, CrashType, SocketType, QueryType, PageType DEF Next

\* TypeCorrect: the order, the events and every screen keep their types.
THEOREM TypeCorrect == Spec => []TypeOK
  BY InitType, StepType, PTL DEF Spec

-----------------------------------------------------------------------------
(* What a step does to one screen *)

\* The screen has one load, which has read nothing yet: it will learn of everything.
LEMMA FreshSettles ==
    ASSUME NEW s \in Screens, NEW l, l.read = Unread, loads'[s] = {l},
           shown'[s] # Nothing => shown'[s] <= version'
    PROVE  Settled(s)'
  BY DEF Settled, LoadsCaught, ShownCaught, InOrder

\* The screen neither loads nor shows anything else, and what happened is accounted for.
LEMMA StaysSettled ==
    ASSUME TypeOK, TypeOK', NEW s \in Screens, Settled(s),
           loads'[s] = loads[s], shown'[s] = shown[s],
           Known(s) \subseteq Known(s)',
           \/ version' = version
           \/ version' = version + 1 /\ version' \in Known(s)'
    PROVE  Settled(s)'
  <1>1. version \in Nat /\ version' \in Nat /\ version' >= version
    BY Bounds
  <1>2. \A v \in 1..version' : v \in 1..version \/ v \in Known(s)'
    BY <1>1
  <1>3. LoadsCaught(s)'
    BY <1>2 DEF Settled, LoadsCaught, Caught
  <1>4. ShownCaught(s)'
    BY <1>2 DEF Settled, ShownCaught
  <1>5. shown[s] = Nothing \/ shown[s] \in Nat
    BY DEF TypeOK
  <1>6. InOrder(s)'
    BY <1>1, <1>5, LoadFields DEF Settled, InOrder
  <1> QED BY <1>3, <1>4, <1>6 DEF Settled

\* An action of one screen leaves the others alone.
Alone(s) ==
    /\ version' = version /\ outbox' = outbox
    /\ \A t \in Screens \ {s} :
          /\ loads'[t] = loads[t] /\ shown'[t] = shown[t]
          /\ wire'[t] = wire[t] /\ missed'[t] = missed[t]

LEMMA OthersSettled ==
    ASSUME IInv, TypeOK', NEW s \in Screens, Alone(s), Settled(s)'
    PROVE  IInv'
  <1>1. ASSUME NEW t \in Screens \ {s} PROVE Settled(t)'
    BY <1>1, StaysSettled DEF IInv, Alone, Known, Untold
  <1> QED BY <1>1 DEF IInv

LEMMA CommitKeeps ==
    ASSUME IInv, TypeOK', NEW to, Commit(to)
    PROVE  IInv'
  <1>1. TypeOK /\ version \in Nat
    BY Bounds DEF IInv
  <1>2. Untold' = Untold \union {version'}
    <2> DEFINE e == [of |-> version + 1, to |-> to]
    <2>1. outbox' = outbox \union {e} /\ version' = version + 1
      BY DEF Commit
    <2>2. e.of = version + 1
      OBVIOUS
    <2> HIDE DEF e
    <2> QED BY <2>1, <2>2 DEF Untold
  <1>3. ASSUME NEW s \in Screens PROVE Settled(s)'
    BY <1>1, <1>2, StaysSettled DEF Commit, socket, query, Known, IInv
  <1> QED BY <1>3 DEF IInv

\* An event that leaves the outbox is on the wire to a screen, or missed by it.
LEMMA EmitKeeps ==
    ASSUME IInv, TypeOK', NEW e \in outbox, Emit(e)
    PROVE  IInv'
  <1>1. \A v \in Untold : v \in Untold' \/ v = e.of
    BY DEF Emit, Untold
  <1>2. ASSUME NEW s \in Screens
        PROVE  /\ wire[s] \subseteq wire'[s] /\ missed[s] \subseteq missed'[s]
               /\ e.of \in wire'[s] \union missed'[s]
    BY DEF Emit
  <1>3. ASSUME NEW s \in Screens PROVE Settled(s)'
    <2>1. Known(s) \subseteq Known(s)'
      BY <1>1, <1>2 DEF Known
    <2> QED BY <2>1, StaysSettled DEF Emit, query, IInv
  <1> QED BY <1>3 DEF IInv

LEMMA CrashKeeps ==
    ASSUME IInv, TypeOK', Crash
    PROVE  IInv'
  <1>1. ASSUME NEW s \in Screens PROVE Settled(s)'
    <2>1. Known(s) \subseteq Known(s)'
      BY DEF Crash, Known
    <2> QED BY <2>1, StaysSettled DEF Crash, query, IInv
  <1> QED BY <1>1 DEF IInv

\* Whatever a socket loses with its session is missed.
LEMMA SocketKeeps ==
    ASSUME IInv, TypeOK', NEW s \in Screens, SocketStep(s)
    PROVE  IInv'
  <1>1. TypeOK
    BY DEF IInv
  <1>2. CASE Handshake(s)
    <2>1. /\ missed'[s] = missed[s] \union wire[s]
          /\ \A t \in Screens \ {s} : missed'[t] = missed[t] /\ wire'[t] = wire[t]
      BY <1>1, <1>2, MissesType DEF Handshake, TypeOK
    <2>2. Alone(s) /\ loads'[s] = loads[s] /\ shown'[s] = shown[s]
      BY <1>2, <2>1 DEF Handshake, query, Alone
    <2>3. Known(s) \subseteq Known(s)'
      BY <2>1, <2>2 DEF Known, Alone, Untold
    <2>4. Settled(s)'
      BY <1>1, <2>2, <2>3, StaysSettled DEF Alone, IInv
    <2> QED BY <2>2, <2>4, OthersSettled
  <1>3. CASE Resume(s) \/ Subscribe(s) \/ Drop(s) \/ TokenExpires(s)
    <2>1. UNCHANGED <<version, outbox, wire, query, missed>>
      BY <1>3 DEF Resume, Subscribe, Drop, TokenExpires
    <2>2. ASSUME NEW t \in Screens PROVE Settled(t)'
      BY <1>1, <2>1, StaysSettled DEF query, Known, Untold, IInv
    <2> QED BY <2>2 DEF IInv
  <1> QED BY <1>2, <1>3 DEF SocketStep

LEMMA PageKeeps ==
    ASSUME IInv, TypeOK', NEW s \in Screens, PageStep(s)
    PROVE  IInv'
  <1>1. TypeOK
    BY DEF IInv
  <1>2. CASE Mount(s)
    <2>1. /\ loads'[s] = {Fresh} /\ shown'[s] = Nothing
          /\ Alone(s)
      BY <1>1, <1>2, MissesType DEF Mount, Alone, TypeOK
    <2>2. Settled(s)'
      BY <2>1, LoadsMade, FreshSettles
    <2> QED BY <2>1, <2>2, OthersSettled
  <1>3. CASE Hide(s) \/ Unhide(s)
    <2>1. UNCHANGED <<version, outbox, socket, query, missed>>
      BY <1>3 DEF Hide, Unhide
    <2>2. ASSUME NEW t \in Screens PROVE Settled(t)'
      BY <1>1, <2>1, StaysSettled DEF socket, query, Known, Untold, IInv
    <2> QED BY <2>2 DEF IInv
  <1> QED BY <1>2, <1>3 DEF PageStep, Open, Reload

\* An event makes a screen load again, or leaves it with a first load that will bring the
\* change or is excused from bringing it.
LEMMA HearSettles ==
    ASSUME IInv, NEW s \in Screens, NEW v \in Versions, Hear(s, v)
    PROVE  Alone(s) /\ Settled(s)'
  <1>1. TypeOK /\ Settled(s) /\ version' = version /\ outbox' = outbox
    BY DEF IInv, Hear
  <1>2. /\ \A w \in wire[s] : w \in wire'[s] \/ w = v
        /\ missed[s] \subseteq missed'[s]
        /\ TooLate(s, v) => v \in missed'[s]
        /\ shown' = shown
    BY <1>1, MissesType DEF Hear, TypeOK
  <1>3. Alone(s)
    BY <1>1, MissesType DEF Hear, Invalidate, Alone, TypeOK
  <1>4. CASE loads[s] # {} /\ shown[s] = Nothing
    <2>1. loads'[s] = loads[s]
      BY <1>1, <1>4 DEF Hear, Invalidate, TypeOK
    <2>2. \A w \in Known(s) : w \in Known(s)' \/ (w = v /\ ~TooLate(s, v))
      BY <1>1, <1>2 DEF Known, Untold
    <2>3. \A l \in loads[s] : l.read # Unread /\ ~TooLate(s, v) => ~(v > l.read)
      BY <1>1, <1>4, Bounds, LoadFields DEF TooLate
    <2>4. LoadsCaught(s)'
      BY <1>1, <2>1, <2>2, <2>3 DEF Settled, LoadsCaught, Caught
    <2>5. ShownCaught(s)' /\ InOrder(s)'
      BY <1>1, <1>2, <1>4, <2>1 DEF Settled, ShownCaught, InOrder
    <2> QED BY <1>3, <2>4, <2>5 DEF Settled
  <1>5. CASE loads[s] = {} \/ shown[s] # Nothing
    <2>1. loads'[s] = {Fresh}
      BY <1>1, <1>5 DEF Hear, Invalidate, TypeOK
    <2> QED BY <1>1, <1>2, <1>3, <2>1, LoadsMade, FreshSettles DEF Settled, InOrder
  <1> QED BY <1>4, <1>5

\* A load that has just read the order has seen every change.
LEMMA ReadSettles ==
    ASSUME IInv, TypeOK', NEW s \in Screens, NEW l \in loads[s], Read(s, l)
    PROVE  Alone(s) /\ Settled(s)'
  <1> DEFINE m == [l EXCEPT !.read = version]
  <1>1. /\ TypeOK /\ Settled(s) /\ version' = version /\ version \in Nat
        /\ UNCHANGED <<outbox, wire, shown, missed>>
    BY Bounds DEF IInv, Read, socket
  <1>2. loads[s] = {l}
    BY <1>1 DEF Settled, InOrder
  <1>3. loads'[s] = {m} /\ \A t \in Screens \ {s} : loads'[t] = loads[t]
    BY <1>1, <1>2 DEF Read, TypeOK
  <1>4. Alone(s)
    BY <1>1, <1>3 DEF Alone
  <1>5. m.read = version /\ version # Unread
    BY <1>1, LoadFields, Bounds DEF Load
  <1> HIDE DEF m
  <1>6. LoadsCaught(s)'
    BY <1>1, <1>3, <1>5 DEF LoadsCaught, Caught
  <1>7. ShownCaught(s)'
    BY <1>1, <1>3, <1>5 DEF ShownCaught
  <1>8. InOrder(s)'
    BY <1>1, <1>3, <1>5 DEF Settled, InOrder
  <1> QED BY <1>4, <1>6, <1>7, <1>8 DEF Settled

\* Showing a load leaves the screen with what the load was owed.
LEMMA ShowSettles ==
    ASSUME IInv, NEW s \in Screens, NEW l \in loads[s], Show(s, l)
    PROVE  Alone(s) /\ Settled(s)' /\ shown'[s] = l.read
  <1>1. /\ TypeOK /\ Settled(s) /\ version' = version
        /\ UNCHANGED <<outbox, wire, missed>>
    BY DEF IInv, Show, socket
  <1>2. loads[s] = {l}
    BY <1>1 DEF Settled, InOrder
  <1>3. /\ loads'[s] = {} /\ shown'[s] = l.read /\ l.read # Unread
        /\ \A t \in Screens \ {s} : loads'[t] = loads[t] /\ shown'[t] = shown[t]
    BY <1>1, <1>2 DEF Show, TypeOK
  <1>4. Known(s)' = Known(s)
    BY <1>1 DEF Known, Untold
  <1>5. ShownCaught(s)'
    BY <1>1, <1>3, <1>4 DEF Settled, LoadsCaught, ShownCaught, Caught
  <1>6. LoadsCaught(s)' /\ InOrder(s)'
    BY <1>1, <1>3 DEF Settled, LoadsCaught, InOrder
  <1> QED BY <1>1, <1>3, <1>5, <1>6 DEF Settled, Alone

LEMMA RetrySettles ==
    ASSUME IInv, NEW s \in Screens, NEW l \in loads[s], Retry(s, l)
    PROVE  Alone(s) /\ Settled(s)'
  <1> DEFINE m == [read |-> Unread, tries |-> l.tries + 1]
  <1>1. /\ TypeOK /\ Settled(s) /\ version' = version
        /\ UNCHANGED <<outbox, wire, shown, missed>>
    BY DEF IInv, Retry, socket
  <1>2. loads[s] = {l}
    BY <1>1 DEF Settled, InOrder
  <1>3. loads'[s] = {m} /\ \A t \in Screens \ {s} : loads'[t] = loads[t]
    BY <1>1, <1>2 DEF Retry, TypeOK
  <1>4. m.read = Unread
    OBVIOUS
  <1> HIDE DEF m
  <1>5. Settled(s)'
    BY <1>1, <1>3, <1>4, FreshSettles DEF Settled, InOrder
  <1> QED BY <1>1, <1>3, <1>5 DEF Alone

\* A load that is given up excuses the screen from what nothing else will bring it.
LEMMA GiveUpSettles ==
    ASSUME IInv, NEW s \in Screens, NEW l \in loads[s], GiveUp(s, l)
    PROVE  Alone(s) /\ Settled(s)'
  <1>1. /\ TypeOK /\ Settled(s) /\ version' = version
        /\ UNCHANGED <<outbox, wire, shown>>
    BY DEF IInv, GiveUp, socket
  <1>2. loads[s] = {l}
    BY <1>1 DEF Settled, InOrder
  <1>3. loads'[s] = {} /\ \A t \in Screens \ {s} : loads'[t] = loads[t]
    BY <1>1, <1>2 DEF GiveUp, TypeOK
  <1>4. /\ missed'[s] = missed[s] \union (1..version \ (Untold \union wire[s]))
        /\ \A t \in Screens \ {s} : missed'[t] = missed[t]
    BY <1>1, Bounds, MissesType DEF GiveUp
  <1>5. \A v \in 1..version : v \in Known(s)'
    BY <1>1, <1>4 DEF Known, Untold
  <1>6. Settled(s)'
    BY <1>1, <1>3, <1>5 DEF Settled, LoadsCaught, ShownCaught, InOrder
  <1> QED BY <1>1, <1>3, <1>4, <1>6 DEF Alone

LEMMA QueryKeeps ==
    ASSUME IInv, TypeOK', NEW s \in Screens, QueryStep(s)
    PROVE  IInv'
  <1>1. CASE Poll(s)
    <2>1. /\ TypeOK /\ Settled(s) /\ version' = version
          /\ UNCHANGED <<outbox, wire, shown, missed>>
      BY <1>1 DEF IInv, Poll, socket
    <2>2. loads'[s] = {Fresh} /\ \A t \in Screens \ {s} : loads'[t] = loads[t]
      BY <1>1, <2>1 DEF Poll, TypeOK
    <2>3. Settled(s)'
      BY <2>1, <2>2, LoadsMade, FreshSettles DEF Settled, InOrder
    <2> QED BY <2>1, <2>2, <2>3, OthersSettled DEF Alone
  <1>2. ASSUME NEW v \in Versions, Hear(s, v) PROVE IInv'
    BY <1>2, HearSettles, OthersSettled
  <1>3. ASSUME NEW l \in loads[s], Read(s, l) \/ Show(s, l) \/ Retry(s, l) \/ GiveUp(s, l)
        PROVE  IInv'
    BY <1>3, ReadSettles, ShowSettles, RetrySettles, GiveUpSettles, OthersSettled
  <1> QED BY <1>1, <1>2, <1>3 DEF QueryStep

LEMMA StepKeeps == IInv /\ [Next]_vars => IInv'
  <1> SUFFICES ASSUME IInv, [Next]_vars PROVE IInv'
    OBVIOUS
  <1>1. TypeOK'
    BY StepType DEF IInv
  <1>2. CASE UNCHANGED vars
    BY <1>2 DEF vars, socket, query, IInv, TypeOK, Settled, LoadsCaught, ShownCaught, InOrder,
                Caught, Known, Untold
  <1> QED BY <1>1, <1>2, CommitKeeps, EmitKeeps, CrashKeeps, SocketKeeps, QueryKeeps, PageKeeps
         DEF Next, Place, ChangeOrder, SettleOrderPayment

\* What every screen is owed, and its load, at every moment.
THEOREM Inductive == Spec => []IInv
  <1>1. Init => IInv
    BY InitType DEF Init, IInv, Settled, LoadsCaught, ShownCaught, InOrder
  <1> QED BY <1>1, StepKeeps, PTL DEF Spec

\* A screen that is behind a change it was to be told of is about to catch up: the event is
\* still to be emitted or handled, or a load will bring the change (emit after the commit,
\* useLiveOrders' invalidations).
THEOREM NoScreenIsForgotten == Spec => []NoSilentStaleness
  <1>1. IInv => NoSilentStaleness
    BY DEF IInv, Settled, ShownCaught, Known, NoSilentStaleness
  <1> QED BY <1>1, Inductive, PTL

\* What a screen shows is never replaced by an older reading of the order, whatever order
\* events and answers come in (the load in flight is dropped by the next one).
THEOREM ScreensMoveForward == Spec => NeverGoesBack
  <1> DEFINE Forward == \A s \in Screens : shown[s] # Nothing /\ shown'[s] # Nothing =>
                                             shown'[s] >= shown[s]
  <1>1. IInv /\ [Next]_vars => [Forward]_vars
    <2> SUFFICES ASSUME IInv, Next PROVE Forward
      OBVIOUS
    <2>1. \A s \in Screens : shown[s] # Nothing => shown[s] \in Nat
      BY DEF IInv, TypeOK
    <2>2. CASE shown' = shown
      BY <2>1, <2>2
    <2>3. ASSUME NEW s \in Screens, Mount(s) PROVE Forward
      BY <2>1, <2>3 DEF Mount, IInv, TypeOK
    <2>4. ASSUME NEW s \in Screens, NEW l \in loads[s], Show(s, l) PROVE Forward
      <3>1. l.read # Unread /\ shown'[s] = l.read
        BY <2>4, ShowSettles DEF Show
      <3>2. shown[s] # Nothing => shown'[s] >= shown[s]
        BY <3>1 DEF IInv, Settled, InOrder
      <3>3. \A t \in Screens \ {s} : shown'[t] = shown[t]
        BY <2>4, ShowSettles DEF Alone
      <3> QED BY <2>1, <3>2, <3>3
    <2>5. \/ shown' = shown
          \/ \E s \in Screens : Mount(s) \/ \E l \in loads[s] : Show(s, l)
      BY DEF Next, Place, ChangeOrder, SettleOrderPayment, Commit, Crash, Emit, SocketStep,
             QueryStep, PageStep, Resume, Handshake, Subscribe, Drop, TokenExpires, Poll, Hear,
             Read, Retry, GiveUp, Open, Reload, Hide, Unhide, query
    <2> QED BY <2>2, <2>3, <2>4, <2>5
  <1>2. Spec => [][Forward]_vars
    BY <1>1, Inductive, PTL DEF Spec
  <1> QED BY <1>2 DEF NeverGoesBack
=============================================================================
