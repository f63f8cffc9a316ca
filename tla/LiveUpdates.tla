---------------------------- MODULE LiveUpdates ------------------------------
(***************************************************************************)
(* How a change to one order reaches the screens that show it: the commit, *)
(* the event emitted after it (server socket/index.ts), the socket it      *)
(* travels on (client lib/socket.ts), the invalidation it causes           *)
(* (hooks/useLiveOrders.ts) and the load that reads the order again (the   *)
(* queries of TrackOrder, KitchenDisplay, StaffOrders and WaiterServe).    *)
(*                                                                         *)
(* An event carries no data into a screen, it only makes the screen load   *)
(* again, so it is modelled by the version it tells of.  A load is two     *)
(* steps: the server reads, the answer is shown.  Events are lost with the *)
(* socket and with the process; a poll repairs what they missed.           *)
(***************************************************************************)
EXTENDS Naturals, FiniteSets

CONSTANTS
    Diners, Staff,   \* screens: those that track the order, those of the restaurant
    MaxVersion,      \* bound: changes committed to the order
    MaxFaults,       \* bound: crashes, dropped sockets, failed loads and reloads
    Unread, Nothing

Screens  == Diners \union Staff
Versions == 1..MaxVersion

ASSUME ScreensAssumption == Diners \intersect Staff = {} /\ IsFiniteSet(Screens)
ASSUME BoundsAssumption  == MaxVersion \in Nat /\ MaxFaults \in Nat
ASSUME MarksAssumption   == Unread \notin Nat /\ Nothing \notin Nat

VARIABLES
    version,   \* of the order in the database; 0 while it is not placed
    outbox,    \* events a handler has still to emit: the version and who is to be told
    page,      \* each screen: closed, visible, or in a hidden tab
    link,      \* its socket: up, down and reconnecting, or refused and given up
    stale,     \* the access token in its handshake has expired
    asking,    \* its order:subscribe is on the way
    room,      \* the server keeps a session for its socket, in the rooms of the order
    wire,      \* events sent to it and not handled, or kept for its return
    loads,     \* the loads under way whose answer it will show
    shown,     \* the version on the screen
    missed,    \* history: versions no event will make it load
    faults

vars == <<version, outbox, page, link, stale, asking, room, wire, loads, shown,
          missed, faults>>
socket == <<link, stale, asking, room, wire>>
query  == <<loads, shown>>

Load  == [read: Versions \union {0, Unread}, tries: 0..2]
Event == [of: Versions, to: SUBSET Screens]

Untold       == { e.of : e \in outbox }
Misses(s, V) == [missed EXCEPT ![s] = @ \union V]
Fault        == faults < MaxFaults /\ faults' = faults + 1
Fresh        == [read |-> Unread, tries |-> 0]

Init ==
    /\ version = 0 /\ outbox = {} /\ faults = 0
    /\ page   = [s \in Screens |-> "closed"]
    /\ link   = [s \in Screens |-> "down"]
    /\ stale  = [s \in Screens |-> FALSE]
    /\ asking = [s \in Screens |-> FALSE]
    /\ room   = [s \in Screens |-> FALSE]
    /\ wire   = [s \in Screens |-> {}]
    /\ loads  = [s \in Screens |-> {}]
    /\ shown  = [s \in Screens |-> Nothing]
    /\ missed = [s \in Screens |-> {}]

-----------------------------------------------------------------------------
(* The server: a handler commits, then emits.                              *)

Commit(to) ==
    /\ version < MaxVersion
    /\ version' = version + 1
    /\ outbox' = outbox \union {[of |-> version + 1, to |-> to]}
    /\ UNCHANGED <<page, socket, query, missed, faults>>

(* A placed order is announced to the staff alone: its diner reads the reply. *)
Place == version = 0 /\ Commit(Staff)

(* Approval, status changes, cancellations, added items and payments.       *)
ChangeOrder == version > 0 /\ Commit(Screens)

(* Staff mark the order paid, refunded or unpaid: no event says so.         *)
SettleOrderPayment == version > 0 /\ Commit({})

(* The adapter sends to the sockets in the rooms and keeps the packet for a
   session whose socket is away; whoever is in no room is not told.         *)
Emit(e) ==
    LET told == { s \in e.to : room[s] }
    IN  /\ e \in outbox
        /\ outbox' = outbox \ {e}
        /\ wire' = [s \in Screens |-> wire[s] \union IF s \in told THEN {e.of} ELSE {}]
        /\ missed' = [s \in Screens |-> missed[s] \union IF s \in told THEN {} ELSE {e.of}]
        /\ UNCHANGED <<version, page, link, stale, asking, room, query, faults>>

(* The process stops: what it had still to emit and every session are gone. *)
Crash ==
    /\ Fault
    /\ outbox' = {}
    /\ missed' = [s \in Screens |-> missed[s] \union Untold \union wire[s]]
    /\ link' = [s \in Screens |-> IF link[s] = "refused" THEN "refused" ELSE "down"]
    /\ asking' = [s \in Screens |-> FALSE]
    /\ room' = [s \in Screens |-> FALSE]
    /\ wire' = [s \in Screens |-> {}]
    /\ UNCHANGED <<version, page, stale, query>>

-----------------------------------------------------------------------------
(* The socket of one screen.                                               *)

(* Within two minutes the session is resumed, with its rooms and the packets
   it missed, and the handshake is not checked again.  A diner's screen asks
   for its room on every connect.                                           *)
Resume(s) ==
    /\ link[s] = "down" /\ room[s] /\ page[s] # "closed"
    /\ link' = [link EXCEPT ![s] = "up"]
    /\ asking' = [asking EXCEPT ![s] = s \in Diners]
    /\ UNCHANGED <<version, outbox, page, stale, room, wire, query, missed, faults>>

(* Later, or after a restart, it is a new session: what the old one kept is
   lost, and a token that no longer verifies refuses the socket for good.   *)
Handshake(s) ==
    /\ link[s] = "down" /\ page[s] # "closed"
    /\ link' = [link EXCEPT ![s] = IF s \in Staff /\ stale[s] THEN "refused" ELSE "up"]
    /\ asking' = [asking EXCEPT ![s] = s \in Diners]
    /\ room' = [room EXCEPT ![s] = s \in Staff /\ ~stale[s]]
    /\ wire' = [wire EXCEPT ![s] = {}]
    /\ missed' = Misses(s, wire[s])
    /\ UNCHANGED <<version, outbox, page, stale, query, faults>>

Subscribe(s) ==
    /\ link[s] = "up" /\ asking[s]
    /\ asking' = [asking EXCEPT ![s] = FALSE]
    /\ room' = [room EXCEPT ![s] = TRUE]
    /\ UNCHANGED <<version, outbox, page, link, stale, wire, query, missed, faults>>

Drop(s) ==
    /\ Fault
    /\ link[s] = "up"
    /\ link' = [link EXCEPT ![s] = "down"]
    /\ asking' = [asking EXCEPT ![s] = FALSE]
    /\ UNCHANGED <<version, outbox, page, stale, room, wire, query, missed>>

(* The token of the handshake is the one of the moment the socket was made. *)
TokenExpires(s) ==
    /\ s \in Staff /\ page[s] # "closed" /\ ~stale[s]
    /\ stale' = [stale EXCEPT ![s] = TRUE]
    /\ UNCHANGED <<version, outbox, page, link, asking, room, wire, query, missed, faults>>

-----------------------------------------------------------------------------
(* The query of one screen.                                                *)

\* (mutant) the invalidation waits for the load in flight.
InvalidateJoins(s) == loads' = [loads EXCEPT ![s] = IF @ # {} THEN @ ELSE {Fresh}]

\* (mutant) the invalidation starts a load beside the one in flight.
InvalidateBeside(s) == loads' = [loads EXCEPT ![s] = @ \union {Fresh}]

(* Only one load is under way.  A screen that has something to show drops
   the load in flight and starts another; one that has not yet loaded waits
   for the load it has.                                                     *)
Invalidate(s) ==
    loads' = [loads EXCEPT ![s] = IF @ # {} /\ shown[s] = Nothing THEN @ ELSE {Fresh}]

(* The first load may have read the order before the change.                *)
TooLate(s, v) ==
    shown[s] = Nothing /\ \E l \in loads[s] : l.read # Unread /\ l.read < v

Hear(s, v) ==
    /\ link[s] = "up" /\ v \in wire[s]
    /\ wire' = [wire EXCEPT ![s] = @ \ {v}]
    /\ Invalidate(s)
    /\ missed' = IF TooLate(s, v) THEN Misses(s, {v}) ELSE missed
    /\ UNCHANGED <<version, outbox, page, link, stale, asking, room, shown, faults>>

\* (mutant) the interval is turned off while the socket is up.
PollOffline(s) ==
    /\ link[s] # "up" /\ page[s] = "visible" /\ loads[s] = {}
    /\ loads' = [loads EXCEPT ![s] = {Fresh}]
    /\ UNCHANGED <<version, outbox, page, socket, shown, missed, faults>>

(* The interval starts a load unless one is under way or the tab is hidden. *)
Poll(s) ==
    /\ page[s] = "visible" /\ loads[s] = {}
    /\ loads' = [loads EXCEPT ![s] = {Fresh}]
    /\ UNCHANGED <<version, outbox, page, socket, shown, missed, faults>>

(* A retry waits for the tab to be visible, a first attempt does not.       *)
Read(s, l) ==
    /\ l \in loads[s] /\ l.read = Unread
    /\ l.tries = 0 \/ page[s] = "visible"
    /\ loads' = [loads EXCEPT ![s] = (@ \ {l}) \union {[l EXCEPT !.read = version]}]
    /\ UNCHANGED <<version, outbox, page, socket, shown, missed, faults>>

Show(s, l) ==
    /\ l \in loads[s] /\ l.read # Unread
    /\ shown' = [shown EXCEPT ![s] = l.read]
    /\ loads' = [loads EXCEPT ![s] = @ \ {l}]
    /\ UNCHANGED <<version, outbox, page, socket, missed, faults>>

(* The request or its answer is lost: it is sent again, twice at most.      *)
Retry(s, l) ==
    /\ Fault
    /\ l \in loads[s] /\ l.tries < 2
    /\ loads' = [loads EXCEPT ![s] = (@ \ {l}) \union
                                     {[read |-> Unread, tries |-> l.tries + 1]}]
    /\ UNCHANGED <<version, outbox, page, socket, shown, missed>>

(* The third loss, or a 401, 403 or 404, ends the load: what it was to bring
   waits for the next event or the next poll.                               *)
GiveUp(s, l) ==
    /\ Fault
    /\ l \in loads[s]
    /\ loads' = [loads EXCEPT ![s] = @ \ {l}]
    /\ missed' = Misses(s, 1..version \ (Untold \union wire[s]))
    /\ UNCHANGED <<version, outbox, page, socket, shown>>

-----------------------------------------------------------------------------
(* The page: opened or reloaded, it starts a socket and its first load.     *)

Mount(s) ==
    /\ page' = [page EXCEPT ![s] = "visible"]
    /\ link' = [link EXCEPT ![s] = "down"]
    /\ stale' = [stale EXCEPT ![s] = FALSE]
    /\ asking' = [asking EXCEPT ![s] = FALSE]
    /\ room' = [room EXCEPT ![s] = FALSE]
    /\ wire' = [wire EXCEPT ![s] = {}]
    /\ missed' = Misses(s, wire[s])
    /\ loads' = [loads EXCEPT ![s] = {Fresh}]
    /\ shown' = [shown EXCEPT ![s] = Nothing]
    /\ UNCHANGED <<version, outbox>>

(* A diner has the tracking token once the order is placed.                 *)
Open(s) ==
    /\ page[s] = "closed"
    /\ s \in Diners => version > 0
    /\ Mount(s)
    /\ UNCHANGED faults

Reload(s) == page[s] # "closed" /\ Fault /\ Mount(s)

Hide(s) ==
    /\ page[s] = "visible"
    /\ page' = [page EXCEPT ![s] = "hidden"]
    /\ UNCHANGED <<version, outbox, socket, query, missed, faults>>

Unhide(s) ==
    /\ page[s] = "hidden"
    /\ page' = [page EXCEPT ![s] = "visible"]
    /\ UNCHANGED <<version, outbox, socket, query, missed, faults>>

SocketStep(s) == Resume(s) \/ Handshake(s) \/ Subscribe(s) \/ Drop(s) \/ TokenExpires(s)
QueryStep(s)  == \/ Poll(s)
                 \/ \E v \in Versions : Hear(s, v)
                 \/ \E l \in loads[s] : Read(s, l) \/ Show(s, l) \/ Retry(s, l) \/ GiveUp(s, l)
PageStep(s)   == Open(s) \/ Reload(s) \/ Hide(s) \/ Unhide(s)

Next ==
    \/ Place \/ ChangeOrder \/ SettleOrderPayment \/ Crash
    \/ \E e \in outbox : Emit(e)
    \/ \E s \in Screens : SocketStep(s) \/ QueryStep(s) \/ PageStep(s)

Spec == Init /\ [][Next]_vars

(* The process emits what it has to, the client reconnects, the interval
   fires, and requests are served: faults are the bounded exception.        *)
FairSpec ==
    /\ Spec
    /\ WF_vars(\E e \in outbox : Emit(e))
    /\ \A s \in Screens :
        /\ WF_vars(Resume(s) \/ Handshake(s))
        /\ WF_vars(Subscribe(s))
        /\ WF_vars(Poll(s))
        /\ WF_vars(\E v \in Versions : Hear(s, v))
        /\ WF_vars(\E l \in loads[s] : Read(s, l) \/ Show(s, l))

-----------------------------------------------------------------------------
TypeOK ==
    /\ version \in 0..MaxVersion
    /\ outbox \subseteq Event
    /\ page   \in [Screens -> {"closed", "visible", "hidden"}]
    /\ link   \in [Screens -> {"up", "down", "refused"}]
    /\ stale  \in [Screens -> BOOLEAN]
    /\ asking \in [Screens -> BOOLEAN]
    /\ room   \in [Screens -> BOOLEAN]
    /\ wire   \in [Screens -> SUBSET Versions]
    /\ loads  \in [Screens -> SUBSET Load]
    /\ shown  \in [Screens -> 0..MaxVersion \union {Nothing}]
    /\ missed \in [Screens -> SUBSET Versions]
    /\ faults \in 0..MaxFaults

(* A screen that is behind a change it was to be told of is about to catch
   up: the event is still to be emitted or handled, or a load will bring the
   change.  No order of commits, emits, loads and first loads leaves it
   behind otherwise, which is what emitting after the commit and dropping
   the load in flight are for.                                              *)
NoSilentStaleness ==
    \A s \in Screens : \A v \in 1..version :
        shown[s] # Nothing /\ v > shown[s] /\ v \notin missed[s] =>
            \/ v \in Untold
            \/ v \in wire[s]
            \/ \E l \in loads[s] : l.read = Unread \/ l.read >= v

(* What a screen shows is never replaced by an older reading of the order,
   whatever order events and answers come in.                               *)
NeverGoesBack ==
    [][\A s \in Screens : shown[s] # Nothing /\ shown'[s] # Nothing =>
                             shown'[s] >= shown[s]]_vars

(* A screen that stays visible ends up showing the order as it is, even if
   no event of the last change ever reaches it.                             *)
EventuallyShown ==
    \A s \in Screens : <>[](page[s] = "visible") => <>[](shown[s] = version)
=============================================================================
