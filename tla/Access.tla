------------------------------- MODULE Access -------------------------------
(***************************************************************************)
(* Who may do what, and how many copies of the answer there are.           *)
(*                                                                         *)
(* A member of staff holds a role, and a role holds permissions.  The      *)
(* database has them; the access token repeats them as they were when it   *)
(* was signed (routes look at nothing else); the page repeats them as they *)
(* were when it was loaded (menus, guards and buttons look at nothing      *)
(* else); and the socket sits in the rooms they gave it at its handshake.  *)
(* An administrator changes the first copy only.                           *)
(*                                                                         *)
(* The tables below say what each route needs, where each page leads and   *)
(* what it asks of the server, so that the two sides, written in different *)
(* files, can be held against each other.                                  *)
(***************************************************************************)
EXTENDS Naturals

CONSTANTS Editions,     \* the permission sets the Roles screen may save
          Moves,        \* the roles an account may be moved to
          Starters,     \* the roles accounts are created with
          MaxChanges    \* how many changes an administrator makes (a bound)

ASSUME AccessAssumption == MaxChanges \in Nat

VARIABLES role,     \* the database's: the name of the account's role and what it holds
          account,  \* "active", "suspended" (isActive) or "gone" (deletedAt)
          cookie,   \* the refresh cookie is one the server still honours
          token,    \* the access token's copy of the role, and the change it was read after
          live,     \* it has not expired
          user,     \* the page's copy
          loading,  \* the page is restoring its session
          rooms,    \* the rooms its socket is in
          now       \* changes made so far

accessVars == <<role, account, cookie, token, live, user, loading, rooms, now>>

NoCopy == [role |-> [name |-> "none", holds |-> {}], at |-> 0]

-----------------------------------------------------------------------------
(* What the routes need: any one of a set, which for most has one member.  *)

AdminRoutes ==
    [ listUsers |-> {"user:read"}, createUser |-> {"user:create"},
      updateUser |-> {"user:update"}, resetPassword |-> {"user:update"},
      deactivateUser |-> {"user:delete"},
      listRoles |-> {"role:read"}, createRole |-> {"role:create"},
      updateRole |-> {"role:update"}, deleteRole |-> {"role:delete"},
      listPermissions |-> {"permission:read"},
      setRolePermissions |-> {"permission:assign"},
      listCustomers |-> {"customer:read"}, updateCustomer |-> {"customer:update"},
      getSettings |-> {"settings:read"}, updateSettings |-> {"settings:update"},
      dashboard |-> {"dashboard:view"}, salesReport |-> {"report:view"},
      revenueBreakdown |-> {"report:view"}, topItems |-> {"report:view"},
      listAuditLogs |-> {"auditLog:read"}, exportOrders |-> {"order:export"} ]

FoodRoutes ==
    [ getFood |-> {"food:read"}, createFood |-> {"food:create"},
      updateFood |-> {"food:update"}, setAvailability |-> {"food:read"},
      setFeatured |-> {"food:update"}, deleteFood |-> {"food:delete"} ]

CategoryRoutes ==
    [ getCategory |-> {"category:read"}, createCategory |-> {"category:create"},
      updateCategory |-> {"category:update"}, deleteCategory |-> {"category:delete"} ]

TableRoutes ==
    [ qrImage |-> {"table:read"}, listTables |-> {"table:read"},
      createTable |-> {"table:create"}, updateTable |-> {"table:update"},
      setTableActive |-> {"table:update"}, rotateQr |-> {"qr:manage"},
      regenerateQr |-> {"qr:manage"}, deleteTable |-> {"table:delete"} ]

ReservationRoutes ==
    [ listReservations |-> {"reservation:read"},
      updateReservation |-> {"reservation:update"},
      setReservationStatus |-> {"reservation:update"} ]

ContentRoutes ==
    [ updateReview |-> {"review:update"}, setReviewVisibility |-> {"review:update"},
      deleteReview |-> {"review:delete"}, updateContent |-> {"content:update"} ]

OrderRoutes ==
    [ kitchenQueue |-> {"kitchen:access", "order:read"},
      listOrders |-> {"order:read"}, invoice |-> {"order:read"},
      addItems |-> {"order:create"}, updateStatus |-> {"order:updateStatus"},
      serve |-> {"order:updateStatus"}, approve |-> {"order:approve"},
      reject |-> {"order:approve"}, cancel |-> {"order:cancel"},
      updatePayment |-> {"order:updateStatus"} ]

PaymentRoutes ==
    [ cashAdvance |-> {"order:approve"}, cash |-> {"order:updateStatus"},
      refund |-> {"order:cancel"}, listPayments |-> {"report:view"} ]

Operations ==
    UNION { DOMAIN AdminRoutes, DOMAIN FoodRoutes, DOMAIN CategoryRoutes,
            DOMAIN TableRoutes, DOMAIN ReservationRoutes, DOMAIN ContentRoutes,
            DOMAIN OrderRoutes, DOMAIN PaymentRoutes }

\* the routers of the API, mounted side by side
Needs ==
    [ op \in Operations |->
        CASE op \in DOMAIN AdminRoutes -> AdminRoutes[op]
          [] op \in DOMAIN FoodRoutes -> FoodRoutes[op]
          [] op \in DOMAIN CategoryRoutes -> CategoryRoutes[op]
          [] op \in DOMAIN TableRoutes -> TableRoutes[op]
          [] op \in DOMAIN ReservationRoutes -> ReservationRoutes[op]
          [] op \in DOMAIN ContentRoutes -> ContentRoutes[op]
          [] op \in DOMAIN OrderRoutes -> OrderRoutes[op]
          [] op \in DOMAIN PaymentRoutes -> PaymentRoutes[op] ]

Permissions ==
    UNION { Needs[op] : op \in Operations } \cup {"review:read", "review:create"}

\* the roles the restaurant starts with
KitchenSeed == {"kitchen:access", "order:read", "order:updateStatus", "food:read"}

StaffSeed ==
    { "order:read", "order:create", "order:updateStatus", "order:approve", "food:read",
      "category:read", "table:read", "reservation:read", "reservation:update" }

AdminSeed ==
    Permissions \
        { "kitchen:access", "user:read", "user:create", "user:update", "user:delete",
          "role:read", "role:create", "role:update", "role:delete",
          "permission:read", "permission:assign", "auditLog:read" }

SeededRoles ==
    { [name |-> "SUPER_ADMIN", holds |-> Permissions], [name |-> "ADMIN", holds |-> AdminSeed],
      [name |-> "KITCHEN", holds |-> KitchenSeed], [name |-> "STAFF", holds |-> StaffSeed] }

\* the role that no check applies to
Bypasses(who) == who.name = "SUPER_ADMIN"

\* authorize and authorizeAny
Allows(who, op) == Bypasses(who) \/ who.holds \cap Needs[op] # {}

-----------------------------------------------------------------------------
(* What the screens do with the page's copy.                               *)

Can(who, permission) == Bypasses(who) \/ permission \in who.holds

\* the permission each route of the app is guarded by
Guard ==
    [ dashboard |-> "dashboard:view", reports |-> "report:view",
      payments |-> "report:view", menu |-> "food:read", content |-> "content:update",
      tables |-> "table:read", reservations |-> "reservation:read",
      users |-> "user:read", roles |-> "role:read", audit |-> "auditLog:read",
      settings |-> "settings:read", banking |-> "settings:read",
      kitchen |-> "order:read", orders |-> "order:read", serve |-> "order:updateStatus" ]

Pages == DOMAIN Guard

Opens(who, page) == Can(who, Guard[page])

\* the links of the staff shell: filtered as the pages are, the kitchen's apart
LinkNeeds(page) == IF page = "kitchen" THEN "kitchen:access" ELSE Guard[page]

\* a chef and a waiter see one link, whatever their role holds
NavLock == [KITCHEN |-> {"kitchen"}, STAFF |-> {"serve"}]

VisibleNav(who) ==
    IF who.name \in DOMAIN NavLock
    THEN NavLock[who.name]
    ELSE { page \in Pages : Can(who, LinkNeeds(page)) }

\* (mutant) the chef's screen by what the chef holds first, the rest in order
HomeByRank(who) ==
    IF Can(who, "order:read") THEN "orders"
    ELSE IF Can(who, "dashboard:view") THEN "dashboard" ELSE "serve"

HomeRouteFor(who) ==
    CASE who.name = "KITCHEN" -> "kitchen"
      [] who.name = "STAFF" -> "serve"
      [] who.name \notin {"KITCHEN", "STAFF"} /\ Can(who, "dashboard:view") -> "dashboard"
      [] who.name \notin {"KITCHEN", "STAFF"} /\ ~Can(who, "dashboard:view") ->
            IF Can(who, "kitchen:access") THEN "kitchen"
            ELSE IF Can(who, "order:read") THEN "orders" ELSE "serve"

\* what each page asks of the server: the route, and the permission the page
\* asks itself about first, its guard where the request is made at once or the
\* button is simply there (public reads left out)
Dashboard ==
    { <<"dashboard", "dashboard:view">>, <<"listOrders", "dashboard:view">>,
      <<"topItems", "dashboard:view">> }

ReportsPage ==
    { <<"revenueBreakdown", "report:view">>, <<"topItems", "report:view">>,
      <<"exportOrders", "order:export">> }

PaymentsPage == { <<"listPayments", "report:view">>, <<"refund", "order:cancel">> }

MenuPage ==
    { <<"createFood", "food:create">>, <<"setAvailability", "food:read">>,
      <<"setFeatured", "food:update">>, <<"updateFood", "food:update">>,
      <<"deleteFood", "food:delete">>, <<"createCategory", "category:create">>,
      <<"updateCategory", "category:update">>, <<"deleteCategory", "category:delete">> }

ContentPage ==
    { <<"updateContent", "content:update">>, <<"updateReview", "review:update">>,
      <<"setReviewVisibility", "review:update">>, <<"deleteReview", "review:delete">> }

TablesPage ==
    { <<"listTables", "table:read">>, <<"qrImage", "table:read">>,
      <<"createTable", "table:create">> }

ReservationsPage ==
    { <<"listReservations", "reservation:read">>, <<"listTables", "reservation:read">>,
      <<"setReservationStatus", "reservation:update">>,
      <<"updateReservation", "reservation:update">> }

UsersPage ==
    { <<"listUsers", "user:read">>, <<"listRoles", "user:read">>,
      <<"createUser", "user:create">>, <<"resetPassword", "user:update">>,
      <<"deactivateUser", "user:delete">> }

RolesPage ==
    { <<"listRoles", "role:read">>, <<"listPermissions", "role:read">>,
      <<"createRole", "role:create">>, <<"deleteRole", "role:delete">>,
      <<"setRolePermissions", "permission:assign">> }

AuditPage == { <<"listAuditLogs", "auditLog:read">> }

SettingsPage ==
    { <<"getSettings", "settings:read">>, <<"updateSettings", "settings:update">> }

BankingPage ==
    { <<"getSettings", "settings:read">>, <<"updateSettings", "settings:read">> }

KitchenPage == { <<"kitchenQueue", "order:read">>, <<"updateStatus", "order:read">> }

OrdersPage ==
    { <<"listOrders", "order:read">>, <<"invoice", "order:read">>,
      <<"approve", "order:approve">>, <<"reject", "order:approve">>,
      <<"cashAdvance", "order:approve">>, <<"updateStatus", "order:updateStatus">>,
      <<"updatePayment", "order:updateStatus">>, <<"cancel", "order:cancel">>,
      <<"exportOrders", "order:export">> }

ServePage ==
    { <<op, "order:updateStatus">> :
        op \in {"listOrders", "invoice", "serve", "cash", "approve", "reject", "cashAdvance"} }

Asks ==
    [ dashboard |-> Dashboard, reports |-> ReportsPage, payments |-> PaymentsPage,
      menu |-> MenuPage, content |-> ContentPage, tables |-> TablesPage,
      reservations |-> ReservationsPage, users |-> UsersPage, roles |-> RolesPage,
      audit |-> AuditPage, settings |-> SettingsPage, banking |-> BankingPage,
      kitchen |-> KitchenPage, orders |-> OrdersPage, serve |-> ServePage ]

\* everything that a page this person opens asks of the server or lets them ask
Offers(who, page) == { a[1] : a \in { a \in Asks[page] : Can(who, a[2]) } }

-----------------------------------------------------------------------------
(* The rooms of the socket, and who each event is sent to.                 *)

JoinStaffRooms(who) ==
    {"staff"}
      \cup (IF Can(who, "kitchen:access") THEN {"kitchen"} ELSE {})
      \cup (IF Can(who, "dashboard:view") THEN {"admin"} ELSE {})
      \cup (IF \/ Bypasses(who)
               \/ who.name = "STAFF"
               \/ /\ "order:updateStatus" \in who.holds
                  /\ who.holds \cap {"dashboard:view", "kitchen:access"} = {}
            THEN {"waiter"} ELSE {})

\* (mutant) the rooms the comments name: waiters for what is ready, the floor
\* and the managers for what is held
AudienceByComment ==
    [ created |-> {"staff", "kitchen", "admin"}, statusChanged |-> {"staff", "kitchen", "admin"},
      orderReady |-> {"waiter"}, needsApproval |-> {"waiter", "admin"},
      paymentChanged |-> {"staff", "admin", "waiter"}, notification |-> {"staff"} ]

Audience ==
    [ created |-> {"staff", "kitchen", "admin"}, statusChanged |-> {"staff", "kitchen", "admin"},
      orderReady |-> {"waiter", "staff"}, needsApproval |-> {"waiter", "staff", "admin"},
      paymentChanged |-> {"staff", "admin", "waiter"}, notification |-> {"staff"} ]

\* the events that somebody who has this page open is waiting for
Listens(page) ==
    {"created", "statusChanged", "needsApproval", "notification"}
      \cup (IF page = "serve" THEN {"orderReady", "paymentChanged"} ELSE {})

-----------------------------------------------------------------------------
AccessInit ==
    /\ role \in Starters
    /\ account = "active"
    /\ cookie = FALSE
    /\ token = NoCopy
    /\ live = FALSE
    /\ user = NoCopy
    /\ loading = FALSE
    /\ rooms = {}
    /\ now = 0

Copy == [role |-> role, at |-> now]

SignedIn == user # NoCopy

\* one read of the account makes the token and the page's copy; the socket is
\* opened again with the token
Login ==
    /\ ~SignedIn /\ ~loading
    /\ account = "active"
    /\ cookie' = TRUE
    /\ token' = Copy
    /\ live' = TRUE
    /\ user' = Copy
    /\ rooms' = JoinStaffRooms(role)
    /\ UNCHANGED <<role, account, loading, now>>

Logout ==
    /\ SignedIn
    /\ cookie' = FALSE
    /\ token' = NoCopy
    /\ live' = FALSE
    /\ user' = NoCopy
    /\ rooms' = {}
    /\ UNCHANGED <<role, account, loading, now>>

\* the tab is reloaded, or opened: nothing of the page survives but the cookie
Reload ==
    /\ ~loading
    /\ loading' = TRUE
    /\ token' = NoCopy
    /\ live' = FALSE
    /\ user' = NoCopy
    /\ rooms' = {}
    /\ UNCHANGED <<role, account, cookie, now>>

\* (mutant) a renewal signs what the old token said
RenewalOfTheSame(old) == IF old = NoCopy THEN Copy ELSE [old EXCEPT !.at = now]

\* refresh reads the account again
Renewal(old) == Copy

\* what the server makes of the refresh cookie
MayRefresh == cookie /\ account = "active"

RestoreToken ==
    /\ loading /\ token = NoCopy
    /\ IF MayRefresh
       THEN token' = Renewal(token) /\ live' = TRUE /\ UNCHANGED loading
       ELSE loading' = FALSE /\ UNCHANGED <<token, live>>
    /\ UNCHANGED <<role, account, cookie, user, rooms, now>>

\* the account is read once more, by a request of its own, for the page
RestoreUser ==
    /\ loading /\ token # NoCopy /\ live
    /\ loading' = FALSE
    /\ IF account # "gone"
       THEN user' = Copy /\ rooms' = JoinStaffRooms(token.role)
       ELSE UNCHANGED <<user, rooms>>
    /\ UNCHANGED <<role, account, cookie, token, live, now>>

Expire ==
    /\ live
    /\ live' = FALSE
    /\ UNCHANGED <<role, account, cookie, token, user, loading, rooms, now>>

\* a request meets the expired token, and is sent again with a new one; or the
\* page is sent to the login screen, the socket as it was
Renew ==
    /\ token # NoCopy /\ ~live
    /\ IF MayRefresh
       THEN token' = Renewal(token) /\ live' = TRUE /\ UNCHANGED <<user, loading>>
       ELSE token' = NoCopy /\ user' = NoCopy /\ loading' = FALSE /\ UNCHANGED live
    /\ UNCHANGED <<role, account, cookie, rooms, now>>

-----------------------------------------------------------------------------
(* The administrator, elsewhere.                                           *)

Changing == now < MaxChanges /\ now' = now + 1

SetRolePermissions(keys) ==
    /\ Changing
    /\ ~Bypasses(role)
    /\ role' = [role EXCEPT !.holds = keys]
    /\ UNCHANGED <<account, cookie, token, live, user, loading, rooms>>

MoveTo(other) ==
    /\ Changing
    /\ role' = other
    /\ UNCHANGED <<account, cookie, token, live, user, loading, rooms>>

Suspend ==
    /\ Changing
    /\ account = "active"
    /\ account' = "suspended"
    /\ UNCHANGED <<role, cookie, token, live, user, loading, rooms>>

Deactivate ==
    /\ Changing
    /\ account # "gone"
    /\ account' = "gone"
    /\ cookie' = FALSE
    /\ UNCHANGED <<role, token, live, user, loading, rooms>>

ResetPassword ==
    /\ Changing
    /\ cookie' = FALSE
    /\ UNCHANGED <<role, account, token, live, user, loading, rooms>>

Administrator ==
    \/ \E keys \in Editions : SetRolePermissions(keys)
    \/ \E other \in Moves : MoveTo(other)
    \/ Suspend \/ Deactivate \/ ResetPassword

AccessNext ==
    \/ Login \/ Logout \/ Reload \/ RestoreToken \/ RestoreUser \/ Expire \/ Renew
    \/ Administrator

AccessSpec == AccessInit /\ [][AccessNext]_accessVars

-----------------------------------------------------------------------------
(* Where a page asks for more than it asks itself about.                   *)

\* pages that open for somebody one of their own reads is refused to
HalfOpen ==
    { <<"dashboard", "listOrders">>, <<"dashboard", "topItems">>,
      <<"reservations", "listTables">>, <<"users", "listRoles">>,
      <<"roles", "listPermissions">>, <<"serve", "listOrders">> }

\* buttons that are shown without the permission of the route behind them
Ungated ==
    { <<"banking", "updateSettings">>, <<"kitchen", "updateStatus">>,
      <<"serve", "approve">>, <<"serve", "reject">>, <<"serve", "cashAdvance">>,
      <<"serve", "invoice">> }

\* nothing has changed since the page and its token were made
UpToDate == SignedIn /\ user.at = now /\ token.at = now

(* A page made since the last change shows nobody what they will be refused: *)
(* whatever it asks for or offers is accepted with the token it holds, or    *)
(* with the one a renewal will bring, the twelve places named above apart.   *)
OfferedIsAllowed ==
    UpToDate =>
        \A page \in Pages : Opens(user.role, page) =>
            \A op \in Offers(user.role, page) :
                \/ Allows(token.role, op)
                \/ <<page, op>> \in HalfOpen \cup Ungated

BuiltIn(who) == who \in SeededRoles

(* The four roles the restaurant starts with need none of those exceptions: *)
(* whoever signs in with one lands on a page that opens, every link they    *)
(* see leads somewhere, and everything there works.                         *)
BuiltInRolesWork ==
    (UpToDate /\ BuiltIn(user.role)) =>
        /\ HomeRouteFor(user.role) \in VisibleNav(user.role)
        /\ \A page \in VisibleNav(user.role) :
              /\ Opens(user.role, page)
              /\ \A op \in Offers(user.role, page) : Allows(token.role, op)

(* Whatever has been changed since, the socket of a tab with somebody signed *)
(* in is in a room that every event the page waits for is sent to, so that   *)
(* who is shown a held order's buttons is also told of the order.            *)
AlertsReach ==
    SignedIn =>
        \A page \in Pages : Opens(user.role, page) =>
            \A event \in Listens(page) : rooms \cap Audience[event] # {}
=============================================================================
