------------------------------ MODULE Registry -------------------------------
(***************************************************************************)
(* The rows the back office keeps and the files they point at: dishes in   *)
(* categories (food.service, category.service), accounts in roles          *)
(* (user.service, role.service), orders at tables and the tables' QR codes *)
(* (table.service).                                                        *)
(*                                                                         *)
(* Every handler here checks first and writes afterwards, in statements of *)
(* its own: a request is a step that reads and decides, a step that writes *)
(* what it decided, and for a picture a step that removes the old file.    *)
(* Foreign keys are checked by the database when a row is written; a       *)
(* soft-deleted row still satisfies them.                                  *)
(*                                                                         *)
(* The areas share no rows.  A behaviour is about one of them.             *)
(***************************************************************************)
EXTENDS Integers, FiniteSets

CONSTANTS
    Categories, Foods,
    Roles, Users, Keys, SuperAdmin,       \* Keys: permissions a role may be given
    Tables, Orders,
    Handlers,
    MaxFiles,                             \* bound: files ever written
    None,                                 \* a null reference
    Keep                                  \* a field a patch does not carry

ASSUME RegistryAssumption ==
    /\ SuperAdmin \in Roles /\ MaxFiles \in Nat
    /\ IsFiniteSet(Users)
    /\ None \notin Categories \union Tables

VARIABLES
    area,       \* what the requests of this behaviour are about
    category,   \* Category rows
    food,       \* Food rows
    role,       \* Role rows with their RolePermission rows
    user,       \* User rows
    table,      \* Table rows
    order,      \* Order.tableId
    disk, made, \* files in the upload directory; how many were ever written
    request,    \* what each handler is doing
    raced,      \* history: rows two overlapping requests were about
    patched     \* history: a super administrator was changed by PATCH /users/:id

vars == <<area, category, food, role, user, table, order, disk, made, request, raced, patched>>
menuRows   == <<category, food>>
peopleRows == <<role, user, patched>>
floorRows  == <<table, order>>
files      == <<disk, made>>

\* A stored file and, for a QR image, the token it encodes.
NoFile   == [name |-> 0, token |-> 0]
File     == {NoFile} \union [name: 1 .. MaxFiles, token: 0 .. MaxFiles]

FoodRow  == [state: {"none", "live", "deleted"}, category: Categories \union {None}, picture: File]
RoleRow  == [exists: BOOLEAN, granted: SUBSET Keys]
UserRow  == [state: {"none", "live", "deleted"}, isActive: BOOLEAN, role: Roles]
TableRow == [exists: BOOLEAN, token: 0 .. MaxFiles, picture: File]

\* Bodies of PATCH /foods/:id, as far as a category and a picture go.
Patches  == [category: Categories \union {Keep}, picture: BOOLEAN]

Idle == [op |-> "none"]
IsIdle(h) == request[h] = Idle
At(h, op) == request[h].op = op
Finish(h) == request' = [request EXCEPT ![h] = Idle]
Begin(h, req)    == IsIdle(h) /\ request' = [request EXCEPT ![h] = req]
Continue(h, req) == request' = [request EXCEPT ![h] = req]

\* A file with a fresh random name appears in the upload directory.
Store(token) == /\ made < MaxFiles
                /\ made' = made + 1
                /\ disk' = disk \union {made + 1}
NewFile(token) == [name |-> made + 1, token |-> token]

LiveFoods(c)   == { f \in Foods : food[f].state = "live" /\ food[f].category = c }
Administrators == { u \in Users : /\ user[u].state = "live" /\ user[u].isActive
                                  /\ user[u].role = SuperAdmin }

Init ==
    /\ area \in {"menu", "people", "floor"}
    /\ \E c \in Categories : category = [d \in Categories |-> IF d = c THEN "live" ELSE "none"]
    /\ food = [f \in Foods |-> [state |-> "none", category |-> None, picture |-> NoFile]]
    /\ role = [r \in Roles |-> [exists |-> TRUE, granted |-> {}]]
    /\ \E u \in Users : user = [v \in Users |->
           [state |-> IF v = u THEN "live" ELSE "none", isActive |-> TRUE, role |-> SuperAdmin]]
    /\ table = [t \in Tables |-> [exists |-> FALSE, token |-> 0, picture |-> NoFile]]
    /\ order = [o \in Orders |-> [placed |-> FALSE, table |-> None]]
    /\ disk = {} /\ made = 0
    /\ request = [h \in Handlers |-> Idle]
    /\ raced = {} /\ patched = FALSE

-----------------------------------------------------------------------------
(* Dishes and categories *)

createCategory(c) ==
    /\ category[c] = "none"
    /\ category' = [category EXCEPT ![c] = "live"]
    /\ UNCHANGED <<food, request, files>>

\* (mutant) the dishes of the category are not counted
CountNothing(h, c) ==
    /\ category[c] = "live"
    /\ Begin(h, [op |-> "deleteCategory", c |-> c])
    /\ UNCHANGED <<menuRows, files>>

\* deleteCategory refuses while a dish is left in it.
CountFoods(h, c) ==
    /\ category[c] = "live"
    /\ LiveFoods(c) = {}
    /\ Begin(h, [op |-> "deleteCategory", c |-> c])
    /\ UNCHANGED <<menuRows, files>>

deleteCategory(h) ==
    /\ At(h, "deleteCategory")
    /\ category' = [category EXCEPT ![request[h].c] = "deleted"]
    /\ Finish(h)
    /\ UNCHANGED <<food, files>>

\* createFood: the upload is on disk before the handler runs; the category is checked.
CheckNewFood(h, f, c, withPicture) ==
    /\ food[f].state = "none"
    /\ \A k \in Handlers : At(k, "createFood") => request[k].f # f
    /\ category[c] = "live"
    /\ Begin(h, [ op |-> "createFood", f |-> f, row |->
           [ state |-> "live", category |-> c,
             picture |-> IF withPicture THEN NewFile(0) ELSE NoFile ] ])
    /\ IF withPicture THEN Store(0) ELSE UNCHANGED files
    /\ UNCHANGED menuRows

createFood(h) ==
    /\ At(h, "createFood")
    /\ food' = [food EXCEPT ![request[h].f] = request[h].row]
    /\ Finish(h)
    /\ UNCHANGED <<category, files>>

\* updateFood looks for the dish and for the category the body names.
CheckFoodPatch(h, f, patch) ==
    /\ food[f].state = "live"
    /\ patch.category # Keep => category[patch.category] = "live"
    /\ Begin(h, [ op |-> "updateFood", f |-> f, patch |-> patch, old |-> food[f].picture,
                  new |-> IF patch.picture THEN NewFile(0) ELSE NoFile ])
    /\ IF patch.picture THEN Store(0) ELSE UNCHANGED files
    /\ UNCHANGED menuRows

\* The columns an update writes over the row as it is then.
Written(row, r) ==
    [row EXCEPT !.category = IF r.patch.category = Keep THEN @ ELSE r.patch.category,
                !.picture = IF r.patch.picture THEN r.new ELSE @]

\* An update by id: it does not look again whether the dish was deleted.
updateFood(h) ==
    /\ At(h, "updateFood")
    /\ LET r == request[h]
       IN  /\ food' = [food EXCEPT ![r.f] = Written(@, r)]
           /\ IF r.patch.picture /\ r.old # NoFile
              THEN Continue(h, [op |-> "remove", file |-> r.old]) ELSE Finish(h)
    /\ UNCHANGED <<category, files>>

\* The picture stays: past orders still show it.
deleteFood(f) ==
    /\ food[f].state = "live"
    /\ food' = [food EXCEPT ![f].state = "deleted"]
    /\ UNCHANGED <<category, request, files>>

\* storage.remove, after the row no longer names the file.  A missing file is no error.
remove(h) ==
    /\ At(h, "remove")
    /\ disk' = disk \ {request[h].file.name}
    /\ Finish(h)
    /\ UNCHANGED made

Menu ==
    /\ area = "menu"
    /\ \/ \E c \in Categories : createCategory(c)
       \/ \E f \in Foods : deleteFood(f)
       \/ \E h \in Handlers :
             \/ \E c \in Categories : CountFoods(h, c)
             \/ \E f \in Foods, c \in Categories, picture \in BOOLEAN : CheckNewFood(h, f, c, picture)
             \/ \E f \in Foods, patch \in Patches : CheckFoodPatch(h, f, patch)
             \/ deleteCategory(h) \/ createFood(h) \/ updateFood(h)
             \/ remove(h) /\ UNCHANGED menuRows
    /\ UNCHANGED <<peopleRows, floorRows>>

-----------------------------------------------------------------------------
(* Accounts and roles.  A route asks for a permission in the caller's token: *)
(* whoever holds it may be of any role, and the token may be out of date.   *)

\* createUser, after assertRoleExists.
CheckNewUser(h, u, r) ==
    /\ user[u].state = "none" /\ role[r].exists
    /\ Begin(h, [op |-> "createUser", u |-> u, role |-> r])
    /\ UNCHANGED peopleRows

createUser(h) ==
    /\ At(h, "createUser")
    /\ user[request[h].u].state = "none"    \* the unique email
    /\ role[request[h].role].exists         \* the foreign key
    /\ user' = [user EXCEPT ![request[h].u] =
                   [state |-> "live", isActive |-> TRUE, role |-> request[h].role]]
    /\ Finish(h)
    /\ UNCHANGED <<role, patched>>

CheckUserPatch(h, u, r, isActive) ==
    /\ user[u].state = "live" /\ role[r].exists
    /\ Begin(h, [op |-> "updateUser", u |-> u, role |-> r, isActive |-> isActive])
    /\ UNCHANGED peopleRows

\* updateUser counts nobody: it may demote or switch off a super administrator.
updateUser(h) ==
    /\ At(h, "updateUser")
    /\ role[request[h].role].exists
    /\ LET r == request[h]
       IN  /\ user' = [user EXCEPT ![r.u].role = r.role, ![r.u].isActive = r.isActive]
           /\ patched' = \/ patched
                         \/ r.u \in Administrators /\ ~(r.role = SuperAdmin /\ r.isActive)
    /\ Finish(h)
    /\ UNCHANGED role

\* Somebody with an account, of whatever role, theirs still or not.
IsAccount(actor) == user[actor].state # "none"

\* (mutant) the super administrators are not counted
CountNobody(h, u, actor) ==
    /\ IsAccount(actor) /\ actor # u /\ user[u].state = "live"
    /\ Begin(h, [op |-> "deactivate", u |-> u])
    /\ UNCHANGED peopleRows

\* deactivateUser: never oneself, never the last super administrator.
CountAdministrators(h, u, actor) ==
    /\ IsAccount(actor) /\ actor # u /\ user[u].state = "live"
    /\ user[u].role = SuperAdmin => Cardinality(Administrators) > 1
    /\ Begin(h, [op |-> "deactivate", u |-> u])
    /\ UNCHANGED peopleRows

deactivateUser(h) ==
    /\ At(h, "deactivate")
    /\ user' = [user EXCEPT ![request[h].u].state = "deleted", ![request[h].u].isActive = FALSE]
    /\ Finish(h)
    /\ UNCHANGED <<role, patched>>

\* deleteRole: not a built-in one, and nobody has it, deactivated accounts included.
CountUsers(h, r) ==
    /\ role[r].exists /\ r # SuperAdmin
    /\ \A u \in Users : user[u].state = "none" \/ user[u].role # r
    /\ Begin(h, [op |-> "deleteRole", r |-> r])
    /\ UNCHANGED peopleRows

deleteRole(h) ==
    /\ At(h, "deleteRole")
    /\ \A u \in Users : user[u].state = "none" \/ user[u].role # request[h].r   \* Restrict
    /\ role' = [role EXCEPT ![request[h].r] = [exists |-> FALSE, granted |-> {}]]
    /\ Finish(h)
    /\ UNCHANGED <<user, patched>>

\* setRolePermissions: in one transaction every row seen is deleted ...
ClearPermissions(h, r, keys) ==
    /\ role[r].exists /\ r # SuperAdmin
    /\ Begin(h, [op |-> "setPermissions", r |-> r, keys |-> keys, unseen |-> {}])
    /\ UNCHANGED peopleRows

\* ... and the new ones inserted beside those that were committed since it began to
\* delete, which its snapshot did not show.
GrantPermissions(h) ==
    /\ At(h, "setPermissions")
    /\ LET r    == request[h].r
           keys == request[h].keys
       IN  /\ role[r].exists
           /\ role' = [role EXCEPT ![r].granted = keys \union request[h].unseen]
           /\ request' = [ k \in Handlers |->
                 IF k = h THEN Idle
                 ELSE IF At(k, "setPermissions") /\ request[k].r = r
                 THEN [request[k] EXCEPT !.unseen = @ \union keys] ELSE request[k] ]
    /\ UNCHANGED <<user, patched>>

People ==
    /\ area = "people"
    /\ \E h \in Handlers :
          \/ \E u \in Users, r \in Roles :
                \/ CheckNewUser(h, u, r)
                \/ \E isActive \in BOOLEAN : CheckUserPatch(h, u, r, isActive)
          \/ \E u, actor \in Users : CountAdministrators(h, u, actor)
          \/ \E r \in Roles : CountUsers(h, r) \/ \E keys \in SUBSET Keys : ClearPermissions(h, r, keys)
          \/ createUser(h) \/ updateUser(h) \/ deactivateUser(h)
          \/ deleteRole(h) \/ GrantPermissions(h)
    /\ UNCHANGED <<menuRows, floorRows, files>>

-----------------------------------------------------------------------------
(* Tables, their codes and the orders taken at them *)

\* createTable, rotateQrToken and regenerateQrImage render the code first: for a
\* token of its own, or for the token the row had when it was read.
RenderCode(h, t, op) ==
    /\ table[t].exists = (op # "createTable")
    /\ LET token == IF op = "regenerate" THEN table[t].token ELSE made + 1
       IN  /\ Begin(h, [op |-> op, t |-> t, token |-> token, new |-> NewFile(token),
                        old |-> table[t].picture])
           /\ Store(token)
    /\ UNCHANGED floorRows

createTable(h) ==
    /\ At(h, "createTable")
    /\ LET r == request[h]
       IN  /\ ~table[r.t].exists        \* the unique table number
           /\ table' = [table EXCEPT ![r.t] =
                           [exists |-> TRUE, token |-> r.token, picture |-> r.new]]
    /\ Finish(h)
    /\ UNCHANGED <<order, files>>

\* (mutant) the file removed is the one the updated row names
ReplaceCodeDroppingNew(h) ==
    /\ request[h].op \in {"rotate", "regenerate"}
    /\ LET r == request[h]
       IN  /\ table[r.t].exists
           /\ table' = [table EXCEPT ![r.t].picture = r.new,
                                     ![r.t].token = IF r.op = "rotate" THEN r.token ELSE @]
           /\ Continue(h, [op |-> "remove", file |-> r.new])
    /\ UNCHANGED <<order, files>>

\* Only a rotation writes the token; both write the image, and then drop the old one.
ReplaceCode(h) ==
    /\ request[h].op \in {"rotate", "regenerate"}
    /\ LET r == request[h]
       IN  /\ table[r.t].exists
           /\ table' = [table EXCEPT ![r.t].picture = r.new,
                                     ![r.t].token = IF r.op = "rotate" THEN r.token ELSE @]
           /\ Continue(h, [op |-> "remove", file |-> r.old])
    /\ UNCHANGED <<order, files>>

\* deleteTable refuses while an order was ever taken at it.
CountOrders(h, t) ==
    /\ table[t].exists
    /\ \A o \in Orders : order[o].table # t
    /\ Begin(h, [op |-> "deleteTable", t |-> t, old |-> table[t].picture])
    /\ UNCHANGED <<floorRows, files>>

\* The row goes; Order.tableId is set to null where it pointed at it.
deleteTable(h) ==
    /\ At(h, "deleteTable")
    /\ LET t == request[h].t
       IN  /\ table[t].exists
           /\ table' = [table EXCEPT ![t].exists = FALSE]
           /\ order' = [o \in Orders |-> IF order[o].table = t
                                         THEN [order[o] EXCEPT !.table = None] ELSE order[o]]
    /\ Continue(h, [op |-> "remove", file |-> request[h].old])
    /\ UNCHANGED files

\* A guest orders at a table: it is found by its code, then the order is written.
FindTable(h, o, t) ==
    /\ ~order[o].placed /\ table[t].exists
    /\ \A k \in Handlers : At(k, "place") => request[k].o # o
    /\ Begin(h, [op |-> "place", o |-> o, t |-> t])
    /\ UNCHANGED <<floorRows, files>>

placeOrder(h) ==
    /\ At(h, "place")
    /\ table[request[h].t].exists           \* the foreign key
    /\ order' = [order EXCEPT ![request[h].o] = [placed |-> TRUE, table |-> request[h].t]]
    /\ Finish(h)
    /\ UNCHANGED <<table, files>>

Floor ==
    /\ area = "floor"
    /\ \E h \in Handlers :
          \/ \E t \in Tables :
                \/ \E op \in {"createTable", "rotate", "regenerate"} : RenderCode(h, t, op)
                \/ CountOrders(h, t)
                \/ \E o \in Orders : FindTable(h, o, t)
          \/ createTable(h) \/ ReplaceCode(h) \/ deleteTable(h) \/ placeOrder(h)
          \/ remove(h) /\ UNCHANGED floorRows
    /\ UNCHANGED <<menuRows, peopleRows>>

-----------------------------------------------------------------------------
\* A request ends where it is: a check or a key fails, the server stops.
Abort ==
    /\ \E h \in Handlers : ~IsIdle(h) /\ Finish(h)
    /\ UNCHANGED <<menuRows, peopleRows, floorRows, files>>

\* What a request depends on and what it means to change.
Reads(r) ==
    CASE r.op = "createFood" -> {r.row.category}
      [] r.op = "updateFood" -> {r.patch.category} \ {Keep}
      [] r.op = "place"      -> {r.t}
      [] OTHER               -> {}
Writes(r) ==
    CASE r.op \in {"createFood", "updateFood"}                  -> {r.f}
      [] r.op = "deleteCategory"                                -> {r.c}
      [] r.op = "deactivate"                                    -> {SuperAdmin}
      [] r.op = "setPermissions"                                -> {r.r}
      [] r.op \in {"rotate", "regenerate", "deleteTable"}       -> {r.t}
      [] r.op = "place"                                         -> {r.o}
      [] OTHER                                                  -> {}
About(r) == Reads(r) \union Writes(r)

\* Requests that are in flight together, one of which writes what the other is about.
Meet(h, k) == h # k /\ Writes(request[h]) \intersect About(request[k]) # {}
Met(h, k)  == IF Meet(h, k) THEN About(request[h]) \union About(request[k]) ELSE {}
Remember   == raced' = raced \union UNION { Met(h, k)' : h, k \in Handlers }

Next == (Menu \/ People \/ Floor \/ Abort) /\ Remember /\ UNCHANGED area

Spec == Init /\ [][Next]_vars

-----------------------------------------------------------------------------
TypeOK ==
    /\ category \in [Categories -> {"none", "live", "deleted"}]
    /\ food \in [Foods -> FoodRow] /\ role \in [Roles -> RoleRow]
    /\ user \in [Users -> UserRow] /\ table \in [Tables -> TableRow]
    /\ order \in [Orders -> [placed: BOOLEAN, table: Tables \union {None}]]
    /\ disk \subseteq 1 .. made /\ made \in 0 .. MaxFiles
    /\ raced \subseteq Categories \union Foods \union Roles \union Tables \union Orders

\* Nothing is orphaned: a dish on the menu is in a category that is there, an order
\* keeps its table, an account its role, a permission its role.  A dish or an order loses its parent only when
\* it was written while the parent was being deleted (deleteCategory, deleteTable count
\* first and delete afterwards); the role is held by its key, and its permissions go with it.
ReferencesResolve ==
    /\ \A f \in Foods \ raced : food[f].state = "live" => category[food[f].category] = "live"
    /\ \A o \in Orders \ raced : order[o].placed => order[o].table # None
    /\ \A u \in Users : user[u].state # "none" => role[user[u].role].exists
    /\ \A r \in Roles : role[r].granted # {} => role[r].exists

\* Someone can always administer the house, whoever deactivates whom, unless two super
\* administrators were deactivated at the same moment or one was changed by a PATCH
\* (deactivateUser, updateUser).
SomeoneAdministers == Administrators # {} \/ SuperAdmin \in raced \/ patched

\* A row never points at a picture that is gone, however uploads, rotations and deletions
\* interleave and wherever they stop; and the code of a table opens that table, unless it
\* was rendered again while its token was being rotated (updateFood, rotateQrToken).
PictureIsThere ==
    /\ \A f \in Foods : food[f].picture # NoFile => food[f].picture.name \in disk
    /\ \A t \in Tables : table[t].exists =>
           /\ table[t].picture.name \in disk
           /\ t \in raced \/ table[t].picture.token = table[t].token
=============================================================================
