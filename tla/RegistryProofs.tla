--------------------------- MODULE RegistryProofs ----------------------------
(***************************************************************************)
(* Proofs about the rows of the back office and the files they point at,   *)
(* for any number of rows, requests in flight and files.                   *)
(*                                                                         *)
(* Each property is about rows; what makes it inductive is about the       *)
(* requests in flight.  A request that has checked relies on what it saw,   *)
(* and either that still holds or the two requests that disagree have met   *)
(* and what they are about is in raced (AllMet).  A picture on its way into *)
(* a row belongs to one request, and one on its way out of the disk to no   *)
(* row: that is MenuPictures and FloorPictures.                            *)
(***************************************************************************)
EXTENDS Registry, TLAPS, FiniteSetTheorems

RemoveRequest == [op: {"remove"}, file: File]
MenuRequest ==
    {Idle} \union RemoveRequest
    \union [op: {"deleteCategory"}, c: Categories]
    \union [op: {"createFood"}, f: Foods, row: { row \in FoodRow : row.category \in Categories }]
    \union [op: {"updateFood"}, f: Foods, patch: Patches, old: File, new: File]
PeopleRequest ==
    {Idle}
    \union [op: {"createUser"}, u: Users, role: Roles]
    \union [op: {"updateUser"}, u: Users, role: Roles, isActive: BOOLEAN]
    \union [op: {"deactivate"}, u: Users]
    \union [op: {"deleteRole"}, r: Roles]
    \union [op: {"setPermissions"}, r: Roles, keys: SUBSET Keys, unseen: SUBSET Keys]
Renders == {"createTable", "rotate", "regenerate"}
FloorRequest ==
    {Idle} \union RemoveRequest
    \union [op: Renders, t: Tables, token: 0 .. MaxFiles, new: File \ {NoFile}, old: File]
    \union [op: {"deleteTable"}, t: Tables, old: File]
    \union [op: {"place"}, o: Orders, t: Tables]

TypeInv ==
    /\ TypeOK /\ patched \in BOOLEAN
    /\ \/ area = "menu"   /\ request \in [Handlers -> MenuRequest]
       \/ area = "people" /\ request \in [Handlers -> PeopleRequest]
       \/ area = "floor"  /\ request \in [Handlers -> FloorRequest]

\* Two requests of which one writes what the other is about are remembered.
AllMet == \A h, k \in Handlers : Met(h, k) \subseteq raced

\* The name of the file a request is about to put into a row, and of the one it is to
\* remove once no row names it.  0 is none.
Brings(r) ==
    CASE r.op = "createFood"                             -> r.row.picture.name
      [] r.op = "updateFood"                             -> IF r.patch.picture THEN r.new.name ELSE 0
      [] r.op \in {"createTable", "rotate", "regenerate"} -> r.new.name
      [] OTHER                                           -> 0
Drops(r) ==
    CASE r.op \in {"updateFood", "rotate", "regenerate", "deleteTable"} -> r.old.name
      [] r.op = "remove"                                                -> r.file.name
      [] OTHER                                                          -> 0

\* What is brought is on the disk, by one request, and is not what any request drops.
Carried ==
    \A h \in Handlers :
        /\ Drops(request[h]) \in 0 .. made
        /\ Brings(request[h]) # 0 =>
              /\ Brings(request[h]) \in disk
              /\ \A k \in Handlers :
                    /\ Drops(request[k]) # Brings(request[h])
                    /\ Brings(request[k]) = Brings(request[h]) => k = h

-----------------------------------------------------------------------------
(* Dishes and categories *)

\* What a request has seen of the categories.
Finds(r) ==
    /\ r.op = "createFood" => r.f \in raced \/ category[r.row.category] = "live"
    /\ r.op = "updateFood" /\ r.patch.category # Keep =>
          r.f \in raced \/ category[r.patch.category] = "live"
    /\ r.op = "deleteCategory" =>
          \A f \in Foods \ raced : ~(food[f].state = "live" /\ food[f].category = r.c)
MenuReferences ==
    /\ \A f \in Foods : food[f].state = "live" => food[f].category \in Categories
    /\ \A f \in Foods \ raced : food[f].state = "live" => category[food[f].category] = "live"
    /\ \A h \in Handlers : Finds(request[h])

MenuPictures ==
    /\ Carried
    /\ \A f \in Foods : food[f].picture # NoFile => food[f].picture.name \in disk
    /\ \A f, g \in Foods : food[f].picture.name = food[g].picture.name =>
                              f = g \/ food[f].picture.name = 0
    /\ \A h \in Handlers, f \in Foods : food[f].picture.name # 0 =>
          /\ Brings(request[h]) # food[f].picture.name
          /\ Drops(request[h]) = food[f].picture.name =>
                At(h, "updateFood") /\ request[h].f = f

MenuInv   == MenuReferences /\ MenuPictures
MenuStill == \A f \in Foods : food[f].state = "none" /\ food[f].picture = NoFile

-----------------------------------------------------------------------------
(* Accounts and roles *)

PeopleReferences ==
    /\ \A u \in Users : user[u].state # "none" => role[user[u].role].exists
    /\ \A r \in Roles : role[r].granted # {} => role[r].exists
    /\ \A h \in Handlers : At(h, "deactivate") => user[request[h].u].state # "none"

\* Whoever is about to be deactivated is not the only administrator.
PeopleAdministered ==
    SuperAdmin \in raced \/ patched \/
        /\ Administrators # {}
        /\ \A h \in Handlers : At(h, "deactivate") => Administrators \ {request[h].u} # {}

PeopleInv   == PeopleReferences /\ PeopleAdministered
PeopleStill == Administrators # {} /\ \A r \in Roles : role[r].exists

-----------------------------------------------------------------------------
(* Tables and orders *)

FloorReferences ==
    /\ \A o \in Orders \ raced : order[o].placed => order[o].table # None
    /\ \A h \in Handlers : At(h, "deleteTable") =>
          \A o \in Orders \ raced : order[o].table # request[h].t

FloorPictures ==
    /\ Carried
    /\ \A t \in Tables : table[t].exists => table[t].picture.name \in disk
    /\ \A t, s \in Tables :
          table[t].exists /\ table[s].exists /\ table[t].picture.name = table[s].picture.name
          => t = s
    /\ \A h \in Handlers, t \in Tables : table[t].exists =>
          /\ Brings(request[h]) # table[t].picture.name
          /\ Drops(request[h]) = table[t].picture.name =>
                /\ request[h].op \in {"rotate", "regenerate", "deleteTable"}
                /\ request[h].t = t

FloorTokens ==
    /\ \A t \in Tables \ raced : table[t].exists => table[t].picture.token = table[t].token
    /\ \A h \in Handlers :
          /\ request[h].op \in {"createTable", "rotate", "regenerate"} =>
                request[h].new.token = request[h].token
          /\ At(h, "regenerate") =>
                \/ request[h].t \in raced
                \/ /\ table[request[h].t].exists
                   /\ table[request[h].t].token = request[h].token

FloorInv   == FloorReferences /\ FloorPictures /\ FloorTokens
FloorStill == /\ \A t \in Tables : ~table[t].exists
              /\ \A o \in Orders : ~order[o].placed

IInv ==
    /\ TypeInv /\ AllMet
    /\ IF area = "menu"   THEN MenuInv   ELSE MenuStill
    /\ IF area = "people" THEN PeopleInv ELSE PeopleStill
    /\ IF area = "floor"  THEN FloorInv  ELSE FloorStill

-----------------------------------------------------------------------------
(* What requests are about *)

\* The CASEs of Reads, Writes, Brings and Drops, one operation at a time.
LEMMA AboutOps ==
    ASSUME NEW r
    PROVE  /\ r.op = "createFood" => Writes(r) = {r.f} /\ About(r) = {r.row.category, r.f}
           /\ r.op = "updateFood" =>
                 Writes(r) = {r.f} /\ About(r) = ({r.patch.category} \ {Keep}) \union {r.f}
           /\ r.op = "deleteCategory" => Writes(r) = {r.c} /\ About(r) = {r.c}
           /\ r.op = "deactivate" => Writes(r) = {SuperAdmin} /\ About(r) = {SuperAdmin}
           /\ r.op = "setPermissions" => Writes(r) = {r.r} /\ About(r) = {r.r}
           /\ r.op \in {"rotate", "regenerate", "deleteTable"} =>
                 Writes(r) = {r.t} /\ About(r) = {r.t}
           /\ r.op = "place" => Writes(r) = {r.o} /\ About(r) = {r.t, r.o}
           /\ r.op \in {"none", "remove", "createUser", "updateUser", "deleteRole", "createTable"} =>
                 Writes(r) = {} /\ About(r) = {}
  BY DEF Reads, Writes, About

LEMMA FileOps ==
    ASSUME NEW r
    PROVE  /\ r.op = "createFood" => Brings(r) = r.row.picture.name /\ Drops(r) = 0
           /\ r.op = "updateFood" =>
                 /\ Brings(r) = IF r.patch.picture THEN r.new.name ELSE 0
                 /\ Drops(r) = r.old.name
           /\ r.op = "remove" => Brings(r) = 0 /\ Drops(r) = r.file.name
           /\ r.op = "createTable" => Brings(r) = r.new.name /\ Drops(r) = 0
           /\ r.op \in {"rotate", "regenerate"} => Brings(r) = r.new.name /\ Drops(r) = r.old.name
           /\ r.op = "deleteTable" => Brings(r) = 0 /\ Drops(r) = r.old.name
           /\ r.op \in {"none", "deleteCategory", "place"} => Brings(r) = 0 /\ Drops(r) = 0
  BY DEF Brings, Drops

LEMMA RememberMeets ==
    ASSUME Remember
    PROVE  raced \subseteq raced' /\ AllMet'
  <1>1. \A h, k \in Handlers : Met(h, k)' \subseteq raced'
    BY DEF Remember
  <1> QED BY <1>1 DEF Remember, AllMet

\* Two requests that are about one row, which one of them writes, are remembered with
\* everything they are about.
LEMMA Together ==
    ASSUME AllMet, NEW h \in Handlers, NEW k \in Handlers, h # k,
           NEW x, x \in Writes(request[h]), x \in About(request[k])
    PROVE  About(request[h]) \subseteq raced /\ About(request[k]) \subseteq raced
  <1>1. Meet(h, k)
    BY DEF Meet
  <1>2. Met(h, k) = About(request[h]) \union About(request[k])
    BY <1>1 DEF Met
  <1> QED BY <1>2 DEF AllMet

Rows == Categories \union Foods \union Roles \union Tables \union Orders

LEMMA AboutRows ==
    ASSUME NEW r \in MenuRequest \union PeopleRequest \union FloorRequest
    PROVE  About(r) \subseteq Rows
  <1>1. CASE r \in MenuRequest
    <2>1. CASE r.op = "createFood"
      <3>1. r.f \in Foods /\ r.row.category \in Categories
        BY <1>1, <2>1 DEF MenuRequest, Idle, RemoveRequest
      <3> QED BY <2>1, <3>1, AboutOps DEF Rows
    <2>2. CASE r.op = "updateFood"
      <3>1. r.f \in Foods /\ r.patch \in Patches
        BY <1>1, <2>2 DEF MenuRequest, Idle, RemoveRequest
      <3>2. r.patch.category \in Categories \union {Keep}
        BY <3>1 DEF Patches
      <3> QED BY <2>2, <3>1, <3>2, AboutOps DEF Rows
    <2>3. CASE r.op = "deleteCategory"
      <3>1. r.c \in Categories
        BY <1>1, <2>3 DEF MenuRequest, Idle, RemoveRequest
      <3> QED BY <2>3, <3>1, AboutOps DEF Rows
    <2>4. r.op \in {"none", "remove", "createFood", "updateFood", "deleteCategory"}
      BY <1>1 DEF MenuRequest, Idle, RemoveRequest
    <2> QED BY <2>1, <2>2, <2>3, <2>4, AboutOps
  <1>2. CASE r \in PeopleRequest
    <2>1. CASE r.op = "setPermissions"
      <3>1. r.r \in Roles
        BY <1>2, <2>1 DEF PeopleRequest, Idle
      <3> QED BY <2>1, <3>1, AboutOps DEF Rows
    <2>2. CASE r.op = "deactivate"
      BY <2>2, AboutOps, RegistryAssumption DEF Rows
    <2>3. r.op \in {"none", "createUser", "updateUser", "deactivate", "deleteRole", "setPermissions"}
      BY <1>2 DEF PeopleRequest, Idle
    <2> QED BY <2>1, <2>2, <2>3, AboutOps
  <1>3. CASE r \in FloorRequest
    <2>1. CASE r.op \in {"rotate", "regenerate", "deleteTable"}
      <3>1. r.t \in Tables
        BY <1>3, <2>1 DEF FloorRequest, Idle, RemoveRequest, Renders
      <3> QED BY <2>1, <3>1, AboutOps DEF Rows
    <2>2. CASE r.op = "place"
      <3>1. r.t \in Tables /\ r.o \in Orders
        BY <1>3, <2>2 DEF FloorRequest, Idle, RemoveRequest, Renders
      <3> QED BY <2>2, <3>1, AboutOps DEF Rows
    <2>3. r.op \in {"none", "remove", "createTable", "rotate", "regenerate", "deleteTable", "place"}
      BY <1>3 DEF FloorRequest, Idle, RemoveRequest, Renders
    <2> QED BY <2>1, <2>2, <2>3, AboutOps
  <1> QED BY <1>1, <1>2, <1>3

LEMMA RacedType ==
    ASSUME TypeInv, Remember,
           request' \in [Handlers -> MenuRequest] \/ request' \in [Handlers -> PeopleRequest]
              \/ request' \in [Handlers -> FloorRequest]
    PROVE  raced' \subseteq Rows
  <1>1. \A h \in Handlers : About(request'[h]) \subseteq Rows
    BY AboutRows
  <1>2. \A h, k \in Handlers : Met(h, k)' \subseteq Rows
    BY <1>1 DEF Met
  <1> QED BY <1>2 DEF Remember, TypeInv, TypeOK, Rows

-----------------------------------------------------------------------------
(* Dishes and categories, step by step *)

MenuTyped ==
    /\ category \in [Categories -> {"none", "live", "deleted"}]
    /\ food \in [Foods -> FoodRow]
    /\ disk \subseteq 1 .. made /\ made \in 0 .. MaxFiles
    /\ request \in [Handlers -> MenuRequest]
MenuState == MenuTyped /\ AllMet /\ MenuInv

LEMMA MenuKinds ==
    ASSUME MenuTyped, NEW h \in Handlers
    PROVE  LET r == request[h]
           IN  /\ r.op \in {"none", "remove", "deleteCategory", "createFood", "updateFood"}
               /\ r.op = "none" => r = Idle
               /\ r.op = "remove" => r.file \in File
               /\ r.op = "deleteCategory" => r.c \in Categories
               /\ r.op = "createFood" =>
                     r.f \in Foods /\ r.row \in FoodRow /\ r.row.category \in Categories
               /\ r.op = "updateFood" =>
                     /\ r.f \in Foods /\ r.patch \in Patches
                     /\ r.old \in File /\ r.new \in File
  <1> DEFINE r == request[h]
  <1>1. r \in MenuRequest
    BY DEF MenuTyped
  <1> HIDE DEF r
  <1> QED
    <2>1. r.op \in {"none", "remove", "deleteCategory", "createFood", "updateFood"}
      BY <1>1 DEF MenuRequest, Idle, RemoveRequest
    <2>2. r.op = "none" => r = Idle
      BY <1>1 DEF MenuRequest, Idle, RemoveRequest
    <2>3. r.op = "remove" => r.file \in File
      BY <1>1 DEF MenuRequest, Idle, RemoveRequest
    <2>4. r.op = "deleteCategory" => r.c \in Categories
      BY <1>1 DEF MenuRequest, Idle, RemoveRequest
    <2>5. r.op = "createFood" =>
              r.f \in Foods /\ r.row \in FoodRow /\ r.row.category \in Categories
      BY <1>1 DEF MenuRequest, Idle, RemoveRequest
    <2>6. r.op = "updateFood" =>
              /\ r.f \in Foods /\ r.patch \in Patches
              /\ r.old \in File /\ r.new \in File
      BY <1>1 DEF MenuRequest, Idle, RemoveRequest
    <2> QED BY <2>1, <2>2, <2>3, <2>4, <2>5, <2>6 DEF r

LEMMA PatchFields ==
    ASSUME NEW patch \in Patches
    PROVE  patch.category \in Categories \union {Keep} /\ patch.picture \in BOOLEAN
  BY DEF Patches

\* What becomes of one request leaves the others as they are.
LEMMA OneMoves ==
    ASSUME NEW S, request \in [Handlers -> S], NEW h \in Handlers, NEW req,
           request' = [request EXCEPT ![h] = req]
    PROVE  /\ request'[h] = req
           /\ \A k \in Handlers \ {h} : request'[k] = request[k]
           /\ req \in S => request' \in [Handlers -> S]
  OBVIOUS

\* No row names another file, and no request is about one it was not about.
LEMMA PicturesStay ==
    ASSUME MenuState, MenuTyped', disk' = disk, made' = made,
           \A f \in Foods : food'[f].picture = food[f].picture,
           \A h \in Handlers : \/ request'[h] = request[h]
                               \/ Brings(request'[h]) = 0 /\ Drops(request'[h]) = 0
    PROVE  MenuPictures'
  <1>1. MenuPictures /\ Carried /\ made \in Nat
    BY RegistryAssumption DEF MenuState, MenuInv, MenuPictures, MenuTyped
  <1>2. \A h \in Handlers : Brings(request'[h]) # 0 => request'[h] = request[h]
    OBVIOUS
  <1>3. \A h \in Handlers : Drops(request'[h]) # 0 => request'[h] = request[h]
    OBVIOUS
  <1>4. Carried'
    <2> SUFFICES ASSUME NEW h \in Handlers
                 PROVE  /\ Drops(request'[h]) \in 0 .. made'
                        /\ Brings(request'[h]) # 0 =>
                              /\ Brings(request'[h]) \in disk'
                              /\ \A k \in Handlers :
                                    /\ Drops(request'[k]) # Brings(request'[h])
                                    /\ Brings(request'[k]) = Brings(request'[h]) => k = h
      BY DEF Carried
    <2>1. Drops(request'[h]) \in 0 .. made'
      BY <1>1, <1>3 DEF Carried
    <2>2. ASSUME Brings(request'[h]) # 0
          PROVE  /\ Brings(request'[h]) \in disk'
                 /\ \A k \in Handlers :
                       /\ Drops(request'[k]) # Brings(request'[h])
                       /\ Brings(request'[k]) = Brings(request'[h]) => k = h
      BY <1>1, <1>2, <1>3, <2>2 DEF Carried
    <2> QED BY <2>1, <2>2
  <1>5. \A h \in Handlers, f \in Foods : food'[f].picture.name # 0 =>
          /\ Brings(request'[h]) # food'[f].picture.name
          /\ Drops(request'[h]) = food'[f].picture.name => At(h, "updateFood")' /\ request'[h].f = f
    BY <1>1, <1>2, <1>3 DEF MenuPictures, At
  <1> QED BY <1>1, <1>4, <1>5 DEF MenuPictures

\* A request begins: it stores at most one file, which is new, and will drop at most the
\* picture of the dish it is about.
LEMMA PicturesBegin ==
    ASSUME MenuState, MenuTyped', NEW h \in Handlers, food' = food,
           \A k \in Handlers \ {h} : request'[k] = request[k],
           \/ disk' = disk /\ made' = made /\ Brings(request'[h]) = 0
           \/ disk' = disk \union {made + 1} /\ made' = made + 1 /\ Brings(request'[h]) = made + 1,
           \/ Drops(request'[h]) = 0
           \/ /\ request'[h].op = "updateFood" /\ request'[h].f \in Foods
              /\ Drops(request'[h]) = food[request'[h].f].picture.name
    PROVE  MenuPictures'
  <1>1. MenuPictures /\ Carried /\ made \in Nat /\ made' \in Nat /\ disk \subseteq 1 .. made
    BY RegistryAssumption DEF MenuState, MenuInv, MenuPictures, MenuTyped
  <1>2. \A f \in Foods : food[f].picture.name \in disk \union {0}
    <2> TAKE f \in Foods
    <2>1. CASE food[f].picture = NoFile
      BY <2>1 DEF NoFile
    <2>2. CASE food[f].picture # NoFile
      BY <1>1, <2>2 DEF MenuPictures
    <2> QED BY <2>1, <2>2
  <1>3. made + 1 \notin disk /\ made + 1 # 0 /\ 0 \notin disk /\ disk \subseteq disk'
    BY <1>1
  <1>4. \A k \in Handlers \ {h} : /\ Drops(request'[k]) \in 0 .. made
                                 /\ Brings(request'[k]) \in disk \union {0}
    BY <1>1 DEF Carried
  <1>5. Drops(request'[h]) \in disk \union {0} /\ Drops(request'[h]) \in 0 .. made
    <2>1. Drops(request'[h]) \in disk \union {0}
      BY <1>2
    <2>2. \A n \in disk \union {0} : n \in 0 .. made
      BY <1>1
    <2> QED BY <2>1, <2>2
  <1>6. Carried'
    <2> SUFFICES ASSUME NEW k \in Handlers
                 PROVE  /\ Drops(request'[k]) \in 0 .. made'
                        /\ Brings(request'[k]) # 0 =>
                              /\ Brings(request'[k]) \in disk'
                              /\ \A j \in Handlers :
                                    /\ Drops(request'[j]) # Brings(request'[k])
                                    /\ Brings(request'[j]) = Brings(request'[k]) => j = k
      BY DEF Carried
    <2>1. Drops(request'[k]) \in 0 .. made'
      BY <1>1, <1>4, <1>5
    <2>2. Brings(request'[k]) \in disk' \union {0}
      BY <1>4
    <2>3. ASSUME NEW j \in Handlers, Brings(request'[k]) # 0
          PROVE  /\ Drops(request'[j]) # Brings(request'[k])
                 /\ Brings(request'[j]) = Brings(request'[k]) => j = k
      <3>1. CASE k = h
        BY <1>1, <1>3, <1>4, <1>5, <2>3, <3>1
      <3>2. CASE k # h /\ j # h
        BY <1>1, <2>3, <3>2 DEF Carried
      <3>3. CASE k # h /\ j = h
        <4>1. Brings(request'[k]) \in disk /\ Brings(request'[k]) = Brings(request[k])
          BY <1>4, <2>3, <3>3
        <4>2. Brings(request'[h]) # Brings(request'[k])
          BY <1>3, <2>3, <4>1
        <4>3. Drops(request'[h]) # Brings(request'[k])
          BY <1>1, <2>3, <3>3, <4>1 DEF MenuPictures
        <4> QED BY <3>3, <4>2, <4>3
      <3> QED BY <3>1, <3>2, <3>3
    <2> QED BY <2>1, <2>2, <2>3
  <1>7. \A k \in Handlers, f \in Foods : food[f].picture.name # 0 =>
          /\ Brings(request'[k]) # food[f].picture.name
          /\ Drops(request'[k]) = food[f].picture.name =>
                request'[k].op = "updateFood" /\ request'[k].f = f
    <2> SUFFICES ASSUME NEW k \in Handlers, NEW f \in Foods, food[f].picture.name # 0
                 PROVE  /\ Brings(request'[k]) # food[f].picture.name
                        /\ Drops(request'[k]) = food[f].picture.name =>
                              request'[k].op = "updateFood" /\ request'[k].f = f
      OBVIOUS
    <2>1. CASE k # h
      BY <1>1, <2>1 DEF MenuPictures, At
    <2>2. CASE k = h
      BY <1>1, <1>2, <1>3, <2>2 DEF MenuPictures
    <2> QED BY <2>1, <2>2
  <1>8. \A f \in Foods : food'[f].picture # NoFile => food'[f].picture.name \in disk'
    BY <1>1, <1>3 DEF MenuPictures
  <1> QED BY <1>1, <1>6, <1>7, <1>8 DEF MenuPictures, At

\* The rows stay, and every request still relies on what it saw.
LEMMA RowsStay ==
    ASSUME MenuState, category' = category, food' = food, raced \subseteq raced',
           \A k \in Handlers : \/ request'[k] = request[k]
                               \/ Finds(request[k])'
    PROVE  MenuReferences'
  <1>1. MenuReferences
    BY DEF MenuState, MenuInv
  <1>2. \A k \in Handlers : Finds(request[k])'
    BY <1>1 DEF MenuReferences, Finds
  <1> QED BY <1>1, <1>2 DEF MenuReferences

LEMMA CreateCategoryKeeps ==
    ASSUME MenuState, NEW c \in Categories, createCategory(c), raced \subseteq raced'
    PROVE  MenuTyped' /\ MenuInv'
  <1>1. MenuTyped'
    BY DEF createCategory, files, MenuState, MenuTyped
  <1>2. MenuPictures'
    BY <1>1, PicturesStay DEF createCategory, files
  <1>3. MenuReferences
    BY DEF MenuState, MenuInv
  <1>4. /\ \A d \in Categories : category[d] = "live" => category'[d] = "live"
        /\ food' = food /\ request' = request
    BY DEF createCategory, MenuState, MenuTyped
  <1>5. \A k \in Handlers : Finds(request[k])'
    <2> TAKE k \in Handlers
    <2>1. /\ request[k].op = "createFood" => request[k].row.category \in Categories
          /\ request[k].op = "updateFood" => request[k].patch.category \in Categories \union {Keep}
      BY MenuKinds, PatchFields DEF MenuState
    <2> QED BY <1>3, <1>4, <2>1 DEF MenuReferences, Finds
  <1>6. MenuReferences'
    BY <1>3, <1>4, <1>5 DEF MenuReferences
  <1> QED BY <1>1, <1>2, <1>6 DEF MenuInv

LEMMA CountFoodsKeeps ==
    ASSUME MenuState, NEW h \in Handlers, NEW c \in Categories, CountFoods(h, c),
           raced \subseteq raced'
    PROVE  MenuTyped' /\ MenuInv'
  <1> DEFINE req == [op |-> "deleteCategory", c |-> c]
  <1>1. /\ UNCHANGED <<category, food, disk, made>>
        /\ request' = [request EXCEPT ![h] = req]
    BY DEF CountFoods, Begin, menuRows, files
  <1>2. req \in MenuRequest /\ req.op = "deleteCategory" /\ req.c = c
    BY DEF MenuRequest
  <1> HIDE DEF req
  <1>3. /\ request'[h] = req /\ \A k \in Handlers \ {h} : request'[k] = request[k]
        /\ request' \in [Handlers -> MenuRequest]
    BY <1>1, <1>2, OneMoves DEF MenuState, MenuTyped
  <1>4. MenuTyped'
    BY <1>1, <1>3 DEF MenuState, MenuTyped
  <1>5. MenuPictures'
    BY <1>1, <1>2, <1>3, <1>4, PicturesStay, FileOps
  <1>6. Finds(request[h])'
    BY <1>1, <1>2, <1>3 DEF CountFoods, LiveFoods, Finds
  <1> QED BY <1>1, <1>3, <1>4, <1>5, <1>6, RowsStay DEF MenuInv

\* A category goes that some request counted empty: whatever came into it since met it.
LEMMA DeleteCategoryKeeps ==
    ASSUME MenuState, NEW h \in Handlers, deleteCategory(h), raced \subseteq raced'
    PROVE  MenuTyped' /\ MenuInv'
  <1> DEFINE c == request[h].c
  <1>1. /\ request[h].op = "deleteCategory" /\ category' = [category EXCEPT ![c] = "deleted"]
        /\ request' = [request EXCEPT ![h] = Idle]
        /\ UNCHANGED <<food, disk, made>>
    BY DEF deleteCategory, At, Finish, files
  <1>2. Idle \in MenuRequest /\ Idle.op = "none"
    BY DEF MenuRequest, Idle
  <1>3. /\ request'[h] = Idle /\ \A k \in Handlers \ {h} : request'[k] = request[k]
        /\ request' \in [Handlers -> MenuRequest]
    BY <1>1, <1>2, OneMoves DEF MenuState, MenuTyped
  <1>4. MenuTyped'
    BY <1>1, <1>3 DEF MenuState, MenuTyped
  <1>5. MenuPictures'
    BY <1>1, <1>2, <1>3, <1>4, PicturesStay, FileOps
  <1>6. MenuReferences /\ AllMet
    BY DEF MenuState, MenuInv
  <1>7. \A d \in Categories \ {c} : category'[d] = category[d]
    BY <1>1 DEF MenuState, MenuTyped
  <1>8. \A f \in Foods \ raced' : food[f].state = "live" => category'[food[f].category] = "live"
    BY <1>1, <1>6, <1>7 DEF MenuReferences, Finds
  <1>9. \A k \in Handlers : Finds(request[k])'
    <2> TAKE k \in Handlers
    <2>1. CASE k = h
      BY <1>2, <1>3, <2>1 DEF Finds
    <2>2. CASE k # h /\ request[k].op = "createFood"
      <3>1. ASSUME c = request[k].row.category PROVE request[k].f \in raced
        <4>1. c \in Writes(request[h])
          BY <1>1, AboutOps
        <4>2. c \in About(request[k]) /\ request[k].f \in About(request[k])
          BY <2>2, <3>1, AboutOps
        <4> QED BY <1>6, <2>2, <4>1, <4>2, Together
      <3>2. request[k].row.category \in Categories
        BY <2>2, MenuKinds DEF MenuState
      <3> QED BY <1>3, <1>6, <1>7, <2>2, <3>1, <3>2 DEF MenuReferences, Finds
    <2>3. CASE k # h /\ request[k].op = "updateFood"
      <3>1. ASSUME c = request[k].patch.category /\ c # Keep PROVE request[k].f \in raced
        <4>1. c \in Writes(request[h])
          BY <1>1, AboutOps
        <4>2. c \in About(request[k]) /\ request[k].f \in About(request[k])
          BY <2>3, <3>1, AboutOps
        <4> QED BY <1>6, <2>3, <4>1, <4>2, Together
      <3>2. request[k].patch.category \in Categories \union {Keep}
        BY <2>3, MenuKinds, PatchFields DEF MenuState
      <3> QED BY <1>3, <1>6, <1>7, <2>3, <3>1, <3>2 DEF MenuReferences, Finds
    <2>4. CASE k # h /\ request[k].op \notin {"createFood", "updateFood"}
      BY <1>1, <1>3, <1>6, <2>4 DEF MenuReferences, Finds
    <2> QED BY <2>1, <2>2, <2>3, <2>4
  <1>10. MenuReferences'
    BY <1>1, <1>6, <1>8, <1>9 DEF MenuReferences
  <1> QED BY <1>4, <1>5, <1>10 DEF MenuInv

LEMMA DeleteFoodKeeps ==
    ASSUME MenuState, NEW f \in Foods, deleteFood(f), raced \subseteq raced'
    PROVE  MenuTyped' /\ MenuInv'
  <1>1. /\ food' = [food EXCEPT ![f] = [food[f] EXCEPT !.state = "deleted"]]
        /\ UNCHANGED <<category, request, disk, made>>
    BY DEF deleteFood, files
  <1>2. food[f] \in FoodRow
    BY DEF MenuState, MenuTyped
  <1>3. LET row == [food[f] EXCEPT !.state = "deleted"]
        IN  /\ row \in FoodRow /\ row.state = "deleted"
            /\ row.category = food[f].category /\ row.picture = food[f].picture
    BY <1>2 DEF FoodRow
  <1>4. /\ food' \in [Foods -> FoodRow]
        /\ \A g \in Foods : /\ food'[g].state \in {food[g].state, "deleted"}
                            /\ food'[g].category = food[g].category
                            /\ food'[g].picture = food[g].picture
    BY <1>1, <1>3 DEF MenuState, MenuTyped
  <1>5. MenuTyped'
    BY <1>1, <1>4 DEF MenuState, MenuTyped
  <1>6. MenuPictures'
    BY <1>1, <1>4, <1>5, PicturesStay
  <1>7. MenuReferences
    BY DEF MenuState, MenuInv
  <1>8. MenuReferences'
    BY <1>1, <1>4, <1>7 DEF MenuReferences, Finds
  <1> QED BY <1>5, <1>6, <1>8 DEF MenuInv

LEMMA CheckNewFoodKeeps ==
    ASSUME MenuState, NEW h \in Handlers, NEW f \in Foods, NEW c \in Categories,
           NEW withPicture \in BOOLEAN, CheckNewFood(h, f, c, withPicture), raced \subseteq raced'
    PROVE  MenuTyped' /\ MenuInv'
  <1> DEFINE picture == IF withPicture THEN NewFile(0) ELSE NoFile
             row == [state |-> "live", category |-> c, picture |-> picture]
             req == [op |-> "createFood", f |-> f, row |-> row]
  <1>1. /\ UNCHANGED <<category, food>> /\ category[c] = "live"
        /\ request' = [request EXCEPT ![h] = req]
    BY DEF CheckNewFood, Begin, menuRows
  <1>2. \/ picture = NoFile /\ disk' = disk /\ made' = made
        \/ /\ picture = NewFile(0) /\ made < MaxFiles
           /\ disk' = disk \union {made + 1} /\ made' = made + 1
    BY DEF CheckNewFood, Store, files
  <1>3. made \in Nat /\ MaxFiles \in Nat /\ made <= MaxFiles /\ disk \subseteq 1 .. made
    BY RegistryAssumption DEF MenuState, MenuTyped
  <1>4. /\ picture \in File /\ disk' \subseteq 1 .. made' /\ made' \in 0 .. MaxFiles
        /\ \/ picture.name = 0 /\ disk' = disk /\ made' = made
           \/ /\ picture.name = made + 1
              /\ disk' = disk \union {made + 1} /\ made' = made + 1
    <2>1. CASE picture = NoFile /\ disk' = disk /\ made' = made
      BY <1>3, <2>1 DEF NoFile, File
    <2>2. CASE /\ picture = NewFile(0) /\ made < MaxFiles
               /\ disk' = disk \union {made + 1} /\ made' = made + 1
      BY <1>3, <2>2 DEF NewFile, File, NoFile
    <2> QED BY <1>2, <2>1, <2>2
  <1> HIDE DEF picture
  <1>5. row \in FoodRow /\ row.category = c
    BY <1>4 DEF FoodRow
  <1>6. row.picture.name = picture.name
    OBVIOUS
  <1> HIDE DEF row
  <1>7. req \in MenuRequest /\ req.op = "createFood" /\ req.f = f /\ req.row = row
    BY <1>5 DEF MenuRequest
  <1> HIDE DEF req
  <1>8. /\ request'[h] = req /\ \A k \in Handlers \ {h} : request'[k] = request[k]
        /\ request' \in [Handlers -> MenuRequest]
    BY <1>1, <1>7, OneMoves DEF MenuState, MenuTyped
  <1>9. MenuTyped'
    BY <1>1, <1>4, <1>8 DEF MenuState, MenuTyped
  <1>10. Brings(request'[h]) = picture.name /\ Drops(request'[h]) = 0
    BY <1>6, <1>7, <1>8, FileOps
  <1>11. MenuPictures'
    BY <1>1, <1>4, <1>8, <1>9, <1>10, PicturesBegin
  <1>12. Finds(request[h])'
    BY <1>1, <1>5, <1>7, <1>8 DEF Finds
  <1> QED BY <1>1, <1>8, <1>9, <1>11, <1>12, RowsStay DEF MenuInv

LEMMA CheckFoodPatchKeeps ==
    ASSUME MenuState, NEW h \in Handlers, NEW f \in Foods, NEW patch \in Patches,
           CheckFoodPatch(h, f, patch), raced \subseteq raced'
    PROVE  MenuTyped' /\ MenuInv'
  <1> DEFINE new == IF patch.picture THEN NewFile(0) ELSE NoFile
             req == [ op |-> "updateFood", f |-> f, patch |-> patch,
                      old |-> food[f].picture, new |-> new ]
  <1>1. /\ UNCHANGED <<category, food>>
        /\ patch.category # Keep => category[patch.category] = "live"
        /\ request' = [request EXCEPT ![h] = req]
    BY DEF CheckFoodPatch, Begin, menuRows
  <1>2. \/ ~patch.picture /\ new = NoFile /\ disk' = disk /\ made' = made
        \/ /\ patch.picture /\ new = NewFile(0) /\ made < MaxFiles
           /\ disk' = disk \union {made + 1} /\ made' = made + 1
    BY DEF CheckFoodPatch, Store, files
  <1>3. made \in Nat /\ MaxFiles \in Nat /\ made <= MaxFiles /\ disk \subseteq 1 .. made
    BY RegistryAssumption DEF MenuState, MenuTyped
  <1>4. /\ new \in File /\ disk' \subseteq 1 .. made' /\ made' \in 0 .. MaxFiles
        /\ \/ ~patch.picture /\ disk' = disk /\ made' = made
           \/ /\ patch.picture /\ new.name = made + 1
              /\ disk' = disk \union {made + 1} /\ made' = made + 1
    <2>1. CASE ~patch.picture /\ new = NoFile /\ disk' = disk /\ made' = made
      BY <1>3, <2>1 DEF NoFile, File
    <2>2. CASE /\ patch.picture /\ new = NewFile(0) /\ made < MaxFiles
               /\ disk' = disk \union {made + 1} /\ made' = made + 1
      BY <1>3, <2>2 DEF NewFile, File, NoFile
    <2> QED BY <1>2, <2>1, <2>2
  <1> HIDE DEF new
  <1>5. food[f] \in FoodRow
    BY DEF MenuState, MenuTyped
  <1>6. food[f].picture \in File
    BY <1>5 DEF FoodRow
  <1>10. /\ req \in MenuRequest /\ req.op = "updateFood" /\ req.f = f /\ req.patch = patch
         /\ req.old = food[f].picture /\ req.new = new
    BY <1>4, <1>6 DEF MenuRequest
  <1> HIDE DEF req
  <1>11. /\ request'[h] = req /\ \A k \in Handlers \ {h} : request'[k] = request[k]
         /\ request' \in [Handlers -> MenuRequest]
    BY <1>1, <1>10, OneMoves DEF MenuState, MenuTyped
  <1>12. MenuTyped'
    BY <1>1, <1>4, <1>11 DEF MenuState, MenuTyped
  <1>13. /\ Brings(request'[h]) = IF patch.picture THEN new.name ELSE 0
         /\ Drops(request'[h]) = food[f].picture.name
    BY <1>10, <1>11, FileOps
  <1>14. MenuPictures'
    BY <1>1, <1>4, <1>10, <1>11, <1>12, <1>13, PicturesBegin
  <1>15. Finds(request[h])'
    BY <1>1, <1>10, <1>11 DEF Finds
  <1> QED BY <1>1, <1>11, <1>12, <1>14, <1>15, RowsStay DEF MenuInv

LEMMA FileNames ==
    ASSUME NEW file \in File
    PROVE  file.name \in 0 .. MaxFiles /\ file.token \in 0 .. MaxFiles
           /\ (file # NoFile => file.name # 0) /\ NoFile.name = 0
  BY RegistryAssumption DEF File, NoFile

\* A picture moves from the request that brought it into the row; the one it replaces
\* stays with the request, which is to drop it.
LEMMA PicturesMove ==
    ASSUME MenuState, MenuTyped', disk' = disk, made' = made,
           NEW h \in Handlers, NEW f \in Foods,
           \A k \in Handlers \ {h} : request'[k] = request[k],
           \A g \in Foods \ {f} : food'[g].picture = food[g].picture,
           food'[f].picture.name = Brings(request[h]),
           Brings(request'[h]) = 0,
           \/ Drops(request'[h]) = 0
           \/ /\ Drops(request'[h]) = Drops(request[h])
              /\ request[h].op = "updateFood" /\ request[h].f = f
    PROVE  MenuPictures'
  <1> DEFINE n == Brings(request[h])
  <1>1. MenuPictures /\ Carried /\ made \in Nat
    BY RegistryAssumption DEF MenuState, MenuInv, MenuPictures, MenuTyped
  <1>2. /\ n # 0 => n \in disk
        /\ \A k \in Handlers : n # 0 => Drops(request[k]) # n
        /\ \A k \in Handlers \ {h} : n # 0 => Brings(request[k]) # n
        /\ \A g \in Foods : n # 0 => food[g].picture.name # n
    BY <1>1 DEF Carried, MenuPictures
  <1>3. Carried'
    BY <1>1 DEF Carried
  <1>4. \A g \in Foods : food'[g].picture # NoFile => food'[g].picture.name \in disk
    <2>1. food'[f].picture \in File
      BY DEF MenuTyped, FoodRow
    <2> QED BY <1>1, <1>2, <2>1, FileNames DEF MenuPictures
  <1>5. \A g, e \in Foods : food'[g].picture.name = food'[e].picture.name =>
                                 g = e \/ food'[g].picture.name = 0
    BY <1>1, <1>2 DEF MenuPictures
  <1>6. \A k \in Handlers, g \in Foods : food'[g].picture.name # 0 =>
          /\ Brings(request'[k]) # food'[g].picture.name
          /\ Drops(request'[k]) = food'[g].picture.name =>
                request'[k].op = "updateFood" /\ request'[k].f = g
    <2> SUFFICES ASSUME NEW k \in Handlers, NEW g \in Foods, food'[g].picture.name # 0
                 PROVE  /\ Brings(request'[k]) # food'[g].picture.name
                        /\ Drops(request'[k]) = food'[g].picture.name =>
                              request'[k].op = "updateFood" /\ request'[k].f = g
      OBVIOUS
    <2>1. CASE k = h /\ g = f
      BY <1>2, <2>1
    <2>2. CASE k = h /\ g # f
      BY <1>1, <1>2, <2>2 DEF MenuPictures
    <2>3. CASE k # h /\ g = f
      BY <1>2, <2>3
    <2>4. CASE k # h /\ g # f
      BY <1>1, <2>4 DEF MenuPictures, At
    <2> QED BY <2>1, <2>2, <2>3, <2>4
  <1> QED BY <1>3, <1>4, <1>5, <1>6 DEF MenuPictures, At

LEMMA CreateFoodKeeps ==
    ASSUME MenuState, NEW h \in Handlers, createFood(h), raced \subseteq raced'
    PROVE  MenuTyped' /\ MenuInv'
  <1> DEFINE f == request[h].f
             row == request[h].row
  <1>1. /\ request[h].op = "createFood" /\ food' = [food EXCEPT ![f] = row]
        /\ request' = [request EXCEPT ![h] = Idle]
        /\ UNCHANGED <<category, disk, made>>
    BY DEF createFood, At, Finish, files
  <1>2. f \in Foods /\ row \in FoodRow /\ row.category \in Categories
    BY <1>1, MenuKinds DEF MenuState
  <1>3. Idle \in MenuRequest /\ Idle.op = "none"
    BY DEF MenuRequest, Idle
  <1>4. /\ request'[h] = Idle /\ \A k \in Handlers \ {h} : request'[k] = request[k]
        /\ request' \in [Handlers -> MenuRequest]
    BY <1>1, <1>3, OneMoves DEF MenuState, MenuTyped
  <1>5. food' \in [Foods -> FoodRow] /\ food'[f] = row /\ \A g \in Foods \ {f} : food'[g] = food[g]
    BY <1>1, <1>2 DEF MenuState, MenuTyped
  <1>6. MenuTyped'
    BY <1>1, <1>4, <1>5 DEF MenuState, MenuTyped
  <1>7. MenuPictures'
    BY <1>1, <1>2, <1>3, <1>4, <1>5, <1>6, PicturesMove, FileOps
  <1>8. MenuReferences /\ AllMet
    BY DEF MenuState, MenuInv
  <1>9. \A k \in Handlers : Finds(request[k])'
    <2> TAKE k \in Handlers
    <2>1. CASE k = h
      BY <1>3, <1>4, <2>1 DEF Finds
    <2>2. CASE k # h /\ request[k].op = "deleteCategory"
      <3>1. ASSUME row.category = request[k].c PROVE f \in raced
        <4>1. row.category \in Writes(request[k])
          BY <2>2, <3>1, AboutOps
        <4>2. row.category \in About(request[h]) /\ f \in About(request[h])
          BY <1>1, AboutOps
        <4> QED BY <1>8, <2>2, <4>1, <4>2, Together
      <3> QED BY <1>4, <1>5, <1>8, <2>2, <3>1 DEF MenuReferences, Finds
    <2>3. CASE k # h /\ request[k].op # "deleteCategory"
      BY <1>1, <1>4, <1>8, <2>3 DEF MenuReferences, Finds
    <2> QED BY <2>1, <2>2, <2>3
  <1>10. MenuReferences'
    BY <1>1, <1>2, <1>5, <1>8, <1>9 DEF MenuReferences, Finds
  <1> QED BY <1>6, <1>7, <1>10 DEF MenuInv

LEMMA WrittenRow ==
    ASSUME NEW row \in FoodRow, NEW r, r.patch \in Patches, r.new \in File
    PROVE  LET new == Written(row, r)
           IN  /\ new \in FoodRow /\ new.state = row.state
               /\ new.category = IF r.patch.category = Keep THEN row.category ELSE r.patch.category
               /\ new.picture = IF r.patch.picture THEN r.new ELSE row.picture
  <1> DEFINE category1 == IF r.patch.category = Keep THEN row.category ELSE r.patch.category
             picture1 == IF r.patch.picture THEN r.new ELSE row.picture
  <1>1. row.category \in Categories \union {None} /\ row.picture \in File
    BY DEF FoodRow
  <1>2. category1 \in Categories \union {None} /\ picture1 \in File
    BY <1>1, PatchFields
  <1>3. Written(row, r) = [row EXCEPT !.category = category1, !.picture = picture1]
    BY DEF Written, FoodRow
  <1> HIDE DEF category1, picture1
  <1>4. LET new == [row EXCEPT !.category = category1, !.picture = picture1]
        IN  /\ new \in FoodRow /\ new.state = row.state
            /\ new.category = category1 /\ new.picture = picture1
    BY <1>2 DEF FoodRow
  <1> QED BY <1>3, <1>4 DEF category1, picture1

LEMMA UpdateFoodKeeps ==
    ASSUME MenuState, NEW h \in Handlers, updateFood(h), raced \subseteq raced'
    PROVE  MenuTyped' /\ MenuInv'
  <1> DEFINE r == request[h]
             f == r.f
             next == IF r.patch.picture /\ r.old # NoFile
                     THEN [op |-> "remove", file |-> r.old] ELSE Idle
  <1>1. /\ r.op = "updateFood" /\ food' = [food EXCEPT ![f] = Written(food[f], r)]
        /\ request' = [request EXCEPT ![h] = next]
        /\ UNCHANGED <<category, disk, made>>
    BY DEF updateFood, At, Finish, Continue, files
  <1>2. f \in Foods /\ r.patch \in Patches /\ r.old \in File /\ r.new \in File
    BY <1>1, MenuKinds DEF MenuState
  <1>3. /\ next \in MenuRequest
        /\ \/ next.op = "none"
           \/ next.op = "remove" /\ next.file = r.old /\ r.patch.picture
    BY <1>2 DEF MenuRequest, RemoveRequest, Idle
  <1> HIDE DEF next
  <1>4. /\ request'[h] = next /\ \A k \in Handlers \ {h} : request'[k] = request[k]
        /\ request' \in [Handlers -> MenuRequest]
    BY <1>1, <1>3, OneMoves DEF MenuState, MenuTyped
  <1>5. food[f] \in FoodRow
    BY <1>2 DEF MenuState, MenuTyped
  <1>6. /\ food' \in [Foods -> FoodRow] /\ \A g \in Foods \ {f} : food'[g] = food[g]
        /\ food'[f].state = food[f].state
        /\ food'[f].category = IF r.patch.category = Keep THEN food[f].category
                               ELSE r.patch.category
        /\ food'[f].picture = IF r.patch.picture THEN r.new ELSE food[f].picture
    <2>1. food'[f] = Written(food[f], r) /\ \A g \in Foods \ {f} : food'[g] = food[g]
      BY <1>1, <1>2 DEF MenuState, MenuTyped
    <2>2. Written(food[f], r) \in FoodRow => food' \in [Foods -> FoodRow]
      BY <1>1 DEF MenuState, MenuTyped
    <2> QED BY <1>2, <1>5, <2>1, <2>2, WrittenRow
  <1>7. MenuTyped'
    BY <1>1, <1>4, <1>6 DEF MenuState, MenuTyped
  <1>8. MenuPictures'
    <2>1. Brings(next) = 0 /\ (next.op = "none" => Drops(next) = 0)
          /\ (next.op = "remove" => Drops(next) = r.old.name)
      BY <1>3, FileOps
    <2>2. Drops(r) = r.old.name /\ Brings(r) = IF r.patch.picture THEN r.new.name ELSE 0
      BY <1>1, FileOps
    <2>3. CASE r.patch.picture
      BY <1>1, <1>2, <1>3, <1>4, <1>6, <1>7, <2>1, <2>2, <2>3, PicturesMove
    <2>4. CASE ~r.patch.picture
      <3>1. Brings(request'[h]) = 0 /\ Drops(request'[h]) = 0
        BY <1>3, <1>4, <2>1, <2>4
      <3>2. \A g \in Foods : food'[g].picture = food[g].picture
        BY <1>6, <2>4
      <3> QED BY <1>1, <1>4, <1>7, <3>1, <3>2, PicturesStay
    <2> QED BY <2>3, <2>4
  <1>9. MenuReferences /\ AllMet
    BY DEF MenuState, MenuInv
  <1>10. r.patch.category \in Categories \union {Keep}
    BY <1>2, PatchFields
  <1>11. Finds(r)
    BY <1>9 DEF MenuReferences
  <1>12. \A k \in Handlers : Finds(request[k])'
    <2> TAKE k \in Handlers
    <2>1. CASE k = h
      BY <1>3, <1>4, <2>1 DEF Finds
    <2>2. CASE k # h /\ request[k].op = "deleteCategory"
      <3>1. ASSUME r.patch.category = request[k].c, r.patch.category # Keep PROVE f \in raced
        <4>1. r.patch.category \in Writes(request[k])
          BY <2>2, <3>1, AboutOps
        <4>2. r.patch.category \in About(request[h]) /\ f \in About(request[h])
          BY <1>1, <3>1, AboutOps
        <4> QED BY <1>9, <2>2, <4>1, <4>2, Together
      <3> QED BY <1>4, <1>6, <1>9, <2>2, <3>1 DEF MenuReferences, Finds
    <2>3. CASE k # h /\ request[k].op # "deleteCategory"
      BY <1>1, <1>4, <1>9, <2>3 DEF MenuReferences, Finds
    <2> QED BY <2>1, <2>2, <2>3
  <1>13. MenuReferences'
    <2>1. food'[f].state = "live" =>
             /\ food'[f].category \in Categories
             /\ f \in raced' \/ category'[food'[f].category] = "live"
      <3>1. CASE r.patch.category = Keep
        <4>1. food'[f].category = food[f].category
          BY <1>6, <3>1
        <4> QED BY <1>1, <1>2, <1>6, <1>9, <4>1 DEF MenuReferences
      <3>2. CASE r.patch.category # Keep
        <4>1. food'[f].category = r.patch.category
          BY <1>6, <3>2
        <4>2. f \in raced \/ category[r.patch.category] = "live"
          BY <1>1, <1>11, <3>2 DEF Finds
        <4> QED BY <1>1, <1>10, <3>2, <4>1, <4>2
      <3> QED BY <3>1, <3>2
    <2> QED BY <1>1, <1>6, <1>9, <1>12, <2>1 DEF MenuReferences
  <1> QED BY <1>7, <1>8, <1>13 DEF MenuInv

\* The file that goes is in no row, and no request is about to put it into one.
LEMMA RemoveMenuKeeps ==
    ASSUME MenuState, NEW h \in Handlers, remove(h), UNCHANGED menuRows, raced \subseteq raced'
    PROVE  MenuTyped' /\ MenuInv'
  <1> DEFINE gone == request[h].file.name
  <1>1. /\ request[h].op = "remove" /\ disk' = disk \ {gone} /\ made' = made
        /\ request' = [request EXCEPT ![h] = Idle]
        /\ UNCHANGED <<category, food>>
    BY DEF remove, At, Finish, menuRows
  <1>2. Idle \in MenuRequest /\ Idle.op = "none" /\ Brings(Idle) = 0 /\ Drops(Idle) = 0
    BY FileOps DEF MenuRequest, Idle
  <1>3. /\ request'[h] = Idle /\ \A k \in Handlers \ {h} : request'[k] = request[k]
        /\ request' \in [Handlers -> MenuRequest]
    BY <1>1, <1>2, OneMoves DEF MenuState, MenuTyped
  <1>4. MenuTyped'
    BY <1>1, <1>3 DEF MenuState, MenuTyped
  <1>5. Finds(request[h])'
    BY <1>2, <1>3 DEF Finds
  <1>6. MenuReferences'
    BY <1>1, <1>3, <1>5, RowsStay
  <1>7. MenuPictures /\ Carried /\ Drops(request[h]) = gone
    BY <1>1, FileOps DEF MenuState, MenuInv, MenuPictures
  <1>8. Carried'
    <2> SUFFICES ASSUME NEW k \in Handlers
                 PROVE  /\ Drops(request'[k]) \in 0 .. made'
                        /\ Brings(request'[k]) # 0 =>
                              /\ Brings(request'[k]) \in disk'
                              /\ \A j \in Handlers :
                                    /\ Drops(request'[j]) # Brings(request'[k])
                                    /\ Brings(request'[j]) = Brings(request'[k]) => j = k
      BY DEF Carried
    <2>1. CASE k = h
      BY <1>1, <1>2, <1>3, <2>1, RegistryAssumption DEF MenuState, MenuTyped
    <2>2. CASE k # h
      BY <1>1, <1>2, <1>3, <1>7, <2>2 DEF Carried
    <2> QED BY <2>1, <2>2
  <1>9. \A f \in Foods : food[f].picture # NoFile => food[f].picture.name \in disk'
    <2> TAKE f \in Foods
    <2>1. ASSUME food[f].picture # NoFile PROVE food[f].picture.name # gone
      <3>1. food[f].picture.name # 0
        BY <2>1, FileNames DEF MenuState, MenuTyped, FoodRow
      <3> QED BY <1>1, <1>7, <3>1 DEF MenuPictures, At
    <2> QED BY <1>1, <1>7, <2>1 DEF MenuPictures
  <1>10. MenuPictures'
    BY <1>1, <1>2, <1>3, <1>7, <1>8, <1>9 DEF MenuPictures, At
  <1> QED BY <1>4, <1>6, <1>10 DEF MenuInv

LEMMA AbortMenuKeeps ==
    ASSUME MenuState, Abort, raced \subseteq raced'
    PROVE  MenuTyped' /\ MenuInv'
  <1>1. PICK h \in Handlers : Finish(h)
    BY DEF Abort
  <1>2. UNCHANGED <<category, food, disk, made>> /\ request' = [request EXCEPT ![h] = Idle]
    BY <1>1 DEF Abort, Finish, menuRows, files
  <1>3. Idle \in MenuRequest /\ Idle.op = "none" /\ Brings(Idle) = 0 /\ Drops(Idle) = 0
    BY FileOps DEF MenuRequest, Idle
  <1>4. /\ request'[h] = Idle /\ \A k \in Handlers \ {h} : request'[k] = request[k]
        /\ request' \in [Handlers -> MenuRequest]
    BY <1>2, <1>3, OneMoves DEF MenuState, MenuTyped
  <1>5. MenuTyped'
    BY <1>2, <1>4 DEF MenuState, MenuTyped
  <1>6. MenuPictures'
    BY <1>2, <1>3, <1>4, <1>5, PicturesStay
  <1>7. Finds(request[h])'
    BY <1>3, <1>4 DEF Finds
  <1> QED BY <1>2, <1>4, <1>5, <1>6, <1>7, RowsStay DEF MenuInv

LEMMA MenuKeeps ==
    ASSUME MenuState, Menu, raced \subseteq raced'
    PROVE  MenuTyped' /\ MenuInv'
  BY CreateCategoryKeeps, CountFoodsKeeps, DeleteCategoryKeeps, CheckNewFoodKeeps, CreateFoodKeeps,
     CheckFoodPatchKeeps, UpdateFoodKeeps, DeleteFoodKeeps, RemoveMenuKeeps DEF Menu

-----------------------------------------------------------------------------
(* Accounts and roles, step by step *)

PeopleTyped ==
    /\ role \in [Roles -> RoleRow] /\ user \in [Users -> UserRow]
    /\ patched \in BOOLEAN
    /\ request \in [Handlers -> PeopleRequest]
PeopleState == PeopleTyped /\ AllMet /\ PeopleInv

LEMMA PeopleKinds ==
    ASSUME PeopleTyped, NEW h \in Handlers
    PROVE  LET r == request[h]
           IN  /\ r.op \in {"none", "createUser", "updateUser", "deactivate", "deleteRole",
                            "setPermissions"}
               /\ r.op = "createUser" => r.u \in Users /\ r.role \in Roles
               /\ r.op = "updateUser" => r.u \in Users /\ r.role \in Roles /\ r.isActive \in BOOLEAN
               /\ r.op = "deactivate" => r.u \in Users
               /\ r.op = "deleteRole" => r.r \in Roles
               /\ r.op = "setPermissions" =>
                     r.r \in Roles /\ r.keys \in SUBSET Keys /\ r.unseen \in SUBSET Keys
  <1> DEFINE r == request[h]
  <1>1. r \in PeopleRequest
    BY DEF PeopleTyped
  <1> HIDE DEF r
  <1>2. r.op \in {"none", "createUser", "updateUser", "deactivate", "deleteRole", "setPermissions"}
    BY <1>1 DEF PeopleRequest, Idle
  <1>3. r.op = "createUser" => r.u \in Users /\ r.role \in Roles
    BY <1>1 DEF PeopleRequest, Idle
  <1>4. r.op = "updateUser" => r.u \in Users /\ r.role \in Roles /\ r.isActive \in BOOLEAN
    BY <1>1 DEF PeopleRequest, Idle
  <1>5. (r.op = "deactivate" => r.u \in Users) /\ (r.op = "deleteRole" => r.r \in Roles)
    BY <1>1 DEF PeopleRequest, Idle
  <1>6. r.op = "setPermissions" =>
            r.r \in Roles /\ r.keys \in SUBSET Keys /\ r.unseen \in SUBSET Keys
    BY <1>1 DEF PeopleRequest, Idle
  <1> QED BY <1>2, <1>3, <1>4, <1>5, <1>6 DEF r

\* Nobody stops being an administrator, and nobody new is about to be deactivated.
LEMMA AdministratorsStay ==
    ASSUME PeopleState, raced \subseteq raced', patched => patched',
           \A u \in Administrators : u \in Administrators',
           \A k \in Handlers : request'[k] = request[k] \/ request'[k].op # "deactivate"
    PROVE  PeopleAdministered'
  <1>1. PeopleAdministered
    BY DEF PeopleState, PeopleInv
  <1>2. CASE SuperAdmin \in raced \/ patched
    BY <1>2 DEF PeopleAdministered
  <1>3. CASE ~(SuperAdmin \in raced \/ patched)
    <2>1. Administrators' # {}
      BY <1>1, <1>3 DEF PeopleAdministered
    <2>2. ASSUME NEW k \in Handlers, request'[k].op = "deactivate"
          PROVE  Administrators' \ {request'[k].u} # {}
      <3>1. request'[k] = request[k]
        BY <2>2
      <3>2. PICK u \in Administrators : u # request[k].u
        BY <1>1, <1>3, <2>2, <3>1 DEF PeopleAdministered, At
      <3> QED BY <3>1, <3>2
    <2> QED BY <2>1, <2>2 DEF PeopleAdministered, At
  <1> QED BY <1>2, <1>3

\* A request begins, ends or is given up, and the rows stay.
LEMMA PeopleStay ==
    ASSUME PeopleState, raced \subseteq raced', UNCHANGED peopleRows, NEW h \in Handlers,
           NEW req \in PeopleRequest, request' = [request EXCEPT ![h] = req],
           req.op = "deactivate" =>
              /\ user[req.u].state # "none"
              /\ SuperAdmin \in raced \/ patched \/ Administrators \ {req.u} # {}
    PROVE  PeopleTyped' /\ PeopleInv'
  <1>1. /\ request'[h] = req /\ \A k \in Handlers \ {h} : request'[k] = request[k]
        /\ request' \in [Handlers -> PeopleRequest]
    BY OneMoves DEF PeopleState, PeopleTyped
  <1>2. role' = role /\ user' = user /\ patched' = patched
    BY DEF peopleRows
  <1>3. PeopleTyped'
    BY <1>1, <1>2 DEF PeopleState, PeopleTyped
  <1>4. PeopleReferences /\ PeopleAdministered
    BY DEF PeopleState, PeopleInv
  <1>5. PeopleReferences'
    BY <1>1, <1>2, <1>4 DEF PeopleReferences, At
  <1>7. PeopleAdministered'
    <2>1. Administrators' = Administrators
      BY <1>2 DEF Administrators
    <2>2. CASE SuperAdmin \in raced \/ patched
      BY <1>2, <2>2 DEF PeopleAdministered
    <2>3. CASE ~(SuperAdmin \in raced \/ patched)
      <3>1. Administrators # {}
        BY <1>4, <2>3 DEF PeopleAdministered
      <3>2. ASSUME NEW k \in Handlers, request'[k].op = "deactivate"
            PROVE  Administrators \ {request'[k].u} # {}
        BY <1>1, <1>4, <2>3, <3>2 DEF PeopleAdministered, At
      <3> QED BY <2>1, <3>1, <3>2 DEF PeopleAdministered, At
    <2> QED BY <2>2, <2>3
  <1> QED BY <1>3, <1>5, <1>7 DEF PeopleInv

\* Two or more super administrators, or one who is to go and was never one.
LEMMA AnotherIsLeft ==
    ASSUME NEW u \in Users, NEW actor \in Users, NEW h \in Handlers,
           CountAdministrators(h, u, actor), Administrators # {}
    PROVE  Administrators \ {u} # {}
  <1>1. IsFiniteSet(Administrators)
    <2>1. Administrators \subseteq Users
      BY DEF Administrators
    <2> QED BY <2>1, FS_Subset, RegistryAssumption
  <1>2. CASE user[u].role = SuperAdmin
    <2>1. Cardinality(Administrators) > 1
      BY <1>2 DEF CountAdministrators
    <2> SUFFICES ASSUME Administrators \subseteq {u} PROVE FALSE
      OBVIOUS
    <2>2. Administrators = {u}
      OBVIOUS
    <2>3. Cardinality({u}) = 1
      BY FS_Singleton
    <2> HIDE DEF Administrators
    <2>4. Cardinality(Administrators) = 1
      BY <2>2, <2>3
    <2> QED BY <2>1, <2>4
  <1>3. CASE user[u].role # SuperAdmin
    BY <1>3 DEF Administrators
  <1> QED BY <1>2, <1>3

LEMMA PeopleChecksKeep ==
    ASSUME PeopleState, raced \subseteq raced', NEW h \in Handlers,
           \/ \E u \in Users, r \in Roles :
                 CheckNewUser(h, u, r) \/ \E isActive \in BOOLEAN : CheckUserPatch(h, u, r, isActive)
           \/ \E u, actor \in Users : CountAdministrators(h, u, actor)
           \/ \E r \in Roles : CountUsers(h, r) \/ \E keys \in SUBSET Keys : ClearPermissions(h, r, keys)
    PROVE  PeopleTyped' /\ PeopleInv'
  <1>1. ASSUME NEW u \in Users, NEW r \in Roles, CheckNewUser(h, u, r)
        PROVE  PeopleTyped' /\ PeopleInv'
    <2> DEFINE req == [op |-> "createUser", u |-> u, role |-> r]
    <2>1. UNCHANGED peopleRows /\ request' = [request EXCEPT ![h] = req]
      BY <1>1 DEF CheckNewUser, Begin
    <2>2. req \in PeopleRequest /\ req.op = "createUser"
      BY DEF PeopleRequest
    <2> HIDE DEF req
    <2> QED BY <2>1, <2>2, PeopleStay
  <1>2. ASSUME NEW u \in Users, NEW r \in Roles, NEW isActive \in BOOLEAN,
               CheckUserPatch(h, u, r, isActive)
        PROVE  PeopleTyped' /\ PeopleInv'
    <2> DEFINE req == [op |-> "updateUser", u |-> u, role |-> r, isActive |-> isActive]
    <2>1. UNCHANGED peopleRows /\ request' = [request EXCEPT ![h] = req]
      BY <1>2 DEF CheckUserPatch, Begin
    <2>2. req \in PeopleRequest /\ req.op = "updateUser"
      BY DEF PeopleRequest
    <2> HIDE DEF req
    <2> QED BY <2>1, <2>2, PeopleStay
  <1>3. ASSUME NEW u \in Users, NEW actor \in Users, CountAdministrators(h, u, actor)
        PROVE  PeopleTyped' /\ PeopleInv'
    <2> DEFINE req == [op |-> "deactivate", u |-> u]
    <2>1. UNCHANGED peopleRows /\ request' = [request EXCEPT ![h] = req]
      BY <1>3 DEF CountAdministrators, Begin
    <2>2. req \in PeopleRequest /\ req.op = "deactivate" /\ req.u = u
      BY DEF PeopleRequest
    <2>3. /\ user[u].state = "live"
          /\ SuperAdmin \in raced \/ patched \/ Administrators \ {u} # {}
      <3>1. SuperAdmin \in raced \/ patched \/ Administrators # {}
        BY DEF PeopleState, PeopleInv, PeopleAdministered
      <3>2. Administrators # {} => Administrators \ {u} # {}
        BY <1>3, AnotherIsLeft
      <3> QED BY <1>3, <3>1, <3>2 DEF CountAdministrators
    <2> HIDE DEF req
    <2> QED BY <2>1, <2>2, <2>3, PeopleStay
  <1>4. ASSUME NEW r \in Roles, CountUsers(h, r)
        PROVE  PeopleTyped' /\ PeopleInv'
    <2> DEFINE req == [op |-> "deleteRole", r |-> r]
    <2>1. UNCHANGED peopleRows /\ request' = [request EXCEPT ![h] = req]
      BY <1>4 DEF CountUsers, Begin
    <2>2. req \in PeopleRequest /\ req.op = "deleteRole"
      BY DEF PeopleRequest
    <2> HIDE DEF req
    <2> QED BY <2>1, <2>2, PeopleStay
  <1>5. ASSUME NEW r \in Roles, NEW keys \in SUBSET Keys, ClearPermissions(h, r, keys)
        PROVE  PeopleTyped' /\ PeopleInv'
    <2> DEFINE req == [op |-> "setPermissions", r |-> r, keys |-> keys, unseen |-> {}]
    <2>1. UNCHANGED peopleRows /\ request' = [request EXCEPT ![h] = req]
      BY <1>5 DEF ClearPermissions, Begin
    <2>2. req \in PeopleRequest /\ req.op = "setPermissions"
      BY DEF PeopleRequest
    <2> HIDE DEF req
    <2> QED BY <2>1, <2>2, PeopleStay
  <1> QED BY <1>1, <1>2, <1>3, <1>4, <1>5

\* A request has written its row: what is left to show of the step.
LEMMA UserWritten ==
    ASSUME PeopleState, raced \subseteq raced', NEW h \in Handlers, NEW u \in Users,
           NEW row \in UserRow, row.state # user[u].state => row.state # "none",
           role[row.role].exists,
           user' = [user EXCEPT ![u] = row], role' = role, patched' \in BOOLEAN,
           request' = [request EXCEPT ![h] = Idle]
    PROVE  /\ PeopleTyped' /\ PeopleReferences'
           /\ request'[h].op = "none" /\ \A k \in Handlers \ {h} : request'[k] = request[k]
           /\ user'[u] = row /\ \A v \in Users \ {u} : user'[v] = user[v]
  <1>1. Idle \in PeopleRequest /\ Idle.op = "none"
    BY DEF PeopleRequest, Idle
  <1>2. /\ request'[h] = Idle /\ \A k \in Handlers \ {h} : request'[k] = request[k]
        /\ request' \in [Handlers -> PeopleRequest]
    BY <1>1, OneMoves DEF PeopleState, PeopleTyped
  <1>3. /\ user' \in [Users -> UserRow]
        /\ user'[u] = row /\ \A v \in Users \ {u} : user'[v] = user[v]
    BY DEF PeopleState, PeopleTyped
  <1>4. PeopleTyped'
    BY <1>2, <1>3 DEF PeopleState, PeopleTyped
  <1>5. PeopleReferences
    BY DEF PeopleState, PeopleInv
  <1>6. PeopleReferences'
    <2>1. \A v \in Users : user'[v].state # "none" => role'[user'[v].role].exists
      BY <1>3, <1>5 DEF PeopleReferences
    <2>2. \A k \in Handlers : request'[k].op = "deactivate" => user'[request'[k].u].state # "none"
      <3> SUFFICES ASSUME NEW k \in Handlers, request'[k].op = "deactivate"
                   PROVE  user'[request'[k].u].state # "none"
        OBVIOUS
      <3>1. k # h /\ request'[k] = request[k]
        BY <1>1, <1>2
      <3>2. request[k].u \in Users
        BY <3>1, PeopleKinds DEF PeopleState
      <3> QED BY <1>3, <1>5, <3>1, <3>2 DEF PeopleReferences, At
    <2> QED BY <1>5, <2>1, <2>2 DEF PeopleReferences, At
  <1> QED BY <1>1, <1>2, <1>3, <1>4, <1>6

LEMMA CreateUserKeeps ==
    ASSUME PeopleState, NEW h \in Handlers, createUser(h), raced \subseteq raced'
    PROVE  PeopleTyped' /\ PeopleInv'
  <1> DEFINE u == request[h].u
             row == [state |-> "live", isActive |-> TRUE, role |-> request[h].role]
  <1>1. /\ request[h].op = "createUser" /\ user[u].state = "none" /\ role[row.role].exists
        /\ user' = [user EXCEPT ![u] = row] /\ role' = role /\ patched' = patched
        /\ request' = [request EXCEPT ![h] = Idle]
    BY DEF createUser, At, Finish
  <1>2. u \in Users /\ request[h].role \in Roles
    BY <1>1, PeopleKinds DEF PeopleState
  <1>3. row \in UserRow /\ row.state = "live"
    BY <1>2 DEF UserRow
  <1> HIDE DEF row
  <1>4. /\ PeopleTyped' /\ PeopleReferences'
        /\ request'[h].op = "none" /\ \A k \in Handlers \ {h} : request'[k] = request[k]
        /\ user'[u] = row /\ \A v \in Users \ {u} : user'[v] = user[v]
    BY <1>1, <1>2, <1>3, UserWritten DEF PeopleState, PeopleTyped
  <1>5. \A v \in Administrators : v \in Administrators'
    BY <1>1, <1>4 DEF Administrators
  <1>6. PeopleAdministered'
    BY <1>1, <1>4, <1>5, AdministratorsStay
  <1> QED BY <1>4, <1>6 DEF PeopleInv

\* A PATCH that takes an administrator away is remembered as one.
LEMMA UpdateUserKeeps ==
    ASSUME PeopleState, NEW h \in Handlers, updateUser(h), raced \subseteq raced'
    PROVE  PeopleTyped' /\ PeopleInv'
  <1> DEFINE r == request[h]
             u == r.u
             row == [user[u] EXCEPT !.role = r.role, !.isActive = r.isActive]
  <1>1. /\ r.op = "updateUser" /\ role[r.role].exists /\ role' = role
        /\ user' = [user EXCEPT ![u].role = r.role, ![u].isActive = r.isActive]
        /\ patched' = \/ patched
                      \/ u \in Administrators /\ ~(r.role = SuperAdmin /\ r.isActive)
        /\ request' = [request EXCEPT ![h] = Idle]
    BY DEF updateUser, At, Finish
  <1>2. u \in Users /\ r.role \in Roles /\ r.isActive \in BOOLEAN
    BY <1>1, PeopleKinds DEF PeopleState
  <1>3. user[u] \in UserRow /\ patched \in BOOLEAN
    BY <1>2 DEF PeopleState, PeopleTyped
  <1>4. /\ row \in UserRow /\ row.state = user[u].state
        /\ row.role = r.role /\ row.isActive = r.isActive
    BY <1>2, <1>3 DEF UserRow
  <1>5. user' = [user EXCEPT ![u] = row]
    BY <1>1, <1>2 DEF PeopleState, PeopleTyped, UserRow
  <1> HIDE DEF row
  <1>6. patched' \in BOOLEAN /\ (patched => patched')
    BY <1>1, <1>3
  <1>7. /\ PeopleTyped' /\ PeopleReferences'
        /\ request'[h].op = "none" /\ \A k \in Handlers \ {h} : request'[k] = request[k]
        /\ user'[u] = row /\ \A v \in Users \ {u} : user'[v] = user[v]
    <2>1. role[row.role].exists /\ role' = role /\ request' = [request EXCEPT ![h] = Idle]
      BY <1>1, <1>4
    <2>2. row.state # user[u].state => row.state # "none"
      BY <1>4
    <2>3. row \in UserRow
      BY <1>4
    <2> HIDE DEF r, u
    <2> QED BY <1>2, <1>5, <1>6, <2>1, <2>2, <2>3, UserWritten
  <1>8. CASE u \in Administrators /\ ~(r.role = SuperAdmin /\ r.isActive)
    BY <1>1, <1>7, <1>8 DEF PeopleInv, PeopleAdministered
  <1>9. CASE ~(u \in Administrators /\ ~(r.role = SuperAdmin /\ r.isActive))
    <2>1. \A v \in Administrators : v \in Administrators'
      BY <1>4, <1>7, <1>9 DEF Administrators
    <2>2. PeopleAdministered'
      BY <1>6, <1>7, <2>1, AdministratorsStay
    <2> QED BY <1>7, <2>2 DEF PeopleInv
  <1> QED BY <1>8, <1>9

\* Two deactivations in flight are remembered; one alone has counted somebody who stays.
LEMMA DeactivateUserKeeps ==
    ASSUME PeopleState, NEW h \in Handlers, deactivateUser(h), raced \subseteq raced'
    PROVE  PeopleTyped' /\ PeopleInv'
  <1> DEFINE u == request[h].u
             row == [user[u] EXCEPT !.state = "deleted", !.isActive = FALSE]
  <1>1. /\ request[h].op = "deactivate" /\ role' = role /\ patched' = patched
        /\ user' = [user EXCEPT ![u].state = "deleted", ![u].isActive = FALSE]
        /\ request' = [request EXCEPT ![h] = Idle]
    BY DEF deactivateUser, At, Finish
  <1>2. u \in Users
    BY <1>1, PeopleKinds DEF PeopleState
  <1>3. user[u] \in UserRow /\ patched \in BOOLEAN
    BY <1>2 DEF PeopleState, PeopleTyped
  <1>4. /\ row \in UserRow /\ row.state = "deleted" /\ row.role = user[u].role
    BY <1>3 DEF UserRow
  <1>5. user' = [user EXCEPT ![u] = row]
    BY <1>1, <1>2 DEF PeopleState, PeopleTyped, UserRow
  <1> HIDE DEF row
  <1>6. PeopleReferences /\ PeopleAdministered /\ AllMet
    BY DEF PeopleState, PeopleInv
  <1>7. role[row.role].exists
    BY <1>1, <1>2, <1>4, <1>6 DEF PeopleReferences, At
  <1>8. /\ PeopleTyped' /\ PeopleReferences'
        /\ request'[h].op = "none" /\ \A k \in Handlers \ {h} : request'[k] = request[k]
        /\ user'[u] = row /\ \A v \in Users \ {u} : user'[v] = user[v]
    BY <1>1, <1>2, <1>3, <1>4, <1>5, <1>7, UserWritten
  <1>9. PeopleAdministered'
    <2>1. CASE SuperAdmin \in raced \/ patched
      BY <1>1, <2>1 DEF PeopleAdministered
    <2>2. CASE ~(SuperAdmin \in raced \/ patched)
      <3>1. PICK v \in Administrators : v # u
        BY <1>1, <1>6, <2>2 DEF PeopleAdministered, At
      <3>2. v \in Administrators'
        BY <1>8, <3>1 DEF Administrators
      <3>3. ASSUME NEW k \in Handlers, request'[k].op = "deactivate" PROVE FALSE
        <4>1. k # h /\ request[k].op = "deactivate"
          BY <1>8, <3>3
        <4>2. SuperAdmin \in Writes(request[h]) /\ SuperAdmin \in About(request[k])
          BY <1>1, <4>1, AboutOps
        <4> QED BY <1>6, <2>2, <4>1, <4>2, Together
      <3> QED BY <3>2, <3>3 DEF PeopleAdministered, At
    <2> QED BY <2>1, <2>2
  <1> QED BY <1>8, <1>9 DEF PeopleInv

\* A request has written its role; one that is gone grants nothing.
LEMMA RoleWritten ==
    ASSUME PeopleState, raced \subseteq raced', NEW h \in Handlers, NEW r \in Roles,
           NEW row \in RoleRow, role' = [role EXCEPT ![r] = row], UNCHANGED <<user, patched>>,
           request' \in [Handlers -> PeopleRequest], request'[h].op = "none",
           row.exists \/ \A u \in Users : user[u].state = "none" \/ user[u].role # r,
           row.granted # {} => row.exists,
           \A k \in Handlers \ {h} :
              request'[k] = request[k] \/ request'[k].op = "setPermissions"
    PROVE  PeopleTyped' /\ PeopleInv'
  <1>1. /\ role' \in [Roles -> RoleRow]
        /\ role'[r] = row /\ \A s \in Roles \ {r} : role'[s] = role[s]
    BY DEF PeopleState, PeopleTyped
  <1>2. PeopleTyped'
    BY <1>1 DEF PeopleState, PeopleTyped
  <1>3. PeopleReferences
    BY DEF PeopleState, PeopleInv
  <1>4. PeopleReferences'
    <2>1. \A u \in Users : user[u].role \in Roles
      BY DEF PeopleState, PeopleTyped, UserRow
    <2>2. \A u \in Users : user'[u].state # "none" => role'[user'[u].role].exists
      BY <1>1, <1>3, <2>1 DEF PeopleReferences
    <2>3. \A k \in Handlers : request'[k].op = "deactivate" => user'[request'[k].u].state # "none"
      BY <1>3 DEF PeopleReferences, At
    <2>4. \A s \in Roles : role'[s].granted # {} => role'[s].exists
      BY <1>1, <1>3 DEF PeopleReferences
    <2> QED BY <2>2, <2>3, <2>4 DEF PeopleReferences, At
  <1>6. \A u \in Administrators : u \in Administrators'
    BY DEF Administrators
  <1>7. PeopleAdministered'
    <2>1. \A k \in Handlers : request'[k] = request[k] \/ request'[k].op # "deactivate"
      OBVIOUS
    <2> QED BY <1>6, <2>1, AdministratorsStay
  <1> QED BY <1>2, <1>4, <1>7 DEF PeopleInv

LEMMA DeleteRoleKeeps ==
    ASSUME PeopleState, NEW h \in Handlers, deleteRole(h), raced \subseteq raced'
    PROVE  PeopleTyped' /\ PeopleInv'
  <1> DEFINE r == request[h].r
             row == [exists |-> FALSE, granted |-> {}]
  <1>1. /\ request[h].op = "deleteRole" /\ role' = [role EXCEPT ![r] = row]
        /\ \A u \in Users : user[u].state = "none" \/ user[u].role # r
        /\ request' = [request EXCEPT ![h] = Idle] /\ UNCHANGED <<user, patched>>
    BY DEF deleteRole, At, Finish
  <1>2. r \in Roles
    BY <1>1, PeopleKinds DEF PeopleState
  <1>3. row \in RoleRow /\ row.granted = {}
    BY DEF RoleRow
  <1>4. Idle \in PeopleRequest /\ Idle.op = "none"
    BY DEF PeopleRequest, Idle
  <1>5. /\ request'[h].op = "none" /\ \A k \in Handlers \ {h} : request'[k] = request[k]
        /\ request' \in [Handlers -> PeopleRequest]
    BY <1>1, <1>4, OneMoves DEF PeopleState, PeopleTyped
  <1> HIDE DEF row
  <1> QED BY <1>1, <1>2, <1>3, <1>5, RoleWritten

LEMMA GrantPermissionsKeeps ==
    ASSUME PeopleState, NEW h \in Handlers, GrantPermissions(h), raced \subseteq raced'
    PROVE  PeopleTyped' /\ PeopleInv'
  <1> DEFINE r == request[h].r
             keys == request[h].keys
             row == [role[r] EXCEPT !.granted = keys \union request[h].unseen]
             next(k) == IF k = h THEN Idle
                        ELSE IF At(k, "setPermissions") /\ request[k].r = r
                        THEN [request[k] EXCEPT !.unseen = @ \union keys] ELSE request[k]
  <1>1. /\ request[h].op = "setPermissions" /\ role[r].exists
        /\ role' = [role EXCEPT ![r].granted = keys \union request[h].unseen]
        /\ request' = [k \in Handlers |-> next(k)] /\ UNCHANGED <<user, patched>>
    BY DEF GrantPermissions, At
  <1>2. r \in Roles /\ keys \in SUBSET Keys /\ request[h].unseen \in SUBSET Keys
    BY <1>1, PeopleKinds DEF PeopleState
  <1>3. role[r] \in RoleRow
    BY <1>2 DEF PeopleState, PeopleTyped
  <1>4. row \in RoleRow /\ row.exists = role[r].exists
    BY <1>2, <1>3 DEF RoleRow
  <1>5. role' = [role EXCEPT ![r] = row]
    BY <1>1, <1>2 DEF PeopleState, PeopleTyped, RoleRow
  <1>8. \A k \in Handlers \ {h} :
           /\ next(k) \in PeopleRequest
           /\ next(k) = request[k] \/ next(k).op = "setPermissions"
    <2> TAKE k \in Handlers \ {h}
    <2>1. request[k] \in PeopleRequest
      BY DEF PeopleState, PeopleTyped
    <2>2. CASE ~(At(k, "setPermissions") /\ request[k].r = r)
      BY <2>1, <2>2
    <2>3. CASE At(k, "setPermissions") /\ request[k].r = r
      <3> DEFINE req == [request[k] EXCEPT !.unseen = @ \union keys]
      <3>1. request[k] \in [op: {"setPermissions"}, r: Roles, keys: SUBSET Keys,
                            unseen: SUBSET Keys]
        BY <2>1, <2>3 DEF PeopleRequest, Idle, At
      <3>2. /\ req \in [op: {"setPermissions"}, r: Roles, keys: SUBSET Keys,
                        unseen: SUBSET Keys]
            /\ req.op = "setPermissions"
        BY <1>2, <3>1
      <3>4. next(k) = req
        BY <2>3
      <3>5. req \in PeopleRequest
        BY <3>2 DEF PeopleRequest
      <3> QED BY <3>2, <3>4, <3>5
    <2> QED BY <2>2, <2>3
  <1>9. next(h) \in PeopleRequest /\ next(h).op = "none"
    BY DEF PeopleRequest, Idle
  <1> HIDE DEF row, next
  <1>10. /\ request' \in [Handlers -> PeopleRequest] /\ request'[h].op = "none"
         /\ \A k \in Handlers \ {h} :
               request'[k] = request[k] \/ request'[k].op = "setPermissions"
    BY <1>1, <1>8, <1>9
  <1> QED BY <1>1, <1>2, <1>4, <1>5, <1>10, RoleWritten

LEMMA AbortPeopleKeeps ==
    ASSUME PeopleState, Abort, raced \subseteq raced'
    PROVE  PeopleTyped' /\ PeopleInv'
  <1>1. PICK h \in Handlers : Finish(h)
    BY DEF Abort
  <1>2. Idle \in PeopleRequest /\ Idle.op = "none"
    BY DEF PeopleRequest, Idle
  <1>3. UNCHANGED peopleRows /\ request' = [request EXCEPT ![h] = Idle]
    BY <1>1 DEF Abort, Finish
  <1> HIDE DEF Idle
  <1> QED BY <1>2, <1>3, PeopleStay

LEMMA PeopleKeeps ==
    ASSUME PeopleState, People, raced \subseteq raced'
    PROVE  PeopleTyped' /\ PeopleInv'
  BY PeopleChecksKeep, CreateUserKeeps, UpdateUserKeeps, DeactivateUserKeeps, DeleteRoleKeeps,
     GrantPermissionsKeeps DEF People

-----------------------------------------------------------------------------
(* Tables and orders, step by step *)

FloorTyped ==
    /\ table \in [Tables -> TableRow]
    /\ order \in [Orders -> [placed: BOOLEAN, table: Tables \union {None}]]
    /\ disk \subseteq 1 .. made /\ made \in 0 .. MaxFiles
    /\ request \in [Handlers -> FloorRequest]
FloorState == FloorTyped /\ AllMet /\ FloorInv

LEMMA FloorKinds ==
    ASSUME FloorTyped, NEW h \in Handlers
    PROVE  LET r == request[h]
           IN  /\ r.op \in {"none", "remove", "createTable", "rotate", "regenerate", "deleteTable",
                            "place"}
               /\ r.op = "remove" => r.file \in File
               /\ r.op \in Renders =>
                     /\ r.t \in Tables /\ r.token \in 0 .. MaxFiles
                     /\ r.new \in File \ {NoFile} /\ r.old \in File
               /\ r.op = "deleteTable" => r.t \in Tables /\ r.old \in File
               /\ r.op = "place" => r.o \in Orders /\ r.t \in Tables
  <1> DEFINE r == request[h]
  <1>1. r \in FloorRequest
    BY DEF FloorTyped
  <1> HIDE DEF r
  <1>2. r.op \in {"none", "remove", "createTable", "rotate", "regenerate", "deleteTable", "place"}
    BY <1>1 DEF FloorRequest, Idle, RemoveRequest, Renders
  <1>3. r.op = "remove" => r.file \in File
    BY <1>1 DEF FloorRequest, Idle, RemoveRequest, Renders
  <1>4. r.op \in Renders =>
            /\ r.t \in Tables /\ r.token \in 0 .. MaxFiles
            /\ r.new \in File \ {NoFile} /\ r.old \in File
    BY <1>1 DEF FloorRequest, Idle, RemoveRequest, Renders
  <1>5. r.op = "deleteTable" => r.t \in Tables /\ r.old \in File
    BY <1>1 DEF FloorRequest, Idle, RemoveRequest, Renders
  <1>6. r.op = "place" => r.o \in Orders /\ r.t \in Tables
    BY <1>1 DEF FloorRequest, Idle, RemoveRequest, Renders
  <1> QED BY <1>2, <1>3, <1>4, <1>5, <1>6 DEF r

\* What FloorPictures says, with the operations spelled out.
LEMMA FloorFiles ==
    ASSUME FloorState
    PROVE  /\ Carried /\ made \in Nat /\ disk \subseteq 1 .. made /\ 0 \notin disk
           /\ \A t \in Tables : table[t].exists => table[t].picture.name \in disk
           /\ \A t, s \in Tables :
                 table[t].exists /\ table[s].exists /\ table[t].picture.name = table[s].picture.name
                 => t = s
           /\ \A h \in Handlers, t \in Tables : table[t].exists =>
                 /\ Brings(request[h]) # table[t].picture.name
                 /\ Drops(request[h]) = table[t].picture.name =>
                       /\ request[h].op \in {"rotate", "regenerate", "deleteTable"}
                       /\ request[h].t = t
  BY RegistryAssumption DEF FloorState, FloorTyped, FloorInv, FloorPictures

\* No table gets a picture, and no request is about a file it was not about.
LEMMA FloorPicturesStay ==
    ASSUME FloorState, disk' = disk, made' = made,
           \A t \in Tables : table'[t].exists =>
              table[t].exists /\ table'[t].picture = table[t].picture,
           \A h \in Handlers :
              \/ request'[h] = request[h]
              \/ /\ Brings(request'[h]) = 0
                 /\ \/ Drops(request'[h]) = 0
                    \/ /\ Drops(request'[h]) = Drops(request[h])
                       /\ request[h].op = "deleteTable" /\ ~table'[request[h].t].exists
    PROVE  FloorPictures'
  <1>1. \A h \in Handlers : /\ Brings(request'[h]) # 0 => request'[h] = request[h]
                            /\ Drops(request'[h]) \in {Drops(request[h]), 0}
    OBVIOUS
  <1>2. Carried'
    <2>1. \A h \in Handlers : Drops(request'[h]) \in 0 .. made'
      BY <1>1, FloorFiles DEF Carried
    <2>2. ASSUME NEW h \in Handlers, NEW k \in Handlers, Brings(request'[h]) # 0
          PROVE  /\ Brings(request'[h]) \in disk'
                 /\ Drops(request'[k]) # Brings(request'[h])
                 /\ Brings(request'[k]) = Brings(request'[h]) => k = h
      BY <1>1, <2>2, FloorFiles DEF Carried
    <2> QED BY <2>1, <2>2 DEF Carried
  <1>3. ASSUME NEW h \in Handlers, NEW t \in Tables, table'[t].exists
        PROVE  /\ Brings(request'[h]) # table'[t].picture.name
               /\ Drops(request'[h]) = table'[t].picture.name =>
                     /\ request'[h].op \in {"rotate", "regenerate", "deleteTable"}
                     /\ request'[h].t = t
    <2>1. table'[t].picture.name \in disk /\ table'[t].picture.name # 0
      BY <1>3, FloorFiles
    <2>2. CASE request'[h] = request[h]
      BY <1>3, <2>2, FloorFiles
    <2>3. CASE Brings(request'[h]) = 0 /\ Drops(request'[h]) = 0
      BY <2>1, <2>3
    <2>4. CASE /\ Brings(request'[h]) = 0 /\ Drops(request'[h]) = Drops(request[h])
               /\ request[h].op = "deleteTable" /\ ~table'[request[h].t].exists
      BY <1>3, <2>1, <2>4, FloorFiles
    <2> QED BY <2>2, <2>3, <2>4
  <1> QED BY <1>2, <1>3, FloorFiles DEF FloorPictures

\* A request begins: it stores at most one file, which is new, and will drop at most the
\* picture of the table it is about.
LEMMA FloorPicturesBegin ==
    ASSUME FloorState, NEW h \in Handlers, table' = table,
           \A k \in Handlers \ {h} : request'[k] = request[k],
           \/ disk' = disk /\ made' = made /\ Brings(request'[h]) = 0
           \/ disk' = disk \union {made + 1} /\ made' = made + 1 /\ Brings(request'[h]) = made + 1,
           \/ Drops(request'[h]) = 0
           \/ /\ request'[h].op \in {"rotate", "regenerate", "deleteTable"}
              /\ request'[h].t \in Tables /\ table[request'[h].t].exists
              /\ Drops(request'[h]) = table[request'[h].t].picture.name
    PROVE  FloorPictures'
  <1>1. made + 1 \notin disk /\ made + 1 # 0 /\ disk \subseteq disk' /\ made' \in Nat
    BY FloorFiles
  <1>2. \A n \in disk \union {0} : n \in 0 .. made /\ n \in 0 .. made'
    BY FloorFiles
  <1>3. \A k \in Handlers \ {h} : /\ Drops(request'[k]) \in 0 .. made
                                 /\ Brings(request'[k]) \in disk \union {0}
    BY FloorFiles DEF Carried
  <1>4. Drops(request'[h]) \in disk \union {0}
    BY FloorFiles
  <1>5. Carried'
    <2> SUFFICES ASSUME NEW k \in Handlers
                 PROVE  /\ Drops(request'[k]) \in 0 .. made'
                        /\ Brings(request'[k]) # 0 =>
                              /\ Brings(request'[k]) \in disk'
                              /\ \A j \in Handlers :
                                    /\ Drops(request'[j]) # Brings(request'[k])
                                    /\ Brings(request'[j]) = Brings(request'[k]) => j = k
      BY DEF Carried
    <2>1. Drops(request'[k]) \in 0 .. made'
      BY <1>2, <1>3, <1>4, FloorFiles
    <2>2. Brings(request'[k]) \in disk' \union {0}
      BY <1>1, <1>3
    <2>3. ASSUME NEW j \in Handlers, Brings(request'[k]) # 0
          PROVE  /\ Drops(request'[j]) # Brings(request'[k])
                 /\ Brings(request'[j]) = Brings(request'[k]) => j = k
      <3>1. CASE k = h
        <4>1. Brings(request'[k]) = made + 1
          BY <2>3, <3>1
        <4>2. Drops(request'[j]) \in 0 .. made
          BY <1>2, <1>3, <1>4
        <4>3. j # h => Brings(request'[j]) \in disk \union {0}
          BY <1>3
        <4> QED BY <1>1, <3>1, <4>1, <4>2, <4>3, FloorFiles
      <3>2. CASE k # h /\ j # h
        BY <2>3, <3>2, FloorFiles DEF Carried
      <3>3. CASE k # h /\ j = h
        <4>1. Brings(request'[k]) \in disk /\ Brings(request'[k]) = Brings(request[k])
          BY <1>3, <2>3, <3>3
        <4>2. Brings(request'[h]) # Brings(request'[k])
          BY <1>1, <2>3, <4>1
        <4>3. Drops(request'[h]) # Brings(request'[k])
          BY <2>3, <3>3, <4>1, FloorFiles
        <4> QED BY <3>3, <4>2, <4>3
      <3> QED BY <3>1, <3>2, <3>3
    <2> QED BY <2>1, <2>2, <2>3
  <1>6. ASSUME NEW k \in Handlers, NEW t \in Tables, table[t].exists
        PROVE  /\ Brings(request'[k]) # table[t].picture.name
               /\ Drops(request'[k]) = table[t].picture.name =>
                     /\ request'[k].op \in {"rotate", "regenerate", "deleteTable"}
                     /\ request'[k].t = t
    <2>1. CASE k # h
      BY <1>6, <2>1, FloorFiles
    <2>2. CASE k = h
      BY <1>1, <1>6, <2>2, FloorFiles
    <2> QED BY <2>1, <2>2
  <1>7. \A t \in Tables : table[t].exists => table[t].picture.name \in disk'
    BY <1>1, FloorFiles
  <1> QED BY <1>5, <1>6, <1>7, FloorFiles DEF FloorPictures

\* A picture moves from the request that brought it into the row; the one it replaces
\* stays with the request, which is to drop it.
LEMMA FloorPicturesMove ==
    ASSUME FloorState, disk' = disk, made' = made, NEW h \in Handlers, NEW t \in Tables,
           \A k \in Handlers \ {h} : request'[k] = request[k],
           \A s \in Tables \ {t} : table'[s] = table[s],
           Brings(request[h]) # 0, table'[t].picture.name = Brings(request[h]),
           Brings(request'[h]) = 0,
           \/ Drops(request'[h]) = 0
           \/ /\ Drops(request'[h]) = Drops(request[h])
              /\ request[h].op \in {"rotate", "regenerate", "deleteTable"} => request[h].t = t
    PROVE  FloorPictures'
  <1> DEFINE n == Brings(request[h])
  <1>1. /\ n \in disk /\ n # 0 /\ Drops(request'[h]) # n /\ Brings(request'[h]) # n
        /\ \A k \in Handlers \ {h} : Drops(request'[k]) # n /\ Brings(request'[k]) # n
        /\ \A s \in Tables : table[s].exists => table[s].picture.name # n
    BY FloorFiles DEF Carried
  <1>2. Carried'
    BY FloorFiles DEF Carried
  <1>3. ASSUME NEW k \in Handlers, NEW s \in Tables, table'[s].exists
        PROVE  /\ Brings(request'[k]) # table'[s].picture.name
               /\ Drops(request'[k]) = table'[s].picture.name =>
                     /\ request'[k].op \in {"rotate", "regenerate", "deleteTable"}
                     /\ request'[k].t = s
    <2>1. CASE s = t
      BY <1>1, <2>1
    <2>2. CASE s # t /\ k # h
      BY <1>3, <2>2, FloorFiles
    <2>3. CASE s # t /\ k = h
      <3>1. table'[s].picture.name \in disk /\ table'[s].picture.name # 0
        BY <1>3, <2>3, FloorFiles
      <3> QED BY <1>3, <2>3, <3>1, FloorFiles
    <2> QED BY <2>1, <2>2, <2>3
  <1>4. \A s, u \in Tables :
           table'[s].exists /\ table'[u].exists /\ table'[s].picture.name = table'[u].picture.name
           => s = u
    BY <1>1, FloorFiles
  <1>5. \A s \in Tables : table'[s].exists => table'[s].picture.name \in disk'
    BY <1>1, FloorFiles
  <1> QED BY <1>2, <1>3, <1>4, <1>5 DEF FloorPictures

\* A request begins, ends or is given up, and no table or order changes: what is left to
\* show is that the request relies on what it saw.
LEMMA FloorRowsStay ==
    ASSUME FloorState, UNCHANGED floorRows, raced \subseteq raced', NEW h \in Handlers,
           NEW req \in FloorRequest, request' = [request EXCEPT ![h] = req],
           disk' \subseteq 1 .. made', made' \in 0 .. MaxFiles,
           req.op = "deleteTable" => \A o \in Orders : order[o].table # req.t,
           req.op \in Renders => req.new.token = req.token,
           req.op = "regenerate" => table[req.t].exists /\ table[req.t].token = req.token
    PROVE  /\ FloorTyped' /\ FloorReferences' /\ FloorTokens'
           /\ request'[h] = req /\ \A k \in Handlers \ {h} : request'[k] = request[k]
  <1>1. /\ request'[h] = req /\ \A k \in Handlers \ {h} : request'[k] = request[k]
        /\ request' \in [Handlers -> FloorRequest]
    BY OneMoves DEF FloorState, FloorTyped
  <1>2. table' = table /\ order' = order
    BY DEF floorRows
  <1>3. FloorTyped'
    BY <1>1, <1>2 DEF FloorState, FloorTyped
  <1>4. FloorReferences /\ FloorTokens
    BY DEF FloorState, FloorInv
  <1>5. FloorReferences'
    BY <1>1, <1>2, <1>4 DEF FloorReferences, At
  <1>6. FloorTokens'
    <2>1. \A k \in Handlers \ {h} :
             /\ request'[k].op \in Renders => request'[k].new.token = request'[k].token
             /\ request'[k].op = "regenerate" =>
                   \/ request'[k].t \in raced'
                   \/ /\ table'[request'[k].t].exists
                      /\ table'[request'[k].t].token = request'[k].token
      BY <1>1, <1>2, <1>4 DEF FloorTokens, At, Renders
    <2> QED BY <1>1, <1>2, <1>4, <2>1 DEF FloorTokens, At, Renders
  <1> QED BY <1>1, <1>3, <1>5, <1>6

LEMMA RenderCodeKeeps ==
    ASSUME FloorState, NEW h \in Handlers, NEW t \in Tables, NEW op \in Renders,
           RenderCode(h, t, op), raced \subseteq raced'
    PROVE  FloorTyped' /\ FloorInv'
  <1> DEFINE token == IF op = "regenerate" THEN table[t].token ELSE made + 1
             new == NewFile(token)
             old == table[t].picture
             req == [op |-> op, t |-> t, token |-> token, new |-> new, old |-> old]
  <1>1. /\ table[t].exists = (op # "createTable")
        /\ request' = [request EXCEPT ![h] = req]
        /\ made < MaxFiles /\ made' = made + 1 /\ disk' = disk \union {made + 1}
        /\ UNCHANGED floorRows
    BY DEF RenderCode, Begin, Store
  <1>2. made \in Nat /\ MaxFiles \in Nat /\ disk \subseteq 1 .. made
    BY RegistryAssumption, FloorFiles
  <1>3. disk' \subseteq 1 .. made' /\ made' \in 0 .. MaxFiles /\ made + 1 \in 1 .. MaxFiles
    BY <1>1, <1>2
  <1>4. table[t] \in TableRow
    BY DEF FloorState, FloorTyped
  <1>5. token \in 0 .. MaxFiles /\ old \in File /\ table[t].exists \in BOOLEAN
    BY <1>3, <1>4 DEF TableRow
  <1>6. op = "regenerate" => table[t].token = token
    OBVIOUS
  <1> HIDE DEF token
  <1>7. new \in File \ {NoFile} /\ new.name = made + 1 /\ new.token = token
    BY <1>2, <1>3, <1>5 DEF NewFile, File, NoFile
  <1> HIDE DEF new, old
  <1>8. /\ req \in FloorRequest /\ req.op = op /\ req.t = t /\ req.token = token
        /\ req.new = new /\ req.old = old
    BY <1>5, <1>7 DEF FloorRequest
  <1> HIDE DEF req
  <1>9. op = "regenerate" => table[t].exists
    BY <1>1
  <1>10. /\ FloorTyped' /\ FloorReferences' /\ FloorTokens'
         /\ request'[h] = req /\ \A k \in Handlers \ {h} : request'[k] = request[k]
    BY <1>1, <1>3, <1>6, <1>7, <1>8, <1>9, FloorRowsStay DEF Renders
  <1>11. Brings(req) = made + 1
    BY <1>7, <1>8, FileOps DEF Renders
  <1>12. \/ Drops(req) = 0
         \/ op \in {"rotate", "regenerate"} /\ Drops(req) = old.name
    BY <1>8, FileOps DEF Renders
  <1>13. FloorPictures'
    <2>1. CASE Drops(req) = 0
      BY <1>1, <1>10, <1>11, <2>1, FloorPicturesBegin DEF floorRows
    <2>2. CASE op \in {"rotate", "regenerate"} /\ Drops(req) = old.name
      <3>1. table[t].exists
        BY <1>1, <2>2
      <3>2. req.op \in {"rotate", "regenerate", "deleteTable"} /\ Drops(req) = table[req.t].picture.name
        BY <1>8, <2>2 DEF old
      <3> QED BY <1>1, <1>8, <1>10, <1>11, <3>1, <3>2, FloorPicturesBegin DEF floorRows
    <2> QED BY <1>12, <2>1, <2>2
  <1> QED BY <1>10, <1>13 DEF FloorInv

LEMMA CountOrdersKeeps ==
    ASSUME FloorState, NEW h \in Handlers, NEW t \in Tables, CountOrders(h, t),
           raced \subseteq raced'
    PROVE  FloorTyped' /\ FloorInv'
  <1> DEFINE req == [op |-> "deleteTable", t |-> t, old |-> table[t].picture]
  <1>1. /\ request' = [request EXCEPT ![h] = req] /\ table[t].exists
        /\ \A o \in Orders : order[o].table # t
        /\ UNCHANGED floorRows /\ disk' = disk /\ made' = made
    BY DEF CountOrders, Begin, files
  <1>2. table[t] \in TableRow
    BY DEF FloorState, FloorTyped
  <1>3. table[t].picture \in File
    BY <1>2 DEF TableRow
  <1>4. /\ req \in FloorRequest /\ req.op = "deleteTable" /\ req.t = t
        /\ req.old = table[t].picture
    BY <1>3 DEF FloorRequest
  <1> HIDE DEF req
  <1>5. disk' \subseteq 1 .. made' /\ made' \in 0 .. MaxFiles
    BY <1>1 DEF FloorState, FloorTyped
  <1>6. /\ FloorTyped' /\ FloorReferences' /\ FloorTokens'
        /\ request'[h] = req /\ \A k \in Handlers \ {h} : request'[k] = request[k]
    BY <1>1, <1>4, <1>5, FloorRowsStay DEF Renders
  <1>7. Brings(req) = 0 /\ Drops(req) = table[req.t].picture.name
    BY <1>4, FileOps
  <1>8. FloorPictures'
    BY <1>1, <1>4, <1>6, <1>7, FloorPicturesBegin DEF floorRows
  <1> QED BY <1>6, <1>8 DEF FloorInv

LEMMA FindTableKeeps ==
    ASSUME FloorState, NEW h \in Handlers, NEW o \in Orders, NEW t \in Tables,
           FindTable(h, o, t), raced \subseteq raced'
    PROVE  FloorTyped' /\ FloorInv'
  <1> DEFINE req == [op |-> "place", o |-> o, t |-> t]
  <1>1. /\ request' = [request EXCEPT ![h] = req]
        /\ UNCHANGED floorRows /\ disk' = disk /\ made' = made
    BY DEF FindTable, Begin, files
  <1>2. req \in FloorRequest /\ req.op = "place"
    BY DEF FloorRequest
  <1> HIDE DEF req
  <1>3. disk' \subseteq 1 .. made' /\ made' \in 0 .. MaxFiles
    BY <1>1 DEF FloorState, FloorTyped
  <1>4. /\ FloorTyped' /\ FloorReferences' /\ FloorTokens'
        /\ request'[h] = req /\ \A k \in Handlers \ {h} : request'[k] = request[k]
    BY <1>1, <1>2, <1>3, FloorRowsStay DEF Renders
  <1>5. Brings(req) = 0 /\ Drops(req) = 0
    BY <1>2, FileOps
  <1>6. FloorPictures'
    BY <1>1, <1>4, <1>5, FloorPicturesBegin DEF floorRows
  <1> QED BY <1>4, <1>6 DEF FloorInv

LEMMA AbortFloorKeeps ==
    ASSUME FloorState, Abort, raced \subseteq raced'
    PROVE  FloorTyped' /\ FloorInv'
  <1>1. PICK h \in Handlers : Finish(h)
    BY DEF Abort
  <1>2. /\ request' = [request EXCEPT ![h] = Idle]
        /\ UNCHANGED floorRows /\ disk' = disk /\ made' = made
    BY <1>1 DEF Abort, Finish, files
  <1>3. Idle \in FloorRequest /\ Idle.op = "none" /\ Brings(Idle) = 0 /\ Drops(Idle) = 0
    BY FileOps DEF FloorRequest, Idle
  <1> HIDE DEF Idle
  <1>4. disk' \subseteq 1 .. made' /\ made' \in 0 .. MaxFiles
    BY <1>2 DEF FloorState, FloorTyped
  <1>5. /\ FloorTyped' /\ FloorReferences' /\ FloorTokens'
        /\ request'[h] = Idle /\ \A k \in Handlers \ {h} : request'[k] = request[k]
    BY <1>2, <1>3, <1>4, FloorRowsStay DEF Renders
  <1>6. FloorPictures'
    BY <1>2, <1>3, <1>5, FloorPicturesBegin DEF floorRows
  <1> QED BY <1>5, <1>6 DEF FloorInv

\* The file that goes is in no row, and no request is about to put it into one.
LEMMA RemoveFloorKeeps ==
    ASSUME FloorState, NEW h \in Handlers, remove(h), UNCHANGED floorRows, raced \subseteq raced'
    PROVE  FloorTyped' /\ FloorInv'
  <1> DEFINE gone == request[h].file.name
  <1>1. /\ request[h].op = "remove" /\ disk' = disk \ {gone} /\ made' = made
        /\ request' = [request EXCEPT ![h] = Idle]
    BY DEF remove, At, Finish
  <1>2. Idle \in FloorRequest /\ Idle.op = "none" /\ Brings(Idle) = 0 /\ Drops(Idle) = 0
    BY FileOps DEF FloorRequest, Idle
  <1> HIDE DEF Idle
  <1>3. disk' \subseteq 1 .. made' /\ made' \in 0 .. MaxFiles
    BY <1>1 DEF FloorState, FloorTyped
  <1>4. /\ FloorTyped' /\ FloorReferences' /\ FloorTokens'
        /\ request'[h] = Idle /\ \A k \in Handlers \ {h} : request'[k] = request[k]
    BY <1>1, <1>2, <1>3, FloorRowsStay DEF Renders
  <1>5. Drops(request[h]) = gone /\ table' = table
    BY <1>1, FileOps DEF floorRows
  <1>6. Carried'
    <2> SUFFICES ASSUME NEW k \in Handlers
                 PROVE  /\ Drops(request'[k]) \in 0 .. made'
                        /\ Brings(request'[k]) # 0 =>
                              /\ Brings(request'[k]) \in disk'
                              /\ \A j \in Handlers :
                                    /\ Drops(request'[j]) # Brings(request'[k])
                                    /\ Brings(request'[j]) = Brings(request'[k]) => j = k
      BY DEF Carried
    <2>1. CASE k = h
      BY <1>1, <1>2, <1>4, <2>1, FloorFiles
    <2>2. CASE k # h
      BY <1>1, <1>2, <1>4, <1>5, <2>2, FloorFiles DEF Carried
    <2> QED BY <2>1, <2>2
  <1>7. \A t \in Tables : table[t].exists => table[t].picture.name \in disk'
    BY <1>1, <1>5, FloorFiles
  <1>8. ASSUME NEW k \in Handlers, NEW t \in Tables, table[t].exists
        PROVE  /\ Brings(request'[k]) # table[t].picture.name
               /\ Drops(request'[k]) = table[t].picture.name =>
                     /\ request'[k].op \in {"rotate", "regenerate", "deleteTable"}
                     /\ request'[k].t = t
    <2>1. CASE k = h
      BY <1>2, <1>4, <1>8, <2>1, FloorFiles
    <2>2. CASE k # h
      BY <1>4, <1>8, <2>2, FloorFiles
    <2> QED BY <2>1, <2>2
  <1>9. FloorPictures'
    BY <1>5, <1>6, <1>7, <1>8, FloorFiles DEF FloorPictures
  <1> QED BY <1>4, <1>9 DEF FloorInv

\* A request has put its picture into the row of a table.
LEMMA TableWritten ==
    ASSUME FloorState, raced \subseteq raced', NEW h \in Handlers, NEW t \in Tables,
           NEW row \in TableRow, table' = [table EXCEPT ![t] = row],
           order' = order, disk' = disk, made' = made,
           NEW req \in FloorRequest, request' = [request EXCEPT ![h] = req],
           req.op \in {"none", "remove"},
           t \in raced \/ row.picture.token = row.token,
           \A k \in Handlers \ {h} :
              request[k].op = "regenerate" /\ request[k].t = t => t \in raced,
           Brings(request[h]) # 0, row.picture.name = Brings(request[h]),
           \/ Drops(req) = 0
           \/ /\ Drops(req) = Drops(request[h])
              /\ request[h].op \in {"rotate", "regenerate", "deleteTable"} => request[h].t = t
    PROVE  FloorTyped' /\ FloorInv'
  <1>1. /\ request'[h] = req /\ \A k \in Handlers \ {h} : request'[k] = request[k]
        /\ request' \in [Handlers -> FloorRequest]
    BY OneMoves DEF FloorState, FloorTyped
  <1>2. /\ table' \in [Tables -> TableRow]
        /\ table'[t] = row /\ \A s \in Tables \ {t} : table'[s] = table[s]
    BY DEF FloorState, FloorTyped
  <1>3. FloorTyped'
    BY <1>1, <1>2 DEF FloorState, FloorTyped
  <1>4. FloorReferences /\ FloorTokens
    BY DEF FloorState, FloorInv
  <1>5. FloorReferences'
    BY <1>1, <1>4 DEF FloorReferences, At
  <1>6. FloorTokens'
    <2>1. \A s \in Tables \ raced' : table'[s].exists => table'[s].picture.token = table'[s].token
      BY <1>2, <1>4 DEF FloorTokens
    <2>2. \A k \in Handlers \ {h} : request'[k].op \in Renders =>
              request'[k].new.token = request'[k].token
      BY <1>1, <1>4 DEF FloorTokens, Renders
    <2>3. ASSUME NEW k \in Handlers \ {h}, request'[k].op = "regenerate"
          PROVE  \/ request'[k].t \in raced'
                 \/ /\ table'[request'[k].t].exists
                    /\ table'[request'[k].t].token = request'[k].token
      <3>1. request'[k] = request[k] /\ request[k].t \in Tables
        BY <1>1, <2>3, FloorKinds DEF FloorState, Renders
      <3>2. CASE request[k].t = t
        BY <2>3, <3>1, <3>2
      <3>3. CASE request[k].t # t
        BY <1>2, <1>4, <2>3, <3>1, <3>3 DEF FloorTokens, At
      <3> QED BY <3>2, <3>3
    <2> QED BY <1>1, <2>1, <2>2, <2>3 DEF FloorTokens, At, Renders
  <1>7. Brings(req) = 0
    BY FileOps
  <1>8. FloorPictures'
    BY <1>1, <1>2, <1>7, FloorPicturesMove
  <1> QED BY <1>3, <1>5, <1>6, <1>8 DEF FloorInv

LEMMA CreateTableKeeps ==
    ASSUME FloorState, NEW h \in Handlers, createTable(h), raced \subseteq raced'
    PROVE  FloorTyped' /\ FloorInv'
  <1> DEFINE r == request[h]
             t == r.t
             row == [exists |-> TRUE, token |-> r.token, picture |-> r.new]
  <1>1. /\ r.op = "createTable" /\ ~table[t].exists
        /\ table' = [table EXCEPT ![t] = row]
        /\ order' = order /\ disk' = disk /\ made' = made
        /\ request' = [request EXCEPT ![h] = Idle]
    BY DEF createTable, At, Finish, files
  <1>2. /\ t \in Tables /\ r.token \in 0 .. MaxFiles /\ r.new \in File \ {NoFile}
    BY <1>1, FloorKinds DEF FloorState, Renders
  <1>3. Idle \in FloorRequest /\ Idle.op = "none" /\ Drops(Idle) = 0
    BY FileOps DEF FloorRequest, Idle
  <1>4. FloorTokens
    BY DEF FloorState, FloorInv
  <1>5. r.new.token = r.token
    BY <1>1, <1>4 DEF FloorTokens
  <1>6. Brings(r) = r.new.name /\ r.new.name # 0
    BY <1>1, <1>2, FileOps, FileNames
  <1>7. row \in TableRow /\ row.picture = r.new /\ row.token = r.token
    BY <1>2 DEF TableRow
  <1>8. \A k \in Handlers \ {h} : request[k].op = "regenerate" /\ request[k].t = t => t \in raced
    BY <1>1, <1>4 DEF FloorTokens, At
  <1> HIDE DEF row, Idle
  <1> QED BY <1>1, <1>2, <1>3, <1>5, <1>6, <1>7, <1>8, TableWritten

\* The token stays under a new image of a code; another request for that table is
\* remembered.
LEMMA ReplaceCodeKeeps ==
    ASSUME FloorState, NEW h \in Handlers, ReplaceCode(h), raced \subseteq raced'
    PROVE  FloorTyped' /\ FloorInv'
  <1> DEFINE r == request[h]
             t == r.t
             token == IF r.op = "rotate" THEN r.token ELSE table[t].token
             row == [table[t] EXCEPT !.picture = r.new, !.token = token]
             req == [op |-> "remove", file |-> r.old]
  <1>1. /\ r.op \in {"rotate", "regenerate"} /\ table[t].exists
        /\ table' = [table EXCEPT ![t].picture = r.new,
                                  ![t].token = IF r.op = "rotate" THEN r.token ELSE @]
        /\ order' = order /\ disk' = disk /\ made' = made
        /\ request' = [request EXCEPT ![h] = req]
    BY DEF ReplaceCode, Continue, files
  <1>2. /\ t \in Tables /\ r.token \in 0 .. MaxFiles /\ r.new \in File \ {NoFile} /\ r.old \in File
    BY <1>1, FloorKinds DEF FloorState, Renders
  <1>3. table[t] \in TableRow
    BY <1>2 DEF FloorState, FloorTyped
  <1>4. token \in 0 .. MaxFiles
    BY <1>2, <1>3 DEF TableRow
  <1>5. table' = [table EXCEPT ![t] = row]
    BY <1>1, <1>2 DEF FloorState, FloorTyped, TableRow
  <1>6. AllMet /\ FloorTokens
    BY DEF FloorState, FloorInv
  <1>7. t \in raced \/ r.new.token = token
    <2>1. r.new.token = r.token
      BY <1>1, <1>6 DEF FloorTokens
    <2>2. CASE r.op = "rotate"
      BY <2>1, <2>2
    <2>3. CASE r.op = "regenerate"
      BY <1>6, <2>1, <2>3 DEF FloorTokens, At
    <2> QED BY <1>1, <2>2, <2>3
  <1>8. \A k \in Handlers \ {h} : request[k].op = "regenerate" /\ request[k].t = t => t \in raced
    <2> SUFFICES ASSUME NEW k \in Handlers \ {h}, request[k].op = "regenerate", request[k].t = t
                 PROVE  t \in raced
      OBVIOUS
    <2>1. t \in Writes(request[h]) /\ t \in About(request[h]) /\ t \in About(request[k])
      BY <1>1, AboutOps
    <2> QED BY <1>6, <2>1, Together
  <1>9. /\ req \in FloorRequest /\ req.op = "remove" /\ req.file = r.old
    BY <1>2 DEF FloorRequest, RemoveRequest
  <1>10. Brings(r) = r.new.name /\ r.new.name # 0 /\ Drops(r) = r.old.name
    BY <1>1, <1>2, FileOps, FileNames
  <1> HIDE DEF req, token
  <1>11. row \in TableRow /\ row.picture = r.new /\ row.token = token
    BY <1>2, <1>3, <1>4 DEF TableRow
  <1> HIDE DEF row
  <1>12. Drops(req) = Drops(r)
    BY <1>9, <1>10, FileOps
  <1>13. row.picture.name = Brings(r) /\ Brings(r) # 0
    BY <1>10, <1>11
  <1>14. t \in raced \/ row.picture.token = row.token
    BY <1>7, <1>11
  <1>15. request' = [request EXCEPT ![h] = req] /\ order' = order /\ disk' = disk /\ made' = made
    BY <1>1
  <1> QED BY <1>2, <1>5, <1>8, <1>9, <1>11, <1>12, <1>13, <1>14, <1>15, TableWritten

\* An order that still names the table was written while it was being deleted.
LEMMA DeleteTableKeeps ==
    ASSUME FloorState, NEW h \in Handlers, deleteTable(h), raced \subseteq raced'
    PROVE  FloorTyped' /\ FloorInv'
  <1> DEFINE r == request[h]
             t == r.t
             req == [op |-> "remove", file |-> r.old]
  <1>1. /\ r.op = "deleteTable" /\ table[t].exists
        /\ table' = [table EXCEPT ![t].exists = FALSE]
        /\ order' = [o \in Orders |-> IF order[o].table = t
                                      THEN [order[o] EXCEPT !.table = None] ELSE order[o]]
        /\ disk' = disk /\ made' = made
        /\ request' = [request EXCEPT ![h] = req]
    BY DEF deleteTable, At, Continue, files
  <1>2. t \in Tables /\ r.old \in File
    BY <1>1, FloorKinds DEF FloorState
  <1>3. req \in FloorRequest /\ req.op = "remove" /\ req.file = r.old
    BY <1>2 DEF FloorRequest, RemoveRequest
  <1>4. Brings(req) = 0 /\ Drops(req) = Drops(r)
    BY <1>1, <1>3, FileOps
  <1> HIDE DEF req
  <1>5. /\ request'[h] = req /\ \A k \in Handlers \ {h} : request'[k] = request[k]
        /\ request' \in [Handlers -> FloorRequest]
    BY <1>1, <1>3, OneMoves DEF FloorState, FloorTyped
  <1>6. /\ table' \in [Tables -> TableRow] /\ ~table'[t].exists
        /\ \A s \in Tables \ {t} : table'[s] = table[s]
    BY <1>1, <1>2 DEF FloorState, FloorTyped, TableRow
  <1>7. \A o \in Orders :
           /\ order'[o] \in [placed: BOOLEAN, table: Tables \union {None}]
           /\ order'[o].placed = order[o].placed
           /\ order'[o].table = IF order[o].table = t THEN None ELSE order[o].table
    <2> TAKE o \in Orders
    <2>1. order[o] \in [placed: BOOLEAN, table: Tables \union {None}]
      BY DEF FloorState, FloorTyped
    <2>2. CASE order[o].table = t
      BY <1>1, <2>1, <2>2
    <2>3. CASE order[o].table # t
      BY <1>1, <2>1, <2>3
    <2> QED BY <2>2, <2>3
  <1>8. order' \in [Orders -> [placed: BOOLEAN, table: Tables \union {None}]]
    BY <1>1, <1>7
  <1>9. FloorTyped'
    BY <1>1, <1>5, <1>6, <1>8 DEF FloorState, FloorTyped
  <1>10. FloorReferences /\ FloorTokens /\ AllMet
    BY DEF FloorState, FloorInv
  <1>11. \A o \in Orders \ raced : order[o].table # t
    BY <1>1, <1>10 DEF FloorReferences, At
  <1>12. FloorReferences'
    <2>1. \A o \in Orders \ raced' : order'[o].placed => order'[o].table # None
      BY <1>7, <1>10, <1>11 DEF FloorReferences
    <2>2. ASSUME NEW k \in Handlers, request'[k].op = "deleteTable", NEW o \in Orders \ raced'
          PROVE  order'[o].table # request'[k].t
      <3>1. k # h /\ request'[k] = request[k]
        BY <1>3, <1>5, <2>2
      <3>2. request[k].t \in Tables
        BY <2>2, <3>1, FloorKinds DEF FloorState
      <3>3. order[o].table # request[k].t
        BY <1>10, <2>2, <3>1 DEF FloorReferences, At
      <3> QED BY <1>7, <3>1, <3>2, <3>3, RegistryAssumption
    <2> QED BY <2>1, <2>2 DEF FloorReferences, At
  <1>13. FloorTokens'
    <2>1. \A s \in Tables \ raced' : table'[s].exists => table'[s].picture.token = table'[s].token
      BY <1>6, <1>10 DEF FloorTokens
    <2>2. \A k \in Handlers \ {h} : request'[k].op \in Renders =>
              request'[k].new.token = request'[k].token
      BY <1>5, <1>10 DEF FloorTokens, Renders
    <2>3. ASSUME NEW k \in Handlers \ {h}, request'[k].op = "regenerate"
          PROVE  \/ request'[k].t \in raced'
                 \/ /\ table'[request'[k].t].exists
                    /\ table'[request'[k].t].token = request'[k].token
      <3>1. request'[k] = request[k] /\ request[k].t \in Tables
        BY <1>5, <2>3, FloorKinds DEF FloorState, Renders
      <3>2. CASE request[k].t = t
        <4>1. t \in Writes(request[h]) /\ t \in About(request[h]) /\ t \in About(request[k])
          BY <1>1, <2>3, <3>1, <3>2, AboutOps
        <4> QED BY <1>10, <3>1, <3>2, <4>1, Together
      <3>3. CASE request[k].t # t
        BY <1>6, <1>10, <2>3, <3>1, <3>3 DEF FloorTokens, At
      <3> QED BY <3>2, <3>3
    <2> QED BY <1>3, <1>5, <2>1, <2>2, <2>3 DEF FloorTokens, At, Renders
  <1>14. FloorPictures'
    <2>1. \A s \in Tables : table'[s].exists =>
              table[s].exists /\ table'[s].picture = table[s].picture
      BY <1>6
    <2> QED BY <1>1, <1>4, <1>5, <1>6, <2>1, FloorPicturesStay
  <1> QED BY <1>9, <1>12, <1>13, <1>14 DEF FloorInv

LEMMA PlaceOrderKeeps ==
    ASSUME FloorState, NEW h \in Handlers, placeOrder(h), raced \subseteq raced'
    PROVE  FloorTyped' /\ FloorInv'
  <1> DEFINE o == request[h].o
             t == request[h].t
             row == [placed |-> TRUE, table |-> t]
  <1>1. /\ request[h].op = "place" /\ order' = [order EXCEPT ![o] = row]
        /\ table' = table /\ disk' = disk /\ made' = made
        /\ request' = [request EXCEPT ![h] = Idle]
    BY DEF placeOrder, At, Finish, files
  <1>2. o \in Orders /\ t \in Tables /\ t # None
    BY <1>1, FloorKinds, RegistryAssumption DEF FloorState
  <1>3. /\ row \in [placed: BOOLEAN, table: Tables \union {None}] /\ row.table = t
    BY <1>2
  <1> HIDE DEF row
  <1>4. Idle \in FloorRequest /\ Idle.op = "none" /\ Brings(Idle) = 0 /\ Drops(Idle) = 0
    BY FileOps DEF FloorRequest, Idle
  <1> HIDE DEF Idle
  <1>5. /\ request'[h] = Idle /\ \A k \in Handlers \ {h} : request'[k] = request[k]
        /\ request' \in [Handlers -> FloorRequest]
    BY <1>1, <1>4, OneMoves DEF FloorState, FloorTyped
  <1>6. /\ order' \in [Orders -> [placed: BOOLEAN, table: Tables \union {None}]]
        /\ order'[o] = row /\ \A p \in Orders \ {o} : order'[p] = order[p]
    BY <1>1, <1>2, <1>3 DEF FloorState, FloorTyped
  <1>7. FloorTyped'
    BY <1>1, <1>5, <1>6 DEF FloorState, FloorTyped
  <1>8. FloorReferences /\ FloorTokens /\ AllMet
    BY DEF FloorState, FloorInv
  <1>9. FloorReferences'
    <2>1. \A p \in Orders \ raced' : order'[p].placed => order'[p].table # None
      BY <1>2, <1>3, <1>6, <1>8 DEF FloorReferences
    <2>2. ASSUME NEW k \in Handlers, request'[k].op = "deleteTable", NEW p \in Orders \ raced'
          PROVE  order'[p].table # request'[k].t
      <3>1. k # h /\ request'[k] = request[k]
        BY <1>4, <1>5, <2>2
      <3>2. CASE p # o
        BY <1>6, <1>8, <2>2, <3>1, <3>2 DEF FloorReferences, At
      <3>3. CASE p = o
        <4>1. ASSUME t = request[k].t PROVE o \in raced
          <5>1. t \in Writes(request[k]) /\ t \in About(request[h]) /\ o \in About(request[h])
            BY <1>1, <2>2, <3>1, <4>1, AboutOps
          <5> QED BY <1>8, <3>1, <5>1, Together
        <4> QED BY <1>3, <1>6, <2>2, <3>1, <3>3, <4>1
      <3> QED BY <3>2, <3>3
    <2> QED BY <2>1, <2>2 DEF FloorReferences, At
  <1>10. FloorTokens'
    <2>1. \A k \in Handlers \ {h} : request'[k].op \in Renders =>
              request'[k].new.token = request'[k].token
      BY <1>5, <1>8 DEF FloorTokens, Renders
    <2>2. \A k \in Handlers \ {h} : request'[k].op = "regenerate" =>
              \/ request'[k].t \in raced'
              \/ /\ table'[request'[k].t].exists
                 /\ table'[request'[k].t].token = request'[k].token
      BY <1>1, <1>5, <1>8 DEF FloorTokens, At
    <2> QED BY <1>1, <1>4, <1>5, <1>8, <2>1, <2>2 DEF FloorTokens, At, Renders
  <1>11. FloorPictures'
    BY <1>1, <1>4, <1>5, FloorPicturesStay
  <1> QED BY <1>7, <1>9, <1>10, <1>11 DEF FloorInv

LEMMA FloorKeeps ==
    ASSUME FloorState, Floor, raced \subseteq raced'
    PROVE  FloorTyped' /\ FloorInv'
  BY RenderCodeKeeps, CountOrdersKeeps, FindTableKeeps, CreateTableKeeps, ReplaceCodeKeeps,
     DeleteTableKeeps, PlaceOrderKeeps, RemoveFloorKeeps DEF Floor, Renders

-----------------------------------------------------------------------------
(* The whole *)

LEMMA Begins == Init => IInv
  <1> SUFFICES ASSUME Init PROVE IInv
    OBVIOUS
  <1>1. /\ \A h \in Handlers : request[h] = Idle
        /\ request = [h \in Handlers |-> Idle] /\ raced = {} /\ patched = FALSE
        /\ disk = {} /\ made = 0 /\ MaxFiles \in Nat
    BY RegistryAssumption DEF Init
  <1>2. /\ Idle.op = "none" /\ Brings(Idle) = 0 /\ Drops(Idle) = 0
        /\ Writes(Idle) = {} /\ About(Idle) = {}
    BY FileOps, AboutOps DEF Idle
  <1>3. Idle \in MenuRequest /\ Idle \in PeopleRequest /\ Idle \in FloorRequest
    BY DEF MenuRequest, PeopleRequest, FloorRequest
  <1>4. NoFile \in File /\ NoFile.name = 0
    BY DEF NoFile, File
  <1> DEFINE noFood == [state |-> "none", category |-> None, picture |-> NoFile]
             noTable == [exists |-> FALSE, token |-> 0, picture |-> NoFile]
             plain == [exists |-> TRUE, granted |-> {}]
  <1>6. food = [f \in Foods |-> noFood]
    BY DEF Init
  <1>7. noFood \in FoodRow /\ noFood.state = "none" /\ noFood.picture = NoFile
    BY <1>4 DEF FoodRow
  <1> HIDE DEF noFood
  <1>8. /\ food \in [Foods -> FoodRow]
        /\ \A f \in Foods : food[f].state = "none" /\ food[f].picture = NoFile
    BY <1>6, <1>7
  <1>9. category \in [Categories -> {"none", "live", "deleted"}]
    BY DEF Init
  <1>10. role = [r \in Roles |-> plain] /\ table = [t \in Tables |-> noTable]
    BY DEF Init
  <1>11. /\ plain \in RoleRow /\ plain.exists
         /\ noTable \in TableRow /\ ~noTable.exists
    BY <1>1, <1>4 DEF RoleRow, TableRow
  <1> HIDE DEF plain, noTable
  <1>12. /\ role \in [Roles -> RoleRow]
         /\ \A r \in Roles : role[r].exists
         /\ table \in [Tables -> TableRow] /\ \A t \in Tables : ~table[t].exists
    BY <1>10, <1>11
  <1>13. /\ order \in [Orders -> [placed: BOOLEAN, table: Tables \union {None}]]
         /\ \A o \in Orders : ~order[o].placed /\ order[o].table = None
    BY DEF Init
  <1>14. PICK first \in Users :
            user = [v \in Users |-> [state |-> IF v = first THEN "live" ELSE "none",
                                     isActive |-> TRUE, role |-> SuperAdmin]]
    BY DEF Init
  <1>15. user \in [Users -> UserRow] /\ Administrators # {}
         /\ \A u \in Users : user[u].role = SuperAdmin
    <2>1. \A v \in Users : /\ user[v] \in UserRow /\ user[v].role = SuperAdmin
                           /\ user[v].isActive /\ (v = first => user[v].state = "live")
      BY <1>14, RegistryAssumption DEF UserRow
    <2>2. user \in [Users -> UserRow]
      BY <1>14, <2>1
    <2>3. first \in Administrators
      BY <2>1 DEF Administrators
    <2> QED BY <2>1, <2>2, <2>3
  <1>16. TypeInv
    <2>1. area \in {"menu", "people", "floor"}
      BY DEF Init
    <2>2. TypeOK
      BY <1>1, <1>8, <1>9, <1>12, <1>13, <1>15 DEF TypeOK
    <2>3. /\ request \in [Handlers -> MenuRequest] /\ request \in [Handlers -> PeopleRequest]
          /\ request \in [Handlers -> FloorRequest]
      BY <1>1, <1>3
    <2> QED BY <1>1, <2>1, <2>2, <2>3 DEF TypeInv
  <1>17. AllMet
    BY <1>1, <1>2 DEF AllMet, Met, Meet
  <1>18. Carried
    BY <1>1, <1>2 DEF Carried
  <1>19. MenuInv /\ MenuStill
    <2>1. MenuReferences
      BY <1>1, <1>2, <1>8 DEF MenuReferences, Finds
    <2>3. MenuPictures
      BY <1>1, <1>2, <1>4, <1>8, <1>18 DEF MenuPictures
    <2> QED BY <1>8, <2>1, <2>3 DEF MenuInv, MenuStill
  <1>20. PeopleInv /\ PeopleStill
    <2>1. PeopleReferences
      BY <1>1, <1>2, <1>12, <1>15, RegistryAssumption DEF PeopleReferences, At
    <2>3. PeopleAdministered
      BY <1>1, <1>2, <1>15 DEF PeopleAdministered, At
    <2> QED BY <1>12, <1>15, <2>1, <2>3 DEF PeopleInv, PeopleStill
  <1>21. FloorInv /\ FloorStill
    <2>1. FloorReferences
      BY <1>1, <1>2, <1>13 DEF FloorReferences, At
    <2>2. FloorPictures
      BY <1>1, <1>12, <1>18 DEF FloorPictures
    <2>3. FloorTokens
      BY <1>1, <1>2, <1>12 DEF FloorTokens, At
    <2> QED BY <1>12, <1>13, <2>1, <2>2, <2>3 DEF FloorInv, FloorStill
  <1> QED BY <1>16, <1>17, <1>19, <1>20, <1>21 DEF IInv

LEMMA MenuSteps ==
    ASSUME IInv, Next, area = "menu"
    PROVE  IInv'
  <1>1. MenuState /\ TypeInv
    BY DEF IInv, MenuState, MenuTyped, TypeInv, TypeOK
  <1>2. Remember /\ area' = area /\ raced \subseteq raced' /\ AllMet'
    BY RememberMeets DEF Next
  <1>3. (Menu \/ Abort) /\ UNCHANGED <<peopleRows, floorRows>>
    BY DEF Next, Menu, People, Floor, Abort
  <1>4. MenuTyped' /\ MenuInv'
    BY <1>1, <1>2, <1>3, MenuKeeps, AbortMenuKeeps
  <1>5. UNCHANGED <<role, user, patched, table, order>>
    BY <1>3 DEF peopleRows, floorRows
  <1>6. TypeInv'
    <2>1. raced' \subseteq Rows
      BY <1>1, <1>2, <1>4, RacedType DEF MenuTyped
    <2> QED BY <1>1, <1>2, <1>4, <1>5, <2>1 DEF TypeInv, TypeOK, MenuTyped, Rows
  <1>7. PeopleStill' /\ FloorStill'
    BY <1>5 DEF IInv, PeopleStill, FloorStill, Administrators
  <1> QED BY <1>2, <1>4, <1>6, <1>7 DEF IInv

LEMMA PeopleSteps ==
    ASSUME IInv, Next, area = "people"
    PROVE  IInv'
  <1>1. PeopleState /\ TypeInv
    BY DEF IInv, PeopleState, PeopleTyped, TypeInv, TypeOK
  <1>2. Remember /\ area' = area /\ raced \subseteq raced' /\ AllMet'
    BY RememberMeets DEF Next
  <1>3. (People \/ Abort) /\ UNCHANGED <<menuRows, floorRows, files>>
    BY DEF Next, Menu, People, Floor, Abort
  <1>4. PeopleTyped' /\ PeopleInv'
    BY <1>1, <1>2, <1>3, PeopleKeeps, AbortPeopleKeeps
  <1>5. UNCHANGED <<category, food, table, order, disk, made>>
    BY <1>3 DEF menuRows, floorRows, files
  <1>6. TypeInv'
    <2>1. raced' \subseteq Rows
      BY <1>1, <1>2, <1>4, RacedType DEF PeopleTyped
    <2> QED BY <1>1, <1>2, <1>4, <1>5, <2>1 DEF TypeInv, TypeOK, PeopleTyped, Rows
  <1>7. MenuStill' /\ FloorStill'
    BY <1>5 DEF IInv, MenuStill, FloorStill
  <1> QED BY <1>2, <1>4, <1>6, <1>7 DEF IInv

LEMMA FloorSteps ==
    ASSUME IInv, Next, area = "floor"
    PROVE  IInv'
  <1>1. FloorState /\ TypeInv
    BY DEF IInv, FloorState, FloorTyped, TypeInv, TypeOK
  <1>2. Remember /\ area' = area /\ raced \subseteq raced' /\ AllMet'
    BY RememberMeets DEF Next
  <1>3. (Floor \/ Abort) /\ UNCHANGED <<menuRows, peopleRows>>
    BY DEF Next, Menu, People, Floor, Abort
  <1>4. FloorTyped' /\ FloorInv'
    BY <1>1, <1>2, <1>3, FloorKeeps, AbortFloorKeeps
  <1>5. UNCHANGED <<category, food, role, user, patched>>
    BY <1>3 DEF menuRows, peopleRows
  <1>6. TypeInv'
    <2>1. raced' \subseteq Rows
      BY <1>1, <1>2, <1>4, RacedType DEF FloorTyped
    <2> QED BY <1>1, <1>2, <1>4, <1>5, <2>1 DEF TypeInv, TypeOK, FloorTyped, Rows
  <1>7. MenuStill' /\ PeopleStill'
    BY <1>5 DEF IInv, MenuStill, PeopleStill, Administrators
  <1> QED BY <1>2, <1>4, <1>6, <1>7 DEF IInv

\* The inductive invariant holds in every reachable state.
THEOREM Inductive == Spec => []IInv
  <1>1. IInv /\ [Next]_vars => IInv'
    <2> SUFFICES ASSUME IInv, [Next]_vars PROVE IInv'
      OBVIOUS
    <2>1. CASE Next
      <3>1. area \in {"menu", "people", "floor"}
        BY DEF IInv, TypeInv
      <3> QED BY <2>1, <3>1, MenuSteps, PeopleSteps, FloorSteps
    <2>2. CASE UNCHANGED vars
      <3>1. UNCHANGED <<area, category, food, role, user, table, order, disk, made, request,
                        raced, patched>>
        BY <2>2 DEF vars
      <3>2. TypeInv'
        BY <3>1 DEF IInv, TypeInv, TypeOK
      <3>3. AllMet' /\ (Carried => Carried')
        BY <3>1 DEF IInv, AllMet, Met, Meet, Carried
      <3>4. MenuInv => MenuInv'
        BY <3>1, <3>3 DEF MenuInv, MenuReferences, Finds, MenuPictures, At
      <3>5. PeopleInv => PeopleInv'
        BY <3>1 DEF PeopleInv, PeopleReferences, PeopleAdministered,
                    Administrators, At
      <3>6. FloorInv => FloorInv'
        BY <3>1, <3>3 DEF FloorInv, FloorReferences, FloorPictures, FloorTokens, At
      <3>7. /\ MenuStill => MenuStill'
            /\ PeopleStill => PeopleStill'
            /\ FloorStill => FloorStill'
        BY <3>1 DEF MenuStill, PeopleStill, FloorStill, Administrators
      <3> QED BY <3>1, <3>2, <3>3, <3>4, <3>5, <3>6, <3>7 DEF IInv
    <2> QED BY <2>1, <2>2
  <1> QED BY <1>1, Begins, PTL DEF Spec

\* Every row and every file keeps its shape, whatever requests write over each other.
THEOREM TypeCorrect == Spec => []TypeOK
  <1>1. IInv => TypeOK
    BY DEF IInv, TypeInv
  <1> QED BY <1>1, Inductive, PTL

\* Nothing is orphaned: checking first and writing afterwards leaves a dish without its
\* category, or an order without its table, only when the two requests met (createFood,
\* updateFood, deleteCategory, deleteTable); an account never loses its role, and a
\* role that is gone grants nothing (deleteRole, setRolePermissions).
THEOREM NothingIsOrphaned == Spec => []ReferencesResolve
  <1>1. IInv => ReferencesResolve
    <2> SUFFICES ASSUME IInv PROVE ReferencesResolve
      OBVIOUS
    <2>1. \A f \in Foods \ raced : food[f].state = "live" => category[food[f].category] = "live"
      BY DEF IInv, MenuInv, MenuReferences, MenuStill
    <2>2. \A o \in Orders \ raced : order[o].placed => order[o].table # None
      BY DEF IInv, FloorInv, FloorReferences, FloorStill
    <2>3. \A u \in Users : user[u].state # "none" => role[user[u].role].exists
      <3>1. CASE area = "people"
        BY <3>1 DEF IInv, PeopleInv, PeopleReferences
      <3>2. CASE area # "people"
        <4>1. \A u \in Users : user[u] \in UserRow
          BY DEF IInv, TypeInv, TypeOK
        <4>2. \A u \in Users : user[u].role \in Roles
          BY <4>1 DEF UserRow
        <4> QED BY <3>2, <4>2 DEF IInv, PeopleStill
      <3> QED BY <3>1, <3>2
    <2>4. \A r \in Roles : role[r].granted # {} => role[r].exists
      BY DEF IInv, PeopleInv, PeopleReferences, PeopleStill
    <2> QED BY <2>1, <2>2, <2>3, <2>4 DEF ReferencesResolve
  <1> QED BY <1>1, Inductive, PTL

\* The house is never left without an active super administrator, unless two
\* deactivations were in flight together or a PATCH took one away (deactivateUser,
\* updateUser), whoever asks for a deactivation: each has counted another one, and that
\* one is still there unless a request it has met, or a PATCH, took it away.
THEOREM SomeoneIsInCharge == Spec => []SomeoneAdministers
  <1>1. IInv => SomeoneAdministers
    BY DEF IInv, PeopleInv, PeopleAdministered, PeopleStill, SomeoneAdministers
  <1> QED BY <1>1, Inductive, PTL

\* No row names a picture that is gone, and a table's code opens that table: a file is
\* removed only after no row names it, by the request whose row dropped it (updateFood,
\* rotateQrToken, regenerateQrImage, deleteTable).
THEOREM PicturesAreThere == Spec => []PictureIsThere
  <1>1. IInv => PictureIsThere
    <2> SUFFICES ASSUME IInv PROVE PictureIsThere
      OBVIOUS
    <2>1. \A f \in Foods : food[f].picture # NoFile => food[f].picture.name \in disk
      BY DEF IInv, MenuInv, MenuPictures, MenuStill
    <2>2. \A t \in Tables : table[t].exists =>
             /\ table[t].picture.name \in disk
             /\ t \in raced \/ table[t].picture.token = table[t].token
      BY DEF IInv, FloorInv, FloorPictures, FloorTokens, FloorStill
    <2> QED BY <2>1, <2>2 DEF PictureIsThere
  <1> QED BY <1>1, Inductive, PTL
=============================================================================
