----------------------------- MODULE BackOffice ------------------------------
(***************************************************************************)
(* The forms of the back office: AdminSettings and AdminBanking over the   *)
(* one settings row, AdminContent over the welcome page and its reviews,   *)
(* AdminMenu over a dish or a category, AdminRoles over the permissions of *)
(* a role.  A form is filled from the query cache of its browser, kept     *)
(* while others save, and sent back by rules of its own: some send every   *)
(* box, some drop the blank ones, some never show what is stored.          *)
(*                                                                         *)
(* A behaviour is about one row and one browser at the desk that edits it. *)
(* Everybody else's forms are there through what they can send: anything.  *)
(***************************************************************************)
EXTENDS Integers, FiniteSets

CONSTANTS Texts,       \* what is typed into a box; "" is a cleared one
          House,       \* the name the banking form shows when none is stored
          MaxSaves     \* bound: saves ever written

ASSUME BackOfficeAssumption == "" \notin Texts /\ House \in Texts /\ MaxSaves \in Nat

VARIABLES
    desk,       \* the row this behaviour is about
    row,        \* its columns; rev is history: the save that last changed a column
    saves,      \* saves written so far
    cache,      \* what the browser's query last answered
    reading,    \* what the query in flight read on the server
    failed,     \* the last query failed, retries included
    form,       \* the form that is open
    saving,     \* the request the browser waits for
    told        \* history: the save the browser was told of and reads again for, and
                \* whether it joined a first load that was under way

vars == <<desk, row, saves, cache, reading, failed, form, saving, told>>
server == <<row, saves>>
query  == <<cache, reading, failed, told>>

Forms == [ settings |-> {"settings", "banking"}, content |-> {"content"}, dish |-> {"dish"},
           category |-> {"category"}, review |-> {"review"}, role |-> {"role"} ]
Fields == [ settings |-> {"phone", "isAcceptingOrders"},
            banking  |-> {"bankingName", "razorpayKeySecret"},
            content  |-> {"heroTitle", "bannerText"},
            dish     |-> {"description", "isFeatured"},
            category |-> {"description", "isActive"},
            review   |-> {"visitedOn", "isVisible"},
            role     |-> {"permissions"} ]
\* One-tap switches beside the form.
Taps(d) == CASE d = "dish"   -> {"isAvailable", "isFeatured"}
             [] d = "review" -> {"isVisible"}
             [] OTHER        -> {}

Switches   == {"isAcceptingOrders", "isFeatured", "isAvailable", "isActive", "isVisible"}
Columns(d) == (UNION { Fields[k] : k \in Forms[d] }) \union Taps(d)
Values(f)  == IF f \in Switches THEN {"on", "off"} ELSE Texts \union {""}
Flip(v)    == IF v = "on" THEN "off" ELSE "on"
Entries(F) == { s \in [F -> UNION { Values(f) : f \in F }] : \A f \in F : s[f] \in Values(f) }

\* The modal forms close when they are saved; the pages stay.
Modals  == {"dish", "category", "review"}
\* Screens that show nothing but the error once their query has failed.
GoneOnError == {"settings", "content", "dish", "role"}

NotRead == [f \in {} |-> ""]
NoForm  == [kind |-> "none"]
NoSave  == [state |-> "no"]
NotTold == [at |-> 0, shown |-> NotRead, joined |-> FALSE]
IsOpen  == form # NoForm

\* getAdminSettings: of a secret only whether it is set ever leaves the server.
Masked(f, v) == IF f = "razorpayKeySecret" /\ v # "" THEN "set" ELSE v
Shown(r)     == [f \in DOMAIN r |-> [r[f] EXCEPT !.val = Masked(f, @)]]

Init ==
    /\ desk \in DOMAIN Forms
    /\ \E v \in Entries(Columns(desk)) : row = [f \in Columns(desk) |-> [val |-> v[f], rev |-> 0]]
    /\ saves = 0 /\ failed = FALSE
    /\ cache = NotRead /\ reading = NotRead
    /\ form = NoForm /\ saving = NoSave /\ told = NotTold

-----------------------------------------------------------------------------
(* The query behind a screen *)

\* While a query without an answer is under way the screen is loading: an error it had is
\* gone, and so is the banking form that was shown beside it.
Load ==
    /\ reading' = Shown(row)
    /\ failed'  = (failed /\ cache # NotRead)

FormWhileLoading == IF cache = NotRead THEN NoForm ELSE form

\* On mount, every few seconds where the screen polls, when the network is back, and on
\* "try again".  The server reads the row; the answer comes later.
Refetch ==
    /\ reading = NotRead
    /\ Load
    /\ form' = FormWhileLoading
    /\ told' = NotTold
    /\ UNCHANGED <<server, cache, saving>>

\* What a form shows when it is filled from r, or from nothing.
Fill(kind, r) == [ f \in Fields[kind] |->
    IF f = "razorpayKeySecret" \/ f \notin DOMAIN r
    THEN [val |-> IF f = "bankingName" THEN House ELSE "", rev |-> -1]
    ELSE IF f = "bankingName" /\ r[f].val = "" THEN [r[f] EXCEPT !.val = House]
    ELSE r[f] ]

Filled(kind, r) == [ kind |-> kind, filled |-> Fill(kind, r), typed |-> {},
                     shown |-> [f \in Fields[kind] |-> Fill(kind, r)[f].val] ]

\* A box keeps what it was filled with; one that was empty and never typed into takes
\* the value of the newer answer.
Follows(w, f) == /\ w.kind \in {"settings", "banking", "content"}
                 /\ w.shown[f] = "" /\ f \notin w.typed

Refilled(w, r) ==
    LET now == Fill(w.kind, r)
    IN  [w EXCEPT
           !.shown  = [f \in DOMAIN @ |-> IF Follows(w, f) THEN now[f].val ELSE @[f]],
           !.filled = [f \in DOMAIN @ |-> IF Follows(w, f) THEN now[f] ELSE @[f]]]

AnswerRead ==
    /\ reading # NotRead
    /\ cache' = reading
    /\ form' = IF IsOpen THEN Refilled(form, reading) ELSE form
    /\ reading' = NotRead /\ failed' = FALSE
    /\ UNCHANGED <<server, saving, told>>

\* A failed query takes the page away.  What was typed goes with it where only the boxes
\* held it; a dish comes back as it was filled, the draft of a role as it was left.
FailRead ==
    /\ reading # NotRead
    /\ form' = CASE form.kind \in {"settings", "content"} -> NoForm
                 [] form.kind = "dish" ->
                       [form EXCEPT !.shown = [f \in DOMAIN @ |-> form.filled[f].val], !.typed = {}]
                 [] OTHER -> form
    /\ reading' = NotRead /\ failed' = TRUE /\ told' = NotTold
    /\ UNCHANGED <<server, cache, saving>>

-----------------------------------------------------------------------------
(* The forms *)

\* AdminBanking shows its form whenever it is not loading, so after a failed first load too.
Open(kind) ==
    /\ ~IsOpen
    /\ cache # NotRead \/ (kind = "banking" /\ failed)
    /\ failed => kind \notin GoneOnError
    /\ form' = Filled(kind, cache)
    /\ UNCHANGED <<server, query, saving>>

Close ==
    /\ IsOpen
    /\ form' = NoForm
    /\ UNCHANGED <<server, query, saving>>

\* Boxes the submit leaves out of the request.
Omitted(kind, shown) ==
    { f \in DOMAIN shown \ Switches : shown[f] = "" /\ (kind \in Modals \/ f = "razorpayKeySecret") }

\* submitDish, submitReview, submitContent, the two handleSubmits, savePermissions: an
\* unchecked box is sent as false.
Sent(kind, shown) == [f \in DOMAIN shown \ Omitted(kind, shown) |-> shown[f]]

\* What the browser rules let through: a name is required, a draft must differ.
MaySubmit(kind, shown) ==
    /\ kind = "banking" => shown["bankingName"] # ""
    /\ kind = "role"    => shown["permissions"] # cache["permissions"].val

\* The boxes are filled in and the form is submitted.
Submit(shown) ==
    /\ IsOpen /\ saving = NoSave /\ saves < MaxSaves
    /\ failed => form.kind \notin GoneOnError
    /\ MaySubmit(form.kind, shown)
    /\ form' = [form EXCEPT !.shown = shown,
                            !.typed = @ \union { f \in DOMAIN shown : shown[f] # form.shown[f] }]
    /\ saving' = [ state |-> "sent", kind |-> form.kind, payload |-> Sent(form.kind, shown),
                   shown |-> shown, seen |-> form.filled,
                   touched |-> { f \in DOMAIN shown : shown[f] # form.filled[f].val } ]
    /\ UNCHANGED <<server, query>>

\* toggleAvailability, toggleFeatured, toggleVisibility: the opposite of what is shown.
Tap(f) ==
    /\ ~IsOpen /\ saving = NoSave /\ saves < MaxSaves
    /\ cache # NotRead /\ (failed => desk \notin GoneOnError)
    /\ LET payload == [g \in {f} |-> Flip(cache[f].val)]
       IN  saving' = [ state |-> "sent", kind |-> "tap", payload |-> payload,
                       shown |-> payload, seen |-> NotRead, touched |-> {f} ]
    /\ UNCHANGED <<server, query, form>>

\* updateSettingsSchema: a phone, once sent, has at least six characters.
Refused(payload) == "phone" \in DOMAIN payload /\ payload["phone"] = ""

\* (mutant) what the request leaves out is cleared
StoredWhole(payload) ==
    [f \in DOMAIN row |-> IF f \in DOMAIN payload THEN payload[f]
                          ELSE IF f \in Switches THEN "off" ELSE ""]

\* updateSettings, updateContent, updateFood, setAvailability and the like: what the
\* request carries, an empty secret apart.
Stored(payload) ==
    [f \in DOMAIN row |-> IF f \in DOMAIN payload /\ ~(f = "razorpayKeySecret" /\ payload[f] = "")
                          THEN payload[f] ELSE row[f].val]

Write(payload) ==
    /\ saves' = saves + 1
    /\ row' = [f \in DOMAIN row |-> LET v == Stored(payload)[f]
                                    IN  IF v = row[f].val THEN row[f]
                                        ELSE [val |-> v, rev |-> saves + 1]]

\* The row is written.  (history: a page that stays open now shows what is stored)
Save ==
    /\ saving.state = "sent"
    /\ IF Refused(saving.payload)
       THEN saving' = NoSave /\ UNCHANGED <<server, form>>
       ELSE /\ Write(saving.payload)
            /\ saving' = [state |-> "saved", at |-> saves', kind |-> saving.kind,
                          shown |-> saving.shown]
            /\ form' = IF form.kind = saving.kind /\ form.kind \notin Modals
                       THEN [form EXCEPT !.filled = Fill(form.kind, row')] ELSE form
    /\ UNCHANGED query

\* Somebody else's form or switch.
OthersSave ==
    /\ saves < MaxSaves
    /\ \/ \E kind \in Forms[desk] : \E shown \in Entries(Fields[kind]) :
              ~Refused(shown) /\ Write(Sent(kind, shown))
       \/ \E f \in Taps(desk) : \E v \in Values(f) : Write([g \in {f} |-> v])
    /\ UNCHANGED <<query, form, saving>>

\* (mutant) a query already in flight is waited for instead of started again
InvalidateUncancelled ==
    IF reading = NotRead THEN Load ELSE UNCHANGED <<reading, failed>>

\* A first load that is under way has nothing it could keep on showing.
FirstLoad == cache = NotRead /\ reading # NotRead

\* invalidateQueries: a query in flight is cancelled and started again, but for a first
\* load, which is waited for: it may have read the row before the save.
Invalidate == IF FirstLoad THEN UNCHANGED <<reading, failed>> ELSE Load

\* onSuccess: the modal that is open closes, the one submitted or not, unless a switch was tapped.
AnswerSave ==
    /\ saving.state = "saved"
    /\ told' = [at |-> saving.at, shown |-> saving.shown, joined |-> FirstLoad]
    /\ form' = IF form.kind \in Modals /\ saving.kind # "tap" THEN NoForm
               ELSE FormWhileLoading
    /\ Invalidate
    /\ saving' = NoSave
    /\ UNCHANGED <<server, cache>>

\* onError: the answer never came.
FailSave ==
    /\ saving # NoSave
    /\ saving' = NoSave
    /\ UNCHANGED <<server, query, form>>

Next ==
    /\ \/ Refetch \/ AnswerRead \/ FailRead
       \/ \E kind \in Forms[desk] : Open(kind)
       \/ Close
       \/ IsOpen /\ \E shown \in Entries(Fields[form.kind]) : Submit(shown)
       \/ \E f \in Taps(desk) : Tap(f)
       \/ Save \/ OthersSave \/ AnswerSave \/ FailSave
    /\ UNCHANGED desk

Spec == Init /\ [][Next]_vars

-----------------------------------------------------------------------------
TypeOK ==
    /\ DOMAIN row = Columns(desk)
    /\ \A f \in DOMAIN row : row[f].val \in Values(f) /\ row[f].rev \in 0 .. saves
    /\ saves \in 0 .. MaxSaves + 1 /\ failed \in BOOLEAN
    /\ \A r \in {cache, reading} :
          r # NotRead =>
              /\ DOMAIN r = Columns(desk)
              /\ \A f \in DOMAIN r : r[f].val \in IF f = "razorpayKeySecret"
                                              THEN {"", "set"} ELSE Values(f)
    /\ IsOpen => form.kind \in Forms[desk] /\ form.shown \in Entries(Fields[form.kind])
    /\ saving.state = "sent" => DOMAIN saving.payload \subseteq Columns(desk)

\* Boxes that come back as they were when they are cleared: the blank boxes of a modal are
\* dropped from the request, and a blank secret is kept.
KeptWhenCleared == {"description", "visitedOn", "razorpayKeySecret"}

\* Someone who was told a save went through sees it: once the query that follows has
\* answered, every box they submitted shows what they submitted, or a later change by
\* somebody else, whatever answers were under way (submitDish .. invalidate); but for a
\* cleared box that the form leaves out, and for the banking form when it was sent after a
\* failed first load and the save is answered while the next one is still under way.
SavedIsShown ==
    reading = NotRead =>
        \A f \in DOMAIN told.shown :
            \/ cache[f].rev > told.at
            \/ cache[f].val = Masked(f, told.shown[f])
            \/ f \in KeptWhenCleared /\ told.shown[f] = ""
            \/ told.joined /\ f \in Fields["banking"]

\* A save changes what its editor changed.  Another column changes only when the form was
\* filled before somebody else changed it, or from no answer at all, and sends it all the
\* same; never the secret, nor the sold-out switch, which no form carries; and a null
\* banking name, over which the form shows the name of the house.
UntouchedIsKept ==
    [][ saving.state = "sent" /\ saving'.state = "saved" =>
          \A f \in DOMAIN row :
              \/ row'[f].val = row[f].val
              \/ f \in saving.touched
              \/ /\ f \in DOMAIN saving.seen \ {"razorpayKeySecret"}
                 /\ saving.seen[f].rev # row[f].rev
              \/ f = "bankingName" /\ row[f].val = "" ]_vars
=============================================================================
