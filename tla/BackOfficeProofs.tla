--------------------------- MODULE BackOfficeProofs ---------------------------
(***************************************************************************)
(* Proofs about the forms of the back office, for any texts and any number *)
(* of saves.                                                               *)
(*                                                                         *)
(* Every copy of a column, in an answer, in a form or in a request, still   *)
(* names the save it was read after, and no save is ever given the number  *)
(* of an earlier one: a copy with the column's number has its value         *)
(* (Answer, Seen).  What the browser was told of is in the row the next     *)
(* query reads, or under a later save (RowReflects, Reflects).              *)
(*                                                                         *)
(* And about who may open those forms: for any roles that are drawn up and *)
(* any number of changes, a copy of a role made since the last change is   *)
(* the role (CopiesTrue), and what the pages ask is held against what the  *)
(* routes need, page by page (TablesAgree).                                *)
(***************************************************************************)
EXTENDS BackOffice, Access, TLAPS

Secret     == "razorpayKeySecret"
Offered(f) == IF f = Secret THEN {"", "set"} ELSE Values(f)

\* R is a row of desk d after n saves.
IsRow(R, n, d) ==
    /\ d \in DOMAIN Forms /\ n \in Nat
    /\ DOMAIN R = Columns(d)
    /\ \A f \in Columns(d) : R[f] \in [val: Values(f), rev: 0 .. n]

\* r is nothing, or an answer that shows the row as it was, a secret masked.
Answer(r, R, n) ==
    r # NotRead =>
        /\ DOMAIN r = DOMAIN R
        /\ \A f \in DOMAIN R :
              /\ r[f] \in [val: Offered(f), rev: 0 .. n]
              /\ r[f].rev = R[f].rev => r[f].val = Masked(f, R[f].val)

\* s is what the boxes of a form were filled with; c is one of them.
Box(c, f, R, n) ==
    /\ c \in [val: Values(f), rev: -1 .. n]
    /\ f = Secret => c.val = ""
    /\ f # Secret /\ c.rev = R[f].rev =>
          \/ c.val = R[f].val
          \/ f = "bankingName" /\ R[f].val = ""
Seen(s, kind, R, n) ==
    /\ DOMAIN s = Fields[kind]
    /\ \A f \in Fields[kind] : Box(s[f], f, R, n)

IsForm(w, d, R, n) ==
    w # NoForm =>
        /\ DOMAIN w = {"kind", "filled", "typed", "shown"}
        /\ w.kind \in Forms[d] /\ Seen(w.filled, w.kind, R, n)
        /\ w.shown \in Entries(Fields[w.kind])

\* A submitted box is in what was read, under a later change, or one the form leaves out.
Reflects(r, at, shown) ==
    \A f \in DOMAIN shown : \/ r[f].rev > at
                            \/ r[f].val = Masked(f, shown[f])
                            \/ f \in KeptWhenCleared /\ shown[f] = ""
RowReflects(R, at, shown) ==
    \A f \in DOMAIN shown : \/ R[f].rev > at
                            \/ R[f].val = shown[f]
                            \/ f \in KeptWhenCleared /\ shown[f] = ""

\* What the browser waits for: a form or a switch that was sent, or a save.
FormSave(s, d, R, n) ==
    /\ s.kind \in Forms[d] /\ s.shown \in Entries(Fields[s.kind])
    /\ s.payload = Sent(s.kind, s.shown)
    /\ Seen(s.seen, s.kind, R, n)
    /\ s.touched = { f \in DOMAIN s.shown : s.shown[f] # s.seen[f].val }
TapSave(s, d) ==
    \E f \in Taps(d), v \in {"on", "off"} :
        /\ s.kind = "tap" /\ s.touched = {f}
        /\ s.payload = [g \in {f} |-> v] /\ s.shown = [g \in {f} |-> v]
IsSave(s, d, R, n) ==
    \/ s = NoSave
    \/ s.state = "sent" /\ n <= MaxSaves /\ (FormSave(s, d, R, n) \/ TapSave(s, d))
    \/ /\ s.state = "saved" /\ s.at \in 0 .. n
       /\ DOMAIN s.shown \subseteq Columns(d)
       /\ RowReflects(R, s.at, s.shown)

\* Before a first answer there is no form but the banking form.
NothingRead(c, w, s) ==
    c = NotRead =>
        /\ w # NoForm => w.kind = "banking"
        /\ s # NoSave => DOMAIN s.shown \subseteq Fields["banking"]

\* What the query in flight, or else the last one, answers.
Latest == IF reading = NotRead THEN cache ELSE reading

IInv == /\ IsRow(row, saves, desk) /\ saves <= MaxSaves + 1 /\ failed \in BOOLEAN
        /\ Answer(cache, row, saves) /\ Answer(reading, row, saves)
        /\ IsForm(form, desk, row, saves)
        /\ IsSave(saving, desk, row, saves)
        /\ NothingRead(cache, form, saving)
        /\ DOMAIN told.shown \subseteq Columns(desk)
        /\ IF told.joined THEN DOMAIN told.shown \subseteq Fields["banking"]
           ELSE Reflects(Latest, told.at, told.shown)

-----------------------------------------------------------------------------
(* Desks, forms and their columns *)

LEMMA MaxSavesType == MaxSaves \in Nat
  BY BackOfficeAssumption

\* What a request the browser waits for is, by how far it has come.
LEMMA SaveStates ==
    ASSUME NEW s, NEW d, NEW R, NEW n, IsSave(s, d, R, n)
    PROVE  /\ s.state = "sent" => n <= MaxSaves /\ (FormSave(s, d, R, n) \/ TapSave(s, d))
           /\ s.state = "saved" => /\ s.at \in 0 .. n
                                  /\ DOMAIN s.shown \subseteq Columns(d)
                                  /\ RowReflects(R, s.at, s.shown)
  BY DEF IsSave, NoSave

Kinds == {"settings", "banking", "content", "dish", "category", "review", "role"}

LEMMA FormKinds ==
    ASSUME NEW d \in DOMAIN Forms, NEW kind \in Forms[d]
    PROVE  kind \in Kinds /\ Fields[kind] \subseteq Columns(d)
  <1>1. d \in {"settings", "content", "dish", "category", "review", "role"}
    BY DEF Forms
  <1>2. kind \in Kinds
    BY <1>1 DEF Forms, Kinds
  <1> QED BY <1>2 DEF Columns

LEMMA FieldsAre ==
    /\ Fields["settings"] = {"phone", "isAcceptingOrders"}
    /\ Fields["banking"]  = {"bankingName", "razorpayKeySecret"}
    /\ Fields["content"]  = {"heroTitle", "bannerText"}
    /\ Fields["dish"]     = {"description", "isFeatured"}
    /\ Fields["category"] = {"description", "isActive"}
    /\ Fields["review"]   = {"visitedOn", "isVisible"}
    /\ Fields["role"]     = {"permissions"}
  BY DEF Fields

LEMMA SomeColumn ==
    ASSUME NEW d \in DOMAIN Forms
    PROVE  Columns(d) # {}
  <1>1. PICK kind \in Forms[d] : TRUE
    BY DEF Forms
  <1>2. kind \in Kinds /\ Fields[kind] \subseteq Columns(d)
    BY FormKinds
  <1>3. Fields[kind] # {}
    BY <1>2, FieldsAre DEF Kinds
  <1> QED BY <1>2, <1>3

LEMMA TapsAreSwitches ==
    ASSUME NEW d, NEW f \in Taps(d)
    PROVE  /\ f \in Columns(d) /\ f \in Switches /\ f # Secret
           /\ Values(f) = {"on", "off"} /\ f \notin {"phone", "bankingName"}
  <1>1. f \in {"isAvailable", "isFeatured", "isVisible"}
    <2>1. CASE d = "dish"
      BY <2>1 DEF Taps
    <2>2. CASE d = "review"
      BY <2>2 DEF Taps
    <2>3. CASE d \notin {"dish", "review"}
      <3>1. Taps(d) = {}
        BY <2>3 DEF Taps
      <3> QED BY <3>1
    <2> QED BY <2>1, <2>2, <2>3
  <1>2. f \in Columns(d)
    BY DEF Columns
  <1> QED BY <1>1, <1>2 DEF Switches, Values, Secret

\* A form leaves out only boxes that stay when they are cleared.
LEMMA OmittedIsKept ==
    ASSUME NEW kind \in Kinds, NEW shown, DOMAIN shown = Fields[kind],
           NEW f \in Omitted(kind, shown)
    PROVE  f \in KeptWhenCleared /\ shown[f] = ""
  <1>1. /\ f \in Fields[kind] /\ f \notin Switches /\ shown[f] = ""
        /\ kind \in Modals \/ f = Secret
    BY DEF Omitted, Secret
  <1>2. CASE f = Secret
    BY <1>1, <1>2 DEF Secret, KeptWhenCleared
  <1>3. CASE kind \in Modals
    BY <1>1, <1>3, FieldsAre DEF Modals, Switches, KeptWhenCleared
  <1> QED BY <1>1, <1>2, <1>3

LEMMA EntriesMade ==
    ASSUME NEW F, NEW s, s = [f \in F |-> s[f]], \A f \in F : s[f] \in Values(f)
    PROVE  s \in Entries(F)
  BY DEF Entries

LEMMA EntriesAre ==
    ASSUME NEW F, NEW s \in Entries(F)
    PROVE  DOMAIN s = F /\ \A f \in F : s[f] \in Values(f)
  BY DEF Entries

-----------------------------------------------------------------------------
(* Copies of a row, and the saves that pass over it *)

\* Row S after m saves is row R after n saves, or comes of one more.
Later(S, m, R, n) ==
    /\ DOMAIN S = DOMAIN R /\ m \in {n, n + 1}
    /\ \A f \in DOMAIN R : S[f] = R[f] \/ S[f].rev = n + 1

LEMMA AnswerStands ==
    ASSUME NEW r, NEW R, NEW n \in Nat, NEW S, NEW m, Later(S, m, R, n), Answer(r, R, n)
    PROVE  Answer(r, S, m)
  <1> SUFFICES ASSUME r # NotRead, NEW f \in DOMAIN R
               PROVE  /\ r[f] \in [val: Offered(f), rev: 0 .. m]
                      /\ r[f].rev = S[f].rev => r[f].val = Masked(f, S[f].val)
    BY DEF Answer, Later
  <1>1. /\ r[f] \in [val: Offered(f), rev: 0 .. n]
        /\ r[f].rev = R[f].rev => r[f].val = Masked(f, R[f].val)
    BY DEF Answer
  <1>2. r[f].rev # n + 1 /\ r[f] \in [val: Offered(f), rev: 0 .. m]
    BY <1>1 DEF Later
  <1> QED BY <1>1, <1>2 DEF Later

LEMMA SeenStands ==
    ASSUME NEW s, NEW kind, NEW R, NEW n \in Nat, NEW S, NEW m, Later(S, m, R, n),
           Fields[kind] \subseteq DOMAIN R, Seen(s, kind, R, n)
    PROVE  Seen(s, kind, S, m)
  <1> SUFFICES ASSUME NEW f \in Fields[kind] PROVE Box(s[f], f, S, m)
    BY DEF Seen
  <1>1. s[f] \in [val: Values(f), rev: -1 .. n] /\ s[f].rev \in -1 .. n
    BY DEF Seen, Box
  <1>2. s[f] \in [val: Values(f), rev: -1 .. m] /\ s[f].rev # n + 1
    BY <1>1 DEF Later
  <1>3. /\ f = Secret => s[f].val = ""
        /\ f # Secret /\ s[f].rev = R[f].rev =>
              \/ s[f].val = R[f].val
              \/ f = "bankingName" /\ R[f].val = ""
    BY DEF Seen, Box
  <1>4. S[f] = R[f] \/ S[f].rev = n + 1
    BY DEF Later
  <1> QED BY <1>2, <1>3, <1>4 DEF Box

LEMMA FormStands ==
    ASSUME NEW w, NEW d, NEW R, NEW n, NEW S, NEW m, IsRow(R, n, d), Later(S, m, R, n),
           IsForm(w, d, R, n)
    PROVE  IsForm(w, d, S, m)
  BY FormKinds, SeenStands DEF IsForm, IsRow

LEMMA SaveStands ==
    ASSUME NEW s, NEW d, NEW R, NEW n, NEW S, NEW m, IsRow(R, n, d), Later(S, m, R, n),
           m <= MaxSaves, IsSave(s, d, R, n)
    PROVE  IsSave(s, d, S, m)
  <1>1. CASE s = NoSave
    BY <1>1 DEF IsSave
  <1>2. CASE s.state = "sent" /\ (FormSave(s, d, R, n) \/ TapSave(s, d))
    BY <1>2, FormKinds, SeenStands DEF IsSave, FormSave, IsRow
  <1>3. CASE /\ s.state = "saved" /\ s.at \in 0 .. n
             /\ DOMAIN s.shown \subseteq Columns(d) /\ RowReflects(R, s.at, s.shown)
    <2>1. n \in Nat /\ s.at \in 0 .. m /\ n + 1 > s.at
      BY <1>3 DEF Later, IsRow
    <2>2. RowReflects(S, s.at, s.shown)
      BY <1>3, <2>1 DEF RowReflects, Later, IsRow
    <2> QED BY <1>3, <2>1, <2>2 DEF IsSave
  <1> QED BY <1>1, <1>2, <1>3 DEF IsSave

LEMMA ShownAnswers ==
    ASSUME NEW R, NEW n, NEW d, IsRow(R, n, d)
    PROVE  /\ Answer(Shown(R), R, n) /\ Shown(R) # NotRead
           /\ \A f \in Columns(d) : /\ Shown(R)[f].val = Masked(f, R[f].val)
                                    /\ Shown(R)[f].rev = R[f].rev
  <1> DEFINE r == Shown(R)
  <1>1. DOMAIN r = Columns(d) /\ DOMAIN R = Columns(d)
    BY DEF Shown, IsRow
  <1>2. ASSUME NEW f \in Columns(d)
        PROVE  /\ r[f].val = Masked(f, R[f].val) /\ r[f].rev = R[f].rev
               /\ r[f] \in [val: Offered(f), rev: 0 .. n]
    <2>1. R[f] \in [val: Values(f), rev: 0 .. n]
      BY DEF IsRow
    <2>2. r[f] = [R[f] EXCEPT !.val = Masked(f, R[f].val)]
      BY <1>1 DEF Shown
    <2>3. Masked(f, R[f].val) \in Offered(f)
      BY <2>1 DEF Masked, Offered, Secret
    <2> QED BY <2>1, <2>2, <2>3
  <1>3. r # NotRead
    BY <1>1, SomeColumn DEF IsRow, NotRead
  <1> HIDE DEF r
  <1>4. Answer(r, R, n)
    BY <1>1, <1>2 DEF Answer
  <1> QED BY <1>2, <1>3, <1>4 DEF r

\* What a form is filled with, from an answer or from the row itself; AdminBanking is filled
\* from nothing too.
LEMMA FillIsSeen ==
    ASSUME NEW R, NEW n, NEW d, IsRow(R, n, d), NEW kind \in Forms[d], NEW r,
           DOMAIN r = DOMAIN R \/ (r = NotRead /\ kind = "banking"),
           \A f \in DOMAIN r \ {Secret} :
              /\ r[f] \in [val: Values(f), rev: 0 .. n]
              /\ r[f].rev = R[f].rev => r[f].val = R[f].val
    PROVE  Seen(Fill(kind, r), kind, R, n)
  <1>1. kind \in Kinds /\ Fields[kind] \subseteq Columns(d) /\ n \in Nat
    BY FormKinds DEF IsRow
  <1>2. DOMAIN Fill(kind, r) = Fields[kind]
    BY DEF Fill
  <1>3. ASSUME NEW f \in Fields[kind]
        PROVE  Box(Fill(kind, r)[f], f, R, n)
    <2> DEFINE c == Fill(kind, r)[f]
    <2>1. /\ -1 \in -1 .. n /\ -1 \notin 0 .. n
          /\ \A i \in 0 .. n : i \in -1 .. n
      BY <1>1
    <2>2. R[f] \in [val: Values(f), rev: 0 .. n] /\ R[f].rev # -1
      BY <1>1, <2>1 DEF IsRow
    <2>3. House \in Values("bankingName") /\ "" \in Values(Secret) /\ Secret # "bankingName"
      BY BackOfficeAssumption DEF Values, Switches, Secret
    <2>4. CASE f = Secret
      <3>1. c = [val |-> "", rev |-> -1]
        BY <2>3, <2>4 DEF Fill, Secret
      <3> HIDE DEF c
      <3>2. Box(c, f, R, n)
        BY <2>1, <2>3, <2>4, <3>1 DEF Box
      <3> QED BY <3>2 DEF c
    <2>5. CASE f # Secret /\ f \notin DOMAIN r
      <3>1. f = "bankingName"
        BY <1>1, <2>5, FieldsAre DEF IsRow, Secret
      <3>2. c = [val |-> House, rev |-> -1]
        BY <2>5, <3>1 DEF Fill, Secret
      <3> HIDE DEF c
      <3>3. Box(c, f, R, n)
        BY <2>1, <2>2, <2>3, <2>5, <3>1, <3>2 DEF Box
      <3> QED BY <3>3 DEF c
    <2>6. CASE f # Secret /\ f \in DOMAIN r
      <3>1. /\ r[f] \in [val: Values(f), rev: 0 .. n]
            /\ r[f].rev = R[f].rev => r[f].val = R[f].val
        BY <2>6
      <3>2. CASE f = "bankingName" /\ r[f].val = ""
        <4>1. c = [r[f] EXCEPT !.val = House]
          BY <2>6, <3>2 DEF Fill, Secret
        <4>2. c = [val |-> House, rev |-> r[f].rev] /\ r[f].rev \in -1 .. n
          BY <2>1, <3>1, <4>1
        <4> HIDE DEF c
        <4>3. Box(c, f, R, n)
          BY <2>3, <2>6, <3>1, <3>2, <4>2 DEF Box
        <4> QED BY <4>3 DEF c
      <3>3. CASE ~(f = "bankingName" /\ r[f].val = "")
        <4>1. c = r[f]
          BY <2>6, <3>3 DEF Fill, Secret
        <4>2. r[f] \in [val: Values(f), rev: -1 .. n]
          BY <2>1, <3>1
        <4>3. Box(r[f], f, R, n)
          BY <2>6, <3>1, <4>2 DEF Box
        <4> QED BY <4>1, <4>3
      <3> QED BY <3>2, <3>3
    <2> QED BY <2>4, <2>5, <2>6
  <1> QED BY <1>2, <1>3 DEF Seen

LEMMA FillFromAnswer ==
    ASSUME NEW R, NEW n, NEW d, IsRow(R, n, d), NEW kind \in Forms[d], NEW r,
           Answer(r, R, n), r # NotRead \/ kind = "banking"
    PROVE  Seen(Fill(kind, r), kind, R, n)
  <1>1. DOMAIN r = DOMAIN R \/ (r = NotRead /\ kind = "banking")
    BY DEF Answer
  <1>2. ASSUME NEW f \in DOMAIN r \ {Secret}
        PROVE  /\ r[f] \in [val: Values(f), rev: 0 .. n]
               /\ r[f].rev = R[f].rev => r[f].val = R[f].val
    <2>1. r # NotRead /\ f \in DOMAIN R
      BY DEF Answer, NotRead
    <2> QED BY <2>1 DEF Answer, Offered, Masked, Secret
  <1> QED BY <1>1, <1>2, FillIsSeen

LEMMA FillFromRow ==
    ASSUME NEW R, NEW n, NEW d, IsRow(R, n, d), NEW kind \in Forms[d]
    PROVE  Seen(Fill(kind, R), kind, R, n)
  BY FillIsSeen DEF IsRow

LEMMA FilledIsForm ==
    ASSUME NEW R, NEW n, NEW d, IsRow(R, n, d), NEW kind \in Forms[d], NEW r,
           Answer(r, R, n), r # NotRead \/ kind = "banking"
    PROVE  IsForm(Filled(kind, r), d, R, n)
  <1> DEFINE s == Fill(kind, r)
             w == Filled(kind, r)
             e == [f \in Fields[kind] |-> s[f].val]
  <1>1. Seen(s, kind, R, n)
    BY FillFromAnswer
  <1>2. w = [kind |-> kind, filled |-> s, typed |-> {}, shown |-> e]
    BY DEF Filled
  <1> HIDE DEF s
  <1>3. \A f \in Fields[kind] : s[f].val \in Values(f)
    BY <1>1 DEF Seen, Box
  <1>4. e \in Entries(Fields[kind])
    BY <1>3, EntriesMade
  <1> HIDE DEF w, e
  <1>5. /\ DOMAIN w = {"kind", "filled", "typed", "shown"} /\ w.kind = kind
        /\ w.filled = s /\ w.shown = e
    BY <1>2
  <1>6. IsForm(w, d, R, n)
    BY <1>1, <1>4, <1>5 DEF IsForm
  <1> QED BY <1>6 DEF w

\* A newer answer refills the boxes that follow it.
LEMMA RefilledIsForm ==
    ASSUME NEW R, NEW n, NEW d, IsRow(R, n, d), NEW r, Answer(r, R, n), r # NotRead,
           NEW w, w # NoForm, IsForm(w, d, R, n)
    PROVE  IsForm(Refilled(w, r), d, R, n)
  <1> DEFINE kind == w.kind
             new == Fill(kind, r)
             shown == [f \in DOMAIN w.shown |-> IF Follows(w, f) THEN new[f].val ELSE w.shown[f]]
             filled == [f \in DOMAIN w.filled |-> IF Follows(w, f) THEN new[f] ELSE w.filled[f]]
             next == [w EXCEPT !.shown = shown, !.filled = filled]
  <1>1. /\ DOMAIN w = {"kind", "filled", "typed", "shown"} /\ kind \in Forms[d]
        /\ Seen(w.filled, kind, R, n) /\ w.shown \in Entries(Fields[kind])
    BY DEF IsForm
  <1>2. Refilled(w, r) = next
    BY DEF Refilled
  <1>3. Seen(new, kind, R, n)
    BY <1>1, FillFromAnswer
  <1>4. DOMAIN w.shown = Fields[kind] /\ \A f \in Fields[kind] : w.shown[f] \in Values(f)
    BY <1>1, EntriesAre
  <1> HIDE DEF new
  <1>5. \A f \in Fields[kind] : shown[f] \in Values(f)
    BY <1>3, <1>4 DEF Seen, Box
  <1>6. shown \in Entries(Fields[kind])
    BY <1>4, <1>5, EntriesMade
  <1>7. Seen(filled, kind, R, n)
    <2>1. DOMAIN filled = Fields[kind] /\ DOMAIN w.filled = Fields[kind]
      BY <1>1 DEF Seen
    <2>2. \A f \in Fields[kind] : filled[f] \in {new[f], w.filled[f]}
      BY <2>1
    <2> HIDE DEF filled
    <2> QED BY <1>1, <1>3, <2>1, <2>2 DEF Seen
  <1> HIDE DEF shown, filled, kind
  <1>8. /\ DOMAIN next = {"kind", "filled", "typed", "shown"} /\ next.kind = w.kind
        /\ next.filled = filled /\ next.shown = shown
    BY <1>1
  <1> QED BY <1>1, <1>2, <1>6, <1>7, <1>8 DEF IsForm, kind

-----------------------------------------------------------------------------
(* What is sent, and what becomes of the row *)

LEMMA SentIsTyped ==
    ASSUME NEW d \in DOMAIN Forms, NEW kind \in Forms[d], NEW shown \in Entries(Fields[kind])
    PROVE  /\ DOMAIN Sent(kind, shown) = Fields[kind] \ Omitted(kind, shown)
           /\ DOMAIN Sent(kind, shown) \subseteq Columns(d)
           /\ \A f \in DOMAIN Sent(kind, shown) : /\ Sent(kind, shown)[f] = shown[f]
                                                  /\ Sent(kind, shown)[f] \in Values(f)
  BY FormKinds, EntriesAre DEF Sent

LEMMA WriteKeeps ==
    ASSUME IsRow(row, saves, desk), desk' = desk, NEW payload, DOMAIN payload \subseteq Columns(desk),
           \A f \in DOMAIN payload : payload[f] \in Values(f),
           Write(payload)
    PROVE  /\ IsRow(row', saves', desk') /\ Later(row', saves', row, saves) /\ saves' = saves + 1
           /\ \A f \in Columns(desk) : row'[f].val = Stored(payload)[f]
  <1>1. saves \in Nat /\ DOMAIN row = Columns(desk) /\ saves' = saves + 1
    BY DEF IsRow, Write
  <1>2. \A f \in Columns(desk) : row[f] \in [val: Values(f), rev: 0 .. saves]
    BY DEF IsRow
  <1>3. /\ DOMAIN row' = Columns(desk)
        /\ \A f \in Columns(desk) :
              row'[f] = IF Stored(payload)[f] = row[f].val THEN row[f]
                        ELSE [val |-> Stored(payload)[f], rev |-> saves + 1]
    BY <1>1 DEF Write
  <1>4. \A f \in Columns(desk) : Stored(payload)[f] \in Values(f)
    BY <1>1, <1>2 DEF Stored
  <1>5. 0 .. saves \subseteq 0 .. saves' /\ saves + 1 \in 0 .. saves' /\ saves' \in Nat
    BY <1>1
  <1>6. \A f \in Columns(desk) : row'[f] \in [val: Values(f), rev: 0 .. saves']
    BY <1>2, <1>3, <1>4, <1>5
  <1>7. \A f \in Columns(desk) : /\ row'[f].val = Stored(payload)[f]
                                 /\ row'[f] = row[f] \/ row'[f].rev = saves + 1
    BY <1>3
  <1>8. Later(row', saves', row, saves)
    BY <1>1, <1>3, <1>7 DEF Later
  <1> QED BY <1>1, <1>3, <1>5, <1>6, <1>7, <1>8 DEF IsRow

\* A request carries what its boxes show, but for the boxes it may leave out.
Carries(s, d) ==
    /\ DOMAIN s.payload \subseteq Columns(d) /\ DOMAIN s.shown \subseteq Columns(d)
    /\ \A f \in DOMAIN s.payload : s.payload[f] \in Values(f) /\ s.payload[f] = s.shown[f]
    /\ \A f \in DOMAIN s.shown \ DOMAIN s.payload : f \in KeptWhenCleared /\ s.shown[f] = ""

LEMMA FormSends ==
    ASSUME NEW d \in DOMAIN Forms, NEW R, NEW n, NEW s, FormSave(s, d, R, n)
    PROVE  /\ DOMAIN s.shown = Fields[s.kind]
           /\ DOMAIN s.payload = Fields[s.kind] \ Omitted(s.kind, s.shown)
  <1> DEFINE kind == s.kind
             shown == s.shown
  <1>1. kind \in Forms[d] /\ shown \in Entries(Fields[kind]) /\ s.payload = Sent(kind, shown)
    BY DEF FormSave
  <1> HIDE DEF kind, shown
  <1>2. DOMAIN s.payload = Fields[kind] \ Omitted(kind, shown)
    BY <1>1, SentIsTyped
  <1>3. DOMAIN shown = Fields[kind]
    BY <1>1, EntriesAre
  <1> QED BY <1>2, <1>3 DEF kind, shown

LEMMA SaveIsTyped ==
    ASSUME NEW d \in DOMAIN Forms, NEW R, NEW n, NEW s,
           FormSave(s, d, R, n) \/ TapSave(s, d)
    PROVE  Carries(s, d)
  <1>1. CASE FormSave(s, d, R, n)
    <2>1. /\ s.kind \in Forms[d] /\ s.shown \in Entries(Fields[s.kind])
          /\ s.payload = Sent(s.kind, s.shown)
      BY <1>1 DEF FormSave
    <2>2. s.kind \in Kinds /\ Fields[s.kind] \subseteq Columns(d) /\ DOMAIN s.shown = Fields[s.kind]
      BY <2>1, FormKinds, EntriesAre
    <2> DEFINE kind == s.kind
               shown == s.shown
    <2>3. kind \in Forms[d] /\ shown \in Entries(Fields[kind]) /\ s.payload = Sent(kind, shown)
      BY <2>1
    <2> HIDE DEF kind, shown
    <2>5. /\ DOMAIN s.payload = Fields[kind] \ Omitted(kind, shown)
          /\ DOMAIN s.payload \subseteq Columns(d)
          /\ \A f \in DOMAIN s.payload : s.payload[f] \in Values(f) /\ s.payload[f] = shown[f]
      BY <2>3, SentIsTyped
    <2>4. \A f \in Omitted(s.kind, s.shown) : f \in KeptWhenCleared /\ s.shown[f] = ""
      BY <2>2, OmittedIsKept
    <2> QED BY <2>2, <2>4, <2>5 DEF kind, shown, Carries
  <1>2. CASE TapSave(s, d)
    <2>1. PICK f \in Taps(d), v \in {"on", "off"} :
             s.payload = [g \in {f} |-> v] /\ s.shown = [g \in {f} |-> v]
      BY <1>2 DEF TapSave
    <2>2. f \in Columns(d) /\ v \in Values(f)
      BY TapsAreSwitches
    <2> QED BY <2>1, <2>2 DEF Carries
  <1> QED BY <1>1, <1>2

\* What the request carried is in the row; what it left out is a box that stays.
LEMMA StoredReflects ==
    ASSUME DOMAIN row = Columns(desk), desk \in DOMAIN Forms, NEW s, NEW R, NEW n, NEW at,
           FormSave(s, desk, R, n) \/ TapSave(s, desk),
           NEW S, \A f \in Columns(desk) : S[f].val = Stored(s.payload)[f]
    PROVE  RowReflects(S, at, s.shown)
  <1> SUFFICES ASSUME NEW f \in DOMAIN s.shown
               PROVE  S[f].val = s.shown[f] \/ (f \in KeptWhenCleared /\ s.shown[f] = "")
    BY DEF RowReflects
  <1>0. Carries(s, desk)
    BY SaveIsTyped
  <1>1. CASE f \in DOMAIN s.payload
    <2>1. s.payload[f] = s.shown[f] /\ f \in Columns(desk)
      BY <1>0, <1>1 DEF Carries
    <2>2. CASE f = Secret /\ s.payload[f] = ""
      BY <2>1, <2>2 DEF KeptWhenCleared, Secret
    <2>3. CASE ~(f = Secret /\ s.payload[f] = "")
      <3>1. Stored(s.payload)[f] = s.payload[f]
        BY <1>1, <2>1, <2>3 DEF Stored, Secret
      <3> QED BY <2>1, <3>1
    <2> QED BY <2>2, <2>3
  <1>2. CASE f \notin DOMAIN s.payload
    BY <1>0, <1>2 DEF Carries
  <1> QED BY <1>1, <1>2

-----------------------------------------------------------------------------
(* The inductive invariant, step by step *)

LEMMA Begins == Init => IInv
  <1> SUFFICES ASSUME Init PROVE IInv
    OBVIOUS
  <1>1. PICK v \in Entries(Columns(desk)) :
           row = [f \in Columns(desk) |-> [val |-> v[f], rev |-> 0]]
    BY DEF Init
  <1>2. \A f \in Columns(desk) : v[f] \in Values(f)
    BY EntriesAre
  <1>3. IsRow(row, saves, desk)
    BY <1>1, <1>2 DEF Init, IsRow
  <1>4. DOMAIN told.shown = {}
    BY DEF Init, NotTold, NotRead
  <1>5. Answer(cache, row, saves) /\ Answer(reading, row, saves)
    BY DEF Init, Answer
  <1>6. IsForm(form, desk, row, saves) /\ IsSave(saving, desk, row, saves)
    BY DEF Init, IsForm, IsSave
  <1>7. saves <= MaxSaves + 1 /\ failed \in BOOLEAN
    <2>1. saves = 0 /\ failed = FALSE
      BY DEF Init
    <2>2. saves <= MaxSaves + 1
      BY <2>1, MaxSavesType
    <2> QED BY <2>1, <2>2
  <1>8. NothingRead(cache, form, saving)
    BY DEF Init, NothingRead
  <1> QED BY <1>3, <1>4, <1>5, <1>6, <1>7, <1>8 DEF IInv, Reflects

LEMMA QueryKeeps ==
    ASSUME IInv, Refetch \/ AnswerRead \/ FailRead, desk' = desk
    PROVE  IInv'
  <1>1. /\ IsRow(row, saves, desk) /\ Answer(cache, row, saves) /\ Answer(reading, row, saves)
        /\ IsForm(form, desk, row, saves)
    BY DEF IInv
  <1>2. row' = row /\ saves' = saves /\ saving' = saving
    BY DEF Refetch, AnswerRead, FailRead, server
  <1>3. DOMAIN NotTold.shown = {}
    BY DEF NotTold, NotRead
  <1>4. CASE Refetch
    <2>1. /\ reading' = Shown(row) /\ told' = NotTold /\ cache' = cache
          /\ failed' \in BOOLEAN
          /\ form' = form \/ form' = NoForm
      BY <1>4 DEF Refetch, Load, FormWhileLoading
    <2>2. Answer(reading', row', saves')
      BY <1>1, <1>2, <2>1, ShownAnswers
    <2>3. DOMAIN told'.shown = {}
      BY <1>3, <2>1
    <2>4. NothingRead(cache', form', saving')
      BY <1>2, <2>1 DEF IInv, NothingRead
    <2>5. IsForm(form', desk', row', saves')
      BY <1>1, <1>2, <2>1 DEF IsForm
    <2> QED BY <1>2, <2>1, <2>2, <2>3, <2>4, <2>5 DEF IInv, Reflects
  <1>5. CASE AnswerRead
    <2>1. /\ cache' = reading /\ reading # NotRead /\ reading' = NotRead /\ failed' = FALSE
          /\ told' = told
          /\ form' = IF form # NoForm THEN Refilled(form, reading) ELSE form
      BY <1>5 DEF AnswerRead, IsOpen
    <2>2. IsForm(form', desk', row', saves')
      BY <1>1, <1>2, <2>1, RefilledIsForm
    <2>3. Latest' = Latest
      BY <2>1 DEF Latest
    <2>4. Answer(reading', row', saves')
      BY <2>1 DEF Answer
    <2>5. NothingRead(cache', form', saving')
      BY <2>1 DEF NothingRead
    <2> QED BY <1>1, <1>2, <2>1, <2>2, <2>3, <2>4, <2>5 DEF IInv
  <1>6. CASE FailRead
    <2>1. /\ reading' = NotRead /\ failed' = TRUE /\ told' = NotTold /\ cache' = cache
      BY <1>6 DEF FailRead
    <2>2. Answer(reading', row', saves')
      BY <2>1 DEF Answer
    <2>3. DOMAIN told'.shown = {}
      BY <1>3, <2>1
    <2>4. IsForm(form', desk', row', saves')
      <3> DEFINE filled == [f \in DOMAIN form.shown |-> form.filled[f].val]
                 next == [form EXCEPT !.shown = filled, !.typed = {}]
      <3>1. \/ form' = NoForm
            \/ form' = form
            \/ form.kind = "dish" /\ form' = next
        BY <1>6 DEF FailRead
      <3>2. CASE form' = NoForm
        BY <3>2 DEF IsForm
      <3>3. CASE form' = form
        BY <1>1, <1>2, <3>3
      <3>4. CASE form.kind = "dish" /\ form' = next
        <4>1. form # NoForm
          BY <3>4 DEF NoForm
        <4>2. /\ DOMAIN form = {"kind", "filled", "typed", "shown"} /\ form.kind \in Forms[desk]
              /\ Seen(form.filled, form.kind, row, saves)
              /\ form.shown \in Entries(Fields[form.kind])
          BY <1>1, <4>1 DEF IsForm
        <4>3. DOMAIN form.shown = Fields[form.kind]
          BY <4>2, EntriesAre
        <4>4. \A f \in Fields[form.kind] : form.filled[f].val \in Values(f)
          BY <4>2 DEF Seen, Box
        <4>5. filled \in Entries(Fields[form.kind])
          BY <4>3, <4>4, EntriesMade
        <4> HIDE DEF filled
        <4>6. /\ DOMAIN next = {"kind", "filled", "typed", "shown"} /\ next.kind = form.kind
              /\ next.filled = form.filled /\ next.shown = filled
          BY <4>2
        <4> QED BY <1>2, <3>4, <4>2, <4>5, <4>6 DEF IsForm
      <3> QED BY <3>1, <3>2, <3>3, <3>4
    <2>5. NothingRead(cache', form', saving')
      <3> SUFFICES ASSUME cache = NotRead, form' # NoForm
                   PROVE  form'.kind = "banking"
        BY <1>2, <2>1 DEF IInv, NothingRead
      <3>1. form # NoForm
        BY <1>6 DEF FailRead, NoForm
      <3>2. form.kind = "banking"
        BY <3>1 DEF IInv, NothingRead
      <3>3. form' = form
        BY <1>6, <3>2 DEF FailRead
      <3> QED BY <3>2, <3>3
    <2> QED BY <1>2, <2>1, <2>2, <2>3, <2>4, <2>5 DEF IInv, Reflects
  <1> QED BY <1>4, <1>5, <1>6

LEMMA OpenKeeps ==
    ASSUME IInv, NEW kind \in Forms[desk], Open(kind), desk' = desk
    PROVE  IInv'
  <1>1. /\ UNCHANGED <<row, saves, cache, reading, failed, told, saving>>
        /\ form' = Filled(kind, cache)
        /\ cache # NotRead \/ kind = "banking"
    BY DEF Open, server, query
  <1>2. IsForm(form', desk', row', saves')
    BY <1>1, FilledIsForm DEF IInv
  <1>3. NothingRead(cache', form', saving')
    BY <1>1 DEF IInv, NothingRead, Filled
  <1> QED BY <1>1, <1>2, <1>3 DEF IInv, Latest, Reflects

LEMMA CloseKeeps ==
    ASSUME IInv, Close, desk' = desk
    PROVE  IInv'
  <1>1. UNCHANGED <<row, saves, cache, reading, failed, told, saving>> /\ form' = NoForm
    BY DEF Close, server, query
  <1> QED BY <1>1 DEF IInv, Latest, Reflects, IsForm, NothingRead

LEMMA SubmitKeeps ==
    ASSUME IInv, IsOpen, NEW shown \in Entries(Fields[form.kind]), Submit(shown), desk' = desk
    PROVE  IInv'
  <1> DEFINE typed == form.typed \union { f \in DOMAIN shown : shown[f] # form.shown[f] }
             touched == { f \in DOMAIN shown : shown[f] # form.filled[f].val }
             payload == Sent(form.kind, shown)
             next == [form EXCEPT !.shown = shown, !.typed = typed]
             s == [ state |-> "sent", kind |-> form.kind, payload |-> payload,
                    shown |-> shown, seen |-> form.filled, touched |-> touched ]
  <1>1. /\ UNCHANGED <<row, saves, cache, reading, failed, told>>
        /\ form' = next /\ saving' = s /\ saves < MaxSaves
    BY DEF Submit, server, query
  <1>2. /\ DOMAIN form = {"kind", "filled", "typed", "shown"} /\ form.kind \in Forms[desk]
        /\ Seen(form.filled, form.kind, row, saves) /\ saves \in Nat
    BY DEF IInv, IsForm, IsOpen, IsRow
  <1> HIDE DEF typed
  <1>3. /\ DOMAIN next = {"kind", "filled", "typed", "shown"} /\ next.kind = form.kind
        /\ next.filled = form.filled /\ next.shown = shown
    BY <1>2
  <1>4. IsForm(form', desk', row', saves')
    BY <1>1, <1>2, <1>3 DEF IsForm
  <1>5. FormSave(s, desk, row, saves)
    <2> HIDE DEF payload, touched
    <2>1. /\ s.kind = form.kind /\ s.shown = shown /\ s.payload = payload
          /\ s.seen = form.filled /\ s.touched = touched
      OBVIOUS
    <2> HIDE DEF s
    <2> QED BY <1>2, <2>1 DEF FormSave, payload, touched
  <1>6. s.state = "sent" /\ saves <= MaxSaves
    BY <1>1, <1>2, MaxSavesType
  <1>8. s.shown = shown /\ DOMAIN shown = Fields[form.kind]
    BY EntriesAre
  <1> HIDE DEF s, next
  <1>9. NothingRead(cache', form', saving')
    BY <1>1, <1>3, <1>8 DEF IInv, NothingRead, IsOpen
  <1>7. IsSave(saving', desk', row', saves')
    BY <1>1, <1>5, <1>6 DEF IsSave
  <1> QED BY <1>1, <1>4, <1>7, <1>9 DEF IInv, Latest, Reflects

LEMMA TapKeeps ==
    ASSUME IInv, NEW f \in Taps(desk), Tap(f), desk' = desk
    PROVE  IInv'
  <1> DEFINE v == Flip(cache[f].val)
             payload == [g \in {f} |-> v]
             s == [ state |-> "sent", kind |-> "tap", payload |-> payload,
                    shown |-> payload, seen |-> NotRead, touched |-> {f} ]
  <1>1. /\ UNCHANGED <<row, saves, cache, reading, failed, told, form>>
        /\ saving' = s /\ saves < MaxSaves
    BY DEF Tap, server, query
  <1>2. v \in {"on", "off"}
    BY DEF Flip
  <1> HIDE DEF v
  <1>3. TapSave(s, desk) /\ s.state = "sent"
    BY <1>2 DEF TapSave
  <1>4. saves <= MaxSaves
    BY <1>1, MaxSavesType DEF IInv, IsRow
  <1> HIDE DEF s
  <1>5. IsSave(saving', desk', row', saves')
    BY <1>1, <1>3, <1>4 DEF IsSave
  <1>6. NothingRead(cache', form', saving')
    BY <1>1 DEF Tap, NothingRead
  <1> QED BY <1>1, <1>5, <1>6 DEF IInv, Latest, Reflects

\* Another save goes over every copy: what it changes gets a number no copy has.
LEMMA CopiesStand ==
    ASSUME IInv, IsRow(row', saves', desk'), Later(row', saves', row, saves), desk' = desk,
           UNCHANGED query, saves' <= MaxSaves + 1,
           form' = form \/ IsForm(form', desk', row', saves'), IsSave(saving', desk', row', saves'),
           NothingRead(cache, form', saving')
    PROVE  IInv'
  <1>1. UNCHANGED <<cache, reading, failed, told>> /\ saves \in Nat
    BY DEF query, IInv, IsRow
  <1>2. Answer(cache', row', saves') /\ Answer(reading', row', saves')
    BY <1>1, AnswerStands DEF IInv
  <1>3. IsForm(form', desk', row', saves')
    BY FormStands DEF IInv
  <1> QED BY <1>1, <1>2, <1>3 DEF IInv, Latest, Reflects

LEMMA OthersSaveKeeps ==
    ASSUME IInv, OthersSave, desk' = desk
    PROVE  IInv'
  <1>1. UNCHANGED <<query, form, saving>> /\ saves < MaxSaves /\ saves \in Nat
        /\ IsRow(row, saves, desk) /\ IsSave(saving, desk, row, saves)
    BY DEF OthersSave, IInv, IsRow
  <1> DEFINE Legal(payload) == /\ DOMAIN payload \subseteq Columns(desk)
                               /\ \A f \in DOMAIN payload : payload[f] \in Values(f)
  <1>2. \E payload : Legal(payload) /\ Write(payload)
    <2>1. ASSUME NEW kind \in Forms[desk], NEW shown \in Entries(Fields[kind]),
                 Write(Sent(kind, shown))
          PROVE  \E payload : Legal(payload) /\ Write(payload)
      BY <1>1, <2>1, SentIsTyped DEF IsRow
    <2>2. ASSUME NEW f \in Taps(desk), NEW v \in Values(f), Write([g \in {f} |-> v])
          PROVE  \E payload : Legal(payload) /\ Write(payload)
      <3> DEFINE payload == [g \in {f} |-> v]
      <3>1. Legal(payload)
        BY TapsAreSwitches
      <3> HIDE DEF payload
      <3>2. Write(payload)
        BY <2>2 DEF payload
      <3> QED BY <3>1, <3>2
    <2> QED BY <2>1, <2>2 DEF OthersSave
  <1>3. /\ IsRow(row', saves', desk') /\ Later(row', saves', row, saves)
        /\ saves' = saves + 1
    BY <1>1, <1>2, WriteKeeps
  <1>4. saves' <= MaxSaves
    BY <1>1, <1>3, MaxSavesType
  <1>5. IsSave(saving', desk', row', saves')
    BY <1>1, <1>3, <1>4, SaveStands
  <1>6. NothingRead(cache, form', saving')
    BY <1>1 DEF IInv, NothingRead
  <1> QED BY <1>1, <1>3, <1>4, <1>5, <1>6, CopiesStand, MaxSavesType

LEMMA SaveKeeps ==
    ASSUME IInv, Save, desk' = desk
    PROVE  IInv'
  <1>1. saving.state = "sent" /\ UNCHANGED query
    BY DEF Save
  <1>2. /\ IsRow(row, saves, desk) /\ desk \in DOMAIN Forms /\ saves \in Nat /\ saves <= MaxSaves
        /\ FormSave(saving, desk, row, saves) \/ TapSave(saving, desk)
    BY <1>1, SaveStates DEF IInv, IsRow
  <1>3. CASE Refused(saving.payload)
    <2>1. saving' = NoSave /\ UNCHANGED <<row, saves, form>>
      BY <1>3 DEF Save, server
    <2> QED BY <1>1, <2>1 DEF IInv, query, Latest, Reflects, IsSave, NothingRead
  <1>4. CASE ~Refused(saving.payload)
    <2> DEFINE s == [state |-> "saved", at |-> saves', kind |-> saving.kind, shown |-> saving.shown]
               next == [form EXCEPT !.filled = Fill(form.kind, row')]
    <2>1. /\ Write(saving.payload) /\ saving' = s
          /\ form' = IF form.kind = saving.kind /\ form.kind \notin Modals THEN next ELSE form
      BY <1>4 DEF Save
    <2>2. /\ DOMAIN saving.payload \subseteq Columns(desk) /\ DOMAIN saving.shown \subseteq Columns(desk)
          /\ \A f \in DOMAIN saving.payload : saving.payload[f] \in Values(f)
      <3>1. Carries(saving, desk)
        BY <1>2, SaveIsTyped
      <3> QED BY <3>1 DEF Carries
    <2>3. /\ IsRow(row', saves', desk') /\ Later(row', saves', row, saves)
          /\ saves' = saves + 1
          /\ \A f \in Columns(desk) : row'[f].val = Stored(saving.payload)[f]
      BY <1>2, <2>1, <2>2, WriteKeeps
    <2>4. RowReflects(row', saves', saving.shown)
      BY <1>2, <2>3, StoredReflects DEF IsRow
    <2>5. /\ s.state = "saved" /\ s.at = saves' /\ s.shown = saving.shown
          /\ saves' \in 0 .. saves' /\ saves' <= MaxSaves + 1
      BY <1>2, <2>3, MaxSavesType
    <2> HIDE DEF s
    <2>6. IsSave(saving', desk', row', saves')
      BY <2>1, <2>2, <2>4, <2>5 DEF IsSave
    <2>7. form' = form \/ IsForm(form', desk', row', saves')
      <3> SUFFICES ASSUME form.kind = saving.kind, form' = next
                   PROVE  IsForm(form', desk', row', saves')
        BY <2>1
      <3>1. form # NoForm
        <4>1. saving.kind \in Kinds \union {"tap"}
          BY <1>2, FormKinds DEF FormSave, TapSave
        <4> QED BY <4>1 DEF NoForm, Kinds
      <3>2. /\ DOMAIN form = {"kind", "filled", "typed", "shown"} /\ form.kind \in Forms[desk]
            /\ form.shown \in Entries(Fields[form.kind])
        BY <3>1 DEF IInv, IsForm
      <3>3. Seen(Fill(form.kind, row'), form.kind, row', saves')
        BY <2>3, <3>2, FillFromRow
      <3>4. /\ DOMAIN next = {"kind", "filled", "typed", "shown"} /\ next.kind = form.kind
            /\ next.filled = Fill(form.kind, row') /\ next.shown = form.shown
        BY <3>2
      <3> HIDE DEF next
      <3> QED BY <3>2, <3>3, <3>4 DEF IsForm
    <2>8. NothingRead(cache, form', saving')
      <3> SUFFICES ASSUME cache = NotRead
                   PROVE  /\ form' # NoForm => form'.kind = "banking"
                          /\ DOMAIN s.shown \subseteq Fields["banking"]
        BY <2>1 DEF NothingRead
      <3>1. saving # NoSave
        BY <1>1 DEF NoSave
      <3>2. /\ form # NoForm => form.kind = "banking"
            /\ DOMAIN saving.shown \subseteq Fields["banking"]
        BY <3>1 DEF IInv, NothingRead
      <3>3. ASSUME form' = next, form' # form PROVE form'.kind = form.kind /\ form # NoForm
        <4>1. form.kind = saving.kind
          BY <2>1, <3>3
        <4>2. saving.kind \in Kinds \union {"tap"}
          BY <1>2, FormKinds DEF FormSave, TapSave
        <4>3. form # NoForm
          BY <4>1, <4>2 DEF NoForm, Kinds
        <4>4. DOMAIN form = {"kind", "filled", "typed", "shown"}
          BY <4>3 DEF IInv, IsForm
        <4> QED BY <3>3, <4>3, <4>4
      <3>4. form' = next \/ form' = form
        BY <2>1
      <3> HIDE DEF next
      <3> QED BY <2>5, <3>2, <3>3, <3>4
    <2> QED BY <1>1, <2>3, <2>5, <2>6, <2>7, <2>8, CopiesStand
  <1> QED BY <1>3, <1>4

\* What the browser is told of is in the row that the query then reads; only a first load
\* is not started again.
LEMMA AnswerSaveKeeps ==
    ASSUME IInv, AnswerSave, desk' = desk
    PROVE  IInv'
  <1>1. /\ saving.state = "saved" /\ saving' = NoSave
        /\ told' = [at |-> saving.at, shown |-> saving.shown, joined |-> FirstLoad]
        /\ form' = form \/ form' = NoForm
        /\ UNCHANGED <<row, saves, cache>>
    BY DEF AnswerSave, FormWhileLoading, server
  <1>2. /\ IsRow(row, saves, desk) /\ DOMAIN saving.shown \subseteq Columns(desk)
        /\ RowReflects(row, saving.at, saving.shown) /\ failed \in BOOLEAN
    BY <1>1, SaveStates DEF IInv
  <1>3. IsForm(form', desk', row', saves')
    BY <1>1 DEF IInv, IsForm
  <1>4. NothingRead(cache', form', saving')
    BY <1>1 DEF IInv, NothingRead
  <1>5. CASE FirstLoad
    <2>1. UNCHANGED <<reading, failed>> /\ told'.joined /\ told'.shown = saving.shown
      BY <1>1, <1>5 DEF AnswerSave, Invalidate
    <2>2. DOMAIN saving.shown \subseteq Fields["banking"]
      BY <1>1, <1>5 DEF IInv, NothingRead, FirstLoad, NoSave
    <2> QED BY <1>1, <1>2, <1>3, <1>4, <2>1, <2>2 DEF IInv, IsSave
  <1>6. CASE ~FirstLoad
    <2>1. reading' = Shown(row) /\ failed' \in BOOLEAN
      BY <1>1, <1>2, <1>6 DEF AnswerSave, Invalidate, Load
    <2>2. /\ Answer(Shown(row), row, saves) /\ Shown(row) # NotRead
          /\ \A f \in Columns(desk) : /\ Shown(row)[f].val = Masked(f, row[f].val)
                                      /\ Shown(row)[f].rev = row[f].rev
      BY <1>2, ShownAnswers
    <2>3. Reflects(Shown(row), saving.at, saving.shown)
      BY <1>2, <2>2 DEF Reflects, RowReflects
    <2>4. /\ Latest' = Shown(row) /\ told'.at = saving.at /\ told'.shown = saving.shown
          /\ ~told'.joined
      BY <1>1, <1>6, <2>1, <2>2 DEF Latest
    <2> QED BY <1>1, <1>2, <1>3, <1>4, <2>1, <2>2, <2>3, <2>4 DEF IInv, IsSave
  <1> QED BY <1>5, <1>6

LEMMA FailSaveKeeps ==
    ASSUME IInv, FailSave, desk' = desk
    PROVE  IInv'
  <1>1. saving' = NoSave /\ UNCHANGED <<row, saves, cache, reading, failed, told, form>>
    BY DEF FailSave, server, query
  <1> QED BY <1>1 DEF IInv, Latest, Reflects, IsSave, NothingRead

\* The inductive invariant holds in every reachable state.
THEOREM Inductive == Spec => []IInv
  <1>1. IInv /\ [Next]_vars => IInv'
    <2> SUFFICES ASSUME IInv, [Next]_vars PROVE IInv'
      OBVIOUS
    <2>1. CASE Next
      BY <2>1, QueryKeeps, OpenKeeps, CloseKeeps, SubmitKeeps, TapKeeps, SaveKeeps, OthersSaveKeeps,
         AnswerSaveKeeps, FailSaveKeeps DEF Next
    <2>2. CASE UNCHANGED vars
      BY <2>2 DEF vars, IInv, Latest
    <2> QED BY <2>1, <2>2
  <1> QED BY <1>1, Begins, PTL DEF Spec

\* Every row, answer, form and request keeps its type, whatever is typed, saved or lost.
THEOREM TypeCorrect == Spec => []TypeOK
  <1>1. IInv => TypeOK
    <2> SUFFICES ASSUME IInv PROVE TypeOK
      OBVIOUS
    <2>1. /\ DOMAIN row = Columns(desk)
          /\ \A f \in DOMAIN row : row[f].val \in Values(f) /\ row[f].rev \in 0 .. saves
          /\ desk \in DOMAIN Forms /\ saves \in Nat
      BY DEF IInv, IsRow
    <2>2. saves \in 0 .. MaxSaves + 1
      BY <2>1, MaxSavesType DEF IInv
    <2>3. \A r \in {cache, reading} : r # NotRead =>
             /\ DOMAIN r = Columns(desk)
             /\ \A f \in DOMAIN r : r[f].val \in IF f = "razorpayKeySecret"
                                             THEN {"", "set"} ELSE Values(f)
      <3> DEFINE Good(r) == r # NotRead =>
             /\ DOMAIN r = Columns(desk)
             /\ \A f \in DOMAIN r : r[f].val \in IF f = "razorpayKeySecret"
                                             THEN {"", "set"} ELSE Values(f)
      <3>1. ASSUME NEW r, Answer(r, row, saves) PROVE Good(r)
        BY <2>1, <3>1 DEF Answer, Offered, Secret
      <3>2. Answer(cache, row, saves) /\ Answer(reading, row, saves)
        BY DEF IInv
      <3> HIDE DEF Good
      <3>3. Good(cache) /\ Good(reading)
        BY <3>1, <3>2
      <3>4. \A r \in {cache, reading} : Good(r)
        BY <3>3
      <3> QED BY <3>4 DEF Good
    <2>4. IsOpen => form.kind \in Forms[desk] /\ form.shown \in Entries(Fields[form.kind])
      BY DEF IInv, IsForm, IsOpen
    <2>5. saving.state = "sent" => DOMAIN saving.payload \subseteq Columns(desk)
      <3> SUFFICES ASSUME saving.state = "sent" PROVE DOMAIN saving.payload \subseteq Columns(desk)
        OBVIOUS
      <3>1. FormSave(saving, desk, row, saves) \/ TapSave(saving, desk)
        BY SaveStates DEF IInv
      <3>2. Carries(saving, desk)
        BY <2>1, <3>1, SaveIsTyped
      <3> QED BY <3>2 DEF Carries
    <2> QED BY <2>1, <2>2, <2>3, <2>4, <2>5 DEF TypeOK, IInv
  <1> QED BY <1>1, Inductive, PTL

\* Whoever was told that a save went through sees what they submitted, or a later change
\* by somebody else, once the query that follows has answered, whatever answers, failures
\* and other people's saves were under way (AdminMenu, AdminContent, AdminSettings,
\* AdminBanking, AdminRoles: onSuccess and invalidateQueries); the one save that may not be
\* shown is that of the banking form whose answer met a first load, which is not restarted.
THEOREM WhatWasSavedIsShown == Spec => []SavedIsShown
  <1>1. IInv => SavedIsShown
    BY DEF IInv, SavedIsShown, Latest, Reflects
  <1> QED BY <1>1, Inductive, PTL

\* A save leaves every column as it is that its editor did not touch, but for a stale
\* box, a banking form filled from nothing, and the house's name over a null one; no
\* number of saves by other people in between adds another exception.
THEOREM NothingElseChanges == Spec => UntouchedIsKept
  <1> DEFINE A == saving.state = "sent" /\ saving'.state = "saved" =>
          \A f \in DOMAIN row :
              \/ row'[f].val = row[f].val
              \/ f \in saving.touched
              \/ /\ f \in DOMAIN saving.seen \ {"razorpayKeySecret"}
                 /\ saving.seen[f].rev # row[f].rev
              \/ f = "bankingName" /\ row[f].val = ""
  <1>1. IInv /\ [Next]_vars => [A]_vars
    <2> SUFFICES ASSUME IInv, Next, saving.state = "sent", saving'.state = "saved",
                        NEW f \in DOMAIN row, row'[f].val # row[f].val, f \notin saving.touched,
                        ~(f = "bankingName" /\ row[f].val = "")
                 PROVE  /\ f \in DOMAIN saving.seen \ {"razorpayKeySecret"}
                        /\ saving.seen[f].rev # row[f].rev
      OBVIOUS
    <2>1. Save
      <3>1. NoSave.state = "no"
        BY DEF NoSave
      <3>2. saving' # saving /\ saving' # NoSave /\ saving # NoSave
        BY <3>1
      <3>3. ~FailSave /\ ~AnswerSave
        BY <3>2 DEF FailSave, AnswerSave
      <3>4. ~Refetch /\ ~AnswerRead /\ ~FailRead /\ ~Close /\ ~OthersSave
        BY <3>2 DEF Refetch, AnswerRead, FailRead, Close, OthersSave
      <3>5. \A kind : ~Open(kind) /\ ~Submit(kind) /\ ~Tap(kind)
        BY <3>2 DEF Open, Submit, Tap
      <3> QED BY <3>3, <3>4, <3>5 DEF Next
    <2>2. Write(saving.payload)
      <3>1. NoSave.state = "no"
        BY DEF NoSave
      <3>2. saving' # NoSave
        BY <3>1
      <3> QED BY <2>1, <3>2 DEF Save
    <2>3. /\ IsRow(row, saves, desk) /\ desk' = desk /\ DOMAIN row = Columns(desk)
          /\ desk \in DOMAIN Forms
          /\ FormSave(saving, desk, row, saves) \/ TapSave(saving, desk)
      BY SaveStates DEF IInv, IsRow, Next
    <2>4. row'[f].val = Stored(saving.payload)[f]
      <3>1. Carries(saving, desk)
        BY <2>3, SaveIsTyped
      <3> QED BY <2>2, <2>3, <3>1, WriteKeeps DEF Carries
    <2>5. f \in DOMAIN saving.payload /\ row'[f].val = saving.payload[f]
      BY <2>4 DEF Stored
    <2>6. saving.payload[f] = saving.shown[f]
      <3>1. Carries(saving, desk)
        BY <2>3, SaveIsTyped
      <3> QED BY <2>5, <3>1 DEF Carries
    <2>7. FormSave(saving, desk, row, saves)
      BY <2>3, <2>5 DEF TapSave
    <2>8. /\ f \in Fields[saving.kind] /\ saving.shown[f] = saving.seen[f].val
          /\ f \notin Omitted(saving.kind, saving.shown)
          /\ DOMAIN saving.shown = Fields[saving.kind]
          /\ Seen(saving.seen, saving.kind, row, saves)
      <3>1. /\ DOMAIN saving.payload = Fields[saving.kind] \ Omitted(saving.kind, saving.shown)
            /\ DOMAIN saving.shown = Fields[saving.kind]
        BY <2>3, <2>7, FormSends
      <3> QED BY <2>5, <2>7, <3>1 DEF FormSave
    <2>9. Box(saving.seen[f], f, row, saves) /\ f \in DOMAIN saving.seen
      BY <2>8 DEF Seen
    <2>10. f # Secret
      BY <2>8, <2>9 DEF Box, Omitted, Secret, Switches
    <2> QED BY <2>5, <2>6, <2>8, <2>9, <2>10 DEF Box, Secret
  <1> QED BY <1>1, Inductive, PTL DEF Spec, UntouchedIsKept

-----------------------------------------------------------------------------
(* Who may do what.                                                        *)

\* A copy made since the last change is the role.
Fresh(c) ==
    /\ c.at \in Nat /\ c.at <= now
    /\ c.at = now => c.role = role

\* The page never has somebody without the token having a copy, not an older
\* one than it can name, and the socket then sits in a room.
CopiesTrue ==
    /\ now \in Nat
    /\ token # NoCopy => Fresh(token)
    /\ SignedIn => Fresh(user) /\ Fresh(token) /\ "staff" \in rooms

LEMMA CopyFresh == ASSUME now \in Nat PROVE Fresh(Copy)
  BY DEF Fresh, Copy

LEMMA StaffJoined == ASSUME NEW w PROVE "staff" \in JoinStaffRooms(w)
  BY DEF JoinStaffRooms

\* A change makes every copy an old one.
LEMMA ChangeAges ==
  ASSUME CopiesTrue, Changing, UNCHANGED <<token, user, rooms>>
  PROVE  CopiesTrue'
  <1>1. now' \in Nat /\ now' = now + 1
    BY DEF CopiesTrue, Changing
  <1>2. ASSUME NEW c, Fresh(c)
        PROVE  c.at \in Nat /\ c.at <= now' /\ (c.at = now' => c.role = role')
    BY <1>1, <1>2 DEF Fresh, CopiesTrue
  <1>. QED BY <1>1, <1>2 DEF CopiesTrue, Fresh, SignedIn

LEMMA CopiesStart == AccessInit => CopiesTrue
  BY DEF AccessInit, CopiesTrue, SignedIn

LEMMA CopiesKept == CopiesTrue /\ [AccessNext]_accessVars => CopiesTrue'
  <1>. SUFFICES ASSUME CopiesTrue, [AccessNext]_accessVars PROVE CopiesTrue'
    OBVIOUS
  <1>. USE DEF SignedIn
  <1>1. CASE UNCHANGED accessVars
    BY <1>1 DEF accessVars, CopiesTrue, Fresh
  <1>2. CASE Login
    <2>1. now' = now /\ role' = role /\ token' = Copy /\ user' = Copy
          /\ "staff" \in rooms'
      BY <1>2, StaffJoined DEF Login
    <2>2. Fresh(Copy)
      BY CopyFresh DEF CopiesTrue
    <2>. QED BY <2>1, <2>2 DEF CopiesTrue, Fresh
  <1>3. CASE Logout
    BY <1>3 DEF Logout, CopiesTrue, Fresh
  <1>4. CASE Reload
    BY <1>4 DEF Reload, CopiesTrue, Fresh
  <1>5. CASE RestoreToken
    <2>1. now' = now /\ role' = role /\ user' = user /\ rooms' = rooms
          /\ (token' = Copy \/ token' = token)
      BY <1>5 DEF RestoreToken, Renewal
    <2>2. Fresh(Copy)
      BY CopyFresh DEF CopiesTrue
    <2>. QED BY <2>1, <2>2 DEF CopiesTrue, Fresh
  <1>6. CASE RestoreUser
    <2>1. now' = now /\ role' = role /\ token' = token /\ token # NoCopy
          /\ \/ user' = Copy /\ "staff" \in rooms'
             \/ user' = user /\ rooms' = rooms
      BY <1>6, StaffJoined DEF RestoreUser
    <2>2. Fresh(Copy)
      BY CopyFresh DEF CopiesTrue
    <2>. QED BY <2>1, <2>2 DEF CopiesTrue, Fresh
  <1>7. CASE Expire
    BY <1>7 DEF Expire, CopiesTrue, Fresh
  <1>8. CASE Renew
    <2>1. now' = now /\ role' = role /\ rooms' = rooms
          /\ \/ token' = Copy /\ user' = user
             \/ token' = NoCopy /\ user' = NoCopy
      BY <1>8 DEF Renew, Renewal
    <2>2. Fresh(Copy)
      BY CopyFresh DEF CopiesTrue
    <2>. QED BY <2>1, <2>2 DEF CopiesTrue, Fresh
  <1>9. CASE Administrator
    <2>1. Changing /\ UNCHANGED <<token, user, rooms>>
      BY <1>9 DEF Administrator, SetRolePermissions, MoveTo, Suspend, Deactivate,
                  ResetPassword
    <2>. QED BY <2>1, ChangeAges
  <1>. QED
    BY <1>1, <1>2, <1>3, <1>4, <1>5, <1>6, <1>7, <1>8, <1>9 DEF AccessNext

LEMMA CopiesHold == AccessSpec => []CopiesTrue
  BY CopiesStart, CopiesKept, PTL DEF AccessSpec

(* Whatever has been changed since, the socket of a tab with somebody signed *)
(* in is in a room that every event its pages wait for is sent to            *)
(* (socket/index.ts).                                                        *)
THEOREM AlertsAlwaysReach == AccessSpec => []AlertsReach
  <1>1. CopiesTrue => AlertsReach
    <2>. SUFFICES ASSUME CopiesTrue, SignedIn, NEW page \in Pages,
                         NEW event \in Listens(page)
                  PROVE  rooms \cap Audience[event] # {}
      BY DEF AlertsReach
    <2>1. "staff" \in rooms
      BY DEF CopiesTrue
    <2>2. "staff" \in Audience[event]
      BY DEF Listens, Audience
    <2>. QED BY <2>1, <2>2
  <1>. QED BY <1>1, CopiesHold, PTL

LEMMA SameRole == ASSUME CopiesTrue, UpToDate PROVE user.role = token.role
  BY DEF CopiesTrue, UpToDate, Fresh

-----------------------------------------------------------------------------
(* What the pages ask, held against what the routes need.                  *)

LEMMA PagesListed ==
  Pages = { "dashboard", "reports", "payments", "menu", "content", "tables",
            "reservations", "users", "roles", "audit", "settings", "banking",
            "kitchen", "orders", "serve" }
  BY DEF Pages, Guard

\* Page by page: what a page offers the holder of a role is a route that the
\* role allows, or one of the places named.
Accepted(w, page) ==
    \A op \in Offers(w, page) :
        Allows(w, op) \/ <<page, op>> \in HalfOpen \cup Ungated

LEMMA TablesAgree == ASSUME NEW w, NEW page \in Pages PROVE Accepted(w, page)
  <1>. USE DEF Accepted, Offers, Can, Allows, Asks, Needs, Operations, AdminRoutes,
               FoodRoutes, CategoryRoutes, TableRoutes, ReservationRoutes,
               ContentRoutes, OrderRoutes, PaymentRoutes, HalfOpen, Ungated
  <1>dashboard. CASE page = "dashboard"
    BY <1>dashboard DEF Dashboard
  <1>reports. CASE page = "reports"
    BY <1>reports DEF ReportsPage
  <1>payments. CASE page = "payments"
    BY <1>payments DEF PaymentsPage
  <1>menu. CASE page = "menu"
    BY <1>menu DEF MenuPage
  <1>content. CASE page = "content"
    BY <1>content DEF ContentPage
  <1>tables. CASE page = "tables"
    BY <1>tables DEF TablesPage
  <1>reservations. CASE page = "reservations"
    BY <1>reservations DEF ReservationsPage
  <1>users. CASE page = "users"
    BY <1>users DEF UsersPage
  <1>roles. CASE page = "roles"
    BY <1>roles DEF RolesPage
  <1>audit. CASE page = "audit"
    BY <1>audit DEF AuditPage
  <1>settings. CASE page = "settings"
    BY <1>settings DEF SettingsPage
  <1>banking. CASE page = "banking"
    BY <1>banking DEF BankingPage
  <1>kitchen. CASE page = "kitchen"
    BY <1>kitchen DEF KitchenPage
  <1>orders. CASE page = "orders"
    BY <1>orders DEF OrdersPage
  <1>serve. CASE page = "serve"
    BY <1>serve DEF ServePage
  <1>. QED
    BY PagesListed, <1>dashboard, <1>reports, <1>payments, <1>menu, <1>content, <1>tables, <1>reservations,
       <1>users, <1>roles, <1>audit, <1>settings, <1>banking, <1>kitchen, <1>orders, <1>serve

(* A page made since the last change shows nobody what they will be refused: *)
(* for any roles an administrator draws up, whatever it asks for or offers   *)
(* is accepted with the token it holds, the twelve places named apart        *)
(* (App.tsx, ProtectedRoute.tsx and the routers of the API).                 *)
THEOREM OfferedAlwaysAllowed == AccessSpec => []OfferedIsAllowed
  <1>1. CopiesTrue => OfferedIsAllowed
    <2>. SUFFICES ASSUME CopiesTrue, UpToDate, NEW page \in Pages,
                         NEW op \in Offers(user.role, page)
                  PROVE  Allows(token.role, op) \/ <<page, op>> \in HalfOpen \cup Ungated
      BY DEF OfferedIsAllowed
    <2>1. Accepted(user.role, page)
      BY TablesAgree
    <2>. QED BY <2>1, SameRole DEF Accepted
  <1>. QED BY <1>1, CopiesHold, PTL

-----------------------------------------------------------------------------
(* The four roles the restaurant starts with.                              *)

\* Somebody with this role lands on a link of theirs, and every link leads to
\* a page that opens and offers only what the role allows.
Works(w) ==
    /\ HomeRouteFor(w) \in VisibleNav(w)
    /\ \A page \in VisibleNav(w) :
          /\ Opens(w, page)
          /\ \A op \in Offers(w, page) : Allows(w, op)

Owner == [name |-> "SUPER_ADMIN", holds |-> Permissions]
Manager == [name |-> "ADMIN", holds |-> AdminSeed]
Chef == [name |-> "KITCHEN", holds |-> KitchenSeed]
Waiter == [name |-> "STAFF", holds |-> StaffSeed]

LEMMA RoutesNeed ==
  /\ "order:read" \in Needs["kitchenQueue"]
  /\ "order:read" \in Needs["listOrders"]
  /\ "order:read" \in Needs["invoice"]
  /\ "order:updateStatus" \in Needs["updateStatus"]
  /\ "order:updateStatus" \in Needs["serve"]
  /\ "order:updateStatus" \in Needs["cash"]
  /\ "order:approve" \in Needs["approve"]
  /\ "order:approve" \in Needs["reject"]
  /\ "order:approve" \in Needs["cashAdvance"]
  /\ "report:view" \in Needs["topItems"]
  /\ "table:read" \in Needs["listTables"]
  /\ "settings:update" \in Needs["updateSettings"]
  BY DEF Needs, Operations, AdminRoutes, FoodRoutes, CategoryRoutes, TableRoutes,
         ReservationRoutes, ContentRoutes, OrderRoutes, PaymentRoutes

LEMMA OwnerWorks == Works(Owner)
  <1>1. Owner.name = "SUPER_ADMIN"
    BY DEF Owner
  <1>2. HomeRouteFor(Owner) = "dashboard"
    BY <1>1 DEF HomeRouteFor, Can, Bypasses
  <1>3. VisibleNav(Owner) = Pages
    BY <1>1 DEF VisibleNav, NavLock, Can, Bypasses
  <1>. QED BY <1>1, <1>2, <1>3, PagesListed DEF Works, Opens, Can, Allows, Bypasses

LEMMA ChefWorks == Works(Chef)
  <1>1. Chef.name = "KITCHEN" /\ Chef.holds = KitchenSeed
    BY DEF Chef
  <1>2. HomeRouteFor(Chef) = "kitchen"
    BY <1>1 DEF HomeRouteFor
  <1>3. VisibleNav(Chef) = {"kitchen"}
    BY <1>1 DEF VisibleNav, NavLock
  <1>4. Opens(Chef, "kitchen")
    BY <1>1 DEF Opens, Can, Guard, KitchenSeed
  <1>5. ASSUME NEW op \in Offers(Chef, "kitchen") PROVE Allows(Chef, op)
    <2>1. op \in {"kitchenQueue", "updateStatus"}
      BY DEF Offers, Asks, KitchenPage
    <2>. QED BY <1>1, <2>1, RoutesNeed DEF Allows, KitchenSeed
  <1>. QED BY <1>2, <1>3, <1>4, <1>5 DEF Works

LEMMA WaiterWorks == Works(Waiter)
  <1>1. Waiter.name = "STAFF" /\ Waiter.holds = StaffSeed
    BY DEF Waiter
  <1>2. HomeRouteFor(Waiter) = "serve"
    BY <1>1 DEF HomeRouteFor
  <1>3. VisibleNav(Waiter) = {"serve"}
    BY <1>1 DEF VisibleNav, NavLock
  <1>4. Opens(Waiter, "serve")
    BY <1>1 DEF Opens, Can, Guard, StaffSeed
  <1>5. ASSUME NEW op \in Offers(Waiter, "serve") PROVE Allows(Waiter, op)
    <2>1. op \in {"listOrders", "invoice", "serve", "cash", "approve", "reject",
                  "cashAdvance"}
      BY DEF Offers, Asks, ServePage
    <2>. QED BY <1>1, <2>1, RoutesNeed DEF Allows, StaffSeed
  <1>. QED BY <1>2, <1>3, <1>4, <1>5 DEF Works

\* What the manager holds of what the routes need.
ManagersOwn ==
    { "dashboard:view", "report:view", "category:create", "category:update",
      "category:delete", "food:read", "food:create", "food:update", "food:delete",
      "order:read", "order:create", "order:updateStatus", "order:cancel",
      "order:approve", "order:export", "table:read", "table:create", "table:update",
      "table:delete", "qr:manage", "reservation:read", "reservation:update",
      "settings:read", "settings:update", "content:update", "review:update",
      "review:delete" }

LEMMA NeededArePermissions ==
  ASSUME NEW op \in Operations, NEW p \in Needs[op] PROVE p \in Permissions
  BY DEF Permissions

LEMMA ManagerHolds == ManagersOwn \subseteq AdminSeed
  <1>. SUFFICES ASSUME NEW p \in ManagersOwn PROVE p \in AdminSeed
    OBVIOUS
  <1>. DEFINE Ops ==
         { "dashboard", "salesReport", "createCategory", "updateCategory",
           "deleteCategory", "getFood", "createFood", "updateFood", "deleteFood",
           "listOrders", "addItems", "updateStatus", "cancel", "approve",
           "exportOrders", "listTables", "createTable", "updateTable", "deleteTable",
           "rotateQr", "listReservations", "updateReservation", "getSettings",
           "updateSettings", "updateContent", "updateReview", "deleteReview" }
  <1>1. \E op \in Ops : op \in Operations /\ p \in Needs[op]
    BY DEF ManagersOwn, Needs, Operations, AdminRoutes, FoodRoutes, CategoryRoutes,
           TableRoutes, ReservationRoutes, ContentRoutes, OrderRoutes, PaymentRoutes
  <1>2. p \in Permissions
    BY <1>1, NeededArePermissions
  <1>. QED BY <1>2 DEF AdminSeed, ManagersOwn

\* Of the twelve places, the kitchen's, the users' and the roles' are pages the
\* manager has no link to; what the others need the manager holds.
LEMMA ManagerWorks == Works(Manager)
  <1>1. Manager.name = "ADMIN" /\ Manager.holds = AdminSeed
    BY DEF Manager
  <1>2. HomeRouteFor(Manager) = "dashboard"
    BY <1>1, ManagerHolds DEF HomeRouteFor, Can, ManagersOwn
  <1>3. VisibleNav(Manager) = { page \in Pages : LinkNeeds(page) \in AdminSeed }
    BY <1>1 DEF VisibleNav, NavLock, Can, Bypasses
  <1>4. "dashboard" \in VisibleNav(Manager)
    BY <1>3, PagesListed, ManagerHolds DEF LinkNeeds, Guard, ManagersOwn
  <1>5. ASSUME NEW page \in VisibleNav(Manager)
        PROVE  page # "kitchen" /\ Opens(Manager, page)
               /\ page \notin {"users", "roles"}
    BY <1>1, <1>3, PagesListed DEF Opens, Can, Bypasses, LinkNeeds, Guard, AdminSeed
  <1>6. ASSUME NEW page \in VisibleNav(Manager), NEW op \in Offers(Manager, page)
        PROVE  Allows(Manager, op)
    <2>1. page \in Pages
      BY <1>3
    <2>2. CASE <<page, op>> \in HalfOpen \cup Ungated
      <3>1. op \in {"listOrders", "topItems", "listTables", "updateSettings", "approve",
                    "reject", "cashAdvance", "invoice"}
        BY <1>5, <2>2 DEF HalfOpen, Ungated
      <3>. QED BY <1>1, <3>1, ManagerHolds, RoutesNeed DEF Allows, ManagersOwn
    <2>. QED BY <2>1, <2>2, TablesAgree DEF Accepted
  <1>. QED BY <1>2, <1>4, <1>5, <1>6 DEF Works

(* The four roles the restaurant starts with need none of the twelve: whoever *)
(* signs in with one lands on a page that opens, every link leads somewhere,  *)
(* and everything there is accepted (config/permissions.ts,                   *)
(* lib/homeRoute.ts, StaffLayout.tsx).                                        *)
THEOREM BuiltInRolesAlwaysWork == AccessSpec => []BuiltInRolesWork
  <1>1. ASSUME NEW w \in SeededRoles PROVE Works(w)
    BY OwnerWorks, ManagerWorks, ChefWorks, WaiterWorks
       DEF SeededRoles, Owner, Manager, Chef, Waiter
  <1>2. CopiesTrue => BuiltInRolesWork
    BY <1>1, SameRole DEF BuiltInRolesWork, BuiltIn, Works
  <1>. QED BY <1>2, CopiesHold, PTL
=============================================================================
