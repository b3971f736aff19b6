----------------------------- MODULE SitesProofs -----------------------------
(***************************************************************************)
(* What Sites keeps for any places, labels, pages and saves, and any       *)
(* bounds.                                                                 *)
(***************************************************************************)
EXTENDS Sites, TLAPS

USE BoundsAssumption

Lone(S) == \A a, b \in S : a = b
-----------------------------------------------------------------------------
(* Types.                                                                  *)

LEMMA UnheardType ==
    ASSUME TypeOK, NEW p \in Pages
    PROVE  Unheard(p) \in [Saves -> SUBSET Save]
  <1>1. \A q \in Save : [q EXCEPT !.page = @ \ {p}] \in Save
    BY DEF Save
  <1> QED BY <1>1 DEF TypeOK, Unheard

LEMMA SendType ==
    ASSUME TypeOK, NEW p \in Pages, NEW r \in Saves, NEW g \in Page,
           NEW label \in SUBSET Labels, NEW place \in SUBSET Places,
           NEW typed \in SUBSET SUBSET Places, Send(p, r, g, label, place, typed)
    PROVE  saves' \in [Saves -> SUBSET Save]
  <1>1. [stage |-> "sent", page |-> {p}, version |-> g.version,
         label |-> label, place |-> place, typed |-> typed, was |-> {},
         shown |-> IF label = {} THEN {} ELSE g.label] \in Save
    BY DEF Save, Page, Stages
  <1> QED BY <1>1 DEF Send, TypeOK

LEMMA StepType ==
    ASSUME TypeOK, NEW r \in Saves, NEW q \in Save, Step(r, q)
    PROVE  saves' \in [Saves -> SUBSET Save]
  BY DEF TypeOK, Step

LEMMA OverType == Over \in Save
  BY DEF Over, Save, Stages

RowAfter(s, v, l, x, c, d, t) ==
    [s EXCEPT !.version = v, !.label = l, !.place = x, !.rated = c, !.drive = d, !.typed = t]

LEMMA RowAfterFields ==
    ASSUME NEW s \in Row, NEW v, NEW l, NEW x, NEW c, NEW d, NEW t
    PROVE  /\ RowAfter(s, v, l, x, c, d, t).version = v
           /\ RowAfter(s, v, l, x, c, d, t).label = l
           /\ RowAfter(s, v, l, x, c, d, t).place = x
           /\ RowAfter(s, v, l, x, c, d, t).rated = c
           /\ RowAfter(s, v, l, x, c, d, t).drive = d
           /\ RowAfter(s, v, l, x, c, d, t).typed = t
  BY DEF RowAfter, Row

\* What is saved of a row, field by field.
LEMMA SavedFields ==
    ASSUME NEW q \in Save, NEW s \in Row, NEW drive \in SUBSET Places
    PROVE  /\ Saved(q, s, drive) \in Row
           /\ Saved(q, s, drive).version = s.version + 1
           /\ Saved(q, s, drive).label =
                  IF q.label = {} THEN s.label ELSE CHOOSE n \in q.label : TRUE
           /\ Saved(q, s, drive).place =
                  IF q.place = {} THEN s.place ELSE CHOOSE x \in q.place : TRUE
           /\ Saved(q, s, drive).rated =
                  IF Moved(q) THEN CHOOSE x \in q.place : TRUE ELSE s.rated
           /\ Saved(q, s, drive).drive = IF Moved(q) THEN drive ELSE s.drive
           /\ Saved(q, s, drive).typed =
                  IF q.typed # {} THEN UNION q.typed ELSE IF Moved(q) THEN {} ELSE s.typed
  <1>1. q.label # {} => (CHOOSE n \in q.label : TRUE) \in Labels
    BY DEF Save
  <1>2. q.place # {} => (CHOOSE x \in q.place : TRUE) \in Places
    BY DEF Save
  <1>3. UNION q.typed \in SUBSET Places
    BY DEF Save
  <1> DEFINE label == IF q.label = {} THEN s.label ELSE CHOOSE n \in q.label : TRUE
             place == IF q.place = {} THEN s.place ELSE CHOOSE x \in q.place : TRUE
             rated == IF Moved(q) THEN CHOOSE x \in q.place : TRUE ELSE s.rated
             drives == IF Moved(q) THEN drive ELSE s.drive
             typed == IF q.typed # {} THEN UNION q.typed ELSE IF Moved(q) THEN {} ELSE s.typed
  <1>4. /\ label \in Labels /\ place \in Places /\ rated \in Places
        /\ drives \in SUBSET Places /\ typed \in SUBSET Places
    BY <1>1, <1>2, <1>3 DEF Row, Moved
  <1>5. Saved(q, s, drive) = [s EXCEPT !.version = s.version + 1, !.label = label,
            !.place = place, !.rated = rated, !.drive = drives, !.typed = typed]
    BY DEF Saved, Row
  <1> HIDE DEF label, place, rated, drives, typed
  <1>6. s.version + 1 \in Nat
    BY DEF Row
  <1>7. \A v \in Nat, l \in Labels, x \in Places, c \in Places,
            d \in SUBSET Places, t \in SUBSET Places :
          RowAfter(s, v, l, x, c, d, t) \in Row
    BY DEF Row, RowAfter
  <1>8. Saved(q, s, drive) = RowAfter(s, s.version + 1, label, place, rated, drives, typed)
    BY <1>5 DEF RowAfter
  <1>9. Saved(q, s, drive) \in Row
    BY <1>4, <1>6, <1>7, <1>8
  <1>10. /\ Saved(q, s, drive).version = s.version + 1
         /\ Saved(q, s, drive).label = label
         /\ Saved(q, s, drive).place = place
         /\ Saved(q, s, drive).rated = rated
         /\ Saved(q, s, drive).drive = drives
         /\ Saved(q, s, drive).typed = typed
    BY <1>8, RowAfterFields
  <1> QED BY <1>9, <1>10 DEF label, place, rated, drives, typed

LEMMA WriteType ==
    ASSUME NEW s \in Row, NEW n \in Row, Write(s, n)
    PROVE  site' \in SUBSET Row
  <1>1. [n EXCEPT !.version = s.version + 1] \in Row
    BY DEF Row
  <1> QED BY <1>1 DEF Write

LEMMA FormType ==
    ASSUME TypeOK, NEW p \in Pages, NEW f \in Form, forms' = [forms EXCEPT ![p] = {f}]
    PROVE  forms' \in [Pages -> SUBSET Form]
  BY DEF TypeOK

LEMMA PageType ==
    ASSUME TypeOK, NEW p \in Pages, NEW g \in Page, pages' = [pages EXCEPT ![p] = {g}]
    PROVE  pages' \in [Pages -> SUBSET Page]
  BY DEF TypeOK

\* What a page holds once it has heard, field by field.
Heard(q, g) ==
    IF q.place # {} THEN g ELSE
    [g EXCEPT !.version = q.version,
              !.label = IF @ = {} \/ q.label = {} THEN @ ELSE q.label,
              !.typing = IF q.typed = {@} THEN {} ELSE @]

LEMMA HeardFields ==
    ASSUME NEW q \in Save, NEW g \in Page
    PROVE  /\ Heard(q, g) \in Page
           /\ Heard(q, g).version = IF q.place # {} THEN g.version ELSE q.version
           /\ Heard(q, g).place = g.place
           /\ Heard(q, g).label = IF q.place # {} \/ g.label = {} \/ q.label = {}
                                  THEN g.label ELSE q.label
           /\ Heard(q, g).typing \in SUBSET g.typing
  BY DEF Heard, Page, Save

LEMMA TypeStep == TypeOK /\ [Next]_vars => TypeOK'
<1> SUFFICES ASSUME TypeOK, [Next]_vars PROVE TypeOK'
  OBVIOUS
<1>1. ASSUME NEW p \in Pages, OpenForm(p) PROVE TypeOK'
  <2>1. [asking |-> 0, place |-> {}, asked |-> {}, drive |-> {}, typed |-> {}] \in Form
    BY DEF Form
  <2> QED BY <1>1, <2>1, FormType DEF OpenForm, TypeOK
<1>2. ASSUME NEW p \in Pages, TypeNew(p) PROVE TypeOK'
  <2>1. \A f \in Form : [f EXCEPT !.typed = f.place] \in Form
    BY DEF Form
  <2> QED BY <1>2, <2>1, FormType DEF TypeNew, TypeOK
<1>3. ASSUME NEW p \in Pages, NEW x \in Places, Choose(p, x) PROVE TypeOK'
  <2>1. PICK f \in forms[p] : Choose(p, x)!1!(f)
    BY <1>3 DEF Choose
  <2>2. f \in Form
    BY DEF TypeOK
  <2> DEFINE more == f.asked \cup {[mine |-> f.asking + 1, place |-> x]}
  <2>3. f.asking + 1 \in Nat /\ more \in SUBSET [mine: Nat, place: Places]
    BY <2>2 DEF Form
  <2>4. \A n \in Nat, m \in SUBSET [mine: Nat, place: Places] :
          [f EXCEPT !.asking = n, !.place = {x}, !.drive = {}, !.typed = {}, !.asked = m] \in Form
    BY <2>2 DEF Form
  <2>5. [f EXCEPT !.asking = f.asking + 1, !.place = {x}, !.drive = {}, !.typed = {},
                  !.asked = more] \in Form
    BY <2>3, <2>4
  <2>6. forms' = [forms EXCEPT ![p] =
            {[f EXCEPT !.asking = f.asking + 1, !.place = {x}, !.drive = {}, !.typed = {},
                       !.asked = more]}]
    BY <2>1
  <2> QED BY <1>3, <2>5, <2>6, FormType DEF Choose, TypeOK
<1>4. ASSUME NEW p \in Pages, NEW drive \in SUBSET Places, HearDrive(p, drive) PROVE TypeOK'
  <2>0. PICK f \in forms[p] : HearDrive(p, drive)!1!(f)
    BY <1>4 DEF HearDrive
  <2>1. PICK a \in f.asked : HearDrive(p, drive)!1!(f)!(a)
    BY <2>0
  <2>2. f \in Form
    BY DEF TypeOK
  <2>3. \A d \in SUBSET Places, m \in SUBSET [mine: Nat, place: Places] :
          [f EXCEPT !.asked = m, !.drive = d] \in Form
    BY <2>2 DEF Form
  <2>4. f.asked \ {a} \in SUBSET [mine: Nat, place: Places] /\ f.drive \in SUBSET Places
    BY <2>2 DEF Form
  <2>5. [f EXCEPT !.asked = f.asked \ {a}, !.drive = IF Mine(f, a) THEN drive ELSE f.drive] \in Form
    BY <2>3, <2>4
  <2>6. forms' = [forms EXCEPT ![p] =
            {[f EXCEPT !.asked = f.asked \ {a}, !.drive = IF Mine(f, a) THEN drive ELSE f.drive]}]
    BY <2>1
  <2> QED BY <1>4, <2>5, <2>6, FormType DEF HearDrive, TypeOK
<1>5. ASSUME NEW p \in Pages, NEW label \in Labels, NEW drive \in SUBSET Places,
             Create(p, label, drive)
      PROVE TypeOK'
  <2>1. \A f \in Form, x \in Places :
          [version |-> 0, label |-> label, place |-> x,
           rated |-> x, drive |-> drive, typed |-> f.typed] \in Row
    BY DEF Row, Form
  <2>2. \A f \in forms[p] : f \in Form /\ f.place \in SUBSET Places
    BY DEF TypeOK, Form
  <2>3. site' \in SUBSET Row
    BY <1>5, <2>1, <2>2 DEF Create
  <2> QED BY <1>5, <2>3 DEF Create, TypeOK
<1>6. ASSUME NEW p \in Pages, Open(p) PROVE TypeOK'
  <2>1. \A s \in Row : [version |-> s.version, place |-> s.place, label |-> {s.label},
                        typing |-> {}] \in Page
    BY DEF Row, Page
  <2>2. pages' \in [Pages -> SUBSET Page]
    BY <1>6, <2>1, PageType DEF Open, TypeOK
  <2> QED BY <1>6, <2>2, UnheardType DEF Open, TypeOK
<1>7. ASSUME NEW p \in Pages, Refresh(p) PROVE TypeOK'
  <2>1. PICK s \in site, g \in pages[p] : Refresh(p)!1!(s, g)
    BY <1>7 DEF Refresh
  <2>2. g \in Page /\ s \in Row /\ Redrawn(g, s) \in SUBSET Places
    BY DEF TypeOK, Page, Redrawn
  <2>3. [g EXCEPT !.version = s.version, !.place = s.place,
                  !.typing = Redrawn(g, s), !.label = {}] \in Page
    BY <2>2 DEF Page, Row
  <2> QED BY <1>7, <2>1, <2>3, PageType DEF Refresh, TypeOK
<1>8. ASSUME NEW p \in Pages, Type(p) PROVE TypeOK'
  <2>1. \A g \in Page : [g EXCEPT !.typing = {g.place}] \in Page
    BY DEF Page
  <2> QED BY <1>8, <2>1, PageType DEF Type, TypeOK
<1>9. ASSUME NEW p \in Pages, NEW r \in Saves, NEW label \in Labels, CommitLabel(p, r, label)
      PROVE TypeOK'
  <2>1. PICK g \in pages[p] : Send(p, r, g, {label}, {}, {})
    BY <1>9 DEF CommitLabel
  <2>2. g \in Page /\ {label} \in SUBSET Labels
    BY DEF TypeOK
  <2> QED BY <2>1, <2>2, SendType DEF Send, TypeOK
<1>10. ASSUME NEW p \in Pages, NEW r \in Saves, CommitTyped(p, r) PROVE TypeOK'
  <2>1. PICK g \in pages[p] : Send(p, r, g, {}, {}, {g.typing})
    BY <1>10 DEF CommitTyped
  <2>2. {g.typing} \in SUBSET SUBSET Places
    BY DEF TypeOK, Page
  <2> QED BY <2>1, <2>2, SendType DEF Send, TypeOK
<1>11. ASSUME NEW p \in Pages, NEW r \in Saves, NEW x \in Places, MoveTo(p, r, x) PROVE TypeOK'
  <2>1. PICK g \in pages[p] : Send(p, r, g, {}, {x}, {})
    BY <1>11 DEF MoveTo
  <2>2. g \in Page /\ {x} \in SUBSET Places
    BY DEF TypeOK
  <2> QED BY <2>1, <2>2, SendType DEF Send, TypeOK
<1>12. ASSUME NEW r \in Saves, ReadSite(r) PROVE TypeOK'
  <2>1. \A q \in Save, s \in Row : [q EXCEPT !.stage = "read", !.was = {s.place}] \in Save
    BY DEF Save, Row, Stages
  <2> QED BY <1>12, <2>1, StepType DEF ReadSite, TypeOK
<1>13. ASSUME NEW r \in Saves, Refuse(r) PROVE TypeOK'
  BY <1>13, OverType, StepType DEF Refuse, TypeOK
<1>14. ASSUME NEW r \in Saves, Hear(r) PROVE TypeOK'
  <2>1. PICK q \in saves[r], p \in Pages : Hear(r)!1!(q, p)
    BY <1>14 DEF Hear
  <2>2. q \in Save
    BY DEF TypeOK
  <2>3. pages' = [pages EXCEPT ![p] = {Heard(q, g) : g \in pages[p]}]
    BY <2>1 DEF Heard
  <2>4. \A g \in pages[p] : Heard(q, g) \in Page
    BY <2>2, HeardFields DEF TypeOK
  <2>5. pages' \in [Pages -> SUBSET Page]
    BY <2>3, <2>4 DEF TypeOK
  <2> QED BY <1>14, <2>5, OverType, StepType DEF Hear, TypeOK
<1>15. ASSUME NEW r \in Saves, GiveUp(r) PROVE TypeOK'
  <2>1. \A q \in Save : [q EXCEPT !.page = {}] \in Save
    BY DEF Save
  <2> QED BY <1>15, <2>1, OverType, StepType DEF GiveUp, TypeOK
<1>16. ASSUME NEW r \in Saves, NEW drive \in SUBSET Places, Land(r, drive) PROVE TypeOK'
  <2>1. PICK q \in saves[r], s \in site : Land(r, drive)!1!(q, s)
    BY <1>16 DEF Land
  <2>2. q \in Save /\ s \in Row
    BY DEF TypeOK
  <2>3. \A v \in Nat : [q EXCEPT !.stage = "saved", !.version = v] \in Save
    BY <2>2 DEF Save, Stages
  <2>4. s.version + 1 \in Nat
    BY <2>2 DEF Row
  <2>5. saves' \in [Saves -> SUBSET Save]
    BY <2>1, <2>3, <2>4, OverType, StepType
  <2>6. Saved(q, s, drive) \in Row
    BY <2>2, SavedFields
  <2>7. site' \in SUBSET Row
    BY <2>1, <2>6
  <2> QED BY <1>16, <2>5, <2>7 DEF Land, TypeOK
<1>17. ASSUME Close PROVE TypeOK'
  BY <1>17, WriteType DEF Close, TypeOK
<1>18. ASSUME StartRefresh \/ StartMeasuring PROVE TypeOK'
  <2>1. \A s \in Row, of \in {"rate", "drive"} : [of |-> of, place |-> s.place] \in Asked
    BY DEF Row, Asked
  <2> QED BY <1>18, <2>1 DEF StartRefresh, StartMeasuring, Ask, TypeOK
<1>19. ASSUME NEW a \in asked, WriteRate(a) PROVE TypeOK'
  <2>1. \A s \in Row : [s EXCEPT !.rated = a.place] \in Row
    BY DEF Row, TypeOK, Asked
  <2> QED BY <1>19, <2>1, WriteType DEF WriteRate, TypeOK
<1>20. ASSUME NEW a \in asked, NEW drive \in SUBSET Places, WriteDrive(a, drive) PROVE TypeOK'
  <2>1. \A s \in Row : [s EXCEPT !.drive = drive] \in Row
    BY DEF Row
  <2> QED BY <1>20, <2>1, WriteType DEF WriteDrive, TypeOK
<1>21. ASSUME NEW a \in asked, LeaveAlone(a) PROVE TypeOK'
  BY <1>21 DEF LeaveAlone, TypeOK
<1>22. CASE UNCHANGED vars
  BY <1>22 DEF vars, TypeOK
<1> QED
  BY <1>1, <1>2, <1>3, <1>4, <1>5, <1>6, <1>7, <1>8, <1>9, <1>10, <1>11, <1>12, <1>13, <1>14,
     <1>15, <1>16, <1>17, <1>18, <1>19, <1>20, <1>21, <1>22 DEF Next

\* Every variable stays of its type.
THEOREM TypeCorrect == Spec => []TypeOK
  <1>1. Init => TypeOK
    BY DEF Init, TypeOK
  <1> QED BY <1>1, TypeStep, PTL DEF Spec
-----------------------------------------------------------------------------
(* A new-site form.                                                        *)

\* What was typed, and Google's answer, are about the place chosen, and so is
\* the answer still to come that the form waits for.
FormsFit ==
    \A p \in Pages : \A f \in forms[p] :
        /\ Lone(f.place)
        /\ f.drive \cup f.typed \subseteq f.place
        /\ \A a \in f.asked : a.mine <= f.asking /\ (a.mine = f.asking => f.place = {a.place})

LEMMA FormsStep == TypeOK /\ FormsFit /\ [Next]_vars => FormsFit'
  <1> SUFFICES ASSUME TypeOK, FormsFit, [Next]_vars, NEW p \in Pages, NEW f \in forms'[p]
               PROVE  /\ Lone(f.place)
                      /\ f.drive \cup f.typed \subseteq f.place
                      /\ \A a \in f.asked :
                            a.mine <= f.asking /\ (a.mine = f.asking => f.place = {a.place})
    BY DEF FormsFit
  <1> DEFINE Fit == /\ Lone(f.place)
                    /\ f.drive \cup f.typed \subseteq f.place
                    /\ \A a \in f.asked :
                          a.mine <= f.asking /\ (a.mine = f.asking => f.place = {a.place})
  <1>1. CASE f \in forms[p]
    BY <1>1 DEF FormsFit
  <1>2. ASSUME OpenForm(p) PROVE Fit
    <2>1. f = [asking |-> 0, place |-> {}, asked |-> {}, drive |-> {}, typed |-> {}]
      BY <1>2 DEF OpenForm, TypeOK
    <2> QED BY <2>1 DEF Lone
  <1>3. ASSUME NEW x \in Places, Choose(p, x) PROVE Fit
    <2>1. PICK h \in forms[p] : Choose(p, x)!1!(h)
      BY <1>3 DEF Choose
    <2>2. h \in Form /\ h.asking \in Nat /\ \A a \in h.asked : a.mine \in Nat
      BY DEF TypeOK, Form
    <2>3. f = [h EXCEPT !.asking = h.asking + 1, !.place = {x}, !.drive = {}, !.typed = {},
                        !.asked = h.asked \cup {[mine |-> h.asking + 1, place |-> x]}]
      BY <2>1 DEF TypeOK
    <2>4. /\ f.asking = h.asking + 1 /\ f.place = {x} /\ f.drive = {} /\ f.typed = {}
          /\ f.asked = h.asked \cup {[mine |-> h.asking + 1, place |-> x]}
      BY <2>2, <2>3 DEF Form
    <2>5. \A a \in h.asked : a.mine <= h.asking
      BY DEF FormsFit
    <2>6. ASSUME NEW a \in f.asked
          PROVE  a.mine <= f.asking /\ (a.mine = f.asking => f.place = {a.place})
      <3>1. CASE a \in h.asked
        BY <2>2, <2>4, <2>5, <3>1
      <3>2. CASE a = [mine |-> h.asking + 1, place |-> x]
        BY <2>2, <2>4, <3>2
      <3> QED BY <2>4, <2>6, <3>1, <3>2
    <2> QED BY <2>4, <2>6 DEF Lone
  <1>4. ASSUME TypeNew(p) PROVE Fit
    <2>1. PICK h \in forms[p] : TypeNew(p)!1!(h)
      BY <1>4 DEF TypeNew
    <2>2. f = [h EXCEPT !.typed = h.place] /\ h \in Form
      BY <2>1 DEF TypeOK
    <2>3. /\ f.asking = h.asking /\ f.place = h.place /\ f.drive = h.drive
          /\ f.typed = h.place /\ f.asked = h.asked
      BY <2>2 DEF Form
    <2> QED BY <2>3 DEF FormsFit
  <1>5. ASSUME NEW drive \in SUBSET Places, HearDrive(p, drive) PROVE Fit
    <2>1. PICK h \in forms[p] : HearDrive(p, drive)!1!(h)
      BY <1>5 DEF HearDrive
    <2>2. PICK a \in h.asked : HearDrive(p, drive)!1!(h)!(a)
      BY <2>1
    <2>3. f = [h EXCEPT !.asked = h.asked \ {a}, !.drive = IF Mine(h, a) THEN drive ELSE h.drive]
      BY <2>2 DEF TypeOK
    <2>4. h \in Form
      BY DEF TypeOK
    <2>5. /\ f.asking = h.asking /\ f.place = h.place /\ f.typed = h.typed
          /\ f.drive = (IF Mine(h, a) THEN drive ELSE h.drive) /\ f.asked = h.asked \ {a}
      BY <2>3, <2>4 DEF Form
    <2>6. Mine(h, a) => drive \subseteq h.place
      BY <2>2 DEF FormsFit, Mine
    <2> QED BY <2>5, <2>6 DEF FormsFit
  <1>6. ASSUME f \notin forms[p]
        PROVE  \/ OpenForm(p) \/ TypeNew(p)
               \/ \E x \in Places : Choose(p, x)
               \/ \E drive \in SUBSET Places : HearDrive(p, drive)
    <2>1. forms' # forms /\ forms' # [q \in Pages |-> {}]
      BY <1>6
    <2>2. \A q \in Pages : \A h : forms' = [forms EXCEPT ![q] = {h}] => q = p
      BY <1>6 DEF TypeOK
    <2>3. PICK q \in Pages :
             \/ OpenForm(q) \/ TypeNew(q)
             \/ \E x \in Places : Choose(q, x)
             \/ \E drive \in SUBSET Places : HearDrive(q, drive)
      BY <2>1 DEF Next, vars, Create, Open, Refresh, Type, CommitLabel, CommitTyped, MoveTo, Send,
         ReadSite, Land, Refuse, Hear, GiveUp, Close, StartRefresh, StartMeasuring, Ask,
         WriteRate, WriteDrive, LeaveAlone
    <2>4. q = p
      BY <2>2, <2>3 DEF OpenForm, TypeNew, Choose, HearDrive
    <2> QED BY <2>3, <2>4
  <1> QED BY <1>1, <1>2, <1>3, <1>4, <1>5, <1>6
-----------------------------------------------------------------------------
(* A page, and what was saved from it, beside the row.                     *)

Going(q) == q.stage \in {"sent", "read"}

\* A page with the row's version has the row's place, and its label where its
\* box was drawn with that version.
PageFits(s, g) ==
    /\ g.version <= s.version
    /\ g.version = s.version => g.place = s.place /\ g.label \subseteq {s.label}
    /\ g.typing \subseteq {g.place}

\* A save that may land names the row as it is.
SaveFits(s, q) ==
    /\ q.version <= s.version
    /\ Going(q) /\ q.version = s.version =>
           /\ q.was \subseteq {s.place} /\ q.shown \subseteq {s.label}
           /\ \A t \in q.typed : t \subseteq {s.place}
    /\ q.typed # {} => q.place = {}
    /\ Lone(q.label) /\ Lone(q.place)

\* One that has landed is the next version of the page that waits for it, and
\* what that page will hold once it hears.
PairFits(s, q, g) ==
    /\ Going(q) =>
           /\ q.version = s.version => g.place = s.place
           /\ g.label # {} => q.version <= g.version
    /\ q.stage = "saved" =>
           /\ g.label # {} => q.version = g.version + 1
           /\ q.place = {} /\ q.version = s.version =>
                  /\ g.place = s.place
                  /\ q.label = {} => g.label \subseteq {s.label}
                  /\ q.label \subseteq {s.label}

Fits(s) ==
    /\ s.typed \subseteq {s.place}
    /\ \A p \in Pages : \A g \in pages[p] : PageFits(s, g)
    /\ \A r \in Saves : \A q \in saves[r] :
        /\ SaveFits(s, q)
        /\ \A p \in q.page : \A g \in pages[p] : PairFits(s, q, g)

Single ==
    /\ Lone(site)
    /\ \A p \in Pages : Lone(pages[p])
    /\ \A r \in Saves : Lone(saves[r])

\* No two saves are of one version.
Apart ==
    \A r1, r2 \in Saves : \A q1 \in saves[r1], q2 \in saves[r2] :
        r1 # r2 /\ q1.stage = "saved" /\ q2.stage = "saved" => q1.version # q2.version

\* Nothing comes of a site before it is made.
NotYet ==
    site = {} => /\ \A p \in Pages : pages[p] = {}
                 /\ \A r \in Saves : saves[r] = {}
                 /\ asked = {}

RowInv == Single /\ Apart /\ NotYet /\ \A s \in site : Fits(s)

\* A write of the row leaves behind every page and every save under way.
LEMMA LeftBehind ==
    ASSUME NEW s \in Row, NEW n \in Row, n.version = s.version + 1
    PROVE  /\ \A g \in Page : PageFits(s, g) => PageFits(n, g)
           /\ \A q \in Save : SaveFits(s, q) => SaveFits(n, q)
           /\ \A q \in Save, g \in Page :
                  PageFits(s, g) /\ SaveFits(s, q) /\ PairFits(s, q, g) => PairFits(n, q, g)
  <1>1. s.version \in Nat /\ n.version \in Nat
    BY DEF Row
  <1>2. ASSUME NEW g \in Page, PageFits(s, g) PROVE PageFits(n, g)
    <2>1. g.version \in Nat
      BY DEF Page
    <2> QED BY <1>1, <1>2, <2>1 DEF PageFits
  <1>3. ASSUME NEW q \in Save, SaveFits(s, q) PROVE SaveFits(n, q) /\ q.version # n.version
    <2>1. q.version \in Nat
      BY DEF Save
    <2>2. q.version <= n.version /\ q.version # n.version
      BY <1>1, <1>3, <2>1 DEF SaveFits
    <2> QED BY <1>3, <2>2 DEF SaveFits
  <1>4. ASSUME NEW q \in Save, NEW g \in Page, SaveFits(s, q), PairFits(s, q, g)
        PROVE  PairFits(n, q, g)
    BY <1>3, <1>4 DEF PairFits
  <1> QED BY <1>2, <1>3, <1>4

\* The forms, and what is asked, have no part in it.
LEMMA ElsewhereStep ==
    ASSUME RowInv, UNCHANGED <<site, pages, saves>>, site = {} => asked' = {}
    PROVE  RowInv'
  BY DEF RowInv, Single, Apart, NotYet, Fits

LEMMA CreateStep ==
    ASSUME TypeOK, FormsFit, RowInv, NEW p \in Pages, NEW label \in Labels,
           NEW drive \in SUBSET Places, Create(p, label, drive)
    PROVE  RowInv'
  <1>1. PICK f \in forms[p] : Create(p, label, drive)!2!(f)
    BY DEF Create
  <1>2. PICK x \in f.place :
          site' = {[version |-> 0, label |-> label, place |-> x,
                    rated |-> x, drive |-> drive, typed |-> f.typed]}
    BY <1>1
  <1>3. f.typed \subseteq {x}
    BY <1>2 DEF FormsFit, Lone
  <1>4. /\ \A q \in Pages : pages'[q] = {}
        /\ \A r \in Saves : saves'[r] = {}
    BY DEF Create, RowInv, NotYet
  <1>5. \A s \in site' : Fits(s)'
    BY <1>2, <1>3, <1>4 DEF Fits
  <1>6. site' # {}
    BY <1>2
  <1> QED BY <1>2, <1>4, <1>5, <1>6 DEF RowInv, Single, Lone, Apart, NotYet

LEMMA OpenStep ==
    ASSUME TypeOK, RowInv, NEW p \in Pages, Open(p)
    PROVE  RowInv'
  <1>1. PICK s \in site : Open(p)!1!(s)
    BY DEF Open
  <1>2. s \in Row /\ s.version \in Nat /\ site = {s} /\ site' = site
    BY DEF TypeOK, Row, RowInv, Single, Lone, Open
  <1> DEFINE g == [version |-> s.version, place |-> s.place, label |-> {s.label}, typing |-> {}]
  <1>3. pages'[p] = {g} /\ \A o \in Pages : o # p => pages'[o] = pages[o]
    BY <1>1 DEF TypeOK
  <1>4. PageFits(s, g)
    BY <1>2 DEF PageFits
  <1>5. ASSUME NEW r \in Saves, NEW q \in saves'[r]
        PROVE  \E o \in saves[r] : q = [o EXCEPT !.page = @ \ {p}]
    BY DEF Open, Unheard
  <1>6. ASSUME NEW r \in Saves, NEW o \in saves[r]
        PROVE  LET q == [o EXCEPT !.page = @ \ {p}] IN
               /\ q.page = o.page \ {p}
               /\ q.stage = o.stage /\ q.version = o.version /\ q.label = o.label
               /\ q.place = o.place /\ q.typed = o.typed /\ q.was = o.was /\ q.shown = o.shown
    BY DEF TypeOK, Save
  <1>7. ASSUME NEW r \in Saves, NEW q \in saves'[r]
        PROVE  /\ SaveFits(s, q)
               /\ \A o \in q.page : o \in Pages => \A h \in pages'[o] : PairFits(s, q, h)
    <2>1. PICK o \in saves[r] : q = [o EXCEPT !.page = @ \ {p}]
      BY <1>5
    <2>2. /\ q.page = o.page \ {p}
          /\ q.stage = o.stage /\ q.version = o.version /\ q.label = o.label
          /\ q.place = o.place /\ q.typed = o.typed /\ q.was = o.was /\ q.shown = o.shown
      BY <1>6, <2>1
    <2>3. SaveFits(s, o) /\ \A x \in o.page : \A h \in pages[x] : PairFits(s, o, h)
      BY DEF RowInv, Fits
    <2>4. SaveFits(s, q)
      BY <2>2, <2>3 DEF SaveFits, Going
    <2>5. ASSUME NEW x \in q.page, x \in Pages, NEW h \in pages'[x] PROVE PairFits(s, q, h)
      <3>1. x # p /\ x \in o.page /\ h \in pages[x]
        BY <1>3, <2>2, <2>5
      <3> QED BY <2>2, <2>3, <3>1 DEF PairFits, Going
    <2> QED BY <2>4, <2>5
  <1>8. \A r \in Saves : \A q \in saves'[r] : q.page \subseteq Pages
    <2>1. saves' \in [Saves -> SUBSET Save]
      BY UnheardType DEF Open
    <2> QED BY <2>1 DEF Save
  <1>9. Fits(s)'
    BY <1>2, <1>3, <1>4, <1>7, <1>8 DEF Fits, RowInv
  <1>10. Apart'
    <2> SUFFICES ASSUME NEW r1 \in Saves, NEW r2 \in Saves, NEW q1 \in saves'[r1],
                        NEW q2 \in saves'[r2], r1 # r2, q1.stage = "saved", q2.stage = "saved"
                 PROVE  q1.version # q2.version
      BY DEF Apart
    <2>1. PICK o1 \in saves[r1] : q1 = [o1 EXCEPT !.page = @ \ {p}]
      BY <1>5
    <2>2. PICK o2 \in saves[r2] : q2 = [o2 EXCEPT !.page = @ \ {p}]
      BY <1>5
    <2>3. /\ q1.stage = o1.stage /\ q1.version = o1.version
          /\ q2.stage = o2.stage /\ q2.version = o2.version
      BY <1>6, <2>1, <2>2
    <2> QED BY <2>3 DEF RowInv, Apart
  <1>11. Single'
    <2>1. \A r \in Saves : Lone(saves'[r])
      BY <1>5 DEF RowInv, Single, Lone
    <2>2. \A o \in Pages : o # p => Lone(pages'[o])
      BY <1>3 DEF RowInv, Single
    <2>3. Lone(pages'[p])
      BY <1>3 DEF Lone
    <2> QED BY <1>2, <2>1, <2>2, <2>3 DEF RowInv, Single
  <1> QED BY <1>2, <1>9, <1>10, <1>11 DEF RowInv, NotYet

\* A page drawn or written in, with the row, the saves and its version of the
\* label as they were or not drawn at all.
LEMMA PageStep ==
    ASSUME TypeOK, RowInv, NEW s \in site, NEW p \in Pages, NEW g \in pages[p], NEW h \in Page,
           pages' = [pages EXCEPT ![p] = {h}], UNCHANGED <<site, saves, asked>>,
           PageFits(s, h),
           h.place = s.place \/ h.place = g.place,
           h.label = {} \/ (h.label = g.label /\ h.version = g.version)
    PROVE  RowInv'
  <1>1. site = {s}
    BY DEF RowInv, Single, Lone
  <1>2. pages'[p] = {h} /\ \A o \in Pages : o # p => pages'[o] = pages[o]
    BY DEF TypeOK
  <1>3. ASSUME NEW r \in Saves, NEW q \in saves[r], p \in q.page PROVE PairFits(s, q, h)
    <2>1. PairFits(s, q, g)
      BY <1>3 DEF RowInv, Fits
    <2> QED BY <2>1 DEF PairFits
  <1>4. \A r \in Saves : \A q \in saves[r] : q.page \subseteq Pages
    BY DEF TypeOK, Save
  <1>5. Fits(s)'
    BY <1>2, <1>3, <1>4 DEF RowInv, Fits
  <1> QED BY <1>1, <1>2, <1>5 DEF RowInv, Single, Lone, Apart, NotYet

LEMMA RefreshStep ==
    ASSUME TypeOK, RowInv, NEW p \in Pages, Refresh(p)
    PROVE  RowInv'
  <1>1. PICK s \in site, g \in pages[p] : Refresh(p)!1!(s, g)
    BY DEF Refresh
  <1>2. g \in Page /\ s \in Row /\ Redrawn(g, s) \in SUBSET Places
    BY DEF TypeOK, Page, Redrawn
  <1> DEFINE h == [g EXCEPT !.version = s.version, !.place = s.place,
                            !.typing = Redrawn(g, s), !.label = {}]
  <1>3. h \in Page
    BY <1>2 DEF Page, Row
  <1>4. h.version = s.version /\ h.place = s.place /\ h.typing = Redrawn(g, s) /\ h.label = {}
    BY <1>2 DEF Page
  <1>5. PageFits(s, g) /\ s.version \in Nat
    BY <1>2 DEF RowInv, Fits, Row
  <1>6. PageFits(s, h)
    BY <1>4, <1>5 DEF PageFits, Redrawn
  <1>7. pages' = [pages EXCEPT ![p] = {h}]
    BY <1>1
  <1> HIDE DEF h
  <1> QED BY <1>3, <1>4, <1>6, <1>7, PageStep DEF Refresh

LEMMA TypingStep ==
    ASSUME TypeOK, RowInv, NEW p \in Pages, Type(p)
    PROVE  RowInv'
  <1>1. PICK g \in pages[p] : Type(p)!1!(g)
    BY DEF Type
  <1>2. site # {}
    BY DEF RowInv, NotYet
  <1>3. PICK s \in site : TRUE
    BY <1>2
  <1>4. g \in Page
    BY DEF TypeOK
  <1> DEFINE h == [g EXCEPT !.typing = {g.place}]
  <1>5. /\ h \in Page /\ h.version = g.version /\ h.place = g.place
        /\ h.label = g.label /\ h.typing = {g.place}
    BY <1>4 DEF Page
  <1>6. PageFits(s, g)
    BY DEF RowInv, Fits
  <1>7. PageFits(s, h)
    BY <1>5, <1>6 DEF PageFits
  <1>8. pages' = [pages EXCEPT ![p] = {h}]
    BY <1>1
  <1> HIDE DEF h
  <1> QED BY <1>5, <1>7, <1>8, PageStep DEF Type

\* A save put in the place of one, or of none: going, over, or heard of no more.
LEMMA SaveStep ==
    ASSUME TypeOK, RowInv, NEW s \in site, NEW r \in Saves, NEW q \in Save, Step(r, q),
           UNCHANGED <<site, pages, asked>>,
           SaveFits(s, q), \A p \in q.page : \A g \in pages[p] : PairFits(s, q, g),
           q.stage # "saved"
    PROVE  RowInv'
  <1>1. site = {s}
    BY DEF RowInv, Single, Lone
  <1>2. saves'[r] = {q} /\ \A x \in Saves : x # r => saves'[x] = saves[x]
    BY DEF TypeOK, Step
  <1>3. Fits(s)'
    BY <1>2 DEF RowInv, Fits
  <1>4. Apart'
    BY <1>2 DEF RowInv, Apart
  <1> QED BY <1>1, <1>2, <1>3, <1>4 DEF RowInv, Single, Lone, NotYet

LEMMA OverFits ==
    ASSUME NEW s \in Row
    PROVE  SaveFits(s, Over) /\ Over.page = {} /\ Over.stage = "over"
  BY DEF Over, SaveFits, Going, Lone, Row

LEMMA SendStep ==
    ASSUME TypeOK, RowInv, NEW p \in Pages, NEW r \in Saves, NEW g \in pages[p],
           NEW label \in SUBSET Labels, NEW place \in SUBSET Places,
           NEW typed \in SUBSET SUBSET Places, Send(p, r, g, label, place, typed),
           Lone(label), Lone(place), typed \subseteq {g.typing}, typed # {} => place = {}
    PROVE  RowInv'
  <1>1. site # {}
    BY DEF RowInv, NotYet
  <1>2. PICK s \in site : TRUE
    BY <1>1
  <1> DEFINE q == [stage |-> "sent", page |-> {p}, version |-> g.version,
                   label |-> label, place |-> place, typed |-> typed, was |-> {},
                   shown |-> IF label = {} THEN {} ELSE g.label]
  <1>3. g \in Page /\ s \in Row
    BY DEF TypeOK
  <1>4. q \in Save
    BY <1>3 DEF Save, Page, Stages
  <1>5. Step(r, q) /\ UNCHANGED <<site, pages, asked>>
    BY DEF Send, Step
  <1>6. PageFits(s, g) /\ g.version \in Nat
    BY <1>3 DEF RowInv, Fits, Page
  <1>7. /\ q.stage = "sent" /\ q.page = {p} /\ q.version = g.version /\ q.label = label
        /\ q.place = place /\ q.typed = typed /\ q.was = {} /\ q.shown \subseteq g.label
    OBVIOUS
  <1> HIDE DEF q
  <1>8. SaveFits(s, q)
    BY <1>6, <1>7 DEF SaveFits, PageFits, Going
  <1>9. \A h \in pages[p] : h = g
    BY DEF RowInv, Single, Lone
  <1>10. PairFits(s, q, g)
    BY <1>6, <1>7 DEF PairFits, PageFits, Going
  <1>11. \A o \in q.page : \A h \in pages[o] : PairFits(s, q, h)
    BY <1>7, <1>9, <1>10
  <1> QED BY <1>4, <1>5, <1>7, <1>8, <1>11, SaveStep

LEMMA CommitStep ==
    ASSUME TypeOK, RowInv, NEW p \in Pages, NEW r \in Saves,
           \/ \E label \in Labels : CommitLabel(p, r, label)
           \/ CommitTyped(p, r)
           \/ \E x \in Places : MoveTo(p, r, x)
    PROVE  RowInv'
  <1>1. CASE \E label \in Labels : CommitLabel(p, r, label)
    <2>1. PICK label \in Labels, g \in pages[p] : Send(p, r, g, {label}, {}, {})
      BY <1>1 DEF CommitLabel
    <2>2. {label} \in SUBSET Labels /\ Lone({label}) /\ Lone({})
      BY DEF Lone
    <2> QED BY <2>1, <2>2, SendStep
  <1>2. CASE CommitTyped(p, r)
    <2>1. PICK g \in pages[p] : Send(p, r, g, {}, {}, {g.typing})
      BY <1>2 DEF CommitTyped
    <2>2. {g.typing} \in SUBSET SUBSET Places /\ Lone({})
      BY DEF TypeOK, Page, Lone
    <2> QED BY <2>1, <2>2, SendStep
  <1>3. CASE \E x \in Places : MoveTo(p, r, x)
    <2>1. PICK x \in Places, g \in pages[p] : Send(p, r, g, {}, {x}, {})
      BY <1>3 DEF MoveTo
    <2>2. {x} \in SUBSET Places /\ Lone({x}) /\ Lone({})
      BY DEF Lone
    <2> QED BY <2>1, <2>2, SendStep
  <1> QED BY <1>1, <1>2, <1>3

LEMMA OverStep ==
    ASSUME TypeOK, RowInv, NEW r \in Saves, saves[r] # {}, Step(r, Over),
           UNCHANGED <<site, pages, asked>>
    PROVE  RowInv'
  <1>1. site # {}
    BY DEF RowInv, NotYet
  <1>2. PICK s \in site : s \in Row
    BY <1>1 DEF TypeOK
  <1>3. SaveFits(s, Over) /\ Over.page = {} /\ Over.stage # "saved"
    BY <1>2, OverFits
  <1> QED BY <1>2, <1>3, OverType, SaveStep

LEMMA ReadStep ==
    ASSUME TypeOK, RowInv, NEW r \in Saves, ReadSite(r)
    PROVE  RowInv'
  <1>1. PICK o \in saves[r], s \in site : ReadSite(r)!1!(o, s)
    BY DEF ReadSite
  <1> DEFINE q == [o EXCEPT !.stage = "read", !.was = {s.place}]
  <1>2. o \in Save /\ s \in Row
    BY DEF TypeOK
  <1>3. q \in Save
    BY <1>2 DEF Save, Row, Stages
  <1>4. /\ q.stage = "read" /\ q.was = {s.place} /\ q.page = o.page /\ q.version = o.version
        /\ q.label = o.label /\ q.place = o.place /\ q.typed = o.typed /\ q.shown = o.shown
    BY <1>2 DEF Save
  <1>5. SaveFits(s, o) /\ \A p \in o.page : p \in Pages /\ \A g \in pages[p] : PairFits(s, o, g)
    BY <1>2 DEF RowInv, Fits, Save
  <1>6. Step(r, q)
    BY <1>1
  <1> HIDE DEF q
  <1>7. SaveFits(s, q)
    BY <1>1, <1>4, <1>5 DEF SaveFits, Going
  <1>8. \A p \in q.page : \A g \in pages[p] : PairFits(s, q, g)
    BY <1>1, <1>4, <1>5 DEF PairFits, Going
  <1> QED BY <1>3, <1>4, <1>6, <1>7, <1>8, SaveStep DEF ReadSite

LEMMA GiveUpStep ==
    ASSUME TypeOK, RowInv, NEW r \in Saves, GiveUp(r)
    PROVE  RowInv'
  <1>1. PICK o \in saves[r] : GiveUp(r)!1!(o)
    BY DEF GiveUp
  <1>2. UNCHANGED <<site, pages, asked>>
    BY DEF GiveUp
  <1>3. CASE Step(r, Over)
    BY <1>1, <1>2, <1>3, OverStep
  <1>4. CASE o.stage # "saved" /\ Step(r, [o EXCEPT !.page = {}])
    <2> DEFINE q == [o EXCEPT !.page = {}]
    <2>1. site # {}
      BY DEF RowInv, NotYet
    <2>2. PICK s \in site : s \in Row
      BY <2>1 DEF TypeOK
    <2>3. o \in Save /\ SaveFits(s, o)
      BY <2>2 DEF TypeOK, RowInv, Fits
    <2>4. /\ q \in Save
          /\ q.stage = o.stage /\ q.was = o.was /\ q.page = {} /\ q.version = o.version
          /\ q.label = o.label /\ q.place = o.place /\ q.typed = o.typed /\ q.shown = o.shown
      BY <2>3 DEF Save
    <2>5. Step(r, q)
      BY <1>4
    <2> HIDE DEF q
    <2>6. SaveFits(s, q)
      BY <2>3, <2>4 DEF SaveFits, Going
    <2> QED BY <1>2, <1>4, <2>2, <2>4, <2>5, <2>6, SaveStep
  <1> QED BY <1>1, <1>3, <1>4

\* Heard: the page that waited is the one it was the next version of.
LEMMA HearStep ==
    ASSUME TypeOK, RowInv, NEW r \in Saves, Hear(r)
    PROVE  RowInv'
  <1>1. PICK q \in saves[r], p \in Pages : Hear(r)!1!(q, p)
    BY DEF Hear
  <1>2. q \in Save /\ q.stage = "saved" /\ p \in q.page /\ q.version \in Nat
    <2>1. q.stage = "saved" /\ p \in q.page
      BY <1>1
    <2>2. q \in Save
      BY DEF TypeOK
    <2> QED BY <2>1, <2>2 DEF Save
  <1>3. site # {}
    BY DEF RowInv, NotYet
  <1>4. PICK s \in site : s \in Row
    BY <1>3 DEF TypeOK
  <1>5. UNCHANGED <<site, asked>> /\ site = {s} /\ Step(r, Over)
    <2>1. UNCHANGED <<site, asked>> /\ Step(r, Over)
      BY DEF Hear
    <2>2. site = {s}
      BY <1>4 DEF RowInv, Single, Lone
    <2> QED BY <2>1, <2>2
  <1>6. saves'[r] = {Over} /\ \A x \in Saves : x # r => saves'[x] = saves[x]
    BY <1>5 DEF Step, TypeOK
  <1>7. pages' = [pages EXCEPT ![p] = {Heard(q, g) : g \in pages[p]}]
    BY <1>1 DEF Heard
  <1>8. pages'[p] = {Heard(q, g) : g \in pages[p]} /\ \A o \in Pages : o # p => pages'[o] = pages[o]
    BY <1>7 DEF TypeOK
  <1>9. ASSUME NEW g \in pages[p]
        PROVE  /\ Heard(q, g).version = IF q.place # {} THEN g.version ELSE q.version
               /\ Heard(q, g).place = g.place
               /\ Heard(q, g).label = IF q.place # {} \/ g.label = {} \/ q.label = {}
                                      THEN g.label ELSE q.label
               /\ Heard(q, g).typing \in SUBSET g.typing
    BY <1>2, HeardFields DEF TypeOK
  <1>10. \A g \in pages[p] : PageFits(s, g) /\ PairFits(s, q, g) /\ g.version \in Nat
    BY <1>2, <1>4 DEF RowInv, Fits, TypeOK, Page
  <1>11. SaveFits(s, q) /\ s.version \in Nat
    BY <1>4 DEF RowInv, Fits, Row
  <1>12. ASSUME NEW g \in pages[p] PROVE PageFits(s, Heard(q, g))
    <2>1. CASE q.place # {}
      BY <1>9, <1>10, <2>1 DEF PageFits
    <2>2. CASE q.place = {}
      <3>1. Heard(q, g).version <= s.version
        BY <1>9, <1>11, <2>2 DEF SaveFits
      <3>2. ASSUME q.version = s.version PROVE g.place = s.place /\ Heard(q, g).label \subseteq {s.label}
        <4>1. /\ g.place = s.place
              /\ q.label = {} => g.label \subseteq {s.label}
              /\ q.label \subseteq {s.label}
          BY <1>2, <1>10, <2>2, <3>2 DEF PairFits
        <4>2. Heard(q, g).label \in {g.label, q.label}
          BY <1>9
        <4>3. Heard(q, g).label = q.label \/ g.label = {} \/ q.label = {}
          BY <1>9, <2>2
        <4>4. Heard(q, g).label \subseteq {s.label}
          BY <4>1, <4>2, <4>3
        <4> QED BY <4>1, <4>4
      <3> QED BY <1>9, <1>10, <2>2, <3>1, <3>2 DEF PageFits
    <2> QED BY <2>1, <2>2
  <1>13. ASSUME NEW x \in Saves, NEW k \in saves'[x], p \in k.page, NEW g \in pages[p]
         PROVE  PairFits(s, k, Heard(q, g))
    <2>1. x # r
      <3>1. Over.page = {}
        BY DEF Over
      <3> QED BY <1>6, <1>13, <3>1
    <2>2. k \in saves[x]
      BY <1>6, <2>1
    <2>3. PairFits(s, k, g) /\ k \in Save /\ k.version \in Nat
      BY <1>4, <1>13, <2>2 DEF RowInv, Fits, TypeOK, Save
    <2>4. k.stage = "saved" => k.version # q.version
      BY <1>2, <2>1, <2>2 DEF RowInv, Apart
    <2>5. g.label # {} => q.version = g.version + 1
      BY <1>2, <1>10 DEF PairFits
    <2>6. k.stage = "saved" => g.label = {}
      BY <2>3, <2>4, <2>5 DEF PairFits
    <2>7. /\ g.label = {} => Heard(q, g).label = {}
          /\ Heard(q, g).label # {} => g.label # {}
      BY <1>9
    <2>8. Going(k) /\ g.label # {} => k.version <= Heard(q, g).version
      <3>1. Going(k) /\ g.label # {} => k.version <= g.version
        BY <2>3 DEF PairFits
      <3>2. g.label # {} => g.version <= Heard(q, g).version
        <4>1. Heard(q, g).version = g.version \/ Heard(q, g).version = q.version
          BY <1>9
        <4>2. g.version \in Nat
          BY <1>10
        <4> QED BY <2>5, <4>1, <4>2
      <3>3. Heard(q, g).version \in Nat /\ g.version \in Nat
        BY <1>2, <1>9, <1>10
      <3> QED BY <2>3, <3>1, <3>2, <3>3
    <2> QED BY <1>9, <2>3, <2>6, <2>7, <2>8 DEF PairFits, Going
  <1>14. SaveFits(s, Over) /\ Over.page = {} /\ Over.stage = "over"
    BY <1>4, OverFits
  <1>15. s.typed \subseteq {s.place}
    BY <1>4 DEF RowInv, Fits
  <1>16. \A o \in Pages : \A h \in pages'[o] : PageFits(s, h)
    BY <1>4, <1>8, <1>12 DEF RowInv, Fits
  <1>17. \A x \in Saves : \A k \in saves[x] : k.page \subseteq Pages
    BY DEF TypeOK, Save
  <1>18. ASSUME NEW x \in Saves, NEW k \in saves'[x]
         PROVE  SaveFits(s, k) /\ \A o \in k.page : \A h \in pages'[o] : PairFits(s, k, h)
    <2>1. CASE x = r
      BY <1>6, <1>14, <2>1
    <2>2. CASE x # r
      <3>1. k \in saves[x]
        BY <1>6, <2>2
      <3>2. SaveFits(s, k) /\ \A o \in k.page : \A h \in pages[o] : PairFits(s, k, h)
        BY <1>4, <3>1 DEF RowInv, Fits
      <3>3. ASSUME NEW o \in k.page, NEW h \in pages'[o] PROVE PairFits(s, k, h)
        <4>1. o \in Pages
          BY <1>17, <3>1
        <4>2. CASE o = p
          BY <1>8, <1>13, <4>2
        <4>3. CASE o # p
          BY <1>8, <3>2, <4>1, <4>3
        <4> QED BY <4>2, <4>3
      <3> QED BY <3>2, <3>3
    <2> QED BY <2>1, <2>2
  <1>19. Fits(s)'
    BY <1>15, <1>16, <1>18 DEF Fits
  <1>20. Apart'
    BY <1>6, <1>14 DEF RowInv, Apart
  <1>21. Single'
    <2>1. ASSUME NEW o \in Pages PROVE Lone(pages'[o])
      BY <1>8 DEF RowInv, Single, Lone
    <2>2. ASSUME NEW x \in Saves PROVE Lone(saves'[x])
      BY <1>6 DEF RowInv, Single, Lone
    <2> QED BY <1>5, <2>1, <2>2 DEF Single, Lone
  <1> QED BY <1>5, <1>19, <1>20, <1>21 DEF RowInv, NotYet

\* What a save writes: the row as it is but one version on, still about one
\* place, and as its page waits to hear.
LEMMA LandWrites ==
    ASSUME TypeOK, RowInv, NEW s \in site, NEW r \in Saves, NEW q \in saves[r],
           Ready(q), UnchangedSince(q, s),
           NEW drive \in SUBSET Places, drive \subseteq IF Moved(q) THEN q.place ELSE {},
           NEW n, n = Saved(q, s, drive)
    PROVE  /\ n \in Row /\ n.version = s.version + 1
           /\ n.typed \subseteq {n.place}
           /\ q.shown \subseteq {s.label}
           /\ q.label = {} => n.label = s.label
           /\ q.label \subseteq {n.label}
           /\ q.place = {} => n.place = s.place
           /\ Moved(q) => n.rated = n.place /\ n.drive \subseteq {n.place}
           /\ ~Moved(q) => n.place = s.place /\ n.rated = s.rated /\ n.drive = s.drive
  <1>1. q \in Save /\ s \in Row
    BY DEF TypeOK
  <1>2. SaveFits(s, q) /\ s.typed \subseteq {s.place}
    BY DEF RowInv, Fits
  <1>3. /\ q.was \subseteq {s.place} /\ q.shown \subseteq {s.label}
        /\ \A t \in q.typed : t \subseteq {s.place}
    BY <1>2 DEF SaveFits, Ready, UnchangedSince, Going
  <1>4. /\ n \in Row /\ n.version = s.version + 1
        /\ n.label = IF q.label = {} THEN s.label ELSE CHOOSE l \in q.label : TRUE
        /\ n.place = IF q.place = {} THEN s.place ELSE CHOOSE x \in q.place : TRUE
        /\ n.rated = IF Moved(q) THEN CHOOSE x \in q.place : TRUE ELSE s.rated
        /\ n.drive = IF Moved(q) THEN drive ELSE s.drive
        /\ n.typed = IF q.typed # {} THEN UNION q.typed ELSE IF Moved(q) THEN {} ELSE s.typed
    BY <1>1, SavedFields
  <1>5. q.place # {} => n.place \in q.place
    BY <1>4
  <1>6. ~Moved(q) => n.place = s.place
    BY <1>3, <1>4, <1>5 DEF Moved
  <1>7. Moved(q) => n.rated = n.place /\ n.drive \subseteq {n.place}
    <2>1. Moved(q) => n.rated = n.place
      BY <1>4 DEF Moved
    <2>2. Moved(q) => q.place = {n.place}
      BY <1>2, <1>5 DEF Moved, SaveFits, Lone
    <2> QED BY <1>4, <2>1, <2>2
  <1>8. n.typed \subseteq {n.place}
    <2>1. CASE q.typed # {}
      <3>1. ~Moved(q)
        BY <1>2, <2>1 DEF SaveFits, Moved
      <3>2. n.typed = UNION q.typed
        BY <1>4, <2>1
      <3> QED BY <1>3, <1>6, <3>1, <3>2
    <2>2. CASE q.typed = {}
      BY <1>2, <1>4, <1>6, <2>2
    <2> QED BY <2>1, <2>2
  <1>9. q.label \subseteq {n.label}
    BY <1>2, <1>4 DEF SaveFits, Lone
  <1>10. (q.label = {} => n.label = s.label) /\ (q.place = {} => n.place = s.place)
    BY <1>4
  <1> QED BY <1>3, <1>4, <1>6, <1>7, <1>8, <1>9, <1>10

LEMMA LandStep ==
    ASSUME TypeOK, RowInv, NEW r \in Saves, NEW drive \in SUBSET Places, Land(r, drive)
    PROVE  RowInv'
  <1>1. PICK q \in saves[r], s \in site : Land(r, drive)!1!(q, s)
    BY DEF Land
  <1> DEFINE n == Saved(q, s, drive)
             k == [q EXCEPT !.stage = "saved", !.version = s.version + 1]
             new == IF q.page = {} THEN Over ELSE k
  <1>2. /\ q \in Save /\ s \in Row /\ s.version \in Nat /\ site = {s}
        /\ \A p \in Pages : pages[p] \subseteq Page
        /\ \A x \in Saves : saves[x] \subseteq Save
    BY DEF TypeOK, Row, RowInv, Single, Lone
  <1>3. /\ n \in Row /\ n.version = s.version + 1
        /\ n.typed \subseteq {n.place}
        /\ q.label = {} => n.label = s.label
        /\ q.label \subseteq {n.label}
        /\ q.place = {} => n.place = s.place
    BY <1>1, LandWrites
  <1>4. site' = {n} /\ UNCHANGED <<pages, asked>> /\ Step(r, new)
    BY <1>1 DEF Land
  <1>5. saves'[r] = {new} /\ \A x \in Saves : x # r => saves'[x] = saves[x]
    BY <1>4 DEF Step, TypeOK
  <1>6. SaveFits(s, q) /\ q.version = s.version /\ Going(q)
    BY <1>1 DEF RowInv, Fits, UnchangedSince, Ready, Going
  <1>7. \A v \in Nat : LET o == [q EXCEPT !.stage = "saved", !.version = v] IN
            /\ o.stage = "saved" /\ o.version = v /\ o.page = q.page /\ o.label = q.label
            /\ o.place = q.place /\ o.typed = q.typed
    BY <1>2 DEF Save
  <1>8. /\ k.stage = "saved" /\ k.version = n.version /\ k.page = q.page /\ k.label = q.label
        /\ k.place = q.place /\ k.typed = q.typed
    BY <1>2, <1>3, <1>7
  <1> HIDE DEF n, k
  <1>9. SaveFits(n, k)
    BY <1>2, <1>3, <1>6, <1>8 DEF SaveFits, Going
  <1>10. ASSUME NEW p \in Pages, p \in q.page, NEW g \in pages[p] PROVE PairFits(n, k, g)
    <2>1. PageFits(s, g) /\ PairFits(s, q, g) /\ g.version \in Nat
      BY <1>2, <1>10 DEF RowInv, Fits, Page
    <2>2. g.place = s.place
      BY <1>6, <2>1 DEF PairFits
    <2>3. g.label # {} => g.version = s.version
      BY <1>2, <1>6, <2>1 DEF PairFits, PageFits
    <2>4. g.label \subseteq {s.label}
      BY <2>1, <2>3 DEF PageFits
    <2> QED BY <1>3, <1>8, <2>2, <2>3, <2>4 DEF PairFits, Going
  <1>11. SaveFits(n, Over) /\ Over.page = {} /\ Over.stage = "over"
    BY <1>3, OverFits
  <1>12. /\ SaveFits(n, new)
         /\ new.stage = "saved" => new.version = n.version
         /\ \A p \in Pages : p \in new.page => \A g \in pages[p] : PairFits(n, new, g)
    BY <1>8, <1>9, <1>10, <1>11
  <1> HIDE DEF new
  <1>13. \A x \in Saves : \A o \in saves'[x] : o.page \subseteq Pages
    BY TypeStep DEF Next, TypeOK, Save
  <1>14. \A p \in Pages : \A g \in pages[p] : PageFits(n, g)
    BY <1>2, <1>3, LeftBehind DEF RowInv, Fits
  <1>15. ASSUME NEW x \in Saves, NEW o \in saves'[x]
         PROVE  SaveFits(n, o) /\ \A p \in o.page : \A g \in pages'[p] : PairFits(n, o, g)
    <2>1. CASE x = r
      BY <1>4, <1>5, <1>12, <1>13, <2>1
    <2>2. CASE x # r
      <3>1. o \in saves[x] /\ o \in Save
        BY <1>2, <1>5, <2>2
      <3>2. SaveFits(n, o)
        BY <1>2, <1>3, <3>1, LeftBehind DEF RowInv, Fits
      <3>3. ASSUME NEW p \in o.page, NEW g \in pages[p] PROVE PairFits(n, o, g)
        <4>1. p \in Pages
          BY <1>13
        <4>2. g \in Page /\ PageFits(s, g) /\ SaveFits(s, o) /\ PairFits(s, o, g)
          BY <1>2, <3>1, <4>1 DEF RowInv, Fits
        <4> QED BY <1>2, <1>3, <3>1, <4>2, LeftBehind
      <3> QED BY <1>4, <3>2, <3>3
    <2> QED BY <2>1, <2>2
  <1>16. Fits(n)'
    BY <1>3, <1>4, <1>14, <1>15 DEF Fits
  <1>17. Apart'
    <2>1. ASSUME NEW x \in Saves, x # r, NEW o \in saves'[x] PROVE o.version # n.version
      <3>1. o \in saves[x] /\ o.version \in Nat
        BY <1>2, <1>5, <2>1 DEF Save
      <3>2. SaveFits(s, o)
        BY <3>1 DEF RowInv, Fits
      <3> QED BY <1>2, <1>3, <3>1, <3>2 DEF SaveFits
    <2>2. \A o \in saves'[r] : o.stage = "saved" => o.version = n.version
      BY <1>5, <1>12
    <2>3. \A x, y \in Saves : \A o \in saves'[x], m \in saves'[y] :
              x # r /\ y # r /\ x # y /\ o.stage = "saved" /\ m.stage = "saved" => o.version # m.version
      BY <1>5 DEF RowInv, Apart
    <2> QED BY <2>1, <2>2, <2>3 DEF Apart
  <1>18. Single'
    <2>1. \A x \in Saves : Lone(saves'[x])
      BY <1>5 DEF RowInv, Single, Lone
    <2>2. Lone(site')
      BY <1>4 DEF Lone
    <2> QED BY <1>4, <2>1, <2>2 DEF RowInv, Single
  <1> QED BY <1>4, <1>16, <1>17, <1>18 DEF RowInv, NotYet

\* A write that names no version, and moves nothing.
LEMMA WriteStep ==
    ASSUME TypeOK, RowInv, NEW s \in site, NEW n \in Row, Write(s, n),
           n.place = s.place, n.typed = s.typed, UNCHANGED <<pages, saves>>
    PROVE  RowInv'
  <1> DEFINE m == [n EXCEPT !.version = s.version + 1]
  <1>1. s \in Row /\ s.version \in Nat /\ site = {s}
    BY DEF TypeOK, Row, RowInv, Single, Lone
  <1>2. m \in Row /\ m.version = s.version + 1 /\ m.place = s.place /\ m.typed = s.typed
    BY <1>1 DEF Row
  <1>3. site' = {m}
    BY DEF Write
  <1> HIDE DEF m
  <1>4. /\ \A p \in Pages : pages[p] \subseteq Page
        /\ \A r \in Saves : saves[r] \subseteq Save
        /\ \A r \in Saves : \A q \in saves[r] : q.page \subseteq Pages
    BY DEF TypeOK, Save
  <1>5. \A p \in Pages : \A g \in pages[p] : PageFits(m, g)
    BY <1>1, <1>2, <1>4, LeftBehind DEF RowInv, Fits
  <1>6. \A r \in Saves : \A q \in saves[r] : SaveFits(m, q)
    BY <1>1, <1>2, <1>4, LeftBehind DEF RowInv, Fits
  <1>7. ASSUME NEW r \in Saves, NEW q \in saves[r], NEW p \in q.page, NEW g \in pages[p]
        PROVE  PairFits(m, q, g)
    <2>1. p \in Pages /\ q \in Save
      BY <1>4
    <2>2. g \in Page /\ PageFits(s, g) /\ SaveFits(s, q) /\ PairFits(s, q, g)
      BY <1>4, <2>1 DEF RowInv, Fits
    <2> QED BY <1>1, <1>2, <2>1, <2>2, LeftBehind
  <1>8. Fits(m)
    BY <1>2, <1>5, <1>6, <1>7 DEF RowInv, Fits
  <1>9. Fits(m)'
    BY <1>8 DEF Fits
  <1> QED BY <1>3, <1>9 DEF RowInv, Single, Lone, Apart, NotYet

LEMMA RowStep == TypeOK /\ FormsFit /\ RowInv /\ [Next]_vars => RowInv'
  <1> SUFFICES ASSUME TypeOK, FormsFit, RowInv, [Next]_vars PROVE RowInv'
    OBVIOUS
  <1>1. ASSUME NEW p \in Pages, OpenForm(p) \/ TypeNew(p) \/ (\E x \in Places : Choose(p, x))
                               \/ (\E drive \in SUBSET Places : HearDrive(p, drive))
        PROVE  RowInv'
    <2>1. UNCHANGED <<site, pages, saves, asked>>
      BY <1>1 DEF OpenForm, TypeNew, Choose, HearDrive
    <2> QED BY <2>1, ElsewhereStep DEF RowInv, NotYet
  <1>2. ASSUME NEW p \in Pages, NEW label \in Labels, NEW drive \in SUBSET Places,
               Create(p, label, drive)
        PROVE  RowInv'
    BY <1>2, CreateStep
  <1>3. ASSUME NEW p \in Pages, Open(p) \/ Refresh(p) \/ Type(p) PROVE RowInv'
    BY <1>3, OpenStep, RefreshStep, TypingStep
  <1>4. ASSUME NEW p \in Pages, NEW r \in Saves,
               \/ \E label \in Labels : CommitLabel(p, r, label)
               \/ CommitTyped(p, r)
               \/ \E x \in Places : MoveTo(p, r, x)
        PROVE  RowInv'
    BY <1>4, CommitStep
  <1>5. ASSUME NEW r \in Saves, Refuse(r) PROVE RowInv'
    <2>1. saves[r] # {} /\ Step(r, Over) /\ UNCHANGED <<site, pages, asked>>
      BY <1>5 DEF Refuse
    <2> QED BY <2>1, OverStep
  <1>6. ASSUME NEW r \in Saves, ReadSite(r) \/ Hear(r) \/ GiveUp(r) PROVE RowInv'
    BY <1>6, ReadStep, HearStep, GiveUpStep
  <1>7. ASSUME NEW r \in Saves, NEW drive \in SUBSET Places, Land(r, drive) PROVE RowInv'
    BY <1>7, LandStep
  <1>8. ASSUME Close PROVE RowInv'
    <2>1. PICK s \in site : Write(s, s)
      BY <1>8 DEF Close
    <2>2. s \in Row /\ UNCHANGED <<pages, saves>>
      BY <1>8 DEF Close, TypeOK
    <2> QED BY <2>1, <2>2, WriteStep
  <1>9. ASSUME NEW a \in asked, WriteRate(a) PROVE RowInv'
    <2>1. PICK s \in site : Write(s, [s EXCEPT !.rated = a.place])
      BY <1>9 DEF WriteRate
    <2>2. s \in Row /\ a.place \in Places
      BY DEF TypeOK, Asked
    <2> DEFINE n == [s EXCEPT !.rated = a.place]
    <2>3. n \in Row /\ n.place = s.place /\ n.typed = s.typed
      BY <2>2 DEF Row
    <2>4. Write(s, n) /\ UNCHANGED <<pages, saves>>
      BY <1>9, <2>1 DEF WriteRate
    <2> HIDE DEF n
    <2> QED BY <2>3, <2>4, WriteStep
  <1>10. ASSUME NEW a \in asked, NEW drive \in SUBSET Places, WriteDrive(a, drive) PROVE RowInv'
    <2>1. PICK s \in site : Write(s, [s EXCEPT !.drive = drive])
      BY <1>10 DEF WriteDrive
    <2>2. s \in Row
      BY DEF TypeOK
    <2> DEFINE n == [s EXCEPT !.drive = drive]
    <2>3. n \in Row /\ n.place = s.place /\ n.typed = s.typed
      BY <2>2 DEF Row
    <2>4. Write(s, n) /\ UNCHANGED <<pages, saves>>
      BY <1>10, <2>1 DEF WriteDrive
    <2> HIDE DEF n
    <2> QED BY <2>3, <2>4, WriteStep
  <1>11. ASSUME StartRefresh \/ StartMeasuring PROVE RowInv'
    <2>1. site # {} /\ UNCHANGED <<site, pages, saves>>
      BY <1>11 DEF StartRefresh, StartMeasuring, Ask
    <2> QED BY <2>1, ElsewhereStep
  <1>12. ASSUME NEW a \in asked, LeaveAlone(a) PROVE RowInv'
    <2>1. asked' \subseteq asked /\ UNCHANGED <<site, pages, saves>>
      BY <1>12 DEF LeaveAlone
    <2> QED BY <2>1, ElsewhereStep DEF RowInv, NotYet
  <1>13. CASE UNCHANGED vars
    BY <1>13, ElsewhereStep DEF vars, RowInv, NotYet
  <1> QED
    BY <1>1, <1>2, <1>3, <1>4, <1>5, <1>6, <1>7, <1>8, <1>9, <1>10, <1>11, <1>12, <1>13 DEF Next
-----------------------------------------------------------------------------
IInv == TypeOK /\ FormsFit /\ RowInv

LEMMA Inductive ==
    /\ Init => IInv
    /\ IInv /\ [Next]_vars => IInv'
  <1>1. Init => IInv
    BY DEF Init, IInv, TypeOK, FormsFit, RowInv, Single, Lone, Apart, NotYet
  <1> QED BY <1>1, TypeStep, FormsStep, RowStep DEF IInv

\* What is typed over Google's is about where its site is, and on a new site
\* about the place chosen, as Google's beside it is.
THEOREM TypedFollowsThePlace == Spec => []TypedIsOfThePlace
  <1>1. IInv => TypedIsOfThePlace
    BY DEF IInv, RowInv, Fits, FormsFit, TypedIsOfThePlace
  <1> QED BY <1>1, Inductive, PTL DEF Spec

\* Only a save's own landing writes the row as the save ends.
LEMMA WritesAndEnds ==
    ASSUME IInv, [Next]_vars, NEW r \in Saves, site' # site, saves'[r] # saves[r]
    PROVE  \E drive \in SUBSET Places : Land(r, drive)
  <1>1. saves' # saves
    OBVIOUS
  <1>2. PICK x \in Saves, drive \in SUBSET Places : Land(x, drive)
    BY <1>1 DEF Next, vars, OpenForm, TypeNew, Choose, HearDrive, Create, Open, Refresh, Type,
       CommitLabel, CommitTyped, MoveTo, Send, ReadSite, Refuse, Hear, GiveUp, Close, StartRefresh,
       StartMeasuring, Ask, WriteRate, WriteDrive, LeaveAlone
  <1>3. x = r
    BY <1>2 DEF Land, Step, IInv, TypeOK
  <1> QED BY <1>2, <1>3

\* A save from a page whose boxes were drawn with the version it names erases
\* only what that page showed.
THEOREM NothingUnseenIsErased == Spec => ErasesOnlyWhatWasShown
  <1>1. ASSUME IInv, [Next]_vars, NEW r \in Saves, NEW q \in saves[r], NEW s \in site,
               site' # site, saves'[r] # saves[r], q.shown # {}
        PROVE  q.shown = {s.label}
    <2>1. PICK drive \in SUBSET Places : Land(r, drive)
      BY <1>1, WritesAndEnds
    <2>2. PICK k \in saves[r], t \in site : Land(r, drive)!1!(k, t)
      BY <2>1 DEF Land
    <2>3. k = q /\ t = s
      BY <1>1 DEF IInv, RowInv, Single, Lone
    <2>4. Ready(q) /\ UnchangedSince(q, s) /\ SaveFits(s, q)
      BY <1>1, <2>2, <2>3 DEF IInv, RowInv, Fits
    <2>5. q.shown \subseteq {s.label}
      BY <2>4 DEF SaveFits, Ready, UnchangedSince, Going
    <2> QED BY <1>1, <2>5
  <1>2. IInv /\ [Next]_vars =>
            [\A r \in Saves : \A q \in saves[r], s \in site :
                site' # site /\ saves'[r] # saves[r] /\ q.shown # {} => q.shown = {s.label}]_vars
    BY <1>1
  <1> QED BY <1>2, Inductive, PTL DEF Spec, ErasesOnlyWhatWasShown

\* The row the step leaves, and a late answer among those written.
Late(of, s) == \E a \in asked \ asked' : a.of = of /\ a.place # s.place

Follows(s, n) ==
    /\ n.rated # n.place => s.rated # s.place \/ Late("rate", s)
    /\ ~(n.drive \subseteq {n.place}) => ~(s.drive \subseteq {s.place}) \/ Late("drive", s)

LEMMA FollowsStep ==
    ASSUME IInv, Next, NEW s \in site, NEW n \in site'
    PROVE  Follows(s, n)
  <1>1. site = {s} /\ s \in Row
    BY DEF IInv, TypeOK, RowInv, Single, Lone
  <1>2. ASSUME site' = site PROVE Follows(s, n)
    BY <1>1, <1>2 DEF Follows
  <1>3. ASSUME NEW r \in Saves, NEW drive \in SUBSET Places, Land(r, drive) PROVE Follows(s, n)
    <2>1. PICK q \in saves[r], t \in site : Land(r, drive)!1!(q, t)
      BY <1>3 DEF Land
    <2>2. n = Saved(q, s, drive)
      BY <1>1, <2>1
    <2>3. drive \subseteq IF Moved(q) THEN q.place ELSE {}
      BY <2>1
    <2>4. /\ Moved(q) => n.rated = n.place /\ n.drive \subseteq {n.place}
          /\ ~Moved(q) => n.place = s.place /\ n.rated = s.rated /\ n.drive = s.drive
      BY <1>1, <2>1, <2>2, <2>3, LandWrites DEF IInv
    <2> QED BY <2>4 DEF Follows
  <1>4. ASSUME Close PROVE Follows(s, n)
    <2>1. n = [s EXCEPT !.version = s.version + 1]
      BY <1>1, <1>4 DEF Close, Write
    <2>2. n.place = s.place /\ n.rated = s.rated /\ n.drive = s.drive
      BY <1>1, <2>1 DEF Row
    <2> QED BY <2>2 DEF Follows
  <1>5. ASSUME NEW a \in asked, WriteRate(a) PROVE Follows(s, n)
    <2>1. n = [[s EXCEPT !.rated = a.place] EXCEPT !.version = s.version + 1]
      BY <1>1, <1>5 DEF WriteRate, Write
    <2>2. n.place = s.place /\ n.rated = a.place /\ n.drive = s.drive
      BY <1>1, <2>1 DEF Row
    <2>3. a.of = "rate" /\ a \in asked \ asked'
      BY <1>5 DEF WriteRate
    <2> QED BY <2>2, <2>3 DEF Follows, Late
  <1>6. ASSUME NEW a \in asked, NEW drive \in SUBSET Places, WriteDrive(a, drive)
        PROVE  Follows(s, n)
    <2>1. n = [[s EXCEPT !.drive = drive] EXCEPT !.version = s.version + 1]
      BY <1>1, <1>6 DEF WriteDrive, Write
    <2>2. n.place = s.place /\ n.rated = s.rated /\ n.drive = drive
      BY <1>1, <2>1 DEF Row
    <2>3. a.of = "drive" /\ a \in asked \ asked' /\ drive \subseteq {a.place}
      BY <1>6 DEF WriteDrive
    <2> QED BY <2>2, <2>3 DEF Follows, Late
  <1>7. ASSUME NEW p \in Pages, NEW label \in Labels, NEW drive \in SUBSET Places,
               Create(p, label, drive)
        PROVE  Follows(s, n)
    BY <1>7 DEF Create
  <1>8. ASSUME NEW p \in Pages, OpenForm(p) \/ TypeNew(p) \/ Open(p) \/ Refresh(p) \/ Type(p)
               \/ (\E x \in Places : Choose(p, x))
               \/ (\E drive \in SUBSET Places : HearDrive(p, drive))
               \/ (\E r \in Saves :
                       \/ \E label \in Labels : CommitLabel(p, r, label)
                       \/ CommitTyped(p, r)
                       \/ \E x \in Places : MoveTo(p, r, x))
        PROVE  Follows(s, n)
    <2>1. site' = site
      BY <1>8 DEF OpenForm, TypeNew, Open, Refresh, Type, Choose, HearDrive, CommitLabel,
         CommitTyped, MoveTo, Send
    <2> QED BY <1>2, <2>1
  <1>9. ASSUME NEW r \in Saves, ReadSite(r) \/ Refuse(r) \/ Hear(r) \/ GiveUp(r)
        PROVE  Follows(s, n)
    <2>1. site' = site
      BY <1>9 DEF ReadSite, Refuse, Hear, GiveUp
    <2> QED BY <1>2, <2>1
  <1>10. ASSUME StartRefresh \/ StartMeasuring \/ (\E a \in asked : LeaveAlone(a))
         PROVE  Follows(s, n)
    <2>1. site' = site
      BY <1>10 DEF StartRefresh, StartMeasuring, Ask, LeaveAlone
    <2> QED BY <1>2, <2>1
  <1> QED BY <1>3, <1>4, <1>5, <1>6, <1>7, <1>8, <1>9, <1>10 DEF Next

\* A site has the rate of another place, or a drive to one, only where an
\* answer asked for before it moved was written over it.
THEOREM OnlyLateAnswersAreLeft == Spec => LeftBehindOnlyByALateAnswer
  <1>1. IInv /\ [Next]_vars =>
            [\A s \in site, n \in site' :
                LET late(of) == \E a \in asked \ asked' : a.of = of /\ a.place # s.place IN
                /\ n.rated # n.place => s.rated # s.place \/ late("rate")
                /\ ~(n.drive \subseteq {n.place}) =>
                       ~(s.drive \subseteq {s.place}) \/ late("drive")]_vars
    BY FollowsStep DEF Follows, Late
  <1> QED BY <1>1, Inductive, PTL DEF Spec, LeftBehindOnlyByALateAnswer
=============================================================================
