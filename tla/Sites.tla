-------------------------------- MODULE Sites --------------------------------
(***************************************************************************)
(* A client's site: where it is, what CDTFA says is charged there, how far *)
(* Google says it is, and what was typed over Google's                     *)
(* (src/routes/api/clients/[id]/sites, src/lib/server/concurrent.ts,       *)
(* src/lib/Setting.svelte, scripts/refresh-tax-rates.mjs,                  *)
(* src/lib/server/site-drive.ts).                                          *)
(*                                                                         *)
(* Several people save the same row a field at a time, each naming the     *)
(* version of it their page holds; a save is decided on an earlier read    *)
(* of the row and on what CDTFA and Google answer, and only its update is  *)
(* guarded.  The refresh of the rates and the measuring of every site when *)
(* the business moves read the row, ask, and write with no guard at all.   *)
(*                                                                         *)
(* An address and its place id move together and are one place.  CDTFA's   *)
(* answer and Google's are named by the place they were asked about, and   *)
(* so is a figure typed: the place its page showed as it was typed.  The   *)
(* label stands for every box that is not about the place.                 *)
(***************************************************************************)
EXTENDS Integers, FiniteSets

CONSTANTS
    Places,
    Labels,
    Pages,          \* screens people have the site open on
    Saves,          \* bound: saves people make, each once
    MaxAsked,       \* bound: refreshes and measurings under way at once
    MaxVersion,     \* bound: writes of the row
    MaxChoices      \* bound: places chosen on one new-site form

ASSUME BoundsAssumption == {MaxAsked, MaxVersion, MaxChoices} \subseteq Nat

VARIABLES
    site,       \* the row, once it is made
    forms,      \* page: its new-site form
    pages,      \* page: the site's screen on it
    saves,      \* save: how far it is
    asked       \* what the refresh and measurings read, till they write

vars == <<site, forms, pages, saves, asked>>

Row == [version: Nat, label: Labels, place: Places,
        rated: Places,              \* where CDTFA's answer is about
        drive: SUBSET Places,       \* where Google's is to, if it could say
        typed: SUBSET Places]       \* where the one typed over it is to

Form == [asking: Nat,               \* how many places were chosen
         place: SUBSET Places,
         asked: SUBSET [mine: Nat, place: Places],      \* of Google, unanswered
         drive: SUBSET Places,
         typed: SUBSET Places]

Page == [version: Nat,
         place: Places,             \* as the loader last read it
         label: SUBSET Labels,      \* as its box was drawn with that version, if it was
         typing: SUBSET Places]     \* where what is in the round trip's box, unsaved, is to

Stages == {"sent", "read", "saved", "over"}

\* One field is saved at a time: the label, the place or the figure typed.
Save == [stage: Stages,
         page: SUBSET Pages,        \* the page that waits for it, if one does
         version: Nat,              \* If-Match; and once it is saved, the ETag
         label: SUBSET Labels,
         place: SUBSET Places,
         typed: SUBSET SUBSET Places,   \* {{}} where its box was emptied
         was: SUBSET Places,        \* the place the handler read
         shown: SUBSET Labels]      \* the label on its page, drawn with that version

\* A rate asked of CDTFA, or a drive of Google, for every site there is.
Asked == [of: {"rate", "drive"}, place: Places]

TypeOK ==
    /\ site \in SUBSET Row
    /\ forms \in [Pages -> SUBSET Form]
    /\ pages \in [Pages -> SUBSET Page]
    /\ saves \in [Saves -> SUBSET Save]
    /\ asked \in SUBSET Asked
-----------------------------------------------------------------------------
Init ==
    /\ site = {}
    /\ forms = [p \in Pages |-> {}]
    /\ pages = [p \in Pages |-> {}]
    /\ saves = [r \in Saves |-> {}]
    /\ asked = {}

\* Nobody is left to hear what p asked.
Unheard(p) == [r \in Saves |-> {[q EXCEPT !.page = @ \ {p}] : q \in saves[r]}]
-----------------------------------------------------------------------------
(* A new site.                                                             *)

OpenForm(p) ==
    /\ site = {} /\ forms[p] = {}
    /\ forms' = [forms EXCEPT ![p] =
           {[asking |-> 0, place |-> {}, asked |-> {}, drive |-> {}, typed |-> {}]}]
    /\ UNCHANGED <<site, pages, saves, asked>>

\* What was typed was about the place chosen before.
Choose(p, x) ==
    /\ \E f \in forms[p] :
        /\ f.asking < MaxChoices
        /\ forms' = [forms EXCEPT ![p] =
               {[f EXCEPT !.asking = f.asking + 1, !.place = {x}, !.drive = {}, !.typed = {},
                          !.asked = @ \cup {[mine |-> f.asking + 1, place |-> x]}]}]
    /\ UNCHANGED <<site, pages, saves, asked>>

TypeNew(p) ==
    /\ \E f \in forms[p] :
        /\ f.typed # f.place
        /\ forms' = [forms EXCEPT ![p] = {[f EXCEPT !.typed = f.place]}]
    /\ UNCHANGED <<site, pages, saves, asked>>

\* Another place was chosen while this one was being asked about.
Mine(f, a) == a.mine = f.asking

\* Google's answers come in any order; it may not be able to say.
HearDrive(p, drive) ==
    /\ \E f \in forms[p] : \E a \in f.asked :
        /\ drive \subseteq {a.place}
        /\ forms' = [forms EXCEPT ![p] =
               {[f EXCEPT !.asked = @ \ {a}, !.drive = IF Mine(f, a) THEN drive ELSE @]}]
    /\ UNCHANGED <<site, pages, saves, asked>>

\* Priced and measured before the row is written.  A place CDTFA cannot answer
\* for is no site, and leaves the form as it was.
Create(p, label, drive) ==
    /\ site = {}
    /\ \E f \in forms[p] : \E x \in f.place :
        /\ drive \subseteq {x}
        /\ site' = {[version |-> 0, label |-> label, place |-> x,
                     rated |-> x, drive |-> drive, typed |-> f.typed]}
    /\ forms' = [q \in Pages |-> {}]
    /\ UNCHANGED <<pages, saves, asked>>
-----------------------------------------------------------------------------
(* The site's screen.                                                      *)

\* Opened, or loaded whole again: every box is drawn from the row.
Open(p) ==
    /\ \E s \in site :
        pages' = [pages EXCEPT ![p] =
            {[version |-> s.version, place |-> s.place, label |-> {s.label},
              typing |-> {}]}]
    /\ saves' = Unheard(p)
    /\ UNCHANGED <<site, forms, asked>>

\* Wrong: the box stays as it is.
Kept(g, s) == g.typing
\* The box is keyed on the address: drawn afresh when that has changed.
Redrawn(g, s) == IF s.place = g.place THEN g.typing ELSE {}

\* refreshAll: the address was saved, or a contact was.  The version is the
\* row's, and the boxes hold what they held.
Refresh(p) ==
    /\ \E s \in site, g \in pages[p] :
        pages' = [pages EXCEPT ![p] =
            {[g EXCEPT !.version = s.version, !.place = s.place,
                       !.typing = Redrawn(g, s), !.label = {}]}]
    /\ UNCHANGED <<site, forms, saves, asked>>

\* A figure for the place on the screen.
Type(p) ==
    /\ \E g \in pages[p] :
        /\ g.typing = {}
        /\ pages' = [pages EXCEPT ![p] = {[g EXCEPT !.typing = {g.place}]}]
    /\ UNCHANGED <<site, forms, saves, asked>>

Send(p, r, g, label, place, typed) ==
    /\ saves[r] = {}
    /\ saves' = [saves EXCEPT ![r] =
           {[stage |-> "sent", page |-> {p}, version |-> g.version,
             label |-> label, place |-> place, typed |-> typed, was |-> {},
             shown |-> IF label = {} THEN {} ELSE g.label]}]
    /\ UNCHANGED <<site, forms, pages, asked>>

\* Each box commits by itself, whatever else of the page is out; an unchanged
\* one sends nothing.
CommitLabel(p, r, label) ==
    \E g \in pages[p] : label \notin g.label /\ Send(p, r, g, {label}, {}, {})

\* What was typed; or what was stored, emptied.
CommitTyped(p, r) ==
    \E g \in pages[p] : Send(p, r, g, {}, {}, {g.typing})

MoveTo(p, r, x) ==
    \E g \in pages[p] : Send(p, r, g, {}, {x}, {})
-----------------------------------------------------------------------------
(* PATCH.                                                                  *)

Step(r, q) == saves' = [saves EXCEPT ![r] = {q}]
Over == [stage |-> "over", page |-> {}, version |-> 0, label |-> {}, place |-> {},
         typed |-> {}, was |-> {}, shown |-> {}]

\* The row as it is, to see whether this moves it; nothing else comes of it.
ReadSite(r) ==
    /\ \E q \in saves[r], s \in site :
        /\ q.stage = "sent" /\ q.place # {}
        /\ Step(r, [q EXCEPT !.stage = "read", !.was = {s.place}])
    /\ UNCHANGED <<site, forms, pages, asked>>

Moved(q) == q.place # {} /\ q.place # q.was

Ready(q) == q.stage = IF q.place = {} THEN "sent" ELSE "read"

\* Wrong: the version is not looked at.
AnyVersion(q, s) == TRUE
\* The guard of the update: the row is still the version the page read.
UnchangedSince(q, s) == q.version = s.version

\* The row as saved.  One that moves takes the rate CDTFA has answered and the
\* drive Google has, if it could say, and drops what was typed about where it
\* was.
Saved(q, s, drive) ==
    [s EXCEPT
        !.version = s.version + 1,
        !.label = IF q.label = {} THEN @ ELSE CHOOSE n \in q.label : TRUE,
        !.place = IF q.place = {} THEN @ ELSE CHOOSE x \in q.place : TRUE,
        !.rated = IF Moved(q) THEN CHOOSE x \in q.place : TRUE ELSE @,
        !.drive = IF Moved(q) THEN drive ELSE @,
        !.typed = IF q.typed # {} THEN UNION q.typed ELSE IF Moved(q) THEN {} ELSE @]

Land(r, drive) ==
    /\ \E q \in saves[r], s \in site :
        /\ Ready(q) /\ UnchangedSince(q, s) /\ s.version < MaxVersion
        /\ drive \subseteq IF Moved(q) THEN q.place ELSE {}
        /\ site' = {Saved(q, s, drive)}
        /\ Step(r, IF q.page = {} THEN Over
                   ELSE [q EXCEPT !.stage = "saved", !.version = s.version + 1])
    /\ UNCHANGED <<forms, pages, asked>>

\* 412: the row moved since.  Or a place Google does not confirm, or CDTFA
\* cannot answer for: nothing is saved.
Refuse(r) ==
    /\ \E q \in saves[r], s \in site :
        \/ Ready(q) /\ ~UnchangedSince(q, s)
        \/ q.stage = "read"
    /\ Step(r, Over)
    /\ UNCHANGED <<site, forms, pages, asked>>

\* The page holds the version saved, and the box what was stored.  A move is
\* drawn by the refresh it asks for, and its own answer changes nothing.
Hear(r) ==
    /\ \E q \in saves[r], p \in Pages :
        /\ q.stage = "saved" /\ p \in q.page
        /\ pages' = [pages EXCEPT ![p] =
               {IF q.place # {} THEN g ELSE
                [g EXCEPT !.version = q.version,
                          !.label = IF @ = {} \/ q.label = {} THEN @ ELSE q.label,
                          !.typing = IF q.typed = {@} THEN {} ELSE @] : g \in pages[p]}]
    /\ Step(r, Over)
    /\ UNCHANGED <<site, forms, asked>>

\* The connection went: the page says so and keeps the version it had, and the
\* save goes on, or never arrived.
GiveUp(r) ==
    /\ \E q \in saves[r] :
        /\ q.page # {}
        /\ \/ q.stage # "saved" /\ Step(r, [q EXCEPT !.page = {}])
           \/ q.stage # "read" /\ Step(r, Over)
    /\ UNCHANGED <<site, forms, pages, asked>>
-----------------------------------------------------------------------------
(* What writes the row and names no version.                               *)

Write(s, n) ==
    /\ s.version < MaxVersion
    /\ site' = {[n EXCEPT !.version = s.version + 1]}

\* DELETE: it stays, and is no longer offered or asked about.
Close ==
    /\ \E s \in site : Write(s, s)
    /\ UNCHANGED <<forms, pages, saves, asked>>

Ask(of) ==
    /\ Cardinality(asked) < MaxAsked
    /\ \E s \in site : asked' = asked \cup {[of |-> of, place |-> s.place]}
    /\ UNCHANGED <<site, forms, pages, saves>>

\* The refresh reads every site it is to ask about before it asks about any.
StartRefresh == Ask("rate")

\* The business moved: every site is read, and Google asked how far each is.
StartMeasuring == Ask("drive")

WriteRate(a) ==
    /\ a.of = "rate"
    /\ \E s \in site : Write(s, [s EXCEPT !.rated = a.place])
    /\ asked' = asked \ {a}
    /\ UNCHANGED <<forms, pages, saves>>

\* One Google cannot say is emptied.
WriteDrive(a, drive) ==
    /\ a.of = "drive" /\ drive \subseteq {a.place}
    /\ \E s \in site : Write(s, [s EXCEPT !.drive = drive])
    /\ asked' = asked \ {a}
    /\ UNCHANGED <<forms, pages, saves>>

\* CDTFA does not answer, or it is a dry run; or the figures came out the same.
LeaveAlone(a) ==
    /\ asked' = asked \ {a}
    /\ UNCHANGED <<site, forms, pages, saves>>

Next ==
    \/ \E p \in Pages :
        \/ OpenForm(p) \/ TypeNew(p) \/ Open(p) \/ Refresh(p) \/ Type(p)
        \/ \E x \in Places : Choose(p, x)
        \/ \E drive \in SUBSET Places :
               HearDrive(p, drive) \/ \E label \in Labels : Create(p, label, drive)
        \/ \E r \in Saves :
            \/ \E label \in Labels : CommitLabel(p, r, label)
            \/ CommitTyped(p, r)
            \/ \E x \in Places : MoveTo(p, r, x)
    \/ \E r \in Saves :
        \/ ReadSite(r) \/ Refuse(r) \/ Hear(r) \/ GiveUp(r)
        \/ \E drive \in SUBSET Places : Land(r, drive)
    \/ Close \/ StartRefresh \/ StartMeasuring
    \/ \E a \in asked :
        \/ WriteRate(a) \/ LeaveAlone(a)
        \/ \E drive \in SUBSET Places : WriteDrive(a, drive)

Spec == Init /\ [][Next]_vars
-----------------------------------------------------------------------------
(* Safety.                                                                 *)

\* A figure typed is about where its site is, and on a new site about the
\* place chosen, as Google's beside it is: whoever moved it meanwhile, and
\* however late an answer is or a box was left.
TypedIsOfThePlace ==
    /\ \A s \in site : s.typed \subseteq {s.place}
    /\ \A p \in Pages : \A f \in forms[p] : f.drive \cup f.typed \subseteq f.place

\* A save from a page whose boxes were drawn with the version it names writes
\* over the label that page showed: nobody's, in between, is lost.
ErasesOnlyWhatWasShown ==
    [][\A r \in Saves : \A q \in saves[r], s \in site :
           site' # site /\ saves'[r] # saves[r] /\ q.shown # {} => q.shown = {s.label}]_vars

\* However saves cross, a site has the rate of another place, or a drive to
\* one, only where the refresh or the measuring wrote an answer it had asked
\* for before the site moved.
LeftBehindOnlyByALateAnswer ==
    [][\A s \in site, n \in site' :
        LET late(of) == \E a \in asked \ asked' : a.of = of /\ a.place # s.place IN
        /\ n.rated # n.place => s.rated # s.place \/ late("rate")
        /\ ~(n.drive \subseteq {n.place}) => ~(s.drive \subseteq {s.place}) \/ late("drive")]_vars
=============================================================================
