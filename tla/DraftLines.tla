----------------------------- MODULE DraftLines -----------------------------
(***************************************************************************)
(* Drafts started on a phone, and lines added to them or to a draft the    *)
(* server has: the two stores of the queue (src/lib/queue.ts), the screens *)
(* that write to them, and the handlers that start a draft, add a line to  *)
(* it and send it (src/lib/server/drafts.ts, src/lib/server/lines.ts).     *)
(*                                                                         *)
(* One phone, with one page or several, and one client.  A flush takes     *)
(* what it read in any order; the code takes the oldest first.  Lines      *)
(* taken off are in LineChanges; the next number is not moved in Settings. *)
(***************************************************************************)
EXTENDS Integers, FiniteSets, Sequences, FiniteSetsExt

CONSTANTS
    Drafts,         \* uuids a phone makes for drafts
    Lines,          \* uuids a phone makes for lines
    Pages,
    Connections,    \* bound: requests under way at once, strays among them
    MaxWritten,     \* bound: how often a line is put in the store
    MaxInvoice      \* bound: invoices there come to be

ASSUME KindsAssumption == Drafts \cap Lines = {}
ASSUME RefsAssumption == Drafts \cap 1..MaxInvoice = {}     \* ids the server makes
ASSUME LinesAssumption == IsFiniteSet(Lines)
ASSUME BoundsAssumption == {MaxWritten, MaxInvoice} \subseteq Nat \ {0}

VARIABLES
    invoices,   \* the client's, in the order they were started
    next,       \* the operator's next number
    named,      \* whether the business is named: it has its operator row
    row,        \* line: its row on an invoice, if it has one
    call,       \* connection: the request on it, as far as the server is
    drafts,     \* draft: what the phone holds of it, "waiting" or "refused"
    lines,      \* line: the copy the phone holds
    made,       \* history: the drafts and lines a person has made
    letGo,      \* history: those a person has let go of
    written,    \* line: how often it was put in the store
    form,       \* page: the line its form is open for
    discard,    \* page: the draft it is letting go of, and the lines left
    job,        \* page: how far its flush is
    out,        \* page: the connection it waits on, and what it posted
    reply       \* page: what was answered, and is not yet settled

server == <<invoices, next, named, row>>
phone == <<drafts, lines, made, letGo, written, form, discard>>
flush == <<job, out, reply>>
vars == <<server, call, phone, flush>>

Invoices == DOMAIN invoices
Ref == Drafts \cup 1..MaxInvoice

Invoice == [number: 1..(MaxInvoice + 1), uuid: SUBSET Drafts, forLine: BOOLEAN, out: BOOLEAN]
Row == [invoice: 1..MaxInvoice, seq: Nat \ {0}, from: 0..MaxInvoice]

\* good: whether its fields, its site and its receipt are ones the server takes.
Copy == [stamp: 1..MaxWritten, meant: Ref, good: BOOLEAN, why: {"waiting", "refused"}]

\* What is posted: a draft, or a copy of a line.
DraftItem == [id: Drafts, stamp: {1}, meant: Drafts, good: {TRUE}]
LineItem == [id: Lines, stamp: 1..MaxWritten, meant: Ref, good: BOOLEAN]
Item == DraftItem \cup LineItem

\* meant is the invoice a line's draft is found to be, to the one it goes on;
\* 0 where there is none yet.
Call == [item: Item, stage: {"sent", "lock", "number", "insert"},
         meant: 0..MaxInvoice, to: 0..MaxInvoice, number: 0..(MaxInvoice + 1), seq: Nat]

Idle == [at |-> "idle", todo |-> {}, waits |-> {}]
Job == [at: {"idle", "drafts", "waits", "lines"}, todo: SUBSET Item, waits: SUBSET Drafts]

TypeOK ==
    /\ invoices \in Seq(Invoice) /\ Len(invoices) <= MaxInvoice
    /\ next \in 1..(MaxInvoice + 1)
    /\ named \in BOOLEAN
    /\ row \in [Lines -> SUBSET Row]
    /\ call \in [Connections -> SUBSET Call]
    /\ drafts \in [Drafts -> SUBSET {"waiting", "refused"}]
    /\ lines \in [Lines -> SUBSET Copy]
    /\ made \subseteq Drafts \cup Lines
    /\ letGo \subseteq made
    /\ written \in [Lines -> 0..MaxWritten]
    /\ form \in [Pages -> SUBSET [line: Lines, meant: Ref]]
    /\ discard \in [Pages -> SUBSET [draft: Drafts, left: SUBSET Lines]]
    /\ job \in [Pages -> Job]
    /\ out \in [Pages -> SUBSET [on: Connections, item: Item]]
    /\ reply \in [Pages -> {"none", "ok", "refused", "again"}]
-----------------------------------------------------------------------------
\* The client has a draft in the office; or the business is not named yet.
Init ==
    /\ named \in BOOLEAN
    /\ invoices = IF named THEN <<[number |-> 1, uuid |-> {}, forLine |-> FALSE, out |-> FALSE]>>
                           ELSE <<>>
    /\ next = Len(invoices) + 1
    /\ row = [l \in Lines |-> {}]
    /\ call = [c \in Connections |-> {}]
    /\ drafts = [d \in Drafts |-> {}]
    /\ lines = [l \in Lines |-> {}]
    /\ made = {} /\ letGo = {}
    /\ written = [l \in Lines |-> 0]
    /\ form = [p \in Pages |-> {}]
    /\ discard = [p \in Pages |-> {}]
    /\ job = [p \in Pages |-> Idle]
    /\ out = [p \in Pages |-> {}]
    /\ reply = [p \in Pages |-> "none"]
-----------------------------------------------------------------------------
(* The phone's screens.                                                    *)

Named(m) == {i \in Invoices : m = i \/ m \in invoices[i].uuid}
Free(p) == form[p] = {} /\ discard[p] = {}

\* New draft.
StartOnPhone(p, d) ==
    /\ Free(p)
    /\ d \notin made
    /\ drafts' = [drafts EXCEPT ![d] = {"waiting"}]
    /\ made' = made \cup {d}
    /\ UNCHANGED <<server, call, lines, letGo, written, form, discard, flush>>

\* Add a line: to a draft on the phone, or to one the server has.
OpenForm(p, l, m) ==
    /\ Free(p)
    /\ l \notin made
    /\ \A q \in Pages : \A f \in form[q] : f.line # l
    /\ IF m \in Drafts THEN drafts[m] # {} ELSE m \in Invoices /\ ~invoices[m].out
    /\ form' = [form EXCEPT ![p] = {[line |-> l, meant |-> m]}]
    /\ UNCHANGED <<server, call, drafts, lines, made, letGo, written, discard, flush>>

\* A refused line is opened from the invoice it names, out or not.
OpenFix(p, l) ==
    /\ Free(p)
    /\ \E copy \in lines[l] :
        /\ copy.why = "refused"
        /\ \E i \in Named(copy.meant) :
            form' = [form EXCEPT ![p] = {[line |-> l, meant |-> i]}]
    /\ UNCHANGED <<server, call, drafts, lines, made, letGo, written, discard, flush>>

\* Saved under its uuid, in the place of any copy there.
SaveLine(p) ==
    /\ \E f \in form[p], good \in BOOLEAN :
        /\ written[f.line] < MaxWritten
        /\ written' = [written EXCEPT ![f.line] = @ + 1]
        /\ lines' = [lines EXCEPT ![f.line] =
               {[stamp |-> written[f.line] + 1, meant |-> f.meant, good |-> good,
                 why |-> "waiting"]}]
        /\ made' = made \cup {f.line}
    /\ form' = [form EXCEPT ![p] = {}]
    /\ UNCHANGED <<server, call, drafts, letGo, discard, flush>>

\* Discard, twice tapped: a refused line, or what has taken its place on the
\* phone since the screen was read.
LetLineGo(l) ==
    /\ \E copy \in lines[l] : copy.why = "refused" \/ copy.stamp > 1
    /\ lines' = [lines EXCEPT ![l] = {}]
    /\ letGo' = letGo \cup {l}
    /\ UNCHANGED <<server, call, drafts, made, written, form, discard, flush>>

LinesHeld(d) == {l \in Lines : \E copy \in lines[l] : copy.meant = d}

\* Let go of this draft, with its lines, twice tapped.  A screen not read again
\* still shows one that has arrived.
BeginDiscard(p, d) ==
    /\ Free(p)
    /\ d \in made
    /\ discard' = [discard EXCEPT ![p] = {[draft |-> d, left |-> LinesHeld(d)]}]
    /\ letGo' = letGo \cup {d} \cup LinesHeld(d)
    /\ UNCHANGED <<server, call, drafts, lines, made, written, form, flush>>

\* Wrong: the draft before its lines.
DiscardDraftFirst(p) ==
    /\ \E k \in discard[p] :
        /\ drafts' = [drafts EXCEPT ![k.draft] = {}]
        /\ \/ \E l \in k.left :
               /\ lines' = [lines EXCEPT ![l] = {}]
               /\ discard' = [discard EXCEPT ![p] = {[k EXCEPT !.left = @ \ {l}]}]
           \/ /\ lines' = lines
              /\ drafts[k.draft] # {} \/ k.left = {}
              /\ discard' = [discard EXCEPT ![p] = IF k.left = {} THEN {} ELSE @]
    /\ UNCHANGED <<server, call, made, letGo, written, form, flush>>

\* Each line in a transaction of its own, and then the draft.
DiscardNext(p) ==
    /\ \E k \in discard[p] :
        \/ \E l \in k.left :
            /\ lines' = [lines EXCEPT ![l] = {}]
            /\ discard' = [discard EXCEPT ![p] = {[k EXCEPT !.left = @ \ {l}]}]
            /\ drafts' = drafts
        \/ /\ k.left = {}
           /\ drafts' = [drafts EXCEPT ![k.draft] = {}]
           /\ discard' = [discard EXCEPT ![p] = {}]
           /\ lines' = lines
    /\ UNCHANGED <<server, call, made, letGo, written, form, flush>>

\* Closed, reloaded or killed: its form, its discard and its flush go with it.
PageGone(p) ==
    /\ form[p] # {} \/ discard[p] # {} \/ job[p] # Idle
    /\ form' = [form EXCEPT ![p] = {}]
    /\ discard' = [discard EXCEPT ![p] = {}]
    /\ job' = [job EXCEPT ![p] = Idle]
    /\ out' = [out EXCEPT ![p] = {}]
    /\ reply' = [reply EXCEPT ![p] = "none"]
    /\ UNCHANGED <<server, call, drafts, lines, made, letGo, written>>
-----------------------------------------------------------------------------
(* The flush.  What is behind the drafts and the lines is in CaptureQueue  *)
(* and LineChanges.                                                        *)

AsItem(d) == [id |-> d, stamp |-> 1, meant |-> d, good |-> TRUE]
ItemOf(l, copy) == [id |-> l, stamp |-> copy.stamp, meant |-> copy.meant, good |-> copy.good]

Settling(p) == out[p] # {}

Done(p, at) == job[p].at = at /\ job[p].todo = {} /\ ~Settling(p)

\* When the page opens, when the signal returns, and after a save.
BeginFlush(p) ==
    /\ job[p].at = "idle" \/ Done(p, "lines")
    /\ job' = [job EXCEPT ![p] =
           [at |-> "drafts", waits |-> {},
            todo |-> {AsItem(d) : d \in {e \in Drafts : drafts[e] = {"waiting"}}}]]
    /\ UNCHANGED <<server, call, phone, out, reply>>

\* The drafts not arrived, refused ones too.
ReadDrafts(p) ==
    /\ Done(p, "drafts")
    /\ job' = [job EXCEPT ![p].at = "waits", ![p].waits = {d \in Drafts : drafts[d] # {}}]
    /\ UNCHANGED <<server, call, phone, out, reply>>

\* The lines, read in a transaction of their own.
ReadLines(p) ==
    /\ job[p].at = "waits"
    /\ job' = [job EXCEPT ![p] =
           [at |-> "lines", waits |-> {},
            todo |-> {x \in UNION {{ItemOf(l, copy) : copy \in {k \in lines[l] : k.why = "waiting"}} :
                                     l \in Lines} : x.meant \notin job[p].waits}]]
    /\ UNCHANGED <<server, call, phone, out, reply>>

\* Nothing is on it, nor is anything still to be settled of what was.
Unused(c) == call[c] = {} /\ \A p \in Pages : \A o \in out[p] : o.on # c

Post(p, c) ==
    /\ ~Settling(p) /\ Unused(c)
    /\ \E x \in job[p].todo :
        /\ call' = [call EXCEPT ![c] =
               {[item |-> x, stage |-> "sent", meant |-> 0, to |-> 0, number |-> 0, seq |-> 0]}]
        /\ out' = [out EXCEPT ![p] = {[on |-> c, item |-> x]}]
        /\ job' = [job EXCEPT ![p].todo = @ \ {x}]
    /\ UNCHANGED <<server, phone, reply>>

\* Wrong: what the server refused is done with.
DraftLeftRefused(held, a) == IF a = "again" THEN held ELSE {}

\* What the store holds of a draft, or of a line, once a post of x is answered.
DraftLeft(held, a) ==
    CASE a = "ok" -> {}
      [] a = "refused" /\ held # {} -> {"refused"}
      [] OTHER -> held

\* Wrong: what the server refused is done with.
LineLeftRefused(held, x, a) ==
    {k \in held : k.stamp # x.stamp \/ a = "again"}

\* Wrong: refused, and kept to be sent again.
LineLeftWaiting(held, x, a) ==
    IF a = "ok" THEN {k \in held : k.stamp # x.stamp} ELSE held

\* Settled only if it is the copy that was posted.
LineLeft(held, x, a) ==
    IF a = "ok" THEN {k \in held : k.stamp # x.stamp}
    ELSE {IF k.stamp = x.stamp /\ a = "refused" THEN [k EXCEPT !.why = "refused"] ELSE k :
             k \in held}

Settle(p) ==
    /\ reply[p] # "none"
    /\ \E o \in out[p] :
        LET x == o.item IN
        \/ /\ x.id \in Drafts
           /\ drafts' = [drafts EXCEPT ![x.id] = DraftLeft(@, reply[p])]
           /\ lines' = lines
        \/ /\ x.id \in Lines
           /\ lines' = [lines EXCEPT ![x.id] = LineLeft(@, x, reply[p])]
           /\ drafts' = drafts
    /\ out' = [out EXCEPT ![p] = {}]
    /\ reply' = [reply EXCEPT ![p] = "none"]
    /\ UNCHANGED <<server, call, made, letGo, written, form, discard, job>>

\* The answer is lost, and the flush ends.  A request not yet answered goes on.
Offline(p) ==
    /\ Settling(p)
    /\ out' = [out EXCEPT ![p] = {}]
    /\ reply' = [reply EXCEPT ![p] = "none"]
    /\ job' = [job EXCEPT ![p] = Idle]
    /\ UNCHANGED <<server, call, phone>>

StrayLost(c) ==
    /\ \A p \in Pages : \A o \in out[p] : o.on # c
    /\ \E r \in call[c] : r.stage = "sent"
    /\ call' = [call EXCEPT ![c] = {}]
    /\ UNCHANGED <<server, phone, flush>>
-----------------------------------------------------------------------------
(* The server.                                                             *)

Answer(c, a) ==
    /\ reply' = [p \in Pages |-> IF \E o \in out[p] : o.on = c THEN a ELSE reply[p]]
    /\ call' = [call EXCEPT ![c] = {}]
    /\ UNCHANGED <<out, job>>

GoOn(c, r) ==
    /\ call' = [call EXCEPT ![c] = {r}]
    /\ UNCHANGED flush

\* The session has ended, or the server is not well.
NotNow(c) ==
    /\ \E r \in call[c] : r.stage = "sent"
    /\ Answer(c, "again")
    /\ UNCHANGED <<server, phone>>

At(c, stage, ids) == {r \in call[c] : r.stage = stage /\ r.item.id \in ids}
Calls == UNION {call[c] : c \in Connections}

Numbers == {invoices[i].number : i \in Invoices}
Started(d) == \E i \in Invoices : d \in invoices[i].uuid

\* Wrong: the number is read, and the row it is read from not held.
NumberRead == TRUE

\* The operator's row is held from the number taken to the end.
OperatorFree == \A r \in Calls : r.number = 0

\* Wrong: the invoice is read, and not held.
InvoiceRead(i) == TRUE

\* The invoice a line is meant for is held while the line is added.
InvoiceFree(i) == \A r \in Calls : r.stage \in {"number", "insert"} => r.meant # i

ReadDraft(c) ==
    /\ \E r \in At(c, "sent", Drafts) :
        IF Started(r.item.id) THEN Answer(c, "ok")
        ELSE GoOn(c, [r EXCEPT !.stage = "number"])
    /\ UNCHANGED <<server, phone>>

\* There is none to take until the business is named.
TakeNumber(c) ==
    /\ OperatorFree
    /\ \E r \in At(c, "number", Drafts \cup Lines) :
        \/ named /\ GoOn(c, [r EXCEPT !.stage = "insert", !.number = next])
        \/ ~named /\ Answer(c, IF r.item.id \in Drafts THEN "refused" ELSE "again")
    /\ UNCHANGED <<server, phone>>

\* Wrong: the uuid is kept whatever it was made for.
NewInvoiceOfAny(r) ==
    [number |-> r.number, forLine |-> r.item.id \in Lines, out |-> FALSE, uuid |-> {r.item.id}]

NewInvoice(r) ==
    [number |-> r.number, forLine |-> r.item.id \in Lines, out |-> FALSE,
     uuid |-> {r.item.id} \cap Drafts]

StartIn(r) ==
    /\ Len(invoices) < MaxInvoice
    /\ invoices' = Append(invoices, NewInvoice(r))
    /\ next' = next + 1

StartOr(c, r) ==
    IF r.number \in Numbers THEN Answer(c, "refused") /\ UNCHANGED <<invoices, next>>
    ELSE StartIn(r) /\ Answer(c, "ok")

\* Wrong: no index keeps a uuid to one draft.
StartAgain(c) ==
    /\ \E r \in At(c, "insert", Drafts) : StartOr(c, r)
    /\ UNCHANGED <<named, row, phone>>

\* The index on the uuid finds the draft another copy started.  The client can be
\* taken off the list as long as no invoice names it, and is then not found.
StartDraft(c) ==
    /\ \E r \in At(c, "insert", Drafts) :
        \/ Started(r.item.id) /\ Answer(c, "ok") /\ UNCHANGED <<invoices, next>>
        \/ ~Started(r.item.id) /\ StartOr(c, r)
        \/ Invoices = {} /\ Answer(c, "refused") /\ UNCHANGED <<invoices, next>>
    /\ UNCHANGED <<named, row, phone>>

\* Added before; or its draft is not found, or its fields not taken.
ReadLine(c) ==
    /\ \E r \in At(c, "sent", Lines) :
        LET found == Named(r.item.meant) IN
        \/ row[r.item.id] # {} /\ Answer(c, "ok")
        \/ row[r.item.id] = {} /\ (found = {} \/ ~r.item.good) /\ Answer(c, "refused")
        \/ /\ row[r.item.id] = {} /\ r.item.good
           /\ \E i \in found : GoOn(c, [r EXCEPT !.stage = "lock", !.meant = i])
    /\ UNCHANGED <<server, phone>>

OnInvoice(i) == {k \in UNION {row[l] : l \in Lines} : k.invoice = i}

Seqs(i) == {k.seq : k \in OnInvoice(i)}
NextSeq(i) == Max(Seqs(i) \cup {0}) + 1

\* The drafts that lines meant for this one, gone out, have started.
StartedFor(i) ==
    {j \in Invoices : ~invoices[j].out /\ \E k \in OnInvoice(j) : k.from = i}

\* Where the line goes, and its place there.
LockMeant(c) ==
    /\ \E r \in At(c, "lock", Lines) :
        LET Place(i) == [r EXCEPT !.stage = "insert", !.to = i, !.seq = NextSeq(i)] IN
        /\ InvoiceFree(r.meant)
        /\ \/ ~invoices[r.meant].out /\ GoOn(c, Place(r.meant))
           \/ invoices[r.meant].out /\ \E j \in StartedFor(r.meant) : GoOn(c, Place(j))
           \/ /\ invoices[r.meant].out /\ StartedFor(r.meant) = {}
              /\ GoOn(c, [r EXCEPT !.stage = "number", !.seq = 1])
    /\ UNCHANGED <<server, phone>>

Into(r, i) ==
    row' = [row EXCEPT ![r.item.id] =
        {[invoice |-> i, seq |-> r.seq, from |-> IF i = r.meant THEN 0 ELSE r.meant]}]

\* Wrong: the invoice was a draft when it was found.
NeverGone(r) == FALSE

\* What the insert runs into: the invoice gone out, which its trigger looks at
\* before any index; the line added by another copy; its place or the number of
\* a new draft taken.
Had(r) == row[r.item.id] # {}
Gone(r) == r.to # 0 /\ invoices[r.to].out
Taken(r) == IF r.to # 0 THEN r.seq \in Seqs(r.to) ELSE r.number \in Numbers

\* Wrong: the draft started for a line stays, though another copy of it is in.
AddLineApart(c) ==
    /\ \E r \in At(c, "insert", Lines) :
        \/ /\ ~Had(r) /\ ~Gone(r) /\ ~Taken(r)
           /\ \/ r.to # 0 /\ Into(r, r.to) /\ UNCHANGED <<invoices, next>>
              \/ r.to = 0 /\ StartIn(r) /\ Into(r, Len(invoices) + 1)
           /\ Answer(c, "ok")
        \/ /\ Had(r) /\ ~Gone(r) /\ Answer(c, "ok") /\ UNCHANGED row
           /\ IF r.to = 0 /\ ~Taken(r) THEN StartIn(r) ELSE UNCHANGED <<invoices, next>>
        \/ Gone(r) /\ Answer(c, "refused") /\ UNCHANGED <<invoices, next, row>>
        \/ /\ ~Had(r) /\ ~Gone(r) /\ Taken(r)
           /\ Answer(c, "again") /\ UNCHANGED <<invoices, next, row>>
    /\ UNCHANGED <<named, phone>>

\* All or none: a new draft is not left behind empty.
AddLine(c) ==
    /\ \E r \in At(c, "insert", Lines) :
        \/ /\ ~Had(r) /\ ~Gone(r) /\ ~Taken(r)
           /\ \/ r.to # 0 /\ Into(r, r.to) /\ UNCHANGED <<invoices, next>>
              \/ r.to = 0 /\ StartIn(r) /\ Into(r, Len(invoices) + 1)
           /\ Answer(c, "ok")
        \/ Had(r) /\ ~Gone(r) /\ Answer(c, "ok") /\ UNCHANGED <<invoices, next, row>>
        \/ Gone(r) /\ Answer(c, "refused") /\ UNCHANGED <<invoices, next, row>>
        \/ /\ ~Had(r) /\ ~Gone(r) /\ Taken(r)
           /\ Answer(c, "again") /\ UNCHANGED <<invoices, next, row>>
    /\ UNCHANGED <<named, phone>>

\* Begun in the office, it has lines of the office's own.
Office(i) == invoices[i].uuid = {} /\ ~invoices[i].forLine

\* Sent by a person; one with nothing on it is refused.
SendInvoice(i) ==
    /\ InvoiceFree(i)
    /\ ~invoices[i].out /\ (Office(i) \/ OnInvoice(i) # {})
    /\ invoices' = [invoices EXCEPT ![i].out = TRUE]
    /\ UNCHANGED <<next, named, row, call, phone, flush>>

\* Settings: the business is named.
NameBusiness ==
    /\ ~named
    /\ named' = TRUE
    /\ UNCHANGED <<invoices, next, row, call, phone, flush>>
-----------------------------------------------------------------------------
Next ==
    \/ \E p \in Pages :
        \/ \E d \in Drafts : StartOnPhone(p, d) \/ BeginDiscard(p, d)
        \/ \E l \in Lines : OpenFix(p, l) \/ \E m \in Ref : OpenForm(p, l, m)
        \/ SaveLine(p) \/ DiscardNext(p) \/ PageGone(p)
        \/ BeginFlush(p) \/ ReadDrafts(p) \/ ReadLines(p)
        \/ \E c \in Connections : Post(p, c)
        \/ Settle(p) \/ Offline(p)
    \/ \E l \in Lines : LetLineGo(l)
    \/ \E c \in Connections :
        \/ StrayLost(c) \/ NotNow(c)
        \/ ReadDraft(c) \/ TakeNumber(c) \/ StartDraft(c)
        \/ ReadLine(c) \/ LockMeant(c) \/ AddLine(c)
    \/ \E i \in Invoices : SendInvoice(i)
    \/ NameBusiness

Spec == Init /\ [][Next]_vars

\* A signal comes again and again that lasts until a request is answered, and
\* with it a server that decides; what the server has begun it finishes.
Heard(p, A(_)) == \E o \in out[p] : A(o.on)
Read(c) == ReadDraft(c) \/ ReadLine(c)
Lock(c) == LockMeant(c) \/ TakeNumber(c)
Insert(c) == StartDraft(c) \/ AddLine(c)
Decided(p) == reply[p] \in {"ok", "refused"}

Signal ==
    /\ \A p \in Pages :
        /\ WF_vars(BeginFlush(p)) /\ SF_vars(ReadDrafts(p)) /\ SF_vars(ReadLines(p))
        /\ SF_vars(\E c \in Connections : Post(p, c))
        /\ SF_vars(Heard(p, Read)) /\ SF_vars(Heard(p, Lock)) /\ SF_vars(Heard(p, Insert))
        /\ WF_vars(Settle(p)) /\ SF_vars(Decided(p) /\ Settle(p))
    /\ \A c \in Connections :
        /\ WF_vars(Read(c) \/ StrayLost(c))
        /\ WF_vars(Lock(c) \/ Insert(c))

FairSpec == Spec /\ Signal
-----------------------------------------------------------------------------
(* What the drafts and lines of a phone are held to.                       *)

\* NOTHING IN IT IS THROWN AWAY (queue.ts): a draft or a line once made is with
\* the phone or on the server, unless a person let it go.
NothingLost ==
    /\ \A d \in made \cap Drafts : drafts[d] # {} \/ Started(d) \/ d \in letGo
    /\ \A l \in made \cap Lines : lines[l] # {} \/ row[l] # {} \/ l \in letGo

\* The two stores keep what EntryCustody promises: a draft or a line is with the
\* phone, or in the book once the server has it, from its making to a person's
\* letting it go; and one let go of goes nowhere but where it was on its way to.
InBook(x) == IF x \in Drafts THEN Started(x) ELSE row[x] # {}
OnPhone(x) == IF x \in Drafts THEN drafts[x] # {} ELSE lines[x] # {}
KeptBy ==
    [x \in Drafts \cup Lines |->
        IF InBook(x) THEN "book"
        ELSE IF OnPhone(x) THEN "phone"
        ELSE IF x \in letGo THEN "letgo"
        ELSE IF x \in made THEN "lost"
        ELSE "unmade"]
Custody == INSTANCE EntryCustody WITH Entries <- Drafts \cup Lines, keeper <- KeptBy
CustodyKept == Custody!Spec

\* However often a draft is posted, one invoice is started for it.
StartedOnce ==
    \A i, j \in Invoices : invoices[i].uuid \cap invoices[j].uuid # {} => i = j

\* Two lines meant for an invoice that has gone out cannot start two drafts
\* (lines.ts).
OneSuccessor ==
    \A i \in Invoices : Cardinality(StartedFor(i)) <= 1

\* An invoice that has gone out keeps the lines it went with, and gains none,
\* though they were on their way to it.
SentIsFixed ==
    [][\A i \in Invoices : invoices[i].out => OnInvoice(i)' = OnInvoice(i)]_vars

\* A draft is started for a line only with that line on it.
NoneStartedEmpty ==
    [][\A i \in DOMAIN invoices' \ Invoices :
        invoices'[i].forLine => \E l \in Lines : \E k \in row'[l] : k.invoice = i]_vars

\* No draft is refused over its number: two started at once cannot share one
\* (drafts.ts).
RefusedOverNumber ==
    [][\A c \in Connections : \A r \in call[c] :
        /\ r.stage = "insert" /\ r.item.id \in Drafts
        /\ call'[c] = {} /\ \E p \in Pages : reply[p] = "none" /\ reply'[p] = "refused"
        => r.number \notin Numbers]_vars

\* A line still on a phone whose draft was let go has not outlived it: none of
\* those let go with a draft is left naming one that is on no phone and no
\* server, which no screen shows.
NoneOutlivesItsDraft ==
    \A l \in Lines \cap letGo : \A copy \in lines[l] :
        copy.meant \in Drafts => drafts[copy.meant] # {} \/ Started(copy.meant)

\* A draft waiting is in the end numbered, or refused and shown; and a line is
\* added or refused, unless the draft it waits for is kept refused.
WaitingLeaves ==
    /\ \A d \in Drafts : drafts[d] = {"waiting"} ~> drafts[d] # {"waiting"}
    /\ \A l \in Lines :
        LET Waits == \E k \in lines[l] : k.why = "waiting"
            Stuck == \E k \in lines[l] : k.meant \in Drafts /\ drafts[k.meant] = {"refused"}
        IN Waits ~> ~Waits \/ Stuck
=============================================================================
