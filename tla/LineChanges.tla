---------------------------- MODULE LineChanges ----------------------------
(***************************************************************************)
(* Changes to one line of a draft, made on phones and sent when there is a *)
(* signal: the change store of the queue (src/lib/queue.ts), the screens   *)
(* that write to it, and the handlers that change the line, take it off    *)
(* and put it back (src/lib/server/lines.ts), against one another and      *)
(* against the sending of the invoice.                                     *)
(*                                                                         *)
(* Each phone has one page; what several pages add is in CaptureQueue.     *)
(***************************************************************************)
EXTENDS Integers, FiniteSets, LineMerge

CONSTANTS
    Phones,
    Connections,    \* bound: requests under way at once, strays among them
    Acts,           \* what is done to the line: "change", "remove", "restore"
    Retries,        \* how often a change that finds the line moved on is read again
    MaxStamp,       \* bound: how many times anything is written to a phone
    MaxVersion,     \* bound: saves of the line between two times it is added
    MaxInvoice      \* bound: invoices the line may come to be on

ASSUME ActsAssumption == Acts \subseteq {"change", "remove", "restore"}
ASSUME BoundsAssumption ==
    Retries \in Nat /\ MaxStamp \in Nat /\ {MaxVersion, MaxInvoice} \subseteq Nat \ {0}

VARIABLES
    line,       \* the row; once off, what its history keeps of it
    sent,       \* the invoices that have gone out
    landed,     \* history: the copies whose act the server has carried out
    shown,      \* phone: the save of the line its page was loaded with
    hand,       \* phone: a change read the store and is not yet put in it
    store,      \* phone: the copy it holds for the line
    post,       \* phone: the connection it waits on
    reply,      \* phone: what was answered, and is not yet settled
    clock,      \* the last queued_at given out
    call        \* connection: the request on it, as far as the server is

page == <<shown, hand, store, clock>>
server == <<line, sent, landed>>
vars == <<line, sent, landed, shown, hand, store, post, reply, clock, call>>

Stamps == 1..MaxStamp
Save == [version: 1..MaxVersion, fields: Words]
Line == [on: BOOLEAN, version: 1..MaxVersion, fields: Words, invoice: 1..MaxInvoice]

Note(what) == [what |-> what]
Collision ==
    [what: {"collided"}, version: 1..MaxVersion, server: Words,
     clash: SUBSET Fields, mine: SUBSET Fields]

\* Why a copy is kept and not sent; and what a request comes to.
Refusals == {Note("plain"), Note("removed"), Note("changed")} \cup Collision
Answers == {Note("ok"), Note("again")} \cup Refusals

\* A change as a screen writes it, and as the store holds it.
Entry == [act: Acts, version: 1..MaxVersion, base: Words, fields: Words, force: BOOLEAN]
Copy == [stamp: Stamps, entry: Entry, why: {Note("waiting")} \cup Refusals]

Reply == [stamp: Stamps, answer: Answers]

\* fields are the entry's until a merge takes in the server's; seen and
\* invoice are what the row was read with, or 0.
Call ==
    {r \in [stamp: Stamps, entry: Entry, fields: Words, attempt: 0..Retries,
            seen: 0..MaxVersion, invoice: 0..MaxInvoice] : r.seen # 0 => r.invoice # 0}

-----------------------------------------------------------------------------
Current == [version |-> line.version, fields |-> line.fields]

Draft == line.on /\ line.invoice \notin sent

Init ==
    /\ line \in [on: {TRUE}, version: {1}, fields: Words, invoice: {1}]
    /\ sent = {}
    /\ landed = {}
    /\ shown = [p \in Phones |-> Current]
    /\ hand = [p \in Phones |-> {}]
    /\ store = [p \in Phones |-> {}]
    /\ post = [p \in Phones |-> {}]
    /\ reply = [p \in Phones |-> {}]
    /\ clock = 0
    /\ call = [c \in Connections |-> {}]
-----------------------------------------------------------------------------
(* The phone.                                                              *)

Waiting(copy) == copy.why = Note("waiting")

\* The page is loaded again, or another is opened.  That of a line that has
\* gone out changes nothing, so it is not told from a page left open.
Load(p) ==
    /\ Draft
    /\ shown' = [shown EXCEPT ![p] = Current]
    /\ UNCHANGED <<server, hand, store, clock, post, reply, call>>

\* Where a change begins: where the one still waiting did, if one is.
Began(p) ==
    {[version |-> c.entry.version, fields |-> c.entry.base] : c \in {d \in store[p] : Waiting(d)}}

\* enqueueChange reads the store, and puts to it in a transaction of its own.
\* What a page shows may be out of date, and a form open since before.
BeginSave(p) ==
    /\ hand[p] = {}
    /\ clock < MaxStamp
    /\ \E act \in Acts \ {"restore"}, words \in Words :
       \E from \in IF Began(p) = {} THEN {shown[p]} ELSE Began(p) :
        /\ act = "remove" => words = shown[p].fields
        /\ hand' = [hand EXCEPT ![p] =
               {[act |-> act, version |-> from.version, base |-> from.fields,
                 fields |-> words, force |-> FALSE]}]
    /\ UNCHANGED <<server, shown, store, clock, post, reply, call>>

Put(p, entry) ==
    /\ clock < MaxStamp
    /\ clock' = clock + 1
    /\ store' = [store EXCEPT ![p] =
           {[stamp |-> clock + 1, entry |-> entry, why |-> Note("waiting")]}]

CommitSave(p) ==
    /\ \E entry \in hand[p] : Put(p, entry)
    /\ hand' = [hand EXCEPT ![p] = {}]
    /\ UNCHANGED <<server, shown, post, reply, call>>

\* A person decides.  The picks are among the values the field has held.
KeepPicks(p) ==
    /\ \E copy \in store[p], picks \in Words :
        LET met == copy.why IN
        /\ met.what = "collided"
        /\ Put(p, [copy.entry EXCEPT
               !.version = met.version, !.base = met.server,
               !.fields = [f \in Fields |->
                   IF f \in met.clash THEN picks[f]
                   ELSE IF f \in met.mine THEN copy.entry.fields[f] ELSE met.server[f]]])
    /\ UNCHANGED <<server, shown, hand, post, reply, call>>

OffAnyway(p) ==
    /\ \E copy \in store[p] :
        /\ copy.why.what = "changed"
        /\ Put(p, [copy.entry EXCEPT !.force = TRUE])
    /\ UNCHANGED <<server, shown, hand, post, reply, call>>

PutBack(p) ==
    /\ "restore" \in Acts
    /\ \E copy \in store[p] :
        /\ copy.why.what = "removed"
        /\ Put(p, [copy.entry EXCEPT !.act = "restore"])
    /\ UNCHANGED <<server, shown, hand, post, reply, call>>

LetGo(p) ==
    /\ \E copy \in store[p] : copy.why.what \in {"plain", "removed", "changed"}
    /\ store' = [store EXCEPT ![p] = {}]
    /\ UNCHANGED <<server, shown, hand, clock, post, reply, call>>

Post(p, c) ==
    /\ post[p] = {} /\ reply[p] = {}
    /\ call[c] = {}
    /\ \E copy \in store[p] :
        /\ Waiting(copy)
        /\ call' = [call EXCEPT ![c] =
               {[stamp |-> copy.stamp, entry |-> copy.entry, fields |-> copy.entry.fields,
                 attempt |-> 0, seen |-> 0, invoice |-> 0]}]
    /\ post' = [post EXCEPT ![p] = {c}]
    /\ UNCHANGED <<server, page, reply>>

\* Wrong: whatever the line's copy is by now, it is taken to be the one posted.
SettledByLine(held, r) ==
    IF r.answer = Note("ok") THEN {}
    ELSE {IF r.answer # Note("again") THEN [d EXCEPT !.why = r.answer] ELSE d : d \in held}

\* Wrong: what is worth another go is kept as refused.
SettledAsRefused(held, r) ==
    IF r.answer = Note("ok") THEN {d \in held : d.stamp # r.stamp}
    ELSE {IF d.stamp = r.stamp THEN [d EXCEPT !.why = r.answer] ELSE d : d \in held}

\* Settled only if the store still holds the copy that was posted.
Settled(held, r) ==
    IF r.answer = Note("ok") THEN {d \in held : d.stamp # r.stamp}
    ELSE {IF d.stamp = r.stamp /\ r.answer # Note("again")
          THEN [d EXCEPT !.why = r.answer] ELSE d : d \in held}

Settle(p) ==
    /\ \E r \in reply[p] : store' = [store EXCEPT ![p] = Settled(@, r)]
    /\ reply' = [reply EXCEPT ![p] = {}]
    /\ UNCHANGED <<server, shown, hand, clock, post, call>>

\* The connection drops, or the page goes away: the answer is lost, and a
\* request not yet answered goes on, a stray.
Offline(p) ==
    /\ post[p] # {} \/ reply[p] # {}
    /\ post' = [post EXCEPT ![p] = {}]
    /\ reply' = [reply EXCEPT ![p] = {}]
    /\ UNCHANGED <<server, page, call>>

StrayLost(c) ==
    /\ \A p \in Phones : c \notin post[p]
    /\ \E r \in call[c] : r.seen = 0
    /\ call' = [call EXCEPT ![c] = {}]
    /\ UNCHANGED <<server, page, post, reply>>
-----------------------------------------------------------------------------
(* The server.  A handler reads the row, and writes in a transaction that  *)
(* locks the invoice; what the row holds may change in between.            *)

\* To the phone that waits on the connection, if one still does.
Answer(c, r, answer) ==
    /\ reply' = [p \in Phones |->
           IF c \in post[p] THEN {[stamp |-> r.stamp, answer |-> answer]} ELSE reply[p]]
    /\ post' = [p \in Phones |-> post[p] \ {c}]
    /\ call' = [call EXCEPT ![c] = {}]

GoOn(c, r) ==
    /\ call' = [call EXCEPT ![c] = {r}]
    /\ UNCHANGED <<post, reply>>

Hold(c, r, words) ==
    GoOn(c, [r EXCEPT !.fields = words, !.seen = line.version, !.invoice = line.invoice])

ReadAgain(c, r) ==
    GoOn(c, [r EXCEPT !.seen = 0, !.invoice = 0, !.attempt = @ + 1])

MergedWith(r) ==
    IF r.entry.version = line.version THEN r.fields
    ELSE Merged(r.entry.base, r.fields, line.fields)

Clash(r) ==
    IF r.entry.version = line.version THEN {}
    ELSE Collided(r.entry.base, r.fields, line.fields)

CollidedWith(r) ==
    [what |-> "collided", version |-> line.version, server |-> line.fields,
     clash |-> Clash(r), mine |-> FromPhone(r.entry.base, r.fields, line.fields)]

Unread(r, act) == r.entry.act = act /\ r.seen = 0
HasRead(r, act) == r.entry.act = act /\ r.seen # 0

\* It may be refused before it is merged, as not theirs to change; and what the
\* merge leaves may be: a site gone, a shelf too short.
ReadLine(c) ==
    /\ \E r \in call[c] :
        /\ Unread(r, "change")
        /\ \/ ~line.on /\ Answer(c, r, Note("removed"))
           \/ line.on /\ ~Draft /\ Answer(c, r, Note("plain"))
           \/ Draft /\ Clash(r) # {} /\ Answer(c, r, CollidedWith(r))
           \/ Draft /\ Clash(r) = {} /\ Hold(c, r, MergedWith(r))
           \/ Draft /\ Answer(c, r, Note("plain"))
    /\ UNCHANGED <<server, page>>

\* Wrong: the line is not read again under the lock.
StillOn(r) == line.on

Unmoved(r) == line.on /\ line.version = r.seen

\* Wrong: a draft when it was read is taken to be one still.
NeverFrozen(r) == FALSE

\* Under the lock, of the invoice the line was on when it was read; and the
\* triggers, of the one it is on by now, should it have been put back elsewhere.
Frozen(r) == r.invoice \in sent \/ (line.on /\ line.invoice \in sent)

\* Wrong: no trigger counts the save.
RewrittenUncounted(words, more) == [line EXCEPT !.fields = words]

\* Saved, and one version on if that changed anything: the fields that are
\* merged, or more, such as its receipt or what it bills.
Rewritten(words, more) ==
    [line EXCEPT !.fields = words,
                 !.version = IF words = line.fields /\ ~more THEN @ ELSE @ + 1]

WriteLine(c) ==
    /\ \E r \in call[c] :
        /\ HasRead(r, "change")
        /\ \/ /\ Unmoved(r) /\ ~Frozen(r)
              /\ \E more \in BOOLEAN : line' = Rewritten(r.fields, more)
              /\ line'.version <= MaxVersion
              /\ landed' = landed \cup {r.stamp}
              /\ Answer(c, r, Note("ok"))
           \/ /\ Frozen(r)
              /\ Answer(c, r, Note("plain"))
              /\ UNCHANGED <<line, landed>>
           \/ /\ ~Unmoved(r) /\ ~Frozen(r)
              /\ IF r.attempt < Retries THEN ReadAgain(c, r) ELSE Answer(c, r, Note("again"))
              /\ UNCHANGED <<line, landed>>
    /\ UNCHANGED <<sent, page>>

\* A line already gone is what was asked for.  One of somebody else's may not be
\* theirs to take off.
ReadRemoval(c) ==
    /\ \E r \in call[c] :
        /\ Unread(r, "remove")
        /\ \/ /\ ~line.on
              /\ landed' = landed \cup {r.stamp}
              /\ Answer(c, r, Note("ok"))
           \/ /\ line.on /\ (r.entry.force \/ r.entry.version = line.version)
              /\ Hold(c, r, r.fields)
              /\ UNCHANGED landed
           \/ /\ line.on /\ ~r.entry.force /\ r.entry.version # line.version
              /\ Answer(c, r, Note("changed"))
              /\ UNCHANGED landed
           \/ /\ line.on
              /\ Answer(c, r, Note("plain"))
              /\ UNCHANGED landed
    /\ UNCHANGED <<line, sent, page>>

\* The version is not looked at again.
WriteRemoval(c) ==
    /\ \E r \in call[c] :
        /\ HasRead(r, "remove")
        /\ \/ /\ ~Frozen(r)
              /\ line' = [line EXCEPT !.on = FALSE]
              /\ landed' = landed \cup {r.stamp}
              /\ Answer(c, r, Note("ok"))
           \/ /\ Frozen(r)
              /\ Answer(c, r, Note("plain"))
              /\ UNCHANGED <<line, landed>>
    /\ UNCHANGED <<sent, page>>

\* It may be back already; or not theirs to put back.
ReadRestore(c) ==
    /\ \E r \in call[c] :
        /\ Unread(r, "restore")
        /\ \/ line.on /\ Answer(c, r, Note("ok"))
           \/ ~line.on /\ Hold(c, r, r.fields)
           \/ ~line.on /\ Answer(c, r, Note("plain"))
    /\ UNCHANGED <<server, page>>

\* Wrong: put back where it was, whatever has become of that.
WhereItWas(r) == {r.invoice}

\* Its own draft; or, that being out, the one its lines started or a new one.
Target(r) == IF r.invoice \in sent THEN 1..MaxInvoice \ sent ELSE {r.invoice}

\* Added again as any line is: a new row, at its first save.  Another phone may
\* have put it back since it was read: it is found there by its uuid, or the
\* insert meets its id and is to be tried again.  The shelf may be too short.
WriteRestore(c) ==
    /\ \E r \in call[c] :
        /\ HasRead(r, "restore")
        /\ \/ /\ ~line.on
              /\ \E i \in Target(r) :
                     line' = [on |-> TRUE, version |-> 1, fields |-> r.fields, invoice |-> i]
              /\ landed' = landed \cup {r.stamp}
              /\ Answer(c, r, Note("ok"))
           \/ /\ line.on
              /\ Answer(c, r, Note("ok")) \/ Answer(c, r, Note("again"))
              /\ UNCHANGED <<line, landed>>
           \/ /\ Answer(c, r, Note("plain"))
              /\ UNCHANGED <<line, landed>>
    /\ UNCHANGED <<sent, page>>

\* An invoice is a name here, and its draft may be started by other lines.
SendInvoice ==
    /\ \E i \in 1..MaxInvoice \ sent : sent' = sent \cup {i}
    /\ UNCHANGED <<line, landed, page, post, reply, call>>

Next ==
    \/ \E p \in Phones :
        \/ Load(p) \/ BeginSave(p) \/ CommitSave(p)
        \/ KeepPicks(p) \/ OffAnyway(p) \/ PutBack(p) \/ LetGo(p)
        \/ \E c \in Connections : Post(p, c)
        \/ Settle(p) \/ Offline(p)
    \/ \E c \in Connections :
        \/ StrayLost(c)
        \/ ReadLine(c) \/ WriteLine(c)
        \/ ReadRemoval(c) \/ WriteRemoval(c)
        \/ ReadRestore(c) \/ WriteRestore(c)
    \/ SendInvoice

Spec == Init /\ [][Next]_vars
-----------------------------------------------------------------------------
(* What the queue and the handlers are held to.                            *)

AtMostOne(S) == \A x, y \in S : x = y

TypeOK ==
    /\ line \in Line
    /\ sent \subseteq 1..MaxInvoice
    /\ landed \subseteq Stamps
    /\ shown \in [Phones -> Save]
    /\ hand \in [Phones -> SUBSET Entry]
    /\ store \in [Phones -> SUBSET Copy]
    /\ post \in [Phones -> SUBSET Connections]
    /\ reply \in [Phones -> SUBSET Reply]
    /\ clock \in 0..MaxStamp
    /\ call \in [Connections -> SUBSET Call]
    /\ \A p \in Phones : /\ AtMostOne(hand[p]) /\ AtMostOne(store[p])
                         /\ AtMostOne(post[p]) /\ AtMostOne(reply[p])
    /\ \A c \in Connections : AtMostOne(call[c])

\* What is held under the line's own version is the line; nothing is ahead of it.
Faithful(version, fields) ==
    /\ version <= line.version
    /\ version = line.version => fields = line.fields

FaithfulWhy(why) == why.what = "collided" => Faithful(why.version, why.server)

\* A version stands for the fields the line had at it, wherever one is held: by
\* a page, a change being saved, one kept, one on its way, or a question put to
\* a person.  changeLine merges nothing on the strength of this.
VersionNamesFields ==
    line.on =>
        /\ \A p \in Phones :
            /\ Faithful(shown[p].version, shown[p].fields)
            /\ \A e \in hand[p] : Faithful(e.version, e.base)
            /\ \A d \in store[p] : Faithful(d.entry.version, d.entry.base) /\ FaithfulWhy(d.why)
            /\ \A a \in reply[p] : FaithfulWhy(a.answer)
        /\ \A c \in Connections : \A r \in call[c] : Faithful(r.entry.version, r.entry.base)

\* A step in which the request r goes from its read to its write.
Writes(c, r) ==
    /\ r \in call[c]
    /\ r.seen # 0
    /\ call'[c] # call[c]
    /\ line.on /\ line'.on

\* A change writes over no value but one its phone began from: "a line changed
\* meanwhile is merged with it field by field" (lines.ts).
OnlyKnownIsOverwritten ==
    [][\A c \in Connections : \A r \in call[c] :
        Writes(c, r) => \A f \in Moved(line.fields, line'.fields) :
                            line.fields[f] = r.entry.base[f]]_vars

On(i) == IF line.on /\ line.invoice = i THEN {line.fields} ELSE {}

\* An invoice that has gone out keeps the line as it was sent, and is given
\* none, though changes and removals read while it was a draft, and lines put
\* back, are written after.
SentStaysAsSent ==
    [][\A i \in sent : On(i)' = On(i)]_vars

\* A waiting change leaves its phone, for no newer one, only once the server
\* has carried it out.
LeavesOnceLanded ==
    [][\A p \in Phones : \A copy \in store[p] :
        Waiting(copy) /\ store'[p] = {} => copy.stamp \in landed]_vars
=============================================================================
