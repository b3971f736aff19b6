---------------------------- MODULE CaptureQueue ----------------------------
(***************************************************************************)
(* The phone's capture queue for time entries (src/lib/queue.ts), the      *)
(* running timers beside it (src/lib/timers.ts), the pages that post from  *)
(* it, the network, and the endpoint that records what arrives             *)
(* (src/routes/api/time/+server.ts).                                       *)
(*                                                                         *)
(* The queue and the timers are on the phone's disk and survive a page     *)
(* that goes away; everything a page holds while it flushes or while a     *)
(* form is open does not.  A request whose page stopped waiting for it may *)
(* still arrive, much later: a stray.                                      *)
(***************************************************************************)
EXTENDS Integers, Sequences, FiniteSets

CONSTANTS
    Uuids,      \* the client_uuids a phone makes, one per timer or entry
    Pages,      \* the tabs and windows open on the phone
    Bodies,     \* what an entry can say: its times, service, client, crew
    People,
    CrewOf,     \* the crew a body names; {} on one person's entry
    MaxStamp    \* bound: how many times anything is written to the queue

ASSUME CrewOfAssumption == CrewOf \in [Bodies -> SUBSET People]
ASSUME MaxStampAssumption == MaxStamp \in Nat

VARIABLES
    running,    \* timers, in localStorage
    queue,      \* the IndexedDB store, one copy to a client_uuid
    clock,      \* the last queued_at given out
    made,       \* every client_uuid made so far
    letGo,      \* those a person discarded, or deleted from the server
    shown,      \* page: the timers on its screen, read at most each second
    hand,       \* page: the stop or the fix it is in the middle of
    due,        \* page: a flush is asked for and not begun
    todo,       \* page: the copies its flush read and has still to post
    out,        \* page: the copy whose post it is waiting on
    answer,     \* page: what the server answered to that post
    strays,     \* requests no page waits for, that may yet arrive
    table,      \* time_entry, by client_uuid: the rows that carry it
    barred,     \* bodies the handler turns away before it looks at a row
    gone        \* bodies that name something deleted since

phone == <<running, queue, clock, made, letGo>>
page == <<shown, hand, due, todo, out, answer>>
server == <<table, barred, gone>>
vars == <<running, queue, clock, made, letGo, shown, hand, due, todo, out, answer,
          strays, table, barred, gone>>

Stamps == 1..MaxStamp
Copy == [uuid: Uuids, stamp: Stamps, body: Bodies, refused: BOOLEAN]
Row == [body: Bodies, crew: SUBSET People]
Doing == [what: {"stop", "fix"}, uuid: Uuids]
Answers == {"none", "ok", "refused", "again"}

TypeOK ==
    /\ running \in SUBSET Uuids
    /\ queue \in SUBSET Copy
    /\ clock \in 0..MaxStamp
    /\ made \in SUBSET Uuids
    /\ letGo \in SUBSET Uuids
    /\ shown \in [Pages -> SUBSET Uuids]
    /\ hand \in [Pages -> SUBSET Doing]
    /\ due \in [Pages -> BOOLEAN]
    /\ todo \in [Pages -> SUBSET Copy]
    /\ out \in [Pages -> SUBSET Copy]
    /\ answer \in [Pages -> Answers]
    /\ strays \in SUBSET Copy
    /\ table \in [Uuids -> Seq(Row)]
    /\ barred \in SUBSET Bodies
    /\ gone \in SUBSET Bodies

Init ==
    /\ running = {}
    /\ queue = {}
    /\ clock = 0
    /\ made = {}
    /\ letGo = {}
    /\ shown = [p \in Pages |-> {}]
    /\ hand = [p \in Pages |-> {}]
    /\ due = [p \in Pages |-> FALSE]
    /\ todo = [p \in Pages |-> {}]
    /\ out = [p \in Pages |-> {}]
    /\ answer = [p \in Pages |-> "none"]
    /\ strays = {}
    /\ table = [u \in Uuids |-> <<>>]
    /\ barred = {}
    /\ gone = {}
-----------------------------------------------------------------------------
(* The store.                                                              *)

\* The store without what it holds under u.
Without(u) == {c \in queue : c.uuid # u}

Queued(u) == \E c \in queue : c.uuid = u
Waiting == {c \in queue : ~c.refused}

\* enqueue: put in place of any copy under the same uuid, clearing a refusal.
Enqueue(u, b) ==
    /\ clock < MaxStamp
    /\ clock' = clock + 1
    /\ queue' = Without(u) \cup
                {[uuid |-> u, stamp |-> clock + 1, body |-> b, refused |-> FALSE]}

\* settle: only if what the store holds is still the copy that was posted.
StillHeld(c) == \E d \in queue : d.uuid = c.uuid /\ d.stamp = c.stamp

\* Wrong: takes out whatever is held under the uuid.
RemoveAnyCopy(c) == queue' = Without(c.uuid)

Remove(c) == queue' = IF StillHeld(c) THEN Without(c.uuid) ELSE queue

\* Wrong: puts the posted copy back as it was, to be posted for ever.
MarkNothing(c) == UNCHANGED queue

\* Wrong: keeps that it was refused, and not what it said.
MarkWithoutBody(c) ==
    queue' = IF StillHeld(c)
             THEN Without(c.uuid) \cup {[uuid |-> c.uuid, stamp |-> c.stamp, refused |-> TRUE]}
             ELSE queue

MarkRefused(c) ==
    queue' = IF StillHeld(c)
             THEN Without(c.uuid) \cup {[c EXCEPT !.refused = TRUE]}
             ELSE queue
-----------------------------------------------------------------------------
(* What a person does.                                                     *)

StartTimer(p, u) ==
    /\ u \notin made
    /\ made' = made \cup {u}
    /\ running' = running \cup {u}
    /\ shown' = [shown EXCEPT ![p] = running']
    /\ UNCHANGED <<queue, clock, letGo, hand, due, todo, out, answer, strays, server>>

ReadTimers(p) ==
    /\ shown[p] # running
    /\ shown' = [shown EXCEPT ![p] = running]
    /\ UNCHANGED <<phone, hand, due, todo, out, answer, strays, server>>

\* A timer on the screen is stopped, though another page may have stopped it
\* since it was read.  A stop is two steps, the entry committed and then the timer dropped: the
\* page may go away between them.
StopTimer(p, u) ==
    /\ hand[p] = {}
    /\ u \in shown[p]
    /\ \E b \in Bodies : Enqueue(u, b)
    /\ hand' = [hand EXCEPT ![p] = {[what |-> "stop", uuid |-> u]}]
    /\ UNCHANGED <<running, made, letGo, shown, due, todo, out, answer, strays, server>>

DropTimer(p) ==
    \E h \in hand[p] :
        /\ h.what = "stop"
        /\ running' = running \ {h.uuid}
        /\ shown' = [shown EXCEPT ![p] = running']
        /\ hand' = [hand EXCEPT ![p] = {}]
        /\ due' = [due EXCEPT ![p] = TRUE]
        /\ UNCHANGED <<queue, clock, made, letGo, todo, out, answer, strays, server>>

\* Work already finished, entered by hand under a uuid of its own.
AddPastWork(p, u) ==
    /\ u \notin made
    /\ made' = made \cup {u}
    /\ \E b \in Bodies : Enqueue(u, b)
    /\ due' = [due EXCEPT ![p] = TRUE]
    /\ UNCHANGED <<running, letGo, shown, hand, todo, out, answer, strays, server>>

\* A refused copy opened to be put right, and saved under its own uuid.
OpenFix(p, u) ==
    /\ hand[p] = {}
    /\ \E c \in queue : c.uuid = u /\ c.refused
    /\ hand' = [hand EXCEPT ![p] = {[what |-> "fix", uuid |-> u]}]
    /\ UNCHANGED <<phone, shown, due, todo, out, answer, strays, server>>

SaveFix(p) ==
    \E h \in hand[p] :
        /\ h.what = "fix"
        /\ \E b \in Bodies : Enqueue(h.uuid, b)
        /\ hand' = [hand EXCEPT ![p] = {}]
        /\ due' = [due EXCEPT ![p] = TRUE]
        /\ UNCHANGED <<running, made, letGo, shown, todo, out, answer, strays, server>>

\* Offered on refused entries only.
Discard(u) ==
    /\ \E c \in queue : c.uuid = u /\ c.refused
    /\ queue' = Without(u)
    /\ letGo' = letGo \cup {u}
    /\ UNCHANGED <<running, clock, made, page, strays, server>>
-----------------------------------------------------------------------------
(* A page's flush: flush and post.                                         *)

\* The page opens with a signal, or hears that it is back in one.
AskFlush(p) ==
    /\ ~due[p]
    /\ due' = [due EXCEPT ![p] = TRUE]
    /\ UNCHANGED <<phone, shown, hand, todo, out, answer, strays, server>>

Idle(p) == todo[p] = {} /\ out[p] = {}

\* One flush at a time on a page; the store is read once, when it begins.
\* Wrong: a flush that takes up the refused with the waiting.
BeginFlushOfAll(p) ==
    /\ due[p]
    /\ Idle(p)
    /\ due' = [due EXCEPT ![p] = FALSE]
    /\ todo' = [todo EXCEPT ![p] = queue]
    /\ UNCHANGED <<phone, shown, hand, out, answer, strays, server>>

BeginFlush(p) ==
    /\ due[p]
    /\ Idle(p)
    /\ due' = [due EXCEPT ![p] = FALSE]
    /\ todo' = [todo EXCEPT ![p] = Waiting]
    /\ UNCHANGED <<phone, shown, hand, out, answer, strays, server>>

Oldest(S) == {c \in S : \A d \in S : c.stamp <= d.stamp}

Post(p) ==
    /\ out[p] = {}
    /\ \E c \in Oldest(todo[p]) :
        /\ out' = [out EXCEPT ![p] = {c}]
        /\ todo' = [todo EXCEPT ![p] = @ \ {c}]
    /\ UNCHANGED <<phone, shown, hand, due, answer, strays, server>>

\* Wrong: any answer but a refusal is taken to say that it is in.
SettleAsSent(p) ==
    /\ answer[p] # "none"
    /\ \E c \in out[p] :
        \/ answer[p] \in {"ok", "again"} /\ Remove(c)
        \/ answer[p] = "refused" /\ MarkRefused(c)
    /\ out' = [out EXCEPT ![p] = {}]
    /\ answer' = [answer EXCEPT ![p] = "none"]
    /\ UNCHANGED <<running, clock, made, letGo, shown, hand, due, todo, strays, server>>

\* The answer is in: the copy is settled, or left for another go.
Settle(p) ==
    /\ answer[p] # "none"
    /\ \E c \in out[p] :
        \/ answer[p] = "ok" /\ Remove(c)
        \/ answer[p] = "refused" /\ MarkRefused(c)
        \/ answer[p] = "again" /\ UNCHANGED queue
    /\ out' = [out EXCEPT ![p] = {}]
    /\ answer' = [answer EXCEPT ![p] = "none"]
    /\ UNCHANGED <<running, clock, made, letGo, shown, hand, due, todo, strays, server>>

\* A request the page stops waiting for may still be on its way.
Abandoned(p) == IF answer[p] = "none" THEN out[p] ELSE {}

\* No connection, or the answer lost on its way: the rest of the flush waits.
GoOffline(p) ==
    /\ out[p] # {}
    /\ strays' = strays \cup Abandoned(p)
    /\ out' = [out EXCEPT ![p] = {}]
    /\ answer' = [answer EXCEPT ![p] = "none"]
    /\ todo' = [todo EXCEPT ![p] = {}]
    /\ UNCHANGED <<phone, shown, hand, due, server>>

\* The page is closed, reloaded or killed; the one opened next reads afresh.
PageGone(p) ==
    /\ ~Idle(p) \/ due[p] \/ hand[p] # {}
    /\ strays' = strays \cup Abandoned(p)
    /\ shown' = [shown EXCEPT ![p] = running]
    /\ hand' = [hand EXCEPT ![p] = {}]
    /\ due' = [due EXCEPT ![p] = FALSE]
    /\ todo' = [todo EXCEPT ![p] = {}]
    /\ out' = [out EXCEPT ![p] = {}]
    /\ answer' = [answer EXCEPT ![p] = "none"]
    /\ UNCHANGED <<phone, server>>
-----------------------------------------------------------------------------
(* The server: POST /api/time, and what changes what it takes.             *)

NewRow(b) == [body |-> b, crew |-> CrewOf[b]]

\* A repeat is the row already there; a team's crew takes on who it names.
Repeated(row, b) ==
    [row EXCEPT !.crew = IF row.crew = {} THEN {} ELSE row.crew \cup CrewOf[b]]

\* Wrong: inserts without looking for the row already there.
RecordAgain(c) ==
    table' = [table EXCEPT ![c.uuid] = Append(@, NewRow(c.body))]

Record(c) ==
    table' = [table EXCEPT ![c.uuid] =
        IF @ = <<>> THEN <<NewRow(c.body)>> ELSE <<Repeated(@[1], c.body)>>]

\* Checks on the body come first, and answer whether or not its row is there;
\* what the body names is checked only as a row is written.
Refuses(c) == c.body \in barred \/ (c.body \in gone /\ table[c.uuid] = <<>>)

\* A repeat that adds somebody to the row's crew: refused too, if they are what
\* is gone.
AddsSomebodyGone(c) ==
    /\ c.body \in gone
    /\ \E i \in DOMAIN table[c.uuid] : Repeated(table[c.uuid][i], c.body) # table[c.uuid][i]

\* Wrong: a row that could not be written is answered as one that was.
HandleUnwritten(c, a) ==
    \/ a = "ok" /\ ~Refuses(c) /\ Record(c)
    \/ a = "ok" /\ Refuses(c) /\ UNCHANGED table
    \/ a = "again" /\ UNCHANGED table

Handle(c, a) ==
    \/ a = "ok" /\ ~Refuses(c) /\ Record(c)
    \/ a = "refused" /\ (Refuses(c) \/ AddsSomebodyGone(c)) /\ UNCHANGED table
    \/ a = "again" /\ UNCHANGED table

Serve(p, a) ==
    /\ answer[p] = "none"
    /\ \E c \in out[p] : Handle(c, a)
    /\ answer' = [answer EXCEPT ![p] = a]
    /\ UNCHANGED <<phone, shown, hand, due, todo, out, strays, barred, gone>>

StrayArrives(c) ==
    /\ \E a \in Answers \ {"none"} : Handle(c, a)
    /\ strays' = strays \ {c}
    /\ UNCHANGED <<phone, page, barred, gone>>

StrayLost(c) ==
    /\ strays' = strays \ {c}
    /\ UNCHANGED <<phone, page, server>>

\* DELETE /api/time/[id], by a person; the row's crew goes with it.
DeleteRow(u) ==
    /\ table[u] # <<>>
    /\ table' = [table EXCEPT ![u] = <<>>]
    /\ letGo' = letGo \cup {u}
    /\ UNCHANGED <<running, queue, clock, made, page, strays, barred, gone>>

\* Someone's access changes, so the same body is refused, or taken again.
ChangeAccess(b) ==
    /\ barred' = IF b \in barred THEN barred \ {b} ELSE barred \cup {b}
    /\ UNCHANGED <<phone, page, strays, table, gone>>

\* What a body names is deleted, which no row that names it allows.
DeleteNamed(b) ==
    /\ b \notin gone
    /\ \A u \in Uuids : \A i \in DOMAIN table[u] : table[u][i].body # b
    /\ gone' = gone \cup {b}
    /\ UNCHANGED <<phone, page, strays, table, barred>>
-----------------------------------------------------------------------------
Next ==
    \/ \E u \in Uuids : Discard(u) \/ DeleteRow(u)
    \/ \E p \in Pages, u \in Uuids : StartTimer(p, u) \/ StopTimer(p, u)
                                     \/ AddPastWork(p, u) \/ OpenFix(p, u)
    \/ \E p \in Pages : ReadTimers(p) \/ DropTimer(p) \/ SaveFix(p) \/ AskFlush(p) \/ BeginFlush(p)
                        \/ Post(p) \/ Settle(p) \/ GoOffline(p) \/ PageGone(p)
    \/ \E p \in Pages, a \in Answers \ {"none"} : Serve(p, a)
    \/ \E c \in strays : StrayArrives(c) \/ StrayLost(c)
    \/ \E b \in Bodies : ChangeAccess(b) \/ DeleteNamed(b)

Spec == Init /\ [][Next]_vars

(* A signal good enough to flush comes again and again, and with it a server *)
(* that decides: what the environment owes the queue, and nothing more.      *)
Decided == {"ok", "refused"}
Signal ==
    \A p \in Pages :
        /\ WF_vars(AskFlush(p))
        /\ SF_vars(BeginFlush(p))
        /\ SF_vars(Post(p))
        /\ SF_vars(\E a \in Decided : Serve(p, a))
        /\ WF_vars(Settle(p))
        /\ SF_vars(answer[p] \in Decided /\ Settle(p))

FairSpec == Spec /\ Signal
-----------------------------------------------------------------------------
(* NOTHING IN IT IS THROWN AWAY (queue.ts:17): a timer or an entry once made *)
(* is a timer still running, a copy in the store or a row on the server,     *)
(* unless a person let it go.                                                *)
NothingLost ==
    \A u \in made : u \in running \/ Queued(u) \/ table[u] # <<>> \/ u \in letGo

(* However often an entry is posted -- a lost answer, a stray, two pages --   *)
(* one row carries its client_uuid.                                          *)
OneRowPerEntry == \A u \in Uuids : Len(table[u]) <= 1

(* What holds the three up: whatever names an entry was made; a timer being  *)
(* dropped has its entry committed; a post answered "ok" left a row; the     *)
(* store holds one copy to a uuid, none from the future.                     *)
Kept(u) == Queued(u) \/ table[u] # <<>> \/ u \in letGo

OnlyMade ==
    /\ running \subseteq made
    /\ letGo \subseteq made
    /\ \A c \in queue : c.uuid \in made
    /\ \A c \in strays : c.uuid \in made
    /\ \A u \in Uuids : table[u] # <<>> => u \in made
    /\ \A p \in Pages : /\ shown[p] \subseteq made
                        /\ \A c \in todo[p] \cup out[p] : c.uuid \in made
                        /\ \A h \in hand[p] : h.uuid \in made

StopsAreCommitted == \A p \in Pages : \A h \in hand[p] : h.what = "stop" => Kept(h.uuid)

AnswersAreTrue ==
    \A p \in Pages : \A c \in out[p] :
        answer[p] = "ok" => table[c.uuid] # <<>> \/ c.uuid \in letGo

StoreIsKeyed ==
    /\ \A c, d \in queue : c.uuid = d.uuid => c = d
    /\ \A c \in queue : c.stamp <= clock

\* And no answer is kept once its post is settled, so the next cannot take it.
OneOut ==
    \A p \in Pages : /\ \A c, d \in out[p] : c = d
                     /\ out[p] = {} => answer[p] = "none"

IInv ==
    /\ TypeOK
    /\ NothingLost
    /\ OneRowPerEntry
    /\ OnlyMade
    /\ StopsAreCommitted
    /\ AnswersAreTrue
    /\ StoreIsKeyed
    /\ OneOut

(* One queued again while its post was out is the newer word, and stays      *)
(* (queue.ts:271): a copy leaves the store only for a newer one, by a        *)
(* person's discard of it refused, or because a post of that very copy was   *)
(* answered.                                                                 *)
SettledBy(c) ==
    \E p \in Pages : \E d \in out[p] :
        answer[p] = "ok" /\ d.uuid = c.uuid /\ d.stamp = c.stamp
NewerWordStays ==
    [][\A c \in queue :
         \/ \E d \in queue' : d.uuid = c.uuid /\ d.stamp >= c.stamp
         \/ c.refused
         \/ SettledBy(c)]_vars

(* The queue keeps what EntryCustody promises: an entry is with the phone,   *)
(* or in the book once there is a row, from its making to a person's letting *)
(* go.                                                                       *)
KeptBy ==
    [u \in Uuids |->
        IF table[u] # <<>> THEN "book"
        ELSE IF u \in running \/ Queued(u) THEN "phone"
        ELSE IF u \in letGo THEN "letgo"
        ELSE IF u \in made THEN "lost"
        ELSE "unmade"]
Custody == INSTANCE EntryCustody WITH Entries <- Uuids, keeper <- KeptBy
CustodyKept == Custody!Spec

(* A refused entry is not posted again until it is fixed (queue.ts:103), nor *)
(* a discarded one at all: on one page, though the store was read once when  *)
(* the flush began, each post is of an entry that is waiting as it goes out. *)
PostsOnlyWaiting ==
    [][\A p \in Pages : \A c \in out'[p] \ out[p] :
         \E d \in Waiting : d.uuid = c.uuid]_vars

(* Every waiting entry is in the end recorded, or refused and shown to its   *)
(* person: none waits for ever behind the others.                            *)
WaitingSettles ==
    \A u \in Uuids :
        (\E c \in Waiting : c.uuid = u) ~> ~(\E c \in Waiting : c.uuid = u)
=============================================================================
