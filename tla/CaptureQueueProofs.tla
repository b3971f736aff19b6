-------------------------- MODULE CaptureQueueProofs --------------------------
(***************************************************************************)
(* What the capture queue keeps for any number of entries, pages and       *)
(* bodies: the proofs of CaptureQueue's invariants and that it implements  *)
(* EntryCustody.                                                           *)
(***************************************************************************)
EXTENDS CaptureQueue, TLAPS

USE CrewOfAssumption, MaxStampAssumption
-----------------------------------------------------------------------------
(* Writing to the store keeps its type, and adds no uuid but the one written. *)
LEMMA EnqueueType ==
    ASSUME TypeOK, NEW u \in Uuids, NEW b \in Bodies, Enqueue(u, b)
    PROVE  queue' \in SUBSET Copy /\ clock' \in 0..MaxStamp
  <1>1. clock + 1 \in Stamps /\ clock + 1 \in 0..MaxStamp
    BY DEF TypeOK, Enqueue, Stamps
  <1>2. [uuid |-> u, stamp |-> clock + 1, body |-> b, refused |-> FALSE] \in Copy
    BY <1>1 DEF Copy
  <1>3. Without(u) \in SUBSET Copy
    BY DEF TypeOK, Without
  <1> QED BY <1>1, <1>2, <1>3 DEF Enqueue

LEMMA RemoveType ==
    ASSUME TypeOK, NEW c, Remove(c)
    PROVE  queue' \in SUBSET Copy
  BY DEF TypeOK, Remove, Without

LEMMA MarkRefusedType ==
    ASSUME TypeOK, NEW c \in Copy, MarkRefused(c)
    PROVE  queue' \in SUBSET Copy
  <1>1. [c EXCEPT !.refused = TRUE] \in Copy
    BY DEF Copy
  <1> QED BY <1>1 DEF TypeOK, MarkRefused, Without

(* A row written for a copy is a row; every uuid has at most the one.        *)
LEMMA RecordType ==
    ASSUME TypeOK, NEW c \in Copy, Record(c)
    PROVE  table' \in [Uuids -> Seq(Row)]
  <1> DEFINE u == c.uuid
             rows == table[u]
  <1>1. u \in Uuids /\ c.body \in Bodies
    BY DEF Copy
  <1>2. NewRow(c.body) \in Row
    BY <1>1 DEF NewRow, Row
  <1>3. <<NewRow(c.body)>> \in Seq(Row)
    BY <1>2
  <1>4. CASE rows = <<>>
    BY <1>1, <1>3, <1>4 DEF Record, TypeOK
  <1>5. CASE rows # <<>>
    <2>1. rows \in Seq(Row) /\ rows[1] \in Row
      BY <1>1, <1>5 DEF TypeOK
    <2>2. Repeated(rows[1], c.body) \in Row
      BY <2>1, <1>1 DEF Repeated, Row
    <2>3. <<Repeated(rows[1], c.body)>> \in Seq(Row)
      BY <2>2
    <2> QED BY <1>1, <1>5, <2>3 DEF Record, TypeOK
  <1> QED BY <1>4, <1>5

LEMMA HandleType ==
    ASSUME TypeOK, NEW c \in Copy, NEW a, Handle(c, a)
    PROVE  table' \in [Uuids -> Seq(Row)]
  BY RecordType DEF Handle, TypeOK
-----------------------------------------------------------------------------
(* Every step keeps the type.                                                *)
LEMMA TypeStep == TypeOK /\ [Next]_vars => TypeOK'
  <1> SUFFICES ASSUME TypeOK, [Next]_vars PROVE TypeOK'
    OBVIOUS
  <1>1. ASSUME NEW p \in Pages, NEW u \in Uuids, StartTimer(p, u) PROVE TypeOK'
    BY <1>1 DEF TypeOK, StartTimer, server
  <1>2. ASSUME NEW u \in Uuids, Discard(u) PROVE TypeOK'
    BY <1>2 DEF TypeOK, Discard, Without, page, server
  <1>3. ASSUME NEW u \in Uuids, DeleteRow(u) PROVE TypeOK'
    <2>1. <<>> \in Seq(Row)
      OBVIOUS
    <2> QED BY <1>3, <2>1 DEF TypeOK, DeleteRow, page
  <1>4. ASSUME NEW p \in Pages, NEW u \in Uuids, StopTimer(p, u) PROVE TypeOK'
    <2>1. PICK b \in Bodies : Enqueue(u, b)
      BY <1>4 DEF StopTimer
    <2>2. {[what |-> "stop", uuid |-> u]} \in SUBSET Doing
      BY DEF Doing
    <2> QED BY <1>4, <2>1, <2>2, EnqueueType DEF TypeOK, StopTimer, server
  <1>5. ASSUME NEW p \in Pages, NEW u \in Uuids, AddPastWork(p, u) PROVE TypeOK'
    <2>1. PICK b \in Bodies : Enqueue(u, b)
      BY <1>5 DEF AddPastWork
    <2> QED BY <1>5, <2>1, EnqueueType DEF TypeOK, AddPastWork, server
  <1>6. ASSUME NEW p \in Pages, NEW u \in Uuids, OpenFix(p, u) PROVE TypeOK'
    <2>1. {[what |-> "fix", uuid |-> u]} \in SUBSET Doing
      BY DEF Doing
    <2> QED BY <1>6, <2>1 DEF TypeOK, OpenFix, phone, server
  <1>7. ASSUME NEW p \in Pages, DropTimer(p) PROVE TypeOK'
    BY <1>7 DEF TypeOK, DropTimer, server
  <1>8. ASSUME NEW p \in Pages, SaveFix(p) PROVE TypeOK'
    <2>1. PICK h \in hand[p] : SaveFix(p)!(h)
      BY <1>8 DEF SaveFix
    <2>2. h.uuid \in Uuids
      BY DEF TypeOK, Doing
    <2>3. PICK b \in Bodies : Enqueue(h.uuid, b)
      BY <2>1
    <2> QED BY <2>1, <2>2, <2>3, EnqueueType DEF TypeOK, server
  <1>9. ASSUME NEW p \in Pages, AskFlush(p) PROVE TypeOK'
    BY <1>9 DEF TypeOK, AskFlush, phone, server
  <1>10. ASSUME NEW p \in Pages, BeginFlush(p) PROVE TypeOK'
    BY <1>10 DEF TypeOK, BeginFlush, Waiting, phone, server
  <1>11. ASSUME NEW p \in Pages, Post(p) PROVE TypeOK'
    BY <1>11 DEF TypeOK, Post, Oldest, phone, server
  <1>12. ASSUME NEW p \in Pages, Settle(p) PROVE TypeOK'
    <2>1. queue' \in SUBSET Copy
      BY <1>12, RemoveType, MarkRefusedType DEF Settle, TypeOK
    <2> QED BY <1>12, <2>1 DEF TypeOK, Settle, server, Answers
  <1>13. ASSUME NEW p \in Pages, GoOffline(p) PROVE TypeOK'
    BY <1>13 DEF TypeOK, GoOffline, Abandoned, phone, server, Answers
  <1>14. ASSUME NEW p \in Pages, PageGone(p) PROVE TypeOK'
    BY <1>14 DEF TypeOK, PageGone, Abandoned, phone, server, Answers
  <1>15. ASSUME NEW p \in Pages, NEW a \in Answers \ {"none"}, Serve(p, a) PROVE TypeOK'
    <2>1. table' \in [Uuids -> Seq(Row)]
      BY <1>15, HandleType DEF Serve, TypeOK
    <2> QED BY <1>15, <2>1 DEF TypeOK, Serve, phone
  <1>16. ASSUME NEW c \in strays, StrayArrives(c) PROVE TypeOK'
    <2>1. table' \in [Uuids -> Seq(Row)]
      BY <1>16, HandleType DEF StrayArrives, TypeOK
    <2> QED BY <1>16, <2>1 DEF TypeOK, StrayArrives, phone, page
  <1>17. ASSUME NEW c \in strays, StrayLost(c) PROVE TypeOK'
    BY <1>17 DEF TypeOK, StrayLost, phone, page, server
  <1>18. ASSUME NEW b \in Bodies, ChangeAccess(b) PROVE TypeOK'
    BY <1>18 DEF TypeOK, ChangeAccess, phone, page
  <1>19. ASSUME NEW b \in Bodies, DeleteNamed(b) PROVE TypeOK'
    BY <1>19 DEF TypeOK, DeleteNamed, phone, page
  <1>20. ASSUME NEW p \in Pages, ReadTimers(p) PROVE TypeOK'
    BY <1>20 DEF TypeOK, ReadTimers, phone, server
  <1>21. CASE UNCHANGED vars
    BY <1>21 DEF TypeOK, vars
  <1> QED
    BY <1>1, <1>2, <1>3, <1>4, <1>5, <1>6, <1>7, <1>8, <1>9, <1>10, <1>11, <1>12,
       <1>13, <1>14, <1>15, <1>16, <1>17, <1>18, <1>19, <1>20, <1>21 DEF Next

(* Whatever a page, a person, the network or the server does, each variable   *)
(* stays what it is declared to be.                                          *)
THEOREM TypeCorrect == Spec => []TypeOK
  <1>1. Init => TypeOK
    BY DEF Init, TypeOK, Answers
  <1> QED BY <1>1, TypeStep, PTL DEF Spec
-----------------------------------------------------------------------------
(* What each write to the store does to the entries in it.                   *)
LEMMA EnqueueKeeps ==
    ASSUME TypeOK, StoreIsKeyed, NEW u \in Uuids, NEW b \in Bodies, Enqueue(u, b)
    PROVE  /\ Queued(u)'
           /\ \A v \in Uuids : Queued(v) => Queued(v)'
           /\ \A c \in queue' : c.uuid = u \/ c \in queue
           /\ StoreIsKeyed'
           /\ \A c \in queue : \E d \in queue' : d.uuid = c.uuid /\ d.stamp >= c.stamp
  <1> DEFINE new == [uuid |-> u, stamp |-> clock + 1, body |-> b, refused |-> FALSE]
  <1>1. queue' = Without(u) \cup {new} /\ clock' = clock + 1 /\ clock \in Nat
    BY DEF Enqueue, TypeOK
  <1>2. new.uuid = u /\ new.stamp = clock + 1
    OBVIOUS
  <1>3. \A c \in queue : c.stamp \in Nat /\ c.stamp <= clock
    BY DEF TypeOK, Copy, Stamps, StoreIsKeyed
  <1> HIDE DEF new
  <1>4. \A c \in queue : \E d \in queue' : d.uuid = c.uuid /\ d.stamp >= c.stamp
    BY <1>1, <1>2, <1>3 DEF Without
  <1>5. StoreIsKeyed'
    BY <1>1, <1>2, <1>3 DEF Without, StoreIsKeyed
  <1> QED BY <1>1, <1>2, <1>4, <1>5 DEF Without, Queued

LEMMA RemoveKeeps ==
    ASSUME NEW c \in Copy, Remove(c)
    PROVE  /\ \A v \in Uuids : v # c.uuid => (Queued(v)' <=> Queued(v))
           /\ queue' \subseteq queue
           /\ StoreIsKeyed => \A d \in queue \ queue' : d.uuid = c.uuid /\ d.stamp = c.stamp
  BY DEF Remove, Without, Queued, StillHeld, StoreIsKeyed

LEMMA MarkRefusedKeeps ==
    ASSUME TypeOK, StoreIsKeyed, UNCHANGED clock, NEW c \in Copy, MarkRefused(c)
    PROVE  /\ \A v \in Uuids : Queued(v)' <=> Queued(v)
           /\ StoreIsKeyed'
           /\ \A d \in queue : \E e \in queue' : e.uuid = d.uuid /\ e.stamp >= d.stamp
           /\ \A e \in queue' : \E d \in queue : d.uuid = e.uuid
  <1> DEFINE marked == [c EXCEPT !.refused = TRUE]
  <1>1. marked.uuid = c.uuid /\ marked.stamp = c.stamp /\ c.stamp \in Nat
    BY DEF Copy, Stamps
  <1>2. queue' = IF StillHeld(c) THEN Without(c.uuid) \cup {marked} ELSE queue
    BY DEF MarkRefused
  <1>3. \A d \in queue : d.stamp \in Nat
    BY DEF TypeOK, Copy, Stamps
  <1> HIDE DEF marked
  <1>4. StoreIsKeyed'
    BY <1>1, <1>2 DEF StoreIsKeyed, StillHeld, Without
  <1>5. \A d \in queue : \E e \in queue' : e.uuid = d.uuid /\ e.stamp >= d.stamp
    BY <1>1, <1>2, <1>3 DEF StoreIsKeyed, StillHeld, Without
  <1>6. \A e \in queue' : \E d \in queue : d.uuid = e.uuid
    BY <1>1, <1>2 DEF StillHeld, Without
  <1> QED BY <1>4, <1>5, <1>6 DEF Queued

(* A post taken leaves one row under its uuid and touches no other.           *)
LEMMA RecordKeeps ==
    ASSUME TypeOK, NEW c \in Copy, Record(c)
    PROVE  /\ table'[c.uuid] # <<>> /\ Len(table'[c.uuid]) <= 1
           /\ \A v \in Uuids : v # c.uuid => table'[v] = table[v]
  BY DEF TypeOK, Copy, Record

LEMMA HandleKeeps ==
    ASSUME TypeOK, OneRowPerEntry, NEW c \in Copy, NEW a, Handle(c, a)
    PROVE  /\ \A v \in Uuids : v # c.uuid => table'[v] = table[v]
           /\ OneRowPerEntry'
           /\ table[c.uuid] # <<>> => table'[c.uuid] # <<>>
           /\ a = "ok" => table'[c.uuid] # <<>>
  <1>0. c.uuid \in Uuids
    BY DEF Copy
  <1>1. CASE Record(c)
    <2>1. /\ table'[c.uuid] # <<>> /\ Len(table'[c.uuid]) <= 1
          /\ \A v \in Uuids : v # c.uuid => table'[v] = table[v]
      BY <1>1, RecordKeeps
    <2>2. ASSUME NEW v \in Uuids PROVE Len(table'[v]) <= 1
      <3>1. CASE v = c.uuid
        BY <2>1, <3>1, Zenon
      <3>2. CASE v # c.uuid
        <4>1. Len(table[v]) <= 1 /\ table'[v] = table[v]
          BY <2>1, <3>2 DEF OneRowPerEntry
        <4> QED BY <4>1
      <3> QED BY <3>1, <3>2
    <2>3. OneRowPerEntry'
      BY <2>2 DEF OneRowPerEntry
    <2> QED BY <2>1, <2>3
  <1>2. CASE UNCHANGED table /\ a # "ok"
    BY <1>2 DEF OneRowPerEntry
  <1> QED BY <1>1, <1>2 DEF Handle
-----------------------------------------------------------------------------
(* The strengthened invariant: one step to an action of Next.                *)
LEMMA InvInit == Init => IInv
  <1> SUFFICES ASSUME Init PROVE IInv
    OBVIOUS
  <1>1. TypeOK
    BY DEF Init, TypeOK, Answers
  <1>2. \A u \in Uuids : table[u] = <<>> /\ Len(table[u]) <= 1
    BY DEF Init
  <1> QED
    BY <1>1, <1>2 DEF Init, IInv, NothingLost, OneRowPerEntry, OnlyMade,
       StopsAreCommitted, AnswersAreTrue, StoreIsKeyed, OneOut

(* A page waits on one post at a time, and keeps no answer past it.           *)
LEMMA OneOutStep == TypeOK /\ OneOut /\ [Next]_vars => OneOut'
  <1> SUFFICES ASSUME TypeOK, OneOut, [Next]_vars PROVE OneOut'
    OBVIOUS
  <1> USE DEF OneOut
  <1>1. CASE UNCHANGED <<out, answer>>
    BY <1>1
  <1>2. ASSUME NEW p \in Pages, Post(p) PROVE OneOut'
    <2>1. PICK c \in todo[p] : out' = [out EXCEPT ![p] = {c}]
      BY <1>2 DEF Post, Oldest
    <2>2. \A q \in Pages : out'[q] = IF q = p THEN {c} ELSE out[q]
      BY <2>1 DEF TypeOK
    <2> QED BY <1>2, <2>2 DEF Post
  <1>3. ASSUME NEW p \in Pages, Settle(p) \/ GoOffline(p) \/ PageGone(p) PROVE OneOut'
    <2>1. out' = [out EXCEPT ![p] = {}] /\ answer' = [answer EXCEPT ![p] = "none"]
      BY <1>3 DEF Settle, GoOffline, PageGone
    <2> QED BY <2>1 DEF TypeOK
  <1>4. ASSUME NEW p \in Pages, NEW a \in Answers, Serve(p, a) PROVE OneOut'
    <2>1. out[p] # {} /\ UNCHANGED out /\ answer' = [answer EXCEPT ![p] = a]
      BY <1>4 DEF Serve
    <2> QED BY <2>1 DEF TypeOK
  <1> QED
    BY <1>1, <1>2, <1>3, <1>4
    DEF Next, vars, page, StartTimer, ReadTimers, Discard, DeleteRow, StopTimer, AddPastWork, OpenFix,
        DropTimer, SaveFix, AskFlush, BeginFlush, StrayArrives, StrayLost, ChangeAccess,
        DeleteNamed

LEMMA InvStep == IInv /\ [Next]_vars => IInv'
  <1> SUFFICES ASSUME IInv, [Next]_vars PROVE IInv'
    OBVIOUS
  <1>type. TypeOK /\ TypeOK' /\ OneOut'
    BY TypeStep, OneOutStep DEF IInv
  <1>now. /\ NothingLost /\ OneRowPerEntry /\ OnlyMade
          /\ StopsAreCommitted /\ AnswersAreTrue /\ StoreIsKeyed /\ OneOut
    BY DEF IInv
  <1> DEFINE Goal == /\ NothingLost' /\ OneRowPerEntry' /\ OnlyMade'
                     /\ StopsAreCommitted' /\ AnswersAreTrue' /\ StoreIsKeyed'
  <1> USE DEF NothingLost, OnlyMade, StopsAreCommitted, AnswersAreTrue, Kept, Queued
  <1>1. ASSUME NEW p \in Pages, NEW u \in Uuids, StartTimer(p, u) PROVE Goal
    BY <1>1, <1>type, <1>now DEF StartTimer, server, TypeOK, OneRowPerEntry, StoreIsKeyed
  <1>2. ASSUME NEW u \in Uuids, Discard(u) PROVE Goal
    <2>1. /\ queue' \subseteq queue
          /\ \A v \in Uuids : v # u => (Queued(v)' <=> Queued(v))
          /\ letGo' = letGo \cup {u} /\ u \in made
          /\ UNCHANGED <<running, clock, made, page, strays, server>>
      BY <1>2, <1>now DEF Discard, Without
    <2>2. \A v \in Uuids : Kept(v) => Kept(v)'
      BY <2>1 DEF server
    <2>3. NothingLost'
      BY <2>1, <2>2, <1>type, <1>now DEF TypeOK, server
    <2>4. OneRowPerEntry'
      BY <2>1, <1>now DEF server, OneRowPerEntry
    <2>5. OnlyMade'
      BY <2>1, <1>now DEF server, page
    <2>6. StopsAreCommitted'
      BY <2>1, <2>2, <1>type, <1>now DEF TypeOK, Doing, page
    <2>7. AnswersAreTrue' /\ StoreIsKeyed'
      BY <2>1, <1>now DEF server, page, StoreIsKeyed
    <2> QED BY <2>3, <2>4, <2>5, <2>6, <2>7
  <1>3. ASSUME NEW u \in Uuids, DeleteRow(u) PROVE Goal
    BY <1>3, <1>type, <1>now DEF DeleteRow, page, TypeOK, OneRowPerEntry, StoreIsKeyed
  <1>4. ASSUME NEW p \in Pages, NEW u \in Uuids, StopTimer(p, u) PROVE Goal
    <2>1. PICK b \in Bodies : Enqueue(u, b)
      BY <1>4 DEF StopTimer
    <2>2. /\ Queued(u)' /\ StoreIsKeyed' /\ u \in made
          /\ \A v \in Uuids : Queued(v) => Queued(v)'
          /\ \A c \in queue' : c.uuid = u \/ c \in queue
          /\ UNCHANGED <<running, made, letGo, shown, due, todo, out, answer, strays, server>>
      BY <1>4, <2>1, <1>type, <1>now, EnqueueKeeps DEF StopTimer
    <2>3. \A q \in Pages : hand'[q] = IF q = p THEN {[what |-> "stop", uuid |-> u]} ELSE hand[q]
      BY <1>4, <1>type DEF StopTimer, TypeOK
    <2>4. NothingLost' /\ OneRowPerEntry'
      BY <2>2, <1>type, <1>now DEF TypeOK, server, OneRowPerEntry
    <2>5. OnlyMade'
      BY <2>2, <2>3, <1>now DEF server
    <2>6. \A v \in Uuids : Kept(v) => Kept(v)'
      BY <2>2 DEF server
    <2>7. ASSUME NEW q \in Pages, NEW h \in hand'[q], h.what = "stop" PROVE Kept(h.uuid)'
      <3>1. CASE q = p
        BY <2>2, <2>3, <3>1
      <3>2. CASE q # p
        <4>1. h \in hand[q] /\ h.uuid \in Uuids
          BY <2>3, <3>2, <1>type DEF TypeOK, Doing
        <4> QED BY <4>1, <2>6, <2>7, <1>now
      <3> QED BY <3>1, <3>2
    <2>8. AnswersAreTrue'
      BY <2>2, <1>now DEF server
    <2> QED BY <2>2, <2>4, <2>5, <2>7, <2>8
  <1>5. ASSUME NEW p \in Pages, NEW u \in Uuids, AddPastWork(p, u) PROVE Goal
    <2>1. PICK b \in Bodies : Enqueue(u, b)
      BY <1>5 DEF AddPastWork
    <2> QED BY <1>5, <2>1, <1>type, <1>now, EnqueueKeeps DEF AddPastWork, server, TypeOK, OneRowPerEntry
  <1>6. ASSUME NEW p \in Pages, NEW u \in Uuids, OpenFix(p, u) PROVE Goal
    BY <1>6, <1>type, <1>now DEF OpenFix, phone, server, TypeOK, OneRowPerEntry, StoreIsKeyed
  <1>7. ASSUME NEW p \in Pages, DropTimer(p) PROVE Goal
    BY <1>7, <1>type, <1>now DEF DropTimer, server, TypeOK, OneRowPerEntry, StoreIsKeyed
  <1>8. ASSUME NEW p \in Pages, SaveFix(p) PROVE Goal
    <2>1. PICK h \in hand[p] : SaveFix(p)!(h)
      BY <1>8 DEF SaveFix
    <2>2. h.uuid \in Uuids
      BY <1>type DEF TypeOK, Doing
    <2>3. PICK b \in Bodies : Enqueue(h.uuid, b)
      BY <2>1
    <2>4. /\ Queued(h.uuid)' /\ StoreIsKeyed' /\ h.uuid \in made
          /\ \A v \in Uuids : Queued(v) => Queued(v)'
          /\ \A c \in queue' : c.uuid = h.uuid \/ c \in queue
          /\ UNCHANGED <<running, made, letGo, shown, todo, out, answer, strays, server>>
      BY <2>1, <2>2, <2>3, <1>type, <1>now, EnqueueKeeps
    <2>5. \A q \in Pages : hand'[q] = IF q = p THEN {} ELSE hand[q]
      BY <2>1, <1>type DEF TypeOK
    <2>6. NothingLost' /\ OneRowPerEntry'
      BY <2>4, <1>type, <1>now DEF TypeOK, server, OneRowPerEntry
    <2>7. OnlyMade'
      BY <2>4, <2>5, <1>now DEF server
    <2>8. \A v \in Uuids : Kept(v) => Kept(v)'
      BY <2>4 DEF server
    <2>9. ASSUME NEW q \in Pages, NEW g \in hand'[q], g.what = "stop" PROVE Kept(g.uuid)'
      <3>1. q # p /\ hand'[q] = hand[q]
        BY <2>5
      <3>2. g \in hand[q] /\ g.uuid \in Uuids
        BY <3>1, <1>type DEF TypeOK, Doing
      <3> QED BY <3>2, <2>8, <2>9, <1>now
    <2>10. AnswersAreTrue'
      BY <2>4, <1>now DEF server
    <2> QED BY <2>4, <2>6, <2>7, <2>9, <2>10
  <1>9. ASSUME NEW p \in Pages, AskFlush(p) PROVE Goal
    BY <1>9, <1>type, <1>now DEF AskFlush, phone, server, OneRowPerEntry, StoreIsKeyed
  <1>10. ASSUME NEW p \in Pages, BeginFlush(p) PROVE Goal
    BY <1>10, <1>type, <1>now DEF BeginFlush, Waiting, phone, server, TypeOK, OneRowPerEntry, StoreIsKeyed
  <1>11. ASSUME NEW p \in Pages, Post(p) PROVE Goal
    <2>1. PICK c \in todo[p] : /\ out' = [out EXCEPT ![p] = {c}]
                               /\ todo' = [todo EXCEPT ![p] = @ \ {c}]
      BY <1>11 DEF Post, Oldest
    <2>2. UNCHANGED <<phone, shown, hand, due, answer, strays, server>> /\ answer[p] # "ok"
      BY <1>11, <1>now DEF Post, OneOut
    <2>3. \A q \in Pages : /\ out'[q] = IF q = p THEN {c} ELSE out[q]
                           /\ todo'[q] = IF q = p THEN todo[p] \ {c} ELSE todo[q]
      BY <2>1, <1>type DEF TypeOK
    <2>4. NothingLost' /\ OneRowPerEntry' /\ StopsAreCommitted' /\ StoreIsKeyed'
      BY <2>2, <1>now DEF phone, server, OneRowPerEntry, StoreIsKeyed
    <2>5. OnlyMade' /\ AnswersAreTrue'
      BY <2>2, <2>3, <1>now DEF phone, server
    <2> QED BY <2>4, <2>5
  <1>12. ASSUME NEW p \in Pages, Settle(p) PROVE Goal
    <2>1. PICK c \in out[p] : \/ answer[p] = "ok" /\ Remove(c)
                              \/ answer[p] = "refused" /\ MarkRefused(c)
                              \/ answer[p] = "again" /\ UNCHANGED queue
      BY <1>12 DEF Settle
    <2>2. c \in Copy /\ c.uuid \in Uuids
      BY <1>type DEF TypeOK, Copy
    <2>3. \A v \in Uuids : Queued(v) => Queued(v)' \/ table[v] # <<>> \/ v \in letGo
      <3>1. CASE answer[p] = "ok" /\ Remove(c)
        <4>1. table[c.uuid] # <<>> \/ c.uuid \in letGo
          BY <3>1, <1>now
        <4>2. \A v \in Uuids : v # c.uuid => (Queued(v)' <=> Queued(v))
          BY <2>2, <3>1, RemoveKeeps
        <4> QED BY <4>1, <4>2
      <3>2. CASE MarkRefused(c)
        BY <1>12, <2>2, <3>2, <1>type, <1>now, MarkRefusedKeeps DEF Settle
      <3>3. CASE UNCHANGED queue
        BY <3>3
      <3> QED BY <2>1, <3>1, <3>2, <3>3
    <2>4. StoreIsKeyed' /\ \A e \in queue' : \E d \in queue : d.uuid = e.uuid
      BY <2>1, <2>2, <1>type, <1>now, <1>12, RemoveKeeps, MarkRefusedKeeps DEF Settle, StoreIsKeyed
    <2> QED BY <1>12, <2>3, <2>4, <1>type, <1>now DEF Settle, server, TypeOK, OneRowPerEntry, Doing
  <1>13. ASSUME NEW p \in Pages, GoOffline(p) PROVE Goal
    BY <1>13, <1>type, <1>now DEF GoOffline, Abandoned, phone, server, TypeOK, OneRowPerEntry, StoreIsKeyed
  <1>14. ASSUME NEW p \in Pages, PageGone(p) PROVE Goal
    BY <1>14, <1>type, <1>now DEF PageGone, Abandoned, phone, server, TypeOK, OneRowPerEntry, StoreIsKeyed
  <1>15. ASSUME NEW p \in Pages, NEW a \in Answers \ {"none"}, Serve(p, a) PROVE Goal
    <2>1. PICK c \in out[p] : Handle(c, a)
      BY <1>15 DEF Serve
    <2>2. c \in Copy /\ c.uuid \in Uuids
      BY <1>type DEF TypeOK, Copy
    <2>3. /\ OneRowPerEntry'
          /\ \A v \in Uuids : v # c.uuid => table'[v] = table[v]
          /\ table[c.uuid] # <<>> => table'[c.uuid] # <<>>
          /\ a = "ok" => table'[c.uuid] # <<>>
      BY <2>1, <2>2, <1>type, <1>now, HandleKeeps
    <2>4. UNCHANGED <<phone, shown, hand, due, todo, out, strays>>
      BY <1>15 DEF Serve
    <2>5. \A q \in Pages : answer'[q] = IF q = p THEN a ELSE answer[q]
      BY <1>15, <1>type DEF Serve, TypeOK
    <2>6. NothingLost' /\ StopsAreCommitted' /\ StoreIsKeyed'
      BY <2>2, <2>3, <2>4, <1>type, <1>now DEF phone, StoreIsKeyed, TypeOK, Doing
    <2>7. OnlyMade'
      BY <2>2, <2>3, <2>4, <1>now DEF phone
    <2>8. AnswersAreTrue'
      <3> SUFFICES ASSUME NEW q \in Pages, NEW d \in out[q], answer'[q] = "ok"
                   PROVE  table'[d.uuid] # <<>> \/ d.uuid \in letGo
        BY <2>4 DEF phone
      <3>1. d.uuid \in Uuids
        BY <1>type DEF TypeOK, Copy
      <3>2. CASE d.uuid = c.uuid /\ q = p
        BY <2>3, <2>5, <3>2
      <3>3. CASE q # p
        BY <2>2, <2>3, <2>5, <3>1, <3>3, <1>now
      <3>4. CASE q = p /\ d.uuid # c.uuid
        BY <3>4, <1>now DEF OneOut
      <3> QED BY <3>2, <3>3, <3>4
    <2> QED BY <2>3, <2>6, <2>7, <2>8
  <1>16. ASSUME NEW c \in strays, StrayArrives(c) PROVE Goal
    BY <1>16, <1>type, <1>now, HandleKeeps DEF StrayArrives, phone, page, TypeOK, StoreIsKeyed, Copy
  <1>17. ASSUME NEW c \in strays, StrayLost(c) PROVE Goal
    BY <1>17, <1>type, <1>now DEF StrayLost, phone, page, server, OneRowPerEntry, StoreIsKeyed
  <1>18. ASSUME NEW b \in Bodies, ChangeAccess(b) \/ DeleteNamed(b) PROVE Goal
    BY <1>18, <1>type, <1>now DEF ChangeAccess, DeleteNamed, phone, page, OneRowPerEntry, StoreIsKeyed
  <1>19. ASSUME NEW p \in Pages, ReadTimers(p) PROVE Goal
    BY <1>19, <1>type, <1>now DEF ReadTimers, phone, server, TypeOK, OneRowPerEntry, StoreIsKeyed
  <1>20. CASE UNCHANGED vars
    <2>1. NothingLost' /\ OneRowPerEntry' /\ StoreIsKeyed'
      BY <1>20, <1>now DEF vars, OneRowPerEntry, StoreIsKeyed
    <2>2. OnlyMade' /\ StopsAreCommitted' /\ AnswersAreTrue'
      BY <1>20, <1>now DEF vars
    <2> QED BY <2>1, <2>2, <1>type DEF IInv
  <1> QED
    BY <1>1, <1>2, <1>3, <1>4, <1>5, <1>6, <1>7, <1>8, <1>9, <1>10, <1>11, <1>12,
       <1>13, <1>14, <1>15, <1>16, <1>17, <1>18, <1>19, <1>20, <1>type DEF Next, IInv

LEMMA InvHolds == Spec => []IInv
  BY InvInit, InvStep, PTL DEF Spec

(* An entry once made is a running timer, a copy in the store or a row, unless *)
(* a person let it go (queue.ts:17): whatever pages, strays and answers do.    *)
THEOREM NothingIsLost == Spec => []NothingLost
  <1>1. IInv => NothingLost
    BY DEF IInv
  <1> QED BY <1>1, InvHolds, PTL

(* However often and from however many pages it is posted, an entry has one    *)
(* row (time/+server.ts:188).                                                  *)
THEOREM OneRow == Spec => []OneRowPerEntry
  <1>1. IInv => OneRowPerEntry
    BY DEF IInv
  <1> QED BY <1>1, InvHolds, PTL
-----------------------------------------------------------------------------
(* What may happen to the copies in the store in one step.                     *)
Stays(c) == \E d \in queue' : d.uuid = c.uuid /\ d.stamp >= c.stamp

LEMMA NewerWordStep ==
    ASSUME IInv, [Next]_vars, NEW c \in queue
    PROVE  Stays(c) \/ c.refused \/ SettledBy(c)
  <1>type. TypeOK /\ StoreIsKeyed /\ c \in Copy /\ c.stamp \in Nat
    BY DEF IInv, TypeOK, Copy, Stamps
  <1>1. ASSUME UNCHANGED queue PROVE Stays(c)
    BY <1>1, <1>type DEF Stays
  <1>2. ASSUME NEW u \in Uuids, NEW b \in Bodies, Enqueue(u, b) PROVE Stays(c)
    BY <1>2, <1>type, EnqueueKeeps DEF Stays
  <1>3. ASSUME NEW u \in Uuids, Discard(u) PROVE Stays(c) \/ c.refused
    <2>1. PICK d \in queue : d.uuid = u /\ d.refused
      BY <1>3 DEF Discard
    <2>2. CASE c.uuid = u
      BY <2>1, <2>2, <1>type DEF StoreIsKeyed
    <2>3. CASE c.uuid # u
      BY <1>3, <2>3, <1>type DEF Discard, Without, Stays
    <2> QED BY <2>2, <2>3
  <1>4. ASSUME NEW p \in Pages, Settle(p) PROVE Stays(c) \/ SettledBy(c)
    <2>1. PICK d \in out[p] : \/ answer[p] = "ok" /\ Remove(d)
                              \/ answer[p] = "refused" /\ MarkRefused(d)
                              \/ answer[p] = "again" /\ UNCHANGED queue
      BY <1>4 DEF Settle
    <2>2. d \in Copy
      BY <1>type DEF TypeOK
    <2>3. CASE answer[p] = "ok" /\ Remove(d)
      BY <2>2, <2>3, <1>type, RemoveKeeps DEF Stays, SettledBy
    <2>4. CASE MarkRefused(d)
      BY <1>4, <2>2, <2>4, <1>type, MarkRefusedKeeps DEF Stays, Settle
    <2> QED BY <2>1, <2>3, <2>4, <1>1
  <1>5. ASSUME NEW p \in Pages, SaveFix(p) PROVE Stays(c)
    <2>1. PICK h \in hand[p], b \in Bodies : Enqueue(h.uuid, b)
      BY <1>5 DEF SaveFix
    <2>2. h.uuid \in Uuids
      BY <1>type DEF TypeOK, Doing
    <2> QED BY <1>2, <2>1, <2>2
  <1> QED
    BY <1>1, <1>2, <1>3, <1>4, <1>5
    DEF Next, vars, phone, StartTimer, ReadTimers, DeleteRow, StopTimer, AddPastWork, OpenFix, DropTimer,
        AskFlush, BeginFlush, Post, GoOffline, PageGone, Serve, StrayArrives, StrayLost,
        ChangeAccess, DeleteNamed

(* One queued again while its post was out is the newer word, and stays        *)
(* (queue.ts:271): only a newer copy, its person, or the answer to a post of   *)
(* that very copy takes a copy out.                                            *)
THEOREM NewerWordIsKept == Spec => NewerWordStays
  <1>1. IInv /\ [Next]_vars =>
          [\A c \in queue :
             \/ \E d \in queue' : d.uuid = c.uuid /\ d.stamp >= c.stamp
             \/ c.refused
             \/ SettledBy(c)]_vars
    BY NewerWordStep DEF Stays
  <1> QED BY <1>1, InvHolds, PTL DEF NewerWordStays, Spec
-----------------------------------------------------------------------------
(* EntryCustody: a step moves one entry, or none, from keeper to keeper.       *)
SameFor(v) ==
    /\ (v \in running)' <=> v \in running
    /\ Queued(v)' <=> Queued(v)
    /\ (table[v] = <<>>)' <=> table[v] = <<>>
    /\ (v \in letGo)' <=> v \in letGo
    /\ (v \in made)' <=> v \in made

OnlyMoves(u) ==
    /\ \A v \in Uuids : v # u => SameFor(v)
    /\ u \in made => (u \in made)'
    /\ (table[u] # <<>> \/ u \in letGo)' => u \in made

(* Every step is about at most one client_uuid, and records nothing unmade.    *)
LEMMA OneEntryMoves ==
    ASSUME IInv, [Next]_vars
    PROVE  \/ \A v \in Uuids : SameFor(v)
           \/ \E u \in Uuids : OnlyMoves(u)
  <1>type. TypeOK /\ OnlyMade /\ StoreIsKeyed /\ OneRowPerEntry
    BY DEF IInv
  <1> USE DEF SameFor, OnlyMoves
  <1>1. ASSUME UNCHANGED <<running, queue, made, letGo, table>>
        PROVE  \A v \in Uuids : SameFor(v)
    BY <1>1 DEF Queued
  <1>2. ASSUME NEW p \in Pages, NEW u \in Uuids, StartTimer(p, u) PROVE OnlyMoves(u)
    BY <1>2, <1>type DEF StartTimer, Queued, server, OnlyMade
  <1>3. ASSUME NEW u \in Uuids, Discard(u) PROVE OnlyMoves(u)
    BY <1>3, <1>type DEF Discard, Without, Queued, server, OnlyMade
  <1>4. ASSUME NEW u \in Uuids, DeleteRow(u) PROVE OnlyMoves(u)
    BY <1>4, <1>type DEF DeleteRow, Queued, OnlyMade, TypeOK
  <1>5. ASSUME NEW u \in Uuids, NEW b \in Bodies, Enqueue(u, b),
               UNCHANGED <<running, letGo, table>>, made' \in {made, made \cup {u}}
        PROVE  OnlyMoves(u)
    BY <1>5, <1>type DEF Enqueue, Without, Queued, OnlyMade
  <1>6. ASSUME NEW p \in Pages, SaveFix(p) PROVE \E u \in Uuids : OnlyMoves(u)
    <2>1. PICK h \in hand[p], b \in Bodies : Enqueue(h.uuid, b)
      BY <1>6 DEF SaveFix
    <2>2. h.uuid \in Uuids
      BY <1>type DEF TypeOK, Doing
    <2> QED BY <1>5, <1>6, <2>1, <2>2 DEF SaveFix, server
  <1>7. ASSUME NEW p \in Pages, DropTimer(p) PROVE \E u \in Uuids : OnlyMoves(u)
    <2>1. PICK h \in hand[p] : running' = running \ {h.uuid}
      BY <1>7 DEF DropTimer
    <2>2. h.uuid \in Uuids
      BY <1>type DEF TypeOK, Doing
    <2>3. OnlyMoves(h.uuid)
      BY <1>7, <2>1, <2>2, <1>type DEF DropTimer, Queued, OnlyMade, server
    <2> QED BY <2>2, <2>3
  <1>8. ASSUME NEW p \in Pages, Settle(p) PROVE \E u \in Uuids : OnlyMoves(u)
    <2>1. PICK c \in out[p] : Remove(c) \/ MarkRefused(c) \/ UNCHANGED queue
      BY <1>8 DEF Settle
    <2>2. c \in Copy /\ c.uuid \in Uuids
      BY <1>type DEF TypeOK, Copy
    <2>3. \A v \in Uuids : v # c.uuid => (Queued(v)' <=> Queued(v))
      BY <1>8, <2>1, <2>2, <1>type, RemoveKeeps, MarkRefusedKeeps DEF Settle, Queued
    <2>4. OnlyMoves(c.uuid)
      BY <1>8, <2>2, <2>3, <1>type DEF Settle, OnlyMade, server
    <2> QED BY <2>2, <2>4
  <1>9. ASSUME NEW c \in Copy, NEW a, Handle(c, a), c.uuid \in made,
               UNCHANGED <<running, queue, made, letGo>>
        PROVE  OnlyMoves(c.uuid)
    BY <1>9, <1>type, HandleKeeps DEF Queued, OnlyMade
  <1>10. ASSUME NEW p \in Pages, NEW a \in Answers, Serve(p, a)
         PROVE  \E u \in Uuids : OnlyMoves(u)
    <2>1. PICK c \in out[p] : Handle(c, a)
      BY <1>10 DEF Serve
    <2>2. c \in Copy /\ c.uuid \in Uuids /\ c.uuid \in made
      BY <1>type DEF TypeOK, Copy, OnlyMade
    <2> QED BY <1>9, <1>10, <2>1, <2>2 DEF Serve, phone
  <1>11. ASSUME NEW c \in strays, StrayArrives(c) PROVE \E u \in Uuids : OnlyMoves(u)
    <2>1. PICK a \in Answers : Handle(c, a)
      BY <1>11 DEF StrayArrives
    <2>2. c \in Copy /\ c.uuid \in Uuids /\ c.uuid \in made
      BY <1>type DEF TypeOK, Copy, OnlyMade
    <2> QED BY <1>9, <1>11, <2>1, <2>2 DEF StrayArrives, phone
  <1>12. ASSUME NEW p \in Pages, NEW u \in Uuids, StopTimer(p, u) \/ AddPastWork(p, u)
         PROVE  OnlyMoves(u)
    BY <1>5, <1>12 DEF StopTimer, AddPastWork, server
  <1> QED
    BY <1>1, <1>2, <1>3, <1>4, <1>6, <1>7, <1>8, <1>10, <1>11, <1>12
    DEF Next, vars, phone, server, ReadTimers, OpenFix, AskFlush, BeginFlush, Post, GoOffline, PageGone,
        StrayLost, ChangeAccess, DeleteNamed

(* So KeptBy takes a step of EntryCustody, or none.                            *)
LEMMA CustodyStep ==
    ASSUME IInv, IInv', [Next]_vars
    PROVE  Custody!Next \/ UNCHANGED KeptBy
  <1>1. \A v \in Uuids : SameFor(v) => KeptBy'[v] = KeptBy[v]
    BY DEF SameFor, KeptBy
  <1>2. KeptBy = [v \in Uuids |-> KeptBy[v]] /\ KeptBy' = [v \in Uuids |-> KeptBy'[v]]
    BY DEF KeptBy
  <1>3. CASE \A v \in Uuids : SameFor(v)
    BY <1>1, <1>2, <1>3
  <1>4. ASSUME NEW u \in Uuids, OnlyMoves(u) PROVE Custody!Next \/ UNCHANGED KeptBy
    <2>1. KeptBy' = [KeptBy EXCEPT ![u] = KeptBy'[u]]
      BY <1>1, <1>2, <1>4 DEF OnlyMoves
    <2>2. NothingLost /\ NothingLost' /\ OnlyMade
      BY DEF IInv
    <2>3. KeptBy[u] \in Custody!Keepers
      BY <2>2 DEF NothingLost, KeptBy, Custody!Keepers
    <2>4. KeptBy'[u] \in Custody!Keepers
      BY <2>2 DEF NothingLost, KeptBy, Custody!Keepers, Queued
    <2>5. KeptBy'[u] = "unmade" => KeptBy[u] = "unmade"
      BY <1>4, <2>2 DEF OnlyMoves, KeptBy, OnlyMade, Queued
    <2>6. KeptBy[u] = "unmade" => KeptBy'[u] \in {"unmade", "phone"}
      BY <1>4, <2>2, <2>4 DEF OnlyMoves, KeptBy, Custody!Keepers
    <2>7. CASE KeptBy'[u] = KeptBy[u]
      BY <1>2, <2>1, <2>7
    <2>8. CASE KeptBy'[u] # KeptBy[u]
      <3>1. \/ Custody!Make(u) \/ Custody!Arrive(u)
            \/ Custody!LetGo(u) \/ Custody!ComeBack(u)
        BY <2>1, <2>3, <2>4, <2>5, <2>6, <2>8
        DEF Custody!Keepers, Custody!Make, Custody!Arrive, Custody!LetGo, Custody!ComeBack,
            Custody!Pass
      <3> QED BY <3>1 DEF Custody!Next
    <2> QED BY <2>7, <2>8
  <1> QED BY <1>3, <1>4, OneEntryMoves

(* The queue implements EntryCustody: an entry passes between the phone, the   *)
(* book and its person's having let it go, and is never in nobody's keeping.   *)
THEOREM CustodyIsKept == Spec => CustodyKept
  <1>1. Init => Custody!Init
    BY DEF Init, Custody!Init, KeptBy, Queued
  <1>2. IInv /\ IInv' /\ [Next]_vars => [Custody!Next]_KeptBy
    BY CustodyStep
  <1> QED BY <1>1, <1>2, InvHolds, PTL DEF CustodyKept, Custody!Spec, Spec
-----------------------------------------------------------------------------
(* One page alone flushes: what its flush has still to post is waiting, under  *)
(* uuids of their own, and none of them is the one it waits on an answer for.  *)
IsWaiting(u) == \E d \in Waiting : d.uuid = u

FlushFits ==
    \A p \in Pages :
        /\ \A c \in todo[p] : IsWaiting(c.uuid)
        /\ \A c, e \in todo[p] : c.uuid = e.uuid => c = e
        /\ \A c \in todo[p], e \in out[p] : c.uuid # e.uuid

(* What a write to the store leaves waiting.                                   *)
LEMMA StillWaiting ==
    ASSUME TypeOK, StoreIsKeyed, NEW v, IsWaiting(v)
    PROVE  /\ UNCHANGED queue => IsWaiting(v)'
           /\ \A u \in Uuids, b \in Bodies : Enqueue(u, b) => IsWaiting(v)'
           /\ \A u \in Uuids : Discard(u) => IsWaiting(v)'
           /\ \A c \in Copy : c.uuid # v /\ (Remove(c) \/ MarkRefused(c)) => IsWaiting(v)'
  <1>1. PICK d \in queue : ~d.refused /\ d.uuid = v
    BY DEF IsWaiting, Waiting
  <1>2. ASSUME d \in queue' PROVE IsWaiting(v)'
    BY <1>1, <1>2 DEF IsWaiting, Waiting
  <1>3. ASSUME NEW u \in Uuids, NEW b \in Bodies, Enqueue(u, b) PROVE IsWaiting(v)'
    <2> DEFINE new == [uuid |-> u, stamp |-> clock + 1, body |-> b, refused |-> FALSE]
    <2>1. new \in queue' /\ new.uuid = u /\ ~new.refused
      BY <1>3 DEF Enqueue
    <2>2. u # v => d \in queue'
      BY <1>1, <1>3 DEF Enqueue, Without
    <2> HIDE DEF new
    <2> QED BY <1>2, <2>1, <2>2 DEF IsWaiting, Waiting
  <1>4. ASSUME NEW u \in Uuids, Discard(u) PROVE IsWaiting(v)'
    <2>1. PICK e \in queue : e.uuid = u /\ e.refused
      BY <1>4 DEF Discard
    <2>2. u # v
      BY <1>1, <2>1 DEF StoreIsKeyed
    <2> QED BY <1>1, <1>2, <1>4, <2>2 DEF Discard, Without
  <1>5. ASSUME NEW c \in Copy, c.uuid # v, Remove(c) \/ MarkRefused(c) PROVE IsWaiting(v)'
    BY <1>1, <1>2, <1>5 DEF Remove, MarkRefused, Without
  <1>6. UNCHANGED queue => IsWaiting(v)'
    BY <1>1, <1>2
  <1> QED BY <1>3, <1>4, <1>5, <1>6

LEMMA FlushStep ==
    ASSUME \A p, q \in Pages : p = q, IInv, FlushFits, [Next]_vars
    PROVE  FlushFits'
  <1>type. TypeOK /\ StoreIsKeyed /\ OneOut
    BY DEF IInv
  <1>fits. \A p \in Pages : todo[p] \in SUBSET Copy /\ out[p] \in SUBSET Copy
    BY <1>type DEF TypeOK
  \* Where the flush goes no further, it is enough that the waiting still are.
  <1>1. ASSUME UNCHANGED <<todo, out>>,
               \A p \in Pages : \A c \in todo[p] : IsWaiting(c.uuid) => IsWaiting(c.uuid)'
        PROVE  FlushFits'
    BY <1>1 DEF FlushFits
  <1>2. ASSUME UNCHANGED <<todo, out, queue>> PROVE FlushFits'
    BY <1>1, <1>2, <1>type, StillWaiting
  <1>3. ASSUME UNCHANGED <<todo, out>>, NEW u \in Uuids, NEW b \in Bodies, Enqueue(u, b)
        PROVE  FlushFits'
    BY <1>1, <1>3, <1>type, StillWaiting
  <1>4. ASSUME NEW u \in Uuids, Discard(u) PROVE FlushFits'
    <2>1. UNCHANGED <<todo, out>>
      BY <1>4 DEF Discard, page
    <2> QED BY <1>1, <1>4, <2>1, <1>type, StillWaiting
  <1>5. ASSUME NEW p \in Pages, BeginFlush(p) PROVE FlushFits'
    <2>1. /\ todo' = [todo EXCEPT ![p] = Waiting] /\ UNCHANGED <<out, queue>> /\ out[p] = {}
      BY <1>5 DEF BeginFlush, Idle, phone
    <2>2. \A q \in Pages : todo'[q] = Waiting /\ out'[q] = {}
      BY <2>1, <1>type DEF TypeOK
    <2>3. Waiting' = Waiting /\ \A c, e \in Waiting : c.uuid = e.uuid => c = e
      BY <2>1, <1>type DEF Waiting, StoreIsKeyed
    <2> QED BY <2>2, <2>3 DEF FlushFits, IsWaiting
  <1>6. ASSUME NEW p \in Pages, Post(p) PROVE FlushFits'
    <2>1. PICK c \in todo[p] : /\ out' = [out EXCEPT ![p] = {c}]
                               /\ todo' = [todo EXCEPT ![p] = @ \ {c}]
      BY <1>6 DEF Post, Oldest
    <2>2. UNCHANGED queue
      BY <1>6 DEF Post, phone
    <2>3. \A q \in Pages : todo'[q] = todo[p] \ {c} /\ out'[q] = {c}
      BY <2>1, <1>type DEF TypeOK
    <2>4. Waiting' = Waiting
      BY <2>2 DEF Waiting
    <2> QED BY <2>3, <2>4 DEF FlushFits, IsWaiting
  <1>7. ASSUME NEW p \in Pages, Settle(p) PROVE FlushFits'
    <2>1. PICK d \in out[p] : \/ answer[p] = "ok" /\ Remove(d)
                              \/ answer[p] = "refused" /\ MarkRefused(d)
                              \/ answer[p] = "again" /\ UNCHANGED queue
      BY <1>7 DEF Settle
    <2>2. /\ todo' = todo /\ \A q \in Pages : out'[q] = {}
      BY <1>7, <1>type DEF Settle, TypeOK
    <2>3. d \in Copy
      BY <1>fits
    <2>4. ASSUME NEW q \in Pages, NEW c \in todo[q] PROVE IsWaiting(c.uuid)'
      <3>1. IsWaiting(c.uuid) /\ c.uuid # d.uuid
        BY DEF FlushFits
      <3> QED BY <2>1, <2>3, <3>1, <1>type, StillWaiting
    <2> QED BY <2>2, <2>4 DEF FlushFits
  <1>8. ASSUME NEW p \in Pages, GoOffline(p) \/ PageGone(p) PROVE FlushFits'
    <2>1. \A q \in Pages : todo'[q] = {} /\ out'[q] = {}
      BY <1>8, <1>type DEF GoOffline, PageGone, TypeOK
    <2> QED BY <2>1 DEF FlushFits
  <1>9. ASSUME NEW p \in Pages, NEW u \in Uuids, StopTimer(p, u) \/ AddPastWork(p, u)
        PROVE  FlushFits'
    BY <1>3, <1>9 DEF StopTimer, AddPastWork
  <1>10. ASSUME NEW p \in Pages, SaveFix(p) PROVE FlushFits'
    <2>1. PICK h \in hand[p] : \E b \in Bodies : Enqueue(h.uuid, b)
      BY <1>10 DEF SaveFix
    <2>2. h.uuid \in Uuids
      BY <1>type DEF TypeOK, Doing
    <2> QED BY <1>3, <1>10, <2>1, <2>2 DEF SaveFix
  <1> QED
    BY <1>2, <1>4, <1>5, <1>6, <1>7, <1>8, <1>9, <1>10
    DEF Next, vars, phone, page, StartTimer, ReadTimers, DeleteRow, OpenFix, DropTimer,
        AskFlush, Serve, StrayArrives, StrayLost, ChangeAccess, DeleteNamed

(* What goes out is what the flush had still to post.                          *)
LEMMA PostStep ==
    ASSUME IInv, FlushFits, [Next]_vars, NEW p \in Pages, NEW c \in out'[p] \ out[p]
    PROVE  \E d \in Waiting : d.uuid = c.uuid
  <1>type. TypeOK
    BY DEF IInv
  <1>1. ASSUME NEW q \in Pages, Post(q) PROVE c \in todo[p]
    BY <1>1, <1>type DEF Post, Oldest, TypeOK
  <1>2. ASSUME NEW q \in Pages, Settle(q) \/ GoOffline(q) \/ PageGone(q) PROVE FALSE
    BY <1>2, <1>type DEF Settle, GoOffline, PageGone, TypeOK
  <1>3. c \in todo[p]
    BY <1>1, <1>2
    DEF Next, vars, phone, page, StartTimer, ReadTimers, DeleteRow, OpenFix, DropTimer, StopTimer,
        AddPastWork, SaveFix, Discard, BeginFlush, AskFlush, Serve, StrayArrives, StrayLost,
        ChangeAccess, DeleteNamed
  <1> QED BY <1>3 DEF FlushFits, IsWaiting

(* On one page, a refused entry is not posted again until it is fixed          *)
(* (queue.ts:103), nor a discarded one at all, though the flush read the store *)
(* once, when it began: whatever a person does in the meantime, each post is   *)
(* of an entry that is waiting as it goes out.  With two pages it is not so:   *)
(* the other may have it refused between this one's read and its post.         *)
THEOREM OnlyTheWaitingArePosted ==
    ASSUME \A p, q \in Pages : p = q
    PROVE  Spec => PostsOnlyWaiting
  <1>1. Init => FlushFits
    BY DEF Init, FlushFits
  <1>2. IInv /\ FlushFits /\ [Next]_vars => FlushFits'
    BY FlushStep
  <1>3. IInv /\ FlushFits /\ [Next]_vars =>
          [\A p \in Pages : \A c \in out'[p] \ out[p] : \E d \in Waiting : d.uuid = c.uuid]_vars
    BY PostStep
  <1> QED BY <1>1, <1>2, <1>3, InvHolds, PTL DEF PostsOnlyWaiting, Spec
=============================================================================
