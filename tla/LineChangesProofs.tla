-------------------------- MODULE LineChangesProofs --------------------------
(***************************************************************************)
(* What LineMerge and LineChanges keep for any phones, connections, fields *)
(* and values, and any bounds.                                             *)
(***************************************************************************)
EXTENDS LineChanges, TLAPS

USE ActsAssumption, BoundsAssumption
-----------------------------------------------------------------------------
(* The merge.                                                              *)

LEMMA MergedIsWords ==
    ASSUME NEW base \in Words, NEW phone \in Words, NEW server_ \in Words
    PROVE  Merged(base, phone, server_) \in Words
  BY DEF Merged, Words

\* Where nothing collides, a merge differs from the server's words only in
\* fields the server left as both began, and there it has the phone's words.
THEOREM MergeOverwritesOnlyTheBase ==
    ASSUME NEW base \in Words, NEW phone \in Words, NEW server_ \in Words,
           Collided(base, phone, server_) = {},
           NEW f \in Fields, Merged(base, phone, server_)[f] # server_[f]
    PROVE  server_[f] = base[f] /\ Merged(base, phone, server_)[f] = phone[f]
  BY DEF Merged, FromPhone, Collided, Moved, Words

\* Where nothing collides, no field either side moved is back at what it was.
THEOREM MergeKeepsBothSides ==
    ASSUME NEW base \in Words, NEW phone \in Words, NEW server_ \in Words,
           Collided(base, phone, server_) = {}
    PROVE  Moved(base, Merged(base, phone, server_))
               = Moved(base, phone) \cup Moved(base, server_)
  BY DEF Merged, FromPhone, Collided, Moved, Words
-----------------------------------------------------------------------------
(* Types.                                                                  *)

LEMMA PutType ==
    ASSUME TypeOK, NEW p \in Phones, NEW entry \in Entry, Put(p, entry)
    PROVE  /\ store' \in [Phones -> SUBSET Copy]
           /\ \A q \in Phones : AtMostOne(store'[q])
           /\ clock' \in 0..MaxStamp
  <1>1. clock + 1 \in Stamps /\ clock + 1 \in 0..MaxStamp
    BY DEF TypeOK, Put, Stamps
  <1>2. [stamp |-> clock + 1, entry |-> entry, why |-> Note("waiting")] \in Copy
    BY <1>1 DEF Copy
  <1> QED BY <1>1, <1>2 DEF Put, TypeOK, AtMostOne

LEMMA AnswerType ==
    ASSUME TypeOK, NEW c \in Connections, NEW r \in Call, NEW answer \in Answers,
           Answer(c, r, answer)
    PROVE  /\ reply' \in [Phones -> SUBSET Reply]
           /\ post' \in [Phones -> SUBSET Connections]
           /\ call' \in [Connections -> SUBSET Call]
           /\ \A q \in Phones : AtMostOne(post'[q]) /\ AtMostOne(reply'[q])
           /\ \A d \in Connections : AtMostOne(call'[d])
  <1>1. [stamp |-> r.stamp, answer |-> answer] \in Reply
    BY DEF Reply, Call
  <1> QED BY <1>1 DEF Answer, TypeOK, AtMostOne

LEMMA GoOnType ==
    ASSUME TypeOK, NEW c \in Connections, NEW r \in Call, GoOn(c, r)
    PROVE  /\ call' \in [Connections -> SUBSET Call]
           /\ \A d \in Connections : AtMostOne(call'[d])
  BY DEF GoOn, TypeOK, AtMostOne

LEMMA CollidedType ==
    ASSUME TypeOK, NEW r \in Call
    PROVE  CollidedWith(r) \in Collision /\ CollidedWith(r) \in Answers
  <1>1. line.version \in 1..MaxVersion /\ line.fields \in Words
    BY DEF TypeOK, Line
  <1>2. Clash(r) \in SUBSET Fields
    BY DEF Clash, Collided, Moved
  <1>3. FromPhone(r.entry.base, r.fields, line.fields) \in SUBSET Fields
    BY DEF FromPhone, Moved
  <1>4. CollidedWith(r) \in Collision
    BY <1>1, <1>2, <1>3 DEF CollidedWith, Collision
  <1> QED BY <1>4 DEF Answers, Refusals

LEMMA HeldType ==
    ASSUME TypeOK, NEW r \in Call, NEW words \in Words
    PROVE  [r EXCEPT !.fields = words, !.seen = line.version, !.invoice = line.invoice] \in Call
  <1>1. line.version \in 0..MaxVersion /\ line.invoice \in 1..MaxInvoice
    BY DEF TypeOK, Line
  <1>2. ASSUME NEW v \in 0..MaxVersion, NEW i \in 1..MaxInvoice
        PROVE  [r EXCEPT !.fields = words, !.seen = v, !.invoice = i] \in Call
    <2> DEFINE q == [r EXCEPT !.fields = words, !.seen = v, !.invoice = i]
    <2>1. q \in [stamp: Stamps, entry: Entry, fields: Words, attempt: 0..Retries,
                 seen: 0..MaxVersion, invoice: 0..MaxInvoice]
      <3>1. i \in 0..MaxInvoice
        BY BoundsAssumption
      <3> QED BY <3>1 DEF Call
    <2>2. q.seen # 0 => q.invoice # 0
      BY DEF Call
    <2> HIDE DEF q
    <2>3. q \in Call
      BY <2>1, <2>2 DEF Call
    <2> QED BY <2>3 DEF q
  <1> QED BY <1>1, <1>2

LEMMA RewrittenType ==
    ASSUME TypeOK, NEW words \in Words, NEW more \in BOOLEAN,
           Rewritten(words, more).version <= MaxVersion
    PROVE  Rewritten(words, more) \in Line
  <1> DEFINE v == IF words = line.fields /\ ~more THEN line.version ELSE line.version + 1
  <1>1. line \in Line
    BY DEF TypeOK
  <1>2. Rewritten(words, more).version = v
    BY <1>1 DEF Rewritten, Line
  <1>3. v \in 1..MaxVersion
    BY <1>1, <1>2 DEF Line
  <1>4. \A w \in 1..MaxVersion : [line EXCEPT !.fields = words, !.version = w] \in Line
    BY <1>1 DEF Line
  <1> QED BY <1>1, <1>2, <1>3, <1>4 DEF Rewritten, Line

LEMMA PicksType ==
    ASSUME TypeOK, NEW p \in Phones, KeepPicks(p)
    PROVE  \E entry \in Entry : Put(p, entry)
  <1>1. PICK copy \in store[p], picks \in Words : KeepPicks(p)!1!(copy, picks)
    BY DEF KeepPicks
  <1> DEFINE met == copy.why
             words == [f \in Fields |->
                 IF f \in met.clash THEN picks[f]
                 ELSE IF f \in met.mine THEN copy.entry.fields[f] ELSE met.server[f]]
  <1>2. copy \in Copy /\ copy.entry \in Entry
    BY DEF TypeOK, Copy
  <1>3. met \in Collision
    BY <1>1, <1>2 DEF Copy, Refusals, Note
  <1>4. met.version \in 1..MaxVersion /\ met.server \in Words
    BY <1>3 DEF Collision
  <1>5. words \in Words
    BY <1>2, <1>4 DEF Words, Entry
  <1>6. [copy.entry EXCEPT !.version = met.version, !.base = met.server, !.fields = words] \in Entry
    BY <1>2, <1>4, <1>5 DEF Entry
  <1> QED BY <1>1, <1>6

LEMMA SettledType ==
    ASSUME NEW held \in SUBSET Copy, AtMostOne(held), NEW r \in Reply
    PROVE  Settled(held, r) \in SUBSET Copy /\ AtMostOne(Settled(held, r))
  <1>1. CASE r.answer = Note("ok")
    BY <1>1 DEF Settled, AtMostOne
  <1>2. CASE r.answer # Note("ok")
    <2>1. \A d \in held : r.answer # Note("again") => [d EXCEPT !.why = r.answer] \in Copy
      BY <1>2 DEF Copy, Reply, Answers
    <2> QED BY <1>2, <2>1 DEF Settled, AtMostOne
  <1> QED BY <1>1, <1>2

LEMMA NotesAreAnswers ==
    \A what \in {"ok", "again", "plain", "removed", "changed"} : Note(what) \in Answers
  BY DEF Answers, Refusals

\* What a step of a handler leaves alone, and the two ways it ends.
LEMMA HandlerType ==
    ASSUME TypeOK, NEW c \in Connections, NEW r \in call[c], UNCHANGED page,
           line' \in Line, sent' = sent, landed' = landed \/ landed' = landed \cup {r.stamp},
           \/ \E answer \in Answers : Answer(c, r, answer)
           \/ \E q \in Call : GoOn(c, q)
    PROVE  TypeOK'
  <1>1. r \in Call /\ r.stamp \in Stamps
    BY DEF TypeOK, Call
  <1>2. landed' \subseteq Stamps
    BY <1>1 DEF TypeOK
  <1>3. /\ reply' \in [Phones -> SUBSET Reply]
        /\ post' \in [Phones -> SUBSET Connections]
        /\ call' \in [Connections -> SUBSET Call]
        /\ \A q \in Phones : AtMostOne(post'[q]) /\ AtMostOne(reply'[q])
        /\ \A d \in Connections : AtMostOne(call'[d])
    BY <1>1, AnswerType, GoOnType DEF GoOn, TypeOK
  <1> QED BY <1>2, <1>3 DEF TypeOK, page

LEMMA TypeStep == TypeOK /\ [Next]_vars => TypeOK'
  <1> SUFFICES ASSUME TypeOK, [Next]_vars PROVE TypeOK'
    OBVIOUS
  <1>1. ASSUME NEW p \in Phones, Load(p) PROVE TypeOK'
    <2>1. Current \in Save
      BY DEF TypeOK, Current, Save, Line
    <2> QED BY <1>1, <2>1 DEF TypeOK, Load, server
  <1>2. ASSUME NEW p \in Phones, BeginSave(p) PROVE TypeOK'
    <2>1. PICK act \in Acts \ {"restore"}, words \in Words,
               from \in IF Began(p) = {} THEN {shown[p]} ELSE Began(p) :
            hand' = [hand EXCEPT ![p] =
               {[act |-> act, version |-> from.version, base |-> from.fields,
                 fields |-> words, force |-> FALSE]}]
      BY <1>2 DEF BeginSave
    <2>2. from.version \in 1..MaxVersion /\ from.fields \in Words
      <3>1. CASE Began(p) = {}
        BY <2>1, <3>1 DEF TypeOK, Save
      <3>2. CASE Began(p) # {}
        <4>1. PICK d \in store[p] : from = [version |-> d.entry.version, fields |-> d.entry.base]
          BY <2>1, <3>2 DEF Began
        <4> QED BY <4>1 DEF TypeOK, Copy, Entry
      <3> QED BY <3>1, <3>2
    <2>3. [act |-> act, version |-> from.version, base |-> from.fields,
           fields |-> words, force |-> FALSE] \in Entry
      BY <2>2 DEF Entry
    <2>4. \E e \in Entry : hand' = [hand EXCEPT ![p] = {e}]
      BY <2>1, <2>3
    <2> QED BY <1>2, <2>4 DEF TypeOK, BeginSave, AtMostOne, server
  <1>3. ASSUME NEW p \in Phones, CommitSave(p) PROVE TypeOK'
    <2>1. PICK entry \in hand[p] : Put(p, entry)
      BY <1>3 DEF CommitSave
    <2>2. entry \in Entry
      BY DEF TypeOK
    <2> QED BY <1>3, <2>1, <2>2, PutType DEF TypeOK, CommitSave, AtMostOne, server
  <1>4. ASSUME NEW p \in Phones, KeepPicks(p) PROVE TypeOK'
    <2>1. \E entry \in Entry : Put(p, entry)
      BY <1>4, PicksType
    <2> QED BY <1>4, <2>1, PutType DEF TypeOK, KeepPicks, server
  <1>5. ASSUME NEW p \in Phones, OffAnyway(p) PROVE TypeOK'
    <2>1. PICK copy \in store[p] : Put(p, [copy.entry EXCEPT !.force = TRUE])
      BY <1>5 DEF OffAnyway
    <2>2. copy.entry \in Entry
      BY DEF TypeOK, Copy
    <2>3. [copy.entry EXCEPT !.force = TRUE] \in Entry
      BY <2>2 DEF Entry
    <2> QED BY <1>5, <2>1, <2>3, PutType DEF TypeOK, OffAnyway, server
  <1>6. ASSUME NEW p \in Phones, PutBack(p) PROVE TypeOK'
    <2>1. PICK copy \in store[p] : Put(p, [copy.entry EXCEPT !.act = "restore"])
      BY <1>6 DEF PutBack
    <2>2. [copy.entry EXCEPT !.act = "restore"] \in Entry
      BY <1>6 DEF PutBack, TypeOK, Copy, Entry
    <2> QED BY <1>6, <2>1, <2>2, PutType DEF TypeOK, PutBack, server
  <1>7. ASSUME NEW p \in Phones, LetGo(p) PROVE TypeOK'
    BY <1>7 DEF TypeOK, LetGo, AtMostOne, server
  <1>8. ASSUME NEW p \in Phones, NEW c \in Connections, Post(p, c) PROVE TypeOK'
    <2>1. PICK copy \in store[p] : call' = [call EXCEPT ![c] =
               {[stamp |-> copy.stamp, entry |-> copy.entry, fields |-> copy.entry.fields,
                 attempt |-> 0, seen |-> 0, invoice |-> 0]}]
      BY <1>8 DEF Post
    <2>2. [stamp |-> copy.stamp, entry |-> copy.entry, fields |-> copy.entry.fields,
           attempt |-> 0, seen |-> 0, invoice |-> 0] \in Call
      BY DEF TypeOK, Copy, Entry, Call
    <2> QED BY <1>8, <2>1, <2>2 DEF TypeOK, Post, AtMostOne, server, page
  <1>9. ASSUME NEW p \in Phones, Settle(p) PROVE TypeOK'
    <2>1. PICK r \in reply[p] : store' = [store EXCEPT ![p] = Settled(@, r)]
      BY <1>9 DEF Settle
    <2>2. Settled(store[p], r) \in SUBSET Copy /\ AtMostOne(Settled(store[p], r))
      BY SettledType DEF TypeOK
    <2> QED BY <1>9, <2>1, <2>2 DEF TypeOK, Settle, AtMostOne, server
  <1>10. ASSUME NEW p \in Phones, Offline(p) PROVE TypeOK'
    BY <1>10 DEF TypeOK, Offline, AtMostOne, server, page
  <1>11. ASSUME NEW c \in Connections, StrayLost(c) PROVE TypeOK'
    BY <1>11 DEF TypeOK, StrayLost, AtMostOne, server, page
  <1>12. ASSUME NEW c \in Connections, ReadLine(c) PROVE TypeOK'
    <2>1. PICK r \in call[c] : ReadLine(c)!1!(r)
      BY <1>12 DEF ReadLine
    <2>2. r \in Call /\ line \in Line
      BY DEF TypeOK
    <2>3. MergedWith(r) \in Words
      BY <2>2, MergedIsWords DEF MergedWith, Call, Entry, Line
    <2>4. (\E answer \in Answers : Answer(c, r, answer)) \/ (\E q \in Call : GoOn(c, q))
      BY <2>1, <2>2, <2>3, NotesAreAnswers, CollidedType, HeldType DEF Hold
    <2> QED BY <1>12, <2>2, <2>4, HandlerType DEF ReadLine, server
  <1>13. ASSUME NEW c \in Connections, WriteLine(c) PROVE TypeOK'
    <2>1. PICK r \in call[c] : WriteLine(c)!1!(r)
      BY <1>13 DEF WriteLine
    <2>2. r \in Call /\ line \in Line
      BY DEF TypeOK
    <2>3. r.attempt < Retries =>
              [r EXCEPT !.seen = 0, !.invoice = 0, !.attempt = @ + 1] \in Call
      <3>1. ASSUME NEW n \in 0..Retries
            PROVE  [r EXCEPT !.seen = 0, !.invoice = 0, !.attempt = n] \in Call
        <4> DEFINE q == [r EXCEPT !.seen = 0, !.invoice = 0, !.attempt = n]
        <4>1. q \in [stamp: Stamps, entry: Entry, fields: Words, attempt: 0..Retries,
                     seen: 0..MaxVersion, invoice: 0..MaxInvoice]
          BY <2>2, 0 \in 0..MaxVersion, 0 \in 0..MaxInvoice DEF Call
        <4>2. q.seen = 0
          BY <2>2 DEF Call
        <4> QED BY <4>1, <4>2 DEF Call
      <3>2. r.attempt \in 0..Retries
        BY <2>2 DEF Call
      <3>3. r.attempt < Retries => r.attempt + 1 \in 0..Retries
        BY <3>2
      <3> QED BY <3>1, <3>2, <3>3
    <2>4. (\E answer \in Answers : Answer(c, r, answer)) \/ (\E q \in Call : GoOn(c, q))
      BY <2>1, <2>3, NotesAreAnswers DEF ReadAgain
    <2>5. line' \in Line
      <3>1. ASSUME NEW more \in BOOLEAN, line' = Rewritten(r.fields, more),
                   line'.version <= MaxVersion
            PROVE  line' \in Line
        BY <2>2, <3>1, RewrittenType DEF Call
      <3> QED BY <2>1, <2>2, <3>1
    <2> QED BY <1>13, <2>1, <2>4, <2>5, HandlerType DEF WriteLine
  <1>14. ASSUME NEW c \in Connections, ReadRemoval(c) PROVE TypeOK'
    <2>1. PICK r \in call[c] : ReadRemoval(c)!1!(r)
      BY <1>14 DEF ReadRemoval
    <2>2. r \in Call /\ line \in Line /\ r.fields \in Words
      BY DEF TypeOK, Call
    <2>3. (\E answer \in Answers : Answer(c, r, answer)) \/ (\E q \in Call : GoOn(c, q))
      BY <2>1, <2>2, NotesAreAnswers, HeldType DEF Hold
    <2> QED BY <1>14, <2>1, <2>2, <2>3, HandlerType DEF ReadRemoval
  <1>15. ASSUME NEW c \in Connections, WriteRemoval(c) PROVE TypeOK'
    <2>1. PICK r \in call[c] : WriteRemoval(c)!1!(r)
      BY <1>15 DEF WriteRemoval
    <2>2. line \in Line /\ [line EXCEPT !.on = FALSE] \in Line
      BY DEF TypeOK, Line
    <2>3. \E answer \in Answers : Answer(c, r, answer)
      BY <2>1, NotesAreAnswers
    <2> QED BY <1>15, <2>1, <2>2, <2>3, HandlerType DEF WriteRemoval
  <1>16. ASSUME NEW c \in Connections, ReadRestore(c) PROVE TypeOK'
    <2>1. PICK r \in call[c] : ReadRestore(c)!1!(r)
      BY <1>16 DEF ReadRestore
    <2>2. r \in Call /\ line \in Line /\ r.fields \in Words
      BY DEF TypeOK, Call
    <2>3. (\E answer \in Answers : Answer(c, r, answer)) \/ (\E q \in Call : GoOn(c, q))
      BY <2>1, <2>2, NotesAreAnswers, HeldType DEF Hold
    <2> QED BY <1>16, <2>2, <2>3, HandlerType DEF ReadRestore, server
  <1>17. ASSUME NEW c \in Connections, WriteRestore(c) PROVE TypeOK'
    <2>1. PICK r \in call[c] : WriteRestore(c)!1!(r)
      BY <1>17 DEF WriteRestore
    <2>2. r \in Call /\ line \in Line /\ r.fields \in Words
      BY DEF TypeOK, Call
    <2>3. \E answer \in Answers : Answer(c, r, answer)
      BY <2>1, NotesAreAnswers
    <2>4. line' \in Line
      <3>1. CASE line' = line
        BY <2>2, <3>1
      <3>2. ASSUME NEW i \in Target(r),
                   line' = [on |-> TRUE, version |-> 1, fields |-> r.fields, invoice |-> i]
            PROVE  line' \in Line
        <4>1. r.invoice \in 1..MaxInvoice
          BY <2>1, <2>2 DEF HasRead, Call
        <4>2. i \in 1..MaxInvoice
          BY <4>1 DEF Target
        <4> QED BY <2>2, <3>2, <4>2 DEF Line
      <3> QED BY <2>1, <3>1, <3>2
    <2> QED BY <1>17, <2>1, <2>3, <2>4, HandlerType DEF WriteRestore
  <1>18. CASE SendInvoice
    BY <1>18 DEF TypeOK, SendInvoice, Line, page
  <1>19. CASE UNCHANGED vars
    BY <1>19 DEF TypeOK, vars, page, server
  <1> QED BY <1>1, <1>2, <1>3, <1>4, <1>5, <1>6, <1>7, <1>8, <1>9, <1>10, <1>11, <1>12,
             <1>13, <1>14, <1>15, <1>16, <1>17, <1>18, <1>19 DEF Next

LEMMA InitType == Init => TypeOK
  <1> SUFFICES ASSUME Init PROVE TypeOK
    OBVIOUS
  <1>1. line \in Line
    <2>1. {1} \subseteq 1..MaxVersion /\ {1} \subseteq 1..MaxInvoice
      OBVIOUS
    <2> QED BY <2>1 DEF Init, Line
  <1>2. Current \in Save
    BY <1>1 DEF Line, Current, Save
  <1> QED BY <1>1, <1>2 DEF Init, TypeOK, AtMostOne

\* Whatever a variable holds is what the code could hold there, and no phone or
\* connection holds two of anything.
THEOREM TypeCorrect == Spec => []TypeOK
  BY InitType, TypeStep, PTL DEF Spec
-----------------------------------------------------------------------------
(* Versions.  A line put back starts at its first version again, so what   *)
(* follows is of lines that nobody puts back.                              *)

\* What a change is about to write differs from the line only where the line
\* still says what the change began from.
KnownRead(r) ==
    /\ r.seen <= line.version
    /\ r.entry.act = "change" /\ r.seen = line.version =>
           \A f \in Fields : r.fields[f] # line.fields[f] => line.fields[f] = r.entry.base[f]

ReadsAreKnown ==
    line.on => \A c \in Connections : \A r \in call[c] : KnownRead(r)

IInv == TypeOK /\ VersionNamesFields /\ ReadsAreKnown

\* A step leaves the line, takes it off, or counts a save.
LineAdvances ==
    /\ line'.on => line.on
    /\ line'.on => line' = line \/ line'.version > line.version

LEMMA FaithfulStays ==
    ASSUME TypeOK, TypeOK', LineAdvances, line'.on, NEW v \in 1..MaxVersion, NEW words,
           Faithful(v, words)
    PROVE  Faithful(v, words)'
  BY DEF Faithful, LineAdvances, TypeOK, Line

LEMMA FaithfulWhyStays ==
    ASSUME TypeOK, TypeOK', LineAdvances, line'.on, NEW why \in {Note("waiting")} \cup Answers,
           FaithfulWhy(why)
    PROVE  FaithfulWhy(why)'
  <1> SUFFICES ASSUME why.what = "collided" PROVE Faithful(why.version, why.server)'
    BY DEF FaithfulWhy
  <1>1. why \in Collision
    BY DEF Answers, Refusals, Note
  <1> QED BY <1>1, FaithfulStays DEF FaithfulWhy, Collision

\* Whatever a step does not write stays faithful.
LEMMA PageStays ==
    ASSUME IInv, TypeOK', LineAdvances, line'.on, UNCHANGED page
    PROVE  \A p \in Phones :
            /\ Faithful(shown[p].version, shown[p].fields)'
            /\ \A e \in hand'[p] : Faithful(e.version, e.base)'
            /\ \A d \in store'[p] : Faithful(d.entry.version, d.entry.base)' /\ FaithfulWhy(d.why)'
  <1> SUFFICES ASSUME NEW p \in Phones
               PROVE  /\ Faithful(shown[p].version, shown[p].fields)'
                      /\ \A e \in hand[p] : Faithful(e.version, e.base)'
                      /\ \A d \in store[p] : /\ Faithful(d.entry.version, d.entry.base)'
                                              /\ FaithfulWhy(d.why)'
    BY DEF page
  <1>1. line.on
    BY DEF LineAdvances
  <1>2. Faithful(shown[p].version, shown[p].fields)'
    BY <1>1, FaithfulStays DEF IInv, VersionNamesFields, TypeOK, Save, page
  <1>3. ASSUME NEW e \in hand[p] PROVE Faithful(e.version, e.base)'
    BY <1>1, FaithfulStays DEF IInv, VersionNamesFields, TypeOK, Entry
  <1>4. ASSUME NEW d \in store[p]
        PROVE  Faithful(d.entry.version, d.entry.base)' /\ FaithfulWhy(d.why)'
    <2>1. d.entry.version \in 1..MaxVersion /\ d.why \in {Note("waiting")} \cup Answers
      BY DEF IInv, TypeOK, Copy, Entry, Answers
    <2> QED BY <1>1, <2>1, FaithfulStays, FaithfulWhyStays DEF IInv, VersionNamesFields
  <1> QED BY <1>2, <1>3, <1>4

LEMMA CallsStay ==
    ASSUME IInv, TypeOK', LineAdvances, line'.on, NEW d \in Connections, NEW q \in call[d]
    PROVE  Faithful(q.entry.version, q.entry.base)' /\ KnownRead(q)'
  <1>1. line.on
    BY DEF LineAdvances
  <1>2. q.entry.version \in 1..MaxVersion /\ q.seen \in 0..MaxVersion
    BY DEF IInv, TypeOK, Call, Entry
  <1>3. Faithful(q.entry.version, q.entry.base)'
    BY <1>1, <1>2, FaithfulStays DEF IInv, VersionNamesFields
  <1>4. KnownRead(q)
    BY <1>1 DEF IInv, ReadsAreKnown
  <1>5. KnownRead(q)'
    BY <1>2, <1>4 DEF KnownRead, LineAdvances, IInv, TypeOK, Line
  <1> QED BY <1>3, <1>5

LEMMA RepliesStay ==
    ASSUME IInv, TypeOK', LineAdvances, line'.on, NEW p \in Phones, NEW a \in reply[p]
    PROVE  FaithfulWhy(a.answer)'
  <1>1. line.on /\ FaithfulWhy(a.answer)
    BY DEF LineAdvances, IInv, VersionNamesFields
  <1>2. a.answer \in Answers
    BY DEF IInv, TypeOK, Reply
  <1> QED BY <1>1, <1>2, FaithfulWhyStays DEF IInv

\* A step of a handler, of which it is enough to know what it answers and what
\* it goes on with.
LEMMA HandlerFaithful ==
    ASSUME IInv, TypeOK', LineAdvances, UNCHANGED page,
           NEW c \in Connections, NEW r \in call[c],
           \/ \E answer : Answer(c, r, answer) /\ (line'.on => FaithfulWhy(answer)')
           \/ \E q : GoOn(c, q) /\ q.entry = r.entry /\ (line'.on => KnownRead(q)')
    PROVE  VersionNamesFields' /\ ReadsAreKnown'
  <1> SUFFICES ASSUME line'.on
               PROVE  /\ \A p \in Phones : \A a \in reply'[p] : FaithfulWhy(a.answer)'
                      /\ \A d \in Connections : \A q \in call'[d] :
                            Faithful(q.entry.version, q.entry.base)' /\ KnownRead(q)'
    BY PageStays DEF VersionNamesFields, ReadsAreKnown
  <1>1. CASE \E answer : Answer(c, r, answer) /\ (line'.on => FaithfulWhy(answer)')
    <2>1. PICK answer : Answer(c, r, answer) /\ FaithfulWhy(answer)'
      BY <1>1
    <2>2. ASSUME NEW p \in Phones, NEW a \in reply'[p] PROVE FaithfulWhy(a.answer)'
      <3>1. a.answer = answer \/ a \in reply[p]
        BY <2>1, <2>2 DEF Answer
      <3> QED BY <2>1, <2>2, <3>1, RepliesStay
    <2>3. ASSUME NEW d \in Connections, NEW q \in call'[d]
          PROVE  Faithful(q.entry.version, q.entry.base)' /\ KnownRead(q)'
      <3>1. q \in call[d]
        BY <2>1, <2>3 DEF Answer, IInv, TypeOK
      <3> QED BY <3>1, CallsStay
    <2> QED BY <2>2, <2>3
  <1>2. CASE \E q : GoOn(c, q) /\ q.entry = r.entry /\ (line'.on => KnownRead(q)')
    <2>1. PICK n : GoOn(c, n) /\ n.entry = r.entry /\ KnownRead(n)'
      BY <1>2
    <2>2. \A p \in Phones : \A a \in reply'[p] : FaithfulWhy(a.answer)'
      BY <2>1, RepliesStay DEF GoOn
    <2>3. ASSUME NEW d \in Connections, NEW q \in call'[d]
          PROVE  Faithful(q.entry.version, q.entry.base)' /\ KnownRead(q)'
      <3>1. q \in call[d] \/ q = n
        BY <2>1, <2>3 DEF GoOn, IInv, TypeOK
      <3>2. Faithful(r.entry.version, r.entry.base)'
        BY CallsStay
      <3> QED BY <2>1, <3>1, <3>2, CallsStay
    <2> QED BY <2>2, <2>3
  <1> QED BY <1>1, <1>2

\* A step of a phone, which leaves the line, and writes to one page or store.
LEMMA PhoneFaithful ==
    ASSUME IInv, TypeOK', UNCHANGED line, line.on,
           \A p \in Phones : shown'[p] = shown[p] \/ shown'[p] = Current,
           \A p \in Phones : \A e \in hand'[p] :
               e \in hand[p] \/ Faithful(e.version, e.base),
           \A p \in Phones : \A d \in store'[p] :
               d \in store[p] \/ (Faithful(d.entry.version, d.entry.base) /\ FaithfulWhy(d.why)),
           \A p \in Phones : reply'[p] \subseteq reply[p],
           \A c \in Connections : \A r \in call'[c] :
               r \in call[c] \/ (Faithful(r.entry.version, r.entry.base) /\ r.seen = 0)
    PROVE  VersionNamesFields' /\ ReadsAreKnown'
  <1>1. line.version \in 1..MaxVersion
    BY DEF IInv, TypeOK, Line
  <1>2. Faithful(Current.version, Current.fields)
    BY <1>1 DEF Faithful, Current
  <1>3. \A v, w : Faithful(v, w) => Faithful(v, w)'
    BY DEF Faithful
  <1>4. \A why : FaithfulWhy(why) => FaithfulWhy(why)'
    BY DEF Faithful, FaithfulWhy
  <1>5. VersionNamesFields'
    BY <1>2, <1>3, <1>4 DEF VersionNamesFields, IInv
  <1>6. ASSUME NEW c \in Connections, NEW r \in call'[c] PROVE KnownRead(r)'
    <2>1. CASE r \in call[c]
      BY <2>1 DEF IInv, ReadsAreKnown, KnownRead
    <2>2. CASE r.seen = 0
      BY <1>1, <2>2 DEF KnownRead
    <2> QED BY <1>6, <2>1, <2>2
  <1> QED BY <1>5, <1>6 DEF ReadsAreKnown

LEMMA PutFaithful ==
    ASSUME IInv, TypeOK', line.on, UNCHANGED <<server, shown, post, reply, call>>,
           NEW p \in Phones, NEW entry, Put(p, entry), Faithful(entry.version, entry.base),
           \A q \in Phones : hand'[q] \subseteq hand[q]
    PROVE  VersionNamesFields' /\ ReadsAreKnown'
  <1>1. \A q \in Phones : \A d \in store'[q] :
            d \in store[q] \/ (Faithful(d.entry.version, d.entry.base) /\ FaithfulWhy(d.why))
    BY DEF Put, FaithfulWhy, Note, IInv, TypeOK
  <1> QED BY <1>1, PhoneFaithful DEF server

\* What a handler holds after its read, merged or as it came.
LEMMA ReadIsKnown ==
    ASSUME IInv, line.on, NEW c \in Connections, NEW r \in call[c], Clash(r) = {},
           NEW f \in Fields, MergedWith(r)[f] # line.fields[f]
    PROVE  line.fields[f] = r.entry.base[f]
  <1>1. r.entry.base \in Words /\ r.fields \in Words /\ line.fields \in Words
    BY DEF IInv, TypeOK, Call, Entry, Line
  <1>2. CASE r.entry.version = line.version
    BY <1>2 DEF IInv, VersionNamesFields, Faithful
  <1>3. CASE r.entry.version # line.version
    BY <1>1, <1>3, MergeOverwritesOnlyTheBase DEF Clash, MergedWith
  <1> QED BY <1>2, <1>3

\* While the line is off, with nobody to put it back, nothing is asked of it.
LEMMA OffStaysOff ==
    ASSUME IInv, "restore" \notin Acts, [Next]_vars, line'.on
    PROVE  line.on
  <1>1. line \in Line
    BY DEF IInv, TypeOK
  <1>2. \A p \in Phones :
            \/ Load(p) \/ BeginSave(p) \/ CommitSave(p) \/ KeepPicks(p) \/ OffAnyway(p)
            \/ PutBack(p) \/ LetGo(p) \/ Settle(p) \/ Offline(p)
            \/ \E c \in Connections : Post(p, c)
            => line' = line
    BY DEF Post, Load, BeginSave, CommitSave, KeepPicks, OffAnyway, PutBack, LetGo, Settle,
           Offline, server
  <1>3. \A c \in Connections :
            StrayLost(c) \/ ReadLine(c) \/ ReadRemoval(c) => line' = line
    BY DEF StrayLost, ReadLine, ReadRemoval, server
  <1>4. ASSUME NEW c \in Connections, WriteLine(c) PROVE line.on
    BY <1>1, <1>4 DEF WriteLine, Unmoved
  <1>5. ASSUME NEW c \in Connections, WriteRemoval(c) PROVE line.on
    BY <1>1, <1>5 DEF WriteRemoval, Line
  <1>6. ASSUME NEW c \in Connections, ReadRestore(c) \/ WriteRestore(c) PROVE FALSE
    BY <1>6 DEF ReadRestore, WriteRestore, Unread, HasRead, IInv, TypeOK, Call, Entry
  <1> QED BY <1>2, <1>3, <1>4, <1>5, <1>6 DEF Next, SendInvoice, vars

LEMMA RewrittenAdvances ==
    ASSUME TypeOK, NEW words \in Words, NEW more \in BOOLEAN
    PROVE  /\ Rewritten(words, more).on = line.on
           /\ Rewritten(words, more) = line \/ Rewritten(words, more).version > line.version
           /\ Rewritten(words, more).fields = words
           /\ Rewritten(words, more).invoice = line.invoice
  <1>1. line \in Line
    BY DEF TypeOK
  <1>2. CASE words = line.fields /\ ~more
    BY <1>1, <1>2 DEF Rewritten, Line
  <1>3. CASE ~(words = line.fields /\ ~more)
    BY <1>1, <1>3 DEF Rewritten, Line
  <1> QED BY <1>2, <1>3

LEMMA FaithfulStep ==
    ASSUME IInv, "restore" \notin Acts, [Next]_vars
    PROVE  VersionNamesFields' /\ ReadsAreKnown'
  <1>1. TypeOK' /\ TypeOK
    BY TypeStep DEF IInv
  <1> SUFFICES ASSUME line'.on PROVE VersionNamesFields' /\ ReadsAreKnown'
    BY DEF VersionNamesFields, ReadsAreKnown
  <1>2. line.on
    BY OffStaysOff
  <1>3. ASSUME NEW p \in Phones, Load(p) PROVE VersionNamesFields' /\ ReadsAreKnown'
    BY <1>1, <1>2, <1>3, PhoneFaithful DEF TypeOK, Load, server
  <1>4. ASSUME NEW p \in Phones, BeginSave(p) PROVE VersionNamesFields' /\ ReadsAreKnown'
    <2>1. PICK act \in Acts \ {"restore"}, words \in Words,
               from \in IF Began(p) = {} THEN {shown[p]} ELSE Began(p) :
            hand' = [hand EXCEPT ![p] =
               {[act |-> act, version |-> from.version, base |-> from.fields,
                 fields |-> words, force |-> FALSE]}]
      BY <1>4 DEF BeginSave
    <2>2. Faithful(from.version, from.fields)
      <3>1. CASE Began(p) = {}
        BY <1>2, <2>1, <3>1 DEF IInv, VersionNamesFields
      <3>2. CASE Began(p) # {}
        <4>1. PICK d \in store[p] : from = [version |-> d.entry.version, fields |-> d.entry.base]
          BY <2>1, <3>2 DEF Began
        <4> QED BY <1>2, <4>1 DEF IInv, VersionNamesFields
      <3> QED BY <3>1, <3>2
    <2>3. \A q \in Phones : \A e \in hand'[q] : e \in hand[q] \/ Faithful(e.version, e.base)
      BY <1>1, <2>1, <2>2 DEF TypeOK
    <2> QED BY <1>1, <1>2, <1>4, <2>3, PhoneFaithful DEF BeginSave, server
  <1>5. ASSUME NEW p \in Phones, CommitSave(p) PROVE VersionNamesFields' /\ ReadsAreKnown'
    <2>1. PICK entry \in hand[p] : Put(p, entry)
      BY <1>5 DEF CommitSave
    <2>2. Faithful(entry.version, entry.base)
      BY <1>2 DEF IInv, VersionNamesFields
    <2> QED BY <1>1, <1>2, <1>5, <2>1, <2>2, PutFaithful DEF CommitSave
  <1>6. ASSUME NEW p \in Phones, KeepPicks(p) PROVE VersionNamesFields' /\ ReadsAreKnown'
    <2>1. PICK copy \in store[p], picks \in Words : KeepPicks(p)!1!(copy, picks)
      BY <1>6 DEF KeepPicks
    <2> DEFINE met == copy.why
               words == [f \in Fields |->
                   IF f \in met.clash THEN picks[f]
                   ELSE IF f \in met.mine THEN copy.entry.fields[f] ELSE met.server[f]]
               entry == [copy.entry EXCEPT !.version = met.version, !.base = met.server,
                                           !.fields = words]
    <2>2. Faithful(met.version, met.server)
      BY <1>2, <2>1 DEF IInv, VersionNamesFields, FaithfulWhy
    <2>3. entry.version = met.version /\ entry.base = met.server
      BY <1>1 DEF TypeOK, Copy, Entry
    <2>4. Put(p, entry)
      BY <2>1
    <2> HIDE DEF entry
    <2> QED BY <1>1, <1>2, <1>6, <2>2, <2>3, <2>4, PutFaithful DEF KeepPicks
  <1>7. ASSUME NEW p \in Phones, OffAnyway(p) PROVE VersionNamesFields' /\ ReadsAreKnown'
    <2>1. PICK copy \in store[p] : Put(p, [copy.entry EXCEPT !.force = TRUE])
      BY <1>7 DEF OffAnyway
    <2> DEFINE entry == [copy.entry EXCEPT !.force = TRUE]
    <2>2. entry.version = copy.entry.version /\ entry.base = copy.entry.base
      BY <1>1 DEF TypeOK, Copy, Entry
    <2>3. Faithful(entry.version, entry.base) /\ Put(p, entry)
      BY <1>2, <2>1, <2>2 DEF IInv, VersionNamesFields
    <2> HIDE DEF entry
    <2> QED BY <1>1, <1>2, <1>7, <2>3, PutFaithful DEF OffAnyway
  <1>8. ASSUME NEW p \in Phones, LetGo(p) PROVE VersionNamesFields' /\ ReadsAreKnown'
    BY <1>1, <1>2, <1>8, PhoneFaithful DEF TypeOK, LetGo, server
  <1>9. ASSUME NEW p \in Phones, NEW c \in Connections, Post(p, c)
        PROVE  VersionNamesFields' /\ ReadsAreKnown'
    <2>1. PICK copy \in store[p] : call' = [call EXCEPT ![c] =
               {[stamp |-> copy.stamp, entry |-> copy.entry, fields |-> copy.entry.fields,
                 attempt |-> 0, seen |-> 0, invoice |-> 0]}]
      BY <1>9 DEF Post
    <2>2. Faithful(copy.entry.version, copy.entry.base)
      BY <1>2 DEF IInv, VersionNamesFields
    <2>3. \A d \in Connections : \A r \in call'[d] :
              r \in call[d] \/ (Faithful(r.entry.version, r.entry.base) /\ r.seen = 0)
      BY <1>1, <2>1, <2>2 DEF TypeOK
    <2> QED BY <1>1, <1>2, <1>9, <2>3, PhoneFaithful DEF Post, server, page
  <1>10. ASSUME NEW p \in Phones, Settle(p) PROVE VersionNamesFields' /\ ReadsAreKnown'
    <2>1. PICK r \in reply[p] : store' = [store EXCEPT ![p] = Settled(@, r)]
      BY <1>10 DEF Settle
    <2>2. FaithfulWhy(r.answer)
      BY <1>2 DEF IInv, VersionNamesFields
    <2>3. ASSUME NEW d \in Settled(store[p], r)
          PROVE  Faithful(d.entry.version, d.entry.base) /\ FaithfulWhy(d.why)
      <3>1. PICK e \in store[p] : d = e \/ d = [e EXCEPT !.why = r.answer]
        BY DEF Settled
      <3>2. d.entry = e.entry /\ (d.why = e.why \/ d.why = r.answer)
        BY <1>1, <3>1 DEF TypeOK, Copy
      <3> QED BY <1>2, <2>2, <3>2 DEF IInv, VersionNamesFields
    <2>4. \A q \in Phones : \A d \in store'[q] :
              d \in store[q] \/ (Faithful(d.entry.version, d.entry.base) /\ FaithfulWhy(d.why))
      BY <1>1, <2>1, <2>3 DEF TypeOK
    <2>5. \A q \in Phones : reply'[q] \subseteq reply[q]
      BY <1>1, <1>10 DEF Settle, TypeOK
    <2> QED BY <1>1, <1>2, <1>10, <2>4, <2>5, PhoneFaithful DEF Settle, server
  <1>11. ASSUME NEW p \in Phones, Offline(p) PROVE VersionNamesFields' /\ ReadsAreKnown'
    BY <1>1, <1>2, <1>11, PhoneFaithful DEF TypeOK, Offline, server, page
  <1>12. ASSUME NEW c \in Connections, StrayLost(c) PROVE VersionNamesFields' /\ ReadsAreKnown'
    BY <1>1, <1>2, <1>12, PhoneFaithful DEF TypeOK, StrayLost, server, page
  <1>13. ASSUME NEW c \in Connections, ReadLine(c) PROVE VersionNamesFields' /\ ReadsAreKnown'
    <2>1. PICK r \in call[c] : ReadLine(c)!1!(r)
      BY <1>13 DEF ReadLine
    <2>2. LineAdvances
      BY <1>2, <1>13 DEF LineAdvances, ReadLine, server
    <2>3. CASE \E what \in {"plain", "removed"} : Answer(c, r, Note(what))
      <3>1. \E answer : Answer(c, r, answer) /\ FaithfulWhy(answer)'
        BY <2>3 DEF FaithfulWhy, Note
      <3> QED BY <1>1, <1>13, <2>2, <3>1, HandlerFaithful DEF ReadLine
    <2>4. CASE Answer(c, r, CollidedWith(r))
      <3>1. PICK answer : answer = CollidedWith(r)
        OBVIOUS
      <3>2. FaithfulWhy(answer)'
        BY <1>1, <1>13, <3>1
           DEF FaithfulWhy, CollidedWith, Faithful, ReadLine, server, TypeOK, Line
      <3> QED BY <1>1, <1>13, <2>2, <2>4, <3>1, <3>2, HandlerFaithful DEF ReadLine
    <2>5. CASE Clash(r) = {} /\ Hold(c, r, MergedWith(r))
      <3>0. PICK q : q = [r EXCEPT !.fields = MergedWith(r), !.seen = line.version,
                                   !.invoice = line.invoice]
        OBVIOUS
      <3>1. q.entry = r.entry /\ q.seen = line.version /\ q.fields = MergedWith(r)
        BY <1>1, <3>0 DEF TypeOK, Call
      <3>2. ASSUME NEW f \in Fields, MergedWith(r)[f] # line.fields[f]
            PROVE  line.fields[f] = r.entry.base[f]
        BY <1>2, <2>5, <3>2, ReadIsKnown
      <3>3. KnownRead(q)'
        BY <1>1, <1>13, <3>1, <3>2 DEF KnownRead, ReadLine, server, TypeOK, Line
      <3>4. GoOn(c, q)
        BY <2>5, <3>0 DEF Hold
      <3> QED BY <1>1, <1>13, <2>2, <3>1, <3>3, <3>4, HandlerFaithful DEF ReadLine
    <2> QED BY <2>1, <2>3, <2>4, <2>5
  <1>14. ASSUME NEW c \in Connections, WriteLine(c) PROVE VersionNamesFields' /\ ReadsAreKnown'
    <2>1. PICK r \in call[c] : WriteLine(c)!1!(r)
      BY <1>14 DEF WriteLine
    <2>2. r.fields \in Words /\ r.seen \in 0..MaxVersion
      BY <1>1 DEF TypeOK, Call
    <2>3. LineAdvances
      BY <1>1, <1>2, <2>1, <2>2, RewrittenAdvances DEF LineAdvances
    <2>4. CASE \E what \in {"ok", "plain", "again"} : Answer(c, r, Note(what))
      <3>1. \E answer : Answer(c, r, answer) /\ FaithfulWhy(answer)'
        BY <2>4 DEF FaithfulWhy, Note
      <3> QED BY <1>1, <1>14, <2>3, <3>1, HandlerFaithful DEF WriteLine
    <2>5. CASE ReadAgain(c, r) /\ UNCHANGED line
      <3>0. PICK q : q = [r EXCEPT !.seen = 0, !.invoice = 0, !.attempt = @ + 1]
        OBVIOUS
      <3>1. q.entry = r.entry /\ q.seen = 0
        BY <1>1, <3>0 DEF TypeOK, Call
      <3>2. KnownRead(q)'
        BY <1>1, <2>5, <3>1 DEF KnownRead, TypeOK, Line
      <3>3. GoOn(c, q)
        BY <2>5, <3>0 DEF ReadAgain
      <3> QED BY <1>1, <1>14, <2>3, <3>1, <3>2, <3>3, HandlerFaithful DEF WriteLine
    <2> QED BY <2>1, <2>4, <2>5
  <1>15. ASSUME NEW c \in Connections, ReadRemoval(c) PROVE VersionNamesFields' /\ ReadsAreKnown'
    <2>1. PICK r \in call[c] : ReadRemoval(c)!1!(r)
      BY <1>15 DEF ReadRemoval
    <2>2. LineAdvances
      BY <1>2, <1>15 DEF LineAdvances, ReadRemoval
    <2>3. CASE \E what \in {"changed", "plain"} : Answer(c, r, Note(what))
      <3>1. \E answer : Answer(c, r, answer) /\ FaithfulWhy(answer)'
        BY <2>3 DEF FaithfulWhy, Note
      <3> QED BY <1>1, <1>15, <2>2, <3>1, HandlerFaithful DEF ReadRemoval
    <2>4. CASE Hold(c, r, r.fields)
      <3>1. PICK q : q = [r EXCEPT !.fields = r.fields, !.seen = line.version,
                                   !.invoice = line.invoice]
        OBVIOUS
      <3>2. q.entry = r.entry /\ q.seen = line.version /\ q.entry.act = "remove"
        BY <1>1, <2>1, <3>1 DEF TypeOK, Call, Unread
      <3>3. KnownRead(q)'
        BY <1>1, <1>15, <3>2 DEF KnownRead, ReadRemoval, TypeOK, Line
      <3>4. GoOn(c, q)
        BY <2>4, <3>1 DEF Hold
      <3> QED BY <1>1, <1>15, <2>2, <3>2, <3>3, <3>4, HandlerFaithful DEF ReadRemoval
    <2> QED BY <1>2, <2>1, <2>3, <2>4
  <1>16. ASSUME NEW c \in Connections, WriteRemoval(c) PROVE VersionNamesFields' /\ ReadsAreKnown'
    <2>1. PICK r \in call[c] : WriteRemoval(c)!1!(r)
      BY <1>16 DEF WriteRemoval
    <2>2. Answer(c, r, Note("plain")) /\ line' = line
      BY <1>1, <2>1 DEF TypeOK, Line
    <2>3. LineAdvances
      BY <1>2, <2>2 DEF LineAdvances
    <2>4. \E answer : Answer(c, r, answer) /\ FaithfulWhy(answer)'
      BY <2>2 DEF FaithfulWhy, Note
    <2> QED BY <1>1, <1>16, <2>3, <2>4, HandlerFaithful DEF WriteRemoval
  <1>17. ASSUME NEW c \in Connections, ReadRestore(c) \/ WriteRestore(c) PROVE FALSE
    BY <1>17 DEF ReadRestore, WriteRestore, Unread, HasRead, IInv, TypeOK, Call, Entry
  <1>18. ASSUME NEW p \in Phones, PutBack(p) PROVE FALSE
    BY <1>18 DEF PutBack
  <1>19. CASE SendInvoice \/ UNCHANGED vars
    <2>1. UNCHANGED <<line, page, reply, call>>
      BY <1>19 DEF SendInvoice, vars, page
    <2> QED BY <1>1, <1>2, <2>1, PhoneFaithful DEF page
  <1> QED BY <1>3, <1>4, <1>5, <1>6, <1>7, <1>8, <1>9, <1>10, <1>11, <1>12, <1>13, <1>14,
             <1>15, <1>16, <1>17, <1>18, <1>19 DEF Next

LEMMA InvStep ==
    ASSUME IInv, "restore" \notin Acts, [Next]_vars
    PROVE  IInv'
  BY FaithfulStep, TypeStep DEF IInv

LEMMA InvAlways ==
    ASSUME "restore" \notin Acts
    PROVE  Spec => []IInv
  <1>1. Init => IInv
    <2> SUFFICES ASSUME Init PROVE IInv
      OBVIOUS
    <2>1. TypeOK
      BY InitType
    <2>2. VersionNamesFields
      BY <2>1 DEF Init, Current, VersionNamesFields, Faithful, TypeOK, Line
    <2> QED BY <2>1, <2>2 DEF Init, ReadsAreKnown, IInv
  <1> QED BY <1>1, InvStep, PTL DEF Spec

\* Where nobody puts a line back, a version held anywhere names the fields the
\* line had at it.
THEOREM VersionsName ==
    ASSUME "restore" \notin Acts
    PROVE  Spec => []VersionNamesFields
  BY InvAlways, PTL DEF IInv

\* The fields of a line that stays on change by no step but a change written.
LEMMA FieldsMoveByWriting ==
    ASSUME TypeOK, "restore" \notin Acts, [Next]_vars, line.on, line'.fields # line.fields
    PROVE  \E c \in Connections : WriteLine(c)
  <1>1. line \in Line
    BY DEF TypeOK
  <1>2. \A p \in Phones :
            \/ Load(p) \/ BeginSave(p) \/ CommitSave(p) \/ KeepPicks(p) \/ OffAnyway(p)
            \/ PutBack(p) \/ LetGo(p) \/ Settle(p) \/ Offline(p)
            \/ \E c \in Connections : Post(p, c)
            => line' = line
    BY DEF Post, Load, BeginSave, CommitSave, KeepPicks, OffAnyway, PutBack, LetGo, Settle,
           Offline, server
  <1>3. \A c \in Connections :
            StrayLost(c) \/ ReadLine(c) \/ ReadRemoval(c) => line' = line
    BY DEF StrayLost, ReadLine, ReadRemoval, server
  <1>4. \A c \in Connections : WriteRemoval(c) => line'.fields = line.fields
    BY <1>1 DEF WriteRemoval, Line
  <1>5. ASSUME NEW c \in Connections, ReadRestore(c) \/ WriteRestore(c) PROVE FALSE
    BY <1>5 DEF ReadRestore, WriteRestore, Unread, HasRead, TypeOK, Call, Entry
  <1> QED BY <1>2, <1>3, <1>4, <1>5 DEF Next, SendInvoice, vars

\* Where nobody puts a line back, no change writes over a value its phone did
\* not begin from, however it is merged and read again on the way.
THEOREM OnlyTheKnown ==
    ASSUME "restore" \notin Acts
    PROVE  Spec => OnlyKnownIsOverwritten
  <1>1. ASSUME IInv, [Next]_vars, NEW c \in Connections, NEW r \in call[c], Writes(c, r),
               NEW f \in Moved(line.fields, line'.fields)
        PROVE  line.fields[f] = r.entry.base[f]
    <2>1. line.fields # line'.fields /\ f \in Fields /\ line.fields[f] # line'.fields[f]
      BY <1>1 DEF Moved
    <2>2. PICK d \in Connections : WriteLine(d)
      BY <1>1, <2>1, FieldsMoveByWriting DEF Writes, IInv
    <2>3. PICK q \in call[d] : WriteLine(d)!1!(q)
      BY <2>2 DEF WriteLine
    <2>4. /\ Unmoved(q) /\ q.entry.act = "change"
          /\ \E more \in BOOLEAN : line' = Rewritten(q.fields, more)
          /\ Answer(d, q, Note("ok"))
      BY <2>1, <2>3 DEF HasRead
    <2>5. c = d
      BY <1>1, <2>4 DEF Answer, Writes, IInv, TypeOK
    <2>6. q = r
      BY <1>1, <2>5 DEF IInv, TypeOK, AtMostOne
    <2>7. line'.fields = r.fields
      BY <1>1, <2>4, <2>6, RewrittenAdvances DEF IInv, TypeOK, Call
    <2> QED BY <1>1, <2>1, <2>4, <2>6, <2>7 DEF IInv, ReadsAreKnown, KnownRead, Unmoved
  <1>2. ASSUME IInv, [Next]_vars
        PROVE  [\A c \in Connections : \A r \in call[c] :
                    Writes(c, r) => \A f \in Moved(line.fields, line'.fields) :
                                        line.fields[f] = r.entry.base[f]]_vars
    BY <1>1, <1>2
  <1> QED BY <1>2, InvAlways, PTL DEF Spec, OnlyKnownIsOverwritten

-----------------------------------------------------------------------------
(* Invoices that are out.                                                  *)

\* What a step may make of the line: nothing, or it is on a draft, or goes to one.
LEMMA LineFollows ==
    ASSUME TypeOK, [Next]_vars
    PROVE  \/ line' = line
           \/ line.on /\ line.invoice \notin sent /\ line'.invoice = line.invoice
           \/ ~line.on /\ line'.invoice \notin sent
  <1>1. line \in Line
    BY DEF TypeOK
  <1>2. ASSUME NEW p \in Phones,
               \/ Load(p) \/ BeginSave(p) \/ CommitSave(p) \/ KeepPicks(p) \/ OffAnyway(p)
               \/ PutBack(p) \/ LetGo(p) \/ Settle(p) \/ Offline(p)
               \/ \E c \in Connections : Post(p, c)
        PROVE  line' = line
    BY <1>2 DEF Load, BeginSave, CommitSave, KeepPicks, OffAnyway, PutBack, LetGo, Settle,
                Offline, Post, server
  <1>3. ASSUME NEW c \in Connections,
               StrayLost(c) \/ ReadLine(c) \/ ReadRemoval(c) \/ ReadRestore(c)
        PROVE  line' = line
    BY <1>3 DEF StrayLost, ReadLine, ReadRemoval, ReadRestore, server
  <1>4. ASSUME NEW c \in Connections, WriteLine(c)
        PROVE  \/ line' = line
               \/ line.on /\ line.invoice \notin sent /\ line'.invoice = line.invoice
    <2>1. PICK r \in call[c] : WriteLine(c)!1!(r)
      BY <1>4 DEF WriteLine
    <2>2. r.fields \in Words
      BY DEF TypeOK, Call
    <2>3. \A more \in BOOLEAN : Rewritten(r.fields, more).invoice = line.invoice
      BY <2>2, RewrittenAdvances
    <2> QED BY <2>1, <2>3 DEF Unmoved, Frozen
  <1>5. ASSUME NEW c \in Connections, WriteRemoval(c)
        PROVE  \/ line' = line
               \/ line.on /\ line.invoice \notin sent /\ line'.invoice = line.invoice
    <2>1. PICK r \in call[c] : WriteRemoval(c)!1!(r)
      BY <1>5 DEF WriteRemoval
    <2>2. CASE line.on
      BY <1>1, <2>1, <2>2 DEF Frozen, Line
    <2>3. CASE ~line.on
      BY <1>1, <2>1, <2>3 DEF Line
    <2> QED BY <2>2, <2>3
  <1>6. ASSUME NEW c \in Connections, WriteRestore(c)
        PROVE  line' = line \/ (~line.on /\ line'.invoice \notin sent)
    <2>1. PICK r \in call[c] : WriteRestore(c)!1!(r)
      BY <1>6 DEF WriteRestore
    <2>2. \A i \in Target(r) : i \notin sent
      BY DEF Target
    <2> QED BY <2>1, <2>2
  <1>7. CASE SendInvoice \/ UNCHANGED vars
    BY <1>7 DEF SendInvoice, vars
  <1> QED BY <1>2, <1>3, <1>4, <1>5, <1>6, <1>7 DEF Next

\* Changes, removals and lines put back, each written after it was read, leave
\* an invoice that has gone out as it was sent.
THEOREM SentStays == Spec => SentStaysAsSent
  <1>1. TypeOK /\ [Next]_vars => [\A i \in sent : On(i)' = On(i)]_vars
    <2> SUFFICES ASSUME TypeOK, [Next]_vars, NEW i \in sent PROVE On(i)' = On(i)
      OBVIOUS
    <2>1. CASE line' = line
      BY <2>1 DEF On
    <2>2. CASE line.on /\ line.invoice \notin sent /\ line'.invoice = line.invoice
      BY <2>2 DEF On
    <2>3. CASE ~line.on /\ line'.invoice \notin sent
      BY <2>3 DEF On
    <2> QED BY <2>1, <2>2, <2>3, LineFollows
  <1> QED BY <1>1, TypeCorrect, PTL DEF SentStaysAsSent, Spec

-----------------------------------------------------------------------------
(* What leaves a phone.                                                    *)

\* What a phone has been told is done, the server has carried out.
ToldIsLanded ==
    \A p \in Phones : \A a \in reply[p] : a.answer = Note("ok") => a.stamp \in landed

ToldInv == TypeOK /\ ToldIsLanded

\* An answer a phone holds is one it held, or is not "ok", or is of what landed.
LEMMA AnswersFollow ==
    ASSUME TypeOK, "restore" \notin Acts, [Next]_vars, NEW p \in Phones, NEW a \in reply'[p],
           a.answer = Note("ok")
    PROVE  a \in reply[p] \/ a.stamp \in landed'
  <1>1. ASSUME NEW q \in Phones,
               \/ Load(q) \/ BeginSave(q) \/ CommitSave(q) \/ KeepPicks(q) \/ OffAnyway(q)
               \/ PutBack(q) \/ LetGo(q) \/ Settle(q) \/ Offline(q)
               \/ \E c \in Connections : Post(q, c)
        PROVE  a \in reply[p]
    BY <1>1 DEF Load, BeginSave, CommitSave, KeepPicks, OffAnyway, PutBack, LetGo, Settle,
                Offline, Post, TypeOK
  <1>2. ASSUME NEW c \in Connections, NEW r, NEW answer, Answer(c, r, answer)
        PROVE  a \in reply[p] \/ (a.stamp = r.stamp /\ a.answer = answer)
    BY <1>2 DEF Answer
  <1>3. ASSUME NEW c \in Connections, NEW q, GoOn(c, q) PROVE a \in reply[p]
    BY <1>3 DEF GoOn
  <1>4. ASSUME NEW what \in {"again", "plain", "removed", "changed"} PROVE Note(what) # Note("ok")
    BY <1>4 DEF Note
  <1>5. ASSUME NEW r PROVE CollidedWith(r) # Note("ok")
    <2>1. CollidedWith(r).what = "collided" /\ Note("ok").what = "ok"
      BY DEF CollidedWith, Note
    <2> QED BY <2>1, Zenon
  <1>6. ASSUME NEW c \in Connections, StrayLost(c) PROVE a \in reply[p]
    BY <1>6 DEF StrayLost
  <1>7. ASSUME NEW c \in Connections, ReadLine(c) PROVE a \in reply[p]
    BY <1>2, <1>3, <1>4, <1>5, <1>7 DEF ReadLine, Hold
  <1>8. ASSUME NEW c \in Connections, WriteLine(c) \/ ReadRemoval(c) \/ WriteRemoval(c)
        PROVE  a \in reply[p] \/ a.stamp \in landed'
    <2>1. CASE WriteLine(c)
      BY <1>2, <1>3, <1>4, <2>1 DEF WriteLine, ReadAgain
    <2>2. CASE ReadRemoval(c)
      BY <1>2, <1>3, <1>4, <2>2 DEF ReadRemoval, Hold
    <2>3. CASE WriteRemoval(c)
      BY <1>2, <1>4, <2>3 DEF WriteRemoval
    <2> QED BY <1>8, <2>1, <2>2, <2>3
  <1>9. ASSUME NEW c \in Connections, ReadRestore(c) \/ WriteRestore(c) PROVE FALSE
    BY <1>9 DEF ReadRestore, WriteRestore, Unread, HasRead, TypeOK, Call, Entry
  <1>10. CASE SendInvoice \/ UNCHANGED vars
    BY <1>10 DEF SendInvoice, vars
  <1> QED BY <1>1, <1>6, <1>7, <1>8, <1>9, <1>10 DEF Next

LEMMA LandedStays ==
    ASSUME [Next]_vars
    PROVE  landed \subseteq landed'
  BY DEF Next, vars, server, Load, BeginSave, CommitSave, KeepPicks, OffAnyway, PutBack, LetGo,
         Post, Settle, Offline, StrayLost, ReadLine, WriteLine, ReadRemoval, WriteRemoval,
         ReadRestore, WriteRestore, SendInvoice

LEMMA ToldStep ==
    ASSUME ToldInv, "restore" \notin Acts, [Next]_vars
    PROVE  ToldInv'
  BY TypeStep, AnswersFollow, LandedStays DEF ToldInv, ToldIsLanded

\* A store is emptied of its copy by an answer that it is done, or by a person
\* who lets go of a copy that is not waiting.
LEMMA EmptiedBy ==
    ASSUME TypeOK, [Next]_vars, NEW p \in Phones, NEW copy \in store[p], store'[p] = {}
    PROVE  \/ ~Waiting(copy)
           \/ \E r \in reply[p] : r.answer = Note("ok") /\ r.stamp = copy.stamp
  <1>1. ASSUME NEW q \in Phones, NEW entry, Put(q, entry) PROVE FALSE
    BY <1>1 DEF Put, TypeOK
  <1>2. ASSUME NEW q \in Phones,
               CommitSave(q) \/ KeepPicks(q) \/ OffAnyway(q) \/ PutBack(q)
        PROVE  FALSE
    BY <1>1, <1>2 DEF CommitSave, KeepPicks, OffAnyway, PutBack
  <1>3. ASSUME NEW q \in Phones, LetGo(q) PROVE ~Waiting(copy)
    <2>1. PICK d \in store[q] : d.why.what \in {"plain", "removed", "changed"}
      BY <1>3 DEF LetGo
    <2>2. p = q
      BY <1>3 DEF LetGo, TypeOK
    <2>3. copy = d
      BY <2>1, <2>2 DEF TypeOK, AtMostOne
    <2> QED BY <2>1, <2>3 DEF Waiting, Note
  <1>4. ASSUME NEW q \in Phones, Settle(q)
        PROVE  \E r \in reply[p] : r.answer = Note("ok") /\ r.stamp = copy.stamp
    <2>1. PICK r \in reply[q] : store' = [store EXCEPT ![q] = Settled(@, r)]
      BY <1>4 DEF Settle
    <2>2. p = q /\ Settled(store[p], r) = {}
      BY <2>1 DEF TypeOK
    <2>3. r.answer = Note("ok")
      <3> DEFINE After(d) == IF d.stamp = r.stamp /\ r.answer # Note("again")
                             THEN [d EXCEPT !.why = r.answer] ELSE d
      <3>1. r.answer # Note("ok") => After(copy) \in {After(d) : d \in store[p]}
        OBVIOUS
      <3> QED BY <2>2, <3>1 DEF Settled
    <2>4. r.stamp = copy.stamp
      BY <2>2, <2>3 DEF Settled
    <2> QED BY <2>1, <2>2, <2>3, <2>4
  <1>5. ASSUME NEW q \in Phones,
               \/ Load(q) \/ BeginSave(q) \/ Offline(q) \/ \E c \in Connections : Post(q, c)
        PROVE  FALSE
    BY <1>5 DEF Load, BeginSave, Offline, Post, page
  <1>6. ASSUME NEW c \in Connections,
               \/ StrayLost(c) \/ ReadLine(c) \/ WriteLine(c)
               \/ ReadRemoval(c) \/ WriteRemoval(c) \/ ReadRestore(c) \/ WriteRestore(c)
        PROVE  FALSE
    BY <1>6 DEF StrayLost, ReadLine, WriteLine, ReadRemoval, WriteRemoval, ReadRestore, WriteRestore,
                page
  <1>7. CASE SendInvoice \/ UNCHANGED vars
    BY <1>7 DEF SendInvoice, vars, page
  <1> QED BY <1>2, <1>3, <1>4, <1>5, <1>6, <1>7 DEF Next

\* Where nobody puts a line back, a waiting change leaves its phone, for no
\* newer one, only once the server has carried it out.
THEOREM LeavesLanded ==
    ASSUME "restore" \notin Acts
    PROVE  Spec => LeavesOnceLanded
  <1>1. Init => ToldInv
    BY InitType DEF Init, ToldInv, ToldIsLanded
  <1>2. ToldInv /\ [Next]_vars => ToldInv'
    BY ToldStep
  <1>3. ToldInv /\ [Next]_vars =>
            [\A p \in Phones : \A copy \in store[p] :
                Waiting(copy) /\ store'[p] = {} => copy.stamp \in landed]_vars
    BY EmptiedBy DEF ToldInv, ToldIsLanded
  <1> QED BY <1>1, <1>2, <1>3, PTL DEF Spec, LeavesOnceLanded

=============================================================================
