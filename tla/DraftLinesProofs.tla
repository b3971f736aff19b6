-------------------------- MODULE DraftLinesProofs --------------------------
(***************************************************************************)
(* What DraftLines keeps for any drafts, pages and connections, any finite *)
(* set of lines, and any bounds: an inductive invariant, and what follows. *)
(***************************************************************************)
EXTENDS DraftLines, FiniteSetTheorems, TLAPS

USE BoundsAssumption, KindsAssumption

Lone(S) == \A a, b \in S : a = b
-----------------------------------------------------------------------------
(* A line's place.                                                         *)

\* Of the finite sets of numbers without one that none exceeds, none is least.
LEMMA FiniteHasMax ==
    ASSUME NEW S \in SUBSET Nat, IsFiniteSet(S), S # {}
    PROVE  Max(S) \in S /\ \A x \in S : x <= Max(S)
  <1> DEFINE Topped(T) == \E m \in T : \A x \in T : m >= x
             Bad == {T \in FiniteSubsetsOf(Nat) : T # {} /\ ~Topped(T)}
  <1>1. Bad = {}
    <2> SUFFICES ASSUME Bad # {} PROVE FALSE
      OBVIOUS
    <2>1. IsWellFoundedOn(StrictSubsetOrdering(Nat), FiniteSubsetsOf(Nat))
      BY FS_StrictSubsetOrderingWellFounded
    <2> HIDE DEF Bad
    <2>2. Bad \subseteq FiniteSubsetsOf(Nat)
      BY DEF Bad
    <2>3. PICK T \in Bad : \A U \in Bad : <<U, T>> \notin StrictSubsetOrdering(Nat)
      BY <2>1, <2>2, WFMin
    <2>4. T \in SUBSET Nat /\ IsFiniteSet(T) /\ T # {} /\ ~Topped(T)
      BY DEF Bad, FiniteSubsetsOf
    <2>5. PICK a \in T : TRUE
      BY <2>4
    <2> DEFINE U == T \ {a}
    <2>6. U \in SUBSET Nat /\ IsFiniteSet(U)
      BY <2>4, FS_RemoveElement
    <2>7. <<U, T>> \in StrictSubsetOrdering(Nat)
      BY <2>4, <2>5, <2>6 DEF StrictSubsetOrdering
    <2>8. U \notin Bad
      BY <2>3, <2>7
    <2>9. U = {} \/ Topped(U)
      BY <2>6, <2>8 DEF Bad, FiniteSubsetsOf
    <2>10. CASE U = {}
      <3>1. \A x \in T : x = a
        BY <2>10
      <3> QED BY <2>4, <2>5, <3>1
    <2>11. CASE Topped(U)
      <3>1. PICK m \in U : \A x \in U : m >= x
        BY <2>11
      <3>2. \A x \in T : x = a \/ x \in U
        OBVIOUS
      <3>3. a \in Nat /\ m \in Nat /\ m \in T
        BY <2>4, <2>5
      <3>4. CASE m >= a
        <4>1. \A x \in T : m >= x
          BY <3>1, <3>2, <3>4
        <4> QED BY <2>4, <3>3, <4>1
      <3>5. CASE ~(m >= a)
        <4>1. \A x \in T : a >= x
          BY <2>4, <3>1, <3>2, <3>3, <3>5
        <4> QED BY <2>4, <2>5, <4>1
      <3> QED BY <3>4, <3>5
    <2> QED BY <2>9, <2>10, <2>11
  <1>2. Topped(S)
    BY <1>1 DEF FiniteSubsetsOf
  <1>3. PICK m \in S : \A x \in S : m >= x
    BY <1>2
  <1>4. Max(S) \in S /\ \A x \in S : Max(S) >= x
    BY <1>3 DEF Max
  <1> QED BY <1>4

OneRow == \A l \in Lines : Lone(row[l])

LEMMA NextSeqType ==
    ASSUME TypeOK, OneRow, NEW i
    PROVE  NextSeq(i) \in Nat \ {0}
  <1> DEFINE L == {l \in Lines : row[l] \cap OnInvoice(i) # {}}
             f == [l \in L |-> (CHOOSE k \in row[l] : TRUE).seq]
  <1>1. Seqs(i) \subseteq Nat
    BY DEF Seqs, OnInvoice, TypeOK, Row
  <1>2. f \in Surjection(L, Seqs(i))
    <2>1. ASSUME NEW l \in L PROVE f[l] \in Seqs(i)
      <3>1. PICK k \in row[l] : k \in OnInvoice(i)
        OBVIOUS
      <3>2. (CHOOSE j \in row[l] : TRUE) = k
        BY <3>1 DEF OneRow, Lone
      <3> QED BY <3>1, <3>2 DEF Seqs
    <2>2. ASSUME NEW n \in Seqs(i) PROVE \E l \in L : f[l] = n
      <3>1. PICK k \in OnInvoice(i) : k.seq = n
        BY DEF Seqs
      <3>2. PICK l \in Lines : k \in row[l]
        BY <3>1 DEF OnInvoice
      <3>3. l \in L
        BY <3>1, <3>2
      <3>4. (CHOOSE j \in row[l] : TRUE) = k
        BY <3>2 DEF OneRow, Lone
      <3> QED BY <3>1, <3>3, <3>4
    <2>3. f \in [L -> Seqs(i)]
      BY <2>1
    <2> HIDE DEF f
    <2> QED BY <2>2, <2>3 DEF Surjection
  <1>3. IsFiniteSet(L)
    BY LinesAssumption, FS_Subset
  <1>4. IsFiniteSet(Seqs(i) \cup {0})
    <2>1. IsFiniteSet(Seqs(i))
      BY <1>2, <1>3, FS_Surjection
    <2> QED BY <2>1, FS_AddElement
  <1>5. Max(Seqs(i) \cup {0}) \in Nat
    BY <1>1, <1>4, FiniteHasMax
  <1> QED BY <1>5 DEF NextSeq
-----------------------------------------------------------------------------
(* What is known of a request by how far it is.                            *)

CallFits(r) ==
    /\ r.stage = "sent" => r.to = 0 /\ r.number = 0
    /\ r.stage = "lock" => r.item.id \in Lines /\ r.meant \in Invoices /\ r.to = 0 /\ r.number = 0
    /\ r.stage = "number" =>
           /\ r.to = 0 /\ r.number = 0
           /\ r.item.id \in Lines => r.meant \in Invoices /\ r.seq # 0
    /\ r.stage = "insert" =>
           /\ r.to = 0 <=> r.number # 0
           /\ r.item.id \in Drafts => r.to = 0
           /\ r.item.id \in Lines => /\ r.meant \in Invoices /\ r.seq # 0
                                     /\ r.to # 0 => r.to \in Invoices
    /\ r.number # 0 => r.number = next

CallsFit == \A c \in Connections : Lone(call[c]) /\ \A r \in call[c] : CallFits(r)

\* Invoices are numbered as they are started.
Numbered == next = Len(invoices) + 1 /\ \A i \in Invoices : invoices[i].number = i

RowsFit ==
    /\ OneRow
    /\ \A l \in Lines : \A k \in row[l] : k.invoice \in Invoices /\ k.from \in Invoices \cup {0}

HeldAreMade == \A l \in Lines : lines[l] # {} => l \in made

FormsFit == \A p \in Pages : Lone(form[p]) /\ Lone(out[p]) /\ (out[p] = {} => reply[p] = "none")

Base == TypeOK /\ CallsFit /\ Numbered /\ RowsFit /\ HeldAreMade /\ FormsFit

\* What a line's request holds: the invoice it is meant for.
Holds(r) == r.stage \in {"number", "insert"} /\ r.item.id \in Lines

\* The operator's row is held by one request at a time, and each invoice by one
\* of a line.
Held ==
    \A c, e \in Connections : c # e =>
        \A r \in call[c], s \in call[e] :
            /\ r.number = 0 \/ s.number = 0
            /\ Holds(r) /\ Holds(s) => r.meant # s.meant

\* A line that will start a draft finds none started; one that goes on another
\* than its own goes on the one started for it, unless that has gone out.
Toward(r) ==
    Holds(r) =>
        /\ r.to = 0 => invoices[r.meant].out /\ StartedFor(r.meant) = {}
        /\ r.to \notin {0, r.meant} => invoices[r.to].out \/ r.to \in StartedFor(r.meant)

Towards == \A c \in Connections : \A r \in call[c] : Toward(r)

Successors == \A i \in Invoices : Lone(StartedFor(i))

Arrived(x) == IF x.id \in Drafts THEN Started(x.id) ELSE row[x.id] # {}

\* A page waits on the request of what it posted, and "ok" means it is in.
OutsFit ==
    \A p \in Pages : \A o \in out[p] :
        /\ \A r \in call[o.on] : r.item = o.item
        /\ reply[p] = "ok" => Arrived(o.item)

DiscardsFit ==
    \A p \in Pages : \A k \in discard[p] : k.draft \in letGo /\ k.left \subseteq letGo

\* What the server keeps to, and what the phone does.
SInv == CallsFit /\ Numbered /\ RowsFit /\ Held /\ Towards /\ Successors /\ StartedOnce
PInv == HeldAreMade /\ FormsFit /\ OutsFit /\ DiscardsFit /\ NothingLost

IInv == TypeOK /\ SInv /\ PInv
-----------------------------------------------------------------------------
(* Types: the phone.                                                       *)

LEMMA ItemsOfPhone ==
    ASSUME TypeOK
    PROVE  /\ \A d \in Drafts : AsItem(d) \in Item
           /\ \A l \in Lines : \A k \in lines[l] : ItemOf(l, k) \in Item
  <1>1. ASSUME NEW d \in Drafts PROVE AsItem(d) \in DraftItem
    BY DEF AsItem, DraftItem
  <1>2. ASSUME NEW l \in Lines, NEW k \in Copy PROVE ItemOf(l, k) \in LineItem
    BY DEF ItemOf, LineItem, Copy
  <1>3. \A l \in Lines : lines[l] \subseteq Copy
    BY DEF TypeOK
  <1> QED BY <1>1, <1>2, <1>3 DEF Item

ScreenStep(p) ==
    \/ \E d \in Drafts : StartOnPhone(p, d) \/ BeginDiscard(p, d)
    \/ \E l \in Lines : OpenFix(p, l) \/ \E m \in Ref : OpenForm(p, l, m)
    \/ SaveLine(p) \/ DiscardNext(p) \/ PageGone(p)

LEMMA ScreenType ==
    ASSUME Base, NEW p \in Pages, ScreenStep(p)
    PROVE  TypeOK'
  <1> USE DEF Base
  <1>1. ASSUME NEW d \in Drafts, StartOnPhone(p, d) PROVE TypeOK'
    BY <1>1 DEF StartOnPhone, server, flush, TypeOK, Invoices
  <1>2. ASSUME NEW d \in Drafts, BeginDiscard(p, d) PROVE TypeOK'
    <2>1. LinesHeld(d) \subseteq made /\ LinesHeld(d) \subseteq Lines
      BY DEF LinesHeld, HeldAreMade
    <2>2. [draft |-> d, left |-> LinesHeld(d)] \in [draft: Drafts, left: SUBSET Lines]
      BY <2>1
    <2>3. discard' \in [Pages -> SUBSET [draft: Drafts, left: SUBSET Lines]]
      BY <1>2, <2>2 DEF BeginDiscard, TypeOK
    <2>4. letGo' \subseteq made'
      BY <1>2, <2>1 DEF BeginDiscard, TypeOK
    <2> QED BY <1>2, <2>3, <2>4 DEF BeginDiscard, server, flush, TypeOK, Invoices
  <1>3. ASSUME NEW l \in Lines, OpenFix(p, l) PROVE TypeOK'
    <2>1. PICK copy \in lines[l] : OpenFix(p, l)!2!(copy)
      BY <1>3 DEF OpenFix
    <2>2. PICK i \in Named(copy.meant) : form' = [form EXCEPT ![p] = {[line |-> l, meant |-> i]}]
      BY <2>1
    <2>3. i \in Ref
      BY DEF Named, Invoices, Ref, TypeOK
    <2>4. form' \in [Pages -> SUBSET [line: Lines, meant: Ref]]
      BY <2>2, <2>3 DEF TypeOK
    <2> QED BY <1>3, <2>4 DEF OpenFix, server, flush, TypeOK, Invoices
  <1>4. ASSUME NEW l \in Lines, NEW m \in Ref, OpenForm(p, l, m) PROVE TypeOK'
    <2>1. form' \in [Pages -> SUBSET [line: Lines, meant: Ref]]
      BY <1>4 DEF OpenForm, TypeOK
    <2> QED BY <1>4, <2>1 DEF OpenForm, server, flush, TypeOK, Invoices
  <1>5. ASSUME SaveLine(p) PROVE TypeOK'
    <2>1. PICK f \in form[p] : \E good \in BOOLEAN : SaveLine(p)!1!(f, good)
      BY <1>5 DEF SaveLine
    <2>2. PICK good \in BOOLEAN : SaveLine(p)!1!(f, good)
      BY <2>1
    <2>3. f.line \in Lines /\ f.meant \in Ref
      BY DEF TypeOK
    <2>4. written[f.line] \in 0..MaxWritten /\ written[f.line] + 1 \in 1..MaxWritten
      BY <2>2, <2>3 DEF TypeOK
    <2>5. [stamp |-> written[f.line] + 1, meant |-> f.meant, good |-> good, why |-> "waiting"]
              \in Copy
      BY <2>3, <2>4 DEF Copy
    <2>6. lines' \in [Lines -> SUBSET Copy]
      BY <2>2, <2>3, <2>5 DEF TypeOK
    <2>7. written' \in [Lines -> 0..MaxWritten]
      BY <2>2, <2>3, <2>4 DEF TypeOK
    <2>8. made' \subseteq Drafts \cup Lines /\ letGo' \subseteq made'
      BY <1>5, <2>2, <2>3 DEF SaveLine, TypeOK
    <2>9. form' \in [Pages -> SUBSET [line: Lines, meant: Ref]]
      BY <1>5 DEF SaveLine, TypeOK
    <2> QED BY <1>5, <2>6, <2>7, <2>8, <2>9 DEF SaveLine, server, flush, TypeOK, Invoices
  <1>6. ASSUME DiscardNext(p) PROVE TypeOK'
    <2>1. PICK k \in discard[p] : DiscardNext(p)!1!(k)
      BY <1>6 DEF DiscardNext
    <2>2. k \in [draft: Drafts, left: SUBSET Lines]
      BY DEF TypeOK
    <2>3. /\ lines' \in [Lines -> SUBSET Copy]
          /\ discard' \in [Pages -> SUBSET [draft: Drafts, left: SUBSET Lines]]
          /\ drafts' \in [Drafts -> SUBSET {"waiting", "refused"}]
      <3>1. ASSUME NEW l \in k.left,
                   lines' = [lines EXCEPT ![l] = {}],
                   discard' = [discard EXCEPT ![p] = {[k EXCEPT !.left = @ \ {l}]}],
                   drafts' = drafts
            PROVE  /\ lines' \in [Lines -> SUBSET Copy]
                   /\ discard' \in [Pages -> SUBSET [draft: Drafts, left: SUBSET Lines]]
                   /\ drafts' \in [Drafts -> SUBSET {"waiting", "refused"}]
        <4>1. [k EXCEPT !.left = @ \ {l}] \in [draft: Drafts, left: SUBSET Lines]
          BY <2>2
        <4> QED BY <3>1, <4>1 DEF TypeOK
      <3>2. CASE /\ drafts' = [drafts EXCEPT ![k.draft] = {}]
                 /\ discard' = [discard EXCEPT ![p] = {}]
                 /\ lines' = lines
        BY <3>2 DEF TypeOK
      <3> QED BY <2>1, <3>1, <3>2
    <2> QED BY <1>6, <2>3 DEF DiscardNext, server, flush, TypeOK, Invoices
  <1>7. ASSUME PageGone(p) PROVE TypeOK'
    <2>1. Idle \in Job
      BY DEF Idle, Job
    <2> QED BY <1>7, <2>1 DEF PageGone, server, TypeOK, Invoices
  <1> QED BY <1>1, <1>2, <1>3, <1>4, <1>5, <1>6, <1>7 DEF ScreenStep
-----------------------------------------------------------------------------
(* Types: the flush.                                                       *)

FlushStep(p) ==
    \/ BeginFlush(p) \/ ReadDrafts(p) \/ ReadLines(p)
    \/ \E c \in Connections : Post(p, c)
    \/ Settle(p) \/ Offline(p)

LEMMA JobType ==
    ASSUME TypeOK, NEW p \in Pages, NEW j \in Job, job' = [job EXCEPT ![p] = j]
    PROVE  job' \in [Pages -> Job]
  BY DEF TypeOK

LEMMA FlushType ==
    ASSUME Base, NEW p \in Pages, FlushStep(p)
    PROVE  TypeOK'
  <1> USE DEF Base
  <1>1. ASSUME BeginFlush(p) PROVE TypeOK'
    <2>1. {AsItem(d) : d \in {e \in Drafts : drafts[e] = {"waiting"}}} \subseteq Item
      BY ItemsOfPhone
    <2>2. [at |-> "drafts", waits |-> {},
           todo |-> {AsItem(d) : d \in {e \in Drafts : drafts[e] = {"waiting"}}}] \in Job
      BY <2>1 DEF Job
    <2>3. job' \in [Pages -> Job]
      BY <1>1, <2>2, JobType DEF BeginFlush
    <2> QED BY <1>1, <2>3 DEF BeginFlush, server, phone, TypeOK, Invoices
  <1>2. ASSUME ReadDrafts(p) PROVE TypeOK'
    <2>1. job[p] \in Job
      BY DEF TypeOK
    <2>2. [[job[p] EXCEPT !.at = "waits"] EXCEPT !.waits = {d \in Drafts : drafts[d] # {}}] \in Job
      BY <2>1 DEF Job
    <2>3. job' = [job EXCEPT ![p] =
              [[job[p] EXCEPT !.at = "waits"] EXCEPT !.waits = {d \in Drafts : drafts[d] # {}}]]
      BY <1>2, <2>1 DEF ReadDrafts, TypeOK
    <2>4. job' \in [Pages -> Job]
      BY <2>2, <2>3, JobType
    <2> QED BY <1>2, <2>4 DEF ReadDrafts, server, phone, TypeOK, Invoices
  <1>3. ASSUME ReadLines(p) PROVE TypeOK'
    <2> DEFINE todo == {x \in UNION {{ItemOf(l, copy) : copy \in {k \in lines[l] : k.why = "waiting"}} :
                                     l \in Lines} : x.meant \notin job[p].waits}
    <2>1. todo \subseteq Item
      BY ItemsOfPhone
    <2>2. job' = [job EXCEPT ![p] = [at |-> "lines", waits |-> {}, todo |-> todo]]
      BY <1>3 DEF ReadLines
    <2> HIDE DEF todo
    <2>3. [at |-> "lines", waits |-> {}, todo |-> todo] \in Job
      BY <2>1 DEF Job
    <2>4. job' \in [Pages -> Job]
      BY <2>2, <2>3, JobType
    <2> QED BY <1>3, <2>4 DEF ReadLines, server, phone, TypeOK, Invoices
  <1>4. ASSUME NEW c \in Connections, Post(p, c) PROVE TypeOK'
    <2>1. PICK x \in job[p].todo : Post(p, c)!2!(x)
      BY <1>4 DEF Post
    <2>2. job[p] \in Job /\ x \in Item
      BY DEF TypeOK, Job
    <2>3. [item |-> x, stage |-> "sent", meant |-> 0, to |-> 0, number |-> 0, seq |-> 0] \in Call
      BY <2>2 DEF Call
    <2>4. call' \in [Connections -> SUBSET Call]
      BY <2>1, <2>3 DEF TypeOK
    <2>5. out' \in [Pages -> SUBSET [on: Connections, item: Item]]
      BY <2>1, <2>2 DEF TypeOK
    <2>6. job' = [job EXCEPT ![p] = [job[p] EXCEPT !.todo = @ \ {x}]]
      BY <2>1
    <2>7. [job[p] EXCEPT !.todo = @ \ {x}] \in Job
      BY <2>2 DEF Job
    <2>8. job' \in [Pages -> Job]
      BY <2>6, <2>7, JobType
    <2> QED BY <1>4, <2>4, <2>5, <2>8 DEF Post, server, phone, TypeOK, Invoices
  <1>5. ASSUME Settle(p) PROVE TypeOK'
    <2>1. PICK o \in out[p] : Settle(p)!2!(o)
      BY <1>5 DEF Settle
    <2>2. o.item \in Item
      BY DEF TypeOK
    <2>3. \A held \in SUBSET {"waiting", "refused"} :
              DraftLeft(held, reply[p]) \in SUBSET {"waiting", "refused"}
      BY DEF DraftLeft
    <2>4. ASSUME NEW held \in SUBSET Copy
          PROVE  LineLeft(held, o.item, reply[p]) \in SUBSET Copy
      <3>1. \A k \in Copy : [k EXCEPT !.why = "refused"] \in Copy
        BY DEF Copy
      <3> QED BY <3>1 DEF LineLeft
    <2>5. /\ drafts' \in [Drafts -> SUBSET {"waiting", "refused"}]
          /\ lines' \in [Lines -> SUBSET Copy]
      <3>1. CASE o.item.id \in Drafts /\ lines' = lines
                 /\ drafts' = [drafts EXCEPT ![o.item.id] = DraftLeft(@, reply[p])]
        BY <2>3, <3>1 DEF TypeOK
      <3>2. CASE o.item.id \in Lines /\ drafts' = drafts
                 /\ lines' = [lines EXCEPT ![o.item.id] = LineLeft(@, o.item, reply[p])]
        BY <2>4, <3>2 DEF TypeOK
      <3> QED BY <2>1, <3>1, <3>2
    <2> QED BY <1>5, <2>5 DEF Settle, server, TypeOK, Invoices
  <1>6. ASSUME Offline(p) PROVE TypeOK'
    <2>1. Idle \in Job
      BY DEF Idle, Job
    <2> QED BY <1>6, <2>1 DEF Offline, server, phone, TypeOK, Invoices
  <1> QED BY <1>1, <1>2, <1>3, <1>4, <1>5, <1>6 DEF FlushStep
-----------------------------------------------------------------------------
(* Types: the server.                                                      *)

ServerStep(c) ==
    \/ StrayLost(c) \/ NotNow(c)
    \/ ReadDraft(c) \/ TakeNumber(c) \/ StartDraft(c)
    \/ ReadLine(c) \/ LockMeant(c) \/ AddLine(c)

LEMMA AnswerType ==
    ASSUME TypeOK, NEW c \in Connections, NEW a \in {"ok", "refused", "again"}, Answer(c, a)
    PROVE  /\ reply' \in [Pages -> {"none", "ok", "refused", "again"}]
           /\ call' \in [Connections -> SUBSET Call]
           /\ UNCHANGED <<out, job>>
  BY DEF TypeOK, Answer

LEMMA GoOnType ==
    ASSUME TypeOK, NEW c \in Connections, NEW r \in Call, GoOn(c, r)
    PROVE  call' \in [Connections -> SUBSET Call] /\ UNCHANGED <<out, job, reply>>
  BY DEF TypeOK, GoOn, flush

\* Only a request on the way in, and the answers, have changed.
LEMMA CallTypeStep ==
    ASSUME TypeOK, NEW c \in Connections, UNCHANGED <<server, phone>>,
           \/ \E a \in {"ok", "refused", "again"} : Answer(c, a)
           \/ \E r \in Call : GoOn(c, r)
    PROVE  TypeOK'
  <1>1. /\ reply' \in [Pages -> {"none", "ok", "refused", "again"}]
        /\ call' \in [Connections -> SUBSET Call]
        /\ UNCHANGED <<out, job>>
    BY AnswerType, GoOnType DEF TypeOK
  <1> QED BY <1>1 DEF TypeOK, server, phone, Invoices

\* Further on, a request is still one.
LEMMA FurtherCalls ==
    ASSUME Base, NEW c \in Connections, NEW r \in call[c]
    PROVE  /\ r \in Call
           /\ [r EXCEPT !.stage = "number"] \in Call
           /\ [r EXCEPT !.stage = "insert", !.number = next] \in Call
           /\ \A i \in Invoices : [r EXCEPT !.stage = "lock", !.meant = i] \in Call
           /\ \A i \in Invoices :
                  [r EXCEPT !.stage = "insert", !.to = i, !.seq = NextSeq(i)] \in Call
           /\ [r EXCEPT !.stage = "number", !.seq = 1] \in Call
  <1>1. r \in Call /\ Invoices \subseteq 1..MaxInvoice /\ next \in 1..(MaxInvoice + 1)
    BY DEF Base, TypeOK, Invoices
  <1>2. \A i \in Invoices : NextSeq(i) \in Nat
    BY NextSeqType DEF Base, RowsFit
  <1>3. r \in Call /\ [r EXCEPT !.stage = "number"] \in Call
    BY <1>1 DEF Call
  <1>4. [r EXCEPT !.stage = "insert", !.number = next] \in Call
    <2>1. next \in 0..(MaxInvoice + 1)
      BY <1>1
    <2>2. \A n \in 0..(MaxInvoice + 1) : [r EXCEPT !.stage = "insert", !.number = n] \in Call
      BY <1>1 DEF Call
    <2> QED BY <2>1, <2>2
  <1>5. ASSUME NEW i \in Invoices
        PROVE  /\ [r EXCEPT !.stage = "lock", !.meant = i] \in Call
               /\ [r EXCEPT !.stage = "insert", !.to = i, !.seq = NextSeq(i)] \in Call
    <2>1. i \in 0..MaxInvoice
      BY <1>1
    <2>2. ASSUME NEW n \in Nat
          PROVE  [r EXCEPT !.stage = "insert", !.to = i, !.seq = n] \in Call
      BY <1>1, <2>1 DEF Call
    <2>3. [r EXCEPT !.stage = "lock", !.meant = i] \in Call
      BY <1>1, <2>1 DEF Call
    <2> QED BY <1>2, <2>2, <2>3
  <1>6. [r EXCEPT !.stage = "number", !.seq = 1] \in Call
    BY <1>1 DEF Call
  <1> QED BY <1>3, <1>4, <1>5, <1>6

\* The invoice started, and the next number.
LEMMA StartInType ==
    ASSUME Base, NEW c \in Connections, NEW r \in call[c],
           r.stage = "insert", r.to = 0, StartIn(r)
    PROVE  /\ invoices' \in Seq(Invoice) /\ Len(invoices') = Len(invoices) + 1
           /\ Len(invoices') <= MaxInvoice
           /\ next' \in 1..(MaxInvoice + 1) /\ next' = Len(invoices') + 1
           /\ \A i \in Invoices : invoices'[i] = invoices[i]
           /\ invoices'[Len(invoices) + 1] = NewInvoice(r)
           /\ r.number = next
  <1>1. r \in Call /\ CallFits(r)
    BY DEF Base, TypeOK, CallsFit
  <1>2. r.number = next /\ next = Len(invoices) + 1
    BY <1>1 DEF CallFits, Base, Numbered
  <1>3. NewInvoice(r) \in Invoice
    BY <1>1, <1>2 DEF NewInvoice, Invoice, Call, CallFits, Base, TypeOK
  <1>4. Len(invoices) \in Nat /\ Len(invoices) < MaxInvoice /\ MaxInvoice \in Nat
    BY DEF StartIn, Base, TypeOK
  <1> QED BY <1>2, <1>3, <1>4 DEF StartIn, Base, TypeOK, Invoices

LEMMA IntoType ==
    ASSUME Base, NEW c \in Connections, NEW r \in call[c], NEW i \in 1..MaxInvoice,
           r.stage = "insert", r.item.id \in Lines, Into(r, i)
    PROVE  row' \in [Lines -> SUBSET Row]
  <1>1. r \in Call /\ CallFits(r)
    BY DEF Base, TypeOK, CallsFit
  <1>2. r.seq \in Nat \ {0} /\ r.meant \in 0..MaxInvoice
    BY <1>1 DEF CallFits, Call
  <1>3. [invoice |-> i, seq |-> r.seq, from |-> IF i = r.meant THEN 0 ELSE r.meant] \in Row
    BY <1>2 DEF Row
  <1> QED BY <1>3 DEF Into, Base, TypeOK

LEMMA ServerType ==
    ASSUME Base, NEW c \in Connections, ServerStep(c)
    PROVE  TypeOK'
  <1>1. TypeOK
    BY DEF Base
  <1>2. ASSUME StrayLost(c) PROVE TypeOK'
    BY <1>1, <1>2 DEF StrayLost, server, phone, flush, TypeOK, Invoices
  <1>3. ASSUME NotNow(c) PROVE TypeOK'
    BY <1>1, <1>3, CallTypeStep DEF NotNow
  <1>4. ASSUME ReadDraft(c) PROVE TypeOK'
    BY <1>1, <1>4, FurtherCalls, CallTypeStep DEF ReadDraft, At
  <1>5. ASSUME TakeNumber(c) PROVE TypeOK'
    BY <1>1, <1>5, FurtherCalls, CallTypeStep DEF TakeNumber, At
  <1>6. ASSUME ReadLine(c) PROVE TypeOK'
    <2>1. PICK r \in At(c, "sent", Lines) : ReadLine(c)!1!(r)
      BY <1>6 DEF ReadLine
    <2>2. r \in call[c] /\ Named(r.item.meant) \subseteq Invoices
      BY DEF At, Named
    <2>3. (\E a \in {"ok", "refused", "again"} : Answer(c, a)) \/ \E k \in Call : GoOn(c, k)
      BY <2>1, <2>2, FurtherCalls
    <2> QED BY <1>1, <1>6, <2>3, CallTypeStep DEF ReadLine
  <1>7. ASSUME LockMeant(c) PROVE TypeOK'
    <2>1. PICK r \in At(c, "lock", Lines) : LockMeant(c)!1!(r)
      BY <1>7 DEF LockMeant
    <2>2. r \in call[c] /\ r.meant \in Invoices /\ StartedFor(r.meant) \subseteq Invoices
      BY DEF At, StartedFor, Base, CallsFit, CallFits
    <2>3. \E k \in Call : GoOn(c, k)
      BY <2>1, <2>2, FurtherCalls
    <2> QED BY <1>1, <1>7, <2>3, CallTypeStep DEF LockMeant
  <1>8. ASSUME StartDraft(c) PROVE TypeOK'
    <2>1. PICK r \in At(c, "insert", Drafts) :
                 \/ (\E a \in {"ok", "refused", "again"} : Answer(c, a))
                      /\ UNCHANGED <<invoices, next>>
                 \/ StartOr(c, r)
      BY <1>8 DEF StartDraft
    <2>2. r \in call[c] /\ r.stage = "insert" /\ r.to = 0
      BY DEF At, Base, CallsFit, CallFits
    <2>3. \/ (\E a \in {"ok", "refused", "again"} : Answer(c, a)) /\ UNCHANGED <<invoices, next>>
          \/ (\E a \in {"ok", "refused", "again"} : Answer(c, a)) /\ StartIn(r)
      BY <2>1 DEF StartOr
    <2>4. UNCHANGED <<named, row, phone>>
      BY <1>8 DEF StartDraft
    <2>5. /\ reply' \in [Pages -> {"none", "ok", "refused", "again"}]
          /\ call' \in [Connections -> SUBSET Call]
          /\ UNCHANGED <<out, job>>
      BY <1>1, <2>3, AnswerType
    <2>6. /\ invoices' \in Seq(Invoice) /\ Len(invoices') <= MaxInvoice
          /\ next' \in 1..(MaxInvoice + 1)
      <3>1. CASE UNCHANGED <<invoices, next>>
        BY <1>1, <3>1 DEF TypeOK
      <3>2. CASE StartIn(r)
        BY <2>2, <3>2, StartInType
      <3> QED BY <2>3, <3>1, <3>2
    <2> QED BY <1>1, <2>4, <2>5, <2>6 DEF TypeOK, phone
  <1>9. ASSUME AddLine(c) PROVE TypeOK'
    <2>1. PICK r \in At(c, "insert", Lines) : AddLine(c)!1!(r)
      BY <1>9 DEF AddLine
    <2>2. r \in call[c] /\ r.stage = "insert" /\ r.item.id \in Lines
      BY DEF At
    <2>3. /\ \E a \in {"ok", "refused", "again"} : Answer(c, a)
          /\ \/ UNCHANGED <<invoices, next, row>>
             \/ r.to # 0 /\ Into(r, r.to) /\ UNCHANGED <<invoices, next>>
             \/ r.to = 0 /\ StartIn(r) /\ Into(r, Len(invoices) + 1)
      BY <2>1
    <2>4. UNCHANGED <<named, phone>>
      BY <1>9 DEF AddLine
    <2>5. /\ reply' \in [Pages -> {"none", "ok", "refused", "again"}]
          /\ call' \in [Connections -> SUBSET Call]
          /\ UNCHANGED <<out, job>>
      BY <1>1, <2>3, AnswerType
    <2>6. /\ invoices' \in Seq(Invoice) /\ Len(invoices') <= MaxInvoice
          /\ next' \in 1..(MaxInvoice + 1) /\ row' \in [Lines -> SUBSET Row]
      <3>1. CASE UNCHANGED <<invoices, next, row>>
        BY <1>1, <3>1 DEF TypeOK
      <3>2. CASE r.to # 0 /\ Into(r, r.to) /\ UNCHANGED <<invoices, next>>
        <4>1. r.to \in 1..MaxInvoice
          BY <1>1, <2>2, <3>2 DEF TypeOK, Call
        <4>2. row' \in [Lines -> SUBSET Row]
          BY <2>2, <3>2, <4>1, IntoType
        <4> QED BY <1>1, <3>2, <4>2 DEF TypeOK
      <3>3. CASE r.to = 0 /\ StartIn(r) /\ Into(r, Len(invoices) + 1)
        <4>1. Len(invoices) + 1 \in 1..MaxInvoice
          BY <1>1, <3>3 DEF TypeOK, StartIn
        <4>2. row' \in [Lines -> SUBSET Row]
          BY <2>2, <3>3, <4>1, IntoType
        <4> QED BY <2>2, <3>3, <4>2, StartInType
      <3> QED BY <2>3, <3>1, <3>2, <3>3
    <2> QED BY <1>1, <2>4, <2>5, <2>6 DEF TypeOK, phone
  <1> QED BY <1>2, <1>3, <1>4, <1>5, <1>6, <1>7, <1>8, <1>9 DEF ServerStep

LEMMA SendingType ==
    ASSUME TypeOK,
           \/ \E i \in Invoices : SendInvoice(i)
           \/ NameBusiness
    PROVE  TypeOK'
  <1>1. ASSUME NEW i \in Invoices, SendInvoice(i) PROVE TypeOK'
    <2>1. invoices[i] \in Invoice
      BY DEF TypeOK, Invoices
    <2>3. [invoices[i] EXCEPT !.out = TRUE] \in Invoice
      BY <2>1 DEF Invoice
    <2>2. invoices' \in Seq(Invoice) /\ Len(invoices') = Len(invoices)
      BY <1>1, <2>3 DEF SendInvoice, TypeOK, Invoices
    <2> QED BY <1>1, <2>2 DEF SendInvoice, phone, flush, TypeOK, Invoices
  <1>2. ASSUME NameBusiness PROVE TypeOK'
    BY <1>2 DEF NameBusiness, phone, flush, TypeOK, Invoices
  <1> QED BY <1>1, <1>2

LEMMA Steps ==
    ASSUME [Next]_vars
    PROVE  \/ UNCHANGED vars
           \/ \E p \in Pages : ScreenStep(p) \/ FlushStep(p)
           \/ \E l \in Lines : LetLineGo(l)
           \/ \E c \in Connections : ServerStep(c)
           \/ (\E i \in Invoices : SendInvoice(i)) \/ NameBusiness
  BY DEF Next, ScreenStep, FlushStep, ServerStep

LEMMA TypeStep == Base /\ [Next]_vars => TypeOK'
  <1> SUFFICES ASSUME Base, [Next]_vars PROVE TypeOK'
    OBVIOUS
  <1>1. CASE UNCHANGED vars
    BY <1>1 DEF vars, server, phone, flush, Base, TypeOK, Invoices
  <1>2. ASSUME NEW l \in Lines, LetLineGo(l) PROVE TypeOK'
    <2>1. l \in made
      BY <1>2 DEF LetLineGo, Base, HeldAreMade
    <2> QED BY <1>2, <2>1 DEF LetLineGo, server, flush, Base, TypeOK, Invoices
  <1> QED BY <1>1, <1>2, Steps, ScreenType, FlushType, ServerType, SendingType DEF Base
-----------------------------------------------------------------------------
(* What the server keeps to.                                               *)

\* A request that may be on c next: what it holds was free, or held on c already.
May(c, s) ==
    /\ CallFits(s) /\ Toward(s)
    /\ s.number # 0 => OperatorFree \/ \E r \in call[c] : r.number # 0
    /\ Holds(s) => InvoiceFree(s.meant) \/ \E r \in call[c] : Holds(r) /\ r.meant = s.meant

LEMMA CallMoves ==
    ASSUME TypeOK, SInv, NEW c \in Connections, NEW T, Lone(T), \A s \in T : May(c, s),
           UNCHANGED <<invoices, next, row>>, call' = [call EXCEPT ![c] = T]
    PROVE  SInv'
  <1>1. call'[c] = T /\ \A e \in Connections \ {c} : call'[e] = call[e]
    BY DEF TypeOK
  <1>2. \A i : OnInvoice(i)' = OnInvoice(i)
    BY DEF OnInvoice
  <1>3. Invoices' = Invoices /\ \A i : StartedFor(i)' = StartedFor(i)
    BY <1>2 DEF StartedFor, Invoices
  <1>4. \A r : CallFits(r)' <=> CallFits(r)
    BY <1>3 DEF CallFits
  <1>5. \A r : Toward(r)' <=> Toward(r)
    BY <1>3 DEF Toward, Holds
  <1>6. CallsFit'
    <2>1. ASSUME NEW e \in Connections PROVE Lone(call'[e]) /\ \A r \in call'[e] : CallFits(r)
      BY <1>1 DEF SInv, CallsFit, May
    <2> QED BY <1>4, <2>1 DEF CallsFit, Lone
  <1>7. Towards'
    BY <1>1, <1>5 DEF SInv, Towards, May
  <1>8. Held'
    <2>1. ASSUME NEW e \in Connections, e # c, NEW r \in T, NEW s \in call[e]
          PROVE  /\ r.number = 0 \/ s.number = 0
                 /\ Holds(r) /\ Holds(s) => r.meant # s.meant
      <3>1. s \in Calls
        BY DEF Calls
      <3>2. r.number = 0 \/ s.number = 0
        BY <2>1, <3>1 DEF May, OperatorFree, SInv, Held
      <3>3. Holds(r) /\ Holds(s) => r.meant # s.meant
        BY <2>1, <3>1 DEF May, InvoiceFree, Holds, SInv, Held
      <3> QED BY <3>2, <3>3
    <2>2. SUFFICES ASSUME NEW e \in Connections, NEW f \in Connections, e # f,
                          NEW r \in call'[e], NEW s \in call'[f]
                   PROVE  /\ r.number = 0 \/ s.number = 0
                          /\ Holds(r) /\ Holds(s) => r.meant # s.meant
      BY DEF Held, Holds
    <2>3. CASE e = c
      BY <1>1, <2>1, <2>2, <2>3
    <2>4. CASE f = c
      BY <1>1, <2>1, <2>2, <2>4
    <2>5. CASE e # c /\ f # c
      BY <1>1, <2>2, <2>5 DEF SInv, Held
    <2> QED BY <2>3, <2>4, <2>5
  <1>9. Numbered' /\ RowsFit' /\ Successors' /\ StartedOnce'
    BY <1>3 DEF SInv, Numbered, RowsFit, OneRow, Lone, Successors, StartedOnce
  <1> QED BY <1>6, <1>7, <1>8, <1>9 DEF SInv

\* A request reads, or holds: it is answered, or goes on to what it may.
ReadStep(c) == ReadDraft(c) \/ TakeNumber(c) \/ ReadLine(c) \/ LockMeant(c)

Told(c, a) == a = "ok" => \A r \in call[c] : Arrived(r.item)

LEMMA Onward ==
    ASSUME TypeOK, SInv, NEW c \in Connections, ReadStep(c)
    PROVE  \/ \E a \in {"ok", "refused", "again"} : Answer(c, a) /\ Told(c, a)
           \/ \E r \in call[c] : \E s \in Call : GoOn(c, s) /\ May(c, s) /\ s.item = r.item
  <1> DEFINE Goal == \/ \E a \in {"ok", "refused", "again"} : Answer(c, a) /\ Told(c, a)
                     \/ \E r \in call[c] : \E s \in Call :
                            GoOn(c, s) /\ May(c, s) /\ s.item = r.item
  <1>1. \A r \in call[c] : r \in Call /\ CallFits(r) /\ Toward(r) /\ \A s \in call[c] : s = r
    BY DEF TypeOK, SInv, CallsFit, Lone, Towards
  <1>2. \A a : (\E r \in call[c] : a = "ok" => Arrived(r.item)) => Told(c, a)
    BY <1>1 DEF Told
  <1>3. 0 \notin Invoices /\ \A d \in Drafts : d \notin Lines
    BY DEF Invoices, TypeOK
  <1>4. ASSUME ReadDraft(c) PROVE Goal
    <2>1. PICK r \in At(c, "sent", Drafts) : ReadDraft(c)!1!(r)
      BY <1>4 DEF ReadDraft
    <2>2. r \in call[c] /\ r.stage = "sent" /\ r.item.id \in Drafts
      BY DEF At
    <2>3. CASE Started(r.item.id) /\ Answer(c, "ok")
      <3>1. Told(c, "ok")
        BY <1>2, <2>2, <2>3 DEF Arrived
      <3> QED BY <2>3, <3>1
    <2>4. CASE GoOn(c, [r EXCEPT !.stage = "number"])
      <3> DEFINE s == [r EXCEPT !.stage = "number"]
      <3>1. s \in Call /\ s.item = r.item /\ s.stage = "number" /\ s.to = 0 /\ s.number = 0
        BY <1>1, <2>2 DEF Call, CallFits
      <3> HIDE DEF s
      <3>2. May(c, s)
        BY <1>3, <2>2, <3>1 DEF May, CallFits, Toward, Holds
      <3> QED BY <2>2, <2>4, <3>1, <3>2 DEF s
    <2> QED BY <2>1, <2>3, <2>4
  <1>5. ASSUME TakeNumber(c) PROVE Goal
    <2>1. PICK r \in At(c, "number", Drafts \cup Lines) : TakeNumber(c)!2!(r)
      BY <1>5 DEF TakeNumber
    <2>2. r \in call[c] /\ r.stage = "number"
      BY DEF At
    <2>3. CASE \E a \in {"refused", "again"} : Answer(c, a)
      BY <2>3 DEF Told
    <2>4. CASE GoOn(c, [r EXCEPT !.stage = "insert", !.number = next])
      <3>0. PICK n \in 0..(MaxInvoice + 1) : n = next /\ n # 0
        BY DEF TypeOK
      <3> DEFINE s == [r EXCEPT !.stage = "insert", !.number = n]
      <3>1. s \in Call /\ s.item = r.item /\ s.stage = "insert" /\ s.to = 0 /\ s.number = n
                 /\ s.meant = r.meant /\ s.seq = r.seq
        BY <1>1, <2>2 DEF Call, CallFits
      <3> HIDE DEF s
      <3>2. CallFits(s)
        BY <1>1, <1>3, <2>2, <3>0, <3>1 DEF CallFits
      <3>3. Toward(s)
        BY <1>1, <2>2, <3>1 DEF Toward, Holds, CallFits
      <3>4. May(c, s)
        BY <1>5, <2>2, <3>1, <3>2, <3>3 DEF May, Holds, TakeNumber
      <3> QED BY <2>2, <2>4, <3>0, <3>1, <3>4 DEF s
    <2> QED BY <2>1, <2>3, <2>4
  <1>6. ASSUME ReadLine(c) PROVE Goal
    <2>1. PICK r \in At(c, "sent", Lines) : ReadLine(c)!1!(r)
      BY <1>6 DEF ReadLine
    <2>2. r \in call[c] /\ r.stage = "sent" /\ r.item.id \in Lines
      BY DEF At
    <2>3. CASE row[r.item.id] # {} /\ Answer(c, "ok")
      <3>1. Told(c, "ok")
        BY <1>2, <1>3, <2>2, <2>3 DEF Arrived
      <3> QED BY <2>3, <3>1
    <2>4. CASE Answer(c, "refused")
      BY <2>4 DEF Told
    <2>5. ASSUME NEW i \in Invoices, GoOn(c, [r EXCEPT !.stage = "lock", !.meant = i]) PROVE Goal
      <3> DEFINE s == [r EXCEPT !.stage = "lock", !.meant = i]
      <3>0. i \in 0..MaxInvoice
        BY DEF TypeOK, Invoices
      <3>1. s \in Call /\ s.item = r.item /\ s.stage = "lock" /\ s.to = 0 /\ s.number = 0
                 /\ s.meant = i
        BY <1>1, <2>2, <3>0 DEF Call, CallFits
      <3> HIDE DEF s
      <3>2. May(c, s)
        BY <1>3, <2>2, <3>1 DEF May, CallFits, Toward, Holds
      <3> QED BY <2>2, <2>5, <3>1, <3>2 DEF s
    <2> QED BY <2>1, <2>3, <2>4, <2>5 DEF Named
  <1>7. ASSUME LockMeant(c) PROVE Goal
    <2>1. PICK r \in At(c, "lock", Lines) : LockMeant(c)!1!(r)
      BY <1>7 DEF LockMeant
    <2>2. r \in call[c] /\ r.stage = "lock" /\ r.item.id \in Lines /\ r.meant \in Invoices
      BY <1>1 DEF At, CallFits
    <2>3. ASSUME NEW i \in Invoices, i = r.meant \/ i \in StartedFor(r.meant),
                 GoOn(c, [r EXCEPT !.stage = "insert", !.to = i, !.seq = NextSeq(i)])
          PROVE  Goal
      <3>1. PICK n \in Nat \ {0} : n = NextSeq(i)
        BY NextSeqType DEF SInv, RowsFit
      <3> DEFINE s == [r EXCEPT !.stage = "insert", !.to = i, !.seq = n]
      <3>0. i \in 0..MaxInvoice
        BY DEF TypeOK, Invoices
      <3>2. s \in Call /\ s.item = r.item /\ s.stage = "insert" /\ s.to = i /\ s.number = 0
                 /\ s.meant = r.meant /\ s.seq = n
        BY <1>1, <2>2, <3>0, <3>1 DEF Call, CallFits
      <3> HIDE DEF s
      <3>3. CallFits(s)
        BY <1>3, <2>2, <3>1, <3>2 DEF CallFits
      <3>4. Toward(s)
        BY <1>3, <2>3, <3>2 DEF Toward
      <3>5. May(c, s)
        BY <2>1, <3>2, <3>3, <3>4 DEF May
      <3> QED BY <2>2, <2>3, <3>1, <3>2, <3>5 DEF s
    <2>4. ASSUME invoices[r.meant].out, StartedFor(r.meant) = {},
                 GoOn(c, [r EXCEPT !.stage = "number", !.seq = 1])
          PROVE  Goal
      <3> DEFINE s == [r EXCEPT !.stage = "number", !.seq = 1]
      <3>1. s \in Call /\ s.item = r.item /\ s.stage = "number" /\ s.to = 0 /\ s.number = 0
                 /\ s.meant = r.meant /\ s.seq = 1
        BY <1>1, <2>2 DEF Call, CallFits
      <3> HIDE DEF s
      <3>2. CallFits(s)
        BY <2>2, <3>1 DEF CallFits
      <3>3. Toward(s)
        BY <2>4, <3>1 DEF Toward
      <3>4. May(c, s)
        BY <2>1, <3>1, <3>2, <3>3 DEF May
      <3> QED BY <2>2, <2>4, <3>1, <3>4 DEF s
    <2>5. StartedFor(r.meant) \subseteq Invoices
      BY DEF StartedFor
    <2> QED BY <2>1, <2>2, <2>3, <2>4, <2>5
  <1> QED BY <1>4, <1>5, <1>6, <1>7 DEF ReadStep

\* What the others are is not disturbed by an invoice started, a line put on one
\* or an invoice sent, if it takes from none what it holds.
LEMMA OthersFit ==
    ASSUME TypeOK, SInv, \A e \in Connections : call'[e] \subseteq call[e],
           Invoices \subseteq Invoices',
           \A i \in Invoices : invoices[i].out => invoices'[i].out,
           \A e \in Connections : \A s \in call'[e] : s.number # 0 => next' = next,
           \A e \in Connections : \A s \in call'[e] : Holds(s) =>
               /\ StartedFor(s.meant) = {} => StartedFor(s.meant)' = {}
               /\ \A j \in StartedFor(s.meant) : invoices'[j].out \/ j \in StartedFor(s.meant)'
    PROVE  CallsFit' /\ Held' /\ Towards'
  <1>1. ASSUME NEW e \in Connections, NEW s \in call'[e] PROVE CallFits(s)'
    <2>1. CallFits(s) /\ (s.number # 0 => next' = next) /\ Invoices \subseteq Invoices'
      BY <1>1 DEF SInv, CallsFit
    <2> QED BY <2>1 DEF CallFits
  <1>2. CallsFit'
    BY <1>1 DEF SInv, CallsFit, Lone
  <1>3. Held'
    BY DEF SInv, Held, Holds
  <1>4. ASSUME NEW e \in Connections, NEW s \in call'[e] PROVE Toward(s)'
    <2>1. SUFFICES ASSUME Holds(s)
                   PROVE  /\ s.to = 0 => invoices'[s.meant].out /\ StartedFor(s.meant)' = {}
                          /\ s.to \notin {0, s.meant} =>
                                 invoices'[s.to].out \/ s.to \in StartedFor(s.meant)'
      BY DEF Toward, Holds
    <2>2. Toward(s) /\ CallFits(s) /\ s.meant \in Invoices /\ (s.to # 0 => s.to \in Invoices)
      BY <1>1, <2>1 DEF SInv, CallsFit, Towards, CallFits, Holds
    <2> QED BY <2>1, <2>2 DEF Toward
  <1>5. Towards'
    BY <1>4 DEF Towards
  <1> QED BY <1>2, <1>3, <1>5

\* Where a line comes to be on an invoice, that invoice alone has more on it.
LEMMA IntoPlaces ==
    ASSUME TypeOK, SInv, NEW r, NEW i, r.item.id \in Lines, ~Had(r), Into(r, i)
    PROVE  \E k :
               /\ k.invoice = i /\ k.from = IF i = r.meant THEN 0 ELSE r.meant
               /\ row'[r.item.id] = {k}
               /\ \A l \in Lines : l # r.item.id => row'[l] = row[l]
               /\ OnInvoice(i)' = OnInvoice(i) \cup {k}
               /\ \A j : j # i => OnInvoice(j)' = OnInvoice(j)
  <1> DEFINE from == IF i = r.meant THEN 0 ELSE r.meant
             k == [invoice |-> i, seq |-> r.seq, from |-> from]
  <1>1. k.invoice = i /\ k.from = IF i = r.meant THEN 0 ELSE r.meant
    OBVIOUS
  <1>2. row' = [row EXCEPT ![r.item.id] = {k}]
    BY DEF Into
  <1> HIDE DEF k
  <1>3. row'[r.item.id] = {k} /\ row[r.item.id] = {}
    BY <1>2 DEF TypeOK, Had
  <1>4. \A l \in Lines : l # r.item.id => row'[l] = row[l]
    BY <1>2 DEF TypeOK
  <1>5. UNION {row'[l] : l \in Lines} = (UNION {row[l] : l \in Lines}) \cup {k}
    <2>1. ASSUME NEW x \in UNION {row'[l] : l \in Lines}
          PROVE  x \in (UNION {row[l] : l \in Lines}) \cup {k}
      BY <1>3, <1>4
    <2>2. ASSUME NEW x \in (UNION {row[l] : l \in Lines}) \cup {k}
          PROVE  x \in UNION {row'[l] : l \in Lines}
      BY <1>3, <1>4
    <2> QED BY <2>1, <2>2
  <1>6. OnInvoice(i)' = OnInvoice(i) \cup {k} /\ \A j : j # i => OnInvoice(j)' = OnInvoice(j)
    BY <1>1, <1>5 DEF OnInvoice
  <1> QED BY <1>1, <1>3, <1>4, <1>6

LEMMA RowsStay ==
    ASSUME TypeOK, SInv, NEW r, NEW i, r.item.id \in Lines, r.meant \in Invoices,
           ~Had(r), Into(r, i), Invoices \subseteq Invoices', i \in Invoices'
    PROVE  RowsFit'
  <1>1. PICK k : /\ row'[r.item.id] = {k} /\ k.invoice = i
                 /\ k.from = IF i = r.meant THEN 0 ELSE r.meant
                 /\ \A l \in Lines : l # r.item.id => row'[l] = row[l]
    BY IntoPlaces
  <1>2. ASSUME NEW l \in Lines
        PROVE  /\ Lone(row'[l])
               /\ \A j \in row'[l] : j.invoice \in Invoices' /\ j.from \in Invoices' \cup {0}
    BY <1>1 DEF SInv, RowsFit, OneRow, Lone
  <1> QED BY <1>2 DEF RowsFit, OneRow, Lone

LEMMA Puts ==
    ASSUME TypeOK, SInv, NEW c \in Connections, NEW r \in call[c],
           r.stage = "insert", r.item.id \in Lines, r.to # 0, ~Had(r), ~Gone(r),
           Into(r, r.to), UNCHANGED <<invoices, next>>, call' = [call EXCEPT ![c] = {}]
    PROVE  SInv'
  <1>1. CallFits(r) /\ Toward(r) /\ Holds(r)
    BY DEF SInv, CallsFit, Towards, Holds
  <1>2. r.to \in Invoices /\ r.meant \in Invoices /\ Invoices' = Invoices
    BY <1>1 DEF CallFits, Invoices
  <1>3. r.to = r.meant \/ r.to \in StartedFor(r.meant)
    BY <1>1 DEF Toward, Gone
  <1>4. PICK k : /\ OnInvoice(r.to)' = OnInvoice(r.to) \cup {k}
                 /\ \A j : j # r.to => OnInvoice(j)' = OnInvoice(j)
                 /\ k.from = IF r.to = r.meant THEN 0 ELSE r.meant
    BY IntoPlaces
  <1>5. 0 \notin Invoices
    BY DEF TypeOK, Invoices
  <1>6. ASSUME NEW i \in Invoices PROVE StartedFor(i)' = StartedFor(i)
    <2>1. ASSUME NEW j \in Invoices
          PROVE  (\E x \in OnInvoice(j)' : x.from = i) /\ ~invoices[j].out <=>
                 (\E x \in OnInvoice(j) : x.from = i) /\ ~invoices[j].out
      <3>1. CASE j # r.to
        BY <1>4, <3>1
      <3>2. CASE j = r.to
        <4>1. k.from = i => j \in StartedFor(i)
          BY <1>3, <1>4, <1>5, <3>2
        <4> QED BY <1>4, <3>2, <4>1 DEF StartedFor
      <3> QED BY <3>1, <3>2
    <2> QED BY <1>2, <2>1 DEF StartedFor
  <1>7. \A e \in Connections : call'[e] \subseteq call[e]
    BY DEF TypeOK
  <1>8. \A e \in Connections : \A s \in call[e] : Holds(s) => s.meant \in Invoices
    BY DEF SInv, CallsFit, CallFits, Holds
  <1>9. CallsFit' /\ Held' /\ Towards'
    BY <1>2, <1>6, <1>7, <1>8, OthersFit
  <1>10. RowsFit'
    BY <1>2, RowsStay
  <1>11. Successors'
    BY <1>2, <1>6 DEF SInv, Successors, Lone
  <1>12. Numbered' /\ StartedOnce'
    BY <1>2 DEF SInv, Numbered, StartedOnce
  <1> QED BY <1>9, <1>10, <1>11, <1>12 DEF SInv

LEMMA Starts ==
    ASSUME TypeOK, SInv, NEW c \in Connections, NEW r \in call[c],
           r.stage = "insert", r.to = 0, StartIn(r), call' = [call EXCEPT ![c] = {}],
           \/ r.item.id \in Drafts /\ ~Started(r.item.id) /\ row' = row
           \/ r.item.id \in Lines /\ ~Had(r) /\ Into(r, Len(invoices) + 1)
    PROVE  SInv'
  <1>0. PICK n : n = Len(invoices) + 1
    OBVIOUS
  <1> DEFINE Draft == r.item.id \in Drafts /\ ~Started(r.item.id) /\ row' = row
             Line == r.item.id \in Lines /\ ~Had(r) /\ Into(r, n)
  <1>1. CallFits(r) /\ Toward(r) /\ r.number = n /\ next = n /\ \A s \in call[c] : s = r
    BY <1>0 DEF SInv, CallsFit, Towards, CallFits, Numbered, Lone
  <1>2. NewInvoice(r).number = n /\ NewInvoice(r).uuid = {r.item.id} \cap Drafts
            /\ ~NewInvoice(r).out
    BY <1>1 DEF NewInvoice
  <1>3. /\ Invoices' = Invoices \cup {n} /\ n \notin Invoices /\ n # 0 /\ 0 \notin Invoices
        /\ \A i \in Invoices : invoices'[i] = invoices[i]
        /\ invoices'[n] = NewInvoice(r)
        /\ next' = n + 1 /\ Len(invoices') = n
    BY <1>0, <1>1 DEF StartIn, TypeOK, Invoices
  <1>4. Draft \/ Line
    BY <1>0
  <1>5. OnInvoice(n) = {}
    BY <1>3 DEF SInv, RowsFit, OnInvoice
  <1>6. StartedFor(n) = {}
    <2>1. \A j : \A k \in OnInvoice(j) : k.from # n
      BY <1>3 DEF SInv, RowsFit, OnInvoice
    <2> QED BY <2>1 DEF StartedFor
  <1>7. \A j \in Invoices : OnInvoice(j)' = OnInvoice(j)
    <2>1. CASE Draft
      BY <2>1 DEF OnInvoice
    <2>2. CASE Line
      BY <2>2, <1>3, IntoPlaces
    <2> QED BY <1>4, <2>1, <2>2
  <1>8. Draft => OnInvoice(n)' = {}
    BY <1>5 DEF OnInvoice
  <1>9. Line => /\ r.meant \in Invoices /\ StartedFor(r.meant) = {}
                /\ \E k : OnInvoice(n)' = {k} /\ k.from = r.meant
    <2>1. SUFFICES ASSUME Line
                   PROVE  /\ r.meant \in Invoices /\ StartedFor(r.meant) = {}
                          /\ \E k : OnInvoice(n)' = {k} /\ k.from = r.meant
      OBVIOUS
    <2>2. r.meant \in Invoices /\ StartedFor(r.meant) = {}
      BY <1>1, <2>1 DEF CallFits, Toward, Holds
    <2>3. PICK k : /\ OnInvoice(n)' = OnInvoice(n) \cup {k}
                   /\ k.from = IF n = r.meant THEN 0 ELSE r.meant
      BY <2>1, IntoPlaces
    <2>4. OnInvoice(n)' = {k} /\ k.from = r.meant
      BY <1>3, <1>5, <2>2, <2>3
    <2> QED BY <2>2, <2>4
  <1>10. \A i \in Invoices \cup {n} :
             StartedFor(i)' = IF Line /\ i = r.meant THEN {n} ELSE StartedFor(i)
    <2>1. ASSUME NEW i \in Invoices \cup {n}, NEW j \in Invoices
          PROVE  j \in StartedFor(i)' <=> j \in StartedFor(i)
      BY <1>3, <1>7 DEF StartedFor
    <2>2. ASSUME NEW i \in Invoices \cup {n}
          PROVE  n \in StartedFor(i)' <=> Line /\ i = r.meant
      <3>1. n \in StartedFor(i)' <=> \E k \in OnInvoice(n)' : k.from = i
        BY <1>2, <1>3 DEF StartedFor
      <3>2. CASE Line
        BY <1>9, <3>1, <3>2
      <3>3. CASE ~Line
        BY <1>4, <1>8, <3>1, <3>3
      <3> QED BY <3>2, <3>3
    <2>3. ASSUME NEW i \in Invoices \cup {n}
          PROVE  StartedFor(i)' \subseteq Invoices \cup {n} /\ StartedFor(i) \subseteq Invoices
      BY <1>3 DEF StartedFor
    <2>4. Line => r.meant \in Invoices /\ StartedFor(r.meant) = {}
      BY <1>9
    <2> HIDE DEF Line
    <2>5. ASSUME NEW i \in Invoices \cup {n}
          PROVE  StartedFor(i)' = IF Line /\ i = r.meant THEN {n} ELSE StartedFor(i)
      <3>1. CASE Line /\ i = r.meant
        <4>1. StartedFor(i) = {} /\ n \in StartedFor(i)' /\ StartedFor(i)' \subseteq Invoices \cup {n}
          BY <2>2, <2>3, <2>4, <3>1
        <4>2. StartedFor(i)' = {n}
          BY <2>1, <4>1
        <4> QED BY <3>1, <4>2
      <3>2. CASE ~(Line /\ i = r.meant)
        <4>1. n \notin StartedFor(i)' /\ n \notin StartedFor(i)
          BY <1>3, <2>2, <2>3, <3>2
        <4>2. \A j : j \in StartedFor(i)' <=> j \in StartedFor(i)
          BY <2>1, <2>3, <4>1, Zenon
        <4>3. StartedFor(i)' = StartedFor(i)
          BY <4>2, Zenon
        <4> QED BY <3>2, <4>3
      <3> QED BY <3>1, <3>2
    <2> QED BY <2>5
  <1>11. CallsFit' /\ Held' /\ Towards'
    <2>1. \A e \in Connections : call'[e] \subseteq call[e] /\ (e = c => call'[e] = {})
      BY DEF TypeOK
    <2>2. ASSUME NEW e \in Connections, NEW s \in call'[e]
          PROVE  /\ s.number = 0
                 /\ Holds(s) => s.meant \in Invoices /\ ~(Line /\ s.meant = r.meant)
      <3>1. e # c /\ s \in call[e]
        BY <2>1
      <3>2. s.number = 0
        BY <1>1, <1>3, <3>1 DEF SInv, Held
      <3>3. Holds(s) => s.meant \in Invoices
        BY <3>1 DEF SInv, CallsFit, CallFits, Holds
      <3>4. Holds(s) => ~(Line /\ s.meant = r.meant)
        BY <3>1 DEF SInv, Held, Holds
      <3> QED BY <3>2, <3>3, <3>4
    <2>3. \A e \in Connections : \A s \in call'[e] : Holds(s) =>
               /\ StartedFor(s.meant) = {} => StartedFor(s.meant)' = {}
               /\ \A j \in StartedFor(s.meant) : invoices'[j].out \/ j \in StartedFor(s.meant)'
      BY <1>10, <2>2
    <2>4. Invoices \subseteq Invoices' /\ \A i \in Invoices : invoices[i].out => invoices'[i].out
      BY <1>3
    <2>5. \A e \in Connections : \A s \in call'[e] : s.number # 0 => next' = next
      BY <2>2
    <2>6. \A e \in Connections : call'[e] \subseteq call[e]
      BY <2>1
    <2> HIDE DEF Draft, Line
    <2> QED BY <2>3, <2>4, <2>5, <2>6, OthersFit
  <1>12. RowsFit'
    <2>1. CASE Draft
      BY <1>3, <2>1 DEF SInv, RowsFit, OneRow, Lone
    <2>2. CASE Line
      BY <1>3, <1>9, <2>2, RowsStay
    <2> QED BY <1>4, <2>1, <2>2
  <1>13. Successors'
    <2>1. \A i \in Invoices : Lone(StartedFor(i))
      BY DEF SInv, Successors
    <2>2. ASSUME NEW i \in Invoices' PROVE Lone(StartedFor(i)')
      BY <1>3, <1>6, <1>10, <2>1 DEF Lone
    <2> QED BY <2>2 DEF Successors, Lone
  <1>14. Numbered'
    BY <1>1, <1>2, <1>3 DEF SInv, Numbered
  <1>15. StartedOnce'
    <2>1. \A i \in Invoices : invoices[i].uuid \cap NewInvoice(r).uuid = {}
      <3>1. CASE Draft
        BY <1>2, <3>1 DEF Started
      <3>2. CASE Line
        BY <1>2, <3>2
      <3> QED BY <1>4, <3>1, <3>2
    <2>2. ASSUME NEW i \in Invoices', NEW j \in Invoices',
                 invoices'[i].uuid \cap invoices'[j].uuid # {}
          PROVE  i = j
      BY <1>3, <2>1, <2>2 DEF SInv, StartedOnce
    <2> QED BY <2>2 DEF StartedOnce
  <1> QED BY <1>11, <1>12, <1>13, <1>14, <1>15 DEF SInv

LEMMA Sends ==
    ASSUME TypeOK, SInv, NEW i \in Invoices, SendInvoice(i)
    PROVE  SInv'
  <1>1. /\ Invoices' = Invoices /\ Len(invoices') = Len(invoices)
        /\ \A j \in Invoices : /\ invoices'[j].uuid = invoices[j].uuid
                               /\ invoices'[j].number = invoices[j].number
                               /\ invoices[j].out => invoices'[j].out
        /\ UNCHANGED <<next, row, call>>
    BY DEF SendInvoice, TypeOK, Invoices, Invoice
  <1>2. \A j : OnInvoice(j)' = OnInvoice(j)
    BY <1>1 DEF OnInvoice
  <1>3. ASSUME NEW m
        PROVE  /\ StartedFor(m)' \subseteq StartedFor(m)
               /\ \A j \in StartedFor(m) : invoices'[j].out \/ j \in StartedFor(m)'
    <2>1. ASSUME NEW j \in StartedFor(m)' PROVE j \in StartedFor(m)
      BY <1>1, <1>2 DEF StartedFor
    <2>2. ASSUME NEW j \in StartedFor(m), ~invoices'[j].out PROVE j \in StartedFor(m)'
      BY <1>1, <1>2, <2>2 DEF StartedFor
    <2> QED BY <2>1, <2>2
  <1>4. CallsFit' /\ Held' /\ Towards'
    <2>1. \A e \in Connections : call'[e] \subseteq call[e]
      BY <1>1
    <2>2. \A m : /\ StartedFor(m) = {} => StartedFor(m)' = {}
                 /\ \A j \in StartedFor(m) : invoices'[j].out \/ j \in StartedFor(m)'
      BY <1>3
    <2>3. Invoices \subseteq Invoices' /\ \A j \in Invoices : invoices[j].out => invoices'[j].out
      BY <1>1
    <2>4. next' = next
      BY <1>1
    <2> QED BY <2>1, <2>2, <2>3, <2>4, OthersFit
  <1>5. Successors'
    <2>1. ASSUME NEW m \in Invoices' PROVE Lone(StartedFor(m)')
      BY <1>1, <1>3 DEF SInv, Successors, Lone
    <2> QED BY <2>1 DEF Successors, Lone
  <1>6. RowsFit' /\ Numbered'
    <2>1. RowsFit'
      BY <1>1 DEF SInv, RowsFit, OneRow, Lone
    <2>2. Numbered'
      BY <1>1 DEF SInv, Numbered
    <2> QED BY <2>1, <2>2
  <1>7. StartedOnce'
    <2>1. ASSUME NEW j \in Invoices', NEW k \in Invoices',
                 invoices'[j].uuid \cap invoices'[k].uuid # {}
          PROVE  j = k
      BY <1>1, <2>1 DEF SInv, StartedOnce
    <2> QED BY <2>1 DEF StartedOnce
  <1> QED BY <1>4, <1>5, <1>6, <1>7 DEF SInv

\* What an insert comes to.
Nothing(r, a) == UNCHANGED <<invoices, next, row>> /\ (a = "ok" => Arrived(r.item))
LineOn(r) ==
    /\ r.item.id \in Lines /\ r.to # 0 /\ ~Had(r) /\ ~Gone(r)
    /\ Into(r, r.to) /\ UNCHANGED <<invoices, next>>
Starting(r) ==
    /\ r.to = 0 /\ StartIn(r)
    /\ \/ r.item.id \in Drafts /\ ~Started(r.item.id) /\ row' = row
       \/ r.item.id \in Lines /\ ~Had(r) /\ Into(r, Len(invoices) + 1)

Inserts(c, r, a) ==
    /\ r.stage = "insert" /\ Answer(c, a) /\ UNCHANGED <<named, phone>>
    /\ r.item.id \in Drafts => r.number \notin Numbers \/ a = "ok"
    /\ Nothing(r, a) \/ LineOn(r) \/ Starting(r)

LEMMA Insertion ==
    ASSUME TypeOK, SInv, NEW c \in Connections, StartDraft(c) \/ AddLine(c)
    PROVE  \E r \in call[c] : \E a \in {"ok", "refused", "again"} : Inserts(c, r, a)
  <1>1. ASSUME StartDraft(c)
        PROVE  \E r \in call[c] : \E a \in {"ok", "refused", "again"} : Inserts(c, r, a)
    <2>1. PICK r \in At(c, "insert", Drafts) : StartDraft(c)!1!(r)
      BY <1>1 DEF StartDraft
    <2>2. r \in call[c] /\ r.stage = "insert" /\ r.item.id \in Drafts
      BY DEF At
    <2>3. r.to = 0 /\ r.number = next
      BY <2>2 DEF SInv, CallsFit, CallFits
    <2>4. r.number \notin Numbers
      BY <2>3 DEF SInv, Numbered, Numbers, Invoices, TypeOK
    <2>5. UNCHANGED <<named, row, phone>>
      BY <1>1 DEF StartDraft
    <2>6. CASE Started(r.item.id) /\ Answer(c, "ok") /\ UNCHANGED <<invoices, next>>
      <3>1. Nothing(r, "ok")
        BY <2>2, <2>5, <2>6 DEF Nothing, Arrived
      <3> QED BY <2>2, <2>4, <2>5, <2>6, <3>1 DEF Inserts
    <2>7. CASE ~Started(r.item.id) /\ StartOr(c, r)
      <3>1. StartIn(r) /\ Answer(c, "ok")
        BY <2>4, <2>7 DEF StartOr
      <3>2. Starting(r)
        BY <2>2, <2>3, <2>5, <2>7, <3>1 DEF Starting
      <3> QED BY <2>2, <2>4, <2>5, <3>1, <3>2 DEF Inserts
    <2>8. CASE Answer(c, "refused") /\ UNCHANGED <<invoices, next>>
      <3>1. Nothing(r, "refused")
        BY <2>5, <2>8 DEF Nothing
      <3> QED BY <2>2, <2>4, <2>5, <2>8, <3>1 DEF Inserts
    <2> QED BY <2>1, <2>6, <2>7, <2>8
  <1>2. ASSUME AddLine(c)
        PROVE  \E r \in call[c] : \E a \in {"ok", "refused", "again"} : Inserts(c, r, a)
    <2>1. PICK r \in At(c, "insert", Lines) : AddLine(c)!1!(r)
      BY <1>2 DEF AddLine
    <2>2. r \in call[c] /\ r.stage = "insert" /\ r.item.id \in Lines /\ r.item.id \notin Drafts
      BY DEF At
    <2>3. UNCHANGED <<named, phone>>
      BY <1>2 DEF AddLine
    <2>4. PICK a \in {"ok", "refused", "again"} :
              Answer(c, a) /\ (Nothing(r, a) \/ LineOn(r) \/ Starting(r))
      BY <2>1, <2>2 DEF Nothing, LineOn, Starting, Arrived, Had
    <2>5. Inserts(c, r, a)
      BY <2>2, <2>3, <2>4 DEF Inserts
    <2> QED BY <2>2, <2>5
  <1> QED BY <1>1, <1>2

LEMMA ServerKeeps ==
    ASSUME TypeOK, SInv, NEW c \in Connections, ServerStep(c)
    PROVE  SInv'
  <1>1. \A a : Answer(c, a) => call' = [call EXCEPT ![c] = {}]
    BY DEF Answer
  <1>2. ASSUME call' = [call EXCEPT ![c] = {}], UNCHANGED <<invoices, next, row>> PROVE SInv'
    BY <1>2, CallMoves DEF Lone
  <1>3. CASE StrayLost(c)
    BY <1>2, <1>3 DEF StrayLost, server
  <1>4. CASE NotNow(c)
    BY <1>1, <1>2, <1>4 DEF NotNow, server
  <1>5. CASE ReadStep(c)
    <2>1. UNCHANGED <<invoices, next, row>>
      BY <1>5 DEF ReadStep, ReadDraft, TakeNumber, ReadLine, LockMeant, server
    <2>2. CASE \E a : Answer(c, a)
      BY <1>1, <1>2, <2>1, <2>2
    <2>3. ASSUME NEW s \in Call, GoOn(c, s), May(c, s) PROVE SInv'
      <3>1. call' = [call EXCEPT ![c] = {s}] /\ Lone({s}) /\ \A x \in {s} : May(c, x)
        BY <2>3 DEF GoOn, Lone
      <3> QED BY <2>1, <3>1, CallMoves
    <2> QED BY <1>5, <2>2, <2>3, Onward
  <1>6. CASE StartDraft(c) \/ AddLine(c)
    <2>1. PICK r \in call[c], a \in {"ok", "refused", "again"} : Inserts(c, r, a)
      BY <1>6, Insertion
    <2>2. call' = [call EXCEPT ![c] = {}] /\ r.stage = "insert"
      BY <1>1, <2>1 DEF Inserts
    <2>3. CASE Nothing(r, a)
      BY <1>2, <2>2, <2>3 DEF Nothing
    <2>4. CASE LineOn(r)
      BY <2>2, <2>4, Puts DEF LineOn
    <2>5. CASE Starting(r)
      BY <2>2, <2>5, Starts DEF Starting
    <2> QED BY <2>1, <2>3, <2>4, <2>5 DEF Inserts
  <1> QED BY <1>3, <1>4, <1>5, <1>6 DEF ServerStep, ReadStep

LEMMA ServerStays ==
    ASSUME TypeOK, SInv,
           \/ UNCHANGED vars
           \/ \E p \in Pages : ScreenStep(p) \/ FlushStep(p)
           \/ \E l \in Lines : LetLineGo(l)
           \/ (\E i \in Invoices : SendInvoice(i)) \/ NameBusiness
    PROVE  SInv'
  <1>1. ASSUME UNCHANGED <<invoices, next, row, call>> PROVE SInv'
    <2>1. CASE Connections = {}
      BY <1>1, <2>1 DEF SInv, CallsFit, Numbered, RowsFit, OneRow, Lone, Held, Towards,
                        Successors, StartedOnce, StartedFor, OnInvoice, Invoices
    <2>2. ASSUME NEW c \in Connections PROVE SInv'
      <3>1. call' = [call EXCEPT ![c] = call[c]] /\ Lone(call[c])
        BY <1>1 DEF TypeOK, SInv, CallsFit
      <3>2. \A s \in call[c] : May(c, s)
        BY DEF May, SInv, CallsFit, Towards
      <3> QED BY <1>1, <3>1, <3>2, CallMoves
    <2> QED BY <2>1, <2>2
  <1>2. ASSUME NEW p \in Pages, NEW c \in Connections, Post(p, c) PROVE SInv'
    <2>1. PICK x : call' = [call EXCEPT ![c] =
               {[item |-> x, stage |-> "sent", meant |-> 0, to |-> 0, number |-> 0, seq |-> 0]}]
      BY <1>2 DEF Post
    <2> DEFINE s == [item |-> x, stage |-> "sent", meant |-> 0, to |-> 0, number |-> 0, seq |-> 0]
    <2>2. May(c, s) /\ Lone({s})
      BY DEF May, CallFits, Toward, Holds, Lone
    <2>3. UNCHANGED <<invoices, next, row>>
      BY <1>2 DEF Post, server
    <2> HIDE DEF s
    <2> QED BY <2>1, <2>2, <2>3, CallMoves DEF s
  <1>3. ASSUME NEW p \in Pages, ScreenStep(p) PROVE SInv'
    BY <1>1, <1>3 DEF ScreenStep, StartOnPhone, BeginDiscard, OpenFix, OpenForm, SaveLine,
                      DiscardNext, PageGone, server
  <1>4. ASSUME NEW p \in Pages, FlushStep(p) PROVE SInv'
    BY <1>1, <1>2, <1>4 DEF FlushStep, BeginFlush, ReadDrafts, ReadLines, Settle, Offline, server
  <1> QED BY <1>1, <1>3, <1>4, Sends DEF vars, server, LetLineGo, NameBusiness

LEMMA SInvStep == Base /\ SInv /\ [Next]_vars => SInv'
  BY Steps, ServerKeeps, ServerStays DEF Base
-----------------------------------------------------------------------------
(* What is in stays in, and what a page is told is so.                     *)

LEMMA Arrives ==
    ASSUME Base, SInv, [Next]_vars
    PROVE  /\ \A d : Started(d) => Started(d)'
           /\ \A l \in Lines : row[l] # {} => row'[l] # {}
  <1> DEFINE Goal == /\ \A d : Started(d) => Started(d)'
                     /\ \A l \in Lines : row[l] # {} => row'[l] # {}
  <1>1. TypeOK
    BY DEF Base
  <1>2. ASSUME UNCHANGED <<invoices, row>> PROVE Goal
    BY <1>2 DEF Started, Invoices
  <1>3. ASSUME NEW i \in Invoices, SendInvoice(i) PROVE Goal
    <2>1. Invoices' = Invoices /\ \A j \in Invoices : invoices'[j].uuid = invoices[j].uuid
      BY <1>1, <1>3 DEF SendInvoice, TypeOK, Invoices, Invoice
    <2>2. row' = row
      BY <1>3 DEF SendInvoice
    <2> QED BY <2>1, <2>2 DEF Started
  <1>4. ASSUME NEW c \in Connections, ServerStep(c) PROVE Goal
    <2>1. CASE StrayLost(c) \/ NotNow(c) \/ ReadStep(c)
      BY <1>2, <2>1 DEF StrayLost, NotNow, ReadStep, ReadDraft, TakeNumber, ReadLine,
                        LockMeant, server
    <2>2. CASE StartDraft(c) \/ AddLine(c)
      <3>1. PICK r \in call[c], a \in {"ok", "refused", "again"} : Inserts(c, r, a)
        BY <1>1, <2>2, Insertion
      <3>2. CASE Nothing(r, a)
        BY <1>2, <3>2 DEF Nothing
      <3>3. ASSUME NEW i, r.item.id \in Lines, Into(r, i)
            PROVE  \A l \in Lines : row[l] # {} => row'[l] # {}
        BY <1>1, <3>3 DEF Into, TypeOK
      <3>4. CASE LineOn(r)
        BY <3>3, <3>4 DEF LineOn, Started, Invoices
      <3>5. CASE Starting(r)
        <4>1. Invoices \subseteq Invoices' /\ \A i \in Invoices : invoices'[i] = invoices[i]
          BY <1>1, <3>5 DEF Starting, StartIn, TypeOK, Invoices
        <4>2. \A l \in Lines : row[l] # {} => row'[l] # {}
          BY <3>3, <3>5 DEF Starting
        <4> QED BY <4>1, <4>2 DEF Started
      <3> QED BY <3>1, <3>2, <3>4, <3>5 DEF Inserts
    <2> QED BY <1>4, <2>1, <2>2 DEF ServerStep, ReadStep
  <1>5. ASSUME NEW p \in Pages, ScreenStep(p) \/ FlushStep(p) PROVE Goal
    BY <1>2, <1>5 DEF ScreenStep, StartOnPhone, BeginDiscard, OpenFix, OpenForm, SaveLine,
                      DiscardNext, PageGone, FlushStep, BeginFlush, ReadDrafts, ReadLines, Post,
                      Settle, Offline, server
  <1> QED BY <1>2, <1>3, <1>4, <1>5, Steps DEF vars, server, LetLineGo, NameBusiness

\* Arrived once the step is taken.
IsIn(x) ==
    IF x.id \in Drafts THEN \E i \in Invoices' : x.id \in invoices'[i].uuid ELSE row'[x.id] # {}

Answers(c) ==
    /\ out' = out
    /\ \A e \in Connections : \A s \in call'[e] : \E r \in call[e] : s.item = r.item
    /\ \A p \in Pages :
           \/ reply'[p] = reply[p]
           \/ \E r \in call[c] :
                  (\E o \in out[p] : o.on = c) /\ (reply'[p] = "ok" => IsIn(r.item))

LEMMA Answering ==
    ASSUME TypeOK, NEW c \in Connections, NEW r \in call[c], NEW a, Answer(c, a),
           a = "ok" => IsIn(r.item)
    PROVE  Answers(c)
  <1>1. out' = out /\ \A e \in Connections : call'[e] \subseteq call[e]
    BY DEF Answer, TypeOK
  <1>2. ASSUME NEW p \in Pages
        PROVE  reply'[p] = IF \E o \in out[p] : o.on = c THEN a ELSE reply[p]
    BY DEF Answer
  <1>3. ASSUME NEW p \in Pages
        PROVE  \/ reply'[p] = reply[p]
               \/ (\E o \in out[p] : o.on = c) /\ (reply'[p] = "ok" => IsIn(r.item))
    BY <1>2
  <1>4. \A e \in Connections : \A s \in call'[e] : \E k \in call[e] : s.item = k.item
    BY <1>1
  <1>5. \A p \in Pages :
           \/ reply'[p] = reply[p]
           \/ \E k \in call[c] :
                  (\E o \in out[p] : o.on = c) /\ (reply'[p] = "ok" => IsIn(k.item))
    BY <1>3
  <1> QED BY <1>1, <1>4, <1>5 DEF Answers

\* A step of the server tells "ok" only of what is in.
LEMMA Tells ==
    ASSUME Base, SInv, [Next]_vars, NEW c \in Connections, ServerStep(c)
    PROVE  Answers(c)
  <1>1. TypeOK /\ \A r \in call[c] : r.item.id \in Drafts \cup Lines
    <2>1. \A x \in Item : x.id \in Drafts \cup Lines
      BY DEF Item, DraftItem, LineItem
    <2>2. TypeOK /\ \A r \in call[c] : r \in Call
      BY DEF Base, TypeOK
    <2>3. \A r \in Call : r.item \in Item
      BY DEF Call
    <2> QED BY <2>1, <2>2, <2>3
  <1>2. ASSUME NEW r \in call[c], Arrived(r.item) PROVE IsIn(r.item)
    BY <1>1, <1>2, Arrives DEF Arrived, IsIn, Started
  <1>3. CASE StrayLost(c)
    <2>1. out' = out /\ reply' = reply /\ \A e \in Connections : call'[e] \subseteq call[e]
      BY <1>1, <1>3 DEF StrayLost, flush, TypeOK
    <2> QED BY <2>1 DEF Answers
  <1>4. CASE NotNow(c)
    <2>1. PICK r \in call[c] : TRUE
      BY <1>4 DEF NotNow
    <2>2. Answer(c, "again")
      BY <1>4 DEF NotNow
    <2> QED BY <1>1, <2>2, Answering
  <1>5. CASE ReadStep(c)
    <2>1. PICK r \in call[c] : TRUE
      BY <1>5 DEF ReadStep, ReadDraft, TakeNumber, ReadLine, LockMeant, At
    <2>2. ASSUME NEW a, Answer(c, a), Told(c, a) PROVE Answers(c)
      <3>1. a = "ok" => IsIn(r.item)
        BY <1>2, <2>2 DEF Told
      <3> QED BY <1>1, <2>2, <3>1, Answering
    <2>3. ASSUME NEW k \in call[c], NEW s \in Call, GoOn(c, s), s.item = k.item
          PROVE  Answers(c)
      <3>1. /\ out' = out /\ reply' = reply
            /\ call'[c] = {s} /\ \A e \in Connections \ {c} : call'[e] = call[e]
        BY <1>1, <2>3 DEF GoOn, flush, TypeOK
      <3>2. \A e \in Connections : \A x \in call'[e] : \E y \in call[e] : x.item = y.item
        BY <2>3, <3>1
      <3> QED BY <3>1, <3>2 DEF Answers
    <2> QED BY <1>1, <1>5, <2>2, <2>3, Onward
  <1>6. CASE StartDraft(c) \/ AddLine(c)
    <2>1. PICK r \in call[c], a \in {"ok", "refused", "again"} : Inserts(c, r, a)
      BY <1>1, <1>6, Insertion
    <2>2. a = "ok" => IsIn(r.item)
      <3>1. CASE Nothing(r, a)
        BY <1>2, <3>1 DEF Nothing
      <3>2. ASSUME NEW i, r.item.id \in Lines, Into(r, i) PROVE IsIn(r.item)
        <4>1. row'[r.item.id] # {} /\ r.item.id \notin Drafts
          BY <1>1, <3>2 DEF Into, TypeOK
        <4> QED BY <4>1 DEF IsIn
      <3>3. CASE LineOn(r)
        BY <3>2, <3>3 DEF LineOn
      <3>4. CASE r.item.id \in Drafts /\ StartIn(r)
        <4>1. Len(invoices) + 1 \in Invoices' /\ invoices'[Len(invoices) + 1] = NewInvoice(r)
          BY <1>1, <3>4 DEF StartIn, TypeOK, Invoices
        <4>2. r.item.id \in NewInvoice(r).uuid
          BY <3>4 DEF NewInvoice
        <4> QED BY <3>4, <4>1, <4>2 DEF IsIn
      <3> QED BY <2>1, <3>1, <3>2, <3>3, <3>4 DEF Inserts, Starting
    <2> QED BY <1>1, <2>1, <2>2, Answering DEF Inserts
  <1> QED BY <1>3, <1>4, <1>5, <1>6 DEF ServerStep, ReadStep
-----------------------------------------------------------------------------
(* What the phone keeps to.                                                *)

\* Nothing a page waits for is touched.
LEMMA OutsStay ==
    ASSUME Base, SInv, OutsFit, [Next]_vars, UNCHANGED call,
           \A p \in Pages : out'[p] = {} \/ (out'[p] = out[p] /\ reply'[p] = reply[p])
    PROVE  OutsFit'
  <1>1. \A x \in Item : x.id \in Drafts \cup Lines
    BY DEF Item, DraftItem, LineItem
  <1>2. ASSUME NEW p \in Pages, NEW o \in out'[p]
        PROVE  /\ \A r \in call'[o.on] : r.item = o.item
               /\ reply'[p] = "ok" => IsIn(o.item)
    <2>1. out'[p] = out[p] /\ reply'[p] = reply[p] /\ o \in out[p] /\ o.item \in Item
      BY DEF Base, TypeOK
    <2>2. Arrived(o.item) => IsIn(o.item)
      BY <1>1, <2>1, Arrives DEF Arrived, IsIn, Started
    <2> QED BY <2>1, <2>2 DEF OutsFit
  <1> QED BY <1>2 DEF OutsFit, Arrived, IsIn, Started

LEMMA OutsServed ==
    ASSUME Base, SInv, OutsFit, [Next]_vars, NEW c \in Connections, ServerStep(c)
    PROVE  OutsFit'
  <1>1. \A x \in Item : x.id \in Drafts \cup Lines
    BY DEF Item, DraftItem, LineItem
  <1>2. Answers(c)
    BY Tells
  <1>3. ASSUME NEW p \in Pages, NEW o \in out'[p]
        PROVE  /\ \A r \in call'[o.on] : r.item = o.item
               /\ reply'[p] = "ok" => IsIn(o.item)
    <2>1. o \in out[p] /\ o.item \in Item /\ o.on \in Connections /\ \A x \in out[p] : x = o
      BY <1>2 DEF Answers, Base, TypeOK, FormsFit, Lone
    <2>2. \A r \in call'[o.on] : r.item = o.item
      BY <1>2, <2>1 DEF Answers, OutsFit
    <2>3. CASE reply'[p] = reply[p]
      <3>1. Arrived(o.item) => IsIn(o.item)
        BY <1>1, <2>1, Arrives DEF Arrived, IsIn, Started
      <3> QED BY <2>1, <2>2, <2>3, <3>1 DEF OutsFit
    <2>4. ASSUME NEW r \in call[c], o.on = c, reply'[p] = "ok" => IsIn(r.item)
          PROVE  reply'[p] = "ok" => IsIn(o.item)
      BY <2>1, <2>4 DEF OutsFit
    <2> QED BY <1>2, <2>1, <2>2, <2>3, <2>4 DEF Answers
  <1> QED BY <1>3 DEF OutsFit, Arrived, IsIn, Started

LEMMA OutsPosted ==
    ASSUME Base, SInv, OutsFit, NEW p \in Pages, NEW c \in Connections, Post(p, c)
    PROVE  OutsFit'
  <1>1. PICK x : /\ call' = [call EXCEPT ![c] = {[item |-> x, stage |-> "sent", meant |-> 0,
                                                  to |-> 0, number |-> 0, seq |-> 0]}]
                 /\ out' = [out EXCEPT ![p] = {[on |-> c, item |-> x]}]
    BY DEF Post
  <1>2. reply[p] = "none" /\ UNCHANGED <<invoices, row, reply>>
    BY DEF Post, Settling, Base, FormsFit, server
  <1>3. ASSUME NEW q \in Pages, NEW o \in out'[q]
        PROVE  /\ \A r \in call'[o.on] : r.item = o.item
               /\ reply'[q] = "ok" => Arrived(o.item)
    <2>1. CASE q = p
      <3>1. o.on = c /\ o.item = x /\ \A r \in call'[c] : r.item = x
        BY <1>1, <2>1 DEF Base, TypeOK
      <3> QED BY <1>2, <2>1, <3>1
    <2>2. CASE q # p
      <3>1. o \in out[q] /\ o.on # c /\ o.on \in Connections
        BY <1>1, <2>2 DEF Base, TypeOK, Post, Unused
      <3>2. call'[o.on] = call[o.on]
        BY <1>1, <3>1 DEF Base, TypeOK
      <3> QED BY <1>2, <3>1, <3>2 DEF OutsFit
    <2> QED BY <2>1, <2>2
  <1> QED BY <1>2, <1>3 DEF OutsFit, Arrived, Started, Invoices

\* Nothing leaves the phone.
LEMMA Keeps ==
    ASSUME Base, SInv, NothingLost, [Next]_vars, made' = made, letGo \subseteq letGo',
           \A d \in Drafts : drafts[d] = {} \/ drafts'[d] # {} \/ d \in letGo' \/ Started(d),
           \A l \in Lines : lines[l] = {} \/ lines'[l] # {} \/ l \in letGo' \/ row[l] # {}
    PROVE  NothingLost'
  <1>1. ASSUME NEW d \in made' \cap Drafts
        PROVE  drafts'[d] # {} \/ (\E i \in Invoices' : d \in invoices'[i].uuid) \/ d \in letGo'
    BY Arrives DEF NothingLost, Started
  <1>2. ASSUME NEW l \in made' \cap Lines
        PROVE  lines'[l] # {} \/ row'[l] # {} \/ l \in letGo'
    BY Arrives DEF NothingLost
  <1> QED BY <1>1, <1>2 DEF NothingLost, Started

LEMMA ScreenKeeps ==
    ASSUME Base, SInv, PInv, [Next]_vars, NEW p \in Pages, ScreenStep(p)
    PROVE  PInv'
  <1> USE DEF PInv
  <1>1. TypeOK /\ FormsFit
    BY DEF Base
  <1>2. /\ call' = call
        /\ \A q \in Pages :
               \/ out'[q] = {} /\ reply'[q] = "none"
               \/ out'[q] = out[q] /\ reply'[q] = reply[q]
    BY <1>1 DEF ScreenStep, StartOnPhone, BeginDiscard, OpenFix, OpenForm, SaveLine, DiscardNext,
                PageGone, flush, TypeOK
  <1>3. OutsFit'
    BY <1>2, OutsStay
  <1>4. HeldAreMade'
    <2>1. CASE SaveLine(p)
      <3>1. PICK f \in form[p], good \in BOOLEAN : SaveLine(p)!1!(f, good)
        BY <2>1 DEF SaveLine
      <3>2. \A l \in Lines : l # f.line => lines'[l] = lines[l]
        BY <1>1, <3>1 DEF TypeOK
      <3> QED BY <3>1, <3>2 DEF HeldAreMade
    <2>2. CASE DiscardNext(p)
      <3>1. made' = made /\ \A l \in Lines : lines'[l] # {} => lines[l] # {}
        BY <1>1, <2>2 DEF DiscardNext, TypeOK
      <3> QED BY <3>1 DEF HeldAreMade
    <2>3. CASE lines' = lines /\ made \subseteq made'
      BY <2>3 DEF HeldAreMade
    <2> QED BY <2>1, <2>2, <2>3 DEF ScreenStep, StartOnPhone, BeginDiscard, OpenFix, OpenForm,
                                    PageGone
  <1>5. FormsFit'
    <2>1. ASSUME NEW q \in Pages PROVE Lone(form'[q])
      <3>1. form'[q] = form[q] \/ form'[q] = {} \/ \E f : form'[q] = {f}
        BY <1>1 DEF ScreenStep, StartOnPhone, BeginDiscard, OpenFix, OpenForm, SaveLine,
                    DiscardNext, PageGone, TypeOK
      <3> QED BY <1>1, <3>1 DEF FormsFit, Lone
    <2>2. \A q \in Pages : Lone(out'[q]) /\ (out'[q] = {} => reply'[q] = "none")
      BY <1>1, <1>2 DEF FormsFit, Lone
    <2> QED BY <2>1, <2>2 DEF FormsFit, Lone
  <1>6. DiscardsFit'
    <2>1. letGo \subseteq letGo'
      BY DEF ScreenStep, StartOnPhone, BeginDiscard, OpenFix, OpenForm, SaveLine, DiscardNext,
             PageGone
    <2>2. ASSUME NEW q \in Pages, NEW k \in discard'[q]
          PROVE  k.draft \in letGo' /\ k.left \subseteq letGo'
      <3>1. CASE k \in discard[q]
        BY <2>1, <3>1 DEF DiscardsFit
      <3>2. ASSUME NEW d \in Drafts, BeginDiscard(p, d), k \notin discard[q]
            PROVE  k.draft \in letGo' /\ k.left \subseteq letGo'
        <4>1. k = [draft |-> d, left |-> LinesHeld(d)]
          BY <1>1, <3>2 DEF BeginDiscard, TypeOK
        <4>2. d \in letGo' /\ LinesHeld(d) \subseteq letGo'
          BY <3>2 DEF BeginDiscard
        <4> QED BY <4>1, <4>2
      <3>3. ASSUME DiscardNext(p), k \notin discard[q]
            PROVE  k.draft \in letGo' /\ k.left \subseteq letGo'
        <4>1. PICK j \in discard[p] : DiscardNext(p)!1!(j)
          BY <3>3 DEF DiscardNext
        <4>0. discard'[q] = discard[q] \/ discard'[q] = {}
                  \/ \E l \in j.left : discard'[q] = {[j EXCEPT !.left = @ \ {l}]}
          BY <1>1, <4>1 DEF TypeOK
        <4>2. PICK l \in j.left : k = [j EXCEPT !.left = @ \ {l}]
          BY <3>3, <4>0
        <4>3. j \in [draft: Drafts, left: SUBSET Lines]
          BY <1>1 DEF TypeOK
        <4>4. k.draft = j.draft /\ k.left \subseteq j.left
          BY <4>2, <4>3
        <4> QED BY <2>1, <4>4 DEF DiscardsFit
      <3>4. CASE discard'[q] = discard[q] \/ discard'[q] = {}
        BY <3>1, <3>4
      <3> QED BY <1>1, <3>1, <3>2, <3>3, <3>4
              DEF ScreenStep, StartOnPhone, OpenFix, OpenForm, SaveLine, PageGone, TypeOK
    <2> QED BY <2>2 DEF DiscardsFit
  <1>7. NothingLost'
    <2>1. ASSUME NEW d \in Drafts, StartOnPhone(p, d) PROVE NothingLost'
      <3>1. /\ drafts'[d] # {} /\ \A e \in Drafts : e # d => drafts'[e] = drafts[e]
            /\ made' = made \cup {d} /\ UNCHANGED <<invoices, row, lines, letGo>>
        BY <1>1, <2>1 DEF StartOnPhone, server, TypeOK
      <3> QED BY <3>1 DEF NothingLost, Started, Invoices
    <2>2. CASE SaveLine(p)
      <3>1. PICK f \in form[p], good \in BOOLEAN : SaveLine(p)!1!(f, good)
        BY <2>2 DEF SaveLine
      <3>0. f.line \in Lines
        BY <1>1 DEF TypeOK
      <3>2. f.line \in Lines /\ lines'[f.line] # {}
        BY <1>1, <3>0, <3>1 DEF TypeOK
      <3>3. \A l \in Lines : l # f.line => lines'[l] = lines[l]
        BY <1>1, <3>1 DEF TypeOK
      <3>4. made' = made \cup {f.line} /\ UNCHANGED <<invoices, row, drafts, letGo>>
        BY <2>2, <3>1 DEF SaveLine, server
      <3> QED BY <3>2, <3>3, <3>4 DEF NothingLost, Started, Invoices
    <2>3. CASE DiscardNext(p)
      <3>1. PICK k \in discard[p] : DiscardNext(p)!1!(k)
        BY <2>3 DEF DiscardNext
      <3>2. k.draft \in letGo /\ k.left \subseteq letGo
        BY DEF DiscardsFit
      <3>3. made' = made /\ letGo' = letGo
        BY <2>3 DEF DiscardNext
      <3>4. \A d \in Drafts : drafts[d] = {} \/ drafts'[d] # {} \/ d \in letGo
        BY <1>1, <3>1, <3>2 DEF TypeOK
      <3>5. \A l \in Lines : lines[l] = {} \/ lines'[l] # {} \/ l \in letGo
        BY <1>1, <3>1, <3>2 DEF TypeOK
      <3> QED BY <3>3, <3>4, <3>5, Keeps
    <2>4. CASE UNCHANGED <<drafts, lines, made>> /\ letGo \subseteq letGo'
      BY <2>4, Keeps
    <2> QED BY <2>1, <2>2, <2>3, <2>4 DEF ScreenStep, BeginDiscard, OpenFix, OpenForm, PageGone
  <1> QED BY <1>3, <1>4, <1>5, <1>6, <1>7

LEMMA FlushKeeps ==
    ASSUME Base, SInv, PInv, [Next]_vars, NEW p \in Pages, FlushStep(p)
    PROVE  PInv'
  <1> USE DEF PInv
  <1>1. TypeOK /\ FormsFit
    BY DEF Base
  <1>2. UNCHANGED <<made, letGo, form, discard>>
    BY DEF FlushStep, BeginFlush, ReadDrafts, ReadLines, Post, Settle, Offline, phone
  <1>3. DiscardsFit'
    BY <1>2 DEF DiscardsFit
  <1>4. CASE Settle(p)
    <2>1. PICK o \in out[p] : Settle(p)!2!(o)
      BY <1>4 DEF Settle
    <2>2. o.item \in Item /\ o.item.id \in Drafts \cup Lines /\ ~(o.item.id \in Drafts /\ o.item.id \in Lines)
      <3>1. \A x \in Item : x.id \in Drafts \cup Lines
        BY DEF Item, DraftItem, LineItem
      <3> QED BY <1>1, <3>1 DEF TypeOK
    <2>3. /\ call' = call /\ reply[p] # "none"
          /\ out'[p] = {} /\ reply'[p] = "none"
          /\ \A q \in Pages : q # p => out'[q] = out[q] /\ reply'[q] = reply[q]
      BY <1>1, <1>4 DEF Settle, TypeOK
    <2>4. OutsFit'
      <3>1. \A q \in Pages : out'[q] = {} \/ (out'[q] = out[q] /\ reply'[q] = reply[q])
        BY <2>3
      <3> QED BY <2>3, <3>1, OutsStay
    <2>5. FormsFit'
      BY <1>1, <1>2, <2>3 DEF FormsFit, Lone
    <2>6. \A held : LineLeft(held, o.item, reply[p]) # {} => held # {}
      BY DEF LineLeft
    <2>7. HeldAreMade'
      <3>1. \A l \in Lines : lines'[l] # {} => lines[l] # {}
        BY <1>1, <2>1, <2>6 DEF TypeOK
      <3> QED BY <1>2, <3>1 DEF HeldAreMade
    <2>8. reply[p] = "ok" => Arrived(o.item)
      BY DEF OutsFit
    <2>9. \A d \in Drafts : drafts[d] = {} \/ drafts'[d] # {} \/ Started(d)
      <3>1. \A held : held # {} /\ reply[p] # "ok" => DraftLeft(held, reply[p]) # {}
        BY DEF DraftLeft
      <3>2. CASE o.item.id \in Drafts /\ drafts' = [drafts EXCEPT ![o.item.id] = DraftLeft(@, reply[p])]
        BY <1>1, <2>8, <3>1, <3>2 DEF Arrived, TypeOK
      <3> QED BY <2>1, <3>2
    <2>10. \A l \in Lines : lines[l] = {} \/ lines'[l] # {} \/ row[l] # {}
      <3>1. ASSUME NEW held, held # {}, reply[p] # "ok"
            PROVE  LineLeft(held, o.item, reply[p]) # {}
        <4>1. PICK k \in held : TRUE
          BY <3>1
        <4>2. (IF k.stamp = o.item.stamp /\ reply[p] = "refused"
               THEN [k EXCEPT !.why = "refused"] ELSE k) \in LineLeft(held, o.item, reply[p])
          BY <3>1, <4>1 DEF LineLeft
        <4> QED BY <4>2
      <3>2. CASE o.item.id \in Lines /\ lines' = [lines EXCEPT ![o.item.id] = LineLeft(@, o.item, reply[p])]
        BY <1>1, <2>2, <2>8, <3>1, <3>2 DEF Arrived, TypeOK
      <3> QED BY <2>1, <3>2
    <2>11. NothingLost'
      BY <1>2, <2>9, <2>10, Keeps
    <2> QED BY <1>3, <2>4, <2>5, <2>7, <2>11
  <1>5. ASSUME NEW c \in Connections, Post(p, c) PROVE PInv'
    <2>1. UNCHANGED <<drafts, lines, reply>>
      BY <1>5 DEF Post, phone
    <2>2. ASSUME NEW q \in Pages PROVE out'[q] = out[q] \/ (Lone(out'[q]) /\ out'[q] # {})
      <3>1. out'[q] = out[q] \/ \E o : out'[q] = {o}
        BY <1>1, <1>5 DEF Post, TypeOK
      <3> QED BY <3>1 DEF Lone
    <2>3. FormsFit'
      BY <1>1, <1>2, <2>1, <2>2 DEF FormsFit, Lone
    <2>4. HeldAreMade' /\ NothingLost'
      BY <1>2, <2>1, Keeps DEF HeldAreMade
    <2> QED BY <1>3, <1>5, <2>3, <2>4, OutsPosted
  <1>6. CASE BeginFlush(p) \/ ReadDrafts(p) \/ ReadLines(p) \/ Offline(p)
    <2>1. UNCHANGED <<call, drafts, lines>>
      BY <1>6 DEF BeginFlush, ReadDrafts, ReadLines, Offline, phone
    <2>2. \A q \in Pages :
              \/ out'[q] = {} /\ reply'[q] = "none"
              \/ out'[q] = out[q] /\ reply'[q] = reply[q]
      BY <1>1, <1>6 DEF BeginFlush, ReadDrafts, ReadLines, Offline, TypeOK
    <2>3. OutsFit'
      BY <2>1, <2>2, OutsStay
    <2>4. FormsFit'
      BY <1>1, <1>2, <2>2 DEF FormsFit, Lone
    <2>5. HeldAreMade' /\ NothingLost'
      BY <1>2, <2>1, Keeps DEF HeldAreMade
    <2> QED BY <1>3, <2>3, <2>4, <2>5
  <1> QED BY <1>4, <1>5, <1>6 DEF FlushStep

LEMMA PInvStep == Base /\ SInv /\ PInv /\ [Next]_vars => PInv'
  <1> SUFFICES ASSUME Base, SInv, PInv, [Next]_vars PROVE PInv'
    OBVIOUS
  <1> USE DEF PInv
  <1>1. ASSUME UNCHANGED <<drafts, lines, made, letGo, form, discard>>
        PROVE  HeldAreMade' /\ DiscardsFit' /\ NothingLost' /\ \A p \in Pages : Lone(form'[p])
    BY <1>1, Keeps DEF HeldAreMade, DiscardsFit, FormsFit, Lone
  <1>2. ASSUME UNCHANGED <<call, out, reply>> PROVE OutsFit'
    BY <1>2, OutsStay
  <1>3. ASSUME UNCHANGED phone, UNCHANGED <<call, out, reply>> PROVE PInv'
    <2>1. FormsFit'
      BY <1>3 DEF FormsFit, Lone, phone
    <2> QED BY <1>1, <1>2, <1>3, <2>1 DEF phone
  <1>4. CASE UNCHANGED vars \/ (\E i \in Invoices : SendInvoice(i)) \/ NameBusiness
    BY <1>3, <1>4 DEF vars, flush, SendInvoice, NameBusiness
  <1>5. ASSUME NEW c \in Connections, ServerStep(c) PROVE PInv'
    <2>1. UNCHANGED phone
      BY <1>5 DEF ServerStep, StrayLost, NotNow, ReadDraft, TakeNumber, StartDraft, ReadLine,
                  LockMeant, AddLine
    <2>2. Answers(c)
      BY <1>5, Tells
    <2>3. \A p \in Pages : Lone(out'[p]) /\ (out'[p] = {} => reply'[p] = "none")
      BY <2>2 DEF Answers, FormsFit, Lone
    <2>4. OutsFit'
      BY <1>5, OutsServed
    <2>5. FormsFit'
      BY <2>1, <2>3 DEF FormsFit, Lone, phone
    <2> QED BY <1>1, <2>1, <2>4, <2>5 DEF phone
  <1>6. ASSUME NEW l \in Lines, LetLineGo(l) PROVE PInv'
    <2>1. /\ UNCHANGED <<drafts, made, form, discard, call, out, reply>>
          /\ letGo' = letGo \cup {l} /\ lines' = [lines EXCEPT ![l] = {}]
      BY <1>6 DEF LetLineGo, flush
    <2>2. FormsFit'
      BY <2>1 DEF FormsFit, Lone
    <2>3. \A k \in Lines : /\ lines'[k] # {} => lines[k] # {}
                           /\ lines[k] = {} \/ lines'[k] # {} \/ k \in letGo'
      BY <2>1 DEF Base, TypeOK
    <2>4. HeldAreMade' /\ DiscardsFit'
      BY <2>1, <2>3 DEF HeldAreMade, DiscardsFit
    <2>5. NothingLost'
      BY <2>1, <2>3, Keeps
    <2> QED BY <1>2, <2>1, <2>2, <2>4, <2>5
  <1> QED BY <1>4, <1>5, <1>6, Steps, ScreenKeeps, FlushKeeps
-----------------------------------------------------------------------------
(* The theorems.                                                           *)

LEMMA IInvInit == Init => IInv
  <1> SUFFICES ASSUME Init PROVE IInv
    OBVIOUS
  <1>1. /\ invoices \in Seq(Invoice) /\ Len(invoices) \in 0..1
        /\ \A i \in Invoices : invoices[i].number = i /\ invoices[i].uuid = {}
    <2>1. CASE named
      <3>1. [number |-> 1, uuid |-> {}, forLine |-> FALSE, out |-> FALSE] \in Invoice
        BY DEF Invoice
      <3> QED BY <2>1, <3>1 DEF Init, Invoices
    <2>2. CASE ~named
      BY <2>2 DEF Init, Invoices
    <2> QED BY <2>1, <2>2
  <1>2. Idle \in Job
    BY DEF Idle, Job
  <1>3. TypeOK
    BY <1>1, <1>2 DEF Init, TypeOK
  <1>4. \A i : OnInvoice(i) = {}
    BY DEF Init, OnInvoice
  <1>5. SInv
    <2>1. CallsFit /\ Held /\ Towards
      BY DEF Init, CallsFit, Held, Towards, Lone
    <2>2. Numbered /\ StartedOnce
      BY <1>1 DEF Init, Numbered, StartedOnce
    <2>3. RowsFit /\ Successors
      BY <1>4 DEF Init, RowsFit, OneRow, Lone, Successors, StartedFor
    <2> QED BY <2>1, <2>2, <2>3 DEF SInv
  <1>6. PInv
    BY DEF Init, PInv, HeldAreMade, FormsFit, Lone, OutsFit, DiscardsFit, NothingLost
  <1> QED BY <1>3, <1>5, <1>6 DEF IInv

LEMMA IInvStep == IInv /\ [Next]_vars => IInv'
  BY TypeStep, SInvStep, PInvStep DEF IInv, Base, SInv, PInv

LEMMA Inductive == Spec => []IInv
  BY IInvInit, IInvStep, PTL DEF Spec

\* Requests, copies on the phone, forms and flushes are what they are said to be.
THEOREM TypeCorrect == Spec => []TypeOK
  <1>1. IInv => TypeOK
    BY DEF IInv
  <1> QED BY <1>1, Inductive, PTL

\* However often a draft's post is repeated, crossed by another or left to go on
\* by itself, one invoice is started for it.
THEOREM DraftsStartOnce == Spec => []StartedOnce
  <1>1. IInv => StartedOnce
    BY DEF IInv, SInv
  <1> QED BY <1>1, Inductive, PTL

\* Lines meant for an invoice that has gone out share the draft the first of them
\* starts.
THEOREM LinesShareADraft == Spec => []OneSuccessor
  <1>1. IInv => OneSuccessor
    <2> SUFFICES ASSUME IInv, NEW i \in Invoices PROVE Cardinality(StartedFor(i)) <= 1
      BY DEF OneSuccessor
    <2>1. Lone(StartedFor(i))
      BY DEF IInv, SInv, Successors
    <2>2. CASE StartedFor(i) = {}
      BY <2>2, FS_EmptySet
    <2>3. ASSUME NEW j \in StartedFor(i) PROVE Cardinality(StartedFor(i)) <= 1
      <3>1. StartedFor(i) = {j}
        BY <2>1 DEF Lone
      <3>2. Cardinality(StartedFor(i)) = 1
        BY <3>1, FS_Singleton
      <3> QED BY <3>2
    <2> QED BY <2>2, <2>3
  <1> QED BY <1>1, Inductive, PTL

\* What was made on the phone is there or on the server, unless it was let go.
THEOREM NothingIsLost == Spec => []NothingLost
  <1>1. IInv => NothingLost
    BY DEF IInv, PInv
  <1> QED BY <1>1, Inductive, PTL

\* What a step does to the invoices and the lines on them.
LEMMA Effects ==
    ASSUME IInv, [Next]_vars
    PROVE  \/ Invoices' = Invoices /\ row' = row
           \/ \E c \in Connections : \E r \in call[c] :
                  (LineOn(r) /\ CallFits(r)) \/ Starting(r)
  <1>1. ASSUME NEW i \in Invoices, SendInvoice(i) PROVE Invoices' = Invoices /\ row' = row
    BY <1>1 DEF SendInvoice, IInv, TypeOK, Invoices
  <1>2. ASSUME NEW p \in Pages, ScreenStep(p) \/ FlushStep(p)
        PROVE  Invoices' = Invoices /\ row' = row
    BY <1>2 DEF ScreenStep, StartOnPhone, BeginDiscard, OpenFix, OpenForm, SaveLine, DiscardNext,
                PageGone, FlushStep, BeginFlush, ReadDrafts, ReadLines, Post, Settle, Offline,
                server, Invoices
  <1>3. ASSUME NEW c \in Connections, ServerStep(c)
        PROVE  \/ Invoices' = Invoices /\ row' = row
               \/ \E r \in call[c] : (LineOn(r) /\ CallFits(r)) \/ Starting(r)
    <2>1. CASE StrayLost(c) \/ NotNow(c) \/ ReadStep(c)
      BY <2>1 DEF StrayLost, NotNow, ReadStep, ReadDraft, TakeNumber, ReadLine, LockMeant, server,
                  Invoices
    <2>2. CASE StartDraft(c) \/ AddLine(c)
      <3>1. PICK r \in call[c], a \in {"ok", "refused", "again"} : Inserts(c, r, a)
        BY <2>2, Insertion DEF IInv
      <3>2. CallFits(r)
        BY DEF IInv, SInv, CallsFit
      <3> QED BY <3>1, <3>2 DEF Inserts, Nothing, Invoices
    <2> QED BY <1>3, <2>1, <2>2 DEF ServerStep, ReadStep
  <1> QED BY <1>1, <1>2, <1>3, Steps DEF vars, server, LetLineGo, NameBusiness, Invoices

LEMMA StartingAdds ==
    ASSUME IInv, NEW c \in Connections, NEW r \in call[c], Starting(r)
    PROVE  \E n : /\ n = Len(invoices) + 1 /\ n \notin Invoices
                  /\ Invoices' = Invoices \cup {n} /\ invoices'[n] = NewInvoice(r)
  BY DEF Starting, StartIn, IInv, TypeOK, Invoices

\* A line on its way when its invoice goes out is not on it after.
THEOREM SentKeepsItsLines == Spec => SentIsFixed
  <1>1. IInv /\ [Next]_vars =>
            \A i \in Invoices : invoices[i].out => OnInvoice(i)' = OnInvoice(i)
    <2> SUFFICES ASSUME IInv, [Next]_vars, NEW i \in Invoices, invoices[i].out
                 PROVE  OnInvoice(i)' = OnInvoice(i)
      OBVIOUS
    <2>1. TypeOK /\ SInv
      BY DEF IInv
    <2>2. CASE row' = row
      BY <2>2 DEF OnInvoice
    <2>3. ASSUME NEW c \in Connections, NEW r \in call[c], LineOn(r)
          PROVE  OnInvoice(i)' = OnInvoice(i)
      <3>1. i # r.to
        BY <2>3 DEF LineOn, Gone
      <3>2. \A j : j # r.to => OnInvoice(j)' = OnInvoice(j)
        BY <2>1, <2>3, IntoPlaces DEF LineOn
      <3> QED BY <3>1, <3>2
    <2>4. ASSUME NEW c \in Connections, NEW r \in call[c], Starting(r)
          PROVE  OnInvoice(i)' = OnInvoice(i)
      <3>1. PICK n : n = Len(invoices) + 1 /\ n \notin Invoices
        BY <2>4, StartingAdds
      <3>2. CASE r.item.id \in Lines /\ ~Had(r) /\ Into(r, n)
        <4>1. \A j : j # n => OnInvoice(j)' = OnInvoice(j)
          BY <2>1, <3>2, IntoPlaces
        <4> QED BY <3>1, <4>1
      <3> QED BY <2>2, <2>4, <3>1, <3>2 DEF Starting
    <2> QED BY <2>2, <2>3, <2>4, Effects
  <1> QED BY <1>1, Inductive, PTL DEF Spec, SentIsFixed

\* A draft started for a line has the line on it from the first.
THEOREM NoDraftStartsEmpty == Spec => NoneStartedEmpty
  <1>1. IInv /\ [Next]_vars =>
            \A i \in DOMAIN invoices' \ Invoices :
                invoices'[i].forLine => \E l \in Lines : \E k \in row'[l] : k.invoice = i
    <2> SUFFICES ASSUME IInv, [Next]_vars, NEW i \in DOMAIN invoices' \ Invoices,
                        invoices'[i].forLine
                 PROVE  \E l \in Lines : \E k \in row'[l] : k.invoice = i
      OBVIOUS
    <2>1. TypeOK /\ SInv
      BY DEF IInv
    <2>2. PICK c \in Connections : \E r \in call[c] : Starting(r)
      <3>1. \A r : LineOn(r) => Invoices' = Invoices
        BY DEF LineOn, Invoices
      <3>2. Invoices' # Invoices
        BY DEF Invoices
      <3>3. \E c \in Connections : \E r \in call[c] : Starting(r)
        BY <3>1, <3>2, Effects
      <3> QED BY <3>3
    <2>0. PICK r \in call[c] : Starting(r)
      BY <2>2
    <2>3. PICK n : /\ n = Len(invoices) + 1
                   /\ Invoices' = Invoices \cup {n} /\ invoices'[n] = NewInvoice(r)
      BY <2>0, StartingAdds
    <2>4. i = n
      BY <2>3 DEF Invoices
    <2>5. r.item.id \in Lines
      <3>1. invoices'[i] = NewInvoice(r)
        BY <2>3, <2>4
      <3>2. NewInvoice(r).forLine = (r.item.id \in Lines)
        BY DEF NewInvoice
      <3> QED BY <3>1, <3>2, Zenon
    <2>6. ~Had(r) /\ Into(r, n)
      BY <2>0, <2>3, <2>5 DEF Starting
    <2>7. \E k : row'[r.item.id] = {k} /\ k.invoice = n
      BY <2>1, <2>5, <2>6, IntoPlaces
    <2> QED BY <2>4, <2>5, <2>7
  <1> QED BY <1>1, Inductive, PTL DEF Spec, NoneStartedEmpty, Invoices

\* The operator's row, held from the number taken, keeps two drafts from one.
THEOREM NumbersNeverMeet == Spec => RefusedOverNumber
  <1> DEFINE Act ==
        \A c \in Connections : \A r \in call[c] :
            /\ r.stage = "insert" /\ r.item.id \in Drafts
            /\ call'[c] = {} /\ \E p \in Pages : reply[p] = "none" /\ reply'[p] = "refused"
            => r.number \notin Numbers
  <1>1. IInv /\ [Next]_vars => Act
    <2> SUFFICES ASSUME IInv, [Next]_vars, NEW c \in Connections, NEW r \in call[c],
                        r.stage = "insert", r.item.id \in Drafts, call'[c] = {},
                        NEW p \in Pages, reply[p] = "none", reply'[p] = "refused"
                 PROVE  r.number \notin Numbers
      OBVIOUS
    <2>1. TypeOK /\ SInv /\ \A s \in call[c] : s = r
      BY DEF IInv, SInv, CallsFit, Lone
    <2>2. PICK e \in Connections : ServerStep(e)
      <3>1. ASSUME NEW q \in Pages, ScreenStep(q) \/ FlushStep(q) PROVE reply'[p] \in {reply[p], "none"}
        BY <2>1, <3>1 DEF ScreenStep, StartOnPhone, BeginDiscard, OpenFix, OpenForm, SaveLine,
             DiscardNext, PageGone, FlushStep, BeginFlush, ReadDrafts, ReadLines, Post, Settle,
             Offline, flush, TypeOK
      <3>2. ASSUME \/ UNCHANGED vars
                   \/ \E l \in Lines : LetLineGo(l)
                   \/ (\E i \in Invoices : SendInvoice(i)) \/ NameBusiness
            PROVE  reply' = reply
        BY <3>2 DEF vars, flush, LetLineGo, SendInvoice, NameBusiness
      <3> QED BY <3>1, <3>2, Steps
    <2>3. e = c
      <3>1. e # c => call'[c] = call[c]
        BY <2>1, <2>2 DEF ServerStep, StrayLost, NotNow, ReadDraft, TakeNumber, StartDraft,
             ReadLine, LockMeant, AddLine, Answer, GoOn, StartOr, TypeOK
      <3> QED BY <3>1
    <2>4. StartDraft(c) \/ AddLine(c)
      BY <2>1, <2>2, <2>3 DEF ServerStep, StrayLost, NotNow, ReadDraft, TakeNumber, ReadLine,
           LockMeant, At, flush
    <2>5. PICK a \in {"ok", "refused", "again"} : Inserts(c, r, a)
      BY <2>1, <2>4, Insertion
    <2>6. ASSUME a = "ok" PROVE FALSE
      <3>1. Answer(c, "ok")
        BY <2>5, <2>6 DEF Inserts
      <3>2. reply'[p] \in {"ok", reply[p]}
        BY <3>1 DEF Answer
      <3> QED BY <3>2
    <2> QED BY <2>5, <2>6 DEF Inserts
  <1> QED BY <1>1, Inductive, PTL DEF Spec, RefusedOverNumber
-----------------------------------------------------------------------------
(* One page alone: whatever names a draft, the phone or the server has it.     *)

Lives(m) == m \in Drafts => drafts[m] # {} \/ Started(m)

Housed ==
    /\ \A l \in Lines : \A copy \in lines[l] : Lives(copy.meant)
    /\ \A p \in Pages : \A f \in form[p] : Lives(f.meant)
    /\ \A p \in Pages : form[p] = {} \/ discard[p] = {}
    /\ \A p \in Pages : \A k \in discard[p] : LinesHeld(k.draft) \subseteq k.left

\* Where no draft leaves the phone but for the server, and no line comes to it, all
\* have theirs still.
LEMMA StaysHoused ==
    ASSUME IInv, Housed, [Next]_vars,
           \A d \in Drafts : drafts[d] # {} => drafts'[d] # {} \/ Started(d),
           \A l \in Lines : \A k \in lines'[l] : \E j \in lines[l] : j.meant = k.meant
    PROVE  /\ \A m : Lives(m) => Lives(m)'
           /\ \A l \in Lines : \A copy \in lines'[l] : Lives(copy.meant)'
           /\ \A d : LinesHeld(d)' \subseteq LinesHeld(d)
           /\ UNCHANGED <<form, discard>> => Housed'
  <1>1. \A m : Started(m) => Started(m)'
    BY Arrives DEF IInv, SInv, PInv, Base
  <1>2. \A m : Lives(m) => Lives(m)'
    BY <1>1 DEF Lives
  <1>3. \A l \in Lines : \A copy \in lines'[l] : Lives(copy.meant)'
    BY <1>2 DEF Housed
  <1>4. \A d : LinesHeld(d)' \subseteq LinesHeld(d)
    BY DEF LinesHeld
  <1>5. UNCHANGED <<form, discard>> => Housed'
    BY <1>2, <1>3, <1>4 DEF Housed
  <1> QED BY <1>2, <1>3, <1>4, <1>5

\* A form, or a discard, is begun only where neither is; and no line comes to name
\* a draft while it is being let go of.
LEMMA ScreenHouses ==
    ASSUME \A p, q \in Pages : p = q, IInv, Housed, [Next]_vars, NEW p \in Pages, ScreenStep(p)
    PROVE  Housed'
  <1>1. TypeOK /\ \A q \in Pages : q = p
    BY DEF IInv
  <1>2. ASSUME UNCHANGED <<drafts, lines>>
        PROVE  /\ \A m : Lives(m) => Lives(m)'
               /\ \A l \in Lines : \A copy \in lines'[l] : Lives(copy.meant)'
               /\ \A d : LinesHeld(d)' = LinesHeld(d)
    <2>1. \A d : LinesHeld(d)' = LinesHeld(d)
      BY <1>2 DEF LinesHeld
    <2> QED BY <1>2, <2>1, StaysHoused
  <1>3. ASSUME NEW l \in Lines, NEW m, discard[p] = {}, form'[p] = {[line |-> l, meant |-> m]},
               Lives(m), UNCHANGED <<drafts, lines, discard>>
        PROVE  Housed'
    <2>1. \A f \in form'[p] : f.meant = m
      BY <1>3
    <2> QED BY <1>1, <1>2, <1>3, <2>1 DEF Housed
  <1>4. ASSUME NEW d \in Drafts, StartOnPhone(p, d) PROVE Housed'
    <2>1. /\ \A e \in Drafts : drafts[e] # {} => drafts'[e] # {}
          /\ UNCHANGED <<lines, form, discard>>
      BY <1>1, <1>4 DEF StartOnPhone, TypeOK
    <2> QED BY <2>1, StaysHoused
  <1>5. ASSUME NEW d \in Drafts, BeginDiscard(p, d) PROVE Housed'
    <2>1. /\ form[p] = {} /\ discard'[p] = {[draft |-> d, left |-> LinesHeld(d)]}
          /\ UNCHANGED <<drafts, lines, form>>
      BY <1>1, <1>5 DEF BeginDiscard, Free, TypeOK
    <2>2. \A k \in discard'[p] : k.draft = d /\ k.left = LinesHeld(d)
      BY <2>1
    <2> QED BY <1>1, <1>2, <2>1, <2>2 DEF Housed
  <1>6. ASSUME NEW l \in Lines, NEW m \in Ref, OpenForm(p, l, m) PROVE Housed'
    <2>1. /\ discard[p] = {} /\ form'[p] = {[line |-> l, meant |-> m]}
          /\ UNCHANGED <<drafts, lines, discard>>
      BY <1>1, <1>6 DEF OpenForm, Free, TypeOK
    <2>2. Lives(m)
      BY <1>6 DEF OpenForm, Lives
    <2> QED BY <1>3, <2>1, <2>2
  <1>7. ASSUME NEW l \in Lines, OpenFix(p, l) PROVE Housed'
    <2>1. PICK i \in Invoices : form' = [form EXCEPT ![p] = {[line |-> l, meant |-> i]}]
      BY <1>7 DEF OpenFix, Named
    <2>2. discard[p] = {} /\ UNCHANGED <<drafts, lines, discard>>
      BY <1>7 DEF OpenFix, Free
    <2>3. form'[p] = {[line |-> l, meant |-> i]}
      BY <1>1, <2>1 DEF TypeOK
    <2>4. i \in 1..MaxInvoice
      BY <1>1 DEF TypeOK, Invoices
    <2>5. Lives(i)
      BY <2>4, RefsAssumption DEF Lives
    <2> QED BY <1>3, <2>2, <2>3, <2>5
  <1>8. CASE SaveLine(p)
    <2>0. PICK f \in form[p] : \E new :
              /\ new.meant = f.meant /\ lines' = [lines EXCEPT ![f.line] = {new}]
      BY <1>8 DEF SaveLine
    <2>1. PICK new : new.meant = f.meant /\ lines' = [lines EXCEPT ![f.line] = {new}]
      BY <2>0
    <2>2. /\ form'[p] = {} /\ UNCHANGED <<drafts, discard>> /\ discard[p] = {}
      BY <1>1, <1>8, <2>1 DEF SaveLine, Housed, TypeOK
    <2>3. \A m : Lives(m) => Lives(m)'
      <3>1. \A m : Started(m) => Started(m)'
        BY Arrives DEF IInv, SInv, PInv, Base
      <3> QED BY <2>2, <3>1 DEF Lives
    <2>4. ASSUME NEW l \in Lines, NEW copy \in lines'[l] PROVE Lives(copy.meant)'
      <3>1. copy \in lines[l] \/ copy = new
        BY <1>1, <2>1 DEF TypeOK
      <3>2. Lives(copy.meant)
        BY <2>1, <3>1 DEF Housed
      <3> QED BY <2>3, <3>2
    <2> QED BY <1>1, <2>2, <2>4 DEF Housed
  <1>9. CASE DiscardNext(p)
    <2>1. PICK k \in discard[p] :
              \/ \E l \in k.left :
                  /\ lines' = [lines EXCEPT ![l] = {}]
                  /\ discard' = [discard EXCEPT ![p] = {[k EXCEPT !.left = @ \ {l}]}]
                  /\ drafts' = drafts
              \/ /\ k.left = {}
                 /\ drafts' = [drafts EXCEPT ![k.draft] = {}]
                 /\ discard' = [discard EXCEPT ![p] = {}]
                 /\ lines' = lines
      BY <1>9 DEF DiscardNext
    <2>2. form' = form /\ form[p] = {} /\ k.draft \in Drafts /\ LinesHeld(k.draft) \subseteq k.left
      <3>1. form' = form
        BY <1>9 DEF DiscardNext
      <3>2. form[p] = {}
        BY DEF Housed
      <3>3. k.draft \in Drafts
        BY <1>1 DEF TypeOK
      <3>4. LinesHeld(k.draft) \subseteq k.left
        BY DEF Housed
      <3> QED BY <3>1, <3>2, <3>3, <3>4
    <2>3. ASSUME NEW l \in k.left, lines' = [lines EXCEPT ![l] = {}],
                 discard' = [discard EXCEPT ![p] = {[k EXCEPT !.left = @ \ {l}]}], drafts' = drafts
          PROVE  Housed'
      <3>1. /\ l \in Lines /\ lines'[l] = {} /\ \A j \in Lines : j # l => lines'[j] = lines[j]
            /\ discard'[p] = {[k EXCEPT !.left = @ \ {l}]}
            /\ k \in [draft: Drafts, left: SUBSET Lines]
        BY <1>1, <2>3 DEF TypeOK
      <3>2. \A j \in Lines : \A c \in lines'[j] : \E e \in lines[j] : e.meant = c.meant
        BY <3>1
      <3>3. LinesHeld(k.draft)' \subseteq k.left \ {l}
        BY <2>2, <3>1 DEF LinesHeld
      <3>4. \A e \in discard'[p] : e.draft = k.draft /\ e.left = k.left \ {l}
        BY <3>1
      <3>5. \A j \in Lines : \A copy \in lines'[j] : Lives(copy.meant)'
        BY <2>3, <3>2, StaysHoused
      <3> QED BY <1>1, <2>2, <3>3, <3>4, <3>5 DEF Housed
    <2>4. ASSUME k.left = {}, drafts' = [drafts EXCEPT ![k.draft] = {}],
                 discard' = [discard EXCEPT ![p] = {}], lines' = lines
          PROVE  Housed'
      <3>1. discard'[p] = {} /\ \A d \in Drafts : d # k.draft => drafts'[d] = drafts[d]
        BY <1>1, <2>4 DEF TypeOK
      <3>2. \A m : Started(m) => Started(m)'
        BY Arrives DEF IInv, SInv, PInv, Base
      <3>3. ASSUME NEW l \in Lines, NEW copy \in lines'[l] PROVE Lives(copy.meant)'
        <4>1. Lives(copy.meant)
          BY <2>4 DEF Housed
        <4>2. copy.meant # k.draft
          BY <2>2, <2>4 DEF LinesHeld
        <4> QED BY <3>1, <3>2, <4>1, <4>2 DEF Lives
      <3> QED BY <1>1, <2>2, <3>1, <3>3 DEF Housed
    <2> QED BY <2>1, <2>3, <2>4
  <1>10. CASE PageGone(p)
    <2>1. form'[p] = {} /\ discard'[p] = {} /\ UNCHANGED <<drafts, lines>>
      BY <1>1, <1>10 DEF PageGone, TypeOK
    <2> QED BY <1>1, <1>2, <2>1 DEF Housed
  <1> QED BY <1>4, <1>5, <1>6, <1>7, <1>8, <1>9, <1>10 DEF ScreenStep

\* A draft the server took leaves the phone; one it refused does not.
LEMMA HousedStep ==
    ASSUME \A p, q \in Pages : p = q, IInv, Housed, [Next]_vars
    PROVE  Housed'
  <1>1. TypeOK
    BY DEF IInv
  <1>2. ASSUME UNCHANGED <<drafts, lines, form, discard>> PROVE Housed'
    BY <1>2, StaysHoused
  <1>3. ASSUME NEW l \in Lines, LetLineGo(l) PROVE Housed'
    <2>1. UNCHANGED <<drafts, form, discard>> /\ lines' = [lines EXCEPT ![l] = {}]
      BY <1>3 DEF LetLineGo
    <2>2. \A j \in Lines : \A c \in lines'[j] : c \in lines[j]
      BY <1>1, <2>1 DEF TypeOK
    <2> QED BY <2>1, <2>2, StaysHoused
  <1>4. ASSUME NEW p \in Pages, Settle(p) PROVE Housed'
    <2>1. PICK o \in out[p] :
              \/ /\ o.item.id \in Drafts
                 /\ drafts' = [drafts EXCEPT ![o.item.id] = DraftLeft(@, reply[p])]
                 /\ lines' = lines
              \/ /\ o.item.id \in Lines
                 /\ lines' = [lines EXCEPT ![o.item.id] = LineLeft(@, o.item, reply[p])]
                 /\ drafts' = drafts
      BY <1>4 DEF Settle
    <2>2. UNCHANGED <<form, discard>>
      BY <1>4 DEF Settle
    <2>3. reply[p] = "ok" => Arrived(o.item)
      BY DEF IInv, PInv, OutsFit
    <2>4. \A d \in Drafts : drafts[d] # {} => drafts'[d] # {} \/ Started(d)
      <3>1. \A held : held # {} /\ reply[p] # "ok" => DraftLeft(held, reply[p]) # {}
        BY DEF DraftLeft
      <3>2. CASE o.item.id \in Drafts /\ drafts' = [drafts EXCEPT ![o.item.id] = DraftLeft(@, reply[p])]
        BY <1>1, <2>3, <3>1, <3>2 DEF Arrived, TypeOK
      <3> QED BY <2>1, <3>2
    <2>5. \A l \in Lines : \A k \in lines'[l] : \E j \in lines[l] : j.meant = k.meant
      <3>1. ASSUME NEW l \in Lines, NEW k \in LineLeft(lines[l], o.item, reply[p])
            PROVE  \E j \in lines[l] : j.meant = k.meant
        <4>1. \A j \in lines[l] : j \in Copy
          BY <1>1 DEF TypeOK
        <4>2. \A j \in Copy : [j EXCEPT !.why = "refused"].meant = j.meant
          BY DEF Copy
        <4> QED BY <3>1, <4>1, <4>2 DEF LineLeft
      <3>2. CASE o.item.id \in Lines /\ lines' = [lines EXCEPT ![o.item.id] = LineLeft(@, o.item, reply[p])]
        <4>1. \A l \in Lines : lines'[l] = lines[l] \/ lines'[l] = LineLeft(lines[l], o.item, reply[p])
          BY <1>1, <3>2 DEF TypeOK
        <4> QED BY <3>1, <4>1
      <3> QED BY <2>1, <3>2
    <2> QED BY <2>2, <2>4, <2>5, StaysHoused
  <1>5. ASSUME NEW p \in Pages, FlushStep(p) PROVE Housed'
    BY <1>2, <1>4, <1>5 DEF FlushStep, BeginFlush, ReadDrafts, ReadLines, Post, Offline, phone
  <1>6. ASSUME NEW c \in Connections, ServerStep(c) PROVE Housed'
    BY <1>2, <1>6 DEF ServerStep, StrayLost, NotNow, ReadDraft, TakeNumber, StartDraft, ReadLine,
                      LockMeant, AddLine, phone
  <1>7. CASE UNCHANGED vars \/ (\E i \in Invoices : SendInvoice(i)) \/ NameBusiness
    BY <1>2, <1>7 DEF vars, SendInvoice, NameBusiness, phone
  <1> QED BY <1>3, <1>5, <1>6, <1>7, Steps, ScreenHouses

\* On one page, a draft is let go of with every line that names it, though each
\* goes in a transaction of its own and the page may close between any two: no
\* line is left naming a draft that is on no phone and no server.
THEOREM NoLineOutlivesItsDraft ==
    ASSUME \A p, q \in Pages : p = q
    PROVE  Spec => []NoneOutlivesItsDraft
  <1>1. Init => Housed
    BY DEF Init, Housed
  <1>2. IInv /\ Housed /\ [Next]_vars => Housed'
    BY HousedStep
  <1>3. Housed => NoneOutlivesItsDraft
    BY DEF Housed, Lives, NoneOutlivesItsDraft
  <1> QED BY <1>1, <1>2, <1>3, Inductive, PTL DEF Spec
-----------------------------------------------------------------------------
(* Custody: a step takes one draft or one line from one keeper to another. *)

Items == Drafts \cup Lines

\* Only what a person made is held, on its way, or in the book.
OnlyMade ==
    /\ \A x \in Items : InBook(x) \/ OnPhone(x) => x \in made
    /\ \A c \in Connections : \A r \in call[c] : r.item.id \in made
    /\ \A p \in Pages : \A x \in job[p].todo : x.id \in made

\* One request at a time is written, of what was made.
Written(c) ==
    \A y \in Items : InBook(y)' => InBook(y) \/ \E r \in call[c] : y = r.item.id

LEMMA BookTakes ==
    ASSUME IInv, [Next]_vars
    PROVE  \/ \A y \in Items : InBook(y)' <=> InBook(y)
           \/ /\ UNCHANGED phone
              /\ \E c \in Connections : Written(c)
  <1>1. IInv => TypeOK /\ SInv
    BY DEF IInv
  <1>2. ASSUME UNCHANGED <<invoices, row>> PROVE \A y \in Items : InBook(y)' <=> InBook(y)
    BY <1>2 DEF InBook, Started, Invoices
  <1>3. ASSUME NEW i \in Invoices, SendInvoice(i)
        PROVE  \A y \in Items : InBook(y)' <=> InBook(y)
    <2>1. Invoices' = Invoices /\ \A j \in Invoices : invoices'[j].uuid = invoices[j].uuid
      BY <1>1, <1>3 DEF SendInvoice, TypeOK, Invoices, Invoice
    <2>2. row' = row
      BY <1>3 DEF SendInvoice
    <2> QED BY <2>1, <2>2 DEF InBook, Started
  <1>4. ASSUME NEW p \in Pages, ScreenStep(p) \/ FlushStep(p) PROVE UNCHANGED <<invoices, row>>
    BY <1>4 DEF ScreenStep, StartOnPhone, BeginDiscard, OpenFix, OpenForm, SaveLine, DiscardNext,
                PageGone, FlushStep, BeginFlush, ReadDrafts, ReadLines, Post, Settle, Offline, server
  <1>5. ASSUME NEW c \in Connections, ServerStep(c)
        PROVE  \/ UNCHANGED <<invoices, row>>
               \/ UNCHANGED phone /\ Written(c)
    <2>1. CASE StrayLost(c) \/ NotNow(c) \/ ReadStep(c)
      BY <2>1 DEF StrayLost, NotNow, ReadStep, ReadDraft, TakeNumber, ReadLine, LockMeant, server
    <2>2. CASE StartDraft(c) \/ AddLine(c)
      <3>1. PICK r \in call[c], a \in {"ok", "refused", "again"} : Inserts(c, r, a)
        BY <1>1, <2>2, Insertion
      <3>2. CASE Nothing(r, a)
        BY <3>2 DEF Nothing
      <3>3. r.item.id \in Lines \/ r.item.id \in Drafts => UNCHANGED phone
        BY <3>1 DEF Inserts
      <3>4. ASSUME NEW i, Into(r, i), r.item.id \in Lines,
                   NEW y \in Lines, row'[y] # {}, y # r.item.id
            PROVE  row[y] # {}
        BY <1>1, <3>4 DEF Into, TypeOK
      <3>5. CASE LineOn(r)
        <4>1. \A d : Started(d)' <=> Started(d)
          BY <3>5 DEF LineOn, Started, Invoices
        <4>2. \A y \in Lines : row'[y] # {} => row[y] # {} \/ y = r.item.id
          BY <3>4, <3>5 DEF LineOn
        <4> QED BY <3>3, <3>5, <4>1, <4>2 DEF LineOn, Written, InBook, Items
      <3>6. CASE Starting(r)
        <4>1. /\ Invoices' = Invoices \cup {Len(invoices) + 1}
              /\ \A i \in Invoices : invoices'[i] = invoices[i]
              /\ invoices'[Len(invoices) + 1] = NewInvoice(r)
          BY <1>1, <3>6 DEF Starting, StartIn, TypeOK, Invoices
        <4>2. \A d : Started(d)' => Started(d) \/ d = r.item.id
          BY <4>1 DEF Started, NewInvoice
        <4>3. \A y \in Lines : row'[y] # {} => row[y] # {} \/ y = r.item.id
          BY <3>4, <3>6 DEF Starting
        <4> QED BY <3>3, <3>6, <4>2, <4>3 DEF Starting, Written, InBook, Items
      <3> QED BY <3>1, <3>2, <3>5, <3>6 DEF Inserts
    <2> QED BY <1>5, <2>1, <2>2 DEF ServerStep, ReadStep
  <1> QED BY <1>2, <1>3, <1>4, <1>5, Steps DEF vars, server, LetLineGo, NameBusiness

\* What is in somebody's keeping stays among what was made.
LEMMA OnlyMadeStep ==
    ASSUME IInv, OnlyMade, [Next]_vars
    PROVE  /\ OnlyMade'
           /\ \A y \in Items : InBook(y)' => y \in made
           /\ letGo' \subseteq made /\ made \subseteq made'
  <1>1. /\ TypeOK /\ Base /\ SInv
        /\ \A l \in Lines : lines[l] # {} => l \in made
        /\ \A d \in Drafts : drafts[d] # {} => d \in made
    <2>1. Drafts \subseteq Items /\ \A d \in Drafts : OnPhone(d) <=> drafts[d] # {}
      BY DEF Items, OnPhone
    <2> QED BY <2>1 DEF IInv, PInv, SInv, Base, HeldAreMade, OnlyMade
  <1>2. \A y \in Items : InBook(y)' => y \in made
    <2>1. \A c \in Connections : \A r \in call[c] : r.item.id \in made
      BY DEF OnlyMade
    <2> QED BY <2>1, BookTakes DEF Written, OnlyMade
  <1>3. made \subseteq made' /\ letGo' \subseteq made
    <2>1. ASSUME NEW p \in Pages, ScreenStep(p) PROVE made \subseteq made' /\ letGo' \subseteq made
      <3>1. ASSUME NEW d \in Drafts, BeginDiscard(p, d) PROVE letGo' \subseteq made
        BY <1>1, <3>1 DEF BeginDiscard, LinesHeld, TypeOK
      <3> QED BY <1>1, <2>1, <3>1 DEF ScreenStep, StartOnPhone, BeginDiscard, OpenFix, OpenForm,
                                      SaveLine, DiscardNext, PageGone, TypeOK
    <2>2. ASSUME NEW l \in Lines, LetLineGo(l) PROVE made \subseteq made' /\ letGo' \subseteq made
      BY <1>1, <2>2 DEF LetLineGo, TypeOK
    <2>3. ASSUME UNCHANGED <<made, letGo>> PROVE made \subseteq made' /\ letGo' \subseteq made
      BY <1>1, <2>3 DEF TypeOK
    <2>4. ASSUME NEW p \in Pages, FlushStep(p) PROVE UNCHANGED <<made, letGo>>
      BY <2>4 DEF FlushStep, BeginFlush, ReadDrafts, ReadLines, Post, Settle, Offline, phone
    <2>5. ASSUME NEW c \in Connections, ServerStep(c) PROVE UNCHANGED <<made, letGo>>
      BY <2>5 DEF ServerStep, StrayLost, NotNow, ReadDraft, TakeNumber, StartDraft, ReadLine,
                  LockMeant, AddLine, phone
    <2> QED BY <2>1, <2>2, <2>3, <2>4, <2>5, Steps DEF vars, phone, SendInvoice, NameBusiness
  <1>4. \A l \in Lines : lines'[l] # {} => l \in made'
    <2>1. IInv'
      BY IInvStep
    <2> QED BY <2>1 DEF IInv, PInv, HeldAreMade
  <1>5. \A d \in Drafts : drafts'[d] # {} => d \in made'
    <2>1. ASSUME NEW p \in Pages, NEW e \in Drafts, StartOnPhone(p, e),
                 NEW d \in Drafts, drafts'[d] # {}
          PROVE  d \in made'
      BY <1>1, <2>1 DEF StartOnPhone, TypeOK
    <2>2. ASSUME \A d \in Drafts : drafts'[d] # {} => drafts[d] # {}
          PROVE  \A d \in Drafts : drafts'[d] # {} => d \in made'
      BY <1>1, <1>3, <2>2
    <2>3. ASSUME NEW p \in Pages, DiscardNext(p), NEW d \in Drafts, drafts'[d] # {}
          PROVE  drafts[d] # {}
      BY <1>1, <2>3 DEF DiscardNext, TypeOK
    <2>4. ASSUME NEW p \in Pages, Settle(p), NEW d \in Drafts, drafts'[d] # {}
          PROVE  drafts[d] # {}
      <3>1. \A held : DraftLeft(held, reply[p]) # {} => held # {}
        BY DEF DraftLeft
      <3>2. PICK o \in out[p] : Settle(p)!2!(o)
        BY <2>4 DEF Settle
      <3>3. drafts' = drafts \/ drafts' = [drafts EXCEPT ![o.item.id] = DraftLeft(@, reply[p])]
        BY <3>2
      <3> QED BY <1>1, <2>4, <3>1, <3>3 DEF TypeOK
    <2>5. ASSUME NEW p \in Pages, ScreenStep(p)
          PROVE  drafts' = drafts \/ DiscardNext(p) \/ \E e \in Drafts : StartOnPhone(p, e)
      BY <2>5 DEF ScreenStep, BeginDiscard, OpenFix, OpenForm, SaveLine, PageGone
    <2>6. ASSUME NEW p \in Pages, FlushStep(p) PROVE drafts' = drafts \/ Settle(p)
      BY <2>6 DEF FlushStep, BeginFlush, ReadDrafts, ReadLines, Post, Offline, phone
    <2>7. ASSUME NEW c \in Connections, ServerStep(c) PROVE drafts' = drafts
      BY <2>7 DEF ServerStep, StrayLost, NotNow, ReadDraft, TakeNumber, StartDraft, ReadLine,
                  LockMeant, AddLine, phone
    <2> QED BY <2>1, <2>2, <2>3, <2>4, <2>5, <2>6, <2>7, Steps
            DEF vars, phone, LetLineGo, SendInvoice, NameBusiness
  <1>6. \A c \in Connections : \A r \in call'[c] : r.item.id \in made'
    <2>1. ASSUME NEW c \in Connections, ServerStep(c), NEW e \in Connections, NEW s \in call'[e]
          PROVE  s.item.id \in made'
      <3>1. PICK r \in call[e] : s.item = r.item
        BY <1>1, <2>1, Tells DEF Answers
      <3> QED BY <1>3, <3>1 DEF OnlyMade
    <2>2. ASSUME NEW p \in Pages, NEW c \in Connections, Post(p, c),
                 NEW e \in Connections, NEW s \in call'[e]
          PROVE  s.item.id \in made'
      <3>1. PICK x \in job[p].todo :
                call' = [call EXCEPT ![c] = {[item |-> x, stage |-> "sent", meant |-> 0,
                                              to |-> 0, number |-> 0, seq |-> 0]}]
        BY <2>2 DEF Post
      <3>2. s \in call[e] \/ s.item = x
        BY <1>1, <3>1 DEF TypeOK
      <3> QED BY <1>3, <3>2 DEF OnlyMade
    <2>3. ASSUME call' = call PROVE \A c \in Connections : \A r \in call'[c] : r.item.id \in made'
      BY <1>3, <2>3 DEF OnlyMade
    <2>4. ASSUME NEW p \in Pages, ScreenStep(p) PROVE call' = call
      BY <2>4 DEF ScreenStep, StartOnPhone, BeginDiscard, OpenFix, OpenForm, SaveLine, DiscardNext,
                  PageGone
    <2>5. ASSUME NEW p \in Pages, FlushStep(p) PROVE call' = call \/ \E c \in Connections : Post(p, c)
      BY <2>5 DEF FlushStep, BeginFlush, ReadDrafts, ReadLines, Settle, Offline
    <2> QED BY <2>1, <2>2, <2>3, <2>4, <2>5, Steps DEF vars, LetLineGo, SendInvoice, NameBusiness
  <1>7. \A p \in Pages : \A x \in job'[p].todo : x.id \in made'
    <2> DEFINE Only(S) == \A x \in S : x.id \in made'
    <2>1. ASSUME NEW q \in Pages PROVE Only(job[q].todo) /\ job[q] \in Job
      BY <1>1, <1>3 DEF OnlyMade, TypeOK
    <2>2. ASSUME job' = job PROVE \A q \in Pages : Only(job'[q].todo)
      BY <2>1, <2>2
    <2>3. ASSUME NEW p \in Pages, NEW j, job' = [job EXCEPT ![p] = j], Only(j.todo)
          PROVE  \A q \in Pages : Only(job'[q].todo)
      BY <1>1, <2>1, <2>3 DEF TypeOK
    <2>4. ASSUME NEW p \in Pages, BeginFlush(p) PROVE \A q \in Pages : Only(job'[q].todo)
      <3> DEFINE S == {AsItem(d) : d \in {e \in Drafts : drafts[e] = {"waiting"}}}
                 j == [at |-> "drafts", waits |-> {}, todo |-> S]
      <3>1. job' = [job EXCEPT ![p] = j]
        BY <2>4 DEF BeginFlush
      <3>2. Only(S)
        BY <1>1, <1>3 DEF AsItem
      <3>3. Only(j.todo)
        BY <3>2
      <3> QED BY <2>3, <3>1, <3>3
    <2>5. ASSUME NEW p \in Pages, ReadLines(p) PROVE \A q \in Pages : Only(job'[q].todo)
      <3> DEFINE S == {x \in UNION {{ItemOf(l, copy) : copy \in {k \in lines[l] : k.why = "waiting"}} :
                                     l \in Lines} : x.meant \notin job[p].waits}
                 j == [at |-> "lines", waits |-> {}, todo |-> S]
      <3>1. job' = [job EXCEPT ![p] = j]
        BY <2>5 DEF ReadLines
      <3>2. Only(S)
        BY <1>1, <1>3 DEF ItemOf
      <3>3. Only(j.todo)
        BY <3>2
      <3> QED BY <2>3, <3>1, <3>3
    <2>6. ASSUME NEW p \in Pages, NEW c \in Connections, Post(p, c)
          PROVE  \A q \in Pages : Only(job'[q].todo)
      <3>1. PICK x \in job[p].todo : job' = [job EXCEPT ![p].todo = @ \ {x}]
        BY <2>6 DEF Post
      <3>2. ASSUME NEW q \in Pages PROVE job'[q].todo \subseteq job[q].todo
        BY <1>1, <2>1, <3>1 DEF TypeOK, Job
      <3> QED BY <2>1, <3>2
    <2>7. ASSUME NEW p \in Pages, ReadDrafts(p) PROVE \A q \in Pages : Only(job'[q].todo)
      <3>1. job' = [job EXCEPT ![p].at = "waits", ![p].waits = {d \in Drafts : drafts[d] # {}}]
        BY <2>7 DEF ReadDrafts
      <3>2. ASSUME NEW q \in Pages PROVE job'[q].todo = job[q].todo
        BY <1>1, <2>1, <3>1 DEF TypeOK, Job
      <3> QED BY <2>1, <3>2
    <2>8. ASSUME NEW p \in Pages, PageGone(p) \/ Offline(p)
          PROVE  \A q \in Pages : Only(job'[q].todo)
      <3>1. job' = [job EXCEPT ![p] = Idle] /\ Only(Idle.todo)
        BY <2>8 DEF PageGone, Offline, Idle
      <3> QED BY <2>3, <3>1
    <2>9. ASSUME NEW p \in Pages, ScreenStep(p) PROVE job' = job \/ PageGone(p)
      BY <2>9 DEF ScreenStep, StartOnPhone, BeginDiscard, OpenFix, OpenForm, SaveLine, DiscardNext,
                  flush
    <2>10. ASSUME NEW c \in Connections, ServerStep(c) PROVE job' = job
      BY <2>10 DEF ServerStep, StrayLost, NotNow, ReadDraft, TakeNumber, StartDraft, ReadLine,
                   LockMeant, AddLine, Answer, GoOn, StartOr, flush
    <2>11. ASSUME NEW p \in Pages, Settle(p) PROVE job' = job
      BY <2>11 DEF Settle
    <2> QED BY <2>2, <2>4, <2>5, <2>6, <2>7, <2>8, <2>9, <2>10, <2>11, Steps
            DEF vars, flush, FlushStep, LetLineGo, SendInvoice, NameBusiness
  <1>8. \A x \in Items : OnPhone(x)' => x \in made'
    BY <1>4, <1>5 DEF OnPhone, Items
  <1> QED BY <1>2, <1>3, <1>6, <1>7, <1>8 DEF OnlyMade

Stays(y) == KeptBy'[y] = KeptBy[y]

\* Nothing on the server moves, and of the phone's only what x is.
LEMMA PhoneMoves ==
    ASSUME \A y \in Items : InBook(y)' <=> InBook(y), NEW x,
           \A y \in Items \ {x} : /\ OnPhone(y)' <=> OnPhone(y)
                                  /\ y \in letGo' <=> y \in letGo
                                  /\ y \in made' <=> y \in made
    PROVE  \A y \in Items \ {x} : Stays(y)
  BY DEF Stays, KeptBy, Items

\* Whatever the step, all but one stay where they are.
LEMMA OneMoves ==
    ASSUME IInv, OnlyMade, [Next]_vars
    PROVE  \E x : \A y \in Items \ {x} : Stays(y)
  <1>1. TypeOK /\ SInv /\ NothingLost /\ CallsFit
    BY DEF IInv, SInv, PInv
  <1>2. \A d \in Drafts : OnPhone(d) <=> drafts[d] # {}
    BY DEF OnPhone
  <1>3. \A l \in Lines : OnPhone(l) <=> lines[l] # {}
    BY KindsAssumption DEF OnPhone
  <1>4. CASE \E c \in Connections : Written(c) /\ UNCHANGED phone
    <2>1. PICK c \in Connections : Written(c)
      BY <1>4
    <2>2. PICK x : \A r \in call[c] : r.item.id = x
      <3>1. CASE call[c] = {}
        BY <3>1
      <3>2. ASSUME NEW r \in call[c] PROVE \E x : \A s \in call[c] : s.item.id = x
        BY <1>1 DEF CallsFit, Lone
      <3> QED BY <3>1, <3>2
    <2>3. \A y \in Items : InBook(y) => InBook(y)'
      <3>1. Base
        BY DEF IInv, SInv, PInv, Base
      <3> QED BY <1>1, <3>1, Arrives DEF InBook, Items
    <2>4. \A y \in Items \ {x} : InBook(y)' <=> InBook(y)
      BY <2>1, <2>2, <2>3 DEF Written
    <2>5. \A y \in Items : OnPhone(y)' <=> OnPhone(y)
      BY <1>4 DEF phone, OnPhone
    <2> QED BY <1>4, <2>4, <2>5 DEF Stays, KeptBy, Items, phone
  <1>5. CASE \A y \in Items : InBook(y)' <=> InBook(y)
    <2>1. ASSUME UNCHANGED phone PROVE \A y \in Items : Stays(y)
      <3>1. \A y \in Items : OnPhone(y)' <=> OnPhone(y)
        BY <2>1 DEF phone, OnPhone
      <3> QED BY <1>5, <2>1, <3>1 DEF Stays, KeptBy, Items, phone
    <2>2. ASSUME UNCHANGED <<drafts, lines, made, letGo>> PROVE \A y \in Items : Stays(y)
      <3>1. \A y \in Items : OnPhone(y)' <=> OnPhone(y)
        BY <2>2 DEF OnPhone
      <3> QED BY <1>5, <2>2, <3>1 DEF Stays, KeptBy, Items
    <2>3. ASSUME NEW d \in Drafts, UNCHANGED lines,
                 \A e \in Drafts \ {d} : drafts'[e] = drafts[e],
                 made' \in {made, made \cup {d}}, letGo' = letGo
          PROVE  \A y \in Items \ {d} : Stays(y)
      <3>1. \A y \in Items \ {d} : OnPhone(y)' <=> OnPhone(y)
        BY <2>3 DEF OnPhone, Items
      <3> QED BY <1>5, <2>3, <3>1, PhoneMoves
    <2>4. ASSUME NEW l \in Lines, UNCHANGED drafts,
                 \A k \in Lines \ {l} : lines'[k] = lines[k],
                 made' \in {made, made \cup {l}}, letGo' \in {letGo, letGo \cup {l}}
          PROVE  \A y \in Items \ {l} : Stays(y)
      <3>1. \A y \in Items \ {l} : OnPhone(y)' <=> OnPhone(y)
        BY <2>4 DEF OnPhone, Items
      <3> QED BY <1>5, <2>4, <3>1, PhoneMoves
    <2>5. ASSUME NEW p \in Pages, NEW d \in Drafts, StartOnPhone(p, d)
          PROVE  \A y \in Items \ {d} : Stays(y)
      BY <1>1, <2>3, <2>5 DEF StartOnPhone, TypeOK
    <2>6. ASSUME NEW p \in Pages, NEW d \in Drafts, BeginDiscard(p, d)
          PROVE  \A y \in Items : Stays(y)
      <3>1. /\ UNCHANGED <<drafts, lines, made>> /\ d \in made
            /\ letGo' = letGo \cup {d} \cup LinesHeld(d)
        BY <2>6 DEF BeginDiscard
      <3>2. \A y \in Items : OnPhone(y)' <=> OnPhone(y)
        BY <3>1 DEF OnPhone
      <3>3. \A l \in LinesHeld(d) : OnPhone(l)
        BY <1>3 DEF LinesHeld
      <3>4. OnPhone(d) \/ InBook(d) \/ d \in letGo
        BY <1>1, <1>2, <3>1 DEF NothingLost, InBook
      <3> HIDE DEF InBook, OnPhone
      <3>5. ASSUME NEW y \in Items PROVE Stays(y)
        <4>1. y \in letGo' => y \in letGo \/ OnPhone(y) \/ InBook(y)
          BY <3>1, <3>3, <3>4
        <4> QED BY <1>5, <3>1, <3>2, <4>1 DEF Stays, KeptBy, Items
      <3> QED BY <3>5
    <2>7. ASSUME NEW p \in Pages, SaveLine(p) PROVE \E x : \A y \in Items \ {x} : Stays(y)
      <3>1. PICK f \in form[p], good \in BOOLEAN : SaveLine(p)!1!(f, good)
        BY <2>7 DEF SaveLine
      <3>2. f.line \in Lines
        BY <1>1 DEF TypeOK
      <3>3. \A k \in Lines \ {f.line} : lines'[k] = lines[k]
        BY <1>1, <3>1 DEF TypeOK
      <3>4. UNCHANGED <<drafts, letGo>> /\ made' = made \cup {f.line}
        BY <2>7, <3>1 DEF SaveLine
      <3> QED BY <2>4, <3>2, <3>3, <3>4
    <2>8. ASSUME NEW p \in Pages, DiscardNext(p) PROVE \E x : \A y \in Items \ {x} : Stays(y)
      <3>1. PICK k \in discard[p] : DiscardNext(p)!1!(k)
        BY <2>8 DEF DiscardNext
      <3>2. k.draft \in Drafts /\ k.left \subseteq Lines
        BY <1>1 DEF TypeOK
      <3>3. UNCHANGED <<made, letGo>>
        BY <2>8 DEF DiscardNext
      <3>4. ASSUME NEW l \in k.left, lines' = [lines EXCEPT ![l] = {}], drafts' = drafts
            PROVE  \A y \in Items \ {l} : Stays(y)
        BY <1>1, <2>4, <3>2, <3>3, <3>4 DEF TypeOK
      <3>5. ASSUME drafts' = [drafts EXCEPT ![k.draft] = {}], lines' = lines
            PROVE  \A y \in Items \ {k.draft} : Stays(y)
        BY <1>1, <2>3, <3>2, <3>3, <3>5 DEF TypeOK
      <3> QED BY <3>1, <3>4, <3>5
    <2>9. ASSUME NEW p \in Pages, Settle(p) PROVE \E x : \A y \in Items \ {x} : Stays(y)
      <3>1. PICK o \in out[p] : Settle(p)!2!(o)
        BY <2>9 DEF Settle
      <3>2. UNCHANGED <<made, letGo>>
        BY <2>9 DEF Settle
      <3>3. ASSUME o.item.id \in Drafts, lines' = lines,
                   drafts' = [drafts EXCEPT ![o.item.id] = DraftLeft(@, reply[p])]
            PROVE  \A y \in Items \ {o.item.id} : Stays(y)
        BY <1>1, <2>3, <3>2, <3>3 DEF TypeOK
      <3>4. ASSUME o.item.id \in Lines, drafts' = drafts,
                   lines' = [lines EXCEPT ![o.item.id] = LineLeft(@, o.item, reply[p])]
            PROVE  \A y \in Items \ {o.item.id} : Stays(y)
        BY <1>1, <2>4, <3>2, <3>4 DEF TypeOK
      <3> QED BY <3>1, <3>3, <3>4
    <2>10. ASSUME NEW l \in Lines, LetLineGo(l) PROVE \A y \in Items \ {l} : Stays(y)
      BY <1>1, <2>4, <2>10 DEF LetLineGo, TypeOK
    <2>11. ASSUME NEW p \in Pages, ScreenStep(p) PROVE \E x : \A y \in Items \ {x} : Stays(y)
      BY <2>2, <2>5, <2>6, <2>7, <2>8, <2>11 DEF ScreenStep, OpenFix, OpenForm, PageGone
    <2>12. ASSUME NEW p \in Pages, FlushStep(p) PROVE \E x : \A y \in Items \ {x} : Stays(y)
      BY <2>1, <2>9, <2>12 DEF FlushStep, BeginFlush, ReadDrafts, ReadLines, Post, Offline
    <2>13. ASSUME NEW c \in Connections, ServerStep(c) PROVE UNCHANGED phone
      BY <2>13 DEF ServerStep, StrayLost, NotNow, ReadDraft, TakeNumber, StartDraft, ReadLine,
                   LockMeant, AddLine
    <2> QED BY <2>1, <2>10, <2>11, <2>12, <2>13, Steps DEF vars, SendInvoice, NameBusiness
  <1> QED BY <1>4, <1>5, BookTakes

\* So KeptBy takes a step of EntryCustody, or none.
LEMMA CustodyStep ==
    ASSUME IInv, IInv', OnlyMade, OnlyMade', [Next]_vars
    PROVE  Custody!Next \/ UNCHANGED KeptBy
  <1>1. NothingLost /\ NothingLost' /\ letGo \subseteq made /\ letGo' \subseteq made'
    BY DEF IInv, PInv, TypeOK
  <1>2. KeptBy = [y \in Items |-> KeptBy[y]] /\ KeptBy' = [y \in Items |-> KeptBy'[y]]
    BY DEF KeptBy, Items
  <1>3. \A y \in Items : y \in made => InBook(y) \/ OnPhone(y) \/ y \in letGo
    BY <1>1 DEF NothingLost, InBook, OnPhone, Items
  <1>4. \A y \in Items : y \in made' => InBook(y)' \/ OnPhone(y)' \/ y \in letGo'
    BY <1>1 DEF NothingLost, InBook, OnPhone, Started, Items
  <1>5. \A y \in Items : KeptBy[y] \in Custody!Keepers /\ KeptBy'[y] \in Custody!Keepers
    BY <1>3, <1>4 DEF KeptBy, Custody!Keepers, Items
  <1>6. \A y \in Items : KeptBy[y] = "unmade" <=> y \notin made
    BY <1>1, <1>3 DEF KeptBy, OnlyMade, Items
  <1>7. \A y \in Items : KeptBy'[y] = "unmade" <=> y \notin made'
    BY <1>1, <1>4 DEF KeptBy, OnlyMade, Items
  <1>8. \A y \in Items \ made : KeptBy'[y] \in {"unmade", "phone"}
    <2>1. \A y \in Items \ made : ~InBook(y)' /\ y \notin letGo'
      BY OnlyMadeStep
    <2> QED BY <1>4, <2>1 DEF KeptBy, Items
  <1>9. made \subseteq made'
    BY OnlyMadeStep
  <1>10. PICK u : \A y \in Items \ {u} : Stays(y)
    BY OneMoves
  <1>11. CASE u \notin Items \/ Stays(u)
    BY <1>2, <1>10, <1>11 DEF Stays
  <1>12. CASE u \in Items /\ ~Stays(u)
    <2>1. KeptBy' = [KeptBy EXCEPT ![u] = KeptBy'[u]]
      BY <1>2, <1>10, <1>12 DEF Stays
    <2>2. \/ Custody!Make(u) \/ Custody!Arrive(u)
          \/ Custody!LetGo(u) \/ Custody!ComeBack(u)
      BY <1>5, <1>6, <1>7, <1>8, <1>9, <1>12, <2>1
      DEF Stays, Custody!Keepers, Custody!Make, Custody!Arrive, Custody!LetGo, Custody!ComeBack,
          Custody!Pass
    <2> QED BY <1>12, <2>2 DEF Custody!Next, Items
  <1> QED BY <1>11, <1>12

\* The two stores implement EntryCustody: a draft and a line pass between the
\* phone, the server and their person's having let them go, one at a time, and
\* are never in nobody's keeping.
THEOREM CustodyIsKept == Spec => CustodyKept
  <1>1. Init => Custody!Init /\ OnlyMade
    <2> SUFFICES ASSUME Init PROVE Custody!Init /\ OnlyMade
      OBVIOUS
    <2>1. \A x \in Items : ~InBook(x) /\ ~OnPhone(x)
      BY DEF Init, InBook, OnPhone, Started, Invoices, Items
    <2>2. OnlyMade
      BY <2>1 DEF Init, OnlyMade, Idle
    <2>3. Custody!Init
      BY <2>1 DEF Init, Custody!Init, KeptBy, Items
    <2> QED BY <2>2, <2>3
  <1>2. IInv /\ OnlyMade /\ [Next]_vars => OnlyMade'
    BY OnlyMadeStep
  <1>3. IInv /\ IInv' /\ OnlyMade /\ OnlyMade' /\ [Next]_vars => [Custody!Next]_KeptBy
    BY CustodyStep
  <1> QED BY <1>1, <1>2, <1>3, Inductive, PTL DEF CustodyKept, Custody!Spec, Spec
=============================================================================
