# Reckon: models, checks and proofs

Reckon is a SvelteKit and Postgres application for a small trade business: time
is recorded on phones at jobsites, priced against services and agreements, put
on draft invoices with materials and trips, sent, and paid out to the people who
worked it. Its hard parts are not the screens. They are what happens between a
phone that loses its signal and a server that must write everything once, and
between several people who change the same draft.

Paths below are relative to the repository's root (`src/lib/queue.ts` is the
program's source directory).

## The system

| Part | State | Operations | Where it is hard | What makes it correct |
|---|---|---|---|---|
| Capture queue, `src/lib/queue.ts` | five IndexedDB stores, keyed by uuid: time, drafts, lines, changes, trips | enqueue, settle, discard, flush; per store | pages that go away mid-post, answers lost, several tabs, copies replaced while their post is out | nothing thrown away; one post's answer never takes out a newer copy; everything waiting is sent or shown |
| Running timers, `src/lib/timers.ts`, `src/routes/timesheet` | a list in localStorage | start, drop, moveStart, toEntry | a stop is two writes to two stores; a screen's list is stale | time is in at least one place at every moment |
| Time API, `src/routes/api/time` | `time_entry`, `time_entry_crew` | POST, DELETE | repeats, references deleted since, access changed since | one row to a client_uuid; what is paid stays |
| Drafts, `src/lib/server/drafts.ts` | `invoice` in state draft, the operator's next number | start, repeat | two drafts numbered at once; a repeat after its answer was lost | one draft to a client_uuid, numbers distinct |
| Lines, `src/lib/server/lines.ts` | `invoice_line` and its version, receipts, draws | add, change with merge, take off, restore | lines on their way to a draft that goes out; changes merged with changes made meanwhile; retries after another save won | no save is silently undone; a conflict reaches a person |
| Sending, `src/routes/api/invoices/[id]/send` | invoice state, totals, token | send | lines still on a phone, or arriving as it is sent | a sent invoice never changes |
| Stock, `src/lib/stock-draw.ts`, `src/lib/server/stock.ts` | lots, draws | receive, draw, change a draw, give back | two lines for the last units; costs rounded and put back | never more drawn than received; what is drawn costs what was paid |
| Trips, `src/lib/trip`, `src/lib/trip-legs.ts`, `src/routes/api/trips` | the form, the phone's copy, `trip`, its stops and legs | fill in, save, record, reopen, change | what was typed is not kept, and is worked out again from the legs | each drive's legs come to its miles, charged to whoever caused them |
| Pay, `src/routes/api/pay`, `src/lib/server/pay.ts` | payments, their items and corrections | owed, pay, correct | owed is worked out before the transaction that records it | nothing paid twice, and what is paid stays |
| Retainers, `src/lib/server/valuation`, `src/routes/api/agreements` | agreements, what they cover, periods charged | make, move, cover, remove; value entries | work recorded late; only some entries loaded | a pool drawn once, in the order the work was done |
| Sites, `src/routes/api/clients/[id]/sites`, `src/lib/Setting.svelte`, `src/lib/server/concurrent.ts` | the row and its version, the pages on it | make, save a field, move, refresh rates, measure | a field saved against a version, look-ups that answer late, writers that name no version | nobody's words erased unseen; figures about the place they are beside |
| Access, `src/hooks.server.ts`, `src/lib/access.ts` | sessions, roles, temporary passwords | sign in, hand over, revoke | two people taking Full from each other | someone keeps Full |
| Offline cache, `src/service-worker` | caches | warm, forget, answer | warming while signing out | nothing kept after sign-out |
| Pricing, tax, reports, settings | derived or single-row | | arithmetic, layout | outside these models, see the end |

Phones post to the APIs through the queue's flush; the APIs share the database,
whose constraints and triggers are the last guard; screens read the queue and
the timers once a second, and a save posts what it queued. An office page saves
a field at a time, guarded by the version it was loaded with. Entries and trips
are what pay and valuation read; lines are what stock is drawn by.

## Modules

| Module | Models |
|---|---|
| `CaptureQueue` | the time store, the timers, any number of pages flushing from it, the network, and POST and DELETE of `/api/time` |
| `EntryCustody` | what the queue promises of one entry, draft or line, however it travels |
| `LineMerge` | the three-way merge, pure |
| `LineChanges` | changes to one line of a draft: the change store and the screens that write to it, the handlers that change the line, take it off and put it back, and the sending of its invoice |
| `DraftLines` | drafts started on a phone and lines added to them: the two stores, the order a flush takes them in, the handlers that number a draft and find a line its place, and the sending |
| `StockShelf` | one material's lots and the lines that draw from them, under the locks and triggers, and what each line costs |
| `Payroll` | entries, trips and rates, what people are owed, payments and corrections, and the changes and removals that cross them |
| `Retainers` | agreements, their periods, the entries they cover, and the coverage and shares worked out of them |
| `Trips` | a trip's form, its copy on the phone, the legs it is recorded as, and the form it opens in again |
| `Sites` | a site's row, the pages and the new-site form, the PATCH that saves a field, the refresh of rates and the measuring of drives |
| `MC...` | instances for TLC, one to each of the above but `EntryCustody` and `LineMerge` |
| `CaptureQueueProofs`, `LineChangesProofs`, `DraftLinesProofs`, `StockShelfProofs`, `TripsProofs`, `SitesProofs` | the theorems about each |
| `MoneyProofs` | the theorems about `Retainers` and about `Payroll`, which share no state and no names (so `PaySpec`, `PayTypeOK` in `Payroll`) |
| `Sums` | facts about sums and products over any finite set, and about passes through a sequence and sequences joined, which the theorems about `StockShelf`, `Retainers` and `Trips` rest on |

`CaptureQueue` and `DraftLines` implement `EntryCustody`, each under the mapping
`KeptBy` of its own among its properties, and `LineChanges` is built on
`LineMerge`. The others meet where the
code's parts do, each modelling the other from its own side: `postOne` and
`settleIn` in every store of the queue; the lock on an invoice, which
`LineChanges` and `DraftLines` take as a line is written and `SendInvoice` in
both takes too; the entries and trips, which `Payroll` pays, `Retainers` values
and `CaptureQueue` and `Trips` record. `CaptureQueue` has several pages to a
phone and one phone; `LineChanges` has several phones of one page each, since
what is hard in it is what they do to one another.

### CaptureQueue

State on the phone's disk: `running` (localStorage), `queue` (the store, a copy
per `client_uuid` with `stamp` for `queued_at` and a refusal), `clock` (the last
`queued_at`), and two histories the properties need, `made` and `letGo`. State
of a page, lost with it: `shown` (the timers on its screen), `hand` (a stop
between its two writes, or a fix being edited), `due` (a flush chained and not
begun), `todo` (the copies `post()` read), `out` and `answer` (the request being
waited for and its outcome). `strays` are requests a page gave up, which may
still arrive. State of the server: `table` (the rows of each uuid, a sequence so
that a double could show), `barred` (bodies the handler's checks refuse, which a
change of somebody's access changes) and `gone` (bodies that name something
deleted).

| Action | Code |
|---|---|
| `StartTimer`, `ReadTimers` | `timers.start`; the screen's read, each second |
| `StopTimer`, `DropTimer` | `stop()`: `enqueue` committed, then `drop` and a flush |
| `AddPastWork`, `OpenFix`, `SaveFix` | `timesheet/manual` |
| `Discard` | `letGo` on a refused entry |
| `AskFlush`, `BeginFlush`, `Post`, `Settle`, `GoOffline` | `flush`, `post`, `postOne`, `settleIn` |
| `PageGone` | a page closed, reloaded or killed at any step |
| `Serve`, `StrayArrives`, `StrayLost` | POST, for a page that waits or for none |
| `DeleteRow`, `ChangeAccess`, `DeleteNamed` | what other people do meanwhile |

A body is a model value. All the properties ask of one is whether two copies say
the same, whom it names as crew (`CrewOf`), and whether the server takes it.
`answer` has the outcomes of `postOne`: `ok`, `refused` (a 4xx, kept), `again`
(401, 408, 429, 5xx); `offline` is `GoOffline`, which may lose an answer the
server has given. The order of the POST handler is kept: its checks on the body
come before any row is looked for, and the foreign keys are met only when a row
is written, so a repeat of a recorded entry may be refused by the first and not
by the second, unless it adds somebody deleted since to the crew
(`AddsSomebodyGone`).

### LineChanges

State of the server: `line` (the row: whether it is on, its `version`, its
merged fields, the invoice it is on; once off, what the deletion's history row
keeps of it), `sent` (the invoices that have gone out), and the history `landed`
(the copies carried out). State of a phone: `shown` (the save its page was
loaded with), `hand` (a change that has read the store and is not yet put),
`store` (the copy held for the line, waiting or with why it was refused),
`post` (the connection it waits on) and `reply` (an answer not yet settled).
`call` is a request as far as the server has got with it: what it asked, the
fields as merged, how often it was read again, and the version and invoice the
row was read with.

| Action | Code |
|---|---|
| `Load` | the line's screen and its form, loaded from the server |
| `BeginSave`, `CommitSave` | `change` of `LineForm.svelte` and `takeOff`: `enqueueChange` reads the store, and puts in a transaction of its own |
| `KeepPicks`, `OffAnyway`, `PutBack`, `LetGo` | what a person decides about a collision, a removal asked about, a line taken off: `enqueueChange(.., true)`, `discardChange` |
| `Post`, `Settle`, `Offline`, `StrayLost` | the flush of the change store, `postOne`, `settleIn`, and the network |
| `ReadLine`, `WriteLine` | `changeLine`: the row read, merged or found in collision; then, under the invoice's lock, the version compared and the row saved, or read again |
| `ReadRemoval`, `WriteRemoval` | `removeLine`, likewise |
| `ReadRestore`, `WriteRestore` | `restoreLine`, which reads the row it was; `addLine` and `target`, which find it a draft and insert it |
| `SendInvoice` | the send endpoint, which holds the same lock |

A handler is two steps because it reads outside the transaction it writes in;
each write is one step because it holds the invoice's row lock. `Rewritten` is
the trigger `bump_version`, which counts a save that changes only a column
outside the merge too (`more`); `Frozen` is the check of the status of the
invoice a request was read with, and the trigger on the one the line is on by
now. Two values of a field are equal here when `same()` says so. What a request
may be refused for that has nothing to do with the others (a line somebody else
added, a site gone, a shelf too short) is a choice of each handler. Abstracted:
receipts, prices, which follow from the fields, and draws from stock. The draft
may have other lines, so it may be sent while this one is off it, and a line put
back goes to any draft there is once its own is out.

### DraftLines

State of the server: `invoices`, in the order they were started, `next` (the
operator's number), `named` (whether there is an operator row to number from),
and `row` (each line's invoice, its place there and the invoice it was meant
for). State of the phone: `drafts` and `lines`, the two stores, with `written`
to bound them; `made` and `letGo` are histories. State of a page: its `form`,
the `discard` it is half way through, its `job` (how far its flush is), `out`
and `reply`. `call` is a request as far as the server has got with it.

| Action | Code |
|---|---|
| `StartOnPhone`, `OpenForm`, `OpenFix`, `SaveLine` | New draft; Add a line, or open one refused, and save it: `enqueueDraft`, `enqueueLine` |
| `LetLineGo`, `BeginDiscard`, `DiscardNext` | `discardLine`; `discardDraft`, a transaction to each line and then the draft |
| `BeginFlush`, `ReadDrafts`, `ReadLines`, `Post`, `Settle`, `Offline`, `StrayLost` | `flush`: the drafts posted, those left read, the lines read and those of a draft left behind skipped, the rest posted |
| `ReadDraft`, `TakeNumber`, `StartDraft` | `startDraft`: the row looked for; the operator's row locked and read; the insert, and its index on the uuid |
| `ReadLine`, `LockMeant`, `TakeNumber`, `AddLine` | `addLine` and `target`: found, the invoice locked and the line's place chosen, a new draft numbered where it has gone out, the insert |
| `SendInvoice`, `NameBusiness`, `NotNow` | the send endpoint; Settings; a 401 or a 5xx |

The locks are kept as they are held: `OperatorFree` from the number taken to the
end, `InvoiceFree` from the place chosen to the end. All that a handler decides
between two locks is one step. A draft may be refused for its client gone from
the list as long as no invoice names the client, which is when the list lets it
go; a line that finds no operator to number its new draft is answered with a 500
and tried again.

### StockShelf

`lots` in the order entered, with what is left of each; `line`, with its draws
off each lot and its cost; `costing`, the operator's method; `call`, a draw as
far as it is, with the shelf it read.

| Action | Code |
|---|---|
| `Receive`, `ChooseCosting` | `catalogue/materials/receive`; Settings |
| `Ask`, `LockDraft`, `LockMaterial` | `fromTheShelf` and `changeLine`: the costing read, `stillADraft`, the material locked `for no key update` and `shelves` read |
| `Draw`, `DrawMore`, `PutBack`, `Refuse` | `drawFrom`; `changeDraw` for more and for fewer; the shelf short |
| `TakeOff` | `removeLine`, whose draws cascade |

`StockFollows` is the trigger `stock_follows_draws`, and `LotAllows` the check on
the lot behind it. Money is in the fourth decimal place, the one `divRound`
rounds to, so `RoundDiv` is exact; `Parts` is the common denominator that the
code's `Ratio` keeps, so that `ReceiptCost` is not rounded, as it is not there.
The lines are finitely many (`LinesAssumption`), since a lot is short by the sum
of what they draw off it.

### Payroll

`crew`, `teams` (the entries recorded of a team), `trip` and `rate` are the work
and its rules; `payments`, `items` and `corrections` what is recorded; `posted` a payment as far as its handler is,
with each thing it read when it read it; `removing` work found to be removable
and not yet removed.

| Action | Code |
|---|---|
| `AddEntry`, `RepeatEntry`, `RecordTrip`, `ChangeTrip`, `SetRate` | POST of time, and the repeat of a team's entry, whose crew gains whoever it names besides, paid or not; POST of trips, PUT of a trip (which holds its row as it asks whether it is settled), pay rules |
| `AskRemoval`, `RemoveWork`, `RefuseRemoval` | DELETE: billed or paid asked outside the transaction, then the delete, which the items' foreign keys restrict |
| `Ask`, `ReadPaid`, `ReadWork`, `ReadLegs` | the page's post, and `owed` in its separate queries |
| `Record`, `Answer` | the transaction: unique indexes and foreign keys as guards; or the conflict told |

### Retainers

`entries`, `agreements`, `rows` (the order the database returns the agreements
in, which a change may alter) and `periods`. Valuation keeps nothing, so it is
operators over the state: `AgreementFor`, `Covered`, `CoveredShare`, `Peers` and
`ValueEntries` are the functions of `entries.ts` and `load.ts`, and the
properties compare what they say of one set of entries with what they say of
another, over every history of the agreements. Nothing in `src` charges a period
yet, so `Charge` is external, held to the constraints the schema puts on one.

What a work, a deal and a charge may say is assumed of the constants and not
chosen by them: ids are finitely many naturals (`IdsAssumption`), seconds and
heads naturals (`WorksAssumption`), a deal has a site and a pool or none
(`DealsAssumption`), a charge is not negative (`ChargesAssumption`). Heads may be
none, of a team entry nobody is put down for: it has no share of a charge, and
nobody has where all of a period's work is of that kind.

### Trips

`form` (stops, what was typed and given by the key of two places, whether
Google has answered), `store` (the phone's copy, with the draft it was filled in
from), `trip` (stops and legs, and the history of what they were typed and given
as). The buttons of `TripForm.svelte` are `AddStop`, `RemoveStop`, `AskedThere`,
`TypeMiles`, `GiveTo`; `AnswerRoute` is Google; `Save`, `Fix`, `LetGo`, `Close`
the phone; `Take` and `Refuse` the handlers. `LegsOf` is `legsOf` and `Opened`
the loader of `trips/[id]/change`, which works the form out of the legs, a drive
at a time (`LegsFor`); `Among` is the filter that `causedBy` and the loader share.

Of the constants it is assumed that a stop names each client once
(`ThereAssumption`): the form offers a client's sites one at a time and those of
other clients at the address, asks of each client once, and the server keeps the
first visit of each (`trip-input.ts:108`). And that miles typed, last driven, of
a round trip or by road are hundredths of a mile, whole and not negative
(`MilesAssumption`).

### Sites

`site` is the row, its figures named by the place they are about; `forms` the
new-site form of each page with the look-ups it has out; `pages` the version a
page holds, the place it draws, the label drawn with that version (none once it
holds a version it was not drawn with) and what is in a box unsaved; `saves`
each save from its sending to its answer; `asked` what the refresh and the
measuring have read and not yet written.

| Action | Code |
|---|---|
| `OpenForm`, `Choose`, `TypeNew`, `HearDrive`, `Create` | `clients/[id]/sites/new` and POST |
| `Open`, `Refresh`, `Type`, `CommitLabel`, `CommitTyped`, `MoveTo` | the site's screen: its loader, `refreshAll`, `Setting.svelte`'s `commit`, `moveTo` |
| `ReadSite`, `Land`, `Refuse`, `Hear`, `GiveUp` | PATCH: the row read and the place priced and measured; the update where the version is the page's, or a 412; the answer heard or lost |
| `Close` | DELETE |
| `StartRefresh`, `WriteRate` | `scripts/refresh-tax-rates.mjs` |
| `StartMeasuring`, `WriteDrive`, `LeaveAlone` | `measureEverySite` |

## Runs

| Run | Instance | Shows |
|---|---|---|
| `queue_pages` | 1 uuid, 2 pages, 1 body, 2 writes | `TypeOK`, `NothingLost`, `OneRowPerEntry`, `NewerWordStays`, and that the queue implements `EntryCustody` |
| `queue_settles` | 2 uuids, 1 page, 1 body, 2 writes, fair | `WaitingSettles`, `PostsOnlyWaiting` |
| `lines_races` | 2 phones, 2 connections, 1 field of 3 values, changes and removals, 2 writes | `TypeOK`, `VersionNamesFields`, `SentStaysAsSent`, `LeavesOnceLanded`, `OnlyKnownIsOverwritten` |
| `lines_put_back` | 1 phone, 2 connections, 1 field of 3 values, all acts, 3 writes, 2 invoices | `SentStaysAsSent` where lines are put back and collisions decided |
| `drafts_server` | 1 draft, 2 lines, 1 page, 2 connections, 3 invoices | `TypeOK`, `NothingLost`, `StartedOnce`, `OneSuccessor`, `SentIsFixed`, `NoneStartedEmpty`, `RefusedOverNumber` |
| `drafts_settles` | 1 draft, 1 line written twice, 1 page, 1 connection, fair | `NoneOutlivesItsDraft`, `WaitingLeaves`, and that the two stores implement `EntryCustody` |
| `stock_shelf` | 2 lines, 2 drafts, 2 connections, 2 lots of up to 3 on 2 days at 2 costs, both costings, 3 draws | `StockAddsUp`, `WorthLeavesWithTheLast`, `LotNeverRefuses` |
| `pay_once` | 2 people, an entry, a trip, 2 vehicles one of them owned, 2 payments at once of one thing each, 1 removal | `PaidOnce`, `ItemsAreOfPayments`, `PaidStays` |
| `retainer_covers` | 3 entries of 4 kinds of work, 2 agreements of 7 kinds, 2 kinds of period | `PeersAreEnough`, `PoolIsDrawn`, `DrawnInOrder`, `ChargeIsSharedOut`, `ClosestAgreement` |
| `trips_legs` | 2 stops, 2 clients, 2 changes besides a new trip's stops | `DrivesAddUp`, `OnlyCausersPay`, `ReopensTheSame` |
| `trip_reopened` | the same | `OpensAsSaved` does not hold |
| `sites_saves` | 2 places, 2 labels, 2 pages, 2 saves, 1 refresh or measuring, 2 writes after the first | `TypedIsOfThePlace`, `ErasesOnlyWhatWasShown`, `LeftBehindOnlyByALateAnswer` |

Deadlock is not checked anywhere: with the writes used up and everything sent, a
phone rests, and so does an office.

### Bounds, and why they are enough

Of `CaptureQueue` the only bound is `MaxStamp`, how many times anything is
written to the queue. Two writes of one uuid are what a race between a copy and
a newer copy needs. Entries meet only in a flush's order and in the store, so
two are enough for one to wait behind another; a page meets another only through
the store and the server, so two suffice. `queue_settles` has one page because
what it asks is asked of one: two pages may each post an entry the other has
just seen refused, since a flush is chained in a page (`queue.ts:436`) and not,
as `queue.ts:433` has it, in the phone.

`LineChanges` is bounded by `MaxStamp` (changes and decisions written on
phones), `Connections` (requests under way at once, strays among them),
`MaxVersion` (saves of the line between two times it is added) and `MaxInvoice`.
Two phones are what a race needs. Two requests under way let one be written
between the other's read and write, and a stray land after a newer change. Three
values let two phones move one field to different values, neither the base; one
field is enough since `merge` decides each alone. `Retries` stands for the
code's three readings again: one is enough to reach the second merge.
`lines_put_back` has one phone, whose request given up may still arrive beside
the next, so a line can be put back, taken off, changed or sent between another
request's read and its write, and a change can collide with one of the same
phone's and be decided about with the third write. That more phones and writes
do no worse is the theorem `SentStays`. The theorems hold of any
number of each.

`DraftLines` is bounded by `MaxWritten`, `MaxInvoice` and `Connections`. Two
connections let a repeat, or another line, be between any two steps of the
first. Three invoices are the office's draft, the phone's, and one started for a
line of a draft that has gone out; two lines are what could start two.
`drafts_settles` needs no second request, since what it asks is asked of one
draft and one line in the end.

`StockShelf`: two lots make an older and a newer, whichever was entered first;
quantities of up to three and costs of one and three do not divide one another,
so every rounding happens; three draws let a line be added, changed, and
another take the last of it. `Payroll`: two payments at once, of one person or
of two, are what a payment made twice needs; each covers one thing or is a
correction (`MaxParts`), since no guard relates two things one payment covers;
`Figures` has one amount because no guard but "is there anything" reads one. `Retainers`: three entries are a
pool's first, last and a later-recorded one; the pool of three is less than the
work of a crew. `Trips`: two stops make three drives, of which two may run
between one pair of places, and a trip with a way out, across and back; a
building two clients share makes a drive split. `Sites`: a save and the save or
write it crosses; two writes after the row is made let a version be the one
before last. Ids, pages and requests are interchangeable, and TLC takes their
permutations for one wherever nothing orders them.

### What does not hold

One disagreement with the repository's own words is kept as a run.
`trip_reopened` shows a saved trip whose way out and way back differ, as
Google's do, opened with the way back's miles for both: the form keeps miles by
the two places a drive runs between, either way round, though
`src/routes/trips/[id]/change/+page.server.ts:17` says each drive's miles are as
recorded.

The others are steps the models have, which their properties are stated to allow
for. Each is at its line in the project's list of hazards or below.

- *An entry leaves when the server has it* (`queue.ts:17`). It leaves when the
  server answers 200, which for a repeat means the row already there: a timer
  stopped again, its first copy recorded and that answer lost, leaves only the
  first length on the server.
- A team's entry sent again, naming somebody besides, gains them
  (`src/routes/api/time/+server.ts:222` says the crew is there already), and is
  not asked whether a payment covers it: work paid to one of its crew is then
  owed to one more, though `src/routes/api/time/[id]/+server.ts:47` says that one
  a payment recorded stays as it was paid. `RepeatEntry` is the step, and the one
  change of a paid entry's crew that `PaidStays` allows.
- *The server merges against where this phone started, not against itself*
  (`queue.ts:624`). A change whose answer was lost, changed again, is found to
  collide with its own first copy.
- *It is asked about first, unless force* (`lines.ts:956`), of a line changed
  since a phone took it off. The version is compared before the transaction and
  not in it.
- A line put back is a new row with the old id, and its version starts at 1
  again (`drizzle/0022_changes_made_on_a_phone.sql:14`): a change begun from the
  version 1 of before is saved as it stands. If another phone has put it back,
  the answer is ok and the change is dropped (`lines.ts:1045`).
- *A field only the server changed keeps the server's* (`line-merge.ts:9`). When
  the line moves on between the read and the write, `changeLine` calls itself
  with the fields already merged and the base of before, and a field the first
  merge took from the server is taken for the phone's. `OnlyKnownIsOverwritten`
  says how far this can go, since what is overwritten is still the base.
- The drafts still waiting and the lines are read in two transactions
  (`queue.ts:393`), so a line may be sent before its draft, and is refused.
- A trip is given another vehicle as its owner's payment is recorded
  (`pay.ts:146`): the item pays who no longer owns it.
- Two agreements of one kind that start on the same day: the one the database
  returns first is the one work falls under (`valuation/entries.ts:84`).
- A payment posted again after its answer was lost is told it is already
  recorded, with a 409.
- A site's page loaded again by `refreshAll` holds the new version over its old
  boxes (`sites/[site]/+page.svelte:30`): a label set by somebody else since is
  then erased unseen. A page's own late answer may set its version back, and its
  own earlier save then refuses it.
- The refresh of rates writes the answer about where a site was when it was read
  (`refresh-tax-rates.mjs:144`), and the measuring likewise
  (`site-drive.ts:101`).

## Fairness

Two specifications state fairness, each for the liveness of its queue alone.
`FairSpec` of `CaptureQueue` assumes what the pages owe and what the environment
must: a page is opened or hears `online` again and again (`AskFlush`, weak: both
`+layout.svelte` and `timesheet` flush then), a flush begun and a post made go
on unless the page dies or the connection drops (strong, since either may
interrupt them without end), a server that now and then decides rather than
answering 5xx, and settles that commit. `Signal` of `DraftLines` assumes the
same of its flush, that what the server has begun it finishes (weak: nothing
holds a lock and waits), and that a signal comes again that lasts until a
request is answered (strong, on each step the server takes for a request some
page still hears). Every other action, a person's and the network's, is free not
to happen. Without the strong fairness on deciding, a server that answers 503
for ever keeps an entry waiting, as the code intends.

## What is proved

Every theorem below is checked by TLAPS to its last leaf, for every value of the
constants that meets the assumptions named with it. TLC checks the same
properties on the instances above; each inductive invariant was given to TLC as
an invariant first.

`CaptureQueueProofs`, for every set of uuids, pages, bodies and people and every
bound, from the two assumptions on constants in `CaptureQueue` (`CrewOf` names
people, `MaxStamp` is a natural):

| Theorem | |
|---|---|
| `TypeCorrect` | `Spec => []TypeOK` |
| `NothingIsLost` | `Spec => []NothingLost` |
| `OneRow` | `Spec => []OneRowPerEntry` |
| `NewerWordIsKept` | `Spec => NewerWordStays` |
| `CustodyIsKept` | `Spec => Custody!Spec` |
| `OnlyTheWaitingArePosted` | one page gives `Spec => PostsOnlyWaiting` |

`NothingLost` is not inductive. A timer is dropped on the strength of a copy
committed a step earlier, so the page's `hand` must be known to stand for a
commit (`StopsAreCommitted`); a copy is taken out on the strength of an answer
given a step earlier, so an `ok` must stand for a row (`AnswersAreTrue`), which
needs one post at a time on a page (`OneOut`). Comparing `queued_at` is enough
for `settleIn` only because the store holds one copy per uuid and no stamp is in
the future (`StoreIsKeyed`). `OnlyMade` says that whatever names an entry was
made, which the refinement needs. `IInv` is their conjunction; the lemmas say
what each write to the store (`EnqueueKeeps`, `RemoveKeeps`, `MarkRefusedKeeps`)
and each answer (`HandleKeeps`) preserves, and `InvStep` has one step per
action. For the refinement, `OneEntryMoves` shows that a step is about one uuid,
and `CustodyStep` that it then is one of `EntryCustody`'s.

A flush posts from a list read when it began, so `OnlyTheWaitingArePosted` needs
an invariant about what is left of the list, `FlushFits`: each copy on it is
waiting in the store, or a newer copy of its entry is, they are of different
entries, and none is of the entry whose post is out. Only the settling of that
one takes a waiting entry away, which is why it holds of one page and not of
two: another page may have just seen refused what this one has still to post.

`LineChangesProofs`, for every set of phones, connections, fields and values,
any number of retries and every bound, from `ActsAssumption` and
`BoundsAssumption`:

| Theorem | |
|---|---|
| `TypeCorrect` | `Spec => []TypeOK` |
| `MergeOverwritesOnlyTheBase` | a merge without a collision differs from the server's fields only where those are the base's |
| `MergeKeepsBothSides` | it moves exactly the fields that either side moved |
| `VersionsName` | `"restore" \notin Acts` gives `Spec => []VersionNamesFields` |
| `OnlyTheKnown` | `"restore" \notin Acts` gives `Spec => OnlyKnownIsOverwritten` |
| `SentStays` | `Spec => SentStaysAsSent` |
| `LeavesLanded` | `"restore" \notin Acts` gives `Spec => LeavesOnceLanded` |

That a change overwrites only the base is decided when the row is read, and
acted on when it is written, so the invariant must carry it across: `ReadsAreKnown`
says that a request whose version is still the line's would move only fields the
line still has at the base. It survives the steps of others because they move
the version when they move the fields (`LineAdvances`), and holds when a request
that is up to date is not merged at all because its version stands for its base,
which is `VersionNamesFields`. The two and `TypeOK` are `IInv`. A line put back
breaks `LineAdvances`, which is among what does not hold. `SentStays` needs no such
condition, and no invariant but the types: whatever a request was read with, a
line that is there is written only on an invoice that is not out by the time of
the write, and one that is not there is put on such a one (`LineFollows`).
`LeavesLanded` rests on `ToldIsLanded`, that what a
phone has been told is done was done.

`DraftLinesProofs`, for every set of drafts, pages and connections, every finite
set of lines and every bound, from `KindsAssumption` (a draft's uuid is no
line's), `RefsAssumption` (nor an id the server makes), `LinesAssumption` (finitely many lines, without which a line's place,
one above the highest taken, need not exist) and `BoundsAssumption`:

| Theorem | |
|---|---|
| `TypeCorrect` | `Spec => []TypeOK` |
| `DraftsStartOnce` | `Spec => []StartedOnce` |
| `LinesShareADraft` | `Spec => []OneSuccessor` |
| `NothingIsLost` | `Spec => []NothingLost` |
| `SentKeepsItsLines` | `Spec => SentIsFixed` |
| `NoDraftStartsEmpty` | `Spec => NoneStartedEmpty` |
| `NumbersNeverMeet` | `Spec => RefusedOverNumber` |
| `NoLineOutlivesItsDraft` | one page gives `Spec => []NoneOutlivesItsDraft` |
| `CustodyIsKept` | `Spec => Custody!Spec` |

What two requests do to one another is in what they hold. `Held` says that two
never have a number taken, nor two lines an invoice; `Numbered` that the next
number is one none has; so a number taken is still free when its draft is
inserted, and whatever that is refused for it is not its number, which is
`NumbersNeverMeet`. `Towards` carries what a line found under
the lock to its insert: it starts a draft only if none is started for its
invoice, and goes on another only if that is the one started. It survives the
steps of others because they hold other invoices, and with it `Successors`, at
most one draft started for each, is inductive. The phone's half is `OutsFit`: a
page waits for the request it posted and no other, and "ok" stands for a row.
`IInv` is all of it with the types, the server's in `SInv` and the phone's in
`PInv`. The lemmas take a step by its effect (`CallMoves`, `Puts`, `Starts`,
`Sends`, `Tells`, `Keeps`) and not by its action, since a dozen actions have
those few. `FiniteHasMax` is that a finite set of numbers has a highest.

`NoLineOutlivesItsDraft` is about the phone alone, and about a discard, which is
a transaction to each line and then one to the draft. `Housed` carries it across
them: whatever names a draft (a line in the store, a form) names one the phone or
the server has; the form is shut while a discard goes on; and
the discard's list holds every line in the store that still names the draft. It
holds of one page. A second page may save one more line to the draft between the
list and the end of it, and that line is left.

`CustodyIsKept` is the refinement of `EntryCustody` by the two stores and the
handlers together. `BookTakes` says a step of the server puts at most what one
request carries in the book; `OneMoves` that any step leaves all drafts and lines
but one with the keeper they had, a discard begun among them, which marks many
and moves none; `OnlyMade` that what is held, on its way, still to be posted or
in the book was made by a person, so nothing arrives that was not. With
`NothingLost`, which says nobody's keeping is not reached, `CustodyStep` is that
the one that moves does so as `EntryCustody` lets it.

`StockShelfProofs`, for every set of drafts, connections, days and costs, every
finite set of lines and every bound, from `CostingsAssumption`,
`LinesAssumption` and `AmountsAssumption`:

| Theorem | |
|---|---|
| `Inductive` | `Spec => []IInv` |
| `TypeCorrect` | `Spec => []TypeOK` |
| `StockIsNeverCountedTwice` | `Spec => []StockAddsUp` |
| `NoWorthIsLeftOver` | `Spec => []WorthLeavesWithTheLast` |
| `TheLotAgrees` | `Spec => []LotNeverRefuses` |

A draw is decided on a shelf read a step earlier, so the invariant says what
that shelf has to do with the one there now. `Held` is the lock: a request that
has read a shelf is the only one that has. `ShelfFits` is what the lock buys,
which is less than that nothing moves, since a receipt and a removal do not take
it: lots only gain meanwhile, the shelf was worth no more than it is now, and if
no lot has gained it is worth the same. The last is what `WorthLeavesWithTheLast`
needs: `drawCost` gives a draw of the whole shelf all that it was worth, and the
whole shelf as read is the whole shelf as it is only if nothing was gained.
`AddsFit` says a line is added by one request, while it is not there; `RowsFit`
that what a line draws off each lot comes to its quantity, off lots there are;
`OneEach` that there is one of each and that the requests are finitely many. `IInv` is
their conjunction with the types and the properties. Its arithmetic is in lemmas
about the pure part (what `Takes` takes, oldest first; what a rounded part of a
worth is at most), and each step is taken by what it does to the lots, the lines
and the requests apart.

`MoneyProofs`, of `Payroll`, for every set of people, work, vehicles and figures and any
number of payments and removals under way, from `KindsAssumption`,
`OwnerAssumption` and `FiguresAssumption`:

| Theorem | |
|---|---|
| `PayTypeCorrect` | `PaySpec => []PayTypeOK` |
| `NobodyIsPaidTwice` | `PaySpec => []PaidOnce` |
| `ItemsArePaid` | `PaySpec => []ItemsAreOfPayments` |
| `PaidWorkStays` | `PaySpec => PaidStays` |

`PaidStays` says of the crew of a paid entry that nobody comes off it, and that
nobody joins it but by a repeat of a team's entry; that nobody joins it at all is
false of the code. `PaidOnce` is not about what a handler read, which may be stale in every part,
but about what `Record` finds: an item to each piece of work only where the
unique index has none. What it needs besides is that a payment under way is owed
one figure for a piece of work and that there is one payment of a uuid
(`OneEach`), and that no item is of a payment there is not
(`ItemsAreOfPayments`). The conjunction with the types is inductive.

`MoneyProofs`, of `Retainers`, for every set of works, deals, charges, agreements and
periods and every finite set of entries, from the four assumptions above:

| Theorem | |
|---|---|
| `TypeCorrect` | `Spec => []TypeOK` |
| `CoverIsTheSameWhoeverAsks` | `Spec => []PeersAreEnough` |
| `NoPoolIsOverdrawn` | `Spec => []PoolIsDrawn` |
| `EarlierWorkComesFirst` | `Spec => []DrawnInOrder` |
| `NoChargeIsLost` | `Spec => []ChargeIsSharedOut` |
| `TheClosestAgreementIsHit` | `Spec => []ClosestAgreement` |

Here the types are inductive, among them that the rows are the agreements there
are, each once, in some order, and that no agreement goes while a period charged
under it stays. The rest follows from them by what the functions do, whatever
the state. `AgreementFor` is a pass through the rows that keeps the better of
two, and what it ends with is better than any (`TheClosestIsFound`). Two entries
can tell on each other's cover only through a period both are in, and the second
is then a peer of the first, so loading the peers is loading all that tells
(`ThePeersAreEnough`). The pool is handed out along the order the work was done,
each getting what it asks or what is left (`Served`), so the parts come to all
of the pool or all that was asked, and nobody later gets any before one earlier
has all (`ThePoolIsDrawn`, `TheEarlierIsCovered`). Rounding moves each share by at
most half a unit (`RoundShare`), and what is shared before it is the charge
(`TheChargeIsSharedOut`).

`TripsProofs`, for every set of clients, every place and stop there may be, every
length of a road and any number of stops and changes, from `ThereAssumption` and
`MilesAssumption`:

| Theorem | |
|---|---|
| `Inductive` | `Spec => []TripsFit` |
| `EveryDriveAddsUp` | `Spec => []DrivesAddUp` |
| `OnlyCausersAreCharged` | `Spec => []OnlyCausersPay` |
| `ReopeningChangesNothing` | `Spec => []ReopensTheSame` |

None of the three properties is inductive, since a trip is written from a copy
that was put in the store from a form some steps before. `TripsFit` says what
each of them is: what is in the form is a form (`FormsFit`), whatever has been
tapped; what waits in the store is the body of a complete one (`CopiesFit`); what
is recorded is what the handler writes of one, its drives given to clients of
the trip (`RowsFit`). That it is inductive is mostly types. The work is in the
step from there to the properties, which is about data alone: a form's drives
are written as one sequence of legs, and read back a drive at a time.

The lemmas take that apart. What is picked out of a sequence keeps its order and
can be had by appending (`AmongAppend`), out of two joined is the two picked out
joined (`AmongJoin`), and out of many joined, where only one has any, is that one
(`AmongFlat`): so the legs of a drive are what `legsOf` gave it (`LegsOfTrip`,
`LegsRecorded`). The parts a drive is shared out in come to its miles
(`SharesAddUp`), which makes `DrivesAddUp` a matter of what a drive is as long as
(`MilesFit`, `RowAddsUp`). Whom a leg charges is whom its drive is to
(`LegsOfWho`), given by hand or caused by its stop (`RowCharges`). A trip is
reopened with the clients of each stop in whatever order the database returns
them, which changes who gets an odd hundredth and not who pays or by which rule
(`ReorderedAlike`, `SameCausers`); a drive given by hand is told from one caused
by its rule, and the hand is read out of the legs themselves (`WhoFromLegs`,
`OpenedFits`); and where drives between the same two places are as long, the
last of them stands for all (`LastIsOne`), which is where `OneLength` is needed
and what `trip_reopened` shows without it.

`Sums` is the ground of `StockShelfProofs`, `MoneyProofs` and `TripsProofs`.
A sum over a set, and a pass through a sequence, is a fold, whose definition
chooses a recursive function: it has to be shown that there is one (`FoldExists`)
before anything it comes to. Induction over a finite set is had by way of a set:
the subsets of which a claim is true, of which the whole must be one, by the
well-foundedness of strict inclusion (`SubsetInduction`, `RemovalInduction`).
From there, sums add, scale, compare and change in one place as sums do. These
are lemmas of sets and sequences alone, and are not counted among the results. In the
same way a claim is counted up to a number (`CountingUp`) and carried along a
sequence an element at a time (`ByAppending`), and the joining of sequences has
its partial joins (`Flattened`).

`SitesProofs`, for every set of places, labels, pages and saves and every bound,
from `BoundsAssumption`:

| Theorem | |
|---|---|
| `TypeCorrect` | `Spec => []TypeOK` |
| `TypedFollowsThePlace` | `Spec => []TypedIsOfThePlace` |
| `NothingUnseenIsErased` | `Spec => ErasesOnlyWhatWasShown` |
| `OnlyLateAnswersAreLeft` | `Spec => LeftBehindOnlyByALateAnswer` |

A save is decided against the row as read, and written where the version is
still the page's. `PageFits` says that what a page typed over Google's is about
the place it draws, if its version is the row's; `SaveFits` that this is carried
by the save, and that what the handler read is the row of that version;
`PairFits` that a page which waits for its save is not ahead of it. They stand
on the version moving whenever the place does, except for writers that name no
version, whose steps leave the place alone (`Apart`, `NotYet`); `Single` says
there is one of each. `FormsFit` is the same for the form of a new site.
`LandWrites` is what a save does to the row, on which the two action theorems
rest.

Model-checked only: `WaitingSettles` and `WaitingLeaves`, since liveness under
fairness is beyond the prover; and `OpensAsSaved`, which does not hold. Every
other property of every run, invariant, action property or refinement, is one of
the theorems above.

## What is left

Done: the queue and its proofs; line changes, the merge and their proofs; drafts
and the lines that wait for them, and their proofs; the shelf and its proofs; pay
and its proofs; retainers and their proofs; trips and their proofs; sites, with the
saves guarded by a version, and their proofs. What would be worth adding next, in this order:

1. Several pages of one phone that change the same line, and that start, discard
   and add to the same draft, in one instance.
2. Access: two people who take Full from each other, against the trigger
   `someone_keeps_full`, once what Better Auth keeps of a session is written
   down from its use.
3. A page's cache that outlives a sign-out, from `service-worker/index.ts:100`.

## Not modelled

- *Access and sessions.* Sessions, passwords and their revocation are kept by
  Better Auth, which is not in the repository; what is here guards on its
  answers. That somebody keeps Full is decided by a trigger that runs once a
  statement, whose race depends on the isolation the database is run at, which
  the repository does not set. That a change of access makes a handler refuse is
  a step of the models (`ChangeAccess`, `NotNow`).
- *The offline cache.* The worker keeps no state but the caches' contents, and
  what they hold between two events, and when the worker is stopped, is the
  browser's to say. It is served only where the network fails.
- *Prices, pay rules, tax and its rounding.* Decimal arithmetic of one input
  each, without state, which the repository's tests pin value by value. What is
  modelled is which entries are valued together and how a pool is shared
  (`Retainers`), and how a line's cost is worked out of its draws (`StockShelf`).
- *Reports and balances* only read. *Formatting and layout* keep nothing.
- *Settings, clients, services, units, vehicles.* Single rows saved by the
  machinery modelled in `Sites`, with other fields. The next number set by hand
  is left out of `DraftLines`: Settings refuses one not above the highest issued,
  which it reads before it writes (`src/routes/api/settings/+server.ts:82`), so a
  draft numbered in between can leave the next number one that is taken. The
  draft that runs into it is refused with that said, and stays on the phone.
- *In the queue:* `adoptOld`, which repeats harmlessly by uuid; a millisecond
  clock that repeats or steps back (every write has its own stamp here); tabs in
  separate processes that interleave inside one localStorage read and write.
- *In the lines:* receipts, several materials on one line, and what a person
  meant by a second change whose form did not show the first, still waiting.
- *In pay:* a total below zero; parts of a payment that name no work; and the
  dates of corrections and the parts of the business they name, which are
  refusals that `Answer` may make of any correction.
