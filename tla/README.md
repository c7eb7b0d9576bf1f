# A verification project for service-booking

TLA+ models of the pet-delivery booking service, the TLC runs that check them on
small instances, and TLAPS proofs of their safety for every instance. All paths
below are relative to the repository's `src/`.

## 1. The system

One Go process serves HTTP (gin, one goroutine per request), runs one goroutine
that consumes the payment topic, and keeps everything else in PostgreSQL. Nothing
is shared in memory between requests: the tables are the only shared state, and
optimistic locking on `version` is the only concurrency control. Events are
published to Kafka after the commit, with no outbox.

| Component | State | Operations | Interacts with |
|---|---|---|---|
| Booking status machine (`internal/domain/booking/booking_status.go`) | none | `CanTransitionTo`, `IsTerminal`, `CanBeCancelled` | the aggregate |
| Booking aggregate (`booking.go`) | one booking | `NewBooking`, `Accept`, `StartDelivery`, `ConfirmDelivery`, `Complete`, `Cancel`, `Decline`, `IncrementVersion` | the service, on a copy |
| Booking service (`internal/application/booking_service.go`, handlers) | none between calls; a call holds a copy of a row | create, rebook, accept, pickup, deliver, confirm, cancel, decline, queries (the admin's two routes are queries) | repositories, Kafka producer |
| Booking repository (`booking_repository.go`) | table `bookings` | `FindByID`, `Save`, `Update` (by id and version), lists | PostgreSQL |
| Decline reasons (`decline_reason_repository.go`) | table `booking_decline_reasons` | `RecordDecline` in the decline transaction | PostgreSQL |
| Payment consumer (`internal/events/kafka_consumer.go`) | position and offset in the payment topic (held by lib-common) | `handleMessage`, `handleEscrowReleased` | the service's `CompleteBooking` |
| Pricing and crates (`pricing.go`, `pet_specification.go`) | none | price of a journey, crate of a pet | create, rebook |
| Pet profiles (`pet.go`, `pet_service.go`, `pet_repository.go`) | table `pets` | create, update, archive (soft delete), lists | PostgreSQL |
| Booking photos (`photo*.go`) | table `booking_photos` | add, list | PostgreSQL |
| Server (`cmd/server/main.go`) | the process | migrations, wiring, consumer goroutine, graceful shutdown | all of the above |

What is hard here, with the line where it bites, is the `hazards` list of
`PROJECT.json`. In short:

* two calls change copies of the same version of a booking, and the copy was
  judged long before it is written;
* a decline is two statements in a transaction that holds a row lock, and any of
  them, or the process, can fail;
* the event of a change is sent after its commit, and may be lost, late or out
  of order;
* an escrow release may arrive twice, early, or race the owner's confirmation,
  and what follows an error is decided outside the repository;
* a stop cuts the consumer off at once and the calls after ten seconds;
* a page of a list is two statements, a walk over the pages many requests, and
  the list changes between all of them;
* a price is made of limits, surcharges and a float, which may be no number.

What makes each component correct:

* *status machine, aggregate*: the status agrees with the milestones stored
  beside it; terminal is final;
* *service and repository*: no lost update, one winner per version, each change
  one permitted operation on the current row, every decline on record under the
  right name, no lock left behind, answers and events that tell only what was
  committed, and once; a conflict reported only to a call that lost to another; no
  call that waits for one that waits; every call answered;
* *consumer*: no offset committed past an unsettled release; each booking
  completed once; a completion that loses its race finds the booking completed; a
  release whose turn comes settles its booking;
* *server*: an orderly stop loses nothing but what the consumer was cut off from; a
  consumer that ended while the process served on loses no release;
* *pricing*: the exact fare of the smallest crate, monotone in the distance and in
  the weight, never below the base fare, the same for a rebooking; *pets*: no lost
  update, answers that tell what is stored, archiving for good; *lists*: what a
  walk over the pages of a changing table may miss, and when it ends.

## 2. The modules

| Module | Models | Built on |
|---|---|---|
| `BookingStatus` | the six statuses and the transition table | |
| `Booking` | the aggregate and its operations; also the row of `bookings` | `BookingStatus` |
| `BookingService` | concurrent calls over the tables, faults, crash | `Booking` |
| `BookingSafety` | what the service promises: all its properties | `BookingService` |
| `BookingLifecycle` | the abstract specification: one job, posted, taken, given back, moved, settled or abandoned, atomically | |
| `BookingColumns` | the abstract specification of what the lists look at: `owner_id` and `runner_id` of each row | |
| `BookingFeed` | the abstract specification of the event topic: what a consumer of the booking events may rely on | |
| `BookingServiceRefines` | the refinement mappings from tables and topic to `BookingLifecycle`, `BookingColumns` and `BookingFeed` | `BookingSafety` |
| `BookingPages` | a client's walk over the pages of a list while the columns change, and its properties | `BookingColumns` |
| `PaymentConsumer` | the consumer goroutine composed with the service, and its properties | `BookingService` |
| `ServerLifecycle` | the process around both: start, signal, draining, exit, death, `APP_ENV`, and its properties | `PaymentConsumer`, `BookingSafety` |
| `Pricing` | crate rules, price formula, create and rebook as far as the price goes, and their properties | |
| `PetProfile` | the abstract specification of a pet profile: a card, opened once, revised entry by entry, shelved for good | |
| `PetService` | pet profiles: the aggregate, the row, concurrent calls, its properties, and the refinement mapping to `PetProfile` | |
| `MCBookingService` | what TLC runs: the service with its properties and refinements, and symmetry | `BookingServiceRefines` |
| `BookingSafetyProofs` | type correctness, the inductive invariant and serializability | `BookingSafety` |
| `BookingLedgerProofs` | what the tables store | `BookingSafetyProofs` |
| `BookingEventsProofs` | what callers and consumers are told | `BookingLedgerProofs` |
| `BookingRefinementProofs` | the three refinements | `BookingServiceRefines`, `BookingEventsProofs` |
| `PaymentConsumerProofs` | the consumer's safety, that it keeps the service's, and the process around both | `ServerLifecycle`, `BookingEventsProofs` |
| `BookingPagesProofs` | what a walk shows, and how long it can be | `BookingPages` |
| `PricingProofs` | the prices | `Pricing` |
| `PetServiceProofs` | the pet profiles' safety, and their refinement | `PetService` |

### How the state and the actions correspond to the code

`bookings`, `declineReasons` and `rowLock` are the two tables and PostgreSQL's
row locks. `topic` is what the broker has accepted, per booking. `calls[q]` holds
the locals of the service method that goroutine `q` is in: the operation, the
booking id, the caller, the changed copy `bk` and the answer; `pc` is the next
statement that touches shared state. `history` is auxiliary: the rows committed,
in order.

A method of `booking_service.go` becomes at most four steps, cut where another
goroutine can come in between:

1. *arrive*: `FindByID`, the guards, the domain operation on the copy and
   `IncrementVersion`. They read one row and otherwise touch only locals, so they
   are one action per route (`AcceptBooking`, ..., `DeclineBooking`,
   `CreateBooking`, `RebookBooking`). A refusal goes straight to the reply.
2. *write*: `Save`, `Update`, or for a decline `UpdateInTransaction` followed by
   `CommitDecline`; with their refusals `NumberCollides` and `Conflict`. The guard
   of `Update` is the WHERE clause, `version = bk.Version() - 1`. An update of a
   row that a decline has locked waits.
3. *publish*: `Publish`, with the event each method builds. A decline publishes
   nothing.
4. *reply*: `Respond`.

`Faults` switches on what can go wrong: `"db"` (a read, a statement or a commit
fails, or a commit succeeds and its answer is lost), `"broker"` (the publication
fails; the code logs it), `"crash"` (the process dies, the database rolls back
what was open, the process starts again).

A timestamp column is a BOOLEAN (nil or not); the addresses, the pet, the notes
and the times themselves, which no transition reads, are left out. A price is a
member of `Prices`: that the final price is the estimate is kept.

Four small specifications say what is promised, each to somebody else, with no
calls in sight: `BookingLifecycle` to the users of a booking, `BookingColumns` to the
readers of the lists, `BookingFeed` to the consumers of the events, `PetProfile` to the
owner of a pet. In `BookingFeed` a change owes at most one notice; a notice is given
after its change, once, and is of the type and the runner of the version it tells of,
never of a later one; a decline owes nothing. Order and completeness are left out
because the code gives neither.

The consumer uses slot `Consumer` of `Requests`, so its calls interleave with the
others as its goroutine does. lib-common, which calls `handleMessage` and commits
offsets, is not in the repository: the model gives it three policies for an error
(`"retry"` the message, `"skip"` it without a commit, `"stop"` consuming), picks
one initially and keeps it. What each policy costs is said in section 3.

`PetService` has the same shape without locks and events: a call reads (`GetPet`,
or the first half of `UpdatePet` and `DeletePet`), writes under the version check
(`Write`, or `Conflict`), and answers. It shares nothing with the bookings, so it is
a module of its own. Two conversions matter there and are modelled by what they
do: GORM's `Updates` on a struct skips zero fields (`Overwritten`; the booking
repository passes a map and skips none), and `weight_kg` is a `decimal(5,2)`
(`Hundredths`, `Fits`), with weights in grams. One required and one optional text
stand for the others, which are treated alike.

`ServerLifecycle` follows `main`. `phase` is how far it has got: the consumer
goroutine starts in `Boot`, before the listener (`ListenAndServe`); `Signal` is
`<-quit` and `cancel()` in one, after which whatever the consumer does may fail;
`Shutdown` waits for the calls, or ten seconds; `Exit` ends every goroutine, and
main waits for none of them; `Dies` is a kill or `log.Fatal` at any point. A
deployment is `calm` or in trouble for all of its life: in a calm one nothing of
`Faults` happens by itself, so what is lost there is main's own doing. `appEnv`
decides which tables exist: the auto-migration of development leaves
`booking_decline_reasons` out, and there every insert of a decline fails
(`ReasonsStored`, `InsertFails`).

`BookingPages` takes of the tables only the two columns the WHERE clauses look at.
That they change in no other way than `BookingColumns` lets them is a property of
the full service (`ColumnsImplemented`, checked and proved), so the walks need no
copy of it. Each request of a walk is two steps, `Count` and `Select`, cut where
the code has two statements without a transaction. `created_at`, by which lists are
ordered, is taken before the row is inserted, so rows appear in any order of their
ids. How a client decides which page is the last is not the service's: the two
rules an answer allows are modelled, going by the total and going on until a page
is not full.

`Pricing` works in sen, metres and grams. A metre is a quarter of a sen, so the
conversion to int64 is a division rounding down; that floats deviate from it by
parts of 10^-15 of a fare is not modelled. NaN is: `haversineDistance` takes the
square root of `1 - a`, and Go leaves `int64(NaN)` to the machine (0 or the least
int64), which is `build`. Create and rebook are one step each: they read nothing
another call changes, the version, status and number being `BookingService`'s.

## 3. The runs

| Run | Question | Bounds |
|---|---|---|
| `service_races` | does optimistic locking serialize three racing goroutines, refuse only those that lost, and is the topic a feed of the changes? | 1 booking, 3 goroutines, 2 runners, 1 decline, no faults |
| `service_faults` | do tables, answers, events and locks stay consistent when anything fails anywhere, and do they implement the lifecycle? | 1 booking, 2 goroutines, 2 runners, 2 declines, all faults |
| `two_bookings` | is every step still one operation on one row when calls on two bookings race, numbers collide and statements fail? | 2 bookings, 2 numbers, 1 owner, 1 runner, 2 goroutines, no decline, a database that fails |
| `service_live` | is every call answered, every change but a decline announced? | 1 booking, 2 owners, 2 goroutines, 2 runners, 1 decline |
| `consumer_offsets` | are offsets, completions, events and declines right when the process is started, stopped and killed, with redelivery and faults; is a lost race for a completion settled; does a release settle its booking, when its turn comes and, if an error has ended the consumer, once a process lives on with a new one? | 1 booking, the consumer and 1 HTTP goroutine, 2 messages, 1 decline, all faults, all policies, both values of `APP_ENV`; fair |
| `pet_profiles` | do profiles and answers agree under races and faults, and do owners see one atomic change after the other? | 1 profile, 2 owners, 2 goroutines, 4 versions, weights of either sign that round to nothing, fit and overflow |
| `pricing` | is the price right on both sides of every limit, and the same for a rebooking? | 2 bookings created and up to 4 rows with the rebookings, weights at each crate limit and one gram over, none at all, distances with and without a fraction of a sen, half the globe, NaN, a pet type the code does not know, both machines |
| `booking_pages` | what does a walk over the pages show while the list changes, how long can it be, and does it end? | 3 bookings, 2 owners, 1 runner, limits 1 and 2, three asked for (none, within, above the greatest) |
| `cancel_delivered`, `decline_unannounced`, `completed_without_escrow`, `base_fare` | does the code do what these sentences of its docs say? (no) | 1 booking |

Why these bounds are enough. Calls on different bookings share nothing but the
number's UNIQUE constraint, so one booking shows everything but that, and
`two_bookings` has two. A conflict needs two goroutines; three let a decline
and a second accept come between the read and the write of the third (the ABA
case: accepted by r1, declined, accepted by r2, the version tells them apart).
Two runners and two declines are the least in which the order of the decline
reasons matters. The longest life of a booking has
5 + 2 * MaxDeclines versions, all of them reached. `MaxDeclines` bounds the only
loop of the status machine and `MaxPayments` the payment topic; nothing else is
cut off. Two messages are enough for the offsets: one that fails and one behind it, or the
same release twice. Three bookings are the least in which a walk by pages of one or two
meets a page it has passed, one it is at and one to come; the greatest limits are scaled
from 20 and 100 to 1 and 2. Every property of
the prices is about one row, or two; four rows, of which at most two are new bookings,
hold a chain of three rebookings, and a rebooking of either of two bookings beside one of
a rebooking. Goroutines, owners, runners, bookings and numbers are symmetric in the runs
that check the service's safety; the runs that check liveness use no symmetry.
Deadlock is checked in every run.
`FeedImplemented` is checked in `service_races` because three goroutines and no faults
give the topics most out of order; the proof covers the faults.

For a pet profile four versions are enough: a creation, two racing writes and the
one that follows a conflict. `MaxVersion` cuts off an endless loop, an update.

Type correctness is run for the service (`TypeOK`) and proved for every component;
the runs of the others are spent on what their types do not say.

What they show. All properties of the first eight runs hold. Under each error
policy of lib-common no committed offset hides an unsettled release except under
`"skip"`, which is excepted in `CommittedMeansCompleted`: there a release refused
because the delivery was not yet confirmed is lost. `EscrowSettles`, which is
about a calm deployment that serves, promises nothing to a message that waits behind a
failing one: with `"retry"` a release of a cancelled booking blocks the topic for ever, and with `"stop"` the process goes
on without a consumer until it is restarted (`cmd/server/main.go:117-122`). What that
costs is delay: `ReleasesSettleOnceServed` says that every release on the topic, the failed
one and those behind it included, settles its booking once some process stays up with its
consumer alive, however many ended before in the middle of a message. A release that can never
succeed (its booking was cancelled) ends each consumer anew, and then the premise fails.

A calm deployment that is stopped in good order loses no announcement of an HTTP call:
`cmd/server/main.go:191` waits for them. It may lose that of a completion, because the
consumer is cancelled at the signal and not waited for: the booking is completed, the
event and the offset are gone, and the same release, handed over again, is refused as
an invalid transition. In development no decline can succeed, since the auto-migration
does not create its table: the transaction is rolled back, `NoDeclineWithoutTable`.

A walk until a page is not full misses nothing that stayed on the list, except that a
runner's booking leaving it by a decline pushes others forward past the offset. A walk
by the total may stop early even on a list that only grows, if a booking joins between
the count and the page of its last request; bookings are shown twice only if one
joined. A limit of any value gives at least one row a page, so every walk ends.

The four violation runs document disagreements between the code and its docs:

* a delivered booking cannot be cancelled, although `booking.go:287`,
  `booking_service.go:268` and `README.md:36` say any non-terminal one can;
* a decline changes the state and announces nothing, although `README.md:16`
  promises events for state changes (the code has a TODO);
* the owner's confirmation completes a booking with no escrow released, although
  `booking_service.go:229` says completion follows the release;
* a journey is not charged from the base fare that `README.md:53-65` has in the
  configuration, `BASE_FARE=10.0`: `pricing.go` starts from 500 sen, MYR 5.00 by its own
  comment (`pricing.go:30`), and `config.go` reads no fare. `PriceIsFare` and
  `NeverBelowBase` are about the code's base, `BaseFare`; which of the two is meant
  the repository does not say.

### Fairness

`WF(Continue(q))`: a goroutine that has begun a call is scheduled until it has
answered. Nothing forces a client to call, so `Arrive` has no fairness, and faults
have none. Weak fairness is enough for an update that waits for a row lock: its
step is disabled only while a decline is between its two statements, that decline
ends by its own fairness, and a version that has moved on enables `Conflict`. The
number of declines is finite by `MaxDeclines`. For the process the same is assumed of the
consumer's loop (`WF(Consumes)`) and of each handler (`WF(CallGoesOn(q))`), together
`ServerFairness`; both stand still while no process runs. Nothing makes a process start,
stay up or stop. So `EscrowSettles` speaks of a calm deployment, since an error of the
database may keep a release from settling or put a failing one in front again, and ends
its promise when the process is told to stop. `ReleasesSettleOnceServed` allows every
fault and has as its premise that some process stays up with its consumer alive. For
`BookingPages` a client that has begun a walk goes on with it
(`WF(Count \/ Select)`); one that gives up ends its walk in another way. The ids being
finitely many stands for a table that does not grow faster than it is read.

## 4. The proofs

All by tlapm, from the named assumptions only: the "nil" values are none of the
real ones (`NoRunnerAssumption`, `NoPriceAssumption`, `NoRowAssumption`,
`NoBookingAssumption`, `NoRequestAssumption`), `MaxDeclines` and `MaxPayments` are
naturals, `Faults` and `Policies` are subsets of what they name, and the consumer
is one of the goroutines (for the process, `AllFaultsAssumption`: anything may fail).
For the pets the same: `NoPetAssumption`, `NoPetIdAssumption`,
`NoTextAssumption`, weights are integers, `MaxVersion` is a natural. Sets of bookings, users, prices, numbers and goroutines
are arbitrary, and may be infinite. For the prices: distances are naturals, weights
integers, NaN is no integer, the greatest int64 exceeds 10000, the bounds on rows are naturals. For the pages: ids are
a finite set of naturals, and the default limit is positive and at most the greatest.

The argument. `IInv` (`BookingSafetyProofs`) says what a call in progress knows:
the copy it carries was derived, by an operation that was permitted, from a
version that *was* committed, perhaps long ago (`CopiesAreDerived`); a creation's
id is its own (`SavesAreFresh`); a decline in its transaction holds the lock and
its version is still current, and nobody else holds one (`LocksHeld`); what has
succeeded is in the history (`RepliesAreCommitted`). None of the safety properties
is inductive without it: a write is only as good as the copy that was judged
earlier. With it, the version check of a write implies that the row is *still* the
one the copy was derived from, so the write is one permitted operation on the
current row. That is `TableStep`, proved of every step (`NextTableStep`, theorem
`AtomicSteps`), and it reduces the concurrent service to a sequential one:

* `BookingSafetyProofs` draws from `LocksHeld` that whoever waits for a row waits for a
  decline that waits for nobody (`NobodyDeadlocks`: `WaitsAreShort`), and shows of each
  step that it brings its call nearer to the answer and no other further from its own
  (`CallsShorten`: `CallsMoveOn`);
* `BookingLedgerProofs` looks only at what a permitted operation makes of a row:
  `LegalHistory`, `VersionIsLedger`, `StatusMatchesMilestones`,
  `TerminalIsFinal`, `RunnerLeavesByDecline`, and that the decline reasons are an
  audit of the history, by extending the map from reasons to versions with every
  decline: `DeclinesAudited`. A copy made of a version that is no longer the last means
  that somebody has committed the next one (`ConflictFacts`), so a conflict always has a
  winner: `ConflictsHaveWinners`;
* `BookingRefinementProofs` maps each such operation to a step of
  `BookingLifecycle`, and of `BookingColumns`, and everything else to a stutter:
  `LifecycleImplemented`, `ColumnsImplemented`;
* `BookingEventsProofs` adds that a version is written by one call, and announced
  by that call at most once: `OneWriterPerVersion`, `EventsReflectCommits`,
  `NoNilDereference`. That nothing stays unannounced while nothing fails
  (`NothingUnannounced`, for `Faults = {}`) follows from `ToldStays`: what is told
  stays told as long as no call gives up an announcement;
* with both, `BookingRefinementProofs` shows `FeedImplemented`, under all faults. The
  invariant it adds is `NoticesTrue`: what is on the topic, and what a call is about to
  put there, is the notice that its version owes by the history. It stays true because
  the history only grows (`NoticeStays`), a commit makes it true of the call that
  commits (`WrittenNotice`), and `EventsReflectCommits` keeps an event from being sent
  twice (`PublishTells`).

`PaymentConsumerProofs` shows that every step with the consumer at work is a step
of the service (`ConsumerIsAService`), so all of the above holds beside it, and
then `ConsumerTypeOK`, `CommittedMeansCompleted` and `CompletedOnce`. The process only
adds guards to the consumer's steps (the lemma `ServerIsAConsumer`), so these hold of it
too. Unless errors are skipped more is true: the position is the offset that is committed
(`InStep`), so a release that has not settled its booking is one the consumer is at or has
still to reach, and a start after any end begins no further (`ReleasesAreKept`).
`OrderlyInv` adds what an orderly stop rests on: once the server is shut down no
handler has a call (`DrainedWhenCalm`), and a version that is not told is one the
consumer completed for a message on the topic (`Settled`). From it follows
`OrderlyStopLosesOnlyCompletions`; `NoDeclineWithoutTable` follows from
`RunnerLeaves`, because without its table no decline is put on record.

The process implements the service as well (`ServerIsAService`), so every theorem about
the service holds through starts, stops and deaths, and the consumer's promises with it
(`ServerKeepsCompletions`). `LostRacesAreSettled` combines the two sides of a race: a
completion that meets a conflict was judged on a delivered booking, the winner's change
of a delivered booking can only be a completion, and after a completion no change
follows (`TerminalIsLast`), so the booking the loser reports as a conflict *is*
completed.

`BookingPagesProofs` is about one finite set and its order. `PInv` says that a walk at
page p has shown every booking that stayed and ranks before its offset
(while none has left), and that those shown rank before it unless one has joined. A
joining booking only raises the ranks of the older ones and a leaving one lowers them
(`RankMonotone`); a page that is not full is the last because some booking has every
rank below the size of the list (`RankReached`, `ShortPageIsLast`). The length of a walk
rests on the converse: behind a full page at an offset there are at least offset + limit
bookings (`FullPagesFit`), so the offset of the next page, and with a limit of at least
one (`LimitPositive`) its number, is within the table, `WalkIsBounded`.

`PricingProofs` shows that a row keeps what it was made of (`RowsInv`), and the rest
is arithmetic of the fare (`Quarters`) and of the crate limits (`SmallestCrate`,
`HeavierCrate`).

`PetServiceProofs` follows the same line: a call's copy was made of a committed
version (`CallGrounded`), so a copy that passes the version check was made of the
current row (`PetWriteFacts`), and then what `Updates` leaves out is what copy and
row have in common (`CopyIsStored`). From that follow `PetVersionsAreChanges`,
`PetAnswersAreStored` and `ArchivedForGood`. Seen without its version, a row written over
the current one is a card opened, revised or shelved (`CreationOpens`, `ChangeRevises`):
`ProfileImplemented`, of which `ArchivedForGood` is the part about archiving.

Only model-checked: the liveness properties (`CallsAnswered`, `CommitsAnnounced`,
`EscrowSettles`, `ReleasesSettleOnceServed`, `WalkEnds`), because what follows from weak fairness needs ENABLED, which
tlapm 1.4.5 does not reason about. What they rest on is safety, and proved for every
value of the constants: for `CallsAnswered`, that steps only bring a call nearer to its
answer and that whoever waits does not wait for a waiter; for `EscrowSettles`, that a
lost race leaves the booking completed; for `ReleasesSettleOnceServed`, that no unsettled
release lies before the offset a consumer starts from (`ReleasesAreKept`); for `WalkEnds`, that a walk has a bounded number of pages.
`CommitsAnnounced` has its safe half in `NothingUnannounced` (what is not announced has a
call about to announce it) with `CallsMoveOn`. Every other property of a passing run is
proved.

## 5. Not modelled

* *Queries without steps*: `GetBooking`, `GetBookingStats` with `CountByStatus`, and the
  lists of pets and photos are one statement each, read committed rows and change
  nothing; there is no state of their own to get wrong.
* *Booking photos*: one insert and one list. No step reads what another wrote, no row
  is ever changed, and nothing else looks at the table.
* *Wiring*: logging, configuration, authentication and the other middleware of gin and
  lib-common, health routes, the mapping of errors to HTTP codes.
* *Data no decision depends on*: addresses, notes, breed, vaccinations, and
  `MinimumWeightCapacity`, which is stored and never read.
* *Floating point*: distances are exact metres, NaN apart (section 2).
* *Lengths of texts*: a text too long for its column is a statement that fails.
* *Nothing to model*: `RouteSpec`, which no operation sets, and the table
  `booking_status_history`, which no code uses.
* *The order of events*: the code gives none (`booking_service.go:546` hands the producer
  no key), so no property promises one; `BookingFeed` is what is left to rely on.
* *Repeated requests*: the API has no idempotency keys. A repeated call is another call,
  which the models let a client make at any time.
