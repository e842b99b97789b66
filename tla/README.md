# A TLA+ verification of aibao

aibao is a bedtime-story service: a Go server (`server/`) and a Flutter app
(`app/`).  A parent logs in by SMS code, describes the child, may preview an
outline, and asks for a story; a language model writes it; a background worker
turns the text into audio; every paid call is recorded.  This directory models
the parts of server and app whose correctness depends on the *order* of steps of
several actors (requests, workers, sweeps, flushers, crashes, late replies), and
the content checks, whose order of lists matters.  TLC checks the models on small
instances, and TLAPS proves every safety property of the passing runs for all values
of the constants (one of them, `BuriedIsReported`, for those its run is about).

Paths below are relative to `server/internal/` unless they start with `app/`,
`server/` or `docs/`.

## 1. Inventory

| component | state | operations | talks to |
|---|---|---|---|
| outbox and worker (`repository/outbox_repo.go`, `worker/worker.go`) | table `outbox_events`; the batch a worker holds | publish, FetchPending, dispatch, MarkDone, MarkFailed with backoff; revival by an UPDATE run by hand | written by story generation, runs the handlers |
| audio handlers (`worker/handlers/`), `api/audio.go`, player poll (`app/lib/state/story_state.dart`) | audio columns of `stories`, objects in the bucket, `memories` | load, synthesise, mix, upload, mark ready or failed; remember, summarise, record; GET audio_url; poll | outbox, TTS, storage, app |
| outline tickets (`service/outline/`, `api/outline.go`) | Redis key with a TTL, append-only `outline_events` | preview, refresh, accept, sweep of a visit, housekeeper | story generation, heartbeat and list endpoints |
| story generation (`service/story/`, `repository/story*_repo.go`, `gateway/llm/budget.go`) | `storylines`, `stories`, the daily spend in Redis | admit, prepare, draft with retry, rewrites, post-check, fallback, commit, hook, episode count | model, outbox, outline tickets |
| cost recording (`service/cost/recorder.go`, `flusher.go`) | a bounded channel, `cost_events`, counters | record, collect, flush, final drain | every paid call |
| SMS login (`service/auth/`, `repository/user_repo.go`) | two Redis keys per phone, `users` | send code, log in or register | app |
| rate limit and budget middleware (`api/middleware/`) | a Redis counter per user and bucket | count, refuse | generate and outline endpoints |
| child profile, questionnaire (`service/child/`, `service/bootstrap/`) | a row of `children` | create, edit, submit; read by generation and outlines | model, safety |
| safety rules (`service/safety/`, `service/outline/safety_check.go`) | rule lists read at start, in an order of their own | pre-check, post-check, outline check | generation, outlines |
| app session (`app/lib/state/`, `main.dart`, `router.dart`, `api/api_client.dart`) | stored token, auth state, child provider, requests under way | start, log in, log out, create the child, reload, refuse with 401 | server, token storage |
| prompt, extraction (`service/story/prompt/`, `extract.go`) | none | string assembly | generation |
| memory selection (`service/memory/`, `service/story/storyline_context.go`) | reads `memories`, which the worker writes | summary per episode, last rows of a child | prompt, worker |
| audio composition (`service/audio/`) | BGM files on disk, `sync.Once` per file | parse cues, mix, download BGM | TTS handler |
| cost reports (`service/cost/aggregator.go`) | reads `cost_events`, `outline_events` | SQL aggregates | operators |
| gateways, HTTP surface, configuration, packages, other app screens | none that matters here | | |

What is hard in this code, in one paragraph per actor pair:

* **Worker and table.**  `FetchPending` commits `processing` before any work is
  done and nothing takes a row out of `processing` again.  A crash, or a failed
  MarkDone, leaves the row there.  Several processes poll one table.
* **Handler and its effects.**  Each handler writes to two or three places
  (row, bucket, memories) with no transaction over them, and is retried.
* **Ticket and its two stores.**  Redis says whether a ticket is alive, the
  table what became of it; requests check one, then the other, then append.
  Two sweeps and the TTL act on their own clocks.
* **Generation and the series.**  The episode number is read minutes before it
  is used, the count is incremented after the commit and outside it; the budget
  is read once and charged after each call.
* **Recorder and flusher.**  A queue that drops, a batch that is lost when its
  INSERT fails, a shutdown that waits for nothing, and ids that must be unique.
* **Memory jobs and prompts.**  The rows of a story are written by a job that may
  be late, repeated or lost; a prompt takes what is there.
* **Login and login.**  Peek, compare, delete, select, insert: five commands
  against two stores, by any number of requests of one phone.
* **Edit and questionnaire.**  Each loads the row of the child, and saves all of
  it; the questionnaire asks the model in between.  Readers see either.
* **Session and late replies.**  Logouts overlap each other, logins and the
  replies to requests of the session before; a 401 starts a logout, which reloads
  the child, which may be a 401 again.

`PROJECT.json` lists every component with its sources, and every such hazard at
its line with the properties that cover it, or the reason why none does.

## 2. Modules

```
JobQueue <--implements-- Outbox <--extends-- AudioPipeline -- MCAudioPipeline
   |                        |                     |
   | instance          OutboxProofs <--extends-- AudioProofs
   |
Memories -- MemoriesProofs           Ticket <--implements-- OutlineLifecycle
                                                                  |
Safety <--extends-- ChildProfile                            OutlineProofs
                        |
                ChildProfileProofs

StoryGeneration -- StoryProofs       Login, RateLimit, AppSession -- AccessProofs
CostPipeline    -- CostProofs
```

Each `MC*` module only extends its specification with the values of a small
instance and, where the actors are interchangeable, a symmetry set.  Operators
with a name like `FlushFailsQuietly`, next to the definition they resemble, are
plausible bugs: putting one in the place of its neighbour must violate the
property that `PROJECT.json` pairs it with.

**Outbox** has one row state per event (`status`, `attempts`, and `due`, which
is `next_attempt_at <= now`), and per worker the rows its open transaction
locks, the batch in its memory, and its place in `tick` and `processOne`.
FetchPending is two steps (the SELECT ... FOR UPDATE SKIP LOCKED, and the UPDATE
with COMMIT), so that two polls overlap.  Faults are a poll that aborts, a poll
whose commit is in doubt, a lost Mark call, and a crash.  A handler is its
verdict.  MarkFailed is two steps as well: it reads the row without a lock and saves
all of it, and between the two anybody may write.  `Revive` is the UPDATE of the
runbook with the guard it has there and no other: it takes rows in `processing`,
whether a worker holds them or a dead one did.  History: `tries` (executions since
the event was last enqueued), `met` (how often the operator put an event back while a
worker held it, since nobody last did) and `shared` (events that two workers had at once).

**JobQueue** is what Outbox promises: a job waits, is held, is tried, then
finished, given back or buried, at most `MaxTries` times; it may be stranded and
resubmitted.  A job that is resubmitted while somebody has it is *contested*, and
nothing is promised of it until it is resubmitted when nobody has: the verdicts of
two attempts may be written over each other.  `Outbox!Phase` is the
refinement mapping; of the history it reads `tries` and `met`.

**AudioPipeline** extends Outbox, with `Pipeline...` before the names the two would
share, and puts the steps of the two handlers between `Dispatch` and
`HandlerReturns`: load (with the skip of a ready story), synthesise, mix, upload, mark ready or failed; remember, summarise,
record.  A failure of the voice fails the job, one of the music degrades it: each
attempt may come out with music or without, and the row has to say which.  Keys
are the number of the upload, since the code stamps them with the time in
nanoseconds; `made` is the audio a handler has made, with the key it uploaded it
under.  `Undisputed` are the stories whose synthesis no two workers had at once.  The
app opens a story, polls, and stops on ready, failed or an error.

**Memories** is what a series of `memory_update` jobs leaves in the table, with the
jobs taken from JobQueue instead of Outbox: the two rows of a story are two
INSERTs, either of which may fail with the row there or not, a failed job is tried
again, a crash strands it.  The two queries over the table (the summary of an
episode, and the slots of the Selector) are operators of the rows at the time:
what they return goes into a prompt and is never stored.

**OutlineLifecycle** gives every ticket its Redis key, its rows, and an age in
the three classes the sweeps tell apart.  Requests run command by command.  The
INSERT ... WHERE NOT EXISTS of a sweep is two steps, because the sub-select sees
what was committed when the statement began.  `VisitScan` is the sweep that GET
/heartbeat and GET /stories run for their user (the latter before it has looked
at whose child it was asked about, `api/story.go:203`), `HousekeeperScan` the one
of the background.

**Ticket** is what OutlineLifecycle promises, with no cache, table, clock or sweep: a
ticket is opened for an account, redeemed by requests of that account while it is open,
and each redemption starts at most one story.  A start spends the ticket unless the call
that records it fails, a replacement spends it too, otherwise it lapses; none comes back.
`Stage`, `OwnerOf` and `Holders` are the refinement mapping: the stage is what the rows
say, whatever Redis holds, and a request has redeemed a ticket once Resolve returned it.

**StoryGeneration** follows one request through the budget middleware, which lets
it pass when its read fails, and `Generate`, which reads again and takes a failure
for a refusal.  A text is a length and the kind of hits in it.  History variables:
`longest`, and the sequence of episode numbers of a series in commit order.  After
the commit an episode makes one more call, for the hook, and only then increments
the count.  The outline step of `Generate` is in OutlineLifecycle and the outbox
rows are in Outbox.

**CostPipeline** has the channel, the batch of the flusher, the rows, and the
two counters of `record_failed_total` that stand for a loss.  When the flusher
is told to stop, at most one tick is left in its channel (`tickLeft`), and is served or
not.  `EventId` builds the id the way the callers do: a request has a trace, the
worker has none.  `ticks` is history: the ticks a call has seen in the queue.

**RateLimit** is the counter of one user for each bucket, as the routes are wired in
`api/router.go`.  INCR and EXPIRE are one transaction, so a call is one step.
`calls` is history.

**Login** runs SendSMS and LoginOrRegister command by command.  A save is named
by the request that made it, because all codes have the same value; a login with
a wrong code changes nothing and is no step.

**Safety** has no state: the rule lists of a process, which are an arbitrary order
of the words (the code ranges over a map), and the three checks as lists of
conditions of which the first that holds gives the reason.  A text is the set of
listed words in it.

**ChildProfile** is the row, with the writers that load and save all of it in
separate steps, and the readers, which take nickname and fears from it and apply
the checks of Safety to what the parent asks and what the model writes.
`last` (what each column was last updated to) and `overlapped` are history.

**AppSession** is one device and its people.  Every request carries the token that
was stored when it was sent; the server answers when it likes, the answer arrives
in any order or not at all.  `deleting` and `resetting` count logouts that
overlap.  The 401 interceptor looks at the auth state at the time the reply
arrives.  A provider that is rebuilt ignores the future of its former build.  The
screen that creates a child has one request under way at most, but it forgets it when
it goes away: the next one, of the next user too, may send another (`LeaveScreen`).

## 3. Runs

All bounds are constants named `Max...` in the modules.

| run | question | bounds and why they are enough |
|---|---|---|
| `outbox_faults` | When is a row in two hands, are attempts accounted for, what do faults strand, is it a JobQueue? | 3 events, 2 workers, batch 2, 2 attempts, one crash, one database error, one revival: two overlapping batches, a partial batch, a retry, a burial, an event without a handler, and a row put back while it is in hand, each with a fault in it |
| `audio_faults` | Is a ready story playable and final, is done delivered? | 1 story (2 events), 2 workers, every call may fail, one attempt, a crash, a database error, two revivals, of rows in hand too: both events of a story in one batch or in two hands, two handlers on one story.  A revival stands for the retry; `audio_live` and the proofs have the automatic ones |
| `audio_live` | Does every event settle, is a buried one reported, does polling end? | 1 story, the one worker a deployment starts, 2 attempts, one revival, gateways fail at will, no crash and no database error, with fairness |
| `outline_tickets` | How often can a ticket be replayed, is an expired one unused, does refresh retire, how often is an expiry logged, does every ticket end, is it a Ticket? | 2 requests of one account, 2 outlines (a parent and its child), a visit sweep and the housekeeper with batches of one, one fault |
| `story_series` | Count, numbers, stored text, budget | 2 requests, 1 series of 3 episodes, 3 lengths, one fault, midnights |
| `cost_flush` | Is every loss accounted for, how long does a call wait in memory, is the queue drained? | 6 priced calls, of which the three attempts of a job share one id, and one without a price; a queue of two batches of one, one failed INSERT, one shutdown: the queue overflows, a batch is full, cancelled and lost, a call waits for more than one tick, and there are more calls than one stop may cost |
| `child_profile` | What may undo an update of the child, and what words get past the checks? | 2 requests, 2 names, one word of each kind (hard, soft, fear, blacklisted) in both orders of the list, 2 writes, numbers of mentions on both sides of the thresholds: each writer overlaps the other and a reader |
| `app_session` | Does the stored token match the session, whose child shows, and does the app come to rest? | 2 people, 2 tokens of which each may expire at any time, 4 things people do: two sessions and a restart, with the replies and the creation of the first in the second |
| `login_races` | One account per phone, failures, spent and lost codes, cooldown | 2 phones, one with two sends and two logins, 2 errors: every pair of requests races, with an error in each |
| `memory_context` | What do retries repeat, which row does a prompt take, and what is passed over? | 3 stories, 2 tries, 2 handlers, windows of 4 and 3 rows, 2 faults: up to 8 rows, so that both windows overflow, two handlers interleave their rows, and a story is told twice or never |
| `rate_limit` | How many calls get through, and who is refused? | 5 calls in 6 moments with a window of 2 moments and 2 calls, one failed call to Redis: a chain of calls longer than a window, a pause, both buckets |

One run shows a disagreement between the code and what its documents say; TLC
must find the violation.

| run | what it shows |
|---|---|
| `fears_unheard` | What the parent answers about fears is stored under a key that no check reads, so a story with it is told. |

No run lists a type invariant: each is part of an inductive invariant that is proved
for all values of the constants (section 4).  TLC checked every inductive invariant on
the instance of its run before it was proved.

### Passing properties worth knowing

* `ExclusiveClaim`: SKIP LOCKED gives an event to one worker at a time, through every
  overlap of polls, crashes and commits in doubt.  The table does not say who holds a
  row, so the operator's UPDATE may give a second worker what a first still has: each
  time costs one hand more, and no more.
* `AttemptsAccounted` relates the column to the executions: dead means exactly
  `max_attempts` of them, whatever was lost in between.  It leaves out the events that
  the operator put back in somebody's hands: the attempt under way counts against the
  new ones, so that such an event may be buried early or done by the old attempt
  (section 5).  `StrandedBound` says what faults cost: one batch each.
* `ReadyIsPlayable`: the key a ready story names is in the bucket, with the music the
  row claims, however many attempts and workers uploaded one.  `ReadyIsFinal`: no retry,
  late failure or revival takes back a ready story; it leaves out a story whose synthesis
  two workers had at once, where the loser's late failure does.
* `ReplayBound`: replay of a ticket is bounded by the racing requests and the
  `accepted` rows that could not be written.  `ExpiredWasUnused` is what the
  margins between TTL, `userSweepGrace` and `pendingThreshold` are for.
  `ExpiredBound`: the INSERT ... WHERE NOT EXISTS without a unique key logs an
  expiry at most once per sweep that can overlap.  `TicketSpec` says that all of this
  is a Ticket: `outline_tickets` checks it for one account, the theorem covers any number.
* `CountLagsBounded`: `episode_count` never runs ahead of the stories and lags by
  the increments under way and one per fault.  `NumberAtMostRank`: concurrent
  sequels may share a number, and the one after them may then skip some, but no number is
  ever ahead of the rank of its story in the series.  `StoredTextIsBest`: what passed
  the check is the longest text, and is what is stored.
* `BudgetOvershoot`: the check-then-charge budget overshoots by less than the
  calls of the requests under way, whatever the middleware let pass unread.
* `LossIsAccounted`: rows missing from `cost_events` are bounded by the counters
  and the shutdowns: one per drop, a batch per failed INSERT, a full queue and three
  batches per stop.  Note the shape of the bound: `db_write` counts batches, and
  a cancelled flush is not counted at all.  It leaves out the calls that share their
  id with another one (`Shadowed`): worker calls have no trace and so one id, of
  which the table keeps the first row (section 5).
* `WaitIsBounded`: a tick takes a whole batch of what was queued before a call it
  leaves, whatever is recorded meanwhile, so a call is in memory, where a crash finds it,
  for at most as many ticks as a full queue has batches: fifty as configured, not the one
  of the comment (section 5).
* `LossNeedsOverlap`: an update of the child is undone only by a save that had read
  the row before it, although every save writes the whole row.
* `AdmittedIsClean`: no order of the rule list lets a hard word, a blacklisted
  character or a fear of the profile into a prompt that is sent to the model.
  `HardIsMasked`: a story with a hard hit is stored only if a soft one was found
  before it, since the post-check stops at the first.
* `TokenMatchesSession`, `ShownChildIsOwn`: once logouts are through, a session has
  its own token, an ended one has none, and the child that was loaded is of the
  user who is signed in.  The second leaves out the two cases of section 5.
* `FailuresNeedFaults`: losing the race of CreateOrGet never fails a login.
  `LostCodeNeedsOldCode`: Consume deletes whatever is stored by then, and that is
  a newer code only if the cooldown of the one the login matched is over.  It does not
  say that the login was slow: with a code older than a minute (it lives for five) a
  login of milliseconds may delete the one that was just sent (section 5).
* `RepeatsNeedFaults`, `SentenceIsTaken`: a story is told twice only after a failed
  call, and once the model has written its sentence the prompt takes that one,
  never a repeated beginning.  `MissingIsExplained`, `HintsCoverStories`: an episode
  is passed over only when its job is not done, or half a window of later stories
  (less the repeated rows) has pushed it out.
* `WindowIsBounded`, `RefusalNeedsChain`: whatever the placement of calls over the
  endpoints of a bucket, no window lets more than the maximum through, unless Redis
  did not count them; and a refusal is the end of a chain of calls without a pause.

### Fairness

The runs with liveness use these assumptions, and no others:

* the worker, housekeeper and flusher tickers fire for ever, and a call they make
  returns (the HTTP clients and ffmpeg have timeouts): `WF` on each worker's step,
  on the housekeeper's step, on the flusher's step;
* time passes: `WF` on the backoff of an event, on the TTL and the ages of a ticket;
* a request that was received ends: `WF` on its steps once it is under way;
* the poll timer of an open player fires;
* in AppSession the token storage answers and every request ends, by an answer or
  a timeout: one `WF` on the steps of system and network together, which is enough
  for them to be exhausted.

Nothing is assumed of publishers, users, operators, faults, or the sweep that a
user's visit triggers.  `EveryEventSettles` (audio) and `PollingEnds` hold
without crashes and database errors only: nothing takes a row out of `processing`
(section 5).

### Three assumptions about time

OutlineLifecycle takes a request that found its ticket in Redis to be done with
its two round trips within the 30 seconds between the TTL and `userSweepGrace`.
Login takes a Save, two Redis commands, to end before the cooldown of a minute
that its first command set.  AppSession takes nobody to get through the login form
while the deletion of a token is still pending.  None is enforced by the code;
without the first, `ExpiredWasUnused` fails (its mutant drops the assumption).

### Deadlock

Deadlock is checked in `cost_flush`.  The other
specifications stop for good reason: in Outbox and AudioPipeline when all
(bounded) events are settled, in OutlineLifecycle when the bounded outlines
are used up, in StoryGeneration when a series has `MaxEpisodes` stories and a
request waits to commit one more, in Login when every request has ended, in
ChildProfile when the bounded writes are used up and requests wait to save, in
Memories and RateLimit when all stories are remembered or the bounded calls are
made, in AppSession when people stop, which is what `Settles` is about.

## 4. Proofs

`OutboxProofs` proves, for any sets of events and workers, batch size, number of
attempts and number of faults:

* `TypeCorrect`, `ClaimsAreExclusive`, `AttemptsAreAccounted`, `DoneStaysDone`:
  the invariants of `outbox_faults` and the action property, all from
  `Inductive == Spec => []IInv`;
* `OutboxImplementsJobQueue`: every step of table and workers, and every UPDATE of the
  operator, is a step of JobQueue or a stutter under `Phase`;
* `FaultsStrandABatch`: the rows left in `processing` are at most a batch for every
  crash and database error.  Each such fault pays for the batch of the worker it
  hits, which `SizesOK` bounds, and no other step adds to them.

`IInv` strengthens `ExclusiveClaim` by what a poll knows: the rows a transaction has
locked are pending and locked by nobody else (`LocksOK`), and a worker has a batch only in
the stages that walk it (`StagesOK`).  The operator can break everything else, so the rest
says of which events he did not: one that he never put back in a hand has one holder, whose
row is marked `processing` (`Alone`), and its columns account for the executions in every
status, not only in those AttemptsAccounted names (`RowsOK`, `ClaimsOK`): in a batch it has
as many executions as recorded failures, in the handler one more, and what MarkFailed has
read is still in the row.  One that two workers never had at once has one holder and is not
settled while it has (`Unshared`), from which `DoneStaysDone` follows.  The number of hands
is counted: a poll adds one and marks the row, a revival unmarks it and adds to `met`.  The
refinement needs all this to show that a row in `processing` without an owner is stranded,
and that MarkFailed buries exactly at the last attempt.

`AudioProofs` rests on `OutboxProofs`.  Every step of the pipeline is one of Outbox or
leaves it alone (`PipelineImplementsOutbox`), so that all results above hold of it, and
it is a JobQueue (`PipelineImplementsJobQueue`).  Nothing in `stories` keeps two handlers
from one story; the exclusive claim of its event does, for the stories that are
`Undisputed`.  `PipelineIInv` adds what the place of a handler says of its story
(`HandlersKnow`): of an undisputed one, that past the load it is not ready, and that a
verdict of ok fits the row; of any story, that before `mark_ready` the object the handler
has made is in the bucket, which no other worker can change.  From it follow
`WhatIsReadyPlays`, `WhatIsDoneWasDelivered` and `ReadyStaysReady`, with crashes, lost
calls and revivals.  `WhatIsBuriedIsReported` assumes `~DbMayFail`, as the run `audio_live` does: when MarkAudioFailed itself may fail,
or the load before it, the row says what it said before.  The theorem still allows any number of
crashes and of failed calls to the outbox, which the run leaves out.

`AccessProofs` holds the proofs of Login, RateLimit and AppSession.

For any phones, requests and number of errors it proves the properties of `login_races`.
`LoginIInv` adds to the types: users are unique by phone and
returned accounts are among them (`UsersOK`); a code that is stored or was matched
was made for that phone by a save that is over (`SavesOK`), so nobody will store
it again; a Save under way still has its cooldown (`CooldownOK`), so whoever
writes a code holds the cooldown that the stored code no longer has; a spent save
is stored nowhere (`SpentOK`).  `OnlyFaultsFail` is a counting argument: failed
logins, and those whose INSERT failed and that will find no user, are charged to
one error each.  `OnlyOldCodesLose` rests on `MatchedOK`: what a login is about
to delete is the code it matched, unless the cooldown of that code is over.

`ChildProfileProofs` proves the four properties of `child_profile` for any words,
any order of the rule list, any names, requests and number of writes:

* `UpdatesSurvive`, by an `IInv` that says what a request about to save knows: its
  copy is a row and agrees with the row of the table in every column but its own,
  as long as nobody has written since it was read (`WritersOK`);
* `OnlyCleanIsAdmitted` and `HardNeedsSoft`, from lemmas about the checks as pure
  functions of the list and the text: `FirstFailing` gives the reason of a check
  that fails and no later one, a pre-check or an outline check that passes found no
  hit (`PreCheckPasses`, `OutlineCheckPasses`), and a story that ships has no hit or
  a soft one first (`ShipsSoftFirst`).  `FirstHit` turns "first" into a position in
  the list.

`OutlineProofs` proves the four safety properties of `outline_tickets`.  Its
invariant says that a ticket whose `pending` row is not there yet is in the hands of
one request (`HandsOK`), that whatever a sweep may see is out of Redis and in
nobody's hands (`AgesOK`), and that a sweep holds untouched tickets only
(`SweepsOK`).  `ExpiredTicketsAreUnused` and `RefreshRetiresTheParent` follow.
`ReplaysAreBounded` counts the stories begun with one ticket: until it has an
outcome each is charged to a fault (`StartsOK`), from then on to a request that had
already passed the check; `ExpiryIsLoggedFewTimes` charges every `expired` row to the
sweep that inserted it, which cannot find the ticket again.

`LifecycleImplementsTicket` shows that each step of OutlineLifecycle maps to a step of Ticket or to a
stutter, for any accounts, requests, outlines and faults.  A row moves the stage of its
own ticket only (`StageMoves`).  Besides the invariant the proof needs that a request works on a
ticket of its own account from one check to the next command (`OwnersOK`), and that a
ticket in use is out of reach of every sweep, so it cannot lapse under a request.

`CostProofs` proves both invariants of `cost_flush`, by way of lemmas about the
sequences of the queue.  `NoCallWaitsLong` adds to the invariant that the place of a call
and the batches its ticks have taken from before it fit into the queue together
(`MovedUp`), in the midst of a collection too, where the last tick has counted and the
batch in hand has moved it by what is in it so far.
`EveryLossIsCharged` is an accounting argument: what one stop may cost is charged at
the stop (`StopCost`), and the part the flusher has not lost yet is a `Reserve` that is
handed back as it goes on.

`StoryProofs` proves the four invariants of `story_series`: `CountsLagLittle` and
`NumbersDoNotRunAhead` from what a request knows about its series (`LinesOK`),
`BestTextIsStored` from what it knows about its text (`TextsOK`), and
`OvershootIsBounded` by counting the requests that may still pay for one, two or three
calls (`Owes1` to `Owes3`): what is spent plus what is owed stays below the bound.

`MemoriesProofs` proves `RepeatsAreExplained` and `SentenceIsNewest`: a handler runs
exactly while its job is tried (`JobsOK`), each repeated row is paid for by a fault
(`CountsOK`), and no row about a story follows its sentence (`LastOK`).
`WhatIsMissingWasCrowdedOut` and `HintsAreSpread` are about whole windows of rows, whose
stories share the faults: `RepeatsOK` counts, for any set of stories, the rows of their
beginnings against the stories told plus *all* faults, once.  As a story has one sentence,
any n rows are about at least (n - faults) / 2 stories (`RowsNeedStories`).  `WrittenOK`
adds that a job that is done has its row.

For RateLimit, `AccessProofs` proves `WindowsAreBounded` and `RefusalsNeedChains` for any
window, limit and number of calls.  The counter is not one of a fixed window, so the
invariant speaks of the last counted call: the counter is at least the number of calls let
through less than a window before that call (`CountOK`), and the counted calls follow each
other within a window, for any m up to the counter's value a chain of m (`ChainOK`).  A
call that is let through had a counter below the limit, which bounds every window it
closes (`WindowsOK`); a refusal extends a chain of the limit's length (`RefusedOK`).

For AppSession it proves `TokenIsOfTheSession` and `ChildIsOfTheSession` for any
people, number of tokens and of clicks: a login is under way only where nobody is signed in
and no logout is (`LoginOK`), a token goes before its session does (`SessionOK`),
a reply that still counts was asked for with the token that counts (`NetOK`), and
the child that shows is of the owner of that token (`ChildOK`).

The assumptions are those the modules name (`OutboxAssumption`, `PipelineAssumption`,
`LoginAssumption`, `RateAssumption`, `ChildAssumption`, `SafetyAssumption`,
`OutlineAssumption`, `CostAssumption`, `StoryAssumption`, `MemoriesAssumption`,
`AppAssumption`, `UserAssumption`): finite sets, natural bounds, positive where a size of
zero makes no sense, no word of two categories, two events to each story and a handler
for both, and placeholders (for no name, no line, no user) that are no member of the set
they stand beside.

Every safety property of the passing runs is proved, invariant, action property or
refinement.  What stays with TLC is liveness, since fairness and ENABLED are outside the
prover: `EveryEventSettles`, `PollingEnds`, `EveryTicketEnds`, `QueueDrains` and
`Settles`.

## 5. Other divergences met while modelling

They have no run of their own.

* `repository/outbox_repo.go:48` selects pending rows only, so what a dead worker
  held stays in `processing`; MEMORY.md:91 has the outbox recover from crashes.
  `StrandedBound` says how much that is.
* `repository/outbox_repo.go:78,89`: the Mark calls name a row by its id alone, and the
  UPDATE that puts events back (docs/devlog/2026-05-21-plan-10-deploy-day2.md:48) takes
  rows in `processing`, after a restart whose worker polls every five seconds.  On a row
  in hand the late failure of the old attempt counts against the revived event, or, when
  MarkFailed had read the row before the UPDATE, saves the old count, which may bury it
  again at once.  With a second process both run the handler, and the
  loser's verdict takes a done event back to pending and a ready story to failed.
  outbox_repo.go:16 says that "multiple workers won't grab the same event".
* `service/auth/codestore_redis.go:49` deletes the key of the phone, not the code that
  was matched: a login that matched a code older than the cooldown, however fast it is,
  may delete the one that was resent between its Peek and its DEL.
* Nothing puts `memory_update` events back: the UPDATE of the runbook is about
  `tts_synthesis` only.
* `worker/handlers/memory_update.go:79` repeats its INSERT after a reply that was
  lost, while `worker/worker.go:16` requires handlers to be idempotent.
* `api/outline.go:173` withdraws the parent from Redis before Preview looks up its
  group (`service/outline/service.go:215`): a refreshed outline starts a group of
  its own with variant 0.
* `service/child/child.go:30` says nil means "don't change", yet an overlapping
  update writes back what it had read.
* `service/story/chapter_hook.go`, `service/memory/summarizer.go` and
  `service/outline/service.go` never charge their calls to the daily budget, by
  which plan-04:51 means to cap what a day costs.
* `app/lib/router.dart:41` takes a child that could not be loaded for no child and
  asks for a new one, which the server refuses.  A reload that fails after a change
  of user keeps the child of the user before (`auth_state.dart:62` invalidates,
  which does not clear), and the reply to a creation is put in place whoever is
  signed in by then (`child_state.dart:31`).
* `app/lib/state/bootstrap_state.dart:48` calls loadQuestions idempotent; it wipes
  what was answered so far.
* `api/middleware/ratelimit_gen.go:40` says "maxPerWindow requests per window";
  every call, refused ones included, restarts the window, so a user may be refused
  who calls less often than that (`RefusalNeedsChain`).
* `api/middleware/budget.go:20` lets a request through when Redis does not answer,
  not to "compound an outage"; the check of `service/story/orchestrator.go:243`
  then refuses it, and tells the parent that the budget of the day is used up.
* `service/story/orchestrator.go:462` lists hard hits that "still drop to fallback";
  the post-check reports the first hit only, so a soft one that comes first hides
  them (`HardIsMasked`).
* `service/memory/selector.go:44` takes the last three rows, of which a story has two;
  plan-06:5 means the last three stories, and a repeated row takes one more.
* `worker/handlers/tts_synthesis.go:153,173` and the other calls of the worker
  build ids without a trace, always with attempt 1, so `cost_events` keeps the first
  of them; section 5.1.1 of the spec of plan 11b has the caller count the attempts.
* `api/middleware/traceid.go:17` takes the trace id of a request from its header: two
  requests with one id share the ids of their costs, of which one row is kept.
* `service/story/prompt/builder.go:120` shares one random source between requests
  without a lock, which math/rand does not allow; what it picks is in no property.
* The refresh token is issued and returned, and the app does not keep it.
* `worker/handlers/tts_synthesis.go:163` writes `failed` at every failed attempt,
  and the app stops polling at the first; plan-05:57 has it written when the
  attempts are used up.
* `repository/storyline_repo.go:64` writes the hint even when the extraction
  failed and returned nothing; plan-08:77 says the hint keeps its value.
* `service/outline/events.go:59`: two sweeps can both insert `expired`, although
  the comment says it is safe to call repeatedly; `housekeeping.go:98,127` count
  the metric even when nothing was inserted.
* `service/cost/flusher.go`: plan-11b:90 has three retries with backoff, there is
  none; plan-11b:508 drops the oldest event, the code the newest; the comment at
  line 17 bounds the loss of a crash by one tick, but a tick takes at most `maxBatch` and a
  full queue holds fifty batches (`WaitIsBounded`);
  `server/cmd/server/main.go:204` cancels the final flush and does not wait for it.
* `service/auth/codestore.go:29` says Consume prevents replay; two logins that
  peek before either deletes both pass.
* `service/safety/postcheck.go:45` knows 5, 10 and 15 minutes, the API 3, 5 and 8.

## 6. Not modelled

Prompts, texts, names and prices as strings and numbers; the format of tokens and
cryptography (JWT, phone encryption, hashes); reports; the gateways, which succeed
or fail; layout and widgets of the app, its outline and generate screens and the
draft of the questionnaire; configuration.  The hint of a storyline is data no property
reads.  The download of background music, once for each file, the parser of the
cues and the arithmetic of prices are not modelled either; a composition in
AudioPipeline has its music or not.  Postgres is taken to be atomic per
statement, with read-committed visibility and with row locks that a transaction keeps;
Redis to be atomic per command.  More than one server process is modelled for the worker only.

## 7. Plan

What is left, in this order:

1. *Ticket and generation in one request*: `accepted` is appended before the checks
   of ownership, budget and safety (`service/story/orchestrator.go:216`), so a request
   that those refuse has used up its ticket.  A composition of OutlineLifecycle and
   StoryGeneration can bound how many.
2. *BgmCache*: the once-per-file download with cancelled contexts and concurrent
   jobs, which keeps the error of the first.
3. *Algorithms*: cue parsing, extraction and price calculation, each against a
   reference definition on bounded inputs.
4. The outline and generate screens of the app as clients of the ticket.
