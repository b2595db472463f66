# Verification of an online judge

The repository is an online judge: a Next.js application with a Postgres
database (`src/src`), and a fleet of checker machines (`src/checkers`) that judge
submitted programs in a sandbox. This directory holds TLA+ models of it, the
TLC configurations that check them, and TLAPS proofs about them.

Paths are relative to the repository; `…/` stands for `src/src/backend/modules`,
`app/` for `src/src/app`.

## 1. The system and its parts

| part | state | operations | talks to |
| --- | --- | --- | --- |
| Submission store (`…/submission/internal-functions/judging.ts`, `…/submission/schema.ts`, `…/machine/schema.ts`) | rows of `submission__submission_` (status, claim id, machine, job, attempts, lease, note) and `machine__machine_` | create, claim, record a job, undo a claim, lose, extend a lease, apply a result | written by every loop, read by the pages |
| Dispatcher (`dispatcher.ts`, `sweeper.ts`) | one pass: room per machine, snapshot of the queue, the claim in hand | sweep, read, claim, POST, record or take back, note | store; `POST /judge` |
| Collector (`collector.ts`) | one pass: a snapshot of the running rows | ask for a job, write its answer | store; `GET /judge/<id>` |
| Machine health (`machine-health.ts`) | one pass: machines still to ask | mark reachable, or unreachable and lose the machine's work | store; `GET /health` |
| Runner process (`run-sweeper.ts`) | the three loops above | sync the registry, run the loops, crash, drain | – |
| Machine registry (`machine-registry.ts`, `settings.ts`) | machine rows and their switch | bring rows in line with `CHECKER_MACHINES`; the operator's switch | store |
| Checker service and registry (`checkers/common`) | jobs, results, the closing flag | submit, get, finish, shut down | called over HTTP, runs the judge |
| Benchmark batches (`…/benchmark`) | batch rows, one background run per process | start, stop, create the next submission, complete, fail | inserts submissions |
| Admin panel (`app/admin`) | cached machine list and batch status, switches in motion | poll, switch, start, stop | registry, batches |
| Problem list (`app/_components/problems`, `…/task/…/list-problems`) | request, search box, address history, cached answers | type, filter, sort, page, Back and Forward | one query |
| Lists, rankings, solve counts (`submission-list.ts`, `…/ranking`, `problem-counts.ts`) | none of their own | four queries | store |
| Submit form, own attempts, submission page (`app/problems/[slug]`, `app/submissions/[id]`) | the form, cached rows, polls | type, drop a file, submit, poll | `createSubmission`, `getSubmission`, `listMySubmissions` |
| Accounts and sessions (`…/account`) | account rows; the signed cookie in each browser | log in, log out, who am I | seed and batches create an account too |
| Problem seeding (`…/task/seed.ts`) | rows of problems and tests | one transaction over the packages on the disk | – |
| Site start (`deploy/web/entrypoint.sh`, `compose.yml`, `/api/ready`) | where the container is | migrate, seed, serve, restart | runs the seeds; the loop runner waits for it |

Nothing holds a lock across an `await`. The loops of one process interleave at
every `await`, several processes may run against one database (a deployment that
overlaps the previous one, a seed by hand beside the container's), and all that
protects a row is the `WHERE` clause, the transaction or the unique index of the
statement that writes it. The pages are a second kind of concurrency: they hold
copies, change them before the server answers, and refresh them by polls that
may be lost, late or crossed. Hence the hard behaviours: stale snapshots, late
results, requests that time out although they were taken, a claim that outlives
its claimer, a checker that forgets, attempts that run out, a seed cut short,
two first log-ins of a name, a list that grows while it is paged through, a
remembered closure that undoes a newer choice. PROJECT.json lists them, each at
its line, under "hazards".

What makes each part correct:

- **Judging:** a row's columns agree with its status; the claim id fences off
  everybody who knew the row under an earlier claim; a final row is final; each
  result counts once and comes from the holder; attempts are limited; no claim is
  left behind for ever.
- **Registry:** a sync never undoes what the operator chose, and a machine that
  left the inventory gets no work.
- **Batches:** at most one runs, it sends what was asked for, and once it has ended
  nothing is added to it.
- **Pages:** once things are quiet, what is shown is what is so; a poll that must
  go on goes on; a press does what it says once.
- **Queries:** pages of one list cover it once; counts and rankings agree.
- **Seed and start:** what is visible is whole, inserted once and left alone;
  nothing is served that is not seeded; the site comes up by itself.
- **Accounts:** one person is one account; who logs in is who is greeted.

## 2. Modules

### Judging

| module | models |
| --- | --- |
| `JudgingTypes` | parameters, ids, statuses, the order of the queue |
| `SubmissionStore` | the two tables. Each `UPDATE` is an operator on a row (`ClaimedRow`, `UndoneRow`, `LostRow`, …) and each `WHERE` a predicate (`HoldsClaim`, `MayBeJudged`, …) |
| `Dispatcher`, `Collector`, `MachineHealth` | the three loops, one step per `await` |
| `Checker` | a checker machine as the application sees it: slots, jobs, results that expire, shutdown, crash |
| `JudgingSystem` | the composition: runners, machines, messages in flight, users, the operator, the clock, mishaps |
| `SubmissionLifecycle` | the abstract specification: a submission waits, is held by one machine, ends judged by it or failed after its tries |
| `JudgingProperties` | properties, refinement mapping, fairness |
| `JudgingProofs` | theorems about rows, attempts and the claim fence |
| `LifecycleProofs` | extends it: the refinement, and theorems about holders, totals, room and quiet systems |

A submission is its place in `created_at` order. Time is reduced to whether a
lease is live or expired and whether a request was given up: a lease expires
freely when nobody attends to the row, and by a mishap when a live runner does.
A claim id is fresh when it is made (a random UUID); a job id is named after its
request. An answer that cannot be read, an error status and a refused connection
are one outcome to the callers of `checker-client.ts`, and so they are here.
Machines of equal room are taken in any order. "stopped" is the `internal_error`
a checker reports for a job it stopped, told apart from the one the application
writes because the documentation does. A mishap is counted in `disturbed`;
`Disturbances` and `MaxDisturbances` say which and how many a run admits.

### Batches, registry, admin panel

| module | models |
| --- | --- |
| `BatchRunner` | the start and stop endpoints and the run in the background, with an error in any statement of the run or of its catch, an insert whose answer is lost, and a crash. The transaction that creates a submission locks the row of the batch and reads its status (`LockRow`), then inserts (`CreateNext`); a stop waits for the lock (`Locked`). A deck is the number of solutions of either kind left, drawn in any order |
| `MachineRegistry` | `syncMachineRegistry` in its statements (`ReadSettings`, `UpsertListed`, `RetireDropped`), several runners, the operator's `SaveEnabled`. `chosen` and `dropped` only remember what the properties compare with |
| `AdminPanel` | extends the registry by one open page: `list` and `status` are its cached reads, `fetch` a read under way, `switch` a press with the whole list it would restore, `press` the batch buttons. Another admin, a runner and a batch act behind its back |
| `BatchProofs`, `PanelProofs` | theorems about `BatchRunner`; about `MachineRegistry` and `AdminPanel` |

### Problem list

`ProblemCatalog` is the query of `list-problems` and the parsing of an address,
as operators: `Parse`, `Build`, `Matches`, `Above`, `PageOf`, `Total`.
`ProblemList` is the page: `history` and `at` are the tab's addresses, `params`
the state of `ProblemListSection`, `resolved` what the Next router makes of the
address (with a delay: `Resolve`), `draft` and `timer` the box and the request
its pending debounce remembers. React renders and runs effects after each event,
so they are part of each action (`Rendered`, `SyncedDraft`, `Debounced`). A
search is cut to 128 characters after it was trimmed, so it may end in a blank
again; it is then another text than its trimmed self, and the page starts with a
debounce pending. Back and Forward may be pressed at any moment, also while the
router is under way; where they lead it to the address it still has, it changes
nothing and no effect runs, which `overlooked` remembers until the next
navigation. `ListProofs` has the theorems.

### Lists, rankings, the submit form

`SubmissionFeed` has the rows of all submissions and two readers: `walk` goes
through one of the three lists by Previous and Next, with rows and total read by
two steps; `visit` opens a problem page, which reads the solve count and then the
ranking. The four queries are operators over the rows (`RowsOf`, `SolveCount`,
`ProblemRanking`, `GlobalRanking`).

`SubmitPage` has one person's tab: form, file loads, the requests of
`createSubmission` (which may be stored and have their answer lost), the panel of
own attempts, the page of a submission rendered by the server and then polled,
each read of a submission in its two statements. Judging is reduced to what these
pages see of it; `JudgingSystem` has the rest. The theorems are in `FeedProofs` and
`SubmitProofs`.

### The site

| module | models |
| --- | --- |
| `ProblemSeed` | `seedTaskProblems`: `seeder[p]` is where process p is and what its transaction holds; list, SELECT, two INSERTs per package, backfill and COMMIT are a step each. A seeder waits for another open transaction with the slug it inserts, as the unique index makes it |
| `Accounts` | `logIn` in its three statements, `logOut`, the cookie over a connection (`Secure`, `Keeps`), what a page greets (`CurrentUser`), the batch author |
| `Site` | extends both: entrypoint, restarts, readiness, the loop runner's start, kills, seeds by hand, a server from a checkout, shipments, secrets |
| `SiteProofs` | theorems about `Site` |

A package is its slug, statement, number of tests, and a flag for everything that
makes reading it throw before the first INSERT. A name is a value with its `Lower`
form. All seeders read one disk: a seed by hand from a checkout reads the checkout's
packages, which are taken to be those of the container, and two disks that differ
are left out. A kill of the container ends the requests it serves, not those of a
server started from a checkout. A connection is what the browser speaks, what
forwarding headers say and what the application received itself.

`MCJudging`, `MCBatch`, `MCPanel`, `MCProblems`, `MCSubmit`, `MCSite` give the
constants values for TLC. Definitions commented as "Mistaken" are versions of
the definition that follows them with a plausible error; they show that the
properties notice it, and no specification uses them.

## 3. Runs

| run | instance | what it shows |
| --- | --- | --- |
| `JudgingFailover` | 1 submission, 2 machines, 1 runner, any 1 mishap of 9 kinds | row and note are consistent, an undisturbed system loses nothing |
| `JudgingQueue` | 2 submissions for 1 slot, any 1 mishap | no machine is held to more than its room |
| `JudgingRestart` | 1 submission, 1 machine, attempt limits 1 and 2, any 2 mishaps, fair | attempts stay in the limit, the inductive invariant holds, the system implements `SubmissionLifecycle`, a submission gets a verdict unless every machine is off |
| `JudgingOverlap` | 2 runners at once, 1 early lease | the claim fence, final rows stay, results from the holder only, each counted once |
| `BatchRuns` | 2 batches of 1 or 3, 2 processes, any 2 faults of 4 kinds, fair | one batch runs at a time, sends what was asked for, and its count is final once it has ended; it ends unless its process died or could not write its end |
| `FleetPanel` | 2 machines, 3 settings, 2 starts of a runner, 2 presses, 1 fault, fair | syncs leave the operator's choice alone; switches that are at rest show what is saved; a page that is looked at catches up |
| `ProblemPages` | 3 problems, pages of 2, 3 addresses, 3 events, 1 lost request | address, box, request and rows agree once things are quiet, but for divergence 3 of section 6; no page beyond the last; pages cover the list once |
| `SubmissionFeed` | 2 people, 2 problems, 3 submissions, pages of 1 | a walk to the end misses nothing, Next leads to rows, the three counts of solvers agree, also when read at two times |
| `SubmitPages` | 2 languages, 1 accepted, 1 file, 2 submissions, 4 events, 1 fault, fair | rows come from presses, a verdict shows its tests, both polling pages reach it |
| `SiteStart` | 2 seeders, 2 directories, 6 shipments, 3 names, 2 browsers, 3 connections, 2 secrets, fair | the properties of section 1 for seed, start and accounts; the site comes up |
| `StoppedIsOverwritten` | violation | a batch that was stopped is said to be completed |
| `SearchUndoesFilter` | violation | a pending search takes a filter away that was chosen after it |

`FleetInv`, `ListInv`, `FeedInv` and `PageInv` are the type invariant of their
module together with one safety invariant of it, which has its own name there.

**Why the bounds are enough.** In the judging runs the races are between loops
over one row, so one submission meets all of them; two are needed for what they
share: slots, totals and the order of the queue. Two machines are needed for a
late result of the first while the second holds the row. Two runners are two of
every loop. Attempt limit 2 has a loss with an attempt left and one without;
`JudgingRestart` mixes it with 1, as when a runner is started with another
setting. One mishap reaches each recovery path, two a mishap during recovery.
Batch sizes 50 and 100 are the code's.

Two batches are needed for one that meets the run of the other; counts 1 and 3 have
a mixture that rounds and one that does not. Two machines let a switch write back a
list over another switch, which needs two presses; two starts are a sync cut short
and the next, or two runners with different settings. On the problem list, three
events are enough for a filter between a keystroke and its debounce, or for Back
over a pending transition, with an event to spare after it; two problems share a
rating and one has none, so ties are there; three problems on pages of two give a
last page that is not full. Three submissions on pages of one push a row past a
visitor twice. In `SubmitPages` two rows and four events contain a second press
after a lost answer, and a return to the panel over an old copy. In `SiteStart` a
behaviour begins in one of four scenarios (`MCScenarios`), each with a budget of
what may happen: seeds against each other under every shipment and a kill; a log-in
and a batch beside the seeds; two log-ins over every connection; two log-ins while
the secret changes. The shipments contain a broken package, one without tests, one
slug in two directories, and a renamed directory. The theorems of section 5 need
none of these bounds.

**Symmetry** over machines and runners is used in `JudgingFailover` and
`JudgingOverlap`, where machines have the same room and packages; their only
temporal properties are properties of single steps, which symmetry respects.

**Deadlock** is checked for the judging system, which polls for ever. Batches may
all have ended, people may have nothing left to do, and budgets run out, so the
other runs do without.

## 4. Fairness

- *Judging* (`Fairness` in `JudgingProperties`): weak fairness on each loop of a
  live runner (`loop()` never returns and every request has a time limit), on
  starting a runner (the service manager restarts it), on a machine's own steps and
  its judge (time limits end every run), on requests in flight, and on the expiry of
  a lease nobody attends to. Mishaps, users and the operator are not fair. An
  operator who leaves every machine off stops everything, hence the second half of
  `EventuallyFinal`.
- *Batches:* a call and a run go on while their process lives; nothing is assumed of
  the operator. A crash, an insert whose answer is lost, and an error in the catch's
  own statement leave the batch running with nobody at work on it, until somebody
  stops it, as `stop-batch/index.ts` says: `Survivable` leaves these out.
- *Pages:* polls of a visible page, the server's answers and their arrival (TanStack
  Query's `refetchInterval`); nothing of the person. `PanelCatchesUp` of the admin
  panel asks that the tab is looked at from some time on, as polls stop while it is
  hidden.
- *Site:* compose starts what exited (`restart: unless-stopped`), and a process that
  runs goes on. That the loop runner is started for the first time, once the web
  container is ready, is fair too. `compose.yml` itself promises less: `depends_on`
  is evaluated once, by `up`, which may give up on a web container that stays
  unhealthy. In the Ansible deployment (`web.compose.yml.j2`) the runner starts
  whatever the web container does and, as long as its first statement finds no
  tables, starts again; from then on it is the model's "exited" runner.
  `SiteComesUp` asks that the packages can be seeded from some time on; nothing is
  assumed of people, of the operator or of kills, which only the budget bounds.
  `ServesWhatItShips` is about the packages a start found: in
  `deploy/compose.local.yml` the directory is mounted, and what is added to it while
  the site serves waits for the next seed.

## 5. Proofs

### Judging (`JudgingProofs`)

For any sets of submissions (finite), machines, runners and claim ids, any
capacities, packages, batch sizes and attempt limits, any number and kind of
mishaps: `JudgingInvHolds` (the inductive invariant), `TypesHold`,
`RowsStayConsistent`, `NotesStayTrue`, `AttemptsStayLimited`, `FenceStaysExact`,
`FinalsAreForever`. Assumptions are the named ones of `JudgingTypes` and
`JudgingSystem`: ids are naturals other than 0 (null), submissions are finitely
many, `NoMachine` is no machine, limits and capacities are positive
(`readPositiveInteger`), and no judge reports a word that means a pending row.

That an expired, silent or unknown claim may be lost by one loop while another is
about to write is harmless only because a claim id tells whether a row is still
the one that was read: the machine and the job recorded for a claim do not change
under those who know them (`FenceIsExact`). It is not inductive on its own: a
claim being made must be one no pass knows (`FreshClaims`), a pass that records a
job the only one to know the claim (`OwnClaims`), and only running rows may have
one (`RowConsistent`). `AttemptsWithinLimit` needs its second half, that a queued
row has an attempt left, because the `UPDATE` that claims does not look at the
attempts again; `StuckRow` is needed only when limits differ. There is a lemma
per operator on rows, one per action, one per group of `Next`.

### Batches (`BatchProofs`)

For any batches, processes, counts and faults: `BatchTypesHold`, `OneBatchRuns`,
`BatchesSendWhatWasAsked`, `EndedCountsAreFinal`. `BatchInv` adds what the run knows
at each step: what was sent and what is left of the deck make up what was asked for
(`DeckFits`), and while its run holds the lock a batch is running, whatever stops
wait, which makes the insert safe without another look. A step that throws after its
work was committed spoils the deck, and is harmless because the run never comes back
to it. Assumptions: `NoProcess` is nobody, counts are positive (the input schema of
`startBatch`).

### Site (`SiteProofs`)

For any packages, shipments, seeders, names, browsers and connections, any
scenario and any budget:

| theorem | states |
| --- | --- |
| `SiteStaysTyped` | `Spec => []SiteTypeOK` |
| `ProblemsAreWhole` | `Spec => []WholeProblems` |
| `PackagesAreSeededOnce` | `Spec => []EachPackageOnce` |
| `ProblemsStayAsSeeded` | `Spec => LeftAsIs` |
| `OneAccountEach` | `Spec => []OnePersonOneAccount` |
| `ServingMeansSeeded` | `Spec => []ServesWhatItShips` |
| `LogInsWork` | `Spec => LogInAlwaysWorks` |
| `LogInsAreGreeted` | `Spec => GreetedByName` |

The invariant `SiteInv` has three parts. `SeedInv` says of an open transaction
what its COMMIT will need. That a package is inserted once is the hard one: the
seeders look for *directories* and the index is on *slugs*. What ties the two is
that the disk does not change under a seed, so rows held under one directory have
its slug (`HeldFromDisk`), and a directory still to be inserted is unknown, or
became known since the SELECT under the slug it has now, which the index will
refuse (`TodoIsNew`). With these no two rows clash, committed or held, whoever
holds them (`RowsDistinct`). `TestsMatch` and `InTurn` say which rows have their
tests already, `NoneForgotten` that each package is known, held or still to do, so
that nothing is missing when the seeder exits with 0. `AccountInv` adds that a
log-in about to look again will find somebody (`AgainIsFound`, for accounts are
never deleted), and that the cookie of a log-in that went well is that person's
(`SignedIn`). `ContainerInv` ties the container to its seeder: it is in "seed"
exactly while the entrypoint's seeder runs. Each statement has its lemma; every
step is shown to satisfy the action properties beside the invariant (`SiteStep`).
Assumptions: directories are naturals (their order in `localeCompare`), the
entrypoint is a seeder, and nothing in front of the application says https of a
browser that does not speak it (`AccountsAssumption`), without which
`GreetedByName` is false. The model's guard that no seed runs while the disk is
changed is the operator's part of the bargain, and the proof needs it.

### The system as a user sees it (`LifecycleProofs`)

On the invariant of `JudgingProofs`, with its assumptions:

| theorem | states |
| --- | --- |
| `SystemImplementsLifecycle` | `Spec => ImplementsLifecycle` |
| `VerdictsComeFromHolders` | `Spec => VerdictFromHolder` |
| `TotalsAgree` | `Spec => []JudgedTotalsAgree` |
| `OneRunnerKeepsCapacity` | `Runners = {r}`: `Spec => []HeldWithinCapacity` |
| `QuietLosesNothing` | `Spec => []QuietSystemLosesNothing` |

*Refinement.* The mapping is `Lives` (phase, holder and tries of each row) and
`Credits` (the totals of the machines). Each action of the system is shown to
leave both alone (`StillLives`), or to be a step of `SubmissionLifecycle`: a
submission arrives, is given back, lost or given up (`Returns`), is taken by a
claim (`HandsOut`) or judged by the write of a result (`Judges`); `LivesMove` is
their disjunction. That a row which goes back has a claim, that a queued one has
a try left and that a verdict credits the machine of the row come from
`JudgingInv`.

*Totals.* `JudgedTotalsAgree` is inductive by the refinement: only `Judges`
touches a total, and it adds the row to the set that is counted.

*Room.* `RoomInv` says what the room a pass still counts on means: the rows a
machine has, and that room, are within its capacity, the claim in hand counted
once (`RoomFits`). Rows taken away meanwhile only help. It needs one runner: two
that overlap each read the same room, and each may fill it.

*Quiet systems.* While `disturbed = 0` the system is in a `QuietState`: nothing is
down, and somebody attends to every running row: before its job is recorded the
pass that claimed it has it in hand, and from then on its machine knows the job
(`RowsAreAttended`; `PostsFit` and `JobsAreKnown` carry this over the POST). A
collector that is told a job is unknown holds an entry whose claim is over
(`LossIsOutdated`). Without these the property is not inductive: the loss of a
row is one statement, and only what machines and messages know tells that it is
not meant.

### Registry and admin page (`PanelProofs`)

For any machines, runners, settings and bounds, `RegistryKeepsChoices`
(`[]FleetInv`) and `SettledSwitchesAreTrue` (`[]SettledPanelIsTrue`). For the
registry it is enough to add that a machine without a row was never switched
(`UnknownIsNew`). For the page the point is the read under way: an answer shows
every machine whose switch is at rest as it is saved (`AnswerIsTrue`), because a
press discards the read that was under way, its end asks again, and changes of
others are set apart (`elsewhere`). The list is then true whenever every switch and read is at rest
(`CacheIsTrue`), though it may be wrong until then, when an old list was put back.

### Problem list (`ListProofs`)

For any problems, ratings, texts, page sizes and first addresses, any number of
events and lost requests:

| theorem | states |
| --- | --- |
| `AddressStaysFollowed` | `Spec => []AddressIsFollowed` |
| `RowsShownAreAskedFor` | `Spec => []ShownIsAsked` |
| `ButtonsStayInTheList` | `Spec => []ListInv` |
| `PagesShareNoRow` | `Spec => []PagesCoverOnce` |

Where the router has caught up, and the last Back or Forward was not overlooked,
the request was read from the address or the
address was written from it (`FollowsAddress`). In the second case what is read
back is the request again, unless its search is cut or trimmed by it: the search
is clean, or was cut from that very address (`SearchIsClean`), or is too long, in
which case the page is the first (`LongIsFirst`). The request of the page is on
its way, answered or failed (`AskedFor`), hence the list the buttons go by is its
own when they work, and `Next` leads to a page there is; a page written to the
address exists when it is read back (`PagesExist`). The order of a list is unique
without induction: the place of a row is the number of rows that stand above it
(`PlaceIsRank`), so pages cut from two orders of the same rows are cut from one.
Assumptions (`ProblemCatalog`, `ProblemList`): what trimming and cutting do, that
NULL ranks above every rating, and that first addresses hold texts and numbers.
Stating the invariant showed that the box need not equal a search that was cut
after a blank, only agree with it but for the blank; `ShowsAddress` says so.

### Lists and rankings (`FeedProofs`)

For any people, problems, page size, limit, and any finite set of submissions:
`WalksMissNothing`, `NextLinksLeadToRows`, `RankingsAlwaysAgree`,
`CountedSolversAreRanked`. The ranks of a finite set in line are 0 and up, each
once (`RanksAreFull`), so a page that starts below the number of rows has a row
and a limit takes that many of a ranking. A row of the start that was not seen
stands on the pages still to come, since new rows only push it onwards, and the
total on the screen tells so (`Ahead`). A solve count read before the ranking is
not above it, because who solved a problem has solved it for good (`Counted`).

### Submit form and pages (`SubmitProofs`)

`NoPressMakesTwo` (`[]PageInv`) and `VerdictsHaveTests` (`[]FinalShowsTests`), for
any languages, files, texts and bounds. What is counted is what was on the screen
at a press: the rows of a text and the requests that still wait with it are never
more than its presses (`PressesCount`), however answers are lost. A read of a
submission that has seen a verdict has seen it before it reads the tests, which
are stored with it (`ReadIsSound`), and the pages a tab may be on lead to stored
rows (`LinksLead`).

### Only model-checked

All liveness (`EventuallyFinal`, `BatchEnds`, `PanelCatchesUp`, `PagesCatchUp`,
`SiteComesUp`): TLAPS reaches neither fairness nor ENABLED. `HeldWithinCapacity`
is proved for one runner, which is where it holds. Every other property of a
passing run is a theorem. No module declares a RECURSIVE operator, and nothing
needed induction over data.

## 6. Where code and documentation disagree

Shown by runs:

1. `StoppedIsOverwritten`: a batch is stopped after its last submission was
   created; its run then writes "completed" over "stopped", as the `UPDATE` has
   no condition on the status.
2. `SearchUndoesFilter`: type a search and, before its debounce of
   `problem-filters.tsx:62` ends, choose a difficulty. The debounce calls the
   `onChange` of the render that started it, whose `params` lack the difficulty,
   and the choice is gone from the page and the address.

Stated beside the properties of their module, and found violated by TLC. To see
them again, name the property in place of the ones of `ProblemPages.cfg` (3) or
`SiteStart.cfg` (4):

3. `AddressIsTruth` (`ProblemList`): "the URL is the source of truth (e.g. after
   Clear filters or the back button)" (`problem-filters.tsx:52`). Choose a filter
   and press Back before the Next router has followed the `pushState`: it ends at
   the address it had, the effect on `[searchParams]`
   (`problem-list-section.tsx:36`) does not run, and the page keeps the filter.
   `AddressIsFollowed` states what holds; only this case is taken out of it.
4. `EditsArePickedUp` (`Site`): "Re-seeding picks up a new or edited problem
   package" (`deploy/compose.local.yml:20`). New ones, yes; a directory that has a
   row is skipped (`task/seed.ts:289`), and the seeder says so itself: "A problem
   that is already there is left exactly as it is" (`task/seed.ts:266`). `LeftAsIs`
   states what the code does.

Stated in `JudgingProperties` under "Claims of the documentation that the code
does not keep", and found violated by TLC. To see them again, name the property
in place of the ones of `JudgingFailover.cfg` (5 and 6) or `JudgingRestart.cfg`
(7), or, for 8, give `JudgingQueue.cfg` the specification `FairSpec`,
`CanJudge <- MCNotTheFirst`, `DispatchBatch = 1` and `Disturbances = {}`:

5. `DisabledGetsNoWork`: "A machine that is off is given no new work"
   (`set-machine-enabled/index.ts:9`). The dispatcher reads the machines once per
   pass, awaits a POST per submission, and claims for those machines to the end.
6. `OnlyJudgingSpends`: "only real judging spends an attempt"
   (`dispatcher.ts:97`). A silent health check takes the claim away before the
   dispatcher can undo it, and keeps the attempt. One crash of a checker can so
   cost two attempts, the second to a health answer that was already old.
7. `StoppedIsRetried`: "A submission left `internal_error` this way is the app's
   to retry" (`CONTRACT.md:143`). The application stores it as final.
8. `JudgeableIsJudged`: a waiting submission "will be judged". Fifty older ones
   whose package no machine has, and it is never looked at.

Read in the code while modelling; 9 is why `PagesCatchUp` promises something only
of those attempts that the panel lists:

9. The panel of own attempts "stops once every one has a verdict"
   (`problem-submissions-panel.tsx:14`). A list cached before a submission was
   stored has no pending row, so nothing asks again, and creating a submission
   does not invalidate it: for as long as the copy counts as fresh the panel may
   show neither the attempt nor its verdict.
10. "Pressing the panel's button never fails for want of an author"
   (`benchmark-author.ts:8`). The account is looked for and then inserted by a
   plain INSERT (`account/seed.ts:24`): a log-in or a seed that creates it between
   the two makes the INSERT throw, and the batch fails. `Accounts` has this step;
   the next press finds the account.

## 7. Not modelled, and why

- **Rows of a result, verdicts and scores, comparison of outputs:** arithmetic and
  text over one answer, without state between answers.
- **Threads inside a checker:** every method of the registry holds its lock. What
  the steps between can lead to as seen from outside, an exit with a job still
  running, is a checker crash in `Checker`.
- **Judge pipeline and sandbox** (cgroup leaves, timers, orphans, bubblewrap):
  what can go wrong there is decided by the kernel; the repository only calls it.
- **Parts of modelled components that are left out:** throughput on the admin
  panel, the thirty days of a cookie, two tabs of one browser, a hidden tab while
  submitting, the database container and its health, migrations beyond "the
  tables exist".
- **Rest of the pages, solutions of the benchmark, infrastructure, problem
  packages, evidence tooling:** layout, data and recipes.

## 8. Plan

Done: the judging core, batches, registry and admin panel, problem list, lists and
rankings, submit form and its pages, seed, accounts and site start; the safety of
all of them, and the refinement of `SubmissionLifecycle`, with proofs.

Next, in this order:

1. `JobRegistry`: threads, lock, shutdown and timer of a checker, shown to
   implement `Checker`, by a run and by a proof.
2. Verdict, score and test-row matching as operators, against references.
3. An abstract specification of the batches, and of what a page owes its server
   (a cache that ends up true), with the modules shown to implement them.
