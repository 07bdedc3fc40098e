# A TLA+ verification of aiteam

aiteam is a platform for teams of AI employees.  Three services work together:

* the **Operator** (`src/server/operation_service`, FastAPI, PostgreSQL) runs the
  platform: enterprises, the catalogue, model providers, cross-enterprise rollups;
* a **Manager** (`src/server/manager_service`, FastAPI, PostgreSQL) serves an
  enterprise: members, employees, knowledge, quotas, usage;
* an **Agent** (`src/server/agent_service`, Node, SQLite, the Pi SDK) runs on a
  member's machine: conversations, prompts, tools, schedules.

Web front ends and a desktop client (Tauri and React) sit in front of them.  The
repository has few threads but many concurrent actors: every `await` of the Agent
lets another handler in, its timers and promise callbacks act on rows that were
read long before, the Manager's poller thread works beside its event loop, the
services retry each other's calls, and each of them may be restarted at any point.
This project models those parts and checks what a unit test hardly reaches.

## 1. Inventory

Each part, its state, what changes it, and what makes it hard.  `PROJECT.json`
lists the same parts with their sources and status; its `hazards` give the lines.

| Part | State | Operations | Hard because | Status |
|---|---|---|---|---|
| Scheduled prompts and receipts (`schedule.ts`, `storage/sqlite.ts`, `pi/session-host.ts`, `http/server.ts`) | receipts, schedule, generation, retry marker in SQLite; runs, tick and retry map in memory | tick, HTTP prompt, edit, delete, run steps, callbacks, heartbeat, restart | callbacks act on rows read long before; leases lapse; crashes between two writes | `ScheduledPrompt` |
| Approval gate (`approval-service.ts`, `storage/sqlite.ts`) | approval rows; waiters, timers | request, decide, expire, cancel, abort, restart | decision, timer, abort and restart race for one waiter | `ApprovalGate` |
| Usage outbox (`usage-flush.ts`, `storage/sqlite.ts`) | outbox rows; flushes | record, claim, upload, settle, restart | flushes overlap; totals change under way | `UsageOutbox` |
| Manager's usage delivery (`usage_delivery_*.py`) and the Operator's rollups (`rollup_*.py`) | delivery rows with leases; stored summaries | upload, claim, send, settle, sweep | poller and hint overlap; leases lapse; outages | `UsageDelivery` |
| Runtime lease cache (`runtime-lease-cache.ts`) | entries, generations, pending loads | get, load, clear | loads are joined, and cleared while they are awaited | `RuntimeLeaseCache` |
| Session host (`pi/session-host.ts`) | records, Pi sessions, queues | prompt, context poll, thinking level, reset, abort, delete | every call shares one session and awaits in the middle of its checks | `SessionHost` |
| Groups, work records, automation tasks, read cursors (Agent) | SQLite rows | create, close, deliver | revisions, chains of mentions | not modelled |
| Knowledge intake (`knowledge_intake_*.py`, the RAG client) | document, job, binding and receipt rows; LightRAG's records | upload, reindex, claim, fence, post, probe, publish, settle, delete, reconcile, restart | LightRAG is another system: a post may be lost, late or unanswered; leases lapse; requests race | `KnowledgeIntake` |
| Memory leases, recruiting (Manager) | lease and order rows | renew, revoke, order | two databases | not modelled |
| Relay tokens, onboarding receipts (Operator) | provider rows, receipts | reconcile, onboard | an external relay | not modelled |
| Chat store, send queue (desktop client) | queues, streams | send, stream, cancel | late stream events | not modelled |
| Identity, members, catalogue, settings, administration | rows | create, read, update, delete | little to interleave | not modelled |
| Web front ends, office map editor, workspace files, tokens and key material | rendering, files, cryptography | | no state machine of their own, or out of reach | not modelled |

How the parts meet: a prompt (HTTP or schedule) becomes a receipt and a run of the
session host; the run's tool calls go through the approval gate; when it ends, its
usage is added to the outbox; flushes upload totals to the Manager; the Manager
stores them with a delivery row in one transaction and delivers to the Operator.
Beside this, members upload documents to the Manager, whose workers have them
indexed by LightRAG for the employees' searches.

What should be true of them:

* a prompt runs at most once per key, whatever is repeated, expires or crashes;
* a receipt never claims more than happened and never stays open for ever;
* a schedule that the member paused is not turned on by a late callback, and a
  one-shot that was refused is not lost;
* an approval starts one operation, as it was approved, and every wait ends;
* a summary marked sent is stored with the total that the row has, on both hops;
* runtime material asked for before a sign-out is not cached after it;
* a document is posted for indexing at most once per generation, is served only when
  it is indexed, and is called deleted only when LightRAG holds nothing of it;
* no session of the host is lost, an abort stops the prompt it finds, a context reset
  never rewinds under a running prompt, and no calls wait for each other for ever;
* no row is left claimed by nobody; uploads repeated or late count nothing twice.

## 2. Modules

| Module | Models | Extended by |
|---|---|---|
| `PromptOnce` | abstract promise of a receipt | refined by `ScheduledPrompt` |
| `ScheduledPrompt` | schedule tick, receipts, runs, restart | `MCScheduledPrompt`, `ScheduledPromptProofs` |
| `ApprovalGate` | approval records, calls, batches, timers | `MCApprovalGate`, `ApprovalGateProofs` |
| `UsageOutbox` | Agent outbox, flushes, the Manager's upsert | `MCUsageOutbox`, `UsageOutboxProofs` |
| `UsageDelivery` | Manager delivery rows, workers, the Operator's upsert | `MCUsageDelivery`, `UsageDeliveryProofs` |
| `RuntimeLeaseCache` | the cache, its loads, `ensureRuntimeModel` | `MCRuntimeLeaseCache`, `RuntimeLeaseProofs` |
| `KnowledgeIntake` | ingestion and deletion of a document, LightRAG as seen by the Manager | `MCKnowledgeIntake`, `KnowledgeIntakeProofs` |
| `SessionHost` | the session record of a participant and the calls that share it | `MCSessionHost`, `SessionHostProofs` |

Definitions named `Mut_…` are faulty variants of the definition that follows them.
No specification uses them; they show that a property notices the fault.

### ScheduledPrompt

One private conversation.  `receipt` is the `idempotency_receipt` table, `sched`,
`gen` and `retry` are the conversation's schedule row, its generation and the
`schedule_retry` row.  `tick` is the copy that `ScheduleService.tick` works on: it
is taken in `TickStart` and used in a later step (`TickLaunch`, `TickRefused`,
`TickOverlap`, …), because the loop awaits the launches of other conversations in
between.  In the code only promise callbacks, such as those of a run that ended, can
come between, since a launch awaits no I/O; the model lets every other step in, so it
has more behaviours than the code.  The other conversations appear only there, and in
`TickEnd`, where any of them may hold back the watermark.  `run` holds the prompts in flight: they are
queued, prepare, execute and close; `CallbackMarks` and `CallbackReleases` are the
promise callbacks.  Every interleaving at an `await` is allowed.

Left out: the calendar (a schedule is an instant and an interval; `Occurrence` is
`occurrenceBetween` on those), the automation task guard in front of the schedule,
groups.  It is assumed that Pi reports an authorization failure of a session that
already executes by resolving with an outcome, as the host's code expects.

### ApprovalGate

One conversation with the tool calls of several runs.  `rec` is the
`approval_record` table, `call` where each invocation of `execute` stands.  A call
that was resolved is `woken` until its microtask re-reads the row (`Continue`), so
denials, cancellations and expiry may come between.  A timer may fire up to `Early`
before the row's expiry, which the wall clock permits.  `decision_revision` is left
out: a stale one is refused by the revision or by the status, and a refusal is a
`List` step.

### UsageOutbox

The outbox of one member.  A total stands for all counters of a payload, a claim
token is the flush that drew it, `attempts` and `last_error` are left out, and the
backoff is an arbitrary delay.  `born` orders rows as `created_at` does.  The
Manager is in one of five moods (healthy, down, denying, revoking, old) and may
change at any time.  A request whose flush timed out may be handled later (`late`).

### UsageDelivery

The delivery rows of one tenant.  Every step is one transaction or one request.
The poller runs in a thread; the hint runs inside the handler of an upload, which
blocks the event loop, so no other upload is handled meanwhile.  A lease may lapse
at any time (a suspended machine, eight slow requests in one sweep).  `SKIP LOCKED`
leaves open which due rows a limited claim takes.  The Operator handles one request
at a time and does not read the idempotency key.  `calm` is the environment: once
set, nothing times out, crashes or goes down any more.  The change of a tenant to
another enterprise is left out: the mapping is known or not.

### RuntimeLeaseCache

The keys of one member.  `cache` holds the three Maps; its methods are operators
from one state of it to the next (`Got`, `Put`, `Cleared`, `OwnerCleared`), so that
an action composes them in the order of the code.  The order of the Map, which
decides what `evict` removes, is a set of pairs.  `op` is the promise of a load,
named after the call that started it: that call resumes first (`ResumeOwn`), those
that joined it afterwards (`ResumeJoined`).  Both end in the checks of
`ensureRuntimeModel`, which may clear again.  `Forces` lets calls do without
`forceRefresh`, which the class allows and `ensureRuntimeModel` does not use.
`epoch` (history) counts how often a key was to be cleared, also when `clearOwner`
does not find it.  An entry keeps, beside its expiry, the start of the load that put it
(`at`, the code's `loadedAt`), from which `InBounds` counts the TTL.  When a refresh
fails, that start is the failed refresh's own (see 5).  Left out: members other than one, and a wall clock that is set
back while the monotonic clock goes on.

### KnowledgeIntake

One document.  `jobs` are its generations, `doc`, `grants` and `receipts` the rows of
the document, of its bindings (one status for all employees) and of its delete
operations.  A worker is a run of `KnowledgeIntakeRecovery.process`, whether from the
background hint of a request or from the poller: it claims, parses, fences, posts,
records the track, probes, and publishes or settles, each in a transaction or a call
of its own, and a lease may lapse between any two.  A request is a delete or a
reconcile-delete; it reads the document, writes its receipt, takes the document to
`deleting`, revokes the bindings, asks LightRAG, probes and finishes in as many steps.
LightRAG (external) is modelled from how the client reads its answers: a post is in
flight, arrives or is lost, is indexed or fails, and a deletion it has agreed to
(`doomed`) happens later; the Manager may get no answer in every case.

`crossed` is a history variable for one race.  `delete_document` checks that the
outcome of the document is known when it reads it, and its later transition to
`deleting` checks the status only.  Between the two a reindex can be accepted, posted
and lost, and end as `failed` with an unknown outcome.  `crossed` is set when a request
that read a known outcome takes a document whose outcome is unknown by then.  The deletion then goes through
while a post is still under way, and the settlement of that job
(`knowledge_intake_repository.py:411`) overwrites the document's row.  The three
deletion properties are stated for behaviours without that race, and are violated
with it.  `PROJECT.json` lists it as a hazard.

Left out: the administrator's binding policy, the backfill for a new employee, the
rows from before a generation had its own file source, LightRAG's duplicate markers,
lists and analytics.

### SessionHost

The record of one participant, and the public calls that share it, as tasks of one
event loop.  A task runs up to its next `await`.  If it awaits I/O, it goes on at any
later moment; if it awaits a promise another task settles (`contextOperation`,
`sessionReady`, `promptPromise`, the disposal), it goes on in the microtasks that
follow, before any I/O, in the order of the awaits (`waiting` has the queue of every
promise, `micro` the microtasks).  That order matters: a prompt
looks at `contextOperation` once, and what it finds when it resumes depends on who
was resumed before it.  How many microtask turns an `await` of a settled promise takes
is abstracted: a task that goes on does so at the head of the queue (`GoOn`).  The
properties of `session` hold as well when it goes on at the end of the queue instead
(checked once, with `RecordInv` in place of `HostInv`).

`disposeSession` and `ensureSession` are operators that every call goes through, as in
the code: a disposal under way is joined, a session is built unless one is there, and
one that was built for other capabilities is disposed while the record is idle.
`live` is the set of sessions built and not disposed, and `aborted` (history) the
prompts that `abort` or `delete` found begun and without a session to run on yet, each
until its state is cleared (a prompt begins once).
Merged into one step: the awaits of `ensureSession` between its look at the record and
the built session (`Built`), and the removal of the runtime key between the two
assignments at the end of `disposeSession` (`Flushed`).

Left out: groups with several records and changes of members, the transcript's
entries, event subscribers, the registration of the model's provider at the end of
`ensureSession`, `abortAll` and `dispose` of the whole host at shutdown, and a loader
whose shutdown fails.

## 3. Runs

States are distinct states.  The inductive invariants (`PromptInv`, `GateInv`,
`OutboxInv`, `DeliveryInv`, `LeaseInv`, `IntakeInv`, `HostInv`) contain their module's
`TypeOK`.

| Run | Bounds | Shows |
|---|---|---|
| `prompt` (1,873,612) | a client's key and a schedule that is one-shot, paused, edited or recurring, 2 owners, lease 1, clock to 2, 5 generations | a schedule edited, paused, launched, refused, released and retried beside a client's prompt, with crashes: `AtMostOnce`, `EnabledAsWanted`, `ReleasedOneShotKept`, `LaunchIsCurrent`, `ImplementsPromptOnce`, `PromptInv` |
| `approval` (312,187) | 3 calls, 2 records in one batch, time to live 2, clock to 3 | `SingleUse`, `StartedReported`, `StartsAsApproved`, `SettledForever`, `GateInv`, and every wait ends (`WaitEnds`) |
| `approval_replay` | 2 calls | violates `ReplayIsSafe`, see 5 |
| `usage` (80,470) | a usage row and an outcome row, 2 flushes, 2 writes, a late request | `SendingIsHeld`, `SentWasStored`, `NeverOverCounted`, `OutboxInv`, and the outbox drains (`Drained`) |
| `usage_reorder` | 2 flushes, one row | violates `NewestIsKept`, see 5 |
| `delivery_overlap` (600,537) | 2 summaries, poller and hint, 2 attempts, 2 uploads, a late request | `SentWasDelivered`, `DeliveryInv`, `EverySettles` |
| `lease` (4,328,120) | 2 keys, one entry, 2 calls, clock to 2, TTL 2, token to 3, values that last 1 or have no end, 2 clearings | `NoRefill`, `SingleFlight`, `OwnIsCurrent`, `InBounds`, `LeaseInv` |
| `intake` (34,005) | 2 workers, 2 generations, 2 attempts, a crash | `NeverReposted`, `ReadyIsIndexed`, `StaleIsHidden`; every ingestion ends (`IngestionEnds`) and an unknown outcome is resolved (`UnknownIsResolved`) |
| `deletion` (4,075,378) | 2 workers, 2 requests, one key, 2 generations | `DeletedIsGone`, `CompletedIsDeleted`, `DeletedStays`, and `IntakeInv` for ingestion and deletion together |
| `deletion_stuck` | 2 requests with 2 keys, one worker, one generation | violates `DeletingEnds`, see 5 |
| `session` (2,420,409) | 2 prompts, and one poll, level, reset, abort and deletion | `NoLeak`, `AbortReaches`, `ResetIsIdle`, `NeverStuck`, `HostInv`, `AbortedNeverRuns` |
| `session_dispose` | 2 prompts | violates `RunIsLive`, see 5 |

Deadlock is checked except for `KnowledgeIntake` and `SessionHost`: a document that is
indexed or deleted may be left alone, and the calls of a session end.  That no call of
a session is left waiting is the invariant `NeverStuck`.

Why the bounds are enough to be interesting.  Two owners are a run and the one that
competes with it or follows it; clock 2 with lease 1 lets a lease expire while its run
executes; five generations let a one-shot be written, launched, released, edited and
launched again, which is what a stale retry marker takes.  Two records in a batch with a third call are a sibling and a repeated call.
Two flushes or workers and one late request give every order of two uploads; two
attempts are a first and a last one.  Two clearings with two calls are a load that was
cleared and its successor, cleared in turn; the clock, the TTL, the token and the
lifetimes are chosen so that each of the three bounds on an entry decides some expiry
alone.  Two generations of a document are the
one that was published or failed and the one that replaces it; two workers are the
holder of a lapsed lease and its successor.  A prompt that waits, one that runs and
one call of every other kind reach every await of the session host with another call
in the middle of it.

Larger instances, checked once: `prompt` with a schedule that recurs twice and two
prompt texts (5.8 million states), `usage` with 3 writes (2.6 million), `lease` with
values that last 1, 2 or have no end (14.2 million), `intake` with 3 generations (safety
only, 284,673), `deletion` with 2 keys (53.1 million), with a crash (its invariants,
8.2 million) and with one worker, 2 keys and a crash (8.6 million), `session` with 2
polls (22.4 million), with 3 prompts (45.1 million), with 2 levels, 2 resets and no
deletion (7.9 million), and with 3 prompts, a poll, a reset and 2 aborts (2.3 million).
All pass.

What the bounds leave out: `approval` has the requests of one run, so that an abort of
one run which invalidates the requests of another without waking their calls is covered
by the proofs (safety) but by no liveness run.  `SYMMETRY` is used on owners, keys,
calls, flushes, workers, requests and prompts, in runs without liveness only.

Fairness.  `approval`: the clock, timers and continuations of a resolved call (the
Node event loop).  `usage`: the drain interval, the handling of each request or its
answer, the retry of the outcome endpoint after its pause.  `delivery_overlap`: the
poller's interval, each step of a worker, the handling of its request, the end of a
backoff and of a lease.  `intake`: the poller of the Manager's lifespan, which sweeps
every five seconds, each step of a worker, the end of a lease, that LightRAG finishes
what it has, and that again and again some claim lasts long enough for the next step
and some probe is answered (a lease is 90 seconds, and the code has no other way to
learn an outcome).  `deletion_stuck` adds `Polling`:
LightRAG carries out the deletions it agreed to, its listing is answered again and
again and proves absence when nothing is present, requests go on, and the console
repeats reconcile-delete every two seconds with a fresh key while a document is
`deleting` (`DocumentsPanel.tsx`).  No fairness is assumed of users, restarts,
time-outs, uploads, lost posts or outages.

## 4. Proofs

TLAPS proves, for every value of the constants that satisfies the assumptions named
in the modules (the bounds are naturals, "none" values are not members of the sets they
stand beside, the kinds of calls of a session are disjoint):

* `ScheduledPromptProofs`: `Invariance` (`PromptInv`), `TypeCorrect`,
  `RunsAtMostOnce`, `ReceiptsHonest`, `NeverTurnedOnAgain`, `ReleasedIsKept`
  (`ReleasedOneShotKept`), `LaunchesCurrent` (`LaunchIsCurrent`), `SettledForGood`, and
  `Refinement` (`Spec => Abstract!Spec`).  `AtMostOnce` alone is not inductive.  A
  live run must own its receipt (`RunsReserved`), one that prepares must not have
  started (`NotStartedYet`), and a started key must keep a receipt
  (`StartedReserved`), so that nothing reserves the key again.  For
  `EnabledAsWanted`, a run that may still release its one-shot has a generation the
  member saw switched on (`LaunchedAsWanted`).  For the two about one-shots the
  generation is what counts (`ScheduleInv`): every copy of the schedule and every
  retry marker that bears the row's generation is about the row's schedule and
  instant, wherever it is kept (row, memory, a tick under way), and a tick that
  read before the release read no marker that it would drop the new one for.
* `ApprovalGateProofs`: `GateInvariance`, `ConsumedOnce`, `NeverDenied`,
  `OnlyAsApproved`, `SettledGood`.  The strengthening says that a claimable record
  is not vetoed and was granted, and that a waiting call has a record of its own
  binding.  Most actions only move records and calls forward (lemma `Evolve`).
* `UsageOutboxProofs`: `OutboxInvariance`, `SentMeansStored`, `NoOrphanedRow`,
  `NeverCountedTwice`, `RejectedIsFinal`.  The argument: what changes a row's total
  also takes its token, so the holder's answer is about the row's own total.
* `UsageDeliveryProofs`: `DeliveryInvariance`, `SentMeansDelivered`,
  `GivesUpAtBound`, `FinalIsFinal`, by the same argument with leases: a worker
  whose lease was taken over no longer holds the row (`HeldIsCurrent`).
* `RuntimeLeaseProofs`: `LeaseInvariance` (`LeaseInv`), `CacheIsNotRefilled`,
  `OneLoadPerGeneration`, `OwnValueIsCurrent`, `CacheInBounds` (`InBounds`).
  `NoRefill` needs that a load which is still awaited is of a past generation or is
  the one in `pending`; only then does `clearOwner`, which looks at the three Maps,
  find its key.  Every method of the cache does one of three things to a key
  (`Forward`), and these compose.  `InBounds` needs that the cached keys stay ordered
  by their insertion (`BoundInv`), and that a nonempty finite set of them has a first
  one to evict (`FirstExists`, from the well-foundedness of the strict subsets of a
  finite set, which takes the place of an induction).
* `KnowledgeIntakeProofs`: `PostedOnce` (`NeverReposted`) and `OpenIsHidden`
  (`StaleIsHidden`), for any number of workers, requests, generations, attempts and
  restarts.  `NeverReposted` alone is not inductive.  A generation that was
  not fenced must not have been posted, a worker about to post must be the only one and
  its generation fenced and not yet posted (`GenInv`, `WorkerInv`), and a document offered for a new
  generation must have settled its last one (`DocInv`).
* `KnowledgeDeletionProofs`: `IntakeInvariant` (`IntakeInv`), `ReadyIsServed`
  (`ReadyIsIndexed`), `DeletedHasGone` (`DeletedIsGone`), `CompletedHasDeleted`
  (`CompletedIsDeleted`) and `DeletedForGood` (`DeletedStays`).  Until a deletion is
  asked for, LightRAG keeps what a worker saw processed and is about to publish
  (`ServedInv`).  Without the race of `crossed` a document in deletion has no open
  generation, so no worker can post or settle under it; a reconciliation under way
  still finds it in deletion, and what its listing proved absent stays absent
  (`DeletionInv`).
* `SessionHostProofs`: `HostInvariant` (`HostInv`), `SessionsKept` (`NoLeak`),
  `AbortFinds` (`AbortReaches`), `ResetBetweenPrompts` (`ResetIsIdle`), `SomeCallCan`
  (`NeverStuck`), `OnePromptRuns` and `AbortHolds` (`AbortedNeverRuns`), for any number
  of calls of each kind.  None of the first five is inductive, and they need each
  other's arguments:
  - `RecordInv` ties `prompting`, `sessionReady` and `promptPromise` to the one active
    prompt.  Most steps leave the other calls and those fields alone (`QuietStep`).
  - `LoopInv`: a call is in one queue at most and once, and what it awaits fits where
    it stands.  Every turn does one of five things to the queues (`LoopStep`).
  - `LockInv`: one context operation is under way at a time; the next one is last in the
    queue of its predecessor, so it starts after every prompt that waits there.  Hence,
    when a prompt begins, no operation is past its first step (`BeginsAlone`).
  - `SessionInv`: one call at a time builds a session, and only when the record has
    none (`OneBuilder`); while an operation builds or rewinds no prompt is active.
    `NoLeak`, `AbortReaches` and `ResetIsIdle` follow.
  - `WaitInv`: what a call awaits is under way, and every nonempty set of operations
    has one that waits for none of the set.  A new operation waits for an older one and
    nobody waits for it yet, so this survives each request.  `NeverStuck` follows: the
    waits lead to a prompt that builds or runs, a disposal, or such an operation
    (`SomeCallGoesOn`).
  - `AbortInv`: a prompt in `aborted` is past its start and, as long as its session is
    to come, `aborting` is set.  Only the start and the end of a prompt clear the flag,
    and by `RecordInv` no other prompt is active meanwhile (`FlagStays`).  So the abort
    lasts until `Ready` looks at it, and `AbortHolds` follows.

In the five largest proof modules the leaves that Zenon proves name it.  The translation
for the SMT solver takes longer with every obligation of a module, and in a long one the
last leaves would run out of time; it is kept for arithmetic and sequences.

Proved and in no run of their own: `ReceiptsHonest`, `SettledForGood`,
`RejectedIsFinal`, `GivesUpAtBound`, `FinalIsFinal`, `OnePromptRuns`.

Only model-checked: the liveness properties (`WaitEnds`, `Drained`, `EverySettles`,
`IngestionEnds`, `UnknownIsResolved`), since liveness under fairness is out of the
prover's reach.  Every other property that a passing run checks has a theorem.  That
the calls of a session end, and not only that one of them can go on, would take
fairness as well.

## 5. Findings

* `approval_replay`: a denial that the client repeats ends the wait of a later call
  of the same batch, whose own request stays pending (`approval-service.ts:135`).
* `usage_reorder`: of two overlapping uploads the one handled last wins, even if it
  has the older total (`usage_audit_quota_repository.py:297`).  The Operator's upsert
  (`rollup_repository.py:147`) treats two deliveries of one summary the same way.
* `deletion_stuck`: of two delete requests that race, the loser's receipt can be the
  newest one; reconciliation then looks at it, refuses it as not retryable, and the
  document stays in `deleting` however often the console polls
  (`knowledge_intake_service.py:579`).  With a single request, under the same fairness,
  `DeletingEnds` holds (1,078 states).
* `session_dispose`: a prompt that has ended clears its state, captures files and then
  disposes the record's session, which by then may be that of the next prompt
  (`session-host.ts:1672`).

`PROJECT.json` quotes the comments and documents that say otherwise.

Observed while modelling and not stated as runs, some with a note among the hazards of
`PROJECT.json`:

* the abort of one run invalidates the requests of every run of the conversation and
  wakes only its own waiters (`approval-service.ts:238`);
* rows that the Manager refuses with an error that stays can fill the claim's limit
  before any younger row (`sqlite.ts:1606`);
* an outage longer than eight attempts, about ten minutes, leaves a total that is never
  delivered to the Operator (`usage_delivery_repository.py:493`);
* a call that joined a load of runtime material returns its value although the key was
  cleared before the Manager answered (`runtime-lease-cache.ts:120`);
* a failed refresh puts the cached value again with its own start as `loadedAt`, so that
  a value can be served longer than five minutes after it was fetched, up to its own and
  the token's expiry (`runtime-lease-cache.ts:148`); the comment at line 23 says that "A
  short loaded-at bound is always applied";
* the race of a deletion with a reindex (`crossed`, see `KnowledgeIntake`), and two
  reconciliations of one receipt, of which the loser may overwrite a completed receipt
  with a conflict (`knowledge_intake_service.py:845`);
* a restart between the transition to `deleting` and the revocation of the bindings
  leaves these as they are (`knowledge_intake_service.py:584`), and an employee who joins
  a space while a document is published gets no binding from that publication
  (`knowledge_intake_recovery.py:90`);
* a prompt that waits for a context operation forgets an abort that comes meanwhile
  (`session-host.ts:1530`), and one that begins while `delete` waits for the disposal
  runs on after the conversation is gone (`session-host.ts:807`).

## 6. Not modelled

The project covers a small share of the repository: most of its lines are user
interface, request validation, and create, read, update and delete over SQL, in which
nothing interleaves.  The parts below have a state machine of their own and could be
added in the same way:

1. a composition of `UsageOutbox` and `UsageDelivery`: a total from the member's
   machine to the Operator, with an abstract ledger both hops refine;
2. in the Agent: work records and automation tasks, read cursors, the delivery of
   messages between the participants of a group, and the ordering of the event stream;
3. in the Manager: memory leases and recruiting orders;
4. in the Operator: relay tokens and onboarding receipts;
5. in the desktop client: the send queue and the life cycle of a stream.

Left to other means: cryptography and key material (out of a model checker's reach),
the file system work of workspaces, the web front ends and the office map editor
(their state is the rendering of what the services hold).
