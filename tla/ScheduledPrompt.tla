-------------------------- MODULE ScheduledPrompt --------------------------
(***************************************************************************)
(* Prompt receipts and one conversation's schedule in the Agent service.   *)
(*                                                                         *)
(* A prompt, sent by a client over HTTP or launched by the ScheduleService *)
(* timer, is first reserved as a row of idempotency_receipt, then run by   *)
(* the SessionHost, and its promise callback finally settles the row.  The *)
(* receipts, the schedule and the retry marker are SQLite rows and survive *)
(* a crash; runs, the in-memory retry, the tick in progress and the signed *)
(* in identity do not.                                                     *)
(*                                                                         *)
(* One private conversation is modelled.  The others only matter to it by  *)
(* what they do to the tick: it awaits their launches between reading the  *)
(* conversations and handling this one, and any of them may hold back the  *)
(* watermark.                                                              *)
(***************************************************************************)
EXTENDS Integers

CONSTANTS
    HttpKeys,     \* Idempotency-Key headers clients send
    ScheduleIds,
    Prompts,      \* prompt texts; the request fingerprint tells them apart
    Schedules,    \* the schedules a user may write
    Owners,       \* the UUIDs reservePrompt draws (owner_instance)
    LeaseTime,    \* DEFAULT_LEASE_MS
    MaxTime,      \* bound on the clock
    MaxGen,       \* bound on schedule_generation
    None

Time == 0 .. MaxTime
Schedule == [id : ScheduleIds, rev : Nat \ {0}, enabled : BOOLEAN,
             at : Nat, interval : Nat, prompt : Prompts]

ASSUME BoundsAssumption == MaxTime \in Nat /\ MaxGen \in Nat /\ LeaseTime \in Nat \ {0}
ASSUME SchedulesAssumption == Schedules \subseteq Schedule
ASSUME NoneAssumption == None \notin Schedule /\ None \notin Owners /\ None \notin Prompts

\* The key of a scheduled prompt is a hash of schedule id, occurrence and conversation.
OccurrenceKey(id, occ) == <<id, occ>>
Keys == HttpKeys \cup (ScheduleIds \X Time)

VARIABLES
    now,        \* wall clock
    lastTick,   \* ScheduleService.lastTick, the watermark
    tick,       \* the tick in progress: its times and its copy of the row
    conv,       \* "live" or "deleted"
    sched,      \* conversation.schedule_json, None when NULL
    gen,        \* conversation.schedule_generation
    retry,      \* the schedule_retry row
    memRetry,   \* ScheduleService.retryableOccurrences
    receipt,    \* idempotency_receipt
    run,        \* prompts in flight, by the owner they reserved with
    auth,       \* ExecutionAuthorizationRegistry resolves the member
    started,    \* history: how often a Pi session ran the prompt of a key
    wanted,     \* history: the enabled flag the user wrote last
    relGen      \* history: the generation the last release wrote, else 0

store == <<conv, sched, gen, retry, receipt>>
history == <<started, wanted, relGen>>
vars == <<now, lastTick, tick, conv, sched, gen, retry, memRetry, receipt,
          run, auth, started, wanted, relGen>>

OneShot(s) == s.interval = 0

NoReceipt == [state |-> "none", prompt |-> None, owner |-> None, lease |-> 0]
Receipt == [state : {"none", "accepted", "completed", "unknown"},
            prompt : Prompts \cup {None}, owner : Owners \cup {None}, lease : Nat]

\* A run is "queued" from host.prompt() on, "preparing" while the host builds the
\* session, "executing" while Pi runs it and "closing" until its callback ran.
Idle(phase) == [phase |-> phase, key |-> None, sched |-> None, gen |-> 0, outcome |-> None]
Run == [phase : {"fresh", "queued", "preparing", "executing", "closing", "over"},
        key : Keys \cup {None}, sched : Schedule \cup {None}, gen : Nat,
        outcome : {"proven", "failed", "unauthorized", None}]
Retry == [id : ScheduleIds, rev : Nat \ {0}, gen : Nat, occ : Time]
ASSUME NoMarkerAssumption == None \notin Retry
Tick == [prev : Time, at : Time, sched : Schedule \cup {None}, gen : Nat,
         retry : Retry \cup {None}]

TypeOK ==
    /\ now \in Time /\ lastTick \in Time
    /\ tick \in Tick \cup {None}
    /\ conv \in {"live", "deleted"}
    /\ sched \in Schedule \cup {None}
    /\ gen \in Nat
    /\ retry \in Retry \cup {None}
    /\ memRetry \in Retry \cup {None}
    /\ receipt \in [Keys -> Receipt]
    /\ run \in [Owners -> Run]
    /\ auth \in BOOLEAN
    /\ started \in [Keys -> Nat]
    /\ wanted \in BOOLEAN
    /\ relGen \in Nat

Init ==
    /\ now = 0 /\ lastTick = 0 /\ tick = None
    /\ conv = "live" /\ sched = None /\ gen = 0 /\ retry = None /\ memRetry = None
    /\ receipt = [k \in Keys |-> NoReceipt]
    /\ run = [o \in Owners |-> Idle("fresh")]
    /\ auth = TRUE
    /\ started = [k \in Keys |-> 0]
    /\ wanted = FALSE /\ relGen = 0

-----------------------------------------------------------------------------
(* Receipts: AgentSqliteStore *)

Expired(r) == r.state = "accepted" /\ r.lease <= now
GaveUp(r) == [r EXCEPT !.state = "unknown", !.lease = 0]
Accepted(p, o) == [state |-> "accepted", prompt |-> p, owner |-> o, lease |-> now + LeaseTime]

\* reservePrompt on a key that has a receipt never runs it again: it answers with
\* the receipt or with an error, and an expired acceptance becomes unknown.
Mut_ReplayExpired(k) == receipt[k].state = "none" \/ Expired(receipt[k])
Reservable(k) == receipt[k].state = "none"
ReserveExisting(k, p) ==
    IF receipt[k].prompt = p /\ Expired(receipt[k])
    THEN [receipt EXCEPT ![k] = GaveUp(@)]
    ELSE receipt

\* markCompleted and markUnknown change only an acceptance held by the same owner.
Holds(k, o) == receipt[k].state = "accepted" /\ receipt[k].owner = o
MarkCompleted(k, o) ==
    IF Holds(k, o) THEN [receipt EXCEPT ![k].state = "completed", ![k].lease = 0] ELSE receipt
MarkUnknown(k, o) ==
    IF Holds(k, o) THEN [receipt EXCEPT ![k] = GaveUp(@)] ELSE receipt

-----------------------------------------------------------------------------
(* Clients *)

Enqueue(o, k, s, g) ==
    run' = [run EXCEPT ![o] = [phase |-> "queued", key |-> k, sched |-> s,
                               gen |-> g, outcome |-> None]]

\* POST prompt.  The owner of the conversation is checked before the body is read
\* and not again, so the conversation may be gone.
HttpPrompt(k, p, o) ==
    /\ run[o].phase = "fresh"
    /\ Reservable(k)
    /\ receipt' = [receipt EXCEPT ![k] = Accepted(p, o)]
    /\ Enqueue(o, k, None, 0)
    /\ UNCHANGED <<now, lastTick, tick, conv, sched, gen, retry, memRetry, auth, history>>

\* The same, when an attachment turns out to be unusable after the reservation.
HttpPromptRejected(k, p, o) ==
    /\ run[o].phase = "fresh"
    /\ Reservable(k)
    /\ receipt' = [receipt EXCEPT ![k] = GaveUp(Accepted(p, o))]
    /\ run' = [run EXCEPT ![o] = Idle("over")]
    /\ UNCHANGED <<now, lastTick, tick, conv, sched, gen, retry, memRetry, auth, history>>

\* A client repeats the request, or reads the receipt (normalizeReceiptOnRead).
ObserveReceipt(k) ==
    /\ Expired(receipt[k])
    /\ receipt' = [receipt EXCEPT ![k] = GaveUp(@)]
    /\ UNCHANGED <<now, lastTick, tick, conv, sched, gen, retry, memRetry, run, auth, history>>

\* PATCH schedule: saveConversation, then clearScheduleRetry.
WriteSchedule(s) ==
    /\ conv = "live" /\ gen < MaxGen
    /\ sched' = s
    /\ gen' = gen + 1
    /\ wanted' = (s # None /\ s.enabled)

UserSchedule(s) ==
    /\ WriteSchedule(s)
    /\ retry' = None
    /\ UNCHANGED <<now, lastTick, tick, conv, memRetry, receipt, run, auth, started, relGen>>

DeleteConversation ==
    /\ conv = "live"
    /\ conv' = "deleted" /\ sched' = None /\ retry' = None
    /\ receipt' = [k \in Keys |-> NoReceipt]
    /\ wanted' = FALSE
    /\ UNCHANGED <<now, lastTick, tick, gen, memRetry, run, auth, started, relGen>>

\* A token is registered by a request, or expires, or is invalidated.
AuthChange ==
    /\ auth' = ~auth
    /\ UNCHANGED <<now, lastTick, tick, store, memRetry, run, history>>

Advance ==
    /\ now < MaxTime
    /\ now' = now + 1
    /\ UNCHANGED <<lastTick, tick, store, memRetry, run, auth, history>>

-----------------------------------------------------------------------------
(* ScheduleService.tick *)

\* The latest occurrence in (prev, at], if any.
Occurrence(s, prev, at) ==
    LET last == IF OneShot(s) THEN s.at ELSE s.at + ((at - s.at) \div s.interval) * s.interval
    IN  IF s.at <= at /\ last > prev THEN last ELSE None

\* isPrompting
Busy == \E o \in Owners : run[o].phase \in {"preparing", "executing"}

\* Whether a retry, in memory or stored, is of the schedule the tick looks at.
Mut_ForSchedule(r, s, g) == r # None /\ r.id = s.id /\ r.rev = s.rev
ForSchedule(r, s, g) == r # None /\ r.id = s.id /\ r.rev = s.rev /\ r.gen = g

MemMatches == ForSchedule(memRetry, tick.sched, tick.gen)
StoredMatches == ForSchedule(tick.retry, tick.sched, tick.gen)
Due == IF MemMatches THEN memRetry.occ
       ELSE IF StoredMatches THEN tick.retry.occ
       ELSE Occurrence(tick.sched, tick.prev, tick.at)

TickStart ==
    /\ tick = None /\ now > lastTick
    /\ tick' = [prev |-> lastTick, at |-> now, sched |-> sched, gen |-> gen, retry |-> retry]
    /\ UNCHANGED <<now, lastTick, store, memRetry, run, auth, history>>

\* The watermark moves to the time of the tick unless this or another conversation
\* waits for its member to sign in.
TickEnd(blocked) ==
    /\ tick' = None
    /\ lastTick' \in (IF blocked THEN {lastTick} ELSE {lastTick, tick.at})
    /\ UNCHANGED <<now, conv, auth, history>>

DropStaleRetries ==
    /\ memRetry' = IF MemMatches THEN memRetry ELSE None
    /\ retry' = IF tick.retry # None /\ ~StoredMatches THEN None ELSE retry

TickUnscheduled ==
    /\ tick # None /\ tick.sched = None
    /\ TickEnd(FALSE)
    /\ UNCHANGED <<sched, gen, retry, memRetry, receipt, run>>

TickDisabled ==
    /\ tick # None /\ tick.sched # None /\ ~tick.sched.enabled
    /\ memRetry' = None
    /\ retry' = IF tick.retry # None THEN None ELSE retry
    /\ TickEnd(FALSE)
    /\ UNCHANGED <<sched, gen, receipt, run>>

TickEnabled == tick # None /\ tick.sched # None /\ tick.sched.enabled

TickNothingDue ==
    /\ TickEnabled /\ Due = None
    /\ DropStaleRetries
    /\ TickEnd(FALSE)
    /\ UNCHANGED <<sched, gen, receipt, run>>

\* overlap: "skip"
TickOverlap ==
    /\ TickEnabled /\ Due # None /\ Busy
    /\ DropStaleRetries
    /\ TickEnd(FALSE)
    /\ UNCHANGED <<sched, gen, receipt, run>>

TickUnauthorized ==
    /\ TickEnabled /\ Due # None /\ ~Busy /\ ~auth
    /\ DropStaleRetries
    /\ TickEnd(TRUE)
    /\ UNCHANGED <<sched, gen, receipt, run>>

TickDue == TickEnabled /\ Due # None /\ ~Busy /\ auth
DueKey == OccurrenceKey(tick.sched.id, Due)

\* The check reservePrompt makes against the row as it is now, not as the tick read it.
ScheduleCurrent(s, g) ==
    /\ sched # None /\ sched.id = s.id /\ sched.rev = s.rev /\ sched.enabled
    /\ gen = g

\* The occurrence has a receipt, or the schedule changed since the tick read it.
TickRefused ==
    /\ TickDue
    /\ ~Reservable(DueKey) \/ ~ScheduleCurrent(tick.sched, tick.gen)
    /\ receipt' = ReserveExisting(DueKey, tick.sched.prompt)
    /\ memRetry' = None
    /\ retry' = IF tick.retry # None /\ ~StoredMatches THEN None ELSE retry
    /\ TickEnd(FALSE)
    /\ UNCHANGED <<sched, gen, run>>

\* reservePrompt, in one transaction: the receipt, a one-shot switched off, the
\* retry marker gone.  Then host.prompt, not awaited.
TickLaunch(o) ==
    /\ TickDue
    /\ run[o].phase = "fresh"
    /\ Reservable(DueKey) /\ ScheduleCurrent(tick.sched, tick.gen)
    /\ receipt' = [receipt EXCEPT ![DueKey] = Accepted(tick.sched.prompt, o)]
    /\ IF OneShot(tick.sched)
       THEN /\ gen < MaxGen
            /\ sched' = [sched EXCEPT !.enabled = FALSE]
            /\ gen' = gen + 1
       ELSE UNCHANGED <<sched, gen>>
    /\ retry' = None
    /\ memRetry' = None
    /\ Enqueue(o, DueKey, tick.sched, IF OneShot(tick.sched) THEN tick.gen + 1 ELSE 0)
    /\ TickEnd(FALSE)

-----------------------------------------------------------------------------
(* SessionHost: promptParticipant *)

Live(o) == run[o].phase \in {"queued", "preparing", "executing", "closing"}
Close(o, outcome) ==
    run' = [run EXCEPT ![o].phase = "closing", ![o].outcome = outcome]
HostOnly == UNCHANGED <<now, lastTick, tick, store, memRetry, auth, wanted, relGen>>

Begin(o) ==
    /\ run[o].phase = "queued" /\ conv = "live" /\ ~Busy
    /\ run' = [run EXCEPT ![o].phase = "preparing"]
    /\ HostOnly /\ UNCHANGED started

\* The conversation is gone, ConversationBusyError, or any other early error.
BeginFails(o) ==
    /\ run[o].phase = "queued"
    /\ Close(o, "failed")
    /\ HostOnly /\ UNCHANGED started

\* PreExecutionAuthorizationError: the employee is no longer authorized, or Manager
\* denied the material of a session that does not exist yet.
Mut_RefusedWhileRunning(o) == run[o].phase \in {"preparing", "executing"}
BeforeExecution(o) == run[o].phase = "preparing" \/ (run[o].phase = "queued" /\ conv = "live")
Unauthorized(o) ==
    /\ BeforeExecution(o)
    /\ Close(o, "unauthorized")
    /\ HostOnly /\ UNCHANGED started

Execute(o) ==
    /\ run[o].phase = "preparing"
    /\ run' = [run EXCEPT ![o].phase = "executing"]
    /\ started' = [started EXCEPT ![run[o].key] = @ + 1]
    /\ HostOnly

\* The run is over for the host; artifacts are still being captured.  An abort, a
\* model error or a session that never opened leaves no proven terminal entry.
Settle(o) ==
    /\ \/ run[o].phase = "executing" /\ \E outcome \in {"proven", "failed"} : Close(o, outcome)
       \/ run[o].phase = "preparing" /\ Close(o, "failed")
    /\ HostOnly /\ UNCHANGED started

Heartbeat(o) ==
    /\ Live(o) /\ Holds(run[o].key, o)
    /\ receipt' = [receipt EXCEPT ![run[o].key].lease = now + LeaseTime]
    /\ UNCHANGED <<now, lastTick, tick, conv, sched, gen, retry, memRetry, run, auth, history>>

-----------------------------------------------------------------------------
(* The callbacks of the prompt promise *)

Finish(o) == run' = [run EXCEPT ![o] = Idle("over")]

Releasable(o) ==
    /\ run[o].outcome = "unauthorized"
    /\ run[o].sched # None /\ OneShot(run[o].sched)

\* host.prompt resolved with an entry id
Proven(o) == run[o].outcome = "proven"

CallbackMarks(o) ==
    /\ run[o].phase = "closing"
    /\ ~(Releasable(o) /\ Holds(run[o].key, o))
    /\ receipt' = IF Proven(o) THEN MarkCompleted(run[o].key, o) ELSE MarkUnknown(run[o].key, o)
    /\ Finish(o)
    /\ UNCHANGED <<now, lastTick, tick, conv, sched, gen, retry, memRetry, auth, history>>

\* "A callback from an old prompt cannot turn a replaced or cleared schedule back on"
Mut_ReleaseMatches(o) == sched # None /\ sched.id = run[o].sched.id /\ sched.rev = run[o].sched.rev
ReleaseMatches(o) ==
    /\ sched # None /\ sched.id = run[o].sched.id /\ sched.rev = run[o].sched.rev
    /\ gen = run[o].gen

Mut_ReleasedRetry(o) ==
    [id |-> run[o].sched.id, rev |-> run[o].sched.rev, gen |-> run[o].gen, occ |-> run[o].key[2]]
ReleasedRetry(o) ==
    [id |-> run[o].sched.id, rev |-> run[o].sched.rev, gen |-> run[o].gen + 1, occ |-> run[o].key[2]]

\* releasePreExecutionPrompt, in one transaction: the receipt is deleted and, when
\* the schedule is still the one that was launched, it is switched on again.
CallbackReleases(o) ==
    /\ run[o].phase = "closing"
    /\ Releasable(o) /\ Holds(run[o].key, o)
    /\ receipt' = [receipt EXCEPT ![run[o].key] = NoReceipt]
    /\ IF ReleaseMatches(o)
       THEN /\ gen < MaxGen
            /\ sched' = [sched EXCEPT !.enabled = TRUE]
            /\ gen' = gen + 1
            /\ retry' = ReleasedRetry(o)
            /\ memRetry' = [ReleasedRetry(o) EXCEPT !.gen = gen + 1]
            /\ relGen' = gen + 1
       ELSE UNCHANGED <<sched, gen, retry, memRetry, relGen>>
    /\ Finish(o)
    /\ UNCHANGED <<now, lastTick, tick, conv, auth, started, wanted>>

-----------------------------------------------------------------------------
(* Crash and restart: the AgentSqliteStore constructor and ScheduleService.start *)

\* Every reservation draws its own owner_instance, so none equals that of the new
\* process and every acceptance becomes unknown.
Recovered(r) == IF r.state = "accepted" THEN GaveUp(r) ELSE r
NewProcess ==
    /\ receipt' = [k \in Keys |-> Recovered(receipt[k])]
    /\ run' = [o \in Owners |-> IF Live(o) THEN Idle("over") ELSE run[o]]
    /\ tick' = None /\ memRetry' = None /\ auth' = FALSE
    /\ lastTick' = now
    /\ UNCHANGED <<now, conv, started, relGen>>

Restart ==
    /\ NewProcess
    /\ UNCHANGED <<sched, gen, retry, wanted>>

\* updateConversation is two statements: the process may die between them and leave
\* the retry marker of the replaced schedule behind.
RestartDuringWrite(s) ==
    /\ WriteSchedule(s)
    /\ NewProcess
    /\ UNCHANGED retry

ClientNext ==
    \/ \E k \in HttpKeys, p \in Prompts, o \in Owners : HttpPrompt(k, p, o) \/ HttpPromptRejected(k, p, o)
    \/ \E k \in Keys : ObserveReceipt(k)
    \/ \E s \in Schedules \cup {None} : UserSchedule(s)
    \/ DeleteConversation
    \/ AuthChange
TickNext ==
    \/ TickStart \/ TickUnscheduled \/ TickDisabled \/ TickNothingDue \/ TickOverlap
    \/ TickUnauthorized \/ TickRefused
    \/ \E o \in Owners : TickLaunch(o)
HostNext ==
    \E o \in Owners :
        \/ Begin(o) \/ BeginFails(o) \/ Unauthorized(o) \/ Execute(o) \/ Settle(o)
        \/ Heartbeat(o) \/ CallbackMarks(o) \/ CallbackReleases(o)
CrashNext == Restart \/ \E s \in Schedules \cup {None} : RestartDuringWrite(s)

Next == ClientNext \/ TickNext \/ HostNext \/ CrashNext \/ Advance
Spec == Init /\ [][Next]_vars

-----------------------------------------------------------------------------
(* Properties *)

\* A prompt is run by Pi at most once per key, whatever the client repeats, the tick
\* looks at again, the lease does, or a crash interrupts: "An expired accepted
\* receipt is uncertain, never a license to replay Pi."
AtMostOnce == \A k \in Keys : started[k] <= 1

\* A receipt says completed only when its prompt ran.
CompletedRan == \A k \in Keys : receipt[k].state = "completed" => started[k] = 1

\* An acceptance always has its own run in this process, whose callback will settle
\* it: neither a restart nor a repeated request leaves one nobody answers for.
AcceptedHasRun ==
    \A k \in Keys : receipt[k].state = "accepted" =>
        \E o \in Owners : Live(o) /\ run[o].key = k /\ receipt[k].owner = o

\* A schedule is on only if that is what the user wrote last: neither a late
\* release callback nor a restart turns a paused or replaced schedule on again.
EnabledAsWanted == sched # None /\ sched.enabled => wanted

\* After a one-shot was given back because its run was not authorized, the marker
\* to launch it again stays usable until the schedule is launched or rewritten,
\* across restarts and ticks that read the row before the release.
ReleasedOneShotKept ==
    conv = "live" /\ relGen > 0 /\ gen = relGen =>
        /\ sched # None /\ sched.enabled
        /\ ForSchedule(retry, sched, gen)
        /\ retry.occ = sched.at

\* A completed or unknown receipt never changes while its conversation exists: a
\* callback, heartbeat or reservation that comes late finds it settled.
SettledStays ==
    [][\A k \in Keys : receipt[k].state \in {"completed", "unknown"} /\ conv' = "live"
          => receipt'[k] = receipt[k]]_vars

\* A one-shot is launched only for the instant the schedule in the row has now, even
\* when the tick or a left-over retry marker remembers another.
LaunchIsCurrent ==
    [][\A o \in Owners :
          run[o].phase = "fresh" /\ run'[o].sched # None /\ OneShot(run'[o].sched)
          => sched.enabled /\ run'[o].key = OccurrenceKey(sched.id, sched.at)]_vars

-----------------------------------------------------------------------------
(* The inductive invariant behind AtMostOnce, CompletedRan, AcceptedHasRun and   *)
(* EnabledAsWanted, conjunct by conjunct                                        *)

RunsKeyed ==
    \A o \in Owners : Live(o) =>
        /\ run[o].key \in Keys
        /\ run[o].sched # None => run[o].key \in ScheduleIds \X Time

\* While the conversation exists a run's receipt exists and is the run's own.
RunsReserved ==
    conv = "live" => \A o \in Owners : Live(o) =>
        receipt[run[o].key].state # "none" /\ receipt[run[o].key].owner = o

\* Afterwards a scheduled run has none.
NothingScheduledWhenGone ==
    conv = "deleted" =>
        /\ sched = None
        /\ \A o \in Owners : Live(o) /\ run[o].sched # None => receipt[run[o].key].owner # o

NotStartedYet ==
    \A o \in Owners :
        /\ run[o].phase = "preparing" => started[run[o].key] = 0
        /\ conv = "live" /\ run[o].phase = "queued" => started[run[o].key] = 0
        /\ conv = "live" /\ run[o].phase = "closing" /\ run[o].outcome = "unauthorized"
              => started[run[o].key] = 0

StartedAlready ==
    \A o \in Owners :
        run[o].phase = "executing" \/ (run[o].phase = "closing" /\ Proven(o)) => started[run[o].key] = 1

OneSession ==
    \A o, q \in Owners :
        run[o].phase \in {"preparing", "executing"} /\ run[q].phase \in {"preparing", "executing"} => o = q

StartedReserved == conv = "live" => \A k \in Keys : started[k] > 0 => receipt[k].state # "none"

\* A run that could still turn its one-shot on again has the generation the user
\* saw switched on.
LaunchedAsWanted ==
    \A o \in Owners : Live(o) /\ run[o].sched # None /\ OneShot(run[o].sched) =>
        /\ run[o].gen <= gen
        /\ conv = "live" /\ run[o].gen = gen => wanted

\* The argument for "at most once" and for EnabledAsWanted in full.
ReceiptInv ==
    /\ TypeOK /\ RunsKeyed /\ RunsReserved /\ NothingScheduledWhenGone
    /\ NotStartedYet /\ StartedAlready /\ OneSession /\ StartedReserved
    /\ AtMostOnce /\ CompletedRan /\ AcceptedHasRun
    /\ LaunchedAsWanted /\ EnabledAsWanted

\* A generation names one schedule: a tick that read the generation the row has now
\* has the schedule the row has now.
CopyIsCurrent ==
    tick # None =>
        /\ tick.gen <= gen
        /\ conv = "live" /\ tick.gen = gen => tick.sched = sched

\* A retry marker of the row's generation is about the row's one-shot and its instant.
MarkerFits(r) ==
    r # None =>
        /\ r.gen <= gen
        /\ conv = "live" /\ r.gen = gen =>
              /\ sched # None /\ OneShot(sched)
              /\ r.occ = sched.at

MarkersFit ==
    /\ MarkerFits(retry)
    /\ MarkerFits(memRetry)
    /\ tick # None => MarkerFits(tick.retry)

\* A run that may still be released is of the one-shot in the row, which has no
\* marker that a tick could take for an old one and drop.
RunFits(o) ==
    Live(o) /\ run[o].sched # None /\ OneShot(run[o].sched) =>
        /\ run[o].key = OccurrenceKey(run[o].sched.id, run[o].sched.at)
        /\ conv = "live" /\ run[o].gen = gen =>
              /\ sched # None /\ OneShot(sched)
              /\ sched.at = run[o].sched.at
              /\ retry = None
              /\ tick # None => tick.retry = None

\* A tick under way leaves the marker of the last release alone: it read no marker,
\* or this one.
TickSpares ==
    conv = "live" /\ relGen > 0 /\ gen = relGen /\ tick # None =>
        tick.retry = None \/ (tick.gen = gen /\ tick.retry = retry)

\* The argument for ReleasedOneShotKept and LaunchIsCurrent.
ScheduleInv ==
    /\ CopyIsCurrent /\ MarkersFit
    /\ \A o \in Owners : RunFits(o)
    /\ relGen <= gen
    /\ TickSpares /\ ReleasedOneShotKept

\* An owner that runs nothing yet holds no schedule.
FreshIsIdle == \A o \in Owners : run[o].phase = "fresh" => run[o].sched = None

\* Everything above holds in every state.
PromptInv == ReceiptInv /\ ScheduleInv /\ FreshIsIdle

Abstract == INSTANCE PromptOnce WITH
    status <- [k \in Keys |-> receipt[k].state],
    runs <- started,
    gone <- conv = "deleted"

\* Receipts, runs, retries and restarts together implement PromptOnce: a prompt is
\* given back only if it never started, and starts only once and after a reservation.
ImplementsPromptOnce == Abstract!Spec
=============================================================================
