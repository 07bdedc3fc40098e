----------------------- MODULE ScheduledPromptProofs -----------------------
(***************************************************************************)
(* Proofs about ScheduledPrompt, for any keys, schedules, owners, lease    *)
(* time and clock bound.                                                   *)
(***************************************************************************)
EXTENDS ScheduledPrompt, TLAPS

USE DEF Time, OccurrenceKey

\* The largest multiple of an interval up to a is not beyond a.
LEMMA MultipleBelow ==
    ASSUME NEW a \in Nat, NEW b \in Nat \ {0}
    PROVE  (a \div b) * b \in 0 .. a
  OBVIOUS

\* occurrenceBetween answers None or an instant no later than the tick.
LEMMA OccurrenceInTime ==
    ASSUME NEW s \in Schedule, NEW p \in Time, NEW a \in Time,
           Occurrence(s, p, a) # None
    PROVE  Occurrence(s, p, a) \in Time
  <1>1. s.at \in Nat /\ s.interval \in Nat
    BY Zenon DEF Schedule
  <1>2. s.at <= a
    BY Zenon DEF Occurrence
  <1>3. CASE OneShot(s)
    BY <1>1, <1>2, <1>3, BoundsAssumption DEF Occurrence
  <1>4. CASE ~OneShot(s)
    <2>1. a - s.at \in Nat /\ s.interval \in Nat \ {0}
      BY <1>1, <1>2, <1>4, BoundsAssumption DEF OneShot
    <2>2. ((a - s.at) \div s.interval) * s.interval \in 0 .. (a - s.at)
      BY <2>1, MultipleBelow, Zenon
    <2>. QED
      BY <1>1, <1>2, <1>4, <2>2, BoundsAssumption DEF Occurrence
  <1>. QED
    BY <1>3, <1>4, Zenon

\* The occurrence a tick is about to launch, and its key, are well typed.
LEMMA DueTyped ==
    ASSUME TypeOK, TickDue
    PROVE  /\ tick \in Tick /\ tick.sched \in Schedule
           /\ Due \in Time /\ DueKey \in Keys /\ DueKey \in ScheduleIds \X Time
  <1>1. tick \in Tick /\ tick.sched \in Schedule
    BY Zenon DEF TypeOK, TickDue, TickEnabled, Tick
  <1>2. Due \in Time
    BY <1>1, OccurrenceInTime, Zenon
    DEF TypeOK, TickDue, Due, Tick, Retry, MemMatches, StoredMatches, ForSchedule
  <1>. QED
    BY <1>1, <1>2, Zenon DEF DueKey, Keys, Schedule

\* Switching a schedule on or off leaves a schedule.
LEMMA SwitchTyped ==
    ASSUME NEW s \in Schedule
    PROVE  [s EXCEPT !.enabled = TRUE] \in Schedule /\ [s EXCEPT !.enabled = FALSE] \in Schedule
  BY Zenon DEF Schedule

\* The receipts and runs the actions write are well typed.
LEMMA RecordsTyped ==
    /\ NoReceipt \in Receipt
    /\ \A phase \in {"fresh", "over"} : Idle(phase) \in Run
    /\ \A r \in Receipt : GaveUp(r) \in Receipt /\ GaveUp(r).state = "unknown" /\ GaveUp(r).owner = r.owner
    /\ TypeOK => \A p \in Prompts, o \in Owners : Accepted(p, o) \in Receipt
  <1>1. NoReceipt \in Receipt
    BY Zenon DEF NoReceipt, Receipt
  <1>2. \A phase \in {"fresh", "over"} : Idle(phase) \in Run
    BY Zenon DEF Idle, Run
  <1>3. \A r \in Receipt : GaveUp(r) \in Receipt /\ GaveUp(r).state = "unknown" /\ GaveUp(r).owner = r.owner
    BY Zenon DEF GaveUp, Receipt
  <1>4. TypeOK => \A p \in Prompts, o \in Owners : Accepted(p, o) \in Receipt
    BY BoundsAssumption DEF TypeOK, Accepted, Receipt
  <1>. QED
    BY <1>1, <1>2, <1>3, <1>4, Zenon

\* The Agent starts with no receipts, runs or schedule.
LEMMA InitInv == Init => ReceiptInv
  <1>. SUFFICES ASSUME Init PROVE ReceiptInv
    BY Zenon
  <1>1. TypeOK
    <2>1. receipt \in [Keys -> Receipt] /\ run \in [Owners -> Run] /\ started \in [Keys -> Nat]
      BY RecordsTyped, Zenon DEF Init
    <2>2. now \in Time /\ lastTick \in Time /\ gen \in Nat /\ relGen \in Nat
      BY BoundsAssumption DEF Init
    <2>. QED
      BY <2>1, <2>2, Zenon DEF Init, TypeOK
  <1>2. \A o \in Owners : ~Live(o) /\ run[o].phase = "fresh"
    BY Zenon DEF Init, Live, Idle
  <1>3. \A k \in Keys : receipt[k].state = "none" /\ started[k] = 0
    BY Zenon DEF Init, NoReceipt
  <1>. QED
    BY <1>1, <1>2, <1>3 DEF Init, ReceiptInv, RunsKeyed, RunsReserved, NothingScheduledWhenGone,
       NotStartedYet, StartedAlready, OneSession, StartedReserved, AtMostOnce, CompletedRan,
       AcceptedHasRun, LaunchedAsWanted, EnabledAsWanted

-----------------------------------------------------------------------------
(* The conjuncts about receipts and runs, by what a step does to them *)

Core ==
    /\ RunsKeyed /\ RunsReserved /\ NothingScheduledWhenGone
    /\ NotStartedYet /\ StartedAlready /\ OneSession /\ StartedReserved
    /\ AtMostOnce /\ CompletedRan /\ AcceptedHasRun

\* A step that at most gives up acceptances, as a lease that ran out does.
LEMMA ReceiptsOnly ==
    ASSUME TypeOK, Core, UNCHANGED <<run, started, conv>>, conv = "deleted" => sched' = None,
           \A k \in Keys :
               /\ receipt'[k].owner = receipt[k].owner
               /\ \/ receipt'[k].state = receipt[k].state
                  \/ receipt[k].state = "accepted" /\ receipt'[k].state = "unknown"
    PROVE  Core'
  <1>1. \A o \in Owners : Live(o)' = Live(o) /\ Proven(o)' = Proven(o)
    BY Zenon DEF Live, Proven
  <1>2. RunsKeyed' /\ OneSession' /\ NotStartedYet' /\ StartedAlready' /\ AtMostOnce'
    BY <1>1, Zenon DEF Core, RunsKeyed, OneSession, NotStartedYet, StartedAlready, AtMostOnce
  <1>3. RunsReserved' /\ NothingScheduledWhenGone'
    BY <1>1 DEF Core, RunsKeyed, RunsReserved, NothingScheduledWhenGone
  <1>4. StartedReserved' /\ CompletedRan' /\ AcceptedHasRun'
    BY <1>1 DEF Core, StartedReserved, CompletedRan, AcceptedHasRun
  <1>. QED
    BY <1>2, <1>3, <1>4, Zenon DEF Core

\* A reservation: a key without receipt gets one, of a run that was not there.
LEMMA Reserves ==
    ASSUME TypeOK, Core, NEW k \in Keys, NEW p \in Prompts, NEW o \in Owners,
           NEW s \in Schedule \cup {None}, NEW g \in Nat,
           s # None => conv = "live" /\ k \in ScheduleIds \X Time,
           run[o].phase = "fresh", Reservable(k), Enqueue(o, k, s, g),
           receipt' = [receipt EXCEPT ![k] = Accepted(p, o)],
           UNCHANGED <<started, conv>>, conv = "deleted" => sched' = None
    PROVE  Core'
  <1>1. /\ \A q \in Owners \ {o} : run'[q] = run[q]
        /\ run'[o].phase = "queued" /\ run'[o].key = k /\ run'[o].sched = s
    BY Zenon DEF TypeOK, Enqueue
  <1>2. /\ \A l \in Keys \ {k} : receipt'[l] = receipt[l]
        /\ receipt'[k].state = "accepted" /\ receipt'[k].owner = o
    BY Zenon DEF TypeOK, Accepted
  <1>3. Live(o)' /\ ~Live(o) /\ \A q \in Owners \ {o} : Live(q)' = Live(q) /\ Proven(q)' = Proven(q)
    BY <1>1, Zenon DEF Live, Proven
  <1>4. \A q \in Owners : conv = "live" /\ Live(q) => run[q].key # k
    BY Zenon DEF Core, RunsReserved, Reservable
  <1>5. RunsKeyed' /\ OneSession' /\ AtMostOnce'
    BY <1>1, <1>3, Zenon DEF Core, RunsKeyed, OneSession, AtMostOnce
  <1>6. RunsReserved'
    BY <1>1, <1>2, <1>3, <1>4 DEF Core, RunsKeyed, RunsReserved
  <1>7. NothingScheduledWhenGone'
    BY <1>1, <1>2, <1>3 DEF Core, RunsKeyed, NothingScheduledWhenGone
  <1>8. NotStartedYet'
    <2>1. conv = "live" => started[k] = 0
      BY DEF TypeOK, Core, StartedReserved, Reservable
    <2>. QED
      BY <1>1, <2>1, Zenon DEF Core, NotStartedYet
  <1>9. StartedAlready'
    BY <1>1, <1>3, Zenon DEF Core, StartedAlready
  <1>10. StartedReserved' /\ CompletedRan'
    BY <1>2, Zenon DEF Core, StartedReserved, CompletedRan
  <1>11. AcceptedHasRun'
    BY <1>1, <1>2, <1>3 DEF Core, AcceptedHasRun
  <1>. QED
    BY <1>5, <1>6, <1>7, <1>8, <1>9, <1>10, <1>11, Zenon DEF Core

\* A reservation given up at once, because an attachment cannot be used.
LEMMA Rejects ==
    ASSUME TypeOK, Core, NEW k \in HttpKeys, NEW p \in Prompts, NEW o \in Owners,
           HttpPromptRejected(k, p, o)
    PROVE  Core'
  <1>1. /\ k \in Keys /\ UNCHANGED <<started, conv, sched>>
        /\ \A q \in Owners \ {o} : run'[q] = run[q]
        /\ run'[o].phase = "over" /\ run[o].phase = "fresh"
    BY Zenon DEF TypeOK, HttpPromptRejected, Idle, Keys, history
  <1>2. /\ \A l \in Keys \ {k} : receipt'[l] = receipt[l]
        /\ receipt'[k].state = "unknown" /\ receipt'[k].owner = o /\ receipt[k].state = "none"
    BY <1>1, Zenon DEF TypeOK, HttpPromptRejected, Accepted, GaveUp, Reservable
  <1>3. ~Live(o)' /\ ~Live(o) /\ \A q \in Owners \ {o} : Live(q)' = Live(q) /\ Proven(q)' = Proven(q)
    BY <1>1, Zenon DEF Live, Proven
  <1>4. RunsKeyed' /\ OneSession' /\ AtMostOnce' /\ NotStartedYet' /\ StartedAlready'
    BY <1>1, <1>3 DEF Core, RunsKeyed, OneSession, AtMostOnce, NotStartedYet, StartedAlready
  <1>5. RunsReserved' /\ NothingScheduledWhenGone'
    BY <1>1, <1>2, <1>3 DEF Core, RunsKeyed, RunsReserved, NothingScheduledWhenGone
  <1>6. StartedReserved' /\ CompletedRan' /\ AcceptedHasRun'
    BY <1>1, <1>2, <1>3 DEF Core, StartedReserved, CompletedRan, AcceptedHasRun
  <1>. QED
    BY <1>4, <1>5, <1>6, Zenon DEF Core

\* A step of the session host moves one run from phase to phase; only Execute
\* starts a prompt, and it starts it for the first time.
LEMMA HostStep ==
    ASSUME TypeOK, Core, NEW o \in Owners,
           Begin(o) \/ BeginFails(o) \/ Unauthorized(o) \/ Execute(o) \/ Settle(o)
    PROVE  Core'
  <1>1. UNCHANGED <<receipt, conv, sched>>
    BY Zenon DEF Begin, BeginFails, Unauthorized, Execute, Settle, HostOnly, store
  <1>2. /\ \A q \in Owners \ {o} : run'[q] = run[q]
        /\ run'[o].key = run[o].key /\ run'[o].sched = run[o].sched
        /\ run'[o].phase \in {"preparing", "executing", "closing"}
        /\ run[o].phase \in {"queued", "preparing", "executing"}
    BY DEF TypeOK, Run, Begin, BeginFails, Unauthorized, BeforeExecution, Execute, Settle, Close
  <1>3. /\ Live(o) /\ Live(o)' /\ run[o].key \in Keys
        /\ \A q \in Owners : Live(q)' = Live(q)
        /\ \A q \in Owners \ {o} : Proven(q)' = Proven(q)
    BY <1>2 DEF Live, Proven, Core, RunsKeyed
  <1>4. RunsKeyed' /\ RunsReserved' /\ NothingScheduledWhenGone' /\ AcceptedHasRun'
    <2>1. \A q \in Owners : run'[q].key = run[q].key /\ run'[q].sched = run[q].sched
      BY <1>2, Zenon
    <2>. QED
      BY <1>1, <1>3, <2>1 DEF Core, RunsKeyed, RunsReserved, NothingScheduledWhenGone, AcceptedHasRun
  <1>5. CASE Execute(o)
    <2>1. /\ run[o].phase = "preparing" /\ run'[o].phase = "executing" /\ started[run[o].key] = 0
          /\ started'[run[o].key] = 1
          /\ \A l \in Keys \ {run[o].key} : started'[l] = started[l]
      BY <1>3, <1>5 DEF TypeOK, Execute, Core, NotStartedYet
    <2>2. OneSession'
      BY <1>2, <2>1, Zenon DEF Core, OneSession
    <2>3. AtMostOnce'
      BY <1>3, <2>1 DEF Core, AtMostOnce
    <2>4. CompletedRan'
      BY <1>1, <2>1, Zenon DEF Core, CompletedRan
    <2>5. StartedReserved'
      BY <1>1, <1>3, <2>1, Zenon DEF Core, RunsReserved, StartedReserved
    <2>6. \A q \in Owners \ {o} : conv = "live" /\ Live(q) => run[q].key # run[o].key
      BY <1>3 DEF Core, RunsReserved
    <2>7. NotStartedYet'
      <3>. SUFFICES ASSUME NEW q \in Owners
                    PROVE  /\ run'[q].phase = "preparing" => started'[run'[q].key] = 0
                           /\ conv' = "live" /\ run'[q].phase = "queued" => started'[run'[q].key] = 0
                           /\ conv' = "live" /\ run'[q].phase = "closing" /\ run'[q].outcome = "unauthorized"
                                => started'[run'[q].key] = 0
        BY Zenon DEF NotStartedYet
      <3>1. CASE q = o
        BY <2>1, <3>1, Zenon
      <3>2. CASE q # o
        BY <1>1, <1>2, <2>1, <2>6, <3>2 DEF Core, NotStartedYet, OneSession, RunsKeyed, Live
      <3>. QED
        BY <3>1, <3>2, Zenon
    <2>8. StartedAlready'
      <3>. SUFFICES ASSUME NEW q \in Owners,
                           run'[q].phase = "executing" \/ (run'[q].phase = "closing" /\ Proven(q)')
                    PROVE  started'[run'[q].key] = 1
        BY Zenon DEF StartedAlready
      <3>1. CASE q = o
        BY <1>2, <2>1, <3>1, Zenon
      <3>2. CASE q # o
        BY <1>2, <1>3, <2>1, <3>2 DEF Core, StartedAlready, RunsKeyed, Live
      <3>. QED
        BY <3>1, <3>2, Zenon
    <2>. QED
      BY <1>4, <2>2, <2>3, <2>4, <2>5, <2>7, <2>8, Zenon DEF Core
  <1>6. CASE ~Execute(o)
    <2>1. started' = started
      BY <1>6, Zenon DEF Begin, BeginFails, Unauthorized, Settle
    <2>2. AtMostOnce' /\ CompletedRan' /\ StartedReserved'
      BY <1>1, <2>1, Zenon DEF Core, AtMostOnce, CompletedRan, StartedReserved
    <2>3. \/ /\ run[o].phase = "queued" /\ ~Busy /\ conv = "live" /\ run'[o].phase = "preparing"
          \/ run'[o].phase = "closing" /\ run'[o].outcome = "failed"
          \/ run'[o].phase = "closing" /\ run'[o].outcome = "unauthorized" /\ BeforeExecution(o)
          \/ run'[o].phase = "closing" /\ run[o].phase = "executing" /\ run'[o].outcome # "unauthorized"
      BY <1>6 DEF TypeOK, Run, Begin, BeginFails, Unauthorized, Settle, Close
    <2>4. OneSession'
      BY <1>2, <2>3, Zenon DEF Core, OneSession, Busy
    <2>5. NotStartedYet'
      BY <1>1, <1>2, <2>1, <2>3, Zenon DEF Core, NotStartedYet, BeforeExecution
    <2>6. StartedAlready'
      BY <1>2, <1>3, <2>1, <2>3 DEF Core, StartedAlready, Proven
    <2>. QED
      BY <1>4, <2>2, <2>4, <2>5, <2>6, Zenon DEF Core
  <1>. QED
    BY <1>5, <1>6, Zenon

\* A promise callback settles or gives back only the receipt of its own run.
LEMMA CallbackStep ==
    ASSUME TypeOK, Core, NEW o \in Owners, CallbackMarks(o) \/ CallbackReleases(o)
    PROVE  Core'
  <1> DEFINE k == run[o].key
  <1>1. /\ run[o].phase = "closing" /\ Live(o) /\ k \in Keys
        /\ UNCHANGED <<started, conv>> /\ (sched = None => sched' = None)
        /\ \A q \in Owners \ {o} : run'[q] = run[q]
        /\ run'[o].phase = "over"
    BY DEF TypeOK, CallbackMarks, CallbackReleases, Finish, Idle, Core, RunsKeyed, Live, history, ReleaseMatches
  <1>2. ~Live(o)' /\ \A q \in Owners \ {o} : Live(q)' = Live(q) /\ Proven(q)' = Proven(q)
    BY <1>1, Zenon DEF Live, Proven
  <1>3. /\ \A l \in Keys \ {k} : receipt'[l] = receipt[l]
        /\ ~Holds(k, o) => receipt' = receipt
        /\ Holds(k, o) =>
             \/ receipt'[k].state = "completed" /\ receipt'[k].owner = o /\ Proven(o)
             \/ receipt'[k].state = "unknown" /\ receipt'[k].owner = o
             \/ receipt'[k] = NoReceipt /\ Releasable(o)
    <2>1. CASE CallbackMarks(o)
      BY <1>1, <2>1, Zenon
      DEF TypeOK, Receipt, CallbackMarks, MarkCompleted, MarkUnknown, GaveUp, Holds
    <2>2. CASE CallbackReleases(o)
      BY <1>1, <2>2, Zenon DEF TypeOK, CallbackReleases
    <2>. QED
      BY <2>1, <2>2, Zenon
  <1>4. RunsKeyed' /\ OneSession' /\ AtMostOnce' /\ NotStartedYet' /\ StartedAlready'
    BY <1>1, <1>2 DEF Core, RunsKeyed, OneSession, AtMostOnce, NotStartedYet, StartedAlready
  <1>5. \A q \in Owners \ {o} : receipt[k].owner = o /\ Live(q)' /\ conv = "live" => run[q].key # k
    BY <1>2, Zenon DEF Core, RunsReserved
  <1>6. RunsReserved'
    BY <1>1, <1>2, <1>3, <1>5 DEF Core, RunsReserved, RunsKeyed, Holds
  <1>7. NothingScheduledWhenGone'
    BY <1>1, <1>2, <1>3, NoneAssumption DEF Core, NothingScheduledWhenGone, RunsKeyed, Holds, NoReceipt
  <1>8. StartedReserved'
    BY <1>1, <1>3 DEF TypeOK, Core, StartedReserved, NotStartedYet, Releasable
  <1>9. CompletedRan'
    BY <1>1, <1>3 DEF Core, CompletedRan, StartedAlready, NoReceipt
  <1>10. AcceptedHasRun'
    BY <1>1, <1>2, <1>3 DEF Core, AcceptedHasRun, Holds, NoReceipt
  <1>. QED
    BY <1>4, <1>6, <1>7, <1>8, <1>9, <1>10, Zenon DEF Core

\* Deleting the conversation takes every receipt and the schedule with it.
LEMMA DeleteStep ==
    ASSUME TypeOK, Core, DeleteConversation
    PROVE  Core'
  <1>1. /\ UNCHANGED <<started, run>> /\ conv' = "deleted" /\ sched' = None
        /\ \A k \in Keys : receipt'[k].state = "none" /\ receipt'[k].owner = None
    BY Zenon DEF DeleteConversation, NoReceipt
  <1>2. \A o \in Owners : Live(o)' = Live(o) /\ Proven(o)' = Proven(o) /\ o # None
    BY <1>1, NoneAssumption, Zenon DEF Live, Proven
  <1>3. RunsKeyed' /\ OneSession' /\ AtMostOnce' /\ NotStartedYet' /\ StartedAlready'
    BY <1>1, <1>2, Zenon
    DEF Core, RunsKeyed, OneSession, AtMostOnce, NotStartedYet, StartedAlready
  <1>. QED
    BY <1>1, <1>2, <1>3, Zenon
    DEF Core, RunsKeyed, RunsReserved, NothingScheduledWhenGone, StartedReserved,
       CompletedRan, AcceptedHasRun

\* A new process has no runs, and every acceptance becomes unknown.
LEMMA NewProcessStep ==
    ASSUME TypeOK, Core, NewProcess, conv = "deleted" => sched' = None
    PROVE  Core'
  <1>1. /\ UNCHANGED <<started, conv>>
        /\ \A o \in Owners : ~Live(o)' /\ run'[o].phase \in {"fresh", "over"}
    BY Zenon DEF TypeOK, Run, NewProcess, Live, Idle
  <1>2. \A k \in Keys : /\ receipt'[k].owner = receipt[k].owner
                        /\ receipt'[k].state = IF receipt[k].state = "accepted" THEN "unknown"
                                                                              ELSE receipt[k].state
    BY RecordsTyped, Zenon DEF TypeOK, NewProcess, Recovered
  <1>. QED
    BY <1>1, <1>2 DEF Core, RunsKeyed, RunsReserved, NothingScheduledWhenGone, NotStartedYet,
       StartedAlready, OneSession, StartedReserved, AtMostOnce, CompletedRan, AcceptedHasRun

-----------------------------------------------------------------------------
(* Types *)

\* What markCompleted, markUnknown and an observed expiry write is a receipt.
LEMMA ReceiptsTyped ==
    ASSUME TypeOK, NEW k \in Keys, NEW o, NEW p
    PROVE  /\ MarkCompleted(k, o) \in [Keys -> Receipt]
           /\ MarkUnknown(k, o) \in [Keys -> Receipt]
           /\ ReserveExisting(k, p) \in [Keys -> Receipt]
           /\ [receipt EXCEPT ![k] = GaveUp(@)] \in [Keys -> Receipt]
  <1>1. receipt[k] \in Receipt /\ GaveUp(receipt[k]) \in Receipt
    BY RecordsTyped, Zenon DEF TypeOK
  <1>2. [receipt EXCEPT ![k].state = "completed", ![k].lease = 0] \in [Keys -> Receipt]
    BY <1>1, Zenon DEF TypeOK, Receipt
  <1>. QED
    BY <1>1, <1>2, Zenon DEF TypeOK, MarkCompleted, MarkUnknown, ReserveExisting

\* What clients and the user do (prompts, schedule edits, deletion) keeps the types.
LEMMA ClientTypes ==
    ASSUME ReceiptInv, ClientNext
    PROVE  TypeOK'
  <1>. USE DEF ReceiptInv
  <1>1. CASE \E k \in HttpKeys, p \in Prompts, o \in Owners : HttpPrompt(k, p, o)
    <2>. PICK k \in HttpKeys, p \in Prompts, o \in Owners : HttpPrompt(k, p, o)
      BY <1>1, Zenon
    <2>1. receipt' \in [Keys -> Receipt]
      BY RecordsTyped, Zenon DEF TypeOK, HttpPrompt
    <2>2. run' \in [Owners -> Run]
      BY Zenon DEF TypeOK, HttpPrompt, Enqueue, Run, Keys
    <2>. QED
      BY <2>1, <2>2, Zenon DEF TypeOK, HttpPrompt, history
  <1>2. CASE \E k \in HttpKeys, p \in Prompts, o \in Owners : HttpPromptRejected(k, p, o)
    <2>. PICK k \in HttpKeys, p \in Prompts, o \in Owners : HttpPromptRejected(k, p, o)
      BY <1>2, Zenon
    <2>1. receipt' \in [Keys -> Receipt]
      BY RecordsTyped, Zenon DEF TypeOK, HttpPromptRejected
    <2>2. run' \in [Owners -> Run]
      BY RecordsTyped, Zenon DEF TypeOK, HttpPromptRejected
    <2>. QED
      BY <2>1, <2>2, Zenon DEF TypeOK, HttpPromptRejected, history
  <1>3. CASE \E k \in Keys : ObserveReceipt(k)
    <2>1. receipt' \in [Keys -> Receipt]
      BY <1>3, ReceiptsTyped, Zenon DEF ObserveReceipt
    <2>. QED
      BY <1>3, <2>1, Zenon DEF TypeOK, ObserveReceipt, history
  <1>4. CASE \E s \in Schedules \cup {None} : UserSchedule(s)
    BY <1>4, SchedulesAssumption DEF TypeOK, UserSchedule, WriteSchedule
  <1>5. CASE DeleteConversation
    <2>1. receipt' \in [Keys -> Receipt]
      BY <1>5, RecordsTyped, Zenon DEF DeleteConversation
    <2>. QED
      BY <1>5, <2>1, Zenon DEF TypeOK, DeleteConversation
  <1>6. CASE AuthChange
    BY <1>6, Zenon DEF TypeOK, AuthChange, store, history
  <1>. QED
    BY <1>1, <1>2, <1>3, <1>4, <1>5, <1>6, Zenon DEF ClientNext

\* Every branch of the schedule tick keeps the types.
LEMMA TickTypes ==
    ASSUME ReceiptInv, TickNext
    PROVE  TypeOK'
  <1>. USE DEF ReceiptInv
  <1>1. CASE TickStart
    BY <1>1, Zenon DEF TypeOK, TickStart, Tick, store, history
  <1>2. CASE TickUnscheduled \/ TickDisabled \/ TickNothingDue \/ TickOverlap \/ TickUnauthorized
    <2>1. /\ UNCHANGED <<now, conv, auth, history, sched, gen, receipt, run>>
          /\ tick' = None /\ tick \in Tick /\ lastTick' \in {lastTick, tick.at}
          /\ memRetry' \in {memRetry, None} /\ retry' \in {retry, None}
      BY <1>2, Zenon
      DEF TypeOK, TickEnd, DropStaleRetries, TickUnscheduled, TickDisabled, TickNothingDue,
         TickOverlap, TickUnauthorized, TickEnabled
    <2>. QED
      BY <2>1, Zenon DEF TypeOK, Tick, history
  <1>3. CASE TickRefused
    <2>1. receipt' \in [Keys -> Receipt] /\ tick \in Tick
      BY <1>3, DueTyped, ReceiptsTyped, Zenon DEF TickRefused
    <2>. QED
      BY <1>3, <2>1, Zenon DEF TypeOK, TickRefused, TickEnd, Tick, history
  <1>4. CASE \E o \in Owners : TickLaunch(o)
    <2>. PICK o \in Owners : TickLaunch(o)
      BY <1>4, Zenon
    <2>1. tick \in Tick /\ tick.sched \in Schedule /\ DueKey \in Keys
      BY DueTyped, Zenon DEF TickLaunch
    <2>2. receipt' \in [Keys -> Receipt]
      BY <2>1, RecordsTyped, Zenon DEF TypeOK, TickLaunch, Schedule
    <2>3. run' \in [Owners -> Run]
      BY <2>1 DEF TypeOK, TickLaunch, Enqueue, Run, Tick
    <2>4. sched' \in Schedule \cup {None} /\ gen' \in Nat
      <3>1. sched \in Schedule /\ gen \in Nat
        BY Zenon DEF TypeOK, TickLaunch, ScheduleCurrent
      <3>2. [sched EXCEPT !.enabled = FALSE] \in Schedule
        BY <3>1, SwitchTyped, Zenon
      <3>3. sched' = sched \/ sched' = [sched EXCEPT !.enabled = FALSE]
        BY Zenon DEF TickLaunch
      <3>4. gen' \in Nat
        BY <3>1 DEF TickLaunch
      <3>. QED
        BY <3>1, <3>2, <3>3, <3>4, Zenon
    <2>. QED
      BY <2>1, <2>2, <2>3, <2>4, Zenon DEF TypeOK, TickLaunch, TickEnd, Tick, history
  <1>. QED
    BY <1>1, <1>2, <1>3, <1>4, Zenon DEF TickNext

\* The session host's steps and the promise callbacks keep the types.
LEMMA HostTypes ==
    ASSUME ReceiptInv, NEW o \in Owners,
           \/ Begin(o) \/ BeginFails(o) \/ Unauthorized(o) \/ Execute(o) \/ Settle(o)
           \/ Heartbeat(o) \/ CallbackMarks(o) \/ CallbackReleases(o)
    PROVE  TypeOK'
  <1>. USE DEF ReceiptInv
  <1>1. CASE Begin(o) \/ BeginFails(o) \/ Unauthorized(o) \/ Settle(o)
    <2>1. run' \in [Owners -> Run] /\ UNCHANGED started
      BY <1>1 DEF TypeOK, Run, Begin, BeginFails, Unauthorized, Settle, Close
    <2>. QED
      BY <1>1, <2>1, Zenon DEF TypeOK, Begin, BeginFails, Unauthorized, Settle, HostOnly, store
  <1>2. CASE Execute(o)
    <2>1. run' \in [Owners -> Run]
      BY <1>2, Zenon DEF TypeOK, Run, Execute
    <2>2. started' \in [Keys -> Nat]
      BY <1>2 DEF TypeOK, Execute, RunsKeyed, Live
    <2>. QED
      BY <1>2, <2>1, <2>2, Zenon DEF TypeOK, Execute, HostOnly, store
  <1>3. CASE Heartbeat(o)
    <2>1. receipt' \in [Keys -> Receipt]
      <3>1. run[o].key \in Keys /\ now + LeaseTime \in Nat
        BY <1>3, BoundsAssumption DEF TypeOK, Heartbeat, RunsKeyed
      <3>2. [receipt[run[o].key] EXCEPT !.lease = now + LeaseTime] \in Receipt
        BY <3>1, Zenon DEF TypeOK, Receipt
      <3>. QED
        BY <1>3, <3>1, <3>2, Zenon DEF TypeOK, Heartbeat
    <2>. QED
      BY <1>3, <2>1, Zenon DEF TypeOK, Heartbeat, history
  <1>4. run' = [run EXCEPT ![o] = Idle("over")] => run' \in [Owners -> Run]
    BY RecordsTyped, Zenon DEF TypeOK
  <1>5. CASE CallbackMarks(o)
    <2>1. run[o].key \in Keys
      BY <1>5, Zenon DEF CallbackMarks, RunsKeyed, Live
    <2>2. receipt' \in [Keys -> Receipt]
      BY <1>5, <2>1, ReceiptsTyped, Zenon DEF CallbackMarks
    <2>. QED
      BY <1>4, <1>5, <2>2, Zenon DEF TypeOK, CallbackMarks, Finish, history
  <1>6. CASE CallbackReleases(o)
    <2>1. /\ run[o].key \in Keys /\ run[o].key \in ScheduleIds \X Time
          /\ run[o].sched \in Schedule /\ run[o].gen \in Nat
      BY <1>6, Zenon DEF TypeOK, Run, CallbackReleases, Releasable, RunsKeyed, Live
    <2>2. receipt' \in [Keys -> Receipt]
      BY <1>6, <2>1, RecordsTyped, Zenon DEF TypeOK, CallbackReleases
    <2>3. ReleasedRetry(o) \in Retry /\ [ReleasedRetry(o) EXCEPT !.gen = gen + 1] \in Retry
      BY <2>1 DEF TypeOK, ReleasedRetry, Retry, Schedule
    <2>4. CASE ReleaseMatches(o)
      <3>1. sched' \in Schedule /\ gen' \in Nat /\ relGen' \in Nat
        <4>1. sched \in Schedule /\ gen \in Nat
          BY <2>4, Zenon DEF TypeOK, ReleaseMatches
        <4>2. [sched EXCEPT !.enabled = TRUE] \in Schedule
          BY <4>1, SwitchTyped, Zenon
        <4>3. sched' = [sched EXCEPT !.enabled = TRUE]
          BY <1>6, <2>4, Zenon DEF CallbackReleases
        <4>4. gen' \in Nat /\ relGen' \in Nat
          BY <1>6, <2>4, <4>1 DEF CallbackReleases
        <4>. QED
          BY <4>2, <4>3, <4>4, Zenon
      <3>2. retry' \in Retry /\ memRetry' \in Retry
        BY <1>6, <2>3, <2>4, Zenon DEF CallbackReleases
      <3>. QED
        BY <1>4, <1>6, <2>2, <3>1, <3>2, Zenon DEF TypeOK, CallbackReleases, Finish
    <2>5. CASE ~ReleaseMatches(o)
      BY <1>4, <1>6, <2>2, <2>5, Zenon DEF TypeOK, CallbackReleases, Finish
    <2>. QED
      BY <2>4, <2>5, Zenon
  <1>. QED
    BY <1>1, <1>2, <1>3, <1>5, <1>6, Zenon

\* A restart, also in the middle of updateConversation, keeps the types.
LEMMA CrashTypes ==
    ASSUME ReceiptInv, CrashNext
    PROVE  TypeOK'
  <1>. USE DEF ReceiptInv
  <1>1. NewProcess
    BY Zenon DEF CrashNext, Restart, RestartDuringWrite
  <1>2. receipt' \in [Keys -> Receipt]
    BY <1>1, RecordsTyped, Zenon DEF TypeOK, NewProcess, Recovered
  <1>3. run' \in [Owners -> Run]
    BY <1>1, RecordsTyped, Zenon DEF TypeOK, NewProcess
  <1>4. sched' \in Schedule \cup {None} /\ gen' \in Nat /\ UNCHANGED retry
    BY SchedulesAssumption DEF TypeOK, CrashNext, Restart, RestartDuringWrite, WriteSchedule
  <1>5. wanted' \in BOOLEAN
    BY Zenon DEF TypeOK, CrashNext, Restart, RestartDuringWrite, WriteSchedule
  <1>. QED
    BY <1>1, <1>2, <1>3, <1>4, <1>5, Zenon DEF TypeOK, NewProcess

-----------------------------------------------------------------------------
(* The schedule, and the invariant *)

Wanted == LaunchedAsWanted /\ EnabledAsWanted

\* A write by the user starts a new generation, which no run in flight has.
LEMMA WriteKeepsWanted ==
    ASSUME ReceiptInv, NEW s \in Schedules \cup {None}, WriteSchedule(s),
           UNCHANGED conv, \A o \in Owners : Live(o)' => Live(o) /\ run'[o] = run[o]
    PROVE  Wanted'
  <1>1. EnabledAsWanted'
    BY Zenon DEF WriteSchedule, EnabledAsWanted
  <1>2. gen' = gen + 1 /\ gen \in Nat
    BY Zenon DEF WriteSchedule, ReceiptInv, TypeOK
  <1>3. LaunchedAsWanted'
    <2>. SUFFICES ASSUME NEW o \in Owners, Live(o)', run'[o].sched # None, OneShot(run'[o].sched)
                  PROVE  run'[o].gen <= gen' /\ run'[o].gen # gen'
      BY Zenon DEF LaunchedAsWanted
    <2>1. run'[o].gen <= gen /\ run'[o].gen \in Nat
      BY Zenon DEF ReceiptInv, LaunchedAsWanted, TypeOK, Run
    <2>. QED
      BY <1>2, <2>1
  <1>. QED
    BY <1>1, <1>3, Zenon DEF Wanted

\* So does nothing that leaves the schedule alone and launches no one-shot.
LEMMA RestKeepsWanted ==
    ASSUME ReceiptInv, UNCHANGED <<sched, gen, wanted, conv>>,
           \A o \in Owners : Live(o)' /\ run'[o].sched # None /\ OneShot(run'[o].sched) =>
               Live(o) /\ run'[o].sched = run[o].sched /\ run'[o].gen = run[o].gen
    PROVE  Wanted'
  <1>1. EnabledAsWanted'
    BY Zenon DEF ReceiptInv, EnabledAsWanted
  <1>2. LaunchedAsWanted'
    BY Zenon DEF ReceiptInv, LaunchedAsWanted
  <1>. QED
    BY <1>1, <1>2, Zenon DEF Wanted

\* A launched one-shot is switched off in a new generation, which its own run carries.
LEMMA LaunchKeepsWanted ==
    ASSUME ReceiptInv, NEW o \in Owners, TickLaunch(o)
    PROVE  Wanted'
  <1>1. /\ tick \in Tick /\ tick.sched \in Schedule /\ sched # None /\ gen \in Nat /\ tick.gen = gen
        /\ UNCHANGED <<wanted, conv>> /\ run[o].phase = "fresh"
        /\ \A q \in Owners \ {o} : run'[q] = run[q]
        /\ run'[o].sched = tick.sched
        /\ OneShot(tick.sched) => run'[o].gen = gen + 1
    BY DueTyped, Zenon
    DEF ReceiptInv, TypeOK, TickLaunch, ScheduleCurrent, TickEnd, history, Enqueue
  <1>2. sched.enabled /\ wanted
    BY <1>1, Zenon DEF ReceiptInv, EnabledAsWanted, TickLaunch, ScheduleCurrent
  <1>3. EnabledAsWanted'
    BY <1>1, <1>2, Zenon DEF EnabledAsWanted
  <1>4. gen' = gen \/ gen' = gen + 1
    BY Zenon DEF TickLaunch
  <1>5. \A q \in Owners \ {o} : Live(q)' = Live(q)
    BY <1>1, Zenon DEF Live
  <1>6. LaunchedAsWanted'
    <2>. SUFFICES ASSUME NEW q \in Owners, Live(q)', run'[q].sched # None, OneShot(run'[q].sched)
                  PROVE  run'[q].gen <= gen' /\ wanted'
      BY Zenon DEF LaunchedAsWanted
    <2>1. CASE q = o
      <3>1. gen' = gen + 1
        BY <1>1, <2>1, Zenon DEF TickLaunch
      <3>. QED
        BY <1>1, <1>2, <2>1, <3>1
    <2>2. CASE q # o
      <3>1. run'[q].gen <= gen /\ run'[q].gen \in Nat
        BY <1>1, <1>5, <2>2, Zenon DEF ReceiptInv, LaunchedAsWanted, TypeOK, Run
      <3>. QED
        BY <1>1, <1>2, <1>4, <3>1
    <2>. QED
      BY <2>1, <2>2, Zenon
  <1>. QED
    BY <1>3, <1>6, Zenon DEF Wanted

\* A release switches the schedule on only in the generation of its own launch.
LEMMA ReleaseKeepsWanted ==
    ASSUME ReceiptInv, NEW o \in Owners, CallbackReleases(o)
    PROVE  Wanted'
  <1>1. /\ UNCHANGED <<wanted, conv>> /\ gen \in Nat /\ Live(o)
        /\ \A q \in Owners \ {o} : run'[q] = run[q] /\ Live(q)' = Live(q)
        /\ ~Live(o)'
    BY Zenon DEF ReceiptInv, TypeOK, CallbackReleases, Finish, Idle, Live
  <1>2. CASE ~ReleaseMatches(o)
    <2>1. UNCHANGED <<sched, gen>>
      BY <1>2, Zenon DEF CallbackReleases
    <2>. QED
      BY <1>1, <2>1, RestKeepsWanted, Zenon
  <1>3. CASE ReleaseMatches(o)
    <2>1. gen' = gen + 1 /\ conv = "live" /\ run[o].sched # None /\ OneShot(run[o].sched) /\ run[o].gen = gen
      BY <1>3, Zenon
      DEF ReceiptInv, TypeOK, CallbackReleases, ReleaseMatches, Releasable, NothingScheduledWhenGone
    <2>2. wanted
      BY <1>1, <2>1, Zenon DEF ReceiptInv, LaunchedAsWanted
    <2>3. EnabledAsWanted'
      BY <1>1, <2>2, Zenon DEF EnabledAsWanted
    <2>4. LaunchedAsWanted'
      <3>. SUFFICES ASSUME NEW q \in Owners, Live(q)', run'[q].sched # None, OneShot(run'[q].sched)
                    PROVE  run'[q].gen <= gen' /\ wanted'
        BY Zenon DEF LaunchedAsWanted
      <3>1. run'[q].gen <= gen /\ run'[q].gen \in Nat
        BY <1>1, Zenon DEF ReceiptInv, LaunchedAsWanted, TypeOK, Run
      <3>. QED
        BY <1>1, <2>1, <2>2, <3>1
    <2>. QED
      BY <2>3, <2>4, Zenon DEF Wanted
  <1>. QED
    BY <1>2, <1>3, Zenon

\* What clients and the user do keeps the invariant.
LEMMA ClientStep ==
    ASSUME ReceiptInv, ClientNext
    PROVE  Core' /\ Wanted'
  <1>0. TypeOK /\ Core
    BY Zenon DEF ReceiptInv, Core
  <1>1. CASE \E k \in HttpKeys, p \in Prompts, o \in Owners : HttpPrompt(k, p, o)
    <2>. PICK k \in HttpKeys, p \in Prompts, o \in Owners : HttpPrompt(k, p, o)
      BY <1>1, Zenon
    <2>1. k \in Keys /\ UNCHANGED <<sched, gen, wanted, conv, started>> /\ Enqueue(o, k, None, 0)
      BY Zenon DEF Keys, HttpPrompt, history
    <2>2. Core'
      BY <1>0, <2>1, Reserves, Zenon DEF HttpPrompt, Core, NothingScheduledWhenGone
    <2>3. run'[o].sched = None /\ \A q \in Owners \ {o} : run'[q] = run[q]
      BY <1>0, <2>1, Zenon DEF TypeOK, Enqueue
    <2>4. \A q \in Owners \ {o} : Live(q)' = Live(q)
      BY <2>3, Zenon DEF Live
    <2>. QED
      BY <2>1, <2>2, <2>3, <2>4, RestKeepsWanted, Zenon
  <1>2. CASE \E k \in HttpKeys, p \in Prompts, o \in Owners : HttpPromptRejected(k, p, o)
    <2>. PICK k \in HttpKeys, p \in Prompts, o \in Owners : HttpPromptRejected(k, p, o)
      BY <1>2, Zenon
    <2>1. UNCHANGED <<sched, gen, wanted, conv>>
      BY Zenon DEF HttpPromptRejected, history
    <2>2. \A q \in Owners : run'[q].sched = None \/ (run'[q] = run[q] /\ Live(q)' = Live(q))
      BY <1>0, Zenon DEF TypeOK, HttpPromptRejected, Idle, Live
    <2>. QED
      BY <1>0, <2>1, <2>2, Rejects, RestKeepsWanted, Zenon
  <1>3. CASE \E k \in Keys : ObserveReceipt(k)
    <2>. PICK k \in Keys : ObserveReceipt(k)
      BY <1>3, Zenon
    <2>1. UNCHANGED <<run, sched, gen, wanted, conv, started>>
      BY Zenon DEF ObserveReceipt, history
    <2>2. \A l \in Keys :
               /\ receipt'[l].owner = receipt[l].owner
               /\ \/ receipt'[l].state = receipt[l].state
                  \/ receipt[l].state = "accepted" /\ receipt'[l].state = "unknown"
      BY <1>0, RecordsTyped, Zenon DEF TypeOK, ObserveReceipt, Expired
    <2>3. Core'
      BY <1>0, <2>1, <2>2, ReceiptsOnly, Zenon DEF Core, NothingScheduledWhenGone
    <2>. QED
      BY <2>1, <2>3, RestKeepsWanted, Zenon DEF Live
  <1>4. CASE \E s \in Schedules \cup {None} : UserSchedule(s)
    <2>. PICK s \in Schedules \cup {None} : UserSchedule(s)
      BY <1>4, Zenon
    <2>1. UNCHANGED <<run, conv, started, receipt>> /\ conv = "live" /\ WriteSchedule(s)
      BY Zenon DEF UserSchedule, WriteSchedule
    <2>2. Core'
      BY <1>0, <2>1, ReceiptsOnly, Zenon
    <2>. QED
      BY <2>1, <2>2, WriteKeepsWanted, Zenon DEF Live
  <1>5. CASE DeleteConversation
    <2>1. sched' = None /\ conv' = "deleted" /\ UNCHANGED <<run, gen>>
      BY <1>5, Zenon DEF DeleteConversation
    <2>2. EnabledAsWanted'
      BY <2>1, Zenon DEF EnabledAsWanted
    <2>3. LaunchedAsWanted'
      BY <2>1, Zenon DEF ReceiptInv, LaunchedAsWanted, Live
    <2>. QED
      BY <1>0, <1>5, <2>2, <2>3, DeleteStep, Zenon DEF Wanted
  <1>6. CASE AuthChange
    <2>1. UNCHANGED <<run, receipt, sched, gen, wanted, conv, started>>
      BY <1>6, Zenon DEF AuthChange, store, history
    <2>2. Core'
      BY <1>0, <2>1, ReceiptsOnly, Zenon DEF Core, NothingScheduledWhenGone
    <2>. QED
      BY <2>1, <2>2, RestKeepsWanted, Zenon DEF Live
  <1>. QED
    BY <1>1, <1>2, <1>3, <1>4, <1>5, <1>6, Zenon DEF ClientNext

\* Every branch of the schedule tick keeps the invariant.
LEMMA TickStep ==
    ASSUME ReceiptInv, TickNext
    PROVE  Core' /\ Wanted'
  <1>0. TypeOK /\ Core
    BY Zenon DEF ReceiptInv, Core
  <1>1. CASE \/ TickStart \/ TickUnscheduled \/ TickDisabled \/ TickNothingDue \/ TickOverlap
             \/ TickUnauthorized \/ TickRefused
    <2>1. UNCHANGED <<run, sched, gen, wanted, conv, started>>
      BY <1>1, Zenon DEF TickStart, TickUnscheduled, TickDisabled, TickNothingDue, TickOverlap,
         TickUnauthorized, TickRefused, TickEnd, store, history
    <2>2. receipt' = receipt \/ (DueKey \in Keys /\ receipt' = ReserveExisting(DueKey, tick.sched.prompt))
      BY <1>0, <1>1, DueTyped, Zenon
      DEF TickStart, TickUnscheduled, TickDisabled, TickNothingDue, TickOverlap,
         TickUnauthorized, TickRefused, store
    <2>3. \A l \in Keys :
               /\ receipt'[l].owner = receipt[l].owner
               /\ \/ receipt'[l].state = receipt[l].state
                  \/ receipt[l].state = "accepted" /\ receipt'[l].state = "unknown"
      BY <1>0, <2>2, RecordsTyped DEF TypeOK, ReserveExisting, Expired
    <2>4. Core'
      BY <1>0, <2>1, <2>3, ReceiptsOnly, Zenon DEF Core, NothingScheduledWhenGone
    <2>. QED
      BY <2>1, <2>4, RestKeepsWanted, Zenon DEF Live
  <1>2. CASE \E o \in Owners : TickLaunch(o)
    <2>. PICK o \in Owners : TickLaunch(o)
      BY <1>2, Zenon
    <2>1. /\ tick \in Tick /\ tick.sched \in Schedule /\ tick.sched.prompt \in Prompts
          /\ DueKey \in Keys /\ DueKey \in ScheduleIds \X Time
      BY <1>0, DueTyped, Zenon DEF TickLaunch, Schedule
    <2>2. sched # None /\ conv = "live"
      BY <1>0, Zenon DEF TypeOK, TickLaunch, ScheduleCurrent, Core, NothingScheduledWhenGone
    <2>3. \E g \in Nat : Enqueue(o, DueKey, tick.sched, g)
      BY <2>1 DEF TickLaunch, Tick
    <2>4. Core'
      BY <1>0, <2>1, <2>2, <2>3, Reserves, Zenon DEF TickLaunch, TickEnd, history
    <2>. QED
      BY <2>4, LaunchKeepsWanted, Zenon
  <1>. QED
    BY <1>1, <1>2, Zenon DEF TickNext

\* The session host's steps and the promise callbacks keep the invariant.
LEMMA HostNextStep ==
    ASSUME ReceiptInv, HostNext
    PROVE  TypeOK' /\ Core' /\ Wanted'
  <1>0. TypeOK /\ Core
    BY Zenon DEF ReceiptInv, Core
  <1>. PICK o \in Owners :
            \/ Begin(o) \/ BeginFails(o) \/ Unauthorized(o) \/ Execute(o) \/ Settle(o)
            \/ Heartbeat(o) \/ CallbackMarks(o) \/ CallbackReleases(o)
    BY Zenon DEF HostNext
  <1>1. TypeOK'
    BY HostTypes, Zenon
  <1>2. CASE Begin(o) \/ BeginFails(o) \/ Unauthorized(o) \/ Execute(o) \/ Settle(o)
    <2>1. UNCHANGED <<sched, gen, wanted, conv>>
      BY <1>2, Zenon DEF Begin, BeginFails, Unauthorized, Execute, Settle, HostOnly, store
    <2>2. \A q \in Owners : Live(q)' => Live(q) /\ run'[q].sched = run[q].sched /\ run'[q].gen = run[q].gen
      BY <1>0, <1>2 DEF TypeOK, Run, Live, Begin, BeginFails, Unauthorized, BeforeExecution, Execute, Settle, Close
    <2>. QED
      BY <1>0, <1>1, <1>2, <2>1, <2>2, HostStep, RestKeepsWanted, Zenon
  <1>3. CASE Heartbeat(o)
    <2>1. UNCHANGED <<run, sched, gen, wanted, conv, started>> /\ run[o].key \in Keys
      BY <1>0, <1>3, Zenon DEF Heartbeat, history, Core, RunsKeyed
    <2>2. \A l \in Keys : receipt'[l].owner = receipt[l].owner /\ receipt'[l].state = receipt[l].state
      BY <1>0, <1>3, <2>1, Zenon DEF TypeOK, Heartbeat, Receipt
    <2>3. Core'
      BY <1>0, <2>1, <2>2, ReceiptsOnly, Zenon DEF Core, NothingScheduledWhenGone
    <2>. QED
      BY <1>1, <2>1, <2>3, RestKeepsWanted, Zenon DEF Live
  <1>4. CASE CallbackMarks(o)
    <2>1. UNCHANGED <<sched, gen, wanted, conv>>
      BY <1>4, Zenon DEF CallbackMarks, history
    <2>2. \A q \in Owners : Live(q)' => Live(q) /\ run'[q] = run[q]
      BY <1>0, <1>4, Zenon DEF TypeOK, CallbackMarks, Finish, Idle, Live
    <2>. QED
      BY <1>0, <1>1, <1>4, <2>1, <2>2, CallbackStep, RestKeepsWanted, Zenon
  <1>5. CASE CallbackReleases(o)
    BY <1>0, <1>1, <1>5, CallbackStep, ReleaseKeepsWanted, Zenon
  <1>. QED
    BY <1>2, <1>3, <1>4, <1>5, Zenon

\* A restart keeps the invariant.
LEMMA CrashStep ==
    ASSUME ReceiptInv, CrashNext
    PROVE  Core' /\ Wanted'
  <1>0. TypeOK /\ Core
    BY Zenon DEF ReceiptInv, Core
  <1>1. NewProcess /\ UNCHANGED conv
    BY Zenon DEF CrashNext, Restart, RestartDuringWrite, NewProcess
  <1>2. \A o \in Owners : ~Live(o)'
    BY <1>0, <1>1, Zenon DEF TypeOK, NewProcess, Live, Idle
  <1>3. CASE Restart
    <2>1. UNCHANGED <<sched, gen, wanted>>
      BY <1>3, Zenon DEF Restart
    <2>. QED
      BY <1>0, <1>1, <1>2, <2>1, NewProcessStep, RestKeepsWanted, Zenon
      DEF Core, NothingScheduledWhenGone
  <1>4. CASE \E s \in Schedules \cup {None} : RestartDuringWrite(s)
    <2>. PICK s \in Schedules \cup {None} : WriteSchedule(s)
      BY <1>4, Zenon DEF RestartDuringWrite
    <2>1. conv = "live"
      BY Zenon DEF WriteSchedule
    <2>. QED
      BY <1>0, <1>1, <1>2, <2>1, NewProcessStep, WriteKeepsWanted, Zenon
  <1>. QED
    BY <1>3, <1>4, Zenon DEF CrashNext

\* Every step of the service, crashes included, keeps the invariant.
LEMMA StepInv == ReceiptInv /\ [Next]_vars => ReceiptInv'
  <1>. SUFFICES ASSUME ReceiptInv, [Next]_vars PROVE ReceiptInv'
    BY Zenon
  <1>0. TypeOK /\ Core
    BY Zenon DEF ReceiptInv, Core
  <1>1. TypeOK' /\ Core' /\ Wanted' => ReceiptInv'
    BY Zenon DEF ReceiptInv, Core, Wanted
  <1>2. CASE ClientNext
    BY <1>1, <1>2, ClientTypes, ClientStep, Zenon
  <1>3. CASE TickNext
    BY <1>1, <1>3, TickTypes, TickStep, Zenon
  <1>4. CASE HostNext
    BY <1>1, <1>4, HostNextStep, Zenon
  <1>5. CASE CrashNext
    BY <1>1, <1>5, CrashTypes, CrashStep, Zenon
  <1>6. CASE Advance \/ UNCHANGED vars
    <2>1. UNCHANGED <<run, receipt, sched, gen, wanted, conv, started>>
      BY <1>6, Zenon DEF Advance, vars, store, history
    <2>2. TypeOK'
      BY <1>0, <1>6, BoundsAssumption DEF TypeOK, Advance, vars, store, history
    <2>3. Core'
      BY <1>0, <2>1, ReceiptsOnly, Zenon DEF Core, NothingScheduledWhenGone
    <2>. QED
      BY <1>1, <2>1, <2>2, <2>3, RestKeepsWanted, Zenon DEF Live
  <1>. QED
    BY <1>2, <1>3, <1>4, <1>5, <1>6, Zenon DEF Next

\* The invariant of receipts and runs holds in every reachable state.
LEMMA ReceiptInvariance == Spec => []ReceiptInv
  BY InitInv, StepInv, PTL DEF Spec

\* The receipts, the schedule and the runs keep their types.
THEOREM TypeCorrect == Spec => []TypeOK
  <1>1. ReceiptInv => TypeOK
    BY Zenon DEF ReceiptInv
  <1>. QED
    BY <1>1, ReceiptInvariance, PTL

\* A prompt runs at most once per key, for any number of keys, runs, retries,
\* lease expiries and crashes.
THEOREM RunsAtMostOnce == Spec => []AtMostOnce
  <1>1. ReceiptInv => AtMostOnce
    BY Zenon DEF ReceiptInv
  <1>. QED
    BY <1>1, ReceiptInvariance, PTL

\* A receipt that says completed tells the truth, and one that says accepted has a
\* run in this process that will settle it.
THEOREM ReceiptsHonest == Spec => [](CompletedRan /\ AcceptedHasRun)
  <1>1. ReceiptInv => CompletedRan /\ AcceptedHasRun
    BY Zenon DEF ReceiptInv
  <1>. QED
    BY <1>1, ReceiptInvariance, PTL

\* No callback or restart turns on a schedule the user did not leave on.
THEOREM NeverTurnedOnAgain == Spec => []EnabledAsWanted
  <1>1. ReceiptInv => EnabledAsWanted
    BY Zenon DEF ReceiptInv
  <1>. QED
    BY <1>1, ReceiptInvariance, PTL

-----------------------------------------------------------------------------
(* The step simulation behind ImplementsPromptOnce *)

status == [k \in Keys |-> receipt[k].state]
AbstractStep == [Abstract!Next]_(Abstract!pvars)

\* Receipts that are at most given up simulate GiveUp, of no key if none is.
LEMMA GivesUp ==
    ASSUME UNCHANGED <<started, conv>>,
           \A k \in Keys :
               \/ receipt'[k].state = receipt[k].state
               \/ receipt[k].state = "accepted" /\ receipt'[k].state = "unknown"
    PROVE  AbstractStep
  <1>1. PICK K \in SUBSET Keys :
            K = {k \in Keys : receipt[k].state = "accepted" /\ receipt'[k].state = "unknown"}
    BY Zenon
  <1>2. Abstract!GiveUp(K)
    BY <1>1, Zenon DEF Abstract!GiveUp
  <1>. QED
    BY <1>2, Zenon DEF AbstractStep, Abstract!Next

\* A single receipt that changes its state: the abstract status is updated at its key.
LEMMA OneStatus ==
    ASSUME NEW k \in Keys, NEW s, receipt'[k].state = s,
           \A l \in Keys \ {k} : receipt'[l] = receipt[l]
    PROVE  status' = [status EXCEPT ![k] = s]
  BY Zenon DEF status

\* A reservation is an Accept of PromptOnce.
LEMMA ReserveSimulates ==
    ASSUME ReceiptInv, NEW k \in Keys, NEW p, NEW o, Reservable(k), UNCHANGED <<started, conv>>,
           receipt' = [receipt EXCEPT ![k] = Accepted(p, o)]
    PROVE  AbstractStep
  <1>1. receipt'[k].state = "accepted" /\ \A l \in Keys \ {k} : receipt'[l] = receipt[l]
    BY Zenon DEF ReceiptInv, TypeOK, Accepted
  <1>2. status' = [status EXCEPT ![k] = "accepted"]
    BY <1>1, OneStatus, Zenon
  <1>3. receipt[k].state = "none" /\ (conv = "deleted" \/ started[k] = 0)
    BY DEF ReceiptInv, TypeOK, Reservable, StartedReserved
  <1>4. Abstract!Accept(k)
    BY <1>2, <1>3, Zenon DEF Abstract!Accept, status
  <1>. QED
    BY <1>4, Zenon DEF AbstractStep, Abstract!Next

\* A reservation given up at once is a Refuse of PromptOnce.
LEMMA RejectSimulates ==
    ASSUME ReceiptInv, NEW k \in HttpKeys, NEW p, NEW o, HttpPromptRejected(k, p, o)
    PROVE  AbstractStep
  <1>1. k \in Keys /\ UNCHANGED <<started, conv>> /\ receipt[k].state = "none"
    BY Zenon DEF Keys, HttpPromptRejected, Reservable, history
  <1>2. receipt'[k].state = "unknown" /\ \A l \in Keys \ {k} : receipt'[l] = receipt[l]
    BY <1>1, Zenon DEF ReceiptInv, TypeOK, HttpPromptRejected, Accepted, GaveUp
  <1>3. status' = [status EXCEPT ![k] = "unknown"]
    BY <1>1, <1>2, OneStatus, Zenon
  <1>4. Abstract!Refuse(k)
    BY <1>1, <1>3, Zenon DEF Abstract!Refuse, status
  <1>. QED
    BY <1>1, <1>4, Zenon DEF AbstractStep, Abstract!Next

\* Handing the prompt to Pi is a Start of PromptOnce.
LEMMA ExecuteSimulates ==
    ASSUME ReceiptInv, NEW o \in Owners, Execute(o)
    PROVE  AbstractStep
  <1>. PICK k : k = run[o].key
    BY Zenon
  <1>0. k \in Keys /\ Live(o) /\ started[k] = 0 /\ UNCHANGED <<receipt, conv>>
    BY Zenon DEF ReceiptInv, Execute, Live, RunsKeyed, NotStartedYet, HostOnly, store
  <1>1. started' = [started EXCEPT ![k] = 1]
    BY <1>0 DEF ReceiptInv, TypeOK, Execute
  <1>2. conv = "deleted" \/ receipt[k].state \in {"accepted", "unknown"}
    BY <1>0 DEF ReceiptInv, TypeOK, Receipt, RunsReserved, CompletedRan
  <1>3. Abstract!Start(k)
    BY <1>0, <1>1, <1>2, Zenon DEF Abstract!Start
  <1>. QED
    BY <1>0, <1>3, Zenon DEF AbstractStep, Abstract!Next

\* A callback completes, gives up or gives back its receipt, or finds it settled.
LEMMA CallbackSimulates ==
    ASSUME ReceiptInv, NEW o \in Owners, CallbackMarks(o) \/ CallbackReleases(o)
    PROVE  AbstractStep
  <1>. PICK k : k = run[o].key
    BY Zenon
  <1>1. /\ k \in Keys /\ Live(o) /\ run[o].phase = "closing" /\ UNCHANGED <<started, conv>>
    BY Zenon DEF ReceiptInv, CallbackMarks, CallbackReleases, RunsKeyed, Live, history
  <1>2. CASE CallbackReleases(o)
    <2>1. receipt'[k].state = "none" /\ \A l \in Keys \ {k} : receipt'[l] = receipt[l]
      BY <1>1, <1>2, Zenon DEF ReceiptInv, TypeOK, CallbackReleases, NoReceipt
    <2>2. status' = [status EXCEPT ![k] = "none"]
      BY <1>1, <2>1, OneStatus, Zenon
    <2>3. receipt[k].state = "accepted" /\ receipt[k].owner = o /\ run[o].outcome = "unauthorized" /\ run[o].sched # None
      BY <1>2, Zenon DEF CallbackReleases, Holds, Releasable
    <2>4. started[k] = 0
      BY <1>1, <2>3, Zenon DEF ReceiptInv, TypeOK, NotStartedYet, NothingScheduledWhenGone
    <2>5. Abstract!Release(k)
      BY <1>1, <2>2, <2>3, <2>4, Zenon DEF Abstract!Release, status
    <2>. QED
      BY <1>1, <2>5, Zenon DEF AbstractStep, Abstract!Next
  <1>3. CASE CallbackMarks(o) /\ Proven(o) /\ Holds(k, o)
    <2>1. receipt'[k].state = "completed" /\ \A l \in Keys \ {k} : receipt'[l] = receipt[l]
      BY <1>1, <1>3, Zenon DEF ReceiptInv, TypeOK, Receipt, CallbackMarks, MarkCompleted
    <2>2. status' = [status EXCEPT ![k] = "completed"]
      BY <1>1, <2>1, OneStatus, Zenon
    <2>3. receipt[k].state = "accepted" /\ started[k] = 1
      BY <1>1, <1>3, Zenon DEF ReceiptInv, StartedAlready, Holds
    <2>4. Abstract!Complete(k)
      BY <1>1, <2>2, <2>3, Zenon DEF Abstract!Complete, status
    <2>. QED
      BY <1>1, <2>4, Zenon DEF AbstractStep, Abstract!Next
  <1>4. CASE CallbackMarks(o) /\ ~(Proven(o) /\ Holds(k, o))
    <2>1. \A l \in Keys : \/ receipt'[l].state = receipt[l].state
                          \/ receipt[l].state = "accepted" /\ receipt'[l].state = "unknown"
      BY <1>1, <1>4, RecordsTyped, Zenon
      DEF ReceiptInv, TypeOK, CallbackMarks, MarkCompleted, MarkUnknown, Holds
    <2>. QED
      BY <1>1, <2>1, GivesUp, Zenon
  <1>. QED
    BY <1>2, <1>3, <1>4, Zenon

\* The initial state is one of PromptOnce.
LEMMA InitSimulates == Init => Abstract!Init
  BY DEF Init, Abstract!Init, NoReceipt

\* Every step is a step of PromptOnce or changes nothing PromptOnce sees.
LEMMA StepSimulates == ReceiptInv /\ [Next]_vars => AbstractStep
  <1>. SUFFICES ASSUME ReceiptInv, [Next]_vars PROVE AbstractStep
    BY Zenon
  <1>0. TypeOK
    BY Zenon DEF ReceiptInv
  <1>1. CASE \E k \in HttpKeys, p \in Prompts, o \in Owners : HttpPrompt(k, p, o)
    BY <1>1, ReserveSimulates, Zenon DEF HttpPrompt, Keys, history
  <1>2. CASE \E k \in HttpKeys, p \in Prompts, o \in Owners : HttpPromptRejected(k, p, o)
    BY <1>2, RejectSimulates, Zenon
  <1>3. CASE \E k \in Keys : ObserveReceipt(k)
    <2>. PICK k \in Keys : ObserveReceipt(k)
      BY <1>3, Zenon
    <2>1. \A l \in Keys : \/ receipt'[l].state = receipt[l].state
                          \/ receipt[l].state = "accepted" /\ receipt'[l].state = "unknown"
      BY <1>0, RecordsTyped, Zenon DEF TypeOK, ObserveReceipt, Expired
    <2>. QED
      BY <2>1, GivesUp, Zenon DEF ObserveReceipt, history
  <1>4. CASE DeleteConversation
    <2>1. Abstract!Delete
      BY <1>4, Zenon DEF DeleteConversation, Abstract!Delete, NoReceipt
    <2>. QED
      BY <2>1, Zenon DEF AbstractStep, Abstract!Next
  <1>5. CASE TickRefused
    <2>1. DueKey \in Keys /\ receipt' = ReserveExisting(DueKey, tick.sched.prompt) /\ UNCHANGED <<started, conv>>
      BY <1>0, <1>5, DueTyped, Zenon DEF TickRefused, TickEnd, history
    <2>2. \A l \in Keys : \/ receipt'[l].state = receipt[l].state
                          \/ receipt[l].state = "accepted" /\ receipt'[l].state = "unknown"
      BY <1>0, <2>1, RecordsTyped, Zenon DEF TypeOK, ReserveExisting, Expired
    <2>. QED
      BY <2>1, <2>2, GivesUp, Zenon
  <1>6. CASE \E o \in Owners : TickLaunch(o)
    <2>. PICK o \in Owners : TickLaunch(o)
      BY <1>6, Zenon
    <2>1. PICK k \in Keys : k = DueKey
      BY <1>0, DueTyped, Zenon DEF TickLaunch
    <2>2. PICK p : p = tick.sched.prompt
      BY Zenon
    <2>3. Reservable(k) /\ receipt' = [receipt EXCEPT ![k] = Accepted(p, o)] /\ UNCHANGED <<started, conv>>
      BY <2>1, <2>2, Zenon DEF TickLaunch, TickEnd, history
    <2>. QED
      BY <2>3, ReserveSimulates, Zenon
  <1>7. CASE \E o \in Owners : Execute(o)
    BY <1>7, ExecuteSimulates, Zenon
  <1>8. CASE \E o \in Owners : Heartbeat(o)
    <2>. PICK o \in Owners : Heartbeat(o)
      BY <1>8, Zenon
    <2>1. \A l \in Keys : receipt'[l].state = receipt[l].state
      BY <1>0, Zenon DEF TypeOK, Heartbeat, Receipt
    <2>. QED
      BY <2>1, GivesUp, Zenon DEF Heartbeat, history
  <1>9. CASE \E o \in Owners : CallbackMarks(o) \/ CallbackReleases(o)
    BY <1>9, CallbackSimulates, Zenon
  <1>10. CASE CrashNext
    <2>1. NewProcess
      BY <1>10, Zenon DEF CrashNext, Restart, RestartDuringWrite
    <2>2. \A l \in Keys : \/ receipt'[l].state = receipt[l].state
                          \/ receipt[l].state = "accepted" /\ receipt'[l].state = "unknown"
      BY <1>0, <2>1, RecordsTyped, Zenon DEF TypeOK, NewProcess, Recovered
    <2>. QED
      BY <2>1, <2>2, GivesUp, Zenon DEF NewProcess
  <1>11. CASE \/ \E s \in Schedules \cup {None} : UserSchedule(s)
              \/ AuthChange \/ Advance \/ UNCHANGED vars
              \/ TickStart \/ TickUnscheduled \/ TickDisabled \/ TickNothingDue \/ TickOverlap \/ TickUnauthorized
              \/ \E o \in Owners : Begin(o) \/ BeginFails(o) \/ Unauthorized(o) \/ Settle(o)
    <2>1. UNCHANGED <<receipt, started, conv>>
      BY <1>11, Zenon
      DEF UserSchedule, AuthChange, Advance, vars, TickStart, TickUnscheduled, TickDisabled,
         TickNothingDue, TickOverlap, TickUnauthorized, TickEnd, Begin, BeginFails, Unauthorized, Settle,
         HostOnly, store, history
    <2>. QED
      BY <2>1, GivesUp, Zenon
  <1>. QED
    BY <1>1, <1>2, <1>3, <1>4, <1>5, <1>6, <1>7, <1>8, <1>9, <1>10, <1>11, Zenon
       DEF Next, ClientNext, TickNext, HostNext

\* The receipts of the service, with schedules, leases, retries and restarts,
\* implement PromptOnce.
THEOREM Refinement == Spec => ImplementsPromptOnce
  BY InitSimulates, StepSimulates, ReceiptInvariance, PTL
     DEF Spec, ImplementsPromptOnce, Abstract!Spec, AbstractStep

\* A settled receipt never changes while its conversation exists.
THEOREM SettledForGood == Spec => SettledStays
  <1> DEFINE Stays == \A k \in Keys : receipt[k].state \in {"completed", "unknown"} /\ conv' = "live"
                         => receipt'[k] = receipt[k]
  <1>1. ReceiptInv /\ [Next]_vars => [Stays]_vars
    <2>. SUFFICES ASSUME ReceiptInv, Next, NEW k \in Keys,
                         receipt[k].state \in {"completed", "unknown"}, conv' = "live"
                  PROVE  receipt'[k] = receipt[k]
      BY Zenon
    <2>0. TypeOK
      BY Zenon DEF ReceiptInv
    <2>1. CASE ClientNext
      BY <2>0, <2>1, Zenon
      DEF TypeOK, ClientNext, HttpPrompt, HttpPromptRejected, ObserveReceipt, UserSchedule,
         DeleteConversation, AuthChange, Reservable, Expired, store
    <2>2. CASE TickNext
      BY <2>0, <2>2, Zenon
      DEF TypeOK, TickNext, TickStart, TickUnscheduled, TickDisabled, TickNothingDue,
         TickOverlap, TickUnauthorized, TickRefused, TickLaunch, Reservable, ReserveExisting, Expired, store
    <2>3. CASE HostNext
      BY <2>0, <2>3, Zenon
      DEF TypeOK, HostNext, Begin, BeginFails, Unauthorized, Execute, Settle, Heartbeat,
         CallbackMarks, CallbackReleases, MarkCompleted, MarkUnknown, Holds, HostOnly, store
    <2>4. CASE CrashNext
      BY <2>0, <2>4, Zenon
      DEF TypeOK, CrashNext, Restart, RestartDuringWrite, NewProcess, Recovered
    <2>5. CASE Advance
      BY <2>5, Zenon DEF Advance, store
    <2>. QED
      BY <2>1, <2>2, <2>3, <2>4, <2>5, Zenon DEF Next
  <1>. QED
    BY <1>1, ReceiptInvariance, PTL DEF Spec, SettledStays

-----------------------------------------------------------------------------
(* The schedule, its generations and its retry markers *)

\* What a step may do to the runs when it launches no schedule: no run changes what
\* it was launched for, and a new one is not of a schedule.
RunsGoOn ==
    \A o \in Owners : Live(o)' /\ run'[o].sched # None =>
        /\ Live(o)
        /\ run'[o].sched = run[o].sched /\ run'[o].key = run[o].key /\ run'[o].gen = run[o].gen

\* The schedule part of a state in which nothing is scheduled.
LEMMA InitSchedule == Init => ScheduleInv
  BY DEF Init, ScheduleInv, CopyIsCurrent, MarkersFit, MarkerFits, RunFits, Live, Idle, TickSpares,
     ReleasedOneShotKept

\* A step that leaves the schedule, its markers and the tick alone.
LEMMA QuietSchedule ==
    ASSUME ScheduleInv, RunsGoOn, UNCHANGED <<tick, conv, sched, gen, retry, memRetry, relGen>>
    PROVE  ScheduleInv'
  <1>1. CopyIsCurrent' /\ MarkersFit' /\ (relGen <= gen)' /\ TickSpares' /\ ReleasedOneShotKept'
    BY Zenon
    DEF ScheduleInv, CopyIsCurrent, MarkersFit, MarkerFits, TickSpares, ReleasedOneShotKept, ForSchedule
  <1>2. \A o \in Owners : RunFits(o)'
    BY Zenon DEF ScheduleInv, RunFits, RunsGoOn
  <1>. QED
    BY <1>1, <1>2, Zenon DEF ScheduleInv

\* A new generation: whatever markers, copies and runs there are, they are older.
LEMMA NewGeneration ==
    ASSUME TypeOK, ScheduleInv, RunsGoOn, gen' = gen + 1, UNCHANGED <<conv, relGen>>,
           LaunchedAsWanted,
           retry' \in {retry, None}, memRetry' \in {memRetry, None}, tick' \in {tick, None}
    PROVE  ScheduleInv'
  <1>0. /\ gen \in Nat /\ relGen \in Nat
        /\ retry # None => retry.gen \in Nat
        /\ memRetry # None => memRetry.gen \in Nat
        /\ tick # None => tick.gen \in Nat /\ (tick.retry # None => tick.retry.gen \in Nat)
    BY Zenon DEF TypeOK, Retry, Tick
  <1>1. CopyIsCurrent'
    BY <1>0 DEF ScheduleInv, CopyIsCurrent
  <1>2. MarkersFit'
    BY <1>0 DEF ScheduleInv, MarkersFit, MarkerFits
  <1>3. \A o \in Owners : RunFits(o)'
    <2>. SUFFICES ASSUME NEW o \in Owners, Live(o)', run'[o].sched # None, OneShot(run'[o].sched)
                  PROVE  /\ run'[o].key = OccurrenceKey(run'[o].sched.id, run'[o].sched.at)
                         /\ run'[o].gen # gen'
      BY Zenon DEF RunFits
    <2>1. run[o].gen \in Nat /\ run[o].gen <= gen
      BY Zenon DEF TypeOK, Run, LaunchedAsWanted, RunsGoOn
    <2>. QED
      BY <1>0, <2>1 DEF ScheduleInv, RunFits, RunsGoOn
  <1>4. (relGen <= gen)' /\ (relGen # gen)'
    BY <1>0 DEF ScheduleInv
  <1>. QED
    BY <1>1, <1>2, <1>3, <1>4, Zenon DEF ScheduleInv, TickSpares, ReleasedOneShotKept

\* A tick that launches nothing may drop markers, but never that of the last release.
LEMMA TickEnds ==
    ASSUME TypeOK, ScheduleInv, RunsGoOn, tick' = None, UNCHANGED <<conv, sched, gen, relGen>>,
           retry' \in {retry, None}, memRetry' \in {memRetry, None},
           conv = "live" /\ relGen > 0 /\ gen = relGen => retry' = retry
    PROVE  ScheduleInv'
  <1>1. CopyIsCurrent' /\ MarkersFit' /\ (relGen <= gen)' /\ TickSpares'
    BY Zenon DEF ScheduleInv, CopyIsCurrent, MarkersFit, MarkerFits, TickSpares
  <1>2. \A o \in Owners : RunFits(o)'
    BY Zenon DEF ScheduleInv, RunFits, RunsGoOn
  <1>3. ReleasedOneShotKept'
    BY Zenon DEF ScheduleInv, ReleasedOneShotKept, ForSchedule
  <1>. QED
    BY <1>1, <1>2, <1>3, Zenon DEF ScheduleInv

\* Such a tick finds the marker of the last release matching, if it read one.
LEMMA MarkerSpared ==
    ASSUME ScheduleInv, tick # None, conv = "live", relGen > 0, gen = relGen, tick.retry # None
    PROVE  StoredMatches /\ tick.sched # None /\ tick.sched.enabled
  BY Zenon
  DEF ScheduleInv, TickSpares, CopyIsCurrent, ReleasedOneShotKept, StoredMatches, ForSchedule

\* A tick launches the one-shot in the row for its own instant, whatever it read.
LEMMA LaunchInstant ==
    ASSUME ReceiptInv, ScheduleInv, TickDue, ScheduleCurrent(tick.sched, tick.gen)
    PROVE  /\ conv = "live" /\ tick.sched = sched /\ tick.gen = gen
           /\ OneShot(sched) => Due = sched.at
  <1>1. conv = "live"
    BY Zenon DEF ReceiptInv, TypeOK, NothingScheduledWhenGone, ScheduleCurrent
  <1>2. tick.sched = sched /\ tick.gen = gen
    BY <1>1, Zenon DEF ScheduleInv, CopyIsCurrent, ScheduleCurrent, TickDue, TickEnabled
  <1>3. ASSUME OneShot(sched) PROVE Due = sched.at
    <2>1. CASE MemMatches
      BY <1>1, <1>2, <2>1, Zenon
      DEF ScheduleInv, MarkersFit, MarkerFits, MemMatches, ForSchedule, Due
    <2>2. CASE ~MemMatches /\ StoredMatches
      BY <1>1, <1>2, <2>2, Zenon
      DEF ScheduleInv, MarkersFit, MarkerFits, StoredMatches, ForSchedule, Due,
         TickDue, TickEnabled
    <2>3. CASE ~MemMatches /\ ~StoredMatches
      BY <1>2, <1>3, <2>3, Zenon DEF Due, Occurrence, TickDue
    <2>. QED
      BY <2>1, <2>2, <2>3, Zenon
  <1>. QED
    BY <1>1, <1>2, <1>3, Zenon

\* The launch of a schedule.
LEMMA LaunchSchedule ==
    ASSUME ReceiptInv, ScheduleInv, NEW o \in Owners, TickLaunch(o)
    PROVE  ScheduleInv'
  <1>0. TypeOK /\ LaunchedAsWanted /\ TickDue /\ gen \in Nat /\ relGen \in Nat
    BY Zenon DEF ReceiptInv, TickLaunch, TypeOK
  <1>1. /\ conv = "live" /\ tick.sched = sched /\ tick.gen = gen
        /\ OneShot(sched) => Due = sched.at
    BY LaunchInstant, Zenon DEF TickLaunch
  <1>2. /\ tick' = None /\ retry' = None /\ memRetry' = None /\ UNCHANGED <<conv, relGen>>
        /\ run' = [run EXCEPT ![o] = [phase |-> "queued", key |-> DueKey, sched |-> tick.sched,
                       gen |-> IF OneShot(tick.sched) THEN tick.gen + 1 ELSE 0, outcome |-> None]]
    BY Zenon DEF TickLaunch, TickEnd, Enqueue, history
  <1>3. /\ \A q \in Owners \ {o} : run'[q] = run[q] /\ Live(q)' = Live(q)
        /\ run'[o].sched = sched /\ run'[o].key = DueKey
        /\ OneShot(sched) => run'[o].gen = gen + 1
    BY <1>0, <1>1, <1>2, Zenon DEF TypeOK, Live
  <1>4. tick # None /\ sched # None
    BY <1>0, <1>1, Zenon DEF TickDue, TickEnabled
  <1>5. CASE OneShot(sched)
    <2>1. gen' = gen + 1 /\ sched' = [sched EXCEPT !.enabled = FALSE]
      BY <1>1, <1>5, Zenon DEF TickLaunch
    <2>2. sched \in Schedule /\ sched' \in Schedule /\ sched' # None
          /\ sched'.at = sched.at /\ OneShot(sched')
      BY <1>0, <1>4, <1>5, <2>1, SwitchTyped, NoneAssumption, Zenon
      DEF TypeOK, Schedule, OneShot
    <2>3. \A q \in Owners \ {o} : RunFits(q)'
      <3>. SUFFICES ASSUME NEW q \in Owners \ {o}, Live(q), run[q].sched # None, OneShot(run[q].sched)
                    PROVE  /\ run[q].key = OccurrenceKey(run[q].sched.id, run[q].sched.at)
                           /\ run[q].gen # gen'
        BY <1>3, Zenon DEF RunFits
      <3>1. run[q].gen \in Nat /\ run[q].gen <= gen
        BY <1>0, Zenon DEF TypeOK, Run, LaunchedAsWanted
      <3>. QED
        BY <1>0, <2>1, <3>1 DEF ScheduleInv, RunFits
    <2>4. RunFits(o)'
      BY <1>1, <1>2, <1>3, <1>5, <2>2, Zenon DEF RunFits, DueKey
    <2>5. (relGen <= gen)' /\ (relGen # gen)'
      BY <1>0, <1>2, <2>1 DEF ScheduleInv
    <2>. QED
      BY <1>2, <2>3, <2>4, <2>5, Zenon
      DEF ScheduleInv, CopyIsCurrent, MarkersFit, MarkerFits, TickSpares,
         ReleasedOneShotKept
  <1>6. CASE ~OneShot(sched)
    <2>1. UNCHANGED <<sched, gen>>
      BY <1>1, <1>6, Zenon DEF TickLaunch
    <2>2. \A q \in Owners : RunFits(q)'
      BY <1>2, <1>3, <1>6, <2>1, Zenon DEF ScheduleInv, RunFits
    <2>3. ~(relGen > 0 /\ gen = relGen)
      <3>1. SUFFICES ASSUME relGen > 0, gen = relGen PROVE FALSE
        BY Zenon
      <3>2. retry # None /\ retry.gen = gen
        BY <1>1, <3>1, Zenon DEF ScheduleInv, ReleasedOneShotKept, ForSchedule
      <3>. QED
        BY <1>1, <1>6, <3>2, Zenon DEF ScheduleInv, MarkersFit, MarkerFits
    <2>. QED
      BY <1>2, <2>1, <2>2, <2>3, Zenon
      DEF ScheduleInv, CopyIsCurrent, MarkersFit, MarkerFits, TickSpares,
         ReleasedOneShotKept
  <1>. QED
    BY <1>5, <1>6, Zenon

\* A release that switches the one-shot on again leaves a marker for its instant.
LEMMA ReleaseSchedule ==
    ASSUME ReceiptInv, ScheduleInv, NEW o \in Owners, CallbackReleases(o), ReleaseMatches(o)
    PROVE  ScheduleInv'
  <1>0. TypeOK /\ LaunchedAsWanted /\ gen \in Nat /\ relGen \in Nat /\ run[o] \in Run
    BY Zenon DEF ReceiptInv, TypeOK
  <1>1. /\ Live(o) /\ run[o].sched # None /\ OneShot(run[o].sched)
        /\ gen = run[o].gen /\ sched # None
        /\ sched.id = run[o].sched.id /\ sched.rev = run[o].sched.rev
    BY Zenon DEF CallbackReleases, Releasable, ReleaseMatches, Live
  <1>2. conv = "live"
    BY <1>0, <1>1, Zenon DEF ReceiptInv, TypeOK, NothingScheduledWhenGone
  <1>3. /\ run[o].key = OccurrenceKey(run[o].sched.id, run[o].sched.at)
        /\ OneShot(sched) /\ sched.at = run[o].sched.at
        /\ tick # None => tick.retry = None
    BY <1>1, <1>2, Zenon DEF ScheduleInv, RunFits
  <1>4. /\ sched' = [sched EXCEPT !.enabled = TRUE] /\ gen' = gen + 1 /\ relGen' = gen + 1
        /\ retry' = ReleasedRetry(o) /\ memRetry' = [ReleasedRetry(o) EXCEPT !.gen = gen + 1]
        /\ UNCHANGED <<tick, conv>>
    BY Zenon DEF CallbackReleases
  <1>5. /\ sched \in Schedule /\ sched' \in Schedule /\ sched' # None
        /\ sched'.enabled /\ sched'.at = sched.at /\ OneShot(sched')
        /\ sched'.id = sched.id /\ sched'.rev = sched.rev
    BY <1>0, <1>1, <1>3, <1>4, SwitchTyped, NoneAssumption, Zenon DEF TypeOK, Schedule, OneShot
  <1>6. /\ retry'.id = sched.id /\ retry'.rev = sched.rev /\ retry'.gen = gen' /\ retry'.occ = sched.at
        /\ memRetry'.gen = gen' /\ memRetry'.occ = sched.at
    BY <1>1, <1>3, <1>4 DEF ReleasedRetry
  <1>7. retry' # None
    <2>1. ReleasedRetry(o) \in Retry
      BY <1>0, <1>1 DEF ReceiptInv, RunsKeyed, ReleasedRetry, Run, Schedule, Retry, Keys
    <2>. QED
      BY <1>4, <2>1, NoMarkerAssumption, Zenon
  <1>8. CopyIsCurrent'
    BY <1>0, <1>4 DEF ScheduleInv, CopyIsCurrent, TypeOK, Tick
  <1>9. MarkersFit'
    BY <1>0, <1>3, <1>4, <1>5, <1>6 DEF MarkersFit, MarkerFits
  <1>10. \A q \in Owners : RunFits(q)'
    <2>. SUFFICES ASSUME NEW q \in Owners, Live(q)', run'[q].sched # None, OneShot(run'[q].sched)
                  PROVE  /\ run'[q].key = OccurrenceKey(run'[q].sched.id, run'[q].sched.at)
                         /\ run'[q].gen # gen'
      BY Zenon DEF RunFits
    <2>1. run'[q] = run[q] /\ Live(q)
      BY <1>0, Zenon DEF TypeOK, CallbackReleases, Finish, Idle, Live
    <2>2. run[q].gen \in Nat /\ run[q].gen <= gen
      BY <1>0, <2>1, Zenon DEF TypeOK, Run, LaunchedAsWanted
    <2>. QED
      BY <1>0, <1>4, <2>1, <2>2 DEF ScheduleInv, RunFits
  <1>11. TickSpares' /\ ReleasedOneShotKept' /\ (relGen <= gen)'
    BY <1>0, <1>3, <1>4, <1>5, <1>6, <1>7 DEF TickSpares, ReleasedOneShotKept, ForSchedule
  <1>. QED
    BY <1>8, <1>9, <1>10, <1>11, Zenon DEF ScheduleInv

\* The clients' steps keep the schedule part.
LEMMA ClientSchedule ==
    ASSUME ReceiptInv, ScheduleInv, ClientNext
    PROVE  ScheduleInv'
  <1>0. TypeOK /\ LaunchedAsWanted
    BY Zenon DEF ReceiptInv
  <1>1. CASE \E k \in HttpKeys, p \in Prompts, o \in Owners : HttpPrompt(k, p, o) \/ HttpPromptRejected(k, p, o)
    <2>1. RunsGoOn
      BY <1>0, <1>1 DEF TypeOK, RunsGoOn, HttpPrompt, HttpPromptRejected, Enqueue, Idle, Live
    <2>. QED
      BY <1>1, <2>1, QuietSchedule, Zenon DEF HttpPrompt, HttpPromptRejected, history
  <1>2. CASE (\E k \in Keys : ObserveReceipt(k)) \/ AuthChange
    <2>1. UNCHANGED <<tick, conv, sched, gen, retry, memRetry, relGen, run>>
      BY <1>2, Zenon DEF ObserveReceipt, AuthChange, store, history
    <2>2. RunsGoOn
      BY <2>1, Zenon DEF RunsGoOn, Live
    <2>. QED
      BY <2>1, <2>2, QuietSchedule, Zenon
  <1>3. CASE \E s \in Schedules \cup {None} : UserSchedule(s)
    <2>1. /\ gen' = gen + 1 /\ retry' = None
          /\ UNCHANGED <<tick, conv, memRetry, relGen, run>>
      BY <1>3, Zenon DEF UserSchedule, WriteSchedule
    <2>2. RunsGoOn
      BY <2>1, Zenon DEF RunsGoOn, Live
    <2>. QED
      BY <1>0, <2>1, <2>2, NewGeneration, Zenon
  <1>4. CASE DeleteConversation
    <2>1. conv' = "deleted" /\ retry' = None /\ UNCHANGED <<tick, gen, memRetry, run, relGen>>
      BY <1>4, Zenon DEF DeleteConversation
    <2>2. CopyIsCurrent' /\ MarkersFit' /\ (relGen <= gen)' /\ TickSpares' /\ ReleasedOneShotKept'
      BY <2>1, Zenon
      DEF ScheduleInv, CopyIsCurrent, MarkersFit, MarkerFits, TickSpares, ReleasedOneShotKept
    <2>3. \A o \in Owners : RunFits(o)'
      BY <2>1, Zenon DEF ScheduleInv, RunFits, Live
    <2>. QED
      BY <2>2, <2>3, Zenon DEF ScheduleInv
  <1>. QED
    BY <1>1, <1>2, <1>3, <1>4, Zenon DEF ClientNext

\* The steps of a tick keep the schedule part.
LEMMA TickSchedule ==
    ASSUME ReceiptInv, ScheduleInv, TickNext
    PROVE  ScheduleInv'
  <1>0. TypeOK
    BY Zenon DEF ReceiptInv
  <1>1. CASE TickStart
    <2>1. /\ tick' = [prev |-> lastTick, at |-> now, sched |-> sched, gen |-> gen, retry |-> retry]
          /\ UNCHANGED <<conv, sched, gen, retry, memRetry, relGen, run>>
      BY <1>1, Zenon DEF TickStart, store, history
    <2>2. tick'.sched = sched /\ tick'.gen = gen /\ tick'.retry = retry /\ gen \in Nat
      BY <1>0, <2>1, Zenon DEF TypeOK
    <2>3. CopyIsCurrent' /\ MarkersFit' /\ (relGen <= gen)' /\ TickSpares' /\ ReleasedOneShotKept'
      BY <2>1, <2>2 DEF ScheduleInv, CopyIsCurrent, MarkersFit, MarkerFits, TickSpares,
         ReleasedOneShotKept, ForSchedule
    <2>4. \A o \in Owners : RunFits(o)'
      BY <2>1, <2>2, Zenon DEF ScheduleInv, RunFits, Live
    <2>. QED
      BY <2>3, <2>4, Zenon DEF ScheduleInv
  <1>2. CASE TickUnscheduled \/ TickDisabled \/ TickNothingDue \/ TickOverlap \/ TickUnauthorized \/ TickRefused
    <2>1. tick # None /\ tick' = None /\ UNCHANGED <<conv, sched, gen, relGen, run>>
      BY <1>2, Zenon
      DEF TickUnscheduled, TickDisabled, TickNothingDue, TickOverlap, TickUnauthorized, TickRefused,
         TickDue, TickEnabled, TickEnd, history
    <2>2. retry' \in {retry, None} /\ memRetry' \in {memRetry, None}
      BY <1>2, Zenon
      DEF TickUnscheduled, TickDisabled, TickNothingDue, TickOverlap, TickUnauthorized, TickRefused,
         DropStaleRetries
    <2>3. ASSUME conv = "live", relGen > 0, gen = relGen PROVE retry' = retry
      <3>1. tick.retry # None => StoredMatches /\ tick.sched # None /\ tick.sched.enabled
        BY <2>1, <2>3, MarkerSpared, Zenon
      <3>. QED
        BY <1>2, <3>1, Zenon
        DEF TickUnscheduled, TickDisabled, TickNothingDue, TickOverlap, TickUnauthorized,
           TickRefused, DropStaleRetries
    <2>4. RunsGoOn
      BY <2>1, Zenon DEF RunsGoOn, Live
    <2>. QED
      BY <1>0, <2>1, <2>2, <2>3, <2>4, TickEnds, Zenon
  <1>3. CASE \E o \in Owners : TickLaunch(o)
    BY <1>3, LaunchSchedule, Zenon
  <1>. QED
    BY <1>1, <1>2, <1>3, Zenon DEF TickNext

\* The runs and their callbacks keep the schedule part.
LEMMA HostSchedule ==
    ASSUME ReceiptInv, ScheduleInv, HostNext
    PROVE  ScheduleInv'
  <1>0. TypeOK
    BY Zenon DEF ReceiptInv
  <1>. PICK o \in Owners :
            \/ Begin(o) \/ BeginFails(o) \/ Unauthorized(o) \/ Execute(o) \/ Settle(o)
            \/ Heartbeat(o) \/ CallbackMarks(o) \/ CallbackReleases(o)
    BY Zenon DEF HostNext
  <1>1. CASE CallbackReleases(o) /\ ReleaseMatches(o)
    BY <1>1, ReleaseSchedule, Zenon
  <1>2. CASE ~(CallbackReleases(o) /\ ReleaseMatches(o))
    <2>1. UNCHANGED <<tick, conv, sched, gen, retry, memRetry, relGen>>
      BY <1>2, Zenon
      DEF Begin, BeginFails, Unauthorized, Execute, Settle, Heartbeat, CallbackMarks,
         CallbackReleases, HostOnly, store, history
    <2>2. RunsGoOn
      BY <1>0 DEF TypeOK, Run, RunsGoOn, Live, Begin, BeginFails, Unauthorized, BeforeExecution, Execute,
         Settle, Close, Heartbeat, CallbackMarks, CallbackReleases, Finish, Idle
    <2>. QED
      BY <2>1, <2>2, QuietSchedule, Zenon
  <1>. QED
    BY <1>1, <1>2, Zenon

\* A restart keeps the schedule part.
LEMMA CrashSchedule ==
    ASSUME ReceiptInv, ScheduleInv, CrashNext
    PROVE  ScheduleInv'
  <1>0. TypeOK /\ LaunchedAsWanted
    BY Zenon DEF ReceiptInv
  <1>1. /\ tick' = None /\ memRetry' = None /\ UNCHANGED <<conv, retry, relGen>>
        /\ \A o \in Owners : ~Live(o)'
    BY <1>0 DEF CrashNext, Restart, RestartDuringWrite, NewProcess, TypeOK, Live, Idle
  <1>2. RunsGoOn
    BY <1>1, Zenon DEF RunsGoOn
  <1>3. CASE Restart
    BY <1>0, <1>1, <1>2, <1>3, TickEnds, Zenon DEF Restart
  <1>4. CASE \E s \in Schedules \cup {None} : RestartDuringWrite(s)
    BY <1>0, <1>1, <1>2, <1>4, NewGeneration, Zenon DEF RestartDuringWrite, WriteSchedule
  <1>. QED
    BY <1>3, <1>4, Zenon DEF CrashNext

\* A run that a step finds not started it leaves as it is, or it enqueues a prompt on
\* it: one sent over HTTP, which has no schedule, or the tick's.
LEMMA FreshStep ==
    ASSUME TypeOK, [Next]_vars, NEW o \in Owners
    PROVE  /\ run'[o].phase = "fresh" => run'[o] = run[o]
           /\ run[o].phase = "fresh" =>
                 run'[o] = run[o] \/ run'[o].sched = None \/ TickLaunch(o)
  <1>0. run \in [Owners -> Run]
    BY Zenon DEF TypeOK
  <1>1. CASE ClientNext
    BY <1>0, <1>1 DEF ClientNext, HttpPrompt, HttpPromptRejected, Enqueue, Idle, ObserveReceipt,
       UserSchedule, DeleteConversation, AuthChange
  <1>2. CASE TickNext
    <2>1. CASE \E q \in Owners : TickLaunch(q)
      <3>. PICK q \in Owners : TickLaunch(q)
        BY <2>1, Zenon
      <3>1. /\ run' = [run EXCEPT ![q] = run'[q]]
            /\ run'[q].phase = "queued"
        BY <1>0, Zenon DEF TickLaunch, Enqueue
      <3>. QED
        BY <1>0, <3>1, Zenon
    <2>2. CASE ~(\E q \in Owners : TickLaunch(q))
      <3>1. run' = run
        BY <1>2, <2>2, Zenon
        DEF TickNext, TickStart, TickUnscheduled, TickDisabled, TickNothingDue, TickOverlap,
           TickUnauthorized, TickRefused
      <3>. QED
        BY <3>1, Zenon
    <2>. QED
      BY <2>1, <2>2, Zenon
  <1>3. CASE HostNext
    BY <1>0, <1>3 DEF HostNext, Run, Begin, BeginFails, Unauthorized, BeforeExecution, Execute,
       Settle, Close, Heartbeat, CallbackMarks, CallbackReleases, Finish, Idle
  <1>4. CASE CrashNext
    BY <1>0, <1>4 DEF CrashNext, Restart, RestartDuringWrite, NewProcess, Live, Idle
  <1>5. CASE Advance \/ UNCHANGED vars
    BY <1>5, Zenon DEF Advance, vars
  <1>. QED
    BY <1>1, <1>2, <1>3, <1>4, <1>5, Zenon DEF Next

\* Every step keeps the whole invariant.
LEMMA StepPromptInv == PromptInv /\ [Next]_vars => PromptInv'
  <1>. SUFFICES ASSUME PromptInv, [Next]_vars PROVE ScheduleInv' /\ FreshIsIdle'
    BY StepInv, Zenon DEF PromptInv
  <1>1. CASE Advance \/ UNCHANGED vars
    <2>1. UNCHANGED <<tick, conv, sched, gen, retry, memRetry, relGen, run>>
      BY <1>1, Zenon DEF Advance, vars, store, history
    <2>2. RunsGoOn
      BY <2>1, Zenon DEF RunsGoOn, Live
    <2>. QED
      BY <2>1, <2>2, QuietSchedule, Zenon DEF PromptInv, FreshIsIdle
  <1>2. FreshIsIdle'
    BY FreshStep, Zenon DEF PromptInv, ReceiptInv, FreshIsIdle
  <1>. QED
    BY <1>1, <1>2, ClientSchedule, TickSchedule, HostSchedule, CrashSchedule, Zenon
    DEF Next, PromptInv

\* The whole invariant, of receipts, runs, generations and retry markers, holds in
\* every reachable state.
THEOREM Invariance == Spec => []PromptInv
  <1>1. Init => PromptInv
    BY InitInv, InitSchedule DEF PromptInv, Init, FreshIsIdle, Idle
  <1>. QED
    BY <1>1, StepPromptInv, PTL DEF Spec

\* A one-shot given back for lack of authorization keeps a usable retry marker for
\* its own instant until it is launched again or rewritten.
THEOREM ReleasedIsKept == Spec => []ReleasedOneShotKept
  <1>1. PromptInv => ReleasedOneShotKept
    BY Zenon DEF PromptInv, ScheduleInv
  <1>. QED
    BY <1>1, Invariance, PTL

\* A one-shot is launched only for the instant its row has at that moment, although
\* the tick works on a copy and markers may be left over.
THEOREM LaunchesCurrent == Spec => LaunchIsCurrent
  <1> DEFINE Current == \A o \in Owners :
                run[o].phase = "fresh" /\ run'[o].sched # None /\ OneShot(run'[o].sched)
                => sched.enabled /\ run'[o].key = OccurrenceKey(sched.id, sched.at)
  <1>1. PromptInv /\ [Next]_vars => [Current]_vars
    <2>. SUFFICES ASSUME PromptInv, Next, NEW o \in Owners, run[o].phase = "fresh",
                         run'[o].sched # None, OneShot(run'[o].sched)
                  PROVE  sched.enabled /\ run'[o].key = OccurrenceKey(sched.id, sched.at)
      BY Zenon
    <2>0. TypeOK /\ ReceiptInv /\ ScheduleInv
      BY Zenon DEF PromptInv, ReceiptInv
    <2>1. CASE TickLaunch(o)
      <3>1. /\ TickDue /\ ScheduleCurrent(tick.sched, tick.gen)
            /\ run'[o].sched = tick.sched /\ run'[o].key = DueKey
        BY <2>0, <2>1, Zenon DEF TickLaunch, Enqueue, TypeOK
      <3>. QED
        BY <2>0, <3>1, LaunchInstant, Zenon DEF DueKey, ScheduleCurrent
    <2>2. run[o].sched = None
      BY Zenon DEF PromptInv, FreshIsIdle
    <2>. QED
      BY <2>0, <2>1, <2>2, FreshStep, Zenon
  <1>. QED
    BY <1>1, Invariance, PTL DEF Spec, LaunchIsCurrent
=============================================================================
