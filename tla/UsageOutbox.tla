----------------------------- MODULE UsageOutbox -----------------------------
(***************************************************************************)
(* The Agent's usage outbox (storage/sqlite.ts) and the flushes that       *)
(* upload it (usage-flush.ts), down to the totals the Manager keeps.       *)
(*                                                                         *)
(* An hourly summary is one row that executions add to; a row holds a      *)
(* total, and an upload carries the total the row had when it was claimed. *)
(* Flushes overlap: one starts when an execution ends, one on every tick   *)
(* of an interval, one on request.  Between two awaits a flush is one      *)
(* step: it claims its rows and sends the first request in one, and on     *)
(* each answer settles the row and sends the next in one.                  *)
(*                                                                         *)
(* The rows of one member are modelled.  A total stands for all the        *)
(* counters of a payload; attempts and last_error are left out, nothing    *)
(* reads them.  A claim token is the flush that claimed the row: a flush   *)
(* settles every row it holds before it ends, so an ended flush's token is *)
(* on no row that is being sent.  The backoff of drain only delays a       *)
(* drain, and any delay is allowed here.                                   *)
(***************************************************************************)
EXTENDS Integers, FiniteSets

CONSTANTS
  Usage,      \* summaries of kind 'usage': executions add to them
  Outcomes,   \* summaries of kind 'segment_outcome': replaced as a whole
  Flushes,    \* calls of flushInternal that may overlap
  NoFlush,    \* claim_token NULL
  NoRow,      \* a flush that is not running
  Limit,      \* rows a flush claims at most
  MaxCount,   \* bound: the largest segment outcome
  MaxWrites,  \* bound: writes to the outbox
  Slots,      \* bound: requests under way that nobody waits for any more
  NoRequest   \* a free slot

VARIABLES
  row,      \* usage_summary_outbox
  born,     \* created_at of the rows that exist, as a rank
  flush,    \* the flushes
  offered,  \* outcomesUnsupportedUntil has passed
  caller,   \* the execution authorization has an identity for drain
  late,     \* requests under way whose flush timed out or died
  manager,  \* the state the Manager is in, as far as uploads can tell
  rollup,   \* the totals the Manager holds
  writes,   \* number of writes so far
  applied   \* history: rows whose current total the Manager has stored

vars == <<row, born, flush, offered, caller, late, manager, rollup, writes, applied>>

Summaries == Usage \union Outcomes

ASSUME OutboxAssumption ==
  /\ Usage \intersect Outcomes = {} /\ IsFiniteSet(Summaries)
  /\ NoFlush \notin Flushes /\ NoRow \notin Summaries
  /\ Limit \in Nat \ {0} /\ MaxCount \in Nat /\ MaxWrites \in Nat

Statuses == {"none", "pending", "sending", "sent", "failed", "rejected"}
Answers == {"ok", "error", "denied", "revoked", "missing"}
Moods == {"healthy", "down", "denied", "revoked", "old"}
Totals == 0..(MaxCount + MaxWrites)
Request == [summary : Summaries, total : Totals]
FlushState == [todo : SUBSET Summaries, current : Summaries \union {NoRow},
               payload : [Summaries -> Totals], answer : Answers \union {"none"},
               unsupported : BOOLEAN]

Idle == [todo |-> {}, current |-> NoRow, payload |-> [s \in Summaries |-> 0],
         answer |-> "none", unsupported |-> FALSE]

Init ==
  /\ row = [s \in Summaries |-> [status |-> "none", total |-> 0, token |-> NoFlush]]
  /\ born = [s \in Summaries |-> 0]
  /\ flush = [f \in Flushes |-> Idle]
  /\ offered = TRUE
  /\ caller = TRUE
  /\ late = [k \in Slots |-> NoRequest]
  /\ manager = "healthy"
  /\ rollup = [s \in Summaries |-> 0]
  /\ writes = 0
  /\ applied = {}

-----------------------------------------------------------------------------
(* Writing the outbox. *)

\* Both writers make the row pending and leave its claim_token alone.
Requeued(r, n) == [r EXCEPT !.total = n, !.status = "pending"]

Write(s, n) ==
  /\ writes < MaxWrites
  /\ writes' = writes + 1
  /\ row' = [row EXCEPT ![s] = Requeued(@, n)]
  /\ born' = IF row[s].status = "none" THEN [born EXCEPT ![s] = writes'] ELSE born
  /\ applied' = applied \ {s}
  /\ UNCHANGED <<flush, offered, caller, late, manager, rollup>>

upsertUsageSummary(s) == s \in Usage /\ Write(s, row[s].total + 1)

\* A count of zero only overwrites a row that exists.
publishSegmentOutcomes(s, n) ==
  /\ s \in Outcomes
  /\ n = 0 => row[s].status # "none"
  /\ Write(s, n)

-----------------------------------------------------------------------------
(* The statements of the store that a flush runs.  All but the claim are   *)
(* guarded by status = 'sending' AND claim_token = ?.                      *)

Mut_Holds(f, s) == row[s].token = f
Holds(f, s) == row[s].status = "sending" /\ row[s].token = f

\* markUsageSent, markUsageFailed, markUsageRejected and releaseUsageClaim.
Settled(f, s, status) ==
  IF Holds(f, s) THEN [row[s] EXCEPT !.status = status, !.token = NoFlush] ELSE row[s]

Mut_EligiblePending == {s \in Summaries : row[s].status = "pending" /\ (s \in Outcomes => offered)}
\* The rows a claim may take, given the kinds the flush asks for.
Eligible == {s \in Summaries : row[s].status \in {"pending", "failed"} /\ (s \in Outcomes => offered)}

Older(s, t) == born[s] < born[t]

\* ORDER BY created_at ASC LIMIT ?
Oldest(S) == {C \in SUBSET S :
                /\ \A s \in C, t \in S \ C : Older(s, t)
                /\ Cardinality(C) <= Limit
                /\ C = S \/ Cardinality(C) = Limit}

Claimed(f, C) ==
  [s \in Summaries |-> IF s \in C THEN [row[s] EXCEPT !.status = "sending", !.token = f] ELSE row[s]]

\* The row the loop comes to next, if there is one.
First(C) == IF C = {} THEN {NoRow} ELSE {s \in C : \A t \in C \ {s} : Older(s, t)}

\* A flush that waits for the answer for one of the rows it has left.
Waiting(C, s, totals, unsupported) ==
  [todo |-> C, current |-> s, answer |-> "none", unsupported |-> unsupported,
   payload |-> [x \in Summaries |-> IF x \in C THEN totals[x] ELSE 0]]

-----------------------------------------------------------------------------
(* A flush. *)

\* claimUsageOutbox and the request for the first row.
Claim(f) ==
  /\ flush[f] = Idle
  /\ \E C \in Oldest(Eligible) : \E s \in First(C) :
       /\ C # {}
       /\ row' = Claimed(f, C)
       /\ flush' = [flush EXCEPT ![f] = Waiting(C, s, [x \in Summaries |-> row[x].total], FALSE)]
  /\ UNCHANGED <<born, offered, caller, late, manager, rollup, writes, applied>>

\* A flush on request, or at the end of an execution, has a caller of its own.
Flush(f) == Claim(f)
Drain(f) == caller /\ Claim(f)

\* The rows left after the current one that the loop passes over, because the
\* Manager does not know segment outcomes, before it comes to one it sends.
Skipped(f, unsupported) ==
  LET rest == flush[f].todo \ {flush[f].current}
  IN  {s \in rest \intersect Outcomes :
         unsupported /\ \A u \in rest \intersect Usage : Older(s, u)}

\* The current row gets its status, the rows passed over go back to pending,
\* and the request for the next row is sent.
Advance(f, status, unsupported) ==
  LET at == flush[f].current
      skipped == Skipped(f, unsupported)
      rest == flush[f].todo \ (skipped \union {at})
  IN  /\ row' = [s \in Summaries |->
                   IF s = at THEN Settled(f, s, status)
                   ELSE IF s \in skipped THEN Settled(f, s, "pending") ELSE row[s]]
      /\ \E s \in First(rest) :
           flush' = [flush EXCEPT ![f] = Waiting(rest, s, flush[f].payload, unsupported /\ rest # {})]

Mut_Rest(f, s) == row[s]
\* After a denial the rows left are failed, or released, without a request.
Rest(f, s) ==
  Settled(f, s, IF s \in Outcomes /\ flush[f].unsupported THEN "pending" ELSE "failed")

Answered(f, answer) == flush[f].current # NoRow /\ flush[f].answer = answer

Sent(f) ==
  /\ Answered(f, "ok")
  /\ Advance(f, "sent", flush[f].unsupported)
  /\ UNCHANGED <<born, offered, caller, late, manager, rollup, writes, applied>>

Failed(f) ==
  /\ Answered(f, "error")
  /\ Advance(f, "failed", flush[f].unsupported)
  /\ UNCHANGED <<born, offered, caller, late, manager, rollup, writes, applied>>

\* employee_not_granted
Revoked(f) ==
  /\ Answered(f, "revoked")
  /\ Advance(f, "rejected", flush[f].unsupported)
  /\ UNCHANGED <<born, offered, caller, late, manager, rollup, writes, applied>>

\* HTTP 404 for a segment outcome.
Unsupported(f) ==
  /\ Answered(f, "missing")
  /\ Advance(f, "pending", TRUE)
  /\ offered' = FALSE
  /\ UNCHANGED <<born, caller, late, manager, rollup, writes, applied>>

\* HTTP 401 or 403: the identity is dropped and no further request is made.
Denied(f) ==
  /\ Answered(f, "denied")
  /\ row' = [s \in Summaries |->
               IF s = flush[f].current THEN Settled(f, s, "failed")
               ELSE IF s \in flush[f].todo THEN Rest(f, s) ELSE row[s]]
  /\ flush' = [flush EXCEPT ![f] = Idle]
  /\ caller' = FALSE
  /\ UNCHANGED <<born, offered, late, manager, rollup, writes, applied>>

\* The request that flush f waits for.
Pending(f) == [summary |-> flush[f].current, total |-> flush[f].payload[flush[f].current]]

\* It is still on its way when nobody waits for it any more.
Linger(f) ==
  /\ Answered(f, "none")
  /\ \E k \in Slots : late[k] = NoRequest /\ late' = [late EXCEPT ![k] = Pending(f)]

\* The Manager did not answer in time, or its answer was lost.  A request that
\* it has not handled yet is lost, or it handles it later.
TimeOut(f) ==
  /\ flush[f].current # NoRow
  /\ late' = late \/ Linger(f)
  /\ Advance(f, "failed", flush[f].unsupported)
  /\ UNCHANGED <<born, offered, caller, manager, rollup, writes, applied>>

-----------------------------------------------------------------------------
(* The Manager: the upload routes and what they store. *)

\* Its answer to a request, by the mood it is in.
AnswerTo(s) ==
  CASE manager = "down" -> "error"
    [] manager = "denied" -> "denied"
    [] manager = "revoked" -> "revoked"
    [] manager = "old" /\ s \in Outcomes -> "missing"
    [] OTHER -> "ok"

Mut_Stored(request) == [rollup EXCEPT ![request.summary] = @ + request.total]
\* ON CONFLICT DO UPDATE: the stored total is that of the request handled last.
Stored(request) == [rollup EXCEPT ![request.summary] = request.total]

Ingest(request) ==
  IF AnswerTo(request.summary) = "ok"
  THEN /\ rollup' = Stored(request)
       /\ applied' = IF row[request.summary].total = request.total
                     THEN applied \union {request.summary} ELSE applied
  ELSE UNCHANGED <<rollup, applied>>

Handle(f) ==
  /\ Answered(f, "none")
  /\ Ingest(Pending(f))
  /\ flush' = [flush EXCEPT ![f].answer = AnswerTo(flush[f].current)]
  /\ UNCHANGED <<row, born, offered, caller, late, manager, writes>>

HandleLate(k) ==
  /\ late[k] # NoRequest
  /\ late' = [late EXCEPT ![k] = NoRequest]
  /\ Ingest(late[k])
  /\ UNCHANGED <<row, born, flush, offered, caller, manager, writes>>

ManagerChanges(mood) ==
  /\ mood # manager
  /\ manager' = mood
  /\ UNCHANGED <<row, born, flush, offered, caller, late, rollup, writes, applied>>

-----------------------------------------------------------------------------
(* The rest of the Agent. *)

\* Ten minutes after a 404.
OfferAgain ==
  /\ ~offered
  /\ offered' = TRUE
  /\ UNCHANGED <<row, born, flush, caller, late, manager, rollup, writes, applied>>

\* A request of the member registers an identity; it expires or is signed out.
Register ==
  /\ ~caller
  /\ caller' = TRUE
  /\ UNCHANGED <<row, born, flush, offered, late, manager, rollup, writes, applied>>

Expire ==
  /\ caller
  /\ caller' = FALSE
  /\ UNCHANGED <<row, born, flush, offered, late, manager, rollup, writes, applied>>

Mut_Recovered(s) == row[s]
\* status = 'failed' WHERE status = 'sending', when the store is opened.
Recovered(s) ==
  IF row[s].status = "sending" THEN [row[s] EXCEPT !.status = "failed", !.token = NoFlush] ELSE row[s]

\* The process ends and starts again.  One of the requests under way may
\* still reach the Manager.
Restart ==
  /\ row' = [s \in Summaries |-> Recovered(s)]
  /\ flush' = [f \in Flushes |-> Idle]
  /\ offered' = TRUE
  /\ caller' = FALSE
  /\ late' = late \/ \E f \in Flushes : Linger(f)
  /\ UNCHANGED <<born, manager, rollup, writes, applied>>

-----------------------------------------------------------------------------
Step(f) == Sent(f) \/ Failed(f) \/ Revoked(f) \/ Unsupported(f) \/ Denied(f)

Next ==
  \/ \E s \in Summaries : upsertUsageSummary(s)
  \/ \E s \in Summaries, n \in 0..MaxCount : publishSegmentOutcomes(s, n)
  \/ \E f \in Flushes : Flush(f) \/ Drain(f) \/ Step(f) \/ TimeOut(f) \/ Handle(f)
  \/ \E k \in Slots : HandleLate(k)
  \/ \E mood \in Moods : ManagerChanges(mood)
  \/ OfferAgain \/ Register \/ Expire \/ Restart

Spec == Init /\ [][Next]_vars

\* The interval of drain fires again and again; a request is handled or times
\* out; the event loop resumes a flush that has its answer; time passes.
Fairness ==
  /\ WF_vars(\E f \in Flushes : Drain(f))
  /\ \A f \in Flushes : WF_vars(Handle(f)) /\ WF_vars(Step(f))
  /\ WF_vars(OfferAgain)

FairSpec == Spec /\ Fairness

-----------------------------------------------------------------------------
(* Properties. *)

\* Rows, flushes and requests have the shape the code gives them; a flush that
\* runs works on one of the rows it has left.
TypeOK ==
  /\ row \in [Summaries -> [status : Statuses, total : Totals, token : Flushes \union {NoFlush}]]
  /\ born \in [Summaries -> 0..MaxWrites]
  /\ flush \in [Flushes -> FlushState]
  /\ \A f \in Flushes : flush[f].current \in flush[f].todo \/ flush[f] = Idle
  /\ offered \in BOOLEAN /\ caller \in BOOLEAN
  /\ late \in [Slots -> Request \union {NoRequest}]
  /\ manager \in Moods
  /\ rollup \in [Summaries -> Totals]
  /\ writes \in 0..MaxWrites
  /\ applied \subseteq Summaries

\* A row that is being sent is on the list of the flush that claimed it, with
\* the total that flush sends: no row is left 'sending' with nobody to settle
\* it, and usage added meanwhile takes the row out of 'sending' (the guards of
\* the mark statements, the recovery at start-up, the loop after a denial).
SendingIsHeld ==
  \A s \in Summaries : row[s].status = "sending" =>
    /\ row[s].token \in Flushes
    /\ s \in flush[row[s].token].todo
    /\ flush[row[s].token].payload[s] = row[s].total

\* A row is marked sent only if the Manager has stored the total that the row
\* has now: usage added while an older total was on its way is never taken for
\* uploaded (markUsageSent).
SentWasStored ==
  \A s \in Summaries : row[s].status = "sent" => s \in applied

\* Uploading again never counts usage twice: what the Manager holds for an
\* hour is at most what the Agent recorded (upsert by summary_id).
NeverOverCounted ==
  \A s \in Usage : rollup[s] <= row[s].total

\* A summary the Manager refused because the employee was revoked is not sent
\* again until there is new usage to report (markUsageRejected).
RejectedStays ==
  [][\A s \in Summaries :
       row[s].status = "rejected" /\ writes' = writes => row'[s] = row[s]]_vars

\* A flush that has a good answer for a row it still holds: the Manager has
\* stored the row's total, since any write would have taken the row away.
AnswersAreGood ==
  \A f \in Flushes : Answered(f, "ok") /\ Holds(f, flush[f].current) => flush[f].current \in applied

\* Nothing that is on its way, or will be sent, claims more than was recorded.
NothingAhead ==
  \A s \in Usage :
    /\ \A f \in Flushes : s \in flush[f].todo => flush[f].payload[s] <= row[s].total
    /\ \A k \in Slots : late[k] # NoRequest /\ late[k].summary = s => late[k].total <= row[s].total

\* The inductive invariant: the properties above, what the answers and the
\* requests under way add to them, and that a total grows with the writes.
OutboxInv ==
  /\ TypeOK /\ SendingIsHeld /\ SentWasStored /\ NeverOverCounted
  /\ AnswersAreGood /\ NothingAhead
  /\ \A s \in Summaries : row[s].total <= MaxCount + writes

\* No request for a summary is under way.
Quiet(s) ==
  /\ \A f \in Flushes : flush[f].current # s
  /\ \A k \in Slots : late[k] = NoRequest \/ late[k].summary # s

\* Once a row is sent and nothing is under way for it, the Manager holds its
\* total ("更新为最新上报值": the row is updated to the newest value reported).
NewestIsKept ==
  \A s \in Summaries : row[s].status = "sent" /\ Quiet(s) => rollup[s] = row[s].total

\* Once the Manager is well, the identity stays registered, and no request
\* times out, every summary ends up sent or refused: none is left behind in
\* 'sending', 'failed' or 'pending' (drain, the recovery at start-up).
Calm == manager = "healthy" /\ caller
Disturbed == Restart \/ \E f \in Flushes : TimeOut(f)
Drained ==
  <>[]Calm /\ <>[][~Disturbed]_vars =>
    \A s \in Summaries : <>[](row[s].status \in {"none", "sent", "rejected"})
=============================================================================
