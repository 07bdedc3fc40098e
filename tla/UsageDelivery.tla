---------------------------- MODULE UsageDelivery ----------------------------
(***************************************************************************)
(* The Manager's delivery of usage summaries to the Operator               *)
(* (usage_delivery_repository.py, usage_delivery_service.py).              *)
(*                                                                         *)
(* An upload of the Agent stores a summary's total and its delivery row in *)
(* one transaction.  deliver_due claims rows under a lease, sends each to  *)
(* the Operator and settles it; it runs in a poller's thread and, as a     *)
(* hint, at the end of the handler of an upload, which blocks the event    *)
(* loop: no upload is handled while a hint runs.  Every step is one        *)
(* database transaction or one request.                                    *)
(*                                                                         *)
(* The rows of one tenant are modelled.  A total stands for all the        *)
(* counters of a payload and the idempotency key, which the Operator does  *)
(* not read, is left out.  A claim token is the worker that claimed the    *)
(* row: a worker settles only rows of its current claim, so an old token   *)
(* of its own is never taken for the current one.                          *)
(***************************************************************************)
EXTENDS Integers, FiniteSets

CONSTANTS
  Summaries,    \* summary_ids
  Pollers,      \* the thread of install_usage_delivery_lifespan
  Hints,        \* deliver_due in the handler of an upload
  NoWorker,     \* claim_token NULL
  NoRow,        \* a worker that sends nothing
  Limit,        \* MAX_DELIVERIES_PER_TENANT_SWEEP
  MaxAttempts,  \* MAX_DELIVERY_ATTEMPTS
  MaxTotal,     \* bound: the largest total
  MaxUploads,   \* bound: uploads that the Manager handles
  Slots,        \* bound: requests under way that nobody waits for any more
  NoRequest     \* a free slot

VARIABLES
  row,       \* usage_operator_delivery
  worker,    \* the calls of deliver_due
  late,      \* requests under way whose worker timed out or died
  mapped,    \* tenant_registry has the tenant's enterprise_id
  up,        \* the Operator accepts requests
  calm,      \* environment: outages, time-outs and crashes are over
  seen,      \* operation_rollup_seen
  uploads,   \* uploads handled so far
  applied    \* history: rows whose current total the Operator has stored

vars == <<row, worker, late, mapped, up, calm, seen, uploads, applied>>

Workers == Pollers \union Hints

ASSUME DeliveryAssumption ==
  /\ NoWorker \notin Workers /\ NoRow \notin Summaries
  /\ Limit \in Nat \ {0} /\ MaxAttempts \in Nat \ {0} /\ MaxTotal \in Nat /\ MaxUploads \in Nat
  /\ IsFiniteSet(Summaries)

Totals == 0..MaxTotal
\* next is next_attempt_at: it has come, it has not, or it is NULL.
Row == [status : {"none", "pending", "sending", "sent", "failed"}, total : Totals,
        attempts : 0..MaxAttempts, next : {"due", "later", "never"},
        token : Workers \union {NoWorker}, lapsed : BOOLEAN, enterprise : BOOLEAN]
Worker == [phase : {"idle", "assign", "claim", "send"}, todo : SUBSET Summaries,
           current : Summaries \union {NoRow}, payload : [Summaries -> Totals],
           answer : {"none", "ok", "error"}]
Request == [summary : Summaries, total : Totals]

At(phase) == [phase |-> phase, todo |-> {}, current |-> NoRow,
              payload |-> [s \in Summaries |-> 0], answer |-> "none"]

Init ==
  /\ row = [s \in Summaries |->
              [status |-> "none", total |-> 0, attempts |-> 0, next |-> "never",
               token |-> NoWorker, lapsed |-> FALSE, enterprise |-> FALSE]]
  /\ worker = [w \in Workers |-> At("idle")]
  /\ late = [k \in Slots |-> NoRequest]
  /\ mapped \in BOOLEAN
  /\ up = TRUE
  /\ calm = FALSE
  /\ seen = [s \in Summaries |-> 0]
  /\ uploads = 0
  /\ applied = {}

-----------------------------------------------------------------------------
(* The statements of the repository. *)

Renewed(r, n) == [status |-> "pending", total |-> n, attempts |-> 0, next |-> "due",
                  token |-> NoWorker, lapsed |-> FALSE, enterprise |-> r.enterprise]

\* enqueue_in_session: a payload that is not distinct from the row's leaves the
\* delivery alone; any other starts it over and takes it from its worker.
Enqueued(r, n, e) ==
  [(IF r.status = "none" \/ r.total # n THEN Renewed(r, n) ELSE r) EXCEPT !.enterprise = @ \/ e]

Assigned(r) == IF r.status \in {"none", "sent", "sending"} THEN r ELSE [r EXCEPT !.enterprise = TRUE]

Mut_LeaseOver(s) == FALSE
LeaseOver(s) == row[s].status = "sending" /\ row[s].lapsed

Mut_Due == {s \in Summaries :
              row[s].enterprise /\ (row[s].status \in {"pending", "failed"} \/ LeaseOver(s))}
Due == {s \in Summaries :
          /\ row[s].enterprise
          /\ row[s].attempts < MaxAttempts
          /\ (row[s].status \in {"pending", "failed"} /\ row[s].next = "due") \/ LeaseOver(s)}

\* The WITH expired clause of claim_due.
Exhausted(s) == LeaseOver(s) /\ row[s].attempts >= MaxAttempts

GivenUp(r) == [r EXCEPT !.status = "failed", !.next = "never", !.token = NoWorker, !.lapsed = FALSE]

Claimed(w, r) == [r EXCEPT !.status = "sending", !.attempts = @ + 1, !.token = w, !.lapsed = FALSE]

Mut_Holds(w, s) == row[s].status = "sending"
\* The WHERE clause of mark_sent and mark_failed.
Holds(w, s) == row[s].status = "sending" /\ row[s].token = w

MarkedSent(w, s) ==
  IF Holds(w, s)
  THEN [row[s] EXCEPT !.status = "sent", !.next = "never", !.token = NoWorker, !.lapsed = FALSE]
  ELSE row[s]

NextAttempt(r) == IF r.attempts >= MaxAttempts THEN "never" ELSE "later"

MarkedFailed(w, s) ==
  IF Holds(w, s)
  THEN [row[s] EXCEPT !.status = "failed", !.next = NextAttempt(row[s]), !.token = NoWorker, !.lapsed = FALSE]
  ELSE row[s]

-----------------------------------------------------------------------------
(* The upload route. *)

\* upsert_usage_with_delivery in one transaction, then the hint.  The lookup of
\* the enterprise may fail, which counts as not mapped.
Upload(s, n, e, h) ==
  /\ \A w \in Hints : worker[w].phase = "idle"
  /\ uploads < MaxUploads
  /\ uploads' = uploads + 1
  /\ e => mapped
  /\ row' = [row EXCEPT ![s] = Enqueued(@, n, e)]
  /\ applied' = IF row'[s].total = row[s].total THEN applied ELSE applied \ {s}
  /\ worker' = [worker EXCEPT ![h] = At("assign")]
  /\ UNCHANGED <<late, mapped, up, calm, seen>>

-----------------------------------------------------------------------------
(* deliver_due. *)

\* The poller comes round every few seconds.
Sweep(w) ==
  /\ worker[w].phase = "idle"
  /\ worker' = [worker EXCEPT ![w] = At("assign")]
  /\ UNCHANGED <<row, late, mapped, up, calm, seen, uploads, applied>>

\* assign_enterprise_id, if the enterprise is known by now.
Assign(w) ==
  /\ worker[w].phase = "assign"
  /\ worker' = [worker EXCEPT ![w] = At("claim")]
  /\ row' = [s \in Summaries |-> IF mapped THEN Assigned(row[s]) ELSE row[s]]
  /\ UNCHANGED <<late, mapped, up, calm, seen, uploads, applied>>

\* The mapping cannot be looked up: rows that have it are delivered all the same.
AssignSkipped(w) ==
  /\ ~calm
  /\ worker[w].phase = "assign"
  /\ worker' = [worker EXCEPT ![w] = At("claim")]
  /\ UNCHANGED <<row, late, mapped, up, calm, seen, uploads, applied>>

Sending(C, s, totals) ==
  [phase |-> "send", todo |-> C, current |-> s, answer |-> "none",
   payload |-> [x \in Summaries |-> IF x \in C THEN totals[x] ELSE 0]]

\* FOR UPDATE SKIP LOCKED LIMIT: which of the due rows is not fixed.
Claims == {C \in SUBSET Due : Cardinality(C) <= Limit /\ (C = Due \/ Cardinality(C) = Limit)}

\* claim_due, and the request for the first row it returned.
Claim(w) ==
  /\ worker[w].phase = "claim"
  /\ \E C \in Claims :
       /\ row' = [s \in Summaries |->
                    IF s \in C THEN Claimed(w, row[s])
                    ELSE IF Exhausted(s) THEN GivenUp(row[s]) ELSE row[s]]
       /\ \/ C = {} /\ worker' = [worker EXCEPT ![w] = At("idle")]
          \/ \E s \in C :
               worker' = [worker EXCEPT ![w] = Sending(C, s, [x \in Summaries |-> row[x].total])]
  /\ UNCHANGED <<late, mapped, up, calm, seen, uploads, applied>>

\* The loop goes on with the rows left, or deliver_due returns.
Advance(w) ==
  LET rest == worker[w].todo \ {worker[w].current}
  IN  \/ rest = {} /\ worker' = [worker EXCEPT ![w] = At("idle")]
      \/ \E s \in rest : worker' = [worker EXCEPT ![w] = Sending(rest, s, worker[w].payload)]

Answered(w, answer) == worker[w].phase = "send" /\ worker[w].answer = answer

Sent(w) ==
  /\ Answered(w, "ok")
  /\ row' = [row EXCEPT ![worker[w].current] = MarkedSent(w, worker[w].current)]
  /\ Advance(w)
  /\ UNCHANGED <<late, mapped, up, calm, seen, uploads, applied>>

Failed(w) ==
  /\ Answered(w, "error")
  /\ row' = [row EXCEPT ![worker[w].current] = MarkedFailed(w, worker[w].current)]
  /\ Advance(w)
  /\ UNCHANGED <<late, mapped, up, calm, seen, uploads, applied>>

Pending(w) == [summary |-> worker[w].current, total |-> worker[w].payload[worker[w].current]]

\* A request that is still on its way when nobody waits for it any more.
Linger(w) ==
  /\ Answered(w, "none")
  /\ \E k \in Slots : late[k] = NoRequest /\ late' = [late EXCEPT ![k] = Pending(w)]

\* No answer in time; the request is lost, or handled later.
TimeOut(w) ==
  /\ ~calm
  /\ worker[w].phase = "send"
  /\ late' = late \/ Linger(w)
  /\ row' = [row EXCEPT ![worker[w].current] = MarkedFailed(w, worker[w].current)]
  /\ Advance(w)
  /\ UNCHANGED <<mapped, up, calm, seen, uploads, applied>>

\* A statement fails, or the process ends: the claim stays until its lease is over.
Abandon(w) ==
  /\ ~calm
  /\ worker[w].phase # "idle"
  /\ late' = late \/ Linger(w)
  /\ worker' = [worker EXCEPT ![w] = At("idle")]
  /\ UNCHANGED <<row, mapped, up, calm, seen, uploads, applied>>

-----------------------------------------------------------------------------
(* The Operator: ingest_rollup and apply_summary. *)

Stored(request) == [seen EXCEPT ![request.summary] = request.total]

Ingest(request) ==
  IF up
  THEN /\ seen' = Stored(request)
       /\ applied' = IF seen'[request.summary] = row[request.summary].total
                     THEN applied \union {request.summary} ELSE applied
  ELSE UNCHANGED <<seen, applied>>

Handle(w) ==
  /\ Answered(w, "none")
  /\ Ingest(Pending(w))
  /\ worker' = [worker EXCEPT ![w].answer = IF up THEN "ok" ELSE "error"]
  /\ UNCHANGED <<row, late, mapped, up, calm, uploads>>

HandleLate(k) ==
  /\ late[k] # NoRequest
  /\ late' = [late EXCEPT ![k] = NoRequest]
  /\ Ingest(late[k])
  /\ UNCHANGED <<row, worker, mapped, up, calm, uploads>>

OperatorChanges ==
  /\ ~calm
  /\ up' = ~up
  /\ UNCHANGED <<row, worker, late, mapped, calm, seen, uploads, applied>>

-----------------------------------------------------------------------------
(* Time and administration. *)

\* The enterprise is entered in the registry.
Map == ~mapped /\ mapped' = TRUE /\ UNCHANGED <<row, worker, late, up, calm, seen, uploads, applied>>

\* The backoff of mark_failed is over.
ComesDue(s) ==
  /\ row[s].next = "later"
  /\ row' = [row EXCEPT ![s].next = "due"]
  /\ UNCHANGED <<worker, late, mapped, up, calm, seen, uploads, applied>>

\* DELIVERY_CLAIM_LEASE_SECONDS have passed since the claim.
Lapse(s) ==
  /\ row[s].status = "sending" /\ ~row[s].lapsed
  /\ row' = [row EXCEPT ![s].lapsed = TRUE]
  /\ UNCHANGED <<worker, late, mapped, up, calm, seen, uploads, applied>>

\* The Operator is up, the enterprise is entered and nothing fails from now on.
CalmsDown ==
  /\ ~calm /\ up /\ mapped
  /\ calm' = TRUE
  /\ UNCHANGED <<row, worker, late, mapped, up, seen, uploads, applied>>

-----------------------------------------------------------------------------
Step(w) == Assign(w) \/ Claim(w) \/ Sent(w) \/ Failed(w)

Next ==
  \/ \E s \in Summaries, n \in Totals, e \in BOOLEAN, h \in Hints : Upload(s, n, e, h)
  \/ \E w \in Pollers : Sweep(w)
  \/ \E w \in Workers : Step(w) \/ AssignSkipped(w) \/ TimeOut(w) \/ Abandon(w) \/ Handle(w)
  \/ \E k \in Slots : HandleLate(k)
  \/ \E s \in Summaries : ComesDue(s) \/ Lapse(s)
  \/ OperatorChanges \/ Map \/ CalmsDown

Spec == Init /\ [][Next]_vars

\* The poller's thread and the event loop go on; a request is handled or times
\* out; time passes.
Fairness ==
  /\ \A w \in Pollers : WF_vars(Sweep(w))
  /\ \A w \in Workers : WF_vars(Step(w)) /\ WF_vars(Handle(w))
  /\ \A s \in Summaries : WF_vars(ComesDue(s)) /\ WF_vars(Lapse(s))

FairSpec == Spec /\ Fairness

-----------------------------------------------------------------------------
(* Properties. *)

\* Rows, workers and requests have the shape the code gives them, no row is
\* claimed more than MAX_DELIVERY_ATTEMPTS times for one payload, and a worker
\* that sends works on one of the rows it has left.
TypeOK ==
  /\ row \in [Summaries -> Row]
  /\ worker \in [Workers -> Worker]
  /\ \A w \in Workers : IF worker[w].phase = "send" THEN worker[w].current \in worker[w].todo
                        ELSE worker[w].todo = {} /\ worker[w].answer = "none"
  /\ late \in [Slots -> Request \union {NoRequest}]
  /\ mapped \in BOOLEAN /\ up \in BOOLEAN /\ calm \in BOOLEAN
  /\ seen \in [Summaries -> Totals]
  /\ uploads \in 0..MaxUploads
  /\ applied \subseteq Summaries

\* A delivery is marked sent only if the Operator has stored the total that the
\* row has: neither a worker whose lease was over, nor one whose row was given
\* a new total meanwhile, settles it (mark_sent, enqueue_in_session).
SentWasDelivered ==
  \A s \in Summaries : row[s].status = "sent" => s \in applied

\* Until it is sent a delivery stays within reach of claim_due: it is pending or
\* failed with a time for the next attempt, or held under a lease that will be
\* over; it is given up only with MAX_DELIVERY_ATTEMPTS claims behind it.
GivesUpOnlyAtBound ==
  \A s \in Summaries :
    /\ row[s].status = "pending" => row[s].attempts = 0 /\ row[s].next = "due"
    /\ row[s].status = "failed" => (row[s].next = "never" <=> row[s].attempts = MaxAttempts)
    /\ row[s].status = "sending" => row[s].attempts > 0 /\ row[s].token \in Workers
    /\ row[s].status # "sending" => row[s].token = NoWorker /\ ~row[s].lapsed

Final(r) == r.status = "sent" \/ (r.status = "failed" /\ r.next = "never")

\* A delivery that was sent, or given up, is not taken up again for the same
\* total: an upload repeated by the Agent sends nothing to the Operator.
FinalStays ==
  [][\A s \in Summaries : Final(row[s]) /\ row'[s].total = row[s].total => Final(row'[s])]_vars

\* A row that its worker still holds has the total that the worker sends, and a
\* good answer for it means that the Operator has that total.
HeldIsCurrent ==
  \A w \in Workers, s \in Summaries : s \in worker[w].todo /\ Holds(w, s) =>
    /\ worker[w].payload[s] = row[s].total
    /\ worker[w].current = s /\ worker[w].answer = "ok" => s \in applied

\* The inductive invariant.
DeliveryInv == TypeOK /\ SentWasDelivered /\ GivesUpOnlyAtBound /\ HeldIsCurrent

\* Once outages, time-outs and crashes are over every delivery ends sent or given
\* up, whatever abandoned claims and lapsed leases they left behind (the poller,
\* claim_due).
EverySettles ==
  <>calm => \A s \in Summaries : <>[](row[s].status = "none" \/ Final(row[s]))

=============================================================================
