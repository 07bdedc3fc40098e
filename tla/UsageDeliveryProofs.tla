------------------------- MODULE UsageDeliveryProofs -------------------------
(***************************************************************************)
(* The invariant of the Manager's delivery rows, for any number of rows,   *)
(* pollers, hints and late requests.  A row that is 'sending' under a      *)
(* worker's token has the total which that worker sends, because whatever  *)
(* changes the total also takes the token away; so a good answer to the    *)
(* holder is an answer about the row's own total.                          *)
(***************************************************************************)
EXTENDS UsageDelivery, TLAPS

\* The parts of the invariant that speak of one row.
RowGood(s) ==
  /\ row[s].status = "sent" => s \in applied
  /\ row[s].status = "pending" => row[s].attempts = 0 /\ row[s].next = "due"
  /\ row[s].status = "failed" => (row[s].next = "never" <=> row[s].attempts = MaxAttempts)
  /\ row[s].status = "sending" => row[s].attempts > 0 /\ row[s].token \in Workers
  /\ row[s].status # "sending" => row[s].token = NoWorker /\ ~row[s].lapsed

\* A worker's list is in order.
WorkerGood(w) ==
  /\ worker[w] \in Worker
  /\ IF worker[w].phase = "send" THEN worker[w].current \in worker[w].todo
     ELSE worker[w].todo = {} /\ worker[w].answer = "none"

\* What a worker knows of a row it holds.
HeldGood(w, s) == s \in worker[w].todo /\ Holds(w, s) =>
  /\ worker[w].payload[s] = row[s].total
  /\ worker[w].current = s /\ worker[w].answer = "ok" => s \in applied

RestGood ==
  /\ late \in [Slots -> Request \union {NoRequest}]
  /\ mapped \in BOOLEAN /\ up \in BOOLEAN /\ calm \in BOOLEAN
  /\ seen \in [Summaries -> Totals]
  /\ uploads \in 0..MaxUploads
  /\ applied \subseteq Summaries

\* The invariant, row by row and worker by worker.
LEMMA Split ==
  DeliveryInv <=> /\ row \in [Summaries -> Row] /\ \A s \in Summaries : RowGood(s)
                  /\ worker \in [Workers -> Worker] /\ \A w \in Workers : WorkerGood(w)
                  /\ \A w \in Workers, s \in Summaries : HeldGood(w, s)
                  /\ RestGood
<1>1. TypeOK <=> /\ row \in [Summaries -> Row] /\ worker \in [Workers -> Worker]
                 /\ \A w \in Workers : WorkerGood(w)
                 /\ RestGood
  BY DEF TypeOK, WorkerGood, RestGood
<1>2. SentWasDelivered /\ GivesUpOnlyAtBound <=> \A s \in Summaries : RowGood(s)
  BY DEF SentWasDelivered, GivesUpOnlyAtBound, RowGood
<1>3. HeldIsCurrent <=> \A w \in Workers, s \in Summaries : HeldGood(w, s)
  BY DEF HeldIsCurrent, HeldGood
<1> QED BY <1>1, <1>2, <1>3 DEF DeliveryInv

\* The same for the state after a step.
LEMMA SplitNext ==
  ASSUME row' \in [Summaries -> Row], \A s \in Summaries : RowGood(s)',
         worker' \in [Workers -> Worker], \A w \in Workers : WorkerGood(w)',
         \A w \in Workers, s \in Summaries : HeldGood(w, s)', RestGood'
  PROVE  DeliveryInv'
<1>1. TypeOK'
  BY DEF TypeOK, WorkerGood, RestGood
<1>2. SentWasDelivered' /\ GivesUpOnlyAtBound'
  BY DEF SentWasDelivered, GivesUpOnlyAtBound, RowGood
<1>3. HeldIsCurrent'
  BY DEF HeldIsCurrent, HeldGood
<1> QED BY <1>1, <1>2, <1>3 DEF DeliveryInv

\* The table starts empty and nobody is at work.
LEMMA InitInv == Init => DeliveryInv
<1> SUFFICES ASSUME Init PROVE DeliveryInv
  OBVIOUS
<1>1. row \in [Summaries -> Row] /\ \A s \in Summaries : RowGood(s)
  BY DeliveryAssumption DEF Init, Row, Totals, RowGood
<1>2. At("idle") \in Worker
  BY DeliveryAssumption DEF At, Worker, Totals
<1>3. worker \in [Workers -> Worker] /\ \A w \in Workers : WorkerGood(w)
  BY <1>2 DEF Init, WorkerGood, At
<1>4. \A w \in Workers, s \in Summaries : HeldGood(w, s)
  BY DEF Init, At, HeldGood
<1>5. RestGood
  <2>1. mapped \in BOOLEAN /\ up \in BOOLEAN /\ calm \in BOOLEAN
    BY Zenon DEF Init
  <2>2. late \in [Slots -> Request \union {NoRequest}]
    BY DEF Init
  <2>3. seen \in [Summaries -> Totals] /\ uploads \in 0..MaxUploads /\ applied \subseteq Summaries
    BY DeliveryAssumption DEF Init, Totals
  <2> QED BY <2>1, <2>2, <2>3 DEF RestGood
<1> QED BY <1>1, <1>3, <1>4, <1>5, Split

\* What a row that a statement writes looks like.
LEMMA EnqueuedRow ==
  ASSUME NEW r \in Row, NEW n \in Totals, NEW e \in BOOLEAN
  PROVE  /\ Enqueued(r, n, e) \in Row
         /\ Enqueued(r, n, e).total = n
         /\ \/ /\ r.status # "none" /\ r.total = n
               /\ \A f \in {"status", "attempts", "next", "token", "lapsed"} : Enqueued(r, n, e)[f] = r[f]
            \/ /\ Enqueued(r, n, e).status = "pending" /\ Enqueued(r, n, e).attempts = 0
               /\ Enqueued(r, n, e).next = "due" /\ Enqueued(r, n, e).token = NoWorker
               /\ ~Enqueued(r, n, e).lapsed
<1>1. Renewed(r, n) \in Row
  BY DeliveryAssumption DEF Renewed, Row
<1>2. PICK q \in Row : q = IF r.status = "none" \/ r.total # n THEN Renewed(r, n) ELSE r
  BY <1>1
<1>3. (q.enterprise \/ e) \in BOOLEAN
  OBVIOUS
<1>4. Enqueued(r, n, e) = [q EXCEPT !.enterprise = @ \/ e]
  BY <1>2 DEF Enqueued
<1>5. [q EXCEPT !.enterprise = @ \/ e] \in Row
  BY <1>3 DEF Row
<1>6. \A f \in {"status", "total", "attempts", "next", "token", "lapsed"} : Enqueued(r, n, e)[f] = q[f]
  BY <1>4 DEF Row
<1>7. CASE r.status = "none" \/ r.total # n
  <2>1. q = Renewed(r, n)
    BY <1>2, <1>7
  <2>2. /\ q.total = n /\ q.status = "pending" /\ q.attempts = 0 /\ q.next = "due"
        /\ q.token = NoWorker /\ q.lapsed = FALSE
    BY <2>1 DEF Renewed, Row
  <2> QED BY <1>4, <1>5, <1>6, <2>2
<1>8. CASE ~(r.status = "none" \/ r.total # n)
  <2>1. q = r
    BY <1>2, <1>8
  <2> QED BY <1>4, <1>5, <1>6, <1>8, <2>1
<1> QED BY <1>7, <1>8

\* Settling a row.
LEMMA MarkedRow ==
  ASSUME NEW w \in Workers, NEW s \in Summaries, row[s] \in Row, RowGood(s)
  PROVE  /\ MarkedSent(w, s) \in Row /\ MarkedFailed(w, s) \in Row
         /\ ~Holds(w, s) => MarkedSent(w, s) = row[s] /\ MarkedFailed(w, s) = row[s]
         /\ Holds(w, s) =>
              /\ MarkedSent(w, s).status = "sent" /\ MarkedSent(w, s).token = NoWorker
              /\ ~MarkedSent(w, s).lapsed /\ MarkedSent(w, s).total = row[s].total
              /\ MarkedFailed(w, s).status = "failed" /\ MarkedFailed(w, s).token = NoWorker
              /\ ~MarkedFailed(w, s).lapsed /\ MarkedFailed(w, s).total = row[s].total
              /\ MarkedFailed(w, s).next = "never" <=> MarkedFailed(w, s).attempts = MaxAttempts
              /\ MarkedSent(w, s).next = "never"
<1>1. NextAttempt(row[s]) \in {"later", "never"} /\ (NextAttempt(row[s]) = "never" <=> row[s].attempts = MaxAttempts)
  BY DeliveryAssumption DEF NextAttempt, Row
<1> QED BY <1>1 DEF MarkedSent, MarkedFailed, Row

\* A worker that has nothing in hand.
LEMMA AtGood ==
  ASSUME NEW p \in {"idle", "assign", "claim"}
  PROVE  At(p) \in Worker /\ At(p).phase = p /\ At(p).todo = {} /\ At(p).answer = "none"
BY DeliveryAssumption DEF At, Worker, Totals

\* A worker that drops what it has, or starts over, disturbs nothing else.
LEMMA DropKeeps ==
  ASSUME DeliveryInv, NEW w \in Workers, NEW p \in {"idle", "assign", "claim"},
         worker' = [worker EXCEPT ![w] = At(p)],
         UNCHANGED <<row, applied>>, RestGood'
  PROVE  DeliveryInv'
<1>1. worker' \in [Workers -> Worker] /\ \A v \in Workers : WorkerGood(v)'
  BY AtGood, Split DEF WorkerGood
<1>2. \A v \in Workers, s \in Summaries : HeldGood(v, s)'
  BY AtGood, Split DEF HeldGood, Holds
<1>3. row' \in [Summaries -> Row] /\ \A s \in Summaries : RowGood(s)'
  BY Split DEF RowGood
<1> QED BY <1>1, <1>2, <1>3, SplitNext

\* An upload starts a delivery over or leaves it alone.
LEMMA UploadKeeps ==
  ASSUME DeliveryInv, NEW s \in Summaries, NEW n \in Totals, NEW e \in BOOLEAN, NEW h \in Hints,
         Upload(s, n, e, h)
  PROVE  DeliveryInv'
<1>1. PICK q \in Row : q = Enqueued(row[s], n, e)
  BY EnqueuedRow, Split
<1>2. row' = [row EXCEPT ![s] = q] /\ row' \in [Summaries -> Row]
  BY <1>1, Split DEF Upload
<1>3. /\ q.total = n
      /\ \/ /\ row[s].status # "none" /\ row[s].total = n
            /\ q.status = row[s].status /\ q.attempts = row[s].attempts /\ q.next = row[s].next
            /\ q.token = row[s].token /\ q.lapsed = row[s].lapsed
         \/ /\ q.status = "pending" /\ q.attempts = 0 /\ q.next = "due"
            /\ q.token = NoWorker /\ ~q.lapsed
  BY <1>1, EnqueuedRow, Split
<1>4. /\ applied' \subseteq applied /\ \A x \in applied : x # s => x \in applied'
      /\ row[s].total = n => applied' = applied
  BY <1>2, <1>3, Split DEF Upload
<1>5. \A x \in Summaries : RowGood(x)'
  <2> SUFFICES ASSUME NEW x \in Summaries PROVE RowGood(x)'
    OBVIOUS
  <2>1. CASE x # s
    BY <1>2, <1>4, <2>1, Split DEF RowGood
  <2>2. CASE x = s
    BY <1>2, <1>3, <1>4, <2>2, Split DEF RowGood
  <2> QED BY <2>1, <2>2
<1>6. h \in Workers /\ worker' = [worker EXCEPT ![h] = At("assign")]
  BY DEF Upload, Workers
<1>7. worker' \in [Workers -> Worker] /\ \A v \in Workers : WorkerGood(v)'
  BY <1>6, AtGood, Split DEF WorkerGood
<1>8. \A v \in Workers, x \in Summaries : HeldGood(v, x)'
  <2> SUFFICES ASSUME NEW v \in Workers, NEW x \in Summaries, x \in worker'[v].todo, Holds(v, x)'
               PROVE  /\ worker'[v].payload[x] = row'[x].total
                      /\ worker'[v].current = x /\ worker'[v].answer = "ok" => x \in applied'
    BY DEF HeldGood
  <2>1. v # h /\ worker'[v] = worker[v]
    BY <1>6, AtGood, Split
  <2>2. Holds(v, x) /\ row'[x].total = row[x].total /\ (x = s => row[s].total = n)
    BY <1>2, <1>3, DeliveryAssumption, Split DEF Holds
  <2> QED BY <1>4, <2>1, <2>2, Split DEF HeldGood
<1>9. RestGood'
  BY <1>4, Split, DeliveryAssumption DEF RestGood, Upload
<1> QED BY <1>2, <1>5, <1>7, <1>8, <1>9, SplitNext

\* The mapping and the passing of time: a change of a row that its worker does
\* not see.
LEMMA RowsKeep ==
  ASSUME DeliveryInv, row' \in [Summaries -> Row], \A s \in Summaries : RowGood(s)',
         \A s \in Summaries : /\ row'[s].total = row[s].total
                              /\ row'[s].status = row[s].status /\ row'[s].token = row[s].token,
         UNCHANGED <<worker, applied>>, RestGood'
  PROVE  DeliveryInv'
<1>1. worker' \in [Workers -> Worker] /\ \A v \in Workers : WorkerGood(v)'
  BY Split DEF WorkerGood
<1>2. \A v \in Workers, s \in Summaries : HeldGood(v, s)'
  BY Split DEF HeldGood, Holds
<1> QED BY <1>1, <1>2, SplitNext

\* A backoff or a lease that is over.
LEMMA TimeKeeps ==
  ASSUME DeliveryInv, NEW s \in Summaries, ComesDue(s) \/ Lapse(s)
  PROVE  DeliveryInv'
<1>1. row[s] \in Row /\ [row[s] EXCEPT !.next = "due"] \in Row /\ [row[s] EXCEPT !.lapsed = TRUE] \in Row
  BY Split DEF Row
<1>2. PICK q \in Row : row' = [row EXCEPT ![s] = q] /\ q \in {[row[s] EXCEPT !.next = "due"], [row[s] EXCEPT !.lapsed = TRUE]}
  BY <1>1 DEF ComesDue, Lapse
<1>3. row' \in [Summaries -> Row]
  BY <1>2, Split
<1>4. /\ q.total = row[s].total /\ q.status = row[s].status /\ q.token = row[s].token
      /\ q.attempts = row[s].attempts
  BY <1>1, <1>2 DEF Row
<1>5. \A x \in Summaries : /\ row'[x].total = row[x].total
                           /\ row'[x].status = row[x].status /\ row'[x].token = row[x].token
  BY <1>2, <1>4, Split
<1>6. RowGood(s)'
  <2>1. CASE ComesDue(s)
    <3>1. row'[s].next = "due" /\ row'[s].lapsed = row[s].lapsed /\ row'[s].attempts = row[s].attempts
      BY <1>1, <2>1, Split DEF ComesDue, Row
    <3> QED BY <1>5, <2>1, <3>1, Split DEF RowGood, ComesDue
  <2>2. CASE Lapse(s)
    <3>1. row'[s].status = "sending" /\ row'[s].attempts = row[s].attempts
      BY <1>1, <2>2, Split DEF Lapse, Row
    <3> QED BY <1>5, <2>2, <3>1, Split DEF RowGood, Lapse
  <2> QED BY <2>1, <2>2
<1>7. \A x \in Summaries : RowGood(x)'
  BY <1>2, <1>6, Split DEF RowGood, ComesDue, Lapse
<1>8. RestGood' /\ UNCHANGED <<worker, applied>>
  BY Split DEF ComesDue, Lapse, RestGood
<1> QED BY <1>3, <1>5, <1>7, <1>8, RowsKeep

\* Entering the enterprise touches no row that is being sent.
LEMMA AssignKeeps ==
  ASSUME DeliveryInv, NEW w \in Workers, Assign(w)
  PROVE  DeliveryInv'
<1>1. \A s \in Summaries :
        /\ row'[s] \in Row
        /\ \A f \in {"status", "total", "attempts", "next", "token", "lapsed"} : row'[s][f] = row[s][f]
  <2> SUFFICES ASSUME NEW s \in Summaries
               PROVE  /\ row'[s] \in Row
                      /\ \A f \in {"status", "total", "attempts", "next", "token", "lapsed"} : row'[s][f] = row[s][f]
    OBVIOUS
  <2>1. row'[s] \in {row[s], [row[s] EXCEPT !.enterprise = TRUE]} /\ row[s] \in Row
    BY Split DEF Assign, Assigned
  <2> QED BY <2>1 DEF Row
<1>2. row' \in [Summaries -> Row]
  BY <1>1 DEF Assign
<1>3. \A s \in Summaries : /\ row'[s].status = row[s].status /\ row'[s].total = row[s].total
                           /\ row'[s].attempts = row[s].attempts /\ row'[s].next = row[s].next
                           /\ row'[s].token = row[s].token /\ row'[s].lapsed = row[s].lapsed
  BY <1>1
<1>4. \A s \in Summaries : RowGood(s)'
  BY <1>3, Split DEF RowGood, Assign
<1>5. worker' = [worker EXCEPT ![w] = At("claim")] /\ applied' = applied
  BY DEF Assign
<1>6. worker' \in [Workers -> Worker] /\ \A v \in Workers : WorkerGood(v)'
  BY <1>5, AtGood, Split DEF WorkerGood
<1>7. \A v \in Workers, s \in Summaries : HeldGood(v, s)'
  <2> SUFFICES ASSUME NEW v \in Workers, NEW s \in Summaries PROVE HeldGood(v, s)'
    OBVIOUS
  <2>1. CASE v = w
    BY <1>5, <2>1, AtGood, Split DEF HeldGood
  <2>2. CASE v # w
    BY <1>3, <1>5, <2>2, Split DEF HeldGood, Holds
  <2> QED BY <2>1, <2>2
<1>8. RestGood'
  BY Split DEF RestGood, Assign
<1> QED BY <1>2, <1>4, <1>6, <1>7, <1>8, SplitNext

\* The rows a worker sends next.
LEMMA SendingGood ==
  ASSUME NEW C \in SUBSET Summaries, NEW s \in C, NEW totals \in [Summaries -> Totals]
  PROVE  /\ Sending(C, s, totals) \in Worker /\ Sending(C, s, totals).phase = "send"
         /\ Sending(C, s, totals).todo = C /\ Sending(C, s, totals).current = s
         /\ Sending(C, s, totals).answer = "none"
         /\ \A x \in C : Sending(C, s, totals).payload[x] = totals[x]
BY DeliveryAssumption DEF Sending, Worker, Totals

\* A claim takes rows that are due, or whose lease is over, and gives up the
\* ones that have used all their attempts.
LEMMA ClaimKeeps ==
  ASSUME DeliveryInv, NEW w \in Workers, Claim(w)
  PROVE  DeliveryInv'
<1>1. PICK C \in Claims :
        /\ row' = [s \in Summaries |->
                     IF s \in C THEN Claimed(w, row[s])
                     ELSE IF Exhausted(s) THEN GivenUp(row[s]) ELSE row[s]]
        /\ \/ C = {} /\ worker' = [worker EXCEPT ![w] = At("idle")]
           \/ \E s \in C :
                worker' = [worker EXCEPT ![w] = Sending(C, s, [x \in Summaries |-> row[x].total])]
  BY DEF Claim
<1>2. C \in SUBSET Summaries /\ \A s \in C : row[s].attempts < MaxAttempts
  BY <1>1 DEF Claims, Due
<1>3. \A s \in C : /\ row'[s] \in Row /\ row'[s].total = row[s].total /\ row'[s].token = w
                   /\ row'[s].status = "sending" /\ row'[s].attempts > 0
  <2> SUFFICES ASSUME NEW s \in C
               PROVE  /\ row'[s] \in Row /\ row'[s].total = row[s].total /\ row'[s].token = w
                      /\ row'[s].status = "sending" /\ row'[s].attempts > 0
    OBVIOUS
  <2>1. row'[s] = Claimed(w, row[s]) /\ row[s] \in Row
    BY <1>1, <1>2, Split
  <2>2. PICK a \in 0..MaxAttempts : a = row[s].attempts + 1 /\ a > 0
    BY <1>2, <2>1, DeliveryAssumption DEF Row
  <2>3. row'[s] = [row[s] EXCEPT !.status = "sending", !.attempts = a, !.token = w, !.lapsed = FALSE]
    BY <2>1, <2>2 DEF Claimed
  <2> QED BY <2>1, <2>2, <2>3 DEF Row
<1>4. \A s \in Summaries \ C :
        \/ row'[s] = row[s]
        \/ /\ row'[s] \in Row /\ row'[s].status = "failed" /\ row'[s].next = "never"
           /\ row'[s].attempts = MaxAttempts /\ row'[s].token = NoWorker /\ ~row'[s].lapsed
  <2> SUFFICES ASSUME NEW s \in Summaries \ C, row'[s] # row[s]
               PROVE  /\ row'[s] \in Row /\ row'[s].status = "failed" /\ row'[s].next = "never"
                      /\ row'[s].attempts = MaxAttempts /\ row'[s].token = NoWorker /\ ~row'[s].lapsed
    OBVIOUS
  <2>1. row'[s] = GivenUp(row[s]) /\ row[s] \in Row /\ row[s].attempts = MaxAttempts
    BY <1>1, Split, DeliveryAssumption DEF Exhausted, Row
  <2> QED BY <2>1 DEF GivenUp, Row
<1>5. row' \in [Summaries -> Row] /\ applied' = applied
  BY <1>1, <1>3, <1>4, Split DEF Claim
<1>6. \A s \in Summaries : RowGood(s)'
  <2> SUFFICES ASSUME NEW s \in Summaries PROVE RowGood(s)'
    OBVIOUS
  <2>1. CASE s \in C
    BY <1>3, <2>1 DEF RowGood
  <2>2. CASE s \notin C
    BY <1>4, <1>5, <2>2, Split DEF RowGood
  <2> QED BY <2>1, <2>2
<1>7. [x \in Summaries |-> row[x].total] \in [Summaries -> Totals]
  BY Split DEF Row
<1>8. PICK k \in Worker :
        /\ worker' = [worker EXCEPT ![w] = k]
        /\ k.todo = C /\ k.answer = "none"
        /\ k.phase = "send" => k.current \in C
        /\ k.phase # "send" => C = {}
        /\ \A x \in C : k.payload[x] = row[x].total
  <2>1. CASE C = {} /\ worker' = [worker EXCEPT ![w] = At("idle")]
    BY <2>1, AtGood
  <2>2. CASE \E s \in C : worker' = [worker EXCEPT ![w] = Sending(C, s, [x \in Summaries |-> row[x].total])]
    <3>1. PICK s \in C : worker' = [worker EXCEPT ![w] = Sending(C, s, [x \in Summaries |-> row[x].total])]
      BY <2>2
    <3>2. PICK totals \in [Summaries -> Totals] : totals = [x \in Summaries |-> row[x].total]
      BY <1>7
    <3>3. PICK k \in Worker :
            /\ k = Sending(C, s, totals)
            /\ k.phase = "send" /\ k.todo = C /\ k.current = s /\ k.answer = "none"
            /\ \A x \in C : k.payload[x] = totals[x]
      BY <1>2, SendingGood
    <3> QED BY <1>2, <3>1, <3>2, <3>3
  <2> QED BY <1>1, <2>1, <2>2
<1>9. worker' \in [Workers -> Worker] /\ \A v \in Workers : WorkerGood(v)'
  BY <1>8, Split DEF WorkerGood
<1>10. \A v \in Workers, s \in Summaries : HeldGood(v, s)'
  <2> SUFFICES ASSUME NEW v \in Workers, NEW s \in Summaries, s \in worker'[v].todo, Holds(v, s)'
               PROVE  /\ worker'[v].payload[s] = row'[s].total
                      /\ worker'[v].current = s /\ worker'[v].answer = "ok" => s \in applied'
    BY DEF HeldGood
  <2>1. CASE v = w
    BY <1>3, <1>8, <2>1, Split
  <2>2. CASE v # w
    <3>1. s \notin C /\ row'[s] = row[s]
      BY <1>3, <1>4, <2>2 DEF Holds
    <3> QED BY <1>5, <1>8, <2>2, <3>1, Split DEF HeldGood, Holds
  <2> QED BY <2>1, <2>2
<1>11. RestGood'
  BY Split DEF RestGood, Claim
<1> QED BY <1>5, <1>6, <1>9, <1>10, <1>11, SplitNext

\* The worker goes on to the next of its rows, or is done.
LEMMA AdvanceGood ==
  ASSUME DeliveryInv, NEW w \in Workers, worker[w].phase = "send", Advance(w)
  PROVE  /\ worker' \in [Workers -> Worker] /\ \A v \in Workers : WorkerGood(v)'
         /\ \A v \in Workers : v # w => worker'[v] = worker[v]
         /\ worker'[w].answer = "none" /\ worker'[w].todo \subseteq worker[w].todo \ {worker[w].current}
         /\ \A x \in worker'[w].todo : worker'[w].payload[x] = worker[w].payload[x]
<1>1. PICK rest \in SUBSET Summaries : rest = worker[w].todo \ {worker[w].current}
  BY Split DEF Worker
<1>2. worker[w].payload \in [Summaries -> Totals]
  BY Split DEF Worker
<1>3. PICK k \in Worker :
        /\ worker' = [worker EXCEPT ![w] = k]
        /\ k.todo \subseteq rest /\ k.answer = "none"
        /\ IF k.phase = "send" THEN k.current \in k.todo ELSE k.todo = {}
        /\ \A x \in k.todo : k.payload[x] = worker[w].payload[x]
  <2>1. CASE rest = {} /\ worker' = [worker EXCEPT ![w] = At("idle")]
    BY <2>1, AtGood
  <2>2. CASE \E s \in rest : worker' = [worker EXCEPT ![w] = Sending(rest, s, worker[w].payload)]
    <3>1. PICK s \in rest : worker' = [worker EXCEPT ![w] = Sending(rest, s, worker[w].payload)]
      BY <2>2
    <3>2. PICK totals \in [Summaries -> Totals] : totals = worker[w].payload
      BY <1>2
    <3>3. PICK k \in Worker :
            /\ k = Sending(rest, s, totals)
            /\ k.phase = "send" /\ k.todo = rest /\ k.current = s /\ k.answer = "none"
            /\ \A x \in rest : k.payload[x] = totals[x]
      BY SendingGood
    <3> QED BY <3>1, <3>2, <3>3
  <2> QED BY <1>1, <2>1, <2>2 DEF Advance
<1> QED BY <1>1, <1>3, Split DEF WorkerGood

\* A row settled by its holder, or left alone because the worker is not its
\* holder any more.
LEMMA SettleKeeps ==
  ASSUME DeliveryInv, NEW w \in Workers, worker[w].phase = "send",
         NEW q, q \in {MarkedSent(w, worker[w].current), MarkedFailed(w, worker[w].current)},
         q = MarkedSent(w, worker[w].current) => worker[w].answer = "ok" \/ q = row[worker[w].current],
         row' = [row EXCEPT ![worker[w].current] = q], Advance(w), applied' = applied, RestGood'
  PROVE  DeliveryInv'
<1>1. PICK c \in Summaries : c = worker[w].current /\ c \in worker[w].todo
  BY Split DEF WorkerGood, Worker
<1>2. row[c] \in Row /\ RowGood(c) /\ HeldGood(w, c)
  BY <1>1, Split
<1>3. /\ q \in Row /\ q.total = row[c].total
      /\ q = row[c] \/ /\ q.token = NoWorker /\ ~q.lapsed
                       /\ \/ q.status = "sent" /\ c \in applied
                          \/ q.status = "failed" /\ (q.next = "never" <=> q.attempts = MaxAttempts)
  <2>1. CASE Holds(w, c)
    BY <1>1, <1>2, <2>1, MarkedRow DEF HeldGood
  <2>2. CASE ~Holds(w, c)
    BY <1>1, <1>2, <2>2, MarkedRow
  <2> QED BY <2>1, <2>2
<1>4. row' = [row EXCEPT ![c] = q] /\ row' \in [Summaries -> Row]
  BY <1>1, <1>3, Split
<1>5. \A s \in Summaries : RowGood(s)'
  <2> SUFFICES ASSUME NEW s \in Summaries PROVE RowGood(s)'
    OBVIOUS
  <2>1. CASE row'[s] = row[s]
    BY <2>1, Split DEF RowGood
  <2>2. CASE row'[s] # row[s]
    BY <1>3, <1>4, <2>2, Split DEF RowGood
  <2> QED BY <2>1, <2>2
<1>6. \A v \in Workers, s \in Summaries : HeldGood(v, s)'
  <2> SUFFICES ASSUME NEW v \in Workers, NEW s \in Summaries, s \in worker'[v].todo, Holds(v, s)'
               PROVE  /\ worker'[v].payload[s] = row'[s].total
                      /\ worker'[v].current = s /\ worker'[v].answer = "ok" => s \in applied'
    BY DEF HeldGood
  <2>1. row'[s] = row[s] /\ Holds(v, s)
    BY <1>3, <1>4, DeliveryAssumption, Split DEF Holds
  <2>2. CASE v # w
    BY <2>1, <2>2, AdvanceGood, Split DEF HeldGood
  <2>3. CASE v = w
    BY <2>1, <2>3, AdvanceGood, Split DEF HeldGood
  <2> QED BY <2>2, <2>3
<1> QED BY <1>4, <1>5, <1>6, AdvanceGood, SplitNext

\* A request that outlives its worker.
LEMMA LateGood ==
  ASSUME DeliveryInv, NEW w \in Workers, late' = late \/ Linger(w)
  PROVE  late' \in [Slots -> Request \union {NoRequest}]
<1>1. CASE late' = late
  BY <1>1, Split DEF RestGood
<1>2. CASE Linger(w)
  <2>1. worker[w] \in Worker /\ worker[w].current \in Summaries
    BY <1>2, Split DEF Linger, Answered, WorkerGood, Worker
  <2>2. Pending(w) \in Request
    BY <2>1 DEF Pending, Request, Worker
  <2> QED BY <1>2, <2>2, Split DEF Linger, RestGood
<1> QED BY <1>1, <1>2

\* What the Operator stores does not take a delivery back.
LEMMA IngestGood ==
  ASSUME DeliveryInv, NEW request \in Request, Ingest(request)
  PROVE  /\ applied \subseteq applied' /\ applied' \subseteq Summaries
         /\ seen' \in [Summaries -> Totals]
         /\ up /\ request.total = row[request.summary].total => request.summary \in applied'
<1>1. /\ seen \in [Summaries -> Totals] /\ applied \subseteq Summaries
      /\ request.summary \in Summaries /\ request.total \in Totals
  BY Split DEF RestGood, Request
<1>2. CASE up
  BY <1>1, <1>2 DEF Ingest, Stored
<1>3. CASE ~up
  BY <1>1, <1>3 DEF Ingest
<1> QED BY <1>2, <1>3

\* Storing more leaves rows and other workers as they are.
LEMMA HandleKeeps ==
  ASSUME DeliveryInv, NEW w \in Workers, Handle(w)
  PROVE  DeliveryInv'
<1>1. PICK c \in Summaries : c = worker[w].current /\ c \in worker[w].todo
  BY Split DEF Handle, Answered, WorkerGood, Worker
<1>2. /\ Pending(w) \in Request /\ Pending(w).summary = c /\ Pending(w).total = worker[w].payload[c]
      /\ worker[w] \in Worker
  BY <1>1, Split DEF Pending, Request, Worker
<1>3. /\ applied \subseteq applied' /\ applied' \subseteq Summaries
      /\ seen' \in [Summaries -> Totals]
      /\ up /\ worker[w].payload[c] = row[c].total => c \in applied'
  BY <1>2, IngestGood DEF Handle
<1>4. row' = row /\ row' \in [Summaries -> Row] /\ \A s \in Summaries : RowGood(s)'
  BY <1>3, Split DEF Handle, RowGood
<1>5. PICK a \in {"ok", "error"} : /\ worker' = [worker EXCEPT ![w] = [worker[w] EXCEPT !.answer = a]]
                                   /\ a = "ok" /\ worker[w].payload[c] = row[c].total => c \in applied'
  <2>1. CASE up
    BY <1>3, <2>1 DEF Handle
  <2>2. CASE ~up
    BY <2>2 DEF Handle
  <2> QED BY <2>1, <2>2
<1>6. PICK k \in Worker : /\ worker' = [worker EXCEPT ![w] = k]
                          /\ k.phase = "send" /\ k.todo = worker[w].todo /\ k.current = c
                          /\ k.payload = worker[w].payload /\ k.answer = a
  <2>1. [worker[w] EXCEPT !.answer = a] \in Worker
    BY <1>2 DEF Worker
  <2>2. PICK k \in Worker : k = [worker[w] EXCEPT !.answer = a]
    BY <2>1
  <2>3. /\ k.phase = "send" /\ k.todo = worker[w].todo /\ k.current = c
        /\ k.payload = worker[w].payload /\ k.answer = a
    BY <1>1, <1>2, <2>2 DEF Handle, Answered, Worker
  <2> QED BY <1>5, <2>2, <2>3
<1>7. worker' \in [Workers -> Worker] /\ \A v \in Workers : WorkerGood(v)'
  BY <1>1, <1>6, Split DEF WorkerGood
<1>8. \A v \in Workers, s \in Summaries : HeldGood(v, s)'
  <2> SUFFICES ASSUME NEW v \in Workers, NEW s \in Summaries, s \in worker'[v].todo, Holds(v, s)'
               PROVE  /\ worker'[v].payload[s] = row'[s].total
                      /\ worker'[v].current = s /\ worker'[v].answer = "ok" => s \in applied'
    BY DEF HeldGood
  <2>1. Holds(v, s)
    BY <1>4 DEF Holds
  <2>2. CASE v # w
    BY <1>3, <1>4, <1>6, <2>1, <2>2, Split DEF HeldGood
  <2>3. CASE v = w
    <3>1. worker'[w] = k /\ s \in worker[w].todo
      BY <1>6, <2>3, Split
    <3>2. worker[w].payload[s] = row[s].total
      BY <2>1, <2>3, <3>1, Split DEF HeldGood
    <3>3. k.payload[s] = row[s].total /\ (k.current = s /\ k.answer = "ok" => s \in applied')
      BY <1>5, <1>6, <3>2
    <3> QED BY <1>4, <2>3, <3>1, <3>3
  <2> QED BY <2>2, <2>3
<1>9. RestGood'
  BY <1>3, Split DEF RestGood, Handle
<1> QED BY <1>4, <1>7, <1>8, <1>9, SplitNext

\* Steps that leave rows and workers alone and at most store more.
LEMMA OutsideKeeps ==
  ASSUME DeliveryInv, UNCHANGED <<row, worker>>, applied \subseteq applied', RestGood'
  PROVE  DeliveryInv'
<1>1. row' \in [Summaries -> Row] /\ \A s \in Summaries : RowGood(s)'
  BY Split DEF RowGood
<1>2. worker' \in [Workers -> Worker] /\ \A v \in Workers : WorkerGood(v)'
  BY Split DEF WorkerGood
<1>3. \A v \in Workers, s \in Summaries : HeldGood(v, s)'
  BY Split DEF HeldGood, Holds
<1> QED BY <1>1, <1>2, <1>3, SplitNext

\* One case per action.
LEMMA NextKeeps == DeliveryInv /\ [Next]_vars => DeliveryInv'
<1> SUFFICES ASSUME DeliveryInv, [Next]_vars PROVE DeliveryInv'
  OBVIOUS
<1>1. CASE \E s \in Summaries, n \in Totals, e \in BOOLEAN, h \in Hints : Upload(s, n, e, h)
  BY <1>1, UploadKeeps
<1>2. ASSUME NEW w \in Pollers, Sweep(w) PROVE DeliveryInv'
  <2>1. w \in Workers /\ RestGood'
    BY <1>2, Split DEF Workers, Sweep, RestGood
  <2> QED BY <1>2, <2>1, DropKeeps DEF Sweep
<1>3. ASSUME NEW w \in Workers, AssignSkipped(w) PROVE DeliveryInv'
  <2>1. RestGood'
    BY <1>3, Split DEF AssignSkipped, RestGood
  <2> QED BY <1>3, <2>1, DropKeeps DEF AssignSkipped
<1>4. ASSUME NEW w \in Workers, Abandon(w) PROVE DeliveryInv'
  <2>1. late' \in [Slots -> Request \union {NoRequest}]
    BY <1>4, LateGood DEF Abandon
  <2>2. RestGood'
    BY <1>4, <2>1, Split DEF Abandon, RestGood
  <2> QED BY <1>4, <2>2, DropKeeps DEF Abandon
<1>5. ASSUME NEW w \in Workers, Sent(w) PROVE DeliveryInv'
  <2>1. RestGood'
    BY <1>5, Split DEF Sent, RestGood
  <2> QED BY <1>5, <2>1, SettleKeeps DEF Sent, Answered
<1>6. ASSUME NEW w \in Workers, Failed(w) \/ TimeOut(w) PROVE DeliveryInv'
  <2>1. late' \in [Slots -> Request \union {NoRequest}]
    BY <1>6, LateGood DEF Failed, TimeOut
  <2>2. RestGood'
    BY <1>6, <2>1, Split DEF Failed, TimeOut, RestGood
  <2>3. worker[w].phase = "send" /\ worker[w].current \in Summaries
    BY <1>6, Split DEF Failed, TimeOut, Answered, WorkerGood, Worker
  <2>4. PICK q : q = MarkedFailed(w, worker[w].current)
    OBVIOUS
  <2>5. q = MarkedSent(w, worker[w].current) => q = row[worker[w].current]
    BY <2>3, <2>4, MarkedRow, Split
  <2>6. /\ row' = [row EXCEPT ![worker[w].current] = q] /\ Advance(w) /\ applied' = applied
    BY <1>6, <2>4 DEF Failed, TimeOut
  <2> QED BY <2>2, <2>3, <2>4, <2>5, <2>6, SettleKeeps
<1>7. ASSUME NEW k \in Slots, HandleLate(k) PROVE DeliveryInv'
  <2>1. late[k] \in Request /\ late' \in [Slots -> Request \union {NoRequest}]
    BY <1>7, Split DEF HandleLate, RestGood
  <2>2. /\ applied \subseteq applied' /\ applied' \subseteq Summaries
        /\ seen' \in [Summaries -> Totals]
    BY <1>7, <2>1, IngestGood DEF HandleLate
  <2>3. RestGood'
    BY <1>7, <2>1, <2>2, Split DEF HandleLate, RestGood
  <2> QED BY <1>7, <2>2, <2>3, OutsideKeeps DEF HandleLate
<1>8. CASE OperatorChanges \/ Map \/ CalmsDown
  <2>1. mapped' \in BOOLEAN /\ up' \in BOOLEAN /\ calm' \in BOOLEAN
    BY <1>8, Split, Zenon DEF OperatorChanges, Map, CalmsDown, RestGood
  <2>2. RestGood' /\ UNCHANGED <<row, worker, applied>>
    BY <1>8, <2>1, Split DEF OperatorChanges, Map, CalmsDown, RestGood
  <2> QED BY <2>2, OutsideKeeps
<1>9. CASE UNCHANGED vars
  <2>1. RestGood' /\ UNCHANGED <<row, worker, applied>>
    BY <1>9, Split DEF vars, RestGood
  <2> QED BY <2>1, OutsideKeeps
<1> QED
  BY <1>1, <1>2, <1>3, <1>4, <1>5, <1>6, <1>7, <1>8, <1>9,
     AssignKeeps, ClaimKeeps, HandleKeeps, TimeKeeps DEF Next, Step

\* The invariant holds in every reachable state, for every number of summaries,
\* workers and late requests: what claim_due, mark_sent, mark_failed and
\* enqueue_in_session keep true of a row whatever order they come in.
THEOREM DeliveryInvariance == Spec => []DeliveryInv
<1>1. Init => DeliveryInv
  BY InitInv
<1>2. DeliveryInv /\ [Next]_vars => DeliveryInv'
  BY NextKeeps
<1> QED BY <1>1, <1>2, PTL DEF Spec

\* mark_sent is believed only for the total that the Operator has stored.
THEOREM SentMeansDelivered == Spec => []SentWasDelivered
<1>1. DeliveryInv => SentWasDelivered
  BY DEF DeliveryInv
<1> QED BY <1>1, DeliveryInvariance, PTL

\* No delivery drops out of claim_due's reach before its last attempt.
THEOREM GivesUpAtBound == Spec => []GivesUpOnlyAtBound
<1>1. DeliveryInv => GivesUpOnlyAtBound
  BY DEF DeliveryInv
<1> QED BY <1>1, DeliveryInvariance, PTL

\* A row that is sent or given up is out of reach of claim_due and of every
\* worker; only an upload of another total starts it over.
LEMMA FinalStep ==
  ASSUME DeliveryInv, [Next]_vars, NEW s \in Summaries, Final(row[s]), row'[s].total = row[s].total
  PROVE  Final(row'[s])
<1>1. row[s] \in Row /\ RowGood(s) /\ row \in [Summaries -> Row] /\ s \notin Due /\ ~LeaseOver(s)
  BY Split, DeliveryAssumption DEF Final, Due, LeaseOver, RowGood, Row
<1>2. ASSUME NEW x \in Summaries, NEW n \in Totals, NEW e \in BOOLEAN, NEW h \in Hints, Upload(x, n, e, h)
      PROVE  Final(row'[s])
  <2>1. CASE x # s
    BY <1>1, <1>2, <2>1 DEF Upload
  <2>2. CASE x = s
    <3>1. PICK q \in Row : q = Enqueued(row[s], n, e) /\ row'[s] = q
      BY <1>1, <1>2, <2>2, EnqueuedRow DEF Upload
    <3>2. q.total = n /\ row[s].status # "none" /\ row[s].total = n
      BY <1>1, <3>1, EnqueuedRow DEF Final
    <3>3. q.status = row[s].status /\ q.next = row[s].next
      BY <1>1, <3>1, <3>2 DEF Enqueued, Row
    <3> QED BY <3>1, <3>3 DEF Final
  <2> QED BY <2>1, <2>2
<1>3. ASSUME NEW w \in Workers, Assign(w) PROVE Final(row'[s])
  <2>1. row'[s] \in {row[s], [row[s] EXCEPT !.enterprise = TRUE]}
    BY <1>3 DEF Assign, Assigned
  <2> QED BY <1>1, <2>1 DEF Final, Row
<1>4. ASSUME NEW w \in Workers, Claim(w) PROVE Final(row'[s])
  <2>1. row'[s] = row[s]
    BY <1>1, <1>4 DEF Claim, Claims, Exhausted
  <2> QED BY <2>1
<1>5. ASSUME NEW w \in Workers, Sent(w) \/ Failed(w) \/ TimeOut(w) PROVE Final(row'[s])
  <2>1. ~Holds(w, s)
    BY <1>1 DEF Final, Holds
  <2>2. row'[s] = row[s]
    BY <1>1, <1>5, <2>1 DEF Sent, Failed, TimeOut, MarkedSent, MarkedFailed
  <2> QED BY <2>2
<1>6. ASSUME NEW x \in Summaries, ComesDue(x) \/ Lapse(x) PROVE Final(row'[s])
  <2>1. CASE x # s
    BY <1>1, <1>6, <2>1 DEF ComesDue, Lapse
  <2>2. CASE x = s
    BY <1>1, <1>6, <2>2 DEF ComesDue, Lapse, Final, Row
  <2> QED BY <2>1, <2>2
<1>7. CASE row' = row
  BY <1>7
<1> QED
  BY <1>2, <1>3, <1>4, <1>5, <1>6, <1>7
  DEF Next, Step, Sweep, AssignSkipped, Abandon, Handle, HandleLate, OperatorChanges, Map, CalmsDown, vars

\* What is sent, or given up, stays so until the Agent uploads another total.
THEOREM FinalIsFinal == Spec => FinalStays
<1>1. DeliveryInv /\ [Next]_vars =>
        [\A s \in Summaries : Final(row[s]) /\ row'[s].total = row[s].total => Final(row'[s])]_vars
  BY FinalStep
<1> QED BY <1>1, DeliveryInvariance, PTL DEF Spec, FinalStays
=============================================================================
