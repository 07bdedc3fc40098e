-------------------------- MODULE UsageOutboxProofs --------------------------
(***************************************************************************)
(* OutboxInv is an invariant of UsageOutbox for every number of summaries, *)
(* flushes and late requests; with it, a row marked sent was stored by the *)
(* Manager with the total it has, no row stays 'sending' without a flush   *)
(* that holds it, usage is never counted twice, and a rejected summary     *)
(* stays rejected until it is written again.                               *)
(***************************************************************************)
EXTENDS UsageOutbox, TLAPS

RowState == [status : Statuses, total : Totals, token : Flushes \union {NoFlush}]

\* What settling rows can do: a row keeps its total, and a row that changes was
\* held by the flush that settles it and is no longer being sent.
SettlesOnly(f, R) ==
  \A s \in Summaries :
    \/ R[s] = row[s]
    \/ /\ Holds(f, s)
       /\ R[s] \in RowState /\ R[s].total = row[s].total
       /\ R[s].status \in {"sent", "failed", "rejected", "pending"}
       /\ R[s].status = "sent" => s = flush[f].current /\ flush[f].answer = "ok"

\* What the step of a flush does to the rows and the flushes: it settles rows it
\* held, and keeps the rest of them on its list, as they were.
Settles(f) ==
  /\ row' \in [Summaries -> RowState]
  /\ SettlesOnly(f, row')
  /\ flush' \in [Flushes -> FlushState]
  /\ \A g \in Flushes : g # f => flush'[g] = flush[g]
  /\ flush'[f].todo \subseteq flush[f].todo
  /\ \A s \in flush'[f].todo : flush'[f].payload[s] = flush[f].payload[s]
  /\ flush'[f].answer = "none"
  /\ flush'[f].current \in flush'[f].todo \/ flush'[f] = Idle
  /\ \A s \in Summaries : Holds(f, s) => s \in flush'[f].todo \/ row'[s].status # "sending"

\* Settling a row yields a row (the mark statements of the store).
LEMMA SettledRow ==
  ASSUME TypeOK, NEW f \in Flushes, NEW s \in Summaries,
         NEW st \in {"sent", "failed", "rejected", "pending"}
  PROVE  /\ Settled(f, s, st) \in RowState
         /\ Settled(f, s, st).total = row[s].total
         /\ ~Holds(f, s) => Settled(f, s, st) = row[s]
         /\ Holds(f, s) => Settled(f, s, st).status = st
  BY DEF Settled, TypeOK, RowState, Statuses

\* After an answer the flush goes on with some of the rows it had, with the
\* totals it had for them, and has settled the others.
LEMMA AdvanceSettles ==
  ASSUME OutboxInv, NEW f \in Flushes, flush[f].current # NoRow,
         NEW st \in {"sent", "failed", "rejected", "pending"}, NEW u \in BOOLEAN,
         st = "sent" => flush[f].answer = "ok",
         Advance(f, st, u)
  PROVE  Settles(f)
<1> DEFINE at == flush[f].current
           skipped == Skipped(f, u)
           rest == flush[f].todo \ (skipped \union {at})
           R == [s \in Summaries |->
                   IF s = at THEN Settled(f, s, st)
                   ELSE IF s \in skipped THEN Settled(f, s, "pending") ELSE row[s]]
<1>1. row' = R /\ \E s \in First(rest) :
        flush' = [flush EXCEPT ![f] = Waiting(rest, s, flush[f].payload, u /\ rest # {})]
  BY DEF Advance
<1>2. PICK s0 \in First(rest) :
        flush' = [flush EXCEPT ![f] = Waiting(rest, s0, flush[f].payload, u /\ rest # {})]
  BY <1>1
<1>3. TypeOK /\ SendingIsHeld
  BY DEF OutboxInv
<1>4. /\ flush[f] \in FlushState /\ at \in flush[f].todo
      /\ flush \in [Flushes -> FlushState] /\ row \in [Summaries -> RowState]
  BY <1>3 DEF TypeOK, Idle, RowState
<1>5. rest \in SUBSET Summaries /\ flush[f].payload \in [Summaries -> Totals] /\ skipped \subseteq flush[f].todo
  BY <1>4 DEF FlushState, Skipped
<1>6. PICK P : P = flush[f].payload
  OBVIOUS
<1>7. PICK C : C = rest
  OBVIOUS
<1>8. PICK v \in BOOLEAN : v = (u /\ C # {})
  OBVIOUS
<1>9. PICK W : W = Waiting(C, s0, P, v)
  OBVIOUS
<1>10. /\ W \in FlushState /\ W.todo = C /\ W.answer = "none"
       /\ \A x \in C : W.payload[x] = P[x]
       /\ W.current \in C \/ W = Idle
  <2>1. s0 \in First(C) /\ C \in SUBSET Summaries /\ P \in [Summaries -> Totals]
    BY <1>2, <1>5, <1>6, <1>7
  <2>2. W = [todo |-> C, current |-> s0, answer |-> "none", unsupported |-> v,
             payload |-> [x \in Summaries |-> IF x \in C THEN P[x] ELSE 0]]
    BY <1>9 DEF Waiting
  <2>3. 0 \in Totals
    BY OutboxAssumption DEF Totals
  <2>4. [x \in Summaries |-> IF x \in C THEN P[x] ELSE 0] \in [Summaries -> Totals]
    BY <2>1, <2>3
  <2>5. s0 \in Summaries \union {NoRow}
    BY <2>1 DEF First
  <2>6. W \in FlushState /\ W.todo = C /\ W.answer = "none" /\ W.current = s0
    BY <2>1, <2>2, <2>4, <2>5 DEF FlushState
  <2>7. \A x \in C : W.payload[x] = P[x]
    BY <2>1, <2>2
  <2>8. s0 \in C \/ W = Idle
    <3>1. CASE C = {}
      <4>1. s0 = NoRow
        BY <2>1, <3>1 DEF First
      <4>2. v = FALSE
        BY <1>8, <3>1
      <4>3. [x \in Summaries |-> IF x \in C THEN P[x] ELSE 0] = [x \in Summaries |-> 0]
        BY <3>1
      <4> QED BY <2>2, <3>1, <4>1, <4>2, <4>3 DEF Idle
    <3>2. CASE C # {}
      BY <2>1, <3>2 DEF First
    <3> QED BY <3>1, <3>2
  <2> QED BY <2>6, <2>7, <2>8
<1>11. flush' = [flush EXCEPT ![f] = W]
  BY <1>2, <1>6, <1>7, <1>8, <1>9, Zenon
<1>13. \A s \in Summaries :
         \/ R[s] = row[s]
         \/ /\ Holds(f, s)
            /\ R[s] \in RowState /\ R[s].total = row[s].total
            /\ R[s].status \in {"sent", "failed", "rejected", "pending"}
            /\ R[s].status = "sent" => s = flush[f].current /\ flush[f].answer = "ok"
  <2> SUFFICES ASSUME NEW s \in Summaries
               PROVE  \/ R[s] = row[s]
                      \/ /\ Holds(f, s)
                         /\ R[s] \in RowState /\ R[s].total = row[s].total
                         /\ R[s].status \in {"sent", "failed", "rejected", "pending"}
                         /\ R[s].status = "sent" => s = flush[f].current /\ flush[f].answer = "ok"
    OBVIOUS
  <2>1. CASE s = at
    <3>1. R[s] = Settled(f, s, st)
      BY <2>1
    <3> QED BY <1>3, <2>1, <3>1, SettledRow
  <2>2. CASE s # at /\ s \in skipped
    <3>1. R[s] = Settled(f, s, "pending")
      BY <2>2
    <3> QED BY <1>3, <3>1, SettledRow
  <2>3. CASE s # at /\ s \notin skipped
    BY <2>3
  <2> QED BY <2>1, <2>2, <2>3
<1>12. \A s \in Summaries : R[s] \in RowState
  <2> HIDE DEF R
  <2> QED BY <1>4, <1>13
<1>14. \A s \in Summaries : Holds(f, s) => s \in C \/ R[s].status # "sending"
  <2> SUFFICES ASSUME NEW s \in Summaries, Holds(f, s), s \notin C
               PROVE  R[s].status # "sending"
    OBVIOUS
  <2>1. s \in flush[f].todo
    BY <1>3 DEF SendingIsHeld, Holds
  <2>2. s = at \/ s \in skipped
    BY <1>7, <2>1
  <2>3. CASE s = at
    BY <1>3, <2>3, SettledRow
  <2>4. CASE s # at /\ s \in skipped
    BY <1>3, <2>4, SettledRow
  <2> QED BY <2>2, <2>3, <2>4
<1>15. flush'[f] = W /\ \A g \in Flushes : g # f => flush'[g] = flush[g]
  BY <1>4, <1>11
<1>16. flush' \in [Flushes -> FlushState]
  BY <1>4, <1>10, <1>11
<1>17. SettlesOnly(f, row')
  BY <1>1, <1>13 DEF SettlesOnly
<1> HIDE DEF R
<1>18. row' \in [Summaries -> RowState]
  BY <1>1, <1>12 DEF R
<1> QED BY <1>1, <1>5, <1>6, <1>7, <1>10, <1>14, <1>15, <1>16, <1>17, <1>18 DEF Settles

\* So does the step that ends a flush after a denial.
LEMMA DenialSettles ==
  ASSUME OutboxInv, NEW f \in Flushes, Denied(f)
  PROVE  Settles(f)
<1> DEFINE at == flush[f].current
           todo == flush[f].todo
           R == [s \in Summaries |->
                   IF s = at THEN Settled(f, s, "failed")
                   ELSE IF s \in todo THEN Rest(f, s) ELSE row[s]]
<1>1. TypeOK /\ SendingIsHeld
  BY DEF OutboxInv
<1>2. row' = R /\ flush' = [flush EXCEPT ![f] = Idle]
  BY DEF Denied
<1>3. flush \in [Flushes -> FlushState] /\ flush[f] \in FlushState /\ row \in [Summaries -> RowState]
  BY <1>1 DEF TypeOK, RowState
<1>4. Idle \in FlushState /\ Idle.todo = {} /\ Idle.answer = "none"
  <2>1. 0 \in Totals
    BY OutboxAssumption DEF Totals
  <2> QED BY <2>1 DEF Idle, FlushState
<1>5. \A s \in Summaries : s = at \/ s \in todo =>
        /\ R[s] \in RowState /\ R[s].total = row[s].total
        /\ ~Holds(f, s) => R[s] = row[s]
        /\ Holds(f, s) => R[s].status \in {"failed", "pending"}
  <2> SUFFICES ASSUME NEW s \in Summaries, s = at \/ s \in todo
               PROVE  /\ R[s] \in RowState /\ R[s].total = row[s].total
                      /\ ~Holds(f, s) => R[s] = row[s]
                      /\ Holds(f, s) => R[s].status \in {"failed", "pending"}
    OBVIOUS
  <2>1. R[s] = Settled(f, s, "failed") \/ R[s] = Settled(f, s, "pending")
    BY DEF Rest
  <2> HIDE DEF R
  <2>2. CASE R[s] = Settled(f, s, "failed")
    BY <1>1, <2>2, SettledRow
  <2>3. CASE R[s] = Settled(f, s, "pending")
    BY <1>1, <2>3, SettledRow
  <2> QED BY <2>1, <2>2, <2>3
<1>6. \A s \in Summaries : s # at /\ s \notin todo => R[s] = row[s]
  OBVIOUS
<1>7. \A s \in Summaries : Holds(f, s) => s \in todo
  BY <1>1 DEF SendingIsHeld, Holds
<1>8. \A s \in Summaries : R[s] \in RowState
  <2> HIDE DEF R
  <2> QED BY <1>3, <1>5, <1>6
<1>9. row' \in [Summaries -> RowState]
  <2>1. row' = [s \in Summaries |-> R[s]]
    BY <1>2
  <2> HIDE DEF R
  <2> QED BY <1>8, <2>1
<1> HIDE DEF R
<1>10. SettlesOnly(f, row')
  BY <1>2, <1>5, <1>6 DEF SettlesOnly
<1>11. \A s \in Summaries : Holds(f, s) => row'[s].status # "sending"
  BY <1>2, <1>5, <1>7
<1>12. flush'[f] = Idle /\ flush' \in [Flushes -> FlushState] /\ \A g \in Flushes : g # f => flush'[g] = flush[g]
  BY <1>2, <1>3, <1>4
<1> QED BY <1>4, <1>9, <1>10, <1>11, <1>12 DEF Settles

\* A step that settles keeps the invariant.
LEMMA SettlingKeeps ==
  ASSUME OutboxInv, NEW f \in Flushes, Settles(f), flush[f].current # NoRow,
         UNCHANGED <<rollup, writes, applied, born, manager>>,
         late' = late \/ Linger(f), offered' \in BOOLEAN, caller' \in BOOLEAN
  PROVE  OutboxInv'
<1>1. TypeOK /\ SendingIsHeld /\ SentWasStored /\ NeverOverCounted /\ AnswersAreGood /\ NothingAhead
  BY DEF OutboxInv
<1>2. /\ flush[f] \in FlushState /\ flush[f].current \in flush[f].todo
      /\ late \in [Slots -> Request \union {NoRequest}]
      /\ row \in [Summaries -> RowState]
  BY <1>1 DEF TypeOK, Idle, RowState
<1>3. \A s \in Summaries : row'[s].total = row[s].total
  BY DEF Settles, SettlesOnly
<1>4. \A s \in Summaries : row'[s].status = "sending" => row'[s] = row[s]
  BY DEF Settles, SettlesOnly
<1>5. Pending(f) \in Request /\ Pending(f).summary = flush[f].current
        /\ Pending(f).total = flush[f].payload[flush[f].current]
  BY <1>2 DEF Pending, Request, FlushState
<1>6. \A k \in Slots : late'[k] = late[k] \/ late'[k] = NoRequest \/ late'[k] = Pending(f)
  BY <1>2 DEF Linger
<1>7. late' \in [Slots -> Request \union {NoRequest}]
  BY <1>2, <1>5 DEF Linger
<1>8. TypeOK'
  <2>1. \A g \in Flushes : flush'[g].current \in flush'[g].todo \/ flush'[g] = Idle
    BY <1>1 DEF Settles, TypeOK
  <2> QED BY <1>1, <1>7, <2>1 DEF TypeOK, Settles, RowState, Idle
<1>9. SendingIsHeld'
  <2> SUFFICES ASSUME NEW s \in Summaries, row'[s].status = "sending"
               PROVE  /\ row'[s].token \in Flushes
                      /\ s \in flush'[row'[s].token].todo
                      /\ flush'[row'[s].token].payload[s] = row'[s].total
    BY DEF SendingIsHeld
  <2>1. row'[s] = row[s]
    BY <1>4
  <2>2. /\ row[s].token \in Flushes /\ s \in flush[row[s].token].todo
        /\ flush[row[s].token].payload[s] = row[s].total
    BY <1>1, <2>1 DEF SendingIsHeld
  <2>3. CASE row[s].token = f
    <3>1. Holds(f, s)
      BY <2>1, <2>3 DEF Holds
    <3>2. s \in flush'[f].todo
      BY <3>1 DEF Settles
    <3> QED BY <2>1, <2>2, <2>3, <3>2 DEF Settles
  <2>4. CASE row[s].token # f
    BY <2>1, <2>2, <2>4 DEF Settles
  <2> QED BY <2>3, <2>4
<1>10. SentWasStored'
  BY <1>1 DEF SentWasStored, Settles, SettlesOnly, AnswersAreGood, Answered, TypeOK
<1>11. NeverOverCounted'
  BY <1>1, <1>3 DEF NeverOverCounted, Summaries
<1>12. AnswersAreGood'
  <2> SUFFICES ASSUME NEW g \in Flushes, Answered(g, "ok")', Holds(g, flush[g].current)'
               PROVE  (flush[g].current)' \in applied'
    BY DEF AnswersAreGood
  <2>1. g # f /\ flush'[g] = flush[g]
    BY DEF Settles, Answered
  <2>2. flush[g].current \in Summaries
    BY <1>1, <2>1 DEF TypeOK, FlushState, Answered
  <2>3. row'[flush[g].current] = row[flush[g].current]
    BY <1>4, <2>1, <2>2 DEF Holds
  <2> QED BY <1>1, <2>1, <2>3 DEF AnswersAreGood, Answered, Holds
<1>13. NothingAhead'
  <2> SUFFICES ASSUME NEW s \in Usage
               PROVE  /\ \A g \in Flushes : s \in flush'[g].todo => flush'[g].payload[s] <= row'[s].total
                      /\ \A k \in Slots : late'[k] # NoRequest /\ late'[k].summary = s
                                            => late'[k].total <= row'[s].total
    BY DEF NothingAhead
  <2>1. s \in Summaries /\ row'[s].total = row[s].total
    BY <1>3 DEF Summaries
  <2>2. \A g \in Flushes : s \in flush'[g].todo => flush'[g].payload[s] <= row'[s].total
    BY <1>1, <2>1 DEF NothingAhead, Settles
  <2>3. ASSUME NEW k \in Slots, late'[k] # NoRequest, late'[k].summary = s
        PROVE  late'[k].total <= row'[s].total
    <3>1. CASE late'[k] = late[k]
      BY <1>1, <2>1, <2>3, <3>1 DEF NothingAhead
    <3>2. CASE late'[k] = Pending(f)
      BY <1>1, <1>2, <1>5, <2>1, <2>3, <3>2 DEF NothingAhead
    <3> QED BY <1>6, <2>3, <3>1, <3>2
  <2> QED BY <2>2, <2>3
<1>14. \A s \in Summaries : row'[s].total <= MaxCount + writes'
  BY <1>3 DEF OutboxInv
<1> QED BY <1>8, <1>9, <1>10, <1>11, <1>12, <1>13, <1>14 DEF OutboxInv

\* Init: an empty outbox (the invariant holds at the start).
LEMMA InitInv == Init => OutboxInv
<1> SUFFICES ASSUME Init PROVE OutboxInv
  OBVIOUS
<1>1. 0 \in Totals /\ 0 \in 0..MaxWrites /\ 0 <= MaxCount + 0
  BY OutboxAssumption DEF Totals
<1>2. Idle \in FlushState /\ Idle.todo = {} /\ Idle.answer = "none" /\ Idle.current = NoRow
  BY <1>1 DEF Idle, FlushState
<1>3. TypeOK
  BY <1>1, <1>2 DEF Init, TypeOK, Statuses, Moods
<1> QED BY <1>1, <1>2, <1>3 DEF Init, OutboxInv, SendingIsHeld, SentWasStored, NeverOverCounted,
                                 AnswersAreGood, NothingAhead, Answered, Summaries

\* Usage recorded, or an outcome published, whatever the flushes are doing: the
\* row is pending again, so that no flush can settle it (Requeued).
LEMMA WriteKeeps ==
  ASSUME OutboxInv, NEW s \in Summaries, NEW n \in Nat, Write(s, n),
         n <= MaxCount + writes + 1, s \in Usage => row[s].total <= n
  PROVE  OutboxInv'
<1>1. TypeOK /\ SendingIsHeld /\ SentWasStored /\ NeverOverCounted /\ AnswersAreGood /\ NothingAhead
  BY DEF OutboxInv
<1>2. /\ row \in [Summaries -> RowState] /\ writes \in Nat /\ writes < MaxWrites /\ writes' = writes + 1
      /\ row' = [row EXCEPT ![s] = Requeued(row[s], n)]
  BY <1>1 DEF TypeOK, RowState, Write
<1>3. n \in Totals /\ writes' \in 0..MaxWrites
  BY <1>2, OutboxAssumption DEF Totals
<1>4. /\ Requeued(row[s], n) \in RowState /\ Requeued(row[s], n).total = n
      /\ Requeued(row[s], n).status = "pending"
  BY <1>2, <1>3 DEF Requeued, RowState, Statuses
<1>5. /\ row' \in [Summaries -> RowState]
      /\ \A x \in Summaries : x # s => row'[x] = row[x]
      /\ row'[s].total = n /\ row'[s].status = "pending"
  BY <1>2, <1>4
<1>6. /\ UNCHANGED <<flush, offered, caller, late, manager, rollup>> /\ applied' = applied \ {s}
      /\ born' \in [Summaries -> 0..MaxWrites]
  BY <1>1, <1>3 DEF Write, TypeOK
<1>7. TypeOK'
  BY <1>1, <1>3, <1>5, <1>6 DEF TypeOK, RowState, Idle
<1>8. SendingIsHeld'
  BY <1>1, <1>5, <1>6 DEF SendingIsHeld
<1>9. SentWasStored'
  BY <1>1, <1>5, <1>6 DEF SentWasStored
<1>10. \A x \in Usage : row[x].total <= row'[x].total
  <2> SUFFICES ASSUME NEW x \in Usage PROVE row[x].total <= row'[x].total
    OBVIOUS
  <2>1. x \in Summaries /\ row[x].total \in Int
    BY <1>2 DEF Summaries, RowState, Totals
  <2> QED BY <1>5, <2>1
<1>11. \A x \in Usage : /\ row[x].total \in Int /\ row'[x].total \in Int /\ rollup[x] \in Int
                        /\ \A f \in Flushes : flush[f].payload[x] \in Int
  BY <1>1, <1>2, <1>5 DEF TypeOK, Summaries, RowState, Totals, FlushState
<1>12. NeverOverCounted'
  BY <1>1, <1>6, <1>10, <1>11 DEF NeverOverCounted
<1>13. AnswersAreGood'
  <2> SUFFICES ASSUME NEW f \in Flushes, Answered(f, "ok")', Holds(f, flush[f].current)'
               PROVE  (flush[f].current)' \in applied'
    BY DEF AnswersAreGood
  <2>1. flush'[f] = flush[f] /\ flush[f].current \in Summaries
    BY <1>1, <1>6 DEF Answered, TypeOK, FlushState
  <2>2. flush[f].current # s
    BY <1>5, <2>1 DEF Holds
  <2>3. row'[flush[f].current] = row[flush[f].current]
    BY <1>5, <2>1, <2>2
  <2> QED BY <1>1, <1>6, <2>1, <2>2, <2>3 DEF AnswersAreGood, Answered, Holds
<1>14. NothingAhead'
  <2> SUFFICES ASSUME NEW x \in Usage
               PROVE  /\ \A g \in Flushes : x \in flush[g].todo => flush[g].payload[x] <= row'[x].total
                      /\ \A k \in Slots : late[k] # NoRequest /\ late[k].summary = x
                                            => late[k].total <= row'[x].total
    BY <1>6 DEF NothingAhead
  <2>1. \A k \in Slots : late[k] # NoRequest => late[k].total \in Int
    BY <1>1 DEF TypeOK, Request, Totals
  <2> QED BY <1>1, <1>10, <1>11, <2>1 DEF NothingAhead
<1>15. \A x \in Summaries : row'[x].total <= MaxCount + writes'
  <2> SUFFICES ASSUME NEW x \in Summaries PROVE row'[x].total <= MaxCount + writes'
    OBVIOUS
  <2>1. row[x].total <= MaxCount + writes /\ row[x].total \in Int /\ MaxCount \in Nat
    BY <1>2, OutboxAssumption DEF OutboxInv, RowState, Totals
  <2> QED BY <1>2, <1>5, <2>1
<1> QED BY <1>7, <1>8, <1>9, <1>12, <1>13, <1>14, <1>15 DEF OutboxInv

\* A claim takes rows nobody holds and notes the totals they have.
LEMMA ClaimKeeps ==
  ASSUME OutboxInv, NEW f \in Flushes, Claim(f)
  PROVE  OutboxInv'
<1>1. TypeOK /\ SendingIsHeld /\ SentWasStored /\ NeverOverCounted /\ AnswersAreGood /\ NothingAhead
  BY DEF OutboxInv
<1>2. PICK C \in Oldest(Eligible) : \E s \in First(C) :
        /\ C # {} /\ row' = Claimed(f, C)
        /\ flush' = [flush EXCEPT ![f] = Waiting(C, s, [x \in Summaries |-> row[x].total], FALSE)]
  BY DEF Claim
<1>3. PICK s0 \in First(C) :
        flush' = [flush EXCEPT ![f] = Waiting(C, s0, [x \in Summaries |-> row[x].total], FALSE)]
  BY <1>2
<1>4. C \subseteq Eligible /\ C \subseteq Summaries /\ s0 \in C /\ flush[f] = Idle
      /\ UNCHANGED <<born, offered, caller, late, manager, rollup, writes, applied>>
  BY <1>2, <1>3 DEF Oldest, Eligible, First, Claim
<1>5. row \in [Summaries -> RowState] /\ flush \in [Flushes -> FlushState]
  BY <1>1 DEF TypeOK, RowState
<1>6. \A s \in Summaries : row[s] \in RowState /\ row[s].total \in Totals
  BY <1>5 DEF RowState
<1>7. PICK W : W = Waiting(C, s0, [x \in Summaries |-> row[x].total], FALSE)
  OBVIOUS
<1>8. W = [todo |-> C, current |-> s0, answer |-> "none", unsupported |-> FALSE,
           payload |-> [x \in Summaries |-> IF x \in C THEN row[x].total ELSE 0]]
  BY <1>7 DEF Waiting
<1>9. 0 \in Totals
  BY OutboxAssumption DEF Totals
<1>10. [x \in Summaries |-> IF x \in C THEN row[x].total ELSE 0] \in [Summaries -> Totals]
  BY <1>6, <1>9
<1>11. W \in FlushState /\ W.todo = C /\ W.answer = "none" /\ W.current = s0
  BY <1>4, <1>8, <1>10 DEF FlushState
<1>12. \A x \in C : W.payload[x] = row[x].total
  BY <1>4, <1>8
<1>13. flush' = [flush EXCEPT ![f] = W]
  BY <1>3, <1>7, Zenon
<1>14. /\ flush' \in [Flushes -> FlushState] /\ flush'[f] = W
       /\ \A g \in Flushes : g # f => flush'[g] = flush[g]
  BY <1>5, <1>11, <1>13
<1>15. \A s \in Summaries :
         /\ row'[s] \in RowState /\ row'[s].total = row[s].total
         /\ s \in C => row'[s].status = "sending" /\ row'[s].token = f
         /\ s \notin C => row'[s] = row[s]
  <2> SUFFICES ASSUME NEW s \in Summaries
               PROVE  /\ row'[s] \in RowState /\ row'[s].total = row[s].total
                      /\ s \in C => row'[s].status = "sending" /\ row'[s].token = f
                      /\ s \notin C => row'[s] = row[s]
    OBVIOUS
  <2>1. row'[s] = IF s \in C THEN [row[s] EXCEPT !.status = "sending", !.token = f] ELSE row[s]
    BY <1>2 DEF Claimed
  <2> QED BY <1>6, <2>1 DEF RowState, Statuses
<1>16. row' \in [Summaries -> RowState]
  <2>1. row' = [s \in Summaries |-> row'[s]]
    BY <1>2 DEF Claimed
  <2> QED BY <1>15, <2>1
<1>17. \A s \in C : row[s].status # "sending"
  BY <1>4 DEF Eligible
<1>18. TypeOK'
  <2>1. \A g \in Flushes : flush'[g].current \in flush'[g].todo \/ flush'[g] = Idle
    BY <1>1, <1>4, <1>11, <1>14 DEF TypeOK
  <2> QED BY <1>1, <1>4, <1>14, <1>16, <2>1 DEF TypeOK, RowState, Idle
<1>19. SendingIsHeld'
  <2> SUFFICES ASSUME NEW s \in Summaries, row'[s].status = "sending"
               PROVE  /\ row'[s].token \in Flushes
                      /\ s \in flush'[row'[s].token].todo
                      /\ flush'[row'[s].token].payload[s] = row'[s].total
    BY DEF SendingIsHeld
  <2>1. CASE s \in C
    BY <1>11, <1>12, <1>14, <1>15, <2>1
  <2>2. CASE s \notin C
    <3>1. row'[s] = row[s]
      BY <1>15, <2>2
    <3>2. row[s].token # f
      BY <1>1, <1>4, <3>1 DEF SendingIsHeld, Idle
    <3> QED BY <1>1, <1>14, <3>1, <3>2 DEF SendingIsHeld
  <2> QED BY <2>1, <2>2
<1>20. SentWasStored'
  BY <1>1, <1>4, <1>15 DEF SentWasStored
<1>21. NeverOverCounted'
  BY <1>1, <1>4, <1>15 DEF NeverOverCounted, Summaries
<1>22. AnswersAreGood'
  <2> SUFFICES ASSUME NEW g \in Flushes, Answered(g, "ok")', Holds(g, flush[g].current)'
               PROVE  (flush[g].current)' \in applied'
    BY DEF AnswersAreGood
  <2>1. g # f /\ flush'[g] = flush[g]
    BY <1>11, <1>14 DEF Answered
  <2>2. flush[g].current \in Summaries
    BY <1>5, <2>1 DEF FlushState, Answered
  <2>3. flush[g].current \notin C
    BY <1>15, <2>1, <2>2 DEF Holds
  <2>4. row'[flush[g].current] = row[flush[g].current]
    BY <1>15, <2>2, <2>3
  <2> QED BY <1>1, <1>4, <2>1, <2>4 DEF AnswersAreGood, Answered, Holds
<1>23. NothingAhead'
  <2> SUFFICES ASSUME NEW s \in Usage
               PROVE  /\ \A g \in Flushes : s \in flush'[g].todo => flush'[g].payload[s] <= row'[s].total
                      /\ \A k \in Slots : late'[k] # NoRequest /\ late'[k].summary = s
                                            => late'[k].total <= row'[s].total
    BY DEF NothingAhead
  <2>1. s \in Summaries /\ row'[s].total = row[s].total /\ row[s].total \in Int
    BY <1>6, <1>15 DEF Summaries, Totals
  <2>2. \A g \in Flushes : s \in flush'[g].todo => flush'[g].payload[s] <= row'[s].total
    BY <1>1, <1>11, <1>12, <1>14, <2>1 DEF NothingAhead
  <2> QED BY <1>1, <1>4, <2>1, <2>2 DEF NothingAhead
<1>24. \A s \in Summaries : row'[s].total <= MaxCount + writes'
  BY <1>4, <1>15 DEF OutboxInv
<1> QED BY <1>18, <1>19, <1>20, <1>21, <1>22, <1>23, <1>24 DEF OutboxInv

\* What the Manager stores for a request that claims no more than was recorded.
LEMMA IngestStores ==
  ASSUME OutboxInv, NEW q \in Request, Ingest(q),
         q.summary \in Usage => q.total <= row[q.summary].total
  PROVE  /\ rollup' \in [Summaries -> Totals]
         /\ applied \subseteq applied' /\ applied' \subseteq Summaries
         /\ \A s \in Usage : rollup'[s] <= row[s].total
         /\ AnswerTo(q.summary) = "ok" /\ q.total = row[q.summary].total => q.summary \in applied'
<1>1. TypeOK /\ NeverOverCounted
  BY DEF OutboxInv
<1>2. q.summary \in Summaries /\ q.total \in Totals
  BY DEF Request
<1>3. CASE AnswerTo(q.summary) = "ok"
  <2>1. rollup' = [rollup EXCEPT ![q.summary] = q.total]
    BY <1>3 DEF Ingest, Stored
  <2>2. applied' = IF row[q.summary].total = q.total THEN applied \union {q.summary} ELSE applied
    BY <1>3 DEF Ingest
  <2>3. rollup \in [Summaries -> Totals] /\ applied \subseteq Summaries
    BY <1>1 DEF TypeOK
  <2>4. \A s \in Usage : rollup'[s] <= row[s].total
    BY <1>1, <1>2, <2>1, <2>3 DEF NeverOverCounted, Summaries
  <2> QED BY <1>2, <2>1, <2>2, <2>3, <2>4
<1>4. CASE AnswerTo(q.summary) # "ok"
  BY <1>1, <1>4 DEF Ingest, TypeOK, NeverOverCounted
<1> QED BY <1>3, <1>4

\* The Manager answers a flush.
LEMMA HandleKeeps ==
  ASSUME OutboxInv, NEW f \in Flushes, Handle(f)
  PROVE  OutboxInv'
<1>1. TypeOK /\ SendingIsHeld /\ SentWasStored /\ AnswersAreGood /\ NothingAhead
  BY DEF OutboxInv
<1>2. /\ flush \in [Flushes -> FlushState] /\ flush[f].current \in flush[f].todo
      /\ flush[f].current \in Summaries /\ flush[f].payload \in [Summaries -> Totals]
  BY <1>1 DEF TypeOK, Idle, FlushState, Handle, Answered
<1>3. PICK q : q = Pending(f)
  OBVIOUS
<1>4. q \in Request /\ q.summary = flush[f].current /\ q.total = flush[f].payload[flush[f].current]
  BY <1>2, <1>3 DEF Pending, Request
<1>5. Ingest(q)
  BY <1>3 DEF Handle
<1>6. q.summary \in Usage => q.total <= row[q.summary].total
  BY <1>1, <1>2, <1>4 DEF NothingAhead
<1>7. /\ rollup' \in [Summaries -> Totals]
      /\ applied \subseteq applied' /\ applied' \subseteq Summaries
      /\ \A s \in Usage : rollup'[s] <= row[s].total
      /\ AnswerTo(q.summary) = "ok" /\ q.total = row[q.summary].total => q.summary \in applied'
  BY <1>4, <1>5, <1>6, IngestStores
<1>8. PICK a : a = AnswerTo(flush[f].current)
  OBVIOUS
<1>9. a \in Answers
  BY <1>8 DEF AnswerTo, Answers
<1>10. flush' = [flush EXCEPT ![f].answer = a]
  BY <1>8 DEF Handle
<1>11. [flush[f] EXCEPT !.answer = a] \in FlushState
  BY <1>2, <1>9 DEF FlushState
<1>12. flush' = [flush EXCEPT ![f] = [flush[f] EXCEPT !.answer = a]]
  BY <1>10
<1>13. /\ flush' \in [Flushes -> FlushState]
       /\ \A g \in Flushes : /\ flush'[g].todo = flush[g].todo /\ flush'[g].payload = flush[g].payload
                             /\ flush'[g].current = flush[g].current
                             /\ g # f => flush'[g] = flush[g]
       /\ flush'[f].answer = a
  <2>1. flush' \in [Flushes -> FlushState]
    BY <1>2, <1>11, <1>12
  <2>2. flush'[f] = [flush[f] EXCEPT !.answer = a] /\ \A g \in Flushes : g # f => flush'[g] = flush[g]
    BY <1>2, <1>12
  <2>3. flush[f] \in FlushState
    BY <1>2
  <2> QED BY <2>1, <2>2, <2>3 DEF FlushState
<1>14. UNCHANGED <<row, born, offered, caller, late, manager, writes>>
  BY DEF Handle
<1>15. TypeOK'
  <2>1. \A g \in Flushes : flush'[g].current \in flush'[g].todo \/ flush'[g] = Idle
    BY <1>1, <1>2, <1>13 DEF TypeOK
  <2> QED BY <1>1, <1>7, <1>13, <1>14, <2>1 DEF TypeOK, Idle
<1>16. SendingIsHeld'
  BY <1>1, <1>13, <1>14 DEF SendingIsHeld
<1>17. SentWasStored' /\ NeverOverCounted'
  BY <1>1, <1>7, <1>14 DEF SentWasStored, NeverOverCounted
<1>18. AnswersAreGood'
  <2> SUFFICES ASSUME NEW g \in Flushes, Answered(g, "ok")', Holds(g, flush[g].current)'
               PROVE  (flush[g].current)' \in applied'
    BY DEF AnswersAreGood
  <2>1. flush'[g].current = flush[g].current /\ Holds(g, flush[g].current)
    BY <1>13, <1>14 DEF Holds
  <2>2. CASE g = f
    <3>1. a = "ok"
      BY <1>13, <2>2 DEF Answered
    <3>2. q.total = row[q.summary].total
      BY <1>1, <1>2, <1>4, <2>1, <2>2 DEF SendingIsHeld, Holds
    <3> QED BY <1>4, <1>7, <1>8, <2>1, <2>2, <3>1, <3>2
  <2>3. CASE g # f
    BY <1>1, <1>7, <1>13, <2>1, <2>3 DEF AnswersAreGood, Answered
  <2> QED BY <2>2, <2>3
<1>19. NothingAhead'
  BY <1>1, <1>13, <1>14 DEF NothingAhead
<1>20. \A s \in Summaries : row'[s].total <= MaxCount + writes'
  BY <1>14 DEF OutboxInv
<1> QED BY <1>15, <1>16, <1>17, <1>18, <1>19, <1>20 DEF OutboxInv

\* The Manager handles a request nobody waits for.
LEMMA LateKeeps ==
  ASSUME OutboxInv, NEW k \in Slots, HandleLate(k)
  PROVE  OutboxInv'
<1>1. TypeOK /\ SendingIsHeld /\ SentWasStored /\ AnswersAreGood /\ NothingAhead
  BY DEF OutboxInv
<1>2. PICK q : q = late[k]
  OBVIOUS
<1>3. q \in Request /\ Ingest(q)
  BY <1>1, <1>2 DEF TypeOK, HandleLate
<1>4. q.summary \in Usage => q.total <= row[q.summary].total
  BY <1>1, <1>2 DEF NothingAhead, HandleLate
<1>5. /\ rollup' \in [Summaries -> Totals]
      /\ applied \subseteq applied' /\ applied' \subseteq Summaries
      /\ \A s \in Usage : rollup'[s] <= row[s].total
  BY <1>3, <1>4, IngestStores
<1>6. UNCHANGED <<row, born, flush, offered, caller, manager, writes>> /\ late' = [late EXCEPT ![k] = NoRequest]
  BY DEF HandleLate
<1>7. late' \in [Slots -> Request \union {NoRequest}] /\ \A j \in Slots : late'[j] = late[j] \/ late'[j] = NoRequest
  BY <1>1, <1>6 DEF TypeOK
<1>8. TypeOK'
  BY <1>1, <1>5, <1>6, <1>7 DEF TypeOK, Idle
<1>9. SendingIsHeld' /\ SentWasStored' /\ NeverOverCounted'
  BY <1>1, <1>5, <1>6 DEF SendingIsHeld, SentWasStored, NeverOverCounted
<1>10. AnswersAreGood'
  BY <1>1, <1>5, <1>6 DEF AnswersAreGood, Answered, Holds
<1>11. NothingAhead'
  BY <1>1, <1>6, <1>7 DEF NothingAhead
<1> QED BY <1>6, <1>8, <1>9, <1>10, <1>11 DEF OutboxInv

\* The Agent starts again: no row is being sent and no flush runs.
LEMMA RestartKeeps ==
  ASSUME OutboxInv, Restart
  PROVE  OutboxInv'
<1>1. TypeOK /\ SentWasStored /\ NeverOverCounted /\ NothingAhead
  BY DEF OutboxInv
<1>2. row \in [Summaries -> RowState] /\ late \in [Slots -> Request \union {NoRequest}]
  BY <1>1 DEF TypeOK, RowState
<1>3. Idle \in FlushState /\ Idle.todo = {} /\ Idle.answer = "none"
  <2>1. 0 \in Totals
    BY OutboxAssumption DEF Totals
  <2> QED BY <2>1 DEF Idle, FlushState
<1>4. \A s \in Summaries : Recovered(s) \in RowState /\ Recovered(s).total = row[s].total
                            /\ Recovered(s).status # "sending"
                            /\ (Recovered(s).status = "sent" => row[s].status = "sent")
  BY <1>2 DEF Recovered, RowState, Statuses
<1>5. \A s \in Summaries : row'[s] = Recovered(s)
  BY DEF Restart
<1>6. row' \in [Summaries -> RowState]
  BY <1>4 DEF Restart
<1>7. /\ flush' \in [Flushes -> FlushState] /\ \A f \in Flushes : flush'[f] = Idle
      /\ offered' \in BOOLEAN /\ caller' \in BOOLEAN
      /\ UNCHANGED <<born, manager, rollup, writes, applied>>
  BY <1>3 DEF Restart
<1>8. /\ late' \in [Slots -> Request \union {NoRequest}]
      /\ \A k \in Slots, s \in Usage : late'[k] # NoRequest /\ late'[k].summary = s
                                          => late'[k].total <= row[s].total
  <2>1. CASE late' = late
    BY <1>1, <1>2, <2>1 DEF NothingAhead
  <2>2. CASE \E f \in Flushes : Linger(f)
    <3>1. PICK f \in Flushes : Linger(f)
      BY <2>2
    <3>2. flush[f] \in FlushState /\ flush[f].current \in flush[f].todo /\ flush[f].current \in Summaries
      BY <1>1, <3>1 DEF TypeOK, Linger, Answered, Idle, FlushState
    <3>3. Pending(f) \in Request /\ Pending(f).summary = flush[f].current
            /\ Pending(f).total = flush[f].payload[flush[f].current]
      BY <3>2 DEF Pending, Request, FlushState
    <3>4. PICK q : q = Pending(f)
      OBVIOUS
    <3>5. PICK k \in Slots : late' = [late EXCEPT ![k] = q]
      BY <3>1, <3>4 DEF Linger
    <3>6. q.summary \in Usage => q.total <= row[q.summary].total
      BY <1>1, <3>2, <3>3, <3>4 DEF NothingAhead
    <3> QED BY <1>1, <1>2, <3>3, <3>4, <3>5, <3>6 DEF NothingAhead
  <2> QED BY <2>1, <2>2 DEF Restart
<1>9. TypeOK'
  BY <1>1, <1>6, <1>7, <1>8 DEF TypeOK, RowState, Idle
<1>10. SendingIsHeld' /\ SentWasStored'
  BY <1>1, <1>4, <1>5, <1>7 DEF SendingIsHeld, SentWasStored
<1>11. NeverOverCounted'
  BY <1>1, <1>4, <1>5, <1>7 DEF NeverOverCounted, Summaries
<1>12. AnswersAreGood'
  BY <1>3, <1>7 DEF AnswersAreGood, Answered
<1>13. NothingAhead'
  BY <1>3, <1>4, <1>5, <1>7, <1>8 DEF NothingAhead, Summaries
<1>14. \A s \in Summaries : row'[s].total <= MaxCount + writes'
  BY <1>4, <1>5, <1>7 DEF OutboxInv
<1> QED BY <1>9, <1>10, <1>11, <1>12, <1>13, <1>14 DEF OutboxInv

\* Every step of a flush settles rows it holds.
LEMMA StepKeeps ==
  ASSUME OutboxInv, NEW f \in Flushes, Step(f) \/ TimeOut(f)
  PROVE  OutboxInv' /\ Settles(f) /\ writes' = writes
<1>1. PICK u : u = flush[f].unsupported
  OBVIOUS
<1>2. u \in BOOLEAN /\ flush[f].current # NoRow /\ offered \in BOOLEAN /\ caller \in BOOLEAN
  BY <1>1 DEF OutboxInv, TypeOK, FlushState, Step, TimeOut, Sent, Failed, Revoked, Unsupported, Denied, Answered
<1>3. CASE Sent(f)
  <2>1. Settles(f)
    BY <1>1, <1>2, <1>3, AdvanceSettles DEF Sent, Answered
  <2> QED BY <1>2, <1>3, <2>1, SettlingKeeps DEF Sent
<1>4. CASE Failed(f)
  <2>1. Settles(f)
    BY <1>1, <1>2, <1>4, AdvanceSettles DEF Failed
  <2> QED BY <1>2, <1>4, <2>1, SettlingKeeps DEF Failed
<1>5. CASE Revoked(f)
  <2>1. Settles(f)
    BY <1>1, <1>2, <1>5, AdvanceSettles DEF Revoked
  <2> QED BY <1>2, <1>5, <2>1, SettlingKeeps DEF Revoked
<1>6. CASE Unsupported(f)
  <2>1. Settles(f)
    BY <1>2, <1>6, AdvanceSettles DEF Unsupported
  <2> QED BY <1>2, <1>6, <2>1, SettlingKeeps DEF Unsupported
<1>7. CASE Denied(f)
  <2>1. Settles(f)
    BY <1>7, DenialSettles
  <2> QED BY <1>2, <1>7, <2>1, SettlingKeeps DEF Denied
<1>8. CASE TimeOut(f)
  <2>1. Settles(f)
    BY <1>1, <1>2, <1>8, AdvanceSettles DEF TimeOut
  <2> QED BY <1>2, <1>8, <2>1, SettlingKeeps DEF TimeOut
<1> QED BY <1>3, <1>4, <1>5, <1>6, <1>7, <1>8 DEF Step

\* What the environment does leaves the rows, the flushes and the totals alone.
LEMMA OthersKeep ==
  ASSUME OutboxInv, OfferAgain \/ Register \/ Expire \/ (\E mood \in Moods : ManagerChanges(mood)) \/ UNCHANGED vars
  PROVE  OutboxInv' /\ UNCHANGED <<row, writes>>
<1>1. UNCHANGED <<row, born, flush, late, rollup, writes, applied>>
  BY DEF OfferAgain, Register, Expire, ManagerChanges, vars
<1>2. offered' \in BOOLEAN /\ caller' \in BOOLEAN /\ manager' \in Moods
  BY DEF OfferAgain, Register, Expire, ManagerChanges, vars, OutboxInv, TypeOK
<1>3. TypeOK'
  BY <1>1, <1>2 DEF OutboxInv, TypeOK, Idle
<1>4. SendingIsHeld' /\ SentWasStored' /\ NeverOverCounted' /\ NothingAhead'
  BY <1>1 DEF OutboxInv, SendingIsHeld, SentWasStored, NeverOverCounted, NothingAhead
<1>5. AnswersAreGood'
  BY <1>1 DEF OutboxInv, AnswersAreGood, Answered, Holds
<1> QED BY <1>1, <1>3, <1>4, <1>5 DEF OutboxInv

\* Recording usage and publishing outcomes are writes that meet the conditions
\* of WriteKeeps.
LEMMA WritersKeep ==
  ASSUME OutboxInv, NEW s \in Summaries,
         upsertUsageSummary(s) \/ \E n \in 0..MaxCount : publishSegmentOutcomes(s, n)
  PROVE  OutboxInv' /\ writes' # writes
<1>1. row[s].total \in Nat /\ row[s].total <= MaxCount + writes /\ writes \in Nat /\ MaxCount \in Nat
  BY OutboxAssumption DEF OutboxInv, TypeOK, Totals
<1>2. PICK n : \/ s \in Usage /\ n = row[s].total + 1 /\ Write(s, n)
               \/ s \in Outcomes /\ n \in 0..MaxCount /\ Write(s, n)
  BY DEF upsertUsageSummary, publishSegmentOutcomes
<1>3. n \in Nat /\ n <= MaxCount + writes + 1 /\ Write(s, n) /\ (s \in Usage => row[s].total <= n)
  BY <1>1, <1>2, OutboxAssumption
<1>4. OutboxInv'
  BY <1>3, WriteKeeps
<1> QED BY <1>1, <1>3, <1>4 DEF Write

\* OutboxInv is preserved by every step.
LEMMA NextKeeps == OutboxInv /\ [Next]_vars => OutboxInv'
<1> SUFFICES ASSUME OutboxInv, [Next]_vars PROVE OutboxInv'
  OBVIOUS
<1>1. CASE \E s \in Summaries : upsertUsageSummary(s) \/ \E n \in 0..MaxCount : publishSegmentOutcomes(s, n)
  BY <1>1, WritersKeep
<1>2. CASE \E f \in Flushes : Flush(f) \/ Drain(f)
  BY <1>2, ClaimKeeps DEF Flush, Drain
<1>3. CASE \E f \in Flushes : Step(f) \/ TimeOut(f)
  BY <1>3, StepKeeps
<1>4. CASE \E f \in Flushes : Handle(f)
  BY <1>4, HandleKeeps
<1>5. CASE \E k \in Slots : HandleLate(k)
  BY <1>5, LateKeeps
<1>6. CASE Restart
  BY <1>6, RestartKeeps
<1>7. CASE OfferAgain \/ Register \/ Expire \/ (\E mood \in Moods : ManagerChanges(mood)) \/ UNCHANGED vars
  BY <1>7, OthersKeep
<1> QED BY <1>1, <1>2, <1>3, <1>4, <1>5, <1>6, <1>7 DEF Next

\* The outbox's invariant holds for every number of summaries, overlapping
\* flushes and late requests: what flushInternal, the store and the upload
\* routes keep true together.
THEOREM OutboxInvariance == Spec => []OutboxInv
<1>1. Init => OutboxInv
  BY InitInv
<1>2. OutboxInv /\ [Next]_vars => OutboxInv'
  BY NextKeeps
<1> QED BY <1>1, <1>2, PTL DEF Spec

\* A row marked sent was stored by the Manager with the total it has now
\* (markUsageSent), however flushes, timeouts, late requests and restarts
\* interleave.
THEOREM SentMeansStored == Spec => []SentWasStored
<1>1. OutboxInv => SentWasStored
  BY DEF OutboxInv
<1> QED BY <1>1, OutboxInvariance, PTL

\* No row stays 'sending' without a running flush that will settle it.
THEOREM NoOrphanedRow == Spec => []SendingIsHeld
<1>1. OutboxInv => SendingIsHeld
  BY DEF OutboxInv
<1> QED BY <1>1, OutboxInvariance, PTL

\* However often a total is uploaded, the Manager never holds more than the
\* Agent recorded (the upsert by summary_id).
THEOREM NeverCountedTwice == Spec => []NeverOverCounted
<1>1. OutboxInv => NeverOverCounted
  BY DEF OutboxInv
<1> QED BY <1>1, OutboxInvariance, PTL

\* A rejected summary stays as it is until it is written again
\* (claimUsageOutbox takes pending and failed rows only).
THEOREM RejectedIsFinal == Spec => RejectedStays
<1> DEFINE Stays == \A s \in Summaries : row[s].status = "rejected" /\ writes' = writes => row'[s] = row[s]
<1>1. OutboxInv /\ [Next]_vars => Stays
  <2> SUFFICES ASSUME OutboxInv, [Next]_vars, NEW s \in Summaries, row[s].status = "rejected", writes' = writes
               PROVE  row'[s] = row[s]
    OBVIOUS
  <2>1. CASE \E x \in Summaries : upsertUsageSummary(x) \/ \E n \in 0..MaxCount : publishSegmentOutcomes(x, n)
    BY <2>1, WritersKeep
  <2>2. CASE \E f \in Flushes : Flush(f) \/ Drain(f)
    <3>1. PICK f \in Flushes : Claim(f)
      BY <2>2 DEF Flush, Drain
    <3>2. PICK C \in Oldest(Eligible) : row' = Claimed(f, C)
      BY <3>1 DEF Claim
    <3>3. s \notin C
      BY <3>2 DEF Oldest, Eligible
    <3> QED BY <3>2, <3>3 DEF Claimed
  <2>3. CASE \E f \in Flushes : Step(f) \/ TimeOut(f)
    BY <2>3, StepKeeps DEF Settles, SettlesOnly, Holds
  <2>4. CASE \E f \in Flushes : Handle(f)
    BY <2>4 DEF Handle
  <2>5. CASE \E k \in Slots : HandleLate(k)
    BY <2>5 DEF HandleLate
  <2>6. CASE Restart
    BY <2>6 DEF Restart, Recovered
  <2>7. CASE OfferAgain \/ Register \/ Expire \/ (\E mood \in Moods : ManagerChanges(mood)) \/ UNCHANGED vars
    BY <2>7, OthersKeep
  <2> QED BY <2>1, <2>2, <2>3, <2>4, <2>5, <2>6, <2>7 DEF Next
<1>2. OutboxInv /\ [Next]_vars => [Stays]_vars
  BY <1>1
<1> QED BY <1>2, OutboxInvariance, PTL DEF Spec, RejectedStays
=============================================================================
