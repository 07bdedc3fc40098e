------------------------ MODULE ApprovalGateProofs ------------------------
(***************************************************************************)
(* Proofs about the approval gate, for any number of calls, records,       *)
(* batches, runs and keys.  GateInv is inductive.  Its steps are of two    *)
(* kinds: most move records towards an end and settle calls (Evolve); a    *)
(* call that goes through waitAndClaim may also start (WaitStep).          *)
(***************************************************************************)
EXTENDS ApprovalGate, TLAPS

\* What claimApproval, expireApproval, invalidateApprovalsForConversation and the
\* restart make of a row is again a row of the table.
LEMMA RowTypes ==
    ASSUME NEW x \in Record
    PROVE  /\ Claimed(x) \in Record /\ Expired(x) \in Record /\ Cancelled(x) \in Record
           /\ Orphaned(x) \in Record
           /\ \A ok \in BOOLEAN : FinishStatus(x, ok) \in Record
  BY DEF Record, Statuses, Open, Started, Claimed, Expired, Cancelled, Orphaned, FinishStatus

\* A step that only moves records towards their end, or from pending to approved,
\* and calls towards theirs preserves the invariant.
LEMMA Evolve ==
    ASSUME GateInv, TypeOK', UNCHANGED <<bind, runs>>,
           granted \subseteq granted',
           \A r \in Recs :
             /\ rec'[r].binding = rec[r].binding
             /\ \/ rec'[r].status = rec[r].status
                \/ /\ rec[r].status \in Open
                   /\ rec'[r].status \in {"rejected", "invalidated", "expired", "uncertain"}
                \/ rec[r].status = "executing" /\ rec'[r].status \in {"uncertain", "succeeded"}
                \/ rec[r].status = "pending" /\ rec'[r].status = "approved" /\ r \in granted',
           \A r \in vetoed' \ vetoed : rec'[r].status \notin Open \union {"none"},
           \A c \in Calls :
             \/ call'[c] = call[c]
             \/ call[c] = "waiting" /\ call'[c] \in {"woken", "done"}
             \/ /\ call'[c] = "done"
                /\ call[c] = "running" => rec'[RecOf[c]].status # "executing"
    PROVE  GateInv'
  <1>. USE GateAssumption
  <1>1. SingleUse'
    BY DEF GateInv, SingleUse
  <1>2. StartedReported'
    BY DEF GateInv, StartedReported, Started, Open
  <1>3. ExecutingHasCall'
    <2>1. SUFFICES ASSUME NEW r \in Recs, rec'[r].status = "executing"
                   PROVE  \E c \in Calls : RecOf[c] = r /\ call'[c] = "running"
      BY DEF ExecutingHasCall
    <2>2. rec[r].status = "executing"
      BY <2>1 DEF Open
    <2>3. PICK c \in Calls : RecOf[c] = r /\ call[c] = "running"
      BY <2>2 DEF GateInv, ExecutingHasCall
    <2>4. call'[c] = "running"
      BY <2>1, <2>3
    <2>. QED
      BY <2>3, <2>4
  <1>4. \A r \in Recs :
          /\ rec'[r].status \in Open => r \notin vetoed'
          /\ rec'[r].status = "approved" => r \in granted'
          /\ rec'[r].status = "none" => r \notin vetoed'
    BY DEF GateInv, Open
  <1>5. \A c \in Calls : call'[c] \in {"waiting", "woken", "running"} =>
          rec'[RecOf[c]].status # "none" /\ rec'[RecOf[c]].binding = bind'[c]
    BY DEF GateInv, Open
  <1>6. \A c \in Calls : call'[c] = "running" => rec'[RecOf[c]].status \in Started
    BY DEF GateInv, Open, Started
  <1>. QED
    BY <1>1, <1>2, <1>3, <1>4, <1>5, <1>6 DEF GateInv

\* The loop of waitAndClaim, on the table or on the table with a new record: it
\* claims a record that was never claimed, ends the call, or makes it wait.
LEMMA WaitStep ==
    ASSUME GateInv, NEW c \in Calls, NEW b \in Bindings \union {NoBinding},
           NEW R \in [Recs -> Record],
           WaitAndClaim(c, b, R), UNCHANGED <<aborted, now>>,
           call[c] # "running",
           bind' = [bind EXCEPT ![c] = b],
           granted \subseteq granted', granted' \subseteq Recs,
           \A q \in Recs \ {RecOf[c]} : R[q] = rec[q],
           \/ R[RecOf[c]] = rec[RecOf[c]]
           \/ /\ rec[RecOf[c]].status = "none"
              /\ R[RecOf[c]].status \in Open
              /\ R[RecOf[c]].status = "approved" => RecOf[c] \in granted',
           R[RecOf[c]].status # "none", R[RecOf[c]].binding = b
    PROVE  GateInv'
  <1>. USE GateAssumption
  <1>. DEFINE r == RecOf[c]
  <1>1. r \in Recs /\ TypeOK
    BY DEF GateInv
  <1>2. /\ R[r].status \in Open => r \notin vetoed /\ runs[r] = 0
        /\ R[r].status = "approved" => r \in granted'
        /\ runs[r] > 0 => R[r].status \in Started
    BY <1>1 DEF GateInv, StartedReported, Open, Started, TypeOK
  <1>3. \A q \in Recs : R[q].status \in Open => q \notin vetoed
    BY <1>1, <1>2 DEF GateInv
  <1>4. \A d \in Calls \ {c} : RecOf[d] = r /\ call[d] \in {"waiting", "woken", "running"} =>
          R[r] = rec[r]
    BY <1>1 DEF GateInv
  <1>5. CASE Claimable(R[r], b)
    <2>1. /\ rec' = [R EXCEPT ![r] = Claimed(R[r])]
          /\ runs' = [runs EXCEPT ![r] = @ + 1]
          /\ call' = [call EXCEPT ![c] = "running"]
          /\ UNCHANGED vetoed
      BY <1>5 DEF WaitAndClaim
    <2>2. /\ rec'[r] = Claimed(R[r]) /\ rec'[r].status = "executing" /\ rec'[r].binding = b
          /\ \A q \in Recs \ {r} : rec'[q] = rec[q]
          /\ runs'[r] = 1 /\ \A q \in Recs \ {r} : runs'[q] = runs[q]
          /\ call'[c] = "running" /\ \A d \in Calls \ {c} : call'[d] = call[d]
          /\ bind'[c] = b /\ \A d \in Calls \ {c} : bind'[d] = bind[d]
      BY <1>1, <1>2, <1>5, <2>1 DEF TypeOK, Claimed, Record, Claimable, Open
    <2>3. TypeOK'
      BY <1>1, <2>1, RowTypes DEF TypeOK
    <2>4. SingleUse' /\ StartedReported'
      BY <2>2 DEF GateInv, SingleUse, StartedReported, Started
    <2>5. ExecutingHasCall'
      BY <1>1, <2>2 DEF GateInv, ExecutingHasCall
    <2>6. \A q \in Recs :
            /\ rec'[q].status \in Open => q \notin vetoed'
            /\ rec'[q].status = "approved" => q \in granted'
            /\ rec'[q].status = "none" => q \notin vetoed'
      BY <2>1, <2>2 DEF GateInv, Open
    <2>7. \A d \in Calls : call'[d] \in {"waiting", "woken", "running"} =>
            rec'[RecOf[d]].status # "none" /\ rec'[RecOf[d]].binding = bind'[d]
      BY <1>4, <2>2 DEF GateInv
    <2>8. \A d \in Calls : call'[d] = "running" => rec'[RecOf[d]].status \in Started
      BY <2>2 DEF GateInv, Started
    <2>. QED
      BY <2>3, <2>4, <2>5, <2>6, <2>7, <2>8 DEF GateInv
  <1>6. CASE ~Claimable(R[r], b)
    <2>1. /\ UNCHANGED runs
          /\ call' \in {[call EXCEPT ![c] = "done"], [call EXCEPT ![c] = "waiting"]}
      BY <1>6 DEF WaitAndClaim
    <2>2. rec' \in [Recs -> Record] /\ vetoed' \subseteq Recs
      <3>1. \A q \in Recs : Expired(R[q]) \in Record /\ Cancelled(R[q]) \in Record
        BY RowTypes
      <3>. QED
        BY <1>1, <1>6, <3>1 DEF WaitAndClaim, TypeOK, Existing
    <2>3. TypeOK'
      BY <1>1, <2>1, <2>2 DEF TypeOK
    <2>4. \A q \in Recs :
            /\ rec'[q].binding = R[q].binding
            /\ \/ rec'[q].status = R[q].status
               \/ /\ R[q].status \in Open
                  /\ rec'[q].status \in {"invalidated", "expired"}
               \/ R[q].status = "executing" /\ rec'[q].status = "uncertain"
      BY <1>1, <1>6 DEF WaitAndClaim, Expired, Cancelled, Record, Open, Due
    <2>5. \A q \in vetoed' \ vetoed : rec'[q].status \notin Open \union {"none"}
      BY <1>1, <1>6 DEF WaitAndClaim, Expired, Cancelled, Record, Open, Due, Existing
    <2>6. call'[c] \in {"done", "waiting"} /\ \A d \in Calls \ {c} : call'[d] = call[d]
      BY <1>1, <2>1 DEF TypeOK
    <2>7. bind'[c] = b /\ \A d \in Calls \ {c} : bind'[d] = bind[d]
      BY <1>1 DEF TypeOK
    <2>8. SingleUse' /\ StartedReported'
      BY <1>1, <1>2, <2>1, <2>4 DEF GateInv, SingleUse, StartedReported, Started, Open
    <2>9. ExecutingHasCall'
      <3>1. SUFFICES ASSUME NEW q \in Recs, rec'[q].status = "executing"
                     PROVE  \E d \in Calls : RecOf[d] = q /\ call'[d] = "running"
        BY DEF ExecutingHasCall
      <3>2. rec[q].status = "executing"
        BY <1>1, <2>4, <3>1 DEF Open
      <3>3. PICK d \in Calls : RecOf[d] = q /\ call[d] = "running"
        BY <3>2 DEF GateInv, ExecutingHasCall
      <3>. QED
        BY <2>6, <3>3
    <2>10. \A q \in Recs :
             /\ rec'[q].status \in Open => q \notin vetoed'
             /\ rec'[q].status = "approved" => q \in granted'
             /\ rec'[q].status = "none" => q \notin vetoed'
      BY <1>1, <1>2, <1>3, <2>4, <2>5 DEF GateInv, Open
    <2>11. \A d \in Calls : call'[d] \in {"waiting", "woken", "running"} =>
             rec'[RecOf[d]].status # "none" /\ rec'[RecOf[d]].binding = bind'[d]
      BY <1>1, <1>4, <2>4, <2>6, <2>7 DEF GateInv, Open
    <2>12. \A d \in Calls : call'[d] = "running" => rec'[RecOf[d]].status \in Started
      BY <1>1, <1>4, <2>4, <2>6 DEF GateInv, Started, Open
    <2>. QED
      BY <2>3, <2>8, <2>9, <2>10, <2>11, <2>12 DEF GateInv
  <1>. QED
    BY <1>5, <1>6
-----------------------------------------------------------------------------
\* execute up to its first await preserves the invariant: it refuses, or goes through
\* the loop on the record it found or made.
LEMMA CallStep ==
    ASSUME GateInv, NEW c \in Calls, NEW b \in Bindings, NEW e \in now..MaxTime, Call(c, b, e)
    PROVE  GateInv'
  <1>. USE GateAssumption
  <1>. DEFINE r == RecOf[c]
  <1>1. /\ call[c] = "idle" /\ bind' = [bind EXCEPT ![c] = b] /\ UNCHANGED <<aborted, now>>
        /\ TypeOK /\ r \in Recs
    BY DEF Call, GateInv
  <1>2. CASE CallRefused(c, b, e)
    <2>. USE DEF CallRefused
    <2>1. TypeOK'
      BY <1>1, <1>2 DEF TypeOK
    <2>2. /\ \A d \in Calls \ {c} : call'[d] = call[d] /\ bind'[d] = bind[d]
          /\ call'[c] = "done"
      BY <1>1, <1>2 DEF TypeOK
    <2>3. SingleUse' /\ StartedReported'
      BY <1>2 DEF GateInv, SingleUse, StartedReported
    <2>4. ExecutingHasCall'
      BY <1>1, <1>2, <2>2 DEF GateInv, ExecutingHasCall
    <2>. QED
      BY <1>2, <2>1, <2>2, <2>3, <2>4 DEF GateInv
  <1>3. CASE CallNew(c, b, e)
    <2>. DEFINE new == NewRecord(r, b, e)
    <2>1. PICK R : R = [rec EXCEPT ![r] = new]
      OBVIOUS
    <2>2. new \in Record
      BY <1>1 DEF Record, Statuses, Open, TypeOK, NewRecord
    <2>3. /\ R \in [Recs -> Record] /\ R[r] = new
          /\ \A q \in Recs \ {r} : R[q] = rec[q]
      BY <1>1, <2>1, <2>2 DEF TypeOK
    <2>4. /\ rec[r].status = "none" /\ new.status \in Open /\ new.status # "none" /\ new.binding = b
          /\ new.status = "approved" => r \in granted'
      BY <1>1, <1>3 DEF Existing, Open, CallNew, NewRecord
    <2>5. granted \subseteq granted' /\ granted' \subseteq Recs
      BY <1>1, <1>3 DEF TypeOK, CallNew
    <2>6. WaitAndClaim(c, b, R)
      BY <1>3, <2>1 DEF CallNew
    <2>. QED
      BY <1>1, <2>3, <2>4, <2>5, <2>6, WaitStep
  <1>4. CASE CallAgain(c, b)
    <2>1. PICK R : R = rec
      OBVIOUS
    <2>2. /\ R \in [Recs -> Record] /\ R[r].status # "none" /\ R[r].binding = b
          /\ granted \subseteq granted' /\ granted' \subseteq Recs
          /\ R[r] = rec[r] /\ \A q \in Recs \ {r} : R[q] = rec[q]
          /\ call[c] # "running"
      BY <1>1, <1>4, <2>1 DEF TypeOK, Existing, BindingChanged, CallAgain
    <2>3. WaitAndClaim(c, b, R)
      BY <1>4, <2>1 DEF CallAgain
    <2>. QED
      BY <1>1, <2>2, <2>3, WaitStep
  <1>. QED
    BY <1>2, <1>3, <1>4 DEF Call

\* A resolved call that reads its record again preserves the invariant.
LEMMA ContinueStep ==
    ASSUME GateInv, NEW c \in Calls, Continue(c)
    PROVE  GateInv'
  <1>. USE GateAssumption
  <1>1. PICK R, b : R = rec /\ b = bind[c]
    OBVIOUS
  <1>2. /\ TypeOK /\ RecOf[c] \in Recs
        /\ call[c] = "woken" /\ UNCHANGED <<bind, aborted, now, granted>>
    BY DEF Continue, GateInv
  <1>3. /\ R \in [Recs -> Record] /\ b \in Bindings \union {NoBinding} /\ granted' \subseteq Recs
        /\ R[RecOf[c]].status # "none" /\ R[RecOf[c]].binding = b
        /\ bind' = [bind EXCEPT ![c] = b]
    BY <1>1, <1>2 DEF TypeOK, GateInv
  <1>4. WaitAndClaim(c, b, R)
    BY <1>1 DEF Continue
  <1>. QED
    BY <1>1, <1>2, <1>3, <1>4, WaitStep

\* The end of an operation preserves the invariant: its record says that it ran.
LEMMA FinishStep ==
    ASSUME GateInv, NEW c \in Calls, NEW ok \in BOOLEAN, Finish(c, ok)
    PROVE  GateInv'
  <1>. USE GateAssumption
  <1>1. TypeOK /\ RecOf[c] \in Recs /\ UNCHANGED <<bind, aborted, now, runs, granted, vetoed>>
    BY DEF GateInv, Finish
  <1>2. FinishStatus(rec[RecOf[c]], ok) \in Record
    BY <1>1, RowTypes DEF TypeOK
  <1>3. TypeOK'
    BY <1>1, <1>2 DEF TypeOK, Finish
  <1>4. \A r \in Recs :
          /\ rec'[r].binding = rec[r].binding
          /\ \/ rec'[r].status = rec[r].status
             \/ rec[r].status = "executing" /\ rec'[r].status \in {"uncertain", "succeeded"}
    BY <1>1 DEF Finish, FinishStatus, TypeOK, Record
  <1>5. rec'[RecOf[c]].status # "executing"
    BY <1>1 DEF Finish, FinishStatus, TypeOK, Record
  <1>6. \A d \in Calls : call'[d] = call[d] \/ (d = c /\ call'[d] = "done")
    BY <1>1 DEF Finish, TypeOK
  <1>. QED
    BY <1>1, <1>3, <1>4, <1>5, <1>6, Evolve

\* The expiry timer of a waiter preserves the invariant.
LEMMA TimerStep ==
    ASSUME GateInv, NEW c \in Calls, Timer(c)
    PROVE  GateInv'
  <1>. USE GateAssumption
  <1>1. TypeOK /\ RecOf[c] \in Recs /\ UNCHANGED <<bind, aborted, now, runs, granted>>
    BY DEF GateInv, Timer
  <1>2. Expired(rec[RecOf[c]]) \in Record
    BY <1>1, RowTypes DEF TypeOK
  <1>3. \A d \in Calls : call'[d] = call[d] \/ (call[d] = "waiting" /\ call'[d] = "done")
    BY DEF Timer, Move, Waiters
  <1>4. TypeOK'
    BY <1>1, <1>2 DEF TypeOK, Timer, Move
  <1>5. \A r \in Recs :
          /\ rec'[r].binding = rec[r].binding
          /\ \/ rec'[r].status = rec[r].status
             \/ rec[r].status \in Open /\ rec'[r].status = "expired"
    BY <1>1 DEF Timer, Expired, Due, TypeOK, Record
  <1>6. \A r \in vetoed' \ vetoed : rec'[r].status \notin Open \union {"none"}
    BY <1>1 DEF Timer, Expired, Due, TypeOK, Record, Open
  <1>. QED
    BY <1>1, <1>3, <1>4, <1>5, <1>6, Evolve
\* expireDue, the first thing that list and decide do, expires rows and vetoes them.
LEMMA ExpiryRows ==
    ASSUME TypeOK
    PROVE  /\ AfterExpiry \in [Recs -> Record] /\ DueRecs \subseteq Recs
           /\ \A r \in Recs :
                /\ AfterExpiry[r].binding = rec[r].binding
                /\ r \in DueRecs => rec[r].status \in Open /\ AfterExpiry[r].status = "expired"
                /\ r \notin DueRecs => AfterExpiry[r] = rec[r]
  <1>1. \A r \in Recs : Expired(rec[r]) \in Record
    BY RowTypes DEF TypeOK
  <1>. QED
    BY <1>1 DEF TypeOK, AfterExpiry, DueRecs, Due, Expired, Record

\* list, and a refused decision, preserve the invariant.
LEMMA ListStep ==
    ASSUME GateInv, List
    PROVE  GateInv'
  <1>. USE GateAssumption
  <1>1. TypeOK /\ UNCHANGED <<bind, aborted, now, runs, granted>> /\ rec' = AfterExpiry
        /\ vetoed' = vetoed \union DueRecs
    BY DEF GateInv, List
  <1>2. \A d \in Calls : call'[d] = call[d] \/ (call[d] = "waiting" /\ call'[d] = "done")
    BY DEF List, Move, Waiters
  <1>3. TypeOK'
    BY <1>1, ExpiryRows DEF TypeOK, List, Move
  <1>4. \A r \in Recs :
          /\ rec'[r].binding = rec[r].binding
          /\ \/ rec'[r].status = rec[r].status
             \/ rec[r].status \in Open /\ rec'[r].status = "expired"
    BY <1>1, ExpiryRows
  <1>5. \A r \in vetoed' \ vetoed : rec'[r].status \notin Open \union {"none"}
    BY <1>1, ExpiryRows DEF Open
  <1>. QED
    BY <1>1, <1>2, <1>3, <1>4, <1>5, Evolve

\* What decide tells the waiters settles them or lets them read their record again.
LEMMA AnswerCalls ==
    ASSUME TypeOK, NEW r \in Recs, NEW st, Answer(r, st)
    PROVE  /\ \A d \in Calls : call'[d] = call[d] \/ (call[d] = "waiting" /\ call'[d] \in {"woken", "done"})
           /\ call' \in [Calls -> {"idle", "waiting", "woken", "running", "done"}]
  BY DEF Answer, Waiters, TypeOK

\* The first decision on a pending request preserves the invariant: an approval grants
\* it, a denial vetoes its batch and closes every open record of it.
LEMMA DecideStep ==
    ASSUME GateInv, NEW r \in Recs, NEW d \in {"approved", "rejected"}, NEW k \in Keys,
           Decide(r, d, k)
    PROVE  GateInv'
  <1>. USE GateAssumption
  <1>1. TypeOK /\ UNCHANGED <<bind, aborted, now, runs>> /\ Answer(r, d)
        /\ AfterExpiry[r].status = "pending" /\ rec' = Decided(AfterExpiry, r, d, k)
        /\ granted' = IF d = "approved" THEN granted \union {r} ELSE granted
    BY DEF GateInv, Decide
  <1>2. \A c \in Calls : call'[c] = call[c] \/ (call[c] = "waiting" /\ call'[c] \in {"woken", "done"})
    BY <1>1, AnswerCalls
  <1>3. r \notin DueRecs /\ AfterExpiry[r] = rec[r] /\ rec[r].status = "pending"
    BY <1>1, ExpiryRows
  <1>4. /\ rec' \in [Recs -> Record] /\ rec'[r].status = d /\ rec'[r].binding = rec[r].binding
        /\ \A q \in Recs \ {r} :
             IF d = "rejected" /\ Batch[q] = Batch[r] /\ AfterExpiry[q].status \in Open
             THEN rec'[q] = [AfterExpiry[q] EXCEPT !.status = "invalidated"]
             ELSE rec'[q] = AfterExpiry[q]
    <2>1. [AfterExpiry[r] EXCEPT !.status = d, !.key = k] \in Record
      BY <1>1, ExpiryRows DEF Record, Statuses, Open
    <2>2. \A q \in Recs : [AfterExpiry[q] EXCEPT !.status = "invalidated"] \in Record
      BY <1>1, ExpiryRows DEF Record, Statuses
    <2>. QED
      BY <1>1, <1>3, <2>1, <2>2, ExpiryRows DEF Decided, Record
  <1>5. \A q \in Recs :
          /\ rec'[q].binding = rec[q].binding
          /\ \/ rec'[q].status = rec[q].status
             \/ rec[q].status \in Open /\ rec'[q].status \in {"rejected", "invalidated", "expired"}
             \/ q = r /\ d = "approved" /\ rec'[q].status = "approved"
    BY <1>1, <1>3, <1>4, ExpiryRows DEF Record, Open
  <1>6. vetoed' = vetoed \union DueRecs \union
                    (IF d = "rejected" THEN {q \in Existing : Batch[q] = Batch[r]} ELSE {})
    BY DEF Decide
  <1>7. TypeOK'
    BY <1>1, <1>4, <1>6, AnswerCalls, ExpiryRows DEF TypeOK, Existing
  <1>8. \A q \in vetoed' \ vetoed : rec'[q].status \notin Open \union {"none"}
    <2>1. \A q \in DueRecs : q # r /\ rec'[q].status \in {"invalidated", "expired"}
      BY <1>1, <1>3, <1>4, ExpiryRows DEF Record
    <2>2. ASSUME NEW q \in Existing, d = "rejected", Batch[q] = Batch[r]
          PROVE  rec'[q].status \notin Open \union {"none"}
      <3>1. q \in Recs /\ rec[q].status # "none"
        BY <2>2 DEF Existing
      <3>2. CASE q = r
        BY <1>4, <2>2, <3>2 DEF Open
      <3>3. CASE q # r /\ AfterExpiry[q].status \in Open
        <4>1. rec'[q] = [AfterExpiry[q] EXCEPT !.status = "invalidated"] /\ AfterExpiry[q] \in Record
          BY <1>1, <1>4, <2>2, <3>1, <3>3, ExpiryRows
        <4>. QED
          BY <4>1 DEF Record, Open
      <3>4. CASE q # r /\ AfterExpiry[q].status \notin Open
        <4>1. rec'[q] = AfterExpiry[q] /\ AfterExpiry[q].status # "none"
          BY <1>1, <1>4, <3>1, <3>4, ExpiryRows
        <4>. QED
          BY <3>4, <4>1
      <3>. QED
        BY <3>2, <3>3, <3>4
    <2>3. \A q \in vetoed' \ vetoed :
            q \in DueRecs \/ (d = "rejected" /\ q \in Existing /\ Batch[q] = Batch[r])
      BY <1>6
    <2>. QED
      BY <2>1, <2>2, <2>3 DEF Open
  <1>. QED
    BY <1>1, <1>2, <1>3, <1>5, <1>7, <1>8, Evolve

\* A decision made once more preserves the invariant: it changes no record.
LEMMA RepeatStep ==
    ASSUME GateInv, NEW r \in Recs, NEW d \in {"approved", "rejected"}, NEW k \in Keys,
           Repeat(r, d, k)
    PROVE  GateInv'
  <1>. USE GateAssumption
  <1>0. PICK st : st = AfterExpiry[r].status
    OBVIOUS
  <1>1. TypeOK /\ UNCHANGED <<bind, aborted, now, runs, granted>> /\ rec' = AfterExpiry
        /\ Answer(r, st) /\ vetoed' = vetoed \union DueRecs
    BY <1>0 DEF GateInv, Repeat
  <1>2. \A c \in Calls : call'[c] = call[c] \/ (call[c] = "waiting" /\ call'[c] \in {"woken", "done"})
    BY <1>1, AnswerCalls
  <1>3. TypeOK'
    BY <1>1, ExpiryRows, AnswerCalls DEF TypeOK
  <1>4. \A q \in Recs :
          /\ rec'[q].binding = rec[q].binding
          /\ \/ rec'[q].status = rec[q].status
             \/ rec[q].status \in Open /\ rec'[q].status = "expired"
    BY <1>1, ExpiryRows
  <1>5. \A q \in vetoed' \ vetoed : rec'[q].status \notin Open \union {"none"}
    BY <1>1, ExpiryRows DEF Open
  <1>. QED
    BY <1>1, <1>2, <1>3, <1>4, <1>5, Evolve
\* Cancelling the conversation closes every open record and vetoes all of them.
LEMMA CancelRows ==
    ASSUME GateInv, CancelAll, UNCHANGED <<bind, now, runs, granted>>,
           aborted' \subseteq {RunOf[r] : r \in Recs},
           \A c \in Calls : call'[c] = call[c] \/ (call[c] = "waiting" /\ call'[c] = "done"),
           call' \in [Calls -> {"idle", "waiting", "woken", "running", "done"}]
    PROVE  GateInv'
  <1>. USE GateAssumption
  <1>1. TypeOK /\ rec' = [r \in Recs |-> Cancelled(rec[r])] /\ vetoed' = vetoed \union Existing
    BY DEF GateInv, CancelAll
  <1>2. \A r \in Recs : Cancelled(rec[r]) \in Record
    BY <1>1, RowTypes DEF TypeOK
  <1>3. TypeOK'
    BY <1>1, <1>2 DEF TypeOK, Existing
  <1>4. \A r \in Recs :
          /\ rec'[r].binding = rec[r].binding
          /\ \/ rec'[r].status = rec[r].status
             \/ rec[r].status \in Open /\ rec'[r].status = "invalidated"
             \/ rec[r].status = "executing" /\ rec'[r].status = "uncertain"
    BY <1>1 DEF TypeOK, Record, Cancelled, Open
  <1>5. \A r \in vetoed' \ vetoed : rec'[r].status \notin Open \union {"none"}
    BY <1>1 DEF TypeOK, Record, Cancelled, Open, Existing
  <1>. QED
    BY <1>3, <1>4, <1>5, Evolve

\* cancelConversation, the abort of a run, clear and a restart preserve the invariant.
LEMMA EndStep ==
    ASSUME GateInv, Cancel \/ (\E r \in Recs : Abort(RunOf[r])) \/ Clear \/ Restart
    PROVE  GateInv'
  <1>. USE GateAssumption
  <1>0. TypeOK
    BY DEF GateInv
  <1>1. ASSUME NEW S, call' = Move(Waiters(S), "done")
        PROVE  /\ \A c \in Calls : call'[c] = call[c] \/ (call[c] = "waiting" /\ call'[c] = "done")
               /\ call' \in [Calls -> {"idle", "waiting", "woken", "running", "done"}]
    BY <1>0, <1>1 DEF Move, Waiters, TypeOK
  <1>2. CASE Cancel
    BY <1>0, <1>1, <1>2, CancelRows DEF Cancel, TypeOK
  <1>3. ASSUME NEW p \in Recs, Abort(RunOf[p])
        PROVE  GateInv'
    <2>1. PICK mine : mine = {r \in Recs : RunOf[r] = RunOf[p] /\ Waiters({r}) # {}}
      OBVIOUS
    <2>2. /\ call' = Move(Waiters(mine), "done") /\ aborted' = aborted \union {RunOf[p]}
          /\ UNCHANGED <<bind, now, runs, granted>>
          /\ CancelAll \/ UNCHANGED <<rec, vetoed>>
      BY <1>3, <2>1 DEF Abort
    <2>3. aborted' \subseteq {RunOf[r] : r \in Recs}
      BY <1>0, <2>2 DEF TypeOK
    <2>4. CASE CancelAll
      BY <1>1, <2>2, <2>3, <2>4, CancelRows
    <2>5. CASE UNCHANGED <<rec, vetoed>>
      <3>1. TypeOK'
        BY <1>0, <1>1, <2>2, <2>3, <2>5 DEF TypeOK
      <3>. QED
        BY <1>1, <2>2, <2>5, <3>1, Evolve
    <2>. QED
      BY <2>2, <2>4, <2>5
  <1>4. CASE Clear
    <2>1. TypeOK'
      BY <1>0, <1>1, <1>4 DEF Clear, TypeOK
    <2>. QED
      BY <1>1, <1>4, <2>1, Evolve DEF Clear
  <1>5. CASE Restart
    <2>1. /\ rec' = [r \in Recs |-> Orphaned(rec[r])] /\ vetoed' = vetoed \union Existing
          /\ UNCHANGED <<bind, aborted, now, runs, granted>>
          /\ \A c \in Calls : call'[c] = IF call[c] # "idle" THEN "done" ELSE call[c]
          /\ call' \in [Calls -> {"idle", "waiting", "woken", "running", "done"}]
      BY <1>0, <1>5 DEF Restart, Move, TypeOK
    <2>2. \A r \in Recs : Orphaned(rec[r]) \in Record
      BY <1>0, RowTypes DEF TypeOK
    <2>3. TypeOK'
      BY <1>0, <2>1, <2>2 DEF TypeOK, Existing
    <2>4. \A r \in Recs :
            /\ rec'[r].binding = rec[r].binding
            /\ rec'[r].status # "executing"
            /\ \/ rec'[r].status = rec[r].status
               \/ rec[r].status \in Open \union {"executing"} /\ rec'[r].status = "uncertain"
      BY <1>0, <2>1 DEF TypeOK, Record, Orphaned, Open
    <2>5. \A r \in vetoed' \ vetoed : rec'[r].status \notin Open \union {"none"}
      <3>1. \A r \in Recs : rec'[r].status \notin Open
        BY <1>0, <2>1 DEF TypeOK, Record, Orphaned, Open
      <3>2. \A r \in Existing : r \in Recs /\ rec'[r].status # "none"
        BY <2>4 DEF Existing
      <3>. QED
        BY <2>1, <3>1, <3>2
    <2>6. \A c \in Calls : RecOf[c] \in Recs
      OBVIOUS
    <2>. QED
      BY <2>1, <2>3, <2>4, <2>5, <2>6, Evolve
  <1>. QED
    BY <1>2, <1>3, <1>4, <1>5

-----------------------------------------------------------------------------
\* In every reachable state of the gate the inductive invariant holds: an approval
\* that can still be claimed has not been taken back, whatever was decided, aborted,
\* cancelled, expired or restarted, and in whatever order.
THEOREM GateInvariance == Spec => []GateInv
  <1>. USE GateAssumption
  <1>1. Init => GateInv
    <2>1. SUFFICES ASSUME Init PROVE GateInv
      OBVIOUS
    <2>2. TypeOK
      BY <2>1 DEF Init, TypeOK, Record, Statuses
    <2>. QED
      BY <2>1, <2>2 DEF Init, GateInv, SingleUse, StartedReported, ExecutingHasCall, Open, Started
  <1>2. GateInv /\ [Next]_vars => GateInv'
    <2>1. SUFFICES ASSUME GateInv, [Next]_vars PROVE GateInv'
      OBVIOUS
    <2>2. CASE CallNext
      BY <2>1, <2>2, CallStep, ContinueStep, FinishStep, TimerStep DEF CallNext
    <2>3. CASE ClientNext
      BY <2>1, <2>3, ListStep, DecideStep, RepeatStep, EndStep DEF ClientNext
    <2>4. CASE Clear \/ Restart
      BY <2>1, <2>4, EndStep
    <2>5. CASE Tick
      <3>1. TypeOK'
        BY <2>1, <2>5 DEF GateInv, TypeOK, Tick
      <3>. QED
        BY <2>1, <2>5, <3>1, Evolve DEF Tick
    <2>6. CASE UNCHANGED vars
      BY <2>1, <2>6 DEF vars, GateInv, TypeOK, SingleUse, StartedReported, ExecutingHasCall
    <2>. QED
      BY <2>1, <2>2, <2>3, <2>4, <2>5, <2>6 DEF Next
  <1>. QED
    BY <1>1, <1>2, PTL DEF Spec

\* However many calls look for a record, the operation behind it starts at most once
\* (claimApproval's compare-and-set), across repeated decisions and restarts.
THEOREM ConsumedOnce == Spec => []SingleUse
  <1>1. GateInv => SingleUse
    BY DEF GateInv
  <1>. QED
    BY <1>1, GateInvariance, PTL

\* The record of an operation that was started never says otherwise, so nothing
\* retries it on the strength of its record.
THEOREM NeverDenied == Spec => []StartedReported
  <1>1. GateInv => StartedReported
    BY DEF GateInv
  <1>. QED
    BY <1>1, GateInvariance, PTL
\* A call that goes through waitAndClaim starts only what was granted and not vetoed.
LEMMA StartLemma ==
    ASSUME GateInv, NEW c \in Calls, NEW b, NEW R \in [Recs -> Record],
           WaitAndClaim(c, b, R), call[c] # "running", bind'[c] = b,
           R[RecOf[c]].status = "approved" => RecOf[c] \in granted' \ vetoed
    PROVE  \A d \in Calls : call[d] # "running" /\ call'[d] = "running" =>
             /\ RecOf[d] \in granted' \ vetoed
             /\ now < rec'[RecOf[d]].expiry
             /\ rec'[RecOf[d]].binding = bind'[d]
  <1>. USE GateAssumption
  <1>1. TypeOK /\ RecOf[c] \in Recs
    BY DEF GateInv
  <1>2. CASE Claimable(R[RecOf[c]], b)
    <2>1. /\ rec' = [R EXCEPT ![RecOf[c]] = Claimed(R[RecOf[c]])]
          /\ call' = [call EXCEPT ![c] = "running"]
      BY <1>2 DEF WaitAndClaim
    <2>2. R[RecOf[c]] \in Record /\ rec'[RecOf[c]] = Claimed(R[RecOf[c]])
      BY <1>1, <2>1
    <2>3. /\ rec'[RecOf[c]].expiry = R[RecOf[c]].expiry /\ rec'[RecOf[c]].binding = R[RecOf[c]].binding
          /\ R[RecOf[c]].expiry \in 0..MaxTime
      BY <2>2 DEF Claimed, Record
    <2>4. /\ RecOf[c] \in granted' \ vetoed
          /\ now < rec'[RecOf[c]].expiry
          /\ rec'[RecOf[c]].binding = b
      BY <1>1, <1>2, <2>3 DEF Claimable, TypeOK
    <2>5. \A d \in Calls : call[d] # "running" /\ call'[d] = "running" => d = c
      BY <1>1, <2>1 DEF TypeOK
    <2>. QED
      BY <2>4, <2>5
  <1>3. CASE ~Claimable(R[RecOf[c]], b)
    BY <1>1, <1>3 DEF WaitAndClaim, TypeOK
  <1>. QED
    BY <1>2, <1>3

\* No step starts an operation without an approval that is granted, unexpired, made
\* under the call's permission revision and not taken back.
THEOREM OnlyAsApproved == Spec => StartsAsApproved
  <1>. USE GateAssumption
  <1>1. ASSUME GateInv, [Next]_vars
        PROVE  \A c \in Calls : call[c] # "running" /\ call'[c] = "running" =>
                 /\ RecOf[c] \in granted' \ vetoed
                 /\ now < rec'[RecOf[c]].expiry
                 /\ rec'[RecOf[c]].binding = bind'[c]
    <2>0. TypeOK
      BY <1>1 DEF GateInv
    <2>1. ASSUME NEW c \in Calls, NEW b \in Bindings, NEW e \in now..MaxTime, Call(c, b, e)
          PROVE  \A d \in Calls : call[d] # "running" /\ call'[d] = "running" =>
                   /\ RecOf[d] \in granted' \ vetoed
                   /\ now < rec'[RecOf[d]].expiry
                   /\ rec'[RecOf[d]].binding = bind'[d]
      <3>1. call[c] = "idle" /\ bind'[c] = b /\ RecOf[c] \in Recs
        BY <2>0, <2>1 DEF Call, TypeOK
      <3>2. CASE CallRefused(c, b, e)
        BY <2>0, <3>2 DEF CallRefused, TypeOK
      <3>3. CASE CallNew(c, b, e)
        <4>1. PICK R : R = [rec EXCEPT ![RecOf[c]] = NewRecord(RecOf[c], b, e)]
          OBVIOUS
        <4>2. NewRecord(RecOf[c], b, e) \in Record
          BY <2>0 DEF Record, Statuses, Open, TypeOK, NewRecord
        <4>3. R \in [Recs -> Record] /\ R[RecOf[c]] = NewRecord(RecOf[c], b, e)
          BY <2>0, <3>1, <4>1, <4>2 DEF TypeOK
        <4>4. R[RecOf[c]].status = "approved" => RecOf[c] \in granted' \ vetoed
          <5>1. RecOf[c] \notin vetoed
            BY <1>1, <3>1, <3>3 DEF GateInv, CallNew, Existing
          <5>2. R[RecOf[c]].status = "approved" => RecOf[c] \in granted'
            BY <3>3, <4>3 DEF CallNew, NewRecord
          <5>. QED
            BY <5>1, <5>2
        <4>5. WaitAndClaim(c, b, R)
          BY <3>3, <4>1 DEF CallNew
        <4>. QED
          BY <1>1, <3>1, <4>3, <4>4, <4>5, StartLemma
      <3>4. CASE CallAgain(c, b)
        <4>1. PICK R : R = rec
          OBVIOUS
        <4>2. R \in [Recs -> Record] /\ (R[RecOf[c]].status = "approved" => RecOf[c] \in granted' \ vetoed)
          BY <1>1, <2>0, <3>1, <3>4, <4>1 DEF TypeOK, GateInv, CallAgain, Open
        <4>3. WaitAndClaim(c, b, R)
          BY <3>4, <4>1 DEF CallAgain
        <4>. QED
          BY <1>1, <3>1, <4>2, <4>3, StartLemma
      <3>. QED
        BY <2>1, <3>2, <3>3, <3>4 DEF Call
    <2>2. ASSUME NEW c \in Calls, Continue(c)
          PROVE  \A d \in Calls : call[d] # "running" /\ call'[d] = "running" =>
                   /\ RecOf[d] \in granted' \ vetoed
                   /\ now < rec'[RecOf[d]].expiry
                   /\ rec'[RecOf[d]].binding = bind'[d]
      <3>1. PICK R, b : R = rec /\ b = bind[c]
        OBVIOUS
      <3>2. /\ R \in [Recs -> Record] /\ (R[RecOf[c]].status = "approved" => RecOf[c] \in granted' \ vetoed)
            /\ bind'[c] = b /\ call[c] # "running"
        BY <1>1, <2>0, <2>2, <3>1 DEF TypeOK, GateInv, Continue, Open
      <3>3. WaitAndClaim(c, b, R)
        BY <2>2, <3>1 DEF Continue
      <3>. QED
        BY <1>1, <3>2, <3>3, StartLemma
    <2>3. ASSUME NEW c \in Calls, (\E ok \in BOOLEAN : Finish(c, ok)) \/ Timer(c)
          PROVE  \A d \in Calls : call'[d] = "running" => call[d] = "running"
      BY <2>0, <2>3 DEF Finish, Timer, Move, TypeOK
    <2>4. ASSUME ClientNext \/ Clear \/ Restart \/ Tick \/ UNCHANGED vars
          PROVE  \A d \in Calls : call'[d] = "running" => call[d] = "running"
      BY <2>0, <2>4 DEF ClientNext, List, Decide, Repeat, Answer, Cancel, Abort, Clear, Restart, Tick,
                        Move, TypeOK, vars
    <2>. QED
      BY <1>1, <2>1, <2>2, <2>3, <2>4 DEF Next, CallNext
  <1>2. GateInv /\ [Next]_vars =>
          [\A c \in Calls : call[c] # "running" /\ call'[c] = "running" =>
             LET r == RecOf[c] IN
             /\ r \in granted'
             /\ r \notin vetoed
             /\ now < rec'[r].expiry
             /\ rec'[r].binding = bind'[c]]_vars
    BY <1>1
  <1>. QED
    BY <1>2, GateInvariance, PTL DEF Spec, StartsAsApproved
\* What the store's statements do to a row that is settled already: nothing.
LEMMA SettledRow ==
    ASSUME NEW x, x.status \in Terminal
    PROVE  /\ Expired(x) = x /\ Cancelled(x) = x /\ Orphaned(x) = x
           /\ \A ok \in BOOLEAN : FinishStatus(x, ok) = x
           /\ \A b : ~Claimable(x, b)
  BY DEF Terminal, Open, Expired, Due, Cancelled, Orphaned, FinishStatus, Claimable

\* waitAndClaim leaves a settled row of its table alone.
LEMMA SettledWait ==
    ASSUME NEW c \in Calls, NEW b, NEW R \in [Recs -> Record], WaitAndClaim(c, b, R)
    PROVE  \A r \in Recs : R[r].status \in Terminal => rec'[r] = R[r]
  <1>1. SUFFICES ASSUME NEW r \in Recs, R[r].status \in Terminal PROVE rec'[r] = R[r]
    OBVIOUS
  <1>2. Expired(R[r]) = R[r] /\ Cancelled(R[r]) = R[r] /\ ~Claimable(R[r], b)
    BY <1>1, SettledRow
  <1>. QED
    BY <1>1, <1>2 DEF WaitAndClaim

\* A request that was settled is never given another status, by whatever order of
\* decisions, timers, cancellations, late results and restarts.
THEOREM SettledGood == Spec => SettledForever
  <1>. USE GateAssumption
  <1>1. ASSUME GateInv, [Next]_vars, NEW r \in Recs, rec[r].status \in Terminal
        PROVE  rec'[r] = rec[r]
    <2>0. TypeOK
      BY <1>1 DEF GateInv
    <2>1. ASSUME NEW c \in Calls, NEW b \in Bindings, NEW e \in now..MaxTime, Call(c, b, e)
          PROVE  rec'[r] = rec[r]
      <3>1. CASE CallRefused(c, b, e)
        BY <3>1 DEF CallRefused
      <3>2. CASE CallNew(c, b, e)
        <4>1. PICK R : R = [rec EXCEPT ![RecOf[c]] = NewRecord(RecOf[c], b, e)]
          OBVIOUS
        <4>2. NewRecord(RecOf[c], b, e) \in Record
          BY <2>0 DEF Record, Statuses, Open, TypeOK, NewRecord
        <4>3. RecOf[c] # r
          BY <1>1, <3>2 DEF CallNew, Existing, Terminal
        <4>4. R \in [Recs -> Record] /\ R[r] = rec[r]
          BY <2>0, <4>1, <4>2, <4>3 DEF TypeOK
        <4>5. WaitAndClaim(c, b, R)
          BY <3>2, <4>1 DEF CallNew
        <4>. QED
          BY <1>1, <4>4, <4>5, SettledWait
      <3>3. CASE CallAgain(c, b)
        <4>1. PICK R : R = rec
          OBVIOUS
        <4>2. WaitAndClaim(c, b, R) /\ R \in [Recs -> Record]
          BY <2>0, <3>3, <4>1 DEF CallAgain, TypeOK
        <4>. QED
          BY <1>1, <4>1, <4>2, SettledWait
      <3>. QED
        BY <2>1, <3>1, <3>2, <3>3 DEF Call
    <2>2. ASSUME NEW c \in Calls, Continue(c)
          PROVE  rec'[r] = rec[r]
      <3>1. PICK R, b : R = rec /\ b = bind[c]
        OBVIOUS
      <3>2. WaitAndClaim(c, b, R) /\ R \in [Recs -> Record]
        BY <2>0, <2>2, <3>1 DEF Continue, TypeOK
      <3>. QED
        BY <1>1, <3>1, <3>2, SettledWait
    <2>3. ASSUME NEW c \in Calls, (\E ok \in BOOLEAN : Finish(c, ok)) \/ Timer(c)
          PROVE  rec'[r] = rec[r]
      BY <1>1, <2>0, <2>3, SettledRow DEF Finish, Timer, TypeOK
    <2>4. AfterExpiry[r] = rec[r]
      BY <1>1, SettledRow DEF AfterExpiry
    <2>5. ASSUME NEW q \in Recs, NEW d \in {"approved", "rejected"}, NEW k \in Keys, Decide(q, d, k)
          PROVE  rec'[r] = rec[r]
      BY <1>1, <2>4, <2>5 DEF Decide, Decided, Terminal, Open
    <2>6. CASE ClientNext
      BY <1>1, <2>4, <2>5, <2>6, SettledRow DEF ClientNext, List, Repeat, Cancel, CancelAll, Abort
    <2>7. CASE Clear \/ Restart \/ Tick \/ UNCHANGED vars
      BY <1>1, <2>7, SettledRow DEF Clear, Restart, Tick, vars
    <2>. QED
      BY <1>1, <2>1, <2>2, <2>3, <2>6, <2>7 DEF Next, CallNext
  <1>2. GateInv /\ [Next]_vars => [\A r \in Recs : rec[r].status \in Terminal => rec'[r] = rec[r]]_vars
    BY <1>1
  <1>. QED
    BY <1>2, GateInvariance, PTL DEF Spec, SettledForever
=============================================================================
