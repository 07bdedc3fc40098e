---------------------------- MODULE ApprovalGate ----------------------------
(***************************************************************************)
(* The approval gate of the Agent (approval-service.ts): a tool call with  *)
(* a side effect blocks until a person, or the conversation's policy,      *)
(* approves it, and an approval is good for one execution.  One            *)
(* conversation of one member is modelled, with the tool calls of several  *)
(* runs (the participants of a group each have their own).                 *)
(*                                                                         *)
(* The record of a call lives in SQLite and survives a restart; the calls  *)
(* themselves and their waiters live in memory.  A record's                *)
(* decision_revision is left out: a pending record still has the revision  *)
(* it was created with, so a decision whose expected revision is stale is  *)
(* refused either by the revision or by the status, and a refusal is a     *)
(* List step.                                                              *)
(***************************************************************************)
EXTENDS Naturals

CONSTANTS
  Calls,      \* invocations of execute
  Recs,       \* approval records, one for each (session, tool call, arguments, snapshot)
  RecOf,      \* the record an invocation looks for
  RunOf,      \* the run a record's tool call belongs to; its calls share an abort signal
  Batch,      \* approval_batch_id of a record
  Bindings,   \* permission revisions a call may be made under
  NoBinding,  \* no call has been made yet
  AutoApproved, \* pairs <<record, binding>> the policy approves without a prompt
  Keys,       \* idempotency keys of the client's decisions
  NoKey,      \* no decision has been recorded yet
  Ttl,        \* lifetime of a request
  Early,      \* how early a timer may fire by the wall clock
  MaxTime     \* bound on the clock

VARIABLES
  rec,      \* approval_record table
  call,     \* where each invocation of execute stands
  bind,     \* the permission revision it was made under
  aborted,  \* runs whose abort signal has fired
  now,      \* wall clock
  runs,     \* history: how often the operation behind a record was started
  granted,  \* history: records a person or the policy approved
  vetoed    \* history: records denied, cancelled, expired or orphaned by a restart

vars == <<rec, call, bind, aborted, now, runs, granted, vetoed>>

ASSUME GateAssumption ==
  /\ RecOf \in [Calls -> Recs]
  /\ AutoApproved \subseteq Recs \X Bindings
  /\ Ttl \in Nat /\ Early \in Nat /\ MaxTime \in Nat
  /\ NoKey \notin Keys /\ NoBinding \notin Bindings

Open == {"pending", "approved"}
Started == {"executing", "succeeded", "uncertain"}
Statuses == Open \union Started \union {"none", "rejected", "invalidated", "expired"}
Record == [status : Statuses, consumed : BOOLEAN, expiry : 0..MaxTime,
           binding : Bindings \union {NoBinding}, key : Keys \union {NoKey}]

Existing == {r \in Recs : rec[r].status # "none"}
Waiters(S) == {c \in Calls : call[c] = "waiting" /\ RecOf[c] \in S}
Move(S, to) == [c \in Calls |-> IF c \in S THEN to ELSE call[c]]

Init ==
  /\ rec = [r \in Recs |-> [status |-> "none", consumed |-> FALSE, expiry |-> 0,
                            binding |-> NoBinding, key |-> NoKey]]
  /\ bind = [c \in Calls |-> NoBinding]
  /\ call = [c \in Calls |-> "idle"]
  /\ aborted = {}
  /\ now = 0
  /\ runs = [r \in Recs |-> 0]
  /\ granted = {}
  /\ vetoed = {}

-----------------------------------------------------------------------------
(* The statements of the store *)

\* claimApproval's WHERE clause
Claimable(x, b) ==
  /\ x.status = "approved"
  /\ ~x.consumed
  /\ x.binding = b
  /\ x.expiry > now

Claimed(x) == [x EXCEPT !.status = "executing", !.consumed = TRUE]

Due(x) == x.status \in Open /\ x.expiry <= now

\* expireApproval
Expired(x) == IF Due(x) THEN [x EXCEPT !.status = "expired"] ELSE x

Mut_Cancelled(x) == IF x.status \in Open \union {"executing"}
                    THEN [x EXCEPT !.status = "invalidated"] ELSE x

\* invalidateApprovalsForConversation, invalidateApprovalsForOwner
Cancelled(x) ==
  IF x.status = "executing" THEN [x EXCEPT !.status = "uncertain"]
  ELSE IF x.status \in Open THEN [x EXCEPT !.status = "invalidated"]
  ELSE x

Mut_Decided(R, r, d, k) == [R EXCEPT ![r].key = k, ![r].status = d]

\* decideApproval on a pending record: a denial also invalidates its batch
Decided(R, r, d, k) ==
  [q \in Recs |->
     IF q = r THEN [R[q] EXCEPT !.status = d, !.key = k]
     ELSE IF d = "rejected" /\ Batch[q] = Batch[r] /\ R[q].status \in Open
     THEN [R[q] EXCEPT !.status = "invalidated"]
     ELSE R[q]]


Mut_Resumed(x) ==
  IF x.status = "executing"
  THEN [x EXCEPT !.status = "pending", !.consumed = FALSE] ELSE x

\* The constructor's statement on a restart
Orphaned(x) ==
  IF x.status \in Open \union {"executing"}
  THEN [x EXCEPT !.status = "uncertain", !.consumed = TRUE] ELSE x

-----------------------------------------------------------------------------
(* A tool call *)

CancelAll ==
  /\ rec' = [r \in Recs |-> Cancelled(rec[r])]
  /\ vetoed' = vetoed \union Existing

\* The loop of waitAndClaim up to its await, on the table R
WaitAndClaim(c, b, R) ==
  LET r == RecOf[c]
      x == R[r]
  IN
  \/ /\ Claimable(x, b)
     /\ rec' = [R EXCEPT ![r] = Claimed(x)]
     /\ runs' = [runs EXCEPT ![r] = @ + 1]
     /\ call' = [call EXCEPT ![c] = "running"]
     /\ UNCHANGED vetoed
  \/ /\ ~Claimable(x, b)
     /\ x.status \notin Open \/ Due(x)
     /\ rec' = [R EXCEPT ![r] = Expired(x)]
     /\ vetoed' = IF Due(x) THEN vetoed \union {r} ELSE vetoed
     /\ call' = [call EXCEPT ![c] = "done"]
     /\ UNCHANGED runs
  \/ /\ ~Claimable(x, b)
     /\ x.status \in Open /\ ~Due(x)
     /\ RunOf[r] \notin aborted
     /\ rec' = R
     /\ call' = [call EXCEPT ![c] = "waiting"]
     /\ UNCHANGED <<runs, vetoed>>
  \/ /\ ~Claimable(x, b)
     /\ x.status \in Open /\ ~Due(x)
     /\ RunOf[r] \in aborted
     /\ rec' = [q \in Recs |-> Cancelled(R[q])]
     /\ vetoed' = vetoed \union Existing \union {r}
     /\ call' = [call EXCEPT ![c] = "done"]
     /\ UNCHANGED runs

Mut_BindingChanged(r, b) == FALSE

\* execute refuses a record made under another permission revision
BindingChanged(r, b) == rec[r].status # "none" /\ rec[r].binding # b

\* create.  The request's own expiry may cut the lifetime short, down to a request
\* that has expired already.
NewRecord(r, b, e) ==
  [status |-> IF <<r, b>> \in AutoApproved THEN "approved" ELSE "pending",
   consumed |-> FALSE, expiry |-> e, binding |-> b, key |-> NoKey]

CallRefused(c, b, e) ==
  /\ BindingChanged(RecOf[c], b) \/ (RecOf[c] \notin Existing /\ e <= now)
  /\ call' = [call EXCEPT ![c] = "done"]
  /\ UNCHANGED <<rec, runs, granted, vetoed>>

CallNew(c, b, e) ==
  LET r == RecOf[c] IN
  /\ r \notin Existing
  /\ e > now
  /\ granted' = IF <<r, b>> \in AutoApproved THEN granted \union {r} ELSE granted
  /\ WaitAndClaim(c, b, [rec EXCEPT ![r] = NewRecord(r, b, e)])

CallAgain(c, b) ==
  /\ RecOf[c] \in Existing
  /\ ~BindingChanged(RecOf[c], b)
  /\ WaitAndClaim(c, b, rec)
  /\ UNCHANGED granted

\* execute, up to its first await
Call(c, b, e) ==
  /\ call[c] = "idle"
  /\ bind' = [bind EXCEPT ![c] = b]
  /\ CallRefused(c, b, e) \/ CallNew(c, b, e) \/ CallAgain(c, b)
  /\ UNCHANGED <<aborted, now>>

\* A waiter that was resolved reads the record again
Continue(c) ==
  /\ call[c] = "woken"
  /\ WaitAndClaim(c, bind[c], rec)
  /\ UNCHANGED <<bind, aborted, now, granted>>

Mut_FinishAny(x, ok) == [x EXCEPT !.status = IF ok THEN "succeeded" ELSE "uncertain"]

\* finishApproval: an operation that throws may have happened all the same
FinishStatus(x, ok) ==
  IF x.status = "executing"
  THEN [x EXCEPT !.status = IF ok THEN "succeeded" ELSE "uncertain"] ELSE x

Finish(c, ok) ==
  /\ call[c] = "running"
  /\ rec' = [rec EXCEPT ![RecOf[c]] = FinishStatus(@, ok)]
  /\ call' = [call EXCEPT ![c] = "done"]
  /\ UNCHANGED <<bind, aborted, now, runs, granted, vetoed>>

Mut_TimerLive(c) == rec[RecOf[c]].status = "pending"

\* Nothing disarms the timer of a waiter but settling the waiter
TimerLive(c) == call[c] = "waiting"

\* The timeout of waitForDecision
Timer(c) ==
  LET r == RecOf[c] IN
  /\ call[c] = "waiting"
  /\ TimerLive(c)
  /\ now + Early >= rec[r].expiry
  /\ rec' = [rec EXCEPT ![r] = Expired(@)]
  /\ vetoed' = IF Due(rec[r]) THEN vetoed \union {r} ELSE vetoed
  /\ call' = Move(Waiters({r}), "done")
  /\ UNCHANGED <<bind, aborted, now, runs, granted>>

\* The abort signal of a run: each of its waiters invalidates the whole
\* conversation, and wakes only those who wait for its own record
Abort(g) ==
  LET mine == {r \in Recs : RunOf[r] = g /\ Waiters({r}) # {}} IN
  /\ g \notin aborted
  /\ aborted' = aborted \union {g}
  /\ call' = Move(Waiters(mine), "done")
  /\ IF mine # {} THEN CancelAll ELSE UNCHANGED <<rec, vetoed>>
  /\ UNCHANGED <<bind, now, runs, granted>>

-----------------------------------------------------------------------------
(* What the client asks for *)

DueRecs == {r \in Recs : Due(rec[r])}
AfterExpiry == [r \in Recs |-> Expired(rec[r])]

\* list, and a decision that is refused: both begin with expireDue
List ==
  /\ rec' = AfterExpiry
  /\ vetoed' = vetoed \union DueRecs
  /\ call' = Move(Waiters(DueRecs), "done")
  /\ UNCHANGED <<bind, aborted, now, runs, granted>>

\* decide's last two lines: a rejection settles the waiters of the whole batch
Answer(r, status) ==
  LET told == IF status = "rejected" THEN {q \in Recs : Batch[q] = Batch[r]} ELSE {r}
      to == IF status = "approved" THEN "woken" ELSE "done"
  IN call' = [c \in Calls |->
                IF c \in Waiters(DueRecs) THEN "done"
                ELSE IF c \in Waiters(told) THEN to ELSE call[c]]

Decide(r, d, k) ==
  /\ AfterExpiry[r].status = "pending"
  /\ rec' = Decided(AfterExpiry, r, d, k)
  /\ Answer(r, d)
  /\ granted' = IF d = "approved" THEN granted \union {r} ELSE granted
  /\ vetoed' = vetoed \union DueRecs \union
                 (IF d = "rejected" THEN {q \in Existing : Batch[q] = Batch[r]} ELSE {})
  /\ UNCHANGED <<bind, aborted, now, runs>>

\* A decision made once more: the same key on a decided record, or the same answer
Repeats(x, d, k) ==
  \/ x.status = d
  \/ x.key = k /\ d = "approved" /\ x.status \in Started

Repeat(r, d, k) ==
  /\ Repeats(AfterExpiry[r], d, k)
  /\ rec' = AfterExpiry
  /\ Answer(r, AfterExpiry[r].status)
  /\ vetoed' = vetoed \union DueRecs
  /\ UNCHANGED <<bind, aborted, now, runs, granted>>

\* cancelConversation, cancelOwner
Cancel ==
  /\ CancelAll
  /\ call' = Move(Waiters(Recs), "done")
  /\ UNCHANGED <<bind, aborted, now, runs, granted>>

\* clear
Clear ==
  /\ call' = Move(Waiters(Recs), "done")
  /\ UNCHANGED <<rec, bind, aborted, now, runs, granted, vetoed>>

\* The process ends with whatever it held in memory, and a new one opens the database
Restart ==
  /\ rec' = [r \in Recs |-> Orphaned(rec[r])]
  /\ vetoed' = vetoed \union Existing
  /\ call' = Move({c \in Calls : call[c] # "idle"}, "done")
  /\ UNCHANGED <<bind, aborted, now, runs, granted>>

Tick ==
  /\ now < MaxTime
  /\ now' = now + 1
  /\ UNCHANGED <<rec, call, bind, aborted, runs, granted, vetoed>>

CallNext ==
  \E c \in Calls :
    \/ \E b \in Bindings, e \in now..MaxTime : e <= now + Ttl /\ Call(c, b, e)
    \/ Continue(c)
    \/ \E ok \in BOOLEAN : Finish(c, ok)
    \/ Timer(c)

ClientNext ==
  \/ List
  \/ \E r \in Recs, d \in {"approved", "rejected"}, k \in Keys : Decide(r, d, k) \/ Repeat(r, d, k)
  \/ Cancel
  \/ \E r \in Recs : Abort(RunOf[r])

Next == CallNext \/ ClientNext \/ Clear \/ Restart \/ Tick

Spec == Init /\ [][Next]_vars

\* Time passes, a due timer fires and a resolved promise continues
FairSpec ==
  /\ Spec
  /\ WF_vars(Tick)
  /\ \A c \in Calls : WF_vars(Timer(c)) /\ WF_vars(Continue(c))
-----------------------------------------------------------------------------
(* Properties *)

\* The tables and the calls' states have the shape the code gives them.
TypeOK ==
  /\ rec \in [Recs -> Record]
  /\ call \in [Calls -> {"idle", "waiting", "woken", "running", "done"}]
  /\ bind \in [Calls -> Bindings \union {NoBinding}]
  /\ aborted \subseteq {RunOf[r] : r \in Recs}
  /\ now \in 0..MaxTime
  /\ runs \in [Recs -> Nat]
  /\ granted \subseteq Recs
  /\ vetoed \subseteq Recs

\* An approval is consumed once: however many calls wait for a record, however
\* often a decision is repeated, and across restarts, the operation behind it is
\* started at most once (claimApproval).
SingleUse == \A r \in Recs : runs[r] <= 1

\* Once an operation was started its record never says that it was not: it is
\* executing, succeeded or uncertain, whatever cancels, denies, expires or restarts
\* meanwhile; and a record that says so was started.
StartedReported ==
  \A r \in Recs :
    /\ runs[r] > 0 => rec[r].status \in Started
    /\ rec[r].status \in {"executing", "succeeded"} => runs[r] > 0

\* A record is executing only while a call of this process executes it, so a record
\* cannot be left executing by a crash, a cancellation or an abort.
ExecutingHasCall ==
  \A r \in Recs : rec[r].status = "executing" =>
    \E c \in Calls : RecOf[c] = r /\ call[c] = "running"

\* An operation starts only with an approval that was given to that record, has not
\* lapsed, was given under the permission revision of the call, and was not taken
\* back by a denial in its batch, a cancellation, an abort, an expiry or a restart,
\* even when the call was already resolved by the approval and had yet to claim it.
StartsAsApproved ==
  [][\A c \in Calls : call[c] # "running" /\ call'[c] = "running" =>
       LET r == RecOf[c] IN
       /\ r \in granted'
       /\ r \notin vetoed
       /\ now < rec'[r].expiry
       /\ rec'[r].binding = bind'[c]]_vars

\* A request that was settled stays settled: no decision, call, timer or restart
\* gives it another status.
Terminal == {"succeeded", "uncertain", "rejected", "invalidated", "expired"}
SettledForever ==
  [][\A r \in Recs : rec[r].status \in Terminal => rec'[r] = rec[r]]_vars

\* A tool call that waits for a decision does not wait for ever: a decision, an abort,
\* a restart or at the latest its own timer ends the wait, also when the record it
\* waits for has been settled by a sibling's decision or a cancellation.
WaitEnds ==
  \A c \in Calls : call[c] = "waiting" ~> call[c] \in {"running", "done"}

\* decideApproval's comment: "A repeated decision with the same idempotency key is a
\* safe replay".  Read as: repeating a decision does not end the wait of a call
\* whose own request is still pending.
ReplayIsSafe ==
  [][\A r \in Recs, d \in {"approved", "rejected"}, k \in Keys :
       Repeat(r, d, k) /\ rec[r].key = k =>
         \A c \in Calls : call[c] = "waiting" /\ rec'[RecOf[c]].status = "pending"
                             => call'[c] = "waiting"]_vars

\* The inductive invariant behind the safety properties: a record that can still be
\* claimed is neither consumed nor vetoed, a call that waits or runs has a record of
\* its own binding, and at most one call runs for a record.
GateInv ==
  /\ TypeOK
  /\ SingleUse
  /\ StartedReported
  /\ ExecutingHasCall
  /\ \A r \in Recs :
       /\ rec[r].status \in Open => r \notin vetoed
       /\ rec[r].status = "approved" => r \in granted
       /\ rec[r].status = "none" => r \notin vetoed
  /\ \A c \in Calls : call[c] \in {"waiting", "woken", "running"} =>
       rec[RecOf[c]].status # "none" /\ rec[RecOf[c]].binding = bind[c]
  /\ \A c \in Calls : call[c] = "running" => rec[RecOf[c]].status \in Started
=============================================================================
