-------------------------- MODULE SessionHostProofs --------------------------
(* Proofs for SessionHost, for any number of calls of every kind.  The      *)
(* leaves that Zenon proves name it: the SMT solver's translation slows     *)
(* down with every obligation of a module, and is kept for the others.      *)
EXTENDS SessionHost, TLAPS

Promise == {None, "context", "ready", "reply", "disposed"} \X (Tasks \cup {None})

Call == [at : Phases, on : Promise, then : AfterDisposal, sess : Tasks \cup {None},
         active : BOOLEAN]

Flushing(t, then) == [task EXCEPT ![t].at = "flushing", ![t].then = then]

\* The updates of one call keep the calls well typed and leave the others alone.
LEMMA MovedCall ==
    ASSUME task \in [Tasks -> Call], NEW t \in Tasks, NEW at \in Phases
    PROVE  /\ Moved(t, at) \in [Tasks -> Call]
           /\ Moved(t, at)[t].at = at
           /\ \A u \in Tasks : u # t => Moved(t, at)[u] = task[u]
  <1>1. Fresh.on \in Promise
    BY Zenon DEF Fresh, Promise
  <1>2. QED
    BY <1>1, Zenon DEF Moved, Call

\* The same for a call that ends.
LEMMA EndedCall ==
    ASSUME task \in [Tasks -> Call], NEW t \in Tasks
    PROVE  /\ Ended(t) \in [Tasks -> Call]
           /\ Ended(t)[t].at = "done"
           /\ \A u \in Tasks : u # t => Ended(t)[u] = task[u]
  <1>1. [Fresh EXCEPT !.at = "done"] \in Call
    BY Zenon DEF Fresh, Call, Promise, Phases, AfterDisposal
  <1>2. [Fresh EXCEPT !.at = "done"].at = "done"
    BY Zenon DEF Fresh
  <1>3. QED
    BY <1>1, <1>2, Zenon DEF Ended

\* The same for a call that awaits a promise.
LEMMA BlockedCall ==
    ASSUME task \in [Tasks -> Call], NEW t \in Tasks, NEW at \in Phases,
           NEW promise \in Promise
    PROVE  /\ Blocked(t, promise, at) \in [Tasks -> Call]
           /\ Blocked(t, promise, at)[t].at = at
           /\ Blocked(t, promise, at)[t].on = promise
           /\ \A u \in Tasks : u # t => Blocked(t, promise, at)[u] = task[u]
  BY Zenon DEF Blocked, Call

\* The same for a call that gets a session.
LEMMA HoldingCall ==
    ASSUME task \in [Tasks -> Call], NEW t \in Tasks, NEW at \in Phases,
           NEW sess \in Tasks \cup {None}
    PROVE  /\ Holding(t, at, sess) \in [Tasks -> Call]
           /\ Holding(t, at, sess)[t].at = at
           /\ \A u \in Tasks : u # t => Holding(t, at, sess)[u] = task[u]
  BY Zenon DEF Holding, Call

\* The same for a call that disposes the session.
LEMMA FlushingCall ==
    ASSUME task \in [Tasks -> Call], NEW t \in Tasks, NEW then \in AfterDisposal
    PROVE  /\ Flushing(t, then) \in [Tasks -> Call]
           /\ Flushing(t, then)[t].at = "flushing"
           /\ Flushing(t, then)[t].then = then
           /\ \A u \in Tasks : u # t => Flushing(t, then)[u] = task[u]
  <1>1. "flushing" \in Phases
    BY Zenon DEF Phases
  <1>2. QED
    BY <1>1, Zenon DEF Flushing, Call

\* The type invariant in the words of this module.
LEMMA TypedCalls == TypeOK => task \in [Tasks -> Call]
  BY Zenon DEF TypeOK, Call, Promise

\* A step of t that leaves the prompt fields of the record alone, and does not
\* make t an active prompt, keeps the invariant.
LEMMA QuietStep ==
    ASSUME RecordInv, NEW t \in Tasks, TypeOK',
           rec'.prompting = rec.prompting, rec'.ready = rec.ready,
           rec'.reply = rec.reply,
           \A u \in Tasks : u # t => task'[u] = task[u],
           t \in Prompts /\ Active(t)' => Active(t),
           t \in Prompts /\ task'[t].at = "running" => task[t].at = "running",
           t \in Prompts /\ task'[t].at = "flushing" => task'[t].then = "end",
           task'[t].at \in {"joined", "stop"} => task'[t].on[2] \in Prompts
    PROVE  RecordInv'
  <1>1. Prompts \subseteq Tasks
    BY Zenon DEF Tasks
  <1>2. \A p \in Prompts : Active(p)' => Active(p)
    BY <1>1, Zenon DEF Active
  <1>3. \A p \in Prompts : task'[p].at = "running" => task[p].at = "running"
    BY <1>1, Zenon
  <1>4. \A p \in Prompts : task'[p].at = "flushing" => task'[p].then = "end"
    BY <1>1, Zenon DEF RecordInv
  <1>5. \A u \in Tasks :
            task'[u].at \in {"joined", "stop"} => task'[u].on[2] \in Prompts
    BY Zenon DEF RecordInv
  <1>6. QED
    BY <1>2, <1>3, <1>4, <1>5, Zenon DEF RecordInv

\* disposeSession touches neither the prompt fields nor another call.
LEMMA DisposeStep ==
    ASSUME RecordInv, NEW t \in Tasks, NEW then \in AfterDisposal, DisposeSession(t, then),
           UNCHANGED <<there, live>>, t \in Prompts => then = "end"
    PROVE  RecordInv'
  <1>1. task \in [Tasks -> Call]
    BY TypedCalls, Zenon DEF RecordInv
  <1>2. <<"disposed", None>> \in Promise
    BY Zenon DEF Promise
  <1>3. then \in Phases
    BY Zenon DEF AfterDisposal, Phases
  <1>4. /\ task' \in [Tasks -> Call]
        /\ \/ task'[t].at = then
           \/ task'[t].at = "flushing" /\ task'[t].then = then
        /\ \A u \in Tasks : u # t => task'[u] = task[u]
    <2>1. CASE task' = Blocked(t, <<"disposed", None>>, then)
      BY <1>1, <1>2, <1>3, <2>1, BlockedCall
    <2>2. CASE task' = Flushing(t, then)
      BY <1>1, <2>2, FlushingCall, Zenon
    <2>3. CASE task' = Moved(t, then)
      BY <1>1, <1>3, <2>3, MovedCall, Zenon
    <2>4. QED
      BY <2>1, <2>2, <2>3, Zenon DEF DisposeSession, Flushing
  <1>5. rec' = rec \/ rec' = [rec EXCEPT !.disposing = TRUE]
    BY Zenon DEF DisposeSession
  <1>6. /\ rec'.prompting = rec.prompting
        /\ rec'.ready = rec.ready
        /\ rec'.reply = rec.reply
        /\ TypeOK'
    BY <1>4, <1>5, Zenon DEF RecordInv, TypeOK, Call, Promise
  <1>7. t \in Prompts /\ Active(t)' => Active(t)
    BY <1>4, Zenon DEF Active
  <1>8. t \in Prompts => /\ task'[t].at # "running"
                         /\ task'[t].at = "flushing" => task'[t].then = "end"
    BY <1>4, Zenon
  <1>9. task'[t].at \notin {"joined", "stop"}
    BY <1>4, Zenon DEF AfterDisposal
  <1>10. QED
    BY <1>4, <1>6, <1>7, <1>8, <1>9, QuietStep, Zenon

\* A step that moves one call and leaves the record alone.
LEMMA MoveStep ==
    ASSUME RecordInv, NEW t \in Tasks, UNCHANGED <<rec, there, live>>,
           task' \in [Tasks -> Call],
           \A u \in Tasks : u # t => task'[u] = task[u],
           t \in Prompts /\ Active(t)' => Active(t),
           t \in Prompts /\ task'[t].at = "running" => task[t].at = "running",
           t \in Prompts /\ task'[t].at = "flushing" => task'[t].then = "end",
           task'[t].at \in {"joined", "stop"} => task'[t].on[2] \in Prompts
    PROVE  RecordInv'
  <1>1. TypeOK'
    BY Zenon DEF RecordInv, TypeOK, Call, Promise
  <1>2. QED
    BY <1>1, QuietStep, Zenon

\* The record changes in other fields than those of the prompts.
LEMMA FieldStep ==
    ASSUME RecordInv, NEW t \in Tasks, UNCHANGED there, live' \subseteq Tasks,
           rec' \in [session : Tasks \cup {None}, loader : BOOLEAN,
                     prompting : {rec.prompting}, aborting : BOOLEAN,
                     ready : {rec.ready}, reply : {rec.reply},
                     context : Ops \cup {None}, disposing : BOOLEAN],
           task' \in [Tasks -> Call],
           \A u \in Tasks : u # t => task'[u] = task[u],
           t \in Prompts /\ Active(t)' => Active(t),
           t \in Prompts /\ task'[t].at = "running" => task[t].at = "running",
           t \in Prompts /\ task'[t].at = "flushing" => task'[t].then = "end",
           task'[t].at \in {"joined", "stop"} => task'[t].on[2] \in Prompts
    PROVE  RecordInv'
  <1>1. TypeOK'
    BY Zenon DEF RecordInv, TypeOK, Call, Promise
  <1>2. QED
    BY <1>1, QuietStep, Zenon

\* ensureSession and disposeSession's end.
LEMMA EnsureStep ==
    ASSUME RecordInv, NEW t \in Tasks,
           EnsureSession(t) \/ Flushed(t) \/ Captured(t) \/ End(t)
    PROVE  RecordInv'
  <1>1. task \in [Tasks -> Call]
    BY TypedCalls, Zenon DEF RecordInv
  <1>2. /\ Using(t) \in Phases /\ Using(t) \notin {"joined", "stop"}
        /\ {"look", "build", "end", "done"} \subseteq Phases
        /\ {"look", "end"} \subseteq AfterDisposal
    BY Zenon DEF Using, Phases, AfterDisposal
  <1>3. t \in Prompts => Using(t) = "ready"
    BY Zenon DEF Using
  <1>4. CASE Inspect(t)
    <2>1. CASE task' = Moved(t, "look") /\ UNCHANGED rec
      BY <1>1, <1>2, <1>4, <2>1, MovedCall, MoveStep DEF Inspect, Active
    <2>2. CASE Idle /\ DisposeSession(t, "look")
      <3>1. t \notin Prompts
        BY <1>4, <2>2, Zenon DEF Inspect, Active, RecordInv, Idle
      <3>2. QED
        BY <1>2, <1>4, <2>2, <3>1, DisposeStep, Zenon DEF Inspect
    <2>3. QED
      BY <1>4, <2>1, <2>2, Zenon DEF Inspect
  <1>5. CASE Look(t)
    <2>1. task[t].at = "look" /\ UNCHANGED <<there, live>>
      BY <1>5, Zenon DEF Look
    <2>2. CASE rec.session # None
      <3>1. rec.session \in Tasks \cup {None}
        BY Zenon DEF RecordInv, TypeOK
      <3>2. /\ task' = Holding(t, Using(t), rec.session)
            /\ UNCHANGED rec
        BY <1>5, <2>2, Zenon DEF Look
      <3>3. /\ task' \in [Tasks -> Call] /\ task'[t].at = Using(t)
            /\ \A u \in Tasks : u # t => task'[u] = task[u]
        BY <1>1, <1>2, <3>1, <3>2, HoldingCall
      <3>4. t \in Prompts => Active(t) /\ task'[t].at = "ready"
        BY <1>3, <2>1, <3>3, Zenon DEF Active
      <3>5. QED
        BY <1>2, <2>1, <3>2, <3>3, <3>4, MoveStep, Zenon
    <2>3. CASE rec.session = None
      <3>1. task' = Moved(t, "build") /\ rec' = [rec EXCEPT !.loader = TRUE]
        BY <1>5, <2>3, Zenon DEF Look
      <3>2. rec' \in [session : Tasks \cup {None}, loader : BOOLEAN,
                      prompting : {rec.prompting}, aborting : BOOLEAN,
                      ready : {rec.ready}, reply : {rec.reply},
                      context : Ops \cup {None}, disposing : BOOLEAN]
        BY <3>1, Zenon DEF RecordInv, TypeOK
      <3>3. live' \subseteq Tasks
        BY <2>1, Zenon DEF RecordInv, TypeOK
      <3>4. /\ task' \in [Tasks -> Call] /\ task'[t].at = "build"
            /\ \A u \in Tasks : u # t => task'[u] = task[u]
        BY <1>1, <1>2, <3>1, MovedCall
      <3>5. t \in Prompts => Active(t)
        BY <2>1, Zenon DEF Active
      <3>6. QED
        BY <2>1, <3>2, <3>3, <3>4, <3>5, FieldStep, Zenon
    <2>4. QED
      BY <2>2, <2>3, Zenon
  <1>6. CASE Built(t)
    <2>1. /\ task' = Holding(t, Using(t), t)
          /\ rec' = [rec EXCEPT !.session = t]
          /\ live' = live \cup {t} /\ there' = there
          /\ task[t].at = "build"
      BY <1>6, Zenon DEF Built
    <2>2. rec' \in [session : Tasks \cup {None}, loader : BOOLEAN,
                    prompting : {rec.prompting}, aborting : BOOLEAN,
                    ready : {rec.ready}, reply : {rec.reply},
                    context : Ops \cup {None}, disposing : BOOLEAN]
      BY <2>1, Zenon DEF RecordInv, TypeOK
    <2>3. live' \subseteq Tasks
      BY <2>1, Zenon DEF RecordInv, TypeOK
    <2>4. /\ task' \in [Tasks -> Call] /\ task'[t].at = Using(t)
          /\ \A u \in Tasks : u # t => task'[u] = task[u]
      BY <1>1, <1>2, <2>1, HoldingCall
    <2>5. t \in Prompts => Active(t) /\ task'[t].at = "ready"
      BY <1>3, <2>1, <2>4, Zenon DEF Active
    <2>6. QED
      BY <1>2, <2>1, <2>2, <2>3, <2>4, <2>5, FieldStep, Zenon
  <1>7. CASE BuildFails(t)
    BY <1>1, <1>2, <1>3, <1>7, MovedCall, MoveStep DEF BuildFails, Active
  <1>8. CASE Flushed(t)
    <2>1. /\ task' = Moved(t, task[t].then) /\ task[t].at = "flushing"
          /\ rec' = [rec EXCEPT !.session = None, !.loader = FALSE,
                                !.disposing = FALSE]
          /\ live' = live \ {rec.session} /\ there' = there
      BY <1>8, Zenon DEF Flushed
    <2>2. rec' \in [session : Tasks \cup {None}, loader : BOOLEAN,
                    prompting : {rec.prompting}, aborting : BOOLEAN,
                    ready : {rec.ready}, reply : {rec.reply},
                    context : Ops \cup {None}, disposing : BOOLEAN]
      BY <2>1, Zenon DEF RecordInv, TypeOK
    <2>3. live' \subseteq Tasks
      BY <2>1, Zenon DEF RecordInv, TypeOK
    <2>4. task[t].then \in AfterDisposal /\ task[t].then \in Phases
      BY <1>1, Zenon DEF Call, AfterDisposal, Phases
    <2>5. /\ task' \in [Tasks -> Call] /\ task'[t].at = task[t].then
          /\ \A u \in Tasks : u # t => task'[u] = task[u]
      BY <1>1, <2>1, <2>4, MovedCall, Zenon
    <2>6. /\ t \in Prompts => task'[t].at = "end"
          /\ task'[t].at \notin {"joined", "stop"}
      BY <2>1, <2>4, <2>5, Zenon DEF RecordInv, AfterDisposal
    <2>7. QED
      BY <2>1, <2>2, <2>3, <2>5, <2>6, FieldStep, Zenon DEF Active
  <1>9. CASE Captured(t)
    BY <1>2, <1>9, DisposeStep, Zenon DEF Captured
  <1>10. CASE End(t)
    BY <1>1, <1>10, EndedCall, MoveStep, Zenon DEF End, Active
  <1>11. QED
    BY <1>4, <1>5, <1>6, <1>7, <1>8, <1>9, <1>10, Zenon DEF EnsureSession

\* The calls that are not prompts.
LEMMA OtherStep ==
    ASSUME RecordInv, NEW t \in Tasks, t \notin Prompts,
           task' \in [Tasks -> Call],
           \A u \in Tasks : u # t => task'[u] = task[u],
           task'[t].at \in {"joined", "stop"} => task'[t].on[2] \in Prompts,
           there' \in BOOLEAN, UNCHANGED live,
           \/ UNCHANGED rec
           \/ rec' = [rec EXCEPT !.aborting = TRUE]
           \/ \E o \in Ops \cup {None} : rec' = [rec EXCEPT !.context = o]
    PROVE  RecordInv'
  <1>1. /\ rec'.prompting = rec.prompting
        /\ rec'.ready = rec.ready
        /\ rec'.reply = rec.reply
        /\ TypeOK'
    BY Zenon DEF RecordInv, TypeOK, Call, Promise
  <1>2. QED
    BY <1>1, QuietStep, Zenon

\* promptParticipant.
LEMMA PromptKeeps ==
    ASSUME RecordInv, NEW t \in Prompts, Arrive(t) \/ PromptStep(t)
    PROVE  RecordInv'
  <1>1. task \in [Tasks -> Call] /\ t \in Tasks /\ Prompts \subseteq Tasks
    BY TypedCalls, Zenon DEF RecordInv, Tasks
  <1>2. {"enter", "init", "running", "settling", "capturing"} \subseteq Phases
    BY Zenon DEF Phases
  <1>3. CASE Arrive(t)
    <2>1. rec.context \in Ops \cup {None}
      BY Zenon DEF RecordInv, TypeOK
    <2>2. <<"context", rec.context>> \in Promise
      BY <2>1, Zenon DEF Promise, Tasks
    <2>3. \/ task' = Moved(t, "enter")
          \/ task' = Blocked(t, <<"context", rec.context>>, "enter")
      BY <1>3, Zenon DEF Arrive
    <2>4. /\ task' \in [Tasks -> Call] /\ task'[t].at = "enter"
          /\ \A u \in Tasks : u # t => task'[u] = task[u]
      BY <1>1, <1>2, <2>2, <2>3, MovedCall, BlockedCall
    <2>5. UNCHANGED <<rec, there, live>>
      BY <1>3, Zenon DEF Arrive
    <2>6. ~Active(t)'
      BY <2>4, Zenon DEF Active
    <2>7. QED
      BY <1>1, <2>4, <2>5, <2>6, MoveStep, Zenon
  <1>4. CASE Begin(t)
    <2>1. CASE rec.prompting
      <3>1. task' = Ended(t) /\ UNCHANGED <<rec, there, live>>
        BY <1>4, <2>1, Zenon DEF Begin
      <3>2. QED
        BY <1>1, <3>1, EndedCall, MoveStep, Zenon DEF Active
    <2>2. CASE ~rec.prompting
      <3>1. /\ task' = Moved(t, "init") /\ UNCHANGED <<there, live>>
            /\ rec' = [rec EXCEPT !.prompting = TRUE, !.aborting = FALSE,
                                  !.ready = t]
        BY <1>4, <2>2, Zenon DEF Begin
      <3>2. /\ task' \in [Tasks -> Call] /\ task'[t].at = "init"
            /\ \A u \in Tasks : u # t => task'[u] = task[u]
        BY <1>1, <1>2, <3>1, MovedCall, Zenon
      <3>3. rec'.prompting /\ rec'.ready = t /\ rec'.reply = rec.reply /\ TypeOK'
        BY <3>1, <3>2, Zenon DEF RecordInv, TypeOK, Call, Promise
      <3>4. \A p \in Prompts : p # t => ~Active(p)
        BY <2>2, Zenon DEF RecordInv
      <3>5. \A p \in Prompts : p # t => ~Active(p)' /\ task'[p].at # "running"
        BY <1>1, <3>2, <3>4, Zenon DEF Active
      <3>6. \A p \in Prompts : task'[p].at = "flushing" => task'[p].then = "end"
        BY <1>1, <3>2, Zenon DEF RecordInv
      <3>7. \A u \in Tasks :
                task'[u].at \in {"joined", "stop"} => task'[u].on[2] \in Prompts
        BY <3>2, Zenon DEF RecordInv
      <3>8. QED
        BY <3>2, <3>3, <3>5, <3>6, <3>7, Zenon DEF RecordInv
    <2>3. QED
      BY <2>1, <2>2, Zenon
  <1>5. CASE Ready(t)
    <2>1. /\ task[t].at = "ready" /\ UNCHANGED <<there, live>>
          /\ \/ task' = Moved(t, "settling") /\ UNCHANGED rec
             \/ task' = Moved(t, "running") /\ rec' = [rec EXCEPT !.reply = t]
      BY <1>5, Zenon DEF Ready
    <2>2. Active(t) /\ \A p \in Prompts : Active(p) => p = t
      BY <2>1, Zenon DEF Active, RecordInv
    <2>3. CASE task' = Moved(t, "settling") /\ UNCHANGED rec
      BY <1>1, <1>2, <2>1, <2>2, <2>3, MovedCall, MoveStep
    <2>4. CASE task' = Moved(t, "running") /\ rec' = [rec EXCEPT !.reply = t]
      <3>1. /\ task' \in [Tasks -> Call] /\ task'[t].at = "running"
            /\ \A u \in Tasks : u # t => task'[u] = task[u]
        BY <1>1, <1>2, <2>4, MovedCall, Zenon
      <3>2. /\ rec'.prompting = rec.prompting /\ rec'.ready = rec.ready
            /\ rec'.reply = t /\ TypeOK'
        BY <2>1, <2>4, <3>1, Zenon DEF RecordInv, TypeOK, Call, Promise
      <3>3. \A p \in Prompts : Active(p)' => p = t
        BY <1>1, <2>2, <3>1, Zenon DEF Active
      <3>4. \A p \in Prompts : task'[p].at = "running" => p = t
        BY <3>3, Zenon DEF Active
      <3>5. rec.prompting /\ rec.ready = t
        BY <2>2, Zenon DEF RecordInv
      <3>6. \A p \in Prompts : task'[p].at = "flushing" => task'[p].then = "end"
        BY <1>1, <3>1, Zenon DEF RecordInv
      <3>7. \A u \in Tasks :
                task'[u].at \in {"joined", "stop"} => task'[u].on[2] \in Prompts
        BY <3>1, Zenon DEF RecordInv
      <3>8. QED
        BY <3>2, <3>3, <3>4, <3>5, <3>6, <3>7, Zenon DEF RecordInv
    <2>5. QED
      BY <2>1, <2>3, <2>4, Zenon
  <1>6. CASE RunEnds(t)
    <2>1. /\ task[t].at = "running" /\ task' = Moved(t, "settling")
          /\ UNCHANGED <<rec, there, live>>
      BY <1>6, Zenon DEF RunEnds
    <2>2. QED
      BY <1>1, <1>2, <2>1, MovedCall, MoveStep, Zenon DEF Active
  <1>7. CASE Clear(t)
    <2>1. /\ task[t].at = "settling" /\ task' = Moved(t, "capturing")
          /\ rec' = [rec EXCEPT !.reply = None, !.ready = None,
                                !.prompting = FALSE, !.aborting = FALSE]
          /\ UNCHANGED <<there, live>>
      BY <1>7, Zenon DEF Clear
    <2>2. Active(t) /\ \A p \in Prompts : Active(p) => p = t
      BY <2>1, Zenon DEF Active, RecordInv
    <2>3. /\ task' \in [Tasks -> Call] /\ task'[t].at = "capturing"
          /\ \A u \in Tasks : u # t => task'[u] = task[u]
      BY <1>1, <1>2, <2>1, MovedCall, Zenon
    <2>4. TypeOK'
      BY <2>1, <2>3, Zenon DEF RecordInv, TypeOK, Call, Promise
    <2>5. \A p \in Prompts : ~Active(p)' /\ task'[p].at # "running"
      BY <1>1, <2>2, <2>3, Zenon DEF Active
    <2>6. \A p \in Prompts : task'[p].at = "flushing" => task'[p].then = "end"
      BY <1>1, <2>3, Zenon DEF RecordInv
    <2>7. \A u \in Tasks :
              task'[u].at \in {"joined", "stop"} => task'[u].on[2] \in Prompts
      BY <2>3, Zenon DEF RecordInv
    <2>8. QED
      BY <2>4, <2>5, <2>6, <2>7, Zenon DEF RecordInv
  <1>8. CASE EnsureSession(t) \/ Captured(t) \/ Flushed(t) \/ End(t)
    BY <1>1, <1>8, EnsureStep, Zenon
  <1>9. QED
    BY <1>3, <1>4, <1>5, <1>6, <1>7, <1>8, Zenon DEF PromptStep

\* A context operation's own steps.
LEMMA OpKeeps ==
    ASSUME RecordInv, NEW t \in Ops, t \notin Prompts, Request(t) \/ OpStep(t)
    PROVE  RecordInv'
  <1>1. task \in [Tasks -> Call] /\ t \in Tasks /\ Prompts \subseteq Tasks
    BY TypedCalls, Zenon DEF RecordInv, Tasks
  <1>2. /\ {"start", "init", "joined", "close", "retain", "retained", "check",
            "rewind", "release"} \subseteq Phases
        /\ {"rewind", "release"} \subseteq AfterDisposal
    BY Zenon DEF Phases, AfterDisposal
  <1>3. /\ rec.context \in Ops \cup {None} /\ rec.ready \in Prompts \cup {None}
        /\ rec.session \in Tasks \cup {None} /\ rec.prompting \in BOOLEAN
        /\ there \in BOOLEAN
    BY Zenon DEF RecordInv, TypeOK
  <1>4. <<"context", rec.context>> \in Promise /\ <<"ready", rec.ready>> \in Promise
    BY <1>3, Zenon DEF Promise, Tasks
  <1>5. CASE Request(t)
    <2>1. /\ \/ task' = Ended(t) \/ task' = Moved(t, "start")
             \/ \E promise \in Promise : task' = Blocked(t, promise, "start")
          /\ UNCHANGED rec \/ rec' = [rec EXCEPT !.context = t]
          /\ UNCHANGED <<there, live>>
      BY <1>4, <1>5, Zenon DEF Request
    <2>2. /\ task' \in [Tasks -> Call] /\ task'[t].at \in {"done", "start"}
          /\ \A u \in Tasks : u # t => task'[u] = task[u]
      BY <1>1, <1>2, <1>4, <2>1, MovedCall, EndedCall, BlockedCall
    <2>3. QED
      BY <1>1, <1>3, <2>1, <2>2, OtherStep, Zenon
  <1>6. CASE Release(t)
    <2>1. /\ task' = Ended(t) /\ UNCHANGED <<there, live>>
          /\ \E o \in Ops \cup {None} : rec' = [rec EXCEPT !.context = o]
      BY <1>3, <1>6, Zenon DEF Release, RecordInv, TypeOK
    <2>2. /\ task' \in [Tasks -> Call] /\ task'[t].at = "done"
          /\ \A u \in Tasks : u # t => task'[u] = task[u]
      BY <1>1, <2>1, EndedCall, Zenon
    <2>3. QED
      BY <1>1, <1>3, <2>1, <2>2, OtherStep, Zenon
  <1>7. CASE StartPoll(t)
    <2>1. UNCHANGED <<rec, there, live>>
      BY <1>7, Zenon DEF StartPoll
    <2>2. CASE \E at \in {"close", "release", "init"}, sess \in Tasks \cup {None} :
                 task' = [task EXCEPT ![t].at = at, ![t].sess = sess,
                                      ![t].active = rec.prompting]
      <3>1. PICK at \in {"close", "release", "init"}, sess \in Tasks \cup {None} :
                   task' = [task EXCEPT ![t].at = at, ![t].sess = sess,
                                        ![t].active = rec.prompting]
        BY <2>2, Zenon
      <3>2. at \in Phases
        BY <1>2, Zenon
      <3>3. /\ task' \in [Tasks -> Call] /\ task'[t].at = at
            /\ \A u \in Tasks : u # t => task'[u] = task[u]
        BY <1>1, <1>3, <3>1, <3>2 DEF Call
      <3>4. QED
        BY <1>1, <1>3, <2>1, <3>3, OtherStep, Zenon
    <2>3. CASE /\ rec.ready # None
               /\ task' = [[task EXCEPT ![t].at = "joined", ![t].sess = None,
                                        ![t].active = rec.prompting]
                             EXCEPT ![t].on = <<"ready", rec.ready>>]
      <3>1. PICK begun \in [Tasks -> Call] :
              /\ begun = [task EXCEPT ![t].at = "joined", ![t].sess = None,
                                      ![t].active = rec.prompting]
              /\ task' = [begun EXCEPT ![t].on = <<"ready", rec.ready>>]
        <4>1. [task EXCEPT ![t].at = "joined", ![t].sess = None,
                           ![t].active = rec.prompting] \in [Tasks -> Call]
          BY <1>1, <1>2, <1>3, Zenon DEF Call
        <4>2. QED
          BY <2>3, <4>1, Zenon
      <3>2. ASSUME NEW promise \in Promise, task' = [begun EXCEPT ![t].on = promise]
            PROVE  /\ task' \in [Tasks -> Call] /\ task'[t].on = promise
                   /\ \A u \in Tasks : u # t => task'[u] = begun[u]
        BY <1>1, <3>2, Zenon DEF Call
      <3>3. /\ task' \in [Tasks -> Call] /\ task'[t].on = <<"ready", rec.ready>>
            /\ \A u \in Tasks : u # t => task'[u] = begun[u]
        BY <1>4, <3>1, <3>2, Zenon
      <3>4. task'[t].on[2] \in Prompts
        BY <1>3, <2>3, <3>3
      <3>5. \A u \in Tasks : u # t => task'[u] = task[u]
        BY <1>1, <3>1, <3>3, Zenon
      <3>6. QED
        BY <1>1, <1>3, <2>1, <3>3, <3>4, <3>5, OtherStep, Zenon
    <2>4. \A p \in Prompts : task[p].sess \in Tasks \cup {None}
      BY <1>1, Zenon DEF Call
    <2>5. QED
      BY <1>3, <1>7, <2>2, <2>3, <2>4, Zenon DEF StartPoll
  <1>8. CASE Joined(t)
    <2>1. task[t].at = "joined" /\ UNCHANGED <<rec, there, live>>
      BY <1>8, Zenon DEF Joined
    <2>2. task[t].on[2] \in Prompts
      BY <1>1, <2>1, Zenon DEF RecordInv
    <2>3. PICK sess \in Tasks \cup {None} : task' = Holding(t, "close", sess)
      BY <1>1, <1>8, <2>2, Zenon DEF Joined, Call
    <2>4. /\ task' \in [Tasks -> Call] /\ task'[t].at = "close"
          /\ \A u \in Tasks : u # t => task'[u] = task[u]
      BY <1>1, <1>2, <2>3, HoldingCall
    <2>5. QED
      BY <1>1, <1>3, <2>1, <2>4, OtherStep, Zenon
  <1>9. CASE /\ UNCHANGED <<rec, there, live>>
             /\ \E at \in {"init", "retain", "retained", "check", "release"} :
                    task' = Moved(t, at)
    <2>1. PICK at \in {"init", "retain", "retained", "check", "release"} :
                 task' = Moved(t, at)
      BY <1>9, Zenon
    <2>2. at \in Phases
      BY <1>2, Zenon
    <2>3. /\ task' \in [Tasks -> Call] /\ task'[t].at = at
          /\ \A u \in Tasks : u # t => task'[u] = task[u]
      BY <1>1, <2>1, <2>2, MovedCall, Zenon
    <2>4. QED
      BY <1>1, <1>3, <1>9, <2>3, OtherStep, Zenon
  <1>10. CASE /\ UNCHANGED <<rec, there, live>>
              /\ task' = Blocked(t, <<"ready", rec.ready>>, "check")
    <2>1. PICK promise \in Promise : task' = Blocked(t, promise, "check")
      BY <1>4, <1>10, Zenon
    <2>2. /\ task' \in [Tasks -> Call] /\ task'[t].at = "check"
          /\ \A u \in Tasks : u # t => task'[u] = task[u]
      BY <1>1, <1>2, <2>1, BlockedCall
    <2>3. QED
      BY <1>1, <1>3, <1>10, <2>2, OtherStep, Zenon
  <1>11. CASE StartLevel(t) \/ StartReset(t) \/ Retained(t) \/ AwaitReady(t)
                \/ Rewind(t)
    BY <1>9, <1>10, <1>11, Zenon DEF StartLevel, StartReset, Retained, AwaitReady, Rewind
  <1>12. CASE Close(t)
    <2>1. \/ DisposeSession(t, "release")
          \/ task' = Moved(t, "release") /\ UNCHANGED rec
      BY <1>12, Zenon DEF Close
    <2>2. UNCHANGED <<there, live>>
      BY <1>12, Zenon DEF Close
    <2>3. QED
      BY <1>1, <1>2, <1>9, <2>1, <2>2, DisposeStep, Zenon
  <1>13. CASE CheckIdle(t)
    <2>1. \/ DisposeSession(t, "rewind")
          \/ task' = Moved(t, "release") /\ UNCHANGED rec
      BY <1>13, Zenon DEF CheckIdle
    <2>2. UNCHANGED <<there, live>>
      BY <1>13, Zenon DEF CheckIdle
    <2>3. QED
      BY <1>1, <1>2, <1>9, <2>1, <2>2, DisposeStep, Zenon
  <1>14. CASE EnsureSession(t) \/ Flushed(t)
    BY <1>1, <1>14, EnsureStep, Zenon
  <1>15. QED
    BY <1>5, <1>6, <1>7, <1>8, <1>11, <1>12, <1>13, <1>14, Zenon DEF OpStep

\* abort and delete.
LEMMA StopKeeps ==
    ASSUME RecordInv, NEW t \in Aborts \cup Deletes, t \notin Prompts,
           Abort(t) \/ AbortStep(t) \/ Delete(t) \/ DeleteStep(t)
    PROVE  RecordInv'
  <1>1. task \in [Tasks -> Call] /\ t \in Tasks /\ Prompts \subseteq Tasks
    BY TypedCalls, Zenon DEF RecordInv, Tasks
  <1>2. /\ {"stop", "stopping", "halt", "halting", "halted", "drop", "remove"}
             \subseteq Phases
        /\ "remove" \in AfterDisposal
    BY Zenon DEF Phases, AfterDisposal
  <1>3. /\ rec.ready \in Prompts \cup {None} /\ rec.reply \in Prompts \cup {None}
        /\ rec.session \in Tasks \cup {None} /\ there \in BOOLEAN
    BY Zenon DEF RecordInv, TypeOK
  <1>4. <<"ready", rec.ready>> \in Promise /\ <<"reply", rec.reply>> \in Promise
    BY <1>3, Zenon DEF Promise, Tasks
  <1>5. \A p \in Prompts : task[p].sess \in Tasks \cup {None}
    BY <1>1, Zenon DEF Call
  <1>6. ASSUME /\ \/ task' = Ended(t)
                  \/ \E at \in {"halt", "halted", "drop"} : task' = Moved(t, at)
                  \/ \E at \in {"stopping", "halting"}, sess \in Tasks \cup {None} :
                        task' = Holding(t, at, sess)
                  \/ \E at \in {"halt", "drop"}, promise \in Promise :
                        task' = Blocked(t, promise, at)
               /\ UNCHANGED rec \/ rec' = [rec EXCEPT !.aborting = TRUE]
               /\ there' \in BOOLEAN /\ UNCHANGED live
        PROVE  RecordInv'
    <2>1. \A at \in {"halt", "halted", "drop", "stopping", "halting"} : at \in Phases
      BY <1>2, Zenon
    <2>2. /\ task' \in [Tasks -> Call] /\ task'[t].at \notin {"joined", "stop"}
          /\ \A u \in Tasks : u # t => task'[u] = task[u]
      <3>1. CASE task' = Ended(t)
        BY <1>1, <3>1, EndedCall, Zenon
      <3>2. CASE \E at \in {"halt", "halted", "drop"} : task' = Moved(t, at)
        BY <1>1, <2>1, <3>2, MovedCall
      <3>3. CASE \E at \in {"stopping", "halting"}, sess \in Tasks \cup {None} :
                   task' = Holding(t, at, sess)
        BY <1>1, <2>1, <3>3, HoldingCall
      <3>4. CASE \E at \in {"halt", "drop"}, promise \in Promise :
                   task' = Blocked(t, promise, at)
        BY <1>1, <2>1, <3>4, BlockedCall
      <3>5. QED
        BY <1>6, <3>1, <3>2, <3>3, <3>4, Zenon
    <2>3. QED
      BY <1>1, <1>6, <2>2, OtherStep, Zenon
  <1>7. CASE Abort(t)
    <2>1. rec' = [rec EXCEPT !.aborting = TRUE] /\ UNCHANGED <<there, live>>
      BY <1>7, Zenon DEF Abort
    <2>2. CASE rec.ready # None /\ task' = Blocked(t, <<"ready", rec.ready>>, "stop")
      <3>1. ASSUME NEW promise \in Promise, task' = Blocked(t, promise, "stop")
            PROVE  /\ task' \in [Tasks -> Call] /\ task'[t].on = promise
                   /\ \A u \in Tasks : u # t => task'[u] = task[u]
        BY <1>1, <1>2, <3>1, BlockedCall
      <3>2. /\ task' \in [Tasks -> Call] /\ task'[t].on = <<"ready", rec.ready>>
            /\ \A u \in Tasks : u # t => task'[u] = task[u]
        BY <1>4, <2>2, <3>1, Zenon
      <3>3. task'[t].on[2] \in Prompts
        BY <1>3, <2>2, <3>2
      <3>4. QED
        BY <1>1, <1>3, <2>1, <3>2, <3>3, OtherStep, Zenon
    <2>3. \/ rec.ready # None /\ task' = Blocked(t, <<"ready", rec.ready>>, "stop")
          \/ task' = Ended(t)
          \/ \E sess \in Tasks \cup {None} : task' = Holding(t, "stopping", sess)
      BY <1>3, <1>5, <1>7, Zenon DEF Abort
    <2>4. QED
      BY <1>3, <1>6, <2>1, <2>2, <2>3, Zenon
  <1>8. CASE AbortBuilt(t)
    <2>1. task[t].at = "stop" /\ UNCHANGED <<rec, there, live>>
      BY <1>8, Zenon DEF AbortBuilt
    <2>2. task[t].on[2] \in Prompts
      BY <1>1, <2>1, Zenon DEF RecordInv
    <2>3. \E sess \in Tasks \cup {None} : task' = Holding(t, "stopping", sess)
      BY <1>5, <1>8, <2>2, Zenon DEF AbortBuilt
    <2>4. QED
      BY <1>3, <1>6, <2>1, <2>3, Zenon
  <1>9. CASE AbortEnds(t) \/ Remove(t) \/ HaltEnds(t)
    BY <1>3, <1>6, <1>9, Zenon DEF AbortEnds, Remove, HaltEnds
  <1>10. CASE Delete(t)
    BY <1>3, <1>4, <1>6, <1>10, Zenon DEF Delete
  <1>11. CASE Halt(t)
    BY <1>3, <1>6, <1>11, Zenon DEF Halt
  <1>12. CASE AwaitReply(t)
    BY <1>3, <1>4, <1>6, <1>12, Zenon DEF AwaitReply
  <1>13. CASE Drop(t)
    BY <1>1, <1>2, <1>13, DisposeStep, Zenon DEF Drop
  <1>14. CASE Flushed(t)
    BY <1>1, <1>14, EnsureStep, Zenon
  <1>15. QED
    BY <1>7, <1>8, <1>9, <1>10, <1>11, <1>12, <1>13, <1>14, Zenon
    DEF AbortStep, DeleteStep

\* Every step of the event loop keeps the invariant.
LEMMA NextKeeps == RecordInv /\ [Next]_vars => RecordInv'
  <1>1. SUFFICES ASSUME RecordInv, [Next]_vars
                 PROVE  RecordInv'
    BY Zenon
  <1>2. /\ \A t \in Ops : t \notin Prompts
        /\ \A t \in Aborts \cup Deletes : t \notin Prompts
    BY HostConstants, Zenon DEF Ops
  <1>3. CASE UNCHANGED vars
    BY <1>1, <1>3, Zenon DEF vars, RecordInv, TypeOK, Active
  <1>4. ASSUME NEW t \in Prompts, Arrive(t) \/ PromptStep(t)
        PROVE  RecordInv'
    BY <1>1, <1>4, PromptKeeps, Zenon
  <1>5. ASSUME NEW t \in Ops, Request(t) \/ OpStep(t)
        PROVE  RecordInv'
    BY <1>1, <1>2, <1>5, OpKeeps, Zenon
  <1>6. ASSUME NEW t \in Aborts \cup Deletes,
               Abort(t) \/ AbortStep(t) \/ Delete(t) \/ DeleteStep(t)
        PROVE  RecordInv'
    BY <1>1, <1>2, <1>6, StopKeeps, Zenon
  <1>7. QED
    BY <1>1, <1>3, <1>4, <1>5, <1>6, Zenon DEF Next, Step

\* No call has begun in the initial state.
LEMMA RecordInit == Init => RecordInv
  <1>1. SUFFICES ASSUME Init PROVE RecordInv
    BY Zenon
  <1>2. Fresh \in Call
    BY Zenon DEF Fresh, Call, Promise, Phases, AfterDisposal
  <1>3. task \in [Tasks -> Call] /\ \A t \in Tasks : task[t].at = "new"
    BY <1>1, <1>2, Zenon DEF Init, Fresh
  <1>4. TypeOK
    BY <1>1, <1>3, Zenon DEF Init, TypeOK, Call, Promise
  <1>5. Prompts \subseteq Tasks
    BY Zenon DEF Tasks
  <1>6. QED
    BY <1>3, <1>4, <1>5, Zenon DEF RecordInv, Active

\* The record belongs to the prompt that is active on it, whichever calls overlap:
\* prompting, sessionReady and promptPromise are written by promptParticipant alone,
\* and begun only when no prompt is active (session-host.ts, 1522-1551).
THEOREM RecordInvariant == Spec => []RecordInv
  BY RecordInit, NextKeeps, PTL DEF Spec

\* At most one prompt is active on a record.
THEOREM OnePromptRuns == Spec => []OneRun
  <1>1. RecordInv => OneRun
    BY Zenon DEF RecordInv, OneRun
  <1>2. QED
    BY <1>1, RecordInvariant, PTL

\* A step of one call leaves the other calls as they are.
LEMMA OthersStay ==
    ASSUME RecordInv, NEW t \in Tasks,
           Step(t) \/ Arrive(t) \/ Request(t) \/ Abort(t) \/ Delete(t)
    PROVE  \A u \in Tasks : u # t => task'[u] = task[u]
  <1>1. task \in [Tasks -> Call]
    BY TypedCalls, Zenon DEF RecordInv
  <1>2. CASE EnsureSession(t) \/ Flushed(t) \/ Captured(t) \/ End(t)
    BY <1>1, <1>2, Zenon DEF EnsureSession, Inspect, Look, Built, BuildFails, Flushed,
                      Captured, End, DisposeSession, Moved, Ended, Blocked, Holding
  <1>3. CASE Arrive(t) \/ Begin(t) \/ Ready(t) \/ RunEnds(t) \/ Clear(t)
    BY <1>1, <1>3, Zenon DEF Arrive, Begin, Ready, RunEnds, Clear, Moved, Ended, Blocked
  <1>4. CASE Request(t) \/ Release(t) \/ StartLevel(t) \/ Close(t)
    BY <1>1, <1>4, Zenon DEF Request, Release, StartLevel, Close, DisposeSession, Moved,
                      Ended, Blocked
  <1>5. CASE StartPoll(t)
    BY <1>1, <1>5, Zenon DEF StartPoll
  <1>6. CASE Joined(t) \/ StartReset(t) \/ Retained(t) \/ AwaitReady(t)
               \/ CheckIdle(t) \/ Rewind(t)
    BY <1>1, <1>6, Zenon DEF Joined, StartReset, Retained, AwaitReady, CheckIdle, Rewind,
                      DisposeSession, Moved, Blocked, Holding
  <1>7. CASE Abort(t) \/ AbortStep(t)
    BY <1>1, <1>7, Zenon
    DEF Abort, AbortStep, AbortBuilt, AbortEnds, Ended, Blocked, Holding
  <1>8. CASE Delete(t) \/ Halt(t) \/ HaltEnds(t) \/ AwaitReply(t) \/ Drop(t)
               \/ Remove(t)
    BY <1>1, <1>8, Zenon DEF Delete, Halt, HaltEnds, AwaitReply, Drop, Remove,
                      DisposeSession, Moved, Ended, Blocked, Holding
  <1>9. QED
    BY <1>2, <1>3, <1>4, <1>5, <1>6, <1>7, <1>8, Zenon
    DEF Step, PromptStep, OpStep, DeleteStep

\* A prompt never goes back to its start or to its build, and only Ready, which
\* looks at aborting, starts its model.
LEMMA PromptForward ==
    ASSUME RecordInv, NEW p \in Prompts, Arrive(p) \/ PromptStep(p),
           task[p].at \notin {"new", "enter", "running"}
    PROVE  /\ task'[p].at \notin {"new", "enter"}
           /\ ~Pending(p) => task'[p].at \notin {"init", "look", "build", "ready", "running"}
           /\ task'[p].at = "running" => ~rec.aborting
  <1>1. /\ task \in [Tasks -> Call] /\ p \in Tasks
        /\ task[p].at = "flushing" => task[p].then = "end"
    BY TypedCalls, Zenon DEF RecordInv, Tasks
  <1>2. CASE Ready(p)
    BY <1>1, <1>2 DEF Ready, Moved, Call, Pending
  <1>3. CASE Clear(p) \/ End(p)
    BY <1>1, <1>3 DEF Clear, End, Moved, Ended, Fresh, Call
  <1>4. CASE Flushed(p) \/ Captured(p)
    BY <1>1, <1>4 DEF Flushed, Captured, DisposeSession, Moved, Blocked, Call
  <1>5. CASE EnsureSession(p)
    BY <1>1, <1>5 DEF EnsureSession, Inspect, Look, Built, BuildFails, DisposeSession, Using,
                      Moved, Blocked, Holding, Call, Pending
  <1>6. QED
    BY <1>2, <1>3, <1>4, <1>5, Zenon DEF PromptStep, Arrive, Begin, RunEnds

\* While a prompt is active nothing takes an abort back: only the start and the
\* end of a prompt do, and no other prompt is active.
LEMMA FlagStays ==
    ASSUME RecordInv, NEW t \in Tasks,
           Step(t) \/ Arrive(t) \/ Request(t) \/ Abort(t) \/ Delete(t),
           NEW p \in Prompts, Pending(p), rec.aborting
    PROVE  rec'.aborting
  <1>1. /\ rec \in [session : Tasks \cup {None}, loader : BOOLEAN, prompting : BOOLEAN,
                    aborting : BOOLEAN, ready : Prompts \cup {None},
                    reply : Prompts \cup {None}, context : Ops \cup {None},
                    disposing : BOOLEAN]
        /\ rec.prompting /\ rec.ready = p
    BY Zenon DEF RecordInv, TypeOK, Pending, Active
  <1>2. CASE EnsureSession(t) \/ Flushed(t) \/ Captured(t) \/ End(t)
    BY <1>1, <1>2, Zenon DEF EnsureSession, Inspect, Look, Built, BuildFails, Flushed,
                      Captured, End, DisposeSession
  <1>3. CASE Arrive(t) \/ Begin(t) \/ Ready(t) \/ RunEnds(t)
    BY <1>1, <1>3, Zenon DEF Arrive, Begin, Ready, RunEnds
  <1>4. CASE t \in Prompts /\ Clear(t)
    <2>1. rec.ready = t /\ t # p
      BY <1>4, Zenon DEF RecordInv, Active, Clear, Pending
    <2>2. QED
      BY <1>1, <2>1, Zenon
  <1>5. CASE Request(t) \/ Release(t) \/ StartLevel(t) \/ Close(t) \/ StartPoll(t)
    BY <1>1, <1>5, Zenon DEF Request, Release, StartLevel, Close, StartPoll, DisposeSession
  <1>6. CASE Joined(t) \/ StartReset(t) \/ Retained(t) \/ AwaitReady(t)
               \/ CheckIdle(t) \/ Rewind(t)
    BY <1>1, <1>6, Zenon DEF Joined, StartReset, Retained, AwaitReady, CheckIdle, Rewind,
                      DisposeSession
  <1>7. CASE Abort(t) \/ AbortStep(t)
    BY <1>1, <1>7, Zenon DEF Abort, AbortStep, AbortBuilt, AbortEnds
  <1>8. CASE Delete(t) \/ Halt(t) \/ HaltEnds(t) \/ AwaitReply(t) \/ Drop(t)
               \/ Remove(t)
    BY <1>1, <1>8, Zenon DEF Delete, Halt, HaltEnds, AwaitReply, Drop, Remove, DisposeSession
  <1>9. QED
    BY <1>2, <1>3, <1>4, <1>5, <1>6, <1>7, <1>8, Zenon
    DEF Step, PromptStep, OpStep, DeleteStep

\* Every step keeps the aborts that were called.
LEMMA AbortNext == RecordInv /\ AbortInv /\ [Next]_vars => AbortInv'
  <1>1. SUFFICES ASSUME RecordInv, AbortInv, [Next]_vars PROVE AbortInv'
    BY Zenon
  <1>2. /\ Prompts \subseteq Tasks /\ Ops \subseteq Tasks
        /\ Aborts \subseteq Tasks /\ Deletes \subseteq Tasks
        /\ \A p \in Prompts : p \notin Ops /\ p \notin Aborts /\ p \notin Deletes
    BY HostConstants, Zenon DEF Tasks, Ops
  <1>3. CASE UNCHANGED vars
    BY <1>1, <1>3, Zenon DEF vars, AbortInv, Pending
  <1>4. ASSUME NEW t \in Tasks,
               Step(t) \/ (t \in Prompts /\ Arrive(t)) \/ (t \in Ops /\ Request(t)),
               aborted' \subseteq aborted
        PROVE  AbortInv'
    <2>1. SUFFICES ASSUME NEW p \in aborted
                   PROVE  /\ task'[p].at \notin {"new", "enter", "running"}
                          /\ Pending(p)' => rec'.aborting
      BY <1>1, <1>4, Zenon DEF AbortInv
    <2>2. /\ p \in Prompts /\ task[p].at \notin {"new", "enter", "running"}
          /\ Pending(p) => rec.aborting
      BY <1>1, <2>1, Zenon DEF AbortInv
    <2>3. Pending(p) => rec'.aborting
      BY <1>1, <1>4, <2>2, FlagStays, Zenon
    <2>4. CASE t # p
      <3>1. task'[p] = task[p]
        BY <1>1, <1>2, <1>4, <2>2, <2>4, OthersStay, Zenon
      <3>2. QED
        BY <2>2, <2>3, <3>1, Zenon DEF Pending
    <2>5. CASE t = p
      <3>1. Arrive(p) \/ PromptStep(p)
        BY <1>2, <1>4, <2>2, <2>5, Zenon DEF Step
      <3>2. QED
        BY <1>1, <2>2, <2>3, <3>1, PromptForward, Zenon DEF Pending
    <2>6. QED
      BY <2>4, <2>5, Zenon
  <1>5. ASSUME NEW t \in Tasks,
               (t \in Aborts /\ Abort(t)) \/ (t \in Deletes /\ Delete(t)),
               aborted' = aborted \cup {p \in Prompts : Pending(p)}
        PROVE  AbortInv'
    <2>1. \A p \in Prompts : task'[p] = task[p]
      BY <1>1, <1>2, <1>5, OthersStay, Zenon
    <2>2. rec'.aborting
      BY <1>1, <1>5, Zenon DEF RecordInv, TypeOK, Abort, Delete
    <2>3. QED
      BY <1>1, <1>5, <2>1, <2>2, Zenon DEF AbortInv, Pending
  <1>6. {p \in aborted : Active(p)'} \subseteq aborted
    BY Zenon
  <1>7. QED
    BY <1>1, <1>2, <1>3, <1>4, <1>5, <1>6, Zenon DEF Next

\* A prompt that is aborted while its session is still to come never runs
\* (session-host.ts, 393, 803, 1530, 1553): the flag that abort and delete set stays
\* until that prompt has ended, since no other prompt can begin meanwhile, and
\* only Ready, which looks at it, starts the model.
THEOREM AbortHolds == Spec => []AbortedNeverRuns
  <1>1. Init => AbortInv
    BY Zenon DEF Init, AbortInv
  <1>2. AbortInv => AbortedNeverRuns
    BY Zenon DEF AbortInv, AbortedNeverRuns
  <1>3. QED
    BY <1>1, <1>2, AbortNext, RecordInvariant, PTL DEF Spec

-----------------------------------------------------------------------------
(* The queues of the event loop.                                            *)

\* The phases of a call that is not in the microtask queue.
Asleep == {"new", "done", "stopping", "halting"}

\* What one call's turn does with the queues.
LoopStep(t) ==
    \/ Yield
    \/ GoOn(t) /\ task'[t].at \notin Asleep
    \/ \E q \in Promises :
           Await(t, q) /\ task'[t].on = q /\ task'[t].at \in Resumes(q)
    \/ \E q \in Promises : Resolve(q, <<>>)
    \/ \E q \in Promises : Resolve(q, <<t>>) /\ task'[t].at \notin Asleep

\* A call whose turn it is waits for nothing, and is not among the rest.
LEMMA TurnAlone ==
    ASSUME LoopInv, NEW t \in Tasks, Turn(t)
    PROVE  /\ \A q \in Promises : ~Awaits(t, q)
           /\ Rest \in Seq(Tasks)
           /\ \A i \in 1..Len(Rest) : /\ i + 1 \in DOMAIN micro
                                      /\ Rest[i] = micro[i + 1]
                                      /\ Rest[i] # t
           /\ \A i \in DOMAIN micro : micro[i] # t =>
                  i - 1 \in 1..Len(Rest) /\ Rest[i - 1] = micro[i]
  <1>1. CASE micro = <<>>
    BY <1>1 DEF LoopInv, Turn, Rest
  <1>2. CASE micro # <<>>
    <2>1. /\ micro \in Seq(Tasks) /\ Len(micro) \in Nat /\ Len(micro) > 0
          /\ DOMAIN micro = 1..Len(micro)
      BY <1>2 DEF LoopInv
    <2>2. Rest = Tail(micro) /\ micro[1] = t /\ 1 \in DOMAIN micro
      BY <1>2, <2>1 DEF Turn, Rest
    <2>3. /\ Rest \in Seq(Tasks) /\ Len(Rest) = Len(micro) - 1
          /\ \A i \in 1..Len(Rest) : Rest[i] = micro[i + 1]
      BY <1>2, <2>1, <2>2
    <2>4. InMicro(t)
      BY <2>2, Zenon DEF InMicro
    <2>5. \A q \in Promises : ~Awaits(t, q)
      BY <2>4, Zenon DEF LoopInv
    <2>6. \A i, j \in DOMAIN micro : micro[i] = micro[j] => i = j
      BY Zenon DEF LoopInv
    <2>7. \A i \in 1..Len(Rest) : i + 1 \in DOMAIN micro /\ i + 1 # 1
      BY <2>1, <2>3
    <2>8. \A i \in 1..Len(Rest) : Rest[i] # t
      BY <2>2, <2>3, <2>6, <2>7, Zenon
    <2>9. \A i \in DOMAIN micro : i # 1 => i - 1 \in 1..Len(Rest) /\ (i - 1) + 1 = i
      BY <2>1, <2>3
    <2>10. \A i \in DOMAIN micro : micro[i] # t => i # 1
      BY <2>2, Zenon
    <2>11. QED
      BY <2>3, <2>5, <2>7, <2>8, <2>9, <2>10, Zenon
  <1>3. QED
    BY <1>1, <1>2, Zenon


\* x is in the sequence s; no element is in s twice.
Has(s, x) == \E i \in 1..Len(s) : s[i] = x

Once(s) == \A i, j \in 1..Len(s) : s[i] = s[j] => i = j

\* The elements of a concatenation.
LEMMA Cat ==
    ASSUME NEW s \in Seq(Tasks), NEW u \in Seq(Tasks)
    PROVE  /\ s \o u \in Seq(Tasks)
           /\ \A x : Has(s \o u, x) <=> Has(s, x) \/ Has(u, x)
           /\ Once(s) /\ Once(u) /\ (\A x : ~(Has(s, x) /\ Has(u, x))) => Once(s \o u)
  <1>1. /\ s \o u \in Seq(Tasks) /\ Len(s) \in Nat /\ Len(u) \in Nat
        /\ Len(s \o u) = Len(s) + Len(u)
        /\ \A i \in 1..Len(s \o u) :
               (s \o u)[i] = IF i <= Len(s) THEN s[i] ELSE u[i - Len(s)]
    OBVIOUS
  <1>2. \A i \in 1..Len(s \o u) :
            \/ i \in 1..Len(s) /\ (s \o u)[i] = s[i]
            \/ i - Len(s) \in 1..Len(u) /\ i > Len(s) /\ (s \o u)[i] = u[i - Len(s)]
    BY <1>1
  <1>3. \A i \in 1..Len(s) : i \in 1..Len(s \o u) /\ (s \o u)[i] = s[i]
    BY <1>1
  <1>4. \A i \in 1..Len(u) : /\ Len(s) + i \in 1..Len(s \o u)
                             /\ (s \o u)[Len(s) + i] = u[i]
    BY <1>1
  <1>5. \A x : Has(s \o u, x) <=> Has(s, x) \/ Has(u, x)
    BY <1>2, <1>3, <1>4, Zenon DEF Has
  <1>6. ASSUME Once(s), Once(u), \A x : ~(Has(s, x) /\ Has(u, x))
        PROVE  Once(s \o u)
    <2>1. SUFFICES ASSUME NEW i \in 1..Len(s \o u), NEW j \in 1..Len(s \o u),
                          (s \o u)[i] = (s \o u)[j]
                   PROVE  i = j
      BY Zenon DEF Once
    <2>2. CASE i \in 1..Len(s) /\ (s \o u)[i] = s[i]
      <3>1. CASE j \in 1..Len(s) /\ (s \o u)[j] = s[j]
        BY <1>6, <2>1, <2>2, <3>1, Zenon DEF Once
      <3>2. CASE j - Len(s) \in 1..Len(u) /\ (s \o u)[j] = u[j - Len(s)]
        BY <1>6, <2>1, <2>2, <3>2, Zenon DEF Has
      <3>3. QED
        BY <1>2, <3>1, <3>2, Zenon
    <2>3. CASE i - Len(s) \in 1..Len(u) /\ i > Len(s) /\ (s \o u)[i] = u[i - Len(s)]
      <3>1. CASE j \in 1..Len(s) /\ (s \o u)[j] = s[j]
        BY <1>6, <2>1, <2>3, <3>1, Zenon DEF Has
      <3>2. CASE j - Len(s) \in 1..Len(u) /\ (s \o u)[j] = u[j - Len(s)]
        <4>1. i - Len(s) = j - Len(s)
          BY <1>6, <2>1, <2>3, <3>2, Zenon DEF Once
        <4>2. QED
          BY <1>1, <4>1
      <3>3. QED
        BY <1>2, <3>1, <3>2, Zenon
    <2>4. QED
      BY <1>2, <2>2, <2>3, Zenon
  <1>7. QED
    BY <1>1, <1>5, <1>6, Zenon

\* A concatenation begins with its first part and ends with its second.
LEMMA Parts ==
    ASSUME NEW s \in Seq(Tasks), NEW u \in Seq(Tasks)
    PROVE  /\ s \o u \in Seq(Tasks) /\ Len(s \o u) = Len(s) + Len(u)
           /\ Len(s) \in Nat /\ Len(u) \in Nat
           /\ \A n \in 1..Len(s) : n \in 1..Len(s \o u) /\ (s \o u)[n] = s[n]
           /\ \A n \in 1..Len(u) : /\ Len(s) + n \in 1..Len(s \o u)
                                   /\ (s \o u)[Len(s) + n] = u[n]
  <1>1. /\ s \o u \in Seq(Tasks) /\ Len(s) \in Nat /\ Len(u) \in Nat
        /\ Len(s \o u) = Len(s) + Len(u)
        /\ \A i \in 1..Len(s \o u) :
               (s \o u)[i] = IF i <= Len(s) THEN s[i] ELSE u[i - Len(s)]
    OBVIOUS
  <1>2. QED
    BY <1>1

\* A concatenation of three begins with the first.
LEMMA ThreeParts ==
    ASSUME NEW s \in Seq(Tasks), NEW u \in Seq(Tasks), NEW v \in Seq(Tasks)
    PROVE  /\ Len((s \o u) \o v) >= Len(s)
           /\ \A n \in 1..Len(s) : ((s \o u) \o v)[n] = s[n]
  <1>1. PICK both \in Seq(Tasks) :
            /\ both = s \o u /\ Len(both) = Len(s) + Len(u)
            /\ \A n \in 1..Len(s) : n \in 1..Len(both) /\ both[n] = s[n]
    <2>1. s \o u \in Seq(Tasks)
      BY Parts, Zenon
    <2>2. QED
      BY <2>1, Parts, Zenon
  <1>2. /\ Len(both \o v) = Len(both) + Len(v)
        /\ \A n \in 1..Len(both) : (both \o v)[n] = both[n]
    BY Parts, Zenon
  <1>3. Len(s) \in Nat /\ Len(u) \in Nat /\ Len(v) \in Nat
    OBVIOUS
  <1>4. Len(both \o v) >= Len(s)
    BY <1>1, <1>2, <1>3
  <1>5. \A n \in 1..Len(s) : (both \o v)[n] = s[n]
    BY <1>1, <1>2, Zenon
  <1>6. QED
    BY <1>1, <1>4, <1>5, Zenon

\* A sequence of one call.
LEMMA Single ==
    ASSUME NEW t \in Tasks
    PROVE  /\ <<t>> \in Seq(Tasks) /\ Once(<<t>>)
           /\ \A x : Has(<<t>>, x) <=> x = t
  BY DEF Once, Has

\* The elements of a sequence after an append.
LEMMA Appended ==
    ASSUME NEW s \in Seq(Tasks), NEW t \in Tasks
    PROVE  /\ Append(s, t) \in Seq(Tasks)
           /\ \A x : Has(Append(s, t), x) <=> Has(s, x) \/ x = t
           /\ Once(s) /\ ~Has(s, t) => Once(Append(s, t))
  <1>1. /\ Append(s, t) \in Seq(Tasks) /\ Len(s) \in Nat
        /\ Len(Append(s, t)) = Len(s) + 1
        /\ \A i \in 1..Len(s) : Append(s, t)[i] = s[i]
        /\ Append(s, t)[Len(s) + 1] = t
    OBVIOUS
  <1>2. \A i \in 1..Len(Append(s, t)) : i \in 1..Len(s) \/ i = Len(s) + 1
    BY <1>1
  <1>3. /\ \A i \in 1..Len(s) : i \in 1..Len(Append(s, t))
        /\ Len(s) + 1 \in 1..Len(Append(s, t))
    BY <1>1
  <1>4. \A x : Has(Append(s, t), x) <=> Has(s, x) \/ x = t
    BY <1>1, <1>2, <1>3, Zenon DEF Has
  <1>5. Once(s) /\ ~Has(s, t) => Once(Append(s, t))
    BY <1>1, <1>2, Zenon DEF Once, Has
  <1>6. QED
    BY <1>1, <1>4, <1>5, Zenon

\* The empty sequence.
LEMMA Nothing ==
    /\ <<>> \in Seq(Tasks) /\ Once(<<>>)
    /\ \A x : ~Has(<<>>, x)
  BY DEF Once, Has

\* The queues of LoopInv in these words.
LEMMA InWords ==
    ASSUME micro \in Seq(Tasks), waiting \in [Promises -> Seq(Tasks)]
    PROVE  /\ \A t : InMicro(t) <=> Has(micro, t)
           /\ \A t : \A q \in Promises : Awaits(t, q) <=> Has(waiting[q], t)
           /\ (\A i, j \in DOMAIN micro : micro[i] = micro[j] => i = j)
                 <=> Once(micro)
           /\ \A q \in Promises :
                 (\A i, j \in DOMAIN waiting[q] : waiting[q][i] = waiting[q][j] => i = j)
                   <=> Once(waiting[q])
  <1>1. DOMAIN micro = 1..Len(micro)
    OBVIOUS
  <1>2. \A q \in Promises : DOMAIN waiting[q] = 1..Len(waiting[q])
    OBVIOUS
  <1>3. QED
    BY <1>1, <1>2, Zenon DEF InMicro, Awaits, Has, Once

\* What remains of the microtasks when it is t's turn.
LEMMA RestOf ==
    ASSUME LoopInv, NEW t \in Tasks, Turn(t)
    PROVE  /\ Rest \in Seq(Tasks) /\ Once(Rest)
           /\ \A u : Has(Rest, u) <=> Has(micro, u) /\ u # t
           /\ \A q \in Promises : ~Has(waiting[q], t)
  <1>1. /\ Rest \in Seq(Tasks)
        /\ micro \in Seq(Tasks) /\ DOMAIN micro = 1..Len(micro)
        /\ waiting \in [Promises -> Seq(Tasks)]
    BY TurnAlone DEF LoopInv
  <1>2. /\ \A i \in 1..Len(Rest) : /\ i + 1 \in 1..Len(micro)
                                   /\ Rest[i] = micro[i + 1] /\ Rest[i] # t
        /\ \A i \in 1..Len(micro) : micro[i] # t =>
                  i - 1 \in 1..Len(Rest) /\ Rest[i - 1] = micro[i]
    BY <1>1, TurnAlone, Zenon
  <1>3. Once(micro)
    BY <1>1, InWords, Zenon DEF LoopInv
  <1>4. Once(Rest)
    <2>1. SUFFICES ASSUME NEW i \in 1..Len(Rest), NEW j \in 1..Len(Rest),
                          Rest[i] = Rest[j]
                   PROVE  i = j
      BY Zenon DEF Once
    <2>2. i + 1 = j + 1
      BY <1>2, <1>3, <2>1, Zenon DEF Once
    <2>3. QED
      BY <2>2
  <1>5. \A u : Has(Rest, u) <=> Has(micro, u) /\ u # t
    BY <1>2, Zenon DEF Has
  <1>6. \A q \in Promises : ~Has(waiting[q], t)
    BY <1>1, TurnAlone, InWords, Zenon
  <1>7. QED
    BY <1>1, <1>4, <1>5, <1>6, Zenon

\* The queues after a turn of t.  The others keep their places, or are woken.
Queues(t) ==
    /\ micro' \in Seq(Tasks) /\ waiting' \in [Promises -> Seq(Tasks)]
    /\ Once(micro') /\ \A q \in Promises : Once(waiting'[q])
    /\ \A u \in Tasks : u # t =>
          /\ Has(micro, u) => Has(micro', u)
          /\ \A q \in Promises : Has(waiting'[q], u) => Has(waiting[q], u)
          /\ \A q \in Promises : Has(waiting[q], u) =>
                                    Has(waiting'[q], u) \/ Has(micro', u)
          /\ Has(micro', u) => /\ Has(micro, u) \/ \E q \in Promises : Has(waiting[q], u)
                               /\ \A q \in Promises : ~Has(waiting'[q], u)
    /\ Has(micro', t) => /\ task'[t].at \notin Asleep
                         /\ \A q \in Promises : ~Has(waiting'[q], t)
    /\ \A q \in Promises : Has(waiting'[q], t) =>
                              task'[t].on = q /\ task'[t].at \in Resumes(q)

\* A turn leaves the queues so.
LEMMA QueuesAfter ==
    ASSUME LoopInv, NEW t \in Tasks, Turn(t), LoopStep(t)
    PROVE  Queues(t)
  <1>1. /\ micro \in Seq(Tasks) /\ waiting \in [Promises -> Seq(Tasks)]
        /\ \A q \in Promises : waiting[q] \in Seq(Tasks)
    BY Zenon DEF LoopInv
  <1>2. /\ Once(micro) /\ \A q \in Promises : Once(waiting[q])
        /\ \A u \in Tasks : \A q \in Promises : ~(Has(micro, u) /\ Has(waiting[q], u))
    BY <1>1, InWords, Zenon DEF LoopInv
  <1>3. \A u \in Tasks : \A q, r \in Promises :
            Has(waiting[q], u) /\ Has(waiting[r], u) => q = r
    BY <1>1, InWords DEF LoopInv
  <1>4. /\ Rest \in Seq(Tasks) /\ Once(Rest)
        /\ \A u : Has(Rest, u) <=> Has(micro, u) /\ u # t
        /\ \A q \in Promises : ~Has(waiting[q], t)
    BY RestOf, Zenon
  <1>5. \A s \in Seq(Tasks) : \A u : Has(s, u) => u \in Tasks
    BY DEF Has
  <1>6. CASE Yield
    BY <1>1, <1>2, <1>4, <1>6, Zenon DEF Yield, Queues
  <1>7. CASE GoOn(t) /\ task'[t].at \notin Asleep
    <2>1. micro' = <<t>> \o Rest /\ waiting' = waiting
      BY <1>7, Zenon DEF GoOn
    <2>2. /\ micro' \in Seq(Tasks) /\ Once(micro')
          /\ \A u : Has(micro', u) <=> u = t \/ Has(Rest, u)
      BY <1>4, <2>1, Single, Cat, Zenon
    <2>3. QED
      BY <1>1, <1>2, <1>4, <1>7, <2>1, <2>2, Zenon DEF Queues
  <1>8. ASSUME NEW q \in Promises, Await(t, q), task'[t].on = q,
               task'[t].at \in Resumes(q)
        PROVE  Queues(t)
    <2>1. micro' = Rest /\ waiting' = [waiting EXCEPT ![q] = Append(waiting[q], t)]
      BY <1>1, <1>8, Zenon DEF Await
    <2>2. /\ Append(waiting[q], t) \in Seq(Tasks) /\ Once(Append(waiting[q], t))
          /\ \A u : Has(Append(waiting[q], t), u) <=> Has(waiting[q], u) \/ u = t
      BY <1>1, <1>2, <1>4, Appended, Zenon
    <2>3. /\ waiting' \in [Promises -> Seq(Tasks)]
          /\ waiting'[q] = Append(waiting[q], t)
          /\ \A r \in Promises : r # q => waiting'[r] = waiting[r]
      BY <1>1, <2>1, <2>2, Zenon
    <2>4. \A r \in Promises : Once(waiting'[r])
      BY <1>2, <2>2, <2>3, Zenon
    <2>5. \A r \in Promises : \A u : Has(waiting'[r], u) <=>
              Has(waiting[r], u) \/ (r = q /\ u = t)
      BY <2>2, <2>3, Zenon
    <2>6. QED
      BY <1>2, <1>4, <1>8, <2>1, <2>3, <2>4, <2>5, Zenon DEF Queues
  <1>9. ASSUME NEW q \in Promises, NEW first \in {<<>>, <<t>>}, Resolve(q, first),
               first = <<t>> => task'[t].at \notin Asleep
        PROVE  Queues(t)
    <2>1. /\ micro' = (Rest \o first) \o waiting[q]
          /\ waiting' = [waiting EXCEPT ![q] = <<>>]
      BY <1>9, Zenon DEF Resolve
    <2>2. /\ first \in Seq(Tasks) /\ Once(first)
          /\ \A u : Has(first, u) => u = t /\ first = <<t>>
      BY <1>9, Single, Nothing
    <2>3. /\ Rest \o first \in Seq(Tasks) /\ Once(Rest \o first)
          /\ \A u : Has(Rest \o first, u) <=> Has(Rest, u) \/ Has(first, u)
      BY <1>4, <2>2, Cat, Zenon
    <2>4. \A u : ~(Has(Rest \o first, u) /\ Has(waiting[q], u))
      BY <1>1, <1>2, <1>4, <1>5, <2>2, <2>3, Zenon
    <2>5. /\ micro' \in Seq(Tasks) /\ Once(micro')
          /\ \A u : Has(micro', u) <=> Has(Rest, u) \/ Has(first, u)
                                          \/ Has(waiting[q], u)
      BY <1>1, <1>2, <2>1, <2>3, <2>4, Cat, Zenon
    <2>6. /\ waiting' \in [Promises -> Seq(Tasks)]
          /\ waiting'[q] = <<>>
          /\ \A r \in Promises : r # q => waiting'[r] = waiting[r]
      BY <1>1, <2>1, Nothing, Zenon
    <2>7. \A r \in Promises : Once(waiting'[r])
      BY <1>2, <2>6, Nothing, Zenon
    <2>8. \A r \in Promises : \A u : Has(waiting'[r], u) <=>
              Has(waiting[r], u) /\ r # q
      BY <2>6, Nothing, Zenon
    <2>9. /\ \A u \in Tasks : u # t => (Has(micro', u) <=> Has(micro, u) \/ Has(waiting[q], u))
          /\ Has(micro', t) => task'[t].at \notin Asleep
      BY <1>4, <1>9, <2>2, <2>5, Zenon
    <2>10. \A u \in Tasks : u # t /\ Has(micro', u) =>
               \A r \in Promises : ~Has(waiting'[r], u)
      BY <1>2, <1>3, <2>8, <2>9, Zenon
    <2>11. QED
      BY <1>4, <2>5, <2>6, <2>7, <2>8, <2>9, <2>10, Zenon DEF Queues
  <1>10. QED
    BY <1>6, <1>7, <1>8, <1>9, Zenon DEF LoopStep

\* A turn keeps LoopInv.
LEMMA LoopKeeps ==
    ASSUME LoopInv, NEW t \in Tasks, Turn(t), LoopStep(t),
           \A u \in Tasks : u # t => task'[u] = task[u],
           task'[t].at = "enter" =>
               t \in Prompts /\ (InMicro(t)' \/ \E q \in Promises : Awaits(t, q)')
    PROVE  LoopInv'
  <1>1. Queues(t)
    BY QueuesAfter, Zenon
  <1>2. micro \in Seq(Tasks) /\ waiting \in [Promises -> Seq(Tasks)]
    BY Zenon DEF LoopInv
  <1>3. micro' \in Seq(Tasks) /\ waiting' \in [Promises -> Seq(Tasks)]
    BY <1>1, Zenon DEF Queues
  <1>4. /\ \A u : InMicro(u)' <=> Has(micro', u)
        /\ \A u : \A q \in Promises : Awaits(u, q)' <=> Has(waiting'[q], u)
        /\ \A i, j \in DOMAIN micro' : micro'[i] = micro'[j] => i = j
        /\ \A q \in Promises : \A i, j \in DOMAIN waiting'[q] :
               waiting'[q][i] = waiting'[q][j] => i = j
    <2>1. DOMAIN micro' = 1..Len(micro')
      BY <1>3
    <2>2. \A q \in Promises : DOMAIN waiting'[q] = 1..Len(waiting'[q])
      BY <1>3
    <2>3. Once(micro') /\ \A q \in Promises : Once(waiting'[q])
      BY <1>1, Zenon DEF Queues
    <2>4. \A u : InMicro(u)' <=> Has(micro', u)
      BY <2>1, Zenon DEF InMicro, Has
    <2>5. \A u : \A q \in Promises : Awaits(u, q)' <=> Has(waiting'[q], u)
      BY <2>2, Zenon DEF Awaits, Has
    <2>6. /\ \A i, j \in DOMAIN micro' : micro'[i] = micro'[j] => i = j
          /\ \A q \in Promises : \A i, j \in DOMAIN waiting'[q] :
                 waiting'[q][i] = waiting'[q][j] => i = j
      BY <2>1, <2>2, <2>3, Zenon DEF Once
    <2>7. QED
      BY <2>4, <2>5, <2>6, Zenon
  <1>5. \A u \in Tasks : InMicro(u)' =>
            /\ task'[u].at \notin {"new", "done", "stopping", "halting"}
            /\ \A q \in Promises : ~Awaits(u, q)'
    <2>1. \A u \in Tasks : \A q \in Promises : Awaits(u, q) => task[u].at \notin Asleep
      <3>1. \A q \in Promises : Resumes(q) \cap Asleep = {}
        BY DEF Promises, Resumes, Asleep, AfterDisposal
      <3>2. QED
        BY <3>1, Zenon DEF LoopInv
    <2>2. \A u \in Tasks : InMicro(u) => task[u].at \notin Asleep
      BY Zenon DEF LoopInv, Asleep
    <2>3. \A u \in Tasks : InMicro(u)' => task'[u].at \notin Asleep
      BY <1>1, <1>2, <1>4, <2>1, <2>2, InWords, Zenon DEF Queues
    <2>4. \A u \in Tasks : InMicro(u)' => \A q \in Promises : ~Awaits(u, q)'
      BY <1>1, <1>4, Zenon DEF Queues
    <2>5. QED
      BY <2>3, <2>4, Zenon DEF Asleep
  <1>6. \A q \in Promises, u \in Tasks :
            Awaits(u, q)' => task'[u].on = q /\ task'[u].at \in Resumes(q)
    <2>1. \A q \in Promises, u \in Tasks :
              Has(waiting[q], u) => task[u].on = q /\ task[u].at \in Resumes(q)
      BY <1>2, InWords, Zenon DEF LoopInv
    <2>2. QED
      BY <1>1, <1>4, <2>1 DEF Queues
  <1>7. \A u \in Tasks : task'[u].at = "enter" =>
            u \in Prompts /\ (InMicro(u)' \/ \E q \in Promises : Awaits(u, q)')
    <2>1. \A u \in Tasks : task[u].at = "enter" =>
              u \in Prompts /\ (Has(micro, u) \/ \E q \in Promises : Has(waiting[q], u))
      BY <1>2, InWords, Zenon DEF LoopInv
    <2>2. QED
      BY <1>1, <1>4, <2>1, Zenon DEF Queues
  <1>8. QED
    BY <1>3, <1>4, <1>5, <1>6, <1>7, Zenon DEF LoopInv

\* A turn of t, in one of its handlers.
Turns(t) ==
    \/ t \in Prompts /\ (Arrive(t) \/ PromptStep(t))
    \/ t \in Ops /\ (Request(t) \/ OpStep(t))
    \/ t \in Aborts /\ (Abort(t) \/ AbortStep(t))
    \/ t \in Deletes /\ (Delete(t) \/ DeleteStep(t))

\* Every step is the turn of one call.
LEMMA NextTurns == Next => \E t \in Tasks : Turns(t)
  BY Zenon DEF Next, Step, Turns, Tasks

\* A turn leaves the other calls as they are.
LEMMA OthersAlone ==
    ASSUME RecordInv, NEW t \in Tasks, Turns(t)
    PROVE  \A u \in Tasks : u # t => task'[u] = task[u]
  BY OthersStay, Zenon DEF Turns, Step

\* The updates of StartPoll and StartLevel.
Begun(t, at, sess) == [task EXCEPT ![t].at = at, ![t].sess = sess,
                                   ![t].active = rec.prompting]

Joining(t, q) == [Begun(t, "joined", None) EXCEPT ![t].on = q]

\* The updates of one call.
LEMMA Updated ==
    ASSUME task \in [Tasks -> Call], NEW t \in Tasks
    PROVE  /\ \A at : LET c == Moved(t, at)[t] IN
                  c.at = at /\ c.then = task[t].then /\ c.sess = task[t].sess
           /\ \A at, sess : LET c == Holding(t, at, sess)[t] IN
                  c.at = at /\ c.then = task[t].then /\ c.sess = sess
           /\ \A at, q : LET c == Blocked(t, q, at)[t] IN
                  c.at = at /\ c.on = q /\ c.then = task[t].then /\ c.sess = task[t].sess
           /\ \A then : LET c == Flushing(t, then)[t] IN
                  c.at = "flushing" /\ c.then = then /\ c.sess = task[t].sess
           /\ Ended(t)[t].at = "done" /\ Ended(t)[t].sess = None
           /\ \A at, sess : LET c == Begun(t, at, sess)[t] IN
                  c.at = at /\ c.then = task[t].then /\ c.sess = sess
           /\ \A q : LET c == Joining(t, q)[t] IN
                  c.at = "joined" /\ c.on = q /\ c.then = task[t].then
  <1>1. \A at : LET c == Moved(t, at)[t] IN
            c.at = at /\ c.then = task[t].then /\ c.sess = task[t].sess
    BY Zenon DEF Call, Moved
  <1>2. \A at, sess : LET c == Holding(t, at, sess)[t] IN
            c.at = at /\ c.then = task[t].then /\ c.sess = sess
    BY Zenon DEF Call, Holding
  <1>3. \A at, q : LET c == Blocked(t, q, at)[t] IN
            c.at = at /\ c.on = q /\ c.then = task[t].then /\ c.sess = task[t].sess
    BY Zenon DEF Call, Blocked
  <1>4. \A then : LET c == Flushing(t, then)[t] IN
            c.at = "flushing" /\ c.then = then /\ c.sess = task[t].sess
    BY Zenon DEF Call, Flushing
  <1>5. Ended(t)[t].at = "done" /\ Ended(t)[t].sess = None
    BY Zenon DEF Call, Ended, Fresh
  <1>6. \A at, sess : LET c == Begun(t, at, sess)[t] IN
            c.at = at /\ c.then = task[t].then /\ c.sess = sess
    BY Zenon DEF Call, Begun
  <1>7. \A q : LET c == Joining(t, q)[t] IN
            c.at = "joined" /\ c.on = q /\ c.then = task[t].then
    BY Zenon DEF Call, Begun, Joining
  <1>8. QED
    BY <1>1, <1>2, <1>3, <1>4, <1>5, <1>6, <1>7

\* The promises of the record and of the prompts are promises.
LEMMA ThePromises ==
    /\ <<"disposed", None>> \in Promises
    /\ \A o \in Ops : <<"context", o>> \in Promises
    /\ \A p \in Prompts : <<"ready", p>> \in Promises /\ <<"reply", p>> \in Promises
  BY Zenon DEF Promises

\* The phases in which the calls that await a promise go on.
LEMMA Resumed ==
    /\ Resumes(<<"disposed", None>>) = AfterDisposal
    /\ \A o : Resumes(<<"context", o>>) = {"enter", "start"}
    /\ \A p : Resumes(<<"ready", p>>) = {"joined", "check", "stop", "halt"}
    /\ \A p : Resumes(<<"reply", p>>) = {"drop"}
  BY Zenon DEF Resumes

\* What disposeSession does with the queues.
LEMMA DisposeLoop ==
    ASSUME RecordInv, NEW t \in Tasks, NEW then \in AfterDisposal, DisposeSession(t, then)
    PROVE  /\ LoopStep(t)
           /\ \/ task'[t].at = then
              \/ task'[t].at = "flushing" /\ task'[t].then = then
           /\ task'[t].sess = task[t].sess
           /\ rec' = rec \/ rec' = [rec EXCEPT !.disposing = TRUE]
  <1>1. task \in [Tasks -> Call]
    BY TypedCalls, Zenon DEF RecordInv
  <1>2. then \notin Asleep
    BY Zenon DEF AfterDisposal, Asleep
  <1>3. CASE task' = Blocked(t, <<"disposed", None>>, then) /\ Await(t, <<"disposed", None>>)
               /\ UNCHANGED rec
    BY <1>1, <1>3, Updated, ThePromises, Resumed DEF LoopStep
  <1>4. CASE task' = Flushing(t, then) /\ Yield /\ rec' = [rec EXCEPT !.disposing = TRUE]
    BY <1>1, <1>4, Updated DEF LoopStep
  <1>5. CASE task' = Moved(t, then) /\ GoOn(t) /\ UNCHANGED rec
    BY <1>1, <1>2, <1>5, Updated DEF LoopStep
  <1>6. QED
    BY <1>3, <1>4, <1>5, Zenon DEF DisposeSession, Flushing

\* Every handler takes a turn of the event loop.
LEMMA EveryTurn ==
    ASSUME RecordInv, NEW t \in Tasks, Turns(t)
    PROVE  /\ Turn(t) /\ LoopStep(t)
           /\ task'[t].at = "enter" => t \in Prompts /\ Arrive(t)
  <1>1. /\ task \in [Tasks -> Call]
        /\ rec.context \in Ops \cup {None} /\ rec.ready \in Prompts \cup {None}
        /\ rec.reply \in Prompts \cup {None}
    BY TypedCalls, Zenon DEF RecordInv, TypeOK
  <1>2. CASE Inspect(t) \/ Captured(t) \/ Drop(t)
    <2>1. Turn(t) /\ "look" \notin Asleep /\ {"look", "end", "remove"} \subseteq AfterDisposal
      BY <1>2, Zenon DEF Inspect, Captured, Drop, Asleep, AfterDisposal
    <2>2. CASE task' = Moved(t, "look") /\ GoOn(t)
      BY <1>1, <2>1, <2>2, Updated DEF LoopStep
    <2>3. ASSUME NEW then \in {"look", "end", "remove"}, DisposeSession(t, then)
          PROVE  LoopStep(t) /\ task'[t].at # "enter"
      BY <2>1, <2>3, DisposeLoop, Zenon
    <2>4. QED
      BY <1>2, <2>1, <2>2, <2>3, Zenon DEF Inspect, Captured, Drop
  <1>3. CASE Close(t) \/ CheckIdle(t)
    <2>1. Turn(t) /\ "release" \notin Asleep /\ {"release", "rewind"} \subseteq AfterDisposal
      BY <1>3, Zenon DEF Close, CheckIdle, Asleep, AfterDisposal
    <2>2. CASE task' = Moved(t, "release") /\ GoOn(t)
      BY <1>1, <2>1, <2>2, Updated DEF LoopStep
    <2>3. ASSUME NEW then \in {"release", "rewind"}, DisposeSession(t, then)
          PROVE  LoopStep(t) /\ task'[t].at # "enter"
      BY <2>1, <2>3, DisposeLoop, Zenon
    <2>4. QED
      BY <1>3, <2>1, <2>2, <2>3, Zenon DEF Close, CheckIdle
  <1>4. CASE Look(t) \/ Built(t) \/ BuildFails(t)
    <2>1. Using(t) \notin Asleep /\ Using(t) # "enter"
      BY Zenon DEF Using, Asleep
    <2>2. QED
      BY <1>1, <1>4, <2>1, Updated DEF Look, Built, BuildFails, LoopStep
  <1>5. CASE Flushed(t)
    <2>1. task[t].then \in AfterDisposal
      BY <1>1, Zenon DEF Call
    <2>2. task[t].then \notin Asleep /\ task[t].then # "enter"
      BY <2>1, Zenon DEF AfterDisposal, Asleep
    <2>3. QED
      BY <1>1, <1>5, <2>2, Updated, ThePromises DEF Flushed, LoopStep
  <1>6. CASE t \in Prompts /\ Arrive(t)
    <2>1. "enter" \notin Asleep
      BY Zenon DEF Asleep
    <2>2. QED
      BY <1>1, <1>6, <2>1, Updated, ThePromises, Resumed DEF Arrive, LoopStep
  <1>7. CASE Begin(t) \/ Clear(t) \/ End(t)
    BY <1>1, <1>7, Updated DEF Begin, Clear, End, LoopStep
  <1>8. CASE t \in Prompts /\ (Ready(t) \/ RunEnds(t))
    <2>1. "settling" \notin Asleep
      BY Zenon DEF Asleep
    <2>2. QED
      BY <1>1, <1>8, <2>1, Updated, ThePromises DEF Ready, RunEnds, LoopStep
  <1>9. CASE t \in Ops /\ (Request(t) \/ Release(t))
    <2>1. "start" \notin Asleep
      BY Zenon DEF Asleep
    <2>2. QED
      BY <1>1, <1>9, <2>1, Updated, ThePromises, Resumed DEF Request, Release, LoopStep
  <1>10. CASE StartPoll(t)
    <2>1. {"close", "release", "init"} \cap Asleep = {}
      BY Zenon DEF Asleep
    <2>3. Turn(t)
      BY <1>10, Zenon DEF StartPoll
    <2>4. CASE \E at \in {"close", "release"}, sess \in Tasks \cup {None} :
                  task' = Begun(t, at, sess) /\ GoOn(t)
      BY <1>1, <2>1, <2>3, <2>4, Updated DEF LoopStep
    <2>5. CASE task' = Begun(t, "init", None) /\ Yield
      BY <1>1, <2>3, <2>5, Updated DEF LoopStep
    <2>6. CASE /\ rec.ready # None
               /\ task' = Joining(t, <<"ready", rec.ready>>)
               /\ Await(t, <<"ready", rec.ready>>)
      <3>1. task'[t].at = "joined" /\ task'[t].on = <<"ready", rec.ready>>
        BY <1>1, <2>6, Updated
      <3>2. /\ <<"ready", rec.ready>> \in Promises
            /\ task'[t].at \in Resumes(<<"ready", rec.ready>>)
        BY <1>1, <2>6, <3>1, ThePromises, Resumed, Zenon
      <3>3. QED
        BY <2>3, <2>6, <3>1, <3>2, Zenon DEF LoopStep
    <2>7. rec.session \in Tasks \cup {None} /\ \A p \in Prompts : task[p].sess \in Tasks \cup {None}
      BY <1>1, Zenon DEF RecordInv, TypeOK, Call, Tasks
    <2>8. QED
      BY <1>1, <1>10, <2>4, <2>5, <2>6, <2>7, Zenon DEF StartPoll, Begun, Joining
  <1>11. ASSUME NEW at, at \notin Asleep \cup {"enter"}, GoOn(t),
                \/ task' = Moved(t, at)
                \/ \E sess : task' = Holding(t, at, sess)
         PROVE  LoopStep(t) /\ task'[t].at # "enter"
    BY <1>1, <1>11, Updated DEF LoopStep
  <1>12. ASSUME NEW q \in Promises, NEW at \in Resumes(q) \ {"enter"},
                task' = Blocked(t, q, at), Await(t, q)
         PROVE  LoopStep(t) /\ task'[t].at # "enter"
    BY <1>1, <1>12, Updated DEF LoopStep
  <1>13. ASSUME NEW at, at # "enter", Yield,
                \/ task' = Moved(t, at) \/ task' = Ended(t)
                \/ \E sess : task' = Holding(t, at, sess)
         PROVE  LoopStep(t) /\ task'[t].at # "enter"
    BY <1>1, <1>13, Updated DEF LoopStep
  <1>14. /\ rec.ready # None =>
              /\ <<"ready", rec.ready>> \in Promises
              /\ {"check", "stop", "halt"} \subseteq
                    Resumes(<<"ready", rec.ready>>) \ {"enter"}
         /\ rec.reply # None =>
              /\ <<"reply", rec.reply>> \in Promises
              /\ "drop" \in Resumes(<<"reply", rec.reply>>) \ {"enter"}
    BY <1>1, ThePromises, Resumed, Zenon
  <1>15. /\ {"close", "release", "retained", "check", "halt", "halted", "drop"}
               \cap (Asleep \cup {"enter"}) = {}
         /\ \A at \in {"close", "release", "retained", "check", "halt", "halted", "drop"} :
               at \notin Asleep \cup {"enter"}
    BY Zenon DEF Asleep
  <1>16. CASE Joined(t)
    <2>1. Turn(t) /\ GoOn(t) /\ \E sess : task' = Holding(t, "close", sess)
      BY <1>16, Zenon DEF Joined
    <2>2. QED
      BY <1>11, <1>15, <2>1, Zenon
  <1>17. CASE StartLevel(t) \/ StartReset(t) \/ Retained(t) \/ Rewind(t)
    <2>1. /\ Turn(t)
          /\ \/ \E at \in {"release", "retained"} : task' = Moved(t, at) /\ GoOn(t)
             \/ \E at \in {"init", "retain"} : task' = Moved(t, at) /\ Yield
      BY <1>17, Zenon DEF StartLevel, StartReset, Retained, Rewind
    <2>2. QED
      BY <1>11, <1>13, <1>15, <2>1, Zenon
  <1>18. CASE AwaitReady(t)
    BY <1>11, <1>12, <1>14, <1>15, <1>18, Zenon DEF AwaitReady
  <1>19. CASE Abort(t)
    <2>1. /\ Turn(t)
          /\ \/ /\ rec.ready # None
                /\ task' = Blocked(t, <<"ready", rec.ready>>, "stop")
                /\ Await(t, <<"ready", rec.ready>>)
             \/ Yield /\ \E sess : task' = Holding(t, "stopping", sess)
             \/ Yield /\ task' = Ended(t)
      BY <1>19, Zenon DEF Abort
    <2>2. QED
      BY <1>12, <1>13, <1>14, <2>1
  <1>20. CASE AbortStep(t)
    <2>1. /\ Turn(t) /\ Yield
          /\ \/ \E sess : task' = Holding(t, "stopping", sess)
             \/ task' = Ended(t)
      BY <1>20, Zenon DEF AbortStep, AbortBuilt, AbortEnds
    <2>2. QED
      BY <1>13, <2>1
  <1>21. CASE Delete(t)
    BY <1>11, <1>12, <1>14, <1>15, <1>21, Zenon DEF Delete
  <1>22. CASE AwaitReply(t)
    BY <1>11, <1>12, <1>14, <1>15, <1>22, Zenon DEF AwaitReply
  <1>23. CASE Halt(t) \/ HaltEnds(t) \/ Remove(t)
    <2>1. /\ Turn(t)
          /\ \/ task' = Moved(t, "halted") /\ GoOn(t)
             \/ Yield /\ \E sess : task' = Holding(t, "halting", sess)
             \/ Yield /\ task' = Ended(t)
      BY <1>23, Zenon DEF Halt, HaltEnds, Remove
    <2>2. QED
      BY <1>11, <1>13, <1>15, <2>1, Zenon
  <1>24. QED
    BY <1>2, <1>3, <1>4, <1>5, <1>6, <1>7, <1>8, <1>9, <1>10, <1>16, <1>17, <1>18,
       <1>19, <1>20, <1>21, <1>22, <1>23, Zenon
    DEF Turns, PromptStep, OpStep, DeleteStep, EnsureSession

\* LoopInv is kept.
LEMMA LoopNext ==
    ASSUME RecordInv, LoopInv, NEW t \in Tasks, Turns(t)
    PROVE  LoopInv'
  <1>1. Turn(t) /\ LoopStep(t) /\ \A u \in Tasks : u # t => task'[u] = task[u]
    BY EveryTurn, OthersAlone, Zenon
  <1>2. ASSUME task'[t].at = "enter"
        PROVE  t \in Prompts /\ (InMicro(t)' \/ \E q \in Promises : Awaits(t, q)')
    <2>1. t \in Prompts /\ Arrive(t)
      BY <1>2, EveryTurn, Zenon
    <2>2. /\ Rest \in Seq(Tasks) /\ rec.context \in Ops \cup {None}
          /\ \A q \in Promises : waiting[q] \in Seq(Tasks)
          /\ waiting \in [Promises -> Seq(Tasks)]
      BY <1>1, RestOf, Zenon DEF LoopInv, RecordInv, TypeOK
    <2>3. CASE GoOn(t)
      <3>1. micro' = <<t>> \o Rest
        BY <2>3, Zenon DEF GoOn
      <3>2. 1 \in DOMAIN micro' /\ micro'[1] = t
        BY <2>2, <3>1
      <3>3. QED
        BY <2>1, <3>2, Zenon DEF InMicro
    <2>4. CASE rec.context \in Ops /\ Await(t, <<"context", rec.context>>)
      <3>1. PICK q \in Promises : Await(t, q)
        BY <2>4, ThePromises, Zenon
      <3>2. waiting'[q] = Append(waiting[q], t)
        BY <2>2, <3>1, Zenon DEF Await
      <3>3. /\ Len(waiting[q]) + 1 \in DOMAIN waiting'[q]
            /\ waiting'[q][Len(waiting[q]) + 1] = t
        BY <2>2, <3>2
      <3>4. QED
        BY <2>1, <3>3, Zenon DEF Awaits
    <2>5. QED
      BY <2>1, <2>2, <2>3, <2>4, Zenon DEF Arrive
  <1>3. QED
    BY <1>1, <1>2, LoopKeeps, Zenon

\* What a turn may do with the queues and the lock, besides the first step of a
\* prompt or an operation and the end of an operation.
Kinds(t) ==
    \/ Yield
    \/ GoOn(t)
    \/ Await(t, <<"disposed", None>>) /\ rec.disposing /\ rec' = rec
    \/ \E p \in Prompts : Await(t, <<"ready", p>>) /\ Pending(p) /\ t \notin Prompts
    \/ \E p \in Prompts : /\ Await(t, <<"reply", p>>) /\ t \notin Prompts
                          /\ task[p].at = "running"
    \/ Flushed(t)
    \/ t \in Prompts /\ (Ready(t) \/ RunEnds(t))

\* A turn other than these.
Handler(t) ==
    /\ ~(t \in Prompts /\ Arrive(t))
    /\ ~(t \in Ops /\ (Request(t) \/ Release(t)))

\* Such a turn leaves the lock as it is, and an operation under way.
LEMMA Ordinary ==
    ASSUME RecordInv, NEW t \in Tasks, Turns(t), Handler(t)
    PROVE  /\ Kinds(t)
           /\ rec'.context = rec.context
           /\ t \in Ops => Open(t) /\ Open(t)'
           /\ task'[t].at \notin {"start", "enter"}
  <1>1. /\ task \in [Tasks -> Call] /\ rec.context \in Ops \cup {None}
        /\ rec.ready \in Prompts \cup {None} /\ rec.reply \in Prompts \cup {None}
    BY TypedCalls, Zenon DEF RecordInv, TypeOK
  <1>2. rec \in [session : Tasks \cup {None}, loader : BOOLEAN, prompting : BOOLEAN,
                 aborting : BOOLEAN, ready : Prompts \cup {None},
                 reply : Prompts \cup {None}, context : Ops \cup {None},
                 disposing : BOOLEAN]
    BY Zenon DEF RecordInv, TypeOK
  <1>3. /\ \A o \in Ops : o \notin Prompts \cup Aborts \cup Deletes
        /\ \A a \in Aborts \cup Deletes : a \notin Prompts \cup Ops
    BY HostConstants, Zenon DEF Ops
  <1>4. ASSUME NEW then \in AfterDisposal, DisposeSession(t, then)
        PROVE  /\ Kinds(t) /\ rec'.context = rec.context
               /\ task'[t].at \notin {"start", "enter", "new", "done"}
    <2>1. Kinds(t)
      BY <1>4, Zenon DEF DisposeSession, Kinds
    <2>2. rec'.context = rec.context
      BY <1>2, <1>4, DisposeLoop, Zenon
    <2>3. QED
      BY <1>4, <2>1, <2>2, DisposeLoop, Zenon DEF AfterDisposal
  <1>5. {"look", "end", "remove", "release", "rewind"} \subseteq AfterDisposal
    BY Zenon DEF AfterDisposal
  <1>6. CASE Inspect(t) \/ Captured(t) \/ Drop(t) \/ Close(t) \/ CheckIdle(t)
    <2>1. task[t].at \in {"init", "capturing", "drop", "close", "check"}
      BY <1>6, Zenon DEF Inspect, Captured, Drop, Close, CheckIdle
    <2>2. \/ \E then \in AfterDisposal : DisposeSession(t, then)
          \/ \E at \in {"look", "release"} : task' = Moved(t, at) /\ GoOn(t) /\ UNCHANGED rec
      BY <1>5, <1>6, Zenon DEF Inspect, Captured, Drop, Close, CheckIdle
    <2>3. CASE \E at \in {"look", "release"} : task' = Moved(t, at) /\ GoOn(t) /\ UNCHANGED rec
      BY <1>1, <2>1, <2>3, Updated DEF Kinds, Open
    <2>4. QED
      BY <1>4, <2>1, <2>2, <2>3, Zenon DEF Open
  <1>7. CASE Look(t) \/ Built(t) \/ BuildFails(t)
    <2>1. Using(t) \in {"ready", "close"}
      BY Zenon DEF Using
    <2>2. task'[t].at \in {"ready", "close", "build"}
      BY <1>1, <1>7, <2>1, Updated DEF Look, Built, BuildFails
    <2>3. task[t].at \in {"init", "look", "build"} /\ Kinds(t)
      BY <1>7, Zenon DEF Look, Built, BuildFails, Kinds
    <2>4. rec'.context = rec.context
      BY <1>2, <1>7, Zenon DEF Look, Built, BuildFails
    <2>5. QED
      BY <2>2, <2>3, <2>4, Zenon DEF Open
  <1>8. CASE Flushed(t)
    <2>1. task'[t].at \in AfterDisposal /\ task[t].at = "flushing"
      BY <1>1, <1>8, Updated DEF Flushed, Call
    <2>2. rec'.context = rec.context
      BY <1>2, <1>8, Zenon DEF Flushed
    <2>3. QED
      BY <1>8, <2>1, <2>2, Zenon DEF Kinds, Open, AfterDisposal
  <1>9. CASE t \in Prompts /\ (Begin(t) \/ Ready(t) \/ RunEnds(t) \/ Clear(t) \/ End(t))
    <2>1. task'[t].at \in {"done", "init", "settling", "running", "capturing"}
      BY <1>1, <1>9, Updated DEF Begin, Ready, RunEnds, Clear, End
    <2>2. rec'.context = rec.context
      BY <1>2, <1>9, Zenon DEF Begin, Ready, RunEnds, Clear, End
    <2>3. Kinds(t)
      BY <1>9, Zenon DEF Begin, Clear, End, Kinds
    <2>4. QED
      BY <1>3, <1>9, <2>1, <2>2, <2>3, Zenon
  <1>10. CASE StartPoll(t)
    <2>1. UNCHANGED rec /\ task[t].at = "start" /\ t \notin Prompts
      BY <1>3, <1>10, Zenon DEF StartPoll, Ops
    <2>2. /\ \/ Yield \/ GoOn(t)
             \/ rec.ready # None /\ Pending(rec.ready) /\ Await(t, <<"ready", rec.ready>>)
      BY <1>10, Zenon DEF StartPoll
    <2>3. \/ \E at \in {"close", "release", "init"}, sess \in Tasks \cup {None} :
                task' = Begun(t, at, sess)
          \/ task' = Joining(t, <<"ready", rec.ready>>)
      <3>1. /\ rec.session \in Tasks \cup {None}
            /\ \A p \in Prompts : task[p].sess \in Tasks \cup {None}
        BY <1>1, Zenon DEF RecordInv, TypeOK, Call, Tasks
      <3>2. QED
        BY <1>1, <1>10, <3>1, Zenon DEF StartPoll, Begun, Joining
    <2>4. task'[t].at \in {"close", "release", "init", "joined"}
      BY <1>1, <2>3, Updated
    <2>5. QED
      BY <1>1, <2>1, <2>2, <2>4, Zenon DEF Kinds, Open
  <1>11. CASE t \in Ops /\ (Joined(t) \/ StartLevel(t) \/ StartReset(t) \/ Retained(t)
                              \/ AwaitReady(t) \/ Rewind(t))
    <2>1. UNCHANGED rec /\ task[t].at \in {"joined", "start", "retain", "retained", "rewind"}
      BY <1>11, Zenon DEF Joined, StartLevel, StartReset, Retained, AwaitReady, Rewind
    <2>2. /\ \/ Yield \/ GoOn(t)
             \/ rec.ready # None /\ Pending(rec.ready) /\ Await(t, <<"ready", rec.ready>>)
      BY <1>11, Zenon DEF Joined, StartLevel, StartReset, Retained, AwaitReady, Rewind
    <2>3. \/ \E at \in {"release", "init", "retain", "retained", "check"} : task' = Moved(t, at)
          \/ \E sess : task' = Holding(t, "close", sess)
          \/ task' = Blocked(t, <<"ready", rec.ready>>, "check")
      BY <1>11, Zenon DEF Joined, StartLevel, StartReset, Retained, AwaitReady, Rewind
    <2>4. task'[t].at \in {"close", "release", "init", "retain", "retained", "check"}
      BY <1>1, <2>3, Updated
    <2>5. QED
      BY <1>1, <1>3, <1>11, <2>1, <2>2, <2>4, Zenon DEF Kinds, Open
  <1>12. CASE t \in Aborts \cup Deletes /\
                 (Abort(t) \/ AbortStep(t) \/ Delete(t) \/ Halt(t) \/ HaltEnds(t)
                     \/ AwaitReply(t) \/ Remove(t))
    <2>1. rec' = rec \/ rec' = [rec EXCEPT !.aborting = TRUE]
      BY <1>12, Zenon DEF Abort, AbortStep, AbortBuilt, AbortEnds, Delete, Halt, HaltEnds,
                   AwaitReply, Remove
    <2>2. /\ \/ Yield \/ GoOn(t)
             \/ rec.ready # None /\ Pending(rec.ready) /\ Await(t, <<"ready", rec.ready>>)
             \/ /\ rec.reply # None /\ task[rec.reply].at = "running"
                /\ Await(t, <<"reply", rec.reply>>)
      BY <1>12, Zenon DEF Abort, AbortStep, AbortBuilt, AbortEnds, Delete, Halt, HaltEnds,
                   AwaitReply, Remove
    <2>3. \/ task' = Ended(t)
          \/ \E at \in {"halt", "halted", "drop"} : task' = Moved(t, at)
          \/ \E at \in {"stopping", "halting"} : \E sess : task' = Holding(t, at, sess)
          \/ \E at \in {"stop", "halt", "drop"} : \E q : task' = Blocked(t, q, at)
      <3>1. CASE Abort(t)
        BY <3>1, Zenon DEF Abort
      <3>2. CASE AbortStep(t)
        BY <3>2, Zenon DEF AbortStep, AbortBuilt, AbortEnds
      <3>3. CASE Delete(t) \/ AwaitReply(t)
        BY <3>3, Zenon DEF Delete, AwaitReply
      <3>4. CASE Halt(t) \/ HaltEnds(t) \/ Remove(t)
        BY <3>4, Zenon DEF Halt, HaltEnds, Remove
      <3>5. QED
        BY <1>12, <3>1, <3>2, <3>3, <3>4, Zenon
    <2>4. task'[t].at \notin {"start", "enter"}
      BY <1>1, <2>3, Updated
    <2>5. rec'.context = rec.context
      BY <1>2, <2>1, Zenon
    <2>6. QED
      BY <1>1, <1>3, <1>12, <2>2, <2>4, <2>5, Zenon DEF Kinds
  <1>13. QED
    BY <1>6, <1>7, <1>8, <1>9, <1>10, <1>11, <1>12, Zenon
    DEF Turns, Handler, PromptStep, OpStep, AbortStep, DeleteStep, EnsureSession

\* Microtasks keep their order, and the calls that are woken come after them.
LEMMA Order ==
    ASSUME LoopInv, NEW t \in Tasks, Turn(t), LoopStep(t),
           NEW i \in DOMAIN micro', NEW j \in DOMAIN micro', NEW k \in DOMAIN micro,
           micro'[i] = micro[k], micro[k] # t, micro'[j] # t,
           \A l \in DOMAIN micro : micro[l] = micro'[j] => k < l
    PROVE  i < j
  <1>1. /\ Rest \in Seq(Tasks) /\ Len(Rest) \in Nat
        /\ \A n \in 1..Len(Rest) : n + 1 \in DOMAIN micro /\ Rest[n] = micro[n + 1]
        /\ k - 1 \in 1..Len(Rest) /\ Rest[k - 1] = micro[k]
    BY TurnAlone
  <1>2. /\ micro' \in Seq(Tasks) /\ DOMAIN micro' = 1..Len(micro') /\ Len(micro') \in Nat
        /\ \A m, n \in 1..Len(micro') : micro'[m] = micro'[n] => m = n
    BY QueuesAfter DEF Queues, Once
  <1>3. micro \in Seq(Tasks) /\ k \in Nat /\ i \in Nat /\ j \in Nat
    BY <1>2 DEF LoopInv
  <1>4. ASSUME Len(micro') >= Len(Rest),
               \A n \in 1..Len(Rest) : micro'[n] = Rest[n]
        PROVE  i < j
    <2>1. k - 1 \in 1..Len(micro') /\ micro'[k - 1] = micro'[i]
      BY <1>1, <1>2, <1>3, <1>4
    <2>2. i = k - 1
      BY <1>2, <2>1, Zenon
    <2>3. CASE j \in 1..Len(Rest)
      <3>1. j + 1 \in DOMAIN micro /\ micro[j + 1] = micro'[j]
        BY <1>1, <1>4, <2>3, Zenon
      <3>2. k < j + 1
        BY <3>1, Zenon
      <3>3. QED
        BY <1>3, <2>2, <3>2
    <2>4. CASE j \notin 1..Len(Rest)
      <3>1. j > Len(Rest)
        BY <1>1, <1>2, <1>3, <2>4
      <3>2. QED
        BY <1>1, <1>3, <2>2, <3>1
    <2>5. QED
      BY <2>3, <2>4, Zenon
  <1>5. CASE Yield \/ \E q \in Promises : Await(t, q)
    <2>1. micro' = Rest
      BY <1>5, Zenon DEF Yield, Await
    <2>2. QED
      BY <1>1, <1>4, <2>1
  <1>6. CASE GoOn(t)
    <2>1. micro' = <<t>> \o Rest
      BY <1>6, Zenon DEF GoOn
    <2>2. /\ Len(micro') = Len(Rest) + 1 /\ micro'[1] = t
          /\ \A n \in 2..Len(micro') : n - 1 \in 1..Len(Rest) /\ micro'[n] = Rest[n - 1]
      BY <1>1, <2>1
    <2>3. \A n \in 2..Len(micro') : n \in DOMAIN micro /\ micro'[n] = micro[n]
      <3>1. \A n \in 2..Len(micro') : (n - 1) + 1 = n
        OBVIOUS
      <3>2. QED
        BY <1>1, <2>2, <3>1, Zenon
    <2>4. i \in 2..Len(micro') /\ j \in 2..Len(micro')
      BY <1>2, <2>2
    <2>5. i = k
      <3>1. k \in 2..Len(micro') /\ micro'[k] = micro[k]
        BY <1>1, <1>3, <2>2, <2>3
      <3>2. QED
        BY <1>2, <1>3, <2>4, <3>1
    <2>6. k < j
      BY <2>3, <2>4, Zenon
    <2>7. QED
      BY <2>5, <2>6, Zenon
  <1>7. ASSUME NEW q \in Promises, NEW first \in {<<>>, <<t>>}, Resolve(q, first)
        PROVE  i < j
    <2>1. micro' = (Rest \o first) \o waiting[q]
      BY <1>7, Zenon DEF Resolve
    <2>2. waiting[q] \in Seq(Tasks) /\ first \in Seq(Tasks)
      BY <1>7, Single, Nothing DEF LoopInv
    <2>3. /\ Len(micro') >= Len(Rest)
          /\ \A n \in 1..Len(Rest) : micro'[n] = Rest[n]
      <3>1. \A u \in Seq(Tasks), v \in Seq(Tasks) : micro' = (Rest \o u) \o v =>
                /\ Len(micro') >= Len(Rest)
                /\ \A n \in 1..Len(Rest) : micro'[n] = Rest[n]
        BY <1>1, ThreeParts
      <3>2. QED
        BY <2>1, <2>2, <3>1, Zenon
    <2>4. QED
      BY <1>4, <2>3, Zenon
  <1>8. QED
    BY <1>5, <1>6, <1>7, Zenon DEF LoopStep

\* The queues of the other promises are left alone.
LEMMA OtherQueues ==
    ASSUME LoopInv, NEW t \in Tasks
    PROVE  /\ Yield \/ GoOn(t) => waiting' = waiting
           /\ \A q, r \in Promises : Await(t, q) /\ r # q => waiting'[r] = waiting[r]
           /\ \A q \in Promises : Await(t, q) => waiting'[q] = Append(waiting[q], t)
           /\ \A q, r \in Promises : \A first :
                 Resolve(q, first) /\ r # q => waiting'[r] = waiting[r]
           /\ \A q \in Promises : \A first : Resolve(q, first) => waiting'[q] = <<>>
  BY Zenon DEF LoopInv, Yield, GoOn, Await, Resolve

\* The queues of the context operations change in three places.
LEMMA ContextQueues ==
    ASSUME RecordInv, LoopInv, NEW t \in Tasks, Turns(t), Handler(t), NEW c \in Ops
    PROVE  waiting'[<<"context", c>>] = waiting[<<"context", c>>]
  <1>1. Kinds(t)
    BY Ordinary, Zenon
  <1>2. /\ <<"context", c>> \in Promises
        /\ <<"disposed", None>> \in Promises /\ <<"context", c>> # <<"disposed", None>>
        /\ \A p \in Prompts : /\ <<"ready", p>> \in Promises
                              /\ <<"reply", p>> \in Promises
                              /\ <<"context", c>> # <<"ready", p>>
                              /\ <<"context", c>> # <<"reply", p>>
    BY ThePromises, Zenon
  <1>3. /\ Flushed(t) => Resolve(<<"disposed", None>>, <<t>>)
        /\ Ready(t) => \E first \in {<<>>, <<t>>} : Resolve(<<"ready", t>>, first)
        /\ RunEnds(t) => \E first : Resolve(<<"reply", t>>, first)
    BY Zenon DEF Flushed, Ready, RunEnds
  <1>4. QED
    BY <1>1, <1>2, <1>3, OtherQueues, Zenon DEF Kinds

\* An operation that waits for another one has not started.
LEMMA WaitsAtStart ==
    ASSUME LoopInv, NEW o \in Ops, NEW c \in Ops, Awaits(o, <<"context", c>>)
    PROVE  task[o].at = "start"
  <1>1. o \in Tasks /\ o \notin Prompts
    BY HostConstants, Zenon DEF Tasks, Ops
  <1>2. task[o].at \in {"enter", "start"}
    BY <1>1, ThePromises, Resumed, Zenon DEF LoopInv
  <1>3. QED
    BY <1>1, <1>2, Zenon DEF LoopInv

\* The turns that do not request or pass on the lock.
LEMMA LockHandler ==
    ASSUME RecordInv, LoopInv, LockInv, NEW t \in Tasks, Turns(t), Handler(t)
    PROVE  LockInv'
  <1>1. /\ Turn(t) /\ LoopStep(t) /\ Queues(t)
        /\ \A u \in Tasks : u # t => task'[u] = task[u]
    BY EveryTurn, OthersAlone, QueuesAfter, Zenon
  <1>2. /\ rec'.context = rec.context
        /\ t \in Ops => Open(t) /\ Open(t)'
        /\ task'[t].at \notin {"start", "enter"} /\ Kinds(t)
    BY Ordinary, Zenon
  <1>3. \A c \in Ops : waiting'[<<"context", c>>] = waiting[<<"context", c>>]
    BY ContextQueues, Zenon
  <1>4. Ops \subseteq Tasks /\ Prompts \subseteq Tasks
    BY Zenon DEF Tasks
  <1>5. \A o \in Ops : Held(o)' <=> Held(o)
    <2>1. \A o \in Ops : Open(o)' <=> Open(o)
      <3>1. \A o \in Ops : o # t => (Open(o)' <=> Open(o))
        BY <1>1, <1>4, Zenon DEF Open
      <3>2. QED
        BY <1>2, <3>1, Zenon
    <2>2. \A o, c \in Ops : Awaits(o, <<"context", c>>)' <=> Awaits(o, <<"context", c>>)
      BY <1>3, Zenon DEF Awaits
    <2>3. QED
      BY <2>1, <2>2, Zenon DEF Held
  <1>6. \A i \in DOMAIN micro' :
            micro'[i] \in Prompts /\ task'[micro'[i]].at = "enter" =>
                \A o \in Ops : Held(o)' =>
                    /\ task'[o].at = "start"
                    /\ \A j \in DOMAIN micro' : micro'[j] = o => i < j
    <2>1. SUFFICES ASSUME NEW i \in DOMAIN micro', micro'[i] \in Prompts,
                          task'[micro'[i]].at = "enter", NEW o \in Ops, Held(o)
                   PROVE  /\ task'[o].at = "start"
                          /\ \A j \in DOMAIN micro' : micro'[j] = o => i < j
      BY <1>5, Zenon
    <2>2. PICK p \in Prompts : p = micro'[i]
      BY <2>1, Zenon
    <2>3. p \in Tasks /\ p # t /\ task[p].at = "enter"
      BY <1>1, <1>2, <1>4, <2>1, <2>2, Zenon
    <2>4. micro \in Seq(Tasks) /\ waiting \in [Promises -> Seq(Tasks)]
          /\ micro' \in Seq(Tasks) /\ DOMAIN micro' = 1..Len(micro')
      BY <1>1 DEF LoopInv, Queues
    <2>5. Has(micro', p)
      BY <2>2, <2>4, Zenon DEF Has
    <2>6. InMicro(p)
      <3>1. SUFFICES ASSUME ~InMicro(p) PROVE FALSE
        BY Zenon
      <3>2. PICK c \in Ops : Awaits(p, <<"context", c>>)
        <4>1. PICK q \in Promises : Awaits(p, q)
          BY <2>3, <3>1, Zenon DEF LoopInv
        <4>2. "enter" \in Resumes(q)
          BY <2>3, <4>1 DEF LoopInv
        <4>3. q[1] = "context"
          BY <4>2 DEF Resumes, Promises, AfterDisposal
        <4>4. \E c \in Ops : q = <<"context", c>>
          BY <4>3 DEF Promises
        <4>5. QED
          BY <4>1, <4>4, Zenon
      <3>3. <<"context", c>> \in Promises /\ Has(waiting[<<"context", c>>], p)
        BY <2>4, <3>2, InWords, ThePromises, Zenon
      <3>4. Has(waiting'[<<"context", c>>], p)
        BY <1>3, <3>3, Zenon
      <3>5. QED
        BY <1>1, <2>3, <2>5, <3>3, <3>4, Zenon DEF Queues
    <2>7. PICK k \in DOMAIN micro : micro[k] = p
      BY <2>6, Zenon DEF InMicro
    <2>8. /\ task[o].at = "start"
          /\ \A j \in DOMAIN micro : micro[j] = o => k < j
      BY <2>1, <2>2, <2>3, <2>7, Zenon DEF LockInv
    <2>9. o # t
      <3>1. SUFFICES ASSUME o = t PROVE FALSE
        BY Zenon
      <3>2. micro # <<>> /\ DOMAIN micro = 1..Len(micro) /\ Len(micro) \in Nat
        BY <2>4, <2>7
      <3>3. 1 \in DOMAIN micro /\ micro[1] = t
        BY <1>1, <2>4, <2>7, <3>2 DEF Turn
      <3>4. k < 1
        BY <2>8, <3>1, <3>3, Zenon
      <3>5. QED
        BY <2>4, <2>7, <3>2, <3>4
    <2>10. task'[o].at = "start"
      BY <1>1, <1>4, <2>8, <2>9, Zenon
    <2>11. ASSUME NEW j \in DOMAIN micro', micro'[j] = o
           PROVE  i < j
      <3>1. micro'[i] = micro[k] /\ micro[k] # t /\ micro'[j] # t
        BY <2>2, <2>3, <2>7, <2>9, <2>11, Zenon
      <3>2. \A l \in DOMAIN micro : micro[l] = micro'[j] => k < l
        BY <2>8, <2>11, Zenon
      <3>3. QED
        BY <1>1, <3>1, <3>2, Order
    <2>12. QED
      BY <2>10, <2>11, Zenon
  <1>7. QED
    BY <1>2, <1>3, <1>5, <1>6, Zenon DEF LockInv

\* A call that is new is not among the microtasks, so it has its turn alone.
LEMMA NewAlone ==
    ASSUME LoopInv, NEW t \in Tasks, Turn(t), task[t].at = "new"
    PROVE  micro = <<>> /\ Rest = <<>>
  <1>1. ~InMicro(t) /\ micro \in Seq(Tasks)
    BY Zenon DEF LoopInv
  <1>2. micro = <<>>
    BY <1>1 DEF Turn, InMicro
  <1>3. QED
    BY <1>2, Zenon DEF Rest

\* The elements of the queue a call has joined.
LEMMA Joins ==
    ASSUME LoopInv, NEW t \in Tasks, NEW q \in Promises, Await(t, q)
    PROVE  /\ \A r \in Promises : r # q => waiting'[r] = waiting[r]
           /\ Len(waiting'[q]) = Len(waiting[q]) + 1 /\ Len(waiting[q]) \in Nat
           /\ DOMAIN waiting'[q] = 1..(Len(waiting[q]) + 1)
           /\ DOMAIN waiting[q] = 1..Len(waiting[q])
           /\ waiting'[q][Len(waiting[q]) + 1] = t
           /\ \A i \in 1..Len(waiting[q]) : waiting'[q][i] = waiting[q][i]
           /\ Awaits(t, q)'
           /\ \A u : \A r \in Promises : u # t => (Awaits(u, r)' <=> Awaits(u, r))
  <1>1. waiting \in [Promises -> Seq(Tasks)] /\ waiting[q] \in Seq(Tasks)
    BY Zenon DEF LoopInv
  <1>2. /\ \A r \in Promises : r # q => waiting'[r] = waiting[r]
        /\ waiting'[q] = Append(waiting[q], t)
    BY OtherQueues, Zenon
  <1>3. /\ Len(waiting'[q]) = Len(waiting[q]) + 1 /\ Len(waiting[q]) \in Nat
        /\ DOMAIN waiting'[q] = 1..(Len(waiting[q]) + 1)
        /\ DOMAIN waiting[q] = 1..Len(waiting[q])
        /\ waiting'[q][Len(waiting[q]) + 1] = t
        /\ \A i \in 1..Len(waiting[q]) : waiting'[q][i] = waiting[q][i]
    BY <1>1, <1>2
  <1>4. Awaits(t, q)'
    <2>1. Len(waiting[q]) + 1 \in DOMAIN waiting'[q]
      BY <1>3
    <2>2. QED
      BY <1>3, <2>1, Zenon DEF Awaits
  <1>5. \A i \in DOMAIN waiting'[q] : i \in 1..Len(waiting[q]) \/ i = Len(waiting[q]) + 1
    BY <1>3
  <1>6. \A i \in 1..Len(waiting[q]) : i \in DOMAIN waiting'[q]
    BY <1>3
  <1>7. \A u : u # t => (Awaits(u, q)' <=> Awaits(u, q))
    BY <1>3, <1>5, <1>6, Zenon DEF Awaits
  <1>8. \A u : \A r \in Promises : r # q => (Awaits(u, r)' <=> Awaits(u, r))
    BY <1>2, Zenon DEF Awaits
  <1>9. QED
    BY <1>2, <1>3, <1>4, <1>7, <1>8, Zenon

\* A prompt arrives.
LEMMA LockArrive ==
    ASSUME RecordInv, LoopInv, LockInv, NEW t \in Prompts, Arrive(t)
    PROVE  LockInv'
  <1>1. /\ t \in Tasks /\ t \notin Ops /\ Turns(t) /\ Turn(t)
        /\ task[t].at = "new" /\ UNCHANGED rec
        /\ rec.context \in Ops \cup {None} /\ None \notin Ops
    BY HostConstants, Zenon DEF Tasks, Ops, Turns, Arrive, RecordInv, TypeOK
  <1>2. micro = <<>> /\ Rest = <<>>
    BY <1>1, NewAlone, Zenon
  <1>3. \A o \in Ops : o \in Tasks /\ task'[o] = task[o]
    BY <1>1, OthersAlone, Zenon DEF Tasks
  <1>4. CASE rec.context = None
    <2>1. GoOn(t) /\ waiting' = waiting
      BY <1>4, Zenon DEF Arrive, GoOn
    <2>2. \A o \in Ops : ~Held(o)
      BY <1>4, Zenon DEF LockInv
    <2>3. \A o \in Ops : Held(o)' => Held(o)
      BY <1>3, <2>1, Zenon DEF Held, Open, Awaits
    <2>4. QED
      BY <1>1, <2>1, <2>2, <2>3, Zenon DEF LockInv
  <1>5. CASE rec.context # None
    <2>1. PICK c \in Ops : c = rec.context
      BY <1>1, <1>5, Zenon
    <2>2. PICK q \in Promises : q = <<"context", c>>
      BY ThePromises, Zenon
    <2>3. Await(t, q)
      BY <1>5, <2>1, <2>2, Zenon DEF Arrive
    <2>4. micro' = <<>>
      BY <1>2, <2>3, Zenon DEF Await
    <2>5. \A o \in Ops : Held(o)' <=> Held(o)
      <3>1. \A o, d \in Ops : Awaits(o, <<"context", d>>)' <=> Awaits(o, <<"context", d>>)
        BY <1>1, <2>3, Joins, ThePromises, Zenon
      <3>2. QED
        BY <1>3, <3>1, Zenon DEF Held, Open
    <2>6. ASSUME NEW d \in Ops, NEW i \in DOMAIN waiting'[<<"context", d>>],
                 waiting'[<<"context", d>>][i] \in Ops
          PROVE  i = Len(waiting'[<<"context", d>>]) /\ d # rec.context
      <3>1. CASE d = c
        <4>1. i \in 1..(Len(waiting[q]) + 1) /\ waiting'[q][i] \in Ops
          BY <1>1, <2>2, <2>3, <2>6, <3>1, Joins
        <4>2. i \in 1..Len(waiting[q])
          BY <1>1, <2>3, <4>1, Joins
        <4>3. waiting[q][i] \in Ops /\ i \in DOMAIN waiting[q]
          BY <1>1, <2>3, <4>1, <4>2, Joins, Zenon
        <4>4. c # rec.context
          BY <2>2, <4>3, Zenon DEF LockInv
        <4>5. QED
          BY <2>1, <4>4, Zenon
      <3>2. CASE d # c
        <4>1. waiting'[<<"context", d>>] = waiting[<<"context", d>>]
          BY <1>1, <2>2, <2>3, <3>2, Joins, ThePromises
        <4>2. QED
          BY <2>6, <4>1, Zenon DEF LockInv
      <3>3. QED
        BY <3>1, <3>2, Zenon
    <2>7. QED
      BY <1>1, <2>4, <2>5, <2>6 DEF LockInv
  <1>6. QED
    BY <1>4, <1>5, Zenon

\* A context operation is requested.
LEMMA LockRequest ==
    ASSUME RecordInv, LoopInv, LockInv, WaitInv, NEW t \in Ops, Request(t)
    PROVE  LockInv'
  <1>1. /\ t \in Tasks /\ t \notin Prompts /\ Turns(t) /\ Turn(t)
        /\ task[t].at = "new" /\ ~Open(t) /\ ~Held(t)
        /\ rec.context \in Ops \cup {None} /\ None \notin Ops
        /\ task \in [Tasks -> Call]
    BY HostConstants, TypedCalls, Zenon
    DEF Tasks, Ops, Turns, Request, RecordInv, TypeOK, Open, Held
  <1>2. micro = <<>> /\ Rest = <<>>
    BY <1>1, NewAlone, Zenon
  <1>3. \A o \in Ops : o # t => o \in Tasks /\ task'[o] = task[o]
    BY <1>1, OthersAlone, Zenon DEF Tasks
  <1>4. rec' = [rec EXCEPT !.context = t] => rec'.context = t
    BY Zenon DEF RecordInv, TypeOK
  <1>5. \A u \in Tasks : ~Awaits(u, <<"context", t>>)
    BY <1>1, Zenon DEF WaitInv
  <1>6. CASE task' = Ended(t) /\ Yield /\ UNCHANGED rec
    <2>1. micro' = <<>> /\ waiting' = waiting
      BY <1>2, <1>6, Zenon DEF Yield
    <2>2. ~Open(t)'
      BY <1>1, <1>6, Updated, Zenon DEF Open
    <2>3. \A o \in Ops : Held(o)' => Held(o)
      BY <1>3, <2>1, <2>2, Zenon DEF Held, Open, Awaits
    <2>4. QED
      BY <1>6, <2>1, <2>3 DEF LockInv
  <1>7. CASE rec.context = None /\ rec' = [rec EXCEPT !.context = t] /\ GoOn(t)
    <2>1. waiting' = waiting /\ micro' = <<t>> \o <<>>
      BY <1>2, <1>7, Zenon DEF GoOn
    <2>2. \A i \in DOMAIN micro' : micro'[i] \notin Prompts
      <3>1. Len(micro') = 1 /\ DOMAIN micro' = 1..1 /\ micro'[1] = t
        BY <2>1
      <3>2. QED
        BY <1>1, <3>1
    <2>3. \A o \in Ops : Held(o)' => o = t
      BY <1>3, <1>7, <2>1 DEF LockInv, Held, Open, Awaits
    <2>4. ASSUME NEW d \in Ops, NEW i \in DOMAIN waiting'[<<"context", d>>],
                 waiting'[<<"context", d>>][i] \in Ops
          PROVE  i = Len(waiting'[<<"context", d>>]) /\ d # t
      <3>1. waiting[<<"context", d>>][i] \in Tasks /\ Awaits(waiting[<<"context", d>>][i], <<"context", d>>)
        BY <2>1, <2>4, Zenon DEF Awaits, Tasks
      <3>2. QED
        BY <1>5, <2>1, <2>4, <3>1, Zenon DEF LockInv
    <2>5. QED
      BY <1>1, <1>4, <1>7, <2>2, <2>3, <2>4, Zenon DEF LockInv
  <1>8. CASE /\ rec.context # None /\ rec' = [rec EXCEPT !.context = t]
             /\ Await(t, <<"context", rec.context>>)
    <2>1. PICK c \in Ops : c = rec.context
      BY <1>1, <1>8, Zenon
    <2>2. PICK q \in Promises : q = <<"context", c>>
      BY ThePromises, Zenon
    <2>3. Await(t, q) /\ rec'.context = t /\ c # t
      BY <1>1, <1>4, <1>8, <2>1, <2>2, Zenon DEF WaitInv
    <2>4. micro' = <<>>
      BY <1>2, <2>3, Zenon DEF Await
    <2>5. \A o \in Ops : Held(o)' => Held(o)
      <3>1. \A o, d \in Ops : o # t =>
                (Awaits(o, <<"context", d>>)' <=> Awaits(o, <<"context", d>>))
        BY <1>1, <2>3, Joins, ThePromises, Zenon
      <3>2. Awaits(t, <<"context", c>>)'
        BY <1>1, <2>2, <2>3, Joins, Zenon
      <3>3. QED
        BY <1>3, <3>1, <3>2, Zenon DEF Held, Open
    <2>6. ASSUME NEW d \in Ops, NEW i \in DOMAIN waiting'[<<"context", d>>],
                 waiting'[<<"context", d>>][i] \in Ops
          PROVE  i = Len(waiting'[<<"context", d>>]) /\ d # t
      <3>1. CASE d = c
        <4>1. /\ i \in 1..(Len(waiting[q]) + 1) /\ Len(waiting[q]) \in Nat
              /\ waiting'[q][i] \in Ops
          BY <1>1, <2>2, <2>3, <2>6, <3>1, Joins, Zenon
        <4>2. i \notin 1..Len(waiting[q])
          <5>1. SUFFICES ASSUME i \in 1..Len(waiting[q]) PROVE FALSE
            BY Zenon
          <5>2. waiting[q][i] \in Ops /\ i \in DOMAIN waiting[q]
            BY <1>1, <2>3, <4>1, <5>1, Joins, Zenon
          <5>3. QED
            BY <2>1, <2>2, <5>2, Zenon DEF LockInv
        <4>3. i = Len(waiting[q]) + 1
          BY <4>1, <4>2
        <4>4. QED
          BY <1>1, <2>2, <2>3, <3>1, <4>3, Joins, Zenon
      <3>2. CASE d # c
        <4>1. waiting'[<<"context", d>>] = waiting[<<"context", d>>]
          BY <1>1, <2>2, <2>3, <3>2, Joins, ThePromises
        <4>2. /\ waiting[<<"context", d>>][i] \in Tasks
              /\ Awaits(waiting[<<"context", d>>][i], <<"context", d>>)
          BY <2>6, <4>1, Zenon DEF Awaits, Tasks
        <4>3. QED
          BY <1>5, <2>6, <4>1, <4>2, Zenon DEF LockInv
      <3>3. QED
        BY <3>1, <3>2, Zenon
    <2>7. QED
      BY <1>1, <2>3, <2>4, <2>5, <2>6 DEF LockInv
  <1>9. QED
    BY <1>6, <1>7, <1>8, Zenon DEF Request

\* The lock is passed on: the next operation is the last of those that wait.
LEMMA LockRelease ==
    ASSUME RecordInv, LoopInv, LockInv, NEW t \in Ops, Release(t)
    PROVE  LockInv'
  <1>1. /\ t \in Tasks /\ t \notin Prompts /\ Turns(t) /\ Turn(t)
        /\ task[t].at = "release" /\ task \in [Tasks -> Call]
        /\ None \notin Ops /\ Ops \subseteq Tasks
    BY HostConstants, TypedCalls, Zenon DEF Tasks, Ops, Turns, OpStep, Release, RecordInv
  <1>2. PICK q \in Promises : q = <<"context", t>>
    BY ThePromises, Zenon
  <1>3. Resolve(q, <<>>) /\ task' = Ended(t)
    BY <1>2, Zenon DEF Release
  <1>4. rec'.context = IF rec.context = t THEN None ELSE rec.context
    BY Zenon DEF Release, RecordInv, TypeOK
  <1>5. \A o \in Ops : o # t => task'[o] = task[o]
    BY <1>1, OthersAlone, Zenon
  <1>6. ~Open(t)' /\ Open(t)
    BY <1>1, <1>3, Updated, Zenon DEF Open
  <1>7. Held(t)
    BY <1>1, <1>6, WaitsAtStart, Zenon DEF Held
  <1>8. /\ waiting'[q] = <<>> /\ waiting \in [Promises -> Seq(Tasks)]
        /\ \A r \in Promises : r # q => waiting'[r] = waiting[r]
    BY <1>1, <1>3, OtherQueues, Zenon DEF LoopInv
  <1>9. \A d \in Ops : d # t =>
            waiting'[<<"context", d>>] = waiting[<<"context", d>>]
    BY <1>2, <1>8, ThePromises, Zenon
  <1>10. \A o \in Ops : Held(o)' => o # t /\ Open(o) /\ Awaits(o, q)
    <2>1. SUFFICES ASSUME NEW o \in Ops, Held(o)', ~Awaits(o, q), o # t
                   PROVE  FALSE
      BY <1>5, <1>6, Zenon DEF Held, Open
    <2>2. \A d \in Ops : d # t => ~Awaits(o, <<"context", d>>)
      BY <1>9, <2>1, Zenon DEF Held, Awaits
    <2>3. Held(o)
      BY <1>2, <1>5, <2>1, <2>2, Zenon DEF Held, Open
    <2>4. QED
      BY <1>7, <2>1, <2>3, Zenon DEF LockInv
  <1>11. \A o \in Ops : Held(o)' =>
             /\ t # rec.context /\ Len(waiting[q]) \in DOMAIN waiting[q]
             /\ waiting[q][Len(waiting[q])] = o
    BY <1>2, <1>10 DEF LockInv, Awaits
  <1>12. \A o, u \in Ops : Held(o)' /\ Held(u)' => o = u
    BY <1>11, Zenon
  <1>13. rec'.context = None => \A o \in Ops : ~Held(o)'
    BY <1>4, <1>7, <1>11, Zenon DEF LockInv
  <1>14. ASSUME NEW d \in Ops, NEW i \in DOMAIN waiting'[<<"context", d>>],
                waiting'[<<"context", d>>][i] \in Ops
         PROVE  i = Len(waiting'[<<"context", d>>]) /\ d # rec'.context
    <2>1. d # t
      BY <1>2, <1>8, <1>14
    <2>2. /\ i = Len(waiting[<<"context", d>>]) /\ d # rec.context
          /\ waiting'[<<"context", d>>] = waiting[<<"context", d>>]
      BY <1>9, <1>14, <2>1, Zenon DEF LockInv
    <2>3. QED
      BY <1>1, <1>4, <2>2, Zenon
  <1>15. ASSUME NEW i \in DOMAIN micro', micro'[i] \in Prompts,
                NEW o \in Ops, Held(o)'
         PROVE  /\ task'[o].at = "start"
                /\ \A j \in DOMAIN micro' : micro'[j] = o => i < j
    <2>1. Awaits(o, q) /\ o # t
      BY <1>10, <1>15, Zenon
    <2>2. task'[o].at = "start"
      BY <1>2, <1>5, <2>1, WaitsAtStart, Zenon
    <2>3. Queues(t)
      BY <1>1, EveryTurn, QueuesAfter, Zenon
    <2>4. /\ micro' \in Seq(Tasks) /\ DOMAIN micro' = 1..Len(micro') /\ Len(micro') \in Nat
          /\ \A m, n \in 1..Len(micro') : micro'[m] = micro'[n] => m = n
      BY <2>3 DEF Queues, Once
    <2>5. micro' = (Rest \o <<>>) \o waiting[q]
      BY <1>3, Zenon DEF Resolve
    <2>6. Rest \o <<>> \in Seq(Tasks) /\ waiting[q] \in Seq(Tasks)
      BY <1>1, <1>8, RestOf
    <2>7. \A s \in Seq(Tasks) : micro' = s \o waiting[q] =>
              /\ Len(waiting[q]) > 0 =>
                    /\ Len(micro') \in DOMAIN micro'
                    /\ micro'[Len(micro')] = waiting[q][Len(waiting[q])]
      BY <2>4, <2>6, Parts
    <2>8. Len(waiting[q]) > 0 /\ waiting[q][Len(waiting[q])] = o
      BY <1>11, <1>15, <2>6
    <2>9. Len(micro') \in DOMAIN micro' /\ micro'[Len(micro')] = o
      BY <2>5, <2>6, <2>7, <2>8, Zenon
    <2>10. o \notin Prompts
      BY HostConstants, Zenon DEF Ops
    <2>11. ASSUME NEW j \in DOMAIN micro', micro'[j] = o
           PROVE  i < j
      <3>1. j = Len(micro')
        BY <2>4, <2>9, <2>11, Zenon
      <3>2. i # j
        BY <1>15, <2>10, <2>11, Zenon
      <3>3. QED
        BY <2>4, <3>1, <3>2
    <2>12. QED
      BY <2>2, <2>11, Zenon
  <1>16. QED
    BY <1>12, <1>13, <1>14, <1>15, Zenon DEF LockInv

\* Every turn keeps the order of the context operations (withContextOperation,
\* session-host.ts, 749-761).
LEMMA LockNext ==
    ASSUME RecordInv, LoopInv, LockInv, WaitInv, NEW t \in Tasks, Turns(t)
    PROVE  LockInv'
  <1>1. CASE Handler(t)
    BY <1>1, LockHandler, Zenon
  <1>2. CASE t \in Prompts /\ Arrive(t)
    BY <1>2, LockArrive, Zenon
  <1>3. CASE t \in Ops /\ (Request(t) \/ Release(t))
    BY <1>3, LockRequest, LockRelease, Zenon
  <1>4. QED
    BY <1>1, <1>2, <1>3, Zenon DEF Handler

\* The calls that wait after a turn of t waited before, or are t itself.
LEMMA AwaitsBack ==
    ASSUME LoopInv, NEW t \in Tasks, Turn(t), LoopStep(t), NEW u \in Tasks, u # t,
           NEW q \in Promises, Awaits(u, q)'
    PROVE  Awaits(u, q)
  <1>1. Queues(t) /\ micro \in Seq(Tasks) /\ waiting \in [Promises -> Seq(Tasks)]
    BY QueuesAfter, Zenon DEF LoopInv
  <1>2. waiting' \in [Promises -> Seq(Tasks)]
    BY <1>1, Zenon DEF Queues
  <1>3. Has(waiting'[q], u)
    BY <1>2 DEF Awaits, Has
  <1>4. QED
    BY <1>1, <1>3, InWords, Zenon DEF Queues

\* What t awaits after its turn.
LEMMA AwaitsNow ==
    ASSUME LoopInv, NEW t \in Tasks, Turn(t), NEW q \in Promises, Awaits(t, q)'
    PROVE  /\ ~Yield /\ ~GoOn(t)
           /\ \A r \in Promises : Await(t, r) => r = q
           /\ \A r \in Promises : \A first : ~Resolve(r, first)
  <1>1. ~Awaits(t, q)
    BY TurnAlone, Zenon
  <1>2. ~Yield /\ ~GoOn(t)
    BY <1>1, OtherQueues, Zenon DEF Awaits
  <1>3. \A r \in Promises : Await(t, r) => r = q
    BY <1>1, OtherQueues, Zenon DEF Awaits
  <1>4. ASSUME NEW r \in Promises, NEW first, Resolve(r, first)
        PROVE  FALSE
    <2>1. waiting'[q] = waiting[q] \/ waiting'[q] = <<>>
      BY <1>4, OtherQueues, Zenon
    <2>2. QED
      BY <1>1, <2>1 DEF Awaits
  <1>5. QED
    BY <1>2, <1>3, <1>4, Zenon

\* In its handlers a call awaits something that is under way.
LEMMA AwaitsUnderWay ==
    ASSUME RecordInv, LoopInv, NEW t \in Tasks, Turns(t), Handler(t),
           NEW q \in Promises, Awaits(t, q)'
    PROVE  \/ q = <<"disposed", None>> /\ rec.disposing /\ rec' = rec
           \/ \E p \in Prompts : q = <<"ready", p>> /\ Pending(p) /\ t \notin Prompts
           \/ \E p \in Prompts : /\ q = <<"reply", p>> /\ t \notin Prompts
                                 /\ task[p].at = "running"
  <1>1. Kinds(t) /\ Turn(t)
    BY Ordinary, EveryTurn, Zenon
  <1>2. /\ ~Yield /\ ~GoOn(t)
        /\ \A r \in Promises : Await(t, r) => r = q
        /\ \A r \in Promises : \A first : ~Resolve(r, first)
    BY <1>1, AwaitsNow, Zenon
  <1>3. /\ Flushed(t) => Resolve(<<"disposed", None>>, <<t>>)
        /\ Ready(t) => \E first \in {<<>>, <<t>>} : Resolve(<<"ready", t>>, first)
        /\ RunEnds(t) => \E first : Resolve(<<"reply", t>>, first)
    BY Zenon DEF Flushed, Ready, RunEnds
  <1>4. QED
    BY <1>1, <1>2, <1>3, ThePromises, Zenon DEF Kinds

\* A prompt whose session is pending settles it when it goes further.
LEMMA StaysPending ==
    ASSUME RecordInv, NEW t \in Prompts, Turns(t), Pending(t), ~Ready(t)
    PROVE  Pending(t)'
  <1>1. /\ t \in Tasks /\ task \in [Tasks -> Call] /\ Using(t) = "ready"
        /\ task[t].at \in {"init", "look", "build", "ready"}
    BY TypedCalls, Zenon DEF Tasks, RecordInv, Using, Pending
  <1>2. t \notin Ops \cup Aborts \cup Deletes
    BY HostConstants, Zenon DEF Ops
  <1>3. rec.prompting
    BY <1>1, Zenon DEF RecordInv, Active
  <1>4. Inspect(t) \/ Look(t) \/ Built(t) \/ BuildFails(t)
    BY <1>1, <1>2, Zenon
    DEF Turns, Arrive, PromptStep, EnsureSession, Begin, RunEnds, Clear,
                      Captured, Flushed, End
  <1>5. CASE Inspect(t)
    <2>1. task' = Moved(t, "look")
      BY <1>3, <1>5, Zenon DEF Inspect, Idle
    <2>2. QED
      BY <1>1, <2>1, Updated DEF Pending
  <1>6. CASE Look(t) \/ Built(t) \/ BuildFails(t)
    <2>1. task'[t].at \in {"ready", "build"}
      BY <1>1, <1>6, Updated DEF Look, Built, BuildFails
    <2>2. QED
      BY <2>1, Zenon DEF Pending
  <1>7. QED
    BY <1>4, <1>5, <1>6, Zenon

\* Who may change whether a disposal is under way.
LEMMA Disposals ==
    ASSUME RecordInv, NEW t \in Tasks, Turns(t)
    PROVE  /\ task[t].at = "flushing" => Flushed(t)
           /\ \/ Flushed(t)
              \/ rec'.disposing = rec.disposing
              \/ rec'.disposing /\ task'[t].at = "flushing"
  <1>1. /\ task \in [Tasks -> Call]
        /\ rec \in [session : Tasks \cup {None}, loader : BOOLEAN, prompting : BOOLEAN,
                    aborting : BOOLEAN, ready : Prompts \cup {None},
                    reply : Prompts \cup {None}, context : Ops \cup {None},
                    disposing : BOOLEAN]
    BY TypedCalls, Zenon DEF RecordInv, TypeOK
  <1>2. ASSUME NEW then, DisposeSession(t, then)
        PROVE  \/ rec'.disposing = rec.disposing
               \/ rec'.disposing /\ task'[t].at = "flushing"
    <2>1. \/ rec' = rec
          \/ task' = Flushing(t, then) /\ rec' = [rec EXCEPT !.disposing = TRUE]
      BY <1>2, Zenon DEF DisposeSession, Flushing
    <2>2. QED
      BY <1>1, <2>1, Updated
  <1>3. CASE Inspect(t) \/ Captured(t) \/ Drop(t) \/ Close(t) \/ CheckIdle(t)
    <2>1. task[t].at # "flushing"
      BY <1>3, Zenon DEF Inspect, Captured, Drop, Close, CheckIdle
    <2>2. UNCHANGED rec \/ \E then : DisposeSession(t, then)
      BY <1>3, Zenon DEF Inspect, Captured, Drop, Close, CheckIdle
    <2>3. QED
      BY <1>2, <2>1, <2>2, Zenon
  <1>4. CASE Look(t) \/ Built(t) \/ BuildFails(t) \/ Arrive(t) \/ Begin(t) \/ Ready(t)
               \/ RunEnds(t) \/ Clear(t) \/ End(t)
    <2>1. task[t].at # "flushing"
      BY <1>4, Zenon
      DEF Look, Built, BuildFails, Arrive, Begin, Ready, RunEnds, Clear, End
    <2>2. rec'.disposing = rec.disposing
      BY <1>1, <1>4, Zenon
      DEF Look, Built, BuildFails, Arrive, Begin, Ready, RunEnds, Clear, End
    <2>3. QED
      BY <2>1, <2>2, Zenon
  <1>5. CASE Request(t) \/ Release(t) \/ StartPoll(t) \/ Joined(t) \/ StartLevel(t)
               \/ StartReset(t) \/ Retained(t) \/ AwaitReady(t) \/ Rewind(t)
    <2>1. task[t].at # "flushing"
      BY <1>5, Zenon
      DEF Request, Release, StartPoll, Joined, StartLevel, StartReset, Retained,
                  AwaitReady, Rewind
    <2>2. rec'.disposing = rec.disposing
      BY <1>1, <1>5, Zenon
      DEF Request, Release, StartPoll, Joined, StartLevel, StartReset,
                        Retained, AwaitReady, Rewind
    <2>3. QED
      BY <2>1, <2>2, Zenon
  <1>6. CASE Abort(t) \/ AbortStep(t) \/ Delete(t) \/ Halt(t) \/ HaltEnds(t)
               \/ AwaitReply(t) \/ Remove(t)
    <2>1. task[t].at # "flushing"
      BY <1>6, Zenon DEF Abort, AbortStep, AbortBuilt, AbortEnds, Delete, Halt, HaltEnds,
                  AwaitReply, Remove
    <2>2. rec'.disposing = rec.disposing
      BY <1>1, <1>6, Zenon
      DEF Abort, AbortStep, AbortBuilt, AbortEnds, Delete, Halt, HaltEnds,
                        AwaitReply, Remove
    <2>3. QED
      BY <2>1, <2>2, Zenon
  <1>7. QED
    BY <1>3, <1>4, <1>5, <1>6, Zenon
    DEF Turns, PromptStep, OpStep, DeleteStep, EnsureSession

\* The model's run ends in RunEnds alone.
LEMMA RunsEnd ==
    ASSUME RecordInv, NEW t \in Prompts, Turns(t), task[t].at = "running"
    PROVE  RunEnds(t)
  <1>1. t \notin Ops \cup Aborts \cup Deletes
    BY HostConstants, Zenon DEF Ops
  <1>2. QED
    BY <1>1, Zenon DEF Turns, Arrive, PromptStep, EnsureSession, Inspect, Look, Built,
                BuildFails, Begin, Ready, Clear, Captured, Flushed, End

\* What t awaits after its turn is under way, or the last operation requested.
LEMMA OwnAwait ==
    ASSUME RecordInv, LoopInv, NEW t \in Tasks, Turns(t), NEW q \in Promises,
           Awaits(t, q)'
    PROVE  \/ q = <<"disposed", None>> /\ rec.disposing /\ rec' = rec
           \/ \E p \in Prompts : q = <<"ready", p>> /\ Pending(p) /\ t \notin Prompts
           \/ \E p \in Prompts : /\ q = <<"reply", p>> /\ t \notin Prompts
                                 /\ task[p].at = "running"
           \/ /\ rec.context \in Ops /\ q = <<"context", rec.context>>
              /\ t \in Ops => Request(t)
              /\ task[t].at = "new"
  <1>1. CASE Handler(t)
    BY <1>1, AwaitsUnderWay, Zenon
  <1>2. ASSUME (t \in Prompts /\ Arrive(t)) \/ (t \in Ops /\ Request(t))
        PROVE  /\ rec.context \in Ops /\ q = <<"context", rec.context>>
               /\ task[t].at = "new"
               /\ t \in Ops => Request(t)
    <2>1. /\ rec.context \in Ops \cup {None} /\ task[t].at = "new" /\ Turn(t)
          /\ t \in Ops => Request(t)
      BY <1>2, HostConstants, Zenon DEF RecordInv, TypeOK, Arrive, Request, Ops
    <2>2. \/ Yield \/ GoOn(t)
          \/ rec.context # None /\ Await(t, <<"context", rec.context>>)
      BY <1>2, Zenon DEF Arrive, Request
    <2>3. ~Yield /\ ~GoOn(t) /\ \A r \in Promises : Await(t, r) => r = q
      BY <2>1, AwaitsNow, Zenon
    <2>4. QED
      BY <2>1, <2>2, <2>3, ThePromises, Zenon
  <1>3. CASE t \in Ops /\ Release(t)
    <2>1. Turn(t) /\ Resolve(<<"context", t>>, <<>>) /\ <<"context", t>> \in Promises
      BY <1>3, ThePromises, Zenon DEF Release
    <2>2. QED
      BY <2>1, AwaitsNow, Zenon
  <1>4. QED
    BY <1>1, <1>2, <1>3, Zenon DEF Handler

\* An operation stays open until its end, which wakes those that wait for it.
LEMMA StaysOpen ==
    ASSUME RecordInv, LoopInv, NEW o \in Ops, NEW t \in Tasks, Turns(t), Open(o)
    PROVE  Open(o)' \/ (t = o /\ Release(t))
  <1>1. CASE o # t
    <2>1. o \in Tasks
      BY Zenon DEF Tasks
    <2>2. task'[o] = task[o]
      BY <1>1, <2>1, OthersAlone, Zenon
    <2>3. QED
      BY <2>2, Zenon DEF Open
  <1>2. CASE o = t
    <2>1. o \notin Prompts
      BY HostConstants, Zenon DEF Ops
    <2>2. ~Request(t)
      BY <1>2, Zenon DEF Request, Open
    <2>3. QED
      BY <1>2, <2>1, <2>2, Ordinary, Zenon DEF Handler, Open
  <1>3. QED
    BY <1>1, <1>2, Zenon

\* Every turn keeps what the awaiting calls wait for under way.
LEMMA WaitNext ==
    ASSUME RecordInv, LoopInv, WaitInv, NEW t \in Tasks, Turns(t)
    PROVE  WaitInv'
  <1>1. /\ Turn(t) /\ LoopStep(t) /\ \A u \in Tasks : u # t => task'[u] = task[u]
        /\ Prompts \subseteq Tasks /\ Ops \subseteq Tasks /\ None \notin Ops
    BY EveryTurn, OthersAlone, HostConstants, Zenon DEF Tasks, Ops
  <1>2. \A u \in Tasks : u # t => \A q \in Promises : Awaits(u, q)' => Awaits(u, q)
    BY <1>1, AwaitsBack, Zenon
  <1>3. ASSUME NEW p \in Prompts, NEW u \in Tasks, Awaits(u, <<"ready", p>>)'
        PROVE  Pending(p)'
    <2>1. <<"ready", p>> \in Promises
      BY ThePromises, Zenon
    <2>2. CASE u = t
      <3>1. Pending(p) /\ t \notin Prompts
        BY <1>3, <2>1, <2>2, OwnAwait, Zenon
      <3>2. QED
        BY <1>1, <3>1, Zenon DEF Pending
    <2>3. CASE u # t
      <3>1. Pending(p)
        BY <1>2, <1>3, <2>1, <2>3, Zenon DEF WaitInv
      <3>2. CASE p = t
        <4>1. ~Ready(t)
          <5>1. SUFFICES ASSUME Ready(t) PROVE FALSE
            BY Zenon
          <5>2. waiting'[<<"ready", p>>] = <<>>
            BY <1>1, <2>1, <3>2, <5>1, OtherQueues, Zenon DEF Ready
          <5>3. QED
            BY <1>3, <5>2 DEF Awaits
        <4>2. QED
          BY <3>1, <3>2, <4>1, StaysPending, Zenon
      <3>3. CASE p # t
        BY <1>1, <3>1, <3>3, Zenon DEF Pending
      <3>4. QED
        BY <3>2, <3>3, Zenon
    <2>4. QED
      BY <2>2, <2>3, Zenon
  <1>4. ASSUME NEW p \in Prompts, NEW u \in Tasks, Awaits(u, <<"reply", p>>)'
        PROVE  task'[p].at = "running"
    <2>1. <<"reply", p>> \in Promises
      BY ThePromises, Zenon
    <2>2. CASE u = t
      <3>1. task[p].at = "running" /\ t \notin Prompts
        BY <1>4, <2>1, <2>2, OwnAwait, Zenon
      <3>2. QED
        BY <1>1, <3>1, Zenon
    <2>3. CASE u # t
      <3>1. task[p].at = "running"
        BY <1>2, <1>4, <2>1, <2>3, Zenon DEF WaitInv
      <3>2. p # t
        <4>1. SUFFICES ASSUME p = t PROVE FALSE
          BY Zenon
        <4>2. RunEnds(t)
          BY <3>1, <4>1, RunsEnd, Zenon
        <4>3. waiting'[<<"reply", p>>] = <<>>
          BY <1>1, <2>1, <4>1, <4>2, OtherQueues, Zenon DEF RunEnds
        <4>4. QED
          BY <1>4, <4>3 DEF Awaits
      <3>3. QED
        BY <1>1, <3>1, <3>2, Zenon
    <2>4. QED
      BY <2>2, <2>3, Zenon
  <1>5. ASSUME NEW u \in Tasks, Awaits(u, <<"disposed", None>>)'
        PROVE  rec'.disposing
    <2>1. <<"disposed", None>> \in Promises
      BY ThePromises, Zenon
    <2>2. CASE u = t
      BY <1>5, <2>1, <2>2, OwnAwait, Zenon
    <2>3. CASE u # t
      <3>1. rec.disposing
        BY <1>2, <1>5, <2>1, <2>3, Zenon DEF WaitInv
      <3>2. ~Flushed(t)
        <4>1. SUFFICES ASSUME Flushed(t) PROVE FALSE
          BY Zenon
        <4>2. waiting'[<<"disposed", None>>] = <<>>
          BY <1>1, <2>1, <4>1, OtherQueues, Zenon DEF Flushed
        <4>3. QED
          BY <1>5, <4>2 DEF Awaits
      <3>3. QED
        BY <3>1, <3>2, Disposals, Zenon
    <2>4. QED
      BY <2>2, <2>3, Zenon
  <1>6. ASSUME rec'.disposing
        PROVE  \E u \in Tasks : task'[u].at = "flushing"
    <2>1. ~Flushed(t)
      BY <1>6, Zenon DEF Flushed, RecordInv, TypeOK
    <2>2. CASE task'[t].at = "flushing"
      BY <2>2, Zenon
    <2>3. CASE rec.disposing
      <3>1. PICK u \in Tasks : task[u].at = "flushing"
        BY <2>3, Zenon DEF WaitInv
      <3>2. u # t
        BY <2>1, <3>1, Disposals, Zenon
      <3>3. QED
        BY <1>1, <3>1, <3>2, Zenon
    <2>4. QED
      BY <1>6, <2>1, <2>2, <2>3, Disposals, Zenon
  <1>7. ASSUME NEW o \in Ops, NEW u \in Tasks, Awaits(u, <<"context", o>>)'
        PROVE  Open(o)'
    <2>1. <<"context", o>> \in Promises
      BY ThePromises, Zenon
    <2>2. Open(o)
      <3>1. CASE u = t
        <4>1. o = rec.context
          BY <1>7, <2>1, <3>1, OwnAwait, Zenon
        <4>2. QED
          BY <4>1, Zenon DEF WaitInv
      <3>2. CASE u # t
        BY <1>2, <1>7, <2>1, <3>2, Zenon DEF WaitInv
      <3>3. QED
        BY <3>1, <3>2, Zenon
    <2>3. ~(t = o /\ Release(t))
      <3>1. SUFFICES ASSUME t = o, Release(t) PROVE FALSE
        BY Zenon
      <3>2. waiting'[<<"context", o>>] = <<>>
        BY <1>1, <2>1, <3>1, OtherQueues, Zenon DEF Release
      <3>3. QED
        BY <1>7, <3>2 DEF Awaits
    <2>4. QED
      BY <2>2, <2>3, StaysOpen, Zenon
  <1>8. ASSUME NEW o \in Ops, rec'.context = o
        PROVE  Open(o)'
    <2>1. CASE rec.context = o
      <3>1. Open(o)
        BY <2>1, Zenon DEF WaitInv
      <3>2. ~(t = o /\ Release(t))
        BY <1>1, <1>8, <2>1, Zenon DEF Release, RecordInv, TypeOK
      <3>3. QED
        BY <3>1, <3>2, StaysOpen, Zenon
    <2>2. CASE rec.context # o
      <3>1. t \in Ops /\ (Request(t) \/ Release(t))
        <4>1. ~Handler(t)
          BY <1>8, <2>2, Ordinary, Zenon
        <4>2. Arrive(t) => rec' = rec
          BY Zenon DEF Arrive
        <4>3. QED
          BY <1>8, <2>2, <4>1, <4>2, Zenon DEF Handler
      <3>2. Request(t)
        BY <1>1, <1>8, <2>2, <3>1, Zenon DEF Release, RecordInv, TypeOK
      <3>3. o = t /\ (task' = Moved(t, "start")
                        \/ task' = Blocked(t, <<"context", rec.context>>, "start"))
        BY <1>8, <2>2, <3>2, Zenon DEF Request, RecordInv, TypeOK
      <3>4. task'[t].at = "start"
        BY <3>3, Updated, TypedCalls DEF RecordInv
      <3>5. QED
        BY <3>3, <3>4, Zenon DEF Open
    <2>3. QED
      BY <2>1, <2>2, Zenon
  <1>9. ASSUME NEW S \in (SUBSET Ops) \ {{}}
        PROVE  \E o \in S : \A c \in S : ~Awaits(o, <<"context", c>>)'
    <2>1. S \subseteq Ops /\ S # {} /\ \A c \in S : <<"context", c>> \in Promises
      BY <1>9, ThePromises, Zenon
    <2>2. CASE t \in S /\ Request(t) /\ S \ {t} # {}
      <3>1. PICK o \in S \ {t} : \A c \in S \ {t} : ~Awaits(o, <<"context", c>>)
        BY <2>1, <2>2, Zenon DEF WaitInv
      <3>2. ~Awaits(o, <<"context", t>>)
        <4>1. ~Open(t)
          BY <2>2, Zenon DEF Request, Open
        <4>2. QED
          BY <1>1, <2>1, <2>2, <3>1, <4>1, Zenon DEF WaitInv
      <3>3. \A c \in S : ~Awaits(o, <<"context", c>>)'
        BY <1>1, <1>2, <2>1, <3>1, <3>2, Zenon
      <3>4. QED
        BY <3>1, <3>3, Zenon
    <2>3. CASE t \in S /\ Request(t) /\ S \ {t} = {}
      <3>1. S = {t}
        BY <2>3, Zenon
      <3>2. ~Awaits(t, <<"context", t>>)'
        <4>1. SUFFICES ASSUME Awaits(t, <<"context", t>>)' PROVE FALSE
          BY Zenon
        <4>2. rec.context = t /\ t \in Ops
          BY <2>1, <2>3, <4>1, OwnAwait, Zenon
        <4>3. ~Open(t)
          BY <2>3, Zenon DEF Request, Open
        <4>4. QED
          BY <4>2, <4>3, Zenon DEF WaitInv
      <3>3. QED
        BY <3>1, <3>2, Zenon
    <2>4. CASE ~(t \in S /\ Request(t))
      <3>1. PICK o \in S : \A c \in S : ~Awaits(o, <<"context", c>>)
        BY <2>1, Zenon DEF WaitInv
      <3>2. ASSUME NEW c \in S, Awaits(o, <<"context", c>>)'
            PROVE  FALSE
        <4>1. CASE o = t
          BY <2>1, <2>4, <3>2, <4>1, OwnAwait, Zenon
        <4>2. CASE o # t
          BY <1>1, <1>2, <2>1, <3>1, <3>2, <4>2, Zenon
        <4>3. QED
          BY <4>1, <4>2, Zenon
      <3>3. QED
        BY <3>1, <3>2, Zenon
    <2>5. QED
      BY <2>2, <2>3, <2>4, Zenon
  <1>10. QED
    BY <1>3, <1>4, <1>5, <1>6, <1>7, <1>8, <1>9, Zenon DEF WaitInv

\* A prompt before it has a session.
Early == {"new", "enter", "init", "look", "build"}

\* How a call comes to build a session, to rewind and to run.
Gains(t) ==
    /\ task'[t].at = "build" => Look(t) /\ rec.session = None
    /\ Building(t)' => \/ Building(t)
                       \/ t \in Prompts /\ Begin(t)
                       \/ t \in Ops /\ (rec.ready = None \/ ~rec.prompting)
    /\ Rewinding(t)' => Rewinding(t) \/ ~rec.prompting
    /\ t \in Prompts =>
          /\ task'[t].at = "ready" => Look(t) \/ Built(t) \/ BuildFails(t)
          /\ task'[t].at = "running" => Ready(t) /\ task'[t].sess = task[t].sess
          /\ task'[t].at \in Early => task[t].at \in Early /\ task'[t].sess = task[t].sess
          /\ Active(t)' => Active(t) \/ Begin(t)

\* The phases in which a call neither builds a session, rewinds nor runs.
Harmless == {"done", "capturing", "end", "start", "joined", "close", "retain", "retained",
             "check", "release", "stop", "stopping", "halt", "halting", "halted", "drop",
             "remove"}

\* A turn that ends in such a phase gains nothing.
LEMMA HarmlessGains ==
    ASSUME NEW t \in Tasks,
           \/ task'[t].at \in Harmless
           \/ task'[t].at = "flushing" /\ task'[t].then \in Harmless
    PROVE  Gains(t)
  BY Zenon DEF Gains, Harmless, Building, Rewinding, Active, Early

\* The same for every turn.
LEMMA TurnGains ==
    ASSUME RecordInv, NEW t \in Tasks, Turns(t)
    PROVE  Gains(t)
  <1>1. /\ task \in [Tasks -> Call] /\ task[t].then \in AfterDisposal
        /\ \A o \in Ops : o \notin Prompts
    BY TypedCalls, HostConstants, Zenon DEF RecordInv, Call, Ops
  <1>2. CASE Captured(t) \/ Drop(t) \/ Close(t)
    <2>1. \/ \E then \in {"end", "remove", "release"} : DisposeSession(t, then)
          \/ task' = Moved(t, "release")
      BY <1>2, Zenon DEF Captured, Drop, Close
    <2>2. CASE task' = Moved(t, "release")
      BY <1>1, <2>2, Updated, HarmlessGains DEF Harmless
    <2>3. ASSUME NEW then \in {"end", "remove", "release"}, DisposeSession(t, then)
          PROVE  Gains(t)
      <3>1. then \in AfterDisposal /\ then \in Harmless
        BY Zenon DEF AfterDisposal, Harmless
      <3>2. QED
        BY <2>3, <3>1, DisposeLoop, HarmlessGains, Zenon
    <2>4. QED
      BY <2>1, <2>2, <2>3, Zenon
  <1>3. CASE CheckIdle(t) /\ t \notin Prompts
    <2>1. \/ ~rec.prompting /\ DisposeSession(t, "rewind")
          \/ task' = Moved(t, "release")
      BY <1>3, Zenon DEF CheckIdle, Idle
    <2>2. CASE task' = Moved(t, "release")
      BY <1>1, <2>2, Updated, HarmlessGains DEF Harmless
    <2>3. CASE ~rec.prompting /\ DisposeSession(t, "rewind")
      <3>1. \/ task'[t].at = "rewind"
            \/ task'[t].at = "flushing" /\ task'[t].then = "rewind"
        BY <2>3, DisposeLoop, Zenon DEF AfterDisposal
      <3>2. QED
        BY <1>3, <2>3, <3>1, Zenon DEF Gains, Building
    <2>4. QED
      BY <2>1, <2>2, <2>3, Zenon
  <1>4. CASE Inspect(t)
    <2>1. task[t].at = "init"
      BY <1>4, Zenon DEF Inspect
    <2>2. CASE task' = Moved(t, "look")
      <3>1. task'[t].at = "look" /\ task'[t].sess = task[t].sess
        BY <1>1, <2>2, Updated
      <3>2. QED
        BY <2>1, <3>1, Zenon DEF Gains, Building, Rewinding, Active, Early
    <2>3. CASE Idle /\ DisposeSession(t, "look")
      <3>1. t \notin Prompts
        BY <2>1, <2>3, Zenon DEF RecordInv, Active, Idle
      <3>2. \/ task'[t].at = "look"
            \/ task'[t].at = "flushing" /\ task'[t].then = "look"
        BY <2>3, DisposeLoop, Zenon DEF AfterDisposal
      <3>3. QED
        BY <2>1, <3>1, <3>2, Zenon DEF Gains, Building, Rewinding
    <2>4. QED
      BY <1>4, <2>2, <2>3, Zenon DEF Inspect
  <1>5. CASE Look(t) \/ Built(t) \/ BuildFails(t)
    <2>1. CASE task'[t].at = Using(t)
      BY <1>5, <2>1, Zenon
      DEF Gains, Building, Rewinding, Active, Early, Using, Look, Built,
                        BuildFails
    <2>2. CASE Look(t) /\ rec.session = None /\ task' = Moved(t, "build")
      <3>1. task'[t].at = "build" /\ task'[t].sess = task[t].sess /\ task[t].at = "look"
        BY <1>1, <2>2, Updated DEF Look
      <3>2. QED
        BY <2>2, <3>1, Zenon DEF Gains, Building, Rewinding, Active, Early
    <2>3. \/ task'[t].at = Using(t)
          \/ Look(t) /\ rec.session = None /\ task' = Moved(t, "build")
      BY <1>1, <1>5, Updated DEF Look, Built, BuildFails
    <2>4. QED
      BY <2>1, <2>2, <2>3, Zenon
  <1>6. CASE Flushed(t)
    <2>1. task[t].at = "flushing" /\ task'[t].at = task[t].then
      BY <1>1, <1>6, Updated DEF Flushed
    <2>2. CASE task[t].then \in {"end", "release", "remove"}
      BY <2>1, <2>2, HarmlessGains, Zenon DEF Harmless
    <2>3. CASE task[t].then \in {"look", "rewind"}
      <3>1. t \notin Prompts
        BY <2>1, <2>3, Zenon DEF RecordInv
      <3>2. QED
        BY <2>1, <2>3, <3>1, Zenon DEF Gains, Building, Rewinding
    <2>4. QED
      BY <1>1, <2>2, <2>3, Zenon DEF AfterDisposal
  <1>7. CASE t \in Prompts /\ Arrive(t)
    <2>1. task'[t].at = "enter" /\ task'[t].sess = task[t].sess /\ task[t].at = "new"
      BY <1>1, <1>7, Updated DEF Arrive
    <2>2. QED
      BY <2>1, Zenon DEF Gains, Building, Rewinding, Active, Early
  <1>8. CASE t \in Prompts /\ Begin(t)
    <2>1. /\ task[t].at = "enter" /\ task'[t].at \in {"done", "init"}
          /\ task'[t].at = "init" => task'[t].sess = task[t].sess
      BY <1>1, <1>8, Updated DEF Begin
    <2>2. QED
      BY <1>8, <2>1, Zenon DEF Gains, Building, Rewinding, Active, Early
  <1>9. CASE t \in Prompts /\ (Ready(t) \/ RunEnds(t))
    <2>1. /\ task[t].at \in {"ready", "running"} /\ task'[t].sess = task[t].sess
          /\ \/ task'[t].at = "settling"
             \/ task'[t].at = "running" /\ Ready(t)
      BY <1>1, <1>9, Updated DEF Ready, RunEnds
    <2>2. QED
      BY <2>1, Zenon DEF Gains, Building, Rewinding, Active, Early
  <1>10. CASE Clear(t) \/ End(t) \/ Request(t) \/ Release(t)
    <2>1. task'[t].at \in {"capturing", "done", "start"}
      BY <1>1, <1>10, Updated DEF Clear, End, Request, Release
    <2>2. QED
      BY <2>1, HarmlessGains, Zenon DEF Harmless
  <1>11. CASE t \in Ops /\ StartPoll(t)
    <2>1. CASE task'[t].at = "init" /\ rec.ready = None
      BY <1>1, <1>11, <2>1, Zenon DEF Gains, Building, Rewinding
    <2>2. CASE task'[t].at \in {"close", "release", "joined"}
      BY <2>2, HarmlessGains, Zenon DEF Harmless
    <2>3. \/ rec.ready = None /\ task' = Begun(t, "init", None)
          \/ \E at \in {"close", "release"} : \E sess : task' = Begun(t, at, sess)
          \/ task' = Joining(t, <<"ready", rec.ready>>)
      BY <1>11, Zenon DEF StartPoll, Begun, Joining
    <2>4. QED
      BY <1>1, <2>1, <2>2, <2>3, Updated
  <1>12. CASE t \in Ops /\ StartLevel(t)
    <2>1. CASE task'[t].at = "init" /\ ~rec.prompting
      BY <1>1, <1>12, <2>1, Zenon DEF Gains, Building, Rewinding
    <2>2. CASE task'[t].at = "release"
      BY <2>2, HarmlessGains, Zenon DEF Harmless
    <2>3. QED
      BY <1>1, <1>12, <2>1, <2>2, Updated DEF StartLevel
  <1>13. CASE Joined(t) \/ StartReset(t) \/ Retained(t) \/ AwaitReady(t) \/ Rewind(t)
    <2>1. \/ \E at \in {"release", "retain", "retained", "check"} : task' = Moved(t, at)
          \/ \E sess : task' = Holding(t, "close", sess)
          \/ \E q : task' = Blocked(t, q, "check")
      BY <1>13, Zenon DEF Joined, StartReset, Retained, AwaitReady, Rewind
    <2>2. task'[t].at \in {"release", "retain", "retained", "check", "close"}
      BY <1>1, <2>1, Updated
    <2>3. QED
      BY <2>2, HarmlessGains, Zenon DEF Harmless
  <1>14. CASE Abort(t) \/ AbortStep(t) \/ Delete(t) \/ Halt(t) \/ HaltEnds(t)
                \/ AwaitReply(t) \/ Remove(t)
    <2>1. \/ task' = Ended(t)
          \/ \E at \in {"halt", "halted", "drop"} : task' = Moved(t, at)
          \/ \E at \in {"stopping", "halting"} : \E sess : task' = Holding(t, at, sess)
          \/ \E at \in {"stop", "halt", "drop"} : \E q : task' = Blocked(t, q, at)
      <3>1. CASE Abort(t)
        BY <3>1, Zenon DEF Abort
      <3>2. CASE AbortStep(t)
        BY <3>2, Zenon DEF AbortStep, AbortBuilt, AbortEnds
      <3>3. CASE Delete(t) \/ AwaitReply(t)
        BY <3>3, Zenon DEF Delete, AwaitReply
      <3>4. CASE Halt(t) \/ HaltEnds(t) \/ Remove(t)
        BY <3>4, Zenon DEF Halt, HaltEnds, Remove
      <3>5. QED
        BY <1>14, <3>1, <3>2, <3>3, <3>4, Zenon
    <2>2. task'[t].at \in {"done", "halt", "halted", "drop", "stopping", "halting", "stop"}
      BY <1>1, <2>1, Updated
    <2>3. QED
      BY <2>2, HarmlessGains, Zenon DEF Harmless
  <1>15. QED
    BY <1>1, <1>2, <1>3, <1>4, <1>5, <1>6, <1>7, <1>8, <1>9, <1>10, <1>11, <1>12, <1>13,
       <1>14, Zenon
    DEF Turns, PromptStep, OpStep, DeleteStep, EnsureSession

\* The record's session changes where one is built or disposed.
LEMMA SessionChange ==
    ASSUME RecordInv, NEW t \in Tasks, Turns(t)
    PROVE  \/ rec'.session = rec.session /\ live' = live
           \/ Flushed(t) /\ rec'.session = None /\ live' = live \ {rec.session}
           \/ Built(t) /\ rec'.session = t /\ live' = live \cup {t}
  <1>1. rec \in [session : Tasks \cup {None}, loader : BOOLEAN, prompting : BOOLEAN,
                 aborting : BOOLEAN, ready : Prompts \cup {None},
                 reply : Prompts \cup {None}, context : Ops \cup {None},
                 disposing : BOOLEAN]
    BY Zenon DEF RecordInv, TypeOK
  <1>2. CASE Inspect(t) \/ Captured(t) \/ Drop(t) \/ Close(t) \/ CheckIdle(t)
    <2>1. live' = live
      BY <1>2, Zenon DEF Inspect, Captured, Drop, Close, CheckIdle
    <2>2. rec' = rec \/ rec' = [rec EXCEPT !.disposing = TRUE]
      BY <1>2, Zenon DEF Inspect, Captured, Drop, Close, CheckIdle, DisposeSession
    <2>3. QED
      BY <1>1, <2>1, <2>2, Zenon
  <1>3. CASE Flushed(t)
    BY <1>1, <1>3, Zenon DEF Flushed
  <1>4. CASE Built(t)
    BY <1>1, <1>4, Zenon DEF Built
  <1>5. CASE Look(t) \/ BuildFails(t) \/ Arrive(t) \/ Begin(t) \/ Ready(t) \/ RunEnds(t)
               \/ Clear(t) \/ End(t)
    BY <1>1, <1>5, Zenon DEF Look, BuildFails, Arrive, Begin, Ready, RunEnds, Clear, End
  <1>6. CASE Request(t) \/ Release(t) \/ StartPoll(t) \/ Joined(t) \/ StartLevel(t)
               \/ StartReset(t) \/ Retained(t) \/ AwaitReady(t) \/ Rewind(t)
    BY <1>1, <1>6, Zenon DEF Request, Release, StartPoll, Joined, StartLevel, StartReset,
                      Retained, AwaitReady, Rewind
  <1>7. CASE Abort(t) \/ AbortStep(t) \/ Delete(t) \/ Halt(t) \/ HaltEnds(t)
               \/ AwaitReply(t) \/ Remove(t)
    BY <1>1, <1>7, Zenon
    DEF Abort, AbortStep, AbortBuilt, AbortEnds, Delete, Halt, HaltEnds,
                      AwaitReply, Remove
  <1>8. QED
    BY <1>2, <1>3, <1>4, <1>5, <1>6, <1>7, Zenon
    DEF Turns, PromptStep, OpStep, DeleteStep, EnsureSession

\* An operation that builds a session, or rewinds, holds the lock.
LEMMA BuildingHolds ==
    ASSUME LoopInv, NEW o \in Ops, Building(o) \/ Rewinding(o)
    PROVE  Held(o) /\ task[o].at # "start"
  BY WaitsAtStart, Zenon DEF Building, Rewinding, Held, Open

\* No operation builds a session or rewinds when a prompt begins.
LEMMA BeginsAlone ==
    ASSUME LoopInv, LockInv, NEW p \in Prompts, Begin(p)
    PROVE  \A o \in Ops : ~Building(o) /\ ~Rewinding(o)
  <1>1. p \in Tasks /\ Turn(p) /\ task[p].at = "enter"
    BY Zenon DEF Tasks, Begin
  <1>2. InMicro(p)
    BY <1>1, TurnAlone, Zenon DEF LoopInv
  <1>3. PICK i \in DOMAIN micro : micro[i] = p
    BY <1>2, Zenon DEF InMicro
  <1>4. \A o \in Ops : Held(o) => task[o].at = "start"
    BY <1>1, <1>3, Zenon DEF LockInv
  <1>5. QED
    BY <1>4, BuildingHolds, Zenon

\* One call builds a session at a time, and no prompt is past it then.
LEMMA OneBuilder ==
    ASSUME RecordInv, LoopInv, LockInv, SessionInv, NEW t \in Tasks, Building(t),
           NEW u \in Tasks, u # t, Building(u) \/ (u \in Prompts /\ Active(u))
    PROVE  FALSE
  <1>1. /\ \A w \in Tasks : Building(w) => w \in Ops \/ (w \in Prompts /\ Active(w))
        /\ t \in Ops \/ (t \in Prompts /\ Active(t))
        /\ (u \in Ops /\ Building(u)) \/ (u \in Prompts /\ Active(u))
    BY Zenon DEF SessionInv, RecordInv, Building, Active, Tasks
  <1>2. CASE t \in Ops /\ u \in Ops /\ Building(u)
    BY <1>2, BuildingHolds, Zenon DEF LockInv
  <1>3. CASE t \in Prompts /\ Active(t) /\ u \in Prompts /\ Active(u)
    BY <1>3, Zenon DEF RecordInv
  <1>4. CASE t \in Ops /\ u \in Prompts /\ Active(u)
    BY <1>4, Zenon DEF SessionInv
  <1>5. CASE u \in Ops /\ Building(u) /\ t \in Prompts /\ Active(t)
    BY <1>5, Zenon DEF SessionInv
  <1>6. QED
    BY <1>1, <1>2, <1>3, <1>4, <1>5, Zenon

\* Every turn keeps the record's session the only one: it is built by one call
\* at a time, and only when there is none (ensureSession, session-host.ts, 1103-1183).
LEMMA SessionNext ==
    ASSUME RecordInv, LoopInv, LockInv, SessionInv, NEW t \in Tasks, Turns(t)
    PROVE  SessionInv'
  <1>1. /\ Turn(t) /\ \A u \in Tasks : u # t => task'[u] = task[u]
        /\ Gains(t)
        /\ Prompts \subseteq Tasks /\ Ops \subseteq Tasks /\ Resets \subseteq Ops
        /\ Aborts \cup Deletes \subseteq Tasks
    BY EveryTurn, OthersAlone, TurnGains, Zenon DEF Tasks, Ops
  <1>2. \A u \in Tasks : u # t =>
           /\ Building(u)' = Building(u) /\ Rewinding(u)' = Rewinding(u)
           /\ Active(u)' = Active(u)
    BY <1>1, Zenon DEF Building, Rewinding, Active
  <1>3. \A p \in Prompts : Active(p) => rec.prompting /\ rec.ready = p
    BY Zenon DEF RecordInv
  <1>4. None \notin Tasks /\ live \subseteq Tasks /\ task \in [Tasks -> Call]
    <2>1. TypeOK
      BY Zenon DEF RecordInv
    <2>2. None \notin Tasks
      BY HostConstants, Zenon DEF Tasks, Ops
    <2>3. QED
      BY <2>1, <2>2, TypedCalls, Zenon DEF TypeOK
  <1>5. Built(t) => task[t].at = "build" /\ Building(t)
    BY Zenon DEF Built, Building
  <1>6. ASSUME NEW u \in Aborts \cup Deletes
        PROVE  ~Building(u)'
    <2>1. u \notin Prompts /\ u \notin Ops
      BY HostConstants, Zenon DEF Ops
    <2>2. QED
      BY <1>1, <1>2, <2>1, Zenon DEF Gains, SessionInv
  <1>7. ASSUME NEW o \in Ops, NEW p \in Prompts, Building(o)'
        PROVE  ~Active(p)'
    <2>1. o # p
      BY HostConstants, Zenon DEF Ops
    <2>2. CASE t = o
      <3>1. Building(o) \/ rec.ready = None \/ ~rec.prompting
        BY <1>1, <1>7, <2>1, <2>2, HostConstants, Zenon DEF Gains, Ops
      <3>2. ~Active(p)
        BY <1>3, <1>4, <1>1, <3>1, Zenon DEF SessionInv
      <3>3. QED
        BY <1>1, <1>2, <2>1, <2>2, <3>2, Zenon
    <2>3. CASE t = p
      <3>1. Building(o)
        BY <1>1, <1>2, <1>7, <2>1, <2>3, Zenon
      <3>2. ~Active(p) /\ ~Begin(p)
        BY <3>1, BeginsAlone, Zenon DEF SessionInv
      <3>3. QED
        BY <1>1, <2>3, <3>2, Zenon DEF Gains
    <2>4. CASE t # o /\ t # p
      BY <1>1, <1>2, <1>7, <2>4, Zenon DEF SessionInv
    <2>5. QED
      BY <2>2, <2>3, <2>4, Zenon
  <1>8. ASSUME NEW o \in Resets, NEW p \in Prompts, Rewinding(o)'
        PROVE  ~Active(p)'
    <2>1. o # p /\ o \in Ops
      BY <1>1, HostConstants, Zenon DEF Ops
    <2>2. CASE t = o
      <3>1. Rewinding(o) \/ ~rec.prompting
        BY <1>1, <1>8, <2>2, Zenon DEF Gains
      <3>2. ~Active(p)
        BY <1>3, <3>1, Zenon DEF SessionInv
      <3>3. QED
        BY <1>1, <1>2, <2>1, <2>2, <3>2, Zenon
    <2>3. CASE t = p
      <3>1. Rewinding(o)
        BY <1>1, <1>2, <1>8, <2>1, <2>3, Zenon
      <3>2. ~Active(p) /\ ~Begin(p)
        BY <2>1, <3>1, BeginsAlone, Zenon DEF SessionInv
      <3>3. QED
        BY <1>1, <2>3, <3>2, Zenon DEF Gains
    <2>4. CASE t # o /\ t # p
      BY <1>1, <1>2, <1>8, <2>1, <2>4, Zenon DEF SessionInv
    <2>5. QED
      BY <2>2, <2>3, <2>4, Zenon
  <1>9. ASSUME NEW u \in Tasks, task'[u].at = "build"
        PROVE  rec'.session = None
    <2>1. CASE t = u
      <3>1. Look(t) /\ rec.session = None
        BY <1>1, <1>9, <2>1, Zenon DEF Gains
      <3>2. ~Built(t)
        BY <3>1, Zenon DEF Look, Built
      <3>3. QED
        BY <3>1, <3>2, SessionChange, Zenon
    <2>2. CASE t # u
      <3>1. task[u].at = "build" /\ rec.session = None /\ Building(u)
        BY <1>1, <1>9, <2>2, Zenon DEF SessionInv, Building
      <3>2. ~Built(t)
        BY <1>5, <2>2, <3>1, OneBuilder, Zenon
      <3>3. QED
        BY <3>1, <3>2, SessionChange, Zenon
    <2>3. QED
      BY <2>1, <2>2, Zenon
  <1>10. live' \subseteq {rec'.session}
    <2>1. CASE Built(t)
      <3>1. rec.session = None
        BY <1>5, <2>1, Zenon DEF SessionInv
      <3>2. live = {}
        BY <1>4, <3>1, Zenon DEF SessionInv
      <3>3. rec'.session = t /\ live' = {t}
        <4>1. task[t].at # "flushing"
          BY <1>5, <2>1, Zenon
        <4>2. rec \in [session : Tasks \cup {None}, loader : BOOLEAN, prompting : BOOLEAN,
                       aborting : BOOLEAN, ready : Prompts \cup {None},
                       reply : Prompts \cup {None}, context : Ops \cup {None},
                       disposing : BOOLEAN]
          BY Zenon DEF RecordInv, TypeOK
        <4>3. QED
          BY <2>1, <3>2, <4>2, Zenon DEF Built
      <3>4. QED
        BY <3>3, Zenon
    <2>2. CASE ~Built(t)
      BY <2>2, SessionChange, Zenon DEF SessionInv
    <2>3. QED
      BY <2>1, <2>2, Zenon
  <1>11. ASSUME NEW p \in Prompts, task'[p].at \in Early
         PROVE  task'[p].sess = None
    BY <1>1, <1>11, Zenon DEF Gains, Early, SessionInv
  <1>12. ASSUME NEW p \in Prompts, task'[p].at = "ready"
         PROVE  micro' # <<>> /\ Head(micro') = p /\ task'[p].sess \in {None, rec'.session}
    <2>1. t = p
      BY <1>1, <1>12, Zenon DEF SessionInv, Turn
    <2>2. /\ Look(t) \/ Built(t) \/ BuildFails(t)
          /\ Using(t) = "ready"
      BY <1>1, <1>12, <2>1, Zenon DEF Gains, Using
    <2>3. GoOn(t)
      BY <1>4, <1>12, <2>1, <2>2, Updated DEF Look, Built, BuildFails
    <2>4. micro' # <<>> /\ Head(micro') = p
      <3>1. micro \in Seq(Tasks) /\ Rest \in Seq(Tasks)
        BY <1>1, TurnAlone, Zenon DEF LoopInv
      <3>2. QED
        BY <2>1, <2>3, <3>1 DEF GoOn
    <2>5. task[t].at \in {"init", "look", "build"} /\ task[t].sess = None
      BY <2>1, <2>2, Zenon DEF Look, Built, BuildFails, SessionInv
    <2>6. task'[t].sess \in {None, rec'.session}
      <3>1. CASE Look(t)
        BY <1>4, <1>12, <2>1, <2>5, <3>1, Updated DEF Look
      <3>2. CASE Built(t)
        <4>1. rec \in [session : Tasks \cup {None}, loader : BOOLEAN, prompting : BOOLEAN,
                       aborting : BOOLEAN, ready : Prompts \cup {None},
                       reply : Prompts \cup {None}, context : Ops \cup {None},
                       disposing : BOOLEAN]
          BY Zenon DEF RecordInv, TypeOK
        <4>2. rec'.session = t
          BY <3>2, <4>1, Zenon DEF Built
        <4>3. task'[t].sess = t
          BY <1>4, <3>2, Updated DEF Built
        <4>4. QED
          BY <4>2, <4>3, Zenon
      <3>3. CASE BuildFails(t)
        BY <1>4, <2>5, <3>3, Updated DEF BuildFails
      <3>4. QED
        BY <2>2, <3>1, <3>2, <3>3, Zenon
    <2>7. QED
      BY <2>1, <2>4, <2>6, Zenon
  <1>13. ASSUME NEW p \in Prompts, task'[p].at = "running"
         PROVE  rec'.session \in {None, task'[p].sess}
    <2>1. CASE t = p
      <3>1. Ready(t) /\ task'[t].sess = task[t].sess
        BY <1>1, <1>13, <2>1, Zenon DEF Gains
      <3>2. /\ task[t].at = "ready" /\ task[t].sess # None
            /\ task[t].sess = rec.session
        BY <1>4, <1>13, <2>1, <3>1, Updated DEF Ready, SessionInv
      <3>3. ~Built(t) /\ ~Flushed(t)
        BY <3>2, Zenon DEF Built, Flushed
      <3>4. QED
        BY <2>1, <3>1, <3>2, <3>3, SessionChange, Zenon
    <2>2. CASE t # p
      <3>1. /\ task[p].at = "running" /\ task'[p] = task[p] /\ Active(p)
            /\ rec.session \in {None, task[p].sess}
        BY <1>1, <1>13, <2>2, Zenon DEF SessionInv, Active
      <3>2. ~Built(t)
        BY <1>1, <1>5, <2>2, <3>1, OneBuilder, Zenon
      <3>3. QED
        BY <3>1, <3>2, SessionChange, Zenon
    <2>3. QED
      BY <2>1, <2>2, Zenon
  <1>14. QED
    BY <1>6, <1>7, <1>8, <1>9, <1>10, <1>11, <1>12, <1>13, Zenon DEF SessionInv, Early

\* The calls that wait lead to one that does not: a prompt that builds or runs,
\* a disposal, or the context operation that no open one precedes.
LEMMA SomeCallGoesOn ==
    ASSUME RecordInv, LoopInv, WaitInv
    PROVE  NeverStuck
  <1>1. SUFFICES ASSUME \E t \in Tasks : Open(t),
                        \A t \in Tasks : ~(/\ Open(t) /\ Turn(t)
                                           /\ task[t].at \in {"stopping", "halting"} =>
                                                  Stopped(task[t].sess))
                 PROVE  FALSE
    BY Zenon DEF NeverStuck
  <1>2. micro = <<>>
    <2>1. SUFFICES ASSUME micro # <<>> PROVE FALSE
      BY Zenon
    <2>2. 1 \in DOMAIN micro /\ Head(micro) = micro[1] /\ Head(micro) \in Tasks
      BY <2>1 DEF LoopInv
    <2>3. InMicro(Head(micro))
      BY <2>2, Zenon DEF InMicro
    <2>4. task[Head(micro)].at \notin {"new", "done", "stopping", "halting"}
      BY <2>2, <2>3, Zenon DEF LoopInv
    <2>5. QED
      BY <1>1, <2>1, <2>2, <2>4, Zenon DEF Open, Turn
  <1>3. \A t \in Tasks : Open(t) /\ task[t].at \notin {"stopping", "halting"} =>
           \E q \in Promises : Awaits(t, q)
    BY <1>1, <1>2, Zenon DEF Turn
  <1>4. \A q \in Promises, t \in Tasks : Awaits(t, q) => task[t].at \in Resumes(q)
    BY Zenon DEF LoopInv
  <1>5. \A q \in Promises : \/ q = <<"disposed", None>>
                            \/ \E o \in Ops : q = <<"context", o>>
                            \/ \E p \in Prompts : q = <<"ready", p>> \/ q = <<"reply", p>>
    BY DEF Promises
  <1>6. \A q \in Promises : Resumes(q) \cap {"flushing", "running"} = {}
    BY <1>5, Resumed, Zenon DEF AfterDisposal
  <1>7. \A t \in Tasks : task[t].at # "flushing" /\ task[t].at # "running"
    BY <1>3, <1>4, <1>6, Zenon DEF Open
  <1>8. \A t \in Tasks : /\ ~Awaits(t, <<"disposed", None>>)
                         /\ \A p \in Prompts : ~Awaits(t, <<"reply", p>>)
    BY <1>7, Zenon DEF WaitInv, Tasks
  <1>9. \A p \in Prompts : ~Pending(p)
    <2>1. SUFFICES ASSUME NEW p \in Prompts, Pending(p) PROVE FALSE
      BY Zenon
    <2>2. p \in Tasks /\ task[p].at \in {"init", "look", "build", "ready"}
      BY <2>1, Zenon DEF Pending, Tasks
    <2>3. PICK q \in Promises : Awaits(p, q)
      BY <1>3, <2>2, Zenon DEF Open
    <2>4. task[p].at \in Resumes(q)
      BY <1>4, <2>2, <2>3, Zenon
    <2>5. q = <<"disposed", None>>
      BY <1>5, <2>2, <2>4, Resumed, Zenon
    <2>6. QED
      BY <1>8, <2>2, <2>3, <2>5, Zenon
  <1>10. \A t \in Tasks, q \in Promises : Awaits(t, q) =>
            \E o \in Ops : q = <<"context", o>> /\ Open(o)
    BY <1>5, <1>8, <1>9 DEF WaitInv
  <1>11. \A t \in Tasks : Open(t) => task[t].at \notin {"stopping", "halting"}
    <2>1. SUFFICES ASSUME NEW t \in Tasks, task[t].at \in {"stopping", "halting"}
                   PROVE  FALSE
      BY Zenon
    <2>2. \A q \in Promises : ~Awaits(t, q)
      BY <1>4, <1>10, <2>1, Resumed, Zenon
    <2>3. Stopped(task[t].sess)
      BY <1>7, Zenon DEF Stopped, Tasks
    <2>4. QED
      BY <1>1, <1>2, <2>1, <2>2, <2>3, Zenon DEF Open, Turn
  <1>12. Ops \subseteq Tasks
    BY Zenon DEF Tasks
  <1>13. DEFINE S == {o \in Ops : Open(o)}
  <1>14. S # {}
    BY <1>1, <1>3, <1>10, <1>11, Zenon
  <1>15. S \in (SUBSET Ops) \ {{}}
    BY <1>14, Zenon
  <1>16. PICK o \in S : \A c \in S : ~Awaits(o, <<"context", c>>)
    BY <1>15, Zenon DEF WaitInv
  <1>17. \E c \in S : Awaits(o, <<"context", c>>)
    BY <1>3, <1>10, <1>11, <1>12, <1>16, Zenon
  <1>18. QED
    BY <1>16, <1>17, Zenon

\* The invariant is inductive.
LEMMA HostNext == HostInv /\ [Next]_vars => HostInv'
  <1>1. SUFFICES ASSUME HostInv, [Next]_vars PROVE HostInv'
    BY Zenon
  <1>2. RecordInv /\ LoopInv /\ LockInv /\ SessionInv /\ WaitInv
    BY <1>1, Zenon DEF HostInv
  <1>3. RecordInv' /\ AbortInv'
    BY <1>1, <1>2, NextKeeps, AbortNext, Zenon DEF HostInv
  <1>4. CASE Next
    <2>1. PICK t \in Tasks : Turns(t)
      BY <1>4, NextTurns, Zenon
    <2>2. LoopInv' /\ LockInv' /\ SessionInv' /\ WaitInv'
      BY <1>2, <2>1, LoopNext, LockNext, SessionNext, WaitNext, Zenon
    <2>3. QED
      BY <1>3, <2>2, Zenon DEF HostInv
  <1>5. CASE UNCHANGED vars
    <2>1. LoopInv'
      BY <1>2, <1>5 DEF vars, LoopInv, InMicro, Awaits
    <2>2. LockInv'
      BY <1>2, <1>5 DEF vars, LockInv, Held, Open, Awaits
    <2>3. SessionInv'
      BY <1>2, <1>5, Zenon DEF vars, SessionInv, Building, Rewinding, Active
    <2>4. WaitInv'
      BY <1>2, <1>5 DEF vars, WaitInv, Awaits, Pending, Open
    <2>5. QED
      BY <1>3, <2>1, <2>2, <2>3, <2>4, Zenon DEF HostInv
  <1>6. QED
    BY <1>1, <1>4, <1>5, Zenon

\* It holds before the first call.
LEMMA HostInit == Init => HostInv
  <1>1. SUFFICES ASSUME Init PROVE HostInv
    BY Zenon
  <1>2. RecordInv
    BY <1>1, RecordInit, Zenon
  <1>3. /\ task \in [Tasks -> Call] /\ \A t \in Tasks : task[t] = Fresh
        /\ micro = <<>> /\ \A q \in Promises : waiting[q] = <<>>
        /\ waiting \in [Promises -> Seq(Tasks)]
        /\ live = {} /\ rec.context = None /\ rec.disposing = FALSE
    BY <1>1, <1>2, TypedCalls DEF Init, RecordInv
  <1>4. \A t \in Tasks : task[t].at = "new" /\ task[t].sess = None
    BY <1>3 DEF Fresh
  <1>5. /\ Prompts \subseteq Tasks /\ Ops \subseteq Tasks /\ Resets \subseteq Tasks
        /\ Aborts \cup Deletes \subseteq Tasks
        /\ None \notin Ops
    BY HostConstants, Zenon DEF Tasks, Ops
  <1>6. /\ \A t \in Tasks : ~InMicro(t)
        /\ \A q \in Promises : \A t : ~Awaits(t, q)
        /\ \A t \in Tasks : ~Open(t) /\ ~Building(t) /\ ~Rewinding(t) /\ ~Active(t)
    BY <1>3, <1>4 DEF InMicro, Awaits, Open, Building, Rewinding, Active
  <1>7. LoopInv
    BY <1>3, <1>4, <1>6 DEF LoopInv
  <1>8. LockInv
    BY <1>3, <1>5, <1>6, ThePromises DEF LockInv, Held
  <1>9. SessionInv
    BY <1>3, <1>4, <1>5, <1>6, Zenon DEF SessionInv
  <1>10. WaitInv
    BY <1>3, <1>5, <1>6, ThePromises, Zenon DEF WaitInv
  <1>11. AbortInv
    BY <1>1, Zenon DEF Init, AbortInv
  <1>12. QED
    BY <1>2, <1>7, <1>8, <1>9, <1>10, <1>11, Zenon DEF HostInv

\* The whole invariant of the session host: the record belongs to its active
\* prompt; each call is in one queue at most; one context operation is under way
\* at a time, and starts after the prompts that arrived before it; one call at a
\* time builds a session, when there is none; nothing waits for what has ended
\* (session-host.ts, 749-761, 1103-1183, 1361-1384, 1519-1675).
THEOREM HostInvariant == Spec => []HostInv
  BY HostInit, HostNext, PTL DEF Spec

\* No session is lost: a session that is built and not disposed is the record's,
\* whichever calls race through ensureSession and disposeSession.
THEOREM SessionsKept == Spec => []NoLeak
  <1>1. HostInv => NoLeak
    BY Zenon DEF HostInv, SessionInv, NoLeak
  <1>2. QED
    BY <1>1, HostInvariant, PTL

\* The session that abort stops while a prompt runs is the one the prompt runs on.
THEOREM AbortFinds == Spec => []AbortReaches
  <1>1. HostInv => AbortReaches
    BY Zenon DEF HostInv, RecordInv, SessionInv, AbortReaches, Active
  <1>2. QED
    BY <1>1, HostInvariant, PTL

\* resetContext moves the leaf of the branch when no prompt is active, although
\* it awaits the disposal between its check and the move.
THEOREM ResetBetweenPrompts == Spec => []ResetIsIdle
  <1>1. HostInv => ResetIsIdle
    BY Zenon DEF HostInv, SessionInv, ResetIsIdle, Rewinding
  <1>2. QED
    BY <1>1, HostInvariant, PTL

\* No set of calls waits in a circle: while a call has not ended, some call can
\* go on.
THEOREM SomeCallCan == Spec => []NeverStuck
  <1>1. HostInv => NeverStuck
    BY SomeCallGoesOn, Zenon DEF HostInv
  <1>2. QED
    BY <1>1, HostInvariant, PTL

=============================================================================
