----------------------------- MODULE SessionHost -----------------------------
(***************************************************************************)
(* The record that SessionHost keeps for one participant of a conversation *)
(* (server/agent_service/src/pi/session-host.ts): the Pi session it builds *)
(* and disposes, and the calls that share it.  Prompts, context polls,     *)
(* changes of the thinking level, context resets, aborts and the deletion  *)
(* of the conversation are tasks of one event loop.  A task runs without   *)
(* interruption up to its next await.                                      *)
(*                                                                         *)
(* An await of I/O ends at any later moment.  An await of a promise that   *)
(* another task resolves ends in the microtasks after its resolution:      *)
(* waiting lists such tasks for every promise in the order of their        *)
(* awaits, micro lists the ones that may go on, and no I/O ends while      *)
(* micro is not empty.                                                     *)
(***************************************************************************)
EXTENDS Naturals, Sequences

CONSTANTS
    Prompts,        \* calls of promptParticipant
    Polls,          \* calls of getConversationContext
    Levels,         \* calls of setThinkingLevel
    Resets,         \* calls of resetContext
    Aborts,         \* calls of abort
    Deletes,        \* calls of delete
    None            \* undefined

ASSUME HostConstants ==
    LET ops == Polls \cup Levels \cup Resets IN
    /\ None \notin Prompts \cup ops \cup Aborts \cup Deletes
    /\ Prompts \cap (ops \cup Aborts \cup Deletes) = {}
    /\ ops \cap (Aborts \cup Deletes) = {}
    /\ Resets \cap (Polls \cup Levels) = {}

VARIABLES
    rec,        \* the SessionRecord
    there,      \* whether the conversation is in the store
    live,       \* sessions that have been built and not disposed
    task,       \* local state of every call
    waiting,    \* the tasks that await a promise, in the order of their awaits
    micro,      \* tasks whose promise is resolved, in the order they run
    aborted     \* history: the active prompts whose session was still to come
                \*   when an abort or a deletion was called

vars == <<rec, there, live, task, waiting, micro, aborted>>

Ops == Polls \cup Levels \cup Resets

Tasks == Prompts \cup Ops \cup Aborts \cup Deletes

\* The promises of the record: the end of a context operation, the session of a
\* prompt, its reply, and the end of a disposal.
Promises ==
    ({"context"} \X Ops) \cup ({"ready", "reply"} \X Prompts)
        \cup {<<"disposed", None>>}

Fresh == [at |-> "new", on |-> <<None, None>>, then |-> "end", sess |-> None,
          active |-> FALSE]

Init ==
    /\ rec = [session |-> None, loader |-> FALSE, prompting |-> FALSE,
              aborting |-> FALSE, ready |-> None, reply |-> None,
              context |-> None, disposing |-> FALSE]
    /\ there = TRUE
    /\ live = {}
    /\ task = [t \in Tasks |-> Fresh]
    /\ waiting = [q \in Promises |-> <<>>]
    /\ micro = <<>>
    /\ aborted = {}

-----------------------------------------------------------------------------
(* The event loop.                                                         *)

Awaits(t, promise) ==
    \E i \in DOMAIN waiting[promise] : waiting[promise][i] = t

\* It is t's turn: its I/O may end, or it is the next microtask.
Turn(t) ==
    IF micro = <<>> THEN \A promise \in Promises : ~Awaits(t, promise)
                    ELSE Head(micro) = t

Rest == IF micro = <<>> THEN <<>> ELSE Tail(micro)

\* t awaits I/O, or has ended.
Yield == micro' = Rest /\ UNCHANGED waiting

\* t goes on without an await.
GoOn(t) == micro' = <<t>> \o Rest /\ UNCHANGED waiting

\* t awaits a promise.
Await(t, promise) ==
    /\ micro' = Rest
    /\ waiting' = [waiting EXCEPT ![promise] = Append(@, t)]

\* A promise is settled: the tasks in first, then those that await it, go on.
Resolve(promise, first) ==
    /\ micro' = Rest \o first \o waiting[promise]
    /\ waiting' = [waiting EXCEPT ![promise] = <<>>]

Moved(t, at) == [task EXCEPT ![t].at = at, ![t].on = Fresh.on]

Holding(t, at, sess) == [task EXCEPT ![t].at = at, ![t].sess = sess]

Ended(t) == [task EXCEPT ![t] = [Fresh EXCEPT !.at = "done"]]

Blocked(t, promise, at) == [task EXCEPT ![t].at = at, ![t].on = promise]

\* The call of a session is pending, answered with sess, or failed (None).
Pending(p) == task[p].at \in {"init", "look", "build", "ready"}

-----------------------------------------------------------------------------
(* disposeSession and ensureSession, which several calls go through.       *)

\* disposeSession: a disposal under way is joined; without a loader and a
\* session there is nothing to wait for.
DisposeSession(t, then) ==
    \/ /\ rec.disposing
       /\ task' = Blocked(t, <<"disposed", None>>, then)
       /\ Await(t, <<"disposed", None>>)
       /\ UNCHANGED rec
    \/ /\ ~rec.disposing
       /\ rec.loader \/ rec.session # None
       /\ rec' = [rec EXCEPT !.disposing = TRUE]
       /\ task' = [task EXCEPT ![t].at = "flushing", ![t].then = then]
       /\ Yield
    \/ /\ ~rec.disposing
       /\ ~rec.loader /\ rec.session = None
       /\ task' = Moved(t, then)
       /\ GoOn(t)
       /\ UNCHANGED rec

\* The loader has shut down: whatever session the record holds now is disposed.
Flushed(t) ==
    /\ task[t].at = "flushing"
    /\ Turn(t)
    /\ live' = live \ {rec.session}
    /\ rec' = [rec EXCEPT !.session = None, !.loader = FALSE, !.disposing = FALSE]
    /\ task' = Moved(t, task[t].then)
    /\ Resolve(<<"disposed", None>>, <<t>>)
    /\ UNCHANGED there

Idle == ~rec.prompting /\ rec.reply = None

\* The capabilities are known: a session built for others is disposed, unless
\* it may be prompting.
Inspect(t) ==
    /\ task[t].at = "init"
    /\ Turn(t)
    /\ \/ /\ rec.session # None /\ Idle
          /\ DisposeSession(t, "look")
       \/ /\ task' = Moved(t, "look")
          /\ GoOn(t)
          /\ UNCHANGED rec
    /\ UNCHANGED <<there, live>>

\* Where a call goes on with its session.
Using(t) == IF t \in Prompts THEN "ready" ELSE "close"

\* An existing session is used, else one is built.
Look(t) ==
    /\ task[t].at = "look"
    /\ Turn(t)
    /\ \/ /\ rec.session # None
          /\ task' = Holding(t, Using(t), rec.session)
          /\ GoOn(t)
          /\ UNCHANGED rec
       \/ /\ rec.session = None
          /\ rec' = [rec EXCEPT !.loader = TRUE]
          /\ task' = Moved(t, "build")
          /\ Yield
    /\ UNCHANGED <<there, live>>

\* A session is named after the call that builds it.
Mut_Built(t) ==
    /\ task[t].at = "build"
    /\ Turn(t)
    /\ live' = live \cup {t}
    /\ rec' = [rec EXCEPT !.session = t, !.aborting = FALSE]
    /\ task' = Holding(t, Using(t), t)
    /\ GoOn(t)
    /\ UNCHANGED there
Built(t) ==
    /\ task[t].at = "build"
    /\ Turn(t)
    /\ live' = live \cup {t}
    /\ rec' = [rec EXCEPT !.session = t]
    /\ task' = Holding(t, Using(t), t)
    /\ GoOn(t)
    /\ UNCHANGED there

\* The sandbox, the Manager or the SDK refuses.
BuildFails(t) ==
    /\ task[t].at \in {"init", "build"}
    /\ Turn(t)
    /\ task' = Moved(t, Using(t))
    /\ GoOn(t)
    /\ UNCHANGED <<rec, there, live>>

EnsureSession(t) == Inspect(t) \/ Look(t) \/ Built(t) \/ BuildFails(t)

-----------------------------------------------------------------------------
(* promptParticipant.                                                      *)

\* The context operation the record names now is awaited, once.
Mut_Arrive(p) ==
    /\ task[p].at = "new"
    /\ there
    /\ Turn(p)
    /\ task' = Moved(p, "enter")
    /\ GoOn(p)
    /\ UNCHANGED <<rec, there, live>>
Arrive(p) ==
    /\ task[p].at = "new"
    /\ there
    /\ Turn(p)
    /\ IF rec.context = None
         THEN task' = Moved(p, "enter") /\ GoOn(p)
         ELSE /\ task' = Blocked(p, <<"context", rec.context>>, "enter")
              /\ Await(p, <<"context", rec.context>>)
    /\ UNCHANGED <<rec, there, live>>

Mut_Begin(p) ==
    /\ task[p].at = "enter"
    /\ Turn(p)
    /\ rec' = [rec EXCEPT !.prompting = TRUE, !.aborting = FALSE, !.ready = p]
    /\ task' = Moved(p, "init")
    /\ Yield
    /\ UNCHANGED <<there, live>>
Begin(p) ==
    /\ task[p].at = "enter"
    /\ Turn(p)
    /\ IF rec.prompting
         THEN task' = Ended(p) /\ UNCHANGED rec
         ELSE /\ rec' = [rec EXCEPT !.prompting = TRUE, !.aborting = FALSE,
                                    !.ready = p]
              /\ task' = Moved(p, "init")
    /\ Yield
    /\ UNCHANGED <<there, live>>

\* The session promise is settled.  The prompt goes on first: it ends when its
\* session failed or it was aborted meanwhile (the usage is recorded, with or
\* without I/O), else the model runs.
Ready(p) ==
    /\ task[p].at = "ready"
    /\ Turn(p)
    /\ \/ /\ task[p].sess = None \/ rec.aborting
          /\ task' = Moved(p, "settling")
          /\ \E first \in {<<>>, <<p>>} : Resolve(<<"ready", p>>, first)
          /\ UNCHANGED rec
       \/ /\ task[p].sess # None /\ ~rec.aborting
          /\ rec' = [rec EXCEPT !.reply = p]
          /\ task' = Moved(p, "running")
          /\ Resolve(<<"ready", p>>, <<>>)
    /\ UNCHANGED <<there, live>>

\* The model has answered, failed or stopped.  The usage of the run is recorded,
\* with or without I/O.
RunEnds(p) ==
    /\ task[p].at = "running"
    /\ Turn(p)
    /\ task' = Moved(p, "settling")
    /\ \E first \in {<<>>, <<p>>} : Resolve(<<"reply", p>>, first)
    /\ UNCHANGED <<rec, there, live>>

\* The active state is cleared before the files of the run are captured.
Clear(p) ==
    /\ task[p].at = "settling"
    /\ Turn(p)
    /\ rec' = [rec EXCEPT !.reply = None, !.ready = None, !.prompting = FALSE,
                          !.aborting = FALSE]
    /\ task' = Moved(p, "capturing")
    /\ Yield
    /\ UNCHANGED <<there, live>>

Captured(p) ==
    /\ task[p].at = "capturing"
    /\ Turn(p)
    /\ DisposeSession(p, "end")
    /\ UNCHANGED <<there, live>>

End(t) ==
    /\ task[t].at = "end"
    /\ Turn(t)
    /\ task' = Ended(t)
    /\ Yield
    /\ UNCHANGED <<rec, there, live>>

PromptStep(p) ==
    \/ Begin(p) \/ EnsureSession(p) \/ Ready(p) \/ RunEnds(p) \/ Clear(p)
    \/ Captured(p) \/ Flushed(p) \/ End(p)

-----------------------------------------------------------------------------
(* Context operations: one at a time, in the order of their requests.      *)

\* withContextOperation up to its first await; resetContext first refuses a
\* conversation that is not idle.
Mut_Request(o) ==
    /\ task[o].at = "new"
    /\ there
    /\ Turn(o)
    /\ rec' = [rec EXCEPT !.context = o]
    /\ task' = Moved(o, "start")
    /\ GoOn(o)
    /\ UNCHANGED <<there, live>>
Request(o) ==
    /\ task[o].at = "new"
    /\ there
    /\ Turn(o)
    /\ \/ /\ o \in Resets /\ ~Idle
          /\ task' = Ended(o)
          /\ Yield
          /\ UNCHANGED rec
       \/ /\ o \notin Resets \/ Idle
          /\ rec' = [rec EXCEPT !.context = o]
          /\ IF rec.context = None
               THEN task' = Moved(o, "start") /\ GoOn(o)
               ELSE /\ task' = Blocked(o, <<"context", rec.context>>, "start")
                    /\ Await(o, <<"context", rec.context>>)
    /\ UNCHANGED <<there, live>>

\* The lock is passed on, whoever waits for it.
Mut_Release(o) ==
    /\ task[o].at = "release"
    /\ Turn(o)
    /\ task' = Ended(o)
    /\ IF rec.context = o
         THEN /\ rec' = [rec EXCEPT !.context = None]
              /\ Resolve(<<"context", o>>, <<>>)
         ELSE Yield /\ UNCHANGED rec
    /\ UNCHANGED <<there, live>>
Release(o) ==
    /\ task[o].at = "release"
    /\ Turn(o)
    /\ rec' = [rec EXCEPT !.context = IF @ = o THEN None ELSE @]
    /\ task' = Ended(o)
    /\ Resolve(<<"context", o>>, <<>>)
    /\ UNCHANGED <<there, live>>

\* getConversationContext refuses the caller, reads the session there is, joins
\* the one that is being built, answers from the cached value, or builds one.
StartPoll(o) ==
    /\ o \in Polls
    /\ task[o].at = "start"
    /\ Turn(o)
    /\ LET p == rec.ready
           begun(at, sess) == [task EXCEPT ![o].at = at, ![o].sess = sess,
                                           ![o].active = rec.prompting] IN
       \/ /\ rec.session # None
          /\ task' = begun("close", rec.session)
          /\ GoOn(o)
       \/ /\ rec.session = None /\ p # None
          /\ IF Pending(p)
               THEN /\ task' = [begun("joined", None) EXCEPT ![o].on = <<"ready", p>>]
                    /\ Await(o, <<"ready", p>>)
               ELSE task' = begun("close", task[p].sess) /\ GoOn(o)
       \/ task' = begun("release", None) /\ GoOn(o)
       \/ /\ rec.session = None /\ p = None
          /\ task' = begun("init", None) /\ Yield
    /\ UNCHANGED <<rec, there, live>>

Joined(o) ==
    /\ task[o].at = "joined"
    /\ Turn(o)
    /\ task' = Holding(o, "close", task[task[o].on[2]].sess)
    /\ GoOn(o)
    /\ UNCHANGED <<rec, there, live>>

\* setThinkingLevel refuses a prompting record or the caller, or builds a session.
StartLevel(o) ==
    /\ o \in Levels
    /\ task[o].at = "start"
    /\ Turn(o)
    /\ \/ task' = Moved(o, "release") /\ GoOn(o)
       \/ ~rec.prompting /\ task' = Moved(o, "init") /\ Yield
    /\ UNCHANGED <<rec, there, live>>

\* A poll disposes the session it has read when no prompt needs it, a change of
\* the level whatever session there is.
Close(o) ==
    /\ o \in Ops
    /\ task[o].at = "close"
    /\ Turn(o)
    /\ IF /\ ~rec.prompting
          /\ o \in Polls => /\ ~task[o].active
                            /\ task[o].sess # None
                            /\ rec.session = task[o].sess
         THEN DisposeSession(o, "release")
         ELSE task' = Moved(o, "release") /\ GoOn(o) /\ UNCHANGED rec
    /\ UNCHANGED <<there, live>>

\* resetRecordContext: busy, nothing to reset, or the transcript is retained
\* first, which may fail and end the reset.
StartReset(o) ==
    /\ o \in Resets
    /\ task[o].at = "start"
    /\ Turn(o)
    /\ \/ task' = Moved(o, "release") /\ GoOn(o)
       \/ Idle /\ task' = Moved(o, "retain") /\ Yield
       \/ Idle /\ task' = Moved(o, "retained") /\ GoOn(o)
    /\ UNCHANGED <<rec, there, live>>

Retained(o) ==
    /\ task[o].at = "retain"
    /\ Turn(o)
    /\ \E at \in {"retained", "release"} : task' = Moved(o, at)
    /\ GoOn(o)
    /\ UNCHANGED <<rec, there, live>>

\* A session that is being built is awaited before the second check.
AwaitReady(o) ==
    /\ task[o].at = "retained"
    /\ Turn(o)
    /\ IF rec.ready # None /\ Pending(rec.ready)
         THEN /\ task' = Blocked(o, <<"ready", rec.ready>>, "check")
              /\ Await(o, <<"ready", rec.ready>>)
         ELSE task' = Moved(o, "check") /\ GoOn(o)
    /\ UNCHANGED <<rec, there, live>>

CheckIdle(o) ==
    /\ task[o].at = "check"
    /\ Turn(o)
    /\ IF Idle THEN DisposeSession(o, "rewind")
               ELSE task' = Moved(o, "release") /\ GoOn(o) /\ UNCHANGED rec
    /\ UNCHANGED <<there, live>>

\* The leaf is reset and the marker appended: a new branch begins.
Rewind(o) ==
    /\ task[o].at = "rewind"
    /\ Turn(o)
    /\ task' = Moved(o, "release")
    /\ GoOn(o)
    /\ UNCHANGED <<rec, there, live>>

OpStep(o) ==
    \/ StartPoll(o) \/ Joined(o) \/ StartLevel(o) \/ EnsureSession(o) \/ Close(o)
    \/ StartReset(o) \/ Retained(o) \/ AwaitReady(o) \/ CheckIdle(o) \/ Rewind(o)
    \/ Flushed(o) \/ Release(o)

-----------------------------------------------------------------------------
(* abort and delete.                                                       *)

\* A session's abort ends when nothing runs in it any more.
Stopped(s) == \A p \in Prompts : task[p].at = "running" => task[p].sess # s

\* The session to abort: the record's, else the one that is being built.
Abort(a) ==
    /\ task[a].at = "new"
    /\ there
    /\ Turn(a)
    /\ rec' = [rec EXCEPT !.aborting = TRUE]
    /\ LET p == rec.ready IN
       \/ /\ rec.session # None
          /\ task' = Holding(a, "stopping", rec.session)
          /\ Yield
       \/ /\ rec.session = None /\ p # None /\ Pending(p)
          /\ task' = Blocked(a, <<"ready", p>>, "stop")
          /\ Await(a, <<"ready", p>>)
       \/ /\ rec.session = None /\ p # None /\ ~Pending(p)
          /\ task' = Holding(a, "stopping", task[p].sess)
          /\ Yield
       \/ /\ rec.session = None /\ p = None
          /\ task' = Ended(a)
          /\ Yield
    /\ UNCHANGED <<there, live>>

AbortBuilt(a) ==
    /\ task[a].at = "stop"
    /\ Turn(a)
    /\ task' = Holding(a, "stopping", task[task[a].on[2]].sess)
    /\ Yield
    /\ UNCHANGED <<rec, there, live>>

AbortEnds(a) ==
    /\ task[a].at = "stopping"
    /\ Turn(a)
    /\ Stopped(task[a].sess)
    /\ task' = Ended(a)
    /\ Yield
    /\ UNCHANGED <<rec, there, live>>

AbortStep(a) == AbortBuilt(a) \/ AbortEnds(a)

Delete(d) ==
    /\ task[d].at = "new"
    /\ there
    /\ Turn(d)
    /\ rec' = [rec EXCEPT !.aborting = TRUE]
    /\ IF rec.ready # None /\ Pending(rec.ready)
         THEN /\ task' = Blocked(d, <<"ready", rec.ready>>, "halt")
              /\ Await(d, <<"ready", rec.ready>>)
         ELSE task' = Moved(d, "halt") /\ GoOn(d)
    /\ UNCHANGED <<there, live>>

Halt(d) ==
    /\ task[d].at = "halt"
    /\ Turn(d)
    /\ IF rec.session = None
         THEN task' = Moved(d, "halted") /\ GoOn(d)
         ELSE /\ task' = Holding(d, "halting", rec.session)
              /\ Yield
    /\ UNCHANGED <<rec, there, live>>

HaltEnds(d) ==
    /\ task[d].at = "halting"
    /\ Turn(d)
    /\ Stopped(task[d].sess)
    /\ task' = Moved(d, "halted")
    /\ GoOn(d)
    /\ UNCHANGED <<rec, there, live>>

AwaitReply(d) ==
    /\ task[d].at = "halted"
    /\ Turn(d)
    /\ IF rec.reply # None /\ task[rec.reply].at = "running"
         THEN /\ task' = Blocked(d, <<"reply", rec.reply>>, "drop")
              /\ Await(d, <<"reply", rec.reply>>)
         ELSE task' = Moved(d, "drop") /\ GoOn(d)
    /\ UNCHANGED <<rec, there, live>>

Drop(d) ==
    /\ task[d].at = "drop"
    /\ Turn(d)
    /\ DisposeSession(d, "remove")
    /\ UNCHANGED <<there, live>>

\* The record, the files and the rows of the conversation are removed.
Remove(d) ==
    /\ task[d].at = "remove"
    /\ Turn(d)
    /\ there' = FALSE
    /\ task' = Ended(d)
    /\ Yield
    /\ UNCHANGED <<rec, live>>

DeleteStep(d) ==
    \/ Halt(d) \/ HaltEnds(d) \/ AwaitReply(d) \/ Drop(d) \/ Flushed(d) \/ Remove(d)

-----------------------------------------------------------------------------
Step(t) ==
    \/ t \in Prompts /\ PromptStep(t)
    \/ t \in Ops /\ OpStep(t)
    \/ t \in Aborts /\ AbortStep(t)
    \/ t \in Deletes /\ DeleteStep(t)

\* A prompt from its start until its state is cleared.
Active(p) == task[p].at \in {"init", "look", "build", "ready", "running", "settling"}

Next ==
    \/ /\ \/ \E t \in Tasks : Step(t)
          \/ \E p \in Prompts : Arrive(p)
          \/ \E o \in Ops : Request(o)
       /\ aborted' = {p \in aborted : Active(p)'}
    \/ /\ \/ \E a \in Aborts : Abort(a)
          \/ \E d \in Deletes : Delete(d)
       /\ aborted' = aborted \cup {p \in Prompts : Pending(p)}

Spec == Init /\ [][Next]_vars

-----------------------------------------------------------------------------
(* Properties.                                                             *)

Phases ==
    {"new", "enter", "init", "look", "build", "ready", "running", "settling",
     "capturing", "flushing", "end", "start", "joined", "close", "retain",
     "retained", "check", "rewind", "release", "stop", "stopping", "halt",
     "halting", "halted", "drop", "remove", "done"}

\* Where a call goes on after a disposal.
AfterDisposal == {"look", "end", "release", "rewind", "remove"}

TypeOK ==
    /\ rec \in [session : Tasks \cup {None}, loader : BOOLEAN, prompting : BOOLEAN,
                aborting : BOOLEAN, ready : Prompts \cup {None},
                reply : Prompts \cup {None}, context : Ops \cup {None},
                disposing : BOOLEAN]
    /\ there \in BOOLEAN
    /\ live \subseteq Tasks
    /\ task \in [Tasks -> [at : Phases,
                          on : {None, "context", "ready", "reply", "disposed"}
                                 \X (Tasks \cup {None}),
                          then : AfterDisposal, sess : Tasks \cup {None},
                          active : BOOLEAN]]

Open(t) == task[t].at \notin {"new", "done"}

\* The record belongs to the prompt that is active on it.
RecordInv ==
    /\ TypeOK
    /\ \A p \in Prompts : Active(p) => rec.prompting /\ rec.ready = p
    /\ \A p \in Prompts : task[p].at = "running" => rec.reply = p
    /\ \A p \in Prompts : task[p].at = "flushing" => task[p].then = "end"
    /\ \A t \in Tasks : task[t].at \in {"joined", "stop"} => task[t].on[2] \in Prompts

\* Where the tasks that await a promise go on.
Resumes(promise) ==
    CASE promise[1] = "context" -> {"enter", "start"}
      [] promise[1] = "ready" -> {"joined", "check", "stop", "halt"}
      [] promise[1] = "reply" -> {"drop"}
      [] promise[1] = "disposed" -> AfterDisposal

InMicro(t) == \E i \in DOMAIN micro : micro[i] = t

\* A call is in one queue at most, and once.
LoopInv ==
    /\ micro \in Seq(Tasks)
    /\ waiting \in [Promises -> Seq(Tasks)]
    /\ \A i, j \in DOMAIN micro : micro[i] = micro[j] => i = j
    /\ \A q \in Promises : \A i, j \in DOMAIN waiting[q] :
           waiting[q][i] = waiting[q][j] => i = j
    /\ \A t \in Tasks : InMicro(t) =>
           /\ task[t].at \notin {"new", "done", "stopping", "halting"}
           /\ \A q \in Promises : ~Awaits(t, q)
    /\ \A q \in Promises, t \in Tasks :
           Awaits(t, q) => task[t].on = q /\ task[t].at \in Resumes(q)
    /\ \A t \in Tasks : task[t].at = "enter" =>
           t \in Prompts /\ (InMicro(t) \/ \E q \in Promises : Awaits(t, q))

\* A context operation is under way, or the next to start.
Held(o) == Open(o) /\ \A c \in Ops : ~Awaits(o, <<"context", c>>)

\* One context operation is under way at a time.  The next one waits behind the
\* prompts that wait for the same operation, so that it starts after them.
LockInv ==
    /\ \A o, u \in Ops : Held(o) /\ Held(u) => o = u
    /\ rec.context = None => \A o \in Ops : ~Held(o)
    /\ \A c \in Ops : \A i \in DOMAIN waiting[<<"context", c>>] :
           waiting[<<"context", c>>][i] \in Ops =>
               i = Len(waiting[<<"context", c>>]) /\ c # rec.context
    /\ \A i \in DOMAIN micro :
           micro[i] \in Prompts /\ task[micro[i]].at = "enter" =>
               \A o \in Ops : Held(o) =>
                   /\ task[o].at = "start"
                   /\ \A j \in DOMAIN micro : micro[j] = o => i < j

\* In ensureSession, up to the session.
Building(t) ==
    \/ task[t].at \in {"init", "look", "build"}
    \/ task[t].at = "flushing" /\ task[t].then = "look"

Rewinding(o) ==
    \/ task[o].at = "rewind"
    \/ task[o].at = "flushing" /\ task[o].then = "rewind"

\* One call at a time builds a session, when the record holds none; a prompt has
\* the session of the record until that is disposed.
SessionInv ==
    /\ \A t \in Aborts \cup Deletes : ~Building(t)
    /\ \A o \in Ops, p \in Prompts : Building(o) => ~Active(p)
    /\ \A o \in Resets, p \in Prompts : Rewinding(o) => ~Active(p)
    /\ \A t \in Tasks : task[t].at = "build" => rec.session = None
    /\ live \subseteq {rec.session}
    /\ \A p \in Prompts : task[p].at \in {"new", "enter", "init", "look", "build"} =>
           task[p].sess = None
    /\ \A p \in Prompts : task[p].at = "ready" =>
           /\ micro # <<>> /\ Head(micro) = p
           /\ task[p].sess \in {None, rec.session}
    /\ \A p \in Prompts : task[p].at = "running" =>
           rec.session \in {None, task[p].sess}

\* What a call awaits is under way, and operations do not wait in a circle.
WaitInv ==
    /\ \A p \in Prompts, t \in Tasks : Awaits(t, <<"ready", p>>) => Pending(p)
    /\ \A p \in Prompts, t \in Tasks :
           Awaits(t, <<"reply", p>>) => task[p].at = "running"
    /\ \A t \in Tasks : Awaits(t, <<"disposed", None>>) => rec.disposing
    /\ rec.disposing => \E t \in Tasks : task[t].at = "flushing"
    /\ \A o \in Ops, t \in Tasks : Awaits(t, <<"context", o>>) => Open(o)
    /\ \A o \in Ops : rec.context = o => Open(o)
    /\ \A S \in (SUBSET Ops) \ {{}} :
           \E o \in S : \A c \in S : ~Awaits(o, <<"context", c>>)

\* An abort stays with the prompt it was meant for: until that prompt ends no
\* other begins, which would clear the flag, and it passes its start only once.
AbortInv ==
    /\ aborted \subseteq Prompts
    /\ \A p \in aborted :
           /\ task[p].at \notin {"new", "enter", "running"}
           /\ Pending(p) => rec.aborting

HostInv == RecordInv /\ LoopInv /\ LockInv /\ SessionInv /\ WaitInv /\ AbortInv

\* At most one prompt is active on the record, however many wait for a context
\* operation to end and are woken together.
OneRun ==
    \A p, q \in Prompts : Active(p) /\ Active(q) => p = q

\* No session leaks: only the session the record holds has not been disposed, so
\* two builds for one record never overlap.
NoLeak == live \subseteq {rec.session}

\* While a prompt runs, the session that abort would stop is the prompt's own,
\* even when it has been disposed meanwhile.
AbortReaches ==
    \A p \in Prompts : task[p].at = "running" =>
        /\ rec.ready = p
        /\ rec.session \in {None, task[p].sess}

\* A reset begins its new branch only between prompts: none is active when the
\* leaf is moved, although the check and the move are separated by an await.
ResetIsIdle ==
    \A o \in Resets : task[o].at = "rewind" /\ Turn(o) =>
        \A p \in Prompts : ~Active(p)

\* A prompt that was aborted while its session was still to come never reaches
\* the model, whatever other calls do between the abort and the end of the build.
AbortedNeverRuns == \A p \in aborted : task[p].at # "running"

\* No calls wait for each other: as long as a call has not ended, some call can
\* go on.  Every step takes its call further, so all of them end.
NeverStuck ==
    (\E t \in Tasks : Open(t)) =>
        \E t \in Tasks :
            /\ Open(t) /\ Turn(t)
            /\ task[t].at \in {"stopping", "halting"} => Stopped(task[t].sess)

\* "Never dispose a session that is actively prompting".
RunIsLive == \A p \in Prompts : task[p].at = "running" => task[p].sess \in live

=============================================================================
