--------------------------- MODULE KnowledgeIntake ---------------------------
(***************************************************************************)
(* Ingestion and deletion of one knowledge document in the Manager         *)
(* service (server/manager_service/knowledge_intake_*.py).                 *)
(*                                                                         *)
(* A document is indexed by jobs, one per generation: the upload makes     *)
(* generation 1, every accepted reindex makes the next.  Background hints  *)
(* and the recovery poller are workers: each claims the newest unfinished  *)
(* generation under a lease, fences it, posts its text to LightRAG, and    *)
(* later asks LightRAG what became of it.  Delete and reconcile requests   *)
(* run beside them.  Every database transaction and every call to LightRAG *)
(* is a step of its own; the Manager can crash between any two.            *)
(*                                                                         *)
(* Time is left out: a lease may lapse at any moment and a backoff may end *)
(* at any moment.  The attempts counter saturates at GiveUp, the only      *)
(* value the code compares it with.                                        *)
(***************************************************************************)
EXTENDS Naturals, Sequences, FiniteSets, SequencesExt

CONSTANTS
    Workers,        \* threads that run KnowledgeIntakeRecovery.process
    Requests,       \* threads that serve a delete or a reconcile-delete call
    Keys,           \* idempotency keys of delete requests
    MaxJobs,        \* bound on the generations of the document
    GiveUp,         \* attempts after which an unknown outcome becomes visible
    MaxCrashes,     \* bound on the restarts of the Manager
    None            \* no owner

ASSUME IntakeConstants ==
    /\ MaxJobs \in Nat \ {0}
    /\ GiveUp \in Nat \ {0}
    /\ MaxCrashes \in Nat
    /\ None \notin Workers

VARIABLES
    doc,        \* row of knowledge_document
    jobs,       \* rows of knowledge_ingestion_job, oldest generation first
    grants,     \* status of the bindings of the employees of the space
    receipts,   \* rows of knowledge_document_operation of kind delete
    rag,        \* LightRAG's record of each generation
    flying,     \* generations whose POST has left and not yet arrived
    doomed,     \* generations LightRAG has agreed to delete
    worker,     \* local state of each worker
    request,    \* local state of each request
    posts,      \* history: number of POSTs made for each generation
    crossed,    \* history: the outcome was known when a deletion read the document,
                \*   and no longer when it took it
    crashes     \* number of restarts so far

vars == <<doc, jobs, grants, receipts, rag, flying, doomed, worker, request,
          posts, crossed, crashes>>

Gens == 1..MaxJobs

Processing == {"uploaded", "parsing", "indexing", "reindex_requested"}

Newest == Len(jobs)

\* A fresh job row: not claimed, not submitted.
NewJob(status, receipt) ==
    [status |-> status, submission |-> "not_submitted", owner |-> None,
     leased |-> FALSE, attempts |-> 0, receipt |-> receipt]

IdleWorker == [at |-> "idle", gen |-> 1, seen |-> "unknown"]

IdleRequest == [at |-> "idle", key |-> None, seen |-> "ready", unknown |-> FALSE,
                row |-> 0, put |-> "pending"]

Init ==
    /\ doc = [status |-> "none", unknown |-> FALSE]
    /\ jobs = <<>>
    /\ grants = "none"
    /\ receipts = <<>>
    /\ rag = [g \in Gens |-> "absent"]
    /\ flying = {}
    /\ doomed = {}
    /\ worker = [w \in Workers |-> IdleWorker]
    /\ request = [r \in Requests |-> IdleRequest]
    /\ posts = [g \in Gens |-> 0]
    /\ crossed = FALSE
    /\ crashes = 0

-----------------------------------------------------------------------------
(* Upload and reindex.                                                     *)

\* The source is stored, then the row and its first job are committed together.
Created(status) ==
    /\ doc.status = "none"
    /\ doc' = [status |-> status, unknown |-> FALSE]
    /\ jobs' = <<NewJob("parsing", "none")>>
    /\ UNCHANGED <<grants, receipts, rag, flying, doomed, worker, request,
                   posts, crossed, crashes>>

Upload == Created("uploaded")

ImportUrl == Created("parsing")

\* prepare_reindex: receipt, document CAS, stale bindings and the new job in one
\* transaction.  A replay of a key and a refused CAS change nothing.
Mut_Reindex ==
    /\ Newest < MaxJobs
    /\ doc.status \in {"ready", "failed"}
    /\ doc' = [status |-> "reindex_requested", unknown |-> FALSE]
    /\ grants' = IF grants = "ready" THEN "stale" ELSE grants
    /\ jobs' = Append(jobs, NewJob("reindex_requested", "pending"))
    /\ UNCHANGED <<receipts, rag, flying, doomed, worker, request, posts,
                   crossed, crashes>>
Mut_ReindexKeeps ==
    /\ Newest < MaxJobs
    /\ doc.status \in {"ready", "failed"}
    /\ ~doc.unknown
    /\ doc' = [status |-> "reindex_requested", unknown |-> FALSE]
    /\ jobs' = Append(jobs, NewJob("reindex_requested", "pending"))
    /\ UNCHANGED <<grants, receipts, rag, flying, doomed, worker, request, posts,
                   crossed, crashes>>
Reindex ==
    /\ Newest < MaxJobs
    /\ doc.status \in {"ready", "failed"}
    /\ ~doc.unknown
    /\ doc' = [status |-> "reindex_requested", unknown |-> FALSE]
    /\ grants' = IF grants = "ready" THEN "stale" ELSE grants
    /\ jobs' = Append(jobs, NewJob("reindex_requested", "pending"))
    /\ UNCHANGED <<receipts, rag, flying, doomed, worker, request, posts,
                   crossed, crashes>>

-----------------------------------------------------------------------------
(* The worker.                                                             *)

\* The claim query's conditions on a job row and its document.
Mut_Claimable(g) ==
    /\ ~jobs[g].leased
    /\ jobs[g].status \notin {"done", "failed"}
    /\ doc.status \in Processing \cup {"failed"}
Mut_ClaimableUnowned(g) ==
    /\ jobs[g].owner = None
    /\ \/ jobs[g].status \notin {"done", "failed"}
       \/ jobs[g].submission = "submitted"
    /\ doc.status \in Processing \cup {"failed"}
Claimable(g) ==
    /\ ~jobs[g].leased
    /\ \/ jobs[g].status \notin {"done", "failed"}
       \/ jobs[g].submission = "submitted"
    /\ doc.status \in Processing \cup {"failed"}

\* What the claim, the fence, the publication and the settlement write to a job.
Tried(attempts) == IF attempts < GiveUp THEN attempts + 1 ELSE attempts

Claimed(j, w) ==
    [j EXCEPT !.owner = w, !.leased = TRUE, !.attempts = Tried(@)]

Fenced(j) ==
    [j EXCEPT !.submission = "submitted", !.status = "indexing"]

Published(j) ==
    [j EXCEPT !.status = "done", !.submission = "terminal",
              !.owner = None, !.leased = FALSE,
              !.receipt = IF @ = "none" THEN @ ELSE "completed"]

\* An unknown outcome becomes visible after GiveUp attempts, and the job stays
\* claimable even then.
Lost(j, seen) == seen = "unknown" /\ j.attempts >= GiveUp

Shown(j, seen) == IF seen = "failed" \/ Lost(j, seen) THEN "failed" ELSE "indexing"

Settled(j, seen) ==
    [j EXCEPT !.status = Shown(j, seen),
              !.submission = IF seen = "failed" THEN "terminal" ELSE @,
              !.owner = None, !.leased = FALSE,
              !.receipt = IF @ # "none" /\ Shown(j, seen) = "failed"
                            THEN "failed" ELSE @]

Claim(w) ==
    /\ worker[w].at = "idle"
    /\ Newest > 0
    /\ Claimable(Newest)
    /\ jobs' = [jobs EXCEPT ![Newest] = Claimed(@, w)]
    /\ worker' = [worker EXCEPT ![w] =
                    [at |-> IF jobs[Newest].submission = "not_submitted"
                              THEN "parse" ELSE "probe",
                     gen |-> Newest, seen |-> "unknown"]]
    /\ UNCHANGED <<doc, grants, receipts, rag, flying, doomed, request, posts,
                   crossed, crashes>>

\* _owned: the row still names this worker and its lease has not lapsed.
Owns(w) ==
    /\ jobs[worker[w].gen].owner = w
    /\ jobs[worker[w].gen].leased

\* The worker goes on to another position with what it has learnt.
Moved(w, at, seen) ==
    [worker EXCEPT ![w] = [at |-> at, gen |-> worker[w].gen, seen |-> seen]]

\* Parsing and the checks made before the fence fail: the job ends here.
ParseFails(w) ==
    /\ worker[w].at = "parse"
    /\ worker' = Moved(w, "settle", "failed")
    /\ UNCHANGED <<doc, jobs, grants, receipts, rag, flying, doomed, request,
                   posts, crossed, crashes>>

\* fence_submission: the last durable step before the POST.
Fence(w) ==
    /\ worker[w].at = "parse"
    /\ IF Owns(w) /\ jobs[worker[w].gen].submission = "not_submitted"
         THEN /\ jobs' = [jobs EXCEPT ![worker[w].gen] = Fenced(@)]
              /\ doc' = [status |-> "indexing", unknown |-> FALSE]
              /\ worker' = Moved(w, "post", "unknown")
         ELSE /\ worker' = [worker EXCEPT ![w] = IdleWorker]
              /\ UNCHANGED <<doc, jobs>>
    /\ UNCHANGED <<grants, receipts, rag, flying, doomed, request, posts,
                   crossed, crashes>>

\* submit_text: the POST leaves.  With an answer the track id is recorded next;
\* any other outcome is an exception and settles the attempt as unknown.  The
\* POST itself may be lost, or arrive whatever became of the answer.
Post(w) ==
    /\ worker[w].at = "post"
    /\ posts' = [posts EXCEPT ![worker[w].gen] = @ + 1]
    /\ \/ /\ rag' = [rag EXCEPT ![worker[w].gen] = "queued"]
          /\ worker' = Moved(w, "track", "unknown")
          /\ UNCHANGED flying
       \/ /\ \/ flying' = flying \cup {worker[w].gen}
             \/ UNCHANGED flying
          /\ worker' = Moved(w, "settle", "unknown")
          /\ UNCHANGED rag
    /\ UNCHANGED <<doc, jobs, grants, receipts, doomed, request, crossed, crashes>>

\* record_track: renews the lease, or gives up a claim that has been lost.
RecordTrack(w) ==
    /\ worker[w].at = "track"
    /\ worker' = IF Owns(w) THEN Moved(w, "probe", "unknown")
                            ELSE [worker EXCEPT ![w] = IdleWorker]
    /\ UNCHANGED <<doc, jobs, grants, receipts, rag, flying, doomed, request,
                   posts, crossed, crashes>>

\* reconcile_ingestion: what LightRAG's listing says of this generation.
Listed(g) ==
    CASE rag[g] = "absent" -> "unknown"
      [] rag[g] = "queued" -> "pending"
      [] OTHER -> rag[g]

\* The probe answers, or fails (an exception, settled as unknown).
ProbeAnswers(w) ==
    /\ worker[w].at = "probe"
    /\ LET state == Listed(worker[w].gen) IN
       worker' = Moved(w, IF state = "processed" THEN "publish" ELSE "settle", state)
    /\ UNCHANGED <<doc, jobs, grants, receipts, rag, flying, doomed, request,
                   posts, crossed, crashes>>

ProbeFails(w) ==
    /\ worker[w].at = "probe"
    /\ worker' = Moved(w, "settle", "unknown")
    /\ UNCHANGED <<doc, jobs, grants, receipts, rag, flying, doomed, request,
                   posts, crossed, crashes>>

\* publish_ready: one transaction, refused (and settled as unknown) when the
\* claim is gone or the document is not being indexed.
Mut_Publish(w) ==
    /\ worker[w].at = "publish"
    /\ jobs' = [jobs EXCEPT ![worker[w].gen] = Published(@)]
    /\ doc' = [status |-> "ready", unknown |-> FALSE]
    /\ grants' = "ready"
    /\ worker' = [worker EXCEPT ![w] = IdleWorker]
    /\ UNCHANGED <<receipts, rag, flying, doomed, request, posts, crossed, crashes>>
Publish(w) ==
    /\ worker[w].at = "publish"
    /\ IF Owns(w) /\ doc.status \in {"indexing", "failed"}
         THEN /\ jobs' = [jobs EXCEPT ![worker[w].gen] = Published(@)]
              /\ doc' = [status |-> "ready", unknown |-> FALSE]
              /\ grants' = "ready"
              /\ worker' = [worker EXCEPT ![w] = IdleWorker]
         ELSE /\ worker' = Moved(w, "settle", "unknown")
              /\ UNCHANGED <<doc, jobs, grants>>
    /\ UNCHANGED <<receipts, rag, flying, doomed, request, posts, crossed, crashes>>

\* settle: job, document and receipt together, by the owner only.
Settle(w) ==
    /\ worker[w].at = "settle"
    /\ IF Owns(w)
         THEN LET j == jobs[worker[w].gen] IN
              /\ jobs' = [jobs EXCEPT ![worker[w].gen] = Settled(@, worker[w].seen)]
              /\ doc' = [status |-> Shown(j, worker[w].seen),
                         unknown |-> Lost(j, worker[w].seen)]
         ELSE UNCHANGED <<doc, jobs>>
    /\ worker' = [worker EXCEPT ![w] = IdleWorker]
    /\ UNCHANGED <<grants, receipts, rag, flying, doomed, request, posts, crossed,
                   crashes>>

WorkerStep(w) ==
    \/ Claim(w) \/ ParseFails(w) \/ Fence(w) \/ Post(w) \/ RecordTrack(w)
    \/ ProbeAnswers(w) \/ ProbeFails(w) \/ Publish(w) \/ Settle(w)

-----------------------------------------------------------------------------
(* LightRAG, the clock and the Manager process.                            *)

\* A delayed POST arrives.
Arrive(g) ==
    /\ g \in flying
    /\ flying' = flying \ {g}
    /\ rag' = [rag EXCEPT ![g] = "queued"]
    /\ UNCHANGED <<doc, jobs, grants, receipts, doomed, worker, request, posts,
                   crossed, crashes>>

\* LightRAG finishes indexing a generation.
Index(g) ==
    /\ rag[g] = "queued"
    /\ \E outcome \in {"processed", "failed"} :
          rag' = [rag EXCEPT ![g] = outcome]
    /\ UNCHANGED <<doc, jobs, grants, receipts, flying, doomed, worker, request,
                   posts, crossed, crashes>>

\* LightRAG finishes a deletion it has started.
Drop(g) ==
    /\ g \in doomed
    /\ doomed' = doomed \ {g}
    /\ rag' = [rag EXCEPT ![g] = "absent"]
    /\ UNCHANGED <<doc, jobs, grants, receipts, flying, worker, request, posts,
                   crossed, crashes>>

\* The 90 seconds of a lease pass.
Lapse(g) ==
    /\ g <= Newest
    /\ jobs[g].leased
    /\ jobs' = [jobs EXCEPT ![g].leased = FALSE]
    /\ UNCHANGED <<doc, grants, receipts, rag, flying, doomed, worker, request,
                   posts, crossed, crashes>>

\* The Manager restarts: whatever its threads held is gone.
Crash ==
    /\ crashes < MaxCrashes
    /\ crashes' = crashes + 1
    /\ worker' = [w \in Workers |-> IdleWorker]
    /\ request' = [r \in Requests |-> IdleRequest]
    /\ UNCHANGED <<doc, jobs, grants, receipts, rag, flying, doomed, posts, crossed>>

-----------------------------------------------------------------------------
(* delete.                                                                 *)

Present == {g \in 1..Newest : rag[g] # "absent"}

\* Row of the receipt with a key, 0 when there is none.
RowOf(k) == SelectInSeq(receipts, LAMBDA o : o.key = k)

\* The document is read and its state checked; a known key is answered at once.
Mut_DeleteStart(r, k) ==
    /\ request[r].at = "idle"
    /\ RowOf(k) = 0
    /\ doc.status \in {"ready", "failed", "deleting"}
    /\ request' = [request EXCEPT ![r] =
                     [IdleRequest EXCEPT !.at = "create", !.key = k,
                                         !.seen = doc.status, !.unknown = doc.unknown]]
    /\ UNCHANGED <<doc, jobs, grants, receipts, rag, flying, doomed, worker,
                   posts, crossed, crashes>>
DeleteStart(r, k) ==
    /\ request[r].at = "idle"
    /\ RowOf(k) = 0
    /\ ~doc.unknown
    /\ doc.status \in {"ready", "failed", "deleting"}
    /\ request' = [request EXCEPT ![r] =
                     [IdleRequest EXCEPT !.at = "create", !.key = k,
                                         !.seen = doc.status, !.unknown = doc.unknown]]
    /\ UNCHANGED <<doc, jobs, grants, receipts, rag, flying, doomed, worker,
                   posts, crossed, crashes>>

\* The receipt is inserted, or the one a twin request inserted is taken over.
DeleteCreate(r) ==
    /\ request[r].at = "create"
    /\ LET row  == RowOf(request[r].key)
           next == IF request[r].seen = "deleting" THEN "revoke" ELSE "cas" IN
       \/ /\ row = 0
          /\ receipts' = Append(receipts, [key |-> request[r].key,
                                           status |-> "pending"])
          /\ request' = [request EXCEPT ![r].at = next,
                                        ![r].row = Len(receipts) + 1]
       \/ /\ row # 0
          /\ request' = IF receipts[row].status = "pending"
                          THEN [request EXCEPT ![r].at = next, ![r].row = row]
                          ELSE [request EXCEPT ![r] = IdleRequest]
          /\ UNCHANGED receipts
    /\ UNCHANGED <<doc, jobs, grants, rag, flying, doomed, worker, posts,
                   crossed, crashes>>

\* transition_document: ready or failed becomes deleting.
Mut_DeleteCas(r) ==
    /\ request[r].at = "cas"
    /\ doc' = [status |-> "deleting", unknown |-> FALSE]
    /\ crossed' = (crossed \/ (doc.unknown /\ ~request[r].unknown))
    /\ request' = [request EXCEPT ![r].at = "revoke"]
    /\ UNCHANGED <<jobs, grants, receipts, rag, flying, doomed, worker, posts,
                   crashes>>
DeleteCas(r) ==
    /\ request[r].at = "cas"
    /\ IF doc.status \in {"ready", "failed"}
         THEN /\ doc' = [status |-> "deleting", unknown |-> FALSE]
              /\ crossed' = (crossed \/ (doc.unknown /\ ~request[r].unknown))
              /\ request' = [request EXCEPT ![r].at = "revoke"]
         ELSE /\ request' = [request EXCEPT ![r].at = "mark", ![r].put = "conflict"]
              /\ UNCHANGED <<doc, crossed>>
    /\ UNCHANGED <<jobs, grants, receipts, rag, flying, doomed, worker, posts,
                   crashes>>

DeleteRevoke(r) ==
    /\ request[r].at = "revoke"
    /\ grants' = IF grants = "none" THEN "none" ELSE "revoked"
    /\ request' = [request EXCEPT ![r].at = "call"]
    /\ UNCHANGED <<doc, jobs, receipts, rag, flying, doomed, worker, posts,
                   crossed, crashes>>

\* delete_document for everything LightRAG lists of this document: it starts,
\* is busy, or cannot be reached; an answer that is lost may have been a start.
AskDeletion(r) ==
    /\ \E put \in {"pending", "unavailable"} :
          request' = [request EXCEPT ![r].at = "mark", ![r].put = put]
    /\ doomed' \in {doomed, doomed \cup Present}

DeleteCall(r) ==
    /\ request[r].at = "call"
    /\ AskDeletion(r)
    /\ UNCHANGED <<doc, jobs, grants, receipts, rag, flying, worker, posts,
                   crossed, crashes>>

\* The operation row is updated by id, whatever it holds by now.
Mark(r) ==
    /\ request[r].at = "mark"
    /\ receipts' = [receipts EXCEPT ![request[r].row].status = request[r].put]
    /\ request' = [request EXCEPT ![r] = IdleRequest]
    /\ UNCHANGED <<doc, jobs, grants, rag, flying, doomed, worker, posts,
                   crossed, crashes>>

-----------------------------------------------------------------------------
(* reconcile_delete.                                                       *)

Retryable(row) == receipts[row].status \in {"pending", "unavailable"}

ReconcileStart(r) ==
    /\ request[r].at = "idle"
    /\ doc.status \in {"deleting", "deleted"}
    /\ request' = [request EXCEPT ![r] =
                     [IdleRequest EXCEPT !.at = "pick", !.seen = doc.status]]
    /\ UNCHANGED <<doc, jobs, grants, receipts, rag, flying, doomed, worker,
                   posts, crossed, crashes>>

\* The receipt of an exact key, or the newest one for a fresh key.
ReconcilePick(r, row) ==
    /\ request[r].at = "pick"
    /\ row \in DOMAIN receipts
    /\ \/ /\ ~Retryable(row)
          /\ request' = [request EXCEPT ![r] = IdleRequest]
       \/ /\ Retryable(row) /\ request[r].seen = "deleted"
          /\ request' = [request EXCEPT ![r].at = "mark", ![r].row = row, ![r].put = "completed"]
       \/ /\ Retryable(row) /\ request[r].seen # "deleted"
          /\ request' = [request EXCEPT ![r].at = "probe", ![r].row = row]
    /\ UNCHANGED <<doc, jobs, grants, receipts, rag, flying, doomed, worker,
                   posts, crossed, crashes>>

\* The bounded listing: proved absent, unreachable, or still there, and then
\* the deletion is asked for again.
ReconcileProbe(r) ==
    /\ request[r].at = "probe"
    /\ \/ /\ Present = {}
          /\ request' = [request EXCEPT ![r].at = "finish"]
          /\ UNCHANGED doomed
       \/ /\ request' = [request EXCEPT ![r].at = "mark", ![r].put = "unavailable"]
          /\ UNCHANGED doomed
       \/ /\ Present # {}
          /\ AskDeletion(r)
    /\ UNCHANGED <<doc, jobs, grants, receipts, rag, flying, worker, posts,
                   crossed, crashes>>

\* The source is unlinked, then the document CAS publishes deleted.
Mut_ReconcileFinish(r) ==
    /\ request[r].at = "finish"
    /\ \/ /\ doc' = [status |-> "deleted", unknown |-> FALSE]
          /\ request' = [request EXCEPT ![r].at = "recheck"]
       \/ /\ request' = [request EXCEPT ![r].at = "mark", ![r].put = "completed"]
          /\ UNCHANGED doc
    /\ UNCHANGED <<jobs, grants, receipts, rag, flying, doomed, worker, posts,
                   crossed, crashes>>
ReconcileFinish(r) ==
    /\ request[r].at = "finish"
    /\ \/ /\ request' = [request EXCEPT ![r].at = "mark", ![r].put = "unavailable"]
          /\ UNCHANGED doc
       \/ /\ doc.status = "deleting"
          /\ doc' = [status |-> "deleted", unknown |-> FALSE]
          /\ request' = [request EXCEPT ![r].at = "mark", ![r].put = "completed"]
       \/ /\ doc.status # "deleting"
          /\ request' = [request EXCEPT ![r].at = "recheck"]
          /\ UNCHANGED doc
    /\ UNCHANGED <<jobs, grants, receipts, rag, flying, doomed, worker, posts,
                   crossed, crashes>>

\* A lost CAS is answered from a completed receipt, or marks a conflict.
ReconcileRecheck(r) ==
    /\ request[r].at = "recheck"
    /\ request' = IF doc.status = "deleted"
                     /\ receipts[request[r].row].status = "completed"
                    THEN [request EXCEPT ![r] = IdleRequest]
                    ELSE [request EXCEPT ![r].at = "mark", ![r].put = "conflict"]
    /\ UNCHANGED <<doc, jobs, grants, receipts, rag, flying, doomed, worker,
                   posts, crossed, crashes>>

RequestStep(r) ==
    \/ \E k \in Keys : DeleteStart(r, k)
    \/ DeleteCreate(r) \/ DeleteCas(r) \/ DeleteRevoke(r) \/ DeleteCall(r)
    \/ Mark(r) \/ ReconcileStart(r)
    \/ \E row \in DOMAIN receipts : ReconcilePick(r, row)
    \/ ReconcileProbe(r) \/ ReconcileFinish(r) \/ ReconcileRecheck(r)

Next ==
    \/ Upload \/ ImportUrl \/ Reindex \/ Crash
    \/ \E w \in Workers : WorkerStep(w)
    \/ \E r \in Requests : RequestStep(r)
    \/ \E g \in Gens : Arrive(g) \/ Index(g) \/ Drop(g) \/ Lapse(g)

Spec == Init /\ [][Next]_vars

-----------------------------------------------------------------------------
(* Fairness.  Threads keep running, leases run out, LightRAG works off what *)
(* it has accepted, and again and again some claim is kept long enough for  *)
(* the next step and some probe is answered.                                *)

Fairness ==
    /\ \A w \in Workers : WF_vars(WorkerStep(w))
    /\ \A g \in Gens : /\ WF_vars(Arrive(g))
                       /\ WF_vars(Index(g))
                       /\ WF_vars(Lapse(g))
    /\ SF_vars(\E w \in Workers : Fence(w) /\ Owns(w))
    /\ SF_vars(\E w \in Workers : ProbeAnswers(w) /\ Owns(w))
    /\ SF_vars(\E w \in Workers : Settle(w) /\ Owns(w))
    /\ SF_vars(\E w \in Workers : /\ Publish(w) \/ Settle(w)
                                 /\ Owns(w)
                                 /\ worker[w].seen # "unknown")

\* The console polls a document that is being deleted with a fresh key, which
\* picks the newest receipt; again and again LightRAG answers: the listing proves
\* absence when nothing is present, and otherwise the deletion is started; it
\* ends the deletions it has started, and the source can be unlinked.
Polling ==
    /\ \A g \in Gens : WF_vars(Drop(g))
    /\ \A r \in Requests : /\ WF_vars(RequestStep(r) /\ request[r].at # "idle")
                           /\ SF_vars(ReconcileStart(r))
                           /\ SF_vars(ReconcilePick(r, Len(receipts)))
                           /\ SF_vars(ReconcileProbe(r) /\ Present = {} /\ request'[r].at = "finish")
                           /\ SF_vars(ReconcileProbe(r) /\ Present # {} /\ Present \subseteq doomed')
                           /\ SF_vars(ReconcileFinish(r) /\ doc' # doc)

FairSpec == Spec /\ Fairness

PolledSpec == FairSpec /\ Polling

-----------------------------------------------------------------------------
(* Properties.                                                             *)

Job == [status : Processing \cup {"done", "failed"},
        submission : {"not_submitted", "submitted", "terminal"},
        owner : Workers \cup {None},
        leased : BOOLEAN,
        attempts : 0..GiveUp,
        receipt : {"none", "pending", "failed", "completed"}]

TypeOK ==
    /\ doc \in [status : Processing \cup {"none", "ready", "failed", "deleting",
                                          "deleted"},
               unknown : BOOLEAN]
    /\ jobs \in Seq(Job)
    /\ Len(jobs) <= MaxJobs
    /\ grants \in {"none", "ready", "stale", "revoked"}
    /\ rag \in [Gens -> {"absent", "queued", "processed", "failed"}]
    /\ posts \in [Gens -> 0..1]
    /\ flying \subseteq Gens
    /\ worker \in [Workers -> [at : {"idle", "parse", "post", "track", "probe",
                                     "publish", "settle"},
                               gen : Gens,
                               seen : {"unknown", "pending", "processed", "failed"}]]

\* What the rows and LightRAG's records say of one generation.
GenInv(g) ==
    /\ g > Newest => posts[g] = 0
    /\ posts[g] = 0 => g \notin flying /\ rag[g] = "absent"
    /\ g \in flying => rag[g] = "absent"
    /\ g < Newest => jobs[g].submission = "terminal"
    /\ g <= Newest /\ jobs[g].submission = "not_submitted" => posts[g] = 0
    /\ g <= Newest /\ jobs[g].submission = "terminal" =>
          /\ jobs[g].owner = None
          /\ jobs[g].status \in {"done", "failed"}
          /\ g \notin flying

\* What a worker that still holds its claim, or is about to post, relies on.
WorkerInv(w) ==
    LET g == worker[w].gen IN
    worker[w].at # "idle" =>
        /\ g <= Newest
        /\ worker[w].at = "parse" /\ jobs[g].owner = w =>
              jobs[g].submission = "not_submitted"
        /\ worker[w].at = "post" =>
              /\ jobs[g].submission = "submitted"
              /\ posts[g] = 0
              /\ \A v \in Workers : worker[v].at = "post" /\ worker[v].gen = g => v = w
        /\ worker[w].at = "publish" => posts[g] = 1 /\ g \notin flying
        /\ worker[w].at = "settle" /\ worker[w].seen = "failed"
              /\ jobs[g].owner = w =>
              \/ jobs[g].submission = "not_submitted"
              \/ posts[g] = 1 /\ g \notin flying

\* A document offered for a new generation has settled its last one, and no
\* binding is ready while a generation is open.
DocInv ==
    /\ doc.status = "none" <=> Newest = 0
    /\ doc.status \in {"ready", "failed"} /\ ~doc.unknown =>
          jobs[Newest].submission = "terminal"
    /\ (Newest > 0 => jobs[Newest].submission # "terminal") => grants # "ready"
    /\ doc.status \in Processing \cup {"failed"} => grants # "ready"

IngestInv ==
    /\ TypeOK
    /\ \A g \in Gens : GenInv(g)
    /\ \A w \in Workers : WorkerInv(w)
    /\ DocInv

\* A generation is posted to LightRAG at most once, over every crash, lapsed
\* lease and repeated claim; and while the outcome of one generation is unknown
\* no later one is posted.
NeverReposted ==
    \A g \in Gens :
        /\ posts[g] <= 1
        /\ posts[g] = 1 => \A h \in 1..(g - 1) :
                               /\ jobs[h].submission = "terminal"
                               /\ h \notin flying

\* A published document is the newest generation's: LightRAG has processed it,
\* the job and its receipt are closed, and the employees hold ready bindings.
\* Only a requested deletion may take that away.
ReadyIsIndexed ==
    doc.status = "ready" /\ receipts = <<>> =>
        /\ rag[Newest] = "processed"
        /\ jobs[Newest].status = "done"
        /\ jobs[Newest].receipt \in {"none", "completed"}
        /\ grants = "ready"

\* While a document is indexed again, and after that failed, no binding is
\* served as ready: readers never cite a generation being replaced.
StaleIsHidden ==
    doc.status \in Processing \cup {"failed"} => grants # "ready"

\* The three properties of a deletion leave out one race.  delete checks that the
\* outcome is known when it reads the document; a reindex may be accepted, posted
\* and lost before the transition to deleting, which does not check it again.

\* A document is published as deleted only when LightRAG holds none of its
\* generations and none of its POSTs can still arrive.
DeletedIsGone ==
    doc.status = "deleted" /\ ~crossed =>
        flying = {} /\ \A g \in Gens : rag[g] = "absent"

\* A completed delete receipt is never handed out for a document that is there.
CompletedIsDeleted ==
    (\E row \in DOMAIN receipts : receipts[row].status = "completed") /\ ~crossed
        => doc.status = "deleted"

\* Nothing brings a deleted document back: no late worker settles or publishes
\* it, no request restarts its deletion.
DeletedStays == [][doc.status = "deleted" /\ ~crossed => doc' = doc]_vars

\* The argument for ReadyIsIndexed: as long as no deletion was asked for LightRAG
\* keeps what a worker has seen processed and is about to publish.
ServedInv ==
    /\ doc.status = "ready" => ~doc.unknown
    /\ receipts = <<>> =>
          /\ doomed = {}
          /\ \A r \in Requests : request[r].at \in {"idle", "create", "pick"}
          /\ \A w \in Workers : worker[w].at = "publish" => rag[worker[w].gen] = "processed"
    /\ ReadyIsIndexed

\* The rows and the locals of a deletion are records of these fields.
DeletionShape ==
    /\ receipts \in Seq([key : Keys, status : {"pending", "unavailable", "conflict", "completed"}])
    /\ request = [r \in Requests |->
                     [at |-> request[r].at, key |-> request[r].key, seen |-> request[r].seen,
                      unknown |-> request[r].unknown, row |-> request[r].row, put |-> request[r].put]]
    /\ \A r \in Requests :
          /\ request[r].at = "create" => request[r].key \in Keys
          /\ request[r].unknown = FALSE
          /\ request[r].put \in {"pending", "unavailable", "conflict", "completed"}
    /\ crossed \in BOOLEAN

Deleting == doc.status \in {"deleting", "deleted"}

\* What a reconciliation relies on: the document is still being deleted, and what
\* the listing proved absent stays absent until the document is deleted.
ReconcileInv(r) ==
    /\ request[r].at \in {"pick", "probe", "finish"} => Deleting
    /\ request[r].at = "pick" /\ request[r].seen = "deleted" => doc.status = "deleted"
    /\ request[r].at = "finish" => \A g \in Gens : rag[g] = "absent"
    /\ request[r].put = "completed" => doc.status = "deleted"

\* The argument for the three properties of a deletion: a document of known outcome
\* that is being deleted has no open generation, so no worker can post or settle it.
DeletionInv ==
    /\ DeletionShape
    /\ ~crossed =>
          /\ Deleting => jobs[Newest].submission = "terminal"
          /\ \A r \in Requests : ReconcileInv(r)
    /\ DeletedIsGone /\ CompletedIsDeleted

\* The inductive invariant of ingestion and deletion.
IntakeInv == IngestInv /\ ServedInv /\ DeletionInv

\* Ingestion never hangs: a document in process is published, fails or is
\* deleted.
IngestionEnds == doc.status \in Processing ~> doc.status \notin Processing

\* An unknown outcome is still settled: as long as LightRAG holds the posted
\* generation, the continued reconciliation releases the protected document.
UnknownIsResolved == []<>~(doc.unknown /\ rag[Newest] # "absent")

\* Console polling brings every deletion to its end.
DeletingEnds == doc.status = "deleting" ~> doc.status # "deleting"

=============================================================================
