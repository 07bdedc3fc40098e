----------------------- MODULE KnowledgeDeletionProofs -----------------------
(* Proofs about KnowledgeIntake: a published document is indexed, a        *)
(* deleted one is gone and stays deleted, and a completed delete receipt   *)
(* stands for a deleted document, for any number of workers, requests,     *)
(* keys, generations, attempts and crashes.                                *)
EXTENDS KnowledgeIntakeProofs

(* Serving: what is published is indexed until a deletion is asked for.    *)

\* A job that is held is the newest, and its generation is open.
LEMMA HeldIsNewest ==
    ASSUME IngestInv, NEW w \in Workers, worker[w].at # "idle", Owns(w)
    PROVE  worker[w].gen = Newest /\ jobs[Newest].submission # "terminal" /\ Newest \in Gens
<1>1. worker[w].gen \in Gens /\ WorkerInv(w) /\ GenInv(worker[w].gen) /\ Newest \in Nat
  BY LenProperties, Zenon DEF IngestInv, TypeOK, Newest
<1>2. worker[w].gen <= Newest
  BY <1>1, Zenon DEF WorkerInv
<1>3. jobs[worker[w].gen].submission # "terminal"
  BY <1>1, <1>2, IntakeConstants, Zenon DEF GenInv, Owns
<1> QED
  BY <1>1, <1>2, <1>3, IntakeConstants DEF GenInv, Gens

\* Once the newest generation is closed nothing is held, posted or under way.
LEMMA ClosedForWorkers ==
    ASSUME IngestInv, doc.status # "none", jobs[Newest].submission = "terminal"
    PROVE  /\ Newest \in Gens /\ flying = {}
           /\ \A w \in Workers : worker[w].at # "post" /\ (worker[w].at # "idle" => ~Owns(w))
<1>1. Newest \in Gens
  BY LenProperties, IntakeConstants DEF IngestInv, TypeOK, DocInv, Newest, Gens
<1>2. ASSUME NEW g \in Gens PROVE g \notin flying /\ (g <= Newest => jobs[g].submission = "terminal")
  BY <1>1 DEF IngestInv, GenInv, Gens
<1>3. flying = {}
  BY <1>2, Zenon DEF IngestInv, TypeOK
<1>4. ASSUME NEW w \in Workers PROVE worker[w].at # "post"
  <2>1. worker[w].gen \in Gens /\ WorkerInv(w)
    BY Zenon DEF IngestInv, TypeOK
  <2> QED
    BY <1>2, <2>1, Zenon DEF WorkerInv
<1> QED
  BY <1>1, <1>3, <1>4, HeldIsNewest, Zenon

\* A step that leaves the document, its rows, its bindings and the requests alone,
\* takes no worker to publication and keeps what LightRAG has processed.
LEMMA ServedQuiet ==
    ASSUME IngestInv, ServedInv,
           UNCHANGED <<doc, grants, receipts, request>>,
           Len(jobs') = Len(jobs),
           doc.status = "ready" =>
              /\ jobs'[Newest].status = jobs[Newest].status
              /\ jobs'[Newest].receipt = jobs[Newest].receipt,
           receipts = <<>> =>
              /\ doomed' = {}
              /\ \A w \in Workers : worker'[w].at = "publish" => rag'[worker'[w].gen] = "processed"
              /\ doc.status = "ready" /\ rag[Newest] = "processed" => rag'[Newest] = "processed"
    PROVE  ServedInv'
BY Zenon DEF ServedInv, ReadyIsIndexed, Newest

\* A step after which the document is not ready, and no worker is about to publish
\* that was not before.
LEMMA ServedElse ==
    ASSUME ServedInv, doc'.status # "ready",
           UNCHANGED <<receipts, request, doomed, rag>>,
           \A w \in Workers : worker'[w].at = "publish" => worker'[w] = worker[w]
    PROVE  ServedInv'
BY Zenon DEF ServedInv, ReadyIsIndexed

\* The worker's steps keep the published generation indexed.
LEMMA ServedWorker ==
    ASSUME IngestInv, ServedInv, NEW w \in Workers, WorkerStep(w)
    PROVE  ServedInv'
<1>0. /\ worker \in [Workers -> [at : {"idle", "parse", "post", "track", "probe", "publish", "settle"},
                                 gen : Gens,
                                 seen : {"unknown", "pending", "processed", "failed"}]]
      /\ rag \in [Gens -> {"absent", "queued", "processed", "failed"}] /\ Newest \in Nat
  BY LenProperties, Zenon DEF IngestInv, TypeOK, Newest
<1>1. \A v \in Workers : worker[v].at = "publish" => worker[v].gen \in Gens /\ posts[worker[v].gen] = 1
  BY <1>0, Zenon DEF IngestInv, WorkerInv
<1>2. CASE Claim(w)
  <2>1. doc'.status # "ready"
    BY <1>2, Zenon DEF Claim, Claimable, Processing
  <2>2. \A v \in Workers : worker'[v].at = "publish" => worker'[v] = worker[v]
    BY <1>0, <1>2, Zenon DEF Claim
  <2> QED
    BY <1>2, <2>1, <2>2, ServedElse, Zenon DEF Claim
<1>3. CASE ParseFails(w) \/ RecordTrack(w) \/ ProbeFails(w)
  <2>1. \A v \in Workers : worker'[v].at = "publish" => worker'[v] = worker[v]
    BY <1>0, <1>3 DEF ParseFails, RecordTrack, ProbeFails, Moved, IdleWorker
  <2>2. UNCHANGED <<doc, jobs, grants, receipts, request, rag, doomed>>
    BY <1>3, Zenon DEF ParseFails, RecordTrack, ProbeFails
  <2> QED
    BY <2>1, <2>2, ServedQuiet, Zenon DEF ServedInv
<1>4. CASE Fence(w)
  <2>1. \A v \in Workers : worker'[v].at = "publish" => worker'[v] = worker[v]
    BY <1>0, <1>4 DEF Fence, Moved, IdleWorker
  <2>2. CASE UNCHANGED <<doc, jobs>>
    BY <1>4, <2>1, <2>2, ServedQuiet, Zenon DEF Fence, ServedInv
  <2>3. CASE ~UNCHANGED <<doc, jobs>>
    <3>1. doc'.status = "indexing" /\ UNCHANGED <<receipts, request, doomed, rag>>
      BY <1>4, <2>3 DEF Fence
    <3> QED
      BY <2>1, <3>1, ServedElse, Zenon
  <2> QED
    BY <2>2, <2>3, Zenon
<1>5. CASE Post(w)
  <2>1. worker[w].at = "post" /\ UNCHANGED <<doc, jobs, grants, receipts, request, doomed>>
    BY <1>5, Zenon DEF Post
  <2>2. posts[worker[w].gen] = 0 /\ jobs[worker[w].gen].submission = "submitted"
    BY <2>1, Zenon DEF IngestInv, WorkerInv
  <2>3. \A v \in Workers : worker'[v].at = "publish" => worker'[v] = worker[v]
    BY <1>0, <1>5 DEF Post, Moved
  <2>4. \A g \in Gens : g # worker[w].gen => rag'[g] = rag[g]
    BY <1>0, <1>5, Zenon DEF Post
  <2>5. doc.status = "ready" => Newest \in Gens /\ Newest # worker[w].gen
    BY <2>2, IntakeConstants, LenProperties DEF IngestInv, TypeOK, DocInv, ServedInv, Newest, Gens
  <2>6. \A v \in Workers : worker'[v].at = "publish" => rag'[worker'[v].gen] = rag[worker[v].gen]
    BY <1>1, <2>2, <2>3, <2>4
  <2> QED
    BY <2>1, <2>3, <2>4, <2>5, <2>6, ServedQuiet, Zenon DEF ServedInv
<1>6. CASE ProbeAnswers(w)
  <2>1. UNCHANGED <<doc, jobs, grants, receipts, request, rag, doomed>>
    BY <1>6, Zenon DEF ProbeAnswers
  <2>2. \A v \in Workers : worker'[v].at = "publish" =>
           worker'[v] = worker[v] \/ rag[worker'[v].gen] = "processed"
    BY <1>0, <1>6, Zenon DEF ProbeAnswers, Moved, Listed
  <2> QED
    BY <2>1, <2>2, ServedQuiet, Zenon DEF ServedInv
<1>7. CASE Publish(w)
  <2>1. \A v \in Workers : worker'[v].at = "publish" => worker'[v] = worker[v]
    BY <1>0, <1>7 DEF Publish, Moved, IdleWorker
  <2>2. CASE Owns(w) /\ doc.status \in {"indexing", "failed"}
    <3>1. worker[w].at = "publish" /\ worker[w].gen = Newest /\ Newest \in Gens
      BY <1>7, <2>2, HeldIsNewest, Zenon DEF Publish
    <3>2. /\ jobs' = [jobs EXCEPT ![Newest] = Published(@)] /\ doc' = [status |-> "ready", unknown |-> FALSE]
          /\ grants' = "ready" /\ UNCHANGED <<receipts, rag, doomed, request>>
      BY <1>7, <2>2, <3>1, Zenon DEF Publish
    <3>3. jobs \in Seq(Job) /\ Newest \in 1..Len(jobs)
      BY <3>1 DEF IngestInv, TypeOK, Newest, Gens
    <3>4. jobs[Newest] \in Job
      BY <3>3, ElementOfSeq, Zenon
    <3>5. Newest' = Newest /\ jobs'[Newest] = Published(jobs[Newest])
      BY <3>2, <3>3, <3>4, PublishedRow, RowReplaced DEF Newest
    <3>6. Published(jobs[Newest]).status = "done" /\ Published(jobs[Newest]).receipt \in {"none", "completed"}
      BY <3>4, Zenon DEF Published, Job
    <3> QED
      BY <2>1, <3>1, <3>2, <3>5, <3>6, Zenon DEF ServedInv, ReadyIsIndexed
  <2>3. CASE ~(Owns(w) /\ doc.status \in {"indexing", "failed"})
    BY <1>7, <2>1, <2>3, ServedQuiet, Zenon DEF Publish, ServedInv
  <2> QED
    BY <2>2, <2>3, Zenon
<1>8. CASE Settle(w)
  <2>1. \A v \in Workers : worker'[v].at = "publish" => worker'[v] = worker[v]
    BY <1>0, <1>8, Zenon DEF Settle, IdleWorker
  <2>2. CASE ~Owns(w)
    BY <1>8, <2>1, <2>2, ServedQuiet, Zenon DEF Settle, ServedInv
  <2>3. CASE Owns(w)
    <3>1. doc'.status # "ready" /\ UNCHANGED <<receipts, request, doomed, rag>>
      BY <1>8, <2>3 DEF Settle, Shown
    <3> QED
      BY <2>1, <3>1, ServedElse, Zenon
  <2> QED
    BY <2>2, <2>3, Zenon
<1> QED
  BY <1>2, <1>3, <1>4, <1>5, <1>6, <1>7, <1>8, Zenon DEF WorkerStep

\* LightRAG's own steps and a lapsed lease.
LEMMA ServedRag ==
    ASSUME IngestInv, ServedInv, NEW g \in Gens, Arrive(g) \/ Index(g) \/ Drop(g) \/ Lapse(g)
    PROVE  ServedInv'
<1>0. /\ rag \in [Gens -> {"absent", "queued", "processed", "failed"}]
      /\ \A w \in Workers : worker[w].gen \in Gens
  BY Zenon DEF IngestInv, TypeOK
<1>1. UNCHANGED <<doc, grants, receipts, request, worker>>
  BY Zenon DEF Arrive, Index, Drop, Lapse
<1>2. doc.status = "ready" => Newest \in Gens
  BY IntakeConstants, LenProperties DEF IngestInv, TypeOK, DocInv, Newest, Gens
<1>3. CASE Lapse(g)
  <2>1. jobs \in Seq(Job) /\ g \in 1..Len(jobs)
    BY <1>3 DEF IngestInv, TypeOK, Newest, Gens, Lapse
  <2>2. jobs[g] \in Job
    BY <2>1, ElementOfSeq, Zenon
  <2>3. PICK j \in Job : j = [jobs[g] EXCEPT !.leased = FALSE]
    BY <2>2, LapsedRow, Zenon
  <2>4. jobs' = [jobs EXCEPT ![g] = j]
    BY <1>3, <2>3, Zenon DEF Lapse
  <2>5. Len(jobs') = Len(jobs) /\ \A h \in 1..Len(jobs) : jobs'[h] = IF h = g THEN j ELSE jobs[h]
    BY <2>1, <2>4, RowReplaced
  <2>6. j.status = jobs[g].status /\ j.receipt = jobs[g].receipt
    BY <2>2, <2>3, Zenon DEF Job
  <2>7. doc.status = "ready" => Newest \in 1..Len(jobs)
    BY <1>2 DEF Newest, Gens
  <2> QED
    BY <1>1, <1>3, <2>5, <2>6, <2>7, ServedQuiet, Zenon DEF Lapse, ServedInv
<1>4. CASE Arrive(g) \/ Index(g) \/ Drop(g)
  <2>1. jobs' = jobs
    BY <1>4, Zenon DEF Arrive, Index, Drop
  <2>2. receipts = <<>> => doomed' = {} /\ \A h \in Gens : rag[h] = "processed" => rag'[h] = "processed"
    <3>1. Arrive(g) => rag[g] = "absent"
      BY Zenon DEF Arrive, IngestInv, GenInv
    <3> QED
      BY <1>0, <1>4, <3>1, Zenon DEF Arrive, Index, Drop, ServedInv
  <2> QED
    BY <1>0, <1>1, <1>2, <2>1, <2>2, ServedQuiet, Zenon DEF ServedInv
<1> QED
  BY <1>3, <1>4, Zenon

\* No row has a key before a receipt is inserted.
LEMMA NoRow == ASSUME receipts = <<>>, NEW k PROVE RowOf(k) = 0
BY DEF RowOf, SelectInSeq

Locals(q) ==
    [at |-> q.at, key |-> q.key, seen |-> q.seen, unknown |-> q.unknown, row |-> q.row, put |-> q.put]
Puts == {"pending", "unavailable", "conflict", "completed"}
ReceiptRow == [key : Keys, status : Puts]

\* What a step of a request may do to its locals and to the receipts.
LEMMA RequestMoves ==
    ASSUME IngestInv, DeletionShape, NEW r \in Requests, RequestStep(r)
    PROVE  /\ DeletionShape'
           /\ \A q \in Requests \ {r} : request'[q] = request[q]
           /\ receipts' = <<>> => receipts = <<>>
           /\ UNCHANGED <<jobs, rag, flying, worker, posts>>
<1>0. /\ receipts \in Seq(ReceiptRow) /\ Len(receipts) \in Nat
      /\ request = [q \in Requests |-> Locals(request[q])]
      /\ request[r] = Locals(request[r])
      /\ request[r].at = "create" => request[r].key \in Keys
      /\ request[r].unknown = FALSE /\ request[r].put \in Puts
  BY LenProperties, Zenon DEF DeletionShape, Locals, Puts, ReceiptRow
<1>1. UNCHANGED <<jobs, rag, flying, worker, posts>>
  BY Zenon
  DEF RequestStep, DeleteStart, DeleteCreate, DeleteCas, DeleteRevoke, DeleteCall, Mark, ReconcileStart,
     ReconcilePick, ReconcileProbe, ReconcileFinish, ReconcileRecheck
<1>2. crossed' \in BOOLEAN
  BY Zenon
  DEF DeletionShape, RequestStep, DeleteStart, DeleteCreate, DeleteCas, DeleteRevoke, DeleteCall, Mark,
     ReconcileStart, ReconcilePick, ReconcileProbe, ReconcileFinish, ReconcileRecheck
<1>3. receipts' \in Seq(ReceiptRow) /\ (receipts' = <<>> => receipts = <<>>)
  <2>1. CASE DeleteCreate(r)
    <3>1. CASE receipts' = Append(receipts, [key |-> request[r].key, status |-> "pending"])
      <4>1. [key |-> request[r].key, status |-> "pending"] \in ReceiptRow
        BY <1>0, <2>1, Zenon DEF DeleteCreate, ReceiptRow, Puts
      <4>2. receipts' \in Seq(ReceiptRow) /\ Len(receipts') = Len(receipts) + 1
        BY <1>0, <3>1, <4>1, AppendProperties, Zenon
      <4>3. receipts' # <<>>
        BY <1>0, <4>2
      <4> QED
        BY <4>2, <4>3, Zenon
    <3>2. CASE UNCHANGED receipts
      BY <1>0, <3>2, Zenon
    <3> QED
      BY <2>1, <3>1, <3>2, Zenon DEF DeleteCreate
  <2>2. CASE Mark(r)
    <3>1. receipts' = [receipts EXCEPT ![request[r].row].status = request[r].put]
      BY <2>2, Zenon DEF Mark
    <3>2. CASE request[r].row \in 1..Len(receipts)
      <4>1. receipts[request[r].row] \in ReceiptRow
        BY <1>0, <3>2, ElementOfSeq, Zenon
      <4>2. PICK o \in ReceiptRow : o = [receipts[request[r].row] EXCEPT !.status = request[r].put]
        BY <1>0, <4>1, Zenon DEF ReceiptRow
      <4>3. receipts' = [receipts EXCEPT ![request[r].row] = o]
        BY <3>1, <4>2, Zenon
      <4>4. receipts' \in Seq(ReceiptRow) /\ Len(receipts') = Len(receipts)
        BY <1>0, <3>2, <4>3, ExceptSeq
      <4> QED
        BY <1>0, <3>2, <4>4
    <3>3. CASE request[r].row \notin 1..Len(receipts)
      <4>1. receipts = [i \in 1..Len(receipts) |-> receipts[i]]
        BY <1>0
      <4>2. receipts' = receipts
        BY <3>1, <3>3, <4>1, Zenon
      <4> QED
        BY <1>0, <4>2, Zenon
    <3> QED
      BY <3>2, <3>3, Zenon
  <2>3. CASE UNCHANGED receipts
    BY <1>0, <2>3, Zenon
  <2> QED
    BY <2>1, <2>2, <2>3, Zenon
    DEF RequestStep, DeleteStart, DeleteCas, DeleteRevoke, DeleteCall, ReconcileStart,
       ReconcilePick, ReconcileProbe, ReconcileFinish, ReconcileRecheck
<1>4. /\ request' = [request EXCEPT ![r] = request'[r]]
      /\ request'[r] = Locals(request'[r])
      /\ request'[r].at = "create" => request'[r].key \in Keys
      /\ request'[r].unknown = FALSE /\ request'[r].put \in Puts
  <2>0. /\ IdleRequest = Locals(IdleRequest)
        /\ IdleRequest.at = "idle" /\ IdleRequest.unknown = FALSE /\ IdleRequest.put = "pending"
    BY Zenon DEF IdleRequest, Locals
  <2>1. CASE (\E k \in Keys : DeleteStart(r, k)) \/ ReconcileStart(r)
    <3>1. CASE \E k \in Keys : DeleteStart(r, k)
      <4>1. doc.unknown = FALSE
        BY <3>1, Zenon DEF DeleteStart, IngestInv, TypeOK
      <4> QED
        BY <1>0, <3>1, <4>1, Zenon DEF DeleteStart, IdleRequest, Locals, Puts
    <3>2. CASE ReconcileStart(r)
      BY <1>0, <3>2, Zenon DEF ReconcileStart, IdleRequest, Locals, Puts
    <3> QED
      BY <2>1, <3>1, <3>2, Zenon
  <2>2. CASE DeleteCreate(r)
    BY <1>0, <2>0, <2>2 DEF DeleteCreate, Locals, Puts
  <2>3. CASE DeleteCas(r) \/ DeleteRevoke(r)
    BY <1>0, <2>3, Zenon DEF DeleteCas, DeleteRevoke, Locals, Puts
  <2>4. CASE DeleteCall(r) \/ ReconcileProbe(r)
    BY <1>0, <2>4, Zenon DEF DeleteCall, ReconcileProbe, AskDeletion, Locals, Puts
  <2>5. CASE Mark(r)
    BY <1>0, <2>0, <2>5, Zenon DEF Mark, Puts
  <2>6. CASE \E row \in DOMAIN receipts : ReconcilePick(r, row)
    <3>. PICK row \in DOMAIN receipts : ReconcilePick(r, row)
      BY <2>6, Zenon
    <3>1. CASE ~Retryable(row)
      <4>1. request' = [request EXCEPT ![r] = IdleRequest]
        BY <3>1, Zenon DEF ReconcilePick
      <4> QED
        BY <1>0, <2>0, <4>1, Zenon DEF Puts
    <3>2. CASE Retryable(row) /\ request[r].seen = "deleted"
      <4>1. request' = [request EXCEPT ![r].at = "mark", ![r].row = row, ![r].put = "completed"]
        BY <3>2, Zenon DEF ReconcilePick
      <4> QED
        BY <1>0, <4>1, Zenon DEF Locals, Puts
    <3>3. CASE Retryable(row) /\ request[r].seen # "deleted"
      <4>1. request' = [request EXCEPT ![r].at = "probe", ![r].row = row]
        BY <3>3, Zenon DEF ReconcilePick
      <4> QED
        BY <1>0, <4>1, Zenon DEF Locals, Puts
    <3> QED
      BY <3>1, <3>2, <3>3, Zenon
  <2>7. CASE ReconcileFinish(r) \/ ReconcileRecheck(r)
    BY <1>0, <2>0, <2>7 DEF ReconcileFinish, ReconcileRecheck, Locals, Puts
  <2> QED
    BY <2>1, <2>2, <2>3, <2>4, <2>5, <2>6, <2>7, Zenon DEF RequestStep
<1>5. \A q \in Requests \ {r} : request'[q] = request[q]
  BY <1>0, <1>4, Zenon
<1>6. request' = [q \in Requests |-> Locals(request'[q])]
  <2>1. \A q \in Requests : request[q] = Locals(request[q])
    BY <1>0, Zenon
  <2>2. \A q \in Requests : request'[q] = Locals(request'[q])
    BY <1>4, <1>5, <2>1, Zenon
  <2> QED
    BY <1>0, <1>4, <2>2, Zenon
<1>7. DeletionShape'
  BY <1>2, <1>3, <1>4, <1>5, <1>6, Zenon DEF DeletionShape, Locals, Puts, ReceiptRow
<1> QED
  BY <1>1, <1>3, <1>5, <1>7, Zenon

\* Until a receipt is inserted no request has gone further than asking for one.
LEMMA ServedRequest ==
    ASSUME IngestInv, ServedInv, DeletionShape, NEW r \in Requests, RequestStep(r)
    PROVE  ServedInv'
<1>0. /\ request[r] = Locals(request[r])
      /\ request = [q \in Requests |-> Locals(request[q])]
      /\ \A q \in Requests \ {r} : request'[q] = request[q]
      /\ receipts' = <<>> => receipts = <<>>
      /\ UNCHANGED <<jobs, rag, flying, worker, posts>>
  BY RequestMoves, Zenon DEF DeletionShape, Locals
<1>1. UNCHANGED doc \/ (doc' = [status |-> "deleting", unknown |-> FALSE])
                   \/ (doc' = [status |-> "deleted", unknown |-> FALSE])
  BY Zenon
  DEF RequestStep, DeleteStart, DeleteCreate, DeleteCas, DeleteRevoke, DeleteCall, Mark, ReconcileStart,
     ReconcilePick, ReconcileProbe, ReconcileFinish, ReconcileRecheck
<1>2. doc'.status = "ready" => ~doc'.unknown
  BY <1>1 DEF ServedInv
<1>3. CASE receipts' # <<>>
  BY <1>2, <1>3, Zenon DEF ServedInv, ReadyIsIndexed
<1>4. CASE receipts' = <<>>
  <2>1. receipts = <<>> /\ request[r].at \in {"idle", "create", "pick"}
    BY <1>0, <1>4, Zenon DEF ServedInv
  <2>2. \/ \E k \in Keys : DeleteStart(r, k)
        \/ DeleteCreate(r) \/ ReconcileStart(r)
        \/ \E row \in DOMAIN receipts : ReconcilePick(r, row)
    BY <2>1, Zenon
    DEF RequestStep, DeleteCas, DeleteRevoke, DeleteCall, Mark, ReconcileProbe, ReconcileFinish,
       ReconcileRecheck
  <2>3. ~DeleteCreate(r)
    <3>1. RowOf(request[r].key) = 0
      BY <2>1, NoRow, Zenon
    <3>2. Append(receipts, [key |-> request[r].key, status |-> "pending"]) # <<>>
      BY <2>1
    <3> QED
      BY <1>4, <3>1, <3>2, Zenon DEF DeleteCreate
  <2>4. DOMAIN receipts = {}
    BY <2>1
  <2>5. /\ UNCHANGED <<doc, grants, doomed>>
        /\ request'[r].at \in {"create", "pick"}
    BY <1>0, <2>2, <2>3, <2>4, Zenon DEF DeleteStart, ReconcileStart, IdleRequest
  <2> QED
    BY <1>0, <1>2, <2>1, <2>5, Zenon DEF ServedInv, ReadyIsIndexed, Newest
<1> QED
  BY <1>3, <1>4, Zenon

\* Every step keeps the published generation indexed.
LEMMA StepServed ==
    ASSUME IngestInv, ServedInv, DeletionShape, [Next]_vars
    PROVE  ServedInv'
<1>1. CASE Upload \/ ImportUrl \/ Reindex
  <2>1. doc'.status # "ready" /\ UNCHANGED <<receipts, request, doomed, rag, worker>>
    BY <1>1 DEF Upload, ImportUrl, Created, Reindex
  <2> QED
    BY <2>1, ServedElse, Zenon
<1>2. CASE Crash
  BY <1>2, Zenon DEF Crash, ServedInv, ReadyIsIndexed, IdleWorker, IdleRequest, Newest
<1>3. CASE UNCHANGED vars
  BY <1>3, Zenon DEF vars, ServedInv, ReadyIsIndexed, Newest
<1> QED
  BY <1>1, <1>2, <1>3, ServedWorker, ServedRag, ServedRequest, Zenon DEF Next

-----------------------------------------------------------------------------
(* Deletion: what is published as deleted is gone, and stays so.           *)

\* While a document of known outcome is being deleted no generation is open.
LEMMA NothingOpen ==
    ASSUME IngestInv, DeletionInv, ~crossed, Deleting
    PROVE  /\ flying = {}
           /\ \A w \in Workers : worker[w].at # "post" /\ (worker[w].at # "idle" => ~Owns(w))
<1>1. doc.status # "none" /\ jobs[Newest].submission = "terminal"
  BY Zenon DEF DeletionInv, Deleting
<1> QED
  BY <1>1, ClosedForWorkers, Zenon

\* A step of anyone but a request.
LEMMA DeletionElse ==
    ASSUME IngestInv, DeletionInv, UNCHANGED <<receipts, request, crossed>>,
           ~crossed /\ Deleting =>
              /\ UNCHANGED doc
              /\ jobs'[Newest'].submission = jobs[Newest].submission
              /\ flying' = {} /\ \A g \in Gens : rag[g] = "absent" => rag'[g] = "absent",
           ~crossed /\ ~Deleting => ~Deleting'
    PROVE  DeletionInv'
<1>1. DeletionShape'
  BY Zenon DEF DeletionInv, DeletionShape
<1>2. CASE crossed
  BY <1>1, <1>2, Zenon DEF DeletionInv, DeletedIsGone, CompletedIsDeleted
<1>3. CASE ~crossed /\ Deleting
  <2>1. ~crossed' /\ Deleting' /\ doc' = doc
    BY <1>3, Zenon DEF Deleting
  <2>2. \A r \in Requests : ReconcileInv(r)'
    BY <1>3, <2>1, Zenon DEF DeletionInv, ReconcileInv
  <2>3. DeletedIsGone' /\ CompletedIsDeleted'
    BY <1>3, <2>1, Zenon DEF DeletionInv, DeletedIsGone, CompletedIsDeleted
  <2>4. jobs'[Newest'].submission = "terminal"
    BY <1>3, Zenon DEF DeletionInv
  <2> QED
    BY <1>1, <2>2, <2>3, <2>4, Zenon DEF DeletionInv
<1>4. CASE ~crossed /\ ~Deleting
  <2>1. ~Deleting'
    BY <1>4, Zenon
  <2>2. \A r \in Requests : ReconcileInv(r)'
    BY <1>4, Zenon DEF DeletionInv, ReconcileInv, Deleting
  <2>3. DeletedIsGone' /\ CompletedIsDeleted'
    BY <1>4, <2>1, Zenon DEF DeletionInv, DeletedIsGone, CompletedIsDeleted, Deleting
  <2> QED
    BY <1>1, <2>1, <2>2, <2>3, Zenon DEF DeletionInv
<1> QED
  BY <1>2, <1>3, <1>4, Zenon

\* No worker reaches a document that is being deleted.
LEMMA DeletionWorker ==
    ASSUME IngestInv, DeletionInv, NEW w \in Workers, WorkerStep(w)
    PROVE  DeletionInv'
<1>1. UNCHANGED <<receipts, request, crossed>>
  BY Zenon
  DEF WorkerStep, Claim, ParseFails, Fence, Post, RecordTrack, ProbeAnswers, ProbeFails, Publish, Settle
<1>2. ASSUME ~crossed, Deleting
      PROVE  UNCHANGED <<doc, jobs, flying, rag>>
  <2>1. worker[w].at # "post" /\ (worker[w].at # "idle" => ~Owns(w))
    BY <1>2, NothingOpen, Zenon
  <2>2. ~Claim(w)
    BY <1>2, Zenon DEF Claim, Claimable, Deleting, Processing
  <2> QED
    BY <2>1, <2>2, Zenon
    DEF WorkerStep, ParseFails, Fence, Post, RecordTrack, ProbeAnswers, ProbeFails, Publish, Settle
<1>3. ASSUME ~Deleting PROVE ~Deleting'
  <2>1. doc' = doc \/ doc'.status \in {"indexing", "ready", "failed"}
    BY DEF WorkerStep, Claim, ParseFails, Fence, Post, RecordTrack, ProbeAnswers, ProbeFails, Publish, Settle, Shown
  <2> QED
    BY <1>3, <2>1, Zenon DEF Deleting
<1>4. ~crossed /\ Deleting => flying = {}
  BY NothingOpen, Zenon
<1> QED
  BY <1>1, <1>2, <1>3, <1>4, DeletionElse, Zenon DEF Newest

\* Nothing arrives at LightRAG for a document that is being deleted.
LEMMA DeletionRag ==
    ASSUME IngestInv, DeletionInv, NEW g \in Gens, Arrive(g) \/ Index(g) \/ Drop(g) \/ Lapse(g)
    PROVE  DeletionInv'
<1>0. rag \in [Gens -> {"absent", "queued", "processed", "failed"}] /\ jobs \in Seq(Job)
  BY Zenon DEF IngestInv, TypeOK
<1>1. UNCHANGED <<receipts, request, crossed, doc>>
  BY Zenon DEF Arrive, Index, Drop, Lapse
<1>2. ~crossed /\ Deleting => flying' = {} /\ \A h \in Gens : rag[h] = "absent" => rag'[h] = "absent"
  <2>1. ~crossed /\ Deleting => flying = {}
    BY NothingOpen, Zenon
  <2> QED
    BY <1>0, <2>1, Zenon DEF Arrive, Index, Drop, Lapse
<1>3. doc.status # "none" => jobs'[Newest'].submission = jobs[Newest].submission
  <2>1. CASE Lapse(g)
    <3>1. g \in 1..Len(jobs)
      BY <2>1 DEF Lapse, Gens, Newest
    <3>2. jobs[g] \in Job
      BY <1>0, <3>1, ElementOfSeq, Zenon
    <3>3. PICK j \in Job : j = [jobs[g] EXCEPT !.leased = FALSE]
      BY <3>2, LapsedRow, Zenon
    <3>4. jobs' = [jobs EXCEPT ![g] = j]
      BY <2>1, <3>3, Zenon DEF Lapse
    <3>5. Len(jobs') = Len(jobs) /\ \A h \in 1..Len(jobs) : jobs'[h] = IF h = g THEN j ELSE jobs[h]
      BY <1>0, <3>1, <3>4, RowReplaced
    <3>6. j.submission = jobs[g].submission
      BY <3>2, <3>3, LapsedRow, Zenon
    <3>7. Newest \in 1..Len(jobs)
      BY <3>1 DEF Newest
    <3> QED
      BY <3>5, <3>6, <3>7, Zenon DEF Newest
  <2>2. CASE ~Lapse(g)
    BY <2>2, Zenon DEF Arrive, Index, Drop, Newest
  <2> QED
    BY <2>1, <2>2, Zenon
<1>4. Deleting' <=> Deleting
  BY <1>1, Zenon DEF Deleting
<1>5. Deleting => doc.status # "none"
  BY Zenon DEF Deleting
<1> QED
  BY <1>1, <1>2, <1>3, <1>4, <1>5, DeletionElse, Zenon

\* What a request does to the document: a transition to deleting takes one whose
\* outcome is known, and only a listing without it publishes it as deleted.
LEMMA RequestDoc ==
    ASSUME IngestInv, DeletionInv, NEW r \in Requests, RequestStep(r), ~crossed'
    PROVE  /\ ~crossed
           /\ \/ UNCHANGED doc
              \/ /\ ~Deleting /\ doc'.status = "deleting"
                 /\ doc.status # "none" /\ jobs[Newest].submission = "terminal"
              \/ /\ doc.status = "deleting" /\ doc'.status = "deleted"
                 /\ \A g \in Gens : rag[g] = "absent"
<1>1. CASE DeleteCas(r)
  <2>1. ~crossed
    BY <1>1, Zenon DEF DeleteCas, DeletionInv, DeletionShape
  <2>2. CASE doc.status \in {"ready", "failed"}
    <3>1. ~doc.unknown /\ doc' = [status |-> "deleting", unknown |-> FALSE]
      BY <1>1, <2>2, Zenon DEF DeleteCas, IngestInv, TypeOK, DeletionInv, DeletionShape
    <3>2. jobs[Newest].submission = "terminal"
      BY <2>2, <3>1, Zenon DEF IngestInv, DocInv
    <3> QED
      BY <2>1, <2>2, <3>1, <3>2, Zenon DEF Deleting
  <2>3. CASE doc.status \notin {"ready", "failed"}
    BY <1>1, <2>1, <2>3, Zenon DEF DeleteCas
  <2> QED
    BY <2>2, <2>3, Zenon
<1>2. CASE ReconcileFinish(r)
  BY <1>2 DEF ReconcileFinish, DeletionInv, ReconcileInv
<1>3. CASE ~DeleteCas(r) /\ ~ReconcileFinish(r)
  <2>1. UNCHANGED <<doc, crossed>>
    BY <1>3, Zenon
    DEF RequestStep, DeleteStart, DeleteCreate, DeleteRevoke, DeleteCall, Mark, ReconcileStart,
       ReconcilePick, ReconcileProbe, ReconcileRecheck
  <2> QED
    BY <2>1, Zenon
<1> QED
  BY <1>1, <1>2, <1>3, Zenon

\* What a reconciliation relies on is established by its own steps.
LEMMA RequestOwn ==
    ASSUME IngestInv, DeletionInv, NEW r \in Requests, RequestStep(r), ~crossed'
    PROVE  ReconcileInv(r)'
<1>0. /\ request = [q \in Requests |-> Locals(request[q])]
      /\ request[r] = Locals(request[r])
      /\ UNCHANGED rag
  BY RequestMoves, Zenon DEF DeletionInv, DeletionShape, Locals
<1>1. ~crossed /\ ReconcileInv(r)
  BY RequestDoc, Zenon DEF DeletionInv
<1>2. (Deleting => Deleting') /\ (doc.status = "deleted" => doc'.status = "deleted")
  BY RequestDoc, Zenon DEF Deleting
<1>3. IdleRequest.at = "idle" /\ IdleRequest.put = "pending"
  BY Zenon DEF IdleRequest
<1>4. CASE \E k \in Keys : DeleteStart(r, k)
  <2>1. request'[r].at = "create" /\ request'[r].put = "pending"
    BY <1>0, <1>4, Zenon DEF DeleteStart, IdleRequest
  <2> QED
    BY <2>1, Zenon DEF ReconcileInv
<1>5. CASE DeleteCreate(r) \/ DeleteCas(r) \/ DeleteRevoke(r)
  <2>1. /\ request'[r].at \in {"idle", "revoke", "cas", "call", "mark"}
        /\ request'[r].put \in {request[r].put, "pending", "conflict"}
    BY <1>0, <1>3, <1>5 DEF DeleteCreate, DeleteCas, DeleteRevoke, Locals
  <2> QED
    BY <1>1, <1>2, <2>1, Zenon DEF ReconcileInv
<1>6. CASE DeleteCall(r) \/ Mark(r) \/ ReconcileRecheck(r)
  <2>1. /\ request'[r].at \in {"idle", "mark"}
        /\ request'[r].put \in {"pending", "unavailable", "conflict"}
    BY <1>0, <1>3, <1>6, Zenon DEF DeleteCall, AskDeletion, Mark, ReconcileRecheck, Locals
  <2> QED
    BY <2>1, Zenon DEF ReconcileInv
<1>7. CASE ReconcileStart(r)
  <2>1. /\ request'[r].at = "pick" /\ request'[r].seen = doc.status /\ request'[r].put = "pending"
        /\ Deleting
    BY <1>0, <1>7, Zenon DEF ReconcileStart, IdleRequest, Deleting
  <2> QED
    BY <1>2, <2>1, Zenon DEF ReconcileInv
<1>8. CASE \E row \in DOMAIN receipts : ReconcilePick(r, row)
  <2>. PICK row \in DOMAIN receipts : ReconcilePick(r, row)
    BY <1>8, Zenon
  <2>1. \/ request'[r].at = "idle" /\ request'[r].put = "pending"
        \/ request[r].seen = "deleted" /\ request'[r].at = "mark"
        \/ request'[r].at = "probe" /\ request'[r].put = request[r].put
    BY <1>0, <1>3, Zenon DEF ReconcilePick, Locals
  <2>2. request[r].at = "pick"
    BY Zenon DEF ReconcilePick
  <2> QED
    BY <1>1, <1>2, <2>1, <2>2, Zenon DEF ReconcileInv
<1>9. CASE ReconcileProbe(r)
  <2>1. \/ Present = {} /\ request'[r].at = "finish" /\ request'[r].put = request[r].put
        \/ request'[r].at = "mark" /\ request'[r].put \in {"pending", "unavailable"}
    BY <1>0, <1>9 DEF ReconcileProbe, AskDeletion, Locals
  <2>2. Deleting
    BY <1>1, <1>9, Zenon DEF ReconcileProbe, ReconcileInv
  <2>3. Present = {} => \A g \in Gens : rag[g] = "absent"
    <3> SUFFICES ASSUME Present = {}, NEW g \in Gens PROVE rag[g] = "absent"
      BY Zenon
    <3>1. GenInv(g) /\ Newest \in Nat
      BY LenProperties, Zenon DEF IngestInv, TypeOK, Newest
    <3> QED
      BY <3>1, IntakeConstants DEF GenInv, Present, Gens
  <2> QED
    BY <1>0, <1>1, <1>2, <2>1, <2>2, <2>3, Zenon DEF ReconcileInv
<1>10. CASE ReconcileFinish(r)
  <2>1. /\ request'[r].at \in {"mark", "recheck"}
        /\ \/ request'[r].put \in {"unavailable", request[r].put}
           \/ doc'.status = "deleted"
    BY <1>0, <1>10 DEF ReconcileFinish, Locals
  <2> QED
    BY <1>1, <1>2, <2>1, Zenon DEF ReconcileInv
<1> QED
  BY <1>4, <1>5, <1>6, <1>7, <1>8, <1>9, <1>10, Zenon DEF RequestStep

\* A receipt is completed by a request that found the document deleted.
LEMMA RequestReceipts ==
    ASSUME DeletionShape, NEW r \in Requests, RequestStep(r),
           NEW row \in DOMAIN receipts', receipts'[row].status = "completed"
    PROVE  \/ row \in DOMAIN receipts /\ receipts[row].status = "completed"
           \/ request[r].put = "completed"
<1>0. receipts \in Seq(ReceiptRow) /\ Len(receipts) \in Nat
  BY LenProperties, Zenon DEF DeletionShape, ReceiptRow, Puts
<1>1. CASE DeleteCreate(r)
  <2>1. CASE receipts' = Append(receipts, [key |-> request[r].key, status |-> "pending"])
    BY <1>0, <2>1
  <2> QED
    BY <1>1, <2>1, Zenon DEF DeleteCreate
<1>2. CASE Mark(r)
  <2>1. receipts' = [receipts EXCEPT ![request[r].row].status = request[r].put]
    BY <1>2, Zenon DEF Mark
  <2>2. row \in 1..Len(receipts)
    BY <1>0, <2>1
  <2>3. receipts[row] \in ReceiptRow
    BY <1>0, <2>2, ElementOfSeq, Zenon
  <2> QED
    BY <1>0, <2>1, <2>2, <2>3, Zenon DEF ReceiptRow
<1>3. CASE UNCHANGED receipts
  BY <1>3, Zenon
<1> QED
  BY <1>1, <1>2, <1>3, Zenon
  DEF RequestStep, DeleteStart, DeleteCas, DeleteRevoke, DeleteCall, ReconcileStart,
     ReconcilePick, ReconcileProbe, ReconcileFinish, ReconcileRecheck

\* The requests keep the invariant of deletion.
LEMMA DeletionRequest ==
    ASSUME IngestInv, DeletionInv, NEW r \in Requests, RequestStep(r)
    PROVE  DeletionInv'
<1>1. /\ DeletionShape' /\ \A q \in Requests \ {r} : request'[q] = request[q]
      /\ UNCHANGED <<jobs, rag, flying, worker, posts>>
  BY RequestMoves, Zenon DEF DeletionInv
<1>2. CASE crossed'
  BY <1>1, <1>2, Zenon DEF DeletionInv, DeletedIsGone, CompletedIsDeleted
<1>3. CASE ~crossed'
  <2>1. /\ ~crossed
        /\ \/ UNCHANGED doc
           \/ /\ ~Deleting /\ doc'.status = "deleting"
              /\ doc.status # "none" /\ jobs[Newest].submission = "terminal"
           \/ /\ doc.status = "deleting" /\ doc'.status = "deleted"
              /\ \A g \in Gens : rag[g] = "absent"
    BY <1>3, RequestDoc, Zenon
  <2>2. (Deleting => Deleting') /\ (doc.status = "deleted" => doc'.status = "deleted")
    BY <2>1, Zenon DEF Deleting
  <2>3. Deleting' => jobs'[Newest'].submission = "terminal"
    BY <1>1, <2>1, Zenon DEF DeletionInv, Deleting, Newest
  <2>4. ASSUME NEW q \in Requests PROVE ReconcileInv(q)'
    <3>1. CASE q = r
      BY <1>3, <3>1, RequestOwn, Zenon
    <3>2. CASE q # r
      BY <1>1, <2>1, <2>2, <3>2, Zenon DEF DeletionInv, ReconcileInv
    <3> QED
      BY <3>1, <3>2, Zenon
  <2>5. DeletedIsGone'
    <3>1. CASE UNCHANGED doc
      BY <1>1, <2>1, <3>1, Zenon DEF DeletionInv, DeletedIsGone
    <3>2. CASE doc.status = "deleting" /\ \A g \in Gens : rag[g] = "absent"
      BY <1>1, <2>1, <3>2, NothingOpen, Zenon DEF DeletedIsGone, Deleting
    <3> QED
      BY <2>1, <3>1, <3>2, Zenon DEF DeletedIsGone
  <2>6. CompletedIsDeleted'
    BY <2>1, <2>2, RequestReceipts, Zenon DEF DeletionInv, CompletedIsDeleted, ReconcileInv
  <2> QED
    BY <1>1, <2>3, <2>4, <2>5, <2>6, Zenon DEF DeletionInv
<1> QED
  BY <1>2, <1>3, Zenon

\* Every step keeps the invariant of deletion.
LEMMA StepDeletion ==
    ASSUME IngestInv, DeletionInv, [Next]_vars
    PROVE  DeletionInv'
<1>1. CASE Upload \/ ImportUrl \/ Reindex
  <2>1. ~Deleting /\ ~Deleting' /\ UNCHANGED <<receipts, request, crossed>>
    BY <1>1 DEF Upload, ImportUrl, Created, Reindex, Deleting
  <2> QED
    BY <2>1, DeletionElse, Zenon
<1>2. CASE Crash
  <2>1. /\ UNCHANGED <<receipts, doc, crossed, jobs, rag, flying>>
        /\ request' = [q \in Requests |-> IdleRequest]
    BY <1>2, Zenon DEF Crash
  <2>2. DeletionShape'
    BY <2>1, Zenon DEF DeletionInv, DeletionShape, IdleRequest
  <2>3. \A q \in Requests : ReconcileInv(q)'
    BY <2>1, Zenon DEF ReconcileInv, IdleRequest
  <2> QED
    BY <2>1, <2>2, <2>3, Zenon
    DEF DeletionInv, DeletedIsGone, CompletedIsDeleted, Deleting, Newest
<1>3. CASE UNCHANGED vars
  <2>1. UNCHANGED <<receipts, request, doc, crossed, jobs, rag, flying>>
    BY <1>3, Zenon DEF vars
  <2> QED
    BY <2>1, NothingOpen, DeletionElse, Zenon DEF Deleting, Newest
<1> QED
  BY <1>1, <1>2, <1>3, DeletionWorker, DeletionRag, DeletionRequest, Zenon DEF Next

-----------------------------------------------------------------------------

\* The invariant of ingestion, of what is served and of deletion holds in every
\* reachable state.
THEOREM IntakeInvariant == Spec => []IntakeInv
<1>1. Init => IntakeInv
  <2> SUFFICES ASSUME Init PROVE ServedInv /\ DeletionInv
    BY InitIntake, Zenon DEF IntakeInv
  <2>1. ServedInv
    BY Zenon DEF Init, ServedInv, ReadyIsIndexed, IdleRequest, IdleWorker
  <2>2. DeletionShape
    <3>1. /\ receipts = <<>> /\ crossed = FALSE
          /\ request = [r \in Requests |-> IdleRequest]
      BY Zenon DEF Init
    <3>2. receipts \in Seq(ReceiptRow)
      BY <3>1, EmptySeq, Zenon
    <3> QED
      BY <3>1, <3>2, Zenon DEF DeletionShape, IdleRequest, ReceiptRow, Puts
  <2> QED
    BY <2>1, <2>2 DEF Init, DeletionInv, DeletedIsGone, CompletedIsDeleted, ReconcileInv, Deleting, IdleRequest
<1>2. IntakeInv /\ [Next]_vars => IntakeInv'
  BY StepIntake, StepServed, StepDeletion, Zenon DEF IntakeInv, DeletionInv
<1> QED
  BY <1>1, <1>2, PTL DEF Spec

\* As long as no deletion was asked for, a document shown as ready is the newest
\* generation, processed by LightRAG, with its job closed and its bindings ready.
THEOREM ReadyIsServed == Spec => []ReadyIsIndexed
<1>1. IntakeInv => ReadyIsIndexed
  BY Zenon DEF IntakeInv, ServedInv
<1> QED
  BY <1>1, IntakeInvariant, PTL

\* LightRAG holds nothing of a document published as deleted, and nothing of it is
\* on its way.
THEOREM DeletedHasGone == Spec => []DeletedIsGone
<1>1. IntakeInv => DeletedIsGone
  BY Zenon DEF IntakeInv, DeletionInv
<1> QED
  BY <1>1, IntakeInvariant, PTL

\* No delete receipt is completed while the document is there.
THEOREM CompletedHasDeleted == Spec => []CompletedIsDeleted
<1>1. IntakeInv => CompletedIsDeleted
  BY Zenon DEF IntakeInv, DeletionInv
<1> QED
  BY <1>1, IntakeInvariant, PTL

\* No step of a worker, of a request or of a restart brings a deleted document back.
THEOREM DeletedForGood == Spec => DeletedStays
<1>1. IntakeInv /\ [Next]_vars => [doc.status = "deleted" /\ ~crossed => doc' = doc]_vars
  <2> SUFFICES ASSUME IngestInv, DeletionInv, Next, doc.status = "deleted", ~crossed
               PROVE  doc' = doc
    BY Zenon DEF IntakeInv
  <2>1. Deleting
    BY Zenon DEF Deleting
  <2>2. ASSUME NEW w \in Workers, WorkerStep(w) PROVE doc' = doc
    <3>1. worker[w].at # "idle" => ~Owns(w)
      BY <2>1, NothingOpen, Zenon
    <3> QED
      BY <2>2, <3>1, Zenon
      DEF WorkerStep, Claim, ParseFails, Fence, Post, RecordTrack, ProbeAnswers, ProbeFails,
         Publish, Settle
  <2>3. ASSUME NEW r \in Requests, RequestStep(r) PROVE doc' = doc
    BY <2>3, Zenon
    DEF RequestStep, DeleteStart, DeleteCreate, DeleteCas, DeleteRevoke, DeleteCall, Mark,
       ReconcileStart, ReconcilePick, ReconcileProbe, ReconcileFinish, ReconcileRecheck
  <2> QED
    BY <2>2, <2>3, Zenon
    DEF Next, Upload, ImportUrl, Created, Reindex, Crash, Arrive, Index, Drop, Lapse
<1> QED
  BY <1>1, IntakeInvariant, PTL DEF Spec, DeletedStays
=============================================================================
