------------------------ MODULE KnowledgeIntakeProofs ------------------------
(* Proofs about KnowledgeIntake: a generation is posted at most once, and  *)
(* no binding is ready while a generation is open, for any number of       *)
(* workers, requests, keys, generations, attempts and crashes.             *)
EXTENDS KnowledgeIntake, SequenceTheorems, TLAPS

\* Replacing one job row keeps the table and its length.
LEMMA RowReplaced ==
    ASSUME NEW q \in Seq(Job), NEW g \in 1..Len(q), NEW j \in Job
    PROVE  /\ [q EXCEPT ![g] = j] \in Seq(Job)
           /\ Len([q EXCEPT ![g] = j]) = Len(q)
           /\ \A h \in 1..Len(q) :
                 [q EXCEPT ![g] = j][h] = IF h = g THEN j ELSE q[h]
BY ExceptSeq

\* Appending a job row lengthens the table by one and keeps the older rows.
LEMMA RowAppended ==
    ASSUME NEW q \in Seq(Job), NEW j \in Job
    PROVE  /\ Append(q, j) \in Seq(Job)
           /\ Len(Append(q, j)) = Len(q) + 1
           /\ \A h \in 1..Len(q) : Append(q, j)[h] = q[h]
           /\ Append(q, j)[Len(q) + 1] = j
BY AppendProperties

\* A job row just inserted.
LEMMA FreshRow ==
    ASSUME NEW status \in Processing,
           NEW receipt \in {"none", "pending", "failed", "completed"}
    PROVE  /\ NewJob(status, receipt) \in Job
           /\ NewJob(status, receipt).submission = "not_submitted"
           /\ NewJob(status, receipt).owner = None
BY IntakeConstants DEF NewJob, Job, Processing

\* What a claim writes.
LEMMA ClaimedRow ==
    ASSUME NEW j \in Job, NEW w \in Workers
    PROVE  /\ Claimed(j, w) \in Job
           /\ Claimed(j, w).owner = w
           /\ Claimed(j, w).submission = j.submission
           /\ Claimed(j, w).status = j.status
<1>1. Tried(j.attempts) \in 0..GiveUp
  BY IntakeConstants DEF Tried, Job
<1> QED
  BY <1>1, IntakeConstants, Zenon DEF Claimed, Job

\* What the fence writes.
LEMMA FencedRow ==
    ASSUME NEW j \in Job
    PROVE  /\ Fenced(j) \in Job
           /\ Fenced(j).owner = j.owner
           /\ Fenced(j).submission = "submitted"
BY Zenon DEF Fenced, Job, Processing

\* What the publication writes.
LEMMA PublishedRow ==
    ASSUME NEW j \in Job
    PROVE  /\ Published(j) \in Job
           /\ Published(j).owner = None
           /\ Published(j).submission = "terminal"
           /\ Published(j).status = "done"
BY Zenon DEF Published, Job

\* What a settlement writes.
LEMMA SettledRow ==
    ASSUME NEW j \in Job, NEW seen
    PROVE  /\ Settled(j, seen) \in Job
           /\ Settled(j, seen).owner = None
           /\ seen = "failed" =>
                /\ Settled(j, seen).submission = "terminal"
                /\ Settled(j, seen).status = "failed"
                /\ Shown(j, seen) = "failed"
                /\ ~Lost(j, seen)
           /\ seen # "failed" => Settled(j, seen).submission = j.submission
           /\ Shown(j, seen) \in {"failed", "indexing"}
           /\ Lost(j, seen) \in BOOLEAN
           /\ Shown(j, seen) = "failed" /\ seen # "failed" => Lost(j, seen)
BY Zenon DEF Settled, Shown, Lost, Job, Processing

\* A lease that lapses.
LEMMA LapsedRow ==
    ASSUME NEW j \in Job
    PROVE  LET k == [j EXCEPT !.leased = FALSE] IN
           /\ k \in Job
           /\ k.owner = j.owner
           /\ k.submission = j.submission
           /\ k.status = j.status
BY Zenon DEF Job

-----------------------------------------------------------------------------

\* The initial state satisfies the invariant.
LEMMA InitIntake == Init => IngestInv
<1> SUFFICES ASSUME Init PROVE IngestInv
  BY Zenon
<1>1. Len(jobs) = 0 /\ jobs \in Seq(Job)
  BY DEF Init
<1>2. TypeOK
  BY <1>1, IntakeConstants DEF Init, TypeOK, IdleWorker, Gens
<1>3. \A g \in Gens : GenInv(g)
  BY <1>1 DEF Init, GenInv, Newest, Gens
<1>4. \A w \in Workers : WorkerInv(w)
  BY Zenon DEF Init, WorkerInv, IdleWorker
<1>5. DocInv
  BY <1>1, Zenon DEF Init, DocInv, Newest, Processing
<1> QED
  BY <1>2, <1>3, <1>4, <1>5, Zenon DEF IngestInv

\* Steps that touch neither the rows nor the workers nor LightRAG's records keep
\* it, and so do the two document transitions of a deletion.
LEMMA DeletionKeeps ==
    ASSUME IngestInv,
           UNCHANGED <<jobs, rag, flying, worker, posts>>,
           \/ UNCHANGED <<doc, grants>>
           \/ UNCHANGED doc /\ grants' = IF grants = "none" THEN "none" ELSE "revoked"
           \/ /\ UNCHANGED grants
              /\ doc.status # "none"
              /\ \E status \in {"deleting", "deleted"} :
                    doc' = [status |-> status, unknown |-> FALSE]
    PROVE  IngestInv'
<1>1. TypeOK'
  <2>1. doc' \in [status : Processing \cup {"none", "ready", "failed", "deleting",
                                           "deleted"}, unknown : BOOLEAN]
    <3>1. CASE UNCHANGED doc
      BY <3>1, Zenon DEF IngestInv, TypeOK
    <3>2. CASE \E status \in {"deleting", "deleted"} :
                  doc' = [status |-> status, unknown |-> FALSE]
      BY <3>2
    <3> QED
      BY <3>1, <3>2, Zenon
  <2>2. grants' \in {"none", "ready", "stale", "revoked"}
    BY Zenon DEF IngestInv, TypeOK
  <2> QED
    BY <2>1, <2>2, Zenon DEF IngestInv, TypeOK
<1>2. \A g \in Gens : GenInv(g)'
  BY Zenon DEF IngestInv, GenInv, Newest
<1>3. \A w \in Workers : WorkerInv(w)'
  BY Zenon DEF IngestInv, WorkerInv, Newest
<1>4. DocInv'
  BY DEF IngestInv, DocInv, Newest, Processing
<1> QED
  BY <1>1, <1>2, <1>3, <1>4, Zenon DEF IngestInv

\* A new document.
LEMMA CreatedKeeps ==
    ASSUME IngestInv, NEW status \in {"uploaded", "parsing"}, Created(status)
    PROVE  IngestInv'
<1>1. Newest = 0 /\ grants # "ready"
  BY DEF IngestInv, DocInv, Created
<1> DEFINE j == NewJob("parsing", "none")
<1>2. j \in Job /\ j.submission = "not_submitted"
  BY FreshRow, Zenon DEF Processing
<1> HIDE DEF j
<1>3. jobs' = <<j>>
  BY Zenon DEF Created, j
<1>4. jobs' \in Seq(Job) /\ Len(jobs') = 1 /\ jobs'[1] = j
  BY <1>2, <1>3
<1>5. doc' = [status |-> status, unknown |-> FALSE]
  BY Zenon DEF Created
<1>6. UNCHANGED <<grants, rag, flying, worker, posts>>
  BY Zenon DEF Created
<1>7. TypeOK'
  BY <1>4, <1>5, <1>6, IntakeConstants DEF IngestInv, TypeOK, Processing
<1>8. ASSUME NEW g \in Gens PROVE GenInv(g)'
  <2>1. posts[g] = 0 /\ GenInv(g)
    BY <1>1 DEF IngestInv, GenInv, Gens
  <2> QED
    BY <2>1, <1>2, <1>4, <1>6 DEF GenInv, Newest, Gens
<1>9. ASSUME NEW w \in Workers PROVE WorkerInv(w)'
  <2>1. worker[w].at = "idle"
    BY <1>1 DEF IngestInv, WorkerInv, TypeOK, Gens
  <2> QED
    BY <2>1, <1>6, Zenon DEF WorkerInv
<1>10. DocInv'
  BY <1>1, <1>2, <1>4, <1>5, <1>6 DEF DocInv, Newest
<1> QED
  BY <1>7, <1>8, <1>9, <1>10, Zenon DEF IngestInv

\* A reindex appends a generation after a settled one.
LEMMA ReindexKeeps == IngestInv /\ Reindex => IngestInv'
<1> SUFFICES ASSUME IngestInv, Reindex PROVE IngestInv'
  BY Zenon
<1>1. /\ Newest \in Nat /\ Newest > 0
      /\ jobs[Newest].submission = "terminal"
      /\ Newest < MaxJobs
  BY LenProperties DEF IngestInv, TypeOK, DocInv, Reindex, Newest
<1> DEFINE j == NewJob("reindex_requested", "pending")
<1>2. j \in Job /\ j.submission = "not_submitted" /\ j.owner = None
  BY FreshRow, Zenon DEF Processing
<1> HIDE DEF j
<1>3. jobs' = Append(jobs, j)
  BY Zenon DEF Reindex, j
<1>4. /\ jobs' \in Seq(Job)
      /\ Newest' = Newest + 1
      /\ \A h \in 1..Newest : jobs'[h] = jobs[h]
      /\ jobs'[Newest + 1] = j
  BY <1>2, <1>3, RowAppended DEF IngestInv, TypeOK, Newest
<1>5. /\ doc' = [status |-> "reindex_requested", unknown |-> FALSE]
      /\ grants' = IF grants = "ready" THEN "stale" ELSE grants
      /\ UNCHANGED <<rag, flying, worker, posts>>
  BY Zenon DEF Reindex
<1>6. TypeOK'
  BY <1>1, <1>4, <1>5, IntakeConstants DEF IngestInv, TypeOK, Processing, Newest
<1>7. ASSUME NEW g \in Gens PROVE GenInv(g)'
  <2>1. GenInv(g)
    BY Zenon DEF IngestInv
  <2>2. CASE g <= Newest
    BY <2>1, <2>2, <1>1, <1>4, <1>5 DEF GenInv, Gens
  <2>3. CASE g > Newest
    BY <2>1, <2>3, <1>1, <1>2, <1>4, <1>5 DEF GenInv, Gens
  <2> QED
    BY <2>2, <2>3, <1>1 DEF Gens
<1>8. ASSUME NEW w \in Workers PROVE WorkerInv(w)'
  <2>1. WorkerInv(w) /\ worker[w].gen \in Nat \ {0}
    BY DEF IngestInv, TypeOK, Gens
  <2> QED
    BY <2>1, <1>1, <1>4, <1>5 DEF WorkerInv
<1>9. DocInv'
  BY <1>1, <1>2, <1>4, <1>5 DEF DocInv, Newest, Processing
<1> QED
  BY <1>6, <1>7, <1>8, <1>9, Zenon DEF IngestInv

\* A worker that moves on without touching anything shared keeps the invariant
\* if what its next position relies on holds.
LEMMA MoveKeeps ==
    ASSUME IngestInv, NEW w \in Workers, NEW x,
           UNCHANGED <<doc, jobs, grants, rag, flying, posts>>,
           worker' = [worker EXCEPT ![w] = x],
           x \in [at : {"idle", "parse", "track", "probe", "publish", "settle"},
                  gen : Gens, seen : {"unknown", "pending", "processed", "failed"}],
           x.at # "idle" =>
              /\ x.gen <= Newest
              /\ x.at # "parse"
              /\ x.at = "publish" => posts[x.gen] = 1 /\ x.gen \notin flying
              /\ x.at = "settle" /\ x.seen = "failed" /\ jobs[x.gen].owner = w =>
                    \/ jobs[x.gen].submission = "not_submitted"
                    \/ posts[x.gen] = 1 /\ x.gen \notin flying
    PROVE  IngestInv'
<1>1. /\ worker'[w] = x
      /\ \A v \in Workers \ {w} : worker'[v] = worker[v]
  BY Zenon DEF IngestInv, TypeOK
<1>2. TypeOK'
  BY Zenon DEF IngestInv, TypeOK
<1>3. \A g \in Gens : GenInv(g)'
  BY Zenon DEF IngestInv, GenInv, Newest
<1>4. ASSUME NEW v \in Workers PROVE WorkerInv(v)'
  <2>1. CASE v = w
    BY <2>1, <1>1 DEF WorkerInv, Newest
  <2>2. CASE v # w
    <3>1. WorkerInv(v)
      BY Zenon DEF IngestInv
    <3> QED
      BY <3>1, <2>2, <1>1 DEF WorkerInv, Newest
  <2> QED
    BY <2>1, <2>2, Zenon
<1>5. DocInv'
  BY Zenon DEF IngestInv, DocInv, Newest
<1> QED
  BY <1>2, <1>3, <1>4, <1>5, Zenon DEF IngestInv

\* The type of one worker's state.
LEMMA WorkerType ==
    ASSUME IngestInv, NEW w \in Workers
    PROVE  worker[w] \in [at : {"idle", "parse", "post", "track", "probe",
                                "publish", "settle"},
                          gen : Gens,
                          seen : {"unknown", "pending", "processed", "failed"}]
BY Zenon DEF IngestInv, TypeOK

\* A worker returns to idle.
LEMMA ReturnKeeps ==
    ASSUME IngestInv, NEW w \in Workers,
           UNCHANGED <<doc, jobs, grants, rag, flying, posts>>,
           worker' = [worker EXCEPT ![w] = IdleWorker]
    PROVE  IngestInv'
<1>1. IdleWorker \in [at : {"idle", "parse", "track", "probe", "publish", "settle"},
                      gen : Gens,
                      seen : {"unknown", "pending", "processed", "failed"}]
  BY IntakeConstants DEF IdleWorker, Gens
<1>2. IdleWorker.at = "idle"
  BY Zenon DEF IdleWorker
<1> QED
  BY <1>1, <1>2, MoveKeeps, Zenon

\* The steps of a worker that only learns something.
LEMMA LearningKeeps ==
    ASSUME IngestInv, NEW w \in Workers,
           ParseFails(w) \/ RecordTrack(w) \/ ProbeAnswers(w) \/ ProbeFails(w)
    PROVE  IngestInv'
<1> DEFINE g == worker[w].gen
<1>1. worker[w] \in [at : {"idle", "parse", "post", "track", "probe",
                           "publish", "settle"},
                     gen : Gens,
                     seen : {"unknown", "pending", "processed", "failed"}]
  BY WorkerType, Zenon
<1>2. /\ worker[w].at # "idle"
      /\ UNCHANGED <<doc, jobs, grants, rag, flying, posts>>
  BY Zenon DEF ParseFails, RecordTrack, ProbeAnswers, ProbeFails
<1>3. WorkerInv(w) /\ g <= Newest /\ GenInv(g) /\ g \in Gens
  BY <1>1, <1>2, Zenon DEF IngestInv, WorkerInv
<1>4. CASE ParseFails(w)
  <2> DEFINE x == [at |-> "settle", gen |-> g, seen |-> "failed"]
  <2>1. worker' = [worker EXCEPT ![w] = x]
    BY <1>4, Zenon DEF ParseFails, Moved
  <2>2. jobs[g].owner = w => jobs[g].submission = "not_submitted"
    BY <1>3, <1>4, Zenon DEF ParseFails, WorkerInv
  <2> QED
    BY <2>1, <2>2, <1>1, <1>2, <1>3, MoveKeeps, Zenon
<1>5. CASE RecordTrack(w)
  <2> DEFINE x == [at |-> "probe", gen |-> g, seen |-> "unknown"]
  <2>1. CASE Owns(w)
    <3>1. worker' = [worker EXCEPT ![w] = x]
      BY <1>5, <2>1, Zenon DEF RecordTrack, Moved
    <3> QED
      BY <3>1, <1>1, <1>2, <1>3, MoveKeeps, Zenon
  <2>2. CASE ~Owns(w)
    BY <2>2, <1>2, <1>5, ReturnKeeps, Zenon DEF RecordTrack
  <2> QED
    BY <2>1, <2>2, Zenon
<1>6. CASE ProbeAnswers(w)
  <2> DEFINE s == Listed(g)
             a == IF s = "processed" THEN "publish" ELSE "settle"
             x == [at |-> a, gen |-> g, seen |-> s]
  <2>1. s \in {"unknown", "pending", "processed", "failed"}
    BY <1>3, Zenon DEF Listed, IngestInv, TypeOK
  <2>2. s \in {"processed", "failed"} => rag[g] # "absent"
    BY Zenon DEF Listed
  <2>3. s \in {"processed", "failed"} => posts[g] = 1 /\ g \notin flying
    BY <1>3, <2>2 DEF GenInv, IngestInv, TypeOK
  <2> HIDE DEF s
  <2>4. worker' = [worker EXCEPT ![w] = x]
    BY <1>6, Zenon DEF ProbeAnswers, Moved, s
  <2>5. /\ a \in {"publish", "settle"}
        /\ a = "publish" => s = "processed"
    BY Zenon
  <2> HIDE DEF a
  <2> QED
    BY <2>1, <2>3, <2>4, <2>5, <1>1, <1>2, <1>3, MoveKeeps, Zenon
<1>7. CASE ProbeFails(w)
  <2> DEFINE x == [at |-> "settle", gen |-> g, seen |-> "unknown"]
  <2>1. worker' = [worker EXCEPT ![w] = x]
    BY <1>7, Zenon DEF ProbeFails, Moved
  <2> QED
    BY <2>1, <1>1, <1>2, <1>3, MoveKeeps, Zenon
<1> QED
  BY <1>4, <1>5, <1>6, <1>7, Zenon

\* The claim.
LEMMA ClaimKeeps ==
    ASSUME IngestInv, NEW w \in Workers, Claim(w)
    PROVE  IngestInv'
<1> DEFINE n == Newest
           a == IF jobs[n].submission = "not_submitted" THEN "parse" ELSE "probe"
           x == [at |-> a, gen |-> n, seen |-> "unknown"]
<1>1. /\ n \in Gens /\ n \in 1..Len(jobs)
      /\ jobs \in Seq(Job)
      /\ jobs[n] \in Job
  BY LenProperties, ElementOfSeq DEF IngestInv, TypeOK, Claim, Newest, Gens
<1>2. /\ UNCHANGED <<doc, grants, rag, flying, posts>>
      /\ jobs' = [jobs EXCEPT ![n] = Claimed(jobs[n], w)]
      /\ worker' = [worker EXCEPT ![w] = x]
      /\ worker[w].at = "idle"
  BY Zenon DEF Claim, Newest
<1>3. jobs[n].submission # "terminal"
  BY <1>1 DEF IngestInv, GenInv, Claim, Claimable, Newest
<1>4. /\ jobs' \in Seq(Job)
      /\ Newest' = Newest
      /\ \A h \in 1..Newest : /\ jobs'[h].submission = jobs[h].submission
                              /\ jobs'[h].status = jobs[h].status
                              /\ h # n => jobs'[h] = jobs[h]
      /\ jobs'[n].owner = w
  BY <1>1, <1>2, RowReplaced, ClaimedRow DEF Newest
<1>5. /\ a \in {"parse", "probe"}
      /\ a = "parse" => jobs[n].submission = "not_submitted"
  BY Zenon
<1> HIDE DEF a
<1>6. /\ worker'[w] = x
      /\ \A v \in Workers \ {w} : worker'[v] = worker[v]
      /\ worker' \in [Workers -> [at : {"idle", "parse", "post", "track", "probe",
                                        "publish", "settle"},
                                  gen : Gens,
                                  seen : {"unknown", "pending", "processed", "failed"}]]
  BY <1>1, <1>2, <1>5, Zenon DEF IngestInv, TypeOK
<1>7. TypeOK'
  BY <1>2, <1>4, <1>6, Zenon DEF IngestInv, TypeOK, Newest
<1>8. ASSUME NEW g \in Gens PROVE GenInv(g)'
  <2>1. GenInv(g)
    BY Zenon DEF IngestInv
  <2>2. CASE g <= Newest
    <3>1. g \in 1..Newest
      BY <2>2 DEF Gens, Newest
    <3>2. g = n \/ jobs'[g] = jobs[g]
      BY <3>1, <1>4, Zenon
    <3> QED
      BY <2>1, <3>1, <3>2, <1>2, <1>3, <1>4, Zenon DEF GenInv
  <2>3. CASE ~(g <= Newest)
    BY <2>1, <2>3, <1>1, <1>2, <1>4 DEF GenInv, Gens
  <2> QED
    BY <2>2, <2>3, Zenon
<1>9. ASSUME NEW v \in Workers PROVE WorkerInv(v)'
  <2>1. CASE v = w
    BY <2>1, <1>1, <1>4, <1>5, <1>6 DEF WorkerInv, Newest, Gens
  <2>2. CASE v # w
    <3>1. WorkerInv(v) /\ worker[v].gen \in Gens /\ worker'[v] = worker[v]
      BY <2>2, <1>6, WorkerType, Zenon DEF IngestInv
    <3>2. worker[v].at # "idle" => worker[v].gen \in 1..Newest
      BY <3>1 DEF WorkerInv, Gens, Newest
    <3>3. worker'[w].at # "post"
      BY <1>5, <1>6
    <3>4. jobs'[worker[v].gen].owner = v /\ worker[v].at # "idle" =>
             jobs[worker[v].gen].owner = v
      BY <3>2, <1>4, <2>2, Zenon
    <3> QED
      BY <3>1, <3>2, <3>3, <3>4, <1>2, <1>4, <1>6 DEF WorkerInv
  <2> QED
    BY <2>1, <2>2, Zenon
<1>10. DocInv'
  BY <1>1, <1>2, <1>4, Zenon DEF IngestInv, DocInv, Newest
<1> QED
  BY <1>7, <1>8, <1>9, <1>10, Zenon DEF IngestInv

\* The fence, by the owner of a generation not submitted yet.
LEMMA FenceKeeps ==
    ASSUME IngestInv, NEW w \in Workers, Fence(w)
    PROVE  IngestInv'
<1> DEFINE g == worker[w].gen
           x == [at |-> "post", gen |-> g, seen |-> "unknown"]
<1>1. CASE ~(Owns(w) /\ jobs[g].submission = "not_submitted")
  BY <1>1, ReturnKeeps, Zenon DEF Fence
<1>2. CASE Owns(w) /\ jobs[g].submission = "not_submitted"
  <2>1. /\ g \in Gens /\ g \in 1..Len(jobs) /\ g = Newest
        /\ jobs \in Seq(Job)
        /\ jobs[g] \in Job
        /\ GenInv(g)
    <3>1. g \in Gens /\ WorkerInv(w) /\ GenInv(g) /\ jobs \in Seq(Job)
      BY WorkerType, Zenon DEF IngestInv, TypeOK
    <3>2. g <= Newest
      BY <3>1, Zenon DEF Fence, WorkerInv
    <3>3. ~(g < Newest)
      BY <3>1, <1>2, Zenon DEF GenInv
    <3> QED
      BY <3>1, <3>2, <3>3, LenProperties, ElementOfSeq DEF Newest, Gens
  <2>2. /\ UNCHANGED <<grants, rag, flying, posts>>
        /\ doc' = [status |-> "indexing", unknown |-> FALSE]
        /\ jobs' = [jobs EXCEPT ![g] = Fenced(jobs[g])]
        /\ worker' = [worker EXCEPT ![w] = x]
    BY <1>2, Zenon DEF Fence, Moved
  <2>3. posts[g] = 0
    BY <1>2, <2>1 DEF GenInv
  <2>4. /\ jobs' \in Seq(Job)
        /\ Newest' = Newest
        /\ \A h \in 1..Newest : /\ h # g => jobs'[h] = jobs[h]
                                /\ jobs'[h].owner = jobs[h].owner
        /\ jobs'[g].submission = "submitted"
    BY <2>1, <2>2, RowReplaced, FencedRow DEF Newest
  <2>5. /\ worker'[w] = x
        /\ \A v \in Workers \ {w} : worker'[v] = worker[v]
        /\ worker' \in [Workers -> [at : {"idle", "parse", "post", "track", "probe",
                                          "publish", "settle"},
                                    gen : Gens,
                                    seen : {"unknown", "pending", "processed", "failed"}]]
    BY <2>1, <2>2, Zenon DEF IngestInv, TypeOK
  <2>6. TypeOK'
    BY <2>2, <2>4, <2>5, Zenon DEF IngestInv, TypeOK, Newest, Processing
  <2>7. ASSUME NEW h \in Gens PROVE GenInv(h)'
    <3>1. GenInv(h)
      BY Zenon DEF IngestInv
    <3> QED
      BY <3>1, <2>1, <2>2, <2>4 DEF GenInv, Gens, Newest
  <2>8. ASSUME NEW v \in Workers PROVE WorkerInv(v)'
    <3>1. WorkerInv(v) /\ worker[v].gen \in Gens
      BY WorkerType, Zenon DEF IngestInv
    <3>2. \A u \in Workers \ {w} : ~(worker[u].at = "post" /\ worker[u].gen = g)
      BY <1>2, Zenon DEF IngestInv, WorkerInv
    <3>3. CASE v = w
      <4>1. \A u \in Workers : worker'[u].at = "post" /\ worker'[u].gen = g => u = w
        BY <3>2, <2>5, Zenon
      <4>2. g <= Newest' /\ posts'[g] = 0 /\ jobs'[g].submission = "submitted"
        BY <2>1, <2>2, <2>3, <2>4 DEF Newest
      <4>3. x.at = "post" /\ x.gen = g
        BY Zenon
      <4> QED
        BY <3>3, <4>1, <4>2, <4>3, <2>5, Zenon DEF WorkerInv
    <3>4. CASE v # w
      <4>1. worker[v].at # "idle" => worker[v].gen \in 1..Newest
        BY <3>1 DEF WorkerInv, Gens, Newest
      <4>2. jobs[g].owner = w
        BY <1>2, Zenon DEF Owns
      <4> QED
        BY <4>1, <4>2, <3>1, <3>2, <3>4, <2>1, <2>2, <2>4, <2>5 DEF WorkerInv
    <3> QED
      BY <3>3, <3>4, Zenon
  <2>9. DocInv'
    BY <1>2, <2>1, <2>2, <2>4 DEF IngestInv, DocInv, Newest, Processing
  <2> QED
    BY <2>6, <2>7, <2>8, <2>9, Zenon DEF IngestInv
<1> QED
  BY <1>1, <1>2, Zenon

\* The POST, by the only worker that can be about to make it.
LEMMA PostKeeps ==
    ASSUME IngestInv, NEW w \in Workers, Post(w)
    PROVE  IngestInv'
<1> DEFINE g == worker[w].gen
<1>1. /\ g \in Gens /\ GenInv(g)
      /\ g <= Newest
      /\ jobs[g].submission = "submitted"
      /\ posts[g] = 0
      /\ \A v \in Workers \ {w} : ~(worker[v].at = "post" /\ worker[v].gen = g)
  BY WorkerType, Zenon DEF IngestInv, WorkerInv, Post
<1>2. /\ UNCHANGED <<doc, jobs, grants>>
      /\ posts' = [posts EXCEPT ![g] = posts[g] + 1]
  BY Zenon DEF Post
<1>3. /\ posts' \in [Gens -> 0..1]
      /\ posts'[g] = 1
      /\ \A h \in Gens \ {g} : posts'[h] = posts[h]
  BY <1>1, <1>2 DEF IngestInv, TypeOK
<1>4. /\ rag' \in [Gens -> {"absent", "queued", "processed", "failed"}]
      /\ flying' \subseteq Gens
      /\ \A h \in Gens \ {g} : rag'[h] = rag[h] /\ (h \in flying' <=> h \in flying)
      /\ g \in flying' => rag'[g] = "absent"
  BY <1>1 DEF Post, IngestInv, TypeOK, GenInv
<1>5. PICK a \in {"track", "settle"} :
         worker' = [worker EXCEPT ![w] = [at |-> a, gen |-> g, seen |-> "unknown"]]
  BY Zenon DEF Post, Moved
<1>6. /\ worker'[w] = [at |-> a, gen |-> g, seen |-> "unknown"]
      /\ \A v \in Workers \ {w} : worker'[v] = worker[v]
      /\ worker' \in [Workers -> [at : {"idle", "parse", "post", "track", "probe",
                                        "publish", "settle"},
                                  gen : Gens,
                                  seen : {"unknown", "pending", "processed", "failed"}]]
  BY <1>1, <1>5, Zenon DEF IngestInv, TypeOK
<1>7. TypeOK'
  BY <1>2, <1>3, <1>4, <1>6, Zenon DEF IngestInv, TypeOK
<1>8. ASSUME NEW h \in Gens PROVE GenInv(h)'
  <2>1. GenInv(h) /\ Newest' = Newest /\ Newest \in Nat
    BY <1>2, LenProperties, Zenon DEF IngestInv, Newest, TypeOK
  <2>2. CASE h = g
    BY <2>1, <2>2, <1>1, <1>2, <1>3, <1>4 DEF GenInv, Gens
  <2>3. CASE h # g
    BY <2>1, <2>3, <1>2, <1>3, <1>4, Zenon DEF GenInv
  <2> QED
    BY <2>2, <2>3, Zenon
<1>9. ASSUME NEW v \in Workers PROVE WorkerInv(v)'
  <2>1. WorkerInv(v) /\ Newest' = Newest /\ worker[v].gen \in Gens
    BY <1>2, WorkerType, Zenon DEF IngestInv, Newest
  <2>2. CASE v = w
    BY <2>1, <2>2, <1>1, <1>6 DEF WorkerInv
  <2>3. CASE v # w
    <3>1. worker'[v] = worker[v]
      BY <1>6, <2>3, Zenon
    <3>2. worker[v].at = "settle" /\ worker[v].seen = "failed" /\ worker[v].gen = g
             => jobs[g].owner # v
      BY <1>1, <2>1 DEF WorkerInv
    <3>3. worker[v].gen = g => worker[v].at \notin {"post", "publish"}
      BY <1>1, <2>1, <2>3 DEF WorkerInv
    <3>4. \A u \in Workers : worker'[u].at = "post" => worker'[u] = worker[u]
      BY <1>6
    <3> QED
      BY <2>1, <3>1, <3>2, <3>3, <3>4, <1>2, <1>3, <1>4 DEF WorkerInv
  <2> QED
    BY <2>2, <2>3, Zenon
<1>10. DocInv'
  BY <1>2, Zenon DEF IngestInv, DocInv, Newest
<1> QED
  BY <1>7, <1>8, <1>9, <1>10, Zenon DEF IngestInv

\* The owner of the newest generation closes it, or gives its claim back: the
\* row it writes has no owner, and is terminal only with the proof in hand.
LEMMA ClosingKeeps ==
    ASSUME IngestInv, NEW w \in Workers, NEW j \in Job, NEW st, NEW un \in BOOLEAN,
           worker[w].at # "idle",
           jobs[worker[w].gen].owner = w,
           worker' = [worker EXCEPT ![w] = IdleWorker],
           jobs' = [jobs EXCEPT ![worker[w].gen] = j],
           doc' = [status |-> st, unknown |-> un],
           UNCHANGED <<rag, flying, posts>>,
           st \in {"indexing", "failed", "ready"},
           j.owner = None,
           \/ j.submission = jobs[worker[w].gen].submission
           \/ /\ j.submission = "terminal"
              /\ j.status \in {"done", "failed"}
              /\ \/ jobs[worker[w].gen].submission = "not_submitted"
                 \/ posts[worker[w].gen] = 1 /\ worker[w].gen \notin flying,
           st \in {"ready", "failed"} /\ ~un => j.submission = "terminal",
           \/ UNCHANGED grants /\ st # "ready"
           \/ grants' = "ready" /\ st = "ready" /\ ~un
    PROVE  IngestInv'
<1> DEFINE g == worker[w].gen
<1>1. /\ g \in Gens /\ g \in 1..Len(jobs) /\ g = Newest
      /\ jobs \in Seq(Job)
      /\ GenInv(g)
      /\ jobs[g].submission # "terminal"
  <2>1. g \in Gens /\ WorkerInv(w) /\ GenInv(g) /\ jobs \in Seq(Job)
    BY WorkerType, Zenon DEF IngestInv, TypeOK
  <2>2. g <= Newest
    BY <2>1, Zenon DEF WorkerInv
  <2>3. jobs[g].submission # "terminal"
    BY <2>1, <2>2, IntakeConstants, Zenon DEF GenInv
  <2>4. ~(g < Newest)
    BY <2>1, <2>3, Zenon DEF GenInv
  <2> QED
    BY <2>1, <2>2, <2>3, <2>4, LenProperties DEF Newest, Gens
<1>2. /\ jobs' \in Seq(Job)
      /\ Newest' = Newest
      /\ \A h \in 1..Newest : h # g => jobs'[h] = jobs[h]
      /\ jobs'[g] = j
  BY <1>1, RowReplaced DEF Newest
<1>3. /\ worker'[w] = IdleWorker
      /\ \A v \in Workers \ {w} : worker'[v] = worker[v]
      /\ worker' \in [Workers -> [at : {"idle", "parse", "post", "track", "probe",
                                        "publish", "settle"},
                                  gen : Gens,
                                  seen : {"unknown", "pending", "processed", "failed"}]]
  BY IntakeConstants DEF IngestInv, TypeOK, IdleWorker, Gens
<1>4. TypeOK'
  BY <1>2, <1>3, Zenon DEF IngestInv, TypeOK, Newest, Processing
<1>5. ASSUME NEW h \in Gens PROVE GenInv(h)'
  <2>1. GenInv(h)
    BY Zenon DEF IngestInv
  <2>2. CASE h = g
    <3>1. /\ g <= Newest' /\ ~(g < Newest') /\ ~(g > Newest')
          /\ posts' = posts /\ rag' = rag /\ flying' = flying
      BY <1>1, <1>2 DEF Gens, Newest
    <3>2. j.submission = "not_submitted" => posts[g] = 0
      BY <1>1 DEF GenInv, Newest
    <3>3. j.submission = "terminal" =>
             /\ j.status \in {"done", "failed"}
             /\ g \notin flying
      BY <1>1 DEF GenInv
    <3> QED
      BY <2>1, <2>2, <3>1, <3>2, <3>3, <1>2, Zenon DEF GenInv
  <2>3. CASE h # g
    <3>1. h <= Newest => jobs'[h] = jobs[h]
      BY <2>3, <1>2 DEF Gens, Newest
    <3> QED
      BY <2>1, <3>1, <1>1, <1>2 DEF GenInv, Gens
  <2> QED
    BY <2>2, <2>3, Zenon
<1>6. ASSUME NEW v \in Workers PROVE WorkerInv(v)'
  <2>1. CASE v = w
    BY <2>1, <1>3, Zenon DEF WorkerInv, IdleWorker
  <2>2. CASE v # w
    <3>1. WorkerInv(v) /\ worker[v].gen \in Gens /\ worker'[v] = worker[v]
      BY <2>2, <1>3, WorkerType, Zenon DEF IngestInv
    <3>2. worker[v].at # "idle" => worker[v].gen \in 1..Newest
      BY <3>1 DEF WorkerInv, Gens, Newest
    <3>3. worker[v].gen = g => jobs'[worker[v].gen].owner # v
      BY <1>2, IntakeConstants, Zenon
    <3>4. worker[v].at = "post" /\ worker[v].gen = g => j.submission = "submitted"
      BY <3>1 DEF WorkerInv
    <3>5. \A u \in Workers : worker'[u].at = "post" => worker'[u] = worker[u]
      BY <1>3, Zenon DEF IdleWorker
    <3> QED
      BY <3>1, <3>2, <3>3, <3>4, <3>5, <1>2 DEF WorkerInv
  <2> QED
    BY <2>1, <2>2, Zenon
<1>7. DocInv'
  <2>1. grants # "ready"
    BY <1>1, Zenon DEF IngestInv, DocInv
  <2>2. Newest' > 0 /\ jobs'[Newest'] = j
    BY <1>1, <1>2 DEF Gens
  <2>3. doc'.status = st /\ doc'.unknown = un
    BY Zenon
  <2>4. st # "none" /\ (st \in Processing \cup {"failed"} => st # "ready")
    BY Zenon DEF Processing
  <2> QED
    BY <2>1, <2>2, <2>3, <2>4 DEF DocInv
<1> QED
  BY <1>4, <1>5, <1>6, <1>7, Zenon DEF IngestInv

\* The row a worker works on.
LEMMA HeldRow ==
    ASSUME IngestInv, NEW w \in Workers, worker[w].at # "idle"
    PROVE  jobs[worker[w].gen] \in Job /\ worker[w].gen \in Gens
<1>1. worker[w].gen \in Gens /\ WorkerInv(w) /\ jobs \in Seq(Job)
  BY WorkerType, Zenon DEF IngestInv, TypeOK
<1> QED
  BY <1>1, LenProperties, ElementOfSeq DEF WorkerInv, Newest, Gens

\* The publication.
LEMMA PublishKeeps ==
    ASSUME IngestInv, NEW w \in Workers, Publish(w)
    PROVE  IngestInv'
<1> DEFINE g == worker[w].gen
<1>1. CASE Owns(w) /\ doc.status \in {"indexing", "failed"}
  <2> DEFINE j == Published(jobs[g])
  <2>1. jobs[g] \in Job /\ worker[w].at # "idle" /\ jobs[g].owner = w
    BY <1>1, HeldRow, Zenon DEF Publish, Owns
  <2>2. posts[g] = 1 /\ g \notin flying
    BY Zenon DEF IngestInv, WorkerInv, Publish
  <2>3. /\ j \in Job /\ j.owner = None
        /\ j.submission = "terminal" /\ j.status = "done"
    BY <2>1, PublishedRow, Zenon
  <2>4. /\ worker' = [worker EXCEPT ![w] = IdleWorker]
        /\ jobs' = [jobs EXCEPT ![g] = j]
        /\ doc' = [status |-> "ready", unknown |-> FALSE]
        /\ grants' = "ready"
        /\ UNCHANGED <<rag, flying, posts>>
    BY <1>1, Zenon DEF Publish
  <2> HIDE DEF j
  <2> QED
    BY <2>1, <2>2, <2>3, <2>4, ClosingKeeps, Zenon
<1>2. CASE ~(Owns(w) /\ doc.status \in {"indexing", "failed"})
  <2> DEFINE x == [at |-> "settle", gen |-> g, seen |-> "unknown"]
  <2>1. /\ worker' = [worker EXCEPT ![w] = x]
        /\ UNCHANGED <<doc, jobs, grants, rag, flying, posts>>
    BY <1>2, Zenon DEF Publish, Moved
  <2>2. g \in Gens /\ g <= Newest
    BY WorkerType, Zenon DEF IngestInv, WorkerInv, Publish
  <2> QED
    BY <2>1, <2>2, MoveKeeps, Zenon
<1> QED
  BY <1>1, <1>2, Zenon

\* The settlement.
LEMMA SettleKeeps ==
    ASSUME IngestInv, NEW w \in Workers, Settle(w)
    PROVE  IngestInv'
<1> DEFINE g == worker[w].gen
           s == worker[w].seen
<1>1. CASE Owns(w)
  <2> DEFINE j == Settled(jobs[g], s)
             st == Shown(jobs[g], s)
             un == Lost(jobs[g], s)
  <2>1. jobs[g] \in Job /\ worker[w].at # "idle" /\ jobs[g].owner = w
    BY <1>1, HeldRow, Zenon DEF Settle, Owns
  <2>2. s = "failed" => \/ jobs[g].submission = "not_submitted"
                        \/ posts[g] = 1 /\ g \notin flying
    BY <2>1, Zenon DEF IngestInv, WorkerInv, Settle
  <2>3. /\ j \in Job /\ j.owner = None
        /\ s = "failed" => j.submission = "terminal" /\ j.status = "failed"
        /\ s # "failed" => j.submission = jobs[g].submission
        /\ st \in {"failed", "indexing"} /\ un \in BOOLEAN
        /\ st = "failed" /\ ~un => s = "failed"
    BY <2>1, SettledRow
  <2>4. /\ worker' = [worker EXCEPT ![w] = IdleWorker]
        /\ jobs' = [jobs EXCEPT ![g] = j]
        /\ doc' = [status |-> st, unknown |-> un]
        /\ UNCHANGED <<grants, rag, flying, posts>>
    BY <1>1, Zenon DEF Settle
  <2> HIDE DEF j, st, un
  <2> QED
    BY <2>1, <2>2, <2>3, <2>4, ClosingKeeps, Zenon
<1>2. CASE ~Owns(w)
  BY <1>2, ReturnKeeps, Zenon DEF Settle
<1> QED
  BY <1>1, <1>2, Zenon

\* LightRAG's own steps.
LEMMA RagKeeps ==
    ASSUME IngestInv, NEW g \in Gens, Arrive(g) \/ Index(g) \/ Drop(g)
    PROVE  IngestInv'
<1>1. UNCHANGED <<doc, jobs, grants, worker, posts>>
  BY Zenon DEF Arrive, Index, Drop
<1>2. GenInv(g) /\ posts[g] \in 0..1
  BY Zenon DEF IngestInv, TypeOK
<1>3. /\ rag' \in [Gens -> {"absent", "queued", "processed", "failed"}]
      /\ flying' \subseteq flying
      /\ \A h \in Gens \ {g} : rag'[h] = rag[h] /\ (h \in flying' <=> h \in flying)
      /\ g \in flying' => rag'[g] = "absent"
      /\ rag'[g] # "absent" => posts[g] = 1
  BY <1>2 DEF Arrive, Index, Drop, GenInv, IngestInv, TypeOK
<1>4. TypeOK'
  BY <1>1, <1>3, Zenon DEF IngestInv, TypeOK
<1>5. ASSUME NEW h \in Gens PROVE GenInv(h)'
  <2>1. GenInv(h) /\ Newest' = Newest
    BY <1>1, Zenon DEF IngestInv, Newest
  <2>2. CASE h = g
    BY <2>1, <2>2, <1>1, <1>3 DEF GenInv
  <2>3. CASE h # g
    BY <2>1, <2>3, <1>1, <1>3, Zenon DEF GenInv
  <2> QED
    BY <2>2, <2>3, Zenon
<1>6. ASSUME NEW v \in Workers PROVE WorkerInv(v)'
  <2>1. WorkerInv(v) /\ Newest' = Newest
    BY <1>1, Zenon DEF IngestInv, Newest
  <2> QED
    BY <2>1, <1>1, <1>3, Zenon DEF WorkerInv
<1>7. DocInv'
  BY <1>1, Zenon DEF IngestInv, DocInv, Newest
<1> QED
  BY <1>4, <1>5, <1>6, <1>7, Zenon DEF IngestInv

\* A lease that lapses changes nobody's row but its own lease.
LEMMA LapseKeeps ==
    ASSUME IngestInv, NEW g \in Gens, Lapse(g)
    PROVE  IngestInv'
<1> DEFINE j == [jobs[g] EXCEPT !.leased = FALSE]
<1>1. g \in 1..Len(jobs) /\ jobs \in Seq(Job) /\ jobs[g] \in Job
  BY LenProperties, ElementOfSeq DEF IngestInv, TypeOK, Lapse, Newest, Gens
<1>2. jobs' = [jobs EXCEPT ![g] = j] /\ UNCHANGED <<doc, grants, rag, flying, worker, posts>>
  BY Zenon DEF Lapse
<1>3. /\ j \in Job
      /\ j.owner = jobs[g].owner
      /\ j.submission = jobs[g].submission
      /\ j.status = jobs[g].status
  BY <1>1, LapsedRow, Zenon
<1> HIDE DEF j
<1>4. /\ jobs' \in Seq(Job)
      /\ Newest' = Newest
      /\ \A h \in 1..Newest : /\ jobs'[h].owner = jobs[h].owner
                              /\ jobs'[h].submission = jobs[h].submission
                              /\ jobs'[h].status = jobs[h].status
  BY <1>1, <1>2, <1>3, RowReplaced DEF Newest
<1>5. TypeOK'
  BY <1>2, <1>4, Zenon DEF IngestInv, TypeOK, Newest
<1>6. ASSUME NEW h \in Gens PROVE GenInv(h)'
  <2>1. GenInv(h) /\ (h <= Newest => h \in 1..Newest)
    BY DEF IngestInv, Gens, Newest
  <2>2. h < Newest => h <= Newest
    BY LenProperties DEF Gens, Newest, IngestInv, TypeOK
  <2> QED
    BY <2>1, <2>2, <1>2, <1>4, Zenon DEF GenInv
<1>7. ASSUME NEW v \in Workers PROVE WorkerInv(v)'
  <2>1. WorkerInv(v) /\ (worker[v].at # "idle" => worker[v].gen \in 1..Newest)
    BY WorkerType DEF IngestInv, WorkerInv, Gens, Newest
  <2> QED
    BY <2>1, <1>2, <1>4, Zenon DEF WorkerInv
<1>8. DocInv'
  <2>1. Newest > 0 => Newest \in 1..Newest
    BY LenProperties DEF Newest, IngestInv, TypeOK
  <2> QED
    BY <2>1, <1>2, <1>4 DEF IngestInv, DocInv, Newest
<1> QED
  BY <1>5, <1>6, <1>7, <1>8, Zenon DEF IngestInv

\* A restart of the Manager.
LEMMA CrashKeeps ==
    ASSUME IngestInv, Crash
    PROVE  IngestInv'
<1>1. /\ UNCHANGED <<doc, jobs, grants, rag, flying, posts>>
      /\ worker' = [w \in Workers |-> IdleWorker]
  BY Zenon DEF Crash
<1>2. TypeOK'
  BY <1>1, IntakeConstants DEF IngestInv, TypeOK, IdleWorker, Gens
<1>3. \A g \in Gens : GenInv(g)'
  BY <1>1, Zenon DEF IngestInv, GenInv, Newest
<1>4. \A w \in Workers : WorkerInv(w)'
  BY <1>1, Zenon DEF WorkerInv, IdleWorker
<1>5. DocInv'
  BY <1>1, Zenon DEF IngestInv, DocInv, Newest
<1> QED
  BY <1>2, <1>3, <1>4, <1>5, Zenon DEF IngestInv

\* Every step of a delete or reconcile request.
LEMMA RequestKeeps ==
    ASSUME IngestInv, NEW r \in Requests, RequestStep(r)
    PROVE  IngestInv'
<1>1. CASE DeleteCas(r)
  BY <1>1, DeletionKeeps, Zenon DEF DeleteCas
<1>2. CASE DeleteRevoke(r)
  BY <1>2, DeletionKeeps, Zenon DEF DeleteRevoke
<1>3. CASE ReconcileFinish(r)
  BY <1>3, DeletionKeeps, Zenon DEF ReconcileFinish
<1>4. CASE \/ \E k \in Keys : DeleteStart(r, k)
           \/ DeleteCreate(r) \/ DeleteCall(r) \/ Mark(r) \/ ReconcileStart(r)
           \/ \E row \in DOMAIN receipts : ReconcilePick(r, row)
           \/ ReconcileProbe(r) \/ ReconcileRecheck(r)
  <2>1. UNCHANGED <<doc, jobs, grants, rag, flying, worker, posts>>
    BY <1>4, Zenon DEF DeleteStart, DeleteCreate, DeleteCall, Mark, ReconcileStart,
                ReconcilePick, ReconcileProbe, ReconcileRecheck
  <2> QED
    BY <2>1, DeletionKeeps, Zenon
<1> QED
  BY <1>1, <1>2, <1>3, <1>4, Zenon DEF RequestStep

\* Every step keeps the invariant.
LEMMA StepIntake == IngestInv /\ [Next]_vars => IngestInv'
<1> SUFFICES ASSUME IngestInv, [Next]_vars PROVE IngestInv'
  BY Zenon
<1>1. CASE Upload \/ ImportUrl
  BY <1>1, CreatedKeeps, Zenon DEF Upload, ImportUrl
<1>2. CASE Reindex
  BY <1>2, ReindexKeeps, Zenon
<1>3. CASE Crash
  BY <1>3, CrashKeeps, Zenon
<1>4. ASSUME NEW w \in Workers, WorkerStep(w) PROVE IngestInv'
  BY <1>4, ClaimKeeps, LearningKeeps, FenceKeeps, PostKeeps, PublishKeeps,
     SettleKeeps, Zenon DEF WorkerStep
<1>5. ASSUME NEW r \in Requests, RequestStep(r) PROVE IngestInv'
  BY <1>5, RequestKeeps, Zenon
<1>6. ASSUME NEW g \in Gens, Arrive(g) \/ Index(g) \/ Drop(g) \/ Lapse(g)
      PROVE IngestInv'
  BY <1>6, RagKeeps, LapseKeeps, Zenon
<1>7. CASE UNCHANGED vars
  BY <1>7, DeletionKeeps, Zenon DEF vars
<1> QED
  BY <1>1, <1>2, <1>3, <1>4, <1>5, <1>6, <1>7, Zenon DEF Next

\* The part about ingestion holds in every reachable state.
LEMMA IngestInvariant == Spec => []IngestInv
<1> QED
  BY InitIntake, StepIntake, PTL DEF Spec

\* A fenced POST is never repeated, and no generation is posted while the outcome
\* of an earlier one is open.
THEOREM PostedOnce == Spec => []NeverReposted
<1>1. IngestInv => NeverReposted
  <2> SUFFICES ASSUME IngestInv, NEW g \in Gens
               PROVE  /\ posts[g] <= 1
                      /\ posts[g] = 1 => \A h \in 1..(g - 1) :
                                            /\ jobs[h].submission = "terminal"
                                            /\ h \notin flying
    BY Zenon DEF NeverReposted
  <2>1. posts[g] \in 0..1 /\ GenInv(g) /\ Newest \in Nat
    BY LenProperties, Zenon DEF IngestInv, TypeOK, Newest
  <2>2. ASSUME posts[g] = 1, NEW h \in 1..(g - 1)
        PROVE  jobs[h].submission = "terminal" /\ h \notin flying
    <3>1. h \in Gens /\ h < Newest /\ h <= Newest
      BY <2>1, <2>2, IntakeConstants DEF GenInv, Gens
    <3>2. GenInv(h)
      BY <3>1, Zenon DEF IngestInv
    <3> QED
      BY <3>1, <3>2, Zenon DEF GenInv
  <2> QED
    BY <2>1, <2>2
<1> QED
  BY <1>1, IngestInvariant, PTL

\* No employee's binding is ready while the document is indexed again or has failed.
THEOREM OpenIsHidden == Spec => []StaleIsHidden
<1>1. IngestInv => StaleIsHidden
  BY Zenon DEF IngestInv, DocInv, StaleIsHidden
<1> QED
  BY <1>1, IngestInvariant, PTL

=============================================================================
