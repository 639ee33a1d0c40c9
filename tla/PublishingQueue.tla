-------------------------- MODULE PublishingQueue --------------------------
(***************************************************************************)
(* The publishing engine: app/services/publishing_service.py over          *)
(* app/repositories/publishing_repository.py.                              *)
(*                                                                         *)
(* Every worker pass and every API request runs in a database session of   *)
(* its own.  A step of this module is one transaction of one session, or   *)
(* the call to the social platform between two of them.  What a session    *)
(* read before its last write is kept in seen: SQLAlchemy decides from it  *)
(* which columns the next flush writes, so a stale read is written back    *)
(* only in part (see Written).                                             *)
(***************************************************************************)
EXTENDS Integers, FiniteSets

CONSTANTS
    Jobs,             \* publishing jobs; a job stands for its idempotency key
    Workers,          \* queue-worker and retry-worker processes
    Clients,          \* API requests: publish, schedule, retry, cancel
    Recoverers,       \* passes of the dead-letter worker
    NoJob,            \* a session that works on no job
    MaxRetries,       \* PublishingJob.max_retries
    BatchLimit,       \* limit of claim_due_queue_jobs
    CircuitThreshold, \* publishing_circuit_breaker_failures
    NaiveTimestamps,  \* the database driver drops time zones (SQLite does)
    MaxFaults,        \* bound: crashes, failed commits, unreadable credentials
    MaxRequests       \* bound: retry and cancel requests, dead-letter passes

ASSUME QueueAssumption ==
    /\ IsFiniteSet(Workers) /\ IsFiniteSet(Clients)
    /\ Workers \cap Clients = {}
    /\ Recoverers \cap (Workers \cup Clients) = {}
    /\ NoJob \notin Jobs
    /\ MaxRetries \in Nat
    /\ BatchLimit \in Nat \ {0}
    /\ CircuitThreshold \in Nat \ {0}
    /\ NaiveTimestamps \in BOOLEAN
    /\ MaxFaults \in Nat
    /\ MaxRequests \in Nat

Publishers == Workers \cup Clients
Sessions   == Publishers \cup Recoverers

Final     == {"published", "cancelled", "expired"}
Claimable == {"pending", "scheduled", "retry"}

\* PublishingJob.status: never "publishing", only the queue row is claimed.
JobStatus   == {"none", "failed"} \cup Claimable \cup Final
QueueStatus == JobStatus \cup {"publishing"}

VARIABLES
    status,     \* PublishingJob.status, "none" before the job is created
    retries,    \* PublishingJob.retry_count
    expiry,     \* PublishingJob.expires_at: unset, ahead of the clock or past
    queue,      \* PublishingQueue.status
    visible,    \* PublishingQueue.visible_at <= now
    letters,    \* ids of the job's rows in publishing_dead_letter_queue
    history,    \* number of the job's rows in publishing_histories
    posts,      \* posts of the job the platform has accepted
    permits,    \* how often the code has put the job up for a post
    pc,         \* where each session stands
    batch,      \* candidates of a claim, then the entries left to process
    cur,        \* the job a session has read
    seen,       \* what it read of that job
    held,       \* dead letters a recovery pass has listed
    failures,   \* CircuitState.failures of a worker pass
    faults,     \* faults so far
    requests    \* requests so far

rows     == <<status, retries, expiry, queue, visible, letters, history>>
platform == <<posts, permits>>
sessions == <<pc, batch, cur, seen, held, failures>>
budgets  == <<faults, requests>>
vars     == <<rows, platform, sessions, budgets>>

Seen    == [status : JobStatus, retries : Nat, queue : QueueStatus \cup {"unread"}]
NoSeen  == [status |-> "none", retries |-> 0, queue |-> "unread"]
Nothing == [j \in Jobs |-> {}]

-----------------------------------------------------------------------------
(* Helpers *)

\* A flush writes a column only if it differs from what the session loaded;
\* a column the session had not loaded is read in the writing transaction.
Written(loaded, new, stored) == IF loaded = new THEN stored ELSE new

\* update_job_status and update_queue_status on the row a session has read.
WriteStatus_JobOnly(s, new) ==   \* mutant: the queue row is forgotten
    /\ status' = [status EXCEPT ![cur[s]] = Written(seen[s].status, new, @)]
    /\ UNCHANGED queue
WriteStatus(s, new) ==
    /\ status' = [status EXCEPT ![cur[s]] = Written(seen[s].status, new, @)]
    /\ queue'  = [queue  EXCEPT ![cur[s]] = Written(seen[s].queue,  new, @)]

Restart(s) ==
    /\ pc'       = [pc EXCEPT ![s] = "idle"]
    /\ batch'    = [batch EXCEPT ![s] = {}]
    /\ cur'      = [cur EXCEPT ![s] = NoJob]
    /\ seen'     = [seen EXCEPT ![s] = NoSeen]
    /\ held'     = [held EXCEPT ![s] = Nothing]
    /\ failures' = [failures EXCEPT ![s] = 0]

\* What is left of a batch once j is done with.
Rest_AbortBatch(s, j) == {}   \* mutant: an exception ends the whole loop
Rest(s, j) == batch[s] \ {j}

\* The session is done with j, published or not, and goes on with the rest of
\* its batch; f failures are on its circuit breaker.
FinishJob(s, j, f) ==
    /\ batch'    = [batch EXCEPT ![s] = Rest(s, j)]
    /\ pc'       = [pc EXCEPT ![s] = IF Rest(s, j) = {} THEN "idle" ELSE "next"]
    /\ cur'      = [cur EXCEPT ![s] = NoJob]
    /\ seen'     = [seen EXCEPT ![s] = NoSeen]
    /\ failures' = [failures EXCEPT ![s] = IF Rest(s, j) = {} THEN 0 ELSE f]
    /\ UNCHANGED held

Fault ==
    /\ faults < MaxFaults
    /\ faults' = faults + 1
    /\ UNCHANGED requests

Request ==
    /\ requests < MaxRequests
    /\ requests' = requests + 1
    /\ UNCHANGED faults

Due == {j \in Jobs : queue[j] \in Claimable /\ visible[j]}

\* Sessions that will still call the platform for j, and sessions that have
\* called it and not yet recorded the post.
Holders(j) == {s \in Publishers : j \in batch[s] /\ pc[s] # "claim"
                                  /\ ~(pc[s] = "save" /\ cur[s] = j)}
Savers(j)  == {s \in Publishers : pc[s] = "save" /\ cur[s] = j}

-----------------------------------------------------------------------------
Init ==
    /\ status     = [j \in Jobs |-> "none"]
    /\ retries    = [j \in Jobs |-> 0]
    /\ expiry     = [j \in Jobs |-> "unset"]
    /\ queue      = [j \in Jobs |-> "none"]
    /\ visible    = [j \in Jobs |-> FALSE]
    /\ letters    = Nothing
    /\ history    = [j \in Jobs |-> 0]
    /\ posts      = [j \in Jobs |-> 0]
    /\ permits    = [j \in Jobs |-> 0]
    /\ pc         = [s \in Sessions |-> "idle"]
    /\ batch      = [s \in Sessions |-> {}]
    /\ cur        = [s \in Sessions |-> NoJob]
    /\ seen       = [s \in Sessions |-> NoSeen]
    /\ held       = [s \in Sessions |-> Nothing]
    /\ failures   = [s \in Sessions |-> 0]
    /\ faults     = 0
    /\ requests   = 0

-----------------------------------------------------------------------------
(* publish_now and schedule_publish.  A request for a key that exists gets *)
(* the stored job back and changes nothing, and of two concurrent requests *)
(* for one key the second fails on the unique column and changes nothing.  *)

SchedulePublish(c, j) ==
    /\ pc[c] = "idle" /\ status[j] = "none"
    /\ status'  = [status EXCEPT ![j] = "scheduled"]
    /\ queue'   = [queue EXCEPT ![j] = "scheduled"]
    /\ expiry'  = [expiry EXCEPT ![j] = "ahead"]
    /\ permits' = [permits EXCEPT ![j] = @ + 1]
    /\ UNCHANGED <<retries, visible, letters, history, posts, sessions, budgets>>

\* The row is committed pending and visible now, so a worker may claim it
\* while the request goes on to publish the same job without claiming it.
PublishNow(c, j) ==
    /\ pc[c] = "idle" /\ status[j] = "none"
    /\ status'  = [status EXCEPT ![j] = "pending"]
    /\ queue'   = [queue EXCEPT ![j] = "pending"]
    /\ visible' = [visible EXCEPT ![j] = TRUE]
    /\ permits' = [permits EXCEPT ![j] = @ + 2]
    /\ pc'      = [pc EXCEPT ![c] = "next"]
    /\ batch'   = [batch EXCEPT ![c] = {j}]
    /\ UNCHANGED <<retries, expiry, letters, history, posts,
                   cur, seen, held, failures, budgets>>

-----------------------------------------------------------------------------
(* process_queue: claim a batch, then _process_single_job on each entry.   *)

\* claim_due_queue_jobs reads candidate ids.  Priorities are all 100 and
\* visible_at is not modelled as a number, so any due rows may come first.
SelectCandidates(w) ==
    /\ pc[w] = "idle"
    /\ \E C \in SUBSET Due :
          /\ C # {}
          /\ Cardinality(C) <= BatchLimit
          /\ Cardinality(C) = BatchLimit \/ C = Due
          /\ batch' = [batch EXCEPT ![w] = C]
    /\ pc' = [pc EXCEPT ![w] = "claim"]
    /\ UNCHANGED <<rows, platform, cur, seen, held, failures, budgets>>

\* Its conditional updates check the status again, not visible_at.
StillClaimable_Unchecked(j) == TRUE   \* mutant: UPDATE without the status
StillClaimable(j) == queue[j] \in Claimable

ClaimCandidates(w) ==
    LET claimed == {j \in batch[w] : StillClaimable(j)} IN
    /\ pc[w] = "claim"
    /\ queue' = [j \in Jobs |-> IF j \in claimed THEN "publishing" ELSE queue[j]]
    /\ batch' = [batch EXCEPT ![w] = claimed]
    /\ pc'    = [pc EXCEPT ![w] = IF claimed = {} THEN "idle" ELSE "next"]
    /\ UNCHANGED <<status, retries, expiry, visible, letters, history,
                   platform, cur, seen, held, failures, budgets>>

\* expires_at < datetime.now(UTC) raises TypeError on a naive expires_at.
ExpiryReadable(j) == expiry[j] = "unset" \/ ~NaiveTimestamps

\* entry.job_id loads the queue row of a worker, get_job the job; the session
\* of a publish_now request has not read the queue row.  expires_at is tested
\* at once.
LoadJob(s, j) ==
    /\ pc[s] = "next" /\ j \in batch[s] /\ ExpiryReadable(j)
    /\ cur'  = [cur EXCEPT ![s] = j]
    /\ seen' = [seen EXCEPT ![s] =
                  [status  |-> status[j],
                   retries |-> retries[j],
                   queue   |-> IF s \in Workers THEN queue[j] ELSE "unread"]]
    /\ pc'   = [pc EXCEPT ![s] = IF expiry[j] = "past" THEN "expire" ELSE "publish"]
    /\ UNCHANGED <<rows, platform, batch, held, failures, budgets>>

\* The TypeError reaches process_queue, which counts it and goes on.
LoadRaises(s, j) ==
    /\ pc[s] = "next" /\ j \in batch[s] /\ ~ExpiryReadable(j)
    /\ FinishJob(s, j, failures[s])
    /\ UNCHANGED <<rows, platform, budgets>>

ExpireJob(s) ==
    /\ pc[s] = "expire"
    /\ WriteStatus(s, "expired")
    /\ visible' = [visible EXCEPT ![cur[s]] = TRUE]
    /\ FinishJob(s, cur[s], failures[s])
    /\ UNCHANGED <<retries, expiry, letters, history, platform, budgets>>

\* add_dead_letter for the job a session has read.  The table's id is a plain
\* INTEGER PRIMARY KEY: SQLite gives one more than the largest id it holds, so
\* the id of a deleted letter can come back.
AddDeadLetter(s) ==
    LET ids == UNION {letters[j] : j \in Jobs} IN
    \E l \in {1} \cup {m + 1 : m \in ids} :
        /\ \A m \in ids : m < l
        /\ letters' = [letters EXCEPT ![cur[s]] = @ \cup {l}]

\* _mark_failure: the account is gone or its owner has deactivated it.
MarkFailure(s) ==
    /\ pc[s] = "publish"
    /\ WriteStatus(s, "failed")
    /\ visible' = [visible EXCEPT ![cur[s]] = TRUE]
    /\ AddDeadLetter(s)
    /\ FinishJob(s, cur[s], failures[s])
    /\ UNCHANGED <<retries, expiry, history, platform, budgets>>

\* _mark_retry: the job goes back to the queue with a later visible_at, or to
\* the dead letters when its retries are used up.
RetryCount_Minus(s) == seen[s].retries - 1   \* mutant
RetryCount(s) == seen[s].retries + 1

Exhausted_OneLate(s) == RetryCount(s) > MaxRetries + 1   \* mutant
Exhausted(s) == RetryCount(s) > MaxRetries

MarkRetry(s, f) ==
    /\ pc[s] = "publish"
    /\ retries' = [retries EXCEPT ![cur[s]] = RetryCount(s)]
    /\ \/ /\ Exhausted(s)
          /\ WriteStatus(s, "failed")
          /\ visible' = [visible EXCEPT ![cur[s]] = TRUE]
          /\ AddDeadLetter(s)
       \/ /\ ~Exhausted(s)
          /\ WriteStatus(s, "retry")
          /\ visible' = [visible EXCEPT ![cur[s]] = FALSE]
          /\ UNCHANGED letters
    /\ FinishJob(s, cur[s], f)
    /\ UNCHANGED <<expiry, history, platform>>

\* The breaker is open: no call, the retry is spent all the same.
CircuitOpen(s) ==
    /\ failures[s] >= CircuitThreshold
    /\ MarkRetry(s, failures[s])
    /\ UNCHANGED budgets

\* Every provider of the failover sequence refuses with an AppException.  The
\* breaker may be closed, or its cool-down over.  _trip_circuit comes after
\* _mark_retry, whose audit row is committed after the job's own changes: when
\* that second commit fails the breaker is not tripped.
ProviderRefuses(s) ==
    \/ /\ MarkRetry(s, IF failures[s] < CircuitThreshold THEN failures[s] + 1
                                                         ELSE failures[s])
       /\ UNCHANGED budgets
    \/ /\ MarkRetry(s, failures[s])
       /\ Fault

\* publish_with_failover returns: the post is out, nothing is recorded yet.
ProviderAccepts(s) ==
    /\ pc[s] = "publish"
    /\ posts' = [posts EXCEPT ![cur[s]] = @ + 1]
    /\ pc'    = [pc EXCEPT ![s] = "save"]
    /\ UNCHANGED <<rows, permits, batch, cur, seen, held, failures, budgets>>

\* create_history, in the transaction that marks the job published.
CreateHistory_Once(s) ==   \* mutant: only for the session that publishes first
    history' = [history EXCEPT ![cur[s]] =
                  IF status[cur[s]] = "published" THEN @ ELSE @ + 1]
CreateHistory(s) == history' = [history EXCEPT ![cur[s]] = @ + 1]

\* record_event commits before the breaker is reset: when what follows that
\* commit fails, the post is recorded and the breaker keeps its count.
SavePublished(s) ==
    /\ pc[s] = "save"
    /\ WriteStatus(s, "published")
    /\ visible' = [visible EXCEPT ![cur[s]] = TRUE]
    /\ CreateHistory(s)
    /\ \/ FinishJob(s, cur[s], 0) /\ UNCHANGED budgets
       \/ FinishJob(s, cur[s], failures[s]) /\ Fault
    /\ UNCHANGED <<retries, expiry, letters, platform>>

\* get_decrypted_credentials raises outside the try of the provider call, or
\* a transaction fails and is rolled back.  process_queue counts the exception
\* and goes on; nothing puts the entry back.
ProcessingRaises(s) ==
    /\ pc[s] \in {"expire", "publish", "save"}
    /\ Fault
    /\ FinishJob(s, cur[s], failures[s])
    /\ UNCHANGED <<rows, platform>>

-----------------------------------------------------------------------------
(* retry_publish and cancel_publish: a read, then one transaction that     *)
(* reads the queue row and writes both rows.                               *)

ReadForRequest(c, j, step) ==
    /\ pc[c] = "idle"
    /\ cur'  = [cur EXCEPT ![c] = j]
    /\ seen' = [seen EXCEPT ![c] = [NoSeen EXCEPT !.status = status[j],
                                                  !.retries = retries[j]]]
    /\ pc'   = [pc EXCEPT ![c] = step]
    /\ Request
    /\ UNCHANGED <<rows, platform, batch, held, failures>>

RequestRetry(c, j) ==
    /\ status[j] \in {"failed", "retry"}
    /\ ReadForRequest(c, j, "retry")

RequestCancel(c, j) ==
    /\ status[j] \notin Final \cup {"none"}
    /\ ReadForRequest(c, j, "cancel")

CommitRetry(c) ==
    /\ pc[c] = "retry"
    /\ WriteStatus(c, "retry")
    /\ visible' = [visible EXCEPT ![cur[c]] = TRUE]
    /\ permits' = [permits EXCEPT ![cur[c]] = @ + 1]
    /\ Restart(c)
    /\ UNCHANGED <<retries, expiry, letters, history, posts, budgets>>

CommitCancel(c) ==
    /\ pc[c] = "cancel"
    /\ WriteStatus(c, "cancelled")
    /\ visible' = [visible EXCEPT ![cur[c]] = TRUE]
    /\ Restart(c)
    /\ UNCHANGED <<retries, expiry, letters, history, platform, budgets>>

-----------------------------------------------------------------------------
(* process_dead_letter.  The pass lists the letters and reads the job of   *)
(* the oldest one before its first write takes the write lock, under which *)
(* it reads the jobs of the others; it commits once, at the end.           *)

ListDeadLetters(r) ==
    /\ pc[r] = "idle"
    /\ \E j \in Jobs :
          /\ \E l \in letters[j] : \A k \in Jobs : \A m \in letters[k] : l <= m
          /\ cur'  = [cur EXCEPT ![r] = j]
          /\ seen' = [seen EXCEPT ![r] = [NoSeen EXCEPT !.status = status[j]]]
    /\ held' = [held EXCEPT ![r] = letters]
    /\ pc'   = [pc EXCEPT ![r] = "recover"]
    /\ Request
    /\ UNCHANGED <<rows, platform, batch, failures>>

\* Jobs the pass sees failed: the first of their letters puts them back on the
\* queue, and the others are deleted with it, as are the letters of the rest.
Recovered_FirstForAll(r) ==   \* mutant: judged by the job read first
    {j \in Jobs : held[r][j] # {} /\ seen[r].status = "failed"}
Recovered(r) ==
    {j \in Jobs : /\ held[r][j] # {}
                  /\ "failed" = IF j = cur[r] THEN seen[r].status ELSE status[j]}

\* delete_dead_letter, letter by letter as listed.
Deleted_WholeJob(r, j) ==   \* mutant: DELETE by job_id
    IF held[r][j] = {} THEN {} ELSE letters[j]
Deleted(r, j) == held[r][j]

RecoverDeadLetters(r) ==
    /\ pc[r] = "recover"
    /\ status'  = [j \in Jobs |-> IF j \in Recovered(r) THEN "retry" ELSE status[j]]
    /\ queue'   = [j \in Jobs |-> IF j \in Recovered(r) THEN "retry" ELSE queue[j]]
    /\ visible' = [j \in Jobs |-> j \in Recovered(r) \/ visible[j]]
    /\ permits' = [j \in Jobs |-> permits[j] + IF j \in Recovered(r) THEN 1 ELSE 0]
    /\ letters' = [j \in Jobs |-> letters[j] \ Deleted(r, j)]
    /\ Restart(r)
    /\ UNCHANGED <<retries, expiry, history, posts, budgets>>

-----------------------------------------------------------------------------
(* A process dies or a request is dropped: what it had not committed is    *)
(* gone.  Nothing reads locked_at or lock_owner, so what it claimed stays. *)
Crash(s) ==
    /\ pc[s] # "idle"
    /\ Fault
    /\ Restart(s)
    /\ UNCHANGED <<rows, platform>>

\* The clock passes visible_at; 30 days after the schedule it passes
\* expires_at.
BecomeVisible(j) ==
    /\ queue[j] \in Claimable /\ ~visible[j]
    /\ visible' = [visible EXCEPT ![j] = TRUE]
    /\ UNCHANGED <<status, retries, expiry, queue, letters, history,
                   platform, sessions, budgets>>

ExpiryPasses(j) ==
    /\ expiry[j] = "ahead"
    /\ queue[j] = "scheduled" => visible[j]
    /\ expiry' = [expiry EXCEPT ![j] = "past"]
    /\ UNCHANGED <<status, retries, queue, visible, letters, history,
                   platform, sessions, budgets>>

-----------------------------------------------------------------------------
ProcessJob(s) ==
    \/ \E j \in Jobs : LoadJob(s, j) \/ LoadRaises(s, j)
    \/ ExpireJob(s)
    \/ MarkFailure(s)
    \/ CircuitOpen(s)
    \/ ProviderRefuses(s)
    \/ ProviderAccepts(s)
    \/ SavePublished(s)
    \/ ProcessingRaises(s)

WorkerStep(w) == SelectCandidates(w) \/ ClaimCandidates(w) \/ ProcessJob(w)

\* What a request does once it has begun.
ClientStep(c) == ProcessJob(c) \/ CommitRetry(c) \/ CommitCancel(c)

NewRequest(c) ==
    \E j \in Jobs : \/ SchedulePublish(c, j)
                    \/ PublishNow(c, j)
                    \/ RequestRetry(c, j)
                    \/ RequestCancel(c, j)

Next ==
    \/ \E w \in Workers : WorkerStep(w)
    \/ \E c \in Clients : NewRequest(c) \/ ClientStep(c)
    \/ \E r \in Recoverers : ListDeadLetters(r) \/ RecoverDeadLetters(r)
    \/ \E s \in Sessions : Crash(s)
    \/ \E j \in Jobs : BecomeVisible(j) \/ ExpiryPasses(j)

Spec == Init /\ [][Next]_vars

\* Workers poll for ever, a request once begun runs to its end and the clock
\* moves on.  Nothing obliges a client to send a request, an operator to run
\* the dead-letter worker (no entry point does) or a job to expire.
FairSpec ==
    /\ Spec
    /\ \A w \in Workers : WF_vars(WorkerStep(w))
    /\ \A c \in Clients : WF_vars(ClientStep(c))
    /\ \A r \in Recoverers : WF_vars(RecoverDeadLetters(r))
    /\ \A j \in Jobs : WF_vars(BecomeVisible(j))

-----------------------------------------------------------------------------
(* Properties *)

TypeOK ==
    /\ status     \in [Jobs -> JobStatus]
    /\ retries    \in [Jobs -> Nat]
    /\ expiry     \in [Jobs -> {"unset", "ahead", "past"}]
    /\ queue      \in [Jobs -> QueueStatus]
    /\ visible    \in [Jobs -> BOOLEAN]
    /\ letters    \in [Jobs -> SUBSET Nat]
    /\ history    \in [Jobs -> Nat]
    /\ posts      \in [Jobs -> Nat]
    /\ permits    \in [Jobs -> Nat]
    /\ pc         \in [Sessions -> {"idle", "claim", "next", "expire", "publish", "save",
                                    "retry", "cancel", "recover"}]
    /\ batch      \in [Sessions -> SUBSET Jobs]
    /\ cur        \in [Sessions -> Jobs \cup {NoJob}]
    /\ seen       \in [Sessions -> Seen]
    /\ held       \in [Sessions -> [Jobs -> SUBSET Nat]]
    /\ failures   \in [Sessions -> Nat]
    /\ faults     \in Nat
    /\ requests   \in Nat

\* publishing_service.py marks a job failed in the same transaction as it adds
\* its dead letter (_mark_failure, the last _mark_retry), and the recovery
\* pass deletes letters it listed earlier.  However the two interleave, a
\* failed job keeps a letter for a later pass to find.
FailedHasDeadLetter == \A j \in Jobs : status[j] = "failed" => letters[j] # {}

\* A post stays without its history row only while the session that made it
\* has still to commit, or after a fault took that commit away (the platform
\* is called before the transaction that records the post), and no history
\* row is without a post.
PostsAccountedFor ==
    \A j \in Jobs :
        /\ history[j] <= posts[j]
        /\ posts[j] <= history[j] + Cardinality(Savers(j)) + faults

\* A queue row stays "publishing" only while a session that will rewrite it is
\* at work, unless there was a fault or the job's expires_at cannot be compared
\* with the clock: no lease is kept, so nobody else would ever release it.
ClaimHasOwner ==
    \A j \in Jobs :
        queue[j] = "publishing" /\ faults = 0 /\ ExpiryReadable(j)
            => \E s \in Publishers : j \in batch[s] /\ pc[s] # "claim"

\* _mark_retry never spends more than max_retries retries on one permit, also
\* when two sessions write the counter from stale reads.
RetryBudget == \A j \in Jobs : retries[j] <= MaxRetries + permits[j]

\* _mark_retry writes retry_count from a read made before the platform call.
\* For a job that was put up once, the count a session will add one to is
\* still the stored one, whatever workers and requests read meanwhile: no
\* attempt goes uncounted.
NoLostRetry ==
    \A s \in Publishers :
        pc[s] = "publish" /\ permits[cur[s]] = 1 => seen[s].retries = retries[cur[s]]

\* A session that may yet write to the rows of j.
Interested(s, j) ==
    \/ j \in batch[s] /\ pc[s] # "claim"
    \/ cur[s] = j /\ pc[s] \in {"retry", "cancel"}
    \/ cur[s] = j /\ pc[s] = "recover" /\ seen[s].status = "failed"

Closed(j) ==
    /\ status[j] \in Final /\ queue[j] = status[j]
    /\ \A s \in Sessions : ~Interested(s, j)

\* A job that is published, cancelled or expired while no session is at work
\* on it is neither reopened nor posted: retry_publish and cancel_publish
\* refuse it, a stale candidate of a claim is checked again, and a dead letter
\* it left behind is only deleted.
ClosedJobsStayClosed ==
    [][\A j \in Jobs : Closed(j) => Closed(j)' /\ posts'[j] = posts[j]]_vars

\* publishing_service.py:235, "Only failed/retry jobs can be retried", and
\* :285, "Job cannot be cancelled", raised for a published, cancelled or
\* expired job: a request that goes through finds the job in such a status.
RequestsRespectStatus ==
    [][\A c \in Clients :
          /\ CommitRetry(c) => status[cur[c]] \in {"failed", "retry"}
          /\ CommitCancel(c) => status[cur[c]] \notin Final]_vars

\* The engine keeps the ledger's promise: a job is posted at most once for
\* every time the code put it up for a post.
Ledger == INSTANCE PublishLedger
PostsWithinPermits == Ledger!Spec

Settled(j) == queue[j] \in Final \cup {"failed"}

\* A job accepted by the API reaches a final status or the dead letters, as
\* long as no fault strikes: backoff ends, claims are worked off, retries run
\* out, and an entry of the batch that raises takes no other entry with it.  A
\* job whose expires_at cannot be compared with the clock is that entry.
EveryJobSettles ==
    \A j \in Jobs : status[j] # "none" /\ ExpiryReadable(j) ~> Settled(j)

\* README.md:530, "Idempotency key enforcement to prevent duplicate
\* publishing": one key, one job, at most one post.
NoDuplicatePublishing == \A j \in Jobs : posts[j] <= 1

\* docs/runbook.md:17-25, "Incident: queue stuck ... Restart workers": a
\* claimed row leaves "publishing" although a worker was killed and restarted.
RestartFreesQueue ==
    \A j \in Jobs : queue[j] = "publishing" ~> queue[j] # "publishing"

\* README.md:531-533, "Scheduler controls: ... Scheduled publish": a
\* scheduled job reaches a final status or the dead letters.
ScheduledJobSettles ==
    \A j \in Jobs : status[j] = "scheduled" ~> Settled(j)

=============================================================================
