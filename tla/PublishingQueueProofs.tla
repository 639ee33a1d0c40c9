----------------------- MODULE PublishingQueueProofs -----------------------
(***************************************************************************)
(* Theorems about the publishing engine, for any number of jobs, workers,  *)
(* requests and recovery passes and any value of the bounds.  The number   *)
(* of workers and of requests is finite: the proofs count sessions.        *)
(*                                                                         *)
(*   1. The state is well typed.                                           *)
(*   2. The engine implements PublishLedger.                               *)
(*   3. What its sessions write to different tables agrees.                *)
(***************************************************************************)
EXTENDS PublishingQueue, FiniteSetTheorems, TLAPS

-----------------------------------------------------------------------------
(* What the helpers leave behind, whatever the action they are part of. *)

\* WriteStatus writes a status into both rows, or leaves what is stored.
LEMMA WriteStatusTypes ==
    ASSUME TypeOK, NEW s \in Sessions,
           NEW new \in JobStatus, WriteStatus(s, new)
    PROVE  /\ status' \in [Jobs -> JobStatus]
           /\ queue'  \in [Jobs -> QueueStatus]
    BY DEF TypeOK, WriteStatus, Written, QueueStatus

\* A new dead letter and a new history row keep their tables well typed.
LEMMA AddDeadLetterTypes ==
    ASSUME TypeOK, NEW s \in Sessions, AddDeadLetter(s)
    PROVE  letters' \in [Jobs -> SUBSET Nat]
<1>1. letters \in [Jobs -> SUBSET Nat]
  BY DEF TypeOK
<1>2. PICK l \in {1} \cup {m + 1 : m \in UNION {letters[j] : j \in Jobs}} :
        letters' = [letters EXCEPT ![cur[s]] = @ \cup {l}]
  BY DEF AddDeadLetter
<1>3. l \in Nat
  BY <1>1, <1>2
<1>4. QED
  BY <1>1, <1>2, <1>3

LEMMA CounterTypes ==
    ASSUME NEW n \in [Jobs -> Nat], NEW k
    PROVE  [n EXCEPT ![k] = @ + 1] \in [Jobs -> Nat]
<1>1. CASE k \in Jobs
  <2>1. n[k] + 1 \in Nat
    BY <1>1
  <2>2. QED
    BY <1>1, <2>1
<1>2. CASE k \notin Jobs
  BY <1>2
<1>3. QED
  BY <1>1, <1>2

LEMMA NoSeenTypes == NoSeen \in Seen
    BY DEF NoSeen, Seen, JobStatus

\* FinishJob keeps the session variables well typed.
LEMMA FinishJobTypes ==
    ASSUME TypeOK, NEW s \in Sessions, NEW j, NEW f \in Nat, FinishJob(s, j, f)
    PROVE  /\ pc'       \in [Sessions -> {"idle", "claim", "next", "expire", "publish", "save",
                                          "retry", "cancel", "recover"}]
           /\ batch'    \in [Sessions -> SUBSET Jobs]
           /\ cur'      \in [Sessions -> Jobs \cup {NoJob}]
           /\ seen'     \in [Sessions -> Seen]
           /\ held'     \in [Sessions -> [Jobs -> SUBSET Nat]]
           /\ failures' \in [Sessions -> Nat]
<1>1. batch' \in [Sessions -> SUBSET Jobs]
  BY DEF TypeOK, FinishJob, Rest
<1>2. seen' \in [Sessions -> Seen]
  BY NoSeenTypes DEF TypeOK, FinishJob
<1>3. QED
  BY <1>1, <1>2 DEF TypeOK, FinishJob

\* So does Restart.
LEMMA RestartTypes ==
    ASSUME TypeOK, NEW s \in Sessions, Restart(s)
    PROVE  /\ pc'       \in [Sessions -> {"idle", "claim", "next", "expire", "publish", "save",
                                          "retry", "cancel", "recover"}]
           /\ batch'    \in [Sessions -> SUBSET Jobs]
           /\ cur'      \in [Sessions -> Jobs \cup {NoJob}]
           /\ seen'     \in [Sessions -> Seen]
           /\ held'     \in [Sessions -> [Jobs -> SUBSET Nat]]
           /\ failures' \in [Sessions -> Nat]
<1>1. seen' \in [Sessions -> Seen]
  BY NoSeenTypes DEF TypeOK, Restart
<1>2. Nothing \in [Jobs -> SUBSET Nat]
  BY DEF Nothing
<1>3. held' \in [Sessions -> [Jobs -> SUBSET Nat]]
  BY <1>2 DEF TypeOK, Restart
<1>4. QED
  BY <1>1, <1>3 DEF TypeOK, Restart

-----------------------------------------------------------------------------
(* Type correctness *)

LEMMA InitTypes == Init => TypeOK
<1> SUFFICES ASSUME Init PROVE TypeOK
  OBVIOUS
<1>1. Nothing \in [Jobs -> SUBSET Nat]
  BY DEF Nothing
<1>2. QED
  BY <1>1, NoSeenTypes DEF Init, TypeOK, JobStatus, QueueStatus

\* _mark_retry, by whichever of its callers.
LEMMA MarkRetryTypes ==
    ASSUME TypeOK, NEW s \in Publishers, NEW f \in Nat, MarkRetry(s, f),
           faults' \in Nat, requests' \in Nat
    PROVE  TypeOK'
<1>s. s \in Sessions
  BY DEF Sessions
<1>1. RetryCount(s) \in Nat
  BY <1>s DEF TypeOK, RetryCount, Seen
<1>2. retries' \in [Jobs -> Nat]
  BY <1>1 DEF TypeOK, MarkRetry
<1>3. PICK new \in {"failed", "retry"} : WriteStatus(s, new)
  BY DEF MarkRetry
<1>4. new \in JobStatus
  BY <1>3 DEF JobStatus, Claimable
<1>5. status' \in [Jobs -> JobStatus] /\ queue' \in [Jobs -> QueueStatus]
  BY <1>s, <1>3, <1>4, WriteStatusTypes
<1>6. letters' \in [Jobs -> SUBSET Nat]
  BY <1>s, AddDeadLetterTypes DEF TypeOK, MarkRetry
<1>7. visible' \in [Jobs -> BOOLEAN]
  BY DEF TypeOK, MarkRetry
<1>8. FinishJob(s, cur[s], f)
  BY DEF MarkRetry
<1>9. QED
  BY <1>s, <1>2, <1>5, <1>6, <1>7, <1>8, FinishJobTypes
  DEF TypeOK, MarkRetry, platform

LEMMA ProcessJobTypes ==
    ASSUME TypeOK, QueueAssumption, NEW s \in Publishers, ProcessJob(s)
    PROVE  TypeOK'
<1>s. s \in Sessions /\ failures[s] \in Nat /\ faults \in Nat /\ requests \in Nat
  BY DEF Sessions, TypeOK
<1>1. ASSUME NEW j \in Jobs, LoadJob(s, j) PROVE TypeOK'
  <2>1. seen' \in [Sessions -> Seen]
    BY <1>s, <1>1 DEF TypeOK, LoadJob, Seen
  <2>2. QED
    BY <2>1, <1>s, <1>1 DEF TypeOK, LoadJob, rows, platform, budgets
<1>2. ASSUME NEW j \in Jobs, LoadRaises(s, j) PROVE TypeOK'
  BY <1>s, <1>2, FinishJobTypes DEF TypeOK, LoadRaises, rows, platform, budgets
<1>3. CASE ExpireJob(s)
  <2>1. "expired" \in JobStatus
    BY DEF JobStatus, Final
  <2>2. status' \in [Jobs -> JobStatus] /\ queue' \in [Jobs -> QueueStatus]
    BY <2>1, <1>s, <1>3, WriteStatusTypes DEF ExpireJob
  <2>3. QED
    BY <2>2, <1>s, <1>3, FinishJobTypes DEF TypeOK, ExpireJob, platform, budgets
<1>4. CASE MarkFailure(s)
  <2>1. "failed" \in JobStatus
    BY DEF JobStatus
  <2>2. status' \in [Jobs -> JobStatus] /\ queue' \in [Jobs -> QueueStatus]
    BY <2>1, <1>s, <1>4, WriteStatusTypes DEF MarkFailure
  <2>3. letters' \in [Jobs -> SUBSET Nat]
    BY <1>s, <1>4, AddDeadLetterTypes DEF MarkFailure
  <2>4. QED
    BY <2>2, <2>3, <1>s, <1>4, FinishJobTypes DEF TypeOK, MarkFailure, platform, budgets
<1>5. CASE CircuitOpen(s)
  BY <1>s, <1>5, MarkRetryTypes DEF CircuitOpen, budgets
<1>6. CASE ProviderRefuses(s)
  <2>1. faults' \in Nat /\ requests' \in Nat
    BY <1>s, <1>6 DEF ProviderRefuses, Fault, budgets
  <2>2. \E f \in Nat : MarkRetry(s, f)
    BY <1>s, <1>6 DEF ProviderRefuses
  <2>3. QED
    BY <2>1, <2>2, MarkRetryTypes
<1>7. CASE ProviderAccepts(s)
  <2>1. posts' \in [Jobs -> Nat]
    BY <1>7, CounterTypes DEF TypeOK, ProviderAccepts
  <2>2. pc' \in [Sessions -> {"idle", "claim", "next", "expire", "publish", "save",
                               "retry", "cancel", "recover"}]
    BY <1>7 DEF TypeOK, ProviderAccepts
  <2>3. QED
    BY <2>1, <2>2, <1>7 DEF TypeOK, ProviderAccepts, rows, budgets
<1>8. CASE SavePublished(s)
  <2>1. "published" \in JobStatus
    BY DEF JobStatus, Final
  <2>2. status' \in [Jobs -> JobStatus] /\ queue' \in [Jobs -> QueueStatus]
    BY <2>1, <1>s, <1>8, WriteStatusTypes DEF SavePublished
  <2>3. history' \in [Jobs -> Nat]
    BY <1>8, CounterTypes DEF TypeOK, SavePublished, CreateHistory
  <2>4. faults' \in Nat /\ requests' \in Nat
    BY <1>s, <1>8 DEF SavePublished, Fault, budgets
  <2>5. \E f \in Nat : FinishJob(s, cur[s], f)
    BY <1>s, <1>8 DEF SavePublished
  <2>6. QED
    BY <2>2, <2>3, <2>4, <2>5, <1>s, <1>8, FinishJobTypes DEF TypeOK, SavePublished, platform
<1>9. CASE ProcessingRaises(s)
  BY <1>s, <1>9, FinishJobTypes
  DEF TypeOK, ProcessingRaises, Fault, rows, platform
<1>10. QED
  BY <1>1, <1>2, <1>3, <1>4, <1>5, <1>6, <1>7, <1>8, <1>9 DEF ProcessJob

LEMMA WorkerTypes ==
    ASSUME TypeOK, QueueAssumption, NEW w \in Workers, WorkerStep(w)
    PROVE  TypeOK'
<1>s. w \in Publishers /\ w \in Sessions
  BY DEF Publishers, Sessions
<1>1. CASE SelectCandidates(w)
  <2>1. batch' \in [Sessions -> SUBSET Jobs]
    BY <1>1 DEF TypeOK, SelectCandidates, Due
  <2>2. QED
    BY <2>1, <1>s, <1>1 DEF TypeOK, SelectCandidates, rows, platform, budgets
<1>2. CASE ClaimCandidates(w)
  <2>1. queue' \in [Jobs -> QueueStatus]
    BY <1>2 DEF TypeOK, ClaimCandidates, QueueStatus
  <2>2. batch' \in [Sessions -> SUBSET Jobs]
    BY <1>s, <1>2 DEF TypeOK, ClaimCandidates
  <2>3. QED
    BY <2>1, <2>2, <1>s, <1>2 DEF TypeOK, ClaimCandidates, platform, budgets
<1>3. CASE ProcessJob(w)
  BY <1>s, <1>3, ProcessJobTypes
<1>4. QED
  BY <1>1, <1>2, <1>3 DEF WorkerStep

LEMMA RequestTypes ==
    ASSUME TypeOK, NEW c \in Sessions, NEW j \in Jobs,
           NEW step \in {"retry", "cancel"}, ReadForRequest(c, j, step)
    PROVE  TypeOK'
<1>1. seen' \in [Sessions -> Seen]
  BY NoSeenTypes DEF TypeOK, ReadForRequest, Seen, NoSeen
<1>2. requests' \in Nat /\ faults' \in Nat
  BY DEF TypeOK, ReadForRequest, Request
<1>3. QED
  BY <1>1, <1>2 DEF TypeOK, ReadForRequest, rows, platform

LEMMA ClientTypes ==
    ASSUME TypeOK, QueueAssumption, NEW c \in Clients, NewRequest(c) \/ ClientStep(c)
    PROVE  TypeOK'
<1>s. c \in Publishers /\ c \in Sessions
  BY DEF Publishers, Sessions
<1>t. /\ {"scheduled", "pending", "retry", "cancelled"} \subseteq JobStatus
      /\ {"scheduled", "pending"} \subseteq QueueStatus
  BY DEF JobStatus, QueueStatus, Claimable, Final
<1>1. ASSUME NEW j \in Jobs, SchedulePublish(c, j) PROVE TypeOK'
  <2>1. permits' \in [Jobs -> Nat]
    BY <1>1, CounterTypes DEF TypeOK, SchedulePublish
  <2>2. QED
    BY <2>1, <1>t, <1>1 DEF TypeOK, SchedulePublish, sessions, budgets
<1>2. ASSUME NEW j \in Jobs, PublishNow(c, j) PROVE TypeOK'
  <2>1. permits' \in [Jobs -> Nat]
    <3>1. permits[j] + 2 \in Nat
      BY DEF TypeOK
    <3>2. QED
      BY <3>1, <1>2 DEF TypeOK, PublishNow
  <2>2. batch' \in [Sessions -> SUBSET Jobs]
    BY <1>2 DEF TypeOK, PublishNow
  <2>3. QED
    BY <2>1, <2>2, <1>t, <1>s, <1>2 DEF TypeOK, PublishNow, budgets
<1>3. ASSUME NEW j \in Jobs, RequestRetry(c, j) \/ RequestCancel(c, j) PROVE TypeOK'
  BY <1>s, <1>3, RequestTypes DEF RequestRetry, RequestCancel
<1>4. CASE CommitRetry(c)
  <2>1. status' \in [Jobs -> JobStatus] /\ queue' \in [Jobs -> QueueStatus]
    BY <1>s, <1>t, <1>4, WriteStatusTypes DEF CommitRetry
  <2>2. permits' \in [Jobs -> Nat]
    BY <1>4, CounterTypes DEF TypeOK, CommitRetry
  <2>3. QED
    BY <2>1, <2>2, <1>s, <1>4, RestartTypes DEF TypeOK, CommitRetry, budgets
<1>5. CASE CommitCancel(c)
  <2>1. status' \in [Jobs -> JobStatus] /\ queue' \in [Jobs -> QueueStatus]
    BY <1>s, <1>t, <1>5, WriteStatusTypes DEF CommitCancel
  <2>2. QED
    BY <2>1, <1>s, <1>5, RestartTypes DEF TypeOK, CommitCancel, platform, budgets
<1>6. CASE ProcessJob(c)
  BY <1>s, <1>6, ProcessJobTypes
<1>7. QED
  BY <1>1, <1>2, <1>3, <1>4, <1>5, <1>6 DEF NewRequest, ClientStep

LEMMA RecovererTypes ==
    ASSUME TypeOK, NEW r \in Recoverers, ListDeadLetters(r) \/ RecoverDeadLetters(r)
    PROVE  TypeOK'
<1>s. r \in Sessions
  BY DEF Sessions
<1>1. CASE ListDeadLetters(r)
  <2>1. seen' \in [Sessions -> Seen]
    <3>1. PICK j \in Jobs :
            seen' = [seen EXCEPT ![r] = [NoSeen EXCEPT !.status = status[j]]]
      BY <1>1 DEF ListDeadLetters
    <3>2. [NoSeen EXCEPT !.status = status[j]] \in Seen
      BY NoSeenTypes DEF TypeOK, Seen, NoSeen
    <3>3. QED
      BY <3>1, <3>2 DEF TypeOK
  <2>2. requests' \in Nat /\ faults' \in Nat
    BY <1>1 DEF TypeOK, ListDeadLetters, Request
  <2>3. cur' \in [Sessions -> Jobs \cup {NoJob}]
    BY <1>1 DEF TypeOK, ListDeadLetters
  <2>4. QED
    BY <2>1, <2>2, <2>3, <1>1 DEF TypeOK, ListDeadLetters, rows, platform
<1>2. CASE RecoverDeadLetters(r)
  <2>1. "retry" \in JobStatus /\ "retry" \in QueueStatus
    BY DEF JobStatus, QueueStatus, Claimable
  <2>2. status' \in [Jobs -> JobStatus] /\ queue' \in [Jobs -> QueueStatus]
    BY <2>1, <1>2 DEF TypeOK, RecoverDeadLetters
  <2>3. permits' \in [Jobs -> Nat]
    BY <1>2 DEF TypeOK, RecoverDeadLetters
  <2>4. visible' \in [Jobs -> BOOLEAN]
    <3>1. \A j \in Jobs : (j \in Recovered(r) \/ visible[j]) \in BOOLEAN
      OBVIOUS
    <3>2. QED
      BY <3>1, <1>2 DEF RecoverDeadLetters
  <2>5. letters' \in [Jobs -> SUBSET Nat]
    BY <1>2 DEF TypeOK, RecoverDeadLetters
  <2>6. QED
    BY <2>2, <2>3, <2>4, <2>5, <1>s, <1>2, RestartTypes
    DEF TypeOK, RecoverDeadLetters, budgets
<1>3. QED
  BY <1>1, <1>2

LEMMA EnvironmentTypes ==
    /\ \A s \in Sessions : TypeOK /\ Crash(s) => TypeOK'
    /\ \A j \in Jobs : TypeOK /\ (BecomeVisible(j) \/ ExpiryPasses(j)) => TypeOK'
<1>1. ASSUME TypeOK, NEW s \in Sessions, Crash(s) PROVE TypeOK'
  BY <1>1, RestartTypes DEF TypeOK, Crash, Fault, rows, platform
<1>2. ASSUME TypeOK, NEW j \in Jobs, BecomeVisible(j) PROVE TypeOK'
  BY <1>2 DEF TypeOK, BecomeVisible, platform, sessions, budgets
<1>3. ASSUME TypeOK, NEW j \in Jobs, ExpiryPasses(j) PROVE TypeOK'
  BY <1>3 DEF TypeOK, ExpiryPasses, platform, sessions, budgets
<1>4. QED
  BY <1>1, <1>2, <1>3

\* Every step of the engine keeps the rows of the three tables and the state
\* of every session in the ranges the code writes: in particular a queue row
\* is claimed only as "publishing" and a job row never is.
THEOREM TypeCorrect == Spec => []TypeOK
<1>1. Init => TypeOK
  BY InitTypes
<1>2. TypeOK /\ [Next]_vars => TypeOK'
  <2> SUFFICES ASSUME TypeOK, [Next]_vars PROVE TypeOK'
    OBVIOUS
  <2> USE QueueAssumption
  <2>1. ASSUME NEW w \in Workers, WorkerStep(w) PROVE TypeOK'
    BY <2>1, WorkerTypes
  <2>2. ASSUME NEW c \in Clients, NewRequest(c) \/ ClientStep(c) PROVE TypeOK'
    BY <2>2, ClientTypes
  <2>3. ASSUME NEW r \in Recoverers, ListDeadLetters(r) \/ RecoverDeadLetters(r)
        PROVE  TypeOK'
    BY <2>3, RecovererTypes
  <2>4. ASSUME NEW s \in Sessions, Crash(s) PROVE TypeOK'
    BY <2>4, EnvironmentTypes
  <2>5. ASSUME NEW j \in Jobs, BecomeVisible(j) \/ ExpiryPasses(j) PROVE TypeOK'
    BY <2>5, EnvironmentTypes
  <2>6. CASE UNCHANGED vars
    BY <2>6 DEF TypeOK, vars, rows, platform, sessions, budgets
  <2>7. QED
    BY <2>1, <2>2, <2>3, <2>4, <2>5, <2>6 DEF Next
<1>3. QED
  BY <1>1, <1>2, PTL DEF Spec

-----------------------------------------------------------------------------
(***************************************************************************)
(* 2. The publishing engine implements PublishLedger: a job is posted at   *)
(* most once for every time the code put it up for a post.  The argument   *)
(* counts where the permits of a job are: spent on a post, in the hands of *)
(* a session that will still call the platform, or on a queue row that can *)
(* be claimed.                                                             *)
(***************************************************************************)

\* A session between its read of a job and the end of its work on it has that
\* job in its batch.
InBatch ==
    \A s \in Publishers : pc[s] \in {"expire", "publish", "save"} => cur[s] \in batch[s]

Queued(j) == IF queue[j] \in Claimable THEN 1 ELSE 0

\* Every permit of a job is somewhere.
Covered ==
    \A j \in Jobs : posts[j] + Cardinality(Holders(j)) + Queued(j) <= permits[j]

LedgerInv == TypeOK /\ InBatch /\ Covered

\* A step that gives a permit out, or spends or returns one, gives out as many
\* as it adds to permits.
Balanced ==
    \A j \in Jobs :
        posts'[j] + Cardinality(Holders(j)') + Queued(j)' + permits[j]
            <= posts[j] + Cardinality(Holders(j)) + Queued(j) + permits'[j]

-----------------------------------------------------------------------------
(* InBatch is inductive *)

LEMMA ProcessJobInBatch ==
    ASSUME TypeOK, InBatch, NEW s \in Publishers, ProcessJob(s)
    PROVE  InBatch'
<1>s. s \in Sessions /\ Publishers \subseteq Sessions
  BY DEF Sessions
<1>1. ASSUME NEW j, NEW f, FinishJob(s, j, f) PROVE InBatch'
  BY <1>s, <1>1 DEF TypeOK, InBatch, FinishJob
<1>2. ASSUME NEW j \in Jobs, LoadJob(s, j) PROVE InBatch'
  BY <1>s, <1>2 DEF TypeOK, InBatch, LoadJob
<1>3. CASE ProviderAccepts(s)
  BY <1>s, <1>3 DEF TypeOK, InBatch, ProviderAccepts
<1>4. QED
  BY <1>1, <1>2, <1>3
  DEF ProcessJob, LoadRaises, ExpireJob, MarkFailure, CircuitOpen, ProviderRefuses,
      MarkRetry, SavePublished, ProcessingRaises

LEMMA RestartInBatch ==
    ASSUME TypeOK, InBatch, NEW s \in Sessions, Restart(s)
    PROVE  InBatch'
    BY DEF TypeOK, InBatch, Restart, Sessions

LEMMA NextInBatch == TypeOK /\ InBatch /\ [Next]_vars => InBatch'
<1> SUFFICES ASSUME TypeOK, InBatch, [Next]_vars PROVE InBatch'
  OBVIOUS
<1>s. Publishers \subseteq Sessions /\ Workers \subseteq Publishers /\ Clients \subseteq Publishers
  BY DEF Sessions, Publishers
<1>1. ASSUME NEW w \in Workers, WorkerStep(w) PROVE InBatch'
  <2>1. CASE SelectCandidates(w)
    BY <1>s, <2>1 DEF TypeOK, InBatch, SelectCandidates
  <2>2. CASE ClaimCandidates(w)
    BY <1>s, <2>2 DEF TypeOK, InBatch, ClaimCandidates
  <2>3. QED
    BY <1>s, <1>1, <2>1, <2>2, ProcessJobInBatch DEF WorkerStep
<1>2. ASSUME NEW c \in Clients, NewRequest(c) \/ ClientStep(c) PROVE InBatch'
  <2>1. ASSUME NEW j \in Jobs, SchedulePublish(c, j) PROVE InBatch'
    BY <2>1 DEF InBatch, SchedulePublish, sessions
  <2>2. ASSUME NEW j \in Jobs, PublishNow(c, j) PROVE InBatch'
    BY <1>s, <2>2 DEF TypeOK, InBatch, PublishNow
  <2>3. ASSUME NEW j \in Jobs, NEW step \in {"retry", "cancel"}, ReadForRequest(c, j, step)
        PROVE  InBatch'
    BY <1>s, <2>3 DEF TypeOK, InBatch, ReadForRequest
  <2>4. CASE CommitRetry(c) \/ CommitCancel(c)
    BY <1>s, <2>4, RestartInBatch DEF CommitRetry, CommitCancel
  <2>5. QED
    BY <1>s, <1>2, <2>1, <2>2, <2>3, <2>4, ProcessJobInBatch
    DEF NewRequest, ClientStep, RequestRetry, RequestCancel
<1>3. ASSUME NEW r \in Recoverers, ListDeadLetters(r) \/ RecoverDeadLetters(r)
      PROVE  InBatch'
  <2>s. r \in Sessions /\ r \notin Publishers
    BY QueueAssumption DEF Sessions, Publishers, QueueAssumption
  <2>1. CASE ListDeadLetters(r)
    BY <1>s, <2>s, <2>1 DEF TypeOK, InBatch, ListDeadLetters
  <2>2. QED
    BY <2>s, <1>3, <2>1, RestartInBatch DEF RecoverDeadLetters
<1>4. ASSUME NEW s \in Sessions, Crash(s) PROVE InBatch'
  BY <1>4, RestartInBatch DEF Crash
<1>5. ASSUME NEW j \in Jobs, BecomeVisible(j) \/ ExpiryPasses(j) PROVE InBatch'
  BY <1>5 DEF InBatch, BecomeVisible, ExpiryPasses, sessions
<1>6. CASE UNCHANGED vars
  BY <1>6 DEF InBatch, vars, sessions
<1>7. QED
  BY <1>1, <1>2, <1>3, <1>4, <1>5, <1>6 DEF Next

-----------------------------------------------------------------------------
(* Counting sessions *)

LEMMA SessionCount ==
    ASSUME NEW S \in SUBSET Publishers, NEW s \in Publishers
    PROVE  /\ Cardinality(S) \in Nat
           /\ Cardinality(S \cup {s}) = IF s \in S THEN Cardinality(S) ELSE Cardinality(S) + 1
           /\ Cardinality(S \ {s})    = IF s \in S THEN Cardinality(S) - 1 ELSE Cardinality(S)
           /\ s \in S => Cardinality(S) >= 1
<1>1. IsFiniteSet(Publishers)
  BY QueueAssumption, FS_Union DEF QueueAssumption, Publishers
<1>2. IsFiniteSet(S) /\ IsFiniteSet(S \ {s})
  BY <1>1, FS_Subset
<1>3. Cardinality(S) \in Nat /\ Cardinality(S \ {s}) \in Nat
  BY <1>2, FS_CardinalityType
<1>4. Cardinality(S \cup {s}) = IF s \in S THEN Cardinality(S) ELSE Cardinality(S) + 1
  BY <1>2, FS_AddElement, Zenon
<1>5. Cardinality(S \ {s}) = IF s \in S THEN Cardinality(S) - 1 ELSE Cardinality(S)
  BY <1>2, FS_RemoveElement, Zenon
<1>6. s \in S => Cardinality(S) >= 1
  BY <1>3, <1>5
<1>7. QED
  BY <1>3, <1>4, <1>5, <1>6

LEMMA SessionSubset ==
    ASSUME NEW S \in SUBSET Publishers, NEW T \in SUBSET S
    PROVE  /\ Cardinality(S) \in Nat /\ Cardinality(T) \in Nat
           /\ Cardinality(T) <= Cardinality(S)
<1>1. IsFiniteSet(Publishers)
  BY QueueAssumption, FS_Union DEF QueueAssumption, Publishers
<1>2. IsFiniteSet(S) /\ IsFiniteSet(T)
  BY <1>1, FS_Subset
<1>3. QED
  BY <1>2, FS_Subset, FS_CardinalityType

LEMMA HoldersArePublishers == \A j : Holders(j) \in SUBSET Publishers /\ Savers(j) \in SUBSET Publishers
    BY DEF Holders, Savers

LEMMA HolderCount ==
    ASSUME NEW j, NEW s \in Publishers
    PROVE  /\ Cardinality(Holders(j)) \in Nat
           /\ s \in Holders(j) => /\ Cardinality(Holders(j)) >= 1
                                  /\ Cardinality(Holders(j) \ {s}) = Cardinality(Holders(j)) - 1
<1>1. Holders(j) \in SUBSET Publishers
  BY HoldersArePublishers
<1>2. QED
  BY <1>1, SessionCount, Zenon

\* A session that is done with k holds its permit no longer, and no other.
LEMMA FinishHolders ==
    ASSUME TypeOK, NEW s \in Publishers, NEW k \in Jobs, NEW f, FinishJob(s, k, f),
           pc[s] \in {"next", "expire", "publish", "save"},
           pc[s] # "next" => cur[s] = k
    PROVE  \A j \in Jobs : Holders(j)' = IF j = k THEN Holders(j) \ {s} ELSE Holders(j)
<1>s. s \in Sessions /\ Publishers \subseteq Sessions
  BY DEF Sessions
<1>1. /\ batch'[s] = batch[s] \ {k}
      /\ pc'[s] \in {"idle", "next"}
  BY <1>s DEF TypeOK, FinishJob, Rest
<1>2. \A t \in Publishers : t # s => batch'[t] = batch[t] /\ pc'[t] = pc[t] /\ cur'[t] = cur[t]
  BY <1>s DEF TypeOK, FinishJob
<1>3. ASSUME NEW j \in Jobs, NEW t \in Publishers
      PROVE  t \in Holders(j)' <=> t \in Holders(j) /\ ~(j = k /\ t = s)
  BY <1>1, <1>2 DEF Holders
<1>4. QED
  BY <1>3, HoldersArePublishers DEF Holders

\* A session that starts again holds nothing.
LEMMA RestartHolders ==
    ASSUME TypeOK, NEW s \in Sessions, Restart(s)
    PROVE  \A j \in Jobs : Holders(j)' \subseteq Holders(j)
    BY DEF TypeOK, Restart, Holders, Sessions

\* A step that makes no post keeps the permits in balance if no session takes a
\* job in hand and a row becomes claimable only against a new permit.
LEMMA NothingTaken ==
    ASSUME TypeOK, TypeOK', posts' = posts,
           \A j \in Jobs : Holders(j)' \subseteq Holders(j),
           \A j \in Jobs : Queued(j)' + permits[j] <= Queued(j) + permits'[j]
    PROVE  Balanced
<1> SUFFICES ASSUME NEW j \in Jobs
             PROVE  posts'[j] + Cardinality(Holders(j)') + Queued(j)' + permits[j]
                      <= posts[j] + Cardinality(Holders(j)) + Queued(j) + permits'[j]
  BY DEF Balanced
<1>1. /\ Cardinality(Holders(j)) \in Nat /\ Cardinality(Holders(j)') \in Nat
      /\ Cardinality(Holders(j)') <= Cardinality(Holders(j))
  BY HoldersArePublishers, SessionSubset
<1>2. posts[j] \in Nat /\ permits[j] \in Nat /\ permits'[j] \in Nat
  BY DEF TypeOK
<1>3. Queued(j) \in Nat /\ Queued(j)' \in Nat
  BY DEF Queued
<1>4. QED
  BY <1>1, <1>2, <1>3

\* Writing a status that cannot be claimed, or one that was there, queues
\* nothing.
LEMMA WriteQueued ==
    ASSUME TypeOK, NEW s \in Sessions, NEW new, WriteStatus(s, new)
    PROVE  \A j \in Jobs : /\ j # cur[s] \/ new \notin Claimable => Queued(j)' <= Queued(j)
                           /\ Queued(j)' <= Queued(j) + 1
<1>1. \A j \in Jobs : queue'[j] = queue[j] \/ (j = cur[s] /\ queue'[j] = new)
  BY DEF TypeOK, WriteStatus, Written
<1>2. QED
  BY <1>1 DEF Queued

-----------------------------------------------------------------------------
(* No step unbalances the permits.  TypeOK' comes from the first part. *)

\* _mark_retry: the permit in hand goes back to the queue row.
LEMMA MarkRetryBalanced ==
    ASSUME TypeOK, TypeOK', InBatch, NEW s \in Publishers, NEW f, MarkRetry(s, f)
    PROVE  Balanced
<1> SUFFICES ASSUME NEW j \in Jobs
             PROVE  posts'[j] + Cardinality(Holders(j)') + Queued(j)' + permits[j]
                      <= posts[j] + Cardinality(Holders(j)) + Queued(j) + permits'[j]
  BY DEF Balanced
<1>s. s \in Sessions /\ pc[s] = "publish" /\ cur[s] \in batch[s] /\ cur[s] \in Jobs
  BY DEF Sessions, InBatch, MarkRetry, TypeOK
<1>1. posts' = posts /\ permits' = permits
  BY DEF MarkRetry, platform
<1>2. Holders(j)' = IF j = cur[s] THEN Holders(j) \ {s} ELSE Holders(j)
  BY <1>s, FinishHolders DEF MarkRetry
<1>3. Queued(j)' <= IF j = cur[s] THEN Queued(j) + 1 ELSE Queued(j)
  <2>1. PICK new : WriteStatus(s, new)
    BY DEF MarkRetry
  <2>2. QED
    BY <2>1, <1>s, WriteQueued
<1>4. posts[j] \in Nat /\ permits[j] \in Nat /\ Queued(j) \in Nat /\ Queued(j)' \in Nat
  BY DEF TypeOK, Queued
<1>6. CASE j = cur[s]
  <2>1. s \in Holders(j)
    BY <1>s, <1>6 DEF Holders
  <2>2. /\ Cardinality(Holders(j)) \in Nat
        /\ Cardinality(Holders(j)') = Cardinality(Holders(j)) - 1
    BY <2>1, <1>2, <1>6, HolderCount
  <2>3. QED
    BY <2>2, <1>1, <1>3, <1>4, <1>6
<1>7. CASE j # cur[s]
  <2>1. Cardinality(Holders(j)) \in Nat
    BY HoldersArePublishers, SessionSubset
  <2>2. QED
    BY <2>1, <1>1, <1>2, <1>3, <1>4, <1>7
<1>8. QED
  BY <1>6, <1>7

\* The call to the platform spends the permit in hand.
LEMMA AcceptBalanced ==
    ASSUME TypeOK, InBatch, Covered, NEW s \in Publishers, ProviderAccepts(s)
    PROVE  /\ Balanced
           /\ cur[s] \in Jobs /\ posts[cur[s]] < permits[cur[s]]
<1>s. s \in Sessions /\ cur[s] \in batch[s] /\ cur[s] \in Jobs
  BY DEF Sessions, InBatch, ProviderAccepts, TypeOK
<1>1. \A j \in Jobs : Holders(j)' = IF j = cur[s] THEN Holders(j) \ {s} ELSE Holders(j)
  BY <1>s DEF TypeOK, ProviderAccepts, Holders, Sessions
<1>2. s \in Holders(cur[s])
  BY <1>s DEF Holders, ProviderAccepts
<1>3. \A j \in Jobs : /\ Cardinality(Holders(j)) \in Nat
                      /\ s \in Holders(j) => /\ Cardinality(Holders(j)) >= 1
                                             /\ Cardinality(Holders(j) \ {s}) = Cardinality(Holders(j)) - 1
  BY HolderCount
<1>4. \A j \in Jobs : /\ posts[j] \in Nat /\ permits[j] \in Nat
                      /\ Queued(j) \in Nat /\ Queued(j)' = Queued(j)
  BY DEF TypeOK, Queued, ProviderAccepts, rows
<1>5. \A j \in Jobs : posts[j] + Cardinality(Holders(j)) + Queued(j) <= permits[j]
  BY DEF Covered
<1>6. posts[cur[s]] < permits[cur[s]]
  <2> DEFINE k == cur[s]
             H == Cardinality(Holders(k))
             Q == Queued(k)
  <2>1. H \in Nat /\ H >= 1
    BY <1>s, <1>2, <1>3
  <2>2. /\ posts[k] \in Nat /\ permits[k] \in Nat /\ Q \in Nat
        /\ posts[k] + H + Q <= permits[k]
    BY <1>s, <1>4, <1>5
  <2> HIDE DEF H, Q
  <2>3. posts[k] < permits[k]
    BY <2>1, <2>2
  <2>4. QED
    BY <2>3
<1>7. \A j \in Jobs : posts'[j] = IF j = cur[s] THEN posts[j] + 1 ELSE posts[j]
  BY DEF TypeOK, ProviderAccepts
<1>8. permits' = permits
  BY DEF ProviderAccepts
<1>9. ASSUME NEW j \in Jobs
      PROVE  posts'[j] + Cardinality(Holders(j)') + Queued(j)' + permits[j]
               <= posts[j] + Cardinality(Holders(j)) + Queued(j) + permits'[j]
  <2>1. CASE j = cur[s]
    BY <2>1, <1>1, <1>2, <1>3, <1>4, <1>7, <1>8
  <2>2. CASE j # cur[s]
    <3>1. /\ Cardinality(Holders(j)') = Cardinality(Holders(j)) /\ Queued(j)' = Queued(j)
          /\ posts'[j] = posts[j] /\ permits'[j] = permits[j]
      BY <2>2, <1>1, <1>4, <1>7, <1>8
    <3>2. /\ posts[j] \in Nat /\ permits[j] \in Nat /\ Queued(j) \in Nat
          /\ Cardinality(Holders(j)) \in Nat
      BY <1>3, <1>4
    <3>3. QED
      BY <3>1, <3>2
  <2>3. QED
    BY <2>1, <2>2
<1>10. QED
  BY <1>s, <1>6, <1>9 DEF Balanced

LEMMA ProcessJobBalanced ==
    ASSUME TypeOK, TypeOK', InBatch, Covered, NEW s \in Publishers, ProcessJob(s)
    PROVE  Balanced
<1>s. s \in Sessions
  BY DEF Sessions
<1>t. \A j \in Jobs : permits[j] \in Nat /\ Queued(j) \in Nat
  BY DEF TypeOK, Queued
<1>w. pc[s] \in {"expire", "publish", "save"} => cur[s] \in Jobs
  BY <1>s DEF InBatch, TypeOK
<1>1. ASSUME NEW j \in Jobs, LoadJob(s, j) PROVE Balanced
  <2>1. \A k \in Jobs : Holders(k)' \subseteq Holders(k)
    BY <1>s, <1>1 DEF TypeOK, LoadJob, Holders, Sessions
  <2>2. posts' = posts /\ permits' = permits /\ \A k \in Jobs : Queued(k)' = Queued(k)
    BY <1>1 DEF LoadJob, rows, platform, Queued
  <2>3. QED
    BY <2>1, <2>2, <1>t, NothingTaken
<1>2. ASSUME NEW j \in Jobs, LoadRaises(s, j) PROVE Balanced
  <2>1. \A k \in Jobs : Holders(k)' \subseteq Holders(k)
    BY <1>2, FinishHolders DEF LoadRaises
  <2>2. posts' = posts /\ permits' = permits /\ \A k \in Jobs : Queued(k)' = Queued(k)
    BY <1>2 DEF LoadRaises, rows, platform, Queued
  <2>3. QED
    BY <2>1, <2>2, <1>t, NothingTaken
<1>3. ASSUME NEW new, new \notin Claimable, WriteStatus(s, new),
             NEW f, FinishJob(s, cur[s], f), pc[s] \in {"expire", "publish", "save"},
             UNCHANGED platform
      PROVE  Balanced
  <2>1. \A k \in Jobs : Holders(k)' \subseteq Holders(k)
    BY <1>w, <1>3, FinishHolders
  <2>2. \A k \in Jobs : Queued(k)' <= Queued(k)
    BY <1>s, <1>3, WriteQueued
  <2>3. posts' = posts /\ permits' = permits /\ \A k \in Jobs : Queued(k)' \in Nat
    BY <1>3 DEF platform, Queued
  <2>4. QED
    BY <2>1, <2>2, <2>3, <1>t, NothingTaken
<1>4. CASE ExpireJob(s) \/ MarkFailure(s) \/ SavePublished(s)
  BY <1>3, <1>4 DEF ExpireJob, MarkFailure, SavePublished, Claimable
<1>5. CASE CircuitOpen(s) \/ ProviderRefuses(s)
  BY <1>5, MarkRetryBalanced DEF CircuitOpen, ProviderRefuses
<1>6. CASE ProviderAccepts(s)
  BY <1>6, AcceptBalanced
<1>7. CASE ProcessingRaises(s)
  <2>1. \A k \in Jobs : Holders(k)' \subseteq Holders(k)
    BY <1>w, <1>7, FinishHolders DEF ProcessingRaises
  <2>2. posts' = posts /\ permits' = permits /\ \A k \in Jobs : Queued(k)' = Queued(k)
    BY <1>7 DEF ProcessingRaises, rows, platform, Queued
  <2>3. QED
    BY <2>1, <2>2, <1>t, NothingTaken
<1>8. QED
  BY <1>1, <1>2, <1>4, <1>5, <1>6, <1>7 DEF ProcessJob

\* The conditional update of claim_due_queue_jobs moves the permit from the
\* queue row to the worker, for each row it finds still claimable.
LEMMA ClaimBalanced ==
    ASSUME TypeOK, NEW w \in Workers, ClaimCandidates(w)
    PROVE  Balanced
<1> SUFFICES ASSUME NEW j \in Jobs
             PROVE  posts'[j] + Cardinality(Holders(j)') + Queued(j)' + permits[j]
                      <= posts[j] + Cardinality(Holders(j)) + Queued(j) + permits'[j]
  BY DEF Balanced
<1> DEFINE claimed == {k \in batch[w] : StillClaimable(k)}
<1>s. w \in Publishers /\ w \in Sessions /\ claimed \subseteq Jobs
  BY DEF Publishers, Sessions, TypeOK
<1>1. /\ posts' = posts /\ permits' = permits
      /\ posts[j] \in Nat /\ permits[j] \in Nat /\ Queued(j) \in Nat /\ Queued(j)' \in Nat
  BY DEF TypeOK, ClaimCandidates, platform, Queued
<1>2. w \notin Holders(j)
  BY DEF Holders, ClaimCandidates
<1>3. Holders(j)' = IF j \in claimed THEN Holders(j) \cup {w} ELSE Holders(j)
  <2>1. /\ batch'[w] = claimed
        /\ pc'[w] = IF claimed = {} THEN "idle" ELSE "next"
    BY <1>s DEF TypeOK, ClaimCandidates
  <2>2. \A t \in Publishers : t # w => batch'[t] = batch[t] /\ pc'[t] = pc[t] /\ cur'[t] = cur[t]
    BY DEF TypeOK, ClaimCandidates, Sessions
  <2>3. ASSUME NEW t \in Publishers
        PROVE  t \in Holders(j)' <=> t \in Holders(j) \/ (t = w /\ j \in claimed)
    BY <1>2, <2>1, <2>2 DEF Holders
  <2>4. QED
    BY <1>s, <2>3, HoldersArePublishers DEF Holders
<1>4. Queued(j)' = IF j \in claimed THEN Queued(j) - 1 ELSE Queued(j)
  <2>1. queue'[j] = IF j \in claimed THEN "publishing" ELSE queue[j]
    BY DEF ClaimCandidates
  <2>2. j \in claimed => queue[j] \in Claimable
    BY DEF StillClaimable
  <2>3. QED
    BY <2>1, <2>2 DEF Queued, Claimable
<1> HIDE DEF claimed
<1>5. /\ Cardinality(Holders(j)) \in Nat
      /\ Cardinality(Holders(j) \cup {w}) = Cardinality(Holders(j)) + 1
  <2>1. Holders(j) \in SUBSET Publishers
    BY HoldersArePublishers
  <2>2. QED
    BY <1>s, <1>2, <2>1, SessionCount, Zenon
<1>6. CASE j \in claimed
  BY <1>1, <1>3, <1>4, <1>5, <1>6
<1>7. CASE j \notin claimed
  BY <1>1, <1>3, <1>4, <1>5, <1>7
<1>8. QED
  BY <1>6, <1>7

\* publish_now commits a claimable row and keeps the job in hand: two permits.
LEMMA PublishNowBalanced ==
    ASSUME TypeOK, NEW c \in Clients, NEW j \in Jobs, PublishNow(c, j)
    PROVE  Balanced
<1> SUFFICES ASSUME NEW k \in Jobs
             PROVE  posts'[k] + Cardinality(Holders(k)') + Queued(k)' + permits[k]
                      <= posts[k] + Cardinality(Holders(k)) + Queued(k) + permits'[k]
  BY DEF Balanced
<1>s. c \in Publishers /\ c \in Sessions
  BY DEF Publishers, Sessions
<1>1. /\ posts' = posts
      /\ posts[k] \in Nat /\ permits[k] \in Nat /\ Queued(k) \in Nat /\ Queued(k)' \in Nat
  BY DEF TypeOK, PublishNow, Queued
<1>2. Holders(k)' \subseteq IF k = j THEN Holders(k) \cup {c} ELSE Holders(k)
  BY <1>s DEF TypeOK, PublishNow, Holders, Sessions
<1>3. /\ permits'[k] = IF k = j THEN permits[k] + 2 ELSE permits[k]
      /\ Queued(k)' <= IF k = j THEN Queued(k) + 1 ELSE Queued(k)
  BY DEF TypeOK, PublishNow, Queued
<1>4. CASE k = j
  <2>1. Holders(k) \in SUBSET Publishers /\ Holders(k) \cup {c} \in SUBSET Publishers
    BY <1>s, HoldersArePublishers
  <2>2. /\ Cardinality(Holders(k)) \in Nat
        /\ Cardinality(Holders(k) \cup {c}) \in {Cardinality(Holders(k)), Cardinality(Holders(k)) + 1}
    BY <1>s, <2>1, SessionCount, Zenon
  <2>3. /\ Cardinality(Holders(k)') \in Nat
        /\ Cardinality(Holders(k)') <= Cardinality(Holders(k) \cup {c})
    BY <1>2, <1>4, <2>1, SessionSubset
  <2>4. QED
    BY <2>2, <2>3, <1>1, <1>3, <1>4
<1>5. CASE k # j
  <2>1. Holders(k) \in SUBSET Publishers /\ Holders(k)' \in SUBSET Holders(k)
    BY <1>2, <1>5, HoldersArePublishers
  <2>2. /\ Cardinality(Holders(k)) \in Nat /\ Cardinality(Holders(k)') \in Nat
        /\ Cardinality(Holders(k)') <= Cardinality(Holders(k))
    BY <2>1, SessionSubset
  <2>3. QED
    BY <2>2, <1>1, <1>3, <1>5
<1>6. QED
  BY <1>4, <1>5

LEMMA NextBalanced == LedgerInv /\ TypeOK' /\ [Next]_vars => Balanced
<1> SUFFICES ASSUME TypeOK, TypeOK', InBatch, Covered, [Next]_vars PROVE Balanced
  BY DEF LedgerInv
<1>s. Publishers \subseteq Sessions /\ Workers \subseteq Publishers /\ Clients \subseteq Publishers
  BY DEF Sessions, Publishers
<1>t. \A j \in Jobs : /\ permits[j] \in Nat /\ permits'[j] \in Nat
                      /\ Queued(j) \in {0, 1} /\ Queued(j)' \in {0, 1}
  BY DEF TypeOK, Queued
<1>1. ASSUME NEW w \in Workers, WorkerStep(w) PROVE Balanced
  <2>1. CASE SelectCandidates(w)
    <3>1. \A j \in Jobs : Holders(j)' \subseteq Holders(j)
      BY <1>s, <2>1 DEF TypeOK, SelectCandidates, Holders
    <3>2. posts' = posts /\ permits' = permits /\ \A j \in Jobs : Queued(j)' = Queued(j)
      BY <2>1 DEF SelectCandidates, rows, platform, Queued
    <3>3. QED
      BY <3>1, <3>2, <1>t, NothingTaken
  <2>2. CASE ClaimCandidates(w)
    BY <2>2, ClaimBalanced
  <2>3. QED
    BY <1>s, <1>1, <2>1, <2>2, ProcessJobBalanced DEF WorkerStep
<1>2. ASSUME NEW c \in Clients, NewRequest(c) \/ ClientStep(c) PROVE Balanced
  <2>1. ASSUME NEW j \in Jobs, SchedulePublish(c, j) PROVE Balanced
    <3>1. posts' = posts /\ \A k \in Jobs : Holders(k)' = Holders(k)
      BY <2>1 DEF SchedulePublish, sessions, Holders
    <3>2. \A k \in Jobs : IF k = j THEN permits'[k] = permits[k] + 1
                                   ELSE permits'[k] = permits[k] /\ Queued(k)' = Queued(k)
      BY <2>1 DEF TypeOK, SchedulePublish, Queued
    <3>3. \A k \in Jobs : Queued(k)' + permits[k] <= Queued(k) + permits'[k]
      BY <3>2, <1>t
    <3>4. QED
      BY <3>1, <3>3, NothingTaken
  <2>2. ASSUME NEW j \in Jobs, PublishNow(c, j) PROVE Balanced
    BY <2>2, PublishNowBalanced
  <2>3. ASSUME NEW j \in Jobs, NEW step \in {"retry", "cancel"}, ReadForRequest(c, j, step)
        PROVE  Balanced
    <3>1. \A k \in Jobs : Holders(k)' = Holders(k)
      BY <1>s, <2>3 DEF TypeOK, ReadForRequest, Holders
    <3>2. posts' = posts /\ permits' = permits /\ \A k \in Jobs : Queued(k)' = Queued(k)
      BY <2>3 DEF ReadForRequest, rows, platform, Queued
    <3>3. QED
      BY <3>1, <3>2, <1>t, NothingTaken
  <2>4. CASE CommitRetry(c)
    <3>1. posts' = posts /\ \A k \in Jobs : Holders(k)' \subseteq Holders(k)
      BY <1>s, <2>4, RestartHolders DEF CommitRetry
    <3>2. \A k \in Jobs : permits'[k] = IF k = cur[c] THEN permits[k] + 1 ELSE permits[k]
      BY <2>4 DEF TypeOK, CommitRetry
    <3>3. \A k \in Jobs : Queued(k)' <= IF k = cur[c] THEN Queued(k) + 1 ELSE Queued(k)
      BY <1>s, <2>4, WriteQueued DEF CommitRetry
    <3>4. \A k \in Jobs : Queued(k)' + permits[k] <= Queued(k) + permits'[k]
      BY <3>2, <3>3, <1>t
    <3>5. QED
      BY <3>1, <3>4, NothingTaken
  <2>5. CASE CommitCancel(c)
    <3>1. \A k \in Jobs : Holders(k)' \subseteq Holders(k)
      BY <1>s, <2>5, RestartHolders DEF CommitCancel
    <3>2. posts' = posts /\ permits' = permits
      BY <2>5 DEF CommitCancel, platform
    <3>3. \A k \in Jobs : Queued(k)' <= Queued(k)
      BY <1>s, <2>5, WriteQueued DEF CommitCancel, Claimable
    <3>4. QED
      BY <3>1, <3>2, <3>3, <1>t, NothingTaken
  <2>6. QED
    BY <1>s, <1>2, <2>1, <2>2, <2>3, <2>4, <2>5, ProcessJobBalanced
    DEF NewRequest, ClientStep, RequestRetry, RequestCancel
<1>3. ASSUME NEW r \in Recoverers, ListDeadLetters(r) \/ RecoverDeadLetters(r)
      PROVE  Balanced
  <2>s. r \in Sessions /\ r \notin Publishers
    BY QueueAssumption DEF Sessions, Publishers, QueueAssumption
  <2>1. CASE ListDeadLetters(r)
    <3>1. \A j \in Jobs : Holders(j)' = Holders(j)
      BY <2>s, <2>1 DEF TypeOK, ListDeadLetters, Holders
    <3>2. posts' = posts /\ permits' = permits /\ \A j \in Jobs : Queued(j)' = Queued(j)
      BY <2>1 DEF ListDeadLetters, rows, platform, Queued
    <3>3. QED
      BY <3>1, <3>2, <1>t, NothingTaken
  <2>2. CASE RecoverDeadLetters(r)
    <3>1. posts' = posts /\ \A j \in Jobs : Holders(j)' \subseteq Holders(j)
      BY <2>s, <2>2, RestartHolders DEF RecoverDeadLetters
    <3>2. \A j \in Jobs : IF j \in Recovered(r) THEN permits'[j] = permits[j] + 1
                          ELSE permits'[j] = permits[j] /\ Queued(j)' = Queued(j)
      BY <1>t, <2>2 DEF RecoverDeadLetters, Queued
    <3>3. \A j \in Jobs : Queued(j)' + permits[j] <= Queued(j) + permits'[j]
      BY <3>2, <1>t
    <3>4. QED
      BY <3>1, <3>3, NothingTaken
  <2>3. QED
    BY <1>3, <2>1, <2>2
<1>4. ASSUME NEW s \in Sessions, Crash(s) PROVE Balanced
  <2>1. \A j \in Jobs : Holders(j)' \subseteq Holders(j)
    BY <1>4, RestartHolders DEF Crash
  <2>2. posts' = posts /\ permits' = permits /\ \A j \in Jobs : Queued(j)' = Queued(j)
    BY <1>4 DEF Crash, rows, platform, Queued
  <2>3. QED
    BY <2>1, <2>2, <1>t, NothingTaken
<1>5. CASE (\E j \in Jobs : BecomeVisible(j) \/ ExpiryPasses(j)) \/ UNCHANGED vars
  <2>1. posts' = posts /\ permits' = permits
        /\ \A j \in Jobs : Queued(j)' = Queued(j) /\ Holders(j)' = Holders(j)
    BY <1>5 DEF BecomeVisible, ExpiryPasses, vars, rows, platform, sessions, Holders, Queued
  <2>2. QED
    BY <2>1, <1>t, NothingTaken
<1>6. QED
  BY <1>1, <1>2, <1>3, <1>4, <1>5 DEF Next

LEMMA NextCovered == LedgerInv /\ TypeOK' /\ [Next]_vars => Covered'
<1> SUFFICES ASSUME LedgerInv, TypeOK', [Next]_vars, NEW j \in Jobs
             PROVE  posts'[j] + Cardinality(Holders(j)') + Queued(j)' <= permits'[j]
  BY DEF Covered
<1>1. /\ posts[j] \in Nat /\ posts'[j] \in Nat /\ permits[j] \in Nat /\ permits'[j] \in Nat
      /\ Queued(j) \in Nat /\ Queued(j)' \in Nat
  BY DEF LedgerInv, TypeOK, Queued
<1>2. Cardinality(Holders(j)) \in Nat /\ Cardinality(Holders(j)') \in Nat
  BY HoldersArePublishers, SessionSubset DEF Holders
<1>3. posts'[j] + Cardinality(Holders(j)') + Queued(j)' + permits[j]
         <= posts[j] + Cardinality(Holders(j)) + Queued(j) + permits'[j]
  BY NextBalanced DEF Balanced
<1>4. posts[j] + Cardinality(Holders(j)) + Queued(j) <= permits[j]
  BY DEF LedgerInv, Covered
<1>5. QED
  BY <1>1, <1>2, <1>3, <1>4

-----------------------------------------------------------------------------
(* The refinement *)

LEMMA InitLedger == Init => LedgerInv /\ Ledger!Init
<1> SUFFICES ASSUME Init PROVE LedgerInv /\ Ledger!Init
  OBVIOUS
<1>1. TypeOK
  BY InitTypes
<1>2. InBatch
  BY DEF Init, InBatch, Sessions
<1>3. \A j \in Jobs : Holders(j) = {}
  BY DEF Init, Holders, Sessions
<1>4. \A j \in Jobs : Queued(j) = 0
  BY DEF Init, Queued, Claimable
<1>5. Covered
  <2>1. \A j \in Jobs : Cardinality(Holders(j)) = 0
    BY <1>3, FS_EmptySet, Zenon
  <2>2. \A j \in Jobs : posts[j] = 0 /\ permits[j] = 0
    BY DEF Init
  <2>3. QED
    BY <1>4, <2>1, <2>2 DEF Covered
<1>6. Ledger!Init
  BY DEF Init, Ledger!Init
<1>7. QED
  BY <1>1, <1>2, <1>5, <1>6 DEF LedgerInv

\* Granting permits one at a time.
LEMMA GrantOne ==
    ASSUME TypeOK, NEW j \in Jobs, NEW n \in 1 .. 2,
           permits' = [permits EXCEPT ![j] = @ + n], UNCHANGED posts
    PROVE  Ledger!Next
<1>1. permits' = [k \in Jobs |-> permits[k] + IF k \in {j} THEN n ELSE 0]
  <2>1. permits \in [Jobs -> Nat]
    BY DEF TypeOK
  <2>2. permits' \in [Jobs -> Int]
    BY <2>1
  <2>3. \A k \in Jobs : permits'[k] = permits[k] + IF k = j THEN n ELSE 0
    BY <2>1
  <2>4. \A k \in Jobs : permits'[k] = permits[k] + IF k \in {j} THEN n ELSE 0
    BY <2>3
  <2>5. QED
    BY <2>2, <2>4
<1>2. Ledger!Grant({j}, n)
  BY <1>1 DEF Ledger!Grant
<1>3. QED
  BY <1>2 DEF Ledger!Next

LEMMA NextLedger == LedgerInv /\ [Next]_vars => [Ledger!Next]_(Ledger!vars)
<1> SUFFICES ASSUME TypeOK, InBatch, Covered, [Next]_vars
             PROVE  Ledger!Next \/ UNCHANGED <<permits, posts>>
  BY DEF LedgerInv, Ledger!vars
<1>s. Workers \subseteq Publishers /\ Clients \subseteq Publishers
  BY DEF Publishers
<1>1. ASSUME NEW s \in Publishers, ProcessJob(s)
      PROVE  Ledger!Next \/ UNCHANGED <<permits, posts>>
  <2>1. CASE ProviderAccepts(s)
    <3>1. cur[s] \in Jobs /\ posts[cur[s]] < permits[cur[s]]
      BY <2>1, AcceptBalanced
    <3>2. Ledger!Post(cur[s])
      BY <2>1, <3>1 DEF Ledger!Post, ProviderAccepts
    <3>3. QED
      BY <3>1, <3>2 DEF Ledger!Next
  <2>2. QED
    BY <1>1, <2>1
    DEF ProcessJob, LoadJob, LoadRaises, ExpireJob, MarkFailure, CircuitOpen,
        ProviderRefuses, MarkRetry, SavePublished, ProcessingRaises, platform
<1>2. ASSUME NEW c \in Clients, NewRequest(c) \/ ClientStep(c)
      PROVE  Ledger!Next \/ UNCHANGED <<permits, posts>>
  <2>1. ASSUME NEW j \in Jobs, SchedulePublish(c, j) \/ PublishNow(c, j)
        PROVE  Ledger!Next
    BY <2>1, GrantOne DEF SchedulePublish, PublishNow
  <2>2. CASE CommitRetry(c)
    <3>1. CASE cur[c] \in Jobs
      <4>1. permits' = [permits EXCEPT ![cur[c]] = @ + 1] /\ UNCHANGED posts
        BY <2>2 DEF CommitRetry
      <4>2. 1 \in 1 .. 2
        OBVIOUS
      <4>3. QED
        BY <3>1, <4>1, <4>2, GrantOne
    <3>2. CASE cur[c] \notin Jobs
      <4>1. permits \in [Jobs -> Nat]
        BY DEF TypeOK
      <4>2. permits' = permits
        BY <2>2, <3>2, <4>1 DEF CommitRetry
      <4>3. QED
        BY <2>2, <4>2 DEF CommitRetry
    <3>3. QED
      BY <3>1, <3>2
  <2>3. QED
    BY <1>1, <1>2, <1>s, <2>1, <2>2
    DEF NewRequest, ClientStep, RequestRetry, RequestCancel, ReadForRequest,
        CommitCancel, platform
<1>3. ASSUME NEW r \in Recoverers, ListDeadLetters(r) \/ RecoverDeadLetters(r)
      PROVE  Ledger!Next \/ UNCHANGED <<permits, posts>>
  <2>1. CASE RecoverDeadLetters(r)
    <3>1. Ledger!Grant(Recovered(r), 1)
      BY <2>1 DEF Ledger!Grant, RecoverDeadLetters
    <3>2. Recovered(r) \in SUBSET Jobs
      BY DEF Recovered
    <3>3. QED
      BY <3>1, <3>2 DEF Ledger!Next
  <2>2. QED
    BY <1>3, <2>1 DEF ListDeadLetters, platform
<1>4. QED
  BY <1>1, <1>2, <1>3, <1>s
  DEF Next, WorkerStep, SelectCandidates, ClaimCandidates, Crash, BecomeVisible,
      ExpiryPasses, platform, vars

\* A job is posted at most once for every time it was put up for a post, for
\* any number of workers, requests, recovery passes and faults: the claim of a
\* row, the requeue of _mark_retry and the owner's retry never hand one permit
\* to two sessions.
THEOREM Refinement == Spec => PostsWithinPermits
<1>1. Init => LedgerInv /\ Ledger!Init
  BY InitLedger
<1>2. LedgerInv /\ TypeOK' /\ [Next]_vars => LedgerInv'
  BY NextInBatch, NextCovered DEF LedgerInv
<1>3. LedgerInv /\ [Next]_vars => [Ledger!Next]_(Ledger!vars)
  BY NextLedger
<1>4. QED
  BY <1>1, <1>2, <1>3, TypeCorrect, PTL DEF Spec, PostsWithinPermits, Ledger!Spec

\* The counting invariant itself, for the theorems that rest on it.
LEMMA LedgerInvariant == Spec => []LedgerInv
<1>1. LedgerInv /\ TypeOK' /\ [Next]_vars => LedgerInv'
  BY NextInBatch, NextCovered DEF LedgerInv
<1>2. QED
  BY <1>1, InitLedger, TypeCorrect, PTL DEF Spec

-----------------------------------------------------------------------------
(***************************************************************************)
(* 3. The safety properties that relate what the sessions write: failed    *)
(* jobs and their dead letters, closed jobs and the sessions that may      *)
(* still touch them, posts and the history rows that record them, claimed  *)
(* rows and their owners, retries and permits.                             *)
(***************************************************************************)

-----------------------------------------------------------------------------
(* Dead letters *)

\* One pass at a time: no entry point of the repository starts even one.
OnePass == \A r, q \in Recoverers : r = q

\* Only a pass deletes letters, so what it has listed is still stored, and the
\* id of a letter added since is none of those listed.
ListedStored ==
    \A s \in Sessions, j \in Jobs : /\ held[s][j] \subseteq letters[j]
                                    /\ s \notin Recoverers => held[s][j] = {}

\* A letter no pass will delete without putting its job back on the queue.
Kept(j, l) ==
    /\ l \in letters[j]
    /\ \A s \in Sessions :
          pc[s] = "recover" /\ cur[s] = j /\ seen[s].status # "failed" => l \notin held[s][j]

FailedKept == \A j \in Jobs : status[j] = "failed" => \E l : Kept(j, l)

LetterInv == ListedStored /\ FailedKept

\* No recovery pass begins in this step.
NoPassBegins ==
    /\ \A s \in Sessions :
          pc'[s] = "recover" => /\ pc[s] = "recover" /\ cur'[s] = cur[s]
                                /\ seen'[s] = seen[s] /\ held'[s] = held[s]
    /\ \A s \in Sessions, j \in Jobs : held'[s][j] \subseteq held[s][j]

LEMMA RestartLists == ASSUME TypeOK, NEW s \in Sessions, Restart(s) PROVE NoPassBegins
    BY DEF TypeOK, Restart, NoPassBegins, Nothing

LEMMA FinishLists ==
    ASSUME TypeOK, NEW s \in Sessions, NEW j, NEW f, FinishJob(s, j, f)
    PROVE  NoPassBegins
    BY DEF TypeOK, FinishJob, NoPassBegins

LEMMA LettersUntouched ==
    ASSUME LetterInv, NoPassBegins, UNCHANGED letters,
           \A j \in Jobs : status'[j] = "failed" => status[j] = "failed"
    PROVE  LetterInv'
<1>1. ListedStored'
  BY DEF LetterInv, ListedStored, NoPassBegins
<1>2. ASSUME NEW j \in Jobs, status'[j] = "failed" PROVE \E l : Kept(j, l)'
  <2>1. PICK l : Kept(j, l)
    BY <1>2 DEF LetterInv, FailedKept
  <2>2. Kept(j, l)'
    BY <2>1 DEF Kept, NoPassBegins
  <2>3. QED
    BY <2>2
<1>3. QED
  BY <1>1, <1>2 DEF LetterInv, FailedKept

LEMMA WriteNotFailed ==
    ASSUME TypeOK, NEW s, NEW new, new # "failed", WriteStatus(s, new)
    PROVE  \A j \in Jobs : status'[j] = "failed" => status[j] = "failed"
    BY DEF TypeOK, WriteStatus, Written

\* add_dead_letter in the transaction that marks the job failed.
LEMMA LetterAdded ==
    ASSUME TypeOK, LetterInv, NEW s \in Sessions, NEW f,
           WriteStatus(s, "failed"), AddDeadLetter(s), FinishJob(s, cur[s], f)
    PROVE  LetterInv'
<1>1. NoPassBegins
  BY FinishLists
<1>2. PICK l : /\ \A j \in Jobs : \A m \in letters[j] : m < l
               /\ letters' = [letters EXCEPT ![cur[s]] = @ \cup {l}]
  BY DEF AddDeadLetter
<1>3. \A j \in Jobs : /\ l \notin letters[j]
                      /\ letters'[j] = IF j = cur[s] THEN letters[j] \cup {l} ELSE letters[j]
  <2>1. \A j \in Jobs : letters[j] \subseteq Nat
    BY DEF TypeOK
  <2>2. ASSUME NEW j \in Jobs, l \in letters[j] PROVE FALSE
    <3>1. l \in Int /\ l < l
      BY <1>2, <2>1, <2>2
    <3>2. QED
      BY <3>1
  <2>3. \A j \in Jobs :
          letters'[j] = IF j = cur[s] THEN letters[j] \cup {l} ELSE letters[j]
    BY <1>2 DEF TypeOK
  <2>4. QED
    BY <2>2, <2>3
<1>4. ListedStored'
  <2>1. ASSUME NEW t \in Sessions, NEW j \in Jobs
        PROVE  /\ held'[t][j] \subseteq letters'[j]
               /\ t \notin Recoverers => held'[t][j] = {}
    <3>1. held'[t][j] \subseteq held[t][j] /\ letters[j] \subseteq letters'[j]
      BY <1>1, <1>3 DEF NoPassBegins
    <3>2. QED
      BY <3>1 DEF LetterInv, ListedStored
  <2>2. QED
    BY <2>1 DEF ListedStored
<1>5. ASSUME NEW j \in Jobs, status'[j] = "failed" PROVE \E m : Kept(j, m)'
  <2>1. CASE j = cur[s]
    <3>2. l \in letters'[j]
      BY <1>3, <2>1
    <3>3. \A t \in Sessions : l \notin held[t][j]
      BY <1>3 DEF LetterInv, ListedStored
    <3>4. \A t \in Sessions : l \notin held'[t][j]
      BY <1>1, <3>3 DEF NoPassBegins
    <3>5. Kept(j, l)'
      BY <3>2, <3>4 DEF Kept
    <3>6. QED
      BY <3>5
  <2>2. CASE j # cur[s]
    <3>1. status[j] = "failed"
      BY <1>5, <2>2 DEF TypeOK, WriteStatus
    <3>2. PICK m : Kept(j, m)
      BY <3>1 DEF LetterInv, FailedKept
    <3>3. Kept(j, m)'
      BY <1>1, <1>3, <2>2, <3>2 DEF Kept, NoPassBegins
    <3>4. QED
      BY <3>3
  <2>3. QED
    BY <2>1, <2>2
<1>6. QED
  BY <1>4, <1>5 DEF LetterInv, FailedKept

LEMMA ProcessJobLetters ==
    ASSUME TypeOK, LetterInv, NEW s \in Publishers, ProcessJob(s)
    PROVE  LetterInv'
<1>s. s \in Sessions
  BY DEF Sessions
<1>1. ASSUME NEW j \in Jobs, LoadJob(s, j) PROVE LetterInv'
  <2>1. NoPassBegins
    BY <1>s, <1>1 DEF TypeOK, LoadJob, NoPassBegins
  <2>2. QED
    BY <1>1, <2>1, LettersUntouched DEF LoadJob, rows
<1>2. ASSUME NEW j, NEW f, FinishJob(s, j, f), UNCHANGED letters,
             \A k \in Jobs : status'[k] = "failed" => status[k] = "failed"
      PROVE  LetterInv'
  BY <1>s, <1>2, FinishLists, LettersUntouched
<1>3. CASE ExpireJob(s) \/ SavePublished(s)
  BY <1>2, <1>3, WriteNotFailed DEF ExpireJob, SavePublished
<1>4. CASE (\E j \in Jobs : LoadRaises(s, j)) \/ ProcessingRaises(s)
  BY <1>2, <1>4 DEF LoadRaises, ProcessingRaises, rows
<1>5. CASE MarkFailure(s)
  BY <1>s, <1>5, LetterAdded DEF MarkFailure
<1>6. ASSUME NEW f, MarkRetry(s, f) PROVE LetterInv'
  <2>1. CASE Exhausted(s)
    BY <1>s, <1>6, <2>1, LetterAdded DEF MarkRetry
  <2>2. CASE ~Exhausted(s)
    BY <1>2, <1>6, <2>2, WriteNotFailed DEF MarkRetry
  <2>3. QED
    BY <2>1, <2>2
<1>7. CASE ProviderAccepts(s)
  <2>1. NoPassBegins
    BY <1>s, <1>7 DEF TypeOK, ProviderAccepts, NoPassBegins
  <2>2. QED
    BY <1>7, <2>1, LettersUntouched DEF ProviderAccepts, rows
<1>8. QED
  BY <1>1, <1>3, <1>4, <1>5, <1>6, <1>7 DEF ProcessJob, CircuitOpen, ProviderRefuses

\* A pass begins: it sees the job of the oldest letter as it is stored.
LEMMA ListLetters ==
    ASSUME TypeOK, LetterInv, NEW r \in Recoverers, ListDeadLetters(r)
    PROVE  LetterInv'
<1>s. r \in Sessions
  BY DEF Sessions
<1>1. PICK k \in Jobs : /\ cur' = [cur EXCEPT ![r] = k]
                        /\ seen' = [seen EXCEPT ![r] = [NoSeen EXCEPT !.status = status[k]]]
  BY DEF ListDeadLetters
<1>2. /\ held' = [held EXCEPT ![r] = letters]
      /\ pc' = [pc EXCEPT ![r] = "recover"]
      /\ UNCHANGED <<status, letters>>
  BY DEF ListDeadLetters, rows
<1>3. ListedStored'
  BY <1>2 DEF TypeOK, LetterInv, ListedStored
<1>4. ASSUME NEW j \in Jobs, status'[j] = "failed" PROVE \E l : Kept(j, l)'
  <2>1. PICK l : Kept(j, l)
    BY <1>2, <1>4 DEF LetterInv, FailedKept
  <2>2. cur'[r] = j => seen'[r].status = "failed"
    BY <1>s, <1>1, <1>2, <1>4 DEF TypeOK, NoSeen
  <2>3. \A t \in Sessions : t # r => /\ pc'[t] = pc[t] /\ cur'[t] = cur[t]
                                     /\ seen'[t] = seen[t] /\ held'[t] = held[t]
    BY <1>1, <1>2 DEF TypeOK
  <2>4. Kept(j, l)'
    BY <1>2, <2>1, <2>2, <2>3 DEF Kept
  <2>5. QED
    BY <2>4
<1>5. QED
  BY <1>3, <1>4 DEF LetterInv, FailedKept

\* A pass ends: what it deletes belonged to jobs it put back, or it saw the
\* job when it was not failed and a newer letter stays.
LEMMA RecoverLetters ==
    ASSUME TypeOK, LetterInv, OnePass, NEW r \in Recoverers, RecoverDeadLetters(r)
    PROVE  LetterInv'
<1>s. r \in Sessions /\ pc[r] = "recover"
  BY DEF Sessions, RecoverDeadLetters
<1>1. NoPassBegins
  BY <1>s, RestartLists DEF RecoverDeadLetters
<1>2. \A j \in Jobs : letters'[j] = letters[j] \ held[r][j]
  BY DEF RecoverDeadLetters, Deleted
<1>3. ListedStored'
  <2>1. \A s \in Sessions, j \in Jobs : held'[s][j] = {}
    BY <1>s DEF OnePass, TypeOK, LetterInv, ListedStored, RecoverDeadLetters, Restart, Nothing
  <2>2. QED
    BY <2>1 DEF ListedStored
<1>4. ASSUME NEW j \in Jobs, status'[j] = "failed" PROVE \E l : Kept(j, l)'
  <2>1. j \notin Recovered(r) /\ status[j] = "failed"
    BY <1>4 DEF RecoverDeadLetters
  <2>2. PICK l : Kept(j, l)
    BY <2>1 DEF LetterInv, FailedKept
  <2>3. l \notin held[r][j]
    BY <1>s, <2>1, <2>2 DEF Kept, Recovered
  <2>4. Kept(j, l)'
    BY <1>1, <1>2, <2>2, <2>3 DEF Kept, NoPassBegins
  <2>5. QED
    BY <2>4
<1>5. QED
  BY <1>3, <1>4 DEF LetterInv, FailedKept

LEMMA NextLetters ==
    ASSUME TypeOK, LetterInv, OnePass, [Next]_vars
    PROVE  LetterInv'
<1>s. /\ Publishers \subseteq Sessions /\ Workers \subseteq Publishers
      /\ Clients \subseteq Publishers /\ Recoverers \subseteq Sessions
  BY DEF Sessions, Publishers
<1>1. ASSUME NEW w \in Workers, WorkerStep(w) PROVE LetterInv'
  <2>1. CASE SelectCandidates(w) \/ ClaimCandidates(w)
    <3>1. NoPassBegins
      BY <1>s, <2>1 DEF TypeOK, SelectCandidates, ClaimCandidates, NoPassBegins
    <3>2. QED
      BY <2>1, <3>1, LettersUntouched DEF SelectCandidates, ClaimCandidates, rows
  <2>2. QED
    BY <1>s, <1>1, <2>1, ProcessJobLetters DEF WorkerStep
<1>2. ASSUME NEW c \in Clients, NewRequest(c) \/ ClientStep(c) PROVE LetterInv'
  <2>1. ASSUME NEW j \in Jobs, SchedulePublish(c, j) PROVE LetterInv'
    <3>1. NoPassBegins
      BY <2>1 DEF TypeOK, SchedulePublish, sessions, NoPassBegins
    <3>2. QED
      BY <2>1, <3>1, LettersUntouched DEF TypeOK, SchedulePublish
  <2>2. ASSUME NEW j \in Jobs, PublishNow(c, j) PROVE LetterInv'
    <3>1. NoPassBegins
      BY <1>s, <2>2 DEF TypeOK, PublishNow, NoPassBegins
    <3>2. QED
      BY <2>2, <3>1, LettersUntouched DEF TypeOK, PublishNow
  <2>3. ASSUME NEW j \in Jobs, NEW step \in {"retry", "cancel"}, ReadForRequest(c, j, step)
        PROVE  LetterInv'
    <3>1. NoPassBegins
      BY <1>s, <2>3 DEF TypeOK, ReadForRequest, NoPassBegins
    <3>2. QED
      BY <2>3, <3>1, LettersUntouched DEF ReadForRequest, rows
  <2>4. CASE CommitRetry(c) \/ CommitCancel(c)
    <3>1. NoPassBegins
      BY <1>s, <2>4, RestartLists DEF CommitRetry, CommitCancel
    <3>2. \A j \in Jobs : status'[j] = "failed" => status[j] = "failed"
      BY <2>4, WriteNotFailed DEF CommitRetry, CommitCancel
    <3>3. QED
      BY <2>4, <3>1, <3>2, LettersUntouched DEF CommitRetry, CommitCancel
  <2>5. QED
    BY <1>s, <1>2, <2>1, <2>2, <2>3, <2>4, ProcessJobLetters
    DEF NewRequest, ClientStep, RequestRetry, RequestCancel
<1>3. ASSUME NEW r \in Recoverers, ListDeadLetters(r) \/ RecoverDeadLetters(r)
      PROVE  LetterInv'
  BY <1>3, ListLetters, RecoverLetters
<1>4. ASSUME NEW s \in Sessions, Crash(s) PROVE LetterInv'
  BY <1>4, RestartLists, LettersUntouched DEF Crash, rows
<1>5. ASSUME NEW j \in Jobs, BecomeVisible(j) \/ ExpiryPasses(j) PROVE LetterInv'
  <2>1. NoPassBegins
    BY <1>5 DEF BecomeVisible, ExpiryPasses, sessions, NoPassBegins
  <2>2. QED
    BY <1>5, <2>1, LettersUntouched DEF BecomeVisible, ExpiryPasses
<1>6. CASE UNCHANGED vars
  <2>1. NoPassBegins
    BY <1>6 DEF vars, sessions, NoPassBegins
  <2>2. QED
    BY <1>6, <2>1, LettersUntouched DEF vars, rows
<1>7. QED
  BY <1>1, <1>2, <1>3, <1>4, <1>5, <1>6 DEF Next

\* While passes run one at a time, a failed job always keeps a dead letter, so
\* a later pass finds it: the letters a pass has listed stay until it deletes
\* them, so none it deletes was added since under an id that came back, and it
\* puts back every job it saw failed.  Of two passes the second may delete a new
\* letter under an id the first has freed.
THEOREM FailedJobsAreFound == OnePass => (Spec => []FailedHasDeadLetter)
<1> SUFFICES ASSUME OnePass PROVE Spec => []FailedHasDeadLetter
  OBVIOUS
<1>1. Init => LetterInv
  BY DEF Init, LetterInv, ListedStored, FailedKept, Nothing
<1>2. TypeOK /\ LetterInv /\ [Next]_vars => LetterInv'
  BY NextLetters
<1>3. LetterInv => FailedHasDeadLetter
  BY DEF LetterInv, FailedKept, Kept, FailedHasDeadLetter
<1>4. QED
  BY <1>1, <1>2, <1>3, TypeCorrect, PTL DEF Spec

-----------------------------------------------------------------------------
(* Closed jobs *)

\* A step of session s alone that leaves the rows of j and makes s no party to
\* it keeps j closed.
LEMMA StaysClosed ==
    ASSUME NEW j \in Jobs, Closed(j), NEW s,
           status'[j] = status[j], queue'[j] = queue[j],
           \A t \in Sessions : t # s => /\ pc'[t] = pc[t] /\ cur'[t] = cur[t]
                                        /\ batch'[t] = batch[t] /\ seen'[t] = seen[t],
           ~Interested(s, j)'
    PROVE  Closed(j)'
    BY DEF Closed, Interested

\* A session that ends its work, on this job or another, is no party to j.
LEMMA FinishDisinterested ==
    ASSUME TypeOK, NEW s \in Sessions, NEW j \in Jobs, ~Interested(s, j), pc[s] # "claim",
           Restart(s) \/ \E k, f : FinishJob(s, k, f)
    PROVE  /\ ~Interested(s, j)'
           /\ \A t \in Sessions : t # s => /\ pc'[t] = pc[t] /\ cur'[t] = cur[t]
                                           /\ batch'[t] = batch[t] /\ seen'[t] = seen[t]
<1>1. pc'[s] \in {"idle", "next"} /\ batch'[s] \subseteq batch[s]
  BY DEF TypeOK, Restart, FinishJob, Rest
<1>2. ~Interested(s, j)'
  BY <1>1 DEF Interested
<1>3. QED
  BY <1>2 DEF TypeOK, Restart, FinishJob

LEMMA WriteElsewhere ==
    ASSUME TypeOK, NEW s, NEW new, WriteStatus(s, new), NEW j \in Jobs, j # cur[s]
    PROVE  status'[j] = status[j] /\ queue'[j] = queue[j]
    BY DEF TypeOK, WriteStatus

LEMMA ProcessJobClosed ==
    ASSUME TypeOK, InBatch, NEW j \in Jobs, Closed(j), NEW s \in Publishers, ProcessJob(s)
    PROVE  Closed(j)' /\ posts'[j] = posts[j]
<1>s. /\ s \in Sessions /\ ~Interested(s, j)
      /\ pc[s] \in {"expire", "publish", "save"} => cur[s] # j
  BY DEF Sessions, Closed, Interested, InBatch
<1>1. ASSUME NEW k \in Jobs, LoadJob(s, k) PROVE Closed(j)' /\ posts'[j] = posts[j]
  <2>1. ~Interested(s, j)'
    BY <1>s, <1>1 DEF TypeOK, LoadJob, Interested
  <2>2. QED
    BY <1>s, <1>1, <2>1, StaysClosed DEF TypeOK, LoadJob, rows, platform
<1>2. ASSUME NEW k, NEW f, FinishJob(s, k, f), pc[s] # "claim",
             status'[j] = status[j], queue'[j] = queue[j]
      PROVE  Closed(j)'
  BY <1>s, <1>2, FinishDisinterested, StaysClosed
<1>3. CASE ExpireJob(s) \/ MarkFailure(s) \/ SavePublished(s) \/ \E f : MarkRetry(s, f)
  <2>1. posts' = posts
    BY <1>3 DEF ExpireJob, MarkFailure, SavePublished, MarkRetry, platform
  <2>2. /\ cur[s] # j /\ pc[s] # "claim"
        /\ \E new : WriteStatus(s, new)
        /\ \E k, f : FinishJob(s, k, f)
    BY <1>s, <1>3 DEF ExpireJob, MarkFailure, SavePublished, MarkRetry
  <2>3. QED
    BY <1>2, <2>1, <2>2, WriteElsewhere
<1>4. CASE (\E k \in Jobs : LoadRaises(s, k)) \/ ProcessingRaises(s)
  BY <1>2, <1>4 DEF LoadRaises, ProcessingRaises, rows, platform
<1>5. CASE ProviderAccepts(s)
  <2>1. ~Interested(s, j)'
    BY <1>s, <1>5 DEF TypeOK, ProviderAccepts, Interested
  <2>2. posts'[j] = posts[j]
    BY <1>s, <1>5 DEF TypeOK, ProviderAccepts
  <2>3. QED
    BY <1>s, <1>5, <2>1, <2>2, StaysClosed DEF TypeOK, ProviderAccepts, rows
<1>6. QED
  BY <1>1, <1>3, <1>4, <1>5 DEF ProcessJob, CircuitOpen, ProviderRefuses

LEMMA ClientClosed ==
    ASSUME TypeOK, InBatch, NEW j \in Jobs, Closed(j), NEW c \in Clients,
           NewRequest(c) \/ ClientStep(c)
    PROVE  Closed(j)' /\ posts'[j] = posts[j]
<1>s. /\ c \in Publishers /\ c \in Sessions /\ ~Interested(c, j)
      /\ status[j] \in Final /\ status[j] # "none"
  BY DEF Publishers, Sessions, Closed, Final
<1>1. ASSUME NEW k \in Jobs, SchedulePublish(c, k) PROVE Closed(j)' /\ posts'[j] = posts[j]
  <2>1. k # j
    BY <1>s, <1>1 DEF SchedulePublish
  <2>2. QED
    BY <1>1, <2>1 DEF TypeOK, SchedulePublish, sessions, Closed, Interested
<1>2. ASSUME NEW k \in Jobs, PublishNow(c, k) PROVE Closed(j)' /\ posts'[j] = posts[j]
  <2>1. k # j
    BY <1>s, <1>2 DEF PublishNow
  <2>2. ~Interested(c, j)'
    BY <1>s, <1>2, <2>1 DEF TypeOK, PublishNow, Interested
  <2>3. QED
    BY <1>s, <1>2, <2>1, <2>2, StaysClosed DEF TypeOK, PublishNow
<1>3. ASSUME NEW k \in Jobs, RequestRetry(c, k) \/ RequestCancel(c, k)
      PROVE  Closed(j)' /\ posts'[j] = posts[j]
  <2>1. k # j
    BY <1>s, <1>3 DEF RequestRetry, RequestCancel, Final
  <2>2. PICK step \in {"retry", "cancel"} : ReadForRequest(c, k, step)
    BY <1>3 DEF RequestRetry, RequestCancel
  <2>3. ~Interested(c, j)'
    BY <1>s, <2>1, <2>2 DEF TypeOK, ReadForRequest, Interested
  <2>4. QED
    BY <1>s, <2>2, <2>3, StaysClosed DEF TypeOK, ReadForRequest, rows, platform
<1>4. CASE CommitRetry(c) \/ CommitCancel(c)
  <2>1. cur[c] # j /\ pc[c] # "claim" /\ Restart(c) /\ posts' = posts
    BY <1>s, <1>4 DEF CommitRetry, CommitCancel, Interested, platform
  <2>2. status'[j] = status[j] /\ queue'[j] = queue[j]
    BY <1>4, <2>1, WriteElsewhere DEF CommitRetry, CommitCancel
  <2>3. QED
    BY <1>s, <2>1, <2>2, FinishDisinterested, StaysClosed
<1>5. CASE ProcessJob(c)
  BY <1>s, <1>5, ProcessJobClosed
<1>6. QED
  BY <1>1, <1>2, <1>3, <1>4, <1>5 DEF NewRequest, ClientStep

LEMMA NextClosed ==
    ASSUME TypeOK, InBatch, [Next]_vars, NEW j \in Jobs, Closed(j)
    PROVE  Closed(j)' /\ posts'[j] = posts[j]
<1>s. /\ Workers \subseteq Publishers /\ Publishers \subseteq Sessions
      /\ Recoverers \subseteq Sessions
      /\ status[j] \in Final /\ queue[j] \in Final /\ \A s \in Sessions : ~Interested(s, j)
  BY DEF Sessions, Publishers, Closed
<1>t. Final \cap Claimable = {} /\ "failed" \notin Final
  BY DEF Final, Claimable
<1>1. ASSUME NEW w \in Workers, WorkerStep(w) PROVE Closed(j)' /\ posts'[j] = posts[j]
  <2>1. CASE SelectCandidates(w)
    <3>1. ~Interested(w, j)'
      BY <1>s, <2>1 DEF TypeOK, SelectCandidates, Interested
    <3>2. QED
      BY <1>s, <2>1, <3>1, StaysClosed DEF TypeOK, SelectCandidates, rows, platform
  <2>2. CASE ClaimCandidates(w)
    <3>1. ~StillClaimable(j)
      BY <1>s, <1>t DEF StillClaimable
    <3>2. ~Interested(w, j)'
      BY <1>s, <2>2, <3>1 DEF TypeOK, ClaimCandidates, Interested
    <3>3. QED
      BY <1>s, <2>2, <3>1, <3>2, StaysClosed DEF TypeOK, ClaimCandidates, platform
  <2>3. QED
    BY <1>s, <1>1, <2>1, <2>2, ProcessJobClosed DEF WorkerStep
<1>2. ASSUME NEW c \in Clients, NewRequest(c) \/ ClientStep(c)
      PROVE  Closed(j)' /\ posts'[j] = posts[j]
  BY <1>2, ClientClosed
<1>3. ASSUME NEW r \in Recoverers, ListDeadLetters(r) PROVE Closed(j)' /\ posts'[j] = posts[j]
  <2>1. ~Interested(r, j)'
    BY <1>s, <1>t, <1>3 DEF TypeOK, ListDeadLetters, Interested, NoSeen
  <2>2. QED
    BY <1>3, <2>1, StaysClosed DEF TypeOK, ListDeadLetters, rows, platform
<1>4. ASSUME NEW r \in Recoverers, RecoverDeadLetters(r)
      PROVE  Closed(j)' /\ posts'[j] = posts[j]
  <2>1. j \notin Recovered(r)
    BY <1>s, <1>t, <1>4 DEF RecoverDeadLetters, Recovered, Interested
  <2>2. status'[j] = status[j] /\ queue'[j] = queue[j] /\ posts' = posts
    BY <1>4, <2>1 DEF RecoverDeadLetters
  <2>3. QED
    BY <1>s, <1>4, <2>2, FinishDisinterested, StaysClosed DEF RecoverDeadLetters
<1>5. ASSUME NEW s \in Sessions, Crash(s) PROVE Closed(j)' /\ posts'[j] = posts[j]
  <2>1. /\ ~Interested(s, j)'
        /\ \A t \in Sessions : t # s => /\ pc'[t] = pc[t] /\ cur'[t] = cur[t]
                                        /\ batch'[t] = batch[t] /\ seen'[t] = seen[t]
    BY <1>5 DEF TypeOK, Crash, Restart, Interested
  <2>2. QED
    BY <1>5, <2>1, StaysClosed DEF Crash, rows, platform
<1>6. ASSUME NEW k \in Jobs, BecomeVisible(k) \/ ExpiryPasses(k)
      PROVE  Closed(j)' /\ posts'[j] = posts[j]
  BY <1>6 DEF BecomeVisible, ExpiryPasses, sessions, platform, Closed, Interested
<1>7. CASE UNCHANGED vars
  BY <1>7 DEF vars, rows, sessions, platform, Closed, Interested
<1>8. QED
  BY <1>1, <1>2, <1>3, <1>4, <1>5, <1>6, <1>7 DEF Next

\* Once a job is published, cancelled or expired and no session is at work on
\* it, no claim, request, retry or recovery pass opens or posts it again.
THEOREM ClosedForGood == Spec => ClosedJobsStayClosed
<1>1. LedgerInv /\ [Next]_vars
        => [\A j \in Jobs : Closed(j) => Closed(j)' /\ posts'[j] = posts[j]]_vars
  BY NextClosed DEF LedgerInv
<1>2. QED
  BY <1>1, LedgerInvariant, PTL DEF Spec, ClosedJobsStayClosed

-----------------------------------------------------------------------------
(* Posts and their history *)

\* Every post is recorded, about to be recorded, or was lost to a fault.
Recorded ==
    \A j \in Jobs : /\ history[j] + Cardinality(Savers(j)) <= posts[j]
                    /\ posts[j] <= history[j] + Cardinality(Savers(j)) + faults

LEMMA SaverCount ==
    ASSUME NEW j, NEW s \in Publishers
    PROVE  /\ Cardinality(Savers(j)) \in Nat
           /\ Cardinality(Savers(j) \cup {s}) =
                IF s \in Savers(j) THEN Cardinality(Savers(j)) ELSE Cardinality(Savers(j)) + 1
           /\ Cardinality(Savers(j) \ {s}) =
                IF s \in Savers(j) THEN Cardinality(Savers(j)) - 1 ELSE Cardinality(Savers(j))
<1>1. Savers(j) \in SUBSET Publishers
  BY HoldersArePublishers
<1>2. QED
  BY <1>1, SessionCount, Zenon

\* A step that neither posts nor records, and takes no saver away except for a
\* fault.
LEMMA NothingRecorded ==
    ASSUME TypeOK, Recorded, UNCHANGED <<history, posts>>, NEW s,
           \/ /\ \A j \in Jobs : Savers(j)' = Savers(j)
              /\ faults' \in Nat /\ faults' >= faults
           \/ /\ s \in Publishers
              /\ \A j \in Jobs : Savers(j)' = Savers(j) \ {s}
              /\ faults' = faults + 1
    PROVE  Recorded'
<1> SUFFICES ASSUME NEW j \in Jobs
             PROVE  /\ history'[j] + Cardinality(Savers(j)') <= posts'[j]
                    /\ posts'[j] <= history'[j] + Cardinality(Savers(j)') + faults'
  BY DEF Recorded
<1>1. /\ history[j] \in Nat /\ posts[j] \in Nat /\ faults \in Nat
      /\ history[j] + Cardinality(Savers(j)) <= posts[j]
      /\ posts[j] <= history[j] + Cardinality(Savers(j)) + faults
  BY DEF TypeOK, Recorded
<1>2. Cardinality(Savers(j)) \in Nat
  BY HoldersArePublishers, SessionSubset
<1>3. \/ Cardinality(Savers(j)') = Cardinality(Savers(j)) /\ faults' \in Nat /\ faults' >= faults
      \/ /\ Cardinality(Savers(j)') \in {Cardinality(Savers(j)) - 1, Cardinality(Savers(j))}
         /\ faults' = faults + 1
  BY SaverCount
<1>4. QED
  BY <1>1, <1>2, <1>3

LEMMA FinishSavers ==
    ASSUME TypeOK, NEW s \in Sessions, Restart(s) \/ \E k, f : FinishJob(s, k, f)
    PROVE  \A j \in Jobs : Savers(j)' = Savers(j) \ {s}
<1>1. /\ pc'[s] # "save"
      /\ \A t \in Publishers : t # s => pc'[t] = pc[t] /\ cur'[t] = cur[t]
  BY DEF TypeOK, Restart, FinishJob, Sessions
<1>2. QED
  BY <1>1 DEF Savers

\* SavePublished moves a post from its saver to the history.
LEMMA SaveRecorded ==
    ASSUME TypeOK, InBatch, Recorded, NEW s \in Publishers, SavePublished(s)
    PROVE  Recorded'
<1> SUFFICES ASSUME NEW j \in Jobs
             PROVE  /\ history'[j] + Cardinality(Savers(j)') <= posts'[j]
                    /\ posts'[j] <= history'[j] + Cardinality(Savers(j)') + faults'
  BY DEF Recorded
<1>s. s \in Sessions /\ pc[s] = "save"
  BY DEF Sessions, SavePublished
<1>1. /\ history[j] \in Nat /\ posts[j] \in Nat /\ faults \in Nat
      /\ history[j] + Cardinality(Savers(j)) <= posts[j]
      /\ posts[j] <= history[j] + Cardinality(Savers(j)) + faults
  BY DEF TypeOK, Recorded
<1>2. posts' = posts /\ faults' \in Nat /\ faults' >= faults
  BY <1>1 DEF SavePublished, Fault, platform, budgets
<1>3. history'[j] = IF j = cur[s] THEN history[j] + 1 ELSE history[j]
  BY DEF TypeOK, SavePublished, CreateHistory
<1>4. Savers(j)' = Savers(j) \ {s}
  BY <1>s, FinishSavers DEF SavePublished
<1>5. s \in Savers(j) <=> j = cur[s]
  BY <1>s DEF Savers
<1>6. /\ Cardinality(Savers(j)) \in Nat
      /\ Cardinality(Savers(j)') = IF j = cur[s] THEN Cardinality(Savers(j)) - 1
                                                 ELSE Cardinality(Savers(j))
  BY <1>4, <1>5, SaverCount
<1>7. QED
  BY <1>1, <1>2, <1>3, <1>6

\* ProviderAccepts makes a post and its saver.
LEMMA AcceptRecorded ==
    ASSUME TypeOK, InBatch, Recorded, NEW s \in Publishers, ProviderAccepts(s)
    PROVE  Recorded'
<1> SUFFICES ASSUME NEW j \in Jobs
             PROVE  /\ history'[j] + Cardinality(Savers(j)') <= posts'[j]
                    /\ posts'[j] <= history'[j] + Cardinality(Savers(j)') + faults'
  BY DEF Recorded
<1>s. s \in Sessions /\ pc[s] = "publish" /\ Publishers \subseteq Sessions
  BY DEF Sessions, ProviderAccepts
<1>1. /\ history[j] \in Nat /\ posts[j] \in Nat /\ faults \in Nat
      /\ history[j] + Cardinality(Savers(j)) <= posts[j]
      /\ posts[j] <= history[j] + Cardinality(Savers(j)) + faults
  BY DEF TypeOK, Recorded
<1>2. /\ history' = history /\ faults' = faults
      /\ posts'[j] = IF j = cur[s] THEN posts[j] + 1 ELSE posts[j]
  BY DEF TypeOK, ProviderAccepts, rows, budgets
<1>3. Savers(j)' = IF j = cur[s] THEN Savers(j) \cup {s} ELSE Savers(j)
  BY <1>s DEF TypeOK, ProviderAccepts, Savers
<1>4. s \notin Savers(j)
  BY <1>s DEF Savers
<1>5. /\ Cardinality(Savers(j)) \in Nat
      /\ Cardinality(Savers(j)') = IF j = cur[s] THEN Cardinality(Savers(j)) + 1
                                                 ELSE Cardinality(Savers(j))
  BY <1>3, <1>4, SaverCount
<1>6. QED
  BY <1>1, <1>2, <1>5

LEMMA ProcessJobRecorded ==
    ASSUME TypeOK, TypeOK', InBatch, Recorded, NEW s \in Publishers, ProcessJob(s)
    PROVE  Recorded'
<1>s. s \in Sessions /\ Publishers \subseteq Sessions /\ faults \in Nat /\ faults' \in Nat
  BY DEF Sessions, TypeOK
<1>1. ASSUME NEW j \in Jobs, LoadJob(s, j) PROVE Recorded'
  <2>1. \A k \in Jobs : Savers(k)' = Savers(k)
    BY <1>s, <1>1 DEF TypeOK, LoadJob, Savers
  <2>2. UNCHANGED <<history, posts, faults>>
    BY <1>1 DEF LoadJob, rows, platform, budgets
  <2>3. QED
    BY <1>s, <2>1, <2>2, NothingRecorded
<1>2. ASSUME pc[s] # "save", NEW k, NEW f, FinishJob(s, k, f),
             UNCHANGED <<history, posts>>, faults' >= faults
      PROVE  Recorded'
  <2>1. \A j \in Jobs : Savers(j)' = Savers(j)
    BY <1>s, <1>2, FinishSavers DEF Savers
  <2>2. QED
    BY <1>s, <1>2, <2>1, NothingRecorded
<1>3. CASE (\E j \in Jobs : LoadRaises(s, j)) \/ ExpireJob(s) \/ MarkFailure(s)
  BY <1>s, <1>2, <1>3 DEF LoadRaises, ExpireJob, MarkFailure, rows, platform, budgets
<1>4. CASE CircuitOpen(s) \/ ProviderRefuses(s)
  <2>1. /\ pc[s] # "save" /\ UNCHANGED <<history, posts>>
        /\ \E k, f : FinishJob(s, k, f)
    BY <1>4 DEF CircuitOpen, ProviderRefuses, MarkRetry, platform
  <2>2. faults' >= faults
    BY <1>s, <1>4 DEF CircuitOpen, ProviderRefuses, Fault, budgets
  <2>3. QED
    BY <1>2, <2>1, <2>2
<1>5. CASE ProviderAccepts(s)
  BY <1>5, AcceptRecorded
<1>6. CASE SavePublished(s)
  BY <1>6, SaveRecorded
<1>7. CASE ProcessingRaises(s)
  <2>1. \A j \in Jobs : Savers(j)' = Savers(j) \ {s}
    BY <1>s, <1>7, FinishSavers DEF ProcessingRaises
  <2>2. UNCHANGED <<history, posts>> /\ faults' = faults + 1
    BY <1>7 DEF ProcessingRaises, Fault, rows, platform
  <2>3. QED
    BY <2>1, <2>2, NothingRecorded
<1>8. QED
  BY <1>1, <1>3, <1>4, <1>5, <1>6, <1>7 DEF ProcessJob

LEMMA NextRecorded == TypeOK /\ TypeOK' /\ InBatch /\ Recorded /\ [Next]_vars => Recorded'
<1> SUFFICES ASSUME TypeOK, TypeOK', InBatch, Recorded, [Next]_vars PROVE Recorded'
  OBVIOUS
<1>s. /\ Workers \subseteq Publishers /\ Clients \subseteq Publishers
      /\ Publishers \subseteq Sessions /\ Recoverers \subseteq Sessions
      /\ Recoverers \cap Publishers = {}
      /\ faults \in Nat /\ faults' \in Nat
  BY QueueAssumption DEF QueueAssumption, Sessions, Publishers, TypeOK
<1>1. ASSUME NEW w \in Workers, WorkerStep(w) PROVE Recorded'
  <2>1. CASE SelectCandidates(w) \/ ClaimCandidates(w)
    <3>1. \A j \in Jobs : Savers(j)' = Savers(j)
      BY <1>s, <2>1 DEF TypeOK, SelectCandidates, ClaimCandidates, Savers
    <3>2. UNCHANGED <<history, posts, faults>>
      BY <2>1 DEF SelectCandidates, ClaimCandidates, rows, platform, budgets
    <3>3. QED
      BY <1>s, <3>1, <3>2, NothingRecorded
  <2>2. QED
    BY <1>s, <1>1, <2>1, ProcessJobRecorded DEF WorkerStep
<1>2. ASSUME NEW c \in Clients, NewRequest(c) \/ ClientStep(c) PROVE Recorded'
  <2>1. ASSUME NEW j \in Jobs, SchedulePublish(c, j) PROVE Recorded'
    BY <2>1 DEF SchedulePublish, sessions, budgets, Recorded, Savers
  <2>2. ASSUME NEW j \in Jobs,
               PublishNow(c, j) \/ \E step \in {"retry", "cancel"} : ReadForRequest(c, j, step)
        PROVE  Recorded'
    <3>1. \A k \in Jobs : Savers(k)' = Savers(k)
      BY <1>s, <2>2 DEF TypeOK, PublishNow, ReadForRequest, Savers
    <3>2. UNCHANGED <<history, posts, faults>>
      BY <2>2 DEF PublishNow, ReadForRequest, Request, rows, platform, budgets
    <3>3. QED
      BY <1>s, <3>1, <3>2, NothingRecorded
  <2>3. CASE CommitRetry(c) \/ CommitCancel(c)
    <3>1. \A k \in Jobs : Savers(k)' = Savers(k)
      BY <1>s, <2>3, FinishSavers DEF CommitRetry, CommitCancel, Savers
    <3>2. UNCHANGED <<history, posts, faults>>
      BY <2>3 DEF CommitRetry, CommitCancel, platform, budgets
    <3>3. QED
      BY <1>s, <3>1, <3>2, NothingRecorded
  <2>4. QED
    BY <1>s, <1>2, <2>1, <2>2, <2>3, ProcessJobRecorded
    DEF NewRequest, ClientStep, RequestRetry, RequestCancel
<1>3. ASSUME NEW r \in Recoverers, ListDeadLetters(r) \/ RecoverDeadLetters(r)
      PROVE  Recorded'
  <2>1. \A k \in Jobs : Savers(k)' = Savers(k)
    BY <1>s, <1>3 DEF TypeOK, ListDeadLetters, RecoverDeadLetters, Restart, Savers
  <2>2. UNCHANGED <<history, posts, faults>>
    BY <1>3 DEF ListDeadLetters, RecoverDeadLetters, Request, rows, platform, budgets
  <2>3. QED
    BY <1>s, <2>1, <2>2, NothingRecorded
<1>4. ASSUME NEW s \in Sessions, Crash(s) PROVE Recorded'
  <2>1. UNCHANGED <<history, posts>> /\ faults' = faults + 1
    BY <1>4 DEF Crash, Fault, rows, platform
  <2>2. \A k \in Jobs : Savers(k)' = Savers(k) \ {s}
    BY <1>4, FinishSavers DEF Crash
  <2>3. CASE s \in Publishers
    BY <2>1, <2>2, <2>3, NothingRecorded
  <2>4. CASE s \notin Publishers
    <3>1. \A k \in Jobs : Savers(k)' = Savers(k)
      BY <2>2, <2>4, HoldersArePublishers
    <3>2. QED
      BY <1>s, <2>1, <3>1, NothingRecorded
  <2>5. QED
    BY <2>3, <2>4
<1>5. ASSUME NEW j \in Jobs, BecomeVisible(j) \/ ExpiryPasses(j) PROVE Recorded'
  BY <1>5 DEF BecomeVisible, ExpiryPasses, sessions, platform, budgets, Recorded, Savers
<1>6. CASE UNCHANGED vars
  BY <1>6 DEF vars, rows, sessions, platform, budgets, Recorded, Savers
<1>7. QED
  BY <1>1, <1>2, <1>3, <1>4, <1>5, <1>6 DEF Next

\* A post the platform accepted is missing from the history only while its
\* session has still to commit, or after a fault, and the history records no
\* post that was not made.
THEOREM PostsRecorded == Spec => []PostsAccountedFor
<1>1. Init => Recorded
  <2> SUFFICES ASSUME Init PROVE Recorded
    OBVIOUS
  <2>1. \A j \in Jobs : Savers(j) = {}
    BY DEF Init, Savers, Sessions
  <2>2. \A j \in Jobs : Cardinality(Savers(j)) = 0
    BY <2>1, FS_EmptySet, Zenon
  <2>3. \A j \in Jobs : posts[j] = 0 /\ history[j] = 0 /\ faults = 0
    BY DEF Init
  <2>4. QED
    BY <2>2, <2>3 DEF Recorded
<1>2. LedgerInv /\ TypeOK' /\ Recorded /\ [Next]_vars => Recorded'
  BY NextRecorded DEF LedgerInv
<1>3. TypeOK /\ Recorded => PostsAccountedFor
  <2> SUFFICES ASSUME TypeOK, Recorded, NEW j \in Jobs
               PROVE  /\ history[j] <= posts[j]
                      /\ posts[j] <= history[j] + Cardinality(Savers(j)) + faults
    BY DEF PostsAccountedFor
  <2>1. history[j] \in Nat /\ posts[j] \in Nat
    BY DEF TypeOK
  <2>2. Cardinality(Savers(j)) \in Nat
    BY HoldersArePublishers, SessionSubset
  <2>3. QED
    BY <2>1, <2>2 DEF Recorded
<1>4. QED
  BY <1>1, <1>2, <1>3, TypeCorrect, LedgerInvariant, PTL DEF Spec

-----------------------------------------------------------------------------
(* Claimed rows have an owner *)

\* A session at work on j that will rewrite a row that is "publishing": it has
\* not read the queue row yet, or has read it so.
Owner(s, j) ==
    /\ j \in batch[s] /\ pc[s] # "claim"
    /\ cur[s] = j => seen[s].queue \in {"publishing", "unread"}

\* Where a publisher has no job in hand, and where it has no batch.
AtRest ==
    \A s \in Publishers :
        /\ pc[s] \in {"idle", "claim", "next"} => cur[s] = NoJob
        /\ pc[s] \in {"idle", "retry", "cancel"} => batch[s] = {}

Owned ==
    \A j \in Jobs :
        queue[j] = "publishing" /\ faults = 0 /\ ExpiryReadable(j)
            => \E s \in Publishers : Owner(s, j)

\* What it takes for a step to keep rows owned: no row is claimed, and an
\* owner stays one unless the row is released.
Releases ==
    \A j \in Jobs :
        queue'[j] = "publishing" /\ faults' = 0 /\ ExpiryReadable(j)' =>
            /\ queue[j] = "publishing" /\ faults = 0 /\ ExpiryReadable(j)
            /\ \A s \in Publishers : Owner(s, j) => Owner(s, j)'

LEMMA ReleasesOwned == Owned /\ Releases => Owned'
    BY DEF Owned, Releases

\* A session that is done with k, or starts again, lets go of nothing else.
LEMMA FinishOwner ==
    ASSUME TypeOK, AtRest, NEW s \in Publishers, NEW k, NEW f, FinishJob(s, k, f)
    PROVE  /\ AtRest'
           /\ \A t \in Publishers, j \in Jobs :
                  Owner(t, j) /\ (t = s => j # k) => Owner(t, j)'
<1>1. /\ s \in Sessions /\ Publishers \subseteq Sessions
      /\ NoJob \notin Jobs
  BY QueueAssumption DEF QueueAssumption, Sessions
<1>2. /\ batch'[s] = batch[s] \ {k} /\ cur'[s] = NoJob
      /\ pc'[s] = IF batch[s] \ {k} = {} THEN "idle" ELSE "next"
  BY <1>1 DEF TypeOK, FinishJob, Rest
<1>3. \A t \in Publishers : t # s => /\ batch'[t] = batch[t] /\ pc'[t] = pc[t]
                                     /\ cur'[t] = cur[t] /\ seen'[t] = seen[t]
  BY <1>1 DEF TypeOK, FinishJob
<1>4. AtRest'
  BY <1>2, <1>3 DEF AtRest
<1>5. ASSUME NEW t \in Publishers, NEW j \in Jobs, Owner(t, j), t = s => j # k
      PROVE  Owner(t, j)'
  <2>1. CASE t = s
    BY <1>1, <1>2, <1>5, <2>1 DEF Owner
  <2>2. CASE t # s
    BY <1>3, <1>5, <2>2 DEF Owner
  <2> QED BY <2>1, <2>2
<1> QED BY <1>4, <1>5

LEMMA RestartOwner ==
    ASSUME TypeOK, AtRest, NEW s \in Sessions, Restart(s)
    PROVE  /\ AtRest'
           /\ \A t \in Publishers, j \in Jobs : Owner(t, j) /\ t # s => Owner(t, j)'
<1>1. Publishers \subseteq Sessions
  BY DEF Sessions
<1>2. /\ batch'[s] = {} /\ cur'[s] = NoJob /\ pc'[s] = "idle"
      /\ \A t \in Publishers : t # s => /\ batch'[t] = batch[t] /\ pc'[t] = pc[t]
                                        /\ cur'[t] = cur[t] /\ seen'[t] = seen[t]
  BY <1>1 DEF TypeOK, Restart
<1>3. AtRest'
  BY <1>2 DEF AtRest
<1> QED BY <1>2, <1>3 DEF Owner

\* A row that is still "publishing" after an owner has written was not its own.
LEMMA WriteReleases ==
    ASSUME TypeOK, NEW s \in Sessions, NEW new \in JobStatus, WriteStatus(s, new)
    PROVE  \A j \in Jobs : queue'[j] = "publishing" =>
               /\ queue[j] = "publishing"
               /\ j = cur[s] => ~Owner(s, j)
<1>1. new \notin {"publishing", "unread"}
  BY DEF JobStatus, Claimable, Final
<1>2. \A j \in Jobs : queue'[j] = IF j = cur[s] /\ seen[s].queue # new THEN new ELSE queue[j]
  BY DEF TypeOK, WriteStatus, Written
<1> QED BY <1>1, <1>2 DEF Owner

LEMMA ProcessJobOwned ==
    ASSUME TypeOK, InBatch, AtRest, Owned, NEW s \in Publishers, ProcessJob(s)
    PROVE  AtRest' /\ Owned'
<1>s. s \in Sessions /\ Publishers \subseteq Sessions /\ NoJob \notin Jobs /\ faults \in Nat
  BY QueueAssumption DEF QueueAssumption, Sessions, TypeOK
<1>w. pc[s] \in {"expire", "publish", "save"} => cur[s] \in Jobs
  BY <1>s DEF InBatch, TypeOK
<1>1. ASSUME NEW j \in Jobs, LoadJob(s, j) PROVE AtRest' /\ Owned'
  <2>1. /\ UNCHANGED rows /\ UNCHANGED budgets /\ batch' = batch
        /\ pc'[s] \in {"expire", "publish"} /\ pc[s] = "next"
        /\ cur'[s] = j /\ seen'[s].queue \in {queue[j], "unread"}
        /\ \A t \in Publishers : t # s => pc'[t] = pc[t] /\ cur'[t] = cur[t] /\ seen'[t] = seen[t]
    BY <1>s, <1>1 DEF TypeOK, LoadJob
  <2>2. AtRest'
    BY <2>1 DEF AtRest
  <2>3. Releases
    <3> SUFFICES ASSUME NEW k \in Jobs, queue'[k] = "publishing", faults' = 0,
                        ExpiryReadable(k)', NEW t \in Publishers, Owner(t, k)
                 PROVE  Owner(t, k)'
      BY <2>1 DEF Releases, rows, budgets, ExpiryReadable
    <3>1. CASE t = s
      BY <2>1, <3>1 DEF Owner, rows
    <3>2. CASE t # s
      BY <2>1, <3>2 DEF Owner
    <3> QED BY <3>1, <3>2
  <2> QED BY <2>2, <2>3, ReleasesOwned
<1>2. ASSUME NEW j \in Jobs, LoadRaises(s, j) PROVE AtRest' /\ Owned'
  <2>1. /\ UNCHANGED <<queue, expiry, faults>> /\ ~ExpiryReadable(j)
        /\ FinishJob(s, j, failures[s])
    BY <1>2 DEF LoadRaises, rows, budgets
  <2>2. Releases
    BY <2>1, FinishOwner DEF Releases, ExpiryReadable
  <2> QED BY <2>1, <2>2, FinishOwner, ReleasesOwned
<1>3. ASSUME NEW new \in JobStatus, NEW f, WriteStatus(s, new), FinishJob(s, cur[s], f),
             faults' >= faults, expiry' = expiry
      PROVE  AtRest' /\ Owned'
  <2>1. \A t \in Publishers, j \in Jobs : Owner(t, j) /\ (t = s => j # cur[s]) => Owner(t, j)'
    BY <1>3, FinishOwner
  <2>2. Releases
    BY <1>s, <1>3, <2>1, WriteReleases DEF Releases, ExpiryReadable
  <2> QED BY <1>3, <2>2, FinishOwner, ReleasesOwned
<1>4. {"expired", "failed", "retry", "published"} \subseteq JobStatus
  BY DEF JobStatus, Claimable, Final
<1>5. CASE ExpireJob(s) \/ MarkFailure(s)
  BY <1>s, <1>3, <1>4, <1>5 DEF ExpireJob, MarkFailure, budgets
<1>6. CASE CircuitOpen(s) \/ ProviderRefuses(s)
  <2>1. PICK f : MarkRetry(s, f) /\ faults' >= faults
    BY <1>s, <1>6 DEF CircuitOpen, ProviderRefuses, Fault, budgets
  <2>2. PICK new \in JobStatus : WriteStatus(s, new)
    BY <1>4, <2>1 DEF MarkRetry
  <2> QED BY <1>3, <2>1, <2>2 DEF MarkRetry
<1>7. CASE ProviderAccepts(s)
  <2>1. /\ UNCHANGED <<rows, batch, cur, seen, faults>> /\ pc[s] = "publish" /\ pc'[s] = "save"
        /\ \A t \in Publishers : t # s => pc'[t] = pc[t]
    BY <1>s, <1>7 DEF TypeOK, ProviderAccepts, budgets
  <2>2. AtRest'
    BY <2>1 DEF AtRest
  <2>3. \A t \in Publishers : pc'[t] = "claim" => pc[t] = "claim"
    BY <2>1
  <2>4. Releases
    BY <2>1, <2>3 DEF Releases, Owner, rows, ExpiryReadable
  <2> QED BY <2>2, <2>4, ReleasesOwned
<1>8. CASE SavePublished(s)
  <2>1. PICK f : FinishJob(s, cur[s], f) /\ faults' >= faults
    BY <1>s, <1>8 DEF SavePublished, Fault, budgets
  <2> QED BY <1>3, <1>4, <1>8, <2>1 DEF SavePublished
<1>9. CASE ProcessingRaises(s)
  <2>1. faults' = faults + 1 /\ FinishJob(s, cur[s], failures[s])
    BY <1>9 DEF ProcessingRaises, Fault
  <2>2. Releases
    BY <1>s, <2>1 DEF Releases
  <2> QED BY <2>1, <2>2, FinishOwner, ReleasesOwned
<1> QED BY <1>1, <1>2, <1>5, <1>6, <1>7, <1>8, <1>9 DEF ProcessJob

\* The claim takes rows and has them in its batch.
LEMMA ClaimOwned ==
    ASSUME TypeOK, AtRest, Owned, NEW w \in Workers, ClaimCandidates(w)
    PROVE  AtRest' /\ Owned'
<1> DEFINE claimed == {k \in batch[w] : StillClaimable(k)}
<1>1. /\ w \in Publishers /\ w \in Sessions /\ Publishers \subseteq Sessions
      /\ NoJob \notin Jobs /\ claimed \subseteq Jobs
  BY QueueAssumption DEF QueueAssumption, Publishers, Sessions, TypeOK
<1>2. /\ pc[w] = "claim" /\ cur[w] = NoJob
      /\ UNCHANGED <<expiry, faults, cur, seen>>
      /\ batch'[w] = claimed /\ pc'[w] = IF claimed = {} THEN "idle" ELSE "next"
      /\ \A t \in Publishers : t # w => batch'[t] = batch[t] /\ pc'[t] = pc[t]
      /\ \A j \in Jobs : queue'[j] = IF j \in claimed THEN "publishing" ELSE queue[j]
  BY <1>1 DEF TypeOK, ClaimCandidates, AtRest, budgets
<1> HIDE DEF claimed
<1>3. AtRest'
  BY <1>2 DEF AtRest
<1>4. ASSUME NEW j \in Jobs, queue'[j] = "publishing", faults' = 0, ExpiryReadable(j)'
      PROVE  \E t \in Publishers : Owner(t, j)'
  <2>1. CASE j \in claimed
    <3>1. Owner(w, j)'
      BY <1>1, <1>2, <2>1 DEF Owner
    <3> QED BY <1>1, <3>1
  <2>2. CASE j \notin claimed
    <3>1. PICK t \in Publishers : Owner(t, j)
      BY <1>2, <1>4, <2>2 DEF Owned, ExpiryReadable
    <3>2. t # w
      BY <1>2, <3>1 DEF Owner
    <3>3. Owner(t, j)'
      BY <1>2, <3>1, <3>2 DEF Owner
    <3> QED BY <3>3
  <2> QED BY <2>1, <2>2
<1> QED BY <1>3, <1>4 DEF Owned

LEMMA ClientOwned ==
    ASSUME TypeOK, InBatch, AtRest, Owned, NEW c \in Clients, NewRequest(c) \/ ClientStep(c)
    PROVE  AtRest' /\ Owned'
<1>s. c \in Publishers /\ c \in Sessions /\ Publishers \subseteq Sessions
  BY DEF Publishers, Sessions
<1>e. pc[c] \in {"idle", "retry", "cancel"} => \A j : ~Owner(c, j)
  BY <1>s DEF AtRest, Owner
<1>1. ASSUME NEW j \in Jobs, SchedulePublish(c, j) PROVE AtRest' /\ Owned'
  <2>1. /\ UNCHANGED <<sessions, faults>> /\ queue'[j] = "scheduled"
        /\ \A k \in Jobs : k # j => queue'[k] = queue[k] /\ expiry'[k] = expiry[k]
    BY <1>1 DEF TypeOK, SchedulePublish, budgets
  <2>2. Releases
    BY <2>1 DEF Releases, Owner, sessions, ExpiryReadable
  <2> QED BY <2>1, <2>2, ReleasesOwned DEF AtRest, sessions
<1>2. ASSUME NEW j \in Jobs, PublishNow(c, j) PROVE AtRest' /\ Owned'
  <2>1. /\ UNCHANGED <<expiry, faults, cur, seen>> /\ pc[c] = "idle" /\ pc'[c] = "next"
        /\ queue'[j] = "pending" /\ \A k \in Jobs : k # j => queue'[k] = queue[k]
        /\ \A t \in Publishers : t # c => batch'[t] = batch[t] /\ pc'[t] = pc[t]
    BY <1>s, <1>2 DEF TypeOK, PublishNow, budgets
  <2>2. AtRest'
    BY <1>s, <2>1 DEF AtRest
  <2>3. Releases
    BY <1>e, <2>1 DEF Releases, Owner, ExpiryReadable
  <2> QED BY <2>2, <2>3, ReleasesOwned
<1>3. ASSUME NEW j \in Jobs, NEW step \in {"retry", "cancel"}, ReadForRequest(c, j, step)
      PROVE  AtRest' /\ Owned'
  <2>1. /\ UNCHANGED <<rows, faults, batch>> /\ pc[c] = "idle" /\ pc'[c] = step
        /\ \A t \in Publishers : t # c => /\ pc'[t] = pc[t] /\ cur'[t] = cur[t]
                                          /\ seen'[t] = seen[t]
    BY <1>s, <1>3 DEF TypeOK, ReadForRequest, Request
  <2>2. AtRest'
    BY <1>s, <2>1 DEF AtRest
  <2>3. Releases
    BY <1>e, <2>1 DEF Releases, Owner, rows, ExpiryReadable
  <2> QED BY <2>2, <2>3, ReleasesOwned
<1>4. CASE CommitRetry(c) \/ CommitCancel(c)
  <2>1. PICK new \in JobStatus : WriteStatus(c, new)
    BY <1>4 DEF CommitRetry, CommitCancel, JobStatus, Claimable, Final
  <2>2. /\ UNCHANGED <<expiry, faults>> /\ Restart(c) /\ pc[c] \in {"retry", "cancel"}
    BY <1>4 DEF CommitRetry, CommitCancel, budgets
  <2>3. Releases
    BY <1>s, <1>e, <2>1, <2>2, WriteReleases, RestartOwner DEF Releases, ExpiryReadable
  <2> QED BY <1>s, <2>2, <2>3, RestartOwner, ReleasesOwned
<1> QED
  BY <1>s, <1>1, <1>2, <1>3, <1>4, ProcessJobOwned
  DEF NewRequest, ClientStep, RequestRetry, RequestCancel

LEMMA NextOwned ==
    ASSUME TypeOK, InBatch, AtRest, Owned, [Next]_vars
    PROVE  AtRest' /\ Owned'
<1>s. /\ Workers \subseteq Publishers /\ Publishers \subseteq Sessions
      /\ Recoverers \subseteq Sessions /\ Recoverers \cap Publishers = {}
      /\ faults \in Nat
  BY QueueAssumption DEF QueueAssumption, Sessions, Publishers, TypeOK
<1>1. ASSUME NEW w \in Workers, WorkerStep(w) PROVE AtRest' /\ Owned'
  <2>1. CASE SelectCandidates(w)
    <3>1. /\ UNCHANGED <<rows, faults, cur, seen>> /\ pc[w] = "idle" /\ pc'[w] = "claim"
          /\ \A t \in Publishers : t # w => batch'[t] = batch[t] /\ pc'[t] = pc[t]
      BY <1>s, <2>1 DEF TypeOK, SelectCandidates, budgets
    <3>2. AtRest' /\ \A j : ~Owner(w, j)
      BY <1>s, <3>1 DEF AtRest, Owner
    <3>3. Releases
      BY <3>1, <3>2 DEF Releases, Owner, rows, ExpiryReadable
    <3> QED BY <3>2, <3>3, ReleasesOwned
  <2> QED BY <1>s, <1>1, <2>1, ClaimOwned, ProcessJobOwned DEF WorkerStep
<1>2. ASSUME NEW c \in Clients, NewRequest(c) \/ ClientStep(c) PROVE AtRest' /\ Owned'
  BY <1>2, ClientOwned
<1>3. ASSUME NEW r \in Recoverers, ListDeadLetters(r) \/ RecoverDeadLetters(r)
      PROVE  AtRest' /\ Owned'
  <2>1. /\ UNCHANGED <<expiry, faults>>
        /\ \A j \in Jobs : queue'[j] \in {"retry", queue[j]}
        /\ \A t \in Publishers : /\ batch'[t] = batch[t] /\ pc'[t] = pc[t]
                                 /\ cur'[t] = cur[t] /\ seen'[t] = seen[t]
    BY <1>s, <1>3
    DEF TypeOK, ListDeadLetters, RecoverDeadLetters, Restart, Request, rows, budgets
  <2>2. AtRest' /\ Releases
    BY <2>1 DEF AtRest, Releases, Owner, ExpiryReadable
  <2> QED BY <2>2, ReleasesOwned
<1>4. ASSUME NEW s \in Sessions, Crash(s) PROVE AtRest' /\ Owned'
  <2>1. faults' = faults + 1 /\ Restart(s)
    BY <1>4 DEF Crash, Fault
  <2>2. Releases
    BY <1>s, <2>1 DEF Releases
  <2> QED BY <2>1, <2>2, RestartOwner, ReleasesOwned
<1>5. ASSUME NEW j \in Jobs, BecomeVisible(j) \/ ExpiryPasses(j) PROVE AtRest' /\ Owned'
  <2>1. /\ UNCHANGED <<queue, faults, sessions>>
        /\ \A k \in Jobs : ExpiryReadable(k)' => ExpiryReadable(k)
    BY <1>5 DEF TypeOK, BecomeVisible, ExpiryPasses, budgets, ExpiryReadable
  <2>2. AtRest' /\ Releases
    BY <2>1 DEF AtRest, Releases, Owner, sessions
  <2> QED BY <2>2, ReleasesOwned
<1>6. CASE UNCHANGED vars
  BY <1>6 DEF vars, rows, sessions, budgets, AtRest, Owned, Owner, ExpiryReadable
<1> QED
  BY <1>1, <1>2, <1>3, <1>4, <1>5, <1>6 DEF Next

\* However claims, recovery passes and stale writes cross, a row is
\* "publishing" only while a session that will rewrite it is at work, but for
\* faults and jobs whose expires_at cannot be compared with the clock.
THEOREM RowsAreOwned == Spec => []ClaimHasOwner
<1>1. Init => AtRest /\ Owned
  BY DEF Init, AtRest, Owned, Sessions
<1>2. LedgerInv /\ AtRest /\ Owned /\ [Next]_vars => AtRest' /\ Owned'
  BY NextOwned DEF LedgerInv
<1>3. Owned => ClaimHasOwner
  BY DEF Owned, Owner, ClaimHasOwner
<1> QED
  BY <1>1, <1>2, <1>3, LedgerInvariant, PTL DEF Spec

-----------------------------------------------------------------------------
(* Retries are bounded by the permits *)

\* A retry counter x of j that is beyond the limit is paid for by permits that
\* are neither in the hands of a session nor on the queue row.
Charged(x, j) ==
    \/ x <= MaxRetries
    \/ x + Cardinality(Holders(j)) + Queued(j) <= MaxRetries + permits[j]

\* The stored counter is paid for, and so is every one that a session has read
\* and may write back increased.
RetryInv ==
    /\ \A j \in Jobs : Charged(retries[j], j)
    /\ \A s \in Publishers : pc[s] = "publish" => Charged(seen[s].retries, cur[s])

LEMMA PostsGrow ==
    ASSUME LedgerInv, [Next]_vars
    PROVE  \A j \in Jobs : posts'[j] >= posts[j]
<1>1. [Ledger!Next]_(Ledger!vars)
  BY NextLedger
<1>2. posts \in [Jobs -> Nat]
  BY DEF LedgerInv, TypeOK
<1> QED
  BY <1>1, <1>2 DEF Ledger!Next, Ledger!Grant, Ledger!Post, Ledger!vars

LEMMA Numbers ==
    ASSUME LedgerInv, TypeOK', NEW j \in Jobs
    PROVE  /\ Cardinality(Holders(j)) \in Nat /\ Cardinality(Holders(j)') \in Nat
           /\ Queued(j) \in Nat /\ Queued(j)' \in Nat
           /\ permits[j] \in Nat /\ permits'[j] \in Nat
           /\ posts[j] \in Nat /\ posts'[j] \in Nat
           /\ MaxRetries \in Nat
<1>1. Cardinality(Holders(j)) \in Nat /\ Cardinality(Holders(j)') \in Nat
  BY HoldersArePublishers, SessionSubset DEF Holders
<1> QED
  BY <1>1, QueueAssumption DEF QueueAssumption, LedgerInv, TypeOK, Queued

\* What is paid for stays so.
LEMMA ChargedStays ==
    ASSUME LedgerInv, TypeOK', [Next]_vars, NEW j \in Jobs, NEW x \in Nat, Charged(x, j)
    PROVE  Charged(x, j)'
<1>1. posts'[j] >= posts[j]
  BY PostsGrow
<1>2. posts'[j] + Cardinality(Holders(j)') + Queued(j)' + permits[j]
         <= posts[j] + Cardinality(Holders(j)) + Queued(j) + permits'[j]
  BY NextBalanced DEF Balanced
<1>3. /\ Cardinality(Holders(j)) \in Nat /\ Cardinality(Holders(j)') \in Nat
      /\ Queued(j) \in Nat /\ Queued(j)' \in Nat
      /\ permits[j] \in Nat /\ permits'[j] \in Nat
      /\ posts[j] \in Nat /\ posts'[j] \in Nat
      /\ MaxRetries \in Nat
  BY Numbers
<1>4. CASE x <= MaxRetries
  BY <1>4 DEF Charged
<1>5. CASE x + Cardinality(Holders(j)) + Queued(j) <= MaxRetries + permits[j]
  <2>1. x + Cardinality(Holders(j)') + Queued(j)' <= MaxRetries + permits'[j]
    BY <1>1, <1>2, <1>3, <1>5
  <2> QED BY <2>1 DEF Charged
<1> QED BY <1>4, <1>5 DEF Charged

\* Steps that write no counter, and where what a session reads is the stored
\* one.
LEMMA CountersKept ==
    ASSUME LedgerInv, TypeOK', RetryInv, [Next]_vars, retries' = retries,
           \A s \in Publishers : pc'[s] = "publish" =>
               \/ pc[s] = "publish" /\ cur'[s] = cur[s] /\ seen'[s] = seen[s]
               \/ cur'[s] \in Jobs /\ seen'[s].retries = retries[cur'[s]]
    PROVE  RetryInv'
<1>1. /\ TypeOK /\ InBatch /\ Publishers \subseteq Sessions
      /\ \A j \in Jobs : retries[j] \in Nat
      /\ \A s \in Publishers : seen[s].retries \in Nat
      /\ \A s \in Publishers : pc[s] = "publish" => cur[s] \in Jobs
  BY DEF LedgerInv, TypeOK, InBatch, Seen, Sessions
<1>2. ASSUME NEW j \in Jobs PROVE Charged(retries[j], j)'
  <2>1. PICK x \in Nat : x = retries[j]
    BY <1>1
  <2>2. Charged(x, j)'
    BY <2>1, ChargedStays DEF RetryInv
  <2> QED BY <2>1, <2>2 DEF Charged
<1>3. ASSUME NEW s \in Publishers, pc'[s] = "publish"
      PROVE  Charged(seen[s].retries, cur[s])'
  <2>1. PICK j \in Jobs, x \in Nat : j = cur'[s] /\ x = seen'[s].retries /\ Charged(x, j)
    BY <1>1, <1>3 DEF RetryInv
  <2>2. Charged(x, j)'
    BY <2>1, ChargedStays
  <2> QED BY <2>1, <2>2 DEF Charged, Holders, Queued
<1> QED BY <1>2, <1>3 DEF RetryInv

\* _mark_retry: the last retry costs the permit in hand, since the job goes to
\* the dead letters; the others stay within the limit.
LEMMA LastRetryPaid ==
    ASSUME LedgerInv, TypeOK', RetryInv, NEW s \in Publishers, NEW f, MarkRetry(s, f),
           NEW j \in Jobs, j = cur[s], NEW x \in Nat, x = seen[s].retries
    PROVE  Charged(x + 1, j)'
<1>1. /\ TypeOK /\ InBatch /\ s \in Sessions /\ pc[s] = "publish" /\ j \in batch[s]
      /\ Charged(x, j)
  BY DEF LedgerInv, InBatch, MarkRetry, Sessions, RetryInv
<1>2. CASE x + 1 <= MaxRetries
  BY <1>2 DEF Charged
<1>3. CASE ~(x + 1 <= MaxRetries)
  <2> DEFINE H == Cardinality(Holders(j))
             I == Cardinality(Holders(j)')
             Q == Queued(j)
             R == Queued(j)'
  <2>1. /\ H \in Nat /\ I \in Nat /\ Q \in Nat /\ R \in Nat
        /\ permits[j] \in Nat /\ posts[j] \in Nat /\ MaxRetries \in Nat
    BY Numbers
  <2>2. permits'[j] = permits[j]
    BY DEF MarkRetry, platform
  <2>3. s \in Holders(j) /\ Holders(j)' = Holders(j) \ {s}
    BY <1>1, FinishHolders DEF MarkRetry, Holders
  <2>4. I = H - 1
    BY <2>3, HolderCount
  <2>5. WriteStatus(s, "failed")
    BY <1>3, QueueAssumption DEF QueueAssumption, MarkRetry, Exhausted, RetryCount
  <2>6. R <= Q
    BY <1>1, <2>5, WriteQueued DEF Claimable
  <2>7. posts[j] + H + Q <= permits[j]
    BY DEF LedgerInv, Covered
  <2>8. x <= MaxRetries \/ x + H + Q <= MaxRetries + permits[j]
    BY <1>1 DEF Charged
  <2> HIDE DEF H, I, Q, R
  <2>9. x + 1 + I + R <= MaxRetries + permits[j]
    BY <1>3, <2>1, <2>4, <2>6, <2>7, <2>8
  <2> QED BY <2>2, <2>9 DEF Charged, I, R
<1> QED BY <1>2, <1>3

LEMMA MarkRetryCharged ==
    ASSUME LedgerInv, TypeOK', RetryInv, [Next]_vars, NEW s \in Publishers, NEW f,
           MarkRetry(s, f)
    PROVE  RetryInv'
<1>1. /\ TypeOK /\ InBatch /\ Publishers \subseteq Sessions /\ pc[s] = "publish"
  BY DEF LedgerInv, Sessions, MarkRetry
<1>2. PICK k \in Jobs, y \in Nat : k = cur[s] /\ y = seen[s].retries
  BY <1>1 DEF TypeOK, InBatch, Seen
<1>3. /\ \A j \in Jobs : retries'[j] = IF j = k THEN y + 1 ELSE retries[j]
      /\ pc'[s] \in {"idle", "next"}
      /\ \A t \in Publishers : t # s => pc'[t] = pc[t] /\ cur'[t] = cur[t] /\ seen'[t] = seen[t]
  BY <1>1, <1>2 DEF TypeOK, MarkRetry, RetryCount, FinishJob
<1>4. ASSUME NEW j \in Jobs PROVE Charged(retries[j], j)'
  <2>1. CASE j = k
    <3>1. Charged(y + 1, k)'
      BY <1>2, LastRetryPaid
    <3> QED BY <1>3, <2>1, <3>1 DEF Charged
  <2>2. CASE j # k
    <3>1. PICK x \in Nat : x = retries[j]
      BY <1>1 DEF TypeOK
    <3>2. Charged(x, j)'
      BY <3>1, ChargedStays DEF RetryInv
    <3> QED BY <1>3, <2>2, <3>1, <3>2 DEF Charged
  <2> QED BY <2>1, <2>2
<1>5. ASSUME NEW t \in Publishers, pc'[t] = "publish" PROVE Charged(seen[t].retries, cur[t])'
  <2>1. t # s
    BY <1>3, <1>5
  <2>2. PICK j \in Jobs, x \in Nat : j = cur[t] /\ x = seen[t].retries
    BY <1>1, <1>3, <1>5, <2>1 DEF TypeOK, InBatch, Seen
  <2>3. Charged(x, j)'
    BY <1>3, <1>5, <2>1, <2>2, ChargedStays DEF RetryInv
  <2> QED BY <1>3, <2>1, <2>2, <2>3 DEF Charged, Holders, Queued
<1> QED BY <1>4, <1>5 DEF RetryInv

\* No counter is written, and a session that reads one reads the stored one.
CountersRead ==
    /\ retries' = retries
    /\ \A s \in Publishers : pc'[s] = "publish" =>
          \/ pc[s] = "publish" /\ cur'[s] = cur[s] /\ seen'[s] = seen[s]
          \/ cur'[s] \in Jobs /\ seen'[s].retries = retries[cur'[s]]

\* Only _mark_retry writes a counter.
LEMMA CountersMove ==
    ASSUME TypeOK, [Next]_vars
    PROVE  CountersRead \/ \E s \in Publishers : \E f : MarkRetry(s, f)
<1>s. /\ Workers \subseteq Publishers /\ Clients \subseteq Publishers
      /\ Publishers \subseteq Sessions /\ Recoverers \subseteq Sessions
      /\ Recoverers \cap Publishers = {}
  BY QueueAssumption DEF QueueAssumption, Sessions, Publishers
<1>1. ASSUME NEW s \in Publishers, ProcessJob(s)
      PROVE  CountersRead \/ \E f : MarkRetry(s, f)
  <2>1. ASSUME NEW j \in Jobs, LoadJob(s, j) PROVE CountersRead
    BY <1>s, <2>1 DEF TypeOK, LoadJob, rows, CountersRead
  <2>2. ASSUME NEW k, NEW f, FinishJob(s, k, f), retries' = retries PROVE CountersRead
    BY <1>s, <2>2 DEF TypeOK, FinishJob, CountersRead
  <2>3. ASSUME \/ \E j \in Jobs : LoadRaises(s, j)
               \/ ExpireJob(s) \/ MarkFailure(s) \/ SavePublished(s) \/ ProcessingRaises(s)
        PROVE  CountersRead
    <3>1. retries' = retries /\ \E k, f : FinishJob(s, k, f)
      BY <2>3 DEF LoadRaises, ExpireJob, MarkFailure, SavePublished, ProcessingRaises, rows
    <3> QED BY <2>2, <3>1
  <2>4. ASSUME ProviderAccepts(s) PROVE CountersRead
    BY <1>s, <2>4 DEF TypeOK, ProviderAccepts, rows, CountersRead
  <2>5. ASSUME CircuitOpen(s) \/ ProviderRefuses(s) PROVE \E f : MarkRetry(s, f)
    BY <2>5 DEF CircuitOpen, ProviderRefuses
  <2> QED BY <1>1, <2>1, <2>3, <2>4, <2>5 DEF ProcessJob
<1>2. ASSUME NEW w \in Workers, SelectCandidates(w) \/ ClaimCandidates(w) PROVE CountersRead
  BY <1>s, <1>2 DEF TypeOK, SelectCandidates, ClaimCandidates, rows, CountersRead
<1>3. ASSUME NEW c \in Clients, NEW j \in Jobs,
             \/ SchedulePublish(c, j) \/ PublishNow(c, j)
             \/ \E step \in {"retry", "cancel"} : ReadForRequest(c, j, step)
      PROVE  CountersRead
  BY <1>s, <1>3
  DEF TypeOK, SchedulePublish, PublishNow, ReadForRequest, rows, sessions, CountersRead
<1>4. ASSUME NEW s \in Sessions, Restart(s), retries' = retries PROVE CountersRead
  BY <1>s, <1>4 DEF TypeOK, Restart, CountersRead
<1>5. ASSUME NEW c \in Clients, CommitRetry(c) \/ CommitCancel(c) PROVE CountersRead
  BY <1>s, <1>4, <1>5 DEF CommitRetry, CommitCancel
<1>6. ASSUME NEW r \in Recoverers, ListDeadLetters(r) PROVE CountersRead
  BY <1>s, <1>6 DEF TypeOK, ListDeadLetters, rows, CountersRead
<1>7. ASSUME NEW r \in Recoverers, RecoverDeadLetters(r) PROVE CountersRead
  BY <1>s, <1>4, <1>7 DEF RecoverDeadLetters
<1>8. ASSUME NEW s \in Sessions, Crash(s) PROVE CountersRead
  BY <1>4, <1>8 DEF Crash, rows
<1>9. ASSUME (\E j \in Jobs : BecomeVisible(j) \/ ExpiryPasses(j)) \/ UNCHANGED vars
      PROVE  CountersRead
  BY <1>9 DEF BecomeVisible, ExpiryPasses, vars, rows, sessions, CountersRead
<1> QED
  BY <1>s, <1>1, <1>2, <1>3, <1>5, <1>6, <1>7, <1>8, <1>9
  DEF Next, WorkerStep, NewRequest, ClientStep, RequestRetry, RequestCancel

LEMMA NextCharged == LedgerInv /\ TypeOK' /\ RetryInv /\ [Next]_vars => RetryInv'
<1> SUFFICES ASSUME LedgerInv, TypeOK', RetryInv, [Next]_vars PROVE RetryInv'
  OBVIOUS
<1>1. CASE CountersRead
  BY <1>1, CountersKept DEF CountersRead
<1>2. ASSUME NEW s \in Publishers, NEW f, MarkRetry(s, f) PROVE RetryInv'
  BY <1>2, MarkRetryCharged
<1> QED BY <1>1, <1>2, CountersMove DEF LedgerInv

\* Retries never go beyond max_retries for each permit, also when sessions
\* write the counter from stale reads: whoever writes one beyond the limit
\* gives up a permit for it.
THEOREM RetriesAreBounded == Spec => []RetryBudget
<1>1. Init => RetryInv
  <2> SUFFICES ASSUME Init PROVE RetryInv
    OBVIOUS
  <2>1. /\ \A j \in Jobs : retries[j] = 0
        /\ \A s \in Publishers : pc[s] = "idle"
    BY DEF Init, Sessions
  <2> QED BY <2>1, QueueAssumption DEF QueueAssumption, RetryInv, Charged
<1>2. LedgerInv /\ RetryInv => RetryBudget
  <2> SUFFICES ASSUME LedgerInv, RetryInv, NEW j \in Jobs
               PROVE  retries[j] <= MaxRetries + permits[j]
    BY DEF RetryBudget
  <2>1. /\ Cardinality(Holders(j)) \in Nat /\ Queued(j) \in Nat
        /\ permits[j] \in Nat /\ retries[j] \in Nat /\ MaxRetries \in Nat
    BY QueueAssumption, HoldersArePublishers, SessionSubset
    DEF QueueAssumption, LedgerInv, TypeOK, Queued
  <2>2. \/ retries[j] <= MaxRetries
        \/ retries[j] + Cardinality(Holders(j)) + Queued(j) <= MaxRetries + permits[j]
    BY DEF RetryInv, Charged
  <2> QED BY <2>1, <2>2
<1> QED
  BY <1>1, <1>2, NextCharged, TypeCorrect, LedgerInvariant, PTL DEF Spec

-----------------------------------------------------------------------------
(* No retry of a job handed out once is lost *)

\* One permit, one holder.
LEMMA OneHolder ==
    ASSUME LedgerInv, NEW j \in Jobs, NEW s \in Publishers, s \in Holders(j)
    PROVE  /\ permits[j] >= 1
           /\ permits[j] = 1 => \A t \in Holders(j) : t = s
<1>1. /\ Cardinality(Holders(j)) \in Nat /\ Cardinality(Holders(j)) >= 1
      /\ Cardinality(Holders(j) \ {s}) = Cardinality(Holders(j)) - 1
  BY HolderCount
<1>2. posts[j] + Cardinality(Holders(j)) + Queued(j) <= permits[j]
  BY DEF LedgerInv, Covered
<1>3. posts[j] \in Nat /\ Queued(j) \in Nat /\ permits[j] \in Nat
  BY DEF LedgerInv, TypeOK, Queued
<1>4. permits[j] >= 1
  BY <1>1, <1>2, <1>3
<1>5. ASSUME permits[j] = 1, NEW t \in Holders(j), t # s PROVE FALSE
  <2>1. Cardinality(Holders(j) \ {s}) = 0
    BY <1>1, <1>2, <1>3, <1>5
  <2>2. Holders(j) \ {s} \in SUBSET Publishers /\ t \in Publishers /\ t \in Holders(j) \ {s}
    BY <1>5, HoldersArePublishers
  <2>3. Cardinality(Holders(j) \ {s}) >= 1
    BY <2>2, SessionCount
  <2> QED BY <2>1, <2>3
<1> QED BY <1>4, <1>5

LEMMA PermitsGrow ==
    ASSUME LedgerInv, [Next]_vars
    PROVE  \A j \in Jobs : permits'[j] >= permits[j]
<1>1. [Ledger!Next]_(Ledger!vars)
  BY NextLedger
<1>2. permits \in [Jobs -> Nat]
  BY DEF LedgerInv, TypeOK
<1> QED
  BY <1>1, <1>2 DEF Ledger!Next, Ledger!Grant, Ledger!Post, Ledger!vars

\* A session at "publish" holds the job it has read.
LEMMA PublisherHolds ==
    ASSUME LedgerInv, NEW s \in Publishers, pc[s] = "publish"
    PROVE  cur[s] \in Jobs /\ s \in Holders(cur[s])
    BY DEF LedgerInv, TypeOK, InBatch, Holders, Sessions

\* What _mark_retry writes, and where the session goes.
LEMMA MarkRetryWrites ==
    ASSUME TypeOK, NEW t \in Publishers, NEW f, MarkRetry(t, f)
    PROVE  /\ pc[t] = "publish" /\ pc'[t] # "publish" /\ permits' = permits
           /\ \A j \in Jobs : retries'[j] = IF j = cur[t] THEN seen[t].retries + 1 ELSE retries[j]
           /\ \A s \in Publishers : s # t =>
                 pc'[s] = pc[s] /\ cur'[s] = cur[s] /\ seen'[s] = seen[s]
    BY DEF TypeOK, MarkRetry, RetryCount, FinishJob, Sessions, platform

LEMMA NextFresh == LedgerInv /\ TypeOK' /\ NoLostRetry /\ [Next]_vars => NoLostRetry'
<1> SUFFICES ASSUME LedgerInv, TypeOK', NoLostRetry, [Next]_vars,
                    NEW s \in Publishers, pc'[s] = "publish", permits'[cur'[s]] = 1
             PROVE  seen'[s].retries = retries'[cur'[s]]
  BY DEF NoLostRetry
<1>t. TypeOK
  BY DEF LedgerInv
<1>1. CASE CountersRead
  <2>1. CASE pc[s] = "publish" /\ cur'[s] = cur[s] /\ seen'[s] = seen[s]
    <3>1. cur[s] \in Jobs /\ permits[cur[s]] >= 1 /\ permits[cur[s]] \in Nat
      BY <1>t, <2>1, PublisherHolds, OneHolder DEF TypeOK
    <3>2. permits[cur[s]] = 1
      BY <2>1, <3>1, PermitsGrow
    <3> QED BY <1>1, <2>1, <3>2 DEF NoLostRetry, CountersRead
  <2> QED BY <1>1, <2>1 DEF CountersRead
<1>2. ASSUME NEW t \in Publishers, NEW f, MarkRetry(t, f)
      PROVE  seen'[s].retries = retries'[cur'[s]]
  <2>1. /\ s # t /\ pc[t] = "publish" /\ permits' = permits
        /\ pc[s] = "publish" /\ cur'[s] = cur[s] /\ seen'[s] = seen[s]
    BY <1>t, <1>2, MarkRetryWrites
  <2>2. cur[s] # cur[t]
    BY <2>1, PublisherHolds, OneHolder
  <2>3. retries'[cur[s]] = retries[cur[s]]
    BY <1>t, <1>2, <2>1, <2>2, PublisherHolds, MarkRetryWrites
  <2> QED BY <2>1, <2>3 DEF NoLostRetry
<1> QED BY <1>t, <1>1, <1>2, CountersMove

\* retry_count is written back from a read made before the platform call.  A
\* job that was put up once has one holder, so nobody writes the counter in
\* between and every attempt that fails is counted.
THEOREM RetriesAreCounted == Spec => []NoLostRetry
<1>1. Init => NoLostRetry
  BY DEF Init, NoLostRetry, Sessions
<1> QED
  BY <1>1, NextFresh, TypeCorrect, LedgerInvariant, PTL DEF Spec
=============================================================================
