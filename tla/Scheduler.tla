----------------------------- MODULE Scheduler -----------------------------
(***************************************************************************)
(* The scheduler of confirmed posts: app/services/scheduler_service.py     *)
(* over app/repositories/scheduler_repository.py, for the posts of one     *)
(* owner.                                                                  *)
(*                                                                         *)
(* A step is one transaction of one request, or the call to the publisher. *)
(* AnalyticsRepository.record_event commits the session it shares with the *)
(* scheduler, so every transaction ends there, before the handler does: an *)
(* exception after that point undoes nothing.  An execution row goes with  *)
(* every published or failed event and an audit row with every confirmed   *)
(* event, in the same transaction; they are not kept apart here.           *)
(***************************************************************************)
EXTENDS Integers, FiniteSets

CONSTANTS
    Posts,        \* scheduled posts
    Runs,         \* requests to /scheduler/run
    Confirmers,   \* requests to /scheduler/posts/{id}/confirm
    NoPost,       \* a session that works on no post
    ClaimLimit,   \* limit of claim_due_confirmed
    MaxFaults,    \* bound: crashes, failed statements, lost answers
    MaxConfirms   \* bound: confirm requests

ASSUME SchedulerAssumption ==
    /\ Runs \cap Confirmers = {}
    /\ NoPost \notin Posts
    /\ ClaimLimit \in Nat \ {0}
    /\ MaxFaults \in Nat
    /\ MaxConfirms \in Nat

Sessions == Runs \cup Confirmers

\* ScheduledPostState, and "none" before the post is created.
States == {"none", "awaiting_confirmation", "confirmed", "processing", "published", "failed"}
Closed == {"published", "failed"}
Kinds  == {"created", "confirmed", "published", "failed"}

VARIABLES
    state,      \* ScheduledPost.state
    version,    \* ScheduledPost.version, 0 before the post is created
    due,        \* scheduled_for <= now
    events,     \* outbox events of each kind
    deliveries, \* how often the publisher has sent the post
    pc,         \* where each request stands
    batch,      \* candidates of a claim, then the posts left to publish
    cur,        \* the post a request works on
    seen,       \* the versions it has read
    faults,     \* faults so far
    confirms    \* confirm requests so far

rows     == <<state, version, due, events>>
sessions == <<pc, batch, cur, seen>>
budgets  == <<faults, confirms>>
vars     == <<rows, deliveries, sessions, budgets>>

-----------------------------------------------------------------------------
(* Helpers *)

Emit(p, kind) == events' = [events EXCEPT ![p][kind] = @ + 1]

Fault ==
    /\ faults < MaxFaults
    /\ faults' = faults + 1
    /\ UNCHANGED confirms

Restart(s) ==
    /\ pc'    = [pc EXCEPT ![s] = "idle"]
    /\ batch' = [batch EXCEPT ![s] = {}]
    /\ cur'   = [cur EXCEPT ![s] = NoPost]
    /\ seen'  = [seen EXCEPT ![s] = [p \in Posts |-> 0]]

Rest_Abort(r) == {}   \* mutant: the loop ends with its first failed post
Rest(r) == batch[r] \ {cur[r]}

\* On to the next post of the run.
NextPost(r) ==
    /\ batch' = [batch EXCEPT ![r] = Rest(r)]
    /\ pc'    = [pc EXCEPT ![r] = IF Rest(r) = {} THEN "idle" ELSE "next"]
    /\ cur'   = [cur EXCEPT ![r] = NoPost]
    /\ seen'  = [seen EXCEPT ![r] = [p \in Posts |-> 0]]

\* update_status: UPDATE ... WHERE id = ? AND version = ?.
VersionHolds(s) == version[cur[s]] = seen[s][cur[s]]

WriteState(s, new) ==
    /\ state'   = [state EXCEPT ![cur[s]] = new]
    /\ version' = [version EXCEPT ![cur[s]] = seen[s][cur[s]] + 1]
    /\ UNCHANGED due

-----------------------------------------------------------------------------
Init ==
    /\ state      = [p \in Posts |-> "none"]
    /\ version    = [p \in Posts |-> 0]
    /\ due        = [p \in Posts |-> FALSE]
    /\ events     = [p \in Posts |-> [k \in Kinds |-> 0]]
    /\ deliveries = [p \in Posts |-> 0]
    /\ pc         = [s \in Sessions |-> "idle"]
    /\ batch      = [s \in Sessions |-> {}]
    /\ cur        = [s \in Sessions |-> NoPost]
    /\ seen       = [s \in Sessions |-> [p \in Posts |-> 0]]
    /\ faults     = 0
    /\ confirms   = 0

InitialState_Scheduled == "scheduled"   \* mutant: PublishingStatus for ScheduledPostState
InitialState == "awaiting_confirmation"

\* schedule_post: the time must lie ahead.
SchedulePost(p) ==
    /\ state[p] = "none"
    /\ state'   = [state EXCEPT ![p] = InitialState]
    /\ version' = [version EXCEPT ![p] = 1]
    /\ Emit(p, "created")
    /\ UNCHANGED <<due, deliveries, sessions, budgets>>

BecomeDue(p) ==
    /\ state[p] # "none" /\ ~due[p]
    /\ due' = [due EXCEPT ![p] = TRUE]
    /\ UNCHANGED <<state, version, events, deliveries, sessions, budgets>>

-----------------------------------------------------------------------------
(* confirm_post by the owner; anybody else is refused and changes nothing. *)

ReadPost(c, p) ==
    /\ pc[c] = "idle" /\ state[p] # "none"
    /\ confirms < MaxConfirms
    /\ confirms' = confirms + 1
    /\ cur'  = [cur EXCEPT ![c] = p]
    /\ seen' = [seen EXCEPT ![c][p] = version[p]]
    /\ pc'   = [pc EXCEPT ![c] = IF state[p] = "awaiting_confirmation" THEN "confirm"
                                                                      ELSE "noop"]
    /\ UNCHANGED <<rows, deliveries, batch, faults>>

Confirm(c) ==
    /\ pc[c] = "confirm"
    /\ VersionHolds(c) /\ state[cur[c]] = "awaiting_confirmation"
    /\ WriteState(c, "confirmed")
    /\ Emit(cur[c], "confirmed")
    /\ Restart(c)
    /\ UNCHANGED <<deliveries, budgets>>

\* Another request was faster: OptimisticLockError, answered with 409.
ConfirmLosesRace(c) ==
    /\ pc[c] = "confirm"
    /\ ~(VersionHolds(c) /\ state[cur[c]] = "awaiting_confirmation")
    /\ Restart(c)
    /\ UNCHANGED <<rows, deliveries, budgets>>

\* A post that was past confirmation when read: an audit row and a confirmed
\* event all the same.
ConfirmAgain(c) ==
    /\ pc[c] = "noop"
    /\ Emit(cur[c], "confirmed")
    /\ Restart(c)
    /\ UNCHANGED <<state, version, due, deliveries, budgets>>

-----------------------------------------------------------------------------
(* run_due *)

\* claim_due_confirmed reads candidates and their versions ...
SelectDue(r) ==
    /\ pc[r] = "idle"
    /\ LET Due == {p \in Posts : state[p] = "confirmed" /\ due[p]} IN
       \E C \in SUBSET Due :
          /\ C # {}
          /\ Cardinality(C) <= ClaimLimit
          /\ Cardinality(C) = ClaimLimit \/ C = Due
          /\ batch' = [batch EXCEPT ![r] = C]
          /\ seen'  = [seen EXCEPT ![r] = [p \in Posts |-> IF p \in C THEN version[p] ELSE 0]]
    /\ pc' = [pc EXCEPT ![r] = "claim"]
    /\ UNCHANGED <<rows, deliveries, cur, budgets>>

\* ... and takes those that are still as it read them.
Unclaimed_Unchecked(r, p) == TRUE   \* mutant: UPDATE ... WHERE id = ?
Unclaimed(r, p) == version[p] = seen[r][p] /\ state[p] = "confirmed"

ClaimDue(r) ==
    LET claimed == {p \in batch[r] : Unclaimed(r, p)} IN
    /\ pc[r] = "claim"
    /\ state'   = [p \in Posts |-> IF p \in claimed THEN "processing" ELSE state[p]]
    /\ version' = [p \in Posts |-> IF p \in claimed THEN version[p] + 1 ELSE version[p]]
    /\ batch'   = [batch EXCEPT ![r] = claimed]
    /\ pc'      = [pc EXCEPT ![r] = IF claimed = {} THEN "idle" ELSE "next"]
    /\ seen'    = [seen EXCEPT ![r] = [p \in Posts |-> 0]]
    /\ UNCHANGED <<due, events, deliveries, cur, budgets>>

\* The commit of the claim expired what was read: publish loads the post.
LoadPost(r, p) ==
    /\ pc[r] = "next" /\ p \in batch[r]
    /\ cur'  = [cur EXCEPT ![r] = p]
    /\ seen' = [seen EXCEPT ![r][p] = version[p]]
    /\ pc'   = [pc EXCEPT ![r] = "deliver"]
    /\ UNCHANGED <<rows, deliveries, batch, budgets>>

\* publish of a webhook publisher: the answer is 2xx, or it is an error and
\* the post was not taken, or it was taken and the answer is lost.
Deliver(r) ==
    /\ pc[r] = "deliver"
    /\ deliveries' = [deliveries EXCEPT ![cur[r]] = @ + 1]
    /\ \/ /\ pc' = [pc EXCEPT ![r] = "published"]
          /\ UNCHANGED budgets
       \/ /\ pc' = [pc EXCEPT ![r] = "failed"]
          /\ Fault
    /\ UNCHANGED <<rows, batch, cur, seen>>

AfterRefusal_Swallowed == "published"   \* mutant: publish does not raise
AfterRefusal == "failed"

PublisherRefuses(r) ==
    /\ pc[r] = "deliver"
    /\ pc' = [pc EXCEPT ![r] = AfterRefusal]
    /\ UNCHANGED <<rows, deliveries, batch, cur, seen, budgets>>

\* The verdict is written only while the version read still holds; if not, the
\* OptimisticLockError is rolled back.  Either way the run goes on.
RecordPublished(r) ==
    /\ pc[r] = "published"
    /\ IF VersionHolds(r)
          THEN WriteState(r, "published") /\ Emit(cur[r], "published")
          ELSE UNCHANGED rows
    /\ NextPost(r)
    /\ UNCHANGED <<deliveries, budgets>>

RecordFailed_NoEvent(r) ==   \* mutant: the failure is not announced
    /\ pc[r] = "failed"
    /\ IF VersionHolds(r)
          THEN WriteState(r, "failed") /\ UNCHANGED events
          ELSE UNCHANGED rows
    /\ NextPost(r)
    /\ UNCHANGED <<deliveries, budgets>>
RecordFailed(r) ==
    /\ pc[r] = "failed"
    /\ IF VersionHolds(r)
          THEN WriteState(r, "failed") /\ Emit(cur[r], "failed")
          ELSE UNCHANGED rows
    /\ NextPost(r)
    /\ UNCHANGED <<deliveries, budgets>>

\* The UPDATE itself raises (SQLite: database is locked): nothing is written,
\* and the handler of the exception records the post as failed.
UpdateRaises(r) ==
    /\ pc[r] = "published"
    /\ Fault
    /\ pc' = [pc EXCEPT ![r] = "failed"]
    /\ UNCHANGED <<rows, deliveries, batch, cur, seen>>

\* record_event has committed the published post, then its refresh raises: the
\* handler reads the post again and records it as failed.
RefreshRaises(r) ==
    /\ pc[r] = "published" /\ VersionHolds(r)
    /\ Fault
    /\ WriteState(r, "published")
    /\ Emit(cur[r], "published")
    /\ seen' = [seen EXCEPT ![r][cur[r]] = @ + 1]
    /\ pc'   = [pc EXCEPT ![r] = "failed"]
    /\ UNCHANGED <<deliveries, batch, cur>>

\* A flush or the commit raises, in either handler: the session must be rolled
\* back before it can be used again, so the exception ends the whole run.
RunAborts(r) ==
    /\ pc[r] \in {"published", "failed"}
    /\ Fault
    /\ Restart(r)
    /\ UNCHANGED <<rows, deliveries>>

\* As RefreshRaises, with the failed post: the run ends after the commit.
RunAbortsLate(r) ==
    /\ pc[r] = "failed" /\ VersionHolds(r)
    /\ Fault
    /\ WriteState(r, "failed")
    /\ Emit(cur[r], "failed")
    /\ Restart(r)
    /\ UNCHANGED deliveries

-----------------------------------------------------------------------------
\* The server dies or drops the request.
Crash(s) ==
    /\ pc[s] # "idle"
    /\ Fault
    /\ Restart(s)
    /\ UNCHANGED <<rows, deliveries>>

RunStep(r) ==
    \/ ClaimDue(r)
    \/ \E p \in Posts : LoadPost(r, p)
    \/ Deliver(r)
    \/ PublisherRefuses(r)
    \/ RecordPublished(r)
    \/ RecordFailed(r)
    \/ UpdateRaises(r)
    \/ RefreshRaises(r)
    \/ RunAborts(r)
    \/ RunAbortsLate(r)

ConfirmStep(c) == Confirm(c) \/ ConfirmLosesRace(c) \/ ConfirmAgain(c)

Next ==
    \/ \E p \in Posts : SchedulePost(p) \/ BecomeDue(p)
    \/ \E c \in Confirmers : ConfirmStep(c) \/ \E p \in Posts : ReadPost(c, p)
    \/ \E r \in Runs : SelectDue(r) \/ RunStep(r)
    \/ \E s \in Sessions : Crash(s)

Spec == Init /\ [][Next]_vars

\* A request once begun runs to its end.  Nobody is obliged to schedule a
\* post, to confirm it or to start a run: runs are started by API calls only.
FairSpec ==
    /\ Spec
    /\ \A r \in Runs : WF_vars(RunStep(r))
    /\ \A c \in Confirmers : WF_vars(ConfirmStep(c))

-----------------------------------------------------------------------------
(* Properties *)

TypeOK ==
    /\ state      \in [Posts -> States]
    /\ version    \in [Posts -> Nat]
    /\ due        \in [Posts -> BOOLEAN]
    /\ events     \in [Posts -> [Kinds -> Nat]]
    /\ deliveries \in [Posts -> Nat]
    /\ pc         \in [Sessions -> {"idle", "confirm", "noop", "claim", "next", "deliver",
                                    "published", "failed"}]
    /\ batch      \in [Sessions -> SUBSET Posts]
    /\ cur        \in [Sessions -> Posts \cup {NoPost}]
    /\ seen       \in [Sessions -> [Posts -> Nat]]
    /\ faults     \in Nat
    /\ confirms   \in Nat

\* README.md:565, "every scheduler domain event ... is persisted to
\* outbox_events in the same transaction": a reader of the outbox alone learns
\* the right state of every post from its latest verdict, and without a fault
\* there is one verdict only.
OutboxTellsState ==
    \A p \in Posts :
        /\ events[p]["created"] = IF state[p] = "none" THEN 0 ELSE 1
        /\ events[p]["confirmed"] > 0 <=> state[p] \notin {"none", "awaiting_confirmation"}
        /\ state[p] = "published" => events[p]["published"] = 1 /\ events[p]["failed"] = 0
        /\ state[p] = "failed"    => events[p]["failed"] = 1
        /\ state[p] \notin Closed => events[p]["published"] + events[p]["failed"] = 0
        /\ events[p]["published"] + events[p]["failed"] = 2 => faults > 0

\* A post recorded as published was sent, and it takes a fault for each post
\* that was sent and is recorded as failed.
VerdictsAreTrue ==
    /\ \A p \in Posts : state[p] = "published" => deliveries[p] = 1
    /\ Cardinality({p \in Posts : state[p] = "failed" /\ deliveries[p] > 0}) <= faults

\* Run r has read p and is about to send it or to record its verdict.
Working(r, p) == cur[r] = p /\ pc[r] \in {"deliver", "published", "failed"}

\* Runs that have claimed p and not yet dealt with it.
Owners(p) == {r \in Runs : p \in batch[r] /\ pc[r] # "claim"}

\* At most one run works on a post, and it never finds its optimistic lock
\* lost.  A post stays "processing" only while such a run is at work on it,
\* unless there was a fault: nothing claims it again.
ProcessingHasOwner ==
    \A p \in Posts :
        /\ \A r, q \in Owners(p) : r = q
        /\ \A r \in Runs : Working(r, p) => VersionHolds(r)
        /\ state[p] = "processing" /\ faults = 0 => Owners(p) # {}

\* scheduler_service.py hands a post to the publisher only once it was
\* confirmed and claimed, and at most once, whatever fails.
Lifecycle == INSTANCE PostLifecycle WITH
    phase <- [p \in Posts |->
                CASE state[p] = "awaiting_confirmation" -> "awaiting"
                  [] state[p] = "processing"            -> "claimed"
                  [] state[p] \in Closed                -> "closed"
                  [] OTHER                              -> state[p]]
FollowsLifecycle == Lifecycle!Spec

\* A claimed post gets its verdict, as long as no fault strikes, also when the
\* posts before it in the batch are refused.
ClaimedPostsClose ==
    \A p \in Posts : state[p] = "processing" ~> state[p] \in Closed

\* README.md:563, "awaiting_confirmation -> confirmed -> processing ->
\* published|failed": a published post is never recorded as failed.
PublishedIsFinal ==
    [][\A p \in Posts : state[p] = "published" => state'[p] = "published"]_vars

=============================================================================
