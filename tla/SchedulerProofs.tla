-------------------------- MODULE SchedulerProofs --------------------------
(***************************************************************************)
(* Theorems about the scheduler, for any set of posts, runs and confirm    *)
(* requests.  The invariant says who may do what to a post: a claimed post *)
(* has one owner, the owner's version is the stored one, and only an owner *)
(* that has sent the post has seen it sent.  What is announced and what is *)
(* recorded follow from it.                                                *)
(***************************************************************************)
EXTENDS Scheduler, FiniteSetTheorems, TLAPS

Unclaimable == {"none", "awaiting_confirmation", "confirmed"}

\* A run that works on a post has it in its batch, and an idle run has none.
InBatch ==
    \A r \in Runs :
        /\ \A p \in Posts : Working(r, p) => p \in batch[r]
        /\ pc[r] = "idle" => batch[r] = {}

\* What holds of a post while r owns it.
OwnedBy(r, p) ==
    /\ \A q \in Owners(p) : q = r
    /\ \/ state[p] = "processing"
       \/ state[p] = "published" /\ Working(r, p) /\ pc[r] = "failed"
    /\ Working(r, p) => version[p] = seen[r][p]
    /\ deliveries[p] = 0 \/ (Working(r, p) /\ pc[r] # "deliver")

\* What holds of a post that nobody may have sent yet.
SentOnce(p) ==
    /\ deliveries[p] \in {0, 1}
    /\ state[p] \in Unclaimable => deliveries[p] = 0

Ownership == \A p \in Posts : SentOnce(p) /\ \A r \in Owners(p) : OwnedBy(r, p)

\* Without a fault no claimed post is left alone.
NotAbandoned == \A p \in Posts : state[p] = "processing" /\ faults = 0 => Owners(p) # {}

SchedulerInv == InBatch /\ Ownership /\ NotAbandoned

-----------------------------------------------------------------------------
(* Type correctness *)

LEMMA EmitTypes ==
    ASSUME TypeOK, NEW p, NEW k \in Kinds, Emit(p, k)
    PROVE  events' \in [Posts -> [Kinds -> Nat]]
<1>1. CASE p \in Posts
  <2>1. events[p] \in [Kinds -> Nat] /\ events[p][k] + 1 \in Nat
    BY <1>1 DEF TypeOK
  <2>2. [events[p] EXCEPT ![k] = @ + 1] \in [Kinds -> Nat]
    BY <2>1
  <2>3. QED
    BY <1>1, <2>2 DEF TypeOK, Emit
<1>2. CASE p \notin Posts
  BY <1>2 DEF TypeOK, Emit
<1>3. QED
  BY <1>1, <1>2

LEMMA WriteTypes ==
    ASSUME TypeOK, NEW s \in Sessions, NEW new \in States, WriteState(s, new)
    PROVE  /\ state' \in [Posts -> States] /\ version' \in [Posts -> Nat]
           /\ due' \in [Posts -> BOOLEAN]
<1>1. CASE cur[s] \in Posts
  <2>1. seen[s][cur[s]] + 1 \in Nat
    BY <1>1 DEF TypeOK
  <2>2. QED
    BY <2>1 DEF TypeOK, WriteState
<1>2. CASE cur[s] \notin Posts
  BY <1>2 DEF TypeOK, WriteState
<1>3. QED
  BY <1>1, <1>2

LEMMA SessionTypes ==
    ASSUME TypeOK, NEW s \in Sessions, Restart(s) \/ NextPost(s)
    PROVE  /\ pc' \in [Sessions -> {"idle", "confirm", "noop", "claim", "next", "deliver",
                                    "published", "failed"}]
           /\ batch' \in [Sessions -> SUBSET Posts]
           /\ cur' \in [Sessions -> Posts \cup {NoPost}]
           /\ seen' \in [Sessions -> [Posts -> Nat]]
<1>1. batch' \in [Sessions -> SUBSET Posts]
  BY DEF TypeOK, Restart, NextPost, Rest
<1>2. [p \in Posts |-> 0] \in [Posts -> Nat]
  OBVIOUS
<1>3. seen' \in [Sessions -> [Posts -> Nat]]
  BY <1>2 DEF TypeOK, Restart, NextPost
<1>4. QED
  BY <1>1, <1>3 DEF TypeOK, Restart, NextPost

\* A version a session remembers.
LEMMA SeenTypes ==
    ASSUME TypeOK, NEW s \in Sessions, NEW p, NEW n \in Nat, seen' = [seen EXCEPT ![s][p] = n]
    PROVE  seen' \in [Sessions -> [Posts -> Nat]]
<1>1. [seen[s] EXCEPT ![p] = n] \in [Posts -> Nat]
  BY DEF TypeOK
<1>2. QED
  BY <1>1 DEF TypeOK

LEMMA RunTypes ==
    ASSUME TypeOK, NEW r \in Runs, SelectDue(r) \/ RunStep(r)
    PROVE  TypeOK'
<1>s. r \in Sessions /\ faults \in Nat /\ confirms \in Nat
  BY DEF Sessions, TypeOK
<1>k. {"published", "failed"} \subseteq Kinds /\ {"published", "failed"} \subseteq States
  BY DEF Kinds, States
<1>1. CASE SelectDue(r)
  <2>1. PICK C \in SUBSET Posts :
          /\ batch' = [batch EXCEPT ![r] = C]
          /\ seen' = [seen EXCEPT ![r] = [p \in Posts |-> IF p \in C THEN version[p] ELSE 0]]
    BY <1>1 DEF SelectDue
  <2>2. [p \in Posts |-> IF p \in C THEN version[p] ELSE 0] \in [Posts -> Nat]
    BY DEF TypeOK
  <2>3. seen' \in [Sessions -> [Posts -> Nat]] /\ batch' \in [Sessions -> SUBSET Posts]
    BY <2>1, <2>2 DEF TypeOK
  <2>4. QED
    BY <2>3, <1>1 DEF TypeOK, SelectDue, rows, budgets
<1>2. CASE ClaimDue(r)
  <2>1. "processing" \in States
    BY DEF States
  <2>2. state' \in [Posts -> States] /\ version' \in [Posts -> Nat]
    BY <2>1, <1>2 DEF TypeOK, ClaimDue
  <2>3. batch' \in [Sessions -> SUBSET Posts]
    BY <1>s, <1>2 DEF TypeOK, ClaimDue
  <2>4. [p \in Posts |-> 0] \in [Posts -> Nat]
    OBVIOUS
  <2>5. seen' \in [Sessions -> [Posts -> Nat]]
    BY <2>4, <1>2 DEF TypeOK, ClaimDue
  <2>6. QED
    BY <2>2, <2>3, <2>5, <1>2 DEF TypeOK, ClaimDue, budgets
<1>3. ASSUME NEW p \in Posts, LoadPost(r, p) PROVE TypeOK'
  <2>1. seen' \in [Sessions -> [Posts -> Nat]]
    BY <1>s, <1>3, SeenTypes DEF TypeOK, LoadPost
  <2>2. QED
    BY <2>1, <1>3 DEF TypeOK, LoadPost, rows, budgets
<1>4. CASE Deliver(r)
  <2>1. deliveries' \in [Posts -> Nat]
    <3>1. CASE cur[r] \in Posts
      <4>1. deliveries[cur[r]] + 1 \in Nat
        BY <3>1 DEF TypeOK
      <4>2. QED
        BY <4>1, <1>4 DEF TypeOK, Deliver
    <3>2. CASE cur[r] \notin Posts
      BY <3>2, <1>4 DEF TypeOK, Deliver
    <3>3. QED
      BY <3>1, <3>2
  <2>2. QED
    <3>1. pc' \in [Sessions -> {"idle", "confirm", "noop", "claim", "next", "deliver",
                                 "published", "failed"}]
      BY <1>4 DEF TypeOK, Deliver
    <3>2. faults' \in Nat /\ confirms' \in Nat
      BY <1>s, <1>4 DEF Deliver, Fault, budgets
    <3>3. QED
      BY <2>1, <3>1, <3>2, <1>4 DEF TypeOK, Deliver, rows
<1>5. CASE PublisherRefuses(r) \/ UpdateRaises(r)
  BY <1>s, <1>5 DEF TypeOK, PublisherRefuses, AfterRefusal, UpdateRaises, Fault, rows, budgets
<1>6. ASSUME NEW v \in {"published", "failed"}, WriteState(r, v), Emit(cur[r], v)
      PROVE  /\ state' \in [Posts -> States] /\ version' \in [Posts -> Nat]
             /\ due' \in [Posts -> BOOLEAN] /\ events' \in [Posts -> [Kinds -> Nat]]
  BY <1>s, <1>k, <1>6, WriteTypes, EmitTypes
<1>7. CASE RecordPublished(r) \/ RecordFailed(r)
  <2>1. /\ state' \in [Posts -> States] /\ version' \in [Posts -> Nat]
        /\ due' \in [Posts -> BOOLEAN] /\ events' \in [Posts -> [Kinds -> Nat]]
    BY <1>6, <1>7 DEF RecordPublished, RecordFailed, rows, TypeOK
  <2>2. QED
    BY <2>1, <1>s, <1>7, SessionTypes DEF RecordPublished, RecordFailed, TypeOK, budgets
<1>8. CASE RefreshRaises(r)
  <2>1. seen' \in [Sessions -> [Posts -> Nat]]
    <3>1. CASE cur[r] \in Posts
      <4>1. seen[r][cur[r]] + 1 \in Nat
        BY <1>s, <3>1 DEF TypeOK
      <4>2. QED
        BY <1>s, <4>1, <1>8, SeenTypes DEF RefreshRaises
    <3>2. CASE cur[r] \notin Posts
      BY <1>s, <3>2, <1>8 DEF TypeOK, RefreshRaises
    <3>3. QED
      BY <3>1, <3>2
  <2>2. QED
    BY <2>1, <1>s, <1>6, <1>8 DEF RefreshRaises, Fault, TypeOK
<1>9. CASE RunAborts(r) \/ RunAbortsLate(r)
  BY <1>s, <1>6, <1>9, SessionTypes DEF RunAborts, RunAbortsLate, Fault, TypeOK, rows
<1>10. QED
  BY <1>1, <1>2, <1>3, <1>4, <1>5, <1>7, <1>8, <1>9 DEF RunStep

LEMMA ConfirmTypes ==
    ASSUME TypeOK, NEW c \in Confirmers,
           ConfirmStep(c) \/ \E p \in Posts : ReadPost(c, p)
    PROVE  TypeOK'
<1>s. c \in Sessions
  BY DEF Sessions
<1>1. ASSUME NEW p \in Posts, ReadPost(c, p) PROVE TypeOK'
  <2>1. seen' \in [Sessions -> [Posts -> Nat]]
    BY <1>s, <1>1, SeenTypes DEF TypeOK, ReadPost
  <2>2. QED
    BY <2>1, <1>1 DEF TypeOK, ReadPost, rows
<1>2. CASE Confirm(c)
  <2>1. "confirmed" \in Kinds /\ "confirmed" \in States
    BY DEF Kinds, States
  <2>2. QED
    BY <2>1, <1>s, <1>2, SessionTypes, WriteTypes, EmitTypes DEF TypeOK, Confirm, budgets
<1>3. CASE ConfirmLosesRace(c)
  BY <1>s, <1>3, SessionTypes DEF TypeOK, ConfirmLosesRace, rows, budgets
<1>4. CASE ConfirmAgain(c)
  <2>1. "confirmed" \in Kinds
    BY DEF Kinds
  <2>2. QED
    BY <2>1, <1>s, <1>4, SessionTypes, EmitTypes DEF TypeOK, ConfirmAgain, budgets
<1>5. QED
  BY <1>1, <1>2, <1>3, <1>4 DEF ConfirmStep

\* Every step keeps posts in the states of ScheduledPostState, versions and
\* counters natural, and requests at the steps the handlers have.
THEOREM TypeCorrect == Spec => []TypeOK
<1>1. Init => TypeOK
  BY DEF Init, TypeOK, States
<1>2. TypeOK /\ [Next]_vars => TypeOK'
  <2> SUFFICES ASSUME TypeOK, [Next]_vars PROVE TypeOK'
    OBVIOUS
  <2>1. ASSUME NEW p \in Posts, SchedulePost(p) PROVE TypeOK'
    <3>1. "created" \in Kinds /\ "awaiting_confirmation" \in States
      BY DEF Kinds, States
    <3>2. QED
      BY <3>1, <2>1, EmitTypes DEF TypeOK, SchedulePost, InitialState, sessions, budgets
  <2>2. ASSUME NEW p \in Posts, BecomeDue(p) PROVE TypeOK'
    BY <2>2 DEF TypeOK, BecomeDue, sessions, budgets
  <2>3. ASSUME NEW c \in Confirmers, ConfirmStep(c) \/ \E p \in Posts : ReadPost(c, p)
        PROVE  TypeOK'
    BY <2>3, ConfirmTypes
  <2>4. ASSUME NEW r \in Runs, SelectDue(r) \/ RunStep(r) PROVE TypeOK'
    BY <2>4, RunTypes
  <2>5. ASSUME NEW s \in Sessions, Crash(s) PROVE TypeOK'
    BY <2>5, SessionTypes DEF TypeOK, Crash, Fault, rows
  <2>6. CASE UNCHANGED vars
    BY <2>6 DEF TypeOK, vars, rows, sessions, budgets
  <2>7. QED
    BY <2>1, <2>2, <2>3, <2>4, <2>5, <2>6 DEF Next
<1>3. QED
  BY <1>1, <1>2, PTL DEF Spec

-----------------------------------------------------------------------------
(* Ownership *)

\* A session s acts, and the others stand where they stood.
Alone(s) ==
    \A q \in Sessions : q # s => /\ pc'[q] = pc[q] /\ batch'[q] = batch[q]
                                 /\ cur'[q] = cur[q] /\ seen'[q] = seen[q]

LEMMA LeavesAlone ==
    ASSUME TypeOK, NEW s \in Sessions, Restart(s) \/ NextPost(s)
    PROVE  /\ Alone(s)
           /\ \A p \in Posts : ~Working(s, p)'
           /\ s \in Runs /\ pc[s] # "claim" =>
                \A p \in Posts : s \in Owners(p)' <=> s \in Owners(p) /\ NextPost(s) /\ p # cur[s]
<1>1. pc'[s] \in {"idle", "next"} /\ cur'[s] = NoPost
  BY DEF TypeOK, Restart, NextPost
<1>2. CASE Restart(s)
  <2>1. batch'[s] = {}
    BY <1>2 DEF TypeOK, Restart
  <2>2. ~NextPost(s) \/ \A p \in Posts : p \in batch[s] => p = cur[s]
    BY <2>1 DEF TypeOK, NextPost, Rest
  <2>3. QED
    BY <1>1, <1>2, <2>1, <2>2 DEF TypeOK, Restart, Alone, Working, Owners
<1>3. CASE NextPost(s)
  <2>1. batch'[s] = batch[s] \ {cur[s]}
    BY <1>3 DEF TypeOK, NextPost, Rest
  <2>2. QED
    BY <1>1, <1>3, <2>1 DEF TypeOK, NextPost, Alone, Working, Owners
<1>4. QED
  BY <1>2, <1>3

\* A step of s that touches neither the row nor the deliveries of p, and leaves
\* s no further with it, keeps the ownership of p.
LEMMA RowUntouched ==
    ASSUME NEW s \in Sessions, Alone(s), NEW p \in Posts,
           SentOnce(p), \A r \in Owners(p) : OwnedBy(r, p),
           state'[p] = state[p], version'[p] = version[p], deliveries'[p] = deliveries[p],
           s \in Owners(p)' =>
              /\ s \in Owners(p)
              /\ Working(s, p)' => Working(s, p) /\ seen'[s][p] = seen[s][p]
              /\ Working(s, p) => Working(s, p)' /\ (pc'[s] = pc[s] \/ pc'[s] = "failed")
    PROVE  SentOnce(p)' /\ \A r \in Owners(p)' : OwnedBy(r, p)'
<1>1. SentOnce(p)'
  BY DEF SentOnce
<1>2. Owners(p)' \subseteq Owners(p)
  BY DEF Owners, Alone, Sessions
<1>3. ASSUME NEW r \in Owners(p)' PROVE OwnedBy(r, p)'
  <2>1. OwnedBy(r, p) /\ r \in Sessions
    BY <1>2, <1>3 DEF Owners, Sessions
  <2>2. CASE r = s
    BY <1>2, <1>3, <2>1, <2>2 DEF OwnedBy, Working
  <2>3. CASE r # s
    BY <1>2, <2>1, <2>3 DEF OwnedBy, Working, Alone
  <2>4. QED
    BY <2>2, <2>3
<1>4. QED
  BY <1>1, <1>3

LEMMA InBatchKept ==
    ASSUME TypeOK, InBatch, NEW s \in Sessions, Alone(s),
           s \in Runs => /\ \A p \in Posts : Working(s, p)' => p \in batch'[s]
                         /\ pc'[s] = "idle" => batch'[s] = {}
    PROVE  InBatch'
    BY DEF InBatch, Alone, Working, Sessions

LEMMA ConfirmOwnership ==
    ASSUME TypeOK, SchedulerInv, NEW c \in Confirmers,
           ConfirmStep(c) \/ \E p \in Posts : ReadPost(c, p)
    PROVE  SchedulerInv'
<1>s. c \in Sessions /\ c \notin Runs
  BY SchedulerAssumption DEF Sessions, SchedulerAssumption
<1>1. Alone(c)
  BY <1>s, LeavesAlone
  DEF TypeOK, Alone, ConfirmStep, Confirm, ConfirmLosesRace, ConfirmAgain, ReadPost
<1>2. InBatch'
  BY <1>s, <1>1, InBatchKept DEF SchedulerInv
<1>3. \A p \in Posts : Owners(p)' = Owners(p)
  BY <1>s, <1>1 DEF Alone, Owners, Sessions
<1>4. deliveries' = deliveries /\ faults' = faults
  BY DEF ConfirmStep, Confirm, ConfirmLosesRace, ConfirmAgain, ReadPost, budgets
<1>5. ASSUME NEW p \in Posts PROVE SentOnce(p)' /\ \A r \in Owners(p)' : OwnedBy(r, p)'
  <2>1. CASE state'[p] = state[p] /\ version'[p] = version[p]
    BY <1>s, <1>1, <1>3, <1>4, <2>1, RowUntouched DEF SchedulerInv, Ownership, Owners
  <2>2. CASE state[p] = "awaiting_confirmation" /\ state'[p] = "confirmed"
    <3>1. Owners(p) = {}
      BY <2>2 DEF SchedulerInv, Ownership, OwnedBy
    <3>2. SentOnce(p)'
      BY <1>4, <2>2 DEF SchedulerInv, Ownership, SentOnce, Unclaimable
    <3>3. QED
      BY <1>3, <3>1, <3>2
  <2>3. QED
    BY <2>1, <2>2
    DEF TypeOK, ConfirmStep, Confirm, ConfirmLosesRace, ConfirmAgain, ReadPost, WriteState, rows
<1>6. \A p \in Posts : state'[p] = "processing" => state[p] = "processing"
  BY DEF TypeOK, ConfirmStep, Confirm, ConfirmLosesRace, ConfirmAgain, ReadPost, WriteState, rows
<1>7. QED
  BY <1>2, <1>3, <1>4, <1>5, <1>6 DEF SchedulerInv, Ownership, NotAbandoned

LEMMA RestartKeepsBatch ==
    ASSUME TypeOK, InBatch, NEW s \in Sessions, Restart(s) \/ NextPost(s)
    PROVE  InBatch'
<1>1. pc'[s] = "idle" => batch'[s] = {}
  BY DEF TypeOK, Restart, NextPost
<1>2. QED
  BY <1>1, LeavesAlone, InBatchKept

LEMMA SelectOwnership ==
    ASSUME TypeOK, SchedulerInv, NEW r \in Runs, SelectDue(r)
    PROVE  SchedulerInv'
<1>s. r \in Sessions
  BY DEF Sessions
<1>1. Alone(r) /\ pc'[r] = "claim" /\ pc[r] = "idle" /\ batch[r] = {}
  BY <1>s DEF TypeOK, Alone, SelectDue, SchedulerInv, InBatch
<1>2. InBatch'
  BY <1>s, <1>1, InBatchKept DEF SchedulerInv, Working
<1>3. \A p \in Posts : Owners(p)' = Owners(p) /\ r \notin Owners(p)'
  BY <1>s, <1>1 DEF Alone, Owners, Sessions
<1>4. ASSUME NEW p \in Posts PROVE SentOnce(p)' /\ \A q \in Owners(p)' : OwnedBy(q, p)'
  BY <1>s, <1>1, <1>3, RowUntouched DEF SelectDue, rows, SchedulerInv, Ownership
<1>5. QED
  BY <1>2, <1>3, <1>4 DEF SelectDue, rows, budgets, SchedulerInv, Ownership, NotAbandoned

LEMMA ClaimOwnership ==
    ASSUME TypeOK, SchedulerInv, NEW r \in Runs, ClaimDue(r)
    PROVE  SchedulerInv'
<1> DEFINE claimed == {p \in batch[r] : Unclaimed(r, p)}
<1>s. r \in Sessions /\ batch[r] \subseteq Posts
  BY DEF Sessions, TypeOK
<1>1. /\ Alone(r) /\ pc[r] = "claim" /\ pc'[r] \in {"idle", "next"}
      /\ pc'[r] = "idle" => claimed = {}
      /\ batch'[r] = claimed
      /\ deliveries' = deliveries /\ faults' = faults
  BY <1>s DEF TypeOK, Alone, ClaimDue, budgets
<1>2. InBatch'
  BY <1>s, <1>1, InBatchKept DEF SchedulerInv, Working
<1>3. \A p \in Posts : p \notin claimed =>
          /\ state'[p] = state[p] /\ version'[p] = version[p] /\ r \notin Owners(p)'
  BY <1>1 DEF ClaimDue, Owners
<1>4. \A p \in Posts : p \in claimed =>
          state[p] = "confirmed" /\ state'[p] = "processing" /\ r \in Owners(p)'
  BY <1>1 DEF ClaimDue, Owners, Unclaimed
<1>5. ASSUME NEW p \in Posts, p \in claimed
      PROVE  SentOnce(p)' /\ \A q \in Owners(p)' : OwnedBy(q, p)'
  <2>1. Owners(p) = {} /\ deliveries[p] = 0
    BY <1>4, <1>5 DEF SchedulerInv, Ownership, OwnedBy, SentOnce, Unclaimable
  <2>2. Owners(p)' = {r} /\ ~Working(r, p)'
    BY <1>1, <1>4, <1>5, <2>1 DEF Owners, Alone, Sessions, Working
  <2>3. QED
    BY <1>1, <1>4, <1>5, <2>1, <2>2 DEF SentOnce, OwnedBy
<1>6. ASSUME NEW p \in Posts PROVE SentOnce(p)' /\ \A q \in Owners(p)' : OwnedBy(q, p)'
  BY <1>s, <1>1, <1>3, <1>5, RowUntouched DEF SchedulerInv, Ownership
<1>7. ASSUME NEW p \in Posts, state'[p] = "processing", faults' = 0
      PROVE  Owners(p)' # {}
  <2>1. CASE p \in claimed
    BY <1>4, <2>1
  <2>2. CASE p \notin claimed
    <3>1. PICK q \in Owners(p) : TRUE
      BY <1>1, <1>3, <1>7, <2>2 DEF SchedulerInv, NotAbandoned
    <3>2. q \in Owners(p)'
      BY <1>1, <3>1 DEF Owners, Alone, Sessions
    <3>3. QED
      BY <3>2
  <2>3. QED
    BY <2>1, <2>2
<1>8. QED
  BY <1>2, <1>6, <1>7 DEF SchedulerInv, Ownership, NotAbandoned

\* While r keeps its batch, the owners stay who they were.
LEMMA SameOwners ==
    ASSUME NEW s \in Sessions, Alone(s), batch'[s] = batch[s],
           pc[s] # "claim", pc'[s] # "claim"
    PROVE  \A p \in Posts : Owners(p)' = Owners(p)
    BY DEF Alone, Owners, Sessions

LEMMA LoadOwnership ==
    ASSUME TypeOK, SchedulerInv, NEW r \in Runs, NEW x \in Posts, LoadPost(r, x)
    PROVE  SchedulerInv'
<1>s. r \in Sessions
  BY DEF Sessions
<1>1. /\ Alone(r) /\ pc[r] = "next" /\ pc'[r] = "deliver" /\ batch'[r] = batch[r]
      /\ x \in batch[r] /\ cur'[r] = x /\ seen'[r][x] = version[x]
  BY <1>s DEF TypeOK, Alone, LoadPost
<1>2. InBatch'
  BY <1>s, <1>1, InBatchKept DEF SchedulerInv, Working
<1>3. \A p \in Posts : Owners(p)' = Owners(p)
  BY <1>s, <1>1, SameOwners
<1>4. \A p \in Posts : ~Working(r, p)
  BY <1>1 DEF Working
<1>5. ASSUME NEW p \in Posts, p # x
      PROVE  SentOnce(p)' /\ \A q \in Owners(p)' : OwnedBy(q, p)'
  <2>1. ~Working(r, p)'
    BY <1>1, <1>5 DEF Working
  <2>2. QED
    BY <1>s, <1>1, <1>3, <1>4, <2>1, RowUntouched DEF LoadPost, rows, SchedulerInv, Ownership
<1>6. SentOnce(x)' /\ \A q \in Owners(x)' : OwnedBy(q, x)'
  <2>1. r \in Owners(x) /\ SentOnce(x) /\ OwnedBy(r, x)
    BY <1>1 DEF Owners, SchedulerInv, Ownership
  <2>2. state[x] = "processing" /\ deliveries[x] = 0 /\ \A q \in Owners(x) : q = r
    BY <1>4, <2>1 DEF OwnedBy
  <2>3. QED
    BY <1>1, <1>3, <2>1, <2>2 DEF OwnedBy, SentOnce, LoadPost, rows
<1>7. QED
  BY <1>2, <1>3, <1>5, <1>6 DEF LoadPost, rows, budgets, SchedulerInv, Ownership, NotAbandoned

LEMMA DeliverOwnership ==
    ASSUME TypeOK, SchedulerInv, NEW r \in Runs, Deliver(r)
    PROVE  SchedulerInv'
<1>s. r \in Sessions
  BY DEF Sessions
<1>1. /\ Alone(r) /\ pc[r] = "deliver" /\ pc'[r] \in {"published", "failed"}
      /\ batch'[r] = batch[r] /\ cur'[r] = cur[r] /\ seen'[r] = seen[r]
      /\ state' = state /\ version' = version
  BY <1>s DEF TypeOK, Alone, Deliver, rows
<1>2. InBatch'
  BY <1>s, <1>1, InBatchKept DEF SchedulerInv, InBatch, Working
<1>3. \A p \in Posts : Owners(p)' = Owners(p)
  BY <1>s, <1>1, SameOwners
<1>4. ASSUME NEW p \in Posts, p # cur[r]
      PROVE  SentOnce(p)' /\ \A q \in Owners(p)' : OwnedBy(q, p)'
  <2>1. deliveries'[p] = deliveries[p] /\ ~Working(r, p) /\ ~Working(r, p)'
    BY <1>1, <1>4 DEF TypeOK, Deliver, Working
  <2>2. QED
    BY <1>s, <1>1, <1>3, <2>1, RowUntouched DEF SchedulerInv, Ownership
<1>5. ASSUME NEW p \in Posts, p = cur[r]
      PROVE  SentOnce(p)' /\ \A q \in Owners(p)' : OwnedBy(q, p)'
  <2>1. Working(r, p) /\ Working(r, p)'
    BY <1>1, <1>5 DEF Working
  <2>2. r \in Owners(p) /\ SentOnce(p) /\ OwnedBy(r, p)
    BY <1>1, <2>1 DEF Owners, SchedulerInv, InBatch, Ownership
  <2>3. state[p] = "processing" /\ deliveries[p] = 0 /\ \A q \in Owners(p) : q = r
    BY <1>1, <2>2 DEF OwnedBy
  <2>4. deliveries'[p] = 1
    BY <1>5, <2>3 DEF TypeOK, Deliver
  <2>5. SentOnce(p)' /\ OwnedBy(r, p)'
    BY <1>1, <1>3, <2>1, <2>2, <2>3, <2>4 DEF OwnedBy, SentOnce, Unclaimable
  <2>6. QED
    BY <1>3, <2>3, <2>5
<1>6. NotAbandoned'
  BY <1>1, <1>3 DEF Deliver, Fault, budgets, TypeOK, SchedulerInv, NotAbandoned
<1>7. QED
  BY <1>2, <1>4, <1>5, <1>6 DEF SchedulerInv, Ownership

\* The publisher refuses, or nothing was written: r turns to the failure.
LEMMA TurnOwnership ==
    ASSUME TypeOK, SchedulerInv, NEW r \in Runs, PublisherRefuses(r) \/ UpdateRaises(r)
    PROVE  SchedulerInv'
<1>s. r \in Sessions
  BY DEF Sessions
<1>1. /\ Alone(r) /\ pc[r] \in {"deliver", "published"} /\ pc'[r] = "failed"
      /\ batch'[r] = batch[r] /\ cur'[r] = cur[r] /\ seen'[r] = seen[r]
      /\ state' = state /\ version' = version /\ deliveries' = deliveries
  BY <1>s DEF TypeOK, Alone, PublisherRefuses, AfterRefusal, UpdateRaises, rows
<1>2. InBatch'
  BY <1>s, <1>1, InBatchKept DEF SchedulerInv, InBatch, Working
<1>3. \A p \in Posts : Owners(p)' = Owners(p)
  BY <1>s, <1>1, SameOwners
<1>4. ASSUME NEW p \in Posts PROVE SentOnce(p)' /\ \A q \in Owners(p)' : OwnedBy(q, p)'
  <2>1. Working(r, p)' <=> Working(r, p)
    BY <1>1 DEF Working
  <2>2. QED
    BY <1>s, <1>1, <1>3, <2>1, RowUntouched DEF SchedulerInv, Ownership
<1>5. NotAbandoned'
  BY <1>1, <1>3 DEF PublisherRefuses, UpdateRaises, Fault, budgets, TypeOK, SchedulerInv,
                    NotAbandoned
<1>6. QED
  BY <1>2, <1>4, <1>5 DEF SchedulerInv, Ownership

\* A run about to record a verdict owns the post, whose version has not moved.
LEMMA VerdictOwner ==
    ASSUME TypeOK, SchedulerInv, NEW r \in Runs, pc[r] \in {"published", "failed"},
           cur[r] \in Posts
    PROVE  /\ VersionHolds(r) /\ SentOnce(cur[r])
           /\ r \in Owners(cur[r]) /\ OwnedBy(r, cur[r])
           /\ \A q \in Owners(cur[r]) : q = r
<1>1. Working(r, cur[r])
  BY DEF Working
<1>2. r \in Owners(cur[r])
  BY <1>1 DEF Owners, SchedulerInv, InBatch
<1>3. OwnedBy(r, cur[r]) /\ SentOnce(cur[r])
  BY <1>2 DEF SchedulerInv, Ownership
<1>4. QED
  BY <1>1, <1>2, <1>3 DEF OwnedBy, VersionHolds

\* r ends its work on a post, or on all of them after a fault.
LEMMA EndOwnership ==
    ASSUME TypeOK, SchedulerInv, NEW r \in Runs,
           RecordPublished(r) \/ RecordFailed(r) \/ RunAborts(r) \/ RunAbortsLate(r)
    PROVE  SchedulerInv'
<1>s. r \in Sessions
  BY DEF Sessions
<1>1. /\ pc[r] \in {"published", "failed"}
      /\ Restart(r) \/ NextPost(r)
      /\ deliveries' = deliveries
  BY DEF RecordPublished, RecordFailed, RunAborts, RunAbortsLate
<1>2. /\ Alone(r)
      /\ \A p \in Posts : ~Working(r, p)'
      /\ \A p \in Posts : r \in Owners(p)' <=> r \in Owners(p) /\ NextPost(r) /\ p # cur[r]
  BY <1>s, <1>1, LeavesAlone
<1>3. InBatch'
  BY <1>s, <1>1, RestartKeepsBatch DEF SchedulerInv
<1>4. \A p \in Posts : p # cur[r] => state'[p] = state[p] /\ version'[p] = version[p]
  BY DEF TypeOK, RecordPublished, RecordFailed, RunAborts, RunAbortsLate, WriteState, rows
<1>5. ASSUME NEW p \in Posts, p # cur[r]
      PROVE  SentOnce(p)' /\ \A q \in Owners(p)' : OwnedBy(q, p)'
  <2>1. ~Working(r, p)
    BY <1>5 DEF Working
  <2>2. QED
    BY <1>s, <1>1, <1>2, <1>4, <1>5, <2>1, RowUntouched DEF SchedulerInv, Ownership
<1>6. ASSUME NEW p \in Posts, p = cur[r]
      PROVE  SentOnce(p)' /\ \A q \in Owners(p)' : OwnedBy(q, p)'
  <2>1. SentOnce(p) /\ \A q \in Owners(p) : q = r
    BY <1>1, <1>6, VerdictOwner
  <2>2. Owners(p)' = {}
    BY <1>2, <1>6, <2>1 DEF Owners, Alone, Sessions
  <2>3. state'[p] \in {state[p], "published", "failed"}
    BY <1>6 DEF TypeOK, RecordPublished, RecordFailed, RunAborts, RunAbortsLate, WriteState, rows
  <2>4. SentOnce(p)'
    BY <1>1, <2>1, <2>3 DEF SentOnce, Unclaimable
  <2>5. QED
    BY <2>2, <2>4
<1>7. ASSUME NEW p \in Posts, state'[p] = "processing", faults' = 0
      PROVE  Owners(p)' # {}
  <2>1. NextPost(r) /\ faults = 0 /\ (RecordPublished(r) \/ RecordFailed(r))
    BY <1>7 DEF TypeOK, RecordPublished, RecordFailed, RunAborts, RunAbortsLate, Fault, budgets
  <2>2. p # cur[r]
    <3>1. CASE p = cur[r]
      <4>1. VersionHolds(r)
        BY <1>1, <3>1, VerdictOwner
      <4>2. state'[p] \in {"published", "failed"}
        BY <2>1, <3>1, <4>1 DEF TypeOK, RecordPublished, RecordFailed, WriteState
      <4>3. QED
        BY <1>7, <4>2
    <3>2. QED
      BY <3>1
  <2>3. PICK q \in Owners(p) : TRUE
    BY <1>4, <1>7, <2>1, <2>2 DEF SchedulerInv, NotAbandoned
  <2>4. q \in Owners(p)'
    BY <1>2, <2>1, <2>2, <2>3 DEF Owners, Alone, Sessions
  <2>5. QED
    BY <2>4
<1>8. QED
  BY <1>3, <1>5, <1>6, <1>7 DEF SchedulerInv, Ownership, NotAbandoned

\* r has published a post and turns to a failure that never was.
LEMMA RefreshOwnership ==
    ASSUME TypeOK, SchedulerInv, NEW r \in Runs, RefreshRaises(r)
    PROVE  SchedulerInv'
<1>s. r \in Sessions
  BY DEF Sessions
<1>1. /\ Alone(r) /\ pc[r] = "published" /\ pc'[r] = "failed"
      /\ batch'[r] = batch[r] /\ cur'[r] = cur[r] /\ deliveries' = deliveries
      /\ faults' # 0
  BY <1>s DEF TypeOK, Alone, RefreshRaises, Fault
<1>2. InBatch'
  BY <1>s, <1>1, InBatchKept DEF SchedulerInv, InBatch, Working
<1>3. \A p \in Posts : Owners(p)' = Owners(p)
  BY <1>s, <1>1, SameOwners
<1>4. ASSUME NEW p \in Posts, p # cur[r]
      PROVE  SentOnce(p)' /\ \A q \in Owners(p)' : OwnedBy(q, p)'
  <2>1. ~Working(r, p) /\ ~Working(r, p)'
    BY <1>1, <1>4 DEF Working
  <2>2. state'[p] = state[p] /\ version'[p] = version[p]
    BY <1>4 DEF TypeOK, RefreshRaises, WriteState
  <2>3. QED
    BY <1>s, <1>1, <1>3, <2>1, <2>2, RowUntouched DEF SchedulerInv, Ownership
<1>5. ASSUME NEW p \in Posts, p = cur[r]
      PROVE  SentOnce(p)' /\ \A q \in Owners(p)' : OwnedBy(q, p)'
  <2>1. SentOnce(p) /\ r \in Owners(p) /\ \A q \in Owners(p) : q = r
    BY <1>1, <1>5, VerdictOwner
  <2>2. state'[p] = "published" /\ Working(r, p)'
    BY <1>1, <1>5 DEF TypeOK, RefreshRaises, WriteState, Working
  <2>3. version'[p] = seen'[r][p]
    BY <1>s, <1>5 DEF TypeOK, RefreshRaises, WriteState
  <2>4. SentOnce(p)' /\ OwnedBy(r, p)'
    BY <1>1, <1>3, <2>1, <2>2, <2>3 DEF SentOnce, Unclaimable, OwnedBy
  <2>5. QED
    BY <1>3, <2>1, <2>4
<1>6. QED
  BY <1>1, <1>2, <1>4, <1>5 DEF SchedulerInv, Ownership, NotAbandoned

LEMMA CrashOwnership ==
    ASSUME TypeOK, SchedulerInv, NEW s \in Sessions, Crash(s)
    PROVE  SchedulerInv'
<1>1. Restart(s) /\ Alone(s) /\ \A p \in Posts : ~Working(s, p)'
  BY LeavesAlone DEF Crash
<1>2. InBatch'
  BY <1>1, RestartKeepsBatch DEF SchedulerInv
<1>3. \A p \in Posts : s \notin Owners(p)'
  BY <1>1 DEF TypeOK, Restart, Owners
<1>4. ASSUME NEW p \in Posts PROVE SentOnce(p)' /\ \A q \in Owners(p)' : OwnedBy(q, p)'
  BY <1>1, <1>3, RowUntouched DEF Crash, rows, SchedulerInv, Ownership
<1>5. faults' # 0
  BY DEF TypeOK, Crash, Fault
<1>6. QED
  BY <1>2, <1>4, <1>5 DEF SchedulerInv, Ownership, NotAbandoned

\* The invariant that the theorems below rest on.
LEMMA Owned == Spec => [](TypeOK /\ SchedulerInv)
<1>1. Init => TypeOK /\ SchedulerInv
  <2>1. Init => InBatch
    BY DEF Init, InBatch, Working, Sessions
  <2>2. Init => Ownership
    BY DEF Init, Ownership, SentOnce, OwnedBy, Owners, Sessions
  <2>3. Init => NotAbandoned
    BY DEF Init, NotAbandoned
  <2>4. QED
    BY <2>1, <2>2, <2>3 DEF Init, TypeOK, States, SchedulerInv
<1>2. TypeOK /\ SchedulerInv /\ [Next]_vars => SchedulerInv'
  <2> SUFFICES ASSUME TypeOK, SchedulerInv, [Next]_vars PROVE SchedulerInv'
    OBVIOUS
  <2>1. ASSUME NEW x \in Posts, SchedulePost(x) PROVE SchedulerInv'
    <3>1. /\ UNCHANGED <<pc, batch, cur, seen, deliveries, faults>>
          /\ \A p \in Posts : p # x => state'[p] = state[p] /\ version'[p] = version[p]
          /\ state[x] = "none" /\ state'[x] = "awaiting_confirmation"
      BY <2>1 DEF TypeOK, SchedulePost, InitialState, sessions, budgets
    <3>2. \A p \in Posts : Owners(p)' = Owners(p)
      BY <3>1 DEF Owners
    <3>3. Owners(x) = {} /\ deliveries[x] = 0
      BY <3>1 DEF SchedulerInv, Ownership, OwnedBy, SentOnce, Unclaimable
    <3>4. Ownership'
      BY <3>1, <3>2, <3>3 DEF SchedulerInv, Ownership, OwnedBy, SentOnce, Unclaimable, Working
    <3>5. QED
      BY <3>1, <3>2, <3>4 DEF SchedulerInv, InBatch, Working, NotAbandoned
  <2>2. ASSUME NEW x \in Posts, BecomeDue(x) PROVE SchedulerInv'
    BY <2>2 DEF BecomeDue, sessions, budgets, SchedulerInv, InBatch, Ownership, OwnedBy, SentOnce,
                NotAbandoned, Owners, Working
  <2>3. ASSUME NEW c \in Confirmers, ConfirmStep(c) \/ \E p \in Posts : ReadPost(c, p)
        PROVE  SchedulerInv'
    BY <2>3, ConfirmOwnership
  <2>4. ASSUME NEW r \in Runs, SelectDue(r) \/ RunStep(r) PROVE SchedulerInv'
    BY <2>4, SelectOwnership, ClaimOwnership, LoadOwnership, DeliverOwnership, TurnOwnership,
       EndOwnership, RefreshOwnership DEF RunStep
  <2>5. ASSUME NEW s \in Sessions, Crash(s) PROVE SchedulerInv'
    BY <2>5, CrashOwnership
  <2>6. CASE UNCHANGED vars
    BY <2>6 DEF vars, rows, sessions, budgets, SchedulerInv, InBatch, Ownership, OwnedBy,
                SentOnce, NotAbandoned, Owners, Working
  <2>7. QED
    BY <2>1, <2>2, <2>3, <2>4, <2>5, <2>6 DEF Next
<1>3. QED
  BY <1>1, <1>2, TypeCorrect, PTL DEF Spec

\* run_due's claim gives every post to one run at a time, whose optimistic lock
\* then never fails, and without a fault no claimed post is left behind.
THEOREM OneOwner == Spec => []ProcessingHasOwner
<1>1. TypeOK /\ SchedulerInv => ProcessingHasOwner
  <2> SUFFICES ASSUME TypeOK, SchedulerInv, NEW p \in Posts
               PROVE  /\ \A r, q \in Owners(p) : r = q
                      /\ \A r \in Runs : Working(r, p) => VersionHolds(r)
                      /\ state[p] = "processing" /\ faults = 0 => Owners(p) # {}
    BY DEF ProcessingHasOwner
  <2>1. \A r, q \in Owners(p) : r = q
    BY DEF SchedulerInv, Ownership, OwnedBy
  <2>2. ASSUME NEW r \in Runs, Working(r, p) PROVE VersionHolds(r)
    <3>1. r \in Owners(p)
      BY <2>2 DEF SchedulerInv, InBatch, Owners, Working
    <3>2. QED
      BY <2>2, <3>1 DEF SchedulerInv, Ownership, OwnedBy, VersionHolds, Working
  <2>3. QED
    BY <2>1, <2>2 DEF SchedulerInv, NotAbandoned
<1>2. QED
  BY <1>1, Owned, PTL

-----------------------------------------------------------------------------
(* What the outbox and the verdicts tell *)

\* A no-op confirmation has read a post that was confirmed, and so it stays.
ConfirmedWhenRead ==
    \A c \in Confirmers : pc[c] = "noop" =>
        cur[c] \in Posts /\ state[cur[c]] \notin {"none", "awaiting_confirmation"}

\* Told(p): the outbox tells the state of p.
Told(p) ==
    /\ events[p]["created"] = IF state[p] = "none" THEN 0 ELSE 1
    /\ events[p]["confirmed"] > 0 <=> state[p] \notin {"none", "awaiting_confirmation"}
    /\ state[p] = "published" => events[p]["published"] = 1 /\ events[p]["failed"] = 0
    /\ state[p] = "failed"    => events[p]["failed"] = 1
    /\ state[p] \notin Closed => events[p]["published"] + events[p]["failed"] = 0
    /\ events[p]["published"] + events[p]["failed"] = 2 => faults > 0

\* Nobody says that a post was sent that was not, and only a fault makes a run
\* record a published post once more.
Sent(p) ==
    /\ state[p] = "published" => deliveries[p] = 1
    /\ \A r \in Runs : Working(r, p) => /\ pc[r] = "published" => deliveries[p] = 1
                                        /\ state[p] = "published" => faults > 0

\* Posts that were sent, and that nothing says so or will say so.
Lost == {p \in Posts : /\ deliveries[p] > 0
                       /\ state[p] = "published" => \E r \in Runs : Working(r, p)
                       /\ \A r \in Runs : Working(r, p) => pc[r] # "published"}
Paid == IsFiniteSet(Lost) /\ Cardinality(Lost) <= faults

VerdictInv ==
    /\ \A p \in Posts : Told(p) /\ Sent(p)
    /\ ConfirmedWhenRead
    /\ Paid

FaultsGrow == faults \in Nat /\ faults' \in Nat /\ faults' >= faults

LEMMA FaultsOnlyGrow ==
    ASSUME TypeOK, [Next]_vars
    PROVE  FaultsGrow
<1>1. faults \in Nat /\ MaxFaults \in Nat
  BY SchedulerAssumption DEF TypeOK, SchedulerAssumption
<1>2. faults' = faults \/ faults' = faults + 1
  BY DEF Next, SchedulePost, BecomeDue, ReadPost, ConfirmStep, Confirm, ConfirmLosesRace,
         ConfirmAgain, SelectDue, RunStep, ClaimDue, LoadPost, Deliver, PublisherRefuses,
         RecordPublished, RecordFailed, UpdateRaises, RefreshRaises, RunAborts, RunAbortsLate,
         Crash, Fault, vars, budgets
<1>3. QED
  BY <1>1, <1>2 DEF FaultsGrow

LEMMA ToldKept ==
    ASSUME FaultsGrow, NEW p \in Posts, Told(p), events'[p] = events[p], state'[p] = state[p]
    PROVE  Told(p)'
    BY DEF FaultsGrow, Told

LEMMA PaidKept ==
    ASSUME FaultsGrow, Paid, Lost' \subseteq Lost
    PROVE  Paid'
<1>1. IsFiniteSet(Lost') /\ Cardinality(Lost') <= Cardinality(Lost)
  BY FS_Subset DEF Paid
<1>2. Cardinality(Lost') \in Nat /\ Cardinality(Lost) \in Nat
  BY <1>1, FS_CardinalityType DEF Paid
<1>3. QED
  BY <1>1, <1>2 DEF FaultsGrow, Paid

\* A fault pays for one post more.
LEMMA PaidByFault ==
    ASSUME FaultsGrow, Paid, NEW x, Lost' \subseteq Lost \cup {x}, faults' = faults + 1
    PROVE  Paid'
<1>1. /\ IsFiniteSet(Lost \cup {x})
      /\ \/ Cardinality(Lost \cup {x}) = Cardinality(Lost)
         \/ Cardinality(Lost \cup {x}) = Cardinality(Lost) + 1
  BY FS_AddElement DEF Paid
<1>2. IsFiniteSet(Lost') /\ Cardinality(Lost') <= Cardinality(Lost \cup {x})
  BY <1>1, FS_Subset
<1>3. /\ Cardinality(Lost') \in Nat /\ Cardinality(Lost) \in Nat
      /\ Cardinality(Lost \cup {x}) \in Nat
  BY <1>1, <1>2, FS_CardinalityType DEF Paid
<1>4. QED
  BY <1>1, <1>2, <1>3 DEF FaultsGrow, Paid

\* What s does elsewhere changes nothing for p.
LEMMA Elsewhere ==
    ASSUME FaultsGrow, NEW s \in Sessions, Alone(s), NEW p \in Posts, Sent(p),
           s \in Runs => ~Working(s, p) /\ ~Working(s, p)',
           state'[p] = "published" <=> state[p] = "published", deliveries'[p] = deliveries[p]
    PROVE  Sent(p)' /\ (p \in Lost' <=> p \in Lost)
<1>1. \A r \in Runs : r # s => (Working(r, p)' <=> Working(r, p)) /\ pc'[r] = pc[r]
  BY DEF Alone, Working, Sessions
<1>2. \A r \in Runs : Working(r, p)' => Working(r, p) /\ pc'[r] = pc[r]
  BY <1>1
<1>3. \A r \in Runs : Working(r, p) => Working(r, p)' /\ pc'[r] = pc[r]
  BY <1>1
<1>4. Sent(p)'
  BY <1>2 DEF FaultsGrow, Sent
<1>5. p \in Lost' <=> p \in Lost
  BY <1>2, <1>3 DEF Lost
<1>6. QED
  BY <1>4, <1>5

LEMMA ConfirmedKept ==
    ASSUME TypeOK, ConfirmedWhenRead, NEW s \in Sessions, Alone(s), s \in Runs,
           \A p \in Posts : state[p] \notin {"none", "awaiting_confirmation"}
                              => state'[p] \notin {"none", "awaiting_confirmation"}
    PROVE  ConfirmedWhenRead'
<1>1. \A c \in Confirmers : c # s /\ c \in Sessions
  BY SchedulerAssumption DEF Sessions, SchedulerAssumption
<1>2. QED
  BY <1>1 DEF Alone, ConfirmedWhenRead

LEMMA ConfirmVerdicts ==
    ASSUME TypeOK, SchedulerInv, VerdictInv, FaultsGrow, NEW c \in Confirmers,
           ConfirmStep(c) \/ \E p \in Posts : ReadPost(c, p)
    PROVE  VerdictInv'
<1>s. c \in Sessions /\ c \notin Runs
  BY SchedulerAssumption DEF Sessions, SchedulerAssumption
<1>1. Alone(c) /\ deliveries' = deliveries
  BY <1>s, LeavesAlone
  DEF TypeOK, Alone, ConfirmStep, Confirm, ConfirmLosesRace, ConfirmAgain, ReadPost
<1>2. \A p \in Posts : \/ state'[p] = state[p]
                       \/ state[p] = "awaiting_confirmation" /\ state'[p] = "confirmed"
  BY DEF TypeOK, ConfirmStep, Confirm, ConfirmLosesRace, ConfirmAgain, ReadPost, WriteState, rows
<1>3. \A p \in Posts : Sent(p)' /\ (p \in Lost' <=> p \in Lost)
  BY <1>s, <1>1, <1>2, Elsewhere DEF VerdictInv
<1>4. Paid'
  <2>1. Lost' \subseteq Lost
    BY <1>3 DEF Lost
  <2>2. QED
    BY <2>1, PaidKept DEF VerdictInv
<1>5. ConfirmedWhenRead'
  <2>1. ASSUME NEW d \in Confirmers, pc'[d] = "noop"
        PROVE  cur'[d] \in Posts /\ state'[cur'[d]] \notin {"none", "awaiting_confirmation"}
    <3>1. CASE d # c
      <4>1. pc[d] = "noop" /\ cur'[d] = cur[d]
        BY <1>1, <2>1, <3>1 DEF Alone, Sessions
      <4>2. QED
        BY <1>2, <2>1, <4>1 DEF VerdictInv, ConfirmedWhenRead
    <3>2. CASE d = c
      <4>1. PICK p \in Posts : ReadPost(c, p)
        BY <1>s, <2>1, <3>2
        DEF TypeOK, ConfirmStep, Confirm, ConfirmLosesRace, ConfirmAgain, Restart
      <4>2. cur'[d] = p /\ state' = state /\ state[p] # "none"
            /\ state[p] # "awaiting_confirmation"
        BY <1>s, <2>1, <3>2, <4>1 DEF TypeOK, ReadPost, rows
      <4>3. QED
        BY <4>2
    <3>3. QED
      BY <3>1, <3>2
  <2>2. QED
    BY <2>1 DEF ConfirmedWhenRead
<1>6. ASSUME NEW p \in Posts PROVE Told(p)'
  <2>0. Told(p) /\ events[p] \in [Kinds -> Nat] /\ Kinds = {"created", "confirmed", "published", "failed"}
    BY DEF VerdictInv, TypeOK, Kinds
  <2>1. CASE events'[p] = events[p] /\ state'[p] = state[p]
    BY <2>0, <2>1, ToldKept
  <2>2. CASE /\ events'[p] = [events[p] EXCEPT !["confirmed"] = @ + 1]
             /\ \/ state[p] = "awaiting_confirmation" /\ state'[p] = "confirmed"
                \/ state[p] \notin {"none", "awaiting_confirmation"} /\ state'[p] = state[p]
    <3>1. /\ events'[p]["confirmed"] > 0 /\ events'[p]["created"] = events[p]["created"]
          /\ events'[p]["published"] = events[p]["published"]
          /\ events'[p]["failed"] = events[p]["failed"]
      BY <2>0, <2>2
    <3>2. QED
      BY <2>0, <2>2, <3>1 DEF Told, Closed, FaultsGrow
  <2>3. CASE Confirm(c)
    BY <2>1, <2>2, <2>3 DEF TypeOK, Confirm, WriteState, Emit
  <2>4. CASE ConfirmAgain(c)
    BY <2>1, <2>2, <2>4 DEF TypeOK, ConfirmAgain, Emit, VerdictInv, ConfirmedWhenRead
  <2>5. CASE ConfirmLosesRace(c) \/ \E x \in Posts : ReadPost(c, x)
    BY <2>1, <2>5 DEF ConfirmLosesRace, ReadPost, rows
  <2>6. QED
    BY <2>3, <2>4, <2>5 DEF ConfirmStep
<1>7. QED
  BY <1>3, <1>4, <1>5, <1>6 DEF VerdictInv

\* A run reads or claims: nothing is sent and no verdict falls.
LEMMA TakeVerdicts ==
    ASSUME TypeOK, SchedulerInv, VerdictInv, FaultsGrow, NEW r \in Runs,
           SelectDue(r) \/ ClaimDue(r)
    PROVE  VerdictInv'
<1>s. r \in Sessions
  BY DEF Sessions
<1>1. /\ Alone(r) /\ deliveries' = deliveries /\ events' = events
      /\ pc[r] \in {"idle", "claim"} /\ pc'[r] \in {"idle", "claim", "next"}
  BY <1>s DEF TypeOK, Alone, SelectDue, ClaimDue, rows
<1>2. \A p \in Posts : \/ state'[p] = state[p]
                       \/ state[p] = "confirmed" /\ state'[p] = "processing"
  BY DEF SelectDue, ClaimDue, Unclaimed, rows
<1>3. \A p \in Posts : ~Working(r, p) /\ ~Working(r, p)'
  BY <1>1 DEF Working
<1>4. \A p \in Posts : Sent(p)' /\ (p \in Lost' <=> p \in Lost)
  BY <1>s, <1>1, <1>2, <1>3, Elsewhere DEF VerdictInv
<1>5. Paid'
  <2>1. Lost' \subseteq Lost
    BY <1>4 DEF Lost
  <2>2. QED
    BY <2>1, PaidKept DEF VerdictInv
<1>6. ConfirmedWhenRead'
  BY <1>s, <1>1, <1>2, ConfirmedKept DEF VerdictInv
<1>7. ASSUME NEW p \in Posts PROVE Told(p)'
  BY <1>1, <1>2, ToldKept DEF VerdictInv, Told, Closed, FaultsGrow
<1>8. QED
  BY <1>4, <1>5, <1>6, <1>7 DEF VerdictInv

\* r, at work on x, does something to x: only x can change.
LEMMA OnlyOne ==
    ASSUME TypeOK, VerdictInv, FaultsGrow, NEW r \in Runs, Alone(r), NEW x,
           \A p \in Posts : p # x =>
              /\ ~Working(r, p) /\ ~Working(r, p)'
              /\ state'[p] = state[p] /\ deliveries'[p] = deliveries[p] /\ events'[p] = events[p],
           x \in Posts => /\ Sent(x)' /\ Told(x)'
                          /\ state[x] \notin {"none", "awaiting_confirmation"}
                               => state'[x] \notin {"none", "awaiting_confirmation"}
                          /\ faults' = faults + 1 \/ (x \in Lost' => x \in Lost)
    PROVE  VerdictInv'
<1>s. r \in Sessions
  BY DEF Sessions
<1>1. \A p \in Posts : p # x => Sent(p)' /\ (p \in Lost' <=> p \in Lost)
  BY <1>s, Elsewhere DEF VerdictInv
<1>2. \A p \in Posts : p # x => Told(p)'
  BY ToldKept DEF VerdictInv
<1>3. Paid'
  <2>1. CASE x \in Posts /\ faults' = faults + 1
    <3>1. Lost' \subseteq Lost \cup {x}
      BY <1>1 DEF Lost
    <3>2. QED
      BY <2>1, <3>1, PaidByFault DEF VerdictInv
  <2>2. CASE x \in Posts => (x \in Lost' => x \in Lost)
    <3>1. Lost' \subseteq Lost
      BY <1>1, <2>2 DEF Lost
    <3>2. QED
      BY <3>1, PaidKept DEF VerdictInv
  <2>3. QED
    BY <2>1, <2>2
<1>4. ConfirmedWhenRead'
  BY <1>s, ConfirmedKept DEF VerdictInv
<1>5. QED
  BY <1>1, <1>2, <1>3, <1>4 DEF VerdictInv

LEMMA LoadVerdicts ==
    ASSUME TypeOK, SchedulerInv, VerdictInv, FaultsGrow, NEW r \in Runs, NEW x \in Posts,
           LoadPost(r, x)
    PROVE  VerdictInv'
<1>s. r \in Sessions
  BY DEF Sessions
<1>1. /\ Alone(r) /\ pc[r] = "next" /\ pc'[r] = "deliver" /\ x \in batch[r] /\ cur'[r] = x
      /\ UNCHANGED <<state, events, deliveries, faults>>
  BY <1>s DEF TypeOK, Alone, LoadPost, rows, budgets
<1>2. \A p \in Posts : ~Working(r, p) /\ (p # x => ~Working(r, p)')
  BY <1>1 DEF Working
<1>3. state[x] = "processing" /\ deliveries[x] = 0
  <2>1. r \in Owners(x) /\ OwnedBy(r, x)
    BY <1>1 DEF Owners, SchedulerInv, Ownership
  <2>2. QED
    BY <1>2, <2>1 DEF OwnedBy
<1>4. Sent(x)'
  <2>1. \A q \in Runs : Working(q, x)' /\ pc'[q] = "published" => Working(q, x) /\ pc[q] = "published"
    BY <1>1 DEF Alone, Working, Sessions
  <2>2. QED
    BY <1>1, <1>3, <2>1 DEF VerdictInv, Sent
<1>5. x \notin Lost'
  BY <1>1, <1>3 DEF Lost
<1>6. Told(x)'
  BY <1>1, ToldKept DEF VerdictInv
<1>7. QED
  BY <1>1, <1>2, <1>4, <1>5, <1>6, OnlyOne

\* The run that works on a post, and what it knows of it.
LEMMA WorkerOwns ==
    ASSUME SchedulerInv, NEW r \in Runs, NEW x \in Posts, Working(r, x)
    PROVE  /\ \A q \in Runs : Working(q, x) => q = r
           /\ SentOnce(x) /\ OwnedBy(r, x)
<1>1. \A q \in Runs : Working(q, x) => q \in Owners(x)
  BY DEF SchedulerInv, InBatch, Owners, Working
<1>2. r \in Owners(x) /\ OwnedBy(r, x) /\ SentOnce(x)
  BY <1>1 DEF SchedulerInv, Ownership
<1>3. QED
  BY <1>1, <1>2 DEF OwnedBy

\* The call to the publisher, and the turn to a failure.
LEMMA CallVerdicts ==
    ASSUME TypeOK, SchedulerInv, VerdictInv, FaultsGrow, NEW r \in Runs,
           Deliver(r) \/ PublisherRefuses(r) \/ UpdateRaises(r)
    PROVE  VerdictInv'
<1>x. PICK x : x = cur[r]
  OBVIOUS
<1>s. r \in Sessions
  BY DEF Sessions
<1> USE <1>x
<1>1. /\ Alone(r) /\ cur'[r] = cur[r] /\ pc[r] \in {"deliver", "published"}
      /\ pc'[r] \in {"published", "failed"} /\ state' = state /\ events' = events
  BY <1>s DEF TypeOK, Alone, Deliver, PublisherRefuses, AfterRefusal, UpdateRaises, rows
<1>2. \A p \in Posts : p # x => /\ ~Working(r, p) /\ ~Working(r, p)'
                                     /\ deliveries'[p] = deliveries[p]
  BY <1>1 DEF TypeOK, Deliver, PublisherRefuses, UpdateRaises, Working
<1>3. ASSUME x \in Posts
      PROVE  /\ Sent(x)' /\ Told(x)'
             /\ faults' = faults + 1 \/ (x \in Lost' => x \in Lost)
  <2> x \in Posts
    BY <1>3
  <2>1. Working(r, x) /\ Working(r, x)'
    BY <1>1 DEF Working
  <2>2. /\ \A q \in Runs : Working(q, x) => q = r
        /\ deliveries[x] \in {0, 1} /\ OwnedBy(r, x) /\ Sent(x)
    BY <2>1, WorkerOwns DEF SentOnce, VerdictInv
  <2>3. \A q \in Runs : Working(q, x)' => q = r
    BY <1>1, <2>2 DEF Alone, Working, Sessions
  <2>4. pc[r] = "deliver" => deliveries[x] = 0 /\ state[x] = "processing"
    BY <2>1, <2>2 DEF OwnedBy
  <2>5. pc'[r] = "published" => Deliver(r) /\ deliveries'[x] = deliveries[x] + 1
    BY <1>s DEF TypeOK, Deliver, PublisherRefuses, AfterRefusal, UpdateRaises
  <2>6. pc[r] = "published" => faults' = faults + 1 /\ deliveries'[x] = deliveries[x]
    BY DEF Deliver, PublisherRefuses, UpdateRaises, Fault
  <2>7. Sent(x)'
    BY <1>1, <2>2, <2>3, <2>4, <2>5, <2>6 DEF Sent, FaultsGrow
  <2>8. Told(x)'
    BY <1>1, ToldKept DEF VerdictInv
  <2>9. faults' = faults + 1 \/ x \notin Lost'
    <3>1. CASE PublisherRefuses(r)
      BY <2>4, <3>1 DEF PublisherRefuses, Lost
    <3>2. CASE pc'[r] = "published"
      BY <2>1, <3>2 DEF Lost
    <3>3. QED
      BY <1>s, <1>1, <3>1, <3>2 DEF TypeOK, Deliver, UpdateRaises, Fault
  <2>10. QED
    BY <2>7, <2>8, <2>9
<1>4. QED
  BY <1>1, <1>2, <1>3, OnlyOne

\* The verdict v of run r: its event is the first, or a fault made it the
\* second.
LEMMA VerdictTold ==
    ASSUME TypeOK, SchedulerInv, VerdictInv, FaultsGrow, NEW r \in Runs,
           pc[r] \in {"published", "failed"}, NEW x \in Posts, x = cur[r],
           NEW v \in Closed, v = pc[r], WriteState(r, v), Emit(x, v)
    PROVE  Told(x)' /\ state'[x] = v
<1>1. Working(r, x)
  BY DEF Working
<1>2. OwnedBy(r, x) /\ Told(x) /\ Sent(x)
  BY <1>1, WorkerOwns DEF VerdictInv
<1>3. state'[x] = v /\ events'[x] = [events[x] EXCEPT ![v] = @ + 1]
  BY DEF TypeOK, WriteState, Emit
<1>4. events[x] \in [Kinds -> Nat] /\ Kinds = {"created", "confirmed", "published", "failed"}
  BY DEF TypeOK, Kinds
<1>5. state[x] = "processing" \/ (state[x] = "published" /\ pc[r] = "failed" /\ faults > 0)
  BY <1>1, <1>2 DEF OwnedBy, Sent
<1>6. CASE v = "published"
  <2>1. /\ events'[x]["published"] = events[x]["published"] + 1
        /\ events'[x]["failed"] = events[x]["failed"]
        /\ events'[x]["created"] = events[x]["created"]
        /\ events'[x]["confirmed"] = events[x]["confirmed"]
    BY <1>3, <1>4, <1>6
  <2>2. QED
    BY <1>2, <1>3, <1>4, <1>5, <1>6, <2>1 DEF Told, Closed, FaultsGrow
<1>7. CASE v = "failed"
  <2>1. /\ events'[x]["failed"] = events[x]["failed"] + 1
        /\ events'[x]["published"] = events[x]["published"]
        /\ events'[x]["created"] = events[x]["created"]
        /\ events'[x]["confirmed"] = events[x]["confirmed"]
    BY <1>3, <1>4, <1>7
  <2>2. QED
    BY <1>2, <1>3, <1>4, <1>5, <1>7, <2>1 DEF Told, Closed, FaultsGrow
<1>8. QED
  BY <1>6, <1>7 DEF Closed

\* r records a verdict, or ends without one after a fault.
LEMMA EndVerdicts ==
    ASSUME TypeOK, SchedulerInv, VerdictInv, FaultsGrow, NEW r \in Runs,
           \/ RecordPublished(r) \/ RecordFailed(r) \/ RefreshRaises(r)
           \/ RunAborts(r) \/ RunAbortsLate(r)
    PROVE  VerdictInv'
<1>x. PICK x : x = cur[r]
  OBVIOUS
<1>s. r \in Sessions
  BY DEF Sessions
<1> USE <1>x
<1>1. pc[r] \in {"published", "failed"} /\ deliveries' = deliveries
  BY DEF RecordPublished, RecordFailed, RefreshRaises, RunAborts, RunAbortsLate
<1>2. /\ Alone(r)
      /\ \A p \in Posts : Working(r, p)' => p = x /\ RefreshRaises(r) /\ pc'[r] = "failed"
  <2>1. CASE RefreshRaises(r)
    BY <1>s, <2>1 DEF TypeOK, Alone, RefreshRaises, Working
  <2>2. CASE Restart(r) \/ NextPost(r)
    BY <1>s, <2>2, LeavesAlone
  <2>3. QED
    BY <2>1, <2>2 DEF RecordPublished, RecordFailed, RunAborts, RunAbortsLate
<1>3. \A p \in Posts : p # x =>
          /\ ~Working(r, p) /\ ~Working(r, p)'
          /\ state'[p] = state[p] /\ deliveries'[p] = deliveries[p] /\ events'[p] = events[p]
  <2>1. \A p \in Posts : p # x => ~Working(r, p) /\ ~Working(r, p)'
    BY <1>2 DEF Working
  <2>2. \A p \in Posts : p # x => state'[p] = state[p] /\ events'[p] = events[p]
    BY DEF TypeOK, RecordPublished, RecordFailed, RefreshRaises, RunAborts, RunAbortsLate,
           WriteState, Emit, rows
  <2>3. QED
    BY <1>1, <2>1, <2>2
<1>4. ASSUME x \in Posts
      PROVE  /\ Sent(x)' /\ Told(x)'
             /\ state[x] \notin {"none", "awaiting_confirmation"}
                  => state'[x] \notin {"none", "awaiting_confirmation"}
             /\ faults' = faults + 1 \/ (x \in Lost' => x \in Lost)
  <2> x \in Posts
    BY <1>4
  <2>1. Working(r, x)
    BY <1>1 DEF Working
  <2>2. /\ \A q \in Runs : Working(q, x) => q = r
        /\ deliveries[x] \in {0, 1} /\ Sent(x) /\ VersionHolds(r)
    BY <1>1, <2>1, WorkerOwns, VerdictOwner DEF SentOnce, VerdictInv
  <2>3. \A q \in Runs : Working(q, x)' => q = r /\ RefreshRaises(r) /\ pc'[r] = "failed"
    BY <1>2, <2>2 DEF Alone, Working, Sessions
  <2>4. CASE RunAborts(r)
    <3>1. state' = state /\ events' = events /\ faults' = faults + 1
      BY <2>4 DEF RunAborts, Fault, rows
    <3>2. Told(x)'
      BY <3>1, ToldKept DEF VerdictInv
    <3>3. \A q \in Runs : ~Working(q, x)'
      BY <1>s, <2>3, <2>4, LeavesAlone DEF RunAborts
    <3>4. Sent(x)'
      BY <1>1, <2>2, <3>1, <3>3 DEF Sent
    <3>5. QED
      BY <3>1, <3>2, <3>4
  <2>5. ASSUME NEW v \in Closed, v = pc[r], WriteState(r, v), Emit(x, v)
        PROVE  Told(x)' /\ state'[x] = v
    BY <1>1, <2>5, VerdictTold
  <2>6. CASE RecordPublished(r) \/ RefreshRaises(r)
    <3>1. /\ WriteState(r, "published") /\ Emit(x, "published") /\ pc[r] = "published"
          /\ "published" \in Closed
      BY <2>2, <2>6 DEF RecordPublished, RefreshRaises, Closed
    <3>2. Told(x)' /\ state'[x] = "published" /\ deliveries'[x] = 1
      BY <1>1, <2>1, <2>2, <2>5, <3>1 DEF Sent
    <3>3. RefreshRaises(r) => faults' = faults + 1
      BY DEF RefreshRaises, Fault
    <3>4. Sent(x)'
      BY <2>3, <3>2, <3>3 DEF Sent, FaultsGrow
    <3>5. RefreshRaises(r) \/ x \notin Lost'
      BY <2>3, <3>2 DEF Lost
    <3>6. QED
      BY <3>2, <3>3, <3>4, <3>5
  <2>7. CASE RecordFailed(r) \/ RunAbortsLate(r)
    <3>1. /\ WriteState(r, "failed") /\ Emit(x, "failed") /\ pc[r] = "failed"
          /\ "failed" \in Closed
      BY <2>2, <2>7 DEF RecordFailed, RunAbortsLate, Closed
    <3>2. Told(x)' /\ state'[x] = "failed"
      BY <2>5, <3>1
    <3>3. \A q \in Runs : ~Working(q, x)'
      BY <2>3, <3>1 DEF RefreshRaises
    <3>4. Sent(x)'
      BY <3>2, <3>3 DEF Sent
    <3>5. x \in Lost' => x \in Lost
      BY <1>1, <2>1, <2>2, <3>1 DEF Lost
    <3>6. QED
      BY <3>2, <3>4, <3>5
  <2>8. QED
    BY <2>4, <2>6, <2>7
<1>5. QED
  BY <1>2, <1>3, <1>4, OnlyOne

LEMMA CrashVerdicts ==
    ASSUME TypeOK, SchedulerInv, VerdictInv, FaultsGrow, NEW s \in Sessions, Crash(s)
    PROVE  VerdictInv'
<1>1. /\ Alone(s) /\ \A p \in Posts : ~Working(s, p)'
      /\ state' = state /\ events' = events /\ deliveries' = deliveries /\ faults' = faults + 1
      /\ pc'[s] = "idle"
  BY LeavesAlone DEF TypeOK, Crash, Fault, rows, Restart
<1>2. \A p \in Posts : p # cur[s] => Sent(p)' /\ (p \in Lost' <=> p \in Lost)
  BY <1>1, Elsewhere DEF VerdictInv, Working
<1>3. Lost' \subseteq Lost \cup {cur[s]}
  BY <1>2 DEF Lost
<1>4. \A p \in Posts : Sent(p)'
  <2>1. \A r \in Runs, p \in Posts : Working(r, p)' => Working(r, p) /\ pc'[r] = pc[r]
    BY <1>1 DEF Alone, Working, Sessions
  <2>2. QED
    BY <1>1, <2>1 DEF VerdictInv, Sent, FaultsGrow
<1>5. Paid'
  BY <1>1, <1>3, PaidByFault DEF VerdictInv
<1>6. ConfirmedWhenRead'
  BY <1>1 DEF VerdictInv, ConfirmedWhenRead, Alone, Sessions
<1>7. \A p \in Posts : Told(p)'
  BY <1>1, ToldKept DEF VerdictInv
<1>8. QED
  BY <1>4, <1>5, <1>6, <1>7 DEF VerdictInv

LEMMA Verdicts == Spec => []VerdictInv
<1>1. Init => VerdictInv
  <2> SUFFICES ASSUME Init PROVE VerdictInv
    OBVIOUS
  <2>1. \A p \in Posts : Told(p) /\ Sent(p)
    BY DEF Init, Told, Sent, Closed, Kinds, Working, Sessions
  <2>2. ConfirmedWhenRead
    BY DEF Init, ConfirmedWhenRead, Sessions
  <2>3. Lost = {}
    BY DEF Init, Lost
  <2>4. Paid
    BY <2>3, FS_EmptySet DEF Init, Paid
  <2>5. QED
    BY <2>1, <2>2, <2>4 DEF VerdictInv
<1>2. TypeOK /\ SchedulerInv /\ VerdictInv /\ [Next]_vars => VerdictInv'
  <2> SUFFICES ASSUME TypeOK, SchedulerInv, VerdictInv, [Next]_vars PROVE VerdictInv'
    OBVIOUS
  <2>f. FaultsGrow
    BY FaultsOnlyGrow
  <2>1. ASSUME NEW x \in Posts, SchedulePost(x) PROVE VerdictInv'
    <3>1. /\ UNCHANGED <<pc, batch, cur, seen, deliveries, faults>>
          /\ \A p \in Posts : p # x => state'[p] = state[p] /\ events'[p] = events[p]
          /\ state[x] = "none" /\ state'[x] = "awaiting_confirmation"
          /\ events'[x] = [events[x] EXCEPT !["created"] = @ + 1]
      BY <2>1 DEF TypeOK, SchedulePost, InitialState, Emit, sessions, budgets
    <3>2. \A p \in Posts : Sent(p)' /\ (p \in Lost' <=> p \in Lost)
      BY <3>1 DEF VerdictInv, Sent, Lost, Working
    <3>3. Lost' \subseteq Lost
      BY <3>2 DEF Lost
    <3>4. Paid'
      BY <2>f, <3>3, PaidKept DEF VerdictInv
    <3>5. ConfirmedWhenRead'
      BY <3>1 DEF VerdictInv, ConfirmedWhenRead
    <3>6. Told(x)'
      <4>1. Told(x) /\ events[x] \in [Kinds -> Nat]
            /\ Kinds = {"created", "confirmed", "published", "failed"}
        BY DEF VerdictInv, TypeOK, Kinds
      <4>2. /\ events'[x]["created"] = events[x]["created"] + 1
            /\ events'[x]["confirmed"] = events[x]["confirmed"]
            /\ events'[x]["published"] = events[x]["published"]
            /\ events'[x]["failed"] = events[x]["failed"]
        BY <3>1, <4>1
      <4>3. QED
        BY <3>1, <4>1, <4>2 DEF Told, Closed
    <3>7. \A p \in Posts : Told(p)'
      BY <2>f, <3>1, <3>6, ToldKept DEF VerdictInv
    <3>8. QED
      BY <3>2, <3>4, <3>5, <3>7 DEF VerdictInv
  <2>2. ASSUME UNCHANGED <<state, events, deliveries, pc, cur, faults>> PROVE VerdictInv'
    BY <2>2 DEF VerdictInv, Told, Sent, ConfirmedWhenRead, Paid, Lost, Working
  <2>3. ASSUME NEW c \in Confirmers, ConfirmStep(c) \/ \E p \in Posts : ReadPost(c, p)
        PROVE  VerdictInv'
    BY <2>f, <2>3, ConfirmVerdicts
  <2>4. ASSUME NEW r \in Runs, SelectDue(r) \/ RunStep(r) PROVE VerdictInv'
    BY <2>f, <2>4, TakeVerdicts, LoadVerdicts, CallVerdicts, EndVerdicts DEF RunStep
  <2>5. ASSUME NEW s \in Sessions, Crash(s) PROVE VerdictInv'
    BY <2>f, <2>5, CrashVerdicts
  <2>6. ASSUME NEW x \in Posts, BecomeDue(x) PROVE VerdictInv'
    BY <2>2, <2>6 DEF BecomeDue, sessions, budgets
  <2>7. CASE UNCHANGED vars
    BY <2>2, <2>7 DEF vars, rows, sessions, budgets
  <2>8. QED
    BY <2>1, <2>3, <2>4, <2>5, <2>6, <2>7 DEF Next
<1>3. QED
  BY <1>1, <1>2, Owned, PTL DEF Spec

\* A reader of outbox_events alone learns the state of every post: the events
\* of scheduler_service.py and the states it writes never part, whatever the
\* requests and the faults do.
THEOREM OutboxIsTold == Spec => []OutboxTellsState
<1>1. VerdictInv => OutboxTellsState
  BY DEF VerdictInv, Told, OutboxTellsState
<1>2. QED
  BY <1>1, Verdicts, PTL

\* A post recorded as published was sent once, and each post that was sent and
\* is recorded as failed took a fault.
THEOREM VerdictsHold == Spec => []VerdictsAreTrue
<1>1. TypeOK /\ SchedulerInv /\ VerdictInv => VerdictsAreTrue
  <2> SUFFICES ASSUME TypeOK, SchedulerInv, VerdictInv PROVE VerdictsAreTrue
    OBVIOUS
  <2> DEFINE failed == {p \in Posts : state[p] = "failed" /\ deliveries[p] > 0}
  <2>1. failed \subseteq Lost
    <3>1. ASSUME NEW p \in Posts, state[p] = "failed", NEW r \in Runs, Working(r, p)
          PROVE  FALSE
      BY <3>1, WorkerOwns DEF OwnedBy
    <3>2. QED
      BY <3>1 DEF Lost
  <2>2. IsFiniteSet(failed) /\ Cardinality(failed) <= Cardinality(Lost)
    BY <2>1, FS_Subset DEF VerdictInv, Paid
  <2>3. Cardinality(failed) \in Nat /\ Cardinality(Lost) \in Nat /\ faults \in Nat
    BY <2>2, FS_CardinalityType DEF VerdictInv, Paid, TypeOK
  <2>4. Cardinality(failed) <= faults
    BY <2>2, <2>3 DEF VerdictInv, Paid
  <2>5. QED
    BY <2>4 DEF VerdictInv, Sent, VerdictsAreTrue
<1>2. QED
  BY <1>1, Owned, Verdicts, PTL

-----------------------------------------------------------------------------
(* The scheduler implements the life cycle *)

Phase ==
    [p \in Posts |->
        CASE state[p] = "awaiting_confirmation" -> "awaiting"
          [] state[p] = "processing"            -> "claimed"
          [] state[p] \in Closed                -> "closed"
          [] OTHER                              -> state[p]]

\* A change of one post's state moves its phase, and no other.
LEMMA PhaseMoves ==
    ASSUME TypeOK, NEW x \in Posts, NEW new \in States, state' = [state EXCEPT ![x] = new],
           NEW from, NEW to, deliveries' = deliveries,
           Phase[x] = from, Phase'[x] = to
    PROVE  Lifecycle!Move(x, from, to)
<1>1. \A p \in Posts : p # x => Phase'[p] = Phase[p]
  BY DEF TypeOK, Phase
<1>2. \A p \in Posts : Phase'[p] = [Phase EXCEPT ![x] = to][p]
  <2>1. Phase = [p \in Posts |-> Phase[p]]
    BY DEF Phase
  <2>2. QED
    BY <1>1, <2>1
<1>3. Phase' = [Phase EXCEPT ![x] = to]
  BY <1>2 DEF Phase
<1>4. QED
  BY <1>3 DEF Phase, Lifecycle!Move

LEMMA PhaseStutters ==
    ASSUME state' = state, deliveries' = deliveries
    PROVE  UNCHANGED Lifecycle!vars
    BY DEF Lifecycle!vars

\* The verdict of a run closes a claimed post, or changes one verdict to
\* another.
LEMMA VerdictCloses ==
    ASSUME TypeOK, SchedulerInv, NEW r \in Runs, pc[r] \in {"published", "failed"},
           NEW v \in Closed, WriteState(r, v), deliveries' = deliveries
    PROVE  [Lifecycle!Next]_(Lifecycle!vars)
<1>1. CASE cur[r] \in Posts
  <2>1. state[cur[r]] = "processing" \/ state[cur[r]] = "published"
    BY <1>1, VerdictOwner DEF OwnedBy
  <2>2. state' = [state EXCEPT ![cur[r]] = v] /\ v \in States /\ state'[cur[r]] = v
    BY <1>1 DEF TypeOK, WriteState, Closed, States
  <2>3. Phase'[cur[r]] = "closed"
    BY <1>1, <2>2 DEF Phase, Closed
  <2>4. CASE state[cur[r]] = "processing"
    <3>1. Phase[cur[r]] = "claimed"
      BY <1>1, <2>4 DEF Phase, Closed
    <3>2. Lifecycle!Move(cur[r], "claimed", "closed")
      BY <1>1, <2>2, <2>3, <3>1, PhaseMoves
    <3>3. QED
      BY <1>1, <3>2 DEF Lifecycle!Next
  <2>5. CASE state[cur[r]] = "published"
    <3>1. Phase' = Phase
      BY <1>1, <2>2, <2>5 DEF TypeOK, Phase, Closed
    <3>2. QED
      BY <3>1 DEF Phase, Lifecycle!vars
  <2>6. QED
    BY <2>1, <2>4, <2>5
<1>2. CASE cur[r] \notin Posts
  <2>1. state' = state
    BY <1>2 DEF TypeOK, WriteState
  <2>2. QED
    BY <2>1, PhaseStutters
<1>3. QED
  BY <1>1, <1>2

\* Whatever confirmations, runs and faults do, a post is handed to the publisher
\* only after its confirmation and its claim, and at most once.
THEOREM Refinement == Spec => FollowsLifecycle
<1>1. Init => Lifecycle!Init
  BY DEF Init, Lifecycle!Init, Closed
<1>2. TypeOK /\ SchedulerInv /\ [Next]_vars => [Lifecycle!Next]_(Lifecycle!vars)
  <2> SUFFICES ASSUME TypeOK, SchedulerInv, [Next]_vars
               PROVE  [Lifecycle!Next]_(Lifecycle!vars)
    OBVIOUS
  <2>1. ASSUME NEW x \in Posts, SchedulePost(x) PROVE [Lifecycle!Next]_(Lifecycle!vars)
    <3>1. Phase[x] = "none"
      BY <2>1 DEF SchedulePost, Phase, Closed
    <3>2. "awaiting_confirmation" \in States /\ deliveries' = deliveries
      BY <2>1 DEF SchedulePost, InitialState, States
    <3>3. state' = [state EXCEPT ![x] = "awaiting_confirmation"]
          /\ Phase'[x] = "awaiting"
      BY <2>1 DEF TypeOK, SchedulePost, InitialState, Phase, Closed
    <3>4. Lifecycle!Move(x, "none", "awaiting")
      BY <3>1, <3>2, <3>3, PhaseMoves
    <3>5. QED
      BY <3>4 DEF Lifecycle!Next
  <2>2. ASSUME NEW x \in Posts, BecomeDue(x) PROVE [Lifecycle!Next]_(Lifecycle!vars)
    BY <2>2, PhaseStutters DEF BecomeDue
  <2>3. ASSUME NEW c \in Confirmers, Confirm(c) PROVE [Lifecycle!Next]_(Lifecycle!vars)
    <3>1. CASE cur[c] \in Posts
      <4>1. /\ state' = [state EXCEPT ![cur[c]] = "confirmed"] /\ "confirmed" \in States
            /\ deliveries' = deliveries /\ state[cur[c]] = "awaiting_confirmation"
        BY <2>3 DEF Confirm, WriteState, States
      <4>2. Phase[cur[c]] = "awaiting" /\ Phase'[cur[c]] = "confirmed"
        BY <3>1, <4>1 DEF TypeOK, Phase, Closed
      <4>3. Lifecycle!Move(cur[c], "awaiting", "confirmed")
        BY <3>1, <4>1, <4>2, PhaseMoves
      <4>4. QED
        BY <3>1, <4>3 DEF Lifecycle!Next
    <3>2. CASE cur[c] \notin Posts
      <4>1. state' = state /\ deliveries' = deliveries
        BY <2>3, <3>2 DEF TypeOK, Confirm, WriteState
      <4>2. QED
        BY <4>1, PhaseStutters
    <3>3. QED
      BY <3>1, <3>2
  <2>4. ASSUME NEW c \in Confirmers,
               ConfirmLosesRace(c) \/ ConfirmAgain(c) \/ \E p \in Posts : ReadPost(c, p)
        PROVE  [Lifecycle!Next]_(Lifecycle!vars)
    BY <2>4, PhaseStutters DEF ConfirmLosesRace, ConfirmAgain, ReadPost, rows
  <2>5. ASSUME NEW r \in Runs, ClaimDue(r) PROVE [Lifecycle!Next]_(Lifecycle!vars)
    <3> DEFINE claimed == {p \in batch[r] : Unclaimed(r, p)}
    <3>1. claimed \in SUBSET Posts
      BY DEF TypeOK, Sessions
    <3>2. \A p \in claimed : Phase[p] = "confirmed"
      BY <3>1 DEF Unclaimed, Phase, Closed
    <3>3. \A p \in Posts : Phase'[p] = IF p \in claimed THEN "claimed" ELSE Phase[p]
      BY <2>5 DEF ClaimDue, Phase, Closed
    <3>4. Phase' = [p \in Posts |-> IF p \in claimed THEN "claimed" ELSE Phase[p]]
      BY <3>3 DEF Phase
    <3>5. Lifecycle!Claim(claimed)
      BY <2>5, <3>2, <3>4 DEF ClaimDue, Phase, Lifecycle!Claim
    <3> HIDE DEF claimed
    <3>6. \E S \in SUBSET Posts : Lifecycle!Claim(S)
      BY <3>1, <3>5, Zenon DEF Lifecycle!Claim
    <3>7. QED
      BY <3>6 DEF Lifecycle!Next
  <2>6. ASSUME NEW r \in Runs, Deliver(r) PROVE [Lifecycle!Next]_(Lifecycle!vars)
    <3>1. state' = state /\ deliveries' = [deliveries EXCEPT ![cur[r]] = @ + 1]
      BY <2>6 DEF Deliver, rows
    <3>2. CASE cur[r] \in Posts
      <4>1. Working(r, cur[r]) /\ r \in Owners(cur[r])
        BY <2>6, <3>2 DEF Deliver, Working, SchedulerInv, InBatch, Owners
      <4>2. state[cur[r]] = "processing" /\ deliveries[cur[r]] = 0
        BY <2>6, <3>2, <4>1 DEF Deliver, SchedulerInv, Ownership, OwnedBy
      <4>3. Phase[cur[r]] = "claimed"
        BY <3>2, <4>2 DEF Phase, Closed
      <4>4. deliveries' = [deliveries EXCEPT ![cur[r]] = 1]
        BY <3>1, <3>2, <4>2 DEF TypeOK
      <4>5. Lifecycle!Deliver(cur[r])
        BY <3>1, <4>2, <4>3, <4>4 DEF Phase, Lifecycle!Deliver
      <4>6. QED
        BY <3>2, <4>5 DEF Lifecycle!Next
    <3>3. CASE cur[r] \notin Posts
      BY <3>1, <3>3, PhaseStutters DEF TypeOK
    <3>4. QED
      BY <3>2, <3>3
  <2>7. ASSUME NEW r \in Runs,
               RecordPublished(r) \/ RecordFailed(r) \/ RefreshRaises(r) \/ RunAbortsLate(r)
        PROVE  [Lifecycle!Next]_(Lifecycle!vars)
    <3>1. deliveries' = deliveries /\ pc[r] \in {"published", "failed"}
      BY <2>7 DEF RecordPublished, RecordFailed, RefreshRaises, RunAbortsLate
    <3>2. CASE \E v \in Closed : WriteState(r, v)
      BY <3>1, <3>2, VerdictCloses
    <3>3. CASE state' = state
      BY <3>1, <3>3, PhaseStutters
    <3>4. QED
      BY <2>7, <3>2, <3>3
      DEF RecordPublished, RecordFailed, RefreshRaises, RunAbortsLate, Closed, rows
  <2>8. ASSUME NEW r \in Runs,
               \/ SelectDue(r) \/ \E p \in Posts : LoadPost(r, p)
               \/ PublisherRefuses(r) \/ UpdateRaises(r) \/ RunAborts(r)
        PROVE  [Lifecycle!Next]_(Lifecycle!vars)
    BY <2>8, PhaseStutters DEF SelectDue, LoadPost, PublisherRefuses, UpdateRaises, RunAborts, rows
  <2>9. ASSUME NEW s \in Sessions, Crash(s) PROVE [Lifecycle!Next]_(Lifecycle!vars)
    BY <2>9, PhaseStutters DEF Crash, rows
  <2>10. CASE UNCHANGED vars
    BY <2>10, PhaseStutters DEF vars, rows
  <2>11. QED
    BY <2>1, <2>2, <2>3, <2>4, <2>5, <2>6, <2>7, <2>8, <2>9, <2>10
    DEF Next, ConfirmStep, RunStep
<1>3. QED
  BY <1>1, <1>2, Owned, PTL DEF Spec, FollowsLifecycle, Lifecycle!Spec

=============================================================================
