------------------------ MODULE ContentEngineProofs ------------------------
(***************************************************************************)
(* Proofs about ContentEngine: its types, the numbering of the versions of *)
(* a text, the comparison of a new answer with the text before it, and the *)
(* templates the cache leads to.                                           *)
(***************************************************************************)
EXTENDS ContentEngine, TLAPS

-----------------------------------------------------------------------------
(* The inductive invariant *)

(* Only an image template can be made for want of one. *)
FallbackIsPicture ==
    \A r \in Requests : pc[r] = "fallback" => job[r].key[1] \in Pictures

(* A request that goes on with a template has its id. *)
HoldsTemplate ==
    \A r \in Requests : pc[r] \in {"load", "fill", "call"} => job[r].id \in Ids

(* A content that was not generated yet has no version. *)
BlankIsEmpty == \A c \in Contents : origin[c] = NoId => versions[c] = {}

(* What a regeneration has read is a version of its content. *)
ReadIsStored ==
    \A r \in Requests :
        job[r].content # NoContent =>
            \E v \in versions[job[r].content] :
                v.number = job[r].last /\ v.text = job[r].text

TextInv ==
    /\ TypeOK
    /\ FallbackIsPicture
    /\ HoldsTemplate
    /\ NumbersRunOn
    /\ BlankIsEmpty
    /\ ReadIsStored
    /\ NoRepeat

(* An id leads to a row that fits the key, to none, or was given to a new  *)
(* row while it was held.                                                  *)
Fits(k, i) ==
    i \notin ambiguous /\ Exists(i) =>
        /\ templates[i].group = k[1]
        /\ k[2] \in {Latest, templates[i].version}
           \/ (k[1] \in Pictures /\ templates[i].version = 1)

FoundFits == \A r \in Requests : pc[r] = "fill" => Fits(job[r].key, job[r].id)

LookupInv == FoundFits /\ CacheFits

-----------------------------------------------------------------------------
(* Helpers *)

(* A key is a pair of a group and a version.                               *)
LEMMA KeyIsPair ==
    ASSUME NEW k \in Keys
    PROVE  /\ k[1] \in Groups /\ k[2] \in Versions \cup {Latest}
           /\ CacheKey(k[1], k[2]) = k /\ <<k[1], k[2]>> = k
    BY DEF Keys, CacheKey

(* A request at rest holds nothing. *)
LEMMA IdleJobIsJob ==
    ASSUME NEW r \in Requests
    PROVE  IdleJob(r) \in Jobs /\ IdleJob(r).content = NoContent
<1>1. PICK g \in Prompts : TRUE
    BY ContentAssumption
<1>2. <<g, Latest>> \in Keys
    BY <1>1 DEF Keys, Groups
<1>3. (CHOOSE k \in Keys : TRUE) \in Keys
    BY <1>2
<1> QED BY <1>3 DEF IdleJob, Jobs

(* What a step notes in the hands of a request keeps it a job. *)
LEMMA JobEdits ==
    ASSUME NEW j \in Jobs, NEW k \in Keys, NEW i \in Ids \cup {NoId}
    PROVE  /\ [j EXCEPT !.key = k] \in Jobs
           /\ [j EXCEPT !.key = k, !.id = i] \in Jobs
           /\ [j EXCEPT !.id = i] \in Jobs
           /\ [j EXCEPT !.active = TRUE] \in Jobs
           /\ [j EXCEPT !.id = i, !.active = TRUE] \in Jobs
    BY DEF Jobs

(* Those steps leave alone what the job has read of a content. *)
Reading(j) == <<j.content, j.last, j.text>>
LEMMA JobKeeps ==
    ASSUME NEW j \in Jobs, NEW k \in Keys, NEW i \in Ids \cup {NoId}
    PROVE  /\ Reading([j EXCEPT !.key = k]) = Reading(j)
           /\ Reading([j EXCEPT !.key = k, !.id = i]) = Reading(j)
           /\ Reading([j EXCEPT !.id = i]) = Reading(j)
           /\ Reading([j EXCEPT !.active = TRUE]) = Reading(j)
           /\ Reading([j EXCEPT !.id = i, !.active = TRUE]) = Reading(j)
           /\ [j EXCEPT !.key = k, !.id = i].id = i
           /\ [j EXCEPT !.id = i].id = i
           /\ [j EXCEPT !.id = i, !.active = TRUE].id = i
           /\ [j EXCEPT !.active = TRUE].id = j.id
    BY DEF Jobs, Reading

(* The parts of a job. *)
LEMMA JobKey ==
    ASSUME NEW j \in Jobs
    PROVE  j.key \in Keys /\ j.id \in Ids \cup {NoId}
    BY DEF Jobs
LEMMA JobReads ==
    ASSUME NEW j \in Jobs, NEW i \in Ids, NEW c \in Contents, NEW n \in Nat, NEW x \in Texts
    PROVE  [j EXCEPT !.id = i, !.content = c, !.last = n, !.text = x] \in Jobs
    BY DEF Jobs

(* The stand-in for an image template is a template. *)
StandIn(g) == [group |-> g, name |-> AutoTemplate(g), version |-> 1, active |-> TRUE]
LEMMA StandInIsTemplate ==
    ASSUME NEW g \in Pictures
    PROVE  StandIn(g) \in Templates
    BY ContentAssumption DEF StandIn, Templates, Groups, AllNames, Versions

(* The last version of a content carries its current number. *)
LEMMA LastIsCurrent ==
    ASSUME TypeOK, NumbersRunOn, NEW c \in Contents, versions[c] # {}
    PROVE  Last(c) \in versions[c] /\ Last(c).number = current[c]
<1> DEFINE Numbers == {v.number : v \in versions[c]}
<1>1. Numbers = 1..current[c] /\ current[c] \in Nat
    BY DEF NumbersRunOn, TypeOK
<1>2. PICK v \in versions[c] : TRUE
    OBVIOUS
<1>3. v.number \in Numbers
    OBVIOUS
<1>4. current[c] \in Numbers
    BY <1>1, <1>3
<1>5. PICK w \in versions[c] : w.number = current[c]
    BY <1>4
<1>6. \A u \in versions[c] : u.number \in 1..current[c]
    BY <1>1
<1>7. w \in versions[c] /\ \A u \in versions[c] : u.number <= w.number
    BY <1>1, <1>5, <1>6
<1>8. /\ Last(c) \in versions[c]
      /\ \A u \in versions[c] : u.number <= Last(c).number
    BY <1>7 DEF Last
<1>9. Last(c).number \in 1..current[c] /\ current[c] <= Last(c).number
    BY <1>5, <1>6, <1>8
<1> QED BY <1>1, <1>8, <1>9

-----------------------------------------------------------------------------
(* Types *)

LEMMA TypeStart == Init => TypeOK
<1> SUFFICES ASSUME Init PROVE TypeOK
    OBVIOUS
<1>1. job \in [Requests -> Jobs]
    BY IdleJobIsJob DEF Init
<1> QED BY <1>1 DEF Init, TypeOK

LEMMA TypeStep ==
    ASSUME TypeOK, FallbackIsPicture, HoldsTemplate, NumbersRunOn, [Next]_vars
    PROVE  TypeOK'
<1> USE DEF TypeOK, store, texts, Goto, Note, Begin, Ends
<1>1. ASSUME NEW r \in Requests, NEW t \in Templates, CreateTemplate(r, t)
      PROVE  TypeOK'
    <2>1. CacheKey(t.group, t.version) \in Keys
        BY DEF Templates, CacheKey, Keys
    <2>2. job' \in [Requests -> Jobs]
        <3>1. [job[r] EXCEPT !.key = CacheKey(t.group, t.version)] \in Jobs
            BY <2>1, JobKey, JobEdits
        <3> QED BY <1>1, <3>1 DEF CreateTemplate, DropKey
    <2>3. templates' \in [Ids -> Templates \cup {NoRow}] /\ ambiguous' \subseteq Ids
        BY <1>1 DEF CreateTemplate, Insert
    <2> QED BY <1>1, <2>2, <2>3 DEF CreateTemplate, DropKey
<1>2. ASSUME NEW r \in Requests, NEW i \in Ids, NEW n \in AllNames, NEW b \in BOOLEAN,
             UpdateTemplate(r, i, n, b)
      PROVE  TypeOK'
    <2>1. templates[i] \in Templates
        BY <1>2 DEF UpdateTemplate, Exists
    <2>2. CacheKey(templates[i].group, templates[i].version) \in Keys
        BY <2>1 DEF Templates, CacheKey, Keys
    <2>3. job' \in [Requests -> Jobs]
        <3>1. [job[r] EXCEPT !.key = CacheKey(templates[i].group, templates[i].version)] \in Jobs
            BY <2>2, JobKey, JobEdits
        <3> QED BY <1>2, <3>1 DEF UpdateTemplate, DropKey
    <2>4. [templates[i] EXCEPT !.name = n, !.active = b] \in Templates
        BY <2>1 DEF Templates
    <2>5. templates' = [templates EXCEPT ![i] = [templates[i] EXCEPT !.name = n, !.active = b]]
        BY <1>2 DEF UpdateTemplate
    <2>6. templates' \in [Ids -> Templates \cup {NoRow}]
        BY <2>4, <2>5
    <2> QED BY <1>2, <2>3, <2>6 DEF UpdateTemplate, DropKey
<1>3. ASSUME NEW r \in Requests, Drop(r)
      PROVE  TypeOK'
    BY <1>3, IdleJobIsJob DEF Drop
<1>4. ASSUME NEW r \in Requests, NEW i \in Ids, DeleteTemplate(r, i)
      PROVE  TypeOK'
    BY <1>4 DEF DeleteTemplate
<1>5. ASSUME NEW r \in Requests, NEW i \in Ids, GenerateFrom(r, i)
      PROVE  TypeOK'
    <2>1. job' \in [Requests -> Jobs]
        <3>1. job[r] \in Jobs /\ IdleJob(r) \in Jobs
            BY IdleJobIsJob
        <3>2. [job[r] EXCEPT !.id = i, !.active = TRUE] \in Jobs
            BY <3>1, JobKey, JobEdits
        <3> QED BY <1>5, <3>1, <3>2 DEF GenerateFrom, Resolved
    <2> QED BY <1>5, <2>1 DEF GenerateFrom, Resolved
<1>6. ASSUME NEW r \in Requests, NEW k \in Keys, Generate(r, k[1], k[2])
      PROVE  TypeOK'
    <2>1. CacheKey(k[1], k[2]) \in Keys
        BY KeyIsPair
    <2>2. job' = [job EXCEPT ![r] = [job[r] EXCEPT !.key = k, !.id = cache[k]]]
        BY <1>6, KeyIsPair DEF Generate
    <2>3. job' \in [Requests -> Jobs]
        BY <2>2 DEF Jobs
    <2> QED BY <1>6, <2>3 DEF Generate, Runs
<1>7. ASSUME NEW r \in Requests, Load(r)
      PROVE  TypeOK'
    <2>1. job[r].id \in Ids
        BY <1>7 DEF Load, HoldsTemplate
    <2>2. job' \in [Requests -> Jobs]
        <3>1. job[r] \in Jobs /\ IdleJob(r) \in Jobs
            BY IdleJobIsJob
        <3>2. /\ [job[r] EXCEPT !.id = job[r].id, !.active = TRUE] \in Jobs
              /\ [job[r] EXCEPT !.id = NoId] \in Jobs
            BY <2>1, <3>1, JobKey, JobEdits
        <3> QED BY <1>7, <3>1, <3>2 DEF Load, Resolved
    <2> QED BY <1>7, <2>2 DEF Load, Resolved, Runs
<1>8. ASSUME NEW r \in Requests, FindLatest(r)
      PROVE  TypeOK'
    <2>1. \A i \in Matching(job[r].key[1], job[r].key[2]) : i \in Ids
        BY DEF Matching
    <2>2. job' \in [Requests -> Jobs]
        <3>1. job[r] \in Jobs /\ IdleJob(r) \in Jobs
            BY IdleJobIsJob
        <3>2. \A i \in Ids : [job[r] EXCEPT !.id = i] \in Jobs
            BY <3>1, JobKey, JobEdits
        <3> QED BY <1>8, <2>1, <3>1, <3>2 DEF FindLatest
    <2> QED BY <1>8, <2>2 DEF FindLatest, Runs
<1>9. ASSUME NEW r \in Requests, Fallback(r)
      PROVE  TypeOK'
    <2>1. PICK g \in Pictures : g = job[r].key[1]
        BY <1>9 DEF Fallback, FallbackIsPicture
    <2>2. StandIn(g) \in Templates
        BY StandInIsTemplate
    <2>3. CASE Clash(StandIn(g), Ids)
        BY <1>9, <2>1, <2>3, IdleJobIsJob DEF Fallback, StandIn
    <2>4. CASE ~Clash(StandIn(g), Ids)
        <3>1. Insert(StandIn(g)) /\ job' = [job EXCEPT ![r] = [job[r] EXCEPT !.id = NextId(g)]]
            BY <1>9, <2>1, <2>4 DEF Fallback, StandIn
        <3>2. [job[r] EXCEPT !.id = NextId(g)] \in Jobs
            BY <3>1, JobKey, JobEdits DEF Insert, StandIn
        <3>3. templates' \in [Ids -> Templates \cup {NoRow}] /\ ambiguous' \subseteq Ids
            BY <2>2, <3>1 DEF Insert
        <3> QED BY <1>9, <2>1, <2>4, <3>1, <3>2, <3>3 DEF Fallback, Runs, StandIn
    <2> QED BY <2>3, <2>4
<1>10. ASSUME NEW r \in Requests, FillCache(r)
       PROVE  TypeOK'
    <2>1. job' \in [Requests -> Jobs]
        <3>1. job[r] \in Jobs /\ IdleJob(r) \in Jobs /\ [job[r] EXCEPT !.active = TRUE] \in Jobs
            BY IdleJobIsJob, JobKey, JobEdits
        <3> QED BY <1>10, <3>1 DEF FillCache
    <2>2. cache' \in [Keys -> Ids \cup {NoId}]
        BY <1>10 DEF FillCache, Jobs
    <2> QED BY <1>10, <2>1, <2>2 DEF FillCache
<1>11. ASSUME NEW r \in Requests, NEW c \in Contents, Regenerate(r, c)
       PROVE  TypeOK'
    <2>1. Last(c) \in Numbered
        BY <1>11, LastIsCurrent DEF Regenerate
    <2>2. job' \in [Requests -> Jobs]
        <3>1. PICK i \in Ids, n \in Nat, x \in Texts :
                  i = origin[c] /\ n = Last(c).number /\ x = Last(c).text
            BY <1>11, <2>1 DEF Regenerate, Numbered
        <3>2. job[r] \in Jobs
            OBVIOUS
        <3>3. [job[r] EXCEPT !.id = i, !.content = c, !.last = n, !.text = x] \in Jobs
            BY <3>2, JobReads
        <3> QED BY <1>11, <3>1, <3>3 DEF Regenerate
    <2> QED BY <1>11, <2>2 DEF Regenerate
<1>12. ASSUME NEW r \in Requests, CallFails(r)
       PROVE  TypeOK'
    BY <1>12, IdleJobIsJob DEF CallFails
<1>13. ASSUME NEW r \in Requests, NEW a \in Texts, StoreContent(r, a)
       PROVE  TypeOK'
    <2>1. [number |-> 1, answer |-> a, text |-> Polished[a]] \in Numbered
        BY ContentAssumption DEF Numbered
    <2>2. job[r].id \in Ids
        BY <1>13 DEF StoreContent, HoldsTemplate
    <2>3. texts' = texts \/ \E c \in Contents :
              origin' = [origin EXCEPT ![c] = job[r].id] /\ AddVersion(c, 1, a)
        BY <1>13 DEF StoreContent
    <2>4. origin' \in [Contents -> Ids \cup {NoId}]
        BY <2>2, <2>3
    <2>5. versions' \in [Contents -> SUBSET Numbered] /\ current' \in [Contents -> Nat]
        BY <2>1, <2>3 DEF AddVersion
    <2> QED BY <1>13, <2>4, <2>5, IdleJobIsJob DEF StoreContent
<1>14. ASSUME NEW r \in Requests, NEW a \in Texts, StoreVersion(r, a)
       PROVE  TypeOK'
    <2>1. job[r].last + 1 \in Nat /\ job[r].content \in Contents
        BY <1>14 DEF StoreVersion, Jobs
    <2>2. [number |-> job[r].last + 1, answer |-> a, text |-> Polished[a]] \in Numbered
        BY <2>1, ContentAssumption DEF Numbered
    <2>3. versions' \in [Contents -> SUBSET Numbered] /\ current' \in [Contents -> Nat]
        BY <1>14, <2>1, <2>2 DEF StoreVersion, AddVersion
    <2> QED BY <1>14, <2>3, IdleJobIsJob DEF StoreVersion
<1>15. ASSUME NEW k \in Keys, EntryExpires(k)
       PROVE  TypeOK'
    BY <1>15 DEF EntryExpires
<1>16. CASE Restart
    BY <1>16, IdleJobIsJob DEF Restart
<1>17. CASE UNCHANGED vars
    BY <1>17 DEF vars
<1> QED
    BY <1>1, <1>2, <1>3, <1>4, <1>5, <1>6, <1>7, <1>8, <1>9, <1>10, <1>11, <1>12,
       <1>13, <1>14, <1>15, <1>16, <1>17 DEF Next, Edits

-----------------------------------------------------------------------------
(* What the requests hold *)

(* What a request is and holds after a step, by the action it takes.       *)
LEMMA HoldStep ==
    ASSUME TypeOK, HoldsTemplate, FallbackIsPicture, [Next]_vars
    PROVE  HoldsTemplate' /\ FallbackIsPicture'
<1> USE DEF TypeOK, HoldsTemplate, FallbackIsPicture, Goto, Note, Begin, Ends, store, texts
<1>1. ASSUME NEW r \in Requests, Edits(r)
      PROVE  HoldsTemplate' /\ FallbackIsPicture'
    <2>1. \/ pc' = pc /\ job' = job
          \/ \E where \in {"idle", "drop"} : \E j :
                /\ pc' = [pc EXCEPT ![r] = where]
                /\ job' = [job EXCEPT ![r] = j]
        <3>1. ASSUME NEW t \in Templates, CreateTemplate(r, t)
              PROVE  \E j : pc' = [pc EXCEPT ![r] = "drop"] /\ job' = [job EXCEPT ![r] = j]
            BY <3>1 DEF CreateTemplate, DropKey
        <3>2. ASSUME NEW i \in Ids, NEW n \in AllNames, NEW b \in BOOLEAN,
                     UpdateTemplate(r, i, n, b)
              PROVE  \E j : pc' = [pc EXCEPT ![r] = "drop"] /\ job' = [job EXCEPT ![r] = j]
            BY <3>2 DEF UpdateTemplate, DropKey
        <3>3. ASSUME NEW i \in Ids, DeleteTemplate(r, i)
              PROVE  pc' = pc /\ job' = job
            BY <3>3 DEF DeleteTemplate
        <3>4. ASSUME Drop(r)
              PROVE  \E j : pc' = [pc EXCEPT ![r] = "idle"] /\ job' = [job EXCEPT ![r] = j]
            BY <3>4 DEF Drop
        <3> QED BY <1>1, <3>1, <3>2, <3>3, <3>4 DEF Edits
    <2> QED BY <2>1
<1>2. ASSUME NEW r \in Requests, NEW i \in Ids, GenerateFrom(r, i)
      PROVE  HoldsTemplate' /\ FallbackIsPicture'
    <2>1. job[r] \in Jobs
        OBVIOUS
    <2>2. [job[r] EXCEPT !.id = i, !.active = TRUE].id = i
        BY <2>1, JobKey, JobKeeps
    <2> QED BY <1>2, <2>2 DEF GenerateFrom, Resolved
<1>3. ASSUME NEW r \in Requests, NEW k \in Keys, Generate(r, k[1], k[2])
      PROVE  HoldsTemplate' /\ FallbackIsPicture'
    <2>1. job[r] \in Jobs /\ CacheKey(k[1], k[2]) = k /\ <<k[1], k[2]>> = k
        BY KeyIsPair
    <2>2. PICK i \in Ids \cup {NoId} : i = cache[k]
        OBVIOUS
    <2>3. [job[r] EXCEPT !.key = k, !.id = i].id = i
        BY <2>1 DEF Jobs
    <2> QED BY <1>3, <2>1, <2>2, <2>3 DEF Generate
<1>4. ASSUME NEW r \in Requests, Load(r)
      PROVE  HoldsTemplate' /\ FallbackIsPicture'
    <2>1. job[r] \in Jobs /\ job[r].id \in Ids
        BY <1>4 DEF Load
    <2>2. [job[r] EXCEPT !.id = job[r].id, !.active = TRUE].id = job[r].id
        BY <2>1, JobKey, JobKeeps
    <2> QED BY <1>4, <2>1, <2>2 DEF Load, Resolved
<1>5. ASSUME NEW r \in Requests, FindLatest(r)
      PROVE  HoldsTemplate' /\ FallbackIsPicture'
    <2>1. job[r] \in Jobs
        OBVIOUS
    <2>2. \A i \in Ids : [job[r] EXCEPT !.id = i].id = i
        BY <2>1, JobKey, JobKeeps
    <2>3. \A i \in Matching(job[r].key[1], job[r].key[2]) : i \in Ids
        BY DEF Matching
    <2>4. \/ \E i \in Ids : pc' = [pc EXCEPT ![r] = "fill"]
                              /\ job' = [job EXCEPT ![r] = [job[r] EXCEPT !.id = i]]
          \/ job[r].key[1] \in Pictures /\ pc' = [pc EXCEPT ![r] = "fallback"] /\ job' = job
          \/ pc' = [pc EXCEPT ![r] = "idle"] /\ job' = [job EXCEPT ![r] = IdleJob(r)]
        BY <1>5, <2>3 DEF FindLatest
    <2> QED BY <2>2, <2>4
<1>6. ASSUME NEW r \in Requests, Fallback(r)
      PROVE  HoldsTemplate' /\ FallbackIsPicture'
    <2>1. job[r] \in Jobs
        OBVIOUS
    <2>2. \A i \in Ids : [job[r] EXCEPT !.id = i].id = i
        BY <2>1, JobKey, JobKeeps
    <2>3. \/ \E i \in Ids : pc' = [pc EXCEPT ![r] = "fill"]
                              /\ job' = [job EXCEPT ![r] = [job[r] EXCEPT !.id = i]]
          \/ pc' = [pc EXCEPT ![r] = "idle"] /\ job' = [job EXCEPT ![r] = IdleJob(r)]
        BY <1>6 DEF Fallback, Insert
    <2> QED BY <2>2, <2>3
<1>7. ASSUME NEW r \in Requests, FillCache(r)
      PROVE  HoldsTemplate' /\ FallbackIsPicture'
    <2>1. job[r] \in Jobs /\ job[r].id \in Ids
        BY <1>7 DEF FillCache
    <2>2. [job[r] EXCEPT !.active = TRUE].id = job[r].id
        BY <2>1, JobKey, JobKeeps
    <2> QED BY <1>7, <2>1, <2>2 DEF FillCache
<1>8. ASSUME NEW r \in Requests, NEW c \in Contents, Regenerate(r, c)
      PROVE  HoldsTemplate' /\ FallbackIsPicture'
    <2>1. job[r] \in Jobs /\ origin[c] \in Ids
        BY <1>8 DEF Regenerate
    <2>2. job'[r].id = origin[c]
        BY <1>8, <2>1 DEF Regenerate, Jobs
    <2> QED BY <1>8, <2>1, <2>2 DEF Regenerate
<1>9. ASSUME NEW r \in Requests,
             CallFails(r) \/ \E a \in Texts : StoreContent(r, a) \/ StoreVersion(r, a)
      PROVE  HoldsTemplate' /\ FallbackIsPicture'
    BY <1>9 DEF CallFails, StoreContent, StoreVersion
<1>10. CASE Restart \/ (\E k \in Keys : EntryExpires(k)) \/ UNCHANGED vars
    BY <1>10 DEF Restart, EntryExpires, vars
<1> QED
    BY <1>1, <1>2, <1>3, <1>4, <1>5, <1>6, <1>7, <1>8, <1>9, <1>10 DEF Next

-----------------------------------------------------------------------------
(* The versions of a text *)

NumberingInv == NumbersRunOn /\ BlankIsEmpty /\ ReadIsStored /\ NoRepeat

(* A request holds no content after the step, or what it held before. *)
SameReading(r) ==
    job'[r].content = NoContent \/ Reading(job'[r]) = Reading(job[r])

(* Steps that store no text leave the numbering alone. *)
LEMMA NumberingFrame ==
    ASSUME TypeOK, NumberingInv, UNCHANGED texts, \A r \in Requests : SameReading(r)
    PROVE  NumberingInv'
<1>1. origin' = origin /\ versions' = versions /\ current' = current
    BY DEF texts
<1>2. NumbersRunOn' /\ BlankIsEmpty' /\ NoRepeat'
    BY <1>1 DEF NumberingInv, NumbersRunOn, BlankIsEmpty, NoRepeat
<1>3. ReadIsStored'
    BY <1>1 DEF NumberingInv, ReadIsStored, SameReading, Reading
<1> QED BY <1>2, <1>3 DEF NumberingInv

(* No other request touches what a request holds. *)
LEMMA OthersKeep ==
    ASSUME TypeOK, NEW r \in Requests, NEW j, Note(r, j),
           j.content = NoContent \/ Reading(j) = Reading(job[r])
    PROVE  \A q \in Requests : SameReading(q)
    BY DEF TypeOK, Note, SameReading

LEMMA NumberingStep ==
    ASSUME TypeOK, HoldsTemplate, NumberingInv, [Next]_vars
    PROVE  NumberingInv'
<1> DEFINE Same == \A q \in Requests : SameReading(q)
<1>0. /\ \A r \in Requests : job[r] \in Jobs /\ job[r].key \in Keys
                             /\ job[r].id \in Ids \cup {NoId}
      /\ \A r \in Requests : IdleJob(r).content = NoContent
    BY JobKey, IdleJobIsJob DEF TypeOK
<1>00. UNCHANGED job => Same
    BY DEF SameReading
<1>a. ASSUME NEW r \in Requests, Ends(r)
      PROVE  Same
    BY <1>0, <1>a, OthersKeep DEF Ends
<1>1. ASSUME NEW r \in Requests, Edits(r)
      PROVE  UNCHANGED texts /\ Same
    <2>1. ASSUME NEW g \in Groups, NEW v \in Versions, DropKey(r, g, v)
          PROVE  Same
        <3>1. CacheKey(g, v) \in Keys
            BY DEF CacheKey, Keys
        <3>2. Reading([job[r] EXCEPT !.key = CacheKey(g, v)]) = Reading(job[r])
            BY <1>0, <3>1, JobKeeps
        <3> QED BY <2>1, <3>2, OthersKeep DEF DropKey
    <2>2. ASSUME NEW t \in Templates, CreateTemplate(r, t)
          PROVE  UNCHANGED texts /\ Same
        BY <2>1, <2>2 DEF CreateTemplate, Templates
    <2>3. ASSUME NEW i \in Ids, NEW n \in AllNames, NEW b \in BOOLEAN,
                 UpdateTemplate(r, i, n, b)
          PROVE  UNCHANGED texts /\ Same
        <3>1. templates[i].group \in Groups /\ templates[i].version \in Versions
            BY <2>3 DEF UpdateTemplate, Exists, TypeOK, Templates
        <3> QED BY <2>1, <2>3, <3>1 DEF UpdateTemplate
    <2>4. ASSUME NEW i \in Ids, DeleteTemplate(r, i)
          PROVE  UNCHANGED texts /\ Same
        BY <1>00, <2>4 DEF DeleteTemplate
    <2>5. ASSUME Drop(r)
          PROVE  UNCHANGED texts /\ Same
        BY <1>0, <2>5, OthersKeep DEF Drop
    <2> QED BY <1>1, <2>2, <2>3, <2>4, <2>5 DEF Edits
<1>2. ASSUME NEW r \in Requests, NEW i \in Ids \cup {NoId}, NEW row, Resolved(r, i, row)
      PROVE  Same
    <2>1. Reading([job[r] EXCEPT !.id = i, !.active = TRUE]) = Reading(job[r])
        BY <1>0, JobKeeps
    <2> QED BY <1>2, <1>a, <2>1, OthersKeep DEF Resolved
<1>3. ASSUME NEW r \in Requests, NEW i \in Ids, GenerateFrom(r, i)
      PROVE  UNCHANGED texts /\ Same
    BY <1>2, <1>3 DEF GenerateFrom
<1>4. ASSUME NEW r \in Requests, NEW k \in Keys, Generate(r, k[1], k[2])
      PROVE  UNCHANGED texts /\ Same
    <2>1. CacheKey(k[1], k[2]) = k /\ <<k[1], k[2]>> = k
        BY KeyIsPair
    <2>2. PICK i \in Ids \cup {NoId} : i = cache[k]
        BY DEF TypeOK
    <2>3. Reading([job[r] EXCEPT !.key = k, !.id = i]) = Reading(job[r])
        BY <1>0 DEF Jobs, Reading
    <2>4. Note(r, [job[r] EXCEPT !.key = k, !.id = i])
        BY <1>4, <2>1, <2>2 DEF Generate
    <2> QED BY <1>4, <2>3, <2>4, OthersKeep DEF Generate
<1>5. ASSUME NEW r \in Requests, Load(r)
      PROVE  UNCHANGED texts /\ Same
    <2>1. Reading([job[r] EXCEPT !.id = NoId]) = Reading(job[r])
        BY <1>0, JobKeeps
    <2> QED BY <1>0, <1>2, <1>5, <2>1, OthersKeep DEF Load
<1>6. ASSUME NEW r \in Requests, FindLatest(r)
      PROVE  UNCHANGED texts /\ Same
    <2>1. \A i \in Ids : Reading([job[r] EXCEPT !.id = i]) = Reading(job[r])
        BY <1>0, JobKeeps
    <2>2. \A i \in Matching(job[r].key[1], job[r].key[2]) : i \in Ids
        BY DEF Matching
    <2> QED BY <1>00, <1>6, <1>a, <2>1, <2>2, OthersKeep DEF FindLatest
<1>7. ASSUME NEW r \in Requests, Fallback(r)
      PROVE  UNCHANGED texts /\ Same
    <2>1. \A i \in Ids : Reading([job[r] EXCEPT !.id = i]) = Reading(job[r])
        BY <1>0, JobKeeps
    <2> QED BY <1>7, <1>a, <2>1, OthersKeep DEF Fallback, Insert
<1>8. ASSUME NEW r \in Requests, FillCache(r)
      PROVE  UNCHANGED texts /\ Same
    <2>1. Reading([job[r] EXCEPT !.active = TRUE]) = Reading(job[r])
        BY <1>0, JobKeeps
    <2> QED BY <1>8, <1>a, <2>1, OthersKeep DEF FillCache
<1>9. ASSUME NEW r \in Requests, CallFails(r)
      PROVE  UNCHANGED texts /\ Same
    BY <1>9, <1>a DEF CallFails
<1>10. ASSUME Restart \/ (\E k \in Keys : EntryExpires(k)) \/ UNCHANGED vars
       PROVE  UNCHANGED texts /\ Same
    BY <1>0, <1>00, <1>10 DEF Restart, EntryExpires, vars, SameReading
<1>11. ASSUME NEW r \in Requests, NEW c \in Contents, Regenerate(r, c)
       PROVE  NumberingInv'
    <2>1. Last(c) \in versions[c]
        BY <1>11, LastIsCurrent DEF Regenerate, NumberingInv
    <2>2. /\ job'[r].content = c /\ job'[r].last = Last(c).number
          /\ job'[r].text = Last(c).text
        BY <1>0, <1>11 DEF Regenerate, Note, TypeOK, Jobs
    <2>3. \A q \in Requests \ {r} : job'[q] = job[q]
        BY <1>11 DEF Regenerate, Note, TypeOK
    <2>4. origin' = origin /\ versions' = versions /\ current' = current
        BY <1>11 DEF Regenerate, texts
    <2>5. NumbersRunOn' /\ BlankIsEmpty' /\ NoRepeat'
        BY <2>4 DEF NumberingInv, NumbersRunOn, BlankIsEmpty, NoRepeat
    <2>6. ReadIsStored'
        BY <2>1, <2>2, <2>3, <2>4 DEF NumberingInv, ReadIsStored
    <2> QED BY <2>5, <2>6 DEF NumberingInv
<1>12. ASSUME NEW r \in Requests, NEW a \in Texts, StoreContent(r, a)
       PROVE  NumberingInv'
    <2>1. Same
        BY <1>12, <1>a DEF StoreContent
    <2>2. CASE UNCHANGED texts
        BY <2>1, <2>2, NumberingFrame
    <2>3. CASE ~UNCHANGED texts
        <3> DEFINE new == [number |-> 1, answer |-> a, text |-> Polished[a]]
        <3>1. PICK c \in Contents :
                  origin[c] = NoId /\ origin' = [origin EXCEPT ![c] = job[r].id]
                  /\ AddVersion(c, 1, a)
            BY <1>12, <2>3 DEF StoreContent
        <3>2. versions[c] = {}
            BY <3>1 DEF NumberingInv, BlankIsEmpty
        <3>3. job[r].id \in Ids /\ job[r].id # NoId
            BY <1>12, ContentAssumption DEF StoreContent, HoldsTemplate
        <3>4. versions'[c] = {new} /\ current'[c] = 1 /\ origin'[c] # NoId
            BY <3>1, <3>2, <3>3 DEF AddVersion, TypeOK
        <3>5. \A d \in Contents \ {c} : /\ versions'[d] = versions[d]
                                       /\ current'[d] = current[d] /\ origin'[d] = origin[d]
            BY <3>1 DEF AddVersion, TypeOK
        <3>6. NumbersRunOn'
            <4>1. {v.number : v \in versions'[c]} = 1..current'[c]
                BY <3>4
            <4> QED BY <3>4, <3>5, <4>1 DEF NumberingInv, NumbersRunOn
        <3>7. BlankIsEmpty'
            BY <3>4, <3>5 DEF NumberingInv, BlankIsEmpty
        <3>8. NoRepeat'
            BY <3>4, <3>5 DEF NumberingInv, NoRepeat
        <3>9. ReadIsStored'
            <4> SUFFICES ASSUME NEW q \in Requests, job'[q].content # NoContent
                         PROVE  \E v \in versions'[job'[q].content] :
                                    v.number = job'[q].last /\ v.text = job'[q].text
                BY DEF ReadIsStored
            <4>1. Reading(job'[q]) = Reading(job[q])
                BY <2>1 DEF SameReading
            <4>2. job[q].content \in Contents /\ job[q].content # NoContent
                BY <1>0, <4>1 DEF Reading, Jobs
            <4>3. PICK v \in versions[job[q].content] :
                      v.number = job[q].last /\ v.text = job[q].text
                BY <4>2 DEF NumberingInv, ReadIsStored
            <4>4. versions'[job[q].content] = versions[job[q].content]
                BY <3>2, <3>5, <4>2, <4>3
            <4> QED BY <4>1, <4>3, <4>4 DEF Reading
        <3> QED BY <3>6, <3>7, <3>8, <3>9 DEF NumberingInv
    <2> QED BY <2>2, <2>3
<1>13. ASSUME NEW r \in Requests, NEW a \in Texts, StoreVersion(r, a)
       PROVE  NumberingInv'
    <2>1. Same
        BY <1>13, <1>a DEF StoreVersion
    <2>2. CASE UNCHANGED texts
        BY <2>1, <2>2, NumberingFrame
    <2>3. CASE ~UNCHANGED texts
        <3>1. PICK c \in Contents, n \in Nat : c = job[r].content /\ n = job[r].last + 1
            BY <1>0, <1>13 DEF StoreVersion, Jobs
        <3> DEFINE new == [number |-> n, answer |-> a, text |-> Polished[a]]
        <3>2. /\ job[r].text # a /\ ~Taken(c, n)
              /\ AddVersion(c, n, a) /\ UNCHANGED origin
            BY <1>13, <2>3, <3>1 DEF StoreVersion, Repeats, texts
        <3>3. PICK read \in versions[c] : read.number = job[r].last /\ read.text = job[r].text
            BY <1>13, <3>1 DEF StoreVersion, NumberingInv, ReadIsStored
        <3>4. /\ {v.number : v \in versions[c]} = 1..current[c] /\ current[c] \in Nat
              /\ \A v, w \in versions[c] : v.number = w.number => v = w
            BY DEF NumberingInv, NumbersRunOn, TypeOK
        <3>5. \A v \in versions[c] : v.number \in 1..current[c]
            BY <3>4
        <3>6. n \notin {v.number : v \in versions[c]}
            BY <3>2 DEF Taken
        <3>7. read.number = current[c] /\ n = current[c] + 1
            BY <3>1, <3>3, <3>4, <3>5, <3>6
        <3>8. versions'[c] = versions[c] \cup {new} /\ current'[c] = n
            BY <3>2 DEF AddVersion, TypeOK
        <3>9. \A d \in Contents \ {c} : versions'[d] = versions[d] /\ current'[d] = current[d]
            BY <3>2 DEF AddVersion, TypeOK
        <3>10. NumbersRunOn'
            <4>1. {v.number : v \in versions'[c]} = {v.number : v \in versions[c]} \cup {n}
                <5>1. new.number = n
                    OBVIOUS
                <5> HIDE DEF new
                <5> QED BY <3>8, <5>1
            <4>2. {v.number : v \in versions'[c]} = 1..current'[c]
                BY <3>4, <3>7, <3>8, <4>1
            <4>3. \A v, w \in versions'[c] : v.number = w.number => v = w
                BY <3>4, <3>5, <3>7, <3>8
            <4>4. \A d \in Contents \ {c} :
                      /\ {v.number : v \in versions'[d]} = 1..current'[d]
                      /\ \A v, w \in versions'[d] : v.number = w.number => v = w
                BY <3>9 DEF NumberingInv, NumbersRunOn
            <4> QED BY <4>2, <4>3, <4>4 DEF NumbersRunOn
        <3>11. BlankIsEmpty'
            <4>1. origin[c] # NoId
                BY <3>3 DEF NumberingInv, BlankIsEmpty
            <4> QED BY <3>2, <3>9, <4>1 DEF NumberingInv, BlankIsEmpty
        <3>12. NoRepeat'
            <4>1. \A v \in versions[c] : n = v.number + 1 => v.text # a
                BY <3>3, <3>4, <3>5, <3>7, <3>2
            <4>2. \A v \in versions[c] : v.number # n + 1
                BY <3>4, <3>5, <3>7
            <4>3. \A v, w \in versions'[c] : w.number = v.number + 1 => w.answer # v.text
                BY <3>1, <3>8, <4>1, <4>2 DEF NumberingInv, NoRepeat
            <4> QED BY <3>9, <4>3 DEF NumberingInv, NoRepeat
        <3>13. ReadIsStored'
            <4> SUFFICES ASSUME NEW q \in Requests, job'[q].content # NoContent
                         PROVE  \E v \in versions'[job'[q].content] :
                                    v.number = job'[q].last /\ v.text = job'[q].text
                BY DEF ReadIsStored
            <4>1. Reading(job'[q]) = Reading(job[q])
                BY <2>1 DEF SameReading
            <4>2. job[q].content \in Contents /\ job[q].content # NoContent
                BY <1>0, <4>1 DEF Reading, Jobs
            <4>3. PICK v \in versions[job[q].content] :
                      v.number = job[q].last /\ v.text = job[q].text
                BY <4>2 DEF NumberingInv, ReadIsStored
            <4>4. v \in versions'[job[q].content]
                BY <3>8, <3>9, <4>2, <4>3
            <4> QED BY <4>1, <4>3, <4>4 DEF Reading
        <3> QED BY <3>10, <3>11, <3>12, <3>13 DEF NumberingInv
    <2> QED BY <2>2, <2>3
<1> QED
    BY <1>1, <1>3, <1>4, <1>5, <1>6, <1>7, <1>8, <1>9, <1>10, <1>11, <1>12, <1>13,
       NumberingFrame DEF Next

LEMMA NumberingStart == Init => NumberingInv
<1> SUFFICES ASSUME Init PROVE NumberingInv
    OBVIOUS
<1>1. ReadIsStored
    BY IdleJobIsJob DEF Init, ReadIsStored
<1>2. NumbersRunOn /\ BlankIsEmpty /\ NoRepeat
    BY DEF Init, NumbersRunOn, BlankIsEmpty, NoRepeat
<1> QED BY <1>1, <1>2 DEF NumberingInv

-----------------------------------------------------------------------------
LEMMA TextInvariant == Spec => []TextInv
<1>1. Init => TextInv
    <2>1. Init => FallbackIsPicture /\ HoldsTemplate
        BY DEF Init, FallbackIsPicture, HoldsTemplate
    <2> QED BY <2>1, TypeStart, NumberingStart DEF TextInv, NumberingInv
<1>2. TextInv /\ [Next]_vars => TextInv'
    BY TypeStep, HoldStep, NumberingStep DEF TextInv, NumberingInv
<1> QED BY <1>1, <1>2, PTL DEF Spec

(* The rows, the cache and what the requests hold keep their types. *)
THEOREM TypeCorrect == Spec => []TypeOK
<1>1. TextInv => TypeOK
    BY DEF TextInv
<1> QED BY <1>1, TextInvariant, PTL

(* The versions of every text run on without a gap or a double, however    *)
(* many regenerations number theirs from one reading.                      *)
THEOREM VersionsRunOn == Spec => []NumbersRunOn
<1>1. TextInv => NumbersRunOn
    BY DEF TextInv
<1> QED BY <1>1, TextInvariant, PTL

(* The answer behind a version is not the stored text of the one before    *)
(* it: what was compared before the number was given is still the last     *)
(* version when the number is free.                                        *)
THEOREM AnswersAreNew == Spec => []NoRepeat
<1>1. TextInv => NoRepeat
    BY DEF TextInv
<1> QED BY <1>1, TextInvariant, PTL

-----------------------------------------------------------------------------
(* The cache leads to a fitting template *)

(* What a row is after a step: gone, or the same template, in force or not *)
(* and by any name.                                                        *)
Stays(i) ==
    \/ templates'[i] = NoRow
    \/ /\ Exists(i)
       /\ templates'[i].group = templates[i].group
       /\ templates'[i].version = templates[i].version

RowsKept ==
    \A i \in Ids \ ambiguous' : (i \notin ambiguous /\ Stays(i)) \/ ~Held(i)

(* A new row takes its id from everyone who holds it, or marks it.         *)
LEMMA InsertKeeps ==
    ASSUME TypeOK, NEW t, Insert(t)
    PROVE  RowsKept
<1> DEFINE new == NextId(t.group)
<1>1. /\ new \in Ids /\ templates' = [templates EXCEPT ![new] = t]
      /\ ambiguous' = IF Held(new) THEN ambiguous \cup {new} ELSE ambiguous \ {new}
    BY DEF Insert
<1> HIDE DEF new
<1>2. ASSUME NEW i \in Ids \ ambiguous', i # new
      PROVE  i \notin ambiguous /\ Stays(i)
    BY <1>1, <1>2 DEF Stays, Exists, TypeOK
<1>3. new \notin ambiguous' => ~Held(new)
    BY <1>1
<1> QED BY <1>2, <1>3 DEF RowsKept

LEMMA StoreStep ==
    ASSUME TypeOK, [Next]_vars
    PROVE  RowsKept
<1>1. CASE UNCHANGED store
    BY <1>1 DEF store, RowsKept, Stays, Exists
<1>2. ASSUME NEW t, Insert(t)
      PROVE  RowsKept
    BY <1>2, InsertKeeps
<1>3. ASSUME NEW r \in Requests, NEW i \in Ids, NEW n \in AllNames, NEW b \in BOOLEAN,
             UpdateTemplate(r, i, n, b)
      PROVE  RowsKept
    <2>1. templates[i] \in Templates
        BY <1>3 DEF UpdateTemplate, Exists, TypeOK
    <2>2. PICK row \in Templates : row = [templates[i] EXCEPT !.name = n, !.active = b]
        BY <2>1 DEF Templates
    <2>3. row.group = templates[i].group /\ row.version = templates[i].version
        BY <2>1, <2>2 DEF Templates
    <2>4. templates' = [templates EXCEPT ![i] = row] /\ ambiguous' = ambiguous /\ Exists(i)
        BY <1>3, <2>2 DEF UpdateTemplate
    <2>5. templates'[i] = row /\ \A j \in Ids \ {i} : templates'[j] = templates[j]
        BY <2>4 DEF TypeOK
    <2> QED BY <2>3, <2>4, <2>5 DEF RowsKept, Stays, Exists
<1>4. ASSUME NEW r \in Requests, NEW i \in Ids, DeleteTemplate(r, i)
      PROVE  RowsKept
    BY <1>4 DEF DeleteTemplate, RowsKept, Stays, Exists, TypeOK
<1>5. ASSUME NEW r \in Requests, Fallback(r)
      PROVE  RowsKept
    BY <1>1, <1>2, <1>5 DEF Fallback
<1>6. ASSUME NEW r \in Requests, NEW t \in Templates, CreateTemplate(r, t)
      PROVE  RowsKept
    BY <1>2, <1>6 DEF CreateTemplate
<1>7. ASSUME NEW r \in Requests, Drop(r)
      PROVE  RowsKept
    BY <1>1, <1>7 DEF Drop
<1>8. ASSUME NEW r \in Requests,
             \/ \E i \in Ids : GenerateFrom(r, i)
             \/ \E k \in Keys : Generate(r, k[1], k[2])
             \/ Load(r) \/ FindLatest(r) \/ FillCache(r)
             \/ \E c \in Contents : Regenerate(r, c)
             \/ CallFails(r)
             \/ \E a \in Texts : StoreContent(r, a) \/ StoreVersion(r, a)
      PROVE  RowsKept
    BY <1>1, <1>8 DEF GenerateFrom, Generate, Load, FindLatest, FillCache, Regenerate,
                      CallFails, StoreContent, StoreVersion
<1>9. CASE Restart \/ (\E k \in Keys : EntryExpires(k)) \/ UNCHANGED vars
    BY <1>1, <1>9 DEF Restart, EntryExpires, vars
<1> QED
    BY <1>3, <1>4, <1>5, <1>6, <1>7, <1>8, <1>9 DEF Next, Edits

(* A held id that fits a key goes on to fit it: its row is the one it was, *)
(* or is gone, or the id is marked.                                        *)
LEMMA FitsStays ==
    ASSUME RowsKept, NEW k, NEW i \in Ids, Held(i), Fits(k, i)
    PROVE  Fits(k, i)'
    BY DEF RowsKept, Stays, Fits, Exists

(* Where the entries of the cache and the ids about to enter it come from. *)
CacheSource ==
    \A k \in Keys :
        \/ cache'[k] \in {NoId, cache[k]}
        \/ \E r \in Requests : pc[r] = "fill" /\ job[r].key = k /\ cache'[k] = job[r].id

FoundNow(q) ==
    templates'[job'[q].id] # NoRow =>
        /\ templates'[job'[q].id].group = job'[q].key[1]
        /\ \/ job'[q].key[2] \in {Latest, templates'[job'[q].id].version}
           \/ job'[q].key[1] \in Pictures /\ templates'[job'[q].id].version = 1

FillSource ==
    \A q \in Requests :
        pc'[q] = "fill" => (pc[q] = "fill" /\ job'[q] = job[q]) \/ FoundNow(q)

LEMMA LookupFollows ==
    ASSUME TypeOK, TypeOK', HoldsTemplate, LookupInv, RowsKept, CacheSource, FillSource
    PROVE  LookupInv'
<1>1. ASSUME NEW q \in Requests, pc'[q] = "fill"
      PROVE  Fits(job[q].key, job[q].id)'
    <2>1. CASE pc[q] = "fill" /\ job'[q] = job[q]
        <3>1. PICK k \in Keys, i \in Ids : k = job[q].key /\ i = job[q].id
            BY <2>1, JobKey DEF HoldsTemplate, TypeOK
        <3>2. Held(i) /\ Fits(k, i)
            BY <2>1, <3>1 DEF LookupInv, FoundFits, Held
        <3>3. Fits(k, i)'
            BY <3>2, FitsStays
        <3> QED BY <2>1, <3>1, <3>3 DEF Fits, Exists
    <2>2. CASE FoundNow(q)
        BY <2>2 DEF FoundNow, Fits, Exists
    <2> QED BY <1>1, <2>1, <2>2 DEF FillSource
<1>2. ASSUME NEW k \in Keys, cache'[k] # NoId
      PROVE  Fits(k, cache[k])'
    <2>1. PICK i \in Ids : i = cache'[k]
        BY <1>2 DEF TypeOK
    <2>2. Held(i) /\ Fits(k, i)
        <3>1. CASE cache'[k] = cache[k]
            BY <1>2, <2>1, <3>1 DEF LookupInv, CacheFits, Fits, Held
        <3>2. CASE \E r \in Requests :
                       pc[r] = "fill" /\ job[r].key = k /\ cache'[k] = job[r].id
            BY <2>1, <3>2 DEF LookupInv, FoundFits, Held
        <3> QED BY <1>2, <3>1, <3>2 DEF CacheSource
    <2>3. Fits(k, i)'
        BY <2>2, FitsStays
    <2> QED BY <2>1, <2>3 DEF Fits, Exists
<1>3. FoundFits'
    BY <1>1 DEF FoundFits
<1>4. CacheFits'
    BY <1>2 DEF CacheFits, Fits
<1> QED BY <1>3, <1>4 DEF LookupInv

LEMMA SourceStep ==
    ASSUME TypeOK, HoldsTemplate, FallbackIsPicture, [Next]_vars
    PROVE  CacheSource /\ FillSource
<1>0. \A r \in Requests : job[r] \in Jobs /\ job[r].key \in Keys
    BY JobKey DEF TypeOK
<1>1. UNCHANGED cache => CacheSource
    BY DEF CacheSource
<1>2. ASSUME NEW r \in Requests, NEW where, where # "fill", Goto(r, where),
             \A q \in Requests \ {r} : job'[q] = job[q]
      PROVE  FillSource
    BY <1>2 DEF Goto, FillSource, TypeOK
<1>3. ASSUME NEW r \in Requests, NEW j, Note(r, j)
      PROVE  \A q \in Requests \ {r} : job'[q] = job[q]
    BY <1>3 DEF Note, TypeOK
<1>4. UNCHANGED <<pc, job>> => FillSource
    BY DEF FillSource
<1>5. ASSUME NEW r \in Requests, Edits(r)
      PROVE  CacheSource /\ FillSource
    <2>1. FillSource
        BY <1>2, <1>3, <1>4, <1>5 DEF Edits, CreateTemplate, UpdateTemplate, DeleteTemplate,
                                      Drop, DropKey
    <2>2. CASE Drop(r)
        BY <2>1, <2>2 DEF Drop, CacheSource, TypeOK
    <2> QED BY <1>1, <1>5, <2>1, <2>2 DEF Edits, CreateTemplate, UpdateTemplate, DeleteTemplate
<1>6. ASSUME NEW r \in Requests, NEW i, NEW row, Resolved(r, i, row)
      PROVE  FillSource
    BY <1>2, <1>3, <1>6 DEF Resolved, Ends
<1>7. ASSUME NEW r \in Requests,
             \/ \E i \in Ids : GenerateFrom(r, i)
             \/ \E k \in Keys : Generate(r, k[1], k[2])
             \/ Load(r)
      PROVE  CacheSource /\ FillSource
    BY <1>1, <1>2, <1>3, <1>6, <1>7 DEF GenerateFrom, Generate, Load
<1>8. ASSUME NEW r \in Requests, FindLatest(r)
      PROVE  CacheSource /\ FillSource
    <2>1. CASE \E i \in Matching(job[r].key[1], job[r].key[2]) :
                   Goto(r, "fill") /\ Note(r, [job[r] EXCEPT !.id = i])
        <3>1. PICK i \in Matching(job[r].key[1], job[r].key[2]) :
                   Goto(r, "fill") /\ Note(r, [job[r] EXCEPT !.id = i])
            BY <2>1
        <3>2. /\ i \in Ids /\ Exists(i) /\ templates[i].group = job[r].key[1]
              /\ job[r].key[2] \in {Latest, templates[i].version}
            BY DEF Matching
        <3>3. job'[r].id = i /\ job'[r].key = job[r].key
            BY <1>0, <3>1 DEF Note, TypeOK, Jobs
        <3>4. templates' = templates
            BY <1>8 DEF FindLatest, store
        <3>5. FoundNow(r)
            BY <3>2, <3>3, <3>4 DEF FoundNow
        <3>6. FillSource
            BY <1>3, <3>1, <3>5 DEF FillSource, Goto, TypeOK
        <3> QED BY <1>1, <1>8, <3>6 DEF FindLatest
    <2>2. CASE (Goto(r, "fallback") /\ UNCHANGED job) \/ Ends(r)
        BY <1>1, <1>2, <1>3, <1>8, <2>2 DEF FindLatest, Ends
    <2> QED BY <1>8, <2>1, <2>2 DEF FindLatest
<1>9. ASSUME NEW r \in Requests, Fallback(r)
      PROVE  CacheSource /\ FillSource
    <2>1. PICK g \in Pictures : g = job[r].key[1]
        BY <1>9 DEF Fallback, FallbackIsPicture
    <2>2. CASE Clash(StandIn(g), Ids)
        BY <1>1, <1>2, <1>3, <1>9, <2>1, <2>2 DEF Fallback, StandIn, Ends
    <2>3. CASE ~Clash(StandIn(g), Ids)
        <3>1. Insert(StandIn(g)) /\ Goto(r, "fill")
              /\ Note(r, [job[r] EXCEPT !.id = NextId(g)])
            BY <1>9, <2>1, <2>3 DEF Fallback, StandIn
        <3>2. PICK i \in Ids : i = NextId(g) /\ templates' = [templates EXCEPT ![i] = StandIn(g)]
            BY <3>1 DEF Insert, StandIn
        <3>3. templates'[i] = StandIn(g)
            BY <3>2 DEF TypeOK
        <3>4. job'[r].id = i /\ job'[r].key = job[r].key
            BY <1>0, <3>1, <3>2 DEF Note, TypeOK, Jobs
        <3>5. FoundNow(r)
            BY <2>1, <3>3, <3>4 DEF FoundNow, StandIn
        <3>6. FillSource
            BY <1>3, <3>1, <3>5 DEF FillSource, Goto, TypeOK
        <3> QED BY <1>1, <1>9, <3>6 DEF Fallback
    <2> QED BY <2>2, <2>3
<1>10. ASSUME NEW r \in Requests, FillCache(r)
       PROVE  CacheSource /\ FillSource
    <2>1. CacheKey(job[r].key[1], job[r].key[2]) = job[r].key
        BY <1>0, KeyIsPair
    <2>2. pc[r] = "fill" /\ cache' = [cache EXCEPT ![job[r].key] = job[r].id]
        BY <1>10, <2>1 DEF FillCache
    <2>3. CacheSource
        BY <2>2 DEF CacheSource, TypeOK
    <2>4. FillSource
        BY <1>2, <1>3, <1>10 DEF FillCache, Ends
    <2> QED BY <2>3, <2>4
<1>11. ASSUME NEW r \in Requests,
              \/ \E c \in Contents : Regenerate(r, c)
              \/ CallFails(r)
              \/ \E a \in Texts : StoreContent(r, a) \/ StoreVersion(r, a)
       PROVE  CacheSource /\ FillSource
    BY <1>1, <1>2, <1>3, <1>11 DEF Regenerate, CallFails, StoreContent, StoreVersion, Ends
<1>12. CASE Restart \/ (\E k \in Keys : EntryExpires(k)) \/ UNCHANGED vars
    BY <1>12 DEF Restart, EntryExpires, vars, CacheSource, FillSource, TypeOK
<1> QED
    BY <1>5, <1>7, <1>8, <1>9, <1>10, <1>11, <1>12 DEF Next

(* An entry of the cache leads to a template that fits its key, or to no   *)
(* row, unless its id was given to a new template while an entry, or a     *)
(* request about to fill one, held it.                                     *)
THEOREM CacheLeadsRight == Spec => []CacheFits
<1>1. Init => LookupInv
    BY DEF Init, LookupInv, FoundFits, CacheFits, Exists
<1>2. TextInv /\ TextInv' /\ LookupInv /\ [Next]_vars => LookupInv'
    <2> SUFFICES ASSUME TextInv, TextInv', LookupInv, [Next]_vars
                 PROVE  LookupInv'
        OBVIOUS
    <2>1. TypeOK /\ TypeOK' /\ HoldsTemplate /\ FallbackIsPicture
        BY DEF TextInv
    <2>2. RowsKept
        BY <2>1, StoreStep
    <2>3. CacheSource /\ FillSource
        BY <2>1, SourceStep
    <2> QED BY <2>1, <2>2, <2>3, LookupFollows
<1>3. LookupInv => CacheFits
    BY DEF LookupInv
<1> QED BY <1>1, <1>2, <1>3, TextInvariant, PTL DEF Spec
=============================================================================
