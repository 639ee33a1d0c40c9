--------------------------- MODULE ContentEngine ---------------------------
(***************************************************************************)
(* Templates and generated texts: app/services/ai_content_service.py and   *)
(* app/repositories/ai_content_repository.py, with the templates of the    *)
(* image engine (image_engine_service.py, image_engine_repository.py),     *)
(* which are kept, looked up and cached the same way.                      *)
(*                                                                         *)
(* The routes that edit templates are plain functions, run in a pool of    *)
(* threads.  The routes that generate are coroutines: between two awaits   *)
(* no other coroutine runs, but threads do.  The only await is the call to *)
(* the provider.  Objects that a session has read it keeps, so a           *)
(* regeneration numbers its version from the versions it saw before the    *)
(* call.                                                                   *)
(*                                                                         *)
(* The database is SQLite, as shipped: foreign keys are not enforced, and  *)
(* a new row gets the id after the largest of its table, which may have    *)
(* been the id of a deleted row.                                           *)
(***************************************************************************)
EXTENDS Integers, FiniteSets

CONSTANTS
    Prompts,     \* categories of prompt templates
    Pictures,    \* types of image templates
    MaxVersion,  \* bound: versions of a template
    Names,       \* names that users give to image templates
    MaxId,       \* bound: ids of each of the two tables of templates
    Contents,    \* ids of generated contents
    Texts,       \* texts: what a provider answers, and what is stored
    Polished,    \* what _quality_check makes of a text: hashtags, emoji, length
    Requests,
    NoRequest, NoId, NoRow, NoContent, NoText,
    Latest,      \* no version asked for
    MaxCalls,    \* bound: requests
    MaxFaults    \* bound: restarts and expired cache entries

Groups   == Prompts \cup Pictures

(* Each table has ids of its own. *)
Table(g) == IF g \in Prompts THEN "prompt" ELSE "image"
Ids      == {"prompt", "image"} \X (1..MaxId)
Versions == 1..MaxVersion
Keys     == Groups \X (Versions \cup {Latest})

(* _build_fallback_template names its template after the type. *)
AutoTemplate(g) == <<"Auto Template", g>>
AllNames == Names \cup {AutoTemplate(g) : g \in Pictures}

ASSUME ContentAssumption ==
    /\ MaxId \in Nat /\ MaxVersion \in Nat \ {0}
    /\ Prompts # {} /\ Prompts \cap Pictures = {}
    /\ Latest \notin Versions /\ NoId \notin Ids
    /\ Polished \in [Texts -> Texts]
    /\ NoRequest \notin Requests /\ NoContent \notin Contents /\ NoText \notin Texts
    /\ MaxCalls \in Nat /\ MaxFaults \in Nat

Templates == [group : Groups, name : AllNames, version : Versions, active : BOOLEAN]
ASSUME RowAssumption == NoRow \notin Templates

(* The answer and the stored text of each version, and the template. *)
Numbered == [number : Nat, answer : Texts, text : Texts]

Jobs == [key : Keys, id : Ids \cup {NoId}, active : BOOLEAN,
         content : Contents \cup {NoContent}, last : Nat, text : Texts \cup {NoText}]

VARIABLES
    templates,   \* the row of each id
    ambiguous,   \* ids given to a new row while the cache, or a request
                 \* about to fill it, held them for a deleted one
    cache,       \* _ai_template_cache and _image_template_cache
    origin,      \* template_id of each content
    versions,    \* generated_content_versions of each content
    current,     \* current_version of each content
    loop,        \* the coroutine that runs
    pc, job,     \* where each request stands, and what it has read
    calls, faults

store == <<templates, ambiguous>>
texts == <<origin, versions, current>>
vars == <<store, cache, texts, loop, pc, job, calls, faults>>

-----------------------------------------------------------------------------
IdleJob(r) == [key |-> CHOOSE k \in Keys : TRUE, id |-> NoId, active |-> FALSE,
               content |-> NoContent, last |-> 0, text |-> NoText]

Init ==
    /\ templates = [i \in Ids |-> NoRow] /\ ambiguous = {}
    /\ cache = [k \in Keys |-> NoId]
    /\ origin = [c \in Contents |-> NoId]
    /\ versions = [c \in Contents |-> {}]
    /\ current = [c \in Contents |-> 0]
    /\ loop = NoRequest
    /\ pc = [r \in Requests |-> "idle"]
    /\ job = [r \in Requests |-> IdleJob(r)]
    /\ calls = 0 /\ faults = 0

Exists(i) == templates[i] # NoRow

(* (category, version) is unique for prompts, (name, version) for images. *)
Clash(t, rows) ==
    \E i \in rows :
        /\ Exists(i) /\ templates[i].version = t.version
        /\ IF t.group \in Prompts THEN templates[i].group = t.group
           ELSE templates[i].group \in Pictures /\ templates[i].name = t.name

(* Which id a new row gets. *)
NextId(g) ==
    LET numbers == {i[2] : i \in {j \in Ids : j[1] = Table(g) /\ Exists(j)}}
    IN  <<Table(g), IF numbers = {} THEN 1
                    ELSE 1 + CHOOSE n \in numbers : \A m \in numbers : m <= n>>

Held(i) ==
    \/ \E k \in Keys : cache[k] = i
    \/ \E r \in Requests : pc[r] = "fill" /\ job[r].id = i

Insert(t) ==
    LET i == NextId(t.group) IN
    /\ i \in Ids
    /\ templates' = [templates EXCEPT ![i] = t]
    /\ ambiguous' = IF Held(i) THEN ambiguous \cup {i} ELSE ambiguous \ {i}

CacheKey(g, v) == <<g, v>>

Begin(r) == pc[r] = "idle" /\ calls < MaxCalls /\ calls' = calls + 1
Goto(r, where) == pc' = [pc EXCEPT ![r] = where]
Note(r, j) == job' = [job EXCEPT ![r] = j]

-----------------------------------------------------------------------------
(* Editing templates: commit, then drop the entry of that version *)

DropKey(r, g, v) ==
    /\ Goto(r, "drop")
    /\ Note(r, [job[r] EXCEPT !.key = CacheKey(g, v)])

CreateTemplate(r, t) ==
    /\ Begin(r)
    /\ ~Clash(t, Ids)
    /\ t.group \in Prompts => t.name \in Names
    /\ Insert(t)
    /\ DropKey(r, t.group, t.version)
    /\ UNCHANGED <<cache, texts, loop, faults>>

(* Neither group nor version can be changed.  The name of a prompt is never *)
(* looked up.                                                              *)
UpdateTemplate(r, i, name, active) ==
    /\ Begin(r)
    /\ Exists(i)
    /\ templates[i].group \in Prompts => name = templates[i].name
    /\ ~Clash([templates[i] EXCEPT !.name = name], Ids \ {i})
    /\ templates' = [templates EXCEPT ![i] = [@ EXCEPT !.name = name, !.active = active]]
    /\ DropKey(r, templates[i].group, templates[i].version)
    /\ UNCHANGED <<ambiguous, cache, texts, loop, faults>>

Drop(r) ==
    /\ pc[r] = "drop"
    /\ cache' = [cache EXCEPT ![job[r].key] = NoId]
    /\ Goto(r, "idle") /\ Note(r, IdleJob(r))
    /\ UNCHANGED <<store, texts, loop, calls, faults>>

(* No entry is dropped. *)
DeleteTemplate(r, i) ==
    /\ Begin(r)
    /\ Exists(i)
    /\ templates' = [templates EXCEPT ![i] = NoRow]
    /\ UNCHANGED <<ambiguous, cache, texts, loop, pc, job, faults>>

-----------------------------------------------------------------------------
(* Resolving a template *)

Runs(r) == loop \in {NoRequest, r} /\ loop' = r
Ends(r) == Goto(r, "idle") /\ Note(r, IdleJob(r)) /\ loop' = NoRequest

(* A template of the image engine goes on to ImageVersions. *)
Resolved(r, i, row) ==
    IF row.group \in Prompts /\ row.active
    THEN /\ Goto(r, "call") /\ loop' = NoRequest
         /\ Note(r, [job[r] EXCEPT !.id = i, !.active = TRUE])
    ELSE Ends(r)

GenerateFrom(r, i) ==
    /\ Begin(r) /\ loop = NoRequest
    /\ Exists(i)
    /\ Resolved(r, i, templates[i])
    /\ UNCHANGED <<store, cache, texts, faults>>

Generate(r, g, v) ==
    /\ Begin(r) /\ Runs(r)
    /\ LET k == CacheKey(g, v) IN
       /\ Note(r, [job[r] EXCEPT !.key = <<g, v>>, !.id = cache[k]])
       /\ Goto(r, IF cache[k] = NoId THEN "latest" ELSE "load")
    /\ UNCHANGED <<store, cache, texts, faults>>

(* The cached template is used as it is. *)
Load(r) ==
    /\ pc[r] = "load"
    /\ IF Exists(job[r].id) THEN Resolved(r, job[r].id, templates[job[r].id])
       ELSE Goto(r, "latest") /\ Note(r, [job[r] EXCEPT !.id = NoId]) /\ Runs(r)
    /\ UNCHANGED <<store, cache, texts, calls, faults>>

(* get_latest_template asks for at most one row. *)
Matching_AnyVersion(g, v) ==    \* mutant: the version asked for is not looked at
    {i \in Ids : Exists(i) /\ templates[i].active /\ templates[i].group = g}
Matching(g, v) ==
    {i \in Ids : /\ Exists(i) /\ templates[i].active /\ templates[i].group = g
                 /\ v \in {Latest, templates[i].version}}

FindLatest(r) ==
    /\ pc[r] = "latest"
    /\ LET g == job[r].key[1]
           found == Matching(g, job[r].key[2])
       IN
       IF Cardinality(found) = 1
       THEN \E i \in found : /\ Goto(r, "fill") /\ Runs(r)
                             /\ Note(r, [job[r] EXCEPT !.id = i])
       ELSE IF found = {} /\ g \in Pictures
       THEN Goto(r, "fallback") /\ Runs(r) /\ UNCHANGED job
       ELSE Ends(r)
    /\ UNCHANGED <<store, cache, texts, calls, faults>>

Fallback(r) ==
    /\ pc[r] = "fallback"
    /\ LET g == job[r].key[1]
           t == [group |-> g, name |-> AutoTemplate(g), version |-> 1, active |-> TRUE]
       IN
       IF Clash(t, Ids) THEN Ends(r) /\ UNCHANGED store
       ELSE /\ Insert(t)
            /\ Goto(r, "fill") /\ Runs(r)
            /\ Note(r, [job[r] EXCEPT !.id = NextId(g)])
    /\ UNCHANGED <<cache, texts, calls, faults>>

(* The row is not read again: what follows uses what the session has. *)
FillCache(r) ==
    /\ pc[r] = "fill"
    /\ LET g == job[r].key[1]
           v == job[r].key[2]
       IN
       /\ cache' = [cache EXCEPT ![CacheKey(g, v)] = job[r].id]
       /\ IF g \in Prompts
          THEN Goto(r, "call") /\ loop' = NoRequest
               /\ Note(r, [job[r] EXCEPT !.active = TRUE])
          ELSE Ends(r)
    /\ UNCHANGED <<store, texts, calls, faults>>

-----------------------------------------------------------------------------
(* Texts *)

Last(c) == CHOOSE v \in versions[c] : \A w \in versions[c] : w.number <= v.number

(* The request reads the versions before the call. *)
Regenerate(r, c) ==
    /\ Begin(r) /\ loop = NoRequest
    /\ versions[c] # {} /\ origin[c] # NoId /\ Exists(origin[c])
    /\ Goto(r, "call")
    /\ Note(r, [job[r] EXCEPT !.id = origin[c], !.content = c,
                              !.last = Last(c).number, !.text = Last(c).text])
    /\ UNCHANGED <<store, cache, texts, loop, faults>>

CallFails(r) ==
    /\ pc[r] = "call" /\ loop = NoRequest
    /\ Ends(r)
    /\ UNCHANGED <<store, cache, texts, calls, faults>>

(* The new text is compared, as it was answered, with the last one read.   *)
Repeats_Never(r, a) == FALSE    \* mutant: no comparison
Repeats(r, a) == job[r].text = a

Taken_Never(c, n) == FALSE    \* mutant: no unique (content, version)
Taken(c, n) == \E v \in versions[c] : v.number = n

AddVersion(c, n, a) ==
    /\ versions' = [versions EXCEPT ![c] =
                        @ \cup {[number |-> n, answer |-> a, text |-> Polished[a]]}]
    /\ current' = [current EXCEPT ![c] = n]

(* A content and its first version are committed together, whether or not  *)
(* the template is there any more.                                         *)
StoreContent(r, a) ==
    /\ pc[r] = "call" /\ job[r].content = NoContent /\ loop = NoRequest
    /\ \E c \in Contents :
          /\ origin[c] = NoId
          /\ origin' = [origin EXCEPT ![c] = job[r].id]
          /\ AddVersion(c, 1, a)
    /\ Ends(r)
    /\ UNCHANGED <<store, cache, calls, faults>>

StoreVersion(r, a) ==
    /\ pc[r] = "call" /\ job[r].content # NoContent /\ loop = NoRequest
    /\ LET c == job[r].content
           n == job[r].last + 1
       IN
       IF Repeats(r, a) \/ Taken(c, n)
       THEN UNCHANGED texts
       ELSE AddVersion(c, n, a) /\ UNCHANGED origin
    /\ Ends(r)
    /\ UNCHANGED <<store, cache, calls, faults>>

-----------------------------------------------------------------------------
EntryExpires(k) ==
    /\ cache[k] # NoId /\ faults < MaxFaults
    /\ cache' = [cache EXCEPT ![k] = NoId]
    /\ faults' = faults + 1
    /\ UNCHANGED <<store, texts, loop, pc, job, calls>>

Restart ==
    /\ faults < MaxFaults
    /\ cache' = [k \in Keys |-> NoId]
    /\ loop' = NoRequest
    /\ pc' = [r \in Requests |-> "idle"]
    /\ job' = [r \in Requests |-> IdleJob(r)]
    /\ faults' = faults + 1
    /\ UNCHANGED <<store, texts, calls>>

Edits(r) ==
    \/ \E t \in Templates : CreateTemplate(r, t)
    \/ \E i \in Ids :
          \/ DeleteTemplate(r, i)
          \/ \E name \in AllNames, b \in BOOLEAN : UpdateTemplate(r, i, name, b)
    \/ Drop(r)

Next ==
    \/ \E r \in Requests :
          \/ Edits(r)
          \/ \E i \in Ids : GenerateFrom(r, i)
          \/ \E k \in Keys : Generate(r, k[1], k[2])
          \/ Load(r) \/ FindLatest(r) \/ Fallback(r) \/ FillCache(r)
          \/ \E c \in Contents : Regenerate(r, c)
          \/ CallFails(r)
          \/ \E a \in Texts : StoreContent(r, a) \/ StoreVersion(r, a)
    \/ \E k \in Keys : EntryExpires(k)
    \/ Restart

Spec == Init /\ [][Next]_vars

-----------------------------------------------------------------------------
(* Properties *)

TypeOK ==
    /\ templates \in [Ids -> Templates \cup {NoRow}]
    /\ ambiguous \subseteq Ids
    /\ cache \in [Keys -> Ids \cup {NoId}]
    /\ origin \in [Contents -> Ids \cup {NoId}]
    /\ versions \in [Contents -> SUBSET Numbered]
    /\ current \in [Contents -> Nat]
    /\ loop \in Requests \cup {NoRequest}
    /\ pc \in [Requests -> {"idle", "drop", "load", "latest", "fallback", "fill", "call"}]
    /\ job \in [Requests -> Jobs]
    /\ calls \in Nat /\ faults \in Nat

(* A cache entry leads to a template of its category or type and, when it  *)
(* is for a version, of that version or (for images) of version 1, which   *)
(* is what the stand-in made for want of a template has, or it leads to no *)
(* row, however late it was filled and whatever was edited, deleted or     *)
(* created since.  Deletion drops no entry, so the one exception is an id  *)
(* that was given to a new template while an entry, or a request about to  *)
(* fill one, held it for the deleted template.                             *)
CacheFits ==
    \A k \in Keys :
        cache[k] \notin ambiguous \cup {NoId} /\ Exists(cache[k]) =>
            LET row == templates[cache[k]] IN
            /\ row.group = k[1]
            /\ k[2] \in {Latest, row.version} \/ (k[1] \in Pictures /\ row.version = 1)

(* The versions of a content are numbered 1, 2, ... and the last one is    *)
(* its current version, however many regenerations run from one reading.   *)
NumbersRunOn ==
    \A c \in Contents :
        /\ {v.number : v \in versions[c]} = 1..current[c]
        /\ \A v, w \in versions[c] : v.number = w.number => v = w

(* No answer was stored that repeats the stored text of the version before *)
(* it, even when that version was not the last any more at the time.       *)
NoRepeat ==
    \A c \in Contents : \A v, w \in versions[c] :
        w.number = v.number + 1 => w.answer # v.text

(* "Duplicate detection for regeneration": no version has the text of the  *)
(* one before it.                                                          *)
RegeneratedIsNew ==
    \A c \in Contents : \A v, w \in versions[c] :
        w.number = v.number + 1 => w.text # v.text

(* An image template is found or made whenever one is asked for: the       *)
(* template that stands in is never rejected.                              *)
FallbackIsFree ==
    \A r \in Requests :
        pc[r] = "fallback" =>
            ~Clash([group |-> job[r].key[1], name |-> AutoTemplate(job[r].key[1]),
                    version |-> 1, active |-> TRUE], Ids)
=============================================================================
