--------------------------- MODULE ImageVersions ---------------------------
(***************************************************************************)
(* Generated images and their versions: generate and regenerate of         *)
(* app/services/image_engine_service.py over                               *)
(* app/repositories/image_engine_repository.py.                            *)
(*                                                                         *)
(* A regenerate request reads the image with all its versions, awaits the  *)
(* provider once or twice, and then numbers the new version and adds up    *)
(* the cost from what it read at the start: the identity map of its        *)
(* session hands the old objects out again, and nothing is committed in    *)
(* between that would expire them.  Only the search for a duplicate asks   *)
(* the database anew.  A step is one statement or one transaction, so that *)
(* requests of several API processes are covered as well as those of one   *)
(* event loop.                                                             *)
(***************************************************************************)
EXTENDS Integers, FiniteSets, Functions

CONSTANTS
    Images,      \* ids in generated_images
    Requests,    \* requests to /images/generate and /images/regenerate
    Pictures,    \* what a provider may return; a picture stands for its hash
    Costs,       \* what a provider may charge
    NoImage,     \* a request that works on no image
    NoPicture,   \* no file, or nothing received yet
    MaxCalls,    \* bound: requests
    MaxFaults    \* bound: crashes, failed statements and file writes

ASSUME ImageAssumption ==
    /\ NoImage \notin Images
    /\ NoPicture \notin Pictures
    /\ Costs \subseteq Nat
    /\ MaxCalls \in Nat
    /\ MaxFaults \in Nat

VARIABLES
    rows,      \* generated_image_versions: by image, then by version, which
               \* together are unique
    current,   \* GeneratedImage.current_version
    total,     \* GeneratedImage.total_cost_usd
    history,   \* number of the image's rows in image_histories
    file,      \* the file stored for the image
    pc,        \* where each request stands
    cur,       \* the image it works on
    seen,      \* what it read of that image
    result,    \* what the provider returned
    calls,     \* requests so far
    faults     \* faults so far

tables   == <<rows, current, total, history>>
sessions == <<pc, cur, seen, result>>
budgets  == <<calls, faults>>
vars     == <<tables, file, sessions, budgets>>

Row      == [hash : Pictures, cost : Nat]
NoRows   == [v \in {} |-> NoPicture]
NoSeen   == [rows |-> NoRows, total |-> 0]
NoResult == [hash |-> NoPicture, cost |-> 0]

-----------------------------------------------------------------------------
(* Helpers *)

Call ==
    /\ calls < MaxCalls
    /\ calls' = calls + 1
    /\ UNCHANGED faults

Fault ==
    /\ faults < MaxFaults
    /\ faults' = faults + 1
    /\ UNCHANGED calls

Restart(s) ==
    /\ pc'     = [pc EXCEPT ![s] = "idle"]
    /\ cur'    = [cur EXCEPT ![s] = NoImage]
    /\ seen'   = [seen EXCEPT ![s] = NoSeen]
    /\ result' = [result EXCEPT ![s] = NoResult]

\* max(item.version for item in generated.versions) + 1, or 1 if there is none.
After(versions) ==
    IF versions = {} THEN 1
    ELSE (CHOOSE v \in versions : \A u \in versions : u <= v) + 1

NextVersion_Reread(s) == After(DOMAIN rows[cur[s]])   \* mutant
NextVersion(s) == After(DOMAIN seen[s].rows)

\* find_duplicate_version.
Duplicate_OfNewest(s, p) ==   \* mutant: only the newest version is compared
    \E v \in DOMAIN rows[cur[s]] : v = current[cur[s]] /\ rows[cur[s]][v].hash = p
Duplicate(s, p) == \E v \in DOMAIN rows[cur[s]] : rows[cur[s]][v].hash = p

-----------------------------------------------------------------------------
Init ==
    /\ rows    = [i \in Images |-> NoRows]
    /\ current = [i \in Images |-> 0]
    /\ total   = [i \in Images |-> 0]
    /\ history = [i \in Images |-> 0]
    /\ file    = [i \in Images |-> NoPicture]
    /\ pc      = [s \in Requests |-> "idle"]
    /\ cur     = [s \in Requests |-> NoImage]
    /\ seen    = [s \in Requests |-> NoSeen]
    /\ result  = [s \in Requests |-> NoResult]
    /\ calls   = 0
    /\ faults  = 0

-----------------------------------------------------------------------------
(* generate.  The provider is called before there is an image; the new row *)
(* is flushed for its id, the files are written under that id, and one     *)
(* commit stores the image with its first version.                         *)

Generate(s, i) ==
    /\ pc[s] = "idle" /\ rows[i] = NoRows
    /\ \E p \in Pictures, c \in Costs :
          /\ rows'  = [rows EXCEPT ![i] = [v \in {1} |-> [hash |-> p, cost |-> c]]]
          /\ total' = [total EXCEPT ![i] = c]
          /\ file'  = [file EXCEPT ![i] = p]
    /\ current' = [current EXCEPT ![i] = 1]
    /\ pc'      = [pc EXCEPT ![s] = "history"]
    /\ cur'     = [cur EXCEPT ![s] = i]
    /\ Call
    /\ UNCHANGED <<history, seen, result>>

\* The files are written, the commit fails: the id is free for the next image.
GenerateFails(i) ==
    /\ rows[i] = NoRows
    /\ \E p \in Pictures : file' = [file EXCEPT ![i] = p]
    /\ Fault
    /\ UNCHANGED <<tables, sessions>>

-----------------------------------------------------------------------------
(* regenerate *)

ReadImage(s, i) ==
    /\ pc[s] = "idle" /\ rows[i] # NoRows
    /\ cur'  = [cur EXCEPT ![s] = i]
    /\ seen' = [seen EXCEPT ![s] = [rows |-> rows[i], total |-> total[i]]]
    /\ pc'   = [pc EXCEPT ![s] = "first"]
    /\ Call
    /\ UNCHANGED <<tables, file, result>>

\* Every provider of the failover sequence refuses: 503.
ProvidersFail(s) ==
    /\ pc[s] \in {"first", "variation"}
    /\ Restart(s)
    /\ UNCHANGED <<tables, file, budgets>>

\* A provider answers with a picture the image has not had.
NewPicture(s) ==
    /\ pc[s] \in {"first", "variation"}
    /\ \E p \in Pictures, c \in Costs :
          /\ ~Duplicate(s, p)
          /\ result' = [result EXCEPT ![s] = [hash |-> p, cost |-> c]]
    /\ pc' = [pc EXCEPT ![s] = "store"]
    /\ UNCHANGED <<tables, file, cur, seen, budgets>>

\* A known picture: ask once more for a variation of the prompt ...
AskVariation(s) ==
    /\ pc[s] = "first"
    /\ \E p \in Pictures : Duplicate(s, p)
    /\ pc' = [pc EXCEPT ![s] = "variation"]
    /\ UNCHANGED <<tables, file, cur, seen, result, budgets>>

\* ... and if that is known too, 422 "Duplicate image detected".
RejectDuplicate(s) ==
    /\ pc[s] = "variation"
    /\ \E p \in Pictures : Duplicate(s, p)
    /\ Restart(s)
    /\ UNCHANGED <<tables, file, budgets>>

\* _store_outputs: the key is made of user and image, not of the version.  The
\* requests are those of one user.
StoreOutputs(s) ==
    /\ pc[s] = "store"
    /\ file' = [file EXCEPT ![cur[s]] = result[s].hash]
    /\ pc'   = [pc EXCEPT ![s] = "insert"]
    /\ UNCHANGED <<tables, cur, seen, result, budgets>>

\* add_generated_image_version.  A free version costs nothing to add up: the
\* flush then leaves total_cost_usd alone.
InsertVersion(s) ==
    LET i == cur[s] IN
    /\ pc[s] = "insert"
    /\ NextVersion(s) \notin DOMAIN rows[i]
    /\ rows'    = [rows EXCEPT ![i] =
                     [v \in DOMAIN @ \cup {NextVersion(s)} |->
                        IF v = NextVersion(s) THEN result[s] ELSE @[v]]]
    /\ current' = [current EXCEPT ![i] = NextVersion(s)]
    /\ total'   = [total EXCEPT ![i] =
                     IF result[s].cost = 0 THEN @ ELSE seen[s].total + result[s].cost]
    /\ pc'      = [pc EXCEPT ![s] = "history"]
    /\ UNCHANGED <<history, file, cur, seen, result, budgets>>

\* Another request has taken the number: the unique constraint rolls this one
\* back.  Its file stays.
VersionTaken_Ignored(s) ==   \* mutant: the conflict is swallowed
    /\ pc[s] = "insert"
    /\ NextVersion(s) \in DOMAIN rows[cur[s]]
    /\ pc' = [pc EXCEPT ![s] = "history"]
    /\ UNCHANGED <<tables, file, cur, seen, result, budgets>>
VersionTaken(s) ==
    /\ pc[s] = "insert"
    /\ NextVersion(s) \in DOMAIN rows[cur[s]]
    /\ Restart(s)
    /\ UNCHANGED <<tables, file, budgets>>

\* add_history commits by itself.
AddHistory(s) ==
    /\ pc[s] = "history"
    /\ history' = [history EXCEPT ![cur[s]] = @ + 1]
    /\ Restart(s)
    /\ UNCHANGED <<rows, current, total, file, budgets>>

\* The request dies between two steps: a crash, a full disk, a locked database.
Abort(s) ==
    /\ pc[s] # "idle"
    /\ Fault
    /\ Restart(s)
    /\ UNCHANGED <<tables, file>>

-----------------------------------------------------------------------------
Next ==
    \/ \E s \in Requests :
          \/ \E i \in Images : Generate(s, i) \/ ReadImage(s, i)
          \/ ProvidersFail(s)
          \/ NewPicture(s)
          \/ AskVariation(s)
          \/ RejectDuplicate(s)
          \/ StoreOutputs(s)
          \/ InsertVersion(s)
          \/ VersionTaken(s)
          \/ AddHistory(s)
          \/ Abort(s)
    \/ \E i \in Images : GenerateFails(i)

Spec == Init /\ [][Next]_vars

-----------------------------------------------------------------------------
(* Properties *)

IsRows(r) ==
    /\ r = [v \in DOMAIN r |-> r[v]]
    /\ DOMAIN r \subseteq Nat
    /\ \A v \in DOMAIN r : r[v] \in Row

TypeOK ==
    /\ DOMAIN rows = Images
    /\ \A i \in Images : IsRows(rows[i])
    /\ current \in [Images -> Nat]
    /\ total   \in [Images -> Nat]
    /\ history \in [Images -> Nat]
    /\ file    \in [Images -> Pictures \cup {NoPicture}]
    /\ pc      \in [Requests -> {"idle", "first", "variation", "store", "insert", "history"}]
    /\ cur     \in [Requests -> Images \cup {NoImage}]
    /\ DOMAIN seen = Requests
    /\ \A s \in Requests : IsRows(seen[s].rows) /\ seen[s].total \in Nat
    /\ result  \in [Requests -> Row \cup {NoResult}]
    /\ calls   \in Nat
    /\ faults  \in Nat

\* README.md:442, "Run quality checks (... duplicate)", and README.md:444,
\* "version history": although each request searches for a duplicate before
\* and numbers its version after an await, from a read that may be stale, the
\* versions of an image form a log of distinct pictures.
Log == INSTANCE ImageLog WITH
    log <- [i \in Images |-> [v \in DOMAIN rows[i] |-> rows[i][v].hash]]
KeepsLog == Log!Spec

\* total_cost_usd is read before the await and written after it; no request
\* overwrites what another has added.
CostAddsUp ==
    \A i \in Images : total[i] = SumFunction([v \in DOMAIN rows[i] |-> rows[i][v].cost])

\* A version without a row in image_histories is one a request is about to
\* write, or one whose request had a fault; no such row is without a version.
HistoryFollows ==
    \A i \in Images :
        LET Writers == {s \in Requests : pc[s] = "history" /\ cur[s] = i} IN
        /\ history[i] + Cardinality(Writers) <= Cardinality(DOMAIN rows[i])
        /\ Cardinality(DOMAIN rows[i]) <= history[i] + Cardinality(Writers) + faults

\* README.md:444, "Persist through storage abstraction and version history":
\* the file a version refers to is the picture whose hash it records.
VersionsKeepTheirFile ==
    \A i \in Images : \A v \in DOMAIN rows[i] :
        (\A s \in Requests : pc[s] = "idle") => rows[i][v].hash = file[i]

=============================================================================
