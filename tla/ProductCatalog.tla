--------------------------- MODULE ProductCatalog ---------------------------
(***************************************************************************)
(* The product catalogue: import, refresh, update and delete of            *)
(* app/services/product_service.py over                                    *)
(* app/repositories/product_repository.py and the cache of                 *)
(* app/core/cache.py.                                                      *)
(*                                                                         *)
(* The routes are plain functions, which the server runs in a pool of      *)
(* threads: requests interleave between any two statements, and during the *)
(* call to the marketplace that an import or a refresh makes.  They share  *)
(* the cache, which is locked for one operation at a time, and the         *)
(* database.  What a session has read it keeps, so a refresh overwrites    *)
(* the row from what it saw before the call.                               *)
(*                                                                         *)
(* The database is the shipped one, SQLite: it enforces no foreign key,    *)
(* and a new row gets one more than the largest id in its table, which may *)
(* be the id of a deleted row that a request or the cache still holds.     *)
(***************************************************************************)
EXTENDS Integers, Sequences, Functions

CONSTANTS
    MaxId,       \* bound: ids in products
    MaxRows,     \* bound: ids in product_version_histories
    Urls,        \* URLs of items
    Normal,      \* URLNormalizer.normalize, by URL: query and trailing / go
    Folded,      \* lower(), by URL
    Item,        \* extract_product_id, by URL
    NoItem,      \* a URL that shows no item id
    Requests,    \* requests to /products
    NoId,        \* no product; no cache entry
    NoRow,       \* no row with this id
    NoUrl,       \* a request that works on no URL
    Migrated,    \* URLs of the products from before migration 0010
    MaxCalls,    \* bound: requests
    MaxFaults    \* bound: restarts, and times that a row or an entry expires

ASSUME CatalogAssumption ==
    /\ MaxId \in Nat /\ MaxRows \in Nat
    /\ Normal \in [Urls -> Urls]
    /\ Folded \in [Urls -> Urls]
    /\ \A u \in Urls : Normal[Normal[u]] = Normal[u]
    /\ NoId \notin 1..MaxId /\ NoUrl \notin Urls
    /\ Migrated \in Seq(Urls) /\ Len(Migrated) <= MaxId /\ Len(Migrated) <= MaxRows
    /\ MaxCalls \in Nat
    /\ MaxFaults \in Nat

\* A URL that differs from a normal one in the case of letters only is
\* normalised to one that differs in the case of letters only.
ASSUME NormalAssumption ==
    \A u, v \in Urls :
        Folded[v] = Folded[Normal[u]] =>
            Folded[Normal[v]] = Folded[v] /\ Item[Normal[v]] = Item[v]

Ids    == 1..MaxId
RowIds == 1..MaxRows

VARIABLES
    products,   \* the row of each id
    history,    \* product_version_histories: the row of each id
    ambiguous,  \* ids of products that something else held as they got them
    exposed,    \* products with a history row whose id a deletion held
    cache,      \* InMemoryTTLCache: the id kept for each lower-cased URL
    queued,     \* InMemoryProductRefreshQueue, which nothing takes from
    pc,         \* where each request stands
    source,     \* the URL it was given or has read
    cur,        \* the product it works on
    seen,       \* that product as its session knows it
    answer,     \* the last answer to an import
    calls, faults

tables   == <<products, history, ambiguous, exposed>>
sessions == <<pc, source, cur, seen>>
budgets  == <<calls, faults>>
vars     == <<tables, cache, queued, sessions, answer, budgets>>

\* build_product_fingerprint hashes the item id and the lower-cased URL.
Fingerprint_OfItem(u) == Item[u]   \* mutant: the URL is left out
Fingerprint(u) == <<Item[u], Folded[u]>>

Row == [src : Urls, url : Urls, fp : {Fingerprint(u) : u \in Urls},
        item : {Item[u] : u \in Urls}, version : Nat \ {0}, fresh : BOOLEAN]

Version(i, n) == [product |-> i, version |-> n]
VersionRow == [product : Ids, version : Nat \ {0}]

ASSUME RowAssumption == NoRow \notin Row \cup VersionRow

NoSeen   == [row |-> NoRow, rows |-> {}]
NoAnswer == [asked |-> NoUrl, got |-> NoUrl, sure |-> FALSE]

-----------------------------------------------------------------------------
(* Helpers *)

Stored == {i \in Ids : products[i] # NoRow}

\* The URL and the cache key an import or a refresh uses.
Url_AsGiven(s) == source[s]   \* mutant: not normalised
Url(s) == Normal[source[s]]
CacheKey(u) == Folded[u]

\* The rows upsert_from_provider looks for.
Matching(u) ==
    {i \in Stored : products[i].fp = Fingerprint(u) \/ products[i].url = u}

\* Unique columns: source_url, normalized_url, fingerprint, and marketplace
\* with external_product_id.
Clash_NoFingerprint(i, j) ==   \* mutant: the fingerprint is not unique
    i.src = j.src \/ i.url = j.url \/ (i.item = j.item /\ i.item # NoItem)
Clash(i, j) ==
    \/ i.src = j.src
    \/ i.url = j.url
    \/ i.fp = j.fp
    \/ i.item = j.item /\ i.item # NoItem

Unique(k, row) == \A i \in Stored \ {k} : ~Clash(products[i], row)

NewRow(u) == [src |-> u, url |-> Normal[u], fp |-> Fingerprint(Normal[u]),
              item |-> Item[Normal[u]], version |-> 1, fresh |-> TRUE]

\* Migration 0010 takes the URL as it is.
OldRow(u) == [src |-> u, url |-> u, fp |-> Fingerprint(u), item |-> Item[u],
              version |-> 1, fresh |-> FALSE]

\* The unique columns of migration 0010: without them it does not end.
ASSUME MigratedAssumption ==
    \A i, j \in DOMAIN Migrated : i # j => ~Clash(OldRow(Migrated[i]), OldRow(Migrated[j]))

Latest(S) == IF S = {} THEN 0 ELSE CHOOSE i \in S : \A j \in S : j <= i
NewId    == 1 + Latest(Stored)
NewRowId == 1 + Latest({h \in RowIds : history[h] # NoRow})

\* A cache entry or a request other than s may still use the id.
HeldBesides(s, i) ==
    \/ \E u \in Urls : cache[u] = i
    \/ \E q \in Requests \ {s} : cur[q] = i /\ pc[q] # "drop"

\* _append_version_history.
AddVersion(i, n) ==
    /\ NewRowId \in RowIds
    /\ history' = [history EXCEPT ![NewRowId] = Version(i, n)]
    /\ exposed' = IF \E q \in Requests : pc[q] = "delete" /\ NewRowId \in seen[q].rows
                    THEN exposed \cup {i} ELSE exposed

\* A flush writes the columns that differ from what the session has read.
Written(was, new, now) == IF new = was THEN now ELSE new

Call ==
    /\ calls < MaxCalls
    /\ calls' = calls + 1
    /\ UNCHANGED faults

Fault ==
    /\ faults < MaxFaults
    /\ faults' = faults + 1
    /\ UNCHANGED calls

Goto(s, label) == pc' = [pc EXCEPT ![s] = label]

\* The session ends and forgets.
End(s) ==
    /\ Goto(s, "idle")
    /\ source' = [source EXCEPT ![s] = NoUrl]
    /\ cur'    = [cur EXCEPT ![s] = NoId]
    /\ seen'   = [seen EXCEPT ![s] = NoSeen]

\* get_by_id loads the row with its histories, which matter to a deletion.
See(s, i) == seen' = [seen EXCEPT ![s] = [row |-> products[i], rows |-> {}]]

VersionsOf(i) == {h \in RowIds : history[h] # NoRow /\ history[h].product = i}

Init ==
    /\ products = [i \in Ids |-> IF i \in DOMAIN Migrated THEN OldRow(Migrated[i]) ELSE NoRow]
    /\ history  = [h \in RowIds |-> IF h \in DOMAIN Migrated THEN Version(h, 1) ELSE NoRow]
    /\ ambiguous = {}
    /\ exposed  = {}
    /\ cache  = [u \in Urls |-> NoId]
    /\ queued = {}
    /\ pc     = [s \in Requests |-> "idle"]
    /\ source = [s \in Requests |-> NoUrl]
    /\ cur    = [s \in Requests |-> NoId]
    /\ seen   = [s \in Requests |-> NoSeen]
    /\ answer = NoAnswer
    /\ calls  = 0
    /\ faults = 0

-----------------------------------------------------------------------------
(* import_product *)

Import(s, u) ==
    /\ pc[s] = "idle"
    /\ source' = [source EXCEPT ![s] = u]
    /\ cur'    = [cur EXCEPT ![s] = cache[CacheKey(Normal[u])]]
    /\ Goto(s, IF cur'[s] = NoId THEN "select" ELSE "hit")
    /\ Call
    /\ UNCHANGED <<tables, cache, queued, seen, answer>>

\* The cached id names a row that has not expired: that is the answer.
ServeCached(s) ==
    /\ pc[s] = "hit"
    /\ cur[s] \in Stored
    /\ products[cur[s]].fresh
    /\ answer' = [asked |-> Url(s), got |-> products[cur[s]].url,
                  sure |-> cur[s] \notin ambiguous]
    /\ End(s)
    /\ UNCHANGED <<tables, cache, queued, budgets>>

\* It names none, or one that has expired and stays loaded.
MissCached(s) ==
    /\ pc[s] = "hit"
    /\ IF cur[s] \in Stored
         THEN ~products[cur[s]].fresh /\ See(s, cur[s]) /\ UNCHANGED cur
         ELSE cur' = [cur EXCEPT ![s] = NoId] /\ UNCHANGED seen
    /\ Goto(s, "select")
    /\ UNCHANGED <<tables, cache, queued, source, answer, budgets>>

\* get_valid_by_normalized_url
ServeValid(s) ==
    /\ pc[s] = "select"
    /\ \E i \in Stored :
          /\ products[i].url = Url(s) /\ products[i].fresh
          /\ cur'    = [cur EXCEPT ![s] = i]
          /\ answer' = [asked |-> Url(s), got |-> products[i].url, sure |-> TRUE]
    /\ Goto(s, "fill")
    /\ UNCHANGED <<tables, cache, queued, source, seen, budgets>>

NoneValid(s) ==
    /\ pc[s] = "select"
    /\ \A i \in Stored : products[i].url = Url(s) => ~products[i].fresh
    /\ Goto(s, "fetch")
    /\ UNCHANGED <<tables, cache, queued, source, cur, seen, answer, budgets>>

\* The marketplace refuses or its page cannot be read: 422, 429, 503 or 504.
FetchFails(s) ==
    /\ pc[s] = "fetch"
    /\ End(s)
    /\ UNCHANGED <<tables, cache, queued, answer, budgets>>

-----------------------------------------------------------------------------
(* upsert_from_provider *)

\* The page is read, and then the row it belongs to is looked for.  A row that
\* the session has loaded before comes back as it was.
FindRow(s) ==
    /\ pc[s] = "fetch"
    /\ \E i \in Matching(Url(s)) :
          /\ cur' = [cur EXCEPT ![s] = i]
          /\ IF cur[s] = i THEN UNCHANGED seen ELSE See(s, i)
    /\ Goto(s, "overwrite")
    /\ UNCHANGED <<tables, cache, queued, source, answer, budgets>>

FindNoRow(s) ==
    /\ pc[s] = "fetch"
    /\ Matching(Url(s)) = {}
    /\ Goto(s, "insert")
    /\ UNCHANGED <<tables, cache, queued, source, cur, seen, answer, budgets>>

InsertRow(s) ==
    LET row == NewRow(source[s]) IN
    /\ pc[s] = "insert"
    /\ NewId \in Ids
    /\ Unique(NewId, row)
    /\ products' = [products EXCEPT ![NewId] = row]
    /\ AddVersion(NewId, 1)
    /\ ambiguous' = IF HeldBesides(s, NewId) THEN ambiguous \cup {NewId}
                                             ELSE ambiguous \ {NewId}
    /\ cur'    = [cur EXCEPT ![s] = NewId]
    /\ answer' = [asked |-> Url(s), got |-> row.url, sure |-> TRUE]
    /\ Goto(s, "fill")
    /\ UNCHANGED <<cache, queued, source, seen, budgets>>

\* The row with the provider's data, as the UPDATE leaves it.
Overwritten(s) ==
    LET was == seen[s].row
        new == NewRow(source[s])
        now == products[cur[s]]
    IN [src     |-> Written(was.src, new.src, now.src),
        url     |-> Written(was.url, new.url, now.url),
        fp      |-> Written(was.fp, new.fp, now.fp),
        item    |-> Written(was.item, new.item, now.item),
        version |-> was.version + 1,
        fresh   |-> TRUE]

OverwriteRow_NoHistory(s) ==   \* mutant: a refresh leaves no version behind
    /\ pc[s] = "overwrite"
    /\ cur[s] \in Stored
    /\ Unique(cur[s], Overwritten(s))
    /\ products' = [products EXCEPT ![cur[s]] = Overwritten(s)]
    /\ answer' = [asked |-> Url(s), got |-> Overwritten(s).url,
                  sure |-> cur[s] \notin ambiguous]
    /\ Goto(s, "fill")
    /\ UNCHANGED <<history, ambiguous, exposed, cache, queued, source, cur, seen, budgets>>
OverwriteRow(s) ==
    /\ pc[s] = "overwrite"
    /\ cur[s] \in Stored
    /\ Unique(cur[s], Overwritten(s))
    /\ products' = [products EXCEPT ![cur[s]] = Overwritten(s)]
    /\ AddVersion(cur[s], Overwritten(s).version)
    /\ answer' = [asked |-> Url(s), got |-> Overwritten(s).url,
                  sure |-> cur[s] \notin ambiguous]
    /\ Goto(s, "fill")
    /\ UNCHANGED <<ambiguous, cache, queued, source, cur, seen, budgets>>

\* Another request was first, or another product has the item: IntegrityError.
UpsertRejected(s) ==
    /\ \/ pc[s] = "insert" /\ ~Unique(NewId, NewRow(source[s]))
       \/ pc[s] = "overwrite" /\ cur[s] \in Stored /\ ~Unique(cur[s], Overwritten(s))
    /\ End(s)
    /\ UNCHANGED <<tables, cache, queued, answer, budgets>>

\* The row is deleted between its SELECT and its UPDATE: StaleDataError.
RowGone(s) ==
    /\ pc[s] \in {"overwrite", "edit"}
    /\ cur[s] \notin Stored
    /\ End(s)
    /\ UNCHANGED <<tables, cache, queued, answer, budgets>>

\* The last step of import and refresh.
FillCache_AsGiven(s) ==   \* mutant: kept under the URL as it was given
    /\ pc[s] = "fill"
    /\ cache' = [cache EXCEPT ![CacheKey(source[s])] = cur[s]]
    /\ End(s)
    /\ UNCHANGED <<tables, queued, answer, budgets>>
FillCache(s) ==
    /\ pc[s] = "fill"
    /\ cache' = [cache EXCEPT ![CacheKey(Url(s))] = cur[s]]
    /\ End(s)
    /\ UNCHANGED <<tables, queued, answer, budgets>>

-----------------------------------------------------------------------------
(* refresh_product *)

Refresh(s, i) ==
    /\ pc[s] = "idle" /\ i \in Stored
    /\ See(s, i)
    /\ source' = [source EXCEPT ![s] = products[i].src]
    /\ cur'    = [cur EXCEPT ![s] = i]
    /\ Goto(s, "fetch")
    /\ Call
    /\ UNCHANGED <<tables, cache, queued, answer>>

QueueRefresh(i) ==
    /\ i \in Stored
    /\ queued' = queued \cup {i}
    /\ Call
    /\ UNCHANGED <<tables, cache, sessions, answer>>

-----------------------------------------------------------------------------
(* update_product *)

ReadForEdit(s, i) ==
    /\ pc[s] = "idle" /\ i \in Stored
    /\ See(s, i)
    /\ cur' = [cur EXCEPT ![s] = i]
    /\ Goto(s, "edit")
    /\ Call
    /\ UNCHANGED <<tables, cache, queued, source, answer>>

CommitEdit(s) ==
    LET i == cur[s]
        n == seen[s].row.version + 1
    IN
    /\ pc[s] = "edit" /\ i \in Stored
    /\ products' = [products EXCEPT ![i].version = n]
    /\ AddVersion(i, n)
    /\ source' = [source EXCEPT ![s] = products[i].url]
    /\ Goto(s, "fillEdited")
    /\ UNCHANGED <<ambiguous, cache, queued, cur, seen, answer, budgets>>

\* Here the key is of the stored URL, which an old product has unnormalised.
FillEdited(s) ==
    /\ pc[s] = "fillEdited"
    /\ cache' = [cache EXCEPT ![CacheKey(source[s])] = cur[s]]
    /\ End(s)
    /\ UNCHANGED <<tables, queued, answer, budgets>>

-----------------------------------------------------------------------------
(* delete_product *)

ReadForDelete(s, i) ==
    /\ pc[s] = "idle" /\ i \in Stored
    /\ seen' = [seen EXCEPT ![s] = [row |-> products[i], rows |-> VersionsOf(i)]]
    /\ cur' = [cur EXCEPT ![s] = i]
    /\ Goto(s, "delete")
    /\ Call
    /\ UNCHANGED <<tables, cache, queued, source, answer>>

\* The session deletes the history rows it has loaded, each by its id; others
\* would go by the foreign key, if it was enforced.  A row that is gone is a
\* warning, and one with the id of a row that is gone goes.
DeleteRow(s) ==
    LET i == cur[s] IN
    /\ pc[s] = "delete"
    /\ products' = [products EXCEPT ![i] = NoRow]
    /\ history'  = [h \in RowIds |-> IF h \in seen[s].rows THEN NoRow ELSE history[h]]
    /\ Goto(s, "drop")
    /\ UNCHANGED <<ambiguous, exposed, cache, queued, source, cur, seen, answer, budgets>>

DropEntry(s) ==
    /\ pc[s] = "drop"
    /\ cache' = [cache EXCEPT ![CacheKey(seen[s].row.url)] = NoId]
    /\ End(s)
    /\ UNCHANGED <<tables, queued, answer, budgets>>

-----------------------------------------------------------------------------
(* The environment *)

\* expires_at passes.
RowExpires(i) ==
    /\ i \in Stored /\ products[i].fresh
    /\ products' = [products EXCEPT ![i].fresh = FALSE]
    /\ Fault
    /\ UNCHANGED <<history, ambiguous, exposed, cache, queued, sessions, answer>>

EntryExpires(u) ==
    /\ cache[u] # NoId
    /\ cache' = [cache EXCEPT ![u] = NoId]
    /\ Fault
    /\ UNCHANGED <<tables, queued, sessions, answer>>

\* The server restarts: requests, cache and queue are gone.
Restart ==
    /\ cache'  = [u \in Urls |-> NoId]
    /\ queued' = {}
    /\ pc'     = [s \in Requests |-> "idle"]
    /\ source' = [s \in Requests |-> NoUrl]
    /\ cur'    = [s \in Requests |-> NoId]
    /\ seen'   = [s \in Requests |-> NoSeen]
    /\ Fault
    /\ UNCHANGED <<tables, answer>>

-----------------------------------------------------------------------------
ImportStep(s) ==
    \/ \E u \in Urls : Import(s, u)
    \/ ServeCached(s)
    \/ MissCached(s)
    \/ ServeValid(s)
    \/ NoneValid(s)

UpsertStep(s) ==
    \/ FetchFails(s)
    \/ FindRow(s)
    \/ FindNoRow(s)
    \/ InsertRow(s)
    \/ OverwriteRow(s)
    \/ UpsertRejected(s)
    \/ RowGone(s)
    \/ FillCache(s)

ChangeStep(s) ==
    \/ \E i \in Ids : Refresh(s, i) \/ ReadForEdit(s, i) \/ ReadForDelete(s, i)
    \/ CommitEdit(s)
    \/ FillEdited(s)
    \/ DeleteRow(s)
    \/ DropEntry(s)

Environment ==
    \/ \E i \in Ids : QueueRefresh(i) \/ RowExpires(i)
    \/ \E u \in Urls : EntryExpires(u)
    \/ Restart

Next ==
    \/ \E s \in Requests : ImportStep(s) \/ UpsertStep(s) \/ ChangeStep(s)
    \/ Environment

Spec == Init /\ [][Next]_vars

-----------------------------------------------------------------------------
(* Properties *)

TypeOK ==
    /\ products \in [Ids -> Row \cup {NoRow}]
    /\ history \in [RowIds -> VersionRow \cup {NoRow}]
    /\ ambiguous \subseteq Ids /\ exposed \subseteq Ids
    /\ cache \in [Urls -> Ids \cup {NoId}]
    /\ queued \subseteq Ids
    /\ pc \in [Requests -> {"idle", "hit", "select", "fetch", "insert", "overwrite",
                            "fill", "edit", "fillEdited", "delete", "drop"}]
    /\ source \in [Requests -> Urls \cup {NoUrl}]
    /\ cur \in [Requests -> Ids \cup {NoId}]
    /\ seen \in [Requests -> [row : Row \cup {NoRow}, rows : SUBSET RowIds]]
    /\ answer \in [asked : Urls \cup {NoUrl}, got : Urls \cup {NoUrl}, sure : BOOLEAN]
    /\ calls \in 0..MaxCalls
    /\ faults \in 0..MaxFaults

\* scalar_one_or_none of upsert_from_provider never meets two rows, though it
\* asks for one or the other of two unique columns, unless one of them has got
\* an id that something else held, and may be overwritten by mistake.
LookupIsUnique ==
    \A u \in Urls : \A i, j \in Matching(Normal[u]) \ ambiguous : i = j

\* An id that the cache keeps for a URL is that of a product with this URL, or
\* of no product any more, whatever was imported, refreshed, edited or deleted
\* while a request was on its way to the cache; only an id that was given again
\* while the cache or a request held it may lead to another product.
CacheNamesItsProduct ==
    \A u \in Urls :
        cache[u] \in Stored \ ambiguous => Folded[products[cache[u]].url] = u

\* The answer to an import is the product of the URL asked for, but for a
\* product whose id was given again while something held it.
ImportAnswersUrl ==
    answer.sure => Folded[answer.asked] = Folded[answer.got]

\* Every number up to aggregate_version has a row in product_version_histories,
\* also when two requests number from the same reading; but for a product with
\* an id that something else held, or with a history row whose id a deletion of
\* another product held.
VersionsCovered ==
    \A i \in Stored \ (ambiguous \cup exposed) :
        \A n \in 1..products[i].version : Version(i, n) \in Range(history)

\* A refresh whose product is still there finds it again to write to it, and so
\* does an import of the URL that it came from.  The one exception is a product
\* that migration 0010 has left under a URL that is not normal, and that
\* request is refused: no second product is inserted beside it.
RefreshFindsProduct ==
    \A s \in Requests :
        pc[s] = "insert" /\ cur[s] \in Stored \ ambiguous /\ seen[s].row.src = source[s] =>
            /\ seen[s].row.url = source[s] /\ source[s] # Normal[source[s]]
            /\ ~Unique(NewId, NewRow(source[s]))

=============================================================================
