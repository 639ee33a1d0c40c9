------------------------ MODULE ProductCatalogProofs ------------------------
(***************************************************************************)
(* Proofs about ProductCatalog.  All of them rest on one fact: as long as  *)
(* a row exists its fingerprint does not change, although sessions         *)
(* overwrite it in part and from stale readings.  A row whose id something *)
(* else held when it was inserted is ambiguous, and of it nothing is known *)
(* but that it clashes with no other.                                      *)
(***************************************************************************)
EXTENDS ProductCatalog, FiniteSetTheorems, SequenceTheorems, WellFoundedInduction, TLAPS

-----------------------------------------------------------------------------
(* The inductive invariant *)

Firm    == Stored \ ambiguous
Covered == Firm \ exposed

(* The fingerprint and the item of a row are those of its URL, and no two  *)
(* rows clash.                                                             *)
RowsAgree ==
    /\ \A i \in Firm : /\ products[i].fp = Fingerprint(products[i].url)
                       /\ products[i].item = Item[products[i].url]
    /\ \A i, j \in Stored : i # j => ~Clash(products[i], products[j])

Recorded(i, n) == Version(i, n) \in Range(history)

HistoryCovers == \A i \in Covered : \A n \in 1..products[i].version : Recorded(i, n)

(* What a request has in hand, by where it stands. *)
HasSource(s) == pc[s] \in {"hit", "select", "fetch", "insert", "overwrite", "fill", "fillEdited"}
HasRow(s)    == pc[s] \in {"hit", "overwrite", "fill", "edit", "fillEdited", "delete", "drop"}
HasRead(s)   == \/ pc[s] \in {"overwrite", "edit"}
                \/ pc[s] \in {"select", "fetch", "insert"} /\ cur[s] # NoId

InHand(s) ==
    /\ HasSource(s) => source[s] \in Urls
    /\ HasRow(s) => cur[s] \in Ids
    /\ HasRead(s) => seen[s].row \in Row

(* The versions up to the one it has read are in the history. *)
ReadCovered(s) ==
    HasRead(s) /\ cur[s] \in Covered => \A n \in 1..seen[s].row.version : Recorded(cur[s], n)

(* The history rows it is about to delete are of its product, or of one    *)
(* that is exposed.                                                        *)
DeletesOwn(s) ==
    pc[s] = "delete" =>
        \A h \in seen[s].rows : history[h] # NoRow =>
            history[h].product = cur[s] \/ history[h].product \in exposed

(* The row it is about to write, to cache or to answer has the address it  *)
(* works on.                                                               *)
OnTarget(s) ==
    cur[s] \in Firm =>
        /\ pc[s] = "hit" => Folded[products[cur[s]].url] = Folded[Url(s)]
        /\ pc[s] \in {"overwrite", "fill"} => products[cur[s]].fp = Fingerprint(Url(s))
        /\ pc[s] = "fillEdited" => products[cur[s]].fp = Fingerprint(source[s])

SessionInv(s) == InHand(s) /\ ReadCovered(s) /\ DeletesOwn(s) /\ OnTarget(s)

StoreInv == RowsAgree /\ HistoryCovers

CatalogInv ==
    /\ TypeOK
    /\ StoreInv
    /\ \A s \in Requests : SessionInv(s)
    /\ CacheNamesItsProduct
    /\ ImportAnswersUrl

(* A product is found again from its source URL, or it was migrated under  *)
(* that very URL.                                                          *)
Even(i, row) == Fingerprint(Normal[row.src]) = products[i].fp

SourceAgrees ==
    \A i \in Firm : Even(i, products[i]) \/ products[i].src = products[i].url

(* A request that has read the product it works on knows where it came     *)
(* from, or would find it from either source; and it inserts only if the   *)
(* product does not match.                                                 *)
Refindable(s) ==
    pc[s] \in {"select", "fetch", "insert"} /\ cur[s] \in Firm =>
        LET was == seen[s].row
            now == products[cur[s]]
        IN  /\ \/ was.src = now.src /\ was.url = now.url
               \/ Even(cur[s], was) /\ Even(cur[s], now)
            /\ pc[s] = "insert" => now.fp # Fingerprint(Url(s))

RefreshInv == SourceAgrees /\ \A s \in Requests : Refindable(s)

-----------------------------------------------------------------------------
(* Helpers *)

(* Equal fingerprints have equal items and folded addresses.               *)
LEMMA FingerprintParts ==
    ASSUME NEW u, NEW v
    PROVE  Fingerprint(u) = Fingerprint(v) <=> Item[u] = Item[v] /\ Folded[u] = Folded[v]
    BY DEF Fingerprint

(* Rows are not NoRow. *)
LEMMA NoRowIsNoRow ==
    /\ \A row \in Row : row # NoRow
    /\ \A i \in Ids : \A n \in Nat \ {0} : Version(i, n) \in VersionRow /\ Version(i, n) # NoRow
    BY RowAssumption DEF Version, VersionRow

LEMMA IdsAreNumbers ==
    Ids \subseteq Nat /\ NoId \notin Ids /\ Stored \subseteq Ids /\ Firm \subseteq Stored
    BY CatalogAssumption DEF Ids, Stored, Firm

(* The last of some numbers is not exceeded by any of them. *)
LEMMA LatestIsLast ==
    ASSUME NEW N \in Nat, NEW S \in SUBSET (1..N)
    PROVE  Latest(S) \in Nat /\ \A j \in S : j <= Latest(S)
<1>1. CASE S = {}
    BY <1>1 DEF Latest
<1>2. CASE S # {}
    <2>1. PICK m \in S : TRUE
        BY <1>2
    <2> DEFINE Up(k) == S \cap k..N
               Ups   == {T \in SUBSET (1..N) : T # {} /\ \E k \in Nat : T = Up(k)}
    <2>2. IsWellFoundedOn(StrictSubsetOrdering(1..N), SUBSET (1..N))
        <3>1. IsFiniteSet(1..N)
            BY FS_Interval
        <3> QED BY <3>1, FS_StrictSubsetOrderingWellFounded, FS_FiniteSubsetsOfFinite
    <2>3. Up(m) \in Ups
        BY <2>1
    <2>4. PICK T \in Ups : \A R \in Ups : <<R, T>> \notin StrictSubsetOrdering(1..N)
        <3>1. Ups \subseteq SUBSET (1..N) /\ Ups # {}
            BY <2>3
        <3> HIDE DEF Ups
        <3> QED BY <2>2, <3>1, WFMin
    <2>5. PICK x : x \in T
        OBVIOUS
    <2>6. x \in S /\ x \in Nat
        BY <2>4, <2>5
    <2>7. ASSUME NEW y \in S, x < y PROVE FALSE
        <3>1. PICK k \in Nat : T = Up(k)
            BY <2>4
        <3>2. k <= x /\ y \in Nat
            BY <2>5, <2>6, <3>1
        <3>3. y \in Up(y) /\ x \notin Up(y) /\ Up(y) \subseteq T /\ Up(y) \subseteq 1..N
            BY <2>6, <2>7, <3>1, <3>2
        <3>4. Up(y) \in Ups
            BY <3>2, <3>3
        <3> QED BY <2>4, <2>5, <3>3, <3>4 DEF StrictSubsetOrdering
    <2>8. \A j \in S : j <= x
        BY <2>6, <2>7
    <2>9. Latest(S) = CHOOSE i \in S : \A j \in S : j <= i
        BY <1>2 DEF Latest
    <2>10. Latest(S) \in S /\ \A j \in S : j <= Latest(S)
        BY <2>6, <2>8, <2>9, Zenon
    <2>11. PICK k \in S : k = Latest(S) /\ \A j \in S : j <= k
        BY <2>10
    <2> QED BY <2>11
<1> QED BY <1>1, <1>2

(* A new row takes the place of none. *)
LEMMA NewIdIsNew ==
    NewId \notin Stored
<1>1. Stored \in SUBSET (1..MaxId) /\ MaxId \in Nat
    BY CatalogAssumption DEF Stored, Ids
<1>2. Latest(Stored) \in Nat /\ \A j \in Stored : j <= Latest(Stored)
    BY <1>1, LatestIsLast
<1> QED BY <1>1, <1>2 DEF NewId

LEMMA NewRowIdIsNew ==
    ASSUME NewRowId \in RowIds
    PROVE  history[NewRowId] = NoRow
<1> DEFINE Used == {h \in RowIds : history[h] # NoRow}
<1>1. Used \in SUBSET (1..MaxRows) /\ MaxRows \in Nat
    BY CatalogAssumption DEF RowIds
<1>2. Latest(Used) \in Nat /\ \A j \in Used : j <= Latest(Used)
    BY <1>1, LatestIsLast
<1>3. NewRowId \notin Used
    BY <1>1, <1>2 DEF NewRowId
<1> QED BY <1>3

(* What one more row of the history leaves and adds. *)
LEMMA OneMoreVersion ==
    ASSUME TypeOK, NEW i \in Ids, NEW n \in Nat \ {0}, AddVersion(i, n)
    PROVE  /\ history' \in [RowIds -> VersionRow \cup {NoRow}]
           /\ exposed' \subseteq Ids /\ exposed \subseteq exposed'
           /\ Recorded(i, n)'
           /\ \A j \in Ids, m \in Nat \ {0} : Recorded(j, m) => Recorded(j, m)'
           /\ \A h \in RowIds : history'[h] # history[h] =>
                 /\ history'[h].product = i
                 /\ \A q \in Requests : pc[q] = "delete" /\ h \in seen[q].rows => i \in exposed'
<1>1. PICK r \in RowIds : r = NewRowId /\ history[r] = NoRow
    BY NewRowIdIsNew DEF AddVersion
<1>2. Version(i, n) \in VersionRow /\ Version(i, n) # NoRow /\ Version(i, n).product = i
    BY NoRowIsNoRow DEF Version
<1>3. PICK v \in VersionRow : v = Version(i, n) /\ v # NoRow /\ v.product = i
    BY <1>2
<1>4. /\ history' = [history EXCEPT ![r] = v]
      /\ exposed' = IF \E q \in Requests : pc[q] = "delete" /\ r \in seen[q].rows
                      THEN exposed \cup {i} ELSE exposed
    BY <1>1, <1>3 DEF AddVersion
<1>5. history' \in [RowIds -> VersionRow \cup {NoRow}]
    BY <1>4 DEF TypeOK
<1>6. exposed' \subseteq Ids /\ exposed \subseteq exposed'
    BY <1>4 DEF TypeOK
<1>7. history'[r] = v /\ \A h \in RowIds \ {r} : history'[h] = history[h]
    BY <1>4 DEF TypeOK
<1>8. Recorded(i, n)'
    BY <1>3, <1>5, <1>7 DEF Recorded, Range, Version
<1>9. ASSUME NEW j \in Ids, NEW m \in Nat \ {0}, Recorded(j, m) PROVE Recorded(j, m)'
    <2>1. PICK h \in RowIds : history[h] = Version(j, m)
        BY <1>9 DEF Recorded, Range, TypeOK
    <2>2. h # r
        BY <1>1, <2>1, NoRowIsNoRow
    <2> QED BY <1>5, <1>7, <2>1, <2>2 DEF Recorded, Range, Version
<1>10. ASSUME NEW h \in RowIds, history'[h] # history[h]
       PROVE  /\ history'[h].product = i
              /\ \A q \in Requests : pc[q] = "delete" /\ h \in seen[q].rows => i \in exposed'
    <2>1. h = r
        BY <1>7, <1>10
    <2> QED BY <1>3, <1>4, <1>7, <2>1
<1> QED BY <1>5, <1>6, <1>8, <1>9, <1>10

(* The row made of a page. *)
LEMMA NewRowIsRow ==
    ASSUME NEW u \in Urls
    PROVE  /\ NewRow(u) \in Row
           /\ NewRow(u).src = u /\ NewRow(u).url = Normal[u]
           /\ NewRow(u).fp = Fingerprint(Normal[u])
           /\ NewRow(u).item = Item[Normal[u]]
           /\ NewRow(u).version = 1
<1>1. Normal[u] \in Urls
    BY CatalogAssumption
<1>2. Fingerprint(Normal[u]) \in {Fingerprint(v) : v \in Urls}
    BY <1>1
<1>3. Item[Normal[u]] \in {Item[v] : v \in Urls}
    BY <1>1
<1> QED BY <1>1, <1>2, <1>3 DEF NewRow, Row

(* The row the migration makes of a product. *)
LEMMA OldRowIsRow ==
    ASSUME NEW u \in Urls
    PROVE  /\ OldRow(u) \in Row
           /\ OldRow(u).src = u /\ OldRow(u).url = u
           /\ OldRow(u).fp = Fingerprint(u) /\ OldRow(u).item = Item[u]
           /\ OldRow(u).version = 1
<1>1. Fingerprint(u) \in {Fingerprint(v) : v \in Urls} /\ Item[u] \in {Item[v] : v \in Urls}
    OBVIOUS
<1> QED BY <1>1 DEF OldRow, Row

(* A row as an overwriting session leaves it. *)
LEMMA OverwrittenIsRow ==
    ASSUME TypeOK, NEW s \in Requests, InHand(s), pc[s] = "overwrite", cur[s] \in Stored
    PROVE  /\ Overwritten(s) \in Row
           /\ Overwritten(s).version = seen[s].row.version + 1
           /\ LET new == NewRow(source[s])
                  now == products[cur[s]]
              IN  /\ Overwritten(s).src \in {new.src, now.src}
                  /\ Overwritten(s).url \in {new.url, now.url}
                  /\ new.fp = now.fp => Overwritten(s).fp = now.fp
                  /\ new.item = now.item => Overwritten(s).item = now.item
<1>1. PICK now \in Row : now = products[cur[s]]
    BY DEF TypeOK, Stored
<1>2. PICK was \in Row : was = seen[s].row
    BY DEF InHand, HasRead
<1>3. PICK new \in Row : new = NewRow(source[s])
    BY NewRowIsRow DEF InHand, HasSource
<1>4. PICK row : row = [src     |-> Written(was.src, new.src, now.src),
                        url     |-> Written(was.url, new.url, now.url),
                        fp      |-> Written(was.fp, new.fp, now.fp),
                        item    |-> Written(was.item, new.item, now.item),
                        version |-> was.version + 1,
                        fresh   |-> TRUE]
    OBVIOUS
<1>5. row = Overwritten(s)
    BY <1>1, <1>2, <1>3, <1>4 DEF Overwritten
<1>6. row \in Row /\ row.version = was.version + 1
    BY <1>4 DEF Written, Row
<1>7. /\ row.src \in {new.src, now.src} /\ row.url \in {new.url, now.url}
      /\ new.fp = now.fp => row.fp = now.fp
      /\ new.item = now.item => row.item = now.item
    BY <1>4 DEF Written
<1> QED BY <1>1, <1>2, <1>3, <1>5, <1>6, <1>7

(* If nothing else held its id it keeps its fingerprint. *)
LEMMA OverwrittenKeeps ==
    ASSUME TypeOK, RowsAgree, NEW s \in Requests, InHand(s), OnTarget(s),
           pc[s] = "overwrite", cur[s] \in Firm
    PROVE  /\ Overwritten(s).fp = products[cur[s]].fp
           /\ Overwritten(s).fp = Fingerprint(Overwritten(s).url)
           /\ Overwritten(s).item = Item[Overwritten(s).url]
           /\ Overwritten(s).fp = Fingerprint(Url(s))
<1>1. PICK u \in Urls : u = source[s]
    BY DEF InHand, HasSource
<1>2. PICK new : /\ new = NewRow(source[s]) /\ new.url = Normal[u]
                 /\ new.fp = Fingerprint(Normal[u]) /\ new.item = Item[Normal[u]]
    BY <1>1, NewRowIsRow
<1>3. PICK now : /\ now = products[cur[s]]
                 /\ now.fp = Fingerprint(now.url) /\ now.item = Item[now.url]
                 /\ now.fp = Fingerprint(Normal[u])
    BY <1>1 DEF RowsAgree, OnTarget, Url
<1>4. new.fp = now.fp /\ new.item = now.item
    <2>1. Fingerprint(now.url) = Fingerprint(Normal[u])
        BY <1>3
    <2>2. Item[now.url] = Item[Normal[u]]
        BY <2>1, FingerprintParts
    <2> QED BY <1>2, <1>3, <2>2
<1>5. PICK row : /\ row = Overwritten(s) /\ row.url \in {new.url, now.url}
                 /\ row.fp = now.fp /\ row.item = now.item
    BY <1>2, <1>3, <1>4, OverwrittenIsRow, IdsAreNumbers
<1> QED BY <1>1, <1>2, <1>3, <1>4, <1>5 DEF Url

-----------------------------------------------------------------------------
(* Types *)

LEMMA TypeStart == Init => TypeOK
<1> SUFFICES ASSUME Init PROVE TypeOK
    OBVIOUS
<1>1. Len(Migrated) \in Nat /\ DOMAIN Migrated = 1..Len(Migrated)
      /\ \A i \in DOMAIN Migrated : i \in Ids /\ Migrated[i] \in Urls
    BY CatalogAssumption, LenProperties, ElementOfSeq DEF Ids
<1>2. products \in [Ids -> Row \cup {NoRow}]
    BY <1>1, OldRowIsRow DEF Init
<1>3. history \in [RowIds -> VersionRow \cup {NoRow}]
    <2>1. ASSUME NEW h \in RowIds, h \in DOMAIN Migrated PROVE Version(h, 1) \in VersionRow
        BY <1>1, <2>1, NoRowIsNoRow
    <2> QED BY <2>1 DEF Init
<1>4. calls \in 0..MaxCalls /\ faults \in 0..MaxFaults
    BY CatalogAssumption DEF Init
<1> QED BY <1>2, <1>3, <1>4 DEF Init, TypeOK, NoSeen, NoAnswer

Sessions == [Requests -> [row : Row \cup {NoRow}, rows : SUBSET RowIds]]

LEMMA TypeStep ==
    ASSUME TypeOK, \A s \in Requests : SessionInv(s), [Next]_vars
    PROVE  TypeOK'
<1> USE DEF tables, sessions, budgets
<1>a. ASSUME NEW s \in Requests, End(s)
      PROVE  /\ pc' = [pc EXCEPT ![s] = "idle"] /\ source' \in [Requests -> Urls \cup {NoUrl}]
             /\ cur' \in [Requests -> Ids \cup {NoId}] /\ seen' \in Sessions
    BY <1>a DEF End, Goto, NoSeen, TypeOK, Sessions
<1>b. ASSUME NEW s \in Requests, NEW i \in Ids, See(s, i)
      PROVE  seen' \in Sessions
    BY <1>b DEF See, TypeOK, Sessions
<1>c. ASSUME NEW s \in Requests, HasSource(s)
      PROVE  source[s] \in Urls /\ Url(s) \in Urls /\ CacheKey(Url(s)) \in Urls
    BY <1>c, CatalogAssumption DEF SessionInv, InHand, Url, CacheKey
<1>d. (Call => calls' \in 0..MaxCalls /\ faults' = faults)
      /\ (Fault => faults' \in 0..MaxFaults /\ calls' = calls)
    BY CatalogAssumption DEF Call, Fault, TypeOK
<1>1. ASSUME NEW s \in Requests, NEW u \in Urls, Import(s, u)
      PROVE  TypeOK'
    <2>1. CacheKey(Normal[u]) \in Urls
        BY CatalogAssumption DEF CacheKey
    <2>2. cur' \in [Requests -> Ids \cup {NoId}]
        BY <1>1, <2>1 DEF Import, TypeOK
    <2> QED BY <1>1, <1>d, <2>2 DEF Import, Goto, TypeOK
<1>2. ASSUME NEW s \in Requests, ServeCached(s)
      PROVE  TypeOK'
    <2>1. Url(s) \in Urls /\ products[cur[s]].url \in Urls
        BY <1>2, <1>c DEF ServeCached, HasSource, Stored, TypeOK, Row
    <2> QED BY <1>2, <1>a, <2>1 DEF ServeCached, TypeOK, Sessions
<1>3. ASSUME NEW s \in Requests, MissCached(s)
      PROVE  TypeOK'
    <2>1. seen' \in Sessions
        BY <1>3, <1>b DEF MissCached, Stored, TypeOK, Sessions
    <2> QED BY <1>3, <2>1 DEF MissCached, Goto, TypeOK, Sessions
<1>4. ASSUME NEW s \in Requests, ServeValid(s)
      PROVE  TypeOK'
    <2>1. Url(s) \in Urls
        BY <1>4, <1>c DEF ServeValid, HasSource
    <2>2. PICK i \in Ids : /\ products[i] \in Row
                           /\ cur' = [cur EXCEPT ![s] = i]
                           /\ answer' = [asked |-> Url(s), got |-> products[i].url,
                                         sure |-> TRUE]
        BY <1>4 DEF ServeValid, Stored, TypeOK
    <2>3. products[i].url \in Urls
        BY <2>2 DEF Row
    <2> QED BY <1>4, <2>1, <2>2, <2>3 DEF ServeValid, Goto, TypeOK
<1>5. ASSUME NEW s \in Requests, NoneValid(s) \/ FindNoRow(s)
      PROVE  TypeOK'
    BY <1>5 DEF NoneValid, FindNoRow, Goto, TypeOK
<1>6. ASSUME NEW s \in Requests, FetchFails(s) \/ UpsertRejected(s) \/ RowGone(s)
      PROVE  TypeOK'
    BY <1>6, <1>a DEF FetchFails, UpsertRejected, RowGone, TypeOK, Sessions
<1>7. ASSUME NEW s \in Requests, FindRow(s)
      PROVE  TypeOK'
    <2>1. PICK i \in Ids : /\ cur' = [cur EXCEPT ![s] = i]
                           /\ UNCHANGED seen \/ See(s, i)
        BY <1>7 DEF FindRow, Matching, Stored
    <2>2. seen' \in Sessions
        BY <1>b, <2>1 DEF TypeOK, Sessions
    <2> QED BY <1>7, <2>1, <2>2 DEF FindRow, Goto, TypeOK, Sessions
<1>8. ASSUME NEW s \in Requests, InsertRow(s)
      PROVE  TypeOK'
    <2>1. PICK u \in Urls : u = source[s] /\ NewRow(u) \in Row /\ NewRow(u).url \in Urls
        BY <1>8, <1>c, NewRowIsRow, CatalogAssumption DEF InsertRow, HasSource
    <2>2. PICK n \in Ids : n = NewId
        BY <1>8 DEF InsertRow
    <2>3. PICK row \in Row : row = NewRow(u) /\ row.url \in Urls
        BY <2>1
    <2>4. /\ products' = [products EXCEPT ![n] = row]
          /\ AddVersion(n, 1)
          /\ ambiguous' \in {ambiguous \cup {n}, ambiguous \ {n}}
          /\ cur' = [cur EXCEPT ![s] = n]
          /\ answer' = [asked |-> Url(s), got |-> row.url, sure |-> TRUE]
        BY <1>8, <2>1, <2>2, <2>3 DEF InsertRow
    <2>5. history' \in [RowIds -> VersionRow \cup {NoRow}] /\ exposed' \subseteq Ids
        BY <2>4, OneMoreVersion
    <2>6. Url(s) \in Urls
        BY <1>8, <1>c DEF InsertRow, HasSource
    <2> QED BY <1>8, <2>3, <2>4, <2>5, <2>6 DEF InsertRow, Goto, TypeOK
<1>9. ASSUME NEW s \in Requests, OverwriteRow(s)
      PROVE  TypeOK'
    <2>1. PICK row \in Row : row = Overwritten(s)
        BY <1>9, OverwrittenIsRow DEF OverwriteRow, SessionInv
    <2>2. row.version \in Nat \ {0} /\ row.url \in Urls
        BY DEF Row
    <2>3. cur[s] \in Ids /\ Url(s) \in Urls
        BY <1>9, <1>c DEF OverwriteRow, Stored, HasSource
    <2>4. AddVersion(cur[s], row.version)
        BY <1>9, <2>1 DEF OverwriteRow
    <2>5. history' \in [RowIds -> VersionRow \cup {NoRow}] /\ exposed' \subseteq Ids
        BY <2>2, <2>3, <2>4, OneMoreVersion
    <2> QED BY <1>9, <2>1, <2>2, <2>3, <2>5 DEF OverwriteRow, Goto, TypeOK
<1>10. ASSUME NEW s \in Requests, FillCache(s)
       PROVE  TypeOK'
    BY <1>10, <1>a DEF FillCache, TypeOK, Sessions
<1>11. ASSUME NEW s \in Requests, NEW i \in Ids,
              Refresh(s, i) \/ ReadForEdit(s, i) \/ ReadForDelete(s, i)
       PROVE  TypeOK'
    <2>1. i \in Stored /\ Call
        BY <1>11 DEF Refresh, ReadForEdit, ReadForDelete
    <2>2. products[i].src \in Urls
        BY <2>1 DEF Stored, TypeOK, Row
    <2>3. seen' \in Sessions
        BY <1>11, <1>b DEF Refresh, ReadForEdit, ReadForDelete, VersionsOf, TypeOK, Sessions
    <2>4. /\ \E label \in {"fetch", "edit", "delete"} : pc' = [pc EXCEPT ![s] = label]
          /\ source' = source \/ source' = [source EXCEPT ![s] = products[i].src]
          /\ cur' = [cur EXCEPT ![s] = i]
          /\ UNCHANGED <<tables, cache, queued, answer>>
        BY <1>11 DEF Refresh, ReadForEdit, ReadForDelete, Goto
    <2> QED BY <1>d, <2>1, <2>2, <2>3, <2>4 DEF TypeOK, Sessions
<1>12. ASSUME NEW s \in Requests, CommitEdit(s)
       PROVE  TypeOK'
    <2>1. PICK n \in Nat \ {0} : n = seen[s].row.version + 1
        BY <1>12 DEF CommitEdit, SessionInv, InHand, HasRead, Row
    <2>2. PICK i \in Ids : i = cur[s] /\ products[i] \in Row
        BY <1>12 DEF CommitEdit, Stored, TypeOK
    <2>3. [products[i] EXCEPT !.version = n] \in Row /\ products[i].url \in Urls
        BY <2>2 DEF Row
    <2>4. /\ products' = [products EXCEPT ![i] = [products[i] EXCEPT !.version = n]]
          /\ AddVersion(i, n)
          /\ source' = [source EXCEPT ![s] = products[i].url]
        BY <1>12, <2>1, <2>2 DEF CommitEdit
    <2>5. products' \in [Ids -> Row \cup {NoRow}]
        BY <2>3, <2>4 DEF TypeOK
    <2>6. source' \in [Requests -> Urls \cup {NoUrl}]
        BY <2>3, <2>4 DEF TypeOK
    <2>7. history' \in [RowIds -> VersionRow \cup {NoRow}] /\ exposed' \subseteq Ids
        BY <2>4, OneMoreVersion
    <2>8. /\ pc' = [pc EXCEPT ![s] = "fillEdited"] /\ ambiguous' = ambiguous /\ cache' = cache
          /\ queued' = queued /\ cur' = cur /\ seen' = seen /\ answer' = answer
          /\ calls' = calls /\ faults' = faults
        BY <1>12 DEF CommitEdit, Goto
    <2> QED BY <2>5, <2>6, <2>7, <2>8 DEF TypeOK
<1>13. ASSUME NEW s \in Requests, FillEdited(s)
       PROVE  TypeOK'
    BY <1>13, <1>a DEF FillEdited, TypeOK, Sessions
<1>14. ASSUME NEW s \in Requests, DeleteRow(s)
       PROVE  TypeOK'
    <2>1. history' \in [RowIds -> VersionRow \cup {NoRow}]
        BY <1>14 DEF DeleteRow, TypeOK
    <2>2. /\ products' = [products EXCEPT ![cur[s]] = NoRow]
          /\ pc' = [pc EXCEPT ![s] = "drop"]
          /\ UNCHANGED <<ambiguous, exposed, cache, queued, source, cur, seen, answer, budgets>>
        BY <1>14 DEF DeleteRow, Goto
    <2> QED BY <2>1, <2>2 DEF TypeOK
<1>15. ASSUME NEW s \in Requests, DropEntry(s)
       PROVE  TypeOK'
    BY <1>15, <1>a DEF DropEntry, TypeOK, Sessions
<1>16. ASSUME NEW i \in Ids, QueueRefresh(i)
       PROVE  TypeOK'
    BY <1>16, <1>d DEF QueueRefresh, TypeOK
<1>17. ASSUME NEW i \in Ids, RowExpires(i)
       PROVE  TypeOK'
    <2>1. products[i] \in Row
        BY <1>17 DEF RowExpires, Stored, TypeOK
    <2>2. [products[i] EXCEPT !.fresh = FALSE] \in Row
        BY <2>1 DEF Row
    <2>3. PICK row \in Row : row = [products[i] EXCEPT !.fresh = FALSE]
        BY <2>2
    <2>4. products' = [products EXCEPT ![i] = row]
        BY <1>17, <2>3 DEF RowExpires
    <2>5. Fault /\ UNCHANGED <<history, ambiguous, exposed, cache, queued, sessions, answer>>
        BY <1>17 DEF RowExpires
    <2> QED BY <1>d, <2>4, <2>5 DEF TypeOK
<1>18. ASSUME NEW u \in Urls, EntryExpires(u)
       PROVE  TypeOK'
    BY <1>18, <1>d DEF EntryExpires, TypeOK
<1>19. CASE Restart
    BY <1>19, <1>d DEF Restart, NoSeen, TypeOK
<1>20. CASE UNCHANGED vars
    BY <1>20 DEF vars, TypeOK
<1> QED
    BY <1>1, <1>2, <1>3, <1>4, <1>5, <1>6, <1>7, <1>8, <1>9, <1>10, <1>11, <1>12, <1>13,
       <1>14, <1>15, <1>16, <1>17, <1>18, <1>19, <1>20
       DEF Next, ImportStep, UpsertStep, ChangeStep, Environment

-----------------------------------------------------------------------------
(* The rows *)

(* A row that is there after a step and is firm was so before, and keeps   *)
(* its fingerprint and the versions of its history ...                     *)
Stays(i) ==
    /\ i \in Firm
    /\ products'[i].fp = products[i].fp
    /\ i \in Covered' =>
          i \in Covered /\ \A n \in Nat \ {0} : Recorded(i, n) => Recorded(i, n)'

(* ... or it is new, and its id is unknown to the cache and to all other    *)
(* requests.                                                               *)
GivenOut(i) ==
    /\ i \notin Stored /\ \E u \in Urls : products'[i] = NewRow(u)
    /\ \A u \in Urls : cache[u] # i
    /\ \A q \in Requests : cur[q] = i /\ pc[q] # "drop" => InsertRow(q)

RowsKept == \A i \in Firm' : Stays(i) \/ GivenOut(i)

(* A row of the history that a step writes is none that a deletion holds,  *)
(* or its product is exposed.                                              *)
HistoryKept ==
    /\ exposed \subseteq exposed'
    /\ \A h \in RowIds : history'[h] # history[h] =>
          \/ history'[h] = NoRow
          \/ \A q \in Requests : pc[q] = "delete" /\ h \in seen[q].rows =>
                history'[h].product \in exposed'

StoreHolds == StoreInv' /\ RowsKept /\ HistoryKept

LEMMA RowsSame ==
    ASSUME StoreInv, UNCHANGED tables
    PROVE  StoreHolds
<1>1. /\ products' = products /\ history' = history /\ exposed' = exposed
      /\ Stored' = Stored /\ Firm' = Firm /\ Covered' = Covered
    BY DEF tables, Stored, Firm, Covered
<1>2. \A i, n : Recorded(i, n)' <=> Recorded(i, n)
    BY <1>1 DEF Recorded, Version
<1>3. StoreInv'
    BY <1>1, <1>2 DEF StoreInv, RowsAgree, HistoryCovers
<1>4. RowsKept /\ HistoryKept
    BY <1>1, <1>2 DEF RowsKept, Stays, HistoryKept
<1> QED BY <1>3, <1>4 DEF StoreHolds

LEMMA ClashIsMutual ==
    ASSUME NEW a, NEW b
    PROVE  Clash(a, b) <=> Clash(b, a)
    BY DEF Clash

(* A row written over by one that, if it is firm, has its fingerprint. *)
LEMMA RowReplaced ==
    ASSUME TypeOK, StoreInv, NEW i \in Stored, NEW row \in Row,
           products' = [products EXCEPT ![i] = row], ambiguous' = ambiguous,
           exposed \subseteq exposed',
           \A j \in Ids, n \in Nat \ {0} : Recorded(j, n) => Recorded(j, n)',
           i \in Covered => \A n \in 1..row.version : Recorded(i, n)',
           i \in Firm => /\ row.fp = products[i].fp /\ row.fp = Fingerprint(row.url)
                         /\ row.item = Item[row.url],
           Unique(i, row)
    PROVE  StoreInv' /\ RowsKept
<1>1. row # NoRow /\ i \in Ids
    BY NoRowIsNoRow DEF Stored
<1>2. /\ products'[i] = row
      /\ \A j \in Ids \ {i} : products'[j] = products[j]
    BY <1>1 DEF TypeOK
<1>3. Stored' = Stored /\ Firm' = Firm /\ Covered' \subseteq Covered
    BY <1>1, <1>2 DEF Stored, Firm, Covered
<1>4. RowsAgree'
    <2>1. \A j \in Firm : /\ products'[j].fp = Fingerprint(products'[j].url)
                          /\ products'[j].item = Item[products'[j].url]
        BY <1>2, IdsAreNumbers DEF StoreInv, RowsAgree
    <2>2. \A j \in Stored \ {i} : ~Clash(products'[j], row) /\ ~Clash(row, products'[j])
        BY <1>2, ClashIsMutual DEF Unique, Stored
    <2>3. \A j, k \in Stored : j # k => ~Clash(products'[j], products'[k])
        BY <1>2, <2>2 DEF StoreInv, RowsAgree, Stored
    <2> QED BY <1>3, <2>1, <2>3 DEF RowsAgree
<1>5. HistoryCovers'
    <2>1. ASSUME NEW j \in Covered, j # i
          PROVE  \A n \in 1..products'[j].version : Recorded(j, n)'
        <3>1. j \in Ids /\ products'[j] = products[j] /\ products[j] \in Row
            BY <1>2, <2>1 DEF Covered, Firm, Stored, TypeOK
        <3>2. \A n \in 1..products[j].version : Recorded(j, n) /\ n \in Nat \ {0}
            BY <2>1, <3>1 DEF StoreInv, HistoryCovers, Row
        <3> QED BY <3>1, <3>2
    <2>2. i \in Covered => \A n \in 1..products'[i].version : Recorded(i, n)'
        BY <1>2
    <2>3. \A j \in Covered' : \A n \in 1..products'[j].version : Recorded(j, n)'
        BY <1>3, <2>1, <2>2
    <2> QED BY <2>3 DEF HistoryCovers, Recorded, Version
<1>6. RowsKept
    <2>1. \A j \in Firm : j \in Ids /\ products'[j].fp = products[j].fp
        BY <1>2 DEF Firm, Stored
    <2> QED BY <1>3, <2>1 DEF RowsKept, Stays
<1> QED BY <1>4, <1>5, <1>6 DEF StoreInv

LEMMA HistoryGrows ==
    ASSUME TypeOK, NEW i \in Ids, NEW n \in Nat \ {0}, AddVersion(i, n)
    PROVE  HistoryKept
    BY OneMoreVersion DEF HistoryKept

LEMMA InsertHolds ==
    ASSUME TypeOK, StoreInv, NEW s \in Requests, InHand(s), InsertRow(s)
    PROVE  StoreHolds
<1>1. PICK u \in Urls : u = source[s]
    BY DEF InsertRow, InHand, HasSource
<1>2. PICK row \in Row : /\ row = NewRow(u) /\ row.fp = Fingerprint(row.url)
                         /\ row.item = Item[row.url] /\ row.version = 1
    BY NewRowIsRow
<1>3. PICK n \in Ids : n = NewId
    BY DEF InsertRow
<1>4. /\ Unique(n, row) /\ products' = [products EXCEPT ![n] = row]
      /\ AddVersion(n, 1)
      /\ ambiguous' = IF HeldBesides(s, n) THEN ambiguous \cup {n} ELSE ambiguous \ {n}
    BY <1>1, <1>2, <1>3 DEF InsertRow
<1>5. row # NoRow /\ n \notin Stored
    BY <1>3, NoRowIsNoRow, NewIdIsNew
<1>6. products'[n] = row /\ \A j \in Ids \ {n} : products'[j] = products[j]
    BY <1>4 DEF TypeOK
<1>7. Stored' = Stored \cup {n} /\ Firm' \subseteq Firm \cup {n}
    BY <1>4, <1>5, <1>6 DEF Stored, Firm
<1>8. /\ exposed \subseteq exposed' /\ Recorded(n, 1)' /\ HistoryKept
      /\ \A j \in Ids, m \in Nat \ {0} : Recorded(j, m) => Recorded(j, m)'
    BY <1>4, OneMoreVersion, HistoryGrows
<1>9. RowsAgree'
    <2>1. \A j \in Firm' : /\ products'[j].fp = Fingerprint(products'[j].url)
                           /\ products'[j].item = Item[products'[j].url]
        BY <1>2, <1>5, <1>6, <1>7, IdsAreNumbers DEF StoreInv, RowsAgree
    <2>2. \A j \in Stored : ~Clash(products'[j], row) /\ ~Clash(row, products'[j])
        BY <1>4, <1>5, <1>6, ClashIsMutual DEF Unique, Stored
    <2>3. \A j, k \in Stored' : j # k => ~Clash(products'[j], products'[k])
        BY <1>5, <1>6, <1>7, <2>2 DEF StoreInv, RowsAgree, Stored
    <2> QED BY <2>1, <2>3 DEF RowsAgree
<1>10. ASSUME NEW j \in Firm, j \in Firm'
       PROVE  /\ j \in Ids /\ products'[j] = products[j] /\ products[j] \in Row
              /\ j \in Covered' => j \in Covered
    BY <1>5, <1>6, <1>8, <1>10 DEF Covered, Firm, Stored, TypeOK
<1>11. HistoryCovers'
    <2>1. ASSUME NEW j \in Covered', j # n
          PROVE  \A m \in 1..products'[j].version : Recorded(j, m)'
        <3>1. /\ j \in Ids /\ products'[j] = products[j] /\ products[j] \in Row
              /\ j \in Covered
            BY <1>7, <1>10, <2>1 DEF Covered
        <3>2. \A m \in 1..products[j].version : Recorded(j, m) /\ m \in Nat \ {0}
            BY <3>1 DEF StoreInv, HistoryCovers, Row
        <3> QED BY <1>8, <3>1, <3>2
    <2>2. \A m \in 1..products'[n].version : Recorded(n, m)'
        BY <1>2, <1>6, <1>8
    <2>3. \A j \in Covered' : \A m \in 1..products'[j].version : Recorded(j, m)'
        BY <2>1, <2>2
    <2> QED BY <2>3 DEF HistoryCovers, Recorded, Version
<1>12. RowsKept
    <2>1. ASSUME NEW j \in Firm', j # n PROVE Stays(j)
        BY <1>7, <1>8, <1>10, <2>1 DEF Stays
    <2>2. ASSUME n \in Firm' PROVE GivenOut(n)
        <3>1. ~HeldBesides(s, n)
            BY <1>4, <2>2 DEF Firm
        <3> QED BY <1>2, <1>5, <1>6, <3>1 DEF HeldBesides, GivenOut
    <2> QED BY <2>1, <2>2 DEF RowsKept
<1> QED BY <1>8, <1>9, <1>11, <1>12 DEF StoreHolds, StoreInv

LEMMA OverwriteHolds ==
    ASSUME TypeOK, StoreInv, NEW s \in Requests, SessionInv(s), OverwriteRow(s)
    PROVE  StoreHolds
<1>1. PICK i \in Stored : i = cur[s]
    BY DEF OverwriteRow
<1>2. PICK row \in Row, m \in Nat, n \in Nat \ {0} :
          row = Overwritten(s) /\ m = seen[s].row.version /\ n = m + 1 /\ row.version = n
    BY OverwrittenIsRow DEF OverwriteRow, SessionInv, InHand, HasRead, Row
<1>3. products' = [products EXCEPT ![i] = row] /\ AddVersion(i, n) /\ Unique(i, row)
      /\ ambiguous' = ambiguous /\ i \in Ids
    BY <1>1, <1>2 DEF OverwriteRow, Stored
<1>4. /\ exposed \subseteq exposed' /\ Recorded(i, n)' /\ HistoryKept
      /\ \A j \in Ids, k \in Nat \ {0} : Recorded(j, k) => Recorded(j, k)'
    BY <1>3, OneMoreVersion, HistoryGrows
<1>5. i \in Firm => /\ row.fp = products[i].fp /\ row.fp = Fingerprint(row.url)
                    /\ row.item = Item[row.url]
    BY <1>1, <1>2, OverwrittenKeeps DEF OverwriteRow, StoreInv, SessionInv
<1>6. i \in Covered => \A k \in 1..row.version : Recorded(i, k)'
    <2>1. i \in Covered => \A k \in 1..m : Recorded(i, k)
        BY <1>1, <1>2 DEF OverwriteRow, SessionInv, ReadCovered, HasRead
    <2> QED BY <1>2, <1>3, <1>4, <2>1
<1> QED BY <1>3, <1>4, <1>5, <1>6, RowReplaced DEF StoreHolds

LEMMA EditHolds ==
    ASSUME TypeOK, StoreInv, NEW s \in Requests, SessionInv(s), CommitEdit(s)
    PROVE  StoreHolds
<1>1. PICK i \in Stored, m \in Nat, n \in Nat \ {0} :
          i = cur[s] /\ m = seen[s].row.version /\ n = m + 1
    BY DEF CommitEdit, SessionInv, InHand, HasRead, Row
<1>2. products[i] \in Row /\ i \in Ids
    BY DEF TypeOK, Stored
<1>3. PICK row \in Row : row = [products[i] EXCEPT !.version = n]
    BY <1>2 DEF Row
<1>4. /\ row.src = products[i].src /\ row.url = products[i].url /\ row.fp = products[i].fp
      /\ row.item = products[i].item /\ row.version = n
    BY <1>2, <1>3 DEF Row
<1>5. products' = [products EXCEPT ![i] = row] /\ AddVersion(i, n) /\ ambiguous' = ambiguous
    BY <1>1, <1>3 DEF CommitEdit
<1>6. /\ exposed \subseteq exposed' /\ Recorded(i, n)' /\ HistoryKept
      /\ \A j \in Ids, k \in Nat \ {0} : Recorded(j, k) => Recorded(j, k)'
    BY <1>2, <1>5, OneMoreVersion, HistoryGrows
<1>7. i \in Covered => \A k \in 1..row.version : Recorded(i, k)'
    <2>1. i \in Covered => \A k \in 1..m : Recorded(i, k)
        BY <1>1 DEF CommitEdit, SessionInv, ReadCovered, HasRead
    <2> QED BY <1>1, <1>2, <1>4, <1>6, <2>1
<1>8. Unique(i, row)
    BY <1>4 DEF Unique, Clash, StoreInv, RowsAgree
<1>9. i \in Firm => row.fp = Fingerprint(row.url) /\ row.item = Item[row.url]
    BY <1>4 DEF StoreInv, RowsAgree
<1> QED BY <1>4, <1>5, <1>6, <1>7, <1>8, <1>9, RowReplaced DEF StoreHolds

LEMMA DeleteHolds ==
    ASSUME TypeOK, StoreInv, NEW s \in Requests, SessionInv(s), DeleteRow(s)
    PROVE  StoreHolds
<1>1. PICK i \in Ids : i = cur[s]
    BY DEF DeleteRow, SessionInv, InHand, HasRow
<1>2. /\ products' = [products EXCEPT ![i] = NoRow]
      /\ history' = [h \in RowIds |-> IF h \in seen[s].rows THEN NoRow ELSE history[h]]
      /\ ambiguous' = ambiguous /\ exposed' = exposed /\ pc[s] = "delete"
    BY <1>1 DEF DeleteRow
<1>3. products'[i] = NoRow /\ \A j \in Ids \ {i} : products'[j] = products[j]
    BY <1>2 DEF TypeOK
<1>4. Stored' = Stored \ {i} /\ Firm' = Firm \ {i} /\ Covered' = Covered \ {i}
    BY <1>2, <1>3 DEF Stored, Firm, Covered
<1>5. ASSUME NEW j \in Covered', NEW n \in Nat \ {0}, Recorded(j, n)
      PROVE  Recorded(j, n)'
    <2>1. PICK h \in RowIds : history[h] = Version(j, n)
        BY <1>5 DEF Recorded, Range, TypeOK
    <2>2. Version(j, n) # NoRow /\ Version(j, n).product = j /\ j # i /\ j \notin exposed
        BY <1>4, <1>5, NoRowIsNoRow DEF Version, Covered, Firm, Stored
    <2>3. h \notin seen[s].rows
        BY <1>1, <1>2, <2>1, <2>2 DEF SessionInv, DeletesOwn
    <2>4. history'[h] = Version(j, n)
        BY <1>2, <2>1, <2>3
    <2> QED BY <1>2, <2>4 DEF Recorded, Range, Version
<1>6. RowsAgree'
    BY <1>3, <1>4, IdsAreNumbers DEF StoreInv, RowsAgree
<1>7. HistoryCovers'
    <2>1. ASSUME NEW j \in Covered'
          PROVE  \A n \in 1..products'[j].version : Recorded(j, n)'
        <3>1. j \in Ids \ {i} /\ j \in Covered /\ products[j] \in Row
            BY <1>4 DEF Covered, Firm, Stored, TypeOK
        <3>2. \A n \in 1..products[j].version : Recorded(j, n) /\ n \in Nat \ {0}
            BY <3>1 DEF StoreInv, HistoryCovers, Row
        <3> QED BY <1>3, <1>5, <3>1, <3>2
    <2> QED BY <2>1 DEF HistoryCovers, Recorded, Version
<1>8. RowsKept
    <2>1. ASSUME NEW j \in Firm' PROVE Stays(j)
        <3>1. j \in Firm /\ products'[j] = products[j] /\ (j \in Covered' => j \in Covered)
            BY <1>3, <1>4 DEF Firm, Stored
        <3> QED BY <1>5, <3>1 DEF Stays
    <2> QED BY <2>1 DEF RowsKept
<1>9. HistoryKept
    BY <1>2 DEF HistoryKept
<1> QED BY <1>6, <1>7, <1>8, <1>9 DEF StoreHolds, StoreInv

LEMMA ExpiryHolds ==
    ASSUME TypeOK, StoreInv, NEW i \in Ids, RowExpires(i)
    PROVE  StoreHolds
<1>1. i \in Stored /\ products[i] \in Row
    BY DEF RowExpires, TypeOK, Stored
<1>2. PICK row \in Row : row = [products[i] EXCEPT !.fresh = FALSE]
    BY <1>1 DEF Row
<1>3. /\ row.src = products[i].src /\ row.url = products[i].url /\ row.fp = products[i].fp
      /\ row.item = products[i].item /\ row.version = products[i].version
    BY <1>1, <1>2 DEF Row
<1>4. /\ products' = [products EXCEPT ![i] = row] /\ ambiguous' = ambiguous
      /\ history' = history /\ exposed' = exposed
    BY <1>2 DEF RowExpires
<1>5. \A j, n : Recorded(j, n)' <=> Recorded(j, n)
    BY <1>4 DEF Recorded, Version
<1>6. Unique(i, row)
    BY <1>1, <1>3 DEF Unique, Clash, StoreInv, RowsAgree
<1>7. i \in Firm => row.fp = Fingerprint(row.url) /\ row.item = Item[row.url]
    BY <1>3 DEF StoreInv, RowsAgree
<1>8. i \in Covered => \A n \in 1..row.version : Recorded(i, n)'
    BY <1>3, <1>5 DEF StoreInv, HistoryCovers
<1>9. HistoryKept
    BY <1>4 DEF HistoryKept
<1> QED BY <1>1, <1>3, <1>4, <1>5, <1>6, <1>7, <1>8, <1>9, RowReplaced DEF StoreHolds

LEMMA StoreStep ==
    ASSUME TypeOK, StoreInv, \A s \in Requests : SessionInv(s), [Next]_vars
    PROVE  StoreHolds
<1>1. ASSUME NEW s \in Requests,
             InsertRow(s) \/ OverwriteRow(s) \/ CommitEdit(s) \/ DeleteRow(s)
      PROVE  StoreHolds
    BY <1>1, InsertHolds, OverwriteHolds, EditHolds, DeleteHolds DEF SessionInv
<1>2. ASSUME NEW s \in Requests,
             \/ ImportStep(s)
             \/ FetchFails(s) \/ FindRow(s) \/ FindNoRow(s) \/ UpsertRejected(s) \/ RowGone(s)
             \/ FillCache(s) \/ FillEdited(s) \/ DropEntry(s)
             \/ \E i \in Ids : Refresh(s, i) \/ ReadForEdit(s, i) \/ ReadForDelete(s, i)
      PROVE  UNCHANGED tables
    BY <1>2 DEF ImportStep, Import, ServeCached, MissCached, ServeValid, NoneValid, FetchFails,
                FindRow, FindNoRow, UpsertRejected, RowGone, FillCache, FillEdited, DropEntry,
                Refresh, ReadForEdit, ReadForDelete
<1>3. CASE \/ \E i \in Ids : QueueRefresh(i)
           \/ \E u \in Urls : EntryExpires(u)
           \/ Restart \/ UNCHANGED vars
    BY <1>3, RowsSame DEF QueueRefresh, EntryExpires, Restart, vars
<1> QED
    BY <1>1, <1>2, <1>3, RowsSame, ExpiryHolds
       DEF Next, UpsertStep, ChangeStep, Environment

-----------------------------------------------------------------------------
(* The requests *)

(* The address of a firm row is the same up to the case of its letters. *)
LEMMA StaysThere ==
    ASSUME StoreInv, StoreInv', NEW i \in Firm', Stays(i)
    PROVE  /\ i \in Firm
           /\ products'[i].fp = products[i].fp
           /\ products[i].fp = Fingerprint(products[i].url)
           /\ products'[i].fp = Fingerprint(products'[i].url)
           /\ Folded[products'[i].url] = Folded[products[i].url]
<1>1. i \in Firm /\ products'[i].fp = products[i].fp
    BY DEF Stays
<1>2. products[i].fp = Fingerprint(products[i].url) /\ products'[i].fp = Fingerprint(products'[i].url)
    <2>1. products[i].fp = Fingerprint(products[i].url)
        BY <1>1 DEF StoreInv, RowsAgree
    <2>2. products'[i].fp = Fingerprint(products'[i].url)
        BY DEF StoreInv, RowsAgree, Fingerprint
    <2> QED BY <2>1, <2>2
<1>3. Fingerprint(products'[i].url) = Fingerprint(products[i].url)
    BY <1>1, <1>2
<1> QED BY <1>1, <1>2, <1>3, FingerprintParts

(* The locals of q are as they were. *)
SameLocals(q) ==
    pc'[q] = pc[q] /\ source'[q] = source[q] /\ cur'[q] = cur[q] /\ seen'[q] = seen[q]

(* A request that did nothing still has its product, or waits to drop the  *)
(* entry of one that is gone.                                              *)
LEMMA HolderStays ==
    ASSUME TypeOK, RowsKept, NEW q \in Requests, SameLocals(q), cur[q] \in Firm', pc[q] # "drop"
    PROVE  Stays(cur[q])
<1>1. ASSUME GivenOut(cur[q]) PROVE FALSE
    <2>1. InsertRow(q)
        BY <1>1 DEF GivenOut
    <2>2. pc[q] = "insert" /\ pc'[q] = "fill"
        BY <2>1 DEF InsertRow, Goto, TypeOK
    <2> QED BY <2>2 DEF SameLocals
<1> QED BY <1>1 DEF RowsKept

LEMMA OthersStay ==
    ASSUME TypeOK, TypeOK', StoreInv, StoreHolds, NEW q \in Requests, SessionInv(q), SameLocals(q)
    PROVE  SessionInv(q)'
<1>0. StoreInv' /\ RowsKept /\ HistoryKept
    BY DEF StoreHolds
<1>1. ASSUME cur[q] \in Firm', pc[q] # "drop"
      PROVE  /\ Stays(cur[q]) /\ cur[q] \in Firm
             /\ products'[cur[q]].fp = products[cur[q]].fp
             /\ Folded[products'[cur[q]].url] = Folded[products[cur[q]].url]
    BY <1>0, <1>1, HolderStays, StaysThere
<1>2. InHand(q)'
    BY DEF SessionInv, InHand, HasSource, HasRow, HasRead, SameLocals
<1>3. ReadCovered(q)'
    <2> SUFFICES ASSUME HasRead(q), cur[q] \in Covered', NEW n \in 1..seen[q].row.version
                 PROVE  Recorded(cur[q], n)'
        BY DEF ReadCovered, HasRead, SameLocals, Recorded, Version
    <2>1. cur[q] \in Covered /\ \A m \in Nat \ {0} : Recorded(cur[q], m) => Recorded(cur[q], m)'
        BY <1>1 DEF HasRead, Covered, Stays
    <2>2. n \in Nat \ {0} /\ Recorded(cur[q], n)
        BY <2>1 DEF SessionInv, ReadCovered, InHand, Row
    <2> QED BY <2>1, <2>2
<1>4. DeletesOwn(q)'
    <2> SUFFICES ASSUME pc[q] = "delete", NEW h \in seen[q].rows, history'[h] # NoRow
                 PROVE  history'[h].product = cur[q] \/ history'[h].product \in exposed'
        BY DEF DeletesOwn, SameLocals
    <2>1. h \in RowIds
        BY DEF TypeOK
    <2>2. CASE history'[h] = history[h]
        BY <1>0, <2>1, <2>2 DEF SessionInv, DeletesOwn, HistoryKept
    <2>3. CASE history'[h] # history[h]
        BY <1>0, <2>1, <2>3 DEF HistoryKept
    <2> QED BY <2>2, <2>3
<1>5. Url(q)' = Url(q)
    BY DEF Url, SameLocals
<1>6. OnTarget(q)'
    BY <1>1, <1>5 DEF SessionInv, OnTarget, SameLocals, Fingerprint
<1> QED BY <1>2, <1>3, <1>4, <1>6 DEF SessionInv

(* A request that has ended has nothing to answer for. *)
LEMMA EndedHolds ==
    ASSUME TypeOK, NEW s \in Requests, pc'[s] \in {"idle", "drop"},
           pc'[s] = "drop" => cur'[s] \in Ids
    PROVE  SessionInv(s)'
    BY DEF SessionInv, InHand, ReadCovered, DeletesOwn, OnTarget, HasSource, HasRow, HasRead

(* What a request that has just read a row knows of it. *)
LEMMA SeesCovered ==
    ASSUME TypeOK, StoreInv, NEW s \in Requests, NEW i \in Stored, See(s, i)
    PROVE  /\ seen'[s].row = products[i] /\ seen'[s].row \in Row
           /\ i \in Covered => \A n \in 1..seen'[s].row.version : Recorded(i, n)
<1>1. seen'[s].row = products[i]
    BY DEF See, TypeOK
<1>2. products[i] \in Row
    BY DEF TypeOK, Stored
<1> QED BY <1>1, <1>2 DEF StoreInv, HistoryCovers

Acts(s) == ImportStep(s) \/ UpsertStep(s) \/ ChangeStep(s)

LEMMA OnlyOneActs ==
    ASSUME TypeOK, NEW s \in Requests, Acts(s)
    PROVE  \A q \in Requests \ {s} : SameLocals(q)
<1> USE DEF SameLocals, Goto, TypeOK
<1>1. ASSUME End(s) PROVE \A q \in Requests \ {s} : SameLocals(q)
    BY <1>1 DEF End
<1>2. ASSUME NEW i, See(s, i) PROVE \A q \in Requests \ {s} : seen'[q] = seen[q]
    BY <1>2 DEF See
<1>3. CASE ImportStep(s)
    BY <1>1, <1>2, <1>3 DEF ImportStep, Import, ServeCached, MissCached, ServeValid, NoneValid
<1>4. CASE UpsertStep(s)
    <2>1. CASE FetchFails(s) \/ UpsertRejected(s) \/ RowGone(s) \/ FillCache(s)
        BY <1>1, <2>1 DEF FetchFails, UpsertRejected, RowGone, FillCache
    <2>2. CASE FindRow(s)
        BY <1>2, <2>2 DEF FindRow
    <2>3. CASE FindNoRow(s)
        BY <2>3 DEF FindNoRow
    <2>4. CASE InsertRow(s)
        BY <2>4 DEF InsertRow
    <2>5. CASE OverwriteRow(s)
        BY <2>5 DEF OverwriteRow
    <2> QED BY <1>4, <2>1, <2>2, <2>3, <2>4, <2>5 DEF UpsertStep
<1>5. CASE ChangeStep(s)
    <2>1. CASE \E i \in Ids : Refresh(s, i) \/ ReadForEdit(s, i) \/ ReadForDelete(s, i)
        BY <1>2, <2>1 DEF Refresh, ReadForEdit, ReadForDelete
    <2>2. CASE CommitEdit(s)
        BY <2>2 DEF CommitEdit
    <2>3. CASE DeleteRow(s)
        BY <2>3 DEF DeleteRow
    <2>4. CASE FillEdited(s) \/ DropEntry(s)
        BY <1>1, <2>4 DEF FillEdited, DropEntry
    <2> QED BY <1>5, <2>1, <2>2, <2>3, <2>4 DEF ChangeStep
<1> QED BY <1>3, <1>4, <1>5 DEF Acts

LEMMA ActorHolds ==
    ASSUME TypeOK, TypeOK', StoreInv, StoreHolds, CacheNamesItsProduct,
           NEW s \in Requests, SessionInv(s), Acts(s)
    PROVE  SessionInv(s)'
<1>0. /\ StoreInv' /\ RowsKept
      /\ Stored \subseteq Ids /\ Firm \subseteq Stored /\ Covered \subseteq Firm /\ NoId \notin Ids
      /\ cur[s] \in Ids \cup {NoId}
    BY IdsAreNumbers DEF StoreHolds, TypeOK, Covered
<1>1. ASSUME End(s) PROVE SessionInv(s)'
    <2>1. pc'[s] = "idle"
        BY <1>1 DEF End, Goto, TypeOK
    <2> QED BY <2>1, EndedHolds
<1>2. ASSUME UNCHANGED tables
      PROVE  /\ products' = products /\ history' = history /\ exposed' = exposed
             /\ Stored' = Stored /\ Firm' = Firm /\ Covered' = Covered
             /\ \A i, n : Recorded(i, n)' <=> Recorded(i, n)
    BY <1>2 DEF tables, Stored, Firm, Covered, Recorded, Version
<1>3. ASSUME NEW u \in Urls, Import(s, u) PROVE SessionInv(s)'
    <2>1. PICK k \in Urls, i \in Ids \cup {NoId} : k = Folded[Normal[u]] /\ i = cache[k]
        BY CatalogAssumption DEF TypeOK
    <2>2. /\ source'[s] = u /\ cur'[s] = i
          /\ pc'[s] = IF i = NoId THEN "select" ELSE "hit"
          /\ UNCHANGED tables
        BY <1>3, <2>1 DEF Import, CacheKey, Goto, TypeOK
    <2>3. i \in Firm => Folded[products[i].url] = k
        BY <2>1 DEF CacheNamesItsProduct, Firm
    <2>4. InHand(s)' /\ ReadCovered(s)' /\ DeletesOwn(s)'
        BY <2>2 DEF InHand, ReadCovered, DeletesOwn, HasSource, HasRow, HasRead
    <2>5. OnTarget(s)'
        BY <1>2, <2>1, <2>2, <2>3 DEF OnTarget, Url
    <2> QED BY <2>4, <2>5 DEF SessionInv
<1>4. ASSUME MissCached(s) PROVE SessionInv(s)'
    <2>1. /\ pc'[s] = "select" /\ source'[s] = source[s] /\ UNCHANGED tables
          /\ pc[s] = "hit"
        BY <1>4 DEF MissCached, Goto, TypeOK
    <2>2. source[s] \in Urls
        BY <2>1 DEF SessionInv, InHand, HasSource
    <2>3. CASE cur[s] \in Stored
        <3>1. See(s, cur[s]) /\ cur' = cur
            BY <1>4, <2>3 DEF MissCached
        <3>2. PICK i \in Stored : i = cur[s]
            BY <2>3
        <3>3. /\ seen'[s].row \in Row
              /\ i \in Covered => \A n \in 1..seen'[s].row.version : Recorded(i, n)
            BY <3>1, <3>2, SeesCovered
        <3>4. InHand(s)' /\ DeletesOwn(s)' /\ OnTarget(s)'
            BY <2>1, <2>2, <3>1, <3>3 DEF InHand, HasSource, HasRow, HasRead, DeletesOwn, OnTarget
        <3>5. ReadCovered(s)'
            BY <1>2, <2>1, <3>1, <3>2, <3>3 DEF ReadCovered
        <3> QED BY <3>4, <3>5 DEF SessionInv
    <2>4. CASE cur[s] \notin Stored
        <3>1. cur'[s] = NoId
            BY <1>4, <2>4 DEF MissCached, TypeOK
        <3>2. InHand(s)' /\ ReadCovered(s)' /\ DeletesOwn(s)' /\ OnTarget(s)'
            BY <2>1, <2>2, <3>1
               DEF InHand, HasSource, HasRow, HasRead, ReadCovered, DeletesOwn, OnTarget
        <3> QED BY <3>2 DEF SessionInv
    <2> QED BY <2>3, <2>4
<1>5. ASSUME ServeValid(s) PROVE SessionInv(s)'
    <2>1. PICK i \in Stored : products[i].url = Url(s) /\ cur' = [cur EXCEPT ![s] = i]
        BY <1>5 DEF ServeValid
    <2>2. /\ pc'[s] = "fill" /\ source'[s] = source[s] /\ UNCHANGED tables
          /\ pc[s] = "select" /\ cur'[s] = i
        BY <1>5, <2>1 DEF ServeValid, Goto, TypeOK
    <2>3. i \in Firm => products[i].fp = Fingerprint(Url(s))
        BY <2>1 DEF StoreInv, RowsAgree
    <2>4. InHand(s)' /\ ReadCovered(s)' /\ DeletesOwn(s)' /\ OnTarget(s)'
        BY <1>0, <1>2, <2>2, <2>3
           DEF SessionInv, InHand, HasSource, HasRow, HasRead, ReadCovered, DeletesOwn, OnTarget,
               Url
    <2> QED BY <2>4 DEF SessionInv
<1>6. ASSUME NoneValid(s) \/ FindNoRow(s) PROVE SessionInv(s)'
    <2>1. /\ pc[s] \in {"select", "fetch"} /\ pc'[s] \in {"fetch", "insert"}
          /\ source'[s] = source[s] /\ cur'[s] = cur[s] /\ seen'[s] = seen[s]
          /\ UNCHANGED tables
        BY <1>6 DEF NoneValid, FindNoRow, Goto, TypeOK
    <2>2. InHand(s)' /\ DeletesOwn(s)' /\ OnTarget(s)'
        BY <2>1 DEF SessionInv, InHand, HasSource, HasRow, HasRead, DeletesOwn, OnTarget
    <2>3. ReadCovered(s)'
        BY <1>2, <2>1 DEF SessionInv, ReadCovered, HasRead
    <2> QED BY <2>2, <2>3 DEF SessionInv
<1>7. ASSUME FindRow(s) PROVE SessionInv(s)'
    <2>1. PICK i \in Matching(Url(s)) :
              /\ cur' = [cur EXCEPT ![s] = i]
              /\ IF cur[s] = i THEN UNCHANGED seen ELSE See(s, i)
        BY <1>7 DEF FindRow
    <2>2. /\ pc'[s] = "overwrite" /\ source'[s] = source[s] /\ UNCHANGED tables
          /\ pc[s] = "fetch" /\ cur'[s] = i
        BY <1>7, <2>1 DEF FindRow, Goto, TypeOK
    <2>3. i \in Stored /\ (i \in Firm => products[i].fp = Fingerprint(Url(s)))
        BY DEF Matching, StoreInv, RowsAgree
    <2>4. /\ seen'[s].row \in Row
          /\ i \in Covered => \A n \in 1..seen'[s].row.version : Recorded(i, n)
        <3>1. CASE cur[s] = i
            BY <1>0, <2>1, <2>2, <2>3, <3>1 DEF SessionInv, InHand, ReadCovered, HasRead
        <3>2. CASE cur[s] # i
            BY <2>1, <2>3, <3>2, SeesCovered
        <3> QED BY <3>1, <3>2
    <2>5. InHand(s)' /\ DeletesOwn(s)' /\ OnTarget(s)'
        BY <1>0, <1>2, <2>2, <2>3, <2>4
           DEF SessionInv, InHand, HasSource, HasRow, HasRead, DeletesOwn, OnTarget, Url
    <2>6. ReadCovered(s)'
        BY <1>2, <2>2, <2>4 DEF ReadCovered
    <2> QED BY <2>5, <2>6 DEF SessionInv
<1>8. ASSUME InsertRow(s) PROVE SessionInv(s)'
    <2>1. PICK u \in Urls : u = source[s]
        BY <1>8 DEF InsertRow, SessionInv, InHand, HasSource
    <2>2. PICK row : row = NewRow(u) /\ row.fp = Fingerprint(Normal[u])
        BY NewRowIsRow
    <2>3. PICK n \in Ids : n = NewId
        BY <1>8 DEF InsertRow
    <2>4. products'[n] = row /\ pc'[s] = "fill" /\ source'[s] = u /\ cur'[s] = n
        BY <1>8, <2>1, <2>2, <2>3 DEF InsertRow, Goto, TypeOK
    <2>5. InHand(s)' /\ ReadCovered(s)' /\ DeletesOwn(s)' /\ OnTarget(s)'
        BY <2>2, <2>4
           DEF InHand, HasSource, HasRow, HasRead, ReadCovered, DeletesOwn, OnTarget, Url,
               Fingerprint
    <2> QED BY <2>5 DEF SessionInv
<1>9. ASSUME OverwriteRow(s) PROVE SessionInv(s)'
    <2>1. PICK i \in Stored, row \in Row : i = cur[s] /\ row = Overwritten(s)
        BY <1>9, OverwrittenIsRow DEF OverwriteRow, SessionInv
    <2>2. /\ products'[i] = row /\ pc[s] = "overwrite" /\ pc'[s] = "fill"
          /\ source'[s] = source[s] /\ cur'[s] = i /\ Firm' \subseteq Firm
        BY <1>0, <1>9, <2>1, NoRowIsNoRow DEF OverwriteRow, Goto, TypeOK, Firm, Stored
    <2>3. InHand(s)' /\ ReadCovered(s)' /\ DeletesOwn(s)'
        BY <1>0, <2>2 DEF SessionInv, InHand, HasSource, HasRow, HasRead, ReadCovered, DeletesOwn
    <2>4. i \in Firm => row.fp = Fingerprint(Url(s))
        BY <2>1, <2>2, OverwrittenKeeps DEF SessionInv, StoreInv
    <2>5. OnTarget(s)'
        BY <2>2, <2>4 DEF OnTarget, Url, Fingerprint
    <2> QED BY <2>3, <2>5 DEF SessionInv
<1>10. ASSUME NEW i \in Ids, Refresh(s, i) \/ ReadForEdit(s, i)
       PROVE  SessionInv(s)'
    <2>1. /\ i \in Stored /\ See(s, i) /\ cur'[s] = i /\ UNCHANGED tables
          /\ \/ pc'[s] = "fetch" /\ source'[s] = products[i].src
             \/ pc'[s] = "edit"
        BY <1>10 DEF Refresh, ReadForEdit, Goto, TypeOK
    <2>2. /\ seen'[s].row \in Row
          /\ i \in Covered => \A n \in 1..seen'[s].row.version : Recorded(i, n)
        BY <2>1, SeesCovered
    <2>3. products[i].src \in Urls
        BY <2>1 DEF TypeOK, Stored, Row
    <2>4. InHand(s)' /\ DeletesOwn(s)' /\ OnTarget(s)'
        BY <2>1, <2>2, <2>3 DEF InHand, HasSource, HasRow, HasRead, DeletesOwn, OnTarget
    <2>5. ReadCovered(s)'
        BY <1>2, <2>1, <2>2 DEF ReadCovered
    <2> QED BY <2>4, <2>5 DEF SessionInv
<1>11. ASSUME NEW i \in Ids, ReadForDelete(s, i) PROVE SessionInv(s)'
    <2>1. /\ cur'[s] = i /\ pc'[s] = "delete" /\ seen'[s].rows = VersionsOf(i)
          /\ UNCHANGED tables
        BY <1>11 DEF ReadForDelete, Goto, TypeOK
    <2>2. DeletesOwn(s)'
        BY <1>2, <2>1 DEF DeletesOwn, VersionsOf
    <2>3. InHand(s)' /\ ReadCovered(s)' /\ OnTarget(s)'
        BY <2>1 DEF InHand, HasSource, HasRow, HasRead, ReadCovered, OnTarget
    <2> QED BY <2>2, <2>3 DEF SessionInv
<1>12. ASSUME CommitEdit(s) PROVE SessionInv(s)'
    <2>1. PICK i \in Stored : i = cur[s]
        BY <1>12 DEF CommitEdit
    <2>2. /\ source'[s] = products[i].url /\ cur'[s] = i /\ cur[s] = i
          /\ pc'[s] = "fillEdited" /\ pc[s] = "edit"
        BY <1>12, <2>1 DEF CommitEdit, Goto, TypeOK
    <2>3. products[i].url \in Urls
        BY DEF TypeOK, Stored, Row
    <2>4. i \in Firm' => products'[i].fp = Fingerprint(products[i].url)
        <3>1. ASSUME GivenOut(i) PROVE FALSE
            BY <2>2, <3>1 DEF GivenOut, InsertRow
        <3> QED BY <1>0, <3>1, StaysThere DEF RowsKept
    <2>5. InHand(s)' /\ ReadCovered(s)' /\ DeletesOwn(s)'
        BY <1>0, <2>2, <2>3 DEF InHand, HasSource, HasRow, HasRead, ReadCovered, DeletesOwn
    <2>6. OnTarget(s)'
        BY <2>2, <2>4 DEF OnTarget, Fingerprint
    <2> QED BY <2>5, <2>6 DEF SessionInv
<1>13. ASSUME DeleteRow(s) PROVE SessionInv(s)'
    <2>1. cur[s] \in Ids /\ cur'[s] = cur[s] /\ pc'[s] = "drop"
        BY <1>13 DEF DeleteRow, SessionInv, InHand, HasRow, Goto, TypeOK
    <2> QED BY <2>1, EndedHolds
<1>14. CASE ServeCached(s) \/ FetchFails(s) \/ UpsertRejected(s) \/ RowGone(s) \/ FillCache(s)
            \/ FillEdited(s) \/ DropEntry(s)
    BY <1>1, <1>14 DEF ServeCached, FetchFails, UpsertRejected, RowGone, FillCache, FillEdited,
                       DropEntry
<1> QED
    BY <1>3, <1>4, <1>5, <1>6, <1>7, <1>8, <1>9, <1>10, <1>11, <1>12, <1>13, <1>14
       DEF Acts, ImportStep, UpsertStep, ChangeStep

-----------------------------------------------------------------------------
(* The cache and the answers *)

LEMMA CacheStep ==
    ASSUME TypeOK, TypeOK', StoreInv, StoreHolds, CacheNamesItsProduct,
           \A s \in Requests : SessionInv(s), [Next]_vars
    PROVE  CacheNamesItsProduct'
<1> DEFINE Goal(u) == cache'[u] \in Firm' => Folded[products'[cache'[u]].url] = u
<1> SUFFICES \A u \in Urls : Goal(u)
    BY DEF CacheNamesItsProduct, Firm
<1>0. StoreInv' /\ RowsKept /\ Firm \subseteq Ids /\ Firm' \subseteq Ids /\ NoId \notin Ids
    BY IdsAreNumbers DEF StoreHolds, Firm, Stored
<1>1. ASSUME NEW u \in Urls, cache'[u] = NoId PROVE Goal(u)
    BY <1>0, <1>1
<1>2. ASSUME NEW u \in Urls, NEW i \in Ids, cache'[u] = i, ~GivenOut(i),
             i \in Firm => Folded[products[i].url] = u
      PROVE  Goal(u)
    BY <1>0, <1>2, StaysThere DEF RowsKept
<1>3. ASSUME NEW u \in Urls, cache'[u] = cache[u] PROVE Goal(u)
    <2>1. CASE cache[u] = NoId
        BY <1>1, <1>3, <2>1
    <2>2. CASE cache[u] # NoId
        <3>1. PICK i \in Ids : i = cache[u]
            BY <2>2 DEF TypeOK
        <3>2. ~GivenOut(i) /\ (i \in Firm => Folded[products[i].url] = u)
            BY <3>1 DEF GivenOut, CacheNamesItsProduct, Firm
        <3> QED BY <1>2, <1>3, <3>1, <3>2
    <2> QED BY <2>1, <2>2
<1>4. ASSUME UNCHANGED cache PROVE \A u \in Urls : Goal(u)
    BY <1>3, <1>4
<1>5. ASSUME NEW s \in Requests, NEW k, NEW i \in Ids, i = cur[s],
             pc[s] \in {"fill", "fillEdited"},
             cache' = [cache EXCEPT ![k] = i], i \in Firm => Folded[products[i].url] = k
      PROVE  \A u \in Urls : Goal(u)
    <2>1. ~GivenOut(i)
        BY <1>5 DEF GivenOut, InsertRow
    <2> SUFFICES ASSUME NEW u \in Urls PROVE Goal(u)
        OBVIOUS
    <2>2. CASE u = k
        <3>1. cache'[u] = i
            BY <1>5, <2>2 DEF TypeOK
        <3> QED BY <1>2, <1>5, <2>1, <2>2, <3>1
    <2>3. CASE u # k
        <3>1. cache'[u] = cache[u]
            BY <1>5, <2>3 DEF TypeOK
        <3> QED BY <1>3, <3>1
    <2> QED BY <2>2, <2>3
<1>6. ASSUME NEW s \in Requests, FillCache(s) PROVE \A u \in Urls : Goal(u)
    <2>1. PICK i \in Ids : i = cur[s]
        BY <1>6 DEF FillCache, SessionInv, InHand, HasRow
    <2>2. ASSUME i \in Firm PROVE Folded[products[i].url] = Folded[Url(s)]
        <3>1. products[i].fp = Fingerprint(Url(s)) /\ products[i].fp = Fingerprint(products[i].url)
            BY <1>6, <2>1, <2>2 DEF FillCache, SessionInv, OnTarget, StoreInv, RowsAgree
        <3>2. Fingerprint(products[i].url) = Fingerprint(Url(s))
            BY <3>1
        <3> QED BY <3>2, FingerprintParts
    <2>3. cache' = [cache EXCEPT ![Folded[Url(s)]] = i] /\ pc[s] = "fill"
        BY <1>6, <2>1 DEF FillCache, CacheKey
    <2> QED BY <1>5, <2>1, <2>2, <2>3
<1>7. ASSUME NEW s \in Requests, FillEdited(s) PROVE \A u \in Urls : Goal(u)
    <2>1. PICK i \in Ids : i = cur[s]
        BY <1>7 DEF FillEdited, SessionInv, InHand, HasRow
    <2>2. ASSUME i \in Firm PROVE Folded[products[i].url] = Folded[source[s]]
        <3>1. products[i].fp = Fingerprint(source[s]) /\ products[i].fp = Fingerprint(products[i].url)
            BY <1>7, <2>1, <2>2 DEF FillEdited, SessionInv, OnTarget, StoreInv, RowsAgree
        <3>2. Fingerprint(products[i].url) = Fingerprint(source[s])
            BY <3>1
        <3> QED BY <3>2, FingerprintParts
    <2>3. cache' = [cache EXCEPT ![Folded[source[s]]] = i] /\ pc[s] = "fillEdited"
        BY <1>7, <2>1 DEF FillEdited, CacheKey
    <2> QED BY <1>5, <2>1, <2>2, <2>3
<1>8. ASSUME NEW k, cache' = [cache EXCEPT ![k] = NoId] PROVE \A u \in Urls : Goal(u)
    <2>1. \A u \in Urls : cache'[u] \in {NoId, cache[u]}
        BY <1>8 DEF TypeOK
    <2> QED BY <1>1, <1>3, <2>1
<1>9. CASE (\E s \in Requests : DropEntry(s)) \/ \E u \in Urls : EntryExpires(u)
    BY <1>8, <1>9 DEF DropEntry, EntryExpires
<1>10. CASE Restart
    BY <1>1, <1>10 DEF Restart
<1>11. ASSUME NEW s \in Requests,
              \/ ImportStep(s)
              \/ FetchFails(s) \/ FindRow(s) \/ FindNoRow(s) \/ InsertRow(s) \/ OverwriteRow(s)
              \/ UpsertRejected(s) \/ RowGone(s) \/ CommitEdit(s) \/ DeleteRow(s)
              \/ \E i \in Ids : Refresh(s, i) \/ ReadForEdit(s, i) \/ ReadForDelete(s, i)
       PROVE  UNCHANGED cache
    BY <1>11 DEF ImportStep, Import, ServeCached, MissCached, ServeValid, NoneValid, FetchFails,
                 FindRow, FindNoRow, InsertRow, OverwriteRow, UpsertRejected, RowGone,
                 CommitEdit, DeleteRow, Refresh, ReadForEdit, ReadForDelete
<1>12. CASE (\E i \in Ids : QueueRefresh(i) \/ RowExpires(i)) \/ UNCHANGED vars
    BY <1>4, <1>12 DEF QueueRefresh, RowExpires, vars
<1> HIDE DEF Goal
<1> QED BY <1>4, <1>6, <1>7, <1>9, <1>10, <1>11, <1>12
           DEF Next, UpsertStep, ChangeStep, Environment

(* The answers of the four ways an import can end. *)
LEMMA AnswerStep ==
    ASSUME TypeOK, StoreInv, \A s \in Requests : SessionInv(s), ImportAnswersUrl, [Next]_vars
    PROVE  ImportAnswersUrl'
<1>1. CASE UNCHANGED answer
    BY <1>1 DEF ImportAnswersUrl
<1>2. ASSUME NEW s \in Requests, ServeCached(s) PROVE ImportAnswersUrl'
    <2>1. cur[s] \in Firm => Folded[products[cur[s]].url] = Folded[Url(s)]
        BY <1>2 DEF ServeCached, SessionInv, OnTarget
    <2> QED BY <1>2, <2>1 DEF ServeCached, ImportAnswersUrl, Firm
<1>3. ASSUME NEW s \in Requests, ServeValid(s) PROVE ImportAnswersUrl'
    BY <1>3 DEF ServeValid, ImportAnswersUrl
<1>4. ASSUME NEW s \in Requests, InsertRow(s) PROVE ImportAnswersUrl'
    BY <1>4 DEF InsertRow, NewRow, Url, ImportAnswersUrl
<1>5. ASSUME NEW s \in Requests, OverwriteRow(s) PROVE ImportAnswersUrl'
    <2>1. ASSUME cur[s] \in Firm PROVE Folded[Overwritten(s).url] = Folded[Url(s)]
        <3>1. Fingerprint(Overwritten(s).url) = Fingerprint(Url(s))
            BY <1>5, <2>1, OverwrittenKeeps DEF OverwriteRow, StoreInv, SessionInv
        <3> QED BY <3>1, FingerprintParts
    <2>2. answer' = [asked |-> Url(s), got |-> Overwritten(s).url, sure |-> cur[s] \notin ambiguous]
          /\ cur[s] \in Stored
        BY <1>5 DEF OverwriteRow
    <2> QED BY <2>1, <2>2 DEF ImportAnswersUrl, Firm
<1>6. ASSUME NEW s \in Requests,
             \/ \E u \in Urls : Import(s, u)
             \/ MissCached(s) \/ NoneValid(s)
             \/ FetchFails(s) \/ FindRow(s) \/ FindNoRow(s) \/ UpsertRejected(s) \/ RowGone(s)
             \/ FillCache(s) \/ ChangeStep(s)
      PROVE  UNCHANGED answer
    BY <1>6 DEF Import, MissCached, NoneValid, FetchFails, FindRow, FindNoRow, UpsertRejected,
                RowGone, FillCache, ChangeStep, Refresh, ReadForEdit, ReadForDelete, CommitEdit,
                FillEdited, DeleteRow, DropEntry
<1>7. CASE Environment \/ UNCHANGED vars
    BY <1>1, <1>7 DEF Environment, QueueRefresh, RowExpires, EntryExpires, Restart, vars
<1> QED
    BY <1>1, <1>2, <1>3, <1>4, <1>5, <1>6, <1>7 DEF Next, ImportStep, UpsertStep

-----------------------------------------------------------------------------
(* All together *)

LEMMA RequestsStep ==
    ASSUME TypeOK, TypeOK', StoreInv, StoreHolds, CacheNamesItsProduct,
           \A s \in Requests : SessionInv(s), [Next]_vars
    PROVE  \A q \in Requests : SessionInv(q)'
<1> SUFFICES ASSUME NEW q \in Requests PROVE SessionInv(q)'
    OBVIOUS
<1>1. CASE SameLocals(q)
    BY <1>1, OthersStay
<1>2. CASE Acts(q)
    BY <1>2, ActorHolds
<1>3. ASSUME NEW s \in Requests, Acts(s) PROVE s = q \/ SameLocals(q)
    BY <1>3, OnlyOneActs
<1>4. CASE Restart
    <2>1. pc'[q] = "idle"
        BY <1>4 DEF Restart
    <2> QED BY <2>1, EndedHolds
<1>5. CASE (\E i \in Ids : QueueRefresh(i) \/ RowExpires(i))
           \/ (\E u \in Urls : EntryExpires(u)) \/ UNCHANGED vars
    BY <1>1, <1>5 DEF QueueRefresh, RowExpires, EntryExpires, vars, sessions, SameLocals
<1> QED BY <1>1, <1>2, <1>3, <1>4, <1>5 DEF Next, Environment, Acts

LEMMA CatalogStart == Init => CatalogInv
<1> SUFFICES ASSUME Init PROVE CatalogInv
    OBVIOUS
<1>1. /\ Len(Migrated) \in Nat /\ DOMAIN Migrated = 1..Len(Migrated)
      /\ \A i \in DOMAIN Migrated : i \in Ids /\ i \in RowIds /\ Migrated[i] \in Urls
    BY CatalogAssumption, LenProperties, ElementOfSeq DEF Ids, RowIds
<1>2. \A i \in Stored : i \in DOMAIN Migrated /\ products[i] = OldRow(Migrated[i])
    BY DEF Init, Stored
<1>3. RowsAgree
    BY <1>1, <1>2, IdsAreNumbers, OldRowIsRow, MigratedAssumption DEF RowsAgree
<1>4. HistoryCovers
    <2>1. ASSUME NEW i \in Stored PROVE products[i].version = 1 /\ Recorded(i, 1)
        <3>1. i \in RowIds /\ history[i] = Version(i, 1) /\ DOMAIN history = RowIds
            BY <1>1, <1>2 DEF Init
        <3>2. products[i].version = 1
            BY <1>1, <1>2, OldRowIsRow
        <3> QED BY <3>1, <3>2 DEF Recorded, Range
    <2>2. \A n \in 1..1 : n = 1
        OBVIOUS
    <2> QED BY <2>1, <2>2, Zenon DEF HistoryCovers, Covered, Firm
<1>5. \A s \in Requests : SessionInv(s)
    BY DEF Init, SessionInv, InHand, ReadCovered, DeletesOwn, OnTarget, HasSource, HasRow, HasRead
<1>6. CacheNamesItsProduct /\ ImportAnswersUrl
    BY IdsAreNumbers DEF Init, CacheNamesItsProduct, ImportAnswersUrl, NoAnswer
<1> QED BY <1>3, <1>4, <1>5, <1>6, TypeStart DEF CatalogInv, StoreInv

LEMMA CatalogStep ==
    ASSUME CatalogInv, [Next]_vars
    PROVE  CatalogInv' /\ StoreHolds
<1>1. /\ TypeOK /\ StoreInv /\ CacheNamesItsProduct /\ ImportAnswersUrl
      /\ \A s \in Requests : SessionInv(s)
    BY DEF CatalogInv
<1>2. TypeOK'
    BY <1>1, TypeStep
<1>3. StoreHolds
    BY <1>1, StoreStep
<1>4. \A q \in Requests : SessionInv(q)'
    BY <1>1, <1>2, <1>3, RequestsStep
<1>5. CacheNamesItsProduct'
    BY <1>1, <1>2, <1>3, CacheStep
<1>6. ImportAnswersUrl'
    BY <1>1, AnswerStep
<1> QED BY <1>2, <1>3, <1>4, <1>5, <1>6 DEF CatalogInv, StoreHolds

LEMMA CatalogInvariant == Spec => []CatalogInv
<1>1. CatalogInv /\ [Next]_vars => CatalogInv'
    BY CatalogStep
<1> QED BY <1>1, CatalogStart, PTL DEF Spec

(* Rows, histories, cache and what the requests hold keep their types.     *)
THEOREM TypeCorrect == Spec => []TypeOK
<1>1. CatalogInv => TypeOK
    BY DEF CatalogInv
<1> QED BY <1>1, CatalogInvariant, PTL

(* The query of upsert_from_provider for a fingerprint or a URL does not   *)
(* meet two rows, for the fingerprint of a row is that of its URL and      *)
(* fingerprints are unique; but for a row whose id something else held as  *)
(* it was inserted.                                                        *)
THEOREM OneRowIsFound == Spec => []LookupIsUnique
<1>1. CatalogInv => LookupIsUnique
    <2> SUFFICES ASSUME CatalogInv, NEW u \in Urls, NEW i \in Matching(Normal[u]) \ ambiguous,
                        NEW j \in Matching(Normal[u]) \ ambiguous
                 PROVE  i = j
        BY DEF LookupIsUnique
    <2>1. i \in Firm /\ j \in Firm /\ StoreInv
        BY DEF Matching, Firm, CatalogInv
    <2>2. products[i].fp = Fingerprint(Normal[u]) /\ products[j].fp = Fingerprint(Normal[u])
        BY <2>1 DEF Matching, StoreInv, RowsAgree
    <2> QED BY <2>1, <2>2, IdsAreNumbers DEF StoreInv, RowsAgree, Clash
<1> QED BY <1>1, CatalogInvariant, PTL

(* An entry of the cache leads to a product with its URL or to none, or to *)
(* one that was given an id that the cache or a request still held.        *)
THEOREM CacheLeadsRight == Spec => []CacheNamesItsProduct
<1>1. CatalogInv => CacheNamesItsProduct
    BY DEF CatalogInv
<1> QED BY <1>1, CatalogInvariant, PTL

(* An import is answered with a product of the URL it asked for, but for   *)
(* one whose id something else held as it was inserted.                    *)
THEOREM AnswersFit == Spec => []ImportAnswersUrl
<1>1. CatalogInv => ImportAnswersUrl
    BY DEF CatalogInv
<1> QED BY <1>1, CatalogInvariant, PTL

(* The history of a product holds every version up to its last one, also   *)
(* when requests number theirs from the same reading, and also when the    *)
(* product or a row of its history has the id of a deleted one, unless     *)
(* something held that id.                                                 *)
THEOREM HistoryIsWhole == Spec => []VersionsCovered
<1>1. CatalogInv => VersionsCovered
    BY DEF CatalogInv, StoreInv, HistoryCovers, Covered, Firm, Recorded, VersionsCovered
<1> QED BY <1>1, CatalogInvariant, PTL

-----------------------------------------------------------------------------
(* Refreshing *)

(* A product that migration 0010 left under a URL that is not normal is    *)
(* never what an import or a refresh of another address finds.             *)
LEMMA OverwritesEven ==
    ASSUME CatalogInv, SourceAgrees, NEW s \in Requests, OverwriteRow(s), cur[s] \in Firm
    PROVE  Even(cur[s], products[cur[s]]) /\ Even(cur[s], Overwritten(s))
<1>1. TypeOK /\ RowsAgree /\ InHand(s) /\ OnTarget(s) /\ pc[s] = "overwrite" /\ cur[s] \in Stored
    BY DEF CatalogInv, StoreInv, SessionInv, OverwriteRow
<1>2. PICK now \in Row, u \in Urls : now = products[cur[s]] /\ u = source[s]
    BY <1>1 DEF TypeOK, Stored, InHand, HasSource
<1>3. now.fp = Fingerprint(Normal[u]) /\ now.fp = Fingerprint(now.url) /\ now.url \in Urls
    BY <1>1, <1>2 DEF RowsAgree, OnTarget, Url, Row
<1>4. Fingerprint(Normal[now.url]) = now.fp
    <2>1. Fingerprint(now.url) = Fingerprint(Normal[u])
        BY <1>3
    <2>2. Folded[now.url] = Folded[Normal[u]]
        BY <2>1, FingerprintParts
    <2>3. Folded[Normal[now.url]] = Folded[now.url] /\ Item[Normal[now.url]] = Item[now.url]
        BY <1>2, <1>3, <2>2, NormalAssumption
    <2> QED BY <1>3, <2>3, FingerprintParts
<1>5. Even(cur[s], now)
    BY <1>2, <1>4 DEF SourceAgrees, Even
<1>6. Overwritten(s).src \in {u, now.src}
    BY <1>1, <1>2, OverwrittenIsRow, NewRowIsRow
<1> QED BY <1>2, <1>3, <1>5, <1>6 DEF Even

(* What a step leaves of where a firm product came from. *)
SourceStays(i) ==
    \/ products'[i].src = products[i].src /\ products'[i].url = products[i].url
    \/ Even(i, products[i]) /\ Even(i, products'[i])

LEMMA SourceKept ==
    ASSUME CatalogInv, SourceAgrees, [Next]_vars, NEW i \in Firm, i \in Firm'
    PROVE  SourceStays(i)
<1>1. TypeOK /\ i \in Ids /\ i \in Stored
    BY DEF CatalogInv, Firm, Stored
<1>2. CASE products'[i] = products[i]
    BY <1>2 DEF SourceStays
<1>3. ASSUME NEW s \in Requests, InsertRow(s) PROVE SourceStays(i)
    <2>1. NewId # i /\ products' = [products EXCEPT ![NewId] = NewRow(source[s])]
        BY <1>1, <1>3, NewIdIsNew DEF InsertRow
    <2> QED BY <1>1, <1>2, <2>1 DEF TypeOK
<1>4. ASSUME NEW s \in Requests, OverwriteRow(s) PROVE SourceStays(i)
    <2>1. products' = [products EXCEPT ![cur[s]] = Overwritten(s)]
        BY <1>4 DEF OverwriteRow
    <2>2. CASE i = cur[s]
        BY <1>1, <1>4, <2>1, <2>2, OverwritesEven DEF TypeOK, SourceStays
    <2>3. CASE i # cur[s]
        BY <1>1, <1>2, <2>1, <2>3 DEF TypeOK
    <2> QED BY <2>2, <2>3
<1>5. ASSUME NEW k \in Ids, products[k] \in Row,
             \E n \in Nat : \/ products' = [products EXCEPT ![k].version = n]
                            \/ products' = [products EXCEPT ![k].fresh = FALSE]
      PROVE  SourceStays(i)
    BY <1>1, <1>5 DEF TypeOK, Row, SourceStays
<1>6. ASSUME NEW s \in Requests, CommitEdit(s) PROVE SourceStays(i)
    <2>1. PICK n \in Nat : n = seen[s].row.version + 1
        BY <1>6 DEF CommitEdit, CatalogInv, SessionInv, InHand, HasRead, Row
    <2>2. cur[s] \in Ids /\ products[cur[s]] \in Row
          /\ products' = [products EXCEPT ![cur[s]].version = n]
        BY <1>1, <1>6, <2>1 DEF CommitEdit, Stored, TypeOK
    <2> QED BY <1>5, <2>2
<1>7. ASSUME NEW k \in Ids, RowExpires(k) PROVE SourceStays(i)
    <2>1. products[k] \in Row /\ products' = [products EXCEPT ![k].fresh = FALSE] /\ 0 \in Nat
        BY <1>1, <1>7 DEF RowExpires, Stored, TypeOK
    <2> QED BY <1>5, <2>1
<1>8. ASSUME NEW s \in Requests, DeleteRow(s) PROVE SourceStays(i)
    <2>1. products'[i] # NoRow /\ products' = [products EXCEPT ![cur[s]] = NoRow]
        BY <1>8 DEF DeleteRow, Firm, Stored
    <2> QED BY <1>1, <1>2, <2>1 DEF TypeOK
<1>9. ASSUME NEW s \in Requests,
             \/ ImportStep(s)
             \/ FetchFails(s) \/ FindRow(s) \/ FindNoRow(s) \/ UpsertRejected(s) \/ RowGone(s)
             \/ FillCache(s) \/ FillEdited(s) \/ DropEntry(s)
             \/ \E k \in Ids : Refresh(s, k) \/ ReadForEdit(s, k) \/ ReadForDelete(s, k)
      PROVE  products'[i] = products[i]
    BY <1>9 DEF ImportStep, Import, ServeCached, MissCached, ServeValid, NoneValid, FetchFails,
                FindRow, FindNoRow, UpsertRejected, RowGone, FillCache, FillEdited, DropEntry,
                Refresh, ReadForEdit, ReadForDelete, tables
<1>10. CASE \/ \E k \in Ids : QueueRefresh(k)
            \/ \E u \in Urls : EntryExpires(u)
            \/ Restart \/ UNCHANGED vars
    BY <1>2, <1>10 DEF QueueRefresh, EntryExpires, Restart, vars, tables
<1> QED
    BY <1>2, <1>3, <1>4, <1>6, <1>7, <1>8, <1>9, <1>10
       DEF Next, UpsertStep, ChangeStep, Environment

LEMMA SourceStep ==
    ASSUME CatalogInv, StoreHolds, SourceAgrees, [Next]_vars
    PROVE  SourceAgrees'
<1> SUFFICES ASSUME NEW i \in Firm'
             PROVE  \/ Fingerprint(Normal[products'[i].src]) = products'[i].fp
                    \/ products'[i].src = products'[i].url
    BY DEF SourceAgrees, Even, Fingerprint
<1>1. CASE i \in Firm
    <2>1. SourceStays(i) /\ (Even(i, products[i]) \/ products[i].src = products[i].url)
        BY <1>1, SourceKept DEF SourceAgrees
    <2>2. products'[i].fp = products[i].fp
        BY <1>1, IdsAreNumbers DEF StoreHolds, RowsKept, Stays, GivenOut
    <2> QED BY <2>1, <2>2 DEF SourceStays, Even
<1>2. CASE i \notin Firm
    <2>1. PICK u \in Urls : products'[i] = NewRow(u)
        BY <1>2 DEF StoreHolds, RowsKept, Stays, GivenOut
    <2> QED BY <2>1, NewRowIsRow
<1> QED BY <1>1, <1>2

(* A request that did nothing, while others wrote to its product.          *)
LEMMA RefindableStays ==
    ASSUME CatalogInv, CatalogInv', StoreHolds, RefreshInv, [Next]_vars,
           NEW q \in Requests, SameLocals(q)
    PROVE  Refindable(q)'
<1> DEFINE i   == cur[q]
           was == seen[q].row
<1> SUFFICES ASSUME pc[q] \in {"select", "fetch", "insert"}, i \in Firm'
             PROVE  /\ \/ was.src = products'[i].src /\ was.url = products'[i].url
                       \/ /\ Fingerprint(Normal[was.src]) = products'[i].fp
                          /\ Fingerprint(Normal[products'[i].src]) = products'[i].fp
                    /\ pc[q] = "insert" => products'[i].fp # Fingerprint(Url(q))
    BY DEF Refindable, Even, SameLocals, Url, Fingerprint
<1>1. i \in Firm /\ products'[i].fp = products[i].fp
    BY HolderStays DEF CatalogInv, StoreHolds, Stays
<1>2. SourceStays(i)
    BY <1>1, SourceKept DEF RefreshInv
<1>3. /\ \/ was.src = products[i].src /\ was.url = products[i].url
         \/ Even(i, was) /\ Even(i, products[i])
      /\ pc[q] = "insert" => products[i].fp # Fingerprint(Url(q))
    BY <1>1 DEF RefreshInv, Refindable
<1> QED BY <1>1, <1>2, <1>3 DEF SourceStays, Even

LEMMA RefindStep ==
    ASSUME CatalogInv, CatalogInv', StoreHolds, RefreshInv, [Next]_vars
    PROVE  \A q \in Requests : Refindable(q)'
<1> SUFFICES ASSUME NEW q \in Requests PROVE Refindable(q)'
    OBVIOUS
<1>0. TypeOK /\ TypeOK' /\ Refindable(q)
    BY DEF CatalogInv, RefreshInv
<1>1. CASE SameLocals(q)
    BY <1>1, RefindableStays
<1>2. ASSUME pc'[q] \notin {"select", "fetch", "insert"} \/ cur'[q] = NoId PROVE Refindable(q)'
    <2>1. NoId \notin Firm'
        BY IdsAreNumbers DEF Firm, Stored
    <2> QED BY <1>2, <2>1 DEF Refindable
<1>3. ASSUME UNCHANGED tables
      PROVE  products' = products /\ Firm' = Firm
    BY <1>3 DEF tables, Firm, Stored
<1>4. CASE MissCached(q)
    <2>1. CASE cur[q] \in Stored
        <3>1. /\ See(q, cur[q]) /\ cur' = cur /\ UNCHANGED tables /\ pc'[q] = "select"
            BY <1>0, <1>4, <2>1 DEF MissCached, Goto, TypeOK
        <3>2. seen'[q].row = products[cur[q]]
            BY <1>0, <3>1 DEF See, TypeOK
        <3> QED BY <1>3, <3>1, <3>2 DEF Refindable
    <2>2. CASE cur[q] \notin Stored
        BY <1>0, <1>2, <1>4, <2>2 DEF MissCached, TypeOK
    <2> QED BY <2>1, <2>2
<1>5. CASE NoneValid(q) \/ FindNoRow(q)
    <2>1. /\ pc[q] \in {"select", "fetch"} /\ pc'[q] \in {"fetch", "insert"}
          /\ source' = source /\ cur' = cur /\ seen' = seen /\ UNCHANGED tables
          /\ pc'[q] = "insert" => Matching(Url(q)) = {}
        BY <1>0, <1>5 DEF NoneValid, FindNoRow, Goto, TypeOK
    <2>2. pc'[q] = "insert" /\ cur[q] \in Firm => products[cur[q]].fp # Fingerprint(Url(q))
        BY <2>1 DEF Matching, Firm
    <2> QED BY <1>0, <1>3, <2>1, <2>2 DEF Refindable, Even, Url, Fingerprint
<1>6. ASSUME NEW i \in Ids, Refresh(q, i) PROVE Refindable(q)'
    <2>1. See(q, i) /\ cur'[q] = i /\ UNCHANGED tables /\ pc'[q] = "fetch"
        BY <1>0, <1>6 DEF Refresh, Goto, TypeOK
    <2>2. seen'[q].row = products[i]
        BY <1>0, <2>1 DEF See, TypeOK
    <2> QED BY <1>3, <2>1, <2>2 DEF Refindable
<1>7. CASE \/ \E u \in Urls : Import(q, u)
           \/ ServeCached(q) \/ ServeValid(q) \/ FetchFails(q) \/ FindRow(q) \/ InsertRow(q)
           \/ OverwriteRow(q) \/ UpsertRejected(q) \/ RowGone(q) \/ FillCache(q)
           \/ (\E i \in Ids : ReadForEdit(q, i) \/ ReadForDelete(q, i))
           \/ CommitEdit(q) \/ FillEdited(q) \/ DeleteRow(q) \/ DropEntry(q)
    <2>1. CASE \E u \in Urls : Import(q, u)
        BY <1>0, <1>2, <2>1 DEF Import, Goto, TypeOK
    <2>2. ASSUME End(q) PROVE Refindable(q)'
        BY <1>0, <1>2, <2>2 DEF End, Goto, TypeOK
    <2>3. CASE ServeCached(q) \/ FetchFails(q) \/ UpsertRejected(q) \/ RowGone(q) \/ FillCache(q)
               \/ FillEdited(q) \/ DropEntry(q)
        BY <2>2, <2>3 DEF ServeCached, FetchFails, UpsertRejected, RowGone, FillCache, FillEdited,
                          DropEntry
    <2>4. CASE ServeValid(q) \/ FindRow(q) \/ InsertRow(q) \/ OverwriteRow(q) \/ CommitEdit(q)
               \/ DeleteRow(q) \/ \E i \in Ids : ReadForEdit(q, i) \/ ReadForDelete(q, i)
        <3>1. \E label \in {"fill", "overwrite", "fillEdited", "drop", "edit", "delete"} :
                  Goto(q, label)
            BY <2>4 DEF ServeValid, FindRow, InsertRow, OverwriteRow, CommitEdit, DeleteRow,
                        ReadForEdit, ReadForDelete
        <3>2. pc'[q] \notin {"select", "fetch", "insert"}
            BY <1>0, <3>1 DEF Goto, TypeOK
        <3> QED BY <1>2, <3>2
    <2> QED BY <1>7, <2>1, <2>3, <2>4
<1>8. CASE Acts(q)
    BY <1>4, <1>5, <1>6, <1>7, <1>8 DEF Acts, ImportStep, UpsertStep, ChangeStep
<1>9. ASSUME NEW s \in Requests, Acts(s) PROVE s = q \/ SameLocals(q)
    BY <1>0, <1>9, OnlyOneActs
<1>10. CASE Restart
    BY <1>2, <1>10 DEF Restart
<1>11. CASE (\E i \in Ids : QueueRefresh(i) \/ RowExpires(i))
            \/ (\E u \in Urls : EntryExpires(u)) \/ UNCHANGED vars
    BY <1>1, <1>11 DEF QueueRefresh, RowExpires, EntryExpires, vars, sessions, SameLocals
<1> QED BY <1>1, <1>8, <1>9, <1>10, <1>11 DEF Next, Environment, Acts

LEMMA RefindsOrRefuses ==
    ASSUME CatalogInv, RefreshInv
    PROVE  RefreshFindsProduct
<1> SUFFICES ASSUME NEW s \in Requests, pc[s] = "insert", cur[s] \in Firm,
                    seen[s].row.src = source[s]
             PROVE  /\ seen[s].row.url = source[s] /\ source[s] # Normal[source[s]]
                    /\ ~Unique(NewId, NewRow(source[s]))
    BY DEF RefreshFindsProduct, Firm
<1>1. PICK u \in Urls : u = source[s]
    BY DEF CatalogInv, SessionInv, InHand, HasSource
<1>2. PICK now, was : now = products[cur[s]] /\ was = seen[s].row /\ was.src = u
    BY <1>1
<1>3. now.fp # Fingerprint(Normal[u])
    BY <1>1, <1>2 DEF RefreshInv, Refindable, Url
<1>4. was.src = now.src /\ was.url = now.url
    BY <1>2, <1>3 DEF RefreshInv, Refindable, Even
<1>5. now.src = now.url
    BY <1>2, <1>3, <1>4 DEF RefreshInv, SourceAgrees, Even
<1>6. now.fp = Fingerprint(now.url)
    BY <1>2 DEF CatalogInv, StoreInv, RowsAgree
<1>7. u # Normal[u]
    BY <1>2, <1>3, <1>4, <1>5, <1>6
<1>8. cur[s] \in Stored \ {NewId} /\ Clash(now, NewRow(u))
    BY <1>2, <1>4, NewIdIsNew, NewRowIsRow, IdsAreNumbers DEF Clash
<1> QED BY <1>1, <1>2, <1>4, <1>5, <1>7, <1>8 DEF Unique

(* A refresh, or an import that has met the expired product of its URL,    *)
(* finds the product again instead of inserting a second one.  Where the   *)
(* product was migrated under a URL that is not normal it does not, and    *)
(* the insertion is refused.                                               *)
THEOREM RefreshFindsItsRow == Spec => []RefreshFindsProduct
<1>1. Init => RefreshInv
    <2> SUFFICES ASSUME Init PROVE RefreshInv
        OBVIOUS
    <2>1. \A i \in DOMAIN Migrated : Migrated[i] \in Urls
        BY CatalogAssumption, ElementOfSeq, LenProperties
    <2>2. \A i \in Stored : i \in DOMAIN Migrated /\ products[i] = OldRow(Migrated[i])
        BY DEF Init, Stored
    <2>3. SourceAgrees
        BY <2>1, <2>2, OldRowIsRow, IdsAreNumbers DEF SourceAgrees
    <2>4. \A s \in Requests : Refindable(s)
        BY DEF Init, Refindable
    <2> QED BY <2>3, <2>4 DEF RefreshInv
<1>2. CatalogInv /\ CatalogInv' /\ RefreshInv /\ [Next]_vars => RefreshInv'
    BY CatalogStep, SourceStep, RefindStep DEF RefreshInv
<1>3. CatalogInv /\ RefreshInv => RefreshFindsProduct
    BY RefindsOrRefuses
<1> QED BY <1>1, <1>2, <1>3, CatalogInvariant, PTL DEF Spec

=============================================================================
