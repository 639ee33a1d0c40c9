------------------------ MODULE ImageVersionsProofs ------------------------
(***************************************************************************)
(* The versions of an image form a log of distinct pictures, for any       *)
(* number of requests, pictures and images.  The search for a duplicate    *)
(* and the insertion are not one transaction; what closes the gap is that  *)
(* a request numbers its version from the read it made before the search,  *)
(* so that the unique constraint refuses it when anything was added since. *)
(***************************************************************************)
EXTENDS ImageVersions, FiniteSetTheorems, WellFoundedInduction, SequenceTheorems, TLAPS

-----------------------------------------------------------------------------
(* Sums: SumFunctionOnSet, which the model counts the costs with, for every *)
(* finite set.  The library defines it by a recursive function that takes   *)
(* the elements away in an arbitrary order, which does not matter: each of  *)
(* its steps takes as many things off a heap as the element counts for, so  *)
(* that the heap has as many things as the sum says.                        *)

\* f[x] things for each x of S.
Heap(f, S) == {thing \in S \X Nat : thing[2] \in 1 .. f[thing[1]]}

LEMMA HeapGrows ==
    ASSUME NEW f, NEW S, NEW x \in S, f[x] \in Nat, IsFiniteSet(Heap(f, S \ {x}))
    PROVE  /\ IsFiniteSet(Heap(f, S))
           /\ Cardinality(Heap(f, S)) = f[x] + Cardinality(Heap(f, S \ {x}))
<1> DEFINE own == {x} \X (1 .. f[x])
           rest == Heap(f, S \ {x})
<1>1. IsFiniteSet(own) /\ Cardinality(own) = f[x]
  <2>1. IsFiniteSet({x}) /\ Cardinality({x}) = 1
    BY FS_Singleton
  <2>2. IsFiniteSet(1 .. f[x]) /\ Cardinality(1 .. f[x]) = f[x]
    BY FS_Interval
  <2>3. /\ IsFiniteSet({x} \X (1 .. f[x]))
        /\ Cardinality({x} \X (1 .. f[x])) = Cardinality({x}) * Cardinality(1 .. f[x])
    BY <2>1, <2>2, FS_Product
  <2>4. QED
    BY <2>1, <2>2, <2>3
<1>2. Heap(f, S) = rest \cup own /\ rest \cap own = {}
  BY DEF Heap
<1>3. IsFiniteSet(rest) /\ Cardinality(rest) \in Nat
  BY FS_CardinalityType
<1> HIDE DEF own, rest
<1>4. /\ IsFiniteSet(rest \cup own)
      /\ Cardinality(rest \cup own) = Cardinality(rest) + Cardinality(own) - Cardinality(rest \cap own)
  BY <1>1, <1>3, FS_Union
<1>5. Cardinality(rest \cap own) = 0
  BY <1>2, FS_EmptySet
<1>6. Cardinality(rest) + Cardinality(own) - 0 = f[x] + Cardinality(rest)
  BY <1>1, <1>3
<1>7. QED
  BY <1>2, <1>4, <1>5, <1>6 DEF rest

\* A set of subsets of a finite set has a member of which it has no part.
LEMMA Smallest ==
    ASSUME NEW S, IsFiniteSet(S), NEW T \in SUBSET (SUBSET S), T # {}
    PROVE  \E s \in T : \A x \in s : s \ {x} \notin T
<1>1. IsWellFoundedOn(StrictSubsetOrdering(S), SUBSET S)
  BY FS_StrictSubsetOrderingWellFounded, FS_FiniteSubsetsOfFinite
<1>2. PICK s \in T : \A t \in T : <<t, s>> \notin StrictSubsetOrdering(S)
  BY <1>1, WFMin
<1>3. ASSUME NEW x \in s PROVE s \ {x} \notin T
  <2>1. s \ {x} \in SUBSET S /\ s \in SUBSET S /\ s \ {x} # s
    BY <1>3
  <2>2. <<s \ {x}, s>> \in StrictSubsetOrdering(S)
    BY <2>1 DEF StrictSubsetOrdering
  <2>3. QED
    BY <1>2, <2>2
<1>4. QED
  BY <1>2, <1>3

LEMMA HeapIsFinite ==
    ASSUME NEW S, IsFiniteSet(S), NEW f, \A x \in S : f[x] \in Nat
    PROVE  \A s \in SUBSET S : IsFiniteSet(Heap(f, s))
<1> DEFINE Bad == {s \in SUBSET S : ~IsFiniteSet(Heap(f, s))}
<1> SUFFICES ASSUME Bad # {} PROVE FALSE
  OBVIOUS
<1>1. PICK s \in Bad : \A x \in s : s \ {x} \notin Bad
  BY Smallest
<1>2. CASE s = {}
  <2>1. Heap(f, s) = {}
    BY <1>2 DEF Heap
  <2>2. QED
    BY <2>1, FS_EmptySet
<1>3. CASE s # {}
  <2>1. PICK x \in s : TRUE
    BY <1>3
  <2>2. s \ {x} \notin Bad
    BY <1>1
  <2>3. QED
    BY <2>2, HeapGrows
<1>4. QED
  BY <1>2, <1>3

LEMMA SumIsHeap ==
    ASSUME NEW S, IsFiniteSet(S), NEW f, \A x \in S : f[x] \in Nat
    PROVE  SumFunctionOnSet(f, S) = Cardinality(Heap(f, S))
<1> DEFINE Takes(g) == g = [s \in SUBSET S |->
                               IF s = {} THEN 0
                               ELSE LET x == CHOOSE y \in s : TRUE IN f[x] + g[s \ {x}]]
           sum  == CHOOSE g : Takes(g)
           heap == [s \in SUBSET S |-> Cardinality(Heap(f, s))]
           Bad  == {s \in SUBSET S : sum[s] # heap[s]}
<1>1. SumFunctionOnSet(f, S) = sum[S]
  BY DEF SumFunctionOnSet, FoldFunctionOnSet, MapThenFoldSet
<1>2. Takes(heap)
  <2>1. ASSUME NEW s \in SUBSET S, s # {}
        PROVE  LET x == CHOOSE y \in s : TRUE IN heap[s] = f[x] + heap[s \ {x}]
    <3> DEFINE x == CHOOSE y \in s : TRUE
    <3>1. x \in s
      BY <2>1
    <3> HIDE DEF x
    <3>2. IsFiniteSet(Heap(f, s \ {x})) /\ s \ {x} \in SUBSET S /\ f[x] \in Nat
      BY <3>1, HeapIsFinite
    <3>3. Cardinality(Heap(f, s)) = f[x] + Cardinality(Heap(f, s \ {x}))
      BY <3>1, <3>2, HeapGrows
    <3>4. heap[s] = f[x] + heap[s \ {x}]
      BY <3>2, <3>3
    <3>5. QED
      BY <3>4 DEF x
  <2>2. ASSUME NEW s \in SUBSET S, s = {} PROVE heap[s] = 0
    BY <2>2, FS_EmptySet, Heap(f, s) = {} DEF Heap
  <2>3. QED
    BY <2>1, <2>2
<1>3. Takes(sum)
  BY <1>2
<1>4. Bad = {}
  <2> SUFFICES ASSUME Bad # {} PROVE FALSE
    OBVIOUS
  <2>1. PICK s \in Bad : \A x \in s : s \ {x} \notin Bad
    BY Smallest
  <2>2. CASE s = {}
    BY <1>2, <1>3, <2>2
  <2>3. CASE s # {}
    <3> DEFINE x == CHOOSE y \in s : TRUE
    <3>1. x \in s
      BY <2>3
    <3>2. s \ {x} \notin Bad /\ s \ {x} \in SUBSET S
      <4> HIDE DEF x, sum, heap
      <4>1. QED
        BY <2>1, <3>1
    <3>3. sum[s] = f[x] + sum[s \ {x}]
      BY <1>3, <2>3
    <3>4. heap[s] = f[x] + heap[s \ {x}]
      BY <1>2, <2>3
    <3>5. QED
      BY <3>2, <3>3, <3>4
  <2>4. QED
    BY <2>2, <2>3
<1>5. QED
  BY <1>1, <1>4

(* What the proofs below use *)

LEMMA SumOfNone == ASSUME NEW f PROVE SumFunctionOnSet(f, {}) = 0
<1>1. IsFiniteSet({}) /\ Cardinality({}) = 0
  BY FS_EmptySet
<1>2. Heap(f, {}) = {}
  BY DEF Heap
<1>3. SumFunctionOnSet(f, {}) = Cardinality(Heap(f, {}))
  BY <1>1, SumIsHeap
<1>4. QED
  BY <1>1, <1>2, <1>3

\* A sum is a number, and only the values over its set count.
LEMMA SumOfSame ==
    ASSUME NEW S, IsFiniteSet(S), NEW f, \A x \in S : f[x] \in Nat,
           NEW g, \A x \in S : g[x] = f[x]
    PROVE  SumFunctionOnSet(f, S) \in Nat /\ SumFunctionOnSet(g, S) = SumFunctionOnSet(f, S)
<1>1. Heap(f, S) = Heap(g, S)
  BY DEF Heap
<1>2. IsFiniteSet(Heap(f, S)) /\ Cardinality(Heap(f, S)) \in Nat
  BY HeapIsFinite, FS_CardinalityType
<1>3. SumFunctionOnSet(f, S) = Cardinality(Heap(f, S))
  BY SumIsHeap
<1>4. SumFunctionOnSet(g, S) = Cardinality(Heap(g, S))
  BY SumIsHeap
<1>5. QED
  BY <1>1, <1>2, <1>3, <1>4

LEMMA SumOfOneMore ==
    ASSUME NEW S, IsFiniteSet(S), NEW x, x \notin S, NEW f, \A y \in S \cup {x} : f[y] \in Nat
    PROVE  SumFunctionOnSet(f, S \cup {x}) = SumFunctionOnSet(f, S) + f[x]
<1>1. IsFiniteSet(S \cup {x})
  BY FS_AddElement
<1>2. (S \cup {x}) \ {x} = S
  OBVIOUS
<1>3. IsFiniteSet(Heap(f, S)) /\ Cardinality(Heap(f, S)) \in Nat
  BY HeapIsFinite, FS_CardinalityType
<1>4. Cardinality(Heap(f, S \cup {x})) = f[x] + Cardinality(Heap(f, S))
  <2> DEFINE T == S \cup {x}
  <2>1. x \in T /\ f[x] \in Nat /\ Heap(f, T \ {x}) = Heap(f, S)
    BY <1>2
  <2> HIDE DEF T
  <2>2. Cardinality(Heap(f, T)) = f[x] + Cardinality(Heap(f, T \ {x}))
    BY <1>3, <2>1, HeapGrows
  <2>3. QED
    BY <2>1, <2>2 DEF T
<1>5. SumFunctionOnSet(f, S) = Cardinality(Heap(f, S))
  BY SumIsHeap
<1>6. SumFunctionOnSet(f, S \cup {x}) = Cardinality(Heap(f, S \cup {x}))
  BY <1>1, SumIsHeap
<1>7. QED
  BY <1>3, <1>4, <1>5, <1>6

-----------------------------------------------------------------------------
(* The invariant *)

\* A request that has read an image and not yet added its version.
Regenerating(s) == pc[s] \in {"first", "variation", "store", "insert"}

\* Versions are numbered without gaps.
Numbered == \A i \in Images : DOMAIN rows[i] = 1 .. current[i]

Distinct ==
    \A i \in Images : \A u, v \in DOMAIN rows[i] : rows[i][u].hash = rows[i][v].hash => u = v

\* What a request has read is a beginning of what is stored now.
ReadsPrefix ==
    \A s \in Requests :
        Regenerating(s) => /\ cur[s] \in Images
                           /\ \E n \in Nat : n <= current[cur[s]] /\ DOMAIN seen[s].rows = 1 .. n

\* The picture a request is about to add is none of those it knew of.
ResultIsNew ==
    \A s \in Requests :
        pc[s] \in {"store", "insert"} =>
            /\ result[s] \in Row
            /\ \A v \in DOMAIN seen[s].rows : rows[cur[s]][v].hash # result[s].hash

AtWork == \A s \in Requests : pc[s] = "history" => cur[s] \in Images

ImageInv == TypeOK /\ Numbered /\ Distinct /\ ReadsPrefix /\ ResultIsNew /\ AtWork

-----------------------------------------------------------------------------
(* Numbers *)

\* After of an initial segment is the next number.
LEMMA AfterSegment ==
    ASSUME NEW n \in Nat
    PROVE  After(1 .. n) = n + 1
<1>1. CASE n = 0
  BY <1>1 DEF After
<1>2. CASE n # 0
  <2>1. n \in 1 .. n /\ \A u \in 1 .. n : u <= n
    BY <1>2
  <2>2. \A v \in 1 .. n : (\A u \in 1 .. n : u <= v) => v = n
    BY <2>1
  <2>3. (CHOOSE v \in 1 .. n : \A u \in 1 .. n : u <= v) = n
    BY <2>1, <2>2
  <2>4. QED
    BY <1>2, <2>3 DEF After
<1>3. QED
  BY <1>1, <1>2

LEMMA NoRowsIsRows == IsRows(NoRows) /\ DOMAIN NoRows = {} /\ NoRows = [v \in {} |-> NoPicture]
    BY DEF IsRows, NoRows

\* A request that inserts has read all there is.
LEMMA InsertsNext ==
    ASSUME ImageInv, NEW s \in Requests, pc[s] = "insert",
           NextVersion(s) \notin DOMAIN rows[cur[s]]
    PROVE  /\ cur[s] \in Images
           /\ NextVersion(s) = current[cur[s]] + 1
           /\ DOMAIN seen[s].rows = 1 .. current[cur[s]]
           /\ DOMAIN rows[cur[s]] = 1 .. current[cur[s]]
<1>1. cur[s] \in Images /\ current[cur[s]] \in Nat
  BY DEF ImageInv, ReadsPrefix, Regenerating, TypeOK
<1>2. PICK n \in Nat : n <= current[cur[s]] /\ DOMAIN seen[s].rows = 1 .. n
  BY DEF ImageInv, ReadsPrefix, Regenerating
<1>3. NextVersion(s) = n + 1
  BY <1>2, AfterSegment DEF NextVersion
<1>4. DOMAIN rows[cur[s]] = 1 .. current[cur[s]]
  BY <1>1 DEF ImageInv, Numbered
<1>5. n = current[cur[s]]
  BY <1>1, <1>2, <1>3, <1>4
<1>6. QED
  BY <1>1, <1>2, <1>3, <1>4, <1>5

-----------------------------------------------------------------------------
(* The invariant *)

LEMMA InitInv == Init => ImageInv
<1> SUFFICES ASSUME Init PROVE ImageInv
  OBVIOUS
<1>1. TypeOK
  BY NoRowsIsRows, ImageAssumption DEF Init, TypeOK, NoSeen
<1>2. QED
  BY <1>1, NoRowsIsRows
  DEF Init, ImageInv, Numbered, Distinct, ReadsPrefix, ResultIsNew, AtWork, Regenerating

\* A request ends without touching the rows of its image.
LEMMA RestartInv ==
    ASSUME ImageInv, NEW s \in Requests, Restart(s), UNCHANGED <<rows, current, total>>,
           history' \in [Images -> Nat], file' \in [Images -> Pictures \cup {NoPicture}],
           calls' \in Nat, faults' \in Nat
    PROVE  ImageInv'
<1>1. TypeOK'
  BY NoRowsIsRows DEF ImageInv, TypeOK, Restart, NoSeen, IsRows
<1>2. Numbered' /\ Distinct'
  BY DEF ImageInv, Numbered, Distinct
<1>3. ReadsPrefix' /\ ResultIsNew' /\ AtWork'
  BY DEF ImageInv, TypeOK, Restart, ReadsPrefix, ResultIsNew, AtWork, Regenerating
<1>4. QED
  BY <1>1, <1>2, <1>3 DEF ImageInv

LEMMA AddHistoryInv ==
    ASSUME ImageInv, NEW s \in Requests, AddHistory(s)
    PROVE  ImageInv'
<1>1. history' \in [Images -> Nat]
  BY DEF ImageInv, TypeOK, AddHistory, AtWork
<1>2. QED
  BY <1>1, RestartInv DEF ImageInv, TypeOK, AddHistory, budgets

LEMMA EndInv ==
    ASSUME ImageInv, NEW s \in Requests,
           ProvidersFail(s) \/ RejectDuplicate(s) \/ VersionTaken(s) \/ Abort(s)
    PROVE  ImageInv'
<1>1. Restart(s) /\ UNCHANGED <<rows, current, total, history, file>>
  BY DEF ProvidersFail, RejectDuplicate, VersionTaken, Abort, tables
<1>2. calls' \in Nat /\ faults' \in Nat
  BY DEF ImageInv, TypeOK, ProvidersFail, RejectDuplicate, VersionTaken, Abort, Fault, budgets
<1>3. QED
  BY <1>1, <1>2, RestartInv DEF ImageInv, TypeOK

LEMMA GenerateInv ==
    ASSUME ImageInv, NEW s \in Requests, NEW i \in Images, Generate(s, i)
    PROVE  ImageInv'
<1>1. PICK p \in Pictures, c \in Costs :
         /\ rows'  = [rows EXCEPT ![i] = [v \in {1} |-> [hash |-> p, cost |-> c]]]
         /\ total' = [total EXCEPT ![i] = c]
         /\ file'  = [file EXCEPT ![i] = p]
  BY DEF Generate
<1>2. c \in Nat
  BY ImageAssumption
<1>3. /\ DOMAIN rows' = Images
      /\ rows'[i] = [v \in {1} |-> [hash |-> p, cost |-> c]]
      /\ \A k \in Images : k # i => rows'[k] = rows[k]
  BY <1>1 DEF ImageInv, TypeOK
<1>4. IsRows(rows'[i])
  BY <1>2, <1>3 DEF IsRows, Row
<1>5. \A k \in Images : IsRows(rows'[k])
  <2>1. ASSUME NEW k \in Images, k # i PROVE IsRows(rows'[k])
    BY <1>3, <2>1 DEF ImageInv, TypeOK
  <2>2. QED
    BY <1>4, <2>1
<1>6. TypeOK'
  BY <1>1, <1>2, <1>3, <1>5 DEF ImageInv, TypeOK, Generate, Call
<1>7. current[i] = 0 /\ current' = [current EXCEPT ![i] = 1]
  <2>1. DOMAIN rows[i] = {} /\ DOMAIN rows[i] = 1 .. current[i]
    BY NoRowsIsRows DEF Generate, ImageInv, Numbered
  <2>2. current[i] \in Nat /\ 1 \notin 1 .. current[i]
    BY <2>1 DEF ImageInv, TypeOK
  <2>3. QED
    BY <2>2 DEF Generate
<1>8. Numbered'
  <2>1. DOMAIN rows'[i] = 1 .. 1
    BY <1>3
  <2>2. QED
    BY <1>3, <1>7, <2>1 DEF ImageInv, TypeOK, Numbered
<1>9. Distinct'
  <2>1. \A u, v \in DOMAIN rows'[i] : u = v
    BY <1>3
  <2>2. QED
    BY <1>3, <2>1 DEF ImageInv, Distinct
<1>10. \A r \in Requests : Regenerating(r)' => /\ Regenerating(r) /\ r # s /\ cur'[r] = cur[r]
                                               /\ seen'[r] = seen[r] /\ result'[r] = result[r]
  BY DEF ImageInv, TypeOK, Generate, Regenerating
<1>11. ReadsPrefix'
  <2>1. \A k \in Images : current'[k] >= current[k]
    BY <1>7 DEF ImageInv, TypeOK
  <2>2. ASSUME NEW r \in Requests, Regenerating(r)'
        PROVE  /\ cur'[r] \in Images
               /\ \E n \in Nat : n <= current'[cur'[r]] /\ DOMAIN seen'[r].rows = 1 .. n
    <3>1. Regenerating(r) /\ cur'[r] = cur[r] /\ seen'[r] = seen[r]
      BY <1>10, <2>2
    <3>2. cur[r] \in Images
      BY <3>1 DEF ImageInv, ReadsPrefix
    <3>3. PICK n \in Nat : n <= current[cur[r]] /\ DOMAIN seen[r].rows = 1 .. n
      BY <3>1 DEF ImageInv, ReadsPrefix
    <3>4. current[cur[r]] \in Nat /\ current'[cur[r]] \in Nat
      BY <1>6, <3>2 DEF ImageInv, TypeOK
    <3>5. n <= current'[cur[r]]
      BY <2>1, <3>2, <3>3, <3>4
    <3>6. QED
      BY <3>1, <3>2, <3>3, <3>5
  <2>3. QED
    BY <2>2 DEF ReadsPrefix
<1>12. ResultIsNew'
  <2>1. ASSUME NEW r \in Requests, pc'[r] \in {"store", "insert"}
        PROVE  /\ result'[r] \in Row
               /\ \A v \in DOMAIN seen'[r].rows : rows'[cur'[r]][v].hash # result'[r].hash
    <3>1. Regenerating(r)' /\ pc[r] = pc'[r]
      BY <2>1 DEF Regenerating, ImageInv, TypeOK, Generate
    <3>2. cur'[r] = cur[r] /\ seen'[r] = seen[r] /\ result'[r] = result[r] /\ Regenerating(r)
      BY <1>10, <3>1
    <3>3. result[r] \in Row /\ \A v \in DOMAIN seen[r].rows : rows[cur[r]][v].hash # result[r].hash
      BY <2>1, <3>1 DEF ImageInv, ResultIsNew
    <3>4. cur[r] \in Images
      BY <3>2 DEF ImageInv, ReadsPrefix
    <3>5. CASE cur[r] = i
      <4>1. DOMAIN seen[r].rows = {}
        BY <1>7, <3>2, <3>5 DEF ImageInv, ReadsPrefix
      <4>2. QED
        BY <3>2, <3>3, <4>1
    <3>6. CASE cur[r] # i
      BY <1>3, <3>2, <3>3, <3>4, <3>6
    <3>7. QED
      BY <3>5, <3>6
  <2>2. QED
    BY <2>1 DEF ResultIsNew
<1>13. AtWork'
  BY DEF ImageInv, TypeOK, Generate, AtWork
<1>14. QED
  BY <1>6, <1>8, <1>9, <1>11, <1>12, <1>13 DEF ImageInv

\* A request keeps its reads, or moves on, while the stored rows do not change.
LEMMA SameRowsInv ==
    ASSUME ImageInv, TypeOK', NEW s \in Requests, UNCHANGED <<rows, current>>,
           \A r \in Requests \ {s} : /\ pc'[r] = pc[r] /\ cur'[r] = cur[r]
                                     /\ seen'[r] = seen[r] /\ result'[r] = result[r],
           Regenerating(s)' =>
               /\ cur'[s] \in Images
               /\ \E n \in Nat : n <= current[cur'[s]] /\ DOMAIN seen'[s].rows = 1 .. n,
           pc'[s] \in {"store", "insert"} =>
               /\ result'[s] \in Row
               /\ \A v \in DOMAIN seen'[s].rows : rows[cur'[s]][v].hash # result'[s].hash,
           pc'[s] # "history"
    PROVE  ImageInv'
<1>1. Numbered' /\ Distinct'
  BY DEF ImageInv, Numbered, Distinct
<1>2. ReadsPrefix'
  BY DEF ImageInv, ReadsPrefix, Regenerating
<1>3. ResultIsNew'
  BY DEF ImageInv, ResultIsNew
<1>4. AtWork'
  BY DEF ImageInv, AtWork
<1>5. QED
  BY <1>1, <1>2, <1>3, <1>4 DEF ImageInv

LEMMA ReadInv ==
    ASSUME ImageInv, NEW s \in Requests, NEW i \in Images, ReadImage(s, i)
    PROVE  ImageInv'
<1>1. seen' = [seen EXCEPT ![s] = [rows |-> rows[i], total |-> total[i]]]
  BY DEF ReadImage
<1>2. /\ seen'[s].rows = rows[i] /\ seen'[s].total = total[i]
      /\ \A r \in Requests \ {s} : seen'[r] = seen[r]
  BY <1>1 DEF ImageInv, TypeOK
<1>3. TypeOK'
  BY <1>1, <1>2 DEF ImageInv, TypeOK, ReadImage, tables, Call
<1>4. current[i] \in Nat /\ DOMAIN seen'[s].rows = 1 .. current[i]
  BY <1>2 DEF ImageInv, TypeOK, Numbered
<1>5. cur'[s] = i /\ pc'[s] = "first"
  BY DEF ImageInv, TypeOK, ReadImage
<1>6. \A r \in Requests \ {s} : pc'[r] = pc[r] /\ cur'[r] = cur[r] /\ result'[r] = result[r]
  BY DEF ImageInv, TypeOK, ReadImage
<1>7. UNCHANGED <<rows, current>>
  BY DEF ReadImage, tables
<1>8. QED
  BY <1>2, <1>3, <1>4, <1>5, <1>6, <1>7, SameRowsInv

LEMMA NewPictureInv ==
    ASSUME ImageInv, NEW s \in Requests, NewPicture(s)
    PROVE  ImageInv'
<1>1. PICK p \in Pictures, c \in Costs :
         ~Duplicate(s, p) /\ result' = [result EXCEPT ![s] = [hash |-> p, cost |-> c]]
  BY DEF NewPicture
<1>2. result'[s] = [hash |-> p, cost |-> c] /\ result'[s] \in Row
  BY <1>1, ImageAssumption DEF ImageInv, TypeOK, Row
<1>3. UNCHANGED <<rows, current, cur, seen>> /\ pc'[s] = "store"
  BY DEF ImageInv, TypeOK, NewPicture, tables
<1>4. TypeOK'
  BY <1>1, <1>2, <1>3 DEF ImageInv, TypeOK, NewPicture, tables, budgets
<1>5. /\ cur[s] \in Images
      /\ \E n \in Nat : n <= current[cur[s]] /\ DOMAIN seen[s].rows = 1 .. n
  BY DEF ImageInv, ReadsPrefix, Regenerating, NewPicture
<1>6. DOMAIN seen[s].rows \subseteq DOMAIN rows[cur[s]]
  <2>1. PICK n \in Nat : n <= current[cur[s]] /\ DOMAIN seen[s].rows = 1 .. n
    BY <1>5
  <2>2. current[cur[s]] \in Nat /\ DOMAIN rows[cur[s]] = 1 .. current[cur[s]]
    BY <1>5 DEF ImageInv, TypeOK, Numbered
  <2>3. QED
    BY <2>1, <2>2
<1>7. \A v \in DOMAIN seen[s].rows : rows[cur[s]][v].hash # result'[s].hash
  BY <1>1, <1>2, <1>6 DEF Duplicate
<1>8. \A r \in Requests \ {s} : pc'[r] = pc[r] /\ result'[r] = result[r]
  BY <1>1 DEF ImageInv, TypeOK, NewPicture
<1>9. QED
  BY <1>2, <1>3, <1>4, <1>5, <1>7, <1>8, SameRowsInv

LEMMA TurnInv ==
    ASSUME ImageInv, NEW s \in Requests, AskVariation(s) \/ StoreOutputs(s)
    PROVE  ImageInv'
<1>1. UNCHANGED <<tables, cur, seen, result, budgets>>
  BY DEF AskVariation, StoreOutputs
<1>2. /\ Regenerating(s) /\ Regenerating(s)' /\ pc'[s] # "history"
      /\ pc'[s] \in {"store", "insert"} => pc[s] = "store"
      /\ \A r \in Requests \ {s} : pc'[r] = pc[r]
  BY DEF ImageInv, TypeOK, AskVariation, StoreOutputs, Regenerating
<1>3. cur[s] \in Images
  BY <1>2 DEF ImageInv, ReadsPrefix
<1>4. file' \in [Images -> Pictures \cup {NoPicture}]
  <2>1. CASE AskVariation(s)
    BY <2>1 DEF ImageInv, TypeOK, AskVariation
  <2>2. CASE StoreOutputs(s)
    <3>1. result[s].hash \in Pictures
      BY <2>2 DEF ImageInv, ResultIsNew, StoreOutputs, Row
    <3>2. QED
      BY <2>2, <3>1 DEF ImageInv, TypeOK, StoreOutputs
  <2>3. QED
    BY <2>1, <2>2
<1>5. TypeOK'
  BY <1>1, <1>4 DEF ImageInv, TypeOK, AskVariation, StoreOutputs, tables, budgets
<1>6. \E n \in Nat : n <= current[cur[s]] /\ DOMAIN seen[s].rows = 1 .. n
  BY <1>2 DEF ImageInv, ReadsPrefix
<1>7. pc'[s] \in {"store", "insert"} =>
         /\ result[s] \in Row
         /\ \A v \in DOMAIN seen[s].rows : rows[cur[s]][v].hash # result[s].hash
  BY <1>2 DEF ImageInv, ResultIsNew
<1>8. QED
  BY <1>1, <1>2, <1>3, <1>5, <1>6, <1>7, SameRowsInv DEF tables

LEMMA GenerateFailsInv ==
    ASSUME ImageInv, NEW i \in Images, GenerateFails(i)
    PROVE  ImageInv'
<1>1. TypeOK'
  BY DEF ImageInv, TypeOK, GenerateFails, Fault, tables, sessions
<1>2. UNCHANGED <<rows, current, pc, cur, seen, result>>
  BY DEF GenerateFails, tables, sessions
<1>3. QED
  BY <1>1, <1>2
  DEF ImageInv, Numbered, Distinct, ReadsPrefix, ResultIsNew, AtWork, Regenerating

\* What an insertion does to the rows of its image.
LEMMA InsertRows ==
    ASSUME ImageInv, NEW s \in Requests, InsertVersion(s)
    PROVE  LET i == cur[s]
               n == current[i] + 1
           IN  /\ i \in Images /\ current[i] \in Nat /\ result[s] \in Row
               /\ DOMAIN rows[i] = 1 .. current[i] /\ DOMAIN rows'[i] = 1 .. n
               /\ rows'[i][n] = result[s]
               /\ \A v \in 1 .. current[i] : rows'[i][v] = rows[i][v]
               /\ \A v \in 1 .. current[i] : rows[i][v].hash # result[s].hash
               /\ rows'[i] = [v \in 1 .. n |-> IF v = n THEN result[s] ELSE rows[i][v]]
               /\ DOMAIN rows' = Images
               /\ \A k \in Images : k # i => rows'[k] = rows[k]
               /\ current' = [current EXCEPT ![i] = n]
<1> DEFINE i == cur[s]
           n == current[i] + 1
<1>1. pc[s] = "insert" /\ NextVersion(s) \notin DOMAIN rows[i]
  BY DEF InsertVersion
<1>2. /\ i \in Images /\ NextVersion(s) = n
      /\ DOMAIN seen[s].rows = 1 .. current[i] /\ DOMAIN rows[i] = 1 .. current[i]
  BY <1>1, InsertsNext
<1>3. current[i] \in Nat /\ result[s] \in Row
  BY <1>1, <1>2 DEF ImageInv, TypeOK, ResultIsNew
<1>4. \A v \in 1 .. current[i] : rows[i][v].hash # result[s].hash
  BY <1>1, <1>2 DEF ImageInv, ResultIsNew
<1>5. DOMAIN rows[i] \cup {n} = 1 .. n
  BY <1>2, <1>3
<1>6. rows' = [rows EXCEPT ![i] = [v \in 1 .. n |-> IF v = n THEN result[s] ELSE rows[i][v]]]
  BY <1>2, <1>5 DEF InsertVersion
<1>7. /\ rows'[i] = [v \in 1 .. n |-> IF v = n THEN result[s] ELSE rows[i][v]]
      /\ DOMAIN rows' = Images
      /\ \A k \in Images : k # i => rows'[k] = rows[k]
  BY <1>2, <1>6 DEF ImageInv, TypeOK
<1>8. n \in 1 .. n /\ \A v \in 1 .. current[i] : v \in 1 .. n /\ v # n
  BY <1>3
<1>9. rows'[i][n] = result[s] /\ \A v \in 1 .. current[i] : rows'[i][v] = rows[i][v]
  BY <1>7, <1>8
<1>10. current' = [current EXCEPT ![i] = n]
  BY <1>2 DEF InsertVersion
<1>11. QED
  BY <1>2, <1>3, <1>4, <1>7, <1>9, <1>10

LEMMA InsertInv ==
    ASSUME ImageInv, NEW s \in Requests, InsertVersion(s)
    PROVE  ImageInv'
<1> DEFINE i == cur[s]
           n == current[i] + 1
<1>1. /\ i \in Images /\ current[i] \in Nat /\ result[s] \in Row
      /\ DOMAIN rows[i] = 1 .. current[i] /\ DOMAIN rows'[i] = 1 .. n
      /\ rows'[i][n] = result[s]
      /\ \A v \in 1 .. current[i] : rows'[i][v] = rows[i][v]
      /\ \A v \in 1 .. current[i] : rows[i][v].hash # result[s].hash
      /\ rows'[i] = [v \in 1 .. n |-> IF v = n THEN result[s] ELSE rows[i][v]]
      /\ DOMAIN rows' = Images
      /\ \A k \in Images : k # i => rows'[k] = rows[k]
      /\ current' = [current EXCEPT ![i] = n]
  BY InsertRows
<1>2. IsRows(rows'[i])
  <2>1. IsRows(rows[i])
    BY <1>1 DEF ImageInv, TypeOK
  <2>2. \A v \in 1 .. n : v = n \/ v \in 1 .. current[i]
    BY <1>1
  <2>3. \A v \in 1 .. n : rows'[i][v] \in Row
    BY <1>1, <2>1, <2>2 DEF IsRows
  <2>4. rows'[i] = [v \in DOMAIN rows'[i] |-> rows'[i][v]]
    BY <1>1
  <2>5. DOMAIN rows'[i] = 1 .. n /\ 1 .. n \subseteq Nat
    BY <1>1
  <2>6. QED
    BY <2>3, <2>4, <2>5 DEF IsRows
<1>3. \A k \in Images : IsRows(rows'[k])
  BY <1>1, <1>2 DEF ImageInv, TypeOK
<1>4. total' \in [Images -> Nat]
  <2>1. seen[s].total + result[s].cost \in Nat
    BY <1>1 DEF ImageInv, TypeOK, Row
  <2>2. total' = [total EXCEPT ![i] = IF result[s].cost = 0 THEN total[i]
                                      ELSE seen[s].total + result[s].cost]
    BY <1>1 DEF InsertVersion, ImageInv, TypeOK
  <2>3. QED
    BY <1>1, <2>1, <2>2 DEF ImageInv, TypeOK
<1>5. TypeOK'
  <2>1. current' \in [Images -> Nat]
    BY <1>1 DEF ImageInv, TypeOK
  <2>2. UNCHANGED <<history, file, cur, seen, result, calls, faults>>
    BY DEF InsertVersion, budgets
  <2>3. pc' = [pc EXCEPT ![s] = "history"]
    BY DEF InsertVersion
  <2>4. QED
    BY <1>1, <1>3, <1>4, <2>1, <2>2, <2>3 DEF ImageInv, TypeOK
<1>6. Numbered'
  BY <1>1 DEF ImageInv, TypeOK, Numbered
<1>7. Distinct'
  <2>1. ASSUME NEW u \in 1 .. n, NEW v \in 1 .. n, rows'[i][u].hash = rows'[i][v].hash
        PROVE  u = v
    <3>1. (u = n \/ u \in 1 .. current[i]) /\ (v = n \/ v \in 1 .. current[i])
      BY <1>1
    <3>2. \A x, y \in 1 .. current[i] : rows[i][x].hash = rows[i][y].hash => x = y
      BY <1>1 DEF ImageInv, Distinct
    <3>3. QED
      BY <1>1, <2>1, <3>1, <3>2
  <2>2. ASSUME NEW k \in Images, NEW u \in DOMAIN rows'[k], NEW v \in DOMAIN rows'[k],
               rows'[k][u].hash = rows'[k][v].hash
        PROVE  u = v
    <3>1. CASE k = i
      <4>1. u \in 1 .. n /\ v \in 1 .. n /\ rows'[i][u].hash = rows'[i][v].hash
        BY <1>1, <2>2, <3>1
      <4>2. QED
        BY <2>1, <4>1
    <3>2. CASE k # i
      <4>1. rows'[k] = rows[k]
        BY <1>1, <3>2
      <4>2. QED
        BY <2>2, <4>1 DEF ImageInv, Distinct
    <3>3. QED
      BY <3>1, <3>2
  <2>3. QED
    BY <2>2 DEF Distinct
<1>8. \A r \in Requests : Regenerating(r)' => Regenerating(r) /\ r # s /\ pc'[r] = pc[r]
  BY DEF ImageInv, TypeOK, InsertVersion, Regenerating
<1>9. UNCHANGED <<cur, seen, result>>
  BY DEF InsertVersion
<1>10. ASSUME NEW r \in Requests, Regenerating(r)'
       PROVE  /\ cur[r] \in Images
              /\ \E m \in Nat : m <= current[cur[r]] /\ m <= current'[cur[r]]
                                /\ DOMAIN seen[r].rows = 1 .. m
  <2>1. Regenerating(r)
    BY <1>8, <1>10
  <2>2. cur[r] \in Images
    BY <2>1 DEF ImageInv, ReadsPrefix
  <2>3. PICK m \in Nat : m <= current[cur[r]] /\ DOMAIN seen[r].rows = 1 .. m
    BY <2>1 DEF ImageInv, ReadsPrefix
  <2>4. current[cur[r]] \in Nat /\ current'[cur[r]] \in Nat /\ current[cur[r]] <= current'[cur[r]]
    BY <1>1, <2>2 DEF ImageInv, TypeOK
  <2>5. QED
    BY <2>2, <2>3, <2>4
<1>11. ReadsPrefix'
  BY <1>9, <1>10 DEF ReadsPrefix
<1>12. ResultIsNew'
  <2>1. ASSUME NEW r \in Requests, pc'[r] \in {"store", "insert"}
        PROVE  /\ result[r] \in Row
               /\ \A v \in DOMAIN seen[r].rows : rows'[cur[r]][v].hash # result[r].hash
    <3>1. Regenerating(r)' /\ pc[r] = pc'[r]
      BY <1>8, <2>1 DEF Regenerating
    <3>2. result[r] \in Row /\ \A v \in DOMAIN seen[r].rows : rows[cur[r]][v].hash # result[r].hash
      BY <2>1, <3>1 DEF ImageInv, ResultIsNew
    <3>3. cur[r] \in Images /\ current[cur[r]] \in Nat
      BY <1>10, <3>1 DEF ImageInv, TypeOK
    <3>4. \A v \in DOMAIN seen[r].rows : v \in 1 .. current[cur[r]]
      BY <1>10, <3>1, <3>3
    <3>5. \A v \in DOMAIN seen[r].rows : rows'[cur[r]][v] = rows[cur[r]][v]
      BY <1>1, <3>3, <3>4
    <3>6. QED
      BY <3>2, <3>5
  <2>2. QED
    BY <1>9, <2>1 DEF ResultIsNew
<1>13. AtWork'
  BY <1>1 DEF ImageInv, TypeOK, InsertVersion, AtWork
<1>14. QED
  BY <1>5, <1>6, <1>7, <1>11, <1>12, <1>13 DEF ImageInv

LEMMA NextInv == ImageInv /\ [Next]_vars => ImageInv'
<1> SUFFICES ASSUME ImageInv, [Next]_vars PROVE ImageInv'
  OBVIOUS
<1>1. CASE UNCHANGED vars
  BY <1>1
  DEF ImageInv, TypeOK, Numbered, Distinct, ReadsPrefix, ResultIsNew, AtWork, Regenerating,
      vars, tables, sessions, budgets
<1>2. CASE Next
  BY <1>2, GenerateInv, ReadInv, EndInv, NewPictureInv, TurnInv, InsertInv, AddHistoryInv,
     GenerateFailsInv
  DEF Next
<1>3. QED
  BY <1>1, <1>2

LEMMA Invariant == Spec => []ImageInv
<1>1. QED
  BY InitInv, NextInv, PTL DEF Spec

\* Every variable of the image engine keeps its type: a row is only ever added
\* with the result of a provider.
THEOREM TypeCorrect == Spec => []TypeOK
<1>1. ImageInv => TypeOK
  BY DEF ImageInv
<1>2. QED
  BY <1>1, Invariant, PTL

-----------------------------------------------------------------------------
(* The history *)

\* Requests about to write a history row of image i.
Writers(i) == {s \in Requests : pc[s] = "history" /\ cur[s] = i}

\* A version has its history row, its writer, or a fault to excuse it.
Followed(i) ==
    /\ IsFiniteSet(Writers(i))
    /\ history[i] + Cardinality(Writers(i)) <= current[i]
    /\ current[i] <= history[i] + Cardinality(Writers(i)) + faults

HistoryInv == \A i \in Images : Followed(i)

\* Nothing happens to image i, except that it may be spared a fault.
LEMMA FollowedKept ==
    ASSUME TypeOK, NEW i \in Images, Followed(i), Writers(i)' = Writers(i),
           history'[i] = history[i], current'[i] = current[i],
           faults' \in {faults, faults + 1}
    PROVE  Followed(i)'
<1>1. /\ Cardinality(Writers(i)) \in Nat /\ history[i] \in Nat /\ current[i] \in Nat
      /\ faults \in Nat
  BY FS_CardinalityType DEF TypeOK, Followed
<1>2. QED
  BY <1>1 DEF Followed

\* A version comes with the request that will write its history row.
LEMMA WriterComes ==
    ASSUME TypeOK, NEW i \in Images, Followed(i), NEW s, s \notin Writers(i),
           Writers(i)' = Writers(i) \cup {s}, current'[i] = current[i] + 1,
           history'[i] = history[i], faults' = faults
    PROVE  Followed(i)'
<1>1. /\ Cardinality(Writers(i)) \in Nat /\ history[i] \in Nat /\ current[i] \in Nat
      /\ faults \in Nat
  BY FS_CardinalityType DEF TypeOK, Followed
<1>2. IsFiniteSet(Writers(i)') /\ Cardinality(Writers(i)') = Cardinality(Writers(i)) + 1
  BY FS_AddElement DEF Followed
<1>3. QED
  BY <1>1, <1>2 DEF Followed

\* A writer leaves its row behind, or goes with a fault.
LEMMA WriterGoes ==
    ASSUME TypeOK, NEW i \in Images, Followed(i), NEW s, s \in Writers(i),
           Writers(i)' = Writers(i) \ {s}, current'[i] = current[i],
           \/ history'[i] = history[i] + 1 /\ faults' = faults
           \/ history'[i] = history[i] /\ faults' = faults + 1
    PROVE  Followed(i)'
<1>1. /\ Cardinality(Writers(i)) \in Nat /\ history[i] \in Nat /\ current[i] \in Nat
      /\ faults \in Nat
  BY FS_CardinalityType DEF TypeOK, Followed
<1>2. IsFiniteSet(Writers(i)') /\ Cardinality(Writers(i)') = Cardinality(Writers(i)) - 1
  BY FS_RemoveElement DEF Followed
<1>3. QED
  BY <1>1, <1>2 DEF Followed

\* Generate and InsertVersion add a version and a writer.
LEMMA AddsWriter ==
    ASSUME ImageInv, HistoryInv, NEW s \in Requests, NEW x \in Images,
           Generate(s, x) \/ (InsertVersion(s) /\ x = cur[s])
    PROVE  HistoryInv'
<1>1. /\ pc[s] # "history" /\ pc'[s] = "history" /\ cur'[s] = x
      /\ \A r \in Requests : r # s => pc'[r] = pc[r] /\ cur'[r] = cur[r]
      /\ history' = history /\ faults' = faults
  BY DEF ImageInv, TypeOK, Generate, InsertVersion, Call, budgets
<1>2. current'[x] = current[x] + 1 /\ \A i \in Images : i # x => current'[i] = current[i]
  <2>1. CASE Generate(s, x)
    <3>1. DOMAIN rows[x] = {} /\ DOMAIN rows[x] = 1 .. current[x] /\ current[x] \in Nat
      BY <2>1, NoRowsIsRows DEF Generate, ImageInv, TypeOK, Numbered
    <3>2. 1 \notin 1 .. current[x]
      BY <3>1
    <3>3. current[x] = 0
      BY <3>1, <3>2
    <3>4. QED
      BY <2>1, <3>3 DEF Generate, ImageInv, TypeOK
  <2>2. CASE InsertVersion(s) /\ x = cur[s]
    <3>1. current' = [current EXCEPT ![x] = current[x] + 1]
      BY <2>2, InsertRows
    <3>2. QED
      BY <3>1 DEF ImageInv, TypeOK
  <2>3. QED
    BY <2>1, <2>2
<1>3. \A i \in Images : i # x => Writers(i)' = Writers(i)
  BY <1>1 DEF Writers
<1>4. s \notin Writers(x) /\ Writers(x)' = Writers(x) \cup {s}
  BY <1>1 DEF Writers
<1>5. Followed(x)'
  BY <1>1, <1>2, <1>4, WriterComes DEF ImageInv, HistoryInv
<1>6. \A i \in Images : i # x => Followed(i)'
  BY <1>1, <1>2, <1>3, FollowedKept DEF ImageInv, HistoryInv
<1>7. QED
  BY <1>5, <1>6 DEF HistoryInv

\* AddHistory and Abort end a request.
LEMMA EndsWriter ==
    ASSUME ImageInv, HistoryInv, NEW s \in Requests, AddHistory(s) \/ Abort(s)
    PROVE  HistoryInv'
<1>1. /\ pc'[s] = "idle" /\ current' = current /\ faults' \in {faults, faults + 1}
      /\ \A r \in Requests : r # s => pc'[r] = pc[r] /\ cur'[r] = cur[r]
  BY DEF ImageInv, TypeOK, AddHistory, Abort, Restart, Fault, tables, budgets
<1>2. \A i \in Images : i # cur[s] => history'[i] = history[i] /\ Writers(i)' = Writers(i)
  BY <1>1 DEF ImageInv, TypeOK, AddHistory, Abort, tables, Writers
<1>3. ASSUME NEW x \in Images, x = cur[s], pc[s] = "history" PROVE Followed(x)'
  <2>1. s \in Writers(x) /\ Writers(x)' = Writers(x) \ {s}
    BY <1>1, <1>3 DEF Writers
  <2>2. \/ history'[x] = history[x] + 1 /\ faults' = faults
        \/ history'[x] = history[x] /\ faults' = faults + 1
    BY <1>3 DEF ImageInv, TypeOK, AddHistory, Abort, Fault, tables, budgets
  <2>3. QED
    BY <1>1, <2>1, <2>2, WriterGoes DEF ImageInv, HistoryInv
<1>4. ASSUME NEW x \in Images, x = cur[s], pc[s] # "history" PROVE Followed(x)'
  <2>1. Writers(x)' = Writers(x) /\ history' = history
    BY <1>1, <1>4 DEF Writers, AddHistory, Abort, tables
  <2>2. QED
    BY <1>1, <2>1, FollowedKept DEF ImageInv, HistoryInv
<1>5. \A i \in Images : i # cur[s] => Followed(i)'
  BY <1>1, <1>2, FollowedKept DEF ImageInv, HistoryInv
<1>6. QED
  BY <1>3, <1>4, <1>5 DEF HistoryInv

\* Every other action leaves versions, history and writers alone.
LEMMA LeavesHistory ==
    ASSUME ImageInv, HistoryInv, UNCHANGED <<current, history>>,
           faults' \in {faults, faults + 1}, \A i \in Images : Writers(i)' = Writers(i)
    PROVE  HistoryInv'
    BY FollowedKept DEF ImageInv, HistoryInv

LEMMA NextHistory == ImageInv /\ HistoryInv /\ [Next]_vars => HistoryInv'
<1> SUFFICES ASSUME ImageInv, HistoryInv, [Next]_vars PROVE HistoryInv'
  OBVIOUS
<1>1. ASSUME NEW s \in Requests, NEW i \in Images, Generate(s, i) PROVE HistoryInv'
  BY <1>1, AddsWriter
<1>2. ASSUME NEW s \in Requests, InsertVersion(s) PROVE HistoryInv'
  <2>1. PICK x \in Images : x = cur[s]
    BY <1>2, InsertRows
  <2>2. QED
    BY <1>2, <2>1, AddsWriter
<1>3. ASSUME NEW s \in Requests, AddHistory(s) \/ Abort(s) PROVE HistoryInv'
  BY <1>3, EndsWriter
<1>4. ASSUME NEW s \in Requests,
             \/ ProvidersFail(s) \/ NewPicture(s) \/ AskVariation(s) \/ RejectDuplicate(s)
             \/ StoreOutputs(s) \/ VersionTaken(s) \/ \E i \in Images : ReadImage(s, i)
      PROVE  HistoryInv'
  <2>1. /\ pc[s] # "history" /\ pc'[s] # "history"
        /\ \A r \in Requests : r # s => pc'[r] = pc[r] /\ cur'[r] = cur[r]
        /\ UNCHANGED <<current, history, faults>>
    BY <1>4
    DEF ImageInv, TypeOK, ProvidersFail, NewPicture, AskVariation, RejectDuplicate, StoreOutputs,
        VersionTaken, ReadImage, Restart, Call, tables, budgets
  <2>2. \A i \in Images : Writers(i)' = Writers(i)
    BY <2>1 DEF Writers
  <2>3. QED
    BY <2>1, <2>2, LeavesHistory
<1>5. ASSUME NEW i \in Images, GenerateFails(i) PROVE HistoryInv'
  BY <1>5, LeavesHistory DEF GenerateFails, Fault, tables, sessions, Writers
<1>6. CASE UNCHANGED vars
  BY <1>6, LeavesHistory DEF vars, tables, sessions, budgets, Writers
<1>7. QED
  BY <1>1, <1>2, <1>3, <1>4, <1>5, <1>6 DEF Next

\* A version without its row in image_histories has a request about to write
\* it, or a fault; and add_history never writes a row for no version.
THEOREM HistoryIsKept == Spec => []HistoryFollows
<1>1. Init => HistoryInv
  <2> SUFFICES ASSUME Init, NEW i \in Images PROVE Followed(i)
    BY DEF HistoryInv
  <2>1. Writers(i) = {}
    BY DEF Init, Writers
  <2>2. QED
    BY <2>1, FS_EmptySet DEF Init, Followed
<1>2. ImageInv /\ HistoryInv => HistoryFollows
  <2> SUFFICES ASSUME ImageInv, HistoryInv, NEW i \in Images
               PROVE  /\ history[i] + Cardinality(Writers(i)) <= Cardinality(DOMAIN rows[i])
                      /\ Cardinality(DOMAIN rows[i])
                            <= history[i] + Cardinality(Writers(i)) + faults
    BY DEF HistoryFollows, Writers
  <2>1. current[i] \in Nat /\ DOMAIN rows[i] = 1 .. current[i]
    BY DEF ImageInv, TypeOK, Numbered
  <2>2. Cardinality(DOMAIN rows[i]) = current[i]
    BY <2>1, FS_Interval
  <2>3. QED
    BY <2>2 DEF HistoryInv, Followed
<1>3. QED
  BY <1>1, <1>2, Invariant, NextHistory, PTL DEF Spec

-----------------------------------------------------------------------------
(* The cost *)

Spent(i) == SumFunction([v \in DOMAIN rows[i] |-> rows[i][v].cost])

\* A request that has read all the versions there are knows what they cost.
KnowsCost ==
    \A s \in Requests :
        Regenerating(s) /\ DOMAIN seen[s].rows = DOMAIN rows[cur[s]]
            => seen[s].total = total[cur[s]]

CostInv == CostAddsUp /\ KnowsCost

\* A version with the number after the last one adds its cost.
LEMMA SpentGrows ==
    ASSUME ImageInv, NEW i \in Images, NEW n \in Nat,
           DOMAIN rows[i] = 1 .. n, DOMAIN rows'[i] = 1 .. (n + 1),
           \A v \in 1 .. n : rows'[i][v] = rows[i][v], rows'[i][n + 1].cost \in Nat
    PROVE  Spent(i)' = Spent(i) + rows'[i][n + 1].cost
<1> DEFINE before == [v \in 1 .. n |-> rows[i][v].cost]
           after  == [v \in 1 .. (n + 1) |-> rows'[i][v].cost]
<1>1. \A v \in 1 .. n : before[v] \in Nat
  BY DEF ImageInv, TypeOK, IsRows, Row
<1>2. 1 .. (n + 1) = 1 .. n \cup {n + 1} /\ n + 1 \notin 1 .. n
  OBVIOUS
<1>3. IsFiniteSet(1 .. n)
  BY FS_Interval
<1>4. \A v \in 1 .. n : after[v] = before[v]
  BY <1>2
<1>5. after[n + 1] = rows'[i][n + 1].cost
  BY <1>2
<1>6. Spent(i) = SumFunctionOnSet(before, 1 .. n)
  BY DEF Spent, SumFunction
<1>7. Spent(i)' = SumFunctionOnSet(after, 1 .. n \cup {n + 1})
  BY <1>2 DEF Spent, SumFunction
<1> HIDE DEF before, after
<1>8. SumFunctionOnSet(after, 1 .. n) = SumFunctionOnSet(before, 1 .. n)
  BY <1>1, <1>3, <1>4, SumOfSame
<1>9. \A v \in 1 .. n \cup {n + 1} : after[v] \in Nat
  BY <1>1, <1>4, <1>5
<1>10. SumFunctionOnSet(after, 1 .. n \cup {n + 1})
          = SumFunctionOnSet(after, 1 .. n) + after[n + 1]
  BY <1>2, <1>3, <1>9, SumOfOneMore
<1>11. QED
  BY <1>5, <1>6, <1>7, <1>8, <1>10

\* Generate stores the cost of the only version.
LEMMA GenerateCost ==
    ASSUME ImageInv, CostInv, NEW s \in Requests, NEW i \in Images, Generate(s, i)
    PROVE  CostInv'
<1>1. PICK p \in Pictures, c \in Costs :
         /\ rows'  = [rows EXCEPT ![i] = [v \in {1} |-> [hash |-> p, cost |-> c]]]
         /\ total' = [total EXCEPT ![i] = c]
  BY DEF Generate
<1>2. c \in Nat /\ DOMAIN rows[i] = {}
  BY NoRowsIsRows, ImageAssumption DEF Generate
<1>3. /\ rows'[i] = [v \in {1} |-> [hash |-> p, cost |-> c]] /\ total'[i] = c
      /\ \A k \in Images : k # i => rows'[k] = rows[k] /\ total'[k] = total[k]
  BY <1>1 DEF ImageInv, TypeOK
<1>4. Spent(i)' = c
  <2>1. DOMAIN rows[i] = 1 .. 0 /\ DOMAIN rows'[i] = 1 .. (0 + 1) /\ rows'[i][0 + 1].cost = c
    BY <1>2, <1>3
  <2>2. Spent(i)' = Spent(i) + c
    BY <1>2, <2>1, SpentGrows
  <2>3. Spent(i) = 0
    BY <1>2, SumOfNone DEF Spent, SumFunction
  <2>4. QED
    BY <1>2, <2>2, <2>3
<1>5. CostAddsUp'
  <2>1. \A k \in Images : k # i => Spent(k)' = Spent(k)
    BY <1>3 DEF Spent
  <2>2. \A k \in Images : total'[k] = Spent(k)'
    BY <1>3, <1>4, <2>1 DEF CostInv, CostAddsUp, Spent
  <2>3. QED
    BY <2>2 DEF CostAddsUp, Spent
<1>6. KnowsCost'
  <2> SUFFICES ASSUME NEW r \in Requests, Regenerating(r)',
                      DOMAIN seen'[r].rows = DOMAIN rows'[cur'[r]]
               PROVE  seen'[r].total = total'[cur'[r]]
    BY DEF KnowsCost
  <2>1. Regenerating(r) /\ cur'[r] = cur[r] /\ seen'[r] = seen[r]
    BY DEF Generate, Regenerating, ImageInv, TypeOK
  <2>2. cur[r] \in Images /\ \E n \in Nat : n <= current[cur[r]] /\ DOMAIN seen[r].rows = 1 .. n
    BY <2>1 DEF ImageInv, ReadsPrefix
  <2>3. CASE cur[r] = i
    <3>1. current[i] = 0
      <4>1. current[i] \in Nat /\ 1 .. current[i] = {}
        BY <1>2 DEF ImageInv, TypeOK, Numbered
      <4>2. 1 \notin 1 .. current[i]
        BY <4>1
      <4>3. QED
        BY <4>1, <4>2
    <3>2. 1 \notin DOMAIN seen[r].rows
      BY <2>2, <2>3, <3>1
    <3>3. 1 \in DOMAIN rows'[i]
      BY <1>3
    <3>4. QED
      BY <2>1, <2>3, <3>2, <3>3
  <2>4. CASE cur[r] # i
    BY <1>3, <2>1, <2>2, <2>4 DEF CostInv, KnowsCost
  <2>5. QED
    BY <2>3, <2>4
<1>7. QED
  BY <1>5, <1>6 DEF CostInv

\* A version is added only by a request that knows what the others cost.
LEMMA InsertCost ==
    ASSUME ImageInv, CostInv, NEW s \in Requests, InsertVersion(s)
    PROVE  CostInv'
<1>1. PICK i \in Images : i = cur[s]
  BY InsertRows
<1>2. PICK n \in Nat : n = current[i]
  BY DEF ImageInv, TypeOK
<1>3. /\ result[s] \in Row /\ DOMAIN rows[i] = 1 .. n /\ DOMAIN rows'[i] = 1 .. (n + 1)
      /\ rows'[i][n + 1] = result[s]
      /\ \A v \in 1 .. n : rows'[i][v] = rows[i][v]
      /\ \A k \in Images : k # i => rows'[k] = rows[k]
  BY <1>1, <1>2, InsertRows
<1>4. pc[s] = "insert" /\ NextVersion(s) \notin DOMAIN rows[cur[s]]
  BY DEF InsertVersion
<1>5. DOMAIN seen[s].rows = DOMAIN rows[i]
  BY <1>1, <1>4, InsertsNext
<1>6. seen[s].total = total[i]
  BY <1>1, <1>4, <1>5 DEF CostInv, KnowsCost, Regenerating
<1>7. result[s].cost \in Nat /\ total[i] \in Nat
  BY <1>3 DEF ImageInv, TypeOK, Row
<1>8. /\ total'[i] = total[i] + result[s].cost
      /\ \A k \in Images : k # i => total'[k] = total[k]
  BY <1>1, <1>6, <1>7 DEF InsertVersion, ImageInv, TypeOK
<1>9. Spent(i)' = Spent(i) + result[s].cost
  BY <1>3, <1>7, SpentGrows
<1>10. CostAddsUp'
  <2>1. \A k \in Images : k # i => Spent(k)' = Spent(k)
    BY <1>3 DEF Spent
  <2>2. \A k \in Images : total'[k] = Spent(k)'
    BY <1>8, <1>9, <2>1 DEF CostInv, CostAddsUp, Spent
  <2>3. QED
    BY <2>2 DEF CostAddsUp, Spent
<1>11. KnowsCost'
  <2> SUFFICES ASSUME NEW r \in Requests, Regenerating(r)',
                      DOMAIN seen'[r].rows = DOMAIN rows'[cur'[r]]
               PROVE  seen'[r].total = total'[cur'[r]]
    BY DEF KnowsCost
  <2>1. Regenerating(r) /\ cur'[r] = cur[r] /\ seen'[r] = seen[r]
    BY DEF InsertVersion, Regenerating, ImageInv, TypeOK
  <2>2. PICK m \in Nat : m <= current[cur[r]] /\ DOMAIN seen[r].rows = 1 .. m
    BY <2>1 DEF ImageInv, ReadsPrefix
  <2>3. cur[r] \in Images
    BY <2>1 DEF ImageInv, ReadsPrefix
  <2>4. CASE cur[r] = i
    <3>1. n + 1 \notin DOMAIN seen[r].rows
      BY <1>2, <2>2, <2>4
    <3>2. n + 1 \in DOMAIN rows'[i]
      BY <1>3
    <3>3. QED
      BY <2>1, <2>4, <3>1, <3>2
  <2>5. CASE cur[r] # i
    BY <1>3, <1>8, <2>1, <2>3, <2>5 DEF CostInv, KnowsCost
  <2>6. QED
    BY <2>4, <2>5
<1>12. QED
  BY <1>10, <1>11 DEF CostInv

\* Any other step adds no version, and what it reads is what is stored.
LEMMA LeavesCost ==
    ASSUME ImageInv, CostInv, UNCHANGED <<rows, total>>,
           \A r \in Requests : Regenerating(r)' =>
               \/ Regenerating(r) /\ cur'[r] = cur[r] /\ seen'[r] = seen[r]
               \/ seen'[r].total = total[cur'[r]]
    PROVE  CostInv'
    BY DEF CostInv, CostAddsUp, KnowsCost

LEMMA NextCost == ImageInv /\ CostInv /\ [Next]_vars => CostInv'
<1> SUFFICES ASSUME ImageInv, CostInv, [Next]_vars PROVE CostInv'
  OBVIOUS
<1>1. ASSUME NEW s \in Requests, NEW i \in Images, ReadImage(s, i) PROVE CostInv'
  <2>1. /\ cur' = [cur EXCEPT ![s] = i] /\ pc' = [pc EXCEPT ![s] = "first"]
        /\ seen' = [seen EXCEPT ![s] = [rows |-> rows[i], total |-> total[i]]]
        /\ UNCHANGED <<rows, total>>
    BY <1>1 DEF ReadImage, tables
  <2>2. seen'[s].total = total[cur'[s]]
    BY <2>1 DEF ImageInv, TypeOK
  <2>3. \A r \in Requests : r # s => pc'[r] = pc[r] /\ cur'[r] = cur[r] /\ seen'[r] = seen[r]
    BY <2>1 DEF ImageInv, TypeOK
  <2>4. QED
    BY <2>1, <2>2, <2>3, LeavesCost DEF Regenerating
<1>2. ASSUME NEW s \in Requests,
             \/ ProvidersFail(s) \/ RejectDuplicate(s) \/ VersionTaken(s) \/ AddHistory(s) \/ Abort(s)
      PROVE  CostInv'
  <2>1. Restart(s) /\ UNCHANGED <<rows, total>>
    BY <1>2 DEF ProvidersFail, RejectDuplicate, VersionTaken, AddHistory, Abort, tables
  <2>2. /\ pc'[s] = "idle"
        /\ \A r \in Requests : r # s => pc'[r] = pc[r] /\ cur'[r] = cur[r] /\ seen'[r] = seen[r]
    BY <2>1 DEF Restart, ImageInv, TypeOK
  <2>3. QED
    BY <2>1, <2>2, LeavesCost DEF Regenerating
<1>3. ASSUME NEW s \in Requests, NewPicture(s) \/ AskVariation(s) \/ StoreOutputs(s) PROVE CostInv'
  <2>1. UNCHANGED <<rows, total, cur, seen>> /\ Regenerating(s)
    BY <1>3 DEF NewPicture, AskVariation, StoreOutputs, tables, Regenerating
  <2>2. \A r \in Requests : r # s => pc'[r] = pc[r]
    BY <1>3 DEF NewPicture, AskVariation, StoreOutputs, ImageInv, TypeOK
  <2>3. QED
    BY <2>1, <2>2, LeavesCost DEF Regenerating
<1>4. ASSUME NEW i \in Images, GenerateFails(i) PROVE CostInv'
  BY <1>4, LeavesCost DEF GenerateFails, tables, sessions, Regenerating
<1>5. CASE UNCHANGED vars
  BY <1>5, LeavesCost DEF vars, tables, sessions, Regenerating
<1>6. QED
  BY <1>1, <1>2, <1>3, <1>4, <1>5, GenerateCost, InsertCost DEF Next

\* total_cost_usd is what the versions of the image cost together, although a
\* request adds its cost to a total that it read before it called a provider.
THEOREM CostIsKept == Spec => []CostAddsUp
<1>1. Init => CostInv
  <2> SUFFICES ASSUME Init PROVE CostInv
    OBVIOUS
  <2>1. ASSUME NEW i \in Images PROVE total[i] = Spent(i)
    <3>1. DOMAIN rows[i] = {} /\ total[i] = 0
      BY NoRowsIsRows DEF Init
    <3>2. QED
      BY <3>1, SumOfNone DEF Spent, SumFunction
  <2>2. QED
    BY <2>1 DEF Init, CostInv, CostAddsUp, Spent, KnowsCost, Regenerating
<1>2. CostInv => CostAddsUp
  BY DEF CostInv
<1>3. QED
  BY <1>1, <1>2, Invariant, NextCost, PTL DEF Spec

-----------------------------------------------------------------------------
(* The log *)

PicturesOf(i) == [v \in DOMAIN rows[i] |-> rows[i][v].hash]

\* The pictures of an image are a sequence.
LEMMA PicturesAreSeq ==
    ASSUME TypeOK, Numbered, NEW i \in Images
    PROVE  /\ PicturesOf(i) \in Seq(Pictures)
           /\ Len(PicturesOf(i)) = current[i]
           /\ current[i] \in Nat
           /\ DOMAIN rows[i] = 1 .. current[i]
           /\ \A v \in 1 .. current[i] : PicturesOf(i)[v] = rows[i][v].hash
<1>1. current[i] \in Nat /\ DOMAIN rows[i] = 1 .. current[i]
  BY DEF TypeOK, Numbered
<1>2. \A v \in 1 .. current[i] : rows[i][v].hash \in Pictures
  BY <1>1 DEF TypeOK, IsRows, Row
<1>3. PicturesOf(i) = [v \in 1 .. current[i] |-> rows[i][v].hash]
  BY <1>1 DEF PicturesOf
<1>4. PicturesOf(i) \in Seq(Pictures)
  BY <1>1, <1>2, <1>3
<1>5. DOMAIN PicturesOf(i) = 1 .. Len(PicturesOf(i)) /\ Len(PicturesOf(i)) \in Nat
  BY <1>4, LenProperties
<1>6. QED
  BY <1>1, <1>3, <1>4, <1>5

\* Adding a version appends its picture.
LEMMA Appends ==
    ASSUME ImageInv, ImageInv', NEW i \in Images, NEW p \in Pictures,
           current'[i] = current[i] + 1,
           \A v \in 1 .. current[i] : rows'[i][v].hash = rows[i][v].hash,
           rows'[i][current[i] + 1].hash = p,
           \A k \in Images : k # i => rows'[k] = rows[k],
           \A v \in 1 .. current[i] : rows[i][v].hash # p
    PROVE  Log!Add(i, p)
<1> DEFINE s == PicturesOf(i)
<1>1. /\ s \in Seq(Pictures) /\ Len(s) = current[i] /\ current[i] \in Nat
      /\ \A v \in 1 .. current[i] : s[v] = rows[i][v].hash
  BY PicturesAreSeq DEF ImageInv
<1>2. TypeOK' /\ Numbered'
  BY DEF ImageInv
<1>3. current'[i] \in Nat /\ DOMAIN rows'[i] = 1 .. current'[i]
  BY <1>2 DEF TypeOK, Numbered
<1>4. PicturesOf(i)' = [v \in 1 .. current[i] + 1 |-> rows'[i][v].hash]
  BY <1>3 DEF PicturesOf
<1>5. /\ Append(s, p) \in Seq(Pictures) /\ Len(Append(s, p)) = current[i] + 1
      /\ \A v \in 1 .. current[i] : Append(s, p)[v] = s[v]
      /\ Append(s, p)[current[i] + 1] = p
  BY <1>1, AppendProperties
<1>6. PicturesOf(i)' = Append(s, p)
  <2> DEFINE t == [v \in 1 .. current[i] + 1 |-> rows'[i][v].hash]
  <2>1. \A v \in 1 .. current[i] + 1 : v = current[i] + 1 \/ v \in 1 .. current[i]
    BY <1>1
  <2>2. \A v \in 1 .. current[i] + 1 : Append(s, p)[v] = rows'[i][v].hash
    BY <1>1, <1>5, <2>1
  <2>3. \A v \in 1 .. current[i] + 1 : rows'[i][v].hash \in Pictures
    BY <1>2, <1>3 DEF TypeOK, IsRows, Row
  <2>4. t \in Seq(Pictures) /\ Len(t) = current[i] + 1
    BY <1>1, <2>3
  <2>5. t = Append(s, p)
    <3>1. \A v \in 1 .. Len(t) : t[v] = Append(s, p)[v]
      BY <2>2, <2>4
    <3> HIDE DEF t
    <3>2. QED
      BY <1>5, <2>4, <3>1, SeqEqual
  <2>6. QED
    BY <1>4, <2>5
<1>7. \A k \in Images : k # i => PicturesOf(k)' = PicturesOf(k)
  BY DEF PicturesOf
<1>8. [k \in Images |-> PicturesOf(k)]' = [[k \in Images |-> PicturesOf(k)] EXCEPT ![i] = Append(@, p)]
  BY <1>6, <1>7
<1>9. \A v \in 1 .. Len(s) : s[v] # p
  BY <1>1
<1>10. QED
  BY <1>8, <1>9 DEF Log!Add, PicturesOf

LEMMA InitLog == Init => Log!Init
<1> SUFFICES ASSUME Init PROVE Log!Init
  OBVIOUS
<1>1. \A i \in Images : PicturesOf(i) = <<>>
  <2>1. TypeOK /\ Numbered
    BY InitInv DEF ImageInv
  <2>2. TAKE i \in Images
  <2>3. current[i] = 0
    BY DEF Init
  <2>4. PicturesOf(i) \in Seq(Pictures) /\ Len(PicturesOf(i)) = 0
    BY <2>1, <2>3, PicturesAreSeq
  <2>5. QED
    BY <2>4, EmptySeq
<1>2. QED
  BY <1>1 DEF Log!Init, PicturesOf

LEMMA NextLog == ImageInv /\ ImageInv' /\ [Next]_vars => [Log!Next]_(Log!vars)
<1> SUFFICES ASSUME ImageInv, ImageInv', [Next]_vars PROVE [Log!Next]_(Log!vars)
  OBVIOUS
<1>1. ASSUME NEW s \in Requests, NEW i \in Images, Generate(s, i) PROVE Log!Next
  <2>1. PICK p \in Pictures, c \in Costs :
           rows' = [rows EXCEPT ![i] = [v \in {1} |-> [hash |-> p, cost |-> c]]]
    BY <1>1 DEF Generate
  <2>2. current[i] = 0
    <3>1. DOMAIN rows[i] = {} /\ DOMAIN rows[i] = 1 .. current[i] /\ current[i] \in Nat
      BY <1>1, NoRowsIsRows DEF Generate, ImageInv, TypeOK, Numbered
    <3>2. 1 \notin 1 .. current[i]
      BY <3>1
    <3>3. QED
      BY <3>1, <3>2
  <2>3. current'[i] = 1
    BY <1>1 DEF Generate, ImageInv, TypeOK
  <2>4. /\ rows'[i] = [v \in {1} |-> [hash |-> p, cost |-> c]]
        /\ \A k \in Images : k # i => rows'[k] = rows[k]
    BY <2>1 DEF ImageInv, TypeOK
  <2>5. rows'[i][1].hash = p
    BY <2>4
  <2>6. Log!Add(i, p)
    BY <2>2, <2>3, <2>4, <2>5, Appends
  <2>7. QED
    BY <2>6 DEF Log!Next
<1>2. ASSUME NEW s \in Requests, InsertVersion(s) PROVE Log!Next
  <2>1. PICK i \in Images : i = cur[s]
    BY <1>2, InsertRows
  <2>2. /\ current[i] \in Nat /\ result[s] \in Row
        /\ rows'[i][current[i] + 1] = result[s]
        /\ \A v \in 1 .. current[i] : rows'[i][v] = rows[i][v]
        /\ \A v \in 1 .. current[i] : rows[i][v].hash # result[s].hash
        /\ \A k \in Images : k # i => rows'[k] = rows[k]
        /\ current' = [current EXCEPT ![i] = current[i] + 1]
    BY <1>2, <2>1, InsertRows
  <2>3. current'[i] = current[i] + 1
    BY <2>2 DEF ImageInv, TypeOK
  <2>4. PICK p \in Pictures : p = result[s].hash
    BY <2>2 DEF Row
  <2>5. Log!Add(i, p)
    BY <2>2, <2>3, <2>4, Appends
  <2>6. QED
    BY <2>5 DEF Log!Next
<1>3. ASSUME UNCHANGED rows PROVE UNCHANGED Log!vars
  BY <1>3 DEF Log!vars
<1>4. QED
  BY <1>1, <1>2, <1>3
  DEF Next, ReadImage, ProvidersFail, NewPicture, AskVariation, RejectDuplicate, StoreOutputs,
      VersionTaken, AddHistory, Abort, GenerateFails, vars, tables

\* Versions are numbered without gaps, never change, and are distinct pictures
\* of their image, whatever requests overlap and whatever fails.
THEOREM Refinement == Spec => KeepsLog
<1>1. ImageInv /\ [Next]_vars => ImageInv'
  BY NextInv
<1>2. QED
  BY <1>1, Invariant, InitLog, NextLog, PTL DEF Spec, KeepsLog, Log!Spec

=============================================================================
