-------------------------- MODULE DeploymentProofs --------------------------
(***************************************************************************)
(* Proofs about the migrations and what happens around them: the schema a  *)
(* running server sees, the revision a database records, the one version   *)
(* of each product and the files of the images.                            *)
(***************************************************************************)
EXTENDS Deployment, SequenceTheorems, TLAPS

-----------------------------------------------------------------------------
(* Lists of statements *)

Listed(s) == \E S : s \in Seq(S)

LEMMA ListLength ==
    ASSUME NEW s, Listed(s)
    PROVE  Len(s) \in Nat /\ DOMAIN s = 1 .. Len(s)
  BY LenProperties DEF Listed

LEMMA ListConcat ==
    ASSUME NEW s, NEW u, Listed(s), Listed(u)
    PROVE  /\ Listed(s \o u)
           /\ Len(s \o u) = Len(s) + Len(u)
           /\ \A i \in DOMAIN (s \o u) :
                 \/ i \in DOMAIN s /\ (s \o u)[i] = s[i]
                 \/ i - Len(s) \in DOMAIN u /\ (s \o u)[i] = u[i - Len(s)]
<1>1. PICK S, T : s \in Seq(S) /\ u \in Seq(T)
  BY DEF Listed
<1>2. s \in Seq(S \cup T) /\ u \in Seq(S \cup T)
  BY <1>1, SeqMonotonic
<1>3. /\ s \o u \in Seq(S \cup T) /\ Len(s \o u) = Len(s) + Len(u)
      /\ \A i \in 1 .. Len(s) + Len(u) :
            (s \o u)[i] = IF i <= Len(s) THEN s[i] ELSE u[i - Len(s)]
  BY <1>2, ConcatProperties
<1>4. /\ DOMAIN (s \o u) = 1 .. Len(s) + Len(u)
      /\ Len(s) \in Nat /\ DOMAIN s = 1 .. Len(s) /\ Len(u) \in Nat /\ DOMAIN u = 1 .. Len(u)
  BY <1>2, <1>3, LenProperties
<1>5. Listed(s \o u)
  BY <1>3 DEF Listed
<1>6. QED
  BY <1>3, <1>4, <1>5

LEMMA ListOfFunction ==
    ASSUME NEW n \in Nat, NEW f, DOMAIN f = 1 .. n, f = [i \in 1 .. n |-> f[i]]
    PROVE  Listed(f)
<1> DEFINE S == {f[i] : i \in 1 .. n}
<1>1. \A i \in 1 .. n : f[i] \in S
  OBVIOUS
<1>2. f \in [1 .. n -> S]
  BY <1>1
<1>3. f \in Seq(S)
  BY <1>2, SeqDef
<1>4. QED
  BY <1>3 DEF Listed

\* All statements of s are op, of tables of T or their indexes.
OfTables(s, op, T) ==
    /\ Listed(s)
    /\ \A k \in DOMAIN s :
          s[k].op = op /\ \E t \in T : s[k].on \in {<<t>>, <<t, "indexes">>}

LEMMA OneTable ==
    ASSUME NEW t
    PROVE  OfTables(Table(t), "make", {t}) /\ OfTables(Drop(t), "unmake", {t})
<1>1. OfTables(Table(t), "make", {t})
  <2>1. Table(t) \in Seq({Make(<<t>>), Make(<<t, "indexes">>)})
    BY DEF Table
  <2>2. DOMAIN Table(t) = {1, 2} /\ Table(t)[1] = Make(<<t>>) /\ Table(t)[2] = Make(<<t, "indexes">>)
    BY DEF Table
  <2>3. QED
    BY <2>1, <2>2 DEF OfTables, Listed, Make
<1>2. OfTables(Drop(t), "unmake", {t})
  <2>1. Drop(t) \in Seq({Unmake(<<t>>), Unmake(<<t, "indexes">>)})
    BY DEF Drop
  <2>2. DOMAIN Drop(t) = {1, 2} /\ Drop(t)[2] = Unmake(<<t>>) /\ Drop(t)[1] = Unmake(<<t, "indexes">>)
    BY DEF Drop
  <2>3. QED
    BY <2>1, <2>2 DEF OfTables, Listed, Unmake
<1>3. QED
  BY <1>1, <1>2

LEMMA PairsOf ==
    ASSUME NEW T, NEW ts \in Seq(T)
    PROVE  /\ OfTables(Tables(ts), "make", T)
           /\ OfTables(Drops(ts), "unmake", T)
<1>1. /\ Len(ts) \in Nat /\ DOMAIN ts = 1 .. Len(ts) /\ 2 * Len(ts) \in Nat
      /\ \A i \in 1 .. 2 * Len(ts) :
            (i + 1) \div 2 \in 1 .. Len(ts) /\ 2 - (i % 2) \in {1, 2}
  BY LenProperties
<1>2. \A i \in 1 .. Len(ts) : ts[i] \in T
  BY <1>1, ElementOfSeq
<1>3. OfTables(Tables(ts), "make", T)
  <2>1. \A i \in 1 .. 2 * Len(ts) : \E t \in T :
           Tables(ts)[i] \in {Make(<<t>>), Make(<<t, "indexes">>)}
    <3>1. TAKE i \in 1 .. 2 * Len(ts)
    <3>2. PICK j \in 1 .. Len(ts) : j = (i + 1) \div 2
      BY <1>1
    <3>3. Tables(ts)[i] = Table(ts[j])[2 - (i % 2)]
      BY <3>2 DEF Tables, Pairs
    <3>4. \A k \in {1, 2} : Table(ts[j])[k] \in {Make(<<ts[j]>>), Make(<<ts[j], "indexes">>)}
      BY DEF Table
    <3>5. QED
      BY <1>1, <1>2, <3>3, <3>4
  <2>2. DOMAIN Tables(ts) = 1 .. 2 * Len(ts) /\ Tables(ts) = [i \in 1 .. 2 * Len(ts) |-> Tables(ts)[i]]
    BY DEF Tables, Pairs
  <2>3. Listed(Tables(ts))
    BY <1>1, <2>2, ListOfFunction
  <2>4. QED
    BY <2>1, <2>2, <2>3 DEF OfTables, Make
<1>4. OfTables(Drops(ts), "unmake", T)
  <2>1. \A i \in 1 .. Len(ts) : Reverse(ts)[i] \in T
    BY <1>1, <1>2 DEF Reverse
  <2>2. Len(Reverse(ts)) = Len(ts)
    BY <1>1 DEF Reverse
  <2>3. \A i \in 1 .. 2 * Len(ts) : \E t \in T :
           Drops(ts)[i] \in {Unmake(<<t>>), Unmake(<<t, "indexes">>)}
    <3>1. TAKE i \in 1 .. 2 * Len(ts)
    <3>2. PICK j \in 1 .. Len(ts) : j = (i + 1) \div 2
      BY <1>1
    <3>3. Drops(ts)[i] = Drop(Reverse(ts)[j])[2 - (i % 2)]
      BY <2>2, <3>2 DEF Drops, Pairs
    <3>4. \A t : \A k \in {1, 2} : Drop(t)[k] \in {Unmake(<<t>>), Unmake(<<t, "indexes">>)}
      BY DEF Drop
    <3>5. QED
      BY <1>1, <2>1, <3>3, <3>4
  <2>4. DOMAIN Drops(ts) = 1 .. 2 * Len(ts) /\ Drops(ts) = [i \in 1 .. 2 * Len(ts) |-> Drops(ts)[i]]
    BY <2>2 DEF Drops, Pairs
  <2>5. Listed(Drops(ts))
    BY <1>1, <2>4, ListOfFunction
  <2>6. QED
    BY <2>3, <2>4, <2>5 DEF OfTables, Unmake
<1>5. QED
  BY <1>3, <1>4

LEMMA Together ==
    ASSUME NEW op, NEW S, NEW T, NEW s, NEW u, OfTables(s, op, S), OfTables(u, op, T)
    PROVE  OfTables(s \o u, op, S \cup T)
<1>1. /\ Listed(s \o u)
      /\ \A i \in DOMAIN (s \o u) :
            \/ i \in DOMAIN s /\ (s \o u)[i] = s[i]
            \/ i - Len(s) \in DOMAIN u /\ (s \o u)[i] = u[i - Len(s)]
  BY ListConcat DEF OfTables
<1>2. ASSUME NEW i \in DOMAIN (s \o u)
      PROVE  /\ (s \o u)[i].op = op
             /\ \E t \in S \cup T : (s \o u)[i].on \in {<<t>>, <<t, "indexes">>}
  <2>1. CASE i \in DOMAIN s /\ (s \o u)[i] = s[i]
    BY <2>1 DEF OfTables
  <2>2. CASE i - Len(s) \in DOMAIN u /\ (s \o u)[i] = u[i - Len(s)]
    BY <2>2 DEF OfTables
  <2>3. QED
    BY <1>1, <2>1, <2>2
<1>3. QED
  BY <1>1, <1>2 DEF OfTables

-----------------------------------------------------------------------------
(* The statements of the migrations that do more than make tables *)

LEMMA Up5 ==
    LET s == SchedulerTables IN
    /\ Len(s) = 6 /\ DOMAIN s = 1 .. 6
    /\ s[1] = Make(<<Posts>>)
    /\ s[2] = Make(<<Posts, "status">>)
    /\ s[3] = Make(<<Posts, "indexes">>)
    /\ s[4] = Make(<<Posts, "status", "index">>)
    /\ s[5] = Make(<<"scheduled_post_executions">>)
    /\ s[6] = Make(<<"scheduled_post_executions", "indexes">>)
  BY DEF SchedulerTables, Each, Part, Indexes, Rebuild, Table, Drop, Confirmation, Reverse

LEMMA Down5 ==
    LET s == NoSchedulerTables IN
    /\ Len(s) = 5 /\ DOMAIN s = 1 .. 5
    /\ s[1] = Unmake(<<"scheduled_post_executions", "indexes">>)
    /\ s[2] = Unmake(<<"scheduled_post_executions">>)
    /\ s[3] = Unmake(<<Posts, "status", "index">>)
    /\ s[4] = Unmake(<<Posts, "indexes">>)
    /\ s[5] = Unmake(<<Posts>>)
  BY DEF NoSchedulerTables, Each, Part, Indexes, Rebuild, Table, Drop, Confirmation, Reverse

LEMMA Up7 ==
    LET s == ConfirmationFields IN
    /\ Len(s) = 4 /\ DOMAIN s = 1 .. 4
    /\ s[1] = Make(<<Posts, "requires_confirmation">>)
    /\ s[2] = Make(<<Posts, "is_confirmed">>)
    /\ s[3] = Make(<<Posts, "confirmed_at">>)
    /\ s[4] = Make(<<Posts, "is_confirmed", "index">>)
  BY DEF ConfirmationFields, Each, Part, Indexes, Rebuild, Table, Drop, Confirmation, Reverse

LEMMA Down7 ==
    LET s == NoConfirmationFields IN
    /\ Len(s) = 4 /\ DOMAIN s = 1 .. 4
    /\ s[1] = Unmake(<<Posts, "is_confirmed", "index">>)
    /\ s[2] = Unmake(<<Posts, "confirmed_at">>)
    /\ s[3] = Unmake(<<Posts, "is_confirmed">>)
    /\ s[4] = Unmake(<<Posts, "requires_confirmation">>)
  BY DEF NoConfirmationFields, Each, Part, Indexes, Rebuild, Table, Drop, Confirmation, Reverse

LEMMA Up8 ==
    LET s == StateMachine IN
    /\ Len(s) = 19 /\ DOMAIN s = 1 .. 19
    /\ s[1] = Make(Copy(Posts))
    /\ s[2] = Rows("copy")
    /\ s[3] = Make(<<Posts, "owner_user_id">>)
    /\ s[4] = Make(<<Posts, "state">>)
    /\ s[5] = Make(<<Posts, "owner_user_id", "index">>)
    /\ s[6] = Make(<<Posts, "state", "index">>)
    /\ s[7] = Unmake(Copy(Posts))
    /\ s[8] = Rows("states")
    /\ s[9] = Unmake(<<Posts, "is_confirmed", "index">>)
    /\ s[10] = Unmake(<<Posts, "status", "index">>)
    /\ s[11] = Make(Copy(Posts))
    /\ s[12] = Rows("copy")
    /\ s[13] = Unmake(<<Posts, "requires_confirmation">>)
    /\ s[14] = Unmake(<<Posts, "is_confirmed">>)
    /\ s[15] = Unmake(<<Posts, "confirmed_at">>)
    /\ s[16] = Unmake(<<Posts, "status">>)
    /\ s[17] = Unmake(Copy(Posts))
    /\ s[18] = Make(<<"scheduled_post_audits">>)
    /\ s[19] = Make(<<"scheduled_post_audits", "indexes">>)
  BY DEF StateMachine, Each, Part, Indexes, Rebuild, Table, Drop, Confirmation, Reverse

LEMMA Down8 ==
    LET s == NoStateMachine IN
    /\ Len(s) = 19 /\ DOMAIN s = 1 .. 19
    /\ s[1] = Unmake(<<"scheduled_post_audits", "indexes">>)
    /\ s[2] = Unmake(<<"scheduled_post_audits">>)
    /\ s[3] = Make(Copy(Posts))
    /\ s[4] = Rows("copy")
    /\ s[5] = Make(<<Posts, "status">>)
    /\ s[6] = Make(<<Posts, "confirmed_at">>)
    /\ s[7] = Make(<<Posts, "is_confirmed">>)
    /\ s[8] = Make(<<Posts, "requires_confirmation">>)
    /\ s[9] = Make(<<Posts, "is_confirmed", "index">>)
    /\ s[10] = Unmake(Copy(Posts))
    /\ s[11] = Rows("status")
    /\ s[12] = Rows("is_confirmed")
    /\ s[13] = Make(Copy(Posts))
    /\ s[14] = Rows("copy")
    /\ s[15] = Unmake(<<Posts, "state", "index">>)
    /\ s[16] = Unmake(<<Posts, "owner_user_id", "index">>)
    /\ s[17] = Unmake(<<Posts, "state">>)
    /\ s[18] = Unmake(<<Posts, "owner_user_id">>)
    /\ s[19] = Unmake(Copy(Posts))
  BY DEF NoStateMachine, Each, Part, Indexes, Rebuild, Table, Drop, Confirmation, Reverse

LEMMA Up9 ==
    LET s == Locking IN
    /\ Len(s) = 5 /\ DOMAIN s = 1 .. 5
    /\ s[1] = Make(<<Posts, "version">>)
    /\ s[2] = Make(<<Posts, "version", "index">>)
    /\ s[3] = Make(<<Posts, "owner_state", "index">>)
    /\ s[4] = Make(<<"outbox_events">>)
    /\ s[5] = Make(<<"outbox_events", "indexes">>)
  BY DEF Locking, Each, Part, Indexes, Rebuild, Table, Drop, Confirmation, Reverse

LEMMA Down9 ==
    LET s == NoLocking IN
    /\ Len(s) = 8 /\ DOMAIN s = 1 .. 8
    /\ s[1] = Unmake(<<"outbox_events", "indexes">>)
    /\ s[2] = Unmake(<<"outbox_events">>)
    /\ s[3] = Make(Copy(Posts))
    /\ s[4] = Rows("copy")
    /\ s[5] = Unmake(<<Posts, "owner_state", "index">>)
    /\ s[6] = Unmake(<<Posts, "version", "index">>)
    /\ s[7] = Unmake(<<Posts, "version">>)
    /\ s[8] = Unmake(Copy(Posts))
  BY DEF NoLocking, Each, Part, Indexes, Rebuild, Table, Drop, Confirmation, Reverse

LEMMA UpColumns ==
    LET s == AggregateColumns IN
    /\ Len(s) = 13 /\ DOMAIN s = 1 .. 13
    /\ s[1] = Ensure(<<"products", "normalized_url">>)
    /\ s[2] = Ensure(<<"products", "marketplace">>)
    /\ s[3] = Ensure(<<"products", "external_product_id">>)
    /\ s[4] = Ensure(<<"products", "fingerprint">>)
    /\ s[5] = Ensure(<<"products", "aggregate_version">>)
    /\ s[6] = Ensure(<<"products", "category_id">>)
    /\ s[7] = Ensure(<<"products", "normalized_url", "index">>)
    /\ s[8] = Ensure(<<"products", "marketplace", "index">>)
    /\ s[9] = Ensure(<<"products", "external_product_id", "index">>)
    /\ s[10] = Ensure(<<"products", "fingerprint", "index">>)
    /\ s[11] = Ensure(<<"products", "aggregate_version", "index">>)
    /\ s[12] = Ensure(<<"products", "category_id", "index">>)
    /\ s[13] = Ensure(ItemIndex)
  BY DEF AggregateColumns, Each, Part, Indexes, ProductColumns

LEMMA UpTables ==
    LET s == AggregateTables IN
    /\ Len(s) = 8 /\ DOMAIN s = 1 .. 8
    /\ s[1] = Ensure(<<"product_categories">>)
    /\ s[2] = Ensure(<<"product_categories", "indexes">>)
    /\ s[3] = Ensure(<<"product_images">>)
    /\ s[4] = Ensure(<<"product_images", "indexes">>)
    /\ s[5] = Ensure(<<"product_price_histories">>)
    /\ s[6] = Ensure(<<"product_price_histories", "indexes">>)
    /\ s[7] = Ensure(<<"product_version_histories">>)
    /\ s[8] = Ensure(<<"product_version_histories", "indexes">>)
  BY DEF AggregateTables, Pairs, ProductTables

LEMMA UpRows ==
    LET s == AggregateRows IN
    /\ Len(s) = 6 /\ DOMAIN s = 1 .. 6
    /\ s[1] = Rows("normalized_url")
    /\ s[2] = Rows("aggregate")
    /\ s[3] = Make(Copy("products"))
    /\ s[4] = Rows("copy")
    /\ s[5] = Ensure(CategoryKey)
    /\ s[6] = Unmake(Copy("products"))
  BY DEF AggregateRows, Rebuild

LEMMA DownKey ==
    LET s == NoAggregateKey IN
    /\ Len(s) = 4 /\ DOMAIN s = 1 .. 4
    /\ s[1] = Make(Copy("products"))
    /\ s[2] = Rows("copy")
    /\ s[3] = Unmake(CategoryKey)
    /\ s[4] = Unmake(Copy("products"))
  BY DEF NoAggregateKey, Rebuild

LEMMA DownTables ==
    LET s == Drops(ProductTables) IN
    /\ Len(s) = 8 /\ DOMAIN s = 1 .. 8
    /\ s[1] = Unmake(<<"product_version_histories", "indexes">>)
    /\ s[2] = Unmake(<<"product_version_histories">>)
    /\ s[3] = Unmake(<<"product_price_histories", "indexes">>)
    /\ s[4] = Unmake(<<"product_price_histories">>)
    /\ s[5] = Unmake(<<"product_images", "indexes">>)
    /\ s[6] = Unmake(<<"product_images">>)
    /\ s[7] = Unmake(<<"product_categories", "indexes">>)
    /\ s[8] = Unmake(<<"product_categories">>)
  BY DEF Drops, Drop, Pairs, Reverse, ProductTables

LEMMA DownColumns ==
    LET s == NoAggregateColumns IN
    /\ Len(s) = 15 /\ DOMAIN s = 1 .. 15
    /\ s[1] = Make(Copy("products"))
    /\ s[2] = Rows("copy")
    /\ s[3] = Unmake(<<"products", "normalized_url", "index">>)
    /\ s[4] = Unmake(<<"products", "marketplace", "index">>)
    /\ s[5] = Unmake(<<"products", "external_product_id", "index">>)
    /\ s[6] = Unmake(<<"products", "fingerprint", "index">>)
    /\ s[7] = Unmake(<<"products", "aggregate_version", "index">>)
    /\ s[8] = Unmake(<<"products", "category_id", "index">>)
    /\ s[9] = Unmake(<<"products", "normalized_url">>)
    /\ s[10] = Unmake(<<"products", "marketplace">>)
    /\ s[11] = Unmake(<<"products", "external_product_id">>)
    /\ s[12] = Unmake(<<"products", "fingerprint">>)
    /\ s[13] = Unmake(<<"products", "aggregate_version">>)
    /\ s[14] = Unmake(<<"products", "category_id">>)
    /\ s[15] = Unmake(Copy("products"))
  BY DEF NoAggregateColumns, Rebuild, Each, Part, Indexes, ProductColumns

LEMMA Up10 ==
    LET s == Upgrades[10] IN
    /\ Listed(s) /\ Len(s) = 27 /\ DOMAIN s = 1 .. 27
    /\ \A k \in 1 .. 27 :
          \/ k \in 1 .. 13 /\ s[k] = AggregateColumns[k]
          \/ k - 13 \in 1 .. 8 /\ s[k] = AggregateTables[k - 13]
          \/ k - 21 \in 1 .. 6 /\ s[k] = AggregateRows[k - 21]
<1> DEFINE a == AggregateColumns
           b == AggregateTables
           c == AggregateRows
<1>a. a = [i \in 1 .. 13 |-> a[i]]
  BY UpColumns DEF AggregateColumns, Each
<1>b. b = [i \in 1 .. 8 |-> b[i]]
  BY UpTables DEF AggregateTables, Pairs
<1>c. c = [i \in 1 .. 6 |-> c[i]]
  BY DEF AggregateRows, Rebuild
<1>1. /\ Listed(a) /\ Len(a) = 13 /\ DOMAIN a = 1 .. 13
      /\ Listed(b) /\ Len(b) = 8 /\ DOMAIN b = 1 .. 8
      /\ Listed(c) /\ Len(c) = 6 /\ DOMAIN c = 1 .. 6
  BY <1>a, <1>b, <1>c, UpColumns, UpTables, UpRows, ListOfFunction
<1> HIDE DEF a, b, c
<1>2. /\ Listed(a \o b) /\ Len(a \o b) = 21
      /\ \A k \in DOMAIN (a \o b) :
            \/ k \in 1 .. 13 /\ (a \o b)[k] = a[k]
            \/ k - 13 \in 1 .. 8 /\ (a \o b)[k] = b[k - 13]
  <2>1. /\ Listed(a \o b) /\ Len(a \o b) = Len(a) + Len(b)
        /\ \A k \in DOMAIN (a \o b) :
              \/ k \in DOMAIN a /\ (a \o b)[k] = a[k]
              \/ k - Len(a) \in DOMAIN b /\ (a \o b)[k] = b[k - Len(a)]
    BY <1>1, ListConcat
  <2>2. QED
    BY <1>1, <2>1
<1>3. /\ Listed(a \o b \o c) /\ Len(a \o b \o c) = 27
      /\ \A k \in DOMAIN (a \o b \o c) :
            \/ k \in DOMAIN (a \o b) /\ (a \o b \o c)[k] = (a \o b)[k]
            \/ k - 21 \in 1 .. 6 /\ (a \o b \o c)[k] = c[k - 21]
  <2>1. /\ Listed(a \o b \o c) /\ Len(a \o b \o c) = Len(a \o b) + Len(c)
        /\ \A k \in DOMAIN (a \o b \o c) :
              \/ k \in DOMAIN (a \o b) /\ (a \o b \o c)[k] = (a \o b)[k]
              \/ k - Len(a \o b) \in DOMAIN c /\ (a \o b \o c)[k] = c[k - Len(a \o b)]
    BY <1>1, <1>2, ListConcat
  <2>2. QED
    BY <1>1, <1>2, <2>1
<1>4. DOMAIN (a \o b \o c) = 1 .. 27
  BY <1>3, ListLength
<1>5. Upgrades[10] = a \o b \o c
  BY DEF Upgrades, a, b, c
<1>6. QED
  BY <1>2, <1>3, <1>4, <1>5 DEF a, b, c

LEMMA Down10 ==
    LET s == Downgrades[10] IN
    /\ Listed(s) /\ Len(s) = 28 /\ DOMAIN s = 1 .. 28
    /\ \A k \in 1 .. 28 :
          \/ k \in 1 .. 4 /\ s[k] = NoAggregateKey[k]
          \/ k - 4 \in 1 .. 8 /\ s[k] = Drops(ProductTables)[k - 4]
          \/ k = 13 /\ s[k] = Unmake(ItemIndex)
          \/ k - 13 \in 1 .. 15 /\ s[k] = NoAggregateColumns[k - 13]
<1> DEFINE a == NoAggregateKey
           b == Drops(ProductTables)
           c == <<Unmake(ItemIndex)>>
           d == NoAggregateColumns
<1>a. a = [i \in 1 .. 4 |-> a[i]]
  BY DEF NoAggregateKey, Rebuild
<1>b. b = [i \in 1 .. 8 |-> b[i]]
  BY DownTables DEF Drops, Pairs
<1>c. /\ Len(c) = 1 /\ DOMAIN c = 1 .. 1 /\ c[1] = Unmake(ItemIndex)
      /\ c = [i \in 1 .. 1 |-> c[i]]
  OBVIOUS
<1>d. d = [i \in 1 .. 15 |-> d[i]]
  BY DEF NoAggregateColumns, Rebuild, Each, Part, Indexes, ProductColumns
<1>1. /\ Listed(a) /\ Len(a) = 4 /\ DOMAIN a = 1 .. 4
      /\ Listed(b) /\ Len(b) = 8 /\ DOMAIN b = 1 .. 8
      /\ Listed(c) /\ Len(c) = 1 /\ DOMAIN c = 1 .. 1 /\ c[1] = Unmake(ItemIndex)
      /\ Listed(d) /\ Len(d) = 15 /\ DOMAIN d = 1 .. 15
  BY <1>a, <1>b, <1>c, <1>d, DownKey, DownTables, DownColumns, ListOfFunction
<1> HIDE DEF a, b, c, d
<1>2. /\ Listed(a \o b) /\ Len(a \o b) = 12
      /\ \A k \in DOMAIN (a \o b) :
            \/ k \in 1 .. 4 /\ (a \o b)[k] = a[k]
            \/ k - 4 \in 1 .. 8 /\ (a \o b)[k] = b[k - 4]
  <2>1. /\ Listed(a \o b) /\ Len(a \o b) = Len(a) + Len(b)
        /\ \A k \in DOMAIN (a \o b) :
              \/ k \in DOMAIN a /\ (a \o b)[k] = a[k]
              \/ k - Len(a) \in DOMAIN b /\ (a \o b)[k] = b[k - Len(a)]
    BY <1>1, ListConcat
  <2>2. QED
    BY <1>1, <2>1
<1>3. /\ Listed(a \o b \o c) /\ Len(a \o b \o c) = 13
      /\ \A k \in DOMAIN (a \o b \o c) :
            \/ k \in DOMAIN (a \o b) /\ (a \o b \o c)[k] = (a \o b)[k]
            \/ k - 12 \in 1 .. 1 /\ (a \o b \o c)[k] = c[k - 12]
  <2>1. /\ Listed(a \o b \o c) /\ Len(a \o b \o c) = Len(a \o b) + Len(c)
        /\ \A k \in DOMAIN (a \o b \o c) :
              \/ k \in DOMAIN (a \o b) /\ (a \o b \o c)[k] = (a \o b)[k]
              \/ k - Len(a \o b) \in DOMAIN c /\ (a \o b \o c)[k] = c[k - Len(a \o b)]
    BY <1>1, <1>2, ListConcat
  <2>2. QED
    BY <1>1, <1>2, <2>1
<1>4. /\ Listed(a \o b \o c \o d) /\ Len(a \o b \o c \o d) = 28
      /\ \A k \in DOMAIN (a \o b \o c \o d) :
            \/ k \in DOMAIN (a \o b \o c) /\ (a \o b \o c \o d)[k] = (a \o b \o c)[k]
            \/ k - 13 \in 1 .. 15 /\ (a \o b \o c \o d)[k] = d[k - 13]
  <2>1. /\ Listed(a \o b \o c \o d) /\ Len(a \o b \o c \o d) = Len(a \o b \o c) + Len(d)
        /\ \A k \in DOMAIN (a \o b \o c \o d) :
              \/ k \in DOMAIN (a \o b \o c) /\ (a \o b \o c \o d)[k] = (a \o b \o c)[k]
              \/ k - Len(a \o b \o c) \in DOMAIN d /\ (a \o b \o c \o d)[k] = d[k - Len(a \o b \o c)]
    BY <1>1, <1>3, ListConcat
  <2>2. QED
    BY <1>1, <1>3, <2>1
<1>5. DOMAIN (a \o b \o c \o d) = 1 .. 28
  BY <1>4, ListLength
<1>6. \A k \in 1 .. 28 : k - 12 \in 1 .. 1 => k = 13 /\ c[k - 12] = Unmake(ItemIndex)
  BY <1>1
<1>7. Downgrades[10] = a \o b \o c \o d
  BY DEF Downgrades, NoAggregate, a, b, c, d
<1>8. \A k \in 1 .. 28 :
         \/ k \in 1 .. 4 /\ (a \o b \o c \o d)[k] = a[k]
         \/ k - 4 \in 1 .. 8 /\ (a \o b \o c \o d)[k] = b[k - 4]
         \/ k = 13 /\ (a \o b \o c \o d)[k] = Unmake(ItemIndex)
         \/ k - 13 \in 1 .. 15 /\ (a \o b \o c \o d)[k] = d[k - 13]
  BY <1>2, <1>3, <1>4, <1>5, <1>6
<1>9. QED
  BY <1>4, <1>5, <1>7, <1>8 DEF a, b, d

-----------------------------------------------------------------------------
(* The migrations that only make tables *)

\* The tables that each migration works on.
TablesOf ==
    <<{"users"}, {"products"}, {"caption_batches", "captions"}, {"promotional_images"},
      {Posts, "scheduled_post_executions"}, {"analytics_events"}, {Posts},
      {Posts, "_alembic_tmp_", "scheduled_post_audits"}, {Posts, "outbox_events"},
      {"products", "_alembic_tmp_", "product_categories", "product_images",
       "product_price_histories", "product_version_histories"},
      {"prompt_templates", "prompt_variables", "ai_provider_configs",
       "generated_contents", "generated_content_versions"},
      {"image_templates", "image_provider_configs", "image_assets",
       "generated_images", "generated_image_versions", "image_histories"},
      {"social_accounts", "platform_credentials", "publishing_jobs",
       "publishing_queues", "publishing_histories", "media_attachments",
       "publishing_audit_logs", "publishing_dead_letter_queue"},
      {"tenants", "organizations", "workspaces", "workspace_members",
       "workspace_invitations", "tenant_subscriptions", "payment_transactions",
       "usage_records", "api_keys", "audit_events", "notification_channels",
       "notification_events", "content_calendar_items", "affiliate_ai_insights",
       "customer_feedback"}>>

LEMMA InTables ==
    /\ CaptionTables \in Seq(TablesOf[3])
    /\ ContentTables \in Seq(TablesOf[11]) /\ ContentVersionTables \in Seq(TablesOf[11])
    /\ ImageTables \in Seq(TablesOf[12]) /\ ImageVersionTables \in Seq(TablesOf[12])
    /\ SocialTables \in Seq(TablesOf[13]) /\ JobTables \in Seq(TablesOf[13])
    /\ HistoryTables \in Seq(TablesOf[13])
    /\ TenantTables \in Seq(TablesOf[14]) /\ BillingTables \in Seq(TablesOf[14])
    /\ MessageTables \in Seq(TablesOf[14]) /\ InsightTables \in Seq(TablesOf[14])
<1>1. CaptionTables \in Seq(TablesOf[3])
  BY DEF CaptionTables, TablesOf
<1>2. ContentTables \in Seq(TablesOf[11]) /\ ContentVersionTables \in Seq(TablesOf[11])
  BY DEF ContentTables, ContentVersionTables, TablesOf
<1>3. ImageTables \in Seq(TablesOf[12]) /\ ImageVersionTables \in Seq(TablesOf[12])
  BY DEF ImageTables, ImageVersionTables, TablesOf
<1>4. /\ SocialTables \in Seq(TablesOf[13]) /\ JobTables \in Seq(TablesOf[13])
      /\ HistoryTables \in Seq(TablesOf[13])
  BY DEF SocialTables, JobTables, HistoryTables, TablesOf
<1>5. TenantTables \in Seq(TablesOf[14]) /\ BillingTables \in Seq(TablesOf[14])
  BY DEF TenantTables, BillingTables, TablesOf
<1>6. MessageTables \in Seq(TablesOf[14]) /\ InsightTables \in Seq(TablesOf[14])
  BY DEF MessageTables, InsightTables, TablesOf
<1>7. QED
  BY <1>1, <1>2, <1>3, <1>4, <1>5, <1>6

LEMMA SomeTables ==
    ASSUME NEW r \in 1 .. 14, NEW s \in Seq(TablesOf[r])
    PROVE  OfTables(Tables(s), "make", TablesOf[r]) /\ OfTables(Drops(s), "unmake", TablesOf[r])
  BY PairsOf

LEMMA JoinTables ==
    ASSUME NEW op, NEW T, NEW s, NEW u, OfTables(s, op, T), OfTables(u, op, T)
    PROVE  OfTables(s \o u, op, T)
<1>1. OfTables(s \o u, op, T \cup T)
  BY Together
<1>2. T \cup T = T
  OBVIOUS
<1>3. QED
  BY <1>1, <1>2

LEMMA SingleTable ==
    ASSUME NEW t, NEW T, t \in T
    PROVE  OfTables(Table(t), "make", T) /\ OfTables(Drop(t), "unmake", T)
  BY OneTable DEF OfTables

LEMMA Numbered ==
    /\ HeadRevision = 14
    /\ Upgrades[1] = Users /\ Downgrades[1] = NoUsers
    /\ Upgrades[2] = Products /\ Downgrades[2] = NoProducts
    /\ Upgrades[3] = Captions /\ Downgrades[3] = NoCaptions
    /\ Upgrades[4] = PromotionalImages /\ Downgrades[4] = NoPromotionalImages
    /\ Upgrades[5] = SchedulerTables /\ Downgrades[5] = NoSchedulerTables
    /\ Upgrades[6] = AnalyticsEvents /\ Downgrades[6] = NoAnalyticsEvents
    /\ Upgrades[7] = ConfirmationFields /\ Downgrades[7] = NoConfirmationFields
    /\ Upgrades[8] = StateMachine /\ Downgrades[8] = NoStateMachine
    /\ Upgrades[9] = Locking /\ Downgrades[9] = NoLocking
    /\ Upgrades[11] = Content \o ContentVersions /\ Downgrades[11] = NoContent
    /\ Upgrades[12] = Images \o ImageVersions /\ Downgrades[12] = NoImages
    /\ Upgrades[13] = Social \o Jobs \o Histories /\ Downgrades[13] = NoSocial
    /\ Upgrades[14] = Tenants \o Billing \o Messages \o Insights
    /\ Downgrades[14] = NoTenants
  BY DEF HeadRevision, Upgrades, Downgrades

Plain == {1, 2, 3, 4, 6, 11, 12, 13, 14}

LEMMA PlainTables ==
    \A r \in Plain :
       /\ OfTables(Upgrades[r], "make", TablesOf[r])
       /\ OfTables(Downgrades[r], "unmake", TablesOf[r])
<1>1. /\ OfTables(Upgrades[1], "make", TablesOf[1])
      /\ OfTables(Downgrades[1], "unmake", TablesOf[1])
  BY Numbered, SingleTable DEF TablesOf, Users, NoUsers
<1>2. /\ OfTables(Upgrades[2], "make", TablesOf[2])
      /\ OfTables(Downgrades[2], "unmake", TablesOf[2])
  BY Numbered, SingleTable DEF TablesOf, Products, NoProducts
<1>3. /\ OfTables(Upgrades[3], "make", TablesOf[3])
      /\ OfTables(Downgrades[3], "unmake", TablesOf[3])
  BY Numbered, InTables, SomeTables DEF Captions, NoCaptions
<1>4. /\ OfTables(Upgrades[4], "make", TablesOf[4])
      /\ OfTables(Downgrades[4], "unmake", TablesOf[4])
  BY Numbered, SingleTable DEF TablesOf, PromotionalImages, NoPromotionalImages
<1>6. /\ OfTables(Upgrades[6], "make", TablesOf[6])
      /\ OfTables(Downgrades[6], "unmake", TablesOf[6])
  BY Numbered, SingleTable DEF TablesOf, AnalyticsEvents, NoAnalyticsEvents
<1>11. /\ OfTables(Upgrades[11], "make", TablesOf[11])
       /\ OfTables(Downgrades[11], "unmake", TablesOf[11])
  <2>1. OfTables(Upgrades[11], "make", TablesOf[11])
    BY Numbered, InTables, SomeTables, JoinTables DEF Content, ContentVersions
  <2>2. ContentTables \o ContentVersionTables \in Seq(TablesOf[11])
    BY InTables, ConcatProperties
  <2> DEFINE ts == ContentTables \o ContentVersionTables
  <2>3. Downgrades[11] = Drops(ts) /\ ts \in Seq(TablesOf[11])
    BY <2>2, Numbered DEF NoContent
  <2> HIDE DEF ts
  <2>4. OfTables(Downgrades[11], "unmake", TablesOf[11])
    BY <2>3, PairsOf
  <2>5. QED
    BY <2>1, <2>4
<1>12. /\ OfTables(Upgrades[12], "make", TablesOf[12])
       /\ OfTables(Downgrades[12], "unmake", TablesOf[12])
  <2>1. OfTables(Upgrades[12], "make", TablesOf[12])
    BY Numbered, InTables, SomeTables, JoinTables DEF Images, ImageVersions
  <2>2. ImageTables \o ImageVersionTables \in Seq(TablesOf[12])
    BY InTables, ConcatProperties
  <2> DEFINE ts == ImageTables \o ImageVersionTables
  <2>3. Downgrades[12] = Drops(ts) /\ ts \in Seq(TablesOf[12])
    BY <2>2, Numbered DEF NoImages
  <2> HIDE DEF ts
  <2>4. OfTables(Downgrades[12], "unmake", TablesOf[12])
    BY <2>3, PairsOf
  <2>5. QED
    BY <2>1, <2>4
<1>13. /\ OfTables(Upgrades[13], "make", TablesOf[13])
       /\ OfTables(Downgrades[13], "unmake", TablesOf[13])
  <2>1. OfTables(Upgrades[13], "make", TablesOf[13])
    BY Numbered, InTables, SomeTables, JoinTables DEF Social, Jobs, Histories
  <2>2. SocialTables \o JobTables \o HistoryTables \in Seq(TablesOf[13])
    BY InTables, ConcatProperties
  <2> DEFINE ts == SocialTables \o JobTables \o HistoryTables
  <2>3. Downgrades[13] = Drops(ts) /\ ts \in Seq(TablesOf[13])
    BY <2>2, Numbered DEF NoSocial
  <2> HIDE DEF ts
  <2>4. OfTables(Downgrades[13], "unmake", TablesOf[13])
    BY <2>3, PairsOf
  <2>5. QED
    BY <2>1, <2>4
<1>14. /\ OfTables(Upgrades[14], "make", TablesOf[14])
       /\ OfTables(Downgrades[14], "unmake", TablesOf[14])
  <2>1. OfTables(Upgrades[14], "make", TablesOf[14])
    BY Numbered, InTables, SomeTables, JoinTables DEF Tenants, Billing, Messages, Insights
  <2>2. TenantTables \o BillingTables \o MessageTables \o InsightTables \in Seq(TablesOf[14])
    BY InTables, ConcatProperties
  <2> DEFINE ts == TenantTables \o BillingTables \o MessageTables \o InsightTables
  <2>3. Downgrades[14] = Drops(ts) /\ ts \in Seq(TablesOf[14])
    BY <2>2, Numbered DEF NoTenants
  <2> HIDE DEF ts
  <2>4. OfTables(Downgrades[14], "unmake", TablesOf[14])
    BY <2>3, PairsOf
  <2>5. QED
    BY <2>1, <2>4
<1>15. QED
  BY <1>1, <1>2, <1>3, <1>4, <1>6, <1>11, <1>12, <1>13, <1>14 DEF Plain

-----------------------------------------------------------------------------
(* What all lists of statements have in common *)

Proper(s) ==
    /\ Len(s) \in Nat /\ DOMAIN s = 1 .. Len(s)
    /\ \A k \in DOMAIN s : s[k].op \in {"make", "ensure", "unmake", "rows"}

LEMMA Properly == \A r \in 1 .. 14 : Proper(Upgrades[r]) /\ Proper(Downgrades[r])
<1>1. ASSUME NEW s, NEW op \in {"make", "unmake"}, NEW T, OfTables(s, op, T)
      PROVE  Proper(s)
  BY <1>1, ListLength DEF OfTables, Proper
<1>2. \A r \in Plain : Proper(Upgrades[r]) /\ Proper(Downgrades[r])
  BY <1>1, PlainTables
<1>5. Proper(Upgrades[5]) /\ Proper(Downgrades[5])
  BY Numbered, Up5, Down5 DEF Proper, Make, Unmake
<1>7. Proper(Upgrades[7]) /\ Proper(Downgrades[7])
  BY Numbered, Up7, Down7 DEF Proper, Make, Unmake
<1>8. Proper(Upgrades[8]) /\ Proper(Downgrades[8])
  <2>1. Proper(StateMachine)
    BY Up8 DEF Proper, Make, Unmake, Rows
  <2>2. Proper(NoStateMachine)
    BY Down8 DEF Proper, Make, Unmake, Rows
  <2>3. QED
    BY <2>1, <2>2, Numbered
<1>9. Proper(Upgrades[9]) /\ Proper(Downgrades[9])
  BY Numbered, Up9, Down9 DEF Proper, Make, Unmake, Rows
<1>10. Proper(Upgrades[10]) /\ Proper(Downgrades[10])
  <2>1. Proper(AggregateColumns) /\ Proper(AggregateTables) /\ Proper(AggregateRows)
    BY UpColumns, UpTables, UpRows DEF Proper, Make, Unmake, Ensure, Rows
  <2>2. /\ DOMAIN AggregateColumns = 1 .. 13 /\ DOMAIN AggregateTables = 1 .. 8
        /\ DOMAIN AggregateRows = 1 .. 6
    BY UpColumns, UpTables, UpRows
  <2>3. Proper(Upgrades[10])
    <3>1. SUFFICES ASSUME NEW k \in 1 .. 27
                   PROVE  Upgrades[10][k].op \in {"make", "ensure", "unmake", "rows"}
      BY Up10 DEF Proper
    <3>2. CASE k \in 1 .. 13 /\ Upgrades[10][k] = AggregateColumns[k]
      BY <2>1, <2>2, <3>2 DEF Proper
    <3>3. CASE k - 13 \in 1 .. 8 /\ Upgrades[10][k] = AggregateTables[k - 13]
      BY <2>1, <2>2, <3>3 DEF Proper
    <3>4. CASE k - 21 \in 1 .. 6 /\ Upgrades[10][k] = AggregateRows[k - 21]
      BY <2>1, <2>2, <3>4 DEF Proper
    <3>5. QED
      BY <3>2, <3>3, <3>4, Up10
  <2>4. Proper(NoAggregateKey) /\ DOMAIN NoAggregateKey = 1 .. 4
    BY DownKey DEF Proper, Make, Unmake, Rows
  <2>5. Proper(Drops(ProductTables)) /\ DOMAIN Drops(ProductTables) = 1 .. 8
    BY DownTables DEF Proper, Unmake
  <2>6. Proper(NoAggregateColumns) /\ DOMAIN NoAggregateColumns = 1 .. 15
    BY DownColumns DEF Proper, Make, Unmake, Rows
  <2>7. Proper(Downgrades[10])
    <3>1. SUFFICES ASSUME NEW k \in 1 .. 28
                   PROVE  Downgrades[10][k].op \in {"make", "ensure", "unmake", "rows"}
      BY Down10 DEF Proper
    <3>2. CASE k \in 1 .. 4 /\ Downgrades[10][k] = NoAggregateKey[k]
      BY <2>4, <3>2 DEF Proper
    <3>3. CASE k - 4 \in 1 .. 8 /\ Downgrades[10][k] = Drops(ProductTables)[k - 4]
      BY <2>5, <3>3 DEF Proper
    <3>4. CASE k = 13 /\ Downgrades[10][k] = Unmake(ItemIndex)
      BY <3>4 DEF Unmake
    <3>5. CASE k - 13 \in 1 .. 15 /\ Downgrades[10][k] = NoAggregateColumns[k - 13]
      BY <2>6, <3>5 DEF Proper
    <3>6. QED
      BY <3>2, <3>3, <3>4, <3>5, Down10
  <2>8. QED
    BY <2>3, <2>7
<1>11. QED
  BY <1>2, <1>5, <1>7, <1>8, <1>9, <1>10 DEF Plain

-----------------------------------------------------------------------------
(* What a statement does to a database *)

IsDatabase(d) ==
    d \in [schema : {d.schema}, revision : 0 .. HeadRevision,
           products : SUBSET OldProducts, versions : [OldProducts -> Nat],
           admins : {0, 1}, images : SUBSET Pictures]

LEMMA DoneProperly ==
    ASSUME NEW s, s.op \in {"make", "ensure", "unmake", "rows"},
           NEW d, IsDatabase(d)
    PROVE  /\ IsDatabase(Done(s, d))
           /\ Done(s, d).revision = d.revision
           /\ Done(s, d).admins = d.admins
           /\ Done(s, d).images = d.images
<1>1. CASE Makes(s)
  <2>1. Done(s, d) = [d EXCEPT !.schema = @ \cup {s.on}]
    BY <1>1 DEF Done, Makes
  <2>2. QED
    BY <2>1 DEF IsDatabase
<1>2. CASE s.op = "unmake"
  <2>1. ~Makes(s)
    BY <1>2 DEF Makes
  <2>2. Done(s, d) = [d EXCEPT !.schema = {o \in @ : ~Takes(s, o)},
                     !.products = IF s.on = <<"products">> THEN {} ELSE @,
                     !.versions = IF s.on = <<"product_version_histories">>
                                  THEN [p \in OldProducts |-> 0] ELSE @]
    BY <1>2, <2>1 DEF Done
  <2> DEFINE S == {o \in d.schema : ~Takes(s, o)}
             P == IF s.on = <<"products">> THEN {} ELSE d.products
             V == IF s.on = <<"product_version_histories">>
                  THEN [p \in OldProducts |-> 0] ELSE d.versions
  <2>3. P \in SUBSET OldProducts /\ V \in [OldProducts -> Nat]
    BY DEF IsDatabase
  <2>4. Done(s, d) = [d EXCEPT !.schema = S, !.products = P, !.versions = V]
    BY <2>2
  <2> HIDE DEF S, P, V
  <2>5. QED
    BY <2>3, <2>4 DEF IsDatabase
<1>3. CASE s.op = "rows"
  <2>1. ~Makes(s) /\ s.op # "unmake"
    BY <1>3 DEF Makes
  <2>2. Done(s, d) = IF s.on = "aggregate"
           THEN [d EXCEPT !.versions =
                    [p \in OldProducts |-> IF p \in d.products THEN @[p] + 1 ELSE @[p]]]
           ELSE d
    BY <1>3, <2>1 DEF Done
  <2>3. QED
    BY <2>2 DEF IsDatabase
<1>4. QED
  BY <1>1, <1>2, <1>3 DEF Makes

LEMMA AfterProperly ==
    \A r \in 0 .. HeadRevision :
       /\ IsDatabase(After[r])
       /\ After[r].revision = r /\ After[r].products = {} /\ After[r].images = {}
       /\ After[r].admins = 0 /\ After[r].versions = [p \in OldProducts |-> 0]
  BY DEF After, IsDatabase, NoDatabase

-----------------------------------------------------------------------------
(* The values of the variables, and the way of a migration *)

Stored(b) == b = <<>> \/ (b = <<b[1]>> /\ IsDatabase(b[1]))
Archived(z) == z = <<>> \/ (z = <<z[1]>> /\ z[1] \subseteq Pictures)

MigratorOK ==
    /\ IsDatabase(work) /\ open \in BOOLEAN
    /\ migrator \in {"idle", "up", "down", "up failed", "down failed"}
    /\ at \in Nat /\ target \in 0 .. HeadRevision /\ torn \in BOOLEAN

ServersOK ==
    /\ server \in [Servers -> {"down", "count", "find", "create", "up"}]
    /\ saved \in [Servers -> SUBSET Pictures]

BackupOK ==
    /\ backup \in [pc : {"none", "database", "images", "manifest", "done"},
                   db : {backup.db}, zip : {backup.zip},
                   manifest : BOOLEAN, spoiled : BOOLEAN]
    /\ Stored(backup.db) /\ Archived(backup.zip)
    /\ backup.pc \in {"none", "database", "images"} => backup.zip = <<>>

RestoreOK ==
    /\ restore \in {"idle", "images", "move"} /\ partial \in BOOLEAN
    /\ restore = "move" => backup.zip # <<>>

TypeOK ==
    /\ IsDatabase(db) /\ files \subseteq Pictures
    /\ MigratorOK /\ ServersOK /\ BackupOK /\ RestoreOK

Way ==
    /\ migrator = "up" => db.revision < HeadRevision /\ target = HeadRevision
    /\ migrator = "down" => target < db.revision
    /\ Running => at > 0
    /\ open => Running /\ work.revision = db.revision

LEMMA ProperStatements ==
    ASSUME TypeOK, Way, Running
    PROVE  /\ Proper(Statements)
           /\ migrator = "up" => db.revision + 1 \in 1 .. 14
                                   /\ Statements = Upgrades[db.revision + 1]
           /\ migrator = "down" => db.revision \in 1 .. 14
                                   /\ Statements = Downgrades[db.revision]
<1>a. db.revision \in 0 .. 14 /\ target \in 0 .. 14 /\ HeadRevision = 14
  BY Numbered DEF TypeOK, MigratorOK, IsDatabase
<1>1. CASE migrator = "up"
  <2>1. db.revision + 1 \in 1 .. 14
    BY <1>a, <1>1 DEF Way
  <2>2. QED
    BY <1>1, <2>1, Properly DEF Statements
<1>2. CASE migrator = "down"
  <2>1. db.revision \in 1 .. 14
    BY <1>a, <1>2 DEF Way
  <2>2. QED
    BY <1>2, <2>1, Properly DEF Statements
<1>3. QED
  BY <1>1, <1>2 DEF Running

(* A copy is of what there is, and there is none only of what is empty. *)
LEMMA CopyTaken ==
    ASSUME NEW x, NEW empty, NEW c \in Copies(x, empty)
    PROVE  /\ c = <<x>> \/ c = <<>>
           /\ c # <<>> => c[1] = x
           /\ c = <<>> => x = empty
<1>1. <<x>>[1] = x /\ <<x>> # <<>>
  OBVIOUS
<1>2. c = <<x>> \/ (c = <<>> /\ x = empty)
  BY DEF Copies
<1>3. QED
  BY <1>1, <1>2

(* A step of scripts/backup.py keeps its copy of the database or takes it. *)
LEMMA DatabaseCopy ==
    ASSUME TypeOK,
           \/ StartBackup \/ BackupDatabase \/ BackupImages \/ WriteManifest
           \/ BackupDies \/ SpoilArchive
    PROVE  \/ backup'.db = backup.db
           \/ BackupDatabase /\ (backup'.db = <<db>> \/ backup'.db = <<>>)
<1>1. CASE BackupDatabase
  <2>1. PICK c \in Copies(db, NoDatabase) :
          backup' = [backup EXCEPT !.db = c, !.pc = Following(@)]
    BY <1>1 DEF BackupDatabase
  <2>2. backup'.db = c
    BY <2>1 DEF TypeOK, BackupOK
  <2>3. QED
    BY <1>1, <2>2, CopyTaken
<1>2. CASE BackupImages
  <2>1. PICK c : backup' = [backup EXCEPT !.zip = c, !.pc = Following(@)]
    BY <1>2 DEF BackupImages
  <2>2. QED
    BY <2>1 DEF TypeOK, BackupOK
<1>3. CASE StartBackup \/ WriteManifest \/ BackupDies \/ SpoilArchive
  BY <1>3 DEF StartBackup, WriteManifest, BackupDies, SpoilArchive, TypeOK, BackupOK
<1>4. QED
  BY <1>1, <1>2, <1>3

LEMMA TypeInit == Init => TypeOK /\ Way
<1> SUFFICES ASSUME Init PROVE TypeOK /\ Way
  OBVIOUS
<1>1. IsDatabase(NoDatabase)
  BY Numbered DEF NoDatabase, IsDatabase
<1>2. IsDatabase(db)
  <2>1. CASE db = NoDatabase
    BY <1>1, <2>1
  <2>2. ASSUME NEW ps \in SUBSET OldProducts,
               db = [After[9] EXCEPT !.products = ps, !.admins = 1]
        PROVE  IsDatabase(db)
    <3>1. IsDatabase(After[9])
      BY AfterProperly, Numbered
    <3>2. QED
      BY <2>2, <3>1 DEF IsDatabase
  <2>3. QED
    BY <2>1, <2>2 DEF Init
<1>3. TypeOK
  <2>1. /\ Stored(backup.db) /\ Archived(backup.zip)
        /\ backup \in [pc : {"none", "database", "images", "manifest", "done"},
                       db : {backup.db}, zip : {backup.zip},
                       manifest : BOOLEAN, spoiled : BOOLEAN]
    BY DEF Init, Stored, Archived
  <2>2. 0 \in 0 .. HeadRevision
    BY Numbered
  <2>3. QED
    BY <1>1, <1>2, <2>1, <2>2 DEF Init, TypeOK, MigratorOK, ServersOK, BackupOK, RestoreOK
<1>4. QED
  BY <1>3 DEF Init, Way, Running

LEMMA TypeStep == TypeOK /\ Way /\ [Next]_vars => TypeOK' /\ Way'
<1> SUFFICES ASSUME TypeOK, Way, [Next]_vars PROVE TypeOK' /\ Way'
  OBVIOUS
<1> USE DEF migrating, serving, copying
<1>a. IsDatabase(NoDatabase) /\ NoDatabase.revision = 0 /\ HeadRevision = 14
  BY Numbered DEF NoDatabase, IsDatabase
<1>b. /\ IsDatabase(View) /\ IsDatabase(db) /\ IsDatabase(work)
      /\ View.revision = db.revision
  BY DEF TypeOK, MigratorOK, Way, View
<1>c. db.revision \in 0 .. 14 /\ target \in 0 .. 14 /\ at \in Nat
  BY <1>a DEF TypeOK, MigratorOK, IsDatabase
<1>d. UNCHANGED migrating => MigratorOK'
  BY DEF TypeOK, MigratorOK
<1>e. UNCHANGED serving => ServersOK'
  BY DEF TypeOK, ServersOK
<1>f. UNCHANGED backup => BackupOK'
  BY DEF TypeOK, BackupOK
<1>g. UNCHANGED copying => RestoreOK'
  BY DEF TypeOK, RestoreOK
<1>h. UNCHANGED migrating /\ db'.revision = db.revision => Way'
  BY DEF Way, Running
<1>i. UNCHANGED db => IsDatabase(db')
  BY <1>b
<1>1. ASSUME \/ StartUpgrade
             \/ \E r \in Targets : StartDowngrade(r)
      PROVE  TypeOK' /\ Way'
  <2>1. PICK way \in {"up", "down"}, to \in 0 .. 14 :
           /\ StartMigrator(way, to)
           /\ way = "up" => db.revision < HeadRevision /\ to = HeadRevision
           /\ way = "down" => to < db.revision
    BY <1>1, <1>a, DeploymentAssumption DEF StartUpgrade, StartDowngrade
  <2>2. /\ migrator' = way /\ target' = to /\ at' = 1 /\ ~Running
        /\ UNCHANGED <<db, work, open, torn, serving, files, copying>>
    BY <2>1 DEF StartMigrator
  <2>3. IsDatabase(work') /\ IsDatabase(db')
    BY <1>b, <2>2
  <2>4. MigratorOK'
    BY <1>a, <2>2, <2>3 DEF TypeOK, MigratorOK
  <2>5. TypeOK'
    BY <2>2, <2>3, <2>4, <1>e, <1>f, <1>g DEF TypeOK
  <2>6. Way'
    BY <2>1, <2>2 DEF Way, Running
  <2>7. QED
    BY <2>5, <2>6
<1>3. CASE Execute
  <2>1. at \in 1 .. Len(Statements) /\ Running
    <3>1. Running /\ at <= Len(Statements) /\ at > 0
      BY <1>3 DEF Execute, Way
    <3>2. Len(Statements) \in Nat
      BY <3>1, ProperStatements DEF Proper
    <3>3. QED
      BY <3>1, <3>2, <1>c
  <2>2. Statements[at].op \in {"make", "ensure", "unmake", "rows"}
    BY <2>1, ProperStatements DEF Proper
  <2> DEFINE d == Done(Statements[at], View)
  <2>3. IsDatabase(d) /\ d.revision = db.revision
    BY <1>b, <2>2, DoneProperly
  <2> HIDE DEF d
  <2>4. /\ \/ work' = d /\ db' = db /\ open'
           \/ db' = d /\ work' = work /\ ~open'
        /\ open' \in BOOLEAN /\ at' = at + 1
        /\ UNCHANGED <<migrator, target, torn, serving, files, copying>>
    BY <1>3 DEF Execute, d, TypeOK, MigratorOK, Opens
  <2>5. TypeOK'
    <3>1. IsDatabase(work')
      BY <2>3, <2>4, <1>b
    <3>2. IsDatabase(db')
      BY <2>3, <2>4, <1>b
    <3>3. /\ open' \in BOOLEAN /\ target' \in 0 .. HeadRevision /\ torn' \in BOOLEAN
          /\ migrator' \in {"idle", "up", "down", "up failed", "down failed"}
      BY <2>4 DEF TypeOK, MigratorOK
    <3>4. at' \in Nat
      BY <2>4, <1>c
    <3>5. MigratorOK'
      BY <3>1, <3>3, <3>4 DEF MigratorOK
    <3>6. files' \subseteq Pictures
      BY <2>4 DEF TypeOK
    <3>7. QED
      BY <3>2, <3>5, <3>6, <2>4, <1>e, <1>f, <1>g DEF TypeOK
  <2>6. Way'
    BY <2>1, <2>3, <2>4, <1>c DEF Way, Running
  <2>7. QED
    BY <2>5, <2>6
<1>4. CASE StatementFails
  BY <1>4, <1>a, <1>e, <1>f, <1>g, <1>i DEF StatementFails, Ended, Running, TypeOK, MigratorOK, Way
<1>5. CASE Stamp
  <2> DEFINE r == db.revision + (IF migrator = "up" THEN 1 ELSE -1)
             d == [View EXCEPT !.revision = r]
  <2>1. r \in 0 .. 14
    BY <1>5, <1>a, <1>c DEF Stamp, Running, Way
  <2>2. IsDatabase(d) /\ d.revision = r
    BY <1>a, <1>b, <2>1 DEF IsDatabase
  <2>3. /\ db' = d /\ Running /\ work' = NoDatabase /\ open' = FALSE
        /\ UNCHANGED <<target, torn, serving, files, copying>>
        /\ IF r = target THEN migrator' = "idle" /\ at' = 0
                         ELSE at' = 1 /\ UNCHANGED migrator
    BY <1>5 DEF Stamp, Ended
  <2>4. TypeOK'
    <3> HIDE DEF d
    <3>1. IsDatabase(work') /\ at' \in Nat
      BY <1>a, <1>c, <2>3
    <3>2. MigratorOK'
      BY <2>3, <3>1 DEF TypeOK, MigratorOK
    <3>3. QED
      BY <2>2, <2>3, <3>2, <1>e, <1>f, <1>g DEF TypeOK
  <2>5. Way'
    <3> HIDE DEF d
    <3>1. CASE r = target
      BY <2>3, <3>1 DEF Way, Running
    <3>2. CASE r # target /\ migrator = "up"
      BY <1>a, <1>c, <2>2, <2>3, <3>2 DEF Way, Running
    <3>3. CASE r # target /\ migrator # "up"
      BY <1>a, <1>c, <2>2, <2>3, <3>3 DEF Way, Running
    <3>4. QED
      BY <3>1, <3>2, <3>3
  <2>6. QED
    BY <2>4, <2>5
<1>6. CASE MigratorDies
  BY <1>6, <1>a, <1>e, <1>f, <1>g, <1>i DEF MigratorDies, Ended, Running, TypeOK, MigratorOK, Way
<1>7. ASSUME NEW s \in Servers,
             Start(s) \/ CountUsers(s) \/ FindAdmin(s) \/ Stop(s)
      PROVE  TypeOK' /\ Way'
  BY <1>7, <1>d, <1>f, <1>g, <1>h, <1>i
     DEF Start, CountUsers, FindAdmin, Stop, Move, TypeOK, ServersOK
<1>8. ASSUME NEW s \in Servers, CreateAdmin(s) PROVE TypeOK' /\ Way'
  <2>1. IsDatabase(db') /\ db'.revision = db.revision
    BY <1>8, <1>b DEF CreateAdmin, IsDatabase
  <2>2. QED
    BY <1>8, <2>1, <1>d, <1>f, <1>g, <1>h DEF CreateAdmin, Move, TypeOK, ServersOK
<1>9. ASSUME NEW s \in Servers, NEW i \in Pictures, SaveFile(s, i)
      PROVE  TypeOK' /\ Way'
  BY <1>9, <1>d, <1>f, <1>g, <1>h, <1>i DEF SaveFile, TypeOK, ServersOK
<1>10. ASSUME NEW s \in Servers, NEW i \in Pictures, CommitImage(s, i)
       PROVE  TypeOK' /\ Way'
  <2>1. IsDatabase(db') /\ db'.revision = db.revision
    BY <1>10, <1>b DEF CommitImage, IsDatabase
  <2>2. QED
    BY <1>10, <2>1, <1>d, <1>f, <1>g, <1>h DEF CommitImage, TypeOK, ServersOK
<1>11. CASE StartBackup \/ BackupDatabase \/ BackupImages \/ WriteManifest
            \/ BackupDies \/ SpoilArchive
  <2>1. /\ Following("database") = "images" /\ Following("images") = "manifest"
        /\ Following("manifest") = "done"
    BY DEF Following, BackupOrder
  <2>2. BackupOrder[1] = "database"
    BY DEF BackupOrder
  <2>3. BackupOK'
    <3>1. CASE StartBackup
      BY <3>1, <2>2 DEF StartBackup, TypeOK, BackupOK
    <3>2. CASE BackupDatabase
      <4>1. PICK c \in Copies(db, NoDatabase) :
              backup' = [backup EXCEPT !.db = c, !.pc = Following(@)]
        BY <3>2 DEF BackupDatabase
      <4>2. Stored(c)
        BY <1>b, CopyTaken DEF Stored
      <4>3. QED
        BY <3>2, <4>1, <4>2, <2>1 DEF BackupDatabase, TypeOK, BackupOK
    <3>3. CASE BackupImages
      <4>1. PICK c \in Copies(files, {}) :
              backup' = [backup EXCEPT !.zip = c, !.pc = Following(@)]
        BY <3>3 DEF BackupImages
      <4>2. Archived(c)
        BY CopyTaken DEF Archived, TypeOK
      <4>3. QED
        BY <3>3, <4>1, <4>2, <2>1 DEF BackupImages, TypeOK, BackupOK
    <3>4. CASE WriteManifest
      BY <3>4, <2>1 DEF WriteManifest, TypeOK, BackupOK
    <3>5. CASE BackupDies
      BY <3>5 DEF BackupDies, TypeOK, BackupOK
    <3>6. CASE SpoilArchive
      BY <3>6 DEF SpoilArchive, TypeOK, BackupOK, Archived
    <3>7. QED
      BY <1>11, <3>1, <3>2, <3>3, <3>4, <3>5, <3>6
  <2>4. UNCHANGED <<db, migrating, serving, files, restore, partial>>
    BY <1>11 DEF StartBackup, BackupDatabase, BackupImages, WriteManifest,
                 BackupDies, SpoilArchive
  <2>5. backup.zip # <<>> => backup'.zip # <<>>
    <3>1. CASE StartBackup \/ BackupDatabase
      BY <3>1 DEF StartBackup, BackupDatabase, TypeOK, BackupOK
    <3>2. CASE BackupImages
      BY <3>2 DEF BackupImages, TypeOK, BackupOK
    <3>3. CASE WriteManifest \/ BackupDies
      BY <3>3 DEF WriteManifest, BackupDies, TypeOK, BackupOK
    <3>4. CASE SpoilArchive
      BY <3>4 DEF SpoilArchive, TypeOK, BackupOK
    <3>5. QED
      BY <1>11, <3>1, <3>2, <3>3, <3>4
  <2>6. RestoreOK'
    BY <2>4, <2>5 DEF TypeOK, RestoreOK
  <2>7. QED
    BY <2>3, <2>4, <2>6, <1>b, <1>d, <1>e, <1>h DEF TypeOK
<1>12. CASE RestoreDatabase
  <2>1. IsDatabase(db')
    BY <1>12 DEF RestoreDatabase, TypeOK, BackupOK, Stored
  <2>2. QED
    BY <1>12, <2>1, <1>e, <1>f
       DEF RestoreDatabase, Running, TypeOK, MigratorOK, RestoreOK, Way
<1>13. CASE NothingToUnpack \/ ChecksumDiffers \/ RemoveImages \/ MoveImages
            \/ RestoreDies
  <2>1. files' \subseteq Pictures
    <3>1. CASE NothingToUnpack \/ ChecksumDiffers \/ RestoreDies
      BY <3>1 DEF NothingToUnpack, ChecksumDiffers, RestoreDies, TypeOK
    <3>2. CASE RemoveImages
      BY <3>2 DEF RemoveImages
    <3>3. CASE MoveImages
      BY <3>3 DEF MoveImages, TypeOK, BackupOK, RestoreOK, Archived
    <3>4. QED
      BY <1>13, <3>1, <3>2, <3>3
  <2>2. UNCHANGED <<db, migrating, serving, backup>> /\ RestoreOK'
    BY <1>13 DEF NothingToUnpack, ChecksumDiffers, RemoveImages, MoveImages,
                 RestoreDies, TypeOK,
                 BackupOK, RestoreOK
  <2>3. QED
    BY <2>1, <2>2, <1>b, <1>d, <1>e, <1>f, <1>h DEF TypeOK
<1>14. CASE HostLost
  BY <1>14, <1>a, <1>f
     DEF HostLost, Ended, Running, TypeOK, MigratorOK, ServersOK, RestoreOK, Way
<1>15. CASE UNCHANGED vars
  BY <1>15, <1>b, <1>d, <1>e, <1>f, <1>g, <1>h DEF vars, TypeOK
<1>16. QED
  BY <1>1, <1>3, <1>4, <1>5, <1>6, <1>7, <1>8, <1>9, <1>10, <1>11,
     <1>12, <1>13, <1>14, <1>15 DEF Next

-----------------------------------------------------------------------------
(* Who works when, and the files that a request has saved *)

Apart ==
    /\ Running => AllDown /\ restore = "idle" /\ backup.pc \in {"none", "done"}
    /\ restore # "idle" => AllDown /\ backup.pc = "done"
    /\ backup.pc # "done" => ~partial
    /\ open => work.images = db.images /\ work.admins = db.admins

Saved ==
    \A s \in Servers :
       (server[s] # "up" => saved[s] = {}) /\ saved[s] \subseteq files

LEMMA ApartInit == Init => Apart /\ Saved
  BY DEF Init, Apart, Saved, Running, AllDown

LEMMA Executed ==
    ASSUME TypeOK, Way, Execute
    PROVE  LET d == Done(Statements[at], View) IN
           /\ Running /\ at \in 1 .. Len(Statements) /\ at' = at + 1
           /\ Statements[at].op \in {"make", "ensure", "unmake", "rows"}
           /\ ~Fails(Statements[at], View)
           /\ IsDatabase(View) /\ IsDatabase(d)
           /\ d.revision = db.revision
           /\ View.images = d.images /\ View.admins = d.admins
           /\ open' = (open \/ Opens(Statements[at]))
           /\ \/ open' /\ work' = d /\ db' = db
              \/ ~open' /\ db' = d /\ work' = work
           /\ UNCHANGED <<migrator, target, torn, serving, files, copying>>
<1>1. Running /\ at <= Len(Statements) /\ at > 0 /\ at \in Nat
  BY DEF Execute, Way, TypeOK, MigratorOK
<1>2. Proper(Statements)
  BY <1>1, ProperStatements
<1>3. at \in 1 .. Len(Statements)
  BY <1>1, <1>2 DEF Proper
<1>4. Statements[at].op \in {"make", "ensure", "unmake", "rows"}
  BY <1>2, <1>3 DEF Proper
<1>5. IsDatabase(View) /\ View.revision = db.revision
  BY DEF TypeOK, MigratorOK, Way, View
<1> DEFINE d == Done(Statements[at], View)
<1>6. /\ IsDatabase(d) /\ d.revision = db.revision
      /\ View.images = d.images /\ View.admins = d.admins
  BY <1>4, <1>5, DoneProperly
<1>7. /\ ~Fails(Statements[at], View)
      /\ open' = (open \/ Opens(Statements[at]))
      /\ \/ open' /\ work' = d /\ db' = db
         \/ ~open' /\ db' = d /\ work' = work
      /\ at' = at + 1
      /\ UNCHANGED <<migrator, target, torn, serving, files, copying>>
  BY DEF Execute, TypeOK, MigratorOK, Opens
<1> HIDE DEF d
<1>8. /\ Running /\ at \in 1 .. Len(Statements) /\ at' = at + 1
      /\ Statements[at].op \in {"make", "ensure", "unmake", "rows"}
      /\ ~Fails(Statements[at], View)
      /\ IsDatabase(View) /\ IsDatabase(d)
      /\ d.revision = db.revision
      /\ View.images = d.images /\ View.admins = d.admins
      /\ open' = (open \/ Opens(Statements[at]))
      /\ \/ open' /\ work' = d /\ db' = db
         \/ ~open' /\ db' = d /\ work' = work
      /\ UNCHANGED <<migrator, target, torn, serving, files, copying>>
  BY <1>1, <1>3, <1>4, <1>5, <1>6, <1>7
<1>9. QED
  BY <1>8 DEF d

LEMMA ApartStep ==
    TypeOK /\ Way /\ Apart /\ Saved /\ [Next]_vars => Apart' /\ Saved'
<1> SUFFICES ASSUME TypeOK, Way, Apart, Saved, [Next]_vars PROVE Apart' /\ Saved'
  OBVIOUS
<1> USE DEF migrating, serving, copying
<1>1. ASSUME \/ StartUpgrade
             \/ \E r \in Targets : StartDowngrade(r)
      PROVE  Apart' /\ Saved'
  <2>1. PICK way, to : StartMigrator(way, to)
    BY <1>1 DEF StartUpgrade, StartDowngrade
  <2>2. QED
    BY <2>1 DEF StartMigrator, Running, AllDown, Apart, Saved, Way
<1>3. CASE Execute
  <2> DEFINE d == Done(Statements[at], View)
  <2>1. /\ View.images = d.images /\ View.admins = d.admins
        /\ open => open'
        /\ \/ open' /\ work' = d /\ db' = db
           \/ ~open' /\ db' = d /\ work' = work
        /\ UNCHANGED <<migrator, target, torn, serving, files, copying>>
    BY <1>3, Executed
  <2> HIDE DEF d
  <2>2. open' => work'.images = db'.images /\ work'.admins = db'.admins
    BY <2>1 DEF Apart, View
  <2>3. QED
    BY <2>1, <2>2 DEF Apart, Saved, Running, AllDown
<1>4. CASE StatementFails \/ MigratorDies
  <2>1. open' = FALSE /\ ~Running' /\ UNCHANGED <<serving, files, copying>>
    BY <1>4 DEF StatementFails, MigratorDies, Ended, Running
  <2>2. QED
    BY <2>1 DEF Apart, Saved, AllDown
<1>5. CASE Stamp
  <2>1. /\ open' = FALSE /\ (Running' => Running)
        /\ UNCHANGED <<serving, files, copying>>
    BY <1>5 DEF Stamp, Ended, Running
  <2>2. QED
    BY <2>1 DEF Apart, Saved, AllDown
<1>7. ASSUME NEW s \in Servers,
             \/ Start(s) \/ CountUsers(s) \/ FindAdmin(s) \/ CreateAdmin(s) \/ Stop(s)
      PROVE  Apart' /\ Saved'
  <2>1. ~Running /\ restore = "idle"
    BY <1>7 DEF Start, CountUsers, FindAdmin, CreateAdmin, Stop, Move, AllDown, Apart
  <2>2. UNCHANGED <<migrating, files, copying>>
    BY <1>7 DEF Start, CountUsers, FindAdmin, CreateAdmin, Stop
  <2>3. Apart'
    BY <2>1, <2>2 DEF Apart, Way, Running
  <2>4. Saved'
    <3>1. CASE Start(s) \/ CountUsers(s) \/ FindAdmin(s) \/ CreateAdmin(s)
      BY <3>1 DEF Start, CountUsers, FindAdmin, CreateAdmin, Move, TypeOK, ServersOK, Saved
    <3>2. CASE Stop(s)
      BY <3>2 DEF Stop, Move, TypeOK, ServersOK, Saved
    <3>3. QED
      BY <1>7, <3>1, <3>2
  <2>5. QED
    BY <2>3, <2>4
<1>9. ASSUME NEW s \in Servers, NEW i \in Pictures,
             SaveFile(s, i) \/ CommitImage(s, i)
      PROVE  Apart' /\ Saved'
  <2>1. ~Running /\ restore = "idle" /\ ~open
    BY <1>9 DEF SaveFile, CommitImage, AllDown, Apart, Saved, Way
  <2>2. UNCHANGED <<migrating, server, copying>>
    BY <1>9 DEF SaveFile, CommitImage
  <2>3. Apart'
    BY <2>1, <2>2 DEF Apart, Running
  <2>4. Saved'
    <3>1. CASE SaveFile(s, i)
      BY <3>1 DEF SaveFile, TypeOK, ServersOK, Saved
    <3>2. CASE CommitImage(s, i)
      BY <3>2 DEF CommitImage, TypeOK, ServersOK, Saved
    <3>3. QED
      BY <1>9, <3>1, <3>2
  <2>5. QED
    BY <2>3, <2>4
<1>11. CASE StartBackup \/ BackupDatabase \/ BackupImages \/ WriteManifest
            \/ BackupDies \/ SpoilArchive
  <2>1. UNCHANGED <<db, migrating, serving, files, restore, partial>>
    BY <1>11 DEF StartBackup, BackupDatabase, BackupImages, WriteManifest,
                 BackupDies, SpoilArchive
  <2>2. Saved'
    BY <2>1 DEF Saved
  <2>3. /\ \/ backup.pc # "done" /\ ~Running
           \/ backup.pc = "done" /\ backup'.pc = "done"
    BY <1>11 DEF StartBackup, BackupDatabase, BackupImages, WriteManifest,
                 BackupDies, SpoilArchive, TypeOK, BackupOK, Apart
  <2>4. Apart'
    BY <2>1, <2>3 DEF Apart, AllDown, Running
  <2>5. QED
    BY <2>2, <2>4
<1>12. CASE RestoreDatabase
  BY <1>12 DEF RestoreDatabase, Running, AllDown, Apart, Saved, Way
<1>13. CASE NothingToUnpack \/ ChecksumDiffers \/ RemoveImages \/ MoveImages
            \/ RestoreDies
  <2>1. restore # "idle" /\ UNCHANGED <<db, migrating, serving, backup>>
    BY <1>13 DEF NothingToUnpack, ChecksumDiffers, RemoveImages, MoveImages,
                 RestoreDies
  <2>2. \A s \in Servers : saved[s] = {} /\ server[s] = "down"
    BY <2>1 DEF Apart, AllDown, Saved
  <2>3. QED
    BY <2>1, <2>2 DEF Apart, Saved, AllDown, Running
<1>14. CASE HostLost
  BY <1>14 DEF HostLost, Ended, Running, AllDown, Apart, Saved, TypeOK, BackupOK
<1>15. CASE UNCHANGED vars
  BY <1>15 DEF vars, Apart, Saved, AllDown, Running
<1>16. QED
  BY <1>1, <1>3, <1>4, <1>5, <1>7, <1>9, <1>11, <1>12, <1>13, <1>14, <1>15 DEF Next

-----------------------------------------------------------------------------
(* The files of the images *)

InBackup ==
    /\ backup.pc \in {"none", "database"} => backup.db = <<>>
    /\ backup.pc # "done" => ~backup.manifest /\ ~backup.spoiled
    /\ backup.db # <<>> =>
         /\ backup.pc = "images" => backup.db[1].images \subseteq files
         /\ backup.zip # <<>> /\ ~backup.spoiled => backup.db[1].images \subseteq backup.zip[1]
         /\ backup.zip = <<>> /\ (backup.pc = "manifest" \/ backup.manifest) =>
              backup.db[1].images = {}

InRestore ==
    /\ restore # "idle" /\ backup.db # <<>> => partial /\ db = backup.db[1]
    /\ restore = "move" => partial

Filed == InBackup /\ InRestore /\ ImagesHaveFiles

LEMMA FiledInit == Init => Filed
<1> SUFFICES ASSUME Init PROVE Filed
  OBVIOUS
<1>1. NoDatabase.images = {} /\ IsDatabase(After[9]) /\ After[9].images = {}
  BY AfterProperly, Numbered DEF NoDatabase
<1>2. db.images = {}
  BY <1>1 DEF Init, IsDatabase
<1>3. QED
  BY <1>2 DEF Init, Filed, InBackup, InRestore, ImagesHaveFiles

LEMMA FiledStep ==
    TypeOK /\ Way /\ Apart /\ Saved /\ Filed /\ [Next]_vars => Filed'
<1> SUFFICES ASSUME TypeOK, Way, Apart, Saved, Filed, [Next]_vars PROVE Filed'
  OBVIOUS
<1> USE DEF migrating, serving, copying
<1>a. ASSUME db'.images = db.images, restore = "idle", UNCHANGED <<files, copying>>
      PROVE  Filed'
  BY <1>a DEF Filed, InBackup, InRestore, ImagesHaveFiles
<1>1. ASSUME \/ StartUpgrade
             \/ \E r \in Targets : StartDowngrade(r)
      PROVE  Filed'
  <2>1. PICK way, to : StartMigrator(way, to)
    BY <1>1 DEF StartUpgrade, StartDowngrade
  <2>2. QED
    BY <2>1, <1>a DEF StartMigrator
<1>3. CASE Execute
  <2> DEFINE d == Done(Statements[at], View)
  <2>1. /\ View.images = d.images /\ Running
        /\ \/ db' = db
           \/ ~open /\ db' = d
        /\ UNCHANGED <<files, copying>>
    BY <1>3, Executed
  <2> HIDE DEF d
  <2>2. db'.images = db.images
    BY <2>1 DEF View
  <2>3. QED
    BY <2>1, <2>2, <1>a DEF Apart
<1>4. CASE StatementFails \/ MigratorDies
  BY <1>4, <1>a DEF StatementFails, MigratorDies, Apart
<1>5. CASE Stamp
  <2>1. db'.images = db.images
    BY <1>5 DEF Stamp, View, TypeOK, MigratorOK, IsDatabase, Apart
  <2>2. QED
    BY <1>5, <2>1, <1>a DEF Stamp, Apart
<1>7. ASSUME NEW s \in Servers,
             \/ Start(s) \/ CountUsers(s) \/ FindAdmin(s) \/ CreateAdmin(s) \/ Stop(s)
      PROVE  Filed'
  <2>1. restore = "idle"
    BY <1>7 DEF Start, CountUsers, FindAdmin, CreateAdmin, Stop, Move, AllDown, Apart
  <2>2. UNCHANGED <<files, copying>>
    BY <1>7 DEF Start, CountUsers, FindAdmin, CreateAdmin, Stop
  <2>3. db'.images = db.images
    BY <1>7 DEF Start, CountUsers, FindAdmin, CreateAdmin, Stop, TypeOK, IsDatabase
  <2>4. QED
    BY <2>1, <2>2, <2>3, <1>a
<1>9. ASSUME NEW s \in Servers, NEW i \in Pictures,
             SaveFile(s, i) \/ CommitImage(s, i)
      PROVE  Filed'
  <2>1. restore = "idle" /\ UNCHANGED copying /\ files \subseteq files'
    BY <1>9 DEF SaveFile, CommitImage, AllDown, Apart, Saved
  <2>2. db.images \subseteq files => db'.images \subseteq files'
    BY <1>9 DEF SaveFile, CommitImage, Saved, TypeOK, IsDatabase
  <2>3. QED
    BY <2>1, <2>2 DEF Filed, InBackup, InRestore, ImagesHaveFiles
<1>11. CASE StartBackup \/ BackupDatabase \/ BackupImages \/ WriteManifest
            \/ BackupDies \/ SpoilArchive
  <2>1. UNCHANGED <<db, files, restore, partial>>
    BY <1>11 DEF StartBackup, BackupDatabase, BackupImages, WriteManifest,
                 BackupDies, SpoilArchive
  <2>2. restore = "idle"
    BY <1>11 DEF StartBackup, BackupDatabase, BackupImages, WriteManifest,
                 BackupDies, SpoilArchive, Apart
  <2>3. /\ BackupOrder[1] = "database" /\ Following("database") = "images"
        /\ Following("images") = "manifest" /\ Following("manifest") = "done"
    BY DEF BackupOrder, Following
  <2>4. InBackup'
    <3>1. CASE StartBackup
      BY <2>3, <3>1 DEF StartBackup, TypeOK, BackupOK, Filed, InBackup
    <3>2. CASE BackupDatabase
      <4>1. db.images \subseteq files
        BY <3>2 DEF BackupDatabase, Apart, Filed, ImagesHaveFiles
      <4>2. PICK c \in Copies(db, NoDatabase) :
              backup' = [backup EXCEPT !.db = c, !.pc = Following(@)]
        BY <3>2 DEF BackupDatabase
      <4>3. /\ backup'.db = c /\ backup'.pc = "images" /\ backup'.zip = <<>>
            /\ ~backup'.manifest /\ ~backup'.spoiled
        BY <2>3, <3>2, <4>2 DEF BackupDatabase, TypeOK, BackupOK, Filed, InBackup
      <4>4. c # <<>> => c[1].images \subseteq files
        BY <4>1, CopyTaken
      <4>5. QED
        BY <2>1, <4>3, <4>4 DEF InBackup
    <3>3. CASE BackupImages
      <4>1. PICK c \in Copies(files, {}) :
              backup' = [backup EXCEPT !.zip = c, !.pc = Following(@)]
        BY <3>3 DEF BackupImages
      <4>2. /\ backup'.zip = c /\ backup'.pc = "manifest" /\ backup'.db = backup.db
            /\ ~backup'.manifest /\ ~backup'.spoiled
        BY <2>3, <3>3, <4>1 DEF BackupImages, TypeOK, BackupOK, Filed, InBackup
      <4>3. /\ c # <<>> => c[1] = files
            /\ c = <<>> => files = {}
        BY CopyTaken
      <4>4. backup.db # <<>> => backup.db[1].images \subseteq files
        BY <3>3 DEF BackupImages, Filed, InBackup
      <4>5. QED
        BY <4>2, <4>3, <4>4 DEF InBackup
    <3>4. CASE WriteManifest
      BY <2>3, <3>4 DEF WriteManifest, TypeOK, BackupOK, Filed, InBackup
    <3>5. CASE BackupDies
      BY <3>5 DEF BackupDies, TypeOK, BackupOK, Filed, InBackup
    <3>6. CASE SpoilArchive
      BY <3>6 DEF SpoilArchive, TypeOK, BackupOK, Filed, InBackup
    <3>7. QED
      BY <1>11, <3>1, <3>2, <3>3, <3>4, <3>5, <3>6
  <2>5. QED
    BY <2>1, <2>2, <2>4 DEF Filed, InRestore, ImagesHaveFiles
<1>12. CASE RestoreDatabase
  BY <1>12 DEF RestoreDatabase, Filed, InBackup, InRestore, ImagesHaveFiles
<1>13. CASE NothingToUnpack \/ ChecksumDiffers \/ RestoreDies
  <2>1. /\ restore # "idle" /\ restore' = "idle" /\ UNCHANGED <<db, files, backup>>
        /\ ~partial' => ~partial \/ (backup.manifest /\ backup.db # <<>> /\ backup.zip = <<>>)
    <3>1. CASE NothingToUnpack
      BY <3>1 DEF NothingToUnpack
    <3>2. CASE ChecksumDiffers \/ RestoreDies
      BY <3>2 DEF ChecksumDiffers, RestoreDies
    <3>3. QED
      BY <1>13, <3>1, <3>2
  <2>2. ASSUME backup.manifest, backup.db # <<>>, backup.zip = <<>>
        PROVE  db.images = {}
    BY <2>1, <2>2 DEF Filed, InBackup, InRestore
  <2>3. QED
    BY <2>1, <2>2 DEF Filed, InBackup, InRestore, ImagesHaveFiles
<1>14. CASE RemoveImages
  BY <1>14 DEF RemoveImages, Apart, Filed, InBackup, InRestore, ImagesHaveFiles
<1>15. CASE MoveImages
  <2>1. /\ backup.pc = "done" /\ UNCHANGED <<db, backup>> /\ files' = backup.zip[1]
        /\ backup.zip # <<>> /\ restore = "move" /\ restore' = "idle"
        /\ partial' = (backup.db = <<>> \/ backup.spoiled)
    BY <1>15 DEF MoveImages, Apart, TypeOK, RestoreOK
  <2>2. ASSUME ~partial' PROVE db.images \subseteq backup.zip[1]
    BY <2>1, <2>2 DEF Filed, InBackup, InRestore
  <2>3. QED
    BY <2>1, <2>2 DEF Filed, InBackup, InRestore, ImagesHaveFiles
<1>16. CASE HostLost
  <2>1. NoDatabase.images = {}
    BY DEF NoDatabase
  <2>2. QED
    BY <1>16, <2>1 DEF HostLost, Filed, InBackup, InRestore, ImagesHaveFiles
<1>17. CASE UNCHANGED vars
  BY <1>17 DEF vars, Filed, InBackup, InRestore, ImagesHaveFiles
<1>18. QED
  BY <1>1, <1>3, <1>4, <1>5, <1>7, <1>9, <1>11, <1>12, <1>13, <1>14, <1>15,
     <1>16, <1>17 DEF Next

(* The image rows of the database have their files, but for the restores   *)
(* that ImagesHaveFiles excepts.  scripts/backup.py copies the database    *)
(* before the images, so whatever servers write meanwhile, an archive has  *)
(* the files of the rows that were copied with it; a backup that died has  *)
(* no manifest, and as long as its archive is sound it restores as well as *)
(* a finished one.                                                         *)
THEOREM ImagesKeepTheirFiles == Spec => []ImagesHaveFiles
<1> DEFINE I == TypeOK /\ Way /\ Apart /\ Saved /\ Filed
<1>1. Init => I
  BY TypeInit, ApartInit, FiledInit
<1>2. I /\ [Next]_vars => I'
  BY TypeStep, ApartStep, FiledStep
<1>3. I => ImagesHaveFiles
  BY DEF Filed
<1>4. QED
  BY <1>1, <1>2, <1>3, PTL DEF Spec

-----------------------------------------------------------------------------
(* The statements of migration 0010, and how all others differ from them *)

VersionRows == <<"product_version_histories">>
ProductsCopy == Copy("products")

\* Neither copies products nor makes or drops what holds their versions.
Ordinary(s) ==
    /\ Makes(s) => s.on # ProductsCopy
    /\ s.op = "unmake" => s.on # ProductsCopy /\ s.on # VersionRows
    /\ s.op = "rows" => s.on # "aggregate"

LEMMA OrdinaryTables ==
    ASSUME NEW s, NEW op \in {"make", "unmake"}, NEW T, OfTables(s, op, T),
           "product_version_histories" \notin T
    PROVE  \A k \in DOMAIN s : Ordinary(s[k])
<1>1. SUFFICES ASSUME NEW k \in DOMAIN s PROVE Ordinary(s[k])
  OBVIOUS
<1>2. PICK t \in T : s[k].on \in {<<t>>, <<t, "indexes">>}
  BY DEF OfTables
<1>3. s[k].op = op
  BY DEF OfTables
<1>4. s[k].on # ProductsCopy /\ s[k].on # VersionRows
  BY <1>2 DEF ProductsCopy, Copy, VersionRows
<1>5. QED
  BY <1>3, <1>4 DEF Ordinary, Makes

LEMMA OrdinaryOthers ==
    \A r \in 1 .. 14 : r # 10 =>
       /\ \A k \in DOMAIN Upgrades[r] : Ordinary(Upgrades[r][k])
       /\ \A k \in DOMAIN Downgrades[r] : Ordinary(Downgrades[r][k])
<1>1. \A r \in Plain : "product_version_histories" \notin TablesOf[r]
  BY DEF Plain, TablesOf, Posts
<1>2. \A r \in Plain :
         /\ \A k \in DOMAIN Upgrades[r] : Ordinary(Upgrades[r][k])
         /\ \A k \in DOMAIN Downgrades[r] : Ordinary(Downgrades[r][k])
  BY <1>1, PlainTables, OrdinaryTables
<1> USE DEF Ordinary, Makes, Make, Unmake, Rows, ProductsCopy, VersionRows, Copy, Posts
<1>5. /\ \A k \in DOMAIN SchedulerTables : Ordinary(SchedulerTables[k])
      /\ \A k \in DOMAIN NoSchedulerTables : Ordinary(NoSchedulerTables[k])
  BY Up5, Down5
<1>7. /\ \A k \in DOMAIN ConfirmationFields : Ordinary(ConfirmationFields[k])
      /\ \A k \in DOMAIN NoConfirmationFields : Ordinary(NoConfirmationFields[k])
  BY Up7, Down7
<1>8. \A k \in DOMAIN StateMachine : Ordinary(StateMachine[k])
  BY Up8
<1>9. \A k \in DOMAIN NoStateMachine : Ordinary(NoStateMachine[k])
  BY Down8
<1>10. /\ \A k \in DOMAIN Locking : Ordinary(Locking[k])
       /\ \A k \in DOMAIN NoLocking : Ordinary(NoLocking[k])
  BY Up9, Down9
<1> HIDE DEF Ordinary
<1>11. ASSUME NEW r \in {5, 7, 8, 9}
       PROVE  /\ \A k \in DOMAIN Upgrades[r] : Ordinary(Upgrades[r][k])
              /\ \A k \in DOMAIN Downgrades[r] : Ordinary(Downgrades[r][k])
  <2>1. CASE r = 5
    BY <2>1, <1>5, Numbered
  <2>2. CASE r = 7
    BY <2>2, <1>7, Numbered
  <2>3. CASE r = 8
    BY <2>3, <1>8, <1>9, Numbered
  <2>4. CASE r = 9
    BY <2>4, <1>10, Numbered
  <2>5. QED
    BY <2>1, <2>2, <2>3, <2>4
<1>12. \A r \in 1 .. 14 : r = 10 \/ r \in Plain \/ r \in {5, 7, 8, 9}
  BY DEF Plain
<1>13. QED
  BY <1>2, <1>11, <1>12

LEMMA Up10Places ==
    /\ \A k \in 1 .. 21 : /\ Upgrades[10][k].op = "ensure"
                          /\ Upgrades[10][k].on # ProductsCopy
    /\ Upgrades[10][22] = Rows("normalized_url")
    /\ Upgrades[10][23] = Rows("aggregate")
    /\ Upgrades[10][24] = Make(ProductsCopy)
    /\ Upgrades[10][25] = Rows("copy")
    /\ Upgrades[10][26] = Ensure(CategoryKey)
    /\ Upgrades[10][27] = Unmake(ProductsCopy)
<1>1. \A k \in 1 .. 13 : /\ AggregateColumns[k].op = "ensure"
                         /\ AggregateColumns[k].on # ProductsCopy
  BY UpColumns DEF Ensure, ProductsCopy, Copy, ItemIndex
<1>2. \A k \in 1 .. 8 : /\ AggregateTables[k].op = "ensure"
                        /\ AggregateTables[k].on # ProductsCopy
  BY UpTables DEF Ensure, ProductsCopy, Copy
<1>3. \A k \in 1 .. 21 : /\ Upgrades[10][k].op = "ensure"
                         /\ Upgrades[10][k].on # ProductsCopy
  <2>1. SUFFICES ASSUME NEW k \in 1 .. 21
                 PROVE  Upgrades[10][k].op = "ensure" /\ Upgrades[10][k].on # ProductsCopy
    OBVIOUS
  <2>2. \/ k \in 1 .. 13 /\ Upgrades[10][k] = AggregateColumns[k]
        \/ k - 13 \in 1 .. 8 /\ Upgrades[10][k] = AggregateTables[k - 13]
        \/ k - 21 \in 1 .. 6 /\ Upgrades[10][k] = AggregateRows[k - 21]
    BY Up10
  <2>3. QED
    BY <1>1, <1>2, <2>2
<1>4. \A k \in 22 .. 27 : Upgrades[10][k] = AggregateRows[k - 21]
  BY Up10
<1>5. /\ Upgrades[10][22] = AggregateRows[1] /\ Upgrades[10][23] = AggregateRows[2]
      /\ Upgrades[10][24] = AggregateRows[3] /\ Upgrades[10][25] = AggregateRows[4]
      /\ Upgrades[10][26] = AggregateRows[5] /\ Upgrades[10][27] = AggregateRows[6]
  BY <1>4
<1>6. QED
  BY <1>3, <1>5, UpRows DEF ProductsCopy

LEMMA Down10Places ==
    /\ Downgrades[10][2] = Rows("copy")
    /\ Downgrades[10][6] = Unmake(VersionRows)
    /\ Downgrades[10][28] = Unmake(ProductsCopy)
    /\ \A k \in 1 .. 28 :
          /\ Downgrades[10][k].op = "rows" => Downgrades[10][k].on # "aggregate"
          /\ Downgrades[10][k].op = "unmake" /\ k # 6 => Downgrades[10][k].on # VersionRows
<1>1. \A k \in 1 .. 28 :
         \/ k \in 1 .. 4 /\ Downgrades[10][k] = NoAggregateKey[k]
         \/ k - 4 \in 1 .. 8 /\ Downgrades[10][k] = Drops(ProductTables)[k - 4]
         \/ k = 13 /\ Downgrades[10][k] = Unmake(ItemIndex)
         \/ k - 13 \in 1 .. 15 /\ Downgrades[10][k] = NoAggregateColumns[k - 13]
  BY Down10
<1>2. /\ Downgrades[10][2] = NoAggregateKey[2]
      /\ Downgrades[10][6] = Drops(ProductTables)[2]
      /\ Downgrades[10][28] = NoAggregateColumns[15]
  <2>1. 2 \in 1 .. 28 /\ 6 \in 1 .. 28 /\ 28 \in 1 .. 28
    OBVIOUS
  <2>2. QED
    BY <1>1, <2>1
<1>3. \A k \in 1 .. 4 : /\ NoAggregateKey[k].op = "rows" => NoAggregateKey[k].on # "aggregate"
                        /\ NoAggregateKey[k].op = "unmake" => NoAggregateKey[k].on # VersionRows
  BY DownKey DEF Make, Rows, Unmake, VersionRows, CategoryKey, Copy
<1>4. \A k \in 1 .. 8 : /\ Drops(ProductTables)[k].op = "unmake"
                        /\ k # 2 => Drops(ProductTables)[k].on # VersionRows
  BY DownTables DEF Unmake, VersionRows
<1>5. \A k \in 1 .. 15 :
         /\ NoAggregateColumns[k].op = "rows" => NoAggregateColumns[k].on # "aggregate"
         /\ NoAggregateColumns[k].op = "unmake" => NoAggregateColumns[k].on # VersionRows
  BY DownColumns DEF Make, Rows, Unmake, VersionRows, Copy
<1>6. Unmake(ItemIndex).op = "unmake" /\ Unmake(ItemIndex).on # VersionRows
  BY DEF Unmake, ItemIndex, VersionRows
<1>7. \A k \in 1 .. 28 :
          /\ Downgrades[10][k].op = "rows" => Downgrades[10][k].on # "aggregate"
          /\ Downgrades[10][k].op = "unmake" /\ k # 6 => Downgrades[10][k].on # VersionRows
  BY <1>1, <1>3, <1>4, <1>5, <1>6
<1>8. QED
  BY <1>2, <1>7, DownKey, DownTables, DownColumns DEF VersionRows, ProductsCopy

LEMMA UpsKeepProducts ==
    \A r \in 1 .. 14 : \A k \in DOMAIN Upgrades[r] :
       Upgrades[r][k].op = "unmake" => Upgrades[r][k].on # <<"products">>
<1>1. \A r \in Plain : \A k \in DOMAIN Upgrades[r] : Upgrades[r][k].op = "make"
  BY PlainTables DEF OfTables
<1> USE DEF Make, Unmake, Rows, Ensure, Copy, Posts, ProductsCopy, CategoryKey
<1>2. \A k \in DOMAIN SchedulerTables : SchedulerTables[k].op = "make"
  BY Up5
<1>3. \A k \in DOMAIN ConfirmationFields : ConfirmationFields[k].op = "make"
  BY Up7
<1>4. \A k \in DOMAIN StateMachine :
         StateMachine[k].op = "unmake" => StateMachine[k].on # <<"products">>
  BY Up8
<1>5. \A k \in DOMAIN Locking : Locking[k].op = "make"
  BY Up9
<1>6. \A k \in 22 .. 27 : Upgrades[10][k].op = "unmake" => Upgrades[10][k].on # <<"products">>
  BY Up10Places
<1>7. \A k \in DOMAIN Upgrades[10] :
         Upgrades[10][k].op = "unmake" => Upgrades[10][k].on # <<"products">>
  <2>1. DOMAIN Upgrades[10] = (1 .. 21) \cup (22 .. 27)
    BY Up10
  <2>2. QED
    BY <1>6, <2>1, Up10Places
<1>8. ASSUME NEW r \in 1 .. 14, NEW k \in DOMAIN Upgrades[r],
             Upgrades[r][k].op = "unmake"
      PROVE  Upgrades[r][k].on # <<"products">>
  <2>1. r \notin Plain \cup {5, 7, 9}
    BY <1>1, <1>2, <1>3, <1>5, <1>8, Numbered
  <2>2. r = 8 \/ r = 10
    BY <2>1 DEF Plain
  <2>3. CASE r = 8
    BY <1>4, <1>8, <2>3, Numbered
  <2>4. CASE r = 10
    BY <1>7, <1>8, <2>4
  <2>5. QED
    BY <2>2, <2>3, <2>4
<1>9. QED
  BY <1>8

-----------------------------------------------------------------------------
(* The first version of the products, and the copy that 0010 makes of them *)

LEMMA DoneEffect ==
    ASSUME NEW s, s.op \in {"make", "ensure", "unmake", "rows"},
           NEW d, IsDatabase(d)
    PROVE  /\ Makes(s) => /\ Done(s, d).schema = d.schema \cup {s.on}
                          /\ Done(s, d).versions = d.versions
                          /\ Done(s, d).products = d.products
           /\ s.op = "unmake" =>
                 /\ Done(s, d).schema = {o \in d.schema : ~Takes(s, o)}
                 /\ Done(s, d).products \subseteq d.products
                 /\ s.on # <<"products">> => Done(s, d).products = d.products
                 /\ Done(s, d).versions = IF s.on = VersionRows
                                          THEN [p \in OldProducts |-> 0] ELSE d.versions
           /\ s.op = "rows" =>
                 /\ Done(s, d).schema = d.schema /\ Done(s, d).products = d.products
                 /\ Done(s, d).versions =
                       IF s.on = "aggregate"
                       THEN [p \in OldProducts |->
                               IF p \in d.products THEN d.versions[p] + 1 ELSE d.versions[p]]
                       ELSE d.versions
<1>1. CASE Makes(s)
  <2>1. Done(s, d) = [d EXCEPT !.schema = @ \cup {s.on}]
    BY <1>1 DEF Done, Makes
  <2>2. s.op # "unmake" /\ s.op # "rows"
    BY <1>1 DEF Makes
  <2>3. QED
    BY <2>1, <2>2, <1>1 DEF IsDatabase
<1>2. CASE s.op = "unmake"
  <2>1. ~Makes(s)
    BY <1>2 DEF Makes
  <2> DEFINE S == {o \in d.schema : ~Takes(s, o)}
             P == IF s.on = <<"products">> THEN {} ELSE d.products
             V == IF s.on = <<"product_version_histories">>
                  THEN [p \in OldProducts |-> 0] ELSE d.versions
  <2>2. Done(s, d) = [d EXCEPT !.schema = S, !.products = P, !.versions = V]
    BY <1>2, <2>1 DEF Done
  <2> HIDE DEF S, P, V
  <2>3. /\ Done(s, d).schema = S /\ Done(s, d).products = P /\ Done(s, d).versions = V
    BY <2>2 DEF IsDatabase
  <2>4. P \subseteq d.products /\ (s.on # <<"products">> => P = d.products)
    BY DEF P
  <2>5. QED
    BY <1>2, <2>1, <2>3, <2>4 DEF S, V, VersionRows
<1>3. CASE s.op = "rows"
  <2>1. ~Makes(s) /\ s.op # "unmake"
    BY <1>3 DEF Makes
  <2> DEFINE V == [p \in OldProducts |->
                     IF p \in d.products THEN d.versions[p] + 1 ELSE d.versions[p]]
  <2>2. Done(s, d) = IF s.on = "aggregate" THEN [d EXCEPT !.versions = V] ELSE d
    BY <1>3, <2>1 DEF Done
  <2> HIDE DEF V
  <2>3. /\ Done(s, d).schema = d.schema /\ Done(s, d).products = d.products
        /\ Done(s, d).versions = IF s.on = "aggregate" THEN V ELSE d.versions
    BY <2>2 DEF IsDatabase
  <2>4. QED
    BY <1>3, <2>1, <2>3 DEF V
<1>4. QED
  BY <1>1, <1>2, <1>3 DEF Makes

LEMMA ViewAfter ==
    ASSUME TypeOK, Way, Execute
    PROVE  View' = Done(Statements[at], View)
<1> DEFINE d == Done(Statements[at], View)
<1>1. \/ open' /\ work' = d /\ db' = db
      \/ ~open' /\ db' = d /\ work' = work
  BY Executed
<1> HIDE DEF d
<1>2. View' = d
  BY <1>1 DEF View
<1>3. QED
  BY <1>2 DEF d

First(d) ==
    IF d.revision >= 10 THEN \A p \in d.products : d.versions[p] = 1
                        ELSE \A p \in OldProducts : d.versions[p] = 0

NoCopyYet(d) == d.revision <= 9 => ProductsCopy \notin d.schema

Settled(d) == First(d) /\ NoCopyYet(d)

\* Whether the products that the migration sees have their first version.
Given ==
    \/ migrator = "up" /\ db.revision = 9 /\ at > 23
    \/ db.revision >= 10 /\ ~(migrator = "down" /\ db.revision = 10 /\ at > 6)

Versioned ==
    IF Given THEN \A p \in View.products : View.versions[p] = 1
             ELSE \A p \in OldProducts : View.versions[p] = 0

Copying == migrator = "up" /\ db.revision = 9 /\ at \in 25 .. 27

CopyPlace ==
    /\ db.revision <= 9 => (ProductsCopy \in View.schema <=> Copying)
    /\ migrator = "down" /\ db.revision = 10 /\ at > 28 => ProductsCopy \notin View.schema

Opened ==
    /\ migrator = "up" => View.products = db.products
    /\ migrator = "up" /\ db.revision = 9 /\ at > 22 => open
    /\ migrator = "down" /\ db.revision = 10 /\ at > 2 => open

Numbers ==
    /\ Settled(db)
    /\ backup.db # <<>> => Settled(backup.db[1])
    /\ Running => Versioned /\ CopyPlace /\ Opened
    /\ ProductsResume

LEMMA SettledAtFirst ==
    /\ Settled(NoDatabase)
    /\ \A ps \in SUBSET OldProducts :
          Settled([After[9] EXCEPT !.products = ps, !.admins = 1])
<1>1. Settled(NoDatabase)
  BY DEF Settled, First, NoCopyYet, NoDatabase
<1>2. /\ IsDatabase(After[9]) /\ After[9].revision = 9
      /\ After[9].versions = [p \in OldProducts |-> 0]
  BY AfterProperly, Numbered
<1>3. ASSUME ProductsCopy \in After[9].schema PROVE FALSE
  <2>1. After[9].schema = UNION {{o \in Leaves(i) : \A j \in i + 1 .. 9 : ~Loses(j, o)} :
                                  i \in 1 .. 9}
    <3> DEFINE S == UNION {{o \in Leaves(i) : \A j \in i + 1 .. 9 : ~Loses(j, o)} :
                                  i \in 1 .. 9}
    <3>1. After[9] = [NoDatabase EXCEPT !.schema = S, !.revision = 9]
      BY Numbered DEF After
    <3> HIDE DEF S
    <3>2. After[9].schema = S
      BY <3>1 DEF NoDatabase
    <3>3. QED
      BY <3>2 DEF S
  <2>2. PICK i \in 1 .. 9 : ProductsCopy \in Leaves(i)
    BY <1>3, <2>1
  <2>3. PICK k \in DOMAIN Upgrades[i] :
           Makes(Upgrades[i][k]) /\ Upgrades[i][k].on = ProductsCopy
    BY <2>2 DEF Leaves
  <2>4. Ordinary(Upgrades[i][k])
    BY OrdinaryOthers
  <2>5. QED
    BY <2>3, <2>4 DEF Ordinary
<1>4. ASSUME NEW ps \in SUBSET OldProducts
      PROVE  Settled([After[9] EXCEPT !.products = ps, !.admins = 1])
  <2> DEFINE d == [After[9] EXCEPT !.products = ps, !.admins = 1]
  <2>1. /\ d.revision = 9 /\ d.versions = [p \in OldProducts |-> 0]
        /\ d.schema = After[9].schema
    BY <1>2 DEF IsDatabase
  <2> HIDE DEF d
  <2>2. Settled(d)
    BY <1>3, <2>1 DEF Settled, First, NoCopyYet
  <2>3. QED
    BY <2>2 DEF d
<1>5. QED
  BY <1>1, <1>4

LEMMA NumbersInit == Init => Numbers
<1> SUFFICES ASSUME Init PROVE Numbers
  OBVIOUS
<1>1. Settled(db)
  BY SettledAtFirst DEF Init
<1>2. QED
  BY <1>1 DEF Init, Numbers, Running, ProductsResume

LEMMA NumbersExecute ==
    ASSUME TypeOK, Way, Running, Versioned, CopyPlace, Opened, Execute
    PROVE  Versioned' /\ CopyPlace' /\ Opened'
<1> DEFINE s == Statements[at]
           V == View
           W == View'
           r == IF migrator = "up" THEN db.revision + 1 ELSE db.revision
           L == IF migrator = "up" THEN Upgrades[r] ELSE Downgrades[r]
<1>1. /\ at \in 1 .. Len(Statements) /\ at' = at + 1 /\ at \in Nat
      /\ s.op \in {"make", "ensure", "unmake", "rows"}
      /\ ~Fails(s, V) /\ IsDatabase(V)
      /\ open' = (open \/ Opens(s))
      /\ UNCHANGED migrator
  BY Executed DEF TypeOK, MigratorOK
<1>2. /\ db'.revision = db.revision /\ db.revision \in Nat
      /\ open' => db' = db
      /\ ~open' => db' = W
  <2> DEFINE d == Done(s, V)
  <2>1. /\ d.revision = db.revision
        /\ \/ open' /\ work' = d /\ db' = db
           \/ ~open' /\ db' = d /\ work' = work
    BY Executed
  <2> HIDE DEF d
  <2>2. QED
    BY <2>1 DEF View, TypeOK, IsDatabase
<1>3. W = Done(s, V)
  BY ViewAfter
<1>4. /\ r \in 1 .. 14 /\ at \in DOMAIN L /\ s = L[at]
      /\ migrator = "up" \/ migrator = "down"
  BY <1>1, ProperStatements DEF Running, Proper
<1> HIDE DEF s, V, W, L
<1>5. /\ Makes(s) => W.schema = V.schema \cup {s.on} /\ W.versions = V.versions
                     /\ W.products = V.products
      /\ s.op = "unmake" =>
            /\ W.schema = {o \in V.schema : ~Takes(s, o)}
            /\ W.products \subseteq V.products
            /\ s.on # <<"products">> => W.products = V.products
            /\ W.versions = IF s.on = VersionRows
                            THEN [p \in OldProducts |-> 0] ELSE V.versions
      /\ s.op = "rows" =>
            /\ W.schema = V.schema /\ W.products = V.products
            /\ W.versions =
                  IF s.on = "aggregate"
                  THEN [p \in OldProducts |->
                          IF p \in V.products THEN V.versions[p] + 1 ELSE V.versions[p]]
                  ELSE V.versions
  BY <1>1, <1>3, DoneEffect
<1>6. Makes(s) \/ s.op = "unmake" \/ s.op = "rows"
  BY <1>1 DEF Makes
<1>7. V.products \subseteq OldProducts /\ W.products \subseteq V.products
  BY <1>1, <1>5, <1>6 DEF IsDatabase
<1>8. ASSUME migrator = "up" PROVE W.products = V.products
  <2>1. s.op = "unmake" => s.on # <<"products">>
    BY <1>4, <1>8, UpsKeepProducts DEF L
  <2>2. QED
    BY <2>1, <1>5, <1>6
<1>11. (open => open') /\ (Opens(s) => open')
  BY <1>1 DEF Opens, TypeOK, MigratorOK
<1>10. migrator = "up" => W.products = db'.products
  <2>1. ASSUME migrator = "up" PROVE V.products = db.products
    BY <2>1 DEF Opened, V
  <2>2. QED
    BY <1>2, <1>8, <2>1
<1>9. CASE r # 10
  <2>1. Ordinary(s)
    BY <1>4, <1>9, OrdinaryOthers DEF L
  <2>2. W.versions = V.versions
    BY <1>5, <1>6, <2>1 DEF Ordinary
  <2>3. ProductsCopy \in W.schema => ProductsCopy \in V.schema
    BY <1>5, <1>6, <2>1 DEF Ordinary
  <2>4. (migrator = "up" => db.revision # 9) /\ (migrator = "down" => db.revision # 10)
    BY <1>2, <1>9
  <2>5. Given' <=> Given
    BY <1>1, <1>2, <2>4 DEF Given
  <2>6. Versioned'
    BY <1>7, <2>2, <2>5 DEF Versioned, V, W
  <2>7. ~Copying /\ ~Copying'
    BY <1>1, <1>2, <2>4 DEF Copying
  <2>8. CopyPlace'
    BY <1>1, <1>2, <2>3, <2>4, <2>7 DEF CopyPlace, V, W
  <2>9. Opened'
    BY <1>1, <1>2, <1>10, <2>4 DEF Opened, W
  <2>10. QED
    BY <2>6, <2>8, <2>9
<1>12. CASE migrator = "up" /\ r = 10
  <2>1. db.revision = 9 /\ db'.revision = 9 /\ migrator' = "up"
    BY <1>1, <1>2, <1>12
  <2>2. at \in 1 .. 27 /\ s = Upgrades[10][at]
    BY <1>4, <1>12, Up10 DEF L
  <2>3. /\ at > 23 => \A p \in V.products : V.versions[p] = 1
        /\ at <= 23 => \A p \in OldProducts : V.versions[p] = 0
    BY <1>1, <2>1 DEF Versioned, Given, V
  <2>4. ProductsCopy \in V.schema <=> at \in 25 .. 27
    BY <1>12, <2>1 DEF CopyPlace, Copying, V
  <2>5. at > 22 => open
    BY <1>12, <2>1 DEF Opened
  <2>6. /\ at > 22 => \A p \in W.products : W.versions[p] = 1
        /\ at <= 22 => \A p \in OldProducts : W.versions[p] = 0
        /\ ProductsCopy \in W.schema <=> at \in 24 .. 26
        /\ at > 21 => open'
    <3>1. CASE at \in 1 .. 21
      <4>1. Makes(s) /\ s.on # ProductsCopy
        BY <2>2, <3>1, Up10Places DEF Makes
      <4>2. QED
        BY <1>5, <2>3, <2>4, <3>1, <4>1
    <3>2. CASE at = 22
      <4>1. s.op = "rows" /\ s.on # "aggregate" /\ Opens(s)
        BY <2>2, <3>2, Up10Places DEF Rows, Opens
      <4>2. QED
        BY <1>11, <1>5, <2>3, <2>4, <3>2, <4>1
    <3>3. CASE at = 23
      <4>1. s.op = "rows" /\ s.on = "aggregate"
        BY <2>2, <3>3, Up10Places DEF Rows
      <4>2. \A p \in OldProducts : V.versions[p] = 0
        BY <2>3, <3>3
      <4>3. \A p \in W.products : W.versions[p] = V.versions[p] + 1
        BY <1>5, <1>7, <4>1
      <4>4. \A p \in W.products : W.versions[p] = 1
        BY <1>7, <4>2, <4>3
      <4>5. QED
        BY <1>11, <1>5, <2>4, <2>5, <3>3, <4>1, <4>4
    <3>4. CASE at = 24
      <4>1. Makes(s) /\ s.on = ProductsCopy
        BY <2>2, <3>4, Up10Places DEF Make, Makes
      <4>2. QED
        BY <1>11, <1>5, <2>3, <2>5, <3>4, <4>1
    <3>5. CASE at = 25
      <4>1. s.op = "rows" /\ s.on # "aggregate"
        BY <2>2, <3>5, Up10Places DEF Rows
      <4>2. QED
        BY <1>11, <1>5, <2>3, <2>4, <2>5, <3>5, <4>1
    <3>6. CASE at = 26
      <4>1. Makes(s)
        BY <2>2, <3>6, Up10Places DEF Ensure, Makes
      <4>2. QED
        BY <1>11, <1>5, <2>3, <2>4, <2>5, <3>6, <4>1
    <3>7. CASE at = 27
      <4>1. s.op = "unmake" /\ s.on = ProductsCopy /\ s.on # VersionRows
        BY <2>2, <3>7, Up10Places DEF Unmake, ProductsCopy, Copy, VersionRows
      <4>2. Takes(s, ProductsCopy)
        BY <4>1 DEF Takes, ProductsCopy, Copy
      <4>3. QED
        BY <1>11, <1>5, <1>7, <2>3, <2>5, <3>7, <4>1, <4>2
    <3>8. QED
      BY <2>2, <3>1, <3>2, <3>3, <3>4, <3>5, <3>6, <3>7
  <2>7. Versioned'
    BY <1>1, <2>1, <2>6 DEF Versioned, Given, W
  <2>8. CopyPlace'
    BY <1>1, <2>1, <2>6 DEF CopyPlace, Copying, W
  <2>9. Opened'
    BY <1>1, <1>10, <2>1, <2>6 DEF Opened, W
  <2>10. QED
    BY <2>7, <2>8, <2>9
<1>13. CASE migrator = "down" /\ r = 10
  <2>1. db.revision = 10 /\ db'.revision = 10 /\ migrator' = "down"
    BY <1>1, <1>2, <1>13
  <2>2. at \in 1 .. 28 /\ s = Downgrades[10][at]
    BY <1>4, <1>13, Down10 DEF L
  <2>3. /\ at <= 6 => \A p \in V.products : V.versions[p] = 1
        /\ at > 6 => \A p \in OldProducts : V.versions[p] = 0
    BY <1>1, <2>1 DEF Versioned, Given, V
  <2>4. /\ s.op = "rows" => s.on # "aggregate"
        /\ s.op = "unmake" => (at # 6 => s.on # VersionRows)
    BY <2>2, Down10Places
  <2>5. /\ at <= 5 => \A p \in W.products : W.versions[p] = 1
        /\ at > 5 => \A p \in OldProducts : W.versions[p] = 0
    <3>1. CASE at # 6
      <4>1. W.versions = V.versions
        BY <1>5, <1>6, <2>4, <3>1
      <4>2. QED
        BY <1>7, <2>2, <2>3, <3>1, <4>1
    <3>2. CASE at = 6
      <4>1. s.op = "unmake" /\ s.on = VersionRows
        BY <2>2, <3>2, Down10Places DEF Unmake
      <4>2. QED
        BY <1>5, <3>2, <4>1
    <3>3. QED
      BY <3>1, <3>2
  <2>6. at > 1 => open'
    <3>1. CASE at = 2
      <4>1. Opens(s)
        BY <2>2, <3>1, Down10Places DEF Rows, Opens
      <4>2. QED
        BY <1>1, <4>1
    <3>2. CASE at > 2
      BY <1>1, <2>1, <3>2 DEF Opened
    <3>3. QED
      BY <2>2, <3>1, <3>2
  <2>7. at = 28 => ProductsCopy \notin W.schema
    <3>1. SUFFICES ASSUME at = 28 PROVE ProductsCopy \notin W.schema
      OBVIOUS
    <3>2. s.op = "unmake" /\ s.on = ProductsCopy
      BY <2>2, <3>1, Down10Places DEF Unmake
    <3>3. Takes(s, ProductsCopy)
      BY <3>2 DEF Takes, ProductsCopy, Copy
    <3>4. QED
      BY <1>5, <3>2, <3>3
  <2>8. Versioned'
    BY <1>1, <2>1, <2>5 DEF Versioned, Given, W
  <2>9. CopyPlace'
    <3>0. at' = at + 1 /\ at \in 1 .. 28
      BY <1>1, <2>2
    <3>1. db'.revision = 10 /\ (at' > 28 => at = 28)
      BY <2>1, <3>0
    <3>2. View' = W
      BY DEF W
    <3>3. at' > 28 => ProductsCopy \notin View'.schema
      BY <2>7, <3>1, <3>2
    <3>4. QED
      BY <3>1, <3>3 DEF CopyPlace
  <2>10. Opened'
    BY <1>1, <2>1, <2>6 DEF Opened, W
  <2>11. QED
    BY <2>8, <2>9, <2>10
<1>14. QED
  BY <1>4, <1>9, <1>12, <1>13

LEMMA FreshStart ==
    ASSUME Settled(db'), ~open', at' = 1
    PROVE  Versioned' /\ CopyPlace' /\ Opened'
<1>1. View' = db' /\ at' = 1
  BY DEF View
<1>2. Given' <=> db'.revision >= 10
  BY <1>1 DEF Given
<1>3. Versioned'
  BY <1>1, <1>2 DEF Versioned, Settled, First
<1>4. CopyPlace'
  BY <1>1 DEF CopyPlace, Copying, Settled, NoCopyYet
<1>5. Opened'
  BY <1>1 DEF Opened
<1>6. QED
  BY <1>3, <1>4, <1>5

LEMMA FailsOnClash ==
    ASSUME TypeOK, Way, Versioned, CopyPlace, Opened,
           migrator = "up", db.revision = 9, at \in 1 .. 27, Fails(Upgrades[10][at], View)
    PROVE  Clash(db)
<1>1. ProductsCopy \in View.schema <=> at \in 25 .. 27
  BY DEF CopyPlace, Copying
<1>2. at = 23
  <2>1. CASE at \in 1 .. 21
    BY <2>1, Up10Places DEF Fails
  <2>2. CASE at \in {22, 25}
    BY <2>2, Up10Places DEF Fails, Rows
  <2>3. CASE at = 24
    BY <1>1, <2>3, Up10Places DEF Fails, Make
  <2>4. CASE at = 26
    BY <2>4, Up10Places DEF Fails, Ensure
  <2>5. CASE at = 27
    BY <1>1, <2>5, Up10Places DEF Fails, Unmake
  <2>6. QED
    BY <2>1, <2>2, <2>3, <2>4, <2>5
<1>3. Clash(View)
  BY <1>2, Up10Places DEF Fails, Rows
<1>4. View.products = db.products
  BY DEF Opened
<1>5. QED
  BY <1>3, <1>4 DEF Clash

LEMMA NumbersStep ==
    TypeOK /\ Way /\ Apart /\ Saved /\ Numbers /\ [Next]_vars => Numbers'
<1> SUFFICES ASSUME TypeOK, Way, Apart, Saved, Numbers, [Next]_vars PROVE Numbers'
  OBVIOUS
<1> USE DEF migrating, serving, copying
<1>a. /\ Settled(db) /\ (backup.db # <<>> => Settled(backup.db[1]))
      /\ IsDatabase(db) /\ IsDatabase(View) /\ View.revision = db.revision
      /\ db.revision \in 0 .. 14 /\ at \in Nat
  BY Numbered DEF Numbers, TypeOK, MigratorOK, IsDatabase, Way, View
<1>b. UNCHANGED backup => (backup'.db # <<>> => Settled(backup'.db[1]))
  BY <1>a
<1>1. ASSUME \/ StartUpgrade
             \/ \E r \in Targets : StartDowngrade(r)
      PROVE  Numbers'
  <2>1. PICK way, to : way \in {"up", "down"} /\ StartMigrator(way, to)
    BY <1>1 DEF StartUpgrade, StartDowngrade
  <2>2. /\ ~Running /\ migrator' = way /\ at' = 1 /\ UNCHANGED <<db, open, backup>>
    BY <2>1 DEF StartMigrator
  <2>3. Settled(db') /\ ~open'
    BY <1>a, <2>2 DEF Way
  <2>4. Versioned' /\ CopyPlace' /\ Opened'
    BY <2>2, <2>3, FreshStart
  <2>5. ProductsResume'
    BY <2>1, <2>2 DEF ProductsResume
  <2>6. QED
    BY <1>b, <2>2, <2>3, <2>4, <2>5 DEF Numbers
<1>3. CASE Execute
  <2>1. /\ Running /\ UNCHANGED <<migrator, backup>>
        /\ at \in 1 .. Len(Statements) /\ at' = at + 1
    BY <1>3, Executed
  <2>2. Versioned' /\ CopyPlace' /\ Opened'
    BY <1>3, <2>1, NumbersExecute DEF Numbers
  <2>3. Settled(db')
    <3>1. CASE open'
      <4>1. db' = db
        BY <1>3, <3>1 DEF Execute
      <4>2. QED
        BY <1>a, <4>1
    <3>2. CASE ~open'
      <4>1. View' = db'
        BY <3>2 DEF View
      <4>2. ~Copying' /\ (Given' <=> db'.revision >= 10)
        <5>1. db'.revision = db.revision
          <6> DEFINE d == Done(Statements[at], View)
          <6>1. /\ d.revision = db.revision
                /\ \/ open' /\ work' = d /\ db' = db
                   \/ ~open' /\ db' = d /\ work' = work
            BY <1>3, Executed
          <6> HIDE DEF d
          <6>2. QED
            BY <6>1
        <5>2. /\ migrator' = "up" /\ db'.revision = 9 => at' <= 22
              /\ migrator' = "down" /\ db'.revision = 10 => at' <= 2
          BY <1>a, <2>1, <2>2, <3>2 DEF Opened
        <5>3. QED
          BY <1>a, <2>1, <5>1, <5>2 DEF Copying, Given
      <4>3. First(db')
        BY <2>2, <4>1, <4>2 DEF Versioned, First
      <4>4. NoCopyYet(db')
        BY <2>2, <4>1, <4>2 DEF CopyPlace, NoCopyYet
      <4>5. QED
        BY <4>3, <4>4 DEF Settled
    <3>3. QED
      BY <3>1, <3>2
  <2>4. ProductsResume'
    BY <2>1 DEF ProductsResume, Running
  <2>5. QED
    BY <1>b, <2>1, <2>2, <2>3, <2>4 DEF Numbers
<1>4. CASE StatementFails
  <2>a. Running /\ at <= Len(Statements)
    BY <1>4 DEF StatementFails
  <2>b. Fails(Statements[at], View)
    BY <1>4 DEF StatementFails
  <2>1. /\ migrator' = (IF migrator = "up" THEN "up failed" ELSE "down failed")
        /\ UNCHANGED <<db, backup>>
    BY <1>4 DEF StatementFails, Ended
  <2>2. ProductsResume'
    <3>1. SUFFICES ASSUME migrator = "up", db.revision = 9 PROVE Clash(db)
      BY <2>1 DEF ProductsResume, Clash
    <3>2. Statements = Upgrades[10] /\ at \in 1 .. 27
      <4>1. db.revision + 1 = 10 /\ Running
        BY <2>a, <3>1
      <4>2. Statements = Upgrades[10]
        BY <3>1, <4>1, ProperStatements
      <4>3. Len(Statements) = 27
        BY <4>2, Up10
      <4>4. at > 0
        BY <4>1 DEF Way
      <4>5. at \in 1 .. 27
        BY <1>a, <2>a, <4>3, <4>4
      <4>6. QED
        BY <4>2, <4>5
    <3>3. Versioned /\ CopyPlace /\ Opened
      BY <2>a DEF Numbers
    <3>4. QED
      BY <2>b, <3>1, <3>2, <3>3, FailsOnClash
  <2>3. ~Running'
    BY <2>1 DEF Running
  <2>4. QED
    BY <1>a, <1>b, <2>1, <2>2, <2>3 DEF Numbers
<1>5. CASE Stamp
  <2> DEFINE r == db.revision + (IF migrator = "up" THEN 1 ELSE -1)
             d == [View EXCEPT !.revision = r]
  <2>1. /\ db' = d /\ Running /\ at > Len(Statements) /\ UNCHANGED backup /\ open' = FALSE
        /\ IF r = target THEN migrator' = "idle" ELSE at' = 1 /\ UNCHANGED migrator
    BY <1>5 DEF Stamp, Ended
  <2>2. /\ d.revision = r /\ d.schema = View.schema /\ d.products = View.products
        /\ d.versions = View.versions
    BY <1>a DEF IsDatabase
  <2> HIDE DEF d
  <2>3. Versioned /\ CopyPlace
    BY <2>1 DEF Numbers
  <2>4. /\ migrator = "up" /\ db.revision = 9 => at > 27
        /\ migrator = "down" /\ db.revision = 10 => at > 28
        /\ migrator \in {"up", "down"}
    <3>1. ASSUME migrator = "up", db.revision = 9 PROVE at > 27
      <4>1. Statements = Upgrades[10]
        BY <2>1, <3>1, ProperStatements
      <4>2. QED
        BY <2>1, <4>1, Up10
    <3>2. ASSUME migrator = "down", db.revision = 10 PROVE at > 28
      <4>1. Statements = Downgrades[10]
        BY <2>1, <3>2, ProperStatements
      <4>2. QED
        BY <2>1, <4>1, Down10
    <3>3. QED
      BY <2>1, <3>1, <3>2 DEF Running
  <2>5. Given <=> r >= 10
    BY <1>a, <2>4 DEF Given
  <2>6. First(d)
    BY <2>2, <2>3, <2>5 DEF First, Versioned
  <2>7. NoCopyYet(d)
    <3>1. SUFFICES ASSUME r <= 9 PROVE ProductsCopy \notin View.schema
      BY <2>2 DEF NoCopyYet
    <3>2. CASE db.revision <= 9
      <4>1. ~Copying
        BY <1>a, <2>4, <3>1 DEF Copying
      <4>2. QED
        BY <2>3, <3>2, <4>1 DEF CopyPlace
    <3>3. CASE db.revision > 9
      <4>1. migrator = "down" /\ db.revision = 10
        BY <1>a, <2>4, <3>1, <3>3
      <4>2. QED
        BY <2>3, <2>4, <4>1 DEF CopyPlace
    <3>4. QED
      BY <1>a, <3>2, <3>3
  <2>8. Settled(db')
    BY <2>1, <2>6, <2>7 DEF Settled
  <2>9. Running' => Versioned' /\ CopyPlace' /\ Opened'
    BY <2>1, <2>8, FreshStart DEF Running
  <2>10. ProductsResume'
    BY <2>1 DEF ProductsResume, Running
  <2>11. QED
    BY <1>b, <2>1, <2>8, <2>9, <2>10 DEF Numbers
<1>6. CASE MigratorDies
  <2>1. migrator' = "idle" /\ UNCHANGED <<db, backup>>
    BY <1>6 DEF MigratorDies, Ended
  <2>2. QED
    BY <1>a, <1>b, <2>1 DEF Numbers, ProductsResume, Running
<1>c. ASSUME /\ db'.revision = db.revision /\ db'.schema = db.schema
             /\ db'.products = db.products /\ db'.versions = db.versions
             /\ ~Running /\ UNCHANGED <<migrator, backup>>
      PROVE  Numbers'
  <2>1. Settled(db')
    BY <1>a, <1>c DEF Settled, First, NoCopyYet
  <2>2. ProductsResume'
    BY <1>c DEF Numbers, ProductsResume, Clash
  <2>3. QED
    BY <1>b, <1>c, <2>1, <2>2 DEF Numbers, Running
<1>d. ASSUME UNCHANGED <<db, migrating, backup>>
      PROVE  Numbers'
  <2>1. View' = View /\ (Given' <=> Given) /\ (Copying' <=> Copying)
    BY <1>d DEF View, Given, Copying
  <2>2. Running => Versioned' /\ CopyPlace' /\ Opened'
    BY <1>d, <2>1 DEF Numbers, Versioned, CopyPlace, Opened
  <2>3. QED
    BY <1>a, <1>b, <1>d, <2>2 DEF Numbers, ProductsResume, Clash, Running
<1>7. ASSUME NEW s \in Servers,
             Start(s) \/ CountUsers(s) \/ FindAdmin(s) \/ Stop(s)
      PROVE  Numbers'
  BY <1>7, <1>d DEF Start, CountUsers, FindAdmin, Stop
<1>8. ASSUME NEW s \in Servers, CreateAdmin(s) PROVE Numbers'
  <2>1. ~Running /\ UNCHANGED <<migrating, backup>> /\ db' = [db EXCEPT !.admins = 1]
    BY <1>8 DEF CreateAdmin, Move, AllDown, Apart
  <2>2. QED
    BY <1>a, <1>c, <2>1 DEF IsDatabase
<1>9. ASSUME NEW s \in Servers, NEW i \in Pictures, SaveFile(s, i) PROVE Numbers'
  BY <1>9, <1>d DEF SaveFile
<1>10. ASSUME NEW s \in Servers, NEW i \in Pictures, CommitImage(s, i) PROVE Numbers'
  <2>1. /\ ~Running /\ UNCHANGED <<migrating, backup>>
        /\ db' = [db EXCEPT !.images = @ \cup {i}]
    BY <1>10 DEF CommitImage, AllDown, Apart, Saved
  <2>2. QED
    BY <1>a, <1>c, <2>1 DEF IsDatabase
<1>11. CASE StartBackup \/ BackupDatabase \/ BackupImages \/ WriteManifest
            \/ BackupDies \/ SpoilArchive
  <2>1. UNCHANGED <<db, migrating>>
    BY <1>11 DEF StartBackup, BackupDatabase, BackupImages, WriteManifest,
                 BackupDies, SpoilArchive
  <2>2. backup'.db = backup.db \/ backup'.db = <<db>> \/ backup'.db = <<>>
    BY <1>11, DatabaseCopy
  <2>3. backup'.db # <<>> => Settled(backup'.db[1])
    BY <1>a, <2>2
  <2>4. View' = View /\ (Given' <=> Given) /\ (Copying' <=> Copying)
    BY <2>1 DEF View, Given, Copying
  <2>5. Running => Versioned' /\ CopyPlace' /\ Opened'
    BY <2>1, <2>4 DEF Numbers, Versioned, CopyPlace, Opened
  <2>6. QED
    BY <1>a, <2>1, <2>3, <2>5 DEF Numbers, ProductsResume, Clash, Running
<1>12. CASE RestoreDatabase
  <2>1. migrator' = "idle" /\ UNCHANGED backup /\ (db' = db \/ (backup.db # <<>> /\ db' = backup.db[1]))
    BY <1>12 DEF RestoreDatabase
  <2>2. QED
    BY <1>a, <1>b, <2>1 DEF Numbers, ProductsResume, Running
<1>13. CASE NothingToUnpack \/ ChecksumDiffers \/ RemoveImages \/ MoveImages
            \/ RestoreDies
  BY <1>13, <1>d DEF NothingToUnpack, ChecksumDiffers, RemoveImages, MoveImages,
                 RestoreDies
<1>14. CASE HostLost
  <2>1. migrator' = "idle" /\ db' = NoDatabase /\ UNCHANGED backup
    BY <1>14 DEF HostLost, Ended
  <2>2. QED
    BY <1>a, <1>b, <2>1, SettledAtFirst DEF Numbers, ProductsResume, Running
<1>15. CASE UNCHANGED vars
  BY <1>15, <1>d DEF vars
<1>16. QED
  BY <1>1, <1>3, <1>4, <1>5, <1>6, <1>7, <1>8, <1>9, <1>10, <1>11, <1>12,
     <1>13, <1>14, <1>15 DEF Next

(* The migration of the products fails on products that its unique columns *)
(* do not allow side by side and on nothing else: neither the tables and   *)
(* columns nor the copy of products that an earlier attempt left are in    *)
(* its way (alembic/versions, migration 0010).                             *)
THEOREM ProductsAreTakenUp == Spec => []ProductsResume
<1> DEFINE I == TypeOK /\ Way /\ Apart /\ Saved /\ Numbers
<1>1. Init => I
  BY TypeInit, ApartInit, NumbersInit
<1>2. I /\ [Next]_vars => I'
  BY TypeStep, ApartStep, NumbersStep
<1>3. I => ProductsResume
  BY DEF Numbers
<1>4. QED
  BY <1>1, <1>2, <1>3, PTL DEF Spec

(* Every product of a database at migration 0010 or later has exactly one  *)
(* first version, whatever upgrades and downgrades ran, failed or died.    *)
THEOREM VersionsAreFirst == Spec => []OneFirstVersion
<1> DEFINE I == TypeOK /\ Way /\ Apart /\ Saved /\ Numbers
<1>1. Init => I
  BY TypeInit, ApartInit, NumbersInit
<1>2. I /\ [Next]_vars => I'
  BY TypeStep, ApartStep, NumbersStep
<1>3. I => OneFirstVersion
  BY DEF Numbers, Settled, First, OneFirstVersion
<1>4. QED
  BY <1>1, <1>2, <1>3, PTL DEF Spec

-----------------------------------------------------------------------------
(* What each migration makes and takes *)

Posts5 == {<<Posts>>, <<Posts, "status">>, <<Posts, "indexes">>, <<Posts, "status", "index">>}
Posts7 == {<<Posts, "requires_confirmation">>, <<Posts, "is_confirmed">>,
           <<Posts, "confirmed_at">>, <<Posts, "is_confirmed", "index">>}
Posts8 == {<<Posts, "owner_user_id">>, <<Posts, "state">>,
           <<Posts, "owner_user_id", "index">>, <<Posts, "state", "index">>}
Posts9 == {<<Posts, "version">>, <<Posts, "version", "index">>,
           <<Posts, "owner_state", "index">>}
Products2 == {<<"products">>, <<"products", "indexes">>}

LEMMA MadeByPlain ==
    \A r \in Plain : \A k \in DOMAIN Upgrades[r] :
       /\ Upgrades[r][k].op = "make"
       /\ \E t \in TablesOf[r] : Upgrades[r][k].on \in {<<t>>, <<t, "indexes">>}
  BY PlainTables DEF OfTables

LEMMA MadeBy5 ==
    \A k \in DOMAIN Upgrades[5] :
       /\ Upgrades[5][k].op = "make"
       /\ \/ Upgrades[5][k].on \in Posts5
          \/ Upgrades[5][k].on[1] = "scheduled_post_executions"
<1>1. \A k \in DOMAIN SchedulerTables :
         /\ SchedulerTables[k].op = "make"
         /\ \/ SchedulerTables[k].on \in Posts5
            \/ SchedulerTables[k].on[1] = "scheduled_post_executions"
  BY Up5 DEF Make, Posts5
<1>2. QED
  BY <1>1, Numbered

LEMMA MadeBy7 ==
    \A k \in DOMAIN Upgrades[7] : Upgrades[7][k].op = "make" /\ Upgrades[7][k].on \in Posts7
<1>1. \A k \in DOMAIN ConfirmationFields :
         ConfirmationFields[k].op = "make" /\ ConfirmationFields[k].on \in Posts7
  BY Up7 DEF Make, Posts7
<1>2. QED
  BY <1>1, Numbered

LEMMA MadeBy8 ==
    /\ DOMAIN Upgrades[8] = 1 .. 19
    /\ Upgrades[8][17] = Unmake(Copy(Posts))
    /\ \A k \in 1 .. 19 :
          /\ Makes(Upgrades[8][k]) =>
               \/ Upgrades[8][k].on \in Posts8
               \/ k <= 11 /\ Upgrades[8][k].on = Copy(Posts)
               \/ Upgrades[8][k].on[1] = "scheduled_post_audits"
          /\ Upgrades[8][k].op = "unmake" =>
               /\ k > 2
               /\ \/ Upgrades[8][k].on \in Posts7
                  \/ Upgrades[8][k].on = Copy(Posts)
                  \/ Upgrades[8][k].on = <<Posts, "status">>
                  \/ Upgrades[8][k].on = <<Posts, "status", "index">>
    /\ Upgrades[8][2].op = "rows"
<1>1. \A k \in 1 .. 19 :
          Makes(StateMachine[k]) =>
               \/ StateMachine[k].on \in Posts8
               \/ k <= 11 /\ StateMachine[k].on = Copy(Posts)
               \/ StateMachine[k].on[1] = "scheduled_post_audits"
  BY Up8 DEF Make, Unmake, Rows, Makes, Posts8
<1>2. \A k \in 1 .. 19 :
          StateMachine[k].op = "unmake" =>
               /\ k > 2
               /\ \/ StateMachine[k].on \in Posts7
                  \/ StateMachine[k].on = Copy(Posts)
                  \/ StateMachine[k].on = <<Posts, "status">>
                  \/ StateMachine[k].on = <<Posts, "status", "index">>
  BY Up8 DEF Make, Unmake, Rows, Posts7
<1>3. StateMachine[2].op = "rows" /\ StateMachine[17] = Unmake(Copy(Posts))
  BY Up8 DEF Rows
<1>4. QED
  BY <1>1, <1>2, <1>3, Up8, Numbered

LEMMA MadeBy9 ==
    \A k \in DOMAIN Upgrades[9] :
       /\ Upgrades[9][k].op = "make"
       /\ Upgrades[9][k].on \in Posts9 \/ Upgrades[9][k].on[1] = "outbox_events"
<1>1. \A k \in DOMAIN Locking :
         /\ Locking[k].op = "make"
         /\ Locking[k].on \in Posts9 \/ Locking[k].on[1] = "outbox_events"
  BY Up9 DEF Make, Posts9
<1>2. QED
  BY <1>1, Numbered

LEMMA MadeBy10 ==
    /\ DOMAIN Upgrades[10] = 1 .. 27
    /\ \A k \in 1 .. 27 :
          /\ Makes(Upgrades[10][k]) => Upgrades[10][k].on[1] \in TablesOf[10]
          /\ Upgrades[10][k].op = "unmake" => k = 27
<1>1. /\ \A k \in 1 .. 13 : AggregateColumns[k].on[1] \in TablesOf[10]
      /\ \A k \in 1 .. 8 : AggregateTables[k].on[1] \in TablesOf[10]
  BY UpColumns, UpTables DEF Ensure, TablesOf, ItemIndex
<1>2. \A k \in 1 .. 21 : Upgrades[10][k].on[1] \in TablesOf[10]
  <2>1. SUFFICES ASSUME NEW k \in 1 .. 21 PROVE Upgrades[10][k].on[1] \in TablesOf[10]
    OBVIOUS
  <2>2. \/ k \in 1 .. 13 /\ Upgrades[10][k] = AggregateColumns[k]
        \/ k - 13 \in 1 .. 8 /\ Upgrades[10][k] = AggregateTables[k - 13]
    BY Up10
  <2>3. QED
    BY <1>1, <2>2
<1>3. \A k \in 22 .. 27 : /\ Makes(Upgrades[10][k]) => Upgrades[10][k].on[1] \in TablesOf[10]
                          /\ Upgrades[10][k].op = "unmake" => k = 27
  BY Up10Places DEF Makes, Make, Unmake, Ensure, Rows, CategoryKey, ProductsCopy, Copy, TablesOf
<1>4. \A k \in 1 .. 21 : Upgrades[10][k].op # "unmake"
  BY Up10Places
<1>5. DOMAIN Upgrades[10] = 1 .. 27
  BY Up10
<1>6. \A k \in 1 .. 27 : k \in 1 .. 21 \/ k \in 22 .. 27
  OBVIOUS
<1>7. QED
  BY <1>2, <1>3, <1>4, <1>5, <1>6

\* Where what a migration leaves behind lies.
LEMMA LeavesOf ==
    ASSUME NEW i \in 1 .. 14, NEW o \in Leaves(i)
    PROVE  /\ o[1] \in TablesOf[i]
           /\ o[1] = Posts /\ i = 5 => o \in Posts5
           /\ o[1] = Posts /\ i = 7 => o \in Posts7
           /\ o[1] = Posts /\ i = 8 => o \in Posts8
           /\ i = 2 => o \in Products2
           /\ i # 10 => o # Copy(Posts)
<1>1. PICK k \in DOMAIN Upgrades[i] :
         /\ Makes(Upgrades[i][k]) /\ o = Upgrades[i][k].on
         /\ \A l \in DOMAIN Upgrades[i] : l > k => ~Takes(Upgrades[i][l], o)
  BY DEF Leaves
<1>a. Posts \in TablesOf[5] /\ "scheduled_post_executions" \in TablesOf[5]
      /\ Posts \in TablesOf[7]
      /\ Posts \in TablesOf[8] /\ "scheduled_post_audits" \in TablesOf[8]
      /\ Posts \in TablesOf[9] /\ "outbox_events" \in TablesOf[9]
  BY DEF TablesOf
<1>b. Copy(Posts)[1] = "_alembic_tmp_"
  BY DEF Copy
<1>2. CASE i \in Plain
  <2>1. PICK t \in TablesOf[i] : o \in {<<t>>, <<t, "indexes">>}
    BY <1>1, <1>2, MadeByPlain
  <2>2. o[1] = t
    BY <2>1
  <2>3. i = 2 => o \in Products2
    BY <2>1 DEF TablesOf, Products2
  <2>4. "_alembic_tmp_" \notin TablesOf[i]
    BY <1>2 DEF Plain, TablesOf, Posts
  <2>5. i # 5 /\ i # 7 /\ i # 8
    BY <1>2 DEF Plain
  <2>6. QED
    BY <1>b, <2>2, <2>3, <2>4, <2>5
<1>3. CASE i = 5
  <2>1. o \in Posts5 \/ o[1] = "scheduled_post_executions"
    BY <1>1, <1>3, MadeBy5
  <2>2. \A x \in Posts5 : x[1] = Posts
    BY DEF Posts5
  <2>3. QED
    BY <1>3, <1>a, <1>b, <2>1, <2>2 DEF Posts
<1>4. CASE i = 7
  <2>1. o \in Posts7
    BY <1>1, <1>4, MadeBy7
  <2>2. \A x \in Posts7 : x[1] = Posts
    BY DEF Posts7
  <2>3. QED
    BY <1>4, <1>a, <1>b, <2>1, <2>2 DEF Posts
<1>5. CASE i = 8
  <2>1. o # Copy(Posts)
    <3>1. SUFFICES ASSUME o = Copy(Posts) PROVE FALSE
      OBVIOUS
    <3>2. o \notin Posts8 /\ o[1] # "scheduled_post_audits"
      BY <1>b, <3>1 DEF Posts8, Posts
    <3>3. k \in 1 .. 19 /\ k <= 11
      BY <1>1, <1>5, <3>2, MadeBy8
    <3>4. ~Takes(Upgrades[8][17], o)
      BY <1>1, <1>5, <3>3, MadeBy8
    <3>5. QED
      BY <3>1, <3>4, MadeBy8 DEF Takes, Unmake, Copy
  <2>2. o \in Posts8 \/ o[1] = "scheduled_post_audits"
    BY <1>1, <1>5, <2>1, MadeBy8
  <2>3. \A x \in Posts8 : x[1] = Posts
    BY DEF Posts8
  <2>4. QED
    BY <1>5, <1>a, <2>1, <2>2, <2>3 DEF Posts
<1>6. CASE i = 9
  <2>1. o \in Posts9 \/ o[1] = "outbox_events"
    BY <1>1, <1>6, MadeBy9
  <2>2. \A x \in Posts9 : x[1] = Posts
    BY DEF Posts9
  <2>3. QED
    BY <1>6, <1>a, <1>b, <2>1, <2>2 DEF Posts
<1>7. CASE i = 10
  <2>1. o[1] \in TablesOf[10]
    BY <1>1, <1>7, MadeBy10
  <2>2. QED
    BY <1>7, <2>1
<1>8. QED
  BY <1>2, <1>3, <1>4, <1>5, <1>6, <1>7 DEF Plain

LEMMA LongNames ==
    /\ \A x \in Posts7 \cup Posts8 \cup Posts9 : Len(x) > 1
    /\ \A t : Len(Copy(t)) > 1 /\ Len(<<t>>) = 1 /\ Len(<<t, "indexes">>) > 1
<1>1. \A a, b : Len(<<a, b>>) > 1
  OBVIOUS
<1>2. \A a, b, c : Len(<<a, b, c>>) > 1
  OBVIOUS
<1>3. \A x \in Posts7 \cup Posts8 \cup Posts9 :
         (\E a, b : x = <<a, b>>) \/ (\E a, b, c : x = <<a, b, c>>)
  BY DEF Posts7, Posts8, Posts9
<1>4. \A x \in Posts7 \cup Posts8 \cup Posts9 : Len(x) > 1
  BY <1>1, <1>2, <1>3
<1>5. QED
  BY <1>1, <1>4 DEF Copy

LEMMA InAfter ==
    ASSUME NEW r \in 0 .. 14, NEW o
    PROVE  o \in After[r].schema <=>
              \E i \in 1 .. r : o \in Leaves(i) /\ \A j \in i + 1 .. r : ~Loses(j, o)
<1> DEFINE S == UNION {{x \in Leaves(i) : \A j \in i + 1 .. r : ~Loses(j, x)} : i \in 1 .. r}
<1>1. After[r] = [NoDatabase EXCEPT !.schema = S, !.revision = r]
  BY Numbered DEF After
<1> HIDE DEF S
<1>2. After[r].schema = S
  BY <1>1 DEF NoDatabase
<1>3. QED
  BY <1>2 DEF S

\* An upgrade takes nothing away before its transaction is open.
LEMMA UnmakesLate ==
    ASSUME NEW r \in 1 .. 14, NEW k \in DOMAIN Upgrades[r], Upgrades[r][k].op = "unmake"
    PROVE  \E j \in DOMAIN Upgrades[r] : j < k /\ Upgrades[r][j].op = "rows"
<1>1. r \notin Plain \cup {5, 7, 9}
  BY MadeByPlain, MadeBy5, MadeBy7, MadeBy9
<1>2. CASE r = 8
  <2>1. k > 2 /\ 2 \in DOMAIN Upgrades[8] /\ Upgrades[8][2].op = "rows"
    BY <1>2, MadeBy8
  <2>2. QED
    BY <1>2, <2>1
<1>3. CASE r = 10
  <2>1. k = 27 /\ 22 \in DOMAIN Upgrades[10] /\ Upgrades[10][22].op = "rows"
    BY <1>3, MadeBy10, Up10Places DEF Rows
  <2>2. QED
    BY <1>3, <2>1
<1>4. QED
  BY <1>1, <1>2, <1>3 DEF Plain

\* What an upgrade may take away.
LEMMA LosesOf ==
    ASSUME NEW r \in 1 .. 14, NEW o, Loses(r, o)
    PROVE  \/ r = 8 /\ (\/ o \in Posts7 \/ o = Copy(Posts)
                        \/ o = <<Posts, "status">> \/ o = <<Posts, "status", "index">>)
           \/ r = 10 /\ o = ProductsCopy
<1>1. PICK k \in DOMAIN Upgrades[r] : Takes(Upgrades[r][k], o)
  BY DEF Loses
<1>2. Upgrades[r][k].op = "unmake"
  BY <1>1 DEF Takes
<1>3. r \notin Plain \cup {5, 7, 9}
  BY <1>2, MadeByPlain, MadeBy5, MadeBy7, MadeBy9
<1>4. CASE r = 8
  <2> DEFINE x == Upgrades[8][k].on
  <2>1. \/ x \in Posts7 \/ x = Copy(Posts)
        \/ x = <<Posts, "status">> \/ x = <<Posts, "status", "index">>
    BY <1>2, <1>4, MadeBy8
  <2>2. Len(x) > 1
    <3> HIDE DEF x
    <3>1. Len(<<Posts, "status">>) > 1 /\ Len(<<Posts, "status", "index">>) > 1
      OBVIOUS
    <3>2. QED
      BY <2>1, <3>1, LongNames
  <2>3. o = x
    BY <1>1, <1>4, <2>2 DEF Takes
  <2>4. QED
    BY <1>4, <2>1, <2>3
<1>5. CASE r = 10
  <2>1. Upgrades[10][k] = Unmake(ProductsCopy)
    BY <1>2, <1>5, MadeBy10, Up10Places
  <2>2. o = ProductsCopy
    BY <1>1, <1>5, <2>1 DEF Takes, Unmake, ProductsCopy, Copy
  <2>3. QED
    BY <1>5, <2>2
<1>6. QED
  BY <1>3, <1>4, <1>5 DEF Plain

\* What a downgrade may take away.
LEMMA TakenBack ==
    ASSUME NEW r \in 1 .. 14, NEW k \in DOMAIN Downgrades[r], NEW o, Takes(Downgrades[r][k], o)
    PROVE  /\ r \in Plain \cup {5} => o[1] \in TablesOf[r]
           /\ r = 7 => o \in Posts7
           /\ r = 8 => o[1] = "scheduled_post_audits" \/ o = Copy(Posts) \/ o \in Posts8
           /\ r = 9 => o[1] = "outbox_events" \/ o = Copy(Posts) \/ o \in Posts9
           /\ r = 10 => \/ o[1] \in TablesOf[10] \ {"products", "_alembic_tmp_"}
                        \/ o[1] = "products" /\ o \notin Products2
                        \/ o = ProductsCopy
<1> DEFINE x == Downgrades[r][k].on
<1>1. /\ Downgrades[r][k].op = "unmake"
      /\ Len(x) > 1 => o = x
      /\ ~(Len(x) > 1) => o[1] = x[1]
  BY DEF Takes
<1>2. CASE r \in Plain
  <2>1. PICK t \in TablesOf[r] : x \in {<<t>>, <<t, "indexes">>}
    BY <1>2, PlainTables DEF OfTables
  <2>2. o[1] = t
    BY <1>1, <2>1
  <2>3. QED
    BY <1>2, <2>2 DEF Plain
<1>3. CASE r = 5
  <2>1. x \in {<<"scheduled_post_executions", "indexes">>, <<"scheduled_post_executions">>,
               <<Posts, "status", "index">>, <<Posts, "indexes">>, <<Posts>>}
    BY <1>3, Numbered, Down5 DEF Unmake
  <2>2. o[1] \in {"scheduled_post_executions", Posts}
    BY <1>1, <2>1
  <2>3. QED
    BY <1>3, <2>2 DEF TablesOf
<1>4. CASE r = 7
  <2>1. x \in Posts7
    BY <1>4, Numbered, Down7 DEF Unmake, Posts7
  <2>2. Len(x) > 1
    BY <2>1, LongNames
  <2>3. QED
    BY <1>1, <1>4, <2>1, <2>2 DEF Plain
<1>5. CASE r = 8
  <2>1. \A j \in 1 .. 19 : NoStateMachine[j].op = "unmake" =>
           \/ NoStateMachine[j].on \in {<<"scheduled_post_audits", "indexes">>,
                                        <<"scheduled_post_audits">>, Copy(Posts)}
           \/ NoStateMachine[j].on \in Posts8
    BY Down8 DEF Make, Unmake, Rows, Posts8
  <2>2. \/ x \in {<<"scheduled_post_audits", "indexes">>,
                  <<"scheduled_post_audits">>, Copy(Posts)}
        \/ x \in Posts8
    BY <1>1, <1>5, <2>1, Numbered, Down8
  <2>3. Len(x) > 1 \/ x = <<"scheduled_post_audits">>
    <3> HIDE DEF x
    <3>1. QED
      BY <2>2, LongNames
  <2>4. QED
    <3>1. x \in Posts8 => o \in Posts8
      BY <1>1, LongNames
    <3>2. x = Copy(Posts) => o = Copy(Posts)
      BY <1>1, LongNames
    <3>3. x[1] = "scheduled_post_audits" => o[1] = "scheduled_post_audits"
      BY <1>1
    <3>4. QED
      BY <1>5, <2>2, <3>1, <3>2, <3>3 DEF Plain
<1>6. CASE r = 9
  <2>1. \A j \in 1 .. 8 : NoLocking[j].op = "unmake" =>
           \/ NoLocking[j].on \in {<<"outbox_events", "indexes">>, <<"outbox_events">>,
                                   Copy(Posts)}
           \/ NoLocking[j].on \in Posts9
    BY Down9 DEF Make, Unmake, Rows, Posts9
  <2>2. \/ x \in {<<"outbox_events", "indexes">>, <<"outbox_events">>, Copy(Posts)}
        \/ x \in Posts9
    BY <1>1, <1>6, <2>1, Numbered, Down9
  <2>3. Len(x) > 1 \/ x = <<"outbox_events">>
    <3> HIDE DEF x
    <3>1. QED
      BY <2>2, LongNames
  <2>4. QED
    <3>1. x \in Posts9 => o \in Posts9
      BY <1>1, LongNames
    <3>2. x = Copy(Posts) => o = Copy(Posts)
      BY <1>1, LongNames
    <3>3. x[1] = "outbox_events" => o[1] = "outbox_events"
      BY <1>1
    <3>4. QED
      BY <1>6, <2>2, <3>1, <3>2, <3>3 DEF Plain
<1>7. CASE r = 10
  <2> DEFINE Names == {"product_categories", "product_images",
                       "product_price_histories", "product_version_histories"}
             Column(y) == y[1] = "products" /\ Len(y) > 1 /\ y \notin Products2
             Fits(s) == s.op = "unmake" =>
                \/ \E t \in Names : s.on \in {<<t>>, <<t, "indexes">>}
                \/ Column(s.on)
                \/ s.on = ProductsCopy
  <2>1. \A j \in 1 .. 4 : Fits(NoAggregateKey[j])
    BY DownKey DEF Make, Unmake, Rows, CategoryKey, ProductsCopy, Products2
  <2>2. \A j \in 1 .. 8 : Fits(Drops(ProductTables)[j])
    BY DownTables DEF Unmake
  <2>3. \A j \in 1 .. 15 : Fits(NoAggregateColumns[j])
    <3>1. /\ \A c : c # "indexes" => Column(<<"products", c>>)
          /\ \A c : Column(<<"products", c, "index">>)
      BY DEF Products2
    <3> HIDE DEF Column
    <3>2. \A j \in 1 .. 15 : NoAggregateColumns[j].op = "unmake" =>
             \/ \E c : c # "indexes" /\ NoAggregateColumns[j].on = <<"products", c>>
             \/ \E c : NoAggregateColumns[j].on = <<"products", c, "index">>
             \/ NoAggregateColumns[j].on = ProductsCopy
      BY DownColumns DEF Make, Unmake, Rows, ProductsCopy
    <3>3. QED
      BY <3>1, <3>2
  <2>4. Fits(Unmake(ItemIndex))
    BY DEF Unmake, ItemIndex, Products2
  <2>5. k \in 1 .. 28
    BY <1>7, Down10
  <2>6. Fits(Downgrades[10][k])
    <3> HIDE DEF Fits
    <3>1. QED
      BY <2>1, <2>2, <2>3, <2>4, <2>5, Down10
  <2>7. CASE \E t \in Names : x \in {<<t>>, <<t, "indexes">>}
    <3>1. PICK t \in Names : x \in {<<t>>, <<t, "indexes">>}
      BY <2>7
    <3>2. o[1] = t
      BY <1>1, <3>1
    <3>3. t \in TablesOf[10] \ {"products", "_alembic_tmp_"}
      BY DEF TablesOf
    <3>4. QED
      BY <1>7, <3>2, <3>3 DEF Plain
  <2>8. CASE Column(x)
    BY <1>1, <1>7, <2>8 DEF Plain
  <2>9. CASE x = ProductsCopy
    BY <1>1, <1>7, <2>9 DEF Plain, ProductsCopy, Copy
  <2>10. QED
    BY <1>1, <1>7, <2>6, <2>7, <2>8, <2>9
<1>8. QED
  BY <1>2, <1>3, <1>4, <1>5, <1>6, <1>7 DEF Plain

-----------------------------------------------------------------------------
(* A downgrade gives back what its upgrade found *)

StatusIndex == <<Posts, "status", "index">>

\* What the database of revision r has, but for the index that 0008 forgets.
Owed(r) == After[r].schema \ {StatusIndex}

\* s has made o, and has not taken it away since, when k is its next statement.
HasMade(s, k, o) ==
    \E j \in 1 .. k - 1 : /\ Makes(s[j]) /\ s[j].on = o
                          /\ \A l \in j + 1 .. k - 1 : ~Takes(s[l], o)
Spares(s, k, o) == \A l \in 1 .. k - 1 : ~Takes(s[l], o)

\* A migration that starts from B is at statement k of s and sees S.
Kept(s, k, B, S) ==
    \A o : HasMade(s, k, o) \/ (o \in B /\ Spares(s, k, o)) => o \in S

LEMMA KeptStep ==
    ASSUME NEW s, NEW k \in Nat, k > 0, NEW B, NEW S, NEW T, Kept(s, k, B, S),
           \/ Makes(s[k]) /\ T = S \cup {s[k].on}
           \/ s[k].op = "unmake" /\ T = {o \in S : ~Takes(s[k], o)}
           \/ s[k].op = "rows" /\ T = S
    PROVE  Kept(s, k + 1, B, T)
<1>1. SUFFICES ASSUME NEW o, HasMade(s, k + 1, o) \/ (o \in B /\ Spares(s, k + 1, o))
               PROVE  o \in T
  BY DEF Kept
<1>2. (Makes(s[k]) /\ s[k].on = o) \/ (o \in S /\ ~Takes(s[k], o))
  <2>1. CASE o \in B /\ Spares(s, k + 1, o)
    <3>1. \A l \in 1 .. k : ~Takes(s[l], o)
      BY <2>1 DEF Spares
    <3>2. Spares(s, k, o) /\ ~Takes(s[k], o)
      BY <3>1 DEF Spares
    <3>3. QED
      BY <2>1, <3>2 DEF Kept
  <2>2. CASE HasMade(s, k + 1, o)
    <3>1. PICK j \in 1 .. k : /\ Makes(s[j]) /\ s[j].on = o
                              /\ \A l \in j + 1 .. k : ~Takes(s[l], o)
      BY <2>2 DEF HasMade
    <3>2. CASE j = k
      BY <3>1, <3>2
    <3>3. CASE j < k
      <4>1. j \in 1 .. k - 1 /\ k \in j + 1 .. k
        BY <3>3
      <4>2. \A l \in j + 1 .. k - 1 : ~Takes(s[l], o)
        BY <3>1
      <4>3. HasMade(s, k, o) /\ ~Takes(s[k], o)
        BY <3>1, <4>1, <4>2 DEF HasMade
      <4>4. QED
        BY <4>3 DEF Kept
    <3>4. QED
      BY <3>2, <3>3
  <2>3. QED
    BY <1>1, <2>1, <2>2
<1>3. Makes(s[k]) => s[k].op # "unmake" /\ s[k].op # "rows"
  BY DEF Makes
<1>4. QED
  BY <1>2, <1>3

LEMMA KeptUp ==
    ASSUME NEW r \in 0 .. 13, NEW S,
           Kept(Upgrades[r + 1], Len(Upgrades[r + 1]) + 1, Owed(r), S)
    PROVE  Owed(r + 1) \subseteq S
<1> DEFINE s == Upgrades[r + 1]
<1>a. r + 1 \in 1 .. 14 /\ r + 1 \in 0 .. 14 /\ r \in 0 .. 14
  OBVIOUS
<1>1. Len(s) \in Nat /\ DOMAIN s = 1 .. Len(s)
  BY <1>a, Properly DEF Proper
<1>2. SUFFICES ASSUME NEW o \in After[r + 1].schema, o # StatusIndex PROVE o \in S
  BY DEF Owed
<1>3. PICK i \in 1 .. r + 1 : o \in Leaves(i) /\ \A j \in i + 1 .. r + 1 : ~Loses(j, o)
  BY <1>a, InAfter
<1>4. CASE i = r + 1
  <2>1. PICK k \in DOMAIN s : /\ Makes(s[k]) /\ s[k].on = o
                              /\ \A l \in DOMAIN s : l > k => ~Takes(s[l], o)
    BY <1>3, <1>4 DEF Leaves
  <2> HIDE DEF s
  <2>2. HasMade(s, Len(s) + 1, o)
    BY <1>1, <2>1 DEF HasMade
  <2>3. QED
    BY <2>2 DEF Kept, s
<1>5. CASE i \in 1 .. r
  <2>1. o \in Owed(r)
    <3>1. \A j \in i + 1 .. r : ~Loses(j, o)
      BY <1>3, <1>5
    <3>2. o \in After[r].schema
      BY <1>3, <1>5, <1>a, <3>1, InAfter
    <3>3. QED
      BY <1>2, <3>2 DEF Owed
  <2>2. ~Loses(r + 1, o)
    BY <1>3, <1>5
  <2>3. \A k \in DOMAIN s : ~Takes(s[k], o)
    BY <2>2 DEF Loses
  <2> HIDE DEF s
  <2>4. Spares(s, Len(s) + 1, o)
    BY <1>1, <2>3 DEF Spares
  <2>5. QED
    BY <2>1, <2>4 DEF Kept, s
<1>6. QED
  BY <1>4, <1>5

LEMMA GivesBack ==
    ASSUME NEW r \in 1 .. 14, NEW o \in Owed(r - 1)
    PROVE  \/ o \in Owed(r) /\ \A k \in DOMAIN Downgrades[r] : ~Takes(Downgrades[r][k], o)
           \/ \E j \in DOMAIN Downgrades[r] :
                 /\ Makes(Downgrades[r][j]) /\ Downgrades[r][j].on = o
                 /\ \A l \in DOMAIN Downgrades[r] : l > j => ~Takes(Downgrades[r][l], o)
<1>1. PICK i \in 1 .. r - 1 : o \in Leaves(i) /\ \A j \in i + 1 .. r - 1 : ~Loses(j, o)
  BY InAfter DEF Owed
<1>2. o # StatusIndex
  BY DEF Owed
<1>3. ASSUME ~Loses(r, o) PROVE o \in Owed(r)
  <2>1. \A j \in i + 1 .. r : ~Loses(j, o)
    BY <1>1, <1>3
  <2>2. QED
    BY <1>1, <1>2, <2>1, InAfter DEF Owed
<1>4. /\ o[1] \in TablesOf[i]
      /\ o[1] = Posts /\ i = 5 => o \in Posts5
      /\ o[1] = Posts /\ i = 7 => o \in Posts7
      /\ o[1] = Posts /\ i = 8 => o \in Posts8
      /\ i = 2 => o \in Products2
      /\ i # 10 => o # Copy(Posts)
  BY <1>1, LeavesOf
<1>a. \A x \in Posts5 \cup Posts7 \cup Posts8 \cup Posts9 : x[1] = Posts
  BY DEF Posts5, Posts7, Posts8, Posts9
<1>5. CASE r \in Plain \cup {5}
  <2>1. TablesOf[i] \cap TablesOf[r] = {}
    BY <1>5 DEF Plain, TablesOf, Posts
  <2>2. \A k \in DOMAIN Downgrades[r] : ~Takes(Downgrades[r][k], o)
    BY <1>4, <1>5, <2>1, TakenBack
  <2>3. ~Loses(r, o)
    BY <1>5, LosesOf DEF Plain
  <2>4. QED
    BY <1>3, <2>2, <2>3
<1>6. CASE r = 7
  <2>1. o \notin Posts7
    <3>1. SUFFICES ASSUME o \in Posts7 PROVE FALSE
      OBVIOUS
    <3>2. Posts \in TablesOf[i] /\ i \in 1 .. 6
      BY <1>4, <1>6, <1>a, <3>1
    <3>3. i = 5
      BY <3>2 DEF TablesOf, Posts
    <3>4. o \in Posts5
      BY <1>4, <1>a, <3>1, <3>3
    <3>5. QED
      BY <3>1, <3>4 DEF Posts5, Posts7
  <2>2. \A k \in DOMAIN Downgrades[r] : ~Takes(Downgrades[r][k], o)
    BY <1>6, <2>1, TakenBack
  <2>3. ~Loses(r, o)
    BY <1>6, LosesOf
  <2>4. QED
    BY <1>3, <2>2, <2>3
<1>7. CASE r = 8
  <2>1. o[1] = Posts => o \in Posts5 \cup Posts7
    <3>1. SUFFICES ASSUME o[1] = Posts PROVE o \in Posts5 \cup Posts7
      OBVIOUS
    <3>2. Posts \in TablesOf[i] /\ i \in 1 .. 7
      BY <1>4, <1>7, <3>1
    <3>3. i = 5 \/ i = 7
      BY <3>2 DEF TablesOf, Posts
    <3>4. QED
      BY <1>4, <3>1, <3>3
  <2>2. o \notin Posts8
    BY <1>a, <2>1 DEF Posts5, Posts7, Posts8
  <2>3. o[1] # "scheduled_post_audits"
    <3>1. i \in 1 .. 7
      BY <1>7
    <3>2. QED
      BY <1>4, <3>1 DEF TablesOf, Posts
  <2>4. o # Copy(Posts)
    BY <1>4, <1>7
  <2>5. \A k \in DOMAIN Downgrades[8] : ~Takes(Downgrades[8][k], o)
    BY <2>2, <2>3, <2>4, TakenBack
  <2>6. CASE Loses(8, o)
    <3>1. o \in Posts7 \/ o = <<Posts, "status">>
      BY <1>2, <2>4, <2>6, LosesOf DEF StatusIndex
    <3>2. \E j \in 1 .. 19 : Makes(NoStateMachine[j]) /\ NoStateMachine[j].on = o
      BY <3>1, Down8 DEF Posts7, Makes, Make
    <3>3. QED
      BY <1>7, <2>5, <3>2, Numbered, Down8
  <2>7. QED
    BY <1>3, <1>7, <2>5, <2>6
<1>8. CASE r = 9
  <2>1. o[1] = Posts => o \in Posts5 \cup Posts7 \cup Posts8
    <3>1. SUFFICES ASSUME o[1] = Posts PROVE o \in Posts5 \cup Posts7 \cup Posts8
      OBVIOUS
    <3>2. Posts \in TablesOf[i] /\ i \in 1 .. 8
      BY <1>4, <1>8, <3>1
    <3>3. i = 5 \/ i = 7 \/ i = 8
      BY <3>2 DEF TablesOf, Posts
    <3>4. QED
      BY <1>4, <3>1, <3>3
  <2>2. o \notin Posts9
    BY <1>a, <2>1 DEF Posts5, Posts7, Posts8, Posts9
  <2>3. o[1] # "outbox_events"
    <3>1. i \in 1 .. 8
      BY <1>8
    <3>2. QED
      BY <1>4, <3>1 DEF TablesOf, Posts
  <2>4. o # Copy(Posts)
    BY <1>4, <1>8
  <2>5. \A k \in DOMAIN Downgrades[r] : ~Takes(Downgrades[r][k], o)
    BY <1>8, <2>2, <2>3, <2>4, TakenBack
  <2>6. ~Loses(r, o)
    BY <1>8, LosesOf
  <2>7. QED
    BY <1>3, <2>5, <2>6
<1>9. CASE r = 10
  <2>1. i \in 1 .. 9
    BY <1>9
  <2>2. o[1] \notin TablesOf[10] \ {"products", "_alembic_tmp_"}
    BY <1>4, <2>1 DEF TablesOf, Posts
  <2>3. o[1] = "products" => o \in Products2
    <3>1. o[1] = "products" => i = 2
      BY <1>4, <2>1 DEF TablesOf, Posts
    <3>2. QED
      BY <1>4, <3>1
  <2>4. o # ProductsCopy
    <3>1. PICK k \in DOMAIN Upgrades[i] : Makes(Upgrades[i][k]) /\ Upgrades[i][k].on = o
      BY <1>1 DEF Leaves
    <3>2. Ordinary(Upgrades[i][k])
      BY <2>1, OrdinaryOthers
    <3>3. QED
      BY <3>1, <3>2 DEF Ordinary
  <2>5. \A k \in DOMAIN Downgrades[r] : ~Takes(Downgrades[r][k], o)
    BY <1>9, <2>2, <2>3, <2>4, TakenBack
  <2>6. ~Loses(r, o)
    BY <1>9, <2>4, LosesOf
  <2>7. QED
    BY <1>3, <2>5, <2>6
<1>10. r \in Plain \cup {5} \/ r = 7 \/ r = 8 \/ r = 9 \/ r = 10
  BY DEF Plain
<1>11. QED
  BY <1>5, <1>6, <1>7, <1>8, <1>9, <1>10

LEMMA KeptDown ==
    ASSUME NEW r \in 1 .. 14, NEW S,
           Kept(Downgrades[r], Len(Downgrades[r]) + 1, Owed(r), S)
    PROVE  Owed(r - 1) \subseteq S
<1> DEFINE s == Downgrades[r]
<1>1. Len(s) \in Nat /\ DOMAIN s = 1 .. Len(s)
  BY Properly DEF Proper
<1>2. SUFFICES ASSUME NEW o \in Owed(r - 1) PROVE o \in S
  OBVIOUS
<1>3. CASE o \in Owed(r) /\ \A k \in DOMAIN s : ~Takes(s[k], o)
  <2> HIDE DEF s
  <2>1. Spares(s, Len(s) + 1, o)
    BY <1>1, <1>3 DEF Spares
  <2>2. QED
    BY <1>3, <2>1 DEF Kept, s
<1>4. CASE \E j \in DOMAIN s : /\ Makes(s[j]) /\ s[j].on = o
                               /\ \A l \in DOMAIN s : l > j => ~Takes(s[l], o)
  <2> HIDE DEF s
  <2>1. HasMade(s, Len(s) + 1, o)
    BY <1>1, <1>4 DEF HasMade
  <2>2. QED
    BY <2>1 DEF Kept, s
<1>5. \/ o \in Owed(r) /\ \A k \in DOMAIN s : ~Takes(s[k], o)
      \/ \E j \in DOMAIN s : /\ Makes(s[j]) /\ s[j].on = o
                             /\ \A l \in DOMAIN s : l > j => ~Takes(s[l], o)
  BY GivesBack
<1>6. QED
  BY <1>3, <1>4, <1>5

-----------------------------------------------------------------------------
(* The revision that a database records *)

Holds(d) == Owed(d.revision) \subseteq d.schema

OnceOpen == migrator = "up" /\ (\E j \in 1 .. at - 1 : Statements[j].op = "rows") => open

Progress ==
    /\ at <= Len(Statements) + 1
    /\ ~torn => Kept(Statements, at, Owed(db.revision), View.schema)
    /\ OnceOpen

Held ==
    /\ ~torn /\ migrator # "down" => Holds(db)
    /\ ~torn /\ backup.db # <<>> => Holds(backup.db[1])
    /\ Running => Progress

LEMMA KeptStart ==
    ASSUME NEW s, NEW B, NEW S, B \subseteq S
    PROVE  Kept(s, 1, B, S)
<1>1. \A o : ~HasMade(s, 1, o)
  BY DEF HasMade
<1>2. QED
  BY <1>1 DEF Kept

LEMMA LengthNext ==
    ASSUME TypeOK', Way', Running'
    PROVE  Len(Statements') \in Nat
<1>1. db'.revision \in 0 .. 14 /\ target' \in 0 .. 14
  BY Numbered DEF TypeOK, MigratorOK, IsDatabase
<1>2. /\ migrator' = "up" => db'.revision + 1 \in 1 .. 14
      /\ migrator' = "down" => db'.revision \in 1 .. 14
      /\ migrator' \in {"up", "down"}
  <2>1. migrator' = "up" => db'.revision < 14
    BY Numbered DEF Way
  <2>2. migrator' = "down" => target' < db'.revision
    BY DEF Way
  <2>3. migrator' \in {"up", "down"}
    BY DEF Running
  <2>4. QED
    BY <1>1, <2>1, <2>2, <2>3
<1>3. Proper(Statements')
  BY <1>2, Properly DEF Statements
<1>4. QED
  BY <1>3 DEF Proper

LEMMA ProgressStart ==
    ASSUME TypeOK', Way', Running', ~torn' => Holds(db'), at' = 1, ~open'
    PROVE  Progress'
<1>1. at' <= Len(Statements') + 1
  BY LengthNext
<1>2. View' = db'
  BY DEF View
<1>3. ASSUME ~torn' PROVE Kept(Statements', 1, Owed(db'.revision), View'.schema)
  BY <1>2, <1>3, KeptStart DEF Holds
<1>4. OnceOpen'
  BY DEF OnceOpen
<1>5. QED
  BY <1>1, <1>3, <1>4 DEF Progress

LEMMA DoneSchema ==
    ASSUME NEW s, s.op \in {"make", "ensure", "unmake", "rows"},
           NEW d, IsDatabase(d)
    PROVE  /\ Makes(s) => Done(s, d).schema = d.schema \cup {s.on}
           /\ s.op = "unmake" => Done(s, d).schema = {o \in d.schema : ~Takes(s, o)}
           /\ s.op = "rows" => Done(s, d).schema = d.schema
<1>1. CASE Makes(s)
  <2>1. Done(s, d) = [d EXCEPT !.schema = @ \cup {s.on}]
    BY <1>1 DEF Done, Makes
  <2>2. s.op # "unmake" /\ s.op # "rows"
    BY <1>1 DEF Makes
  <2>3. QED
    BY <2>1, <2>2, <1>1 DEF IsDatabase
<1>2. CASE s.op = "unmake"
  <2>1. ~Makes(s)
    BY <1>2 DEF Makes
  <2> DEFINE S == {o \in d.schema : ~Takes(s, o)}
             P == IF s.on = <<"products">> THEN {} ELSE d.products
             V == IF s.on = <<"product_version_histories">>
                  THEN [p \in OldProducts |-> 0] ELSE d.versions
  <2>2. Done(s, d) = [d EXCEPT !.schema = S, !.products = P, !.versions = V]
    BY <1>2, <2>1 DEF Done
  <2> HIDE DEF S, P, V
  <2>3. Done(s, d).schema = S
    BY <2>2 DEF IsDatabase
  <2>4. QED
    BY <1>2, <2>1, <2>3 DEF S
<1>3. CASE s.op = "rows"
  <2>1. ~Makes(s) /\ s.op # "unmake"
    BY <1>3 DEF Makes
  <2> DEFINE V == [p \in OldProducts |->
                     IF p \in d.products THEN d.versions[p] + 1 ELSE d.versions[p]]
  <2>2. Done(s, d) = IF s.on = "aggregate" THEN [d EXCEPT !.versions = V] ELSE d
    BY <1>3, <2>1 DEF Done
  <2> HIDE DEF V
  <2>3. Done(s, d).schema = d.schema
    BY <2>2 DEF IsDatabase
  <2>4. QED
    BY <1>3, <2>1, <2>3
<1>4. QED
  BY <1>1, <1>2, <1>3 DEF Makes

\* How a statement changes the tables and columns that the migration sees.
LEMMA SchemaNext ==
    ASSUME TypeOK, Way, Execute
    PROVE  /\ \/ /\ Makes(Statements[at])
                 /\ View'.schema = View.schema \cup {Statements[at].on}
              \/ /\ Statements[at].op = "unmake" /\ Statements[at].on \in View.schema
                 /\ View'.schema = {o \in View.schema : ~Takes(Statements[at], o)}
              \/ Statements[at].op = "rows" /\ View'.schema = View.schema
           /\ db'.revision = db.revision /\ View'.revision = db.revision
           /\ db' = db \/ db' = View'
<1> DEFINE s == Statements[at]
           d == Done(s, View)
<1>1. /\ s.op \in {"make", "ensure", "unmake", "rows"} /\ ~Fails(s, View)
      /\ IsDatabase(View) /\ d.revision = db.revision
      /\ \/ open' /\ work' = d /\ db' = db
         \/ ~open' /\ db' = d /\ work' = work
  BY Executed
<1>2. /\ Makes(s) => d.schema = View.schema \cup {s.on}
      /\ s.op = "unmake" => d.schema = {o \in View.schema : ~Takes(s, o)}
      /\ s.op = "rows" => d.schema = View.schema
  BY <1>1, DoneSchema
<1>3. Makes(s) \/ s.op = "unmake" \/ s.op = "rows"
  BY <1>1 DEF Makes
<1>4. s.op = "unmake" => s.on \in View.schema
  BY <1>1 DEF Fails
<1>5. View' = d
  BY ViewAfter
<1> HIDE DEF d
<1>6. QED
  BY <1>1, <1>2, <1>3, <1>4, <1>5 DEF View

LEMMA ProgressExecute ==
    ASSUME TypeOK, Way, Running, Progress, Execute
    PROVE  Progress'
<1> DEFINE s == Statements[at]
           L == Statements
<1>1. /\ at \in 1 .. Len(Statements) /\ at' = at + 1
      /\ s.op \in {"make", "ensure", "unmake", "rows"}
      /\ IsDatabase(View) /\ UNCHANGED <<migrator, torn>>
  BY Executed
<1>2. (open => open') /\ (s.op = "rows" => open')
  BY Executed DEF Opens, TypeOK, MigratorOK
<1>3. db'.revision = db.revision
  BY SchemaNext
<1>4. Statements' = Statements
  BY <1>1, <1>3 DEF Statements
<1>5. at \in Nat /\ at > 0
  BY DEF TypeOK, MigratorOK, Way
<1>6. \/ Makes(s) /\ View'.schema = View.schema \cup {s.on}
      \/ s.op = "unmake" /\ View'.schema = {o \in View.schema : ~Takes(s, o)}
      \/ s.op = "rows" /\ View'.schema = View.schema
  BY SchemaNext
<1>7. ASSUME ~torn
      PROVE  Kept(L, at + 1, Owed(db.revision), View'.schema)
  <2>1. Kept(L, at, Owed(db.revision), View.schema)
    BY <1>7 DEF Progress
  <2>2. QED
    BY <1>5, <1>6, <2>1, KeptStep
<1>8. OnceOpen'
  <2>1. SUFFICES ASSUME migrator = "up", NEW j \in 1 .. at, L[j].op = "rows"
                 PROVE  open'
    BY <1>1, <1>4 DEF OnceOpen
  <2>2. CASE j = at
    BY <1>2, <2>1, <2>2
  <2>3. CASE j < at
    <3>1. j \in 1 .. at - 1
      BY <1>5, <2>3
    <3>2. open
      BY <2>1, <3>1 DEF Progress, OnceOpen
    <3>3. QED
      BY <1>2, <3>2
  <2>4. QED
    BY <1>5, <2>2, <2>3
<1>9. at' <= Len(Statements') + 1
  <2>1. Len(L) \in Nat
    BY ProperStatements DEF Proper
  <2>2. QED
    BY <1>1, <1>4, <1>5, <2>1
<1>10. QED
  BY <1>1, <1>3, <1>4, <1>7, <1>8, <1>9 DEF Progress

LEMMA HeldInit == Init => Held
<1> SUFFICES ASSUME Init PROVE Held
  OBVIOUS
<1>1. /\ IsDatabase(After[9]) /\ After[9].revision = 9
      /\ NoDatabase.revision = 0 /\ Owed(0) = {}
  BY AfterProperly, InAfter, Numbered DEF NoDatabase, Owed
<1>2. Holds(db)
  <2>1. CASE db = NoDatabase
    BY <1>1, <2>1 DEF Holds
  <2>2. ASSUME NEW ps \in SUBSET OldProducts,
               db = [After[9] EXCEPT !.products = ps, !.admins = 1]
        PROVE  Holds(db)
    <3>1. db.revision = 9 /\ db.schema = After[9].schema
      BY <1>1, <2>2 DEF IsDatabase
    <3>2. QED
      BY <3>1 DEF Holds, Owed
  <2>3. QED
    BY <2>1, <2>2 DEF Init
<1>3. QED
  BY <1>2 DEF Init, Held, Running

LEMMA HeldStep ==
    /\ TypeOK /\ Way /\ Apart /\ Saved /\ Held /\ [Next]_vars
    /\ TypeOK' /\ Way'
    => Held'
<1> SUFFICES ASSUME TypeOK, Way, Apart, Saved, Held, [Next]_vars, TypeOK', Way'
             PROVE  Held'
  OBVIOUS
<1> USE DEF migrating, serving, copying
<1>a. /\ ~torn /\ migrator # "down" => Holds(db)
      /\ ~torn /\ backup.db # <<>> => Holds(backup.db[1])
      /\ torn \in BOOLEAN
      /\ IsDatabase(db) /\ IsDatabase(View) /\ View.revision = db.revision
      /\ db.revision \in 0 .. 14 /\ at \in Nat
  BY Numbered DEF Held, TypeOK, MigratorOK, IsDatabase, Way, View
<1>b. (torn => torn') /\ UNCHANGED backup =>
         (~torn' /\ backup'.db # <<>> => Holds(backup'.db[1]))
  BY <1>a
<1>1. ASSUME \/ StartUpgrade
             \/ \E r \in Targets : StartDowngrade(r)
      PROVE  Held'
  <2>1. PICK way, to : way \in {"up", "down"} /\ StartMigrator(way, to)
    BY <1>1 DEF StartUpgrade, StartDowngrade
  <2>2. /\ ~Running /\ migrator' = way /\ at' = 1 /\ UNCHANGED <<db, open, torn, backup>>
    BY <2>1 DEF StartMigrator
  <2>3. ~open' /\ Running' /\ (~torn' => Holds(db'))
    BY <1>a, <2>1, <2>2 DEF Way, Running
  <2>4. Progress'
    BY <2>2, <2>3, ProgressStart
  <2>5. QED
    BY <1>b, <2>2, <2>3, <2>4 DEF Held
<1>3. CASE Execute
  <2> DEFINE s == Statements[at]
             d == Done(s, View)
  <2>1. /\ Running /\ UNCHANGED <<migrator, torn, backup>>
        /\ at \in 1 .. Len(Statements)
        /\ s.op \in {"make", "ensure", "unmake", "rows"}
        /\ d.revision = db.revision
        /\ \/ open' /\ work' = d /\ db' = db
           \/ ~open' /\ db' = d /\ work' = work
    BY <1>3, Executed
  <2>2. (open => open') /\ (s.op = "rows" => open')
    BY <1>3, Executed DEF Opens, TypeOK, MigratorOK
  <2>3. Progress /\ Progress'
    BY <1>3, <2>1, ProgressExecute DEF Held
  <2>4. ASSUME ~torn', migrator' # "down" PROVE Holds(db')
    <3>1. ~torn /\ migrator = "up" /\ Holds(db)
      BY <1>a, <2>1, <2>4 DEF Running
    <3>2. CASE open'
      <4>1. db' = db
        BY <1>3, <3>2 DEF Execute
      <4>2. QED
        BY <3>1, <4>1
    <3>3. CASE ~open'
      <4>1. ~open /\ View = db /\ s.op # "rows"
        BY <2>2, <3>3 DEF View
      <4>2. s.op # "unmake"
        <5>1. SUFFICES ASSUME s.op = "unmake" PROVE FALSE
          OBVIOUS
        <5>2. /\ db.revision + 1 \in 1 .. 14 /\ Statements = Upgrades[db.revision + 1]
              /\ DOMAIN Statements = 1 .. Len(Statements) /\ Len(Statements) \in Nat
          BY <2>1, <3>1, ProperStatements DEF Proper
        <5>3. PICK j \in DOMAIN Statements : j < at /\ Statements[j].op = "rows"
          BY <2>1, <5>1, <5>2, UnmakesLate
        <5>4. j \in 1 .. at - 1
          BY <1>a, <5>2, <5>3
        <5>5. QED
          BY <2>3, <3>1, <4>1, <5>3, <5>4 DEF Progress, OnceOpen
      <4>3. Makes(s)
        BY <2>1, <4>1, <4>2 DEF Makes
      <4>4. d.schema = db.schema \cup {s.on}
        BY <1>a, <2>1, <4>1, <4>3, DoneSchema
      <4>5. db' = d
        BY <2>1, <3>3
      <4> HIDE DEF d
      <4>6. db'.revision = db.revision /\ db.schema \subseteq db'.schema
        BY <2>1, <4>4, <4>5
      <4>7. QED
        BY <3>1, <4>6 DEF Holds
    <3>4. QED
      BY <3>2, <3>3
  <2>5. QED
    BY <1>b, <2>1, <2>3, <2>4 DEF Held
<1>4. CASE StatementFails \/ MigratorDies
  <2>1. /\ Running /\ ~Running' /\ UNCHANGED <<db, backup>>
        /\ torn' = (torn \/ migrator = "down")
    BY <1>4 DEF StatementFails, MigratorDies, Ended, Running
  <2>2. ~torn' => Holds(db')
    BY <1>a, <2>1
  <2>3. torn => torn'
    BY <2>1
  <2>4. QED
    BY <1>b, <2>1, <2>2, <2>3 DEF Held
<1>5. CASE Stamp
  <2> DEFINE r == db.revision + (IF migrator = "up" THEN 1 ELSE -1)
             d == [View EXCEPT !.revision = r]
  <2>1. /\ db' = d /\ Running /\ at > Len(Statements) /\ UNCHANGED <<torn, backup>>
        /\ open' = FALSE
        /\ IF r = target THEN migrator' = "idle" ELSE at' = 1 /\ UNCHANGED migrator
    BY <1>5 DEF Stamp, Ended
  <2>2. /\ d.revision = r /\ d.schema = View.schema
    BY <1>a DEF IsDatabase
  <2> HIDE DEF d
  <2>3. at = Len(Statements) + 1
    <3>1. Len(Statements) \in Nat
      BY <2>1, ProperStatements DEF Proper
    <3>2. at <= Len(Statements) + 1
      BY <2>1 DEF Held, Progress
    <3>3. QED
      BY <1>a, <2>1, <3>1, <3>2
  <2>4. ~torn => Kept(Statements, Len(Statements) + 1, Owed(db.revision), View.schema)
    BY <2>1, <2>3 DEF Held, Progress
  <2>5. ~torn => Owed(r) \subseteq View.schema
    <3>1. CASE migrator = "up"
      <4>1. /\ db.revision + 1 \in 1 .. 14 /\ Statements = Upgrades[db.revision + 1]
            /\ r = db.revision + 1 /\ db.revision \in 0 .. 13
        BY <1>a, <2>1, <3>1, ProperStatements
      <4>2. QED
        BY <2>4, <4>1, KeptUp
    <3>2. CASE migrator = "down"
      <4>1. /\ db.revision \in 1 .. 14 /\ Statements = Downgrades[db.revision]
            /\ r = db.revision - 1
        BY <1>a, <2>1, <3>2, ProperStatements
      <4>2. QED
        BY <2>4, <4>1, KeptDown
    <3>3. QED
      BY <2>1, <3>1, <3>2 DEF Running
  <2>6. ~torn' => Holds(db')
    BY <2>1, <2>2, <2>5 DEF Holds
  <2>7. Running' => Progress'
    BY <2>1, <2>6, ProgressStart DEF Running
  <2>8. QED
    BY <1>b, <2>1, <2>6, <2>7 DEF Held
<1>c. ASSUME /\ db'.revision = db.revision /\ db'.schema = db.schema
             /\ ~Running /\ UNCHANGED <<migrator, torn, backup>>
      PROVE  Held'
  <2>1. ~torn' /\ migrator' # "down" => Holds(db')
    BY <1>a, <1>c DEF Holds
  <2>2. QED
    BY <1>b, <1>c, <2>1 DEF Held, Running
<1>d. ASSUME UNCHANGED <<db, migrating, backup>>
      PROVE  Held'
  <2>1. View' = View /\ Statements' = Statements
    BY <1>d DEF View, Statements
  <2>2. Running => Progress'
    BY <1>d, <2>1 DEF Held, Progress, OnceOpen
  <2>3. QED
    BY <1>a, <1>b, <1>d, <2>2 DEF Held, Running
<1>7. ASSUME NEW s \in Servers,
             Start(s) \/ CountUsers(s) \/ FindAdmin(s) \/ Stop(s)
      PROVE  Held'
  BY <1>7, <1>d DEF Start, CountUsers, FindAdmin, Stop
<1>8. ASSUME NEW s \in Servers, CreateAdmin(s) PROVE Held'
  <2>1. ~Running /\ UNCHANGED <<migrating, backup>> /\ db' = [db EXCEPT !.admins = 1]
    BY <1>8 DEF CreateAdmin, Move, AllDown, Apart
  <2>2. QED
    BY <1>a, <1>c, <2>1 DEF IsDatabase
<1>9. ASSUME NEW s \in Servers, NEW i \in Pictures, SaveFile(s, i) PROVE Held'
  BY <1>9, <1>d DEF SaveFile
<1>10. ASSUME NEW s \in Servers, NEW i \in Pictures, CommitImage(s, i) PROVE Held'
  <2>1. /\ ~Running /\ UNCHANGED <<migrating, backup>>
        /\ db' = [db EXCEPT !.images = @ \cup {i}]
    BY <1>10 DEF CommitImage, AllDown, Apart, Saved
  <2>2. QED
    BY <1>a, <1>c, <2>1 DEF IsDatabase
<1>e. ASSUME \/ StartBackup \/ BackupDatabase \/ BackupImages \/ WriteManifest
             \/ BackupDies \/ SpoilArchive
      PROVE  /\ UNCHANGED <<db, migrating>>
             /\ \/ backup'.db = backup.db \/ backup'.db = <<>>
                \/ backup'.db = <<db>> /\ ~Running
  <2>1. UNCHANGED <<db, migrating>>
    BY <1>e DEF StartBackup, BackupDatabase, BackupImages, WriteManifest,
                BackupDies, SpoilArchive
  <2>2. BackupDatabase => ~Running
    BY DEF BackupDatabase, Apart
  <2>3. QED
    BY <1>e, <2>1, <2>2, DatabaseCopy
<1>11. CASE StartBackup \/ BackupDatabase \/ BackupImages \/ WriteManifest
            \/ BackupDies \/ SpoilArchive
  <2>1. /\ UNCHANGED <<db, migrating>>
        /\ \/ backup'.db = backup.db \/ backup'.db = <<>>
           \/ backup'.db = <<db>> /\ migrator # "down"
    BY <1>e, <1>11 DEF Running
  <2>2. ~torn' /\ backup'.db # <<>> => Holds(backup'.db[1])
    BY <1>a, <2>1
  <2>3. View' = View /\ Statements' = Statements
    BY <2>1 DEF View, Statements
  <2>4. Running => Progress'
    BY <2>1, <2>3 DEF Held, Progress, OnceOpen
  <2>5. QED
    BY <1>a, <2>1, <2>2, <2>4 DEF Held, Running
<1>12. CASE RestoreDatabase
  <2>1. /\ migrator' = "idle" /\ ~Running /\ UNCHANGED <<torn, backup>>
        /\ db' = db \/ (backup.db # <<>> /\ db' = backup.db[1])
    BY <1>12 DEF RestoreDatabase
  <2>2. ~torn' => Holds(db')
    BY <1>a, <2>1 DEF Running
  <2>3. QED
    BY <1>b, <2>1, <2>2 DEF Held, Running
<1>13. CASE NothingToUnpack \/ ChecksumDiffers \/ RemoveImages \/ MoveImages
            \/ RestoreDies
  BY <1>13, <1>d DEF NothingToUnpack, ChecksumDiffers, RemoveImages, MoveImages,
                 RestoreDies
<1>14. CASE HostLost
  <2>1. migrator' = "idle" /\ db' = NoDatabase /\ UNCHANGED backup /\ (torn => torn')
    BY <1>14 DEF HostLost, Ended
  <2>2. NoDatabase.revision = 0 /\ Owed(0) = {}
    BY InAfter DEF NoDatabase, Owed
  <2>3. Holds(db')
    BY <2>1, <2>2 DEF Holds
  <2>4. QED
    BY <1>b, <2>1, <2>3 DEF Held, Running
<1>15. CASE UNCHANGED vars
  BY <1>15, <1>d DEF vars
<1>16. QED
  BY <1>1, <1>3, <1>4, <1>5, <1>7, <1>8, <1>9, <1>10, <1>11, <1>12,
     <1>13, <1>14, <1>15 DEF Next

(* As long as no downgrade was interrupted, the database has everything    *)
(* that the revision it records stands for, but for the index on status:   *)
(* wherever an upgrade died, and whatever was restored (alembic/versions,  *)
(* alembic/env.py).                                                        *)
THEOREM RevisionIsHeld == Spec => []RevisionHolds
<1> DEFINE I == TypeOK /\ Way /\ Apart /\ Saved /\ Held
<1>1. Init => I
  BY TypeInit, ApartInit, HeldInit
<1>2. I /\ [Next]_vars => I'
  BY TypeStep, ApartStep, HeldStep
<1>3. I => RevisionHolds
  BY DEF Held, Holds, Owed, StatusIndex, RevisionHolds
<1>4. QED
  BY <1>1, <1>2, <1>3, PTL DEF Spec

-----------------------------------------------------------------------------
(* The tables and columns that a server sees *)

Audits == <<"scheduled_post_audits">>
Outbox == <<"outbox_events">>
LateTables == {Audits, Outbox, VersionRows}

\* The columns that the migration of each of these makes with it.
AuditColumns  == {<<Posts, "owner_user_id">>, <<Posts, "state">>}
OutboxColumns == {<<Posts, "version">>}
ItemColumns ==
    {<<"products", "normalized_url">>, <<"products", "marketplace">>,
     <<"products", "external_product_id">>, <<"products", "fingerprint">>,
     <<"products", "aggregate_version">>, <<"products", "category_id">>}

LEMMA LateMade ==
    ASSUME NEW r \in 1 .. 14, NEW k \in DOMAIN Upgrades[r], Makes(Upgrades[r][k])
    PROVE  /\ Upgrades[r][k].on = StatusIndex => r = 5 /\ k = 4
           /\ Upgrades[r][k].on \in LateTables =>
                 \/ r = 8 /\ k = 18 /\ Upgrades[r][k].on = Audits
                 \/ r = 9 /\ k = 4 /\ Upgrades[r][k].on = Outbox
                 \/ r = 10 /\ k = 20 /\ Upgrades[r][k].on = VersionRows
<1> DEFINE o == Upgrades[r][k].on
<1>a. /\ StatusIndex[1] = Posts /\ Audits[1] = "scheduled_post_audits"
      /\ Outbox[1] = "outbox_events" /\ VersionRows[1] = "product_version_histories"
  BY DEF StatusIndex, Audits, Outbox, VersionRows
<1>1. CASE r \in Plain
  <2>1. o[1] \in TablesOf[r]
    <3>1. PICK t \in TablesOf[r] : o \in {<<t>>, <<t, "indexes">>}
      BY <1>1, MadeByPlain
    <3>2. QED
      BY <3>1
  <2>2. {Posts, "scheduled_post_audits", "outbox_events", "product_version_histories"}
           \cap TablesOf[r] = {}
    BY <1>1 DEF Plain, TablesOf, Posts
  <2> HIDE DEF o
  <2>3. o # StatusIndex /\ o \notin LateTables
    BY <1>a, <2>1, <2>2 DEF LateTables
  <2>4. QED
    BY <2>3 DEF o
<1>2. CASE r = 5
  <2>1. \A j \in 1 .. 6 : /\ SchedulerTables[j].on = StatusIndex => j = 4
                          /\ SchedulerTables[j].on \notin LateTables
    BY Up5 DEF Make, StatusIndex, LateTables, Audits, Outbox, VersionRows, Posts
  <2>2. QED
    BY <1>2, <2>1, Up5, Numbered
<1>3. CASE r = 7
  <2>1. o \in Posts7
    BY <1>3, MadeBy7
  <2> HIDE DEF o
  <2>2. o # StatusIndex /\ o \notin LateTables
    BY <2>1 DEF Posts7, StatusIndex, LateTables, Audits, Outbox, VersionRows, Posts
  <2>3. QED
    BY <2>2 DEF o
<1>4. CASE r = 8
  <2>1. \A j \in 1 .. 19 : Makes(StateMachine[j]) =>
           /\ StateMachine[j].on # StatusIndex
           /\ StateMachine[j].on \in LateTables => j = 18 /\ StateMachine[j].on = Audits
    BY Up8 DEF Makes, Make, Unmake, Rows, StatusIndex, LateTables, Audits, Outbox,
               VersionRows, Posts, Copy
  <2>2. QED
    BY <1>4, <2>1, Up8, Numbered
<1>5. CASE r = 9
  <2>1. \A j \in 1 .. 5 :
           /\ Locking[j].on # StatusIndex
           /\ Locking[j].on \in LateTables => j = 4 /\ Locking[j].on = Outbox
    BY Up9 DEF Make, StatusIndex, LateTables, Audits, Outbox, VersionRows, Posts
  <2>2. QED
    BY <1>5, <2>1, Up9, Numbered
<1>6. CASE r = 10
  <2>1. o[1] \in TablesOf[10]
    BY <1>6, MadeBy10
  <2>2. o # StatusIndex /\ o # Audits /\ o # Outbox
    <3> HIDE DEF o
    <3>1. Posts \notin TablesOf[10] /\ "scheduled_post_audits" \notin TablesOf[10]
          /\ "outbox_events" \notin TablesOf[10]
      BY DEF TablesOf, Posts
    <3>2. QED
      BY <1>a, <2>1, <3>1
  <2>3. o = VersionRows => k = 20
    <3>1. \A j \in 1 .. 13 : AggregateColumns[j].on # VersionRows
      BY UpColumns DEF Ensure, ItemIndex, VersionRows
    <3>2. \A j \in 1 .. 8 : AggregateTables[j].on = VersionRows => j = 7
      BY UpTables DEF Ensure, VersionRows
    <3>3. \A j \in 1 .. 6 : Makes(AggregateRows[j]) => AggregateRows[j].on # VersionRows
      BY UpRows DEF Makes, Make, Rows, Ensure, Unmake, VersionRows, CategoryKey, Copy
    <3>4. \/ k \in 1 .. 13 /\ Upgrades[10][k] = AggregateColumns[k]
          \/ k - 13 \in 1 .. 8 /\ Upgrades[10][k] = AggregateTables[k - 13]
          \/ k - 21 \in 1 .. 6 /\ Upgrades[10][k] = AggregateRows[k - 21]
      BY <1>6, Up10
    <3>5. k \in 1 .. 27
      BY <1>6, Up10
    <3>6. QED
      BY <1>6, <3>1, <3>2, <3>3, <3>4, <3>5
  <2>4. QED
    BY <1>6, <2>2, <2>3 DEF LateTables
<1>7. QED
  BY <1>1, <1>2, <1>3, <1>4, <1>5, <1>6 DEF Plain

LEMMA LateNotRemade ==
    ASSUME NEW r \in 1 .. 14, NEW k \in DOMAIN Downgrades[r], Makes(Downgrades[r][k])
    PROVE  Downgrades[r][k].on # StatusIndex /\ Downgrades[r][k].on \notin LateTables
<1>1. r \notin Plain
  BY PlainTables DEF OfTables, Makes
<1>2. r # 5 /\ r # 7
  <2>1. \A j \in 1 .. 5 : ~Makes(NoSchedulerTables[j])
    BY Down5 DEF Makes, Unmake
  <2>2. \A j \in 1 .. 4 : ~Makes(NoConfirmationFields[j])
    BY Down7 DEF Makes, Unmake
  <2>3. QED
    BY <2>1, <2>2, Numbered, Down5, Down7
<1>3. CASE r = 8
  <2>1. \A j \in 1 .. 19 : Makes(NoStateMachine[j]) =>
           NoStateMachine[j].on # StatusIndex /\ NoStateMachine[j].on \notin LateTables
    BY Down8 DEF Makes, Make, Unmake, Rows, StatusIndex, LateTables, Audits, Outbox,
                 VersionRows, Posts, Copy
  <2>2. QED
    BY <1>3, <2>1, Down8, Numbered
<1>4. CASE r = 9
  <2>1. \A j \in 1 .. 8 : Makes(NoLocking[j]) =>
           NoLocking[j].on # StatusIndex /\ NoLocking[j].on \notin LateTables
    BY Down9 DEF Makes, Make, Unmake, Rows, StatusIndex, LateTables, Audits, Outbox,
                 VersionRows, Posts, Copy
  <2>2. QED
    BY <1>4, <2>1, Down9, Numbered
<1>5. CASE r = 10
  <2>1. \A j \in 1 .. 4 : Makes(NoAggregateKey[j]) => NoAggregateKey[j].on = ProductsCopy
    BY DownKey DEF Makes, Make, Unmake, Rows, ProductsCopy
  <2>2. \A j \in 1 .. 8 : ~Makes(Drops(ProductTables)[j])
    BY DownTables DEF Makes, Unmake
  <2>3. \A j \in 1 .. 15 :
           Makes(NoAggregateColumns[j]) => NoAggregateColumns[j].on = ProductsCopy
    BY DownColumns DEF Makes, Make, Unmake, Rows, ProductsCopy
  <2>4. ~Makes(Unmake(ItemIndex))
    BY DEF Makes, Unmake
  <2>5. Downgrades[10][k].on = ProductsCopy
    BY <1>5, <2>1, <2>2, <2>3, <2>4, Down10
  <2>6. ProductsCopy # StatusIndex /\ ProductsCopy \notin LateTables
    BY DEF ProductsCopy, Copy, StatusIndex, LateTables, Audits, Outbox, VersionRows, Posts
  <2>7. QED
    BY <1>5, <2>5, <2>6
<1>6. QED
  BY <1>1, <1>2, <1>3, <1>4, <1>5 DEF Plain

LEMMA NeverLost ==
    ASSUME NEW r \in 1 .. 14, NEW k \in DOMAIN Upgrades[r],
           NEW o \in {<<Posts>>} \cup AuditColumns \cup OutboxColumns \cup ItemColumns
    PROVE  ~Takes(Upgrades[r][k], o)
<1>1. SUFFICES ASSUME Takes(Upgrades[r][k], o) PROVE FALSE
  OBVIOUS
<1>2. \/ o \in Posts7 \/ o = Copy(Posts) \/ o = ProductsCopy
      \/ o = <<Posts, "status">> \/ o = <<Posts, "status", "index">>
  BY <1>1, LosesOf DEF Loses
<1>3. QED
  BY <1>2 DEF Posts7, Copy, ProductsCopy, AuditColumns, OutboxColumns, ItemColumns, Posts

LEMMA TakenLate ==
    ASSUME NEW r \in 1 .. 14, NEW k \in DOMAIN Downgrades[r], NEW o, Takes(Downgrades[r][k], o)
    PROVE  /\ o = <<Posts>> => r = 5 /\ k = 5
           /\ o \in AuditColumns => (r = 5 /\ k = 5) \/ (r = 8 /\ k > 2)
           /\ o \in OutboxColumns => (r = 5 /\ k = 5) \/ (r = 9 /\ k > 2)
           /\ o \in ItemColumns => r = 2 \/ (r = 10 /\ k > 6)
<1>a. /\ \A x \in AuditColumns \cup OutboxColumns \cup {<<Posts>>} : x[1] = Posts
      /\ \A x \in ItemColumns : x[1] = "products"
  BY DEF AuditColumns, OutboxColumns, ItemColumns
<1>b. /\ <<Posts>> \notin Posts7 \cup Posts8 \cup Posts9
      /\ AuditColumns \cap (Posts7 \cup Posts9) = {}
      /\ OutboxColumns \cap (Posts7 \cup Posts8) = {}
      /\ Copy(Posts) \notin AuditColumns \cup OutboxColumns \cup {<<Posts>>}
      /\ ProductsCopy \notin AuditColumns \cup OutboxColumns \cup ItemColumns
                               \cup {<<Posts>>}
      /\ \A x \in Posts7 \cup Posts8 \cup Posts9 : x[1] = Posts
      /\ Copy(Posts)[1] = "_alembic_tmp_"
  BY DEF AuditColumns, OutboxColumns, ItemColumns, Posts7, Posts8, Posts9, Copy,
         ProductsCopy, Posts
<1>1. SUFFICES ASSUME o \in {<<Posts>>} \cup AuditColumns \cup OutboxColumns \cup ItemColumns
               PROVE  /\ o = <<Posts>> => r = 5 /\ k = 5
                      /\ o \in AuditColumns => (r = 5 /\ k = 5) \/ (r = 8 /\ k > 2)
                      /\ o \in OutboxColumns => (r = 5 /\ k = 5) \/ (r = 9 /\ k > 2)
                      /\ o \in ItemColumns => r = 2 \/ (r = 10 /\ k > 6)
  OBVIOUS
<1>2. o[1] \in {Posts, "products"} /\ Posts # "products"
  BY <1>1, <1>a DEF Posts
<1>3. CASE r \in Plain
  <2>1. o[1] \in TablesOf[r]
    BY <1>3, TakenBack
  <2>2. /\ Posts \notin TablesOf[r]
        /\ "products" \in TablesOf[r] => r = 2
    BY <1>3 DEF Plain, TablesOf, Posts
  <2>3. o[1] = "products" /\ r = 2
    BY <1>2, <2>1, <2>2
  <2>4. QED
    BY <1>1, <1>2, <1>a, <2>3
<1>4. CASE r = 5
  <2>1. o[1] \in TablesOf[5]
    BY <1>4, TakenBack
  <2>2. o[1] = Posts
    BY <1>2, <2>1 DEF TablesOf, Posts
  <2>3. \A j \in 1 .. 4 : ~Takes(NoSchedulerTables[j], o)
    <3>1. o # <<Posts, "status", "index">> /\ o # <<Posts, "indexes">>
      BY <1>1 DEF AuditColumns, OutboxColumns, ItemColumns, Posts
    <3>2. Len(<<Posts, "status", "index">>) > 1 /\ Len(<<Posts, "indexes">>) > 1
      OBVIOUS
    <3>3. ~Takes(Unmake(<<Posts, "status", "index">>), o) /\ ~Takes(Unmake(<<Posts, "indexes">>), o)
      BY <3>1, <3>2 DEF Takes, Unmake
    <3>4. \A c : Len(c) > 1 \/ c[1] = "scheduled_post_executions" =>
             (c[1] = "scheduled_post_executions" => ~Takes(Unmake(c), o))
      BY <2>2 DEF Takes, Unmake, Posts
    <3>5. /\ ~Takes(Unmake(<<"scheduled_post_executions", "indexes">>), o)
          /\ ~Takes(Unmake(<<"scheduled_post_executions">>), o)
      BY <3>4
    <3>6. QED
      BY <3>3, <3>5, Down5
  <2>4. k = 5
    BY <1>4, <2>3, Down5, Numbered
  <2>5. QED
    BY <1>2, <1>4, <1>a, <2>2, <2>4
<1>5. CASE r = 7
  <2>1. o \in Posts7
    BY <1>5, TakenBack
  <2>2. QED
    BY <1>1, <1>2, <1>a, <1>b, <2>1
<1>6. CASE r = 8
  <2>1. o[1] = "scheduled_post_audits" \/ o = Copy(Posts) \/ o \in Posts8
    BY <1>6, TakenBack
  <2>2. o \in AuditColumns
    BY <1>1, <1>2, <1>a, <1>b, <2>1 DEF Posts
  <2>3. \A j \in 1 .. 2 : ~Takes(NoStateMachine[j], o)
    <3>1. o[1] # "scheduled_post_audits"
      BY <1>2 DEF Posts
    <3>2. \A c : c[1] = "scheduled_post_audits" => ~Takes(Unmake(c), o)
      BY <3>1 DEF Takes, Unmake
    <3>3. QED
      BY <3>2, Down8
  <2>4. k > 2
    <3>1. k \in 1 .. 19 /\ Takes(NoStateMachine[k], o)
      BY <1>6, Down8, Numbered
    <3>2. QED
      BY <2>3, <3>1
  <2>5. QED
    BY <1>6, <1>a, <1>b, <2>2, <2>4 DEF AuditColumns, OutboxColumns, ItemColumns, Posts
<1>7. CASE r = 9
  <2>1. o[1] = "outbox_events" \/ o = Copy(Posts) \/ o \in Posts9
    BY <1>7, TakenBack
  <2>2. o \in OutboxColumns
    BY <1>1, <1>2, <1>a, <1>b, <2>1 DEF Posts
  <2>3. \A j \in 1 .. 2 : ~Takes(NoLocking[j], o)
    <3>1. o[1] # "outbox_events"
      BY <1>2 DEF Posts
    <3>2. \A c : c[1] = "outbox_events" => ~Takes(Unmake(c), o)
      BY <3>1 DEF Takes, Unmake
    <3>3. QED
      BY <3>2, Down9
  <2>4. k > 2
    BY <1>7, <2>3, Down9, Numbered
  <2>5. QED
    BY <1>7, <1>a, <1>b, <2>2, <2>4 DEF AuditColumns, OutboxColumns, ItemColumns, Posts
<1>8. CASE r = 10
  <2>1. \/ o[1] \in TablesOf[10] \ {"products", "_alembic_tmp_"}
        \/ o[1] = "products"
        \/ o = ProductsCopy
    BY <1>8, TakenBack
  <2>2. o[1] = "products"
    BY <1>1, <1>2, <1>b, <2>1 DEF TablesOf, Posts
  <2>3. o \in ItemColumns
    BY <1>1, <1>2, <1>a, <2>2
  <2>4. \A j \in 1 .. 6 : ~Takes(Downgrades[10][j], o)
    <3>1. o # CategoryKey /\ o # ProductsCopy /\ o[1] # "product_version_histories"
      BY <1>b, <2>2, <2>3 DEF CategoryKey, ItemColumns
    <3>2. Len(CategoryKey) > 1 /\ Len(ProductsCopy) > 1
      BY DEF CategoryKey, ProductsCopy, Copy
    <3>3. \A j \in 1 .. 4 : ~Takes(NoAggregateKey[j], o)
      <4>1. ~Takes(Unmake(CategoryKey), o) /\ ~Takes(Unmake(ProductsCopy), o)
        BY <3>1, <3>2 DEF Takes, Unmake
      <4>2. ~Takes(Make(ProductsCopy), o) /\ ~Takes(Rows("copy"), o)
        BY DEF Takes, Make, Rows
      <4>3. QED
        BY <4>1, <4>2, DownKey DEF ProductsCopy
    <3>4. \A c : c[1] = "product_version_histories" => ~Takes(Unmake(c), o)
      BY <3>1 DEF Takes, Unmake
    <3>5. \A j \in 1 .. 2 : ~Takes(Drops(ProductTables)[j], o)
      BY <3>4, DownTables
    <3>6. \A j \in 1 .. 6 :
             \/ j \in 1 .. 4 /\ Downgrades[10][j] = NoAggregateKey[j]
             \/ j - 4 \in 1 .. 2 /\ Downgrades[10][j] = Drops(ProductTables)[j - 4]
      <4>1. TAKE j \in 1 .. 6
      <4>2. \/ j \in 1 .. 4 /\ Downgrades[10][j] = NoAggregateKey[j]
            \/ j - 4 \in 1 .. 8 /\ Downgrades[10][j] = Drops(ProductTables)[j - 4]
            \/ j = 13
            \/ j - 13 \in 1 .. 15
        <5>1. j \in 1 .. 28
          OBVIOUS
        <5>2. QED
          BY <5>1, Down10
      <4>3. j # 13 /\ j - 13 \notin 1 .. 15 /\ (j - 4 \in 1 .. 8 => j - 4 \in 1 .. 2)
        BY <4>1
      <4>4. QED
        BY <4>2, <4>3
    <3>7. QED
      BY <3>3, <3>5, <3>6
  <2>5. k > 6
    <3>1. k \in 1 .. 28
      BY <1>8, Down10
    <3>2. QED
      BY <1>8, <2>4, <3>1
  <2>6. QED
    BY <1>2, <1>8, <1>a, <2>2, <2>5
<1>9. QED
  BY <1>3, <1>4, <1>5, <1>6, <1>7, <1>8 DEF Plain

\* Where each of these columns is made before its table.
LEMMA MadeBefore ==
    /\ \A c \in AuditColumns : HasMade(Upgrades[8], 18, c)
    /\ \A c \in OutboxColumns : HasMade(Upgrades[9], 4, c)
    /\ \A c \in ItemColumns : HasMade(Upgrades[10], 20, c)
    /\ HasMade(Upgrades[5], 4, <<Posts>>)
<1>1. ASSUME NEW r \in 1 .. 14, NEW n \in DOMAIN Upgrades[r], NEW k \in 1 .. n - 1,
             NEW c \in {<<Posts>>} \cup AuditColumns \cup OutboxColumns \cup ItemColumns,
             Makes(Upgrades[r][k]), Upgrades[r][k].on = c
      PROVE  HasMade(Upgrades[r], n, c)
  <2>1. DOMAIN Upgrades[r] = 1 .. Len(Upgrades[r]) /\ Len(Upgrades[r]) \in Nat
    BY Properly DEF Proper
  <2>2. \A l \in k + 1 .. n - 1 : l \in DOMAIN Upgrades[r]
    BY <2>1
  <2>3. \A l \in k + 1 .. n - 1 : ~Takes(Upgrades[r][l], c)
    BY <2>2, NeverLost
  <2>4. QED
    BY <1>1, <2>3 DEF HasMade
<1>2. ASSUME NEW c \in AuditColumns PROVE HasMade(Upgrades[8], 18, c)
  <2>1. PICK k \in 3 .. 4 : StateMachine[k] = Make(c)
    BY Up8 DEF AuditColumns
  <2>2. Makes(Upgrades[8][k]) /\ Upgrades[8][k].on = c /\ 18 \in DOMAIN Upgrades[8]
    <3>1. Upgrades[8][k] = Make(c)
      BY <2>1, Numbered
    <3>2. QED
      BY <3>1, MadeBy8 DEF Makes, Make
  <2>3. k \in 1 .. 18 - 1 /\ 8 \in 1 .. 14
    OBVIOUS
  <2>4. QED
    BY <1>1, <2>2, <2>3
<1>3. ASSUME NEW c \in OutboxColumns PROVE HasMade(Upgrades[9], 4, c)
  <2>1. Locking[1] = Make(c)
    BY Up9 DEF OutboxColumns
  <2>2. Makes(Upgrades[9][1]) /\ Upgrades[9][1].on = c /\ 4 \in DOMAIN Upgrades[9]
    BY <2>1, Numbered, Up9 DEF Makes, Make
  <2>3. 1 \in 1 .. 4 - 1 /\ 9 \in 1 .. 14
    OBVIOUS
  <2>4. QED
    BY <1>1, <2>2, <2>3
<1>4. ASSUME NEW c \in ItemColumns PROVE HasMade(Upgrades[10], 20, c)
  <2>1. PICK k \in 1 .. 6 : AggregateColumns[k] = Ensure(c)
    BY UpColumns DEF ItemColumns
  <2>2. Upgrades[10][k] = AggregateColumns[k] /\ DOMAIN Upgrades[10] = 1 .. 27
    <3>1. k \in 1 .. 27 /\ k - 13 \notin 1 .. 8 /\ k - 21 \notin 1 .. 6
      OBVIOUS
    <3>2. QED
      BY <3>1, Up10
  <2>3. Makes(Upgrades[10][k]) /\ Upgrades[10][k].on = c /\ 20 \in DOMAIN Upgrades[10]
    BY <2>1, <2>2 DEF Makes, Ensure
  <2>4. k \in 1 .. 20 - 1 /\ 10 \in 1 .. 14
    OBVIOUS
  <2>5. QED
    BY <1>1, <2>3, <2>4
<1>5. HasMade(Upgrades[5], 4, <<Posts>>)
  <2>1. Makes(Upgrades[5][1]) /\ Upgrades[5][1].on = <<Posts>> /\ 4 \in DOMAIN Upgrades[5]
    BY Numbered, Up5 DEF Makes, Make
  <2>2. 1 \in 1 .. 4 - 1 /\ 5 \in 1 .. 14
    OBVIOUS
  <2>3. QED
    BY <1>1, <2>1, <2>2
<1>6. QED
  BY <1>2, <1>3, <1>4, <1>5

Early(d) == \A t \in LateTables : t \notin d.schema
Late(d)  == <<Posts>> \in d.schema /\ StatusIndex \notin d.schema

(* Where a late table is, its columns are, and the index on status, without *)
(* which no downgrade gets past the tables of the scheduler, is gone.       *)
Layered(d) ==
    /\ Audits \in d.schema => AuditColumns \subseteq d.schema
    /\ Outbox \in d.schema => OutboxColumns \subseteq d.schema
    /\ VersionRows \in d.schema => ItemColumns \subseteq d.schema
    /\ Early(d) \/ Late(d)
    /\ StatusIndex \in d.schema => <<Posts>> \in d.schema
    /\ d.revision >= 8 => Late(d)
    /\ d.revision <= 4 => Early(d)

Reached ==
    /\ migrator = "up" /\ db.revision = 7 /\ at > 10 => Late(View)
    /\ migrator = "down" =>
          /\ db.revision = 5 /\ at > 3 => Early(View)
          /\ db.revision = 8 /\ at > 2 => Audits \notin View.schema
          /\ db.revision = 9 /\ at > 2 => Outbox \notin View.schema
          /\ db.revision = 10 /\ at > 6 => VersionRows \notin View.schema
    /\ Kept(Statements, at, {}, View.schema)

Stacked ==
    /\ Layered(db) /\ Layered(View)
    /\ backup.db # <<>> => Layered(backup.db[1])
    /\ Running => Reached
    /\ ~AllDown => HasSchema(db)

LEMMA LateMakes ==
    ASSUME TypeOK, Way, Execute, Makes(Statements[at])
    PROVE  /\ Statements[at].on = StatusIndex =>
                 migrator = "up" /\ db.revision = 4 /\ at = 4
           /\ Statements[at].on \in LateTables =>
                 /\ migrator = "up"
                 /\ \/ db.revision = 7 /\ at = 18 /\ Statements[at].on = Audits
                    \/ db.revision = 8 /\ at = 4 /\ Statements[at].on = Outbox
                    \/ db.revision = 9 /\ at = 20 /\ Statements[at].on = VersionRows
<1>1. /\ Running /\ at \in DOMAIN Statements /\ db.revision \in Nat
      /\ migrator = "up" => db.revision + 1 \in 1 .. 14
                               /\ Statements = Upgrades[db.revision + 1]
      /\ migrator = "down" => db.revision \in 1 .. 14
                               /\ Statements = Downgrades[db.revision]
  BY Executed, ProperStatements DEF Proper, TypeOK, IsDatabase
<1>2. CASE migrator = "up"
  <2> DEFINE r == db.revision + 1
  <2>1. r \in 1 .. 14 /\ at \in DOMAIN Upgrades[r] /\ Makes(Upgrades[r][at])
        /\ Statements = Upgrades[r]
    BY <1>1, <1>2
  <2>2. /\ r = 5 => db.revision = 4
        /\ r = 8 => db.revision = 7
        /\ r = 9 => db.revision = 8
        /\ r = 10 => db.revision = 9
    BY <1>1
  <2> HIDE DEF r
  <2>3. /\ Upgrades[r][at].on = StatusIndex => r = 5 /\ at = 4
        /\ Upgrades[r][at].on \in LateTables =>
              \/ r = 8 /\ at = 18 /\ Upgrades[r][at].on = Audits
              \/ r = 9 /\ at = 4 /\ Upgrades[r][at].on = Outbox
              \/ r = 10 /\ at = 20 /\ Upgrades[r][at].on = VersionRows
    BY <2>1, LateMade
  <2>4. QED
    BY <1>2, <2>1, <2>2, <2>3
<1>3. CASE migrator = "down"
  <2>1. /\ db.revision \in 1 .. 14 /\ at \in DOMAIN Downgrades[db.revision]
        /\ Makes(Downgrades[db.revision][at]) /\ Statements = Downgrades[db.revision]
    BY <1>1, <1>3
  <2>2. QED
    BY <2>1, LateNotRemade
<1>4. QED
  BY <1>1, <1>2, <1>3 DEF Running

LEMMA LateTakes ==
    ASSUME TypeOK, Way, Execute, NEW o, Takes(Statements[at], o)
    PROVE  /\ o = <<Posts>> => migrator = "down" /\ db.revision = 5 /\ at = 5
           /\ o \in AuditColumns => /\ migrator = "down"
                                    /\ \/ db.revision = 5 /\ at = 5
                                       \/ db.revision = 8 /\ at > 2
           /\ o \in OutboxColumns => /\ migrator = "down"
                                     /\ \/ db.revision = 5 /\ at = 5
                                        \/ db.revision = 9 /\ at > 2
           /\ o \in ItemColumns => /\ migrator = "down"
                                   /\ \/ db.revision = 2
                                      \/ db.revision = 10 /\ at > 6
<1>1. /\ Running /\ at \in DOMAIN Statements
      /\ migrator = "up" => db.revision + 1 \in 1 .. 14
                               /\ Statements = Upgrades[db.revision + 1]
      /\ migrator = "down" => db.revision \in 1 .. 14
                               /\ Statements = Downgrades[db.revision]
  BY Executed, ProperStatements DEF Proper
<1>2. CASE migrator = "up"
  <2>1. /\ db.revision + 1 \in 1 .. 14 /\ at \in DOMAIN Upgrades[db.revision + 1]
        /\ Takes(Upgrades[db.revision + 1][at], o)
    BY <1>1, <1>2
  <2>2. o \notin {<<Posts>>} \cup AuditColumns \cup OutboxColumns \cup ItemColumns
    BY <2>1, NeverLost
  <2>3. QED
    BY <2>2
<1>3. CASE migrator = "down"
  <2>1. /\ db.revision \in 1 .. 14 /\ at \in DOMAIN Downgrades[db.revision]
        /\ Takes(Downgrades[db.revision][at], o)
    BY <1>1, <1>3
  <2>2. QED
    BY <1>3, <2>1, TakenLate
<1>4. QED
  BY <1>1, <1>2, <1>3 DEF Running

LEMMA TakesItself ==
    ASSUME NEW s, s.op = "unmake"
    PROVE  /\ Takes(s, s.on)
           /\ Takes(s, <<Posts>>) => Takes(s, StatusIndex)
<1>1. Takes(s, s.on)
  BY DEF Takes
<1>2. ASSUME Takes(s, <<Posts>>) PROVE Takes(s, StatusIndex)
  <2>1. CASE Len(s.on) > 1
    <3>1. s.on = <<Posts>> /\ Len(<<Posts>>) = 1
      BY <1>2, <2>1 DEF Takes
    <3>2. QED
      BY <2>1, <3>1
  <2>2. CASE ~(Len(s.on) > 1)
    <3>1. <<Posts>>[1] = s.on[1] /\ StatusIndex[1] = Posts
      BY <1>2, <2>2 DEF Takes, StatusIndex
    <3>2. QED
      BY <2>2, <3>1 DEF Takes
  <2>3. QED
    BY <2>1, <2>2
<1>3. QED
  BY <1>1, <1>2

LEMMA LayeredExecute ==
    ASSUME TypeOK, Way, Stacked, Execute
    PROVE  Layered(View')
<1> DEFINE s == Statements[at]
           S == View.schema
           T == View'.schema
<1>1. /\ \/ Makes(s) /\ T = S \cup {s.on}
         \/ s.op = "unmake" /\ T = {o \in S : ~Takes(s, o)}
         \/ s.op = "rows" /\ T = S
      /\ View'.revision = db.revision
  BY SchemaNext
<1>2. /\ Layered(View) /\ Reached /\ Running
      /\ View.revision = db.revision /\ db.revision \in 0 .. 14 /\ at \in Nat
  BY Executed, Numbered DEF Stacked, View, Way, TypeOK, MigratorOK, IsDatabase
<1>3. Kept(Statements, at, {}, S)
  BY <1>2 DEF Reached
<1>4. \A o \in S \ T : Takes(s, o)
  BY <1>1
<1>5. \A o \in T \ S : Makes(s) /\ o = s.on
  BY <1>1
<1>6. \A o \in LateTables : o \in T \ S =>
         /\ migrator = "up"
         /\ \/ db.revision = 7 /\ at = 18 /\ o = Audits
            \/ db.revision = 8 /\ at = 4 /\ o = Outbox
            \/ db.revision = 9 /\ at = 20 /\ o = VersionRows
  BY <1>5, LateMakes
<1>7. StatusIndex \in T \ S => migrator = "up" /\ db.revision = 4 /\ at = 4
  BY <1>5, LateMakes
<1>8. <<Posts>> \in S \ T => migrator = "down" /\ db.revision = 5 /\ at = 5
  BY <1>4, LateTakes
<1>9. /\ migrator = "up" => db.revision + 1 \in 1 .. 14 /\ Statements = Upgrades[db.revision + 1]
      /\ migrator = "up" => migrator # "down"
  BY <1>2, ProperStatements
<1>10. Audits \in T => AuditColumns \subseteq T
  <2>1. SUFFICES ASSUME Audits \in T, NEW c \in AuditColumns, c \notin T PROVE FALSE
    OBVIOUS
  <2>2. c \in S
    <3>1. CASE Audits \in S
      BY <1>2, <3>1 DEF Layered
    <3>2. CASE Audits \notin S
      <4>1. migrator = "up" /\ db.revision = 7 /\ at = 18
        BY <1>6, <2>1, <3>2 DEF LateTables, Audits, Outbox, VersionRows
      <4>2. Statements = Upgrades[8]
        BY <1>9, <4>1
      <4>3. HasMade(Statements, at, c)
        BY <4>1, <4>2, MadeBefore
      <4>4. QED
        BY <1>3, <4>3 DEF Kept
    <3>3. QED
      BY <3>1, <3>2
  <2>3. /\ migrator = "down"
        /\ (db.revision = 5 /\ at = 5) \/ (db.revision = 8 /\ at > 2)
    BY <1>4, <2>1, <2>2, LateTakes
  <2>4. Audits \notin S
    BY <1>2, <2>3 DEF Reached, Early, LateTables
  <2>5. QED
    BY <1>6, <2>1, <2>3, <2>4 DEF LateTables
<1>11. Outbox \in T => OutboxColumns \subseteq T
  <2>1. SUFFICES ASSUME Outbox \in T, NEW c \in OutboxColumns, c \notin T PROVE FALSE
    OBVIOUS
  <2>2. c \in S
    <3>1. CASE Outbox \in S
      BY <1>2, <3>1 DEF Layered
    <3>2. CASE Outbox \notin S
      <4>1. migrator = "up" /\ db.revision = 8 /\ at = 4
        BY <1>6, <2>1, <3>2 DEF LateTables, Audits, Outbox, VersionRows
      <4>2. Statements = Upgrades[9]
        BY <1>9, <4>1
      <4>3. HasMade(Statements, at, c)
        BY <4>1, <4>2, MadeBefore
      <4>4. QED
        BY <1>3, <4>3 DEF Kept
    <3>3. QED
      BY <3>1, <3>2
  <2>3. /\ migrator = "down"
        /\ (db.revision = 5 /\ at = 5) \/ (db.revision = 9 /\ at > 2)
    BY <1>4, <2>1, <2>2, LateTakes
  <2>4. Outbox \notin S
    BY <1>2, <2>3 DEF Reached, Early, LateTables
  <2>5. QED
    BY <1>6, <2>1, <2>3, <2>4 DEF LateTables
<1>12. VersionRows \in T => ItemColumns \subseteq T
  <2>1. SUFFICES ASSUME VersionRows \in T, NEW c \in ItemColumns, c \notin T PROVE FALSE
    OBVIOUS
  <2>2. c \in S
    <3>1. CASE VersionRows \in S
      BY <1>2, <3>1 DEF Layered
    <3>2. CASE VersionRows \notin S
      <4>1. migrator = "up" /\ db.revision = 9 /\ at = 20
        BY <1>6, <2>1, <3>2 DEF LateTables, Audits, Outbox, VersionRows
      <4>2. Statements = Upgrades[10]
        BY <1>9, <4>1
      <4>3. HasMade(Statements, at, c)
        BY <4>1, <4>2, MadeBefore
      <4>4. QED
        BY <1>3, <4>3 DEF Kept
    <3>3. QED
      BY <3>1, <3>2
  <2>3. /\ migrator = "down"
        /\ db.revision = 2 \/ (db.revision = 10 /\ at > 6)
    BY <1>4, <2>1, <2>2, LateTakes
  <2>4. VersionRows \notin S
    BY <1>2, <2>3 DEF Reached, Layered, Early, LateTables
  <2>5. QED
    BY <1>6, <2>1, <2>3, <2>4 DEF LateTables
<1>13. ASSUME Late(View) PROVE Late(View') \/ Early(View')
  <2>1. CASE <<Posts>> \notin T
    <3>1. migrator = "down" /\ db.revision = 5 /\ at > 3
      BY <1>8, <1>13, <2>1 DEF Late
    <3>2. Early(View)
      BY <1>2, <3>1 DEF Reached
    <3>3. QED
      BY <1>6, <3>1, <3>2 DEF Early
  <2>2. CASE StatusIndex \in T
    <3>1. migrator = "up" /\ db.revision = 4
      BY <1>7, <1>13, <2>2 DEF Late
    <3>2. Early(View)
      BY <1>2, <3>1 DEF Layered
    <3>3. QED
      BY <1>6, <3>1, <3>2 DEF Early
  <2>3. QED
    BY <2>1, <2>2 DEF Late
<1>14. Early(View') \/ Late(View')
  <2>1. CASE Early(View) /\ ~Early(View')
    <3>1. PICK o \in LateTables : o \in T \ S
      BY <2>1 DEF Early
    <3>2. (db.revision = 7 /\ at > 10 /\ migrator = "up") \/ db.revision >= 8
      BY <1>6, <3>1
    <3>3. Late(View)
      BY <1>2, <3>2 DEF Reached, Layered
    <3>4. QED
      BY <1>13, <3>3
  <2>2. QED
    BY <1>2, <1>13, <2>1 DEF Layered
<1>15. StatusIndex \in T => <<Posts>> \in T
  <2>1. SUFFICES ASSUME StatusIndex \in T, <<Posts>> \notin T PROVE FALSE
    OBVIOUS
  <2>2. <<Posts>> \in S
    <3>1. CASE StatusIndex \in S
      BY <1>2, <3>1 DEF Layered
    <3>2. CASE StatusIndex \notin S
      <4>1. migrator = "up" /\ db.revision = 4 /\ at = 4
        BY <1>7, <2>1, <3>2
      <4>2. Statements = Upgrades[5]
        BY <1>9, <4>1
      <4>3. HasMade(Statements, at, <<Posts>>)
        BY <4>1, <4>2, MadeBefore
      <4>4. QED
        BY <1>3, <4>3 DEF Kept
    <3>3. QED
      BY <3>1, <3>2
  <2>3. Takes(s, <<Posts>>)
    BY <1>4, <2>1, <2>2
  <2>4. s.op = "unmake"
    BY <2>3 DEF Takes
  <2>5. Takes(s, StatusIndex)
    BY <2>3, <2>4, TakesItself
  <2>6. T = {o \in S : ~Takes(s, o)}
    BY <1>1, <2>4 DEF Makes
  <2>7. QED
    BY <2>1, <2>5, <2>6
<1>16. db.revision >= 8 => Late(View')
  <2>1. SUFFICES ASSUME db.revision >= 8 PROVE Late(View')
    OBVIOUS
  <2>2. Late(View)
    BY <1>2, <2>1 DEF Layered
  <2>3. QED
    BY <1>2, <1>7, <1>8, <2>1, <2>2 DEF Late
<1>17. db.revision <= 4 => Early(View')
  <2>1. SUFFICES ASSUME db.revision <= 4 PROVE Early(View')
    OBVIOUS
  <2>2. Early(View)
    BY <1>2, <2>1 DEF Layered
  <2>3. QED
    BY <1>2, <1>6, <2>1, <2>2 DEF Early
<1>18. QED
  BY <1>1, <1>10, <1>11, <1>12, <1>14, <1>15, <1>16, <1>17 DEF Layered

LEMMA ReachedExecute ==
    ASSUME TypeOK, Way, Stacked, Execute
    PROVE  Reached'
<1> DEFINE s == Statements[at]
           S == View.schema
           T == View'.schema
<1>1. \/ Makes(s) /\ T = S \cup {s.on}
      \/ s.op = "unmake" /\ s.on \in S /\ T = {o \in S : ~Takes(s, o)}
      \/ s.op = "rows" /\ T = S
  BY SchemaNext
<1>2. /\ Layered(View) /\ Reached /\ Running
      /\ View.revision = db.revision /\ db.revision \in 0 .. 14 /\ at \in Nat /\ at > 0
      /\ at' = at + 1 /\ migrator' = migrator
  BY Executed, Numbered DEF Stacked, View, Way, TypeOK, MigratorOK, IsDatabase
<1>3. db'.revision = db.revision
  BY SchemaNext
<1>4. Statements' = Statements
  BY <1>2, <1>3 DEF Statements
<1>5. Kept(Statements, at + 1, {}, T)
  <2>1. Kept(Statements, at, {}, S)
    BY <1>2 DEF Reached
  <2>2. QED
    BY <1>1, <1>2, <2>1, KeptStep
<1>6. \A o \in T \ S : Makes(s) /\ o = s.on
  BY <1>1
<1>7. /\ \A o \in LateTables : o \in T \ S => migrator = "up"
      /\ StatusIndex \in T \ S => db.revision = 4
  BY <1>6, LateMakes
<1>8. <<Posts>> \in S \ T => migrator = "down"
  <2>1. \A o \in S \ T : Takes(s, o)
    BY <1>1
  <2>2. QED
    BY <2>1, LateTakes
<1>9. /\ migrator = "up" => Statements = Upgrades[db.revision + 1]
      /\ migrator = "down" => Statements = Downgrades[db.revision]
  BY <1>2, ProperStatements
<1>10. ASSUME NEW o, s = Unmake(o) PROVE o \in S /\ o \notin T
  <2>1. s.op = "unmake" /\ s.on = o
    BY <1>10 DEF Unmake
  <2>2. Takes(s, o)
    BY <2>1, TakesItself
  <2>3. s.on \in S /\ T = {x \in S : ~Takes(s, x)}
    BY <1>1, <2>1 DEF Makes
  <2>4. QED
    BY <2>1, <2>2, <2>3
<1>11. ASSUME migrator = "up", db.revision = 7, at' > 10 PROVE Late(View')
  <2>1. CASE at = 10
    <3>1. s = Unmake(StatusIndex)
      BY <1>9, <1>11, <2>1, Up8, Numbered DEF StatusIndex
    <3>2. StatusIndex \in S /\ StatusIndex \notin T
      BY <1>10, <3>1
    <3>3. <<Posts>> \in S
      BY <1>2, <3>2 DEF Layered
    <3>4. QED
      BY <1>8, <1>11, <3>2, <3>3 DEF Late
  <2>2. CASE at > 10
    <3>1. Late(View)
      BY <1>2, <1>11, <2>2 DEF Reached
    <3>2. QED
      BY <1>7, <1>8, <1>11, <3>1 DEF Late
  <2>3. QED
    BY <1>2, <1>11, <2>1, <2>2
<1>12. ASSUME migrator = "down", db.revision = 5, at' > 3 PROVE Early(View')
  <2>1. CASE at = 3
    <3>1. s = Unmake(StatusIndex)
      BY <1>9, <1>12, <2>1, Down5, Numbered DEF StatusIndex
    <3>2. StatusIndex \in S
      BY <1>10, <3>1
    <3>3. Early(View)
      BY <1>2, <3>2 DEF Layered, Late
    <3>4. QED
      BY <1>7, <1>12, <3>3 DEF Early
  <2>2. CASE at > 3
    <3>1. Early(View)
      BY <1>2, <1>12, <2>2 DEF Reached
    <3>2. QED
      BY <1>7, <1>12, <3>1 DEF Early
  <2>3. QED
    BY <1>2, <1>12, <2>1, <2>2
<1>13. ASSUME migrator = "down", db.revision = 8, at' > 2 PROVE Audits \notin T
  <2>1. at = 2 => Audits \notin T
    BY <1>9, <1>10, <1>13, Down8, Numbered DEF Audits
  <2>2. at > 2 => Audits \notin T
    BY <1>2, <1>7, <1>13 DEF Reached, LateTables
  <2>3. QED
    BY <1>2, <1>13, <2>1, <2>2
<1>14. ASSUME migrator = "down", db.revision = 9, at' > 2 PROVE Outbox \notin T
  <2>1. at = 2 => Outbox \notin T
    BY <1>9, <1>10, <1>14, Down9, Numbered DEF Outbox
  <2>2. at > 2 => Outbox \notin T
    BY <1>2, <1>7, <1>14 DEF Reached, LateTables
  <2>3. QED
    BY <1>2, <1>14, <2>1, <2>2
<1>15. ASSUME migrator = "down", db.revision = 10, at' > 6 PROVE VersionRows \notin T
  <2>1. at = 6 => VersionRows \notin T
    <3>1. Downgrades[10][6] = Unmake(VersionRows)
      <4>1. 6 \in 1 .. 28 /\ 6 \notin 1 .. 4 /\ 6 # 13 /\ 6 - 13 \notin 1 .. 15 /\ 6 - 4 = 2
        OBVIOUS
      <4>2. Downgrades[10][6] = Drops(ProductTables)[2]
        BY <4>1, Down10
      <4>3. QED
        BY <4>2, DownTables DEF VersionRows
    <3>2. QED
      BY <1>9, <1>10, <1>15, <3>1
  <2>2. at > 6 => VersionRows \notin T
    BY <1>2, <1>7, <1>15 DEF Reached, LateTables
  <2>3. QED
    BY <1>2, <1>15, <2>1, <2>2
<1>16. QED
  BY <1>2, <1>3, <1>4, <1>5, <1>11, <1>12, <1>13, <1>14, <1>15 DEF Reached

LEMMA Unlayered ==
    ASSUME NEW d, d.schema = {}, d.revision = 0
    PROVE  Layered(d)
  BY DEF Layered, Early

LEMMA StackedInit == Init => Stacked
<1> SUFFICES ASSUME Init PROVE Stacked
  OBVIOUS
<1>1. IsDatabase(After[9]) /\ After[9].revision = 9
  BY AfterProperly, Numbered
<1>2. Layered(db)
  <2>1. CASE db = NoDatabase
    BY <2>1, Unlayered DEF NoDatabase
  <2>2. ASSUME NEW ps \in SUBSET OldProducts,
               db = [After[9] EXCEPT !.products = ps, !.admins = 1]
        PROVE  Layered(db)
    <3>1. db.revision = 9 /\ db.schema = After[9].schema
      BY <1>1, <2>2 DEF IsDatabase
    <3>2. ASSUME NEW r \in 1 .. 9, NEW n \in DOMAIN Upgrades[r], NEW o,
                 HasMade(Upgrades[r], n, o), \A j \in r .. 9 : ~Loses(j, o)
          PROVE  o \in After[9].schema
      <4>1. DOMAIN Upgrades[r] = 1 .. Len(Upgrades[r]) /\ Len(Upgrades[r]) \in Nat
        <5>1. r \in 1 .. 14
          OBVIOUS
        <5>2. QED
          BY <5>1, Properly DEF Proper
      <4>2. PICK k \in 1 .. n - 1 : Makes(Upgrades[r][k]) /\ Upgrades[r][k].on = o
        BY <3>2 DEF HasMade
      <4>3. k \in DOMAIN Upgrades[r]
        BY <4>1, <4>2
      <4>4. \A l \in DOMAIN Upgrades[r] : ~Takes(Upgrades[r][l], o)
        BY <3>2 DEF Loses
      <4>5. o \in Leaves(r)
        BY <4>2, <4>3, <4>4 DEF Leaves
      <4>6. \A j \in r + 1 .. 9 : ~Loses(j, o)
        BY <3>2
      <4>7. QED
        BY <4>5, <4>6, InAfter
    <3>3. \A o \in {<<Posts>>} \cup AuditColumns \cup OutboxColumns : \A j \in 1 .. 9 : ~Loses(j, o)
      BY NeverLost DEF Loses
    <3>4. AuditColumns \subseteq db.schema
      <4>1. 18 \in DOMAIN Upgrades[8]
        BY MadeBy8
      <4>2. SUFFICES ASSUME NEW c \in AuditColumns PROVE c \in db.schema
        OBVIOUS
      <4>3. HasMade(Upgrades[8], 18, c) /\ \A j \in 8 .. 9 : ~Loses(j, c)
        BY <3>3, MadeBefore
      <4>4. QED
        BY <3>1, <3>2, <4>1, <4>3
    <3>5. OutboxColumns \subseteq db.schema
      <4>1. 4 \in DOMAIN Upgrades[9]
        BY Up9, Numbered
      <4>2. SUFFICES ASSUME NEW c \in OutboxColumns PROVE c \in db.schema
        OBVIOUS
      <4>3. HasMade(Upgrades[9], 4, c) /\ \A j \in 9 .. 9 : ~Loses(j, c)
        BY <3>3, MadeBefore
      <4>4. QED
        BY <3>1, <3>2, <4>1, <4>3
    <3>6. <<Posts>> \in db.schema
      <4>1. 4 \in DOMAIN Upgrades[5]
        BY Up5, Numbered
      <4>2. HasMade(Upgrades[5], 4, <<Posts>>) /\ \A j \in 5 .. 9 : ~Loses(j, <<Posts>>)
        BY <3>3, MadeBefore
      <4>3. QED
        BY <3>1, <3>2, <4>1, <4>2
    <3>7. VersionRows \notin db.schema
      <4>1. SUFFICES ASSUME VersionRows \in After[9].schema PROVE FALSE
        BY <3>1
      <4>2. PICK i \in 1 .. 9 : VersionRows \in Leaves(i)
        BY <4>1, InAfter
      <4>3. PICK k \in DOMAIN Upgrades[i] : Makes(Upgrades[i][k]) /\ Upgrades[i][k].on = VersionRows
        BY <4>2 DEF Leaves
      <4>4. i \in 1 .. 14 /\ i # 10 /\ VersionRows # Audits /\ VersionRows # Outbox
        BY DEF VersionRows, Audits, Outbox
      <4>5. QED
        BY <4>3, <4>4, LateMade DEF LateTables
    <3>8. StatusIndex \notin db.schema
      <4>1. SUFFICES ASSUME StatusIndex \in After[9].schema PROVE FALSE
        BY <3>1
      <4>2. PICK i \in 1 .. 9 : StatusIndex \in Leaves(i) /\ \A j \in i + 1 .. 9 : ~Loses(j, StatusIndex)
        BY <4>1, InAfter
      <4>3. PICK k \in DOMAIN Upgrades[i] : Makes(Upgrades[i][k]) /\ Upgrades[i][k].on = StatusIndex
        BY <4>2 DEF Leaves
      <4>4. i = 5
        BY <4>3, LateMade
      <4>5. Upgrades[8][10] = Unmake(StatusIndex) /\ 10 \in DOMAIN Upgrades[8]
        BY Up8, Numbered DEF StatusIndex
      <4>6. Takes(Upgrades[8][10], StatusIndex)
        BY <4>5, TakesItself DEF Unmake
      <4>7. QED
        BY <4>2, <4>4, <4>5, <4>6 DEF Loses
    <3>9. QED
      BY <3>1, <3>4, <3>5, <3>6, <3>7, <3>8 DEF Layered, Late
  <2>3. QED
    BY <2>1, <2>2 DEF Init
<1>3. QED
  BY <1>2 DEF Init, Stacked, Running, View, AllDown

LEMMA StackedStep ==
    /\ TypeOK /\ Way /\ Apart /\ Saved /\ Stacked /\ [Next]_vars
    /\ TypeOK' /\ Way'
    => Stacked'
<1> SUFFICES ASSUME TypeOK, Way, Apart, Saved, Stacked, [Next]_vars, TypeOK', Way'
             PROVE  Stacked'
  OBVIOUS
<1> USE DEF migrating, serving, copying
<1>a. /\ Layered(db) /\ Layered(View)
      /\ backup.db # <<>> => Layered(backup.db[1])
      /\ ~AllDown => HasSchema(db)
      /\ IsDatabase(db) /\ IsDatabase(View) /\ View.revision = db.revision
      /\ db.revision \in 0 .. 14 /\ at \in Nat
      /\ Running => AllDown
  BY Numbered DEF Stacked, TypeOK, MigratorOK, IsDatabase, Way, View, Apart
<1>1. ASSUME at' = 1, ~open', Layered(db'), UNCHANGED <<server, backup>>,
             Running \/ UNCHANGED db
      PROVE  Stacked'
  <2>1. View' = db'
    BY <1>1 DEF View
  <2>2. Kept(Statements', 1, {}, View'.schema)
    BY KeptStart
  <2>3. Reached'
    BY <1>1, <2>2 DEF Reached
  <2>4. ~AllDown' => HasSchema(db')
    BY <1>1, <1>a DEF AllDown
  <2>5. QED
    BY <1>1, <1>a, <2>1, <2>3, <2>4 DEF Stacked
<1>2. ASSUME \/ StartUpgrade
             \/ \E r \in Targets : StartDowngrade(r)
      PROVE  Stacked'
  <2>1. PICK way, to : way \in {"up", "down"} /\ StartMigrator(way, to)
    BY <1>2 DEF StartUpgrade, StartDowngrade
  <2>2. ~Running /\ at' = 1 /\ UNCHANGED <<db, open, server, backup>>
    BY <2>1 DEF StartMigrator
  <2>3. ~open'
    BY <2>2 DEF Way
  <2>4. QED
    BY <1>1, <1>a, <2>2, <2>3
<1>3. CASE Execute
  <2>1. Layered(View') /\ Reached'
    BY <1>3, LayeredExecute, ReachedExecute
  <2>2. db' = db \/ db' = View'
    BY <1>3, SchemaNext
  <2>3. Layered(db')
    BY <1>a, <2>1, <2>2
  <2>4. Running /\ UNCHANGED <<server, backup>>
    BY <1>3, Executed
  <2>5. AllDown'
    BY <1>a, <2>4 DEF AllDown
  <2>6. QED
    BY <1>a, <2>1, <2>3, <2>4, <2>5 DEF Stacked
<1>c. ASSUME Layered(db'), ~open', ~Running', UNCHANGED backup, ~AllDown' => HasSchema(db')
      PROVE  Stacked'
  <2>1. View' = db'
    BY <1>c DEF View
  <2>2. QED
    BY <1>a, <1>c, <2>1 DEF Stacked
<1>4. CASE StatementFails \/ MigratorDies
  <2>1. ~Running' /\ ~open' /\ Running /\ UNCHANGED <<db, server, backup>>
    BY <1>4 DEF StatementFails, MigratorDies, Ended, Running
  <2>2. AllDown'
    BY <1>a, <2>1 DEF AllDown
  <2>3. QED
    BY <1>a, <1>c, <2>1, <2>2
<1>5. CASE Stamp
  <2> DEFINE r == db.revision + (IF migrator = "up" THEN 1 ELSE -1)
             d == [View EXCEPT !.revision = r]
  <2>1. /\ db' = d /\ Running /\ at > Len(Statements) /\ UNCHANGED <<server, backup>>
        /\ open' = FALSE
        /\ IF r = target THEN migrator' = "idle" ELSE at' = 1 /\ UNCHANGED migrator
    BY <1>5 DEF Stamp, Ended
  <2>2. d.revision = r /\ d.schema = View.schema
    BY <1>a DEF IsDatabase
  <2> HIDE DEF d
  <2>3. Reached
    BY <2>1 DEF Stacked
  <2>4. /\ Proper(Statements)
        /\ migrator = "up" => Statements = Upgrades[db.revision + 1] /\ r = db.revision + 1
        /\ migrator = "down" => Statements = Downgrades[db.revision] /\ r = db.revision - 1
        /\ migrator \in {"up", "down"} /\ r \in Int
    BY <1>a, <2>1, ProperStatements DEF Running
  <2> HIDE DEF r
  <2>5. r >= 8 => Late(View)
    <3>1. SUFFICES ASSUME r >= 8 PROVE Late(View)
      OBVIOUS
    <3>2. CASE db.revision >= 8
      BY <1>a, <3>2 DEF Layered
    <3>3. CASE db.revision = 7 /\ migrator = "up"
      <4>1. Statements = StateMachine
        BY <2>4, <3>3, Numbered
      <4>2. at > 10
        BY <1>a, <2>1, <4>1, Up8
      <4>3. QED
        BY <2>3, <3>3, <4>2 DEF Reached
    <3>4. QED
      BY <1>a, <2>4, <3>1, <3>2, <3>3
  <2>6. r <= 4 => Early(View)
    <3>1. SUFFICES ASSUME r <= 4 PROVE Early(View)
      OBVIOUS
    <3>2. CASE db.revision <= 4
      BY <1>a, <3>2 DEF Layered
    <3>3. CASE db.revision = 5 /\ migrator = "down"
      <4>1. Statements = NoSchedulerTables
        BY <2>4, <3>3, Numbered
      <4>2. at > 3
        BY <1>a, <2>1, <4>1, Down5
      <4>3. QED
        BY <2>3, <3>3, <4>2 DEF Reached
    <3>4. QED
      BY <1>a, <2>4, <3>1, <3>2, <3>3
  <2>7. Layered(db')
    BY <1>a, <2>1, <2>2, <2>5, <2>6 DEF Layered, Early, Late
  <2>8. CASE r = target
    <3>1. ~Running' /\ ~open' /\ AllDown'
      BY <1>a, <2>1, <2>8 DEF Running, AllDown
    <3>2. QED
      BY <1>c, <2>1, <2>7, <3>1
  <2>9. CASE r # target
    BY <1>1, <2>1, <2>7, <2>9
  <2>10. QED
    BY <2>8, <2>9
<1>d. ASSUME /\ db'.revision = db.revision /\ db'.schema = db.schema
             /\ ~Running /\ UNCHANGED <<migrating, backup>>
             /\ ~AllDown' => HasSchema(db)
      PROVE  Stacked'
  <2>1. ~open' /\ ~Running'
    BY <1>d DEF Way, Running
  <2>2. Layered(db')
    BY <1>a, <1>d DEF Layered, Early, Late
  <2>3. ~AllDown' => HasSchema(db')
    BY <1>d DEF HasSchema
  <2>4. QED
    BY <1>c, <1>d, <2>1, <2>2, <2>3
<1>7. ASSUME NEW s \in Servers,
             \/ Start(s) \/ CountUsers(s) \/ FindAdmin(s) \/ CreateAdmin(s) \/ Stop(s)
      PROVE  Stacked'
  <2>1. /\ UNCHANGED <<migrating, backup>>
        /\ db' = db \/ db' = [db EXCEPT !.admins = 1]
        /\ (~Running /\ HasSchema(db)) \/ server[s] # "down"
    BY <1>7 DEF Start, CountUsers, FindAdmin, CreateAdmin, Stop, Move
  <2>2. ~Running /\ HasSchema(db)
    BY <1>a, <2>1 DEF AllDown
  <2>3. db'.revision = db.revision /\ db'.schema = db.schema
    BY <1>a, <2>1 DEF IsDatabase
  <2>4. QED
    BY <1>d, <2>1, <2>2, <2>3
<1>e. ASSUME UNCHANGED <<db, migrating, server, backup>>
      PROVE  Stacked'
  <2>1. View' = View /\ Statements' = Statements
    BY <1>e DEF View, Statements
  <2>2. Running => Reached'
    BY <1>e, <2>1 DEF Stacked, Reached
  <2>3. QED
    BY <1>a, <1>e, <2>1, <2>2 DEF Stacked, Running, AllDown
<1>9. ASSUME NEW s \in Servers, NEW i \in Pictures, SaveFile(s, i) PROVE Stacked'
  BY <1>9, <1>e DEF SaveFile
<1>10. ASSUME NEW s \in Servers, NEW i \in Pictures, CommitImage(s, i) PROVE Stacked'
  <2>1. /\ ~Running /\ UNCHANGED <<migrating, server, backup>>
        /\ db' = [db EXCEPT !.images = @ \cup {i}]
    BY <1>10 DEF CommitImage, AllDown, Apart, Saved
  <2>2. db'.revision = db.revision /\ db'.schema = db.schema
    BY <1>a, <2>1 DEF IsDatabase
  <2>3. ~AllDown' => HasSchema(db)
    BY <1>a, <2>1 DEF AllDown
  <2>4. QED
    BY <1>d, <2>1, <2>2, <2>3
<1>11. CASE StartBackup \/ BackupDatabase \/ BackupImages \/ WriteManifest
            \/ BackupDies \/ SpoilArchive
  <2>1. /\ UNCHANGED <<db, migrating, server>>
        /\ backup'.db = backup.db \/ backup'.db = <<db>> \/ backup'.db = <<>>
    <3>1. UNCHANGED <<db, migrating, server>>
      BY <1>11 DEF StartBackup, BackupDatabase, BackupImages, WriteManifest,
                   BackupDies, SpoilArchive
    <3>2. QED
      BY <1>11, <3>1, DatabaseCopy
  <2>2. backup'.db # <<>> => Layered(backup'.db[1])
    BY <1>a, <2>1
  <2>3. View' = View /\ Statements' = Statements
    BY <2>1 DEF View, Statements
  <2>4. Running => Reached'
    BY <2>1, <2>3 DEF Stacked, Reached
  <2>5. QED
    BY <1>a, <2>1, <2>2, <2>3, <2>4 DEF Stacked, Running, AllDown
<1>12. CASE RestoreDatabase
  <2>1. /\ migrator' = "idle" /\ ~Running /\ UNCHANGED <<open, server, backup>>
        /\ AllDown
        /\ db' = db \/ (backup.db # <<>> /\ db' = backup.db[1])
    BY <1>12 DEF RestoreDatabase
  <2>2. ~open' /\ ~Running' /\ AllDown'
    BY <2>1 DEF Way, Running, AllDown
  <2>3. Layered(db')
    BY <1>a, <2>1
  <2>4. QED
    BY <1>c, <2>1, <2>2, <2>3
<1>13. CASE NothingToUnpack \/ ChecksumDiffers \/ RemoveImages \/ MoveImages
            \/ RestoreDies
  BY <1>13, <1>e DEF NothingToUnpack, ChecksumDiffers, RemoveImages, MoveImages,
                 RestoreDies
<1>14. CASE HostLost
  <2>1. /\ migrator' = "idle" /\ ~open' /\ db' = NoDatabase /\ UNCHANGED backup
        /\ AllDown'
    BY <1>14 DEF HostLost, Ended, AllDown
  <2>2. Layered(db')
    BY <2>1, Unlayered DEF NoDatabase
  <2>3. QED
    BY <1>c, <2>1, <2>2 DEF Running
<1>15. CASE UNCHANGED vars
  BY <1>15, <1>e DEF vars
<1>16. QED
  BY <1>2, <1>3, <1>4, <1>5, <1>7, <1>9, <1>10, <1>11, <1>12,
     <1>13, <1>14, <1>15 DEF Next

LEMMA Joined ==
    ASSUME NEW s, NEW u, Listed(s), Listed(u)
    PROVE  /\ Listed(s \o u)
           /\ ToSet(s) \cup ToSet(u) = ToSet(s \o u)
<1>1. PICK S, T : s \in Seq(S) /\ u \in Seq(T)
  BY DEF Listed
<1>2. s \in Seq(S \cup T) /\ u \in Seq(S \cup T)
  BY <1>1, SeqMonotonic
<1>3. /\ s \o u \in Seq(S \cup T) /\ Len(s \o u) = Len(s) + Len(u)
      /\ \A i \in 1 .. Len(s) + Len(u) :
            (s \o u)[i] = IF i <= Len(s) THEN s[i] ELSE u[i - Len(s)]
  BY <1>2, ConcatProperties
<1>4. /\ DOMAIN (s \o u) = 1 .. Len(s) + Len(u)
      /\ Len(s) \in Nat /\ DOMAIN s = 1 .. Len(s) /\ Len(u) \in Nat /\ DOMAIN u = 1 .. Len(u)
  BY <1>2, <1>3, LenProperties
<1>5. ASSUME NEW i \in DOMAIN s PROVE s[i] \in ToSet(s \o u)
  <2>1. i \in DOMAIN (s \o u) /\ (s \o u)[i] = s[i]
    BY <1>3, <1>4
  <2>2. QED
    BY <2>1 DEF ToSet
<1>6. ASSUME NEW i \in DOMAIN u PROVE u[i] \in ToSet(s \o u)
  <2>1. i + Len(s) \in DOMAIN (s \o u) /\ (s \o u)[i + Len(s)] = u[i]
    BY <1>3, <1>4
  <2>2. QED
    BY <2>1 DEF ToSet
<1>7. ASSUME NEW i \in DOMAIN (s \o u) PROVE (s \o u)[i] \in ToSet(s) \cup ToSet(u)
  <2>1. \/ i \in DOMAIN s /\ (s \o u)[i] = s[i]
        \/ i - Len(s) \in DOMAIN u /\ (s \o u)[i] = u[i - Len(s)]
    BY <1>3, <1>4
  <2>2. QED
    BY <2>1 DEF ToSet
<1>8. ToSet(s) \cup ToSet(u) = ToSet(s \o u)
  BY <1>5, <1>6, <1>7 DEF ToSet
<1>9. Listed(s \o u)
  BY <1>3 DEF Listed
<1>10. QED
  BY <1>8, <1>9

(* Every column that a server looks for is one of these, and every late     *)
(* table one of those without which it does not start.                      *)
LEMMA Sought ==
    /\ LateTables \subseteq ModelTables
    /\ Columns \subseteq AuditColumns \cup OutboxColumns \cup ItemColumns
<1>1. Columns \subseteq AuditColumns \cup OutboxColumns \cup ItemColumns
  <2> DEFINE a == Part(Posts, <<"owner_user_id", "state", "version">>)
             b == Part("products", ProductColumns)
  <2>1. /\ a = [i \in 1 .. 3 |-> a[i]] /\ b = [i \in 1 .. 6 |-> b[i]]
        /\ a[1] = <<Posts, "owner_user_id">> /\ a[2] = <<Posts, "state">>
        /\ a[3] = <<Posts, "version">>
        /\ DOMAIN a = 1 .. 3 /\ DOMAIN b = 1 .. 6
    BY DEF Part, Each, ProductColumns
  <2>2. \A i \in 1 .. 6 : b[i] \in ItemColumns
    BY DEF Part, Each, ProductColumns, ItemColumns
  <2>3. Listed(a) /\ Listed(b)
    BY <2>1, ListOfFunction
  <2>4. Columns = ToSet(a \o b)
    BY DEF Columns
  <2> HIDE DEF a, b
  <2>5. Columns = ToSet(a) \cup ToSet(b)
    BY <2>3, <2>4, Joined
  <2>6. \A i \in 1 .. 3 : a[i] \in AuditColumns \cup OutboxColumns
    BY <2>1 DEF AuditColumns, OutboxColumns
  <2>7. QED
    BY <2>1, <2>2, <2>5, <2>6 DEF ToSet
<1>2. "product_version_histories" \in
         ToSet(CaptionTables \o ProductTables \o ContentTables
               \o ContentVersionTables \o ImageTables \o ImageVersionTables
               \o SocialTables \o JobTables \o HistoryTables
               \o TenantTables \o BillingTables \o MessageTables
               \o InsightTables)
  <2>1. "product_version_histories" \in ToSet(ProductTables)
    <3>1. 4 \in DOMAIN ProductTables /\ ProductTables[4] = "product_version_histories"
      BY DEF ProductTables
    <3>2. QED
      BY <3>1 DEF ToSet
  <2>2. /\ Listed(CaptionTables) /\ Listed(ContentTables) /\ Listed(ContentVersionTables)
        /\ Listed(ImageTables) /\ Listed(ImageVersionTables) /\ Listed(SocialTables)
        /\ Listed(JobTables) /\ Listed(HistoryTables) /\ Listed(TenantTables)
        /\ Listed(BillingTables) /\ Listed(MessageTables) /\ Listed(InsightTables)
    BY InTables DEF Listed
  <2>3. Listed(ProductTables)
    <3>1. ProductTables = [i \in 1 .. 4 |-> ProductTables[i]] /\ DOMAIN ProductTables = 1 .. 4
      BY DEF ProductTables
    <3>2. QED
      BY <3>1, ListOfFunction
  <2>4. ASSUME NEW s, NEW u, Listed(s), Listed(u), "product_version_histories" \in ToSet(s)
        PROVE  Listed(s \o u) /\ "product_version_histories" \in ToSet(s \o u)
    BY <2>4, Joined
  <2> DEFINE a == CaptionTables \o ProductTables
             b == a \o ContentTables
             c == b \o ContentVersionTables
             d == c \o ImageTables
             e == d \o ImageVersionTables
             f == e \o SocialTables
             g == f \o JobTables
             h == g \o HistoryTables
             j == h \o TenantTables
             k == j \o BillingTables
             l == k \o MessageTables
             In(x) == Listed(x) /\ "product_version_histories" \in ToSet(x)
  <2>5. In(a)
    BY <2>1, <2>2, <2>3, Joined
  <2> HIDE DEF a
  <2>6. In(b)
    BY <2>2, <2>4, <2>5
  <2> HIDE DEF b
  <2>7. In(c)
    BY <2>2, <2>4, <2>6
  <2> HIDE DEF c
  <2>8. In(d)
    BY <2>2, <2>4, <2>7
  <2> HIDE DEF d
  <2>9. In(e)
    BY <2>2, <2>4, <2>8
  <2> HIDE DEF e
  <2>10. In(f)
    BY <2>2, <2>4, <2>9
  <2> HIDE DEF f
  <2>11. In(g)
    BY <2>2, <2>4, <2>10
  <2> HIDE DEF g
  <2>12. In(h)
    BY <2>2, <2>4, <2>11
  <2> HIDE DEF h
  <2>13. In(j)
    BY <2>2, <2>4, <2>12
  <2> HIDE DEF j
  <2>14. In(k)
    BY <2>2, <2>4, <2>13
  <2> HIDE DEF k
  <2>15. In(l)
    BY <2>2, <2>4, <2>14
  <2> HIDE DEF l
  <2>16. In(l \o InsightTables)
    BY <2>2, <2>4, <2>15
  <2>17. QED
    BY <2>16 DEF a, b, c, d, e, f, g, h, j, k, l
<1>3. LateTables \subseteq ModelTables
  BY <1>2 DEF LateTables, Audits, Outbox, VersionRows, ModelTables
<1>4. QED
  BY <1>1, <1>3

(* A server that runs sees every table and column of its models, whatever  *)
(* upgrades, downgrades and restores went before: of these the start only  *)
(* looks for the tables (app/services/bootstrap_service.py).               *)
THEOREM ServersSeeTheirSchema == Spec => []ServerSeesSchema
<1> DEFINE I == TypeOK /\ Way /\ Apart /\ Saved /\ Stacked
<1>1. Init => I
  BY TypeInit, ApartInit, StackedInit
<1>2. I /\ [Next]_vars => I'
  BY TypeStep, ApartStep, StackedStep
<1>3. I => ServerSeesSchema
  <2>1. SUFFICES ASSUME Stacked, NEW s \in Servers, server[s] = "up"
                 PROVE  ModelTables \cup Columns \subseteq db.schema
    BY DEF ServerSeesSchema
  <2>2. ModelTables \subseteq db.schema
    BY <2>1 DEF Stacked, AllDown, HasSchema
  <2>3. Audits \in db.schema /\ Outbox \in db.schema /\ VersionRows \in db.schema
    BY <2>2, Sought DEF LateTables
  <2>4. QED
    BY <2>1, <2>2, <2>3, Sought DEF Stacked, Layered
<1>4. QED
  BY <1>1, <1>2, <1>3, PTL DEF Spec

=============================================================================
