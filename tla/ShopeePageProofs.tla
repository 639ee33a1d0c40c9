-------------------------- MODULE ShopeePageProofs --------------------------
(***************************************************************************)
(* What the parser makes of a page, for objects of any length and depth,   *)
(* states of any shape, any number of JSON-LD items and any prices: the    *)
(* object is cut out whole, its search loses no product, a price is        *)
(* understood to the cent, and the made-up price is the last resort.       *)
(***************************************************************************)
EXTENDS ShopeePage, FiniteSetTheorems, SequenceTheorems, WellFoundedInduction, TLAPS

-----------------------------------------------------------------------------
(* JSON text *)

\* Behind the first n characters of an object a string is open,
InString(o, n) == \E s \in o.strings : s[1] <= n /\ n < s[2]

\* and these pairs of braces are.
Open(o, n) == {b \in o.braces : b[1] <= n /\ n < b[2]}

\* The clauses of WellFormed, character by character.
LEMMA Size ==
    ASSUME NEW o, WellFormed(o)
    PROVE  Len(o.text) \in Nat
  BY DEF WellFormed

LEMMA Spanned ==
    ASSUME NEW o, WellFormed(o), NEW s \in o.strings \cup o.braces
    PROVE  s \in (1..Len(o.text)) \X (1..Len(o.text)) /\ s[1] < s[2]
<1>1. Spans(o.strings \cup o.braces, Len(o.text))
  BY DEF WellFormed
<1>2. QED
  BY <1>1 DEF Spans

\* Outside of strings a character begins or ends a pair.
LEMMA BareQuote ==
    ASSUME NEW o, WellFormed(o), NEW i
    PROVE  i \in At(o, "q") \ Inside(o) <=> \E s \in o.strings : i = s[1] \/ i = s[2]
<1>1. At(o, "q") \ Inside(o) = {s[1] : s \in o.strings} \cup {s[2] : s \in o.strings}
  BY ZenonT(30) DEF WellFormed
<1>2. QED
  BY <1>1

LEMMA BareOpening ==
    ASSUME NEW o, WellFormed(o), NEW i
    PROVE  i \in At(o, "{") \ Inside(o) <=> \E b \in o.braces : i = b[1]
<1>1. At(o, "{") \ Inside(o) = {b[1] : b \in o.braces}
  BY ZenonT(30) DEF WellFormed
<1>2. QED
  BY <1>1

LEMMA BareClosing ==
    ASSUME NEW o, WellFormed(o), NEW i
    PROVE  i \in At(o, "}") \ Inside(o) <=> \E b \in o.braces : i = b[2]
<1>1. At(o, "}") \ Inside(o) = {b[2] : b \in o.braces}
  BY ZenonT(30) DEF WellFormed
<1>2. QED
  BY <1>1

LEMMA Apart ==
    ASSUME NEW o, WellFormed(o)
    PROVE  /\ \A s, u \in o.strings : s = u \/ s[2] < u[1] \/ u[2] < s[1]
           /\ \A b, c \in o.braces : b[1] = c[1] \/ b[2] = c[2] => b = c
           /\ <<1, Len(o.text)>> \in o.braces
  BY DEF WellFormed

LEMMA Escaping ==
    ASSUME NEW o, WellFormed(o), NEW i
    PROVE  /\ i \in o.escapes <=> i \in Inside(o) /\ o.text[i] = "\\" /\ i - 1 \notin o.escapes
           /\ i \in o.escapes => i + 1 \in Inside(o)
           /\ i \in Inside(o) /\ o.text[i] = "q" => i - 1 \in o.escapes
<1>1. i \in Inside(o) => i \in 1..Len(o.text)
  BY DEF Inside
<1>2. \A c : i \in At(o, c) <=> i \in 1..Len(o.text) /\ o.text[i] = c
  BY DEF At
<1>3. o.escapes = {j \in At(o, "\\") \cap Inside(o) : j - 1 \notin o.escapes}
  BY ZenonT(30) DEF WellFormed
<1>4. \A j \in o.escapes : j + 1 \in Inside(o)
  BY ZenonT(30) DEF WellFormed
<1>5. \A j \in At(o, "q") \cap Inside(o) : j - 1 \in o.escapes
  BY ZenonT(30) DEF WellFormed
<1>6. i \in o.escapes <=> i \in At(o, "\\") /\ i \in Inside(o) /\ i - 1 \notin o.escapes
  BY <1>3
<1>7. i \in o.escapes <=> i \in Inside(o) /\ o.text[i] = "\\" /\ i - 1 \notin o.escapes
  BY <1>1, <1>2, <1>6
<1>8. i \in Inside(o) /\ o.text[i] = "q" => i - 1 \in o.escapes
  BY <1>1, <1>2, <1>5
<1>9. QED
  BY <1>4, <1>7, <1>8

LEMMA Strings ==
    ASSUME NEW o, WellFormed(o), NEW s \in o.strings
    PROVE  /\ s[1] \in 1..Len(o.text) /\ s[2] \in 1..Len(o.text)
           /\ s[1] \in Nat /\ s[2] \in Nat /\ s[1] < s[2]
           /\ o.text[s[1]] = "q" /\ s[1] \notin Inside(o)
           /\ o.text[s[2]] = "q" /\ s[2] \notin Inside(o)
<1>1. s[1] \in 1..Len(o.text) /\ s[2] \in 1..Len(o.text) /\ s[1] < s[2]
  BY Spanned
<1>2. s[1] \in At(o, "q") \ Inside(o)
  BY BareQuote
<1>3. s[2] \in At(o, "q") \ Inside(o)
  BY BareQuote
<1>4. s[1] \in Nat /\ s[2] \in Nat
  BY <1>1, Size
<1>5. /\ o.text[s[1]] = "q" /\ s[1] \notin Inside(o)
      /\ o.text[s[2]] = "q" /\ s[2] \notin Inside(o)
  BY <1>2, <1>3 DEF At
<1>6. QED
  BY <1>1, <1>4, <1>5

LEMMA Braces ==
    ASSUME NEW o, WellFormed(o), NEW b \in o.braces
    PROVE  /\ b[1] \in 1..Len(o.text) /\ b[2] \in 1..Len(o.text)
           /\ b[1] \in Nat /\ b[2] \in Nat /\ b[1] < b[2]
           /\ o.text[b[1]] = "{" /\ b[1] \notin Inside(o)
           /\ o.text[b[2]] = "}" /\ b[2] \notin Inside(o)
<1>1. b[1] \in 1..Len(o.text) /\ b[2] \in 1..Len(o.text) /\ b[1] < b[2]
  BY Spanned
<1>2. b[1] \in At(o, "{") \ Inside(o)
  BY BareOpening
<1>3. b[2] \in At(o, "}") \ Inside(o)
  BY BareClosing
<1>4. b[1] \in Nat /\ b[2] \in Nat
  BY <1>1, Size
<1>5. o.text[b[1]] = "{" /\ b[1] \notin Inside(o)
  BY <1>2 DEF At
<1>6. o.text[b[2]] = "}" /\ b[2] \notin Inside(o)
  BY <1>3 DEF At
<1>7. QED
  BY <1>1, <1>4, <1>5, <1>6

LEMMA LastBrace ==
    ASSUME NEW o, WellFormed(o)
    PROVE  /\ Len(o.text) \in Nat /\ Len(o.text) > 0
           /\ o.text[Len(o.text)] = "}" /\ Len(o.text) \notin Inside(o)
<1>1. PICK b : b \in o.braces /\ b[1] = 1 /\ b[2] = Len(o.text)
  BY Apart, <<1, Len(o.text)>>[1] = 1, <<1, Len(o.text)>>[2] = Len(o.text)
<1>2. o.text[b[2]] = "}" /\ b[2] \notin Inside(o)
  BY <1>1, Braces
<1>3. b[1] \in Nat /\ b[2] \in Nat /\ b[1] < b[2]
  BY <1>1, Braces
<1>4. b[2] > 0
  BY <1>3
<1>5. QED
  BY <1>1, <1>2, <1>3, <1>4

\* A string that is open behind n characters holds the next one, or ends there.
LEMMA StringHolds ==
    ASSUME NEW o, WellFormed(o), NEW n \in Nat, n < Len(o.text)
    PROVE  InString(o, n) <=> n + 1 \in Inside(o) \/ \E s \in o.strings : s[2] = n + 1
<1>1. /\ Len(o.text) \in Nat
      /\ \A s \in o.strings : s[1] \in Nat /\ s[2] \in Nat /\ s[1] < s[2]
  BY Size, Strings
<1>2. n + 1 \in 1..Len(o.text)
  BY <1>1
<1>3. InString(o, n) <=> \E s \in o.strings : s[1] < n + 1 /\ n + 1 <= s[2]
  BY <1>1 DEF InString
<1>4. n + 1 \in Inside(o) <=> \E s \in o.strings : s[1] < n + 1 /\ n + 1 < s[2]
  BY <1>2 DEF Inside
<1>5. \A s \in o.strings : n + 1 <= s[2] <=> n + 1 < s[2] \/ s[2] = n + 1
  BY <1>1
<1>6. \A s \in o.strings : s[2] = n + 1 => s[1] < n + 1
  BY <1>1
<1>7. QED
  BY <1>3, <1>4, <1>5, <1>6

\* Within a string only a quotation mark ends it that no backslash escapes.
LEMMA CharInString ==
    ASSUME NEW o, WellFormed(o), NEW n \in Nat, n < Len(o.text), InString(o, n)
    PROVE  /\ InString(o, n + 1) <=> n \in o.escapes \/ o.text[n + 1] # "q"
           /\ n + 1 \in o.escapes <=> n \notin o.escapes /\ o.text[n + 1] = "\\"
<1> DEFINE i == n + 1
<1>1. i \in Nat /\ i - 1 = n
  OBVIOUS
<1>2. \A s \in o.strings : s[1] \in Nat /\ s[2] \in Nat /\ s[1] < s[2]
  BY Strings
<1>3. CASE i \in Inside(o)
  <2>1. InString(o, i)
    <3>1. PICK s \in o.strings : s[1] < i /\ i < s[2]
      BY <1>3 DEF Inside
    <3>2. QED
      BY <1>1, <1>2, <3>1 DEF InString
  <2>2. o.text[i] = "q" => n \in o.escapes
    BY <1>1, <1>3, Escaping
  <2>3. i \in o.escapes <=> n \notin o.escapes /\ o.text[i] = "\\"
    BY <1>1, <1>3, Escaping
  <2>4. QED
    BY <2>1, <2>2, <2>3
<1>4. ASSUME NEW s \in o.strings, s[2] = i
      PROVE  /\ ~InString(o, i) /\ n \notin o.escapes /\ o.text[i] = "q"
             /\ i \notin o.escapes
  <2>1. i \notin Inside(o) /\ o.text[i] = "q"
    BY <1>4, Strings
  <2>2. n \notin o.escapes /\ i \notin o.escapes
    BY <2>1, Escaping
  <2>3. ASSUME NEW u \in o.strings, u[1] <= i, i < u[2] PROVE FALSE
    <3>1. u[1] \in Nat /\ u[2] \in Nat /\ s[1] \in Nat /\ i \in Nat /\ s[1] < i
      BY <1>1, <1>2, <1>4
    <3>2. s = u \/ s[2] < u[1] \/ u[2] < s[1]
      BY Apart
    <3> HIDE DEF i
    <3>3. QED
      BY <1>4, <2>3, <3>1, <3>2
  <2>4. QED
    BY <2>1, <2>2, <2>3 DEF InString
<1>5. i \in Inside(o) \/ \E s \in o.strings : s[2] = i
  BY StringHolds
<1>6. QED
  BY <1>3, <1>4, <1>5

\* Outside of strings nothing is escaped, and a quotation mark begins one.
LEMMA CharOutside ==
    ASSUME NEW o, WellFormed(o), NEW n \in Nat, n < Len(o.text), ~InString(o, n)
    PROVE  /\ n \notin o.escapes /\ n + 1 \notin o.escapes
           /\ n + 1 \notin Inside(o)
           /\ InString(o, n + 1) <=> o.text[n + 1] = "q"
<1>1. PICK i : i = n + 1
  OBVIOUS
<1>2. i \in 1..Len(o.text) /\ i \in Nat
  BY <1>1, Size
<1>3. i \notin Inside(o) /\ \A s \in o.strings : s[2] # i
  BY <1>1, StringHolds
<1>4. n \notin o.escapes /\ i \notin o.escapes
  BY <1>1, <1>3, Escaping
<1>5. ASSUME o.text[i] = "q" PROVE InString(o, i)
  <2>1. i \in At(o, "q") \ Inside(o)
    BY <1>2, <1>3, <1>5 DEF At
  <2>2. PICK s \in o.strings : i = s[1] \/ i = s[2]
    BY <2>1, BareQuote
  <2>3. s[1] <= i /\ i < s[2]
    BY <1>3, <2>2, Strings
  <2>4. QED
    BY <2>3 DEF InString
<1>6. ASSUME NEW s \in o.strings, s[1] <= i, i < s[2] PROVE o.text[i] = "q"
  <2>1. s[1] = i \/ (s[1] < i /\ i < s[2])
    BY <1>2, <1>6, Strings
  <2>2. s[1] = i
    BY <1>2, <1>3, <2>1 DEF Inside
  <2>3. QED
    BY <2>2, Strings
<1>7. InString(o, i) <=> o.text[i] = "q"
  BY <1>5, <1>6 DEF InString
<1>8. QED
  BY <1>1, <1>3, <1>4, <1>7

\* The braces that are open behind a character are those before it, but for a
\* brace outside of strings, which opens or closes one pair.
LEMMA CharAndBraces ==
    ASSUME NEW o, WellFormed(o), NEW n \in Nat, n < Len(o.text)
    PROVE  /\ InString(o, n) \/ o.text[n + 1] \notin {"{", "}"} =>
                 n + 1 # Len(o.text) /\ Open(o, n + 1) = Open(o, n)
           /\ ~InString(o, n) /\ o.text[n + 1] = "{" =>
                 /\ n + 1 # Len(o.text)
                 /\ \E b : b \notin Open(o, n) /\ Open(o, n + 1) = Open(o, n) \cup {b}
           /\ ~InString(o, n) /\ o.text[n + 1] = "}" =>
                 \E b \in Open(o, n) : Open(o, n + 1) = Open(o, n) \ {b}
<1>1. PICK i : i = n + 1
  OBVIOUS
<1>2. i \in 1..Len(o.text) /\ i \in Nat
  <2>1. Len(o.text) \in Nat
    BY Size
  <2>2. QED
    BY <1>1, <2>1
<1>3. \A b \in o.braces : b[1] \in Nat /\ b[2] \in Nat /\ b[1] < b[2]
  BY Braces
<1>4. \A b \in o.braces : b \in Open(o, i) <=> b[1] <= i /\ i < b[2]
  BY DEF Open
<1>5. \A b \in o.braces : b \in Open(o, n) <=> b[1] < i /\ i <= b[2]
  BY <1>1, <1>3 DEF Open
<1>6. Open(o, i) \subseteq o.braces /\ Open(o, n) \subseteq o.braces
  BY DEF Open
<1>7. ASSUME NEW b \in o.braces, b[1] # i, b[2] # i PROVE b \in Open(o, i) <=> b \in Open(o, n)
  <2>1. b[1] \in Nat /\ b[2] \in Nat
    BY <1>3
  <2>2. (b[1] <= i <=> b[1] < i) /\ (i < b[2] <=> i <= b[2])
    BY <1>2, <1>7, <2>1
  <2>3. QED
    BY <1>4, <1>5, <2>2
<1>8. ASSUME \A b \in o.braces : b[1] # i /\ b[2] # i PROVE Open(o, i) = Open(o, n)
  BY <1>6, <1>7, <1>8
<1>9. \A b \in o.braces : o.text[b[1]] = "{" /\ o.text[b[2]] = "}"
  BY Braces
<1>10. o.text[Len(o.text)] = "}" /\ Len(o.text) \notin Inside(o)
  BY LastBrace
<1>11. CASE InString(o, n)
  <2>1. i \in Inside(o) \/ o.text[i] = "q"
    <3>1. i \in Inside(o) \/ \E s \in o.strings : s[2] = i
      BY <1>1, <1>11, StringHolds
    <3>2. \A s \in o.strings : o.text[s[2]] = "q"
      BY Strings
    <3>3. QED
      BY <3>1, <3>2
  <2>2. \A b \in o.braces : b[1] # i /\ b[2] # i
    BY <1>9, <2>1, Braces
  <2>3. i # Len(o.text)
    BY <1>10, <2>1
  <2>4. QED
    BY <1>1, <1>8, <1>11, <2>2, <2>3
<1>12. CASE ~InString(o, n) /\ o.text[i] \notin {"{", "}"}
  <2>1. \A b \in o.braces : b[1] # i /\ b[2] # i
    BY <1>9, <1>12
  <2>2. QED
    BY <1>1, <1>8, <1>10, <1>12, <2>1
<1>13. CASE ~InString(o, n) /\ o.text[i] = "{"
  <2>1. i \notin Inside(o)
    BY <1>1, <1>13, CharOutside
  <2>2. PICK b \in o.braces : i = b[1]
    <3>1. i \in At(o, "{") \ Inside(o)
      BY <1>2, <1>13, <2>1 DEF At
    <3>2. QED
      BY <3>1, BareOpening
  <2>3. \A c \in o.braces : c[2] # i /\ (c[1] = i => c = b)
    BY <1>9, <1>13, <2>2, Apart
  <2>4. b \notin Open(o, n) /\ b \in Open(o, i)
    BY <1>2, <1>3, <1>4, <1>5, <2>2
  <2>5. \A c \in o.braces : c # b => (c \in Open(o, i) <=> c \in Open(o, n))
    BY <1>7, <2>3
  <2>6. Open(o, i) = Open(o, n) \cup {b}
    BY <1>6, <2>4, <2>5
  <2>7. i # Len(o.text)
    BY <1>10, <1>13
  <2>8. QED
    BY <1>1, <1>13, <2>4, <2>6, <2>7
<1>14. CASE ~InString(o, n) /\ o.text[i] = "}"
  <2>1. i \notin Inside(o)
    BY <1>1, <1>14, CharOutside
  <2>2. PICK b \in o.braces : i = b[2]
    <3>1. i \in At(o, "}") \ Inside(o)
      BY <1>2, <1>14, <2>1 DEF At
    <3>2. QED
      BY <3>1, BareClosing
  <2>3. \A c \in o.braces : c[1] # i /\ (c[2] = i => c = b)
    BY <1>9, <1>14, <2>2, Apart
  <2>4. b \in Open(o, n) /\ b \notin Open(o, i)
    BY <1>2, <1>3, <1>4, <1>5, <2>2
  <2>5. \A c \in o.braces : c # b => (c \in Open(o, i) <=> c \in Open(o, n))
    BY <1>7, <2>3
  <2>6. Open(o, i) = Open(o, n) \ {b}
    BY <1>6, <2>4, <2>5
  <2>7. QED
    BY <1>1, <1>14, <2>4, <2>6
<1>15. QED
  BY <1>1, <1>11, <1>12, <1>13, <1>14

\* No brace is open before the first and behind the last character, and the
\* pair of these two is in between.
LEMMA OpenAtEnds ==
    ASSUME NEW o, WellFormed(o), NEW n \in Nat, n <= Len(o.text)
    PROVE  /\ IsFiniteSet(Open(o, n)) /\ Cardinality(Open(o, n)) \in Nat
           /\ Cardinality(Open(o, n)) = 0 <=> n \in {0, Len(o.text)}
           /\ ~InString(o, 0) /\ 0 \notin o.escapes /\ Len(o.text) > 0
<1>1. Len(o.text) \in Nat /\ Len(o.text) > 0
  BY LastBrace
<1>2. IsFiniteSet(Open(o, n))
  <2> DEFINE size == Len(o.text)
  <2>0. size \in Int
    BY <1>1
  <2>1. \A b \in o.braces : b \in (1..size) \X (1..size)
    BY Spanned
  <2>2. Open(o, n) \subseteq (1..size) \X (1..size)
    BY <2>1 DEF Open
  <2> HIDE DEF size
  <2>3. IsFiniteSet(1..size)
    BY <2>0, FS_Interval
  <2>4. IsFiniteSet((1..size) \X (1..size))
    BY <2>3, FS_Product
  <2>5. QED
    BY <2>2, <2>4, FS_Subset
<1>3. Open(o, n) = {} <=> n \in {0, Len(o.text)}
  <2>1. ASSUME n \notin {0, Len(o.text)} PROVE Open(o, n) # {}
    <3>1. PICK b : b \in o.braces /\ b[1] = 1 /\ b[2] = Len(o.text)
      BY Apart, <<1, Len(o.text)>>[1] = 1, <<1, Len(o.text)>>[2] = Len(o.text)
    <3>2. b \in Open(o, n)
      BY <1>1, <2>1, <3>1 DEF Open
    <3>3. QED
      BY <3>2
  <2>2. ASSUME n \in {0, Len(o.text)} PROVE Open(o, n) = {}
    <3>1. ASSUME NEW b \in o.braces
          PROVE  b[1] > 0 /\ b[2] <= Len(o.text) /\ b[1] \in Nat /\ b[2] \in Nat
      <4>1. b[1] \in 1..Len(o.text) /\ b[2] \in 1..Len(o.text)
        BY Braces
      <4>2. QED
        BY <1>1, <4>1
    <3>2. QED
      BY <1>1, <2>2, <3>1 DEF Open
  <2>3. QED
    BY <2>1, <2>2
<1>4. ~InString(o, 0)
  <2>1. \A s \in o.strings : s[1] > 0 /\ s[1] \in Nat
    BY Strings
  <2>2. QED
    BY <2>1 DEF InString
<1>5. 0 \notin o.escapes
  BY Escaping, 0 \notin Inside(o) DEF Inside
<1>6. QED
  BY <1>1, <1>2, <1>3, <1>4, <1>5, FS_EmptySet, FS_CardinalityType

-----------------------------------------------------------------------------
(* The search for the brace that ends the object *)

PageOk == page \in Pages

ScanState == [depth : Int, inString : BOOLEAN, escaped : BOOLEAN, at : Nat, found : Nat]

\* A turn of the loop, field by field.
LEMMA ScannedInString ==
    ASSUME NEW s \in ScanState, NEW c, s.inString
    PROVE  /\ Scanned(s, c) \in ScanState
           /\ Scanned(s, c).at = s.at + 1
           /\ Scanned(s, c).found = s.found /\ Scanned(s, c).depth = s.depth
           /\ Scanned(s, c).escaped = (~s.escaped /\ c = "\\")
           /\ Scanned(s, c).inString = (s.escaped \/ c # "q")
<1> DEFINE moved == [s EXCEPT !.at = @ + 1]
<1>1. /\ moved \in ScanState /\ moved.at = s.at + 1 /\ moved.inString
      /\ moved.escaped = s.escaped /\ moved.found = s.found /\ moved.depth = s.depth
  BY DEF ScanState
<1>2. Scanned(s, c) = [moved EXCEPT !.escaped = ~@ /\ c = "\\",
                                    !.inString = moved.escaped \/ c # "q"]
  BY <1>1 DEF Scanned
<1> HIDE DEF moved
<1>3. QED
  BY <1>1, <1>2 DEF ScanState

Deeper(d, c, e) ==
    \/ c = "{" /\ e = d + 1
    \/ c = "}" /\ e = d - 1
    \/ c # "{" /\ c # "}" /\ e = d

LEMMA ScannedOutside ==
    ASSUME NEW s \in ScanState, NEW c, ~s.inString, s.found = 0, NEW d \in Int, Deeper(s.depth, c, d)
    PROVE  /\ Scanned(s, c) \in ScanState
           /\ Scanned(s, c).at = s.at + 1
           /\ Scanned(s, c).found = IF c = "}" /\ d = 0 THEN s.at + 1 ELSE 0
           /\ Scanned(s, c).depth = d
           /\ Scanned(s, c).escaped = s.escaped
           /\ Scanned(s, c).inString = (c = "q")
<1> DEFINE moved == [s EXCEPT !.at = @ + 1]
<1>1. /\ moved \in ScanState /\ moved.at = s.at + 1 /\ moved.inString = FALSE
      /\ moved.escaped = s.escaped /\ moved.found = 0 /\ moved.depth = s.depth
  BY DEF ScanState
<1>2. s.at + 1 \in Nat
  BY DEF ScanState
<1>3. CASE c = "q"
  <2>1. Scanned(s, c) = [moved EXCEPT !.inString = TRUE]
    BY <1>1, <1>3 DEF Scanned
  <2> HIDE DEF moved
  <2>2. QED
    BY <1>1, <1>3, <2>1 DEF ScanState, Deeper
<1>4. CASE c # "q"
  <2> DEFINE end == IF c = "}" /\ d = 0 THEN s.at + 1 ELSE 0
  <2>1. Scanned(s, c) = [moved EXCEPT !.depth = d, !.found = end]
    <3> DEFINE k == CASE c = "{" -> 1 [] c = "}" -> -1 [] OTHER -> 0
               e == moved.depth + k
    <3>1. e = d
      <4>1. e = s.depth + k /\ s.depth \in Int
        BY <1>1 DEF ScanState
      <4>2. (c = "{" => k = 1) /\ (c = "}" => k = -1) /\ (c # "{" /\ c # "}" => k = 0)
        OBVIOUS
      <4> HIDE DEF e, k
      <4>3. CASE c = "{"
        BY <4>1, <4>2, <4>3 DEF Deeper
      <4>4. CASE c = "}"
        BY <4>1, <4>2, <4>4 DEF Deeper
      <4>5. CASE c # "{" /\ c # "}"
        <5>1. k = 0 /\ d = s.depth
          BY <4>2, <4>5 DEF Deeper
        <5>2. QED
          BY <4>1, <5>1
      <4>6. QED
        BY <4>3, <4>4, <4>5
    <3>2. Scanned(s, c) = [moved EXCEPT !.depth = e,
                                        !.found = IF c = "}" /\ e = 0 THEN moved.at ELSE 0]
      BY <1>1, <1>4 DEF Scanned
    <3> HIDE DEF k, e, moved
    <3>3. QED
      BY <1>1, <3>1, <3>2
  <2>2. end \in Nat
    BY <1>2
  <2>3. end = IF c = "}" /\ d = 0 THEN s.at + 1 ELSE 0
    OBVIOUS
  <2> HIDE DEF moved, end
  <2>4. QED
    BY <1>1, <1>4, <2>1, <2>2, <2>3 DEF ScanState
<1>5. QED
  BY <1>3, <1>4

\* The scan knows of the characters behind it what the grammar says of them.
ScanKnows ==
    /\ scan \in ScanState
    /\ scan.at <= Len(Blob.script)
    /\ scan.found # 0 => scan.found = Blob.whole
    /\ scan.found = 0 =>
          /\ scan.at < Len(Blob.object.text)
          /\ scan.inString <=> InString(Blob.object, scan.at)
          /\ scan.escaped <=> scan.at \in Blob.object.escapes
          /\ scan.depth = Cardinality(Open(Blob.object, scan.at))

\* Behind the markers before this one there is nothing to load.
Passed == mark \in DOMAIN page.blobs
          /\ \A m \in DOMAIN page.blobs : m < mark => ~Loadable(page.blobs[m])

ScanInv == pc = "scan" => Passed /\ ScanKnows

LEMMA PageFacts ==
    ASSUME PageOk
    PROVE  Sourced(page) /\ Priced(page)
  BY PagesAssumption DEF PageOk

LEMMA BlobFacts ==
    ASSUME PageOk, mark \in DOMAIN page.blobs
    PROVE  /\ WellFormed(Blob.object) /\ Scripted(Blob)
           /\ Len(Blob.object.text) \in Nat /\ Len(Blob.script) \in Nat
<1>1. WellFormed(Blob.object) /\ Scripted(Blob)
  BY PagesAssumption DEF PageOk, Blob
<1>2. QED
  BY <1>1, Size DEF Scripted

LEMMA ScanStep ==
    ASSUME PageOk, ScanInv, ScanChar
    PROVE  ScanInv'
<1> DEFINE o == Blob.object
           n == scan.at
           c == Blob.script[n + 1]
<1>0. pc = "scan" /\ Passed /\ ScanKnows
  BY DEF ScanChar, ScanInv
<1>1. WellFormed(o) /\ Scripted(Blob)
  BY <1>0, BlobFacts DEF Passed
<1>2. /\ pc = "scan" /\ scan.found = 0 /\ n < Len(Blob.script)
      /\ scan' = Scanned(scan, c) /\ UNCHANGED <<page, pc, mark, Blob>>
  BY DEF ScanChar, Blob
<1>3. /\ scan \in ScanState
      /\ n < Len(o.text)
      /\ scan.inString <=> InString(o, n)
      /\ scan.escaped <=> n \in o.escapes
      /\ scan.depth = Cardinality(Open(o, n))
  BY <1>0, <1>2 DEF ScanKnows
<1>4. n \in Nat /\ Len(o.text) \in Nat /\ Len(Blob.script) \in Nat
  <2>1. Len(o.text) \in Nat /\ Len(Blob.script) \in Nat
    BY <1>1, Size DEF Scripted
  <2>2. n \in Nat
    BY <1>3 DEF ScanState
  <2>3. QED
    BY <2>1, <2>2
<1>5. c = o.text[n + 1]
  <2>1. n + 1 \in 1..Len(Blob.script) /\ n + 1 <= Len(o.text)
    BY <1>2, <1>3, <1>4
  <2>2. QED
    BY <1>1, <2>1 DEF Scripted
<1>6. n + 1 <= Len(Blob.script) /\ n + 1 <= Len(o.text) /\ n + 1 \in Nat
  BY <1>2, <1>3, <1>4
<1>7. ASSUME /\ scan' \in ScanState
             /\ scan'.at = n + 1
             /\ \/ scan'.found = n + 1 /\ n + 1 = Len(o.text)
                \/ /\ scan'.found = 0 /\ n + 1 # Len(o.text)
                   /\ scan'.inString <=> InString(o, n + 1)
                   /\ scan'.escaped <=> n + 1 \in o.escapes
                   /\ scan'.depth = Cardinality(Open(o, n + 1))
      PROVE  ScanInv'
  <2>1. scan'.at <= Len(Blob'.script)
    BY <1>2, <1>6, <1>7
  <2>2. scan'.found # 0 => scan'.found = Blob'.whole
    BY <1>1, <1>2, <1>4, <1>6, <1>7 DEF Scripted
  <2>3. scan'.found = 0 => scan'.at < Len(Blob'.object.text)
    BY <1>2, <1>4, <1>6, <1>7
  <2>4. Passed'
    BY <1>0, <1>2 DEF Passed
  <2>5. QED
    BY <1>2, <1>4, <1>7, <2>1, <2>2, <2>3, <2>4 DEF ScanInv, ScanKnows
<1> HIDE DEF o, n, c
<1>8. scan.at = n
  BY DEF n
<1>9. CASE InString(o, n)
  <2>2. n + 1 # Len(o.text) /\ Open(o, n + 1) = Open(o, n)
    BY <1>1, <1>3, <1>4, <1>9, CharAndBraces
  <2>3. /\ InString(o, n + 1) <=> n \in o.escapes \/ c # "q"
        /\ n + 1 \in o.escapes <=> n \notin o.escapes /\ c = "\\"
    BY <1>1, <1>3, <1>4, <1>5, <1>9, CharInString
  <2>4. /\ scan' \in ScanState
        /\ scan'.at = n + 1 /\ scan'.found = 0 /\ scan'.depth = scan.depth
        /\ scan'.escaped = (~scan.escaped /\ c = "\\")
        /\ scan'.inString = (scan.escaped \/ c # "q")
    BY <1>2, <1>3, <1>8, <1>9, ScannedInString
  <2>5. QED
    BY <1>3, <1>7, <2>2, <2>3, <2>4
<1>10. CASE ~InString(o, n)
  <2>1. /\ n \notin o.escapes /\ n + 1 \notin o.escapes
        /\ InString(o, n + 1) <=> c = "q"
    BY <1>1, <1>3, <1>4, <1>5, <1>10, CharOutside
  <2>2. ~scan.inString /\ ~scan.escaped
    BY <1>3, <1>10, <2>1
  <2>3. IsFiniteSet(Open(o, n)) /\ Cardinality(Open(o, n)) \in Nat
    BY <1>1, <1>3, <1>4, OpenAtEnds
  <2>4. /\ Cardinality(Open(o, n + 1)) \in Nat
        /\ Cardinality(Open(o, n + 1)) = 0 <=> n + 1 \in {0, Len(o.text)}
    BY <1>1, <1>6, OpenAtEnds
  <2>5. CASE c = "q"
    <3>1. n + 1 # Len(o.text) /\ Open(o, n + 1) = Open(o, n)
      BY <1>1, <1>3, <1>4, <1>5, <2>5, CharAndBraces
    <3>2. scan.depth \in Int
      BY <1>3 DEF ScanState
    <3>3. /\ scan' \in ScanState /\ scan'.at = n + 1 /\ scan'.found = 0
          /\ scan'.depth = scan.depth /\ scan'.escaped = scan.escaped /\ scan'.inString = TRUE
      BY <1>2, <1>3, <1>8, <2>2, <2>5, <3>2, ScannedOutside DEF Deeper
    <3>4. QED
      BY <1>3, <1>7, <2>1, <2>2, <2>5, <3>1, <3>3
  <2> DEFINE d == Cardinality(Open(o, n + 1))
  <2> HIDE DEF d
  <2>6. ASSUME c # "q", Deeper(scan.depth, c, d),
               c # "}" => n + 1 # Len(o.text)
        PROVE  ScanInv'
    <3>0. d \in Nat /\ (d = 0 <=> n + 1 = Len(o.text)) /\ d = Cardinality(Open(o, n + 1))
      BY <1>4, <2>4 DEF d
    <3>1. d \in Int /\ ~scan.inString /\ scan.found = 0 /\ scan \in ScanState
      BY <1>2, <1>3, <2>2, <3>0
    <3>2. /\ scan'.at = n + 1 /\ scan'.depth = d
          /\ scan'.found = IF c = "}" /\ d = 0 THEN n + 1 ELSE 0
          /\ scan'.escaped = scan.escaped /\ scan'.inString = FALSE
          /\ scan' \in ScanState
      <4>1. Deeper(scan.depth, c, d)
        BY <2>6
      <4>2. /\ Scanned(scan, c) \in ScanState
            /\ Scanned(scan, c).at = scan.at + 1
            /\ Scanned(scan, c).found = IF c = "}" /\ d = 0 THEN scan.at + 1 ELSE 0
            /\ Scanned(scan, c).depth = d
            /\ Scanned(scan, c).escaped = scan.escaped
            /\ Scanned(scan, c).inString = (c = "q")
        BY <3>1, <4>1, ScannedOutside
      <4>3. QED
        BY <1>2, <1>8, <2>6, <4>2
    <3>4. CASE n + 1 = Len(o.text)
      <4>1. c = "}" /\ d = 0
        BY <2>6, <3>0, <3>4
      <4>2. QED
        BY <1>7, <3>2, <3>4, <4>1
    <3>5. CASE n + 1 # Len(o.text)
      <4>1. d # 0
        BY <3>0, <3>5
      <4>2. QED
        BY <1>7, <2>1, <2>2, <2>6, <3>0, <3>2, <3>5, <4>1
    <3>6. QED
      BY <3>4, <3>5
  <2>7. CASE c = "{"
    <3>1. n + 1 # Len(o.text)
      BY <1>1, <1>3, <1>4, <1>5, <1>10, <2>7, CharAndBraces
    <3>2. PICK b : b \notin Open(o, n) /\ Open(o, n + 1) = Open(o, n) \cup {b}
      BY <1>1, <1>3, <1>4, <1>5, <1>10, <2>7, CharAndBraces
    <3>3. Cardinality(Open(o, n + 1)) = Cardinality(Open(o, n)) + 1
      BY <2>3, <3>2, FS_AddElement
    <3>4. Deeper(scan.depth, c, d)
      BY <1>3, <2>3, <2>7, <3>3 DEF d, Deeper
    <3>5. QED
      BY <2>6, <2>7, <3>1, <3>4
  <2>8. CASE c = "}"
    <3>1. PICK b \in Open(o, n) : Open(o, n + 1) = Open(o, n) \ {b}
      BY <1>1, <1>3, <1>4, <1>5, <1>10, <2>8, CharAndBraces
    <3>2. Cardinality(Open(o, n + 1)) = Cardinality(Open(o, n)) - 1
      BY <2>3, <3>1, FS_RemoveElement
    <3>3. Deeper(scan.depth, c, d)
      BY <1>3, <2>3, <2>8, <3>2 DEF d, Deeper
    <3>4. QED
      BY <2>6, <2>8, <3>3
  <2>9. CASE c # "q" /\ c # "{" /\ c # "}"
    <3>1. n + 1 # Len(o.text) /\ Open(o, n + 1) = Open(o, n)
      BY <1>1, <1>3, <1>4, <1>5, <2>9, CharAndBraces
    <3>2. Deeper(scan.depth, c, d)
      BY <1>3, <2>3, <2>9, <3>1 DEF d, Deeper
    <3>3. QED
      BY <2>6, <2>9, <3>1, <3>2
  <2>10. QED
    BY <2>5, <2>7, <2>8, <2>9
<1>11. QED
  BY <1>9, <1>10

\* The scan of a text begins outside of strings and braces.
LEMMA ScanBegins ==
    ASSUME NEW b, WellFormed(b.object), Scripted(b)
    PROVE  /\ Scanner \in ScanState /\ Scanner.at <= Len(b.script) /\ Scanner.found = 0
           /\ Scanner.at < Len(b.object.text)
           /\ Scanner.inString <=> InString(b.object, Scanner.at)
           /\ Scanner.escaped <=> Scanner.at \in b.object.escapes
           /\ Scanner.depth = Cardinality(Open(b.object, Scanner.at))
<1>1. Len(b.object.text) \in Nat /\ Len(b.object.text) > 0
  BY LastBrace
<1>2. /\ Cardinality(Open(b.object, 0)) = 0
      /\ ~InString(b.object, 0) /\ 0 \notin b.object.escapes
  BY <1>1, OpenAtEnds
<1>3. Len(b.script) \in Nat
  BY DEF Scripted
<1>4. QED
  BY <1>1, <1>2, <1>3 DEF Scanner, ScanState

\* It ends at the last brace of the object, if the text has it.
LEMMA ScanEnds ==
    ASSUME PageOk, ScanInv, Ended
    PROVE  scan.found = Blob.whole /\ (Loads <=> Loadable(Blob)) /\ Passed
<1>1. Passed /\ ScanKnows /\ (scan.found # 0 \/ scan.at = Len(Blob.script))
  BY DEF Ended, ScanInv
<1>2. Scripted(Blob) /\ Len(Blob.object.text) \in Nat /\ Len(Blob.script) \in Nat
  BY <1>1, BlobFacts DEF Passed
<1>3. scan.found = Blob.whole
  BY <1>1, <1>2 DEF ScanKnows, Scripted
<1>4. QED
  BY <1>1, <1>3 DEF Loads, Loadable

LEMMA PageNext == PageOk /\ [Next]_vars => PageOk'
  BY DEF PageOk, Next, vars, ScanChar, CutObject, NextMarker, NoState, Expand, Candidate,
         NoCandidate, AskSource, Ask, Validate

LEMMA ScanNext == PageOk /\ ScanInv /\ [Next]_vars => ScanInv'
<1> SUFFICES ASSUME PageOk, ScanInv, [Next]_vars PROVE ScanInv'
  OBVIOUS
<1>1. CASE ScanChar
  BY <1>1, ScanStep
<1>2. CASE NextMarker
  <2>1. /\ Ended /\ ~Loads /\ mark < Len(page.blobs) /\ mark' = mark + 1
        /\ scan' = Scanner /\ page' = page
    BY <1>2 DEF NextMarker
  <2>2. Passed /\ ~Loadable(page.blobs[mark])
    BY <2>1, ScanEnds DEF Blob
  <2>3. Len(page.blobs) \in Nat /\ DOMAIN page.blobs = 1..Len(page.blobs)
    BY PageFacts DEF Sourced
  <2>4. Passed'
    <3>1. mark \in 1..Len(page.blobs)
      BY <2>2, <2>3 DEF Passed
    <3>2. mark + 1 \in DOMAIN page.blobs
      BY <2>1, <2>3, <3>1
    <3>3. ASSUME NEW m \in DOMAIN page.blobs, m < mark + 1 PROVE ~Loadable(page.blobs[m])
      <4>1. m < mark \/ m = mark
        BY <2>3, <3>1, <3>3
      <4>2. QED
        BY <2>2, <4>1 DEF Passed
    <3>4. QED
      BY <2>1, <3>2, <3>3 DEF Passed
  <2>5. PageOk'
    BY <1>2, PageNext
  <2>6. WellFormed(Blob'.object) /\ Scripted(Blob')
    <3>1. \A m \in DOMAIN page'.blobs :
             WellFormed(page'.blobs[m].object) /\ Scripted(page'.blobs[m])
      BY <2>5, PagesAssumption DEF PageOk
    <3>2. QED
      BY <2>4, <3>1 DEF Passed, Blob
  <2>7. ScanKnows'
    BY <2>1, <2>6, ScanBegins DEF ScanKnows
  <2>8. QED
    BY <2>4, <2>7 DEF ScanInv
<1>3. CASE CutObject \/ NoState \/ Expand \/ Candidate \/ NoCandidate \/ AskSource \/ Validate
  BY <1>3 DEF ScanInv, CutObject, NoState, Expand, Candidate, NoCandidate, AskSource, Ask, Validate
<1>4. CASE UNCHANGED vars
  BY <1>4 DEF vars, ScanInv, Passed, ScanKnows, Blob
<1>5. QED
  BY <1>1, <1>2, <1>3, <1>4 DEF Next

LEMMA ScanInit == Init => PageOk /\ ScanInv
<1> SUFFICES ASSUME Init PROVE PageOk /\ ScanInv
  OBVIOUS
<1>1. PageOk /\ mark = 1 /\ scan = Scanner /\ (pc = "scan" => page.blobs # <<>>)
  BY DEF Init, PageOk
<1>2. Len(page.blobs) \in Nat /\ DOMAIN page.blobs = 1..Len(page.blobs)
  BY <1>1, PageFacts DEF Sourced
<1>3. ASSUME pc = "scan" PROVE Passed /\ ScanKnows
  <2>1. Len(page.blobs) # 0
    <3>1. \A m \in Pages : m.blobs # <<>> => Len(m.blobs) # 0
      BY PagesAssumption DEF Sourced
    <3>2. QED
      BY <1>1, <1>3, <3>1 DEF PageOk
  <2>2. 1 \in DOMAIN page.blobs /\ \A m \in DOMAIN page.blobs : ~(m < 1)
    BY <1>2, <2>1
  <2>3. Passed
    BY <1>1, <2>2 DEF Passed
  <2>4. WellFormed(Blob.object) /\ Scripted(Blob)
    BY <1>1, <2>3, BlobFacts DEF Passed
  <2>5. QED
    BY <1>1, <2>3, <2>4, ScanBegins DEF ScanKnows
<1>4. QED
  BY <1>1, <1>3 DEF ScanInv

\* Whatever its strings hold and whatever follows it, the object is cut out
\* whole, and one that is cut short has no end (_find_matching_brace).
THEOREM ObjectIsCut == Spec => []BraceEndsObject
<1>1. PageOk /\ ScanInv => BraceEndsObject
  BY ScanEnds DEF BraceEndsObject
<1>2. QED
  BY <1>1, PageNext, ScanInit, ScanNext, PTL DEF Spec

-----------------------------------------------------------------------------
(* The search of the state *)

\* A set of numbers that is not empty has a least one.
LEMMA Least ==
    ASSUME NEW S \in SUBSET Nat, S # {}
    PROVE  Min(S) \in S /\ \A y \in S : Min(S) <= y
<1>1. PICK m \in S : TRUE
  OBVIOUS
<1> DEFINE Up(k) == S \cap 0..k
           Ups   == {s \in SUBSET (0..m) : s # {} /\ \E k \in Nat : s = Up(k)}
<1>2. IsWellFoundedOn(StrictSubsetOrdering(0..m), SUBSET (0..m))
  <2>1. IsFiniteSet(0..m)
    BY FS_Interval
  <2>2. QED
    BY <2>1, FS_StrictSubsetOrderingWellFounded, FS_FiniteSubsetsOfFinite
<1>3. Up(m) \in Ups
  BY <1>1
<1>4. PICK s \in Ups : \A t \in Ups : <<t, s>> \notin StrictSubsetOrdering(0..m)
  <2>1. Ups \subseteq SUBSET (0..m) /\ Ups # {}
    BY <1>3
  <2> HIDE DEF Ups
  <2>2. QED
    BY <1>2, <2>1, WFMin
<1>5. PICK x : x \in s
  OBVIOUS
<1>6. x \in S /\ x \in Nat
  BY <1>4, <1>5
<1>7. ASSUME NEW y \in S, y < x PROVE FALSE
  <2>1. PICK k \in Nat : s = Up(k)
    BY <1>4
  <2>2. x <= k /\ x <= m
    BY <1>5, <1>6, <2>1
  <2>3. y \in Up(y) /\ x \notin Up(y) /\ Up(y) \subseteq s /\ Up(y) \subseteq 0..m
    BY <1>6, <1>7, <2>1, <2>2
  <2>4. Up(y) \in Ups
    BY <1>7, <2>3
  <2>5. Up(y) # s
    BY <1>5, <2>3
  <2>6. <<Up(y), s>> \in StrictSubsetOrdering(0..m)
    BY <2>3, <2>4, <2>5 DEF StrictSubsetOrdering
  <2>7. QED
    BY <1>4, <2>4, <2>6
<1>8. \A y \in S : x <= y
  BY <1>6, <1>7
<1>9. QED
  BY <1>6, <1>8 DEF Min

LEMMA Nodes == \A n \in DOMAIN Below : IsNode(n)
  BY PagesAssumption

\* The state of a page is that of the marker behind whose predecessors there
\* is nothing to load,
LEMMA StateOfFirst ==
    ASSUME PageOk, Passed, Loadable(Blob)
    PROVE  State(page) = Blob.state
<1>1. DOMAIN page.blobs \subseteq Nat
  BY PageFacts DEF Sourced
<1>2. WithState(page) \in SUBSET Nat /\ mark \in WithState(page)
  BY <1>1 DEF WithState, Passed, Blob
<1>3. Min(WithState(page)) \in WithState(page) /\ Min(WithState(page)) <= mark
  BY <1>2, Least
<1>4. \A m \in WithState(page) : ~(m < mark)
  BY DEF WithState, Passed
<1>5. PICK m : m = Min(WithState(page))
  OBVIOUS
<1>6. m = mark
  <2>1. m \in Nat /\ mark \in Nat /\ m <= mark /\ ~(m < mark)
    BY <1>2, <1>3, <1>4, <1>5
  <2>2. QED
    BY <2>1
<1>7. QED
  BY <1>2, <1>5, <1>6 DEF State, Blob

\* and without one there is no product in it.
LEMMA NothingInNoState ==
    ASSUME PageOk, WithState(page) = {}
    PROVE  Likely(State(page)) = {}
<1>1. State(page) = NoNode /\ NoNode \in DOMAIN Below
  BY PageFacts DEF Sourced, State
<1>2. Below[NoNode] = {NoNode} \cup UNION {Below[NoNode.kids[i]] : i \in DOMAIN NoNode.kids}
  BY <1>1, Nodes DEF IsNode
<1>3. DOMAIN NoNode.kids = {}
  BY DEF NoNode, Node
<1>4. Below[NoNode] = {NoNode}
  BY <1>2, <1>3
<1>5. ~ProductLike(NoNode)
  BY DEF ProductLike, NoNode, Node
<1>6. QED
  BY <1>1, <1>4, <1>5 DEF Likely

SearchInv ==
    /\ pc = "search" => stack \in Seq(DOMAIN Below)
    /\ NoProductLost

LEMMA Reached ==
    ASSUME NEW n \in DOMAIN Below, ProductLike(n)
    PROVE  n \in Likely(n)
  BY Nodes DEF IsNode, Likely

\* The products below a node that is none itself are those below its values.
LEMMA LikelySplits ==
    ASSUME NEW n \in DOMAIN Below, ~ProductLike(n), NEW x
    PROVE  x \in Likely(n) <=> \E i \in DOMAIN n.kids : x \in Likely(n.kids[i])
<1>1. Below[n] = {n} \cup UNION {Below[n.kids[i]] : i \in DOMAIN n.kids}
  BY Nodes DEF IsNode
<1>2. x \in Below[n] <=> x = n \/ \E i \in DOMAIN n.kids : x \in Below[n.kids[i]]
  BY <1>1
<1>3. QED
  BY <1>2 DEF Likely

LEMMA ExpandStep ==
    ASSUME SearchInv, Expand
    PROVE  SearchInv'
<1> DEFINE size == Len(stack)
           last == stack[size]
           kids == last.kids
           more == Len(kids)
<1>1. /\ pc = "search" /\ stack # <<>> /\ ~ProductLike(last)
      /\ stack' = Front(stack) \o kids /\ UNCHANGED <<page, pc>>
  BY DEF Expand, Last
<1>2. stack \in Seq(DOMAIN Below)
  BY <1>1 DEF SearchInv
<1>3. size \in Nat /\ size > 0 /\ DOMAIN stack = 1..size
  BY <1>1, <1>2, LenProperties, EmptySeq
<1>4. last \in DOMAIN Below
  BY <1>2, <1>3, ElementOfSeq
<1>5. kids \in Seq(DOMAIN Below)
  BY <1>4, Nodes DEF IsNode
<1>6. more \in Nat /\ DOMAIN kids = 1..more
  BY <1>5, LenProperties
<1>7. /\ Front(stack) \in Seq(DOMAIN Below) /\ Len(Front(stack)) = size - 1
      /\ \A i \in 1..(size - 1) : Front(stack)[i] = stack[i]
  <2>1. \A i \in 1..(size - 1) : stack[i] \in DOMAIN Below
    BY <1>2, <1>3, ElementOfSeq
  <2>2. /\ SubSeq(stack, 1, size - 1) \in Seq(DOMAIN Below)
        /\ Len(SubSeq(stack, 1, size - 1)) = IF 1 <= size - 1 THEN size - 1 - 1 + 1 ELSE 0
        /\ \A i \in 1..(size - 1 - 1 + 1) : SubSeq(stack, 1, size - 1)[i] = stack[1 + i - 1]
    BY <1>3, <2>1, SubSeqProperties
  <2>3. QED
    BY <1>3, <2>2 DEF Front
<1> HIDE DEF size, kids, more
<1>8. /\ stack' \in Seq(DOMAIN Below) /\ Len(stack') = size - 1 + more
      /\ \A i \in 1..(size - 1 + more) :
            stack'[i] = IF i <= size - 1 THEN Front(stack)[i] ELSE kids[i - (size - 1)]
  <2> DEFINE rest == Front(stack)
  <2>1. Len(kids) = more /\ Len(rest) = size - 1
    BY <1>7 DEF more
  <2>2. rest \in Seq(DOMAIN Below)
    BY <1>7
  <2>3. stack' = rest \o kids
    BY <1>1
  <2> HIDE DEF rest
  <2>4. /\ rest \o kids \in Seq(DOMAIN Below)
        /\ Len(rest \o kids) = Len(rest) + Len(kids)
        /\ \A i \in 1..Len(rest) + Len(kids) :
              (rest \o kids)[i] = IF i <= Len(rest) THEN rest[i] ELSE kids[i - Len(rest)]
    BY <1>5, <2>2, ConcatProperties
  <2>5. /\ stack' \in Seq(DOMAIN Below) /\ Len(stack') = size - 1 + more
        /\ \A i \in 1..(size - 1 + more) :
              stack'[i] = IF i <= size - 1 THEN rest[i] ELSE kids[i - (size - 1)]
    BY <2>1, <2>3, <2>4
  <2>6. QED
    BY <2>5 DEF rest
<1>9. DOMAIN stack' = 1..(size - 1 + more)
  BY <1>8, LenProperties
<1>10. ASSUME NEW x
       PROVE  (\E i \in DOMAIN stack' : x \in Likely(stack'[i]))
                 <=> \E i \in DOMAIN stack : x \in Likely(stack[i])
  <2>1. x \in Likely(last) <=> \E i \in 1..more : x \in Likely(kids[i])
    BY <1>1, <1>4, <1>6, LikelySplits DEF kids
  <2>2. last = stack[size]
    OBVIOUS
  <2> HIDE DEF last
  <2>3. ASSUME NEW i \in DOMAIN stack', x \in Likely(stack'[i])
        PROVE  \E j \in DOMAIN stack : x \in Likely(stack[j])
    <3>1. CASE i <= size - 1
      BY <1>3, <1>6, <1>7, <1>8, <1>9, <2>3, <3>1
    <3>2. CASE ~(i <= size - 1)
      <4>1. i - (size - 1) \in 1..more /\ stack'[i] = kids[i - (size - 1)]
        BY <1>3, <1>6, <1>8, <1>9, <3>2
      <4>2. x \in Likely(last)
        BY <2>1, <2>3, <4>1
      <4>3. QED
        BY <1>3, <2>2, <4>2
    <3>3. QED
      BY <3>1, <3>2
  <2>4. ASSUME NEW j \in DOMAIN stack, x \in Likely(stack[j])
        PROVE  \E i \in DOMAIN stack' : x \in Likely(stack'[i])
    <3>1. CASE j # size
      <4>1. j \in 1..(size - 1 + more) /\ j \in 1..(size - 1) /\ j <= size - 1
        BY <1>3, <1>6, <3>1
      <4>2. stack'[j] = stack[j]
        BY <1>7, <1>8, <4>1
      <4>3. QED
        BY <1>9, <2>4, <4>1, <4>2
    <3>2. CASE j = size
      <4>1. PICK i \in 1..more : x \in Likely(kids[i])
        BY <2>1, <2>2, <2>4, <3>2
      <4>2. PICK k : k = size - 1 + i
        OBVIOUS
      <4>3. k \in 1..(size - 1 + more) /\ ~(k <= size - 1) /\ k - (size - 1) = i
        BY <1>3, <1>6, <4>2
      <4>4. stack'[k] = kids[i]
        BY <1>8, <4>3
      <4>5. QED
        BY <1>9, <4>1, <4>3, <4>4
    <3>3. QED
      BY <3>1, <3>2
  <2>5. QED
    BY <2>3, <2>4
<1>11. Likely(State(page)) = UNION {Likely(stack[i]) : i \in DOMAIN stack}
  BY <1>1 DEF SearchInv, NoProductLost
<1>12. \A x : x \in Likely(State(page)) <=> \E i \in DOMAIN stack' : x \in Likely(stack'[i])
  BY <1>10, <1>11
<1>13. Likely(State(page)) = UNION {Likely(stack'[i]) : i \in DOMAIN stack'}
  BY <1>12
<1>14. QED
  BY <1>1, <1>8, <1>13 DEF SearchInv, NoProductLost

LEMMA SearchNext == PageOk /\ ScanInv /\ SearchInv /\ [Next]_vars => SearchInv'
<1> SUFFICES ASSUME PageOk, ScanInv, SearchInv, [Next]_vars PROVE SearchInv'
  OBVIOUS
<1>1. ASSUME pc' # "search" PROVE SearchInv'
  BY <1>1 DEF SearchInv, NoProductLost
<1>2. CASE CutObject
  <2>1. stack' = <<Blob.state>> /\ page' = page
    BY <1>2 DEF CutObject
  <2>2. State(page) = Blob.state /\ State(page) \in DOMAIN Below
    <3>1. Passed /\ Loadable(Blob)
      BY <1>2, ScanEnds DEF CutObject
    <3>2. QED
      BY <3>1, StateOfFirst, PageFacts DEF Sourced
  <2>3. /\ <<State(page)>> \in Seq(DOMAIN Below) /\ DOMAIN <<State(page)>> = {1}
        /\ <<State(page)>>[1] = State(page)
    BY <2>2
  <2>4. UNION {Likely(<<State(page)>>[i]) : i \in {1}} = Likely(State(page))
    BY <2>3
  <2>5. stack' = <<State(page)>> /\ State(page)' = State(page)
    BY <2>1, <2>2
  <2>6. QED
    BY <2>3, <2>4, <2>5 DEF SearchInv, NoProductLost
<1>3. CASE Expand
  BY <1>3, ExpandStep
<1>4. CASE ScanChar \/ NextMarker \/ NoState \/ Candidate \/ NoCandidate \/ AskSource \/ Validate
  BY <1>1, <1>4 DEF ScanChar, Ended, NextMarker, NoState, Candidate, NoCandidate, AskSource, Ask, Validate
<1>5. CASE UNCHANGED vars
  BY <1>5 DEF vars, SearchInv, NoProductLost
<1>6. QED
  BY <1>2, <1>3, <1>4, <1>5 DEF Next

LEMMA SearchInit == Init => SearchInv
  BY DEF Init, SearchInv, NoProductLost

\* However deep a product stands and behind whatever siblings, the search
\* reaches it (_find_product_candidate).
THEOREM ProductsAreReached == Spec => []NoProductLost
<1>1. SearchInv => NoProductLost
  BY DEF SearchInv
<1>2. Spec => []PageOk /\ []ScanInv
  BY ScanInit, PageNext, ScanNext, PTL DEF Spec
<1>3. QED
  BY <1>1, <1>2, SearchInit, SearchNext, PTL DEF Spec

-----------------------------------------------------------------------------
(* Prices *)

\* What is a number and not negative is a price.
LEMMA Decimal ==
    ASSUME NEW n \in Nat \cup {NoPrice, Absent}
    PROVE  /\ ToDecimal(n) \in Nat \cup {NoPrice}
           /\ ToDecimal(n) = NoPrice <=> n < 0
<1>1. CASE n < 0
  <2>1. n \in Int
    BY SMT DEF NoPrice, Absent
  <2>2. ~(n > 100000000)
    BY <1>1, <2>1, SMT
  <2>3. ToDecimal(n) = NoPrice
    BY <1>1, <2>2, SMT DEF ToDecimal
  <2>4. QED
    BY <1>1, <2>3
<1>2. CASE ~(n < 0)
  <2>1. n \in Nat
    BY <1>2, SMT DEF NoPrice, Absent
  <2>2. Round(n, 10) \in Nat
    BY <2>1, SMT DEF Round
  <2>3. Round(n, 1000000) \in Nat
    BY <2>1, SMT DEF Round
  <2>4. ToDecimal(n) \in Nat
    BY <1>2, <2>1, <2>2, <2>3, SMT DEF ToDecimal
  <2>5. NoPrice \notin Nat
    BY SMT DEF NoPrice
  <2>6. QED
    BY <1>2, <2>4, <2>5, SMT
<1>3. QED
  BY <1>1, <1>2, SMT

\* Either unit is understood to the cent.
LEMMA Understood ==
    ASSUME NEW cents \in Nat, NEW n \in Nat, Means(n, cents)
    PROVE  ToDecimal(n) = cents
<1>1. CASE n = 10 * cents /\ cents <= 10000000
  <2>1. ~(n < 0) /\ ~(n > 100000000)
    BY <1>1, SMT
  <2>2. n \div 10 = cents /\ n % 10 = 0
    BY <1>1, SMT
  <2>3. Round(n, 10) = cents
    BY <2>2, SMT DEF Round
  <2>4. QED
    BY <2>1, <2>3, SMT DEF ToDecimal
<1>2. CASE n = 1000000 * cents /\ cents > 100
  <2>1. ~(n < 0) /\ n > 100000000
    BY <1>2, SMT
  <2>2. n \div 1000000 = cents /\ n % 1000000 = 0
    BY <1>2, SMT
  <2>3. Round(n, 1000000) = cents
    BY <2>2, SMT DEF Round
  <2>4. QED
    BY <2>1, <2>3, SMT DEF ToDecimal
<1>3. QED
  BY <1>1, <1>2, SMT DEF Means

-----------------------------------------------------------------------------
(* The sources, one after the other *)

\* The state holds no product, or one that is unusable.
StateSpent == Likely(State(page)) # {} => \E n \in Likely(State(page)) : FromState(n) = NoOffer

LEMMA NodeTyped ==
    ASSUME PageOk, NEW n \in Likely(State(page))
    PROVE  /\ n.title \in Titles \ {"absent"} /\ n.price \in Nat \cup {NoPrice}
           /\ n \in Below[State(page)]
<1>1. State(page) \in DOMAIN Below
  BY PageFacts DEF Sourced
<1>2. n \in Below[State(page)] /\ ProductLike(n)
  BY DEF Likely
<1>3. n \in DOMAIN Below
  BY <1>1, <1>2, Nodes DEF IsNode
<1>4. n.title \in Titles /\ n.price \in Prices
  BY <1>3, Nodes DEF IsNode
<1>5. QED
  BY <1>2, <1>4 DEF ProductLike, Prices

\* No item sells when there is no offer; the first that does makes it.
LEMMA JsonLd ==
    ASSUME PageOk
    PROVE  \/ FromJsonLd = NoOffer /\ \A i \in DOMAIN page.items : ~Sells(page.items[i])
           \/ \E i \in DOMAIN page.items :
                 /\ Sells(page.items[i])
                 /\ FromJsonLd = Offer("jsonld", "text", ItemPrice(page.items[i]))
<1> DEFINE selling == {i \in DOMAIN page.items : Sells(page.items[i])}
<1>1. selling \in SUBSET Nat
  BY PageFacts DEF Sourced
<1>2. CASE selling = {}
  <2>1. FromJsonLd = NoOffer
    BY <1>2 DEF FromJsonLd
  <2>2. QED
    BY <1>2, <2>1
<1>3. CASE selling # {}
  <2>1. Min(selling) \in selling
    BY <1>1, <1>3, Least
  <2>2. FromJsonLd = Offer("jsonld", "text", ItemPrice(page.items[Min(selling)]))
    BY <1>3 DEF FromJsonLd
  <2>3. PICK i : i = Min(selling)
    OBVIOUS
  <2>4. i \in DOMAIN page.items /\ Sells(page.items[i])
    BY <2>1, <2>3
  <2>5. QED
    BY <2>2, <2>3, <2>4
<1>4. QED
  BY <1>2, <1>3

LEMMA ItemTyped ==
    ASSUME PageOk, NEW i \in DOMAIN page.items
    PROVE  /\ FirstOffer(page.items[i]) \in Nat \cup {NoPrice}
           /\ page.items[i].price \in Nat \cup {NoPrice}
           /\ ItemPrice(page.items[i]) = NoPrice <=>
                 FirstOffer(page.items[i]) = NoPrice /\ page.items[i].price = NoPrice
<1> DEFINE item == page.items[i]
<1>1. IsItem(item)
  BY PageFacts DEF Sourced
<1>2. FirstOffer(item) \in Nat \cup {NoPrice}
  <2>1. CASE item.offers = <<>>
    BY <2>1 DEF FirstOffer
  <2>2. CASE item.offers # <<>>
    <3>1. Len(item.offers) # 0 => 1 \in DOMAIN item.offers
      BY <1>1 DEF IsItem
    <3>2. Len(item.offers) # 0
      BY <1>1, <2>2 DEF IsItem
    <3>3. QED
      BY <1>1, <2>2, <3>1, <3>2 DEF IsItem, FirstOffer
  <2>3. QED
    BY <2>1, <2>2
<1>3. item.price \in Nat \cup {NoPrice}
  BY <1>1 DEF IsItem
<1>4. /\ ToDecimal(FirstOffer(item)) = NoPrice <=> FirstOffer(item) = NoPrice
      /\ ToDecimal(item.price) = NoPrice <=> item.price = NoPrice
  BY <1>2, <1>3, Decimal DEF NoPrice
<1>5. QED
  BY <1>2, <1>3, <1>4 DEF ItemPrice

LEMMA TagTyped ==
    ASSUME PageOk
    PROVE  /\ page.meta.price \in Nat \cup {NoPrice} /\ page.api.price \in Nat \cup {NoPrice}
           /\ page.meta.title \in Titles /\ page.api.title \in Titles
           /\ ToDecimal(page.meta.price) = NoPrice <=> page.meta.price = NoPrice
           /\ ToDecimal(page.api.price) = NoPrice <=> page.api.price = NoPrice
<1>1. IsTag(page.meta) /\ IsTag(page.api)
  BY PageFacts DEF Sourced
<1>2. /\ page.meta.price \in Nat \cup {NoPrice} /\ page.api.price \in Nat \cup {NoPrice}
      /\ page.meta.title \in Titles /\ page.api.title \in Titles
  BY <1>1 DEF IsTag
<1>3. /\ ToDecimal(page.meta.price) = NoPrice <=> page.meta.price = NoPrice
      /\ ToDecimal(page.api.price) = NoPrice <=> page.api.price = NoPrice
  BY <1>2, Decimal DEF NoPrice
<1>4. QED
  BY <1>2, <1>3

\* An offer is none only if its source has none.
LEMMA Offered ==
    ASSUME NEW from \in {"state", "jsonld", "meta", "api", "url"}, NEW title, NEW price
    PROVE  /\ Offer(from, title, price) # NoOffer
           /\ Offer(from, title, price).from = from
           /\ Offer(from, title, price).title = title
           /\ Offer(from, title, price).price = price
  BY DEF Offer, NoOffer

-----------------------------------------------------------------------------
(* Pages that mean one price *)

\* What a source of such a page offers is that price.
Right(o) == o = NoOffer \/ (o.price = page.cents /\ o.title # "blank" /\ o.from # "url")

LEMMA OnePrice ==
    ASSUME PageOk, page.cents # 0
    PROVE  /\ page.cents \in Nat /\ page.cents > 0
           /\ \A n \in Likely(State(page)) : Right(FromState(n))
           /\ Right(FromJsonLd) /\ Right(FromMeta) /\ Right(FromItemApi)
<1>1. Priced(page)
  BY PageFacts
<1>2. page.cents \in Nat /\ page.cents > 0
  BY <1>1 DEF Priced
<1>3. ASSUME NEW n \in Likely(State(page)) PROVE Right(FromState(n))
  <2>1. n.price \in Nat \cup {NoPrice} /\ n \in Below[State(page)]
    BY NodeTyped
  <2>2. Means(n.price, page.cents) /\ (n.title = "blank" => n.price < 0)
    BY <1>1, <2>1 DEF Priced
  <2>3. CASE n.price = NoPrice
    <3>1. FromState(n) = NoOffer
      BY <2>3, Decimal DEF FromState, NoPrice
    <3>2. QED
      BY <3>1 DEF Right
  <2>4. CASE n.price \in Nat
    <3>1. ToDecimal(n.price) = page.cents /\ n.title # "blank"
      BY <1>2, <2>2, <2>4, Understood
    <3>2. FromState(n) = NoOffer \/ FromState(n) = Offer("state", n.title, page.cents)
      BY <3>1 DEF FromState
    <3>3. QED
      BY <3>1, <3>2, Offered DEF Right
  <2>5. QED
    BY <2>1, <2>3, <2>4
<1>4. Right(FromJsonLd)
  <2>1. ASSUME NEW i \in DOMAIN page.items, Sells(page.items[i])
        PROVE  ItemPrice(page.items[i]) = page.cents
    <3> DEFINE a == FirstOffer(page.items[i])
               b == page.items[i].price
    <3>1. a \in Nat \cup {NoPrice} /\ b \in Nat \cup {NoPrice}
      BY ItemTyped
    <3>2. Means(a, page.cents) /\ Means(b, page.cents)
      BY <1>1 DEF Priced
    <3>3. ItemPrice(page.items[i]) # NoPrice
      BY <2>1 DEF Sells
    <3>4. ItemPrice(page.items[i]) = IF ToDecimal(a) # NoPrice THEN ToDecimal(a) ELSE ToDecimal(b)
      BY DEF ItemPrice
    <3> HIDE DEF a, b
    <3>5. (a \in Nat => ToDecimal(a) = page.cents) /\ (b \in Nat => ToDecimal(b) = page.cents)
      BY <1>2, <3>2, Understood
    <3>6. (a \notin Nat => ToDecimal(a) = NoPrice) /\ (b \notin Nat => ToDecimal(b) = NoPrice)
      BY <3>1, Decimal DEF NoPrice
    <3>7. QED
      BY <3>3, <3>4, <3>5, <3>6
  <2>2. CASE FromJsonLd = NoOffer
    BY <2>2 DEF Right
  <2>3. CASE FromJsonLd # NoOffer
    <3>1. PICK i \in DOMAIN page.items :
              /\ Sells(page.items[i])
              /\ FromJsonLd = Offer("jsonld", "text", ItemPrice(page.items[i]))
      BY <2>3, JsonLd
    <3>2. FromJsonLd = Offer("jsonld", "text", page.cents)
      BY <2>1, <3>1
    <3>3. QED
      BY <3>2, Offered DEF Right
  <2>4. QED
    BY <2>2, <2>3
<1>5. Right(FromMeta)
  <2>1. Means(page.meta.price, page.cents) /\ (page.meta.title = "blank" => page.meta.price < 0)
    BY <1>1 DEF Priced
  <2>2. page.meta.price \in Nat \cup {NoPrice}
    BY TagTyped
  <2>3. CASE page.meta.price = NoPrice
    BY <2>3, TagTyped DEF FromMeta, Right
  <2>4. CASE page.meta.price \in Nat
    <3>1. ToDecimal(page.meta.price) = page.cents /\ page.meta.title # "blank"
      BY <1>2, <2>1, <2>4, Understood
    <3>2. FromMeta = NoOffer \/ FromMeta = Offer("meta", page.meta.title, page.cents)
      BY <3>1 DEF FromMeta
    <3>3. QED
      BY <3>1, <3>2, Offered DEF Right
  <2>5. QED
    BY <2>2, <2>3, <2>4
<1>6. Right(FromItemApi)
  <2>1. Means(page.api.price, page.cents)
    BY <1>1 DEF Priced
  <2>2. page.api.price \in Nat \cup {NoPrice}
    BY TagTyped
  <2>3. CASE page.api.price = NoPrice
    BY <2>3, TagTyped DEF FromItemApi, Right
  <2>4. CASE page.api.price \in Nat
    <3>1. ToDecimal(page.api.price) = page.cents
      BY <1>2, <2>1, <2>4, Understood
    <3>2. FromItemApi = NoOffer \/ FromItemApi = Offer("api", "text", page.cents)
      BY <3>1 DEF FromItemApi
    <3>3. QED
      BY <3>2, Offered DEF Right
  <2>5. QED
    BY <2>2, <2>3, <2>4
<1>7. QED
  BY <1>2, <1>3, <1>4, <1>5, <1>6

\* One of them has it.
LEMMA OneSource ==
    ASSUME PageOk, page.cents # 0, StateSpent, FromJsonLd = NoOffer, FromMeta = NoOffer,
           FromItemApi = NoOffer
    PROVE  FALSE
<1>1. \/ Likely(State(page)) # {} /\ \A n \in Likely(State(page)) : Shown(n.title, n.price)
      \/ \E i \in DOMAIN page.items : Sells(page.items[i])
      \/ Shown(page.meta.title, page.meta.price)
      \/ page.ids /\ Shown(page.api.title, page.api.price)
  BY PageFacts DEF Priced
<1>2. CASE Likely(State(page)) # {} /\ \A n \in Likely(State(page)) : Shown(n.title, n.price)
  <2>1. PICK n \in Likely(State(page)) : FromState(n) = NoOffer
    BY <1>2 DEF StateSpent
  <2>2. n.title = "text" /\ n.price >= 0
    BY <1>2 DEF Shown
  <2>3. n.price \in Nat \cup {NoPrice}
    BY NodeTyped
  <2>4. ToDecimal(n.price) # NoPrice
    BY <2>2, <2>3, Decimal DEF NoPrice
  <2>5. FromState(n) = Offer("state", "text", ToDecimal(n.price))
    BY <2>2, <2>4 DEF FromState
  <2>6. QED
    BY <2>1, <2>5, Offered
<1>3. CASE \E i \in DOMAIN page.items : Sells(page.items[i])
  <2>1. \A i \in DOMAIN page.items : ~Sells(page.items[i])
    BY JsonLd, Offered
  <2>2. QED
    BY <1>3, <2>1
<1>4. CASE Shown(page.meta.title, page.meta.price)
  <2>1. page.meta.title = "text" /\ page.meta.price # NoPrice
    BY <1>4 DEF Shown, NoPrice
  <2>2. FromMeta = Offer("meta", "text", ToDecimal(page.meta.price))
    BY <2>1, TagTyped DEF FromMeta
  <2>3. QED
    BY <2>2, Offered
<1>5. CASE page.ids /\ Shown(page.api.title, page.api.price)
  <2>1. page.api.title = "text" /\ page.api.price # NoPrice
    BY <1>5 DEF Shown, NoPrice
  <2>2. FromItemApi = Offer("api", "text", ToDecimal(page.api.price))
    BY <1>5, <2>1, TagTyped DEF FromItemApi
  <2>3. QED
    BY <2>2, Offered
<1>6. QED
  BY <1>1, <1>2, <1>3, <1>4, <1>5

-----------------------------------------------------------------------------
(* The order of the sources *)

AtUrl == offer.from = "url"

\* A source is asked when those before it have nothing to offer.
SourceInv ==
    /\ pc \in {"scan", "search", "jsonld", "meta", "api", "url"} => offer = NoOffer
    /\ pc \in {"jsonld", "meta", "api", "url"} \/ AtUrl => StateSpent
    /\ pc \in {"meta", "api", "url"} \/ AtUrl => FromJsonLd = NoOffer
    /\ pc \in {"api", "url"} \/ AtUrl => FromMeta = NoOffer
    /\ pc = "url" \/ AtUrl => FromItemApi = NoOffer
    /\ AtUrl => page.ids
    /\ pc = "validate" /\ page.cents # 0 => offer # NoOffer /\ Right(offer)
    /\ PriceUnits

\* A source is asked, or the candidate of the state taken.
LEMMA AnswerStep ==
    ASSUME PageOk, SourceInv, UNCHANGED page, NEW answer, offer' = answer,
           answer # NoOffer, pc' = "validate", answer.from # "url",
           page.cents # 0 => Right(answer)
    PROVE  SourceInv'
<1>1. ~AtUrl'
  BY DEF AtUrl
<1>2. page'.cents # 0 => offer' # NoOffer /\ Right(offer)'
  BY DEF Right
<1>3. QED
  BY <1>1, <1>2 DEF SourceInv, PriceUnits

LEMMA StateSame ==
    ASSUME UNCHANGED page
    PROVE  /\ StateSpent' <=> StateSpent
           /\ FromJsonLd' = FromJsonLd /\ FromMeta' = FromMeta /\ FromItemApi' = FromItemApi
  BY DEF StateSpent, FromJsonLd, FromMeta, FromItemApi

LEMMA SourceNext ==
    ASSUME PageOk, ScanInv, SearchInv, SourceInv, [Next]_vars
    PROVE  SourceInv'
<1> USE StateSame
<1>1. CASE ScanChar \/ Expand
  BY <1>1 DEF ScanChar, Expand, SourceInv, AtUrl, PriceUnits
<1>2. CASE CutObject \/ NextMarker \/ NoState
  <2>1. pc = "scan" /\ offer = NoOffer /\ UNCHANGED <<page, offer>>
    BY <1>2 DEF CutObject, NextMarker, NoState, Ended, SourceInv
  <2>2. offer'.from # "url"
    BY <2>1 DEF NoOffer, Offer
  <2>3. CASE CutObject \/ NextMarker
    BY <2>1, <2>2, <2>3 DEF CutObject, NextMarker, SourceInv, AtUrl, PriceUnits
  <2>4. CASE NoState
    <3>1. Passed /\ ~Loadable(page.blobs[mark]) /\ mark = Len(page.blobs) /\ pc' = "jsonld"
      BY <2>4, ScanEnds DEF NoState, Blob
    <3>2. Len(page.blobs) \in Nat /\ DOMAIN page.blobs = 1..Len(page.blobs)
      BY PageFacts DEF Sourced
    <3>3. \A m \in DOMAIN page.blobs : m < mark \/ m = mark
      BY <3>1, <3>2
    <3>4. WithState(page) = {}
      BY <3>1, <3>3 DEF WithState, Passed
    <3>5. StateSpent
      BY <3>4, NothingInNoState DEF StateSpent
    <3>6. QED
      BY <2>1, <2>2, <3>1, <3>5 DEF SourceInv, AtUrl, PriceUnits
  <2>5. QED
    BY <1>2, <2>3, <2>4
<1>3. CASE Candidate
  <2> DEFINE n == Last(stack)
  <2>1. /\ pc = "search" /\ stack # <<>> /\ ProductLike(n) /\ offer' = FromState(n)
        /\ pc' = IF offer' = NoOffer THEN "jsonld" ELSE "validate"
        /\ UNCHANGED page
    BY <1>3 DEF Candidate
  <2>2. stack \in Seq(DOMAIN Below)
    BY <2>1 DEF SearchInv
  <2>3. Len(stack) \in DOMAIN stack /\ n = stack[Len(stack)] /\ n \in DOMAIN Below
    <3>1. Len(stack) \in Nat /\ Len(stack) > 0 /\ DOMAIN stack = 1..Len(stack)
      BY <2>1, <2>2, LenProperties, EmptySeq
    <3>2. Len(stack) \in 1..Len(stack)
      BY <3>1
    <3>3. stack[Len(stack)] \in DOMAIN Below
      BY <2>2, <3>2, ElementOfSeq
    <3>4. QED
      BY <3>1, <3>2, <3>3 DEF Last
  <2>4. n \in Likely(n)
    BY <2>1, <2>3, Reached
  <2>5. Likely(State(page)) = UNION {Likely(stack[i]) : i \in DOMAIN stack}
    BY <2>1 DEF SearchInv, NoProductLost
  <2>6. n \in Likely(State(page))
    BY <2>3, <2>4, <2>5
  <2> HIDE DEF n
  <2>7. CASE FromState(n) = NoOffer
    <3>1. StateSpent
      BY <2>6, <2>7 DEF StateSpent
    <3>2. offer' = NoOffer /\ offer'.from # "url"
      BY <2>1, <2>7 DEF NoOffer, Offer
    <3>3. QED
      BY <2>1, <3>1, <3>2 DEF SourceInv, AtUrl, PriceUnits
  <2>8. CASE FromState(n) # NoOffer
    <3>1. FromState(n).from # "url"
      BY <2>8, Offered DEF FromState
    <3>2. page.cents # 0 => Right(FromState(n))
      BY <2>6, OnePrice
    <3>3. QED
      BY <2>1, <2>8, <3>1, <3>2, AnswerStep
  <2>9. QED
    BY <2>7, <2>8
<1>4. CASE NoCandidate
  <2>1. pc = "search" /\ stack = <<>> /\ pc' = "jsonld" /\ UNCHANGED <<page, offer>>
    BY <1>4 DEF NoCandidate
  <2>2. Likely(State(page)) = UNION {Likely(stack[i]) : i \in DOMAIN stack}
    BY <2>1 DEF SearchInv, NoProductLost
  <2>3. Likely(State(page)) = {}
    BY <2>1, <2>2
  <2>4. StateSpent
    BY <2>3 DEF StateSpent
  <2>5. offer = NoOffer /\ offer'.from # "url"
    BY <2>1 DEF SourceInv, NoOffer, Offer
  <2>6. QED
    BY <2>1, <2>4, <2>5 DEF SourceInv, AtUrl, PriceUnits
<1>5. CASE Ask("jsonld", FromJsonLd, "meta")
  <2>1. /\ pc = "jsonld" /\ offer' = FromJsonLd /\ UNCHANGED page
        /\ pc' = IF FromJsonLd = NoOffer THEN "meta" ELSE "validate"
    BY <1>5 DEF Ask
  <2>2. CASE FromJsonLd = NoOffer
    <3>1. offer' = NoOffer /\ offer'.from # "url"
      BY <2>1, <2>2 DEF NoOffer, Offer
    <3>2. QED
      BY <2>1, <2>2, <3>1 DEF SourceInv, AtUrl, PriceUnits
  <2>3. CASE FromJsonLd # NoOffer
    <3>1. FromJsonLd.from # "url"
      BY <2>3, Offered, JsonLd
    <3>2. page.cents # 0 => Right(FromJsonLd)
      BY OnePrice
    <3>3. QED
      BY <2>1, <2>3, <3>1, <3>2, AnswerStep
  <2>4. QED
    BY <2>2, <2>3
<1>6. CASE Ask("meta", FromMeta, "api")
  <2>1. /\ pc = "meta" /\ offer' = FromMeta /\ UNCHANGED page
        /\ pc' = IF FromMeta = NoOffer THEN "api" ELSE "validate"
    BY <1>6 DEF Ask
  <2>2. CASE FromMeta = NoOffer
    <3>1. offer' = NoOffer /\ offer'.from # "url"
      BY <2>1, <2>2 DEF NoOffer, Offer
    <3>2. QED
      BY <2>1, <2>2, <3>1 DEF SourceInv, AtUrl, PriceUnits
  <2>3. CASE FromMeta # NoOffer
    <3>1. FromMeta.from # "url"
      BY <2>3, Offered DEF FromMeta
    <3>2. page.cents # 0 => Right(FromMeta)
      BY OnePrice
    <3>3. QED
      BY <2>1, <2>3, <3>1, <3>2, AnswerStep
  <2>4. QED
    BY <2>2, <2>3
<1>7. CASE Ask("api", FromItemApi, "url")
  <2>1. /\ pc = "api" /\ offer' = FromItemApi /\ UNCHANGED page
        /\ pc' = IF FromItemApi = NoOffer THEN "url" ELSE "validate"
    BY <1>7 DEF Ask
  <2>2. CASE FromItemApi = NoOffer
    <3>1. offer' = NoOffer /\ offer'.from # "url"
      BY <2>1, <2>2 DEF NoOffer, Offer
    <3>2. QED
      BY <2>1, <2>2, <3>1 DEF SourceInv, AtUrl, PriceUnits
  <2>3. CASE FromItemApi # NoOffer
    <3>1. FromItemApi.from # "url"
      BY <2>3, Offered DEF FromItemApi
    <3>2. page.cents # 0 => Right(FromItemApi)
      BY OnePrice
    <3>3. QED
      BY <2>1, <2>3, <3>1, <3>2, AnswerStep
  <2>4. QED
    BY <2>2, <2>3
<1>8. CASE Ask("url", FromUrl, "done")
  <2>1. /\ pc = "url" /\ offer' = FromUrl /\ UNCHANGED page
        /\ pc' = IF FromUrl = NoOffer THEN "done" ELSE "validate"
    BY <1>8 DEF Ask
  <2>2. /\ StateSpent /\ FromJsonLd = NoOffer /\ FromMeta = NoOffer /\ FromItemApi = NoOffer
    BY <2>1 DEF SourceInv
  <2>3. page.cents = 0
    BY <2>2, OneSource
  <2>4. offer'.from = "url" => page.ids
    BY <2>1 DEF FromUrl, NoOffer, Offer
  <2>5. QED
    BY <2>1, <2>2, <2>3, <2>4 DEF SourceInv, AtUrl, PriceUnits
<1>9. CASE Validate
  <2>1. /\ pc = "validate" /\ pc' = "done" /\ UNCHANGED page
        /\ offer' = IF offer.title = "blank" \/ offer.price <= 0 THEN NoOffer ELSE offer
    BY <1>9 DEF Validate
  <2>2. AtUrl' => AtUrl
    BY <2>1 DEF AtUrl, NoOffer, Offer
  <2>3. ASSUME page.cents # 0 PROVE offer'.price = page.cents
    <3>1. offer.price = page.cents /\ offer.title # "blank"
      BY <2>1, <2>3 DEF SourceInv, Right
    <3>2. page.cents \in Nat /\ page.cents > 0
      BY <2>3, OnePrice
    <3>3. QED
      BY <2>1, <3>1, <3>2
  <2>4. QED
    BY <2>1, <2>2, <2>3 DEF SourceInv, PriceUnits
<1>10. CASE UNCHANGED vars
  BY <1>10 DEF vars, SourceInv, AtUrl, PriceUnits, Right
<1>11. QED
  BY <1>1, <1>2, <1>3, <1>4, <1>5, <1>6, <1>7, <1>8, <1>9, <1>10 DEF Next, AskSource

LEMMA SourceInit == Init => SourceInv
<1> SUFFICES ASSUME Init PROVE SourceInv
  OBVIOUS
<1>1. /\ pc \in {"scan", "jsonld"} /\ (pc = "jsonld" => page.blobs = <<>>)
      /\ offer = NoOffer /\ offer.from # "url"
  BY DEF Init, NoOffer, Offer
<1>2. ASSUME pc = "jsonld" PROVE StateSpent
  <2>1. WithState(page) = {}
    BY <1>1, <1>2 DEF WithState
  <2>2. QED
    BY <2>1, ScanInit, NothingInNoState DEF StateSpent
<1>3. QED
  BY <1>1, <1>2 DEF SourceInv, AtUrl, PriceUnits

LEMMA SourceCorrect == Spec => []SourceInv /\ []PageOk
<1>1. Spec => []PageOk
  BY ScanInit, PageNext, PTL DEF Spec
<1>2. Spec => []ScanInv
  BY <1>1, ScanInit, ScanNext, PTL DEF Spec
<1>3. Spec => []SearchInv
  BY <1>1, <1>2, SearchInit, SearchNext, PTL DEF Spec
<1>4. QED
  BY <1>1, <1>2, <1>3, SourceInit, SourceNext, PTL DEF Spec

\* Whatever source a page shows its price in, and in whichever unit, it is
\* kept to the cent (_to_decimal and the order of the sources in parse).
THEOREM PricesAreUnderstood == Spec => []PriceUnits
<1>1. SourceInv => PriceUnits
  BY DEF SourceInv
<1>2. QED
  BY <1>1, SourceCorrect, PTL

\* The price of 1.00 is made up only for a page on which no source shows a
\* title and a price (parse, _parse_url_fallback).
THEOREM MadeUpPriceComesLast == Spec => []MadeUpPriceIsLastResort
<1>1. ASSUME PageOk, SourceInv PROVE MadeUpPriceIsLastResort
  <2> SUFFICES ASSUME offer.from = "url" PROVE MadeUpPriceIsLastResort
    BY DEF MadeUpPriceIsLastResort
  <2>1. /\ StateSpent /\ FromJsonLd = NoOffer /\ FromMeta = NoOffer /\ FromItemApi = NoOffer
        /\ page.ids
    BY <1>1 DEF SourceInv, AtUrl
  <2>2. ASSUME NEW i \in DOMAIN page.items,
               page.items[i].product /\ page.items[i].title = "text"
        PROVE  FirstOffer(page.items[i]) = NoPrice /\ page.items[i].price = NoPrice
    <3>1. ~Sells(page.items[i])
      BY <1>1, <2>1, JsonLd, Offered
    <3>2. ItemPrice(page.items[i]) = NoPrice
      BY <2>2, <3>1 DEF Sells
    <3>3. QED
      BY <1>1, <3>2, ItemTyped
  <2>3. page.meta.title = "absent" \/ page.meta.price = NoPrice
    BY <1>1, <2>1, TagTyped, Offered DEF FromMeta
  <2>4. page.api.title # "text" \/ page.api.price = NoPrice
    BY <1>1, <2>1, TagTyped, Offered DEF FromItemApi
  <2>5. ASSUME Likely(State(page)) # {}
        PROVE  \E n \in Likely(State(page)) : n.title = "other" \/ n.price = NoPrice
    <3>1. PICK n \in Likely(State(page)) : FromState(n) = NoOffer
      BY <2>1, <2>5 DEF StateSpent
    <3>2. n.title \in Titles \ {"absent"} /\ n.price \in Nat \cup {NoPrice}
      BY <1>1, NodeTyped
    <3>3. n.title \notin {"blank", "text"} \/ ToDecimal(n.price) = NoPrice
      BY <3>1, Offered DEF FromState
    <3>4. n.price = NoPrice \/ n.title = "other"
      BY <3>2, <3>3, Decimal DEF Titles, NoPrice
    <3>5. QED
      BY <3>4
  <2>6. QED
    BY <2>2, <2>3, <2>4, <2>5 DEF MadeUpPriceIsLastResort
<1>2. QED
  BY <1>1, SourceCorrect, PTL
=============================================================================
