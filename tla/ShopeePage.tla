----------------------------- MODULE ShopeePage -----------------------------
(***************************************************************************)
(* ShopeeProductParser.parse of app/utils/shopee_parser.py, as             *)
(* ShopeeProvider.fetch_product calls it for one page: behind one marker   *)
(* after the other a state object is looked for, the first that loads is   *)
(* searched for a product, then the JSON-LD, the meta tags and the item    *)
(* API are asked, and at last an offer is made up from the URL at a price  *)
(* of 1.00.  The first source with an offer decides, and                   *)
(* app/utils/shopee_validator.py accepts or refuses it.                    *)
(*                                                                         *)
(* A step is one turn of a loop of the parser or one source asked.  A page *)
(* is what its sources hold: the loading of JSON and the expressions that  *)
(* find tags are taken to work.  Prices are in thousandths where they are  *)
(* read and in cents where they are kept.  A price that is not a number    *)
(* (NaN) raises; no page here shows one.                                   *)
(***************************************************************************)
EXTENDS Integers, Sequences, SequencesExt

CONSTANTS
    Pages,   \* the pages that may be fetched, each a record of
             \*   blobs   what follows each marker found, in their order:
             \*     script  the text from the brace after the marker on
             \*     object  the object that it begins with, as written
             \*     whole   where that ends in the script; 0 if cut short
             \*     json    whether it loads as JSON
             \*     state   the object loaded, a node
             \*   items   the JSON-LD items, in order
             \*   meta    the meta tags
             \*   api     the answer of the item API
             \*   ids     whether the URL shows the ids of shop and item
             \*   cents   the price all sources mean; 0 if they vary
    Below    \* of each node of a state: it and the nodes in it

VARIABLES
    page,
    pc,       \* what parse is about to do
    mark,     \* the marker whose text is scanned
    scan,     \* local state of _find_matching_brace
    stack,    \* local state of _find_product_candidate
    offer     \* the ProductPayload

vars == <<page, pc, mark, scan, stack, offer>>

Blob == page.blobs[mark]

\* Values that are no price.
Absent  == -2   \* the key is missing
NoPrice == -1   \* null, or no number

Offer(from, title, price) == [from |-> from, title |-> title, price |-> price]
NoOffer == Offer("none", "absent", NoPrice)

\* A node of the state: a dictionary, or a list, which has no keys.
Node(title, price, image, kids) ==
    [title |-> title, price |-> price, image |-> image, kids |-> kids]
NoNode == Node("absent", Absent, FALSE, <<>>)

-----------------------------------------------------------------------------
(* What a page is *)

(* JSON text, as its grammar has it: where its strings begin and end, which *)
(* backslashes escape the next character, and which braces belong together. *)
(* "q" stands for the quotation mark.                                       *)
At(object, c) == {i \in 1..Len(object.text) : object.text[i] = c}

Inside(object) ==
    {i \in 1..Len(object.text) : \E s \in object.strings : s[1] < i /\ i < s[2]}

Spans(S, size) == \A s \in S : s \in (1..size) \X (1..size) /\ s[1] < s[2]

WellFormed(object) ==
    LET Bare(c) == At(object, c) \ Inside(object)
    IN /\ Len(object.text) \in Nat
       /\ Spans(object.strings \cup object.braces, Len(object.text))
       /\ <<1, Len(object.text)>> \in object.braces
       /\ \A s, u \in object.strings : s = u \/ s[2] < u[1] \/ u[2] < s[1]
       /\ \A b, c \in object.braces : b[1] = c[1] \/ b[2] = c[2] => b = c
       /\ Bare("q") = {s[1] : s \in object.strings} \cup {s[2] : s \in object.strings}
       /\ Bare("{") = {b[1] : b \in object.braces}
       /\ Bare("}") = {b[2] : b \in object.braces}
       /\ object.escapes =
             {i \in At(object, "\\") \cap Inside(object) : i - 1 \notin object.escapes}
       /\ \A i \in object.escapes : i + 1 \in Inside(object)
       /\ \A i \in At(object, "q") \cap Inside(object) : i - 1 \in object.escapes

(* The script shows the object and whatever follows it, or is cut short.    *)
Scripted(b) ==
    /\ Len(b.script) \in Nat
    /\ \A i \in 1..Len(b.script) :
          i <= Len(b.object.text) => b.script[i] = b.object.text[i]
    /\ b.whole = IF Len(b.object.text) <= Len(b.script) THEN Len(b.object.text) ELSE 0

(* The state of a page is that of the first marker with one.                *)
Loadable(b) == b.whole # 0 /\ b.json
WithState(p) == {m \in DOMAIN p.blobs : Loadable(p.blobs[m])}
State(p) == IF WithState(p) = {} THEN NoNode ELSE p.blobs[Min(WithState(p))].state

Prices == Nat \cup {Absent, NoPrice}
Titles == {"absent", "blank", "text", "other"}

IsNode(n) ==
    /\ n.title \in Titles /\ n.price \in Prices /\ n.image \in BOOLEAN
    /\ n.kids \in Seq(DOMAIN Below)
    /\ Below[n] = {n} \cup UNION {Below[n.kids[i]] : i \in DOMAIN n.kids}
    /\ Below[n] \subseteq DOMAIN Below

IsTag(tag) == tag.title \in Titles \ {"other"} /\ tag.price \in Nat \cup {NoPrice}

IsItem(item) ==
    /\ item.product \in BOOLEAN /\ item.title \in Titles
    /\ Len(item.offers) \in Nat /\ DOMAIN item.offers = 1..Len(item.offers)
    /\ \A k \in DOMAIN item.offers : item.offers[k] \in Nat \cup {NoPrice}
    /\ item.price \in Nat \cup {NoPrice}

Sourced(p) ==
    /\ Len(p.blobs) \in Nat /\ DOMAIN p.blobs = 1..Len(p.blobs)
    /\ \A m \in DOMAIN p.blobs : p.blobs[m].json \in BOOLEAN
    /\ State(p) \in DOMAIN Below
    /\ Len(p.items) \in Nat /\ DOMAIN p.items = 1..Len(p.items)
    /\ \A i \in DOMAIN p.items : IsItem(p.items[i])
    /\ IsTag(p.meta) /\ IsTag(p.api)
    /\ p.ids \in BOOLEAN

-----------------------------------------------------------------------------
(* Helpers *)

\* quantize, which rounds halves to the even neighbour.
Round(n, unit) ==
    LET q == n \div unit
        r == 2 * (n % unit)
    IN IF r > unit \/ (r = unit /\ q % 2 = 1) THEN q + 1 ELSE q

\* _to_decimal: above 100000 a price is taken to be in 1/100000.
ToDecimal_AtLimit(n) ==   \* mutant: at 100000 already
    CASE n < 0          -> NoPrice
      [] n >= 100000000 -> Round(n, 1000000)
      [] OTHER          -> Round(n, 10)
ToDecimal(n) ==
    CASE n < 0         -> NoPrice
      [] n > 100000000 -> Round(n, 1000000)
      [] OTHER         -> Round(n, 10)

Scanner == [depth |-> 0, inString |-> FALSE, escaped |-> FALSE, at |-> 0, found |-> 0]

\* One turn of _find_matching_brace.
Scanned_NoEscape(state, char) ==   \* mutant: a backslash is like any character
    LET s == [state EXCEPT !.at = @ + 1]
        d == s.depth + (CASE char = "{" -> 1 [] char = "}" -> -1 [] OTHER -> 0)
    IN CASE char = "q" -> [s EXCEPT !.inString = ~@]
         [] s.inString /\ char # "q" -> s
         [] OTHER -> [s EXCEPT !.depth = d,
                               !.found = IF char = "}" /\ d = 0 THEN s.at ELSE 0]
Scanned(state, char) ==
    LET s == [state EXCEPT !.at = @ + 1]
        d == s.depth + (CASE char = "{" -> 1 [] char = "}" -> -1 [] OTHER -> 0)
    IN CASE s.inString -> [s EXCEPT !.escaped = ~@ /\ char = "\\",
                                    !.inString = s.escaped \/ char # "q"]
         [] ~s.inString /\ char = "q" -> [s EXCEPT !.inString = TRUE]
         [] OTHER -> [s EXCEPT !.depth = d,
                               !.found = IF char = "}" /\ d = 0 THEN s.at ELSE 0]

ProductLike(node) == node.title # "absent" /\ node.price # Absent /\ node.image
Likely(node) == {n \in Below[node] : ProductLike(n)}

\* The price of its first offer, whatever the others say, or else its own.
FirstOffer(item) == IF item.offers = <<>> THEN NoPrice ELSE item.offers[1]
ItemPrice(item) ==
    LET first == ToDecimal(FirstOffer(item))
    IN IF first # NoPrice THEN first ELSE ToDecimal(item.price)

Sells(item) == item.product /\ item.title = "text" /\ ItemPrice(item) # NoPrice

(* A page with one price shows it in full units up to 100000.00, in          *)
(* 1/100000 above 1.00, or not at all; and at least one source shows it.     *)
Means(n, cents) ==
    \/ n < 0
    \/ n = 10 * cents /\ cents <= 10000000
    \/ n = 1000000 * cents /\ cents > 100

Shown(title, n) == title = "text" /\ n >= 0

Priced(p) ==
    p.cents # 0 =>
        /\ p.cents \in Nat
        /\ \A n \in Below[State(p)] : Means(n.price, p.cents) /\ (n.title = "blank" => n.price < 0)
        /\ \A i \in DOMAIN p.items :
              Means(FirstOffer(p.items[i]), p.cents) /\ Means(p.items[i].price, p.cents)
        /\ Means(p.meta.price, p.cents) /\ (p.meta.title = "blank" => p.meta.price < 0)
        /\ Means(p.api.price, p.cents)
        /\ \/ Likely(State(p)) # {} /\ \A n \in Likely(State(p)) : Shown(n.title, n.price)
           \/ \E i \in DOMAIN p.items : Sells(p.items[i])
           \/ Shown(p.meta.title, p.meta.price)
           \/ p.ids /\ Shown(p.api.title, p.api.price)

ASSUME PagesAssumption ==
    /\ \A n \in DOMAIN Below : IsNode(n)
    /\ \A o \in UNION {{p.blobs[m].object : m \in DOMAIN p.blobs} : p \in Pages} : WellFormed(o)
    /\ \A p \in Pages : Sourced(p) /\ Priced(p) /\ \A m \in DOMAIN p.blobs : Scripted(p.blobs[m])

-----------------------------------------------------------------------------
(* The offer of each source *)

FromState(node) ==
    IF node.title \in {"blank", "text"} /\ ToDecimal(node.price) # NoPrice
      THEN Offer("state", node.title, ToDecimal(node.price)) ELSE NoOffer

FromJsonLd_First ==   \* mutant: the search ends with the first product
    LET products == {i \in DOMAIN page.items : page.items[i].product}
        first    == page.items[Min(products)]
    IN IF products # {} /\ Sells(first) THEN Offer("jsonld", "text", ItemPrice(first))
                                        ELSE NoOffer
FromJsonLd ==
    LET selling == {i \in DOMAIN page.items : Sells(page.items[i])}
    IN IF selling = {} THEN NoOffer
       ELSE Offer("jsonld", "text", ItemPrice(page.items[Min(selling)]))

FromMeta ==
    IF page.meta.title # "absent" /\ ToDecimal(page.meta.price) # NoPrice
      THEN Offer("meta", page.meta.title, ToDecimal(page.meta.price)) ELSE NoOffer

\* Asked only with both ids; whatever fails there is no offer.
FromItemApi ==
    IF page.ids /\ page.api.title = "text" /\ ToDecimal(page.api.price) # NoPrice
      THEN Offer("api", "text", ToDecimal(page.api.price)) ELSE NoOffer

FromUrl == IF page.ids THEN Offer("url", "text", 100) ELSE NoOffer

-----------------------------------------------------------------------------
Init ==
    /\ page  \in Pages
    /\ pc    = IF page.blobs = <<>> THEN "jsonld" ELSE "scan"
    /\ mark  = 1
    /\ scan  = Scanner
    /\ stack = <<>>
    /\ offer = NoOffer

ScanChar ==
    /\ pc = "scan"
    /\ scan.found = 0 /\ scan.at < Len(Blob.script)
    /\ scan' = Scanned(scan, Blob.script[scan.at + 1])
    /\ UNCHANGED <<page, pc, mark, stack, offer>>

\* The text up to the brace is loaded.  What is not JSON raises
\* JSONDecodeError and counts as no state, like a text without an end.
Ended == pc = "scan" /\ (scan.found # 0 \/ scan.at = Len(Blob.script))
Loads == scan.found # 0 /\ scan.found = Blob.whole /\ Blob.json

CutObject ==
    /\ Ended /\ Loads
    /\ pc' = "search"
    /\ stack' = <<Blob.state>>
    /\ UNCHANGED <<page, mark, scan, offer>>

NextMarker ==
    /\ Ended /\ ~Loads
    /\ mark < Len(page.blobs)
    /\ mark' = mark + 1
    /\ scan' = Scanner
    /\ UNCHANGED <<page, pc, stack, offer>>

NoState ==
    /\ Ended /\ ~Loads
    /\ mark = Len(page.blobs)
    /\ pc' = "jsonld"
    /\ UNCHANGED <<page, mark, scan, stack, offer>>

\* The last entry of the stack is taken; the values in a node go on top.
Expand_OneBranch ==   \* mutant: the values in a node replace the stack
    /\ pc = "search"
    /\ stack # <<>> /\ ~ProductLike(Last(stack))
    /\ stack' = IF Last(stack).kids = <<>> THEN Front(stack) ELSE Last(stack).kids
    /\ UNCHANGED <<page, pc, mark, scan, offer>>
Expand ==
    /\ pc = "search"
    /\ stack # <<>> /\ ~ProductLike(Last(stack))
    /\ stack' = Front(stack) \o Last(stack).kids
    /\ UNCHANGED <<page, pc, mark, scan, offer>>

\* The first node that looks like a product decides for the state.
Candidate ==
    /\ pc = "search"
    /\ stack # <<>> /\ ProductLike(Last(stack))
    /\ offer' = FromState(Last(stack))
    /\ pc' = IF offer' = NoOffer THEN "jsonld" ELSE "validate"
    /\ UNCHANGED <<page, mark, scan, stack>>

NoCandidate ==
    /\ pc = "search"
    /\ stack = <<>>
    /\ pc' = "jsonld"
    /\ UNCHANGED <<page, mark, scan, stack, offer>>

Ask(at, answer, next) ==
    /\ pc = at
    /\ offer' = answer
    /\ pc' = IF answer = NoOffer THEN next ELSE "validate"
    /\ UNCHANGED <<page, mark, scan, stack>>

AskSource ==
    \/ Ask("jsonld", FromJsonLd, "meta")
    \/ Ask("meta", FromMeta, "api")
    \/ Ask("api", FromItemApi, "url")
    \/ Ask("url", FromUrl, "done")

\* validate_payload; a refusal is 422.
Validate ==
    /\ pc = "validate"
    /\ offer' = IF offer.title = "blank" \/ offer.price <= 0 THEN NoOffer ELSE offer
    /\ pc' = "done"
    /\ UNCHANGED <<page, mark, scan, stack>>

Next == \/ ScanChar \/ CutObject \/ NextMarker \/ NoState
        \/ Expand \/ Candidate \/ NoCandidate
        \/ AskSource \/ Validate

Spec == Init /\ [][Next]_vars

-----------------------------------------------------------------------------
(* Properties *)

\* The object after a marker is cut out whole: the brace that is found is its
\* last one, whatever its strings hold and whatever text follows, and an
\* object that is cut short has none.
BraceEndsObject == Ended => scan.found = Blob.whole

\* A price in 1/100000 is understood above 1.00 and a price in full units up
\* to 100000.00, both to the cent.
PriceUnits == pc = "done" /\ page.cents # 0 => offer.price = page.cents

\* The state searched is that of the first marker with an object that loads,
\* and the search loses no product: until one is found, each of them is still
\* below an entry of the stack, however deep and behind whatever siblings.
NoProductLost ==
    pc = "search" => Likely(State(page)) = UNION {Likely(stack[i]) : i \in DOMAIN stack}

\* The made-up price of 1.00 is the last resort: no item shows a title and a
\* price of its own or in its first offer, no tag and not the item API shows
\* them, and the state of the first marker with one holds no product, or one
\* that is unusable.  (Later offers of an item and the states of later markers
\* are never read: a page with its price there alone gets the made-up one.)
MadeUpPriceIsLastResort ==
    offer.from = "url" =>
        /\ \A i \in DOMAIN page.items :
              page.items[i].product /\ page.items[i].title = "text" =>
                  FirstOffer(page.items[i]) = NoPrice /\ page.items[i].price = NoPrice
        /\ page.meta.title = "absent" \/ page.meta.price = NoPrice
        /\ page.api.title # "text" \/ page.api.price = NoPrice
        /\ Likely(State(page)) # {} =>
              \E n \in Likely(State(page)) : n.title = "other" \/ n.price = NoPrice

=============================================================================
