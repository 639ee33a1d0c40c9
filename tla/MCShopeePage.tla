---------------------------- MODULE MCShopeePage ----------------------------
(* Pages for ShopeePage, and the nodes that are on them.                   *)
EXTENDS ShopeePage

Pairs(S) == {<<>>} \cup {<<x>> : x \in S} \cup (S \X S)

\* JSON text with what its grammar says of it, put together of pieces.
Piece(t) == [text |-> t, strings |-> {}, escapes |-> {}, braces |-> {}]
Moved(S, n) == {<<s[1] + n, s[2] + n>> : s \in S}
Join(p, q) ==
    LET n == Len(p.text) IN
    [text    |-> p.text \o q.text,
     strings |-> p.strings \cup Moved(q.strings, n),
     escapes |-> p.escapes \cup {i + n : i \in q.escapes},
     braces  |-> p.braces \cup Moved(q.braces, n)]

Quoted(p) ==
    [text    |-> <<"q">> \o p.text \o <<"q">>,
     strings |-> {<<1, Len(p.text) + 2>>},
     escapes |-> {i + 1 : i \in p.escapes},
     braces  |-> {}]
Braced(p) ==
    [text    |-> <<"{">> \o p.text \o <<"}">>,
     strings |-> Moved(p.strings, 1),
     escapes |-> {i + 1 : i \in p.escapes},
     braces  |-> Moved(p.braces, 1) \cup {<<1, Len(p.text) + 2>>}]

Empty   == Piece(<<>>)
Chars   == {Piece(<<c>>) : c \in {"{", "}", "."}}
           \cup {[Piece(<<"\\", c>>) EXCEPT !.escapes = {1}] : c \in {"q", "\\"}}
Simple  == {Quoted(p) : p \in Chars \cup {Empty}}
Strings == {Quoted(p) : p \in {Join(c, d) : c, d \in Chars \cup {Empty}}}
Inner   == {Braced(p) : p \in Strings \cup {Empty}}
Objects == Inner \cup {Braced(p) : p \in {Join(s, t) : s \in Simple, t \in Inner}}
Tails   == <<<<>>, <<"}">>, <<"q", "}">>, <<"{", "}">>>>

NoTag == [title |-> "absent", price |-> NoPrice]
Blank == [blobs |-> <<>>, items |-> <<>>, meta |-> NoTag, api |-> NoTag, ids |-> FALSE, cents |-> 0]

\* An object with one of the tails, or cut short behind n characters.
Cut(o, n) ==
    LET size == Len(o.text) IN
    [object |-> o,
     script |-> IF n < size THEN SubSeq(o.text, 1, n)
                ELSE o.text \o Tails[1 + ((n - size) % Len(Tails))],
     whole  |-> IF n < size THEN 0 ELSE size,
     json   |-> TRUE, state |-> NoNode]
Holding(node) == [Cut(Braced(Empty), 2) EXCEPT !.state = node]
Stated(node)  == [Blank EXCEPT !.blobs = <<Holding(node)>>]

\* Each object with each tail, and cut short at every place.
Scripts == {[Blank EXCEPT !.blobs = <<Cut(o, n)>>] : o \in Objects, n \in 0..17}

\* Nodes of a state: usable, unusable in several ways, and no product at all.
Buds   == {NoNode, Node("text", 5000, TRUE, <<>>), Node("text", NoPrice, TRUE, <<>>),
           Node("other", 5000, TRUE, <<>>)}
Leaves == Buds \cup {Node("blank", 5000, TRUE, <<>>), Node("text", 5000, FALSE, <<>>)}
Twigs  == {[NoNode EXCEPT !.kids = k] : k \in Pairs(Buds)}
Roots  == {[NoNode EXCEPT !.kids = k] : k \in Pairs(Leaves \cup Twigs)}
Trees  == {Stated(n) : n \in Roots}

\* Markers: their text has no end or is no JSON, or they have a state.
Good == Node("text", 5000, TRUE, <<>>)
Texts == {Cut(Braced(Quoted(Piece(<<"}">>))), n) : n \in 1..4}
         \cup {[Holding(Good) EXCEPT !.json = FALSE]}
         \cup {Holding(n) : n \in {Good, NoNode, Node("text", NoPrice, TRUE, <<>>)}}
Markers == {[Blank EXCEPT !.blobs = b, !.ids = TRUE] :
               b \in Pairs(Texts) \cup (Texts \X Texts \X Texts)}

Item(product, title, offers, price) ==
    [product |-> product, title |-> title, offers |-> offers, price |-> price]
Items == {Item(TRUE, "text", <<7000>>, NoPrice), Item(TRUE, "text", <<>>, 7000),
          Item(TRUE, "text", <<NoPrice, 9000>>, NoPrice), Item(TRUE, "blank", <<7000>>, NoPrice),
          Item(FALSE, "text", <<7000, 9000>>, NoPrice)}
Tags  == {NoTag} \cup {[title |-> t, price |-> c] : t \in {"blank", "text"}, c \in {NoPrice, 4, 7000}}
Shops ==
    {[Stated([NoNode EXCEPT !.kids = k]) EXCEPT !.items = i, !.meta = m,
                   !.api = a, !.ids = d] :
        k \in {<<x>> : x \in Leaves}, i \in Pairs(Items), m \in Tags,
        a \in {NoTag} \cup {[title |-> t, price |-> 7000] : t \in {"blank", "text"}}, d \in BOOLEAN}

\* One price, in the unit of each source.
InMicro(n) == Node("text", 1000000 * n, TRUE, <<>>)
MicroCents == (101..300) \cup (1900..2000)
Micro == {[Stated(InMicro(n)) EXCEPT !.cents = n] : n \in MicroCents}
Plain == {[Blank EXCEPT !.meta = [title |-> "text", price |-> 10 * n], !.cents = n] :
            n \in (1..200) \cup (9999900..10000000)}


\* One price in several sources, some of which show nothing usable.
MixedNodes == {Node("text", p, TRUE, <<>>) : p \in {NoPrice, 15000, 1500000000}}
Mixed == {[Stated(k) EXCEPT !.items = i, !.meta = m, !.ids = TRUE,
                        !.api = [title |-> "text", price |-> 1500000000], !.cents = 1500] :
            k \in MixedNodes,
            i \in Pairs({Item(TRUE, "blank", <<15000>>, NoPrice),
                         Item(TRUE, "text", <<NoPrice, 7000>>, 1500000000)}),
            m \in {NoTag, [title |-> "text", price |-> 15000]}}

AllPages == Scripts \cup Trees \cup Markers \cup Shops \cup Micro \cup Plain \cup Mixed

-----------------------------------------------------------------------------
(* What is below a node, these trees being of two levels. *)
AllNodes ==
    Leaves \cup Twigs \cup Roots \cup {InMicro(n) : n \in MicroCents} \cup MixedNodes
NodesBelow ==
    [n \in AllNodes |-> {n} \cup Range(n.kids) \cup UNION {Range(k.kids) : k \in Range(n.kids)}]
=============================================================================
