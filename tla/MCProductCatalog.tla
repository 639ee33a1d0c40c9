-------------------------- MODULE MCProductCatalog --------------------------
(* Small instances of ProductCatalog. *)
EXTENDS ProductCatalog, TLC

CONSTANTS a, upper, query, other, slug, it

\* Five URLs.  query is a with a query string, other is another form of the
\* address of the same item, slug is a product whose address shows no item id,
\* and upper differs from slug in the case of its path.
SmallUrls   == {a, upper, query, other, slug}
SmallNormal == [u \in SmallUrls |-> IF u = query THEN a ELSE u]
SmallFolded == [u \in SmallUrls |-> IF u = upper THEN slug ELSE u]
SmallItem   == [u \in SmallUrls |-> IF u \in {slug, upper} THEN NoItem ELSE it]
OldProducts == <<query>>

Symmetry == Permutations(Requests)

=============================================================================
