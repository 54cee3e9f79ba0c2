--------------------------- MODULE MCIndexSearch ---------------------------
(* A small instance of IndexSearch. *)
EXTENDS IndexSearch

\* /a/x, /a/b/y and /ab/z: "/ab/z" starts with "/a" and is not below it.
SmallName == {"ax", "aby", "abz"}
SmallAncestors == [n \in SmallName |->
                      CASE n = "ax" -> <<"a">> [] n = "aby" -> <<"a", "a/b">> [] n = "abz" -> <<"ab">>]
SmallStartsWith == {<<"ax", "a">>, <<"aby", "a">>, <<"aby", "a/b">>, <<"abz", "a">>, <<"abz", "ab">>}
SmallRank == [n \in SmallName |-> CASE n = "aby" -> 1 [] n = "ax" -> 2 [] n = "abz" -> 3]

\* abcd, case-sensitive; the same with alternatives; groups that share a trigram.
Plain == {{"t"}, {"u"}, {"v"}}
Either == {{"t", "u"}}
Shared == {{"t", "u"}, {"u", "v"}}
Long == {{"t"}, {"u"}, {"v"}, {"w"}}
SmallQueries == {Plain, Either, Shared, Long}

Post(t, u, v) == [g \in {"t", "u", "v", "w"} |-> CASE g = "t" -> t [] g = "u" -> u [] OTHER -> v]
SmallDatabases ==
    {[dict |-> TRUE, post |-> Post({0, 1}, {0, 1}, {0, 1}), hits |-> [d \in 0 .. 1 |->
         IF d = 0 THEN <<"ax", "aby">> ELSE <<"abz">>]],
     [dict |-> FALSE, post |-> Post({0}, {1}, {0, 1}), hits |-> [d \in 0 .. 1 |-> <<>>]],
     [dict |-> FALSE, post |-> Post({0, 1}, {1}, {1}), hits |-> [d \in 0 .. 1 |->
         IF d = 0 THEN <<>> ELSE <<"ax">>]],
     [dict |-> FALSE, post |-> Post({0}, {}, {0}), hits |-> [d \in 0 .. 1 |-> <<>>]],
     [dict |-> TRUE, post |-> Post({0}, {1}, {0}), hits |-> [d \in 0 .. 1 |->
         IF d = 0 THEN <<"aby">> ELSE <<"ax">>]]}

SmallOptions == {[limit |-> 2, only_count |-> FALSE], [limit |-> 9, only_count |-> FALSE],
                 [limit |-> 2, only_count |-> TRUE]}

Base(q, icase, dbs) ==
    [query |-> q, ignore_case |-> icase, check_existence |-> FALSE, check_visibility |-> TRUE,
     dbpaths |-> dbs, using_uring |-> TRUE, supports_stat |-> TRUE,
     readable |-> {"/", "a", "a/b", "ab"}, existing |-> SmallName]
SmallSettings ==
    {Base(Long, FALSE, 1), Base(Shared, TRUE, 2)}
        \cup {[Base(Plain, FALSE, 2) EXCEPT !.using_uring = FALSE, !.supports_stat = FALSE]}
        \cup {[Base(Shared, TRUE, 1) EXCEPT !.check_existence = TRUE, !.existing = e]
                 : e \in {{}, {"ax", "abz"}, SmallName}}
        \cup {[Base(Either, TRUE, 1) EXCEPT !.readable = {"/"} \cup r] : r \in SUBSET {"a", "a/b", "ab"}}
        \cup {[Base(Plain, TRUE, 2) EXCEPT !.supports_stat = FALSE, !.check_existence = TRUE]}
        \cup {[Base(Plain, FALSE, 2) EXCEPT !.readable = {}]}
        \cup {[Base(Plain, FALSE, 1) EXCEPT !.check_visibility = FALSE, !.check_existence = TRUE]}
=============================================================================
