----------------------------- MODULE MCUpdatedb -----------------------------
(* Small instances of Updatedb. *)
EXTENDS Updatedb

\* /a, which may be a directory with /a/x in it.
SmallPath == {"a", "ax"}
SmallParent == [p \in SmallPath |-> IF p = "a" THEN "root" ELSE "a"]
SmallRank == [p \in SmallPath \cup {"root"} |->
                 CASE p = "root" -> 0 [] p = "a" -> 1 [] p = "ax" -> 2]

\* /a, /b, and /a/x; with x a name of PRUNENAMES and /b a path of PRUNEPATHS.
WidePath == {"a", "ax", "b"}
WideParent == [p \in WidePath |-> IF p = "ax" THEN "a" ELSE "root"]
WideRank == [p \in WidePath \cup {"root"} |->
                CASE p = "root" -> 0 [] p = "a" -> 1 [] p = "b" -> 3 [] p = "ax" -> 2]
=============================================================================
