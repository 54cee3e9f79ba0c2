---------------------------- MODULE MCBindMount ----------------------------
(* Small instances of BindMount. *)
EXTENDS BindMount

\* Device A is the root file system, X is mounted on its directories, T is of PRUNEFS.
\* The mount points are 4 and 5, and 6 is in PRUNEPATHS.
SmallTree == [v \in {"A", "X", "T"} |->
    CASE v = "A" -> {<<>>, <<1>>, <<1, 1>>, <<4>>, <<5>>, <<6>>}
      [] v = "X" -> {<<>>, <<1>>, <<2>>}
      [] v = "T" -> {<<>>, <<3>>}]
SmallPrunePaths == <<<<6>>>>
SmallPruneFs == {"T"}
M(id, parent, dev, root, point) ==
    [id |-> id, parent |-> parent, dev |-> dev, root |-> root, point |-> point]
R == M(2, 0, "A", <<>>, <<>>)
SmallTables == {
    {R, M(4, 2, "X", <<>>, <<4>>)},           \* a second mount gets a lower number
    {R, M(3, 2, "T", <<>>, <<4>>), M(4, 3, "X", <<>>, <<4, 3>>),      \* below a pruned one,
        M(5, 2, "X", <<>>, <<6>>), M(6, 2, "X", <<>>, <<5>>)},        \* pruned by path, kept
    {R, M(3, 2, "X", <<>>, <<4>>), M(4, 3, "T", <<>>, <<4>>)}}        \* one upon the other
SmallMountings == {
    [dev |-> "X", root |-> <<>>, point |-> <<5>>],
    [dev |-> "A", root |-> <<1>>, point |-> <<1, 1>>]}
=============================================================================
