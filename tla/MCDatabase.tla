----------------------------- MODULE MCDatabase -----------------------------
(***************************************************************************)
(* The databases that are written and read for model checking.             *)
(***************************************************************************)
EXTENDS Database

NoFileSystem == [tree |-> <<>>, roots |-> <<>>, root |-> <<>>, unreadable |-> {}, denied |-> {}]
Arguments(mode, only, compare_atime, t) ==
    [mode |-> mode, only |-> only, compare_atime |-> compare_atime, tree |-> t.tree,
     roots |-> t.roots, unreadable |-> t.unreadable, denied |-> t.denied]
NoPrune == [names |-> {}, paths |-> {}, fs |-> {}]

-----------------------------------------------------------------------------
(* Searches: posting lists of every shape, and a table that has to grow.   *)

File(name) == [name |-> name, skip |-> 0, dt |-> not_a_dir, meta |-> NoMetadata]
Skip(n) == [name |-> <<>>, skip |-> n, dt |-> not_a_dir, meta |-> NoMetadata]
Gapped(gaps) ==
    FlattenSeq([k \in DOMAIN gaps |->
        (IF gaps[k] = 0 THEN <<>> ELSE <<Skip(gaps[k])>>)
            \o <<File(<<97, 97, 97, IF k % 3 = 0 THEN 98 ELSE 97>>)>>])
Gaps == {
    [k \in 1 .. 131 |-> 0],                                                     \* constant
    [k \in 1 .. 130 |-> (k * k * 5) % 8],                                       \* plain
    [k \in 1 .. 132 |-> IF k = 40 THEN 70000 ELSE IF k = 90 THEN 200 ELSE k % 2],
    [k \in 1 .. 130 |-> IF k % 3 = 0 THEN 100 + k ELSE k % 4],                  \* exceptions
    [k \in 1 .. 20 |-> IF k = 1 THEN 2100000 ELSE IF k = 10 THEN 9000000 ELSE (k * k * k) % 60],
    [k \in 1 .. 30 |-> IF k = 1 THEN 20000 ELSE IF k \in {11, 20} THEN 600 * k ELSE 3],
    [k \in 1 .. 18 |-> IF k % 3 = 0 THEN 200 ELSE 2],                           \* nearly plain
    <<300, 0, 500>>}
Listed(gaps) == [block_size |-> 1, store |-> FALSE, files |-> Gapped(gaps), prune |-> NoPrune]

\* Twenty trigrams that find no place in tables of 23 and 29 buckets.
Colliding == <<
    <<3, 213>>, <<5, 236>>, <<8, 162>>, <<9, 208>>, <<10, 135>>, <<11, 144>>, <<13, 4>>,
    <<13, 35>>, <<13, 253>>, <<14, 242>>, <<17, 102>>, <<18, 92>>, <<20, 42>>, <<21, 95>>,
    <<22, 85>>, <<28, 204>>, <<33, 93>>, <<33, 136>>, <<35, 225>>, <<39, 222>>>>
Crowded == [block_size |-> 32, store |-> FALSE, prune |-> NoPrune,
            files |-> [k \in DOMAIN Colliding |-> File(<<Slash>> \o Colliding[k])]
                          \o <<File(<<Slash>>)>>]
\* Names of one to four bytes, with one of three bytes inside a block and one at its end.
Short == [block_size |-> 3, store |-> FALSE, prune |-> NoPrune,
          files |-> <<File(<<Slash>>), File(<<Slash, 97, 98>>), File(<<Slash, 97>>),
                      File(<<Slash, 98, 99, 100>>), File(<<Slash, 120, 121>>)>>]
\* Nineteen names whose trigrams have one bucket of 19.  The last one is not indexed;
\* the other 18 are one more than the bucket and 16 overflow slots hold.
OneBucket == <<
    <<97, 97>>, <<97, 100>>, <<97, 108>>, <<98, 99>>, <<98, 122>>, <<99, 115>>, <<99, 117>>,
    <<100, 110>>, <<100, 118>>, <<102, 122>>, <<103, 100>>, <<103, 112>>, <<104, 115>>,
    <<105, 120>>, <<106, 103>>, <<106, 111>>, <<106, 116>>, <<106, 118>>, <<107, 106>>>>
Stuck == [block_size |-> 32, store |-> FALSE, prune |-> NoPrune,
          files |-> <<File(<<Slash>>)>> \o [k \in DOMAIN OneBucket |-> File(<<Slash>> \o OneBucket[k])]]
Search(c) == [use |-> "search", corpora |-> <<c>>, damage |-> FALSE, conf |-> NoPrune,
              show |-> Arguments("none", {}, FALSE, NoFileSystem)]
Searches == {Search(c) : c \in {Listed(g) : g \in Gaps} \cup {Crowded, Short}}
ShortSearches == {Search(Short)}
StuckSearches == {Search(Stuck)}

-----------------------------------------------------------------------------
(* A file system, and what may have become of it.                          *)

pd == <<47, 100>>
pa == <<47, 100, 47, 97>>
pax == pa \o <<47, 120>>
pa0 == pa \o <<48>>            \* after /d/a/x by its bytes, before it in a database
pb == <<47, 100, 47, 98>>
pm == <<47, 100, 47, 109>>
pmy == pm \o <<47, 121>>
pn == <<47, 100, 47, 110>>
pnz == pn \o <<47, 122>>
Entry(isdir, dev, content, large) ==
    [isdir |-> isdir, stamp |-> 1, atime |-> 1, content |-> content, large |-> large, dev |-> dev]
Dir(dev) == Entry(TRUE, dev, 0, FALSE)
Reg(dev, content) == Entry(FALSE, dev, content, FALSE)
Base == [tree |-> [p \in {pa, pax, pa0, pm, pmy, pn, pnz} |->
                     CASE p = pa -> Dir(1) [] p = pax -> Entry(FALSE, 1, 2, TRUE)
                       [] p = pa0 -> Reg(1, 3) [] p = pm -> Dir(2) [] p = pmy -> Reg(2, 4)
                       [] p = pn -> Dir(1) [] p = pnz -> Reg(1, 5)],
         roots |-> [r \in {pd} |-> 1], root |-> pd, unreadable |-> {}, denied |-> {}]
Without(t, gone) == [t EXCEPT !.tree = [p \in (DOMAIN t.tree) \ gone |-> t.tree[p]]]
With(t, p, e) == [t EXCEPT !.tree = [q \in DOMAIN t.tree \cup {p} |-> IF q = p THEN e ELSE t.tree[q]]]
Later == {
    Without(Base, {pa, pax}), Without(Base, {pa0}), Without(Base, {pn, pnz}), With(Base, pb, Reg(1, 6)),
    [Base EXCEPT !.tree[pa0].stamp = 2, !.tree[pa0].content = 7],
    [Base EXCEPT !.tree[pa0].atime = 2], [Base EXCEPT !.tree[pa0].content = 7],
    [Base EXCEPT !.tree[pax].content = 7], [Base EXCEPT !.unreadable = {pa}],
    [Base EXCEPT !.tree[pm].dev = 3, !.tree[pmy].dev = 3],
    [Base EXCEPT !.tree[pa] = [Reg(1, 8) EXCEPT !.stamp = 2]],
    With(With(Without(Base, {pa, pax}), <<47, 100, 47, 99>>, Dir(1)), <<47, 100, 47, 99, 47, 120>>, Reg(1, 2))}
Consistent(t) == Without(t, {p \in DOMAIN t.tree : \E q \in Ancestors(p, t.root) : ~t.tree[q].isdir})

Pruning == [names |-> {<<110>>}, paths |-> {}, fs |-> {3}]
PruningPath == [names |-> {}, paths |-> {pn}, fs |-> {3}]
Kept(t, prune, hashing, block_size) ==
    [block_size |-> block_size, store |-> TRUE, files |-> ScanOf(t, prune, hashing), prune |-> prune]
Trees == {Base} \cup {Consistent(t) : t \in Later}

\* updatedb reads back what it wrote: directories and files, with and without digests.
Read(c, damage, conf) ==
    [use |-> "cursor", corpora |-> <<c>>, damage |-> damage, conf |-> conf,
     show |-> Arguments("none", {}, FALSE, NoFileSystem)]
\* A file that was gone when it was to be stat()ed has no metadata.
Vanished(c) == [c EXCEPT !.files[2].meta = NoMetadata]
Reads == {Read(c, TRUE, Pruning) : c \in {Kept(Base, Pruning, TRUE, 2), Vanished(Kept(Base, Pruning, TRUE, 3))}}
            \cup {Read(Kept(Base, Pruning, FALSE, 4), FALSE, conf) : conf \in {Pruning, NoPrune}}

Compared(use, t1, t2, prune, hashing, only, compare_atime, damage) ==
    [use |-> use, damage |-> damage, conf |-> prune,
     corpora |-> <<Kept(t1, prune, hashing, 2), Kept(t2, prune, hashing, 3)>>,
     show |-> Arguments(use, only, compare_atime, t2)]
\* The second file system is one that is not hashed on.
Denied == [Base EXCEPT !.denied = {2}]
Pairs == {<<Base, t>> : t \in Trees} \cup {<<t, Base>> : t \in Trees}
            \cup {<<Denied, Denied>>, <<Denied, [Denied EXCEPT !.tree[pmy].content = 7, !.tree[pmy].stamp = 2]>>}
Diffs ==
    {Compared("diff", p[1], p[2], Pruning, TRUE, {}, FALSE, p[2] \in {Without(Base, {pa, pax}), Without(Base, {pa0})}) : p \in Pairs}
        \cup {Compared("diff", Base, [Base EXCEPT !.tree[pa0].atime = 2], Pruning, TRUE, {}, TRUE, FALSE)}
        \cup {Compared("diff", Base, With(Without(Base, {pa0}), pb, Reg(1, 6)), Pruning, TRUE, only, FALSE, FALSE) :
                  only \in {{"ADDED"}, {"REMOVED", "MODIFIED"}}}
Lives ==
    {Compared("live", p[1], p[2], Pruning, TRUE, {}, FALSE, FALSE) : p \in Pairs}
        \cup {Compared("live", Base, t, PruningPath, FALSE, {}, TRUE, FALSE) : t \in Trees}

MCScenarios == Searches \cup Reads \cup Diffs \cup Lives
CorporaOf(scenarios) == UNION {{s.corpora[k] : k \in DOMAIN s.corpora} : s \in scenarios}
MCCorpora == CorporaOf(MCScenarios)
ShortCorpora == CorporaOf(ShortSearches)
StuckCorpora == CorporaOf(StuckSearches)
=============================================================================
