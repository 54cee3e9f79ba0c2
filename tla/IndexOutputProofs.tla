------------------------- MODULE IndexOutputProofs -------------------------
(***************************************************************************)
(* What flocate prints, for every sequence of databases, every pattern,    *)
(* limit and order of completions: exactly the names to be shown, in       *)
(* order, up to the limit over all databases.                              *)
(*                                                                         *)
(* The invariant of IndexSearchProofs says that a name of a candidate      *)
(* block is at one place of the search only.  Here a name that is at none  *)
(* is finished: it is printed, or waits in the serializer for its turn,    *)
(* and the counters count the finished names that are to be shown.         *)
(***************************************************************************)
EXTENDS IndexSearchProofs

-----------------------------------------------------------------------------
(* Elements in the serializer, whatever they stand for: el[c] is that of   *)
(* c, and together they cover the sequence numbers below T.                *)

EndOf(e) == e.seq + e.skip
Apart(e, f) == EndOf(e) <= f.seq \/ EndOf(f) <= e.seq

Laid(P, el, T) ==
    /\ el \in [P -> Element] /\ T \in Nat
    /\ \A c \in P : EndOf(el[c]) <= T
    /\ \A c, f \in P : c # f => Apart(el[c], el[f])
    /\ \A n \in 0 .. T - 1 : \E c \in P : el[c].seq <= n /\ n < EndOf(el[c])
    /\ \A c, f \in P : el[c].seq < el[f].seq /\ el[c].msg # NoMsg /\ el[f].msg # NoMsg
           => el[c].msg < el[f].msg

Messages(el, F) == {el[c].msg : c \in F} \ {NoMsg}
Ascending(q) == \A i, j \in DOMAIN q : i < j => q[i] < q[j]

\* All before next is finished and printed, after the messages of E; what is finished
\* behind it waits.
OutOK(P, el, F, E, next, pend, out) ==
    /\ F \subseteq P /\ next \in Nat
    /\ \A c \in P : el[c].seq < next => c \in F /\ EndOf(el[c]) <= next
    /\ pend = {el[c] : c \in {f \in F : el[f].seq >= next}}
    /\ out \in Seq(Nat) /\ Ascending(out)
    /\ InQueue(out) = E \cup Messages(el, {c \in P : el[c].seq < next})

-----------------------------------------------------------------------------
(* The names of the candidate blocks D of database d, number b.            *)

Reach(S, n) ==
    S.check_visibility => \A i \in DOMAIN Ancestors[n] : Ancestors[n][i] \in S.readable
Vis(S, n) == "/" \in S.readable /\ Reach(S, n) /\ (S.check_existence => n \in S.existing)
Lim(b) == b * NumDocs * Span
IdAt(b, doc, j) == (b * NumDocs + doc) * Span + j
Shows(S, b, d) ==
    UNION {{IdAt(b, doc, j) : j \in {k \in DOMAIN d.hits[doc] : Vis(S, d.hits[doc][k])}}
               : doc \in Docs}

IsName(D, d, c) == c[2] \in DOMAIN d.hits[D[c[1]]]
Places(D, d) ==
    {c \in (1 .. Len(D)) \X (1 .. Span) :
         IsName(D, d, c) \/ (d.hits[D[c[1]]] = <<>> /\ c[2] = 1)}
Shown(S, D, d, c) == IsName(D, d, c) /\ Vis(S, d.hits[D[c[1]]][c[2]])

Start(c) == (c[1] - 1) * Span + c[2] - 1
Skip(D, d, c) ==
    IF d.hits[D[c[1]]] = <<>> \/ c[2] = Len(d.hits[D[c[1]]]) THEN Span - (c[2] - 1) ELSE 1
ElementOf(S, b, D, d, c) ==
    [seq |-> Start(c), skip |-> Skip(D, d, c),
     msg |-> IF Shown(S, D, d, c) THEN IdAt(b, D[c[1]], c[2]) ELSE NoMsg]
El(S, b, D, d) == [c \in Places(D, d) |-> ElementOf(S, b, D, d, c)]

-----------------------------------------------------------------------------
(* The invariant.                                                          *)

\* A name that the search has still to deal with, and those it has not.
InWork(s, L, calls, a, c) ==
    \/ c[1] \in Unread(s, L)
    \/ c \in PlacesIn(calls) \cup PlacesWaiting(a.pending_stats)
    \/ c \in Statted("access", L) \cup Statted("exists", L)
Finished(s, L, d, calls, a) == {c \in Places(s.docids, d) : ~InWork(s, L, calls, a, c)}

\* An answer that has been given is right.
Truth(S, s, L, d, calls) ==
    /\ \A x \in InQueue(calls) : x.do = "print" =>
           (x.ok <=> Shown(S, s.docids, d, <<x.i, x.j>>))
    /\ \A c \in Statted("exists", L) :
           S.check_existence /\ Reach(S, d.hits[s.docids[c[1]]][c[2]])

\* The candidates: in order, and every block with a match.
Candidates(D, d) == Ascending(D) /\ Matches(d) \subseteq InQueue(D)

\* Before database b come the names of the earlier ones.
Early(E, b) == {x \in E : x <= Lim(b)}
Earlier == Early(expected, dbno)
Searched == "/" \in set.readable /\ expected = Earlier \cup Shows(set, dbno, db)

Counts == /\ total = Cardinality(Earlier) /\ parent_left = opt.limit - total
          /\ limit_left > 0 /\ ~exited

AtMain ==
    /\ \A x \in expected : x <= Lim(dbno)
    /\ total = Cardinality(expected) /\ total < opt.limit /\ ~exited /\ ~CanDrain
    /\ dbno <= set.dbpaths => limit_left = opt.limit - total
    /\ IF opt.only_count THEN printed = <<>> ELSE Printed = expected

InSearch ==
    /\ expected = Earlier \cup Shows(set, dbno, db) /\ Counts
    /\ pc # "nothing" <=> "/" \in set.readable
    /\ limit_left = opt.limit - total /\ ~CanDrain
    /\ IF opt.only_count THEN printed = <<>> ELSE Printed = Earlier

InScan ==
    LET D == loc.docids
        el == El(set, dbno, D, db)
        F == Finished(loc, Live(eng), db, todo, acc)
    IN  /\ Searched /\ Counts /\ Candidates(D, db)
        /\ Truth(set, loc, Live(eng), db, todo)
        /\ loc.matched = Cardinality(Messages(el, F))
        /\ IF opt.only_count
           THEN printed = <<>> /\ pending = {} /\ limit_left = opt.limit - total - loc.matched
           ELSE /\ OutOK(Places(D, db), el, F, Earlier, next_seq, pending, printed)
                /\ limit_left = opt.limit - Len(printed)
        /\ at # "callback" => ~CanDrain

AtLimit == opt.limit <= Cardinality(expected) /\ (opt.only_count \/ Len(printed) = opt.limit)

\* What is printed are the first of the names to be shown.
Leads ==
    /\ opt \in [limit : Nat \ {0}, only_count : BOOLEAN] /\ dbno \in Nat \ {0}
    /\ expected \in SUBSET Nat /\ IsFiniteSet(expected) /\ printed \in Seq(Nat)
    /\ Ascending(printed) /\ Len(printed) <= opt.limit
    /\ Printed \subseteq expected
    /\ \A s \in expected : \A t \in Printed : s < t => s \in Printed

OInv ==
    /\ Leads
    /\ pc = "main" => AtMain
    /\ pc \in {"nothing"} \cup Looking \cup Intersecting => InSearch
    /\ pc \in Scanning => IF exited THEN AtLimit ELSE InScan
    /\ pc = "end" => /\ how \in {"limit", "short_read"} => AtLimit
                     /\ how = "returned" => total < opt.limit


-----------------------------------------------------------------------------
(* The serializer.                                                         *)

\* The messages of E come before those of el.
Above(E, P, el) == \A x \in E : x \in Nat /\ \A c \in P : el[c].msg # NoMsg => x < el[c].msg

LEMMA ElementFacts ==
    ASSUME NEW P, NEW el, NEW T, Laid(P, el, T), NEW c \in P
    PROVE  /\ el[c] \in Element /\ el[c].seq \in Nat /\ el[c].skip \in Nat \ {0}
           /\ el[c].msg \in Nat \cup {NoMsg} /\ EndOf(el[c]) \in Nat /\ el[c].seq < EndOf(el[c])
           /\ EndOf(el[c]) <= T /\ T \in Nat
<1>1. el[c] \in Element /\ EndOf(el[c]) <= T /\ T \in Nat
  BY DEF Laid
<1> QED BY <1>1 DEF Element, EndOf

\* Two elements at one place are one.
LEMMA OneAt ==
    ASSUME NEW P, NEW el, NEW T, Laid(P, el, T), NEW c \in P, NEW f \in P,
           el[c].seq <= el[f].seq, el[f].seq < EndOf(el[c])
    PROVE  c = f
<1> SUFFICES ASSUME c # f PROVE FALSE
  OBVIOUS
<1>1. Apart(el[c], el[f])
  BY DEF Laid
<1>2. /\ el[c].seq \in Nat /\ EndOf(el[c]) \in Nat /\ el[c].seq < EndOf(el[c])
      /\ el[f].seq \in Nat /\ EndOf(el[f]) \in Nat /\ el[f].seq < EndOf(el[f])
  BY ElementFacts
<1> QED BY <1>1, <1>2 DEF Apart

LEMMA MessagesGrow ==
    ASSUME NEW el, NEW F, NEW c
    PROVE  /\ el[c].msg = NoMsg => Messages(el, F \cup {c}) = Messages(el, F)
           /\ el[c].msg # NoMsg => Messages(el, F \cup {c}) = Messages(el, F) \cup {el[c].msg}
BY DEF Messages

\* An element comes before its turn.
LEMMA PrintedLater ==
    ASSUME NEW P, NEW el, NEW T, Laid(P, el, T), NEW F, NEW E, NEW n, NEW pend, NEW out,
           OutOK(P, el, F, E, n, pend, out), NEW c \in P, c \notin F, el[c].seq # n
    PROVE  OutOK(P, el, F \cup {c}, E, n, pend \cup {el[c]}, out)
<1>1. el[c].seq \in Nat /\ n \in Nat
  BY ElementFacts DEF OutOK
<1>2. el[c].seq >= n
  BY <1>1 DEF OutOK
<1>3. pend \cup {el[c]} = {el[x] : x \in {f \in F \cup {c} : el[f].seq >= n}}
  BY <1>2 DEF OutOK
<1> QED BY <1>3 DEF OutOK

LEMMA AscendingAppend ==
    ASSUME NEW q \in Seq(Nat), Ascending(q), NEW m \in Nat, \A x \in InQueue(q) : x < m
    PROVE  Append(q, m) \in Seq(Nat) /\ Ascending(Append(q, m)) /\ InQueue(Append(q, m)) = InQueue(q) \cup {m}
<1>1. Len(q) \in Nat /\ DOMAIN q = 1 .. Len(q) /\ Len(Append(q, m)) = Len(q) + 1
  OBVIOUS
<1>2. DOMAIN Append(q, m) = 1 .. Len(q) + 1
  BY <1>1
<1>3. \A i \in 1 .. Len(q) : Append(q, m)[i] = q[i] /\ q[i] \in Nat /\ q[i] \in InQueue(q)
  BY <1>1 DEF InQueue
<1>4. Append(q, m)[Len(q) + 1] = m
  BY <1>1
<1>5. Ascending(Append(q, m))
  <2> SUFFICES ASSUME NEW i \in DOMAIN Append(q, m), NEW j \in DOMAIN Append(q, m), i < j
               PROVE  Append(q, m)[i] < Append(q, m)[j]
    BY DEF Ascending
  <2>1. i \in 1 .. Len(q)
    BY <1>1, <1>2
  <2>2. CASE j \in 1 .. Len(q)
    BY <1>1, <1>3, <2>1, <2>2 DEF Ascending
  <2>3. CASE j = Len(q) + 1
    BY <1>3, <1>4, <2>1, <2>3
  <2> QED BY <1>1, <1>2, <2>2, <2>3
<1>6. InQueue(Append(q, m)) = InQueue(q) \cup {m}
  BY AppendFacts
<1> QED BY <1>5, <1>6

\* The element whose turn it is: it is printed, unless it is empty.
Wrote(out, msg, out2) ==
    \/ msg = NoMsg /\ out2 = out
    \/ msg # NoMsg /\ out2 = Append(out, msg)

LEMMA PrintedInTurn ==
    ASSUME NEW P, NEW el, NEW T, Laid(P, el, T), NEW F, NEW E, NEW n, NEW pend, NEW out,
           OutOK(P, el, F, E, n, pend, out), Above(E, P, el),
           NEW c \in P, el[c].seq = n, NEW k, k = n + el[c].skip,
           NEW out2, Wrote(out, el[c].msg, out2)
    PROVE  OutOK(P, el, F \cup {c}, E, k, pend \ {el[c]}, out2)
<1> DEFINE Old == {f \in P : el[f].seq < n}
           New == {f \in P : el[f].seq < k}
<1>1. /\ n \in Nat /\ el[c].skip \in Nat \ {0} /\ el[c].msg \in Nat \cup {NoMsg}
      /\ k = EndOf(el[c]) /\ k \in Nat /\ k > n
  BY ElementFacts DEF EndOf
<1>2. ASSUME NEW f \in P, n <= el[f].seq, el[f].seq < k PROVE f = c
  BY <1>1, <1>2, OneAt
<1>3. \A f \in P : el[f].seq \in Nat /\ EndOf(el[f]) \in Nat
  BY ElementFacts
<1>4. New = Old \cup {c}
  BY <1>1, <1>2, <1>3
<1>5. ASSUME NEW f \in P, el[f].seq < k PROVE f \in F \cup {c} /\ EndOf(el[f]) <= k
  <2>1. CASE el[f].seq < n
    BY <1>1, <1>3, <2>1 DEF OutOK
  <2>2. CASE ~(el[f].seq < n)
    BY <1>1, <1>2, <1>3, <1>5, <2>2
  <2> QED BY <2>1, <2>2
<1>6. pend \ {el[c]} = {el[x] : x \in {f \in F \cup {c} : el[f].seq >= k}}
  <2>1. pend = {el[x] : x \in {f \in F : el[f].seq >= n}} /\ F \subseteq P
    BY DEF OutOK
  <2>2. ASSUME NEW f \in F, el[f].seq >= n, el[f] # el[c] PROVE el[f].seq >= k
    BY <1>1, <1>2, <1>3, <2>1, <2>2
  <2>3. ASSUME NEW f \in F \cup {c}, el[f].seq >= k
        PROVE  f \in F /\ el[f].seq >= n /\ el[f] # el[c]
    BY <1>1, <1>3, <2>1, <2>3
  <2> QED BY <2>1, <2>2, <2>3
<1>7. ASSUME el[c].msg # NoMsg, NEW x \in InQueue(out) PROVE x < el[c].msg
  <2>1. x \in E \/ \E f \in Old : x = el[f].msg /\ x # NoMsg
    BY <1>7 DEF OutOK, Messages
  <2>2. CASE x \in E
    BY <1>7, <2>2 DEF Above
  <2>3. ASSUME NEW f \in Old, x = el[f].msg, x # NoMsg PROVE x < el[c].msg
    <3>1. f \in P /\ el[f].seq < el[c].seq
      OBVIOUS
    <3> HIDE DEF Old
    <3> QED BY <1>7, <2>3, <3>1 DEF Laid
  <2> QED BY <2>1, <2>2, <2>3
<1>8. /\ out2 \in Seq(Nat) /\ Ascending(out2)
      /\ el[c].msg = NoMsg => InQueue(out2) = InQueue(out)
      /\ el[c].msg # NoMsg => InQueue(out2) = InQueue(out) \cup {el[c].msg}
  <2>1. out \in Seq(Nat) /\ Ascending(out)
    BY DEF OutOK
  <2>2. CASE el[c].msg = NoMsg
    BY <2>1, <2>2 DEF Wrote
  <2>3. CASE el[c].msg # NoMsg
    <3>1. out2 = Append(out, el[c].msg) /\ el[c].msg \in Nat
      BY <1>1, <2>3 DEF Wrote
    <3> QED BY <1>7, <2>1, <2>3, <3>1, AscendingAppend
  <2> QED BY <2>2, <2>3
<1>9. InQueue(out) = E \cup Messages(el, Old)
  BY DEF OutOK
<1>10. InQueue(out2) = E \cup Messages(el, New)
  <2> HIDE DEF Old, New
  <2>1. /\ el[c].msg = NoMsg => Messages(el, New) = Messages(el, Old)
        /\ el[c].msg # NoMsg => Messages(el, New) = Messages(el, Old) \cup {el[c].msg}
    BY <1>4, MessagesGrow, ZenonT(40)
  <2> QED BY <1>8, <1>9, <2>1
<1>11. F \cup {c} \subseteq P
  BY DEF OutOK
<1> QED BY <1>1, <1>5, <1>6, <1>8, <1>10, <1>11 DEF OutOK

\* Whatever has been printed are the first of all messages.
LEMMA PrintedFirst ==
    ASSUME NEW P, NEW el, NEW T, Laid(P, el, T), NEW F, NEW E, NEW n, NEW pend, NEW out,
           OutOK(P, el, F, E, n, pend, out), Above(E, P, el)
    PROVE  /\ InQueue(out) \subseteq E \cup Messages(el, P)
           /\ \A s \in E \cup Messages(el, P) : \A t \in InQueue(out) : s < t => s \in InQueue(out)
<1> DEFINE Old == {f \in P : el[f].seq < n}
<1>1. InQueue(out) = E \cup Messages(el, Old) /\ n \in Nat
  BY DEF OutOK
<1>2. Messages(el, Old) \subseteq Messages(el, P)
  BY DEF Messages
<1>3. ASSUME NEW s \in Messages(el, P), NEW t \in InQueue(out), s < t PROVE s \in InQueue(out)
  <2>1. PICK c \in P : s = el[c].msg /\ s # NoMsg
    BY DEF Messages
  <2>2. el[c].seq \in Nat /\ s \in Nat
    BY <2>1, ElementFacts
  <2>3. CASE t \in E
    BY <1>3, <2>1, <2>2, <2>3 DEF Above
  <2>4. CASE t \in Messages(el, Old)
    <3>1. PICK f \in P : t = el[f].msg /\ t # NoMsg /\ el[f].seq < n
      BY <2>4 DEF Messages
    <3>2. el[f].seq \in Nat /\ t \in Nat
      BY <3>1, ElementFacts
    <3>3. CASE el[c].seq >= n
      <4>1. el[f].seq < el[c].seq
        BY <1>1, <2>2, <3>1, <3>2, <3>3
      <4>2. t < s
        BY <2>1, <3>1, <4>1 DEF Laid
      <4> QED BY <1>3, <2>2, <3>2, <4>2
    <3>4. CASE el[c].seq < n
      BY <1>1, <2>1, <3>4 DEF Messages
    <3> QED BY <1>1, <2>2, <3>3, <3>4
  <2> QED BY <1>1, <2>3, <2>4
<1> QED BY <1>1, <1>2, <1>3

\* When all is finished and no element waits for its turn, all is printed.
LEMMA AllPrinted ==
    ASSUME NEW P, NEW el, NEW T, Laid(P, el, T), NEW E, NEW n, NEW pend, NEW out,
           OutOK(P, el, P, E, n, pend, out),
           \A e \in pend : (\A f \in pend : e.seq <= f.seq) => e.seq # n
    PROVE  InQueue(out) = E \cup Messages(el, P)
<1>1. n \in Nat /\ T \in Nat
  BY DEF OutOK, Laid
<1>2. pend = {el[x] : x \in {f \in P : el[f].seq >= n}}
  BY DEF OutOK
<1>3. \A f \in P : el[f].seq \in Nat /\ el[f].seq < EndOf(el[f]) /\ EndOf(el[f]) \in Nat /\ EndOf(el[f]) <= T
  BY ElementFacts
<1>4. ~(n < T)
  <2> SUFFICES ASSUME n < T PROVE FALSE
    OBVIOUS
  <2>1. n \in 0 .. T - 1
    BY <1>1
  <2>2. PICK c \in P : el[c].seq <= n /\ n < EndOf(el[c])
    BY <2>1 DEF Laid
  <2>3. ~(el[c].seq < n)
    <3>1. el[c].seq < n => EndOf(el[c]) <= n
      BY DEF OutOK
    <3> QED BY <1>1, <1>3, <2>2, <3>1
  <2>4. el[c].seq = n
    BY <1>1, <1>3, <2>2, <2>3
  <2>5. el[c] \in pend
    BY <1>1, <1>2, <2>4
  <2>6. \A f \in pend : el[c].seq <= f.seq
    BY <1>2, <2>4
  <2> QED BY <2>4, <2>5, <2>6
<1>5. {f \in P : el[f].seq < n} = P
  BY <1>1, <1>3, <1>4
<1> QED BY <1>5 DEF OutOK

\* As many as are printed.
LEMMA CountPrinted ==
    ASSUME NEW q \in Seq(Nat), Ascending(q)
    PROVE  IsFiniteSet(InQueue(q)) /\ Cardinality(InQueue(q)) = Len(q)
<1>1. Len(q) \in Nat /\ DOMAIN q = 1 .. Len(q) /\ \A i \in 1 .. Len(q) : q[i] \in Nat
  OBVIOUS
<1>2. Different(q, Len(q))
  BY <1>1 DEF Different, Ascending
<1>3. InQueue(q) = Listed(q, Len(q))
  BY <1>1 DEF InQueue, Listed
<1> QED BY <1>1, <1>2, <1>3, CountRange

-----------------------------------------------------------------------------
(* Sequence numbers and names of the candidates.                           *)

Row(r) == r * Span

LEMMA Rows ==
    /\ \A r \in Nat : Row(r) \in Nat /\ Row(r + 1) = Row(r) + Span
    /\ \A r, q \in Nat : r < q => Row(r) + Span <= Row(q)
    /\ Span \in Nat \ {0} /\ Row(0) = 0
<1>1. Span \in Nat \ {0}
  BY SearchAssumption
<1>2. \A r \in Nat : Row(r) \in Nat /\ Row(r + 1) = Row(r) + Span
  BY <1>1 DEF Row
<1>3. ASSUME NEW r \in Nat, NEW q \in Nat, r < q PROVE Row(r) + Span <= Row(q)
  <2>1. PICK k \in Nat : q = r + 1 + k
    <3>1. q - r - 1 \in Nat /\ q = r + 1 + (q - r - 1)
      BY <1>3
    <3> QED BY <3>1
  <2>2. k * Span \in Nat /\ Row(q) = Row(r) + Span + k * Span /\ Row(r) \in Nat
    BY <1>1, <2>1 DEF Row
  <2> QED BY <1>1, <2>2
<1>4. Row(0) = 0
  BY <1>1 DEF Row
<1> QED BY <1>1, <1>2, <1>3, <1>4

\* Every number is in a row.
InRow(n, r, x) == n = Row(r) + x
LEMMA RowOf == ASSUME NEW n \in Nat PROVE \E r \in Nat : \E x \in 0 .. Span - 1 : InRow(n, r, x)
<1> DEFINE N == {m \in Nat : \E r \in Nat : \E x \in 0 .. Span - 1 : InRow(m, r, x)}
<1>1. 0 \in N
  <2>1. 0 \in 0 .. Span - 1 /\ InRow(0, 0, 0)
    BY Rows DEF InRow
  <2> QED BY <2>1
<1>2. ASSUME NEW m \in Nat, m \in N PROVE m + 1 \in N
  <2>1. PICK r \in Nat, x \in 0 .. Span - 1 : InRow(m, r, x)
    BY <1>2
  <2>2. Row(r) \in Nat /\ Row(r + 1) = Row(r) + Span /\ Span \in Nat \ {0} /\ r + 1 \in Nat
    <3>1. Span \in Nat \ {0}
      BY Rows
    <3> QED BY <3>1 DEF Row
  <2>3. CASE x + 1 < Span
    <3>1. x + 1 \in 0 .. Span - 1 /\ InRow(m + 1, r, x + 1)
      BY <2>1, <2>2, <2>3 DEF InRow
    <3> QED BY <3>1
  <2>4. CASE x + 1 = Span
    <3>1. 0 \in 0 .. Span - 1 /\ InRow(m + 1, r + 1, 0)
      BY <2>1, <2>2, <2>4 DEF InRow
    <3> QED BY <2>2, <3>1
  <2> QED BY <2>2, <2>3, <2>4
<1> HIDE DEF N
<1>3. n \in N
  BY <1>1, <1>2, SetInduction
<1> QED BY <1>3 DEF N

LEMMA BlockFacts ==
    ASSUME NEW d \in Databases, NEW doc \in Docs
    PROVE  /\ d.hits[doc] \in Seq(Name) /\ Len(d.hits[doc]) \in Nat /\ Len(d.hits[doc]) <= Span
           /\ DOMAIN d.hits[doc] = 1 .. Len(d.hits[doc])
           /\ d.hits[doc] = <<>> <=> Len(d.hits[doc]) = 0
           /\ \A j \in DOMAIN d.hits[doc] : d.hits[doc][j] \in Name
<1>1. d.hits[doc] \in Seq(Name) /\ Len(d.hits[doc]) <= Span
  BY SearchAssumption
<1> QED BY <1>1

LEMMA PlaceInBlock ==
    ASSUME NEW d \in Databases, NEW doc \in Docs, NEW j \in DOMAIN d.hits[doc]
    PROVE  d.hits[doc] # <<>> /\ j \in 1 .. Span
<1>1. /\ Len(d.hits[doc]) \in Nat /\ Len(d.hits[doc]) <= Span
      /\ DOMAIN d.hits[doc] = 1 .. Len(d.hits[doc])
      /\ d.hits[doc] = <<>> <=> Len(d.hits[doc]) = 0
  BY BlockFacts
<1>2. j \in 1 .. Len(d.hits[doc]) /\ Span \in Nat
  BY <1>1, Rows
<1> QED BY <1>1, <1>2

LEMMA PlaceFacts ==
    ASSUME NEW d \in Databases, NEW D \in Seq(Docs), NEW c \in Places(D, d)
    PROVE  /\ c[1] \in 1 .. Len(D) /\ c[2] \in 1 .. Span /\ c = <<c[1], c[2]>> /\ D[c[1]] \in Docs
           /\ c[1] - 1 \in Nat /\ Row(c[1] - 1) \in Nat
           /\ Start(c) = Row(c[1] - 1) + (c[2] - 1) /\ Start(c) \in Nat
           /\ Skip(D, d, c) \in Nat \ {0} /\ Start(c) + Skip(D, d, c) <= Row(c[1] - 1) + Span
<1>1. /\ c \in (1 .. Len(D)) \X (1 .. Span)
      /\ IsName(D, d, c) \/ (d.hits[D[c[1]]] = <<>> /\ c[2] = 1)
  BY DEF Places
<1>2. c[1] \in 1 .. Len(D) /\ c[2] \in 1 .. Span /\ c = <<c[1], c[2]>> /\ D[c[1]] \in Docs
  BY <1>1
<1>3. c[1] - 1 \in Nat /\ Row(c[1] - 1) \in Nat
  BY <1>2, Rows
<1>4. Span \in Nat \ {0}
  BY Rows
<1>5. Start(c) = Row(c[1] - 1) + (c[2] - 1)
  BY <1>2, <1>3, <1>4 DEF Start, Row
<1>6. Skip(D, d, c) \in Nat \ {0} /\ Skip(D, d, c) <= Span - (c[2] - 1)
  BY <1>2, <1>4 DEF Skip
<1> QED BY <1>2, <1>3, <1>4, <1>5, <1>6, SMTT(40)

\* The places of a block, one after the other.
LEMMA SameBlock ==
    ASSUME NEW d \in Databases, NEW D \in Seq(Docs), NEW c \in Places(D, d), NEW f \in Places(D, d),
           c[1] = f[1], c[2] < f[2]
    PROVE  Skip(D, d, c) = 1
<1>1. /\ D[c[1]] \in Docs /\ c[2] \in 1 .. Span /\ f[2] \in 1 .. Span /\ Span \in Nat
  BY PlaceFacts, Rows
<1>2. /\ IsName(D, d, f) \/ (d.hits[D[c[1]]] = <<>> /\ f[2] = 1)
  BY DEF Places
<1>3. f[2] \in DOMAIN d.hits[D[c[1]]]
  BY <1>1, <1>2 DEF IsName
<1>4. /\ Len(d.hits[D[c[1]]]) \in Nat /\ DOMAIN d.hits[D[c[1]]] = 1 .. Len(d.hits[D[c[1]]])
      /\ d.hits[D[c[1]]] = <<>> <=> Len(d.hits[D[c[1]]]) = 0
  BY <1>1, BlockFacts
<1> QED BY <1>1, <1>3, <1>4 DEF Skip

LEMMA ApartPlaces ==
    ASSUME NEW d \in Databases, NEW D \in Seq(Docs), NEW c \in Places(D, d), NEW f \in Places(D, d),
           c[1] < f[1] \/ (c[1] = f[1] /\ c[2] < f[2])
    PROVE  Start(c) + Skip(D, d, c) <= Start(f)
<1>1. /\ c[1] - 1 \in Nat /\ Row(c[1] - 1) \in Nat /\ c[2] \in 1 .. Span
      /\ Start(c) = Row(c[1] - 1) + (c[2] - 1) /\ Start(c) + Skip(D, d, c) <= Row(c[1] - 1) + Span
      /\ c[1] \in 1 .. Len(D) /\ Start(c) \in Nat /\ Skip(D, d, c) \in Nat
  BY PlaceFacts
<1>2. /\ f[1] - 1 \in Nat /\ Row(f[1] - 1) \in Nat /\ f[2] \in 1 .. Span
      /\ Start(f) = Row(f[1] - 1) + (f[2] - 1) /\ f[1] \in 1 .. Len(D) /\ Start(f) \in Nat
  BY PlaceFacts
<1>3. Span \in Nat \ {0} /\ Len(D) \in Nat
  BY Rows
<1>4. CASE c[1] < f[1]
  <2>1. c[1] - 1 < f[1] - 1
    BY <1>1, <1>2, <1>3, <1>4, SMTT(40)
  <2>2. Row(c[1] - 1) + Span <= Row(f[1] - 1)
    BY <1>1, <1>2, <2>1, Rows
  <2> DEFINE R == Row(c[1] - 1)
             Q == Row(f[1] - 1)
             s == Start(c)
             k == Skip(D, d, c)
             t == Start(f)
  <2>3. /\ R \in Nat /\ Q \in Nat /\ R + Span <= Q /\ s + k <= R + Span /\ t = Q + (f[2] - 1)
        /\ s \in Nat /\ k \in Nat /\ f[2] \in Nat /\ f[2] >= 1
    BY <1>1, <1>2, <1>3, <2>2
  <2> HIDE DEF R, Q, s, k, t
  <2>4. s + k <= t
    BY <1>3, <2>3
  <2> QED BY <2>4 DEF s, k, t
<1>5. CASE c[1] = f[1] /\ c[2] < f[2]
  <2>1. Skip(D, d, c) = 1
    BY <1>5, SameBlock
  <2> DEFINE R == Row(c[1] - 1)
             s == Start(c)
             t == Start(f)
             i == c[2]
             j == f[2]
  <2>2. R = Row(f[1] - 1)
    BY <1>5
  <2>3. R \in Nat /\ s = R + (i - 1) /\ i \in 1 .. Span
    BY <1>1
  <2>4. t = Row(f[1] - 1) + (j - 1) /\ j \in 1 .. Span
    BY <1>2
  <2>5. i < j
    BY <1>5
  <2> HIDE DEF R, s, t, i, j
  <2>6. t = R + (j - 1)
    BY <2>2, <2>4
  <2>7. s + 1 <= t
    BY <1>3, <2>3, <2>4, <2>5, <2>6
  <2> QED BY <2>1, <2>7 DEF s, t
<1> QED BY <1>4, <1>5

\* Of two places one comes first.
LEMMA PlacesOrdered ==
    ASSUME NEW d \in Databases, NEW D \in Seq(Docs), NEW c \in Places(D, d), NEW f \in Places(D, d),
           c # f
    PROVE  \/ c[1] < f[1] \/ (c[1] = f[1] /\ c[2] < f[2])
           \/ f[1] < c[1] \/ (f[1] = c[1] /\ f[2] < c[2])
<1>1. /\ c[1] \in 1 .. Len(D) /\ c[2] \in 1 .. Span /\ c = <<c[1], c[2]>>
      /\ f[1] \in 1 .. Len(D) /\ f[2] \in 1 .. Span /\ f = <<f[1], f[2]>>
  BY PlaceFacts
<1>2. c[1] # f[1] \/ c[2] # f[2]
  BY <1>1
<1> QED BY <1>1, <1>2, Rows

\* Names are numbered through all databases: by database, block and place.
LEMMA IdFacts ==
    ASSUME NEW b \in Nat, NEW doc \in Docs, NEW j \in 1 .. Span
    PROVE  /\ IdAt(b, doc, j) \in Nat /\ Lim(b) \in Nat /\ Lim(b + 1) \in Nat
           /\ IdAt(b, doc, j) > Lim(b) /\ IdAt(b, doc, j) <= Lim(b + 1)
           /\ \A e \in Docs : \A k \in 1 .. Span :
                  doc < e \/ (doc = e /\ j < k) => IdAt(b, doc, j) < IdAt(b, e, k)
<1>1. NumDocs \in Nat /\ Span \in Nat \ {0} /\ doc \in Nat /\ doc < NumDocs
  BY SearchAssumption DEF Docs
<1>2. PICK B \in Nat : B = b * NumDocs
  BY <1>1
<1>3. Lim(b) = Row(B) /\ Lim(b + 1) = Row(B + NumDocs)
  <2>1. (b + 1) * NumDocs = B + NumDocs
    BY <1>1, <1>2
  <2> QED BY <1>2, <2>1 DEF Lim, Row
<1>4. \A e \in Docs : \A k \in 1 .. Span : IdAt(b, e, k) = Row(B + e) + k
  BY <1>2 DEF IdAt, Row
<1>5. ASSUME NEW e \in Docs
      PROVE  e \in Nat /\ B + e \in Nat /\ Row(B + e) \in Nat /\ e < NumDocs
  <2>1. e \in Nat /\ B + e \in Nat /\ e < NumDocs
    BY <1>1 DEF Docs
  <2>2. Row(B + e) \in Nat
    BY <2>1, Rows
  <2> QED BY <2>1, <2>2
<1>6. Row(B) \in Nat /\ Row(B + NumDocs) \in Nat
  <2>1. B + NumDocs \in Nat
    BY <1>1
  <2> QED BY <2>1, Rows
<1>7. Row(B) <= Row(B + doc)
  <2>1. CASE doc = 0
    BY <1>6, <2>1
  <2>2. CASE doc > 0
    <3>1. B + doc \in Nat /\ B < B + doc
      BY <1>1, <2>2
    <3>2. Row(B) + Span <= Row(B + doc)
      BY <3>1, Rows
    <3> QED BY <1>1, <1>5, <1>6, <3>2
  <2> QED BY <1>1, <2>1, <2>2
<1>8. Row(B + doc) + Span <= Row(B + NumDocs)
  <2>1. B + doc \in Nat /\ B + NumDocs \in Nat /\ B + doc < B + NumDocs
    BY <1>1
  <2> QED BY <2>1, Rows
<1>9. ASSUME NEW e \in Docs, NEW k \in 1 .. Span, doc < e \/ (doc = e /\ j < k)
      PROVE  IdAt(b, doc, j) < IdAt(b, e, k)
  <2>1. CASE doc < e
    <3>1. Row(B + doc) + Span <= Row(B + e)
      BY <1>5, <2>1, Rows
    <3>2. Row(B + doc) + j < Row(B + e) + k
      BY <1>1, <1>5, <3>1
    <3> QED BY <1>4, <3>2
  <2>2. CASE doc = e /\ j < k
    <3>1. Row(B + doc) + j < Row(B + e) + k
      BY <1>1, <1>5, <2>2
    <3> QED BY <1>4, <3>1
  <2> QED BY <1>9, <2>1, <2>2
<1>10. IdAt(b, doc, j) = Row(B + doc) + j /\ Row(B + doc) \in Nat
  BY <1>4, <1>5
<1> QED BY <1>1, <1>3, <1>6, <1>7, <1>8, <1>9, <1>10

\* What El says of a place.
LEMMA ElFacts ==
    ASSUME NEW S, NEW b \in Nat, NEW d \in Databases, NEW D \in Seq(Docs), NEW c \in Places(D, d)
    PROVE  LET e == El(S, b, D, d)[c]
           IN  /\ e \in Element /\ e.seq = Start(c) /\ e.skip = Skip(D, d, c)
               /\ EndOf(e) = Start(c) + Skip(D, d, c)
               /\ e.msg # NoMsg <=> Shown(S, D, d, c)
               /\ e.msg # NoMsg => e.msg = IdAt(b, D[c[1]], c[2])
<1> DEFINE e == El(S, b, D, d)[c]
<1>1. e = ElementOf(S, b, D, d, c)
  BY DEF El
<1>2. /\ e.seq = Start(c) /\ e.skip = Skip(D, d, c)
      /\ e.msg = (IF Shown(S, D, d, c) THEN IdAt(b, D[c[1]], c[2]) ELSE NoMsg)
  BY <1>1 DEF ElementOf
<1>3. IdAt(b, D[c[1]], c[2]) \in Nat /\ D[c[1]] \in Docs /\ c[2] \in 1 .. Span
  BY PlaceFacts, IdFacts
<1>4. IdAt(b, D[c[1]], c[2]) # NoMsg
  BY <1>3 DEF NoMsg
<1>5. e \in Element
  <2>1. Start(c) \in Nat /\ Skip(D, d, c) \in Nat \ {0}
    BY PlaceFacts
  <2>2. e.msg \in Nat \cup {NoMsg}
    BY <1>2, <1>3
  <2> QED BY <1>1, <1>2, <2>1, <2>2 DEF Element, ElementOf
<1> QED BY <1>2, <1>4, <1>5 DEF EndOf

LEMMA Covered ==
    ASSUME NEW d \in Databases, NEW D \in Seq(Docs), NEW n \in 0 .. Row(Len(D)) - 1
    PROVE  \E c \in Places(D, d) : Start(c) <= n /\ n < Start(c) + Skip(D, d, c)
<1>1. Len(D) \in Nat /\ Row(Len(D)) \in Nat /\ Span \in Nat \ {0} /\ n \in Nat /\ n < Row(Len(D))
  <2>1. Len(D) \in Nat /\ Span \in Nat \ {0}
    BY Rows
  <2>2. Row(Len(D)) \in Nat
    BY <2>1, Rows
  <2> QED BY <2>1, <2>2
<1>2. PICK r \in Nat, x \in 0 .. Span - 1 : InRow(n, r, x)
  BY <1>1, RowOf
<1>3. Row(r) \in Nat /\ n = Row(r) + x /\ x \in Nat /\ x < Span
  BY <1>1, <1>2, Rows DEF InRow
<1>4. r < Len(D)
  <2> SUFFICES ASSUME Len(D) <= r PROVE FALSE
    BY <1>1
  <2>1. Row(Len(D)) <= Row(r)
    <3>1. CASE Len(D) = r
      BY <1>3, <3>1
    <3>2. CASE Len(D) < r
      <4>1. Row(Len(D)) + Span <= Row(r)
        BY <1>1, <3>2, Rows
      <4> QED BY <1>1, <1>3, <4>1
    <3> QED BY <1>1, <3>1, <3>2
  <2> QED BY <1>1, <1>3, <2>1
<1> DEFINE i == r + 1
           h == d.hits[D[i]]
           l == Len(h)
           j == IF h = <<>> THEN 1 ELSE IF x + 1 <= l THEN x + 1 ELSE l
           c == <<i, j>>
<1>5. i \in 1 .. Len(D) /\ D[i] \in Docs
  BY <1>1, <1>4
<1> HIDE DEF i
<1>6. /\ l \in Nat /\ l <= Span /\ DOMAIN h = 1 .. l /\ (h = <<>> <=> l = 0)
  BY <1>5, BlockFacts
<1> HIDE DEF h
<1>7. j \in 1 .. Span /\ (j \in 1 .. l \/ (h = <<>> /\ j = 1))
  BY <1>1, <1>3, <1>6
<1>8. c \in Places(D, d) /\ c[1] = i /\ c[2] = j
  BY <1>5, <1>6, <1>7 DEF Places, IsName, h
<1>9. Start(c) = Row(r) + (j - 1) /\ Skip(D, d, c) = IF h = <<>> \/ j = l THEN Span - (j - 1) ELSE 1
  <2>1. Start(c) = Row(c[1] - 1) + (c[2] - 1)
    BY <1>8, PlaceFacts
  <2>2. c[1] - 1 = r
    BY <1>8 DEF i
  <2>3. Skip(D, d, c) = IF h = <<>> \/ j = l THEN Span - (j - 1) ELSE 1
    BY <1>8 DEF Skip, h
  <2> QED BY <1>8, <2>1, <2>2, <2>3
<1>10. Start(c) <= n /\ n < Start(c) + Skip(D, d, c)
  <2>1. CASE h = <<>>
    <3>1. j = 1
      BY <2>1
    <3> HIDE DEF j, c
    <3> QED BY <1>1, <1>3, <1>9, <2>1, <3>1
  <2>2. CASE h # <<>> /\ x + 1 <= l
    <3>1. j = x + 1
      BY <2>2
    <3> HIDE DEF j, c, l
    <3>2. Start(c) = n
      BY <1>3, <1>9, <3>1
    <3>3. Skip(D, d, c) \in Nat \ {0}
      BY <1>8, PlaceFacts
    <3> QED BY <1>1, <3>2, <3>3
  <2>3. CASE h # <<>> /\ ~(x + 1 <= l)
    <3>1. j = l
      BY <2>3
    <3> HIDE DEF j, c
    <3> QED BY <1>1, <1>3, <1>6, <1>9, <2>3, <3>1
  <2> QED BY <2>1, <2>2, <2>3
<1> QED BY <1>8, <1>10

\* The candidates in order have their elements in order.
LEMMA CandidatesLaid ==
    ASSUME NEW S, NEW b \in Nat, NEW d \in Databases, NEW D \in Seq(Docs), Ascending(D)
    PROVE  Laid(Places(D, d), El(S, b, D, d), Row(Len(D)))
<1> DEFINE P == Places(D, d)
           el == El(S, b, D, d)
           T == Row(Len(D))
<1>1. \A c \in P : /\ el[c] \in Element /\ el[c].seq = Start(c)
                   /\ EndOf(el[c]) = Start(c) + Skip(D, d, c)
                   /\ el[c].msg # NoMsg => el[c].msg = IdAt(b, D[c[1]], c[2])
  BY ElFacts
<1>2. el \in [P -> Element]
  <2>1. el = [c \in P |-> el[c]]
    BY DEF El
  <2> QED BY <1>1, <2>1
<1> HIDE DEF el, P
<1>3. T \in Nat /\ Len(D) \in Nat /\ Span \in Nat
  BY Rows
<1>4. ASSUME NEW c \in P PROVE EndOf(el[c]) <= T
  <2>1. /\ c[1] \in 1 .. Len(D) /\ c[1] - 1 \in Nat /\ Row(c[1] - 1) \in Nat /\ Start(c) \in Nat
        /\ Skip(D, d, c) \in Nat /\ Start(c) + Skip(D, d, c) <= Row(c[1] - 1) + Span
    BY PlaceFacts DEF P
  <2>2. c[1] - 1 < Len(D)
    BY <1>3, <2>1
  <2>3. Row(c[1] - 1) + Span <= T
    BY <1>3, <2>1, <2>2, Rows
  <2>4. EndOf(el[c]) = Start(c) + Skip(D, d, c)
    BY <1>1
  <2> DEFINE R == Row(c[1] - 1)
             s == Start(c)
             k == Skip(D, d, c)
  <2> HIDE DEF R, s, k, T
  <2>5. R + Span <= T /\ s + k <= R + Span /\ R \in Nat /\ s \in Nat /\ k \in Nat
    BY <2>1, <2>3 DEF R, s, k
  <2>6. s + k <= T
    BY <1>3, <2>5
  <2> QED BY <2>4, <2>6 DEF s, k
<1>5. ASSUME NEW c \in P, NEW f \in P, c # f PROVE Apart(el[c], el[f])
  <2>1. \/ c[1] < f[1] \/ (c[1] = f[1] /\ c[2] < f[2])
        \/ f[1] < c[1] \/ (f[1] = c[1] /\ f[2] < c[2])
    BY <1>5, PlacesOrdered DEF P
  <2>2. Start(c) + Skip(D, d, c) <= Start(f) \/ Start(f) + Skip(D, d, f) <= Start(c)
    BY <2>1, ApartPlaces DEF P
  <2> QED BY <1>1, <2>2 DEF Apart
<1>6. ASSUME NEW n \in 0 .. T - 1 PROVE \E c \in P : el[c].seq <= n /\ n < EndOf(el[c])
  <2>1. PICK c \in P : Start(c) <= n /\ n < Start(c) + Skip(D, d, c)
    BY Covered DEF P
  <2> QED BY <1>1, <2>1
<1>7. ASSUME NEW c \in P, NEW f \in P, el[c].seq < el[f].seq, el[c].msg # NoMsg, el[f].msg # NoMsg
      PROVE  el[c].msg < el[f].msg
  <2>1. Start(c) < Start(f)
    BY <1>1, <1>7
  <2>2. /\ c[1] \in 1 .. Len(D) /\ D[c[1]] \in Docs /\ c[2] \in 1 .. Span /\ Start(c) \in Nat
        /\ Skip(D, d, c) \in Nat \ {0}
    BY PlaceFacts DEF P
  <2>3. /\ f[1] \in 1 .. Len(D) /\ D[f[1]] \in Docs /\ f[2] \in 1 .. Span /\ Start(f) \in Nat
        /\ Skip(D, d, f) \in Nat \ {0}
    BY PlaceFacts DEF P
  <2>4. c # f
    BY <2>1, <2>2
  <2>5. c[1] < f[1] \/ (c[1] = f[1] /\ c[2] < f[2])
    <3>1. f[1] < c[1] \/ (f[1] = c[1] /\ f[2] < c[2]) => Start(f) + Skip(D, d, f) <= Start(c)
      BY ApartPlaces DEF P
    <3>2. ~(f[1] < c[1] \/ (f[1] = c[1] /\ f[2] < c[2]))
      <4> DEFINE s == Start(c)
                 t == Start(f)
                 k == Skip(D, d, f)
      <4> HIDE DEF s, t, k
      <4>1. ~(t + k <= s)
        BY <2>1, <2>2, <2>3 DEF s, t, k
      <4> QED BY <3>1, <4>1 DEF s, t, k
    <3> QED BY <2>4, <3>2, PlacesOrdered DEF P
  <2>6. D[c[1]] < D[f[1]] \/ (D[c[1]] = D[f[1]] /\ c[2] < f[2])
    BY <2>2, <2>3, <2>5 DEF Ascending
  <2>7. IdAt(b, D[c[1]], c[2]) < IdAt(b, D[f[1]], f[2])
    BY <2>2, <2>3, <2>6, IdFacts
  <2> QED BY <1>1, <1>7, <2>7
<1> HIDE DEF T
<1>8. Laid(P, el, T)
  BY <1>2, <1>3, <1>4, <1>5, <1>6, <1>7 DEF Laid
<1> QED BY <1>8 DEF P, el, T

\* All messages together are the names to be shown.
LEMMA AllShown ==
    ASSUME NEW S, NEW b \in Nat, NEW d \in Databases, NEW D \in Seq(Docs), Candidates(D, d)
    PROVE  Messages(El(S, b, D, d), Places(D, d)) = Shows(S, b, d)
<1> DEFINE P == Places(D, d)
           el == El(S, b, D, d)
<1>1. ASSUME NEW c \in P, el[c].msg # NoMsg PROVE el[c].msg \in Shows(S, b, d)
  <2>1. Shown(S, D, d, c) /\ el[c].msg = IdAt(b, D[c[1]], c[2]) /\ D[c[1]] \in Docs
    BY <1>1, ElFacts, PlaceFacts
  <2> QED BY <2>1 DEF Shows, Shown, IsName
<1>2. ASSUME NEW x \in Shows(S, b, d) PROVE \E c \in P : x = el[c].msg /\ x # NoMsg
  <2>1. PICK doc \in Docs : \E j \in DOMAIN d.hits[doc] :
            Vis(S, d.hits[doc][j]) /\ x = IdAt(b, doc, j)
    BY DEF Shows
  <2>2. PICK j \in DOMAIN d.hits[doc] : Vis(S, d.hits[doc][j]) /\ x = IdAt(b, doc, j)
    BY <2>1
  <2>3. d.hits[doc] # <<>> /\ j \in 1 .. Span
    BY PlaceInBlock
  <2>4. doc \in InQueue(D)
    BY <2>3 DEF Candidates, Matches
  <2>5. PICK i \in 1 .. Len(D) : D[i] = doc
    BY <2>4 DEF InQueue
  <2> DEFINE c == <<i, j>>
  <2>6. c \in P /\ Shown(S, D, d, c) /\ D[c[1]] = doc /\ c[2] = j
    BY <2>2, <2>3, <2>5 DEF Places, Shown, IsName
  <2> HIDE DEF c
  <2>7. el[c].msg # NoMsg /\ el[c].msg = IdAt(b, D[c[1]], c[2])
    BY <2>6, ElFacts
  <2> QED BY <2>2, <2>6, <2>7
<1> QED BY <1>1, <1>2 DEF Messages

\* They come after those of the databases before, and before those of the next.
LEMMA ShowsBounds ==
    ASSUME NEW S, NEW b \in Nat, NEW d \in Databases
    PROVE  /\ \A x \in Shows(S, b, d) : x \in Nat /\ x > Lim(b) /\ x <= Lim(b + 1)
           /\ IsFiniteSet(Shows(S, b, d)) /\ Lim(b) \in Nat /\ Lim(b + 1) \in Nat
<1>1. Lim(b) \in Nat /\ Lim(b + 1) \in Nat
  <2>1. NumDocs \in Nat /\ Span \in Nat
    BY SearchAssumption
  <2> QED BY <2>1 DEF Lim
<1>2. ASSUME NEW x \in Shows(S, b, d) PROVE x \in Nat /\ x > Lim(b) /\ x <= Lim(b + 1)
  <2>1. PICK doc \in Docs : \E j \in DOMAIN d.hits[doc] : x = IdAt(b, doc, j)
    BY DEF Shows
  <2>2. PICK j \in DOMAIN d.hits[doc] : x = IdAt(b, doc, j)
    BY <2>1
  <2>3. j \in 1 .. Span
    BY PlaceInBlock
  <2> QED BY <2>2, <2>3, IdFacts
<1>3. Shows(S, b, d) \subseteq 0 .. Lim(b + 1)
  BY <1>1, <1>2
<1>4. IsFiniteSet(0 .. Lim(b + 1))
  BY <1>1, FS_Interval
<1> QED BY <1>1, <1>2, <1>3, <1>4, FS_Subset

-----------------------------------------------------------------------------
(* The work there is to do: from one place of the search to another.       *)

LEMMA WorkTaken ==
    ASSUME NEW s, NEW L, NEW a, NEW q \in Seq(Call), q # <<>>, NEW c
    PROVE  InWork(s, L, q, a, c) <=> (InWork(s, L, Tail(q), a, c) \/ c = <<Head(q).i, Head(q).j>>)
<1>1. PlacesIn(q) = PlacesIn(Tail(q)) \cup {<<Head(q).i, Head(q).j>>}
  BY PlacesTail
<1> QED BY <1>1 DEF InWork

LEMMA WorkPut ==
    ASSUME NEW s, NEW L, NEW a, NEW q \in Seq(Call), NEW x \in Call, NEW c
    PROVE  InWork(s, L, <<x>> \o q, a, c) <=> (InWork(s, L, q, a, c) \/ c = <<x.i, x.j>>)
<1>1. PlacesIn(<<x>> \o q) = PlacesIn(q) \cup {<<x.i, x.j>>}
  BY PlacesCons
<1> QED BY <1>1 DEF InWork

\* A statx() is submitted, or has come back.
LEMMA WorkStat ==
    ASSUME NEW s, NEW L \in SUBSET Callback, NEW a, NEW q, NEW kind \in {"access", "exists"},
           NEW i \in Nat, NEW j \in Nat, NEW cb, IsStat(cb, kind, i, j), NEW c
    PROVE  /\ InWork(s, L \cup {cb}, q, a, c) <=> (InWork(s, L, q, a, c) \/ c = <<i, j>>)
           /\ cb \in L => (InWork(s, L, q, a, c) <=> (InWork(s, L \ {cb}, q, a, c) \/ c = <<i, j>>))
<1>0. StatMoves(L, kind, i, j, cb)
  BY StattedFacts
<1>1. StatMoves(L, kind, i, j, cb) /\ cb.k = kind
  BY <1>0 DEF StatMoves
<1>2. Unread(s, L \cup {cb}) = Unread(s, L) /\ Unread(s, L \ {cb}) = Unread(s, L)
  BY <1>1, UnreadOthers
<1>3. CASE kind = "access"
  <2>1. /\ Statted("exists", L \cup {cb}) = Statted("exists", L)
        /\ Statted("exists", L \ {cb}) = Statted("exists", L)
    BY <1>1, <1>3, StattedOthers
  <2> QED BY <1>1, <1>2, <1>3, <2>1 DEF InWork, StatMoves
<1>4. CASE kind = "exists"
  <2>1. /\ Statted("access", L \cup {cb}) = Statted("access", L)
        /\ Statted("access", L \ {cb}) = Statted("access", L)
    BY <1>1, <1>4, StattedOthers
  <2> QED BY <1>1, <1>2, <1>4, <2>1 DEF InWork, StatMoves
<1> QED BY <1>3, <1>4

LEMMA WorkSeen ==
    ASSUME NEW L \in SUBSET Callback, NEW kind \in {"access", "exists"},
           NEW i \in Nat, NEW j \in Nat, NEW cb \in L, IsStat(cb, kind, i, j), NEW s, NEW a, NEW q
    PROVE  \A c : InWork(s, L, q, a, c) <=> (InWork(s, L \ {cb}, q, a, c) \/ c = <<i, j>>)
BY WorkStat

LEMMA WorkJoined ==
    ASSUME NEW s, NEW L, NEW q, NEW a \in CacheType, NEW x \in Call, NEW k \in DOMAIN a.pending_stats,
           NEW b, IsJoined(b, a, k, x), NEW c
    PROVE  InWork(s, L, q, b, c) <=> (InWork(s, L, q, a, c) \/ c = <<x.i, x.j>>)
<1> DEFINE A == a.pending_stats
           B == b.pending_stats
<1>1. /\ DOMAIN B = DOMAIN A /\ B[k] = Append(A[k], x) /\ \A l \in DOMAIN A : l # k => B[l] = A[l]
  BY DEF IsJoined
<1>2. A[k] \in Seq(Call)
  BY CacheFacts
<1>3. PlacesIn(Append(A[k], x)) = PlacesIn(A[k]) \cup {<<x.i, x.j>>}
  BY <1>2, PlacesAppend
<1>4. PlacesWaiting(B) = PlacesWaiting(A) \cup {<<x.i, x.j>>}
  <2> HIDE DEF A, B
  <2>1. ASSUME NEW y, y \in PlacesWaiting(B) PROVE y \in PlacesWaiting(A) \cup {<<x.i, x.j>>}
    BY <1>1, <1>3, <2>1 DEF PlacesWaiting, A
  <2>2. ASSUME NEW y, y \in PlacesWaiting(A) \cup {<<x.i, x.j>>} PROVE y \in PlacesWaiting(B)
    BY <1>1, <1>3, <2>2 DEF PlacesWaiting, A
  <2> QED BY <2>1, <2>2
<1> QED BY <1>4 DEF InWork

LEMMA WorkStarted ==
    ASSUME NEW s, NEW L, NEW q, NEW a, NEW n, n \notin DOMAIN a.pending_stats, NEW b, IsStarted(b, a, n), NEW c
    PROVE  InWork(s, L, q, b, c) <=> InWork(s, L, q, a, c)
<1> DEFINE A == a.pending_stats
           B == b.pending_stats
<1>1. DOMAIN B = DOMAIN A \cup {n} /\ B[n] = <<>> /\ \A l \in DOMAIN A : B[l] = A[l]
  BY DEF IsStarted
<1>2. PlacesIn(<<>>) = {}
  BY DEF PlacesIn
<1>3. PlacesWaiting(B) = PlacesWaiting(A)
  BY <1>1, <1>2 DEF PlacesWaiting
<1> QED BY <1>3 DEF InWork

\* The names that waited for a statx() are checked.
LEMMA WorkErased ==
    ASSUME NEW s, NEW L, NEW a \in CacheType, NEW n \in DOMAIN a.pending_stats, NEW c
    PROVE  InWork(s, L, a.pending_stats[n], Without(a, n), c) <=> InWork(s, L, <<>>, a, c)
<1> DEFINE A == a.pending_stats
           B == Without(a, n).pending_stats
<1>1. DOMAIN B = DOMAIN A \ {n} /\ \A k \in DOMAIN A \ {n} : B[k] = A[k]
  BY WithoutFacts DEF IsWithout
<1>2. PlacesIn(<<>>) = {}
  BY DEF PlacesIn
<1>3. PlacesWaiting(A) = PlacesWaiting(B) \cup PlacesIn(A[n])
  <2> HIDE DEF A, B
  <2>0. n \in DOMAIN A
    BY DEF A
  <2>1. ASSUME NEW y, y \in PlacesWaiting(A) PROVE y \in PlacesWaiting(B) \cup PlacesIn(A[n])
    BY <1>1, <2>1 DEF PlacesWaiting
  <2>2. ASSUME NEW y, y \in PlacesWaiting(B) \cup PlacesIn(A[n]) PROVE y \in PlacesWaiting(A)
    BY <1>1, <2>0, <2>2 DEF PlacesWaiting
  <2> QED BY <2>1, <2>2
<1> QED BY <1>2, <1>3 DEF InWork

\* The read of a block is submitted, and then that of its contents.
LEMMA WorkRead ==
    ASSUME NEW s, NEW L, NEW q, NEW a, NEW u, NEW M,
           Unread(u, M) = Unread(s, L), Statted("access", M) = Statted("access", L),
           Statted("exists", M) = Statted("exists", L), NEW c
    PROVE  InWork(u, M, q, a, c) <=> InWork(s, L, q, a, c)
BY DEF InWork

\* The names of a block are about to be checked.
LEMMA WorkBlock ==
    ASSUME NEW s, NEW L, NEW a, NEW i, NEW q, NEW M, Unread(s, L) = Unread(s, M) \cup {i},
           Statted("access", M) = Statted("access", L), Statted("exists", M) = Statted("exists", L),
           NEW c, c \in PlacesIn(q) <=> c[1] = i
    PROVE  InWork(s, M, q, a, c) <=> InWork(s, L, <<>>, a, c)
<1>1. PlacesIn(<<>>) = {}
  BY DEF PlacesIn
<1> QED BY <1>1 DEF InWork

-----------------------------------------------------------------------------
(* Steps of the scan that finish no name.                                  *)

ScanMove ==
    /\ loc'.docids = loc.docids /\ loc'.matched = loc.matched
    /\ Truth(set, loc', Live(eng'), db, todo')
    /\ \A c \in Places(loc.docids, db) :
           InWork(loc', Live(eng'), todo', acc', c) <=> InWork(loc, Live(eng), todo, acc, c)

LEMMA TruthKept ==
    ASSUME NEW S, NEW s, NEW L, NEW d, NEW q, Truth(S, s, L, d, q), NEW u, u.docids = s.docids,
           NEW M, Statted("exists", M) \subseteq Statted("exists", L),
           NEW r, \A x \in InQueue(r) : x \in InQueue(q) \/ x.do # "print"
    PROVE  Truth(S, u, M, d, r)
BY DEF Truth

LEMMA MoveGetBlock ==
    ASSUME SInv, Truth(set, loc, Live(eng), db, todo), get_compressed_filename_block PROVE ScanMove
<1> DEFINE i == loc.next
           cb == [k |-> "index", i |-> i]
           L == Live(eng)
           u == [loc EXCEPT !.next = @ + 1]
           M == L \cup {cb}
<1>1. /\ pc = "scan" /\ at = "out" /\ eng.sync = <<>>
      /\ loc' = u /\ eng' = submit_read(eng, cb) /\ UNCHANGED <<todo, acc>>
  BY DEF get_compressed_filename_block, Idle, Search, Submit, mainVars, fixedEngine, accessVars
<1>2. ScanOK(loc, L, db, todo, acc)
  BY <1>1, ScanFacts DEF Scanning
<1>3. i \in Nat /\ u.next = i + 1 /\ u.docids = loc.docids /\ u.matched = loc.matched
  BY Basics DEF LocType
<1>4. cb \in Callback /\ cb.k = "index" /\ cb.i = i
  BY <1>3 DEF Callback
<1>5. cb \notin L
  <2>1. cb \in L => cb.i \in 1 .. i - 1
    BY <1>2, <1>4 DEF ScanOK
  <2> QED BY <1>3, <1>4, <2>1
<1>6. Live(eng') = M
  <2>1. using_uring \in BOOLEAN /\ EngOK(eng, Mode) /\ AtOK(eng, "out", Mode)
    BY <1>1, Basics
  <2> HIDE DEF cb
  <2>2. Live(submit_read(eng, cb)) = Live(eng) \cup {cb}
    BY <1>1, <1>4, <1>5, <2>1, SubmitReadOK
  <2> QED BY <1>1, <2>2
<1> HIDE DEF u
<1>7. Unread(u, M) = Unread(loc, L)
  BY <1>3 DEF Unread
<1> HIDE DEF cb
<1>8. Statted("access", M) = Statted("access", L) /\ Statted("exists", M) = Statted("exists", L)
  BY <1>4, StattedOthers
<1> HIDE DEF M, L
<1>9. \A c : InWork(u, M, todo, acc, c) <=> InWork(loc, L, todo, acc, c)
  BY <1>7, <1>8, WorkRead
<1>10. Truth(set, u, M, db, todo)
  <2>1. Truth(set, loc, L, db, todo)
    BY DEF L
  <2> QED BY <1>3, <1>8, <2>1, TruthKept
<1> QED BY <1>1, <1>3, <1>6, <1>9, <1>10 DEF ScanMove, L

LEMMA MoveIndex ==
    ASSUME SInv, Truth(set, loc, Live(eng), db, todo), NEW cb, NEW e, Completing(cb, e),
           cb.k = "index", UNCHANGED <<pc, how, loc, todo, acc>>,
           eng' = submit_read(e, [k |-> "block", i |-> cb.i])
    PROVE  ScanMove
<1> DEFINE i == cb.i
           blk == [k |-> "block", i |-> i]
           L == Live(eng)
           M == (L \ {cb}) \cup {blk}
<1>1. pc \in Scanning
  BY LiveBelongs DEF Belongs
<1>2. i \in Nat /\ cb = [k |-> "index", i |-> i] /\ cb \in L
  BY LiveBelongs, CallbackForms DEF Completing
<1>3. ScanOK(loc, L, db, todo, acc)
  BY <1>1, ScanFacts
<1>4. blk \in Callback /\ blk.k = "block" /\ blk.i = i
  BY <1>2 DEF Callback
<1>5. blk \notin L
  BY <1>2, <1>3, <1>4 DEF ScanOK
<1>6. Live(eng') = M
  <2>1. /\ EngOK(e, Mode) /\ AtOK(e, "callback", Mode) /\ Live(e) = L \ {cb} /\ e.sync = <<>>
        /\ using_uring \in BOOLEAN /\ eng' = submit_read(e, blk)
    BY Basics DEF Completing
  <2> HIDE DEF blk, L
  <2>2. Live(submit_read(e, blk)) = Live(e) \cup {blk}
    BY <1>4, <1>5, <2>1, SubmitReadOK
  <2> QED BY <2>1, <2>2
<1> HIDE DEF L
<1>7. Unread(loc, M) = Unread(loc, L)
  BY <1>2 DEF Unread
<1> HIDE DEF blk
<1>8. Statted("access", M) = Statted("access", L) /\ Statted("exists", M) = Statted("exists", L)
  <2>1. \A kind \in {"access", "exists"} : Statted(kind, L \ {cb}) = Statted(kind, L)
    BY StattedOthers
  <2>2. \A kind \in {"access", "exists"} : Statted(kind, (L \ {cb}) \cup {blk}) = Statted(kind, L \ {cb})
    BY <1>4, StattedOthers
  <2> QED BY <2>1, <2>2
<1> HIDE DEF M
<1>9. \A c : InWork(loc, M, todo, acc, c) <=> InWork(loc, L, todo, acc, c)
  BY <1>7, <1>8, WorkRead
<1>10. Truth(set, loc, M, db, todo)
  <2>1. Truth(set, loc, L, db, todo)
    BY DEF L
  <2> QED BY <1>8, <2>1, TruthKept
<1> QED BY <1>6, <1>9, <1>10 DEF ScanMove, L

LEMMA MoveBlock ==
    ASSUME SInv, Truth(set, loc, Live(eng), db, todo), NEW cb, NEW e, Completing(cb, e),
           cb.k = "block", OnBlock(cb.i), eng' = e
    PROVE  ScanMove
<1> DEFINE i == cb.i
           h == Hits(i)
           L == Live(eng)
           M == L \ {cb}
<1>1. pc \in Scanning
  BY LiveBelongs DEF Belongs
<1>2. i \in Nat /\ cb = [k |-> "block", i |-> i] /\ cb \in L
  BY LiveBelongs, CallbackForms DEF Completing
<1>3. ScanOK(loc, L, db, todo, acc) /\ todo = <<>> /\ db \in Databases
  BY <1>1, ScanFacts DEF Completing
<1>4. /\ UNCHANGED <<pc, how, loc, acc>>
      /\ todo' = IF h = <<>> THEN <<[do |-> "print", i |-> i, j |-> 1, ok |-> FALSE]>>
                 ELSE [j \in DOMAIN h |-> [do |-> "check", i |-> i, j |-> j, ok |-> TRUE]]
  BY DEF OnBlock
<1>5. loc.next \in Nat /\ loc.docids \in Seq(Docs)
  BY Basics DEF LocType
<1>6. h = db.hits[loc.docids[i]]
  BY DEF Hits
<1>7. /\ i \in 1 .. loc.next - 1 /\ [k |-> "index", i |-> i] \notin L
  BY <1>2, <1>3 DEF ScanOK
<1>8. Unread(loc, L) = Unread(loc, M) \cup {i}
  <2> HIDE DEF L
  <2> QED BY <1>2, <1>5, <1>7 DEF Unread
<1>9. Statted("access", M) = Statted("access", L) /\ Statted("exists", M) = Statted("exists", L)
  BY <1>2, StattedOthers
<1>10. Live(eng') = M
  BY DEF Completing
<1>14. loc.docids[i] \in Docs
  <2>1. loc.next \in 1 .. Len(loc.docids) + 1 /\ Len(loc.docids) \in Nat
    BY <1>3, <1>5 DEF ScanOK
  <2>2. i \in 1 .. Len(loc.docids)
    BY <1>5, <1>7, <2>1
  <2> QED BY <1>5, <2>2
<1> HIDE DEF h, L, M
<1>11. ASSUME NEW c \in Places(loc.docids, db) PROVE c \in PlacesIn(todo') <=> c[1] = i
  <2>1. c = <<c[1], c[2]>> /\ (c[2] \in DOMAIN db.hits[loc.docids[c[1]]]
                               \/ (db.hits[loc.docids[c[1]]] = <<>> /\ c[2] = 1))
    BY <1>3, <1>5, PlaceFacts DEF Places, IsName
  <2>2. CASE h = <<>>
    <3>1. PlacesIn(todo') = {<<i, 1>>}
      BY <1>4, <2>2 DEF PlacesIn
    <3>2. c[1] = i => c[2] = 1
      <4>1. loc.docids[c[1]] \in Docs
        BY <1>3, <1>5, PlaceFacts
      <4>2. c[1] = i => c[2] \notin DOMAIN db.hits[loc.docids[c[1]]]
        BY <1>3, <1>6, <2>2, <4>1, PlaceInBlock
      <4> QED BY <2>1, <4>2
    <3> QED BY <2>1, <3>1, <3>2
  <2>3. CASE h # <<>>
    <3> DEFINE x(j) == [do |-> "check", i |-> i, j |-> j, ok |-> TRUE]
    <3>1. todo' = [j \in DOMAIN h |-> x(j)] /\ \A j : x(j).i = i /\ x(j).j = j
      BY <1>4, <2>3
    <3> HIDE DEF x
    <3>2. PlacesIn(todo') = {<<i, j>> : j \in DOMAIN h}
      BY <3>1 DEF PlacesIn
    <3>3. c[1] = i => c[2] \in DOMAIN h
      BY <1>6, <2>1, <2>3
    <3> QED BY <2>1, <3>2, <3>3
  <2> QED BY <2>2, <2>3
<1>12. ASSUME NEW c \in Places(loc.docids, db)
       PROVE  InWork(loc, M, todo', acc, c) <=> InWork(loc, L, todo, acc, c)
  BY <1>3, <1>8, <1>9, <1>11, WorkBlock
<1>13. Truth(set, loc, M, db, todo')
  <2>1. Truth(set, loc, L, db, todo)
    BY DEF L
  <2>2. ASSUME NEW x \in InQueue(todo'), x.do = "print"
        PROVE  x.ok <=> Shown(set, loc.docids, db, <<x.i, x.j>>)
    <3>1. CASE h = <<>>
      <4> DEFINE y == [do |-> "print", i |-> i, j |-> 1, ok |-> FALSE]
      <4>1. todo' = <<y>> /\ y.i = i /\ y.j = 1 /\ ~y.ok
        BY <1>4, <3>1
      <4> HIDE DEF y
      <4>2. InQueue(<<y>>) = {y}
        BY DEF InQueue
      <4>3. ~IsName(loc.docids, db, <<i, 1>>)
        <5>1. <<i, 1>>[1] = i
          OBVIOUS
        <5> QED BY <1>3, <1>6, <1>14, <3>1, <5>1, PlaceInBlock DEF IsName
      <4> QED BY <2>2, <4>1, <4>2, <4>3 DEF Shown
    <3>2. CASE h # <<>>
      BY <1>4, <2>2, <3>2 DEF InQueue
    <3> QED BY <3>1, <3>2
  <2> QED BY <1>9, <2>1, <2>2 DEF Truth
<1> QED BY <1>4, <1>10, <1>12, <1>13 DEF ScanMove, L

LEMMA MoveAccess ==
    ASSUME SInv, Truth(set, loc, Live(eng), db, todo), NEW cb, NEW e, Completing(cb, e),
           cb.k = "access", OnAccessStat(cb.i, cb.j), eng' = e
    PROVE  ScanMove
<1> DEFINE i == cb.i
           j == cb.j
           n == Hits(i)[j]
           L == Live(eng)
           c == [do |-> "check_now", i |-> i, j |-> j, ok |-> TRUE]
           q == acc.pending_stats[n]
<1>1. pc \in Scanning
  BY LiveBelongs DEF Belongs, Scanning
<1>2. i \in Nat /\ j \in Nat /\ IsStat(cb, "access", i, j) /\ cb \in L /\ L \in SUBSET Callback
  BY LiveBelongs, CallbackForms, Basics DEF Completing, IsStat
<1>3. /\ ScanOK(loc, L, db, todo, acc) /\ StatsOK(loc, L, db, acc) /\ todo = <<>>
      /\ acc \in CacheType
  BY <1>1, ScanFacts, SMTT(40) DEF Completing
<1>4. /\ UNCHANGED <<pc, how, loc>> /\ todo' = <<c>> \o q
      /\ acc' = Without(acc, n) /\ n = HitsOf(loc, db, i)[j]
  BY Zenon DEF OnAccessStat, Erased, Without, Hits, HitsOf
<1>5. c \in Call /\ c.i = i /\ c.j = j /\ c.do # "print"
  BY <1>2 DEF Call
<1>6. Live(eng') = L \ {cb}
  BY DEF Completing
<1> HIDE DEF i, j, n, L, c
<1>7. n \in DOMAIN acc.pending_stats
  <2>1. StatMoves(L, "access", i, j, cb)
    BY <1>2, StattedFacts
  <2>2. <<i, j>> \in Statted("access", L)
    BY <1>2, <2>1 DEF StatMoves
  <2>3. <<i, j>>[1] = i /\ <<i, j>>[2] = j
    OBVIOUS
  <2> QED BY <1>3, <1>4, <2>2, <2>3 DEF StatsOK
<1>8. q \in Seq(Call) /\ \A x \in InQueue(q) : x.do # "print"
  <2>1. q \in Seq(Call)
    BY <1>3, <1>7, CacheFacts
  <2>2. \A m \in DOMAIN q : q[m].do = "check"
    BY <1>3, <1>7 DEF ScanOK
  <2> QED BY <2>1, <2>2 DEF InQueue
<1>9. \A x : InWork(loc, L \ {cb}, q, Without(acc, n), x) <=> InWork(loc, L \ {cb}, <<>>, acc, x)
  BY <1>3, <1>7, WorkErased
<1> HIDE DEF q
<1>10. \A x : InWork(loc, L \ {cb}, <<c>> \o q, acc', x)
              <=> (InWork(loc, L \ {cb}, q, acc', x) \/ x = <<c.i, c.j>>)
  BY <1>5, <1>8, WorkPut
<1>11. \A x : InWork(loc, L, <<>>, acc, x)
              <=> (InWork(loc, L \ {cb}, <<>>, acc, x) \/ x = <<i, j>>)
  BY <1>2, WorkSeen
<1>12. \A x : InWork(loc, L \ {cb}, todo', acc', x) <=> InWork(loc, L, todo, acc, x)
  BY <1>3, <1>4, <1>5, <1>9, <1>10, <1>11
<1>13. Truth(set, loc, L \ {cb}, db, todo')
  <2>1. Truth(set, loc, L, db, todo)
    BY DEF L
  <2>4. InQueue(<<c>> \o q) = InQueue(q) \cup {c}
    BY <1>5, <1>8, PlacesCons
  <2>2. \A x \in InQueue(todo') : x.do # "print"
    BY <1>4, <1>5, <1>8, <2>4
  <2>3. Statted("exists", L \ {cb}) \subseteq Statted("exists", L)
    BY DEF Statted
  <2> QED BY <2>1, <2>2, <2>3, TruthKept
<1> QED BY <1>4, <1>6, <1>12, <1>13 DEF ScanMove, L

LEMMA MoveExists ==
    ASSUME SInv, Truth(set, loc, Live(eng), db, todo), NEW cb, NEW e, Completing(cb, e),
           cb.k = "exists", OnExistsStat(cb.i, cb.j), eng' = e, "/" \in set.readable
    PROVE  ScanMove
<1> DEFINE i == cb.i
           j == cb.j
           n == Hits(i)[j]
           L == Live(eng)
           c == [do |-> "print", i |-> i, j |-> j, ok |-> n \in set.existing]
<1>1. pc \in Scanning
  BY LiveBelongs DEF Belongs, Scanning
<1>2. i \in Nat /\ j \in Nat /\ IsStat(cb, "exists", i, j) /\ cb \in L /\ L \in SUBSET Callback
  BY LiveBelongs, CallbackForms, Basics DEF Completing, IsStat
<1>3. ScanOK(loc, L, db, todo, acc) /\ todo = <<>>
  BY <1>1, ScanFacts DEF Completing
<1>4. /\ UNCHANGED <<pc, how, loc, acc>> /\ todo' = <<c>>
  BY DEF OnExistsStat
<1>5. c \in Call /\ c.i = i /\ c.j = j /\ c.do = "print" /\ (c.ok <=> n \in set.existing)
  <2>1. (n \in set.existing) \in BOOLEAN
    OBVIOUS
  <2>2. c \in Call /\ c.i = i /\ c.j = j /\ c.do = "print" /\ c.ok = (n \in set.existing)
    BY <1>2, <2>1 DEF Call
  <2> QED BY <2>2
<1>6. Live(eng') = L \ {cb} /\ n = db.hits[loc.docids[i]][j]
  BY DEF Completing, Hits
<1> HIDE DEF i, j, n, L, c
<1>7. <<i, j>> \in Statted("exists", L) /\ <<i, j>>[1] = i /\ <<i, j>>[2] = j
  <2>1. StatMoves(L, "exists", i, j, cb)
    BY <1>2, StattedFacts
  <2> QED BY <1>2, <2>1 DEF StatMoves
<1>8. \A x : InWork(loc, L, <<>>, acc, x)
             <=> (InWork(loc, L \ {cb}, <<>>, acc, x) \/ x = <<i, j>>)
  BY <1>2, WorkSeen, SMTT(40)
<1>9. <<c>> = <<c>> \o <<>> /\ <<>> \in Seq(Call) /\ InQueue(<<c>>) = {c}
  BY DEF InQueue
<1>10. \A x : InWork(loc, L \ {cb}, <<c>> \o <<>>, acc, x)
              <=> (InWork(loc, L \ {cb}, <<>>, acc, x) \/ x = <<c.i, c.j>>)
  BY <1>5, <1>9, WorkPut
<1>11. \A x : InWork(loc, L \ {cb}, todo', acc', x) <=> InWork(loc, L, todo, acc, x)
  BY <1>3, <1>4, <1>5, <1>8, <1>9, <1>10
<1>12. Truth(set, loc, L \ {cb}, db, todo')
  <2>1. Truth(set, loc, L, db, todo)
    BY DEF L
  <2>2. set.check_existence /\ Reach(set, n)
    BY <1>6, <1>7, <2>1 DEF Truth
  <2>3. IsName(loc.docids, db, <<i, j>>)
    <3>1. NamePlace(loc, db, <<i, j>>)
      BY <1>3, <1>7 DEF ScanOK
    <3> QED BY <1>7, <3>1 DEF NamePlace, IsName, HitsOf
  <2>4. Shown(set, loc.docids, db, <<i, j>>) <=> n \in set.existing
    BY <1>6, <1>7, <2>2, <2>3 DEF Shown, Vis
  <2>5. Statted("exists", L \ {cb}) \subseteq Statted("exists", L)
    BY DEF Statted
  <2>6. InQueue(todo') = {c}
    BY <1>4, <1>9
  <2> QED BY <1>5, <2>1, <2>4, <2>5, <2>6 DEF Truth
<1> QED BY <1>4, <1>6, <1>11, <1>12 DEF ScanMove, L

\* What check_access() answers.
LEMMA AnswersRight ==
    ASSUME SInv, NEW n \in Name
    PROVE  /\ ~set.check_visibility => Reach(set, n)
           /\ set.check_visibility => (CheckNow(n).ok <=> Reach(set, n))
           /\ set.check_visibility /\ Settled(n) => ((Unsettled(n) = 0) <=> Reach(set, n))
<1>1. /\ acc \in CacheType /\ acc.granted \subseteq readable /\ acc.denied \cap readable = {}
      /\ readable = set.readable
  BY DEF SInv, ScanInv, Fixed
<1>2. /\ DOMAIN Ancestors[n] = 1 .. Len(Ancestors[n]) /\ Len(Ancestors[n]) \in Nat
      /\ \A i \in DOMAIN Ancestors[n] : Ancestors[n][i] \in Dir
  BY DirsAbove
<1> DEFINE bad == acc.denied \cup ((Dir \ readable) \ acc.granted)
           stop == FirstAbove(n, bad)
           new == Dir \ acc.granted
           up == FirstAbove(n, new)
<1>3. CheckNow(n).ok = (stop = 0) /\ Unsettled(n) = up
  BY DEF CheckNow, Unsettled
<1>4. \/ stop = 0 /\ \A i \in DOMAIN Ancestors[n] : Ancestors[n][i] \notin bad
      \/ stop \in DOMAIN Ancestors[n] /\ Ancestors[n][stop] \in bad
  BY FirstAboveFacts
<1>5. \/ up = 0 /\ \A i \in DOMAIN Ancestors[n] : Ancestors[n][i] \notin new
      \/ up \in DOMAIN Ancestors[n] /\ Ancestors[n][up] \in new
  BY FirstAboveFacts
<1> HIDE DEF stop, up
<1>6. ASSUME set.check_visibility PROVE (stop = 0) <=> Reach(set, n)
  <2>1. CASE stop = 0
    <3>1. \A i \in DOMAIN Ancestors[n] : Ancestors[n][i] \in readable
      BY <1>1, <1>2, <1>4, <2>1
    <3> QED BY <1>1, <2>1, <3>1 DEF Reach
  <2>2. CASE stop # 0
    <3>1. stop \in DOMAIN Ancestors[n] /\ Ancestors[n][stop] \notin readable
      BY <1>1, <1>4, <2>2
    <3> QED BY <1>1, <1>6, <2>2, <3>1 DEF Reach
  <2> QED BY <2>1, <2>2
<1>7. ASSUME set.check_visibility, Settled(n) PROVE (up = 0) <=> Reach(set, n)
  <2>1. CASE up = 0
    <3>1. \A i \in DOMAIN Ancestors[n] : Ancestors[n][i] \in readable
      BY <1>1, <1>2, <1>5, <2>1
    <3> QED BY <1>1, <2>1, <3>1 DEF Reach
  <2>2. CASE up # 0
    <3>1. up \in DOMAIN Ancestors[n] /\ Ancestors[n][up] \in acc.denied
      BY <1>3, <1>5, <1>7, <2>2 DEF Settled
    <3> QED BY <1>1, <1>7, <2>2, <3>1 DEF Reach
  <2> QED BY <2>1, <2>2
<1>8. ~set.check_visibility => Reach(set, n)
  BY DEF Reach
<1> QED BY <1>3, <1>6, <1>7, <1>8

\* The first call, in the state before it.
LEMMA CallAt ==
    ASSUME SInv, pc # "end", todo # <<>>
    PROVE  LET c == Head(todo)
           IN  /\ todo \in Seq(Call) /\ c \in Call /\ Tail(todo) \in Seq(Call) /\ c \in InQueue(todo)
               /\ c.i \in Nat /\ c.j \in Nat /\ c.ok \in BOOLEAN /\ pc \in Scanning
               /\ loc.docids \in Seq(Docs) /\ db \in Databases
               /\ <<c.i, c.j>> \in Places(loc.docids, db)
               /\ InQueue(Tail(todo)) \subseteq InQueue(todo)
               /\ c.do # "print" => /\ IsName(loc.docids, db, <<c.i, c.j>>)
                                    /\ Hits(c.i)[c.j] = db.hits[loc.docids[c.i]][c.j]
                                    /\ Hits(c.i)[c.j] \in Name
<1> DEFINE c == Head(todo)
           p == <<c.i, c.j>>
<1>1. /\ pc \in Scanning /\ c \in Call /\ c.i \in Nat /\ c.j \in Nat /\ c.ok \in BOOLEAN
      /\ Place(loc, db, p)
      /\ c.do # "print" => NamePlace(loc, db, p) /\ Hits(c.i)[c.j] \in Name
  BY FirstCall DEF Free
<1>2. ScanOK(loc, Live(eng), db, todo, acc) /\ db \in Databases
  BY <1>1, ScanFacts
<1>3. todo \in Seq(Call) /\ loc.docids \in Seq(Docs)
  BY <1>2, Basics DEF ScanOK, LocType
<1>4. Tail(todo) \in Seq(Call) /\ c \in InQueue(todo) /\ InQueue(Tail(todo)) \subseteq InQueue(todo)
  BY <1>3, PlacesTail
<1>5. p[1] = c.i /\ p[2] = c.j
  OBVIOUS
<1> HIDE DEF p, c
<1>6. c.i \in 1 .. Len(loc.docids) /\ loc.docids[c.i] \in Docs
  BY <1>1, <1>3, <1>5 DEF Place
<1>7. /\ IsName(loc.docids, db, p) \/ (db.hits[loc.docids[p[1]]] = <<>> /\ p[2] = 1)
      /\ c.do # "print" => IsName(loc.docids, db, p)
  BY <1>1, <1>5 DEF Place, NamePlace, HitsOf, IsName
<1>8. c.j \in 1 .. Span
  <2>1. CASE IsName(loc.docids, db, p)
    BY <1>2, <1>5, <1>6, <2>1, PlaceInBlock DEF IsName
  <2>2. CASE p[2] = 1
    BY <1>5, <2>2, Rows
  <2> QED BY <1>7, <2>1, <2>2
<1>9. p \in Places(loc.docids, db)
  <2>1. p \in (1 .. Len(loc.docids)) \X (1 .. Span)
    BY <1>6, <1>8 DEF p
  <2> QED BY <1>7, <2>1 DEF Places
<1>10. Hits(c.i)[c.j] = db.hits[loc.docids[c.i]][c.j]
  BY DEF Hits
<1> QED BY <1>1, <1>2, <1>3, <1>4, <1>7, <1>9, <1>10 DEF p, c

\* Only the pending statx() of the cache matter.
LEMMA WorkCache ==
    ASSUME NEW s, NEW L, NEW q, NEW a, NEW b, b.pending_stats = a.pending_stats, NEW c
    PROVE  InWork(s, L, q, b, c) <=> InWork(s, L, q, a, c)
BY DEF InWork

LEMMA MoveAnswer ==
    ASSUME SInv, Truth(set, loc, Live(eng), db, todo), "/" \in set.readable,
           pc # "end", at = "callback", todo # <<>>, Head(todo).do # "print",
           NEW ok \in BOOLEAN, Answer(Head(todo), ok), UNCHANGED loc,
           ok <=> Reach(set, Hits(Head(todo).i)[Head(todo).j]),
           acc'.pending_stats = acc.pending_stats
    PROVE  ScanMove
<1> DEFINE c == Head(todo)
           q == Tail(todo)
           L == Live(eng)
           p == <<c.i, c.j>>
           n == Hits(c.i)[c.j]
           cb == [k |-> "exists", i |-> c.i, j |-> c.j]
<1>1. /\ todo \in Seq(Call) /\ c \in Call /\ q \in Seq(Call) /\ c.i \in Nat /\ c.j \in Nat
      /\ InQueue(q) \subseteq InQueue(todo) /\ IsName(loc.docids, db, p)
      /\ n = db.hits[loc.docids[c.i]][c.j]
  BY CallAt
<1>2. p[1] = c.i /\ p[2] = c.j
  OBVIOUS
<1>3. Free(loc, L, db, q, acc, p)
  BY FirstCall
<1>4. L \in SUBSET Callback /\ set \in Settings
  BY Basics
<1>5. IsStat(cb, "exists", c.i, c.j)
  BY DEF IsStat
<1>6. \A x : InWork(loc, L, todo, acc, x) <=> (InWork(loc, L, q, acc, x) \/ x = p)
  BY <1>1, WorkTaken
<1>7. \A M, r, x : InWork(loc, M, r, acc', x) <=> InWork(loc, M, r, acc, x)
  BY WorkCache
<1>8. Shown(set, loc.docids, db, p) <=> (ok /\ (set.check_existence => n \in set.existing))
  BY <1>1, <1>2 DEF Shown, Vis
<1>9. CASE ok /\ set.check_existence /\ supports_stat
  <2>1. eng' = submit_stat(eng, cb) /\ todo' = q
    BY <1>9 DEF Answer
  <2>2. Mode = "uring" /\ EngOK(eng, "uring") /\ AtOK(eng, "callback", "uring")
    BY <1>9, Basics
  <2>3. StatMoves(L, "exists", c.i, c.j, cb)
    BY <1>1, <1>4, <1>5, StattedFacts
  <2>4. /\ Statted("exists", L \cup {cb}) = Statted("exists", L) \cup {p}
        /\ cb \notin L /\ cb \in Callback
    BY <1>3, <2>3 DEF StatMoves, Free
  <2> HIDE DEF cb, p, n, q, c
  <2>5. Live(eng') = L \cup {cb}
    BY <2>1, <2>2, <2>4, SubmitStatOK
  <2> HIDE DEF L
  <2>6. \A x : InWork(loc, L \cup {cb}, q, acc, x) <=> (InWork(loc, L, q, acc, x) \/ x = <<c.i, c.j>>)
    BY <1>1, <1>4, <1>5, WorkStat
  <2>7. \A x : InWork(loc, L \cup {cb}, q, acc', x) <=> InWork(loc, L, todo, acc, x)
    BY <1>6, <1>7, <2>6 DEF p
  <2>8. Truth(set, loc, L, db, todo)
    BY DEF L
  <2>9. set.check_existence /\ Reach(set, db.hits[loc.docids[p[1]]][p[2]])
    BY <1>1, <1>2, <1>9 DEF n, c
  <2>10. Truth(set, loc, L \cup {cb}, db, q)
    BY <1>1, <2>4, <2>8, <2>9 DEF Truth
  <2> QED BY <2>1, <2>5, <2>7, <2>10 DEF ScanMove, L
<1>10. CASE ~(ok /\ set.check_existence /\ supports_stat)
  <2> DEFINE b == ok /\ (set.check_existence => n \in set.existing)
             x == [c EXCEPT !.do = "print", !.ok = b]
  <2>1. todo' = <<x>> \o q /\ UNCHANGED eng
    BY <1>10 DEF Answer
  <2>2. b \in BOOLEAN
    OBVIOUS
  <2> HIDE DEF b
  <2>3. x \in Call /\ x.i = c.i /\ x.j = c.j /\ x.ok = b
    BY <1>1, <2>2 DEF Call
  <2> HIDE DEF x, p, n, q, c, L
  <2>4. \A y : InWork(loc, L, <<x>> \o q, acc, y) <=> (InWork(loc, L, q, acc, y) \/ y = <<x.i, x.j>>)
    BY <1>1, <2>3, WorkPut
  <2>5. \A y : InWork(loc, L, todo', acc', y) <=> InWork(loc, L, todo, acc, y)
    BY <1>6, <1>7, <2>1, <2>3, <2>4 DEF p
  <2>6. InQueue(<<x>> \o q) = InQueue(q) \cup {x}
    BY <1>1, <2>3, PlacesCons
  <2>7. x.ok <=> Shown(set, loc.docids, db, <<x.i, x.j>>)
    BY <1>8, <2>3 DEF b, p
  <2>8. Truth(set, loc, L, db, todo)
    BY DEF L
  <2>9. Truth(set, loc, L, db, todo')
    BY <1>1, <2>1, <2>6, <2>7, <2>8 DEF Truth
  <2> QED BY <2>1, <2>5, <2>9 DEF ScanMove, L
<1> QED BY <1>9, <1>10

LEMMA MoveCheckAccess ==
    ASSUME SInv, Truth(set, loc, Live(eng), db, todo), "/" \in set.readable,
           pc # "end", at = "callback", check_access
    PROVE  ScanMove
<1> DEFINE c == Head(todo)
           n == Hits(c.i)[c.j]
           L == Live(eng)
           q == Tail(todo)
           p == <<c.i, c.j>>
<1>1. todo # <<>> /\ c.do \in {"check", "check_now"} /\ c.do # "print" /\ UNCHANGED loc
  BY DEF check_access
<1>2. /\ todo \in Seq(Call) /\ c \in Call /\ q \in Seq(Call) /\ c.i \in Nat /\ c.j \in Nat
      /\ InQueue(q) \subseteq InQueue(todo) /\ n \in Name
  BY <1>1, CallAt
<1>3. /\ ~set.check_visibility => Reach(set, n)
      /\ set.check_visibility => (CheckNow(n).ok <=> Reach(set, n))
      /\ set.check_visibility /\ Settled(n) => ((Unsettled(n) = 0) <=> Reach(set, n))
  <2> HIDE DEF n
  <2> QED BY <1>2, AnswersRight
<1>4. /\ acc \in CacheType /\ acc.granted \subseteq readable /\ acc.denied \cap readable = {}
  BY DEF SInv, ScanInv
<1>5. L \in SUBSET Callback /\ Free(loc, L, db, q, acc, p)
  BY <1>1, Basics, FirstCall
<1>6. \A x : InWork(loc, L, todo, acc, x) <=> (InWork(loc, L, q, acc, x) \/ x = p)
  BY <1>1, <1>2, WorkTaken
<1>7. CASE ~set.check_visibility /\ Answer(c, TRUE) /\ UNCHANGED acc
  BY <1>1, <1>3, <1>7, MoveAnswer
<1>8. CASE set.check_visibility /\ Settled(n) /\ Answer(c, Unsettled(n) = 0) /\ UNCHANGED acc
  <2>1. (Unsettled(n) = 0) \in BOOLEAN
    OBVIOUS
  <2> QED BY <1>1, <1>3, <1>8, <2>1, MoveAnswer
<1>9. CASE set.check_visibility /\ Answer(c, CheckNow(n).ok) /\ acc' = CheckNow(n).cache
  <2>1. acc'.pending_stats = acc.pending_stats /\ CheckNow(n).ok \in BOOLEAN
    <3> HIDE DEF n
    <3> QED BY <1>2, <1>4, <1>9, CheckNowFacts
  <2> QED BY <1>1, <1>3, <1>9, <2>1, MoveAnswer
<1>10. CASE /\ Joinable(n) # {} /\ acc' = Joined(n, c) /\ todo' = Tail(todo) /\ UNCHANGED eng
  <2> DEFINE k == lower_bound(n)
  <2> HIDE DEF n, q, L, c
  <2>1. k \in DOMAIN acc.pending_stats
    BY <1>2, <1>4, <1>10, LowerBound
  <2>2. IsJoined(acc', acc, k, c)
    BY <1>2, <1>4, <1>10, <2>1, JoinedFacts
  <2> HIDE DEF k
  <2>3. \A x : InWork(loc, L, q, acc', x) <=> (InWork(loc, L, q, acc, x) \/ x = <<c.i, c.j>>)
    BY <1>2, <1>4, <2>1, <2>2, WorkJoined
  <2>4. todo' = q /\ Live(eng') = L
    BY <1>10 DEF q, L
  <2>5. \A x : InWork(loc, L, todo', acc', x) <=> InWork(loc, L, todo, acc, x)
    BY <1>6, <2>3, <2>4
  <2>6. Truth(set, loc, L, db, todo)
    BY DEF L
  <2>7. Truth(set, loc, L, db, todo')
    BY <1>2, <2>4, <2>6, TruthKept
  <2> QED BY <1>1, <2>4, <2>5, <2>7 DEF ScanMove, L
<1>11. CASE /\ supports_stat /\ ~Settled(n) /\ Joinable(n) = {}
            /\ acc' = Started(n) /\ todo' = Tail(todo)
            /\ eng' = submit_stat(eng, [k |-> "access", i |-> c.i, j |-> c.j])
  <2> DEFINE cb == [k |-> "access", i |-> c.i, j |-> c.j]
  <2>1. Mode = "uring" /\ EngOK(eng, "uring") /\ AtOK(eng, "callback", "uring")
    BY <1>11, Basics
  <2>2. IsStat(cb, "access", c.i, c.j) /\ eng' = submit_stat(eng, cb)
    BY <1>11 DEF IsStat
  <2> HIDE DEF cb, n, q, L, c
  <2>3. n \notin DOMAIN acc.pending_stats
    BY <1>2, <1>4, <1>11, NotYetStarted
  <2>4. IsStarted(acc', acc, n)
    BY <1>2, <1>4, <1>11, <2>3, StartedFacts
  <2>5. StatMoves(L, "access", c.i, c.j, cb)
    BY <1>2, <1>5, <2>2, StattedFacts
  <2>6. cb \notin L /\ cb \in Callback /\ cb.k = "access"
    BY <1>5, <2>5 DEF StatMoves, Free
  <2>7. Live(eng') = L \cup {cb}
    BY <2>1, <2>2, <2>6, SubmitStatOK DEF L
  <2>8. \A x : InWork(loc, L \cup {cb}, q, acc, x) <=> (InWork(loc, L, q, acc, x) \/ x = <<c.i, c.j>>)
    BY <1>2, <1>5, <2>2, WorkStat
  <2>9. \A x : InWork(loc, L \cup {cb}, q, acc', x) <=> InWork(loc, L \cup {cb}, q, acc, x)
    BY <2>3, <2>4, WorkStarted
  <2>10. todo' = q
    BY <1>11 DEF q
  <2>11. \A x : InWork(loc, L \cup {cb}, todo', acc', x) <=> InWork(loc, L, todo, acc, x)
    BY <1>6, <2>8, <2>9, <2>10
  <2>12. Truth(set, loc, L, db, todo)
    BY DEF L
  <2>13. Statted("exists", L \cup {cb}) = Statted("exists", L)
    BY <2>6, StattedOthers
  <2>14. Truth(set, loc, L \cup {cb}, db, todo')
    BY <1>2, <2>10, <2>12, <2>13, TruthKept
  <2> QED BY <1>1, <2>7, <2>11, <2>14 DEF ScanMove, L
<1> QED BY <1>7, <1>8, <1>9, <1>10, <1>11 DEF check_access

-----------------------------------------------------------------------------
(* Steps that print nothing.                                               *)

LEMMA LeadsKept ==
    ASSUME Leads, UNCHANGED <<opt, dbno, expected, printed>> PROVE Leads'
BY DEF Leads, Printed

\* No name is finished: the scan is where it was.
LEMMA ScanKeeps ==
    ASSUME InScan, ScanMove, at' # "callback" => ~CanDrain,
           UNCHANGED <<set, dbno, db, total, parent_left, expected, serializerVars>>
    PROVE  InScan'
<1> DEFINE D == loc.docids
           el == El(set, dbno, D, db)
           P == Places(D, db)
           F == Finished(loc, Live(eng), db, todo, acc)
<1>1. Finished(loc', Live(eng'), db, todo', acc') = F
  BY DEF ScanMove, Finished
<1>2. loc'.docids = D /\ loc'.matched = loc.matched /\ Truth(set, loc', Live(eng'), db, todo')
  BY DEF ScanMove
<1>3. /\ Searched /\ Counts /\ Candidates(D, db) /\ loc.matched = Cardinality(Messages(el, F))
      /\ IF opt.only_count
         THEN printed = <<>> /\ pending = {} /\ limit_left = opt.limit - total - loc.matched
         ELSE /\ OutOK(P, el, F, Earlier, next_seq, pending, printed)
              /\ limit_left = opt.limit - Len(printed)
  BY DEF InScan
<1>4. /\ UNCHANGED <<set, dbno, db, total, parent_left, expected>>
      /\ UNCHANGED <<opt, next_seq, pending, printed, limit_left, exited>>
  BY DEF serializerVars
<1>5. Searched' /\ Counts' /\ Earlier' = Earlier
  BY <1>3, <1>4 DEF Searched, Counts, Earlier
<1>6. CanDrain' <=> CanDrain
  BY <1>4 DEF CanDrain, Top
<1> HIDE DEF F, el, P
<1>7. /\ Finished(loc', Live(eng'), db', todo', acc') = F
      /\ El(set', dbno', loc'.docids, db') = el /\ Places(loc'.docids, db') = P
  BY <1>1, <1>2, <1>4 DEF el, P
<1> QED BY <1>2, <1>3, <1>4, <1>5, <1>6, <1>7 DEF InScan

LEMMA ScanStays ==
    ASSUME OInv, pc \in Scanning, pc' \in Scanning, ~exited, ScanMove, at' # "callback" => ~CanDrain,
           UNCHANGED <<set, dbno, db, total, parent_left, expected, serializerVars>>
    PROVE  OInv'
<1>1. InScan /\ Leads
  BY DEF OInv
<1>2. InScan'
  BY <1>1, ScanKeeps
<1>3. Leads' /\ ~exited'
  BY <1>1, LeadsKept DEF serializerVars
<1>4. pc' \notin {"main", "nothing", "end"} \cup Looking \cup Intersecting
  BY DEF Scanning, Looking, Intersecting
<1> QED BY <1>2, <1>3, <1>4 DEF OInv

LEMMA SearchStays ==
    ASSUME OInv, pc \in Looking \cup Intersecting, pc' \in Looking \cup Intersecting,
           UNCHANGED <<set, dbno, db, total, parent_left, expected, serializerVars>>
    PROVE  OInv'
<1>1. InSearch /\ Leads /\ pc # "nothing" /\ pc' # "nothing"
  BY DEF OInv, Looking, Intersecting
<1>2. InSearch'
  BY <1>1 DEF InSearch, Counts, Earlier, Printed, serializerVars, CanDrain, Top
<1>3. Leads'
  BY <1>1, LeadsKept DEF serializerVars
<1>4. pc' \notin {"main", "end"} \cup Scanning
  BY DEF Scanning, Looking, Intersecting
<1> QED BY <1>2, <1>3, <1>4 DEF OInv

LEMMA EndStays ==
    ASSUME OInv, pc' = "end", UNCHANGED <<dbno, total, expected, opt, printed>>,
           how' \in {"limit", "short_read"} => AtLimit, how' = "returned" => total < opt.limit
    PROVE  OInv'
<1>1. Leads'
  BY LeadsKept DEF OInv
<1>2. AtLimit' <=> AtLimit
  BY DEF AtLimit
<1>3. pc' \notin {"main", "nothing"} \cup Scanning \cup Looking \cup Intersecting
  BY DEF Scanning, Looking, Intersecting
<1> QED BY <1>1, <1>2, <1>3 DEF OInv

LEMMA EndsKeep ==
    ASSUME SInv, OInv, OpenFails \/ MainReturns \/ LimitReached \/ ReadFails
    PROVE  OInv'
<1> USE DEF serializerVars
<1>1. CASE OpenFails \/ ReadFails
  BY <1>1, EndStays DEF OpenFails, ReadFails, End
<1>2. CASE MainReturns
  <2>1. total < opt.limit
    BY <1>2 DEF MainReturns, OInv, AtMain
  <2> QED BY <1>2, <2>1, EndStays DEF MainReturns, End
<1>3. CASE LimitReached
  <2>1. pc \in Scanning
    BY <1>3 DEF LimitReached, OInv, AtMain, InSearch, Counts, SInv, PcOK
  <2>2. AtLimit
    BY <1>3, <2>1 DEF LimitReached, OInv
  <2> QED BY <1>3, <2>2, EndStays DEF LimitReached, End
<1> QED BY <1>1, <1>2, <1>3

\* The engine moves on, with the same callbacks under way.
LEMMA SameMove ==
    ASSUME Truth(set, loc, Live(eng), db, todo), Live(eng') = Live(eng), UNCHANGED <<loc, todo, acc>>
    PROVE  ScanMove
BY DEF ScanMove

LEMMA InScanNow ==
    ASSUME OInv, pc \in Scanning, ~exited
    PROVE  /\ InScan /\ Truth(set, loc, Live(eng), db, todo) /\ "/" \in set.readable
           /\ at # "callback" => ~CanDrain
<1>1. InScan
  BY DEF OInv
<1> QED BY <1>1 DEF InScan, Searched

LEMMA GetBlockKeeps ==
    ASSUME SInv, OInv, ~exited, get_compressed_filename_block PROVE OInv'
<1>1. /\ pc = "scan" /\ pc' = "scan" /\ at = "out" /\ at' = at
      /\ UNCHANGED <<set, dbno, db, total, parent_left, expected, serializerVars>>
  BY DEF get_compressed_filename_block, Search, Submit, Idle, mainVars
<1>2. pc \in Scanning /\ pc' \in Scanning
  BY <1>1 DEF Scanning
<1>3. ScanMove /\ ~CanDrain
  BY <1>1, <1>2, InScanNow, MoveGetBlock
<1> QED BY <1>1, <1>2, <1>3, ScanStays

LEMMA AwaitBlocksKeeps ==
    ASSUME SInv, OInv, ~exited, AwaitBlocks PROVE OInv'
<1>1. /\ pc = "scan" /\ pc' = "scanned" /\ CallFinish /\ at = "out" /\ UNCHANGED <<loc, todo, acc>>
      /\ UNCHANGED <<set, dbno, db, total, parent_left, expected, serializerVars>>
  BY DEF AwaitBlocks, Search, CallFinish, Idle, mainVars, accessVars
<1>2. pc \in Scanning /\ pc' \in Scanning
  BY <1>1 DEF Scanning
<1>3. Live(eng') = Live(eng)
  BY <1>1, Basics, CallFinishOK
<1>4. ScanMove /\ ~CanDrain
  BY <1>1, <1>2, <1>3, InScanNow, SameMove
<1> QED BY <1>1, <1>2, <1>4, ScanStays

LEMMA FinishKeeps ==
    ASSUME SInv, OInv, ~exited, pc # "end", finish PROVE OInv'
<1>1. /\ \/ FinishReturns \/ Peek \/ Wait \/ SubmitQueued \/ \E r \in eng.kernel : ShortRead(r)
      /\ UNCHANGED <<mainVars, pc, loc, todo, serializerVars, acc>>
  BY DEF finish, accessVars
<1>2. Live(eng') = Live(eng) /\ using_uring /\ at \notin {"out", "callback"} /\ at' # "callback"
  BY <1>1, Basics, FinishOK
<1>3. pc \in Finishing
  BY <1>2 DEF SInv, PcOK
<1>4. UNCHANGED <<set, dbno, db, total, parent_left, expected, serializerVars>>
  BY <1>1 DEF mainVars
<1>5. CASE pc \in Scanning
  <2>1. ScanMove /\ ~CanDrain
    BY <1>1, <1>2, <1>5, InScanNow, SameMove
  <2> QED BY <1>1, <1>4, <1>5, <2>1, ScanStays
<1>6. CASE pc \notin Scanning
  <2>1. pc \in Looking \cup Intersecting /\ pc' = pc
    BY <1>1, <1>3, <1>6 DEF Finishing, Scanning, Looking, Intersecting
  <2> QED BY <1>4, <2>1, SearchStays
<1> QED BY <1>5, <1>6

\* A completion: the lookups may end flocate, all others leave it where it is.
LEMMA CompletionKeeps ==
    ASSUME SInv, OInv, ~exited, pc # "end", OnCompletion PROVE OInv'
<1>1. PICK cb, e : Completing(cb, e) /\ (ReadCallback(cb, e) \/ StatCallback(cb, e))
  BY Completion
<1>2. UNCHANGED <<set, dbno, db, total, parent_left, expected, serializerVars>> /\ at' = "callback"
  BY DEF OnCompletion
<1>3. cb \in Callback /\ Belongs(cb, pc) /\ cb \in Live(eng)
  BY <1>1, LiveBelongs DEF Completing
<1>4. CASE cb.k = "lookup" /\ OnLookup(cb.t)
  <2>1. pc \in Looking
    BY <1>3, <1>4 DEF Belongs
  <2>2. CASE pc' = pc
    BY <1>2, <2>1, <2>2, SearchStays
  <2>3. CASE pc' = "end" /\ how' = "no_match"
    BY <1>2, <2>3, EndStays DEF serializerVars
  <2> QED BY <1>4, <2>2, <2>3 DEF OnLookup
<1>5. CASE cb.k \in {"dict", "postings"} /\ UNCHANGED pc
  <2>1. pc \in Looking \cup Intersecting
    BY <1>3, <1>5 DEF Belongs
  <2> QED BY <1>2, <1>5, <2>1, SearchStays
<1>6. CASE /\ cb.k = "index" /\ UNCHANGED <<pc, how, loc, todo, acc>>
           /\ eng' = submit_read(e, [k |-> "block", i |-> cb.i])
  <2>1. pc \in Scanning /\ pc' \in Scanning
    BY <1>3, <1>6 DEF Belongs
  <2>2. ScanMove
    BY <1>1, <1>6, <2>1, InScanNow, MoveIndex
  <2> QED BY <1>2, <2>1, <2>2, ScanStays
<1>7. CASE cb.k = "block" /\ OnBlock(cb.i) /\ eng' = e
  <2>1. pc \in Scanning /\ pc' \in Scanning
    BY <1>3, <1>7 DEF Belongs, OnBlock
  <2>2. ScanMove
    BY <1>1, <1>7, <2>1, InScanNow, MoveBlock
  <2> QED BY <1>2, <2>1, <2>2, ScanStays
<1>8. CASE cb.k = "access" /\ OnAccessStat(cb.i, cb.j) /\ eng' = e
  <2>1. pc \in Scanning /\ pc' \in Scanning
    BY <1>3, <1>8 DEF Belongs, OnAccessStat, Scanning
  <2>2. ScanMove
    BY <1>1, <1>8, <2>1, InScanNow, MoveAccess
  <2> QED BY <1>2, <2>1, <2>2, ScanStays
<1>9. CASE cb.k = "exists" /\ OnExistsStat(cb.i, cb.j) /\ eng' = e
  <2>1. pc \in Scanning /\ pc' \in Scanning
    BY <1>3, <1>9 DEF Belongs, OnExistsStat, Scanning
  <2>2. ScanMove
    BY <1>1, <1>9, <2>1, InScanNow, MoveExists
  <2> QED BY <1>2, <2>1, <2>2, ScanStays
<1>10. CASE ReadCallback(cb, e)
  BY <1>4, <1>5, <1>6, <1>7, <1>10 DEF ReadCallback, OnPostings
<1>11. CASE StatCallback(cb, e)
  BY <1>8, <1>9, <1>11 DEF StatCallback
<1> QED BY <1>1, <1>10, <1>11

LEMMA CheckAccessKeeps ==
    ASSUME SInv, OInv, ~exited, pc # "end", at = "callback", check_access,
           UNCHANGED <<mainVars, pc, at>>
    PROVE  OInv'
<1>1. todo # <<>> /\ UNCHANGED serializerVars
  BY DEF check_access
<1>2. pc \in Scanning /\ pc' \in Scanning
  BY <1>1, FirstCall
<1>3. ScanMove
  BY <1>2, InScanNow, MoveCheckAccess
<1> QED BY <1>1, <1>2, <1>3, ScanStays DEF mainVars

LEMMA CallbackReturnsKeeps ==
    ASSUME SInv, OInv, ~exited, pc # "end", ~CanDrain, CallbackReturns,
           UNCHANGED <<mainVars, pc, todo, loc, acc, serializerVars>>
    PROVE  OInv'
<1>1. Live(eng') = Live(eng) /\ at = "callback"
  BY Basics, CallbackReturnsOK
<1>2. pc \notin {"main", "nothing"}
  BY <1>1 DEF SInv, PcOK
<1>3. UNCHANGED <<set, dbno, db, total, parent_left, expected, serializerVars>>
  BY DEF mainVars
<1>4. CASE pc \in Scanning
  <2>1. ScanMove
    BY <1>1, <1>4, InScanNow, SameMove
  <2> QED BY <1>3, <1>4, <2>1, ScanStays
<1>5. CASE pc \notin Scanning
  <2>1. pc \in Looking \cup Intersecting /\ pc' = pc
    BY <1>2, <1>5 DEF SInv, PcOK
  <2> QED BY <1>3, <2>1, SearchStays
<1> QED BY <1>4, <1>5

\* The search in front of the scan prints nothing.
LEMMA SearchKeeps ==
    ASSUME OInv, Lookup \/ AwaitLookups \/ SortGroups \/ NextGroup \/ GroupDone \/ ReadPostings
                     \/ CaughtUp \/ AwaitPostings
    PROVE  OInv'
<1>1. /\ pc \in Looking \cup Intersecting /\ pc' \in Looking \cup Intersecting
      /\ UNCHANGED <<mainVars, serializerVars>>
  BY DEF Lookup, AwaitLookups, SortGroups, NextGroup, GroupDone, ReadPostings, CaughtUp,
         AwaitPostings, Search, Looking, Intersecting
<1> QED BY <1>1, SearchStays DEF mainVars

-----------------------------------------------------------------------------
(* From a database to the next.                                            *)

LEMMA LimGrows ==
    ASSUME NEW b \in Nat PROVE Lim(b) \in Nat /\ Lim(b + 1) \in Nat /\ Lim(b) <= Lim(b + 1)
<1>1. NumDocs \in Nat /\ Span \in Nat
  BY SearchAssumption
<1>2. NumDocs * Span \in Nat
  BY <1>1
<1>3. Lim(b) \in Nat /\ Lim(b + 1) = Lim(b) + NumDocs * Span
  BY <1>1 DEF Lim
<1> QED BY <1>2, <1>3

\* Without a match, and without leave to read "/", there is nothing to show.
LEMMA NothingToShow ==
    ASSUME NEW S, NEW b, NEW d, "/" \notin S.readable \/ (d \in Databases /\ Matches(d) = {})
    PROVE  Shows(S, b, d) = {}
<1>1. ASSUME NEW doc \in Docs, NEW k \in DOMAIN d.hits[doc], Vis(S, d.hits[doc][k]) PROVE FALSE
  <2>1. "/" \in S.readable
    BY <1>1 DEF Vis
  <2>2. d \in Databases /\ Matches(d) = {}
    BY <2>1
  <2>3. d.hits[doc] # <<>>
    BY <1>1, <2>2, PlaceInBlock
  <2> QED BY <2>2, <2>3 DEF Matches
<1> QED BY <1>1 DEF Shows

LEMMA ReturnsNone ==
    ASSUME OInv, InSearch, Return(0), Shows(set, dbno, db) = {} PROVE OInv'
<1>1. /\ pc' = "main" /\ total' = total + 0 /\ dbno' = dbno + 1
      /\ limit_left' = (IF dbno < set.dbpaths THEN parent_left ELSE limit_left) - 0
      /\ UNCHANGED <<set, expected, opt, printed, exited, next_seq, pending>>
  BY DEF Return, in_forked_child
<1>2. /\ Leads /\ opt.limit \in Nat /\ dbno \in Nat /\ expected \in SUBSET Nat /\ IsFiniteSet(expected)
  BY DEF OInv, Leads
<1>3. /\ expected = Earlier /\ total = Cardinality(Earlier) /\ parent_left = opt.limit - total
      /\ limit_left > 0 /\ ~exited /\ limit_left = opt.limit - total /\ ~CanDrain
      /\ IF opt.only_count THEN printed = <<>> ELSE Printed = Earlier
  BY DEF InSearch, Counts
<1>4. total = Cardinality(expected) /\ total \in Nat
  BY <1>2, <1>3, FS_CardinalityType
<1>5. Lim(dbno) \in Nat /\ Lim(dbno + 1) \in Nat /\ Lim(dbno) <= Lim(dbno + 1)
  BY <1>2, LimGrows
<1>6. \A x \in expected : x <= Lim(dbno + 1)
  <2>1. \A x \in expected : x \in Nat /\ x <= Lim(dbno)
    BY <1>2, <1>3 DEF Earlier, Early
  <2> QED BY <1>5, <2>1
<1>7. total' = total /\ limit_left' = opt.limit - total /\ total < opt.limit
  BY <1>1, <1>2, <1>3, <1>4
<1>8. Printed' = Printed /\ (CanDrain' <=> CanDrain)
  BY <1>1 DEF Printed, CanDrain, Top
<1>9. AtMain'
  BY <1>1, <1>3, <1>4, <1>6, <1>7, <1>8 DEF AtMain
<1>10. Leads'
  BY <1>1, <1>2, <1>8 DEF Leads
<1> QED BY <1>1, <1>9, <1>10 DEF OInv, Looking, Intersecting, Scanning

LEMMA NoneKeeps ==
    ASSUME SInv, OInv, NothingReadable \/ EarlyExit \/ NoCandidates PROVE OInv'
<1>1. CASE NothingReadable
  <2>1. pc = "nothing" /\ Return(0)
    BY <1>1 DEF NothingReadable
  <2>2. InSearch /\ "/" \notin set.readable
    BY <2>1 DEF OInv, InSearch
  <2> QED BY <2>1, <2>2, NothingToShow, ReturnsNone
<1>2. CASE EarlyExit \/ NoCandidates
  <2>1. /\ pc \in Looking \cup Intersecting /\ Return(0)
        /\ \/ pc = "looked_up" /\ loc.should_early_exit
           \/ pc = "intersected" /\ Idle /\ loc.done
    BY <1>2 DEF EarlyExit, NoCandidates, Looking, Intersecting
  <2>2. InSearch
    BY <2>1 DEF OInv
  <2>3. Matches(db) = {}
    BY <2>1, NoMatchNow DEF NoMatchMissed, Matching, Matches
  <2>4. db \in Databases
    BY <2>1 DEF SInv, PcOK, Looking, Intersecting
  <2> QED BY <2>1, <2>2, <2>3, <2>4, NothingToShow, ReturnsNone
<1> QED BY <1>1, <1>2

LEMMA ToShowIs == ASSUME SInv, NEW d PROVE ToShow(d) = Shows(set, dbno, d)
<1>1. readable = set.readable
  BY DEF SInv, Fixed
<1>2. \A n : Visible(n) <=> Vis(set, n)
  BY <1>1 DEF Visible, Vis, Reach
<1>3. \A doc, j : Id(doc, j) = IdAt(dbno, doc, j)
  BY DEF Id, IdAt
<1> QED BY <1>2, <1>3 DEF ToShow, Shows

LEMMA OpenKeeps == ASSUME SInv, OInv, OpenDatabase PROVE OInv'
<1>1. PICK d \in Databases : db' = d /\ expected' = expected \cup ToShow(d)
  BY DEF OpenDatabase
<1>2. /\ pc = "main" /\ dbno <= set.dbpaths /\ pc' = (IF "/" \in readable THEN "lookup" ELSE "nothing")
      /\ parent_left' = limit_left
      /\ UNCHANGED <<set, dbno, total, opt, printed, limit_left, exited, next_seq, pending>>
  BY DEF OpenDatabase, serializerVars
<1> DEFINE N == Shows(set, dbno, d)
<1>3. expected' = expected \cup N /\ readable = set.readable
  BY <1>1, ToShowIs DEF SInv, Fixed
<1>4. /\ Leads /\ opt.limit \in Nat /\ dbno \in Nat /\ expected \in SUBSET Nat /\ IsFiniteSet(expected)
      /\ Printed \subseteq expected
  BY DEF OInv, Leads
<1>5. AtMain
  BY <1>2 DEF OInv
<1>6. /\ \A x \in expected : x <= Lim(dbno)
      /\ total = Cardinality(expected) /\ total < opt.limit /\ ~exited /\ ~CanDrain
      /\ limit_left = opt.limit - total
      /\ IF opt.only_count THEN printed = <<>> ELSE Printed = expected
  BY <1>2, <1>5 DEF AtMain
<1>7. /\ \A x \in N : x \in Nat /\ x > Lim(dbno)
      /\ IsFiniteSet(N) /\ Lim(dbno) \in Nat
  BY <1>4, ShowsBounds
<1>8. total \in Nat
  BY <1>4, <1>6, FS_CardinalityType
<1>9. N = Shows(set', dbno', db') /\ Printed' = Printed /\ (CanDrain' <=> CanDrain)
  BY <1>1, <1>2 DEF Printed, CanDrain, Top
<1> HIDE DEF N
<1>10. Early(expected', dbno) = expected
  <2>1. \A x \in N : ~(x <= Lim(dbno))
    BY <1>7
  <2> QED BY <1>3, <1>6, <2>1 DEF Early
<1>11. Earlier' = expected
  BY <1>2, <1>10 DEF Earlier
<1>12. expected' \in SUBSET Nat /\ IsFiniteSet(expected')
  BY <1>3, <1>4, <1>7, FS_Union
<1>13. Leads'
  <2>1. ASSUME NEW s \in expected', NEW t \in Printed, s < t PROVE s \in Printed
    <3>1. t \in Nat /\ t <= Lim(dbno)
      BY <1>4, <1>6
    <3>2. s \in expected
      BY <1>3, <1>7, <2>1, <3>1
    <3> QED BY <1>4, <2>1, <3>2 DEF Leads
  <2>2. Printed \subseteq expected'
    BY <1>3, <1>4
  <2> QED BY <1>2, <1>4, <1>9, <1>12, <2>1, <2>2 DEF Leads
<1>14. InSearch'
  <2>1. Counts'
    BY <1>2, <1>4, <1>6, <1>8, <1>11 DEF Counts
  <2>2. (pc # "nothing")' <=> "/" \in set'.readable
    BY <1>2, <1>3
  <2> QED BY <1>2, <1>3, <1>6, <1>9, <1>11, <2>1, <2>2 DEF InSearch
<1> QED BY <1>2, <1>13, <1>14 DEF OInv, Looking, Intersecting, Scanning

\* At the start of the scan no name is finished, and nothing of this database printed.
LEMMA StartScanKeeps == ASSUME SInv, OInv, StartScan PROVE OInv'
<1>1. PICK o \in SetToSeqs(loc.cur_candidates) :
          /\ \A i, j \in DOMAIN o : i < j => o[i] < o[j]
          /\ loc' = [loc EXCEPT !.docids = o]
  BY DEF StartScan
<1>2. /\ pc = "intersected" /\ Idle /\ ~loc.done /\ pc' = "scan" /\ next_seq' = 0 /\ pending' = {}
      /\ acc' = EmptyCache
      /\ UNCHANGED <<set, dbno, db, total, parent_left, expected, todo, opt, printed, limit_left,
                     exited, eng, at>>
  BY DEF StartScan, mainVars, engineVars
<1>3. InSearch /\ Leads /\ dbno \in Nat
  BY <1>2 DEF OInv, Leads, Intersecting
<1>4. /\ at = "out" /\ todo = <<>> /\ Live(eng) = {} /\ db \in Databases
      /\ loc \in LocType(set.query) /\ PostOK(loc, Live(eng), db, set.query, "intersected")
  BY <1>2 DEF SInv, PcOK, Finishing, Scanning, Idle, Fixed, SearchOK, Intersecting
<1>5. Matches(db) \subseteq loc.cur_candidates
  BY <1>2, NoMatchNow DEF NoMatchMissed, Matching, Matches
<1>6. loc.cur_candidates \in SUBSET Docs /\ loc.next = 1 /\ loc.matched = 0
  BY <1>4 DEF LocType, PostOK, GroupsOK
<1>7. IsFiniteSet(loc.cur_candidates)
  <2>1. 0 \in Int /\ NumDocs - 1 \in Int
    BY SearchAssumption
  <2>2. IsFiniteSet(Docs)
    BY <2>1, FS_Interval DEF Docs
  <2> QED BY <1>6, <2>2, FS_Subset
<1>8. o \in Seq(Docs) /\ InQueue(o) = loc.cur_candidates
  <2>1. o \in Seq(loc.cur_candidates) /\ InQueue(o) = loc.cur_candidates
    BY <1>7, OrderOf
  <2> QED BY <1>6, <2>1
<1>9. loc'.docids = o /\ loc'.next = 1 /\ loc'.matched = 0
  BY <1>1, <1>4, <1>6 DEF LocType
<1>10. Candidates(o, db)
  BY <1>1, <1>5, <1>8 DEF Candidates, Ascending
<1> DEFINE el == El(set, dbno, o, db)
           P == Places(o, db)
<1>11. Finished(loc', Live(eng'), db, todo', acc') = {}
  <2>1. ASSUME NEW c \in P PROVE c[1] \in Unread(loc', Live(eng'))
    <3>1. c[1] \in 1 .. Len(o)
      BY <1>4, <1>8, PlaceFacts
    <3>2. Len(o) \in Nat
      BY <1>8
    <3> QED BY <1>9, <3>1, <3>2 DEF Unread
  <2> QED BY <1>9, <2>1 DEF Finished, InWork
<1>12. Truth(set, loc', Live(eng'), db, todo')
  <2>1. InQueue(todo') = {} /\ Live(eng') = {}
    BY <1>2, <1>4 DEF InQueue
  <2> QED BY <2>1 DEF Truth, Statted
<1>13. Messages(el, {}) = {}
  BY DEF Messages
<1>14. Laid(P, el, Row(Len(o)))
  BY <1>3, <1>4, <1>8, <1>10, CandidatesLaid DEF Candidates
<1>15. /\ expected = Earlier \cup Shows(set, dbno, db) /\ Counts /\ "/" \in set.readable
       /\ limit_left = opt.limit - total
       /\ IF opt.only_count THEN printed = <<>> ELSE Printed = Earlier
  BY <1>2, <1>3 DEF InSearch
<1>16. Searched' /\ Counts' /\ Earlier' = Earlier
  BY <1>2, <1>15 DEF Searched, Counts, Earlier
<1> HIDE DEF el, P
<1>17. \A c \in P : ~(el[c].seq < 0)
  BY <1>14, ElementFacts
<1>18. ~opt.only_count => OutOK(P, el, {}, Earlier, 0, {}, printed)
  <2>1. printed \in Seq(Nat) /\ Ascending(printed)
    BY <1>3 DEF Leads
  <2>2. {c \in P : el[c].seq < 0} = {}
    BY <1>17
  <2>3. ~opt.only_count => InQueue(printed) = Earlier
    BY <1>15 DEF Printed, InQueue
  <2> QED BY <1>13, <1>17, <2>1, <2>2, <2>3 DEF OutOK
<1>19. ~opt.only_count => Len(printed) = total
  <2>1. printed \in Seq(Nat) /\ Ascending(printed)
    BY <1>3 DEF Leads
  <2>2. Cardinality(InQueue(printed)) = Len(printed)
    BY <2>1, CountPrinted
  <2> QED BY <1>15, <2>2 DEF Counts, Printed, InQueue
<1>20. Cardinality({}) = 0
  BY FS_EmptySet
<1>21. ~CanDrain'
  BY <1>2 DEF CanDrain, Top
<1>22. opt.only_count => limit_left = opt.limit - total - 0
  <2>1. opt.limit \in Nat /\ total \in Nat
    <3>1. IsFiniteSet(Earlier)
      BY <1>3, FS_Subset DEF Leads, Earlier, Early
    <3> QED BY <1>3, <1>15, <3>1, FS_CardinalityType DEF Leads, Counts
  <2> QED BY <1>15, <2>1
<1>23. /\ Finished(loc', Live(eng'), db', todo', acc') = {}
       /\ El(set', dbno', loc'.docids, db') = el /\ Places(loc'.docids, db') = P
  BY <1>2, <1>9, <1>11 DEF el, P
<1>24. InScan'
  <2>1. IF opt'.only_count
        THEN printed' = <<>> /\ pending' = {} /\ limit_left' = opt'.limit - total' - loc'.matched
        ELSE /\ OutOK(P, el, {}, Earlier', next_seq', pending', printed')
             /\ limit_left' = opt'.limit - Len(printed')
    BY <1>2, <1>9, <1>15, <1>16, <1>18, <1>19, <1>22
  <2>2. Truth(set', loc', Live(eng'), db', todo') /\ Candidates(loc'.docids, db')
    BY <1>2, <1>9, <1>10, <1>12
  <2> QED BY <1>9, <1>13, <1>16, <1>20, <1>21, <1>23, <2>1, <2>2 DEF InScan
<1>25. Leads'
  BY <1>2, <1>3, LeadsKept
<1>26. ~exited'
  BY <1>2, <1>15 DEF Counts
<1> QED BY <1>2, <1>24, <1>25, <1>26 DEF OInv, Looking, Intersecting, Scanning

\* The scan ends with every name finished.
LEMMA AllFinished ==
    ASSUME SInv, pc = "scanned", Idle
    PROVE  Finished(loc, Live(eng), db, todo, acc) = Places(loc.docids, db)
<1>1. /\ Live(eng) = {} /\ todo = <<>> /\ db \in Databases /\ loc.docids \in Seq(Docs)
      /\ loc.next > Len(loc.docids) /\ loc.next \in Nat
      /\ StatsOK(loc, Live(eng), db, acc)
  BY Basics, ScanFacts DEF Idle, Scanning, LocType
<1>2. Statted("access", Live(eng)) = {} /\ Statted("exists", Live(eng)) = {}
  BY <1>1 DEF Statted
<1>3. DOMAIN acc.pending_stats = {}
  BY <1>1, <1>2 DEF StatsOK
<1>4. PlacesIn(todo) = {} /\ PlacesWaiting(acc.pending_stats) = {}
  BY <1>1, <1>3 DEF PlacesIn, PlacesWaiting
<1>5. ASSUME NEW c \in Places(loc.docids, db) PROVE c[1] \notin Unread(loc, Live(eng))
  <2>1. c[1] \in 1 .. Len(loc.docids) /\ Len(loc.docids) \in Nat
    BY <1>1, PlaceFacts
  <2> QED BY <1>1, <2>1 DEF Unread
<1> QED BY <1>2, <1>4, <1>5 DEF Finished, InWork

LEMMA ScannedKeeps == ASSUME SInv, OInv, ~exited, Scanned PROVE OInv'
<1>1. /\ pc = "scanned" /\ Idle /\ pc' = "main" /\ total' = total + loc.matched /\ dbno' = dbno + 1
      /\ limit_left' = (IF dbno < set.dbpaths THEN parent_left ELSE limit_left) - loc.matched
      /\ UNCHANGED <<set, expected, opt, printed, exited, next_seq, pending>>
  BY DEF Scanned, Return, in_forked_child
<1>2. pc \in Scanning /\ at # "callback"
  BY <1>1 DEF Scanning, Idle
<1>3. InScan /\ ~CanDrain
  BY <1>2, InScanNow
<1> DEFINE D == loc.docids
           el == El(set, dbno, D, db)
           P == Places(D, db)
           N == Shows(set, dbno, db)
<1>4. Finished(loc, Live(eng), db, todo, acc) = P
  BY <1>1, AllFinished
<1>5. /\ Searched /\ Counts /\ Candidates(D, db) /\ loc.matched = Cardinality(Messages(el, P))
      /\ IF opt.only_count
         THEN printed = <<>> /\ pending = {} /\ limit_left = opt.limit - total - loc.matched
         ELSE /\ OutOK(P, el, P, Earlier, next_seq, pending, printed)
              /\ limit_left = opt.limit - Len(printed)
  BY <1>3, <1>4 DEF InScan
<1>6. D \in Seq(Docs) /\ db \in Databases /\ set.dbpaths \in Nat
  BY <1>2, Basics, ScanFacts, SettingsFacts DEF LocType
<1>7. /\ Leads /\ opt.limit \in Nat /\ dbno \in Nat /\ expected \in SUBSET Nat /\ IsFiniteSet(expected)
  BY DEF OInv, Leads
<1>8. Laid(P, el, Row(Len(D))) /\ Messages(el, P) = N
  BY <1>5, <1>6, <1>7, CandidatesLaid, AllShown DEF Candidates
<1>9. /\ \A x \in N : x \in Nat /\ x > Lim(dbno) /\ x <= Lim(dbno + 1)
      /\ IsFiniteSet(N) /\ Lim(dbno) \in Nat /\ Lim(dbno + 1) \in Nat /\ Lim(dbno) <= Lim(dbno + 1)
  BY <1>6, <1>7, ShowsBounds, LimGrows
<1>10. expected = Earlier \cup N
  BY <1>5 DEF Searched
<1> HIDE DEF el, P, N, D
<1>11. \A x \in Earlier : x \in Nat /\ x <= Lim(dbno) /\ x \in expected
  BY <1>7 DEF Earlier, Early
<1>12. IsFiniteSet(Earlier)
  BY <1>7, <1>11, FS_Subset
<1>13. Earlier \cap N = {}
  BY <1>9, <1>11
<1>14. Cardinality(expected) = Cardinality(Earlier) + Cardinality(N)
  BY <1>9, <1>10, <1>12, <1>13, CountDisjoint
<1>15. total = Cardinality(Earlier) /\ total \in Nat /\ loc.matched = Cardinality(N) /\ loc.matched \in Nat
  BY <1>5, <1>8, <1>9, <1>12, FS_CardinalityType DEF Counts
<1>16. total' = Cardinality(expected)
  BY <1>1, <1>14, <1>15
<1>17. \A x \in expected : x <= Lim(dbno + 1)
  BY <1>9, <1>10, <1>11
<1>18. ~opt.only_count => InQueue(printed) = expected
  <2>1. \A e \in pending : (\A f \in pending : e.seq <= f.seq) => e.seq # next_seq
    BY <1>3 DEF CanDrain, Top
  <2> QED BY <1>5, <1>8, <1>10, <2>1, AllPrinted
<1>19. ~opt.only_count => Len(printed) = Cardinality(expected)
  BY <1>7, <1>18, CountPrinted DEF Leads
<1>20. limit_left > 0 /\ parent_left = opt.limit - total /\ ~exited
  BY <1>5 DEF Counts
<1>21. total' < opt.limit
  <2>1. CASE opt.only_count
    BY <1>1, <1>5, <1>7, <1>15, <1>20, <2>1
  <2>2. CASE ~opt.only_count
    BY <1>1, <1>5, <1>7, <1>15, <1>16, <1>19, <1>20, <2>2
  <2> QED BY <2>1, <2>2
<1>22. dbno' <= set.dbpaths => limit_left' = opt.limit - total'
  BY <1>1, <1>6, <1>7, <1>15, <1>20, SMTT(40)
<1>23. Printed' = Printed /\ Printed = InQueue(printed) /\ (CanDrain' <=> CanDrain)
  BY <1>1 DEF Printed, InQueue, CanDrain, Top
<1>24. IF opt.only_count THEN printed = <<>> ELSE Printed = expected
  BY <1>5, <1>18, <1>23
<1>25. AtMain'
  BY <1>1, <1>3, <1>16, <1>17, <1>20, <1>21, <1>22, <1>23, <1>24 DEF AtMain
<1>26. Leads'
  BY <1>1, <1>7, <1>23 DEF Leads
<1> QED BY <1>1, <1>25, <1>26 DEF OInv, Looking, Intersecting, Scanning

-----------------------------------------------------------------------------
(* Steps that print.                                                       *)

AllPlaces == Places(loc.docids, db)
Elements == El(set, dbno, loc.docids, db)
FinishedNow == Finished(loc, Live(eng), db, todo, acc)

LEMMA ScanSetting ==
    ASSUME SInv, OInv, InScan, pc \in Scanning
    PROVE  /\ Laid(AllPlaces, Elements, Row(Len(loc.docids))) /\ Above(Earlier, AllPlaces, Elements)
           /\ expected = Earlier \cup Messages(Elements, AllPlaces)
           /\ IsFiniteSet(Earlier) /\ IsFiniteSet(Messages(Elements, AllPlaces))
           /\ Earlier \cap Messages(Elements, AllPlaces) = {}
           /\ total = Cardinality(Earlier) /\ total \in Nat /\ opt.limit \in Nat
           /\ FinishedNow \subseteq AllPlaces /\ loc.matched = Cardinality(Messages(Elements, FinishedNow))
           /\ limit_left > 0 /\ ~exited
<1>1. loc.docids \in Seq(Docs) /\ db \in Databases
  BY Basics, ScanFacts DEF LocType
<1>2. /\ Leads /\ opt.limit \in Nat /\ dbno \in Nat /\ expected \in SUBSET Nat /\ IsFiniteSet(expected)
  BY DEF OInv, Leads
<1>3. /\ Searched /\ Counts /\ Candidates(loc.docids, db)
      /\ loc.matched = Cardinality(Messages(Elements, FinishedNow))
  BY DEF InScan, Elements, FinishedNow
<1>4. /\ Laid(AllPlaces, Elements, Row(Len(loc.docids)))
      /\ Messages(Elements, AllPlaces) = Shows(set, dbno, db)
  BY <1>1, <1>2, <1>3, CandidatesLaid, AllShown DEF Candidates, AllPlaces, Elements
<1>5. /\ \A x \in Shows(set, dbno, db) : x \in Nat /\ x > Lim(dbno)
      /\ IsFiniteSet(Shows(set, dbno, db)) /\ Lim(dbno) \in Nat
  BY <1>1, <1>2, ShowsBounds
<1>6. expected = Earlier \cup Messages(Elements, AllPlaces)
  BY <1>3, <1>4 DEF Searched
<1>7. \A x \in Earlier : x \in Nat /\ x <= Lim(dbno) /\ x \in expected
  BY <1>2 DEF Earlier, Early
<1>8. IsFiniteSet(Earlier)
  BY <1>2, <1>7, FS_Subset
<1>9. Earlier \cap Messages(Elements, AllPlaces) = {}
  BY <1>4, <1>5, <1>7
<1>10. Above(Earlier, AllPlaces, Elements)
  <2> SUFFICES ASSUME NEW x \in Earlier, NEW c \in AllPlaces, Elements[c].msg # NoMsg
               PROVE  x < Elements[c].msg
    BY <1>7 DEF Above
  <2>1. Elements[c].msg \in Shows(set, dbno, db)
    BY <1>4 DEF Messages
  <2> QED BY <1>5, <1>7, <2>1
<1>11. total = Cardinality(Earlier) /\ total \in Nat /\ limit_left > 0 /\ ~exited
  BY <1>3, <1>8, FS_CardinalityType DEF Counts
<1>12. FinishedNow \subseteq AllPlaces
  BY DEF FinishedNow, AllPlaces, Finished
<1> QED BY <1>2, <1>3, <1>4, <1>5, <1>6, <1>8, <1>9, <1>10, <1>11, <1>12

\* What the serializer has done with the element of c, up to apply_limit().
LEMMA PrintNowDoes ==
    ASSUME SInv, OInv, InScan, pc \in Scanning, ~opt.only_count, NEW c \in AllPlaces,
           Elements[c].seq = next_seq, PrintNow(Elements[c]), UNCHANGED <<opt, dbno, expected>>
    PROVE  /\ OutOK(AllPlaces, Elements, FinishedNow \cup {c}, Earlier, next_seq + Elements[c].skip,
                    pending \ {Elements[c]}, printed')
           /\ Leads'
           /\ IF exited' THEN AtLimit'
              ELSE /\ next_seq' = next_seq + Elements[c].skip
                   /\ limit_left' > 0 /\ limit_left' = opt.limit - Len(printed')
<1> DEFINE P == AllPlaces
           el == Elements
           k == next_seq + el[c].skip
<1>1. /\ Laid(P, el, Row(Len(loc.docids))) /\ Above(Earlier, P, el)
      /\ expected = Earlier \cup Messages(el, P) /\ opt.limit \in Nat /\ limit_left > 0 /\ ~exited
  BY ScanSetting
<1>2. /\ OutOK(P, el, FinishedNow, Earlier, next_seq, pending, printed)
      /\ limit_left = opt.limit - Len(printed)
  BY DEF InScan, AllPlaces, Elements, FinishedNow
<1>3. Leads
  BY DEF OInv
<1>4. \/ /\ el[c].msg = NoMsg /\ printed' = printed /\ limit_left' = limit_left /\ exited' = exited
      \/ /\ el[c].msg # NoMsg /\ printed' = Append(printed, el[c].msg)
         /\ limit_left' = limit_left - 1 /\ exited' = (limit_left' <= 0)
  BY DEF PrintNow, apply_limit
<1>5. Wrote(printed, el[c].msg, printed')
  BY <1>4 DEF Wrote
<1>6. next_seq' = IF exited' THEN next_seq ELSE k
  BY DEF PrintNow
<1> HIDE DEF P, el, k
<1>7. OutOK(P, el, FinishedNow \cup {c}, Earlier, k, pending \ {el[c]}, printed')
  BY <1>1, <1>2, <1>5, PrintedInTurn DEF P, el, k
<1>8. /\ InQueue(printed') \subseteq expected
      /\ \A s \in expected : \A t \in InQueue(printed') : s < t => s \in InQueue(printed')
  BY <1>1, <1>7, PrintedFirst
<1>9. printed' \in Seq(Nat) /\ Ascending(printed')
  BY <1>7 DEF OutOK
<1>10. /\ Len(printed') = Cardinality(InQueue(printed')) /\ IsFiniteSet(InQueue(printed'))
       /\ Len(printed') \in Nat
  BY <1>9, CountPrinted
<1>11. printed \in Seq(Nat) /\ Len(printed) \in Nat /\ limit_left \in Int
  BY <1>1, <1>2 DEF OutOK
<1>12. el[c].msg # NoMsg => Len(printed') = Len(printed) + 1
  BY <1>4, <1>11
<1>13. /\ limit_left' = opt.limit - Len(printed')
       /\ exited' => limit_left' = 0
       /\ ~exited' => limit_left' > 0
  <2>1. CASE el[c].msg = NoMsg
    BY <1>1, <1>2, <1>4, <2>1
  <2>2. CASE el[c].msg # NoMsg
    <3>1. limit_left' = limit_left - 1 /\ exited' = (limit_left' <= 0)
      BY <1>4, <2>2
    <3>2. Len(printed') = Len(printed) + 1
      BY <1>12, <2>2
    <3>3. limit_left' = opt.limit - Len(printed') /\ limit_left' >= 0 /\ limit_left' \in Int
      BY <1>1, <1>2, <1>11, <3>1, <3>2
    <3>4. limit_left' <= 0 => limit_left' = 0
      BY <3>3
    <3>5. ~(limit_left' <= 0) => limit_left' > 0
      BY <3>3
    <3> QED BY <3>1, <3>3, <3>4, <3>5
  <2> QED BY <2>1, <2>2
<1>14. Len(printed') <= opt.limit
  BY <1>1, <1>10, <1>13
<1>15. Leads'
  <2>1. Printed' = InQueue(printed')
    BY DEF Printed, InQueue
  <2>2. /\ opt \in [limit : Nat \ {0}, only_count : BOOLEAN] /\ dbno \in Nat \ {0}
        /\ expected \in SUBSET Nat /\ IsFiniteSet(expected)
    BY <1>3 DEF Leads
  <2>3. opt' = opt /\ dbno' = dbno /\ expected' = expected
    OBVIOUS
  <2> QED BY <1>8, <1>9, <1>14, <2>1, <2>2, <2>3 DEF Leads
<1>16. exited' => AtLimit'
  <2>1. IsFiniteSet(expected)
    BY <1>3 DEF Leads
  <2>2. Cardinality(InQueue(printed')) <= Cardinality(expected)
    BY <1>8, <2>1, FS_Subset
  <2>3. ASSUME exited' PROVE Len(printed') = opt.limit
    BY <1>1, <1>10, <1>13, <2>3
  <2> QED BY <1>10, <2>2, <2>3 DEF AtLimit
<1> QED BY <1>6, <1>7, <1>13, <1>15, <1>16 DEF P, el, k

\* The scan goes on, in the callback, with F finished.
LEMMA ScanGoesOn ==
    ASSUME InScan, NEW F, Finished(loc', Live(eng'), db, todo', acc') = F,
           loc'.docids = loc.docids, Truth(set, loc', Live(eng'), db, todo'),
           loc'.matched = Cardinality(Messages(Elements, F)), limit_left' > 0, ~exited',
           IF opt.only_count
           THEN printed' = <<>> /\ pending' = {} /\ limit_left' = opt.limit - total - loc'.matched
           ELSE /\ OutOK(AllPlaces, Elements, F, Earlier, next_seq', pending', printed')
                /\ limit_left' = opt.limit - Len(printed'),
           at' = "callback", UNCHANGED <<set, dbno, db, total, parent_left, expected, opt>>
    PROVE  InScan'
<1>1. Searched /\ Counts /\ Candidates(loc.docids, db)
  BY DEF InScan
<1>2. Searched' /\ Counts' /\ Earlier' = Earlier
  BY <1>1 DEF Searched, Counts, Earlier
<1>3. /\ El(set', dbno', loc'.docids, db') = Elements /\ Places(loc'.docids, db') = AllPlaces
      /\ Finished(loc', Live(eng'), db', todo', acc') = F
  BY DEF Elements, AllPlaces
<1>4. Truth(set', loc', Live(eng'), db', todo') /\ Candidates(loc'.docids, db')
  BY <1>1
<1>5. IF opt'.only_count
      THEN printed' = <<>> /\ pending' = {} /\ limit_left' = opt'.limit - total' - loc'.matched
      ELSE /\ OutOK(AllPlaces, Elements, F, Earlier', next_seq', pending', printed')
           /\ limit_left' = opt'.limit - Len(printed')
  BY <1>2
<1> QED BY <1>2, <1>3, <1>4, <1>5 DEF InScan

\* OInv after a step in the callbacks of the scan.
LEMMA ScanOInv ==
    ASSUME pc' \in Scanning, Leads', IF exited' THEN AtLimit' ELSE InScan' PROVE OInv'
<1>1. pc' \notin {"main", "nothing", "end"} \cup Looking \cup Intersecting
  BY DEF Scanning, Looking, Intersecting
<1> QED BY <1>1 DEF OInv

LEMMA DrainKeeps ==
    ASSUME SInv, OInv, ~exited, pc # "end", at = "callback", Drain,
           UNCHANGED <<mainVars, pc, at, todo, loc, eng, acc>>, pc \in Scanning
    PROVE  OInv'
<1>1. InScan /\ Truth(set, loc, Live(eng), db, todo)
  BY InScanNow
<1>2. PICK e \in Top : e.seq = next_seq /\ PrintNow(e) /\ pending' = pending \ {e} /\ UNCHANGED opt
  BY DEF Drain
<1>3. e \in pending
  BY DEF Top
<1>4. ~opt.only_count
  BY <1>1, <1>3 DEF InScan
<1>5. OutOK(AllPlaces, Elements, FinishedNow, Earlier, next_seq, pending, printed)
  BY <1>1, <1>4 DEF InScan, AllPlaces, Elements, FinishedNow
<1>6. PICK c \in FinishedNow : e = Elements[c]
  BY <1>3, <1>5 DEF OutOK
<1>7. c \in AllPlaces /\ FinishedNow \cup {c} = FinishedNow
  BY <1>6 DEF FinishedNow, AllPlaces, Finished
<1>8. UNCHANGED <<set, dbno, db, total, parent_left, expected, opt>>
  BY <1>2 DEF mainVars
<1>9. /\ OutOK(AllPlaces, Elements, FinishedNow, Earlier, next_seq + e.skip, pending', printed')
      /\ Leads'
      /\ IF exited' THEN AtLimit'
         ELSE /\ next_seq' = next_seq + e.skip
              /\ limit_left' > 0 /\ limit_left' = opt.limit - Len(printed')
  BY <1>1, <1>2, <1>4, <1>6, <1>7, <1>8, PrintNowDoes
<1>10. ASSUME ~exited' PROVE InScan'
  <2>1. OutOK(AllPlaces, Elements, FinishedNow, Earlier, next_seq', pending', printed')
    BY <1>9, <1>10
  <2>2. Finished(loc', Live(eng'), db, todo', acc') = FinishedNow
    BY DEF FinishedNow
  <2>3. Truth(set, loc', Live(eng'), db, todo') /\ loc'.docids = loc.docids
    BY <1>1
  <2>4. loc'.matched = Cardinality(Messages(Elements, FinishedNow))
    BY <1>1 DEF InScan, Elements, FinishedNow
  <2> QED BY <1>1, <1>4, <1>8, <1>9, <1>10, <2>1, <2>2, <2>3, <2>4, ScanGoesOn
<1> QED BY <1>9, <1>10, ScanOInv

\* A message more, if there is one.
Counted(P, el, F, c) ==
    /\ IsFiniteSet(Messages(el, F)) /\ Messages(el, F) \subseteq Messages(el, P)
    /\ Cardinality(Messages(el, F)) \in Nat
    /\ el[c].msg # NoMsg => Cardinality(Messages(el, F \cup {c})) = Cardinality(Messages(el, F)) + 1
    /\ el[c].msg = NoMsg => Messages(el, F \cup {c}) = Messages(el, F)

LEMMA OneMore ==
    ASSUME NEW P, NEW el, NEW T, Laid(P, el, T), IsFiniteSet(Messages(el, P)),
           NEW F, F \subseteq P, NEW c \in P, c \notin F
    PROVE  Counted(P, el, F, c)
<1>1. Messages(el, F) \subseteq Messages(el, P)
  BY DEF Messages
<1>2. IsFiniteSet(Messages(el, F)) /\ Cardinality(Messages(el, F)) \in Nat
  BY <1>1, FS_Subset, FS_CardinalityType
<1>3. ASSUME el[c].msg # NoMsg PROVE el[c].msg \notin Messages(el, F)
  <2> SUFFICES ASSUME NEW f \in F, el[f].msg = el[c].msg PROVE FALSE
    BY DEF Messages
  <2>1. f \in P /\ f # c /\ el[f].msg # NoMsg
    BY <1>3
  <2>2. Apart(el[c], el[f])
    BY <2>1 DEF Laid
  <2>3. /\ el[c].seq \in Nat /\ EndOf(el[c]) \in Nat /\ el[c].seq < EndOf(el[c])
        /\ el[c].msg \in Nat \cup {NoMsg}
        /\ el[f].seq \in Nat /\ EndOf(el[f]) \in Nat /\ el[f].seq < EndOf(el[f])
    BY <2>1, ElementFacts
  <2>4. el[c].seq < el[f].seq \/ el[f].seq < el[c].seq
    BY <2>2, <2>3 DEF Apart
  <2>5. el[c].msg < el[f].msg \/ el[f].msg < el[c].msg
    BY <1>3, <2>1, <2>4 DEF Laid
  <2>6. el[c].msg \in Nat
    BY <1>3, <2>3
  <2> QED BY <2>5, <2>6
<1>4. ASSUME el[c].msg # NoMsg
      PROVE  Cardinality(Messages(el, F \cup {c})) = Cardinality(Messages(el, F)) + 1
  <2>1. Messages(el, F \cup {c}) = Messages(el, F) \cup {el[c].msg}
    BY <1>4, MessagesGrow, ZenonT(40)
  <2>2. Cardinality(Messages(el, F) \cup {el[c].msg}) = Cardinality(Messages(el, F)) + 1
    BY <1>2, <1>3, <1>4, FS_AddElement
  <2> QED BY <2>1, <2>2
<1> QED BY <1>1, <1>2, <1>4, MessagesGrow DEF Counted

\* The name that is printed is finished by it, and what is printed is right.
LEMMA PrintTakes ==
    ASSUME SInv, OInv, InScan, pc # "end", todo # <<>>, Head(todo).do = "print",
           loc' = IF Head(todo).ok THEN [loc EXCEPT !.matched = @ + 1] ELSE loc,
           todo' = Tail(todo), UNCHANGED <<eng, acc>>
    PROVE  LET p == <<Head(todo).i, Head(todo).j>>
           IN  /\ p \in AllPlaces /\ p \notin FinishedNow
               /\ Finished(loc', Live(eng'), db, todo', acc') = FinishedNow \cup {p}
               /\ Truth(set, loc', Live(eng'), db, todo') /\ loc'.docids = loc.docids
               /\ Head(todo).ok <=> Shown(set, loc.docids, db, p)
               /\ loc'.matched = loc.matched + (IF Head(todo).ok THEN 1 ELSE 0)
               /\ loc.matched \in Nat
<1> DEFINE call == Head(todo)
           p == <<call.i, call.j>>
<1>1. /\ todo \in Seq(Call) /\ call \in InQueue(todo) /\ pc \in Scanning /\ call.ok \in BOOLEAN
      /\ p \in Places(loc.docids, db) /\ InQueue(Tail(todo)) \subseteq InQueue(todo)
  BY CallAt
<1>2. Free(loc, Live(eng), db, Tail(todo), acc, p)
  BY FirstCall
<1>3. loc \in LocType(set.query)
  BY Basics
<1>4. /\ loc'.docids = loc.docids /\ loc'.next = loc.next /\ loc.matched \in Nat
      /\ loc'.matched = loc.matched + (IF call.ok THEN 1 ELSE 0)
  <2>1. loc.matched \in Nat
    BY <1>3 DEF LocType
  <2>2. CASE call.ok
    BY <1>3, <2>1, <2>2 DEF LocType
  <2>3. CASE ~call.ok
    BY <2>1, <2>3
  <2> QED BY <2>1, <2>2, <2>3
<1>5. Truth(set, loc, Live(eng), db, todo)
  BY DEF InScan
<1> HIDE DEF p
<1>6. ~InWork(loc, Live(eng), Tail(todo), acc, p)
  BY <1>2 DEF Free, InWork
<1>7. \A c : InWork(loc, Live(eng), todo, acc, c) <=> (InWork(loc, Live(eng), Tail(todo), acc, c) \/ c = p)
  BY <1>1, WorkTaken DEF p
<1>8. \A c : InWork(loc', Live(eng'), todo', acc', c) <=> InWork(loc, Live(eng), Tail(todo), acc, c)
  BY <1>4 DEF InWork, Unread
<1>9. /\ p \in AllPlaces /\ p \notin FinishedNow
      /\ Finished(loc', Live(eng'), db, todo', acc') = FinishedNow \cup {p}
  BY <1>1, <1>4, <1>6, <1>7, <1>8 DEF Finished, FinishedNow, AllPlaces
<1>10. call.ok <=> Shown(set, loc.docids, db, p)
  BY <1>1, <1>5 DEF Truth, p
<1>11. Truth(set, loc', Live(eng'), db, todo')
  BY <1>1, <1>4, <1>5 DEF Truth
<1> QED BY <1>4, <1>9, <1>10, <1>11 DEF p

LEMMA PrintKeeps ==
    ASSUME SInv, OInv, ~exited, pc # "end", at = "callback", print, UNCHANGED <<mainVars, pc, at>>
    PROVE  OInv'
<1> DEFINE call == Head(todo)
           p == <<call.i, call.j>>
           F == FinishedNow \cup {p}
           P == AllPlaces
           el == Elements
           e == [seq |-> (call.i - 1) * Span + call.j - 1,
                 skip |-> IF Hits(call.i) = <<>> \/ call.j = Len(Hits(call.i))
                          THEN Span - (call.j - 1) ELSE 1,
                 msg |-> IF call.ok THEN Id(loc.docids[call.i], call.j) ELSE NoMsg]
<1>1. /\ todo # <<>> /\ call.do = "print" /\ SerializerPrint(e)
      /\ loc' = IF call.ok THEN [loc EXCEPT !.matched = @ + 1] ELSE loc
      /\ todo' = Tail(todo) /\ UNCHANGED <<eng, acc>>
  BY DEF print
<1>2. pc \in Scanning /\ call.ok \in BOOLEAN
  BY <1>1, FirstCall
<1>3. InScan
  BY <1>2, InScanNow
<1>4. /\ p \in P /\ p \notin FinishedNow
      /\ Finished(loc', Live(eng'), db, todo', acc') = F
      /\ Truth(set, loc', Live(eng'), db, todo') /\ loc'.docids = loc.docids
      /\ call.ok <=> Shown(set, loc.docids, db, p)
      /\ loc'.matched = loc.matched + (IF call.ok THEN 1 ELSE 0)
      /\ loc.matched \in Nat
  BY <1>1, <1>3, PrintTakes
<1>5. e = el[p]
  <2>1. el[p] = ElementOf(set, dbno, loc.docids, db, p)
    BY <1>4 DEF AllPlaces, Elements, El
  <2>2. p[1] = call.i /\ p[2] = call.j
    OBVIOUS
  <2> HIDE DEF p
  <2>3. Start(p) = (call.i - 1) * Span + call.j - 1
    BY <2>2 DEF Start
  <2>4. Skip(loc.docids, db, p) = IF Hits(call.i) = <<>> \/ call.j = Len(Hits(call.i))
                                  THEN Span - (call.j - 1) ELSE 1
    BY <2>2 DEF Skip, Hits
  <2>5. (IF Shown(set, loc.docids, db, p) THEN IdAt(dbno, loc.docids[p[1]], p[2]) ELSE NoMsg)
            = IF call.ok THEN Id(loc.docids[call.i], call.j) ELSE NoMsg
    BY <1>4, <2>2 DEF Id, IdAt
  <2> QED BY <2>1, <2>3, <2>4, <2>5 DEF ElementOf
<1>6. /\ Laid(P, el, Row(Len(loc.docids))) /\ Above(Earlier, P, el)
      /\ expected = Earlier \cup Messages(el, P)
      /\ IsFiniteSet(Earlier) /\ IsFiniteSet(Messages(el, P)) /\ Earlier \cap Messages(el, P) = {}
      /\ total = Cardinality(Earlier) /\ total \in Nat /\ opt.limit \in Nat
      /\ FinishedNow \in SUBSET P /\ loc.matched = Cardinality(Messages(el, FinishedNow))
      /\ limit_left > 0 /\ ~exited
  BY <1>2, <1>3, ScanSetting
<1>7. el[p].msg # NoMsg <=> call.ok
  <2>1. e.msg # NoMsg <=> call.ok
    <3>1. call.ok => Shown(set, loc.docids, db, p)
      BY <1>4
    <3>2. loc.docids \in Seq(Docs) /\ db \in Databases /\ dbno \in Nat
      BY <1>2, Basics, ScanFacts DEF LocType, OInv, Leads
    <3>3. el[p].msg # NoMsg <=> Shown(set, loc.docids, db, p)
      BY <1>4, <3>2, ElFacts DEF AllPlaces, Elements
    <3> QED BY <1>4, <1>5, <3>3
  <2> QED BY <1>5, <2>1
<1> HIDE DEF p, el, P, F, e
<1>8. UNCHANGED <<set, dbno, db, total, parent_left, expected>>
  BY DEF mainVars
<1>9. opt' = opt
  BY <1>1 DEF SerializerPrint, PrintCounted, PrintLater, PrintInTurn
<1>10. /\ IsFiniteSet(Messages(el, FinishedNow)) /\ Messages(el, FinishedNow) \subseteq Messages(el, P)
       /\ el[p].msg # NoMsg => Cardinality(Messages(el, F)) = Cardinality(Messages(el, FinishedNow)) + 1
       /\ el[p].msg = NoMsg => Messages(el, F) = Messages(el, FinishedNow)
  <2>1. Laid(P, el, Row(Len(loc.docids))) /\ IsFiniteSet(Messages(el, P))
    BY <1>6
  <2>2. FinishedNow \subseteq P /\ p \in P /\ p \notin FinishedNow
    BY <1>4, <1>6
  <2>3. Counted(P, el, FinishedNow, p)
    BY <2>1, <2>2, OneMore
  <2> QED BY <2>3 DEF Counted, F
<1>11. loc'.matched = Cardinality(Messages(el, F))
  <2>1. CASE call.ok
    BY <1>4, <1>6, <1>7, <1>10, <2>1
  <2>2. CASE ~call.ok
    BY <1>4, <1>6, <1>7, <1>10, <2>2
  <2> QED BY <2>1, <2>2
<1>12. pc' \in Scanning
  BY <1>2
<1>13. CASE PrintCounted(e)
  <2>1. opt.only_count /\ UNCHANGED <<next_seq, pending, printed>>
    BY <1>13 DEF PrintCounted
  <2>2. printed = <<>> /\ pending = {} /\ limit_left = opt.limit - total - loc.matched
    BY <1>3, <2>1 DEF InScan
  <2>3. /\ call.ok => limit_left' = limit_left - 1 /\ exited' = (limit_left' <= 0)
        /\ ~call.ok => limit_left' = limit_left /\ exited' = exited
    BY <1>5, <1>7, <1>13 DEF PrintCounted, apply_limit
  <2>4. limit_left' = opt.limit - total - loc'.matched /\ limit_left' >= 0
    BY <1>2, <1>4, <1>6, <2>2, <2>3
  <2>5. Leads'
    BY <1>8, <1>9, <2>1, LeadsKept DEF OInv
  <2>6. loc'.matched \in Nat
    BY <1>4
  <2>7. total + loc'.matched <= Cardinality(expected)
    <3>1. Messages(el, F) \subseteq Messages(el, P)
      BY <1>4, <1>6 DEF Messages, F
    <3>2. IsFiniteSet(Messages(el, F)) /\ Cardinality(Messages(el, F)) <= Cardinality(Messages(el, P))
      BY <1>6, <3>1, FS_Subset
    <3>3. Cardinality(expected) = total + Cardinality(Messages(el, P))
      BY <1>6, CountDisjoint
    <3>4. Cardinality(Messages(el, P)) \in Nat
      BY <1>6, FS_CardinalityType
    <3> QED BY <1>6, <1>11, <2>6, <3>2, <3>3, <3>4
  <2>8. ASSUME exited' PROVE AtLimit'
    <3>1. limit_left' <= 0
      BY <1>2, <1>6, <2>3, <2>8
    <3>2. opt.limit = total + loc'.matched
      BY <1>6, <2>4, <2>6, <3>1
    <3> QED BY <1>8, <1>9, <2>1, <2>7, <3>2 DEF AtLimit
  <2>9. ASSUME ~exited' PROVE InScan'
    <3>1. limit_left' > 0
      <4>1. CASE call.ok
        <5>1. ~(limit_left' <= 0)
          BY <2>3, <2>9, <4>1
        <5> QED BY <1>6, <2>4, <2>6, <5>1
      <4>2. CASE ~call.ok
        BY <1>6, <2>3, <4>2
      <4> QED BY <4>1, <4>2
    <3> QED BY <1>3, <1>4, <1>8, <1>9, <1>11, <2>1, <2>2, <2>4, <2>9, <3>1, ScanGoesOn DEF el
  <2> QED BY <1>12, <2>5, <2>8, <2>9, ScanOInv
<1>14. CASE PrintLater(e)
  <2>1. ~opt.only_count /\ el[p].seq # next_seq /\ pending' = pending \cup {el[p]}
        /\ UNCHANGED <<next_seq, printed, limit_left, exited>>
    BY <1>5, <1>14 DEF PrintLater
  <2>2. OutOK(P, el, FinishedNow, Earlier, next_seq, pending, printed)
        /\ limit_left = opt.limit - Len(printed)
    BY <1>3, <2>1 DEF InScan, P, AllPlaces, el, Elements, FinishedNow
  <2>3. OutOK(P, el, F, Earlier, next_seq, pending \cup {el[p]}, printed)
    BY <1>4, <1>6, <2>1, <2>2, PrintedLater DEF F
  <2>4. OutOK(P, el, F, Earlier, next_seq', pending', printed') /\ limit_left' = opt.limit - Len(printed')
        /\ limit_left' > 0 /\ ~exited'
    BY <1>6, <2>1, <2>2, <2>3
  <2>5. InScan'
    BY <1>3, <1>4, <1>8, <1>9, <1>11, <2>1, <2>4, ScanGoesOn DEF el, P
  <2>6. Leads'
    BY <1>8, <1>9, <2>1, LeadsKept DEF OInv
  <2> QED BY <1>12, <2>4, <2>5, <2>6, ScanOInv
<1>15. CASE PrintInTurn(e)
  <2>1. ~opt.only_count /\ el[p].seq = next_seq /\ PrintNow(el[p]) /\ pending' = pending
    BY <1>5, <1>15 DEF PrintInTurn
  <2>2. OutOK(P, el, FinishedNow, Earlier, next_seq, pending, printed)
    BY <1>3, <2>1 DEF InScan, P, AllPlaces, el, Elements, FinishedNow
  <2>3. el[p] \notin pending
    <3> SUFFICES ASSUME NEW c \in FinishedNow, el[c] = el[p] PROVE FALSE
      BY <2>2 DEF OutOK
    <3>1. c \in P /\ c # p
      BY <1>4, <1>6
    <3>2. el[c].seq <= el[p].seq /\ el[p].seq < EndOf(el[c])
      BY <1>4, <1>6, <3>1, ElementFacts
    <3> QED BY <1>4, <1>6, <3>1, <3>2, OneAt
  <2>4. /\ OutOK(P, el, F, Earlier, next_seq + el[p].skip, pending \ {el[p]}, printed')
        /\ Leads'
        /\ IF exited' THEN AtLimit'
           ELSE /\ next_seq' = next_seq + el[p].skip
                /\ limit_left' > 0 /\ limit_left' = opt.limit - Len(printed')
    BY <1>2, <1>3, <1>4, <1>8, <1>9, <2>1, PrintNowDoes DEF el, P, F
  <2>5. pending \ {el[p]} = pending'
    BY <2>1, <2>3
  <2>6. ASSUME ~exited' PROVE InScan'
    BY <1>3, <1>4, <1>8, <1>9, <1>11, <2>1, <2>4, <2>5, <2>6, ScanGoesOn DEF el, P
  <2> QED BY <1>12, <2>4, <2>6, ScanOInv
<1> QED BY <1>1, <1>13, <1>14, <1>15 DEF SerializerPrint

-----------------------------------------------------------------------------
(* The theorems.                                                           *)

LEMMA InCallbackKeeps == ASSUME SInv, OInv, ~exited, pc # "end", InCallback PROVE OInv'
<1>1. at = "callback" /\ UNCHANGED <<mainVars, pc>>
  BY DEF InCallback
<1>2. CASE CanDrain /\ Drain /\ UNCHANGED <<at, todo, loc, eng, acc>>
  <2>1. pc \notin {"main", "nothing"}
    BY <1>1 DEF SInv, PcOK
  <2>2. pc \notin Looking \cup Intersecting
    BY <1>2 DEF OInv, InSearch
  <2>3. pc \in Scanning
    BY <2>1, <2>2 DEF SInv, PcOK
  <2> QED BY <1>1, <1>2, <2>3, DrainKeeps
<1>3. CASE ~CanDrain /\ (check_access \/ print) /\ UNCHANGED at
  BY <1>1, <1>3, CheckAccessKeeps, PrintKeeps
<1>4. CASE /\ ~CanDrain /\ todo = <<>> /\ CallbackReturns
           /\ UNCHANGED <<todo, loc, acc, serializerVars>>
  BY <1>1, <1>4, CallbackReturnsKeeps
<1> QED BY <1>2, <1>3, <1>4 DEF InCallback

LEMMA StepOInv == ASSUME SInv, OInv, [Next]_vars PROVE OInv'
<1>1. CASE Main
  BY <1>1, OpenKeeps, NoneKeeps, EndsKeep DEF Main
<1>2. CASE Thread
  <2>1. ~exited
    BY <1>2 DEF Thread
  <2>2. CASE Lookup \/ AwaitLookups \/ SortGroups \/ NextGroup \/ GroupDone \/ ReadPostings
                 \/ CaughtUp \/ AwaitPostings
    BY <2>2, SearchKeeps
  <2>3. CASE EarlyExit \/ NoCandidates
    BY <2>3, NoneKeeps
  <2>4. CASE StartScan \/ get_compressed_filename_block \/ AwaitBlocks \/ Scanned
    BY <2>1, <2>4, StartScanKeeps, GetBlockKeeps, AwaitBlocksKeeps, ScannedKeeps
  <2> QED BY <1>2, <2>2, <2>3, <2>4 DEF Thread
<1>3. CASE Engine
  BY <1>3, CompletionKeeps, InCallbackKeeps, FinishKeeps DEF Engine
<1>4. CASE OpenFails \/ ReadFails
  BY <1>4, EndsKeep
<1>5. CASE UNCHANGED vars
  <2>1. /\ UNCHANGED <<set, dbno, db, total, parent_left, expected, how, pc, loc, todo, eng, at, acc>>
        /\ UNCHANGED <<opt, next_seq, pending, printed, limit_left, exited>>
    BY <1>5 DEF vars, mainVars, engineVars, accessVars, serializerVars
  <2>2. /\ (AtMain' <=> AtMain) /\ (InSearch' <=> InSearch) /\ (Leads' <=> Leads)
        /\ (AtLimit' <=> AtLimit) /\ (CanDrain' <=> CanDrain)
    BY <2>1 DEF AtMain, InSearch, Counts, Earlier, Leads, AtLimit, Printed, CanDrain, Top
  <2>3. InScan' <=> InScan
    BY <2>1, <2>2 DEF InScan, Searched, Counts, Earlier
  <2> QED BY <2>1, <2>2, <2>3 DEF OInv
<1> QED BY <1>1, <1>2, <1>3, <1>4, <1>5 DEF Next

LEMMA InitOInv == Init => OInv
<1> SUFFICES ASSUME Init PROVE OInv
  OBVIOUS
<1>1. /\ pc = "main" /\ dbno = 1 /\ total = 0 /\ expected = {} /\ printed = <<>> /\ exited = FALSE
      /\ pending = {} /\ opt \in Options /\ limit_left = opt.limit
  BY DEF Init, SerializerInit
<1>2. opt \in [limit : Nat \ {0}, only_count : BOOLEAN]
  BY <1>1, OptionsAssumption
<1>3. IsFiniteSet({}) /\ Cardinality({}) = 0
  BY FS_EmptySet
<1>4. Printed = {}
  BY <1>1 DEF Printed
<1>5. Ascending(printed) /\ printed \in Seq(Nat) /\ Len(printed) = 0
  BY <1>1 DEF Ascending
<1>6. Leads
  BY <1>1, <1>2, <1>3, <1>4, <1>5 DEF Leads
<1>7. ~CanDrain
  BY <1>1 DEF CanDrain, Top
<1>8. opt.limit \in Nat \ {0} /\ 0 < opt.limit /\ opt.limit - 0 = opt.limit
  BY <1>2
<1>9. AtMain
  BY <1>1, <1>3, <1>4, <1>7, <1>8 DEF AtMain
<1> QED BY <1>1, <1>6, <1>9 DEF OInv, Looking, Intersecting, Scanning

LEMMA AlwaysOInv == Spec => []OInv
<1>1. SInv /\ OInv /\ [Next]_vars => OInv'
  BY StepOInv
<1> QED BY InitOInv, AlwaysSInv, <1>1, PTL DEF Spec

\* Over all databases, stdout holds the first names to be shown, in order, none missing
\* and none twice; a database that has been searched is printed in full and counted: for
\* every pattern, database and order of completions, and however many names wait for
\* a statx() or for their turn.
THEOREM OutputIsExact == Spec => []OutputExact
<1>1. ASSUME OInv PROVE OutputExact
  <2>1. Leads
    BY <1>1 DEF OInv
  <2>2. pc = "main" => AtMain
    BY <1>1 DEF OInv
  <2> QED BY <2>1, <2>2 DEF OutputExact, Leads, Ascending, AtMain
<1>2. OInv => OutputExact
  BY <1>1
<1> QED BY AlwaysOInv, <1>2, PTL

\* The limit holds over all databases although each child counts for itself: flocate
\* stops exactly at the limit, and goes on to the end below it.
THEOREM LimitIsOverAll == Spec => []LimitOverAll
<1>1. ASSUME SInv, OInv PROVE LimitOverAll
  <2>1. pc # "end" => how = "running"
    BY <1>1 DEF SInv, PcOK
  <2>2. Len(printed) <= opt.limit
    BY <1>1 DEF OInv, Leads
  <2>3. pc = "end" => /\ how \in {"limit", "short_read"} => AtLimit
                      /\ how = "returned" => total < opt.limit
    BY <1>1 DEF OInv
  <2> QED BY <2>1, <2>2, <2>3 DEF LimitOverAll, AtLimit
<1>2. SInv /\ OInv => LimitOverAll
  BY <1>1
<1> QED BY AlwaysSInv, AlwaysOInv, <1>2, PTL
=============================================================================
