-------------------------- MODULE BindMountProofs --------------------------
(***************************************************************************)
(* No change of the mounts is lost between the polling thread and the      *)
(* scan, and the answers about them are those of a search of the whole     *)
(* list, whatever the mounts, the directories and the schedule.            *)
(***************************************************************************)
EXTENDS BindMount, Induction, SequenceTheorems

\* Nothing is on its way from the kernel to is_bind_mount().
Settled == polled = event /\ poller # "noticed" /\ mountinfo_updated = FALSE

\* While nothing is on its way, what was read, and what was made of it, is what
\* is mounted.  The thread runs only while updatedb does.
ListInv ==
    /\ event \in Nat /\ polled \in Nat /\ polled <= event
    /\ mountinfo_updated \in BOOLEAN
    /\ pc = "off" => poller = "none"
    /\ Settled /\ "unreadable" \notin trouble =>
           /\ pc = "match" => mount_entries = read_mount_entries(table)
           /\ poller = "polling" /\ pc \notin {"read", "match"} =>
                  bind_mount_paths = BindPaths(read_mount_entries(table))

\* In the beginning there is no thread.
LEMMA ListInit == Init => ListInv
  <1> SUFFICES ASSUME Init PROVE ListInv
    OBVIOUS
  <1>1. event = 0 /\ polled = 0 /\ poller = "none" /\ pc = "off" /\ mountinfo_updated = FALSE
    BY DEF Init
  <1>2. event \in Nat /\ polled \in Nat /\ polled <= event
    BY <1>1
  <1>3. mountinfo_updated \in BOOLEAN
    BY <1>1, Zenon
  <1>4. poller # "polling" /\ pc # "match"
    BY <1>1
  <1> QED
    BY <1>1, <1>2, <1>3, <1>4, Zenon DEF ListInv

\* A change of the mounts moves event past what was polled.
LEMMA ListChanged ==
    ASSUME ListInv, NEW t, Changed(t)
    PROVE  ListInv'
  <1>1. event' = event + 1 /\ UNCHANGED <<polled, poller, mountinfo_updated, pc>>
    BY DEF Changed, threadVars
  <1>2. polled' # event'
    BY <1>1 DEF ListInv
  <1> QED
    BY <1>1, <1>2 DEF ListInv, Settled

\* The thread: between poll() and the flag it is on its way.
LEMMA ListThread ==
    ASSUME ListInv, Poll \/ Notice \/ PollFails
    PROVE  ListInv'
  <1>1. CASE Poll
    BY <1>1 DEF Poll, ListInv, Settled, mountVars, listVars
  <1>2. CASE Notice
    BY <1>2 DEF Notice, ListInv, Settled, mountVars, listVars
  <1>3. CASE PollFails
    BY <1>3 DEF PollFails, ListInv, Settled, mountVars, listVars
  <1> QED
    BY <1>1, <1>2, <1>3

\* A rebuild reads the mounts after the flag was lowered.
LEMMA ListRebuild ==
    ASSUME ListInv, Rebuild
    PROVE  ListInv'
  <1>1. CASE ReadMounts
    BY <1>1 DEF ReadMounts, ListInv, Settled, mountVars, threadVars
  <1>2. CASE ReadMountsFails
    <2>1. "unreadable" \in trouble' /\ pc' # "off"
      BY <1>2 DEF ReadMountsFails, Rebuilt
    <2> QED
      BY <1>2, <2>1 DEF ReadMountsFails, ListInv, mountVars
  <1>3. CASE MatchMounts
    <2>1. pc' \in {"enter", "lookup"} /\ poller' \in {"polling", poller}
      BY <1>3 DEF MatchMounts, Rebuilt
    <2>2. /\ pc = "match" /\ bind_mount_paths' = BindPaths(mount_entries)
          /\ UNCHANGED <<table, event, polled, mountinfo_updated, trouble>>
      BY <1>3 DEF MatchMounts, mountVars
    <2>3. Settled' => Settled
      BY <1>3, <2>2 DEF MatchMounts, Rebuilt, Settled
    <2> QED
      BY <2>1, <2>2, <2>3 DEF ListInv
  <1> QED
    BY <1>1, <1>2, <1>3 DEF Rebuild

\* scan() lowers the flag only on its way to a rebuild.
LEMMA ListScan ==
    ASSUME ListInv, Scan
    PROVE  ListInv'
  <1>1. CASE TestAndClear
    BY <1>1 DEF TestAndClear, ListInv, Settled, mountVars, listVars
  <1>2. ASSUME /\ pc \notin {"off", "read", "match"} /\ pc' \notin {"off", "read", "match"}
               /\ UNCHANGED <<mountVars, threadVars, mount_entries, bind_mount_paths, trouble>>
        PROVE  ListInv'
    BY <1>2 DEF ListInv, Settled, mountVars, threadVars
  <1>3. CASE Enter
    BY <1>2, <1>3 DEF Enter, listVars
  <1>4. CASE Lookup
    BY <1>2, <1>4 DEF Lookup
  <1>5. CASE List
    BY <1>2, <1>5 DEF List, listVars
  <1>6. CASE Open
    BY <1>2, <1>6 DEF Open, listVars
  <1>7. CASE ScanNext
    BY <1>2, <1>7 DEF ScanNext, listVars
  <1>8. CASE ScanReturns
    BY <1>2, <1>8 DEF ScanReturns, listVars
  <1> QED
    BY <1>1, <1>3, <1>4, <1>5, <1>6, <1>7, <1>8 DEF Scan

\* A process begins and ends without a thread.
LEMMA ListStartExit ==
    ASSUME ListInv, Start \/ Exit
    PROVE  ListInv'
  <1>1. CASE Start
    <2>1. /\ event' = event /\ polled' = event /\ poller' = "none" /\ pc' \in {"read", "enter"}
          /\ mountinfo_updated' = FALSE
      BY <1>1 DEF Start, ListInv, mountVars
    <2>2. event' \in Nat /\ polled' \in Nat /\ polled' <= event'
      BY <2>1 DEF ListInv
    <2>3. mountinfo_updated' \in BOOLEAN
      BY <2>1, Zenon
    <2>4. poller' # "polling" /\ pc' # "match" /\ pc' # "off"
      BY <2>1
    <2> QED
      BY <2>2, <2>3, <2>4, Zenon DEF ListInv
  <1>2. CASE Exit
    BY <1>2 DEF Exit, ListInv, Settled, mountVars, listVars
  <1> QED
    BY <1>1, <1>2

\* Every step preserves the invariant.
LEMMA ListStep == ListInv /\ [Next]_vars => ListInv'
  <1> SUFFICES ASSUME ListInv, [Next]_vars PROVE ListInv'
    OBVIOUS
  <1>1. CASE Mount
    BY <1>1, ListChanged DEF Mount
  <1>2. CASE Umount
    BY <1>2, ListChanged DEF Umount
  <1>3. CASE UNCHANGED vars
    BY <1>3 DEF ListInv, Settled, vars, mountVars, threadVars, listVars
  <1> QED
    BY <1>1, <1>2, <1>3, ListThread, ListRebuild, ListScan, ListStartExit DEF Next

\* No change of the mounts is lost: the test-and-clear of is_bind_mount() comes
\* before the rebuild, and the thread sets the flag after poll().
THEOREM ChangesNoticed == Spec => []ListCurrent
  <1>1. ListInv => ListCurrent
    BY DEF ListInv, Settled, ListCurrent
  <1> QED
    BY ListInit, ListStep, <1>1, PTL DEF Spec

-----------------------------------------------------------------------------
(* The order of dir_path_cmp().                                            *)

\* p and q have the same first n names.
Agree(p, q, n) == \A k \in 1 .. n : p[k] = q[k]

\* q is a later branch: neither is below the other, and all below p comes before q.
Apart(p, q) == \E n \in Nat : n < Len(p) /\ n < Len(q) /\ Agree(p, q, n) /\ p[n + 1] < q[n + 1]

LEMMA PrefixAgree ==
    ASSUME NEW p \in Path, NEW q \in Path, NEW n \in Nat, n <= Len(p), n <= Len(q)
    PROVE  SubSeq(p, 1, n) = SubSeq(q, 1, n) <=> Agree(p, q, n)
  <1>1. Len(p) \in Nat /\ Len(q) \in Nat
    BY DEF Path
  <1>2. \A k \in 1 .. n : p[k] \in Int /\ q[k] \in Int
    BY <1>1 DEF Path
  <1>3. /\ SubSeq(p, 1, n) \in Seq(Int) /\ Len(SubSeq(p, 1, n)) = n
        /\ \A k \in 1 .. n : SubSeq(p, 1, n)[k] = p[k]
    BY <1>1, <1>2 DEF Path
  <1>4. /\ SubSeq(q, 1, n) \in Seq(Int) /\ Len(SubSeq(q, 1, n)) = n
        /\ \A k \in 1 .. n : SubSeq(q, 1, n)[k] = q[k]
    BY <1>1, <1>2 DEF Path
  <1>5. ASSUME Agree(p, q, n) PROVE SubSeq(p, 1, n) = SubSeq(q, 1, n)
    <2>1. \A k \in 1 .. n : SubSeq(p, 1, n)[k] = SubSeq(q, 1, n)[k]
      BY <1>3, <1>4, <1>5 DEF Agree
    <2> QED BY <1>3, <1>4, <2>1, SeqEqual
  <1>6. ASSUME SubSeq(p, 1, n) = SubSeq(q, 1, n) PROVE Agree(p, q, n)
    BY <1>3, <1>4, <1>6 DEF Agree
  <1> QED BY <1>5, <1>6

LEMMA BeforeAgree ==
    ASSUME NEW p \in Path, NEW q \in Path
    PROVE  Before(p, q) <=> \E n \in Nat : /\ n <= Len(p) /\ n < Len(q) /\ Agree(p, q, n)
                                           /\ n = Len(p) \/ p[n + 1] < q[n + 1]
  <1>1. Len(p) \in Nat /\ Len(q) \in Nat
    BY DEF Path
  <1>2. \A n \in Nat : n <= Len(p) /\ n < Len(q) =>
            (SubSeq(p, 1, n) = SubSeq(q, 1, n) <=> Agree(p, q, n))
    BY <1>1, PrefixAgree
  <1>3. ASSUME Before(p, q)
        PROVE  \E n \in Nat : /\ n <= Len(p) /\ n < Len(q) /\ Agree(p, q, n)
                              /\ n = Len(p) \/ p[n + 1] < q[n + 1]
    <2>1. PICK n \in 0 .. Len(p) : /\ n < Len(q) /\ SubSeq(p, 1, n) = SubSeq(q, 1, n)
                                   /\ n = Len(p) \/ p[n + 1] < q[n + 1]
      BY <1>3 DEF Before
    <2>2. n \in Nat /\ n <= Len(p)
      BY <1>1
    <2> QED BY <2>1, <2>2, <1>2
  <1>4. ASSUME NEW n \in Nat, n <= Len(p), n < Len(q), Agree(p, q, n),
               n = Len(p) \/ p[n + 1] < q[n + 1]
        PROVE  Before(p, q)
    <2>1. n \in 0 .. Len(p) /\ SubSeq(p, 1, n) = SubSeq(q, 1, n)
      BY <1>1, <1>2, <1>4
    <2> QED BY <2>1, <1>4 DEF Before
  <1> QED BY <1>3, <1>4

LEMMA BeforeTransitive ==
    ASSUME NEW p \in Path, NEW q \in Path, NEW r \in Path, Before(p, q), Before(q, r)
    PROVE  Before(p, r)
  <1>1. Len(p) \in Nat /\ Len(q) \in Nat /\ Len(r) \in Nat
    BY DEF Path
  <1>2. PICK n \in Nat : /\ n <= Len(p) /\ n < Len(q) /\ Agree(p, q, n)
                         /\ n = Len(p) \/ p[n + 1] < q[n + 1]
    BY BeforeAgree
  <1>3. PICK m \in Nat : /\ m <= Len(q) /\ m < Len(r) /\ Agree(q, r, m)
                         /\ m = Len(q) \/ q[m + 1] < r[m + 1]
    BY BeforeAgree
  <1> DEFINE k == IF m < n THEN m ELSE n
  <1>4. k \in Nat /\ k <= Len(p) /\ k < Len(r) /\ Agree(p, r, k)
    BY <1>1, <1>2, <1>3 DEF Agree
  <1>5. \A l \in Nat : /\ (l < Len(p) => p[l + 1] \in Int) /\ (l < Len(q) => q[l + 1] \in Int)
                       /\ (l < Len(r) => r[l + 1] \in Int)
    BY <1>1 DEF Path
  <1>6. k = Len(p) \/ p[k + 1] < r[k + 1]
    <2>1. CASE m < n
      <3>1. k = m /\ m < Len(p) /\ m < Len(q) /\ p[m + 1] = q[m + 1] /\ q[m + 1] < r[m + 1]
        BY <1>1, <1>2, <1>3, <2>1 DEF Agree
      <3> QED BY <3>1
    <2>2. CASE n < m
      <3>1. k = n /\ q[n + 1] = r[n + 1]
        BY <1>1, <1>2, <1>3, <2>2 DEF Agree
      <3> QED BY <3>1, <1>2
    <2>3. CASE n = m
      BY <1>1, <1>2, <1>3, <1>5, <2>3
    <2> QED BY <2>1, <2>2, <2>3
  <1> HIDE DEF k
  <1> QED BY <1>4, <1>6, BeforeAgree

LEMMA BeforeIrreflexive ==
    ASSUME NEW p \in Path
    PROVE  ~Before(p, p)
  <1> SUFFICES ASSUME Before(p, p) PROVE FALSE
    OBVIOUS
  <1>1. PICK n \in Nat : n <= Len(p) /\ n < Len(p) /\ (n = Len(p) \/ p[n + 1] < p[n + 1])
    BY BeforeAgree
  <1>2. Len(p) \in Nat /\ (n < Len(p) => p[n + 1] \in Int)
    BY DEF Path
  <1> QED BY <1>1, <1>2

\* Two different paths differ first at some name, or where one of them ends.
LEMMA BeforeTotal ==
    ASSUME NEW p \in Path, NEW q \in Path, p # q
    PROVE  Before(p, q) \/ Before(q, p)
  <1>1. Len(p) \in Nat /\ Len(q) \in Nat
    BY DEF Path
  <1> DEFINE T == {n \in Nat : \/ n = Len(p) \/ n = Len(q)
                               \/ n < Len(p) /\ n < Len(q) /\ p[n + 1] # q[n + 1]}
  <1>2. T # {} /\ T \in SUBSET Nat
    BY <1>1
  <1>3. PICK n \in T : \A m \in T : n <= m
    BY <1>2, LeastElement
  <1>4. n \in Nat /\ n <= Len(p) /\ n <= Len(q)
    BY <1>1, <1>3
  <1>5. Agree(p, q, n)
    <2> SUFFICES ASSUME NEW k \in 1 .. n, p[k] # q[k] PROVE FALSE
      BY DEF Agree
    <2>1. k - 1 \in T
      BY <1>4, <1>1
    <2> QED BY <2>1, <1>3, <1>4
  <1>6. ~(n = Len(p) /\ n = Len(q))
    <2> SUFFICES ASSUME n = Len(p), n = Len(q) PROVE FALSE
      OBVIOUS
    <2>1. p \in Seq(Int) /\ q \in Seq(Int) /\ Len(p) = Len(q) /\ \A k \in 1 .. Len(p) : p[k] = q[k]
      BY <1>5 DEF Agree, Path
    <2> QED BY <2>1, SeqEqual
  <1>7. Agree(q, p, n)
    BY <1>5 DEF Agree
  <1>8. CASE n = Len(p)
    BY <1>1, <1>4, <1>5, <1>6, <1>8, BeforeAgree
  <1>9. CASE n = Len(q)
    BY <1>1, <1>4, <1>7, <1>6, <1>9, BeforeAgree
  <1>10. CASE n < Len(p) /\ n < Len(q)
    <2>1. p[n + 1] # q[n + 1] /\ p[n + 1] \in Int /\ q[n + 1] \in Int
      BY <1>1, <1>3, <1>4, <1>10 DEF Path
    <2>2. p[n + 1] < q[n + 1] \/ q[n + 1] < p[n + 1]
      BY <2>1
    <2> QED BY <1>4, <1>5, <1>7, <1>10, <2>2, BeforeAgree
  <1> QED BY <1>1, <1>4, <1>8, <1>9, <1>10

LEMMA ApartBefore ==
    ASSUME NEW p \in Path, NEW q \in Path, Apart(p, q)
    PROVE  Before(p, q)
  <1>1. PICK n \in Nat : n < Len(p) /\ n < Len(q) /\ Agree(p, q, n) /\ p[n + 1] < q[n + 1]
    BY DEF Apart
  <1>2. n <= Len(p)
    BY <1>1 DEF Path
  <1> QED BY <1>1, <1>2, BeforeAgree

LEMMA ChildOf ==
    ASSUME NEW p \in Path, NEW x \in Int
    PROVE  /\ Append(p, x) \in Path /\ Len(Append(p, x)) = Len(p) + 1 /\ Len(p) \in Nat
           /\ \A k \in 1 .. Len(p) : Append(p, x)[k] = p[k]
           /\ Append(p, x)[Len(p) + 1] = x
  BY DEF Path

LEMMA BeforeChild ==
    ASSUME NEW p \in Path, NEW x \in Int
    PROVE  Before(p, Append(p, x))
  <1>1. Append(p, x) \in Path /\ Len(p) \in Nat /\ Len(p) < Len(Append(p, x)) /\ Len(p) <= Len(p)
        /\ Agree(p, Append(p, x), Len(p))
    BY ChildOf DEF Agree
  <1> QED BY <1>1, BeforeAgree

LEMMA ApartChild ==
    ASSUME NEW p \in Path, NEW q \in Path, NEW x \in Int, Apart(p, q)
    PROVE  Apart(Append(p, x), q)
  <1>1. PICK n \in Nat : n < Len(p) /\ n < Len(q) /\ Agree(p, q, n) /\ p[n + 1] < q[n + 1]
    BY DEF Apart
  <1>2. n \in Nat /\ n + 1 \in 1 .. Len(p) /\ Len(p) \in Nat
    BY <1>1, ChildOf
  <1>3. n < Len(Append(p, x)) /\ Append(p, x)[n + 1] = p[n + 1]
    BY <1>1, <1>2, ChildOf
  <1>4. \A k \in 1 .. n : k \in 1 .. Len(p) /\ p[k] = q[k]
    BY <1>1, <1>2 DEF Agree
  <1>5. Agree(Append(p, x), q, n)
    BY <1>4, ChildOf DEF Agree
  <1> QED BY <1>1, <1>3, <1>5 DEF Apart

LEMMA ApartSiblings ==
    ASSUME NEW p \in Path, NEW x \in Int, NEW y \in Int, x < y
    PROVE  Apart(Append(p, x), Append(p, y))
  <1>1. /\ Len(p) \in Nat /\ Len(p) < Len(Append(p, x)) /\ Len(p) < Len(Append(p, y))
        /\ Agree(Append(p, x), Append(p, y), Len(p))
        /\ Append(p, x)[Len(p) + 1] < Append(p, y)[Len(p) + 1]
    BY ChildOf DEF Agree
  <1> QED BY <1>1 DEF Apart

-----------------------------------------------------------------------------
(* Sorting: the places of a finite set, for an order as a set of pairs.    *)

Below(S, R, x) == {y \in S : <<y, x>> \in R}
UpTo(S, R, x) == {y \in S : <<x, y>> \notin R}
Orders(R, S) ==
    /\ \A x \in S : <<x, x>> \notin R
    /\ \A x, y, z \in S : <<x, y>> \in R /\ <<y, z>> \in R => <<x, z>> \in R
    /\ \A x, y, z \in S : <<x, z>> \in R => <<x, y>> \in R \/ <<y, z>> \in R
AtPlace(S, R, x, k) == Cardinality(Below(S, R, x)) < k /\ k <= Cardinality(UpTo(S, R, x))

LEMMA Counts ==
    ASSUME NEW S, IsFiniteSet(S), NEW R, NEW x
    PROVE  /\ IsFiniteSet(Below(S, R, x)) /\ Cardinality(Below(S, R, x)) \in Nat
           /\ IsFiniteSet(UpTo(S, R, x)) /\ Cardinality(UpTo(S, R, x)) \in Nat
           /\ Cardinality(UpTo(S, R, x)) <= Cardinality(S) /\ Cardinality(S) \in Nat
  <1>1. Below(S, R, x) \subseteq S /\ UpTo(S, R, x) \subseteq S
    BY DEF Below, UpTo
  <1> QED BY <1>1, FS_Subset, FS_CardinalityType

\* What is before another has fewer up to it.
LEMMA FewerUpTo ==
    ASSUME NEW S, IsFiniteSet(S), NEW R, Orders(R, S), NEW x \in S, NEW y \in S, <<y, x>> \in R
    PROVE  Cardinality(UpTo(S, R, y)) < Cardinality(UpTo(S, R, x))
  <1>1. UpTo(S, R, y) \subseteq UpTo(S, R, x)
    BY DEF UpTo, Orders
  <1>2. x \in UpTo(S, R, x) /\ x \notin UpTo(S, R, y)
    BY DEF UpTo, Orders
  <1> QED BY <1>1, <1>2, Counts, FS_Subset

\* A set that is not empty has an element with all of the set up to it.
LEMMA HasLast ==
    ASSUME NEW S, IsFiniteSet(S), NEW R, Orders(R, S), NEW A \in SUBSET S, A # {}
    PROVE  \E y \in A : A \subseteq UpTo(S, R, y)
  <1> DEFINE n(y) == Cardinality(S) - Cardinality(UpTo(S, R, y))
             T == {n(y) : y \in A}
  <1>1. \A y \in A : n(y) \in Nat
    BY Counts
  <1>2. T \in SUBSET Nat /\ T # {}
    BY <1>1
  <1>3. PICK t \in T : \A u \in T : t <= u
    BY <1>2, LeastElement
  <1>4. PICK y \in A : t = n(y)
    BY <1>3
  <1>5. ASSUME NEW z \in A, z \notin UpTo(S, R, y) PROVE FALSE
    <2>1. <<y, z>> \in R
      BY <1>5 DEF UpTo
    <2>2. Cardinality(UpTo(S, R, y)) < Cardinality(UpTo(S, R, z))
      BY <2>1, FewerUpTo
    <2>3. n(z) < n(y)
      BY <2>2, Counts
    <2>4. n(z) \in T /\ n(z) \in Nat /\ n(y) \in Nat
      BY <1>1
    <2> HIDE DEF n, T
    <2> QED BY <2>3, <2>4, <1>3, <1>4
  <1> QED BY <1>5

LEMMA PlaceTaken ==
    ASSUME NEW S, IsFiniteSet(S), NEW R, Orders(R, S), NEW k \in 1 .. Cardinality(S)
    PROVE  \E x \in S : AtPlace(S, R, x, k)
  <1> DEFINE n(x) == Cardinality(UpTo(S, R, x))
             T == {x \in S : k <= n(x)}
             N == {n(x) : x \in T}
  <1>1. Cardinality(S) \in Nat /\ k \in Nat /\ k >= 1 /\ k <= Cardinality(S) /\ S # {}
    BY FS_CardinalityType, FS_EmptySet
  <1>2. \A x : n(x) \in Nat
    BY Counts
  <1>3. T # {}
    <2>1. PICK y \in S : S \subseteq UpTo(S, R, y)
      BY <1>1, HasLast
    <2>2. UpTo(S, R, y) = S
      BY <2>1 DEF UpTo
    <2> QED BY <1>1, <2>2
  <1>4. N \in SUBSET Nat /\ N # {}
    BY <1>2, <1>3
  <1>5. PICK t \in N : \A u \in N : t <= u
    BY <1>4, LeastElement
  <1>6. PICK x \in T : t = n(x)
    BY <1>5
  <1>7. Cardinality(Below(S, R, x)) < k
    <2> SUFFICES ASSUME k <= Cardinality(Below(S, R, x)) PROVE FALSE
      BY <1>1, Counts
    <2>0. Below(S, R, x) # {}
      BY <1>1, FS_EmptySet
    <2>1. Below(S, R, x) # {} /\ Below(S, R, x) \in SUBSET S
      BY <2>0 DEF Below
    <2>2. PICK y \in Below(S, R, x) : Below(S, R, x) \subseteq UpTo(S, R, y)
      BY <2>1, HasLast
    <2>3. y \in S /\ x \in S /\ <<y, x>> \in R
      BY <2>2 DEF Below
    <2>4. n(y) < n(x)
      BY <2>3, FewerUpTo
    <2>5. k <= n(y)
      BY <1>1, <2>2, Counts, FS_Subset
    <2>6. y \in T /\ n(y) \in N
      BY <2>3, <2>5
    <2> HIDE DEF n, T, N
    <2> QED BY <2>4, <2>6, <1>2, <1>5, <1>6
  <1> QED BY <1>6, <1>7 DEF AtPlace

\* The places are in order.
LEMMA PlacesOrdered ==
    ASSUME NEW S, IsFiniteSet(S), NEW R, Orders(R, S), NEW k \in Nat, NEW l \in Nat, k < l,
           NEW x \in S, NEW y \in S, AtPlace(S, R, x, k), AtPlace(S, R, y, l)
    PROVE  <<y, x>> \notin R
  <1> SUFFICES ASSUME <<y, x>> \in R PROVE FALSE
    OBVIOUS
  <1>1. UpTo(S, R, y) \subseteq Below(S, R, x)
    BY DEF Orders, UpTo, Below
  <1>2. Cardinality(UpTo(S, R, y)) <= Cardinality(Below(S, R, x))
    BY <1>1, Counts, FS_Subset
  <1> QED BY <1>2, Counts DEF AtPlace

\* The list of bind mounts is sorted.
LEMMA BindPathsSorted ==
    ASSUME NEW entries, IsFiniteSet(entries), \A m \in entries : m.point \in Path
    PROVE  BindPaths(entries) \in Seq(Path) /\ Sorted(BindPaths(entries))
  <1> DEFINE S == {m \in entries : IsBind(m, entries)}
             R == {x \in S \X S : Before(x[1].point, x[2].point)}
             nth(k) == CHOOSE x \in S : /\ Cardinality({y \in S : Before(y.point, x.point)}) < k
                                        /\ Cardinality({y \in S : ~Before(x.point, y.point)}) >= k
  <1>1. IsFiniteSet(S) /\ Cardinality(S) \in Nat /\ \A m \in S : m.point \in Path
    <2>1. S \subseteq entries
      OBVIOUS
    <2> QED BY <2>1, FS_Subset, FS_CardinalityType
  <1>2. BindPaths(entries) = [k \in 1 .. Cardinality(S) |-> nth(k).point]
    BY DEF BindPaths, Nth
  <1> HIDE DEF S
  <1>3. Orders(R, S)
    <2>1. \A x \in S : <<x, x>> \notin R
      BY <1>1, BeforeIrreflexive
    <2>2. ASSUME NEW x \in S, NEW y \in S, NEW z \in S, <<x, y>> \in R, <<y, z>> \in R
          PROVE  <<x, z>> \in R
      BY <1>1, <2>2, BeforeTransitive
    <2>3. ASSUME NEW x \in S, NEW y \in S, NEW z \in S, <<x, z>> \in R
          PROVE  <<x, y>> \in R \/ <<y, z>> \in R
      <3>1. Before(x.point, z.point) /\ x.point \in Path /\ y.point \in Path /\ z.point \in Path
        BY <1>1, <2>3
      <3>2. Before(x.point, y.point) \/ Before(y.point, z.point)
        BY <3>1, BeforeTotal, BeforeTransitive
      <3> QED BY <3>2
    <2> HIDE DEF R
    <2> QED BY <2>1, <2>2, <2>3 DEF Orders
  <1>4. \A x \in S : /\ Below(S, R, x) = {y \in S : Before(y.point, x.point)}
                     /\ UpTo(S, R, x) = {y \in S : ~Before(x.point, y.point)}
    BY DEF Below, UpTo
  <1>5. \A x, y \in S : <<y, x>> \in R <=> Before(y.point, x.point)
    OBVIOUS
  <1> HIDE DEF R
  <1>6. \A k \in 1 .. Cardinality(S) : nth(k) \in S /\ AtPlace(S, R, nth(k), k)
    <2> SUFFICES ASSUME NEW k \in 1 .. Cardinality(S)
                 PROVE  nth(k) \in S /\ AtPlace(S, R, nth(k), k)
      OBVIOUS
    <2>1. PICK x \in S : AtPlace(S, R, x, k)
      BY <1>1, <1>3, PlaceTaken
    <2>2. \A z \in S : Cardinality(UpTo(S, R, z)) \in Nat
      BY <1>1, Counts
    <2>3. /\ Cardinality({y \in S : Before(y.point, x.point)}) < k
          /\ Cardinality({y \in S : ~Before(x.point, y.point)}) >= k
      BY <1>1, <1>4, <2>1, <2>2 DEF AtPlace
    <2>4. /\ nth(k) \in S
          /\ Cardinality({y \in S : Before(y.point, nth(k).point)}) < k
          /\ Cardinality({y \in S : ~Before(nth(k).point, y.point)}) >= k
      BY <2>3
    <2> HIDE DEF nth
    <2>5. /\ Cardinality(Below(S, R, nth(k))) < k /\ Cardinality(UpTo(S, R, nth(k))) >= k
      BY <1>4, <2>4
    <2> QED BY <2>2, <2>4, <2>5 DEF AtPlace
  <1> HIDE DEF nth
  <1>7. BindPaths(entries) \in Seq(Path) /\ Len(BindPaths(entries)) = Cardinality(S)
    BY <1>1, <1>2, <1>6
  <1>8. Sorted(BindPaths(entries))
    <2> SUFFICES ASSUME NEW k \in 1 .. Cardinality(S), NEW l \in 1 .. Cardinality(S), k < l
                 PROVE  ~Before(nth(l).point, nth(k).point)
      BY <1>2 DEF Sorted
    <2>1. <<nth(l), nth(k)>> \notin R
      BY <1>1, <1>3, <1>6, PlacesOrdered
    <2> QED BY <1>5, <1>6, <2>1
  <1> QED BY <1>7, <1>8

\* Names are opened in increasing order, none of them twice.
LEMMA NamesInOrder ==
    ASSUME NEW S, IsFiniteSet(S), S \subseteq Int
    PROVE  /\ InOrder(S) \in Seq(Int) /\ Len(InOrder(S)) = Cardinality(S)
           /\ \A k, l \in 1 .. Cardinality(S) : k < l => InOrder(S)[k] < InOrder(S)[l]
  <1> DEFINE R == {x \in S \X S : x[1] < x[2]}
             nth(k) == CHOOSE x \in S : /\ Cardinality({y \in S : y < x}) < k
                                        /\ Cardinality({y \in S : ~(x < y)}) >= k
  <1>1. Cardinality(S) \in Nat
    BY FS_CardinalityType
  <1>2. InOrder(S) = [k \in 1 .. Cardinality(S) |-> nth(k)]
    BY DEF InOrder, Nth
  <1>3. Orders(R, S)
    BY DEF Orders
  <1>4. \A x \in S : /\ Below(S, R, x) = {y \in S : y < x} /\ UpTo(S, R, x) = {y \in S : ~(x < y)}
    BY DEF Below, UpTo
  <1>5. \A x, y \in S : <<y, x>> \in R <=> y < x
    OBVIOUS
  <1>5a. \A x \in S : Cardinality(UpTo(S, R, x)) = Cardinality(Below(S, R, x)) + 1
    <2> SUFFICES ASSUME NEW x \in S PROVE Cardinality(UpTo(S, R, x)) = Cardinality(Below(S, R, x)) + 1
      OBVIOUS
    <2>0. \A y \in S : y \in Int
      OBVIOUS
    <2>1. \A y \in S : /\ y \in UpTo(S, R, x) <=> (y < x \/ y = x)
                       /\ y \in Below(S, R, x) <=> y < x
      BY <2>0, <1>4
    <2>2. UpTo(S, R, x) \subseteq S /\ Below(S, R, x) \subseteq S /\ ~(x < x)
      BY <2>0 DEF UpTo, Below
    <2>3. UpTo(S, R, x) = Below(S, R, x) \cup {x} /\ x \notin Below(S, R, x)
      BY <2>1, <2>2
    <2> QED BY <2>3, Counts, FS_AddElement
  <1> HIDE DEF R
  <1>6. \A k \in 1 .. Cardinality(S) : nth(k) \in S /\ AtPlace(S, R, nth(k), k)
    <2> SUFFICES ASSUME NEW k \in 1 .. Cardinality(S)
                 PROVE  nth(k) \in S /\ AtPlace(S, R, nth(k), k)
      OBVIOUS
    <2>1. PICK x \in S : AtPlace(S, R, x, k)
      BY <1>1, <1>3, PlaceTaken
    <2>2. \A z \in S : Cardinality(UpTo(S, R, z)) \in Nat
      BY <1>1, Counts
    <2>3. Cardinality({y \in S : y < x}) < k /\ Cardinality({y \in S : ~(x < y)}) >= k
      BY <1>1, <1>4, <2>1, <2>2 DEF AtPlace
    <2>4. /\ nth(k) \in S
          /\ Cardinality({y \in S : y < nth(k)}) < k /\ Cardinality({y \in S : ~(nth(k) < y)}) >= k
      BY <2>3
    <2> HIDE DEF nth
    <2>5. Cardinality(Below(S, R, nth(k))) < k /\ Cardinality(UpTo(S, R, nth(k))) >= k
      BY <1>4, <2>4
    <2> QED BY <2>2, <2>4, <2>5 DEF AtPlace
  <1> HIDE DEF nth
  <1>6a. \A k \in 1 .. Cardinality(S) : nth(k) \in Int
    BY <1>6
  <1>7. InOrder(S) \in Seq(Int) /\ Len(InOrder(S)) = Cardinality(S)
    BY <1>1, <1>2, <1>6a
  <1>8. ASSUME NEW k \in 1 .. Cardinality(S), NEW l \in 1 .. Cardinality(S), k < l
        PROVE  nth(k) < nth(l)
    <2>1. <<nth(l), nth(k)>> \notin R
      BY <1>1, <1>3, <1>6, <1>8, PlacesOrdered
    <2>2. nth(k) # nth(l)
      <3>1. /\ Cardinality(Below(S, R, nth(k))) < k /\ l <= Cardinality(UpTo(S, R, nth(l)))
            /\ nth(k) \in S
        BY <1>6 DEF AtPlace
      <3>2. Cardinality(UpTo(S, R, nth(k))) = Cardinality(Below(S, R, nth(k))) + 1
            /\ Cardinality(Below(S, R, nth(k))) \in Nat
        BY <1>5a, <3>1, Counts
      <3> QED BY <1>1, <1>8, <3>1, <3>2
    <2>3. nth(k) \in Int /\ nth(l) \in Int /\ ~(nth(l) < nth(k))
      BY <1>5, <1>6, <1>6a, <2>1
    <2> QED BY <2>2, <2>3
  <1> QED BY <1>2, <1>7, <1>8

\* string_list_contains_dir_path() answers rightly if what it has passed is before the path,
\* and has then passed nothing that is after it.
LEMMA LookupRight ==
    ASSUME NEW list \in Seq(Path), Sorted(list), NEW idx \in 0 .. Len(list), NEW path \in Path,
           \A k \in 1 .. idx : Before(list[k], path)
    PROVE  LET hit == string_list_contains_dir_path(list, idx, path)
           IN  /\ hit.found \in BOOLEAN /\ (hit.found <=> path \in ToSet(list))
               /\ hit.idx \in 0 .. Len(list)
               /\ \A k \in 1 .. hit.idx : list[k] = path \/ Before(list[k], path)
  <1> DEFINE size == Len(list)
             Stops(k) == /\ k >= size \/ ~Before(list[k + 1], path)
                         /\ \A l \in idx .. k - 1 : Before(list[l + 1], path)
             I == idx .. (IF idx < size THEN size ELSE idx)
             stop == CHOOSE k \in I : Stops(k)
             found == stop < size /\ list[stop + 1] = path
             hit == string_list_contains_dir_path(list, idx, path)
             T == {k \in Nat : k >= idx /\ (k >= size \/ ~Before(list[k + 1], path))}
  <1>1. size \in Nat /\ idx \in Nat /\ idx <= size /\ I = idx .. size
    OBVIOUS
  <1>2. hit = [found |-> found, idx |-> IF found THEN stop + 1 ELSE stop]
    BY DEF string_list_contains_dir_path
  <1>3. stop \in I /\ Stops(stop)
    <2>1. T \in SUBSET Nat /\ size \in T
      BY <1>1
    <2>2. PICK k \in T : \A l \in T : k <= l
      BY <2>1, LeastElement
    <2>3. k \in I
      BY <1>1, <2>1, <2>2
    <2>4. \A l \in idx .. k - 1 : Before(list[l + 1], path)
      <3> SUFFICES ASSUME NEW l \in idx .. k - 1, ~Before(list[l + 1], path) PROVE FALSE
        OBVIOUS
      <3>1. l \in T /\ l < k /\ k \in Nat /\ l \in Nat
        BY <1>1, <2>2
      <3>2. k <= l
        BY <2>2, <3>1, Zenon
      <3> QED BY <3>1, <3>2
    <2>5. Stops(k)
      BY <2>2, <2>4
    <2> HIDE DEF I, Stops
    <2> QED BY <2>3, <2>5
  <1> HIDE DEF stop
  <1>4. \A k \in 1 .. stop : Before(list[k], path)
    <2> SUFFICES ASSUME NEW k \in 1 .. stop, k > idx PROVE Before(list[k], path)
      BY <1>1, <1>3
    <2>1. k - 1 \in idx .. stop - 1
      BY <1>1, <1>3
    <2>2. Before(list[(k - 1) + 1], path)
      BY <2>1, <1>3
    <2> QED BY <2>2, <1>1, <1>3
  <1>5. stop \in Nat /\ stop <= size
    BY <1>1, <1>3
  <1>6. \A k \in 1 .. size : list[k] \in Path
    OBVIOUS
  <1>7. ASSUME path \in ToSet(list) PROVE found
    <2>1. PICK n \in 1 .. size : list[n] = path
      BY <1>7 DEF ToSet
    <2>2. n > stop
      BY <1>4, <1>5, <2>1, BeforeIrreflexive
    <2>3. stop + 1 \in 1 .. size /\ ~Before(list[stop + 1], path)
      BY <1>3, <1>5, <2>1, <2>2
    <2>4. CASE n = stop + 1
      BY <1>5, <2>1, <2>3, <2>4
    <2>5. CASE n # stop + 1
      <3>1. stop + 1 < n /\ n \in DOMAIN list /\ stop + 1 \in DOMAIN list
        BY <1>5, <2>1, <2>2, <2>3, <2>5
      <3>2. ~Before(path, list[stop + 1])
        BY <3>1, <2>1 DEF Sorted
      <3>3. list[stop + 1] = path
        BY <1>6, <2>3, <3>2, BeforeTotal
      <3> QED BY <3>3, <2>3, <1>5
    <2> QED BY <2>4, <2>5
  <1>8. ASSUME found PROVE path \in ToSet(list)
    BY <1>5, <1>8 DEF ToSet
  <1>9. found \in BOOLEAN
    OBVIOUS
  <1>10. ASSUME NEW k \in 1 .. hit.idx PROVE list[k] = path \/ Before(list[k], path)
    BY <1>2, <1>4, <1>5, <1>10
  <1>11. hit.idx \in 0 .. Len(list)
    BY <1>2, <1>5
  <1> HIDE DEF hit, found
  <1> QED BY <1>2, <1>7, <1>8, <1>9, <1>10, <1>11 DEF hit

-----------------------------------------------------------------------------
(* The mounts and what is opened.                                          *)

Times == ((DOMAIN Tree) \X Path) \cup {Unknown}
Fd == [mnt : Nat, dev : DOMAIN Tree, dir : Path]
Calls == [path : Path, fd : Fd, db_modified : Times]
Frame == [path : Path, fd : Fd, subs : Seq(Calls), left : Seq(Int)]
Mounts(t) ==
    /\ IsFiniteSet(t) /\ \E m \in t : m.point = <<>>
    /\ \A m \in t : m.id \in Nat /\ m.dev \in DOMAIN Tree /\ m.root \in Path /\ m.point \in Path
StoredDirs(d) ==
    IsFiniteSet(d) /\ \A r \in d : r \in [path : Path, time : Times] /\ r.path # <<>>

LEMMA RootPath == <<>> \in Path
  BY DEF Path

\* Going up the mounts at a path leads to a directory.
LEMMA OnTopType ==
    ASSUME NEW t, Mounts(t), NEW at \in Fd, NEW path
    PROVE  OnTop(t, at, path) \in Fd
  <1> DEFINE n == Cardinality(t)
             on(below) == {m \in t : m.parent = below.mnt /\ m.point = path}
             top(below) == CHOOSE m \in on(below) : TRUE
             above(below) == IF on(below) = {} THEN below
                             ELSE [mnt |-> top(below).id, dev |-> top(below).dev, dir |-> top(below).root]
             G(f) == f = [k \in 0 .. n |-> IF k = 0 THEN at ELSE above(f[k - 1])]
             up == CHOOSE f : G(f)
             h == [k \in Nat |-> [b \in Fd |-> above(b)]]
  <1>1. n \in Nat
    BY FS_CardinalityType DEF Mounts
  <1>2. OnTop(t, at, path) = up[n]
    BY DEF OnTop
  <1>3. \A b \in Fd : above(b) \in Fd
    <2> SUFFICES ASSUME NEW b \in Fd, on(b) # {}
                 PROVE  [mnt |-> top(b).id, dev |-> top(b).dev, dir |-> top(b).root] \in Fd
      OBVIOUS
    <2>1. top(b) \in on(b)
      OBVIOUS
    <2>2. top(b) \in t
      BY <2>1
    <2> HIDE DEF top
    <2> QED BY <2>2 DEF Mounts, Fd
  <1> HIDE DEF above
  <1>4. h \in [Nat -> [Fd -> Fd]]
    BY <1>3
  <1>5. PICK f : IsRun(f, Fd, at, h, n)
    BY <1>1, <1>4, Iteration
  <1>6. G(f)
    <2>1. f \in [0 .. n -> Fd] /\ f[0] = at /\ \A k \in 1 .. n : f[k] = h[k][f[k - 1]]
      BY <1>5 DEF IsRun
    <2>2. ASSUME NEW k \in 1 .. n PROVE f[k] = above(f[k - 1])
      <3>1. k \in Nat /\ k - 1 \in 0 .. n
        BY <1>1
      <3>2. f[k - 1] \in Fd /\ f[k] = h[k][f[k - 1]]
        BY <2>1, <3>1
      <3> HIDE DEF n
      <3> QED BY <3>1, <3>2
    <2> QED BY <1>1, <2>1, <2>2
  <1>7. G(up)
    BY <1>6
  <1> HIDE DEF up, n
  <1> DEFINE T == {k \in Nat : k <= n => up[k] \in Fd}
  <1>8. 0 \in T
    BY <1>1, <1>7
  <1>9. ASSUME NEW k \in Nat, k \in T PROVE k + 1 \in T
    <2> SUFFICES ASSUME k + 1 <= n PROVE up[k + 1] \in Fd
      OBVIOUS
    <2>1. up[k] \in Fd /\ k + 1 \in 0 .. n /\ k + 1 # 0 /\ (k + 1) - 1 = k
      BY <1>1, <1>9
    <2>2. up[k + 1] = above(up[k])
      BY <1>7, <2>1
    <2> QED BY <1>3, <2>1, <2>2
  <1>10. n \in T
    <2> HIDE DEF T
    <2> QED BY <1>1, <1>8, <1>9, SetInduction
  <1> QED BY <1>1, <1>2, <1>10

LEMMA RootType ==
    ASSUME NEW t, Mounts(t)
    PROVE  RootDir(t) \in Fd
  <1>1. RootMount(t) \in t
    BY DEF Mounts, RootMount
  <1> QED BY <1>1 DEF RootDir, Mounts, Fd

LEMMA OpenatType ==
    ASSUME NEW t, Mounts(t), NEW fd \in Fd, NEW p \in Path, NEW x \in Int
    PROVE  openat(t, fd, Append(p, x)) \in Fd
  <1>1. Last(Append(p, x)) = x
    BY DEF Last, Path
  <1>2. Append(fd.dir, x) \in Path
    BY ChildOf DEF Fd
  <1>3. [fd EXCEPT !.dir = Append(fd.dir, x)] \in Fd
    BY <1>2 DEF Fd
  <1>4. openat(t, fd, Append(p, x)) = OnTop(t, [fd EXCEPT !.dir = Append(fd.dir, x)], Append(p, x))
    BY <1>1 DEF openat
  <1> QED BY <1>3, <1>4, OnTopType

LEMMA ReadType ==
    ASSUME NEW t, Mounts(t)
    PROVE  /\ IsFiniteSet(read_mount_entries(t))
           /\ \A m \in read_mount_entries(t) : m.point \in Path
  <1>1. read_mount_entries(t) \subseteq t
    BY DEF read_mount_entries
  <1> QED BY <1>1, FS_Subset DEF Mounts

LEMMA LastType ==
    ASSUME NEW p \in Path, p # <<>>
    PROVE  Last(p) \in Int
  BY DEF Path, Last

LEMMA ReaddirType ==
    ASSUME NEW fd \in Fd
    PROVE  IsFiniteSet(Readdir(fd)) /\ Readdir(fd) \subseteq Int
  <1> DEFINE D == {e \in Tree[fd.dev] : e # <<>> /\ Front(e) = fd.dir}
  <1>1. fd.dev \in DOMAIN Tree
    BY DEF Fd
  <1>2. IsFiniteSet(D)
    <2>1. IsFiniteSet(Tree[fd.dev]) /\ D \subseteq Tree[fd.dev]
      BY <1>1, TreeAssumption
    <2> QED BY <2>1, FS_Subset
  <1>3. Readdir(fd) = {Last(d) : d \in D}
    BY DEF Readdir
  <1>4. \A d \in D : Last(d) \in Int
    BY <1>1, TreeAssumption, LastType
  <1> HIDE DEF D
  <1>5. IsFiniteSet({Last(d) : d \in D})
    <2> DEFINE f == [d \in D |-> Last(d)]
    <2>1. f \in Surjection(D, {Last(d) : d \in D})
      BY DEF Surjection
    <2> QED BY <1>2, <2>1, FS_Surjection
  <1> QED BY <1>3, <1>4, <1>5

LEMMA OldListingType ==
    ASSUME StoredDirs(db), NEW path
    PROVE  IsFiniteSet(OldListing(path)) /\ OldListing(path) \subseteq Int
  <1> DEFINE D == {e \in db : Front(e.path) = path}
  <1>1. IsFiniteSet(D)
    <2>1. IsFiniteSet(db) /\ D \subseteq db
      BY DEF StoredDirs
    <2> QED BY <2>1, FS_Subset
  <1>2. OldListing(path) = {Last(r.path) : r \in D}
    BY DEF OldListing
  <1>3. \A r \in D : Last(r.path) \in Int
    BY LastType DEF StoredDirs
  <1> HIDE DEF D
  <1>4. IsFiniteSet({Last(r.path) : r \in D})
    <2> DEFINE f == [r \in D |-> Last(r.path)]
    <2>1. f \in Surjection(D, {Last(r.path) : r \in D})
      BY DEF Surjection
    <2> QED BY <1>1, <2>1, FS_Surjection
  <1> QED BY <1>2, <1>3, <1>4

LEMMA StoredTimeType ==
    ASSUME StoredDirs(db), NEW path
    PROVE  StoredTime(path) \in Times
  <1>1. CASE \E r \in db : r.path = path
    <2>1. (CHOOSE r \in db : r.path = path) \in db
      BY <1>1
    <2> QED BY <1>1, <2>1 DEF StoredTime, StoredDirs
  <1>2. CASE ~\E r \in db : r.path = path
    BY <1>2 DEF StoredTime, Times
  <1> QED BY <1>1, <1>2

-----------------------------------------------------------------------------
(* scan() asks in the order of the lists.                                  *)

Types ==
    /\ Mounts(table)
    /\ IsFiniteSet(mount_entries) /\ \A m \in mount_entries : m.point \in Path
    /\ call \in Calls /\ frames \in Seq(Frame)
    /\ StoredDirs(db) /\ StoredDirs(newdb)

Lists ==
    /\ bind_mount_paths \in Seq(Path) /\ Sorted(bind_mount_paths)
    /\ bind_mount_paths_index \in 0 .. Len(bind_mount_paths)
    /\ conf_prunepaths_index \in 0 .. Len(conf_prunepaths)
    /\ asked.found <=> asked.path \in ToSet(asked.list)

\* Without the thread, the list is only read before the scan begins.
Alone ==
    poller = "none" /\ pc # "off" =>
        /\ mountinfo_updated = FALSE
        /\ pc \in {"read", "match"} => conf_prunepaths_index = 0

Child(p, q) == \E x \in Int : p = Append(q, x)
InCall == {"read", "match", "enter", "asked", "lookup", "list"}

\* What is still to be scanned: the subdirectories of a frame in order, those of
\* the frames below after everything in the branch that was taken, the names still
\* to be opened after the ones that were, and all of it after the call.
Branch(k) ==
    LET subs == frames[k].subs
    IN  /\ \A i \in 1 .. Len(subs) : Child(subs[i].path, frames[k].path)
        /\ \A i, j \in 1 .. Len(subs) : i < j => Apart(subs[i].path, subs[j].path)
        /\ \A l \in 1 .. Len(frames) : k < l =>
               \A i \in 1 .. Len(subs) : Apart(frames[l].path, subs[i].path)
Opening ==
    /\ frames # <<>> /\ Top.left # <<>>
    /\ \A n, m \in 1 .. Len(Top.left) : n < m => Top.left[n] < Top.left[m]
    /\ \A i \in 1 .. Len(Top.subs) : \E x \in Int :
           /\ Top.subs[i].path = Append(Top.path, x)
           /\ \A n \in 1 .. Len(Top.left) : x < Top.left[n]
Branches ==
    /\ \A k \in 1 .. Len(frames) : Branch(k)
    /\ pc = "open" => Opening
    /\ pc \in InCall => \A k \in 1 .. Len(frames) : \A i \in 1 .. Len(frames[k].subs) :
                            Apart(call.path, frames[k].subs[i].path)

\* p comes before all of it.
Precedes(p) ==
    /\ \A k \in 1 .. Len(frames) : \A i \in 1 .. Len(frames[k].subs) :
           Before(p, frames[k].subs[i].path)
    /\ pc = "open" => \A n \in 1 .. Len(Top.left) : Before(p, Append(Top.path, Top.left[n]))
    /\ pc \in InCall => p = call.path \/ Before(p, call.path)
\* A position has passed nothing that is still to come.
Ahead ==
    /\ \A n \in 1 .. conf_prunepaths_index :
           /\ Precedes(conf_prunepaths[n])
           /\ pc = "enter" => Before(conf_prunepaths[n], call.path)
    /\ \A n \in 1 .. bind_mount_paths_index :
           /\ Precedes(bind_mount_paths[n])
           /\ pc \in InCall \ {"list"} => Before(bind_mount_paths[n], call.path)

LookupInv ==
    /\ Types /\ Lists /\ Alone
    /\ pc \in InCall \cup {"off", "open", "return"}
    /\ pc # "off" => Branches /\ Ahead

LEMMA PrunePathsType ==
    /\ conf_prunepaths \in Seq(Path) /\ Sorted(conf_prunepaths)
    /\ Len(conf_prunepaths) \in Nat /\ \A n \in 1 .. Len(conf_prunepaths) : conf_prunepaths[n] \in Path
  BY PrunePathsAssumption

LEMMA EmptyList ==
    <<>> \in Seq(Path) /\ Sorted(<<>>) /\ Len(<<>>) = 0 /\ 0 \in 0 .. 0
  BY DEF Sorted

LEMMA LookupInit == Init => LookupInv
  <1> SUFFICES ASSUME Init PROVE LookupInv
    OBVIOUS
  <1>1. Mounts(table)
    BY MountAssumption DEF Init, Mounts
  <1>2. call \in Calls
    BY <1>1, RootType, RootPath DEF Init, Called, Calls, Times
  <1>3. Types
    BY <1>1, <1>2, FS_EmptySet DEF Init, Types, StoredDirs
  <1>4. Lists
    BY EmptyList, PrunePathsType DEF Init, Lists, ToSet
  <1> QED BY <1>3, <1>4 DEF Init, LookupInv, Alone

\* Mounts come and go, and the thread and the flag change.
LEMMA LookupElsewhere ==
    ASSUME LookupInv, Mount \/ Umount \/ Poll \/ Notice \/ PollFails
    PROVE  LookupInv'
  <1>1. ASSUME NEW t, Mounts(t), Changed(t) PROVE LookupInv'
    BY <1>1 DEF Changed, LookupInv, Types, Lists, Alone, Branches, Branch, Opening, Ahead, Precedes,
                Top, threadVars, listVars, scanVars
  <1>2. CASE Mount
    <2>1. PICK b \in Mountings, id \in (2 .. MaxId) \ {m.id : m \in table} :
              Changed(table \cup {[id |-> id, parent |-> Resolve(table, b.point).mnt, dev |-> b.dev,
                                   root |-> b.root, point |-> b.point]})
      BY <1>2 DEF Mount
    <2> DEFINE new == [id |-> id, parent |-> Resolve(table, b.point).mnt, dev |-> b.dev,
                       root |-> b.root, point |-> b.point]
    <2>2. new.id \in Nat /\ new.dev \in DOMAIN Tree /\ new.root \in Path /\ new.point \in Path
      BY MountAssumption, BoundAssumption
    <2> HIDE DEF new
    <2>3. IsFiniteSet(table \cup {new})
      BY FS_AddElement DEF LookupInv, Types, Mounts
    <2>4. Mounts(table \cup {new})
      BY <2>2, <2>3 DEF LookupInv, Types, Mounts
    <2> QED BY <1>1, <2>1, <2>4 DEF new
  <1>3. CASE Umount
    <2>1. PICK m \in table : m.point # <<>> /\ Changed(table \ {m})
      BY <1>3 DEF Umount
    <2>2. IsFiniteSet(table \ {m})
      BY FS_RemoveElement DEF LookupInv, Types, Mounts
    <2>3. Mounts(table \ {m})
      BY <2>1, <2>2 DEF LookupInv, Types, Mounts
    <2> QED BY <1>1, <2>1, <2>3
  <1>4. CASE Poll \/ Notice
    <2>1. poller' # "none"
      BY <1>4 DEF Poll, Notice
    <2>2. UNCHANGED <<table, listVars, conf_prunepaths_index, pc, scanVars, asked>>
      BY <1>4 DEF Poll, Notice, mountVars
    <2>3. Alone'
      BY <2>1 DEF Alone
    <2>4. (Types /\ Lists)' <=> (Types /\ Lists)
      BY <2>2 DEF Types, Lists, listVars, scanVars
    <2>5. (Branches /\ Ahead)' <=> (Branches /\ Ahead)
      BY <2>2 DEF Branches, Branch, Opening, Ahead, Precedes, Top, listVars, scanVars
    <2> QED BY <2>2, <2>3, <2>4, <2>5 DEF LookupInv
  <1>6. CASE PollFails
    BY <1>6 DEF PollFails, LookupInv, Types, Lists, Alone, mountVars, listVars, scanVars
  <1> QED BY <1>2, <1>3, <1>4, <1>6

\* A run begins at the root with both positions at the start, and ends.
LEMMA LookupStartExit ==
    ASSUME LookupInv, Start \/ Exit
    PROVE  LookupInv'
  <1>1. CASE Start
    <2>1. /\ table' = table /\ mount_entries' = mount_entries /\ db' = db /\ newdb' = {} /\ frames' = <<>>
          /\ call' = Called(<<>>, RootDir(table), Unknown) /\ pc' \in {"read", "enter"}
          /\ bind_mount_paths' = <<>> /\ bind_mount_paths_index' = 0 /\ conf_prunepaths_index' = 0
          /\ asked' = asked /\ mountinfo_updated' = FALSE
      BY <1>1 DEF Start, mountVars
    <2>2. call' \in Calls
      BY <2>1, RootType, RootPath DEF LookupInv, Types, Called, Calls, Times
    <2>3. Types'
      BY <2>1, <2>2, FS_EmptySet DEF LookupInv, Types, StoredDirs
    <2>4. Lists'
      BY <2>1, EmptyList, PrunePathsType DEF LookupInv, Lists
    <2>5. Len(frames') = 0
      BY <2>1
    <2>6. Branches'
      BY <2>1, <2>5 DEF Branches
    <2>7. Ahead'
      BY <2>1 DEF Ahead
    <2>8. pc' \in InCall
      BY <2>1 DEF InCall
    <2> QED BY <2>1, <2>3, <2>4, <2>6, <2>7, <2>8 DEF LookupInv, Alone
  <1>2. CASE Exit
    BY <1>2 DEF Exit, LookupInv, Types, Lists, Alone, mountVars, listVars
  <1> QED BY <1>1, <1>2

LEMMA SameCall ==
    ASSUME UNCHANGED <<frames, call>>, pc \in InCall, pc' \in InCall
    PROVE  (Branches' <=> Branches) /\ \A p : Precedes(p)' <=> Precedes(p)
  <1>1. pc # "open" /\ pc' # "open"
    BY DEF InCall
  <1> QED BY <1>1 DEF Branches, Branch, Precedes

\* A rebuild: the new list is sorted and searched from its beginning.
LEMMA LookupRebuild ==
    ASSUME LookupInv, Rebuild
    PROVE  LookupInv'
  <1>1. CASE ReadMounts
    <2>1. /\ pc = "read" /\ pc' = "match" /\ mount_entries' = read_mount_entries(table)
          /\ UNCHANGED <<table, poller, mountinfo_updated, bind_mount_paths, bind_mount_paths_index,
                         conf_prunepaths_index, call, frames, db, newdb, asked>>
      BY <1>1 DEF ReadMounts, mountVars, threadVars, scanVars
    <2>2. Types'
      BY <2>1, ReadType DEF LookupInv, Types
    <2>3. Lists' /\ Alone'
      BY <2>1 DEF LookupInv, Lists, Alone
    <2>4. pc \in InCall \ {"list"} /\ pc' \in InCall \ {"list"} /\ pc # "enter" /\ pc' # "enter" /\ pc # "off"
      BY <2>1 DEF InCall
    <2>5. Branches' /\ Ahead'
      BY <2>1, <2>4, SameCall DEF LookupInv, Ahead
    <2> QED BY <2>2, <2>3, <2>4, <2>5 DEF LookupInv
  <1>2. CASE ReadMountsFails \/ MatchMounts
    <2>1. /\ pc \in {"read", "match"} /\ pc' \in {"enter", "lookup"} /\ bind_mount_paths_index' = 0
          /\ pc' = "enter" => poller = "none"
          /\ poller' = "none" => poller = "none" /\ pc' = "enter"
          /\ UNCHANGED <<table, mountinfo_updated, conf_prunepaths_index, call, frames, db, newdb, asked>>
      BY <1>2 DEF ReadMountsFails, MatchMounts, Rebuilt, mountVars, scanVars
    <2>2. /\ bind_mount_paths' \in {bind_mount_paths, BindPaths(mount_entries)}
          /\ mount_entries' \in {mount_entries, {}}
      BY <1>2 DEF ReadMountsFails, MatchMounts
    <2>3. Types'
      BY <2>1, <2>2, FS_EmptySet DEF LookupInv, Types
    <2>4. bind_mount_paths' \in Seq(Path) /\ Sorted(bind_mount_paths')
      BY <2>2, BindPathsSorted DEF LookupInv, Types, Lists
    <2>5. Lists'
      BY <2>1, <2>4 DEF LookupInv, Lists
    <2>6. pc \in InCall /\ pc' \in InCall /\ pc # "off"
      BY <2>1 DEF InCall
    <2>7. poller = "none" => conf_prunepaths_index = 0 /\ mountinfo_updated = FALSE
      BY <2>1, <2>6 DEF LookupInv, Alone
    <2>8. Alone'
      BY <2>1, <2>7 DEF Alone
    <2>9. Branches'
      BY <2>1, <2>6, SameCall DEF LookupInv
    <2>10. Ahead'
      BY <2>1, <2>6, <2>7, SameCall DEF LookupInv, Ahead
    <2> QED BY <2>3, <2>5, <2>6, <2>8, <2>9, <2>10 DEF LookupInv
  <1> QED BY <1>1, <1>2 DEF Rebuild

LEMMA LookupTest ==
    ASSUME LookupInv, TestAndClear
    PROVE  LookupInv'
  <1>1. /\ pc = "asked" /\ pc' \in {"read", "lookup"} /\ mountinfo_updated' = FALSE
        /\ pc' = "read" => mountinfo_updated
        /\ UNCHANGED <<table, poller, mount_entries, bind_mount_paths, bind_mount_paths_index,
                       conf_prunepaths_index, call, frames, db, newdb, asked>>
    BY DEF TestAndClear, mountVars, listVars, scanVars
  <1>2. Types' /\ Lists'
    BY <1>1 DEF LookupInv, Types, Lists
  <1>3. Alone'
    BY <1>1 DEF LookupInv, Alone
  <1>4. pc \in InCall \ {"list"} /\ pc' \in InCall \ {"list"} /\ pc # "enter" /\ pc' # "enter" /\ pc # "off"
    BY <1>1 DEF InCall
  <1>5. Branches' /\ Ahead'
    BY <1>1, <1>4, SameCall DEF LookupInv, Ahead
  <1> QED BY <1>2, <1>3, <1>4, <1>5 DEF LookupInv

LEMMA FrameType ==
    ASSUME Types, NEW k \in 1 .. Len(frames)
    PROVE  /\ frames[k] \in Frame /\ frames[k].path \in Path /\ frames[k].fd \in Fd
           /\ frames[k].subs \in Seq(Calls) /\ Len(frames[k].subs) \in Nat
           /\ frames[k].left \in Seq(Int) /\ Len(frames[k].left) \in Nat
           /\ \A i \in 1 .. Len(frames[k].left) : frames[k].left[i] \in Int
  <1>1. frames[k] \in Frame
    BY DEF Types
  <1> QED BY <1>1 DEF Frame

LEMMA SubType ==
    ASSUME NEW subs \in Seq(Calls)
    PROVE  \A i \in 1 .. Len(subs) : subs[i] \in Calls /\ subs[i].path \in Path
  <1>1. \A i \in 1 .. Len(subs) : subs[i] \in Calls
    OBVIOUS
  <1> QED BY <1>1 DEF Calls

\* What precedes the call precedes what is after the call.
LEMMA CallPrecedes ==
    ASSUME Types, Branches, pc \in InCall, UNCHANGED <<frames, call>>, pc' # "open",
           NEW p \in Path, p = call.path \/ Before(p, call.path)
    PROVE  Precedes(p)'
  <1>1. call.path \in Path /\ pc # "open"
    BY DEF Types, Calls, InCall
  <1>2. ASSUME NEW k \in 1 .. Len(frames), NEW i \in 1 .. Len(frames[k].subs)
        PROVE  Before(p, frames[k].subs[i].path)
    <2>1. Apart(call.path, frames[k].subs[i].path)
      BY DEF Branches
    <2>3. frames[k].subs[i].path \in Path
      BY FrameType, SubType
    <2>4. Before(call.path, frames[k].subs[i].path)
      BY <1>1, <2>1, <2>3, ApartBefore
    <2> QED BY <1>1, <2>3, <2>4, BeforeTransitive
  <1> QED BY <1>1, <1>2 DEF Precedes

LEMMA CallBranches ==
    ASSUME Branches, pc \in InCall, UNCHANGED <<frames, call>>, pc' # "open"
    PROVE  Branches'
  BY DEF Branches, Branch

LEMMA LookupEnter ==
    ASSUME LookupInv, Enter
    PROVE  LookupInv'
  <1> DEFINE hit == string_list_contains_dir_path(conf_prunepaths, conf_prunepaths_index, call.path)
  <1>1. /\ pc = "enter" /\ conf_prunepaths_index' = hit.idx /\ pc' \in {"return", "asked"}
        /\ asked' = [path |-> call.path, list |-> conf_prunepaths, found |-> hit.found]
        /\ UNCHANGED <<table, poller, mountinfo_updated, mount_entries, bind_mount_paths,
                       bind_mount_paths_index, call, frames, db, newdb>>
    BY DEF Enter, mountVars, threadVars, listVars, scanVars
  <1>2. pc \in InCall \ {"list"} /\ pc # "off" /\ pc' # "open" /\ pc' # "enter" /\ pc' # "off"
        /\ pc' \in InCall \cup {"off", "open", "return"} /\ pc' \notin {"read", "match"}
    BY <1>1 DEF InCall
  <1>3. call.path \in Path
    BY DEF LookupInv, Types, Calls
  <1>4. \A n \in 1 .. conf_prunepaths_index : Before(conf_prunepaths[n], call.path)
    BY <1>1, <1>2 DEF LookupInv, Ahead
  <1>5. /\ hit.found <=> call.path \in ToSet(conf_prunepaths)
        /\ hit.idx \in 0 .. Len(conf_prunepaths)
        /\ \A n \in 1 .. hit.idx : conf_prunepaths[n] = call.path \/ Before(conf_prunepaths[n], call.path)
    BY <1>3, <1>4, PrunePathsType, LookupRight DEF LookupInv, Lists
  <1> HIDE DEF hit
  <1>6. Types' /\ Lists' /\ Alone'
    <2>1. Types' /\ Alone'
      BY <1>1, <1>2 DEF LookupInv, Types, Alone
    <2>2. asked'.found <=> asked'.path \in ToSet(asked'.list)
      BY <1>1, <1>5
    <2>3. Lists'
      BY <1>1, <1>5, <2>2 DEF LookupInv, Lists
    <2> QED BY <2>1, <2>3
  <1>7. Branches'
    BY <1>1, <1>2, CallBranches DEF LookupInv
  <1>8. \A n \in 1 .. hit.idx : Precedes(conf_prunepaths[n])'
    <2> SUFFICES ASSUME NEW n \in 1 .. hit.idx PROVE Precedes(conf_prunepaths[n])'
      OBVIOUS
    <2>1. conf_prunepaths[n] \in Path
      BY <1>5, PrunePathsType
    <2> QED BY <1>1, <1>2, <1>5, <2>1, CallPrecedes DEF LookupInv
  <1>9. \A n \in 1 .. bind_mount_paths_index :
            Precedes(bind_mount_paths[n])' /\ Before(bind_mount_paths[n], call.path)
    <2> SUFFICES ASSUME NEW n \in 1 .. bind_mount_paths_index
                 PROVE  Precedes(bind_mount_paths[n])' /\ Before(bind_mount_paths[n], call.path)
      OBVIOUS
    <2>1. bind_mount_paths[n] \in Path
      BY DEF LookupInv, Lists
    <2>2. Before(bind_mount_paths[n], call.path)
      BY <1>1, <1>2 DEF LookupInv, Ahead
    <2> QED BY <1>1, <1>2, <2>1, <2>2, CallPrecedes DEF LookupInv
  <1>10. Ahead'
    <2>1. \A n \in 1 .. conf_prunepaths_index' : Precedes(conf_prunepaths[n])'
      BY <1>1, <1>8
    <2>2. \A n \in 1 .. bind_mount_paths_index' :
              Precedes(bind_mount_paths[n])' /\ Before(bind_mount_paths'[n], call'.path)
      BY <1>1, <1>9
    <2> QED BY <1>2, <2>1, <2>2 DEF Ahead
  <1> QED BY <1>2, <1>6, <1>7, <1>10 DEF LookupInv

LEMMA LookupLookup ==
    ASSUME LookupInv, Lookup
    PROVE  LookupInv'
  <1> DEFINE hit == string_list_contains_dir_path(bind_mount_paths, bind_mount_paths_index, call.path)
  <1>1. /\ pc = "lookup" /\ bind_mount_paths_index' = hit.idx /\ pc' \in {"return", "list"}
        /\ asked' = [path |-> call.path, list |-> bind_mount_paths, found |-> hit.found]
        /\ UNCHANGED <<table, poller, mountinfo_updated, mount_entries, bind_mount_paths,
                       conf_prunepaths_index, call, frames, db, newdb>>
    BY DEF Lookup, mountVars, threadVars, scanVars
  <1>2. pc \in InCall \ {"list"} /\ pc # "off" /\ pc' # "open" /\ pc' # "enter" /\ pc' # "off"
        /\ pc' \in InCall \cup {"off", "open", "return"} /\ pc' \notin {"read", "match"}
        /\ pc' \notin InCall \ {"list"}
    BY <1>1 DEF InCall
  <1>3. call.path \in Path /\ bind_mount_paths \in Seq(Path) /\ Sorted(bind_mount_paths)
        /\ bind_mount_paths_index \in 0 .. Len(bind_mount_paths)
    BY DEF LookupInv, Types, Lists, Calls
  <1>4. \A n \in 1 .. bind_mount_paths_index : Before(bind_mount_paths[n], call.path)
    BY <1>1, <1>2 DEF LookupInv, Ahead
  <1>5. /\ hit.found <=> call.path \in ToSet(bind_mount_paths)
        /\ hit.idx \in 0 .. Len(bind_mount_paths)
        /\ \A n \in 1 .. hit.idx : bind_mount_paths[n] = call.path \/ Before(bind_mount_paths[n], call.path)
    BY <1>3, <1>4, LookupRight
  <1> HIDE DEF hit
  <1>6. Types' /\ Lists' /\ Alone'
    <2>1. Types' /\ Alone'
      BY <1>1, <1>2 DEF LookupInv, Types, Alone
    <2>2. asked'.found <=> asked'.path \in ToSet(asked'.list)
      BY <1>1, <1>5
    <2>3. Lists'
      BY <1>1, <1>5, <2>2 DEF LookupInv, Lists
    <2> QED BY <2>1, <2>3
  <1>7. Branches'
    BY <1>1, <1>2, CallBranches DEF LookupInv
  <1>8. \A n \in 1 .. hit.idx : Precedes(bind_mount_paths[n])'
    <2> SUFFICES ASSUME NEW n \in 1 .. hit.idx PROVE Precedes(bind_mount_paths[n])'
      OBVIOUS
    <2>1. bind_mount_paths[n] \in Path
      BY <1>3, <1>5
    <2> QED BY <1>1, <1>2, <1>5, <2>1, CallPrecedes DEF LookupInv
  <1>9. \A n \in 1 .. conf_prunepaths_index : Precedes(conf_prunepaths[n])'
    <2> SUFFICES ASSUME NEW n \in 1 .. conf_prunepaths_index PROVE Precedes(conf_prunepaths[n])'
      OBVIOUS
    <2>1. conf_prunepaths[n] \in Path
      BY PrunePathsType DEF LookupInv, Lists
    <2>2. conf_prunepaths[n] = call.path \/ Before(conf_prunepaths[n], call.path)
      BY <1>1, <1>2 DEF LookupInv, Ahead, Precedes
    <2> QED BY <1>1, <1>2, <2>1, <2>2, CallPrecedes DEF LookupInv
  <1>10. Ahead'
    <2>1. \A n \in 1 .. conf_prunepaths_index' : Precedes(conf_prunepaths[n])'
      BY <1>1, <1>9
    <2>2. \A n \in 1 .. bind_mount_paths_index' : Precedes(bind_mount_paths[n])'
      BY <1>1, <1>8
    <2> QED BY <1>2, <2>1, <2>2 DEF Ahead
  <1> QED BY <1>2, <1>6, <1>7, <1>10 DEF LookupInv

\* The listing of the directory that was asked for becomes the top frame.
LEMMA LookupList ==
    ASSUME LookupInv, List
    PROVE  LookupInv'
  <1> DEFINE reuse == call.db_modified # Unknown /\ call.db_modified = Time(call.fd)
             names == IF reuse THEN OldListing(call.path) ELSE Readdir(call.fd)
             new == [path |-> call.path, fd |-> call.fd, subs |-> <<>>, left |-> InOrder(names)]
             L == Len(frames)
  <1>1. /\ pc = "list" /\ frames' = Append(frames, new) /\ pc' = IF names = {} THEN "return" ELSE "open"
        /\ UNCHANGED <<table, poller, mountinfo_updated, mount_entries, bind_mount_paths,
                       bind_mount_paths_index, conf_prunepaths_index, call, db, newdb, asked>>
    BY DEF List, mountVars, threadVars, listVars
  <1>2. call.path \in Path /\ call.fd \in Fd /\ frames \in Seq(Frame) /\ L \in Nat
    BY DEF LookupInv, Types, Calls
  <1>3. IsFiniteSet(names) /\ names \subseteq Int
    BY <1>2, OldListingType, ReaddirType DEF LookupInv, Types
  <1> HIDE DEF names
  <1>4. /\ InOrder(names) \in Seq(Int) /\ Len(InOrder(names)) = Cardinality(names)
        /\ \A k, l \in 1 .. Cardinality(names) : k < l => InOrder(names)[k] < InOrder(names)[l]
    BY <1>3, NamesInOrder
  <1>5. Cardinality(names) \in Nat /\ (names # {} => Cardinality(names) # 0)
    BY <1>3, FS_CardinalityType, FS_EmptySet
  <1>6. new \in Frame
    BY <1>2, <1>4 DEF Frame
  <1>7. /\ frames' \in Seq(Frame) /\ Len(frames') = L + 1 /\ frames'[L + 1] = new
        /\ \A k \in 1 .. L : frames'[k] = frames[k]
    BY <1>1, <1>2, <1>6
  <1>8. Top' = new
    BY <1>7 DEF Top
  <1>9. pc \in InCall /\ pc # "off" /\ pc' \notin InCall /\ pc' \in {"open", "return"}
    BY <1>1 DEF InCall
  <1>10. Types' /\ Lists' /\ Alone'
    BY <1>1, <1>7, <1>9 DEF LookupInv, Types, Lists, Alone
  <1>11. Branches'
    <2>1. ASSUME NEW k \in 1 .. L + 1 PROVE Branch(k)'
      <3>1. CASE k = L + 1
        <4>1. frames'[k].subs = <<>> /\ Len(frames'[k].subs) = 0
          BY <1>7, <3>1
        <4> QED BY <4>1 DEF Branch
      <3>2. CASE k \in 1 .. L
        <4>1. Branch(k) /\ frames'[k] = frames[k]
          BY <1>7, <1>9, <3>2 DEF LookupInv, Branches
        <4>2. \A l \in 1 .. L + 1 : k < l => \A i \in 1 .. Len(frames[k].subs) :
                  Apart(frames'[l].path, frames[k].subs[i].path)
          <5>1. \A i \in 1 .. Len(frames[k].subs) : Apart(call.path, frames[k].subs[i].path)
            BY <1>9, <3>2 DEF LookupInv, Branches
          <5>2. \A l \in 1 .. L : k < l => \A i \in 1 .. Len(frames[k].subs) :
                    Apart(frames'[l].path, frames[k].subs[i].path)
            BY <1>7, <4>1 DEF Branch
          <5>3. frames'[L + 1].path = call.path
            BY <1>7
          <5>4. \A l \in 1 .. L + 1 : l \in 1 .. L \/ l = L + 1
            BY <1>2
          <5> QED BY <5>1, <5>2, <5>3, <5>4
        <4> QED BY <1>7, <4>1, <4>2 DEF Branch
      <3> QED BY <1>2, <3>1, <3>2
    <2>2. ASSUME pc' = "open" PROVE Opening'
      <3>1. names # {} /\ frames' # <<>>
        BY <1>1, <1>2, <1>7, <2>2
      <3>2. Top'.left = InOrder(names) /\ Top'.subs = <<>> /\ Len(Top'.subs) = 0
        BY <1>8
      <3>3. InOrder(names) # <<>>
        BY <1>4, <1>5, <3>1
      <3> QED BY <1>4, <3>1, <3>2, <3>3 DEF Opening
    <2> QED BY <1>7, <1>9, <2>1, <2>2 DEF Branches
  <1>12. ASSUME NEW p \in Path, Precedes(p) PROVE Precedes(p)'
    <2>1. p = call.path \/ Before(p, call.path)
      BY <1>9, <1>12 DEF Precedes
    <2>2. ASSUME NEW x \in Int PROVE Before(p, Append(call.path, x))
      BY <1>2, <2>1, BeforeChild, ChildOf, BeforeTransitive
    <2>3. \A n \in 1 .. Len(Top'.left) : Before(p, Append(Top'.path, Top'.left[n]))
      <3>1. \A n \in 1 .. Len(InOrder(names)) : InOrder(names)[n] \in Int
        BY <1>4
      <3> QED BY <1>8, <2>2, <3>1
    <2>4. ASSUME NEW k \in 1 .. L + 1, NEW i \in 1 .. Len(frames'[k].subs)
          PROVE  Before(p, frames'[k].subs[i].path)
      <3>1. k # L + 1
        BY <1>7, <2>4
      <3>2. k \in 1 .. L /\ frames'[k] = frames[k]
        BY <1>2, <1>7, <3>1
      <3> QED BY <1>12, <3>2 DEF Precedes
    <2> QED BY <1>7, <1>9, <2>3, <2>4 DEF Precedes
  <1>13. Ahead'
    <2>1. \A n \in 1 .. conf_prunepaths_index : Precedes(conf_prunepaths[n])'
      BY <1>9, <1>12, PrunePathsType DEF LookupInv, Lists, Ahead
    <2>2. ASSUME NEW n \in 1 .. bind_mount_paths_index PROVE Precedes(bind_mount_paths[n])'
      <3>1. bind_mount_paths[n] \in Path /\ Precedes(bind_mount_paths[n])
        BY <1>9 DEF LookupInv, Lists, Ahead
      <3> QED BY <1>1, <1>12, <3>1
    <2>3. pc' # "enter"
      BY <1>9 DEF InCall
    <2> QED BY <1>1, <1>9, <2>1, <2>2, <2>3 DEF Ahead
  <1> QED BY <1>9, <1>10, <1>11, <1>13 DEF LookupInv

\* A name becomes a subdirectory to scan, after those before it.
LEMMA LookupOpen ==
    ASSUME LookupInv, Open
    PROVE  LookupInv'
  <1> DEFINE L == Len(frames)
             x == Head(Top.left)
             path == Append(Top.path, x)
             fd == openat(table, Top.fd, path)
             excluded == fd.dev # Top.fd.dev /\ filesystem_is_excluded(path)
             c == Called(path, fd, StoredTime(path))
             subs == IF excluded THEN Top.subs ELSE Append(Top.subs, c)
  <1>1. /\ pc = "open" /\ pc' = IF Len(Top.left) = 1 THEN "return" ELSE pc
        /\ frames' = [frames EXCEPT ![L].left = Tail(@),
                                    ![L].subs = IF excluded THEN @ ELSE Append(@, c)]
        /\ newdb' = newdb \cup {[path |-> path, time |-> Time(fd)]}
        /\ UNCHANGED <<table, poller, mountinfo_updated, mount_entries, bind_mount_paths,
                       bind_mount_paths_index, conf_prunepaths_index, call, db, asked>>
    BY DEF Open, mountVars, threadVars, listVars
  <1>2. pc # "off" /\ pc \notin InCall /\ pc' \notin InCall /\ pc' \in {"open", "return"}
    BY <1>1 DEF InCall
  <1>3. Types /\ Branches /\ Ahead /\ Opening /\ Lists
    BY <1>1, <1>2 DEF LookupInv, Branches
  <1>4. frames \in Seq(Frame) /\ L \in Nat /\ L # 0 /\ L \in 1 .. L /\ Top = frames[L]
    BY <1>3 DEF Types, Opening, Top
  <1>5. /\ Top \in Frame /\ Top.path \in Path /\ Top.fd \in Fd /\ Top.subs \in Seq(Calls)
        /\ Top.left \in Seq(Int) /\ Len(Top.left) \in Nat /\ Len(Top.left) # 0
    BY <1>3, <1>4, FrameType DEF Opening
  <1>6. /\ x \in Int /\ x = Top.left[1] /\ Tail(Top.left) \in Seq(Int)
        /\ Len(Tail(Top.left)) = Len(Top.left) - 1
        /\ \A n \in 1 .. Len(Top.left) - 1 : Tail(Top.left)[n] = Top.left[n + 1]
    BY <1>5
  <1>7. path \in Path /\ path # <<>>
    <2>1. path \in Path /\ Len(path) = Len(Top.path) + 1 /\ Len(Top.path) \in Nat
      BY <1>5, <1>6, ChildOf
    <2> QED BY <2>1
  <1>8. fd \in Fd
    BY <1>3, <1>5, <1>6, OpenatType DEF Types
  <1> HIDE DEF fd
  <1>9. c \in Calls /\ c.path = path
    BY <1>3, <1>7, <1>8, StoredTimeType DEF Called, Calls, Types
  <1>10. StoredDirs(newdb')
    <2>1. Time(fd) \in Times
      <3>1. fd.dev \in DOMAIN Tree /\ fd.dir \in Path
        BY <1>8 DEF Fd
      <3> QED BY <3>1 DEF Time, Times
    <2> DEFINE r == [path |-> path, time |-> Time(fd)]
    <2>2. r \in [path : Path, time : Times] /\ r.path # <<>>
      BY <2>1, <1>7
    <2> HIDE DEF r
    <2>3. IsFiniteSet(newdb \cup {r})
      BY <1>3, FS_AddElement DEF Types, StoredDirs
    <2>4. newdb' = newdb \cup {r}
      BY <1>1 DEF r
    <2> QED BY <1>3, <2>2, <2>3, <2>4 DEF Types, StoredDirs
  <1> HIDE DEF c, excluded, x
  <1>11. /\ subs \in Seq(Calls)
         /\ \A i \in 1 .. Len(subs) : \/ i \in 1 .. Len(Top.subs) /\ subs[i] = Top.subs[i]
                                      \/ i = Len(Top.subs) + 1 /\ subs[i].path = path
    BY <1>5, <1>9
  <1> HIDE DEF subs
  <1> DEFINE new == [path |-> Top.path, fd |-> Top.fd, subs |-> subs, left |-> Tail(Top.left)]
  <1>12. new \in Frame /\ [Top EXCEPT !.left = Tail(Top.left), !.subs = subs] = new
    <2>1. new \in Frame
      BY <1>5, <1>6, <1>11 DEF Frame
    <2>2. ASSUME NEW f \in Frame, NEW l, NEW s
          PROVE  [f EXCEPT !.left = l, !.subs = s] = [path |-> f.path, fd |-> f.fd, subs |-> s, left |-> l]
      <3>1. [f EXCEPT !.left = l] = [path |-> f.path, fd |-> f.fd, subs |-> f.subs, left |-> l]
        BY DEF Frame
      <3>2. [[path |-> f.path, fd |-> f.fd, subs |-> f.subs, left |-> l] EXCEPT !.subs = s]
                = [path |-> f.path, fd |-> f.fd, subs |-> s, left |-> l]
        OBVIOUS
      <3> QED BY <3>1, <3>2
    <2> QED BY <1>5, <2>1, <2>2
  <1>13. frames' = [frames EXCEPT ![L] = [Top EXCEPT !.left = Tail(Top.left), !.subs = subs]]
    BY <1>1, <1>4, <1>5 DEF subs, Frame
  <1>14. /\ frames' \in Seq(Frame) /\ Len(frames') = L /\ frames'[L] = new /\ Top' = new
         /\ \A k \in 1 .. L : k # L => frames'[k] = frames[k]
         /\ \A k \in 1 .. L : frames'[k].path = frames[k].path
    <2>1. frames' = [frames EXCEPT ![L] = new]
      BY <1>12, <1>13
    <2> HIDE DEF new
    <2>2. /\ frames' \in Seq(Frame) /\ Len(frames') = L /\ frames'[L] = new
          /\ \A k \in 1 .. L : k # L => frames'[k] = frames[k]
      BY <1>4, <1>12, <2>1
    <2> QED BY <1>4, <2>2 DEF Top, new
  <1>15. Types' /\ Lists' /\ Alone'
    BY <1>1, <1>2, <1>3, <1>10, <1>14 DEF LookupInv, Types, Lists, Alone, InCall
  <1>16. \A i \in 1 .. Len(subs) : \E y \in Int :
             /\ subs[i].path = Append(Top.path, y)
             /\ y = x \/ (i \in 1 .. Len(Top.subs) /\ \A n \in 1 .. Len(Top.left) : y < Top.left[n])
    BY <1>3, <1>6, <1>11 DEF Opening
  <1>17. \A k \in 1 .. L : Branch(k)'
    <2> SUFFICES ASSUME NEW k \in 1 .. L PROVE Branch(k)'
      OBVIOUS
    <2>1. Branch(k)
      BY <1>3 DEF Branches
    <2>2. CASE k # L
      BY <1>14, <2>1, <2>2 DEF Branch
    <2>3. CASE k = L
      <3>1. frames'[k].subs = subs /\ frames'[k].path = Top.path /\ \A l \in 1 .. L : ~(k < l)
        BY <1>4, <1>14, <2>3
      <3>2. \A i \in 1 .. Len(subs) : Child(subs[i].path, Top.path)
        BY <1>16 DEF Child
      <3>3. ASSUME NEW i \in 1 .. Len(subs), NEW j \in 1 .. Len(subs), i < j
            PROVE  Apart(subs[i].path, subs[j].path)
        <4>1. i \in 1 .. Len(Top.subs) /\ subs[i] = Top.subs[i]
          BY <1>5, <1>11, <3>3
        <4>2. CASE j \in 1 .. Len(Top.subs) /\ subs[j] = Top.subs[j]
          BY <1>4, <2>1, <2>3, <3>3, <4>1, <4>2 DEF Branch
        <4>3. CASE subs[j].path = path
          <5>1. PICK y \in Int : /\ Top.subs[i].path = Append(Top.path, y)
                                 /\ \A n \in 1 .. Len(Top.left) : y < Top.left[n]
            BY <1>3, <4>1 DEF Opening
          <5>2. y < x
            BY <1>5, <1>6, <5>1
          <5> QED BY <1>5, <1>6, <4>1, <4>3, <5>1, <5>2, ApartSiblings
        <4> QED BY <1>11, <4>2, <4>3
      <3> QED BY <1>14, <3>1, <3>2, <3>3 DEF Branch
    <2> QED BY <2>2, <2>3
  <1>18. ASSUME pc' = "open" PROVE Opening'
    <2>1. Len(Top.left) # 1
      BY <1>1, <1>18
    <2>2. /\ frames' # <<>> /\ Top'.left = Tail(Top.left) /\ Top'.subs = subs /\ Top'.path = Top.path
          /\ Len(Tail(Top.left)) = Len(Top.left) - 1 /\ Tail(Top.left) # <<>>
      <3>1. Tail(Top.left) # <<>>
        <4>1. \A t : Len(t) # 0 => t # <<>>
          OBVIOUS
        <4>2. Len(Tail(Top.left)) # 0
          BY <1>5, <1>6, <2>1
        <4> QED BY <4>1, <4>2
      <3>2. frames' # <<>>
        BY <1>4, <1>14
      <3> QED BY <1>6, <1>14, <3>1, <3>2
    <2>3. \A n, m \in 1 .. Len(Top.left) - 1 : n < m => Tail(Top.left)[n] < Tail(Top.left)[m]
      <3> SUFFICES ASSUME NEW n \in 1 .. Len(Top.left) - 1, NEW m \in 1 .. Len(Top.left) - 1, n < m
                   PROVE  Tail(Top.left)[n] < Tail(Top.left)[m]
        OBVIOUS
      <3>1. n + 1 \in 1 .. Len(Top.left) /\ m + 1 \in 1 .. Len(Top.left) /\ n + 1 < m + 1
        BY <1>5
      <3> QED BY <1>3, <1>6, <3>1 DEF Opening
    <2>4. ASSUME NEW i \in 1 .. Len(subs)
          PROVE  \E y \in Int : /\ subs[i].path = Append(Top.path, y)
                                /\ \A n \in 1 .. Len(Top.left) - 1 : y < Tail(Top.left)[n]
      <3>1. PICK y \in Int :
                /\ subs[i].path = Append(Top.path, y)
                /\ y = x \/ (i \in 1 .. Len(Top.subs) /\ \A n \in 1 .. Len(Top.left) : y < Top.left[n])
        BY <1>16
      <3>2. ASSUME NEW n \in 1 .. Len(Top.left) - 1 PROVE y < Tail(Top.left)[n]
        <4>1. n + 1 \in 1 .. Len(Top.left) /\ 1 \in 1 .. Len(Top.left) /\ 1 < n + 1
          BY <1>5
        <4>2. x < Top.left[n + 1]
          BY <1>3, <1>6, <4>1 DEF Opening
        <4> QED BY <1>6, <3>1, <4>1, <4>2
      <3> QED BY <3>1, <3>2
    <2> QED BY <2>2, <2>3, <2>4 DEF Opening
  <1>19. Branches'
    BY <1>2, <1>14, <1>17, <1>18 DEF Branches
  <1>20. ASSUME NEW p \in Path, Precedes(p) PROVE Precedes(p)'
    <2>1. \A n \in 1 .. Len(Top.left) : Before(p, Append(Top.path, Top.left[n]))
      BY <1>1, <1>20 DEF Precedes
    <2>2. Before(p, path)
      BY <1>5, <1>6, <2>1
    <2>3. ASSUME NEW k \in 1 .. L, NEW i \in 1 .. Len(frames'[k].subs)
          PROVE  Before(p, frames'[k].subs[i].path)
      <3>1. CASE k # L
        BY <1>14, <1>20, <2>3, <3>1 DEF Precedes
      <3>2. CASE k = L
        <4>1. frames'[k].subs = subs /\ i \in 1 .. Len(subs)
          BY <1>14, <2>3, <3>2
        <4>2. \A j \in 1 .. Len(Top.subs) : Before(p, Top.subs[j].path)
          BY <1>4, <1>20 DEF Precedes
        <4> QED BY <1>11, <2>2, <4>1, <4>2
      <3> QED BY <3>1, <3>2
    <2>4. ASSUME NEW n \in 1 .. Len(Top'.left) PROVE Before(p, Append(Top'.path, Top'.left[n]))
      <3>1. n \in 1 .. Len(Top.left) - 1 /\ n + 1 \in 1 .. Len(Top.left)
        BY <1>5, <1>6, <1>14, <2>4
      <3>2. Top'.left[n] = Top.left[n + 1] /\ Top'.path = Top.path
        BY <1>6, <1>14, <3>1
      <3> QED BY <2>1, <3>1, <3>2
    <2> QED BY <1>2, <1>14, <2>3, <2>4 DEF Precedes
  <1>21. Ahead'
    <2>1. \A n \in 1 .. conf_prunepaths_index : Precedes(conf_prunepaths[n])'
      BY <1>3, <1>20, PrunePathsType DEF Lists, Ahead
    <2>2. ASSUME NEW n \in 1 .. bind_mount_paths_index PROVE Precedes(bind_mount_paths[n])'
      <3>1. bind_mount_paths[n] \in Path /\ Precedes(bind_mount_paths[n])
        BY <1>3 DEF Lists, Ahead
      <3> QED BY <1>1, <1>20, <3>1
    <2>3. pc' # "enter"
      BY <1>2 DEF InCall
    <2> QED BY <1>1, <1>2, <2>1, <2>2, <2>3 DEF Ahead
  <1> QED BY <1>2, <1>15, <1>19, <1>21 DEF LookupInv

\* The next subdirectory comes after what has been asked for, before its siblings
\* and before what the callers still have to scan.
LEMMA LookupNext ==
    ASSUME LookupInv, ScanNext
    PROVE  LookupInv'
  <1> DEFINE L == Len(frames)
             subs == Top.subs
  <1>1. /\ pc = "return" /\ pc' = "enter" /\ frames # <<>> /\ subs # <<>> /\ call' = Head(subs)
        /\ frames' = [frames EXCEPT ![L].subs = Tail(@)]
        /\ UNCHANGED <<table, poller, mountinfo_updated, mount_entries, bind_mount_paths,
                       bind_mount_paths_index, conf_prunepaths_index, db, newdb, asked>>
    BY DEF ScanNext, mountVars, threadVars, listVars
  <1>2. /\ pc # "off" /\ pc \notin InCall /\ pc' \in InCall /\ pc' # "open" /\ pc' # "list"
        /\ pc' \notin {"read", "match"}
    BY <1>1 DEF InCall
  <1>3. Types /\ Branches /\ Ahead /\ Lists /\ Alone
    BY <1>1 DEF LookupInv
  <1>4. frames \in Seq(Frame) /\ L \in Nat /\ L # 0 /\ L \in 1 .. L /\ Top = frames[L]
    BY <1>1, <1>3 DEF Types, Top
  <1>5. /\ Top \in Frame /\ Top.path \in Path /\ Top.fd \in Fd /\ subs \in Seq(Calls)
        /\ Top.left \in Seq(Int) /\ Len(subs) \in Nat
    BY <1>3, <1>4, FrameType
  <1> HIDE DEF subs
  <1>6. /\ Len(subs) # 0 /\ 1 \in 1 .. Len(subs) /\ call' = subs[1] /\ call' \in Calls
        /\ Tail(subs) \in Seq(Calls) /\ Len(Tail(subs)) = Len(subs) - 1
        /\ \A i \in 1 .. Len(subs) - 1 : Tail(subs)[i] = subs[i + 1]
    BY <1>1, <1>5
  <1>7. \A i \in 1 .. Len(subs) : subs[i] \in Calls /\ subs[i].path \in Path
    BY <1>5, SubType
  <1> DEFINE new == [path |-> Top.path, fd |-> Top.fd, subs |-> Tail(subs), left |-> Top.left]
  <1>8. new \in Frame /\ [Top EXCEPT !.subs = Tail(subs)] = new
    <2>1. new \in Frame
      BY <1>5, <1>6 DEF Frame
    <2>2. ASSUME NEW f \in Frame, NEW s
          PROVE  [f EXCEPT !.subs = s] = [path |-> f.path, fd |-> f.fd, subs |-> s, left |-> f.left]
      BY DEF Frame
    <2> QED BY <1>5, <2>1, <2>2
  <1>9. /\ frames' \in Seq(Frame) /\ Len(frames') = L /\ frames'[L] = new
        /\ \A k \in 1 .. L : k # L => frames'[k] = frames[k]
        /\ \A k \in 1 .. L : frames'[k].path = frames[k].path
    <2>1. frames' = [frames EXCEPT ![L] = new]
      BY <1>1, <1>4, <1>8 DEF subs
    <2> HIDE DEF new
    <2>2. /\ frames' \in Seq(Frame) /\ Len(frames') = L /\ frames'[L] = new
          /\ \A k \in 1 .. L : k # L => frames'[k] = frames[k]
      BY <1>4, <1>8, <2>1
    <2> QED BY <1>4, <2>2 DEF new
  <1>10. Types' /\ Lists' /\ Alone'
    BY <1>1, <1>2, <1>3, <1>6, <1>9 DEF Types, Lists, Alone
  <1>11. ASSUME NEW i \in 1 .. Len(frames'[L].subs)
         PROVE  /\ i + 1 \in 1 .. Len(subs) /\ frames'[L].subs[i] = subs[i + 1]
                /\ frames'[L].subs = Tail(subs)
    <2>1. frames'[L].subs = Tail(subs)
      BY <1>9
    <2>2. i \in 1 .. Len(subs) - 1
      BY <1>6, <1>11, <2>1
    <2> QED BY <1>5, <1>6, <2>1, <2>2
  <1>12. /\ \A i \in 1 .. Len(subs) : Child(subs[i].path, Top.path)
         /\ \A i, j \in 1 .. Len(subs) : i < j => Apart(subs[i].path, subs[j].path)
    BY <1>3, <1>4 DEF Branches, Branch, subs
  <1>13. ASSUME NEW k \in 1 .. L PROVE Branch(k)'
    <2>1. Branch(k)
      BY <1>3 DEF Branches
    <2>2. CASE k # L
      BY <1>9, <2>1, <2>2 DEF Branch
    <2>3. CASE k = L
      <3>1. \A i \in 1 .. Len(frames'[L].subs) : Child(frames'[L].subs[i].path, frames'[L].path)
        BY <1>9, <1>11, <1>12
      <3>2. \A i, j \in 1 .. Len(frames'[L].subs) : i < j =>
                Apart(frames'[L].subs[i].path, frames'[L].subs[j].path)
        <4> SUFFICES ASSUME NEW i \in 1 .. Len(frames'[L].subs), NEW j \in 1 .. Len(frames'[L].subs), i < j
                     PROVE  Apart(frames'[L].subs[i].path, frames'[L].subs[j].path)
          OBVIOUS
        <4>1. i + 1 \in 1 .. Len(subs) /\ j + 1 \in 1 .. Len(subs) /\ i + 1 < j + 1
          BY <1>5, <1>11
        <4>2. frames'[L].subs[i] = subs[i + 1] /\ frames'[L].subs[j] = subs[j + 1]
          BY <1>11
        <4> QED BY <1>12, <4>1, <4>2
      <3>3. \A l \in 1 .. L : ~(L < l)
        BY <1>4
      <3> QED BY <1>9, <2>3, <3>1, <3>2, <3>3 DEF Branch
    <2> QED BY <2>2, <2>3
  <1>14. ASSUME NEW k \in 1 .. L, NEW i \in 1 .. Len(frames'[k].subs)
         PROVE  Apart(call'.path, frames'[k].subs[i].path)
    <2>1. CASE k = L
      <3>1. i + 1 \in 1 .. Len(subs) /\ 1 < i + 1 /\ frames'[k].subs[i] = subs[i + 1]
        BY <1>5, <1>11, <1>14, <2>1
      <3> QED BY <1>6, <1>12, <3>1
    <2>2. CASE k # L
      <3>1. frames'[k] = frames[k] /\ k < L
        BY <1>4, <1>9, <2>2
      <3>2. Apart(Top.path, frames[k].subs[i].path)
        BY <1>3, <1>4, <1>14, <3>1 DEF Branches, Branch
      <3>3. PICK x \in Int : call'.path = Append(Top.path, x)
        BY <1>6, <1>12 DEF Child
      <3>4. frames[k].subs[i].path \in Path
        BY <1>3, <1>14, <3>1, FrameType, SubType
      <3> QED BY <1>5, <3>1, <3>2, <3>3, <3>4, ApartChild
    <2> QED BY <2>1, <2>2
  <1>15. Branches'
    BY <1>2, <1>9, <1>13, <1>14 DEF Branches
  <1>16. ASSUME NEW p \in Path, Precedes(p) PROVE Precedes(p)' /\ Before(p, call'.path)
    <2>1. \A i \in 1 .. Len(subs) : Before(p, subs[i].path)
      BY <1>4, <1>16 DEF Precedes, subs
    <2>2. Before(p, call'.path)
      BY <1>6, <2>1
    <2>3. ASSUME NEW k \in 1 .. L, NEW i \in 1 .. Len(frames'[k].subs)
          PROVE  Before(p, frames'[k].subs[i].path)
      <3>1. CASE k = L
        BY <1>11, <2>1, <2>3, <3>1
      <3>2. CASE k # L
        BY <1>9, <1>16, <2>3, <3>2 DEF Precedes
      <3> QED BY <3>1, <3>2
    <2> QED BY <1>2, <1>9, <2>2, <2>3 DEF Precedes
  <1>17. Ahead'
    <2>1. \A n \in 1 .. conf_prunepaths_index :
              Precedes(conf_prunepaths[n])' /\ Before(conf_prunepaths[n], call'.path)
      BY <1>3, <1>16, PrunePathsType DEF Lists, Ahead
    <2>2. ASSUME NEW n \in 1 .. bind_mount_paths_index
          PROVE  Precedes(bind_mount_paths[n])' /\ Before(bind_mount_paths[n], call'.path)
      <3>1. bind_mount_paths[n] \in Path /\ Precedes(bind_mount_paths[n])
        BY <1>3 DEF Lists, Ahead
      <3> QED BY <1>1, <1>16, <3>1
    <2> QED BY <1>1, <2>1, <2>2 DEF Ahead
  <1> QED BY <1>2, <1>10, <1>15, <1>17 DEF LookupInv

\* A directory whose subdirectories are done leaves only those of its callers.
LEMMA LookupReturn ==
    ASSUME LookupInv, ScanReturns
    PROVE  LookupInv'
  <1> DEFINE L == Len(frames)
  <1>1. /\ pc = "return" /\ pc' = pc /\ frames # <<>> /\ frames' = Front(frames)
        /\ UNCHANGED <<table, poller, mountinfo_updated, mount_entries, bind_mount_paths, call,
                       bind_mount_paths_index, conf_prunepaths_index, db, newdb, asked>>
    BY DEF ScanReturns, mountVars, threadVars, listVars
  <1>2. pc # "off" /\ pc' # "enter" /\ pc' \notin InCall /\ pc' # "open"
    BY <1>1 DEF InCall
  <1>3. Types /\ Branches /\ Ahead /\ Lists /\ Alone
    BY <1>1 DEF LookupInv
  <1>4. frames \in Seq(Frame) /\ L \in Nat /\ L # 0
    BY <1>1, <1>3 DEF Types
  <1>5. /\ frames' \in Seq(Frame) /\ Len(frames') = L - 1
        /\ \A k \in 1 .. L - 1 : frames'[k] = frames[k] /\ k \in 1 .. L
    <2>1. frames' = SubSeq(frames, 1, L - 1)
      BY <1>1 DEF Front
    <2>2. 1 \in Int /\ L - 1 \in Int /\ \A i \in 1 .. L - 1 : frames[i] \in Frame
      BY <1>4
    <2> HIDE DEF L
    <2>3. /\ SubSeq(frames, 1, L - 1) \in Seq(Frame)
          /\ Len(SubSeq(frames, 1, L - 1)) = IF 1 <= L - 1 THEN (L - 1) - 1 + 1 ELSE 0
          /\ \A k \in 1 .. (L - 1) - 1 + 1 : SubSeq(frames, 1, L - 1)[k] = frames[1 + k - 1]
      BY <2>2, SubSeqProperties
    <2> QED BY <1>4, <2>1, <2>3
  <1>6. Types' /\ Lists' /\ Alone'
    BY <1>1, <1>2, <1>3, <1>5 DEF Types, Lists, Alone
  <1>7. Branches'
    <2>1. \A k \in 1 .. L - 1 : Branch(k)'
      BY <1>3, <1>5 DEF Branches, Branch
    <2> QED BY <1>2, <1>5, <2>1 DEF Branches
  <1>8. ASSUME NEW p, Precedes(p) PROVE Precedes(p)'
    BY <1>2, <1>5, <1>8 DEF Precedes
  <1>9. Ahead'
    BY <1>1, <1>2, <1>3, <1>8 DEF Ahead
  <1> QED BY <1>1, <1>6, <1>7, <1>9 DEF LookupInv

LEMMA LookupStep == LookupInv /\ [Next]_vars => LookupInv'
  <1> SUFFICES ASSUME LookupInv, [Next]_vars PROVE LookupInv'
    OBVIOUS
  <1>1. CASE Mount \/ Umount \/ Poll \/ Notice \/ PollFails
    BY <1>1, LookupElsewhere
  <1>2. CASE Start \/ Exit
    BY <1>2, LookupStartExit
  <1>3. CASE Rebuild
    BY <1>3, LookupRebuild
  <1>4. CASE Scan
    BY <1>4, LookupEnter, LookupTest, LookupLookup, LookupList, LookupOpen, LookupNext, LookupReturn
       DEF Scan
  <1>5. CASE UNCHANGED vars
    <2>1. UNCHANGED <<table, poller, mountinfo_updated, mount_entries, bind_mount_paths, call, frames,
                      bind_mount_paths_index, conf_prunepaths_index, pc, db, newdb, asked>>
      BY <1>5 DEF vars, mountVars, threadVars, listVars, scanVars
    <2>2. (Types' <=> Types) /\ (Lists' <=> Lists) /\ (Alone' <=> Alone)
      BY <2>1 DEF Types, Lists, Alone
    <2>3. Branches' <=> Branches
      BY <2>1 DEF Branches, Branch, Opening, Top
    <2>4. \A p : Precedes(p)' <=> Precedes(p)
      BY <2>1 DEF Precedes, Top
    <2>5. Ahead' <=> Ahead
      BY <2>1, <2>4 DEF Ahead
    <2> QED BY <2>1, <2>2, <2>3, <2>5 DEF LookupInv
  <1> QED BY <1>1, <1>2, <1>3, <1>4, <1>5 DEF Next

\* Whatever is mounted and unmounted while scan() runs, and however many runs there
\* are, string_list_contains_dir_path() answers each question of scan() as a search
\* of the whole list would, and the two positions stay within their lists.
THEOREM LookupsExact == Spec => []LookupExact
  <1>1. Init => LookupInv
    BY LookupInit
  <1>2. LookupInv /\ [Next]_vars => LookupInv'
    BY LookupStep
  <1>3. LookupInv => LookupExact
    BY DEF LookupInv, Lists, LookupExact
  <1> QED BY <1>1, <1>2, <1>3, PTL DEF Spec
=============================================================================
