---------------------------- MODULE AccessCache ----------------------------
(***************************************************************************)
(* AccessRXCache: may the user read all the directories above a name?      *)
(* Answers are cached for each directory.  access() may block, so a name   *)
(* with an unknown directory first waits for a statx() of its own name or, *)
(* if one that starts with that directory's name is under way, for that.   *)
(***************************************************************************)
EXTENDS Integers, Sequences

CONSTANTS
    Name,        \* full path names that databases hold
    Ancestors,   \* the directories above each, from the top, without "/"
    StartsWith,  \* <<name, directory>>: the name's string starts with the directory's
    Rank         \* the order of the names as strings

ASSUME NameAssumption ==
    /\ \A n \in Name : Ancestors[n] \in Seq(STRING) /\ Rank[n] \in Nat
    /\ \A m, n \in Name : Rank[m] = Rank[n] => m = n
    /\ \A n \in Name : \A i \in DOMAIN Ancestors[n] : <<n, Ancestors[n][i]>> \in StartsWith

VARIABLES
    readable,    \* the directories for which access() succeeds
    acc          \* the cache: directories known to be readable or not, and
                 \* for each pending statx() the names that wait for it too

accessVars == <<readable, acc>>

Dir == UNION {{Ancestors[n][i] : i \in DOMAIN Ancestors[n]} : n \in Name}
EmptyCache == [granted |-> {}, denied |-> {}, pending_stats |-> [n \in {} |-> <<>>]]

\* The first directory above n for which test holds, as an index; 0 if none.
FirstAbove(n, test) ==
    IF \E i \in DOMAIN Ancestors[n] : Ancestors[n][i] \in test
    THEN CHOOSE i \in DOMAIN Ancestors[n] :
             /\ Ancestors[n][i] \in test
             /\ \A j \in 1 .. i - 1 : Ancestors[n][j] \notin test
    ELSE 0

\* check_access() without allow_async: access() is called for the unknown
\* directories down to the first that is denied.
CheckNow(n) ==
    LET stop == FirstAbove(n, acc.denied \cup ((Dir \ readable) \ acc.granted))
        seen == {Ancestors[n][i] : i \in 1 .. IF stop = 0 THEN Len(Ancestors[n]) ELSE stop}
                    \ (acc.granted \cup acc.denied)
    IN  [ok |-> stop = 0,
         cache |-> [acc EXCEPT !.granted = @ \cup (seen \cap readable),
                               !.denied = @ \cup (seen \ readable)]]

\* check_access() with allow_async comes to an answer, or to an unknown directory.
Unsettled(n) == FirstAbove(n, Dir \ acc.granted)
Settled(n) == \A i \in {Unsettled(n)} \ {0} : Ancestors[n][i] \in acc.denied

\* The pending statx() that n can wait for: pending_stats.lower_bound(parent_path).
Joinable(n) ==
    {k \in DOMAIN acc.pending_stats : <<k, Ancestors[n][Unsettled(n)]>> \in StartsWith}
lower_bound(n) == CHOOSE k \in Joinable(n) : \A l \in Joinable(n) : Rank[k] <= Rank[l]

\* Mutant of Joined: the name replaces the ones that waited before it.
JoinedAlone(n, who) == [acc EXCEPT !.pending_stats[lower_bound(n)] = <<who>>]

Joined(n, who) == [acc EXCEPT !.pending_stats[lower_bound(n)] = Append(@, who)]

\* A new pending statx(), for the name itself.
Started(n) ==
    [acc EXCEPT !.pending_stats =
         [k \in DOMAIN acc.pending_stats \cup {n} |->
              IF k = n THEN <<>> ELSE acc.pending_stats[k]]]

\* pending_stats.erase(it)
Erased(n) ==
    [acc EXCEPT !.pending_stats =
         [k \in DOMAIN acc.pending_stats \ {n} |-> acc.pending_stats[k]]]
=============================================================================
