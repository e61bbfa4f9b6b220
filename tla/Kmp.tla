--------------------------------- MODULE Kmp ---------------------------------
(***************************************************************************)
(* server/src/kmp.c, and its copies on the GIS server and on the box: the    *)
(* first place of a pattern in a text, after Knuth, Morris and Pratt.  A       *)
(* round of a loop is a step.  Characters are their codes, places count from    *)
(* 0, and a zero ends a string.  The table comes from malloc: an entry that    *)
(* was not written is not in its domain.                                      *)
(***************************************************************************)
EXTENDS Integers, Sequences

CONSTANTS Searched, Sought     \* texts and patterns that are given to kmp

VARIABLES
  kmpc,            \* "idle", "nextval" in get_nextval, "search", "done"
  text, pattern,
  table,           \* next[]: where to go on in the pattern after a mismatch
  nextval,         \* j and k of get_nextval
  search,          \* i, j and index of kmp
  place            \* what kmp returns

kmpVars == <<kmpc, text, pattern, table, nextval, search, place>>

\* The character after i others, 0 behind the end.
Ch(s, i) == IF i \in 0..Len(s) - 1 THEN s[i + 1] ELSE 0

KmpInit ==
  /\ kmpc = "idle" /\ text = <<>> /\ pattern = <<>> /\ table = [x \in {0} |-> -1]
  /\ nextval = [j |-> 0, k |-> -1]
  /\ search = [i |-> 0, j |-> 0, index |-> 0]
  /\ place = -1

kmp(t, p) ==
  /\ kmpc = "idle"
  /\ text' = t /\ pattern' = p
  /\ kmpc' = IF t = <<>> \/ p = <<>> THEN "done" ELSE "nextval"
  /\ UNCHANGED <<table, nextval, search, place>>

-----------------------------------------------------------------------------
(* get_nextval                                                             *)

\* The next place of the pattern continues as the shorter one does.
NextvalGoesOn ==
  LET j == nextval.j + 1
      k == nextval.k + 1
  IN  /\ kmpc = "nextval" /\ nextval.j < Len(pattern)
      /\ nextval.k = -1 \/ Ch(pattern, nextval.j) = Ch(pattern, nextval.k)
      /\ nextval' = [j |-> j, k |-> k]
      /\ table' = [x \in 0..j |-> IF x < j THEN table[x]
                                 ELSE IF Ch(pattern, j) # Ch(pattern, k) THEN k ELSE table[k]]
      /\ UNCHANGED <<kmpc, text, pattern, search, place>>

NextvalGoesBack ==
  /\ kmpc = "nextval" /\ nextval.j < Len(pattern)
  /\ nextval.k # -1 /\ Ch(pattern, nextval.j) # Ch(pattern, nextval.k)
  /\ nextval' = [nextval EXCEPT !.k = table[nextval.k]]
  /\ UNCHANGED <<kmpc, text, pattern, table, search, place>>

NextvalEnds ==
  /\ kmpc = "nextval" /\ nextval.j = Len(pattern)
  /\ kmpc' = "search"
  /\ UNCHANGED <<text, pattern, table, nextval, search, place>>

-----------------------------------------------------------------------------
(* kmp                                                                     *)

Searching == kmpc = "search" /\ search.i < Len(text) /\ search.j < Len(pattern)
Same == Ch(text, search.i) = Ch(pattern, search.j)

Agree ==
  /\ Searching /\ Same
  /\ search' = [search EXCEPT !.i = @ + 1, !.j = @ + 1]
  /\ UNCHANGED <<kmpc, text, pattern, table, nextval, place>>


Shift ==
  /\ Searching /\ ~Same /\ table[search.j] # -1
  /\ search' = [search EXCEPT !.index = @ + search.j - table[search.j], !.j = table[search.j]]
  /\ UNCHANGED <<kmpc, text, pattern, table, nextval, place>>

StartAnew ==
  /\ Searching /\ ~Same /\ table[search.j] = -1
  /\ search' = [i |-> search.i + 1, j |-> 0, index |-> search.index + search.j + 1]
  /\ UNCHANGED <<kmpc, text, pattern, table, nextval, place>>

SearchEnds ==
  /\ kmpc = "search" /\ (search.i = Len(text) \/ search.j = Len(pattern))
  /\ place' = IF search.j = Len(pattern) THEN search.index ELSE -1
  /\ kmpc' = "done"
  /\ UNCHANGED <<text, pattern, table, nextval, search>>

\* The caller goes on; the table is freed.
KmpReturns ==
  /\ kmpc = "done"
  /\ kmpc' = "idle" /\ text' = <<>> /\ pattern' = <<>> /\ table' = [x \in {0} |-> -1]
  /\ nextval' = [j |-> 0, k |-> -1]
  /\ search' = [i |-> 0, j |-> 0, index |-> 0]
  /\ place' = -1

KmpNext ==
  \/ \E t \in Searched, p \in Sought : kmp(t, p)
  \/ NextvalGoesOn \/ NextvalGoesBack \/ NextvalEnds
  \/ Agree \/ Shift \/ StartAnew \/ SearchEnds \/ KmpReturns

KmpSpec == KmpInit /\ [][KmpNext]_kmpVars

-----------------------------------------------------------------------------
(* Properties                                                              *)

Occurs(q) ==
  /\ q \in 0..Len(text) - Len(pattern)
  /\ \A y \in 0..Len(pattern) - 1 : Ch(pattern, y) = Ch(text, q + y)

\* kmp finds the first place of the pattern, and -1 stands for none, whatever of the
\* pattern repeats itself (kmp.c:4-41).
KmpFindsFirst ==
  kmpc = "done" =>
    IF text # <<>> /\ pattern # <<>> /\ \E q \in 0..Len(text) : Occurs(q)
      THEN Occurs(place) /\ \A q \in 0..place - 1 : ~Occurs(q)
      ELSE place = -1

\* How far the loop is that is under way.
Progress ==
  IF kmpc = "nextval" THEN 2 * nextval.j - nextval.k ELSE 2 * search.i - search.j

\* Every round of either loop comes nearer to its end, which is at most two rounds away for
\* each character, so kmp ends; and it reads no entry of the table that get_nextval
\* has not written (kmp.c:17-36, 47-60).
KmpGoesForward ==
  kmpc \in {"nextval", "search"} =>
    /\ kmpc' = kmpc => Progress < Progress'
    /\ Progress <= 2 * (IF kmpc = "nextval" THEN Len(pattern) ELSE Len(text)) + 1
    /\ IF kmpc = "nextval" THEN nextval.k \in {-1} \cup DOMAIN table ELSE search.j \in DOMAIN table
=============================================================================
