---------------------------- MODULE TraceFile_proofs ----------------------------
(***************************************************************************)
(* trace_link on the text of trace.yaml, for files of any length: that it  *)
(* implements the list of LinkStore, and that it leaves the rest of the    *)
(* text alone, whatever the calls, the people, the IDs and the bound.      *)
(*                                                                         *)
(* The argument goes by places.  A tidy file has at most one item on each  *)
(* line, so that its links are listed by the lines they begin on: Lists    *)
(* (at, LinkLines(f), n), and everything parseTrace, locate and splice do  *)
(* is said of at (ReadsAs, LinksAre).  A splice moves the places below it  *)
(* by a fixed distance (Spliced, Shifted).  From there,                    *)
(*   SpliceAppends, SpliceRemoves   what a splice does to the list,        *)
(*   SpliceKept, SpliceKey          to the rest of the text and the key,   *)
(*   ParsesGrown, ParsesShrunk,                                            *)
(*   ParsesBegun                    and that YAML still accepts it.        *)
(* InsertedKeeps and RemovedKeeps put them together for the two edits of   *)
(* the tool, and AddStep .. HumanDropStep for the actions.  ForeignStep    *)
(* looks only at the list: which links of it are others'.                  *)
(*                                                                         *)
(* The layout (Orderly) is the inductive invariant.  It is needed: locate  *)
(* counts the well-formed items where they begin, and of two items on one  *)
(* line it removes both.  OrderlyFiles asks it of the files a spec starts  *)
(* with, and of nothing that is written later.                             *)
(***************************************************************************)
EXTENDS TraceFile, Lemmas

---------------------------------------------------------------------------
(* The links of a tidy file and the lines they begin on. *)

\* What an item of links: may be (parseTrace).
Item == Store!Link \cup {Malformed}

\* The lines on which an item begins, and those of them on which it is a link.
ItemLines(f) == {i \in DOMAIN f : f[i].items # <<>>}
LinkLines(f) == {i \in DOMAIN f : f[i].items # <<>> /\ f[i].items # <<Malformed>>}

\* What Tidy says of a line.
LEMMA TidyLine ==
  ASSUME NEW f, Tidy(f)
  PROVE  /\ f \in Seq(Line) /\ Len(f) \in Nat /\ DOMAIN f = 1..Len(f)
         /\ \A i \in 1..Len(f) : /\ f[i].kind \in Kind /\ f[i].items \in Seq(Item)
                                 /\ f[i].items # <<>> =>
                                      /\ Len(f[i].items) = 1 /\ f[i].items[1] \in Item
                                      /\ f[i].items = <<f[i].items[1]>>
                                      /\ f[i].kind \in ItemKind \cup RowKind
         /\ IsFiniteSet(1..Len(f))
         /\ ItemLines(f) \in SUBSET Nat /\ IsFiniteSet(ItemLines(f))
         /\ LinkLines(f) \in SUBSET ItemLines(f) /\ IsFiniteSet(LinkLines(f))
         /\ LinkLines(f) \in SUBSET (1..Len(f))
<1>1. f \in Seq(Line)
  BY DEF Tidy
<1>2. Len(f) \in Nat /\ DOMAIN f = 1..Len(f)
  BY <1>1
<1>3. ASSUME NEW i \in 1..Len(f)
      PROVE  /\ f[i].kind \in Kind /\ f[i].items \in Seq(Item)
             /\ f[i].items # <<>> =>
                  /\ Len(f[i].items) = 1 /\ f[i].items[1] \in Item
                  /\ f[i].items = <<f[i].items[1]>>
                  /\ f[i].kind \in ItemKind \cup RowKind
  <2>1. f[i] \in Line
    BY <1>1
  <2>2. f[i].kind \in Kind /\ f[i].items \in Seq(Item)
    BY <2>1 DEF Line, Item
  <2>3. f[i].items # <<>> => Len(f[i].items) = 1 /\ f[i].kind \in ItemKind \cup RowKind
    BY <1>2 DEF Tidy
  <2> QED BY <2>2, <2>3, Singleton
<1>4. IsFiniteSet(1..Len(f))
  BY <1>2, FS_Interval
<1>5. ItemLines(f) \subseteq 1..Len(f) /\ LinkLines(f) \subseteq ItemLines(f)
  BY <1>2 DEF ItemLines, LinkLines
<1>6. IsFiniteSet(ItemLines(f)) /\ IsFiniteSet(LinkLines(f))
  BY <1>4, <1>5, FS_Subset
<1> QED BY <1>1, <1>2, <1>3, <1>4, <1>5, <1>6

\* The items of a tidy file, from the first down.
LEMMA ItemsAre ==
  ASSUME NEW f, Tidy(f), NEW o, o = InOrder(ItemLines(f))
  PROVE  Items(f) = [n \in 1..Cardinality(ItemLines(f)) |->
                       [item |-> f[o[n]].items[1], line |-> o[n]]]
<1> DEFINE row(i) == [j \in DOMAIN f[i].items |-> [item |-> f[i].items[j], line |-> i]]
           s == [i \in DOMAIN f |-> row(i)]
           X == [item : Item, line : Nat]
           S == ItemLines(f)
<1>1. /\ Len(f) \in Nat /\ DOMAIN f = 1..Len(f)
      /\ \A i \in 1..Len(f) : /\ f[i].items \in Seq(Item)
                              /\ f[i].items # <<>> => Len(f[i].items) = 1 /\ f[i].items[1] \in Item
      /\ S \in SUBSET Nat /\ IsFiniteSet(S)
  BY TidyLine
<1>2. ASSUME NEW i \in 1..Len(f)
      PROVE  /\ row(i) \in Seq(X) /\ Len(row(i)) <= 1
             /\ row(i) # <<>> <=> f[i].items # <<>>
             /\ f[i].items # <<>> => row(i)[1] = [item |-> f[i].items[1], line |-> i]
  <2>1. f[i].items \in Seq(Item)
    BY <1>1
  <2>2. CASE f[i].items = <<>>
    <3>1. row(i) = <<>>
      BY <2>2
    <3>2. Len(row(i)) = 0 /\ row(i) \in Seq(X)
      BY <3>1
    <3> QED BY <2>2, <3>1, <3>2
  <2>3. CASE f[i].items # <<>>
    <3>1. Len(f[i].items) = 1 /\ f[i].items[1] \in Item
      BY <1>1, <2>3
    <3>2. DOMAIN f[i].items = 1..1
      BY <2>1, <3>1
    <3>3. row(i) = [j \in 1..1 |-> [item |-> f[i].items[1], line |-> i]]
      BY <3>2
    <3> DEFINE x == [item |-> f[i].items[1], line |-> i]
    <3>4. x \in X
      BY <3>1
    <3> HIDE DEF x, row, X
    <3>5. row(i) \in Seq(X) /\ Len(row(i)) = 1 /\ row(i)[1] = x
      BY <3>3, <3>4 DEF x
    <3>6. Len(<<>>) = 0 /\ 0 # 1 /\ 1 <= 1
      OBVIOUS
    <3>7. row(i) # <<>> /\ Len(row(i)) <= 1
      BY <3>5, <3>6, Zenon
    <3> QED BY <2>3, <3>5, <3>7 DEF x
  <2> QED BY <2>2, <2>3
<1> HIDE DEF row, X
<1>3. s \in Seq(Seq(X)) /\ DOMAIN s = 1..Len(f)
  <2>1. s = [i \in 1..Len(f) |-> row(i)] /\ \A i \in 1..Len(f) : row(i) \in Seq(X)
    BY <1>1, <1>2
  <2> HIDE DEF s
  <2> QED BY <1>1, <2>1
<1>4. \A i \in DOMAIN s : Len(s[i]) <= 1
  BY <1>1, <1>2
<1>5. S \in SUBSET DOMAIN s /\ \A i \in DOMAIN s : i \in S <=> s[i] # <<>>
  BY <1>1, <1>2 DEF ItemLines
<1>6. Items(f) = FlattenSeq(s)
  BY DEF Items, row
<1> HIDE DEF S
<1>7. FlattenSeq(s) = Firsts(s, S)
  <2> HIDE DEF s
  <2> QED BY <1>3, <1>4, <1>5, FlattenSingles
<1>8. Cardinality(S) \in Nat /\ Lists(InOrder(S), S, Cardinality(S))
  BY <1>1, InOrderLists
<1>9. \A n \in 1..Cardinality(S) : s[o[n]][1] = [item |-> f[o[n]].items[1], line |-> o[n]]
  <2> SUFFICES ASSUME NEW n \in 1..Cardinality(S)
               PROVE  s[o[n]][1] = [item |-> f[o[n]].items[1], line |-> o[n]]
    OBVIOUS
  <2>1. o[n] \in S
    BY <1>8 DEF Lists, S
  <2>2. o[n] \in 1..Len(f) /\ f[o[n]].items # <<>>
    BY <1>1, <2>1 DEF S, ItemLines
  <2> QED BY <1>1, <1>2, <2>2
<1> HIDE DEF s
<1> QED BY <1>6, <1>7, <1>9 DEF S, Firsts

\* How a tidy file reads, given its lines with links from the first down.
LEMMA ReadsAs ==
  ASSUME NEW f, Tidy(f), NEW n \in Nat, NEW at, Lists(at, LinkLines(f), n)
  PROVE  /\ DOMAIN Parsed(f) = 1..n
         /\ \A k \in 1..n : Parsed(f)[k] = [item |-> f[at[k]].items[1], line |-> at[k]]
         /\ LinksOf(f) = [k \in 1..n |-> f[at[k]].items[1]]
         /\ Spans(f) = [k \in 1..n |-> [link |-> f[at[k]].items[1],
                                        start |-> at[k], end |-> LineEnd(f, at[k])]]
<1> DEFINE S == ItemLines(f)
           T == LinkLines(f)
           c == Cardinality(S)
           o == InOrder(S)
           items == Items(f)
           parsed == Parsed(f)
<1>1. /\ DOMAIN f = 1..Len(f)
      /\ \A i \in 1..Len(f) : f[i].items # <<>> => f[i].items = <<f[i].items[1]>>
      /\ S \in SUBSET Nat /\ IsFiniteSet(S) /\ T \in SUBSET S
  BY TidyLine
<1>2. c \in Nat /\ Lists(o, S, c)
  BY <1>1, InOrderLists
<1>3. items = [k \in 1..c |-> [item |-> f[o[k]].items[1], line |-> o[k]]]
  BY ItemsAre
<1>4. \A i \in T, j \in S : j < i => j \in T
  BY DEF Tidy, ItemLines, LinkLines
<1>5. T \in SUBSET Nat /\ Cardinality(T) = n /\ InOrder(T) = at
  BY <1>1, ListIsInOrder
<1> HIDE DEF S, T, o, items, parsed
<1>6. /\ n <= Cardinality(S)
      /\ \A k \in 1..n : at[k] = InOrder(S)[k]
      /\ \A k \in 1..Cardinality(S) : InOrder(S)[k] \in T <=> k <= n
  BY <1>1, <1>4, <1>5, InOrderBelow
<1>7. n <= c /\ (\A k \in 1..n : at[k] = o[k]) /\ (\A k \in 1..c : o[k] \in T <=> k <= n)
  BY <1>6 DEF o
<1> HIDE DEF c
<1>8. DOMAIN items = 1..c /\ \A k \in 1..c : /\ o[k] \in S
                                             /\ items[k].item = f[o[k]].items[1]
                                             /\ items[k].line = o[k]
  BY <1>2, <1>3 DEF Lists
<1>9. \A k \in 1..c : items[k].item # Malformed <=> k <= n
  <2> SUFFICES ASSUME NEW k \in 1..c PROVE items[k].item # Malformed <=> k <= n
    OBVIOUS
  <2>1. o[k] \in 1..Len(f) /\ f[o[k]].items # <<>>
    BY <1>1, <1>8 DEF S, ItemLines
  <2>2. f[o[k]].items = <<items[k].item>>
    BY <1>1, <1>8, <2>1
  <2>3. o[k] \in T <=> items[k].item # Malformed
    BY <1>1, <2>1, <2>2 DEF T, LinkLines
  <2> QED BY <1>7, <2>3
<1>10. {k \in DOMAIN items : items[k].item # Malformed} = 1..n
  BY <1>2, <1>7, <1>8, <1>9
<1>11. InOrder(1..n) = [k \in 1..n |-> k]
  BY InOrderInterval
<1>12. parsed = [k \in 1..n |-> items[k]]
  <2>1. parsed = LET a == InOrder({k \in DOMAIN items : items[k].item # Malformed})
                 IN  [k \in DOMAIN a |-> items[a[k]]]
    BY DEF parsed, Parsed, Selected, items
  <2> QED BY <1>10, <1>11, <2>1
<1>13. \A k \in 1..n : /\ k \in 1..c /\ parsed[k] = items[k]
                       /\ parsed[k].line = at[k] /\ parsed[k].item = f[at[k]].items[1]
                       /\ parsed[k] = [item |-> f[at[k]].items[1], line |-> at[k]]
  BY <1>2, <1>3, <1>7, <1>12
<1>14. DOMAIN parsed = 1..n
  BY <1>12
<1>15. LinksOf(f) = [k \in 1..n |-> f[at[k]].items[1]]
  BY <1>13, <1>14 DEF LinksOf, parsed
<1> DEFINE onLine(i) == {m \in DOMAIN parsed : parsed[m].line = i}
           rank(k) == IF onLine(items[k].line) # {} THEN Min(onLine(items[k].line)) ELSE k
           located == InOrder({k \in DOMAIN items : rank(k) \in DOMAIN parsed})
<1>16. Spans(f) = [m \in DOMAIN located |->
                     [link |-> parsed[rank(located[m])].item,
                      start |-> items[located[m]].line,
                      end |-> LineEnd(f, items[located[m]].line)]]
  BY DEF Spans, items, parsed
<1>17. \A a, b \in 1..c : o[a] = o[b] => a = b
  <2> SUFFICES ASSUME NEW a \in 1..c, NEW b \in 1..c, o[a] = o[b] PROVE a = b
    OBVIOUS
  <2>1. o[a] \in Nat /\ o[b] \in Nat
    BY <1>1, <1>8
  <2>2. ~(a < b) /\ ~(b < a)
    BY <1>2, <2>1 DEF Lists
  <2> QED BY <1>2, <2>2
<1>18. \A k \in 1..c : rank(k) = k
  <2> SUFFICES ASSUME NEW k \in 1..c PROVE rank(k) = k
    OBVIOUS
  <2>1. \A m \in 1..n : parsed[m].line = items[k].line <=> m = k
    <3>1. \A m \in 1..n : m \in 1..c /\ parsed[m].line = o[m]
      BY <1>7, <1>13
    <3>2. items[k].line = o[k]
      BY <1>8
    <3> QED BY <1>17, <3>1, <3>2
  <2>2. CASE k \in 1..n
    <3>1. onLine(items[k].line) = {k}
      BY <1>14, <2>1, <2>2
    <3>2. Min({k}) = k
      BY <2>2 DEF Min
    <3> QED BY <3>1, <3>2
  <2>3. CASE k \notin 1..n
    <3>1. onLine(items[k].line) = {}
      BY <1>14, <2>1, <2>3
    <3> QED BY <3>1
  <2> QED BY <2>2, <2>3
<1>19. {k \in DOMAIN items : rank(k) \in DOMAIN parsed} = 1..n
  <2> HIDE DEF rank
  <2> QED BY <1>2, <1>7, <1>8, <1>14, <1>18
<1> HIDE DEF rank
<1>20. located = [k \in 1..n |-> k]
  BY <1>11, <1>19
<1> HIDE DEF located
<1>21. Spans(f) = [m \in 1..n |-> [link |-> parsed[rank(located[m])].item,
                      start |-> items[located[m]].line,
                      end |-> LineEnd(f, items[located[m]].line)]]
  BY <1>16, <1>20
<1>22. \A m \in 1..n : /\ parsed[rank(located[m])].item = f[at[m]].items[1]
                       /\ items[located[m]].line = at[m]
  BY <1>8, <1>13, <1>18, <1>20
<1>23. Spans(f) = [k \in 1..n |-> [link |-> f[at[k]].items[1],
                                   start |-> at[k], end |-> LineEnd(f, at[k])]]
  BY <1>21, <1>22
<1> QED BY <1>13, <1>14, <1>15, <1>23 DEF parsed

---------------------------------------------------------------------------
(* The key and what stands below it. *)

\* The key of a file, of which there is one or none.
LEMMA OneKey ==
  ASSUME NEW f \in Seq(Line), Parses(f), NEW k \in KeyLines(f)
  PROVE  KeyLines(f) = {k}
<1>1. ASSUME NEW i \in KeyLines(f), i # k PROVE FALSE
  <2>1. IsFiniteSet(DOMAIN f)
    <3>1. DOMAIN f = 1..Len(f) /\ Len(f) \in Nat
      OBVIOUS
    <3> QED BY <3>1, FS_Interval
  <2>2. IsFiniteSet(KeyLines(f)) /\ Cardinality(KeyLines(f)) \in Nat
    BY <2>1, FS_Subset, FS_CardinalityType DEF KeyLines
  <2>3. {i, k} \subseteq KeyLines(f)
    BY <1>1
  <2>4. Cardinality({i, k}) <= Cardinality(KeyLines(f))
    BY <2>2, <2>3, FS_Subset
  <2>5. Cardinality({i, k}) = 2
    <3>1. IsFiniteSet({k}) /\ Cardinality({k}) = 1
      BY FS_Singleton
    <3> DEFINE D == {k} \cup {i}
    <3>2. Cardinality(D) = Cardinality({k}) + 1
      <4>1. i \notin {k}
        BY <1>1
      <4> QED BY <3>1, <4>1, FS_AddElement, Zenon
    <3> HIDE DEF D
    <3>4. Cardinality(D) = 1 + 1
      BY <3>1, <3>2, Zenon
    <3>5. Cardinality(D) = 2
      BY <3>4
    <3>3. D = {i, k}
      BY DEF D
    <3> QED BY <3>3, <3>5
  <2>6. Cardinality(KeyLines(f)) <= 1
    BY DEF Parses, KeyLines
  <2> QED BY <2>2, <2>4, <2>5, <2>6
<1> QED BY <1>1

\* A set that holds at most one thing.
LEMMA AtMostOne ==
  ASSUME NEW S, NEW k, S \subseteq {k}
  PROVE  Cardinality(S) <= 1
<1>1. IsFiniteSet({k}) /\ Cardinality({k}) = 1
  BY FS_Singleton
<1>2. Cardinality(S) <= Cardinality({k})
  BY <1>1, FS_Subset
<1> QED BY <1>1, <1>2

\* Rows stand below a flow key.
LEMMA RowsBelowKey ==
  ASSUME NEW f \in Seq(Line), Parses(f), NEW i \in DOMAIN f, f[i].kind \in RowKind
  PROVE  \E k \in 1..(i - 1) : f[k].kind = "flow["
<1> DEFINE R == {j \in 1..Len(f) : f[j].kind \in RowKind}
<1>1. DOMAIN f = 1..Len(f) /\ Len(f) \in Nat
  OBVIOUS
<1>2. i \in R /\ R \in SUBSET Nat
  BY <1>1
<1>3. PICK j \in R : \A m \in R : j <= m
  BY <1>2, Least
<1>4. j > 1 /\ f[j - 1].kind \in {"flow[", "row"}
  BY <1>1, <1>3 DEF Parses, RowKind
<1>5. j - 1 \notin R
  BY <1>3
<1>6. f[j - 1].kind = "flow["
  BY <1>1, <1>3, <1>4, <1>5 DEF RowKind
<1>7. j - 1 \in 1..(i - 1)
  BY <1>1, <1>2, <1>3, <1>4
<1> QED BY <1>6, <1>7

\* Items stand below the key, and block items in its mapping.
LEMMA ItemsBelowKey ==
  ASSUME NEW f, Tidy(f), Parses(f), NEW i \in ItemLines(f)
  PROVE  \E k \in 1..(i - 1) :
           /\ KeyLines(f) = {k} /\ f[k].kind \in {"links", "flow["} /\ k \in DOMAIN f
           /\ f[i].kind \in ItemKind =>
                f[k].kind = "links" /\ \A m \in k..i : f[m].kind # "header"
<1>1. /\ f \in Seq(Line) /\ Len(f) \in Nat /\ DOMAIN f = 1..Len(f) /\ i \in 1..Len(f)
      /\ f[i].kind \in ItemKind \cup RowKind
  BY TidyLine DEF ItemLines
<1>2. CASE f[i].kind \in ItemKind
  <2>1. PICK k \in 1..(i - 1) : f[k].kind = "links" /\ \A m \in k..i : f[m].kind # "header"
    BY <1>1, <1>2 DEF Parses
  <2>2. k \in KeyLines(f)
    BY <1>1, <2>1 DEF KeyLines, KeyKind
  <2>3. KeyLines(f) = {k}
    BY <1>1, <2>2, OneKey
  <2> QED BY <1>1, <2>1, <2>3
<1>3. CASE f[i].kind \in RowKind
  <2>1. PICK k \in 1..(i - 1) : f[k].kind = "flow["
    BY <1>1, <1>3, RowsBelowKey
  <2>2. k \in KeyLines(f)
    BY <1>1, <2>1 DEF KeyLines, KeyKind
  <2>3. KeyLines(f) = {k}
    BY <1>1, <2>2, OneKey
  <2>4. f[i].kind \notin ItemKind
    BY <1>3 DEF ItemKind, RowKind
  <2> QED BY <1>1, <2>1, <2>3, <2>4
<1> QED BY <1>1, <1>2, <1>3

\* In a file without a flow list there is nothing of one.
LEMMA BlockFile ==
  ASSUME NEW f \in Seq(Line), Parses(f), ~FlowLinks(f), NEW i \in DOMAIN f
  PROVE  f[i].kind \notin RowKind \cup {"flow", "flow["}
<1>1. \A k \in DOMAIN f : f[k].kind \notin {"flow", "flow["}
  BY DEF FlowLinks, KeyLines, KeyKind
<1>2. ASSUME f[i].kind \in RowKind PROVE FALSE
  <2>1. PICK k \in 1..(i - 1) : f[k].kind = "flow["
    BY <1>2, RowsBelowKey
  <2>2. k \in DOMAIN f
    OBVIOUS
  <2> QED BY <1>1, <2>1, <2>2
<1> QED BY <1>1, <1>2

\* g is f with the lines a..b replaced by new.
Spliced(f, a, b, new, g) ==
  /\ f \in Seq(Line) /\ new \in Seq(Line)
  /\ a \in 1..(Len(f) + 1) /\ b \in (a - 1)..Len(f)
  /\ g = Splice(f, a, b, new)

\* What lines.splice leaves: the lines above, the new ones, the lines below.
LEMMA SpliceIs ==
  ASSUME NEW f, NEW a, NEW b, NEW new, NEW g, Spliced(f, a, b, new, g)
  PROVE  /\ g \in Seq(Line) /\ Len(g) = a - 1 + Len(new) + (Len(f) - b)
         /\ \A i \in 1..Len(g) :
              g[i] = IF i < a THEN f[i]
                     ELSE IF i < a + Len(new) THEN new[i - a + 1]
                     ELSE f[i - Len(new) + (b - a + 1)]
<1> DEFINE X == Line
           left == SubSeq(f, 1, a - 1)
           right == SubSeq(f, b + 1, Len(f))
           m == left \o new
<1>00. /\ f \in Seq(X) /\ new \in Seq(X) /\ a \in 1..(Len(f) + 1) /\ b \in (a - 1)..Len(f)
       /\ g = m \o right
  BY DEF Spliced, Splice
<1> HIDE DEF X
<1>0. Len(f) \in Nat /\ Len(new) \in Nat /\ a \in Nat /\ b \in Nat
  BY <1>00
<1>1. /\ left \in Seq(X) /\ Len(left) = a - 1
      /\ \A j \in 1..(a - 1) : left[j] = f[j]
  BY <1>00, SubSeqProperties
<1>2. /\ right \in Seq(X) /\ Len(right) = Len(f) - b
      /\ \A j \in 1..(Len(f) - b) : right[j] = f[b + j]
  BY <1>00, SubSeqProperties
<1> HIDE DEF left, right
<1>3. /\ m \in Seq(X) /\ Len(m) = a - 1 + Len(new)
      /\ \A j \in 1..(a - 1 + Len(new)) : m[j] = IF j <= a - 1 THEN left[j] ELSE new[j - (a - 1)]
  <2>1. /\ m \in Seq(X) /\ Len(m) = Len(left) + Len(new)
        /\ \A j \in 1..(Len(left) + Len(new)) :
             m[j] = IF j <= Len(left) THEN left[j] ELSE new[j - Len(left)]
    BY <1>00, <1>1, ConcatProperties
  <2> HIDE DEF m
  <2> QED BY <1>1, <2>1
<1> HIDE DEF m
<1>4. /\ m \o right \in Seq(X) /\ Len(m \o right) = Len(m) + Len(right)
      /\ \A j \in 1..(Len(m) + Len(right)) :
           (m \o right)[j] = IF j <= Len(m) THEN m[j] ELSE right[j - Len(m)]
  BY <1>2, <1>3, ConcatProperties
<1>5. g = m \o right
  BY <1>00
<1>6. Len(g) = a - 1 + Len(new) + (Len(f) - b)
  BY <1>0, <1>2, <1>3, <1>4, <1>5
<1>8. ASSUME NEW i \in 1..Len(g)
      PROVE  g[i] = IF i < a THEN f[i]
                    ELSE IF i < a + Len(new) THEN new[i - a + 1]
                    ELSE f[i - Len(new) + (b - a + 1)]
  <2>1. g[i] = IF i <= a - 1 + Len(new) THEN m[i] ELSE right[i - (a - 1 + Len(new))]
    BY <1>2, <1>3, <1>4, <1>5, <1>6
  <2>2. CASE i < a
    BY <1>0, <1>1, <1>3, <2>1, <2>2
  <2>3. CASE i >= a /\ i < a + Len(new)
    <3>1. i <= a - 1 + Len(new) /\ ~(i <= a - 1) /\ i - (a - 1) = i - a + 1
      BY <1>0, <2>3
    <3> QED BY <1>0, <1>3, <2>1, <2>3, <3>1
  <2>4. CASE i >= a + Len(new)
    <3>1. /\ i - (a - 1 + Len(new)) \in 1..(Len(f) - b)
          /\ b + (i - (a - 1 + Len(new))) = i - Len(new) + (b - a + 1)
      BY <1>0, <1>6, <2>4
    <3>2. ~(i < a) /\ ~(i < a + Len(new)) /\ ~(i <= a - 1 + Len(new))
      BY <1>0, <2>4
    <3>3. g[i] = right[i - (a - 1 + Len(new))]
      BY <2>1, <3>2
    <3>4. \A j \in 1..(Len(f) - b) : right[j] = f[b + j]
      BY <1>2
    <3>5. right[i - (a - 1 + Len(new))] = f[b + (i - (a - 1 + Len(new)))]
      BY <3>1, <3>4
    <3> QED BY <3>1, <3>2, <3>3, <3>5
  <2> QED BY <1>0, <2>2, <2>3, <2>4
<1> QED BY <1>4, <1>5, <1>6, <1>8 DEF X

---------------------------------------------------------------------------
(* What a splice does to the text and to the list. *)

\* How far the lines below move.
Shift(a, b, new) == Len(new) - (b - a + 1)

\* Where the lines of f and the new ones stand in g, those below moved by d.
Shifted(f, a, b, new, g, d) ==
  /\ g \in Seq(Line) /\ d \in Int /\ Len(g) = Len(f) + d
  /\ Len(f) \in Nat /\ Len(new) \in Nat /\ Len(g) \in Nat /\ a \in Nat /\ b \in Nat
  /\ DOMAIN f = 1..Len(f) /\ DOMAIN g = 1..Len(g) /\ DOMAIN new = 1..Len(new)
  /\ \A i \in 1..Len(f) : /\ i < a => i \in 1..Len(g) /\ g[i] = f[i]
                          /\ i > b => /\ i + d \in 1..Len(g) /\ i + d >= a + Len(new)
                                      /\ g[i + d] = f[i]
  /\ \A j \in 1..Len(new) : a + j - 1 \in 1..Len(g) /\ g[a + j - 1] = new[j]
  /\ \A i \in 1..Len(g) :
       \/ i < a /\ i \in 1..Len(f) /\ g[i] = f[i]
       \/ i >= a /\ i < a + Len(new) /\ i - a + 1 \in 1..Len(new) /\ g[i] = new[i - a + 1]
       \/ i >= a + Len(new) /\ i - d \in 1..Len(f) /\ i - d > b /\ g[i] = f[i - d]

\* They stand there after a splice.
LEMMA SplicePlaces ==
  ASSUME NEW f, NEW a, NEW b, NEW new, NEW g, Spliced(f, a, b, new, g)
  PROVE  Shifted(f, a, b, new, g, Shift(a, b, new))
<1> DEFINE d == Shift(a, b, new)
<1>1. f \in Seq(Line) /\ new \in Seq(Line) /\ a \in 1..(Len(f) + 1) /\ b \in (a - 1)..Len(f)
  BY DEF Spliced
<1>2. Len(f) \in Nat /\ Len(new) \in Nat /\ a \in Nat /\ b \in Nat /\ d \in Int
      /\ d = Len(new) - (b - a + 1)
  BY <1>1 DEF Shift
<1>3. /\ g \in Seq(Line) /\ Len(g) = a - 1 + Len(new) + (Len(f) - b)
      /\ \A i \in 1..Len(g) :
           g[i] = IF i < a THEN f[i]
                  ELSE IF i < a + Len(new) THEN new[i - a + 1]
                  ELSE f[i - Len(new) + (b - a + 1)]
  BY SpliceIs
<1> HIDE DEF d
<1>4. Len(g) = Len(f) + d /\ Len(g) \in Nat
  BY <1>1, <1>2, <1>3
<1>5. DOMAIN f = 1..Len(f) /\ DOMAIN g = 1..Len(g) /\ DOMAIN new = 1..Len(new)
  BY <1>1, <1>3
<1> DEFINE F == Len(f)
           M == Len(new)
           G == Len(g)
<1>6. /\ F \in Nat /\ M \in Nat /\ G \in Nat /\ G = F + d /\ a \in 1..(F + 1) /\ b \in (a - 1)..F
      /\ d = M - (b - a + 1)
  BY <1>1, <1>2, <1>4
<1>7. \A i \in 1..G : /\ i < a => g[i] = f[i]
                      /\ ~(i < a) /\ i < a + M => g[i] = new[i - a + 1]
                      /\ ~(i < a) /\ ~(i < a + M) => g[i] = f[i - M + (b - a + 1)]
  BY <1>3
<1> HIDE DEF F, M, G
<1>8. ASSUME NEW i \in 1..F
      PROVE  /\ i < a => i \in 1..G /\ g[i] = f[i]
             /\ i > b => i + d \in 1..G /\ i + d >= a + M /\ g[i + d] = f[i]
  <2>1. CASE i < a
    <3>1. i \in 1..G
      BY <1>6, <2>1
    <3>2. ~(i > b)
      BY <1>6, <2>1
    <3> QED BY <1>7, <2>1, <3>1, <3>2
  <2>2. CASE i > b
    <3>1. i + d \in 1..G /\ i + d >= a + M /\ ~(i + d < a) /\ ~(i + d < a + M)
          /\ (i + d) - M + (b - a + 1) = i /\ ~(i < a)
      BY <1>6, <2>2
    <3>2. g[i + d] = f[(i + d) - M + (b - a + 1)]
      BY <1>7, <3>1
    <3> QED BY <3>1, <3>2
  <2>3. CASE ~(i < a) /\ ~(i > b)
    BY <2>3
  <2> QED BY <2>1, <2>2, <2>3
<1>9. ASSUME NEW j \in 1..M PROVE a + j - 1 \in 1..G /\ g[a + j - 1] = new[j]
  <2>1. a + j - 1 \in 1..G /\ ~(a + j - 1 < a) /\ a + j - 1 < a + M /\ (a + j - 1) - a + 1 = j
    BY <1>6
  <2>2. g[a + j - 1] = new[(a + j - 1) - a + 1]
    BY <1>7, <2>1
  <2> QED BY <2>1, <2>2
<1>10. ASSUME NEW i \in 1..G
       PROVE  \/ i < a /\ i \in 1..F /\ g[i] = f[i]
              \/ i >= a /\ i < a + M /\ i - a + 1 \in 1..M /\ g[i] = new[i - a + 1]
              \/ i >= a + M /\ i - d \in 1..F /\ i - d > b /\ g[i] = f[i - d]
  <2>1. CASE i < a
    <3>1. i \in 1..F
      BY <1>6, <2>1
    <3> QED BY <1>7, <2>1, <3>1
  <2>2. CASE ~(i < a) /\ i < a + M
    <3>1. i >= a /\ i - a + 1 \in 1..M
      BY <1>6, <2>2
    <3> QED BY <1>7, <2>2, <3>1
  <2>3. CASE ~(i < a) /\ ~(i < a + M)
    <3>1. i >= a + M /\ i - d \in 1..F /\ i - d > b /\ i - M + (b - a + 1) = i - d
      BY <1>6, <2>3
    <3> QED BY <1>7, <2>3, <3>1
  <2> QED BY <2>1, <2>2, <2>3
<1>11. Shifted(f, a, b, new, g, d)
  BY <1>2, <1>3, <1>4, <1>5, <1>8, <1>9, <1>10 DEF F, G, M, Shifted
<1> QED BY <1>11 DEF d

\* What stands in a list at some places, in their order.
Taken(s, S) == [n \in 1..Cardinality(S) |-> s[InOrder(S)[n]]]

\* Places moved in their order, to where the same stands: the same is taken.
LEMMA TakenMoved ==
  ASSUME NEW X, NEW s \in Seq(X), NEW t \in Seq(X),
         NEW S \in SUBSET DOMAIN s, NEW T \in SUBSET DOMAIN t, NEW m \in [S -> T],
         \A i, j \in S : i < j => m[i] < m[j], \A i \in T : \E j \in S : m[j] = i,
         \A i \in S : t[m[i]] = s[i]
  PROVE  Taken(t, T) = Taken(s, S)
<1>1. /\ DOMAIN s = 1..Len(s) /\ Len(s) \in Nat
      /\ DOMAIN t = 1..Len(t) /\ Len(t) \in Nat
  OBVIOUS
<1>2. S \in SUBSET (1..Len(s)) /\ T \in SUBSET (1..Len(t))
  BY <1>1
<1>3. IsFiniteSet(S)
  <2>1. IsFiniteSet(1..Len(s))
    BY <1>1, FS_Interval
  <2> QED BY <1>2, <2>1, FS_Subset
<1>4. S \in SUBSET Nat /\ T \in SUBSET Nat
  BY <1>2
<1>5. /\ Cardinality(T) = Cardinality(S)
      /\ InOrder(T) = [n \in 1..Cardinality(S) |-> m[InOrder(S)[n]]]
  BY <1>3, <1>4, InOrderMoved, ZenonT(30)
<1>6. Cardinality(S) \in Nat /\ Lists(InOrder(S), S, Cardinality(S))
  BY <1>3, <1>4, InOrderLists
<1>7. \A n \in 1..Cardinality(S) : t[InOrder(T)[n]] = s[InOrder(S)[n]]
  <2> SUFFICES ASSUME NEW n \in 1..Cardinality(S) PROVE t[InOrder(T)[n]] = s[InOrder(S)[n]]
    OBVIOUS
  <2>1. InOrder(S)[n] \in S
    BY <1>6 DEF Lists
  <2>2. InOrder(T)[n] = m[InOrder(S)[n]]
    BY <1>5
  <2> QED BY <2>1, <2>2
<1> QED BY <1>5, <1>7 DEF Taken

\* The lines of which Kept is the text.
KeptLines(f) ==
  {i \in DOMAIN f : \/ f[i].kind \in {"header", "note"}
                    \/ \E j \in DOMAIN f[i].items : f[i].items[j] = Malformed}

\* The text that Kept speaks of, line by line.
LEMMA KeptIs ==
  ASSUME NEW f
  PROVE  Kept(f) = Taken(f, KeptLines(f))
<1>1. Kept(f) = LET at == InOrder(KeptLines(f)) IN [n \in DOMAIN at |-> f[at[n]]]
  BY DEF Kept, Selected, KeptLines
<1>2. DOMAIN InOrder(KeptLines(f)) = 1..Cardinality(KeptLines(f))
  BY DEF InOrder
<1> QED BY <1>1, <1>2 DEF Taken

\* A splice keeps what it neither removes nor brings.
LEMMA SpliceKept ==
  ASSUME NEW f, NEW a, NEW b, NEW new, NEW g, Spliced(f, a, b, new, g),
         \A i \in a..b : i \notin KeptLines(f), KeptLines(new) = {}
  PROVE  Kept(g) = Kept(f)
<1> DEFINE d == Shift(a, b, new)
           S == KeptLines(f)
           T == KeptLines(g)
           m == [i \in S |-> IF i < a THEN i ELSE i + d]
           test(x) == \/ x.kind \in {"header", "note"}
                      \/ \E j \in DOMAIN x.items : x.items[j] = Malformed
<1>1. /\ g \in Seq(Line) /\ d \in Int /\ Len(g) = Len(f) + d
      /\ Len(f) \in Nat /\ Len(new) \in Nat /\ Len(g) \in Nat /\ a \in Nat /\ b \in Nat
      /\ DOMAIN f = 1..Len(f) /\ DOMAIN g = 1..Len(g) /\ DOMAIN new = 1..Len(new)
      /\ \A i \in 1..Len(f) : /\ i < a => i \in 1..Len(g) /\ g[i] = f[i]
                              /\ i > b => /\ i + d \in 1..Len(g) /\ i + d >= a + Len(new)
                                          /\ g[i + d] = f[i]
      /\ \A i \in 1..Len(g) :
           \/ i < a /\ i \in 1..Len(f) /\ g[i] = f[i]
           \/ i >= a /\ i < a + Len(new) /\ i - a + 1 \in 1..Len(new) /\ g[i] = new[i - a + 1]
           \/ i >= a + Len(new) /\ i - d \in 1..Len(f) /\ i - d > b /\ g[i] = f[i - d]
  <2>1. Shifted(f, a, b, new, g, d)
    BY SplicePlaces
  <2> HIDE DEF d
  <2> QED BY <2>1 DEF Shifted
<1>2. b >= a - 1
  BY DEF Spliced
<1>3. /\ \A i \in 1..Len(f) : i \in S <=> test(f[i])
      /\ \A i \in 1..Len(g) : i \in T <=> test(g[i])
      /\ \A i \in 1..Len(new) : ~test(new[i])
      /\ S \subseteq 1..Len(f) /\ T \subseteq 1..Len(g)
  BY <1>1 DEF KeptLines
<1> HIDE DEF d, S, T, test
<1>4. S \in SUBSET Nat /\ T \in SUBSET Nat
  BY <1>3
<1>5. \A i \in S : i \in 1..Len(f) /\ (i < a \/ i > b)
  BY <1>1, <1>3 DEF S
<1>6. ASSUME NEW i \in S PROVE m[i] \in T /\ g[m[i]] = f[i]
  <2>1. test(f[i]) /\ i \in 1..Len(f)
    BY <1>3
  <2>2. CASE i < a
    <3>1. m[i] = i /\ i \in 1..Len(g) /\ g[i] = f[i]
      BY <1>1, <2>1, <2>2
    <3> QED BY <1>3, <2>1, <3>1
  <2>3. CASE ~(i < a)
    <3>1. m[i] = i + d /\ i > b
      BY <1>5, <2>3
    <3>2. i + d \in 1..Len(g) /\ g[i + d] = f[i]
      BY <1>1, <2>1, <3>1
    <3>3. i + d \in T
      BY <1>3, <2>1, <3>2
    <3> QED BY <3>1, <3>2, <3>3
  <2> QED BY <2>2, <2>3
<1>7. m \in [S -> T]
  BY <1>6
<1>8. \A i, j \in S : i < j => m[i] < m[j]
  <2> SUFFICES ASSUME NEW i \in S, NEW j \in S, i < j PROVE m[i] < m[j]
    OBVIOUS
  <2>1. i \in Nat /\ j \in Nat
    BY <1>4
  <2>2. j > b => j + d >= a + Len(new)
    BY <1>1, <1>5
  <2>3. i < a \/ i > b
    BY <1>5
  <2>4. j < a \/ j > b
    BY <1>5
  <2> QED BY <1>1, <1>2, <2>1, <2>2, <2>3, <2>4
<1>9. ASSUME NEW i \in T PROVE \E j \in S : m[j] = i
  <2>1. i \in 1..Len(g) /\ test(g[i])
    BY <1>3
  <2>2. CASE i < a /\ i \in 1..Len(f) /\ g[i] = f[i]
    <3>1. i \in S
      BY <1>3, <2>1, <2>2
    <3> QED BY <2>2, <3>1
  <2>3. CASE i - d \in 1..Len(f) /\ i - d > b /\ g[i] = f[i - d]
    <3>1. i - d \in S
      BY <1>3, <2>1, <2>3
    <3>2. ~(i - d < a) /\ (i - d) + d = i
      BY <1>1, <1>2, <2>1, <2>3
    <3>3. m[i - d] = i
      BY <3>1, <3>2
    <3> QED BY <3>1, <3>3
  <2>4. ~(i - a + 1 \in 1..Len(new) /\ g[i] = new[i - a + 1])
    BY <1>3, <2>1
  <2> QED BY <1>1, <2>1, <2>2, <2>3, <2>4
<1> HIDE DEF m
<1>10. /\ \A i \in T : \E j \in S : m[j] = i
       /\ \A i \in S : g[m[i]] = f[i]
  BY <1>6, <1>9
<1>11. /\ f \in Seq(Line) /\ g \in Seq(Line)
       /\ S \in SUBSET DOMAIN f /\ T \in SUBSET DOMAIN g
  BY <1>1, <1>3 DEF Spliced
<1>12. Taken(g, T) = Taken(f, S)
  BY <1>7, <1>8, <1>10, <1>11, TakenMoved
<1>13. Kept(f) = Taken(f, S) /\ Kept(g) = Taken(g, T)
  BY KeptIs DEF S, T
<1> QED BY <1>12, <1>13

\* A splice of links, or of no items, leaves a tidy file tidy.
LEMMA SpliceTidy ==
  ASSUME NEW f, NEW a, NEW b, NEW new, NEW g, Spliced(f, a, b, new, g), Tidy(f),
         \A j \in 1..Len(new) : new[j].items # <<>> =>
           /\ Len(new[j].items) = 1 /\ new[j].kind \in ItemKind \cup RowKind
           /\ new[j].items # <<Malformed>>
           /\ \A i \in 1..Len(f) : f[i].items = <<Malformed>> => i >= a
  PROVE  Tidy(g)
<1> DEFINE d == Shift(a, b, new)
<1>1. /\ g \in Seq(Line) /\ d \in Int /\ Len(g) = Len(f) + d
      /\ Len(f) \in Nat /\ Len(new) \in Nat /\ Len(g) \in Nat /\ a \in Nat /\ b \in Nat
      /\ DOMAIN f = 1..Len(f) /\ DOMAIN g = 1..Len(g)
      /\ \A i \in 1..Len(g) :
           \/ i < a /\ i \in 1..Len(f) /\ g[i] = f[i]
           \/ i >= a /\ i < a + Len(new) /\ i - a + 1 \in 1..Len(new) /\ g[i] = new[i - a + 1]
           \/ i >= a + Len(new) /\ i - d \in 1..Len(f) /\ i - d > b /\ g[i] = f[i - d]
  <2>1. Shifted(f, a, b, new, g, d)
    BY SplicePlaces
  <2> HIDE DEF d
  <2> QED BY <2>1 DEF Shifted
<1>2. b >= a - 1
  BY DEF Spliced
<1> HIDE DEF d
<1>3. ASSUME NEW i \in 1..Len(g), g[i].items # <<>>
      PROVE  Len(g[i].items) = 1 /\ g[i].kind \in ItemKind \cup RowKind
  <2>1. \A j \in 1..Len(f) : f[j].items # <<>> =>
          Len(f[j].items) = 1 /\ f[j].kind \in ItemKind \cup RowKind
    BY <1>1 DEF Tidy
  <2>2. \/ \E y \in 1..Len(f) : g[i] = f[y]
        \/ \E j \in 1..Len(new) : g[i] = new[j]
    BY <1>1
  <2>3. CASE \E y \in 1..Len(f) : g[i] = f[y]
    BY <1>3, <2>1, <2>3
  <2>4. CASE \E j \in 1..Len(new) : g[i] = new[j]
    BY <1>3, <2>4
  <2> QED BY <2>2, <2>3, <2>4
<1>4. ASSUME NEW i \in 1..Len(g), NEW j \in 1..Len(g),
             g[i].items = <<Malformed>>, g[j].items # <<>>, i < j
      PROVE  g[j].items = <<Malformed>>
  <2>1. \A x, y \in 1..Len(f) :
          f[x].items = <<Malformed>> /\ f[y].items # <<>> /\ x < y => f[y].items = <<Malformed>>
    BY <1>1 DEF Tidy
  <2>2. <<Malformed>> # <<>>
    OBVIOUS
  <2>3. CASE i < a /\ i \in 1..Len(f) /\ g[i] = f[i]
    <3>1. CASE j < a /\ j \in 1..Len(f) /\ g[j] = f[j]
      BY <1>4, <2>1, <2>3, <3>1
    <3>2. CASE j - a + 1 \in 1..Len(new) /\ g[j] = new[j - a + 1]
      <4>1. i >= a
        BY <1>4, <2>3, <3>2
      <4> QED BY <1>1, <2>3, <4>1
    <3>3. CASE j - d \in 1..Len(f) /\ j - d > b /\ g[j] = f[j - d]
      <4>1. i < j - d
        BY <1>1, <1>2, <2>3, <3>3
      <4> QED BY <1>4, <2>1, <2>3, <3>3, <4>1
    <3> QED BY <1>1, <3>1, <3>2, <3>3
  <2>4. CASE i - a + 1 \in 1..Len(new) /\ g[i] = new[i - a + 1]
    BY <1>4, <2>2, <2>4
  <2>5. CASE i >= a + Len(new) /\ i - d \in 1..Len(f) /\ i - d > b /\ g[i] = f[i - d]
    <3>1. ~(j < a) /\ ~(j < a + Len(new))
      BY <1>1, <1>4, <2>5
    <3>2. j - d \in 1..Len(f) /\ g[j] = f[j - d]
      BY <1>1, <3>1
    <3>3. i - d < j - d
      BY <1>1, <1>4
    <3> QED BY <1>4, <2>1, <2>5, <3>2, <3>3
  <2> QED BY <1>1, <2>3, <2>4, <2>5
<1> QED BY <1>1, <1>3, <1>4 DEF Tidy

\* The list at of n lines, and the line p after them.
ListedThen(at, n, p) == [k \in 1..(n + 1) |-> IF k <= n THEN at[k] ELSE p]

\* A splice that brings one link below all others appends it to the list.
LEMMA SpliceAppends ==
  ASSUME NEW f, NEW a, NEW b, NEW new, NEW g, Spliced(f, a, b, new, g), Tidy(f), Tidy(g),
         NEW j \in 1..Len(new), new[j].items # <<>>, new[j].items # <<Malformed>>,
         \A x \in 1..Len(new) : x # j => new[x].items = <<>>,
         \A i \in LinkLines(f) : i < a,
         NEW n \in Nat, NEW at, Lists(at, LinkLines(f), n)
  PROVE  /\ Lists(ListedThen(at, n, a + j - 1), LinkLines(g), n + 1)
         /\ \A k \in 1..n : g[at[k]] = f[at[k]]
<1> DEFINE d == Shift(a, b, new)
           p == a + j - 1
           to == ListedThen(at, n, p)
<1>1. /\ g \in Seq(Line) /\ d \in Int /\ Len(g) = Len(f) + d
      /\ Len(f) \in Nat /\ Len(new) \in Nat /\ Len(g) \in Nat /\ a \in Nat /\ b \in Nat
      /\ DOMAIN f = 1..Len(f) /\ DOMAIN g = 1..Len(g)
      /\ \A i \in 1..Len(f) : i < a => i \in 1..Len(g) /\ g[i] = f[i]
      /\ p \in 1..Len(g) /\ g[p] = new[j]
      /\ \A i \in 1..Len(g) :
           \/ i < a /\ i \in 1..Len(f) /\ g[i] = f[i]
           \/ i >= a /\ i < a + Len(new) /\ i - a + 1 \in 1..Len(new) /\ g[i] = new[i - a + 1]
           \/ i >= a + Len(new) /\ i - d \in 1..Len(f) /\ i - d > b /\ g[i] = f[i - d]
  <2>1. Shifted(f, a, b, new, g, d)
    BY SplicePlaces
  <2> HIDE DEF d
  <2> QED BY <2>1 DEF Shifted
<1>2. b >= a - 1 /\ p >= a /\ p \in Nat
  BY <1>1 DEF Spliced
<1> HIDE DEF d
<1>3. /\ \A i \in 1..Len(f) :
           i \in LinkLines(f) <=> f[i].items # <<>> /\ f[i].items # <<Malformed>>
      /\ \A i \in 1..Len(g) :
           i \in LinkLines(g) <=> g[i].items # <<>> /\ g[i].items # <<Malformed>>
      /\ LinkLines(f) \subseteq 1..Len(f) /\ LinkLines(g) \subseteq 1..Len(g)
  BY <1>1 DEF LinkLines
<1>5. /\ at \in [1..n -> LinkLines(f)]
      /\ \A x, y \in 1..n : x < y => at[x] < at[y]
      /\ \A i \in LinkLines(f) : \E x \in 1..n : at[x] = i
  BY DEF Lists
<1>6. \A k \in 1..n : /\ at[k] \in 1..Len(f) /\ at[k] < a /\ g[at[k]] = f[at[k]]
                      /\ at[k] \in LinkLines(g) /\ at[k] \in Nat
  <2> SUFFICES ASSUME NEW k \in 1..n
               PROVE  /\ at[k] \in 1..Len(f) /\ at[k] < a /\ g[at[k]] = f[at[k]]
                      /\ at[k] \in LinkLines(g) /\ at[k] \in Nat
    OBVIOUS
  <2>1. at[k] \in LinkLines(f)
    BY <1>5
  <2>2. at[k] \in 1..Len(f) /\ at[k] < a
    BY <1>3, <2>1
  <2>3. at[k] \in 1..Len(g) /\ g[at[k]] = f[at[k]]
    BY <1>1, <2>2
  <2>4. at[k] \in LinkLines(g)
    BY <1>3, <2>1, <2>2, <2>3
  <2> QED BY <2>2, <2>3, <2>4
<1>7. p \in LinkLines(g)
  BY <1>1, <1>3
<1>8. \A k \in 1..n : to[k] = at[k]
  BY <1>6 DEF ListedThen
<1>9. to[n + 1] = p
  <2>1. n + 1 \in 1..(n + 1) /\ ~(n + 1 <= n)
    OBVIOUS
  <2> QED BY <2>1 DEF ListedThen
<1>10. /\ DOMAIN to = 1..(n + 1) /\ \A k \in 1..(n + 1) : k \in 1..n \/ k = n + 1
       /\ to = [k \in 1..(n + 1) |-> to[k]]
  BY DEF ListedThen
<1> HIDE DEF p, to
<1>11. to \in [1..(n + 1) -> LinkLines(g)]
  <2>1. \A k \in 1..(n + 1) : to[k] \in LinkLines(g)
    BY <1>6, <1>7, <1>8, <1>9, <1>10
  <2>2. to = [k \in 1..(n + 1) |-> to[k]]
    BY <1>10
  <2> QED BY <2>1, <2>2
<1>12. \A x, y \in 1..(n + 1) : x < y => to[x] < to[y]
  <2> SUFFICES ASSUME NEW x \in 1..(n + 1), NEW y \in 1..(n + 1), x < y PROVE to[x] < to[y]
    OBVIOUS
  <2>1. x \in 1..n
    OBVIOUS
  <2>2. CASE y \in 1..n
    BY <1>5, <1>8, <2>1, <2>2
  <2>3. CASE y = n + 1
    <3>1. to[x] = at[x] /\ at[x] < a /\ at[x] \in Nat /\ to[y] = p
      BY <1>6, <1>8, <1>9, <2>1, <2>3
    <3> QED BY <1>1, <1>2, <3>1
  <2> QED BY <1>10, <2>2, <2>3
<1>13. ASSUME NEW i \in LinkLines(g) PROVE \E x \in 1..(n + 1) : to[x] = i
  <2>1. i \in 1..Len(g) /\ g[i].items # <<>> /\ g[i].items # <<Malformed>>
    BY <1>3
  <2>2. CASE i \in 1..Len(f) /\ g[i] = f[i]
    <3>1. i \in LinkLines(f)
      BY <1>3, <2>1, <2>2
    <3>2. PICK x \in 1..n : at[x] = i
      BY <1>5, <3>1
    <3> QED BY <1>8, <3>2
  <2>3. CASE i - a + 1 \in 1..Len(new) /\ g[i] = new[i - a + 1]
    <3>1. i - a + 1 = j
      BY <2>1, <2>3
    <3>2. i = p
      BY <1>1, <2>1, <3>1 DEF p
    <3>3. n + 1 \in 1..(n + 1)
      OBVIOUS
    <3> QED BY <1>9, <3>2, <3>3
  <2>4. CASE i - d \in 1..Len(f) /\ i - d > b /\ g[i] = f[i - d]
    <3>1. i - d \in LinkLines(f)
      BY <1>3, <2>1, <2>4
    <3>2. i - d < a
      BY <3>1
    <3> QED BY <1>1, <1>2, <2>1, <2>4, <3>2
  <2> QED BY <1>1, <2>1, <2>2, <2>3, <2>4
<1>14. Lists(to, LinkLines(g), n + 1)
  BY <1>11, <1>12, <1>13 DEF Lists
<1> QED BY <1>6, <1>14 DEF to, p

\* A splice that removes the lines of a link removes it from the list.
LEMMA SpliceRemoves ==
  ASSUME NEW f, NEW a, NEW b, NEW g, Spliced(f, a, b, <<>>, g), Tidy(f), Tidy(g),
         NEW n \in Nat, NEW at, Lists(at, LinkLines(f), n), NEW m \in 1..n, at[m] = a, a <= b,
         \A i \in (a + 1)..b : i \notin LinkLines(f)
  PROVE  LinksOf(g) = RemoveAt(LinksOf(f), m)
<1> DEFINE d == Shift(a, b, <<>>)
           to == [k \in 1..(n - 1) |-> IF k < m THEN at[k] ELSE at[k + 1] + d]
<1>1. /\ g \in Seq(Line) /\ d \in Int /\ Len(g) = Len(f) + d
      /\ Len(f) \in Nat /\ Len(g) \in Nat /\ a \in Nat /\ b \in Nat
      /\ DOMAIN f = 1..Len(f) /\ DOMAIN g = 1..Len(g)
      /\ \A i \in 1..Len(f) : /\ i < a => i \in 1..Len(g) /\ g[i] = f[i]
                              /\ i > b => i + d \in 1..Len(g) /\ i + d >= a /\ g[i + d] = f[i]
      /\ \A i \in 1..Len(g) : \/ i < a /\ i \in 1..Len(f) /\ g[i] = f[i]
                              \/ i >= a /\ i - d \in 1..Len(f) /\ i - d > b /\ g[i] = f[i - d]
  <2> DEFINE e == <<>>
  <2>1. Len(e) = 0 /\ Shifted(f, a, b, e, g, d)
    BY SplicePlaces
  <2> HIDE DEF d
  <2>2. /\ g \in Seq(Line) /\ d \in Int /\ Len(g) = Len(f) + d
        /\ Len(f) \in Nat /\ Len(g) \in Nat /\ a \in Nat /\ b \in Nat
        /\ DOMAIN f = 1..Len(f) /\ DOMAIN g = 1..Len(g)
        /\ \A i \in 1..Len(f) : /\ i < a => i \in 1..Len(g) /\ g[i] = f[i]
                                /\ i > b => /\ i + d \in 1..Len(g) /\ i + d >= a + Len(e)
                                            /\ g[i + d] = f[i]
        /\ \A i \in 1..Len(g) :
             \/ i < a /\ i \in 1..Len(f) /\ g[i] = f[i]
             \/ i >= a /\ i < a + Len(e) /\ i - a + 1 \in 1..Len(e) /\ g[i] = e[i - a + 1]
             \/ i >= a + Len(e) /\ i - d \in 1..Len(f) /\ i - d > b /\ g[i] = f[i - d]
    BY <2>1 DEF Shifted
  <2> HIDE DEF e
  <2> QED BY <2>1, <2>2
<1> HIDE DEF d
<1>2. /\ \A i \in 1..Len(f) :
           i \in LinkLines(f) <=> f[i].items # <<>> /\ f[i].items # <<Malformed>>
      /\ \A i \in 1..Len(g) :
           i \in LinkLines(g) <=> g[i].items # <<>> /\ g[i].items # <<Malformed>>
      /\ LinkLines(f) \subseteq 1..Len(f) /\ LinkLines(g) \subseteq 1..Len(g)
  BY <1>1 DEF LinkLines
<1>3. /\ at \in [1..n -> LinkLines(f)]
      /\ \A x, y \in 1..n : x < y => at[x] < at[y]
      /\ \A i \in LinkLines(f) : \E x \in 1..n : at[x] = i
  BY DEF Lists
<1>4. ASSUME NEW k \in 1..n
      PROVE  /\ at[k] \in Nat /\ at[k] \in 1..Len(f) /\ at[k] \in LinkLines(f)
             /\ k < m => at[k] < a /\ at[k] \in LinkLines(g) /\ g[at[k]] = f[at[k]]
             /\ k > m => at[k] > b /\ at[k] + d \in LinkLines(g) /\ g[at[k] + d] = f[at[k]]
                         /\ at[k] + d >= a
  <2>1. at[k] \in Nat /\ at[k] \in 1..Len(f) /\ at[k] \in LinkLines(f)
    BY <1>2, <1>3
  <2>2. ASSUME k < m PROVE at[k] < a /\ at[k] \in LinkLines(g) /\ g[at[k]] = f[at[k]]
    <3>1. at[k] < a
      BY <1>3, <2>2
    <3>2. at[k] \in 1..Len(g) /\ g[at[k]] = f[at[k]]
      BY <1>1, <2>1, <3>1
    <3> QED BY <1>2, <2>1, <3>1, <3>2
  <2>3. ASSUME k > m
        PROVE  /\ at[k] > b /\ at[k] + d \in LinkLines(g) /\ g[at[k] + d] = f[at[k]]
               /\ at[k] + d >= a
    <3>1. a < at[k]
      BY <1>3, <2>3
    <3>2. at[k] > b
      BY <1>1, <2>1, <3>1
    <3> QED BY <1>1, <1>2, <2>1, <3>2
  <2> QED BY <2>1, <2>2, <2>3
<1>5. n - 1 \in Nat /\ \A k \in 1..(n - 1) : k \in 1..n /\ k + 1 \in 1..n /\ (~(k < m) => k + 1 > m)
  OBVIOUS
<1>6. DOMAIN to = 1..(n - 1) /\ \A k \in 1..(n - 1) :
        /\ k < m => to[k] = at[k]
        /\ ~(k < m) => to[k] = at[k + 1] + d
  OBVIOUS
<1>61. to = [k \in 1..(n - 1) |-> to[k]]
  OBVIOUS
<1> HIDE DEF to
<1>7. \A k \in 1..(n - 1) : /\ to[k] \in LinkLines(g) /\ to[k] \in Nat
                            /\ k < m => to[k] < a /\ g[to[k]] = f[at[k]]
                            /\ ~(k < m) => to[k] >= a /\ g[to[k]] = f[at[k + 1]]
  <2> SUFFICES ASSUME NEW k \in 1..(n - 1)
               PROVE  /\ to[k] \in LinkLines(g) /\ to[k] \in Nat
                      /\ k < m => to[k] < a /\ g[to[k]] = f[at[k]]
                      /\ ~(k < m) => to[k] >= a /\ g[to[k]] = f[at[k + 1]]
    OBVIOUS
  <2>1. CASE k < m
    BY <1>2, <1>4, <1>5, <1>6, <2>1
  <2>2. CASE ~(k < m)
    <3>1. k + 1 \in 1..n /\ k + 1 > m /\ to[k] = at[k + 1] + d
      BY <1>5, <1>6, <2>2
    <3> QED BY <1>2, <1>4, <2>2, <3>1
  <2> QED BY <2>1, <2>2
<1>8. \A x, y \in 1..(n - 1) : x < y => to[x] < to[y]
  <2> SUFFICES ASSUME NEW x \in 1..(n - 1), NEW y \in 1..(n - 1), x < y PROVE to[x] < to[y]
    OBVIOUS
  <2>1. CASE y < m
    <3>1. x < m /\ x \in 1..n /\ y \in 1..n
      BY <1>5, <2>1
    <3> QED BY <1>3, <1>6, <2>1, <3>1
  <2>2. CASE ~(y < m) /\ x < m
    BY <1>1, <1>7, <2>2
  <2>3. CASE ~(x < m)
    <3>1. ~(y < m) /\ x + 1 \in 1..n /\ y + 1 \in 1..n /\ x + 1 < y + 1
      BY <1>5, <2>3
    <3>2. at[x + 1] < at[y + 1] /\ at[x + 1] \in Nat /\ at[y + 1] \in Nat
      BY <1>3, <1>4, <3>1
    <3>3. to[x] = at[x + 1] + d /\ to[y] = at[y + 1] + d
      BY <1>6, <2>3, <3>1
    <3>4. d \in Int
      BY <1>1
    <3> QED BY <3>2, <3>3, <3>4
  <2> QED BY <2>1, <2>2, <2>3
<1>9. ASSUME NEW i \in LinkLines(g) PROVE \E x \in 1..(n - 1) : to[x] = i
  <2>1. i \in 1..Len(g) /\ g[i].items # <<>> /\ g[i].items # <<Malformed>>
    BY <1>2
  <2>2. CASE i < a /\ i \in 1..Len(f) /\ g[i] = f[i]
    <3>1. i \in LinkLines(f)
      BY <1>2, <2>1, <2>2
    <3>2. PICK x \in 1..n : at[x] = i
      BY <1>3, <3>1
    <3>3. ~(x > m) /\ x # m
      BY <1>1, <1>4, <2>2, <3>2
    <3>4. x < m /\ x \in 1..(n - 1)
      BY <3>3
    <3> QED BY <1>6, <3>2, <3>4
  <2>3. CASE i >= a /\ i - d \in 1..Len(f) /\ i - d > b /\ g[i] = f[i - d]
    <3>1. i - d \in LinkLines(f)
      BY <1>2, <2>1, <2>3
    <3>2. PICK x \in 1..n : at[x] = i - d
      BY <1>3, <3>1
    <3>3. ~(x < m) /\ x # m
      BY <1>1, <1>4, <2>1, <2>3, <3>2
    <3>4. x - 1 \in 1..(n - 1) /\ ~(x - 1 < m) /\ (x - 1) + 1 = x
      BY <3>3
    <3>5. to[x - 1] = at[x] + d
      BY <1>6, <3>4
    <3>6. to[x - 1] = i
      BY <1>1, <2>1, <3>2, <3>5
    <3> QED BY <3>4, <3>6
  <2> QED BY <1>1, <2>1, <2>2, <2>3
<1>10. Lists(to, LinkLines(g), n - 1)
  <2>2. to \in [1..(n - 1) -> LinkLines(g)]
    BY <1>7, <1>61
  <2> QED BY <1>8, <1>9, <2>2 DEF Lists
<1>11. LinksOf(f) = [k \in 1..n |-> f[at[k]].items[1]]
  BY ReadsAs
<1>12. LinksOf(g) = [k \in 1..(n - 1) |-> g[to[k]].items[1]]
  BY <1>5, <1>10, ReadsAs
<1>13. \A k \in 1..n : f[at[k]].items[1] \in Item
  BY <1>4, TidyLine DEF LinkLines
<1> DEFINE s == LinksOf(f)
<1>14. s \in Seq(Item) /\ Len(s) = n /\ \A k \in 1..n : s[k] = f[at[k]].items[1]
  BY <1>11, <1>13
<1> HIDE DEF s
<1>15. /\ RemoveAt(s, m) \in Seq(Item) /\ Len(RemoveAt(s, m)) = n - 1
       /\ \A k \in 1..(n - 1) : RemoveAt(s, m)[k] = IF k < m THEN s[k] ELSE s[k + 1]
  BY <1>14, RemoveAtProperties
<1>16. \A k \in 1..(n - 1) : RemoveAt(s, m)[k] = g[to[k]].items[1]
  <2> SUFFICES ASSUME NEW k \in 1..(n - 1) PROVE RemoveAt(s, m)[k] = g[to[k]].items[1]
    OBVIOUS
  <2>1. k \in 1..n /\ k + 1 \in 1..n
    BY <1>5
  <2>2. CASE k < m
    <3>1. RemoveAt(s, m)[k] = s[k] /\ g[to[k]] = f[at[k]]
      BY <1>7, <1>15, <2>2
    <3> QED BY <1>14, <2>1, <3>1
  <2>3. CASE ~(k < m)
    <3>1. RemoveAt(s, m)[k] = s[k + 1] /\ g[to[k]] = f[at[k + 1]]
      BY <1>7, <1>15, <2>3
    <3> QED BY <1>14, <2>1, <3>1
  <2> QED BY <2>2, <2>3
<1>17. RemoveAt(s, m) = [k \in 1..(n - 1) |-> RemoveAt(s, m)[k]]
  BY <1>5, <1>15
<1> QED BY <1>12, <1>16, <1>17 DEF s

---------------------------------------------------------------------------
(* What YAML accepts after a splice. *)

\* How many lines a..b are.
Width(a, b) == b - a + 1

\* A splice below the key that brings no other leaves the key where it is.
LEMMA SpliceKey ==
  ASSUME NEW f, NEW a, NEW b, NEW new, NEW g, Spliced(f, a, b, new, g),
         NEW k \in 1..(a - 1), KeyLines(f) = {k},
         \A j \in 1..Len(new) : new[j].kind \notin KeyKind
  PROVE  KeyLines(g) = {k} /\ HeaderBlock(g) = HeaderBlock(f)
<1> DEFINE d == Shift(a, b, new)
<1>1. /\ g \in Seq(Line) /\ d \in Int
      /\ Len(f) \in Nat /\ Len(new) \in Nat /\ Len(g) \in Nat /\ a \in Nat /\ b \in Nat
      /\ DOMAIN f = 1..Len(f) /\ DOMAIN g = 1..Len(g)
      /\ \A i \in 1..Len(f) : i < a => i \in 1..Len(g) /\ g[i] = f[i]
      /\ \A i \in 1..Len(g) :
           \/ i < a /\ i \in 1..Len(f) /\ g[i] = f[i]
           \/ i >= a /\ i < a + Len(new) /\ i - a + 1 \in 1..Len(new) /\ g[i] = new[i - a + 1]
           \/ i >= a + Len(new) /\ i - d \in 1..Len(f) /\ i - d > b /\ g[i] = f[i - d]
  <2>1. Shifted(f, a, b, new, g, d)
    BY SplicePlaces
  <2> HIDE DEF d
  <2> QED BY <2>1 DEF Shifted
<1>2. b >= a - 1 /\ a <= Len(f) + 1 /\ k < a /\ f \in Seq(Line)
  BY DEF Spliced
<1> HIDE DEF d
<1>3. /\ \A i \in 1..Len(f) : i \in KeyLines(f) <=> f[i].kind \in KeyKind
      /\ \A i \in 1..Len(g) : i \in KeyLines(g) <=> g[i].kind \in KeyKind
      /\ KeyLines(g) \subseteq 1..Len(g)
  BY <1>1 DEF KeyLines
<1>4. k \in 1..Len(f) /\ k \in 1..Len(g)
  BY <1>1, <1>2
<1>5. k \in KeyLines(g)
  BY <1>1, <1>2, <1>3, <1>4
<1>6. ASSUME NEW i \in KeyLines(g) PROVE i = k
  <2>1. i \in 1..Len(g) /\ g[i].kind \in KeyKind
    BY <1>3
  <2>2. CASE i \in 1..Len(f) /\ g[i] = f[i]
    BY <1>3, <2>1, <2>2
  <2>3. CASE i - d \in 1..Len(f) /\ i - d > b /\ g[i] = f[i - d]
    <3>1. i - d = k
      BY <1>3, <2>1, <2>3
    <3> QED BY <1>1, <1>2, <2>3, <3>1
  <2> QED BY <1>1, <2>1, <2>2, <2>3
<1>7. KeyLines(g) = {k}
  BY <1>5, <1>6
<1>8. Min({k}) = k
  BY <1>1, <1>2 DEF Min
<1>9. SubSeq(f, 1, k - 1) = SubSeq(g, 1, k - 1)
  <2>1. /\ SubSeq(f, 1, k - 1) \in Seq(Line) /\ Len(SubSeq(f, 1, k - 1)) = k - 1
        /\ \A i \in 1..(k - 1) : SubSeq(f, 1, k - 1)[i] = f[i]
    BY <1>1, <1>2, <1>4, SubSeqProperties
  <2>2. /\ SubSeq(g, 1, k - 1) \in Seq(Line) /\ Len(SubSeq(g, 1, k - 1)) = k - 1
        /\ \A i \in 1..(k - 1) : SubSeq(g, 1, k - 1)[i] = g[i]
    BY <1>1, <1>2, <1>4, SubSeqProperties
  <2>3. \A i \in 1..(k - 1) : g[i] = f[i]
    BY <1>1, <1>2, <1>4
  <2> QED BY <2>1, <2>2, <2>3, SeqEqual
<1>10. HeaderBlock(f) = SubSeq(f, 1, k - 1) \o <<BlankLine>>
  BY <1>8 DEF HeaderBlock
<1>11. HeaderBlock(g) = SubSeq(g, 1, k - 1) \o <<BlankLine>>
  BY <1>7, <1>8 DEF HeaderBlock
<1> QED BY <1>7, <1>9, <1>10, <1>11

\* What YAML asks of a file without a flow list.
LEMMA BlockParses ==
  ASSUME NEW g, Cardinality(KeyLines(g)) <= 1,
         \A i \in DOMAIN g : g[i].kind \notin {"row", "row]", "flow", "flow["},
         \A i \in DOMAIN g : g[i].kind = "item+" => i < Len(g) /\ g[i + 1].kind = "cont",
         \A i \in DOMAIN g : g[i].kind = "cont" => i > 1 /\ g[i - 1].kind = "item+",
         \A i \in DOMAIN g : g[i].kind \in ItemKind =>
           \E n \in 1..(i - 1) : g[n].kind = "links" /\ \A m \in n..i : g[m].kind # "header"
  PROVE  Parses(g)
<1>1. \A i \in DOMAIN g : g[i].kind \notin {"flow[", "row"} /\ g[i].kind \notin {"row", "row]"}
  OBVIOUS
<1> QED BY <1>1 DEF Parses, KeyLines

\* A block list still parses with an item more below its key, but not inside another item.
LEMMA ParsesGrown ==
  ASSUME NEW f, NEW a, NEW x, NEW g, Spliced(f, a, a - 1, <<x>>, g), Parses(f), ~FlowLinks(f),
         x.kind = "item", NEW k \in 1..(a - 1), f[k].kind = "links",
         \A m \in k..(a - 1) : f[m].kind # "header", f[a - 1].kind # "item+"
  PROVE  Parses(g)
<1>1. /\ f \in Seq(Line) /\ g \in Seq(Line) /\ Len(g) = Len(f) + 1
      /\ Len(f) \in Nat /\ a \in Nat /\ a <= Len(f) + 1 /\ k \in Nat /\ k < a
      /\ DOMAIN f = 1..Len(f) /\ DOMAIN g = 1..(Len(f) + 1)
  <2>1. Shift(a, a - 1, <<x>>) = 1 /\ f \in Seq(Line) /\ a \in Nat /\ a <= Len(f) + 1
    BY DEF Spliced, Shift
  <2>3. Shifted(f, a, a - 1, <<x>>, g, 1)
    BY <2>1, SplicePlaces
  <2>2. /\ g \in Seq(Line) /\ Len(g) = Len(f) + 1
        /\ Len(f) \in Nat /\ DOMAIN f = 1..Len(f) /\ DOMAIN g = 1..Len(g)
    BY <2>3 DEF Shifted
  <2> QED BY <2>1, <2>2
<1>2. /\ \A i \in 1..Len(f) : /\ i < a => g[i] = f[i]
                              /\ i >= a => g[i + 1] = f[i]
      /\ g[a] = x
  <2> DEFINE e == <<x>>
  <2>1. Shift(a, a - 1, e) = 1 /\ Len(e) = 1 /\ e[1] = x
    BY <1>1 DEF Shift
  <2>7. Shifted(f, a, a - 1, e, g, Shift(a, a - 1, e))
    BY SplicePlaces
  <2> HIDE DEF e
  <2>2. /\ \A i \in 1..Len(f) : /\ i < a => i \in 1..Len(g) /\ g[i] = f[i]
                                /\ i > a - 1 => /\ i + 1 \in 1..Len(g) /\ i + 1 >= a + Len(e)
                                                /\ g[i + 1] = f[i]
        /\ \A j \in 1..Len(e) : a + j - 1 \in 1..Len(g) /\ g[a + j - 1] = e[j]
    BY <2>1, <2>7 DEF Shifted
  <2>3. a + 1 - 1 = a /\ 1 \in 1..1
    BY <1>1
  <2>4. g[a + 1 - 1] = e[1]
    BY <2>1, <2>2, <2>3
  <2>5. g[a] = x
    BY <2>1, <2>3, <2>4
  <2>6. \A i \in 1..Len(f) : i >= a => i > a - 1
    BY <1>1
  <2> QED BY <2>2, <2>5, <2>6
<1>3. \A i \in 1..(Len(f) + 1) :
        \/ i < a /\ i \in 1..Len(f) /\ g[i] = f[i]
        \/ i = a /\ g[i] = x
        \/ i > a /\ i - 1 \in 1..Len(f) /\ i - 1 >= a /\ g[i] = f[i - 1]
  <2> SUFFICES ASSUME NEW i \in 1..(Len(f) + 1)
               PROVE  \/ i < a /\ i \in 1..Len(f) /\ g[i] = f[i]
                      \/ i = a /\ g[i] = x
                      \/ i > a /\ i - 1 \in 1..Len(f) /\ i - 1 >= a /\ g[i] = f[i - 1]
    OBVIOUS
  <2>1. CASE i < a
    BY <1>1, <1>2, <2>1
  <2>2. CASE i = a
    BY <1>2, <2>2
  <2>3. CASE i > a
    <3>1. i - 1 \in 1..Len(f) /\ i - 1 >= a /\ (i - 1) + 1 = i
      BY <1>1, <2>3
    <3>2. g[(i - 1) + 1] = f[i - 1]
      BY <1>2, <3>1
    <3> QED BY <2>3, <3>1, <3>2
  <2> QED BY <1>1, <2>1, <2>2, <2>3
<1>4. \A i \in 1..Len(f) : f[i].kind \notin {"row", "row]", "flow", "flow["}
  BY <1>1, BlockFile DEF RowKind
<1>5. \A i \in 1..(Len(f) + 1) : g[i].kind \notin {"row", "row]", "flow", "flow["}
  BY <1>3, <1>4
<1>6. k \in KeyLines(f)
  BY <1>1 DEF KeyLines, KeyKind
<1>7. KeyLines(f) = {k}
  BY <1>1, <1>6, OneKey
<1>8. KeyLines(g) = {k} /\ HeaderBlock(g) = HeaderBlock(f)
  <2>1. \A j \in 1..Len(<<x>>) : <<x>>[j].kind \notin KeyKind
    BY DEF KeyKind
  <2> QED BY <1>7, <2>1, SpliceKey
<1>9. Cardinality(KeyLines(g)) <= 1
  BY <1>8, AtMostOne
<1>10. \A i \in 1..Len(f) : f[i].kind = "item+" => i < Len(f) /\ f[i + 1].kind = "cont"
  BY <1>1 DEF Parses
<1>11. \A i \in 1..Len(f) : f[i].kind = "cont" => i > 1 /\ f[i - 1].kind = "item+"
  BY <1>1 DEF Parses
<1>12. \A i \in 1..Len(f) : f[i].kind \in ItemKind =>
         k < i /\ \A m \in k..i : f[m].kind # "header"
  <2> SUFFICES ASSUME NEW i \in 1..Len(f), f[i].kind \in ItemKind
               PROVE  k < i /\ \A m \in k..i : f[m].kind # "header"
    OBVIOUS
  <2>1. PICK n \in 1..(i - 1) : f[n].kind = "links" /\ \A m \in n..i : f[m].kind # "header"
    BY <1>1 DEF Parses
  <2>2. n \in KeyLines(f)
    BY <1>1, <2>1 DEF KeyLines, KeyKind
  <2> QED BY <1>1, <1>7, <2>1, <2>2
<1>13. ASSUME NEW i \in 1..(Len(f) + 1), g[i].kind = "item+"
       PROVE  i < Len(f) + 1 /\ g[i + 1].kind = "cont"
  <2>1. CASE i < a /\ i \in 1..Len(f) /\ g[i] = f[i]
    <3>1. i < Len(f) /\ f[i + 1].kind = "cont" /\ i # a - 1
      BY <1>10, <1>13, <2>1
    <3>2. i + 1 \in 1..Len(f) /\ i + 1 < a
      BY <1>1, <2>1, <3>1
    <3> QED BY <1>1, <1>2, <3>1, <3>2
  <2>2. CASE i > a /\ i - 1 \in 1..Len(f) /\ i - 1 >= a /\ g[i] = f[i - 1]
    <3>1. i - 1 < Len(f) /\ f[(i - 1) + 1].kind = "cont" /\ (i - 1) + 1 = i
      BY <1>10, <1>13, <2>2
    <3>2. i \in 1..Len(f) /\ i >= a
      BY <1>1, <2>2, <3>1
    <3>3. g[i + 1] = f[i]
      BY <1>2, <3>2
    <3> QED BY <1>1, <3>1, <3>2, <3>3
  <2>3. g[i] # x
    BY <1>13
  <2> QED BY <1>3, <2>1, <2>2, <2>3
<1>14. ASSUME NEW i \in 1..(Len(f) + 1), g[i].kind = "cont"
       PROVE  i > 1 /\ g[i - 1].kind = "item+"
  <2>1. CASE i < a /\ i \in 1..Len(f) /\ g[i] = f[i]
    <3>1. i > 1 /\ f[i - 1].kind = "item+"
      BY <1>11, <1>14, <2>1
    <3>2. i - 1 \in 1..Len(f) /\ i - 1 < a
      BY <1>1, <2>1, <3>1
    <3> QED BY <1>2, <3>1, <3>2
  <2>2. CASE i > a /\ i - 1 \in 1..Len(f) /\ i - 1 >= a /\ g[i] = f[i - 1]
    <3>1. i - 1 > 1 /\ f[(i - 1) - 1].kind = "item+"
      BY <1>11, <1>14, <2>2
    <3>2. i - 1 # a
      BY <3>1
    <3>3. (i - 1) - 1 \in 1..Len(f) /\ (i - 1) - 1 >= a /\ ((i - 1) - 1) + 1 = i - 1
      BY <1>1, <2>2, <3>1, <3>2
    <3>4. g[((i - 1) - 1) + 1] = f[(i - 1) - 1]
      BY <1>2, <3>3
    <3> QED BY <1>1, <3>1, <3>3, <3>4
  <2>3. g[i] # x
    BY <1>14
  <2> QED BY <1>3, <2>1, <2>2, <2>3
<1>15. ASSUME NEW i \in 1..(Len(f) + 1), g[i].kind \in ItemKind
       PROVE  \E n \in 1..(i - 1) : g[n].kind = "links" /\ \A m \in n..i : g[m].kind # "header"
  <2>1. k \in 1..Len(f) /\ g[k] = f[k]
    BY <1>1, <1>2
  <2>2. k < i
    <3>1. CASE i < a /\ i \in 1..Len(f) /\ g[i] = f[i]
      BY <1>12, <1>15, <3>1
    <3> QED BY <1>1, <1>3, <3>1
  <2>3. ASSUME NEW m \in k..i PROVE g[m].kind # "header"
    <3>0. m \in 1..(Len(f) + 1) /\ m \in Nat
      BY <1>1, <2>1
    <3>1. CASE m < a /\ m \in 1..Len(f) /\ g[m] = f[m]
      <4>1. m \in k..(a - 1)
        BY <1>1, <3>1
      <4> QED BY <3>1, <4>1
    <3>2. CASE m > a /\ m - 1 \in 1..Len(f) /\ m - 1 >= a /\ g[m] = f[m - 1]
      <4>1. i > a /\ i - 1 \in 1..Len(f) /\ g[i] = f[i - 1]
        BY <1>1, <1>3, <3>0, <3>2
      <4>2. m - 1 \in k..(i - 1)
        BY <1>1, <3>0, <3>2
      <4> QED BY <1>12, <1>15, <3>2, <4>1, <4>2
    <3> QED BY <1>3, <3>0, <3>1, <3>2
  <2>4. k \in 1..(i - 1)
    BY <1>1, <2>2
  <2> QED BY <2>1, <2>3, <2>4
<1> QED BY <1>1, <1>5, <1>9, <1>13, <1>14, <1>15, BlockParses

\* Where the lines stand after w of them, a..b, are gone.
Closed(f, a, b, g, w) ==
  /\ f \in Seq(Line) /\ g \in Seq(Line) /\ Len(g) = Len(f) - w
  /\ Len(f) \in Nat /\ Len(g) \in Nat /\ w \in Nat /\ a \in Nat /\ b \in Nat
  /\ 1 <= a /\ b = a + w - 1 /\ b <= Len(f)
  /\ DOMAIN f = 1..Len(f) /\ DOMAIN g = 1..Len(g)
  /\ \A i \in 1..Len(g) : /\ i < a => i \in 1..Len(f) /\ g[i] = f[i]
                          /\ i >= a => i + w \in 1..Len(f) /\ i + w > b /\ g[i] = f[i + w]

\* What a removal leaves, line by line.
LEMMA RemovalPlaces ==
  ASSUME NEW f, NEW a, NEW b, NEW g, Spliced(f, a, b, <<>>, g)
  PROVE  Closed(f, a, b, g, Width(a, b))
<1> DEFINE w == Width(a, b)
<1> DEFINE e == <<>>
           d == Shift(a, b, e)
<1>1. Len(e) = 0 /\ Spliced(f, a, b, e, g)
  OBVIOUS
<1>11. Shifted(f, a, b, e, g, d)
  BY <1>1, SplicePlaces
<1> HIDE DEF e
<1>2. a \in 1..(Len(f) + 1) /\ b \in (a - 1)..Len(f) /\ f \in Seq(Line)
  BY <1>1 DEF Spliced
<1>3. d = 0 - w /\ w \in Nat /\ a \in Nat /\ b \in Nat /\ 1 <= a /\ b = a + w - 1 /\ b <= Len(f)
  BY <1>1, <1>2 DEF Shift, Width
<1> HIDE DEF d, w
<1>4. /\ g \in Seq(Line) /\ Len(g) = Len(f) + d
      /\ Len(f) \in Nat /\ Len(g) \in Nat /\ DOMAIN f = 1..Len(f) /\ DOMAIN g = 1..Len(g)
      /\ \A i \in 1..Len(g) :
           \/ i < a /\ i \in 1..Len(f) /\ g[i] = f[i]
           \/ i >= a /\ i < a + Len(e) /\ i - a + 1 \in 1..Len(e) /\ g[i] = e[i - a + 1]
           \/ i >= a + Len(e) /\ i - d \in 1..Len(f) /\ i - d > b /\ g[i] = f[i - d]
  BY <1>11 DEF Shifted
<1>5. ASSUME NEW i \in 1..Len(g)
      PROVE  /\ i < a => i \in 1..Len(f) /\ g[i] = f[i]
             /\ i >= a => i + w \in 1..Len(f) /\ i + w > b /\ g[i] = f[i + w]
  <2>1. i - d = i + w
    BY <1>3
  <2>2. CASE i < a
    <3>1. ~(i >= a) /\ ~(i >= a + Len(e))
      BY <1>1, <1>3, <2>2
    <3> QED BY <1>4, <2>2, <3>1
  <2>3. CASE i >= a
    <3>1. ~(i < a) /\ ~(i < a + Len(e))
      BY <1>1, <1>3, <2>3
    <3> QED BY <1>4, <2>1, <3>1
  <2> QED BY <1>3, <2>2, <2>3
<1>6. Len(g) = Len(f) - w
  BY <1>3, <1>4
<1>7. Closed(f, a, b, g, w)
  BY <1>2, <1>3, <1>4, <1>5, <1>6 DEF Closed
<1> QED BY <1>7 DEF w

\* A block list still parses when an item goes with the line that continues it.
LEMMA ParsesShrunk ==
  ASSUME NEW f, NEW a, NEW b, NEW g, Spliced(f, a, b, <<>>, g), Parses(f), ~FlowLinks(f),
         a \in DOMAIN f, f[a].kind \in ItemKind, b = LineEnd(f, a)
  PROVE  Parses(g)
<1> DEFINE w == Width(a, b)
<1>1. /\ f \in Seq(Line) /\ g \in Seq(Line) /\ Len(g) = Len(f) - w
      /\ Len(f) \in Nat /\ Len(g) \in Nat /\ w \in Nat /\ a \in Nat /\ b \in Nat
      /\ 1 <= a /\ b = a + w - 1 /\ b <= Len(f)
      /\ DOMAIN f = 1..Len(f) /\ DOMAIN g = 1..Len(g)
      /\ \A i \in 1..Len(g) : /\ i < a => i \in 1..Len(f) /\ g[i] = f[i]
                              /\ i >= a => i + w \in 1..Len(f) /\ i + w > b /\ g[i] = f[i + w]
  <2>1. Closed(f, a, b, g, w)
    BY RemovalPlaces
  <2> HIDE DEF w
  <2> QED BY <2>1 DEF Closed
<1> HIDE DEF w
<1>2. \A i \in 1..Len(f) : f[i].kind \notin {"row", "row]", "flow", "flow["}
  <2>1. f \in Seq(Line) /\ DOMAIN f = 1..Len(f)
    BY <1>1
  <2>2. \A i \in DOMAIN f : f[i].kind \notin RowKind \cup {"flow", "flow["}
    BY <2>1, BlockFile
  <2> QED BY <2>1, <2>2 DEF RowKind
<1>3. \A i \in 1..Len(g) : g[i].kind \notin {"row", "row]", "flow", "flow["}
  <2>1. \A i \in 1..Len(g) : i < a \/ i >= a
    BY <1>1
  <2>2. \A i \in 1..Len(g) : \E j \in 1..Len(f) : g[i] = f[j]
    BY <1>1, <2>1
  <2> QED BY <1>2, <2>2
<1>4. \A i \in 1..Len(f) : f[i].kind = "item+" => i < Len(f) /\ f[i + 1].kind = "cont"
  BY <1>1 DEF Parses
<1>5. \A i \in 1..Len(f) : f[i].kind = "cont" => i > 1 /\ f[i - 1].kind = "item+"
  BY <1>1 DEF Parses
<1>6. PICK k \in 1..(a - 1) : f[k].kind = "links"
  BY <1>1 DEF Parses
<1>7. k \in 1..Len(f) /\ k < a /\ k \in Nat
  BY <1>1
<1>8. KeyLines(f) = {k}
  <2>1. k \in KeyLines(f)
    BY <1>1, <1>6, <1>7 DEF KeyLines, KeyKind
  <2> QED BY <1>1, <2>1, OneKey
<1>9. \A i \in 1..Len(f) : f[i].kind \in ItemKind =>
        k < i /\ \A m \in k..i : f[m].kind # "header"
  <2> SUFFICES ASSUME NEW i \in 1..Len(f), f[i].kind \in ItemKind
               PROVE  k < i /\ \A m \in k..i : f[m].kind # "header"
    OBVIOUS
  <2>1. PICK n \in 1..(i - 1) : f[n].kind = "links" /\ \A m \in n..i : f[m].kind # "header"
    BY <1>1 DEF Parses
  <2>2. n \in KeyLines(f)
    BY <1>1, <2>1 DEF KeyLines, KeyKind
  <2> QED BY <1>1, <1>8, <2>1, <2>2
<1>10. KeyLines(g) = {k}
  <2>1. \A j \in 1..Len(<<>>) : <<>>[j].kind \notin KeyKind
    OBVIOUS
  <2> QED BY <1>8, <2>1, SpliceKey
<1>11. Cardinality(KeyLines(g)) <= 1
  BY <1>10, AtMostOne
<1>12. f[b].kind # "item+"
  <2>1. CASE f[a].kind = "item+"
    <3>1. b = a + 1 /\ f[a + 1].kind = "cont"
      BY <1>1, <1>4, <2>1 DEF LineEnd
    <3> QED BY <3>1
  <2>2. CASE f[a].kind # "item+"
    BY <2>2 DEF LineEnd
  <2> QED BY <2>1, <2>2
<1>13. ASSUME NEW i \in 1..Len(g), g[i].kind = "item+"
       PROVE  i < Len(g) /\ g[i + 1].kind = "cont"
  <2>1. CASE i < a
    <3>1. i \in 1..Len(f) /\ g[i] = f[i]
      BY <1>1, <2>1
    <3>2. i < Len(f) /\ f[i + 1].kind = "cont"
      BY <1>4, <1>13, <3>1
    <3>3. i + 1 # a
      BY <3>2 DEF ItemKind
    <3>4. i + 1 < a
      BY <1>1, <2>1, <3>3
    <3>5. k \in 1..Len(g) /\ a - 1 <= Len(g)
      BY <1>1, <1>7
    <3>6. i + 1 \in 1..Len(g)
      BY <1>1, <3>4, <3>5
    <3>7. g[i + 1] = f[i + 1]
      BY <1>1, <3>4, <3>6
    <3> QED BY <1>1, <3>2, <3>6, <3>7
  <2>2. CASE i >= a
    <3>1. i + w \in 1..Len(f) /\ g[i] = f[i + w]
      BY <1>1, <2>2
    <3>2. i + w < Len(f) /\ f[(i + w) + 1].kind = "cont"
      BY <1>4, <1>13, <3>1
    <3>3. i + 1 \in 1..Len(g) /\ i + 1 >= a /\ (i + 1) + w = (i + w) + 1
      BY <1>1, <2>2, <3>2
    <3>4. g[i + 1] = f[(i + 1) + w]
      BY <1>1, <3>3
    <3> QED BY <1>1, <3>2, <3>3, <3>4
  <2> QED BY <1>1, <2>1, <2>2
<1>14. ASSUME NEW i \in 1..Len(g), g[i].kind = "cont"
       PROVE  i > 1 /\ g[i - 1].kind = "item+"
  <2>1. CASE i < a
    <3>1. i \in 1..Len(f) /\ g[i] = f[i]
      BY <1>1, <2>1
    <3>2. i > 1 /\ f[i - 1].kind = "item+"
      BY <1>5, <1>14, <3>1
    <3>3. i - 1 \in 1..Len(g) /\ i - 1 < a
      BY <1>1, <2>1, <3>2
    <3>4. g[i - 1] = f[i - 1]
      BY <1>1, <3>3
    <3> QED BY <3>2, <3>4
  <2>2. CASE i >= a
    <3>1. i + w \in 1..Len(f) /\ i + w > b /\ g[i] = f[i + w]
      BY <1>1, <2>2
    <3>2. f[(i + w) - 1].kind = "item+"
      BY <1>5, <1>14, <3>1
    <3>3. (i + w) - 1 # b
      BY <1>12, <3>2
    <3>4. i # a
      BY <1>1, <3>3
    <3>5. i - 1 \in 1..Len(g) /\ i - 1 >= a /\ (i - 1) + w = (i + w) - 1 /\ i > 1
      BY <1>1, <2>2, <3>4
    <3>6. g[i - 1] = f[(i - 1) + w]
      BY <1>1, <3>5
    <3> QED BY <3>2, <3>5, <3>6
  <2> QED BY <1>1, <2>1, <2>2
<1>15. ASSUME NEW i \in 1..Len(g), g[i].kind \in ItemKind
       PROVE  \E n \in 1..(i - 1) : g[n].kind = "links" /\ \A m \in n..i : g[m].kind # "header"
  <2>1. k < i
    <3>1. CASE i < a
      <4>1. i \in 1..Len(f) /\ g[i] = f[i]
        BY <1>1, <3>1
      <4> QED BY <1>9, <1>15, <4>1
    <3> QED BY <1>1, <1>7, <3>1
  <2>2. k \in 1..(i - 1) /\ k \in 1..Len(g)
    BY <1>7, <2>1
  <2>3. g[k] = f[k]
    BY <1>1, <1>7, <2>2
  <2>4. \A m \in k..a : f[m].kind # "header"
    BY <1>1, <1>9
  <2>5. ASSUME NEW m \in k..i PROVE g[m].kind # "header"
    <3>0. m \in 1..Len(g) /\ m \in Nat
      BY <1>1, <1>7
    <3>1. CASE m < a
      <4>1. g[m] = f[m] /\ m \in k..a
        BY <1>1, <3>0, <3>1
      <4> QED BY <2>4, <4>1
    <3>2. CASE m >= a
      <4>1. g[m] = f[m + w] /\ m + w \in 1..Len(f)
        BY <1>1, <3>0, <3>2
      <4>2. i >= a
        BY <1>1, <3>0, <3>2
      <4>3. i + w \in 1..Len(f) /\ g[i] = f[i + w]
        BY <1>1, <4>2
      <4>4. m + w \in k..(i + w)
        BY <1>1, <1>7, <3>0
      <4> QED BY <1>9, <1>15, <4>1, <4>3, <4>4
    <3> QED BY <1>1, <3>0, <3>1, <3>2
  <2> QED BY <1>6, <2>2, <2>3, <2>5
<1> QED BY <1>1, <1>3, <1>11, <1>13, <1>14, <1>15, BlockParses

\* A splice that removes no header leaves one.
LEMMA SpliceHeader ==
  ASSUME NEW f, NEW a, NEW b, NEW new, NEW g, Spliced(f, a, b, new, g), HasHeader(f),
         \A i \in a..b : f[i].kind # "header"
  PROVE  HasHeader(g)
<1> DEFINE d == Shift(a, b, new)
<1>1. /\ a \in Nat /\ b \in Nat /\ Len(f) \in Nat
      /\ DOMAIN f = 1..Len(f) /\ DOMAIN g = 1..Len(g)
      /\ \A i \in 1..Len(f) : /\ i < a => i \in 1..Len(g) /\ g[i] = f[i]
                              /\ i > b => i + d \in 1..Len(g) /\ g[i + d] = f[i]
  <2>1. Shifted(f, a, b, new, g, d)
    BY SplicePlaces
  <2> HIDE DEF d
  <2> QED BY <2>1 DEF Shifted
<1>2. PICK i \in 1..Len(f) : f[i].kind = "header"
  BY <1>1 DEF HasHeader
<1>3. i < a \/ i > b
  BY <1>1, <1>2
<1> HIDE DEF d
<1> QED BY <1>1, <1>2, <1>3 DEF HasHeader

---------------------------------------------------------------------------
(* A link more: Inserted. *)

\* The lines with links can be listed.
LEMMA LinksLie ==
  ASSUME NEW f, Tidy(f)
  PROVE  \E n \in Nat : \E at \in [1..n -> LinkLines(f)] : Lists(at, LinkLines(f), n)
<1>1. LinkLines(f) \in SUBSET Nat /\ IsFiniteSet(LinkLines(f))
  BY TidyLine
<1>2. /\ Cardinality(LinkLines(f)) \in Nat
      /\ Lists(InOrder(LinkLines(f)), LinkLines(f), Cardinality(LinkLines(f)))
  BY <1>1, InOrderLists
<1> QED BY <1>2 DEF Lists

\* The list that a tidy file holds, and where locate finds each link.
LEMMA LinksAre ==
  ASSUME NEW f, Tidy(f), NEW n \in Nat, NEW at, Lists(at, LinkLines(f), n)
  PROVE  /\ LinksOf(f) \in Seq(Store!Link) /\ Len(LinksOf(f)) = n /\ DOMAIN LinksOf(f) = 1..n
         /\ Spans(f) \in Seq([link : Store!Link, start : Nat, end : Nat])
         /\ Len(Spans(f)) = n /\ DOMAIN Spans(f) = 1..n
         /\ \A k \in 1..n : /\ at[k] \in LinkLines(f)
                            /\ LinksOf(f)[k] = f[at[k]].items[1]
                            /\ Spans(f)[k].link = LinksOf(f)[k]
                            /\ Spans(f)[k].start = at[k]
                            /\ Spans(f)[k].end = LineEnd(f, at[k])
         /\ \A from, rel, to : Hits(f, from, rel, to) = Store!Holding(LinksOf(f), from, rel, to)
<1>1. /\ LinksOf(f) = [k \in 1..n |-> f[at[k]].items[1]]
      /\ Spans(f) = [k \in 1..n |-> [link |-> f[at[k]].items[1],
                                     start |-> at[k], end |-> LineEnd(f, at[k])]]
  BY ReadsAs
<1>2. /\ LinkLines(f) \in SUBSET (1..Len(f)) /\ Len(f) \in Nat /\ DOMAIN f = 1..Len(f)
      /\ \A i \in 1..Len(f) : f[i].items # <<>> =>
           f[i].items[1] \in Item /\ f[i].items = <<f[i].items[1]>>
  BY TidyLine
<1>3. ASSUME NEW k \in 1..n
      PROVE  /\ at[k] \in LinkLines(f) /\ at[k] \in Nat /\ LineEnd(f, at[k]) \in Nat
             /\ f[at[k]].items[1] \in Store!Link
  <2>1. at[k] \in LinkLines(f) /\ at[k] \in 1..Len(f)
    BY <1>2 DEF Lists
  <2>2. f[at[k]].items # <<>> /\ f[at[k]].items # <<Malformed>>
    BY <2>1 DEF LinkLines
  <2>3. f[at[k]].items[1] \in Item /\ f[at[k]].items[1] # Malformed
    BY <1>2, <2>1, <2>2
  <2> QED BY <2>1, <2>3, <1>2 DEF Item, LineEnd
<1>4. LinksOf(f) \in Seq(Store!Link) /\ Len(LinksOf(f)) = n /\ DOMAIN LinksOf(f) = 1..n
  BY <1>1, <1>3
<1>5. /\ Spans(f) \in Seq([link : Store!Link, start : Nat, end : Nat])
      /\ Len(Spans(f)) = n /\ DOMAIN Spans(f) = 1..n
  BY <1>1, <1>3
<1>6. \A k \in 1..n : /\ LinksOf(f)[k] = f[at[k]].items[1]
                      /\ Spans(f)[k].link = LinksOf(f)[k]
                      /\ Spans(f)[k].start = at[k]
                      /\ Spans(f)[k].end = LineEnd(f, at[k])
  BY <1>1
<1>7. ASSUME NEW from, NEW rel, NEW to
      PROVE  Hits(f, from, rel, to) = Store!Holding(LinksOf(f), from, rel, to)
  <2>1. \A k \in 1..n : Spans(f)[k].link = LinksOf(f)[k]
    BY <1>6
  <2> QED BY <1>4, <1>5, <2>1 DEF Hits, Store!Holding, SameLink, Store!SameLink
<1> QED BY <1>3, <1>4, <1>5, <1>6, <1>7

\* g is f with the link l more, the last of n + 1, which begins on line p.
GrownAt(f, g, l, n, p) ==
  /\ Tidy(g) /\ LinksOf(g) = Append(LinksOf(f), l)
  /\ Spans(g)[n + 1].start = p /\ Spans(g)[n + 1].end = LineEnd(g, p)

\* A splice that brings one link, of one line of its own, below all others.
LEMMA GrownByOne ==
  ASSUME NEW f, NEW a, NEW b, NEW new, NEW g, Spliced(f, a, b, new, g), Tidy(f),
         NEW l \in Store!Link, NEW j \in 1..Len(new), new[j] = ItemLine(l),
         \A x \in 1..Len(new) : x # j => new[x].items = <<>>,
         \A i \in LinkLines(f) : i < a,
         \A i \in ItemLines(f) : i \notin LinkLines(f) => i >= a,
         NEW n \in Nat, NEW at, Lists(at, LinkLines(f), n)
  PROVE  GrownAt(f, g, l, n, a + j - 1)
<1> DEFINE to == ListedThen(at, n, a + j - 1)
<1>0. l # Malformed /\ new[j].items = <<l>> /\ new[j].kind = "item"
  BY MalformedAssumption DEF ItemLine
<1>1. Tidy(g)
  <2>1. ASSUME NEW x \in 1..Len(new), new[x].items # <<>>
        PROVE  /\ Len(new[x].items) = 1 /\ new[x].kind \in ItemKind \cup RowKind
               /\ new[x].items # <<Malformed>>
               /\ \A i \in 1..Len(f) : f[i].items = <<Malformed>> => i >= a
    <3>1. x = j
      BY <2>1
    <3>2. new[x].items = <<l>> /\ new[x].kind \in ItemKind
      BY <1>0, <3>1 DEF ItemKind
    <3>3. \A i \in 1..Len(f) : f[i].items = <<Malformed>> =>
            i \in ItemLines(f) /\ i \notin LinkLines(f)
      <4>1. <<Malformed>> # <<>> /\ DOMAIN f = 1..Len(f)
        BY TidyLine
      <4> QED BY <4>1 DEF ItemLines, LinkLines
    <3>4. \A i \in 1..Len(f) : f[i].items = <<Malformed>> => i >= a
      BY <3>3
    <3>5. <<l>> # <<Malformed>> /\ Len(<<l>>) = 1
      BY <1>0
    <3> QED BY <3>2, <3>4, <3>5
  <2> QED BY <2>1, SpliceTidy
<1>2. Lists(to, LinkLines(g), n + 1) /\ \A k \in 1..n : g[at[k]] = f[at[k]]
  <2>1. new[j].items # <<>> /\ new[j].items # <<Malformed>>
    BY <1>0
  <2> HIDE DEF to
  <2> QED BY <1>1, <2>1, SpliceAppends DEF to
<1>3. /\ to[n + 1] = a + j - 1 /\ \A k \in 1..n : to[k] = at[k]
  <2>1. n + 1 \in 1..(n + 1) /\ ~(n + 1 <= n)
    OBVIOUS
  <2> QED BY <2>1 DEF ListedThen
<1> HIDE DEF to
<1>4. /\ Len(LinksOf(f)) = n /\ LinksOf(f) \in Seq(Store!Link)
      /\ \A k \in 1..n : LinksOf(f)[k] = f[at[k]].items[1]
  BY LinksAre
<1>5. /\ Len(LinksOf(g)) = n + 1 /\ LinksOf(g) \in Seq(Store!Link)
      /\ \A k \in 1..(n + 1) : /\ LinksOf(g)[k] = g[to[k]].items[1]
                               /\ Spans(g)[k].start = to[k]
                               /\ Spans(g)[k].end = LineEnd(g, to[k])
  <2>1. n + 1 \in Nat
    OBVIOUS
  <2> QED BY <1>1, <1>2, <2>1, LinksAre
<1>6. g[a + j - 1] = new[j]
  BY SplicePlaces DEF Shifted
<1>7. LinksOf(g)[n + 1] = l
  <2>1. n + 1 \in 1..(n + 1)
    OBVIOUS
  <2> QED BY <1>0, <1>3, <1>5, <1>6, <2>1
<1>8. \A k \in 1..n : LinksOf(g)[k] = LinksOf(f)[k]
  BY <1>2, <1>3, <1>4, <1>5
<1>9. LinksOf(g) = Append(LinksOf(f), l)
  <2> DEFINE s == LinksOf(f)
             t == LinksOf(g)
  <2>1. /\ s \in Seq(Store!Link) /\ Len(s) = n /\ t \in Seq(Store!Link) /\ Len(t) = n + 1
        /\ \A k \in 1..n : t[k] = s[k]
        /\ t[n + 1] = l
    BY <1>4, <1>5, <1>7, <1>8
  <2> HIDE DEF s, t
  <2>2. Append(s, l) \in Seq(Store!Link) /\ Len(Append(s, l)) = n + 1
    BY <2>1
  <2>3. \A k \in 1..(n + 1) : t[k] = Append(s, l)[k]
    BY <2>1
  <2>4. t = Append(s, l)
    BY <2>1, <2>2, <2>3, SeqEqual
  <2> QED BY <2>4 DEF s, t
<1>10. n + 1 \in 1..(n + 1)
  OBVIOUS
<1> QED BY <1>1, <1>3, <1>5, <1>9, <1>10 DEF GrownAt

\* Where a link goes in a block list: on a line of its own below the links that are there
\* and above the items that cannot be read.
LEMMA InsertedBelow ==
  ASSUME NEW f, Tidy(f), Parses(f), ~FlowLinks(f), KeyLines(f) # {}, NEW l,
         NEW n \in Nat, NEW at, Lists(at, LinkLines(f), n)
  PROVE  \E a \in 1..(Len(f) + 1), k \in 1..Len(f) :
           /\ k < a /\ f[k].kind = "links" /\ f[a - 1].kind # "item+"
           /\ \A m \in k..(a - 1) : f[m].kind # "header"
           /\ \A i \in LinkLines(f) : i < a
           /\ \A i \in ItemLines(f) : i \notin LinkLines(f) => i >= a
           /\ Inserted(f, l) = Splice(f, a, a - 1, <<ItemLine(l)>>)
<1>1. /\ f \in Seq(Line) /\ Len(f) \in Nat /\ DOMAIN f = 1..Len(f)
      /\ LinkLines(f) \subseteq ItemLines(f) /\ ItemLines(f) \subseteq 1..Len(f)
      /\ \A i \in 1..Len(f) : f[i].items # <<>> => f[i].kind \in ItemKind \cup RowKind
  BY TidyLine DEF ItemLines
<1>2. PICK k \in KeyLines(f) : TRUE
  OBVIOUS
<1>3. k \in 1..Len(f) /\ KeyLines(f) = {k} /\ f[k].kind = "links"
  <2>1. k \in 1..Len(f) /\ f[k].kind \in KeyKind
    BY <1>1, <1>2 DEF KeyLines
  <2>2. f[k].kind \notin {"flow", "flow["}
    BY <1>2 DEF FlowLinks
  <2> QED BY <1>1, <1>2, <2>1, <2>2, OneKey DEF KeyKind
<1>4. \A i \in ItemLines(f) : k < i /\ \A m \in k..i : f[m].kind # "header"
  <2> SUFFICES ASSUME NEW i \in ItemLines(f)
               PROVE  k < i /\ \A m \in k..i : f[m].kind # "header"
    OBVIOUS
  <2>1. f[i].kind \in ItemKind
    <3>1. i \in DOMAIN f /\ f[i].kind \in ItemKind \cup RowKind
      BY <1>1 DEF ItemLines
    <3> QED BY <1>1, <3>1, BlockFile
  <2>2. PICK j \in 1..(i - 1) : KeyLines(f) = {j} /\ \A m \in j..i : f[m].kind # "header"
    BY <2>1, ItemsBelowKey
  <2> QED BY <1>1, <1>3, <2>2
<1>5. /\ Len(Spans(f)) = n /\ DOMAIN Spans(f) = 1..n
      /\ Spans(f) \in Seq([link : Store!Link, start : Nat, end : Nat])
      /\ \A x \in 1..n : at[x] \in LinkLines(f) /\ Spans(f)[x].end = LineEnd(f, at[x])
      /\ \A x, y \in 1..n : x < y => at[x] < at[y]
      /\ \A i \in LinkLines(f) : \E x \in 1..n : at[x] = i
  <2>1. \A x \in 1..n : at[x] \in LinkLines(f) /\ Spans(f)[x].end = LineEnd(f, at[x])
    BY LinksAre
  <2>2. /\ Len(Spans(f)) = n /\ DOMAIN Spans(f) = 1..n
        /\ Spans(f) \in Seq([link : Store!Link, start : Nat, end : Nat])
    BY LinksAre
  <2>3. /\ \A x, y \in 1..n : x < y => at[x] < at[y]
        /\ \A i \in LinkLines(f) : \E x \in 1..n : at[x] = i
    BY DEF Lists
  <2> QED BY <2>1, <2>2, <2>3
<1>6. CASE n = 0
  <2>1. Spans(f) = <<>> /\ LinkLines(f) = {}
    BY <1>5, <1>6
  <2>2. Inserted(f, l) = Splice(f, k + 1, k, <<ItemLine(l)>>)
    <3>1. (CHOOSE i \in KeyLines(f) : TRUE) = k
      BY <1>3
    <3> QED BY <2>1, <3>1 DEF Inserted
  <2>3. /\ k + 1 \in 1..(Len(f) + 1) /\ (k + 1) - 1 = k /\ k < k + 1
        /\ \A m \in k..k : m = k
        /\ \A i \in ItemLines(f) : i >= k + 1
    BY <1>1, <1>3, <1>4
  <2>4. \A m \in k..((k + 1) - 1) : f[m].kind # "header"
    BY <1>3, <2>3
  <2> QED BY <1>3, <2>1, <2>2, <2>3, <2>4
<1>7. CASE n # 0
  <2> DEFINE e == LineEnd(f, at[n])
  <2>1. n \in 1..n /\ at[n] \in LinkLines(f) /\ at[n] \in ItemLines(f) /\ at[n] \in 1..Len(f)
    BY <1>1, <1>5, <1>7
  <2>2. e \in at[n]..Len(f) /\ f[e].kind # "item+" /\ f[e].kind # "header"
    <3>1. f[at[n]].kind = "item+" => at[n] < Len(f) /\ f[at[n] + 1].kind = "cont"
      BY <1>1, <2>1 DEF Parses
    <3>2. f[at[n]].kind # "header"
      <4>1. at[n] \in k..at[n]
        BY <1>1, <1>3, <1>4, <2>1
      <4> QED BY <1>4, <2>1, <4>1
    <3> QED BY <1>1, <2>1, <3>1, <3>2 DEF LineEnd
  <2>3. \A m \in at[n]..e : m = at[n] \/ (m = e /\ f[m].kind = "cont")
    <3>1. f[at[n]].kind = "item+" => f[at[n] + 1].kind = "cont"
      BY <1>1, <2>1 DEF Parses
    <3> QED BY <1>1, <2>1, <3>1 DEF LineEnd
  <2>4. Spans(f) # <<>> /\ Last(Spans(f)).end = e
    BY <1>5, <2>1 DEF Last
  <2>5. Inserted(f, l) = Splice(f, e + 1, e, <<ItemLine(l)>>)
    BY <2>4 DEF Inserted
  <2> HIDE DEF e
  <2>6. /\ e + 1 \in 1..(Len(f) + 1) /\ (e + 1) - 1 = e /\ k < e + 1
    BY <1>1, <1>4, <2>1, <2>2, <1>3
  <2>7. \A m \in k..((e + 1) - 1) : f[m].kind # "header"
    <3> SUFFICES ASSUME NEW m \in k..e PROVE f[m].kind # "header"
      BY <2>6
    <3>1. m \in k..at[n] \/ m \in at[n]..e
      BY <1>1, <1>3, <2>1, <2>2
    <3> QED BY <1>4, <2>1, <2>3, <3>1
  <2>8. \A i \in LinkLines(f) : i < e + 1
    <3> SUFFICES ASSUME NEW i \in LinkLines(f) PROVE i < e + 1
      OBVIOUS
    <3>1. PICK x \in 1..n : at[x] = i
      BY <1>5
    <3>2. x = n \/ x < n
      OBVIOUS
    <3>3. i = at[n] \/ i < at[n]
      BY <1>5, <2>1, <3>1, <3>2
    <3> QED BY <1>1, <2>1, <2>2, <3>3
  <2>9. ASSUME NEW i \in ItemLines(f), i \notin LinkLines(f) PROVE i >= e + 1
    <3>1. i \in 1..Len(f) /\ f[i].items # <<>> /\ f[i].items = <<Malformed>>
      BY <1>1, <2>9 DEF ItemLines, LinkLines
    <3>2. f[at[n]].items # <<>> /\ f[at[n]].items # <<Malformed>>
      BY <2>1 DEF LinkLines
    <3>3. ~(i < at[n])
      BY <1>1, <2>1, <3>1, <3>2 DEF Tidy
    <3>4. i # at[n]
      BY <2>1, <2>9
    <3>5. i \notin at[n]..e
      <4>1. f[i].kind # "cont"
        BY <1>1, <3>1 DEF ItemKind, RowKind
      <4> QED BY <2>3, <3>4, <4>1
    <3> QED BY <1>1, <2>1, <2>2, <3>1, <3>3, <3>5
  <2> QED BY <1>3, <2>2, <2>5, <2>6, <2>7, <2>8, <2>9
<1> QED BY <1>6, <1>7

\* A block list with a link more.
LEMMA BlockGrown ==
  ASSUME NEW f, Tidy(f), Parses(f), ~FlowLinks(f), KeyLines(f) # {}, NEW l \in Store!Link
  PROVE  LET g == Inserted(f, l)
         IN  /\ Tidy(g) /\ Parses(g) /\ KeyLines(g) # {} /\ HeaderBlock(g) = HeaderBlock(f)
             /\ Kept(g) = Kept(f) /\ LinksOf(g) = Append(LinksOf(f), l)
             /\ HasHeader(f) => HasHeader(g)
             /\ LET last == Spans(g)[Len(LinksOf(f)) + 1] IN Removed(g, last) = f
<1>1. PICK n \in Nat : \E at \in [1..n -> LinkLines(f)] : Lists(at, LinkLines(f), n)
  BY LinksLie
<1>2. PICK at \in [1..n -> LinkLines(f)] : Lists(at, LinkLines(f), n)
  BY <1>1
<1> DEFINE x == ItemLine(l)
           new == <<x>>
           g == Inserted(f, l)
<1>3. PICK a \in 1..(Len(f) + 1), k \in 1..Len(f) :
           /\ k < a /\ f[k].kind = "links" /\ f[a - 1].kind # "item+"
           /\ \A m \in k..(a - 1) : f[m].kind # "header"
           /\ \A i \in LinkLines(f) : i < a
           /\ \A i \in ItemLines(f) : i \notin LinkLines(f) => i >= a
           /\ g = Splice(f, a, a - 1, new)
  BY <1>2, InsertedBelow
<1>4. /\ f \in Seq(Line) /\ Len(f) \in Nat /\ DOMAIN f = 1..Len(f) /\ a \in Nat /\ k \in Nat
      /\ a \in DOMAIN f => f[a] \in Line
  BY DEF Tidy
<1>5. /\ x \in Line /\ new \in Seq(Line) /\ Len(new) = 1 /\ new[1] = x /\ x.kind = "item"
      /\ x.items = <<l>> /\ x.kind \notin KeyKind
  <2>1. <<l>> \in Seq(Store!Link \cup {Malformed}) /\ "item" \in Kind
    BY DEF Kind, ItemKind
  <2>2. x \in Line
    BY <2>1 DEF ItemLine, Line
  <2> QED BY <2>2 DEF ItemLine, KeyKind
<1>31. /\ k < a /\ f[k].kind = "links" /\ f[a - 1].kind # "item+"
       /\ \A m \in k..(a - 1) : f[m].kind # "header"
       /\ \A i \in LinkLines(f) : i < a
       /\ \A i \in ItemLines(f) : i \notin LinkLines(f) => i >= a
  BY <1>3
<1>6. Len(LinksOf(f)) = n
  BY <1>2, LinksAre
<1> HIDE DEF x
<1>7. a - 1 \in (a - 1)..Len(f)
  BY <1>4
<1>8. Spliced(f, a, a - 1, new, g)
  BY <1>3, <1>4, <1>5, <1>7 DEF Spliced
<1>9. g \in Seq(Line)
  BY <1>8, SplicePlaces DEF Shifted
<1> HIDE DEF g
<1>10. Parses(g) /\ KeyLines(g) = {k} /\ HeaderBlock(g) = HeaderBlock(f)
  <2>1. k \in 1..(a - 1) /\ k \in KeyLines(f)
    BY <1>31, <1>4 DEF KeyLines, KeyKind
  <2>2. Parses(g)
    BY <1>31, <1>5, <1>8, <2>1, ParsesGrown
  <2>3. KeyLines(f) = {k}
    BY <1>4, <2>1, OneKey
  <2>4. \A j \in 1..Len(new) : new[j].kind \notin KeyKind
    BY <1>5
  <2> HIDE DEF new
  <2> QED BY <1>8, <2>1, <2>2, <2>3, <2>4, SpliceKey
<1>11. HasHeader(f) => HasHeader(g)
  <2>1. \A i \in a..(a - 1) : f[i].kind # "header"
    BY <1>4
  <2> HIDE DEF new
  <2> QED BY <1>8, <2>1, SpliceHeader
<1>12. Kept(g) = Kept(f)
  <2>1. \A i \in a..(a - 1) : i \notin KeptLines(f)
    BY <1>4
  <2>2. KeptLines(new) = {}
    <3>1. l # Malformed
      BY MalformedAssumption
    <3> QED BY <1>5, <3>1 DEF KeptLines
  <2> HIDE DEF new
  <2> QED BY <1>8, <2>1, <2>2, SpliceKept
<1>13. /\ Tidy(g) /\ LinksOf(g) = Append(LinksOf(f), l)
       /\ Spans(g)[n + 1].start = a /\ Spans(g)[n + 1].end = LineEnd(g, a)
  <2>1. 1 \in 1..Len(new) /\ new[1] = ItemLine(l) /\ \A y \in 1..Len(new) : y = 1
    BY <1>5 DEF x
  <2>2. a + 1 - 1 = a
    BY <1>4
  <2> HIDE DEF new
  <2>3. GrownAt(f, g, l, n, a + 1 - 1)
    BY <1>2, <1>31, <1>8, <2>1, GrownByOne
  <2> QED BY <2>2, <2>3 DEF GrownAt
<1>14. Splice(g, a, a, <<>>) = f
  <2>1. /\ \A i \in 1..(a - 1) : g[i] = f[i]
        /\ \A i \in a..Len(f) : g[i + 1] = f[i]
        /\ Len(g) = Len(f) + 1
    <3> DEFINE d == Shift(a, a - 1, new)
    <3>1. d = 1
      BY <1>4, <1>5 DEF Shift
    <3>2. /\ Len(g) = Len(f) + d
          /\ \A i \in 1..Len(f) : i < a => g[i] = f[i]
          /\ \A i \in 1..Len(f) : i > a - 1 => g[i + d] = f[i]
      <4>1. Shifted(f, a, a - 1, new, g, d)
        BY <1>8, SplicePlaces
      <4> HIDE DEF d, new
      <4> QED BY <4>1 DEF Shifted
    <3> HIDE DEF d
    <3>3. \A i \in 1..(a - 1) : i \in 1..Len(f) /\ i < a
      BY <1>4
    <3>4. \A i \in a..Len(f) : i \in 1..Len(f) /\ i > a - 1
      BY <1>4
    <3> QED BY <3>1, <3>2, <3>3, <3>4
  <2> DEFINE h == Splice(g, a, a, <<>>)
             w == Width(a, a)
  <2>2. <<>> \in Seq(Line) /\ a \in 1..(Len(g) + 1) /\ a \in (a - 1)..Len(g)
    BY <1>4, <1>9, <2>1
  <2>3. Spliced(g, a, a, <<>>, h) /\ w = 1
    BY <1>4, <1>9, <2>2 DEF Spliced, Width
  <2>4. /\ h \in Seq(Line) /\ Len(h) = Len(g) - w
        /\ \A i \in 1..Len(h) : /\ i < a => h[i] = g[i]
                                /\ i >= a => h[i] = g[i + w]
    <3> HIDE DEF h
    <3>1. Closed(g, a, a, h, w)
      BY <2>3, RemovalPlaces
    <3> HIDE DEF w
    <3> QED BY <3>1 DEF Closed
  <2> HIDE DEF h, w
  <2>5. Len(h) = Len(f)
    BY <1>4, <2>1, <2>3, <2>4
  <2>6. ASSUME NEW i \in 1..Len(f) PROVE h[i] = f[i]
    <3>1. CASE i < a
      BY <1>4, <2>1, <2>4, <2>5, <3>1
    <3>2. CASE i >= a
      BY <1>4, <2>1, <2>3, <2>4, <2>5, <3>2
    <3> QED BY <1>4, <3>1, <3>2
  <2>7. h = f
    BY <1>4, <2>4, <2>5, <2>6, SeqEqual
  <2> QED BY <2>7 DEF h
<1>15. LineEnd(g, a) = a
  <2>1. g[a] = x
    <3>1. 1 \in 1..Len(new) /\ new[1] = x /\ a + 1 - 1 = a
      BY <1>4, <1>5
    <3> HIDE DEF new
    <3>2. g[a + 1 - 1] = new[1]
      BY <1>8, <3>1, SplicePlaces DEF Shifted
    <3> QED BY <3>1, <3>2
  <2> QED BY <1>5, <2>1 DEF LineEnd
<1>16. Removed(g, Spans(g)[n + 1]) = f
  BY <1>13, <1>14, <1>15 DEF Removed
<1> QED BY <1>6, <1>10, <1>11, <1>12, <1>13, <1>16 DEF g

\* The greatest of some lines.
LEMMA MaxIsMember ==
  ASSUME NEW n \in Nat, NEW S \in SUBSET (1..n), S # {}
  PROVE  Max(S) \in S
<1>1. IsFiniteSet(1..n)
  BY FS_Interval
<1>2. IsFiniteSet(S) /\ S \in SUBSET Nat
  <2>1. IsFiniteSet(S)
    BY <1>1, FS_Subset
  <2>2. S \in SUBSET Nat
    OBVIOUS
  <2> QED BY <2>1, <2>2
<1> DEFINE c == Cardinality(S)
           o == InOrder(S)
<1>3. c \in Nat /\ Lists(o, S, c)
  BY <1>2, InOrderLists
<1> HIDE DEF c, o
<1>4. c # 0 /\ c \in 1..c
  <2>1. PICK i \in S : TRUE
    OBVIOUS
  <2>2. PICK a \in 1..c : o[a] = i
    BY <1>3, <2>1 DEF Lists
  <2> QED BY <1>3, <2>2
<1>5. o[c] \in S /\ \A i \in S : o[c] >= i
  <2>1. /\ o[c] \in S /\ \A i \in S : \E a \in 1..c : o[a] = i
        /\ \A a \in 1..c : a < c => o[a] < o[c]
        /\ \A a \in 1..c : o[a] \in Nat
    BY <1>2, <1>3, <1>4 DEF Lists
  <2> SUFFICES ASSUME NEW i \in S PROVE o[c] >= i
    BY <2>1
  <2>2. PICK a \in 1..c : o[a] = i
    BY <2>1
  <2>3. a = c \/ a < c
    BY <1>3
  <2> QED BY <1>4, <2>1, <2>2, <2>3
<1> QED BY <1>5 DEF Max

\* A file without a links key whose last line alone is empty.
LEMMA LastIsBlank ==
  ASSUME NEW f, Orderly(f), KeyLines(f) = {}
  PROVE  LET w == WithoutTrailingBlanks(f)
         IN  /\ Len(f) \in Nat /\ Len(f) >= 1 /\ w \in Seq(Line)
             /\ w = SubSeq(f, 1, Len(f) - 1)
             /\ w \o <<BlankLine>> = f /\ SubSeq(f, Len(f), Len(f)) = <<BlankLine>>
<1> DEFINE w == WithoutTrailingBlanks(f)
           kept == {i \in DOMAIN f : f[i].kind # "blank"}
<1>1. f \in Seq(Line) /\ Len(f) \in Nat /\ DOMAIN f = 1..Len(f)
  BY DEF Orderly, Tidy
<1>2. w \in Seq(Line)
  <2>1. CASE kept = {}
    BY <2>1 DEF WithoutTrailingBlanks
  <2>2. CASE kept # {}
    <3>1. Max(kept) \in 1..Len(f)
      <4>1. kept \in SUBSET (1..Len(f))
        BY <1>1
      <4> HIDE DEF kept
      <4> QED BY <1>1, <2>2, <4>1, MaxIsMember
    <3>2. w = SubSeq(f, 1, Max(kept))
      BY <2>2 DEF WithoutTrailingBlanks
    <3> HIDE DEF w, kept
    <3> QED BY <1>1, <3>1, <3>2
  <2> QED BY <2>1, <2>2
<1>3. w \o <<BlankLine>> = f
  BY DEF Orderly
<1> HIDE DEF w, kept
<1>4. Len(w) \in Nat /\ Len(w) = Len(f) - 1 /\ \A i \in 1..Len(w) : f[i] = w[i]
  BY <1>2, <1>3
<1>5. f[Len(f)] = BlankLine
  BY <1>1, <1>2, <1>3, <1>4
<1>6. w = SubSeq(f, 1, Len(f) - 1)
  <2>1. /\ SubSeq(f, 1, Len(f) - 1) \in Seq(Line) /\ Len(SubSeq(f, 1, Len(f) - 1)) = Len(f) - 1
        /\ \A i \in 1..(Len(f) - 1) : SubSeq(f, 1, Len(f) - 1)[i] = f[i]
    BY <1>1, <1>4, SubSeqProperties
  <2> QED BY <1>2, <1>4, <2>1, SeqEqual
<1>7. SubSeq(f, Len(f), Len(f)) = <<BlankLine>>
  <2> DEFINE t == SubSeq(f, Len(f), Len(f))
  <2>1. Len(f) \in 1..Len(f)
    BY <1>1, <1>4
  <2>2. t \in Seq(Line) /\ Len(t) = 1 /\ t[1] = f[Len(f)]
    BY <1>1, <2>1
  <2> HIDE DEF t
  <2>3. t = <<t[1]>>
    BY <2>2, Singleton
  <2> QED BY <1>5, <2>2, <2>3 DEF t
<1>8. Len(f) >= 1
  BY <1>1, <1>4
<1> QED BY <1>1, <1>2, <1>3, <1>6, <1>7, <1>8 DEF w

\* The new list in place of the key's line, or above the last line.
LEMMA ListBegun ==
  ASSUME NEW f, Tidy(f), Parses(f), ItemLines(f) = {}, NEW l \in Store!Link,
         NEW a, NEW b, NEW g, Spliced(f, a, b, <<KeyLine, ItemLine(l)>>, g),
         \A i \in a..b : f[i].kind \in KeyKind, Parses(g)
  PROVE  /\ Orderly(g) /\ Kept(g) = Kept(f) /\ LinksOf(g) = Append(LinksOf(f), l)
         /\ HeaderBlock(g) = SubSeq(f, 1, a - 1) \o <<BlankLine>>
<1> DEFINE new == <<KeyLine, ItemLine(l)>>
<1>1. /\ f \in Seq(Line) /\ Len(f) \in Nat /\ DOMAIN f = 1..Len(f)
      /\ a \in 1..(Len(f) + 1) /\ b \in (a - 1)..Len(f)
  BY DEF Spliced
<1>2. /\ Len(new) = 2 /\ new[1] = KeyLine /\ new[2] = ItemLine(l)
      /\ \A j \in 1..Len(new) : j = 1 \/ j = 2
      /\ 1 \in 1..Len(new) /\ 2 \in 1..Len(new)
  OBVIOUS
<1>3. l # Malformed
  BY MalformedAssumption
<1>31. Spliced(f, a, b, new, g)
  OBVIOUS
<1> HIDE DEF new
<1>4. LinkLines(f) = {}
  BY DEF LinkLines, ItemLines
<1>5. Lists(<<>>, LinkLines(f), 0)
  BY <1>4 DEF Lists
<1>6. Tidy(g) /\ LinksOf(g) = Append(LinksOf(f), l)
  <2>1. \A x \in 1..Len(new) : x # 2 => new[x].items = <<>>
    BY <1>2 DEF KeyLine
  <2>2. \A i \in LinkLines(f) : i < a
    BY <1>4
  <2>3. \A i \in ItemLines(f) : i \notin LinkLines(f) => i >= a
    OBVIOUS
  <2> DEFINE at == <<>>
             n == 0
             j == 2
  <2>4. /\ n \in Nat /\ Lists(at, LinkLines(f), n) /\ j \in 1..Len(new)
        /\ new[j] = ItemLine(l) /\ \A x \in 1..Len(new) : x # j => new[x].items = <<>>
    BY <1>2, <1>5, <2>1
  <2> HIDE DEF at, n, j
  <2>5. GrownAt(f, g, l, n, a + j - 1)
    BY <1>31, <2>2, <2>3, <2>4, GrownByOne
  <2> QED BY <2>5 DEF GrownAt
<1>7. Kept(g) = Kept(f)
  <2>1. ASSUME NEW i \in a..b PROVE i \notin KeptLines(f)
    <3>1. i \in DOMAIN f /\ f[i].kind \in KeyKind
      BY <1>1
    <3>2. f[i].items = <<>>
      BY <3>1 DEF ItemLines
    <3>3. DOMAIN f[i].items = {}
      BY <3>2
    <3>4. f[i].kind \notin {"header", "note"}
      BY <3>1 DEF KeyKind
    <3> QED BY <3>3, <3>4 DEF KeptLines
  <2>2. KeptLines(new) = {}
    <3> SUFFICES ASSUME NEW j \in DOMAIN new PROVE j \notin KeptLines(new)
      BY DEF KeptLines
    <3>1. j = 1 \/ j = 2
      BY <1>2 DEF new
    <3>2. new[j].kind \notin {"header", "note"}
      BY <1>2, <3>1 DEF KeyLine, ItemLine
    <3>3. \A i \in DOMAIN new[j].items : new[j].items[i] # Malformed
      <4>1. CASE j = 1
        BY <1>2, <4>1 DEF KeyLine
      <4>2. CASE j = 2
        BY <1>2, <1>3, <4>2 DEF ItemLine
      <4> QED BY <3>1, <4>1, <4>2
    <3> QED BY <3>2, <3>3 DEF KeptLines
  <2> QED BY <1>31, <2>1, <2>2, SpliceKept
<1>8. /\ g \in Seq(Line) /\ Len(g) \in Nat /\ DOMAIN g = 1..Len(g) /\ a - 1 <= Len(g)
      /\ a \in 1..Len(g) /\ g[a] = KeyLine
      /\ \A i \in 1..(a - 1) : g[i] = f[i]
  <2>1. /\ g \in Seq(Line) /\ Len(g) \in Nat /\ DOMAIN g = 1..Len(g)
        /\ \A i \in 1..Len(f) : i < a => g[i] = f[i]
        /\ a + 1 - 1 \in 1..Len(g) /\ g[a + 1 - 1] = new[1]
    <3> DEFINE d == Shift(a, b, new)
    <3>1. /\ g \in Seq(Line) /\ Len(g) \in Nat /\ DOMAIN g = 1..Len(g)
          /\ \A i \in 1..Len(f) : i < a => g[i] = f[i]
          /\ \A j \in 1..Len(new) : a + j - 1 \in 1..Len(g) /\ g[a + j - 1] = new[j]
      <4>1. Shifted(f, a, b, new, g, d)
        BY <1>31, SplicePlaces
      <4> HIDE DEF d
      <4> QED BY <4>1 DEF Shifted
    <3> QED BY <1>2, <3>1
  <2>2. a + 1 - 1 = a
    BY <1>1
  <2> QED BY <1>1, <1>2, <2>1, <2>2
<1>9. KeyLines(g) = {a}
  <2>1. a \in KeyLines(g)
    BY <1>8 DEF KeyLines, KeyKind, KeyLine
  <2> QED BY <1>8, <2>1, OneKey
<1>10. HeaderBlock(g) = SubSeq(g, 1, a - 1) \o <<BlankLine>>
  <2>1. Min({a}) = a
    BY <1>1 DEF Min
  <2> QED BY <1>9, <2>1 DEF HeaderBlock
<1>11. SubSeq(g, 1, a - 1) = SubSeq(f, 1, a - 1)
  <2>1. /\ SubSeq(f, 1, a - 1) \in Seq(Line) /\ Len(SubSeq(f, 1, a - 1)) = a - 1
        /\ \A i \in 1..(a - 1) : SubSeq(f, 1, a - 1)[i] = f[i]
    BY <1>1, SubSeqProperties
  <2>2. /\ SubSeq(g, 1, a - 1) \in Seq(Line) /\ Len(SubSeq(g, 1, a - 1)) = a - 1
        /\ \A i \in 1..(a - 1) : SubSeq(g, 1, a - 1)[i] = g[i]
    BY <1>1, <1>8, SubSeqProperties
  <2> QED BY <1>8, <2>1, <2>2, SeqEqual
<1> QED BY <1>6, <1>7, <1>9, <1>10, <1>11 DEF Orderly

\* Three elements after a sequence.
LEMMA ThreeMore ==
  ASSUME NEW X, NEW w \in Seq(X), NEW x \in X, NEW y \in X, NEW z \in X
  PROVE  w \o <<x, y, z>> = w \o <<x, y>> \o <<z>>
<1>1. w \o <<x, y, z>> \in Seq(X) /\ w \o <<x, y>> \o <<z>> \in Seq(X)
  OBVIOUS
<1>2. Len(w \o <<x, y, z>>) = Len(w \o <<x, y>> \o <<z>>)
  OBVIOUS
<1>3. ASSUME NEW i \in 1..Len(w \o <<x, y, z>>)
      PROVE  (w \o <<x, y, z>>)[i] = (w \o <<x, y>> \o <<z>>)[i]
  OBVIOUS
<1> QED BY <1>1, <1>2, <1>3, SeqEqual

\* The lines that begin a list.
LEMMA NewLines ==
  ASSUME NEW l \in Store!Link
  PROVE  LET new == <<KeyLine, ItemLine(l)>>
         IN  /\ new \in Seq(Line) /\ Len(new) = 2 /\ new[1] = KeyLine /\ new[2] = ItemLine(l)
             /\ KeyLine \in Line /\ ItemLine(l) \in Line
<1>1. /\ "links" \in Kind /\ "item" \in Kind
      /\ <<>> \in Seq(Store!Link \cup {Malformed})
      /\ <<l>> \in Seq(Store!Link \cup {Malformed})
  BY DEF Kind, ItemKind, KeyKind
<1>2. KeyLine \in Line /\ ItemLine(l) \in Line
  BY <1>1 DEF KeyLine, ItemLine, Line
<1> QED BY <1>2

\* Without an item, locate finds nothing.
LEMMA NoSpans ==
  ASSUME NEW f, Tidy(f), ItemLines(f) = {}
  PROVE  Spans(f) = <<>>
<1>1. LinkLines(f) = {}
  BY DEF LinkLines, ItemLines
<1>2. Lists(<<>>, LinkLines(f), 0)
  BY <1>1 DEF Lists
<1> DEFINE n == 0
           at == <<>>
<1>3. n \in Nat /\ Lists(at, LinkLines(f), n) /\ n = 0
  BY <1>2
<1> HIDE DEF n, at
<1>4. Spans(f) \in Seq([link : Store!Link, start : Nat, end : Nat]) /\ Len(Spans(f)) = n
  BY <1>3, LinksAre
<1> QED BY <1>3, <1>4

\* An empty flow list on one line goes for a block list.
LEMMA FlowSplice ==
  ASSUME NEW f, Orderly(f), NEW l \in Store!Link, NEW k \in KeyLines(f), f[k].kind = "flow"
  PROVE  /\ k \in 1..Len(f) /\ KeyLines(f) = {k} /\ ItemLines(f) = {}
         /\ Spliced(f, k, k, <<KeyLine, ItemLine(l)>>, Inserted(f, l))
<1> DEFINE g == Inserted(f, l)
           new == <<KeyLine, ItemLine(l)>>
<1>1. /\ Tidy(f) /\ Parses(f) /\ f \in Seq(Line) /\ Len(f) \in Nat /\ DOMAIN f = 1..Len(f)
  BY DEF Orderly, Tidy
<1>2. new \in Seq(Line)
  BY NewLines
<1>3. k \in 1..Len(f) /\ KeyLines(f) = {k}
  BY <1>1, OneKey DEF KeyLines
<1>4. ItemLines(f) = {}
  <2> SUFFICES ASSUME NEW i \in ItemLines(f) PROVE FALSE
    OBVIOUS
  <2>1. PICK j \in 1..(i - 1) : KeyLines(f) = {j} /\ f[j].kind \in {"links", "flow["}
    BY <1>1, ItemsBelowKey
  <2> QED BY <1>3, <2>1
<1>5. Spans(f) = <<>> /\ FlowLinks(f)
  BY <1>1, <1>4, NoSpans DEF FlowLinks
<1>6. g = Splice(f, k, k, new)
  <2>1. (CHOOSE i \in KeyLines(f) : TRUE) = k
    BY <1>3
  <2> QED BY <1>5, <2>1 DEF Inserted
<1>7. k \in 1..(Len(f) + 1) /\ k \in (k - 1)..Len(f)
  BY <1>1, <1>3
<1>8. Spliced(f, k, k, new, g)
  BY <1>1, <1>2, <1>6, <1>7 DEF Spliced
<1> QED BY <1>3, <1>4, <1>8

\* Without a key the list goes above the blank line at the end.
LEMMA EndSplice ==
  ASSUME NEW f, Orderly(f), KeyLines(f) = {}, NEW l \in Store!Link
  PROVE  LET w == WithoutTrailingBlanks(f)
             a == Len(f)
         IN  /\ a >= 1 /\ w = SubSeq(f, 1, a - 1) /\ w \o <<BlankLine>> = f
             /\ ItemLines(f) = {}
             /\ Spliced(f, a, a - 1, <<KeyLine, ItemLine(l)>>, Inserted(f, l))
<1> DEFINE g == Inserted(f, l)
           new == <<KeyLine, ItemLine(l)>>
           w == WithoutTrailingBlanks(f)
           a == Len(f)
<1>0. /\ Tidy(f) /\ Parses(f) /\ f \in Seq(Line) /\ Len(f) \in Nat /\ DOMAIN f = 1..Len(f)
      /\ new \in Seq(Line) /\ Len(new) = 2 /\ new[1] = KeyLine /\ new[2] = ItemLine(l)
      /\ KeyLine \in Line /\ ItemLine(l) \in Line
  <2>1. Tidy(f) /\ Parses(f) /\ f \in Seq(Line)
    BY DEF Orderly, Tidy
  <2> QED BY <2>1, NewLines
<1>1. /\ a >= 1 /\ w = SubSeq(f, 1, a - 1) /\ w \in Seq(Line)
      /\ w \o <<BlankLine>> = f /\ SubSeq(f, a, a) = <<BlankLine>>
  BY LastIsBlank
<1>2. ItemLines(f) = {}
  <2> SUFFICES ASSUME NEW i \in ItemLines(f) PROVE FALSE
    OBVIOUS
  <2>1. PICK j \in 1..(i - 1) : KeyLines(f) = {j}
    BY <1>0, ItemsBelowKey
  <2> QED BY <2>1
<1>3. Spans(f) = <<>> /\ ~FlowLinks(f)
  BY <1>0, <1>2, NoSpans DEF FlowLinks
<1>4. g = w \o <<KeyLine, ItemLine(l), BlankLine>>
  BY <1>3 DEF Inserted
<1>5. g = Splice(f, a, a - 1, new)
  <2>1. Splice(f, a, a - 1, new) = w \o new \o <<BlankLine>>
    <3>1. (a - 1) + 1 = a
      BY <1>0
    <3> HIDE DEF w, new, a
    <3>2. Len(f) = a
      BY DEF a
    <3> QED BY <1>1, <3>1, <3>2 DEF Splice
  <2>2. w \in Seq(Line) /\ BlankLine \in Line
    <3>1. BlankLine \in Line
      BY DEF BlankLine, Line, Kind
    <3> HIDE DEF w
    <3> QED BY <1>0, <1>1, <3>1
  <2>3. w \o <<KeyLine, ItemLine(l), BlankLine>> = w \o new \o <<BlankLine>>
    <3>1. KeyLine \in Line /\ ItemLine(l) \in Line
      BY <1>0
    <3> HIDE DEF w
    <3>2. w \o <<KeyLine, ItemLine(l), BlankLine>>
          = w \o <<KeyLine, ItemLine(l)>> \o <<BlankLine>>
      BY <2>2, <3>1, ThreeMore
    <3> QED BY <3>2 DEF new
  <2> HIDE DEF g, w, new
  <2> QED BY <1>4, <2>1, <2>3
<1>6. Spliced(f, a, a - 1, new, g)
  <2>0. a \in Nat /\ a >= 1 /\ Len(f) = a
    BY <1>0, <1>1
  <2> HIDE DEF g, new, a
  <2>1. a \in 1..(Len(f) + 1) /\ a - 1 \in (a - 1)..Len(f)
    BY <2>0
  <2> QED BY <1>0, <1>5, <2>1 DEF Spliced
<1> QED BY <1>1, <1>2, <1>6 DEF a, w, g, new

\* YAML accepts a list that begins where nothing of one was, but an empty flow list.
LEMMA ParsesBegun ==
  ASSUME NEW f, Tidy(f), Parses(f), ItemLines(f) = {}, NEW l \in Store!Link,
         NEW a, NEW b, NEW g, Spliced(f, a, b, <<KeyLine, ItemLine(l)>>, g),
         \A i \in KeyLines(f) : i \in a..b /\ f[i].kind = "flow",
         \A i \in a..b : f[i].kind = "flow"
  PROVE  Parses(g)
<1> DEFINE new == <<KeyLine, ItemLine(l)>>
           d == Shift(a, b, new)
<1>1. /\ Len(new) = 2 /\ new[1] = KeyLine /\ new[2] = ItemLine(l)
      /\ \A j \in 1..2 : j = 1 \/ j = 2
  OBVIOUS
<1>2. Spliced(f, a, b, new, g)
  OBVIOUS
<1>3. a \in 1..(Len(f) + 1) /\ b \in (a - 1)..Len(f)
  BY DEF Spliced
<1> HIDE DEF new
<1>4. Shifted(f, a, b, new, g, d)
  BY <1>2, SplicePlaces
<1> HIDE DEF d
<1>5. /\ d \in Int /\ Len(g) = Len(f) + d /\ a \in Nat /\ b \in Nat
      /\ Len(f) \in Nat /\ Len(g) \in Nat /\ DOMAIN f = 1..Len(f) /\ DOMAIN g = 1..Len(g)
      /\ \A i \in 1..Len(f) : /\ i < a => i \in 1..Len(g) /\ g[i] = f[i]
                              /\ i > b => /\ i + d \in 1..Len(g) /\ i + d >= a + 2
                                          /\ g[i + d] = f[i]
      /\ \A i \in 1..Len(g) :
           \/ i < a /\ i \in 1..Len(f) /\ g[i] = f[i]
           \/ i >= a /\ i < a + 2 /\ i - a + 1 \in 1..2 /\ g[i] = new[i - a + 1]
           \/ i >= a + 2 /\ i - d \in 1..Len(f) /\ i - d > b /\ g[i] = f[i - d]
  BY <1>1, <1>4 DEF Shifted
<1>6. \A i \in 1..Len(f) : f[i].kind \notin RowKind \cup {"flow["}
  <2>1. ASSUME NEW i \in 1..Len(f), f[i].kind \in {"flow["} PROVE FALSE
    BY <1>5, <2>1 DEF KeyLines, KeyKind
  <2>2. ASSUME NEW i \in 1..Len(f), f[i].kind \in RowKind PROVE FALSE
    <3>1. PICK k \in 1..(i - 1) : f[k].kind = "flow["
      BY <1>5, <2>2, RowsBelowKey DEF Tidy
    <3> QED BY <1>5, <2>1, <3>1
  <2> QED BY <2>1, <2>2
<1>7. \A i \in 1..Len(f) : f[i].kind \notin ItemKind \cup {"cont", "links"}
  <2>1. ASSUME NEW i \in 1..Len(f), f[i].kind = "links" PROVE FALSE
    BY <1>5, <2>1 DEF KeyLines, KeyKind
  <2>2. ASSUME NEW i \in 1..Len(f), f[i].kind \in ItemKind PROVE FALSE
    <3>1. PICK k \in 1..(i - 1) : f[k].kind = "links"
      BY <1>5, <2>2 DEF Parses
    <3> QED BY <1>5, <2>1, <3>1
  <2>3. ASSUME NEW i \in 1..Len(f), f[i].kind = "cont" PROVE FALSE
    <3>1. i > 1 /\ f[i - 1].kind = "item+"
      BY <1>5, <2>3 DEF Parses
    <3> QED BY <1>5, <2>2, <3>1 DEF ItemKind
  <2> QED BY <2>1, <2>2, <2>3
<1>8. ASSUME NEW i \in 1..Len(g)
      PROVE  \/ i = a /\ g[i] = KeyLine
             \/ i = a + 1 /\ g[i] = ItemLine(l)
             \/ \E j \in 1..Len(f) : g[i] = f[j] /\ ~(j \in a..b)
  <2>1. CASE i < a /\ i \in 1..Len(f) /\ g[i] = f[i]
    <3>1. ~(i \in a..b)
      BY <1>3, <2>1
    <3> QED BY <2>1, <3>1
  <2>2. CASE i >= a /\ i < a + 2 /\ g[i] = new[i - a + 1]
    <3>1. i = a \/ i = a + 1
      BY <1>5, <2>2
    <3>2. a - a + 1 = 1 /\ (a + 1) - a + 1 = 2
      BY <1>5
    <3> QED BY <1>1, <2>2, <3>1, <3>2
  <2>3. CASE i >= a + 2 /\ i - d \in 1..Len(f) /\ i - d > b /\ g[i] = f[i - d]
    <3>1. ~(i - d \in a..b)
      BY <1>5, <2>3
    <3> QED BY <2>3, <3>1
  <2> QED BY <1>5, <2>1, <2>2, <2>3
<1>9. ASSUME NEW i \in 1..Len(g)
      PROVE  /\ g[i].kind \notin RowKind \cup {"flow", "flow[", "item+", "cont"}
             /\ g[i].kind = "links" => i = a
             /\ g[i].kind = "item" => i = a + 1
  <2>1. CASE i = a /\ g[i] = KeyLine
    BY <2>1 DEF KeyLine, RowKind
  <2>2. CASE i = a + 1 /\ g[i] = ItemLine(l)
    BY <2>2 DEF ItemLine, RowKind
  <2>3. ASSUME NEW j \in 1..Len(f), g[i] = f[j], ~(j \in a..b)
        PROVE  /\ g[i].kind \notin RowKind \cup {"flow", "flow[", "item+", "cont"}
               /\ g[i].kind # "links" /\ g[i].kind # "item"
    <3>1. f[j].kind # "flow"
      BY <1>5, <2>3 DEF KeyLines, KeyKind
    <3> QED BY <1>6, <1>7, <2>3, <3>1 DEF ItemKind
  <2> QED BY <1>8, <2>1, <2>2, <2>3
<1>10. a \in 1..Len(g) /\ a + 1 \in 1..Len(g) /\ g[a] = KeyLine /\ g[a + 1] = ItemLine(l)
  <2>1. \A j \in 1..2 : a + j - 1 \in 1..Len(g) /\ g[a + j - 1] = new[j]
    BY <1>1, <1>4 DEF Shifted
  <2>2. a + 1 - 1 = a /\ a + 2 - 1 = a + 1 /\ 1 \in 1..2 /\ 2 \in 1..2
    BY <1>5
  <2> QED BY <1>1, <2>1, <2>2
<1>11. Cardinality(KeyLines(g)) <= 1
  <2>1. KeyLines(g) \subseteq {a}
    BY <1>5, <1>9 DEF KeyLines, KeyKind
  <2> QED BY <2>1, AtMostOne
<1>12. ASSUME NEW i \in 1..Len(g), g[i].kind \in ItemKind
       PROVE  \E n \in 1..(i - 1) : g[n].kind = "links" /\ \A m \in n..i : g[m].kind # "header"
  <2>1. i = a + 1
    BY <1>9, <1>12 DEF ItemKind
  <2>2. a \in 1..(i - 1) /\ \A m \in a..i : m = a \/ m = a + 1
    BY <1>5, <1>10, <2>1
  <2>3. g[a].kind = "links" /\ g[a].kind # "header" /\ g[a + 1].kind # "header"
    BY <1>10 DEF KeyLine, ItemLine
  <2> QED BY <2>2, <2>3
<1> QED BY <1>5, <1>9, <1>11, <1>12, BlockParses DEF RowKind

\* A file that can be read can still be read with a link more, unless its flow list is
\* spread over several lines.
LEMMA InsertedReads ==
  ASSUME NEW f, Orderly(f), HasHeader(f), NEW l \in Store!Link,
         \A i \in KeyLines(f) : f[i].kind # "flow["
  PROVE  Writable(Inserted(f, l))
<1> DEFINE g == Inserted(f, l)
<1>1. Tidy(f) /\ Parses(f)
  BY DEF Orderly
<1>2. CASE KeyLines(f) # {} /\ ~FlowLinks(f)
  BY <1>1, <1>2, BlockGrown DEF Writable
<1>3. CASE FlowLinks(f)
  <2>1. PICK k \in KeyLines(f) : f[k].kind = "flow"
    BY <1>3 DEF FlowLinks
  <2>2. /\ k \in 1..Len(f) /\ KeyLines(f) = {k} /\ ItemLines(f) = {}
        /\ Spliced(f, k, k, <<KeyLine, ItemLine(l)>>, g)
    BY <2>1, FlowSplice
  <2> HIDE DEF g
  <2>3. \A i \in k..k : i = k
    BY <2>2
  <2>4. k \in k..k
    BY <2>2
  <2>5. Parses(g)
    BY <1>1, <2>1, <2>2, <2>3, <2>4, ParsesBegun
  <2>6. HasHeader(g)
    BY <2>1, <2>2, <2>3, SpliceHeader
  <2> QED BY <2>5, <2>6 DEF Writable, g
<1>4. CASE KeyLines(f) = {}
  <2> DEFINE a == Len(f)
             b == a - 1
  <2>1. a >= 1 /\ ItemLines(f) = {} /\ Spliced(f, a, b, <<KeyLine, ItemLine(l)>>, g)
    BY <1>4, EndSplice
  <2>2. \A i \in a..b : FALSE
    BY <1>1 DEF Tidy
  <2> HIDE DEF g, a, b
  <2>3. Parses(g)
    BY <1>1, <1>4, <2>1, <2>2, ParsesBegun
  <2>4. HasHeader(g)
    BY <2>1, <2>2, SpliceHeader
  <2> QED BY <2>3, <2>4 DEF Writable, g
<1> QED BY <1>2, <1>3, <1>4

\* A link that the tool writes.
LEMMA InsertedKeeps ==
  ASSUME NEW f, Orderly(f), NEW l \in Store!Link,
         Inserted(f, l) # <<>>, Parses(Inserted(f, l))
  PROVE  LET g == Inserted(f, l)
         IN  Orderly(g) /\ Kept(g) = Kept(f) /\ HeaderBlock(g) = HeaderBlock(f)
             /\ LinksOf(g) = Append(LinksOf(f), l)
<1> DEFINE g == Inserted(f, l)
           new == <<KeyLine, ItemLine(l)>>
<1>1. /\ Tidy(f) /\ Parses(f) /\ f \in Seq(Line) /\ Len(f) \in Nat /\ DOMAIN f = 1..Len(f)
      /\ new \in Seq(Line) /\ Len(new) = 2 /\ new[1] = KeyLine /\ new[2] = ItemLine(l)
  <2>1. Tidy(f) /\ Parses(f) /\ f \in Seq(Line)
    BY DEF Orderly, Tidy
  <2>2. /\ "links" \in Kind /\ "item" \in Kind /\ "blank" \in Kind
        /\ <<>> \in Seq(Store!Link \cup {Malformed})
        /\ <<l>> \in Seq(Store!Link \cup {Malformed})
    BY DEF Kind, ItemKind, KeyKind
  <2>3. KeyLine \in Line /\ ItemLine(l) \in Line
    BY <2>2 DEF KeyLine, ItemLine, Line
  <2> QED BY <2>1, <2>3
<1>2. PICK n \in Nat : \E at \in [1..n -> LinkLines(f)] : Lists(at, LinkLines(f), n)
  BY <1>1, LinksLie
<1>3. PICK at \in [1..n -> LinkLines(f)] : Lists(at, LinkLines(f), n)
  BY <1>2
<1>4. /\ Spans(f) \in Seq([link : Store!Link, start : Nat, end : Nat]) /\ Len(Spans(f)) = n
      /\ \A k \in 1..n : at[k] \in LinkLines(f)
  BY <1>1, <1>3, LinksAre
<1>5. CASE KeyLines(f) # {} /\ ~FlowLinks(f)
  <2>1. /\ Tidy(g) /\ Parses(g) /\ KeyLines(g) # {} /\ HeaderBlock(g) = HeaderBlock(f)
        /\ Kept(g) = Kept(f) /\ LinksOf(g) = Append(LinksOf(f), l)
    BY <1>1, <1>5, BlockGrown
  <2> QED BY <2>1 DEF Orderly
<1>6. CASE FlowLinks(f)
  <2>1. PICK k \in KeyLines(f) : f[k].kind \in {"flow", "flow["}
    BY <1>6 DEF FlowLinks
  <2>2. k \in 1..Len(f) /\ KeyLines(f) = {k}
    BY <1>1, <2>1, OneKey DEF KeyLines
  <2>3. Spans(f) = <<>> /\ g = Splice(f, k, k, new)
    <3>1. Spans(f) = <<>>
      BY <1>6 DEF Inserted
    <3>2. (CHOOSE i \in KeyLines(f) : TRUE) = k
      BY <2>2
    <3> QED BY <1>6, <2>2, <3>1, <3>2 DEF Inserted
  <2>4. k \in 1..(Len(f) + 1) /\ k \in (k - 1)..Len(f) /\ k \in Nat
    BY <1>1, <2>2
  <2>5. Spliced(f, k, k, new, g)
    BY <1>1, <2>3, <2>4 DEF Spliced
  <2>6. /\ g[k + 1] = ItemLine(l) /\ k + 1 \in 1..Len(g) /\ DOMAIN g = 1..Len(g)
        /\ k + 2 \in 1..Len(g) => k + 1 \in 1..Len(f) /\ g[k + 2] = f[k + 1]
        /\ k + 1 \in 1..Len(f) => k + 2 \in 1..Len(g) /\ g[k + 2] = f[k + 1]
    <3> DEFINE d == Shift(k, k, new)
    <3>1. d = 1 /\ 2 \in 1..Len(new)
      BY <1>1, <2>4 DEF Shift
    <3>2. /\ Len(g) = Len(f) + d /\ DOMAIN g = 1..Len(g)
          /\ \A i \in 1..Len(f) : i > k => i + d \in 1..Len(g) /\ g[i + d] = f[i]
          /\ \A j \in 1..Len(new) : k + j - 1 \in 1..Len(g) /\ g[k + j - 1] = new[j]
      <4> HIDE DEF new, g
      <4>1. Shifted(f, k, k, new, g, d)
        BY <2>5, SplicePlaces
      <4> HIDE DEF d
      <4> QED BY <4>1 DEF Shifted
    <3> HIDE DEF d, new, g
    <3>3. k + 2 - 1 = k + 1 /\ (k + 1) + d = k + 2 /\ k + 1 > k
      BY <2>4, <3>1
    <3>4. g[k + 1] = ItemLine(l) /\ k + 1 \in 1..Len(g)
      BY <1>1, <3>1, <3>2, <3>3
    <3>5. k + 1 \in 1..Len(f) => k + 2 \in 1..Len(g) /\ g[k + 2] = f[k + 1]
      BY <3>2, <3>3
    <3>6. k + 2 \in 1..Len(g) => k + 1 \in 1..Len(f)
      BY <1>1, <2>4, <3>1, <3>2
    <3> QED BY <3>2, <3>4, <3>5, <3>6
  <2>7. f[k].kind = "flow"
    <3> SUFFICES ASSUME f[k].kind = "flow[" PROVE FALSE
      BY <2>1
    <3>1. k + 1 \in 1..Len(f) /\ f[k + 1].kind \in {"row", "row]"}
      BY <1>1, <2>2, <2>4 DEF Parses
    <3>2. k + 2 \in DOMAIN g /\ g[k + 2].kind \in {"row", "row]"}
      BY <2>6, <3>1
    <3> DEFINE i == k + 2
    <3>3. g[i - 1].kind \in {"flow[", "row"}
      <4> HIDE DEF g
      <4>1. Parses(g) /\ i \in DOMAIN g /\ g[i].kind \in {"row", "row]"}
        BY <3>2 DEF g
      <4> HIDE DEF i
      <4> QED BY <4>1 DEF Parses
    <3>4. i - 1 = k + 1
      BY <2>4
    <3> QED BY <2>6, <3>3, <3>4 DEF ItemLine
  <2>8. ItemLines(f) = {}
    <3> SUFFICES ASSUME NEW i \in ItemLines(f) PROVE FALSE
      OBVIOUS
    <3>1. PICK j \in 1..(i - 1) : KeyLines(f) = {j} /\ f[j].kind \in {"links", "flow["}
      BY <1>1, ItemsBelowKey
    <3> QED BY <2>2, <2>7, <3>1
  <2>9. \A i \in k..k : f[i].kind \in KeyKind
    BY <2>1, <2>4 DEF KeyKind
  <2>10. /\ Orderly(g) /\ Kept(g) = Kept(f) /\ LinksOf(g) = Append(LinksOf(f), l)
         /\ HeaderBlock(g) = SubSeq(f, 1, k - 1) \o <<BlankLine>>
    <3> HIDE DEF g
    <3>1. Parses(g)
      BY DEF g
    <3> QED BY <1>1, <2>5, <2>8, <2>9, <3>1, ListBegun
  <2>11. HeaderBlock(f) = SubSeq(f, 1, k - 1) \o <<BlankLine>>
    <3>1. Min({k}) = k
      BY <2>4 DEF Min
    <3> QED BY <2>2, <3>1 DEF HeaderBlock
  <2> QED BY <2>10, <2>11
<1>7. CASE KeyLines(f) = {}
  <2> DEFINE w == WithoutTrailingBlanks(f)
             a == Len(f)
  <2>1. /\ a >= 1 /\ w = SubSeq(f, 1, a - 1) /\ w \o <<BlankLine>> = f
        /\ ItemLines(f) = {} /\ Spliced(f, a, a - 1, new, g)
    BY <1>7, EndSplice
  <2>7. \A i \in a..(a - 1) : f[i].kind \in KeyKind
    BY <1>1
  <2>8. /\ Orderly(g) /\ Kept(g) = Kept(f) /\ LinksOf(g) = Append(LinksOf(f), l)
        /\ HeaderBlock(g) = SubSeq(f, 1, a - 1) \o <<BlankLine>>
    <3>1. ItemLines(f) = {} /\ Spliced(f, a, a - 1, new, g)
      BY <2>1
    <3> HIDE DEF g, a
    <3>2. Parses(g)
      BY DEF g
    <3> QED BY <1>1, <2>7, <3>1, <3>2, ListBegun
  <2> QED BY <1>7, <2>1, <2>8 DEF HeaderBlock
<1> QED BY <1>5, <1>6, <1>7 DEF FlowLinks

---------------------------------------------------------------------------
(* A link less: Removed. *)

\* A link whose lines go.
LEMMA RemovedKeeps ==
  ASSUME NEW f, Orderly(f), NEW n \in Nat, NEW at, Lists(at, LinkLines(f), n), NEW m \in 1..n,
         Parses(Splice(f, at[m], LineEnd(f, at[m]), <<>>)) \/ ~FlowLinks(f)
  PROVE  LET g == Splice(f, at[m], LineEnd(f, at[m]), <<>>)
         IN  /\ Orderly(g) /\ Kept(g) = Kept(f) /\ HeaderBlock(g) = HeaderBlock(f)
             /\ LinksOf(g) = RemoveAt(LinksOf(f), m)
             /\ HasHeader(f) => HasHeader(g)
<1> DEFINE a == at[m]
           b == LineEnd(f, a)
           e == <<>>
           g == Splice(f, a, b, e)
<1>1. /\ Tidy(f) /\ Parses(f) /\ f \in Seq(Line) /\ Len(f) \in Nat /\ DOMAIN f = 1..Len(f)
      /\ LinkLines(f) \subseteq 1..Len(f) /\ LinkLines(f) \subseteq ItemLines(f)
      /\ \A i \in 1..Len(f) : f[i].items # <<>> => /\ f[i].kind \in ItemKind \cup RowKind
                                                   /\ f[i].items = <<f[i].items[1]>>
  <2>1. Tidy(f) /\ Parses(f)
    BY DEF Orderly
  <2> QED BY <2>1, TidyLine
<1>2. a \in LinkLines(f) /\ a \in 1..Len(f) /\ a \in ItemLines(f)
  BY <1>1 DEF Lists
<1>3. f[a].kind \in ItemKind \cup RowKind /\ f[a].items # <<>> /\ f[a].items # <<Malformed>>
  BY <1>1, <1>2 DEF LinkLines
<1>4. /\ b \in a..Len(f)
      /\ \A i \in (a + 1)..b : i \in 1..Len(f) /\ f[i].kind = "cont"
  <2>1. f[a].kind = "item+" => a < Len(f) /\ f[a + 1].kind = "cont"
    BY <1>1, <1>2 DEF Parses
  <2> QED BY <1>1, <1>2, <2>1 DEF LineEnd
<1>5. \A i \in (a + 1)..b : i \in 1..Len(f) /\ f[i].kind = "cont" /\ f[i].items = <<>>
  BY <1>1, <1>4 DEF ItemKind, RowKind
<1>51. \A i \in a..b : i = a \/ i \in (a + 1)..b
  BY <1>1, <1>2, <1>4
<1>6. PICK k \in 1..(a - 1) : KeyLines(f) = {k}
  BY <1>1, <1>2, ItemsBelowKey
<1>61. e \in Seq(Line) /\ Len(e) = 0
  OBVIOUS
<1>62. a <= b /\ a \in 1..(Len(f) + 1) /\ b \in (a - 1)..Len(f)
  BY <1>1, <1>2, <1>4
<1>63. Parses(g) \/ ~FlowLinks(f)
  OBVIOUS
<1> HIDE DEF b, e
<1>7. Spliced(f, a, b, e, g)
  BY <1>1, <1>61, <1>62 DEF Spliced
<1> HIDE DEF g
<1>8. Parses(g)
  <2>1. CASE ~FlowLinks(f)
    <3>1. f[a].kind \notin RowKind
      BY <1>1, <1>2, <2>1, BlockFile
    <3> QED BY <1>1, <1>2, <1>3, <1>7, <2>1, <3>1, ParsesShrunk DEF b, e
  <2> QED BY <1>63, <2>1
<1>9. \A j \in 1..Len(e) : FALSE
  BY <1>61
<1>10. Tidy(g)
  BY <1>1, <1>7, <1>9, SpliceTidy
<1>11. Kept(g) = Kept(f)
  <2>1. ASSUME NEW i \in a..b PROVE i \notin KeptLines(f)
    <3>1. CASE i = a
      <4>1. f[i].kind \notin {"header", "note"}
        BY <1>3, <3>1 DEF ItemKind, RowKind
      <4>2. f[i].items = <<f[i].items[1]>> /\ f[i].items # <<Malformed>>
        BY <1>1, <1>2, <1>3, <3>1
      <4>3. \A j \in DOMAIN f[i].items : f[i].items[j] # Malformed
        BY <4>2
      <4> QED BY <4>1, <4>3 DEF KeptLines
    <3>2. CASE i \in (a + 1)..b
      <4>1. f[i].kind \notin {"header", "note"} /\ f[i].items = <<>>
        BY <1>5, <3>2
      <4> QED BY <4>1 DEF KeptLines
    <3> QED BY <1>51, <3>1, <3>2
  <2>2. KeptLines(e) = {}
    BY DEF KeptLines, e
  <2> QED BY <1>7, <2>1, <2>2, SpliceKept
<1>12. KeyLines(g) = {k} /\ HeaderBlock(g) = HeaderBlock(f)
  BY <1>6, <1>7, <1>9, SpliceKey
<1>13. HasHeader(f) => HasHeader(g)
  <2>1. \A i \in a..b : f[i].kind # "header"
    BY <1>3, <1>5, <1>51 DEF ItemKind, RowKind
  <2> QED BY <1>7, <2>1, SpliceHeader
<1>14. LinksOf(g) = RemoveAt(LinksOf(f), m)
  <2>1. \A i \in (a + 1)..b : i \notin LinkLines(f)
    BY <1>5 DEF LinkLines
  <2>2. Spliced(f, a, b, <<>>, g)
    BY <1>7 DEF e
  <2>3. at[m] = a
    OBVIOUS
  <2> HIDE DEF a
  <2> QED BY <1>1, <1>10, <1>62, <2>1, <2>2, <2>3, SpliceRemoves
<1>15. Orderly(g)
  BY <1>8, <1>10, <1>12 DEF Orderly
<1> QED BY <1>11, <1>12, <1>13, <1>14, <1>15 DEF g, b, e

---------------------------------------------------------------------------
(* The links of others. *)

\* The places in a list of the links of others, and what stands there.
Others(s, step) == {i \in DOMAIN s : s[i].by # step}

\* The links of others are what the list holds at their places.
LEMMA ForeignAre ==
  ASSUME NEW f, NEW step
  PROVE  ForeignLinks(f, step) = Taken(LinksOf(f), Others(LinksOf(f), step))
<1> DEFINE S == Others(LinksOf(f), step)
<1>1. ForeignLinks(f, step) = LET at == InOrder(S) IN [n \in DOMAIN at |-> LinksOf(f)[at[n]]]
  BY DEF ForeignLinks, Selected, Others
<1>2. DOMAIN InOrder(S) = 1..Cardinality(S)
  BY DEF InOrder
<1> QED BY <1>1, <1>2 DEF Taken

\* A link that is added or removed leaves those of others.
LEMMA ForeignOfAdded ==
  ASSUME NEW X, NEW s \in Seq(X), NEW l \in X
  PROVE  Taken(Append(s, l), Others(Append(s, l), l.by)) = Taken(s, Others(s, l.by))
<1> DEFINE t == Append(s, l)
           S == Others(s, l.by)
           T == Others(t, l.by)
           m == [i \in S |-> i]
<1>1. /\ t \in Seq(X) /\ Len(s) \in Nat /\ DOMAIN s = 1..Len(s)
      /\ DOMAIN t = 1..(Len(s) + 1)
      /\ \A i \in 1..Len(s) : t[i] = s[i]
      /\ t[Len(s) + 1] = l
  OBVIOUS
<1>2. T = S /\ S \in SUBSET DOMAIN s /\ T \in SUBSET DOMAIN t
  <2> HIDE DEF t
  <2> QED BY <1>1 DEF Others
<1>3. \A i \in S : i \in 1..Len(s)
  BY <1>1 DEF Others
<1> HIDE DEF S, T, t
<1>4. /\ m \in [S -> T] /\ \A i, j \in S : i < j => m[i] < m[j]
      /\ \A i \in T : \E j \in S : m[j] = i
      /\ \A i \in S : t[m[i]] = s[i]
  BY <1>1, <1>2, <1>3
<1> HIDE DEF m
<1>5. Taken(t, T) = Taken(s, S)
  BY <1>1, <1>2, <1>4, TakenMoved
<1> QED BY <1>5 DEF S, T, t

LEMMA ForeignOfRemoved ==
  ASSUME NEW X, NEW s \in Seq(X), NEW r \in 1..Len(s)
  PROVE  Taken(RemoveAt(s, r), Others(RemoveAt(s, r), s[r].by)) = Taken(s, Others(s, s[r].by))
<1> DEFINE t == RemoveAt(s, r)
           step == s[r].by
           S == Others(s, step)
           T == Others(t, step)
           m == [i \in S |-> IF i < r THEN i ELSE i - 1]
<1>1. /\ t \in Seq(X) /\ Len(s) \in Nat /\ DOMAIN s = 1..Len(s) /\ r \in 1..Len(s)
      /\ DOMAIN t = 1..(Len(s) - 1)
      /\ \A i \in 1..(Len(s) - 1) : t[i] = IF i < r THEN s[i] ELSE s[i + 1]
  <2>1. /\ t \in Seq(X) /\ Len(t) = Len(s) - 1
        /\ \A j \in 1..(Len(s) - 1) : t[j] = IF j < r THEN s[j] ELSE s[j + 1]
    BY RemoveAtProperties
  <2> HIDE DEF t
  <2> QED BY <2>1
<1> HIDE DEF t
<1>2. \A i \in S : i \in 1..Len(s) /\ i # r /\ s[i].by # step
  BY <1>1 DEF Others
<1>3. \A i \in 1..Len(s) : i \in S <=> s[i].by # step
  BY <1>1 DEF Others
<1>4. \A i \in 1..(Len(s) - 1) : i \in T <=> t[i].by # step
  BY <1>1 DEF Others
<1>5. /\ \A i \in T : i \in 1..(Len(s) - 1)
      /\ S \in SUBSET DOMAIN s /\ T \in SUBSET DOMAIN t
  BY <1>1 DEF Others
<1> HIDE DEF S, T, step
<1>6. ASSUME NEW i \in S PROVE m[i] \in T /\ t[m[i]] = s[i]
  <2>1. m[i] \in 1..(Len(s) - 1) /\ t[m[i]] = s[i]
    BY <1>1, <1>2
  <2> HIDE DEF m
  <2> QED BY <1>2, <1>4, <2>1
<1>7. \A i, j \in S : i < j => m[i] < m[j]
  BY <1>1, <1>2
<1>8. ASSUME NEW i \in T PROVE \E j \in S : m[j] = i
  <2>1. i \in 1..(Len(s) - 1) /\ t[i].by # step
    BY <1>4, <1>5
  <2>2. CASE i < r
    <3>1. i \in S
      BY <1>1, <1>3, <2>1, <2>2
    <3> QED BY <2>2, <3>1
  <2>3. CASE ~(i < r)
    <3>1. i + 1 \in 1..Len(s) /\ t[i] = s[i + 1] /\ ~(i + 1 < r) /\ (i + 1) - 1 = i
      BY <1>1, <2>1, <2>3
    <3>2. i + 1 \in S
      BY <1>3, <2>1, <3>1
    <3>3. m[i + 1] = i
      BY <3>1, <3>2
    <3> QED BY <3>2, <3>3
  <2> QED BY <2>2, <2>3
<1>9. m \in [S -> T]
  BY <1>6
<1> HIDE DEF m
<1>10. /\ \A i \in T : \E j \in S : m[j] = i
       /\ \A i \in S : t[m[i]] = s[i]
  BY <1>6, <1>8
<1>11. t \in Seq(X) /\ S \in SUBSET DOMAIN s /\ T \in SUBSET DOMAIN t
  BY <1>1, <1>5
<1>12. Taken(t, T) = Taken(s, S)
  BY <1>7, <1>9, <1>10, <1>11, TakenMoved
<1> QED BY <1>12 DEF S, T, t, step

---------------------------------------------------------------------------
(* The steps. *)

\* The inductive invariant: the layout, and who may be in the environment.
FileInv == Orderly(lines) /\ who \in Store!Identity \cup {NoOne}

\* The files a spec may start with have such a layout: one item per line below the key,
\* the unreadable ones last, and without a key one blank line at the end.
OrderlyFiles == \A f \in Files : Orderly(f)

\* What every step leaves: the layout, and while a step of the pipeline runs the rest of
\* the file.
FileStep ==
  /\ Orderly(lines')
  /\ who # NoOne => Kept(lines') = Kept(lines) /\ HeaderBlock(lines') = HeaderBlock(lines)

\* The links a step or a person writes are links.
LEMMA WrittenLinks ==
  ASSUME NEW c \in Calls
  PROVE  /\ c.from \in Id /\ c.rel \in Rel /\ c.to \in Id
         /\ \A s \in Step, r \in Run \cup {NoRun} :
              Store!Stamped([step |-> s, run |-> r], c.from, c.rel, c.to) \in Store!Link
         /\ \A w \in Store!Identity :
              Store!Stamped(w, c.from, c.rel, c.to) \in Store!Link
<1>1. c.from \in Id /\ c.rel \in Rel /\ c.to \in Id
  BY CallsAssumption
<1> QED BY <1>1 DEF Store!Stamped, Store!Link, Store!Identity, Store!Rel, Rel

\* trace_link add (traceLink, the branch that inserts a line).
LEMMA AddStep ==
  ASSUME FileInv, NEW c \in Calls, AddLink(c.from, c.rel, c.to)
  PROVE  FileStep /\ Store!AddLink(c.from, c.rel, c.to)
<1> DEFINE l == Store!Stamped(who, c.from, c.rel, c.to)
           g == Inserted(lines, l)
<1>1. /\ who # NoOne /\ Store!Addable(entry, who.step, c.from, c.rel, c.to)
      /\ Hits(lines, c.from, c.rel, c.to) = {} /\ Len(LinksOf(lines)) < MaxLinks
      /\ g # <<>> /\ Writable(g) /\ lines' = g /\ UNCHANGED <<entry, who>>
  BY DEF AddLink
<1>2. l \in Store!Link
  BY <1>1, WrittenLinks DEF FileInv
<1> HIDE DEF l
<1>3. Orderly(lines) /\ Parses(g)
  BY <1>1 DEF FileInv, Writable
<1>4. Orderly(g) /\ Kept(g) = Kept(lines) /\ HeaderBlock(g) = HeaderBlock(lines)
      /\ LinksOf(g) = Append(LinksOf(lines), l)
  BY <1>1, <1>2, <1>3, InsertedKeeps
<1> HIDE DEF g
<1>5. FileStep
  BY <1>1, <1>4 DEF FileStep
<1>6. Store!Holding(LinksOf(lines), c.from, c.rel, c.to) = {}
  <2>1. Tidy(lines)
    BY <1>3 DEF Orderly
  <2>2. PICK n \in Nat : \E at \in [1..n -> LinkLines(lines)] : Lists(at, LinkLines(lines), n)
    BY <2>1, LinksLie
  <2>3. PICK at \in [1..n -> LinkLines(lines)] : Lists(at, LinkLines(lines), n)
    BY <2>2
  <2>4. \A from, rel, to :
          Hits(lines, from, rel, to) = Store!Holding(LinksOf(lines), from, rel, to)
    BY <2>1, <2>3, LinksAre
  <2> QED BY <1>1, <2>4
<1>7. LinksOf(lines') = Append(LinksOf(lines), l)
  BY <1>1, <1>4
<1>8. Store!AddLink(c.from, c.rel, c.to)
  BY <1>1, <1>6, <1>7 DEF Store!AddLink, l
<1> QED BY <1>5, <1>8

\* trace_link remove (traceLink, the branch that removes the lines of the first hit).
LEMMA RemoveStep ==
  ASSUME FileInv, NEW c \in Calls, RemoveLink(c.from, c.rel, c.to)
  PROVE  FileStep /\ Store!RemoveLink(c.from, c.rel, c.to)
<1> DEFINE H == Hits(lines, c.from, c.rel, c.to)
           m == Min(H)
           hit == Spans(lines)[m]
           g == Removed(lines, hit)
<1>1. /\ who # NoOne /\ H # {} /\ hit.link.by = who.step
      /\ Writable(g) /\ lines' = g /\ UNCHANGED <<entry, who>>
  BY DEF RemoveLink
<1>2. Orderly(lines) /\ Tidy(lines)
  BY DEF FileInv, Orderly
<1>3. PICK n \in Nat : \E at \in [1..n -> LinkLines(lines)] : Lists(at, LinkLines(lines), n)
  BY <1>2, LinksLie
<1>4. PICK at \in [1..n -> LinkLines(lines)] : Lists(at, LinkLines(lines), n)
  BY <1>3
<1>5. /\ DOMAIN Spans(lines) = 1..n
      /\ \A k \in 1..n : /\ Spans(lines)[k].link = LinksOf(lines)[k]
                         /\ Spans(lines)[k].start = at[k]
                         /\ Spans(lines)[k].end = LineEnd(lines, at[k])
  BY <1>2, <1>4, LinksAre
<1>6. H = Store!Holding(LinksOf(lines), c.from, c.rel, c.to)
  BY <1>2, <1>4, LinksAre
<1>7. m \in H /\ m \in 1..n /\ \A j \in H : m <= j
  <2>1. H \in SUBSET (1..n)
    BY <1>5 DEF Hits
  <2>2. H \in SUBSET Nat
    BY <2>1
  <2> HIDE DEF H
  <2>3. \E i \in H : \A j \in H : i <= j
    BY <1>1, <2>2, Least
  <2>4. m \in H /\ \A j \in H : m <= j
    BY <2>3 DEF Min
  <2> QED BY <2>1, <2>4
<1> HIDE DEF m, H
<1>8. g = Splice(lines, at[m], LineEnd(lines, at[m]), <<>>)
  BY <1>5, <1>7 DEF Removed
<1>9. Parses(g)
  BY <1>1 DEF Writable
<1>10. /\ Orderly(g) /\ Kept(g) = Kept(lines) /\ HeaderBlock(g) = HeaderBlock(lines)
       /\ LinksOf(g) = RemoveAt(LinksOf(lines), m)
  <2> DEFINE h == Splice(lines, at[m], LineEnd(lines, at[m]), <<>>)
  <2>1. Parses(h)
    BY <1>8, <1>9
  <2>2. /\ Orderly(h) /\ Kept(h) = Kept(lines) /\ HeaderBlock(h) = HeaderBlock(lines)
        /\ LinksOf(h) = RemoveAt(LinksOf(lines), m)
    BY <1>2, <1>4, <1>7, <2>1, RemovedKeeps
  <2> HIDE DEF g
  <2> QED BY <1>8, <2>2
<1> HIDE DEF g
<1>11. FileStep
  BY <1>1, <1>10 DEF FileStep
<1>12. LinksOf(lines') = RemoveAt(LinksOf(lines), m) /\ LinksOf(lines)[m].by = who.step
  BY <1>1, <1>5, <1>7, <1>10
<1>13. Store!RemoveLink(c.from, c.rel, c.to)
  BY <1>1, <1>6, <1>7, <1>12 DEF Store!RemoveLink, RemoveAt, Store!RemoveAt
<1> QED BY <1>11, <1>13

\* A person writes a link below the others.
LEMMA HumanAddStep ==
  ASSUME FileInv, NEW l \in HumanLinks, HumanAdd(l)
  PROVE  FileStep /\ Store!HumanAdd(l)
<1> DEFINE g == Inserted(lines, l)
<1>1. /\ who = NoOne /\ Spans(lines) # <<>> /\ ~FlowLinks(lines)
      /\ Len(LinksOf(lines)) < MaxLinks /\ lines' = g /\ UNCHANGED <<entry, who>>
  BY DEF HumanAdd
<1>2. Orderly(lines) /\ Tidy(lines) /\ Parses(lines) /\ l \in Store!Link
  BY HumanLinksAssumption DEF FileInv, Orderly
<1>3. KeyLines(lines) # {}
  <2>1. PICK n \in Nat : \E at \in [1..n -> LinkLines(lines)] : Lists(at, LinkLines(lines), n)
    BY <1>2, LinksLie
  <2>2. PICK at \in [1..n -> LinkLines(lines)] : Lists(at, LinkLines(lines), n)
    BY <2>1
  <2>3. /\ Len(Spans(lines)) = n /\ \A k \in 1..n : at[k] \in LinkLines(lines)
        /\ Spans(lines) \in Seq([link : Store!Link, start : Nat, end : Nat])
    BY <1>2, <2>2, LinksAre
  <2>4. 1 \in 1..n
    BY <1>1, <2>3
  <2>5. at[1] \in ItemLines(lines)
    BY <2>3, <2>4, TidyLine, <1>2
  <2>6. PICK k \in 1..(at[1] - 1) : KeyLines(lines) = {k}
    BY <1>2, <2>5, ItemsBelowKey
  <2> QED BY <2>6
<1>4. /\ Tidy(g) /\ Parses(g) /\ KeyLines(g) # {}
      /\ HasHeader(lines) => HasHeader(g)
      /\ LinksOf(g) = Append(LinksOf(lines), l)
  BY <1>1, <1>2, <1>3, BlockGrown
<1> HIDE DEF g
<1>5. FileStep
  BY <1>1, <1>4 DEF FileStep, Orderly, Writable
<1>6. Store!HumanAdd(l)
  BY <1>1, <1>4 DEF Store!HumanAdd
<1> QED BY <1>5, <1>6

\* A person deletes the lines of a link.
LEMMA HumanDropStep ==
  ASSUME FileInv, NEW m \in DOMAIN Parsed(lines), HumanDrop(m)
  PROVE  FileStep /\ m \in DOMAIN LinksOf(lines) /\ Store!HumanDrop(m)
<1>1. Orderly(lines) /\ Tidy(lines)
  BY DEF FileInv, Orderly
<1>2. PICK n \in Nat : \E at \in [1..n -> LinkLines(lines)] : Lists(at, LinkLines(lines), n)
  BY <1>1, LinksLie
<1>3. PICK at \in [1..n -> LinkLines(lines)] : Lists(at, LinkLines(lines), n)
  BY <1>2
<1>4. /\ DOMAIN Parsed(lines) = 1..n /\ DOMAIN LinksOf(lines) = 1..n
      /\ \A k \in 1..n : Parsed(lines)[k].line = at[k]
  <2>1. /\ DOMAIN Parsed(lines) = 1..n
        /\ \A k \in 1..n :
             Parsed(lines)[k] = [item |-> lines[at[k]].items[1], line |-> at[k]]
    BY <1>1, <1>3, ReadsAs
  <2>2. DOMAIN LinksOf(lines) = 1..n
    BY <1>1, <1>3, LinksAre
  <2> QED BY <2>1, <2>2
<1> DEFINE g == Splice(lines, at[m], LineEnd(lines, at[m]), <<>>)
<1>5. m \in 1..n /\ who = NoOne /\ ~FlowLinks(lines) /\ lines' = g /\ UNCHANGED <<entry, who>>
  BY <1>4 DEF HumanDrop
<1>6. /\ Orderly(g) /\ LinksOf(g) = RemoveAt(LinksOf(lines), m)
      /\ HasHeader(lines) => HasHeader(g)
  BY <1>1, <1>3, <1>5, RemovedKeeps
<1> HIDE DEF g
<1>7. FileStep
  BY <1>5, <1>6 DEF FileStep, Orderly, Writable
<1>8. Store!HumanDrop(m)
  BY <1>5, <1>6 DEF Store!HumanDrop, RemoveAt, Store!RemoveAt
<1> QED BY <1>4, <1>5, <1>7, <1>8

\* Every step keeps the invariant, is a step of the list, and leaves the rest of the file.
LEMMA Steps ==
  ASSUME FileInv, [Next]_vars
  PROVE  /\ FileInv' /\ FileStep
         /\ [Store!Next]_(Store!storeVars)
<1>1. CASE UNCHANGED vars
  BY <1>1 DEF vars, FileInv, FileStep, Store!storeVars, Store!Identity
<1>2. ASSUME NEW s \in Step, NEW r \in Run, BeginStep(s, r)
      PROVE  FileInv' /\ FileStep /\ Store!Next
  BY <1>2 DEF BeginStep, Store!BeginStep, FileInv, FileStep, Store!Next, Store!Identity
<1>3. CASE EndStep
  BY <1>3 DEF EndStep, Store!EndStep, FileInv, FileStep, Store!Next, Store!Identity
<1>4. ASSUME NEW c \in Calls, AddLink(c.from, c.rel, c.to)
      PROVE  FileInv' /\ FileStep /\ Store!Next
  <2>1. FileStep /\ Store!AddLink(c.from, c.rel, c.to)
    BY <1>4, AddStep
  <2>2. who' = who
    BY <1>4 DEF AddLink
  <2>3. Store!Next
    BY <2>1 DEF Store!Next
  <2> QED BY <2>1, <2>2, <2>3 DEF FileInv, FileStep, Store!Identity
<1>5. ASSUME NEW c \in Calls, RemoveLink(c.from, c.rel, c.to)
      PROVE  FileInv' /\ FileStep /\ Store!Next
  <2>1. FileStep /\ Store!RemoveLink(c.from, c.rel, c.to)
    BY <1>5, RemoveStep
  <2>2. who' = who
    BY <1>5 DEF RemoveLink
  <2>3. Store!Next
    BY <2>1 DEF Store!Next
  <2> QED BY <2>1, <2>2, <2>3 DEF FileInv, FileStep, Store!Identity
<1>6. ASSUME NEW id \in Editable, NEW res \in Resolution, EditBlock(id, res)
      PROVE  FileInv' /\ FileStep /\ Store!Next
  <2>1. id \in Id /\ res \in Store!Resolution
    BY EditableAssumption DEF Resolution, Store!Resolution
  <2>2. Store!EditBlock(id, res) /\ who' = who /\ lines' = lines
    BY <1>6 DEF EditBlock, Store!EditBlock
  <2>3. Store!Next
    BY <2>1, <2>2 DEF Store!Next
  <2> QED BY <2>2, <2>3 DEF FileInv, FileStep, Store!Identity
<1>7. ASSUME NEW l \in HumanLinks, HumanAdd(l)
      PROVE  FileInv' /\ FileStep /\ Store!Next
  <2>1. FileStep /\ Store!HumanAdd(l)
    BY <1>7, HumanAddStep
  <2>2. who' = who
    BY <1>7 DEF HumanAdd
  <2>3. Store!Next
    BY <2>1 DEF Store!Next
  <2> QED BY <2>1, <2>2, <2>3 DEF FileInv, FileStep, Store!Identity
<1>8. ASSUME NEW m \in DOMAIN Parsed(lines), HumanDrop(m)
      PROVE  FileInv' /\ FileStep /\ Store!Next
  <2>1. FileStep /\ m \in DOMAIN LinksOf(lines) /\ Store!HumanDrop(m)
    BY <1>8, HumanDropStep
  <2>2. who' = who
    BY <1>8 DEF HumanDrop
  <2>3. Store!Next
    BY <2>1 DEF Store!Next
  <2> QED BY <2>1, <2>2, <2>3 DEF FileInv, FileStep, Store!Identity
<1> QED BY <1>1, <1>2, <1>3, <1>4, <1>5, <1>6, <1>7, <1>8 DEF Next

\* The links of others stay, in their order, through every call of the tool.
LEMMA ForeignStep ==
  ASSUME FileInv, [Next]_vars, who # NoOne
  PROVE  ForeignLinks(lines', who.step) = ForeignLinks(lines, who.step)
<1> DEFINE L == LinksOf(lines)
<1>1. who \in Store!Identity /\ Tidy(lines)
  BY DEF FileInv, Orderly
<1>2. L \in Seq(Store!Link)
  <2>1. PICK n \in Nat : \E at \in [1..n -> LinkLines(lines)] : Lists(at, LinkLines(lines), n)
    BY <1>1, LinksLie
  <2>2. PICK at \in [1..n -> LinkLines(lines)] : Lists(at, LinkLines(lines), n)
    BY <2>1
  <2> QED BY <1>1, <2>2, LinksAre
<1>3. CASE lines' = lines
  BY <1>3
<1>4. ASSUME NEW c \in Calls, AddLink(c.from, c.rel, c.to)
      PROVE  ForeignLinks(lines', who.step) = ForeignLinks(lines, who.step)
  <2> DEFINE l == Store!Stamped(who, c.from, c.rel, c.to)
  <2>1. LinksOf(lines') = Append(L, l)
    BY <1>4, AddStep DEF Store!AddLink
  <2>2. l \in Store!Link /\ l.by = who.step
    BY <1>1, WrittenLinks DEF Store!Stamped
  <2> HIDE DEF l
  <2>3. Taken(Append(L, l), Others(Append(L, l), l.by)) = Taken(L, Others(L, l.by))
    BY <1>2, <2>2, ForeignOfAdded
  <2> QED BY <2>1, <2>2, <2>3, ForeignAre
<1>5. ASSUME NEW c \in Calls, RemoveLink(c.from, c.rel, c.to)
      PROVE  ForeignLinks(lines', who.step) = ForeignLinks(lines, who.step)
  <2>1. Store!RemoveLink(c.from, c.rel, c.to)
    BY <1>5, RemoveStep
  <2>2. PICK r \in DOMAIN L : L[r].by = who.step /\ LinksOf(lines') = RemoveAt(L, r)
    BY <2>1 DEF Store!RemoveLink, Store!Holding, Store!RemoveAt, RemoveAt
  <2>3. r \in 1..Len(L)
    BY <1>2, <2>2
  <2>4. Taken(RemoveAt(L, r), Others(RemoveAt(L, r), L[r].by)) = Taken(L, Others(L, L[r].by))
    BY <1>2, <2>3, ForeignOfRemoved
  <2> QED BY <2>2, <2>4, ForeignAre
<1> QED BY <1>3, <1>4, <1>5 DEF Next, vars, BeginStep, EndStep, EditBlock, HumanAdd, HumanDrop
\* The layout and the identity, in every state.
LEMMA FileInvHolds ==
  ASSUME OrderlyFiles
  PROVE  Spec => []FileInv
<1>1. Init => FileInv
  BY OrderlyFiles DEF Init, FileInv, OrderlyFiles
<1>2. FileInv /\ [Next]_vars => FileInv'
  BY Steps
<1> QED BY <1>1, <1>2, PTL DEF Spec

\* Every file the tool and people make of such a file has each link on lines of its own, in
\* the order of the list, so that locate finds the lines of the link it is asked for.
THEOREM LayoutKeptHolds ==
  ASSUME OrderlyFiles
  PROVE  Spec => []LayoutKept
<1>1. FileInv => LayoutKept
  BY DEF FileInv, LayoutKept
<1> QED BY <1>1, FileInvHolds, PTL

\* Every call of trace_link and every edit of a person on the text is one on the list of
\* LinkStore: what traceLink splices is exactly the link it means.
THEOREM ImplementsLinkStoreHolds ==
  ASSUME OrderlyFiles
  PROVE  Spec => ImplementsLinkStore
<1>1. FileInv /\ [Next]_vars => [Store!Next]_(Store!storeVars)
  BY Steps
<1> QED BY <1>1, FileInvHolds, PTL DEF Spec, ImplementsLinkStore

\* While a step runs, the header, the comments and the items the tool cannot read stay as
\* they are, in their order, for a file of any length.
THEOREM OtherLinesKeptHolds ==
  ASSUME OrderlyFiles
  PROVE  Spec => OtherLinesKept
<1>1. FileInv /\ [Next]_vars => [who # NoOne => Kept(lines') = Kept(lines)]_vars
  BY Steps DEF FileStep
<1> QED BY <1>1, FileInvHolds, PTL DEF Spec, OtherLinesKept

\* While a step runs, headerBlock reads the same header: a call of the tool never makes
\* run.ts report a header that changed.
THEOREM HeaderBlockKeptHolds ==
  ASSUME OrderlyFiles
  PROVE  Spec => HeaderBlockKept
<1>1. FileInv /\ [Next]_vars => [who # NoOne => HeaderBlock(lines') = HeaderBlock(lines)]_vars
  BY Steps DEF FileStep
<1> QED BY <1>1, FileInvHolds, PTL DEF Spec, HeaderBlockKept

\* From such files, whatever a step does with the tool, the links of people and of other
\* steps stay, in their order ("Refuses ... removing another step's or a human's link"):
\* only a list with several links on a line loses them.
THEOREM ForeignLinksKeptHolds ==
  ASSUME OrderlyFiles
  PROVE  Spec => ForeignLinksKept
<1>1. FileInv /\ [Next]_vars
        => [who # NoOne => ForeignLinks(lines', who.step) = ForeignLinks(lines, who.step)]_vars
  BY ForeignStep
<1> QED BY <1>1, FileInvHolds, PTL DEF Spec, ForeignLinksKept

\* No call of the tool can make a text that YAML rejects, or one without its header, out of
\* a file it can read, but for a flow list spread over several lines: what write checks
\* before it stores the text never fails.
THEOREM SplicesReadableHolds ==
  ASSUME OrderlyFiles
  PROVE  Spec => []SplicesReadable
<1>1. FileInv => SplicesReadable
  <2> SUFFICES ASSUME FileInv, Writable(lines),
                      \A i \in KeyLines(lines) : lines[i].kind # "flow["
               PROVE  /\ \A c \in Calls, s \in Step :
                           LET l == Store!Stamped([step |-> s, run |-> NoRun], c.from, c.rel, c.to)
                           IN  Writable(Inserted(lines, l))
                      /\ \A m \in DOMAIN Spans(lines) : Writable(Removed(lines, Spans(lines)[m]))
    BY DEF SplicesReadable
  <2>1. Orderly(lines) /\ Tidy(lines) /\ Parses(lines) /\ HasHeader(lines)
    BY DEF FileInv, Orderly, Writable
  <2>2. ASSUME NEW c \in Calls, NEW s \in Step
        PROVE  LET l == Store!Stamped([step |-> s, run |-> NoRun], c.from, c.rel, c.to)
               IN  Writable(Inserted(lines, l))
    <3> DEFINE l == Store!Stamped([step |-> s, run |-> NoRun], c.from, c.rel, c.to)
    <3>1. l \in Store!Link
      BY WrittenLinks
    <3> HIDE DEF l
    <3>2. Writable(Inserted(lines, l))
      BY <2>1, <3>1, InsertedReads
    <3> QED BY <3>2 DEF l
  <2>3. ASSUME NEW m \in DOMAIN Spans(lines)
        PROVE  Writable(Removed(lines, Spans(lines)[m]))
    <3>1. PICK n \in Nat : \E at \in [1..n -> LinkLines(lines)] : Lists(at, LinkLines(lines), n)
      BY <2>1, LinksLie
    <3>2. PICK at \in [1..n -> LinkLines(lines)] : Lists(at, LinkLines(lines), n)
      BY <3>1
    <3>3. /\ m \in 1..n /\ Spans(lines)[m].start = at[m] /\ at[m] \in LinkLines(lines)
          /\ Spans(lines)[m].end = LineEnd(lines, at[m])
      BY <2>1, <3>2, LinksAre
    <3> DEFINE g == Splice(lines, at[m], LineEnd(lines, at[m]), <<>>)
    <3>4. ~FlowLinks(lines)
      <4>1. PICK k \in 1..(at[m] - 1) : KeyLines(lines) = {k} /\ lines[k].kind \in {"links", "flow["}
        BY <2>1, <3>3, TidyLine, ItemsBelowKey
      <4> QED BY <4>1 DEF FlowLinks
    <3>5. Orderly(g) /\ (HasHeader(lines) => HasHeader(g))
      BY <2>1, <3>2, <3>3, <3>4, RemovedKeeps
    <3>6. Removed(lines, Spans(lines)[m]) = g
      BY <3>3 DEF Removed
    <3> HIDE DEF g
    <3> QED BY <2>1, <3>5, <3>6 DEF Writable, Orderly
  <2> QED BY <2>2, <2>3
<1> QED BY <1>1, FileInvHolds, PTL

\* Removing a link that was just added gives back the file, line by line.
THEOREM RoundTripHolds ==
  ASSUME OrderlyFiles
  PROVE  Spec => []RoundTrip
<1>1. FileInv => RoundTrip
  <2> SUFFICES ASSUME FileInv, NEW c \in Calls, NEW s \in Step,
                      KeyLines(lines) # {}, ~FlowLinks(lines),
                      Hits(lines, c.from, c.rel, c.to) = {}
               PROVE  LET l == Store!Stamped([step |-> s, run |-> NoRun], c.from, c.rel, c.to)
                          added == Inserted(lines, l)
                          hit == Spans(added)[Min(Hits(added, c.from, c.rel, c.to))]
                      IN  Removed(added, hit) = lines
    BY DEF RoundTrip
  <2> DEFINE l == Store!Stamped([step |-> s, run |-> NoRun], c.from, c.rel, c.to)
             g == Inserted(lines, l)
             H == Hits(g, c.from, c.rel, c.to)
  <2>1. l \in Store!Link
    BY WrittenLinks
  <2>2. l.from = c.from /\ l.rel = c.rel /\ l.to = c.to
    BY DEF Store!Stamped
  <2> HIDE DEF l
  <2>3. Orderly(lines) /\ Tidy(lines) /\ Parses(lines)
    BY DEF FileInv, Orderly
  <2>4. PICK n \in Nat : \E at \in [1..n -> LinkLines(lines)] : Lists(at, LinkLines(lines), n)
    BY <2>3, LinksLie
  <2>5. PICK at \in [1..n -> LinkLines(lines)] : Lists(at, LinkLines(lines), n)
    BY <2>4
  <2>6. /\ Len(LinksOf(lines)) = n /\ DOMAIN LinksOf(lines) = 1..n
        /\ LinksOf(lines) \in Seq(Store!Link)
        /\ Hits(lines, c.from, c.rel, c.to) = Store!Holding(LinksOf(lines), c.from, c.rel, c.to)
    BY <2>3, <2>5, LinksAre
  <2>7. /\ Tidy(g) /\ LinksOf(g) = Append(LinksOf(lines), l)
        /\ Removed(g, Spans(g)[n + 1]) = lines
    <3>1. LET last == Spans(g)[Len(LinksOf(lines)) + 1] IN Removed(g, last) = lines
      BY <2>1, <2>3, BlockGrown
    <3>2. Tidy(g) /\ LinksOf(g) = Append(LinksOf(lines), l)
      BY <2>1, <2>3, BlockGrown
    <3> QED BY <2>6, <3>1, <3>2
  <2> HIDE DEF g
  <2>8. PICK n2 \in Nat : \E spots \in [1..n2 -> LinkLines(g)] : Lists(spots, LinkLines(g), n2)
    BY <2>7, LinksLie
  <2>9. PICK spots \in [1..n2 -> LinkLines(g)] : Lists(spots, LinkLines(g), n2)
    BY <2>8
  <2>10. H = Store!Holding(LinksOf(g), c.from, c.rel, c.to)
    <3>1. \A from, rel, to : Hits(g, from, rel, to) = Store!Holding(LinksOf(g), from, rel, to)
      BY <2>7, <2>9, LinksAre
    <3> QED BY <3>1
  <2>11. \A i \in 1..n : ~Store!SameLink(LinksOf(lines)[i], c.from, c.rel, c.to)
    BY <2>6 DEF Store!Holding
  <2>12. /\ DOMAIN LinksOf(g) = 1..(n + 1) /\ LinksOf(g)[n + 1] = l
         /\ \A i \in 1..n : LinksOf(g)[i] = LinksOf(lines)[i]
    BY <2>1, <2>6, <2>7
  <2>13. Store!SameLink(l, c.from, c.rel, c.to)
    BY <2>2 DEF Store!SameLink
  <2>14. \A i \in H : i = n + 1
    BY <2>10, <2>11, <2>12 DEF Store!Holding
  <2>15. n + 1 \in H
    BY <2>10, <2>12, <2>13 DEF Store!Holding
  <2> HIDE DEF H
  <2>16. Min(H) = n + 1
    BY <2>14, <2>15 DEF Min
  <2>17. Removed(g, Spans(g)[Min(H)]) = lines
    BY <2>7, <2>16
  <2> QED BY <2>17 DEF g, H, l
<1> QED BY <1>1, FileInvHolds, PTL
=============================================================================
