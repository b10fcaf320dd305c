------------------------------ MODULE Pins_proofs ------------------------------
(***************************************************************************)
(* The pins of main, for any artifacts, upstreams, versions and branches.  *)
(* A rule sees the tree and the tip of main; what makes its verdict hold   *)
(* after the merge is how far main, the base and the tree can drift apart. *)
(***************************************************************************)
EXTENDS Pins, TLAPS

File == Header \cup {NoFile}

TypeOK ==
  /\ main \in [Artifacts -> File] /\ base \in [Artifacts -> File]
  /\ tree \in [Artifacts -> File]
  /\ kb \in Nat \ {0}
  /\ gitOk \in BOOLEAN

\* main moves away from a branch only by artifacts without pins, and upwards; the branch
\* writes versions above those it began with; what is on main was approved.
Moved(a) == main[a] = base[a] \/ (main[a] # NoFile /\ \A k \in Keys : main[a].pins[k] = NoPin)
Upwards(a) ==
  /\ versionOf(base[a]) <= versionOf(main[a])
  /\ tree[a] # NoFile => versionOf(base[a]) <= versionOf(tree[a])
  /\ main[a] # NoFile => main[a].status = "approved"
IInv == TypeOK /\ PinsResolveOnMain /\ \A a \in Artifacts : Moved(a) /\ Upwards(a)

\* versionOf tells a file that is there from one that is not.
LEMMA Versions ==
  ASSUME NEW f \in File
  PROVE  /\ versionOf(f) \in Nat
         /\ f # NoFile => f \in Header /\ versionOf(f) = f.version /\ versionOf(f) # 0
         /\ f = NoFile => versionOf(f) = 0
<1> QED BY NoFileAssumption DEF File, Header, versionOf

\* At first nothing is there.
LEMMA InitIInv == Init => IInv
<1> SUFFICES ASSUME Init PROVE IInv
  OBVIOUS
<1>1. TypeOK
  BY DEF Init, TypeOK, File
<1>2. \A a \in Artifacts : main[a] = NoFile /\ base[a] = NoFile /\ tree[a] = NoFile
  BY DEF Init
<1>3. \A a \in Artifacts : Moved(a) /\ Upwards(a)
  <2>1. \A a \in Artifacts : versionOf(main[a]) = 0 /\ versionOf(base[a]) = 0
    BY <1>2, Versions DEF File
  <2> SUFFICES ASSUME NEW a \in Artifacts PROVE Moved(a) /\ Upwards(a)
    OBVIOUS
  <2>2. main[a] = base[a] /\ tree[a] = NoFile /\ main[a] = NoFile
    BY <1>2
  <2>3. 0 <= 0
    OBVIOUS
  <2> QED BY <2>1, <2>2, <2>3 DEF Moved, Upwards
<1> QED BY <1>1, <1>2, <1>3 DEF IInv, PinsResolveOnMain

\* What a step writes is an artifact with a version above that of the base.
LEMMA WriteTypes ==
  ASSUME TypeOK, NEW a \in Artifacts, Write(a)
  PROVE  /\ tree' \in [Artifacts -> File]
         /\ tree'[a] # NoFile /\ versionOf(tree'[a]) = versionOf(base[a]) + 1
         /\ \A b \in Artifacts \ {a} : tree'[b] = tree[b]
<1>1. PICK uses, fresh, kept :
        /\ uses \in SUBSET Contexts
        /\ tree' = [tree EXCEPT ![a] =
             [version |-> versionOf(base[a]) + 1, status |-> "draft", uses |-> uses,
              pins |-> Pinned(a, fresh, kept)]]
  <2>1. PICK uses \in SUBSET (IF a = "design" THEN Contexts ELSE {}) :
          \E fresh, kept :
            tree' = [tree EXCEPT ![a] =
              [version |-> versionOf(base[a]) + 1, status |-> "draft", uses |-> uses,
               pins |-> Pinned(a, fresh, kept)]]
    BY Zenon DEF Write
  <2>2. uses \in SUBSET Contexts
    BY <2>1
  <2> QED BY <2>1, <2>2
<1> DEFINE p == Pinned(a, fresh, kept)
<1>0. p \in [Keys -> Nat]
  <2>1. \A k \in Keys : Cur(k) \in Nat
    BY Versions DEF TypeOK, Cur, Keys
  <2>2. tree[a] # NoFile => tree[a].pins \in [Keys -> Nat]
    BY DEF TypeOK, File, Header
  <2> QED BY <2>1, <2>2 DEF Pinned, NoPin
<1> HIDE DEF p
<1>2. versionOf(base[a]) \in Nat
  BY Versions DEF TypeOK
<1> DEFINE f == [version |-> versionOf(base[a]) + 1, status |-> "draft", uses |-> uses, pins |-> p]
<1>3. f \in Header /\ f.version = versionOf(base[a]) + 1
  BY <1>0, <1>1, <1>2 DEF Header
<1>4. f \in File /\ f # NoFile
  BY <1>3, NoFileAssumption DEF File
<1>5. tree' = [tree EXCEPT ![a] = f]
  BY <1>1 DEF p
<1> HIDE DEF f
<1>6. tree \in [Artifacts -> File]
  BY DEF TypeOK
<1>7. tree' \in [Artifacts -> File] /\ tree'[a] = f /\ \A b \in Artifacts \ {a} : tree'[b] = tree[b]
  BY <1>4, <1>5, <1>6
<1> QED BY <1>3, <1>4, <1>7 DEF versionOf

\* The base and main stand still, one artifact of the branch changes, and not downwards.
LEMMA BranchMoves ==
  ASSUME IInv, UNCHANGED <<main, base, kb, gitOk>>, NEW a \in Artifacts,
         tree' \in [Artifacts -> File], \A b \in Artifacts \ {a} : tree'[b] = tree[b],
         tree'[a] # NoFile => versionOf(base[a]) <= versionOf(tree'[a])
  PROVE  IInv'
<1>1. TypeOK' /\ PinsResolveOnMain'
  BY DEF IInv, TypeOK, PinsResolveOnMain, Latest
<1>2. ASSUME NEW b \in Artifacts PROVE Moved(b)' /\ Upwards(b)'
  <2>1. Moved(b) /\ Upwards(b)
    BY DEF IInv
  <2>2. Moved(b)'
    BY <2>1 DEF Moved
  <2>3. CASE b = a
    BY <2>1, <2>2, <2>3 DEF Upwards
  <2>4. CASE b # a
    BY <2>1, <2>2, <2>4 DEF Upwards
  <2> QED BY <2>2, <2>3, <2>4
<1> QED BY <1>1, <1>2 DEF IInv

\* A step writes a version above that of the base.
LEMMA WriteIInv == ASSUME IInv, NEW a \in Artifacts, Write(a) PROVE IInv'
<1>1. TypeOK /\ UNCHANGED <<main, base, kb, gitOk>>
  BY DEF IInv, Write
<1>2. versionOf(base[a]) \in Nat
  BY <1>1, Versions DEF TypeOK
<1> QED BY <1>1, <1>2, WriteTypes, BranchMoves

\* A file that is reverted is at the version of the base.
LEMMA DropIInv == ASSUME IInv, NEW a \in Artifacts, Drop(a) PROVE IInv'
<1>1. PICK f \in {base[a], NoFile} : tree' = [tree EXCEPT ![a] = f]
  BY DEF Drop
<1>2. base[a] \in File /\ tree \in [Artifacts -> File] /\ NoFile \in File
  BY DEF IInv, TypeOK, File
<1>3. tree' \in [Artifacts -> File] /\ tree'[a] = f /\ \A b \in Artifacts \ {a} : tree'[b] = tree[b]
  BY <1>1, <1>2
<1>4. versionOf(base[a]) \in Nat
  BY <1>2, Versions
<1>5. f # NoFile => versionOf(base[a]) <= versionOf(tree'[a])
  BY <1>1, <1>3, <1>4
<1> QED BY <1>3, <1>5, BranchMoves DEF Drop

\* The base comes up to main, and with it what the branch has not touched.
LEMMA RebaseIInv == ASSUME IInv, Rebase PROVE IInv'
<1>1. TypeOK /\ PinsResolveOnMain /\ Mergeable
      /\ main' = main /\ base' = main /\ kb' = kb /\ gitOk' = gitOk
  BY DEF IInv, Rebase
<1>2. TypeOK'
  BY <1>1 DEF TypeOK, Rebase
<1>3. PinsResolveOnMain'
  BY <1>1 DEF PinsResolveOnMain, Latest
<1>4. ASSUME NEW b \in Artifacts PROVE Moved(b)' /\ Upwards(b)'
  <2>1. Upwards(b) /\ versionOf(main[b]) \in Nat
    BY <1>1, Versions DEF IInv, TypeOK
  <2>2. tree'[b] = IF b \in Touched THEN tree[b] ELSE main[b]
    BY DEF Rebase
  <2>3. b \in Touched => main[b] = base[b]
    BY <1>1 DEF Mergeable
  <2>4. tree'[b] # NoFile => versionOf(main[b]) <= versionOf(tree'[b])
    BY <2>1, <2>2, <2>3 DEF Upwards
  <2>5. Moved(b)'
    BY <1>1 DEF Moved
  <2>6. Upwards(b)'
    BY <1>1, <2>1, <2>4 DEF Upwards
  <2> QED BY <2>5, <2>6
<1> QED BY <1>2, <1>3, <1>4 DEF IInv

\* Another spec brings a version on, and pins nothing of this one.
LEMMA OtherMergeIInv == ASSUME IInv, NEW a \in Artifacts, OtherMerge(a) PROVE IInv'
<1> DEFINE f == [version |-> versionOf(main[a]) + 1, status |-> "approved", uses |-> {},
                 pins |-> [k \in Keys |-> NoPin]]
<1>1. TypeOK /\ PinsResolveOnMain /\ UNCHANGED <<base, tree, kb, gitOk>>
  BY DEF IInv, OtherMerge
<1>2. versionOf(main[a]) \in Nat
  BY <1>1, Versions DEF TypeOK
<1>3. f \in Header /\ f.version = versionOf(main[a]) + 1 /\ f.status = "approved"
      /\ \A k \in Keys : f.pins[k] = NoPin
  BY <1>2 DEF Header, NoPin
<1>4. f \in File /\ f # NoFile
  BY <1>3, NoFileAssumption DEF File
<1>5. main' = [main EXCEPT ![a] = f]
  BY DEF OtherMerge
<1> HIDE DEF f
<1>6. main' \in [Artifacts -> File] /\ main'[a] = f /\ \A b \in Artifacts \ {a} : main'[b] = main[b]
  BY <1>1, <1>4, <1>5 DEF TypeOK
<1>7. TypeOK'
  BY <1>1, <1>6 DEF TypeOK
<1>8. versionOf(main'[a]) = versionOf(main[a]) + 1
  BY <1>3, <1>4, <1>6 DEF versionOf
<1>9. \A k \in Keys : Latest(k) \in Nat /\ Latest(k)' \in Nat /\ Latest(k) <= Latest(k)'
  <2> SUFFICES ASSUME NEW k \in Keys
               PROVE  Latest(k) \in Nat /\ Latest(k)' \in Nat /\ Latest(k) <= Latest(k)'
    OBVIOUS
  <2>1. CASE k = Constitution
    BY <1>1, <2>1 DEF Latest, TypeOK
  <2>2. CASE k = a /\ k # Constitution
    BY <1>2, <1>8, <2>2 DEF Latest
  <2>3. CASE k # a /\ k # Constitution
    BY <1>1, <1>6, <2>3, Versions DEF Latest, TypeOK, Keys
  <2> QED BY <2>1, <2>2, <2>3
<1>10. PinsResolveOnMain'
  <2> SUFFICES ASSUME NEW b \in Artifacts, main'[b] # NoFile, NEW k \in Keys
               PROVE  main'[b].pins[k] <= Latest(k)'
    BY DEF PinsResolveOnMain
  <2>1. CASE b = a
    BY <1>3, <1>6, <1>9, <2>1 DEF NoPin
  <2>2. CASE b # a
    <3>1. main[b] # NoFile /\ main'[b] = main[b]
      BY <1>6, <2>2
    <3>2. main[b].pins[k] \in Nat
      BY <1>1, <3>1 DEF TypeOK, File, Header
    <3> QED BY <1>1, <1>9, <3>1, <3>2 DEF PinsResolveOnMain
  <2> QED BY <2>1, <2>2
<1>11. ASSUME NEW b \in Artifacts PROVE Moved(b)' /\ Upwards(b)'
  <2>1. Moved(b) /\ Upwards(b) /\ versionOf(base[b]) \in Nat
    BY <1>1, Versions DEF IInv, TypeOK
  <2>2. CASE b = a
    <3>1. Moved(b)'
      BY <1>3, <1>4, <1>6, <2>2 DEF Moved
    <3>2. Upwards(b)'
      BY <1>1, <1>2, <1>3, <1>6, <1>8, <2>1, <2>2 DEF Upwards
    <3> QED BY <3>1, <3>2
  <2>3. CASE b # a
    BY <1>1, <1>6, <2>1, <2>3 DEF Moved, Upwards
  <2> QED BY <2>2, <2>3
<1> QED BY <1>7, <1>10, <1>11 DEF IInv


\* What a merge reads off the rules: a pin of the branch names a version of something that is
\* there, on the branch or on main, and no newer one is approved.
LEMMA PinsOfMerge ==
  ASSUME IInv, ~H3, ~H4, NEW a \in Artifacts, tree[a] # NoFile,
         NEW k \in Keys, tree[a].pins[k] # NoPin
  PROVE  /\ There(k) /\ tree[a].pins[k] \in Existing(k)
         /\ ~NewerApproved(k, tree[a].pins[k])
<1>1. a \in Located /\ k \in pins(a)
  BY DEF Located, pins
<1>2. Resolves(k, tree[a].pins[k])
  BY <1>1 DEF H3
<1>3. ~NewerApproved(k, tree[a].pins[k])
  BY <1>1, <1>2 DEF H4
<1> QED BY <1>2, <1>3 DEF Resolves

\* approved changes the status alone.
LEMMA Approved ==
  ASSUME NEW f \in File
  PROVE  /\ approved(f) \in File /\ versionOf(approved(f)) = versionOf(f)
         /\ approved(f) # NoFile =>
              f # NoFile /\ approved(f).status = "approved" /\ approved(f).pins = f.pins
<1>1. CASE f = NoFile
  BY <1>1 DEF approved
<1>2. CASE f # NoFile
  <2> DEFINE g == [f EXCEPT !.status = "approved"]
  <2>1. f \in Header /\ approved(f) = g
    BY <1>2 DEF approved, File
  <2>2. g \in Header /\ g.version = f.version /\ g.status = "approved" /\ g.pins = f.pins
    BY <2>1 DEF Header
  <2>3. g \in File /\ g # NoFile
    BY <2>2, NoFileAssumption DEF File
  <2> QED BY <1>2, <2>1, <2>2, <2>3 DEF versionOf
<1> QED BY <1>1, <1>2

\* What the branch has not touched and main has pins in is on the branch as it is on main.
LEMMA Untouched ==
  ASSUME IInv, NEW a \in Artifacts, a \notin Touched, main[a] # NoFile,
         NEW k \in Keys, main[a].pins[k] # NoPin
  PROVE  tree[a] = main[a]
<1> QED BY DEF IInv, Touched, Moved

\* A pin that reaches main is one of the branch.
LEMMA FromBranch ==
  ASSUME IInv, Merge, NEW a \in Artifacts, main'[a] # NoFile,
         NEW k \in Keys, main'[a].pins[k] # NoPin
  PROVE  /\ tree[a] # NoFile /\ main'[a].pins = tree[a].pins /\ tree[a].pins[k] \in Nat
         /\ There(k) /\ tree[a].pins[k] \in Existing(k) /\ ~NewerApproved(k, tree[a].pins[k])
<1>1. TypeOK /\ ~H3 /\ ~H4
      /\ main' = [b \in Artifacts |-> IF b \in Touched THEN approved(tree[b]) ELSE main[b]]
  BY DEF IInv, Merge
<1>2. tree[a] # NoFile /\ main'[a].pins = tree[a].pins
  <2>1. CASE a \in Touched
    <3>1. main'[a] = approved(tree[a])
      BY <1>1, <2>1
    <3> QED BY <1>1, <3>1, Approved DEF TypeOK
  <2>2. CASE a \notin Touched
    <3>1. main'[a] = main[a]
      BY <1>1, <2>2
    <3> QED BY <2>2, <3>1, Untouched
  <2> QED BY <2>1, <2>2
<1>3. tree[a].pins[k] \in Nat
  BY <1>1, <1>2 DEF TypeOK, File, Header
<1> QED BY <1>1, <1>2, <1>3, PinsOfMerge

\* Of the constitution, which has no history, a merge pins the version that is there.
LEMMA MergedConstitution ==
  ASSUME IInv, Merge, NEW a \in Artifacts, main'[a] # NoFile,
         main'[a].pins[Constitution] # NoPin
  PROVE  main'[a].pins[Constitution] = kb
<1>1. Constitution \in Keys /\ kb \in Nat
  BY DEF Keys, IInv, TypeOK
<1> DEFINE v == tree[a].pins[Constitution]
<1>2. main'[a].pins[Constitution] = v /\ v \in Existing(Constitution)
      /\ ~NewerApproved(Constitution, v) /\ v \in Nat
  BY <1>1, FromBranch
<1> HIDE DEF v
<1>3. v \in 1..kb /\ ~(kb > v)
  BY <1>2 DEF Existing, NewerApproved, Cur, OnMain
<1> QED BY <1>1, <1>2, <1>3

\* A pin that reaches main names a version that is there after the merge.
LEMMA MergePins ==
  ASSUME IInv, Merge, NEW a \in Artifacts, main'[a] # NoFile,
         NEW k \in Artifacts, main'[a].pins[k] # NoPin
  PROVE  main'[a].pins[k] <= versionOf(main'[k])
<1>1. TypeOK /\ Mergeable /\ ~H3 /\ ~H4
      /\ main' = [b \in Artifacts |-> IF b \in Touched THEN approved(tree[b]) ELSE main[b]]
  BY DEF IInv, Merge
<1>2. k \in Keys
  BY DEF Keys
<1> DEFINE v == tree[a].pins[k]
<1>3. main'[a].pins[k] = v /\ v \in Nat /\ There(k) /\ v \in Existing(k)
  BY <1>2, FromBranch
<1> HIDE DEF v
<1>6. tree[k] # NoFile /\ (v <= versionOf(tree[k]) \/ v <= versionOf(main[k]))
  <2>1. k # Constitution
    BY KeysAssumption
  <2> QED BY <1>1, <1>3, <2>1, Versions DEF There, Existing, Cur, OnMain, TypeOK
<1>7. /\ versionOf(tree[k]) \in Nat /\ versionOf(main[k]) \in Nat /\ versionOf(base[k]) \in Nat
      /\ versionOf(base[k]) <= versionOf(main[k]) /\ versionOf(base[k]) <= versionOf(tree[k])
  BY <1>1, <1>6, Versions DEF IInv, TypeOK, Upwards
<1>8. v <= versionOf(main'[k])
  <2>1. CASE k \in Touched
    <3>1. main[k] = base[k]
      BY <1>1, <2>1 DEF Mergeable
    <3>2. main'[k] = approved(tree[k])
      BY <1>1, <2>1
    <3>3. main'[k] \in File /\ versionOf(main'[k]) = versionOf(tree[k])
      BY <1>1, <1>6, <3>2, Approved DEF TypeOK
    <3> QED BY <1>3, <1>6, <1>7, <3>1, <3>3
  <2>2. CASE k \notin Touched
    <3>1. tree[k] = base[k] /\ main'[k] = main[k]
      BY <1>1, <2>2 DEF Touched
    <3> QED BY <1>3, <1>6, <1>7, <3>1
  <2> QED BY <2>1, <2>2
<1> QED BY <1>3, <1>8

\* The merge of the branch: the pins resolve, and base and tree are main again.
LEMMA MergeIInv == ASSUME IInv, Merge PROVE IInv'
<1>1. TypeOK /\ PinsResolveOnMain /\ Mergeable /\ ~H3 /\ kb' = kb /\ gitOk' = gitOk
      /\ main' = [b \in Artifacts |-> IF b \in Touched THEN approved(tree[b]) ELSE main[b]]
      /\ base' = main' /\ tree' = main'
  BY DEF IInv, Merge
<1>2. \A b \in Artifacts : main'[b] \in File /\ (main'[b] # NoFile => main'[b].status = "approved")
  <2> SUFFICES ASSUME NEW b \in Artifacts
               PROVE  main'[b] \in File /\ (main'[b] # NoFile => main'[b].status = "approved")
    OBVIOUS
  <2>1. CASE b \in Touched
    <3>1. main'[b] = approved(tree[b])
      BY <1>1, <2>1
    <3> QED BY <1>1, <3>1, Approved DEF TypeOK
  <2>2. CASE b \notin Touched
    <3>1. main'[b] = main[b]
      BY <1>1, <2>2
    <3> QED BY <1>1, <3>1 DEF TypeOK, IInv, Upwards
  <2> QED BY <2>1, <2>2
<1>3. TypeOK'
  BY <1>1, <1>2 DEF TypeOK
<1>4. PinsResolveOnMain'
  <2> SUFFICES ASSUME NEW a \in Artifacts, main'[a] # NoFile, NEW k \in Keys
               PROVE  main'[a].pins[k] <= Latest(k)'
    BY DEF PinsResolveOnMain
  <2>1. CASE main'[a].pins[k] = NoPin
    <3>1. Latest(k)' \in Nat
      BY <1>3, Versions DEF Latest, TypeOK, Keys
    <3> QED BY <2>1, <3>1 DEF NoPin
  <2>2. CASE main'[a].pins[k] # NoPin /\ k \in Artifacts
    BY <2>2, MergePins, KeysAssumption DEF Latest
  <2>3. CASE main'[a].pins[k] # NoPin /\ k = Constitution
    BY <1>1, <1>3, <2>3, MergedConstitution DEF Latest, TypeOK
  <2> QED BY <2>1, <2>2, <2>3 DEF Keys
<1>5. ASSUME NEW b \in Artifacts PROVE Moved(b)' /\ Upwards(b)'
  <2>1. versionOf(main'[b]) \in Nat
    BY <1>2, Versions
  <2> QED BY <1>1, <1>2, <2>1 DEF Moved, Upwards
<1> QED BY <1>3, <1>4, <1>5 DEF IInv


\* Every step keeps the invariant.
LEMMA Inductive == Spec => []IInv
<1>1. IInv /\ [Next]_vars => IInv'
  <2> SUFFICES ASSUME IInv, [Next]_vars PROVE IInv'
    OBVIOUS
  <2>1. ASSUME NEW a \in Artifacts, Write(a) PROVE IInv'
    BY <2>1, WriteIInv
  <2>2. ASSUME NEW a \in Artifacts, Drop(a) PROVE IInv'
    BY <2>2, DropIInv
  <2>3. CASE Rebase
    BY <2>3, RebaseIInv
  <2>4. CASE Merge
    BY <2>4, MergeIInv
  <2>5. CASE NewConstitution
    <3>1. TypeOK' /\ kb \in Nat /\ kb' = kb + 1 /\ UNCHANGED <<main, base, tree, gitOk>>
      BY <2>5 DEF IInv, TypeOK, NewConstitution
    <3>2. PinsResolveOnMain'
      <4> SUFFICES ASSUME NEW a \in Artifacts, main[a] # NoFile, NEW k \in Keys
                   PROVE  main[a].pins[k] <= Latest(k)'
        BY <3>1 DEF PinsResolveOnMain
      <4>1. main[a].pins[k] <= Latest(k) /\ main[a].pins[k] \in Nat
        BY DEF IInv, PinsResolveOnMain, TypeOK, File, Header
      <4> QED BY <3>1, <4>1 DEF Latest
    <3>3. \A a \in Artifacts : Moved(a)' /\ Upwards(a)'
      BY <3>1 DEF IInv, Moved, Upwards
    <3> QED BY <3>1, <3>2, <3>3 DEF IInv
  <2>6. ASSUME NEW a \in Shared, OtherMerge(a) PROVE IInv'
    BY <2>6, OtherMergeIInv, SharedAssumption
  <2>7. CASE UNCHANGED vars
    BY <2>7 DEF vars, IInv, TypeOK, PinsResolveOnMain, Latest, Moved, Upwards
  <2> QED BY <2>1, <2>2, <2>3, <2>4, <2>5, <2>6, <2>7 DEF Next
<1> QED BY <1>1, InitIInv, PTL DEF Spec

\* Whatever branches drop, revert or delete, and however main moves, no artifact on main was
\* made from a version that main, or the knowledge base, has not had.
THEOREM PinsResolve == Spec => []PinsResolveOnMain
<1>1. IInv => PinsResolveOnMain
  BY DEF IInv
<1> QED BY <1>1, Inductive, PTL

\* A merge leaves no pin behind what was there before it.
THEOREM MergesAreFresh == Spec => MergedIsFresh
<1> DEFINE Fresh ==
      \A a \in Artifacts : main'[a] # NoFile =>
        \A k \in Keys : main'[a].pins[k] # NoPin =>
          IF k = Constitution THEN main'[a].pins[k] = kb
          ELSE gitOk /\ k \notin Touched => main'[a].pins[k] = main[k].version
<1>1. ASSUME IInv, Merge PROVE Fresh
  <2> SUFFICES ASSUME NEW a \in Artifacts, main'[a] # NoFile,
                      NEW k \in Artifacts, main'[a].pins[k] # NoPin, gitOk, k \notin Touched
               PROVE  main'[a].pins[k] = main[k].version
    BY <1>1, MergedConstitution DEF Keys
  <2>1. k \in Keys /\ k # Constitution
    BY KeysAssumption DEF Keys
  <2> DEFINE v == tree[a].pins[k]
  <2>2. /\ main'[a].pins[k] = v /\ v \in Nat
        /\ There(k) /\ v \in Existing(k) /\ ~NewerApproved(k, v)
    BY <1>1, <2>1, FromBranch
  <2> HIDE DEF v
  <2>3. TypeOK /\ Upwards(k) /\ tree[k] = base[k] /\ tree[k] # NoFile
    BY <1>1, <2>1, <2>2 DEF IInv, Touched, There
  <2>4. versionOf(tree[k]) \in Nat \ {0} /\ versionOf(tree[k]) <= versionOf(main[k])
        /\ versionOf(main[k]) \in Nat
    BY <2>3, Versions DEF TypeOK, Upwards
  <2>5. main[k] # NoFile /\ versionOf(main[k]) = main[k].version
        /\ main[k].status = "approved"
    BY <2>3, <2>4, Versions DEF TypeOK, Upwards
  <2>6. v <= main[k].version
    BY <2>1, <2>2, <2>4, <2>5 DEF Existing, Cur, OnMain
  <2>7. ~(main[k].version > v)
    BY <2>1, <2>2, <2>5 DEF NewerApproved, OnMain
  <2> QED BY <2>2, <2>4, <2>5, <2>6, <2>7
<1>2. IInv /\ [Next]_vars => [Merge => Fresh]_vars
  BY <1>1
<1> QED BY <1>2, Inductive, PTL DEF MergedIsFresh, Spec

\* Nothing is asked in vain of a branch at the tip of main.
THEOREM UpToDateBranchesPass == Spec => []UpToDatePasses
<1>1. IInv => UpToDatePasses
  <2> SUFFICES ASSUME IInv, base = main,
                      \A a \in Located : \A k \in Keys :
                        tree[a].pins[k] = IF k \in Required(a) THEN Cur(k) ELSE NoPin,
                      \A a \in Located : \A k \in Required(a) : There(k)
               PROVE  ~H2 /\ ~H3 /\ ~H4
    BY DEF UpToDatePasses
  <2>1. ASSUME NEW a \in Located
        PROVE  Required(a) \subseteq Keys
    <3>1. a \in Artifacts /\ tree[a] \in Header
      BY <2>1 DEF Located, IInv, TypeOK, File
    <3> QED BY <3>1, RequiredAssumption, SharedAssumption DEF Required, Header, Keys
  <2>2. ASSUME NEW a \in Located, NEW k \in Required(a)
        PROVE  There(k) /\ Cur(k) \in Nat \ {0} /\ tree[a].pins[k] = Cur(k) /\ k \in pins(a)
    <3>1. k \in Keys /\ There(k)
      BY <2>1, <2>2
    <3>2. Cur(k) \in Nat \ {0}
      BY <3>1, Versions DEF Cur, There, IInv, TypeOK, Keys
    <3>3. tree[a].pins[k] = Cur(k)
      BY <2>2, <3>1
    <3> QED BY <3>1, <3>2, <3>3 DEF pins, NoPin
  <2>3. ~H2
    BY <2>2 DEF H2
  <2>4. ASSUME NEW a \in Located, NEW k \in pins(a)
        PROVE  k \in Keys /\ There(k) /\ Cur(k) \in Nat \ {0} /\ tree[a].pins[k] = Cur(k)
    <3>1. k \in Keys /\ tree[a].pins[k] # NoPin
      BY <2>4 DEF pins
    <3>2. k \in Required(a)
      BY <3>1, <2>4
    <3> QED BY <3>1, <3>2, <2>2
  <2>5. ~H3
    <3>1. ASSUME NEW a \in Located, NEW k \in pins(a) PROVE Resolves(k, tree[a].pins[k])
      BY <2>4, <3>1 DEF Resolves, Existing
    <3> QED BY <3>1 DEF H3
  <2>6. ~H4
    <3>1. ASSUME NEW k \in Keys, There(k), Cur(k) \in Nat PROVE ~NewerApproved(k, Cur(k))
      <4>1. CASE k # Constitution /\ gitOk
        <5>1. k \in Artifacts /\ tree[k] # NoFile /\ Cur(k) = versionOf(tree[k])
          BY <3>1, <4>1 DEF Keys, There, Cur
        <5>2. versionOf(main[k]) <= versionOf(tree[k]) /\ versionOf(main[k]) \in Nat
          BY <5>1, Versions DEF IInv, Upwards, TypeOK
        <5>3. OnMain(k) => main[k].version = versionOf(main[k])
          BY <4>1 DEF OnMain, versionOf
        <5> QED BY <3>1, <4>1, <5>1, <5>2, <5>3 DEF NewerApproved
      <4>2. CASE ~(k # Constitution /\ gitOk)
        BY <3>1, <4>2 DEF NewerApproved
      <4> QED BY <4>1, <4>2
    <3>2. ASSUME NEW a \in Located, NEW k \in pins(a) PROVE ~NewerApproved(k, tree[a].pins[k])
      BY <2>4, <3>1, <3>2
    <3> QED BY <3>2 DEF H4
  <2> QED BY <2>3, <2>5, <2>6
<1> QED BY <1>1, Inductive, PTL

=============================================================================
