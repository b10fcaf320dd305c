--------------------------------- MODULE Pins ---------------------------------
(***************************************************************************)
(* The pins of a spec: each artifact says which version of each of its     *)
(* upstreams it was made from, and checkPins (H2, H3, H4) judges the pins  *)
(* of the working tree against the tree itself and against main.           *)
(*                                                                         *)
(* A branch writes, drops and deletes artifacts; other specs bring new     *)
(* versions of the shared ones to main; the constitution moves in the      *)
(* knowledge base, outside git.  A branch is merged when the rules let it, *)
(* and no artifact that it changed has moved on main meanwhile.            *)
(***************************************************************************)
EXTENDS Naturals

CONSTANTS
  Artifacts,    \* those in git: of the spec, and of the domain
  Shared,       \* those of the domain, which other specs change too
  Constitution, \* the one outside git
  REQUIRED_PINS,  \* of each artifact, the upstreams it must pin
  Contexts,     \* the shared ones that the elements of the design may name
  NoFile,       \* the artifact is not there
  MaxVersion    \* bound: the versions of each artifact

VARIABLES
  main,   \* the artifacts on main: [version, status, uses, pins], where uses are the
          \* contexts that its elements name
  base,   \* the artifacts where the branch left main
  tree,   \* the working tree of the branch
  kb,     \* the version of the constitution
  gitOk   \* git is there and knows main

vars == <<main, base, tree, kb, gitOk>>

Keys == Artifacts \cup {Constitution}
NoPin == 0
Header == [version : Nat \ {0}, status : {"draft", "approved"}, uses : SUBSET Contexts,
           pins : [Keys -> Nat]]

ASSUME SharedAssumption == Shared \subseteq Artifacts /\ Contexts \subseteq Shared
ASSUME RequiredAssumption == REQUIRED_PINS \in [Artifacts -> SUBSET Keys]
ASSUME KeysAssumption == Constitution \notin Artifacts
ASSUME NoFileAssumption == NoFile \notin Header

\* versionOf, of a file that may be missing.
versionOf(f) == IF f = NoFile THEN 0 ELSE f.version

---------------------------------------------------------------------------
Located == {a \in Artifacts : tree[a] # NoFile}
Required(a) == REQUIRED_PINS[a] \cup tree[a].uses
pins(a) == {k \in Keys : tree[a].pins[k] # NoPin}

\* pinTarget: what a pin names, in the tree and on main.
There(k) == k = Constitution \/ tree[k] # NoFile
Cur(k) == IF k = Constitution THEN kb ELSE versionOf(tree[k])
OnMain(k) == k # Constitution /\ gitOk /\ main[k] # NoFile
\* Faulty: what the branch itself has made is not looked at.
FaultyExisting(k) ==
  IF k = Constitution THEN 1..kb ELSE IF OnMain(k) THEN 1..main[k].version ELSE {}

\* The versions that a pin may name.
Existing(k) == 1..Cur(k) \cup IF OnMain(k) THEN 1..main[k].version ELSE {}

\* Faulty: the working copy is asked, as for the constitution.
FaultyNewerApproved(k, v) ==
  Cur(k) > v /\ (k # Constitution => tree[k].status = "approved")

\* Is there a newer approved version?  The working copy answers only where git cannot.
NewerApproved(k, v) ==
  IF k # Constitution /\ gitOk
  THEN OnMain(k) /\ main[k].version > v /\ main[k].status = "approved"
  ELSE Cur(k) > v /\ (k # Constitution => tree[k].status = "approved")

H2 == \E a \in Located : ~(Required(a) \subseteq pins(a))

\* Faulty: any version of an artifact that is there.
FaultyResolves(k, v) == There(k)

Resolves(k, v) == There(k) /\ v \in Existing(k)
H3 == \E a \in Located : \E k \in pins(a) : ~Resolves(k, tree[a].pins[k])
H4 == \E a \in Located : \E k \in pins(a) :
        Resolves(k, tree[a].pins[k]) /\ NewerApproved(k, tree[a].pins[k])

---------------------------------------------------------------------------
Init ==
  /\ main = [a \in Artifacts |-> NoFile]
  /\ base = main /\ tree = main
  /\ kb = 1
  /\ gitOk \in BOOLEAN

Touched == {a \in Artifacts : tree[a] # base[a]}

\* What a step does with the pins: it takes some of the upstreams as it finds them, and keeps
\* some of the pins that were there.
Pinned(a, fresh, kept) ==
  [k \in Keys |-> CASE k \in fresh -> Cur(k)
                    [] k \in kept /\ tree[a] # NoFile -> tree[a].pins[k]
                    [] OTHER -> NoPin]

\* A step writes an artifact: a version on from where the branch began, with pins to what it
\* reads, new or old ones, or without.
Write(a) ==
  /\ versionOf(base[a]) < MaxVersion[a]
  /\ \E uses \in SUBSET (IF a = "design" THEN Contexts ELSE {}) :
       LET upstreams == REQUIRED_PINS[a] \cup uses
       IN  \E fresh \in SUBSET upstreams : \E kept \in SUBSET (upstreams \ fresh) :
             tree' = [tree EXCEPT ![a] =
               [version |-> versionOf(base[a]) + 1, status |-> "draft", uses |-> uses,
                pins |-> Pinned(a, fresh, kept)]]
  /\ UNCHANGED <<main, base, kb, gitOk>>

\* What the branch did to an artifact is undone, or the artifact deleted.
Drop(a) ==
  /\ \E f \in {base[a], NoFile} : tree' = [tree EXCEPT ![a] = f]
  /\ UNCHANGED <<main, base, kb, gitOk>>

\* git finds no conflict: main has not moved where the branch has.
Mergeable == \A a \in Touched : main[a] = base[a]

Rebase ==
  /\ Mergeable
  /\ tree' = [a \in Artifacts |-> IF a \in Touched THEN tree[a] ELSE main[a]]
  /\ base' = main
  /\ UNCHANGED <<main, kb, gitOk>>

\* The linter is asked once more, the status set, and the branch merged; the next one begins.
approved(f) == IF f = NoFile THEN NoFile ELSE [f EXCEPT !.status = "approved"]
Merge ==
  /\ Mergeable /\ Touched # {}
  /\ ~H2 /\ ~H3 /\ ~H4
  /\ main' = [a \in Artifacts |-> IF a \in Touched THEN approved(tree[a]) ELSE main[a]]
  /\ base' = main' /\ tree' = main'
  /\ UNCHANGED <<kb, gitOk>>

\* Another spec's branch is merged.
OtherMerge(a) ==
  /\ versionOf(main[a]) < MaxVersion[a]
  /\ main' = [main EXCEPT ![a] =
       [version |-> versionOf(main[a]) + 1, status |-> "approved", uses |-> {},
        pins |-> [k \in Keys |-> NoPin]]]
  /\ UNCHANGED <<base, tree, kb, gitOk>>

NewConstitution ==
  /\ kb < MaxVersion[Constitution]
  /\ kb' = kb + 1
  /\ UNCHANGED <<main, base, tree, gitOk>>

Next ==
  \/ \E a \in Artifacts : Write(a) \/ Drop(a)
  \/ Rebase \/ Merge \/ NewConstitution
  \/ \E a \in Shared : OtherMerge(a)

Spec == Init /\ [][Next]_vars
---------------------------------------------------------------------------
Latest(k) == IF k = Constitution THEN kb ELSE versionOf(main[k])

\* H3: what is on main was made from versions that main, or the knowledge base, has had, though
\* the branch that made it may have dropped, reverted or deleted what it was made from.
PinsResolveOnMain ==
  \A a \in Artifacts : main[a] # NoFile =>
    \A k \in Keys : main[a].pins[k] <= Latest(k)

\* H4: a merge leaves no pin behind a version that was there before it, on main or in the
\* knowledge base, however far behind main the branch is.  It may leave one behind the
\* version it brings itself: the rule compares with main, where that one is not yet.
MergedIsFresh ==
  [][Merge =>
       \A a \in Artifacts : main'[a] # NoFile =>
         \A k \in Keys : main'[a].pins[k] # NoPin =>
           IF k = Constitution THEN main'[a].pins[k] = kb
           ELSE gitOk /\ k \notin Touched => main'[a].pins[k] = main[k].version]_vars

\* Nothing is asked in vain: a branch at the tip of main whose artifacts pin all their upstreams
\* as they are now passes, whether these come from main or from the branch itself.
UpToDatePasses ==
  /\ base = main
  /\ \A a \in Located : \A k \in Keys :
       tree[a].pins[k] = IF k \in Required(a) THEN Cur(k) ELSE NoPin
  /\ \A a \in Located : \A k \in Required(a) : There(k)
  => ~H2 /\ ~H3 /\ ~H4
=============================================================================
