----------------------------- MODULE BranchHistory -----------------------------
(***************************************************************************)
(* The git-aware rules of spec-lint on one file of a branch: H5 (header    *)
(* .ts), S7 (structure.ts) and D15 (domain.ts), which judge the history    *)
(* main..HEAD and the working tree from the snapshots git.ts gives them.   *)
(* Steps, people and the reconciler commit to the branch; it is rebased on *)
(* main or main is merged into it; other branches reach main meanwhile.    *)
(*                                                                         *)
(* A file is what the rules read of it: its version and status, and its    *)
(* items, which are its block IDs (Markdown) or its tactical elements      *)
(* (CML).  An ID is a number in a series: the prefix, or the hundred of a  *)
(* REQ.                                                                    *)
(***************************************************************************)
EXTENDS Naturals, Sequences

CONSTANTS
  Kinds,      \* which file it is: "glossary", "design" (Markdown) or "context" (CML)
  Headers,    \* the headers people and agents write: [version, status]
  Series,     \* the series IDs are numbered in
  Items,      \* block IDs, or tactical elements
  Steps,      \* trailers Spec-Step of agents' commits
  NoStep,     \* no trailer: a person
  NoFile,     \* the file is not there
  Garbled,    \* a header that does not parse
  MaxCommits, \* bound: the commits of the branch
  MaxVersion, \* bound: the versions of the file
  Others      \* bound: what other branches bring to main

VARIABLES
  kind,
  main,       \* the file on main
  base,       \* the file where main and the branch last met
  fork,       \* the file before the first commit of the branch
  log,        \* the commits of the branch: [step, merge, now]
  met,        \* the commit that merged the tip of main, 0 when none did or main moved since
  tree,       \* the file in the working tree
  owed        \* the file as the commits that may change each part of it left it

branchVars == <<kind, main, base, fork, log, met, tree, owed>>

Header == [version : 1..MaxVersion, status : {"draft", "approved", "superseded"}]
File == [header : Header \cup {Garbled}, items : SUBSET Items]
Trailer == Steps \cup {"reconciler", "ddd-tactical", NoStep}
Commit == [step : Trailer, merge : BOOLEAN, now : File \cup {NoFile}]

ASSUME KindsAssumption == Kinds \subseteq {"glossary", "design", "context"}
ASSUME HeadersAssumption == Headers \subseteq Header
ASSUME ItemsAssumption == Items \subseteq [series : Series, n : Nat]
ASSUME OthersAssumption == Others \subseteq File \cup {NoFile}
ASSUME NoFileAssumption == NoFile \notin File /\ Garbled \notin Header

Content(i) == IF i = 0 THEN fork ELSE log[i].now
Tip == Content(Len(log))

\* headerFromText, and the elements of a text, where there is one.
Readable(f) == f # NoFile /\ f.header # Garbled
ItemsOf(f) == IF f = NoFile THEN {} ELSE f.items

---------------------------------------------------------------------------
\* git log main..HEAD -- path: the commits that change the file, without those that lie
\* behind a merge of the tip of main that took the file of main as it was.  Once main has
\* moved past what was merged, git shows them again.
Start == IF met # 0 /\ log[met].now = main /\ main # Content(met - 1) THEN met ELSE 0
Touching == {i \in (Start + 1)..Len(log) : Content(i) # Content(i - 1)}

\* The rules pass merges over: "merges carry no step of their own".
Judged == {i \in Touching : ~log[i].merge}

\* changed: version or status differ, if both texts have a header.
HeaderChanged(x, y) == Readable(x) /\ Readable(y) /\ x.header # y.header

\* Faulty: only the last commit is looked at.
H5Last ==
  \/ \E i \in Judged \cap {Len(log)} : /\ HeaderChanged(Content(i), Content(i - 1))
                                       /\ log[i].step # "reconciler"
  \/ HeaderChanged(tree, Tip)

\* checkH5: a commit that is not the reconciler's, or the working tree, changes the header.
H5 ==
  \/ \E i \in Judged : /\ HeaderChanged(Content(i), Content(i - 1))
                       /\ log[i].step # "reconciler"
  \/ HeaderChanged(tree, Tip)

\* series, maxBySeries: an ID at or below the highest of its series.
TakenBelow(new, ids) == \E old \in ids : new.series = old.series /\ new.n <= old.n

OnMain(f) == Readable(f) /\ f.header.status \in {"approved", "superseded"}

\* Faulty: the approved version is that of the branch's own base.
S7AtBase ==
  /\ kind # "context"
  /\ OnMain(base)
  /\ \/ ~(base.items \subseteq ItemsOf(tree))
     \/ \E new \in ItemsOf(tree) \ base.items : TakenBelow(new, base.items)

\* checkHistory: against the approved version on main, an ID is gone or a new one does not
\* continue after the highest of its series.
S7 ==
  /\ kind # "context"
  /\ OnMain(main)
  /\ \/ ~(main.items \subseteq ItemsOf(tree))
     \/ \E new \in ItemsOf(tree) \ main.items : TakenBelow(new, main.items)

\* Faulty: a commit that deletes or creates the file is passed over.
D15Present ==
  /\ kind = "context"
  /\ \E i \in Judged : /\ log[i].step \notin {NoStep, "ddd-tactical"}
                       /\ Content(i) # NoFile /\ Content(i - 1) # NoFile
                       /\ ItemsOf(Content(i)) # ItemsOf(Content(i - 1))

\* checkTacticalHistory: a step other than ddd-tactical changes tactical elements.  People
\* may.
D15 ==
  /\ kind = "context"
  /\ \E i \in Judged : /\ log[i].step \notin {NoStep, "ddd-tactical"}
                       /\ ItemsOf(Content(i)) # ItemsOf(Content(i - 1))

\* What lint says: H1 of a header that does not parse, D1 of a glossary that is not there,
\* and the rules above of a file that loadWorkspace found.
Errors ==
  \/ kind = "glossary" /\ tree = NoFile
  \/ tree # NoFile /\ (~Readable(tree) \/ H5 \/ S7 \/ D15)

---------------------------------------------------------------------------
\* git's three-way merge: a header one side changed, and the items each side added and
\* removed.
MergeHeader(b, ours, theirs) == IF ours = b THEN theirs ELSE ours
MergeItems(b, ours, theirs) == (ours \ (b \ theirs)) \cup (theirs \ b)
Conflict(b, ours, theirs) ==
  IF NoFile \in {b, ours, theirs} THEN ours # theirs /\ ours # b /\ theirs # b
  ELSE /\ ours.header # theirs.header /\ ours.header # b.header /\ theirs.header # b.header
Merge3(b, ours, theirs) ==
  IF NoFile \in {b, ours, theirs} THEN MergeHeader(b, ours, theirs)
  ELSE [header |-> MergeHeader(b.header, ours.header, theirs.header),
        items |-> MergeItems(b.items, ours.items, theirs.items)]

\* What the accountable commits left of a file, at the start.
Owed(f) == IF f = NoFile THEN [header |-> Garbled, items |-> {}] ELSE f

BranchInit ==
  /\ kind \in Kinds
  /\ main \in {f \in File : OnMain(f) /\ f.header.version = 1 /\ f.items # {}}
  /\ base = main /\ fork = main /\ tree = main /\ owed = main
  /\ log = <<>> /\ met = 0

\* One change of the file between two commits.
Changes(f) ==
  IF f = NoFile THEN {[header |-> h, items |-> ItemsOf(base)] : h \in Headers}
  ELSE {NoFile} \cup {[f EXCEPT !.header = h] : h \in Headers \cup {Garbled}}
       \cup {[f EXCEPT !.items = (@ \ {n}) \cup ({n} \ @)] : n \in Items}

Edit(f) ==
  /\ tree = Tip /\ f # tree
  /\ tree' = f
  /\ UNCHANGED <<kind, main, base, fork, log, met, owed>>

\* git restore.
Restore == tree # Tip /\ tree' = Tip /\ UNCHANGED <<kind, main, base, fork, log, met, owed>>

\* The reconciler's header is owed from its commit on, and the items of those who may
\* change them.
Owing(before, step, f) ==
  [header |-> IF step = "reconciler" /\ Readable(f) THEN f.header ELSE before.header,
   items |-> IF step \in {"ddd-tactical", NoStep} THEN ItemsOf(f) ELSE before.items]

\* git commit.
Commits(step) ==
  /\ tree # Tip /\ Len(log) < MaxCommits
  /\ log' = Append(log, [step |-> step, merge |-> FALSE, now |-> tree])
  /\ owed' = Owing(owed, step, tree)
  /\ UNCHANGED <<kind, main, base, fork, met, tree>>

\* git merge main.
MergeMain ==
  /\ main # base /\ tree = Tip /\ Len(log) < MaxCommits
  /\ ~Conflict(base, Tip, main)
  /\ LET f == Merge3(base, Tip, main)
     IN  /\ log' = Append(log, [step |-> NoStep, merge |-> TRUE, now |-> f])
         /\ met' = Len(log) + 1 /\ tree' = f
         /\ owed' = IF f = main THEN Owed(main) ELSE Merge3(base, owed, main)
  /\ base' = main
  /\ UNCHANGED <<kind, main, fork>>

\* git rebase main: every commit is made again on main.  The reconciler does it before
\* every step (workflow.md section 9); on a conflict it gives up.
Replayed ==
  LET f[i \in 0..Len(log)] ==
        IF i = 0 THEN main ELSE Merge3(Content(i - 1), log[i].now, f[i - 1])
  IN  f
OwedReplayed ==
  LET o[i \in 0..Len(log)] ==
        IF i = 0 \/ Replayed[i] = main THEN Owed(main)
        ELSE IF Replayed[i] = Replayed[i - 1] THEN o[i - 1]
        ELSE Owing(o[i - 1], log[i].step, Replayed[i])
  IN  o[Len(log)]
Rebase ==
  /\ main # base /\ tree = Tip
  /\ \A i \in DOMAIN log : ~log[i].merge /\ ~Conflict(Content(i - 1), log[i].now, Replayed[i - 1])
  /\ log' = [i \in DOMAIN log |-> [log[i] EXCEPT !.now = Replayed[i]]]
  /\ tree' = Replayed[Len(log)]
  /\ owed' = OwedReplayed
  /\ fork' = main /\ base' = main
  /\ UNCHANGED <<kind, main, met>>

\* Another branch reaches main.  It was linted and approved like this one.
OtherPublish(f) ==
  /\ IF f = NoFile THEN main # NoFile /\ kind # "glossary" ELSE OnMain(f)
  /\ NoFile \notin {f, main} =>
       /\ f.header.version = main.header.version + 1
       /\ kind # "context" => /\ main.items \subseteq f.items
                              /\ \A new \in f.items \ main.items : ~TakenBelow(new, main.items)
  /\ main' = f /\ met' = 0
  /\ UNCHANGED <<kind, base, fork, log, tree, owed>>

\* A branch that does not touch the file reaches main.
MainMoves == met # 0 /\ met' = 0 /\ UNCHANGED <<kind, main, base, fork, log, tree, owed>>

\* The branch is approved, lints at its HEAD against main, and is merged (workflow.md
\* section 3, rule 10).  A file that it deleted has nothing to approve.  The next branch
\* starts from there.
Publish ==
  /\ log # <<>> /\ tree = Tip
  /\ tree # NoFile => OnMain(tree)
  /\ ~Errors /\ ~Conflict(base, tree, main)
  /\ LET f == Merge3(base, tree, main)
     IN  main' = f /\ base' = f /\ fork' = f /\ tree' = f /\ owed' = Owed(f)
  /\ log' = <<>> /\ met' = 0
  /\ UNCHANGED kind

BranchNext ==
  \/ \E f \in Changes(tree) : Edit(f)
  \/ Restore
  \/ \E step \in Trailer : Commits(step)
  \/ MergeMain \/ Rebase \/ MainMoves \/ Publish
  \/ \E f \in Others : OtherPublish(f)

BranchSpec == BranchInit /\ [][BranchNext]_branchVars

---------------------------------------------------------------------------
\* Every variable has its type; what is on main, and where the branch met it, is approved.
TypeOK ==
  /\ kind \in Kinds
  /\ {main, base, fork} \subseteq {f \in File : OnMain(f)} \cup {NoFile}
  /\ log \in Seq(Commit)
  /\ met \in 0..Len(log)
  /\ tree \in File \cup {NoFile}
  /\ owed \in File

\* At some point of the branch the file is not there, or has no header to compare.
Gap == \E i \in 0..Len(log) : ~Readable(Content(i))

\* On a branch that lints, version and status are those the reconciler or main gave the
\* file, through any order of commits, merges and rebases, unless the file was gone or its
\* header broken on the way.
HeadersAccounted == ~Errors /\ tree # NoFile /\ ~Gap => tree.header = owed.header

\* On a branch that lints, the tactical elements are those that ddd-tactical, people or
\* main left, also when the file was deleted and made again on the way.
TacticalAccounted ==
  ~Errors /\ kind = "context" /\ tree # NoFile => ItemsOf(Tip) = owed.items

\* While a file stays on main, so do its approved IDs, and new ones continue after the
\* highest of their series, however far main had moved when the branch was linted.
Continues(old, new) == old \subseteq new /\ \A id \in new \ old : ~TakenBelow(id, old)
IdsStay ==
  [][kind # "context" /\ NoFile \notin {main, main'} =>
       Continues(main.items, main'.items)]_branchVars

\* S7, "IDs never disappear": a branch that lints takes no approved ID from main.
IdsNeverDisappear ==
  [][kind # "context" /\ log # <<>> /\ log' = <<>> =>
       ItemsOf(main) \subseteq ItemsOf(main')]_branchVars
=============================================================================
