--------------------------- MODULE SpecGate_proofs ---------------------------
(***************************************************************************)
(* For every set of IDs, every block that may be written under them and    *)
(* every order of steps, edits, calls of trace_link and approvals: what a  *)
(* lint that passes says of an approved spec.                              *)
(***************************************************************************)
EXTENDS SpecGate, Lemmas, TLAPS

LEMMA InitTypeOK == Init => TypeOK
BY WrittenAssumption DEF Init, TypeOK, File

LEMMA StepTypeOK == TypeOK /\ [Next]_vars => TypeOK'
<1> SUFFICES ASSUME TypeOK, [Next]_vars PROVE TypeOK'
  OBVIOUS
<1>1. ASSUME NEW s \in Step, NEW r \in Run, BeginStep(s, r) PROVE TypeOK'
  BY <1>1 DEF BeginStep, TypeOK
<1>2. CASE EndStep
  BY <1>2 DEF EndStep, TypeOK
<1>3. ASSUME NEW c \in Calls, TraceLink(c) PROVE TypeOK'
  <2>1. c.from \in Id /\ c.rel \in Rel /\ c.to \in Id
    BY CallsAssumption
  <2>2. who.step \in Step /\ who.run \in Run
    BY <1>3 DEF TraceLink, TypeOK
  <2>3. links' \in Seq(Link)
    <3>1. CASE Store!AddLink(c.from, c.rel, c.to)
      <4>1. Store!Stamped(who, c.from, c.rel, c.to) \in Link
        BY <2>1, <2>2 DEF Store!Stamped, Link
      <4> QED BY <3>1, <4>1 DEF TypeOK, Store!AddLink
    <3>2. CASE Store!RemoveLink(c.from, c.rel, c.to)
      <4>1. PICK i \in DOMAIN links : links' = RemoveAt(links, i)
        BY <3>2 DEF Store!RemoveLink, Store!Holding, Store!RemoveAt, RemoveAt
      <4> QED BY <4>1, RemoveAtProperties DEF TypeOK
    <3> QED BY <1>3, <3>1, <3>2 DEF TraceLink
  <2>4. UNCHANGED <<status, blocks, who>>
    BY <1>3 DEF TraceLink, Store!AddLink, Store!RemoveLink
  <2> QED BY <2>3, <2>4 DEF TypeOK
<1>4. ASSUME NEW id \in BlockId, NEW b \in Written[id], EditBlock(id, b) PROVE TypeOK'
  BY <1>4 DEF EditBlock, TypeOK
<1>5. ASSUME NEW i \in DOMAIN links, HumanDrop(i) PROVE TypeOK'
  BY <1>5, RemoveAtProperties DEF HumanDrop, TypeOK
<1>6. ASSUME NEW f \in File, Approve(f) PROVE TypeOK'
  BY <1>6 DEF Approve, TypeOK
<1>7. CASE UNCHANGED vars
  BY <1>7 DEF vars, TypeOK
<1> QED BY <1>1, <1>2, <1>3, <1>4, <1>5, <1>6, <1>7 DEF Next

\* Every variable keeps its type.
THEOREM TypeCorrect == Spec => []TypeOK
BY InitTypeOK, StepTypeOK, PTL DEF Spec

\* What a lint that passes rules out: an E problem anywhere, and a G problem about a block
\* of an approved file.
LEMMA Passes ==
  ASSUME ~Blocking(FALSE), NEW p \in Problems
  PROVE  p.sev # "E" /\ (p.sev = "G" => status[FileOf(p.about)] # "approved")
BY DEF Blocking, Blocks

LEMMA InCoverage ==
  /\ C1 \subseteq Problems /\ C5 \subseteq Problems
  /\ C6 \subseteq Problems /\ C9 \subseteq Problems
BY DEF Problems, Coverage

LEMMA InFinding ==
  ASSUME NEW f \in Finding, NEW p \in FindingProblems(f)
  PROVE  p \in Problems
BY DEF Problems

\* What the index says of an ID of the spec.
LEMMA EntryOf ==
  ASSUME TypeOK, NEW id \in Id
  PROVE  id.home = "spec" => Entry[id] \in Resolution
<1>1. \A b \in BlockId : blocks[b].state \in Resolution
  BY WrittenAssumption DEF TypeOK
<1>2. "missing" \in Resolution
  BY DEF Resolution
<1>3. ASSUME id.home = "spec", id.prefix # "AC" PROVE blocks[id].state \in Resolution
  BY <1>1, <1>3, WrittenAssumption
<1>4. ASSUME Parents(id) # {} PROVE blocks[CHOOSE r \in Parents(id) : TRUE].state \in Resolution
  <2>1. (CHOOSE r \in Parents(id) : TRUE) \in Parents(id)
    BY <1>4
  <2>2. Parents(id) \subseteq BlockId
    BY DEF Parents
  <2> QED BY <1>1, <2>1, <2>2
<1> QED BY <1>2, <1>3, <1>4 DEF Entry

\* Without a T1 problem the block a link comes from is live.
LEMMA NoT1 ==
  ASSUME TypeOK, ~\E p \in Problems : p.code = "T1", NEW l \in ToSet(links)
  PROVE  Entry[l.from] = "live"
<1>1. l \in Link
  BY DEF ToSet, TypeOK
<1>2. LinkT1(l, Entry) \subseteq Problems
  BY DEF Problems, TraceProblems, LinkProblems, T1
<1>3. \A p \in LinkT1(l, Entry) : p.code = "T1"
  BY DEF LinkT1, Problem
<1>4. LinkT1(l, Entry) = {}
  BY <1>2, <1>3
<1>5. ResolveFrom(Entry, l.from) \notin {"missing", "withdrawn"}
  BY <1>4 DEF LinkT1
<1>6. l.from.home = "spec" /\ Entry[l.from] \notin {"missing", "withdrawn"}
  BY <1>5 DEF ResolveFrom
<1> QED BY <1>1, <1>6, EntryOf DEF Link, Resolution

LEMMA Sources ==
  ASSUME TypeOK, ~\E p \in Problems : p.code = "T1",
         NEW rel, NEW to, NEW l \in ToSet(links), l.rel = rel, l.to \in to
  PROVE  LiveFrom(rel, to) # {}
BY NoT1 DEF LiveFrom

\* Whatever steps and people do after approval, a lint that passes says it is covered.
THEOREM ApprovedIsCoveredHolds == Spec => []ApprovedIsCovered
<1>1. TypeOK => ApprovedIsCovered
  <2> SUFFICES ASSUME TypeOK, Clean PROVE ApprovedIsCovered
    BY DEF ApprovedIsCovered
  <2> USE DEF Clean
  <2>1. ASSUME Approved({"intent", "requirements"}), NEW g \in Live("GOAL"), Must(g)
        PROVE  LiveFrom("derives-from", {g}) # {}
    <3>1. FileOf(g) = "intent" /\ HasReq
      BY <2>1 DEF Live, FileOf, HasReq, Approved
    <3>2. Problem("C1", "G", g) \notin Problems
      BY <2>1, <3>1, Passes DEF Problem, Approved
    <3>3. DerivedFrom(g) # {}
      BY <2>1, <3>1, <3>2, InCoverage DEF C1
    <3> QED BY <3>3, Sources DEF DerivedFrom
  <2>2. ASSUME Approved({"requirements", "design"}), NEW r \in Live("REQ")
        PROVE  LET by == LiveFrom("realizes", {r} \cup blocks[r].acceptance)
               IN  /\ Must(r) \/ blocks[r].type = "nfr" => by # {}
                   /\ blocks[r].priority = "wont" => by = {}
    <3> DEFINE by == LiveFrom("realizes", {r} \cup blocks[r].acceptance)
    <3>1. FileOf(r) = "requirements" /\ HasDesign
      BY <2>2 DEF Live, FileOf, HasDesign, Approved
    <3>2. Problem("C5", "G", r) \notin Problems /\ Problem("C6", "G", r) \notin Problems
      BY <2>2, <3>1, Passes DEF Problem, Approved
    <3>3. Must(r) \/ blocks[r].type = "nfr" => Realized(r)
      BY <2>2, <3>1, <3>2, InCoverage DEF C5, C6
    <3>4. Realized(r) => by # {}
      BY Sources DEF Realized
    <3>5. Problem("C9", "E", r) \notin Problems
      BY Passes DEF Problem
    <3>6. blocks[r].priority = "wont" => ~Realized(r)
      BY <2>2, <3>5, InCoverage DEF C9
    <3>7. by # {} => Realized(r)
      BY DEF LiveFrom, Realized
    <3> QED BY <3>3, <3>4, <3>6, <3>7
  <2> QED BY <2>1, <2>2 DEF ApprovedIsCovered
<1> QED BY <1>1, TypeCorrect, PTL

\* No finding of an approved analysis that lints is open or closed by whom it should not be.
THEOREM PeopleDecideHolds == Spec => []PeopleDecide
<1>1. PeopleDecide
  <2> SUFFICES ASSUME ~Blocking(FALSE), NEW f \in Finding, status[FileOf(f)] = "approved"
               PROVE  /\ blocks[f].severity \in {"blocker", "major"} => Closed(f)
                      /\ Closed(f) /\ IsAgent(blocks[f].by) =>
                           /\ blocks[f].route \notin {"human", "architect"}
                           /\ blocks[f].status = "accepted-risk" => blocks[f].severity # "major"
    BY DEF PeopleDecide
  <2>1. /\ Problem("F1", "G", f) \notin FindingProblems(f)
        /\ Problem("F2", "G", f) \notin FindingProblems(f)
        /\ Problem("F4", "E", f) \notin FindingProblems(f)
    BY InFinding, Passes DEF Problem
  <2>2. ~(~Closed(f) /\ blocks[f].severity = "blocker")
    BY <2>1 DEF FindingProblems
  <2>3. ~F2(f)
    BY <2>1 DEF FindingProblems
  <2>4. ~(Closed(f) /\ blocks[f].route \in {"human", "architect"} /\ IsAgent(blocks[f].by))
    BY <2>1 DEF FindingProblems
  <2> QED BY <2>2, <2>3, <2>4 DEF F2
<1> QED BY <1>1, PTL
=============================================================================
