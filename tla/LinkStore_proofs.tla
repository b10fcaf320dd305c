---------------------------- MODULE LinkStore_proofs ----------------------------
(***************************************************************************)
(* For every choice of IDs, steps, runs and calls: the type of the store,  *)
(* and the two promises of trace_link.                                     *)
(***************************************************************************)
EXTENDS LinkStore, Lemmas, TLAPS

\* The identity is that of a step or none, entry is total and the list holds links.
THEOREM TypeCorrect == Spec => []TypeOK
<1>1. Init => TypeOK
  BY DEF Init, TypeOK
<1>2. TypeOK /\ [Next]_storeVars => TypeOK'
  <2> SUFFICES ASSUME TypeOK, [Next]_storeVars PROVE TypeOK'
    OBVIOUS
  <2>1. ASSUME NEW s \in Step, NEW r \in Run, BeginStep(s, r) PROVE TypeOK'
    BY <2>1 DEF TypeOK, BeginStep, Identity
  <2>2. CASE EndStep
    BY <2>2 DEF TypeOK, EndStep
  <2>3. ASSUME NEW c \in Calls, AddLink(c.from, c.rel, c.to) PROVE TypeOK'
    <3>1. Stamped(who, c.from, c.rel, c.to) \in Link
      BY <2>3, CallsAssumption DEF TypeOK, AddLink, Stamped, Identity, Link
    <3> QED BY <3>1, <2>3 DEF TypeOK, AddLink
  <2>4. ASSUME NEW c \in Calls, RemoveLink(c.from, c.rel, c.to) PROVE TypeOK'
    <3>1. PICK i \in DOMAIN links : links' = RemoveAt(links, i)
      BY <2>4 DEF RemoveLink, Holding
    <3>2. links' \in Seq(Link)
      BY <3>1, RemoveAtProperties DEF TypeOK
    <3> QED BY <3>2, <2>4 DEF TypeOK, RemoveLink
  <2>5. ASSUME NEW id \in Id, NEW res \in Resolution, EditBlock(id, res) PROVE TypeOK'
    BY <2>5 DEF TypeOK, EditBlock
  <2>6. ASSUME NEW l \in HumanLinks, HumanAdd(l) PROVE TypeOK'
    BY <2>6, HumanLinksAssumption DEF TypeOK, HumanAdd, Link
  <2>7. ASSUME NEW i \in DOMAIN links, HumanDrop(i) PROVE TypeOK'
    BY <2>7, RemoveAtProperties DEF TypeOK, HumanDrop
  <2>8. CASE UNCHANGED storeVars
    BY <2>8 DEF TypeOK, storeVars
  <2> QED BY <2>1, <2>2, <2>3, <2>4, <2>5, <2>6, <2>7, <2>8 DEF Next
<1> QED BY <1>1, <1>2, PTL DEF Spec

\* The only actions that write the list in the name of a step, as one case split.
LEMMA StepCases ==
  ASSUME TypeOK, [Next]_storeVars, who # NoOne
  PROVE  \/ links' = links
         \/ \E c \in Calls : AddLink(c.from, c.rel, c.to) \/ RemoveLink(c.from, c.rel, c.to)
<1> QED BY DEF Next, BeginStep, EndStep, EditBlock, HumanAdd, HumanDrop, storeVars

\* Nobody's links but the running step's change while it runs.
THEOREM ForeignLinksPreserved == Spec => ForeignLinksStay
<1>1. TypeOK /\ [Next]_storeVars =>
        [who # NoOne => ForeignLinks(links', who.step) = ForeignLinks(links, who.step)]_storeVars
  <2> SUFFICES ASSUME TypeOK, [Next]_storeVars, who # NoOne
               PROVE  ForeignLinks(links', who.step) = ForeignLinks(links, who.step)
    OBVIOUS
  <2>1. CASE links' = links
    BY <2>1
  <2>2. ASSUME NEW c \in Calls, AddLink(c.from, c.rel, c.to)
        PROVE  ForeignLinks(links', who.step) = ForeignLinks(links, who.step)
    <3> DEFINE new == Stamped(who, c.from, c.rel, c.to)
    <3>1. new \in Link /\ new.by = who.step
      BY <2>2, CallsAssumption DEF TypeOK, AddLink, Stamped, Identity, Link
    <3>2. links' = Append(links, new)
      BY <2>2 DEF AddLink
    <3> HIDE DEF new
    <3>3. ToSet(links') = ToSet(links) \cup {new}
      BY <3>1, <3>2, AppendElements DEF TypeOK
    <3> QED BY <3>1, <3>3 DEF ForeignLinks
  <2>3. ASSUME NEW c \in Calls, RemoveLink(c.from, c.rel, c.to)
        PROVE  ForeignLinks(links', who.step) = ForeignLinks(links, who.step)
    <3>1. PICK i \in DOMAIN links : links[i].by = who.step /\ links' = RemoveAt(links, i)
      BY <2>3 DEF RemoveLink, Holding
    <3>2. /\ ToSet(links') \subseteq ToSet(links)
          /\ ToSet(links) \subseteq ToSet(links') \cup {links[i]}
      BY <3>1, RemoveAtElements DEF TypeOK
    <3> QED BY <3>1, <3>2 DEF ForeignLinks
  <2> QED BY <2>1, <2>2, <2>3, StepCases
<1> QED BY <1>1, TypeCorrect, PTL DEF Spec, ForeignLinksStay

\* A link the tool may add has no T1 and no T2 problem: traceLink's own checks are at
\* least as strict as the linter's (they also refuse what the linter only warns about).
LEMMA AddableIsClean ==
  ASSUME NEW e, NEW w, NEW from, NEW rel, NEW to, Addable(e, w.step, from, rel, to)
  PROVE  LET l == Stamped(w, from, rel, to)
         IN  LinkT1(l, e) = {} /\ RelAllowed(l.rel, l.from, l.to)
BY DEF Addable, Stamped, LinkT1

\* A call of the tool brings no T1, T2 or T3 problem, not even a warning.
THEOREM NoNewLinkProblemsHolds == Spec => NoNewLinkProblems
<1>1. TypeOK /\ [Next]_storeVars =>
        [who # NoOne /\ entry' = entry =>
           LinkProblems(links', entry) \subseteq LinkProblems(links, entry)]_storeVars
  <2> SUFFICES ASSUME TypeOK, [Next]_storeVars, who # NoOne
               PROVE  LinkProblems(links', entry) \subseteq LinkProblems(links, entry)
    OBVIOUS
  <2>1. CASE links' = links
    BY <2>1
  <2>2. ASSUME NEW c \in Calls, AddLink(c.from, c.rel, c.to)
        PROVE  LinkProblems(links', entry) \subseteq LinkProblems(links, entry)
    <3> DEFINE new == Stamped(who, c.from, c.rel, c.to)
    <3>1. new \in Link
      BY <2>2, CallsAssumption DEF TypeOK, AddLink, Stamped, Identity, Link
    <3>2. links' = Append(links, new)
      BY <2>2 DEF AddLink
    <3>3. LinkT1(new, entry) = {} /\ RelAllowed(new.rel, new.from, new.to)
      BY <2>2, AddableIsClean DEF AddLink
    <3>4. \A k \in DOMAIN links : ~SameLink(links[k], new.from, new.rel, new.to)
      BY <2>2 DEF AddLink, Holding, Stamped
    <3> HIDE DEF new
    <3>5. ToSet(links') = ToSet(links) \cup {new}
      BY <3>1, <3>2, AppendElements DEF TypeOK
    <3>6. T1(links', entry) \subseteq T1(links, entry)
      BY <3>3, <3>5 DEF T1
    <3>7. T2(links') \subseteq T2(links)
      BY <3>3, <3>5 DEF T2
    <3>8. T3(links') \subseteq T3(links)
      <4> SUFFICES ASSUME NEW j \in DOMAIN links', NEW k \in 1..(j - 1),
                          SameLink(links'[k], links'[j].from, links'[j].rel, links'[j].to)
                   PROVE  Problem("T3", "E", links'[j]) \in T3(links)
        BY DEF T3
      <4>1. DOMAIN links' = 1..(Len(links) + 1) /\ links'[Len(links) + 1] = new
        BY <3>1, <3>2 DEF TypeOK
      <4>2. \A n \in 1..Len(links) : links'[n] = links[n]
        BY <3>1, <3>2 DEF TypeOK
      <4>3. Len(links) \in Nat /\ DOMAIN links = 1..Len(links)
        BY DEF TypeOK
      <4>4. k \in DOMAIN links /\ links'[k] = links[k]
        BY <4>1, <4>2, <4>3
      <4>5. j # Len(links) + 1
        BY <3>4, <4>1, <4>4
      <4>6. j \in DOMAIN links /\ links'[j] = links[j]
        BY <4>1, <4>2, <4>3, <4>5
      <4> QED BY <4>4, <4>6 DEF T3
    <3> QED BY <3>6, <3>7, <3>8 DEF LinkProblems
  <2>3. ASSUME NEW c \in Calls, RemoveLink(c.from, c.rel, c.to)
        PROVE  LinkProblems(links', entry) \subseteq LinkProblems(links, entry)
    <3>1. PICK i \in DOMAIN links : links' = RemoveAt(links, i)
      BY <2>3 DEF RemoveLink, Holding
    <3>2. ToSet(links') \subseteq ToSet(links)
      BY <3>1, RemoveAtElements DEF TypeOK
    <3>3. T1(links', entry) \subseteq T1(links, entry)
      BY <3>2 DEF T1
    <3>4. T2(links') \subseteq T2(links)
      BY <3>2 DEF T2
    <3>5. T3(links') \subseteq T3(links)
      <4> SUFFICES ASSUME NEW j \in DOMAIN links', NEW k \in 1..(j - 1),
                          SameLink(links'[k], links'[j].from, links'[j].rel, links'[j].to)
                   PROVE  Problem("T3", "E", links'[j]) \in T3(links)
        BY DEF T3
      <4> DEFINE old(n) == IF n < i THEN n ELSE n + 1
      <4>0. /\ links \in Seq(Link) /\ i \in 1..Len(links)
            /\ Len(links) \in Nat /\ DOMAIN links = 1..Len(links)
        BY DEF TypeOK
      <4>1. /\ DOMAIN links' = 1..(Len(links) - 1)
            /\ \A n \in 1..(Len(links) - 1) : links'[n] = links[old(n)]
        <5>1. /\ Len(links') = Len(links) - 1 /\ links' \in Seq(Link)
              /\ \A n \in 1..(Len(links) - 1) :
                   links'[n] = IF n < i THEN links[n] ELSE links[n + 1]
          BY <3>1, <4>0, RemoveAtProperties
        <5> QED BY <5>1
      <4>2. /\ old(j) \in DOMAIN links /\ old(k) \in 1..(old(j) - 1)
            /\ links'[j] = links[old(j)] /\ links'[k] = links[old(k)]
        BY <4>0, <4>1
      <4> HIDE DEF old
      <4>3. SameLink(links[old(k)], links[old(j)].from, links[old(j)].rel, links[old(j)].to)
        BY <4>2
      <4>4. Problem("T3", "E", links[old(j)]) \in T3(links)
        BY <4>2, <4>3 DEF T3
      <4> QED BY <4>2, <4>4
    <3> QED BY <3>3, <3>4, <3>5 DEF LinkProblems
  <2> QED BY <2>1, <2>2, <2>3, StepCases
<1> QED BY <1>1, TypeCorrect, PTL DEF Spec, NoNewLinkProblems
=============================================================================
