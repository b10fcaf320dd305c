------------------------------ MODULE Lint_proofs ------------------------------
(***************************************************************************)
(* What spec-lint makes of an artifact (Artifact) and of the history of a  *)
(* file on its branch (BranchHistory), for every grammar, any lines and    *)
(* however many, and branches of any length and any order of edits,        *)
(* commits, merges and rebases while main moves.                           *)
(*                                                                         *)
(* The parser gives every line to the heading and to the key that a reader *)
(* would, and what the structure rules let pass is complete.               *)
(* ReadsAsWritten speaks of the file, the loop only of its four variables. *)
(* The inductive invariant says what these stand for in the file: sec is   *)
(* the last section line, cur the last heading if it opened a block, last  *)
(* the last key below it, sink that the last heading opened nothing.  A    *)
(* duplicate key has a first of its name in the same block.                *)
(*                                                                         *)
(* CleanIsComplete needs in addition that no rule misses a line the loop   *)
(* lost (LossIsSeen).  The rest follows in each state: AfterAll walks the  *)
(* expected names one by one, so that it ends behind the last only when    *)
(* the names are these; a key of a block is read as its field or as a      *)
(* duplicate that S4 reports; and the lines that add to a key are those    *)
(* that stand below it.                                                    *)
(*                                                                         *)
(* On the branch, IDs stay in a file while it stays on main, and what H5  *)
(* and D15 let pass is accounted for: BranchInv says of the commits that   *)
(* may change a part of the file that it is as they left it, if no other   *)
(* commit changed it.                                                      *)
(***************************************************************************)
EXTENDS Artifact, BranchHistory, Lemmas, SequenceTheorems, FiniteSetTheorems, TLAPS

Roles == {"section", "notes", "title", "block", "malformed", "swallowed", "blank", "loose",
          "dropped", "field", "duplicate", "item", "more", "stray"}
Entry == [role : Roles, of : Nat]
Typed ==
  /\ lines \in Seq(Line)
  /\ place \in Seq(Entry)
  /\ Len(place) = Len(lines)
  /\ sec \in 0..Len(lines) /\ cur \in 0..Len(lines) /\ last \in 0..Len(lines)
  /\ sink \in BOOLEAN

NoHeading(first, end) == \A j \in first..end : ~Heading(j)
NoKey(first, end) == \A j \in first..end : lines[j].t # "key"

SecStands ==
  IF sec = None THEN \A j \in 1..Len(lines) : lines[j].t # "section"
             ELSE SectionOf(sec, Len(lines))
CurStands ==
  cur # None =>
    /\ sec # None /\ ~sink
    /\ lines[cur].t = "block" /\ Heading(cur) /\ SectionOf(sec, cur)
    /\ NoHeading(cur + 1, Len(lines))
SinkStands ==
  cur = None =>
    IF sink
    THEN \E h \in 1..Len(lines) :
           /\ Heading(h) /\ NoHeading(h + 1, Len(lines))
           /\ lines[h].t = "block" => \A s \in 1..h : ~SectionOf(s, h)
    ELSE NoHeading(sec + 1, Len(lines))
LastStands ==
  IF last # None
  THEN /\ cur # None /\ last \in (cur + 1)..Len(lines)
       /\ lines[last].t = "key" /\ NoKey(last + 1, Len(lines))
  ELSE cur # None => NoKey(cur + 1, Len(lines))
Stands == SecStands /\ CurStands /\ SinkStands /\ LastStands

FirstOfName ==
  \A i \in 1..Len(lines) :
    place[i].role = "duplicate" => HasKey(place[i].of, lines[i].key)
AllRead == \A i \in 1..Len(lines) : ReadAt(i)

IInv == Typed /\ Stands /\ FirstOfName /\ AllRead

---------------------------------------------------------------------------
\* One more line leaves the lines before it where they are.
LEMMA Appended ==
  ASSUME Typed, NEW l \in Line, NEW role \in Roles, NEW owner \in Nat, Put(l, role, owner)
  PROVE  /\ lines' \in Seq(Line) /\ place' \in Seq(Entry)
         /\ Len(lines') = Len(lines) + 1 /\ Len(place') = Len(lines')
         /\ \A i \in 1..Len(lines) : lines'[i] = lines[i] /\ place'[i] = place[i]
         /\ lines'[Here] = l /\ place'[Here] = [role |-> role, of |-> owner]
<1> [role |-> role, of |-> owner] \in Entry
  BY DEF Entry
<1> QED BY DEF Typed, Put, Here

\* What a step does to the two sequences.
Grown(l) ==
  /\ Typed /\ l \in Line
  /\ Len(lines') = Len(lines) + 1 /\ Len(place') = Len(lines')
  /\ \A i \in 1..Len(lines) : lines'[i] = lines[i] /\ place'[i] = place[i]
  /\ lines'[Here] = l

\* How a reader takes a line depends on no later line.
LEMMA Settled ==
  ASSUME NEW l, Grown(l)
  PROVE  /\ \A s, i : i \in 1..Len(lines) => (SectionOf(s, i)' <=> SectionOf(s, i))
         /\ \A i \in 1..Len(lines) : InNotesAt(i)' <=> InNotesAt(i)
         /\ \A i \in 1..Len(lines) : Heading(i)' <=> Heading(i)
         /\ \A b, i : i \in 1..Len(lines) => (BlockOf(b, i)' <=> BlockOf(b, i))
         /\ \A k, i : i \in 1..Len(lines) => (KeyOf(k, i)' <=> KeyOf(k, i))
<1> Len(lines) \in Nat
  BY DEF Grown, Typed
<1>1. \A s, i : i \in 1..Len(lines) => (SectionOf(s, i)' <=> SectionOf(s, i))
  <2>1. \A j \in 1..Len(lines) : lines'[j] = lines[j]
    BY DEF Grown
  <2> SUFFICES ASSUME NEW s, NEW i \in 1..Len(lines)
               PROVE  SectionOf(s, i)' <=> SectionOf(s, i)
    OBVIOUS
  <2>2. CASE s \in 1..i
    <3>1. s \in 1..Len(lines) /\ \A j \in (s + 1)..i : j \in 1..Len(lines)
      BY <2>2
    <3> QED BY <2>1, <2>2, <3>1 DEF SectionOf
  <2>3. CASE s \notin 1..i
    BY <2>3 DEF SectionOf
  <2> QED BY <2>2, <2>3
<1>2. \A i \in 1..Len(lines) : InNotesAt(i)' <=> InNotesAt(i)
  BY <1>1 DEF Grown, InNotesAt
<1>3. \A i \in 1..Len(lines) : Heading(i)' <=> Heading(i)
  BY <1>2 DEF Grown, Heading
<1>4. \A h, i : i \in 1..Len(lines) => (Under(h, i)' <=> Under(h, i))
  BY <1>3 DEF Under
<1>5. \A b, i : i \in 1..Len(lines) => (BlockOf(b, i)' <=> BlockOf(b, i))
  <2> SUFFICES ASSUME NEW b, NEW i \in 1..Len(lines)
               PROVE  BlockOf(b, i)' <=> BlockOf(b, i)
    OBVIOUS
  <2>1. CASE b \in 1..(i - 1)
    BY <1>1, <1>4, <2>1 DEF BlockOf, Grown
  <2>2. CASE b \notin 1..(i - 1)
    BY <2>2 DEF BlockOf, Under
  <2> QED BY <2>1, <2>2
<1>6. \A k, i : i \in 1..Len(lines) => (KeyOf(k, i)' <=> KeyOf(k, i))
  <2> SUFFICES ASSUME NEW k, NEW i \in 1..Len(lines)
               PROVE  KeyOf(k, i)' <=> KeyOf(k, i)
    OBVIOUS
  <2>1. CASE k \in 1..(i - 1)
    <3>1. k \in 1..Len(lines) /\ \A j \in (k + 1)..i : j \in 1..Len(lines)
      BY <2>1
    <3>2. \A b : BlockOf(b, k)' /\ BlockOf(b, i)' <=> BlockOf(b, k) /\ BlockOf(b, i)
      BY <3>1, <1>5
    <3>3. \A j \in 1..Len(lines) : lines'[j] = lines[j]
      BY DEF Grown
    <3> QED BY <3>1, <3>2, <3>3 DEF KeyOf
  <2>2. CASE k \notin 1..(i - 1)
    BY <2>2 DEF KeyOf
  <2> QED BY <2>1, <2>2
<1> QED BY <1>1, <1>2, <1>3, <1>5, <1>6

\* Nor does what the loop made of it.
LEMMA SettledRead ==
  ASSUME NEW l, Grown(l), NEW i \in 1..Len(lines), ReadAt(i)
  PROVE  ReadAt(i)'
<1> DEFINE role == place[i].role
           of == place[i].of
<1>0. Len(lines) \in Nat /\ place[i] \in Entry
  BY DEF Grown, Typed
<1>1. /\ place'[i] = place[i] /\ lines'[i] = lines[i]
      /\ \A k \in 1..(i - 1) : lines'[k] = lines[k]
  BY DEF Grown
<1>2. /\ \A s : SectionOf(s, i)' <=> SectionOf(s, i)
      /\ InNotesAt(i)' <=> InNotesAt(i)
      /\ \A j \in 1..i : Heading(j)' <=> Heading(j)
      /\ \A b : BlockOf(b, i)' <=> BlockOf(b, i)
      /\ \A k : KeyOf(k, i)' <=> KeyOf(k, i)
  BY <1>0, Settled
<1>3. of \in Nat /\ \A k \in (of + 1)..(i - 1) : lines'[k] = lines[k]
  BY <1>0, <1>1 DEF Entry
<1>4. ASSUME KeyOf(of, i) PROVE IsList(of)' <=> IsList(of)
  BY <1>0, <1>1, <1>4 DEF KeyOf, IsList
<1>5. \A j \in (of + 1)..i : Heading(j)' <=> Heading(j)
  BY <1>2, <1>3
<1> QED BY <1>0, <1>1, <1>2, <1>3, <1>4, <1>5 DEF ReadAt

LEMMA SettledKeys ==
  ASSUME NEW l, Grown(l), NEW b, NEW key, HasKey(b, key)
  PROVE  HasKey(b, key)'
BY DEF Grown, Typed, HasKey

\* How a reader takes the new line, in terms of what the loop remembers.
LEMMA AtEnd ==
  ASSUME NEW l, Grown(l), Stands, NEW m, m = Here
  PROVE  /\ l.t # "section" => /\ \A s : SectionOf(s, m)' <=> sec # None /\ s = sec
                               /\ InNotesAt(m)' <=> InNotes
         /\ l.t = "section" => SectionOf(m, m)'
         /\ Heading(m)' <=>
              l.t = "section" \/ (l.t \in {"block", "malformed"} /\ ~InNotes)
         /\ \A b : BlockOf(b, m)' <=> ~Heading(m)' /\ cur # None /\ b = cur
         /\ InNotes => cur = None
<1> DEFINE n == Len(lines)
<1>0. /\ n \in Nat /\ m = n + 1 /\ m \in Nat
      /\ sec \in 0..n /\ cur \in 0..n
      /\ lines'[m] = l /\ \A j \in 1..n : lines'[j] = lines[j]
  BY DEF Grown, Typed, Here
<1> HIDE DEF n
<1>1. ASSUME l.t # "section"
      PROVE  /\ \A s : SectionOf(s, m)' <=> sec # None /\ s = sec
             /\ InNotesAt(m)' <=> InNotes
  <2>1. \A s : SectionOf(s, m)' <=> s # m /\ SectionOf(s, n)
    BY <1>0, <1>1 DEF SectionOf
  <2>2. \A s : SectionOf(s, n) <=> sec # None /\ s = sec
    BY <1>0 DEF Stands, SecStands, SectionOf, None, n
  <2>3. \A s : SectionOf(s, m)' <=> sec # None /\ s = sec
    BY <1>0, <2>1, <2>2
  <2> QED BY <1>0, <2>3 DEF InNotesAt, InNotes, None
<1>2. l.t = "section" => SectionOf(m, m)'
  BY <1>0 DEF SectionOf
<1>3. Heading(m)' <=> l.t = "section" \/ (l.t \in {"block", "malformed"} /\ ~InNotes)
  BY <1>0, <1>1 DEF Heading
<1>4. InNotes => cur = None
  BY <1>0 DEF Stands, CurStands, InNotes, InNotesAt, Heading, None, SectionOf
<1>5. ASSUME ~Heading(m)', NEW b
      PROVE  BlockOf(b, m)' <=> cur # None /\ b = cur
  <2>1. BlockOf(b, m)' <=>
          /\ b \in 1..n /\ Heading(b) /\ NoHeading(b + 1, n)
          /\ lines[b].t = "block" /\ \E s \in 1..b : SectionOf(s, b)
    <3>1. \A j \in 1..n : /\ Heading(j)' <=> Heading(j)
                          /\ \A s : SectionOf(s, j)' <=> SectionOf(s, j)
      BY Settled DEF n
    <3>2. ASSUME b \in 1..n
          PROVE  (\A j \in (b + 1)..m : ~Heading(j))' <=> NoHeading(b + 1, n)
      <4>1. \A j \in (b + 1)..n : Heading(j)' <=> Heading(j)
        BY <3>1, <3>2, <1>0
      <4> QED BY <4>1, <3>2, <1>0, <1>5 DEF NoHeading
    <3>3. CASE b \in 1..n
      BY <1>0, <3>1, <3>2, <3>3 DEF BlockOf, Under
    <3>4. CASE b \notin 1..n
      BY <1>0, <3>4 DEF BlockOf, Under
    <3> QED BY <3>3, <3>4
  <2>2. CASE cur # None
    BY <1>0, <2>1, <2>2 DEF Stands, CurStands, NoHeading, None, n, SectionOf
  <2>3. CASE cur = None /\ sink
    BY <1>0, <2>1, <2>3 DEF Stands, SinkStands, NoHeading, None, n
  <2>4. CASE cur = None /\ ~sink
    <3>1. NoHeading(sec + 1, n) /\ (sec # None => Heading(sec) /\ lines[sec].t = "section")
      BY <1>0, <2>4 DEF Stands, SinkStands, SecStands, SectionOf, Heading, n
    <3> QED BY <1>0, <2>1, <2>4, <3>1 DEF NoHeading, None
  <2> QED BY <2>2, <2>3, <2>4
<1>6. ASSUME Heading(m)' PROVE \A b : ~BlockOf(b, m)'
  BY <1>0, <1>6 DEF BlockOf, Under
<1> QED BY <1>1, <1>2, <1>3, <1>4, <1>5, <1>6

---------------------------------------------------------------------------
\* A line that is no heading, and no key of a block, leaves the loop where it was.
LEMMA Stays ==
  ASSUME NEW l, Grown(l), Stands, NEW m, m = Here,
         ~Heading(m)', cur # None => l.t # "key",
         UNCHANGED <<sec, cur, last, sink>>
  PROVE  Stands'
<1> DEFINE n == Len(lines)
<1>0. /\ n \in Nat /\ m = n + 1 /\ Len(lines') = m
      /\ sec \in 0..n /\ cur \in 0..n /\ last \in 0..n
      /\ lines'[m] = l /\ \A j \in 1..n : lines'[j] = lines[j]
      /\ sec' = sec /\ cur' = cur /\ last' = last /\ sink' = sink
  BY DEF Grown, Typed, Here
<1>1. /\ \A j \in 1..n : /\ Heading(j)' <=> Heading(j)
                         /\ \A s : SectionOf(s, j)' <=> SectionOf(s, j)
      /\ l.t # "section"
      /\ \A s : SectionOf(s, m)' <=> sec # None /\ s = sec
  <2>1. l.t # "section"
    BY AtEnd
  <2> QED BY <2>1, AtEnd, Settled
<1>2. ASSUME NEW h \in 0..n, NoHeading(h + 1, n)
      PROVE  \A j \in (h + 1)..m : ~Heading(j)'
  <2> SUFFICES ASSUME NEW j \in (h + 1)..m PROVE ~Heading(j)'
    OBVIOUS
  <2>1. CASE j = m
    BY <2>1
  <2>2. CASE j \in (h + 1)..n
    BY <1>0, <1>1, <1>2, <2>2 DEF NoHeading
  <2> QED BY <1>0, <2>1, <2>2
<1> HIDE DEF n
<1>3. SecStands'
  BY <1>0, <1>1 DEF Stands, SecStands, None, n
<1>4. CurStands'
  <2> SUFFICES ASSUME cur # None
               PROVE  /\ sec # None /\ ~sink
                      /\ lines'[cur].t = "block" /\ Heading(cur)' /\ SectionOf(sec, cur)'
                      /\ \A j \in (cur + 1)..m : ~Heading(j)'
    BY <1>0 DEF CurStands, NoHeading
  <2>1. /\ sec # None /\ ~sink /\ cur \in 1..n
        /\ lines[cur].t = "block" /\ Heading(cur) /\ SectionOf(sec, cur)
        /\ NoHeading(cur + 1, n)
    BY <1>0 DEF Stands, CurStands, None, n
  <2> QED BY <1>0, <1>1, <1>2, <2>1
<1>5. SinkStands'
  <2>1. CASE cur = None /\ sink
    <3>1. PICK h \in 1..n : /\ Heading(h) /\ NoHeading(h + 1, n)
                            /\ lines[h].t = "block" => \A s \in 1..h : ~SectionOf(s, h)
      BY <2>1 DEF Stands, SinkStands, n
    <3> QED BY <1>0, <1>1, <1>2, <2>1, <3>1 DEF SinkStands, NoHeading
  <2>2. CASE cur = None /\ ~sink
    BY <1>0, <1>2, <2>2 DEF Stands, SinkStands, NoHeading, n
  <2> QED BY <1>0, <2>1, <2>2 DEF SinkStands
<1>6. LastStands'
  <2>1. ASSUME cur # None, NEW k \in 1..m, NoKey(k, n)
        PROVE  \A j \in k..m : lines'[j].t # "key"
    BY <1>0, <2>1 DEF NoKey
  <2>2. CASE cur = None
    BY <1>0, <2>2 DEF Stands, LastStands
  <2>3. CASE cur # None /\ last = None
    <3>1. \A j \in (cur + 1)..m : lines'[j].t # "key"
      BY <1>0, <2>1, <2>3 DEF Stands, LastStands, n
    <3> QED BY <1>0, <2>3, <3>1 DEF LastStands, NoKey
  <2>4. CASE cur # None /\ last # None
    <3>1. last \in (cur + 1)..n /\ lines[last].t = "key" /\ NoKey(last + 1, n)
      BY <2>4 DEF Stands, LastStands, n
    <3>2. \A j \in (last + 1)..m : lines'[j].t # "key"
      BY <1>0, <2>1, <2>4, <3>1
    <3> QED BY <1>0, <2>4, <3>1, <3>2 DEF LastStands, NoKey
  <2> QED BY <2>2, <2>3, <2>4
<1> QED BY <1>3, <1>4, <1>5, <1>6 DEF Stands

\* A heading, and a key, is where the loop then stands.
LEMMA Opens ==
  ASSUME NEW l, Grown(l), Stands, NEW m, m = Here,
         NewSection(l) \/ NewBlock(l) \/ BadHeading(l) \/ Key(l)
  PROVE  Stands'
<1> DEFINE n == Len(lines)
<1>0. /\ n \in Nat /\ m = n + 1 /\ Len(lines') = m
      /\ sec \in 0..n /\ cur \in 0..n /\ last \in 0..n
      /\ lines'[m] = l /\ \A j \in 1..n : lines'[j] = lines[j]
  BY DEF Grown, Typed, Here
<1>1. /\ \A j \in 1..n : /\ Heading(j)' <=> Heading(j)
                         /\ \A s : SectionOf(s, j)' <=> SectionOf(s, j)
  BY Settled
<1>2. /\ l.t # "section" => \A s : SectionOf(s, m)' <=> sec # None /\ s = sec
      /\ l.t = "section" => SectionOf(m, m)'
      /\ Heading(m)' <=> l.t = "section" \/ (l.t \in {"block", "malformed"} /\ ~InNotes)
  BY <1>0, AtEnd
<1> HIDE DEF n
<1>3. ASSUME l.t # "section", sec' = sec PROVE SecStands'
  BY <1>0, <1>2, <1>3 DEF Stands, SecStands, None, n
<1>4. CASE NewSection(l)
  <2>1. l.t = "section" /\ cur' = None /\ last' = None /\ sink' = FALSE /\ sec' = m
    BY <1>0, <1>4 DEF NewSection
  <2>2. SecStands'
    BY <1>0, <2>1 DEF SecStands, SectionOf, None
  <2> QED BY <1>0, <2>1, <2>2 DEF Stands, CurStands, SinkStands, LastStands, NoHeading
<1>5. CASE NewBlock(l)
  <2>1. /\ l.t = "block" /\ Heading(m)' /\ sec' = sec /\ sec # None
        /\ cur' = m /\ last' = None /\ sink' = FALSE
    BY <1>0, <1>2, <1>5 DEF NewBlock
  <2>2. CurStands'
    BY <1>0, <1>2, <2>1 DEF CurStands, NoHeading
  <2>3. SinkStands' /\ LastStands'
    BY <1>0, <2>1 DEF SinkStands, LastStands, NoKey, None
  <2> QED BY <1>3, <2>1, <2>2, <2>3 DEF Stands
<1>6. CASE BadHeading(l)
  <2>1. /\ l.t \in {"block", "malformed"} /\ Heading(m)' /\ sec' = sec
        /\ l.t = "block" => sec = None
        /\ cur' = None /\ last' = None /\ sink' = TRUE
    BY <1>0, <1>2, <1>6 DEF BadHeading
  <2>2. SinkStands'
    <3>1. l.t = "block" => \A s \in 1..m : ~SectionOf(s, m)'
      BY <1>2, <2>1
    <3>2. m \in 1..m /\ \A j \in (m + 1)..m : ~Heading(j)'
      BY <1>0
    <3> QED BY <1>0, <2>1, <3>1, <3>2 DEF SinkStands, NoHeading
  <2>3. CurStands' /\ LastStands'
    BY <2>1 DEF CurStands, LastStands
  <2> QED BY <1>3, <2>1, <2>2, <2>3 DEF Stands
<1>7. CASE Key(l)
  <2>1. /\ l.t = "key" /\ ~Heading(m)' /\ sec' = sec /\ cur' = cur /\ sink' = sink
        /\ cur # None /\ last' = m
    BY <1>0, <1>2, <1>7 DEF Key, InBlock
  <2>2. cur \in 1..n /\ sec # None /\ ~sink /\ lines[cur].t = "block" /\ Heading(cur)
        /\ SectionOf(sec, cur) /\ NoHeading(cur + 1, n)
    BY <1>0, <2>1 DEF Stands, CurStands, None, n
  <2>3. \A j \in (cur + 1)..m : ~Heading(j)'
    BY <1>0, <1>1, <2>1, <2>2 DEF NoHeading
  <2>4. CurStands'
    BY <1>0, <1>1, <2>1, <2>2, <2>3 DEF CurStands, NoHeading
  <2>5. SinkStands' /\ LastStands'
    BY <1>0, <2>1, <2>2 DEF SinkStands, LastStands, NoKey, None
  <2> QED BY <1>3, <2>1, <2>4, <2>5 DEF Stands
<1> QED BY <1>4, <1>5, <1>6, <1>7

---------------------------------------------------------------------------
\* Every branch of the loop gives the line a role and a line that owns it.
LEMMA Writes ==
  ASSUME Typed, NEW l \in Line, Read(l)
  PROVE  Grown(l) /\ Typed' /\ \E role \in Roles, owner \in Nat : Put(l, role, owner)
<1>0. /\ Len(lines) \in Nat /\ sec \in Nat /\ cur \in Nat /\ last \in Nat /\ None \in Nat
      /\ Here = Len(lines) + 1
  BY DEF Typed, None, Here
<1>1. PICK role \in Roles, owner \in Nat : Put(l, role, owner)
  <2> DEFINE Written == \E role \in Roles, owner \in Nat : Put(l, role, owner)
  <2>1. CASE NewSection(l) \/ Title(l) \/ Swallow(l) \/ SkipBlank(l) \/ BadHeading(l)
    <3>1. \/ Put(l, "section", None) \/ Put(l, "title", None) \/ Put(l, "swallowed", None)
          \/ Put(l, "blank", None) \/ Put(l, "malformed", None)
      BY <2>1 DEF NewSection, Title, Swallow, SkipBlank, BadHeading
    <3> QED BY <1>0, <3>1, Zenon DEF Roles
  <2>2. CASE SkipNotes(l) \/ NewBlock(l) \/ Loose(l)
    <3>1. \/ Put(l, "notes", sec) \/ Put(l, "block", sec)
          \/ Put(l, "loose", sec) \/ Put(l, "dropped", sec)
      BY <2>2 DEF SkipNotes, NewBlock, Loose
    <3> QED BY <1>0, <3>1, Zenon DEF Roles
  <2>3. CASE Key(l) \/ More(l) \/ Stray(l)
    <3>1. \/ Put(l, "duplicate", cur) \/ Put(l, "field", cur)
          \/ Put(l, "item", last) \/ Put(l, "more", last) \/ Put(l, "stray", cur)
      BY <2>3 DEF Key, More, Stray
    <3> QED BY <1>0, <3>1, Zenon DEF Roles
  <2> QED BY <2>1, <2>2, <2>3 DEF Read
<1>2. Grown(l) /\ lines' \in Seq(Line) /\ place' \in Seq(Entry)
  BY <1>1, Appended DEF Grown
<1>3. /\ sec' \in 0..Len(lines') /\ cur' \in 0..Len(lines') /\ last' \in 0..Len(lines')
      /\ sink' \in BOOLEAN
  <2>1. /\ sec' \in {sec, Here} /\ cur' \in {cur, None, Here} /\ last' \in {last, None, Here}
        /\ sink' \in {sink, TRUE, FALSE}
    BY DEF Read, NewSection, SkipNotes, Title, NewBlock, BadHeading, Swallow, SkipBlank, Loose,
           Key, More, Stray
  <2>2. Len(lines') = Here /\ sec \in 0..Here /\ cur \in 0..Here /\ last \in 0..Here
    BY <1>0, <1>2 DEF Typed, Grown
  <2>3. sink' \in BOOLEAN
    BY <2>1, Zenon DEF Typed
  <2>4. None \in 0..Here /\ Here \in 0..Here
    BY <1>0 DEF None
  <2> QED BY <2>1, <2>2, <2>3, <2>4
<1> QED BY <1>1, <1>2, <1>3 DEF Typed, Grown

\* Every branch keeps the loop where it stands in the file.
LEMMA ReadsLine ==
  ASSUME Typed, Stands, NEW l \in Line, Read(l)
  PROVE  Stands'
<1>0. Grown(l)
  BY Writes
<1>1. CASE NewSection(l) \/ NewBlock(l) \/ BadHeading(l) \/ Key(l)
  BY <1>0, <1>1, Opens
<1>2. ASSUME SkipNotes(l) \/ Title(l) \/ Swallow(l) \/ SkipBlank(l) \/ Loose(l)
               \/ More(l) \/ Stray(l)
      PROVE  Stands'
  <2>1. PICK m : m = Here
    OBVIOUS
  <2>2. UNCHANGED <<sec, cur, last, sink>>
    BY <1>2 DEF SkipNotes, Title, Swallow, SkipBlank, Loose, More, Stray
  <2>3. l.t # "section" /\ (l.t \in {"block", "malformed"} => InNotes)
    BY <1>2 DEF SkipNotes, Title, Swallow, SkipBlank, Loose, More, Stray, InBlock, IsText
  <2>4. ~Heading(m)'
    BY <1>0, <2>1, <2>3, AtEnd
  <2>5. cur # None => l.t # "key" /\ sec # None /\ ~sink /\ ~InNotes
    <3>1. cur # None => sec # None /\ ~sink /\ ~InNotes
      BY <1>0, <2>1, AtEnd DEF Stands, CurStands
    <3> QED BY <1>2, <3>1
            DEF SkipNotes, Title, Swallow, SkipBlank, Loose, More, Stray, Attaches
  <2> QED BY <1>0, <2>1, <2>2, <2>4, <2>5, Stays
<1> QED BY <1>1, <1>2 DEF Read

\* In the block that is read, the keys are its lines of that form.
LEMMA KeysOfBlock ==
  ASSUME IInv, cur # None, NEW k \in 1..Len(lines), lines[k].t = "key", k > cur
  PROVE  /\ BlockOf(cur, k) /\ place[k].of = cur
         /\ place[k].role \in {"field", "duplicate"} /\ HasKey(cur, lines[k].key)
<1>0. Len(lines) \in Nat /\ cur \in 1..Len(lines) /\ place[k] \in Entry /\ DOMAIN place = 1..Len(lines)
  BY DEF IInv, Typed, None
<1>1. /\ lines[cur].t = "block" /\ Heading(cur) /\ SectionOf(sec, cur)
      /\ NoHeading(cur + 1, Len(lines))
  BY DEF IInv, Stands, CurStands
<1>2. BlockOf(cur, k)
  BY <1>0, <1>1 DEF BlockOf, Under, NoHeading, SectionOf
<1>3. \A b : BlockOf(b, k) => b = cur
  BY <1>0, <1>1, <1>2 DEF BlockOf, Under, NoHeading
<1>4. ReadAt(k)
  BY DEF IInv, AllRead
<1>5. place[k].role \in {"field", "duplicate"}
  <2>1. place[k].role \in {"field", "duplicate", "item", "more", "stray"}
    BY <1>0, <1>2, <1>4 DEF ReadAt
  <2>2. place[k].role \notin {"item", "more", "stray"}
    BY <1>0, <1>4 DEF ReadAt, KeyOf
  <2> QED BY <2>1, <2>2
<1>6. place[k].of = cur
  BY <1>3, <1>4, <1>5 DEF ReadAt
<1>7. HasKey(cur, lines[k].key)
  <2>1. CASE place[k].role = "field"
    BY <1>0, <1>6, <2>1 DEF HasKey, Entry
  <2>2. CASE place[k].role = "duplicate"
    BY <1>6, <2>2 DEF IInv, FirstOfName
  <2> QED BY <1>5, <2>1, <2>2
<1> QED BY <1>2, <1>5, <1>6, <1>7

\* And a field of the block is one of its lines.
LEMMA FieldsInBlock ==
  ASSUME IInv, cur # None, NEW key, HasKey(cur, key)
  PROVE  \E k \in (cur + 1)..Len(lines) : lines[k].t = "key" /\ lines[k].key = key
<1>0. Len(lines) \in Nat /\ DOMAIN place = 1..Len(lines) /\ cur \in Nat
  BY DEF IInv, Typed
<1>1. PICK k \in 1..Len(lines) : place[k] = [role |-> "field", of |-> cur] /\ lines[k].key = key
  BY <1>0 DEF HasKey
<1>2. ReadAt(k)
  BY DEF IInv, AllRead
<1>3. lines[k].t = "key" /\ BlockOf(cur, k)
  BY <1>1, <1>2 DEF ReadAt
<1> QED BY <1>0, <1>1, <1>3 DEF BlockOf, Under

\* Every branch takes the new line as a reader would.
LEMMA NewRead ==
  ASSUME IInv, NEW l \in Line, Read(l), NEW m, m = Here
  PROVE  /\ ReadAt(m)'
         /\ place'[m].role = "duplicate" => HasKey(place[m].of, lines[m].key)'
<1> DEFINE n == Len(lines)
           role == place'[m].role
           of == place'[m].of
<1>0. /\ Grown(l) /\ Typed /\ Typed' /\ Stands /\ Stands'
      /\ n \in Nat /\ m = n + 1 /\ lines'[m] = l /\ sec \in 0..n /\ cur \in 0..n /\ last \in 0..n
      /\ \A j \in 1..n : lines'[j] = lines[j] /\ place'[j] = place[j]
  <2>1. Typed /\ Stands
    BY DEF IInv
  <2>2. Grown(l) /\ Typed' /\ Stands'
    BY <2>1, Writes, ReadsLine
  <2> QED BY <2>1, <2>2 DEF Typed, Grown, Here
<1>1. /\ l.t # "section" => /\ \A s : SectionOf(s, m)' <=> sec # None /\ s = sec
                            /\ InNotesAt(m)' <=> InNotes
      /\ l.t = "section" => SectionOf(m, m)'
      /\ Heading(m)' <=> l.t = "section" \/ (l.t \in {"block", "malformed"} /\ ~InNotes)
      /\ \A b : BlockOf(b, m)' <=> ~Heading(m)' /\ cur # None /\ b = cur
  BY <1>0, AtEnd
<1>2. /\ cur # None => cur \in 1..n /\ sec # None /\ ~sink /\ ~InNotes
      /\ InNotes => sec # None
  BY <1>0, AtEnd DEF Stands, CurStands, InNotes, None
<1>3. \A r \in Roles, o \in Nat : Put(l, r, o) => role = r /\ of = o
  <2> SUFFICES ASSUME NEW r \in Roles, NEW o \in Nat, Put(l, r, o)
               PROVE  role = r /\ of = o
    OBVIOUS
  <2>1. place'[m] = [role |-> r, of |-> o]
    BY <1>0, Appended
  <2> QED BY <2>1
<1> HIDE DEF n, role, of
<1>4. (\E b \in 1..m : BlockOf(b, m)') <=> ~Heading(m)' /\ cur # None
  BY <1>0, <1>1, <1>2
<1>5. ASSUME role \in {"section", "title", "swallowed", "blank", "dropped"},
             InNotesAt(m)' => l.t = "section", Heading(m)' => l.t = "section",
             l.t = "blank" \/ cur = None \/ Heading(m)'
      PROVE  ReadAt(m)' /\ role # "duplicate"
  BY <1>0, <1>1, <1>2, <1>4, <1>5 DEF ReadAt, role
<1>6. CASE NewSection(l)
  <2>1. role = "section" /\ l.t = "section"
    BY <1>3, <1>6 DEF NewSection, Roles, None
  <2> QED BY <1>1, <1>5, <2>1 DEF role
<1>7. CASE Title(l)
  <2>1. role = "title" /\ l.t = "title" /\ sec = None
    BY <1>3, <1>7 DEF Title, Roles, None
  <2> QED BY <1>1, <1>2, <1>5, <2>1 DEF role
<1>8. CASE Swallow(l) \/ SkipBlank(l) \/ (Loose(l) /\ sec = None)
  <2>1. /\ role \in {"swallowed", "blank", "dropped"} /\ IsText(l)
        /\ l.t = "blank" \/ cur = None
    BY <1>0, <1>2, <1>3, <1>8 DEF Swallow, SkipBlank, Loose, Roles, None
  <2> QED BY <1>1, <1>5, <2>1 DEF role, IsText
<1>9. CASE SkipNotes(l)
  <2>1. role = "notes" /\ l.t # "section" /\ InNotes /\ cur = None
    BY <1>0, <1>2, <1>3, <1>9 DEF SkipNotes, Roles
  <2> QED BY <1>0, <1>1, <1>4, <2>1 DEF ReadAt, role
<1>10. CASE NewBlock(l)
  <2>1. role = "block" /\ of = sec /\ l.t = "block" /\ ~InNotes /\ sec # None
    BY <1>0, <1>3, <1>10 DEF NewBlock, Roles
  <2> QED BY <1>0, <1>1, <1>4, <2>1 DEF ReadAt, role, of
<1>11. CASE BadHeading(l)
  <2>1. role = "malformed" /\ l.t \in {"block", "malformed"} /\ ~InNotes
    BY <1>0, <1>3, <1>11 DEF BadHeading, Roles, None
  <2> QED BY <1>0, <1>1, <1>4, <2>1 DEF ReadAt, role
<1>12. CASE Loose(l) /\ sec # None
  <2>1. /\ role = "loose" /\ of = sec /\ IsText(l) /\ cur = None /\ ~sink
        /\ cur' = cur /\ sink' = sink /\ sec' = sec /\ Len(lines') = m
    BY <1>0, <1>3, <1>12 DEF Loose, Roles, Grown, n
  <2>2. \A j \in (of + 1)..m : ~Heading(j)'
    BY <1>0, <2>1 DEF Stands, SinkStands, NoHeading
  <2>3. ~Heading(m)' /\ ~InNotesAt(m)' /\ \A s : s = of => SectionOf(s, m)'
    BY <1>1, <1>12, <2>1 DEF IsText
  <2> QED BY <1>0, <1>1, <1>4, <2>1, <2>2, <2>3 DEF ReadAt, role, of
<1>13. ASSUME InBlock(l)
       PROVE  /\ l.t \notin {"section", "block", "malformed", "blank"} /\ ~InNotes
              /\ cur \in 1..n /\ ~Heading(m)' /\ ~InNotesAt(m)'
              /\ \A b : BlockOf(b, m)' <=> b = cur
  BY <1>1, <1>2, <1>13 DEF InBlock, IsText
<1>14. CASE Key(l)
  <2>1. /\ InBlock(l) /\ l.t = "key" /\ of = cur /\ role \in {"field", "duplicate"}
        /\ role = "duplicate" <=> HasKey(cur, l.key)
    BY <1>0, <1>3, <1>14 DEF Key, Roles
  <2>2. HasKey(cur, l.key) <=>
          \E k \in (cur + 1)..n : lines[k].t = "key" /\ lines[k].key = l.key
    BY <1>0, <1>13, <2>1, KeysOfBlock, FieldsInBlock DEF None, n
  <2>3. HasKey(cur, l.key) <=>
          \E k \in (cur + 1)..(m - 1) : lines'[k].t = "key" /\ lines'[k].key = l.key
    BY <1>0, <1>13, <2>1, <2>2
  <2>4. \A b, key : HasKey(b, key) => HasKey(b, key)'
    BY <1>0, SettledKeys
  <2> QED BY <1>0, <1>1, <1>4, <1>13, <2>1, <2>3, <2>4 DEF ReadAt, role, of
<1>15. CASE Stray(l)
  <2>1. InBlock(l) /\ role = "stray" /\ of = cur /\ l.t # "key"
    BY <1>0, <1>3, <1>15 DEF Stray, Roles
  <2> QED BY <1>0, <1>1, <1>4, <1>13, <2>1 DEF ReadAt, role, of
<1>16. CASE More(l)
  <2>1. /\ InBlock(l) /\ of = last /\ last # None /\ l.t \in {"item", "indented"}
        /\ role = IF IsList(last) THEN "item" ELSE "more"
    BY <1>0, <1>3, <1>16 DEF More, Attaches, Roles
  <2>2. PICK b, k : b = cur /\ k = last
    OBVIOUS
  <2>3. /\ b \in 1..n /\ k \in (b + 1)..n /\ lines[k].t = "key"
        /\ NoKey(k + 1, n)
    BY <1>13, <2>1, <2>2 DEF IInv, Stands, LastStands, n
  <2>4. BlockOf(b, k)
    BY <1>0, <1>13, <2>1, <2>2, <2>3, KeysOfBlock DEF None, n
  <2>5. BlockOf(b, k)' /\ BlockOf(b, m)'
    BY <1>0, <1>13, <2>1, <2>2, <2>3, <2>4, Settled DEF n
  <2>6. \A j \in (k + 1)..m : lines'[j].t # "key"
    BY <1>0, <2>1, <2>3 DEF NoKey
  <2>7. KeyOf(k, m)' /\ (IsList(k)' <=> IsList(last))
    BY <1>0, <2>2, <2>3, <2>5, <2>6 DEF KeyOf, IsList
  <2> QED BY <1>0, <1>1, <1>4, <1>13, <2>1, <2>2, <2>7 DEF ReadAt, role, of
<1> QED BY <1>6, <1>7, <1>8, <1>9, <1>10, <1>11, <1>12, <1>14, <1>15, <1>16 DEF Read

\* The theorem's step.
LEMMA IInvStep == IInv /\ [Next]_vars => IInv'
<1>1. ASSUME IInv, UNCHANGED vars PROVE IInv'
  <2>1. Typed'
    BY <1>1 DEF IInv, vars, Typed
  <2>2. \A i : Heading(i)' <=> Heading(i)
    BY <1>1 DEF vars, Heading, InNotesAt, SectionOf
  <2>3. Stands'
    BY <1>1, <2>2 DEF IInv, vars, Stands, SecStands, CurStands, SinkStands, LastStands,
                NoHeading, NoKey, SectionOf
  <2>4. FirstOfName'
    BY <1>1 DEF IInv, vars, FirstOfName, HasKey
  <2>5. \A h, i : Under(h, i)' <=> Under(h, i)
    BY <2>2 DEF Under
  <2>6. \A b, i : BlockOf(b, i)' <=> BlockOf(b, i)
    BY <1>1, <2>5 DEF vars, BlockOf, SectionOf
  <2>7. \A k, i : KeyOf(k, i)' <=> KeyOf(k, i)
    BY <1>1, <2>6 DEF vars, KeyOf
  <2>8. AllRead'
    BY <1>1, <2>2, <2>6, <2>7 DEF IInv, vars, AllRead, ReadAt, IsList, SectionOf, InNotesAt
  <2> QED BY <2>1, <2>3, <2>4, <2>8 DEF IInv
<1>2. ASSUME IInv, NEW l \in Line, Read(l) PROVE IInv'
  <2>1. PICK m : m = Here
    OBVIOUS
  <2>2. Grown(l) /\ Typed' /\ Stands'
    BY <1>2, Writes, ReadsLine DEF IInv
  <2>3. \A i \in 1..Len(lines') : i \in 1..Len(lines) \/ i = m
    BY <2>1, <2>2 DEF Grown, Typed, Here
  <2>4. AllRead'
    <3>1. \A i \in 1..Len(lines) : ReadAt(i)'
      BY <1>2, <2>2, SettledRead DEF IInv, AllRead
    <3>2. ReadAt(m)'
      BY <1>2, <2>1, NewRead
    <3> QED BY <2>3, <3>1, <3>2 DEF AllRead
  <2>5. FirstOfName'
    <3>1. ASSUME NEW i \in 1..Len(lines), place'[i].role = "duplicate"
          PROVE  HasKey(place[i].of, lines[i].key)'
      <4>1. place'[i] = place[i] /\ lines'[i] = lines[i]
        BY <2>2 DEF Grown
      <4>2. HasKey(place[i].of, lines[i].key)
        BY <1>2, <3>1, <4>1 DEF IInv, FirstOfName
      <4>3. \A b, key : HasKey(b, key) => HasKey(b, key)'
        BY <2>2, SettledKeys
      <4> QED BY <4>1, <4>2, <4>3
    <3>2. place'[m].role = "duplicate" => HasKey(place[m].of, lines[m].key)'
      BY <1>2, <2>1, NewRead
    <3> QED BY <2>3, <3>1, <3>2 DEF FirstOfName
  <2> QED BY <2>2, <2>4, <2>5 DEF IInv
<1> QED BY <1>1, <1>2 DEF Next

LEMMA InitIs == Init => IInv
<1> SUFFICES ASSUME Init PROVE IInv
  OBVIOUS
<1>1. sec = None /\ cur = None /\ last = None /\ sink = FALSE
  BY DEF Init
<1>2. lines = <<>> /\ Len(lines) = 0 /\ lines \in Seq(Line) /\ Len(place) = 0 /\ place \in Seq(Entry)
  BY DEF Init
<1>3. Typed
  <2>1. 0 \in 0..0 /\ None = 0
    BY DEF None
  <2>2. sink \in BOOLEAN
    BY <1>1
  <2> QED BY <1>1, <1>2, <2>1, <2>2, Zenon DEF Typed
<1> QED BY <1>1, <1>2, <1>3 DEF IInv, Stands, SecStands, CurStands, SinkStands, LastStands,
                          NoHeading, FirstOfName, AllRead, None

\* Every file, whatever its lines: the parser takes each line as a reader does.
THEOREM ParserReadsAsWritten == Spec => []ReadsAsWritten
<1>1. IInv => ReadsAsWritten
  BY DEF IInv, Typed, AllRead, ReadsAsWritten
<1> QED BY <1>1, InitIs, IInvStep, PTL DEF Spec

---------------------------------------------------------------------------
\* What the rules see of the lines that are lost: no section line is, nothing is swallowed but
\* under a malformed heading, and only lines above the first section are dropped without a word.
LossIsSeen ==
  /\ sink => Placed("malformed") # {}
  /\ \A i \in 1..Len(lines) :
       /\ lines[i].t = "section" => place[i].role = "section"
       /\ place[i].role = "swallowed" => Placed("malformed") # {}
       /\ place[i].role \in {"title", "dropped"} => \A s \in 1..i : lines[s].t # "section"

LEMMA NewRole ==
  ASSUME Typed, NEW l \in Line, Read(l)
  PROVE  LET role == place'[Here].role
         IN  /\ l.t = "section" => role = "section"
             /\ role = "swallowed" => sink
             /\ role \in {"title", "dropped"} => sec = None /\ l.t # "section"
             /\ sink' => sink \/ role = "malformed"
<1> DEFINE role == place'[Here].role
<1>0. sec \in Nat /\ cur \in Nat /\ last \in Nat /\ None \in Nat
  BY DEF Typed, None
<1>1. \A r \in Roles, o \in Nat : Put(l, r, o) => role = r
  <2> SUFFICES ASSUME NEW r \in Roles, NEW o \in Nat, Put(l, r, o)
               PROVE  role = r
    OBVIOUS
  <2>1. place'[Here] = [role |-> r, of |-> o]
    BY Appended
  <2> QED BY <2>1
<1> SUFFICES /\ l.t = "section" => role = "section"
             /\ role = "swallowed" => sink
             /\ role \in {"title", "dropped"} => sec = None /\ l.t # "section"
             /\ sink' => sink \/ role = "malformed"
  OBVIOUS
<1> HIDE DEF role
<1>2. CASE Swallow(l)
  BY <1>0, <1>1, <1>2 DEF Swallow, IsText, Roles
<1>3. CASE Title(l)
  BY <1>0, <1>1, <1>3 DEF Title, Roles
<1>4. CASE Loose(l)
  BY <1>0, <1>1, <1>4 DEF Loose, IsText, Roles
<1>5. CASE BadHeading(l)
  BY <1>0, <1>1, <1>5 DEF BadHeading, Roles
<1>6. CASE NewSection(l) \/ SkipNotes(l) \/ NewBlock(l) \/ SkipBlank(l)
  <2>1. /\ role \in {"section", "notes", "block", "blank"} /\ (sink' => sink)
        /\ l.t = "section" => role = "section"
    BY <1>0, <1>1, <1>6 DEF NewSection, SkipNotes, NewBlock, SkipBlank, IsText, Roles
  <2> QED BY <2>1
<1>7. CASE Key(l)
  <2>1. role \in {"duplicate", "field"} /\ sink' = sink /\ l.t # "section"
    BY <1>0, <1>1, <1>7 DEF Key, Roles
  <2> QED BY <2>1
<1>8. CASE More(l) \/ Stray(l)
  <2>1. role \in {"item", "more", "stray"} /\ sink' = sink /\ l.t # "section"
    BY <1>0, <1>1, <1>8 DEF More, Stray, InBlock, IsText, Roles
  <2> QED BY <2>1
<1> QED BY <1>2, <1>3, <1>4, <1>5, <1>6, <1>7, <1>8 DEF Read

LEMMA LossStep == IInv /\ LossIsSeen /\ [Next]_vars => LossIsSeen'
<1>1. ASSUME LossIsSeen, UNCHANGED vars PROVE LossIsSeen'
  BY <1>1 DEF LossIsSeen, vars, Placed
<1>2. ASSUME IInv, LossIsSeen, NEW l \in Line, Read(l) PROVE LossIsSeen'
  <2>1. PICK m : m = Here
    OBVIOUS
  <2>2. Grown(l) /\ Typed /\ Stands
    BY <1>2, Writes DEF IInv
  <2>3. /\ Len(lines) \in Nat /\ m = Len(lines) + 1 /\ Len(lines') = m
        /\ DOMAIN place = 1..Len(lines) /\ DOMAIN place' = 1..m
        /\ \A i \in 1..Len(lines) : lines'[i] = lines[i] /\ place'[i] = place[i]
        /\ lines'[m] = l
    BY <1>2, <2>1, <2>2, Writes DEF Grown, Typed, Here
  <2>4. /\ l.t = "section" => place'[m].role = "section"
        /\ place'[m].role = "swallowed" => sink
        /\ place'[m].role \in {"title", "dropped"} => sec = None /\ l.t # "section"
        /\ sink' => sink \/ place'[m].role = "malformed"
    BY <1>2, <2>1, <2>2, NewRole
  <2>5. /\ Placed("malformed") # {} => Placed("malformed")' # {}
        /\ place'[m].role = "malformed" => Placed("malformed")' # {}
    BY <2>3 DEF Placed
  <2>6. sec = None => \A s \in 1..Len(lines) : lines[s].t # "section"
    BY <2>2 DEF Stands, SecStands
  <2>7. ASSUME NEW i \in 1..m
        PROVE  /\ lines'[i].t = "section" => place'[i].role = "section"
               /\ place'[i].role = "swallowed" => Placed("malformed")' # {}
               /\ place'[i].role \in {"title", "dropped"} => \A s \in 1..i : lines'[s].t # "section"
    <3>1. CASE i = m
      <4>1. \A s \in 1..m : s = m \/ s \in 1..Len(lines)
        BY <2>3
      <4> QED BY <1>2, <2>3, <2>4, <2>5, <2>6, <3>1, <4>1 DEF LossIsSeen
    <3>2. CASE i \in 1..Len(lines)
      <4>1. \A s \in 1..i : s \in 1..Len(lines)
        BY <2>3, <3>2
      <4> QED BY <1>2, <2>3, <2>5, <3>2, <4>1 DEF LossIsSeen
    <3> QED BY <2>3, <3>1, <3>2
  <2>8. sink' => Placed("malformed")' # {}
    BY <1>2, <2>4, <2>5 DEF LossIsSeen
  <2> QED BY <2>3, <2>7, <2>8 DEF LossIsSeen
<1> QED BY <1>1, <1>2 DEF Next

\* InOrder has as many places as the set has members, and each of them in one.
LEMMA InOrderIs ==
  ASSUME NEW S \in SUBSET Nat, IsFiniteSet(S)
  PROVE  /\ Cardinality(S) \in Nat
         /\ DOMAIN InOrder(S) = 1..Cardinality(S) /\ Len(InOrder(S)) = Cardinality(S)
         /\ \A i \in S : \E n \in 1..Cardinality(S) : InOrder(S)[n] = i
<1>1. Cardinality(S) \in Nat /\ Lists(InOrder(S), S, Cardinality(S))
  BY InOrderLists
<1>2. /\ InOrder(S) \in [1..Cardinality(S) -> S]
      /\ \A i \in S : \E n \in 1..Cardinality(S) : InOrder(S)[n] = i
  BY <1>1 DEF Lists
<1> QED BY <1>1, <1>2

---------------------------------------------------------------------------
\* SelectInSeq finds the first place I of a value, or 0.
LEMMA FoundIn ==
  ASSUME NEW s, Len(s) \in Nat, NEW x, NEW p, NEW I,
         \A i : i \in I <=> i \in 1..Len(s) /\ s[i] = x, p = IF I # {} THEN Min(I) ELSE 0
  PROVE  /\ p \in 0..Len(s)
         /\ p # 0 => s[p] = x
         /\ \A i \in 1..Len(s) : s[i] = x => p # 0 /\ p <= i
<1>2. CASE I # {}
  <2>1. I \in SUBSET Nat
    OBVIOUS
  <2>2. \E y \in I : \A z \in I : y <= z
    BY <1>2, <2>1, Least
  <2>3. Min(I) \in I /\ \A z \in I : Min(I) <= z
    BY <2>2 DEF Min
  <2>4. p \in I /\ \A z \in I : p <= z
    BY <1>2, <2>3
  <2>5. p \in 1..Len(s) /\ s[p] = x
    BY <2>4
  <2>6. \A i \in 1..Len(s) : s[i] = x => p <= i
    BY <2>4
  <2>7. p # 0 /\ p \in 0..Len(s)
    BY <2>5
  <2> QED BY <2>5, <2>6, <2>7
<1>3. CASE I = {}
  BY <1>3
<1> QED BY <1>2, <1>3

LEMMA ExpectedIs ==
  /\ Len(Sections) \in Nat /\ DOMAIN Sections = 1..Len(Sections)
  /\ Expected = [i \in 1..Len(Sections) |-> Sections[i].name]
  /\ Len(Expected) = Len(Sections) /\ DOMAIN Expected = 1..Len(Sections)
  /\ Expected \in Seq(STRING)
<1> DEFINE S == [name : STRING, nonEmpty : BOOLEAN, prefixes : SUBSET STRING]
<1>1. Sections \in Seq(S)
  BY SectionsAssumption
<1>2. \A i \in 1..Len(Sections) : Sections[i].name \in STRING
  <2>1. \A i \in 1..Len(Sections) : Sections[i] \in S
    <3> HIDE DEF S
    <3> QED BY <1>1
  <2> QED BY <2>1
<1>3. Len(Sections) \in Nat /\ DOMAIN Sections = 1..Len(Sections)
  <2> HIDE DEF S
  <2> QED BY <1>1
<1>4. Expected = [i \in 1..Len(Sections) |-> Sections[i].name]
  BY <1>3 DEF Expected
<1>5. Expected \in Seq(STRING) /\ Len(Expected) = Len(Sections)
  BY <1>2, <1>3, <1>4
<1> QED BY <1>3, <1>4, <1>5

LEMMA NamesIn ==
  \E W : /\ Expected \in Seq(W) /\ "Notes" \in W
         /\ \A j \in 1..Len(Sections) : Expected[j] \in W
<1> DEFINE n == Len(Sections)
<1>1. PICK W : W = {Expected[j] : j \in 1..n} \cup {"Notes"}
  OBVIOUS
<1>2. n \in Nat /\ Expected = [j \in 1..n |-> Expected[j]]
  BY ExpectedIs
<1>3. \A j \in 1..n : Expected[j] \in W
  BY <1>1
<1> HIDE DEF n
<1>4. Expected \in Seq(W)
  BY <1>2, <1>3
<1> QED BY <1>1, <1>3, <1>4 DEF n

LEMMA RankIs ==
  ASSUME NEW x
  PROVE  /\ Rank(x) \in 0..Len(Sections)
         /\ Rank(x) # 0 => Expected[Rank(x)] = x
         /\ \A i \in 1..Len(Sections) : Expected[i] = x => Rank(x) # 0
<1>1. Len(Expected) = Len(Sections) /\ Len(Expected) \in Nat
  BY ExpectedIs
<1>2. PICK p : p = Rank(x)
  OBVIOUS
<1>3. PICK I : I = {i \in 1..Len(Expected) : Expected[i] = x}
  OBVIOUS
<1>6. \A i : i \in I <=> i \in 1..Len(Expected) /\ Expected[i] = x
  BY <1>3
<1>5. p = IF I # {} THEN Min(I) ELSE 0
  BY <1>2, <1>3 DEF Rank, SelectInSeq
<1>4. /\ p \in 0..Len(Expected)
      /\ p # 0 => Expected[p] = x
      /\ \A i \in 1..Len(Expected) : Expected[i] = x => p # 0 /\ p <= i
  BY <1>1, <1>5, <1>6, FoundIn
<1> QED BY <1>1, <1>2, <1>4

\* The loop of checkSections, section after section.
LEMMA AfterAllIs ==
  ASSUME NEW names, Len(names) \in Nat
  PROVE  \E at \in [0..Len(names) -> [next : Nat, broken : BOOLEAN]] :
           /\ at[0] = [next |-> 1, broken |-> FALSE]
           /\ \A i \in 1..Len(names) :
                at[i] = IF names[i] = "Notes" THEN at[i - 1] ELSE NextSection(at[i - 1], names[i])
           /\ AfterAll(names) = at[Len(names)]
<1> DEFINE n == Len(names)
           S == [next : Nat, broken : BOOLEAN]
           a == [next |-> 1, broken |-> FALSE]
           After(x, i) == IF names[i] = "Notes" THEN x ELSE NextSection(x, names[i])
           g == [p \in (1..n) \X S |-> After(p[2], p[1])]
           Fix(f) == f = [i \in 0..n |->
                            IF i = 0 THEN a
                            ELSE IF names[i] = "Notes" THEN f[i - 1]
                            ELSE NextSection(f[i - 1], names[i])]
           o == CHOOSE h : Fix(h)
<1>1. n \in Nat /\ a \in S
  OBVIOUS
<1>2. ASSUME NEW x \in S, NEW i \in 1..n PROVE After(x, i) \in S
  <2>1. x.next + 1 \in Nat /\ x.next \in Nat
    OBVIOUS
  <2> QED BY <2>1 DEF NextSection
<1>3. \A i \in 1..n, x \in S : g[<<i, x>>] = After(x, i)
  OBVIOUS
<1>4. g \in [(1..n) \X S -> S]
  <2> HIDE DEF After, n, S
  <2> QED BY <1>2
<1> HIDE DEF g, S
<1>5. PICK f \in [0..n -> S] : Follows(f, a, g, n)
  <2> HIDE DEF n, a, After, Fix, o
  <2> QED BY <1>1, <1>4, Recursion
<1>6. \A i \in 1..n : i # 0 /\ i - 1 \in 0..n /\ f[i - 1] \in S
  BY <1>1, <1>5
<1>7. f[0] = a /\ \A i \in 1..n : f[i] = After(f[i - 1], i)
  <2> HIDE DEF After, a
  <2> QED BY <1>3, <1>5, <1>6 DEF Follows
<1>8. Fix(f)
  <2>1. \A i \in 0..n : i = 0 \/ i \in 1..n
    BY <1>1
  <2>2. DOMAIN f = 0..n /\ f = [i \in 0..n |-> f[i]]
    BY <1>5
  <2> HIDE DEF a
  <2> QED BY <1>7, <2>1, <2>2
<1>9. AfterAll(names) = o[n]
  BY DEF AfterAll
<1>10. Fix(o)
  <2> HIDE DEF Fix
  <2> QED BY <1>8
<1> HIDE DEF o
<1>11. o[0] = a /\ \A i \in 1..n : o[i] = After(o[i - 1], i)
  <2> HIDE DEF a
  <2> QED BY <1>1, <1>6, <1>10
<1> DEFINE T == {i \in 0..n : o[i] \in S}
<1>12. 0..n \subseteq T
  <2>1. 0 \in T
    BY <1>1, <1>11
  <2>2. ASSUME NEW i \in 1..n, i - 1 \in T PROVE i \in T
    <3>1. o[i - 1] \in S /\ o[i] = After(o[i - 1], i) /\ i \in 0..n
      BY <1>1, <1>11, <2>2
    <3> HIDE DEF After
    <3> QED BY <1>2, <3>1
  <2> HIDE DEF T, n, After, a
  <2> QED BY <1>1, <2>1, <2>2, InductionTo
<1>13. o \in [0..n -> S]
  <2>1. DOMAIN o = 0..n /\ o = [i \in 0..n |-> o[i]]
    BY <1>10
  <2> QED BY <1>12, <2>1
<1> QED BY <1>9, <1>11, <1>13 DEF S

\* Sets of lines are finite, and the section lines give the section names.
LEMMA LinesAre ==
  ASSUME Typed
  PROVE  /\ Len(lines) \in Nat /\ DOMAIN lines = 1..Len(lines) /\ DOMAIN place = 1..Len(lines)
         /\ IsFiniteSet(1..Len(lines))
         /\ \A S : S \subseteq 1..Len(lines) =>
              /\ S \in SUBSET Nat /\ IsFiniteSet(S) /\ Cardinality(S) \in Nat
<1>1. Len(lines) \in Nat /\ DOMAIN lines = 1..Len(lines) /\ DOMAIN place = 1..Len(lines)
  BY DEF Typed
<1>2. IsFiniteSet(1..Len(lines))
  BY <1>1, FS_Interval
<1>3. ASSUME NEW S, S \subseteq 1..Len(lines)
      PROVE  S \in SUBSET Nat /\ IsFiniteSet(S) /\ Cardinality(S) \in Nat
  <2>1. S \in SUBSET Nat
    BY <1>1, <1>3
  <2>2. PICK R : R = 1..Len(lines)
    OBVIOUS
  <2>3. IsFiniteSet(S)
    BY <1>2, <1>3, <2>2, FS_Subset
  <2> QED BY <2>1, <2>3, FS_CardinalityType
<1> QED BY <1>1, <1>2, <1>3

LEMMA NamesAre ==
  ASSUME Typed
  PROVE  /\ Len(SectionNames) \in Nat
         /\ SectionNames = [i \in 1..Len(SectionNames) |-> SectionNames[i]]
         /\ \A s \in Placed("section") :
              \E n \in 1..Len(SectionNames) : SectionNames[n] = lines[s].name
<1> DEFINE P == Placed("section")
<1>1. P \in SUBSET Nat /\ IsFiniteSet(P)
  BY LinesAre DEF Placed
<1> HIDE DEF P
<1>2. /\ Cardinality(P) \in Nat
      /\ DOMAIN InOrder(P) = 1..Cardinality(P)
      /\ \A i \in P : \E n \in 1..Cardinality(P) : InOrder(P)[n] = i
  BY <1>1, InOrderIs
<1>3. SectionNames = [i \in 1..Cardinality(P) |-> lines[InOrder(P)[i]].name]
  BY <1>2 DEF SectionNames, P
<1>4. Len(SectionNames) = Cardinality(P)
  BY <1>2, <1>3
<1>5. \A s \in P : \E n \in 1..Cardinality(P) : SectionNames[n] = lines[s].name
  BY <1>2, <1>3
<1> QED BY <1>2, <1>3, <1>4, <1>5 DEF P

LEMMA NotesLast ==
  ASSUME NEW names, Len(names) \in Nat,
         SelectInSeq(names, LAMBDA n : n = "Notes") \in {0, Len(names)}
  PROVE  \A i \in 1..Len(names) : names[i] = "Notes" => i = Len(names)
<1>1. PICK I : I = {i \in 1..Len(names) : names[i] = "Notes"}
  OBVIOUS
<1>2. \A i : i \in I <=> i \in 1..Len(names) /\ names[i] = "Notes"
  BY <1>1
<1>3. PICK p : p = IF I # {} THEN Min(I) ELSE 0
  OBVIOUS
<1>4. p \in {0, Len(names)}
  BY <1>1, <1>3 DEF SelectInSeq
<1>5. \A i \in 1..Len(names) : names[i] = "Notes" => p # 0 /\ p <= i
  BY <1>2, <1>3, FoundIn
<1> QED BY <1>4, <1>5

\* S1: the sections are there, in their order, with nothing but Notes after them.
LEMMA InTheirOrder ==
  ASSUME NEW names, Len(names) \in Nat, names = [i \in 1..Len(names) |-> names[i]],
         ~AfterAll(names).broken, AfterAll(names).next > Len(Sections),
         SelectInSeq(names, LAMBDA n : n = "Notes") \in {0, Len(names)}
  PROVE  names \in {Expected, Append(Expected, "Notes")}
<1> DEFINE n == Len(names)
           S == [next : Nat, broken : BOOLEAN]
           m == IF n # 0 /\ names[n] = "Notes" THEN n - 1 ELSE n
<1>0. n \in Nat /\ m \in 0..n
  OBVIOUS
<1>1. \A i \in 1..n : names[i] = "Notes" => i = n
  BY NotesLast
<1>7. \A i \in 1..m : i \in 1..n /\ names[i] # "Notes"
  BY <1>0, <1>1
<1>8. PICK at \in [0..n -> S] :
        /\ at[0] = [next |-> 1, broken |-> FALSE]
        /\ \A i \in 1..n :
             at[i] = IF names[i] = "Notes" THEN at[i - 1] ELSE NextSection(at[i - 1], names[i])
        /\ AfterAll(names) = at[n]
  BY AfterAllIs
<1>9. at[n] = at[m]
  BY <1>0, <1>8
<1> DEFINE T == {i \in 0..m : ~at[i].broken =>
                    /\ at[i].next = i + 1 /\ i <= Len(Sections)
                    /\ \A j \in 1..i : names[j] = Expected[j]}
<1>10. 0 \in T
  BY <1>0, <1>8, ExpectedIs
<1>11. ASSUME NEW i \in 1..m, i - 1 \in T PROVE i \in T
  <2>0. i \in 0..m /\ i \in 1..n /\ i - 1 \in 0..n /\ Len(Sections) \in Nat
    BY <1>0, ExpectedIs
  <2>1. at[i] = NextSection(at[i - 1], names[i])
    BY <1>7, <1>8, <2>0
  <2>2. SUFFICES ASSUME ~at[i].broken
                 PROVE  /\ at[i].next = i + 1 /\ i <= Len(Sections)
                        /\ \A j \in 1..i : names[j] = Expected[j]
    BY <2>0
  <2>3. ~at[i - 1].broken /\ Rank(names[i]) = at[i - 1].next /\ at[i].next = at[i - 1].next + 1
    <3> HIDE DEF T
    <3> QED BY <2>1, <2>2 DEF NextSection
  <2>4. at[i - 1].next = i /\ \A j \in 1..(i - 1) : names[j] = Expected[j]
    BY <1>11, <2>0, <2>3
  <2> HIDE DEF T
  <2>5. i <= Len(Sections) /\ names[i] = Expected[i]
    BY <2>0, <2>3, <2>4, RankIs
  <2> QED BY <2>0, <2>3, <2>4, <2>5
<1>12. m \in T
  <2> HIDE DEF T, m
  <2> QED BY <1>0, <1>10, <1>11, InductionTo
<1>13. m = n \/ (m = n - 1 /\ n # 0 /\ names[n] = "Notes")
  OBVIOUS
<1> HIDE DEF m
<1>14. ~at[m].broken /\ at[m].next > Len(Sections)
  BY <1>8, <1>9
<1>15. at[m].next = m + 1 /\ m <= Len(Sections) /\ \A j \in 1..m : names[j] = Expected[j]
  BY <1>12, <1>14
<1> HIDE DEF T
<1>16. m = Len(Sections) /\ m \in Nat
  BY <1>0, <1>14, <1>15, ExpectedIs
<1>17. CASE m = n
  <2>1. Expected = [i \in 1..m |-> Expected[i]] /\ names = [i \in 1..m |-> names[i]]
    BY <1>16, <1>17, ExpectedIs
  <2> HIDE DEF n
  <2>2. names = Expected
    BY <1>15, <2>1
  <2> QED BY <2>2
<1>18. CASE m = n - 1 /\ n # 0 /\ names[n] = "Notes"
  <2>1. PICK W : /\ Expected \in Seq(W) /\ "Notes" \in W
                 /\ \A j \in 1..Len(Sections) : Expected[j] \in W
    BY NamesIn
  <2>2. Len(Expected) = m
    BY <1>16, ExpectedIs
  <2>3. \A j \in 1..n : j = n \/ j \in 1..m
    BY <1>16, <1>18
  <2>4. \A j \in 1..n : names[j] \in W
    BY <1>15, <1>16, <1>18, <2>1, <2>3
  <2>5. PICK t : t = Append(Expected, "Notes")
    OBVIOUS
  <2>6. /\ t \in Seq(W) /\ Len(t) = m + 1 /\ t[m + 1] = "Notes"
        /\ \A j \in 1..m : t[j] = Expected[j]
    BY <2>1, <2>2, <2>5, AppendProperties
  <2>7. names \in Seq(W) /\ Len(names) = m + 1 /\ n = m + 1
    BY <1>0, <1>16, <1>18, <2>4
  <2> HIDE DEF n
  <2>8. \A j \in 1..Len(names) : names[j] = t[j]
    BY <1>15, <1>18, <2>3, <2>6, <2>7
  <2> QED BY <2>5, <2>6, <2>7, <2>8, SeqEqual
<1> QED BY <1>13, <1>17, <1>18

\* Of two sections, headings or keys above a line, one is the nearest.
LEMMA Nearest ==
  ASSUME NEW i \in Nat
  PROVE  /\ \A s, t : SectionOf(s, i) /\ SectionOf(t, i) => s = t
         /\ \A b, c : BlockOf(b, i) /\ BlockOf(c, i) => b = c
         /\ \A k, l : KeyOf(k, i) /\ KeyOf(l, i) => k = l
<1>1. \A s, t : SectionOf(s, i) /\ SectionOf(t, i) => s = t
  BY DEF SectionOf
<1>2. \A b, c : Under(b, i) /\ Under(c, i) => b = c
  <2> SUFFICES ASSUME NEW b, NEW c, Under(b, i), Under(c, i), b # c PROVE FALSE
    OBVIOUS
  <2>1. b \in 1..(i - 1) /\ c \in 1..(i - 1) /\ Heading(b) /\ Heading(c)
    BY DEF Under
  <2>2. b \in (c + 1)..i \/ c \in (b + 1)..i
    BY <2>1
  <2> QED BY <2>1, <2>2 DEF Under
<1>3. \A k, l : KeyOf(k, i) /\ KeyOf(l, i) => k = l
  <2> SUFFICES ASSUME NEW k, NEW l, KeyOf(k, i), KeyOf(l, i), k # l PROVE FALSE
    OBVIOUS
  <2>1. k \in 1..(i - 1) /\ l \in 1..(i - 1)
    BY DEF KeyOf
  <2>2. k \in (l + 1)..i \/ l \in (k + 1)..i
    BY <2>1
  <2> QED BY <2>2 DEF KeyOf
<1> QED BY <1>1, <1>2, <1>3 DEF BlockOf

\* No line from the first section on is lost.
LEMMA NothingLost ==
  ASSUME IInv, LossIsSeen, ~S2, ~S3, ~S4,
         NEW i \in 1..Len(lines), ~InNotesAt(i), NEW s \in 1..i, SectionOf(s, i)
  PROVE  place[i].role \in {"section", "block", "blank", "loose", "field", "item", "more"}
<1>1. DOMAIN place = 1..Len(lines) /\ place[i] \in Entry /\ ReadAt(i)
  BY DEF IInv, Typed, AllRead
<1>2. place[i].role \in Roles
  BY <1>1 DEF Entry
<1>3. place[i].role # "notes"
  BY <1>1 DEF ReadAt
<1>4. Placed("malformed") = {} /\ Placed("stray") = {} /\ Placed("duplicate") = {}
  BY DEF S2, S3, S4
<1>5. place[i].role \notin {"malformed", "stray", "duplicate"}
  BY <1>1, <1>4 DEF Placed
<1>6. place[i].role \notin {"swallowed", "title", "dropped"}
  BY <1>4 DEF LossIsSeen, SectionOf
<1> QED BY <1>2, <1>3, <1>5, <1>6 DEF Roles

\* What a line in a block is, when the rules found no line that is out of place.
LEMMA InTheBlock ==
  ASSUME IInv, ~S2, ~S4, NEW j \in 1..Len(lines), NEW b \in 1..j, BlockOf(b, j),
         lines[j].t # "blank"
  PROVE  /\ lines[j].t = "key" => place[j].role = "field" /\ place[j].of = b
         /\ lines[j].t # "key" => /\ place[j].role \in {"item", "more"}
                                  /\ KeyOf(place[j].of, j)
<1>1. DOMAIN place = 1..Len(lines) /\ ReadAt(j) /\ j \in Nat
  BY DEF IInv, Typed, AllRead
<1>2. place[j].role \in {"field", "duplicate", "item", "more", "stray"}
  BY <1>1 DEF ReadAt
<1>3. place[j].role \notin {"duplicate", "stray"}
  BY <1>1 DEF S2, S4, Placed
<1>4. CASE place[j].role = "field"
  <2>1. lines[j].t = "key" /\ BlockOf(place[j].of, j)
    BY <1>1, <1>4 DEF ReadAt
  <2> QED BY <1>1, <1>4, <2>1, Nearest
<1>5. CASE place[j].role \in {"item", "more"}
  <2>1. KeyOf(place[j].of, j)
    BY <1>1, <1>5 DEF ReadAt
  <2>2. lines[j].t # "key"
    BY <1>1, <2>1 DEF KeyOf
  <2> QED BY <1>5, <2>1, <2>2
<1> QED BY <1>2, <1>3, <1>4, <1>5

\* A field is the only key of its name in its block.
LEMMA OnlyOne ==
  ASSUME IInv, ~S2, ~S4, NEW b, NEW key, NEW k \in FieldsNamed(b, key)
  PROVE  /\ k \in 1..Len(lines) /\ lines[k].t = "key" /\ lines[k].key = key /\ BlockOf(b, k)
         /\ \A j \in 1..Len(lines) :
              lines[j].t = "key" /\ lines[j].key = key /\ BlockOf(b, j) => j = k
<1>0. Len(lines) \in Nat /\ DOMAIN place = 1..Len(lines) /\ \A i \in 1..Len(lines) : ReadAt(i)
  BY DEF IInv, Typed, AllRead
<1>1. /\ k \in 1..Len(lines) /\ place[k].role = "field" /\ place[k].of = b
      /\ lines[k].key = key
  BY <1>0 DEF FieldsNamed, Fields, Owned, Placed
<1>2. lines[k].t = "key" /\ BlockOf(b, k)
  BY <1>0, <1>1 DEF ReadAt
<1>3. ASSUME NEW i \in 1..Len(lines), NEW j \in 1..Len(lines), i < j,
             lines[i].t = "key", lines[j].t = "key", lines[i].key = lines[j].key,
             BlockOf(b, i), BlockOf(b, j)
      PROVE  FALSE
  <2>1. b \in 1..(i - 1) /\ b \in 1..j /\ i \in (b + 1)..(j - 1)
    BY <1>0, <1>3 DEF BlockOf, Under
  <2>2. place[j].role = "field" /\ place[j].of = b
    BY <1>3, <2>1, InTheBlock
  <2> QED BY <1>0, <1>3, <2>1, <2>2 DEF ReadAt
<1>4. ASSUME NEW j \in 1..Len(lines), lines[j].t = "key", lines[j].key = key, BlockOf(b, j)
      PROVE  j = k
  <2>1. ~(j < k) /\ ~(k < j)
    BY <1>1, <1>2, <1>3, <1>4
  <2> QED BY <1>0, <1>1, <2>1
<1> QED BY <1>1, <1>2, <1>4

\* The lines that add to a key are those below it that are not blank.
LEMMA AddedLines ==
  ASSUME IInv, ~S2, ~S4, NEW k \in Placed("field")
  PROVE  Owned("item", k) \cup Owned("more", k)
           = {j \in DOMAIN lines : KeyOf(k, j) /\ lines[j].t # "blank"}
<1>0. /\ Len(lines) \in Nat /\ DOMAIN place = 1..Len(lines) /\ DOMAIN lines = 1..Len(lines)
      /\ \A i \in 1..Len(lines) : ReadAt(i)
  BY DEF IInv, Typed, AllRead
<1>1. ASSUME NEW j \in 1..Len(lines), place[j].role \in {"item", "more"}, place[j].of = k
      PROVE  KeyOf(k, j) /\ lines[j].t # "blank"
  BY <1>0, <1>1 DEF ReadAt
<1>2. ASSUME NEW j \in 1..Len(lines), KeyOf(k, j), lines[j].t # "blank"
      PROVE  place[j].role \in {"item", "more"} /\ place[j].of = k
  <2>1. PICK b \in 1..k : BlockOf(b, k) /\ BlockOf(b, j)
    BY <1>2 DEF KeyOf
  <2>2. k \in 1..(j - 1) /\ lines[j].t # "key" /\ b \in 1..j /\ j \in Nat
    BY <1>0, <1>2 DEF KeyOf
  <2>3. place[j].role \in {"item", "more"} /\ KeyOf(place[j].of, j)
    BY <1>2, <2>1, <2>2, InTheBlock
  <2> QED BY <1>2, <2>2, <2>3, Nearest
<1> QED BY <1>0, <1>1, <1>2 DEF Owned, Placed

\* A field has the values of its own line and one for each line that adds to it.
LEMMA ValuesAre ==
  ASSUME IInv, NEW k \in 1..Len(lines), lines[k].t = "key",
         NEW more, more = Owned("item", k) \cup Owned("more", k)
  PROVE  /\ Len(lines[k].values) \in Nat /\ Cardinality(more) \in Nat
         /\ Len(Values(k)) = Len(lines[k].values) + Cardinality(more)
<1> DEFINE at == InOrder(more)
           values == lines[k].values
           rest == [i \in DOMAIN at |-> lines[at[i]].value]
           n == Cardinality(more)
           W == STRING \cup {rest[i] : i \in 1..n}
<1>1. Typed /\ lines[k] \in Line
  BY DEF IInv, Typed
<1>2. more \subseteq 1..Len(lines)
  BY <1>1, LinesAre DEF Owned, Placed
<1>3. more \in SUBSET Nat /\ IsFiniteSet(more) /\ Cardinality(more) \in Nat
  BY <1>1, <1>2, LinesAre
<1>4. DOMAIN at = 1..n
  BY <1>3, InOrderIs
<1>5. values \in Seq(STRING)
  BY <1>1, LineAssumption
<1>6. \A S, T : S \subseteq T => Seq(S) \subseteq Seq(T)
  BY SeqMonotonic
<1>7. Values(k) = values \o rest
  BY DEF Values
<1> HIDE DEF values
<1>8. values \in Seq(W)
  BY <1>5, <1>6
<1>9. rest = [i \in 1..n |-> rest[i]] /\ \A i \in 1..n : rest[i] \in W
  <2>1. rest = [i \in 1..n |-> rest[i]]
    BY <1>4
  <2> HIDE DEF rest
  <2> QED BY <2>1
<1> HIDE DEF rest, W, n
<1>10. rest \in Seq(W) /\ Len(rest) = n
  <2>1. n \in Nat
    BY <1>3 DEF n
  <2> QED BY <1>9, <2>1
<1>11. Len(values \o rest) = Len(values) + Len(rest)
  BY <1>8, <1>10, ConcatProperties
<1> QED BY <1>3, <1>5, <1>7, <1>10, <1>11 DEF n, values

\* S5: an enumeration takes one value.
LEMMA OneValue ==
  ASSUME ~S5, NEW b \in Known, NEW key \in DOMAIN Keys[Prefix(b)],
         Keys[Prefix(b)][key].takes = "enum", NEW k \in FieldsNamed(b, key)
  PROVE  Len(Values(k)) = 1
<1>1. k \in Placed("field") /\ place[k].of = b /\ lines[k].key = key
  BY DEF FieldsNamed, Fields, Owned
<1>2. k \in Taking("enum")
  BY <1>1 DEF Taking
<1> QED BY <1>2 DEF S5, Is

\* A required key is in its block once, and an enumeration has one value.
RequiredIsThere(b, key) ==
  \E k \in DOMAIN lines :
    /\ lines[k].t = "key" /\ lines[k].key = key /\ BlockOf(b, k)
    /\ \A j \in DOMAIN lines :
         lines[j].t = "key" /\ lines[j].key = key /\ BlockOf(b, j) => j = k
    /\ Keys[Prefix(b)][key].takes = "enum" =>
         Cardinality({j \in DOMAIN lines : KeyOf(k, j) /\ lines[j].t # "blank"})
           + Len(lines[k].values) = 1

LEMMA RequiredIs ==
  ASSUME IInv, ~S2, ~S4, ~S5, NEW b \in Known, NEW key \in DOMAIN Keys[Prefix(b)],
         Keys[Prefix(b)][key].required
  PROVE  RequiredIsThere(b, key)
<1>1. PICK k : k \in FieldsNamed(b, key)
  BY DEF S4
<1>2. /\ k \in 1..Len(lines) /\ lines[k].t = "key" /\ lines[k].key = key /\ BlockOf(b, k)
      /\ \A j \in 1..Len(lines) :
           lines[j].t = "key" /\ lines[j].key = key /\ BlockOf(b, j) => j = k
  BY <1>1, OnlyOne
<1>3. DOMAIN lines = 1..Len(lines)
  BY DEF IInv, Typed
<1>4. ASSUME Keys[Prefix(b)][key].takes = "enum"
      PROVE  Cardinality({j \in DOMAIN lines : KeyOf(k, j) /\ lines[j].t # "blank"})
               + Len(lines[k].values) = 1
  <2>1. PICK more : more = Owned("item", k) \cup Owned("more", k)
    OBVIOUS
  <2>2. more = {j \in DOMAIN lines : KeyOf(k, j) /\ lines[j].t # "blank"}
    BY <1>1, <2>1, AddedLines DEF FieldsNamed, Fields, Owned
  <2>3. Len(Values(k)) = 1
    BY <1>1, <1>4, OneValue
  <2>4. /\ Len(lines[k].values) \in Nat /\ Cardinality(more) \in Nat
        /\ Len(Values(k)) = Len(lines[k].values) + Cardinality(more)
    BY <1>2, <2>1, ValuesAre
  <2>5. Cardinality(more) + Len(lines[k].values) = 1
    BY <2>3, <2>4
  <2> QED BY <2>2, <2>5
<1> QED BY <1>2, <1>3, <1>4 DEF RequiredIsThere

LEMMA BlockIsWhole ==
  ASSUME IInv, LossIsSeen, ~S2, ~S3, ~S4, ~S5,
         SectionNames \in {Expected, Append(Expected, "Notes")},
         NEW b \in Placed("block")
  PROVE  \E s \in 1..b :
           /\ SectionOf(s, b) /\ Prefix(b) \in SpecOf(s).prefixes
           /\ \A i \in Placed("loose") : SectionOf(s, i) => SpecOf(s).prefixes = {}
           /\ \A key \in DOMAIN Keys[Prefix(b)] :
                Keys[Prefix(b)][key].required => RequiredIsThere(b, key)
<1>0. /\ Len(lines) \in Nat /\ DOMAIN place = 1..Len(lines) /\ DOMAIN lines = 1..Len(lines)
      /\ \A i \in 1..Len(lines) : ReadAt(i)
  BY DEF IInv, Typed, AllRead
<1>1. b \in 1..Len(lines) /\ place[b].role = "block"
  BY <1>0 DEF Placed
<1>2. PICK s : s = place[b].of
  OBVIOUS
<1>3. SectionOf(s, b) /\ ~InNotesAt(b) /\ lines[b].t # "section"
  BY <1>0, <1>1, <1>2 DEF ReadAt, Heading
<1>4. s \in 1..b /\ s \in 1..Len(lines) /\ lines[s].t = "section" /\ lines[s].name # "Notes"
  BY <1>0, <1>1, <1>3 DEF SectionOf, InNotesAt
<1>5. s \in Placed("section")
  BY <1>0, <1>4 DEF LossIsSeen, Placed
<1>6. s \in Checked
  <2>1. PICK n \in 1..Len(SectionNames) : SectionNames[n] = lines[s].name
    BY <1>5, NamesAre DEF IInv
  <2>2. \E i \in 1..Len(Sections) : Expected[i] = lines[s].name
    <3>1. CASE SectionNames = Expected
      BY <2>1, <3>1, ExpectedIs
    <3>2. CASE SectionNames = Append(Expected, "Notes")
      <4>1. /\ Len(SectionNames) = Len(Sections) + 1
            /\ SectionNames[Len(Sections) + 1] = "Notes"
            /\ \A i \in 1..Len(Sections) : SectionNames[i] = Expected[i]
        <5>1. PICK W : Expected \in Seq(W) /\ "Notes" \in W
          BY NamesIn
        <5>2. Len(Expected) = Len(Sections)
          BY ExpectedIs
        <5> QED BY <3>2, <5>1, <5>2, AppendProperties
      <4>2. n \in 1..Len(Sections)
        <5>1. n # Len(Sections) + 1
          BY <1>4, <2>1, <4>1
        <5>2. Len(Sections) \in Nat /\ n \in 1..(Len(Sections) + 1)
          BY <2>1, <4>1, ExpectedIs
        <5> QED BY <5>1, <5>2
      <4> QED BY <2>1, <4>1, <4>2
    <3> QED BY <3>1, <3>2
  <2>3. Rank(lines[s].name) # 0
    BY <2>2, RankIs
  <2> QED BY <1>5, <2>3 DEF Checked
<1>7. b \in Known /\ Prefix(b) \in SpecOf(s).prefixes
  BY <1>2, <1>6 DEF S3, Owned
<1>8. ASSUME NEW i \in Placed("loose"), SectionOf(s, i) PROVE SpecOf(s).prefixes = {}
  <2>1. i \in 1..Len(lines) /\ place[i].role = "loose"
    BY <1>0 DEF Placed
  <2>2. SectionOf(place[i].of, i)
    BY <1>0, <2>1 DEF ReadAt
  <2>3. i \in Owned("loose", s)
    <3>0. i \in Nat
      BY <2>1
    <3>1. place[i].of = s
      BY <1>8, <2>2, <3>0, Nearest
    <3> QED BY <1>8, <3>1 DEF Owned
  <2> QED BY <1>6, <2>3 DEF S2
<1>9. \A key \in DOMAIN Keys[Prefix(b)] :
        Keys[Prefix(b)][key].required => RequiredIsThere(b, key)
  BY <1>7, RequiredIs
<1> QED BY <1>3, <1>4, <1>7, <1>8, <1>9

\* Every file, whatever its lines and the grammar: what no rule objects to is complete.
THEOREM CleanIsCompleteHolds == Spec => []CleanIsComplete
<1>1. Init => IInv /\ LossIsSeen
  BY InitIs DEF Init, LossIsSeen
<1>2. IInv /\ LossIsSeen /\ [Next]_vars => (IInv /\ LossIsSeen)'
  BY IInvStep, LossStep
<1>3. IInv /\ LossIsSeen => CleanIsComplete
  <2> SUFFICES ASSUME IInv, LossIsSeen, Clean PROVE CleanIsComplete
    BY DEF CleanIsComplete
  <2>1. ~S1 /\ ~S2 /\ ~S3 /\ ~S4 /\ ~S5
    BY DEF Clean
  <2>2. DOMAIN lines = 1..Len(lines)
    BY DEF IInv, Typed
  <2>3. SectionNames \in {Expected, Append(Expected, "Notes")}
    <3>1. /\ Len(SectionNames) \in Nat
          /\ SectionNames = [i \in 1..Len(SectionNames) |-> SectionNames[i]]
      BY NamesAre DEF IInv
    <3>2. AfterAll(SectionNames).next \in Nat
      BY <3>1, AfterAllIs
    <3>3. /\ ~AfterAll(SectionNames).broken /\ AfterAll(SectionNames).next > Len(Sections)
          /\ SelectInSeq(SectionNames, LAMBDA n : n = "Notes") \in {0, Len(SectionNames)}
      BY <2>1, <3>2, ExpectedIs DEF S1
    <3> QED BY <3>1, <3>3, InTheirOrder
  <2>4. \A i \in DOMAIN lines :
          ~InNotesAt(i) /\ (\E s \in 1..i : SectionOf(s, i)) =>
            place[i].role \in {"section", "block", "blank", "loose", "field", "item", "more"}
    BY <2>1, <2>2, NothingLost
  <2>5. \A b \in Placed("block") : \E s \in 1..b :
           /\ SectionOf(s, b) /\ Prefix(b) \in SpecOf(s).prefixes
           /\ \A i \in Placed("loose") : SectionOf(s, i) => SpecOf(s).prefixes = {}
           /\ \A key \in DOMAIN Keys[Prefix(b)] :
                Keys[Prefix(b)][key].required => RequiredIsThere(b, key)
    BY <2>1, <2>3, BlockIsWhole
  <2> QED BY <2>3, <2>4, <2>5, Zenon DEF CleanIsComplete, RequiredIsThere
<1> QED BY <1>1, <1>2, <1>3, PTL DEF Spec

---------------------------------------------------------------------------
(* The history of a branch. *)

\* The items are owed from `from` on: when no commit after it changes them that may not, the
\* tip of the branch has those that the commits that may left.
ItemsKept(from) ==
  \A i \in (from + 1)..Len(log) :
    ~log[i].merge /\ log[i].step \notin {NoStep, "ddd-tactical"} =>
      ItemsOf(Content(i)) = ItemsOf(Content(i - 1))
ItemsOwed(from) == ItemsKept(from) => owed.items = ItemsOf(Tip)

\* The same of the header, and the reconciler.
HeaderKept(from) ==
  \A i \in (from + 1)..Len(log) :
    ~log[i].merge /\ log[i].step # "reconciler" => Content(i).header = Content(i - 1).header
HeaderOwed(from) == ~Gap /\ HeaderKept(from) => owed.header = Tip.header

\* What the rules look at begins at the first commit, or at the merge that took the file as
\* main has it: from both on, the tip is accounted for.
BranchInv ==
  /\ TypeOK
  /\ met # 0 => main = base
  /\ ItemsOwed(0) /\ HeaderOwed(0)
  /\ met # 0 /\ log[met].now = main => ItemsOwed(met) /\ HeaderOwed(met)

LEMMA InitBranchInv == BranchInit => BranchInv
<1> SUFFICES ASSUME BranchInit PROVE BranchInv
  OBVIOUS
<1>1. main \in File /\ Readable(main) /\ main.header \in Header
  BY DEF BranchInit, OnMain, Readable, File
<1>2. TypeOK
  BY <1>1 DEF BranchInit, TypeOK, File
<1>3. Tip = main
  BY DEF BranchInit, Tip, Content
<1>4. main # NoFile
  BY <1>1 DEF Readable
<1> QED BY <1>2, <1>3, <1>4 DEF BranchInit, BranchInv, ItemsOwed, HeaderOwed, ItemsOf

\* What there is at the commits of a branch.
LEMMA Contents ==
  ASSUME TypeOK
  PROVE  /\ Len(log) \in Nat
         /\ \A i \in 0..Len(log) : Content(i) \in File \cup {NoFile}
         /\ Tip \in File \cup {NoFile}
<1>1. Len(log) \in Nat /\ fork \in File \cup {NoFile}
  BY DEF TypeOK
<1>2. \A i \in 1..Len(log) : log[i] \in Commit
  BY DEF TypeOK
<1>3. \A i \in 1..Len(log) : log[i].now \in File \cup {NoFile}
  BY <1>2 DEF Commit
<1> QED BY <1>1, <1>3 DEF Content, Tip

\* What a commit more leaves as it was.
LEMMA Extended ==
  ASSUME TypeOK, NEW c, log' = Append(log, c), fork' = fork
  PROVE  /\ Len(log') = Len(log) + 1
         /\ \A i \in 0..Len(log) : Content(i)' = Content(i)
         /\ \A i \in 1..Len(log) : log'[i] = log[i]
         /\ log'[Len(log) + 1] = c
         /\ \A i \in Nat : i = Len(log) + 1 => Content(i)' = c.now
         /\ Tip' = c.now
<1>1. /\ Len(log') = Len(log) + 1
      /\ \A i \in 1..Len(log) : log'[i] = log[i]
      /\ log'[Len(log) + 1] = c
  BY DEF TypeOK
<1>2. Len(log) \in Nat
  BY DEF TypeOK
<1>3. ASSUME NEW i \in 0..Len(log) PROVE Content(i)' = Content(i)
  BY <1>1, <1>2 DEF Content
<1>4. ASSUME NEW i \in Nat, i = Len(log) + 1 PROVE Content(i)' = c.now
  BY <1>1, <1>2, <1>4 DEF Content
<1>5. Tip' = c.now
  BY <1>1, <1>2 DEF Tip, Content
<1> QED BY <1>1, <1>3, <1>4, <1>5

\* The merge of three files of which none is gone.
LEMMA Merged ==
  ASSUME NEW b \in File, NEW x \in File, NEW y \in File
  PROVE  /\ Merge3(b, x, y) \in File
         /\ Merge3(b, x, y).header = MergeHeader(b.header, x.header, y.header)
         /\ Merge3(b, x, y).items = MergeItems(b.items, x.items, y.items)
BY NoFileAssumption DEF Merge3, File, MergeHeader, MergeItems

LEMMA MergeType ==
  ASSUME NEW b \in File \cup {NoFile}, NEW x \in File \cup {NoFile}, NEW y \in File \cup {NoFile}
  PROVE  Merge3(b, x, y) \in File \cup {NoFile}
<1>1. CASE NoFile \in {b, x, y}
  BY <1>1 DEF Merge3, MergeHeader
<1>2. CASE NoFile \notin {b, x, y}
  BY <1>2, Merged
<1> QED BY <1>1, <1>2

\* What is owed is a file too: at the start, and after a commit.
LEMMA OwedType ==
  ASSUME NEW f \in File \cup {NoFile}
  PROVE  /\ Owed(f) \in File /\ Owed(f).items = ItemsOf(f)
         /\ f # NoFile => Owed(f) = f
         /\ Readable(f) => Owed(f).header = f.header
BY DEF Owed, File, ItemsOf, Readable

LEMMA OwingType ==
  ASSUME NEW o \in File, NEW f \in File \cup {NoFile}, NEW step
  PROVE  Owing(o, step, f) \in File
<1>1. ItemsOf(f) \in SUBSET Items /\ o.items \in SUBSET Items
  BY DEF ItemsOf, File
<1>2. o.header \in Header \cup {Garbled} /\ (Readable(f) => f.header \in Header)
  BY DEF Readable, File
<1> QED BY <1>1, <1>2 DEF Owing, File

---------------------------------------------------------------------------
\* The files a rebase makes of the commits, one on top of the other.
LEMMA ReplayedIs ==
  ASSUME TypeOK
  PROVE  /\ \A i \in 0..Len(log) : Replayed[i] \in File \cup {NoFile}
         /\ Replayed[0] = main
         /\ \A i \in 1..Len(log) :
              Replayed[i] = Merge3(Content(i - 1), log[i].now, Replayed[i - 1])
<1> DEFINE n == Len(log)
           S == File \cup {NoFile}
           g == [p \in (1..n) \X S |-> Merge3(Content(p[1] - 1), log[p[1]].now, p[2])]
           Fix(f) == f = [i \in 0..n |->
                            IF i = 0 THEN main ELSE Merge3(Content(i - 1), log[i].now, f[i - 1])]
<1>1. n \in Nat /\ main \in S
  BY DEF TypeOK
<1>2. \A i \in 1..n : log[i].now \in S /\ Content(i - 1) \in S
  <2>1. \A i \in 1..n : log[i] \in Commit
    BY DEF TypeOK
  <2> QED BY <2>1, Contents DEF Commit
<1>3. \A i \in 1..n, x \in S : g[<<i, x>>] = Merge3(Content(i - 1), log[i].now, x)
  OBVIOUS
<1>4. g \in [(1..n) \X S -> S]
  BY <1>2, MergeType
<1> HIDE DEF n, S, g
<1>5. PICK f \in [0..n -> S] : Follows(f, main, g, n)
  <2> HIDE DEF Fix
  <2> QED BY <1>1, <1>4, Recursion
<1>6. \A i \in 1..n : i # 0 /\ i - 1 \in 0..n /\ f[i - 1] \in S
  BY <1>1, <1>5
<1>7. /\ f[0] = main
      /\ \A i \in 1..n : f[i] = Merge3(Content(i - 1), log[i].now, f[i - 1])
  BY <1>3, <1>5, <1>6 DEF Follows
<1>8. Fix(f)
  <2>1. \A i \in 0..n : i = 0 \/ i \in 1..n
    BY <1>1
  <2>2. DOMAIN f = 0..n /\ f = [i \in 0..n |-> f[i]]
    BY <1>5
  <2> QED BY <1>7, <2>1, <2>2
<1>9. Replayed = CHOOSE h : Fix(h)
  BY DEF Replayed, n
<1> HIDE DEF Fix
<1>10. Fix(Replayed)
  BY <1>8, <1>9
<1>11. /\ Replayed[0] = main
       /\ \A i \in 1..n : Replayed[i] = Merge3(Content(i - 1), log[i].now, Replayed[i - 1])
  BY <1>1, <1>10 DEF Fix
<1> DEFINE T == {i \in 0..n : Replayed[i] \in S}
<1>12. 0 \in T
  BY <1>1, <1>11
<1>13. ASSUME NEW i \in 1..n, i - 1 \in T PROVE i \in T
  <2>1. Replayed[i - 1] \in S /\ Replayed[i] = g[<<i, Replayed[i - 1]>>]
    BY <1>3, <1>11, <1>13
  <2>2. g[<<i, Replayed[i - 1]>>] \in S
    BY <1>4, <2>1
  <2> QED BY <1>1, <2>1, <2>2
<1> HIDE DEF T
<1>14. 0..n \subseteq T
  BY <1>1, <1>12, <1>13, InductionTo
<1> QED BY <1>11, <1>14 DEF T, n, S

\* And what is owed after each of them.
LEMMA OwedReplayedIs ==
  ASSUME TypeOK
  PROVE  \E o \in [0..Len(log) -> File] :
           /\ OwedReplayed = o[Len(log)]
           /\ o[0] = Owed(main)
           /\ \A i \in 1..Len(log) :
                o[i] = IF Replayed[i] = main THEN Owed(main)
                       ELSE IF Replayed[i] = Replayed[i - 1] THEN o[i - 1]
                       ELSE Owing(o[i - 1], log[i].step, Replayed[i])
<1> DEFINE n == Len(log)
           S == File
           NextOwed(i, x) == IF Replayed[i] = main THEN Owed(main)
                          ELSE IF Replayed[i] = Replayed[i - 1] THEN x
                          ELSE Owing(x, log[i].step, Replayed[i])
           g == [p \in (1..n) \X S |-> NextOwed(p[1], p[2])]
           Fix(f) == f = [i \in 0..n |->
                            IF i = 0 \/ Replayed[i] = main THEN Owed(main)
                            ELSE IF Replayed[i] = Replayed[i - 1] THEN f[i - 1]
                            ELSE Owing(f[i - 1], log[i].step, Replayed[i])]
           o == CHOOSE h : Fix(h)
<1>1. n \in Nat /\ Owed(main) \in S
  BY OwedType DEF TypeOK
<1>2. \A i \in 1..n : Replayed[i] \in File \cup {NoFile}
  BY <1>1, ReplayedIs
<1>3. \A i \in 1..n, x \in S : g[<<i, x>>] = NextOwed(i, x)
  OBVIOUS
<1>4. g \in [(1..n) \X S -> S]
  <2>1. ASSUME NEW i \in 1..n, NEW x \in S PROVE NextOwed(i, x) \in S
    BY <1>1, <1>2, OwingType
  <2> HIDE DEF NextOwed, n, S
  <2> QED BY <2>1
<1> HIDE DEF g, S
<1>5. PICK f \in [0..n -> S] : Follows(f, Owed(main), g, n)
  <2> HIDE DEF n, NextOwed, Fix, o
  <2> QED BY <1>1, <1>4, Recursion
<1>6. \A i \in 1..n : i # 0 /\ i - 1 \in 0..n /\ f[i - 1] \in S
  BY <1>1, <1>5
<1>7. f[0] = Owed(main) /\ \A i \in 1..n : f[i] = NextOwed(i, f[i - 1])
  <2> HIDE DEF NextOwed
  <2> QED BY <1>3, <1>5, <1>6 DEF Follows
<1>8. Fix(f)
  <2>1. \A i \in 0..n : i = 0 \/ i \in 1..n
    BY <1>1
  <2>2. DOMAIN f = 0..n /\ f = [i \in 0..n |-> f[i]]
    BY <1>5
  <2> QED BY <1>7, <2>1, <2>2
<1>9. OwedReplayed = o[n]
  BY DEF OwedReplayed
<1>10. Fix(o)
  <2> HIDE DEF Fix
  <2> QED BY <1>8
<1> HIDE DEF o
<1>11. /\ o[0] = Owed(main)
       /\ \A i \in 1..n : o[i] = NextOwed(i, o[i - 1])
  BY <1>1, <1>10
<1> DEFINE T == {i \in 0..n : o[i] \in S}
<1>12. 0 \in T
  BY <1>1, <1>11
<1>13. ASSUME NEW i \in 1..n, i - 1 \in T PROVE i \in T
  <2> HIDE DEF NextOwed
  <2>1. o[i - 1] \in S /\ o[i] = g[<<i, o[i - 1]>>]
    BY <1>3, <1>11, <1>13
  <2>2. g[<<i, o[i - 1]>>] \in S
    BY <1>4, <2>1
  <2> QED BY <1>1, <2>1, <2>2
<1>14. 0..n \subseteq T
  <2> HIDE DEF T, n
  <2> QED BY <1>1, <1>12, <1>13, InductionTo
<1>15. DOMAIN o = 0..n /\ o = [i \in DOMAIN o |-> o[i]]
  BY <1>10
<1>16. o \in [0..n -> S]
  <2> HIDE DEF Fix
  <2> QED BY <1>14, <1>15
<1> QED BY <1>9, <1>11, <1>16 DEF S

---------------------------------------------------------------------------
\* Types, step by step.
LEMMA ApprovedFile ==
  ASSUME NEW f \in File, OnMain(f)
  PROVE  /\ f # NoFile /\ Readable(f) /\ f.header \in Header
         /\ ItemsOf(f) = f.items
BY DEF OnMain, Readable, File, ItemsOf

LEMMA ChangesType ==
  ASSUME TypeOK, NEW f \in Changes(tree)
  PROVE  f \in File \cup {NoFile}
<1>1. ItemsOf(base) \in SUBSET Items /\ tree \in File \cup {NoFile} /\ Headers \subseteq Header \cup {Garbled}
  BY HeadersAssumption DEF TypeOK, ItemsOf, File
<1>2. CASE tree = NoFile
  <2>1. PICK h \in Headers : f = [header |-> h, items |-> ItemsOf(base)]
    BY <1>2 DEF Changes
  <2> QED BY <1>1, <2>1 DEF File
<1>3. CASE tree # NoFile
  <2>1. tree.items \in SUBSET Items /\ tree.header \in Header \cup {Garbled}
    BY <1>1, <1>3 DEF File
  <2>2. CASE f = NoFile
    BY <2>2
  <2>3. ASSUME NEW h \in Headers \cup {Garbled}, f = [tree EXCEPT !.header = h]
        PROVE  f \in File
    BY <1>1, <1>3, <2>1, <2>3 DEF File
  <2>4. ASSUME NEW n \in Items, f = [tree EXCEPT !.items = (@ \ {n}) \cup ({n} \ @)]
        PROVE  f \in File
    <3>1. (tree.items \ {n}) \cup ({n} \ tree.items) \in SUBSET Items
      BY <2>1
    <3> HIDE DEF Changes
    <3> QED BY <1>1, <1>3, <2>1, <2>4, <3>1 DEF File
  <2> QED BY <1>3, <2>2, <2>3, <2>4 DEF Changes
<1> QED BY <1>2, <1>3

\* A merge with main leaves a file that main may have, or none.
LEMMA MergedOnMain ==
  ASSUME NEW b \in File \cup {NoFile}, NEW x \in File \cup {NoFile}, NEW y \in File \cup {NoFile},
         x # NoFile => OnMain(x), y # NoFile => OnMain(y)
  PROVE  Merge3(b, x, y) \in {f \in File : OnMain(f)} \cup {NoFile}
<1>1. CASE NoFile \in {b, x, y}
  BY <1>1 DEF Merge3, MergeHeader
<1>2. CASE NoFile \notin {b, x, y}
  <2>1. Merge3(b, x, y) \in File /\ Merge3(b, x, y).header \in {x.header, y.header}
    BY <1>2, Merged DEF MergeHeader
  <2> QED BY <1>2, <2>1, NoFileAssumption DEF OnMain, Readable
<1> QED BY <1>1, <1>2

\* Where one of the three is gone, a merge without a conflict leaves the file of main.
LEMMA MergedGone ==
  ASSUME NEW b, NEW x, NEW y, NoFile \in {b, x, y}, y # b, ~Conflict(b, x, y)
  PROVE  Merge3(b, x, y) = y
BY DEF Merge3, MergeHeader, Conflict

\* A commit: the file of the tree, with the name of who made it.
LEMMA CommitsKeeps ==
  ASSUME BranchInv, NEW step \in Trailer, Commits(step)
  PROVE  BranchInv'
<1> DEFINE c == [step |-> step, merge |-> FALSE, now |-> tree]
           n == Len(log)
<1>1. /\ n \in Nat /\ Tip \in File \cup {NoFile}
      /\ \A i \in 0..n : Content(i) \in File \cup {NoFile}
  BY Contents DEF BranchInv
<1>2. tree \in File \cup {NoFile} /\ owed \in File
  BY DEF BranchInv, TypeOK
<1>3. c \in Commit
  BY <1>2 DEF Commit
<1>4. /\ log' = Append(log, c) /\ owed' = Owing(owed, step, tree)
      /\ UNCHANGED <<kind, main, base, fork, met, tree>>
  BY DEF Commits
<1> HIDE DEF c
<1>5. /\ Len(log') = n + 1
      /\ \A i \in 0..n : Content(i)' = Content(i)
      /\ \A i \in 1..n : log'[i] = log[i]
      /\ log'[n + 1] = c
      /\ \A i \in Nat : i = n + 1 => Content(i)' = c.now
      /\ Tip' = c.now
  BY <1>4, Extended DEF BranchInv
<1>6. c.now = tree /\ c.step = step /\ c.merge = FALSE
  BY DEF c
<1>7. TypeOK'
  <2>1. owed' \in File
    BY <1>2, <1>4, OwingType
  <2>2. log' \in Seq(Commit)
    BY <1>3, <1>4 DEF BranchInv, TypeOK
  <2> QED BY <1>1, <1>4, <1>5, <2>1, <2>2 DEF BranchInv, TypeOK
<1>8. ASSUME NEW from \in 0..n, ItemsOwed(from) PROVE ItemsOwed(from)'
  <2> SUFFICES ASSUME ItemsKept(from)' PROVE owed'.items = ItemsOf(tree)
    BY <1>5, <1>6 DEF ItemsOwed
  <2>1. ItemsKept(from)
    BY <1>1, <1>5 DEF ItemsKept
  <2>2. owed.items = ItemsOf(Tip)
    BY <1>8, <2>1 DEF ItemsOwed
  <2>3. n + 1 \in (from + 1)..(n + 1) /\ (n + 1) - 1 = n /\ n \in 0..n
    BY <1>1
  <2>4. step \notin {NoStep, "ddd-tactical"} => ItemsOf(tree) = ItemsOf(Tip)
    BY <1>1, <1>5, <1>6, <2>3 DEF ItemsKept, Tip
  <2> QED BY <1>4, <2>2, <2>4 DEF Owing
<1>9. ASSUME NEW from \in 0..n, HeaderOwed(from) PROVE HeaderOwed(from)'
  <2> SUFFICES ASSUME ~Gap', HeaderKept(from)' PROVE owed'.header = tree.header
    BY <1>5, <1>6 DEF HeaderOwed
  <2>1. HeaderKept(from)
    BY <1>1, <1>5 DEF HeaderKept
  <2>2. ~Gap
    BY <1>1, <1>5 DEF Gap, Readable
  <2>3. owed.header = Tip.header
    BY <1>9, <2>1, <2>2 DEF HeaderOwed
  <2>4. n + 1 \in (from + 1)..(n + 1) /\ (n + 1) - 1 = n /\ n \in 0..n /\ n + 1 \in 0..(n + 1)
    BY <1>1
  <2>5. Readable(tree)
    BY <1>5, <1>6, <2>4 DEF Gap, Readable
  <2>6. step # "reconciler" => tree.header = Tip.header
    BY <1>1, <1>5, <1>6, <2>4 DEF HeaderKept, Tip
  <2> QED BY <1>4, <2>3, <2>5, <2>6 DEF Owing
<1>10. met # 0 => log'[met] = log[met] /\ met \in 0..n
  BY <1>1, <1>5 DEF BranchInv, TypeOK
<1> QED BY <1>1, <1>4, <1>7, <1>8, <1>9, <1>10 DEF BranchInv

\* A merge of main: into the tip and into what is owed alike.
LEMMA MergeMainKeeps ==
  ASSUME BranchInv, MergeMain
  PROVE  BranchInv'
<1> DEFINE n == Len(log)
           f == Merge3(base, Tip, main)
           c == [step |-> NoStep, merge |-> TRUE, now |-> f]
           o == IF f = main THEN Owed(main) ELSE Merge3(base, owed, main)
<1>1. /\ n \in Nat /\ Tip \in File \cup {NoFile}
      /\ \A i \in 0..n : Content(i) \in File \cup {NoFile}
  BY Contents DEF BranchInv
<1>2. base \in File \cup {NoFile} /\ main \in File \cup {NoFile} /\ owed \in File
  BY DEF BranchInv, TypeOK
<1>3. /\ log' = Append(log, c) /\ met' = n + 1 /\ tree' = f /\ owed' = o
      /\ base' = main /\ UNCHANGED <<kind, main, fork>>
  BY DEF MergeMain
<1>4. main # base /\ ~Conflict(base, Tip, main)
  BY DEF MergeMain
<1>5. f # main => base \in File /\ Tip \in File /\ main \in File
  BY <1>1, <1>2, <1>4, MergedGone
<1>6. /\ f \in File \cup {NoFile}
      /\ f # main => /\ f \in File
                     /\ f.header = MergeHeader(base.header, Tip.header, main.header)
                     /\ f.items = MergeItems(base.items, Tip.items, main.items)
  BY <1>1, <1>2, <1>5, Merged, MergeType
<1>7. /\ o \in File
      /\ f # main => /\ o.header = MergeHeader(base.header, owed.header, main.header)
                     /\ o.items = MergeItems(base.items, owed.items, main.items)
  BY <1>2, <1>5, Merged, OwedType
<1>8. c \in Commit /\ c.now = f /\ c.merge = TRUE
  BY <1>6 DEF Commit, Trailer
<1> HIDE DEF c, f, o
<1>9. /\ Len(log') = n + 1
      /\ \A i \in 0..n : Content(i)' = Content(i)
      /\ \A i \in 1..n : log'[i] = log[i]
      /\ log'[n + 1] = c
      /\ \A i \in Nat : i = n + 1 => Content(i)' = c.now
      /\ Tip' = f
  BY <1>3, <1>8, Extended DEF BranchInv
<1>10. TypeOK'
  <2>1. log' \in Seq(Commit)
    BY <1>3, <1>8 DEF BranchInv, TypeOK
  <2> QED BY <1>1, <1>3, <1>6, <1>7, <1>9, <2>1 DEF BranchInv, TypeOK
<1>11. ~Gap' => Readable(f)
  <2>1. n + 1 \in Nat /\ n + 1 \in 0..Len(log')
    BY <1>1, <1>9
  <2> QED BY <1>8, <1>9, <2>1 DEF Gap, Readable
<1>12. f = main => owed'.items = ItemsOf(f) /\ (Readable(f) => owed'.header = f.header)
  BY <1>2, <1>3, OwedType DEF o
<1>13. ItemsOwed(0)'
  <2> SUFFICES ASSUME ItemsKept(0)' PROVE owed'.items = ItemsOf(f)
    BY <1>9 DEF ItemsOwed
  <2>1. ItemsKept(0)
    BY <1>1, <1>9 DEF ItemsKept
  <2>2. owed.items = ItemsOf(Tip)
    BY <2>1 DEF BranchInv, ItemsOwed
  <2>3. f # main => ItemsOf(f) = f.items /\ ItemsOf(Tip) = Tip.items
    BY <1>5, <1>6, NoFileAssumption DEF ItemsOf
  <2> QED BY <1>3, <1>6, <1>7, <1>12, <2>2, <2>3
<1>14. HeaderOwed(0)'
  <2> SUFFICES ASSUME ~Gap', HeaderKept(0)' PROVE owed'.header = f.header
    BY <1>9 DEF HeaderOwed
  <2>1. HeaderKept(0)
    BY <1>1, <1>9 DEF HeaderKept
  <2>2. ~Gap
    BY <1>1, <1>9 DEF Gap, Readable
  <2>3. owed.header = Tip.header
    BY <2>1, <2>2 DEF BranchInv, HeaderOwed
  <2>4. Readable(f)
    BY <1>11
  <2> QED BY <1>3, <1>6, <1>7, <1>12, <2>3, <2>4
<1>15. met' # 0 /\ log'[met'].now = main' => ItemsOwed(met)' /\ HeaderOwed(met)'
  BY <1>3, <1>8, <1>9, <1>11, <1>12 DEF ItemsOwed, HeaderOwed
<1> QED BY <1>3, <1>10, <1>13, <1>14, <1>15 DEF BranchInv

\* A rebase: every commit, and what is owed after it, is made again on main.
LEMMA RebaseKeeps ==
  ASSUME BranchInv, Rebase
  PROVE  BranchInv'
<1> DEFINE n == Len(log)
<1>1. n \in Nat /\ main \in File \cup {NoFile} /\ \A i \in 1..n : log[i] \in Commit
  BY DEF BranchInv, TypeOK
<1>2. /\ \A i \in 0..n : Replayed[i] \in File \cup {NoFile}
      /\ Replayed[0] = main
  BY ReplayedIs DEF BranchInv
<1>3. PICK o \in [0..n -> File] :
        /\ OwedReplayed = o[n]
        /\ o[0] = Owed(main)
        /\ \A i \in 1..n :
             o[i] = IF Replayed[i] = main THEN Owed(main)
                    ELSE IF Replayed[i] = Replayed[i - 1] THEN o[i - 1]
                    ELSE Owing(o[i - 1], log[i].step, Replayed[i])
  BY OwedReplayedIs DEF BranchInv
<1>4. /\ log' = [i \in DOMAIN log |-> [log[i] EXCEPT !.now = Replayed[i]]]
      /\ tree' = Replayed[n] /\ owed' = OwedReplayed
      /\ fork' = main /\ base' = main /\ UNCHANGED <<kind, main, met>>
  BY DEF Rebase
<1>5. met = 0 /\ met' = 0
  BY <1>4 DEF Rebase, BranchInv
<1>6. DOMAIN log = 1..n
  BY DEF BranchInv, TypeOK
<1>7. \A i \in 1..n : /\ ~log[i].merge
                      /\ log'[i] = [log[i] EXCEPT !.now = Replayed[i]]
  BY <1>4, <1>6 DEF Rebase
<1>8. ASSUME NEW i \in 1..n
      PROVE  /\ log'[i] \in Commit /\ log'[i].now = Replayed[i]
             /\ log'[i].step = log[i].step /\ ~log'[i].merge
  <2>1. log[i] \in Commit /\ Replayed[i] \in File \cup {NoFile}
    BY <1>1, <1>2
  <2>2. log'[i] = [log[i] EXCEPT !.now = Replayed[i]] /\ ~log[i].merge
    BY <1>7
  <2> QED BY <2>1, <2>2 DEF Commit
<1>9. log' \in Seq(Commit) /\ Len(log') = n
  <2>1. log' = [i \in 1..n |-> log'[i]]
    BY <1>4, <1>6
  <2> QED BY <1>1, <1>8, <2>1
<1>10. /\ \A i \in 0..n : Content(i)' = Replayed[i]
       /\ Tip' = Replayed[n]
  BY <1>1, <1>2, <1>4, <1>8, <1>9 DEF Content, Tip
<1>11. owed' = o[n] /\ o[n] \in File
  BY <1>1, <1>3, <1>4
<1>12. TypeOK'
  BY <1>1, <1>2, <1>4, <1>5, <1>9, <1>11 DEF BranchInv, TypeOK
<1>13. ItemsOwed(0)'
  <2> SUFFICES ASSUME ItemsKept(0)' PROVE o[n].items = ItemsOf(Replayed[n])
    BY <1>10, <1>11 DEF ItemsOwed
  <2> DEFINE T == {i \in 0..n : o[i].items = ItemsOf(Replayed[i])}
  <2>1. 0 \in T
    BY <1>1, <1>2, <1>3, OwedType
  <2>2. ASSUME NEW i \in 1..n, i - 1 \in T PROVE i \in T
    <3>1. o[i - 1].items = ItemsOf(Replayed[i - 1]) /\ i \in 0..n /\ i - 1 \in 0..n
      BY <2>2
    <3>2. log[i].step \notin {NoStep, "ddd-tactical"} =>
            ItemsOf(Replayed[i]) = ItemsOf(Replayed[i - 1])
      BY <1>8, <1>9, <1>10, <3>1 DEF ItemsKept
    <3>3. Owing(o[i - 1], log[i].step, Replayed[i]).items = ItemsOf(Replayed[i])
      BY <3>1, <3>2 DEF Owing
    <3>4. Owed(main).items = ItemsOf(main)
      BY <1>1, OwedType
    <3> QED BY <1>3, <3>1, <3>3, <3>4
  <2> HIDE DEF T, n
  <2>3. 0..n \subseteq T
    BY <1>1, <2>1, <2>2, InductionTo
  <2> QED BY <1>1, <2>3 DEF T
<1>14. HeaderOwed(0)'
  <2> SUFFICES ASSUME ~Gap', HeaderKept(0)'
               PROVE  o[n].header = Replayed[n].header
    BY <1>10, <1>11 DEF HeaderOwed
  <2>0. \A i \in 0..n : Readable(Replayed[i])
    BY <1>9, <1>10 DEF Gap, Readable
  <2> DEFINE T == {i \in 0..n : o[i].header = Replayed[i].header}
  <2>1. 0 \in T
    BY <1>1, <1>2, <1>3, <2>0, OwedType
  <2>2. ASSUME NEW i \in 1..n, i - 1 \in T PROVE i \in T
    <3>1. o[i - 1].header = Replayed[i - 1].header /\ i \in 0..n /\ i - 1 \in 0..n
      BY <2>2
    <3>2. Readable(Replayed[i])
      BY <2>0, <3>1
    <3>3. log[i].step # "reconciler" => Replayed[i].header = Replayed[i - 1].header
      BY <1>8, <1>9, <1>10, <3>1 DEF HeaderKept
    <3>4. Owing(o[i - 1], log[i].step, Replayed[i]).header = Replayed[i].header
      BY <3>1, <3>2, <3>3 DEF Owing
    <3>5. Replayed[i] = main => Owed(main).header = Replayed[i].header
      BY <1>1, <3>2, OwedType
    <3> QED BY <1>3, <3>1, <3>4, <3>5
  <2> HIDE DEF T, n
  <2>3. 0..n \subseteq T
    BY <1>1, <2>1, <2>2, InductionTo
  <2> QED BY <1>1, <2>3 DEF T
<1> QED BY <1>5, <1>12, <1>13, <1>14 DEF BranchInv

\* What does not change the branch leaves what is owed as it was, and main starts it anew.
LEMMA QuietKeeps ==
  ASSUME BranchInv, TypeOK', UNCHANGED <<base, fork, log, owed>>,
         met' = 0 \/ (met' = met /\ main' = main)
  PROVE  BranchInv'
BY DEF BranchInv, ItemsOwed, HeaderOwed, ItemsKept, HeaderKept, Gap, Content, Tip, Readable

LEMMA PublishKeeps ==
  ASSUME BranchInv, Publish
  PROVE  BranchInv'
<1> DEFINE f == Merge3(base, tree, main)
<1>1. /\ base \in File \cup {NoFile} /\ main \in File \cup {NoFile} /\ tree \in File \cup {NoFile}
      /\ (main # NoFile => OnMain(main)) /\ (tree # NoFile => OnMain(tree))
  BY DEF BranchInv, TypeOK, Publish
<1>2. f \in {x \in File : OnMain(x)} \cup {NoFile}
  BY <1>1, MergedOnMain
<1>3. /\ main' = f /\ base' = f /\ fork' = f /\ tree' = f /\ owed' = Owed(f)
      /\ log' = <<>> /\ met' = 0 /\ UNCHANGED kind
  BY DEF Publish
<1> HIDE DEF f
<1>4. Tip' = f /\ Content(0)' = f /\ 0 \in 0..Len(log')
  BY <1>3 DEF Tip, Content
<1>5. Owed(f) \in File /\ Owed(f).items = ItemsOf(f) /\ (Readable(f) => Owed(f).header = f.header)
  BY <1>2, OwedType
<1>6. TypeOK'
  BY <1>2, <1>3, <1>5 DEF BranchInv, TypeOK, OnMain, Readable
<1>7. ~Gap' => Readable(f)
  BY <1>4 DEF Gap, Readable
<1> QED BY <1>3, <1>4, <1>5, <1>6, <1>7 DEF BranchInv, ItemsOwed, HeaderOwed

LEMMA StepBranchInv == BranchInv /\ [BranchNext]_branchVars => BranchInv'
<1> SUFFICES ASSUME BranchInv, [BranchNext]_branchVars PROVE BranchInv'
  OBVIOUS
<1>1. ASSUME NEW f \in Changes(tree), Edit(f) PROVE BranchInv'
  <2>1. f \in File \cup {NoFile}
    BY ChangesType DEF BranchInv
  <2>2. TypeOK'
    BY <1>1, <2>1 DEF Edit, BranchInv, TypeOK, OnMain, Readable
  <2> QED BY <1>1, <2>2, QuietKeeps DEF Edit
<1>2. CASE Restore
  <2>1. Tip \in File \cup {NoFile}
    BY Contents DEF BranchInv
  <2>2. TypeOK'
    BY <1>2, <2>1 DEF Restore, BranchInv, TypeOK, OnMain, Readable
  <2> QED BY <1>2, <2>2, QuietKeeps DEF Restore
<1>3. ASSUME NEW step \in Trailer, Commits(step) PROVE BranchInv'
  BY <1>3, CommitsKeeps
<1>4. CASE MergeMain
  BY <1>4, MergeMainKeeps
<1>5. CASE Rebase
  BY <1>5, RebaseKeeps
<1>6. CASE MainMoves
  <2>1. TypeOK'
    BY <1>6 DEF MainMoves, BranchInv, TypeOK, OnMain, Readable
  <2> QED BY <1>6, <2>1, QuietKeeps DEF MainMoves
<1>7. CASE Publish
  BY <1>7, PublishKeeps
<1>8. ASSUME NEW f \in Others, OtherPublish(f) PROVE BranchInv'
  <2>1. TypeOK'
    BY <1>8, OthersAssumption DEF OtherPublish, BranchInv, TypeOK, OnMain, Readable
  <2> QED BY <1>8, <2>1, QuietKeeps DEF OtherPublish
<1>9. CASE UNCHANGED branchVars
  <2>1. TypeOK'
    BY <1>9 DEF branchVars, BranchInv, TypeOK, OnMain, Readable
  <2> QED BY <1>9, <2>1, QuietKeeps DEF branchVars
<1> QED BY <1>1, <1>2, <1>3, <1>4, <1>5, <1>6, <1>7, <1>8, <1>9 DEF BranchNext

LEMMA BranchInvHolds == BranchSpec => []BranchInv
BY InitBranchInv, StepBranchInv, PTL DEF BranchSpec

---------------------------------------------------------------------------
\* Every variable keeps its type, and what is on main is approved.
THEOREM BranchTypeCorrect == BranchSpec => []TypeOK
<1>1. BranchInv => TypeOK
  BY DEF BranchInv
<1> QED BY <1>1, BranchInvHolds, PTL

\* What the rules look at: the commits since `Start`, which is 0 or the merge.
LEMMA Looked ==
  ASSUME BranchInv
  PROVE  /\ Start \in 0..Len(log)
         /\ ItemsOwed(Start) /\ HeaderOwed(Start)
         /\ \A i \in (Start + 1)..Len(log) :
              ~log[i].merge => i \in Judged \/ Content(i) = Content(i - 1)
<1>1. Start \in 0..Len(log) /\ ItemsOwed(Start) /\ HeaderOwed(Start)
  BY DEF BranchInv, TypeOK, Start
<1> QED BY <1>1 DEF Judged, Touching

\* What D15 lets pass left no tactical element that nobody who may had left so.
THEOREM TacticalAccountedHolds == BranchSpec => []TacticalAccounted
<1>1. BranchInv => TacticalAccounted
  <2> SUFFICES ASSUME BranchInv, ~Errors, kind = "context", tree # NoFile
               PROVE  ItemsOf(Tip) = owed.items
    BY DEF TacticalAccounted
  <2>1. ~D15
    BY DEF Errors
  <2>2. ItemsKept(Start)
    BY <2>1, Looked DEF D15, ItemsKept
  <2> QED BY <2>2, Looked DEF ItemsOwed
<1> QED BY <1>1, BranchInvHolds, PTL

\* What H5 lets pass left no version and no status but the reconciler's or main's.
THEOREM HeadersAccountedHolds == BranchSpec => []HeadersAccounted
<1>1. BranchInv => HeadersAccounted
  <2> SUFFICES ASSUME BranchInv, ~Errors, tree # NoFile, ~Gap PROVE tree.header = owed.header
    BY DEF HeadersAccounted
  <2>1. ~H5 /\ Readable(tree)
    BY DEF Errors
  <2>2. HeaderKept(Start)
    <3> SUFFICES ASSUME NEW i \in (Start + 1)..Len(log), ~log[i].merge,
                        log[i].step # "reconciler"
                 PROVE  Content(i).header = Content(i - 1).header
      BY DEF HeaderKept
    <3>1. i \in 0..Len(log) /\ i - 1 \in 0..Len(log)
      BY Looked DEF BranchInv, TypeOK
    <3>2. Readable(Content(i)) /\ Readable(Content(i - 1))
      BY <3>1 DEF Gap
    <3> QED BY <2>1, <3>2, Looked DEF H5, HeaderChanged
  <2>3. Readable(Tip)
    BY Contents DEF Gap, Tip, BranchInv
  <2>4. owed.header = Tip.header
    BY <2>2, Looked DEF HeaderOwed
  <2> QED BY <2>1, <2>3, <2>4 DEF H5, HeaderChanged
<1> QED BY <1>1, BranchInvHolds, PTL

\* While a file stays on main, no merge takes an approved ID from it or fills a gap below the
\* highest of a series, whatever was on main when the branch began.
THEOREM IdsStayHolds == BranchSpec => IdsStay
<1>1. BranchInv /\ [BranchNext]_branchVars =>
        [kind # "context" /\ NoFile \notin {main, main'} =>
           Continues(main.items, main'.items)]_branchVars
  <2> SUFFICES ASSUME BranchInv, BranchNext, kind # "context", NoFile \notin {main, main'}
               PROVE  Continues(main.items, main'.items)
    BY DEF branchVars
  <2>1. CASE Publish
    <3> DEFINE f == Merge3(base, tree, main)
    <3>1. /\ base \in File \cup {NoFile} /\ main \in File /\ tree \in File \cup {NoFile}
          /\ OnMain(main) /\ main' = f /\ ~Conflict(base, tree, main) /\ ~Errors
      BY <2>1 DEF BranchInv, TypeOK, Publish
    <3>2. CASE NoFile \notin {base, tree}
      <4>1. f.items = MergeItems(base.items, tree.items, main.items)
        BY <3>1, <3>2, Merged
      <4>2. ItemsOf(tree) = tree.items /\ ~S7
        BY <3>1, <3>2 DEF Errors, ItemsOf
      <4>3. Continues(main.items, tree.items)
        BY <3>1, <4>2 DEF S7, Continues
      <4> HIDE DEF f
      <4> QED BY <3>1, <4>1, <4>3 DEF MergeItems, Continues
    <3>3. CASE NoFile \in {base, tree} /\ f = main
      BY <3>1, <3>3 DEF Continues
    <3>4. CASE NoFile \in {base, tree} /\ f # main
      <4>1. f = tree /\ tree # NoFile
        BY <3>1, <3>4 DEF Merge3, MergeHeader
      <4>2. ItemsOf(tree) = tree.items /\ ~S7
        BY <3>1, <4>1 DEF Errors, ItemsOf
      <4> QED BY <3>1, <4>1, <4>2 DEF S7, Continues
    <3> QED BY <3>2, <3>3, <3>4
  <2>2. ASSUME NEW f \in Others, OtherPublish(f) PROVE Continues(main.items, main'.items)
    BY <2>2 DEF OtherPublish, Continues
  <2>3. CASE main' = main
    BY <2>3 DEF Continues
  <2> QED BY <2>1, <2>2, <2>3 DEF BranchNext, Edit, Restore, Commits, MergeMain, Rebase, MainMoves
<1> QED BY <1>1, BranchInvHolds, PTL DEF BranchSpec, IdsStay
=============================================================================
