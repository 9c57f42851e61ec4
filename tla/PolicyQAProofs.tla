---------------------------- MODULE PolicyQAProofs ----------------------------
(***************************************************************************)
(* Safety of the policy questions, for every number of questions, job      *)
(* levels, ingests and restarts, and for every similarity of texts.        *)
(***************************************************************************)
EXTENDS PolicyQA, FiniteSetTheorems, InductionFacts

-------------------------------------------------------------------------------
(* The parser of the corpus. *)

SectionRecords == [section_id : Sections, job_levels : SUBSET Levels, text : Seq(Lines)]

\* What the loop keeps between two lines.
LoopStates ==
  [sections : Seq(SectionRecords), id : Sections \cup {""}, levels : SUBSET Levels, body : Seq(Lines)]

LEMMA LineKinds ==
  ASSUME NEW line \in Lines
  PROVE  /\ line.kind = "heading" => line.id \in Sections
         /\ line.kind = "job_levels" => line.levels \in (SUBSET Levels) \ {{}}
         /\ line.kind \in {"heading", "job_levels", "text"}
<1>1. CASE \E id \in Sections : line = Heading(id)
  BY <1>1 DEF Heading
<1>2. CASE \E levels \in (SUBSET Levels) \ {{}} : line = JobLevels(levels)
  <2>1. PICK levels \in (SUBSET Levels) \ {{}} : line = JobLevels(levels)
    BY <1>2
  <2>2. line.kind = "job_levels" /\ line.levels = levels
    BY <2>1 DEF JobLevels
  <2> QED
    BY <2>2
<1>3. CASE line = Text
  BY <1>3 DEF Text
<1> QED
  BY <1>1, <1>2, <1>3 DEF Lines

LEMMA FlushIsTyped ==
  ASSUME NEW state \in LoopStates
  PROVE  Flush(state) \in Seq(SectionRecords)
<1> DEFINE section == [section_id |-> state.id, job_levels |-> state.levels, text |-> state.body]
<1>1. CASE state.id = ""
  BY <1>1 DEF Flush, LoopStates
<1>2. CASE state.id # ""
  <2>1. section \in SectionRecords
    BY <1>2 DEF LoopStates, SectionRecords
  <2>2. state.sections \in Seq(SectionRecords)
    BY DEF LoopStates
  <2>3. Flush(state) = Append(state.sections, section)
    BY <1>2 DEF Flush
  <2> HIDE DEF section
  <2> QED
    BY <2>1, <2>2, <2>3, AppendProperties
<1> QED
  BY <1>1, <1>2

LEMMA ReadLineIsTyped ==
  ASSUME NEW state \in LoopStates, NEW line \in Lines
  PROVE  ReadLine(state, line) \in LoopStates
<1>1. CASE line.kind = "heading"
  <2>1. Flush(state) \in Seq(SectionRecords) /\ line.id \in Sections /\ <<>> \in Seq(Lines)
    BY <1>1, FlushIsTyped, LineKinds, EmptySeq
  <2>2. ReadLine(state, line) = [sections |-> Flush(state), id |-> line.id, levels |-> {}, body |-> <<>>]
    BY <1>1 DEF ReadLine
  <2>3. [sections |-> Flush(state), id |-> line.id, levels |-> {}, body |-> <<>>] \in LoopStates
    BY <2>1 DEF LoopStates
  <2> QED
    BY <2>2, <2>3
<1>2. CASE line.kind = "job_levels" /\ state.id # "" /\ state.levels = {}
  <2>1. ReadLine(state, line) = [state EXCEPT !.levels = line.levels]
    BY <1>2 DEF ReadLine
  <2>2. line.levels \in SUBSET Levels
    BY <1>2, LineKinds
  <2> QED
    BY <2>1, <2>2 DEF LoopStates
<1>3. CASE line.kind # "heading" /\ ~(line.kind = "job_levels" /\ state.id # "" /\ state.levels = {})
  <2>1. ReadLine(state, line) = IF state.id # "" THEN [state EXCEPT !.body = Append(state.body, line)] ELSE state
    BY <1>3 DEF ReadLine
  <2>2. Append(state.body, line) \in Seq(Lines)
    BY AppendProperties DEF LoopStates
  <2> QED
    BY <2>1, <2>2 DEF LoopStates
<1> QED
  BY <1>1, <1>2, <1>3

IsParse(f, lines) ==
  f = [i \in 0..Len(lines) |-> IF i = 0 THEN Start ELSE ReadLine(f[i - 1], lines[i])]

\* f is the loop's state after each line.
Parse(f, lines) ==
  /\ f \in [0..Len(lines) -> LoopStates]
  /\ f[0] = Start
  /\ \A i \in 1..Len(lines) : f[i] = ReadLine(f[i - 1], lines[i])

LEMMA ParseExists ==
  ASSUME NEW lines \in Seq(Lines)
  PROVE  \E f : Parse(f, lines) /\ ParsePolicyCorpus(lines) = Flush(f[Len(lines)])
<1> DEFINE n == Len(lines)
           step == [i \in 1..n |-> [state \in LoopStates |-> ReadLine(state, lines[i])]]
<1>1. n \in Nat /\ \A i \in 1..n : lines[i] \in Lines
  BY LenProperties, ElementOfSeq
<1> HIDE DEF n
<1>2. \A i \in 1..n, state \in LoopStates : step[i][state] = ReadLine(state, lines[i])
  OBVIOUS
<1>3. \A i \in 1..n : step[i] \in [LoopStates -> LoopStates]
  BY <1>1, ReadLineIsTyped
<1>4. Start \in LoopStates
  BY EmptySeq DEF Start, LoopStates
<1> HIDE DEF step
<1>5. PICK f : Recursion(f, n, LoopStates, Start, step)
  BY <1>1, <1>3, <1>4, RecursionExists
<1>6. /\ f \in [0..n -> LoopStates] /\ f[0] = Start
      /\ \A i \in 1..n : f[i] = ReadLine(f[i - 1], lines[i])
  <2>1. \A i \in 1..n : i - 1 \in 0..n
    BY <1>1
  <2> QED
    BY <1>2, <1>5, <2>1 DEF Recursion
<1>7. 0 \in 0..n /\ n \in 0..n /\ \A i \in 0..n : i # 0 <=> i \in 1..n
  BY <1>1
<1>8. IsParse(f, lines)
  <2>1. \A i \in 0..n : f[i] = IF i = 0 THEN Start ELSE ReadLine(f[i - 1], lines[i])
    BY <1>6, <1>7
  <2> QED
    BY <1>6, <2>1 DEF IsParse, n
<1>9. PICK g : IsParse(g, lines) /\ ParsePolicyCorpus(lines) = Flush(g[n])
  <2>1. IsParse(CHOOSE g : IsParse(g, lines), lines)
    BY <1>8
  <2>2. ParsePolicyCorpus(lines) = Flush((CHOOSE g : IsParse(g, lines))[n])
    BY DEF ParsePolicyCorpus, IsParse, n
  <2> QED
    BY <2>1, <2>2
<1>10. \A i \in 0..n : g[i] = f[i]
  <2>1. \A i \in 0..n : g[i] = IF i = 0 THEN Start ELSE ReadLine(g[i - 1], lines[i])
    <3>1. g = [i \in 0..n |-> IF i = 0 THEN Start ELSE ReadLine(g[i - 1], lines[i])]
      BY <1>9 DEF IsParse, n
    <3> QED
      BY <3>1, Zenon
  <2> DEFINE Same == {i \in 0..n : g[i] = f[i]}
  <2>2. 0 \in Same
    BY <1>6, <1>7, <2>1
  <2>3. ASSUME NEW i \in 1..n, i - 1 \in Same PROVE i \in Same
    <3>1. i \in 0..n /\ i # 0 /\ g[i - 1] = f[i - 1]
      BY <1>1, <2>3
    <3>2. g[i] = f[i]
      BY <1>6, <2>1, <3>1
    <3> QED
      BY <3>1, <3>2
  <2>4. \A i \in 0..n : i \in Same
    <3> HIDE DEF Same
    <3> QED
      BY <1>1, <2>2, <2>3, UpTo
  <2> QED
    BY <2>4
<1>11. Parse(f, lines)
  BY <1>6 DEF Parse, n
<1>12. ParsePolicyCorpus(lines) = Flush(f[n])
  BY <1>7, <1>9, <1>10
<1> QED
  BY <1>11, <1>12 DEF n

\* The section at i is the last of its id.
IsLastOf(sections, id, i) ==
  /\ i \in DOMAIN sections
  /\ sections[i].section_id = id
  /\ \A j \in DOMAIN sections : sections[j].section_id = id => j <= i

\* The points have the ids of the sections.
LEMMA PointsOfSections ==
  ASSUME NEW sections
  PROVE  DOMAIN CorpusOf(sections) = {sections[i].section_id : i \in DOMAIN sections}
BY DEF CorpusOf

\* And each has the levels of the last of its sections.
LEMMA LastSectionCounts ==
  ASSUME NEW sections \in Seq(SectionRecords), NEW id, NEW i, IsLastOf(sections, id, i)
  PROVE  CorpusOf(sections)[id] = sections[i].job_levels
<1> DEFINE n == Len(sections)
           last == CHOOSE k \in DOMAIN sections :
                     /\ sections[k].section_id = id
                     /\ \A j \in DOMAIN sections : sections[j].section_id = id => j <= k
<1>1. n \in Nat /\ DOMAIN sections = 1..n
  BY LenProperties
<1>2. IsLastOf(sections, id, last)
  BY DEF IsLastOf
<1>3. CorpusOf(sections)[id] = sections[last].job_levels
  BY DEF CorpusOf, IsLastOf
<1> HIDE DEF n, last
<1>4. last \in 1..n /\ i \in 1..n /\ last <= i /\ i <= last
  BY <1>1, <1>2 DEF IsLastOf
<1> QED
  BY <1>3, <1>4

\* Each of the ids has a last section.
LEMMA LastSectionExists ==
  ASSUME NEW sections \in Seq(SectionRecords), NEW id \in DOMAIN CorpusOf(sections)
  PROVE  \E i : IsLastOf(sections, id, i)
<1> DEFINE n == Len(sections)
           S == {i \in 1..n : sections[i].section_id = id}
<1>1. n \in Nat /\ DOMAIN sections = 1..n
  BY LenProperties
<1>2. S # {}
  <2>1. DOMAIN CorpusOf(sections) = {sections[i].section_id : i \in DOMAIN sections}
    BY PointsOfSections
  <2>2. PICK i \in DOMAIN sections : id = sections[i].section_id
    BY <2>1
  <2> QED
    BY <1>1, <2>2
<1> HIDE DEF n
<1>3. S \in SUBSET (1..n)
  OBVIOUS
<1>4. PICK i \in S : \A j \in S : j <= i
  <2> HIDE DEF S
  <2> QED
    BY <1>1, <1>2, <1>3, GreatestExists
<1> QED
  BY <1>1, <1>4 DEF IsLastOf

\* The corpus after has the point of id as well, or another one of it.
HasPoint(after, before, id, levels) ==
  /\ DOMAIN after = DOMAIN before \cup {id}
  /\ after[id] = levels
  /\ \A other \in DOMAIN before \ {id} : after[other] = before[other]

\* One more section adds its id, or overwrites what an earlier one of it left.
LEMMA OneMoreSection ==
  ASSUME NEW sections \in Seq(SectionRecords), NEW section \in SectionRecords
  PROVE  HasPoint(CorpusOf(Append(sections, section)), CorpusOf(sections),
                  section.section_id, section.job_levels)
<1> DEFINE n == Len(sections)
           more == Append(sections, section)
<1>1. n \in Nat /\ DOMAIN sections = 1..n
  BY LenProperties
<1>2. /\ more \in Seq(SectionRecords) /\ DOMAIN more = 1..(n + 1)
      /\ \A i \in 1..n : more[i] = sections[i]
      /\ more[n + 1] = section
  BY AppendProperties
<1> HIDE DEF n, more
<1>3. \A i : i \in 1..(n + 1) <=> i \in 1..n \/ i = n + 1
  BY <1>1
<1>4. /\ DOMAIN CorpusOf(sections) = {sections[i].section_id : i \in DOMAIN sections}
      /\ DOMAIN CorpusOf(more) = {more[i].section_id : i \in DOMAIN more}
  BY PointsOfSections
<1>5. DOMAIN CorpusOf(more) = DOMAIN CorpusOf(sections) \cup {section.section_id}
  BY <1>1, <1>2, <1>3, <1>4
<1>6. CorpusOf(more)[section.section_id] = section.job_levels
  <2>1. IsLastOf(more, section.section_id, n + 1)
    BY <1>1, <1>2, <1>3 DEF IsLastOf
  <2> QED
    BY <1>2, <2>1, LastSectionCounts
<1>7. ASSUME NEW id \in DOMAIN CorpusOf(sections) \ {section.section_id}
      PROVE  CorpusOf(more)[id] = CorpusOf(sections)[id]
  <2>1. PICK i : IsLastOf(sections, id, i)
    BY LastSectionExists
  <2>2. i \in 1..n
    BY <1>1, <2>1 DEF IsLastOf
  <2>3. IsLastOf(more, id, i)
    BY <1>1, <1>2, <1>3, <1>7, <2>1, <2>2 DEF IsLastOf
  <2>4. CorpusOf(sections)[id] = sections[i].job_levels
    BY <2>1, LastSectionCounts, Zenon
  <2>5. CorpusOf(more)[id] = more[i].job_levels
    <3>1. more \in Seq(SectionRecords)
      BY <1>2
    <3> QED
      BY <2>3, <3>1, LastSectionCounts, Zenon
  <2> QED
    BY <1>2, <2>2, <2>4, <2>5
<1> QED
  BY <1>5, <1>6, <1>7 DEF HasPoint, more

\* The first comment of the section at h.
IsFirstComment(lines, h, j) ==
  j \in Comments(lines, h) /\ \A k \in Comments(lines, h) : j <= k

\* The levels that the lines up to i give the section at h.
LevelsUpTo(lines, h, i) ==
  UNION {lines[j].levels : j \in {j \in DOMAIN lines : j <= i /\ IsFirstComment(lines, h, j)}}

\* Once the first comment has been read, they are its levels.
LEMMA FirstCommentCounts ==
  ASSUME NEW lines \in Seq(Lines), NEW h, NEW j, IsFirstComment(lines, h, j), NEW i \in Nat
  PROVE  LevelsUpTo(lines, h, i) = IF j <= i THEN lines[j].levels ELSE {}
<1>1. Comments(lines, h) \in SUBSET DOMAIN lines /\ DOMAIN lines \in SUBSET Nat
  BY DEF Comments, Below
<1>2. \A k : IsFirstComment(lines, h, k) => k = j
  BY <1>1 DEF IsFirstComment
<1>3. {k \in DOMAIN lines : k <= i /\ IsFirstComment(lines, h, k)} = IF j <= i THEN {j} ELSE {}
  BY <1>1, <1>2 DEF IsFirstComment
<1> QED
  BY <1>3 DEF LevelsUpTo

\* And a section with a comment has a first one.
LEMMA FirstCommentExists ==
  ASSUME NEW lines \in Seq(Lines), NEW h, NEW i \in Comments(lines, h)
  PROVE  \E j \in Comments(lines, h) : IsFirstComment(lines, h, j) /\ j <= i
<1>1. Comments(lines, h) \in SUBSET Nat /\ Comments(lines, h) # {}
  BY DEF Comments, Below
<1>2. PICK j \in Comments(lines, h) : \A k \in Comments(lines, h) : j <= k
  BY <1>1, LeastExists
<1> QED
  BY <1>2 DEF IsFirstComment

\* The levels of a section are those that all the lines below it give it.
LEMMA LevelsOfWholeSection ==
  ASSUME NEW lines \in Seq(Lines), NEW h, NEW i \in Nat, \A j \in Comments(lines, h) : j <= i
  PROVE  LevelsAt(lines, h) = LevelsUpTo(lines, h, i)
<1>1. {j \in Comments(lines, h) : \A k \in Comments(lines, h) : j <= k} =
        {j \in DOMAIN lines : j <= i /\ IsFirstComment(lines, h, j)}
  BY DEF IsFirstComment, Comments, Below
<1> QED
  BY <1>1 DEF LevelsAt, LevelsUpTo

\* Line i is of the section at h, or is its heading.
Within(lines, h, i) ==
  /\ h \in Headings(lines) /\ h <= i
  /\ \A g \in Headings(lines) : g <= h \/ i < g

\* Line i gives the section above it its levels if it is the first to.
LEMMA NextLine ==
  ASSUME NEW lines \in Seq(Lines), NEW i \in 1..Len(lines), lines[i].kind # "heading",
         NEW h, Within(lines, h, i - 1)
  PROVE  /\ Within(lines, h, i)
         /\ LevelsUpTo(lines, h, i) =
              IF lines[i].kind = "job_levels" /\ LevelsUpTo(lines, h, i - 1) = {}
              THEN lines[i].levels ELSE LevelsUpTo(lines, h, i - 1)
<1>1. Len(lines) \in Nat /\ DOMAIN lines = 1..Len(lines)
  BY LenProperties
<1>2. /\ h \in Headings(lines) /\ h \in 1..Len(lines) /\ h < i
      /\ \A g \in Headings(lines) : g \in 1..Len(lines) /\ (g <= h \/ i < g)
  <2>1. \A g \in Headings(lines) : g \in 1..Len(lines) /\ g # i
    BY <1>1 DEF Headings
  <2> QED
    BY <1>1, <2>1 DEF Within
<1>3. Within(lines, h, i)
  BY <1>1, <1>2 DEF Within
<1>4. i \in Below(lines, h)
  BY <1>1, <1>2 DEF Below
<1>5. CASE lines[i].kind = "job_levels"
  <2>1. i \in Comments(lines, h)
    BY <1>4, <1>5 DEF Comments
  <2>2. PICK j \in Comments(lines, h) : IsFirstComment(lines, h, j) /\ j <= i
    BY <2>1, FirstCommentExists
  <2>3. j \in 1..Len(lines) /\ lines[j].levels # {}
    <3>1. j \in DOMAIN lines /\ lines[j].kind = "job_levels"
      BY DEF Comments, Below
    <3>2. lines[j] \in Lines
      BY <3>1
    <3> QED
      BY <1>1, <3>1, <3>2, LineKinds
  <2>4. /\ i \in Nat /\ i - 1 \in Nat
        /\ LevelsUpTo(lines, h, i) = lines[j].levels
        /\ LevelsUpTo(lines, h, i - 1) = IF j <= i - 1 THEN lines[j].levels ELSE {}
    <3>1. i \in Nat /\ i - 1 \in Nat
      BY <1>1
    <3> QED
      BY <2>2, <3>1, FirstCommentCounts
  <2>5. j <= i - 1 \/ j = i
    BY <1>1, <2>2, <2>3
  <2> QED
    BY <1>3, <1>5, <2>3, <2>4, <2>5
<1>6. CASE lines[i].kind # "job_levels"
  <2>1. i \notin Comments(lines, h)
    BY <1>6 DEF Comments
  <2>2. {j \in DOMAIN lines : j <= i /\ IsFirstComment(lines, h, j)} =
          {j \in DOMAIN lines : j <= i - 1 /\ IsFirstComment(lines, h, j)}
    <3>1. \A j \in DOMAIN lines : j # i => (j <= i <=> j <= i - 1)
      BY <1>1
    <3>2. ~IsFirstComment(lines, h, i)
      BY <2>1 DEF IsFirstComment
    <3> QED
      BY <1>1, <3>1, <3>2
  <2> QED
    BY <1>3, <1>6, <2>2 DEF LevelsUpTo
<1> QED
  BY <1>5, <1>6

\* The heading at g is the last of its id among those before line h.
IsLastBefore(lines, g, h) ==
  /\ g \in Headings(lines) /\ g < h
  /\ \A k \in Headings(lines) : k < h /\ lines[k].id = lines[g].id => k <= g

\* The corpus has what is written before line h.
HasWhatIsBefore(corpus, lines, h) ==
  /\ DOMAIN corpus = {lines[g].id : g \in {g \in Headings(lines) : g < h}}
  /\ \A g \in Headings(lines) :
       IsLastBefore(lines, g, h) => corpus[lines[g].id] = LevelsAt(lines, g)

\* The loop's state after line i: it is at the last heading that it has read, with
\* the sections before that one collected.
HasRead(state, lines, i) ==
  \/ state.id = "" /\ state.sections = <<>> /\ \A g \in Headings(lines) : i < g
  \/ \E h \in Headings(lines) :
       /\ Within(lines, h, i)
       /\ state.id = lines[h].id
       /\ state.levels = LevelsUpTo(lines, h, i)
       /\ HasWhatIsBefore(CorpusOf(state.sections), lines, h)

\* A flush, at a heading or at the end, completes the corpus up to there.
LEMMA FlushCompletes ==
  ASSUME NEW lines \in Seq(Lines), NEW state \in LoopStates, NEW i \in 0..Len(lines),
         HasRead(state, lines, i),
         i = Len(lines) \/ i + 1 \in Headings(lines)
  PROVE  HasWhatIsBefore(CorpusOf(Flush(state)), lines, i + 1)
<1>1. /\ Len(lines) \in Nat /\ DOMAIN lines = 1..Len(lines)
      /\ \A g \in Headings(lines) : g \in 1..Len(lines) /\ lines[g].id \in Sections
  <2>1. \A g \in Headings(lines) : g \in DOMAIN lines /\ lines[g] \in Lines /\ lines[g].kind = "heading"
    BY DEF Headings
  <2> QED
    BY <2>1, LenProperties, LineKinds
<1>2. /\ i \in Nat /\ i + 1 \in Nat
      /\ \A g \in Headings(lines) : g \in Nat /\ (g < i + 1 <=> g <= i)
  <2>1. \A n \in Nat : \A j \in 0..n : j \in Nat /\ j + 1 \in Nat
    OBVIOUS
  <2>2. i \in Nat /\ i + 1 \in Nat
    BY <1>1, <2>1
  <2>3. ASSUME NEW g \in Headings(lines) PROVE g \in Nat /\ (g < i + 1 <=> g <= i)
    <3>1. \A n \in Nat : \A k \in 1..n : k \in Nat
      OBVIOUS
    <3>2. g \in Nat
      BY <1>1, <3>1, Zenon
    <3> QED
      BY <2>2, <3>2
  <2> QED
    BY <2>2, <2>3
<1>3. CASE state.id = "" /\ state.sections = <<>> /\ \A g \in Headings(lines) : i < g
  <2>1. CorpusOf(Flush(state)) = CorpusOf(<<>>)
    BY <1>3 DEF Flush
  <2>2. DOMAIN CorpusOf(<<>>) = {}
    BY DEF CorpusOf
  <2>3. ASSUME NEW g \in Headings(lines) PROVE ~(g < i + 1)
    <3>1. g \in Nat /\ i < g
      BY <1>2, <1>3
    <3> QED
      BY <1>2, <3>1
  <2> QED
    BY <2>1, <2>2, <2>3 DEF HasWhatIsBefore, IsLastBefore
<1>4. ASSUME NEW h \in Headings(lines),
             Within(lines, h, i),
             state.id = lines[h].id,
             state.levels = LevelsUpTo(lines, h, i),
             HasWhatIsBefore(CorpusOf(state.sections), lines, h)
      PROVE  HasWhatIsBefore(CorpusOf(Flush(state)), lines, i + 1)
  <2> DEFINE section == [section_id |-> state.id, job_levels |-> state.levels, text |-> state.body]
             before == CorpusOf(state.sections)
             after == CorpusOf(Append(state.sections, section))
  <2>1. state.id \in Sections /\ state.id # ""
    BY <1>1, <1>4, CorpusAssumption
  <2>2. Flush(state) = Append(state.sections, section)
    BY <2>1 DEF Flush
  <2>3. section \in SectionRecords /\ state.sections \in Seq(SectionRecords)
    BY <2>1 DEF SectionRecords, LoopStates
  <2>4. section.section_id = lines[h].id /\ section.job_levels = LevelsUpTo(lines, h, i)
    BY <1>4
  <2> HIDE DEF section
  <2>5. /\ DOMAIN after = DOMAIN before \cup {lines[h].id}
        /\ after[lines[h].id] = LevelsUpTo(lines, h, i)
        /\ \A id \in DOMAIN before \ {lines[h].id} : after[id] = before[id]
    <3>1. HasPoint(after, before, section.section_id, section.job_levels)
      BY <2>3, OneMoreSection
    <3> HIDE DEF before, after
    <3> QED
      BY <2>4, <3>1 DEF HasPoint
  <2> HIDE DEF before, after
  <2>6. LevelsUpTo(lines, h, i) = LevelsAt(lines, h)
    <3>1. \A j \in Comments(lines, h) : j \in 1..Len(lines) /\ (i + 1 \in Headings(lines) => ~(h < i + 1 /\ i + 1 <= j))
      BY <1>1 DEF Comments, Below
    <3>2. h < i + 1
      BY <1>1, <1>2, <1>4 DEF Within
    <3>3. ASSUME NEW j \in Comments(lines, h) PROVE j <= i
      <4>1. j \in 1..Len(lines) /\ (i + 1 \in Headings(lines) => ~(i + 1 <= j))
        BY <3>1, <3>2
      <4>2. CASE i = Len(lines)
        BY <1>1, <4>1, <4>2
      <4>3. CASE i + 1 \in Headings(lines)
        <5>1. j \in Nat /\ ~(i + 1 <= j)
          BY <4>1, <4>3
        <5> QED
          BY <1>2, <5>1
      <4> QED
        BY <4>2, <4>3
    <3> QED
      BY <1>2, <3>3, LevelsOfWholeSection
  <2>7. ASSUME NEW g \in Headings(lines) PROVE g < i + 1 <=> g < h \/ g = h
    <3>1. h \in Nat /\ g \in Nat /\ h <= i /\ (g <= h \/ i < g)
      BY <1>2, <1>4 DEF Within
    <3> QED
      BY <1>2, <3>1
  <2>8. DOMAIN after = {lines[g].id : g \in {g \in Headings(lines) : g < i + 1}}
    <3>1. DOMAIN before = {lines[g].id : g \in {g \in Headings(lines) : g < h}}
      BY <1>4 DEF HasWhatIsBefore, before
    <3> QED
      BY <2>5, <2>7, <3>1
  <2>9. ASSUME NEW g \in Headings(lines), IsLastBefore(lines, g, i + 1)
        PROVE  after[lines[g].id] = LevelsAt(lines, g)
    <3>1. CASE g = h
      BY <2>5, <2>6, <3>1
    <3>2. CASE g # h
      <4>1. g < h /\ \A k \in Headings(lines) : k < h /\ lines[k].id = lines[g].id => k <= g
        BY <2>7, <2>9, <3>2 DEF IsLastBefore
      <4>2. lines[h].id # lines[g].id
        <5>1. lines[h].id = lines[g].id => h <= g
          BY <2>7, <2>9 DEF IsLastBefore
        <5>2. g \in Nat /\ h \in Nat /\ g < h
          BY <1>2, <4>1
        <5> QED
          BY <5>1, <5>2
      <4>3. before[lines[g].id] = LevelsAt(lines, g)
        BY <1>4, <4>1 DEF HasWhatIsBefore, IsLastBefore, before
      <4>4. lines[g].id \in DOMAIN before
        BY <1>4, <4>1 DEF HasWhatIsBefore, before
      <4> QED
        BY <2>5, <4>2, <4>3, <4>4
    <3> QED
      BY <3>1, <3>2
  <2> QED
    BY <2>2, <2>8, <2>9 DEF HasWhatIsBefore, after
<1> QED
  BY <1>3, <1>4 DEF HasRead

\* A turn of the loop.
LEMMA ReadLineReads ==
  ASSUME NEW lines \in Seq(Lines), NEW state \in LoopStates, NEW i \in 1..Len(lines),
         HasRead(state, lines, i - 1)
  PROVE  HasRead(ReadLine(state, lines[i]), lines, i)
<1> DEFINE next == ReadLine(state, lines[i])
<1>1. /\ Len(lines) \in Nat /\ DOMAIN lines = 1..Len(lines) /\ i \in Nat
      /\ i - 1 \in 0..Len(lines) /\ (i - 1) + 1 = i
      /\ \A g \in Headings(lines) : g \in 1..Len(lines)
  BY LenProperties DEF Headings
<1>2. CASE lines[i].kind = "heading"
  <2>1. i \in Headings(lines)
    BY <1>1, <1>2 DEF Headings
  <2>2. next = [sections |-> Flush(state), id |-> lines[i].id, levels |-> {}, body |-> <<>>]
    BY <1>2 DEF ReadLine
  <2>3. HasWhatIsBefore(CorpusOf(Flush(state)), lines, i)
    <3>1. HasWhatIsBefore(CorpusOf(Flush(state)), lines, (i - 1) + 1)
      BY <1>1, <2>1, FlushCompletes
    <3> QED
      BY <1>1, <3>1
  <2>4. Within(lines, i, i)
    BY <1>1, <2>1 DEF Within
  <2>5. LevelsUpTo(lines, i, i) = {}
    <3>1. \A j \in Comments(lines, i) : j \in 1..Len(lines) /\ i < j
      BY <1>1 DEF Comments, Below
    <3>2. {j \in DOMAIN lines : j <= i /\ IsFirstComment(lines, i, j)} = {}
      BY <1>1, <3>1 DEF IsFirstComment
    <3> QED
      BY <3>2 DEF LevelsUpTo
  <2> HIDE DEF next
  <2>6. /\ next.id = lines[i].id /\ next.levels = LevelsUpTo(lines, i, i)
        /\ HasWhatIsBefore(CorpusOf(next.sections), lines, i)
    BY <2>2, <2>3, <2>5
  <2> QED
    BY <2>1, <2>4, <2>6 DEF HasRead, next
<1>3. CASE lines[i].kind # "heading"
  <2>1. i \notin Headings(lines)
    BY <1>3 DEF Headings
  <2>2. CASE state.id = "" /\ state.sections = <<>> /\ \A g \in Headings(lines) : i - 1 < g
    <3>1. next = state
      BY <1>3, <2>2 DEF ReadLine
    <3>2. ASSUME NEW g \in Headings(lines) PROVE i < g
      <4>1. \A n \in Nat : \A k \in 1..n : k \in Nat
        OBVIOUS
      <4>2. g \in Nat /\ i - 1 < g /\ g # i
        BY <1>1, <2>1, <2>2, <4>1, Zenon
      <4> QED
        BY <1>1, <4>2
    <3> QED
      BY <2>2, <3>1, <3>2 DEF HasRead
  <2>3. ASSUME NEW h \in Headings(lines),
               Within(lines, h, i - 1),
               state.id = lines[h].id,
               state.levels = LevelsUpTo(lines, h, i - 1),
               HasWhatIsBefore(CorpusOf(state.sections), lines, h)
        PROVE  HasRead(next, lines, i)
    <3>1. /\ Within(lines, h, i)
          /\ LevelsUpTo(lines, h, i) =
               IF lines[i].kind = "job_levels" /\ state.levels = {} THEN lines[i].levels ELSE state.levels
      BY <1>3, <2>3, NextLine
    <3>2. state.id # ""
      <4>1. lines[h] \in Lines /\ lines[h].kind = "heading"
        BY <1>1 DEF Headings
      <4> QED
        BY <2>3, <4>1, LineKinds, CorpusAssumption
    <3>3. /\ next.id = state.id /\ next.sections = state.sections
          /\ next.levels = IF lines[i].kind = "job_levels" /\ state.levels = {} THEN lines[i].levels ELSE state.levels
      <4>1. CASE lines[i].kind = "job_levels" /\ state.levels = {}
        <5>1. next = [state EXCEPT !.levels = lines[i].levels]
          BY <1>3, <3>2, <4>1 DEF ReadLine
        <5> QED
          BY <4>1, <5>1 DEF LoopStates
      <4>2. CASE ~(lines[i].kind = "job_levels" /\ state.levels = {})
        <5>1. next = [state EXCEPT !.body = Append(state.body, lines[i])]
          BY <1>3, <3>2, <4>2 DEF ReadLine
        <5> QED
          BY <4>2, <5>1 DEF LoopStates
      <4> QED
        BY <4>1, <4>2
    <3> HIDE DEF next
    <3> QED
      BY <2>3, <3>1, <3>3 DEF HasRead
  <2> QED
    BY <2>2, <2>3 DEF HasRead
<1> QED
  BY <1>2, <1>3

\* The loop makes of a document what is written in it: a point for each id that is
\* headed, with the levels of the first comment below the last heading of that id
\* (parse_policy_corpus, and the upsert of ingest).
THEOREM ParserIsFaithful ==
  ASSUME NEW lines \in Seq(Lines)
  PROVE  CorpusOf(ParsePolicyCorpus(lines)) = Written(lines)
<1> DEFINE n == Len(lines)
<1>1. /\ n \in Nat /\ DOMAIN lines = 1..n
      /\ \A g \in Headings(lines) : g \in 1..n
  BY LenProperties DEF Headings
<1>2. PICK f : Parse(f, lines) /\ ParsePolicyCorpus(lines) = Flush(f[n])
  BY ParseExists
<1>3. /\ f \in [0..n -> LoopStates] /\ f[0] = Start
      /\ \A i \in 1..n : f[i] = ReadLine(f[i - 1], lines[i])
  BY <1>2 DEF Parse
<1> DEFINE Read == {i \in 0..n : HasRead(f[i], lines, i)}
<1>4. 0 \in Read
  <2>1. 0 \in 0..n /\ \A g \in Headings(lines) : 0 < g
    BY <1>1
  <2>2. f[0].id = "" /\ f[0].sections = <<>>
    <3>1. Start.id = "" /\ Start.sections = <<>>
      BY DEF Start
    <3> QED
      BY <1>3, <3>1, Zenon
  <2>3. HasRead(f[0], lines, 0)
    BY <2>1, <2>2 DEF HasRead
  <2> QED
    BY <2>1, <2>3
<1>5. ASSUME NEW i \in 1..n, i - 1 \in Read PROVE i \in Read
  <2>1. i \in 0..n /\ i - 1 \in 0..n
    BY <1>1
  <2>2. HasRead(f[i - 1], lines, i - 1) /\ f[i - 1] \in LoopStates
    BY <1>3, <1>5, <2>1
  <2>3. HasRead(ReadLine(f[i - 1], lines[i]), lines, i)
    BY <2>2, ReadLineReads
  <2> QED
    BY <1>3, <2>1, <2>3
<1>6. HasRead(f[n], lines, n) /\ f[n] \in LoopStates
  <2>1. n \in 0..n
    BY <1>1
  <2>2. \A i \in 0..n : i \in Read
    <3> HIDE DEF Read, n
    <3> QED
      BY <1>1, <1>4, <1>5, UpTo
  <2> QED
    BY <1>3, <2>1, <2>2
<1> DEFINE corpus == CorpusOf(ParsePolicyCorpus(lines))
<1>7. HasWhatIsBefore(corpus, lines, n + 1)
  <2>1. n \in 0..n
    BY <1>1
  <2> QED
    BY <1>2, <1>6, <2>1, FlushCompletes
<1>8. \A g \in Headings(lines) : g < n + 1
  BY <1>1
<1>9. DOMAIN corpus = {lines[g].id : g \in Headings(lines)}
  BY <1>7, <1>8 DEF HasWhatIsBefore
<1>10. ASSUME NEW id \in {lines[g].id : g \in Headings(lines)}
       PROVE  corpus[id] = LevelsAt(lines, LastHeading(lines, id))
  <2> DEFINE S == {g \in Headings(lines) : lines[g].id = id}
             last == LastHeading(lines, id)
  <2>1. S # {} /\ S \in SUBSET (1..n)
    BY <1>1
  <2>2. PICK g \in S : \A k \in S : k <= g
    <3> HIDE DEF S, n
    <3> QED
      BY <1>1, <2>1, GreatestExists
  <2>3. last \in Headings(lines) /\ lines[last].id = id
        /\ \A k \in Headings(lines) : lines[k].id = id => k <= last
    BY <2>2 DEF LastHeading
  <2> HIDE DEF last
  <2>4. IsLastBefore(lines, last, n + 1)
    BY <1>8, <2>3 DEF IsLastBefore
  <2> QED
    BY <1>7, <2>3, <2>4 DEF HasWhatIsBefore, last
<1> DEFINE isFunction == corpus = [id \in DOMAIN corpus |-> corpus[id]]
<1>11. isFunction
  BY DEF CorpusOf
<1> HIDE DEF corpus
<1> QED
  BY <1>9, <1>10, <1>11 DEF Written, corpus

\* What is written in a document is a level set for some of the sections.
LEMMA WrittenIsTyped ==
  ASSUME NEW lines \in Seq(Lines)
  PROVE  Written(lines) \in [DOMAIN Written(lines) -> SUBSET Levels]
<1>1. ASSUME NEW h PROVE LevelsAt(lines, h) \in SUBSET Levels
  <2>1. \A i \in Comments(lines, h) : lines[i] \in Lines /\ lines[i].kind = "job_levels"
    BY DEF Comments, Below
  <2>2. \A i \in Comments(lines, h) : lines[i].levels \in SUBSET Levels
    BY <2>1, LineKinds
  <2> QED
    BY <2>2 DEF LevelsAt
<1> QED
  BY <1>1 DEF Written

-------------------------------------------------------------------------------
(* The inductive invariant. *)

\* A question that has no answer yet is in no way marked as having one.
OpenInv(q) ==
  pc[q] \in {"idle", "asking"} => answer[q] = NoAnswer /\ cacheHit[q] = FALSE

\* What an agent has retrieved applies to the level of its question.
RetrievedInv(q) == \A c \in retrieved[q] : Level(q) \in c.levels

\* Question p was answered by an agent, at this level, to this text.
Author(p, level, text, given) ==
  /\ cacheHit[p] = FALSE /\ answer[p] = given /\ given # NoAnswer
  /\ asked[p].level = level /\ asked[p].text = text

\* Each cache entry is the answer of a question that an agent answered.
EntryInv ==
  \A level \in Levels : \A i \in DOMAIN entries[level] :
    \E p \in Questions : Author(p, level, entries[level][i].text, entries[level][i].answer)

\* A question that was answered in this process, and since an ingest last ended,
\* has an entry that is similar to it.
KeptInv(q) ==
  q \in kept => \E i \in DOMAIN Bucket(q) : ScoreOf(q, i) >= Threshold

\* Only a section that some ingest has upserted applies to anybody, and no point
\* is of an ingest to come.
PointInv ==
  \A s \in Sections :
    /\ collection[s].levels # {} => collection[s].version # 0
    /\ collection[s].version <= ingests

IInv ==
  /\ TypeOK
  /\ PointInv
  /\ PointsAreAsWritten
  /\ AnswerIsForTheAsker
  /\ ServedAnswersWereGiven
  /\ EntryInv
  /\ \A q \in Questions : OpenInv(q) /\ RetrievedInv(q) /\ KeptInv(q)

-------------------------------------------------------------------------------
(* Retrieval, and the answer made from it. *)

\* A retrieval returns clauses of the collection that apply to the level.
LEMMA RetrievalsAreApplicable ==
  ASSUME TypeOK, PointInv, NEW level \in Levels, NEW clauses \in Retrievals(level)
  PROVE  clauses \in SUBSET Clauses /\ \A c \in clauses : level \in c.levels
<1>1. PICK found \in SUBSET Applicable(level) : clauses = {Clause(s) : s \in found}
  BY DEF Retrievals
<1>2. ASSUME NEW s \in found PROVE Clause(s) \in Clauses /\ level \in Clause(s).levels
  <2>1. s \in Sections /\ level \in collection[s].levels
    BY <1>1, <1>2 DEF Applicable
  <2>2. collection[s].levels \in SUBSET Levels /\ collection[s].version \in 0..MaxIngests
    BY <2>1 DEF TypeOK, Points
  <2>3. collection[s].version \in 1..MaxIngests
    <3>1. MaxIngests \in Nat
      BY CorpusAssumption
    <3>2. collection[s].version # 0
      BY <2>1 DEF PointInv
    <3>3. QED BY <2>2, <3>1, <3>2
  <2>4. QED BY <2>1, <2>2, <2>3 DEF Clause, Clauses
<1>3. QED BY <1>1, <1>2

\* An answer has the type of one, and the clauses of its agent's retrieval.
LEMMA AnswerOfType ==
  ASSUME TypeOK, NEW q \in Questions, NEW mentioned \in SUBSET Sections
  PROVE  /\ AnswerOf(q, mentioned) \in Answers
         /\ AnswerOf(q, mentioned).clauses = retrieved[q]
         /\ AnswerOf(q, mentioned).cited \subseteq {c.section : c \in retrieved[q]}
<1> DEFINE cited == mentioned \cap {c.section : c \in retrieved[q]}
<1>1. cited \in SUBSET Sections
  OBVIOUS
<1>2. Cardinality(cited) \in Nat
  BY <1>1, CorpusAssumption, FS_Subset, FS_CardinalityType
<1>3. (Cardinality(cited) >= MinCitations) \in BOOLEAN
  <2>1. \A a, b \in Nat : (a >= b) \in BOOLEAN
    OBVIOUS
  <2>2. MinCitations \in Nat
    BY QuestionAssumption
  <2>3. QED BY <1>2, <2>1, <2>2
<1>4. retrieved[q] \in SUBSET Clauses
  BY DEF TypeOK
<1>5. AnswerOf(q, mentioned) =
        [clauses |-> retrieved[q], cited |-> cited, grounded |-> Cardinality(cited) >= MinCitations]
  BY DEF AnswerOf
<1> HIDE DEF cited
<1>6. AnswerOf(q, mentioned) \in Answers
  BY <1>1, <1>3, <1>4, <1>5 DEF Answers
<1>7. AnswerOf(q, mentioned).clauses = retrieved[q] /\ AnswerOf(q, mentioned).cited = cited
  BY <1>5
<1>8. QED BY <1>6, <1>7 DEF cited

-------------------------------------------------------------------------------
(* The steps. *)

\* The initial states.
LEMMA InitHolds == Init => IInv
<1> SUFFICES ASSUME Init PROVE IInv
  OBVIOUS
<1>1. \A level \in Levels : entries[level] = <<>>
  BY DEF Init, NoEntries
<1>2. TypeOK
  <2>1. entries \in [Levels -> Seq(Entries)]
    BY DEF Init, NoEntries
  <2>2. /\ collection \in [Sections -> Points]
        /\ ingests \in 0..MaxIngests
        /\ ingesting \in BOOLEAN
        /\ asWritten \in [Sections -> Points]
    <3>1. 0 \in 0..MaxIngests
      <4>1. MaxIngests \in Nat
        BY CorpusAssumption
      <4>2. QED BY <4>1
    <3>2. NoPoint \in Points
      BY <3>1 DEF NoPoint, Points
    <3>3. QED BY <3>1, <3>2 DEF Init, CorpusInit
  <2>3. restarts \in 0..MaxRestarts
    <3>1. MaxRestarts \in Nat
      BY QuestionAssumption
    <3>2. QED BY <3>1 DEF Init
  <2>4. QED BY <2>1, <2>2, <2>3 DEF Init, TypeOK
<1>3. PointInv /\ PointsAreAsWritten
  BY DEF Init, CorpusInit, NoPoint, PointInv, PointsAreAsWritten
<1>4. AnswerIsForTheAsker /\ ServedAnswersWereGiven
  BY DEF Init, AnswerIsForTheAsker, ServedAnswersWereGiven
<1>5. EntryInv
  BY <1>1 DEF EntryInv
<1>6. \A q \in Questions : OpenInv(q) /\ RetrievedInv(q) /\ KeptInv(q)
  BY DEF Init, OpenInv, RetrievedInv, KeptInv
<1>7. QED BY <1>2, <1>3, <1>4, <1>5, <1>6 DEF IInv

\* What is said of answers and entries holds on where they and the askers stay.
LEMMA AnswersStay ==
  ASSUME IInv, UNCHANGED <<asked, answer, cacheHit, entries>>
  PROVE  AnswerIsForTheAsker' /\ ServedAnswersWereGiven' /\ EntryInv'
<1>1. AnswerIsForTheAsker'
  BY DEF IInv, AnswerIsForTheAsker, Level
<1>2. ServedAnswersWereGiven'
  BY DEF IInv, ServedAnswersWereGiven, Level
<1>3. EntryInv'
  BY DEF IInv, EntryInv, Author
<1>4. QED BY <1>1, <1>2, <1>3

\* And what is said of the points where the collection stays.
LEMMA PointsStay ==
  ASSUME IInv, UNCHANGED corpusVars
  PROVE  PointInv' /\ PointsAreAsWritten'
<1>1. collection' = collection /\ ingests' = ingests /\ asWritten' = asWritten
  BY DEF corpusVars
<1>2. PointInv'
  BY <1>1 DEF IInv, PointInv
<1>3. PointsAreAsWritten'
  BY <1>1 DEF IInv, PointsAreAsWritten
<1> QED
  BY <1>2, <1>3

\* A question that is refused, misses or fails only moves on.
LEMMA MoveStep ==
  ASSUME IInv, NEW q \in Questions, Refuse(q) \/ CacheMiss(q) \/ Fail(q)
  PROVE  IInv'
<1>1. /\ UNCHANGED <<asked, answer, cacheHit, entries, restarts, kept, corpusVars>>
      /\ pc[q] \in {"idle", "asking"}
      /\ \E to \in {"asking", "dropped"} : pc' = [pc EXCEPT ![q] = to]
      /\ retrieved' = retrieved \/ retrieved' = [retrieved EXCEPT ![q] = {}]
  BY DEF Refuse, CacheMiss, Fail
<1>2. AnswerIsForTheAsker' /\ ServedAnswersWereGiven' /\ EntryInv'
  BY <1>1, AnswersStay
<1>3. TypeOK' /\ PointInv' /\ PointsAreAsWritten'
  <2>1. TypeOK'
    BY <1>1 DEF IInv, TypeOK, corpusVars
  <2> QED
    BY <1>1, <2>1, PointsStay
<1>4. ASSUME NEW r \in Questions PROVE OpenInv(r)' /\ RetrievedInv(r)' /\ KeptInv(r)'
  <2>1. OpenInv(r)'
    BY <1>1 DEF IInv, OpenInv, TypeOK
  <2>2. RetrievedInv(r)'
    BY <1>1 DEF IInv, RetrievedInv, TypeOK, Level
  <2>3. KeptInv(r)'
    BY <1>1 DEF IInv, KeptInv, TypeOK, Bucket, ScoreOf, Level
  <2>4. QED BY <2>1, <2>2, <2>3
<1>5. QED BY <1>2, <1>3, <1>4 DEF IInv

\* The agent retrieves clauses.
LEMMA RetrieveStep ==
  ASSUME IInv, NEW q \in Questions, Retrieve(q)
  PROVE  IInv'
<1>1. PICK clauses \in Retrievals(Level(q)) : retrieved' = [retrieved EXCEPT ![q] = clauses]
  BY DEF Retrieve
<1>2. Level(q) \in Levels
  BY DEF IInv, TypeOK, Level
<1>3. clauses \in SUBSET Clauses /\ \A c \in clauses : Level(q) \in c.levels
  BY <1>1, <1>2, RetrievalsAreApplicable DEF IInv
<1>4. UNCHANGED <<pc, asked, answer, cacheHit, entries, restarts, kept, corpusVars>>
  BY DEF Retrieve
<1>5. AnswerIsForTheAsker' /\ ServedAnswersWereGiven' /\ EntryInv'
  BY <1>4, AnswersStay
<1>6. TypeOK' /\ PointInv' /\ PointsAreAsWritten'
  <2>1. TypeOK'
    BY <1>1, <1>3, <1>4 DEF IInv, TypeOK, corpusVars
  <2> QED
    BY <1>4, <2>1, PointsStay
<1>7. ASSUME NEW r \in Questions PROVE OpenInv(r)' /\ RetrievedInv(r)' /\ KeptInv(r)'
  <2>1. RetrievedInv(r)'
    BY <1>1, <1>3, <1>4 DEF IInv, RetrievedInv, TypeOK, Level
  <2>2. OpenInv(r)' /\ KeptInv(r)'
    BY <1>4 DEF IInv, OpenInv, KeptInv, Bucket, ScoreOf, Level
  <2>3. QED BY <2>1, <2>2
<1>8. QED BY <1>5, <1>6, <1>7 DEF IInv

-------------------------------------------------------------------------------
(* The two steps that answer a question. *)

\* The cache answers.
LEMMA HitStep ==
  ASSUME IInv, NEW q \in Questions, CacheHit(q)
  PROVE  IInv'
<1>1. PICK i \in DOMAIN Bucket(q) :
        IsBest(q, i) /\ answer' = [answer EXCEPT ![q] = Bucket(q)[i].answer]
  BY DEF CacheHit
<1> DEFINE entry == Bucket(q)[i]
<1>2. /\ pc[q] = "idle" /\ pc' = [pc EXCEPT ![q] = "answered"]
      /\ cacheHit' = [cacheHit EXCEPT ![q] = TRUE]
      /\ kept' = kept \cup {q}
      /\ UNCHANGED <<asked, retrieved, entries, restarts, corpusVars>>
  BY DEF CacheHit
<1>3. answer[q] = NoAnswer
  BY <1>2 DEF IInv, OpenInv
<1>4. Level(q) \in Levels /\ entries[Level(q)] \in Seq(Entries)
  BY DEF IInv, TypeOK, Level
<1>5. entry \in Entries /\ entry.answer \in Answers
  <2>1. entry \in Entries
    BY <1>1, <1>4 DEF Bucket
  <2>2. QED BY <2>1 DEF Entries
<1>6. PICK p \in Questions : Author(p, Level(q), entry.text, entry.answer)
  BY <1>1, <1>4 DEF IInv, EntryInv, Bucket
<1>7. TypeOK' /\ PointInv' /\ PointsAreAsWritten'
  <2>1. TypeOK'
    BY <1>1, <1>2, <1>5 DEF IInv, TypeOK, corpusVars
  <2> QED
    BY <1>2, <2>1, PointsStay
<1>8. \A r \in Questions \ {q} : answer'[r] = answer[r] /\ cacheHit'[r] = cacheHit[r]
  BY <1>1, <1>2 DEF IInv, TypeOK
<1>9. answer'[q] = entry.answer
  BY <1>1 DEF IInv, TypeOK
<1>10. /\ cacheHit'[p] = FALSE /\ answer'[p] = entry.answer
       /\ asked[p].level = asked[q].level /\ asked[p].text = entry.text
  <2>1. p # q
    BY <1>3, <1>6 DEF Author
  <2>2. QED BY <1>6, <1>8, <2>1 DEF Author, Level
<1>11. AnswerIsForTheAsker'
  <2>1. /\ \A c \in entry.answer.clauses : Level(q) \in c.levels
        /\ entry.answer.cited \subseteq {c.section : c \in entry.answer.clauses}
    BY <1>6 DEF IInv, AnswerIsForTheAsker, Author, Level
  <2>2. QED BY <1>2, <1>8, <1>9, <2>1 DEF IInv, AnswerIsForTheAsker, Level
<1>12. ServedAnswersWereGiven'
  <2> SUFFICES ASSUME NEW r \in Questions, answer'[r] # NoAnswer
               PROVE  \E w \in Questions :
                        /\ ~cacheHit'[w] /\ answer'[w] = answer'[r]
                        /\ asked[w].level = asked[r].level
                        /\ Score[asked[r].text, asked[w].text] >= Threshold
    BY <1>2 DEF ServedAnswersWereGiven, Level
  <2>1. CASE r = q
    <3>1. Score[asked[q].text, entry.text] >= Threshold
      BY <1>1 DEF IsBest, ScoreOf
    <3>2. QED BY <1>9, <1>10, <2>1, <3>1
  <2>2. CASE r # q
    <3>1. PICK w \in Questions :
            /\ ~cacheHit[w] /\ answer[w] = answer[r]
            /\ asked[w].level = asked[r].level
            /\ Score[asked[r].text, asked[w].text] >= Threshold
      BY <1>8, <2>2 DEF IInv, ServedAnswersWereGiven, Level
    <3>2. w # q
      BY <1>3, <1>8, <2>2, <3>1
    <3>3. QED BY <1>8, <2>2, <3>1, <3>2
  <2>3. QED BY <2>1, <2>2
<1>13. EntryInv'
  <2> SUFFICES ASSUME NEW level \in Levels, NEW j \in DOMAIN entries[level]
               PROVE  \E w \in Questions :
                        Author(w, level, entries[level][j].text, entries[level][j].answer)'
    BY <1>2 DEF EntryInv
  <2>1. PICK w \in Questions : Author(w, level, entries[level][j].text, entries[level][j].answer)
    BY DEF IInv, EntryInv
  <2>2. w # q
    BY <1>3, <2>1 DEF Author
  <2>3. QED BY <1>2, <1>8, <2>1, <2>2 DEF Author
<1>14. ASSUME NEW r \in Questions PROVE OpenInv(r)' /\ RetrievedInv(r)' /\ KeptInv(r)'
  <2>1. OpenInv(r)'
    BY <1>2, <1>8 DEF IInv, OpenInv, TypeOK
  <2>2. RetrievedInv(r)'
    BY <1>2 DEF IInv, RetrievedInv, Level
  <2>3. KeptInv(r)'
    BY <1>1, <1>2 DEF IInv, KeptInv, TypeOK, IsBest, Bucket, ScoreOf, Level
  <2>4. QED BY <2>1, <2>2, <2>3
<1>15. QED BY <1>7, <1>11, <1>12, <1>13, <1>14 DEF IInv

\* The agent answers, and the answer becomes the last entry of its level.
LEMMA AnswerStep ==
  ASSUME IInv, NEW q \in Questions, Answer(q)
  PROVE  IInv'
<1>1. PICK mentioned \in SUBSET Sections :
        /\ answer' = [answer EXCEPT ![q] = AnswerOf(q, mentioned)]
        /\ entries' = [entries EXCEPT ![Level(q)] =
             Append(@, [text |-> asked[q].text, answer |-> AnswerOf(q, mentioned)])]
  BY DEF Answer
<1> DEFINE given == AnswerOf(q, mentioned)
           entry == [text |-> asked[q].text, answer |-> given]
           last == Len(Bucket(q)) + 1
<1>2. /\ pc[q] = "asking" /\ pc' = [pc EXCEPT ![q] = "answered"]
      /\ retrieved' = [retrieved EXCEPT ![q] = {}]
      /\ kept' = kept \cup {q}
      /\ UNCHANGED <<asked, cacheHit, restarts, corpusVars>>
  BY DEF Answer
<1>3. answer[q] = NoAnswer /\ cacheHit[q] = FALSE
  BY <1>2 DEF IInv, OpenInv
<1>4. /\ given \in Answers /\ given # NoAnswer
      /\ given.clauses = retrieved[q]
      /\ given.cited \subseteq {c.section : c \in retrieved[q]}
  BY AnswerOfType, NoAnswerAssumption DEF IInv
<1>5. Level(q) \in Levels /\ asked[q].text \in Texts /\ Bucket(q) \in Seq(Entries)
  BY DEF IInv, TypeOK, Level, Bucket
<1> HIDE DEF given
<1>6. entry \in Entries
  BY <1>4, <1>5 DEF Entries
<1>7. /\ entries' = [entries EXCEPT ![Level(q)] = Append(Bucket(q), entry)]
      /\ \A level \in Levels \ {Level(q)} : entries'[level] = entries[level]
      /\ entries'[Level(q)] = Append(Bucket(q), entry)
  BY <1>1, <1>5 DEF IInv, TypeOK, Bucket, given
<1>8. /\ Append(Bucket(q), entry) \in Seq(Entries)
      /\ DOMAIN Append(Bucket(q), entry) = DOMAIN Bucket(q) \cup {last}
      /\ \A j \in DOMAIN Bucket(q) : Append(Bucket(q), entry)[j] = Bucket(q)[j]
      /\ Append(Bucket(q), entry)[last] = entry
  BY <1>5, <1>6
<1>9. TypeOK' /\ PointInv' /\ PointsAreAsWritten'
  <2>1. entries' \in [Levels -> Seq(Entries)]
    BY <1>5, <1>7, <1>8 DEF IInv, TypeOK
  <2>2. answer' \in [Questions -> Answers \cup {NoAnswer}]
    BY <1>1, <1>4 DEF IInv, TypeOK, given
  <2>3. TypeOK'
    BY <1>2, <2>1, <2>2 DEF IInv, TypeOK, corpusVars
  <2>4. QED BY <1>2, <2>3, PointsStay
<1>10. \A r \in Questions \ {q} : answer'[r] = answer[r] /\ cacheHit'[r] = cacheHit[r]
  BY <1>1, <1>2 DEF IInv, TypeOK
<1>11. answer'[q] = given /\ cacheHit'[q] = FALSE
  BY <1>1, <1>2, <1>3 DEF IInv, TypeOK, given
<1>12. AnswerIsForTheAsker'
  BY <1>2, <1>4, <1>10, <1>11 DEF IInv, AnswerIsForTheAsker, RetrievedInv, Level
<1>13. ServedAnswersWereGiven'
  <2> SUFFICES ASSUME NEW r \in Questions, answer'[r] # NoAnswer
               PROVE  \E w \in Questions :
                        /\ ~cacheHit'[w] /\ answer'[w] = answer'[r]
                        /\ asked[w].level = asked[r].level
                        /\ Score[asked[r].text, asked[w].text] >= Threshold
    BY <1>2 DEF ServedAnswersWereGiven, Level
  <2>1. CASE r = q
    BY <1>5, <1>11, <2>1, QuestionAssumption
  <2>2. CASE r # q
    <3>1. PICK w \in Questions :
            /\ ~cacheHit[w] /\ answer[w] = answer[r]
            /\ asked[w].level = asked[r].level
            /\ Score[asked[r].text, asked[w].text] >= Threshold
      BY <1>10, <2>2 DEF IInv, ServedAnswersWereGiven, Level
    <3>2. w # q
      BY <1>3, <1>10, <2>2, <3>1
    <3>3. QED BY <1>10, <2>2, <3>1, <3>2
  <2>3. QED BY <2>1, <2>2
<1>14. EntryInv'
  <2> SUFFICES ASSUME NEW level \in Levels, NEW j \in DOMAIN entries'[level]
               PROVE  \E w \in Questions :
                        Author(w, level, entries[level][j].text, entries[level][j].answer)'
    BY DEF EntryInv
  <2>1. CASE level = Level(q) /\ j = last
    <3>1. entries'[level][j] = entry
      BY <1>7, <1>8, <2>1
    <3>2. QED BY <1>2, <1>4, <1>11, <2>1, <3>1 DEF Author, Level
  <2>2. CASE ~(level = Level(q) /\ j = last)
    <3>1. j \in DOMAIN entries[level] /\ entries'[level][j] = entries[level][j]
      BY <1>7, <1>8, <2>2 DEF Bucket
    <3>2. PICK w \in Questions : Author(w, level, entries[level][j].text, entries[level][j].answer)
      BY <3>1 DEF IInv, EntryInv
    <3>3. w # q
      BY <1>3, <3>2 DEF Author
    <3>4. QED BY <1>2, <1>10, <3>1, <3>2, <3>3 DEF Author
  <2>3. QED BY <2>1, <2>2
<1>15. ASSUME NEW r \in Questions PROVE OpenInv(r)' /\ RetrievedInv(r)' /\ KeptInv(r)'
  <2>1. OpenInv(r)'
    BY <1>2, <1>10 DEF IInv, OpenInv, TypeOK
  <2>2. RetrievedInv(r)'
    BY <1>2 DEF IInv, RetrievedInv, TypeOK, Level
  <2>3. KeptInv(r)'
    <3> SUFFICES ASSUME r \in kept'
                 PROVE  \E j \in DOMAIN entries'[Level(r)] :
                          Score[asked[r].text, entries'[Level(r)][j].text] >= Threshold
      BY <1>2 DEF KeptInv, Bucket, ScoreOf, Level
    <3>1. CASE r = q
      <4>1. Score[asked[q].text, entry.text] >= Threshold
        BY <1>5, QuestionAssumption
      <4>2. last \in DOMAIN entries'[Level(q)] /\ entries'[Level(q)][last] = entry
        BY <1>7, <1>8
      <4>3. QED BY <3>1, <4>1, <4>2
    <3>2. CASE r # q
      <4>1. PICK j \in DOMAIN entries[Level(r)] :
              Score[asked[r].text, entries[Level(r)][j].text] >= Threshold
        BY <1>2, <3>2 DEF IInv, KeptInv, TypeOK, Bucket, ScoreOf
      <4>2. Level(r) \in Levels
        BY DEF IInv, TypeOK, Level
      <4>3. j \in DOMAIN entries'[Level(r)] /\ entries'[Level(r)][j] = entries[Level(r)][j]
        BY <1>7, <1>8, <4>1, <4>2 DEF Bucket
      <4>4. QED BY <4>1, <4>3
    <3>3. QED BY <3>1, <3>2
  <2>4. QED BY <2>1, <2>2, <2>3
<1>16. QED BY <1>9, <1>12, <1>13, <1>14, <1>15 DEF IInv

-------------------------------------------------------------------------------
(* The steps of the environment, and the theorems. *)

\* A restart empties the cache and drops the running questions.
LEMMA RestartStep == IInv /\ Restart => IInv'
<1> SUFFICES ASSUME IInv, Restart PROVE IInv'
  OBVIOUS
<1>1. /\ UNCHANGED <<asked, answer, cacheHit, corpusVars>>
      /\ restarts' = restarts + 1 /\ restarts < MaxRestarts
      /\ entries' = NoEntries /\ retrieved' = [q \in Questions |-> {}] /\ kept' = {}
  BY DEF Restart
<1>2. \A q \in Questions :
        /\ pc'[q] \in {"idle", "answered", "dropped"}
        /\ pc'[q] = "idle" => pc[q] = "idle"
  BY DEF Restart, IInv, TypeOK
<1>3. \A level \in Levels : entries'[level] = <<>>
  BY <1>1 DEF NoEntries
<1>4. TypeOK' /\ PointInv' /\ PointsAreAsWritten'
  <2>1. restarts' \in 0..MaxRestarts
    <3>1. MaxRestarts \in Nat
      BY QuestionAssumption
    <3>2. QED BY <1>1, <3>1 DEF IInv, TypeOK
  <2>2. entries' \in [Levels -> Seq(Entries)]
    BY <1>1 DEF NoEntries
  <2>3. pc' \in [Questions -> {"idle", "asking", "answered", "dropped"}]
    BY DEF Restart, IInv, TypeOK
  <2>4. TypeOK'
    BY <1>1, <2>1, <2>2, <2>3 DEF IInv, TypeOK, corpusVars
  <2>5. QED BY <1>1, <2>4, PointsStay
<1>5. AnswerIsForTheAsker'
  BY <1>1 DEF IInv, AnswerIsForTheAsker, Level
<1>6. ServedAnswersWereGiven'
  BY <1>1 DEF IInv, ServedAnswersWereGiven, Level
<1>7. EntryInv'
  BY <1>3 DEF EntryInv
<1>8. \A q \in Questions : OpenInv(q)' /\ RetrievedInv(q)' /\ KeptInv(q)'
  BY <1>1, <1>2 DEF IInv, OpenInv, RetrievedInv, KeptInv
<1>9. QED BY <1>4, <1>5, <1>6, <1>7, <1>8 DEF IInv

\* An ingest changes the collection, and nothing that was retrieved from it.
LEMMA IngestStep == IInv /\ Ingest => IInv'
<1> SUFFICES ASSUME IInv, Ingest PROVE IInv'
  OBVIOUS
<1>1. UNCHANGED <<pc, asked, retrieved, answer, cacheHit, entries, restarts>> /\ kept' \subseteq kept
  BY DEF Ingest, questionVars
<1>2. AnswerIsForTheAsker' /\ ServedAnswersWereGiven' /\ EntryInv'
  BY <1>1, AnswersStay
<1>3. \A q \in Questions : OpenInv(q)' /\ RetrievedInv(q)' /\ KeptInv(q)'
  BY <1>1 DEF IInv, OpenInv, RetrievedInv, KeptInv, Bucket, ScoreOf, Level
<1>4. ASSUME NEW lines \in Documents, Upsert(lines)
      PROVE  TypeOK' /\ PointInv' /\ PointsAreAsWritten'
  <2> DEFINE corpus == Written(lines)
  <2>1. MaxIngests \in Nat /\ corpus \in [DOMAIN corpus -> SUBSET Levels]
    BY CorpusAssumption, WrittenIsTyped
  <2>2. /\ ingests' = ingests + 1 /\ ingests < MaxIngests /\ ingesting' = TRUE
        /\ collection' = Overwritten(collection, corpus)
        /\ asWritten' = Overwritten(asWritten, corpus)
    BY <1>4, CorpusAssumption, ParserIsFaithful DEF Upsert
  <2> HIDE DEF corpus
  <2>3. /\ ingests \in Nat /\ ingests' = ingests + 1 /\ ingesting' \in BOOLEAN
        /\ ingests' \in 0..MaxIngests /\ ingests' # 0
    BY <2>1, <2>2 DEF IInv, TypeOK
  <2>4. ASSUME NEW s \in Sections, s \in DOMAIN corpus
        PROVE  collection'[s] = [levels |-> corpus[s], version |-> ingests'] /\ corpus[s] \in SUBSET Levels
    BY <2>1, <2>2, <2>4 DEF Overwritten
  <2>5. ASSUME NEW s \in Sections, s \notin DOMAIN corpus
        PROVE  collection'[s] = collection[s] /\ collection[s].version < ingests'
    <3>1. collection'[s] = collection[s]
      BY <2>2, <2>5 DEF Overwritten
    <3>2. collection[s].version \in Nat /\ collection[s].version <= ingests
      <4>1. \A k \in 0..MaxIngests : k \in Nat
        BY <2>1
      <4>2. collection[s].version \in 0..MaxIngests
        BY DEF IInv, TypeOK, Points
      <4>3. QED BY <4>1, <4>2 DEF IInv, PointInv
    <3>3. QED BY <2>3, <3>1, <3>2
  <2>6. ASSUME NEW s \in Sections
        PROVE  /\ collection'[s] \in Points
               /\ collection'[s].levels # {} => collection'[s].version # 0
               /\ collection'[s].version <= ingests'
    <3>1. CASE s \in DOMAIN corpus
      <4>1. collection'[s] = [levels |-> corpus[s], version |-> ingests'] /\ corpus[s] \in SUBSET Levels
        BY <2>4, <3>1
      <4>2. ingests' \in 0..MaxIngests /\ ingests' \in Nat /\ ingests' # 0 /\ ingests' <= ingests'
        BY <2>3
      <4>3. collection'[s].version = ingests'
        BY <4>1
      <4>4. [levels |-> corpus[s], version |-> ingests'] \in Points
        BY <4>1, <4>2 DEF Points
      <4>5. QED BY <4>1, <4>2, <4>3, <4>4
    <3>2. CASE s \notin DOMAIN corpus
      <4>1. collection[s] \in Points /\ (collection[s].levels # {} => collection[s].version # 0)
        BY DEF IInv, TypeOK, PointInv
      <4>2. collection[s].version \in Nat
        BY <2>1, <4>1 DEF Points
      <4>3. QED BY <2>3, <2>5, <3>2, <4>1, <4>2
    <3>3. QED BY <3>1, <3>2
  <2>7. PointsAreAsWritten'
    BY <2>2 DEF IInv, PointsAreAsWritten, Overwritten
  <2>8. TypeOK'
    <3>1. collection' = [s \in Sections |-> collection'[s]]
      BY <2>2 DEF Overwritten
    <3>2. collection' \in [Sections -> Points]
      BY <2>6, <3>1
    <3>3. asWritten' = [s \in Sections |-> asWritten'[s]]
      BY <2>2 DEF Overwritten
    <3>4. asWritten' \in [Sections -> Points]
      BY <2>6, <2>7, <3>3 DEF PointsAreAsWritten
    <3>5. QED BY <1>1, <2>3, <3>2, <3>4 DEF IInv, TypeOK
  <2>9. QED BY <2>6, <2>7, <2>8 DEF PointInv
<1>5. ASSUME IngestEnds PROVE TypeOK' /\ PointInv' /\ PointsAreAsWritten'
  <2>1. collection' = collection /\ ingests' = ingests /\ ingesting' = FALSE /\ asWritten' = asWritten
    BY <1>5 DEF IngestEnds
  <2>2. TypeOK'
    BY <1>1, <2>1 DEF IInv, TypeOK
  <2>3. PointInv' /\ PointsAreAsWritten'
    BY <2>1 DEF IInv, PointInv, PointsAreAsWritten
  <2>4. QED BY <2>2, <2>3
<1>6. TypeOK' /\ PointInv' /\ PointsAreAsWritten'
  BY <1>4, <1>5 DEF Ingest
<1>7. QED BY <1>2, <1>3, <1>6 DEF IInv

\* IInv is an invariant of the specification.
THEOREM Invariance == Spec => []IInv
<1>1. IInv /\ [Next]_vars => IInv'
  <2> SUFFICES ASSUME IInv, [Next]_vars PROVE IInv'
    OBVIOUS
  <2>1. ASSUME NEW q \in Questions, QuestionStep(q) PROVE IInv'
    <3>1. CASE Refuse(q) \/ CacheMiss(q) \/ Fail(q)
      BY <3>1, MoveStep
    <3>2. CASE CacheHit(q)
      BY <3>2, HitStep
    <3>3. CASE Retrieve(q)
      BY <3>3, RetrieveStep
    <3>4. CASE Answer(q)
      BY <3>4, AnswerStep
    <3>5. QED BY <2>1, <3>1, <3>2, <3>3, <3>4 DEF QuestionStep
  <2>2. CASE UNCHANGED vars
    <3>1. UNCHANGED <<pc, asked, retrieved, answer, cacheHit, entries, restarts, kept,
                      collection, ingests, ingesting, asWritten>>
      BY <2>2 DEF vars, questionVars, corpusVars
    <3>2. AnswerIsForTheAsker' /\ ServedAnswersWereGiven' /\ EntryInv'
      BY <3>1, AnswersStay
    <3>3. TypeOK' /\ PointInv' /\ PointsAreAsWritten'
      <4>1. TypeOK'
        BY <3>1 DEF IInv, TypeOK
      <4>2. UNCHANGED corpusVars
        BY <3>1 DEF corpusVars
      <4>3. QED BY <4>1, <4>2, PointsStay
    <3>4. \A q \in Questions : OpenInv(q)' /\ RetrievedInv(q)' /\ KeptInv(q)'
      BY <3>1 DEF IInv, OpenInv, RetrievedInv, KeptInv, Bucket, ScoreOf, Level
    <3>5. QED BY <3>2, <3>3, <3>4 DEF IInv
  <2>3. QED BY <2>1, <2>2, RestartStep, IngestStep DEF Next
<1>2. QED BY <1>1, InitHolds, PTL DEF Spec

\* Every variable keeps its type (answer_policy_question and its cache).
THEOREM TypeCorrect == Spec => []TypeOK
<1>1. IInv => TypeOK
  BY DEF IInv
<1>2. QED BY <1>1, Invariance, PTL

\* Whatever documents have been ingested, each section has the levels written in
\* the last one that had it.
THEOREM CorpusIsAsWritten == Spec => []PointsAreAsWritten
<1>1. IInv => PointsAreAsWritten
  BY DEF IInv
<1>2. QED BY <1>1, Invariance, PTL

\* No clause reaches an employee of a level it did not apply to, through the
\* retriever or through the cache.
THEOREM LevelsAreIsolated == Spec => []AnswerIsForTheAsker
<1>1. IInv => AnswerIsForTheAsker
  BY DEF IInv
<1>2. QED BY <1>1, Invariance, PTL

\* The cache serves nothing but what an agent answered to a similar question.
THEOREM CacheServesAnswers == Spec => []ServedAnswersWereGiven
<1>1. IInv => ServedAnswersWereGiven
  BY DEF IInv
<1>2. QED BY <1>1, Invariance, PTL

\* A question that has been answered costs no agent run when it is asked again
\* before an ingest has ended.
THEOREM RepetitionIsFree == Spec => AskedAgainIsFree
<1> DEFINE Free(p, q) ==
      p \in kept /\ asked[p] = asked[q] => ~(pc[q] = "idle" /\ pc'[q] = "asking")
<1>1. IInv /\ [Next]_vars => [\A p, q \in Questions : Free(p, q)]_vars
  <2> SUFFICES ASSUME IInv, Next, NEW p \in Questions, NEW q \in Questions,
                      p \in kept, asked[p] = asked[q], pc[q] = "idle", pc'[q] = "asking"
               PROVE  FALSE
    BY DEF Next
  <2>1. CacheMiss(q)
    BY DEF IInv, TypeOK, Next, QuestionStep, Refuse, CacheHit, CacheMiss, Retrieve, Answer, Fail,
           Ingest, questionVars, Restart
  <2>2. PICK i \in DOMAIN Bucket(p) : ScoreOf(p, i) >= Threshold
    BY DEF IInv, KeptInv
  <2>3. i \in DOMAIN Bucket(q) /\ ScoreOf(q, i) = ScoreOf(p, i)
    BY <2>2 DEF Bucket, ScoreOf, Level
  <2>4. ScoreOf(q, i) < Threshold
    BY <2>1, <2>3 DEF CacheMiss
  <2>5. ScoreOf(q, i) \in Nat /\ Threshold \in Nat
    <3>1. Bucket(q)[i] \in Entries /\ asked[q].text \in Texts
      BY <2>3 DEF IInv, TypeOK, Bucket, Level
    <3>2. Bucket(q)[i].text \in Texts
      BY <3>1 DEF Entries
    <3>3. QED BY <3>1, <3>2, QuestionAssumption DEF ScoreOf
  <2>6. QED BY <2>2, <2>3, <2>4, <2>5
<1>2. QED BY <1>1, Invariance, PTL DEF Spec, AskedAgainIsFree
===============================================================================
