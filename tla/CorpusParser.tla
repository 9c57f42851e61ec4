----------------------------- MODULE CorpusParser -----------------------------
(***************************************************************************)
(* parse_policy_corpus, rag/ingest.py: the lines of policy_source.md, one  *)
(* after another, become the sections that ingest upserts.  A line is a    *)
(* section's heading, a job_levels comment, or any other text.             *)
(***************************************************************************)
EXTENDS Naturals, Sequences

Heading(id) == [kind |-> "heading", id |-> id, levels |-> {}]
JobLevels(levels) == [kind |-> "job_levels", id |-> "", levels |-> levels]
Text == [kind |-> "text", id |-> "", levels |-> {}]

\* Before the first heading there is no current section.
Start == [sections |-> <<>>, id |-> "", levels |-> {}, body |-> <<>>]

Flush(state) ==
  IF state.id = "" THEN state.sections
  ELSE Append(state.sections, [section_id |-> state.id, job_levels |-> state.levels, text |-> state.body])

\* Mutant: a heading leaves the levels of the section before it.
ReadLineKeepingLevels(state, line) ==
  IF line.kind = "heading"
  THEN [sections |-> Flush(state), id |-> line.id, levels |-> state.levels, body |-> <<>>]
  ELSE IF line.kind = "job_levels" /\ state.id # "" /\ state.levels = {}
  THEN [state EXCEPT !.levels = line.levels]
  ELSE IF state.id # "" THEN [state EXCEPT !.body = Append(@, line)] ELSE state

\* One turn of the loop: the first comment of a section counts, a second one is
\* a line of its text.
ReadLine(state, line) ==
  CASE line.kind = "heading" ->
         [sections |-> Flush(state), id |-> line.id, levels |-> {}, body |-> <<>>]
    [] line.kind = "job_levels" /\ state.id # "" /\ state.levels = {} ->
         [state EXCEPT !.levels = line.levels]
    [] OTHER -> IF state.id # "" THEN [state EXCEPT !.body = Append(@, line)] ELSE state

ParsePolicyCorpus(lines) ==
  LET state[i \in 0..Len(lines)] == IF i = 0 THEN Start ELSE ReadLine(state[i - 1], lines[i])
  IN  Flush(state[Len(lines)])

\* What ingest makes of the sections: the levels of the points, of which the
\* last of an id overwrites the others.
CorpusOf(sections) ==
  [id \in {sections[i].section_id : i \in DOMAIN sections} |->
     sections[CHOOSE i \in DOMAIN sections :
                /\ sections[i].section_id = id
                /\ \A j \in DOMAIN sections : sections[j].section_id = id => j <= i].job_levels]

-------------------------------------------------------------------------------
(* What is written in a document, without the loop. *)

Headings(lines) == {i \in DOMAIN lines : lines[i].kind = "heading"}

\* The lines below the heading at h, up to the next.
Below(lines, h) == {i \in DOMAIN lines : h < i /\ \A g \in Headings(lines) : ~(h < g /\ g <= i)}

Comments(lines, h) == {i \in Below(lines, h) : lines[i].kind = "job_levels"}

\* The levels of the section at h: those of its first comment.
LevelsAt(lines, h) ==
  UNION {lines[i].levels : i \in {i \in Comments(lines, h) : \A j \in Comments(lines, h) : i <= j}}

\* Of several headings with one id the last counts.
LastHeading(lines, id) ==
  CHOOSE h \in Headings(lines) :
    lines[h].id = id /\ \A g \in Headings(lines) : lines[g].id = id => g <= h

Written(lines) ==
  [id \in {lines[h].id : h \in Headings(lines)} |-> LevelsAt(lines, LastHeading(lines, id))]
===============================================================================
