----------------------------- MODULE PolicyCorpus -----------------------------
(***************************************************************************)
(* The policy corpus in Qdrant: rag/ingest.py, which a process of its own  *)
(* runs (scripts/seed_policy_corpus.py, python -m trip_planner.rag.ingest), *)
(* and rag/retriever.py, which the gateway calls.  A section's text is     *)
(* stood for by the ingest it comes from.                                  *)
(***************************************************************************)
EXTENDS CorpusParser, FiniteSets

CONSTANTS Levels,      \* job levels
          Sections,    \* section ids
          Documents,   \* what policy_source.md may hold: its lines, one after another
          TopK,        \* clauses per retrieval
          MaxIngests   \* bound: how often the corpus is ingested

VARIABLES collection,   \* section -> the point the collection holds for it
          ingests,      \* how many ingests have upserted
          ingesting,    \* whether an ingest has upserted and not yet ended
          asWritten     \* history: the point each section should have, from what is
                        \* written in the last document that had the section

corpusVars == <<collection, ingests, ingesting, asWritten>>

\* A heading has an id, and a job_levels comment a level.
Lines ==
  {Heading(id) : id \in Sections} \cup {JobLevels(levels) : levels \in (SUBSET Levels) \ {{}}} \cup {Text}

ASSUME CorpusAssumption ==
  /\ IsFiniteSet(Sections) /\ "" \notin Sections
  /\ Documents \subseteq Seq(Lines)
  /\ TopK \in Nat
  /\ MaxIngests \in Nat

Points == [levels : SUBSET Levels, version : 0..MaxIngests]

\* What stands for a section without a point: it applies to no level.
NoPoint == [levels |-> {}, version |-> 0]

Clauses == [section : Sections, levels : SUBSET Levels, version : 1..MaxIngests]

CorpusInit ==
  /\ collection = [s \in Sections |-> NoPoint]
  /\ ingests = 0
  /\ ingesting = FALSE
  /\ asWritten = [s \in Sections |-> NoPoint]

\* The collection, after the points of these sections have been overwritten.
Overwritten(points, corpus) ==
  [s \in Sections |->
     IF s \in DOMAIN corpus THEN [levels |-> corpus[s], version |-> ingests + 1] ELSE points[s]]

\* The points of the corpus's sections are overwritten in one call.  A section
\* that is no longer in the corpus keeps its point.
Upsert(lines) ==
  /\ ingests < MaxIngests /\ ~ingesting
  /\ ingests' = ingests + 1
  /\ ingesting' = TRUE
  /\ collection' = Overwritten(collection, CorpusOf(ParsePolicyCorpus(lines)))
  /\ asWritten' = Overwritten(asWritten, Written(lines))

\* The tail of ingest: the default cache it invalidates is that of its own
\* process, in which nobody has asked anything.
IngestEnds ==
  /\ ingesting
  /\ ingesting' = FALSE
  /\ UNCHANGED <<collection, ingests, asWritten>>

Clause(s) == [section |-> s, levels |-> collection[s].levels, version |-> collection[s].version]

\* The payload filter of the query: sections of the asker's job level.
Applicable(level) == {s \in Sections : level \in collection[s].levels}

\* What retrieve may return: the top-k by similarity, whichever they are.
Retrievals(level) ==
  {{Clause(s) : s \in found} : found \in
     {f \in SUBSET Applicable(level) :
        \/ Cardinality(f) = TopK
        \/ f = Applicable(level) /\ Cardinality(f) < TopK}}
===============================================================================
