------------------------------- MODULE PolicyQA -------------------------------
(***************************************************************************)
(* Policy questions, agents/policy_agent.py, through the semantic cache,   *)
(* cache/semantic_cache.py: concurrent questions in the gateway process    *)
(* while an ingest elsewhere changes the corpus.  Embedding, cache lookup  *)
(* and retrieval block the event loop, so a question gives way only while  *)
(* it waits for its agent.                                                 *)
(***************************************************************************)
EXTENDS PolicyCorpus

CONSTANTS Questions,      \* the trace_ids of POST /policy-questions
          Texts,          \* query texts
          Score,          \* cosine similarity of two texts, in hundredths; 0 if negative
          Threshold,      \* _DEFAULT_SIMILARITY_THRESHOLD, likewise
          MinCitations,   \* groundedness_min_citations
          NoAnswer,
          MaxRestarts     \* bound: how often the gateway restarts

VARIABLES pc,          \* question -> how far it is; "dropped" if it ended unanswered
          asked,       \* question -> its text, and its sender's job level
          retrieved,   \* question -> clauses of its agent's last successful retrieval;
                       \* a local of the running question, else {}
          answer,      \* question -> what was answered
          cacheHit,    \* question -> cache_hit of the answer
          entries,     \* semantic cache: level -> its entries, oldest first
          restarts,    \* how often the gateway restarted
          kept         \* history: the questions answered since an ingest last ended
                       \* and since the gateway started

questionVars == <<pc, asked, retrieved, answer, cacheHit>>
vars == <<questionVars, entries, restarts, kept, corpusVars>>

ASSUME QuestionAssumption ==
  /\ Score \in [Texts \X Texts -> Nat]
  /\ Threshold \in Nat \ {0}
  /\ \A text \in Texts : Score[text, text] >= Threshold
  /\ MinCitations \in Nat
  /\ MaxRestarts \in Nat

Answers == [clauses : SUBSET Clauses, cited : SUBSET Sections, grounded : BOOLEAN]
Entries == [text : Texts, answer : Answers]

ASSUME NoAnswerAssumption == NoAnswer \notin Answers

NoEntries == [level \in Levels |-> <<>>]

Init ==
  /\ pc = [q \in Questions |-> "idle"]
  /\ asked \in [Questions -> [text : Texts, level : Levels]]
  /\ retrieved = [q \in Questions |-> {}]
  /\ answer = [q \in Questions |-> NoAnswer]
  /\ cacheHit = [q \in Questions |-> FALSE]
  /\ entries = NoEntries
  /\ restarts = 0
  /\ kept = {}
  /\ CorpusInit

Level(q) == asked[q].level

\* The cache is scoped by job level: a question looks at one bucket.
Bucket(q) == entries[Level(q)]
ScoreOf(q, i) == Score[asked[q].text, Bucket(q)[i].text]

\* Entry i is the one get returns: the first of the most similar ones.
IsBest(q, i) ==
  /\ ScoreOf(q, i) >= Threshold
  /\ \A j \in DOMAIN Bucket(q) :
       ScoreOf(q, j) <= ScoreOf(q, i) /\ (j < i => ScoreOf(q, j) < ScoreOf(q, i))

\* reject_if_suspicious raises before the cache is looked at.
Refuse(q) ==
  /\ pc[q] = "idle"
  /\ pc' = [pc EXCEPT ![q] = "dropped"]
  /\ UNCHANGED <<asked, retrieved, answer, cacheHit, entries, restarts, kept, corpusVars>>

\* Mutant: the entries of all job levels are candidates.
CacheHitOfAnyLevel(q) ==
  /\ pc[q] = "idle"
  /\ \E level \in Levels : \E i \in DOMAIN entries[level] :
       /\ Score[asked[q].text, entries[level][i].text] >= Threshold
       /\ answer' = [answer EXCEPT ![q] = entries[level][i].answer]
  /\ pc' = [pc EXCEPT ![q] = "answered"]
  /\ cacheHit' = [cacheHit EXCEPT ![q] = TRUE]
  /\ kept' = kept \cup {q}
  /\ UNCHANGED <<asked, retrieved, entries, restarts, corpusVars>>

\* Mutant: what is served is stored again, under the wording that was served.
CacheHitStored(q) ==
  /\ pc[q] = "idle"
  /\ \E i \in DOMAIN Bucket(q) :
       /\ IsBest(q, i)
       /\ answer' = [answer EXCEPT ![q] = Bucket(q)[i].answer]
       /\ entries' = [entries EXCEPT ![Level(q)] =
            Append(@, [text |-> asked[q].text, answer |-> Bucket(q)[i].answer])]
  /\ pc' = [pc EXCEPT ![q] = "answered"]
  /\ cacheHit' = [cacheHit EXCEPT ![q] = TRUE]
  /\ kept' = kept \cup {q}
  /\ UNCHANGED <<asked, retrieved, restarts, corpusVars>>

CacheHit(q) ==
  /\ pc[q] = "idle"
  /\ \E i \in DOMAIN Bucket(q) :
       IsBest(q, i) /\ answer' = [answer EXCEPT ![q] = Bucket(q)[i].answer]
  /\ pc' = [pc EXCEPT ![q] = "answered"]
  /\ cacheHit' = [cacheHit EXCEPT ![q] = TRUE]
  /\ kept' = kept \cup {q}
  /\ UNCHANGED <<asked, retrieved, entries, restarts, corpusVars>>

CacheMiss(q) ==
  /\ pc[q] = "idle"
  /\ \A i \in DOMAIN Bucket(q) : ScoreOf(q, i) < Threshold
  /\ pc' = [pc EXCEPT ![q] = "asking"]
  /\ UNCHANGED <<asked, retrieved, answer, cacheHit, entries, restarts, kept, corpusVars>>

\* Mutant: the tool's query carries no filter.
RetrieveUnfiltered(q) ==
  /\ pc[q] = "asking"
  /\ \E found \in SUBSET Sections :
       retrieved' = [retrieved EXCEPT ![q] = {Clause(s) : s \in found}]
  /\ UNCHANGED <<pc, asked, answer, cacheHit, entries, restarts, kept, corpusVars>>

\* The agent calls its tool, once or more often; the level is not its to choose.
\* A call that raises, or finds nothing, may leave what an earlier one returned.
Retrieve(q) ==
  /\ pc[q] = "asking"
  /\ \E clauses \in Retrievals(Level(q)) : retrieved' = [retrieved EXCEPT ![q] = clauses]
  /\ UNCHANGED <<pc, asked, answer, cacheHit, entries, restarts, kept, corpusVars>>

\* The agent's answer mentions some sections; those it has retrieved count.
AnswerOf(q, mentioned) ==
  LET cited == mentioned \cap {c.section : c \in retrieved[q]}
  IN [clauses |-> retrieved[q], cited |-> cited, grounded |-> Cardinality(cited) >= MinCitations]

\* Mutant: an answer that is not grounded is not stored.
AnswerStoredIfGrounded(q) ==
  /\ pc[q] = "asking"
  /\ \E mentioned \in SUBSET Sections :
       /\ answer' = [answer EXCEPT ![q] = AnswerOf(q, mentioned)]
       /\ entries' = IF AnswerOf(q, mentioned).grounded
                     THEN [entries EXCEPT ![Level(q)] =
                             Append(@, [text |-> asked[q].text, answer |-> AnswerOf(q, mentioned)])]
                     ELSE entries
  /\ pc' = [pc EXCEPT ![q] = "answered"]
  /\ retrieved' = [retrieved EXCEPT ![q] = {}]
  /\ kept' = kept \cup {q}
  /\ UNCHANGED <<asked, cacheHit, restarts, corpusVars>>

\* The agent is done: its answer, grounded or not, is stored and returned.
Answer(q) ==
  /\ pc[q] = "asking"
  /\ \E mentioned \in SUBSET Sections :
       /\ answer' = [answer EXCEPT ![q] = AnswerOf(q, mentioned)]
       /\ entries' = [entries EXCEPT ![Level(q)] =
            Append(@, [text |-> asked[q].text, answer |-> AnswerOf(q, mentioned)])]
  /\ pc' = [pc EXCEPT ![q] = "answered"]
  /\ retrieved' = [retrieved EXCEPT ![q] = {}]
  /\ kept' = kept \cup {q}
  /\ UNCHANGED <<asked, cacheHit, restarts, corpusVars>>

\* The agent raises, or the embedding of a lookup or of a store does.
Fail(q) ==
  /\ pc[q] = "asking" \/ (pc[q] = "idle" /\ Bucket(q) # <<>>)
  /\ pc' = [pc EXCEPT ![q] = "dropped"]
  /\ retrieved' = [retrieved EXCEPT ![q] = {}]
  /\ UNCHANGED <<asked, answer, cacheHit, entries, restarts, kept, corpusVars>>

\* The cache was in the gateway's memory.
Restart ==
  /\ restarts < MaxRestarts
  /\ restarts' = restarts + 1
  /\ pc' = [q \in Questions |-> IF pc[q] = "asking" THEN "dropped" ELSE pc[q]]
  /\ retrieved' = [q \in Questions |-> {}]
  /\ entries' = NoEntries
  /\ kept' = {}
  /\ UNCHANGED <<asked, answer, cacheHit, corpusVars>>

Ingest ==
  /\ \/ (\E lines \in Documents : Upsert(lines)) /\ UNCHANGED kept
     \/ IngestEnds /\ kept' = {}
  /\ UNCHANGED <<questionVars, entries, restarts>>

QuestionStep(q) ==
  Refuse(q) \/ CacheHit(q) \/ CacheMiss(q) \/ Retrieve(q) \/ Answer(q) \/ Fail(q)

Next == (\E q \in Questions : QuestionStep(q)) \/ Ingest \/ Restart

Spec == Init /\ [][Next]_vars
-------------------------------------------------------------------------------
(* Properties. *)

TypeOK ==
  /\ pc \in [Questions -> {"idle", "asking", "answered", "dropped"}]
  /\ asked \in [Questions -> [text : Texts, level : Levels]]
  /\ retrieved \in [Questions -> SUBSET Clauses]
  /\ answer \in [Questions -> Answers \cup {NoAnswer}]
  /\ cacheHit \in [Questions -> BOOLEAN]
  /\ entries \in [Levels -> Seq(Entries)]
  /\ restarts \in 0..MaxRestarts
  /\ kept \subseteq Questions
  /\ collection \in [Sections -> Points]
  /\ ingests \in 0..MaxIngests
  /\ ingesting \in BOOLEAN
  /\ asWritten \in [Sections -> Points]

\* No answer tells an employee a clause that did not apply to the employee's
\* job level when it was retrieved, or cites one that was not retrieved: through
\* the cache too, and while ingests move sections between levels (retrieve,
\* SemanticPolicyCache.get).
AnswerIsForTheAsker ==
  \A q \in Questions : answer[q] # NoAnswer =>
    /\ \A c \in answer[q].clauses : Level(q) \in c.levels
    /\ answer[q].cited \subseteq {c.section : c \in answer[q].clauses}

\* Whatever the cache serves, an agent once answered it to somebody at the same
\* level who asked something similar: similar to the question now asked, not to
\* one that was itself served from the cache (answer_policy_question).
ServedAnswersWereGiven ==
  \A q \in Questions : answer[q] # NoAnswer =>
    \E p \in Questions :
      /\ ~cacheHit[p] /\ answer[p] = answer[q]
      /\ Level(p) = Level(q)
      /\ Score[asked[q].text, asked[p].text] >= Threshold

\* A question that was answered costs no agent run when somebody at the same
\* level asks it again, as long as no ingest has ended in between, after which
\* every entry is meant to be invalidated, and the process lives: an entry does not
\* expire, and neither failures nor answers stored since push it out, also when the
\* run of the first question was under way while an ingest ended
\* (answer_policy_question, SemanticPolicyCache).
AskedAgainIsFree ==
  [][\A p, q \in Questions :
       p \in kept /\ asked[p] = asked[q] => ~(pc[q] = "idle" /\ pc'[q] = "asking")]_vars

\* Each section has the point that is written for it in the last document that
\* was ingested with it: the levels of its own comment and no other section's, of
\* the last section of that id (parse_policy_corpus, ingest).
PointsAreAsWritten == \A s \in Sections : collection[s] = asWritten[s]

-------------------------------------------------------------------------------
(* What the comments say and the code does not do. *)

\* cache/semantic_cache.py:5-7: "Invalidated wholesale whenever the policy corpus
\* changes": then, once an ingest has ended, no entry holds a clause that the
\* corpus no longer has (ingest).
NoEntryOutlivesAnIngest ==
  ~ingesting => \A level \in Levels : \A i \in DOMAIN entries[level] :
    \A c \in entries[level][i].answer.clauses : c.version = collection[c.section].version
===============================================================================
