------------------------------ MODULE MCPolicyQA ------------------------------
(***************************************************************************)
(* Small instances of PolicyQA: two job levels, a section of each and one  *)
(* that a new version of the corpus moves from one level to both.          *)
(***************************************************************************)
EXTENDS PolicyQA, TLC

CONSTANTS q1, q2, q3

MCQuestions == {q1, q2, q3}
QuestionSymmetry == Permutations(MCQuestions)
MCLevels == {"ic", "manager"}
MCSections == {"3a", "3b"}

\* Two versions of the corpus: the second without a section of the first, and
\* with one that is there twice, first without its comment.
MCDocuments ==
  {<<Text, JobLevels({"manager"}), Heading("3a"), JobLevels({"ic"}), Text,
     Heading("3b"), JobLevels({"manager"})>>,
   <<Heading("3b"), Text,
     Heading("3b"), JobLevels({"ic", "manager"}), Text, JobLevels({"manager"})>>}

\* Two ingests, or one and a restart of the gateway; not all three.
TwoUpheavals == ingests + restarts <= 2

\* Two wordings of one question, and another one that is similar to the second
\* only: similarity is not transitive.
MCTexts == {"cap", "limit", "carrier"}
MCScore == [pair \in MCTexts \X MCTexts |->
  IF pair[1] = pair[2] THEN 100
  ELSE IF pair \in {<<"cap", "limit">>, <<"limit", "cap">>} THEN 75
  ELSE IF pair \in {<<"limit", "carrier">>, <<"carrier", "limit">>} THEN 70
  ELSE 36]
===============================================================================
