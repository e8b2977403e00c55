------------------------------ MODULE MCCorpus -------------------------------
(***************************************************************************)
(* Two documents from before the start and ids for two more, a file that   *)
(* is new, two phrasings of one question, a cache of one entry, and three  *)
(* jobs: enough for a change to overlap with questions or another change,  *)
(* or to lie between two questions.                                        *)
(***************************************************************************)
EXTENDS Corpus, TLC

CONSTANTS d1, d2, d3, d4, f1, f2, f3, q1, q2, j1, j2, j3, nobody, none

MCDocs == {d1, d2, d3, d4}
MCFiles == {f1, f2, f3}
MCQuestions == {q1, q2}
MCSimilar == MCQuestions \X MCQuestions
MCJobs == {j1, j2, j3}
MCSeeded == d1 :> f1 @@ d2 :> f2 @@ [d \in {d3, d4} |-> nobody]

Symmetry == Permutations({d3, d4}) \cup Permutations(MCQuestions)
                \cup Permutations(MCJobs)
=============================================================================
