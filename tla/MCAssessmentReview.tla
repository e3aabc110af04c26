-------------------------- MODULE MCAssessmentReview --------------------------
(* An instance of AssessmentReview for model checking. *)
EXTENDS AssessmentReview, TLC

Draft(kind, result, fit) == [kind |-> kind, result |-> result, fit |-> fit]

\* An assessment with a result (P5 has the transitions of P4), notes, recommendations
\* on fit and unfit sources, and a run and a model that share a request memory.
MCPortfolios == {{Draft("P4", TRUE, TRUE)},
                 {Draft("NOTE", FALSE, TRUE)},
                 {Draft("REC", FALSE, TRUE)},
                 {Draft("REC", FALSE, FALSE)},
                 {Draft("RUN", FALSE, TRUE), Draft("MODEL", FALSE, TRUE)},
                 {Draft("RUN", FALSE, FALSE), Draft("MODEL", FALSE, FALSE)}}

Symmetry == Permutations(Calls) \cup Permutations(Requests) \cup Permutations(Stamps)
===============================================================================
