---------------------------- MODULE MCAnalysisJobs ----------------------------
(* Instances of AnalysisJobs for TLC.                                       *)
EXTENDS AnalysisJobs, TLC

\* Services, threads, keys and payloads are interchangeable: no action and no
\* safety property names one of them.
Symmetry == Permutations(Services) \cup Permutations(Threads)
            \cup Permutations(Keys) \cup Permutations(Requests)

=============================================================================
