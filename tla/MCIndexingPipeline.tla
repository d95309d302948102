------------------------- MODULE MCIndexingPipeline -------------------------
(* Instances of IndexingPipeline small enough for TLC. *)
EXTENDS IndexingPipeline, TLC

CONSTANTS m1, m2, m3, s1, s2, s3, i1, i2, w1, w2, w3

\* Two messages that the chunker joins.
OneRun == {{m1, m2}}

\* Two messages joined and one on its own: two chunks, two batches.
TwoRuns == {{m1, m2}, {m3}}
SeparateRuns == {{m1}, {m2}}

OneMessage == {{m1}}

NoCarried == {}
CarriedBuild == {<<s1, i1>>}

\* Worker ids, session ids and the messages of one run are interchangeable.
Symmetry == Permutations(Workers) \cup Permutations(Sessions \ CatchUps) \cup Permutations({m1, m2})

\* The rows of indexing_job_messages are read only while their job runs, and the
\* first thing that a new attempt does is to replace them: two states that differ
\* in the rows of a job at rest have the same future.
View == <<version, session, job, created,
          [j \in Jobs |-> IF job[j].status = "running" THEN snapshot[j] ELSE {}],
          staged, published, edited, status, pc, task, todo, missing, faults, retries>>
=============================================================================
