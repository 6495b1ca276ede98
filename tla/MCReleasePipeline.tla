--------------------------- MODULE MCReleasePipeline ---------------------------
EXTENDS ReleasePipeline, TLC
Interchangeable == Permutations(Reviewers)
================================================================================
