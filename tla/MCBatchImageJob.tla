--------------------------- MODULE MCBatchImageJob ---------------------------
EXTENDS BatchImageJob, TLC
WorkerSymmetry == Permutations(Workers)
=============================================================================
