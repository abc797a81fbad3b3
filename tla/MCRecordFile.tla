---------------------------- MODULE MCRecordFile ----------------------------
(* Small instances of RecordFile.                                          *)
EXTENDS RecordFile

\* The first GEMM is called again after the second.
MCTrace == <<1, 2, 1>>
MCTries == <<<<0, 0, 0>>, <<1, 1, 0>>>>
=============================================================================
