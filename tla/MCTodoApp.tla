------------------------------ MODULE MCTodoApp ------------------------------
(* Instantiates TodoApp for TLC.  The file names a client can send are n1  *)
(* and u1, the location URL /upload returns for n1, because POST /todo     *)
(* takes a file id and uses it as a file name.                              *)
EXTENDS TodoApp, TLC

CONSTANTS r1, r2, i1, i2, d1, n1, u1, u2, b1

\* s3manager's UploadOutput.Location for a key; an empty key never
\* reaches S3, so its value there is arbitrary.
MCLocation(n) == CASE n = n1 -> u1
                   [] n = u1 -> u2
                   [] OTHER  -> n

MCSymmetry == Permutations({r1, r2}) \cup Permutations({i1, i2})
=============================================================================
