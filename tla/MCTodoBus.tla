------------------------------ MODULE MCTodoBus ------------------------------
(* Instantiates TodoBus for TLC: two concurrent requests, two identifiers, *)
(* one file name whose S3 location URL is u1.                               *)
EXTENDS TodoBus, TLC

CONSTANTS r1, r2, r3, i1, i2, d1, d2, n1, u1, b1

\* s3manager's UploadOutput.Location: the object URL, not its key.  An empty
\* key never reaches S3, so its value there is arbitrary.
MCLocation(n) == IF n \in FileNames THEN u1 ELSE n

MCSymmetry == Permutations({r1, r2}) \cup Permutations({i1, i2})

\* Three request handlers, for the runs that race a third request.
MCSymmetry3 == Permutations({r1, r2, r3}) \cup Permutations({i1, i2})
=============================================================================
