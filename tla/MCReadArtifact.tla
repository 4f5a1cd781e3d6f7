------------------------------ MODULE MCReadArtifact ------------------------------
(* ReadArtifact on small instances: one read, with or without the cleaner; *)
(* or two pods that an earlier process left, for the cleaner.              *)
EXTENDS ReadArtifact, TLC

CONSTANTS r1, r2   \* the reads

PodOps == {"create", "delete"} \X Reads

\* /mnt/data/results/../out, which is inside of the mount, and /mnt/data/../out.
Mount      == Path(TRUE, <<"mnt", "data">>)
SomeAsked  == {Path(TRUE, <<"mnt", "data", "results", "..", "out">>),
               Path(TRUE, <<"mnt", "data", "..", "out">>)}

OneRead      == {r2 :> "absent"}
OrTwoToSweep == OneRead \cup {(r1 :> "Running") @@ (r2 :> "Succeeded")}
=================================================================================
