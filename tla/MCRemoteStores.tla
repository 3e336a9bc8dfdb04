------------------------------ MODULE MCRemoteStores ------------------------------
(***************************************************************************)
(* One instance on DynamoDB whose edits take two chunks; two instances     *)
(* whose requests may arrive late, on DynamoDB and on S3, on a live store  *)
(* and on a fresh one; two instances that put objects to S3, whole and in  *)
(* parts, and to disk.  The residue setups give a rival, or a longer edit, *)
(* to an instance that clears what its own failed put left.                *)
(***************************************************************************)
EXTENDS RemoteStores

Setup(backend, instances, edits, snaps, delayed, fresh, n) ==
    [backend |-> backend, instances |-> instances, edits |-> edits, snaps |-> snaps,
     late |-> delayed, fresh |-> fresh, calls |-> n]

MCOptions ==
    {Setup("dynamo", 1, {1, 2}, {1, 2}, FALSE, FALSE, 3),
     Setup("dynamo", 2, {1}, {2}, TRUE, FALSE, 2),
     Setup("dynamo", 2, {1}, {1}, TRUE, TRUE, 2),
     Setup("s3", 2, {1}, {1}, TRUE, FALSE, 2),
     Setup("s3", 2, {1}, {1}, TRUE, TRUE, 2),
     Setup("s3blob", 2, {}, {0, 2}, TRUE, TRUE, 2),
     Setup("disk", 2, {}, {}, FALSE, TRUE, 2)}

ResidueOptions ==
    {Setup("dynamo", 2, {1, 2}, {1}, FALSE, FALSE, 2),
     Setup("dynamo", 1, {1, 3}, {1}, FALSE, FALSE, 3)}

=============================================================================
