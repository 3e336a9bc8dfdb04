---------------------------- MODULE RemoteStores ----------------------------
(***************************************************************************)
(* The stores behind the engine's two seams: a manifest catalog or a blob  *)
(* store, by setup.                                                        *)
(***************************************************************************)
EXTENDS RemoteCatalog, BlobStores

vars == <<serviceVars, catalogVars, historyVars, installed, blobVars, blobHistory>>

Catalog == options.backend \in {"dynamo", "s3"}

Init ==
    /\ options \in Options
    /\ faults = 0 /\ late = {}
    /\ CatalogInit /\ BlobInit

Next ==
    \/ Catalog /\ CatalogNext /\ UNCHANGED <<blobVars, blobHistory>>
    \/ ~Catalog /\ BlobNext /\ UNCHANGED <<catalogVars, historyVars, installed>>

Spec == Init /\ [][Next]_vars

=============================================================================
