----------------------------- MODULE MCCluster ------------------------------
(* Small instances of Cluster, and what the documentation says of it that   *)
(* the code does not do.                                                     *)
EXTENDS Cluster

CONSTANTS w1, w2, r1, h1

\* writer-deployment.yaml: a writer's downtime during a deploy does not affect
\* serving.  So keys that a reader serves are not lost to a writer's restart.  (In
\* this model no developer loses keys on GitHub, and none leaves the index.)
ServedKeysStay ==
    [][\A r \in Readers :
        rkeys[r] # 0 /\ rkeys'[r] # 0 => saved[rkeys[r]].keys \subseteq saved'[rkeys'[r]].keys]_vars

\* snapshot.go: a snapshot is one coherent generation of everything served.  So the
\* statuses in it are those of the sync that built the index in it.
SnapshotsAreCoherent == \A i \in 1 .. Row : saved[i].status = saved[i].index

=============================================================================
