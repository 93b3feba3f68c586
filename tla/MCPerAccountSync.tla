-------------------------- MODULE MCPerAccountSync --------------------------
(***************************************************************************)
(* Small instances of PerAccountSync: the requests each run's clients      *)
(* issue.  The instances are in the PerAccountSync_*.cfg files.            *)
(***************************************************************************)
EXTENDS PerAccountSync, TLC

\* Everything that starts or stops a syncer short of a change of interval.
RegistryRequests == {"create", "temporary", "syncnow", "recover"}

\* Edits of a configuration and status requests, which may lose a syncer's mu.
WedgeRequests == {"create", "update", "status"}

\* Stop at any moment of a life with creations and deletions.
StopRequests == {"create", "get", "delete", "stop"}

\* One kind of request each, for the counterexamples.
UpdateRequests  == {"update"}
RecoverRequests == {"recover"}

\* Syncers are all alike; so are callers and, where nobody creates a default
\* configuration, the intervals.
SyncerSymmetry  == Permutations(Syncers)
RequestSymmetry == Permutations(Callers) \cup Permutations(Intervals)
=============================================================================
