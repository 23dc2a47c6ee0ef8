----------------------------- MODULE MCTraining -----------------------------
(***************************************************************************)
(* Instances of TrainingJobs for TLC.                                      *)
(***************************************************************************)
EXTENDS TrainingJobs, TLC

CONSTANTS creator, deleter      \* two clients

\* Both clients correct segments, one of them also deletes samples and calls.
TwoCreators == creator :> {"create"} @@ deleter :> OperationKinds

\* Both clients delete calls, one of them also corrects segments.
TwoDeleters == creator :> {"create", "delete_call"} @@ deleter :> {"delete_call"}

\* Corrections only, and the deletion of calls only.
CreateOnly == creator :> {"create"}
CreateAndDeleteCall == creator :> {"create"} @@ deleter :> {"delete_call"}
=============================================================================
