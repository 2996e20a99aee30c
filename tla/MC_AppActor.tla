------------------------------ MODULE MC_AppActor ------------------------------
(* Model-checking instance of AppActor: two Builds, the first passed to    *)
(* run.                                                                    *)
EXTENDS AppActor, TLC

CONSTANTS b1, b2, this_crate

MC_Builds == {b1, b2}

(* What the app_run test's workflow sends, plus SetBuild.                  *)
MC_QueryMsgs == {"GetBuild", "GetInstanceId", "GetAppInstanceInfo",
                 "GetLogConfig", "SetBuild"}
=============================================================================
