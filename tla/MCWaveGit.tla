----------------------------- MODULE MCWaveGit -----------------------------
(* A plan with a foundation task, a feature of two tasks, in a row or in   *)
(* parallel, one of a single task and an integration task.  A rerun of the *)
(* foundation task that cascades is left out: it reruns the whole plan, as *)
(* the continuation of an execution that has reported nothing does.        *)
EXTENDS WaveGit

MCFoundation == {"b"}
MCFeatures == {"F", "G"}
MCChain == [f \in MCFeatures |-> IF f = "F" THEN <<"f1", "f2">> ELSE <<"g">>]
MCListed == <<"F", "f1", "f2", "G", "g">>
MCIntegration == {"i"}
MCRequests == Tasks \X BOOLEAN \ {<<"b", TRUE>>}
=============================================================================
