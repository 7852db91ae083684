---------------------------- MODULE MCCommanderUI ----------------------------
(* Disks and names for the model-checking run of Commander.                *)
EXTENDS Commander, TLC

CONSTANTS A, B, S, Old, Older

Listed == <<S, A, B>>
Disks == [s \in Sides |->
            IF s = "remote" THEN (<<S>> :> Dir) @@ (<<S, A>> :> Older) @@ (<<A>> :> Old)
            ELSE <<B>> :> Older]
Answers == {<<A>>, <<B>>, <<Dot, A>>}
=============================================================================
