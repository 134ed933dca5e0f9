----------------------------- MODULE Deployment -----------------------------
(***************************************************************************)
(* What an update promises to whoever runs the service, without files,     *)
(* processes, downloads or failures.                                       *)
(*                                                                         *)
(* At every moment one build is deployed: the one that the next start runs *)
(* or, if it cannot start, the one that a repair by hand brings back.  It  *)
(* changes in one step, to a build that was published, and in the release  *)
(* channel never to an older one.  Service.tla implements this.            *)
(***************************************************************************)
EXTENDS Naturals

CONSTANT Latest     \* bound on the builds that are published

VARIABLES
    published,  \* the newest build published, 0 when there is none
    channel,    \* the builds the service follows
    deployed    \* the build that the next start, or a repair, runs

vars == <<published, channel, deployed>>

Init ==
    /\ published \in {0, 1}
    /\ channel \in {"develop", "release"}
    /\ deployed = 1

Publish ==
    /\ published < Latest
    /\ published' = published + 1
    /\ UNCHANGED <<channel, deployed>>

Update ==
    /\ deployed' \in 1..published
    /\ channel = "release" => deployed' > deployed
    /\ UNCHANGED <<published, channel>>

Next == Publish \/ Update

Spec == Init /\ [][Next]_vars
=============================================================================
