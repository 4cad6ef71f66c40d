---------------------------- MODULE DeployClaims ----------------------------
(***************************************************************************)
(* What a comment of deploy.yml says of the promotion, as a property of    *)
(* the model of the job; TLC finds it violated.                            *)
(***************************************************************************)
EXTENDS MCDeployPipeline

\* deploy.yml:157, "traffic is promoted to the new revision ONLY if the smoke
\* exits 0", with an operator who may be at work: a promotion moves the traffic
\* to a revision both smokes passed on.
OnlySmokedIsPromoted ==
  [][\A c \in Pushed :
       pc[c] = "promote" /\ pc'[c] # "promote" /\ Serving' # Serving =>
         Serving' \in passed.smoke_prod \cap passed.smoke_fbt]_vars
=============================================================================
