----------------------------- MODULE MCDailyJob -----------------------------
(***************************************************************************)
(* Constants for checking DailyJob with TLC.  A tick is five minutes: the  *)
(* retry interval of the deployment is one tick, its task timeout three    *)
(* and the staleness limit six.                                            *)
(***************************************************************************)
EXTENDS JobDeployment, TLC

CONSTANTS A, B, C   \* guilds

OneGuild  == <<A>>
TwoGuilds == <<A, B>>
ThreeGuilds == <<A, B, C>>

StartAtOne == [g \in Guilds |-> 1]

Symmetric == Permutations(Runs)
=============================================================================
