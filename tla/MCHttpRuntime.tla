---------------------------- MODULE MCHttpRuntime ----------------------------
(***************************************************************************)
(* Constants for checking HttpRuntime with TLC: the platform ends no run,  *)
(* and requests may arrive at any time, also just before midnight.         *)
(***************************************************************************)
EXTENDS HttpRuntime, TLC

CONSTANTS A, B   \* two guilds

OneGuild  == <<A>>
TwoGuilds == <<A, B>>

StartAtOne == [g \in Guilds |-> 1]

AnyTime == 0 .. Horizon

Symmetric == Permutations(Runs)
=============================================================================
