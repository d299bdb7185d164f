----------------------------- MODULE DiscordCall -----------------------------
(***************************************************************************)
(* What the job may assume of one Discord request with an effect, such as  *)
(* a thread creation: it may take effect several times, once per copy that *)
(* is sent, and also when it is reported as failed; a success means that   *)
(* at least one copy has.  CreateForumThread of DailyJob.tla is this call  *)
(* in one step; RetryClient.tla is the code behind it.                     *)
(***************************************************************************)
CONSTANT Copies   \* the copies of the request that may be sent

VARIABLES effects,   \* the copies that have taken effect
          outcome    \* what the caller was told

vars == <<effects, outcome>>

Init == effects = {} /\ outcome = "pending"

\* Also after the caller was answered: a request is not recalled.
TakeEffect ==
  /\ \E copy \in Copies \ effects : effects' = effects \cup {copy}
  /\ UNCHANGED outcome

Succeed == outcome = "pending" /\ effects # {} /\ outcome' = "ok" /\ UNCHANGED effects

Fail == outcome = "pending" /\ outcome' = "failed" /\ UNCHANGED effects

Next == TakeEffect \/ Succeed \/ Fail

Spec == Init /\ [][Next]_vars
=============================================================================
