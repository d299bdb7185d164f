----------------------------- MODULE RetryClient -----------------------------
(***************************************************************************)
(* One call of the Discord client: doJSON (internal/discord/client.go) on  *)
(* top of the retry loop of RetryHTTPClient.Do (internal/discord/retry.go).*)
(* A try may be answered, break off, or be applied by Discord although its *)
(* answer is lost, even after the client has given it up and sent another. *)
(***************************************************************************)
EXTENDS Integers

CONSTANTS MaxRetries,   \* further tries after the first
          InitialWait,  \* wait before the first of them, doubled for each next
          MaxWait,      \* the longest wait
          Jitter,       \* a random wait below this is added
          Nil

ASSUME RetryAssumption ==
  /\ MaxRetries \in Nat
  /\ InitialWait \in Nat \ {0}
  /\ MaxWait \in Nat \ {0}
  /\ Jitter \in Nat \ {0}
  /\ Nil \notin {"2xx", "4xx", "5xx", "broken", "ok", "failed"}

VARIABLES pc,        \* "send", "await", "backoff", "decode" or "ended"
          attempt,   \* the try that is next or under way
          wire,      \* tries on their way to Discord
          applied,   \* tries Discord has applied
          answer,    \* the answer to the current try, Nil until it is there
          cancelled, \* whether the context is cancelled
          waited,    \* time spent in backoff
          result     \* what doJSON returns, Nil before

vars == <<pc, attempt, wire, applied, answer, cancelled, waited, result>>

Tries == 0 .. MaxRetries

\* "2xx" and "4xx" stand for all that is below 500; "broken": no response at all.
Answers == {"2xx", "4xx", "5xx", "broken"}

Init ==
  /\ pc = "send" /\ attempt = 0 /\ wire = {} /\ applied = {} /\ answer = Nil
  /\ cancelled = FALSE /\ waited = 0 /\ result = Nil

-----------------------------------------------------------------------------
End(what) == pc' = "ended" /\ result' = what

\* inner.Do; with a cancelled context it returns before anything is sent.
Send ==
  /\ pc = "send"
  /\ IF cancelled
       THEN End("failed") /\ UNCHANGED wire
       ELSE wire' = wire \cup {attempt} /\ pc' = "await" /\ UNCHANGED result
  /\ UNCHANGED <<attempt, applied, answer, cancelled, waited>>

\* Mutant: 4xx is retried too and a 5xx is final.
RetryableSwapped(a) == a \in {"4xx", "broken"}

\* Transport errors and 5xx are tried again, all other statuses are final.
Retryable(a) == a \in {"5xx", "broken"}

\* Mutant: one try more than allowed.
RetryOneMore ==
  /\ pc = "await" /\ answer # Nil /\ Retryable(answer)
  /\ ~(cancelled /\ answer = "broken")
  /\ attempt <= MaxRetries
  /\ pc' = "backoff" /\ answer' = Nil
  /\ UNCHANGED <<attempt, wire, applied, cancelled, waited, result>>

Retry ==
  /\ pc = "await" /\ answer # Nil /\ Retryable(answer)
  /\ ~(cancelled /\ answer = "broken")
  /\ attempt < MaxRetries
  /\ pc' = "backoff" /\ answer' = Nil
  /\ UNCHANGED <<attempt, wire, applied, cancelled, waited, result>>

\* Mutant: the error of an earlier try is forgotten.
GiveUpSilently ==
  /\ pc = "await" /\ answer # Nil /\ Retryable(answer)
  /\ attempt = MaxRetries \/ (cancelled /\ answer = "broken")
  /\ End("ok")
  /\ UNCHANGED <<attempt, wire, applied, answer, cancelled, waited>>

\* Mutant: the second failure in a row is final.
GiveUpEarly ==
  /\ pc = "await" /\ answer # Nil /\ Retryable(answer)
  /\ attempt >= 1
  /\ End("failed")
  /\ UNCHANGED <<attempt, wire, applied, answer, cancelled, waited>>

\* The last error, the last response with its 5xx, or the context's error.
GiveUp ==
  /\ pc = "await" /\ answer # Nil /\ Retryable(answer)
  /\ attempt = MaxRetries \/ (cancelled /\ answer = "broken")
  /\ End("failed")
  /\ UNCHANGED <<attempt, wire, applied, answer, cancelled, waited>>

\* A status below 500 goes back to doJSON, which accepts only a 2xx.
Receive ==
  /\ pc = "await" /\ answer # Nil /\ ~Retryable(answer)
  /\ IF answer = "2xx" THEN pc' = "decode" /\ UNCHANGED result ELSE End("failed")
  /\ UNCHANGED <<attempt, wire, applied, answer, cancelled, waited>>

\* The body does not decode, breaks off or lacks an id: an error, applied or not.
Decode ==
  /\ pc = "decode"
  /\ \E what \in {"ok", "failed"} : End(what)
  /\ UNCHANGED <<attempt, wire, applied, answer, cancelled, waited>>

\* Mutant: the wait is not capped.
backoffUncapped(k) == {InitialWait * 2 ^ k + j : j \in 0 .. Jitter - 1}

backoff(k) ==
  {IF InitialWait * 2 ^ k + j > MaxWait THEN MaxWait ELSE InitialWait * 2 ^ k + j :
     j \in 0 .. Jitter - 1}

\* Mutant: the tries are not counted, and the wait goes on when cancelled.
SleepUncounted ==
  /\ pc = "backoff"
  /\ pc' = "send"
  /\ UNCHANGED <<attempt, wire, applied, answer, cancelled, waited, result>>

\* sleepContext; when the timer and the cancellation are both there either wins.
Sleep ==
  /\ pc = "backoff"
  /\ \/ /\ \E w \in backoff(attempt) : waited' = waited + w
        /\ attempt' = attempt + 1 /\ pc' = "send" /\ UNCHANGED result
     \/ cancelled /\ End("failed") /\ UNCHANGED <<waited, attempt>>
  /\ UNCHANGED <<wire, applied, answer, cancelled>>

-----------------------------------------------------------------------------
(* Discord and the network.                                                *)

\* A request reaches Discord: an applied one is answered 2xx, or 5xx when it failed
\* half-way; a rejected one 4xx or 5xx; only the current try has a listener.
Serve ==
  \E try \in wire : \E status \in {"2xx", "4xx", "5xx"}, done \in BOOLEAN :
    /\ status = "2xx" => done
    /\ status = "4xx" => ~done
    /\ wire' = wire \ {try}
    /\ applied' = IF done THEN applied \cup {try} ELSE applied
    /\ answer' = IF pc = "await" /\ try = attempt /\ answer = Nil THEN status ELSE answer
    /\ UNCHANGED <<pc, attempt, cancelled, waited, result>>

\* The connection breaks; what was sent may still arrive, or never.
Break ==
  /\ pc = "await" /\ answer = Nil
  /\ answer' = "broken"
  /\ wire' \in {wire, wire \ {attempt}}
  /\ UNCHANGED <<pc, attempt, applied, cancelled, waited, result>>

Cancel ==
  /\ ~cancelled /\ pc # "ended"
  /\ cancelled' = TRUE
  /\ UNCHANGED <<pc, attempt, wire, applied, answer, waited, result>>

Step == Send \/ Retry \/ GiveUp \/ Receive \/ Decode \/ Sleep

Next == Step \/ Serve \/ Break \/ Cancel

Spec == Init /\ [][Next]_vars

\* No answer is promised, but no try waits for ever: the run's context is cancelled
\* by its time limit at the latest, which breaks the connection.
FairSpec == Spec /\ WF_vars(Step) /\ WF_vars(Break)

-----------------------------------------------------------------------------
(* The shape of the local variables of Do and doJSON and of the network.   *)
TypeOK ==
  /\ pc \in {"send", "await", "backoff", "decode", "ended"}
  /\ attempt \in Tries
  /\ wire \subseteq Tries /\ applied \subseteq Tries
  /\ answer \in Answers \cup {Nil}
  /\ cancelled \in BOOLEAN
  /\ waited \in Nat
  /\ result \in {Nil, "ok", "failed"}

(* A wait is capped before it is slept, so a call spends at most           *)
(* MaxRetries * MaxWait of the run's time budget on waiting.               *)
WaitsBounded == waited <= attempt * MaxWait

(* A call that failed for good was refused by Discord or has used up every *)
(* try; giving up early would turn a passing outage into a failed day.     *)
FailsOnlyWhenExhausted ==
  result = "failed" => cancelled \/ attempt = MaxRetries \/ answer \in {"2xx", "4xx"}

(* Nothing is sent again once Discord has answered below 500, and nothing  *)
(* after the context was cancelled: each further copy may be a further     *)
(* thread.                                                                 *)
NoNeedlessCopy ==
  [][/\ wire' \ wire # {} => ~cancelled
     /\ answer \in {"2xx", "4xx"} => answer' = answer]_vars

(* The call returns, whatever Discord does.                                *)
CallEnds == <>(pc = "ended")

Call == INSTANCE DiscordCall WITH Copies <- Tries, effects <- applied,
                                  outcome <- IF result = Nil THEN "pending" ELSE result

(* To the job the call is a request of at most MaxRetries + 1 copies whose *)
(* success means that a copy was applied.                                  *)
ImplementsDiscordCall == Call!Spec
=============================================================================
