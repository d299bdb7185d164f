-------------------------- MODULE RetryClientProofs --------------------------
(***************************************************************************)
(* Proofs about one Discord call, for any number of retries and any waits. *)
(***************************************************************************)
EXTENDS RetryClient, FiniteSetTheorems, TLAPS

(* A success that is being decoded or was reported has been applied, and a *)
(* call has a result exactly when it has ended.                            *)
CallInv ==
  /\ pc \in {"send", "await", "backoff", "decode", "ended"}
  /\ attempt \in Tries
  /\ pc = "backoff" => attempt < MaxRetries
  /\ wire \subseteq Tries /\ applied \subseteq Tries
  /\ answer \in Answers \cup {Nil}
  /\ cancelled \in BOOLEAN
  /\ result \in {Nil, "ok", "failed"}
  /\ result = Nil <=> pc # "ended"
  /\ answer = "2xx" => applied # {}
  /\ pc = "decode" => answer = "2xx"

(* Each wait is at most MaxWait, and there is one before each further try. *)
WaitInv == waited \in Int /\ WaitsBounded

USE RetryAssumption

-----------------------------------------------------------------------------
LEMMA InitInv ==
  ASSUME Init
  PROVE  CallInv /\ WaitInv
<1>1. CallInv
  <2>1. cancelled \in BOOLEAN
    BY Zenon DEF Init
  <2> QED BY <2>1 DEF Init, CallInv, Tries
<1>2. waited = 0 /\ attempt = 0 /\ 0 * MaxWait = 0
  BY DEF Init
<1> QED BY <1>1, <1>2 DEF WaitInv, WaitsBounded

LEMMA StepInv ==
  ASSUME CallInv, [Next]_vars
  PROVE  CallInv'
<1> USE DEF CallInv, Tries, Answers, End
<1>1. CASE Send
  BY <1>1 DEF Send
<1>2. CASE Retry
  BY <1>2 DEF Retry, Retryable
<1>3. CASE GiveUp
  BY <1>3 DEF GiveUp
<1>4. CASE Receive
  BY <1>4 DEF Receive, Retryable
<1>5. CASE Decode
  BY <1>5 DEF Decode
<1>6. CASE Sleep
  BY <1>6 DEF Sleep
<1>7. CASE Serve
  BY <1>7 DEF Serve
<1>8. CASE Break
  BY <1>8 DEF Break
<1>9. CASE Cancel
  BY <1>9 DEF Cancel
<1>10. CASE UNCHANGED vars
  BY <1>10 DEF vars
<1> QED BY <1>1, <1>2, <1>3, <1>4, <1>5, <1>6, <1>7, <1>8, <1>9, <1>10 DEF Next, Step

LEMMA Invariance == Spec => []CallInv
<1>1. Init => CallInv
  BY InitInv
<1>2. CallInv /\ [Next]_vars => CallInv'
  BY StepInv
<1> QED BY <1>1, <1>2, PTL DEF Spec

-----------------------------------------------------------------------------
(* The waits.                                                              *)

LEMMA OneMore ==
  ASSUME NEW n \in Nat
  PROVE  n * MaxWait \in Int /\ (n + 1) * MaxWait = n * MaxWait + MaxWait
  OBVIOUS

LEMMA PowersAreIntegers == \A k \in Int : 2 ^ k \in Int
  OBVIOUS

(* A wait is an integer and never longer than MaxWait.                     *)
LEMMA WaitCapped ==
  ASSUME NEW k \in Nat, NEW w \in backoff(k)
  PROVE  w \in Int /\ w <= MaxWait
<1>1. 2 ^ k \in Int
  BY PowersAreIntegers
<1>2. PICK power \in Int : power = 2 ^ k
  BY <1>1
<1>3. PICK j \in 0 .. Jitter - 1 :
        w = IF InitialWait * power + j > MaxWait THEN MaxWait ELSE InitialWait * power + j
  BY <1>2 DEF backoff
<1>4. PICK base \in Int : base = InitialWait * power
  BY <1>2
<1> QED BY <1>3, <1>4

LEMMA StepWaits ==
  ASSUME CallInv, WaitInv, [Next]_vars
  PROVE  WaitInv'
<1>1. ASSUME UNCHANGED <<attempt, waited>> PROVE WaitInv'
  BY <1>1 DEF WaitInv, WaitsBounded
<1>2. CASE Sleep
  <2>1. CASE UNCHANGED <<attempt, waited>>
    BY <1>1, <2>1
  <2>2. ASSUME NEW w \in backoff(attempt), waited' = waited + w, attempt' = attempt + 1
        PROVE  WaitInv'
    <3>1. attempt \in Nat
      BY DEF CallInv, Tries
    <3>2. w \in Int /\ w <= MaxWait
      BY <3>1, WaitCapped
    <3>3. /\ attempt * MaxWait \in Int
          /\ (attempt + 1) * MaxWait = attempt * MaxWait + MaxWait
      BY <3>1, OneMore
    <3>4. PICK before \in Int : before = attempt * MaxWait
      BY <3>3
    <3>5. waited \in Int /\ waited <= before
      BY <3>4 DEF WaitInv, WaitsBounded
    <3>6. attempt' * MaxWait = before + MaxWait
      BY <2>2, <3>3, <3>4
    <3>7. waited + w \in Int /\ waited + w <= before + MaxWait
      BY <3>2, <3>4, <3>5
    <3> QED BY <2>2, <3>6, <3>7 DEF WaitInv, WaitsBounded
  <2> QED BY <1>2, <2>1, <2>2 DEF Sleep
<1>3. CASE Send \/ Retry \/ GiveUp \/ Receive \/ Decode
  BY <1>1, <1>3 DEF Send, Retry, GiveUp, Receive, Decode
<1>4. CASE Serve \/ Break \/ Cancel \/ UNCHANGED vars
  BY <1>1, <1>4 DEF Serve, Break, Cancel, vars
<1> QED BY <1>2, <1>3, <1>4 DEF Next, Step

(* For any jitter, first wait and number of retries, a call spends at most *)
(* MaxRetries * MaxWait of the run's time budget on waiting.               *)
THEOREM BoundedWaits == Spec => []WaitsBounded
<1>1. Init => WaitInv
  BY InitInv
<1>2. CallInv /\ WaitInv /\ [Next]_vars => WaitInv'
  BY StepWaits
<1>3. WaitInv => WaitsBounded
  BY DEF WaitInv
<1> QED BY <1>1, <1>2, <1>3, Invariance, PTL DEF Spec

(* A set of k elements has 2^k subsets.                                    *)
LEMMA PowerOfTwo == \A k \in Nat : 2 ^ k \in Nat
<1>1. ASSUME NEW k \in Nat
      PROVE  2 ^ k \in Nat
  <2>1. IsFiniteSet(1 .. k) /\ Cardinality(1 .. k) = k
    BY FS_Interval
  <2>2. IsFiniteSet(SUBSET (1 .. k)) /\ Cardinality(SUBSET (1 .. k)) = 2 ^ k
    BY <2>1, FS_SUBSET
  <2>3. Cardinality(SUBSET (1 .. k)) \in Nat
    BY <2>2, FS_CardinalityType
  <2> QED
    BY <2>2, <2>3
<1> QED
  BY <1>1

(* No wait is negative, and all variables keep their types.                *)
THEOREM TypeCorrect == Spec => []TypeOK
<1>1. ASSUME NEW k \in Nat, NEW w \in backoff(k) PROVE w \in Nat
  <2>1. PICK power \in Nat : power = 2 ^ k
    BY <1>1, PowerOfTwo
  <2>2. PICK j \in 0 .. Jitter - 1 :
          w = IF InitialWait * power + j > MaxWait THEN MaxWait ELSE InitialWait * power + j
    BY <2>1 DEF backoff
  <2>3. PICK base \in Nat : base = InitialWait * power
    BY <2>1
  <2> QED BY <2>2, <2>3
<1>2. Init => waited \in Nat
  BY DEF Init
<1>3. CallInv /\ waited \in Nat /\ [Next]_vars => (waited \in Nat)'
  <2> SUFFICES ASSUME CallInv, waited \in Nat, [Next]_vars PROVE waited' \in Nat
    OBVIOUS
  <2>1. CASE Sleep
    BY <1>1, <2>1 DEF Sleep, CallInv, Tries
  <2>2. CASE Send \/ Retry \/ GiveUp \/ Receive \/ Decode
    BY <2>2 DEF Send, Retry, GiveUp, Receive, Decode
  <2>3. CASE Serve \/ Break \/ Cancel \/ UNCHANGED vars
    BY <2>3 DEF Serve, Break, Cancel, vars
  <2> QED BY <2>1, <2>2, <2>3 DEF Next, Step
<1>4. CallInv /\ waited \in Nat => TypeOK
  BY DEF CallInv, TypeOK
<1> QED BY <1>2, <1>3, <1>4, Invariance, PTL DEF Spec

-----------------------------------------------------------------------------
(* The tries.                                                              *)

LEMMA StepCause ==
  ASSUME CallInv, FailsOnlyWhenExhausted, [Next]_vars
  PROVE  FailsOnlyWhenExhausted'
<1> USE DEF CallInv, FailsOnlyWhenExhausted, Answers, End
<1>1. CASE Send
  BY <1>1 DEF Send
<1>2. CASE Retry
  BY <1>2 DEF Retry
<1>3. CASE GiveUp
  BY <1>3 DEF GiveUp
<1>4. CASE Receive
  BY <1>4 DEF Receive, Retryable
<1>5. CASE Decode
  BY <1>5 DEF Decode
<1>6. CASE Sleep
  BY <1>6 DEF Sleep
<1>7. CASE Serve
  BY <1>7 DEF Serve
<1>8. CASE Break \/ Cancel
  BY <1>8 DEF Break, Cancel
<1>9. CASE UNCHANGED vars
  BY <1>9 DEF vars
<1> QED BY <1>1, <1>2, <1>3, <1>4, <1>5, <1>6, <1>7, <1>8, <1>9 DEF Next, Step

(* Whatever Discord answers or the network loses, a call fails only when   *)
(* it is cancelled, refused, accepted with a body it cannot read, or out   *)
(* of tries.                                                               *)
THEOREM TriesAreExhausted == Spec => []FailsOnlyWhenExhausted
<1>1. Init => FailsOnlyWhenExhausted
  BY DEF Init, FailsOnlyWhenExhausted
<1>2. CallInv /\ FailsOnlyWhenExhausted /\ [Next]_vars => FailsOnlyWhenExhausted'
  BY StepCause
<1> QED BY <1>1, <1>2, Invariance, PTL DEF Spec

LEMMA StepSends ==
  ASSUME CallInv, [Next]_vars
  PROVE  /\ wire' \ wire # {} => ~cancelled
         /\ answer \in {"2xx", "4xx"} => answer' = answer
<1>1. CASE Send \/ Retry \/ GiveUp \/ Receive \/ Decode
  BY <1>1 DEF Send, Retry, Retryable, GiveUp, Receive, Decode
<1>2. CASE Sleep \/ Cancel \/ UNCHANGED vars
  BY <1>2 DEF Sleep, Cancel, vars
<1>3. CASE Serve \/ Break
  BY <1>3 DEF Serve, Break
<1> QED BY <1>1, <1>2, <1>3 DEF Next, Step

(* Nothing is sent after the context was cancelled, and an answer below    *)
(* 500 is final, however late the copies sent before it arrive.            *)
THEOREM NothingNeedless == Spec => NoNeedlessCopy
<1>1. CallInv /\ [Next]_vars
        => [/\ wire' \ wire # {} => ~cancelled
            /\ answer \in {"2xx", "4xx"} => answer' = answer]_vars
  BY StepSends
<1> QED BY <1>1, Invariance, PTL DEF Spec, NoNeedlessCopy

-----------------------------------------------------------------------------
(* Only Discord changes what is applied, one copy at a time, and only the  *)
(* end of the call gives its caller a result.                              *)
LEMMA StepRefines ==
  ASSUME CallInv, [Next]_vars
  PROVE  [Call!Next]_(Call!vars)
<1> DEFINE told == IF result = Nil THEN "pending" ELSE result
<1> USE DEF CallInv
<1>1. CASE Serve
  <2>1. PICK try \in wire : applied' = applied \/ applied' = applied \cup {try}
    BY <1>1 DEF Serve
  <2>2. told' = told /\ try \in Tries
    BY <1>1 DEF Serve
  <2>3. CASE try \in applied
    BY <2>1, <2>2, <2>3 DEF Call!vars
  <2>4. CASE try \notin applied
    BY <2>1, <2>2, <2>4 DEF Call!Next, Call!TakeEffect, Call!vars
  <2> QED BY <2>3, <2>4
<1>2. CASE Retry \/ Break \/ Cancel \/ UNCHANGED vars
  BY <1>2 DEF Retry, Break, Cancel, vars, Call!vars
<1>3. ASSUME applied' = applied, pc # "ended", result' = "failed"
      PROVE  Call!Fail
  BY <1>3 DEF Call!Fail
<1>4. ASSUME applied' = applied, result' = result
      PROVE  UNCHANGED Call!vars
  BY <1>4 DEF Call!vars
<1>5. CASE Send
  BY <1>3, <1>4, <1>5 DEF Send, End, Call!Next
<1>6. CASE GiveUp
  BY <1>3, <1>6 DEF GiveUp, End, Call!Next
<1>7. CASE Receive
  BY <1>3, <1>4, <1>7 DEF Receive, End, Call!Next
<1>8. CASE Sleep
  BY <1>3, <1>4, <1>8 DEF Sleep, End, Call!Next
<1>9. CASE Decode
  <2>1. applied # {} /\ applied' = applied /\ pc # "ended"
    BY <1>9 DEF Decode
  <2>2. CASE result' = "ok"
    BY <2>1, <2>2 DEF Call!Next, Call!Succeed
  <2>3. CASE result' = "failed"
    BY <1>3, <2>1, <2>3 DEF Call!Next
  <2> QED BY <1>9, <2>2, <2>3 DEF Decode, End
<1> QED BY <1>1, <1>2, <1>5, <1>6, <1>7, <1>8, <1>9 DEF Next, Step

(* Whatever Discord and the network do, the retry loop is to its caller a  *)
(* request of at most MaxRetries + 1 copies, and a reported success has    *)
(* taken effect.                                                           *)
THEOREM Refinement == Spec => ImplementsDiscordCall
<1>1. Init => Call!Init
  BY DEF Init, Call!Init
<1>2. CallInv /\ [Next]_vars => [Call!Next]_(Call!vars)
  BY StepRefines
<1> QED BY <1>1, <1>2, Invariance, PTL DEF Spec, ImplementsDiscordCall, Call!Spec
=============================================================================
