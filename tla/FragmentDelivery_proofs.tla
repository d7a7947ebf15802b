------------------------ MODULE FragmentDelivery_proofs ------------------------
(***************************************************************************)
(* What a sender that keeps the promise of FragmentDelivery never does,    *)
(* for any fragments and any number of attempts.  Transport_proofs uses it *)
(* of either host.                                                         *)
(***************************************************************************)
EXTENDS FragmentDelivery, TLAPS

Stage == {"new", "waiting", "acked", "given_up"}

\* No fragment is put on the wire before it is submitted, nor more often than
\* attempts are made, and these are bounded.
BoundedSends ==
  /\ stage \in [Fragment -> Stage]
  /\ attempts \in [Fragment -> 0 .. Retries]
  /\ transmitted \in [Fragment -> 0 .. Retries]
  /\ \A f \in Fragment :
       /\ transmitted[f] <= attempts[f]
       /\ stage[f] = "new" => attempts[f] = 0

LEMMA MoveType ==
  ASSUME BoundedSends, NEW S, NEW to \in Stage
  PROVE  /\ Move(S, to) \in [Fragment -> Stage]
         /\ \A f \in Fragment :
              Move(S, to)[f] = IF f \in S THEN to ELSE stage[f]
BY DEF BoundedSends, Move

LEMMA MoveBounded ==
  ASSUME BoundedSends, NEW S \in SUBSET Fragment, NEW to \in Stage \ {"new"},
         stage' = Move(S, to), UNCHANGED <<attempts, transmitted>>
  PROVE  BoundedSends'
<1>1. stage' \in [Fragment -> Stage]
  BY MoveType
<1>2. \A f \in Fragment : stage'[f] = "new" => stage[f] = "new"
  BY MoveType
<1> QED
  BY <1>1, <1>2 DEF BoundedSends

LEMMA BoundedInit ==
  ASSUME Retries \in Nat, Init
  PROVE  BoundedSends
BY DEF Init, BoundedSends, Stage

\* A sender is bounded whatever its environment acknowledges.
LEMMA BoundedNext ==
  ASSUME Retries \in Nat, BoundedSends, [Next]_vars
  PROVE  BoundedSends'
<1>1. ASSUME NEW S \in SUBSET Fragment, Submit(S) \/ Acknowledge(S) \/ GiveUp(S)
      PROVE  BoundedSends'
  BY <1>1, MoveBounded DEF Submit, Acknowledge, GiveUp, Stage
<1>2. ASSUME NEW f \in Fragment, Attempt(f),
             transmitted' \in {transmitted, [transmitted EXCEPT ![f] = @ + 1]}
      PROVE  BoundedSends'
  <2>1. /\ attempts[f] \in Nat /\ attempts[f] + 1 \in 0 .. Retries
        /\ attempts' = [attempts EXCEPT ![f] = attempts[f] + 1]
        /\ stage' = stage /\ stage[f] # "new"
    BY <1>2 DEF Attempt, Waiting, BoundedSends
  <2>2. attempts' \in [Fragment -> 0 .. Retries]
    BY <2>1 DEF BoundedSends
  <2>3. \A g \in Fragment :
          /\ transmitted[g] \in Nat /\ attempts[g] \in Nat
          /\ g # f => transmitted'[g] = transmitted[g] /\ attempts'[g] = attempts[g]
          /\ transmitted'[f] \in {transmitted[f], transmitted[f] + 1}
          /\ attempts'[f] = attempts[f] + 1
    BY <1>2, <2>1 DEF BoundedSends
  <2>4. \A g \in Fragment : /\ transmitted'[g] <= attempts'[g]
                            /\ transmitted'[g] \in 0 .. Retries
    <3> TAKE g \in Fragment
    <3>1. CASE g = f
      BY <2>1, <2>3, <3>1 DEF BoundedSends
    <3>2. CASE g # f
      BY <2>3, <3>2 DEF BoundedSends
    <3> QED
      BY <3>1, <3>2
  <2>5. transmitted' \in [Fragment -> 0 .. Retries]
    <3>1. \E h : transmitted' = [g \in Fragment |-> h[g]]
      BY <1>2 DEF BoundedSends
    <3> QED
      BY <2>4, <3>1
  <2>6. \A g \in Fragment : stage'[g] = "new" => attempts'[g] = 0
    <3> TAKE g \in Fragment
    <3>1. CASE g = f
      BY <2>1, <3>1
    <3>2. CASE g # f
      BY <2>1, <2>3, <3>2 DEF BoundedSends
    <3> QED
      BY <3>1, <3>2
  <2> QED
    BY <2>1, <2>2, <2>4, <2>5, <2>6 DEF BoundedSends
<1>3. ASSUME NEW f \in Fragment, Transmit(f) \/ Fail(f)
      PROVE  BoundedSends'
  BY <1>2, <1>3 DEF Transmit, Fail
<1>4. CASE UNCHANGED vars
  BY <1>4 DEF vars, BoundedSends
<1> QED
  BY <1>1, <1>3, <1>4 DEF Next

\* Which fragments are new changes only when a message is submitted.
LEMMA SubmitStarts ==
  ASSUME BoundedSends, NEW S \in SUBSET Fragment, Submit(S)
  PROVE  \A g \in Fragment :
           /\ g \in S => stage[g] = "new"
           /\ stage'[g] = IF g \in S THEN "waiting" ELSE stage[g]
<1>1. stage' = Move(S, "waiting")
  BY DEF Submit
<1> QED
  BY <1>1, MoveType DEF Submit, Stage

LEMMA OnlySubmitStarts ==
  ASSUME BoundedSends, NEW S \in SUBSET Fragment, NEW f \in Fragment,
         Transmit(f) \/ Acknowledge(S) \/ GiveUp(S)
  PROVE  \A g \in Fragment : stage'[g] = "new" <=> stage[g] = "new"
<1>1. CASE Transmit(f)
  BY <1>1 DEF Transmit, Attempt
<1>2. CASE Acknowledge(S) \/ GiveUp(S)
  <2>1. PICK to \in {"acked", "given_up"} : stage' = Move(S, to)
    BY <1>2 DEF Acknowledge, GiveUp
  <2>2. \A g \in S : stage[g] = "waiting"
    BY <1>2 DEF Acknowledge, GiveUp, Waiting
  <2> QED
    BY <2>1, <2>2, MoveType DEF Stage
<1> QED
  BY <1>1, <1>2

\* Only an Ack settles a fragment.
LEMMA OnlyAcksSettle ==
  ASSUME BoundedSends, NEW S \in SUBSET Fragment, NEW f \in Fragment,
         Submit(S) \/ Transmit(f) \/ GiveUp(S)
  PROVE  \A g \in Fragment : stage'[g] = "acked" => stage[g] = "acked"
<1>1. CASE Transmit(f)
  BY <1>1 DEF Transmit, Attempt
<1>2. CASE Submit(S) \/ GiveUp(S)
  <2>1. PICK to \in {"waiting", "given_up"} : stage' = Move(S, to)
    BY <1>2 DEF Submit, GiveUp
  <2> QED
    BY <2>1, MoveType DEF Stage
<1> QED
  BY <1>1, <1>2

\* What was transmitted was.
LEMMA SendsGrow ==
  ASSUME BoundedSends, [Next]_vars
  PROVE  \A g \in Fragment : transmitted[g] <= transmitted'[g]
<1>1. \/ transmitted' = transmitted
      \/ \E f \in Fragment : transmitted' = [transmitted EXCEPT ![f] = @ + 1]
  BY DEF Next, vars, Submit, Acknowledge, GiveUp, Transmit, Fail
<1>2. \A g \in Fragment : transmitted[g] \in 0 .. Retries
  BY DEF BoundedSends
<1> QED
  BY <1>1, <1>2 DEF BoundedSends

\* A sender makes no more attempts than it may, and transmits nothing that was
\* not submitted.
THEOREM SendsAreBounded ==
  ASSUME Retries \in Nat
  PROVE  Spec => []BoundedSends
<1>1. Init => BoundedSends
  BY BoundedInit
<1>2. BoundedSends /\ [Next]_vars => BoundedSends'
  BY BoundedNext
<1> QED
  BY <1>1, <1>2, PTL DEF Spec
=============================================================================
