-------------------------- MODULE FragmentDelivery --------------------------
(***************************************************************************)
(* What the sender of a host promises of the fragments it is given, to     *)
(* whoever relies on it (Transport): each is put on the wire a bounded     *)
(* number of times, until an Ack comes or all attempts are made, and never *)
(* afterwards.  HostNode, with its two threads, discoveries, removed       *)
(* neighbours and shutdown, implements it.                                 *)
(***************************************************************************)
EXTENDS Naturals

CONSTANTS
  Fragment,  \* the fragments that may be submitted, each once
  Retries    \* PACKET_RESEND_MAX_RETRIES

VARIABLES
  stage,       \* where each fragment is
  attempts,    \* attempts made, with or without a route
  transmitted  \* copies put on the wire

vars == <<stage, attempts, transmitted>>

Waiting == {f \in Fragment : stage[f] = "waiting"}

Move(S, to) == [f \in Fragment |-> IF f \in S THEN to ELSE stage[f]]

\* The fragments of a message.
Submit(S) ==
  /\ S # {}
  /\ \A f \in S : stage[f] = "new"
  /\ stage' = Move(S, "waiting")
  /\ UNCHANGED <<attempts, transmitted>>

Attempt(f) ==
  /\ f \in Waiting
  /\ attempts[f] < Retries
  /\ attempts' = [attempts EXCEPT ![f] = @ + 1]
  /\ UNCHANGED stage

Transmit(f) ==
  /\ Attempt(f)
  /\ transmitted' = [transmitted EXCEPT ![f] = @ + 1]

\* No route, or the next hop is not a neighbour any more.
Fail(f) ==
  /\ Attempt(f)
  /\ UNCHANGED transmitted

\* An Ack settles every waiting fragment with its peer, session and index.
Acknowledge(S) ==
  /\ S # {} /\ S \subseteq Waiting
  /\ stage' = Move(S, "acked")
  /\ UNCHANGED <<attempts, transmitted>>

GiveUp(S) ==
  /\ S # {} /\ S \subseteq Waiting
  /\ \A f \in S : attempts[f] = Retries
  /\ stage' = Move(S, "given_up")
  /\ UNCHANGED <<attempts, transmitted>>

Init ==
  /\ stage = [f \in Fragment |-> "new"]
  /\ attempts = [f \in Fragment |-> 0]
  /\ transmitted = [f \in Fragment |-> 0]

Next ==
  \/ \E S \in SUBSET Fragment : Submit(S) \/ Acknowledge(S) \/ GiveUp(S)
  \/ \E f \in Fragment : Transmit(f) \/ Fail(f)

Spec == Init /\ [][Next]_vars
=============================================================================
