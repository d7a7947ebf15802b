--------------------------- MODULE RequestChannel ---------------------------
(***************************************************************************)
(* What the transport promises to a client and a server application: a     *)
(* request is executed a bounded number of times, at least once if all its *)
(* fragments were acknowledged; the client may get replies, each made of   *)
(* fragments of executions that took place; nothing is promised about how  *)
(* many.  Transport implements it.                                         *)
(***************************************************************************)
EXTENDS Naturals

CONSTANTS
  Request,
  MaxExecutions,  \* attempts of the client's sender
  MaxReplies      \* attempts of the server's sender

VARIABLES
  status,      \* what the sender of the client makes of each request
  executions,  \* how often the server has executed it
  replies,     \* how often the client was handed a reply
  content      \* the executions these replies were made of

vars == <<status, executions, replies, content>>

Ask(r) ==
  /\ status[r] = "idle"
  /\ status' = [status EXCEPT ![r] = "open"]
  /\ UNCHANGED <<executions, replies, content>>

Execute(r) ==
  /\ status[r] # "idle"
  /\ executions[r] < MaxExecutions
  /\ executions' = [executions EXCEPT ![r] = @ + 1]
  /\ UNCHANGED <<status, replies, content>>

Confirm(r) ==
  /\ status[r] = "open"
  /\ executions[r] > 0
  /\ status' = [status EXCEPT ![r] = "confirmed"]
  /\ UNCHANGED <<executions, replies, content>>

\* Nobody is told.
Abandon(r) ==
  /\ status[r] = "open"
  /\ status' = [status EXCEPT ![r] = "abandoned"]
  /\ UNCHANGED <<executions, replies, content>>

Reply(r, from) ==
  /\ from # {} /\ from \subseteq 1 .. executions[r]
  /\ replies[r] < MaxReplies * executions[r]
  /\ replies' = [replies EXCEPT ![r] = @ + 1]
  /\ content' = [content EXCEPT ![r] = @ \cup {from}]
  /\ UNCHANGED <<status, executions>>

Init ==
  /\ status = [r \in Request |-> "idle"]
  /\ executions = [r \in Request |-> 0]
  /\ replies = [r \in Request |-> 0]
  /\ content = [r \in Request |-> {}]

Next ==
  \E r \in Request :
    \/ Ask(r) \/ Execute(r) \/ Confirm(r) \/ Abandon(r)
    \/ \E from \in SUBSET (1 .. MaxExecutions) : Reply(r, from)

Spec == Init /\ [][Next]_vars
=============================================================================
