--------------------------- MODULE Transport_proofs ---------------------------
(***************************************************************************)
(* Theorems about Transport, for every length of the request and of its    *)
(* responses, every fragment size and any number of attempts.              *)
(***************************************************************************)
EXTENDS Transport, FiniteSetTheorems, TLAPS

USE TransportAssumption, EmptyAssumption

\* What is proved of each half of the two hosts.
SR == INSTANCE FragmentReassembly_proofs WITH
  Message <- {Request}, Session <- {Session},
  SessionOf <- [m \in {Request} |-> Session],
  DataLen <- [m \in {Request} |-> RequestLength], MaxCopies <- ClientRetries,
  fragment_constructors <- server_constructors, acked <- server_acked,
  buffers <- server_buffers, handed <- server_handed, arrived <- server_arrived

CR == INSTANCE FragmentReassembly_proofs WITH
  Message <- Response, Session <- {Session},
  SessionOf <- [m \in Response |-> Session],
  DataLen <- [m \in Response |-> m.length], MaxCopies <- ServerRetries,
  fragment_constructors <- client_constructors, acked <- client_acked,
  buffers <- client_buffers, handed <- client_handed, arrived <- client_arrived

CS == INSTANCE FragmentDelivery_proofs WITH
  Fragment <- RequestFragment, Retries <- ClientRetries, stage <- client_stage,
  attempts <- client_attempts, transmitted <- client_transmitted

SS == INSTANCE FragmentDelivery_proofs WITH
  Fragment <- ResponseFragment, Retries <- ServerRetries, stage <- server_stage,
  attempts <- server_attempts, transmitted <- server_transmitted

-----------------------------------------------------------------------------
(* The halves are what these modules speak of *)

LEMMA RequestFragments == SR!Fragment = RequestFragment
BY DEF RequestFragment, SR!Fragment, SR!FragmentsOf, SR!TotalFragments,
       ServerReceiver!Fragment, ServerReceiver!FragmentsOf,
       ServerReceiver!TotalFragments

LEMMA ResponseFragments == CR!Fragment = ResponseFragment
BY DEF ResponseFragment, CR!Fragment, CR!FragmentsOf, CR!TotalFragments,
       ClientReceiver!Fragment, ClientReceiver!FragmentsOf,
       ClientReceiver!TotalFragments

LEMMA RequestConstants == SR!ConstantsAssumption
BY RequestFragments DEF SR!ConstantsAssumption

LEMMA ResponseConstants == CR!ConstantsAssumption
BY ResponseFragments DEF CR!ConstantsAssumption, Response

LEMMA SameRequestSteps ==
  ASSUME NEW f \in RequestFragment
  PROVE  /\ ServerReceiver!StoreFragment(f) <=> SR!StoreFragment(f)
         /\ ServerReceiver!CompleteMessage(f) <=> SR!CompleteMessage(f)
BY DEF ServerReceiver!StoreFragment, ServerReceiver!CompleteMessage,
       ServerReceiver!Arrive, ServerReceiver!InBounds,
       ServerReceiver!ConstructorFor, ServerReceiver!NewConstructor,
       ServerReceiver!Updated, ServerReceiver!SlotsWith,
       ServerReceiver!PrefixEnds, ServerReceiver!IsComplete,
       ServerReceiver!Buffer, ServerReceiver!With, ServerReceiver!Without,
       ServerReceiver!TotalFragments,
       SR!StoreFragment, SR!CompleteMessage, SR!Arrive, SR!InBounds,
       SR!ConstructorFor, SR!NewConstructor, SR!Updated, SR!SlotsWith,
       SR!PrefixEnds, SR!IsComplete, SR!Buffer, SR!With, SR!Without,
       SR!TotalFragments

LEMMA SameResponseSteps ==
  ASSUME NEW f \in ResponseFragment
  PROVE  /\ ClientReceiver!RejectFragment(f) <=> CR!RejectFragment(f)
         /\ ClientReceiver!StoreFragment(f) <=> CR!StoreFragment(f)
         /\ ClientReceiver!CompleteMessage(f) <=> CR!CompleteMessage(f)
BY DEF ClientReceiver!RejectFragment,
       ClientReceiver!StoreFragment, ClientReceiver!CompleteMessage,
       ClientReceiver!Arrive, ClientReceiver!InBounds,
       ClientReceiver!ConstructorFor, ClientReceiver!NewConstructor,
       ClientReceiver!Updated, ClientReceiver!SlotsWith,
       ClientReceiver!PrefixEnds, ClientReceiver!IsComplete,
       ClientReceiver!Buffer, ClientReceiver!With, ClientReceiver!Without,
       ClientReceiver!TotalFragments,
       CR!RejectFragment, CR!StoreFragment, CR!CompleteMessage, CR!Arrive,
       CR!InBounds, CR!ConstructorFor, CR!NewConstructor, CR!Updated,
       CR!SlotsWith, CR!PrefixEnds, CR!IsComplete, CR!Buffer, CR!With,
       CR!Without, CR!TotalFragments

-----------------------------------------------------------------------------
(* The invariant *)

\* What arrives was transmitted.
ArrivedWasSent ==
  /\ \A f \in RequestFragment : server_arrived[f] <= client_transmitted[f]
  /\ \A f \in ResponseFragment : client_arrived[f] <= server_transmitted[f]

\* The request is submitted whole.
RequestWhole ==
  \A f, g \in RequestFragment : client_stage[f] = "new" => client_stage[g] = "new"

\* What was submitted answers an execution that took place; and each of these
\* was answered by one response, submitted whole.
OnePerExecution ==
  /\ \A f \in ResponseFragment :
       server_stage[f] # "new" => f.msg.execution <= executions
  /\ \A e \in 1 .. executions : \E m \in Response :
       /\ m.execution = e
       /\ \A f \in ResponseFragment : f.msg = m => server_stage[f] # "new"
       /\ \A f \in ResponseFragment :
            server_stage[f] # "new" /\ f.msg.execution = e => f.msg = m

\* A fragment that its sender considers settled, or for which an Ack is under
\* way, was acknowledged; a response by whatever fragment with its index.
AcksAreMeant ==
  /\ \A f \in RequestFragment : client_stage[f] = "acked" => f \in server_acked
  /\ \A f \in ResponseFragment : server_stage[f] = "acked" =>
       \E g \in client_acked : g.index = f.index
  /\ acks \in [Index(ResponseFragment) -> Nat]
  /\ \A i \in Index(ResponseFragment) : acks[i] > 0 =>
       \E g \in client_acked : g.index = i

ExchangeInv ==
  /\ CS!BoundedSends /\ SS!BoundedSends
  /\ SR!SessionInv /\ SR!SharedInv /\ CR!SharedInv
  /\ ArrivedWasSent /\ RequestWhole /\ OnePerExecution /\ AcksAreMeant

-----------------------------------------------------------------------------
(* Fragments and their indices *)

LEMMA RequestFacts ==
  /\ \A f \in RequestFragment :
       /\ f.msg = Request /\ f # Empty
       /\ f = [msg |-> Request, index |-> f.index]
  /\ RequestFragment # {}
  /\ RequestFragment = ServerReceiver!FragmentsOf(Request)
  /\ SR!Alone(Request)
<1>1. \A f \in RequestFragment : /\ f.msg \in {Request} /\ f # Empty
                                 /\ f = [msg |-> f.msg, index |-> f.index]
  BY RequestConstants, RequestFragments, SR!FragmentFacts
<1>2. RequestFragment = ServerReceiver!FragmentsOf(Request)
  BY DEF RequestFragment, ServerReceiver!Fragment
<1>3. SR!TotalFragments(Request) \in Nat \ {0}
  BY RequestConstants, SR!TotalPositive
<1>4. [msg |-> Request, index |-> 0] \in RequestFragment
  BY <1>2, <1>3 DEF ServerReceiver!FragmentsOf, ServerReceiver!TotalFragments,
                    SR!TotalFragments
<1> QED
  BY <1>1, <1>2, <1>4 DEF SR!Alone

LEMMA ResponseFacts ==
  /\ \A f \in ResponseFragment :
       /\ f.msg \in Response /\ f # Empty
       /\ f.index \in 0 .. CR!TotalFragments(f.msg) - 1
       /\ f = [msg |-> f.msg, index |-> f.index]
  /\ \A m \in Response :
       /\ CR!TotalFragments(m) \in Nat \ {0}
       /\ ClientReceiver!FragmentsOf(m) \subseteq ResponseFragment
       /\ \A i \in 0 .. CR!TotalFragments(m) - 1 :
            [msg |-> m, index |-> i] \in ResponseFragment
       /\ \A f \in ResponseFragment :
            f \in ClientReceiver!FragmentsOf(m) <=> f.msg = m
  /\ \A m, n \in Response :
       m.length = n.length => CR!TotalFragments(m) = CR!TotalFragments(n)
<1>1. \A f \in ResponseFragment :
        /\ f.msg \in Response /\ f # Empty
        /\ f.index \in 0 .. CR!TotalFragments(f.msg) - 1
        /\ f = [msg |-> f.msg, index |-> f.index]
  BY ResponseConstants, ResponseFragments, CR!FragmentFacts
<1>2. ASSUME NEW m \in Response
      PROVE  /\ CR!TotalFragments(m) \in Nat \ {0}
             /\ ClientReceiver!FragmentsOf(m) \subseteq ResponseFragment
             /\ \A i \in 0 .. CR!TotalFragments(m) - 1 :
                  [msg |-> m, index |-> i] \in ResponseFragment
             /\ \A f \in ResponseFragment :
                  f \in ClientReceiver!FragmentsOf(m) <=> f.msg = m
  <2>1. CR!TotalFragments(m) \in Nat \ {0}
    BY ResponseConstants, CR!TotalPositive
  <2>2. ClientReceiver!TotalFragments(m) = CR!TotalFragments(m)
    BY DEF ClientReceiver!TotalFragments, CR!TotalFragments
  <2>3. ClientReceiver!FragmentsOf(m)
          = [msg : {m}, index : 0 .. CR!TotalFragments(m) - 1]
    BY <2>2 DEF ClientReceiver!FragmentsOf
  <2>4. ClientReceiver!FragmentsOf(m) \subseteq ResponseFragment
    BY DEF ResponseFragment, ClientReceiver!Fragment
  <2> QED
    BY <1>1, <2>1, <2>3, <2>4
<1>3. \A m, n \in Response :
        m.length = n.length => CR!TotalFragments(m) = CR!TotalFragments(n)
  BY DEF CR!TotalFragments
<1> QED
  BY <1>1, <1>2, <1>3

-----------------------------------------------------------------------------
(* Every step of the exchange is a step of each half, or leaves it alone *)

\* A request that is executed once more still has attempts left for it.
LEMMA ExecutionBound ==
  ASSUME SR!SessionInv, NEW f \in RequestFragment,
         ServerReceiver!CompleteMessage(f)
  PROVE  /\ executions \in Nat /\ executions + 1 \in Execution
         /\ executions' = executions + 1
<1>1. SR!CompleteMessage(f)
  BY SameRequestSteps
<1>2. /\ server_handed \in [{Session} -> Nat]
      /\ server_arrived \in [RequestFragment -> Nat]
  BY RequestFragments DEF SR!SessionInv, SR!TypeOK
<1>3. executions <= server_arrived[f]
  BY <1>2, RequestFragments, RequestFacts
     DEF SR!SessionInv, SR!CopiesCounted, SR!Held, executions
<1>4. server_arrived[f] < ClientRetries
  BY <1>1 DEF SR!CompleteMessage, SR!Arrive
<1>5. server_handed' = [server_handed EXCEPT ![Session] = @ + 1]
  BY <1>1, RequestFacts DEF SR!CompleteMessage
<1> QED
  BY <1>2, <1>3, <1>4, <1>5 DEF executions, Execution

LEMMA ServerReceives ==
  ASSUME NEW f \in RequestFragment, RequestArrives(f)
  PROVE  SR!Next
BY RequestFragments, SameRequestSteps DEF RequestArrives, SR!Next

LEMMA ClientReceives ==
  ASSUME NEW f \in ResponseFragment, ResponseArrives(f)
  PROVE  CR!Next
BY ResponseFragments, SameResponseSteps DEF ResponseArrives, CR!Next

LEMMA SameClientSends ==
  ASSUME NEW S, NEW f
  PROVE  /\ ClientSender!Submit(S) <=> CS!Submit(S)
         /\ ClientSender!Transmit(f) <=> CS!Transmit(f)
         /\ ClientSender!Acknowledge(S) <=> CS!Acknowledge(S)
         /\ ClientSender!GiveUp(S) <=> CS!GiveUp(S)
         /\ ClientSender!Waiting = CS!Waiting
BY DEF ClientSender!Submit, ClientSender!Transmit, ClientSender!Attempt,
       ClientSender!Acknowledge, ClientSender!GiveUp, ClientSender!Move,
       ClientSender!Waiting, CS!Submit, CS!Transmit, CS!Attempt,
       CS!Acknowledge, CS!GiveUp, CS!Move, CS!Waiting

LEMMA SameServerSends ==
  ASSUME NEW S, NEW f
  PROVE  /\ ServerSender!Submit(S) <=> SS!Submit(S)
         /\ ServerSender!Transmit(f) <=> SS!Transmit(f)
         /\ ServerSender!Acknowledge(S) <=> SS!Acknowledge(S)
         /\ ServerSender!GiveUp(S) <=> SS!GiveUp(S)
         /\ ServerSender!Waiting = SS!Waiting
BY DEF ServerSender!Submit, ServerSender!Transmit, ServerSender!Attempt,
       ServerSender!Acknowledge, ServerSender!GiveUp, ServerSender!Move,
       ServerSender!Waiting, SS!Submit, SS!Transmit, SS!Attempt,
       SS!Acknowledge, SS!GiveUp, SS!Move, SS!Waiting

LEMMA ClientSendsNext ==
  ASSUME SendRequest \/ ClientSends
           \/ \E f \in RequestFragment : AckReachesClient(f)
  PROVE  CS!Next
<1>1. CASE SendRequest
  BY <1>1, SameClientSends DEF SendRequest, CS!Next
<1>2. ASSUME NEW f \in RequestFragment,
             ClientSender!Transmit(f) \/ ClientSender!GiveUp({f})
      PROVE  CS!Next
  BY <1>2, SameClientSends DEF CS!Next
<1>3. ASSUME NEW f \in RequestFragment, AckReachesClient(f)
      PROVE  CS!Next
  <2>1. CS!Acknowledge(Matching(CS!Waiting, f.index))
    BY <1>3, SameClientSends DEF AckReachesClient
  <2>2. Matching(CS!Waiting, f.index) \subseteq RequestFragment
    BY DEF Matching, CS!Waiting
  <2> QED
    BY <2>1, <2>2 DEF CS!Next
<1> QED
  BY <1>1, <1>2, <1>3 DEF ClientSends

LEMMA AnswerNext ==
  ASSUME executions + 1 \in Execution, Answer
  PROVE  \E m \in Response :
           /\ m.execution = executions + 1
           /\ SS!Submit(ClientReceiver!FragmentsOf(m))
           /\ SS!Next
<1>1. PICK n \in ResponseLengths :
        ServerSender!Submit(
          ClientReceiver!FragmentsOf([execution |-> executions + 1, length |-> n]))
  BY DEF Answer
<1> DEFINE m == [execution |-> executions + 1, length |-> n]
<1>2. m \in Response /\ m.execution = executions + 1
  BY DEF Response
<1>3. SS!Submit(ClientReceiver!FragmentsOf(m))
  BY <1>1, SameServerSends
<1> HIDE DEF m
<1>4. SS!Next
  BY <1>2, <1>3, ResponseFacts DEF SS!Next
<1> QED
  BY <1>2, <1>3, <1>4

LEMMA ServerSendsNext ==
  ASSUME ServerSends
           \/ \E i \in Index(ResponseFragment) : AckReachesServer(i)
  PROVE  SS!Next \/ UNCHANGED serverSending
<1>1. ASSUME NEW f \in ResponseFragment,
             ServerSender!Transmit(f) \/ ServerSender!GiveUp({f})
      PROVE  SS!Next
  BY <1>1, SameServerSends DEF SS!Next
<1>2. ASSUME NEW i \in Index(ResponseFragment), AckReachesServer(i)
      PROVE  SS!Next \/ UNCHANGED serverSending
  <2>1. \/ UNCHANGED serverSending
        \/ SS!Acknowledge(Matching(SS!Waiting, i))
    BY <1>2, SameServerSends DEF AckReachesServer
  <2>2. Matching(SS!Waiting, i) \subseteq ResponseFragment
    BY DEF Matching, SS!Waiting
  <2> QED
    BY <2>1, <2>2 DEF SS!Next
<1> QED
  BY <1>1, <1>2 DEF ServerSends

\* The request of a client is executed when it is complete, and answered.
LEMMA RequestArrivesFacts ==
  ASSUME SR!SessionInv, NEW f \in RequestFragment, RequestArrives(f)
  PROVE  \/ SR!StoreFragment(f) /\ UNCHANGED <<serverSending, server_handed>>
         \/ /\ SR!CompleteMessage(f) /\ executions' = executions + 1
            /\ executions \in Nat /\ executions + 1 \in Execution
            /\ \E m \in Response :
                 /\ m.execution = executions + 1
                 /\ SS!Submit(ClientReceiver!FragmentsOf(m))
                 /\ SS!Next
<1>1. CASE ServerReceiver!StoreFragment(f) /\ UNCHANGED serverSending
  BY <1>1, SameRequestSteps DEF SR!StoreFragment
<1>2. CASE ServerReceiver!CompleteMessage(f) /\ Answer
  BY <1>2, SameRequestSteps, ExecutionBound, AnswerNext
<1> QED
  BY <1>1, <1>2 DEF RequestArrives

LEMMA HalfSteps ==
  ASSUME SR!SessionInv, [Next]_vars
  PROVE  /\ CS!Next \/ UNCHANGED clientSending
         /\ SS!Next \/ UNCHANGED serverSending
         /\ SR!Next \/ UNCHANGED serverReceiving
         /\ CR!Next \/ UNCHANGED clientReceiving
<1>1. ASSUME NEW f \in RequestFragment, RequestArrives(f)
      PROVE  /\ UNCHANGED <<clientSending, clientReceiving>>
             /\ SS!Next \/ UNCHANGED serverSending
             /\ SR!Next
  BY <1>1, RequestArrivesFacts, ServerReceives DEF RequestArrives
<1>2. ASSUME NEW f \in ResponseFragment, ResponseArrives(f)
      PROVE  /\ UNCHANGED <<clientSending, serverSending, serverReceiving>>
             /\ CR!Next
  BY <1>2, ClientReceives DEF ResponseArrives
<1>3. CASE SendRequest \/ ClientSends
             \/ \E f \in RequestFragment : AckReachesClient(f)
  <2>1. UNCHANGED <<serverSending, serverReceiving, clientReceiving>>
    BY <1>3 DEF SendRequest, ClientSends, AckReachesClient
  <2> QED
    BY <1>3, <2>1, ClientSendsNext
<1>4. CASE ServerSends \/ \E i \in Index(ResponseFragment) : AckReachesServer(i)
  <2>1. UNCHANGED <<clientSending, serverReceiving, clientReceiving>>
    BY <1>4 DEF ServerSends, AckReachesServer
  <2> QED
    BY <1>4, <2>1, ServerSendsNext
<1>5. CASE UNCHANGED vars
  BY <1>5 DEF vars
<1> QED
  BY <1>1, <1>2, <1>3, <1>4, <1>5 DEF Next

-----------------------------------------------------------------------------
(* Every step keeps the invariant *)

LEMMA HalvesNext ==
  ASSUME ExchangeInv, [Next]_vars
  PROVE  /\ CS!BoundedSends' /\ SS!BoundedSends'
         /\ SR!SessionInv' /\ SR!SharedInv' /\ CR!SharedInv'
<1>1. /\ [CS!Next]_(CS!vars) /\ [SS!Next]_(SS!vars)
      /\ [SR!Next]_(SR!vars) /\ [CR!Next]_(CR!vars)
  BY HalfSteps
     DEF ExchangeInv, CS!vars, SS!vars, SR!vars, CR!vars, clientSending,
         serverSending, serverReceiving, clientReceiving
<1>2. CS!BoundedSends' /\ SS!BoundedSends'
  BY <1>1, CS!BoundedNext, SS!BoundedNext DEF ExchangeInv
<1>3. SR!SessionInv' /\ SR!SharedInv'
  BY <1>1, RequestConstants, SR!SessionInvNext, SR!SharedNext DEF ExchangeInv
<1>4. CR!SharedInv'
  BY <1>1, ResponseConstants, CR!SharedNext DEF ExchangeInv
<1> QED
  BY <1>2, <1>3, <1>4

LEMMA TransmittedGrows ==
  ASSUME ExchangeInv, [Next]_vars
  PROVE  /\ \A f \in RequestFragment :
              /\ client_transmitted[f] <= client_transmitted'[f]
              /\ client_transmitted[f] \in Nat /\ client_transmitted'[f] \in Nat
         /\ \A f \in ResponseFragment :
              /\ server_transmitted[f] <= server_transmitted'[f]
              /\ server_transmitted[f] \in Nat /\ server_transmitted'[f] \in Nat
<1>1. [CS!Next]_(CS!vars) /\ [SS!Next]_(SS!vars)
  BY HalfSteps DEF ExchangeInv, CS!vars, SS!vars, clientSending, serverSending
<1>2. CS!BoundedSends' /\ SS!BoundedSends'
  BY HalvesNext
<1> QED
  BY <1>1, <1>2, CS!SendsGrow, SS!SendsGrow
     DEF ExchangeInv, CS!BoundedSends, SS!BoundedSends

LEMMA ArrivedWasSentNext ==
  ASSUME ExchangeInv, [Next]_vars
  PROVE  ArrivedWasSent'
<1>1. \A f \in RequestFragment : server_arrived'[f] <= client_transmitted'[f]
  <2>1. CASE server_arrived' = server_arrived
    BY <2>1, TransmittedGrows, RequestFragments
       DEF ExchangeInv, ArrivedWasSent, SR!SessionInv, SR!TypeOK
  <2>2. ASSUME NEW g \in RequestFragment, RequestArrives(g)
        PROVE  \A f \in RequestFragment :
                 server_arrived'[f] <= client_transmitted'[f]
    <3>1. /\ server_arrived[g] < client_transmitted[g]
          /\ client_transmitted' = client_transmitted
      BY <2>2 DEF RequestArrives, clientSending
    <3>2. SR!StoreFragment(g) \/ SR!CompleteMessage(g)
      BY <2>2, RequestArrivesFacts DEF ExchangeInv
    <3>3. /\ server_arrived'[g] = server_arrived[g] + 1 /\ server_arrived[g] \in Nat
          /\ \A f \in RequestFragment :
               f # g => server_arrived'[f] = server_arrived[f]
      BY <3>2, SR!StepFacts, RequestConstants, RequestFragments
         DEF ExchangeInv, SR!SessionInv
    <3> QED
      BY <3>1, <3>3, TransmittedGrows DEF ExchangeInv, ArrivedWasSent
  <2> QED
    BY <2>1, <2>2
       DEF Next, vars, serverReceiving, SendRequest, ClientSends, ServerSends,
           AckReachesClient, AckReachesServer, ResponseArrives
<1>2. \A f \in ResponseFragment : client_arrived'[f] <= server_transmitted'[f]
  <2>1. CASE client_arrived' = client_arrived
    BY <2>1, TransmittedGrows, ResponseFragments
       DEF ExchangeInv, ArrivedWasSent, CR!SharedInv, CR!TypeOK
  <2>2. ASSUME NEW g \in ResponseFragment, ResponseArrives(g)
        PROVE  \A f \in ResponseFragment :
                 client_arrived'[f] <= server_transmitted'[f]
    <3>1. /\ client_arrived[g] < server_transmitted[g]
          /\ server_transmitted' = server_transmitted
      BY <2>2 DEF ResponseArrives, serverSending
    <3>2. CR!RejectFragment(g) \/ CR!StoreFragment(g) \/ CR!CompleteMessage(g)
      BY <2>2, SameResponseSteps DEF ResponseArrives
    <3>3. /\ client_arrived'[g] = client_arrived[g] + 1 /\ client_arrived[g] \in Nat
          /\ \A f \in ResponseFragment :
               f # g => client_arrived'[f] = client_arrived[f]
      BY <3>2, CR!StepFacts, ResponseConstants, ResponseFragments
         DEF ExchangeInv, CR!SharedInv
    <3> QED
      BY <3>1, <3>3, TransmittedGrows DEF ExchangeInv, ArrivedWasSent
  <2> QED
    BY <2>1, <2>2
       DEF Next, vars, clientReceiving, SendRequest, ClientSends, ServerSends,
           AckReachesClient, AckReachesServer, RequestArrives
<1> QED
  BY <1>1, <1>2 DEF ArrivedWasSent

\* How the stages of the request move.
LEMMA RequestStages ==
  ASSUME ExchangeInv, [Next]_vars
  PROVE  \/ /\ SendRequest
            /\ \A f \in RequestFragment :
                 client_stage[f] = "new" /\ client_stage'[f] = "waiting"
         \/ /\ ~ SendRequest
            /\ \A f \in RequestFragment :
                 /\ client_stage'[f] = "new" <=> client_stage[f] = "new"
                 /\ client_stage'[f] = "acked" =>
                      client_stage[f] = "acked" \/ f \in server_acked
<1>0. CS!BoundedSends
  BY DEF ExchangeInv
<1>1. CASE SendRequest
  <2>1. CS!Submit(RequestFragment)
    BY <1>1, SameClientSends DEF SendRequest
  <2>2. \A f \in RequestFragment :
          client_stage[f] = "new" /\ client_stage'[f] = "waiting"
    BY <1>0, <2>1, CS!SubmitStarts
  <2> QED
    BY <1>1, <2>2
<1>2. CASE ~ SendRequest /\ client_stage' = client_stage
  BY <1>2
<1>3. ASSUME NEW g \in RequestFragment,
             ClientSender!Transmit(g) \/ ClientSender!GiveUp({g})
      PROVE  \A f \in RequestFragment :
               /\ client_stage'[f] = "new" <=> client_stage[f] = "new"
               /\ client_stage'[f] = "acked" => client_stage[f] = "acked"
  <2>1. CS!Transmit(g) \/ CS!GiveUp({g})
    BY <1>3, SameClientSends
  <2>2. {g} \in SUBSET RequestFragment
    OBVIOUS
  <2> QED
    BY <1>0, <2>1, <2>2, CS!OnlySubmitStarts, CS!OnlyAcksSettle
<1>4. ASSUME NEW g \in RequestFragment, AckReachesClient(g)
      PROVE  \A f \in RequestFragment :
               /\ client_stage'[f] = "new" <=> client_stage[f] = "new"
               /\ client_stage'[f] = "acked" =>
                    client_stage[f] = "acked" \/ f \in server_acked
  <2> DEFINE S == Matching(CS!Waiting, g.index)
  <2>1. CS!Acknowledge(S) /\ g \in server_acked
    BY <1>4, SameClientSends DEF AckReachesClient
  <2>2. S \in SUBSET RequestFragment /\ \A f \in S : f = g
    BY RequestFacts DEF Matching, CS!Waiting
  <2> HIDE DEF S
  <2>3. \A f \in RequestFragment :
          client_stage'[f] = IF f \in S THEN "acked" ELSE client_stage[f]
    <3>1. client_stage' = CS!Move(S, "acked")
      BY <2>1 DEF CS!Acknowledge
    <3> QED
      BY <1>0, <3>1, CS!MoveType DEF CS!Stage
  <2>4. \A f \in RequestFragment :
          client_stage'[f] = "new" <=> client_stage[f] = "new"
    BY <1>0, <2>1, <2>2, CS!OnlySubmitStarts
  <2> QED
    BY <2>1, <2>2, <2>3, <2>4
<1>5. CASE ~ SendRequest
  <2>1. CASE ClientSends
    BY <1>3, <1>5, <2>1 DEF ClientSends
  <2>2. CASE \E g \in RequestFragment : AckReachesClient(g)
    BY <1>4, <1>5, <2>2
  <2>3. CASE client_stage' = client_stage
    BY <1>2, <1>5, <2>3
  <2> QED
    BY <1>5, <2>1, <2>2, <2>3
       DEF Next, vars, clientSending, ServerSends, AckReachesServer,
           RequestArrives, ResponseArrives
<1> QED
  BY <1>1, <1>5

LEMMA RequestWholeNext ==
  ASSUME ExchangeInv, [Next]_vars
  PROVE  RequestWhole'
BY RequestStages DEF ExchangeInv, RequestWhole

\* How the stages of the responses move.
ExecutesAndAnswers(m) ==
  /\ executions \in Nat /\ executions + 1 \in Execution
  /\ executions' = executions + 1
  /\ m.execution = executions + 1
  /\ \A f \in ResponseFragment :
       IF f.msg = m
       THEN server_stage[f] = "new" /\ server_stage'[f] = "waiting"
       ELSE server_stage'[f] = server_stage[f]

LEMMA ResponseStages ==
  ASSUME ExchangeInv, [Next]_vars
  PROVE  \/ \E m \in Response : ExecutesAndAnswers(m)
         \/ /\ executions' = executions
            /\ \A f \in ResponseFragment :
                 /\ server_stage'[f] = "new" <=> server_stage[f] = "new"
                 /\ server_stage'[f] = "acked" =>
                      \/ server_stage[f] = "acked"
                      \/ \E g \in client_acked : g.index = f.index
<1>0. SS!BoundedSends
  BY DEF ExchangeInv
<1>1. CASE server_stage' = server_stage /\ executions' = executions
  BY <1>1
<1>2. ASSUME NEW g \in RequestFragment, RequestArrives(g),
             ~ UNCHANGED <<server_stage, executions>>
      PROVE  \E m \in Response : ExecutesAndAnswers(m)
  <2>1. /\ executions' = executions + 1
        /\ executions \in Nat /\ executions + 1 \in Execution
    BY <1>2, RequestArrivesFacts DEF ExchangeInv, serverSending, executions
  <2>2. PICK m \in Response :
          /\ m.execution = executions + 1
          /\ SS!Submit(ClientReceiver!FragmentsOf(m))
    BY <1>2, RequestArrivesFacts DEF ExchangeInv, serverSending, executions
  <2> DEFINE S == ClientReceiver!FragmentsOf(m)
  <2>3. S \in SUBSET ResponseFragment
        /\ \A f \in ResponseFragment : f \in S <=> f.msg = m
    BY ResponseFacts
  <2> HIDE DEF S
  <2>4. SS!Submit(S)
    BY <2>2 DEF S
  <2>5. \A f \in ResponseFragment :
          /\ f \in S => server_stage[f] = "new"
          /\ server_stage'[f] = IF f \in S THEN "waiting" ELSE server_stage[f]
    BY <1>0, <2>3, <2>4, SS!SubmitStarts
  <2> QED
    BY <2>1, <2>2, <2>3, <2>5 DEF ExecutesAndAnswers
<1>3. ASSUME NEW g \in ResponseFragment,
             ServerSender!Transmit(g) \/ ServerSender!GiveUp({g})
      PROVE  \A f \in ResponseFragment :
               /\ server_stage'[f] = "new" <=> server_stage[f] = "new"
               /\ server_stage'[f] = "acked" => server_stage[f] = "acked"
  <2>1. SS!Transmit(g) \/ SS!GiveUp({g})
    BY <1>3, SameServerSends
  <2>2. {g} \in SUBSET ResponseFragment
    OBVIOUS
  <2> QED
    BY <1>0, <2>1, <2>2, SS!OnlySubmitStarts, SS!OnlyAcksSettle
<1>4. ASSUME NEW i \in Index(ResponseFragment), AckReachesServer(i),
             server_stage' # server_stage
      PROVE  \A f \in ResponseFragment :
               /\ server_stage'[f] = "new" <=> server_stage[f] = "new"
               /\ server_stage'[f] = "acked" =>
                    \/ server_stage[f] = "acked"
                    \/ \E g \in client_acked : g.index = f.index
  <2> DEFINE S == Matching(SS!Waiting, i)
  <2>1. SS!Acknowledge(S) /\ acks[i] > 0
    BY <1>4, SameServerSends DEF AckReachesServer, serverSending
  <2>2. S \in SUBSET ResponseFragment /\ \A f \in S : f.index = i
    BY DEF Matching, SS!Waiting
  <2>3. \E g \in client_acked : g.index = i
    BY <2>1 DEF ExchangeInv, AcksAreMeant
  <2> HIDE DEF S
  <2>4. \A f \in ResponseFragment :
          server_stage'[f] = IF f \in S THEN "acked" ELSE server_stage[f]
    <3>1. server_stage' = SS!Move(S, "acked")
      BY <2>1 DEF SS!Acknowledge
    <3> QED
      BY <1>0, <3>1, SS!MoveType DEF SS!Stage
  <2>5. PICK g \in ResponseFragment : g.index = i
    BY DEF Index
  <2>6. \A f \in ResponseFragment :
          server_stage'[f] = "new" <=> server_stage[f] = "new"
    BY <1>0, <2>1, <2>2, <2>5, SS!OnlySubmitStarts
  <2> QED
    BY <2>2, <2>3, <2>4, <2>6
<1>5. CASE executions' = executions
  <2>1. CASE ServerSends
    BY <1>3, <1>5, <2>1 DEF ServerSends
  <2>2. CASE \E i \in Index(ResponseFragment) : AckReachesServer(i)
    BY <1>1, <1>4, <1>5, <2>2
  <2>3. CASE \E g \in RequestFragment : RequestArrives(g)
    BY <1>1, <1>2, <1>5, <2>3
  <2>4. CASE server_stage' = server_stage
    BY <1>1, <1>5, <2>4
  <2> QED
    BY <2>1, <2>2, <2>3, <2>4
       DEF Next, vars, serverSending, SendRequest, ClientSends,
           AckReachesClient, ResponseArrives
<1>6. CASE executions' # executions
  BY <1>2, <1>6
     DEF Next, vars, serverReceiving, executions, SendRequest, ClientSends,
         ServerSends, AckReachesClient, AckReachesServer, ResponseArrives
<1> QED
  BY <1>5, <1>6

LEMMA OnePerExecutionNext ==
  ASSUME ExchangeInv, [Next]_vars
  PROVE  OnePerExecution'
<1>0. OnePerExecution /\ executions \in Nat
  BY DEF ExchangeInv, SR!SessionInv, SR!TypeOK, executions
<1>1. ASSUME NEW m \in Response, ExecutesAndAnswers(m)
      PROVE  OnePerExecution'
  <2>1. /\ executions \in Nat /\ executions' = executions + 1
        /\ m.execution = executions + 1
        /\ \A f \in ResponseFragment :
             /\ f.msg \in Response /\ f.msg.execution \in Nat
             /\ f.msg = m => /\ server_stage[f] = "new"
                             /\ server_stage'[f] = "waiting"
             /\ f.msg # m => server_stage'[f] = server_stage[f]
    BY <1>1, ResponseFacts DEF ExecutesAndAnswers, Response, Execution
  <2>2. \A f \in ResponseFragment :
          server_stage'[f] # "new" => f.msg.execution <= executions'
    BY <1>0, <2>1 DEF OnePerExecution
  <2>3. ASSUME NEW e \in 1 .. executions'
        PROVE  \E n \in Response :
                 /\ n.execution = e
                 /\ \A f \in ResponseFragment :
                      f.msg = n => server_stage'[f] # "new"
                 /\ \A f \in ResponseFragment :
                      server_stage'[f] # "new" /\ f.msg.execution = e => f.msg = n
    <3>1. CASE e = executions + 1
      <4>1. \A f \in ResponseFragment : f.msg = m => server_stage'[f] # "new"
        BY <2>1
      <4>2. ASSUME NEW f \in ResponseFragment,
                   server_stage'[f] # "new", f.msg.execution = e, f.msg # m
            PROVE  FALSE
        BY <1>0, <2>1, <3>1, <4>2 DEF OnePerExecution
      <4> QED
        BY <2>1, <3>1, <4>1, <4>2
    <3>2. CASE e # executions + 1
      <4>1. e \in 1 .. executions
        BY <2>1, <3>2
      <4>2. PICK n \in Response :
              /\ n.execution = e
              /\ \A f \in ResponseFragment : f.msg = n => server_stage[f] # "new"
              /\ \A f \in ResponseFragment :
                   server_stage[f] # "new" /\ f.msg.execution = e => f.msg = n
        BY <1>0, <4>1 DEF OnePerExecution
      <4>3. n # m
        BY <2>1, <3>2, <4>2
      <4>4. \A f \in ResponseFragment : f.msg = n => server_stage'[f] # "new"
        BY <2>1, <4>2, <4>3
      <4>5. \A f \in ResponseFragment :
              server_stage'[f] # "new" /\ f.msg.execution = e => f.msg = n
        BY <2>1, <3>2, <4>2
      <4> QED
        BY <4>2, <4>4, <4>5
    <3> QED
      BY <3>1, <3>2
  <2> QED
    BY <2>2, <2>3 DEF OnePerExecution, executions
<1>2. CASE /\ executions' = executions
           /\ \A f \in ResponseFragment :
                server_stage'[f] = "new" <=> server_stage[f] = "new"
  BY <1>0, <1>2 DEF OnePerExecution, executions
<1> QED
  BY <1>1, <1>2, ResponseStages

LEMMA AckedGrows ==
  ASSUME ExchangeInv, [Next]_vars
  PROVE  server_acked \subseteq server_acked' /\ client_acked \subseteq client_acked'
<1>1. SR!Next => server_acked \subseteq server_acked'
  BY DEF SR!Next, SR!RejectFragment, SR!StoreFragment, SR!CompleteMessage
<1>2. CR!Next => client_acked \subseteq client_acked'
  BY DEF CR!Next, CR!RejectFragment, CR!StoreFragment, CR!CompleteMessage
<1> QED
  BY <1>1, <1>2, HalfSteps DEF ExchangeInv, serverReceiving, clientReceiving

LEMMA AcksAreMeantNext ==
  ASSUME ExchangeInv, [Next]_vars
  PROVE  AcksAreMeant'
<1>0. AcksAreMeant
  BY DEF ExchangeInv
<1>1. \A f \in RequestFragment : client_stage'[f] = "acked" => f \in server_acked'
  <2>1. \A f \in RequestFragment :
          client_stage'[f] = "acked" =>
            client_stage[f] = "acked" \/ f \in server_acked
    BY RequestStages
  <2> QED
    BY <1>0, <2>1, AckedGrows DEF AcksAreMeant
<1>2. \A f \in ResponseFragment : server_stage'[f] = "acked" =>
        \E g \in client_acked' : g.index = f.index
  <2>1. \A f \in ResponseFragment : server_stage'[f] = "acked" =>
          \/ server_stage[f] = "acked"
          \/ \E g \in client_acked : g.index = f.index
    BY ResponseStages DEF ExecutesAndAnswers
  <2> QED
    BY <1>0, <2>1, AckedGrows DEF AcksAreMeant
<1>3. /\ acks' \in [Index(ResponseFragment) -> Nat]
      /\ \A i \in Index(ResponseFragment) : acks'[i] > 0 =>
           \E g \in client_acked' : g.index = i
  <2>1. CASE acks' = acks
    BY <1>0, <2>1, AckedGrows DEF AcksAreMeant
  <2>2. ASSUME NEW f \in ResponseFragment, ResponseArrives(f), acks' # acks
        PROVE  /\ acks' \in [Index(ResponseFragment) -> Nat]
               /\ \A i \in Index(ResponseFragment) : acks'[i] > 0 =>
                    \E g \in client_acked' : g.index = i
    <3>1. /\ acks' = [acks EXCEPT ![f.index] = @ + 1]
          /\ CR!StoreFragment(f) \/ CR!CompleteMessage(f)
      BY <2>2, SameResponseSteps DEF ResponseArrives
    <3>2. f \in client_acked' /\ f.index \in Index(ResponseFragment)
      BY <3>1 DEF CR!StoreFragment, CR!CompleteMessage, Index
    <3> QED
      BY <1>0, <3>1, <3>2, AckedGrows DEF AcksAreMeant
  <2>3. ASSUME NEW j \in Index(ResponseFragment), AckReachesServer(j)
        PROVE  /\ acks' \in [Index(ResponseFragment) -> Nat]
               /\ \A i \in Index(ResponseFragment) : acks'[i] > 0 =>
                    \E g \in client_acked' : g.index = i
    <3>1. acks' = [acks EXCEPT ![j] = @ - 1] /\ acks[j] > 0
      BY <2>3 DEF AckReachesServer
    <3> QED
      BY <1>0, <3>1, AckedGrows DEF AcksAreMeant
  <2> QED
    BY <2>1, <2>2, <2>3
       DEF Next, vars, SendRequest, ClientSends, ServerSends, AckReachesClient,
           RequestArrives
<1> QED
  BY <1>1, <1>2, <1>3 DEF AcksAreMeant

LEMMA ExchangeInit ==
  ASSUME Init
  PROVE  ExchangeInv
<1>1. CS!BoundedSends /\ SS!BoundedSends
  <2>1. CS!Init /\ SS!Init
    BY DEF Init, ClientSender!Init, ServerSender!Init, CS!Init, SS!Init
  <2> QED
    BY <2>1, CS!BoundedInit, SS!BoundedInit
<1>2. SR!SessionInv /\ SR!SharedInv
  <2>1. SR!Init
    BY RequestFragments DEF Init, ServerReceiver!Init, SR!Init, RequestFragment
  <2> QED
    BY <2>1, RequestConstants, SR!SessionInvInit, SR!SharedInit
<1>3. CR!SharedInv
  <2>1. CR!Init
    BY ResponseFragments DEF Init, ClientReceiver!Init, CR!Init, ResponseFragment
  <2> QED
    BY <2>1, ResponseConstants, CR!SharedInit
<1>4. /\ client_stage = [f \in RequestFragment |-> "new"]
      /\ server_stage = [f \in ResponseFragment |-> "new"]
      /\ client_transmitted = [f \in RequestFragment |-> 0]
      /\ server_transmitted = [f \in ResponseFragment |-> 0]
      /\ server_arrived = [f \in RequestFragment |-> 0]
      /\ client_arrived = [f \in ResponseFragment |-> 0]
      /\ executions = 0
      /\ acks = [i \in Index(ResponseFragment) |-> 0]
  BY DEF Init, ClientSender!Init, ServerSender!Init, ServerReceiver!Init,
         ClientReceiver!Init, RequestFragment, ResponseFragment, executions
<1>5. ArrivedWasSent /\ RequestWhole /\ OnePerExecution /\ AcksAreMeant
  BY <1>4 DEF ArrivedWasSent, RequestWhole, OnePerExecution, AcksAreMeant
<1> QED
  BY <1>1, <1>2, <1>3, <1>5 DEF ExchangeInv

LEMMA ExchangeNext ==
  ASSUME ExchangeInv, [Next]_vars
  PROVE  ExchangeInv'
<1>1. ArrivedWasSent' /\ RequestWhole' /\ OnePerExecution' /\ AcksAreMeant'
  BY ArrivedWasSentNext, RequestWholeNext, OnePerExecutionNext, AcksAreMeantNext
<1> QED
  BY <1>1, HalvesNext DEF ExchangeInv

LEMMA ExchangeInvariant == Spec => []ExchangeInv
<1>1. Init => ExchangeInv
  BY ExchangeInit
<1>2. ExchangeInv /\ [Next]_vars => ExchangeInv'
  BY ExchangeNext
<1> QED
  BY <1>1, <1>2, PTL DEF Spec

-----------------------------------------------------------------------------
(* Acknowledged responses were handed over *)

\* What reached the client answers an execution that took place.
LEMMA ArrivedWasSubmitted ==
  ASSUME ExchangeInv, NEW f \in ResponseFragment, client_arrived[f] > 0
  PROVE  /\ server_stage[f] # "new"
         /\ f.msg \in Submitted
         /\ f.msg.execution \in 1 .. executions
<1>1. client_arrived[f] \in Nat /\ client_arrived[f] <= server_transmitted[f]
  BY ResponseFragments DEF ExchangeInv, ArrivedWasSent, CR!SharedInv, CR!TypeOK
<1>2. /\ server_transmitted[f] \in Nat /\ server_attempts[f] \in Nat
      /\ server_transmitted[f] <= server_attempts[f]
      /\ server_stage[f] = "new" => server_attempts[f] = 0
  BY DEF ExchangeInv, SS!BoundedSends
<1>3. server_stage[f] # "new"
  BY <1>1, <1>2
<1>4. f.msg.execution \in Nat \ {0} /\ executions \in Nat
  BY ResponseFacts
     DEF ExchangeInv, SR!SessionInv, SR!TypeOK, executions, Response, Execution
<1> QED
  BY <1>3, <1>4 DEF ExchangeInv, OnePerExecution, Submitted

LEMMA SubmittedFacts ==
  /\ Submitted \subseteq Response
  /\ \A f \in ResponseFragment : server_stage[f] # "new" => f.msg \in Submitted
BY ResponseFacts DEF Submitted

\* Although one Ack settles the fragments of all responses with its index, and
\* their fragments meet in one constructor, equally long ones are answered.
LEMMA AlikeIsAnswered ==
  ASSUME ExchangeInv, AllAcked, \A m, n \in Submitted : m.length = n.length
  PROVE  client_handed[Session] > 0
<1>1. executions \in Nat /\ executions > 0
  BY DEF AllAcked, ExchangeInv, SR!SessionInv, SR!TypeOK, executions
<1>2. PICK m \in Response :
        \A f \in ResponseFragment : f.msg = m => server_stage[f] # "new"
  BY <1>1 DEF ExchangeInv, OnePerExecution
<1>3. m \in Submitted
  <2>1. [msg |-> m, index |-> 0] \in ResponseFragment
    BY ResponseFacts
  <2> QED
    BY <1>2, <2>1, SubmittedFacts
<1>4. ASSUME NEW f \in ResponseFragment, client_arrived[f] > 0
      PROVE  CR!TotalFragments(f.msg) = CR!TotalFragments(m)
  BY <1>3, <1>4, ArrivedWasSubmitted, SubmittedFacts, ResponseFacts
<1>5. CR!Alike(Session)
  BY <1>4, ResponseFragments DEF CR!Alike, CR!Came
<1>6. ASSUME NEW i \in 0 .. CR!TotalFragments(m) - 1
      PROVE  \E g \in client_acked : /\ g.index = i
                                     /\ CR!TotalFragments(g.msg) = CR!TotalFragments(m)
                                     /\ g.msg \in Response
  <2> DEFINE f == [msg |-> m, index |-> i]
  <2>1. f \in ResponseFragment /\ f.index = i /\ f.msg = m
    BY ResponseFacts
  <2> HIDE DEF f
  <2>2. server_stage[f] = "acked"
    BY <1>2, <2>1 DEF AllAcked
  <2>3. PICK g \in client_acked : g.index = i
    BY <2>1, <2>2 DEF ExchangeInv, AcksAreMeant
  <2>4. g \in ResponseFragment /\ client_arrived[g] > 0
    BY <2>3, ResponseFragments DEF ExchangeInv, CR!SharedInv, CR!TypeOK, CR!Originates
  <2> QED
    BY <1>4, <2>3, <2>4, ResponseFacts
<1>7. /\ CR!TypeOK /\ CR!ScansOK /\ CR!Originates /\ CR!AckedIsHeld
      /\ CR!ConstantsAssumption
  BY ResponseConstants DEF ExchangeInv, CR!SharedInv
<1> DEFINE SO == [n \in Response |-> Session]
<1>8. SO[m] = Session /\ \A n \in Response : SO[n] = Session
  OBVIOUS
<1>9. \A i \in 0 .. CR!TotalFragments(m) - 1 :
        \E g \in client_acked :
          /\ SO[g.msg] = SO[m] /\ g.index = i
          /\ CR!TotalFragments(g.msg) = CR!TotalFragments(m)
  BY <1>6, <1>8
<1>10. CR!Alike(SO[m])
  BY <1>5, <1>8
<1>11. client_handed[SO[m]] > 0
  BY <1>7, <1>9, <1>10, CR!AlikeIsHanded
<1> QED
  BY <1>8, <1>11

\* A response that was settled reached the client, whatever was lost, late or
\* repeated, if the repeated executions were answered at equal length.
THEOREM SettledIsAnswered == Spec => []AnsweredIfAlike
<1>1. ExchangeInv => AnsweredIfAlike
  BY AlikeIsAnswered DEF AnsweredIfAlike
<1> QED
  BY <1>1, ExchangeInvariant, PTL

-----------------------------------------------------------------------------
(* The two hosts are a channel *)

\* What the stages say of the request as a whole.
StatusMeans ==
  /\ (\E f \in RequestFragment : client_stage[f] = "given_up") =>
       Status = "abandoned"
  /\ ((\E f \in RequestFragment : client_stage[f] = "waiting")
      /\ \A f \in RequestFragment : client_stage[f] # "given_up") =>
       Status = "open"
  /\ (\A f \in RequestFragment : client_stage[f] = "acked") =>
       Status = "confirmed"
  /\ (\A f \in RequestFragment : client_stage[f] = "new") => Status = "idle"

LEMMA StatusFacts == ExchangeInv => StatusMeans
<1> SUFFICES ASSUME ExchangeInv PROVE StatusMeans
  OBVIOUS
<1>1. RequestFragment # {}
  BY RequestFacts
<1>2. ASSUME \E f \in RequestFragment : client_stage[f] = "given_up"
      PROVE  Status = "abandoned"
  <2>1. /\ "given_up" \in Stages
        /\ Stages # {"acked"} /\ Stages # {"new"}
    BY <1>2 DEF Stages
  <2> QED
    BY <2>1 DEF Status
<1>3. ASSUME \E f \in RequestFragment : client_stage[f] = "waiting",
             \A f \in RequestFragment : client_stage[f] # "given_up"
      PROVE  Status = "open"
  <2>1. /\ "given_up" \notin Stages /\ "waiting" \in Stages
        /\ Stages # {"acked"} /\ Stages # {"new"}
    BY <1>3 DEF Stages
  <2> QED
    BY <2>1 DEF Status
<1>4. ASSUME \A f \in RequestFragment : client_stage[f] = "acked"
      PROVE  Status = "confirmed"
  <2>1. Stages = {"acked"}
    BY <1>1, <1>4 DEF Stages
  <2>2. "given_up" \notin Stages /\ "waiting" \notin Stages /\ Stages # {"new"}
    BY <2>1
  <2> QED
    BY <2>1, <2>2 DEF Status
<1>5. ASSUME \A f \in RequestFragment : client_stage[f] = "new"
      PROVE  Status = "idle"
  <2>1. Stages = {"new"}
    BY <1>1, <1>5 DEF Stages
  <2>2. "given_up" \notin Stages /\ "waiting" \notin Stages /\ Stages # {"acked"}
    BY <2>1
  <2> QED
    BY <2>1, <2>2 DEF Status
<1> QED
  BY <1>2, <1>3, <1>4, <1>5 DEF StatusMeans

LEMMA CountTo ==
  ASSUME NEW n \in Nat
  PROVE  IsFiniteSet(1 .. n) /\ Cardinality(1 .. n) = n
<1>1. /\ IsFiniteSet(1 .. n)
      /\ Cardinality(1 .. n) = IF 1 > n THEN 0 ELSE n - 1 + 1
  BY FS_Interval
<1> QED
  BY <1>1

\* A buffer at the client was opened by the first fragment of a response: no
\* more of them than attempts of the server for all executions.
RepliesLimited ==
  /\ client_handed[Session] \in Nat /\ executions \in Nat
  /\ client_handed[Session] <= ServerRetries * executions

LEMMA RepliesBounded == ExchangeInv => RepliesLimited
<1> SUFFICES ASSUME ExchangeInv PROVE RepliesLimited
  OBVIOUS
<1> DEFINE C == CR!FirstCopies(Session)
           E == 1 .. executions
           R == 1 .. ServerRetries
<1>1. client_handed[Session] \in Nat /\ executions \in Nat
  BY DEF ExchangeInv, CR!SharedInv, CR!TypeOK, SR!SessionInv, SR!TypeOK, executions
<1>2. /\ IsFiniteSet(C)
      /\ client_handed[Session] + (IF CR!FirstHeld(Session) THEN 1 ELSE 0)
           <= Cardinality(C)
  <2>1. /\ CR!IsFiniteSet(C)
        /\ client_handed[Session] + (IF CR!FirstHeld(Session) THEN 1 ELSE 0)
             <= CR!Cardinality(C)
    BY DEF ExchangeInv, CR!SharedInv, CR!FirstCounted
  <2>2. CR!IsFiniteSet(C) = IsFiniteSet(C)
    BY DEF CR!IsFiniteSet, IsFiniteSet
  <2>3. CR!Cardinality(C) = Cardinality(C)
    BY DEF CR!Cardinality, Cardinality, CR!IsFiniteSet, IsFiniteSet
  <2> QED
    BY <2>1, <2>2, <2>3
<1>3. ASSUME NEW x \in C
      PROVE  /\ x[1] \in ResponseFragment /\ x[1].index = 0
             /\ x[1].msg.execution \in E
             /\ server_stage[x[1]] # "new"
             /\ x[2] \in R
             /\ x = <<x[1], x[2]>>
  <2>1. /\ x \in ResponseFragment \X Nat /\ x[1].index = 0
        /\ 0 < x[2] /\ x[2] <= client_arrived[x[1]]
    BY <1>3, ResponseFragments DEF CR!FirstCopies
  <2>2. client_arrived[x[1]] \in Nat
    BY <2>1, ResponseFragments DEF ExchangeInv, CR!SharedInv, CR!TypeOK
  <2>3. client_arrived[x[1]] <= ServerRetries
    BY <2>1, <2>2 DEF ExchangeInv, ArrivedWasSent, SS!BoundedSends
  <2>4. x[2] \in R /\ client_arrived[x[1]] > 0
    BY <2>1, <2>2, <2>3
  <2> QED
    BY <2>1, <2>4, ArrivedWasSubmitted
<1> DEFINE inj == [x \in C |-> <<x[1].msg.execution, x[2]>>]
<1>4. inj \in [C -> E \X R]
  BY <1>3
<1>5. ASSUME NEW x \in C, NEW y \in C, inj[x] = inj[y]
      PROVE  x = y
  <2>1. x[1].msg.execution = y[1].msg.execution /\ x[2] = y[2]
    BY <1>5
  <2>2. PICK m \in Response :
          \A f \in ResponseFragment :
            server_stage[f] # "new" /\ f.msg.execution = x[1].msg.execution
              => f.msg = m
    BY <1>3 DEF ExchangeInv, OnePerExecution
  <2>3. x[1].msg = m /\ y[1].msg = m
    BY <1>3, <2>1, <2>2
  <2>4. x[1] = y[1]
    BY <1>3, <2>3, ResponseFacts
  <2> QED
    BY <1>3, <2>1, <2>4
<1>6. /\ IsFiniteSet(E) /\ Cardinality(E) = executions
      /\ IsFiniteSet(R) /\ Cardinality(R) = ServerRetries
  BY <1>1, CountTo
<1>7. /\ IsFiniteSet(E \X R)
      /\ Cardinality(E \X R) = executions * ServerRetries
  <2> HIDE DEF E, R
  <2> QED
    BY <1>6, FS_Product
<1>8. Cardinality(C) <= Cardinality(E \X R) /\ Cardinality(C) \in Nat
  <2>1. inj \in Injection(C, E \X R)
    BY <1>4, <1>5 DEF Injection, IsInjective
  <2> HIDE DEF C, E, R, inj
  <2> QED
    BY <1>2, <1>7, <2>1, FS_Injection, FS_CardinalityType
<1>9. executions * ServerRetries = ServerRetries * executions
        /\ executions * ServerRetries \in Nat
  BY <1>1
<1> HIDE DEF C, E, R
<1> QED
  BY <1>1, <1>2, <1>7, <1>8, <1>9 DEF RepliesLimited

\* What the channel sees of the exchange.
seen == <<Status, executions, client_handed[Session], client_buffers>>

LEMMA UnseenStutters ==
  ASSUME UNCHANGED seen
  PROVE  UNCHANGED Channel!vars
BY DEF seen, Channel!vars, executions

LEMMA StatusKept ==
  ASSUME UNCHANGED client_stage
  PROVE  UNCHANGED Status
BY DEF Status, Stages

LEMMA RequestMaps ==
  ASSUME ExchangeInv, ExchangeInv', SendRequest
  PROVE  Channel!Ask(Request)
<1>1. StatusMeans /\ StatusMeans'
  BY StatusFacts, PTL
<1>2. \A f \in RequestFragment :
        client_stage[f] = "new" /\ client_stage'[f] = "waiting"
  BY RequestStages DEF Next
<1>3. RequestFragment # {}
  BY RequestFacts
<1>4. Status = "idle" /\ Status' = "open"
  BY <1>1, <1>2, <1>3 DEF StatusMeans
<1>5. UNCHANGED <<server_handed, client_handed, client_buffers>>
  BY DEF SendRequest, serverReceiving, clientReceiving
<1> QED
  BY <1>4, <1>5 DEF Channel!Ask, executions

\* An attempt is not seen; giving up is, the first time.
LEMMA ClientSendsMaps ==
  ASSUME ExchangeInv, ExchangeInv', ClientSends
  PROVE  Channel!Abandon(Request) \/ UNCHANGED Channel!vars
<1>1. StatusMeans /\ StatusMeans'
  BY StatusFacts, PTL
<1>2. UNCHANGED <<executions, client_handed, client_buffers>>
  BY DEF ClientSends, serverReceiving, clientReceiving, executions
<1>3. CASE UNCHANGED client_stage
  BY <1>2, <1>3, StatusKept, UnseenStutters DEF seen
<1>4. ASSUME NEW f \in RequestFragment, ClientSender!GiveUp({f})
      PROVE  Channel!Abandon(Request) \/ UNCHANGED Channel!vars
  <2>1. client_stage[f] = "waiting" /\ client_stage'[f] = "given_up"
    BY <1>4 DEF ClientSender!GiveUp, ClientSender!Waiting, ClientSender!Move
  <2>2. Status' = "abandoned"
    BY <1>1, <2>1 DEF StatusMeans
  <2>3. CASE \E g \in RequestFragment : client_stage[g] = "given_up"
    <3>1. Status = "abandoned"
      BY <1>1, <2>3 DEF StatusMeans
    <3> QED
      BY <1>2, <2>2, <3>1, UnseenStutters DEF seen
  <2>4. CASE \A g \in RequestFragment : client_stage[g] # "given_up"
    <3>1. Status = "open"
      BY <1>1, <2>1, <2>4 DEF StatusMeans
    <3> QED
      BY <1>2, <2>2, <3>1 DEF Channel!Abandon, executions
  <2> QED
    BY <2>3, <2>4
<1>5. CASE \E f \in RequestFragment : ClientSender!Transmit(f)
  BY <1>3, <1>5 DEF ClientSender!Transmit, ClientSender!Attempt
<1> QED
  BY <1>4, <1>5 DEF ClientSends

\* Confirmed means executed: every fragment of the request arrived.
RequestSettled == \A f \in RequestFragment : client_stage[f] = "acked"

LEMMA AckedWasExecuted == ExchangeInv /\ RequestSettled => executions > 0
<1> SUFFICES ASSUME ExchangeInv, RequestSettled PROVE executions > 0
  OBVIOUS
<1>1. \A f \in RequestFragment : f \in server_acked
  BY DEF ExchangeInv, AcksAreMeant, RequestSettled
<1>2. \/ SR!HandedOver(Request)
      \/ /\ Session \in DOMAIN server_constructors
         /\ \A g \in RequestFragment :
              server_constructors[Session].fragments[g.index] = g
  BY <1>1, RequestFacts DEF ExchangeInv, SR!SessionInv, SR!AckedIsKept
<1>3. CASE SR!HandedOver(Request)
  BY <1>3 DEF SR!HandedOver, ExchangeInv, SR!SharedInv, SR!Originates, executions
<1>4. CASE /\ Session \in DOMAIN server_constructors
           /\ \A g \in RequestFragment :
                server_constructors[Session].fragments[g.index] = g
  <2> DEFINE c == server_constructors[Session]
             i == c.completed_up_to
             g == [msg |-> Request, index |-> i]
  <2>1. /\ c.fragments_len = SR!TotalFragments(Request)
        /\ i \in 0 .. c.fragments_len - 1 /\ c.fragments[i] = Empty
    BY <1>4, RequestFacts
       DEF ExchangeInv, SR!SessionInv, SR!ScansOK, SR!ScanOK, SR!Belongs,
           SR!BelongsTo
  <2>2. ServerReceiver!TotalFragments(Request) = SR!TotalFragments(Request)
    BY DEF ServerReceiver!TotalFragments, SR!TotalFragments
  <2>3. g \in RequestFragment /\ g.index = i /\ g # Empty
    BY <2>1, <2>2, RequestFacts DEF ServerReceiver!FragmentsOf
  <2> HIDE DEF g, i, c
  <2> QED
    BY <1>4, <2>1, <2>3 DEF c
<1> QED
  BY <1>2, <1>3, <1>4

LEMMA AckMaps ==
  ASSUME ExchangeInv, ExchangeInv', NEW f \in RequestFragment, AckReachesClient(f)
  PROVE  Channel!Confirm(Request) \/ UNCHANGED Channel!vars
<1>1. StatusMeans /\ StatusMeans'
  BY StatusFacts, PTL
<1>2. UNCHANGED <<executions, client_handed, client_buffers>>
  BY DEF AckReachesClient, serverReceiving, clientReceiving, executions
<1>3. PICK S \in SUBSET RequestFragment :
        /\ S # {} /\ \A g \in S : client_stage[g] = "waiting"
        /\ \A g \in RequestFragment :
             client_stage'[g] = IF g \in S THEN "acked" ELSE client_stage[g]
  <2>1. Matching(ClientSender!Waiting, f.index) \subseteq RequestFragment
    BY DEF Matching, ClientSender!Waiting
  <2> QED
    BY <2>1 DEF AckReachesClient, ClientSender!Acknowledge, ClientSender!Waiting,
                ClientSender!Move
<1>4. CASE \E g \in RequestFragment : client_stage[g] = "given_up"
  <2>1. \E g \in RequestFragment : client_stage'[g] = "given_up"
    BY <1>3, <1>4
  <2>2. Status = "abandoned" /\ Status' = "abandoned"
    BY <1>1, <1>4, <2>1 DEF StatusMeans
  <2> QED
    BY <1>2, <2>2, UnseenStutters DEF seen
<1>5. CASE \A g \in RequestFragment : client_stage[g] # "given_up"
  <2>1. Status = "open"
    BY <1>1, <1>3, <1>5 DEF StatusMeans
  <2>2. \A g \in RequestFragment : client_stage'[g] # "given_up"
    BY <1>3, <1>5
  <2>3. CASE \E g \in RequestFragment : client_stage'[g] = "waiting"
    <3>1. Status' = "open"
      BY <1>1, <2>2, <2>3 DEF StatusMeans
    <3> QED
      BY <1>2, <2>1, <3>1, UnseenStutters DEF seen
  <2>4. CASE \A g \in RequestFragment : client_stage'[g] # "waiting"
    <3>1. \A g \in RequestFragment : client_stage[g] # "new"
      BY <1>3 DEF ExchangeInv, RequestWhole
    <3>2. \A g \in RequestFragment : client_stage'[g] # "new"
      BY <1>3, <3>1
    <3>3. \A g \in RequestFragment : client_stage'[g] \in CS!Stage
      BY DEF ExchangeInv, CS!BoundedSends
    <3>4. \A g \in RequestFragment : client_stage'[g] = "acked"
      BY <2>2, <2>4, <3>2, <3>3 DEF CS!Stage
    <3>5. Status' = "confirmed"
      BY <1>1, <3>4 DEF StatusMeans
    <3>6. executions' > 0
      <4>1. RequestSettled'
        BY <3>4 DEF RequestSettled
      <4>2. (executions > 0)'
        BY <4>1, AckedWasExecuted, PTL
      <4> QED
        BY <4>2
    <3> QED
      BY <1>2, <2>1, <3>5, <3>6 DEF Channel!Confirm, executions
  <2> QED
    BY <2>3, <2>4
<1> QED
  BY <1>4, <1>5

LEMMA RequestArrivesMaps ==
  ASSUME ExchangeInv, NEW f \in RequestFragment, RequestArrives(f)
  PROVE  Channel!Execute(Request) \/ UNCHANGED Channel!vars
<1>1. UNCHANGED <<client_stage, client_handed, client_buffers>>
  BY DEF RequestArrives, clientSending, clientReceiving
<1>2. UNCHANGED Status
  BY <1>1, StatusKept
<1>3. CASE SR!StoreFragment(f) /\ UNCHANGED server_handed
  BY <1>1, <1>2, <1>3, UnseenStutters DEF seen, executions
<1>4. CASE /\ executions' = executions + 1
           /\ executions \in Nat /\ executions + 1 \in Execution
  <2>1. Status # "idle"
    <3>1. client_stage[f] # "new"
      <4>1. /\ server_arrived[f] \in Nat
            /\ server_arrived[f] < client_transmitted[f]
        BY RequestFragments DEF RequestArrives, ExchangeInv, SR!SessionInv, SR!TypeOK
      <4>2. /\ client_transmitted[f] \in Nat /\ client_attempts[f] \in Nat
            /\ client_transmitted[f] <= client_attempts[f]
            /\ client_stage[f] = "new" => client_attempts[f] = 0
        BY DEF ExchangeInv, CS!BoundedSends
      <4> QED
        BY <4>1, <4>2
    <3>2. \A g \in RequestFragment : client_stage[g] # "new"
      BY <3>1 DEF ExchangeInv, RequestWhole
    <3>3. \A g \in RequestFragment : client_stage[g] \in {"waiting", "acked", "given_up"}
      BY <3>2 DEF ExchangeInv, CS!BoundedSends, CS!Stage
    <3>4. StatusMeans
      BY StatusFacts
    <3> QED
      BY <3>3, <3>4 DEF StatusMeans
  <2>2. executions < ClientRetries
    BY <1>4 DEF Execution
  <2> QED
    BY <1>1, <1>2, <1>4, <2>1, <2>2 DEF Channel!Execute, executions
<1> QED
  BY <1>3, <1>4, RequestArrivesFacts DEF ExchangeInv

\* Every reply was made of answers to executions that took place.
RepliesAreAnswers ==
  \A b \in client_buffers :
    /\ Sources(b) # {}
    /\ Sources(b) \subseteq 1 .. executions
    /\ Sources(b) \subseteq 1 .. ClientRetries

LEMMA RepliesFacts == ExchangeInv => RepliesAreAnswers
<1> SUFFICES ASSUME ExchangeInv, NEW b \in client_buffers
             PROVE  /\ Sources(b) # {}
                    /\ Sources(b) \subseteq 1 .. executions
                    /\ Sources(b) \subseteq 1 .. ClientRetries
  BY DEF RepliesAreAnswers
<1>1. /\ 0 \in DOMAIN b.parts
      /\ \A i \in DOMAIN b.parts :
           b.parts[i] \in ResponseFragment /\ client_arrived[b.parts[i]] > 0
  BY ResponseFragments DEF ExchangeInv, CR!SharedInv, CR!Originates, CR!Came
<1>2. \A i \in DOMAIN b.parts :
        /\ b.parts[i] # Empty
        /\ b.parts[i].msg.execution \in 1 .. executions
        /\ b.parts[i].msg.execution \in 1 .. ClientRetries
  BY <1>1, ArrivedWasSubmitted, ResponseFacts DEF Response, Execution
<1> QED
  BY <1>1, <1>2 DEF Sources

LEMMA ResponseArrivesMaps ==
  ASSUME ExchangeInv, ExchangeInv', NEW f \in ResponseFragment, ResponseArrives(f)
  PROVE  \/ \E from \in SUBSET (1 .. ClientRetries) : Channel!Reply(Request, from)
         \/ UNCHANGED Channel!vars
<1>1. UNCHANGED <<client_stage, executions>>
  BY DEF ResponseArrives, clientSending, serverReceiving, executions
<1>2. UNCHANGED Status
  BY <1>1, StatusKept
<1>3. CASE CR!StoreFragment(f) \/ CR!RejectFragment(f)
  BY <1>1, <1>2, <1>3, UnseenStutters
     DEF CR!StoreFragment, CR!RejectFragment, seen
<1>4. CASE CR!CompleteMessage(f)
  <2>1. PICK b : client_buffers' = client_buffers \cup {b}
    BY <1>4 DEF CR!CompleteMessage
  <2>2. client_handed'[Session] = client_handed[Session] + 1
    BY <1>4, ResponseFacts DEF CR!CompleteMessage, ExchangeInv, CR!SharedInv, CR!TypeOK
  <2>3. RepliesAreAnswers' /\ RepliesLimited' /\ RepliesLimited
    BY RepliesFacts, RepliesBounded, PTL
  <2>4. /\ Sources(b) # {} /\ Sources(b) \subseteq 1 .. executions
        /\ Sources(b) \subseteq 1 .. ClientRetries
    BY <1>1, <2>1, <2>3 DEF RepliesAreAnswers
  <2>5. client_handed[Session] < ServerRetries * executions
    BY <1>1, <2>2, <2>3 DEF RepliesLimited
  <2>6. {Sources(d) : d \in client_buffers'}
          = {Sources(d) : d \in client_buffers} \cup {Sources(b)}
    BY <2>1
  <2>7. Channel!Reply(Request, Sources(b))
    BY <1>1, <1>2, <2>2, <2>4, <2>5, <2>6 DEF Channel!Reply, executions
  <2> QED
    BY <2>4, <2>7
<1>5. CR!StoreFragment(f) \/ CR!RejectFragment(f) \/ CR!CompleteMessage(f)
  BY SameResponseSteps DEF ResponseArrives
<1> QED
  BY <1>3, <1>4, <1>5

\* Lost, late, repeated and mixed packets do not show: the exchange is a
\* channel on which a request is executed a bounded number of times, surely
\* once if it was acknowledged, and replies follow executions.
THEOREM ExchangeImplementsChannel == Spec => ChannelSpec
<1>1. Init => Channel!Init
  <2> SUFFICES ASSUME Init PROVE Channel!Init
    OBVIOUS
  <2>1. Status = "idle"
    <3>1. \A f \in RequestFragment : client_stage[f] = "new"
      BY DEF Init, ClientSender!Init
    <3> QED
      BY <3>1, ExchangeInit, StatusFacts DEF StatusMeans
  <2>2. executions = 0 /\ client_handed[Session] = 0 /\ client_buffers = {}
    BY DEF Init, ServerReceiver!Init, ClientReceiver!Init, executions
  <2> QED
    BY <2>1, <2>2 DEF Channel!Init, executions
<1>2. ExchangeInv /\ ExchangeInv' /\ [Next]_vars => [Channel!Next]_(Channel!vars)
  <2> SUFFICES ASSUME ExchangeInv, ExchangeInv', [Next]_vars
               PROVE  Channel!Next \/ UNCHANGED Channel!vars
    OBVIOUS
  <2>1. CASE SendRequest
    BY <2>1, RequestMaps DEF Channel!Next
  <2>2. CASE ClientSends
    BY <2>2, ClientSendsMaps DEF Channel!Next
  <2>3. CASE ServerSends \/ \E i \in Index(ResponseFragment) : AckReachesServer(i)
    BY <2>3, StatusKept, UnseenStutters
       DEF ServerSends, AckReachesServer, clientSending, serverReceiving,
           clientReceiving, seen, executions
  <2>4. ASSUME NEW f \in RequestFragment, RequestArrives(f)
        PROVE  Channel!Next \/ UNCHANGED Channel!vars
    BY <2>4, RequestArrivesMaps DEF Channel!Next
  <2>5. ASSUME NEW f \in RequestFragment, AckReachesClient(f)
        PROVE  Channel!Next \/ UNCHANGED Channel!vars
    BY <2>5, AckMaps DEF Channel!Next
  <2>6. ASSUME NEW f \in ResponseFragment, ResponseArrives(f)
        PROVE  Channel!Next \/ UNCHANGED Channel!vars
    BY <2>6, ResponseArrivesMaps DEF Channel!Next
  <2>7. CASE UNCHANGED vars
    BY <2>7, StatusKept, UnseenStutters
       DEF vars, clientSending, serverReceiving, clientReceiving, seen, executions
  <2> QED
    BY <2>1, <2>2, <2>3, <2>4, <2>5, <2>6, <2>7 DEF Next
<1> QED
  BY <1>1, <1>2, ExchangeInvariant, PTL DEF Spec, ChannelSpec, Channel!Spec
=============================================================================
