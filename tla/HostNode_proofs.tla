--------------------------- MODULE HostNode_proofs ---------------------------
(***************************************************************************)
(* Theorems about HostNode, for every set of hops, peers and fragments,    *)
(* every list of commands, and any number of attempts, Nacks, Acks and     *)
(* flood requests.                                                         *)
(***************************************************************************)
EXTENDS HostNode, TLAPS

-----------------------------------------------------------------------------
(* The invariants *)

\* The fragments of which the node thread has told the sender thread, which
\* has not taken the message yet.
OnTheWay(f) == IsIn(Duty("fragment", f), duty)

\* A pass looks at fragments only while it routes, and at those only that have
\* attempts left: BeginPass dropped the others.
PassOK ==
  /\ spc \notin {"route", "resend"} => unvisited = {}
  /\ \A f \in unvisited :
       ackable_packet_send_queue[f].retries < PACKET_RESEND_MAX_RETRIES
  /\ spc # "route" => batch = <<>>

\* Where a fragment is, and how often it was tried.
FragmentOK(f) ==
  /\ f \in submitted <=>
       OnTheWay(f) \/ InQueue(f) \/ f \in acked \/ f \in given_up
  /\ Once(Duty("fragment", f), duty)
  /\ OnTheWay(f) => ~ InQueue(f) /\ f \notin acked \cup given_up
  /\ InQueue(f) => f \notin acked \cup given_up
  /\ ~ (f \in acked /\ f \in given_up)
  /\ ~ InQueue(f) /\ f \notin acked \cup given_up => attempts[f] = 0
  /\ InQueue(f) => attempts[f] = ackable_packet_send_queue[f].retries
  /\ f \in given_up => attempts[f] = PACKET_RESEND_MAX_RETRIES
  /\ attempts[f] <= PACKET_RESEND_MAX_RETRIES

\* Commands wait in the channel once, if they were issued.
CommandsInv ==
  \A c \in Command : Once(c, commands) /\ (IsIn(c, commands) => c \in issued)

\* What is still to be submitted is new.
Fresh ==
  /\ \A c \in SendCommands :
       (c \notin issued \/ IsIn(c, commands)) => Members(c.of) \cap submitted = {}
  /\ \A a \in Incoming \ received : Members(AnswerTo[a]) \cap submitted = {}

FragmentInv == Fresh /\ \A f \in Fragment : FragmentOK(f)

\* Where an Ack is: in one of five places, and there once.
AckOK(a) ==
  LET duties == IsIn(Duty("ack", a), duty)
      queued == IsIn(a, packet_send_queue)
      routed == IsIn(a, batch)
      out == a \in acks_out
      lost == a \in acks_lost
  IN  /\ a \in received <=> duties \/ queued \/ routed \/ out \/ lost
      /\ Once(Duty("ack", a), duty)
      /\ Once(a, packet_send_queue) /\ Once(a, batch)
      /\ duties => ~ (queued \/ routed \/ out \/ lost)
      /\ queued => ~ (routed \/ out \/ lost)
      /\ routed => ~ (out \/ lost)
      /\ ~ (out /\ lost)

Removals == gone # {} \/ \E c \in issued : c.kind = "remove"

\* As long as no neighbour was removed, all that a host has learned of the
\* network begins with a neighbour.
LearnedInv ==
  Removals \/ /\ flooded \subseteq neighbors
              /\ \A link \in responses \cup network_topology :
                   link[1] \in neighbors

AckInv ==
  /\ \A a \in Incoming : AckOK(a)
  /\ acks_lost # {} => Removals

\* The links that were learned while the neighbours are what they are.
RouteInv ==
  /\ npc # "trigger" =>
       /\ flooded \subseteq neighbors
       /\ \A link \in responses : link[1] \in neighbors
  /\ RoutesUseNeighbours

Excused == \/ saved \/ gone # {} \/ cut_off = "early"
           \/ \E c \in issued : c.kind = "close"

\* A Quit that was issued is in the channel until the application is stopped.
QuitInv ==
  /\ QuitIssued =>
       saved \/ \E c \in Command : c.kind = "quit" /\ IsIn(c, commands)
  /\ cut_off = "late" => QuitIssued

EndInv ==
  (\/ SenderFinished \/ npc \in {"ending", "join", "stopped", "panicked"}
   \/ IsIn(Duty("quit", "self"), duty)) => Excused

-----------------------------------------------------------------------------
(* Facts about sequences: what is in them, and how often *)

LEMMA InEmpty ==
  ASSUME NEW x
  PROVE  ~ IsIn(x, <<>>) /\ Once(x, <<>>)
BY DEF IsIn, Once

LEMMA InAppend ==
  ASSUME NEW S, NEW s \in Seq(S), NEW e, NEW x
  PROVE  /\ IsIn(x, Append(s, e)) <=> IsIn(x, s) \/ x = e
         /\ Once(x, s) /\ (x = e => ~ IsIn(x, s)) => Once(x, Append(s, e))
<1>1. /\ DOMAIN s = 1 .. Len(s) /\ Len(s) \in Nat
      /\ DOMAIN Append(s, e) = 1 .. Len(s) + 1
      /\ \A i \in 1 .. Len(s) : Append(s, e)[i] = s[i]
      /\ Append(s, e)[Len(s) + 1] = e
  OBVIOUS
<1>2. IsIn(x, Append(s, e)) <=> IsIn(x, s) \/ x = e
  BY <1>1 DEF IsIn
<1>3. ASSUME Once(x, s), x = e => ~ IsIn(x, s)
      PROVE  Once(x, Append(s, e))
  BY <1>1, <1>3 DEF IsIn, Once
<1> QED
  BY <1>2, <1>3

LEMMA InTail ==
  ASSUME NEW S, NEW s \in Seq(S), s # <<>>, NEW x
  PROVE  /\ IsIn(x, s) <=> x = Head(s) \/ IsIn(x, Tail(s))
         /\ Once(x, s) => /\ Once(x, Tail(s))
                          /\ x = Head(s) => ~ IsIn(x, Tail(s))
<1>1. /\ DOMAIN s = 1 .. Len(s) /\ Len(s) \in Nat /\ Len(s) > 0
      /\ DOMAIN Tail(s) = 1 .. Len(s) - 1
      /\ \A i \in 1 .. Len(s) - 1 : Tail(s)[i] = s[i + 1]
      /\ Head(s) = s[1]
  OBVIOUS
<1>2. IsIn(x, s) => x = Head(s) \/ IsIn(x, Tail(s))
  <2> SUFFICES ASSUME NEW i \in 1 .. Len(s), s[i] = x, i # 1
               PROVE  IsIn(x, Tail(s))
    BY <1>1 DEF IsIn
  <2>1. i - 1 \in 1 .. Len(s) - 1 /\ Tail(s)[i - 1] = x
    BY <1>1
  <2> QED
    BY <1>1, <2>1 DEF IsIn
<1>3. x = Head(s) \/ IsIn(x, Tail(s)) => IsIn(x, s)
  BY <1>1 DEF IsIn
<1>4. ASSUME Once(x, s)
      PROVE  Once(x, Tail(s)) /\ (x = Head(s) => ~ IsIn(x, Tail(s)))
  <2>1. ASSUME NEW i \in 1 .. Len(s) - 1, Tail(s)[i] = x,
               NEW j \in 1 .. Len(s) - 1, Tail(s)[j] = x
        PROVE  i = j
    <3>1. i + 1 \in 1 .. Len(s) /\ j + 1 \in 1 .. Len(s)
      BY <1>1
    <3>2. s[i + 1] = x /\ s[j + 1] = x
      BY <1>1, <2>1
    <3>3. i + 1 = j + 1
      BY <1>1, <1>4, <3>1, <3>2 DEF Once
    <3> QED
      BY <3>3
  <2>2. ASSUME x = Head(s), NEW i \in 1 .. Len(s) - 1, Tail(s)[i] = x
        PROVE  FALSE
    <3>1. i + 1 \in 1 .. Len(s) /\ 1 \in 1 .. Len(s) /\ s[i + 1] = x /\ s[1] = x
      BY <1>1, <2>2
    <3> QED
      BY <1>1, <1>4, <3>1 DEF Once
  <2> QED
    BY <1>1, <2>1, <2>2 DEF Once, IsIn
<1> QED
  BY <1>2, <1>3, <1>4

LEMMA InConcat ==
  ASSUME NEW S, NEW s \in Seq(S), NEW t \in Seq(S), NEW x
  PROVE  /\ IsIn(x, s \o t) <=> IsIn(x, s) \/ IsIn(x, t)
         /\ Once(x, s) /\ Once(x, t) /\ ~ (IsIn(x, s) /\ IsIn(x, t))
              => Once(x, s \o t)
<1>1. /\ DOMAIN s = 1 .. Len(s) /\ Len(s) \in Nat
      /\ DOMAIN t = 1 .. Len(t) /\ Len(t) \in Nat
      /\ DOMAIN (s \o t) = 1 .. Len(s) + Len(t)
      /\ \A i \in 1 .. Len(s) : (s \o t)[i] = s[i]
      /\ \A i \in 1 .. Len(s) + Len(t) :
           i > Len(s) => i - Len(s) \in 1 .. Len(t) /\ (s \o t)[i] = t[i - Len(s)]
  OBVIOUS
<1>2. IsIn(x, s \o t) => IsIn(x, s) \/ IsIn(x, t)
  <2> SUFFICES ASSUME NEW i \in 1 .. Len(s) + Len(t), (s \o t)[i] = x
               PROVE  IsIn(x, s) \/ IsIn(x, t)
    BY <1>1 DEF IsIn
  <2>1. CASE i > Len(s)
    BY <1>1, <2>1 DEF IsIn
  <2>2. CASE ~ (i > Len(s))
    <3>1. i \in 1 .. Len(s)
      BY <1>1, <2>2
    <3> QED
      BY <1>1, <3>1 DEF IsIn
  <2> QED
    BY <2>1, <2>2
<1>3. IsIn(x, s) => IsIn(x, s \o t)
  <2> SUFFICES ASSUME NEW i \in 1 .. Len(s), s[i] = x
               PROVE  IsIn(x, s \o t)
    BY <1>1 DEF IsIn
  <2>1. i \in 1 .. Len(s) + Len(t) /\ (s \o t)[i] = x
    BY <1>1
  <2> QED
    BY <1>1, <2>1 DEF IsIn
<1>4. IsIn(x, t) => IsIn(x, s \o t)
  <2> SUFFICES ASSUME NEW i \in 1 .. Len(t), t[i] = x
               PROVE  IsIn(x, s \o t)
    BY <1>1 DEF IsIn
  <2>1. /\ Len(s) + i \in 1 .. Len(s) + Len(t) /\ Len(s) + i > Len(s)
        /\ (Len(s) + i) - Len(s) = i
    BY <1>1
  <2>2. (s \o t)[Len(s) + i] = x
    BY <1>1, <2>1
  <2> QED
    BY <1>1, <2>1, <2>2 DEF IsIn
<1>5. ASSUME Once(x, s), Once(x, t), ~ (IsIn(x, s) /\ IsIn(x, t)),
             NEW i \in 1 .. Len(s) + Len(t), (s \o t)[i] = x,
             NEW j \in 1 .. Len(s) + Len(t), (s \o t)[j] = x
      PROVE  i = j
  <2>1. CASE i > Len(s) /\ j > Len(s)
    <3>1. /\ i - Len(s) \in 1 .. Len(t) /\ t[i - Len(s)] = x
          /\ j - Len(s) \in 1 .. Len(t) /\ t[j - Len(s)] = x
      BY <1>1, <1>5, <2>1
    <3>2. i - Len(s) = j - Len(s)
      BY <1>1, <1>5, <3>1 DEF Once
    <3> QED
      BY <1>1, <3>2
  <2>2. CASE ~ (i > Len(s)) /\ ~ (j > Len(s))
    <3>1. i \in 1 .. Len(s) /\ j \in 1 .. Len(s)
      BY <1>1, <2>2
    <3>2. s[i] = x /\ s[j] = x
      BY <1>1, <1>5, <3>1
    <3> QED
      BY <1>1, <1>5, <3>1, <3>2 DEF Once
  <2>3. ASSUME NEW k \in 1 .. Len(s) + Len(t), (s \o t)[k] = x, ~ (k > Len(s)),
               NEW l \in 1 .. Len(s) + Len(t), (s \o t)[l] = x, l > Len(s)
        PROVE  FALSE
    <3>1. k \in 1 .. Len(s)
      BY <1>1, <2>3
    <3>2. IsIn(x, s)
      BY <1>1, <2>3, <3>1 DEF IsIn
    <3>3. IsIn(x, t)
      BY <1>1, <2>3 DEF IsIn
    <3> QED
      BY <1>5, <3>2, <3>3
  <2> QED
    BY <1>5, <2>1, <2>2, <2>3
<1>6. Once(x, s) /\ Once(x, t) /\ ~ (IsIn(x, s) /\ IsIn(x, t)) => Once(x, s \o t)
  BY <1>1, <1>5 DEF Once
<1> QED
  BY <1>2, <1>3, <1>4, <1>6

\* The duty messages for the fragments of a message.
LEMMA InDuties ==
  ASSUME NEW fs \in Seq(Fragment), NEW x
  PROVE  /\ FragmentDuties(fs) \in Seq(DutyMessage)
         /\ IsIn(x, FragmentDuties(fs)) <=>
              \E f \in Members(fs) : x = Duty("fragment", f)
         /\ Distinct(fs) => Once(x, FragmentDuties(fs))
         /\ Members(fs) \subseteq Fragment
<1>1. DOMAIN fs = 1 .. Len(fs) /\ Len(fs) \in Nat
  OBVIOUS
<1>2. \A f \in Fragment : Duty("fragment", f) \in DutyMessage
  BY DEF Duty, DutyMessage
<1>3. FragmentDuties(fs) \in [1 .. Len(fs) -> DutyMessage]
  BY <1>1, <1>2 DEF FragmentDuties
<1>4. FragmentDuties(fs) \in Seq(DutyMessage)
  BY <1>1, <1>3
<1>5. IsIn(x, FragmentDuties(fs)) <=>
        \E f \in Members(fs) : x = Duty("fragment", f)
  BY <1>1 DEF FragmentDuties, IsIn, Members
<1>6. Distinct(fs) => Once(x, FragmentDuties(fs))
  BY <1>1 DEF FragmentDuties, Once, Distinct, Duty
<1> QED
  BY <1>1, <1>4, <1>5, <1>6 DEF Members

-----------------------------------------------------------------------------
(* Type correctness *)

TypeInv == TypeOK /\ PassOK

LEMMA DutyTypes ==
  /\ Request \in DutyMessage
  /\ Duty("response", "other") \in DutyMessage
  /\ Duty("quit", "self") \in DutyMessage
  /\ \A f \in Fragment : Duty("acked", f) \in DutyMessage
  /\ \A a \in Incoming : Duty("ack", a) \in DutyMessage
BY DEF DutyMessage, Duty

\* What the sender thread finds when it takes a message.
LEMMA DutyCases ==
  ASSUME NEW m \in DutyMessage
  PROVE  \/ m.kind = "fragment" /\ m.of \in Fragment /\ m = Duty("fragment", m.of)
         \/ m.kind = "acked" /\ m.of \in Fragment /\ m = Duty("acked", m.of)
         \/ m.kind = "ack" /\ m.of \in Incoming /\ m = Duty("ack", m.of)
         \/ m.kind = "request" /\ m = Request
         \/ m.kind = "response" /\ m = Duty("response", "other")
         \/ m.kind = "quit" /\ m = Duty("quit", "self")
BY DEF DutyMessage, Duty, Request

LEMMA TailType ==
  ASSUME NEW S, NEW s \in Seq(S), s # <<>>
  PROVE  Head(s) \in S /\ Tail(s) \in Seq(S)
OBVIOUS

LEMMA AppendType ==
  ASSUME NEW S, NEW s \in Seq(S), NEW e \in S
  PROVE  Append(s, e) \in Seq(S)
OBVIOUS

LEMMA ConcatType ==
  ASSUME NEW S, NEW s \in Seq(S), NEW t \in Seq(S)
  PROVE  s \o t \in Seq(S)
OBVIOUS

LEMMA CommandTypes ==
  ASSUME NEW c \in Command
  PROVE  /\ c.kind = "send" => c.of \in Seq(Fragment)
         /\ c.kind \in {"add", "remove"} => c.of \in Hop
BY HostAssumption DEF HostAssumption

\* The sender thread.
LEMMA SenderType ==
  ASSUME TypeInv, SenderStep, UNCHANGED nodeVars
  PROVE  TypeInv'
<1> USE SenderAssumption DEF SenderAssumption, TypeInv, nodeVars, sharedVars, senderHistory
<1>1. CASE ReceiveDuty
  <2> DEFINE m == Head(duty)
  <2>1. m \in DutyMessage /\ Tail(duty) \in Seq(DutyMessage)
    BY <1>1, TailType DEF ReceiveDuty, TypeOK
  <2>2. CASE HandleNewPacket(m)
    <3> HIDE DEF m
    <3>1. CASE m.kind = "fragment"
      <4>1. m.of \in Fragment
        BY <2>1, <3>1, DutyCases
      <4>2. /\ ackable_packet_send_queue' = QueueWith(m.of)
            /\ UNCHANGED <<packet_send_queue, flood_packets_queue>>
        BY <2>2, <3>1 DEF HandleNewPacket
      <4>3. /\ DOMAIN ackable_packet_send_queue' \subseteq Fragment
            /\ DOMAIN ackable_packet_send_queue
                 \subseteq DOMAIN ackable_packet_send_queue'
            /\ \A f \in DOMAIN ackable_packet_send_queue' :
                 ackable_packet_send_queue'[f] \in
                   [ready : BOOLEAN, retries : 0 .. PACKET_RESEND_MAX_RETRIES]
        BY <4>1, <4>2 DEF TypeOK, QueueWith, NewItem
      <4>4. spc = "select" /\ spc' = "process"
        BY <1>1, <2>2 DEF ReceiveDuty, HandleNewPacket
      <4>5. unvisited = {} /\ batch = <<>> /\ UNCHANGED <<unvisited, batch>>
        BY <1>1, <4>4 DEF PassOK, ReceiveDuty
      <4>6. PassOK'
        BY <4>4, <4>5 DEF PassOK
      <4>7. TypeOK'
        BY <1>1, <2>1, <2>2, <4>2, <4>3, <4>4, <4>5
           DEF ReceiveDuty, HandleNewPacket, TypeOK
      <4> QED
        BY <4>6, <4>7
    <3>2. CASE m.kind \in {"request", "response"}
      <4>1. m \in {Request, Duty("response", "other")}
        BY <2>1, <3>2, DutyCases
      <4>2. /\ flood_packets_queue' = Append(flood_packets_queue, m)
            /\ UNCHANGED <<packet_send_queue, ackable_packet_send_queue>>
        BY <2>2, <3>2 DEF HandleNewPacket
      <4>3. flood_packets_queue' \in Seq({Request, Duty("response", "other")})
        BY <4>1, <4>2 DEF TypeOK
      <4> QED
        BY <1>1, <2>1, <2>2, <4>2, <4>3
           DEF ReceiveDuty, HandleNewPacket, TypeOK, PassOK
    <3>3. CASE m.kind = "ack"
      <4>1. m.of \in Incoming
        BY <2>1, <3>3, DutyCases
      <4>2. /\ packet_send_queue' = Append(packet_send_queue, m.of)
            /\ UNCHANGED <<flood_packets_queue, ackable_packet_send_queue>>
        BY <2>2, <3>3 DEF HandleNewPacket
      <4>3. packet_send_queue' \in Seq(Incoming)
        BY <4>1, <4>2 DEF TypeOK
      <4> QED
        BY <1>1, <2>1, <2>2, <4>2, <4>3
           DEF ReceiveDuty, HandleNewPacket, TypeOK, PassOK
    <3> QED
      BY <2>2, <3>1, <3>2, <3>3 DEF HandleNewPacket
  <2>3. CASE RetainAcked(m)
    BY <1>1, <2>1, <2>3, DutyCases
       DEF ReceiveDuty, RetainAcked, TypeOK, PassOK, Unacked, Keeping
  <2>4. CASE StopSender(m)
    BY <1>1, <2>1, <2>4 DEF ReceiveDuty, StopSender, TypeOK, PassOK
  <2> QED
    BY <1>1, <2>2, <2>3, <2>4 DEF ReceiveDuty
<1>2. CASE DutyTimeout
  BY <1>2 DEF DutyTimeout, TypeOK, PassOK
<1>3. CASE BeginPass
  BY <1>3 DEF BeginPass, TypeOK, PassOK, Keeping, Retained, HasRetriesLeft
<1>4. CASE RoutePacket
  <2>1. Head(batch) \in Incoming /\ Tail(batch) \in Seq(Incoming)
    BY <1>4, TailType DEF RoutePacket, TypeOK
  <2>2. Requeued(Head(batch)) \in Seq(Incoming)
    BY <2>1 DEF Requeued, TypeOK
  <2> QED
    BY <1>4, <2>1, <2>2 DEF RoutePacket, AskForDiscovery, TypeOK, PassOK
<1>5. CASE BatchDone
  BY <1>5 DEF BatchDone, TypeOK, PassOK
<1>6. ASSUME NEW f \in Fragment, ResendFragment(f)
      PROVE  TypeInv'
  <2>1. /\ f \in DOMAIN ackable_packet_send_queue
        /\ ackable_packet_send_queue[f] \in
             [ready : BOOLEAN, retries : 0 .. PACKET_RESEND_MAX_RETRIES]
        /\ ackable_packet_send_queue[f].retries < PACKET_RESEND_MAX_RETRIES
        /\ DOMAIN ackable_packet_send_queue' = DOMAIN ackable_packet_send_queue
        /\ \A g \in DOMAIN ackable_packet_send_queue : g # f =>
             ackable_packet_send_queue'[g] = ackable_packet_send_queue[g]
        /\ ackable_packet_send_queue'[f] =
             Attempted(ackable_packet_send_queue[f])
    BY <1>6 DEF ResendFragment, TypeOK, PassOK
  <2>2. /\ ackable_packet_send_queue'[f] \in
             [ready : BOOLEAN, retries : 0 .. PACKET_RESEND_MAX_RETRIES]
    BY <2>1 DEF Attempted
  <2>3. /\ triggers' \in 0 .. MaxTriggers
        /\ transmitted' \in [Fragment -> Nat]
        /\ attempts' \in [Fragment -> Nat]
    <3>1. triggers \in 0 .. MaxTriggers /\ transmitted \in [Fragment -> Nat]
          /\ attempts \in [Fragment -> Nat]
      BY DEF TypeOK
    <3>2. attempts' = [attempts EXCEPT ![f] = @ + 1]
      BY <1>6 DEF ResendFragment
    <3>3. \/ UNCHANGED triggers
          \/ triggers' = IF triggers < MaxTriggers THEN triggers + 1 ELSE triggers
      BY <1>6 DEF ResendFragment, AskForDiscovery
    <3>4. \/ UNCHANGED transmitted
          \/ transmitted' = [transmitted EXCEPT ![f] = @ + 1]
      BY <1>6 DEF ResendFragment
    <3>5. triggers' \in 0 .. MaxTriggers
      BY <3>1, <3>3
    <3> QED
      BY <3>1, <3>2, <3>4, <3>5
  <2>4. TypeOK'
    <3>1. \A g \in DOMAIN ackable_packet_send_queue' :
            ackable_packet_send_queue'[g] \in
              [ready : BOOLEAN, retries : 0 .. PACKET_RESEND_MAX_RETRIES]
      BY <2>1, <2>2 DEF TypeOK
    <3>2. UNCHANGED <<duty, sharedVars, spc, packet_send_queue,
                      flood_packets_queue, batch, gone, flooded, acked, given_up,
                      acks_out, acks_lost, answered, nodeVars>>
      BY <1>6 DEF ResendFragment
    <3>3. unvisited' \subseteq DOMAIN ackable_packet_send_queue'
      BY <1>6, <2>1 DEF ResendFragment, TypeOK
    <3> QED
      BY <2>1, <2>3, <3>1, <3>2, <3>3 DEF TypeOK
  <2>5. PassOK'
    BY <1>6, <2>1 DEF ResendFragment, PassOK
  <2> QED
    BY <2>4, <2>5
<1>7. ASSUME NEW f \in Fragment, SkipFragment(f)
      PROVE  TypeInv'
  BY <1>7 DEF SkipFragment, TypeOK, PassOK
<1>8. CASE ResendDone
  BY <1>8 DEF ResendDone, TypeOK, PassOK
<1>9. CASE FloodRequest
  <2>1. Tail(flood_packets_queue) \in Seq({Request, Duty("response", "other")})
    BY <1>9, TailType DEF FloodRequest, TypeOK
  <2> QED
    BY <1>9, <2>1 DEF FloodRequest, TypeOK, PassOK
<1>10. CASE FloodPanics
  BY <1>10 DEF FloodPanics, TypeOK, PassOK
<1>11. CASE AnswerFlood
  <2>1. Tail(flood_packets_queue) \in Seq({Request, Duty("response", "other")})
    BY <1>11, TailType DEF AnswerFlood, TypeOK
  <2> QED
    BY <1>11, <2>1 DEF AnswerFlood, TypeOK, PassOK
<1>12. CASE EndPass
  BY <1>12 DEF EndPass, TypeOK, PassOK
<1> QED
  BY <1>1, <1>2, <1>3, <1>4, <1>5, <1>6, <1>7, <1>8, <1>9, <1>10, <1>11, <1>12
     DEF SenderStep

\* What TriggerDiscovery sets.
LEMMA TriggerTypes ==
  ASSUME TypeOK, TriggerDiscovery
  PROVE  /\ ongoing' = TRUE /\ elapsed' = FALSE
         /\ responses' = {} /\ flooded' = {}
         /\ npc' \in {"loop", "panicked"}
         /\ duty' \in Seq(DutyMessage)
<1>1. duty \in Seq(DutyMessage) /\ Append(duty, Request) \in Seq(DutyMessage)
  BY DutyTypes, AppendType DEF TypeOK
<1> QED
  BY <1>1 DEF TriggerDiscovery

\* The node thread.
LEMMA NodeType ==
  ASSUME TypeInv, NodeStep
  PROVE  TypeInv'
<1> USE SenderAssumption
    DEF SenderAssumption, TypeInv, senderPrivate, sharedVars, senderHistory
<1>1. CASE Start
  BY <1>1, TriggerTypes DEF Start, TypeOK, PassOK
<1>2. CASE NoticeSenderEnd
  BY <1>2 DEF NoticeSenderEnd, TypeOK, PassOK, senderVars
<1>3. CASE EndDiscovery
  BY <1>3 DEF EndDiscovery, TypeOK, PassOK
<1>4. CASE PublishTopology
  BY <1>4, HostAssumption DEF PublishTopology, TypeOK, PassOK, HostAssumption
<1>5. CASE ReachSelect
  BY <1>5 DEF ReachSelect, TypeOK, PassOK, senderVars
<1>6. CASE SelectTimeout
  BY <1>6 DEF SelectTimeout, TypeOK, PassOK, senderVars
<1>7. ASSUME NEW kind \in {"add", "remove"}, ChangeNeighbours(kind)
      PROVE  TypeInv'
  <2>1. Head(commands) \in Command /\ Tail(commands) \in Seq(Command)
    BY <1>7, TailType DEF ChangeNeighbours, TakeCommand, TypeOK
  <2>2. Head(commands).of \in Hop
    BY <1>7, <2>1, CommandTypes DEF ChangeNeighbours, TakeCommand
  <2>3. neighbors' \subseteq Hop
    BY <1>7, <2>2 DEF ChangeNeighbours, TypeOK
  <2> QED
    BY <1>7, <2>1, <2>3 DEF ChangeNeighbours, TakeCommand, TypeOK, PassOK
<1>8. CASE TriggerAfterChange
  BY <1>8, TriggerTypes DEF TriggerAfterChange, TypeOK, PassOK
<1>9. CASE SendMessage
  <2>1. Head(commands) \in Command /\ Tail(commands) \in Seq(Command)
    BY <1>9, TailType DEF SendMessage, TakeCommand, TypeOK
  <2>2. Head(commands).of \in Seq(Fragment)
    BY <1>9, <2>1, CommandTypes DEF SendMessage, TakeCommand
  <2> DEFINE fs == Head(commands).of
  <2> HIDE DEF fs
  <2>3. fs \in Seq(Fragment)
    BY <2>2 DEF fs
  <2>4. duty \o FragmentDuties(fs) \in Seq(DutyMessage)
    BY <2>3, InDuties, ConcatType DEF TypeOK
  <2>5. submitted \cup Members(fs) \subseteq Fragment
    BY <2>3, InDuties DEF TypeOK
  <2>6. duty' \in Seq(DutyMessage) /\ submitted' \subseteq Fragment
    BY <1>9, <2>4, <2>5 DEF SendMessage, TypeOK, fs
  <2> QED
    BY <1>9, <2>1, <2>6 DEF SendMessage, TakeCommand, TypeOK, PassOK
<1>10. CASE Quit
  <2>1. Tail(commands) \in Seq(Command)
    BY <1>10, TailType DEF Quit, TakeCommand, TypeOK
  <2> QED
    BY <1>10, <2>1 DEF Quit, TakeCommand, TypeOK, PassOK, senderVars
<1>11. CASE CommandsClosed
  <2>1. Tail(commands) \in Seq(Command)
    BY <1>11, TailType DEF CommandsClosed, TakeCommand, TypeOK
  <2> QED
    BY <1>11, <2>1 DEF CommandsClosed, TakeCommand, TypeOK, PassOK, senderVars
<1>12. CASE TakeTrigger
  <2>1. triggers' \in 0 .. MaxTriggers
    BY <1>12 DEF TakeTrigger, TypeOK
  <2> QED
    BY <1>12, <2>1, TriggerTypes DEF TakeTrigger, TypeOK, PassOK
<1>13. CASE SenderChannelClosed
  BY <1>13 DEF SenderChannelClosed, TypeOK, PassOK, senderVars
<1>14. CASE QuitSender
  <2>1. duty' \in Seq(DutyMessage)
    <3>1. /\ duty \in Seq(DutyMessage)
          /\ Append(duty, Duty("quit", "self")) \in Seq(DutyMessage)
      BY DutyTypes, AppendType DEF TypeOK
    <3> QED
      BY <1>14, <3>1 DEF QuitSender
  <2> QED
    BY <1>14, <2>1 DEF QuitSender, TypeOK, PassOK
<1>15. CASE JoinSender
  BY <1>15 DEF JoinSender, TypeOK, PassOK, senderVars
<1>16. CASE PacketsClosed
  BY <1>16 DEF PacketsClosed, TypeOK, PassOK, senderVars
<1> QED
  BY <1>1, <1>2, <1>3, <1>4, <1>5, <1>6, <1>7, <1>8, <1>9, <1>10, <1>11, <1>12,
     <1>13, <1>14, <1>15, <1>16 DEF NodeStep

LEMMA PacketType ==
  ASSUME TypeInv, HandlePacket
  PROVE  TypeInv'
<1> USE SenderAssumption, HostAssumption
    DEF SenderAssumption, HostAssumption, TypeInv, senderPrivate, senderHistory
<1> USE DEF HandlePacket, TakePacket
<1>1. ASSUME NEW a \in Incoming, ReceiveFragment(a)
      PROVE  TypeInv'
  <2>1. AnswerTo[a] \in Seq(Fragment)
    OBVIOUS
  <2>2. Append(duty, Duty("ack", a)) \in Seq(DutyMessage)
    BY DutyTypes, AppendType DEF TypeOK
  <2>3. Append(duty, Duty("ack", a)) \o FragmentDuties(AnswerTo[a])
          \in Seq(DutyMessage)
    BY <2>1, <2>2, InDuties, ConcatType
  <2>4. submitted \cup Members(AnswerTo[a]) \subseteq Fragment
    BY <2>1, InDuties DEF TypeOK
  <2>5. duty' \in Seq(DutyMessage) /\ submitted' \subseteq Fragment
    BY <1>1, <2>3, <2>4 DEF ReceiveFragment
  <2> QED
    BY <1>1, <2>5 DEF ReceiveFragment, TypeOK, PassOK
<1>2. ASSUME NEW f \in Fragment, ReceiveAck(f)
      PROVE  TypeInv'
  <2>1. duty' \in Seq(DutyMessage)
    BY <1>2, DutyTypes DEF ReceiveAck, TypeOK
  <2>2. acks_in' \in [Fragment -> 0 .. MaxAcks]
    BY <1>2 DEF ReceiveAck, TypeOK
  <2> QED
    BY <1>2, <2>1, <2>2 DEF ReceiveAck, TypeOK, PassOK
<1>3. CASE ReceiveFloodRequest
  <2>1. duty' \in Seq(DutyMessage)
    BY <1>3, DutyTypes DEF ReceiveFloodRequest, TypeOK
  <2> QED
    BY <1>3, <2>1 DEF ReceiveFloodRequest, TypeOK, PassOK
<1>4. ASSUME NEW link \in Reach, ReceiveFloodResponse(link)
      PROVE  TypeInv'
  BY <1>4 DEF ReceiveFloodResponse, TypeOK, PassOK
<1>5. CASE ReceiveNack
  <2>1. /\ TriggerDiscovery /\ nacks' \in 0 .. MaxNacks
        /\ UNCHANGED <<submitted, received, acks_in, asked>>
    BY <1>5 DEF ReceiveNack, TypeOK
  <2>2. TypeOK'
    BY <2>1, TriggerTypes DEF TypeOK
  <2> QED
    BY <2>2 DEF PassOK
<1> QED
  BY <1>1, <1>2, <1>3, <1>4, <1>5

LEMMA EnvironmentType ==
  ASSUME TypeInv,
         \/ BackOffElapses /\ UNCHANGED nodeVars
         \/ DiscoveryTimeElapses \/ IssueCommand \/ CutOff \/ HopQuits
  PROVE  TypeInv'
<1> USE DEF TypeInv, senderVars, sharedVars, senderHistory, nodeVars
<1>1. CASE BackOffElapses /\ UNCHANGED nodeVars
  BY <1>1 DEF BackOffElapses, TypeOK, PassOK
<1>2. CASE DiscoveryTimeElapses
  BY <1>2 DEF DiscoveryTimeElapses, TypeOK, PassOK
<1>3. CASE IssueCommand
  BY <1>3 DEF IssueCommand, TypeOK, PassOK
<1>4. CASE HopQuits
  BY <1>4 DEF HopQuits, TypeOK, PassOK
<1>5. CASE CutOff
  BY <1>5 DEF CutOff, TypeOK, PassOK
<1> QED
  BY <1>1, <1>2, <1>3, <1>4, <1>5

LEMMA TypeNext ==
  ASSUME TypeInv, [Next]_vars
  PROVE  TypeInv'
<1>1. CASE UNCHANGED vars
  BY <1>1 DEF TypeInv, TypeOK, PassOK, vars, senderVars, nodeVars
<1> QED
  BY <1>1, SenderType, NodeType, PacketType, EnvironmentType DEF Next

LEMMA TypeInvariant == Spec => []TypeInv
<1>1. Init => TypeInv
  <2> SUFFICES ASSUME Init
               PROVE  TypeOK /\ PassOK
    BY DEF TypeInv
  <2> USE SenderAssumption, HostAssumption
      DEF SenderAssumption, HostAssumption, Init, SenderInit
  <2>1. /\ duty \in Seq(DutyMessage) /\ commands \in Seq(Command)
        /\ packet_send_queue \in Seq(Incoming) /\ batch \in Seq(Incoming)
        /\ flood_packets_queue \in Seq({Request, Duty("response", "other")})
    OBVIOUS
  <2>2. DOMAIN ackable_packet_send_queue = {}
    OBVIOUS
  <2>3. /\ attempts \in [Fragment -> Nat] /\ transmitted \in [Fragment -> Nat]
        /\ acks_in \in [Fragment -> 0 .. MaxAcks]
    OBVIOUS
  <2>4. /\ triggers \in 0 .. MaxTriggers /\ answered \in Nat
        /\ nacks \in 0 .. MaxNacks /\ asked \in 0 .. MaxForeign
    OBVIOUS
  <2>5. TypeOK
    BY <2>1, <2>2, <2>3, <2>4 DEF TypeOK
  <2>6. PassOK
    BY DEF PassOK
  <2> QED
    BY <2>5, <2>6
<1>2. TypeInv /\ [Next]_vars => TypeInv'
  BY TypeNext
<1> QED
  BY <1>1, <1>2, PTL DEF Spec

\* The channels, the queues and the histories hold what the threads may put
\* there; a waiting fragment was tried PACKET_RESEND_MAX_RETRIES times at most.
THEOREM TypeCorrect == Spec => []TypeOK
<1>1. TypeInv => TypeOK
  BY DEF TypeInv
<1> QED
  BY <1>1, TypeInvariant, PTL

-----------------------------------------------------------------------------
(* The channels: how a message gets in and out *)

\* A step leaves x in the channel as it was.
Same(x) ==
  /\ IsIn(x, duty') <=> IsIn(x, duty)
  /\ Once(x, duty) => Once(x, duty')

LEMMA SameIfUnchanged ==
  ASSUME UNCHANGED duty, NEW x
  PROVE  Same(x)
BY DEF Same

LEMMA SameIfAppended ==
  ASSUME TypeOK, NEW e, duty' = Append(duty, e), NEW x, x # e
  PROVE  Same(x)
BY InAppend DEF Same, TypeOK

LEMMA SameIfTriggered ==
  ASSUME TypeOK, TriggerDiscovery, NEW x, x # Request
  PROVE  Same(x)
BY SameIfAppended, SameIfUnchanged DEF TriggerDiscovery

LEMMA SameIfTaken ==
  ASSUME TypeOK, ReceiveDuty, NEW x
  PROVE  /\ x # Head(duty) => Same(x)
         /\ x = Head(duty) => IsIn(x, duty) /\ (Once(x, duty) => ~ IsIn(x, duty'))
BY InTail DEF Same, TypeOK, ReceiveDuty

\* The fragments of a message are sent, behind an Ack perhaps.
LEMMA SameIfSent ==
  ASSUME NEW ds \in Seq(DutyMessage), NEW fs \in Seq(Fragment),
         duty' = ds \o FragmentDuties(fs), NEW x
  PROVE  /\ (\A f \in Members(fs) : x # Duty("fragment", f)) =>
              /\ IsIn(x, duty') <=> IsIn(x, ds)
              /\ Once(x, ds) => Once(x, duty')
         /\ \A f \in Members(fs) :
              x = Duty("fragment", f) =>
                /\ IsIn(x, duty')
                /\ Once(x, ds) /\ ~ IsIn(x, ds) /\ Distinct(fs) => Once(x, duty')
<1>1. /\ FragmentDuties(fs) \in Seq(DutyMessage)
      /\ IsIn(x, FragmentDuties(fs)) <=>
           \E f \in Members(fs) : x = Duty("fragment", f)
      /\ Distinct(fs) => Once(x, FragmentDuties(fs))
  BY InDuties
<1>2. /\ IsIn(x, duty') <=> IsIn(x, ds) \/ IsIn(x, FragmentDuties(fs))
      /\ Once(x, ds) /\ Once(x, FragmentDuties(fs))
           /\ ~ (IsIn(x, ds) /\ IsIn(x, FragmentDuties(fs)))
             => Once(x, duty')
  BY <1>1, InConcat
<1>3. ~ IsIn(x, FragmentDuties(fs)) => Once(x, FragmentDuties(fs))
  BY DEF IsIn, Once
<1> QED
  BY <1>1, <1>2, <1>3

\* Commands are issued, and taken in that order.
LEMMA CommandSteps ==
  ASSUME [Next]_vars
  PROVE  \/ UNCHANGED <<commands, issued>>
         \/ IssueCommand
         \/ \E kind : TakeCommand(kind) /\ UNCHANGED issued
<1>1. CASE NodeStep
  BY <1>1 DEF NodeStep, Start, NoticeSenderEnd, EndDiscovery, PublishTopology,
     ReachSelect, SelectTimeout, ChangeNeighbours, TriggerAfterChange,
     SendMessage, Quit, CommandsClosed, TakeTrigger, SenderChannelClosed,
     PacketsClosed, QuitSender, JoinSender
<1>2. CASE HandlePacket \/ DiscoveryTimeElapses \/ CutOff \/ HopQuits
  BY <1>2 DEF HandlePacket, DiscoveryTimeElapses, CutOff, HopQuits, nodeVars
<1>3. CASE UNCHANGED nodeVars \/ UNCHANGED vars
  BY <1>3 DEF vars, nodeVars
<1> QED
  BY <1>1, <1>2, <1>3 DEF Next

LEMMA CommandsStay ==
  ASSUME TypeInv, CommandsInv, [Next]_vars
  PROVE  CommandsInv'
<1>1. CASE UNCHANGED <<commands, issued>>
  BY <1>1 DEF CommandsInv
<1>2. CASE IssueCommand
  <2>1. PICK c \in Command \ issued :
          commands' = Append(commands, c) /\ issued' = issued \cup {c}
    BY <1>2 DEF IssueCommand
  <2>2. ASSUME NEW d \in Command
        PROVE  Once(d, commands)' /\ (IsIn(d, commands) => d \in issued)'
    <3>1. /\ IsIn(d, commands') <=> IsIn(d, commands) \/ d = c
          /\ Once(d, commands) /\ (d = c => ~ IsIn(d, commands))
               => Once(d, commands')
      BY <2>1, InAppend DEF TypeInv, TypeOK
    <3> QED
      BY <2>1, <3>1 DEF CommandsInv
  <2> QED
    BY <2>2 DEF CommandsInv
<1>3. ASSUME NEW kind, TakeCommand(kind), UNCHANGED issued
      PROVE  CommandsInv'
  <2>1. ASSUME NEW d \in Command
        PROVE  Once(d, commands)' /\ (IsIn(d, commands) => d \in issued)'
    BY <1>3, InTail DEF TakeCommand, TypeInv, TypeOK, CommandsInv
  <2> QED
    BY <2>1 DEF CommandsInv
<1> QED
  BY <1>1, <1>2, <1>3, CommandSteps

LEMMA CommandsInvariant == Spec => []CommandsInv
<1>1. Init => CommandsInv
  BY InEmpty DEF Init, CommandsInv
<1>2. TypeInv /\ CommandsInv /\ [Next]_vars => CommandsInv'
  BY CommandsStay
<1> QED
  BY <1>1, <1>2, TypeInvariant, PTL DEF Spec

\* The command a thread takes was issued.
LEMMA TakenIsIssued ==
  ASSUME TypeInv, CommandsInv, NEW kind, TakeCommand(kind)
  PROVE  /\ Head(commands) \in Command /\ Head(commands).kind = kind
         /\ Head(commands) \in issued
         /\ IsIn(Head(commands), commands)
BY InTail, TailType DEF TakeCommand, TypeInv, TypeOK, CommandsInv

-----------------------------------------------------------------------------
(* Neither thread ends without a reason *)

LEMMA HistoryGrows ==
  ASSUME [Next]_vars
  PROVE  /\ saved => saved'
         /\ gone \subseteq gone'
         /\ issued \subseteq issued'
         /\ cut_off # "no" => UNCHANGED cut_off
<1>1. saved => saved'
  <2>1. CASE NodeStep
    BY <2>1 DEF NodeStep, Start, NoticeSenderEnd, EndDiscovery,
       PublishTopology, ReachSelect, SelectTimeout, ChangeNeighbours,
       TriggerAfterChange, SendMessage, Quit, CommandsClosed, TakeTrigger,
       SenderChannelClosed, PacketsClosed, QuitSender, JoinSender
  <2> QED
    BY <2>1 DEF Next, vars, nodeVars, HandlePacket, DiscoveryTimeElapses,
       IssueCommand, CutOff, HopQuits
<1>2. gone \subseteq gone'
  <2>1. CASE NodeStep
    BY <2>1 DEF NodeStep, Start, NoticeSenderEnd, EndDiscovery,
       PublishTopology, ReachSelect, SelectTimeout, ChangeNeighbours,
       TriggerAfterChange, SendMessage, Quit, CommandsClosed, TakeTrigger,
       SenderChannelClosed, PacketsClosed, QuitSender, JoinSender,
       senderPrivate, senderVars
  <2>2. CASE SenderStep
    BY <2>2 DEF SenderStep, ReceiveDuty, DutyTimeout, BeginPass, RoutePacket,
       BatchDone, ResendFragment, SkipFragment, ResendDone, FloodRequest,
       FloodPanics, AnswerFlood, EndPass
  <2> QED
    BY <2>1, <2>2 DEF Next, vars, senderVars, senderPrivate, HandlePacket,
       DiscoveryTimeElapses, IssueCommand, CutOff, HopQuits, BackOffElapses
<1>3. issued \subseteq issued'
  <2>1. CASE NodeStep
    BY <2>1 DEF NodeStep, Start, NoticeSenderEnd, EndDiscovery,
       PublishTopology, ReachSelect, SelectTimeout, ChangeNeighbours,
       TriggerAfterChange, SendMessage, Quit, CommandsClosed, TakeTrigger,
       SenderChannelClosed, PacketsClosed, QuitSender, JoinSender
  <2> QED
    BY <2>1 DEF Next, vars, nodeVars, HandlePacket, DiscoveryTimeElapses,
       IssueCommand, CutOff, HopQuits
<1>4. cut_off # "no" => UNCHANGED cut_off
  <2>1. CASE NodeStep
    BY <2>1 DEF NodeStep, Start, NoticeSenderEnd, EndDiscovery,
       PublishTopology, ReachSelect, SelectTimeout, ChangeNeighbours,
       TriggerAfterChange, SendMessage, Quit, CommandsClosed, TakeTrigger,
       SenderChannelClosed, PacketsClosed, QuitSender, JoinSender
  <2> QED
    BY <2>1 DEF Next, vars, nodeVars, HandlePacket, DiscoveryTimeElapses,
       IssueCommand, CutOff, HopQuits
<1> QED
  BY <1>1, <1>2, <1>3, <1>4

LEMMA ExcusedStays ==
  ASSUME Excused, [Next]_vars
  PROVE  Excused'
BY HistoryGrows DEF Excused

QuitDuty == Duty("quit", "self")

LEMMA QuitDutyDiffers ==
  /\ QuitDuty # Request
  /\ \A x : /\ QuitDuty # Duty("fragment", x) /\ QuitDuty # Duty("ack", x)
            /\ QuitDuty # Duty("acked", x) /\ QuitDuty # Duty("response", x)
BY DEF QuitDuty, Duty, Request

\* Nothing has ended, and nothing is about to.
Running ==
  /\ ~ SenderFinished /\ npc \notin {"ending", "join", "stopped", "panicked"}
  /\ ~ IsIn(QuitDuty, duty)

LEMMA EndInvIsRunning == EndInv <=> Running \/ Excused
BY DEF EndInv, Running, QuitDuty

LEMMA RunningSender ==
  ASSUME TypeInv, Running, SenderStep, UNCHANGED nodeVars
  PROVE  Running' \/ Excused'
<1> USE DEF Running, SenderFinished, nodeVars
<1>1. CASE ReceiveDuty
  <2>1. Head(duty) \in DutyMessage
    BY <1>1, TailType DEF ReceiveDuty, TypeInv, TypeOK
  <2>2. Head(duty) # QuitDuty /\ ~ IsIn(QuitDuty, duty')
    BY <1>1, SameIfTaken DEF TypeInv, Same
  <2>3. spc' = "process"
    BY <1>1, <2>1, <2>2, DutyCases
       DEF ReceiveDuty, HandleNewPacket, RetainAcked, StopSender, QuitDuty
  <2> QED
    BY <2>2, <2>3
<1>2. CASE FloodPanics
  <2>1. gone' # {}
    BY <1>2 DEF FloodPanics
  <2> QED
    BY <2>1 DEF Excused
<1>3. CASE ~ ReceiveDuty /\ ~ FloodPanics
  <2>1. UNCHANGED duty /\ spc' \notin {"stopped", "panicked"}
    BY <1>3 DEF SenderStep, DutyTimeout, BeginPass, RoutePacket, BatchDone,
       ResendFragment, SkipFragment, ResendDone, FloodRequest, AnswerFlood,
       EndPass
  <2> QED
    BY <2>1
<1> QED
  BY <1>1, <1>2, <1>3

LEMMA RunningTrigger ==
  ASSUME TypeInv, Running, TriggerDiscovery, UNCHANGED spc
  PROVE  Running'
BY SameIfTriggered, QuitDutyDiffers
   DEF Running, SenderFinished, TriggerDiscovery, TypeInv, Same

\* Commands leave the channel at the head, and none but "quit" stops the
\* application: where Quit was issued, it is taken or still there.
LEMMA QuitKept ==
  ASSUME TypeInv, CommandsInv, QuitInv, [Next]_vars
  PROVE  QuitInv'
<1>1. ASSUME NEW c \in Command, c.kind = "quit",
             IsIn(c, commands), ~ IsIn(c, commands')
      PROVE  saved'
  <2>1. CASE IssueCommand
    <3>1. PICK d \in Command \ issued : commands' = Append(commands, d)
      BY <2>1 DEF IssueCommand
    <3> QED
      BY <1>1, <3>1, InAppend DEF TypeInv, TypeOK
  <2>2. ASSUME NEW kind, TakeCommand(kind), kind # "quit"
        PROVE  FALSE
    BY <1>1, <2>2, InTail DEF TakeCommand, TypeInv, TypeOK
  <2>3. CASE NodeStep
    BY <1>1, <2>2, <2>3 DEF NodeStep, Start, NoticeSenderEnd, EndDiscovery,
       PublishTopology, ReachSelect, SelectTimeout, ChangeNeighbours,
       TriggerAfterChange, SendMessage, Quit, CommandsClosed, TakeTrigger,
       SenderChannelClosed, PacketsClosed, QuitSender, JoinSender
  <2> QED
    BY <1>1, <2>1, <2>3 DEF Next, vars, nodeVars, HandlePacket,
       DiscoveryTimeElapses, CutOff, HopQuits
<1>2. ASSUME ~ QuitIssued, QuitIssued'
      PROVE  \E c \in Command : c.kind = "quit" /\ IsIn(c, commands')
  <2>1. CASE IssueCommand
    <3>1. PICK c \in Command \ issued :
            commands' = Append(commands, c) /\ issued' = issued \cup {c}
      BY <2>1 DEF IssueCommand
    <3>2. c.kind = "quit"
      BY <1>2, <3>1 DEF QuitIssued
    <3>3. IsIn(c, commands')
      BY <3>1, InAppend DEF TypeInv, TypeOK
    <3> QED
      BY <3>1, <3>2, <3>3
  <2>2. CASE UNCHANGED issued
    BY <1>2, <2>2 DEF QuitIssued
  <2> QED
    BY <2>1, <2>2, CommandSteps DEF TakeCommand
<1>3. cut_off' = "late" => QuitIssued \/ cut_off = "late"
  <2>1. CASE NodeStep
    BY <2>1 DEF NodeStep, Start, NoticeSenderEnd, EndDiscovery,
       PublishTopology, ReachSelect, SelectTimeout, ChangeNeighbours,
       TriggerAfterChange, SendMessage, Quit, CommandsClosed, TakeTrigger,
       SenderChannelClosed, PacketsClosed, QuitSender, JoinSender
  <2> QED
    BY <2>1 DEF Next, vars, nodeVars, HandlePacket, DiscoveryTimeElapses,
       IssueCommand, CutOff, HopQuits
<1>4. QuitIssued => QuitIssued'
  BY HistoryGrows DEF QuitIssued
<1> QED
  BY <1>1, <1>2, <1>3, <1>4, HistoryGrows DEF QuitInv

LEMMA QuitInvariant == Spec => []QuitInv
<1>1. Init => QuitInv
  BY DEF Init, QuitInv, QuitIssued
<1>2. TypeInv /\ CommandsInv /\ QuitInv /\ [Next]_vars => QuitInv'
  BY QuitKept
<1> QED
  BY <1>1, <1>2, TypeInvariant, CommandsInvariant, PTL DEF Spec

LEMMA RunningNode ==
  ASSUME TypeInv, CommandsInv, QuitInv, Running, NodeStep
  PROVE  Running' \/ Excused'
<1> USE DEF SenderFinished, senderVars, senderPrivate
<1>1. CASE Start
  BY <1>1, RunningTrigger DEF Start
<1>2. CASE NoticeSenderEnd
  BY <1>2 DEF NoticeSenderEnd, Running
<1>3. CASE EndDiscovery
  BY <1>3 DEF EndDiscovery, Running
<1>4. CASE PublishTopology
  BY <1>4 DEF PublishTopology, Running
<1>5. CASE ReachSelect
  BY <1>5 DEF ReachSelect, Running
<1>6. CASE SelectTimeout
  BY <1>6 DEF SelectTimeout, Running
<1>7. ASSUME NEW kind, ChangeNeighbours(kind)
      PROVE  Running'
  BY <1>7 DEF ChangeNeighbours, Running
<1>8. CASE TriggerAfterChange
  BY <1>8, RunningTrigger DEF TriggerAfterChange
<1>9. CASE SendMessage
  <2>1. /\ ~ SenderFinished
        /\ duty' = duty \o FragmentDuties(Head(commands).of)
        /\ npc' = "loop" /\ UNCHANGED spc
    BY <1>9 DEF SendMessage, Running
  <2>2. Head(commands).of \in Seq(Fragment)
    BY <1>9, TakenIsIssued, CommandTypes DEF SendMessage
  <2>3. ~ IsIn(QuitDuty, duty')
    BY <2>1, <2>2, SameIfSent, QuitDutyDiffers DEF Running, TypeInv, TypeOK
  <2> QED
    BY <2>1, <2>3 DEF Running
<1>10. CASE Quit
  BY <1>10 DEF Quit, Excused
<1>11. CASE CommandsClosed
  <2>1. Head(commands) \in issued /\ Head(commands).kind = "close"
    BY <1>11, TakenIsIssued DEF CommandsClosed
  <2> QED
    BY <1>11, <2>1 DEF CommandsClosed, Excused
<1>12. CASE TakeTrigger
  BY <1>12, RunningTrigger DEF TakeTrigger
<1>13. CASE SenderChannelClosed
  BY <1>13 DEF SenderChannelClosed, Running
<1>14. CASE QuitSender
  BY <1>14 DEF QuitSender, Running
<1>15. CASE JoinSender
  BY <1>15 DEF JoinSender, Running
<1>16. CASE PacketsClosed
  <2>1. \A c : ~ IsIn(c, commands)
    BY <1>16, InEmpty DEF PacketsClosed
  <2>2. cut_off = "late" => saved
    BY <2>1 DEF QuitInv
  <2>3. cut_off = "early" \/ cut_off = "late"
    BY <1>16 DEF PacketsClosed, TypeInv, TypeOK
  <2> QED
    BY <1>16, <2>2, <2>3 DEF PacketsClosed, Excused
<1> QED
  BY <1>1, <1>2, <1>3, <1>4, <1>5, <1>6, <1>7, <1>8, <1>9, <1>10, <1>11, <1>12,
     <1>13, <1>14, <1>15, <1>16 DEF NodeStep

LEMMA RunningPacket ==
  ASSUME TypeInv, Running, HandlePacket
  PROVE  Running'
<1>1. UNCHANGED spc
  BY DEF HandlePacket, senderPrivate
<1>2. CASE ReceiveNack
  BY <1>1, <1>2, RunningTrigger DEF ReceiveNack
<1>3. ASSUME npc' = "loop", ~ IsIn(QuitDuty, duty')
      PROVE  Running'
  BY <1>1, <1>3 DEF Running, SenderFinished
<1>4. npc' = "loop"
  BY DEF HandlePacket, TakePacket
<1>5. ASSUME NEW a \in Incoming, ReceiveFragment(a)
      PROVE  ~ IsIn(QuitDuty, duty')
  <2> DEFINE ds == Append(duty, Duty("ack", a))
  <2>1. AnswerTo[a] \in Seq(Fragment) /\ ds \in Seq(DutyMessage)
    BY HostAssumption, DutyTypes, AppendType DEF HostAssumption, TypeInv, TypeOK
  <2>2. ~ IsIn(QuitDuty, ds)
    BY InAppend, QuitDutyDiffers DEF Running, TypeInv, TypeOK
  <2>3. duty' = ds \o FragmentDuties(AnswerTo[a])
    BY <1>5 DEF ReceiveFragment
  <2> HIDE DEF ds
  <2> QED
    BY <2>1, <2>2, <2>3, SameIfSent, QuitDutyDiffers
<1>6. ASSUME NEW f \in Fragment, ReceiveAck(f)
      PROVE  ~ IsIn(QuitDuty, duty')
  BY <1>6, SameIfAppended, QuitDutyDiffers DEF ReceiveAck, Running, TypeInv, Same
<1>7. CASE ReceiveFloodRequest
  <2>1. ~ IsIn(QuitDuty, duty')
    BY <1>7, SameIfAppended, QuitDutyDiffers
       DEF ReceiveFloodRequest, Running, TypeInv, Same
  <2> QED
    BY <1>3, <1>4, <2>1
<1>8. ASSUME NEW link, ReceiveFloodResponse(link)
      PROVE  ~ IsIn(QuitDuty, duty')
  BY <1>8 DEF ReceiveFloodResponse, Running
<1> QED
  BY <1>2, <1>3, <1>4, <1>5, <1>6, <1>7, <1>8 DEF HandlePacket

LEMMA EndInvariant == Spec => []EndInv
<1>1. Init => EndInv
  BY InEmpty DEF Init, SenderInit, EndInv, SenderFinished
<1>2. TypeInv /\ CommandsInv /\ QuitInv /\ EndInv /\ [Next]_vars => EndInv'
  <2> SUFFICES ASSUME TypeInv, CommandsInv, QuitInv, Running \/ Excused,
                      [Next]_vars
               PROVE  Running' \/ Excused'
    BY EndInvIsRunning DEF EndInv, Running, QuitDuty, Excused, SenderFinished
  <2>1. CASE Excused
    BY <2>1, ExcusedStays
  <2>2. CASE Running /\ ~ Excused
    <3>1. CASE \/ UNCHANGED vars \/ DiscoveryTimeElapses \/ IssueCommand
               \/ CutOff \/ HopQuits
               \/ BackOffElapses /\ UNCHANGED nodeVars
      BY <2>2, <3>1 DEF vars, senderVars, nodeVars, Running, SenderFinished,
         DiscoveryTimeElapses, IssueCommand, CutOff, HopQuits, BackOffElapses
    <3>2. CASE SenderStep /\ UNCHANGED nodeVars
      BY <2>2, <3>2, RunningSender
    <3>3. CASE NodeStep
      BY <2>2, <3>3, RunningNode
    <3>4. CASE HandlePacket
      BY <2>2, <3>4, RunningPacket
    <3> QED
      BY <3>1, <3>2, <3>3, <3>4 DEF Next
  <2> QED
    BY <2>1, <2>2
<1> QED
  BY <1>1, <1>2, TypeInvariant, CommandsInvariant, QuitInvariant,
     PTL DEF Spec

\* No thread ends unless the application was stopped, or the controller
\* dropped the host, or a neighbour its receiver, or all senders of packets were
\* gone before Quit was issued: whatever else happens, and in whatever order.
THEOREM EndsOnlySaved == Spec => []EndsSaved
<1>1. EndInv => EndsSaved
  BY DEF EndInv, EndsSaved, Excused, NodeFinished
<1> QED
  BY <1>1, EndInvariant, PTL

-----------------------------------------------------------------------------
(* Routes begin with neighbours *)

LEMMA RouteSender ==
  ASSUME RouteInv, SenderStep, UNCHANGED nodeVars
  PROVE  RouteInv'
<1> USE DEF RouteInv, RoutesUseNeighbours, nodeVars, sharedVars
<1>1. CASE FloodRequest
  BY <1>1 DEF FloodRequest
<1>2. CASE FloodPanics
  BY <1>2 DEF FloodPanics
<1>3. CASE ~ FloodRequest /\ ~ FloodPanics
  <2>1. UNCHANGED <<flooded, neighbors, network_topology, ongoing>>
    BY <1>3 DEF SenderStep, ReceiveDuty, DutyTimeout, BeginPass, RoutePacket,
       BatchDone, ResendFragment, SkipFragment, ResendDone, AnswerFlood, EndPass
  <2> QED
    BY <2>1
<1> QED
  BY <1>1, <1>2, <1>3

\* A discovery starts: nothing is known of it yet.
LEMMA RouteTrigger ==
  ASSUME TriggerDiscovery
  PROVE  RouteInv'
BY DEF TriggerDiscovery, RouteInv, RoutesUseNeighbours

LEMMA RouteNode ==
  ASSUME RouteInv, NodeStep
  PROVE  RouteInv'
<1> USE DEF RouteInv, RoutesUseNeighbours, senderVars, senderPrivate
<1>1. CASE Start \/ TriggerAfterChange \/ TakeTrigger
  <2>1. TriggerDiscovery
    BY <1>1 DEF Start, TriggerAfterChange, TakeTrigger
  <2> QED
    BY <2>1, RouteTrigger
<1>2. CASE \/ NoticeSenderEnd \/ ReachSelect \/ SelectTimeout \/ Quit
           \/ CommandsClosed \/ SenderChannelClosed
           \/ PacketsClosed \/ JoinSender
  BY <1>2 DEF NoticeSenderEnd, ReachSelect, SelectTimeout, Quit,
     CommandsClosed, TakeCommand, SenderChannelClosed, PacketsClosed,
     JoinSender
<1>3. CASE EndDiscovery
  BY <1>3 DEF EndDiscovery
<1>4. CASE PublishTopology
  BY <1>4 DEF PublishTopology
<1>5. ASSUME NEW kind, ChangeNeighbours(kind)
      PROVE  RouteInv'
  BY <1>5 DEF ChangeNeighbours, TakeCommand
<1>6. CASE SendMessage
  BY <1>6 DEF SendMessage, TakeCommand
<1>7. CASE QuitSender
  BY <1>7 DEF QuitSender
<1> QED
  BY <1>1, <1>2, <1>3, <1>4, <1>5, <1>6, <1>7 DEF NodeStep

LEMMA RoutePacketArrives ==
  ASSUME RouteInv, HandlePacket
  PROVE  RouteInv'
<1>1. CASE ReceiveNack
  BY <1>1, RouteTrigger DEF ReceiveNack
<1>2. ASSUME NEW link, ReceiveFloodResponse(link)
      PROVE  RouteInv'
  BY <1>2 DEF HandlePacket, TakePacket, ReceiveFloodResponse, RouteInv,
     RoutesUseNeighbours
<1>3. CASE UNCHANGED <<ongoing, flooded, responses>>
  BY <1>3 DEF HandlePacket, TakePacket, RouteInv, RoutesUseNeighbours
<1> QED
  BY <1>1, <1>2, <1>3 DEF HandlePacket, ReceiveFragment, ReceiveAck,
     ReceiveFloodRequest

LEMMA RouteInvariant == Spec => []RouteInv
<1>1. Init => RouteInv
  BY DEF Init, SenderInit, RouteInv, RoutesUseNeighbours
<1>2. RouteInv /\ [Next]_vars => RouteInv'
  <2> SUFFICES ASSUME RouteInv, [Next]_vars
               PROVE  RouteInv'
    OBVIOUS
  <2>1. CASE \/ UNCHANGED vars \/ DiscoveryTimeElapses \/ IssueCommand
             \/ CutOff \/ HopQuits
             \/ BackOffElapses /\ UNCHANGED nodeVars
    BY <2>1 DEF vars, senderVars, nodeVars, sharedVars, DiscoveryTimeElapses,
       IssueCommand, CutOff, HopQuits, BackOffElapses, RouteInv,
       RoutesUseNeighbours
  <2>2. CASE SenderStep /\ UNCHANGED nodeVars
    BY <2>2, RouteSender
  <2> QED
    BY <2>1, <2>2, RouteNode, RoutePacketArrives DEF Next
<1> QED
  BY <1>1, <1>2, PTL DEF Spec

\* Between discoveries no route begins with a hop that is no neighbour, however
\* neighbours come and go, and whatever late responses are merged.
THEOREM RoutesAreCurrent == Spec => []RoutesUseNeighbours
<1>1. RouteInv => RoutesUseNeighbours
  BY DEF RouteInv
<1> QED
  BY <1>1, RouteInvariant, PTL

-----------------------------------------------------------------------------
(* What is known of the network before the first removal *)

LEMMA RemovalsStay ==
  ASSUME Removals, [Next]_vars
  PROVE  Removals'
BY HistoryGrows DEF Removals

LEMMA LearnedTrigger ==
  ASSUME TriggerDiscovery, LearnedInv, UNCHANGED <<neighbors, network_topology>>,
         [Next]_vars
  PROVE  LearnedInv'
BY RemovalsStay DEF LearnedInv, TriggerDiscovery

LEMMA LearnedStays ==
  ASSUME TypeInv, CommandsInv, LearnedInv, [Next]_vars
  PROVE  LearnedInv'
<1>1. CASE Removals
  BY <1>1, RemovalsStay DEF LearnedInv
<1>2. CASE UNCHANGED <<flooded, neighbors, responses, network_topology>>
  BY <1>2, RemovalsStay DEF LearnedInv
<1>3. CASE SenderStep /\ UNCHANGED nodeVars
  <2>1. flooded' \subseteq neighbors \/ UNCHANGED flooded
    BY <1>3 DEF SenderStep, ReceiveDuty, DutyTimeout, BeginPass, RoutePacket,
       BatchDone, ResendFragment, SkipFragment, ResendDone, FloodRequest,
       FloodPanics, AnswerFlood, EndPass
  <2>2. UNCHANGED <<neighbors, network_topology, responses>>
    BY <1>3 DEF SenderStep, ReceiveDuty, DutyTimeout, BeginPass, RoutePacket,
       BatchDone, ResendFragment, SkipFragment, ResendDone, FloodRequest,
       FloodPanics, AnswerFlood, EndPass, sharedVars, nodeVars
  <2> QED
    BY <2>1, <2>2, RemovalsStay DEF LearnedInv
<1>4. CASE Start \/ TriggerAfterChange \/ TakeTrigger
  BY <1>4, LearnedTrigger DEF Start, TriggerAfterChange, TakeTrigger
<1>5. CASE PublishTopology
  BY <1>5, RemovalsStay DEF PublishTopology, LearnedInv
<1>6. CASE ChangeNeighbours("add")
  BY <1>6, RemovalsStay DEF ChangeNeighbours, LearnedInv
<1>7. CASE ChangeNeighbours("remove")
  <2>1. Head(commands) \in issued /\ Head(commands).kind = "remove"
    BY <1>7, TakenIsIssued DEF ChangeNeighbours
  <2> QED
    BY <1>1, <2>1 DEF Removals
<1>8. CASE HandlePacket
  <2>1. UNCHANGED <<neighbors, network_topology>>
    BY <1>8 DEF HandlePacket
  <2>2. CASE ReceiveNack
    BY <2>1, <2>2, LearnedTrigger DEF ReceiveNack
  <2>3. ASSUME NEW link, ReceiveFloodResponse(link)
        PROVE  LearnedInv'
    BY <2>1, <2>3, RemovalsStay DEF ReceiveFloodResponse, LearnedInv
  <2> QED
    BY <1>2, <1>8, <2>1, <2>2, <2>3 DEF HandlePacket, ReceiveFragment,
       ReceiveAck, ReceiveFloodRequest
<1>9. CASE \/ UNCHANGED vars \/ DiscoveryTimeElapses \/ IssueCommand
           \/ CutOff \/ HopQuits
           \/ BackOffElapses /\ UNCHANGED nodeVars
  <2>1. UNCHANGED <<flooded, neighbors, responses, network_topology>>
    BY <1>9 DEF vars, senderVars, nodeVars, sharedVars, DiscoveryTimeElapses,
       IssueCommand, CutOff, HopQuits, BackOffElapses
  <2> QED
    BY <1>2, <2>1
<1>10. CASE \/ NoticeSenderEnd \/ EndDiscovery \/ ReachSelect \/ SelectTimeout
            \/ SendMessage \/ Quit \/ CommandsClosed \/ SenderChannelClosed
            \/ PacketsClosed
            \/ QuitSender \/ JoinSender
  <2>1. UNCHANGED <<flooded, neighbors, responses, network_topology>>
    BY <1>10 DEF senderVars, NoticeSenderEnd, EndDiscovery, ReachSelect,
       SelectTimeout, SendMessage, Quit, CommandsClosed, SenderChannelClosed,
       PacketsClosed, QuitSender, JoinSender
  <2> QED
    BY <1>2, <2>1
<1> QED
  BY <1>3, <1>4, <1>5, <1>6, <1>7, <1>8, <1>9, <1>10 DEF Next, NodeStep

LEMMA LearnedInvariant == Spec => []LearnedInv
<1>1. Init => LearnedInv
  BY DEF Init, SenderInit, LearnedInv
<1>2. TypeInv /\ CommandsInv /\ LearnedInv /\ [Next]_vars => LearnedInv'
  BY LearnedStays
<1> QED
  BY <1>1, <1>2, TypeInvariant, CommandsInvariant, PTL DEF Spec

-----------------------------------------------------------------------------
(* Acks are not lost between the threads *)

\* Most steps neither add an Ack or a fragment to the channel nor take one.
LEMMA DutyFrame ==
  ASSUME TypeInv, [Next]_vars, ~ (ReceiveDuty /\ UNCHANGED nodeVars),
         ~ SendMessage,
         \A a \in Incoming : ~ (HandlePacket /\ ReceiveFragment(a)),
         NEW x, x.kind \in {"ack", "fragment"}
  PROVE  Same(x)
<1>1. /\ x # Request /\ x # QuitDuty /\ x # Duty("response", "other")
      /\ \A f : x # Duty("acked", f)
  BY DEF Request, QuitDuty, Duty
<1>2. CASE UNCHANGED duty
  BY <1>2, SameIfUnchanged
<1>3. CASE TriggerDiscovery
  BY <1>1, <1>3, SameIfTriggered DEF TypeInv
<1>4. ASSUME NEW e, duty' = Append(duty, e), x # e
      PROVE  Same(x)
  BY <1>4, SameIfAppended DEF TypeInv
<1>5. CASE SenderStep /\ UNCHANGED nodeVars
  BY <1>2, <1>5 DEF SenderStep, DutyTimeout, BeginPass, RoutePacket, BatchDone,
     ResendFragment, SkipFragment, ResendDone, FloodRequest, FloodPanics,
     AnswerFlood, EndPass
<1>6. CASE NodeStep
  <2>1. CASE QuitSender
    BY <1>1, <1>2, <1>4, <2>1 DEF QuitSender, QuitDuty
  <2> QED
    BY <1>2, <1>3, <1>6, <2>1 DEF NodeStep, Start, NoticeSenderEnd,
       EndDiscovery, PublishTopology, ReachSelect, SelectTimeout,
       ChangeNeighbours, TriggerAfterChange, Quit, CommandsClosed, TakeTrigger,
       SenderChannelClosed, PacketsClosed, JoinSender, senderVars
<1>7. CASE HandlePacket
  BY <1>1, <1>2, <1>3, <1>4, <1>7 DEF HandlePacket, ReceiveAck,
     ReceiveFloodRequest, ReceiveFloodResponse, ReceiveNack
<1>8. CASE \/ UNCHANGED vars \/ DiscoveryTimeElapses \/ IssueCommand
           \/ CutOff \/ HopQuits
           \/ BackOffElapses /\ UNCHANGED nodeVars
  BY <1>2, <1>8 DEF vars, senderVars, DiscoveryTimeElapses, IssueCommand,
     CutOff, HopQuits, BackOffElapses
<1> QED
  BY <1>5, <1>6, <1>7, <1>8 DEF Next

ackVars == <<packet_send_queue, batch, acks_out, acks_lost, received>>

LEMMA AckFrame ==
  ASSUME NEW a \in Incoming, AckOK(a), UNCHANGED ackVars, Same(Duty("ack", a))
  PROVE  AckOK(a)'
BY DEF AckOK, ackVars, Same

\* The sender thread takes a message.
LEMMA AckTaken ==
  ASSUME TypeInv, NEW a \in Incoming, AckOK(a), ReceiveDuty, UNCHANGED received
  PROVE  AckOK(a)'
<1> DEFINE m == Head(duty)
           x == Duty("ack", a)
<1>1. /\ m \in DutyMessage
      /\ UNCHANGED <<batch, acks_out, acks_lost>>
  BY TailType DEF ReceiveDuty, TypeInv, TypeOK
<1>2. CASE m.kind = "ack"
  <2>1. m = Duty("ack", m.of) /\ m.of \in Incoming
    BY <1>1, <1>2, DutyCases
  <2>2. packet_send_queue' = Append(packet_send_queue, m.of)
    BY <1>2 DEF ReceiveDuty, HandleNewPacket, RetainAcked, StopSender
  <2>3. /\ IsIn(a, packet_send_queue') <=> IsIn(a, packet_send_queue) \/ a = m.of
        /\ Once(a, packet_send_queue) /\ (a = m.of => ~ IsIn(a, packet_send_queue))
             => Once(a, packet_send_queue')
    BY <2>2, InAppend DEF TypeInv, TypeOK
  <2>4. x = m <=> a = m.of
    BY <2>1 DEF Duty
  <2>5. /\ x # m => Same(x)
        /\ x = m => IsIn(x, duty) /\ (Once(x, duty) => ~ IsIn(x, duty'))
    BY SameIfTaken DEF TypeInv
  <2>6. ~ IsIn(x, duty') => Once(x, duty')
    BY DEF IsIn, Once
  <2> HIDE DEF m, x
  <2>7. CASE x = m
    <3>1. /\ IsIn(x, duty) /\ Once(x, duty)
          /\ ~ IsIn(a, packet_send_queue) /\ ~ IsIn(a, batch)
          /\ a \notin acks_out /\ a \notin acks_lost
          /\ Once(a, packet_send_queue) /\ Once(a, batch) /\ a \in received
      BY <2>5, <2>7 DEF AckOK, x
    <3>2. /\ ~ IsIn(x, duty') /\ Once(x, duty')
          /\ IsIn(a, packet_send_queue') /\ Once(a, packet_send_queue')
      BY <2>3, <2>4, <2>5, <2>6, <2>7, <3>1
    <3> QED
      BY <1>1, <3>1, <3>2 DEF AckOK, x
  <2>8. CASE x # m
    BY <1>1, <2>3, <2>4, <2>5, <2>8 DEF AckOK, x, Same
  <2> QED
    BY <2>7, <2>8
<1>3. CASE m.kind # "ack"
  <2>1. UNCHANGED packet_send_queue
    BY <1>3 DEF ReceiveDuty, HandleNewPacket, RetainAcked, StopSender
  <2>2. x # m
    BY <1>3 DEF Duty
  <2>3. Same(x)
    BY <2>2, SameIfTaken DEF TypeInv
  <2> QED
    BY <1>1, <2>1, <2>3, AckFrame DEF ackVars
<1> QED
  BY <1>2, <1>3

LEMMA AckBatched ==
  ASSUME TypeInv, NEW a \in Incoming, AckOK(a), BeginPass, UNCHANGED received
  PROVE  AckOK(a)'
<1>1. Same(Duty("ack", a))
  BY SameIfUnchanged DEF BeginPass
<1>2. CASE ongoing
  BY <1>1, <1>2, AckFrame DEF BeginPass, ackVars
<1>3. CASE ~ ongoing
  <2>1. batch = <<>> /\ batch' = packet_send_queue /\ packet_send_queue' = <<>>
    BY <1>3 DEF BeginPass, TypeInv, PassOK
  <2>2. /\ ~ IsIn(a, batch) /\ ~ IsIn(a, packet_send_queue')
        /\ Once(a, packet_send_queue')
    BY <2>1, InEmpty
  <2>3. UNCHANGED <<acks_out, acks_lost, received>>
    BY DEF BeginPass
  <2> QED
    BY <1>1, <2>1, <2>2, <2>3 DEF AckOK, Same
<1> QED
  BY <1>2, <1>3

LEMMA AckRouted ==
  ASSUME TypeInv, NEW a \in Incoming, AckOK(a), RoutePacket, UNCHANGED received
  PROVE  AckOK(a)'
<1> DEFINE b == Head(batch)
           x == Duty("ack", a)
<1>1. Same(x)
  BY SameIfUnchanged DEF RoutePacket
<1>2. /\ IsIn(a, batch) <=> a = b \/ IsIn(a, batch')
      /\ Once(a, batch) => Once(a, batch') /\ (a = b => ~ IsIn(a, batch'))
  BY InTail DEF RoutePacket, TypeInv, TypeOK
<1>3. /\ IsIn(a, Requeued(b)) <=> IsIn(a, packet_send_queue) \/ a = b
      /\ Once(a, packet_send_queue) /\ (a = b => ~ IsIn(a, packet_send_queue))
           => Once(a, Requeued(b))
  BY InAppend DEF Requeued, TypeInv, TypeOK
<1>4. \/ /\ acks_out' = acks_out \cup {b}
         /\ UNCHANGED <<packet_send_queue, acks_lost>>
      \/ /\ acks_lost' = acks_lost \cup {b}
         /\ UNCHANGED <<packet_send_queue, acks_out>>
      \/ /\ packet_send_queue' = Requeued(b)
         /\ UNCHANGED <<acks_out, acks_lost>>
  BY DEF RoutePacket
<1> HIDE DEF b
<1>5. CASE a # b
  BY <1>1, <1>2, <1>3, <1>4, <1>5 DEF AckOK, Same
<1>6. CASE a = b
  <2>1. /\ ~ IsIn(x, duty) /\ Once(x, duty)
        /\ ~ IsIn(a, packet_send_queue) /\ Once(a, packet_send_queue)
        /\ a \notin acks_out /\ a \notin acks_lost
        /\ ~ IsIn(a, batch') /\ Once(a, batch') /\ a \in received
    BY <1>2, <1>6 DEF AckOK
  <2>2. ~ IsIn(x, duty') /\ Once(x, duty')
    BY <1>1, <2>1 DEF Same
  <2>3. \/ /\ a \in acks_out' /\ a \notin acks_lost'
           /\ ~ IsIn(a, packet_send_queue') /\ Once(a, packet_send_queue')
        \/ /\ a \in acks_lost' /\ a \notin acks_out'
           /\ ~ IsIn(a, packet_send_queue') /\ Once(a, packet_send_queue')
        \/ /\ a \notin acks_lost' /\ a \notin acks_out'
           /\ IsIn(a, packet_send_queue') /\ Once(a, packet_send_queue')
    BY <1>3, <1>4, <1>6, <2>1
  <2> QED
    BY <2>1, <2>2, <2>3 DEF AckOK
<1> QED
  BY <1>5, <1>6

\* An Ack is lost only on a route whose first hop is not there any more.
LEMMA AckLost ==
  ASSUME LearnedInv, RoutePacket, acks_lost' # acks_lost
  PROVE  Removals
<1>1. "SendError" \in Outcomes(DestOf[Head(batch)])
  BY DEF RoutePacket
<1>2. PICK h \in Routes(DestOf[Head(batch)]) : h \notin neighbors \ gone
  BY <1>1 DEF Outcomes
<1>3. <<h, DestOf[Head(batch)]>> \in network_topology
  BY <1>2 DEF Routes
<1> QED
  BY <1>2, <1>3 DEF LearnedInv, Removals

LEMMA AckAsked ==
  ASSUME TypeInv, NEW a \in Incoming, AckOK(a),
         NEW b \in Incoming, ReceiveFragment(b),
         UNCHANGED <<packet_send_queue, batch, acks_out, acks_lost>>
  PROVE  AckOK(a)'
<1> DEFINE x == Duty("ack", a)
           ds == Append(duty, Duty("ack", b))
<1>1. AnswerTo[b] \in Seq(Fragment) /\ ds \in Seq(DutyMessage)
  BY HostAssumption, DutyTypes, AppendType DEF HostAssumption, TypeInv, TypeOK
<1>2. duty' = ds \o FragmentDuties(AnswerTo[b])
  BY DEF ReceiveFragment
<1>3. /\ IsIn(x, ds) <=> IsIn(x, duty) \/ x = Duty("ack", b)
      /\ Once(x, duty) /\ (x = Duty("ack", b) => ~ IsIn(x, duty)) => Once(x, ds)
  BY InAppend DEF TypeInv, TypeOK
<1>4. x = Duty("ack", b) <=> a = b
  BY DEF Duty
<1>5. \A f : x # Duty("fragment", f)
  BY DEF Duty
<1> HIDE DEF ds, x
<1>6. /\ IsIn(x, duty') <=> IsIn(x, ds)
      /\ Once(x, ds) => Once(x, duty')
  BY <1>1, <1>2, <1>5, SameIfSent
<1>7. b \notin received /\ received' = received \cup {b}
  BY DEF ReceiveFragment
<1> QED
  BY <1>3, <1>4, <1>6, <1>7 DEF AckOK, x

\* The other steps do not touch Acks.
LEMMA AckVarsStay ==
  ASSUME [Next]_vars,
         ~ ((ReceiveDuty \/ BeginPass \/ RoutePacket) /\ UNCHANGED nodeVars),
         \A a \in Incoming : ~ (HandlePacket /\ ReceiveFragment(a))
  PROVE  UNCHANGED ackVars
<1> USE DEF ackVars
<1>1. CASE SenderStep /\ UNCHANGED nodeVars
  BY <1>1 DEF SenderStep, DutyTimeout, BatchDone, ResendFragment, SkipFragment,
     ResendDone, FloodRequest, FloodPanics, AnswerFlood, EndPass, senderHistory,
     nodeVars
<1>2. CASE NodeStep
  BY <1>2 DEF NodeStep, Start, NoticeSenderEnd, EndDiscovery, PublishTopology,
     ReachSelect, SelectTimeout, ChangeNeighbours, TriggerAfterChange,
     SendMessage, Quit, CommandsClosed, TakeTrigger, SenderChannelClosed,
     PacketsClosed, QuitSender, JoinSender, senderVars, senderPrivate,
     senderHistory
<1>3. CASE HandlePacket
  BY <1>3 DEF HandlePacket, ReceiveAck, ReceiveFloodRequest,
     ReceiveFloodResponse, ReceiveNack, senderPrivate, senderHistory
<1>4. CASE \/ UNCHANGED vars \/ DiscoveryTimeElapses \/ IssueCommand
           \/ CutOff \/ HopQuits
           \/ BackOffElapses /\ UNCHANGED nodeVars
  BY <1>4 DEF vars, senderVars, nodeVars, senderHistory, DiscoveryTimeElapses,
     IssueCommand, CutOff, HopQuits, BackOffElapses
<1> QED
  BY <1>1, <1>2, <1>3, <1>4 DEF Next

\* SendMessage sends fragments, not Acks.
LEMMA SendKeepsAcks ==
  ASSUME TypeInv, CommandsInv, SendMessage, NEW a \in Incoming
  PROVE  Same(Duty("ack", a))
<1>1. CASE SenderFinished
  BY <1>1, SameIfUnchanged DEF SendMessage
<1>2. CASE ~ SenderFinished
  <2>1. Head(commands).of \in Seq(Fragment)
    BY TakenIsIssued, CommandTypes DEF SendMessage
  <2>2. duty' = duty \o FragmentDuties(Head(commands).of)
    BY <1>2 DEF SendMessage
  <2>3. \A f : Duty("ack", a) # Duty("fragment", f)
    BY DEF Duty
  <2> QED
    BY <2>1, <2>2, <2>3, SameIfSent DEF Same, TypeInv, TypeOK
<1> QED
  BY <1>1, <1>2

LEMMA AckStep ==
  ASSUME TypeInv, CommandsInv, [Next]_vars, NEW a \in Incoming, AckOK(a)
  PROVE  AckOK(a)'
<1>1. CASE (ReceiveDuty \/ BeginPass \/ RoutePacket) /\ UNCHANGED nodeVars
  BY <1>1, AckTaken, AckBatched, AckRouted DEF nodeVars
<1>2. ASSUME NEW b \in Incoming, HandlePacket, ReceiveFragment(b)
      PROVE  AckOK(a)'
  BY <1>2, AckAsked DEF HandlePacket, senderPrivate, senderHistory
<1>3. CASE /\ ~ ((ReceiveDuty \/ BeginPass \/ RoutePacket) /\ UNCHANGED nodeVars)
           /\ \A b \in Incoming : ~ (HandlePacket /\ ReceiveFragment(b))
  <2>1. UNCHANGED ackVars
    BY <1>3, AckVarsStay
  <2>2. CASE SendMessage
    BY <2>1, <2>2, SendKeepsAcks, AckFrame
  <2>3. CASE ~ SendMessage
    <3>1. Same(Duty("ack", a))
      BY <1>3, <2>3, DutyFrame DEF Duty
    <3> QED
      BY <2>1, <3>1, AckFrame
  <2> QED
    BY <2>2, <2>3
<1> QED
  BY <1>1, <1>2, <1>3

LEMMA AckNext ==
  ASSUME TypeInv, CommandsInv, LearnedInv, AckInv, [Next]_vars
  PROVE  AckInv'
<1>1. \A a \in Incoming : AckOK(a)'
  BY AckStep DEF AckInv
<1>2. CASE RoutePacket
  BY <1>1, <1>2, AckLost, RemovalsStay DEF AckInv
<1>3. CASE ~ RoutePacket
  <2>1. UNCHANGED acks_lost
    <3>1. CASE SenderStep
      BY <1>3, <3>1 DEF SenderStep, ReceiveDuty, DutyTimeout, BeginPass,
         BatchDone, ResendFragment, SkipFragment, ResendDone, FloodRequest,
         FloodPanics, AnswerFlood, EndPass, senderHistory
    <3>2. CASE NodeStep
      BY <3>2 DEF NodeStep, Start, NoticeSenderEnd, EndDiscovery,
         PublishTopology, ReachSelect, SelectTimeout, ChangeNeighbours,
         TriggerAfterChange, SendMessage, Quit, CommandsClosed, TakeTrigger,
         SenderChannelClosed, PacketsClosed, QuitSender, JoinSender,
         senderVars, senderPrivate, senderHistory
    <3> QED
      BY <3>1, <3>2 DEF Next, vars, senderVars, senderHistory, HandlePacket,
         senderPrivate, BackOffElapses, DiscoveryTimeElapses, IssueCommand,
         CutOff, HopQuits
  <2> QED
    BY <1>1, <2>1, RemovalsStay DEF AckInv
<1> QED
  BY <1>2, <1>3

LEMMA AckInvariant == Spec => []AckInv
<1>1. Init => AckInv
  BY InEmpty DEF Init, SenderInit, AckInv, AckOK
<1>2. TypeInv /\ CommandsInv /\ LearnedInv /\ AckInv /\ [Next]_vars => AckInv'
  BY AckNext
<1> QED
  BY <1>1, <1>2, TypeInvariant, CommandsInvariant, LearnedInvariant, PTL DEF Spec

\* No Ack is forgotten, or sent twice, while both threads, the controller and
\* the network go on; it is dropped only if a neighbour was removed or ended.
THEOREM AcksAreConserved == Spec => []AckConserved
<1>1. AckInv => AckConserved
  BY DEF AckInv, AckOK, AckConserved, Removals
<1> QED
  BY <1>1, AckInvariant, PTL

-----------------------------------------------------------------------------
(* Fragments are not lost between the threads *)

fragmentVars == <<submitted, ackable_packet_send_queue, acked, given_up,
                  attempts>>

\* The command has not been carried out.
Pending(c) == c \notin issued \/ IsIn(c, commands)

LEMMA PendingShrinks ==
  ASSUME TypeInv, [Next]_vars, NEW c \in Command, Pending(c)'
  PROVE  Pending(c)
<1>1. CASE UNCHANGED <<commands, issued>>
  BY <1>1 DEF Pending
<1>2. CASE IssueCommand
  <2>1. PICK d \in Command \ issued :
          commands' = Append(commands, d) /\ issued' = issued \cup {d}
    BY <1>2 DEF IssueCommand
  <2>2. IsIn(c, commands') => IsIn(c, commands) \/ c = d
    BY <2>1, InAppend DEF TypeInv, TypeOK
  <2> QED
    BY <2>1, <2>2 DEF Pending
<1>3. ASSUME NEW kind, TakeCommand(kind), UNCHANGED issued
      PROVE  Pending(c)
  BY <1>3, InTail DEF TakeCommand, TypeInv, TypeOK, Pending
<1> QED
  BY <1>1, <1>2, <1>3, CommandSteps

\* A command that is carried out is done with.
LEMMA TakenIsDone ==
  ASSUME TypeInv, CommandsInv, NEW kind, TakeCommand(kind), UNCHANGED issued,
         NEW c, c = Head(commands)
  PROVE  Pending(c) /\ ~ Pending(c)'
<1>1. c \in Command /\ c \in issued /\ IsIn(c, commands)
  BY TakenIsIssued
<1>2. Once(c, commands)
  BY <1>1 DEF CommandsInv
<1>3. ~ IsIn(c, commands')
  BY <1>2, InTail DEF TakeCommand, TypeInv, TypeOK
<1> QED
  BY <1>1, <1>3 DEF Pending

LEMMA FragmentFrame ==
  ASSUME NEW f \in Fragment, FragmentOK(f), UNCHANGED fragmentVars,
         Same(Duty("fragment", f))
  PROVE  FragmentOK(f)'
BY DEF FragmentOK, fragmentVars, Same, InQueue, OnTheWay

\* The sender thread takes a message.
LEMMA FragmentTaken ==
  ASSUME TypeInv, NEW f \in Fragment, FragmentOK(f), ReceiveDuty,
         UNCHANGED submitted
  PROVE  FragmentOK(f)'
<1> DEFINE m == Head(duty)
           x == Duty("fragment", f)
           queue == ackable_packet_send_queue
<1>1. m \in DutyMessage /\ UNCHANGED <<attempts, given_up>>
  BY TailType DEF ReceiveDuty, TypeInv, TypeOK
<1>2. /\ x # m => Same(x)
      /\ x = m => IsIn(x, duty) /\ (Once(x, duty) => ~ IsIn(x, duty'))
  BY SameIfTaken DEF TypeInv
<1>3. ~ IsIn(x, duty') => Once(x, duty')
  BY DEF IsIn, Once
<1>4. CASE m.kind = "fragment"
  <2>1. m = Duty("fragment", m.of)
    BY <1>1, <1>4, DutyCases
  <2>2. queue' = QueueWith(m.of) /\ UNCHANGED acked
    BY <1>4 DEF ReceiveDuty, HandleNewPacket, RetainAcked, StopSender
  <2>3. x = m <=> f = m.of
    BY <2>1 DEF Duty
  <2>4. /\ f \in DOMAIN queue' <=> f \in DOMAIN queue \/ f = m.of
        /\ f = m.of => queue'[f].retries = 0
        /\ f # m.of /\ f \in DOMAIN queue => queue'[f] = queue[f]
    BY <2>2 DEF QueueWith, NewItem
  <2> HIDE DEF m, x
  <2>5. CASE x = m
    <3>1. /\ f \in submitted /\ f \notin acked \cup given_up /\ attempts[f] = 0
          /\ Once(x, duty)
      BY <1>2, <2>5 DEF FragmentOK, OnTheWay, x
    <3>2. ~ IsIn(x, duty') /\ Once(x, duty')
      BY <1>2, <1>3, <2>5, <3>1
    <3> QED
      BY <1>1, <2>2, <2>3, <2>4, <2>5, <3>1, <3>2, SenderAssumption
         DEF FragmentOK, OnTheWay, InQueue, x, SenderAssumption
  <2>6. CASE x # m
    BY <1>1, <1>2, <2>2, <2>3, <2>4, <2>6
       DEF FragmentOK, OnTheWay, InQueue, x, Same
  <2> QED
    BY <2>5, <2>6
<1>5. CASE m.kind = "acked"
  <2>1. /\ queue' = Unacked(m.of)
        /\ acked' = acked \cup ({m.of} \cap DOMAIN queue)
    BY <1>5 DEF ReceiveDuty, HandleNewPacket, RetainAcked, StopSender
  <2>2. x # m
    BY <1>5 DEF Duty
  <2>3. /\ f \in DOMAIN queue' <=> f \in DOMAIN queue /\ f # m.of
        /\ f \in DOMAIN queue' => queue'[f] = queue[f]
    BY <2>1 DEF Unacked, Keeping
  <2> HIDE DEF m, x
  <2> QED
    BY <1>1, <1>2, <2>1, <2>2, <2>3
       DEF FragmentOK, OnTheWay, InQueue, x, Same
<1>6. CASE m.kind \notin {"fragment", "acked"}
  <2>1. UNCHANGED <<queue, acked>>
    BY <1>6 DEF ReceiveDuty, HandleNewPacket, RetainAcked, StopSender
  <2>2. x # m
    BY <1>6 DEF Duty
  <2> QED
    BY <1>1, <1>2, <2>1, <2>2, FragmentFrame DEF fragmentVars
<1> QED
  BY <1>4, <1>5, <1>6

LEMMA FragmentGivenUp ==
  ASSUME TypeInv, NEW f \in Fragment, FragmentOK(f), BeginPass,
         UNCHANGED submitted
  PROVE  FragmentOK(f)'
<1> DEFINE queue == ackable_packet_send_queue
<1>1. Same(Duty("fragment", f))
  BY SameIfUnchanged DEF BeginPass
<1>2. /\ queue' = Keeping(Retained)
      /\ given_up' = given_up \cup (DOMAIN queue \ Retained)
      /\ UNCHANGED <<attempts, acked>>
  BY DEF BeginPass
<1>3. /\ f \in DOMAIN queue' <=> f \in Retained
      /\ f \in Retained => f \in DOMAIN queue /\ queue'[f] = queue[f]
  BY <1>2 DEF Keeping, Retained
<1>4. f \in DOMAIN queue /\ f \notin Retained =>
        queue[f].retries = PACKET_RESEND_MAX_RETRIES
  BY SenderAssumption
     DEF Retained, HasRetriesLeft, TypeInv, TypeOK, SenderAssumption
<1> HIDE DEF queue
<1> QED
  BY <1>1, <1>2, <1>3, <1>4
     DEF FragmentOK, OnTheWay, InQueue, Same, queue

LEMMA FragmentResent ==
  ASSUME TypeInv, NEW f \in Fragment, FragmentOK(f),
         NEW g \in Fragment, ResendFragment(g), UNCHANGED submitted
  PROVE  FragmentOK(f)'
<1> DEFINE queue == ackable_packet_send_queue
<1>1. Same(Duty("fragment", f))
  BY SameIfUnchanged DEF ResendFragment
<1>2. /\ queue' = [queue EXCEPT ![g] = Attempted(@)]
      /\ attempts' = [attempts EXCEPT ![g] = @ + 1]
      /\ UNCHANGED <<acked, given_up>>
      /\ g \in unvisited
  BY DEF ResendFragment
<1>3. /\ g \in DOMAIN queue /\ queue[g].retries < PACKET_RESEND_MAX_RETRIES
      /\ queue[g].retries \in Nat
      /\ attempts \in [Fragment -> Nat]
  BY <1>2, SenderAssumption DEF TypeInv, TypeOK, PassOK, SenderAssumption
<1>4. /\ DOMAIN queue' = DOMAIN queue
      /\ queue'[g].retries = queue[g].retries + 1
      /\ f # g /\ f \in DOMAIN queue => queue'[f] = queue[f]
      /\ attempts'[g] = attempts[g] + 1
      /\ f # g => attempts'[f] = attempts[f]
  BY <1>2, <1>3 DEF Attempted
<1> HIDE DEF queue
<1>5. CASE f = g
  BY <1>1, <1>2, <1>3, <1>4, <1>5, SenderAssumption
     DEF FragmentOK, OnTheWay, InQueue, Same, queue, SenderAssumption
<1>6. CASE f # g
  BY <1>1, <1>2, <1>4, <1>6 DEF FragmentOK, OnTheWay, InQueue, Same, queue
<1> QED
  BY <1>5, <1>6

LEMMA FragmentWaits ==
  ASSUME TypeInv, NEW f \in Fragment, FragmentOK(f), BackOffElapses,
         UNCHANGED submitted
  PROVE  FragmentOK(f)'
<1> DEFINE queue == ackable_packet_send_queue
<1>1. Same(Duty("fragment", f))
  BY SameIfUnchanged DEF BackOffElapses
<1>2. /\ DOMAIN queue' = DOMAIN queue
      /\ f \in DOMAIN queue => queue'[f].retries = queue[f].retries
      /\ UNCHANGED <<attempts, acked, given_up>>
  BY DEF BackOffElapses, senderHistory
<1> HIDE DEF queue
<1> QED
  BY <1>1, <1>2 DEF FragmentOK, OnTheWay, InQueue, Same, queue

\* What a message submits is new, and on its way from then on.
LEMMA FragmentSent ==
  ASSUME TypeInv, NEW f \in Fragment, FragmentOK(f),
         NEW ds \in Seq(DutyMessage), NEW fs \in Seq(Fragment), Distinct(fs),
         duty' = ds \o FragmentDuties(fs),
         IsIn(Duty("fragment", f), ds) <=> IsIn(Duty("fragment", f), duty),
         Once(Duty("fragment", f), duty) => Once(Duty("fragment", f), ds),
         submitted' = submitted \cup Members(fs),
         Members(fs) \cap submitted = {},
         UNCHANGED <<ackable_packet_send_queue, acked, given_up, attempts>>
  PROVE  FragmentOK(f)'
<1> DEFINE x == Duty("fragment", f)
<1>1. \A g \in Members(fs) : x = Duty("fragment", g) <=> f = g
  BY DEF Duty
<1>2. /\ f \notin Members(fs) => /\ IsIn(x, duty') <=> IsIn(x, ds)
                                 /\ Once(x, ds) => Once(x, duty')
      /\ f \in Members(fs) => /\ IsIn(x, duty')
                              /\ Once(x, ds) /\ ~ IsIn(x, ds) => Once(x, duty')
  BY <1>1, SameIfSent
<1> HIDE DEF x
<1>3. CASE f \in Members(fs)
  <2>1. f \notin submitted
    BY <1>3
  <2>2. /\ ~ IsIn(x, duty) /\ ~ InQueue(f) /\ f \notin acked \cup given_up
        /\ Once(x, duty) /\ attempts[f] = 0
    BY <2>1 DEF FragmentOK, OnTheWay, x
  <2>3. IsIn(x, duty') /\ Once(x, duty')
    BY <1>2, <1>3, <2>2 DEF x
  <2> QED
    BY <1>3, <2>2, <2>3, SenderAssumption
       DEF FragmentOK, OnTheWay, InQueue, x, SenderAssumption
<1>4. CASE f \notin Members(fs)
  <2>1. Same(x) /\ (f \in submitted' <=> f \in submitted)
    BY <1>2, <1>4 DEF Same, x
  <2> QED
    BY <2>1 DEF FragmentOK, OnTheWay, InQueue, Same, x
<1> QED
  BY <1>3, <1>4

\* The message of a command, if there is one still.
LEMMA MessageSent ==
  ASSUME TypeInv, CommandsInv, FragmentInv, SendMessage, [Next]_vars
  PROVE  FragmentInv'
<1> DEFINE c == Head(commands)
           fs == c.of
<1>1. /\ c \in SendCommands /\ Pending(c) /\ fs \in Seq(Fragment)
      /\ Distinct(fs)
  BY TakenIsIssued, CommandTypes, FreshAssumption
     DEF SendMessage, SendCommands, Pending, FreshAssumption
<1>2. /\ UNCHANGED <<received, issued>>
      /\ UNCHANGED <<ackable_packet_send_queue, acked, given_up, attempts>>
  BY DEF SendMessage, senderPrivate, senderHistory
<1>3. CASE SenderFinished
  <2>1. UNCHANGED <<duty, submitted>>
    BY <1>3 DEF SendMessage
  <2>2. \A f \in Fragment : FragmentOK(f)'
    BY <1>2, <2>1, FragmentFrame, SameIfUnchanged DEF FragmentInv, fragmentVars
  <2>3. Fresh'
    BY <1>2, <2>1, PendingShrinks
       DEF FragmentInv, Fresh, Pending, SendCommands
  <2> QED
    BY <2>2, <2>3 DEF FragmentInv
<1>4. CASE ~ SenderFinished
  <2>1. /\ duty' = duty \o FragmentDuties(fs)
        /\ submitted' = submitted \cup Members(fs)
    BY <1>4 DEF SendMessage
  <2>2. Members(fs) \cap submitted = {}
    BY <1>1 DEF FragmentInv, Fresh, Pending
  <2>3. ASSUME NEW f \in Fragment
        PROVE  FragmentOK(f)'
    BY <1>1, <1>2, <2>1, <2>2, FragmentSent DEF FragmentInv, TypeInv, TypeOK
  <2>4. ASSUME NEW d \in SendCommands, Pending(d)'
        PROVE  Members(d.of) \cap submitted' = {}
    <3>1. d # c
      BY <1>2, <2>4, TakenIsDone DEF SendMessage
    <3>2. d \in Command /\ Pending(d)
      BY <2>4, PendingShrinks DEF SendCommands
    <3>3. Members(d.of) \cap submitted = {}
      BY <3>2 DEF FragmentInv, Fresh, Pending
    <3>4. Members(d.of) \cap Members(fs) = {}
      BY <1>1, <3>1, FreshAssumption DEF FreshAssumption
    <3> QED
      BY <2>1, <3>3, <3>4
  <2>5. ASSUME NEW a \in Incoming \ received'
        PROVE  Members(AnswerTo[a]) \cap submitted' = {}
    <3>1. Members(AnswerTo[a]) \cap submitted = {}
      BY <1>2 DEF FragmentInv, Fresh
    <3>2. Members(AnswerTo[a]) \cap Members(fs) = {}
      BY <1>1, FreshAssumption DEF FreshAssumption
    <3> QED
      BY <2>1, <3>1, <3>2
  <2> HIDE DEF c, fs
  <2> QED
    BY <2>3, <2>4, <2>5 DEF FragmentInv, Fresh, Pending
<1> QED
  BY <1>3, <1>4

\* The answer to a fragment that arrives.
LEMMA AnswerSent ==
  ASSUME TypeInv, FragmentInv, NEW b \in Incoming, ReceiveFragment(b),
         HandlePacket, [Next]_vars
  PROVE  FragmentInv'
<1> DEFINE ds == Append(duty, Duty("ack", b))
           fs == AnswerTo[b]
<1>1. /\ fs \in Seq(Fragment) /\ Distinct(fs) /\ ds \in Seq(DutyMessage)
  BY HostAssumption, FreshAssumption, DutyTypes, AppendType
     DEF HostAssumption, FreshAssumption, TypeInv, TypeOK
<1>2. /\ b \notin received /\ received' = received \cup {b}
      /\ duty' = ds \o FragmentDuties(fs)
      /\ submitted' = submitted \cup Members(fs)
  BY DEF ReceiveFragment
<1>3. UNCHANGED <<ackable_packet_send_queue, acked, given_up, attempts>>
  BY DEF HandlePacket, senderPrivate, senderHistory
<1>4. Members(fs) \cap submitted = {}
  BY <1>2 DEF FragmentInv, Fresh
<1>5. ASSUME NEW f \in Fragment
      PROVE  FragmentOK(f)'
  <2>1. Duty("fragment", f) # Duty("ack", b)
    BY DEF Duty
  <2>2. /\ IsIn(Duty("fragment", f), ds) <=> IsIn(Duty("fragment", f), duty)
        /\ Once(Duty("fragment", f), duty) => Once(Duty("fragment", f), ds)
    BY <2>1, InAppend DEF TypeInv, TypeOK
  <2> HIDE DEF ds, fs
  <2> QED
    BY <1>1, <1>2, <1>3, <1>4, <2>2, FragmentSent DEF FragmentInv
<1>6. ASSUME NEW d \in SendCommands, Pending(d)'
      PROVE  Members(d.of) \cap submitted' = {}
  <2>1. Members(d.of) \cap submitted = {}
    BY <1>6, PendingShrinks DEF FragmentInv, Fresh, Pending, SendCommands
  <2>2. Members(d.of) \cap Members(fs) = {}
    BY FreshAssumption DEF FreshAssumption
  <2> QED
    BY <1>2, <2>1, <2>2
<1>7. ASSUME NEW a \in Incoming \ received'
      PROVE  Members(AnswerTo[a]) \cap submitted' = {}
  <2>1. Members(AnswerTo[a]) \cap submitted = {}
    BY <1>2 DEF FragmentInv, Fresh
  <2>2. Members(AnswerTo[a]) \cap Members(fs) = {}
    BY <1>2, FreshAssumption DEF FreshAssumption
  <2> QED
    BY <1>2, <2>1, <2>2
<1> QED
  BY <1>5, <1>6, <1>7 DEF FragmentInv, Fresh, Pending

\* Only these steps change what the sender thread knows of fragments.
LEMMA FragmentVarsStay ==
  ASSUME [Next]_vars, ~ SendMessage,
         ~ ((ReceiveDuty \/ BeginPass) /\ UNCHANGED nodeVars),
         ~ (BackOffElapses /\ UNCHANGED nodeVars),
         \A f \in Fragment : ~ (ResendFragment(f) /\ UNCHANGED nodeVars),
         \A a \in Incoming : ~ (HandlePacket /\ ReceiveFragment(a))
  PROVE  UNCHANGED fragmentVars
<1> USE DEF fragmentVars
<1>1. CASE SenderStep /\ UNCHANGED nodeVars
  BY <1>1 DEF SenderStep, DutyTimeout, BatchDone, RoutePacket, SkipFragment,
     ResendDone, FloodRequest, FloodPanics, AnswerFlood, EndPass, senderHistory,
     nodeVars
<1>2. CASE NodeStep
  BY <1>2 DEF NodeStep, Start, NoticeSenderEnd, EndDiscovery, PublishTopology,
     ReachSelect, SelectTimeout, ChangeNeighbours, TriggerAfterChange, Quit,
     CommandsClosed, TakeTrigger, SenderChannelClosed, PacketsClosed,
     QuitSender, JoinSender, senderVars, senderPrivate, senderHistory
<1>3. CASE HandlePacket
  BY <1>3 DEF HandlePacket, ReceiveAck, ReceiveFloodRequest,
     ReceiveFloodResponse, ReceiveNack, senderPrivate, senderHistory
<1>4. CASE UNCHANGED vars \/ DiscoveryTimeElapses \/ IssueCommand
           \/ CutOff \/ HopQuits
  BY <1>4 DEF vars, senderVars, nodeVars, senderHistory, DiscoveryTimeElapses,
     IssueCommand, CutOff, HopQuits
<1> QED
  BY <1>1, <1>2, <1>3, <1>4 DEF Next

LEMMA ReceivedGrows ==
  ASSUME [Next]_vars
  PROVE  received \subseteq received'
<1>1. CASE NodeStep
  BY <1>1 DEF NodeStep, Start, NoticeSenderEnd, EndDiscovery, PublishTopology,
     ReachSelect, SelectTimeout, ChangeNeighbours, TriggerAfterChange,
     SendMessage, Quit, CommandsClosed, TakeTrigger, SenderChannelClosed,
     PacketsClosed, QuitSender, JoinSender
<1>2. CASE HandlePacket
  BY <1>2 DEF HandlePacket, ReceiveFragment, ReceiveAck, ReceiveFloodRequest,
     ReceiveFloodResponse, ReceiveNack
<1> QED
  BY <1>1, <1>2 DEF Next, vars, nodeVars, DiscoveryTimeElapses, IssueCommand,
     CutOff, HopQuits

\* All steps that submit nothing.
LEMMA NothingSent ==
  ASSUME TypeInv, FragmentInv, [Next]_vars, UNCHANGED submitted,
         \A f \in Fragment : FragmentOK(f)'
  PROVE  FragmentInv'
<1>1. ASSUME NEW c \in SendCommands, Pending(c)'
      PROVE  Members(c.of) \cap submitted' = {}
  BY <1>1, PendingShrinks DEF FragmentInv, Fresh, Pending, SendCommands
<1>2. ASSUME NEW a \in Incoming \ received'
      PROVE  Members(AnswerTo[a]) \cap submitted' = {}
  BY <1>2, ReceivedGrows DEF FragmentInv, Fresh
<1> QED
  BY <1>1, <1>2 DEF FragmentInv, Fresh, Pending

LEMMA FragmentNext ==
  ASSUME TypeInv, CommandsInv, FragmentInv, [Next]_vars
  PROVE  FragmentInv'
<1>1. CASE SendMessage
  BY <1>1, MessageSent
<1>2. CASE \E a \in Incoming : HandlePacket /\ ReceiveFragment(a)
  BY <1>2, AnswerSent
<1>3. CASE (ReceiveDuty \/ BeginPass) /\ UNCHANGED nodeVars
  BY <1>3, FragmentTaken, FragmentGivenUp, NothingSent DEF nodeVars, FragmentInv
<1>4. CASE BackOffElapses /\ UNCHANGED nodeVars
  BY <1>4, FragmentWaits, NothingSent DEF nodeVars, FragmentInv
<1>5. ASSUME NEW g \in Fragment, ResendFragment(g), UNCHANGED nodeVars
      PROVE  FragmentInv'
  BY <1>5, FragmentResent, NothingSent DEF nodeVars, FragmentInv
<1>6. CASE /\ ~ SendMessage
           /\ ~ ((ReceiveDuty \/ BeginPass) /\ UNCHANGED nodeVars)
           /\ ~ (BackOffElapses /\ UNCHANGED nodeVars)
           /\ \A f \in Fragment : ~ (ResendFragment(f) /\ UNCHANGED nodeVars)
           /\ \A a \in Incoming : ~ (HandlePacket /\ ReceiveFragment(a))
  <2>1. UNCHANGED fragmentVars
    BY <1>6, FragmentVarsStay
  <2>2. ASSUME NEW f \in Fragment
        PROVE  FragmentOK(f)'
    <3>1. Same(Duty("fragment", f))
      BY <1>6, DutyFrame DEF Duty
    <3> QED
      BY <2>1, <3>1, FragmentFrame DEF FragmentInv
  <2> QED
    BY <2>1, <2>2, NothingSent DEF fragmentVars
<1> QED
  BY <1>1, <1>2, <1>3, <1>4, <1>5, <1>6

LEMMA FragmentInvariant == Spec => []FragmentInv
<1>1. Init => FragmentInv
  BY InEmpty, SenderAssumption DEF Init, SenderInit, FragmentInv, Fresh,
     FragmentOK, OnTheWay, InQueue, SenderAssumption
<1>2. TypeInv /\ CommandsInv /\ FragmentInv /\ [Next]_vars => FragmentInv'
  BY FragmentNext
<1> QED
  BY <1>1, <1>2, TypeInvariant, CommandsInvariant, PTL DEF Spec

\* Whatever is interleaved with it, a fragment is always in exactly one place,
\* and it is given up after PACKET_RESEND_MAX_RETRIES attempts, not before.
THEOREM FragmentsAreConserved == Spec => []FragmentConserved
<1>1. FragmentInv => FragmentConserved
  BY DEF FragmentInv, FragmentOK, FragmentConserved, OnTheWay, InQueue
<1> QED
  BY <1>1, FragmentInvariant, PTL

-----------------------------------------------------------------------------
(* A host implements FragmentDelivery *)

DeliveryStep == [Delivery!Next]_<<Stage, attempts, transmitted>>

\* The stages are told apart by the histories.
LEMMA StageOf ==
  ASSUME FragmentInv, NEW f \in Fragment
  PROVE  /\ Stage[f] = "new" <=> f \notin submitted
         /\ Stage[f] = "waiting" <=> f \in submitted \ (acked \cup given_up)
         /\ Stage[f] = "acked" <=> f \in acked
         /\ Stage[f] = "given_up" <=> f \in given_up
         /\ Stage[f] \in {"new", "waiting", "acked", "given_up"}
BY DEF Stage, FragmentInv, FragmentOK

LEMMA StageStays ==
  ASSUME UNCHANGED <<submitted, acked, given_up>>
  PROVE  UNCHANGED Stage
BY DEF Stage

\* What waits in the queue is waiting.
LEMMA QueueWaits ==
  ASSUME FragmentInv, NEW f \in Fragment, InQueue(f)
  PROVE  f \in Delivery!Waiting
<1>1. f \in submitted \ (acked \cup given_up)
  BY DEF FragmentInv, FragmentOK
<1> QED
  BY <1>1, StageOf DEF Delivery!Waiting

LEMMA SubmitImplements ==
  ASSUME FragmentInv, FragmentInv', NEW S \in SUBSET Fragment,
         S \cap submitted = {}, submitted' = submitted \cup S,
         UNCHANGED <<acked, given_up, attempts, transmitted>>
  PROVE  DeliveryStep
<1>1. CASE S = {}
  BY <1>1, StageStays DEF DeliveryStep
<1>2. CASE S # {}
  <2>1. \A f \in S : Stage[f] = "new"
    BY StageOf
  <2>2. Stage' = Delivery!Move(S, "waiting")
    <3>1. ASSUME NEW f \in Fragment
          PROVE  Stage'[f] = IF f \in S THEN "waiting" ELSE Stage[f]
      <4>1. f \in S => f \notin acked \cup given_up
        BY DEF FragmentInv, FragmentOK
      <4> QED
        BY <4>1 DEF Stage
    <3>2. Stage' = [f \in Fragment |-> Stage'[f]]
      BY DEF Stage
    <3> HIDE DEF Stage
    <3> QED
      BY <3>1, <3>2 DEF Delivery!Move
  <2>3. Delivery!Submit(S)
    BY <1>2, <2>1, <2>2 DEF Delivery!Submit
  <2> QED
    BY <2>3 DEF DeliveryStep, Delivery!Next
<1> QED
  BY <1>1, <1>2

LEMMA SettleImplements ==
  ASSUME FragmentInv, NEW S \in SUBSET Fragment, \A f \in S : InQueue(f),
         UNCHANGED <<submitted, attempts, transmitted>>,
         \/ acked' = acked \cup S /\ UNCHANGED given_up
         \/ /\ given_up' = given_up \cup S /\ UNCHANGED acked
            /\ \A f \in S : attempts[f] = PACKET_RESEND_MAX_RETRIES
  PROVE  DeliveryStep
<1>1. CASE S = {}
  BY <1>1, StageStays DEF DeliveryStep
<1>2. S \subseteq Delivery!Waiting
  BY QueueWaits
<1>3. \A f \in S : f \in submitted /\ f \notin acked /\ f \notin given_up
  BY DEF FragmentInv, FragmentOK
<1>4. CASE S # {} /\ acked' = acked \cup S /\ UNCHANGED given_up
  <2>1. Stage' = Delivery!Move(S, "acked")
    BY <1>3, <1>4 DEF Stage, Delivery!Move
  <2>2. Delivery!Acknowledge(S)
    BY <1>2, <1>4, <2>1 DEF Delivery!Acknowledge
  <2> QED
    BY <2>2 DEF DeliveryStep, Delivery!Next
<1>5. CASE /\ S # {} /\ given_up' = given_up \cup S /\ UNCHANGED acked
           /\ \A f \in S : attempts[f] = PACKET_RESEND_MAX_RETRIES
  <2>1. Stage' = Delivery!Move(S, "given_up")
    BY <1>3, <1>5 DEF Stage, Delivery!Move
  <2>2. Delivery!GiveUp(S)
    BY <1>2, <1>5, <2>1 DEF Delivery!GiveUp
  <2> QED
    BY <2>2 DEF DeliveryStep, Delivery!Next
<1> QED
  BY <1>1, <1>4, <1>5

LEMMA AttemptImplements ==
  ASSUME TypeInv, FragmentInv, NEW f \in Fragment, ResendFragment(f),
         UNCHANGED submitted
  PROVE  DeliveryStep
<1>1. /\ f \in DOMAIN ackable_packet_send_queue
      /\ ackable_packet_send_queue[f].retries < PACKET_RESEND_MAX_RETRIES
  BY DEF ResendFragment, TypeInv, TypeOK, PassOK
<1>2. f \in Delivery!Waiting
  BY <1>1, QueueWaits DEF InQueue
<1>3. attempts[f] < PACKET_RESEND_MAX_RETRIES
  BY <1>1 DEF FragmentInv, FragmentOK, InQueue
<1>4. /\ attempts' = [attempts EXCEPT ![f] = @ + 1]
      /\ UNCHANGED Stage
      /\ \/ transmitted' = [transmitted EXCEPT ![f] = @ + 1]
         \/ UNCHANGED transmitted
  BY StageStays DEF ResendFragment
<1>5. Delivery!Transmit(f) \/ Delivery!Fail(f)
  BY <1>2, <1>3, <1>4 DEF Delivery!Transmit, Delivery!Fail, Delivery!Attempt
<1> QED
  BY <1>5 DEF DeliveryStep, Delivery!Next

LEMMA TransmittedStays ==
  ASSUME [Next]_vars,
         \A f \in Fragment : ~ (ResendFragment(f) /\ UNCHANGED nodeVars)
  PROVE  UNCHANGED transmitted
<1>1. CASE SenderStep /\ UNCHANGED nodeVars
  BY <1>1 DEF SenderStep, ReceiveDuty, DutyTimeout, BeginPass, BatchDone,
     RoutePacket, SkipFragment, ResendDone, FloodRequest, FloodPanics,
     AnswerFlood, EndPass, senderHistory
<1>2. CASE NodeStep
  BY <1>2 DEF NodeStep, Start, NoticeSenderEnd, EndDiscovery, PublishTopology,
     ReachSelect, SelectTimeout, ChangeNeighbours, TriggerAfterChange, Quit,
     SendMessage, CommandsClosed, TakeTrigger, SenderChannelClosed,
     PacketsClosed, QuitSender, JoinSender, senderVars, senderPrivate,
     senderHistory
<1> QED
  BY <1>1, <1>2 DEF Next, vars, senderVars, senderHistory, HandlePacket,
     senderPrivate, BackOffElapses, DiscoveryTimeElapses, IssueCommand, CutOff,
     HopQuits

LEMMA StepImplements ==
  ASSUME TypeInv, CommandsInv, FragmentInv, [Next]_vars
  PROVE  DeliveryStep
<1>1. TypeInv' /\ FragmentInv'
  BY FragmentNext, TypeNext
<1>2. CASE SendMessage
  <2>1. /\ UNCHANGED <<acked, given_up, attempts>>
        /\ \/ UNCHANGED submitted
           \/ submitted' = submitted \cup Members(Head(commands).of)
    BY <1>2 DEF SendMessage, senderPrivate, senderHistory
  <2>2. UNCHANGED transmitted
    BY <1>2 DEF SendMessage, senderPrivate, senderHistory
  <2>3. /\ Head(commands) \in SendCommands /\ IsIn(Head(commands), commands)
        /\ Head(commands).of \in Seq(Fragment)
    BY <1>2, TakenIsIssued, CommandTypes DEF SendMessage, SendCommands
  <2>4. /\ Members(Head(commands).of) \subseteq Fragment
        /\ Members(Head(commands).of) \cap submitted = {}
    BY <2>3, InDuties DEF FragmentInv, Fresh
  <2>5. CASE UNCHANGED submitted
    BY <2>1, <2>2, <2>5, StageStays DEF DeliveryStep
  <2> QED
    BY <1>1, <2>1, <2>2, <2>4, <2>5, SubmitImplements
<1>3. ASSUME NEW a \in Incoming, HandlePacket, ReceiveFragment(a)
      PROVE  DeliveryStep
  <2>1. /\ UNCHANGED <<acked, given_up, attempts, transmitted>>
        /\ submitted' = submitted \cup Members(AnswerTo[a])
        /\ a \notin received
    BY <1>3 DEF HandlePacket, ReceiveFragment, senderPrivate, senderHistory
  <2>2. /\ Members(AnswerTo[a]) \subseteq Fragment
        /\ Members(AnswerTo[a]) \cap submitted = {}
    BY <2>1, HostAssumption, InDuties DEF FragmentInv, Fresh, HostAssumption
  <2> QED
    BY <1>1, <2>1, <2>2, SubmitImplements
<1>4. CASE ReceiveDuty /\ UNCHANGED nodeVars
  <2> DEFINE m == Head(duty)
  <2>1. m \in DutyMessage /\ UNCHANGED <<submitted, attempts, transmitted, given_up>>
    BY <1>4, TailType DEF ReceiveDuty, TypeInv, TypeOK, nodeVars
  <2>2. CASE UNCHANGED acked
    BY <2>1, <2>2, StageStays DEF DeliveryStep
  <2>3. CASE RetainAcked(m)
    <3> DEFINE S == {m.of} \cap DOMAIN ackable_packet_send_queue
    <3>1. acked' = acked \cup S
      BY <2>3 DEF RetainAcked
    <3>2. S \subseteq Fragment /\ \A f \in S : InQueue(f)
      BY DEF TypeInv, TypeOK, InQueue
    <3> HIDE DEF S
    <3> QED
      BY <2>1, <3>1, <3>2, SettleImplements
  <2> QED
    BY <1>4, <2>2, <2>3 DEF ReceiveDuty, HandleNewPacket, StopSender
<1>5. CASE BeginPass /\ UNCHANGED nodeVars
  <2> DEFINE S == DOMAIN ackable_packet_send_queue \ Retained
  <2>1. /\ given_up' = given_up \cup S
        /\ UNCHANGED <<submitted, attempts, transmitted, acked>>
    BY <1>5 DEF BeginPass, nodeVars
  <2>2. S \subseteq Fragment /\ \A f \in S : InQueue(f)
    BY DEF TypeInv, TypeOK, InQueue
  <2>3. ASSUME NEW f \in S
        PROVE  attempts[f] = PACKET_RESEND_MAX_RETRIES
    <3>1. ackable_packet_send_queue[f].retries = PACKET_RESEND_MAX_RETRIES
      BY SenderAssumption
         DEF Retained, HasRetriesLeft, TypeInv, TypeOK, SenderAssumption
    <3> QED
      BY <2>2, <3>1 DEF FragmentInv, FragmentOK, InQueue
  <2> HIDE DEF S
  <2> QED
    BY <2>1, <2>2, <2>3, SettleImplements
<1>6. ASSUME NEW f \in Fragment, ResendFragment(f), UNCHANGED nodeVars
      PROVE  DeliveryStep
  BY <1>6, AttemptImplements DEF nodeVars
<1>7. CASE /\ ~ SendMessage
           /\ ~ ((ReceiveDuty \/ BeginPass) /\ UNCHANGED nodeVars)
           /\ \A f \in Fragment : ~ (ResendFragment(f) /\ UNCHANGED nodeVars)
           /\ \A a \in Incoming : ~ (HandlePacket /\ ReceiveFragment(a))
  <2>1. UNCHANGED transmitted
    BY <1>7, TransmittedStays
  <2>2. UNCHANGED <<submitted, acked, given_up, attempts>>
    BY <1>7, FragmentVarsStay
       DEF fragmentVars, BackOffElapses, nodeVars, senderHistory
  <2> QED
    BY <2>1, <2>2, StageStays DEF DeliveryStep
<1> QED
  BY <1>2, <1>3, <1>4, <1>5, <1>6, <1>7

\* Every step of a host, of either thread or of what surrounds them, is a step
\* of FragmentDelivery or leaves fragments alone.
THEOREM HostImplementsDelivery == Spec => DeliverySpec
<1>1. Init => Delivery!Init
  BY DEF Init, SenderInit, Delivery!Init, Stage
<1>2. TypeInv /\ CommandsInv /\ FragmentInv /\ [Next]_vars => DeliveryStep
  BY StepImplements
<1> QED
  BY <1>1, <1>2, TypeInvariant, CommandsInvariant, FragmentInvariant, PTL
     DEF Spec, DeliverySpec, Delivery!Spec, Delivery!vars, DeliveryStep
=============================================================================
