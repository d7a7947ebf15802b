------------------------- MODULE Application_proofs -------------------------
(***************************************************************************)
(* Theorems about Application, for any users, clients and requests: what a *)
(* user may conclude from the responses that he has read.                  *)
(***************************************************************************)
EXTENDS Application, SequenceTheorems, TLAPS

-----------------------------------------------------------------------------
(* The invariants *)

ChannelTypes ==
  /\ status \in [Request -> {"idle", "open", "confirmed", "abandoned"}]
  /\ executions \in [Request -> Nat]
  /\ answers \in [Request -> Seq(Response)]
  /\ \A r \in Request : Len(answers[r]) = executions[r]

FileTypes ==
  /\ directories \subseteq Directory
  /\ files \in [File -> Data \cup {None}]

MailTypes ==
  /\ messages \in [Client -> Seq(Message)]
  /\ messages_version \in [Client -> Nat]
  /\ client_events \in Seq(Message) /\ forwarded \in Seq(Message)
  /\ read \subseteq Message
  /\ added \in Nat /\ polled \subseteq Client /\ clients \subseteq Client
  /\ after \subseteq Request \X Writes

Types == ChannelTypes /\ FileTypes /\ MailTypes

\* What is executed was asked for before; a listing leaves its directory there.
ExecutedInv ==
  \A r \in Request : executions[r] > 0 =>
    /\ status[r] # "idle"
    /\ Asks[r].kind = "list" => DirectoryOf(From[r], Asks[r]) \in directories

\* The writes of a file that the server can have been sent.
Sent(f) == {w \in Writes : FileOf(w) = f /\ status[w] # "idle"}

\* A file of the server's directories holds what somebody asked to be written
\* there.
FilesInv ==
  \A f \in File :
    \/ files[f] = None \/ Parent[f] = Elsewhere
    \/ \E w \in Sent(f) : files[f] = Asks[w].data

\* What a write is answered.
Verdict(r) == IF Asks[r].name \in Invalid THEN Error ELSE Success

\* An answer that fits the request.
Fits(r, answer) ==
  /\ r \in Writes => answer = Verdict(r)
  /\ r \in Gets => \/ answer = Error \/ Parent[FileOf(r)] = Elsewhere
                   \/ \E w \in Sent(FileOf(r)) : answer = Content(Asks[w].data)

AnswersInv ==
  \A r \in Request : \A e \in DOMAIN answers[r] : Fits(r, answers[r][e])

\* A message that comes from an execution of its request.
Genuine(m) ==
  \E e \in DOMAIN answers[m.request] :
    m.message \in {Garbled, answers[m.request][e]}

Valid == {m \in Message : Genuine(m)}

MailInv ==
  /\ client_events \in Seq(Valid)
  /\ messages \in [Client -> Seq(Valid)]
  /\ read \subseteq Valid

\* What a user has read an answer to was executed before.
AfterInv == \A q, r \in Request : <<q, r>> \in after => executions[q] > 0

ListedBefore(w) ==
  \E l \in Request : /\ Asks[l].kind = "list" /\ <<l, w>> \in after
                     /\ DirectoryOf(From[l], Asks[l]) = Parent[FileOf(w)]

\* The file of w holds its data, or that of a write executed no earlier than w.
Sticks(w) ==
  \E v \in Writes :
    /\ FileOf(v) = FileOf(w)
    /\ files[FileOf(w)] = Asks[v].data
    /\ <<v, w>> \in after => executions[v] > 1

StickInv ==
  \A w \in Writes :
    (executions[w] > 0 /\ Asks[w].name \notin Invalid /\ ListedBefore(w))
      => Sticks(w)

-----------------------------------------------------------------------------
(* What one request does to the files *)

LEMMA Asked ==
  ASSUME NEW r \in Request
  PROVE  /\ From[r] \in Client /\ From[r] \in Peer
         /\ DirectoryOf(From[r], Asks[r]) \in Directory
         /\ r \in Writes => Asks[r].name \in FileName /\ Asks[r].data \in Data
         /\ r \in Gets => Asks[r].name \in FileName
<1>1. From[r] \in Client /\ From[r] \in Peer
  BY ApplicationAssumption DEF ApplicationAssumption
<1>2. Asks[r] \in FileRequest \cup [kind : {"type", "chat"}]
  BY ApplicationAssumption DEF ApplicationAssumption
<1>3. DirectoryOf(From[r], Asks[r]) \in Directory
  BY <1>1 DEF DirectoryOf, Directory
<1>4. Asks[r].kind = "write" => Asks[r].name \in FileName /\ Asks[r].data \in Data
  BY <1>2 DEF FileRequest
<1>5. Asks[r].kind = "get" => Asks[r].name \in FileName
  BY <1>2 DEF FileRequest
<1> QED
  BY <1>1, <1>3, <1>4, <1>5 DEF Writes, Gets

LEMMA FilePlace ==
  ASSUME NEW r \in Writes \cup Gets
  PROVE  FileOf(r) \in File
<1>1. r \in Request /\ Asks[r].name \in FileName
  BY Asked DEF Writes, Gets
<1>2. Join(DirectoryOf(From[r], Asks[r]), Asks[r].name) \in Path
  BY <1>1, Asked DEF Path
<1> QED
  BY <1>2, ContentAssumption DEF FileOf, ContentAssumption

\* A write changes its own file and no other, and does so if the directory of
\* the file is there; the answers are as Fits says, given what the files hold.
LEMMA FileStep ==
  ASSUME FileTypes, NEW r \in Request, NEW answer,
         HandleRequest(From[r], Asks[r], answer)
  PROVE  /\ FileTypes' /\ directories \subseteq directories'
         /\ Asks[r].kind = "list"
              => DirectoryOf(From[r], Asks[r]) \in directories'
         /\ \A f \in File :
              \/ files'[f] = files[f]
              \/ r \in Writes /\ FileOf(r) = f /\ files'[f] = Asks[r].data
         /\ r \in Writes /\ Asks[r].name \in Invalid => files' = files
         /\ (/\ r \in Writes /\ Asks[r].name \notin Invalid
             /\ Parent[FileOf(r)] \in directories)
              => files'[FileOf(r)] = Asks[r].data
         /\ r \in Writes =>
              answer = Verdict(r)
         /\ r \in Gets =>
              \/ answer = Error
              \/ files[FileOf(r)] # None /\ answer = Content(files[FileOf(r)])
<1> DEFINE d == DirectoryOf(From[r], Asks[r])
<1>1. d \in Directory
  BY Asked
<1>2. CASE Asks[r].kind = "list" /\ ListFiles(d, answer)
  <2>1. r \notin Writes /\ r \notin Gets
    BY <1>2 DEF Writes, Gets
  <2>2. directories' = directories \cup {d} /\ files' = files
    BY <1>2 DEF ListFiles, KeptIfListed
  <2> QED
    BY <1>1, <2>1, <2>2 DEF FileTypes
<1>3. CASE Asks[r].kind = "get" /\ GetFile(d, Asks[r].name, answer)
  <2>1. r \notin Writes /\ r \in Gets /\ Asks[r].kind # "list"
    BY <1>3 DEF Writes, Gets
  <2>2. directories' = directories /\ files' = files
    BY <1>3 DEF GetFile, contentVars
  <2>3. FileOf(r) = Place[Join(d, Asks[r].name)]
    BY DEF FileOf
  <2>4. \/ answer = Error
        \/ files[FileOf(r)] # None /\ answer = Content(files[FileOf(r)])
    BY <1>3, <2>3 DEF GetFile
  <2> QED
    BY <2>1, <2>2, <2>4 DEF FileTypes
<1>4. CASE Asks[r].kind = "write"
             /\ WriteFile(d, Asks[r].name, Asks[r].data, answer)
  <2>1. r \in Writes /\ r \notin Gets /\ Asks[r].kind # "list"
    BY <1>4 DEF Writes, Gets
  <2>2. FileOf(r) = Place[Join(d, Asks[r].name)] /\ FileOf(r) \in File
    BY <2>1, FilePlace DEF FileOf
  <2>3. Asks[r].data \in Data
    BY <2>1, Asked
  <2>4. directories' = directories
    BY <1>4 DEF WriteFile
  <2> DEFINE f == FileOf(r)
             written == [files EXCEPT ![f] = Asks[r].data]
  <2>5. \/ Asks[r].name \in Invalid /\ answer = Error /\ files' = files
        \/ /\ Asks[r].name \notin Invalid /\ answer = Success
           /\ files' = written \/ (files' = files /\ Parent[f] \notin directories)
    BY <1>4, <2>2 DEF WriteFile, WrittenTo
  <2>6. answer = Verdict(r)
    BY <2>5 DEF Verdict
  <2>7. f \in File
    BY <2>2
  <2> HIDE DEF d, f
  <2>8. FileTypes'
    BY <2>3, <2>4, <2>5, <2>7 DEF FileTypes
  <2>9. \A g \in File :
          files'[g] = files[g] \/ (f = g /\ files'[g] = Asks[r].data)
    BY <2>5, <2>7 DEF FileTypes
  <2>10. (Asks[r].name \notin Invalid /\ Parent[f] \in directories)
           => files'[f] = Asks[r].data
    BY <2>5, <2>7 DEF FileTypes
  <2>11. Asks[r].name \in Invalid => files' = files
    BY <2>5
  <2> QED
    BY <2>1, <2>4, <2>6, <2>8, <2>9, <2>10, <2>11 DEF f
<1>5. CASE Asks[r].kind \in {"type", "chat"} /\ UNCHANGED contentVars
  <2>1. r \notin Writes /\ r \notin Gets /\ Asks[r].kind # "list"
    BY <1>5 DEF Writes, Gets
  <2> QED
    BY <1>5, <2>1 DEF contentVars, FileTypes
<1> QED
  BY <1>2, <1>3, <1>4, <1>5 DEF HandleRequest

-----------------------------------------------------------------------------
(* Type correctness *)

LEMMA AppendType ==
  ASSUME NEW S, NEW s \in Seq(S), NEW e \in S
  PROVE  /\ Append(s, e) \in Seq(S)
         /\ Len(Append(s, e)) = Len(s) + 1
         /\ \A i \in 1 .. Len(s) : Append(s, e)[i] = s[i]
         /\ Append(s, e)[Len(s) + 1] = e
         /\ DOMAIN Append(s, e) = 1 .. Len(s) + 1
         /\ DOMAIN s = 1 .. Len(s) /\ Len(s) \in Nat
OBVIOUS

LEMMA ConcatAppend ==
  ASSUME NEW S, NEW s \in Seq(S), NEW t \in Seq(S), NEW e \in S
  PROVE  s \o Append(t, e) = Append(s \o t, e)
<1>1. s \o Append(t, e) \in Seq(S) /\ Append(s \o t, e) \in Seq(S)
  BY AppendType, ConcatProperties
<1>2. /\ Len(s) \in Nat /\ Len(t) \in Nat
      /\ Len(s \o t) = Len(s) + Len(t) /\ s \o t \in Seq(S)
      /\ Len(Append(t, e)) = Len(t) + 1
      /\ Append(t, e) \in Seq(S)
  BY AppendType, ConcatProperties
<1>3. /\ Len(s \o Append(t, e)) = Len(s) + Len(t) + 1
      /\ Len(Append(s \o t, e)) = Len(s) + Len(t) + 1
  BY <1>2, AppendType, ConcatProperties
<1>4. ASSUME NEW i \in 1 .. Len(s) + Len(t) + 1
      PROVE  (s \o Append(t, e))[i] = Append(s \o t, e)[i]
  <2>1. (s \o Append(t, e))[i] =
          IF i <= Len(s) THEN s[i] ELSE Append(t, e)[i - Len(s)]
    <3>1. i \in 1 .. Len(s) + Len(Append(t, e))
      BY <1>2
    <3> DEFINE u == Append(t, e)
    <3>2. u \in Seq(S)
      BY <1>2
    <3> HIDE DEF u
    <3>3. \A k \in 1 .. Len(s) + Len(u) :
            (s \o u)[k] = IF k <= Len(s) THEN s[k] ELSE u[k - Len(s)]
      BY <3>2, ConcatProperties
    <3> QED
      BY <3>1, <3>3 DEF u
  <2>2. CASE i = Len(s) + Len(t) + 1
    <3>1. i - Len(s) = Len(t) + 1 /\ ~ (i <= Len(s))
      BY <1>2, <2>2
    <3>2. Append(s \o t, e)[i] = e
      BY <1>2, <2>2, AppendType
    <3> QED
      BY <2>1, <3>1, <3>2, AppendType
  <2>3. CASE i \in 1 .. Len(s) + Len(t)
    <3>1. Append(s \o t, e)[i] = (s \o t)[i]
      BY <1>2, <2>3, AppendType
    <3>2. (s \o t)[i] = IF i <= Len(s) THEN s[i] ELSE t[i - Len(s)]
      BY <2>3, ConcatProperties
    <3>3. ~ (i <= Len(s)) => i - Len(s) \in 1 .. Len(t)
      BY <1>2, <2>3
    <3> QED
      BY <2>1, <3>1, <3>2, <3>3, AppendType
  <2> QED
    BY <1>2, <2>2, <2>3
<1> QED
  BY <1>1, <1>3, <1>4, SeqEqual

\* What an execution does to the channel and the answers.
LEMMA ExecuteStep ==
  ASSUME ChannelTypes, NEW r \in Request, Execute(r)
  PROVE  \E answer \in Response :
           /\ HandleRequest(From[r], Asks[r], answer)
           /\ ChannelTypes'
           /\ status' = status /\ status[r] # "idle"
           /\ executions' = [executions EXCEPT ![r] = @ + 1]
           /\ answers' = [answers EXCEPT ![r] = Append(@, answer)]
<1>1. PICK answer \in Response :
        /\ HandleRequest(From[r], Asks[r], answer)
        /\ answers' = [answers EXCEPT ![r] = Append(@, answer)]
  BY DEF Execute
<1>2. /\ status' = status /\ status[r] # "idle"
      /\ executions' = [executions EXCEPT ![r] = @ + 1]
  BY DEF Execute, Channel!Execute
<1>3. /\ executions' \in [Request -> Nat]
      /\ executions'[r] = executions[r] + 1
      /\ \A q \in Request \ {r} : executions'[q] = executions[q]
  BY <1>2 DEF ChannelTypes
<1>4. /\ Append(answers[r], answer) \in Seq(Response)
      /\ Len(Append(answers[r], answer)) = Len(answers[r]) + 1
  BY AppendType DEF ChannelTypes
<1>5. /\ answers' \in [Request -> Seq(Response)]
      /\ answers'[r] = Append(answers[r], answer)
      /\ \A q \in Request \ {r} : answers'[q] = answers[q]
  BY <1>1, <1>4 DEF ChannelTypes
<1>6. \A q \in Request : Len(answers'[q]) = executions'[q]
  BY <1>3, <1>4, <1>5 DEF ChannelTypes
<1> QED
  BY <1>1, <1>2, <1>3, <1>5, <1>6 DEF ChannelTypes

LEMMA ChannelTypesNext ==
  ASSUME ChannelTypes, [Next]_vars
  PROVE  ChannelTypes'
<1>1. ASSUME NEW r \in Request, SendMessage(r)
      PROVE  ChannelTypes'
  <2>1. /\ status' = [status EXCEPT ![r] = "open"]
        /\ executions' = executions /\ answers' = answers
    BY <1>1 DEF SendMessage, Channel!Ask
  <2> QED
    BY <2>1 DEF ChannelTypes
<1>2. ASSUME NEW r \in Request, Execute(r)
      PROVE  ChannelTypes'
  BY <1>2, ExecuteStep
<1>3. CASE UNCHANGED <<status, executions, answers>>
  BY <1>3 DEF ChannelTypes
<1> QED
  BY <1>1, <1>2, <1>3 DEF Next, vars, channelVars, history, Forward, HostPanics,
     GetMessages, DeleteClient, HostQuits, AddClient, Channel!Reply

LEMMA FileTypesNext ==
  ASSUME ChannelTypes, FileTypes, [Next]_vars
  PROVE  FileTypes'
<1>1. ASSUME NEW r \in Request, Execute(r)
      PROVE  FileTypes'
  BY <1>1, ExecuteStep, FileStep
<1>2. CASE UNCHANGED contentVars
  BY <1>2 DEF contentVars, FileTypes
<1> QED
  BY <1>1, <1>2 DEF Next, vars, SendMessage, Forward, HostPanics, GetMessages,
     DeleteClient, HostQuits, AddClient

\* What a response is made of.
LEMMA ForwardStep ==
  ASSUME ChannelTypes, NEW r \in Request, NEW from, Forward(r, from)
  PROVE  \E m \in Message :
           /\ Genuine(m) /\ m.request = r
           /\ client_events' = Append(client_events, m)
           /\ forwarded' = Append(forwarded, m)
<1>1. PICK m \in [peer_id : {From[r]}, request : {r},
                  message : Assembled(r, from)] :
        /\ client_events' = Append(client_events, m)
        /\ forwarded' = Append(forwarded, m)
  BY DEF Forward
<1>2. from # {} /\ from \subseteq 1 .. executions[r]
  BY DEF Forward, Channel!Reply
<1>3. m.peer_id = From[r] /\ m.request = r /\ m.message \in Assembled(r, from)
      /\ m = [peer_id |-> m.peer_id, request |-> m.request,
              message |-> m.message]
  BY <1>1
<1>4. /\ answers[r] \in Seq(Response)
      /\ DOMAIN answers[r] = 1 .. executions[r]
  BY DEF ChannelTypes
<1>5. \E e \in DOMAIN answers[r] : m.message \in {Garbled, answers[r][e]}
  BY <1>2, <1>3, <1>4 DEF Assembled
<1>6. m.message \in Response \cup {Garbled}
  <2>1. PICK e \in DOMAIN answers[r] : m.message \in {Garbled, answers[r][e]}
    BY <1>5
  <2>2. answers[r][e] \in Response
    BY <1>4, <2>1, ElementOfSeq, LenProperties
  <2> QED
    BY <2>1, <2>2
<1>7. m \in Message
  BY <1>3, <1>6, Asked DEF Message
<1> QED
  BY <1>1, <1>3, <1>5, <1>7 DEF Genuine

\* A poll that finds the client.
LEMMA PollStep ==
  ASSUME MailTypes, NEW id \in Client, GetMessages(id), id \in clients
  PROVE  /\ messages' = [messages EXCEPT ![id] = messages[id] \o client_events]
         /\ messages[id] \o client_events \in Seq(Message)
         /\ messages'[id] = messages[id] \o client_events
         /\ messages_version' = [messages_version EXCEPT
                                   ![id] = @ + Len(client_events)]
         /\ read' = read \cup {messages'[id][i] : i \in DOMAIN messages'[id]}
         /\ client_events' = <<>> /\ forwarded' = forwarded
         /\ \A i \in DOMAIN messages'[id] :
              \/ \E j \in DOMAIN messages[id] : messages'[id][i] = messages[id][j]
              \/ \E j \in DOMAIN client_events :
                   messages'[id][i] = client_events[j]
<1> DEFINE s == messages[id]
           t == client_events
<1>1. s \in Seq(Message) /\ t \in Seq(Message)
  BY DEF MailTypes
<1>2. messages' = [messages EXCEPT ![id] = s \o t]
  BY DEF GetMessages, Received
<1>3. messages'[id] = s \o t
  BY <1>2 DEF MailTypes
<1>4. ASSUME NEW i \in DOMAIN messages'[id]
      PROVE  \/ \E j \in DOMAIN s : messages'[id][i] = s[j]
             \/ \E j \in DOMAIN t : messages'[id][i] = t[j]
  <2> HIDE DEF s, t
  <2>1. /\ Len(s) \in Nat /\ Len(t) \in Nat
        /\ DOMAIN s = 1 .. Len(s) /\ DOMAIN t = 1 .. Len(t)
        /\ s \o t \in Seq(Message) /\ Len(s \o t) = Len(s) + Len(t)
        /\ \A k \in 1 .. Len(s) + Len(t) :
             (s \o t)[k] = IF k <= Len(s) THEN s[k] ELSE t[k - Len(s)]
    BY <1>1, ConcatProperties, LenProperties
  <2>2. DOMAIN (s \o t) = 1 .. Len(s) + Len(t)
    BY <2>1, LenProperties
  <2>3. i \in 1 .. Len(s) + Len(t) /\ i \in Nat
    BY <1>3, <1>4, <2>1, <2>2
  <2>4. \/ i \in 1 .. Len(s) /\ i <= Len(s)
        \/ ~ (i <= Len(s)) /\ i - Len(s) \in 1 .. Len(t)
    BY <2>1, <2>3
  <2> QED
    BY <1>3, <2>1, <2>3, <2>4
<1> QED
  BY <1>1, <1>2, <1>3, <1>4, ConcatProperties DEF GetMessages

LEMMA SendStep ==
  ASSUME MailTypes, NEW r \in Request, SendMessage(r)
  PROVE  /\ status[r] = "idle" /\ status' = [status EXCEPT ![r] = "open"]
         /\ UNCHANGED <<executions, contentVars, answers, mailVars, added,
                        forwarded, polled, read, clients>>
         /\ after \subseteq after'
         /\ \A x \in after' : x \in after \/
              (/\ r \in Writes /\ x[2] = r
               /\ \E m \in read : x = <<m.request, r>>)
         /\ after' \subseteq Request \X Writes
<1>1. /\ status[r] = "idle" /\ status' = [status EXCEPT ![r] = "open"]
      /\ UNCHANGED <<executions, contentVars, answers, mailVars, added,
                     forwarded, polled, read, clients>>
      /\ after' = IF r \notin Writes THEN after
                  ELSE after \cup {<<q, r>> : q \in {m.request : m \in read}
                                                      \ Gets}
  BY DEF SendMessage, Channel!Ask
<1>2. \A m \in read : m.request \in Request
  BY DEF MailTypes, Message
<1>3. after' \subseteq Request \X Writes
  BY <1>1, <1>2 DEF MailTypes
<1> QED
  BY <1>1, <1>3

LEMMA MailTypesNext ==
  ASSUME ChannelTypes, MailTypes, [Next]_vars
  PROVE  MailTypes'
<1>1. ASSUME NEW r \in Request, SendMessage(r)
      PROVE  MailTypes'
  BY <1>1, SendStep DEF MailTypes, mailVars
<1>2. ASSUME NEW r \in Request, NEW from, Forward(r, from)
      PROVE  MailTypes'
  <2>1. PICK m \in Message : /\ client_events' = Append(client_events, m)
                             /\ forwarded' = Append(forwarded, m)
    BY <1>2, ForwardStep
  <2>2. client_events' \in Seq(Message) /\ forwarded' \in Seq(Message)
    BY <2>1, AppendType DEF MailTypes
  <2>3. UNCHANGED <<messages, messages_version, added, polled, read, after,
                    clients>>
    BY <1>2 DEF Forward
  <2> QED
    BY <2>2, <2>3 DEF MailTypes
<1>3. ASSUME NEW id \in Client, GetMessages(id)
      PROVE  MailTypes'
  <2>1. /\ client_events' \in Seq(Message) /\ polled' \subseteq Client
        /\ UNCHANGED <<added, forwarded, after, clients>>
    BY <1>3 DEF GetMessages, MailTypes
  <2>2. CASE id \in clients
    <3>1. messages' \in [Client -> Seq(Message)]
      BY <1>3, <2>2, PollStep DEF MailTypes
    <3>2. read' \subseteq Message
      <4>1. messages'[id] \in Seq(Message)
        BY <3>1
      <4>2. \A i \in DOMAIN messages'[id] : messages'[id][i] \in Message
        BY <4>1, ElementOfSeq, LenProperties
      <4> QED
        BY <1>3, <2>2, <4>2, PollStep DEF MailTypes
    <3>3. messages_version' \in [Client -> Nat]
      <4>1. Len(client_events) \in Nat
        BY LenProperties DEF MailTypes
      <4>2. messages_version' = [messages_version EXCEPT
                                   ![id] = @ + Len(client_events)]
        BY <1>3, <2>2, PollStep
      <4> QED
        BY <4>1, <4>2 DEF MailTypes
    <3> QED
      BY <2>1, <3>1, <3>2, <3>3 DEF MailTypes
  <2>3. CASE id \notin clients
    BY <1>3, <2>1, <2>3 DEF GetMessages, MailTypes
  <2> QED
    BY <2>2, <2>3
<1>4. ASSUME NEW id \in Client, DeleteClient(id)
      PROVE  MailTypes'
  BY <1>4 DEF DeleteClient, MailTypes, history
<1>5. ASSUME NEW id \in Client, AddClient(id)
      PROVE  MailTypes'
  BY <1>5 DEF AddClient, MailTypes, mailVars
<1>6. CASE UNCHANGED <<mailVars, history, clients>>
  BY <1>6 DEF MailTypes, mailVars, history
<1> QED
  BY <1>1, <1>2, <1>3, <1>4, <1>5, <1>6 DEF Next, vars, Execute, HostPanics,
     HostQuits

LEMMA TypesInit == Init => Types
<1> SUFFICES ASSUME Init PROVE Types
  OBVIOUS
<1>1. ChannelTypes
  BY DEF Init, Channel!Init, ChannelTypes
<1>2. FileTypes
  BY DEF Init, ContentInit, FileTypes
<1>3. MailTypes
  BY ApplicationAssumption DEF Init, MailTypes, ApplicationAssumption
<1> QED
  BY <1>1, <1>2, <1>3 DEF Types

\* The channel, the files and the mailboxes keep their types.
THEOREM TypeCorrect == Spec => []Types
<1>1. Types /\ [Next]_vars => Types'
  BY ChannelTypesNext, FileTypesNext, MailTypesNext DEF Types
<1> QED
  BY <1>1, TypesInit, PTL DEF Spec

-----------------------------------------------------------------------------
(* A sole poller *)

\* Between the clients and a user who is the only one that polls, and polls
\* only one client, nothing is lost, repeated or reordered.
THEOREM SolePoller == Spec => []SolePollerGetsAll
<1>1. Init => SolePollerGetsAll
  <2> SUFFICES ASSUME Init, NEW id \in Client
               PROVE  /\ messages[id] \o client_events = forwarded
                      /\ messages_version[id] = Len(messages[id])
    BY DEF SolePollerGetsAll
  <2> QED
    BY ConcatEmptySeq, EmptySeq DEF Init
<1>2. Types /\ Types' /\ SolePollerGetsAll /\ [Next]_vars => SolePollerGetsAll'
  <2> SUFFICES ASSUME Types, Types', SolePollerGetsAll, [Next]_vars,
                      NEW id \in Client,
                      (/\ polled \subseteq {id} /\ id \in InitialClients
                       /\ added = 0 /\ id \in clients)'
               PROVE  /\ (messages[id] \o client_events = forwarded)'
                      /\ (messages_version[id] = Len(messages[id]))'
    BY DEF SolePollerGetsAll
  <2>0. /\ messages[id] \in Seq(Message) /\ client_events \in Seq(Message)
        /\ forwarded \in Seq(Message) /\ messages_version[id] \in Nat
        /\ added \in Nat
    BY DEF Types, MailTypes
  <2>1. ASSUME UNCHANGED <<messages, messages_version, client_events, added,
                           forwarded, polled>>,
               clients' \subseteq clients
        PROVE  /\ (messages[id] \o client_events = forwarded)'
               /\ (messages_version[id] = Len(messages[id]))'
    BY <2>1 DEF SolePollerGetsAll
  <2>2. ASSUME NEW r \in Request, NEW from, Forward(r, from)
        PROVE  /\ (messages[id] \o client_events = forwarded)'
               /\ (messages_version[id] = Len(messages[id]))'
    <3>1. UNCHANGED <<messages, messages_version, added, polled, clients>>
      BY <2>2 DEF Forward
    <3>2. /\ messages[id] \o client_events = forwarded
          /\ messages_version[id] = Len(messages[id])
      BY <3>1 DEF SolePollerGetsAll
    <3>3. PICK m \in Message : /\ client_events' = Append(client_events, m)
                               /\ forwarded' = Append(forwarded, m)
      BY <2>2, ForwardStep DEF Types
    <3>4. messages[id] \o Append(client_events, m)
            = Append(messages[id] \o client_events, m)
      <4> DEFINE s == messages[id]
                 t == client_events
      <4>1. s \in Seq(Message) /\ t \in Seq(Message)
        BY <2>0
      <4> HIDE DEF s, t
      <4>2. s \o Append(t, m) = Append(s \o t, m)
        BY <4>1, ConcatAppend
      <4> QED
        BY <4>2 DEF s, t
    <3> QED
      BY <3>1, <3>2, <3>3, <3>4
  <2>3. ASSUME NEW other \in Client, GetMessages(other)
        PROVE  /\ (messages[id] \o client_events = forwarded)'
               /\ (messages_version[id] = Len(messages[id]))'
    <3>1. /\ polled' = polled \cup {other}
          /\ UNCHANGED <<added, clients, forwarded>>
      BY <2>3 DEF GetMessages
    <3>2. other = id /\ polled \subseteq {id} /\ added = 0 /\ id \in clients
      BY <3>1
    <3>3. /\ messages[id] \o client_events = forwarded
          /\ messages_version[id] = Len(messages[id])
      BY <3>2 DEF SolePollerGetsAll
    <3>4. /\ messages'[id] = messages[id] \o client_events
          /\ client_events' = <<>>
          /\ messages_version' = [messages_version EXCEPT
                                    ![id] = @ + Len(client_events)]
      BY <2>3, <3>2, PollStep DEF Types
    <3>5. messages_version'[id] = messages_version[id] + Len(client_events)
      BY <3>4 DEF Types, MailTypes
    <3>6. Len(messages[id] \o client_events)
            = Len(messages[id]) + Len(client_events)
      BY <2>0, ConcatProperties
    <3> QED
      BY <2>0, <3>1, <3>3, <3>4, <3>5, <3>6, ConcatEmptySeq
  <2>4. ASSUME NEW other \in Client, DeleteClient(other)
        PROVE  /\ (messages[id] \o client_events = forwarded)'
               /\ (messages_version[id] = Len(messages[id]))'
    <3>1. /\ other # id /\ clients' \subseteq clients
          /\ UNCHANGED <<client_events, added, forwarded, polled>>
          /\ messages' = [messages EXCEPT ![other] = <<>>]
          /\ messages_version' = [messages_version EXCEPT ![other] = 0]
      BY <2>4 DEF DeleteClient, history
    <3>2. /\ messages'[id] = messages[id]
          /\ messages_version'[id] = messages_version[id]
      BY <3>1 DEF Types, MailTypes
    <3> QED
      BY <3>1, <3>2 DEF SolePollerGetsAll
  <2>5. ASSUME NEW other \in Client, AddClient(other)
        PROVE  FALSE
    BY <2>0, <2>5 DEF AddClient
  <2> QED
    BY <2>1, <2>2, <2>3, <2>4, <2>5 DEF Next, vars, mailVars, history,
       SendMessage, Execute, HostPanics, HostQuits
<1> QED
  BY <1>1, <1>2, TypeCorrect, PTL DEF Spec

-----------------------------------------------------------------------------
(* What users read *)

LEMMA ExecutedNext ==
  ASSUME Types, ExecutedInv, [Next]_vars
  PROVE  ExecutedInv'
<1>1. ASSUME NEW r \in Request, SendMessage(r)
      PROVE  ExecutedInv'
  <2>1. /\ status' = [status EXCEPT ![r] = "open"]
        /\ executions' = executions /\ directories' = directories
    BY <1>1, SendStep DEF Types, contentVars
  <2> QED
    BY <2>1 DEF ExecutedInv, Types, ChannelTypes
<1>2. ASSUME NEW r \in Request, Execute(r)
      PROVE  ExecutedInv'
  <2>1. PICK answer \in Response : HandleRequest(From[r], Asks[r], answer)
    BY <1>2, ExecuteStep DEF Types
  <2>2. /\ status' = status /\ status[r] # "idle"
        /\ executions' = [executions EXCEPT ![r] = @ + 1]
    BY <1>2, ExecuteStep DEF Types
  <2>3. /\ directories \subseteq directories'
        /\ Asks[r].kind = "list"
             => DirectoryOf(From[r], Asks[r]) \in directories'
    BY <2>1, FileStep DEF Types
  <2>4. \A q \in Request \ {r} : executions'[q] = executions[q]
    BY <2>2 DEF Types, ChannelTypes
  <2> QED
    BY <2>2, <2>3, <2>4 DEF ExecutedInv
<1>3. CASE UNCHANGED <<status, executions, contentVars>>
  BY <1>3 DEF ExecutedInv, contentVars
<1> QED
  BY <1>1, <1>2, <1>3 DEF Next, vars, channelVars, Forward, HostPanics,
     GetMessages, DeleteClient, HostQuits, AddClient, Channel!Reply

\* A request that was sent once stays so.
LEMMA SentGrows ==
  ASSUME Types, [Next]_vars, NEW f
  PROVE  Sent(f) \subseteq Sent(f)'
<1>1. ASSUME NEW r \in Request, status[r] # "idle"
      PROVE  status'[r] # "idle"
  <2>1. ASSUME NEW q \in Request, SendMessage(q)
        PROVE  status'[r] # "idle"
    BY <1>1, <2>1, SendStep DEF Types, ChannelTypes
  <2>2. ASSUME NEW q \in Request, Execute(q)
        PROVE  status'[r] # "idle"
    BY <1>1, <2>2 DEF Execute, Channel!Execute
  <2>3. CASE UNCHANGED status
    BY <1>1, <2>3
  <2> QED
    BY <2>1, <2>2, <2>3 DEF Next, vars, channelVars, Forward, HostPanics,
       GetMessages, DeleteClient, HostQuits, AddClient, Channel!Reply
<1> QED
  BY <1>1 DEF Sent, Writes

LEMMA FilesNext ==
  ASSUME Types, FilesInv, [Next]_vars
  PROVE  FilesInv'
<1>1. ASSUME NEW f \in File, files'[f] = files[f]
      PROVE  \/ files'[f] = None \/ Parent[f] = Elsewhere
             \/ \E w \in Sent(f)' : files'[f] = Asks[w].data
  BY <1>1, SentGrows DEF FilesInv
<1>2. ASSUME NEW r \in Request, Execute(r), NEW f \in File,
             files'[f] # files[f]
      PROVE  \E w \in Sent(f)' : files'[f] = Asks[w].data
  <2>1. PICK answer \in Response : HandleRequest(From[r], Asks[r], answer)
    BY <1>2, ExecuteStep DEF Types
  <2>2. r \in Writes /\ FileOf(r) = f /\ files'[f] = Asks[r].data
    BY <1>2, <2>1, FileStep DEF Types
  <2>3. status' = status /\ status[r] # "idle"
    BY <1>2, ExecuteStep DEF Types
  <2> QED
    BY <2>2, <2>3 DEF Sent
<1>3. files' = files \/ \E r \in Request : Execute(r)
  BY DEF Next, vars, contentVars, SendMessage, Forward, HostPanics, GetMessages,
     DeleteClient, HostQuits, AddClient
<1> QED
  BY <1>1, <1>2, <1>3 DEF FilesInv

LEMMA FitsStays ==
  ASSUME Types, [Next]_vars, NEW r \in Request, NEW answer, Fits(r, answer)
  PROVE  Fits(r, answer)'
<1>1. Sent(FileOf(r)) \subseteq Sent(FileOf(r))'
  BY SentGrows
<1> QED
  BY <1>1 DEF Fits

LEMMA AnswersNext ==
  ASSUME Types, FilesInv, AnswersInv, [Next]_vars
  PROVE  AnswersInv'
<1>1. ASSUME answers' = answers
      PROVE  AnswersInv'
  BY <1>1, FitsStays DEF AnswersInv
<1>2. ASSUME NEW r \in Request, Execute(r)
      PROVE  AnswersInv'
  <2>1. PICK answer \in Response :
          /\ HandleRequest(From[r], Asks[r], answer)
          /\ answers' = [answers EXCEPT ![r] = Append(@, answer)]
    BY <1>2, ExecuteStep DEF Types
  <2>2. Fits(r, answer)
    <3>1. r \in Gets => FileOf(r) \in File
      BY FilePlace
    <3>2. r \in Gets =>
            \/ answer = Error
            \/ files[FileOf(r)] # None /\ answer = Content(files[FileOf(r)])
      BY <2>1, FileStep DEF Types
    <3>3. r \in Writes =>
            answer = Verdict(r)
      BY <2>1, FileStep DEF Types
    <3>4. r \in Gets => \/ answer = Error \/ Parent[FileOf(r)] = Elsewhere
                        \/ \E w \in Sent(FileOf(r)) : answer = Content(Asks[w].data)
      BY <3>1, <3>2 DEF FilesInv
    <3> QED
      BY <3>3, <3>4 DEF Fits
  <2>3. ASSUME NEW q \in Request, NEW e \in DOMAIN answers'[q]
        PROVE  Fits(q, answers'[q][e])
    <3>1. CASE q = r
      <4>1. answers[r] \in Seq(Response) /\ answers'[q] = Append(answers[r], answer)
        BY <2>1, <3>1 DEF Types, ChannelTypes
      <4>2. \/ e \in DOMAIN answers[r] /\ answers'[q][e] = answers[r][e]
            \/ answers'[q][e] = answer
        BY <4>1, AppendType
      <4> QED
        BY <2>2, <3>1, <4>2 DEF AnswersInv
    <3>2. CASE q # r
      <4>1. answers'[q] = answers[q]
        BY <2>1, <3>2 DEF Types, ChannelTypes
      <4> QED
        BY <4>1 DEF AnswersInv
    <3> QED
      BY <3>1, <3>2
  <2>4. \A q \in Request : Sent(FileOf(q)) \subseteq Sent(FileOf(q))'
    BY SentGrows
  <2> QED
    BY <2>3, <2>4 DEF AnswersInv, Fits
<1> QED
  BY <1>1, <1>2 DEF Next, vars, SendMessage, Forward, HostPanics, GetMessages,
     DeleteClient, HostQuits, AddClient

LEMMA GenuineStays ==
  ASSUME Types, [Next]_vars, NEW m \in Message, Genuine(m)
  PROVE  Genuine(m)'
<1>1. PICK e \in DOMAIN answers[m.request] :
        m.message \in {Garbled, answers[m.request][e]}
  BY DEF Genuine
<1>2. m.request \in Request
  BY DEF Message
<1>3. ASSUME NEW r \in Request, Execute(r)
      PROVE  /\ e \in DOMAIN answers'[m.request]
             /\ answers'[m.request][e] = answers[m.request][e]
  <2>1. PICK answer \in Response :
          answers' = [answers EXCEPT ![r] = Append(@, answer)]
    BY <1>3, ExecuteStep DEF Types
  <2>2. answers[m.request] \in Seq(Response)
    BY <1>2 DEF Types, ChannelTypes
  <2>3. CASE m.request = r
    <3>1. answers'[m.request] = Append(answers[m.request], answer)
      BY <1>2, <2>1, <2>3 DEF Types, ChannelTypes
    <3> QED
      BY <2>2, <3>1, AppendType
  <2>4. CASE m.request # r
    BY <1>2, <2>1, <2>4 DEF Types, ChannelTypes
  <2> QED
    BY <2>3, <2>4
<1>4. CASE answers' = answers
  BY <1>1, <1>4 DEF Genuine
<1>5. CASE \E r \in Request : Execute(r)
  BY <1>1, <1>3, <1>5 DEF Genuine
<1> QED
  BY <1>4, <1>5 DEF Next, vars, SendMessage, Forward, HostPanics, GetMessages,
     DeleteClient, HostQuits, AddClient

LEMMA MailNext ==
  ASSUME Types, MailInv, [Next]_vars
  PROVE  MailInv'
<1>1. Valid \subseteq Valid'
  BY GenuineStays DEF Valid
<1>2. /\ client_events \in Seq(Valid') /\ read \subseteq Valid'
      /\ \A id \in Client : messages[id] \in Seq(Valid')
  BY <1>1, SeqMonotonic DEF MailInv
<1>3. <<>> \in Seq(Valid')
  BY EmptySeq
<1>4. ASSUME NEW r \in Request, NEW from, Forward(r, from)
      PROVE  client_events' \in Seq(Valid')
  <2>1. PICK m \in Message : /\ Genuine(m)
                             /\ client_events' = Append(client_events, m)
    BY <1>4, ForwardStep DEF Types
  <2>2. m \in Valid'
    BY <1>1, <2>1 DEF Valid
  <2> DEFINE V == Valid'
  <2> HIDE DEF V
  <2>3. client_events \in Seq(V) /\ m \in V
    BY <1>2, <2>2 DEF V
  <2>4. Append(client_events, m) \in Seq(V)
    BY <2>3, AppendType
  <2> QED
    BY <2>1, <2>4 DEF V
<1>5. ASSUME NEW id \in Client, GetMessages(id)
      PROVE  /\ client_events' \in Seq(Valid') /\ read' \subseteq Valid'
             /\ \A other \in Client : messages'[other] \in Seq(Valid')
  <2>1. client_events' = <<>>
    BY <1>5 DEF GetMessages
  <2>2. CASE id \in clients
    <3> DEFINE s == messages[id] \o client_events
    <3>1. /\ messages' = [messages EXCEPT ![id] = s] /\ messages'[id] = s
          /\ read' = read \cup {messages'[id][i] : i \in DOMAIN messages'[id]}
      BY <1>5, <2>2, PollStep DEF Types
    <3>2. s \in Seq(Valid')
      BY <1>2, ConcatProperties
    <3>3. \A i \in DOMAIN s : s[i] \in Valid'
      BY <3>2, ElementOfSeq, LenProperties
    <3>4. \A other \in Client : messages'[other] \in Seq(Valid')
      BY <1>2, <3>1, <3>2 DEF MailInv
    <3> QED
      BY <1>2, <1>3, <2>1, <3>1, <3>3, <3>4
  <2>3. CASE id \notin clients
    BY <1>2, <1>3, <1>5, <2>1, <2>3 DEF GetMessages
  <2> QED
    BY <2>2, <2>3
<1>6. ASSUME NEW id \in Client, DeleteClient(id)
      PROVE  /\ UNCHANGED <<client_events, read>>
             /\ \A other \in Client : messages'[other] \in Seq(Valid')
  <2>1. /\ UNCHANGED <<client_events, read>>
        /\ messages' = [messages EXCEPT ![id] = <<>>]
    BY <1>6 DEF DeleteClient, history
  <2> QED
    BY <1>2, <1>3, <2>1 DEF MailInv
<1>7. /\ client_events' \in Seq(Valid') /\ read' \subseteq Valid'
      /\ \A id \in Client : messages'[id] \in Seq(Valid')
  <2>1. CASE UNCHANGED <<client_events, messages, read>>
    BY <1>2, <2>1
  <2>2. CASE \E r \in Request, from \in SUBSET (1 .. MaxExecutions) :
               Forward(r, from)
    BY <1>2, <1>4, <2>2 DEF Forward
  <2> QED
    BY <1>2, <1>5, <1>6, <2>1, <2>2 DEF Next, vars, mailVars, history,
       SendMessage, Execute, HostPanics, HostQuits, AddClient
<1>8. messages' \in [Client -> Seq(Message)]
  BY MailTypesNext DEF Types, MailTypes
<1>9. messages' \in [Client -> Seq(Valid')]
  BY <1>7, <1>8
<1> QED
  BY <1>7, <1>9 DEF MailInv

LEMMA ReadWasExecuted ==
  ASSUME Types, MailInv, NEW m \in read
  PROVE  /\ m.request \in Request /\ executions[m.request] > 0
         /\ \E e \in DOMAIN answers[m.request] :
              m.message \in {Garbled, answers[m.request][e]}
<1>1. m \in Message /\ Genuine(m)
  BY DEF MailInv, Valid
<1>2. m.request \in Request
  BY <1>1 DEF Message
<1>3. PICK e \in DOMAIN answers[m.request] :
        m.message \in {Garbled, answers[m.request][e]}
  BY <1>1 DEF Genuine
<1>4. /\ DOMAIN answers[m.request] = 1 .. executions[m.request]
      /\ executions[m.request] \in Nat
  BY <1>2, LenProperties DEF Types, ChannelTypes
<1>5. executions[m.request] > 0
  BY <1>3, <1>4
<1> QED
  BY <1>2, <1>3, <1>5

LEMMA ExecutionsGrow ==
  ASSUME Types, [Next]_vars, NEW r \in Request
  PROVE  /\ executions[r] \in Nat /\ executions'[r] \in Nat
         /\ executions[r] <= executions'[r]
<1>0. executions[r] \in Nat
  BY DEF Types, ChannelTypes
<1>1. ASSUME NEW q \in Request, Execute(q)
      PROVE  executions'[r] \in {executions[r], executions[r] + 1}
  BY <1>1, ExecuteStep DEF Types, ChannelTypes
<1>2. CASE executions' = executions
  BY <1>0, <1>2
<1>3. CASE \E q \in Request : Execute(q)
  BY <1>0, <1>1, <1>3
<1> QED
  BY <1>2, <1>3 DEF Next, vars, channelVars, SendMessage, Forward, HostPanics,
     GetMessages, DeleteClient, HostQuits, AddClient, Channel!Reply, Channel!Ask

\* What a step may add to what was read before a write was sent.
LEMMA AfterGrows ==
  ASSUME Types, MailInv, ExecutedInv, [Next]_vars,
         NEW q \in Request, NEW w \in Request, <<q, w>> \in after'
  PROVE  \/ <<q, w>> \in after
         \/ executions[q] > 0 /\ executions' = executions /\ executions[w] = 0
<1>1. ASSUME NEW r \in Request, SendMessage(r), <<q, w>> \notin after
      PROVE  executions[q] > 0 /\ executions' = executions /\ executions[w] = 0
  <2>1. /\ status[r] = "idle" /\ executions' = executions
        /\ \A x \in after' : x \in after \/
              (/\ r \in Writes /\ x[2] = r
               /\ \E m \in read : x = <<m.request, r>>)
    BY <1>1, SendStep DEF Types
  <2>2. PICK m \in read : <<q, w>> = <<m.request, r>>
    BY <1>1, <2>1
  <2>3. q = m.request /\ w = r
    BY <2>2
  <2>4. executions[q] > 0
    BY <2>3, ReadWasExecuted
  <2>5. executions[w] \in Nat /\ ~ (executions[w] > 0)
    BY <2>1, <2>3 DEF ExecutedInv, Types, ChannelTypes
  <2> QED
    BY <2>1, <2>4, <2>5
<1>2. CASE after' = after
  BY <1>2
<1> QED
  BY <1>1, <1>2 DEF Next, vars, history, Execute, Forward, HostPanics,
     GetMessages, DeleteClient, HostQuits, AddClient

LEMMA AfterNext ==
  ASSUME Types, MailInv, ExecutedInv, AfterInv, [Next]_vars
  PROVE  AfterInv'
<1> SUFFICES ASSUME NEW q \in Request, NEW r \in Request, <<q, r>> \in after'
             PROVE  executions'[q] > 0
  BY DEF AfterInv
<1>1. executions[q] > 0
  BY AfterGrows DEF AfterInv
<1> QED
  BY <1>1, ExecutionsGrow

LEMMA StickNext ==
  ASSUME Types, MailInv, ExecutedInv, AfterInv, StickInv, [Next]_vars
  PROVE  StickInv'
<1> SUFFICES ASSUME NEW w \in Writes, executions'[w] > 0,
                    Asks[w].name \notin Invalid, ListedBefore(w)'
             PROVE  Sticks(w)'
  BY DEF StickInv
<1>1. w \in Request
  BY DEF Writes
<1>2. \A q \in Request : <<q, w>> \in after' => <<q, w>> \in after
  BY <1>1, AfterGrows, ExecutionsGrow
<1>3. PICK l \in Request : /\ Asks[l].kind = "list" /\ <<l, w>> \in after
                           /\ DirectoryOf(From[l], Asks[l]) = Parent[FileOf(w)]
  BY <1>2 DEF ListedBefore
<1>4. Parent[FileOf(w)] \in directories
  BY <1>1, <1>3 DEF AfterInv, ExecutedInv
<1>5. FileOf(w) \in File
  BY FilePlace
<1>6. ASSUME NEW r \in Writes, Execute(r), FileOf(r) = FileOf(w),
             Asks[r].name \notin Invalid
      PROVE  Sticks(w)'
  <2>1. PICK answer \in Response : HandleRequest(From[r], Asks[r], answer)
    BY <1>6, ExecuteStep DEF Types, Writes
  <2>2. files'[FileOf(w)] = Asks[r].data
    BY <1>4, <1>6, <2>1, FileStep DEF Types, Writes
  <2>3. r \in Request /\ executions'[r] = executions[r] + 1
    BY <1>6, ExecuteStep DEF Types, ChannelTypes, Writes
  <2>4. <<r, w>> \in after' => executions[r] > 0
    BY <1>1, <1>2, <2>3 DEF AfterInv
  <2>5. <<r, w>> \in after' => executions'[r] > 1
    BY <2>3, <2>4, ExecutionsGrow
  <2> QED
    BY <1>6, <2>2, <2>5 DEF Sticks
<1>7. ASSUME \A r \in Writes : Execute(r) => \/ FileOf(r) # FileOf(w)
                                             \/ Asks[r].name \in Invalid
      PROVE  Sticks(w)'
  <2>1. ASSUME NEW r \in Request, Execute(r)
        PROVE  /\ files'[FileOf(w)] = files[FileOf(w)]
               /\ executions'[w] = executions[w]
    <3>1. PICK answer \in Response : HandleRequest(From[r], Asks[r], answer)
      BY <2>1, ExecuteStep DEF Types
    <3>2. r # w
      BY <1>7, <2>1
    <3>3. executions'[w] = executions[w]
      BY <1>1, <2>1, <3>2, ExecuteStep DEF Types, ChannelTypes
    <3>4. files'[FileOf(w)] = files[FileOf(w)]
      BY <1>5, <1>7, <2>1, <3>1, FileStep DEF Types
    <3> QED
      BY <3>3, <3>4
  <2>2. /\ files'[FileOf(w)] = files[FileOf(w)]
        /\ executions'[w] = executions[w]
    BY <2>1 DEF Next, vars, channelVars, contentVars, SendMessage, Forward,
       HostPanics, GetMessages, DeleteClient, HostQuits, AddClient,
       Channel!Reply, Channel!Ask
  <2>3. Sticks(w)
    BY <1>3, <2>2 DEF StickInv, ListedBefore
  <2>4. PICK v \in Writes : /\ FileOf(v) = FileOf(w)
                            /\ files[FileOf(w)] = Asks[v].data
                            /\ <<v, w>> \in after => executions[v] > 1
    BY <2>3 DEF Sticks
  <2>5. v \in Request /\ (<<v, w>> \in after' => executions'[v] > 1)
    BY <1>2, <2>4, ExecutionsGrow DEF Writes
  <2> QED
    BY <2>2, <2>4, <2>5 DEF Sticks
<1> QED
  BY <1>6, <1>7

-----------------------------------------------------------------------------
(* The theorems *)

UserInv ==
  Types /\ ExecutedInv /\ FilesInv /\ AnswersInv /\ MailInv /\ AfterInv
    /\ StickInv

LEMMA UserInvHolds == Spec => []UserInv
<1>1. Init => UserInv
  <2> SUFFICES ASSUME Init PROVE UserInv
    OBVIOUS
  <2>1. Types
    BY TypesInit
  <2>2. \A r \in Request : ~ (executions[r] > 0)
    BY DEF Init, Channel!Init
  <2>3. ExecutedInv /\ AfterInv /\ StickInv
    BY <2>2 DEF ExecutedInv, AfterInv, StickInv, Init, Writes
  <2>4. FilesInv
    BY DEF FilesInv, Init, ContentInit
  <2>5. AnswersInv
    BY DEF AnswersInv, Init
  <2>6. MailInv
    BY EmptySeq DEF MailInv, Init
  <2> QED
    BY <2>1, <2>3, <2>4, <2>5, <2>6 DEF UserInv
<1>2. UserInv /\ [Next]_vars => UserInv'
  <2> SUFFICES ASSUME UserInv, [Next]_vars PROVE UserInv'
    OBVIOUS
  <2>1. Types'
    BY ChannelTypesNext, FileTypesNext, MailTypesNext DEF UserInv, Types
  <2> QED
    BY <2>1, ExecutedNext, FilesNext, AnswersNext, MailNext, AfterNext,
       StickNext DEF UserInv
<1> QED
  BY <1>1, <1>2, PTL DEF Spec

\* Once the Success of a write was read that was sent after the answer to a
\* listing, the file has its data or that of a write that may have come later.
THEOREM WritesStick == Spec => []WriteSticks
<1>1. UserInv => WriteSticks
  <2> SUFFICES ASSUME UserInv, NEW w \in Writes, HasRead(w, Success),
                      ListedBefore(w)
               PROVE  Sticks(w)
    BY DEF WriteSticks, ListedBefore, Sticks
  <2>1. PICK m \in read : m.request = w /\ m.message = Success
    BY DEF HasRead
  <2>2. /\ w \in Request /\ executions[w] > 0
        /\ \E e \in DOMAIN answers[w] : Success \in {Garbled, answers[w][e]}
    BY <2>1, ReadWasExecuted DEF UserInv
  <2>3. Success # Garbled
    BY ApplicationAssumption DEF ApplicationAssumption, Response
  <2>4. PICK e \in DOMAIN answers[w] : Success = answers[w][e]
    BY <2>2, <2>3
  <2>5. Fits(w, Success)
    BY <2>2, <2>4 DEF UserInv, AnswersInv
  <2>6. Success # Error
    BY DEF Success, Error
  <2>7. Asks[w].name \notin Invalid
    BY <2>5, <2>6 DEF Fits, Verdict
  <2> QED
    BY <2>2, <2>7 DEF UserInv, StickInv
<1> QED
  BY <1>1, UserInvHolds, PTL

\* Whatever clients come and go, a client reads from its private directory, by
\* a name that leads there, only what it asked to be written to that file, or
\* what was written by a name that leads out of its own directory.
THEOREM PrivateStaysPrivate == Spec => []PrivateIsPrivate
<1>1. UserInv => PrivateIsPrivate
  <2> SUFFICES ASSUME UserInv, NEW m \in read, m.request \in Gets,
                      Asks[m.request].private, Plain(m.request)
               PROVE  m.message \in {Error, Garbled} \cup
                        {Content(Asks[w].data) :
                           w \in {v \in Writes :
                                    /\ FileOf(v) = FileOf(m.request)
                                    /\ \/ /\ From[v] = From[m.request]
                                          /\ Asks[v].private
                                       \/ ~ Plain(v)
                                    /\ status[v] # "idle"}}
    BY DEF PrivateIsPrivate
  <2> DEFINE r == m.request
  <2>1. /\ r \in Request
        /\ \E e \in DOMAIN answers[r] : m.message \in {Garbled, answers[r][e]}
    BY ReadWasExecuted DEF UserInv
  <2>2. Parent[FileOf(r)] = From[r] /\ From[r] \in Peer
    BY <2>1, Asked DEF Plain, DirectoryOf
  <2>3. From[r] # Public /\ Parent[FileOf(r)] # Elsewhere
    BY <2>2, ContentAssumption DEF ContentAssumption, Directory
  <2>4. CASE m.message # Garbled
    <3>1. PICK e \in DOMAIN answers[r] : m.message = answers[r][e]
      BY <2>1, <2>4
    <3>2. Fits(r, m.message)
      BY <2>1, <3>1 DEF UserInv, AnswersInv
    <3>3. CASE m.message # Error
      <4>1. PICK w \in Sent(FileOf(r)) : m.message = Content(Asks[w].data)
        BY <2>3, <3>2, <3>3 DEF Fits
      <4>2. w \in Writes /\ FileOf(w) = FileOf(r) /\ status[w] # "idle"
        BY <4>1 DEF Sent
      <4>3. Plain(w) => From[w] = From[r] /\ Asks[w].private
        BY <2>2, <2>3, <4>2 DEF Plain, DirectoryOf
      <4> QED
        BY <4>1, <4>2, <4>3
    <3> QED
      BY <3>3
  <2> QED
    BY <2>4
<1> QED
  BY <1>1, UserInvHolds, PTL
=============================================================================
