----------------------------- MODULE Application -----------------------------
(***************************************************************************)
(* What a user of the HTTP interface sees of the content server: requests  *)
(* are sent through a client, carried by a RequestChannel (Transport       *)
(* implements it), executed by the content server, whose responses the     *)
(* client forwards into the one channel that all clients share.  A poll    *)
(* of a client's messages empties that channel into the mailbox of the     *)
(* client that is polled.  Clients are deleted and added again meanwhile;  *)
(* the channel survives that, as it does a change of configuration.        *)
(*                                                                         *)
(* What the sender of a host makes of a request (Confirm, Abandon) it      *)
(* tells nobody; it has no part in this module.                            *)
(***************************************************************************)
EXTENDS Naturals, Sequences, FiniteSets, ContentServer

CONSTANTS
  Client,         \* ids of clients, the peers of the server
  InitialClients,
  Request,        \* the requests made, each once
  From,           \* the client each is sent through
  Asks,           \* what it asks for
  Garbled,        \* a message made of fragments of different responses
  MaxExecutions, MaxReplies,  \* of a request: PACKET_RESEND_MAX_RETRIES
  MaxAdded,       \* bound: clients added
  MaxServed,      \* bound: executions of all requests
  MaxForwarded    \* bound: responses forwarded

ASSUME ApplicationAssumption ==
  /\ Client \subseteq Peer /\ InitialClients \subseteq Client
  /\ From \in [Request -> Client]
  /\ Asks \in [Request -> FileRequest \cup [kind : {"type", "chat"}]]
  /\ Garbled \notin Response
  /\ MaxExecutions \in Nat \ {0} /\ MaxReplies \in Nat \ {0}
  /\ MaxAdded \in Nat /\ MaxServed \in Nat /\ MaxForwarded \in Nat

VARIABLES
  status, executions, replies, content,  \* the channel
  answers,           \* what the server answered to each execution
  clients,           \* the client table of the controller
  hosts,             \* ids for which a client thread still runs
  client_events,     \* the channel from all clients to the controller
  messages,          \* the mailbox of each client
  messages_version,
  \* history
  added,      \* clients added
  forwarded,  \* everything that was put into client_events
  polled,     \* ids whose polls found responses
  read,       \* the messages that polls returned
  after       \* <<q, r>>: a response to q, a write or a listing, had been
              \* read when the write r was sent

channelVars == <<status, executions, replies, content>>
mailVars == <<messages, messages_version, client_events>>
history == <<added, forwarded, polled, read, after>>
vars == <<channelVars, contentVars, answers, clients, hosts, mailVars, history>>

Channel == INSTANCE RequestChannel

\* ResponseFromNetwork.  The request is not part of it: a user who sends one
\* request at a time knows which one is meant.
Message == [peer_id : Client, request : Request,
            message : Response \cup {Garbled}]

-----------------------------------------------------------------------------
(* Requests *)

Writes == {r \in Request : Asks[r].kind = "write"}
Gets == {r \in Request : Asks[r].kind = "get"}

\* send_request: a client that is not in the table, or whose thread has ended,
\* is an error.
CanSend(id) == id \in clients \cap hosts

\* The handler send_message.
SendMessage(r) ==
  /\ CanSend(From[r])
  /\ Channel!Ask(r)
  /\ after' = IF r \notin Writes THEN after
              ELSE after \cup {<<q, r>> : q \in {m.request : m \in read} \ Gets}
  /\ UNCHANGED <<contentVars, answers, clients, hosts, mailVars, added,
                 forwarded, polled, read>>

Served ==
  {x \in Request \X (1 .. MaxExecutions) : x[2] <= executions[x[1]]}

\* Execution e of r is answered with answers[r][e].
Execute(r) ==
  /\ Cardinality(Served) < MaxServed
  /\ Channel!Execute(r)
  /\ \E answer \in Response :
       /\ HandleRequest(From[r], Asks[r], answer)
       /\ answers' = [answers EXCEPT ![r] = Append(@, answer)]
  /\ UNCHANGED <<clients, hosts, mailVars, history>>

-----------------------------------------------------------------------------
(* Responses *)

\* Fragments of equal responses make up that response.
Assembled(r, from) ==
  LET sources == {answers[r][e] : e \in from}
  IN  IF Cardinality(sources) = 1 THEN sources ELSE {Garbled}

\* ChatClient and WebBrowser: handle_message.
Forward(r, from) ==
  /\ From[r] \in hosts
  /\ Len(forwarded) < MaxForwarded
  /\ Channel!Reply(r, from)
  /\ \E m \in [peer_id : {From[r]}, request : {r}, message : Assembled(r, from)] :
       /\ client_events' = Append(client_events, m)
       /\ forwarded' = Append(forwarded, m)
  /\ UNCHANGED <<contentVars, answers, clients, hosts, messages,
                 messages_version, added, polled, read, after>>

\* expect("Failed to deserialize message"): the thread of the client ends, the
\* client stays in the table.
HostPanics(r, from) ==
  /\ From[r] \in hosts
  /\ Channel!Reply(r, from)
  /\ Assembled(r, from) = {Garbled}
  /\ hosts' = hosts \ {From[r]}
  /\ UNCHANGED <<contentVars, answers, clients, mailVars, history>>

\* Mutant: the mailbox is given what came last.
ReceivedReplacing(id) == client_events

Received(id) == messages[id] \o client_events

\* get_messages: whoever the responses are for, they go to the client that is
\* polled; if there is no such client, they are dropped.  A poll that finds no
\* response changes nothing.
GetMessages(id) ==
  /\ client_events # <<>>
  /\ client_events' = <<>>
  /\ IF id \in clients
     THEN /\ messages' = [messages EXCEPT ![id] = Received(id)]
          /\ messages_version' = [messages_version EXCEPT
                                    ![id] = @ + Len(client_events)]
          /\ read' = read \cup {messages'[id][i] : i \in DOMAIN messages'[id]}
     ELSE UNCHANGED <<messages, messages_version, read>>
  /\ polled' = polled \cup {id}
  /\ UNCHANGED <<channelVars, contentVars, answers, clients, hosts, added,
                 forwarded, after>>

-----------------------------------------------------------------------------
(* Clients come and go *)

\* delete_node; its thread ends when it takes Quit, by HostQuits.
DeleteClient(id) ==
  /\ id \in clients
  /\ clients' = clients \ {id}
  /\ messages' = [messages EXCEPT ![id] = <<>>]
  /\ messages_version' = [messages_version EXCEPT ![id] = 0]
  /\ UNCHANGED <<channelVars, contentVars, answers, hosts, client_events, history>>

HostQuits(id) ==
  /\ id \in hosts \ clients
  /\ hosts' = hosts \ {id}
  /\ UNCHANGED <<channelVars, contentVars, answers, clients, mailVars, history>>

\* add_client, with an id that is free; the mailbox is empty.
AddClient(id) ==
  /\ id \in Client \ clients
  /\ added < MaxAdded
  /\ added' = added + 1
  /\ clients' = clients \cup {id}
  /\ hosts' = hosts \cup {id}
  /\ UNCHANGED <<channelVars, contentVars, answers, mailVars, forwarded, polled,
                 read, after>>

Init ==
  /\ Channel!Init /\ ContentInit
  /\ answers = [r \in Request |-> <<>>]
  /\ clients = InitialClients /\ hosts = InitialClients
  /\ client_events = <<>>
  /\ messages = [id \in Client |-> <<>>]
  /\ messages_version = [id \in Client |-> 0]
  /\ added = 0 /\ forwarded = <<>> /\ polled = {} /\ read = {} /\ after = {}

Next ==
  \/ \E r \in Request :
       \/ SendMessage(r) \/ Execute(r)
       \/ \E from \in SUBSET (1 .. MaxExecutions) :
            Forward(r, from) \/ HostPanics(r, from)
  \/ \E id \in Client :
       \/ GetMessages(id) \/ DeleteClient(id) \/ HostQuits(id) \/ AddClient(id)

Spec == Init /\ [][Next]_vars

-----------------------------------------------------------------------------
(* Properties *)

\* Between the clients and a user who polls only one of them, while nobody
\* polls another, nothing is lost, repeated or reordered, for as long as that
\* client exists: its mailbox and the channel hold everything that any client
\* forwarded, and the version is the number of the messages.
SolePollerGetsAll ==
  \A id \in Client :
    (polled \subseteq {id} /\ id \in InitialClients /\ added = 0 /\ id \in clients)
      => /\ messages[id] \o client_events = forwarded
         /\ messages_version[id] = Len(messages[id])

HasRead(r, answer) == \E m \in read : m.request = r /\ m.message = answer

FileOf(r) == Place[Join(DirectoryOf(From[r], Asks[r]), Asks[r].name)]

\* A write whose Success was read sticks, if it was sent after a listing of
\* the directory that its file is in was answered: the file holds its data, or
\* that of another write of the file, by whatever path and name, which was
\* sent before the answer to this one was read, after it, or executed again.
\* Without the listing the directory need not exist, and Success says nothing;
\* it never says anything of a name that leads out of the server's directories
\* or nowhere.
WriteSticks ==
  \A w \in Writes :
    (/\ HasRead(w, Success)
     /\ \E l \in Request : /\ Asks[l].kind = "list" /\ <<l, w>> \in after
                           /\ DirectoryOf(From[l], Asks[l]) = Parent[FileOf(w)])
      => \E v \in Writes :
           /\ FileOf(v) = FileOf(w)
           /\ files[FileOf(w)] = Asks[v].data
           /\ <<v, w>> \in after => executions[v] > 1

\* The name leads to a file of the directory that is meant.
Plain(r) == Parent[FileOf(r)] = DirectoryOf(From[r], Asks[r])

\* By a plain name a client gets nothing out of its private directory but what
\* it asked to be written to that file of it, or what somebody asked to be
\* written by a name that is not plain.  Names that are not plain get and write
\* whatever they lead to, the private files of others included.
PrivateIsPrivate ==
  \A m \in read :
    LET g == m.request
    IN  (g \in Gets /\ Asks[g].private /\ Plain(g)) =>
          m.message \in {Error, Garbled} \cup
            {Content(Asks[w].data) :
               w \in {v \in Writes : /\ FileOf(v) = FileOf(g)
                                    /\ \/ From[v] = From[g] /\ Asks[v].private
                                       \/ ~ Plain(v)
                                    /\ status[v] # "idle"}}
=============================================================================
