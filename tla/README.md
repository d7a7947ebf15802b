# A TLA+ model of the WGL 2024 drone-network simulator

The repository is a simulator of a packet network. Clients and servers (the
*hosts*) exchange messages cut into fragments; drones, supplied by other
teams as crates, forward the fragments along source routes and may drop them.
A simulation controller, driven by an HTTP API, creates and removes nodes and
links while everything runs. Every node is a thread, every host is two.

This directory models the part of the program that this repository owns. The
drones are not in it (they are dependencies in `Cargo.toml`); where they
matter they are an environment, taken from `assets/spec/AP-protocol.md` and
from how `src/` uses them, and marked external.

## 1. Inventory

Paths are relative to `src/`.

| component | source | state it keeps | operations |
|---|---|---|---|
| fragmentation and reassembly | `src/network/main.rs` (`send_data_message`, `handle_fragment`), `src/network/message_constructor.rs` | one `MessageConstructor` per (peer, session): slots, `completed_up_to` | cut a message into fragments; store a fragment, acknowledge it, hand over the complete buffer, drop the constructor on a bad index |
| packet sender thread | `src/network/packet_sender.rs` | three queues (acks, fragments with retry count and time of last send, flood packets) | take a duty message, drop exhausted fragments, route, resend every 150 ms at most 5 times, flood |
| host thread | `src/network/main.rs` (`run`, `handle_packet`, `trigger_network_discovery`) | neighbours, topology, discovery flag (all three shared with the sender thread), discovery id and responses | commands from the controller, triggers from the sender, packets from the network, discovery timeout of 50 ms, quit |
| network discovery | `src/network/network_discovery_protocol.rs` | flood id, responses | start a discovery, collect responses, rebuild the adjacency map |
| route search | `src/network/packet_sender.rs` (`get_route_to_peer`) | none | breadth-first search in the adjacency map |
| communication server | `src/server/communication_server.rs` | chats in memory, one file per chat | create, join, leave, send, delete, list, read; load at start, save at stop |
| content server | `src/server/content_server.rs` | files below a base directory | list, read and write public and private files |
| clients | `src/client/*.rs` | none | forward every response to the controller |
| simulation controller | `src/simulation_controller/*.rs` | node tables with their neighbour sets, packet channels, active configuration, client mailboxes | add and delete nodes and edges, change configuration, send a request, read a client's messages |
| HTTP API | `src/main.rs` | one mutex around the controller | one handler per operation; panics while holding the mutex poison it |
| configuration, logger, display helpers | `src/network_initializer`, `src/utils` | a log vector | parse TOML, format names |
| drones (external) | crates named in `Cargo.toml` | | forward, drop, flood |

### How they interact

* controller -> host: `NodeCommand` channel (`Quit`, `AddNeighbour`,
  `RemoveNeighbour`, `SendMessage`); controller -> drone: `DroneCommand`.
* host thread -> its sender thread: the unbounded duty channel
  (`Packet`, `AckedFragment`, `Quit`); sender thread -> host thread:
  `TriggerNetworkDiscovery`; both share the neighbour map (mutex), the topology
  (mutex) and the discovery flag (relaxed atomic).
* host <-> network: unbounded packet channels, held by every neighbour.
* client -> controller: one channel shared by all clients.

### What makes each component correct

* *reassembly*: a buffer handed to the application is one message, whole; an
  acknowledged fragment is not lost (the sender will not send it again); no
  message is handed over more often than each of its fragments arrived.
* *packet sender*: a fragment leaves the queue only acknowledged or after
  exactly 5 attempts; every fragment leaves it; an ack is not lost.
* *host and discovery*: every discovery ends; an unroutable packet leads to a
  new one; routing is paused meanwhile; `Quit` ends both threads.
* *communication server*: what was stored at stop is there after the next
  start; a deleted chat stays deleted; answers say what happened; members are
  registered once.
* *controller*: neighbour sets are symmetric and never name a missing node
  (handlers `unwrap` and `panic!` on it); the packet channels are those of the
  nodes; a failed operation does not leave half of its effect.
* *content server*: after a write that was answered the file can be read, for
  the names and directories of which that is true; a name of the private
  directory is a file of its owner.

### What is hard here

Two threads sharing three variables without one lock; check-then-act on the
discovery flag; retries that race late acknowledgements; retransmission after
the receiver has forgotten the message; a shutdown that nobody joins, followed
at once by a restart on the same files; channels that close before the last
command is issued; writes and removals that fail one file at a time;
multi-step controller operations that return in the middle.

## 2. Plan

Order: the transport first, since every other part relies on it.

1. done: `FragmentReassembly` (+ `_proofs`): cutting, storing, acknowledging,
   handing over.
2. done: `PacketSender`, extended by `HostNode`: the two threads of a host,
   and `FragmentDelivery`, which is what they promise to the outside.
3. done: `SimulationController` (+ `_proofs`): tables, links, configuration
   change, one failing thread.
4. done: `ChatStore`, `CommunicationServer` (+ `_proofs`): chats, files, stop,
   start, crash and the failures of the disk, and the refinement.
5. done: `NetworkDiscovery` and `RouteSearch`: flooding over a graph, what the
   topology may and must contain, and the search in it.
6. done: `Transport`, two hosts and the network between them, which composes
   `FragmentDelivery` and `FragmentReassembly` and implements `RequestChannel`.
7. done: `ContentServer` and `Application`: the requests of users over
   `RequestChannel`, and the mailboxes of the clients.
8. done, proofs: theorems for every safety property that a passing run checks,
   and for the refinements of `FragmentDelivery`, `RequestChannel` and
   `ChatStore` (section 5).
9. done, proofs: what a restart keeps after crashes and failures of the disk
   (`StoreSpec` for every `MaxFaults`).
10. next: what survives when servers overlap. `HistoryKept` is false there
    (section 6); `TypeOK` and `RegisteredOnce` are proved.

## 3. Modules

| module | models | state |
|---|---|---|
| `FragmentReassembly` | `handle_fragment`, `MessageConstructor`, the cutting in `send_data_message` | `fragment_constructors` as in the code; histories: what was acknowledged, handed over, how many copies arrived |
| `PacketSender` | the sender thread | its queues, a program counter `spc`, the position in the batch; the channels and variables shared with the node thread |
| `HostNode` (EXTENDS `PacketSender`) | the node thread and the environment | program counter `npc`, command channel, responses of the discovery, the elapsed timer |
| `FragmentDelivery` | what the sender of a host promises | per fragment: its stage, attempts, copies on the wire |
| `Transport` | two hosts and the network, for one session | two instances of `FragmentDelivery`, two of `FragmentReassembly`, Acks under way |
| `RequestChannel` | what the transport promises to the applications | per request: status, executions, replies and what they were made of |
| `NetworkDiscovery` | discovery by one host, over a graph | links, flood packets under way, what each drone has seen, the responses, the topology; histories of the links there were |
| `RouteSearch` (EXTENDS `NetworkDiscovery`) | `parse_network` as lists, `get_route_to_peer` | none of its own |
| `SimulationController` | the controller behind the mutex | the three tables, neighbour sets as pairs, packet channels, which incarnation of an id each channel is, the threads that are alive, `active_configuration`, the mutex, a count of failures |
| `ChatStore` | what a communication server promises, and what a crash or the disk may take back | chats with members and messages, the last answer and what it refused; the chats that may return |
| `CommunicationServer` | the servers started on one directory, one after the other, and its failures | per server: phase, memory, entries to load or save, the file being written; the directory |
| `ContentServer` | the content server | directories and files |
| `Application` (EXTENDS `ContentServer`) | `send_message`, `get_messages`, clients that come and go, over a `RequestChannel` | the client table, running client threads, the channel all clients share, mailboxes; histories of what users read |
| `MC*` | values for TLC | |
| `*_proofs` | theorems; those about `NetworkDiscovery` are in `RouteSearch_proofs` | |

The modules form two towers. `HostNode` implements `FragmentDelivery`
(`DeliverySpec`); `Transport` is built from `FragmentDelivery` and
`FragmentReassembly` and implements `RequestChannel` (`ChannelSpec`);
`Application` is built from `RequestChannel` and `ContentServer`. So each
level is checked against what the one below promises and not against its
detail. `CommunicationServer` implements `ChatStore` (`StoreSpec`).

`map` in `PROJECT.json` names the source lines of every definition. Some
correspondences that are not obvious:

* *One step per lock, channel operation or file.* `route_packet` holds the
  neighbour map's mutex and takes the topology's inside: one step. The
  discovery flag is a relaxed atomic, loaded once per `process_queue`:
  `BeginPass`. In `Node::run` the flag is cleared (`EndDiscovery`) before the
  topology is replaced (`PublishTopology`). `AddNeighbour` changes the map
  (`ChangeNeighbours`) before it starts a discovery (`TriggerAfterChange`).
* *Order in a pass.* The queue of fragments is a function of the fragments in
  it, and a pass takes them in any order from `unvisited`. The code has a `Vec` that `retain` filters and a pass goes
  through from the front. A fragment is in it at most once and what becomes of
  it does not depend on the others there, so the model has the passes of the
  code among its own; and every theorem holds for every order.
* *`select_biased!`* is a priority: commands, triggers, packets, timeout. The
  guards of `TakeTrigger`, `TakePacket` and `SelectTimeout` say so.
* *Disconnected channels.* When the sender thread has ended, its duty channel
  refuses messages (`expect` panics the node thread) and its trigger channel
  is always ready with an error (`SenderChannelClosed`).
* *Poisoning.* `FloodPanics` happens with the neighbour map locked; the node
  thread then panics in `AddNeighbour` and `RemoveNeighbour`.
* *Who ends a host.* `EndsSaved` excuses three things: the controller drops
  the command channel of a host without a `Quit` (`close`); a neighbour drops
  its receiver (`gone`), which panics the sender thread
  (`expect("Failed to send packet")`) and with it the host; and everybody who
  could send it packets is gone before `Quit` is issued (`cut_off = "early"`).
  The last is `delete_node`: it drops the controller's packet sender, has the
  neighbours drop theirs, and then issues `Quit` (`CutOff`, `IssueCommand`).
  If the host looks in between, `PacketsClosed` ends the loop without `stop()`
  (`network/main.rs:262-264`). Once `Quit` is in the command channel the biased
  select takes it first, and that is what the property says. The neighbours
  are not modelled one by one: the channel closes at any time, and packets
  that remain may be taken before the end of it is seen.
* *Topology.* In `HostNode` the adjacency map is reduced to the pairs (first
  hop, peer) that a path connects. Which path the search takes is left open,
  so anything proved or checked holds for each choice. A packet to the host
  itself (`hops.len() <= 1`) is never queued by this program.
* *Sessions.* The key of `fragment_constructors` is (peer, session id); a
  `Session` in the model is that pair. `Alone(m)` says that no other message
  uses the session of `m`.
* *Controller.* Handlers are atomic because each holds the mutex from its
  first line to its last. What is concurrent is the life of node threads:
  `alive` is the set of ids whose command channel still has a receiver.
  `senders` is what the nodes' neighbour maps hold once the commands they were
  sent are processed.
* *Configuration files.* What is read and parsed again at every change may
  have been edited meanwhile: `MainFilePanics` and `UnknownKindPanics` may
  happen at any time. `lock` is then "misconfigured", so that `LockUsable` can
  name these panics and still exclude every other.
* *Directory.* `fs::write` is two steps, truncate and fill, and either may fail
  (`OpenFails`, `FillFails`); `stop` logs that and goes on to the next chat.
  Start reads the list of entries first and the files later, and panics if it
  cannot (`ReadFails`, `LoadFails`). `remove_file` may fail on a file that is
  there (`DeleteFails`), which answers as for a chat that has no file.
* *Refusals.* The store remembers which request was refused and for what
  (`refused`): a refusal of a request that should have been granted is a step
  that `ChatStore` does not have.
* *File names.* `Join` is `PathBuf::join`: an absolute name replaces the
  directory. `Place` says which file a path leads to, `Parent` which directory
  that file is in: one of the server's, one elsewhere, or none. `WrittenTo` is
  `fs::write`: it makes no directory. `Success` is answered in any case. Outside
  of its directories a file may have any content at first, and be writable or
  not.

* *Transport.* The hosts keep everything by peer and session, and draw session
  ids at random: exchanges with different ids do not meet, so one session is
  modelled. A packet that is lost and one that is late for ever are the same.
  The client's Acks are under way as a count per fragment index, because that
  is all they say; an Ack settles what waits with its peer, session and index
  (`Matching`), of whichever response.
* *Discovery.* The flood ids are numbered in the order they are drawn. The
  window of 50 ms is any time at all: `EndDiscovery` may come before the first
  response and after the last. `settled` is a history that says whether nothing
  of the flood was under way then and the network had stood still. Drones
  follow `AP-protocol.md`; this host and others follow the code. A link removed
  under a packet that is on it does not lose the packet.
* *Route search.* Each loop of `parse_network` and `get_route_to_peer` is a
  function from the number of rounds to the variables after them. The search
  has `MaxRounds` rounds, of which those after `Over` do nothing; that
  `MaxRounds` is enough is proved (`SearchEnds`).
* *Application.* A request is made once; the channel executes it again when it
  likes. `after` and `read` are what a user can know: what he was answered,
  and that he had read it when he sent the next request. A message made of
  fragments of different answers is `Garbled`: it may be forwarded as it is or
  end the thread of the client (`expect("Failed to deserialize message")`).
  The controller's mailboxes live in the same table as its clients; a client
  that is deleted may still forward something before its thread takes Quit.

Not represented: a thread that cannot be spawned inside a host; the random
numbers (discovery ids, session ids and chat ids are distinct when drawn);
bincode and JSON (a complete buffer of one message deserializes); a
configuration file with one id twice; what a panic in the middle of a
handler leaves in the tables, which nobody can read any more.

## 4. Runs

`expect: pass` unless stated. States are distinct states.

| run | shows | bounds |
|---|---|---|
| `MCFragmentReassembly` (385 020) | messages alone in their session are whole, kept once acknowledged, repeated only when every fragment was; no buffer has a hole, in shared sessions either | one message of 3 fragments, two of 3 and 2 in one session, so that a fragment can be out of bounds; up to 2 copies of each fragment |
| `MCHostNode` (4.6 M) | `FragmentDelivery` is implemented; no fragment is lost, in two places or tried too often, and no Ack in two places, while discoveries, the removal of the only neighbour and late Acks interleave; routes use current neighbours between discoveries | 2 fragments, 1 Ack owed, which may be sent or dropped, 1 hop, 2 attempts, 1 Ack per fragment |
| `MCHostNodeLive` (463 164) | a server: it ends saved, discoveries end, its response is settled, Quit ends both threads, although channels may close before or after Quit is issued | 1 incoming fragment, 1 response fragment, 2 attempts, 1 Nack |
| `MCHostNodeFlood` (357 215) | flood requests get out and are answered; a panic ends the whole host | 2 hops, one of which may end; 1 foreign request; 1 attempt |
| `MCSimulationController` (1.0 M) | over any sequence of calls the tables stay consistent and no handler panics until a thread fails or the ids run out, but for bad configuration files; after that, channels still cover the nodes and an id is in one table | ids 0..3, each given out twice, all of which may be taken, 3 configurations and an unknown one, 1 thread that dies or does not start |
| `MCCommunicationServer` (1.1 M) | history survives restarts; `ChatStore` is implemented; members once, deletions final, also with a crash in the middle of a write and files that cannot be written, removed or read | 2 servers in a row, 2 chats, 2 peers, 1 password, 1 message per chat, 2 faults |
| `MCRouteSearch` (2.8 M) | the topology has no link of the past and, if nothing disturbed the discovery, every link that can be found; the search finds a shortest route over any topology reached | a square of a client, two drones and a server with a diagonal; 2 floods; 1 change of one of two links |
| `MCTransport` (2.1 M) | two hosts implement `RequestChannel`; acknowledged responses of one length were handed over | a request of 1 fragment, sent up to twice; responses of 2 or 3 fragments, each sent once |
| `MCApplication` (2.4 M) | what users may conclude: a sole poller gets all, a write that was confirmed sticks, private files are private | 2 clients, one of which is added later, 5 requests, each executed up to twice, 4 executions and 3 responses in all, a plain file name and an absolute one |
| `MCHostNodeExpect` (violation) | `expect("Failed to send packet")` can fail | |
| `MCCommunicationServerOverlap` (violation) | a restart that does not wait loses the history | 1 chat, 1 peer |
| `MCTransportLost` (violation) | all fragments of two responses are acknowledged and none is handed over | as `MCTransport`, but each fragment may be sent twice |

Why the bounds are enough:

* *Reassembly.* Three fragments are the least with a middle one, so that the
  scan has to jump over slots filled before it. Two copies reopen a session
  after completion, a third arrives after that. Different lengths in the
  shared session reach the rejection of an index out of bounds.
* *Retries.* `PACKET_RESEND_MAX_RETRIES` is 5 in the code and 2 in the runs:
  a first attempt, a last one, and the pass that drops. The value occurs in one
  comparison.
* *Triggers.* The trigger channel is unbounded; equal messages beyond
  `MaxTriggers` = 1 are merged with the one that waits. A trigger that is
  taken does the same whatever waits behind it.
* *One hop* suffices where the question is about queues; the flood run has two,
  so that one can fail and the other be reached or not.
* *Two incarnations* of an id are the least with a stale channel. Four ids are few
  enough to be taken all, so that `get_id` finds none (`AddNodeOverflows`).
* *One failing thread.* Handlers meet a dead thread one at a time; the invariants
  that are weakened by `faults = 0` fail already after the first.
* *The square* is the least network with two routes, a cycle among drones and a
  server that hears every flood twice. Two floods are needed for a late
  response of the first in the window of the second.
* *Responses of 2 and 3 fragments* are the least for which a fragment of one is
  out of bounds in the constructor of the other. With one transmission of each
  response fragment nothing is repaired by a retry, which is the harder case
  for `ChannelSpec`; the run of the violation has two,
  because there the dropped fragment must be sent again.
* *Five requests*: a listing, two writes of one file and a reading by one
  client, so that an old write can be executed again after the new one was
  confirmed (`WriteSticks` is false without that exception), and a reading by
  another. The second write names the file by its absolute path, as a public
  one: the two properties have to follow it to the file. `VIEW` drops the order
  of responses once `SolePollerGetsAll` says nothing any more; the module says
  why. File names with `..`, names that lead nowhere, and requests that touch
  no file are in the module and the theorems but not in the instance.
* *Two servers*: the second loads what the first saved. Each load and save is
  of a directory of two files, so that partial ones exist. Two faults are the
  least with which one chat is hit while it is deleted or saved and then
  another, or a crash, follows. One password: a wrong one fails the same
  condition as a peer that is in the chat already, and the theorems are for
  any. Chats and peers are symmetric.

Deadlock is not checked: a host that has quit, a server that has ended, a
message that was delivered and a poisoned controller are final states.

### Fairness

Only `HostNode` has liveness properties. `Fairness` is weak fairness of

* `SenderStep` and `NodeStep`: each is an OS thread that is scheduled. The
  actions of the node thread that depend on a packet arriving
  (`HandlePacket`) have none: the network may stay silent for ever;
* `DiscoveryTimeElapses` and `BackOffElapses`: time passes, so the 50 ms
  and the 150 ms are over some day.

Weak fairness suffices because a timer that has elapsed stays so until the
thread looks at it or restarts it. Time has no rate here. A schedule in which
every pass of the sender thread takes longer than 50 ms, so that its triggers
restart each discovery before the next pass, is allowed by the model; for a
server's unroutable Ack `FragmentSettles` holds nonetheless, because attempts
count also when no route was found. `MCHostNodeFlood` has no incoming
fragments, so that its floods are not restarted for ever.

## 5. Proofs

For every value of the constants, with TLAPS (SMT, Zenon, LS4). Each module
proves that an invariant holds initially, that every action keeps it, with a
lemma for each part of the invariant, and that it implies the property.

* `FragmentReassembly_proofs`: all seven invariants of the run. `TypeOK` is
  inductive. `NoFullConstructorOpen` needs `ScansOK`: the scan position of an
  open constructor is at an empty slot and everything before it is filled. The
  next four are from one inductive invariant, `SessionInv`: `Belongs` (the constructor of a
  session with one message has its length and only its fragments in their
  places), `CopiesCounted` (the copies that arrived cover the hand-overs, and
  one more for each slot that is filled now) and `ArrivedIsAcked` (nothing is
  rejected in such a session). A step in a shared session does not touch
  the others (`SessionInvShared`). There is no assumption on sessions: the
  properties speak of the messages that are alone in theirs.
  `SharedHasNoHole` is about all sessions and is proved last, from `Originates`.
* `SimulationController_proofs`: `TypeOK`, that a node has a channel, and
  `OneTableEach` (if the files put each id in one table) whatever threads die.
  As long as no thread has failed: `EdgesBidirectional`, `NeighboursExist`,
  `ChannelsAreNodes`, `SendersAreCurrent` and `LockUsable`, whose exceptions
  are that all ids are taken and the two panics on bad configuration files;
  there is no assumption that threads live or files are well formed, the
  properties say up to when they hold. None of
  these is inductive alone: deleting a node removes the links that its
  *neighbours* record, which are all links to it only if links are symmetric;
  adding an edge checks channels and touches nodes, which agree only if
  channels and nodes are the same. `Consistent` is their conjunction with
  `alive = NodeIds`.
* `CommunicationServer_proofs`: `TypeOK` and `RegisteredOnce` for any way of
  starting and ending servers. If a server is started only when the one before
  has ended (`Overlap` FALSE): `StoreSpec`, `DeletedStaysDeleted` and
  `HistoryKept`, with any number of crashes, torn files, and files that
  cannot be written, removed or read. `ServerInv` says that one server acts at
  a time (`OneAtATime`), what has been loaded or saved so far (`Loading`,
  `Saving`), that every file is of a chat the server has or could not remove
  (`Serving`), that ids are not drawn twice (`IdsUsed`), and that a file is
  never ahead of the server that knows its chat (`Older`), so that whatever a
  fault takes back is an earlier state. The refinement maps the rooms to the memory of the server that serves and to the
  directory in between: loading and saving are stutters, the end of a server
  is `Restart` or `Lose`, which may take back the chats that were hit and no
  other.

* `HostNode_proofs`: all five invariants of the runs, and `DeliverySpec`.
  `FragmentInv` says where a fragment is (on its way to the sender thread, in
  its queue, settled, or given up; in exactly one place, and there once) and that the
  retries in the queue are the attempts on the wire; it needs `PassOK` (a pass
  looks only at fragments with attempts left) and `Fresh` (what waits to be
  submitted was not before), and it gives the refinement: the stage of a fragment
  is its place. `AckInv` does the same for Acks, with the batch of a pass as a
  fifth place, and needs `LearnedInv`: before the first removal all that a host
  has learned begins with a neighbour, so that no Ack is dropped. `RouteInv`
  says the same of the responses between one removal and the next discovery.
  `EndInv` says that whoever is about to end, or a `Quit` on its way, has the
  application stopped behind it, or is excused. `QuitInv` says that a `Quit` that was
  issued waits in the command channel until the application is stopped, and
  the end of the packet channel is looked at only when that is empty.
* `RouteSearch_proofs`, first part, about discoveries. `RecentInv`
  (`TopologyIsRecent`) says that every path told in the latest flood goes over
  links that were there since the discovery began. `FloodInv`
  (`CompleteWhenSettled`) speaks of an undisturbed flood: each link of a node
  that has sent the flood on is told of in a packet or a stored response, and each
  drone next to it has the flood or a request on its way (`Spreading`); nothing
  out of reach is told (`WithinTrails`). When no packet is left, the drones that
  have the flood are closed under links, so they are all within reach.
* Second part, about the search: `RoutesAreShortest`. `ListsAreParsed` shows
  that the lists are the topology. The invariant of the search, `SearchInv`,
  says that the queue has routes of one length and then of the next, each as short as
  any to where it leads, that a node that was found waits for its turn or has
  had it, and that everything closer than the first route was found. The
  library's induction takes a predicate as a parameter; `AllNat` is induction
  for a set of numbers, from the fact that a nonempty set of them has a least
  element, and `LoopExists` and `AllRounds` apply it to loops.
* `FragmentDelivery_proofs`: what is on the wire is bounded by the attempts,
  and these by `Retries`; only an Ack settles. `Transport_proofs` uses it for
  either host.
* `FragmentReassembly_proofs`, last section: sessions that several messages
  share, as responses to one request do. Whatever is kept or was handed over
  arrived in that session and at that index (`Originates`), and a constructor
  was opened by a message that arrived. `SharedHasNoHole` follows.
* `Transport_proofs`: `AnsweredIfAlike` and `ChannelSpec`.
  `ExchangeInv` takes the invariants of the two senders and of the two
  receivers from the modules above and adds what joins them: what arrives was
  transmitted (`ArrivedWasSent`), one response was submitted per execution
  (`OnePerExecution`), an Ack stands for a fragment with its index
  (`AcksAreMeant`). That replies are bounded by the attempts of the server needs a
  count: each reply consumes a copy of a first fragment, so the replies map
  injectively into the copies.
* `Application_proofs`: `SolePollerGetsAll`, `WriteSticks` and
  `PrivateIsPrivate`, from `UserInv`: an answer fits its request, a file holds
  what somebody asked to be written there, a message comes from an execution of
  its request, what a user has read an answer to was executed before, and
  (`StickInv`) a file keeps the data of a write unless a write that is not
  older, or one executed again, replaced it. Both properties speak of the
  file that a name leads to (`FileOf`), for every `Place` and `Parent`.
  `WriteSticks` has two hypotheses, in the formula: the `Success` was read, and
  a listing of the file's own directory was answered before. `PrivateIsPrivate`
  speaks of readings by names that lead into the directory that is meant, and
  counts among the sources every write by a name that does not.

Assumptions are the named `ASSUME`s of the modules; TLC evaluates each on the
constants of a run. Those that are not plain types:

* `FreshAssumption` (`HostNode`): a fragment belongs to one message.
  `send_data_message` makes new fragments for every message, under a session id of its
  own or that of the request it answers. In the second case an Ack settles the
  fragments of one index of every response that waits; `HostNode` lets it settle
  one, `Transport` all of them (`Matching`).
* `EmptyAssumption` (`Transport`): `None` is no fragment; `Garbled` is no
  response (`Application`).
* `FiniteAssumption` (`RouteSearch`): there are finitely many nodes; their ids
  are bytes.

Only model-checked:

* liveness: `DiscoveryEnds`, `FragmentSettles`, `QuitEnds`, `DiscoveryFloods`,
  `FloodAnswered`, `PanicEndsHost`. Fairness and `ENABLED` are out of this
  prover's reach;
* that `HistoryKept` is false when servers overlap: a counterexample.

## 6. Disagreements between code and documents

Shown by runs (`findings` in `PROJECT.json`): the panic of the sender thread,
responses that are acknowledged and never handed over, and restarts without
joining.

Seen while modelling, without a run:

* `packet_sender.rs:186` says that no packets are sent while a discovery is
  under way; the flag is read once per pass, and the rest of a pass goes out.
* `packet_sender.rs:352`: an Ack whose next hop is no longer a neighbour is
  dropped, where `AP-protocol.md:275` says that Acks "can't be lost". The peer
  sends the fragment again.
* `message_constructor.rs:58` copies the padding of the last fragment, where
  `AP-protocol.md:315` says to copy `length` elements.
* `main.rs:130` (`panic!("Edge from {} to {} exists but not the reverse")`)
  is reached when threads die: a table is drained and its neighbours' sets stay.
* `simulation_controller/main.rs:234` overflows when all ids are taken.
* `simulation_controller/main.rs:746,755,186,203`: a main configuration file that
  cannot be read or parsed, and an unknown type of server or client, panic
  with the controller locked; the same faults of a configuration file are
  returned as errors (160, 167).
* `network/main.rs:262-264` and `simulation_controller/main.rs:411-434`: a
  server whose packet channel closes before its `Quit` is issued ends without
  saving.
* `communication_server.rs:116`: a file torn by a crash keeps every later
  server from starting; `:68`: a chat that cannot be written is logged, and the
  next server has it as it was or, if the file was truncated, does not start;
  `:204`: deleting a chat that was never saved succeeds and answers with an
  error, and deleting one whose file cannot be removed answers with the same
  error and lasts until the next start.
* `simulation_controller/main.rs:780-797`: the responses of all clients go to
  the client that polls first, and those drained by a poll of an unknown client
  are lost.
* `content_server.rs:180`: a failed write is answered with `Success`, which
  `network/message.rs:41` documents as "Request was successful". Writing to a
  private directory that was never listed fails this way, always, and so does
  a name with a subdirectory or an empty one.
* `content_server.rs:140,147,163,174`: only `..` is refused in a name; an
  absolute one replaces the directory it is joined to, so that public and
  private requests with the same absolute name are about one file.
* Fragments of two responses in one session can complete a buffer that is
  neither; `network/main.rs:399` expects it to deserialize.
* `simulation_controller/main.rs:132,223`: a change to a configuration that
  cannot be read destroys the network and leaves the old one reported active.
* `src/README.md:131` has hosts at the edge of the network; the search in
  `packet_sender.rs:362` goes through hosts as through drones, and a route over
  one ends there.
* `main.rs:420,430`: `(0..255).contains` refuses node id 255, which `get_id`
  may give out; `main.rs:294` cuts chat ids to 32 bits.
* `simulation_controller/main.rs:98-103`: drones are sent `Crash` twice. If one is
  gone when the second comes, `destroy_network` fails with its first table
  drained (`DestroyFails`).

## Not modelled

* Packet drop rates, statistics and the choice of a drone group in the
  controller: numbers passed through to a drone and back, which no other state
  depends on; drones are crates of other teams.
* `get_logs`, the logger and the display helpers: formatting, and a log that
  only grows.
* TOML and JSON parsing, `get_topology` and `get_nodes` beyond their panics:
  layout.
* `network/message.rs`: data definitions; the modules use the constructors they
  need. `get_messages`, `get_chats` and `server-type` of the communication
  server change nothing.
* Sends between hosts that drones would answer with a Nack of type `Dropped`: the
  code ignores it, and the fragment is sent again as if nothing had come.

## 7. Running

In this directory: `tlc -config X.cfg M` for a row of section 4 (the module is
in `PROJECT.json`), `tlapm M_proofs.tla` for the proofs.
