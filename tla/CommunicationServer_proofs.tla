--------------------- MODULE CommunicationServer_proofs ---------------------
(***************************************************************************)
(* Proofs about CommunicationServer, with crashes and failures of the disk *)
(* at any point and any number of them.  The first part holds for any way  *)
(* of starting servers; the second is about servers that are started one   *)
(* after the other, and ends in the proof that they implement ChatStore.   *)
(***************************************************************************)
EXTENDS CommunicationServer, SequenceTheorems, TLAPS

\* Only a server that was started does something, and what it still has to
\* save it has in memory, the open file included.
SavesWhatItHas ==
  \A r \in Run :
    /\ r > runs => phase[r] = "none"
    /\ IF phase[r] = "stopping"
       THEN /\ \A c \in todo[r] : Exists(r, c)
            /\ writing[r] \in todo[r] \cup {None}
       ELSE writing[r] = None

TypeInv == TypeOK /\ SavesWhatItHas

-----------------------------------------------------------------------------
(* Type correctness *)

\* The actions of Next, one by one.
LEMMA NextCases ==
  ASSUME [Next]_vars
  PROVE  \/ \E r \in Run, p \in Peer, c \in ChatId, pw \in Password :
               \/ CreateChat(r, p, c, pw) \/ JoinChat(r, p, c, pw)
               \/ RefuseJoin(r, p, c, pw)
         \/ \E r \in Run, p \in Peer, c \in ChatId, t \in Text :
               AddMessage(r, p, c, t)
         \/ \E r \in Run, p \in Peer, c \in ChatId :
               LeaveChat(r, p, c) \/ RefuseMember(r, p, c)
         \/ \E r \in Run, c \in ChatId :
               \/ DeleteChat(r, c) \/ DeleteFails(r, c) \/ RefuseDelete(r, c)
               \/ LoadChat(r, c) \/ LoadFails(r, c)
               \/ TruncateFile(r, c) \/ OpenFails(r, c)
         \/ \E r \in Run :
               \/ Start(r) \/ ReadFails(r) \/ LoadDone(r) \/ SendQuit(r)
               \/ BeginStop(r) \/ FillFile(r) \/ FillFails(r) \/ StopDone(r)
               \/ Crash(r)
         \/ UNCHANGED vars
BY DEF Next

\* Removing the first position that holds a peer leaves a shorter vector.
LEMMA PeersWithoutType ==
  ASSUME NEW peers \in Seq(Peer), NEW p \in Entries(peers)
  PROVE  PeersWithout(peers, p) \subseteq Seq(Peer)
<1> SUFFICES ASSUME NEW k \in DOMAIN peers
             PROVE  [j \in 1 .. Len(peers) - 1 |->
                       IF j < k THEN peers[j] ELSE peers[j + 1]] \in Seq(Peer)
  BY DEF PeersWithout
<1> DEFINE n == Len(peers) - 1
           rest == [j \in 1 .. n |-> IF j < k THEN peers[j] ELSE peers[j + 1]]
<1>1. n \in Nat /\ DOMAIN peers = 1 .. Len(peers)
  OBVIOUS
<1>2. \A j \in 1 .. n : peers[j] \in Peer /\ peers[j + 1] \in Peer
  BY <1>1
<1>3. rest \in [1 .. n -> Peer]
  BY <1>2
<1> QED
  BY <1>1, <1>3, SeqDef

LEMMA TypeInit == Init => TypeInv
BY ServerAssumption DEF Init, TypeInv, TypeOK, SavesWhatItHas, Run

\* The types of what is neither the life of a server nor its memory.
HistoryType ==
  /\ answer \in {"none", "Success", "Error"}
  /\ refused \in Request \cup {<<>>}
  /\ used \subseteq ChatId /\ deleted \subseteq ChatId /\ unsaved \subseteq ChatId
  /\ undeleted \in [ChatId -> Chat \cup {None}]
  /\ accepted \subseteq ChatId \X Peer \X Text
  /\ faults \in Nat

\* A request changes one chat of a running server.
LEMMA TypeRequest ==
  ASSUME TypeInv, NEW r \in Run, NEW c \in ChatId, Handles(r),
         NEW chat \in Chat \cup {None},
         chats' = [chats EXCEPT ![r][c] = chat],
         UNCHANGED lifeVars, files' \in [ChatId -> Chat \cup {None, Truncated}],
         HistoryType'
  PROVE  TypeInv'
<1>1. TypeOK'
  BY DEF TypeInv, TypeOK, HistoryType, lifeVars
<1>2. SavesWhatItHas'
  BY DEF TypeInv, TypeOK, SavesWhatItHas, Handles, Exists, lifeVars
<1> QED
  BY <1>1, <1>2 DEF TypeInv

\* A server ends.
LEMMA TypeEnds ==
  ASSUME TypeInv, NEW r \in Run, NEW how \in {"ended", "failed"}, Ends(r, how),
         phase[r] # "none", UNCHANGED <<runs, told, files, used, deleted>>,
         accepted' \subseteq accepted, faults' \in Nat
  PROVE  TypeInv'
<1>1. TypeOK'
  BY ServerAssumption DEF Ends, TypeInv, TypeOK
<1>2. SavesWhatItHas'
  BY DEF Ends, TypeInv, TypeOK, SavesWhatItHas, Exists
<1> QED
  BY <1>1, <1>2 DEF TypeInv

LEMMA FaultCounts ==
  ASSUME TypeInv, Fault
  PROVE  faults' = faults + 1 /\ faults' \in Nat
BY DEF Fault, TypeInv, TypeOK

LEMMA TypeNext == TypeInv /\ [Next]_vars => TypeInv'
<1> SUFFICES ASSUME TypeInv, [Next]_vars PROVE TypeInv'
  OBVIOUS
<1> USE ServerAssumption
<1>1. ASSUME NEW r \in Run, NEW p \in Peer, NEW c \in ChatId, NEW pw \in Password,
             CreateChat(r, p, c, pw)
      PROVE  TypeInv'
  <2> DEFINE chat == [password |-> pw, registered_peers |-> <<p>>,
                      messages |-> <<>>]
  <2>1. chat \in Chat
    BY DEF Chat
  <2> HIDE DEF chat
  <2> QED
    BY <1>1, <2>1, TypeRequest
       DEF CreateChat, Answers, HistoryType, TypeInv, TypeOK, chat
<1>2. ASSUME NEW r \in Run, NEW p \in Peer, NEW c \in ChatId, NEW pw \in Password,
             JoinChat(r, p, c, pw)
      PROVE  TypeInv'
  <2> DEFINE old == chats[r][c]
             chat == [old EXCEPT !.registered_peers =
                        Append(old.registered_peers, p)]
  <2>1. chats[r][c] \in Chat
    BY <1>2 DEF JoinChat, MayJoin, Exists, TypeInv, TypeOK
  <2>2. chat \in Chat
    <3>1. Append(old.registered_peers, p) \in Seq(Peer)
      BY <2>1 DEF Chat
    <3> QED
      BY <2>1, <3>1 DEF Chat
  <2>3. chats' = [chats EXCEPT ![r][c] = chat]
    BY <1>2 DEF JoinChat, TypeInv, TypeOK
  <2> HIDE DEF chat
  <2> QED
    BY <1>2, <2>2, <2>3, TypeRequest
       DEF JoinChat, Answers, history, HistoryType, TypeInv, TypeOK
<1>3. ASSUME NEW r \in Run, NEW c \in ChatId,
             \/ RefuseDelete(r, c)
             \/ \E p \in Peer : \/ RefuseMember(r, p, c)
                             \/ \E pw \in Password : RefuseJoin(r, p, c, pw)
      PROVE  TypeInv'
  <2>1. /\ UNCHANGED <<lifeVars, chats, files, history>> /\ answer' = "Error"
        /\ refused' \in Request
    BY <1>3 DEF RefuseDelete, RefuseMember, RefuseJoin, Refuses, Request
  <2>2. TypeOK'
    BY <2>1 DEF lifeVars, history, TypeInv, TypeOK
  <2>3. SavesWhatItHas'
    BY <2>1 DEF lifeVars, TypeInv, SavesWhatItHas, Exists
  <2> QED
    BY <2>2, <2>3 DEF TypeInv
<1>4. ASSUME NEW r \in Run, NEW p \in Peer, NEW c \in ChatId, NEW t \in Text,
             AddMessage(r, p, c, t)
      PROVE  TypeInv'
  <2> DEFINE old == chats[r][c]
             chat == [old EXCEPT !.messages = Append(old.messages, <<p, t>>)]
  <2>1. chats[r][c] \in Chat
    BY <1>4 DEF AddMessage, Registered, Exists, TypeInv, TypeOK
  <2>2. chat \in Chat
    <3>1. Append(old.messages, <<p, t>>) \in Seq(Peer \X Text)
      BY <2>1 DEF Chat
    <3> QED
      BY <2>1, <3>1 DEF Chat
  <2>3. chats' = [chats EXCEPT ![r][c] = chat]
    BY <1>4 DEF AddMessage, TypeInv, TypeOK
  <2>4. accepted' \subseteq ChatId \X Peer \X Text
    BY <1>4 DEF AddMessage, TypeInv, TypeOK
  <2> HIDE DEF chat
  <2> QED
    BY <1>4, <2>2, <2>3, <2>4, TypeRequest
       DEF AddMessage, Answers, HistoryType, TypeInv, TypeOK
<1>5. ASSUME NEW r \in Run, NEW p \in Peer, NEW c \in ChatId, LeaveChat(r, p, c)
      PROVE  TypeInv'
  <2>1. chats[r][c] \in Chat /\ p \in Entries(chats[r][c].registered_peers)
    BY <1>5 DEF LeaveChat, Registered, Exists, TypeInv, TypeOK
  <2>2. PICK peers \in PeersWithout(chats[r][c].registered_peers, p) :
               chats' = [chats EXCEPT ![r][c].registered_peers = peers]
    BY <1>5 DEF LeaveChat
  <2> DEFINE chat == [chats[r][c] EXCEPT !.registered_peers = peers]
  <2>3. peers \in Seq(Peer)
    BY <2>1, PeersWithoutType DEF Chat
  <2>4. chat \in Chat
    BY <2>1, <2>3 DEF Chat
  <2>5. chats' = [chats EXCEPT ![r][c] = chat]
    BY <2>2 DEF TypeInv, TypeOK
  <2> HIDE DEF chat
  <2> QED
    BY <1>5, <2>4, <2>5, TypeRequest
       DEF LeaveChat, Answers, history, HistoryType, TypeInv, TypeOK
<1>6. ASSUME NEW r \in Run, NEW c \in ChatId, DeleteChat(r, c)
      PROVE  TypeInv'
  <2>1. files' \in [ChatId -> Chat \cup {None, Truncated}] /\ HistoryType'
    BY <1>6 DEF DeleteChat, FilesWithout, Answers, HistoryType, TypeInv, TypeOK
  <2> QED
    BY <1>6, <2>1, TypeRequest DEF DeleteChat
<1>7. ASSUME NEW r \in Run, NEW c \in ChatId, DeleteFails(r, c)
      PROVE  TypeInv'
  <2>1. faults' \in Nat
    BY <1>7, FaultCounts DEF DeleteFails
  <2>2. files' \in [ChatId -> Chat \cup {None, Truncated}] /\ HistoryType'
    BY <1>7, <2>1 DEF DeleteFails, Answers, HistoryType, TypeInv, TypeOK
  <2> QED
    BY <1>7, <2>2, TypeRequest DEF DeleteFails
<1>8. ASSUME NEW r \in Run, NEW c \in ChatId, LoadChat(r, c)
      PROVE  TypeInv'
  <2>1. files[c] \in Chat
    BY <1>8 DEF LoadChat, Parses, TypeInv, TypeOK
  <2> QED
    BY <1>8, <2>1 DEF LoadChat, history, TypeInv, TypeOK, SavesWhatItHas, Exists
<1>9. ASSUME NEW r \in Run,
             \/ \E c \in ChatId : LoadFails(r, c)
             \/ ReadFails(r) \/ StopDone(r) \/ Crash(r)
      PROVE  TypeInv'
  <2>1. /\ \E how \in {"ended", "failed"} : Ends(r, how)
        /\ phase[r] # "none" /\ UNCHANGED <<runs, told, files, used, deleted>>
        /\ accepted' \subseteq accepted
    BY <1>9 DEF LoadFails, ReadFails, StopDone, Crash
  <2>2. faults' \in Nat
    <3>1. UNCHANGED faults \/ Fault
      BY <1>9 DEF LoadFails, ReadFails, StopDone, Crash
    <3> QED
      BY <3>1, FaultCounts DEF TypeInv, TypeOK
  <2> QED
    BY <2>1, <2>2, TypeEnds
<1>10. ASSUME NEW r \in Run, NEW c \in ChatId, TruncateFile(r, c)
       PROVE  TypeInv'
  BY <1>10 DEF TruncateFile, history, TypeInv, TypeOK, SavesWhatItHas, Exists
<1>11. ASSUME NEW r \in Run, Start(r)
       PROVE  TypeInv'
  BY <1>11 DEF Start, history, TypeInv, TypeOK, SavesWhatItHas, Exists, Run
<1>12. ASSUME NEW r \in Run, LoadDone(r) \/ SendQuit(r) \/ BeginStop(r)
       PROVE  TypeInv'
  <2>1. TypeOK'
    <3>1. CASE LoadDone(r)
      BY <3>1 DEF LoadDone, history, TypeInv, TypeOK
    <3>2. CASE SendQuit(r)
      BY <3>2 DEF SendQuit, history, TypeInv, TypeOK
    <3>3. CASE BeginStop(r)
      <4>1. ToSave(r) \subseteq ChatId
        BY DEF ToSave
      <4> QED
        BY <3>3, <4>1 DEF BeginStop, history, TypeInv, TypeOK
    <3> QED
      BY <1>12, <3>1, <3>2, <3>3
  <2>2. SavesWhatItHas'
    BY <1>12 DEF LoadDone, SendQuit, BeginStop, ToSave, TypeInv, TypeOK,
                 SavesWhatItHas, Exists, Handles
  <2> QED
    BY <2>1, <2>2 DEF TypeInv
<1>13. ASSUME NEW r \in Run, FillFile(r)
       PROVE  TypeInv'
  <2>1. writing[r] \in ChatId /\ chats[r][writing[r]] \in Chat
    BY <1>13 DEF FillFile, TypeInv, TypeOK, SavesWhatItHas, Exists
  <2> QED
    BY <1>13, <2>1 DEF FillFile, history, TypeInv, TypeOK, SavesWhatItHas, Exists
<1>14. ASSUME NEW r \in Run, FillFails(r) \/ \E c \in ChatId : OpenFails(r, c)
       PROVE  TypeInv'
  <2>1. faults' \in Nat
    BY <1>14, FaultCounts DEF FillFails, OpenFails
  <2>2. TypeOK'
    <3>1. CASE FillFails(r)
      <4>1. writing[r] \in ChatId
        BY <3>1 DEF FillFails, TypeInv, TypeOK
      <4> QED
        BY <2>1, <3>1, <4>1 DEF FillFails, TypeInv, TypeOK
    <3>2. ASSUME NEW c \in ChatId, OpenFails(r, c) PROVE TypeOK'
      BY <2>1, <3>2 DEF OpenFails, TypeInv, TypeOK
    <3> QED
      BY <1>14, <3>1, <3>2
  <2>3. SavesWhatItHas'
    <3>1. CASE FillFails(r)
      BY <3>1 DEF FillFails, TypeInv, TypeOK, SavesWhatItHas, Exists
    <3>2. ASSUME NEW c \in ChatId, OpenFails(r, c) PROVE SavesWhatItHas'
      BY <3>2 DEF OpenFails, TypeInv, TypeOK, SavesWhatItHas, Exists
    <3> QED
      BY <1>14, <3>1, <3>2
  <2> QED
    BY <2>2, <2>3 DEF TypeInv
<1>15. CASE UNCHANGED vars
  BY <1>15 DEF vars, lifeVars, history, TypeInv, TypeOK, SavesWhatItHas, Exists
<1> QED
  BY NextCases, <1>1, <1>2, <1>3, <1>4, <1>5, <1>6, <1>7, <1>8, <1>9, <1>10,
     <1>11, <1>12, <1>13, <1>14, <1>15

\* The state keeps its shape, with any overlap of servers and any crash: what
\* is read back from a file is a chat or is refused.
THEOREM TypeCorrect == Spec => []TypeOK
<1>1. TypeInv => TypeOK
  BY DEF TypeInv
<1> QED
  BY <1>1, TypeInit, TypeNext, PTL DEF Spec

LEMMA TypeInvariant == Spec => []TypeInv
BY TypeInit, TypeNext, PTL DEF Spec

-----------------------------------------------------------------------------
(* The vector of registered peers *)

LEMMA SingletonVector ==
  ASSUME NEW p
  PROVE  NoDuplicates(<<p>>) /\ Entries(<<p>>) = {p}
BY DEF NoDuplicates, Entries

LEMMA AppendVector ==
  ASSUME NEW S, NEW peers \in Seq(S), NEW p \in S
  PROVE  /\ Entries(Append(peers, p)) = Entries(peers) \cup {p}
         /\ NoDuplicates(peers) /\ p \notin Entries(peers) =>
              NoDuplicates(Append(peers, p))
<1> DEFINE more == Append(peers, p)
           n == Len(peers)
<1>1. /\ n \in Nat /\ DOMAIN peers = 1 .. n /\ DOMAIN more = 1 .. n + 1
      /\ more[n + 1] = p /\ \A j \in 1 .. n : more[j] = peers[j]
  OBVIOUS
<1> HIDE DEF more, n
<1>2. Entries(more) = Entries(peers) \cup {p}
  <2>1. \A q : q \in Entries(more) <=> \E j \in 1 .. n + 1 : q = more[j]
    BY <1>1 DEF Entries
  <2>2. \A q : q \in Entries(peers) <=> \E j \in 1 .. n : q = peers[j]
    BY <1>1 DEF Entries
  <2>3. 1 .. n + 1 = (1 .. n) \cup {n + 1}
    BY <1>1
  <2> QED
    BY <1>1, <2>1, <2>2, <2>3
<1>3. ASSUME NoDuplicates(peers), p \notin Entries(peers)
      PROVE  NoDuplicates(more)
  <2>1. \A j \in 1 .. n : peers[j] # p
    BY <1>1, <1>3 DEF Entries
  <2>2. \A j \in 1 .. n + 1 : j \in 1 .. n \/ j = n + 1
    BY <1>1
  <2> QED
    BY <1>1, <1>3, <2>1, <2>2 DEF NoDuplicates
<1> QED
  BY <1>2, <1>3 DEF more

LEMMA ShorterVector ==
  ASSUME NEW peers \in Seq(Peer), NoDuplicates(peers), NEW p,
         NEW rest \in PeersWithout(peers, p)
  PROVE  NoDuplicates(rest) /\ Entries(rest) = Entries(peers) \ {p}
<1> DEFINE n == Len(peers)
<1>1. n \in Nat /\ DOMAIN peers = 1 .. n
  OBVIOUS
<1>2. PICK k \in 1 .. n :
        /\ peers[k] = p
        /\ rest = [j \in 1 .. n - 1 |-> IF j < k THEN peers[j] ELSE peers[j + 1]]
  BY <1>1 DEF PeersWithout
<1> DEFINE from(j) == IF j < k THEN j ELSE j + 1
<1>3. /\ DOMAIN rest = 1 .. n - 1
      /\ \A j \in 1 .. n - 1 : rest[j] = peers[from(j)] /\ from(j) \in 1 .. n
      /\ \A j \in 1 .. n - 1 : from(j) # k
      /\ \A i, j \in 1 .. n - 1 : from(i) = from(j) => i = j
  BY <1>1, <1>2
<1>4. \A i \in 1 .. n : i # k => \E j \in 1 .. n - 1 : from(j) = i
  <2> SUFFICES ASSUME NEW i \in 1 .. n, i # k
               PROVE  \E j \in 1 .. n - 1 : from(j) = i
    OBVIOUS
  <2>1. CASE i < k
    BY <1>1, <2>1
  <2>2. CASE i > k
    <3>1. i - 1 \in 1 .. n - 1 /\ from(i - 1) = i
      BY <1>1, <2>2
    <3> QED
      BY <3>1
  <2> QED
    BY <1>1, <2>1, <2>2
<1> HIDE DEF from, n
<1>5. NoDuplicates(rest)
  BY <1>1, <1>3 DEF NoDuplicates
<1>6. \A i \in 1 .. n : peers[i] = p <=> i = k
  BY <1>1, <1>2 DEF NoDuplicates
<1>7. \A q : q \in Entries(rest) <=> \E j \in 1 .. n - 1 : q = rest[j]
  BY <1>3 DEF Entries
<1>8. \A q : q \in Entries(peers) <=> \E i \in 1 .. n : q = peers[i]
  BY <1>1 DEF Entries
<1>9. \A q \in Entries(rest) : q \in Entries(peers) \ {p}
  BY <1>3, <1>6, <1>7, <1>8
<1>10. \A q \in Entries(peers) \ {p} : q \in Entries(rest)
  <2> SUFFICES ASSUME NEW q \in Entries(peers), q # p PROVE q \in Entries(rest)
    OBVIOUS
  <2>1. PICK i \in 1 .. n : q = peers[i]
    BY <1>8
  <2>2. PICK j \in 1 .. n - 1 : from(j) = i
    BY <1>4, <1>6, <2>1
  <2> QED
    BY <1>3, <1>7, <2>1, <2>2
<1> QED
  BY <1>5, <1>9, <1>10

-----------------------------------------------------------------------------
(* What the requests make of a chat *)

\* The chat c of server r is replaced; its room is the one given.
Becomes(r, c, room) ==
  \E chat \in Chat :
    /\ chats' = [chats EXCEPT ![r][c] = chat]
    /\ NoDuplicates(chat.registered_peers)
    /\ Room(chat) = room

LEMMA RoomOfChat ==
  ASSUME NEW chat \in Chat
  PROVE  Room(chat) = [password |-> chat.password,
                       members  |-> Entries(chat.registered_peers),
                       messages |-> chat.messages]
BY ServerAssumption DEF Room

LEMMA RoomIsSomething ==
  ASSUME NEW chat \in Chat
  PROVE  Room(chat) # None
<1>1. Room(chat) \in [password : Password, members : SUBSET Peer,
                      messages : Seq(Peer \X Text)]
  <2>1. Entries(chat.registered_peers) \in SUBSET Peer
    BY DEF Chat, Entries
  <2> QED
    BY <2>1, RoomOfChat DEF Chat
<1> QED
  BY <1>1, ServerAssumption

LEMMA CreateEffect ==
  ASSUME TypeInv, NEW r \in Run, NEW p \in Peer, NEW c \in ChatId,
         NEW pw \in Password, CreateChat(r, p, c, pw)
  PROVE  Becomes(r, c, [password |-> pw, members |-> {p}, messages |-> <<>>])
<1> DEFINE chat == [password |-> pw, registered_peers |-> <<p>>,
                    messages |-> <<>>]
<1>1. chat \in Chat
  BY DEF Chat
<1>2. Room(chat) = [password |-> pw, members |-> {p}, messages |-> <<>>]
  BY <1>1, RoomOfChat, SingletonVector
<1>3. NoDuplicates(chat.registered_peers)
  BY SingletonVector
<1>4. chats' = [chats EXCEPT ![r][c] = chat]
  BY DEF CreateChat
<1> QED
  BY <1>1, <1>2, <1>3, <1>4 DEF Becomes

LEMMA KnownChat ==
  ASSUME TypeInv, RegisteredOnce, NEW r \in Run, NEW c \in ChatId, Exists(r, c)
  PROVE  /\ chats[r][c] \in Chat
         /\ NoDuplicates(chats[r][c].registered_peers)
BY DEF TypeInv, TypeOK, RegisteredOnce, Exists

LEMMA JoinEffect ==
  ASSUME TypeInv, RegisteredOnce, NEW r \in Run, NEW p \in Peer,
         NEW c \in ChatId, NEW pw \in Password, JoinChat(r, p, c, pw)
  PROVE  LET room == Room(chats[r][c]) IN
           Becomes(r, c, [room EXCEPT !.members = room.members \cup {p}])
<1> DEFINE old == chats[r][c]
           peers == Append(old.registered_peers, p)
           chat == [old EXCEPT !.registered_peers = peers]
<1>1. /\ old \in Chat /\ NoDuplicates(old.registered_peers)
      /\ p \notin Entries(old.registered_peers)
  BY KnownChat DEF JoinChat, MayJoin, Registered
<1>2. /\ peers \in Seq(Peer) /\ NoDuplicates(peers)
      /\ Entries(peers) = Entries(old.registered_peers) \cup {p}
  BY <1>1, AppendVector DEF Chat
<1>3. chats' = [chats EXCEPT ![r][c] = chat]
  BY DEF JoinChat, TypeInv, TypeOK
<1> HIDE DEF old, peers
<1>4. /\ chat \in Chat /\ chat.registered_peers = peers
      /\ chat.password = old.password /\ chat.messages = old.messages
  BY <1>1, <1>2 DEF Chat
<1> HIDE DEF chat
<1>5. Room(chat) = [Room(old) EXCEPT !.members = Room(old).members \cup {p}]
  BY <1>1, <1>2, <1>4, RoomOfChat
<1> QED
  BY <1>2, <1>3, <1>4, <1>5 DEF Becomes, old

LEMMA LeaveEffect ==
  ASSUME TypeInv, RegisteredOnce, NEW r \in Run, NEW p \in Peer,
         NEW c \in ChatId, LeaveChat(r, p, c)
  PROVE  LET room == Room(chats[r][c]) IN
           Becomes(r, c, [room EXCEPT !.members = room.members \ {p}])
<1> DEFINE old == chats[r][c]
<1>1. /\ old \in Chat /\ NoDuplicates(old.registered_peers)
      /\ p \in Entries(old.registered_peers)
  BY KnownChat DEF LeaveChat, Registered
<1>2. PICK peers \in PeersWithout(old.registered_peers, p) :
             chats' = [chats EXCEPT ![r][c].registered_peers = peers]
  BY DEF LeaveChat
<1> DEFINE chat == [old EXCEPT !.registered_peers = peers]
<1>3. /\ peers \in Seq(Peer) /\ NoDuplicates(peers)
      /\ Entries(peers) = Entries(old.registered_peers) \ {p}
  <2>1. old.registered_peers \in Seq(Peer)
    BY <1>1 DEF Chat
  <2> QED
    BY <1>1, <2>1, PeersWithoutType, ShorterVector
<1>4. chats' = [chats EXCEPT ![r][c] = chat]
  BY <1>2 DEF TypeInv, TypeOK
<1> HIDE DEF old
<1>5. /\ chat \in Chat /\ chat.registered_peers = peers
      /\ chat.password = old.password /\ chat.messages = old.messages
  BY <1>1, <1>3 DEF Chat
<1> HIDE DEF chat
<1>6. Room(chat) = [Room(old) EXCEPT !.members = Room(old).members \ {p}]
  BY <1>1, <1>3, <1>5, RoomOfChat
<1> QED
  BY <1>3, <1>4, <1>5, <1>6 DEF Becomes, old

LEMMA AddMessageEffect ==
  ASSUME TypeInv, RegisteredOnce, NEW r \in Run, NEW p \in Peer,
         NEW c \in ChatId, NEW t \in Text, AddMessage(r, p, c, t)
  PROVE  LET room == Room(chats[r][c]) IN
           Becomes(r, c,
             [room EXCEPT !.messages = Append(room.messages, <<p, t>>)])
<1> DEFINE old == chats[r][c]
           more == Append(old.messages, <<p, t>>)
           chat == [old EXCEPT !.messages = more]
<1>1. old \in Chat /\ NoDuplicates(old.registered_peers)
  BY KnownChat DEF AddMessage, Registered
<1>2. more \in Seq(Peer \X Text)
  BY <1>1 DEF Chat
<1>3. chats' = [chats EXCEPT ![r][c] = chat]
  BY DEF AddMessage, TypeInv, TypeOK
<1>4. Room(old).messages = old.messages
  BY <1>1, RoomOfChat
<1> HIDE DEF old
<1>5. chat \in Chat /\ chat.registered_peers = old.registered_peers
  <2> HIDE DEF more
  <2> QED
    BY <1>1, <1>2 DEF Chat
<1>6. Room(chat) = [Room(old) EXCEPT !.messages = more]
  <2> HIDE DEF more
  <2> QED
    BY <1>1, <1>5, RoomOfChat DEF Chat
<1> QED
  BY <1>1, <1>3, <1>4, <1>5, <1>6 DEF Becomes, old

-----------------------------------------------------------------------------
(* Peers are registered once *)

LEMMA OnceInit == Init => RegisteredOnce
BY DEF Init, RegisteredOnce, Exists, Parses

LEMMA OnceRequest ==
  ASSUME TypeInv, RegisteredOnce, NEW r \in Run, NEW c \in ChatId, NEW room,
         Becomes(r, c, room), UNCHANGED files
  PROVE  RegisteredOnce'
<1>1. PICK chat \in Chat : /\ chats' = [chats EXCEPT ![r][c] = chat]
                           /\ NoDuplicates(chat.registered_peers)
  BY DEF Becomes
<1> QED
  BY <1>1 DEF RegisteredOnce, Exists, Parses, TypeInv, TypeOK

LEMMA OnceNext == TypeInv /\ RegisteredOnce /\ [Next]_vars => RegisteredOnce'
<1> SUFFICES ASSUME TypeInv, RegisteredOnce, [Next]_vars
             PROVE  RegisteredOnce'
  OBVIOUS
<1>1. ASSUME NEW r \in Run, NEW p \in Peer, NEW c \in ChatId, NEW pw \in Password,
             CreateChat(r, p, c, pw) \/ JoinChat(r, p, c, pw)
      PROVE  RegisteredOnce'
  <2>1. UNCHANGED files
    BY <1>1 DEF CreateChat, JoinChat
  <2> QED
    BY <1>1, <2>1, CreateEffect, JoinEffect, OnceRequest
<1>2. ASSUME NEW r \in Run, NEW p \in Peer, NEW c \in ChatId, NEW t \in Text,
             AddMessage(r, p, c, t)
      PROVE  RegisteredOnce'
  <2>1. UNCHANGED files
    BY <1>2 DEF AddMessage
  <2> QED
    BY <1>2, <2>1, AddMessageEffect, OnceRequest
<1>3. ASSUME NEW r \in Run, NEW p \in Peer, NEW c \in ChatId, LeaveChat(r, p, c)
      PROVE  RegisteredOnce'
  <2>1. UNCHANGED files
    BY <1>3 DEF LeaveChat
  <2> QED
    BY <1>3, <2>1, LeaveEffect, OnceRequest
<1>4. ASSUME NEW r \in Run, NEW c \in ChatId, DeleteChat(r, c) \/ DeleteFails(r, c)
      PROVE  RegisteredOnce'
  <2>1. /\ chats' = [chats EXCEPT ![r][c] = None]
        /\ files' = files \/ files' = [files EXCEPT ![c] = None]
    BY <1>4 DEF DeleteChat, DeleteFails, FilesWithout
  <2> QED
    BY <2>1 DEF RegisteredOnce, Exists, Parses, TypeInv, TypeOK
<1>5. ASSUME NEW r \in Run, NEW c \in ChatId, LoadChat(r, c)
      PROVE  RegisteredOnce'
  BY <1>5 DEF LoadChat, RegisteredOnce, Exists, Parses, TypeInv, TypeOK
<1>6. ASSUME NEW r \in Run, NEW c \in ChatId, TruncateFile(r, c)
      PROVE  RegisteredOnce'
  BY <1>6 DEF TruncateFile, RegisteredOnce, Exists, Parses, TypeInv, TypeOK
<1>7. ASSUME NEW r \in Run, FillFile(r)
      PROVE  RegisteredOnce'
  BY <1>7 DEF FillFile, RegisteredOnce, Exists, Parses, TypeInv, TypeOK,
              SavesWhatItHas
<1>8. ASSUME NEW r \in Run, NEW how, Ends(r, how), UNCHANGED files
      PROVE  RegisteredOnce'
  BY <1>8 DEF Ends, RegisteredOnce, Exists, Parses, TypeInv, TypeOK
<1>9. ASSUME NEW r \in Run,
             \/ \E c \in ChatId : LoadFails(r, c)
             \/ ReadFails(r) \/ StopDone(r) \/ Crash(r)
      PROVE  UNCHANGED files /\ \E how : Ends(r, how)
  BY <1>9 DEF LoadFails, ReadFails, StopDone, Crash
<1>10. ASSUME UNCHANGED <<chats, files>>
       PROVE  RegisteredOnce'
  BY <1>10 DEF RegisteredOnce, Exists, Parses
<1>11. ASSUME NEW r \in Run,
              \/ Start(r) \/ LoadDone(r) \/ SendQuit(r) \/ BeginStop(r)
              \/ FillFails(r)
       PROVE  UNCHANGED <<chats, files>>
  BY <1>11 DEF Start, LoadDone, SendQuit, BeginStop, FillFails
<1>12. ASSUME NEW r \in Run, NEW c \in ChatId,
              \/ OpenFails(r, c) \/ RefuseDelete(r, c)
              \/ \E p \in Peer : \/ RefuseMember(r, p, c)
                              \/ \E pw \in Password : RefuseJoin(r, p, c, pw)
       PROVE  UNCHANGED <<chats, files>>
  BY <1>12 DEF OpenFails, RefuseDelete, RefuseMember, RefuseJoin
<1>13. CASE UNCHANGED vars
  BY <1>10, <1>13 DEF vars
<1> QED
  BY NextCases, <1>1, <1>2, <1>3, <1>4, <1>5, <1>6, <1>7, <1>8, <1>9, <1>10,
     <1>11, <1>12, <1>13

\* Nobody is registered twice, in memory or in a file, whatever overlaps and
\* whatever crashes.
THEOREM MembersOnce == Spec => []RegisteredOnce
BY OnceInit, OnceNext, TypeInvariant, PTL DEF Spec

-----------------------------------------------------------------------------
(* One server after the other: an invariant of the latest and the directory *)

OneByOne == Overlap = FALSE

\* The latest server is the only one that is not done, and who is done, or not
\* started, has no memory.
OneAtATime ==
  \A r \in Run :
    /\ r < runs => Ended(r)
    /\ r = runs => phase[r] # "none"
    /\ Ended(r) \/ r > runs => \A c \in ChatId : ~ Exists(r, c)

Loading ==
  (runs > 0 /\ phase[runs] = "loading") =>
    \A c \in ChatId :
      /\ c \in todo[runs] => files[c] # None
      /\ c \notin todo[runs] => chats[runs][c] = files[c]

\* A file is that of a chat the server has, or was deleted and could not be
\* removed.
Serving ==
  Served => \A c \in ChatId :
              files[c] # None => Exists(runs, c) \/ undeleted[c] # None

\* What the server that stops is done with is in its file, or is marked.
Saving ==
  (runs > 0 /\ phase[runs] = "stopping") =>
    \A c \in ChatId \ (todo[runs] \cup unsaved) :
      undeleted[c] = None => files[c] = chats[runs][c]

\* Chats are marked while there is a server that knows better.
Marks ==
  /\ \A c \in ChatId : undeleted[c] # None => Served /\ ~ Exists(runs, c)
  /\ \A c \in unsaved :
       /\ runs > 0 /\ phase[runs] = "stopping"
       /\ Exists(runs, c) /\ c \notin todo[runs]

\* The ids of chats and files were drawn, and ids are never drawn again.
IdsUsed ==
  /\ deleted \subseteq used
  /\ \A c \in ChatId :
       /\ files[c] # None \/ undeleted[c] # None => c \in used
       /\ \A r \in Run : Exists(r, c) => c \in used

\* What the latest server knows of a chat, also of one whose file it could not
\* remove.
Known(c) == IF undeleted[c] # None THEN undeleted[c] ELSE chats[runs][c]

\* A file never has more than the server, while there is one.
Older ==
  Served => \A c \in ChatId : Store!Earlier(Room(files[c]), Room(Known(c)))

ServerInv ==
  /\ TypeInv /\ RegisteredOnce
  /\ OneAtATime /\ Loading /\ Serving /\ Saving /\ Marks /\ IdsUsed /\ Older

\* All but Older, which is about what is in the files.
Places ==
  OneAtATime /\ Loading /\ Serving /\ Saving /\ Marks /\ IdsUsed

LEMMA ServerInit == Init => ServerInv
<1> SUFFICES ASSUME Init PROVE ServerInv
  OBVIOUS
<1>1. TypeInv /\ RegisteredOnce
  BY TypeInit, OnceInit
<1>2. Places
  BY ServerAssumption
     DEF Init, Places, OneAtATime, Loading, Serving, Served, Saving, Marks,
         IdsUsed, Exists, Ended, Run
<1>3. ~ Served
  BY DEF Init, Served
<1>4. Older
  BY <1>3 DEF Older
<1> QED
  BY <1>1, <1>2, <1>4 DEF ServerInv, Places

\* Only the latest server does anything.
LEMMA TheLatest ==
  ASSUME ServerInv, NEW r \in Run,
         phase[r] \in {"loading", "running", "stopping"}
  PROVE  r = runs /\ runs > 0
<1>1. r \in Nat /\ runs \in Nat /\ r > 0
  BY DEF ServerInv, TypeInv, TypeOK, Run
<1>2. ~ (r < runs)
  BY DEF ServerInv, OneAtATime, Ended
<1>3. ~ (r > runs)
  BY DEF ServerInv, TypeInv, SavesWhatItHas
<1> QED
  BY <1>1, <1>2, <1>3

-----------------------------------------------------------------------------
(* Earlier states of a room *)

LEMMA EarlierNone ==
  ASSUME NEW later
  PROVE  Store!Earlier(Room(None), later) /\ Store!Earlier(Room(Truncated), later)
BY DEF Store!Earlier, Room

LEMMA EarlierSelf ==
  ASSUME NEW chat \in Chat \cup {None, Truncated}
  PROVE  Store!Earlier(Room(chat), Room(chat))
<1>1. CASE chat \in Chat
  <2> DEFINE old == chat.messages
  <2>1. old \in Seq(Peer \X Text) /\ Room(chat).messages = old
    BY <1>1, RoomOfChat DEF Chat
  <2> HIDE DEF old
  <2>2. Len(old) \in 0 .. Len(old) /\ SubSeq(old, 1, Len(old)) = old
    BY <2>1
  <2> QED
    BY <1>1, <2>1, <2>2, RoomIsSomething DEF Store!Earlier
<1>2. CASE chat \in {None, Truncated}
  BY <1>2, EarlierNone
<1> QED
  BY <1>1, <1>2

\* Members come and go.
LEMMA EarlierMembers ==
  ASSUME NEW room, NEW old, NEW later, Store!Earlier(room, old), later # None,
         later.password = old.password, later.messages = old.messages
  PROVE  Store!Earlier(room, later)
BY DEF Store!Earlier

LEMMA EarlierMore ==
  ASSUME NEW room, NEW old, NEW later, Store!Earlier(room, old), later # None,
         NEW S, old.messages \in Seq(S), NEW m \in S,
         later.password = old.password,
         later.messages = Append(old.messages, m)
  PROVE  Store!Earlier(room, later)
<1> SUFFICES ASSUME room # None PROVE Store!Earlier(room, later)
  BY DEF Store!Earlier
<1> DEFINE s == old.messages
<1>1. PICK n \in 0 .. Len(s) : room.messages = SubSeq(s, 1, n)
  BY DEF Store!Earlier
<1>2. room.password = later.password
  BY DEF Store!Earlier
<1> HIDE DEF s
<1>3. s \in Seq(S)
  BY DEF s
<1>4. /\ n \in 0 .. Len(Append(s, m))
      /\ SubSeq(Append(s, m), 1, n) = SubSeq(s, 1, n)
  BY <1>3
<1> QED
  BY <1>1, <1>2, <1>4 DEF Store!Earlier, s

-----------------------------------------------------------------------------
(* The invariant is kept *)

\* A request that puts a chat in its place.
LEMMA ServerRequest ==
  ASSUME ServerInv, TypeInv', RegisteredOnce', NEW r \in Run,
         NEW c \in ChatId, NEW room, Handles(r), Becomes(r, c, room),
         UNCHANGED <<lifeVars, files, deleted, undeleted, unsaved>>,
         undeleted[c] = None, Store!Earlier(Room(files[c]), room),
         used \subseteq used', c \in used'
  PROVE  ServerInv'
<1>1. r = runs /\ runs > 0 /\ phase[runs] = "running"
  BY TheLatest DEF Handles
<1>2. PICK chat \in Chat : chats' = [chats EXCEPT ![r][c] = chat] /\ Room(chat) = room
  BY DEF Becomes
<1>3. chat # None
  BY ServerAssumption
<1>4. /\ \A q \in Run, d \in ChatId :
           chats'[q][d] = IF q = r /\ d = c THEN chat ELSE chats[q][d]
      /\ UNCHANGED <<runs, phase, told, todo, writing, files, deleted, undeleted,
                     unsaved>>
  BY <1>2 DEF ServerInv, TypeInv, TypeOK, lifeVars
<1>5. OneAtATime' /\ Loading' /\ Saving'
  BY <1>1, <1>3, <1>4 DEF ServerInv, OneAtATime, Loading, Saving, Ended, Exists
<1>6. Serving' /\ Marks' /\ IdsUsed'
  BY <1>1, <1>3, <1>4
     DEF ServerInv, Serving, Served, Marks, IdsUsed, Exists
<1>7. Older'
  <2>1. \A d \in ChatId : Known(d)' = IF d = c THEN chat ELSE Known(d)
    BY <1>1, <1>4 DEF Known
  <2>2. Served /\ UNCHANGED files
    BY <1>1, <1>4 DEF Served
  <2> QED
    BY <1>2, <2>1, <2>2 DEF ServerInv, Older
<1> QED
  BY <1>5, <1>6, <1>7 DEF ServerInv

\* A chat is deleted: it leaves the memory, and the directory or not.
LEMMA ServerDelete ==
  ASSUME ServerInv, TypeInv', RegisteredOnce', NEW r \in Run,
         NEW c \in ChatId, DeleteChat(r, c) \/ DeleteFails(r, c)
  PROVE  ServerInv'
<1>1. r = runs /\ runs > 0 /\ phase[runs] = "running"
  BY TheLatest DEF DeleteChat, DeleteFails, Handles
<1>2. /\ UNCHANGED <<runs, phase, told, todo, writing, used, unsaved>>
      /\ Exists(r, c)
      /\ \A q \in Run, d \in ChatId :
           chats'[q][d] = IF q = r /\ d = c THEN None ELSE chats[q][d]
  BY DEF DeleteChat, DeleteFails, lifeVars, ServerInv, TypeInv, TypeOK
<1>3. c \in used /\ undeleted[c] = None
  BY <1>1, <1>2 DEF ServerInv, IdsUsed, Marks
<1>4. /\ deleted' \subseteq deleted \cup {c}
      /\ \A d \in ChatId : d # c => files'[d] = files[d] /\ undeleted'[d] = undeleted[d]
      /\ \/ files'[c] = None /\ undeleted'[c] = None
         \/ files'[c] = files[c] /\ undeleted'[c] = chats[r][c]
  BY <1>3 DEF DeleteChat, DeleteFails, FilesWithout, ServerInv, TypeInv, TypeOK
<1>5. OneAtATime' /\ Loading' /\ Saving'
  BY <1>1, <1>2 DEF ServerInv, OneAtATime, Loading, Saving, Ended, Exists
<1>6. Serving'
  BY <1>1, <1>2, <1>4 DEF ServerInv, Serving, Served, Exists
<1>7. Marks'
  BY <1>1, <1>2, <1>4 DEF ServerInv, Marks, Served, Exists
<1>8. IdsUsed'
  BY <1>1, <1>2, <1>3, <1>4 DEF ServerInv, IdsUsed, Exists
<1>9. Older'
  <2>1. \A d \in ChatId : \/ files'[d] = None
                          \/ files'[d] = files[d] /\ Known(d)' = Known(d)
    BY <1>1, <1>2, <1>3, <1>4 DEF Known, Exists
  <2>2. Served
    BY <1>1 DEF Served
  <2> QED
    BY <2>1, <2>2, EarlierNone DEF ServerInv, Older
<1> QED
  BY <1>5, <1>6, <1>7, <1>8, <1>9 DEF ServerInv

\* The steps of a server's life that fail nowhere.
LifeStep(r) ==
  \/ \E c \in ChatId : LoadChat(r, c) \/ TruncateFile(r, c)
  \/ Start(r) \/ LoadDone(r) \/ SendQuit(r) \/ BeginStop(r) \/ FillFile(r)

\* A chat that could not be saved.
SaveFails(r, c) == OpenFails(r, c) \/ (FillFails(r) /\ c = writing[r])

\* The ends of a server.
EndStep(r) ==
  \/ \E c \in ChatId : LoadFails(r, c)
  \/ ReadFails(r) \/ StopDone(r) \/ Crash(r)

\* Nothing happens to the chats and their marks outside of the requests.
LEMMA LifeIsQuiet ==
  ASSUME NEW r \in Run, LifeStep(r)
  PROVE  UNCHANGED <<answer, refused, history>>
BY DEF LifeStep, LoadChat, TruncateFile, Start, LoadDone, SendQuit, BeginStop,
       FillFile

LEMMA ServerLife ==
  ASSUME OneByOne, ServerInv, TypeInv', RegisteredOnce', NEW r \in Run,
         LifeStep(r)
  PROVE  ServerInv' /\ Rooms' = Rooms
<1> USE DEF ServerInv, TypeInv, TypeOK
<1>0. UNCHANGED <<used, deleted, undeleted, unsaved>>
  BY LifeIsQuiet DEF history
<1>1. ASSUME NEW c \in ChatId, LoadChat(r, c)
      PROVE  ServerInv' /\ Rooms' = Rooms
  <2>1. r = runs /\ runs > 0
    BY <1>1, TheLatest DEF LoadChat
  <2>2. OneAtATime' /\ Saving' /\ Marks'
    BY <1>0, <1>1, <2>1
       DEF LoadChat, OneAtATime, Saving, Marks, Served, Ended, Exists
  <2>3. Loading' /\ Serving' /\ IdsUsed'
    BY <1>0, <1>1, <2>1
       DEF LoadChat, Loading, Serving, Served, IdsUsed, Exists, Parses
  <2>4. ~ Served /\ ~ Served' /\ UNCHANGED files
    BY <1>1, <2>1 DEF LoadChat, Served
  <2> QED
    BY <2>2, <2>3, <2>4 DEF Rooms, Older
<1>2. ASSUME NEW c \in ChatId, TruncateFile(r, c)
      PROVE  ServerInv' /\ Rooms' = Rooms
  <2>1. r = runs /\ runs > 0
    BY <1>2, TheLatest DEF TruncateFile
  <2>2. Exists(r, c)
    BY <1>2 DEF TruncateFile, SavesWhatItHas
  <2>3. OneAtATime' /\ Loading' /\ Serving' /\ Marks' /\ IdsUsed'
    BY <1>0, <1>2, <2>1, <2>2
       DEF TruncateFile, OneAtATime, Loading, Serving, Served, Marks, IdsUsed,
           Ended, Exists
  <2>4. Saving'
    BY <1>0, <1>2, <2>1 DEF TruncateFile, Saving
  <2>5. Served /\ Served' /\ UNCHANGED <<chats, runs>>
    BY <1>2, <2>1 DEF TruncateFile, Served
  <2>6. Older'
    <3>1. \A d \in ChatId : files'[d] \in {files[d], Truncated}
      BY <1>2 DEF TruncateFile
    <3>2. \A d \in ChatId : Known(d)' = Known(d)
      BY <1>0, <2>5 DEF Known
    <3> QED
      BY <2>5, <3>1, <3>2, EarlierNone DEF Older
  <2> QED
    BY <2>3, <2>4, <2>5, <2>6 DEF Rooms
<1>3. ASSUME FillFile(r)
      PROVE  ServerInv' /\ Rooms' = Rooms
  <2>1. r = runs /\ runs > 0
    BY <1>3, TheLatest DEF FillFile
  <2>2. Exists(r, writing[r]) /\ writing[r] \in ChatId
    BY <1>3 DEF FillFile, SavesWhatItHas
  <2>3. OneAtATime' /\ Loading' /\ Serving' /\ Marks' /\ IdsUsed'
    BY <1>0, <1>3, <2>1, <2>2
       DEF FillFile, OneAtATime, Loading, Serving, Served, Marks, IdsUsed, Ended,
           Exists
  <2>4. Saving'
    BY <1>0, <1>3, <2>1, <2>2 DEF FillFile, Saving, SavesWhatItHas
  <2>5. Served /\ Served' /\ UNCHANGED <<chats, runs>>
    BY <1>3, <2>1 DEF FillFile, Served
  <2>6. Older'
    <3>1. \A d \in ChatId : Known(d)' = Known(d)
      BY <1>0, <2>5 DEF Known
    <3>2. Known(writing[r]) = chats[r][writing[r]]
      BY <2>1, <2>2 DEF Known, Marks
    <3>3. \A d \in ChatId :
            files'[d] = IF d = writing[r] THEN Known(d) ELSE files[d]
      BY <1>3, <3>2 DEF FillFile
    <3>4. Store!Earlier(Room(Known(writing[r])), Room(Known(writing[r])))
      BY <2>2, <3>2, EarlierSelf
    <3> HIDE DEF ServerInv, TypeInv, TypeOK
    <3> QED
      BY <2>5, <3>1, <3>3, <3>4 DEF Older, ServerInv
  <2> QED
    BY <2>3, <2>4, <2>5, <2>6 DEF Rooms
<1>4. ASSUME Start(r)
      PROVE  ServerInv' /\ Rooms' = Rooms
  <2>1. runs = 0 \/ Ended(runs)
    BY <1>4 DEF Start, OneByOne
  <2>2. OneAtATime'
    BY <1>4, <2>1 DEF Start, OneAtATime, Ended, Exists, Run
  <2>3. ~ Served /\ ~ Served' /\ UNCHANGED files
    BY <1>4, <2>1 DEF Start, Served, Ended
  <2>4. Loading' /\ Serving' /\ Saving'
    BY <1>0, <1>4, <2>1, <2>3
       DEF Start, OneAtATime, Loading, Serving, Saving, Exists
  <2>5. Marks' /\ IdsUsed'
    BY <1>0, <1>4, <2>1, <2>3 DEF Start, Marks, Served, IdsUsed, Ended, Exists
  <2> QED
    BY <2>2, <2>3, <2>4, <2>5 DEF Rooms, Older
<1>5. ASSUME LoadDone(r)
      PROVE  ServerInv' /\ Rooms' = Rooms
  <2>1. r = runs /\ runs > 0
    BY <1>5, TheLatest DEF LoadDone
  <2>2. \A c \in ChatId : chats[runs][c] = files[c]
    BY <1>5, <2>1 DEF LoadDone, Loading
  <2>3. OneAtATime' /\ Loading' /\ Serving' /\ Saving' /\ Marks' /\ IdsUsed'
    BY <1>0, <1>5, <2>1, <2>2
       DEF LoadDone, OneAtATime, Loading, Serving, Served, Saving, Marks, IdsUsed,
           Ended, Exists
  <2>4. ~ Served /\ Served' /\ UNCHANGED <<chats, files, runs>>
    BY <1>5, <2>1 DEF LoadDone, Served
  <2>5. \A c \in ChatId : Known(c)' = files[c]
    BY <1>0, <2>2, <2>4 DEF Known, Marks
  <2>6. Older'
    BY <2>4, <2>5, EarlierSelf DEF Older
  <2> QED
    BY <2>2, <2>3, <2>4, <2>6 DEF Rooms
<1>6. ASSUME SendQuit(r)
      PROVE  ServerInv' /\ Rooms' = Rooms
  <2>1. UNCHANGED <<runs, phase, chats, todo, writing, files>>
    BY <1>6 DEF SendQuit
  <2>2. OneAtATime' /\ Loading' /\ Serving' /\ Saving' /\ Marks' /\ IdsUsed'
    BY <1>0, <2>1
       DEF OneAtATime, Loading, Serving, Served, Saving, Marks, IdsUsed, Ended,
           Exists
  <2>3. Older' /\ Rooms' = Rooms
    BY <1>0, <2>1 DEF Older, Known, Rooms, Served
  <2> QED
    BY <2>2, <2>3
<1>7. ASSUME BeginStop(r)
      PROVE  ServerInv' /\ Rooms' = Rooms
  <2>1. r = runs /\ runs > 0 /\ phase[runs] = "running"
    BY <1>7, TheLatest DEF BeginStop, Handles
  <2>2. \A c \in ChatId \ ToSave(r) : undeleted[c] = None => files[c] = chats[r][c]
    BY <2>1 DEF ToSave, Serving, Served, Exists
  <2>3. OneAtATime' /\ Loading' /\ Serving' /\ Marks' /\ IdsUsed'
    BY <1>0, <1>7, <2>1
       DEF BeginStop, OneAtATime, Loading, Serving, Served, Marks, IdsUsed, Ended,
           Exists
  <2>4. Saving'
    BY <1>0, <1>7, <2>1, <2>2 DEF BeginStop, Saving
  <2>5. Served /\ Served' /\ UNCHANGED <<chats, files, runs>>
    BY <1>7, <2>1 DEF BeginStop, Served
  <2>6. Older'
    BY <1>0, <2>5 DEF Older, Known
  <2> QED
    BY <2>3, <2>4, <2>5, <2>6 DEF Rooms
<1> QED
  BY <1>1, <1>2, <1>3, <1>4, <1>5, <1>6, <1>7 DEF LifeStep

\* stop() goes on after a chat it could not save.
LEMMA ServerSaveFails ==
  ASSUME ServerInv, TypeInv', RegisteredOnce', NEW r \in Run, NEW c \in ChatId,
         SaveFails(r, c)
  PROVE  /\ ServerInv' /\ Rooms' = Rooms /\ Exists(r, c)
         /\ r = runs /\ Served /\ unsaved' = unsaved \cup {c}
<1> USE DEF ServerInv, TypeInv, TypeOK
<1>1. r = runs /\ runs > 0 /\ phase[runs] = "stopping"
  BY TheLatest DEF SaveFails, OpenFails, FillFails
<1>2. c \in todo[r] /\ Exists(r, c)
  BY <1>1 DEF SaveFails, OpenFails, FillFails, SavesWhatItHas
<1>3. /\ UNCHANGED <<runs, phase, chats, files, used, deleted, undeleted>>
      /\ todo' = [todo EXCEPT ![r] = @ \ {c}] /\ unsaved' = unsaved \cup {c}
  BY DEF SaveFails, OpenFails, FillFails
<1>4. OneAtATime' /\ Loading' /\ Serving' /\ IdsUsed'
  BY <1>1, <1>3
     DEF OneAtATime, Loading, Serving, Served, IdsUsed, Ended, Exists
<1>5. Saving' /\ Marks'
  BY <1>1, <1>2, <1>3 DEF Saving, Marks, Served, Exists
<1>6. Served /\ Served' /\ Older'
  BY <1>1, <1>3 DEF Served, Older, Known
<1> QED
  BY <1>1, <1>2, <1>3, <1>4, <1>5, <1>6 DEF Rooms

\* What a server leaves when it ends is what the directory has.
LEMMA ServerEnds ==
  ASSUME ServerInv, TypeInv', RegisteredOnce', NEW r \in Run, EndStep(r)
  PROVE  /\ ServerInv' /\ ~ Served' /\ UNCHANGED files /\ r = runs
         /\ undeleted' = [c \in ChatId |-> None] /\ unsaved' = {}
<1> USE DEF ServerInv, TypeInv, TypeOK
<1>1. phase[r] \in {"loading", "running", "stopping"}
  BY DEF EndStep, LoadFails, ReadFails, StopDone, Crash
<1>2. r = runs /\ runs > 0
  BY <1>1, TheLatest
<1>3. PICK how \in {"ended", "failed"} : Ends(r, how)
  BY DEF EndStep, LoadFails, ReadFails, StopDone, Crash
<1>4. UNCHANGED <<runs, files, used, deleted>>
  BY DEF EndStep, LoadFails, ReadFails, StopDone, Crash
<1>5. /\ \A q \in Run, c \in ChatId :
           chats'[q][c] = IF q = r THEN None ELSE chats[q][c]
      /\ \A q \in Run : phase'[q] = IF q = r THEN how ELSE phase[q]
      /\ undeleted' = [c \in ChatId |-> None] /\ unsaved' = {}
  BY <1>3 DEF Ends
<1>6. ~ Served' /\ ~ (phase'[runs'] = "loading") /\ ~ (phase'[runs'] = "stopping")
  BY <1>2, <1>4, <1>5 DEF Served
<1>7. OneAtATime'
  BY <1>2, <1>4, <1>5 DEF OneAtATime, Ended, Exists
<1>8. Loading' /\ Serving' /\ Saving' /\ Older'
  BY <1>6 DEF Loading, Serving, Saving, Older
<1>9. Marks' /\ IdsUsed'
  BY <1>4, <1>5 DEF Marks, IdsUsed, Exists
<1> QED
  BY <1>2, <1>4, <1>5, <1>6, <1>7, <1>8, <1>9
-----------------------------------------------------------------------------
(* One server after the other implements ChatStore *)

\* The room of a chat that is served, and what a request makes of it.
LEMMA ServedRoom ==
  ASSUME ServerInv, NEW r \in Run, phase[r] \in {"running", "stopping"},
         NEW c \in ChatId
  PROVE  /\ Rooms[c] = Room(chats[r][c])
         /\ Store!Exists(c) <=> Exists(r, c)
         /\ Exists(r, c) =>
              /\ Rooms[c].password = chats[r][c].password
              /\ Rooms[c].members = Entries(chats[r][c].registered_peers)
              /\ Rooms[c].messages = chats[r][c].messages
<1>1. r = runs /\ Served
  BY TheLatest DEF Served
<1>2. Rooms[c] = Room(chats[r][c])
  BY <1>1 DEF Rooms
<1>3. CASE Exists(r, c)
  <2>1. chats[r][c] \in Chat
    BY <1>3, KnownChat DEF ServerInv
  <2>2. Room(chats[r][c]) # None
    BY <2>1, RoomIsSomething
  <2> QED
    BY <1>2, <1>3, <2>1, <2>2, RoomOfChat DEF Store!Exists
<1>4. CASE ~ Exists(r, c)
  BY <1>2, <1>4 DEF Exists, Room, Store!Exists
<1> QED
  BY <1>2, <1>3, <1>4

Puts(r, c, chat) == chats' = [chats EXCEPT ![r][c] = chat]

LEMMA RoomsRequest ==
  ASSUME ServerInv, NEW r \in Run, Handles(r), NEW c \in ChatId, NEW chat,
         Puts(r, c, chat), UNCHANGED <<runs, phase>>
  PROVE  Rooms' = [Rooms EXCEPT ![c] = Room(chat)]
<1>1. r = runs /\ Served /\ Served'
  BY TheLatest DEF Handles, Served
<1>2. \A d \in ChatId : chats'[r][d] = IF d = c THEN chat ELSE chats[r][d]
  BY DEF Puts, ServerInv, TypeInv, TypeOK
<1>3. /\ Rooms = [d \in ChatId |-> Room(chats[r][d])]
      /\ Rooms' = [d \in ChatId |-> Room(chats'[r][d])]
  BY <1>1 DEF Rooms
<1> QED
  BY <1>2, <1>3

\* A request that makes a room of its chat.
MakesRoom(r, p, c, room) ==
  \/ \E pw \in Password :
       /\ CreateChat(r, p, c, pw)
       /\ room = [password |-> pw, members |-> {p}, messages |-> <<>>]
  \/ \E pw \in Password :
       /\ JoinChat(r, p, c, pw)
       /\ room = [Rooms[c] EXCEPT !.members = Rooms[c].members \cup {p}]
  \/ /\ LeaveChat(r, p, c)
     /\ room = [Rooms[c] EXCEPT !.members = Rooms[c].members \ {p}]
  \/ \E t \in Text :
       /\ AddMessage(r, p, c, t)
       /\ room = [Rooms[c] EXCEPT !.messages =
                    Append(Rooms[c].messages, <<p, t>>)]

LEMMA RequestEffects ==
  ASSUME ServerInv, NEW r \in Run, NEW p \in Peer, NEW c \in ChatId, NEW room,
         MakesRoom(r, p, c, room)
  PROVE  /\ Handles(r) /\ Becomes(r, c, room) /\ undeleted[c] = None
         /\ UNCHANGED <<lifeVars, files, deleted, undeleted, unsaved, faults>>
         /\ answer' = "Success" /\ refused' = <<>>
         /\ used \subseteq used' /\ c \in used'
         /\ Rooms' = [Rooms EXCEPT ![c] = room] /\ room # None
         /\ Store!Earlier(Room(files[c]), room)
<1> USE DEF ServerInv
<1>1. /\ Handles(r)
      /\ UNCHANGED <<lifeVars, files, deleted, undeleted, unsaved, faults>>
      /\ answer' = "Success" /\ refused' = <<>>
  BY DEF MakesRoom, CreateChat, JoinChat, LeaveChat, AddMessage, Answers, history
<1>2. r = runs /\ Served
  BY <1>1, TheLatest DEF Handles, Served
<1>3. Becomes(r, c, room)
  <2>1. Rooms[c] = Room(chats[r][c])
    BY <1>1, ServedRoom DEF Handles
  <2> QED
    BY <2>1, CreateEffect, JoinEffect, LeaveEffect, AddMessageEffect DEF MakesRoom
<1>4. PICK chat \in Chat : Puts(r, c, chat) /\ Room(chat) = room
  BY <1>3 DEF Becomes, Puts
<1>5. Rooms' = [Rooms EXCEPT ![c] = room]
  BY <1>1, <1>4, RoomsRequest DEF lifeVars
<1>6. room # None
  BY <1>4, RoomIsSomething
<1>7. CASE \E pw \in Password : CreateChat(r, p, c, pw)
  <2>1. c \notin used /\ used' = used \cup {c}
    BY <1>7 DEF CreateChat
  <2>2. undeleted[c] = None /\ files[c] = None
    BY <2>1 DEF IdsUsed
  <2> QED
    BY <1>1, <1>3, <1>5, <1>6, <2>1, <2>2, EarlierNone
<1>8. CASE \/ \E pw \in Password : JoinChat(r, p, c, pw)
           \/ LeaveChat(r, p, c)
           \/ \E t \in Text : AddMessage(r, p, c, t)
  <2>1. Exists(r, c) /\ used' = used
    BY <1>8 DEF JoinChat, MayJoin, LeaveChat, AddMessage, Registered, history
  <2>2. undeleted[c] = None /\ c \in used
    BY <1>2, <2>1 DEF Marks, IdsUsed
  <2>3. Store!Earlier(Room(files[c]), Rooms[c])
    <3>1. Known(c) = chats[r][c]
      BY <1>2, <2>2 DEF Known
    <3> QED
      BY <1>1, <1>2, <3>1, ServedRoom DEF Older, Handles
  <2>4. /\ Rooms[c] = Room(chats[r][c]) /\ chats[r][c] \in Chat
        /\ Rooms[c] = [password |-> chats[r][c].password,
                       members  |-> Entries(chats[r][c].registered_peers),
                       messages |-> chats[r][c].messages]
        /\ Rooms[c].messages \in Seq(Peer \X Text)
    <3>1. Rooms[c] = Room(chats[r][c]) /\ chats[r][c] \in Chat
      BY <1>1, <2>1, ServedRoom, KnownChat DEF Handles
    <3> QED
      BY <3>1, RoomOfChat DEF Chat
  <2>5. c \in used' /\ used \subseteq used'
    BY <2>1, <2>2
  <2>6. ASSUME NEW members, room = [Rooms[c] EXCEPT !.members = members]
        PROVE  Store!Earlier(Room(files[c]), room)
    <3>1. room.password = Rooms[c].password /\ room.messages = Rooms[c].messages
      BY <2>4, <2>6
    <3> QED
      BY <1>6, <2>3, <3>1, EarlierMembers
  <2>7. ASSUME NEW t \in Text,
               room = [Rooms[c] EXCEPT !.messages =
                         Append(Rooms[c].messages, <<p, t>>)]
        PROVE  Store!Earlier(Room(files[c]), room)
    <3>1. /\ room.password = Rooms[c].password
          /\ room.messages = Append(Rooms[c].messages, <<p, t>>)
      BY <2>4, <2>7
    <3>2. <<p, t>> \in Peer \X Text
      OBVIOUS
    <3> QED
      BY <1>6, <2>3, <2>4, <3>1, <3>2, EarlierMore
  <2>8. Store!Earlier(Room(files[c]), room)
    <3>1. ~ \E pw \in Password : CreateChat(r, p, c, pw)
      BY <2>2 DEF CreateChat
    <3> QED
      BY <2>6, <2>7, <3>1 DEF MakesRoom
  <2> QED
    BY <1>1, <1>3, <1>5, <1>6, <2>2, <2>5, <2>8
<1> QED
  BY <1>7, <1>8 DEF MakesRoom

\* Every request is the abstract request of the same name.
LEMMA RequestsImplement ==
  ASSUME ServerInv, NEW r \in Run, NEW p \in Peer, NEW c \in ChatId
  PROVE  /\ \A pw \in Password :
              /\ CreateChat(r, p, c, pw) => Store!Create(p, c, pw) /\ UNCHANGED unsaved
              /\ JoinChat(r, p, c, pw) => Store!Join(p, c, pw) /\ UNCHANGED unsaved
         /\ \A t \in Text :
              AddMessage(r, p, c, t) =>
                Store!SendMessage(p, c, t) /\ UNCHANGED unsaved
         /\ LeaveChat(r, p, c) => Store!Leave(p, c) /\ UNCHANGED unsaved
<1>1. ASSUME NEW pw \in Password, CreateChat(r, p, c, pw)
      PROVE  Store!Create(p, c, pw) /\ UNCHANGED unsaved
  <2>1. ~ Exists(r, c) /\ phase[r] = "running"
    BY <1>1 DEF CreateChat, Handles, ServerInv, IdsUsed
  <2>2. ~ Store!Exists(c)
    BY <2>1, ServedRoom
  <2>3. MakesRoom(r, p, c, [password |-> pw, members |-> {p}, messages |-> <<>>])
    BY <1>1 DEF MakesRoom
  <2> QED
    BY <2>2, <2>3, RequestEffects DEF Store!Create, Store!Succeeds
<1>2. ASSUME NEW pw \in Password, JoinChat(r, p, c, pw)
      PROVE  Store!Join(p, c, pw) /\ UNCHANGED unsaved
  <2>1. Store!MayJoin(p, c, pw)
    BY <1>2, ServedRoom
       DEF JoinChat, Handles, MayJoin, Registered, Store!MayJoin
  <2>2. MakesRoom(r, p, c, [Rooms[c] EXCEPT !.members = Rooms[c].members \cup {p}])
    BY <1>2 DEF MakesRoom
  <2> QED
    BY <2>1, <2>2, RequestEffects DEF Store!Join, Store!Succeeds
<1>3. ASSUME NEW t \in Text, AddMessage(r, p, c, t)
      PROVE  Store!SendMessage(p, c, t) /\ UNCHANGED unsaved
  <2>1. Store!IsMember(p, c)
    BY <1>3, ServedRoom DEF AddMessage, Handles, Registered, Store!IsMember
  <2>2. MakesRoom(r, p, c, [Rooms[c] EXCEPT !.messages =
                              Append(Rooms[c].messages, <<p, t>>)])
    BY <1>3 DEF MakesRoom
  <2> QED
    BY <2>1, <2>2, RequestEffects DEF Store!SendMessage, Store!Succeeds
<1>4. ASSUME LeaveChat(r, p, c)
      PROVE  Store!Leave(p, c) /\ UNCHANGED unsaved
  <2>1. Store!IsMember(p, c)
    BY <1>4, ServedRoom DEF LeaveChat, Handles, Registered, Store!IsMember
  <2>2. MakesRoom(r, p, c, [Rooms[c] EXCEPT !.members = Rooms[c].members \ {p}])
    BY <1>4 DEF MakesRoom
  <2> QED
    BY <2>1, <2>2, RequestEffects DEF Store!Leave, Store!Succeeds
<1> QED
  BY <1>1, <1>2, <1>3, <1>4

\* A request that was refused.
RefuseStep(r, p, c) ==
  \/ \E pw \in Password : RefuseJoin(r, p, c, pw)
  \/ RefuseMember(r, p, c)

\* Nobody is refused what the store has to grant.
LEMMA RefusalsImplement ==
  ASSUME ServerInv, NEW r \in Run, NEW p \in Peer, NEW c \in ChatId,
         RefuseStep(r, p, c)
  PROVE  Store!Refuse(p, c) /\ UNCHANGED unsaved
<1>1. /\ phase[r] = "running" /\ answer' = "Error"
      /\ UNCHANGED <<lifeVars, chats, files, history>>
  BY DEF RefuseStep, RefuseJoin, RefuseMember, Refuses, Handles
<1>2. UNCHANGED <<Rooms, undeleted, unsaved, faults>>
  BY <1>1 DEF Rooms, Served, lifeVars, history
<1>3. \A pw \in Password : Store!MayJoin(p, c, pw) <=> MayJoin(r, p, c, pw)
  BY <1>1, ServedRoom DEF MayJoin, Registered, Store!MayJoin
<1>4. Store!IsMember(p, c) <=> Registered(r, p, c)
  BY <1>1, ServedRoom DEF Registered, Store!IsMember
<1>5. \/ \E pw \in Password : /\ refused' = <<"join", p, c, pw>>
                              /\ ~ Store!MayJoin(p, c, pw)
      \/ refused' = <<"member", p, c>> /\ ~ Store!IsMember(p, c)
  BY <1>3, <1>4
     DEF RefuseStep, RefuseJoin, RefuseMember, Refuses
<1> QED
  BY <1>1, <1>2, <1>5 DEF Store!Refuse

LEMMA RefuseDeleteImplements ==
  ASSUME ServerInv, NEW r \in Run, NEW c \in ChatId, RefuseDelete(r, c)
  PROVE  Store!RefuseDelete(c) /\ UNCHANGED unsaved
<1>1. phase[r] = "running" /\ UNCHANGED <<lifeVars, chats, files, history>>
  BY DEF RefuseDelete, Handles
<1>2. UNCHANGED <<Rooms, undeleted, unsaved, faults>>
  BY <1>1 DEF Rooms, Served, lifeVars, history
<1>3. Store!Exists(c) <=> Exists(r, c)
  BY <1>1, ServedRoom
<1> QED
  BY <1>2, <1>3 DEF RefuseDelete, Refuses, Store!RefuseDelete

LEMMA DeleteImplements ==
  ASSUME ServerInv, NEW r \in Run, NEW c \in ChatId
  PROVE  /\ DeleteChat(r, c) => Store!Delete(c) /\ UNCHANGED unsaved
         /\ DeleteFails(r, c) => Store!DeleteFails(c) /\ UNCHANGED unsaved
<1>1. ASSUME DeleteChat(r, c) \/ DeleteFails(r, c)
      PROVE  Store!Exists(c) /\ Rooms' = [Rooms EXCEPT ![c] = None]
  <2>1. /\ Handles(r) /\ UNCHANGED <<runs, phase>> /\ Exists(r, c)
        /\ Puts(r, c, None)
    BY <1>1 DEF DeleteChat, DeleteFails, Puts, lifeVars
  <2>2. Room(None) = None
    BY DEF Room
  <2> QED
    BY <2>1, <2>2, RoomsRequest, ServedRoom DEF Handles
<1>2. ASSUME DeleteChat(r, c)
      PROVE  Store!Delete(c) /\ UNCHANGED unsaved
  BY <1>1, <1>2 DEF DeleteChat, Answers, Store!Delete
<1>3. ASSUME DeleteFails(r, c)
      PROVE  Store!DeleteFails(c) /\ UNCHANGED unsaved
  <2>1. Rooms[c] = Room(chats[r][c])
    BY <1>3, ServedRoom DEF DeleteFails, Handles
  <2>2. \A d \in ChatId : undeleted'[d] = IF d = c THEN chats[r][c] ELSE undeleted[d]
    BY <1>3 DEF DeleteFails, ServerInv, TypeInv, TypeOK
  <2>3. [d \in ChatId |-> Room(undeleted'[d])] =
          [[d \in ChatId |-> Room(undeleted[d])] EXCEPT ![c] = Rooms[c]]
    BY <2>1, <2>2
  <2>4. /\ answer' = "Error" /\ refused' = <<>> /\ faults' = faults + 1
        /\ UNCHANGED unsaved
    BY <1>3 DEF DeleteFails, Answers, Fault
  <2> QED
    BY <1>1, <1>3, <2>3, <2>4 DEF Store!DeleteFails
<1> QED
  BY <1>2, <1>3

LEMMA SaveFailsImplements ==
  ASSUME ServerInv, TypeInv', RegisteredOnce', NEW r \in Run, NEW c \in ChatId,
         SaveFails(r, c)
  PROVE  Store!SaveFails(c)
<1>1. /\ Rooms' = Rooms /\ Exists(r, c) /\ r = runs /\ Served
      /\ unsaved' = unsaved \cup {c}
  BY ServerSaveFails
<1>2. Store!Exists(c)
  BY <1>1, ServedRoom DEF Served
<1>3. UNCHANGED <<answer, refused, undeleted>> /\ faults' = faults + 1
  BY DEF SaveFails, OpenFails, FillFails, Fault
<1> QED
  BY <1>1, <1>2, <1>3 DEF Store!SaveFails

\* The end of a server takes back what the marks allow, and a crash what an
\* earlier state of the chat allows.
LEMMA EndImplements ==
  ASSUME ServerInv, TypeInv', RegisteredOnce', NEW r \in Run, EndStep(r)
  PROVE  Store!Restart \/ Store!Lose
<1> DEFINE returns == [c \in ChatId |-> Room(undeleted[c])]
<1> USE DEF ServerInv
<1>1. /\ ~ Served' /\ UNCHANGED files /\ r = runs
      /\ undeleted' = [c \in ChatId |-> None] /\ unsaved' = {}
  BY ServerEnds
<1>2. Rooms' = [c \in ChatId |-> Room(files[c])] /\ DOMAIN Rooms' = ChatId
  BY <1>1 DEF Rooms
<1>3. returns' = [c \in ChatId |-> None]
  BY <1>1 DEF Room
<1>4. UNCHANGED <<answer, refused>>
  BY DEF EndStep, LoadFails, ReadFails, StopDone, Crash, Ends
<1>5. ASSUME NEW c \in ChatId, Served
      PROVE  \/ undeleted[c] = None /\ Store!Earlier(Rooms'[c], Rooms[c])
             \/ returns[c] # None /\ Store!Earlier(Rooms'[c], returns[c])
  <2>1. Store!Earlier(Rooms'[c], Room(Known(c)))
    BY <1>2, <1>5 DEF Older
  <2>2. CASE undeleted[c] = None
    BY <1>5, <2>1, <2>2 DEF Known, Rooms
  <2>3. CASE undeleted[c] # None
    <3>1. undeleted[c] \in Chat
      BY <2>3 DEF TypeInv, TypeOK
    <3>2. returns[c] # None
      BY <3>1, RoomIsSomething
    <3> QED
      BY <2>1, <2>3, <3>2 DEF Known
  <2> QED
    BY <2>2, <2>3
<1>6. ASSUME ~ Served
      PROVE  Rooms' = Rooms
  BY <1>2, <1>6 DEF Rooms
<1>7. ASSUME faults' = faults + 1
      PROVE  Store!Lose
  <2>1. \A c \in ChatId :
          \/ Rooms'[c] = Rooms[c]
          \/ Store!Earlier(Rooms'[c], Rooms[c])
          \/ returns[c] # None /\ Store!Earlier(Rooms'[c], returns[c])
    BY <1>5, <1>6
  <2> QED
    BY <1>1, <1>2, <1>3, <1>4, <1>7, <2>1 DEF Store!Lose, Store!TakeBack
<1>8. ASSUME \E c \in ChatId : LoadFails(r, c)
      PROVE  Store!Restart
  <2>1. ~ Served /\ UNCHANGED faults
    BY <1>1, <1>8 DEF LoadFails, Served
  <2>2. \A c \in ChatId : Rooms'[c] = Rooms[c]
    BY <1>6, <2>1
  <2> QED
    BY <1>1, <1>2, <1>3, <1>4, <2>1, <2>2 DEF Store!Restart, Store!TakeBack
<1>9. ASSUME StopDone(r)
      PROVE  Store!Restart
  <2>1. /\ Served /\ UNCHANGED faults /\ todo[runs] = {}
        /\ runs > 0 /\ phase[runs] = "stopping"
    BY <1>1, <1>9, TheLatest DEF StopDone, Served
  <2>2. ASSUME NEW c \in ChatId, c \notin unsaved, undeleted[c] = None
        PROVE  Rooms'[c] = Rooms[c]
    BY <1>2, <2>1, <2>2 DEF Saving, Rooms
  <2>3. \A c \in ChatId :
          \/ Rooms'[c] = Rooms[c]
          \/ c \in unsaved /\ Store!Earlier(Rooms'[c], Rooms[c])
          \/ returns[c] # None /\ Store!Earlier(Rooms'[c], returns[c])
    BY <1>5, <2>1, <2>2
  <2> QED
    BY <1>1, <1>2, <1>3, <1>4, <2>1, <2>3 DEF Store!Restart, Store!TakeBack
<1>10. ReadFails(r) \/ Crash(r) => faults' = faults + 1
  BY DEF ReadFails, Crash, Fault
<1> QED
  BY <1>7, <1>8, <1>9, <1>10 DEF EndStep

\* The actions of Next again, as requests and as steps of a server's life.
LEMMA StepCases ==
  ASSUME TypeInv, [Next]_vars
  PROVE  \/ \E r \in Run, p \in Peer, c \in ChatId :
               \/ \E pw \in Password : CreateChat(r, p, c, pw) \/ JoinChat(r, p, c, pw)
               \/ \E t \in Text : AddMessage(r, p, c, t)
               \/ LeaveChat(r, p, c)
         \/ \E r \in Run, p \in Peer, c \in ChatId :
               \/ RefuseMember(r, p, c)
               \/ \E pw \in Password : RefuseJoin(r, p, c, pw)
         \/ \E r \in Run, c \in ChatId :
               DeleteChat(r, c) \/ DeleteFails(r, c) \/ RefuseDelete(r, c)
         \/ \E r \in Run, c \in ChatId : SaveFails(r, c)
         \/ \E r \in Run : LifeStep(r) \/ EndStep(r)
         \/ UNCHANGED vars
<1>1. ASSUME NEW r \in Run, FillFails(r)
      PROVE  \E c \in ChatId : SaveFails(r, c)
  BY <1>1 DEF FillFails, SaveFails, TypeInv, TypeOK
<1> QED
  BY NextCases, <1>1 DEF LifeStep, EndStep, SaveFails
LEMMA ServerNext ==
  ASSUME OneByOne, ServerInv, [Next]_vars
  PROVE  ServerInv'
<1>1. TypeInv' /\ RegisteredOnce'
  BY TypeNext, OnceNext DEF ServerInv
<1>2. ASSUME NEW r \in Run, NEW p \in Peer, NEW c \in ChatId, NEW room,
             MakesRoom(r, p, c, room)
      PROVE  ServerInv'
  BY <1>1, <1>2, RequestEffects, ServerRequest
<1>3. ASSUME NEW r \in Run, NEW p \in Peer, NEW c \in ChatId,
             \/ \E pw \in Password : CreateChat(r, p, c, pw) \/ JoinChat(r, p, c, pw)
             \/ \E t \in Text : AddMessage(r, p, c, t)
             \/ LeaveChat(r, p, c)
      PROVE  ServerInv'
  <2>1. \E room : MakesRoom(r, p, c, room)
    BY <1>3 DEF MakesRoom
  <2> QED
    BY <1>2, <2>1
<1>4. ASSUME UNCHANGED <<lifeVars, chats, files, history>>
      PROVE  ServerInv'
  <2>1. /\ UNCHANGED <<runs, phase, todo, chats, files>>
        /\ UNCHANGED <<used, deleted, undeleted, unsaved>>
    BY <1>4 DEF lifeVars, history
  <2>2. OneAtATime' /\ Loading' /\ Serving' /\ Saving' /\ Marks' /\ IdsUsed'
    BY <2>1
       DEF ServerInv, OneAtATime, Loading, Serving, Served, Saving, Marks,
           IdsUsed, Ended, Exists
  <2>3. Older'
    BY <2>1 DEF ServerInv, Older, Known, Served
  <2> QED
    BY <1>1, <2>2, <2>3 DEF ServerInv
<1>5. ASSUME NEW r \in Run, NEW p \in Peer, NEW c \in ChatId, RefuseStep(r, p, c)
      PROVE  ServerInv'
  BY <1>4, <1>5 DEF RefuseStep, RefuseJoin, RefuseMember
<1>6. ASSUME NEW r \in Run, NEW c \in ChatId, RefuseDelete(r, c)
      PROVE  ServerInv'
  BY <1>4, <1>6 DEF RefuseDelete
<1>7. CASE UNCHANGED vars
  BY <1>4, <1>7 DEF vars
<1>8. TypeInv
  BY DEF ServerInv
<1> QED
  BY <1>1, <1>3, <1>5, <1>6, <1>7, <1>8, StepCases, ServerDelete, ServerLife,
     ServerSaveFails, ServerEnds DEF RefuseStep

LEMMA ServerInvariant ==
  ASSUME OneByOne
  PROVE  Spec => []ServerInv
BY ServerInit, ServerNext, PTL DEF Spec

\* Servers that follow each other are one store: loading, saving and the time
\* in between are invisible, every request and every refusal is the abstract
\* one, and after a crash or a failure of the disk no more is taken back than
\* the store allows.
THEOREM Implements ==
  ASSUME OneByOne
  PROVE  Spec => StoreSpec
<1>1. Init => Store!Init
  BY DEF Init, Store!Init, Rooms, Room, Served
<1>2. ASSUME ServerInv, [Next]_vars
      PROVE  [Store!Next]_Store!vars
  <2>1. TypeInv /\ TypeInv' /\ RegisteredOnce'
    BY <1>2, TypeNext, OnceNext DEF ServerInv
  <2>2. ASSUME NEW r \in Run, LifeStep(r)
        PROVE  UNCHANGED Store!vars
    <3>1. Rooms' = Rooms /\ UNCHANGED <<answer, refused, history>>
      BY <1>2, <2>1, <2>2, ServerLife, LifeIsQuiet
    <3> QED
      BY <3>1 DEF Store!vars, history
  <2>3. ASSUME UNCHANGED vars
        PROVE  UNCHANGED Store!vars
    BY <2>3 DEF vars, lifeVars, history, Store!vars, Rooms, Served
  <2>4. ASSUME NEW r \in Run, NEW p \in Peer, NEW c \in ChatId,
               \/ \E pw \in Password : CreateChat(r, p, c, pw) \/ JoinChat(r, p, c, pw)
               \/ \E t \in Text : AddMessage(r, p, c, t)
               \/ LeaveChat(r, p, c)
        PROVE  Store!Next
    BY <1>2, <2>4, RequestsImplement DEF Store!Next, Store!Request
  <2>5. ASSUME NEW r \in Run, NEW p \in Peer, NEW c \in ChatId, RefuseStep(r, p, c)
        PROVE  Store!Next
    BY <1>2, <2>5, RefusalsImplement DEF Store!Next, Store!Request
  <2>6. ASSUME NEW r \in Run, NEW c \in ChatId, DeleteChat(r, c) \/ DeleteFails(r, c)
        PROVE  Store!Next
    BY <1>2, <2>6, DeleteImplements DEF Store!Next, Store!Request
  <2>7. ASSUME NEW r \in Run, NEW c \in ChatId, SaveFails(r, c)
        PROVE  Store!Next
    BY <1>2, <2>1, <2>7, SaveFailsImplements DEF Store!Next
  <2>8. ASSUME NEW r \in Run, EndStep(r)
        PROVE  Store!Next
    BY <1>2, <2>1, <2>8, EndImplements DEF Store!Next
  <2>9. ASSUME NEW r \in Run, NEW c \in ChatId, RefuseDelete(r, c)
        PROVE  Store!Next
    BY <1>2, <2>9, RefuseDeleteImplements DEF Store!Next, Store!Request
  <2> QED
    BY <1>2, <2>1, <2>2, <2>3, <2>4, <2>5, <2>6, <2>7, <2>8, <2>9, StepCases
       DEF RefuseStep
<1> QED
  BY <1>1, <1>2, ServerInvariant, PTL DEF Spec, StoreSpec, Store!Spec

-----------------------------------------------------------------------------
(* Deleted chats and accepted messages *)
\* Who deletes a chat deletes it everywhere, or leaves it out of deleted; and
\* nobody has or writes a chat that is not there.
LEMMA DeletedNext ==
  ASSUME OneByOne, ServerInv, DeletedStaysDeleted, [Next]_vars
  PROVE  DeletedStaysDeleted'
<1> USE DEF ServerInv, TypeInv, TypeOK
<1>1. ASSUME NEW r \in Run, NEW c \in ChatId, NEW chat, c \notin deleted,
             chats' = [chats EXCEPT ![r][c] = chat],
             UNCHANGED <<phase, deleted>>,
             \A d \in ChatId : files'[d] \in {None, files[d]}
      PROVE  DeletedStaysDeleted'
  BY <1>1 DEF DeletedStaysDeleted, Exists, Ended
<1>2. ASSUME NEW r \in Run, NEW p \in Peer, NEW c \in ChatId,
             \/ \E pw \in Password : CreateChat(r, p, c, pw) \/ JoinChat(r, p, c, pw)
             \/ \E t \in Text : AddMessage(r, p, c, t)
             \/ LeaveChat(r, p, c)
      PROVE  DeletedStaysDeleted'
  <2>1. PICK room : MakesRoom(r, p, c, room)
    BY <1>2 DEF MakesRoom
  <2>2. /\ Handles(r) /\ Becomes(r, c, room)
        /\ UNCHANGED <<lifeVars, files, deleted>>
    BY <2>1, RequestEffects
  <2>3. PICK chat \in Chat : chats' = [chats EXCEPT ![r][c] = chat]
    BY <2>2 DEF Becomes
  <2>4. c \notin used \/ Exists(r, c)
    BY <1>2 DEF CreateChat, JoinChat, MayJoin, LeaveChat, AddMessage, Registered
  <2>5. c \notin deleted
    BY <2>2, <2>4 DEF DeletedStaysDeleted, IdsUsed, Handles, Ended
  <2> QED
    BY <1>1, <2>2, <2>3, <2>5 DEF lifeVars
<1>3. ASSUME NEW r \in Run, NEW c \in ChatId, DeleteChat(r, c)
      PROVE  DeletedStaysDeleted'
  <2>1. r = runs /\ UNCHANGED phase
    BY <1>3, TheLatest DEF DeleteChat, Handles, lifeVars
  <2>2. \A q \in Run : q # r => ~ Exists(q, c)
    BY <2>1 DEF OneAtATime, Run
  <2>3. /\ chats' = [chats EXCEPT ![r][c] = None]
        /\ files' = [files EXCEPT ![c] = None] /\ deleted' = deleted \cup {c}
    BY <1>3 DEF DeleteChat, FilesWithout
  <2> QED
    BY <2>1, <2>2, <2>3 DEF DeletedStaysDeleted, Exists, Ended
<1>4. ASSUME NEW r \in Run, NEW c \in ChatId, DeleteFails(r, c)
      PROVE  DeletedStaysDeleted'
  BY <1>4 DEF DeleteFails, DeletedStaysDeleted, lifeVars, Exists, Ended
<1>5. ASSUME NEW r \in Run, NEW c \in ChatId, LoadChat(r, c)
      PROVE  DeletedStaysDeleted'
  <2>1. c \notin deleted
    BY <1>5 DEF LoadChat, Parses, DeletedStaysDeleted
  <2> QED
    BY <1>1, <1>5, <2>1 DEF LoadChat, history
<1>6. ASSUME NEW r \in Run, NEW c \in ChatId, TruncateFile(r, c)
      PROVE  DeletedStaysDeleted'
  <2>1. c \notin deleted
    BY <1>6 DEF TruncateFile, SavesWhatItHas, DeletedStaysDeleted, Ended
  <2> QED
    BY <1>6, <2>1 DEF TruncateFile, DeletedStaysDeleted, Exists, Ended, history
<1>7. ASSUME NEW r \in Run, FillFile(r)
      PROVE  DeletedStaysDeleted'
  <2>1. writing[r] \in ChatId /\ writing[r] \notin deleted
    BY <1>7 DEF FillFile, SavesWhatItHas, DeletedStaysDeleted, Ended
  <2> QED
    BY <1>7, <2>1 DEF FillFile, DeletedStaysDeleted, Exists, Ended, history
<1>8. ASSUME NEW r \in Run, Start(r)
      PROVE  DeletedStaysDeleted'
  <2>1. \A c \in ChatId : ~ Exists(r, c)
    BY <1>8 DEF Start, OneAtATime, Run
  <2> QED
    BY <1>8, <2>1 DEF Start, DeletedStaysDeleted, Exists, Ended, history
<1>9. ASSUME NEW r \in Run, EndStep(r)
      PROVE  DeletedStaysDeleted'
  <2>1. PICK how \in {"ended", "failed"} : Ends(r, how)
    BY <1>9 DEF EndStep, LoadFails, ReadFails, StopDone, Crash
  <2>2. UNCHANGED <<files, deleted>>
    BY <1>9 DEF EndStep, LoadFails, ReadFails, StopDone, Crash
  <2> QED
    BY <2>1, <2>2 DEF Ends, DeletedStaysDeleted, Exists, Ended
<1>10. ASSUME UNCHANGED <<chats, files, deleted>>,
              \A q \in Run : Ended(q) => Ended(q)'
       PROVE  DeletedStaysDeleted'
  BY <1>10 DEF DeletedStaysDeleted, Exists
<1>11. ASSUME NEW r \in Run,
              \/ \E c \in ChatId : SaveFails(r, c) \/ RefuseDelete(r, c)
              \/ \E p \in Peer, c \in ChatId :
                    \/ RefuseMember(r, p, c)
                    \/ \E pw \in Password : RefuseJoin(r, p, c, pw)
              \/ SendQuit(r)
       PROVE  UNCHANGED <<chats, files, deleted, phase>>
  BY <1>11 DEF SaveFails, OpenFails, FillFails, RefuseDelete, RefuseMember,
               RefuseJoin, SendQuit, lifeVars, history
<1>12. ASSUME NEW r \in Run, LoadDone(r) \/ BeginStop(r)
       PROVE  DeletedStaysDeleted'
  <2>1. ~ Ended(r) /\ \A q \in Run \ {r} : phase'[q] = phase[q]
    BY <1>12 DEF LoadDone, BeginStop, Handles, Ended
  <2>2. UNCHANGED <<chats, files, deleted>>
    BY <1>12 DEF LoadDone, BeginStop, history
  <2> QED
    BY <1>10, <2>1, <2>2 DEF Ended
<1>13. CASE UNCHANGED vars
  BY <1>10, <1>13 DEF vars, lifeVars, history, Ended
<1>14. ASSUME UNCHANGED <<chats, files, deleted, phase>>
       PROVE  DeletedStaysDeleted'
  BY <1>10, <1>14 DEF Ended
<1> QED
  BY StepCases, <1>2, <1>3, <1>4, <1>5, <1>6, <1>7, <1>8, <1>9, <1>11, <1>12,
     <1>13, <1>14 DEF LifeStep

\* Of servers that follow each other, none has a deleted chat again, though
\* threads crash and the disk fails.
THEOREM DeletedForGood ==
  ASSUME OneByOne
  PROVE  Spec => []DeletedStaysDeleted
<1>1. Init => DeletedStaysDeleted
  BY DEF Init, DeletedStaysDeleted
<1> QED
  BY <1>1, DeletedNext, ServerInvariant, PTL DEF Spec

\* Where an accepted message is: with the server that serves, and in the file
\* if the chat could not be saved; in the file of a chat nobody serves, or that
\* was deleted and could not be removed.
Kept(m) ==
  IF Served /\ undeleted[m[1]] = None
  THEN /\ Holds(chats[runs][m[1]], m)
       /\ m[1] \in unsaved => Holds(files[m[1]], m)
  ELSE Holds(files[m[1]], m)

AcceptedKept == \A m \in accepted : Kept(m)

\* A step that changes no chat that the latest server has, and marks no chat.
LEMMA KeptOn ==
  ASSUME NEW m \in accepted, Kept(m), m[1] \in ChatId,
         UNCHANGED <<undeleted, unsaved>>, Served' <=> Served,
         Served => chats'[runs'][m[1]] = chats[runs][m[1]],
         files'[m[1]] = files[m[1]]
  PROVE  Kept(m)'
BY DEF Kept, Holds

\* A chat in memory that is replaced has all that it had, and the message that
\* was accepted.
LEMMA KeptRequest ==
  ASSUME ServerInv, AcceptedKept, NEW r \in Run, NEW p \in Peer, NEW c \in ChatId,
         \/ \E pw \in Password : CreateChat(r, p, c, pw) \/ JoinChat(r, p, c, pw)
         \/ \E t \in Text : AddMessage(r, p, c, t)
         \/ LeaveChat(r, p, c)
  PROVE  AcceptedKept'
<1> USE DEF ServerInv, TypeInv, TypeOK
<1>1. /\ Handles(r) /\ undeleted[c] = None /\ chats'[r][c] \in Chat
      /\ UNCHANGED <<lifeVars, files, undeleted, unsaved>>
  <2>1. PICK room : MakesRoom(r, p, c, room)
    BY DEF MakesRoom
  <2>2. /\ Handles(r) /\ undeleted[c] = None /\ Becomes(r, c, room)
        /\ UNCHANGED <<lifeVars, files, undeleted, unsaved>>
    BY <2>1, RequestEffects
  <2>3. chats'[r][c] \in Chat
    BY <2>2 DEF Becomes
  <2> QED
    BY <2>2, <2>3
<1>2. r = runs /\ Served /\ Served' /\ UNCHANGED <<runs, phase>> /\ unsaved = {}
  <2>1. r = runs /\ runs > 0 /\ phase[runs] = "running"
    BY <1>1, TheLatest DEF Handles
  <2> QED
    BY <1>1, <2>1 DEF Served, lifeVars, Marks
<1>3. \A m \in accepted : m[1] \in ChatId
  OBVIOUS
<1>4. ASSUME NEW m \in accepted, m[1] # c
      PROVE  Kept(m)'
  <2>1. chats'[r][m[1]] = chats[r][m[1]]
    BY <1>3, <1>4 DEF CreateChat, JoinChat, AddMessage, LeaveChat
  <2> QED
    BY <1>1, <1>2, <1>3, <2>1, KeptOn DEF AcceptedKept
<1>5. ASSUME NEW m \in accepted, m[1] = c
      PROVE  Exists(r, c) /\ Holds(chats[r][c], m)
  <2>1. Holds(chats[r][c], m)
    BY <1>1, <1>2, <1>5 DEF AcceptedKept, Kept
  <2> QED
    BY <2>1 DEF Holds, Exists
<1>6. ASSUME NEW pw \in Password, CreateChat(r, p, c, pw)
      PROVE  AcceptedKept'
  <2>1. c \notin used /\ accepted' = accepted
    BY <1>6 DEF CreateChat
  <2>2. ~ Exists(r, c)
    BY <2>1 DEF IdsUsed
  <2> QED
    BY <1>4, <1>5, <2>1, <2>2 DEF AcceptedKept
<1>7. ASSUME Exists(r, c), chats'[r][c] \in Chat,
             Entries(chats[r][c].messages) \subseteq Entries(chats'[r][c].messages),
             NEW m \in accepted, m[1] = c
      PROVE  Kept(m)'
  <2>1. Holds(chats'[r][c], m)
    BY <1>5, <1>7, ServerAssumption DEF Holds
  <2> QED
    BY <1>1, <1>2, <1>7, <2>1 DEF Kept
<1>8. ASSUME (\E pw \in Password : JoinChat(r, p, c, pw)) \/ LeaveChat(r, p, c)
      PROVE  AcceptedKept'
  <2>1. Exists(r, c) /\ chats[r][c] \in Chat
    BY <1>8 DEF JoinChat, MayJoin, LeaveChat, Registered, Exists
  <2>2. chats'[r][c].messages = chats[r][c].messages /\ accepted' = accepted
    <3>1. ASSUME NEW pw \in Password, JoinChat(r, p, c, pw)
          PROVE  chats'[r][c].messages = chats[r][c].messages
      BY <2>1, <3>1 DEF JoinChat, Chat
    <3>2. ASSUME LeaveChat(r, p, c)
          PROVE  chats'[r][c].messages = chats[r][c].messages
      <4>1. PICK peers : chats' = [chats EXCEPT ![r][c].registered_peers = peers]
        BY <3>2 DEF LeaveChat
      <4> QED
        BY <2>1, <4>1 DEF Chat
    <3>3. accepted' = accepted
      BY <1>8 DEF JoinChat, LeaveChat, history
    <3> QED
      BY <1>8, <3>1, <3>2, <3>3
  <2> QED
    BY <1>1, <1>4, <1>7, <2>1, <2>2 DEF AcceptedKept
<1>9. ASSUME NEW t \in Text, AddMessage(r, p, c, t)
      PROVE  AcceptedKept'
  <2> DEFINE new == <<c, p, t>>
             old == chats[r][c].messages
             more == Append(old, <<p, t>>)
  <2>1. Exists(r, c) /\ chats[r][c] \in Chat /\ old \in Seq(Peer \X Text)
    BY <1>9 DEF AddMessage, Registered, Exists, Chat
  <2>2. chats'[r][c].messages = more /\ accepted' = accepted \cup {new}
    BY <1>9, <2>1 DEF AddMessage, Chat
  <2>3. chats'[r][c] \in Chat
    BY <1>1
  <2>4. Entries(more) = Entries(old) \cup {<<p, t>>}
    <3>1. old \in Seq(Peer \X Text) /\ <<p, t>> \in Peer \X Text
      BY <2>1
    <3> DEFINE S == Peer \X Text
               e == <<p, t>>
    <3>2. old \in Seq(S) /\ e \in S
      BY <3>1
    <3> HIDE DEF S, e, old
    <3>3. Entries(Append(old, e)) = Entries(old) \cup {e}
      BY <3>2, AppendVector
    <3> QED
      BY <3>3 DEF more, e
  <2>5. Holds(chats'[r][c], new)
    BY <2>2, <2>3, <2>4, ServerAssumption DEF Holds
  <2>6. Kept(new)'
    BY <1>1, <1>2, <2>5 DEF Kept
  <2>7. \A m \in accepted : Kept(m)'
    BY <1>4, <1>7, <2>1, <2>2, <2>3, <2>4
  <2> QED
    BY <2>2, <2>6, <2>7 DEF AcceptedKept
<1> QED
  BY <1>6, <1>8, <1>9

\* Deleting a chat leaves the messages of the others where they are; its own
\* are taken off, or are in the file that stays.
LEMMA KeptDelete ==
  ASSUME ServerInv, AcceptedKept, NEW r \in Run, NEW c \in ChatId,
         DeleteChat(r, c) \/ DeleteFails(r, c)
  PROVE  AcceptedKept'
<1> USE DEF ServerInv, TypeInv, TypeOK
<1>1. r = runs /\ Served /\ Served' /\ UNCHANGED <<runs, unsaved>>
  BY TheLatest DEF DeleteChat, DeleteFails, Handles, Served, lifeVars
<1>2. ASSUME NEW m \in accepted, m[1] # c
      PROVE  Kept(m)'
  <2>1. m[1] \in ChatId
    OBVIOUS
  <2>2. /\ chats'[r][m[1]] = chats[r][m[1]]
        /\ files'[m[1]] = files[m[1]] /\ undeleted'[m[1]] = undeleted[m[1]]
    BY <1>2, <2>1 DEF DeleteChat, DeleteFails, FilesWithout
  <2> QED
    BY <1>1, <2>2 DEF AcceptedKept, Kept, Holds
<1>3. ASSUME DeleteFails(r, c), NEW m \in accepted', m[1] = c
      PROVE  Kept(m)'
  <2>1. /\ files' = files /\ undeleted'[c] = chats[r][c] /\ chats[r][c] # None
        /\ Holds(files[c], m)
    BY <1>3 DEF DeleteFails, Exists, NotInFiles
  <2> QED
    BY <1>3, <2>1 DEF Kept, Holds
<1>4. accepted' \subseteq accepted
  BY DEF DeleteChat, DeleteFails
<1>5. DeleteChat(r, c) => \A m \in accepted' : m[1] # c
  BY DEF DeleteChat
<1> QED
  BY <1>2, <1>3, <1>4, <1>5 DEF AcceptedKept

\* The steps of a server's life move what was accepted from files to memory
\* and back.
LEMMA KeptLife ==
  ASSUME OneByOne, ServerInv, AcceptedKept, NEW r \in Run, LifeStep(r)
  PROVE  AcceptedKept'
<1> USE DEF ServerInv, TypeInv, TypeOK
<1>1. UNCHANGED <<undeleted, unsaved, accepted>>
  BY LifeIsQuiet DEF history
<1>2. \A m \in accepted : m[1] \in ChatId
  OBVIOUS
<1>3. ASSUME Served' <=> Served,
             Served => UNCHANGED runs /\ chats'[runs] = chats[runs],
             UNCHANGED files
      PROVE  AcceptedKept'
  BY <1>1, <1>2, <1>3, KeptOn DEF AcceptedKept
<1>4. CASE \E c \in ChatId : LoadChat(r, c)
  <2>1. r = runs /\ ~ Served /\ ~ Served' /\ UNCHANGED files
    BY <1>4, TheLatest DEF LoadChat, Served
  <2> QED
    BY <1>3, <2>1
<1>5. CASE Start(r)
  <2>1. ~ Served
    BY <1>5 DEF Start, OneByOne, Served, Ended
  <2>2. r \in Nat /\ runs' = r /\ phase'[r] = "loading" /\ UNCHANGED files
    BY <1>5 DEF Start, Run
  <2>3. ~ Served'
    BY <2>2 DEF Served
  <2> QED
    BY <1>3, <2>1, <2>2, <2>3
<1>6. CASE SendQuit(r)
  BY <1>3, <1>6 DEF SendQuit, Served
<1>7. CASE BeginStop(r)
  <2>1. r = runs /\ Served /\ Served' /\ UNCHANGED <<runs, chats, files>>
    BY <1>7, TheLatest DEF BeginStop, Handles, Served
  <2> QED
    BY <1>3, <2>1
<1>8. CASE LoadDone(r)
  <2>1. /\ r = runs /\ ~ Served /\ runs > 0 /\ UNCHANGED <<runs, chats, files>>
        /\ \A c \in ChatId : chats[runs][c] = files[c]
    BY <1>8, TheLatest DEF LoadDone, Served, Loading
  <2>2. unsaved = {}
    BY <1>8, <2>1 DEF LoadDone, Marks
  <2> QED
    BY <1>1, <1>2, <2>1, <2>2 DEF AcceptedKept, Kept, Holds
<1>9. ASSUME NEW c \in ChatId, phase[r] = "stopping", c \in todo[r],
             UNCHANGED <<runs, phase, chats>>, undeleted[c] = None,
             \A d \in ChatId \ {c} : files'[d] = files[d]
      PROVE  AcceptedKept'
  <2>1. r = runs /\ Served /\ Served'
    BY <1>9, TheLatest DEF Served
  <2>2. c \notin unsaved
    BY <1>9, <2>1 DEF Marks
  <2>3. ASSUME NEW m \in accepted
        PROVE  Kept(m)'
    <3>1. CASE m[1] = c
      BY <1>1, <1>9, <2>1, <2>2, <3>1 DEF AcceptedKept, Kept
    <3>2. CASE m[1] # c
      BY <1>1, <1>2, <1>9, <2>1, <3>2, KeptOn DEF AcceptedKept
    <3> QED
      BY <3>1, <3>2
  <2> QED
    BY <1>1, <2>3 DEF AcceptedKept
<1>10. ASSUME NEW c \in ChatId, phase[r] = "stopping", c \in todo[r]
       PROVE  undeleted[c] = None
  <2>1. r = runs /\ Exists(r, c)
    BY <1>10, TheLatest DEF SavesWhatItHas
  <2> QED
    BY <2>1 DEF Marks
<1>11. CASE \E c \in ChatId : TruncateFile(r, c)
  BY <1>9, <1>10, <1>11 DEF TruncateFile
<1>12. CASE FillFile(r)
  <2>1. writing[r] \in ChatId /\ writing[r] \in todo[r]
    BY <1>12 DEF FillFile, SavesWhatItHas
  <2> QED
    BY <1>9, <1>10, <1>12, <2>1 DEF FillFile
<1> QED
  BY <1>4, <1>5, <1>6, <1>7, <1>8, <1>11, <1>12 DEF LifeStep

\* What is only in the memory of a server that fails is taken off.
LEMMA KeptFails ==
  ASSUME ServerInv, AcceptedKept, NEW r \in Run,
         (\E c \in ChatId : SaveFails(r, c)) \/ EndStep(r)
  PROVE  AcceptedKept'
<1> USE DEF ServerInv, TypeInv, TypeOK
<1>1. accepted' \subseteq accepted /\ UNCHANGED <<runs, files>>
  BY DEF SaveFails, OpenFails, FillFails, EndStep, LoadFails, ReadFails, StopDone,
         Crash
<1>2. \A m \in accepted : m[1] \in ChatId
  OBVIOUS
<1>3. ASSUME NEW c \in ChatId, SaveFails(r, c)
      PROVE  AcceptedKept'
  <2>1. /\ UNCHANGED <<phase, chats, undeleted>> /\ unsaved' = unsaved \cup {c}
        /\ accepted' = accepted \ NotInFiles({c})
    BY <1>3 DEF SaveFails, OpenFails, FillFails
  <2>2. Served' <=> Served
    BY <1>1, <2>1 DEF Served
  <2>3. ASSUME NEW m \in accepted'
        PROVE  Kept(m)'
    <3>1. m[1] = c => Holds(files[c], m)
      BY <1>1, <2>1, <2>3 DEF NotInFiles
    <3>2. m \in accepted /\ Kept(m)
      BY <1>1, <2>3 DEF AcceptedKept
    <3> QED
      BY <1>1, <2>1, <2>2, <3>1, <3>2 DEF Kept, Holds
  <2> QED
    BY <2>3 DEF AcceptedKept
<1>4. ASSUME EndStep(r)
      PROVE  AcceptedKept'
  <2>1. ~ Served'
    <3>1. r = runs
      BY <1>4, TheLatest DEF EndStep, LoadFails, ReadFails, StopDone, Crash
    <3>2. \E how \in {"ended", "failed"} : Ends(r, how)
      BY <1>4 DEF EndStep, LoadFails, ReadFails, StopDone, Crash
    <3> QED
      BY <1>1, <3>1, <3>2 DEF Ends, Served
  <2>2. ASSUME NEW m \in accepted'
        PROVE  Holds(files[m[1]], m)
    <3>1. m \in accepted /\ Kept(m) /\ m[1] \in ChatId
      BY <1>1, <1>2, <2>2 DEF AcceptedKept
    <3>2. CASE Crash(r)
      BY <2>2, <3>1, <3>2 DEF Crash, NotInFiles
    <3>3. CASE (\E c \in ChatId : LoadFails(r, c)) \/ ReadFails(r)
      <4>1. ~ Served
        BY <3>3, TheLatest DEF LoadFails, ReadFails, Served
      <4> QED
        BY <3>1, <4>1 DEF Kept
    <3>4. CASE StopDone(r)
      <4>1. r = runs /\ runs > 0 /\ phase[runs] = "stopping" /\ todo[runs] = {}
        BY <3>4, TheLatest DEF StopDone
      <4>2. m[1] \notin unsaved /\ undeleted[m[1]] = None =>
              files[m[1]] = chats[runs][m[1]]
        BY <3>1, <4>1 DEF Saving
      <4> QED
        BY <3>1, <4>1, <4>2 DEF Kept
    <3> QED
      BY <1>4, <3>2, <3>3, <3>4 DEF EndStep
  <2> QED
    BY <1>1, <2>1, <2>2 DEF AcceptedKept, Kept, Holds
<1> QED
  BY <1>3, <1>4

LEMMA KeptNext ==
  ASSUME OneByOne, ServerInv, AcceptedKept, [Next]_vars
  PROVE  AcceptedKept'
<1>1. ASSUME NEW r \in Run, NEW c \in ChatId,
             \/ RefuseDelete(r, c)
             \/ \E p \in Peer : \/ RefuseMember(r, p, c)
                             \/ \E pw \in Password : RefuseJoin(r, p, c, pw)
      PROVE  UNCHANGED <<lifeVars, chats, files, history>>
  BY <1>1 DEF RefuseDelete, RefuseMember, RefuseJoin
<1>2. ASSUME UNCHANGED <<lifeVars, chats, files, history>>
      PROVE  AcceptedKept'
  BY <1>2 DEF lifeVars, history, AcceptedKept, Kept, Holds, Served
<1>3. CASE UNCHANGED vars
  BY <1>2, <1>3 DEF vars
<1>4. TypeInv
  BY DEF ServerInv
<1> QED
  BY <1>1, <1>2, <1>3, <1>4, StepCases, KeptRequest, KeptDelete, KeptLife,
     KeptFails

\* Of servers that follow each other, each knows every message that was
\* accepted and not deleted, but for those that a crash or a failure of the
\* disk took before they were in a file.
THEOREM HistoryIsKept ==
  ASSUME OneByOne
  PROVE  Spec => []HistoryKept
<1>1. Init => AcceptedKept
  BY DEF Init, AcceptedKept
<1>2. AcceptedKept => HistoryKept
  BY DEF AcceptedKept, Kept, HistoryKept, Served
<1> QED
  BY <1>1, <1>2, KeptNext, ServerInvariant, PTL DEF Spec
=============================================================================
