------------------------ MODULE CommunicationServer ------------------------
(***************************************************************************)
(* The communication servers that are started, one after the other, with   *)
(* the same node id, and the directory they share.  Each is a thread that  *)
(* loads the chats, handles requests, and writes the chats when it takes   *)
(* Quit.  The controller sends Quit and does not wait for the thread: the  *)
(* next server can be loading while this one still handles or writes.      *)
(* Steps on the disk are one file each, and may fail: fs::write truncates  *)
(* the file, then fills it.  Requests that read (GetChats, GetMessages)    *)
(* change nothing.                                                         *)
(***************************************************************************)
EXTENDS Naturals, Sequences

CONSTANTS
  ChatId, Peer, Password, Text,
  None,         \* no chat, no file
  Truncated,    \* a file that was opened for writing and not yet filled
  MaxRuns,      \* bound: servers started
  MaxMessages,  \* bound: messages in a chat
  Overlap,      \* whether a server is started before its predecessor ended
  MaxFaults     \* bound: server threads that end without stop(), and failures
                \* of the disk

Run == 1 .. MaxRuns

Chat == [password : Password, registered_peers : Seq(Peer),
         messages : Seq(Peer \X Text)]

\* Requests that may be refused: to join, to do what only a member may (leave
\* the chat or send to it), to delete a chat.
Request ==
  ({"join"} \X Peer \X ChatId \X Password) \cup ({"member"} \X Peer \X ChatId)
    \cup ({"delete"} \X ChatId)

ASSUME ServerAssumption ==
  /\ None \notin Chat /\ Truncated \notin Chat /\ None # Truncated
  /\ None \notin ChatId
  /\ None \notin [password : Password, members : SUBSET Peer,
                  messages : Seq(Peer \X Text)]
  /\ MaxRuns \in Nat /\ MaxMessages \in Nat
  /\ Overlap \in BOOLEAN /\ MaxFaults \in Nat

VARIABLES
  runs,      \* how many servers have been started
  phase,     \* what each is doing
  told,      \* the servers that were sent Quit
  chats,     \* the memory of each
  todo,      \* the entries each still has to load, or to save
  writing,   \* the file each has truncated and not yet filled
  files,     \* the directory
  answer,    \* the answer to the latest request
  refused,   \* that request if it was refused, or <<>>
  \* history
  used,      \* chat ids that were drawn
  deleted,   \* chats that were deleted, and their file with them
  undeleted, \* the chats that were deleted and whose file could not be removed
  unsaved,   \* the chats that the server that stops could not save
  accepted,  \* <<chat, author, text>>: messages answered with Success, but for
             \* those that were deleted, or in no file when a server crashed
             \* or the disk failed
  faults     \* how often a server crashed or the disk failed

lifeVars == <<runs, phase, told, todo, writing>>
history == <<used, deleted, undeleted, unsaved, accepted, faults>>
vars == <<lifeVars, chats, files, answer, refused, history>>

\* A message was handed to server r.
Handles(r) == phase[r] = "running"

Exists(r, c) == chats[r][c] # None

Entries(s) == {s[i] : i \in DOMAIN s}

Registered(r, p, c) == Exists(r, c) /\ p \in Entries(chats[r][c].registered_peers)

Fault == faults < MaxFaults /\ faults' = faults + 1

\* What memory or directory has of message m of chat c.
Holds(chat, m) ==
  /\ chat \notin {None, Truncated}
  /\ <<m[2], m[3]>> \in Entries(chat.messages)

\* The messages of a chat in S that the directory does not have.
NotInFiles(S) == {m \in accepted : m[1] \in S /\ ~ Holds(files[m[1]], m)}

-----------------------------------------------------------------------------
(* Requests *)

Answers(outcome) == answer' = outcome /\ refused' = <<>>

Refuses(request) == answer' = "Error" /\ refused' = request

\* The id is random, of 32 bits: taken to be one that was never drawn.
CreateChat(r, p, c, pw) ==
  /\ Handles(r)
  /\ c \notin used
  /\ used' = used \cup {c}
  /\ chats' = [chats EXCEPT ![r][c] =
                 [password |-> pw, registered_peers |-> <<p>>, messages |-> <<>>]]
  /\ Answers("Success")
  /\ UNCHANGED <<lifeVars, files, deleted, undeleted, unsaved, accepted, faults>>

\* Mutant: a peer that is in the chat may join it again.
MayJoinAgain(r, p, c, pw) == Exists(r, c) /\ chats[r][c].password = pw

MayJoin(r, p, c, pw) ==
  Exists(r, c) /\ chats[r][c].password = pw /\ ~ Registered(r, p, c)

JoinChat(r, p, c, pw) ==
  /\ Handles(r)
  /\ MayJoin(r, p, c, pw)
  /\ chats' = [chats EXCEPT ![r][c].registered_peers = Append(@, p)]
  /\ Answers("Success")
  /\ UNCHANGED <<lifeVars, files, history>>

\* Vec::remove of the first position that holds p.
PeersWithout(peers, p) ==
  {[j \in 1 .. Len(peers) - 1 |-> IF j < i THEN peers[j] ELSE peers[j + 1]] :
     i \in {k \in DOMAIN peers : /\ peers[k] = p
                                 /\ \A j \in 1 .. k - 1 : peers[j] # p}}

LeaveChat(r, p, c) ==
  /\ Handles(r)
  /\ Registered(r, p, c)
  /\ \E peers \in PeersWithout(chats[r][c].registered_peers, p) :
       chats' = [chats EXCEPT ![r][c].registered_peers = peers]
  /\ Answers("Success")
  /\ UNCHANGED <<lifeVars, files, history>>

AddMessage(r, p, c, t) ==
  /\ Handles(r)
  /\ Registered(r, p, c)
  /\ Len(chats[r][c].messages) < MaxMessages
  /\ chats' = [chats EXCEPT ![r][c].messages = Append(@, <<p, t>>)]
  /\ accepted' = accepted \cup {<<c, p, t>>}
  /\ Answers("Success")
  /\ UNCHANGED <<lifeVars, files, used, deleted, undeleted, unsaved, faults>>

\* Mutant: the file is left where it is.
FilesKept(c) == files

FilesWithout(c) == [files EXCEPT ![c] = None]

\* The chat leaves the memory before its file is removed; a chat that was
\* never saved has no file, and the failure is what is answered.
DeleteChat(r, c) ==
  /\ Handles(r)
  /\ Exists(r, c)
  /\ chats' = [chats EXCEPT ![r][c] = None]
  /\ files' = FilesWithout(c)
  /\ Answers(IF files[c] = None THEN "Error" ELSE "Success")
  /\ deleted' = deleted \cup {c}
  /\ accepted' = {m \in accepted : m[1] # c}
  /\ UNCHANGED <<lifeVars, used, undeleted, unsaved, faults>>

\* remove_file fails on a file that is there: the same answer, and the file
\* stays for the next server to load.
DeleteFails(r, c) ==
  /\ Handles(r)
  /\ Exists(r, c)
  /\ files[c] # None
  /\ Fault
  /\ chats' = [chats EXCEPT ![r][c] = None]
  /\ Answers("Error")
  /\ undeleted' = [undeleted EXCEPT ![c] = chats[r][c]]
  /\ accepted' = accepted \ NotInFiles({c})
  /\ UNCHANGED <<lifeVars, files, used, deleted, unsaved>>

\* Each request is refused on its own condition.
RefuseJoin(r, p, c, pw) ==
  /\ Handles(r)
  /\ ~ MayJoin(r, p, c, pw)
  /\ Refuses(<<"join", p, c, pw>>)
  /\ UNCHANGED <<lifeVars, chats, files, history>>

\* leave_chat and add_message_to_chat: only a registered peer may.
RefuseMember(r, p, c) ==
  /\ Handles(r)
  /\ ~ Registered(r, p, c)
  /\ Refuses(<<"member", p, c>>)
  /\ UNCHANGED <<lifeVars, chats, files, history>>

RefuseDelete(r, c) ==
  /\ Handles(r)
  /\ ~ Exists(r, c)
  /\ Refuses(<<"delete", c>>)
  /\ UNCHANGED <<lifeVars, chats, files, history>>

-----------------------------------------------------------------------------
(* The life of a server *)

Ended(r) == phase[r] \in {"ended", "failed"}

\* The thread is gone, and what its memory had that the directory has not.
Ends(r, how) ==
  /\ phase' = [phase EXCEPT ![r] = how]
  /\ chats' = [chats EXCEPT ![r] = [c \in ChatId |-> None]]
  /\ todo' = [todo EXCEPT ![r] = {}]
  /\ writing' = [writing EXCEPT ![r] = None]
  /\ undeleted' = [c \in ChatId |-> None]
  /\ unsaved' = {}
  /\ UNCHANGED <<answer, refused>>

\* add_server; the thread then lists the directory.
Start(r) ==
  /\ r = runs + 1
  /\ runs > 0 => (Ended(runs) \/ (Overlap /\ runs \in told))
  /\ runs' = r
  /\ phase' = [phase EXCEPT ![r] = "loading"]
  /\ todo' = [todo EXCEPT ![r] = {c \in ChatId : files[c] # None}]
  /\ UNCHANGED <<told, chats, writing, files, answer, refused, history>>

\* Mutant: whatever is read is taken for a chat.
ParsesAlways(file) == TRUE

Parses(file) == file \notin {None, Truncated}

LoadChat(r, c) ==
  /\ phase[r] = "loading"
  /\ c \in todo[r]
  /\ Parses(files[c])
  /\ chats' = [chats EXCEPT ![r][c] = files[c]]
  /\ todo' = [todo EXCEPT ![r] = @ \ {c}]
  /\ UNCHANGED <<runs, phase, told, writing, files, answer, refused, history>>

\* expect("Failed to parse chat"), or the file is gone: the thread panics.
LoadFails(r, c) ==
  /\ phase[r] = "loading"
  /\ c \in todo[r]
  /\ ~ Parses(files[c])
  /\ Ends(r, "failed")
  /\ UNCHANGED <<runs, told, files, used, deleted, accepted, faults>>

\* The directory or a file of it cannot be read: unwrap() panics as well.
ReadFails(r) ==
  /\ phase[r] = "loading"
  /\ Fault
  /\ Ends(r, "failed")
  /\ UNCHANGED <<runs, told, files, used, deleted, accepted>>

LoadDone(r) ==
  /\ phase[r] = "loading"
  /\ todo[r] = {}
  /\ phase' = [phase EXCEPT ![r] = "running"]
  /\ UNCHANGED <<runs, told, chats, todo, writing, files, answer, refused, history>>

\* delete_node or destroy_network.
SendQuit(r) ==
  /\ r = runs
  /\ r \notin told
  /\ told' = told \cup {r}
  /\ UNCHANGED <<runs, phase, chats, todo, writing, files, answer, refused, history>>

\* Mutant: only chats somebody is registered in are worth a file.
ToSaveInhabited(r) ==
  {c \in ChatId : Exists(r, c) /\ chats[r][c].registered_peers # <<>>}

\* Mutant: only chats that have no file yet are written.
ToSaveNew(r) == {c \in ChatId : Exists(r, c) /\ files[c] = None}

ToSave(r) == {c \in ChatId : Exists(r, c)}

\* Quit is taken between two messages: stop().
BeginStop(r) ==
  /\ Handles(r)
  /\ r \in told
  /\ phase' = [phase EXCEPT ![r] = "stopping"]
  /\ todo' = [todo EXCEPT ![r] = ToSave(r)]
  /\ UNCHANGED <<runs, told, chats, writing, files, answer, refused, history>>

TruncateFile(r, c) ==
  /\ phase[r] = "stopping"
  /\ writing[r] = None
  /\ c \in todo[r]
  /\ writing' = [writing EXCEPT ![r] = c]
  /\ files' = [files EXCEPT ![c] = Truncated]
  /\ UNCHANGED <<runs, phase, told, chats, todo, answer, refused, history>>

FillFile(r) ==
  /\ phase[r] = "stopping"
  /\ writing[r] # None
  /\ files' = [files EXCEPT ![writing[r]] = chats[r][writing[r]]]
  /\ todo' = [todo EXCEPT ![r] = @ \ {writing[r]}]
  /\ writing' = [writing EXCEPT ![r] = None]
  /\ UNCHANGED <<runs, phase, told, chats, answer, refused, history>>

\* fs::write cannot open the file, which stays as it was: stop() goes on to
\* the next chat.
OpenFails(r, c) ==
  /\ phase[r] = "stopping"
  /\ writing[r] = None
  /\ c \in todo[r]
  /\ Fault
  /\ todo' = [todo EXCEPT ![r] = @ \ {c}]
  /\ unsaved' = unsaved \cup {c}
  /\ accepted' = accepted \ NotInFiles({c})
  /\ UNCHANGED <<runs, phase, told, writing, chats, files, answer, refused, used,
                 deleted, undeleted>>

\* fs::write cannot fill the file it truncated: stop() goes on as well.
FillFails(r) ==
  /\ phase[r] = "stopping"
  /\ writing[r] # None
  /\ Fault
  /\ todo' = [todo EXCEPT ![r] = @ \ {writing[r]}]
  /\ writing' = [writing EXCEPT ![r] = None]
  /\ unsaved' = unsaved \cup {writing[r]}
  /\ accepted' = accepted \ NotInFiles({writing[r]})
  /\ UNCHANGED <<runs, phase, told, chats, files, answer, refused, used, deleted,
                 undeleted>>

StopDone(r) ==
  /\ phase[r] = "stopping"
  /\ todo[r] = {}
  /\ Ends(r, "ended")
  /\ UNCHANGED <<runs, told, files, used, deleted, accepted, faults>>

\* The process ends, or the node thread does without taking Quit.
Crash(r) ==
  /\ phase[r] \in {"loading", "running", "stopping"}
  /\ Fault
  /\ Ends(r, "ended")
  /\ accepted' = accepted \ NotInFiles(ChatId)
  /\ UNCHANGED <<runs, told, files, used, deleted>>

Init ==
  /\ runs = 0 /\ told = {}
  /\ phase = [r \in Run |-> "none"]
  /\ chats = [r \in Run |-> [c \in ChatId |-> None]]
  /\ todo = [r \in Run |-> {}]
  /\ writing = [r \in Run |-> None]
  /\ files = [c \in ChatId |-> None]
  /\ answer = "none" /\ refused = <<>>
  /\ used = {} /\ deleted = {} /\ unsaved = {} /\ accepted = {}
  /\ undeleted = [c \in ChatId |-> None]
  /\ faults = 0

Next ==
  \E r \in Run :
    \/ \E p \in Peer, c \in ChatId :
         \/ \E pw \in Password :
              \/ CreateChat(r, p, c, pw) \/ JoinChat(r, p, c, pw)
              \/ RefuseJoin(r, p, c, pw)
         \/ \E t \in Text : AddMessage(r, p, c, t)
         \/ LeaveChat(r, p, c) \/ RefuseMember(r, p, c)
    \/ \E c \in ChatId :
         \/ DeleteChat(r, c) \/ DeleteFails(r, c) \/ RefuseDelete(r, c)
         \/ LoadChat(r, c) \/ LoadFails(r, c)
         \/ TruncateFile(r, c) \/ OpenFails(r, c)
    \/ Start(r) \/ ReadFails(r) \/ LoadDone(r) \/ SendQuit(r)
    \/ BeginStop(r) \/ FillFile(r) \/ FillFails(r) \/ StopDone(r)
    \/ Crash(r)

Spec == Init /\ [][Next]_vars

-----------------------------------------------------------------------------
(* Properties *)

TypeOK ==
  /\ runs \in 0 .. MaxRuns /\ told \subseteq Run
  /\ phase \in [Run -> {"none", "loading", "running", "stopping", "ended",
                        "failed"}]
  /\ chats \in [Run -> [ChatId -> Chat \cup {None}]]
  /\ todo \in [Run -> SUBSET ChatId]
  /\ writing \in [Run -> ChatId \cup {None}]
  /\ files \in [ChatId -> Chat \cup {None, Truncated}]
  /\ answer \in {"none", "Success", "Error"}
  /\ refused \in Request \cup {<<>>}
  /\ used \subseteq ChatId /\ deleted \subseteq ChatId /\ unsaved \subseteq ChatId
  /\ undeleted \in [ChatId -> Chat \cup {None}]
  /\ accepted \subseteq ChatId \X Peer \X Text
  /\ faults \in Nat

NoDuplicates(s) == \A i, j \in DOMAIN s : s[i] = s[j] => i = j

\* Leaving removes one entry of the vector: a peer registered twice would
\* still be in the chat, in memory or after a restart.
RegisteredOnce ==
  /\ \A r \in Run, c \in ChatId :
       Exists(r, c) => NoDuplicates(chats[r][c].registered_peers)
  /\ \A c \in ChatId :
       Parses(files[c]) => NoDuplicates(files[c].registered_peers)

\* A deleted chat never comes back: neither a server that serves or will
\* serve, nor the directory, has it, whatever faults and fails later.  A chat
\* whose file could not be removed is not in deleted: it does come back.
DeletedStaysDeleted ==
  \A c \in deleted :
    /\ files[c] = None
    /\ \A r \in Run : ~ Ended(r) => ~ Exists(r, c)

\* README.md: communication servers "maintain persistent chat logs".  What
\* was accepted is known to the server that serves now, unless it was deleted,
\* or a crash or a failure of the disk came before it was in a file.
HistoryKept ==
  (runs > 0 /\ phase[runs] = "running") =>
    \A m \in accepted : undeleted[m[1]] = None => Holds(chats[runs][m[1]], m)

\* The chats as the clients know them: the memory of the latest server from
\* the end of loading to the end of saving, the directory otherwise.
Served == runs > 0 /\ phase[runs] \in {"running", "stopping"}

Room(chat) ==
  IF chat \in {None, Truncated} THEN None
  ELSE [password |-> chat.password, members |-> Entries(chat.registered_peers),
        messages |-> chat.messages]

Rooms == [c \in ChatId |-> Room(IF Served THEN chats[runs][c] ELSE files[c])]

\* The servers together implement ChatStore: orderly restarts are invisible,
\* a crash takes chats back to an earlier state of theirs, and so does a
\* failure of the disk, but only the chats whose file it hit.
Store == INSTANCE ChatStore
           WITH rooms <- Rooms,
                undeleted <- [c \in ChatId |-> Room(undeleted[c])]
StoreSpec == Store!Spec
=============================================================================
