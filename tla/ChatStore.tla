------------------------------ MODULE ChatStore ------------------------------
(***************************************************************************)
(* What a communication server promises its clients: chats with members    *)
(* and a history, which outlive the server thread that serves them.        *)
(* Restarts are invisible, but for the chats that a failure of the disk    *)
(* hit; the rest that is lost is lost in a crash.                          *)
(***************************************************************************)
EXTENDS Naturals, Sequences

CONSTANTS ChatId, Peer, Password, Text, None

VARIABLES
  rooms,     \* by chat id: password, members, messages; or None
  answer,    \* the answer to the latest request
  refused,   \* that request if it was refused, or <<>>
  undeleted, \* by chat id: the room as it was deleted, if it may return; or None
  unsaved,   \* the chats that may return to an earlier state
  faults     \* how often a server crashed or the disk failed

vars == <<rooms, answer, refused, undeleted, unsaved, faults>>

Exists(c) == rooms[c] # None

Succeeds == answer' = "Success" /\ refused' = <<>> /\ UNCHANGED <<undeleted, faults>>

Create(p, c, pw) ==
  /\ Succeeds
  /\ ~ Exists(c)
  /\ rooms' = [rooms EXCEPT ![c] = [password |-> pw, members |-> {p},
                                    messages |-> <<>>]]

MayJoin(p, c, pw) ==
  Exists(c) /\ rooms[c].password = pw /\ p \notin rooms[c].members

Join(p, c, pw) ==
  /\ Succeeds
  /\ MayJoin(p, c, pw)
  /\ rooms' = [rooms EXCEPT ![c] =
                 [@ EXCEPT !.members = rooms[c].members \cup {p}]]

IsMember(p, c) == Exists(c) /\ p \in rooms[c].members

Leave(p, c) ==
  /\ Succeeds
  /\ IsMember(p, c)
  /\ rooms' = [rooms EXCEPT ![c] =
                 [@ EXCEPT !.members = rooms[c].members \ {p}]]

SendMessage(p, c, t) ==
  /\ Succeeds
  /\ IsMember(p, c)
  /\ rooms' = [rooms EXCEPT ![c] =
                 [@ EXCEPT !.messages = Append(rooms[c].messages, <<p, t>>)]]

\* Deleting a chat that was never saved succeeds, and an error is answered;
\* the chat cannot return.
Delete(c) ==
  /\ answer' \in {"Success", "Error"} /\ refused' = <<>>
  /\ Exists(c)
  /\ rooms' = [rooms EXCEPT ![c] = None]
  /\ UNCHANGED <<undeleted, faults>>

\* The other error: this chat may return.
DeleteFails(c) ==
  /\ answer' = "Error" /\ refused' = <<>>
  /\ Exists(c)
  /\ faults' = faults + 1
  /\ rooms' = [rooms EXCEPT ![c] = None]
  /\ undeleted' = [undeleted EXCEPT ![c] = rooms[c]]

\* A request is refused to whom may not make it, and to nobody else.
Refuse(p, c) ==
  /\ answer' = "Error"
  /\ \/ \E pw \in Password : refused' = <<"join", p, c, pw>> /\ ~ MayJoin(p, c, pw)
     \/ refused' = <<"member", p, c>> /\ ~ IsMember(p, c)
  /\ UNCHANGED <<rooms, undeleted, faults>>

RefuseDelete(c) ==
  /\ answer' = "Error" /\ refused' = <<"delete", c>>
  /\ ~ Exists(c)
  /\ UNCHANGED <<rooms, undeleted, faults>>

Request(c) ==
  /\ UNCHANGED unsaved
  /\ \/ \E p \in Peer :
          \/ \E pw \in Password : Create(p, c, pw) \/ Join(p, c, pw)
          \/ \E t \in Text : SendMessage(p, c, t)
          \/ Leave(p, c) \/ Refuse(p, c)
     \/ Delete(c) \/ DeleteFails(c) \/ RefuseDelete(c)

\* A chat that is not there, or has fewer messages.
Earlier(room, later) ==
  room # None =>
    /\ later # None
    /\ room.password = later.password
    /\ \E n \in 0 .. Len(later.messages) :
         room.messages = SubSeq(later.messages, 1, n)

SaveFails(c) ==
  /\ faults' = faults + 1
  /\ unsaved' = unsaved \cup {c}
  /\ Exists(c)
  /\ UNCHANGED <<rooms, answer, refused, undeleted>>

\* The chats in S may return to an earlier state, deleted ones that may
\* return to a state before they were deleted; none is changed otherwise.
TakeBack(S) ==
  /\ undeleted' = [c \in ChatId |-> None]
  /\ unsaved' = {}
  /\ UNCHANGED <<answer, refused>>
  /\ DOMAIN rooms' = ChatId
  /\ \A c \in ChatId :
       \/ rooms'[c] = rooms[c]
       \/ c \in S /\ Earlier(rooms'[c], rooms[c])
       \/ undeleted[c] # None /\ Earlier(rooms'[c], undeleted[c])

Restart == UNCHANGED faults /\ TakeBack(unsaved)

Lose == faults' = faults + 1 /\ TakeBack(ChatId)

Init ==
  /\ rooms = [c \in ChatId |-> None]
  /\ answer = "none" /\ refused = <<>>
  /\ undeleted = [c \in ChatId |-> None]
  /\ unsaved = {} /\ faults = 0

Next == Restart \/ Lose \/ \E c \in ChatId : Request(c) \/ SaveFails(c)

Spec == Init /\ [][Next]_vars
=============================================================================
