------------------------- MODULE FragmentReassembly -------------------------
(***************************************************************************)
(* The receiving half of the transport: Node::handle_fragment and the      *)
(* MessageConstructor it keeps for every (peer, session) pair, fed by      *)
(* fragments cut by Node::send_data_message.  The network between the two  *)
(* is the environment: it delivers fragments in any order, drops them, and *)
(* delivers as many copies as the sender makes attempts.                   *)
(*                                                                         *)
(* A "session" here is the whole key of fragment_constructors, that is     *)
(* (sending peer, session id).  A request draws its session id at random;  *)
(* a response reuses the id of its request, so a request that is executed  *)
(* twice yields two responses, possibly different, in one session.         *)
(***************************************************************************)
EXTENDS Naturals, FiniteSets

CONSTANTS
  Message,         \* the messages sent to this host
  Session,         \* the keys of fragment_constructors
  SessionOf,       \* the session a message travels in
  DataLen,         \* its length in bytes once serialized
  FRAGMENT_DSIZE,  \* bytes of payload per fragment (128 in wg_2024)
  MaxCopies,       \* bound: copies of one fragment that may arrive
  Empty            \* an unfilled slot (Option::None)

\* One fragment; its payload is identified by the message and the index.
\* total_n_fragments is the ceiling of the quotient.
TotalFragments(m) == (DataLen[m] + FRAGMENT_DSIZE - 1) \div FRAGMENT_DSIZE

FragmentsOf(m) == [msg : {m}, index : 0 .. TotalFragments(m) - 1]

Fragment == UNION {FragmentsOf(m) : m \in Message}

\* Serialized messages start with the tag of an enum: none is empty.
ASSUME ConstantsAssumption ==
  /\ SessionOf \in [Message -> Session]
  /\ DataLen \in [Message -> Nat \ {0}]
  /\ FRAGMENT_DSIZE \in Nat \ {0}
  /\ MaxCopies \in Nat \ {0}
  /\ Empty \notin Fragment

\* No other message travels in the session of m.  True of requests; true of
\* a response unless its request was executed twice.
Alone(m) == \A n \in Message : SessionOf[n] = SessionOf[m] => n = m

VARIABLES
  fragment_constructors,  \* the open constructors, by session
  acked,      \* history: the fragments an Ack was queued for
  buffers,    \* history: the buffers handed to handle_data_message
  handed,     \* history: how many, by session
  arrived     \* history: copies received, by fragment

vars == <<fragment_constructors, acked, buffers, handed, arrived>>

-----------------------------------------------------------------------------
(* MessageConstructor *)

\* Mutant: one slot too many.
NewConstructorOffByOne(total) ==
  [fragments_len   |-> total,
   fragments       |-> [i \in 0 .. total |-> Empty],
   completed_up_to |-> 0]

NewConstructor(total) ==
  [fragments_len   |-> total,
   fragments       |-> [i \in 0 .. total - 1 |-> Empty],
   completed_up_to |-> 0]

\* Mutant: insert(..) instead of entry(..).or_insert(..).
ConstructorForAlwaysNew(f) == NewConstructor(TotalFragments(f.msg))

\* Mutant: a fragment of a shorter message shortens the constructor.
ConstructorForShortened(f) ==
  LET s == SessionOf[f.msg]
      total == TotalFragments(f.msg)
  IN  IF s \notin DOMAIN fragment_constructors THEN NewConstructor(total)
      ELSE IF total < fragment_constructors[s].fragments_len
           THEN [fragment_constructors[s] EXCEPT !.fragments_len = total]
           ELSE fragment_constructors[s]

\* entry(..).or_insert(..): the first fragment of a session fixes its length.
ConstructorFor(f) ==
  IF SessionOf[f.msg] \in DOMAIN fragment_constructors
  THEN fragment_constructors[SessionOf[f.msg]]
  ELSE NewConstructor(TotalFragments(f.msg))

InBounds(f) == f.index < ConstructorFor(f).fragments_len

\* The slots with f in its place; an earlier fragment there is overwritten.
SlotsWith(f) == [ConstructorFor(f).fragments EXCEPT ![f.index] = f]

\* Mutant: `if` instead of `while`: the scan advances by one slot at most.
PrefixEndsOneStep(slots, from, len) ==
  {IF from < len /\ slots[from] # Empty THEN from + 1 ELSE from}

\* Where the scan for the first empty slot stops.
PrefixEnds(slots, from, len) ==
  {n \in from .. len : /\ \A j \in from .. n - 1 : slots[j] # Empty
                       /\ n < len => slots[n] = Empty}

\* The constructor after add_packet has stored f.
Updated(f) ==
  {[fragments_len |-> ConstructorFor(f).fragments_len,
    fragments |-> SlotsWith(f),
    completed_up_to |-> n] :
      n \in PrefixEnds(SlotsWith(f), ConstructorFor(f).completed_up_to,
                       ConstructorFor(f).fragments_len)}

\* Mutants: complete when all slots but the last are filled; or only then.
IsCompleteOffByOne(c) == c.completed_up_to + 1 >= c.fragments_len
IsCompleteExactly(c) == c.completed_up_to + 1 = c.fragments_len

IsComplete(c) == c.completed_up_to = c.fragments_len

\* What handle_data_message is given: the slots one after the other.
Buffer(s, c) == [session |-> s, parts |-> c.fragments]

-----------------------------------------------------------------------------
(* The constructors a host keeps *)

With(s, c) ==
  [k \in DOMAIN fragment_constructors \cup {s} |->
     IF k = s THEN c ELSE fragment_constructors[k]]

\* Mutant: the constructor is not removed.
WithoutRemoving(s) == fragment_constructors

Without(s) ==
  [k \in DOMAIN fragment_constructors \ {s} |-> fragment_constructors[k]]

\* A copy of f reaches the host.
Arrive(f) ==
  /\ arrived[f] < MaxCopies
  /\ arrived' = [arrived EXCEPT ![f] = @ + 1]

\* add_packet fails: the constructor is dropped, nothing is acknowledged.
RejectFragment(f) ==
  /\ Arrive(f)
  /\ ~ InBounds(f)
  /\ fragment_constructors' = Without(SessionOf[f.msg])
  /\ UNCHANGED <<acked, buffers, handed>>

\* The fragment is stored and acknowledged, the message is not complete.
StoreFragment(f) ==
  /\ Arrive(f)
  /\ InBounds(f)
  /\ \E c \in Updated(f) :
       /\ ~ IsComplete(c)
       /\ fragment_constructors' = With(SessionOf[f.msg], c)
  /\ acked' = acked \cup {f}
  /\ UNCHANGED <<buffers, handed>>

\* The fragment completes the message: it is acknowledged, the constructor
\* is removed and the buffer goes to handle_data_message.
CompleteMessage(f) ==
  /\ Arrive(f)
  /\ InBounds(f)
  /\ \E c \in Updated(f) :
       /\ IsComplete(c)
       /\ buffers' = buffers \cup {Buffer(SessionOf[f.msg], c)}
  /\ fragment_constructors' = Without(SessionOf[f.msg])
  /\ acked' = acked \cup {f}
  /\ handed' = [handed EXCEPT ![SessionOf[f.msg]] = @ + 1]

Init ==
  /\ fragment_constructors = [s \in {} |-> Empty]
  /\ acked = {}
  /\ buffers = {}
  /\ handed = [s \in Session |-> 0]
  /\ arrived = [f \in Fragment |-> 0]

Next ==
  \E f \in Fragment :
    \/ RejectFragment(f)
    \/ StoreFragment(f)
    \/ CompleteMessage(f)

Spec == Init /\ [][Next]_vars

-----------------------------------------------------------------------------
(* Properties *)

Constructor ==
  UNION {[fragments_len   : {n},
          fragments       : [0 .. n - 1 -> Fragment \cup {Empty}],
          completed_up_to : 0 .. n] :
            n \in {TotalFragments(m) : m \in Message}}

\* The shape of the state; an open constructor has the size of some message
\* and its scan position lies within it.
TypeOK ==
  /\ DOMAIN fragment_constructors \subseteq Session
  /\ \A s \in DOMAIN fragment_constructors :
       fragment_constructors[s] \in Constructor
  /\ acked \subseteq Fragment
  /\ handed \in [Session -> Nat]
  /\ arrived \in [Fragment -> Nat]

\* The buffer that message m gives when nothing went wrong.
PartsOf(m) == [i \in 0 .. TotalFragments(m) - 1 |-> [msg |-> m, index |-> i]]

HandedOver(m) == \E b \in buffers : b.parts = PartsOf(m)

\* No constructor stays open with all its slots filled: such a message would
\* be acknowledged to its sender and never processed (message_constructor.rs,
\* the completed_up_to scan).
NoFullConstructorOpen ==
  \A s \in DOMAIN fragment_constructors :
    \E i \in DOMAIN fragment_constructors[s].fragments :
      fragment_constructors[s].fragments[i] = Empty

\* A buffer handed to the application holds the fragments of one message, all
\* of them and in order, if its session carries one message only: whatever the
\* order and the number of copies, it is that message, no mixture and no hole.
WholeWhenAlone ==
  \A b \in buffers : \A m \in Message :
    Alone(m) /\ SessionOf[m] = b.session => b.parts = PartsOf(m)

\* Whichever messages meet in one constructor, with fragments that are late,
\* repeated or rejected, a buffer handed to the application is as long as a
\* message that came in its session, and each of its slots is filled, with a
\* fragment for that slot which came there.
SharedHasNoHole ==
  \A b \in buffers :
    /\ \E f \in Fragment :
         /\ arrived[f] > 0 /\ SessionOf[f.msg] = b.session
         /\ DOMAIN b.parts = 0 .. TotalFragments(f.msg) - 1
    /\ \A i \in DOMAIN b.parts :
         \E f \in Fragment :
           /\ arrived[f] > 0 /\ SessionOf[f.msg] = b.session /\ f.index = i
           /\ b.parts[i] = f

\* The sender forgets a fragment once it is acknowledged, so from then on the
\* receiver must hold it or must have handed its message over.
AckedIsKept ==
  \A f \in acked :
    Alone(f.msg) =>
      \/ HandedOver(f.msg)
      \/ /\ SessionOf[f.msg] \in DOMAIN fragment_constructors
         /\ fragment_constructors[SessionOf[f.msg]].fragments[f.index] = f

\* A message is processed at most as often as each of its fragments arrived:
\* late copies can repeat it, but only when every fragment was repeated.
HandedAtMostArrived ==
  \A f \in Fragment :
    Alone(f.msg) => handed[SessionOf[f.msg]] <= arrived[f]

\* A message all of whose fragments have arrived has been processed.
HandedOnceAllArrived ==
  \A m \in Message :
    Alone(m) /\ (\A f \in FragmentsOf(m) : arrived[f] > 0) => HandedOver(m)
=============================================================================
