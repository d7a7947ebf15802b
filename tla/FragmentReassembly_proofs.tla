---------------------- MODULE FragmentReassembly_proofs ----------------------
(***************************************************************************)
(* Theorems about FragmentReassembly, for every set of messages, every     *)
(* length of them and every fragment size.                                 *)
(*                                                                         *)
(* The first two speak of every session, the next four of the sessions     *)
(* that carry one message (Alone), next to any number of shared ones: an   *)
(* open constructor of such a session belongs to its message (Belongs),    *)
(* and they follow.  The last one, SharedWhole, and the facts before it    *)
(* that Transport_proofs cites are about shared sessions.                  *)
(***************************************************************************)
EXTENDS FragmentReassembly, FiniteSetTheorems, TLAPS

USE ConstantsAssumption

-----------------------------------------------------------------------------
(* Facts about the operators *)

\* A message has at least one fragment.
LEMMA TotalPositive ==
  ASSUME NEW m \in Message
  PROVE  TotalFragments(m) \in Nat \ {0}
<1>1. DataLen[m] \in Nat \ {0}
  OBVIOUS
<1>2. ASSUME NEW len \in Nat \ {0}, NEW d \in Nat \ {0}
      PROVE  (len + d - 1) \div d \in Nat \ {0}
  OBVIOUS
<1> QED
  BY <1>1, <1>2 DEF TotalFragments

\* What a fragment is, without the union.
LEMMA FragmentFacts ==
  ASSUME NEW f \in Fragment
  PROVE  /\ f.msg \in Message
         /\ f.index \in 0 .. TotalFragments(f.msg) - 1
         /\ f = [msg |-> f.msg, index |-> f.index]
         /\ SessionOf[f.msg] \in Session
         /\ f # Empty
<1>1. PICK m \in Message : f \in FragmentsOf(m)
  BY DEF Fragment
<1> QED
  BY <1>1, TotalPositive DEF FragmentsOf, Fragment

\* What a constructor is, without the union.
LEMMA ConstructorFacts ==
  ASSUME NEW c
  PROVE  c \in Constructor <=>
           \E m \in Message :
             c \in [fragments_len   : {TotalFragments(m)},
                    fragments       : [0 .. TotalFragments(m) - 1 ->
                                         Fragment \cup {Empty}],
                    completed_up_to : 0 .. TotalFragments(m)]
BY DEF Constructor

LEMMA NewConstructorType ==
  ASSUME NEW m \in Message
  PROVE  NewConstructor(TotalFragments(m)) \in Constructor
BY TotalPositive, ConstructorFacts DEF NewConstructor

LEMMA ConstructorForType ==
  ASSUME TypeOK, NEW f \in Fragment
  PROVE  ConstructorFor(f) \in Constructor
BY FragmentFacts, NewConstructorType DEF ConstructorFor, TypeOK

\* add_packet keeps the shape, and fills exactly one slot.
LEMMA UpdatedFacts ==
  ASSUME TypeOK, NEW f \in Fragment, InBounds(f), NEW c \in Updated(f)
  PROVE  /\ c \in Constructor
         /\ c.fragments_len = ConstructorFor(f).fragments_len
         /\ c.fragments = SlotsWith(f)
         /\ DOMAIN c.fragments = 0 .. c.fragments_len - 1
         /\ f.index \in 0 .. c.fragments_len - 1
         /\ c.fragments[f.index] = f
         /\ \A i \in 0 .. c.fragments_len - 1 :
              i # f.index => c.fragments[i] = ConstructorFor(f).fragments[i]
<1>1. ConstructorFor(f) \in Constructor
  BY ConstructorForType
<1>2. PICK m \in Message :
        ConstructorFor(f) \in
          [fragments_len   : {TotalFragments(m)},
           fragments       : [0 .. TotalFragments(m) - 1 -> Fragment \cup {Empty}],
           completed_up_to : 0 .. TotalFragments(m)]
  BY <1>1, ConstructorFacts
<1>3. PICK n \in PrefixEnds(SlotsWith(f), ConstructorFor(f).completed_up_to,
                            ConstructorFor(f).fragments_len) :
        c = [fragments_len   |-> ConstructorFor(f).fragments_len,
             fragments       |-> SlotsWith(f),
             completed_up_to |-> n]
  BY DEF Updated
<1>4. TotalFragments(m) \in Nat /\ f.index \in Nat
  BY TotalPositive, FragmentFacts
<1>5. n \in 0 .. TotalFragments(m)
  BY <1>2, <1>3, <1>4 DEF PrefixEnds
<1>6. f.index \in 0 .. TotalFragments(m) - 1
  BY <1>2, <1>4 DEF InBounds
<1>7. SlotsWith(f) \in [0 .. TotalFragments(m) - 1 -> Fragment \cup {Empty}]
  BY <1>2 DEF SlotsWith
<1>8. c \in Constructor
  BY <1>2, <1>3, <1>5, <1>7, ConstructorFacts
<1>9. /\ SlotsWith(f)[f.index] = f
      /\ \A i \in 0 .. TotalFragments(m) - 1 :
           i # f.index => SlotsWith(f)[i] = ConstructorFor(f).fragments[i]
  BY <1>2, <1>6 DEF SlotsWith
<1> QED
  BY <1>2, <1>3, <1>6, <1>7, <1>8, <1>9

-----------------------------------------------------------------------------
(* Type correctness *)

LEMMA WithType ==
  ASSUME TypeOK, NEW s \in Session, NEW c \in Constructor
  PROVE  /\ DOMAIN With(s, c) = DOMAIN fragment_constructors \cup {s}
         /\ DOMAIN With(s, c) \subseteq Session
         /\ \A k \in DOMAIN With(s, c) : With(s, c)[k] \in Constructor
BY DEF With, TypeOK

LEMMA WithoutType ==
  ASSUME TypeOK, NEW s
  PROVE  /\ DOMAIN Without(s) \subseteq Session
         /\ \A k \in DOMAIN Without(s) : Without(s)[k] \in Constructor
BY DEF Without, TypeOK

LEMMA TypeNext ==
  ASSUME TypeOK, [Next]_vars
  PROVE  TypeOK'
<1>1. ASSUME NEW f \in Fragment, Arrive(f)
      PROVE  arrived' \in [Fragment -> Nat]
  BY <1>1 DEF Arrive, TypeOK
<1>2. ASSUME NEW f \in Fragment, RejectFragment(f)
      PROVE  TypeOK'
  BY <1>1, <1>2, WithoutType DEF RejectFragment, TypeOK
<1>3. ASSUME NEW f \in Fragment, StoreFragment(f)
      PROVE  TypeOK'
  <2>1. Arrive(f) /\ InBounds(f)
    BY <1>3 DEF StoreFragment
  <2>2. PICK c \in Updated(f) :
          fragment_constructors' = With(SessionOf[f.msg], c)
    BY <1>3 DEF StoreFragment
  <2>3. c \in Constructor
    BY <2>1, UpdatedFacts
  <2>4. SessionOf[f.msg] \in Session
    BY FragmentFacts
  <2>5. /\ DOMAIN fragment_constructors' \subseteq Session
        /\ \A s \in DOMAIN fragment_constructors' :
             fragment_constructors'[s] \in Constructor
    BY <2>2, <2>3, <2>4, WithType
  <2>6. acked' \subseteq Fragment /\ handed' \in [Session -> Nat]
    BY <1>3 DEF StoreFragment, TypeOK
  <2> QED
    BY <1>1, <2>1, <2>5, <2>6 DEF TypeOK
<1>4. ASSUME NEW f \in Fragment, CompleteMessage(f)
      PROVE  TypeOK'
  BY <1>1, <1>4, WithoutType, FragmentFacts DEF CompleteMessage, TypeOK
<1>5. CASE UNCHANGED vars
  BY <1>5 DEF vars, TypeOK
<1> QED
  BY <1>2, <1>3, <1>4, <1>5 DEF Next

\* The state keeps its shape: every open constructor has the size of some
\* message and its scan position lies within it.
THEOREM TypeCorrect == Spec => []TypeOK
<1>1. Init => TypeOK
  BY DEF Init, TypeOK
<1>2. TypeOK /\ [Next]_vars => TypeOK'
  BY TypeNext
<1> QED
  BY <1>1, <1>2, PTL DEF Spec

-----------------------------------------------------------------------------
(* The scan for the first empty slot *)

\* All slots below completed_up_to are filled and the one there is not.
ScanOK(c) ==
  /\ c.completed_up_to \in 0 .. c.fragments_len - 1
  /\ c.fragments[c.completed_up_to] = Empty
  /\ \A j \in 0 .. c.completed_up_to - 1 : c.fragments[j] # Empty

ScansOK ==
  \A s \in DOMAIN fragment_constructors : ScanOK(fragment_constructors[s])

LEMMA ConstructorForScan ==
  ASSUME TypeOK, ScansOK, NEW f \in Fragment
  PROVE  ScanOK(ConstructorFor(f))
<1>1. TotalFragments(f.msg) \in Nat \ {0}
  BY FragmentFacts, TotalPositive
<1> QED
  BY <1>1 DEF ConstructorFor, NewConstructor, ScansOK, ScanOK

\* add_packet resumes the scan where it stopped and ends at a hole, or fills
\* the constructor.
LEMMA UpdatedScan ==
  ASSUME TypeOK, ScansOK, NEW f \in Fragment, InBounds(f), NEW c \in Updated(f)
  PROVE  /\ ~ IsComplete(c) => ScanOK(c)
         /\ IsComplete(c) =>
              \A j \in 0 .. c.fragments_len - 1 : c.fragments[j] # Empty
<1> DEFINE old == ConstructorFor(f)
<1>1. ScanOK(old) /\ old \in Constructor
  BY ConstructorForScan, ConstructorForType
<1>2. PICK n \in PrefixEnds(SlotsWith(f), old.completed_up_to, old.fragments_len) :
        c = [fragments_len   |-> old.fragments_len,
             fragments       |-> SlotsWith(f),
             completed_up_to |-> n]
  BY DEF Updated
<1>3. /\ n \in old.completed_up_to .. old.fragments_len
      /\ \A j \in old.completed_up_to .. n - 1 : SlotsWith(f)[j] # Empty
      /\ n < old.fragments_len => SlotsWith(f)[n] = Empty
  BY <1>2 DEF PrefixEnds
<1>4. old.fragments_len \in Nat /\ old.completed_up_to \in Nat
  BY <1>1, ConstructorFacts, TotalPositive
<1>5. \A j \in 0 .. old.completed_up_to - 1 : c.fragments[j] # Empty
  <2> TAKE j \in 0 .. old.completed_up_to - 1
  <2>1. old.fragments[j] # Empty /\ j \in 0 .. old.fragments_len - 1
    BY <1>1, <1>4 DEF ScanOK
  <2>2. c.fragments_len = old.fragments_len
    BY <1>2
  <2>3. f # Empty
    BY FragmentFacts
  <2> QED
    BY <2>1, <2>2, <2>3, UpdatedFacts
<1>6. \A j \in 0 .. n - 1 : c.fragments[j] # Empty
  BY <1>2, <1>3, <1>4, <1>5
<1> HIDE DEF old
<1>7. CASE n = old.fragments_len
  BY <1>2, <1>6, <1>7 DEF IsComplete
<1>8. CASE n < old.fragments_len
  BY <1>2, <1>3, <1>4, <1>6, <1>8 DEF IsComplete, ScanOK
<1> QED
  BY <1>3, <1>4, <1>7, <1>8

LEMMA ScansNext ==
  ASSUME TypeOK, ScansOK, [Next]_vars
  PROVE  ScansOK'
<1>1. ASSUME NEW f \in Fragment, RejectFragment(f)
      PROVE  ScansOK'
  BY <1>1 DEF RejectFragment, Without, ScansOK
<1>2. ASSUME NEW f \in Fragment, StoreFragment(f)
      PROVE  ScansOK'
  <2>1. PICK c \in Updated(f) :
          /\ ~ IsComplete(c)
          /\ fragment_constructors' = With(SessionOf[f.msg], c)
    BY <1>2 DEF StoreFragment
  <2>2. ScanOK(c)
    BY <1>2, <2>1, UpdatedScan DEF StoreFragment
  <2> HIDE DEF ScanOK
  <2> QED
    BY <2>1, <2>2 DEF With, ScansOK
<1>3. ASSUME NEW f \in Fragment, CompleteMessage(f)
      PROVE  ScansOK'
  BY <1>3 DEF CompleteMessage, Without, ScansOK
<1>4. CASE UNCHANGED vars
  BY <1>4 DEF vars, ScansOK
<1> QED
  BY <1>1, <1>2, <1>3, <1>4 DEF Next

LEMMA ScansInvariant == Spec => [](TypeOK /\ ScansOK)
<1>1. Init => ScansOK
  BY DEF Init, ScansOK
<1>2. TypeOK /\ ScansOK /\ [Next]_vars => ScansOK'
  BY ScansNext
<1> QED
  BY <1>1, <1>2, TypeCorrect, PTL DEF Spec

\* No message is left complete but unprocessed in its constructor.
THEOREM NoFull == Spec => []NoFullConstructorOpen
<1>1. TypeOK /\ ScansOK => NoFullConstructorOpen
  <2> SUFFICES ASSUME TypeOK, ScansOK,
                      NEW s \in DOMAIN fragment_constructors
               PROVE  \E i \in DOMAIN fragment_constructors[s].fragments :
                        fragment_constructors[s].fragments[i] = Empty
    BY DEF NoFullConstructorOpen
  <2>1. fragment_constructors[s] \in Constructor
    BY DEF TypeOK
  <2>2. DOMAIN fragment_constructors[s].fragments
          = 0 .. fragment_constructors[s].fragments_len - 1
    BY <2>1, ConstructorFacts
  <2> QED
    BY <2>2 DEF ScansOK, ScanOK
<1> QED
  BY <1>1, ScansInvariant, PTL

-----------------------------------------------------------------------------
(* Sessions with one message *)

Held(f) ==
  /\ SessionOf[f.msg] \in DOMAIN fragment_constructors
  /\ fragment_constructors[SessionOf[f.msg]].fragments[f.index] = f

\* A constructor of the session of m has the length of m and holds nothing
\* but fragments of m, each in its slot.
BelongsTo(m, c) ==
  /\ c.fragments_len = TotalFragments(m)
  /\ DOMAIN c.fragments = 0 .. TotalFragments(m) - 1
  /\ \A i \in 0 .. TotalFragments(m) - 1 :
       c.fragments[i] \in {Empty, [msg |-> m, index |-> i]}

Belongs ==
  \A m \in Message :
    Alone(m) /\ SessionOf[m] \in DOMAIN fragment_constructors =>
      BelongsTo(m, fragment_constructors[SessionOf[m]])

\* Strengthens HandedAtMostArrived: a copy that is held has not been used up.
CopiesCounted ==
  \A f \in Fragment :
    Alone(f.msg) =>
      handed[SessionOf[f.msg]] + (IF Held(f) THEN 1 ELSE 0) <= arrived[f]

ArrivedIsAcked ==
  \A f \in Fragment : Alone(f.msg) /\ arrived[f] > 0 => f \in acked

SessionInv ==
  /\ TypeOK
  /\ ScansOK
  /\ Belongs
  /\ WholeWhenAlone
  /\ AckedIsKept
  /\ CopiesCounted
  /\ ArrivedIsAcked

\* What add_packet makes of a constructor of the message's own session.
LEMMA UpdatedBelongs ==
  ASSUME TypeOK, ScansOK, Belongs,
         NEW f \in Fragment, Alone(f.msg)
  PROVE  /\ InBounds(f)
         /\ BelongsTo(f.msg, ConstructorFor(f))
         /\ \A c \in Updated(f) :
              /\ c \in Constructor
              /\ BelongsTo(f.msg, c)
              /\ ~ IsComplete(c) => ScanOK(c)
              /\ IsComplete(c) => c.fragments = PartsOf(f.msg)
<1> DEFINE m == f.msg
<1>1. m \in Message /\ f.index \in 0 .. TotalFragments(m) - 1
      /\ f = [msg |-> m, index |-> f.index]
  BY FragmentFacts
<1>2. BelongsTo(m, ConstructorFor(f))
  BY <1>1, TotalPositive DEF Belongs, ConstructorFor, NewConstructor, BelongsTo
<1>3. InBounds(f)
  BY <1>1, <1>2, TotalPositive DEF InBounds, BelongsTo
<1>4. ASSUME NEW c \in Updated(f)
      PROVE  /\ c \in Constructor
             /\ BelongsTo(m, c)
             /\ ~ IsComplete(c) => ScanOK(c)
             /\ IsComplete(c) => c.fragments = PartsOf(m)
  <2>1. /\ c \in Constructor
        /\ c.fragments_len = TotalFragments(m)
        /\ DOMAIN c.fragments = 0 .. TotalFragments(m) - 1
        /\ c.fragments[f.index] = f
        /\ \A i \in 0 .. TotalFragments(m) - 1 :
             i # f.index => c.fragments[i] = ConstructorFor(f).fragments[i]
    BY <1>2, <1>3, UpdatedFacts DEF BelongsTo
  <2>2. BelongsTo(m, c)
    BY <1>1, <1>2, <2>1 DEF BelongsTo
  <2>3. ~ IsComplete(c) => ScanOK(c)
    BY <1>3, UpdatedScan
  <2>4. ASSUME IsComplete(c)
        PROVE  c.fragments = PartsOf(m)
    <3>1. \A j \in 0 .. TotalFragments(m) - 1 : c.fragments[j] # Empty
      BY <1>3, <2>1, <2>4, UpdatedScan
    <3>2. \A j \in 0 .. TotalFragments(m) - 1 :
            c.fragments[j] = [msg |-> m, index |-> j]
      BY <2>2, <3>1 DEF BelongsTo
    <3>3. PICK n : c.fragments \in [0 .. n - 1 -> Fragment \cup {Empty}]
      BY <2>1, ConstructorFacts
    <3> QED
      BY <2>1, <3>2, <3>3 DEF PartsOf
  <2> QED
    BY <2>1, <2>2, <2>3, <2>4
<1> QED
  BY <1>2, <1>3, <1>4

\* Two fragments of one session are of one message, and differ in the index.
LEMMA SameSession ==
  ASSUME NEW f \in Fragment, NEW g \in Fragment,
         Alone(f.msg) \/ Alone(g.msg), SessionOf[f.msg] = SessionOf[g.msg]
  PROVE  /\ f.msg = g.msg
         /\ f # g => f.index # g.index
BY FragmentFacts DEF Alone

LEMMA SessionInvInit == ASSUME Init PROVE SessionInv
<1>1. TypeOK
  BY DEF Init, TypeOK
<1> QED
  BY <1>1, FragmentFacts
     DEF Init, SessionInv, ScansOK, Belongs, WholeWhenAlone, AckedIsKept,
         CopiesCounted, ArrivedIsAcked, Held

LEMMA SessionInvStore ==
  ASSUME SessionInv, TypeOK', ScansOK',
         NEW f \in Fragment, Alone(f.msg), StoreFragment(f)
  PROVE  SessionInv'
<1> DEFINE s == SessionOf[f.msg]
<1>1. PICK c \in Updated(f) :
        /\ ~ IsComplete(c)
        /\ fragment_constructors' = With(s, c)
  BY DEF StoreFragment
<1>2. /\ InBounds(f)
      /\ c \in Constructor
      /\ BelongsTo(f.msg, c)
  BY UpdatedBelongs DEF SessionInv
<1>3. /\ c.fragments[f.index] = f
      /\ \A i \in 0 .. TotalFragments(f.msg) - 1 :
           i # f.index => c.fragments[i] = ConstructorFor(f).fragments[i]
  BY <1>2, UpdatedFacts DEF SessionInv, BelongsTo
<1>4. /\ arrived' = [arrived EXCEPT ![f] = @ + 1]
      /\ acked' = acked \cup {f}
      /\ UNCHANGED <<buffers, handed>>
  BY DEF StoreFragment, Arrive
<1>5. /\ s \in DOMAIN fragment_constructors'
      /\ fragment_constructors'[s] = c
      /\ \A k : k # s =>
           /\ k \in DOMAIN fragment_constructors'
                <=> k \in DOMAIN fragment_constructors
           /\ k \in DOMAIN fragment_constructors =>
                fragment_constructors'[k] = fragment_constructors[k]
  BY <1>1 DEF With
<1>6. \A g \in Fragment : g # f => (Held(g)' <=> Held(g))
  <2> SUFFICES ASSUME NEW g \in Fragment, g # f
               PROVE  Held(g)' <=> Held(g)
    OBVIOUS
  <2>1. CASE SessionOf[g.msg] = s
    <3>1. g.msg = f.msg /\ g.index # f.index
          /\ g.index \in 0 .. TotalFragments(f.msg) - 1
      BY <2>1, SameSession, FragmentFacts
    <3>2. Held(g)' <=> ConstructorFor(f).fragments[g.index] = g
      BY <1>3, <1>5, <2>1, <3>1 DEF Held
    <3>3. CASE s \in DOMAIN fragment_constructors
      BY <2>1, <3>2, <3>3 DEF Held, ConstructorFor
    <3>4. CASE s \notin DOMAIN fragment_constructors
      <4>1. ConstructorFor(f).fragments[g.index] = Empty
        BY <3>1, <3>4 DEF ConstructorFor, NewConstructor
      <4> QED
        BY <2>1, <3>2, <3>4, <4>1, FragmentFacts DEF Held
    <3> QED
      BY <3>3, <3>4
  <2>2. CASE SessionOf[g.msg] # s
    BY <1>5, <2>2 DEF Held
  <2> QED
    BY <2>1, <2>2
<1>7. Held(f)'
  BY <1>3, <1>5 DEF Held
<1>8. Belongs'
  <2> SUFFICES ASSUME NEW m \in Message,
                      Alone(m),
                      SessionOf[m] \in DOMAIN fragment_constructors'
               PROVE  BelongsTo(m, fragment_constructors'[SessionOf[m]])
    BY DEF Belongs, BelongsTo
  <2>1. CASE SessionOf[m] = s
    BY <1>2, <1>5, <2>1, FragmentFacts DEF Alone
  <2>2. CASE SessionOf[m] # s
    BY <1>5, <2>2 DEF SessionInv, Belongs
  <2> QED
    BY <2>1, <2>2
<1>9. WholeWhenAlone'
  BY <1>4 DEF SessionInv, WholeWhenAlone
<1>10. AckedIsKept'
  <2> SUFFICES ASSUME NEW g \in acked', Alone(g.msg)
               PROVE  HandedOver(g.msg)' \/ Held(g)'
    BY DEF AckedIsKept, Held
  <2>1. CASE g = f
    BY <1>7, <2>1
  <2>2. CASE g # f
    BY <1>4, <1>6, <2>2 DEF SessionInv, AckedIsKept, Held, HandedOver, TypeOK
  <2> QED
    BY <2>1, <2>2
<1>11. CopiesCounted'
  <2> SUFFICES ASSUME NEW g \in Fragment, Alone(g.msg)
               PROVE  handed'[SessionOf[g.msg]]
                        + (IF Held(g)' THEN 1 ELSE 0) <= arrived'[g]
    BY DEF CopiesCounted
  <2>1. /\ handed[SessionOf[g.msg]] \in Nat /\ arrived[g] \in Nat
        /\ handed[SessionOf[g.msg]] + (IF Held(g) THEN 1 ELSE 0) <= arrived[g]
    BY FragmentFacts DEF SessionInv, TypeOK, CopiesCounted
  <2>2. CASE g = f
    BY <1>4, <2>1, <2>2 DEF SessionInv, TypeOK
  <2>3. CASE g # f
    BY <1>4, <1>6, <2>1, <2>3 DEF SessionInv, TypeOK
  <2> QED
    BY <2>2, <2>3
<1>12. ArrivedIsAcked'
  BY <1>4 DEF SessionInv, TypeOK, ArrivedIsAcked
<1> QED
  BY <1>8, <1>9, <1>10, <1>11, <1>12 DEF SessionInv

LEMMA SessionInvComplete ==
  ASSUME SessionInv, TypeOK', ScansOK',
         NEW f \in Fragment, Alone(f.msg), CompleteMessage(f)
  PROVE  SessionInv'
<1> DEFINE s == SessionOf[f.msg]
<1>1. PICK c \in Updated(f) :
        /\ IsComplete(c)
        /\ buffers' = buffers \cup {Buffer(s, c)}
  BY DEF CompleteMessage
<1>2. /\ InBounds(f)
      /\ c.fragments = PartsOf(f.msg)
      /\ BelongsTo(f.msg, ConstructorFor(f))
  BY <1>1, UpdatedBelongs DEF SessionInv
<1>3. /\ arrived' = [arrived EXCEPT ![f] = @ + 1]
      /\ acked' = acked \cup {f}
      /\ handed' = [handed EXCEPT ![s] = @ + 1]
      /\ s \in Session /\ f.msg \in Message
  BY FragmentFacts DEF CompleteMessage, Arrive
<1>4. /\ s \notin DOMAIN fragment_constructors'
      /\ \A k : k # s =>
           /\ k \in DOMAIN fragment_constructors'
                <=> k \in DOMAIN fragment_constructors
           /\ k \in DOMAIN fragment_constructors =>
                fragment_constructors'[k] = fragment_constructors[k]
  BY DEF CompleteMessage, Without
<1>5. \A g \in Fragment :
        SessionOf[g.msg] # s => (Held(g)' <=> Held(g))
  BY <1>4 DEF Held
\* The other fragments of the message were all held.
<1>6. \A g \in Fragment :
        SessionOf[g.msg] = s =>
          /\ ~ Held(g)'
          /\ g # f => Held(g)
  <2> SUFFICES ASSUME NEW g \in Fragment, SessionOf[g.msg] = s, g # f
               PROVE  Held(g)
    BY <1>4 DEF Held
  <2>1. /\ g.msg = f.msg /\ g.index # f.index
        /\ g.index \in 0 .. TotalFragments(f.msg) - 1
        /\ g = [msg |-> f.msg, index |-> g.index] /\ g # Empty
    BY SameSession, FragmentFacts
  <2>2. c.fragments[g.index] = g
    BY <1>2, <2>1 DEF PartsOf
  <2>3. ConstructorFor(f).fragments[g.index] = g
    BY <1>1, <1>2, <2>1, <2>2, UpdatedFacts DEF SessionInv, BelongsTo
  <2>4. CASE s \in DOMAIN fragment_constructors
    BY <2>3, <2>4 DEF Held, ConstructorFor
  <2>5. CASE s \notin DOMAIN fragment_constructors
    BY <2>1, <2>3, <2>5 DEF ConstructorFor, NewConstructor
  <2> QED
    BY <2>4, <2>5
<1>7. Belongs'
  BY <1>4 DEF SessionInv, Belongs
<1>8. WholeWhenAlone'
  <2> SUFFICES ASSUME NEW b \in buffers', NEW m \in Message, Alone(m),
                      SessionOf[m] = b.session
               PROVE  b.parts = PartsOf(m)
    BY DEF WholeWhenAlone
  <2>1. CASE b \in buffers
    BY <2>1 DEF SessionInv, WholeWhenAlone
  <2>2. CASE b = Buffer(s, c)
    <3>1. b.session = s /\ b.parts = PartsOf(f.msg)
      BY <1>2, <2>2 DEF Buffer
    <3>2. m = f.msg
      BY <1>3, <3>1 DEF Alone
    <3> QED
      BY <3>1, <3>2
  <2> QED
    BY <1>1, <2>1, <2>2
<1>9. AckedIsKept'
  <2> SUFFICES ASSUME NEW g \in acked', Alone(g.msg)
               PROVE  HandedOver(g.msg)' \/ Held(g)'
    BY DEF AckedIsKept, Held
  <2>1. g \in Fragment
    BY <1>3 DEF SessionInv, TypeOK
  <2>2. CASE SessionOf[g.msg] = s
    <3>1. Buffer(s, c).parts = PartsOf(g.msg)
      BY <1>2, <2>1, <2>2, SameSession DEF Buffer
    <3> QED
      BY <1>1, <3>1 DEF HandedOver
  <2>3. CASE SessionOf[g.msg] # s
    BY <1>1, <1>3, <1>5, <2>1, <2>3
       DEF SessionInv, AckedIsKept, Held, HandedOver
  <2> QED
    BY <2>2, <2>3
<1>10. CopiesCounted'
  <2> SUFFICES ASSUME NEW g \in Fragment, Alone(g.msg)
               PROVE  handed'[SessionOf[g.msg]]
                        + (IF Held(g)' THEN 1 ELSE 0) <= arrived'[g]
    BY DEF CopiesCounted
  <2>1. /\ handed[SessionOf[g.msg]] \in Nat /\ arrived[g] \in Nat
        /\ handed[SessionOf[g.msg]] + (IF Held(g) THEN 1 ELSE 0) <= arrived[g]
    BY FragmentFacts DEF SessionInv, TypeOK, CopiesCounted
  <2>2. CASE g = f
    BY <1>3, <1>6, <2>1, <2>2 DEF SessionInv, TypeOK
  <2>3. CASE g # f /\ SessionOf[g.msg] = s
    BY <1>3, <1>6, <2>1, <2>3 DEF SessionInv, TypeOK
  <2>4. CASE SessionOf[g.msg] # s
    BY <1>3, <1>5, <2>1, <2>4 DEF SessionInv, TypeOK
  <2> QED
    BY <2>2, <2>3, <2>4
<1>11. ArrivedIsAcked'
  BY <1>3 DEF SessionInv, TypeOK, ArrivedIsAcked
<1> QED
  BY <1>7, <1>8, <1>9, <1>10, <1>11 DEF SessionInv

\* A fragment of a shared session: the other sessions are not touched.
LEMMA SessionInvShared ==
  ASSUME SessionInv, TypeOK', ScansOK', NEW f \in Fragment, ~ Alone(f.msg),
         RejectFragment(f) \/ StoreFragment(f) \/ CompleteMessage(f)
  PROVE  SessionInv'
<1> DEFINE s == SessionOf[f.msg]
<1>1. \A m \in Message : Alone(m) => SessionOf[m] # s
  BY FragmentFacts DEF Alone
<1>2. \A k : k # s =>
        /\ k \in DOMAIN fragment_constructors'
             <=> k \in DOMAIN fragment_constructors
        /\ k \in DOMAIN fragment_constructors =>
             fragment_constructors'[k] = fragment_constructors[k]
  BY DEF RejectFragment, StoreFragment, CompleteMessage, With, Without
<1>3. /\ arrived' = [arrived EXCEPT ![f] = @ + 1]
      /\ acked \subseteq acked' /\ acked' \subseteq acked \cup {f}
      /\ handed' = handed \/ handed' = [handed EXCEPT ![s] = @ + 1]
  BY DEF RejectFragment, StoreFragment, CompleteMessage, Arrive
<1>4. /\ buffers \subseteq buffers'
      /\ \A b \in buffers' \ buffers : b.session = s
  BY DEF RejectFragment, StoreFragment, CompleteMessage, Buffer
<1>5. \A g \in Fragment : Alone(g.msg) =>
        /\ g # f /\ g.msg \in Message
        /\ Held(g)' <=> Held(g)
        /\ HandedOver(g.msg) => HandedOver(g.msg)'
        /\ arrived'[g] = arrived[g]
        /\ handed'[SessionOf[g.msg]] = handed[SessionOf[g.msg]]
  <2> SUFFICES ASSUME NEW g \in Fragment, Alone(g.msg)
               PROVE  /\ g # f /\ g.msg \in Message
                      /\ Held(g)' <=> Held(g)
                      /\ HandedOver(g.msg) => HandedOver(g.msg)'
                      /\ arrived'[g] = arrived[g]
                      /\ handed'[SessionOf[g.msg]] = handed[SessionOf[g.msg]]
    OBVIOUS
  <2>1. g # f /\ g.msg \in Message /\ SessionOf[g.msg] # s
    BY <1>1, FragmentFacts
  <2>2. Held(g)' <=> Held(g)
    BY <1>2, <2>1 DEF Held
  <2>3. HandedOver(g.msg) => HandedOver(g.msg)'
    BY <1>4 DEF HandedOver
  <2> QED
    BY <1>3, <2>1, <2>2, <2>3, FragmentFacts DEF SessionInv, TypeOK
<1>6. Belongs'
  BY <1>1, <1>2 DEF SessionInv, Belongs
<1>7. WholeWhenAlone'
  BY <1>1, <1>4 DEF SessionInv, WholeWhenAlone
<1>8. AckedIsKept'
  <2> SUFFICES ASSUME NEW g \in acked', Alone(g.msg)
               PROVE  HandedOver(g.msg)' \/ Held(g)'
    BY DEF AckedIsKept, Held
  <2>1. g \in acked /\ g \in Fragment
    BY <1>3 DEF SessionInv, TypeOK
  <2> QED
    BY <1>5, <2>1 DEF SessionInv, AckedIsKept, Held
<1>9. CopiesCounted'
  BY <1>5 DEF SessionInv, CopiesCounted
<1>10. ArrivedIsAcked'
  BY <1>3, <1>5 DEF SessionInv, ArrivedIsAcked
<1> QED
  BY <1>6, <1>7, <1>8, <1>9, <1>10 DEF SessionInv

LEMMA SessionInvNext ==
  ASSUME SessionInv, [Next]_vars
  PROVE  SessionInv'
<1>1. TypeOK' /\ ScansOK'
  BY TypeNext, ScansNext DEF SessionInv
<1>2. ASSUME NEW f \in Fragment, Alone(f.msg)
      PROVE  ~ RejectFragment(f)
  BY <1>2, UpdatedBelongs DEF RejectFragment, SessionInv
<1>3. CASE UNCHANGED vars
  BY <1>3 DEF vars, SessionInv, TypeOK, ScansOK, Belongs, WholeWhenAlone,
              AckedIsKept, HandedOver, CopiesCounted, Held, ArrivedIsAcked
<1> QED
  BY <1>1, <1>2, <1>3, SessionInvShared, SessionInvStore, SessionInvComplete
     DEF Next

LEMMA SessionInvariant == Spec => []SessionInv
BY SessionInvInit, SessionInvNext, PTL DEF Spec

\* Whatever the order, the losses and the copies, what a session of one
\* message gives to the application is that message, complete and in order.
THEOREM Whole == Spec => []WholeWhenAlone
<1>1. SessionInv => WholeWhenAlone
  BY DEF SessionInv
<1> QED
  BY <1>1, SessionInvariant, PTL

\* A fragment the sender was told to forget is held or was processed.
THEOREM Kept == Spec => []AckedIsKept
<1>1. SessionInv => AckedIsKept
  BY DEF SessionInv
<1> QED
  BY <1>1, SessionInvariant, PTL

\* A message is not processed more often than its rarest fragment arrived.
THEOREM HandedAtMost == Spec => []HandedAtMostArrived
<1>1. SessionInv => HandedAtMostArrived
  <2> SUFFICES ASSUME SessionInv, NEW f \in Fragment, Alone(f.msg)
               PROVE  handed[SessionOf[f.msg]] <= arrived[f]
    BY DEF HandedAtMostArrived
  <2> QED
    BY FragmentFacts DEF SessionInv, CopiesCounted, TypeOK
<1> QED
  BY <1>1, SessionInvariant, PTL

\* Once every fragment has arrived the message has been processed.
THEOREM HandedOnce == Spec => []HandedOnceAllArrived
<1>1. SessionInv => HandedOnceAllArrived
  <2> SUFFICES ASSUME SessionInv, NEW m \in Message, Alone(m),
                      \A f \in FragmentsOf(m) : arrived[f] > 0,
                      ~ HandedOver(m)
               PROVE  FALSE
    BY DEF HandedOnceAllArrived
  <2> DEFINE own(i) == [msg |-> m, index |-> i]
  <2>1. \A i \in 0 .. TotalFragments(m) - 1 :
          own(i) \in FragmentsOf(m) /\ own(i) \in Fragment
    BY DEF FragmentsOf, Fragment
  <2>2. \A i \in 0 .. TotalFragments(m) - 1 :
          /\ SessionOf[m] \in DOMAIN fragment_constructors
          /\ fragment_constructors[SessionOf[m]].fragments[i] = own(i)
    BY <2>1 DEF SessionInv, ArrivedIsAcked, AckedIsKept
  <2>3. 0 \in 0 .. TotalFragments(m) - 1
    BY TotalPositive
  <2>4. /\ ScanOK(fragment_constructors[SessionOf[m]])
        /\ fragment_constructors[SessionOf[m]].fragments_len = TotalFragments(m)
    BY <2>2, <2>3 DEF SessionInv, ScansOK, Belongs, BelongsTo
  <2>5. PICK i \in 0 .. TotalFragments(m) - 1 :
          fragment_constructors[SessionOf[m]].fragments[i] = Empty
    BY <2>4 DEF ScanOK
  <2> QED
    BY <2>1, <2>2, <2>5, FragmentFacts
<1> QED
  BY <1>1, SessionInvariant, PTL

-----------------------------------------------------------------------------
(* Sessions that several messages share *)

\* A copy of f came in session s, for slot i.
Came(f, s, i) ==
  /\ f \in Fragment /\ arrived[f] > 0
  /\ SessionOf[f.msg] = s /\ f.index = i

Slots(c) == 0 .. c.fragments_len - 1

\* A constructor of session s with the length of a message that arrived, and
\* nothing in it but what arrived.
MadeOf(s, c) ==
  /\ \E f \in Fragment : /\ Came(f, s, f.index)
                          /\ c.fragments_len = TotalFragments(f.msg)
  /\ \A i \in Slots(c) : c.fragments[i] # Empty => Came(c.fragments[i], s, i)

\* Whatever is kept or was handed over arrived, in that session and for that
\* place.
Originates ==
  /\ \A f \in acked : arrived[f] > 0
  /\ \A s \in DOMAIN fragment_constructors : MadeOf(s, fragment_constructors[s])
  /\ \A b \in buffers :
       /\ b.session \in Session /\ handed[b.session] > 0
       /\ 0 \in DOMAIN b.parts
       /\ \A i \in DOMAIN b.parts : Came(b.parts[i], b.session, i)
       /\ \E f \in Fragment : /\ Came(f, b.session, f.index)
                               /\ DOMAIN b.parts = 0 .. TotalFragments(f.msg) - 1

\* A step that takes f: what it leaves alone.
LEMMA StepFacts ==
  ASSUME TypeOK, NEW f \in Fragment,
         RejectFragment(f) \/ StoreFragment(f) \/ CompleteMessage(f)
  PROVE  /\ arrived' = [arrived EXCEPT ![f] = arrived[f] + 1]
         /\ arrived'[f] = arrived[f] + 1 /\ arrived[f] \in Nat
         /\ \A g \in Fragment : /\ arrived[g] \in Nat /\ arrived'[g] \in Nat
                                /\ arrived[g] <= arrived'[g]
                                /\ g # f => arrived'[g] = arrived[g]
         /\ acked' \subseteq acked \cup {f}
         /\ \A s \in Session : s # SessionOf[f.msg] =>
              /\ s \in DOMAIN fragment_constructors'
                   <=> s \in DOMAIN fragment_constructors
              /\ s \in DOMAIN fragment_constructors =>
                   fragment_constructors'[s] = fragment_constructors[s]
              /\ handed'[s] = handed[s]
         /\ \A s \in Session : handed[s] \in Nat /\ handed[s] <= handed'[s]
<1>1. /\ arrived' = [arrived EXCEPT ![f] = arrived[f] + 1]
      /\ arrived \in [Fragment -> Nat] /\ handed \in [Session -> Nat]
  BY DEF RejectFragment, StoreFragment, CompleteMessage, Arrive, TypeOK
<1>2. SessionOf[f.msg] \in Session
  BY FragmentFacts
<1>3. \A s \in Session :
        /\ handed[s] \in Nat /\ handed[s] <= handed'[s]
        /\ s # SessionOf[f.msg] => handed'[s] = handed[s]
  <2>1. CASE handed' = handed
    BY <1>1, <2>1
  <2>2. CASE handed' = [handed EXCEPT ![SessionOf[f.msg]] = @ + 1]
    BY <1>1, <1>2, <2>2
  <2> QED
    BY <2>1, <2>2 DEF RejectFragment, StoreFragment, CompleteMessage
<1>4. \/ fragment_constructors' = Without(SessionOf[f.msg])
      \/ \E c : fragment_constructors' = With(SessionOf[f.msg], c)
  BY DEF RejectFragment, StoreFragment, CompleteMessage
<1>5. \A s \in Session : s # SessionOf[f.msg] =>
        /\ s \in DOMAIN fragment_constructors'
             <=> s \in DOMAIN fragment_constructors
        /\ s \in DOMAIN fragment_constructors =>
             fragment_constructors'[s] = fragment_constructors[s]
  BY <1>4 DEF With, Without
<1>6. acked' \subseteq acked \cup {f}
  BY DEF RejectFragment, StoreFragment, CompleteMessage
<1>7. /\ arrived'[f] = arrived[f] + 1 /\ arrived[f] \in Nat
      /\ \A g \in Fragment : /\ arrived[g] \in Nat /\ arrived'[g] \in Nat
                             /\ arrived[g] <= arrived'[g]
                             /\ g # f => arrived'[g] = arrived[g]
  BY <1>1
<1> QED
  BY <1>1, <1>3, <1>5, <1>6, <1>7

LEMMA CameStays ==
  ASSUME TypeOK, [Next]_vars, NEW f, NEW s, NEW i, Came(f, s, i)
  PROVE  Came(f, s, i)'
<1>1. ASSUME NEW g \in Fragment,
             RejectFragment(g) \/ StoreFragment(g) \/ CompleteMessage(g)
      PROVE  arrived'[f] > 0
  BY <1>1, StepFacts DEF Came
<1>2. CASE UNCHANGED vars
  BY <1>2 DEF vars, Came
<1> QED
  BY <1>1, <1>2 DEF Next, Came

\* What storing f makes of the constructor of its session.
LEMMA UpdatedOrigin ==
  ASSUME TypeOK, Originates, NEW f \in Fragment,
         StoreFragment(f) \/ CompleteMessage(f), NEW c \in Updated(f)
  PROVE  /\ MadeOf(SessionOf[f.msg], c)'
         /\ DOMAIN c.fragments = Slots(c) /\ 0 \in Slots(c)
         /\ c \in Constructor
<1> DEFINE s == SessionOf[f.msg]
<1>0. InBounds(f)
  BY DEF StoreFragment, CompleteMessage
<1>1. /\ c \in Constructor
      /\ c.fragments_len = ConstructorFor(f).fragments_len
      /\ DOMAIN c.fragments = Slots(c)
      /\ f.index \in Slots(c)
      /\ c.fragments[f.index] = f
      /\ \A i \in Slots(c) :
           i # f.index => c.fragments[i] = ConstructorFor(f).fragments[i]
  BY <1>0, UpdatedFacts DEF Slots
<1>2. Came(f, s, f.index)' /\ s \in Session
  BY StepFacts, FragmentFacts DEF Came
<1>3. \A g, i : Came(g, s, i) => Came(g, s, i)'
  BY CameStays DEF Next
<1>4. 0 \in Slots(c)
  BY <1>1, ConstructorFacts, TotalPositive DEF Slots
<1>5. CASE s \in DOMAIN fragment_constructors
  <2>1. ConstructorFor(f) = fragment_constructors[s]
    BY <1>5 DEF ConstructorFor
  <2>2. Slots(c) = Slots(fragment_constructors[s])
    BY <1>1, <2>1 DEF Slots
  <2>3. \A i \in Slots(c) : c.fragments[i] # Empty =>
          Came(c.fragments[i], s, i)'
    <3> TAKE i \in Slots(c)
    <3> HAVE c.fragments[i] # Empty
    <3>1. CASE i = f.index
      BY <1>1, <1>2, <3>1
    <3>2. CASE i # f.index
      <4> DEFINE g == fragment_constructors[s].fragments[i]
      <4>1. c.fragments[i] = g
        BY <1>1, <2>1, <3>2
      <4>2. Came(g, s, i)
        BY <1>5, <2>2, <4>1 DEF Originates, MadeOf
      <4> HIDE DEF g
      <4>3. arrived'[g] > 0 /\ g \in Fragment /\ SessionOf[g.msg] = s
              /\ g.index = i
        BY <1>3, <4>2 DEF Came
      <4> QED
        BY <4>1, <4>3 DEF Came
    <3> QED
      BY <3>1, <3>2
  <2>4. PICK g \in Fragment :
          /\ Came(g, s, g.index)
          /\ fragment_constructors[s].fragments_len = TotalFragments(g.msg)
    BY <1>5 DEF Originates, MadeOf
  <2>5. Came(g, s, g.index)'
    BY <1>3, <2>4
  <2> QED
    BY <1>1, <1>4, <2>1, <2>3, <2>4, <2>5 DEF MadeOf
<1>6. CASE s \notin DOMAIN fragment_constructors
  <2>1. ConstructorFor(f) = NewConstructor(TotalFragments(f.msg))
    BY <1>6 DEF ConstructorFor
  <2>2. c.fragments_len = TotalFragments(f.msg)
    BY <1>1, <2>1 DEF NewConstructor
  <2>3. \A i \in Slots(c) : i # f.index => c.fragments[i] = Empty
    BY <1>1, <2>1, <2>2 DEF NewConstructor, Slots
  <2>4. \A i \in Slots(c) : c.fragments[i] # Empty =>
          Came(c.fragments[i], s, i)'
    <3> TAKE i \in Slots(c)
    <3> HAVE c.fragments[i] # Empty
    <3>1. i = f.index /\ c.fragments[i] = f
      BY <1>1, <2>3
    <3> QED
      BY <1>2, <3>1 DEF Came
  <2> QED
    BY <1>1, <1>2, <1>4, <2>2, <2>4 DEF MadeOf
<1> QED
  BY <1>5, <1>6

LEMMA OriginatesNext ==
  ASSUME TypeOK, ScansOK, Originates, [Next]_vars
  PROVE  Originates'
<1>0. ASSUME NEW s, NEW c, MadeOf(s, c)
      PROVE  MadeOf(s, c)'
  <2>1. \A g, i : Came(g, s, i) => Came(g, s, i)'
    BY CameStays
  <2> QED
    BY <1>0, <2>1 DEF MadeOf
<1>1. ASSUME NEW f \in Fragment,
             RejectFragment(f) \/ StoreFragment(f) \/ CompleteMessage(f)
      PROVE  Originates'
  <2> DEFINE s0 == SessionOf[f.msg]
  <2>0. s0 \in Session /\ DOMAIN fragment_constructors' \subseteq Session
    BY FragmentFacts, TypeNext DEF TypeOK, Next
  <2>1. \A g \in acked' : arrived'[g] > 0
    <3>1. \A g \in acked : g \in Fragment /\ arrived[g] > 0
      BY DEF Originates, TypeOK
    <3> QED
      BY <1>1, <3>1, StepFacts
  <2>2. ASSUME NEW s \in DOMAIN fragment_constructors', NEW c,
               c = fragment_constructors'[s]
        PROVE  MadeOf(s, c)'
    <3>1. CASE s # s0
      <4>1. s \in DOMAIN fragment_constructors /\ fragment_constructors[s] = c
        BY <1>1, <2>0, <2>2, <3>1, StepFacts
      <4>2. MadeOf(s, c)
        BY <4>1 DEF Originates
      <4> QED
        BY <1>0, <4>2
    <3>2. CASE s = s0
      <4>1. StoreFragment(f)
        BY <1>1, <2>2, <3>2 DEF RejectFragment, CompleteMessage, Without
      <4>2. PICK d \in Updated(f) : fragment_constructors' = With(s0, d)
        BY <4>1 DEF StoreFragment
      <4>3. d = c
        BY <2>2, <3>2, <4>2 DEF With
      <4> QED
        BY <3>2, <4>1, <4>3, UpdatedOrigin
    <3> QED
      BY <3>1, <3>2
  <2>4. ASSUME NEW b \in buffers'
        PROVE  /\ b.session \in Session /\ handed'[b.session] > 0
               /\ 0 \in DOMAIN b.parts
               /\ \A i \in DOMAIN b.parts : Came(b.parts[i], b.session, i)'
               /\ \E g \in Fragment :
                    /\ Came(g, b.session, g.index)'
                    /\ DOMAIN b.parts = 0 .. TotalFragments(g.msg) - 1
    <3>1. CASE b \in buffers
      <4>1. /\ b.session \in Session /\ handed[b.session] > 0
            /\ 0 \in DOMAIN b.parts
        BY <3>1 DEF Originates
      <4>2. handed'[b.session] > 0
        BY <1>1, <4>1, StepFacts, TypeNext DEF TypeOK, Next
      <4>3. ASSUME NEW i \in DOMAIN b.parts
            PROVE  Came(b.parts[i], b.session, i)'
        <5>1. Came(b.parts[i], b.session, i)
          BY <3>1 DEF Originates
        <5> QED
          BY <5>1, CameStays
      <4>4. PICK g \in Fragment :
              /\ Came(g, b.session, g.index)
              /\ DOMAIN b.parts = 0 .. TotalFragments(g.msg) - 1
        BY <3>1 DEF Originates
      <4>5. Came(g, b.session, g.index)'
        BY <4>4, CameStays
      <4> QED
        BY <4>1, <4>2, <4>3, <4>4, <4>5
    <3>2. CASE b \notin buffers
      <4>1. CompleteMessage(f)
        BY <1>1, <3>2 DEF RejectFragment, StoreFragment
      <4>2. PICK c \in Updated(f) : IsComplete(c) /\ b = Buffer(s0, c)
        BY <2>4, <3>2, <4>1 DEF CompleteMessage
      <4>3. /\ DOMAIN c.fragments = Slots(c) /\ 0 \in Slots(c)
            /\ \A i \in Slots(c) : c.fragments[i] # Empty =>
                 Came(c.fragments[i], s0, i)'
            /\ \E g \in Fragment :
                 /\ Came(g, s0, g.index)'
                 /\ Slots(c) = 0 .. TotalFragments(g.msg) - 1
        BY <4>1, UpdatedOrigin DEF MadeOf, Slots
      <4>4. \A i \in Slots(c) : c.fragments[i] # Empty
        BY <4>1, <4>2, UpdatedScan DEF CompleteMessage, Slots
      <4>5. b.session = s0 /\ b.parts = c.fragments
        BY <4>2 DEF Buffer
      <4>6. handed'[s0] > 0
        <5>1. handed' = [handed EXCEPT ![s0] = @ + 1] /\ handed[s0] \in Nat
          BY <2>0, <4>1 DEF CompleteMessage, TypeOK
        <5> QED
          BY <2>0, <5>1 DEF TypeOK
      <4> HIDE DEF s0
      <4> QED
        BY <2>0, <4>3, <4>4, <4>5, <4>6
    <3> QED
      BY <3>1, <3>2
  <2> HIDE DEF s0
  <2> QED
    BY <2>1, <2>2, <2>4 DEF Originates
<1>2. CASE UNCHANGED vars
  BY <1>2 DEF vars, Originates, MadeOf, Came, Slots
<1> QED
  BY <1>1, <1>2 DEF Next

\* All that came in session s is of messages of one length.
Alike(s) ==
  \A f, g \in Fragment :
    Came(f, s, f.index) /\ Came(g, s, g.index) =>
      TotalFragments(f.msg) = TotalFragments(g.msg)

\* In such a session nothing that was acknowledged is dropped before a buffer
\* is handed over: its slot is filled, with this fragment or a later one.
AckedIsHeld ==
  \A f \in acked :
    (Alike(SessionOf[f.msg]) /\ handed[SessionOf[f.msg]] = 0) =>
      /\ SessionOf[f.msg] \in DOMAIN fragment_constructors
      /\ fragment_constructors[SessionOf[f.msg]].fragments[f.index] # Empty

LEMMA AlikeBefore ==
  ASSUME TypeOK, [Next]_vars, NEW s, Alike(s)'
  PROVE  Alike(s)
BY CameStays DEF Alike

\* The constructor that f meets has the length of its message.
LEMMA AlikeLength ==
  ASSUME TypeOK, Originates, NEW f \in Fragment, Alike(SessionOf[f.msg])',
         RejectFragment(f) \/ StoreFragment(f) \/ CompleteMessage(f)
  PROVE  ConstructorFor(f).fragments_len = TotalFragments(f.msg) /\ InBounds(f)
<1> DEFINE s == SessionOf[f.msg]
<1>1. Came(f, s, f.index)'
  BY StepFacts DEF Came
<1>2. ConstructorFor(f).fragments_len = TotalFragments(f.msg)
  <2>1. CASE s \in DOMAIN fragment_constructors
    <3>1. PICK g \in Fragment :
            /\ Came(g, s, g.index)
            /\ fragment_constructors[s].fragments_len = TotalFragments(g.msg)
      BY <2>1 DEF Originates, MadeOf
    <3>2. Came(g, s, g.index)'
      BY <3>1, CameStays DEF Next
    <3>3. TotalFragments(g.msg) = TotalFragments(f.msg)
      BY <1>1, <3>2 DEF Alike
    <3> QED
      BY <2>1, <3>1, <3>3 DEF ConstructorFor
  <2>2. CASE s \notin DOMAIN fragment_constructors
    BY <2>2 DEF ConstructorFor, NewConstructor
  <2> QED
    BY <2>1, <2>2
<1>3. InBounds(f)
  BY <1>2, FragmentFacts, TotalPositive DEF InBounds
<1> QED
  BY <1>2, <1>3

LEMMA AckedIsHeldNext ==
  ASSUME TypeOK, Originates, AckedIsHeld, [Next]_vars
  PROVE  AckedIsHeld'
<1>1. ASSUME NEW f \in Fragment,
             RejectFragment(f) \/ StoreFragment(f) \/ CompleteMessage(f),
             NEW g \in acked', NEW s, s = SessionOf[g.msg],
             Alike(s)', handed'[s] = 0
      PROVE  /\ s \in DOMAIN fragment_constructors'
             /\ fragment_constructors'[s].fragments[g.index] # Empty
  <2>1. /\ g \in Fragment /\ s \in Session /\ s = SessionOf[g.msg]
        /\ g \in acked \/ g = f
    BY <1>1, StepFacts, FragmentFacts DEF TypeOK
  <2>2. Alike(s) /\ handed[s] = 0
    <3>1. Alike(s)
      BY <1>1, AlikeBefore DEF Next
    <3>2. handed[s] \in Nat /\ handed[s] <= handed'[s]
      BY <1>1, <2>1, StepFacts
    <3> QED
      BY <1>1, <3>1, <3>2
  <2>3. g \in acked => /\ s \in DOMAIN fragment_constructors
                       /\ fragment_constructors[s].fragments[g.index] # Empty
    BY <2>1, <2>2 DEF AckedIsHeld
  <2>4. CASE s # SessionOf[f.msg]
    <3>1. g \in acked
      BY <2>1, <2>4
    <3> QED
      BY <1>1, <2>1, <2>3, <2>4, <3>1, StepFacts
  <2>5. CASE s = SessionOf[f.msg]
    <3>1. ConstructorFor(f).fragments_len = TotalFragments(f.msg) /\ InBounds(f)
      BY <1>1, <2>5, AlikeLength
    <3>2. ~ RejectFragment(f)
      BY <3>1 DEF RejectFragment
    <3>3. ~ CompleteMessage(f)
      <4>1. ASSUME CompleteMessage(f)
            PROVE  handed'[s] > 0
        <5>1. handed' = [handed EXCEPT ![s] = @ + 1]
          BY <2>5, <4>1 DEF CompleteMessage
        <5> QED
          BY <2>1, <5>1 DEF TypeOK
      <4> QED
        BY <1>1, <4>1
    <3>4. StoreFragment(f)
      BY <1>1, <3>2, <3>3
    <3>5. PICK c \in Updated(f) : fragment_constructors' = With(s, c)
      BY <2>5, <3>4 DEF StoreFragment
    <3>6. s \in DOMAIN fragment_constructors' /\ fragment_constructors'[s] = c
      BY <3>5 DEF With
    <3>7. /\ c.fragments_len = ConstructorFor(f).fragments_len
          /\ c.fragments[f.index] = f
          /\ \A i \in 0 .. c.fragments_len - 1 :
               i # f.index => c.fragments[i] = ConstructorFor(f).fragments[i]
      BY <3>1, UpdatedFacts
    <3>8. CASE g.index = f.index
      BY <3>6, <3>7, <3>8, FragmentFacts
    <3>9. CASE g.index # f.index
      <4>1. g \in acked
        BY <2>1, <3>9
      <4>2. /\ s \in DOMAIN fragment_constructors
            /\ fragment_constructors[s].fragments[g.index] # Empty
        BY <2>3, <4>1
      <4>3. g.index \in 0 .. c.fragments_len - 1
        <5>1. Came(g, s, g.index)' /\ Came(f, s, f.index)'
          <6>1. Came(g, s, g.index)
            BY <2>1, <4>1 DEF Originates, Came
          <6>2. Came(f, s, f.index)'
            BY <1>1, <2>5, StepFacts DEF Came
          <6> QED
            BY <1>1, <6>1, <6>2, CameStays DEF Next
        <5>2. TotalFragments(g.msg) = TotalFragments(f.msg)
          BY <1>1, <2>1, <5>1 DEF Alike
        <5> QED
          BY <2>1, <3>1, <3>7, <5>2, FragmentFacts
      <4>4. ConstructorFor(f).fragments[g.index] # Empty
        BY <2>5, <4>2 DEF ConstructorFor
      <4> QED
        BY <3>6, <3>7, <3>9, <4>3, <4>4
    <3> QED
      BY <3>8, <3>9
  <2> QED
    BY <2>4, <2>5
<1>2. CASE UNCHANGED vars
  BY <1>2 DEF vars, AckedIsHeld, Alike, Came
<1>3. CASE \E f \in Fragment :
             RejectFragment(f) \/ StoreFragment(f) \/ CompleteMessage(f)
  BY <1>1, <1>3 DEF AckedIsHeld
<1> QED
  BY <1>2, <1>3 DEF Next

\* When all fragments of a message were acknowledged in such a session, the
\* application was handed a buffer.
LEMMA AlikeIsHanded ==
  ASSUME TypeOK, ScansOK, Originates, AckedIsHeld, NEW m \in Message,
         Alike(SessionOf[m]),
         \A i \in 0 .. TotalFragments(m) - 1 :
           \E f \in acked : /\ SessionOf[f.msg] = SessionOf[m] /\ f.index = i
                            /\ TotalFragments(f.msg) = TotalFragments(m)
  PROVE  handed[SessionOf[m]] > 0
<1> DEFINE s == SessionOf[m]
<1> SUFFICES ASSUME ~ (handed[s] > 0)
             PROVE  FALSE
  OBVIOUS
<1>1. handed[s] = 0
  BY DEF TypeOK
<1>2. \A i \in 0 .. TotalFragments(m) - 1 :
        /\ s \in DOMAIN fragment_constructors
        /\ fragment_constructors[s].fragments[i] # Empty
  BY <1>1 DEF AckedIsHeld
<1>3. 0 \in 0 .. TotalFragments(m) - 1
  BY TotalPositive
<1>4. PICK f \in acked : /\ SessionOf[f.msg] = s
                         /\ TotalFragments(f.msg) = TotalFragments(m)
  BY <1>3
<1>5. PICK g \in Fragment :
        /\ Came(g, s, g.index)
        /\ fragment_constructors[s].fragments_len = TotalFragments(g.msg)
  BY <1>2, <1>3 DEF Originates, MadeOf
<1>6. Came(f, s, f.index) /\ f \in Fragment
  BY <1>4 DEF Originates, Came, TypeOK
<1>7. fragment_constructors[s].fragments_len = TotalFragments(m)
  BY <1>4, <1>5, <1>6 DEF Alike
<1>8. ScanOK(fragment_constructors[s])
  BY <1>2, <1>3 DEF ScansOK
<1> QED
  BY <1>2, <1>7, <1>8 DEF ScanOK

\* The copies that came of first fragments, by session.
FirstCopies(s) ==
  {x \in Fragment \X Nat : /\ SessionOf[x[1].msg] = s /\ x[1].index = 0
                           /\ 0 < x[2] /\ x[2] <= arrived[x[1]]}

FirstHeld(s) ==
  /\ s \in DOMAIN fragment_constructors
  /\ fragment_constructors[s].fragments[0] # Empty

\* No buffer without a first fragment of its own, whatever messages meet in
\* the session.
FirstCounted ==
  \A s \in Session :
    /\ IsFiniteSet(FirstCopies(s))
    /\ handed[s] + (IF FirstHeld(s) THEN 1 ELSE 0) <= Cardinality(FirstCopies(s))

LEMMA FirstCopiesStep ==
  ASSUME TypeOK, NEW f \in Fragment, NEW s \in Session,
         RejectFragment(f) \/ StoreFragment(f) \/ CompleteMessage(f)
  PROVE  /\ (SessionOf[f.msg] # s \/ f.index # 0) =>
              FirstCopies(s)' = FirstCopies(s)
         /\ (SessionOf[f.msg] = s /\ f.index = 0) =>
              /\ FirstCopies(s)' = FirstCopies(s) \cup {<<f, arrived[f] + 1>>}
              /\ <<f, arrived[f] + 1>> \notin FirstCopies(s)
<1>1. /\ arrived'[f] = arrived[f] + 1 /\ arrived[f] \in Nat
      /\ \A g \in Fragment : /\ arrived[g] \in Nat
                             /\ g # f => arrived'[g] = arrived[g]
  BY StepFacts
<1>2. ASSUME NEW x \in Fragment \X Nat
      PROVE  /\ x[1] # f => (x \in FirstCopies(s)' <=> x \in FirstCopies(s))
             /\ x[1] = f /\ ~ (SessionOf[f.msg] = s /\ f.index = 0) =>
                  x \notin FirstCopies(s)' /\ x \notin FirstCopies(s)
             /\ x[1] = f /\ SessionOf[f.msg] = s /\ f.index = 0 =>
                  /\ x \in FirstCopies(s) <=> (0 < x[2] /\ x[2] <= arrived[f])
                  /\ x \in FirstCopies(s)' <=>
                       (0 < x[2] /\ x[2] <= arrived[f] + 1)
  BY <1>1 DEF FirstCopies
<1>3. FirstCopies(s) \subseteq Fragment \X Nat
        /\ FirstCopies(s)' \subseteq Fragment \X Nat
  BY DEF FirstCopies
<1>4. ASSUME SessionOf[f.msg] # s \/ f.index # 0
      PROVE  FirstCopies(s)' = FirstCopies(s)
  BY <1>2, <1>3, <1>4
<1>5. ASSUME SessionOf[f.msg] = s, f.index = 0
      PROVE  /\ FirstCopies(s)' = FirstCopies(s) \cup {<<f, arrived[f] + 1>>}
             /\ <<f, arrived[f] + 1>> \notin FirstCopies(s)
  <2> DEFINE y == <<f, arrived[f] + 1>>
  <2>1. y \in Fragment \X Nat /\ y[1] = f /\ y[2] = arrived[f] + 1
    BY <1>1
  <2>2. y \notin FirstCopies(s) /\ y \in FirstCopies(s)'
    BY <1>1, <1>2, <1>5, <2>1
  <2>3. ASSUME NEW x \in Fragment \X Nat, x # y
        PROVE  x \in FirstCopies(s)' <=> x \in FirstCopies(s)
    <3>1. CASE x[1] # f
      BY <1>2, <3>1
    <3>2. CASE x[1] = f
      <4>1. x[2] \in Nat /\ x = <<x[1], x[2]>>
        OBVIOUS
      <4>2. x[2] # arrived[f] + 1
        BY <2>3, <3>2, <4>1
      <4>3. x[2] <= arrived[f] + 1 <=> x[2] <= arrived[f]
        BY <1>1, <4>1, <4>2
      <4> QED
        BY <1>2, <1>5, <3>2, <4>3
    <3> QED
      BY <3>1, <3>2
  <2> HIDE DEF y
  <2>4. FirstCopies(s)' = FirstCopies(s) \cup {y}
    BY <1>3, <2>2, <2>3
  <2> QED
    BY <2>2, <2>4 DEF y
<1> QED
  BY <1>4, <1>5

LEMMA FirstCountedNext ==
  ASSUME TypeOK, ScansOK, FirstCounted, [Next]_vars
  PROVE  FirstCounted'
<1>1. ASSUME NEW f \in Fragment,
             RejectFragment(f) \/ StoreFragment(f) \/ CompleteMessage(f),
             NEW s \in Session
      PROVE  /\ IsFiniteSet(FirstCopies(s)')
             /\ handed'[s] + (IF FirstHeld(s)' THEN 1 ELSE 0)
                  <= Cardinality(FirstCopies(s)')
  <2>1. /\ handed[s] \in Nat /\ IsFiniteSet(FirstCopies(s))
        /\ handed[s] + (IF FirstHeld(s) THEN 1 ELSE 0)
             <= Cardinality(FirstCopies(s))
        /\ Cardinality(FirstCopies(s)) \in Nat
    BY FS_CardinalityType DEF FirstCounted, TypeOK
  <2>2. CASE SessionOf[f.msg] # s
    <3>1. FirstCopies(s)' = FirstCopies(s)
      BY <1>1, <2>2, FirstCopiesStep
    <3>2. handed'[s] = handed[s] /\ (FirstHeld(s)' <=> FirstHeld(s))
      BY <1>1, <2>2, StepFacts DEF FirstHeld
    <3> QED
      BY <2>1, <3>1, <3>2
  <2>3. CASE SessionOf[f.msg] = s
    <3> DEFINE n == IF f.index = 0 THEN 1 ELSE 0
    <3>1. /\ IsFiniteSet(FirstCopies(s)')
          /\ Cardinality(FirstCopies(s)') = Cardinality(FirstCopies(s)) + n
      <4>1. CASE f.index = 0
        <5> DEFINE S == FirstCopies(s)
                   y == <<f, arrived[f] + 1>>
        <5>1. FirstCopies(s)' = S \cup {y} /\ y \notin S /\ IsFiniteSet(S)
          BY <1>1, <2>1, <2>3, <4>1, FirstCopiesStep
        <5> HIDE DEF S, y
        <5>2. IsFiniteSet(S \cup {y}) /\ Cardinality(S \cup {y}) = Cardinality(S) + 1
          BY <5>1, FS_AddElement
        <5> QED
          BY <4>1, <5>1, <5>2 DEF S
      <4>2. CASE f.index # 0
        <5>1. FirstCopies(s)' = FirstCopies(s)
          BY <1>1, <4>2, FirstCopiesStep
        <5>2. n = 0
          BY <4>2
        <5> HIDE DEF n
        <5> QED
          BY <2>1, <5>1, <5>2
      <4> QED
        BY <4>1, <4>2
    <3>2. n \in {0, 1}
      OBVIOUS
    <3>3. CASE RejectFragment(f)
      <4>1. handed'[s] = handed[s] /\ ~ FirstHeld(s)'
        BY <2>3, <3>3 DEF RejectFragment, FirstHeld, Without
      <4> HIDE DEF n
      <4> QED
        BY <2>1, <3>1, <3>2, <4>1
    <3>4. CASE StoreFragment(f)
      <4>1. handed'[s] = handed[s]
        BY <3>4 DEF StoreFragment
      <4>2. PICK c \in Updated(f) : fragment_constructors' = With(s, c)
        BY <2>3, <3>4 DEF StoreFragment
      <4>3. FirstHeld(s)' <=> c.fragments[0] # Empty
        BY <4>2 DEF FirstHeld, With
      <4>4. f.index # 0 => (FirstHeld(s)' => FirstHeld(s))
        <5> SUFFICES ASSUME f.index # 0, c.fragments[0] # Empty
                     PROVE  FirstHeld(s)
          BY <4>3
        <5>1. /\ c.fragments_len = ConstructorFor(f).fragments_len
              /\ c \in Constructor
              /\ \A i \in 0 .. c.fragments_len - 1 :
                   i # f.index => c.fragments[i] = ConstructorFor(f).fragments[i]
          BY <3>4, UpdatedFacts DEF StoreFragment
        <5>2. 0 \in 0 .. c.fragments_len - 1
          BY <5>1, ConstructorFacts, TotalPositive
        <5>3. ConstructorFor(f).fragments[0] # Empty
          BY <5>1, <5>2
        <5>4. s \in DOMAIN fragment_constructors
          <6> SUFFICES ASSUME s \notin DOMAIN fragment_constructors
                       PROVE  FALSE
            OBVIOUS
          <6>1. ConstructorFor(f) = NewConstructor(TotalFragments(f.msg))
            BY <2>3 DEF ConstructorFor
          <6>2. 0 \in 0 .. TotalFragments(f.msg) - 1
            BY FragmentFacts, TotalPositive
          <6> QED
            BY <5>3, <6>1, <6>2 DEF NewConstructor
        <5> QED
          BY <2>3, <5>3, <5>4 DEF FirstHeld, ConstructorFor
      <4>5. CASE f.index = 0
        BY <2>1, <3>1, <4>1, <4>5
      <4>6. CASE f.index # 0
        BY <2>1, <3>1, <4>1, <4>4, <4>6
      <4> QED
        BY <4>5, <4>6
    <3>5. CASE CompleteMessage(f)
      <4>1. handed'[s] = handed[s] + 1 /\ ~ FirstHeld(s)'
        BY <2>1, <2>3, <3>5 DEF CompleteMessage, FirstHeld, Without, TypeOK
      <4>2. f.index # 0 => FirstHeld(s)
        <5> SUFFICES ASSUME f.index # 0
                     PROVE  FirstHeld(s)
          OBVIOUS
        <5>1. PICK c \in Updated(f) : IsComplete(c)
          BY <3>5 DEF CompleteMessage
        <5>2. /\ c.fragments_len = ConstructorFor(f).fragments_len
              /\ c \in Constructor
              /\ \A i \in 0 .. c.fragments_len - 1 :
                   i # f.index => c.fragments[i] = ConstructorFor(f).fragments[i]
              /\ \A j \in 0 .. c.fragments_len - 1 : c.fragments[j] # Empty
          BY <3>5, <5>1, UpdatedFacts, UpdatedScan DEF CompleteMessage
        <5>3. 0 \in 0 .. c.fragments_len - 1
          BY <5>2, ConstructorFacts, TotalPositive
        <5>4. ConstructorFor(f).fragments[0] # Empty
          BY <5>2, <5>3
        <5>5. s \in DOMAIN fragment_constructors
          <6> SUFFICES ASSUME s \notin DOMAIN fragment_constructors
                       PROVE  FALSE
            OBVIOUS
          <6>1. ConstructorFor(f) = NewConstructor(TotalFragments(f.msg))
            BY <2>3 DEF ConstructorFor
          <6>2. 0 \in 0 .. TotalFragments(f.msg) - 1
            BY FragmentFacts, TotalPositive
          <6> QED
            BY <5>4, <6>1, <6>2 DEF NewConstructor
        <5> QED
          BY <2>3, <5>4, <5>5 DEF FirstHeld, ConstructorFor
      <4>3. CASE f.index = 0
        BY <2>1, <3>1, <4>1, <4>3
      <4>4. CASE f.index # 0
        BY <2>1, <3>1, <4>1, <4>2, <4>4
      <4> QED
        BY <4>3, <4>4
    <3> QED
      BY <1>1, <3>3, <3>4, <3>5
  <2> QED
    BY <2>2, <2>3
<1>2. CASE UNCHANGED vars
  BY <1>2 DEF vars, FirstCounted, FirstCopies, FirstHeld
<1>3. CASE \E f \in Fragment :
             RejectFragment(f) \/ StoreFragment(f) \/ CompleteMessage(f)
  BY <1>1, <1>3 DEF FirstCounted
<1> QED
  BY <1>2, <1>3 DEF Next

SharedInv == TypeOK /\ ScansOK /\ Originates /\ AckedIsHeld /\ FirstCounted

LEMMA SharedInit ==
  ASSUME Init
  PROVE  SharedInv
<1>1. TypeOK
  BY DEF Init, TypeOK
<1>2. ScansOK /\ Originates /\ AckedIsHeld
  BY DEF Init, ScansOK, Originates, AckedIsHeld
<1>3. ASSUME NEW s \in Session
      PROVE  FirstCopies(s) = {} /\ ~ FirstHeld(s) /\ handed[s] = 0
  BY DEF Init, FirstCopies, FirstHeld
<1>4. FirstCounted
  BY <1>3, FS_EmptySet DEF FirstCounted
<1> QED
  BY <1>1, <1>2, <1>4 DEF SharedInv

LEMMA SharedNext ==
  ASSUME SharedInv, [Next]_vars
  PROVE  SharedInv'
BY TypeNext, ScansNext, OriginatesNext, AckedIsHeldNext, FirstCountedNext
   DEF SharedInv

\* Also in a session that messages share, a buffer is as long as a message
\* that came in it, and its slots are filled with what came for them.
THEOREM SharedWhole == Spec => []SharedHasNoHole
<1>1. SharedInv => SharedHasNoHole
  BY DEF SharedInv, Originates, Came, SharedHasNoHole
<1>2. SharedInv /\ [Next]_vars => SharedInv'
  BY SharedNext
<1> QED
  BY <1>1, <1>2, SharedInit, PTL DEF Spec
=============================================================================
