------------------------ MODULE MCFragmentReassembly ------------------------
(***************************************************************************)
(* Instances of FragmentReassembly.  Fragments carry 2 bytes.  Message m1  *)
(* makes 3 fragments and is alone in its session; m2 and m3, of 3 and 2    *)
(* fragments, are the two responses of a request that was executed twice,  *)
(* and share one.                                                          *)
(***************************************************************************)
EXTENDS FragmentReassembly

CONSTANTS m1, m2, m3, s1, s2

MCSessionOf == [m \in {m1, m2, m3} |-> IF m = m1 THEN s1 ELSE s2]

MCDataLen ==
  [m \in {m1, m2, m3} |-> CASE m = m1 -> 5 [] m = m2 -> 6 [] m = m3 -> 3]
=============================================================================
