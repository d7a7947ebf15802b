----------------------------- MODULE MCHostNode -----------------------------
(***************************************************************************)
(* Instances of HostNode: one peer behind one or two hops, and the         *)
(* commands each run needs.                                                *)
(***************************************************************************)
EXTENDS HostNode

CONSTANTS h1, h2, p1, f1, f2, a1

MCDestOf == [x \in Fragment \cup Incoming |-> p1]

Send(s) == [kind |-> "send", of |-> s]
Add(h) == [kind |-> "add", of |-> h]
Remove(h) == [kind |-> "remove", of |-> h]
QuitCommand == [kind |-> "quit", of |-> "self"]

CloseCommand == [kind |-> "close", of |-> "self"]

MCSend == {Send(<<f1>>)}
MCQuitClose == {QuitCommand, CloseCommand}
MCSendTwoRemove == {Send(<<f1, f2>>), Remove(h1)}
MCAddQuit == {Send(<<f1>>), Add(h2), QuitCommand}

MCNoAnswer == [x \in Incoming |-> <<>>]
MCAnswer == [x \in Incoming |-> <<f1>>]

MCReachOne == {<<h1, p1>>}
=============================================================================
