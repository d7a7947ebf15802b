----------------------- MODULE MCCommunicationServer -----------------------
(***************************************************************************)
(* Instances of CommunicationServer: the .cfg files give the constants.    *)
(* Peers and chats are interchangeable.                                    *)
(***************************************************************************)
EXTENDS CommunicationServer, TLC

MCSymmetry == Permutations(Peer) \cup Permutations(ChatId)
=============================================================================
