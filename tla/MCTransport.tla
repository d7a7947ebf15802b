----------------------------- MODULE MCTransport -----------------------------
(***************************************************************************)
(* Instances of Transport, all in the cfg files: one request of a single   *)
(* fragment and responses of two and of three, so that the buffers of the  *)
(* client may be opened for either length.                                 *)
(***************************************************************************)
EXTENDS Transport
=============================================================================
