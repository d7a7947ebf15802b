---------------------------- MODULE MCApplication ----------------------------
(***************************************************************************)
(* An instance of Application: a client lists its private directory,       *)
(* writes one file of it twice, by its name and by its absolute path, and  *)
(* reads it.  Another client, added later, reads the file of that name of  *)
(* its own, which nobody writes.                                           *)
(***************************************************************************)
EXTENDS Application, TLC

CONSTANTS a, b, list, write1, write2, get, own, x, root_x, ax, bx, px, one, two

MCFrom == list :> a @@ write1 :> a @@ write2 :> a @@ get :> b @@ own :> a

MCAsks ==
  list :> [kind |-> "list", private |-> TRUE]
    @@ write1 :> [kind |-> "write", private |-> TRUE, name |-> x, data |-> one]
    @@ write2 :> [kind |-> "write", private |-> FALSE, name |-> root_x, data |-> two]
    @@ own :> [kind |-> "get", private |-> TRUE, name |-> x]
    @@ get :> [kind |-> "get", private |-> TRUE, name |-> x]

MCPlace ==
  root_x :> ax @@ <<a, x>> :> ax @@ <<b, x>> :> bx @@ <<Public, x>> :> px

MCParent == ax :> a @@ bx :> b @@ px :> Public

\* Nothing reads what replies were made of, and every message in a mailbox is
\* in read.  Once a second id was polled or the client is not the first one any
\* more, SolePollerGetsAll says nothing, and the order of the responses has no
\* effect on what follows.
View ==
  <<status, executions, replies, contentVars, answers, clients, hosts, added,
    polled, read, after, Len(forwarded),
    IF added = 0 /\ \E id \in InitialClients \cap clients : polled \subseteq {id}
    THEN <<messages, client_events, forwarded>>
    ELSE {client_events[i] : i \in DOMAIN client_events}>>
=============================================================================
