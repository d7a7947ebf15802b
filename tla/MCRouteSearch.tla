---------------------------- MODULE MCRouteSearch ----------------------------
(***************************************************************************)
(* A square: client c has two drones, which are linked to each other and   *)
(* to a server.  One of two opposite links comes and goes.                 *)
(***************************************************************************)
EXTENDS RouteSearch

CONSTANTS c, s, d1, d2

Undirected(S) == UNION {Both(l[1], l[2]) : l \in S}

MCSquare == Undirected({<<c, d1>>, <<c, d2>>, <<d1, d2>>, <<d1, s>>, <<d2, s>>})
MCSquareLink == {<<c, d1>>, <<d2, s>>}
=============================================================================
