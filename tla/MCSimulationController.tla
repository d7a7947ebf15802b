----------------------- MODULE MCSimulationController -----------------------
(***************************************************************************)
(* Instances of SimulationController: a client and a server on a drone,    *)
(* a second configuration, and one with a link to a node that is missing.  *)
(***************************************************************************)
EXTENDS SimulationController

MCConfigurations ==
  [c \in {1, 2, 3} |->
     CASE c = 1 -> [drones |-> {0}, servers |-> {1}, clients |-> {2},
                    edges |-> {<<0, 1>>, <<0, 2>>}]
       [] c = 2 -> [drones |-> {0, 2}, servers |-> {}, clients |-> {1},
                    edges |-> {<<0, 2>>, <<1, 2>>}]
       [] c = 3 -> [drones |-> {0}, servers |-> {1}, clients |-> {},
                    edges |-> {<<0, 1>>, <<0, 2>>}]]
=============================================================================
