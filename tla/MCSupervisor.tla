--------------------------- MODULE MCSupervisor ---------------------------
(* One robot found by its team's id, one by its team's place.  The ids are  *)
(* numbers, as in the packet: -1 stands for "not set".                      *)
EXTENDS Supervisor
CONSTANTS ByPlace, ById
MCTeams == [i \in Slot |-> IF i = 0 THEN 9 ELSE 7]
MCConfig ==
  [r \in {ById, ByPlace} |->
     IF r = ById THEN [team_id |-> 7, team_index |-> 0]
                 ELSE [team_id |-> -1, team_index |-> 0]]
=============================================================================
