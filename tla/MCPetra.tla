------------------------------- MODULE MCPetra ------------------------------
(***************************************************************************)
(* Petra beside one provider, with the schema this repository's provider   *)
(* answers (GOALS_SCHEMA).                                                 *)
(***************************************************************************)
EXTENDS Petra

LaneOfSession == [s \in SessionRefs |-> "L"]
=============================================================================
