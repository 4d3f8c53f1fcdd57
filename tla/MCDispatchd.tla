---------------------------- MODULE MCDispatchd ----------------------------
(* Small instances of Dispatchd. *)
EXTENDS Dispatchd, TLC
CONSTANTS o1, o2, s1
OneLane == [o \in Orders |-> s1]
FirstComesO1 == [o \in Orders |-> IF o = o1 THEN 1 ELSE 2]
AllPlain == [o \in Orders |-> "plain"]
RelayAndPlain == [o \in Orders |-> IF o = o1 THEN "relay" ELSE "plain"]
=============================================================================
