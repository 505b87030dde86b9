---------------------------- MODULE MCEventRelay ----------------------------
EXTENDS EventRelay, TLC

CONSTANTS s1, t1

(* All events go to one partition.                                         *)
MCOneStream == [e \in Events |-> s1]
MCTopicOf == s1 :> t1
=============================================================================
