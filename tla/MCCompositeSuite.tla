---- MODULE MCCompositeSuite ----
(* The shape of pda-live-long: an awake member with several testcases and a *)
(* sleep member.                                                            *)
EXTENDS CompositeSuite

InitCase == [steps |-> <<"initialize", "check">>, finally |-> <<>>]
LiveCase == [steps |-> <<"initialize", "mutate">>, finally |-> <<"restore">>]

MCMembers == <<<<InitCase, LiveCase>>, <<LiveCase>>>>
MCSuites  == {MCMembers[1], MCMembers[2]}
====
