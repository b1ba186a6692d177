---- MODULE MCProcessRun ----
(* ProcessRun on suites shaped like the shipped ones: pda-live suites, whose *)
(* testcases initialize and mutate and restore, and the Power Center suites, *)
(* which reset the emulator in their finally section.                        *)
EXTENDS ProcessRun

LiveCase    == [steps |-> <<"initialize", "mutate">>, finally |-> <<"restore">>]
InitCase    == [steps |-> <<"initialize", "check">>, finally |-> <<>>]
ServiceCase == [steps |-> <<"initialize", "set">>, finally |-> <<"reset">>]
BothCase    == [steps |-> <<"initialize", "mutate">>, finally |-> <<"restore", "reset">>]

MCSuites == {<<InitCase, LiveCase>>, <<LiveCase, LiveCase>>, <<InitCase, ServiceCase>>,
             <<BothCase>>}

ASSUME ResetsAssumption == ResetsWhatItSets
====
