--------------------------- MODULE CompositeSuite ---------------------------
(***************************************************************************)
(* A composite suite (cli.py): its members run one after the other, each   *)
(* in a process of its own -- a ProcessRun with a new session, which takes *)
(* the equipment as it finds it for the original state.  What the previous *)
(* member says of itself, its exit code and safe_to_continue, decides      *)
(* whether the next one starts.                                            *)
(***************************************************************************)
EXTENDS ProcessRun

CONSTANT Members  \* the members' suites

ASSUME MembersAssumption == Members \in Seq(Suites) \ {<<>>}

VARIABLES
  member,   \* index of the member that runs
  overall,  \* overall_exit_code
  verdict,  \* "running", "finished" (all members ran) or "stopped"
  \* History variables:
  codes,    \* the members' exit codes
  dirty,    \* a member started on equipment that an earlier one left changed
  stale     \* ... whose report was about another testcase

compVars == <<member, overall, verdict, codes, dirty, stale>>
suiteVars == <<procVars, compVars>>

CompInit ==
  /\ SupInit /\ scripted
  /\ suite = Members[1] /\ setting = "default"
  /\ RunInit
  /\ member = 1 /\ overall = 0 /\ verdict = "running"
  /\ codes = <<>> /\ dirty = FALSE /\ stale = FALSE

-----------------------------------------------------------------------------
ProcessOver == sup = "done" /\ ~straggler

\* A CancelledError after SIGINT becomes KeyboardInterrupt, and 130; a run that
\* passed may still fail in the serial correlation.
ExitCode(c) ==
  CASE raised # "no" -> c = 130
    [] raised = "no" /\ status = "passed" -> c \in {0, 1}
    [] OTHER -> c = 1

\* Mutant: the report of an interrupted run counts as well.
LastRunSafeAnyway == file = "safe"

\* last_run_safe_to_continue: FALSE until scenario.json is read, which an
\* interrupted run does not come to.
LastRunSafe == raised = "no" /\ file = "safe"

\* Mutant: the answer of the member is not asked for.
ContinueAlways(c) == TRUE

Continue(c) == c = 0 \/ LastRunSafe

NextSuite == Members[member + 1]

\* The next process: every variable of the run is new.  AqualinkD is started
\* again, and so is a Power Center that the validator manages itself.
NextProcess ==
  /\ suite' = NextSuite
  /\ sup' = "watch" /\ where' = "body"
  /\ child' = "alive" /\ signal' = "none" /\ output' = "reading"
  /\ scenario' = "running" /\ cancels' = 0 /\ expired' = FALSE
  /\ interrupted' = "no" /\ raised' = "no"
  /\ status' = "failed" /\ reason' = "startup_failed"
  /\ case' = 1 /\ section' = "steps" /\ index' = 1
  /\ primary' = "none" /\ cleanup' = <<>> /\ final' = "none"
  /\ initialized' = FALSE /\ ready' = FALSE /\ pending' = FALSE
  /\ setting' \in {setting, "default"}
  /\ straggler' = FALSE /\ delivered' = 0
  /\ file' = "absent" /\ reported' = 0
  /\ UNCHANGED modeVars

Overall(c) == IF c = 0 THEN overall ELSE c

MemberEnds ==
  /\ verdict = "running" /\ ProcessOver
  /\ \E c \in {0, 1, 130} :
       /\ ExitCode(c)
       /\ codes' = Append(codes, c)
       /\ overall' = Overall(c)
       /\ IF Continue(c) /\ member < Len(Members)
          THEN /\ member' = member + 1
               /\ dirty' = (dirty \/ pending)
               /\ stale' = (stale \/ (pending /\ reported # case))
               /\ NextProcess
               /\ UNCHANGED verdict
          ELSE /\ verdict' = IF Continue(c) THEN "finished" ELSE "stopped"
               /\ UNCHANGED <<procVars, member, dirty, stale>>

CompNext ==
  \/ verdict = "running" /\ ProcNext /\ UNCHANGED compVars
  \/ MemberEnds

CompSpec == CompInit /\ [][CompNext]_suiteVars

-----------------------------------------------------------------------------
(* Properties. *)

CompTypeOK ==
  /\ ProcTypeOK
  /\ suite = Members[member]
  /\ overall \in {0, 1, 130}
  /\ verdict \in {"running", "finished", "stopped"}
  /\ codes \in Seq({0, 1, 130})
  /\ Len(codes) = IF verdict = "running" THEN member - 1 ELSE member
  /\ dirty \in BOOLEAN /\ stale \in BOOLEAN

\* No member takes equipment that an earlier one left changed for the original
\* state, unless the earlier one's report was still that of a testcase before
\* the one it ended in.
StartsClean == dirty => stale

\* Ctrl-C ends the suite: a member follows an interrupted one only if SIGINT
\* came while the scenario was being cancelled anyway.
InterruptEndsSuite ==
  [][member' # member => interrupted \in {"no", "cleanup"}]_suiteVars

\* "failed assertions but restored the panel; continuing composite validation"
ContinuesRestored == ~dirty
=============================================================================
