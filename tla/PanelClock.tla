----------------------------- MODULE PanelClock -----------------------------
(***************************************************************************)
(* protocols/time_sync.py: AqualinkD runs with a process clock of its own  *)
(* (ProcessTimeController), which a time target starts ahead of real time, *)
(* and sets the panel's clock from it.  PanelTimeSyncValidator watches     *)
(* that and brings the panel back to real time with a forced               *)
(* synchronization.                                                        *)
(*                                                                         *)
(* AqualinkD, which is external, may set the panel's time whenever it      *)
(* likes: on request, or because it finds the panel's time wrong.          *)
(***************************************************************************)
EXTENDS Naturals

VARIABLES
  offset,   \* the process clock: "real" or "shifted"
  clock,    \* the time the panel shows
  owed,     \* panel_requires_restore
  writing,  \* the time AqualinkD's programmer is about to set, if it runs
  lines,    \* its markers after the cursor of _force_sync
  await     \* where the validator stands, "none" outside of it

clockVars == <<offset, clock, owed, writing, lines, await>>

SyncAwait  == {"put", "active", "finished", "converge"}
ClockAwait == {"none", "shifted", "observe"} \cup SyncAwait

ClockInit(timed) ==
  /\ offset = IF timed THEN "shifted" ELSE "real"
  /\ clock = "real"
  /\ owed = timed
  /\ writing = {} /\ lines = {} /\ await = "none"

-----------------------------------------------------------------------------
(* AqualinkD's programmer: its time is the process clock's when it starts.   *)

ProgrammerStarts ==
  /\ writing = {}
  /\ writing' = {offset}
  /\ lines' = IF await \in SyncAwait THEN lines \cup {"active"} ELSE lines
  /\ UNCHANGED <<offset, clock, owed, await>>

\* It ends with or without effect.
ProgrammerEnds ==
  /\ writing # {}
  /\ clock' \in writing \cup {clock}
  /\ writing' = {}
  /\ lines' = IF "active" \in lines THEN lines \cup {"finished"} ELSE lines
  /\ UNCHANGED <<offset, owed, await>>

-----------------------------------------------------------------------------
(* The validator. *)

\* _wait_for_time: the panel follows the process clock.
Watch ==
  /\ await' = "shifted"
  /\ UNCHANGED <<offset, clock, owed, writing, lines>>

Followed ==
  /\ await = "shifted" /\ clock = offset
  /\ await' = "observe"
  /\ UNCHANGED <<offset, clock, owed, writing, lines>>

\* Mutant: the process clock goes back after the forced synchronization.
ForceSyncAhead ==
  /\ await' = "put" /\ lines' = {}
  /\ UNCHANGED <<offset, clock, owed, writing>>

\* set_offset(0), and _force_sync takes its cursor.
ForceSync ==
  /\ offset' = "real"
  /\ await' = "put" /\ lines' = {}
  /\ UNCHANGED <<clock, owed, writing>>

\* _observe_transitions saw what it expected.
Observed == await = "observe" /\ ForceSync

SyncStep ==
  /\ \/ await = "put" /\ await' = "active"
     \/ await = "active" /\ "active" \in lines /\ await' = "finished"
     \/ await = "finished" /\ "finished" \in lines /\ await' = "converge"
  /\ UNCHANGED <<offset, clock, owed, writing, lines>>

\* The panel shows real time: mark_panel_restored.
Synchronized ==
  /\ await = "converge" /\ clock = "real"
  /\ owed' = FALSE
  /\ await' = "none" /\ lines' = {}
  /\ UNCHANGED <<offset, clock, writing>>

\* A timeout, another error, or a cancellation.
ClockFails ==
  /\ await # "none"
  /\ await' = "none" /\ lines' = {}
  /\ UNCHANGED <<offset, clock, owed, writing>>

-----------------------------------------------------------------------------
ClockTypeOK ==
  /\ offset \in {"real", "shifted"}
  /\ clock \in {"real", "shifted"}
  /\ owed \in BOOLEAN
  /\ writing \in {{}, {"real"}, {"shifted"}}
  /\ lines \in SUBSET {"active", "finished"}
  /\ await \in ClockAwait

\* Once the validator no longer owes the panel its real time, the panel shows
\* it, and nothing AqualinkD has begun or may begin takes it away again -- also
\* if a programmer was under way with the shifted time when the offset changed.
ClockRestored ==
  ~owed => clock = "real" /\ writing \subseteq {"real"} /\ offset = "real"
=============================================================================
