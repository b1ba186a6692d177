------------------------------ MODULE PanelTime ------------------------------
(***************************************************************************)
(* The arithmetic of clock readings.  The panel shows minutes of the day,  *)
(* the host has the second too, and the difference of the two wraps at     *)
(* midnight.  protocols/time_sync.py and protocols/pda/identity.py each    *)
(* compute it in their own way: the first takes the minutes modulo a day   *)
(* and adds the seconds, the second subtracts seconds of the day.          *)
(* A host reading is a whole second of the day here; microseconds only     *)
(* move the result of the first by less than one second before it rounds.  *)
(***************************************************************************)
EXTENDS Integers

Day       == 86400
HalfDay   == 43200
DayMinute == 0..1439
DaySecond == 0..86399

Magnitude(n) == IF n < 0 THEN 0 - n ELSE n
Wrapped(n)   == IF n <= Day - n THEN n ELSE Day - n

-----------------------------------------------------------------------------
(* time_sync.py                                                              *)

\* Python's % is, like TLA+'s, never negative for a positive divisor.
MinuteDelta(panel, host) == ((panel - (host \div 60) + 720) % 1440) - 720

\* _boundary_error_seconds: how late the panel turned to this minute, if it just did.
BoundaryError(panel, host) == (host % 60) - 60 * MinuteDelta(panel, host)

\* _panel_time_difference.
TimeDifference(panel, host) == Wrapped(Magnitude(BoundaryError(panel, host)))

-----------------------------------------------------------------------------
(* identity.py                                                               *)

\* panel_time_difference.
IdentityDifference(panel, host) == Wrapped(Magnitude(60 * panel - host))
=============================================================================
