------------------------- MODULE PowerCenterSession -------------------------
(***************************************************************************)
(* ManagedWinePowerCenterSession (adapters/power_center_session.py) and    *)
(* WinePowerCenterController.prepare (adapters/power_center.py): a run of  *)
(* the validator starts an X server, the panel's emulator and its I/O      *)
(* window under Wine, configures the emulator with a helper program, and   *)
(* takes everything down again.  Several validators run at once, and any   *)
(* of them may be killed; what it started goes on without it, while the    *)
(* kernel releases its file locks.                                         *)
(*                                                                         *)
(* The helper finds a window by its title among those of the Wine prefix,  *)
(* whoever launched it (contrib/power-center-helper/pwrcntr-control.c).    *)
(***************************************************************************)
EXTENDS Naturals, FiniteSets

CONSTANTS
  Run,      \* runs of the validator, each with a process of its own
  Prefix,   \* Wine prefixes
  Display   \* display numbers of the TCP fallback

Nobody == "nobody"
App == {"Simio", "Pwrcntr"}

ASSUME SessionAssumption == Display \subseteq Nat /\ Nobody \notin Run

VARIABLES
  stage,        \* stage[r]: where start, prepare or close of r stands
  prefix, kind, \* its Wine prefix and its display: "desktop", "unix" or "tcp"
  display,      \* the number it allocated, 0 if none
  prefixLock, displayLock,  \* who holds the flock of a prefix, of a display
  xvfb,         \* r's X server: "none", "starting", "listening" or "dead"
  xauth,        \* r's authority file is in /tmp
  apps,         \* r's two applications: "none", "starting", "shown" or "gone"
  power,        \* r's emulator is switched on
  served,       \* History variable: whose windows r's helper commands acted on
  left          \* History variable: runs that could not clean up

choices    == <<prefix, kind>>
locks      == <<prefixLock, displayLock>>
screens    == <<display, xvfb, xauth>>
emulator   == <<apps, power, served>>
sessionVars == <<stage, choices, locks, screens, emulator, left>>

SessionInit ==
  /\ stage = [r \in Run |-> "off"]
  /\ prefix \in [Run -> Prefix] /\ kind \in [Run -> {"desktop", "unix", "tcp"}]
  /\ display = [r \in Run |-> 0]
  /\ prefixLock = [p \in Prefix |-> Nobody] /\ displayLock = [d \in Display |-> Nobody]
  /\ xvfb = [r \in Run |-> "none"] /\ xauth = [r \in Run |-> FALSE]
  /\ apps = [r \in Run |-> [a \in App |-> "none"]]
  /\ power = [r \in Run |-> FALSE]
  /\ served = [r \in Run |-> {}] /\ left = {}

Goto(r, there) == stage' = [stage EXCEPT ![r] = there]

Release(lock, r) == [k \in DOMAIN lock |-> IF lock[k] = r THEN Nobody ELSE lock[k]]

-----------------------------------------------------------------------------
(* The X server and the applications, external. *)

Listening(d) == \E r \in Run : display[r] = d /\ xvfb[r] = "listening"

\* Only one process can bind the port.
XvfbBinds(r) ==
  /\ xvfb[r] = "starting"
  /\ xvfb' = [xvfb EXCEPT ![r] = IF Listening(display[r]) THEN "dead" ELSE "listening"]
  /\ UNCHANGED <<stage, choices, locks, display, xauth, emulator, left>>

\* Another run's X server refuses r's applications.
Appear(r, a) ==
  /\ apps[r][a] = "starting"
  /\ \/ /\ kind[r] = "desktop" \/ xvfb[r] = "listening"
        /\ apps' = [apps EXCEPT ![r][a] = "shown"]
        /\ IF a = "Pwrcntr" THEN \E on \in BOOLEAN : power' = [power EXCEPT ![r] = on]
                            ELSE UNCHANGED power
     \/ apps' = [apps EXCEPT ![r][a] = "gone"] /\ UNCHANGED power
  /\ UNCHANGED <<stage, choices, locks, screens, served, left>>

\* The windows that the helper can find.
Windows(r, a) == {o \in Run : prefix[o] = prefix[r] /\ apps[o][a] = "shown"}

\* What the serial device gets to see.
Traffic(r) == \E o \in Windows(r, "Pwrcntr") : power[o]

-----------------------------------------------------------------------------
(* start *)

\* _acquire_prefix_lock
Lock(r) ==
  /\ stage[r] = "off"
  /\ IF prefixLock[prefix[r]] = Nobody
     THEN prefixLock' = [prefixLock EXCEPT ![prefix[r]] = r] /\ Goto(r, "display")
     ELSE Goto(r, "closing") /\ UNCHANGED prefixLock
  /\ UNCHANGED <<choices, displayLock, screens, emulator, left>>

\* An X server of the user, or one that chooses its own number.
Allotted(r) ==
  /\ stage[r] = "display" /\ kind[r] # "tcp"
  /\ xvfb' = [xvfb EXCEPT ![r] = IF kind[r] = "unix" THEN "listening" ELSE @]
  /\ Goto(r, "Simio")
  /\ UNCHANGED <<choices, locks, display, xauth, emulator, left>>

\* Mutant: the port is not probed and the lock not taken.
FreeDisplaysAnyway == Display

\* _allocate_tcp_display passes over a number that is locked or in use.
FreeDisplays == {d \in Display : displayLock[d] = Nobody /\ ~Listening(d)}

\* The lock, the authority file and Xvfb; the file may fail to be written.
StartTcpXvfb(r) ==
  /\ stage[r] = "display" /\ kind[r] = "tcp" /\ FreeDisplays # {}
  /\ LET d == CHOOSE d \in FreeDisplays : \A e \in FreeDisplays : d <= e IN
       /\ displayLock' = [displayLock EXCEPT ![d] = r]
       /\ display' = [display EXCEPT ![r] = d]
  /\ xauth' = [xauth EXCEPT ![r] = TRUE]
  /\ \/ xvfb' = [xvfb EXCEPT ![r] = "starting"] /\ Goto(r, "connect")
     \/ Goto(r, "closing") /\ UNCHANGED xvfb
  /\ UNCHANGED <<choices, prefixLock, emulator, left>>

\* Whoever listens on the port.
ConnectDisplay(r) ==
  /\ stage[r] = "connect" /\ xvfb[r] # "dead" /\ Listening(display[r])
  /\ Goto(r, "Simio")
  /\ UNCHANGED <<choices, locks, screens, emulator, left>>

Launch(r, a) ==
  /\ stage[r] = a
  /\ apps' = [apps EXCEPT ![r][a] = "starting"]
  /\ Goto(r, IF a = "Simio" THEN "Pwrcntr" ELSE "wait")
  /\ UNCHANGED <<choices, locks, screens, power, served, left>>

Act(r, o) == served' = [served EXCEPT ![r] = @ \cup {o}]

\* _wait_until_ready: the helper's "status" and "io-status" find their windows.
WaitUntilReady(r) ==
  /\ stage[r] = "wait"
  /\ \E o \in Windows(r, "Pwrcntr"), i \in Windows(r, "Simio") :
       served' = [served EXCEPT ![r] = @ \cup {o, i}]
  /\ Goto(r, "configure")
  /\ UNCHANGED <<choices, locks, screens, apps, power, left>>

-----------------------------------------------------------------------------
(* prepare: the emulator is switched on, which only its traffic shows; silence *)
(* may also be a stale handle of the serial port.                              *)

Toggle(r) ==
  /\ \E o \in Windows(r, "Pwrcntr") :
       power' = [power EXCEPT ![o] = ~@] /\ Act(r, o)
  /\ UNCHANGED <<choices, locks, screens, apps, left>>

Configure(r) ==
  /\ stage[r] = "configure"
  /\ Toggle(r)
  /\ \E initialOn \in BOOLEAN :
       /\ initialOn => Traffic(r)
       /\ Goto(r, IF initialOn THEN "silence" ELSE "ambiguous")

SwitchOn(r) ==
  /\ stage[r] = "silence"
  /\ Toggle(r) /\ Goto(r, "traffic")

\* The first toggle may have switched it off.
Retry(r) ==
  /\ stage[r] = "ambiguous"
  /\ Toggle(r) /\ Goto(r, "traffic")

SwitchedOn(r) ==
  /\ stage[r] \in {"ambiguous", "traffic"} /\ Traffic(r)
  /\ Goto(r, "running")
  /\ UNCHANGED <<choices, locks, screens, emulator, left>>

\* select_mode, set_temperature
Control(r) ==
  /\ stage[r] = "running"
  /\ \E a \in App : \E o \in Windows(r, a) : Act(r, o)
  /\ UNCHANGED <<stage, choices, locks, screens, apps, power, left>>

\* Its end, a failure of any step, a timeout or Ctrl-C: close runs in a finally.
Finish(r) ==
  /\ stage[r] \notin {"off", "closing", "apps", "screen", "unlock", "gone"}
  /\ Goto(r, "closing")
  /\ UNCHANGED <<choices, locks, screens, emulator, left>>

-----------------------------------------------------------------------------
(* close *)

Dead(app) == [a \in App |-> IF app[a] = "shown" THEN "gone" ELSE app[a]]

\* wineserver -k ends what runs in the prefix, whoever launched it.
Wineserver(r) ==
  apps' = [o \in Run |-> IF prefix[o] = prefix[r] THEN Dead(apps[o]) ELSE apps[o]]

\* Mutant: also by a run that has launched nothing.
StopWineAlways(r) ==
  /\ stage[r] = "closing"
  /\ Wineserver(r) \/ UNCHANGED apps
  /\ Goto(r, "apps")
  /\ UNCHANGED <<choices, locks, screens, power, served, left>>

\* Mutant: the prefix is unlocked before its applications are stopped.
StopWineUnlocked(r) ==
  /\ stage[r] = "closing"
  /\ prefixLock' = Release(prefixLock, r)
  /\ UNCHANGED apps
  /\ Goto(r, "apps")
  /\ UNCHANGED <<choices, displayLock, screens, power, served, left>>

\* _stop_wine_prefix: there may be no wineserver, or it takes too long.
StopWine(r) ==
  /\ stage[r] = "closing"
  /\ \/ (\E a \in App : apps[r][a] # "none") /\ Wineserver(r)
     \/ UNCHANGED apps
  /\ Goto(r, "apps")
  /\ UNCHANGED <<choices, locks, screens, power, served, left>>

\* Its processes are terminated; a window may outlive the wrapper that showed it.
StopApplications(r) ==
  /\ stage[r] = "apps"
  /\ \E end \in [App -> {"none", "shown", "gone"}] :
       /\ \A a \in App : end[a] = IF apps[r][a] = "shown" THEN end[a]
                                  ELSE IF apps[r][a] = "none" THEN "none" ELSE "gone"
       /\ \A a \in App : apps[r][a] = "shown" => end[a] # "none"
       /\ apps' = [apps EXCEPT ![r] = end]
  /\ Goto(r, "screen")
  /\ UNCHANGED <<choices, locks, screens, power, served, left>>

\* Mutant: only if applications were launched.
StopXvfbIfUsed(r) ==
  /\ stage[r] = "screen"
  /\ IF \E a \in App : apps[r][a] # "none"
     THEN /\ xvfb' = [xvfb EXCEPT ![r] = "none"] /\ xauth' = [xauth EXCEPT ![r] = FALSE]
          /\ displayLock' = Release(displayLock, r)
     ELSE UNCHANGED <<xvfb, xauth, displayLock>>
  /\ apps' = IF kind[r] = "desktop" THEN apps ELSE [apps EXCEPT ![r] = Dead(@)]
  /\ left' = left \cup {o \in {r} : \E a \in App : apps'[r][a] = "shown"}
  /\ Goto(r, "unlock")
  /\ UNCHANGED <<choices, prefixLock, display, power, served>>

\* With its X server, a window of r is gone.
StopXvfb(r) ==
  /\ stage[r] = "screen"
  /\ xvfb' = [xvfb EXCEPT ![r] = "none"] /\ xauth' = [xauth EXCEPT ![r] = FALSE]
  /\ displayLock' = Release(displayLock, r)
  /\ apps' = IF kind[r] = "desktop" THEN apps ELSE [apps EXCEPT ![r] = Dead(@)]
  /\ left' = left \cup {o \in {r} : \E a \in App : apps'[r][a] = "shown"}
  /\ Goto(r, "unlock")
  /\ UNCHANGED <<choices, prefixLock, display, power, served>>

Unlock(r) ==
  /\ stage[r] = "unlock"
  /\ prefixLock' = Release(prefixLock, r)
  /\ Goto(r, "gone")
  /\ UNCHANGED <<choices, displayLock, screens, emulator, left>>

\* The validator is killed, or close raises: a process that does not die, a second
\* Ctrl-C.
Die(r) ==
  /\ stage[r] \notin {"off", "gone"}
  /\ prefixLock' = Release(prefixLock, r) /\ displayLock' = Release(displayLock, r)
  /\ left' = left \cup {r}
  /\ Goto(r, "gone")
  /\ UNCHANGED <<choices, screens, emulator>>

-----------------------------------------------------------------------------
SessionNext ==
  \E r \in Run :
    \/ Lock(r) \/ Allotted(r) \/ StartTcpXvfb(r) \/ XvfbBinds(r) \/ ConnectDisplay(r)
    \/ \E a \in App : Launch(r, a) \/ Appear(r, a)
    \/ WaitUntilReady(r) \/ Configure(r) \/ SwitchOn(r) \/ Retry(r) \/ SwitchedOn(r)
    \/ Control(r) \/ Finish(r)
    \/ StopWine(r) \/ StopApplications(r) \/ StopXvfb(r) \/ Unlock(r) \/ Die(r)

SessionSpec == SessionInit /\ [][SessionNext]_sessionVars

-----------------------------------------------------------------------------
(* Properties. *)

SessionTypeOK ==
  /\ display \in [Run -> Display \cup {0}]
  /\ prefixLock \in [Prefix -> Run \cup {Nobody}]
  /\ displayLock \in [Display -> Run \cup {Nobody}]
  /\ xvfb \in [Run -> {"none", "starting", "listening", "dead"}]
  /\ xauth \in [Run -> BOOLEAN] /\ power \in [Run -> BOOLEAN]
  /\ apps \in [Run -> [App -> {"none", "starting", "shown", "gone"}]]
  /\ served \in [Run -> SUBSET Run] /\ left \in SUBSET Run

\* Nothing is left over in r's prefix from a run that could not clean up.
Tidy(r) == \A o \in left : prefix[o] # prefix[r]

\* A helper command acts on the windows of its own run, however the runs overlap --
\* or on those of a run that could not clean up.
RightEmulator == \A r \in Run : served[r] \subseteq {r} \cup left

\* No other run takes the emulator away from one that tests with it: both its windows
\* are there, and the panel is on.
Undisturbed ==
  \A r \in Run : stage[r] = "running" /\ Tidy(r) =>
    power[r] /\ \A a \in App : apps[r][a] = "shown"

\* A run that ends in any other way, also before it was ready, leaves no window, X
\* server, authority file or lock.
CloseCleans ==
  \A r \in Run : stage[r] = "gone" /\ r \notin left =>
    /\ \A a \in App : apps[r][a] \in {"none", "gone"}
    /\ xvfb[r] = "none" /\ ~xauth[r]
    /\ \A p \in Prefix : prefixLock[p] # r
    /\ \A d \in Display : displayLock[d] # r

\* Two runs never wait for the same X server, although Xvfb binds its port long after
\* the number was found free.
DisplaysApart ==
  \A r, o \in Run : r # o /\ {r, o} \cap left = {} /\ display[r] # 0 =>
    ~(xvfb[r] # "none" /\ xvfb[o] # "none" /\ display[r] = display[o])
=============================================================================
