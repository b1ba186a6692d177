------------------------------ MODULE MenuWalk ------------------------------
(***************************************************************************)
(* AquaPdaMenuWalker (protocols/pda/aquapda.py) over AquaPdaWebSocketClient *)
(* (adapters/aquapda.py): the walker presses keys, the panel answers with  *)
(* packets that the client's reader task puts together to a screen, and    *)
(* the walker looks at that screen only.  It visits every menu and must    *)
(* not select anything else, since that changes a setting.                 *)
(*                                                                         *)
(* The panel, which is external, handles a key and sends its packets       *)
(* whenever it gets to it; nothing relates an answer to its key.           *)
(***************************************************************************)
EXTENDS Naturals, Sequences, SequencesExt

CONSTANTS
  Screen, Home,   \* the panel's screens
  Options,        \* Options[s]: the selectable lines of screen s, all different
  Below,          \* Below[o]: the screen that the structural line o opens
  Parent,         \* Parent[s]: where "back" leads
  SetupLine, FreezeLine,  \* the lines SYSTEM SETUP and FREEZE PROTECT
  MaxDepth, MaxScreens, MaxOptions, HomeAttempts,  \* AquaPdaMenuWalkConfig
  MaxUnhandled, MaxWire  \* bounds on the keys and the packets under way

NoText == "none"

Structural == DOMAIN Below
Label == UNION {ToSet(Options[s]) : s \in Screen}

ASSUME MenuAssumption ==
  /\ Home \in Screen /\ Structural \subseteq Label
  /\ Options \in [Screen -> Seq(Label)] /\ Below \in [Structural -> Screen]
  /\ Parent \in [Screen -> Screen]
  /\ {SetupLine, FreezeLine} \subseteq Structural
  /\ {MaxDepth, MaxScreens, MaxOptions, HomeAttempts, MaxUnhandled, MaxWire} \subseteq Nat

\* No line or screen is blank, and "back" leads to another screen.
ASSUME PanelAssumption ==
  NoText \notin Screen \cup Label /\ \A s \in Screen \ {Home} : Parent[s] # s

\* What a walk needs to see all of the menus: no line is twice in one, none is longer than
\* maximum_options, and "back" leads from each to the one that it was opened from.
MenusFit ==
  /\ \A s \in Screen : /\ Len(Options[s]) <= MaxOptions
                       /\ \A i, j \in DOMAIN Options[s] : Options[s][i] = Options[s][j] => i = j
  /\ \A s \in Screen : \A o \in ToSet(Options[s]) \cap Structural :
       Below[o] # Home /\ Parent[Below[o]] = s

VARIABLES
  at, bar,       \* the panel: its screen and the line its bar is on, 0 if none
  keys, wire,    \* keys the panel has not handled, packets the client has not read
  text, mark,    \* PdaScreen: the screen whose lines are shown, the highlighted line
  heard,         \* packet_count and screen_update_count passed the caller's "after"
  reader,        \* the reader task: "off", "on", or "failed" with _reader_error
  task, await,   \* the method of the walker, or how it ended; what it waits for
  before,        \* the lines and highlighted text before the key
  found,         \* _enumerate_options: the lines seen so far
  tries,         \* "back"s of _return_home, "down"s of the other two loops
  stack,         \* for each active _walk_menus, the candidates still to visit
  visited,       \* the report: each screen, the line that led to it, its options
  late,          \* History variable: a wait ended without the panel's answer
  stray          \* History variable: the lines selected that were not meant

panelSide  == <<at, bar, keys, wire, stray>>
clientSide == <<text, mark, heard, reader>>
walkSide   == <<task, await, before, found, tries, stack, visited, late>>
walkVars   == <<panelSide, clientSide, walkSide>>

Highlighted == IF text \in Screen /\ mark \in DOMAIN Options[text]
               THEN Options[text][mark] ELSE NoText

First(s) == IF Options[s] = <<>> THEN 0 ELSE 1

Over == task \in {"passed", "failed"}

Drawn(s, b) == <<[kind |-> "clear"], [kind |-> "text", of |-> s], [kind |-> "bar", on |-> b]>>

WalkInit ==
  /\ at \in Screen /\ bar = First(at)
  /\ keys = <<>> /\ wire = <<>>
  /\ text = NoText /\ mark = 0 /\ heard = FALSE /\ reader = "off"
  /\ task = "connect" /\ await = "none"
  /\ before = [lines |-> NoText, highlight |-> NoText]
  /\ found = <<>> /\ tries = 0 /\ stack = <<>> /\ visited = <<>>
  /\ late = FALSE /\ stray = {}

-----------------------------------------------------------------------------
(* The panel. *)

\* Packets that the reader task no longer takes are lost.
Emit(packets) == wire' = IF reader = "on" THEN wire \o packets ELSE <<>>

\* "down" moves the bar on, around the end.
Down ==
  /\ Head(keys).key = "down"
  /\ bar' = IF bar = Len(Options[at]) THEN First(at) ELSE bar + 1
  /\ Emit(<<[kind |-> "bar", on |-> bar']>>)
  /\ UNCHANGED <<at, stray>>

\* A structural line opens its screen, another one changes what it names.
Select ==
  /\ Head(keys).key = "select"
  /\ IF bar # 0 /\ Options[at][bar] \in Structural
     THEN /\ at' = Below[Options[at][bar]] /\ bar' = First(at')
          /\ Emit(Drawn(at', bar'))
     ELSE /\ Emit(<<[kind |-> "text", of |-> at]>>)
          /\ UNCHANGED <<at, bar>>
  /\ stray' = IF bar = 0 THEN stray ELSE stray \cup ({Options[at][bar]} \ {Head(keys).target})

Back ==
  /\ Head(keys).key = "back"
  /\ IF at = Home
     THEN UNCHANGED <<at, bar, wire>>
     ELSE at' = Parent[at] /\ bar' = First(at') /\ Emit(Drawn(at', bar'))
  /\ UNCHANGED stray

Handle ==
  /\ keys # <<>> /\ Len(wire) < MaxWire
  /\ keys' = Tail(keys)
  /\ Down \/ Select \/ Back

\* Its clock or a status line changes on the screen.
Refresh ==
  /\ wire = <<>> /\ reader = "on"
  /\ wire' = <<[kind |-> "text", of |-> at]>>
  /\ UNCHANGED <<at, bar, keys, stray>>

PanelActs == ~Over /\ (Handle \/ Refresh) /\ UNCHANGED <<clientSide, walkSide>>

-----------------------------------------------------------------------------
(* The client. *)

\* PdaScreen.apply, and the counters.
Receive ==
  /\ reader = "on" /\ ~Over /\ wire # <<>>
  /\ wire' = Tail(wire)
  /\ text' = CASE Head(wire).kind = "clear" -> NoText
               [] Head(wire).kind = "text" -> Head(wire).of
               [] OTHER -> text
  /\ mark' = CASE Head(wire).kind = "clear" -> 0
               [] Head(wire).kind = "bar" -> Head(wire).on
               [] OTHER -> mark
  /\ heard' = TRUE
  /\ UNCHANGED <<reader, at, bar, keys, stray, walkSide>>

\* The connection breaks, or a packet is not usable.
ReaderFails ==
  /\ reader = "on" /\ ~Over /\ task # "connect"
  /\ reader' = "failed" /\ wire' = <<>>
  /\ UNCHANGED <<text, mark, heard, at, bar, keys, stray, walkSide>>

-----------------------------------------------------------------------------
(* The walker. *)

Ready(t) == task = t /\ await = "none"

\* The counters and the screen are read, the key is sent, the answer awaited.
SendKey(key) ==
  /\ Len(keys) < MaxUnhandled
  /\ keys' = Append(keys, [key |-> key,
                           target |-> IF key = "select" THEN Highlighted ELSE NoText])
  /\ before' = [lines |-> text, highlight |-> Highlighted]
  /\ heard' = FALSE
  /\ await' = IF key = "down" THEN "highlight" ELSE "screen"
  /\ UNCHANGED <<at, bar, wire, stray, text, mark, reader>>

Stay == UNCHANGED <<panelSide, clientSide, await, before>>

\* The WebSocket opens, and AqualinkD shows the current screen; or it does not.
Connect ==
  /\ Ready("connect")
  /\ \/ reader' = "on" /\ wire' = Drawn(at, bar) /\ await' = "packets" /\ UNCHANGED task
     \/ task' = "failed" /\ UNCHANGED <<reader, wire, await>>
  /\ UNCHANGED <<at, bar, keys, stray, text, mark, heard, before, found, tries, stack, visited,
                 late>>

\* return_aquapda_home: the screen is looked at before each "back".
Homeward ==
  /\ Ready("home") /\ tries < HomeAttempts
  /\ \/ /\ text = Home
        /\ task' = "enter" /\ tries' = 0 /\ Stay
     \/ /\ text # Home
        /\ SendKey("back")
        /\ tries' = tries + 1
        /\ UNCHANGED task
  /\ UNCHANGED <<found, stack, visited, late>>

\* _walk_menus: the traversal bound, then the first line of _enumerate_options.
Enter ==
  /\ Ready("enter")
  /\ Len(stack) <= MaxDepth /\ Len(visited) < MaxScreens
  /\ found' = IF Highlighted = NoText THEN <<>> ELSE <<Highlighted>>
  /\ task' = "enumerate" /\ tries' = 0
  /\ Stay /\ UNCHANGED <<stack, visited, late>>

NextOption ==
  /\ Ready("enumerate")
  /\ tries + 1 = Len(found) /\ Len(found) < MaxOptions
  /\ SendKey("down")
  /\ tries' = tries + 1
  /\ UNCHANGED <<task, found, stack, visited, late>>

NewOption ==
  /\ Ready("enumerate")
  /\ found # <<>> /\ tries = Len(found) /\ Highlighted \notin ToSet(found) \cup {NoText}
  /\ found' = Append(found, Highlighted)
  /\ Stay /\ UNCHANGED <<task, tries, stack, visited, late>>

\* Mutant: the last line found is lost.
CandidatesShort ==
  IF found = <<>> THEN <<>> ELSE SelectSeq(Front(found), LAMBDA o : o \in Structural)

\* The lines that _walk_menus visits.
Visitable ==
  LET kept[i \in 0 .. Len(found)] ==
        IF i = 0 THEN <<>>
        ELSE IF found[i] \in Structural THEN Append(kept[i - 1], found[i]) ELSE kept[i - 1]
  IN  kept[Len(found)]

\* The end of _enumerate_options: _walk_menus reports the screen and turns to its
\* candidates.
Record ==
  /\ visited' = Append(visited,
       [via |-> IF stack = <<>> THEN NoText ELSE Head(Last(stack)),
        screen |-> text, options |-> found])
  /\ stack' = Append(stack, Visitable)
  /\ task' = "move" /\ tries' = 0

Enumerated ==
  /\ Ready("enumerate")
  /\ \/ found = <<>>
     \/ tries + 1 = Len(found) /\ Len(found) >= MaxOptions
     \/ tries = Len(found) /\ Highlighted \in ToSet(found) \cup {NoText}
  /\ Record
  /\ Stay /\ UNCHANGED <<found, late>>

Target == Head(Last(stack))

AtTarget == Highlighted = Target

\* _move_to_option, then "select".
Move ==
  /\ Ready("move") /\ Last(stack) # <<>> /\ tries < MaxOptions
  /\ \/ AtTarget /\ SendKey("select") /\ task' = "enter" /\ UNCHANGED tries
     \/ ~AtTarget /\ SendKey("down") /\ tries' = tries + 1 /\ UNCHANGED task
  /\ UNCHANGED <<found, stack, visited, late>>

\* No candidate left: "back", and the caller goes on with its next one.
Leave ==
  /\ Ready("move") /\ Last(stack) = <<>> /\ Len(stack) > 1
  /\ SendKey("back")
  /\ stack' = [Front(stack) EXCEPT ![Len(stack) - 1] = Tail(@)]
  /\ tries' = 0
  /\ UNCHANGED <<task, found, visited, late>>

\* _coverage_report: the checks that the visited screens do not meet.
Missing ==
  {c \in {"setup", "freeze", "setpoint"} :
     CASE c = "setup" -> \A i \in DOMAIN visited : SetupLine \notin ToSet(visited[i].options)
       [] c = "freeze" -> \A i \in DOMAIN visited : visited[i].via # FreezeLine
       [] OTHER -> \A i \in DOMAIN visited :
                     visited[i].via = FreezeLine => visited[i].screen # Below[FreezeLine]}

\* A check that is not met fails on a PDA only: another panel, or one that is not
\* known, may lack these menus.
Walked ==
  /\ Ready("move") /\ Len(stack) = 1 /\ Last(stack) = <<>>
  /\ \E variant \in {"pda", "aquapalm", "unknown"} :
       task' = IF Len(visited) < 2 \/ (variant = "pda" /\ Missing # {})
               THEN "failed" ELSE "passed"
  /\ Stay /\ UNCHANGED <<found, tries, stack, visited, late>>

\* The bounds of the loops are exceeded.
GiveUp ==
  /\ \/ Ready("home") /\ tries = HomeAttempts
     \/ Ready("enter") /\ (Len(stack) > MaxDepth \/ Len(visited) >= MaxScreens)
     \/ Ready("move") /\ Last(stack) # <<>> /\ tries = MaxOptions
  /\ task' = "failed"
  /\ Stay /\ UNCHANGED <<found, tries, stack, visited, late>>

-----------------------------------------------------------------------------
(* Its waits. *)

\* The client does not show what the panel will show once it has answered.
Unanswered == keys # <<>> \/ text # at \/ mark # bar

Changed ==
  CASE await = "highlight" -> Highlighted \notin {NoText, before.highlight}
    [] await = "screen" -> text # before.lines
    [] OTHER -> TRUE

\* Mutant: the first change is taken for the whole answer.
NoticedAtOnce ==
  /\ await \in {"packets", "highlight", "screen"}
  /\ heard /\ Changed
  /\ await' = "none"
  /\ task' = IF task = "connect" THEN "home" ELSE task
  /\ UNCHANGED <<panelSide, clientSide, before, found, tries, stack, visited, late>>

\* wait_for_packets, wait_for_highlight_change, wait_for_screen_change
Noticed ==
  /\ await \in {"packets", "highlight", "screen"}
  /\ heard /\ Changed
  /\ await' = "settle"
  /\ UNCHANGED <<panelSide, clientSide, task, before, found, tries, stack, visited, late>>

\* wait_for_screen_settle: no update for a while.
Settled ==
  /\ await = "settle" /\ reader = "on"
  /\ await' = "none"
  /\ task' = IF task = "connect" THEN "home" ELSE task
  /\ late' = (late \/ Unanswered)
  /\ UNCHANGED <<panelSide, clientSide, before, found, tries, stack, visited>>

\* The timeout of a wait, which may win against the packet, or the error of the
\* reader.  _return_home goes on; _enumerate_options takes a bar that does not move
\* in time for the end of the menu.
WaitFails ==
  /\ await # "none"
  /\ await' = "none"
  /\ late' = (late \/ Unanswered \/ (await # "settle" /\ heard /\ Changed))
  /\ \/ task = "home" /\ UNCHANGED <<task, tries, stack, visited>>
     \/ task = "enumerate" /\ await = "highlight" /\ Record
     \/ /\ task # "home"
        /\ task = "enumerate" /\ await = "highlight" => reader = "failed"
        /\ task' = "failed"
        /\ UNCHANGED <<tries, stack, visited>>
  /\ UNCHANGED <<panelSide, clientSide, before, found>>

-----------------------------------------------------------------------------
WalkStep ==
  \/ Connect \/ Homeward \/ Enter \/ NextOption \/ NewOption \/ Enumerated
  \/ Move \/ Leave \/ Walked \/ GiveUp \/ Noticed \/ Settled \/ WaitFails

WalkNext == PanelActs \/ Receive \/ ReaderFails \/ WalkStep

\* Every wait has its timeout.  That the panel handles its keys and the client reads
\* its packets is needed for the bounds MaxUnhandled and MaxWire only.
WalkFairness ==
  /\ WF_walkVars(WalkStep)
  /\ WF_walkVars(Handle /\ PanelActs)
  /\ WF_walkVars(Receive)

WalkSafety == WalkInit /\ [][WalkNext]_walkVars
WalkSpec   == WalkSafety /\ WalkFairness

-----------------------------------------------------------------------------
(* Properties. *)

WalkTypeOK ==
  /\ at \in Screen /\ bar \in 0 .. Len(Options[at])
  /\ text \in Screen \cup {NoText} /\ mark \in Nat
  /\ heard \in BOOLEAN /\ reader \in {"off", "on", "failed"}
  /\ task \in {"connect", "home", "enter", "enumerate", "move", "passed", "failed"}
  /\ await \in {"none", "packets", "highlight", "screen", "settle"}
  /\ found \in Seq(Label) /\ tries \in 0 .. Max({HomeAttempts, MaxOptions})
  /\ Len(stack) <= MaxDepth + 1 /\ Len(visited) <= MaxScreens

\* The walker selects the line that it means to: unless a wait ended without the
\* panel's answer, no "select" reaches the panel while its bar is on another line.
SelectsIntended == stray # {} => late

\* A walk that passes and was always answered has visited every screen that a
\* structural line of a visited screen opens, listed all options of each, and left
\* the panel on its home screen.
VisitsAll ==
  task = "passed" /\ ~late =>
    /\ at = Home /\ Head(visited).screen = Home
    /\ \A i \in DOMAIN visited : LET s == visited[i].screen IN
         /\ ToSet(visited[i].options) = ToSet(Options[s])
         /\ \A o \in ToSet(Options[s]) \cap Structural :
              \E j \in DOMAIN visited : visited[j].via = o /\ visited[j].screen = Below[o]

\* Every walk ends.
WalkEnds == task = "connect" ~> Over
=============================================================================
