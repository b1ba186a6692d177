------------------------ MODULE PdaExercises_proofs -------------------------
(***************************************************************************)
(* Proofs about the exercises of a PDA session, for every set of switches, *)
(* every panel state and any number of exercises: a round trip that passes *)
(* has put everything back, and no step that is to leave the heaters cold  *)
(* makes one heat.                                                         *)
(***************************************************************************)
EXTENDS PdaExercises, SequenceFacts, TLAPS

-----------------------------------------------------------------------------
(* Sequences, and functions on them that are defined by recursion.           *)

\* Among, by what each element adds.
LEMMA AmongSteps ==
  ASSUME NEW X, NEW S, NEW q \in Seq(X)
  PROVE  \E k : /\ Among(q, S) = k[Len(q)] /\ k[0] = <<>>
                /\ \A i \in 1 .. Len(q) :
                     k[i] = IF q[i] \in S THEN Append(k[i - 1], q[i]) ELSE k[i - 1]
<1> DEFINE n == Len(q)
           V == Seq(X \cap S)
           Kept(k) == k = [i \in 0 .. n |->
                             IF i = 0 THEN <<>>
                             ELSE IF q[i] \in S THEN Append(k[i - 1], q[i]) ELSE k[i - 1]]
           step == [v \in V |-> [i \in 1 .. n |-> IF q[i] \in S THEN Append(v, q[i]) ELSE v]]
<1>0. n \in Nat /\ <<>> \in V /\ \A i \in 1 .. n : q[i] \in X
  OBVIOUS
<1>1. \A v \in V : \A i \in 1 .. n : q[i] \in S => Append(v, q[i]) \in V
  BY <1>0, AppendType
<1>2. \A v \in V : \A i \in 1 .. n : step[v][i] \in V
  BY <1>1
<1>3. PICK f : Recurs(f, n, <<>>, step)
  <2>1. n \in Nat /\ <<>> \in V
    BY <1>0
  <2> HIDE DEF V, step, n
  <2> QED
    BY <2>1, <1>2, Recursion
<1>4. Kept(f)
  <2>0. f = [i \in 0 .. n |-> f[i]] /\ f[0] = <<>> /\ \A i \in 1 .. n : f[i] = step[f[i - 1]][i]
    BY <1>3 DEF Recurs
  <2>1. \A i \in 1 .. n : f[i - 1] \in V => f[i] \in V
    BY <1>2, <2>0
  <2>2. \A i \in 0 .. n : f[i] \in V
    <3> HIDE DEF V, n, step
    <3> QED
      BY <1>0, <2>0, <2>1, Inherited
  <2>3. ASSUME NEW i \in 1 .. n
        PROVE  f[i] = IF q[i] \in S THEN Append(f[i - 1], q[i]) ELSE f[i - 1]
    <3>1. f[i - 1] \in V
      BY <1>0, <2>2
    <3> QED
      BY <2>0, <3>1
  <2> HIDE DEF step, V, n
  <2>4. \A i \in 0 .. n : i = 0 \/ i \in 1 .. n
    BY <1>0
  <2>5. \A i \in 0 .. n : f[i] = IF i = 0 THEN <<>>
                             ELSE IF q[i] \in S THEN Append(f[i - 1], q[i]) ELSE f[i - 1]
    BY <2>0, <2>3, <2>4
  <2> QED
    BY <2>0, <2>5
<1> DEFINE k == CHOOSE h : Kept(h)
<1>5. Kept(k)
  BY <1>4
<1>6. Among(q, S) = k[n]
  BY DEF Among
<1> HIDE DEF k
<1>7. k[0] = <<>> /\ \A i \in 1 .. n : k[i] = IF q[i] \in S THEN Append(k[i - 1], q[i]) ELSE k[i - 1]
  <2>1. \A i \in 0 .. n : k[i] = IF i = 0 THEN <<>>
                             ELSE IF q[i] \in S THEN Append(k[i - 1], q[i]) ELSE k[i - 1]
    BY <1>5
  <2> QED
    BY <1>0, <2>1
<1> QED
  BY <1>6, <1>7

\* What is kept of q is in both.
LEMMA AmongType ==
  ASSUME NEW X, NEW S, NEW q \in Seq(X)
  PROVE  Among(q, S) \in Seq(X \cap S)
<1> DEFINE n == Len(q)
           V == Seq(X \cap S)
<1>0. n \in Nat /\ <<>> \in V /\ \A i \in 1 .. n : q[i] \in X
  OBVIOUS
<1>1. \A v \in V : \A i \in 1 .. n : q[i] \in S => Append(v, q[i]) \in V
  BY <1>0, AppendType
<1>2. PICK k : /\ Among(q, S) = k[n] /\ k[0] = <<>>
               /\ \A i \in 1 .. n : k[i] = IF q[i] \in S THEN Append(k[i - 1], q[i]) ELSE k[i - 1]
  BY AmongSteps
<1>3. \A i \in 1 .. n : k[i - 1] \in V => k[i] \in V
  BY <1>1, <1>2
<1>4. \A i \in 0 .. n : k[i] \in V
  <2> HIDE DEF V, n
  <2> QED
    BY <1>0, <1>2, <1>3, Inherited
<1> QED
  BY <1>0, <1>2, <1>4

LEMMA RangeOf ==
  ASSUME NEW X, NEW q \in Seq(X)
  PROVE  /\ Range(q) \subseteq X /\ q \in Seq(Range(q))
         /\ Len(q) \in Nat /\ DOMAIN q = 1 .. Len(q) /\ \A i \in 1 .. Len(q) : q[i] \in X
BY DEF Range

-----------------------------------------------------------------------------
(* Round trips.                                                              *)

\* The devices, the requests for them, and the exercises that are round trips.
Device == Range(Equipment)
Requests == [do : {"set"}, device : Device, to : BOOLEAN]
Trips == {"consecutive", "sleep"}

\* What the assumption says of the switches, as devices.
LEMMA Constants ==
  /\ Switches \in Seq(Device) /\ Auxiliaries \in Seq(Device)
  /\ \A r \in Requestable : r \in Seq(Device)
  /\ "Filter_Pump" \in Device /\ "Spa" \in Device /\ Range(Switches) \subseteq Device
<1>1. Switches \in Seq(Range(Switches)) /\ Heaters \in Seq({"Pool_Heater", "Spa_Heater"})
  BY ExerciseAssumption DEF Heaters
<1> DEFINE X == Range(Switches) \cup {"Pool_Heater", "Spa_Heater"}
<1>2. \A q \in Seq(Range(Switches)) : q \in Seq(X)
  OBVIOUS
<1>3. Heaters \in Seq(X)
  BY DEF Heaters
<1>4. \A i \in DOMAIN Switches : i \in DOMAIN Equipment /\ Equipment[i] = Switches[i]
  BY <1>1, <1>2, <1>3 DEF Equipment
<1>5. Range(Switches) \subseteq Device
  BY <1>4 DEF Device, Range
<1>6. \A q \in Seq(Range(Switches)) : q \in Seq(Device)
  BY <1>5
<1> QED
  BY <1>1, <1>5, <1>6, ExerciseAssumption

\* The steps other than requests, the adjustments of a setpoint, and all steps.
Others == {"wait", "spaWater", "heats", "inactive", "poolWater", "settled", "raise", "verify"}
Adjustments == [do : {"setpoint"}, device : Range(Heaters), temperature : Minimum .. Maximum]
Ops == Requests \cup Adjustments \cup [do : Others]

\* FlattenSeq, by what each element adds.
LEMMA FlattenSteps ==
  ASSUME NEW X, NEW q \in Seq(Seq(X))
  PROVE  /\ q = <<>> => FlattenSeq(q) = <<>>
         /\ q # <<>> => \E k : /\ FlattenSeq(q) = k[Len(q)]
                               /\ \A i \in 1 .. Len(q) :
                                    k[i] = IF i = 1 THEN q[i] ELSE k[i - 1] \o q[i]
<1> DEFINE n == Len(q)
           V == Seq(X)
           Flattened(k) == k = [i \in 1 .. n |-> IF i = 1 THEN q[i] ELSE k[i - 1] \o q[i]]
           step == [v \in V |-> [i \in 1 .. n |-> IF i = 1 THEN q[i] ELSE v \o q[i]]]
<1>0. n \in Nat /\ <<>> \in V /\ \A i \in 1 .. n : q[i] \in V
  OBVIOUS
<1>1. CASE n = 0
  BY <1>0, <1>1 DEF FlattenSeq
<1>2. CASE n # 0
  <2>1. \A v \in V : \A i \in 1 .. n : v \o q[i] \in V
    BY <1>0
  <2>2. \A v \in V : \A i \in 1 .. n : step[v][i] \in V
    BY <1>0, <2>1
  <2>3. PICK f : Recurs(f, n, <<>>, step)
    <3> HIDE DEF V, step, n
    <3> QED
      BY <1>0, <2>2, Recursion
  <2>4. /\ f = [i \in 0 .. n |-> f[i]] /\ f[0] = <<>>
        /\ \A i \in 1 .. n : f[i] = step[f[i - 1]][i]
    BY <2>3 DEF Recurs
  <2>5. \A i \in 0 .. n : f[i] \in V
    <3>1. \A i \in 1 .. n : f[i - 1] \in V => f[i] \in V
      BY <2>2, <2>4
    <3> HIDE DEF V, n, step
    <3> QED
      BY <1>0, <2>4, <3>1, Inherited
  <2> DEFINE g == [i \in 1 .. n |-> f[i]]
  <2>6. Flattened(g)
    <3>1. ASSUME NEW i \in 1 .. n PROVE f[i] = IF i = 1 THEN q[i] ELSE g[i - 1] \o q[i]
      <4>1. f[i - 1] \in V
        BY <1>0, <2>5
      <4>2. f[i] = IF i = 1 THEN q[i] ELSE f[i - 1] \o q[i]
        BY <2>4, <4>1
      <4>3. i # 1 => i - 1 \in 1 .. n
        BY <1>0
      <4> QED
        BY <4>2, <4>3
    <3> QED
      BY <3>1
  <2> DEFINE k == CHOOSE h : Flattened(h)
  <2>7. Flattened(k)
    BY <2>6
  <2>8. FlattenSeq(q) = k[n]
    BY <1>2 DEF FlattenSeq
  <2> HIDE DEF k
  <2>9. \A i \in 1 .. n : k[i] = IF i = 1 THEN q[i] ELSE k[i - 1] \o q[i]
    BY <2>7
  <2>10. \E j : /\ FlattenSeq(q) = j[n]
                /\ \A i \in 1 .. n : j[i] = IF i = 1 THEN q[i] ELSE j[i - 1] \o q[i]
    BY <2>8, <2>9
  <2> QED
    BY <1>2, <2>10
<1> QED
  BY <1>1, <1>2

\* What holds of the elements and is kept by concatenation.
LEMMA FlattenIn ==
  ASSUME NEW X, NEW V \in SUBSET Seq(X), <<>> \in V, \A a, b \in V : a \o b \in V, NEW q \in Seq(V)
  PROVE  FlattenSeq(q) \in V
<1> DEFINE n == Len(q)
<1>0. n \in Nat /\ \A i \in 1 .. n : q[i] \in V
  OBVIOUS
<1>1. q \in Seq(Seq(X))
  OBVIOUS
<1>2. CASE q = <<>>
  BY <1>1, <1>2, FlattenSteps
<1>3. CASE q # <<>>
  <2>1. PICK k : /\ FlattenSeq(q) = k[n]
                 /\ \A i \in 1 .. n : k[i] = IF i = 1 THEN q[i] ELSE k[i - 1] \o q[i]
    BY <1>1, <1>3, FlattenSteps
  <2> DEFINE r == [i \in 0 .. n |-> IF i = 0 THEN <<>> ELSE k[i]]
  <2>10. r[0] \in V /\ \A i \in 1 .. n : r[i] = k[i]
    BY <1>0
  <2>11. ASSUME NEW i \in 1 .. n, r[i - 1] \in V PROVE r[i] \in V
    <3>1. CASE i = 1
      BY <1>0, <2>1, <2>10, <3>1
    <3>2. CASE i # 1
      <4>1. i - 1 \in 1 .. n
        BY <1>0, <3>2
      <4>2. r[i] = k[i - 1] \o q[i] /\ r[i - 1] = k[i - 1]
        BY <2>1, <2>10, <3>2, <4>1
      <4> QED
        BY <1>0, <2>11, <4>2
    <3> QED
      BY <3>1, <3>2
  <2>12. \A i \in 0 .. n : r[i] \in V
    <3> HIDE DEF n, r
    <3> QED
      BY <1>0, <2>10, <2>11, Inherited
  <2>13. n \in 1 .. n
    BY <1>0, <1>3
  <2> QED
    BY <2>1, <2>10, <2>12, <2>13
<1> QED
  BY <1>2, <1>3

\* The heaters by name; the equipment is what there is of devices.
LEMMA HeaterNames ==
  /\ Range(Heaters) = {"Pool_Heater", "Spa_Heater"} /\ Range(Heaters) \subseteq Device
  /\ Heaters \in Seq(Range(Heaters)) /\ Equipment \in Seq(Device)
<1>1. Heaters \in Seq({"Pool_Heater", "Spa_Heater"}) /\ DOMAIN Heaters = 1 .. 2
      /\ Heaters[1] = "Pool_Heater" /\ Heaters[2] = "Spa_Heater"
  BY DEF Heaters
<1>2. Range(Heaters) = {"Pool_Heater", "Spa_Heater"}
  BY <1>1 DEF Range
<1> DEFINE X == Range(Switches) \cup {"Pool_Heater", "Spa_Heater"}
<1>3. Switches \in Seq(X) /\ Heaters \in Seq(X)
  BY <1>1, ExerciseAssumption
<1>4. /\ Equipment \in Seq(X) /\ DOMAIN Equipment = 1 .. Len(Switches) + Len(Heaters)
      /\ \A i \in 1 .. Len(Heaters) : Equipment[Len(Switches) + i] = Heaters[i]
  BY <1>3, ConcatParts DEF Equipment
<1>5. Equipment \in Seq(Range(Equipment))
  BY <1>4, RangeOf
<1>6. Len(Heaters) = 2 /\ Len(Switches) \in Nat
  BY <1>3 DEF Heaters
<1>7. {"Pool_Heater", "Spa_Heater"} \subseteq Device
  <2>1. \A i \in 1 .. 2 : Len(Switches) + i \in DOMAIN Equipment /\ Equipment[Len(Switches) + i] = Heaters[i]
    BY <1>4, <1>6
  <2> QED
    BY <1>1, <2>1 DEF Range, Device
<1> QED
  BY <1>1, <1>2, <1>5, <1>7 DEF Device

\* The types, and those of what the programs are made from.
TypeInv ==
  /\ ExercisesTypeOK
  /\ water \in Int /\ requested \in Requestable
  /\ initial \in [on : [Device -> BOOLEAN], setpoint : [Range(Heaters) -> Minimum .. Maximum]]
  /\ todo \in Seq(Ops)

LEMMA OpTypes ==
  /\ \A d \in Device, to \in BOOLEAN : Set(d, to) \in Requests
  /\ \A h \in Range(Heaters), t \in Minimum .. Maximum : SetTo(h, t) \in Ops
  /\ \A w \in Others : Op(w) \in Ops
  /\ Requests \subseteq Ops
<1>1. \A d \in Device, to \in BOOLEAN : Set(d, to) \in Requests
  BY DEF Set, Requests
<1>2. \A h \in Range(Heaters), t \in Minimum .. Maximum : SetTo(h, t) \in Adjustments
  BY DEF SetTo, Adjustments
<1>3. \A w \in Others : Op(w) \in [do : Others]
  BY DEF Op
<1> QED
  BY <1>1, <1>2, <1>3 DEF Ops

\* What a member of Ops is, by what it does.
LEMMA OpParts ==
  ASSUME NEW o \in Ops
  PROVE  /\ o.do = "set" => o.device \in Device /\ o.to \in BOOLEAN
         /\ o.do = "setpoint" => o.device \in Range(Heaters) /\ o.temperature \in Minimum .. Maximum
<1>1. CASE o \in Requests
  BY <1>1 DEF Requests
<1>2. CASE o \in Adjustments
  BY <1>2 DEF Adjustments
<1>3. CASE o \in [do : Others]
  BY <1>3 DEF Others
<1> QED
  BY <1>1, <1>2, <1>3 DEF Ops

LEMMA IfType ==
  ASSUME NEW X, NEW q, NEW c, c => q \in Seq(X)
  PROVE  If(c, q) \in Seq(X)
BY DEF If

LEMMA SixType ==
  ASSUME NEW X, NEW a \in X, NEW b \in X, NEW c \in X, NEW d \in X, NEW e \in X, NEW f \in X
  PROVE  <<a, b, c, d, e, f>> \in Seq(X) /\ <<a, b, c, d, e>> \in Seq(X) /\ <<a, b, c, d>> \in Seq(X)
         /\ <<a, b>> \in Seq(X) /\ <<a>> \in Seq(X)
OBVIOUS

\* The programs of a heater exercise and of _make_heaters_nonheating.
LEMMA HeaterProgramType ==
  ASSUME TypeInv, NEW h \in Range(Heaters)
  PROVE  HeaterProgram(h) \in Seq(Ops) /\ Nonheating(h) \in Seq(Ops)
<1>1. Minimum \in Minimum .. Maximum /\ Minimum + 1 \in Minimum .. Maximum
  BY ExerciseAssumption
<1>2. /\ Set(h, FALSE) \in Ops /\ Set(h, TRUE) \in Ops /\ Op("inactive") \in Ops
      /\ SetTo(h, Minimum) \in Ops /\ SetTo(h, Minimum + 1) \in Ops
  BY <1>1, OpTypes, HeaterNames DEF Others
<1>3. /\ <<Set(h, FALSE)>> \in Seq(Ops) /\ <<SetTo(h, Minimum)>> \in Seq(Ops)
      /\ <<SetTo(h, Minimum), SetTo(h, Minimum + 1), SetTo(h, Minimum),
            Set(h, TRUE), Op("inactive"), Set(h, FALSE)>> \in Seq(Ops)
  <2> DEFINE off == Set(h, FALSE)
             raise == Set(h, TRUE)
             low == SetTo(h, Minimum)
             up == SetTo(h, Minimum + 1)
             look == Op("inactive")
  <2>1. off \in Ops /\ raise \in Ops /\ low \in Ops /\ up \in Ops /\ look \in Ops
    BY <1>2
  <2> HIDE DEF off, raise, low, up, look
  <2>2. <<off>> \in Seq(Ops) /\ <<low>> \in Seq(Ops)
    BY <2>1, SixType
  <2>3. <<low, up, low, raise, look, off>> \in Seq(Ops)
    BY <2>1, SixType
  <2> QED
    BY <2>2, <2>3 DEF off, raise, low, up, look
<1>4. /\ If(initial.on[h], <<Set(h, FALSE)>>) \in Seq(Ops)
      /\ If(initial.setpoint[h] # Minimum, <<SetTo(h, Minimum)>>) \in Seq(Ops)
  BY <1>3, IfType
<1> QED
  BY <1>3, <1>4, ConcatParts DEF HeaterProgram, Nonheating

-----------------------------------------------------------------------------
(* The parts of the status program.                                          *)

\* The steps that switch heater h on, and the parts of the program.
Raise(h) == If(h = "Pool_Heater", <<Op("poolWater")>>) \o <<Set(h, TRUE)>>

LowersAll == ForEach(StatusHeaters, Nonheating)
Middle == Each(StatusSwitches, LAMBDA d : Set(d, TRUE))
Raises == ForEach(StatusHeaters, Raise)

LEMMA StatusProgramIs ==
  StatusProgram # <<>> =>
    StatusProgram = LowersAll \o <<Op("wait")>> \o Middle \o Raises \o <<Op("settled")>>
BY DEF StatusProgram, If, LowersAll, Middle, Raises, Raise

\* The heaters it uses are not excluded and did not heat at the start of the session, and
\* the spa was off.
IdleHeaters == {h \in Range(Heaters) \ excluded : ~initial.on["Spa"] /\ ~WasActive(h)}

\* The switches that do not route water.
Dry == Range(Switches) \ Hydraulic

LEMMA StatusDevices ==
  StatusHeaters \in Seq(IdleHeaters) /\ StatusSwitches \in Seq(Dry)
<1>1. StatusHeaters \in Seq(IdleHeaters)
  <2> DEFINE S == {h \in Range(Heaters) \ excluded : ~WasActive(h)}
  <2>1. Among(Heaters, S) \in Seq(Range(Heaters) \cap S)
    BY HeaterNames, AmongType
  <2>2. ~initial.on["Spa"] => Range(Heaters) \cap S = IdleHeaters
    BY DEF IdleHeaters
  <2>3. <<>> \in Seq(IdleHeaters)
    OBVIOUS
  <2> QED
    BY <2>1, <2>2, <2>3 DEF StatusHeaters, If
<1>2. StatusSwitches \in Seq(Dry)
  <2> DEFINE r == StatusCandidates
             T == Device \cap (Range(Equipment) \ (Hydraulic \cup excluded))
  <2>1. r \in Seq(T)
    BY HeaterNames, AmongType DEF StatusCandidates, Without
  <2> HIDE DEF r, T
  <2>2. Among(r, Range(r) \ Range(Heaters)) \in Seq(T \cap (Range(r) \ Range(Heaters)))
    BY <2>1, AmongType
  <2>3. T \cap (Range(r) \ Range(Heaters)) \subseteq Dry
    <3>1. Device \subseteq Range(Switches) \cup Range(Heaters)
      <4>1. Switches \in Seq(Range(Switches)) /\ Heaters \in Seq(Range(Heaters))
        BY ExerciseAssumption, HeaterNames
      <4> DEFINE U == Range(Switches) \cup Range(Heaters)
      <4>2. Switches \in Seq(U) /\ Heaters \in Seq(U)
        BY <4>1
      <4>3. Equipment \in Seq(U)
        BY <4>2, ConcatParts DEF Equipment
      <4> QED
        BY <4>3, RangeOf DEF Device
    <3> QED
      BY <3>1 DEF T, Dry
  <2> QED
    BY <2>2, <2>3 DEF StatusSwitches, Without, r
<1> QED
  BY <1>1, <1>2

\* What the parts for the heaters are, from what they are for each.
LEMMA PartsIn ==
  ASSUME NEW X, NEW V \in SUBSET Seq(X), <<>> \in V, \A a, b \in V : a \o b \in V
  PROVE  /\ (\A h \in IdleHeaters : Nonheating(h) \in V) => LowersAll \in V
         /\ (\A h \in IdleHeaters : Raise(h) \in V) => Raises \in V
<1> DEFINE q == StatusHeaters
           n == Len(q)
<1>1. n \in Nat /\ DOMAIN q = 1 .. n /\ \A i \in 1 .. n : q[i] \in IdleHeaters
  BY StatusDevices
<1> HIDE DEF n, q
<1>2. ASSUME \A h \in IdleHeaters : Nonheating(h) \in V PROVE LowersAll \in V
  <2>1. Each(q, Nonheating) = [i \in 1 .. n |-> Nonheating(q[i])]
    BY <1>1 DEF Each
  <2>2. [i \in 1 .. n |-> Nonheating(q[i])] \in Seq(V)
    BY <1>1, <1>2
  <2>3. FlattenSeq(Each(q, Nonheating)) \in V
    BY <2>1, <2>2, FlattenIn
  <2> QED
    BY <2>3 DEF LowersAll, ForEach, q
<1>3. ASSUME \A h \in IdleHeaters : Raise(h) \in V PROVE Raises \in V
  <2>1. Each(q, Raise) = [i \in 1 .. n |-> Raise(q[i])]
    BY <1>1 DEF Each
  <2>2. [i \in 1 .. n |-> Raise(q[i])] \in Seq(V)
    BY <1>1, <1>3
  <2>3. FlattenSeq(Each(q, Raise)) \in V
    BY <2>1, <2>2, FlattenIn
  <2> QED
    BY <2>3 DEF Raises, ForEach, q
<1> QED
  BY <1>2, <1>3

LEMMA MiddleIn ==
  ASSUME NEW Y, \A d \in Dry : Set(d, TRUE) \in Y
  PROVE  Middle \in Seq(Y)
<1> DEFINE q == StatusSwitches
           n == Len(q)
           up(i) == Set(q[i], TRUE)
<1>1. n \in Nat /\ DOMAIN q = 1 .. n /\ \A i \in 1 .. n : q[i] \in Dry
  BY StatusDevices
<1>2. Middle = [i \in 1 .. n |-> up(i)]
  BY <1>1 DEF Middle, Each
<1> HIDE DEF n, q
<1>3. \A i \in 1 .. n : up(i) \in Y
  BY <1>1
<1> HIDE DEF up
<1> QED
  BY <1>1, <1>2, <1>3

LEMMA StatusProgramType ==
  ASSUME TypeInv
  PROVE  StatusProgram \in Seq(Ops)
<1> DEFINE V == Seq(Ops)
<1>1. V \in SUBSET Seq(Ops) /\ <<>> \in V /\ \A a, b \in V : a \o b \in V
  OBVIOUS
<1>2. \A h \in IdleHeaters : Nonheating(h) \in V
  BY HeaterProgramType DEF IdleHeaters
<1>3. ASSUME NEW h \in IdleHeaters PROVE Raise(h) \in V
  <2>1. Op("poolWater") \in Ops /\ Set(h, TRUE) \in Ops
    BY OpTypes, HeaterNames DEF Others, IdleHeaters
  <2>2. <<Op("poolWater")>> \in V /\ <<Set(h, TRUE)>> \in V
    BY <2>1, SixType
  <2>3. If(h = "Pool_Heater", <<Op("poolWater")>>) \in V
    BY <2>2, IfType
  <2> QED
    BY <1>1, <2>2, <2>3 DEF Raise
<1>4. LowersAll \in V /\ Raises \in V
  <2> HIDE DEF V
  <2> QED
    BY <1>1, <1>2, <1>3, PartsIn
<1>5. Middle \in Seq(Ops)
  <2>1. \A d \in Dry : Set(d, TRUE) \in Ops
    BY Constants, OpTypes DEF Dry
  <2> QED
    BY <2>1, MiddleIn
<1>6. <<Op("wait")>> \in Seq(Ops) /\ <<Op("settled")>> \in Seq(Ops) /\ <<>> \in Seq(Ops)
  BY OpTypes, SixType DEF Others
<1>7. LowersAll \o <<Op("wait")>> \o Middle \o Raises \o <<Op("settled")>> \in Seq(Ops)
  <2> DEFINE w == <<Op("wait")>>
             t == <<Op("settled")>>
  <2>1. w \in Seq(Ops) /\ t \in Seq(Ops)
    BY <1>6
  <2> HIDE DEF w, t
  <2>2. LowersAll \o w \o Middle \o Raises \o t \in Seq(Ops)
    BY <1>4, <1>5, <2>1
  <2> QED
    BY <2>2 DEF w, t
<1> QED
  BY <1>6, <1>7, StatusProgramIs

-----------------------------------------------------------------------------
(* Types.                                                                    *)

\* A request for one device leaves the others, the spa and its pump apart.
LEMMA SwitchedOne ==
  ASSUME NEW s \in [Device -> BOOLEAN], NEW d \in Device, NEW to \in BOOLEAN
  PROVE  /\ Switched(s, d, to) \in [Device -> BOOLEAN]
         /\ Switched(s, d, to)[d] = to
         /\ \A e \in Device \ {d} :
              e \notin {"Filter_Pump", "Spa"} \/ (d # "Spa" /\ e # "Spa") =>
                Switched(s, d, to)[e] = s[e]
BY Constants DEF Switched

LEMMA SelectionType == TypeInv => Selection \in Seq(Range(Switches))
BY ExerciseAssumption DEF Selection, TypeInv

\* The sleep test device is a switch.
LEMMA SleepDevice ==
  ASSUME TypeInv, SleepCandidates # <<>>
  PROVE  Last(SleepCandidates) \in Range(Switches)
<1> DEFINE X == Range(Switches)
<1>2. Among(Switches, Hydraulic) \in Seq(X)
  <2>0. Switches \in Seq(X)
    BY ExerciseAssumption
  <2> HIDE DEF X
  <2>1. Among(Switches, Hydraulic) \in Seq(X \cap Hydraulic)
    BY <2>0, AmongType
  <2> QED
    BY <2>1
<1>3. SleepOrder \in Seq(X)
  <2>1. "Filter_Pump" \in X /\ Auxiliaries \in Seq(X)
    BY ExerciseAssumption
  <2> HIDE DEF X
  <2>2. <<"Filter_Pump">> \in Seq(X)
    BY <2>1
  <2> QED
    BY <1>2, <2>1, <2>2 DEF SleepOrder
<1> HIDE DEF X
<1>4. SleepCandidates \in Seq(X)
  <2> DEFINE r == Among(SleepOrder, Range(Selection))
  <2>1. r \in Seq(X \cap Range(Selection))
    BY <1>3, AmongType
  <2> HIDE DEF r
  <2>2. Among(r, Range(r) \ excluded) \in Seq((X \cap Range(Selection)) \cap (Range(r) \ excluded))
    BY <2>1, AmongType
  <2> QED
    BY <2>2 DEF SleepCandidates, Without, r
<1> QED
  BY <1>4 DEF Last, X

\* Every program is made of steps.
LEMMA ProgramTypes ==
  ASSUME TypeInv, NEW name \in DOMAIN Program
  PROVE  Program[name] \in Seq(Ops)
<1>1. ConsecutiveProgram \in Seq(Ops)
  <2>1. Selection \in Seq(Device)
    BY Constants DEF Selection, TypeInv
  <2>2. Among(Selection, Range(Selection) \ (Hydraulic \cup excluded)) \in
          Seq(Device \cap (Range(Selection) \ (Hydraulic \cup excluded)))
    BY <2>1, AmongType
  <2>3. Consecutive \in Seq(Device)
    BY <2>2 DEF Consecutive, Without
  <2>4. Reverse(Consecutive) \in Seq(Device)
    BY <2>3 DEF Reverse
  <2>5. \A d \in Device : Set(d, initial.on[d]) \in Requests /\ Set(d, ~initial.on[d]) \in Requests
    BY OpTypes DEF TypeInv
  <2> DEFINE n == Len(Consecutive)
             q == Consecutive
             r == Reverse(Consecutive)
  <2>6. /\ n \in Nat /\ DOMAIN q = 1 .. n /\ DOMAIN r = 1 .. n
        /\ \A i \in 1 .. n : q[i] \in Device /\ r[i] \in Device
    BY <2>3 DEF Reverse
  <2> HIDE DEF n, q, r
  <2>7. [i \in DOMAIN q |-> Set(q[i], ~initial.on[q[i]])] \in Seq(Requests)
        /\ [i \in DOMAIN r |-> Set(r[i], initial.on[r[i]])] \in Seq(Requests)
    BY <2>5, <2>6
  <2>8. Each(q, LAMBDA d : Set(d, ~initial.on[d])) \in Seq(Requests)
        /\ Each(r, LAMBDA d : Set(d, initial.on[d])) \in Seq(Requests)
    BY <2>7 DEF Each
  <2> QED
    BY <2>8, OpTypes, ConcatParts DEF ConsecutiveProgram, q, r
<1>2. SleepProgram \in Seq(Ops)
  <2>1. SleepCandidates # <<>> => Last(SleepCandidates) \in Device
    BY SleepDevice, Constants
  <2>2. SUFFICES ASSUME NEW d \in Device PROVE <<Set(d, ~initial.on[d]), Set(d, initial.on[d])>> \in Seq(Ops)
    BY <2>1, IfType DEF SleepProgram
  <2>4. Set(d, ~initial.on[d]) \in Ops /\ Set(d, initial.on[d]) \in Ops
    BY OpTypes DEF TypeInv
  <2> QED
    BY <2>4, SixType
<1>3. SpaProgram \in Seq(Ops)
  <2>1. /\ Set("Spa_Heater", FALSE) \in Ops /\ Set("Spa", FALSE) \in Ops
        /\ Set("Filter_Pump", TRUE) \in Ops /\ Op("wait") \in Ops
        /\ Set("Spa", TRUE) \in Ops /\ Op("spaWater") \in Ops
    BY OpTypes, HeaterNames, Constants DEF Others
  <2>2. <<Set("Spa_Heater", FALSE)>> \in Seq(Ops)
    BY <2>1, SixType
  <2>3. <<Set("Spa", FALSE), Set("Filter_Pump", TRUE), Op("wait"), Set("Spa", TRUE), Op("spaWater")>>
          \in Seq(Ops)
    BY <2>1, SixType
  <2> QED
    BY <2>2, <2>3, IfType, ConcatParts DEF SpaProgram
<1>4. StatusProgram \in Seq(Ops)
  BY StatusProgramType
<1>5. /\ If(HeaterSafe("Pool_Heater"), HeaterProgram("Pool_Heater")) \in Seq(Ops)
      /\ If(HeaterSafe("Spa_Heater"), HeaterProgram("Spa_Heater")) \in Seq(Ops)
  BY HeaterNames, HeaterProgramType, IfType
<1> QED
  BY <1>1, <1>2, <1>3, <1>4, <1>5 DEF Program

LEMMA SpaTargetType ==
  ASSUME TypeInv
  PROVE  SpaTarget \in Minimum .. Maximum
<1>1. initial.setpoint["Spa_Heater"] \in Minimum .. Maximum
  BY HeaterNames DEF TypeInv
<1> QED
  BY <1>1, ExerciseAssumption DEF SpaTarget, TypeInv

\* HeadOfTodo that switch nothing on.
Quiet == {o \in Ops : /\ o.do \in {"set", "raise", "verify"}
                      /\ o.do = "set" => o.device \in Range(Heaters) /\ o.to = FALSE}

\* What follows the setup switches nothing on.
LEMMA EmergencyQuiet ==
  Emergency \o <<Op("raise")>> \in Seq(Quiet) /\ <<Op("verify")>> \in Seq(Quiet)
<1> DEFINE S == {h \in controls \cap Range(Heaters) : Active(h)}
           q == Among(Heaters, S)
<1>1. q \in Seq(Range(Heaters) \cap S)
  BY HeaterNames, AmongType
<1>2. DOMAIN q = 1 .. Len(q) /\ Len(q) \in Nat /\ \A i \in 1 .. Len(q) : q[i] \in Range(Heaters)
  <2>1. q \in Seq(Range(Heaters))
    BY <1>1
  <2> HIDE DEF q
  <2> QED
    BY <2>1
<1> HIDE DEF q
<1>3. \A i \in 1 .. Len(q) : Set(q[i], FALSE) \in Quiet
  BY <1>2, OpTypes, HeaterNames DEF Quiet, Set
<1>4. Each(q, LAMBDA h : Set(h, FALSE)) = [i \in 1 .. Len(q) |-> Set(q[i], FALSE)]
  BY <1>2 DEF Each
<1>5. [i \in 1 .. Len(q) |-> Set(q[i], FALSE)] \in Seq(Quiet)
  <2> DEFINE off(i) == Set(q[i], FALSE)
  <2>1. \A i \in 1 .. Len(q) : off(i) \in Quiet
    BY <1>3
  <2> HIDE DEF off
  <2>2. [i \in 1 .. Len(q) |-> off(i)] \in Seq(Quiet)
    BY <1>2, <2>1
  <2> QED
    BY <2>2 DEF off
<1>6. Emergency \in Seq(Quiet)
  BY <1>4, <1>5 DEF Emergency, q
<1>7. Op("raise") \in Quiet /\ Op("verify") \in Quiet
  BY OpTypes DEF Quiet, Op, Others
<1> QED
  BY <1>6, <1>7, SixType, ConcatParts

LEMMA HeadOfTodo ==
  ASSUME TypeInv, todo # <<>>
  PROVE  Head(todo) \in Ops /\ Tail(todo) \in Seq(Ops)
BY DEF TypeInv

\* Every step of an exercise keeps the types.
LEMMA ExerciseTypesKept ==
  ASSUME TypeInv, [ExercisesNext]_exerciseVars
  PROVE  TypeInv'
<1> USE ExerciseAssumption
<1>0. SUFFICES ASSUME ExercisesNext PROVE TypeInv'
  BY DEF exerciseVars, panelState, TypeInv, ExercisesTypeOK, Program
<1>1. DOMAIN Program = DOMAIN Program' /\ TypeInv /\ ExercisesTypeOK
  BY DEF Program, TypeInv
<1>2. CASE Touch
  <2>1. PICK d \in Range(Heaters) \cup {"Filter_Pump", "Spa"} : on' = Switched(on, d, ~on[d])
    BY <1>2 DEF Touch
  <2>2. d \in Device
    BY HeaterNames, Constants
  <2>3. on' \in [Device -> BOOLEAN]
    BY <1>1, <2>1, <2>2, SwitchedOne, (~on[d]) \in BOOLEAN DEF ExercisesTypeOK, Device
  <2> QED
    BY <1>1, <1>2, <2>3 DEF Touch, TypeInv, ExercisesTypeOK, Device
<1>3. ASSUME NEW name \in DOMAIN Program, BeginExercise(name) PROVE TypeInv'
  BY <1>1, <1>3, ProgramTypes DEF BeginExercise, panelState, TypeInv, ExercisesTypeOK
<1>4. CASE SetDevice \/ RequestOverdue
  <2>1. Head(todo) \in Ops /\ Tail(todo) \in Seq(Ops) /\ Head(todo).do = "set"
    BY <1>4, HeadOfTodo DEF SetDevice, RequestOverdue, Doing
  <2>2. Head(todo).device \in Device /\ Head(todo).to \in BOOLEAN
    BY <2>1, OpParts
  <2>3. on' \in [Device -> BOOLEAN]
    BY <1>1, <1>4, <2>2, SwitchedOne DEF SetDevice, RequestOverdue, ExercisesTypeOK, Device
  <2>4. asked' \subseteq Device /\ controls' \subseteq Device
    BY <1>1, <1>4, <2>2 DEF SetDevice, RequestOverdue, ExercisesTypeOK, Device
  <2>5. todo' \in Seq(Ops) /\ result' \in {"running", "passed", "failed"}
    <3>1. CASE SetDevice
      BY <2>1, <3>1 DEF SetDevice, Proceed
    <3>2. CASE RequestOverdue
      BY <3>2 DEF RequestOverdue, Fail
    <3> QED
      BY <1>4, <3>1, <3>2
  <2> QED
    BY <1>1, <1>4, <2>3, <2>4, <2>5 DEF SetDevice, RequestOverdue, TypeInv, ExercisesTypeOK, Device
<1>5. CASE SetSetpoint
  <2>1. Head(todo) \in Ops /\ Tail(todo) \in Seq(Ops) /\ Head(todo).do = "setpoint"
    BY <1>5, HeadOfTodo DEF SetSetpoint, Doing
  <2>2. Head(todo).device \in Range(Heaters) /\ Head(todo).temperature \in Minimum .. Maximum
    BY <2>1, OpParts
  <2>3. setpoint' \in [Range(Heaters) -> Minimum .. Maximum] /\ asked' \subseteq Range(Equipment)
    BY <1>1, <1>5, <2>2, HeaterNames DEF SetSetpoint, ExercisesTypeOK, Device
  <2> QED
    BY <1>1, <1>5, <2>1, <2>3 DEF SetSetpoint, Proceed, TypeInv, ExercisesTypeOK
<1>6. ASSUME Observe, todo' \in Seq(Ops), result' \in {"running", "passed", "failed"} PROVE TypeInv'
  BY <1>1, <1>6 DEF Observe, panelState, TypeInv, ExercisesTypeOK
<1>7. CASE Abandon
  BY <1>6, <1>7 DEF Abandon, Fail
<1>8. CASE WaitForStable \/ SpaHeats \/ StaysInactive
  <2>1. Tail(todo) \in Seq(Ops)
    BY <1>8, HeadOfTodo DEF WaitForStable, SpaHeats, StaysInactive, Doing
  <2> QED
    BY <1>6, <1>8, <2>1 DEF WaitForStable, SpaHeats, StaysInactive, Proceed
<1>9. CASE SpaTemperature
  <2>1. /\ SetTo("Spa_Heater", SpaTarget) \in Ops /\ Set("Spa_Heater", TRUE) \in Ops
        /\ Op("heats") \in Ops /\ Set("Spa_Heater", FALSE) \in Ops /\ Set("Spa", FALSE) \in Ops
    BY SpaTargetType, OpTypes, HeaterNames, Constants DEF Others
  <2>2. /\ <<SetTo("Spa_Heater", SpaTarget)>> \in Seq(Ops)
        /\ <<Set("Spa_Heater", TRUE), Op("heats"), Set("Spa_Heater", FALSE), Set("Spa", FALSE)>> \in Seq(Ops)
    BY <2>1, SixType
  <2>3. If(SpaTarget # setpoint["Spa_Heater"], <<SetTo("Spa_Heater", SpaTarget)>>) \in Seq(Ops)
    BY <2>2, IfType
  <2>4. If(SpaTarget # setpoint["Spa_Heater"], <<SetTo("Spa_Heater", SpaTarget)>>)
          \o <<Set("Spa_Heater", TRUE), Op("heats"), Set("Spa_Heater", FALSE), Set("Spa", FALSE)>> \in Seq(Ops)
    BY <2>2, <2>3, ConcatParts
  <2> QED
    BY <1>6, <1>9, <2>4 DEF SpaTemperature, Proceed
<1>10. CASE PoolTemperature
  <2>1. Tail(todo) \in Seq(Ops)
    BY <1>10, HeadOfTodo DEF PoolTemperature, Doing
  <2>2. CASE Proceed(Tail(todo))
    BY <1>6, <1>10, <2>1, <2>2 DEF PoolTemperature, Proceed
  <2>3. CASE Proceed(SubSeq(todo, 3, Len(todo)))
    <3>1. SubSeq(todo, 3, Len(todo)) \in Seq(Ops)
      BY <1>1 DEF TypeInv
    <3> QED
      BY <1>6, <1>10, <2>3, <3>1 DEF PoolTemperature, Proceed
  <2> QED
    BY <1>10, <2>2, <2>3 DEF PoolTemperature
<1>11. CASE SetupComplete
  <2>1. Quiet \subseteq Ops
    BY DEF Quiet
  <2>2. Emergency \o <<Op("raise")>> \in Seq(Ops) /\ <<Op("verify")>> \in Seq(Ops)
    BY <2>1, EmergencyQuiet
  <2> QED
    BY <1>6, <1>11, <2>2 DEF SetupComplete, Proceed
<1>12. CASE VerifyStatus
  BY <1>6, <1>12 DEF VerifyStatus, Proceed
<1> QED
  BY <1>0, <1>2, <1>3, <1>4, <1>5, <1>7, <1>8, <1>9, <1>10, <1>11, <1>12 DEF ExercisesNext

\* What the rest of a round trip sends requests for.
Devices == {todo[i].device : i \in DOMAIN todo}

\* The spa and the pump affect each other: a round trip with the one has not the other.
Apart == "Spa" \notin Devices \cup asked \/ Devices \cup asked \subseteq {"Spa"}

\* The i-th step to come switches d back.
SwitchesBack(i, d) == todo[i].device = d /\ todo[i].to = initial.on[d]

\* Whatever is still to be switched away is switched back after that; what was
\* switched is back, or still to be switched back.
OnItsWay ==
  /\ todo \in Seq(Requests) /\ asked \subseteq Device /\ Apart
  /\ \A i \in DOMAIN todo :
       \/ SwitchesBack(i, todo[i].device)
       \/ \E j \in DOMAIN todo : i < j /\ SwitchesBack(j, todo[i].device)
  /\ Alone => \A d \in asked : on[d] = initial.on[d] \/ \E j \in DOMAIN todo : SwitchesBack(j, d)

\* The inductive invariant of RoundTrip.
TripInv ==
  /\ TypeInv
  /\ exercise \in Trips /\ result = "running" => OnItsWay
  /\ RoundTrip

LEMMA TripTypes ==
  ASSUME TripInv
  PROVE  /\ TypeInv /\ on \in [Device -> BOOLEAN] /\ initial.on \in [Device -> BOOLEAN]
         /\ requested \in Requestable /\ touches \in Nat
BY DEF TripInv, TypeInv, ExercisesTypeOK, Device

\* The consecutive exercise uses switches other than the spa, and whatever it switches
\* away it switches back after that.
LEMMA ConsecutiveGoes ==
  ASSUME TripInv
  PROVE  /\ ConsecutiveProgram \in Seq(Requests)
         /\ \A i \in DOMAIN ConsecutiveProgram :
              ConsecutiveProgram[i].device \in Range(Switches) \ {"Spa"}
         /\ \A i \in DOMAIN ConsecutiveProgram :
              LET d == ConsecutiveProgram[i].device IN
              \E j \in DOMAIN ConsecutiveProgram :
                /\ ConsecutiveProgram[j].device = d /\ ConsecutiveProgram[j].to = initial.on[d]
                /\ i < j \/ ConsecutiveProgram[i].to = initial.on[d]
<1> DEFINE X == Range(Switches) \ {"Spa"}
           q == Consecutive
           n == Len(q)
           away == Each(q, LAMBDA d : Set(d, ~initial.on[d]))
           back == Each(Reverse(q), LAMBDA d : Set(d, initial.on[d]))
<1>1. Selection \in Seq(Range(Switches))
  BY SelectionType, TripTypes
<1>2. q \in Seq(X)
  <2>1. Consecutive \in Seq(Range(Switches) \cap (Range(Selection) \ (Hydraulic \cup excluded)))
    BY <1>1, AmongType DEF Consecutive, Without
  <2>2. Range(Switches) \cap (Range(Selection) \ (Hydraulic \cup excluded)) \subseteq X
    BY DEF Hydraulic
  <2> QED
    BY <2>1, <2>2
<1> HIDE DEF q
<1>3. n \in Nat /\ DOMAIN q = 1 .. n /\ \A i \in 1 .. n : q[i] \in X
  BY <1>2
<1>4. \A i \in 1 .. n : Set(q[i], ~initial.on[q[i]]) \in Requests /\ Set(q[i], initial.on[q[i]]) \in Requests
  BY <1>3, TripTypes, Constants DEF Set, Requests
<1>5. away = [i \in 1 .. n |-> Set(q[i], ~initial.on[q[i]])]
  BY <1>3 DEF Each
<1>6. back = [i \in 1 .. n |-> Set(q[n - i + 1], initial.on[q[n - i + 1]])]
  BY <1>3 DEF Each, Reverse
<1>7. \A i \in 1 .. n : n - i + 1 \in 1 .. n
  BY <1>3
<1>8. away \in Seq(Requests) /\ back \in Seq(Requests) /\ Len(away) = n /\ Len(back) = n
  BY <1>3, <1>4, <1>5, <1>6, <1>7
<1>9. ConsecutiveProgram = away \o back
  BY DEF ConsecutiveProgram, q
<1> DEFINE p == ConsecutiveProgram
<1> HIDE DEF p, away, back
<1>10. Joined(p, away, back)
  BY <1>9 DEF p, Joined
<1>11. /\ p \in Seq(Requests) /\ Len(p) = n + n /\ DOMAIN p = 1 .. n + n
       /\ \A i \in 1 .. n : p[i] = away[i] /\ p[n + i] = back[i]
  <2> HIDE DEF n
  <2>1. /\ p \in Seq(Requests) /\ Len(p) = Len(away) + Len(back) /\ DOMAIN p = 1 .. Len(away) + Len(back)
        /\ \A i \in 1 .. Len(away) : p[i] = away[i]
        /\ \A i \in 1 .. Len(back) : p[Len(away) + i] = back[i]
    BY <1>8, <1>10, JoinedParts
  <2> QED
    BY <1>8, <2>1
<1>12. ASSUME NEW i \in 1 .. n
       PROVE  /\ p[i].device = q[i]
              /\ p[n + i].device = q[n - i + 1] /\ p[n + i].to = initial.on[q[n - i + 1]]
              /\ p[n + (n - i + 1)].device = q[i] /\ p[n + (n - i + 1)].to = initial.on[q[i]]
  <2>1. n - i + 1 \in 1 .. n /\ n - (n - i + 1) + 1 = i
    BY <1>3
  <2>2. p[i] = Set(q[i], ~initial.on[q[i]]) /\ p[n + i] = Set(q[n - i + 1], initial.on[q[n - i + 1]])
        /\ p[n + (n - i + 1)] = Set(q[i], initial.on[q[i]])
    BY <1>5, <1>6, <1>11, <2>1
  <2> QED
    BY <2>2 DEF Set
<1>13. ASSUME NEW i \in DOMAIN p
       PROVE  /\ p[i].device \in X
              /\ \E j \in DOMAIN p :
                   /\ p[j].device = p[i].device /\ p[j].to = initial.on[p[i].device]
                   /\ i < j \/ p[i].to = initial.on[p[i].device]
  <2>1. CASE i <= n
    <3>1. i \in 1 .. n /\ n + (n - i + 1) \in DOMAIN p /\ i < n + (n - i + 1)
      BY <1>3, <1>11, <2>1
    <3> QED
      BY <1>3, <1>12, <3>1
  <2>2. CASE ~(i <= n)
    <3> HIDE DEF n
    <3>0. i \in 1 .. n + n /\ n \in Nat
      BY <1>3, <1>11
    <3>1. i - n \in 1 .. n /\ n + (i - n) = i /\ n - (i - n) + 1 \in 1 .. n
      BY <2>2, <3>0
    <3>2. p[i].device = q[n - (i - n) + 1] /\ p[i].to = initial.on[q[n - (i - n) + 1]]
      BY <1>12, <3>1
    <3> QED
      BY <1>3, <3>1, <3>2
  <2> QED
    BY <2>1, <2>2
<1> QED
  BY <1>11, <1>13 DEF p

\* So does the sleep test, with one switch.
LEMMA SleepGoes ==
  ASSUME TripInv
  PROVE  SleepProgram = <<>> \/
           \E d \in Range(Switches) :
             SleepProgram = <<Set(d, ~initial.on[d]), Set(d, initial.on[d])>>
BY SleepDevice DEF SleepProgram, If, TripInv

\* A round trip begins on its way.
LEMMA TripBegins ==
  ASSUME TripInv, NEW name \in DOMAIN Program, BeginExercise(name)
  PROVE  TripInv'
<1>1. /\ exercise' = name /\ todo' = Program[name] /\ asked' = {} /\ touches' = touches
      /\ result' # "passed" /\ UNCHANGED <<on, initial, requested>>
      /\ result' \in {"running", "skipped", "failed"}
  BY DEF BeginExercise, panelState
<1>2. RoundTrip'
  BY <1>1 DEF RoundTrip
<1>3. TypeInv'
  BY ExerciseTypesKept, TripTypes DEF ExercisesNext
<1>4. CASE name = "consecutive"
  <2>1. todo' = ConsecutiveProgram
    BY <1>1, <1>4 DEF Program
  <2>2. OnItsWay'
    BY <1>1, <2>1, ConsecutiveGoes DEF OnItsWay, Apart, Devices, SwitchesBack
  <2> QED
    BY <1>2, <1>3, <2>2 DEF TripInv
<1>5. CASE name = "sleep"
  <2>1. todo' = SleepProgram
    BY <1>1, <1>5 DEF Program
  <2>2. CASE SleepProgram = <<>>
    BY <1>1, <1>3, <2>1, <2>2 DEF TripInv, OnItsWay, Apart, Devices, RoundTrip, Trips
  <2>3. ASSUME NEW d \in Range(Switches),
               SleepProgram = <<Set(d, ~initial.on[d]), Set(d, initial.on[d])>>
        PROVE  OnItsWay'
    <3>1. d \in Device /\ initial.on[d] \in BOOLEAN
      BY Constants, TripTypes
    <3>2. Set(d, ~initial.on[d]) \in Requests /\ Set(d, initial.on[d]) \in Requests
      BY <3>1 DEF Set, Requests
    <3>3. /\ todo' \in Seq(Requests) /\ DOMAIN todo' = 1 .. 2
          /\ todo'[1].device = d /\ todo'[2].device = d /\ todo'[2].to = initial.on[d]
      BY <2>1, <2>3, <3>2 DEF Set
    <3>4. Devices' = {d}
      BY <3>3 DEF Devices
    <3> QED
      BY <1>1, <3>3, <3>4 DEF OnItsWay, Apart, SwitchesBack
  <2> QED
    BY <1>2, <1>3, <2>2, <2>3, SleepGoes DEF TripInv
<1>6. CASE name \notin Trips
  BY <1>1, <1>2, <1>3, <1>6 DEF TripInv
<1> QED
  BY <1>4, <1>5, <1>6 DEF Trips

\* A request brings a round trip further.
LEMMA TripContinues ==
  ASSUME TripInv, SetDevice
  PROVE  TripInv'
<1>1. /\ UNCHANGED <<initial, requested, touches, exercise>>
      /\ result = "running" /\ todo # <<>> /\ todo' = Tail(todo)
      /\ on' = Switched(on, Head(todo).device, Head(todo).to)
      /\ asked' = asked \cup {Head(todo).device}
      /\ result' = IF Tail(todo) = <<>> THEN "passed" ELSE "running"
  BY DEF SetDevice, Doing, Proceed
<1>2. TypeInv'
  BY ExerciseTypesKept, TripTypes DEF ExercisesNext
<1>3. CASE exercise \notin Trips
  BY <1>1, <1>2, <1>3 DEF TripInv, RoundTrip, Trips
<1>4. CASE exercise \in Trips
  <2> DEFINE d == Head(todo).device
             n == Len(todo)
  <2>1. OnItsWay
    BY <1>1, <1>4 DEF TripInv
  <2>2. /\ n \in Nat \ {0} /\ DOMAIN todo = 1 .. n /\ todo' \in Seq(Requests)
        /\ DOMAIN todo' = 1 .. (n - 1) /\ \A i \in 1 .. (n - 1) : todo'[i] = todo[i + 1]
        /\ todo[1] = Head(todo) /\ d \in Device
    <3>1. todo \in Seq(Requests) /\ todo # <<>>
      BY <1>1, <2>1 DEF OnItsWay
    <3>2. todo[1] \in Requests /\ Head(todo) = todo[1]
      BY <3>1
    <3> QED
      BY <1>1, <3>1, <3>2 DEF Requests
  <2>0. Head(todo).to \in BOOLEAN
    <3>1. todo[1] \in Requests
      BY <2>1, <2>2 DEF OnItsWay
    <3> QED
      BY <2>2, <3>1 DEF Requests
  <2> HIDE DEF n
  <2>3. \A j \in 2 .. n : j - 1 \in 1 .. (n - 1) /\ todo'[j - 1] = todo[j]
    BY <2>2
  <2>4. Devices' \subseteq Devices /\ d \in Devices
    <3>1. \A i \in 1 .. (n - 1) : i + 1 \in DOMAIN todo /\ todo'[i] = todo[i + 1]
      BY <2>2
    <3>2. 1 \in DOMAIN todo
      BY <2>2
    <3> QED
      BY <2>2, <3>1, <3>2 DEF Devices
  <2>5. Apart'
    BY <1>1, <2>1, <2>4 DEF OnItsWay, Apart
  <2>6. ASSUME NEW e, NEW j \in 1 .. n, SwitchesBack(j, e), j # 1
        PROVE  j - 1 \in DOMAIN todo' /\ SwitchesBack(j - 1, e)'
    BY <1>1, <2>2, <2>3, <2>6 DEF SwitchesBack
  <2>7. ASSUME NEW i \in DOMAIN todo'
        PROVE  \/ SwitchesBack(i, todo[i].device)'
               \/ \E j \in DOMAIN todo' : i < j /\ SwitchesBack(j, todo[i].device)'
    <3>1. i \in Nat /\ i + 1 \in 1 .. n /\ todo'[i] = todo[i + 1] /\ i + 1 - 1 = i /\ i + 1 # 1
      BY <2>2
    <3>2. CASE SwitchesBack(i + 1, todo[i + 1].device)
      BY <2>6, <3>1, <3>2
    <3>3. ASSUME NEW j \in 1 .. n, i + 1 < j, SwitchesBack(j, todo[i + 1].device)
          PROVE  \E k \in DOMAIN todo' : i < k /\ SwitchesBack(k, todo[i].device)'
      BY <2>6, <3>1, <3>3
    <3> QED
      BY <2>1, <2>2, <3>1, <3>2, <3>3 DEF OnItsWay
  <2>8. ASSUME Alone', NEW e \in asked'
        PROVE  on'[e] = initial'.on[e] \/ \E j \in DOMAIN todo' : SwitchesBack(j, e)'
    <3>0. Alone
      BY <1>1, <2>8 DEF Alone
    <3>1. CASE e = d
      <4>1. on'[d] = todo[1].to
        BY <1>1, <2>0, <2>2, SwitchedOne, TripTypes
      <4>2. CASE SwitchesBack(1, d)
        BY <1>1, <3>1, <4>1, <4>2 DEF SwitchesBack
      <4>3. ASSUME NEW j \in 1 .. n, 1 < j, SwitchesBack(j, e)
            PROVE  \E k \in DOMAIN todo' : SwitchesBack(k, e)'
        BY <2>6, <4>3
      <4> QED
        BY <2>1, <2>2, <3>1, <4>2, <4>3 DEF OnItsWay
    <3>2. CASE e # d
      <4>0. e \in asked
        BY <1>1, <2>8, <3>2
      <4>1. CASE on[e] = initial.on[e]
        <5>1. e \notin {"Filter_Pump", "Spa"} \/ (d # "Spa" /\ e # "Spa")
          BY <2>1, <2>4, <3>2, <4>0 DEF OnItsWay, Apart
        <5>2. e \in Device \ {d}
          BY <2>1, <3>2, <4>0 DEF OnItsWay
        <5>3. on'[e] = on[e]
          BY <1>1, <2>0, <2>2, <5>1, <5>2, SwitchedOne, TripTypes
        <5> QED
          BY <1>1, <4>1, <5>3
      <4>2. ASSUME NEW j \in 1 .. n, SwitchesBack(j, e)
            PROVE  \E k \in DOMAIN todo' : SwitchesBack(k, e)'
        <5>1. j # 1
          BY <2>2, <3>2, <4>2 DEF SwitchesBack
        <5> QED
          BY <2>6, <4>2, <5>1
      <4> QED
        BY <2>1, <2>2, <3>0, <4>0, <4>1, <4>2 DEF OnItsWay
    <3> QED
      BY <3>1, <3>2
  <2>9. OnItsWay'
    <3>1. asked' \subseteq Device
      BY <1>1, <2>1, <2>2 DEF OnItsWay
    <3> QED
      BY <2>2, <2>5, <2>7, <2>8, <3>1 DEF OnItsWay
  <2>10. RoundTrip'
    <3>1. SUFFICES ASSUME result' = "passed" PROVE DOMAIN todo' = {}
      BY <2>9 DEF OnItsWay, RoundTrip, Trips
    <3> QED
      BY <1>1, <3>1
  <2> QED
    BY <1>2, <2>9, <2>10 DEF TripInv
<1> QED
  BY <1>3, <1>4

\* No other step is one of a round trip.
LEMMA OtherSteps ==
  ASSUME TripInv, TypeInv', NEW what, Doing(what), what # "set",
         UNCHANGED <<exercise, on, initial, touches>>
  PROVE  TripInv'
<1>1. exercise \notin Trips
  <2>1. SUFFICES ASSUME exercise \in Trips PROVE FALSE
    OBVIOUS
  <2>2. todo \in Seq(Requests) /\ todo # <<>>
    BY <2>1 DEF TripInv, OnItsWay, Doing
  <2>3. Head(todo) \in Requests
    BY <2>2
  <2> QED
    BY <2>3 DEF Doing, Requests
<1> QED
  BY <1>1 DEF TripInv, RoundTrip, Trips

\* Every step keeps it.
LEMMA TripKept ==
  ASSUME TripInv, [ExercisesNext]_exerciseVars
  PROVE  TripInv'
<1>0. TypeInv'
  BY ExerciseTypesKept, TripTypes
<1>1. CASE Touch
  <2>1. touches' = touches + 1 /\ UNCHANGED <<todo, initial, exercise, result, asked>>
    BY <1>1 DEF Touch
  <2>2. ~Alone'
    BY <2>1, TripTypes DEF Alone
  <2>3. Apart' = Apart
    BY <2>1 DEF Apart, Devices
  <2>4. \A i, d : SwitchesBack(i, d)' = SwitchesBack(i, d)
    BY <2>1 DEF SwitchesBack
  <2>5. OnItsWay => OnItsWay'
    BY <2>1, <2>2, <2>3, <2>4 DEF OnItsWay
  <2> QED
    BY <1>0, <2>1, <2>2, <2>5 DEF TripInv, RoundTrip
<1>2. ASSUME NEW name \in DOMAIN Program, BeginExercise(name) PROVE TripInv'
  BY <1>2, TripBegins
<1>3. CASE SetDevice
  BY <1>3, TripContinues
<1>4. CASE Abandon \/ RequestOverdue
  <2>1. result' = "failed"
    BY <1>4 DEF Abandon, RequestOverdue, Fail
  <2> QED
    BY <1>0, <2>1 DEF TripInv, RoundTrip
<1>5. CASE SetSetpoint
  <2>1. Doing("setpoint") /\ UNCHANGED <<exercise, on, initial, touches>>
    BY <1>5 DEF SetSetpoint
  <2> QED
    BY <1>0, <2>1, OtherSteps
<1>6. CASE WaitForStable \/ SpaTemperature \/ SpaHeats \/ StaysInactive \/ PoolTemperature
             \/ SetupComplete \/ VerifyStatus
  <2>1. UNCHANGED <<exercise, on, initial, touches>>
    BY <1>6 DEF WaitForStable, SpaTemperature, SpaHeats, StaysInactive, PoolTemperature,
                SetupComplete, VerifyStatus, Observe, panelState
  <2>2. \/ Doing("wait") \/ Doing("spaWater") \/ Doing("heats") \/ Doing("inactive")
        \/ Doing("poolWater") \/ Doing("settled") \/ Doing("verify")
    BY <1>6 DEF WaitForStable, SpaTemperature, SpaHeats, StaysInactive, PoolTemperature,
                SetupComplete, VerifyStatus
  <2> QED
    BY <1>0, <2>1, <2>2, OtherSteps
<1>7. CASE UNCHANGED exerciseVars
  <2>1. UNCHANGED <<on, initial, requested, touches, exercise, result, todo, asked>>
    BY <1>7 DEF exerciseVars, panelState
  <2>2. OnItsWay => OnItsWay'
    <3>1. Apart' = Apart
      BY <2>1 DEF Apart, Devices
    <3>2. \A i, d : SwitchesBack(i, d)' = SwitchesBack(i, d)
      BY <2>1 DEF SwitchesBack
    <3> QED
      BY <2>1, <3>1, <3>2 DEF OnItsWay, Alone
  <2>3. RoundTrip'
    BY <2>1 DEF TripInv, RoundTrip, Alone
  <2> QED
    BY <1>0, <2>1, <2>2, <2>3 DEF TripInv
<1> QED
  BY <1>1, <1>2, <1>3, <1>4, <1>5, <1>6, <1>7 DEF ExercisesNext

LEMMA ExerciseTypesBegin == ExercisesInit => TypeInv
<1> SUFFICES ASSUME ExercisesInit PROVE TypeInv
  OBVIOUS
<1>1. /\ on \in [Device -> BOOLEAN] /\ setpoint \in [Range(Heaters) -> Minimum .. Maximum]
      /\ water \in Int
  BY ExerciseAssumption DEF ExercisesInit, Device
<1>2. initial = [on |-> on, setpoint |-> setpoint] /\ todo = <<>> /\ requested \in Requestable
  BY DEF ExercisesInit
<1>3. ExercisesTypeOK
  BY <1>1, ExerciseAssumption DEF ExercisesInit, ExercisesTypeOK, Device
<1> QED
  BY <1>1, <1>2, <1>3 DEF TypeInv

\* The panel, the exercise and its result keep their types, and the session its bound.
THEOREM ExercisesTypeCorrect == ExercisesSpec => []ExercisesTypeOK
<1>1. TypeInv /\ [ExercisesNext]_exerciseVars => TypeInv'
  BY ExerciseTypesKept
<1>2. TypeInv => ExercisesTypeOK
  BY DEF TypeInv
<1> QED
  BY <1>1, <1>2, ExerciseTypesBegin, PTL DEF ExercisesSpec

\* A round trip (run_consecutive_devices, _toggle_round_trip) that passes leaves every
\* device that it sent a request for as the session's snapshot has it.
THEOREM RoundTripsReturn == ExercisesSpec => []RoundTrip
<1>1. ExercisesInit => TripInv
  BY ExerciseTypesBegin DEF ExercisesInit, TripInv, RoundTrip, Trips
<1>2. TripInv /\ [ExercisesNext]_exerciseVars => TripInv'
  BY TripKept
<1>3. TripInv => RoundTrip
  BY DEF TripInv
<1> QED
  BY <1>1, <1>2, <1>3, PTL DEF ExercisesSpec

-----------------------------------------------------------------------------
(* Nonheating steps.                                                         *)

\* What holds while no exercise is running, if nobody else was at the panel.
SpaRests == initial.on["Spa"] \/ ~on["Spa"]
PumpRuns == initial.on["Filter_Pump"] => on["Filter_Pump"]
PointKept ==
  \/ setpoint["Pool_Heater"] = initial.setpoint["Pool_Heater"]
  \/ setpoint["Pool_Heater"] = Minimum
PoolCold ==
  on["Pool_Heater"] /\ ~initial.on["Pool_Heater"] =>
    water > Minimum /\ setpoint["Pool_Heater"] = Minimum

AtRest == SpaRests /\ PumpRuns /\ PointKept /\ PoolCold

\* The step switches d to to; it sends a request; the exercises of a heater, and which.
IsSet(o, d, to) == o.do = "set" /\ o.device = d /\ o.to = to
Sends(o) == o.do \in {"set", "setpoint"}
Heating == {"pool", "spaHeater"}
HeaterOf(e) == IF e = "pool" THEN "Pool_Heater" ELSE "Spa_Heater"

\* The steps that exercise e may have before it.
Own(e, o) ==
  /\ e \in Trips => o.do = "set" /\ o.device \in Range(Switches)
  /\ e = "spa" =>
       /\ o.do \in {"set", "setpoint", "wait", "spaWater", "heats"}
       /\ Sends(o) => o.device \in {"Spa_Heater", "Spa", "Filter_Pump"}
       /\ IsSet(o, "Filter_Pump", FALSE) => FALSE
  /\ e = "status" =>
       /\ o.do \notin {"spaWater", "heats", "inactive"}
       /\ o.do = "set" => o.device \in Range(Heaters) \/ (o.to /\ o.device # "Spa")
       /\ o.do = "setpoint" => o.temperature = Minimum
  /\ e \in Heating =>
       /\ o.do \in {"set", "setpoint", "inactive"}
       /\ Sends(o) => o.device = HeaterOf(e)
       /\ o.do = "setpoint" => o.temperature \in {Minimum, Minimum + 1}

\* A round trip: a device that it has not used is what it was.
InTrip ==
  /\ ("Spa" \in asked \/ SpaRests) /\ ("Filter_Pump" \in asked \/ PumpRuns)
  /\ PointKept /\ PoolCold

\* Spa heating: the spa is switched off last.
InSpa ==
  /\ PumpRuns /\ PointKept /\ PoolCold
  /\ todo # <<>>
  /\ todo[Len(todo)].do = "spaWater" \/ IsSet(todo[Len(todo)], "Spa", FALSE)

\* The setpoint goes up by one degree, and back.
GoesBack(q) ==
  \A i \in DOMAIN q : q[i].do = "setpoint" /\ q[i].temperature # Minimum =>
    i + 1 \in DOMAIN q /\ q[i + 1].do = "setpoint" /\ q[i + 1].temperature = Minimum

\* The pool heater: it is switched off last.
InPool ==
  /\ SpaRests /\ PumpRuns /\ todo # <<>>
  /\ IsSet(todo[Len(todo)], "Pool_Heater", FALSE)
  /\ GoesBack(todo)
  /\ PointKept \/ (todo[1].do = "setpoint" /\ todo[1].temperature = Minimum)

\* Its setpoint is lowered, or it is switched off, before anything is switched on.
LowersFirst(q) ==
  \A i \in DOMAIN q : q[i].do = "set" /\ q[i].to =>
    \E j \in DOMAIN q : j < i /\ q[j].do = "setpoint" /\ q[j].device = "Pool_Heater"
StopsFirst(q) ==
  \A i \in DOMAIN q : q[i].do = "set" /\ q[i].to =>
    \E j \in DOMAIN q : j < i /\ IsSet(q[j], "Pool_Heater", FALSE)

\* It is switched on where its water has just been looked at.
LooksFirst(q) ==
  /\ \A i \in DOMAIN q : IsSet(q[i], "Pool_Heater", TRUE) =>
       water > Minimum \/ (i - 1 \in DOMAIN q /\ q[i - 1].do = "poolWater")
  /\ \A i \in DOMAIN q : q[i].do = "poolWater" =>
       i + 1 \in DOMAIN q /\ IsSet(q[i + 1], "Pool_Heater", TRUE)

\* Nothing of q switches d on.
Never(q, d) == \A i \in DOMAIN q : ~IsSet(q[i], d, TRUE)

\* The pool heater stays as it is.
MayHeat == initial.on["Spa"] \/ WasActive("Pool_Heater") \/ "Pool_Heater" \in excluded

\* The status exercise: whatever heats already, it leaves alone; whatever does not is
\* switched off and lowered before it is switched on.
InStatus ==
  /\ AtRest
  /\ MayHeat => Never(todo, "Pool_Heater")
  /\ initial.on["Spa"] => Never(todo, "Spa_Heater")
  /\ ~MayHeat =>
       /\ setpoint["Pool_Heater"] = Minimum \/ LowersFirst(todo)
       /\ ~on["Pool_Heater"] \/ water > Minimum \/ StopsFirst(todo)
  /\ LooksFirst(todo)

\* Heater h is switched on after its setpoint has been set.
PointFirst(q, h) ==
  \A i \in DOMAIN q : IsSet(q[i], h, TRUE) => \E j \in DOMAIN q : j < i /\ q[j].do = "setpoint"

\* The first exercise of the session finds the pump as the snapshot has it.
InHeater(h) ==
  /\ on["Filter_Pump"] => water > Minimum + 1
  /\ setpoint[h] <= Minimum + 1 \/ PointFirst(todo, h)

\* What holds while an exercise is running, if nobody else was at the panel.
Underway ==
  /\ \A i \in DOMAIN todo : Own(exercise, todo[i])
  /\ exercise \in Trips => InTrip
  /\ exercise = "spa" => InSpa
  /\ exercise = "status" => InStatus
  /\ exercise = "pool" => InPool
  /\ exercise = "spaHeater" => AtRest
  /\ begun = 1 /\ exercise \in Heating => InHeater(HeaterOf(exercise))

\* The inductive invariant of StaysCold.
ColdInv ==
  /\ TripInv
  /\ initial.on["Spa"] => initial.on["Filter_Pump"]
  /\ result # "running" => todo = <<>>
  /\ result = "running" => begun > 0 /\ todo # <<>> /\ exercise \in DOMAIN Program
  /\ units /\ Alone =>
       /\ begun = 0 => on = initial.on /\ setpoint = initial.setpoint
       /\ result \notin {"running", "failed"} => AtRest
       /\ result = "running" => Underway

\* Whatever needs another step before it, or right before or after it, keeps that
\* behind the head of the program.
LEMMA TailKeeps ==
  ASSUME NEW X, NEW q \in Seq(X), q # <<>>
  PROVE  /\ Tail(q) # <<>> => Tail(q)[Len(Tail(q))] = q[Len(q)]
         /\ Tail(q) = <<>> => Len(q) = 1
         /\ GoesBack(q) => GoesBack(Tail(q))
         /\ LowersFirst(q) /\ ~(q[1].do = "setpoint" /\ q[1].device = "Pool_Heater") => LowersFirst(Tail(q))
         /\ StopsFirst(q) /\ ~IsSet(q[1], "Pool_Heater", FALSE) => StopsFirst(Tail(q))
         /\ \A h : PointFirst(q, h) /\ q[1].do # "setpoint" => PointFirst(Tail(q), h)
         /\ \A d : Never(q, d) => Never(Tail(q), d)
         /\ LooksFirst(q) /\ (q[1].do = "poolWater" => water > Minimum) => LooksFirst(Tail(q))
<1> DEFINE t == Tail(q)
           n == Len(q)
<1>1. /\ n \in Nat /\ n > 0 /\ DOMAIN q = 1 .. n /\ DOMAIN t = 1 .. (n - 1) /\ t \in Seq(X) /\ Len(t) = n - 1
      /\ \A i \in 1 .. (n - 1) : i + 1 \in 1 .. n /\ t[i] = q[i + 1]
      /\ \A i \in 1 .. n : i # 1 => i - 1 \in 1 .. (n - 1) /\ t[i - 1] = q[i]
  BY TailParts
<1> HIDE DEF t, n
<1>2. ASSUME t # <<>> PROVE t[Len(t)] = q[n]
  <2>1. Len(t) # 0
    BY <1>1, <1>2
  <2>2. n - 1 \in 1 .. (n - 1) /\ n - 1 + 1 = n
    BY <1>1, <2>1
  <2> QED
    BY <1>1, <2>2
<1>3. ASSUME t = <<>> PROVE n = 1
  BY <1>1, <1>3
<1>4. GoesBack(q) => GoesBack(t)
  <2>1. SUFFICES ASSUME GoesBack(q), NEW i \in DOMAIN t, t[i].do = "setpoint", t[i].temperature # Minimum
                 PROVE  i + 1 \in DOMAIN t /\ t[i + 1].do = "setpoint" /\ t[i + 1].temperature = Minimum
    BY DEF GoesBack
  <2>0. i + 1 \in DOMAIN q /\ q[i + 1] = t[i] /\ i \in Nat
    BY <1>1, <2>1
  <2>2. i + 1 + 1 \in 1 .. n /\ q[i + 1 + 1].do = "setpoint" /\ q[i + 1 + 1].temperature = Minimum
    BY <1>1, <2>0, <2>1 DEF GoesBack
  <2>3. i + 1 \in 1 .. (n - 1)
    BY <1>1, <2>2
  <2> QED
    BY <1>1, <2>2, <2>3
<1>0. ASSUME NEW i \in DOMAIN t, NEW j \in DOMAIN q, j < i + 1, j # 1
      PROVE  j - 1 \in DOMAIN t /\ j - 1 < i /\ t[j - 1] = q[j]
  BY <1>1, <1>0
<1>5. ASSUME LowersFirst(q), ~(q[1].do = "setpoint" /\ q[1].device = "Pool_Heater") PROVE LowersFirst(t)
  <2>1. SUFFICES ASSUME NEW i \in DOMAIN t, (t[i].do = "set" /\ t[i].to)
                 PROVE  \E j \in DOMAIN t : j < i /\ (t[j].do = "setpoint" /\ t[j].device = "Pool_Heater")
    BY DEF LowersFirst
  <2>2. i + 1 \in DOMAIN q /\ (q[i + 1].do = "set" /\ q[i + 1].to)
    BY <1>1, <2>1
  <2>3. PICK j \in DOMAIN q : j < i + 1 /\ (q[j].do = "setpoint" /\ q[j].device = "Pool_Heater")
    BY <1>5, <2>2 DEF LowersFirst
  <2>4. j # 1
    BY <1>5, <2>3
  <2> QED
    BY <1>0, <1>1, <2>1, <2>3, <2>4
<1>6. ASSUME StopsFirst(q), ~IsSet(q[1], "Pool_Heater", FALSE) PROVE StopsFirst(t)
  <2>1. SUFFICES ASSUME NEW i \in DOMAIN t, (t[i].do = "set" /\ t[i].to)
                 PROVE  \E j \in DOMAIN t : j < i /\ IsSet(t[j], "Pool_Heater", FALSE)
    BY DEF StopsFirst
  <2>2. i + 1 \in DOMAIN q /\ (q[i + 1].do = "set" /\ q[i + 1].to)
    BY <1>1, <2>1
  <2>3. PICK j \in DOMAIN q : j < i + 1 /\ IsSet(q[j], "Pool_Heater", FALSE)
    BY <1>6, <2>2 DEF StopsFirst
  <2>4. j # 1
    BY <1>6, <2>3
  <2> QED
    BY <1>0, <1>1, <2>1, <2>3, <2>4
<1>7. ASSUME NEW h, PointFirst(q, h), q[1].do # "setpoint" PROVE PointFirst(t, h)
  <2>1. SUFFICES ASSUME NEW i \in DOMAIN t, IsSet(t[i], h, TRUE)
                 PROVE  \E j \in DOMAIN t : j < i /\ t[j].do = "setpoint"
    BY DEF PointFirst
  <2>2. i + 1 \in DOMAIN q /\ IsSet(q[i + 1], h, TRUE)
    BY <1>1, <2>1
  <2>3. PICK j \in DOMAIN q : j < i + 1 /\ q[j].do = "setpoint"
    BY <1>7, <2>2 DEF PointFirst
  <2>4. j # 1
    BY <1>7, <2>3
  <2> QED
    BY <1>0, <1>1, <2>1, <2>3, <2>4
<1>8. ASSUME NEW d PROVE Never(q, d) => Never(t, d)
  BY <1>1 DEF Never
<1>9. ASSUME LooksFirst(q), q[1].do = "poolWater" => water > Minimum PROVE LooksFirst(t)
  <2>1. ASSUME NEW i \in 1 .. (n - 1), IsSet(t[i], "Pool_Heater", TRUE), ~(water > Minimum)
        PROVE  i - 1 \in 1 .. (n - 1) /\ t[i - 1].do = "poolWater"
    <3>1. i + 1 \in 1 .. n /\ i + 1 - 1 = i /\ t[i] = q[i + 1]
      BY <1>1
    <3>0. IsSet(q[i + 1], "Pool_Heater", TRUE)
      BY <2>1, <3>1
    <3>2. i \in 1 .. n /\ q[i].do = "poolWater"
      <4>0. \A k \in DOMAIN q : IsSet(q[k], "Pool_Heater", TRUE) =>
              water > Minimum \/ (k - 1 \in DOMAIN q /\ q[k - 1].do = "poolWater")
        BY <1>9 DEF LooksFirst
      <4>2. i + 1 \in DOMAIN q
        BY <1>1, <3>1
      <4>3. water > Minimum \/ (i + 1 - 1 \in DOMAIN q /\ q[i + 1 - 1].do = "poolWater")
        BY <3>0, <4>0, <4>2 DEF IsSet
      <4>1. i + 1 - 1 \in DOMAIN q /\ q[i + 1 - 1].do = "poolWater"
        BY <2>1, <4>3
      <4> QED
        BY <1>1, <3>1, <4>1
    <3>3. i # 1
      BY <1>9, <2>1, <3>2
    <3> QED
      BY <1>1, <3>2, <3>3
  <2>2. ASSUME NEW i \in 1 .. (n - 1), t[i].do = "poolWater"
        PROVE  i + 1 \in 1 .. (n - 1) /\ IsSet(t[i + 1], "Pool_Heater", TRUE)
    <3>1. i + 1 \in 1 .. n /\ q[i + 1].do = "poolWater"
      BY <1>1, <2>2
    <3>2. i + 1 + 1 \in 1 .. n /\ IsSet(q[i + 1 + 1], "Pool_Heater", TRUE)
      BY <1>1, <1>9, <3>1 DEF LooksFirst
    <3>3. i + 1 \in 1 .. (n - 1)
      BY <1>1, <3>2
    <3> QED
      BY <1>1, <3>2, <3>3
  <2> QED
    BY <1>1, <2>1, <2>2 DEF LooksFirst
<1> QED
  BY <1>2, <1>3, <1>4, <1>5, <1>6, <1>7, <1>8, <1>9 DEF t, n

\* What a request does to the panel, the spa and its pump included.
LEMMA SwitchedFacts ==
  ASSUME NEW s \in [Device -> BOOLEAN], NEW d \in Device, NEW to \in BOOLEAN,
         NEW t, t = Switched(s, d, to)
  PROVE  /\ t[d] = to
         /\ d \notin {"Filter_Pump", "Spa"} => \A e \in Device \ {d} : t[e] = s[e]
         /\ \A e \in Device \ {d, "Filter_Pump", "Spa"} : t[e] = s[e]
         /\ d = "Filter_Pump" => (t["Spa"] => s["Spa"]) /\ (to => t["Spa"] = s["Spa"])
         /\ d = "Spa" => (s["Filter_Pump"] => t["Filter_Pump"]) /\ (~to => t["Filter_Pump"] = s["Filter_Pump"])
BY Constants DEF Switched

\* An exercise is running, the units are known and nobody else was at the panel.
Exercising == ColdInv /\ units /\ Alone /\ result = "running"

LEMMA ExercisingFacts ==
  ASSUME Exercising
  PROVE  /\ TypeInv /\ TripInv /\ Underway /\ todo \in Seq(Ops) /\ todo # <<>> /\ water \in Int
         /\ on \in [Device -> BOOLEAN] /\ initial.on \in [Device -> BOOLEAN]
         /\ setpoint \in [Range(Heaters) -> Minimum .. Maximum] /\ Minimum \in Int /\ Maximum \in Int
         /\ initial.on["Spa"] => initial.on["Filter_Pump"]
         /\ "Pool_Heater" \in Range(Heaters) /\ "Spa_Heater" \in Range(Heaters)
         /\ "Pool_Heater" \notin Range(Switches) /\ "Spa_Heater" \notin Range(Switches)
         /\ {"Pool_Heater", "Spa_Heater", "Filter_Pump", "Spa"} \subseteq Device
         /\ Head(todo) = todo[1] /\ todo[1] \in Ops /\ Own(exercise, todo[1])
<1>1. TripInv /\ TypeInv /\ ExercisesTypeOK /\ Underway /\ todo # <<>>
  BY DEF Exercising, ColdInv, TripInv, TypeInv
<1>2. todo \in Seq(Ops) /\ water \in Int
  BY <1>1 DEF TypeInv
<1>3. Head(todo) = todo[1] /\ todo[1] \in Ops /\ 1 \in DOMAIN todo
  BY <1>1, <1>2
<1>4. "Pool_Heater" \in Range(Heaters) /\ "Spa_Heater" \in Range(Heaters)
  BY HeaterNames
<1>5. "Pool_Heater" \notin Range(Switches) /\ "Spa_Heater" \notin Range(Switches)
  BY <1>4, ExerciseAssumption
<1>6. Own(exercise, todo[1])
  BY <1>1, <1>3 DEF Underway
<1>7. setpoint \in [Range(Heaters) -> Minimum .. Maximum]
  BY <1>1 DEF ExercisesTypeOK
<1>8. /\ "Pool_Heater" \in Device /\ "Spa_Heater" \in Device /\ "Filter_Pump" \in Device
      /\ "Spa" \in Device
  BY <1>4, HeaterNames, Constants
<1>9. initial.on["Spa"] => initial.on["Filter_Pump"]
  BY DEF Exercising, ColdInv
<1>10. on \in [Device -> BOOLEAN] /\ initial.on \in [Device -> BOOLEAN] /\ Minimum \in Int /\ Maximum \in Int
  BY <1>1, TripTypes, ExerciseAssumption
<1> QED
  BY <1>1, <1>2, <1>3, <1>4, <1>5, <1>6, <1>7, <1>8, <1>9, <1>10

\* A request for a device: its values, and what the others are then.
LEMMA SetFacts ==
  ASSUME Exercising, SetDevice \/ RequestOverdue
  PROVE  /\ todo[1].do = "set" /\ todo[1].device \in Device /\ todo[1].to \in BOOLEAN
         /\ on' = Switched(on, todo[1].device, todo[1].to) /\ on' \in [Device -> BOOLEAN]
         /\ on'[todo[1].device] = todo[1].to
         /\ todo[1].device \notin {"Filter_Pump", "Spa"} =>
              \A e \in Device \ {todo[1].device} : on'[e] = on[e]
         /\ \A e \in Device \ {todo[1].device, "Filter_Pump", "Spa"} : on'[e] = on[e]
         /\ todo[1].device = "Filter_Pump" => (on'["Spa"] => on["Spa"]) /\ (todo[1].to => on'["Spa"] = on["Spa"])
         /\ todo[1].device = "Spa" => (on["Filter_Pump"] => on'["Filter_Pump"])
                                       /\ (~todo[1].to => on'["Filter_Pump"] = on["Filter_Pump"])
         /\ UNCHANGED <<setpoint, water, units, excluded, initial, exercise, begun, touches>>
<1>1. todo[1].do = "set" /\ todo[1].device \in Device /\ todo[1].to \in BOOLEAN
  BY ExercisingFacts, OpParts DEF SetDevice, RequestOverdue, Doing
<1>2. on' = Switched(on, todo[1].device, todo[1].to)
  BY ExercisingFacts DEF SetDevice, RequestOverdue
<1>3. on' \in [Device -> BOOLEAN]
  <2>1. on \in [Device -> BOOLEAN]
    BY ExercisingFacts
  <2> QED
    BY <1>1, <1>2, <2>1, SwitchedOne
<1>4. UNCHANGED <<setpoint, water, units, excluded, initial, exercise, begun, touches>>
  BY DEF SetDevice, RequestOverdue
<1>5. on \in [Device -> BOOLEAN]
  BY ExercisingFacts
<1> QED
  BY <1>1, <1>2, <1>3, <1>4, <1>5, SwitchedFacts

\* An adjustment: its values, and what the other setpoints are then.
LEMMA SetpointFacts ==
  ASSUME Exercising, SetSetpoint
  PROVE  /\ todo[1].do = "setpoint" /\ todo[1].device \in Range(Heaters)
         /\ todo[1].temperature \in Minimum .. Maximum
         /\ setpoint'[todo[1].device] = todo[1].temperature
         /\ \A h \in Range(Heaters) \ {todo[1].device} : setpoint'[h] = setpoint[h]
         /\ UNCHANGED <<on, water, units, excluded, initial, exercise, begun, touches>>
<1>1. todo[1].do = "setpoint" /\ todo[1].device \in Range(Heaters) /\ todo[1].temperature \in Minimum .. Maximum
  BY ExercisingFacts, OpParts DEF SetSetpoint, Doing
<1>2. setpoint' = [setpoint EXCEPT ![todo[1].device] = todo[1].temperature]
  BY ExercisingFacts DEF SetSetpoint
<1>3. UNCHANGED <<on, water, units, excluded, initial, exercise, begun, touches>>
  BY DEF SetSetpoint
<1> QED
  BY <1>1, <1>2, <1>3, ExercisingFacts

\* A step that proceeds keeps to what its exercise may do.
LEMMA OwnKept ==
  ASSUME Exercising, todo' = Tail(todo), exercise' = exercise
  PROVE  \A i \in DOMAIN todo' : Own(exercise, todo[i])'
<1>1. \A i \in DOMAIN todo : Own(exercise, todo[i])
  BY ExercisingFacts DEF Underway
<1>2. \A i \in DOMAIN todo' : i + 1 \in DOMAIN todo /\ todo'[i] = todo[i + 1]
  BY ExercisingFacts, TailParts
<1>3. SUFFICES ASSUME NEW i \in DOMAIN todo' PROVE Own(exercise, todo[i])'
  OBVIOUS
<1>4. i + 1 \in DOMAIN todo /\ todo'[i] = todo[i + 1] /\ Own(exercise, todo[i + 1])
  BY <1>1, <1>2, <1>3
<1> QED
  BY <1>4 DEF Own, Sends, IsSet, HeaterOf, Heating

\* The last step of a program stays the last.
LEMMA LastKept ==
  ASSUME Exercising, todo' = Tail(todo)
  PROVE  /\ todo' # <<>> => todo'[Len(todo')] = todo[Len(todo)]
         /\ todo' = <<>> => todo[Len(todo)] = todo[1]
<1>1. todo \in Seq(Ops) /\ todo # <<>>
  BY ExercisingFacts
<1> QED
  BY <1>1, TailKeeps

\* A request of a round trip.
LEMMA TripSets ==
  ASSUME Exercising, exercise \in Trips, SetDevice
  PROVE  InTrip'
<1> DEFINE d == todo[1].device
<1>1. InTrip /\ d \in Range(Switches)
  BY ExercisingFacts DEF Underway, Own
<1>2. asked' = asked \cup {d}
  BY ExercisingFacts DEF SetDevice
<1>3. d # "Pool_Heater"
  BY <1>1, ExercisingFacts
<1>4. on'["Pool_Heater"] = on["Pool_Heater"]
  BY <1>3, ExercisingFacts, SetFacts
<1>5. "Spa" \notin asked' => (on'["Spa"] => on["Spa"])
  BY <1>2, ExercisingFacts, SetFacts
<1>6. "Filter_Pump" \notin asked' => (on["Filter_Pump"] => on'["Filter_Pump"])
  BY <1>2, ExercisingFacts, SetFacts
<1>7. UNCHANGED <<setpoint, water, initial>>
  BY SetFacts
<1> QED
  BY <1>1, <1>2, <1>4, <1>5, <1>6, <1>7 DEF InTrip, SpaRests, PumpRuns, PointKept, PoolCold

\* The round trip that has passed has put back the spa and the pump, if it used them.
LEMMA TripRests ==
  ASSUME TripInv', InTrip', exercise' \in Trips, Alone', result' = "passed"
  PROVE  AtRest'
<1>1. \A d \in asked' : on'[d] = initial'.on[d]
  BY DEF TripInv, RoundTrip, Trips
<1> QED
  BY <1>1 DEF InTrip, AtRest, SpaRests, PumpRuns

\* A request of spa heating.
LEMMA SpaSets ==
  ASSUME Exercising, exercise = "spa", SetDevice
  PROVE  IF todo' = <<>> THEN AtRest' ELSE InSpa'
<1> DEFINE d == todo[1].device
<1>1. /\ InSpa /\ d \in {"Spa_Heater", "Spa", "Filter_Pump"} /\ ~IsSet(todo[1], "Filter_Pump", FALSE)
  BY ExercisingFacts, SetFacts DEF Underway, Own, Sends
<1>2. todo' = Tail(todo)
  BY DEF SetDevice, Proceed
<1>3. UNCHANGED <<setpoint, water, initial>>
  BY SetFacts
<1>4. on'["Pool_Heater"] = on["Pool_Heater"]
  BY <1>1, ExercisingFacts, SetFacts
<1>5. on["Filter_Pump"] => on'["Filter_Pump"]
  BY <1>1, ExercisingFacts, SetFacts DEF IsSet
<1>6. PumpRuns' /\ PointKept' /\ PoolCold'
  BY <1>1, <1>3, <1>4, <1>5 DEF InSpa, PumpRuns, PointKept, PoolCold
<1>7. CASE todo' = <<>>
  <2>1. IsSet(todo[1], "Spa", FALSE)
    BY <1>1, <1>2, <1>7, LastKept, SetFacts DEF InSpa
  <2>2. ~on'["Spa"]
    BY <2>1, SetFacts DEF IsSet
  <2> QED
    BY <1>6, <1>7, <2>2 DEF AtRest, SpaRests
<1>8. CASE todo' # <<>>
  BY <1>1, <1>2, <1>6, <1>8, LastKept DEF InSpa, IsSet
<1> QED
  BY <1>7, <1>8

\* No other step of this exercise is the last.
LEMMA SpaProceeds ==
  ASSUME Exercising, exercise = "spa", todo' = Tail(todo), todo[1].do \notin {"set", "spaWater"},
         UNCHANGED <<on, water, initial>>, setpoint'["Pool_Heater"] = setpoint["Pool_Heater"]
  PROVE  todo' # <<>> /\ InSpa'
<1>1. InSpa
  BY ExercisingFacts DEF Underway
<1>2. todo' # <<>>
  BY <1>1, LastKept DEF InSpa, IsSet
<1> QED
  BY <1>1, <1>2, LastKept DEF InSpa, PumpRuns, PointKept, PoolCold, IsSet

LEMMA FourOps ==
  ASSUME NEW X, NEW a \in X, NEW b \in X, NEW c \in X, NEW d \in X
  PROVE  /\ <<>> \o <<a, b, c, d>> = <<a, b, c, d>> /\ <<a, b, c, d>> \in Seq(X)
         /\ <<a, b, c, d>> # <<>> /\ <<a, b, c, d>>[Len(<<a, b, c, d>>)] = d
OBVIOUS

LEMMA OneMore ==
  ASSUME NEW X, NEW q \in Seq(X), q # <<>>, NEW e \in X
  PROVE  /\ <<e>> \o q \in Seq(X) /\ <<e>> \o q # <<>>
         /\ (<<e>> \o q)[Len(<<e>> \o q)] = q[Len(q)]
OBVIOUS

\* The spa shows its temperature: the target, and the way back, are added.
LEMMA SpaReads ==
  ASSUME Exercising, exercise = "spa", SpaTemperature
  PROVE  /\ todo' # <<>> /\ InSpa' /\ \A i \in DOMAIN todo' : Own(exercise, todo[i])'
<1> DEFINE b == <<Set("Spa_Heater", TRUE), Op("heats"), Set("Spa_Heater", FALSE), Set("Spa", FALSE)>>
<1>1. UNCHANGED <<on, setpoint, water, initial, exercise>>
  BY DEF SpaTemperature, Observe, panelState
<1>2. InSpa
  BY ExercisingFacts DEF Underway
<1>3. todo' = b \/ todo' = <<SetTo("Spa_Heater", SpaTarget)>> \o b
  <2>1. If(SpaTarget # setpoint["Spa_Heater"], <<SetTo("Spa_Heater", SpaTarget)>>) \in
          {<<>>, <<SetTo("Spa_Heater", SpaTarget)>>}
    BY DEF If
  <2>2. todo' = If(SpaTarget # setpoint["Spa_Heater"], <<SetTo("Spa_Heater", SpaTarget)>>) \o b
    BY DEF SpaTemperature, Proceed
  <2>3. <<>> \o b = b
    OBVIOUS
  <2> HIDE DEF b
  <2> QED
    BY <2>1, <2>2, <2>3
<1> DEFINE X == {o \in {SetTo("Spa_Heater", SpaTarget), Set("Spa_Heater", TRUE), Op("heats"),
                    Set("Spa_Heater", FALSE), Set("Spa", FALSE)} : Own("spa", o)}
<1>5. /\ SetTo("Spa_Heater", SpaTarget) \in X /\ Set("Spa_Heater", TRUE) \in X /\ Op("heats") \in X
      /\ Set("Spa_Heater", FALSE) \in X /\ Set("Spa", FALSE) \in X /\ IsSet(Set("Spa", FALSE), "Spa", FALSE)
  BY DEF Own, Sends, SetTo, Set, Op, IsSet, Trips, Heating
<1> HIDE DEF X
<1>6. b \in Seq(X) /\ b # <<>> /\ b[Len(b)] = Set("Spa", FALSE)
  BY <1>5, FourOps
<1> HIDE DEF b
<1>7. todo' \in Seq(X) /\ todo' # <<>> /\ todo'[Len(todo')] = Set("Spa", FALSE)
  <2> DEFINE e == SetTo("Spa_Heater", SpaTarget)
  <2>1. e \in X
    BY <1>5
  <2> HIDE DEF e
  <2>2. <<e>> \o b \in Seq(X) /\ <<e>> \o b # <<>> /\ (<<e>> \o b)[Len(<<e>> \o b)] = b[Len(b)]
    BY <1>6, <2>1, OneMore
  <2>3. todo' = b \/ todo' = <<e>> \o b
    BY <1>3 DEF e
  <2> QED
    BY <1>6, <2>2, <2>3
<1>8. \A i \in DOMAIN todo' : Own(exercise', todo'[i])
  <2>1. \A i \in DOMAIN todo' : todo'[i] \in X
    BY <1>7
  <2> QED
    BY <1>1, <2>1 DEF X
<1>9. InSpa'
  BY <1>1, <1>2, <1>5, <1>7 DEF InSpa, PumpRuns, PointKept, PoolCold, IsSet
<1> QED
  BY <1>7, <1>8, <1>9

\* A request of the pool heater exercise.
LEMMA PoolSets ==
  ASSUME Exercising, exercise = "pool", SetDevice
  PROVE  IF todo' = <<>> THEN AtRest' ELSE InPool'
<1>1. InPool /\ todo[1].device = "Pool_Heater"
  BY ExercisingFacts, SetFacts DEF Underway, Own, Sends, Heating, HeaterOf
<1>2. todo' = Tail(todo)
  BY DEF SetDevice, Proceed
<1>3. UNCHANGED <<setpoint, water, initial>> /\ on'["Spa"] = on["Spa"] /\ on'["Filter_Pump"] = on["Filter_Pump"]
  BY <1>1, ExercisingFacts, SetFacts
<1>4. PointKept /\ PointKept'
  BY <1>1, <1>3, SetFacts DEF InPool, PointKept
<1>5. SpaRests' /\ PumpRuns'
  BY <1>1, <1>3 DEF InPool, SpaRests, PumpRuns
<1>6. CASE todo' = <<>>
  <2>1. IsSet(todo[1], "Pool_Heater", FALSE)
    BY <1>1, <1>2, <1>6, LastKept DEF InPool
  <2>2. ~on'["Pool_Heater"]
    BY <2>1, SetFacts DEF IsSet
  <2> QED
    BY <1>4, <1>5, <1>6, <2>2 DEF AtRest, PoolCold
<1>7. CASE todo' # <<>>
  <2>1. GoesBack(todo')
    BY <1>1, <1>2, ExercisingFacts, TailKeeps DEF InPool
  <2>2. IsSet(todo'[Len(todo')], "Pool_Heater", FALSE)
    BY <1>1, <1>2, <1>7, LastKept DEF InPool
  <2>3. GoesBack(todo)'
    BY <2>1 DEF GoesBack
  <2>4. IsSet(todo[Len(todo)], "Pool_Heater", FALSE)'
    BY <2>2 DEF IsSet
  <2> QED
    BY <1>4, <1>5, <1>7, <2>3, <2>4 DEF InPool
<1> QED
  BY <1>6, <1>7

\* A setpoint that went up is the next that goes back.
LEMMA PoolProceeds ==
  ASSUME Exercising, exercise = "pool", todo' = Tail(todo), todo[1].do # "set",
         UNCHANGED <<on, water, initial>>,
         IF todo[1].do = "setpoint" THEN setpoint'["Pool_Heater"] = todo[1].temperature
         ELSE UNCHANGED setpoint
  PROVE  todo' # <<>> /\ InPool'
<1>1. InPool
  BY ExercisingFacts DEF Underway
<1>2. todo' # <<>> /\ IsSet(todo[Len(todo)], "Pool_Heater", FALSE)'
  BY <1>1, LastKept DEF InPool, IsSet
<1>3. GoesBack(todo)'
  <2>1. GoesBack(todo')
    BY <1>1, ExercisingFacts, TailKeeps DEF InPool
  <2> QED
    BY <2>1 DEF GoesBack
<1>4. 1 \in DOMAIN todo /\ \A i \in DOMAIN todo : i # 1 => todo'[i - 1] = todo[i]
  BY ExercisingFacts, TailParts
<1>5. PointKept' \/ (todo'[1].do = "setpoint" /\ todo'[1].temperature = Minimum)
  <2>1. CASE todo[1].do = "setpoint" /\ todo[1].temperature # Minimum
    <3>1. 1 + 1 \in DOMAIN todo /\ todo[1 + 1].do = "setpoint" /\ todo[1 + 1].temperature = Minimum
      BY <1>1, <1>4, <2>1 DEF InPool, GoesBack
    <3>2. todo'[1] = todo[1 + 1]
      BY <1>4, <3>1
    <3> QED
      BY <3>1, <3>2
  <2>2. CASE todo[1].do = "setpoint" /\ todo[1].temperature = Minimum
    BY <2>2 DEF PointKept
  <2>3. CASE todo[1].do # "setpoint"
    BY <1>1, <2>3 DEF InPool, PointKept
  <2> QED
    BY <2>1, <2>2, <2>3
<1> QED
  BY <1>1, <1>2, <1>3, <1>5 DEF InPool, SpaRests, PumpRuns

\* The spa heater is none of this.
LEMMA SpaHeaterSteps ==
  ASSUME Exercising, exercise = "spaHeater", SetDevice \/ SetSetpoint
  PROVE  AtRest'
<1>1. AtRest /\ (Sends(todo[1]) => todo[1].device = "Spa_Heater")
  BY ExercisingFacts DEF Underway, Own, Heating, HeaterOf
<1>2. CASE SetDevice
  <2>1. todo[1].device = "Spa_Heater"
    BY <1>1, <1>2, SetFacts DEF Sends
  <2>2. /\ on'["Spa"] = on["Spa"] /\ on'["Filter_Pump"] = on["Filter_Pump"]
        /\ on'["Pool_Heater"] = on["Pool_Heater"] /\ UNCHANGED <<setpoint, water, initial>>
    BY <1>2, <2>1, ExercisingFacts, SetFacts
  <2> QED
    BY <1>1, <2>2 DEF AtRest, SpaRests, PumpRuns, PointKept, PoolCold
<1>3. CASE SetSetpoint
  <2>1. todo[1].device = "Spa_Heater"
    BY <1>1, <1>3, SetpointFacts DEF Sends
  <2>2. setpoint'["Pool_Heater"] = setpoint["Pool_Heater"] /\ UNCHANGED <<on, water, initial>>
    BY <1>3, <2>1, ExercisingFacts, SetpointFacts
  <2> QED
    BY <1>1, <2>2 DEF AtRest, SpaRests, PumpRuns, PointKept, PoolCold
<1> QED
  BY <1>2, <1>3

\* exercise_heater comes first: the pump is as it was, and the setpoint low when it counts.
LEMMA HeaterSteps ==
  ASSUME Exercising, begun = 1, exercise \in Heating, todo' = Tail(todo),
         SetDevice \/ SetSetpoint \/ (todo[1].do # "setpoint" /\ UNCHANGED <<on, setpoint, water, exercise>>)
  PROVE  InHeater(HeaterOf(exercise))'
<1> DEFINE h == HeaterOf(exercise)
<1>1. /\ InHeater(h) /\ (Sends(todo[1]) => todo[1].device = h) /\ h \in {"Pool_Heater", "Spa_Heater"}
      /\ (todo[1].do = "setpoint" => todo[1].temperature \in {Minimum, Minimum + 1})
  BY ExercisingFacts DEF Underway, Own, Heating, HeaterOf
<1>2. exercise' = exercise /\ water' = water
  BY SetFacts, SetpointFacts
<1>3. on'["Filter_Pump"] = on["Filter_Pump"]
  <2>1. CASE SetDevice
    BY <1>1, <2>1, ExercisingFacts, SetFacts DEF Sends
  <2>2. CASE SetSetpoint
    BY <2>2, SetpointFacts
  <2> QED
    BY <2>1, <2>2
<1>4. CASE todo[1].do = "setpoint"
  <2>1. SetSetpoint
    BY <1>4, SetFacts
  <2>2. setpoint'[h] = todo[1].temperature
    BY <1>1, <2>1, SetpointFacts DEF Sends
  <2>3. setpoint'[h] <= Minimum + 1
    BY <1>1, <1>4, <2>2, ExercisingFacts
  <2>4. HeaterOf(exercise)' = h
    BY <1>2 DEF HeaterOf
  <2> QED
    BY <1>1, <1>2, <1>3, <2>3, <2>4 DEF InHeater
<1>5. CASE todo[1].do # "setpoint"
  <2>1. setpoint' = setpoint
    BY <1>5, SetFacts, SetpointFacts
  <2>2. PointFirst(todo, h) => PointFirst(todo', h)
    BY <1>5, ExercisingFacts, TailKeeps
  <2>3. HeaterOf(exercise)' = h
    BY <1>2 DEF HeaterOf
  <2> QED
    BY <1>1, <1>2, <1>3, <2>1, <2>2, <2>3 DEF InHeater, PointFirst, IsSet
<1> QED
  BY <1>4, <1>5

\* A status exercise switches the pool heater on where it cannot heat.
LEMMA RaisesCold ==
  ASSUME Exercising, exercise = "status", IsSet(todo[1], "Pool_Heater", TRUE)
  PROVE  ~MayHeat /\ water > Minimum /\ setpoint["Pool_Heater"] = Minimum
<1>1. InStatus
  BY ExercisingFacts DEF Underway
<1>2. DOMAIN todo = 1 .. Len(todo) /\ 1 \in DOMAIN todo /\ ~\E j \in DOMAIN todo : j < 1
  BY ExercisingFacts
<1>3. ~MayHeat
  BY <1>1, <1>2 DEF InStatus, Never, IsSet
<1>4. water > Minimum
  <2>1. 1 - 1 \notin DOMAIN todo
    BY <1>2
  <2> QED
    BY <1>1, <1>2, <2>1 DEF InStatus, LooksFirst, IsSet
<1>5. setpoint["Pool_Heater"] = Minimum
  BY <1>1, <1>2, <1>3 DEF InStatus, LowersFirst, IsSet
<1> QED
  BY <1>3, <1>4, <1>5

\* What a step leaves of the order of the status program.
LEMMA StatusTail ==
  ASSUME Exercising, exercise = "status", todo' = Tail(todo), UNCHANGED <<water, excluded, initial>>,
         todo[1].do = "poolWater" => water > Minimum
  PROVE  /\ MayHeat' => Never(todo, "Pool_Heater")'
         /\ initial'.on["Spa"] => Never(todo, "Spa_Heater")'
         /\ LooksFirst(todo)'
         /\ LowersFirst(todo) /\ ~(todo[1].do = "setpoint" /\ todo[1].device = "Pool_Heater") => LowersFirst(todo)'
         /\ StopsFirst(todo) /\ ~IsSet(todo[1], "Pool_Heater", FALSE) => StopsFirst(todo)'
<1>1. InStatus /\ todo \in Seq(Ops) /\ todo # <<>>
  BY ExercisingFacts DEF Underway
<1>2. MayHeat' = MayHeat
  BY DEF MayHeat, WasActive, Heats
<1>3. /\ \A d : Never(todo, d) => Never(todo', d)
      /\ LooksFirst(todo) => LooksFirst(Tail(todo))
      /\ LowersFirst(todo) /\ ~(todo[1].do = "setpoint" /\ todo[1].device = "Pool_Heater") => LowersFirst(todo')
      /\ StopsFirst(todo) /\ ~IsSet(todo[1], "Pool_Heater", FALSE) => StopsFirst(todo')
  BY <1>1, TailKeeps
<1>4. LooksFirst(Tail(todo)) => LooksFirst(todo)'
  BY DEF LooksFirst, IsSet
<1>5. \A d : Never(todo', d) => Never(todo, d)'
  BY DEF Never, IsSet
<1>6. LowersFirst(todo') => LowersFirst(todo)'
  BY DEF LowersFirst
<1>7. StopsFirst(todo') => StopsFirst(todo)'
  BY DEF StopsFirst, IsSet
<1> QED
  BY <1>1, <1>2, <1>3, <1>4, <1>5, <1>6, <1>7 DEF InStatus

\* A request of the status exercise leaves the spa and switches the pump only on.
LEMMA StatusRequests ==
  ASSUME Exercising, exercise = "status", SetDevice \/ RequestOverdue
  PROVE  /\ todo[1].device # "Spa" /\ on'["Spa"] = on["Spa"]
         /\ todo[1].device = "Filter_Pump" => on'["Filter_Pump"]
         /\ todo[1].device # "Filter_Pump" => \A e \in Device \ {todo[1].device} : on'[e] = on[e]
         /\ todo[1].device = "Filter_Pump" =>
              on'["Pool_Heater"] = on["Pool_Heater"] /\ on'["Spa_Heater"] = on["Spa_Heater"]
<1> DEFINE d == todo[1].device
<1>1. d \in {"Pool_Heater", "Spa_Heater"} \/ (todo[1].to /\ d # "Spa")
  BY ExercisingFacts, SetFacts, HeaterNames DEF Own
<1> QED
  BY <1>1, ExercisingFacts, SetFacts

\* Such a request, by its device.
LEMMA StatusSets ==
  ASSUME Exercising, exercise = "status", SetDevice
  PROVE  InStatus'
<1> DEFINE d == todo[1].device
<1>1. InStatus
  BY ExercisingFacts DEF Underway
<1>2. todo' = Tail(todo) /\ UNCHANGED <<setpoint, water, excluded, initial>>
  BY SetFacts DEF SetDevice, Proceed
<1>3. MayHeat' = MayHeat
  BY <1>2 DEF MayHeat, WasActive, Heats
<1>4. SpaRests' /\ PumpRuns' /\ PointKept'
  <2>1. on["Filter_Pump"] => on'["Filter_Pump"]
    BY StatusRequests, ExercisingFacts
  <2> QED
    BY <1>1, <1>2, <2>1, StatusRequests DEF InStatus, AtRest, SpaRests, PumpRuns, PointKept
<1>8. /\ MayHeat' => Never(todo, "Pool_Heater")'
      /\ initial'.on["Spa"] => Never(todo, "Spa_Heater")'
      /\ LooksFirst(todo)'
      /\ LowersFirst(todo) => LowersFirst(todo)'
      /\ StopsFirst(todo) /\ ~IsSet(todo[1], "Pool_Heater", FALSE) => StopsFirst(todo)'
  BY <1>2, StatusTail, SetFacts
<1>5. CASE d # "Pool_Heater"
  <2>1. on'["Pool_Heater"] = on["Pool_Heater"]
    BY <1>5, StatusRequests, ExercisingFacts
  <2>3. PoolCold'
    BY <1>1, <1>2, <2>1 DEF InStatus, AtRest, PoolCold
  <2>4. StopsFirst(todo) => StopsFirst(todo)'
    BY <1>5, <1>8 DEF IsSet
  <2> QED
    BY <1>1, <1>2, <1>3, <1>4, <1>8, <2>1, <2>3, <2>4 DEF AtRest, InStatus
<1>6. CASE d = "Pool_Heater" /\ todo[1].to
  <2>1. IsSet(todo[1], "Pool_Heater", TRUE)
    BY <1>6, SetFacts DEF IsSet
  <2>2. water > Minimum /\ setpoint["Pool_Heater"] = Minimum
    BY <2>1, RaisesCold
  <2> QED
    BY <1>1, <1>2, <1>3, <1>4, <1>8, <2>2 DEF InStatus, AtRest, PoolCold
<1>7. CASE d = "Pool_Heater" /\ ~todo[1].to
  <2>1. ~on'["Pool_Heater"]
    BY <1>7, SetFacts
  <2> QED
    BY <1>1, <1>2, <1>3, <1>4, <1>8, <2>1 DEF InStatus, AtRest, PoolCold
<1> QED
  BY <1>5, <1>6, <1>7

\* No request of the status exercise makes a heater heat, unless that is excluded and on.
LEMMA StatusCold ==
  ASSUME Exercising, exercise = "status", SetDevice \/ SetSetpoint \/ RequestOverdue,
         NEW h \in Range(Heaters), ~(h \in excluded /\ on[h]), Active(h)'
  PROVE  Active(h)
<1>1. InStatus /\ AtRest /\ h \in {"Pool_Heater", "Spa_Heater"}
  BY ExercisingFacts, HeaterNames DEF Underway, InStatus
<1>2. /\ on'[h] /\ on'["Filter_Pump"] /\ ((h = "Spa_Heater") = on'["Spa"]) /\ water' < setpoint'[h]
  BY DEF Active, Heats
<1>3. CASE SetSetpoint
  <2>1. todo[1].temperature = Minimum
    BY <1>3, ExercisingFacts, SetpointFacts DEF Own
  <2>2. setpoint'[h] <= setpoint[h] /\ setpoint[h] \in Int /\ setpoint'[h] \in Int
    <3>1. setpoint[h] \in Minimum .. Maximum
      BY ExercisingFacts
    <3>2. setpoint'[h] = Minimum \/ setpoint'[h] = setpoint[h]
      BY <1>3, <2>1, SetpointFacts
    <3> QED
      BY <3>1, <3>2, ExercisingFacts
  <2>3. water < setpoint[h] /\ UNCHANGED <<on, water>>
    BY <1>2, <1>3, <2>2, ExercisingFacts, SetpointFacts
  <2> QED
    BY <1>2, <2>3 DEF Active, Heats
<1>4. CASE SetDevice \/ RequestOverdue
  <2> DEFINE d == todo[1].device
  <2>1. UNCHANGED <<setpoint, water, initial>> /\ on'["Spa"] = on["Spa"]
    BY <1>4, SetFacts, StatusRequests
  <2>2. CASE d = "Filter_Pump"
    <3>1. on[h]
      BY <1>1, <1>2, <1>4, <2>2, StatusRequests
    <3>2. CASE on["Filter_Pump"]
      BY <1>2, <2>1, <3>1, <3>2 DEF Active, Heats
    <3>3. CASE ~on["Filter_Pump"]
      <4>1. ~initial.on["Filter_Pump"] /\ ~initial.on["Spa"]
        BY <1>1, <3>3, ExercisingFacts DEF AtRest, PumpRuns
      <4>2. ~on["Spa"]
        BY <1>1, <4>1 DEF AtRest, SpaRests
      <4>3. h = "Pool_Heater"
        BY <1>1, <1>2, <2>1, <4>2
      <4>8. ~MayHeat
        BY <3>1, <4>1, <4>3 DEF MayHeat, WasActive, Heats
      <4>4. DOMAIN todo = 1 .. Len(todo) /\ 1 \in DOMAIN todo /\ todo[1].do = "set" /\ todo[1].to
        BY <1>2, <1>4, <2>2, ExercisingFacts, SetFacts
      <4>5. ~\E j \in DOMAIN todo : j < 1
        BY <4>4
      <4>6. setpoint["Pool_Heater"] = Minimum
        BY <1>1, <4>4, <4>5, <4>8 DEF InStatus, LowersFirst
      <4>7. water > Minimum
        BY <1>1, <3>1, <4>3, <4>4, <4>5, <4>8 DEF InStatus, StopsFirst
      <4> QED
        BY <1>2, <2>1, <4>3, <4>6, <4>7, ExercisingFacts
    <3> QED
      BY <3>2, <3>3
  <2>3. CASE d # "Filter_Pump" /\ d # h
    <3>1. on'[h] = on[h] /\ on'["Filter_Pump"] = on["Filter_Pump"]
      BY <1>1, <1>4, <2>3, StatusRequests, ExercisingFacts
    <3> QED
      BY <1>2, <2>1, <3>1 DEF Active, Heats
  <2>4. CASE d = h
    <3>1. todo[1].to = TRUE /\ todo[1].do = "set" /\ 1 \in DOMAIN todo
      <4>1. on'[d] = todo[1].to /\ todo[1].to \in BOOLEAN /\ todo[1].do = "set"
        BY <1>4, SetFacts
      <4>2. 1 \in DOMAIN todo
        BY ExercisingFacts
      <4> QED
        BY <1>2, <2>4, <4>1, <4>2
    <3>2. IsSet(todo[1], h, TRUE)
      BY <2>4, <3>1 DEF IsSet
    <3>3. CASE h = "Pool_Heater"
      <4>1. water > Minimum /\ setpoint["Pool_Heater"] = Minimum
        BY <3>2, <3>3, RaisesCold DEF IsSet
      <4> QED
        BY <1>2, <2>1, <3>3, <4>1, ExercisingFacts
    <3>4. CASE h = "Spa_Heater"
      <4>1. ~initial.on["Spa"]
        BY <1>1, <3>1, <3>2, <3>4 DEF InStatus, Never, IsSet
      <4> QED
        BY <1>1, <1>2, <2>1, <3>4, <4>1 DEF AtRest, SpaRests
    <3> QED
      BY <1>1, <3>3, <3>4
  <2> QED
    BY <2>2, <2>3, <2>4
<1> QED
  BY <1>3, <1>4

\* A step of exercise_heater, as the first exercise.
LEMMA HeaterCold ==
  ASSUME Exercising, begun = 1, exercise \in Heating, SetDevice \/ SetSetpoint \/ RequestOverdue,
         NEW h \in Range(Heaters), Active(h)'
  PROVE  Active(h)
<1> DEFINE g == HeaterOf(exercise)
<1>1. /\ InHeater(g) /\ g \in {"Pool_Heater", "Spa_Heater"} /\ h \in {"Pool_Heater", "Spa_Heater"}
      /\ Sends(todo[1]) => todo[1].device = g
      /\ todo[1].do = "setpoint" => todo[1].temperature \in {Minimum, Minimum + 1}
  BY ExercisingFacts, HeaterNames DEF Underway, Own, HeaterOf, Heating
<1>2. /\ on'[h] /\ on'["Filter_Pump"] /\ ((h = "Spa_Heater") = on'["Spa"]) /\ water' < setpoint'[h]
  BY DEF Active, Heats
<1>3. todo[1].do \in {"set", "setpoint"} /\ todo[1].device = g /\ UNCHANGED water
  BY <1>1, SetFacts, SetpointFacts DEF Sends
<1>4. on'["Spa"] = on["Spa"] /\ on'["Filter_Pump"] = on["Filter_Pump"]
  BY <1>1, <1>3, SetFacts, SetpointFacts, ExercisingFacts
<1>5. water > Minimum + 1
  BY <1>1, <1>2, <1>4 DEF InHeater
<1>6. CASE h # g
  BY <1>1, <1>2, <1>3, <1>4, <1>6, SetFacts, SetpointFacts, ExercisingFacts DEF Active, Heats
<1>7. CASE h = g
  <2>1. setpoint'[h] > Minimum + 1
    <3>1. setpoint'[h] \in Int
      <4>1. CASE SetSetpoint
        BY <1>3, <1>7, <4>1, SetpointFacts, ExercisingFacts
      <4>2. CASE ~SetSetpoint
        BY <4>2, SetFacts, ExercisingFacts
      <4> QED
        BY <4>1, <4>2
    <3> QED
      BY <1>2, <1>3, <1>5, <3>1, ExercisingFacts
  <2>2. ~SetSetpoint
    BY <1>1, <1>3, <1>7, <2>1, SetpointFacts, ExercisingFacts
  <2>3. setpoint' = setpoint /\ todo[1].do = "set" /\ on'[g] = todo[1].to
    BY <1>3, <2>2, SetFacts
  <2>4. IsSet(todo[1], g, TRUE)
    BY <1>2, <1>3, <1>7, <2>3, SetFacts, <2>2 DEF IsSet
  <2>5. DOMAIN todo = 1 .. Len(todo) /\ 1 \in DOMAIN todo /\ ~\E j \in DOMAIN todo : j < 1
    BY ExercisingFacts
  <2>6. setpoint[g] <= Minimum + 1
    BY <1>1, <2>4, <2>5 DEF InHeater, PointFirst, IsSet
  <2>7. setpoint[g] \in Int
    BY <1>1, ExercisingFacts
  <2> QED
    BY <1>7, <2>1, <2>3, <2>6, <2>7, ExercisingFacts
<1> QED
  BY <1>6, <1>7

\* An adjustment of the status exercise lowers a setpoint to the minimum.
LEMMA StatusPoints ==
  ASSUME Exercising, exercise = "status", SetSetpoint
  PROVE  InStatus'
<1>1. InStatus /\ AtRest /\ todo[1].temperature = Minimum /\ todo[1].do = "setpoint"
  BY ExercisingFacts, SetpointFacts DEF Underway, Own, InStatus
<1>2. todo' = Tail(todo) /\ UNCHANGED <<on, water, excluded, initial>>
  BY SetpointFacts DEF SetSetpoint, Proceed
<1>3. /\ MayHeat' => Never(todo, "Pool_Heater")'
      /\ initial'.on["Spa"] => Never(todo, "Spa_Heater")'
      /\ LooksFirst(todo)'
      /\ LowersFirst(todo) /\ ~(todo[1].do = "setpoint" /\ todo[1].device = "Pool_Heater") => LowersFirst(todo)'
      /\ StopsFirst(todo) /\ ~IsSet(todo[1], "Pool_Heater", FALSE) => StopsFirst(todo)'
  BY <1>1, <1>2, StatusTail
<1>4. setpoint'["Pool_Heater"] = setpoint["Pool_Heater"] \/ setpoint'["Pool_Heater"] = Minimum
  BY <1>1, ExercisingFacts, SetpointFacts
<1>5. todo[1].device = "Pool_Heater" => setpoint'["Pool_Heater"] = Minimum
  BY <1>1, ExercisingFacts, SetpointFacts
<1>6. AtRest'
  BY <1>1, <1>2, <1>4 DEF AtRest, SpaRests, PumpRuns, PointKept, PoolCold
<1>7. MayHeat' = MayHeat
  BY <1>2 DEF MayHeat, WasActive, Heats
<1>8. StopsFirst(todo) => StopsFirst(todo)'
  BY <1>1, <1>3 DEF IsSet
<1> QED
  BY <1>1, <1>2, <1>3, <1>4, <1>5, <1>6, <1>7, <1>8 DEF InStatus

\* A step of it that only waits or looks.
LEMMA StatusObserves ==
  ASSUME Exercising, exercise = "status", Observe, todo' = Tail(todo), todo[1].do \notin {"set", "setpoint"},
         todo[1].do = "poolWater" => water > Minimum
  PROVE  InStatus'
<1>1. InStatus /\ UNCHANGED <<on, setpoint, water, excluded, initial>>
  BY ExercisingFacts DEF Underway, Observe, panelState
<1>2. /\ MayHeat' => Never(todo, "Pool_Heater")'
      /\ initial'.on["Spa"] => Never(todo, "Spa_Heater")'
      /\ LooksFirst(todo)'
      /\ LowersFirst(todo) => LowersFirst(todo)'
      /\ StopsFirst(todo) => StopsFirst(todo)'
  BY <1>1, StatusTail DEF IsSet
<1>3. AtRest' /\ MayHeat' = MayHeat
  BY <1>1 DEF InStatus, AtRest, SpaRests, PumpRuns, PointKept, PoolCold, MayHeat, WasActive, Heats
<1> QED
  BY <1>1, <1>2, <1>3 DEF InStatus

\* The pool heater is passed over: its step goes with the look at its water.
LEMMA StatusSkips ==
  ASSUME Exercising, exercise = "status", Observe, todo[1].do = "poolWater", todo' = SubSeq(todo, 3, Len(todo))
  PROVE  InStatus' /\ \A i \in DOMAIN todo' : Own(exercise, todo[i])'
<1> DEFINE n == Len(todo)
<1>1. InStatus /\ UNCHANGED <<on, setpoint, water, excluded, initial, exercise>> /\ \A i \in DOMAIN todo : Own(exercise, todo[i])
  BY ExercisingFacts DEF Underway, Observe, panelState
<1>2. n \in Nat /\ DOMAIN todo = 1 .. n /\ 1 \in DOMAIN todo
  BY ExercisingFacts
<1>3. 2 \in DOMAIN todo /\ IsSet(todo[2], "Pool_Heater", TRUE)
  <2>1. 1 + 1 \in DOMAIN todo /\ IsSet(todo[1 + 1], "Pool_Heater", TRUE)
    BY <1>1, <1>2 DEF InStatus, LooksFirst, IsSet
  <2> QED
    BY <2>1 DEF IsSet
<1>4. DOMAIN todo' = 1 .. (n - 2) /\ \A i \in 1 .. (n - 2) : todo'[i] = todo[i + 2]
  BY <1>2, <1>3, ExercisingFacts
<1> HIDE DEF n
<1>5. /\ \A i \in DOMAIN todo' : i + 2 \in DOMAIN todo /\ todo'[i] = todo[i + 2] /\ i \in Nat
      /\ \A i \in DOMAIN todo : i # 1 /\ i # 2 => i - 2 \in DOMAIN todo' /\ todo'[i - 2] = todo[i]
  BY <1>2, <1>4
<1>6. todo[2].do = "set" /\ todo[2].to = TRUE
  BY <1>3 DEF IsSet
<1>7. \A i \in DOMAIN todo' : Own(exercise, todo[i])'
  BY <1>1, <1>5 DEF Own, Sends, IsSet, HeaterOf, Heating
<1>8. AtRest' /\ MayHeat' = MayHeat
  BY <1>1 DEF InStatus, AtRest, SpaRests, PumpRuns, PointKept, PoolCold, MayHeat, WasActive, Heats
<1>9. \A d : Never(todo, d) => Never(todo, d)'
  BY <1>5 DEF Never, IsSet
<1>10. ASSUME LowersFirst(todo) PROVE LowersFirst(todo)'
  <2>1. SUFFICES ASSUME NEW i \in DOMAIN todo', todo'[i].do = "set" /\ todo'[i].to
                 PROVE  \E j \in DOMAIN todo' : j < i /\ todo'[j].do = "setpoint" /\ todo'[j].device = "Pool_Heater"
    BY DEF LowersFirst
  <2>2. i + 2 \in DOMAIN todo /\ todo[i + 2].do = "set" /\ todo[i + 2].to
    BY <1>5, <2>1
  <2>3. PICK j \in DOMAIN todo : j < i + 2 /\ todo[j].do = "setpoint" /\ todo[j].device = "Pool_Heater"
    BY <1>10, <2>2 DEF LowersFirst
  <2>4. j # 1 /\ j # 2
    BY <1>6, <2>3
  <2>5. j - 2 < i
    BY <1>2, <1>5, <2>3
  <2> QED
    BY <1>5, <2>3, <2>4, <2>5
<1>11. ASSUME StopsFirst(todo) PROVE StopsFirst(todo)'
  <2>1. SUFFICES ASSUME NEW i \in DOMAIN todo', todo'[i].do = "set" /\ todo'[i].to
                 PROVE  \E j \in DOMAIN todo' : j < i /\ IsSet(todo'[j], "Pool_Heater", FALSE)
    BY DEF StopsFirst, IsSet
  <2>2. i + 2 \in DOMAIN todo /\ todo[i + 2].do = "set" /\ todo[i + 2].to
    BY <1>5, <2>1
  <2>3. PICK j \in DOMAIN todo : j < i + 2 /\ IsSet(todo[j], "Pool_Heater", FALSE)
    BY <1>11, <2>2 DEF StopsFirst
  <2>4. j # 1 /\ j # 2
    BY <1>6, <2>3 DEF IsSet
  <2>5. j - 2 < i
    BY <1>2, <1>5, <2>3
  <2> QED
    BY <1>5, <2>3, <2>4, <2>5
<1>12. LooksFirst(todo)'
  <2>1. ASSUME NEW i \in DOMAIN todo', IsSet(todo'[i], "Pool_Heater", TRUE), ~(water > Minimum)
        PROVE  i - 1 \in DOMAIN todo' /\ todo'[i - 1].do = "poolWater"
    <3>1. i + 2 \in DOMAIN todo /\ todo[i + 2] = todo'[i] /\ i \in Nat
      BY <1>5
    <3>2. i + 2 - 1 \in DOMAIN todo /\ todo[i + 2 - 1].do = "poolWater"
      BY <1>1, <2>1, <3>1 DEF InStatus, LooksFirst, IsSet
    <3>3. i + 2 - 1 # 2 /\ i + 2 - 1 # 1
      BY <1>5, <1>6, <3>1, <3>2
    <3>4. i + 2 - 1 - 2 = i - 1
      BY <3>1
    <3> QED
      BY <1>5, <3>2, <3>3, <3>4
  <2>2. ASSUME NEW i \in DOMAIN todo', todo'[i].do = "poolWater"
        PROVE  i + 1 \in DOMAIN todo' /\ IsSet(todo'[i + 1], "Pool_Heater", TRUE)
    <3>1. i + 2 \in DOMAIN todo /\ todo[i + 2] = todo'[i] /\ i \in Nat
      BY <1>5
    <3>2. i + 2 + 1 \in DOMAIN todo /\ IsSet(todo[i + 2 + 1], "Pool_Heater", TRUE)
      BY <1>1, <2>2, <3>1 DEF InStatus, LooksFirst, IsSet
    <3>3. i + 2 + 1 # 1 /\ i + 2 + 1 # 2 /\ i + 2 + 1 - 2 = i + 1
      BY <1>2, <1>4, <3>1
    <3>4. i + 1 \in DOMAIN todo' /\ todo'[i + 1] = todo[i + 2 + 1]
      BY <1>5, <3>2, <3>3
    <3> QED
      BY <3>2, <3>4 DEF IsSet
  <2> QED
    BY <1>1, <2>1, <2>2 DEF LooksFirst, IsSet
<1>13. InStatus'
  <2>1. MayHeat' => Never(todo, "Pool_Heater")'
    BY <1>1, <1>8, <1>9 DEF InStatus
  <2>2. initial'.on["Spa"] => Never(todo, "Spa_Heater")'
    BY <1>1, <1>9 DEF InStatus
  <2> QED
    BY <1>1, <1>8, <1>10, <1>11, <1>12, <2>1, <2>2 DEF InStatus
<1> QED
  BY <1>7, <1>13

\* The setup is complete.
LEMMA StatusSettles ==
  ASSUME Exercising, exercise = "status", Observe, todo' \in Seq(Quiet)
  PROVE  InStatus' /\ \A i \in DOMAIN todo' : Own(exercise, todo[i])'
<1>1. InStatus /\ UNCHANGED <<on, setpoint, water, excluded, initial, exercise>>
  BY ExercisingFacts DEF Underway, Observe, panelState
<1>2. \A i \in DOMAIN todo' : todo'[i] \in Quiet
  OBVIOUS
<1>3. AtRest' /\ MayHeat' = MayHeat
  BY <1>1 DEF InStatus, AtRest, SpaRests, PumpRuns, PointKept, PoolCold, MayHeat, WasActive, Heats
<1>4. \A i \in DOMAIN todo' : todo'[i].do # "poolWater" /\ ~(todo'[i].do = "set" /\ todo'[i].to)
  BY <1>2 DEF Quiet
<1>5. \A i \in DOMAIN todo' : \A d : ~IsSet(todo'[i], d, TRUE)
  BY <1>4 DEF IsSet
<1>6. \A i \in DOMAIN todo' : Own(exercise, todo[i])'
  BY <1>1, <1>2 DEF Own, Quiet, Sends, Trips, Heating
<1>7. LowersFirst(todo)' /\ StopsFirst(todo)'
  BY <1>4 DEF LowersFirst, StopsFirst
<1>8. LooksFirst(todo)' /\ Never(todo, "Pool_Heater")' /\ Never(todo, "Spa_Heater")'
  BY <1>4, <1>5 DEF LooksFirst, Never, IsSet
<1> QED
  BY <1>3, <1>6, <1>7, <1>8 DEF InStatus

\* The exercises, by name.
LEMMA Exercises == DOMAIN Program = Trips \cup {"spa", "status", "pool", "spaHeater"}
BY DEF Program, Trips

\* A step that keeps the session's own facts, when what it does next is right.
LEMMA Assembled ==
  ASSUME ColdInv, TripInv', UNCHANGED <<initial, exercise, begun, units, touches>>,
         result = "running", result' = IF todo' = <<>> THEN "passed" ELSE "running",
         Exercising => IF todo' = <<>> THEN AtRest' ELSE Underway'
  PROVE  ColdInv'
<1>1. begun > 0 /\ exercise \in DOMAIN Program
  BY DEF ColdInv
<1>2. begun' > 0 /\ begun' # 0 /\ exercise' \in (DOMAIN Program)'
  BY <1>1, Exercises DEF Program, ColdInv, TripInv, TypeInv, ExercisesTypeOK
<1>3. units' /\ Alone' => Exercising
  BY DEF Exercising, Alone
<1> QED
  BY <1>1, <1>2, <1>3 DEF ColdInv

\* The exercise that runs, and what is there of it.
LEMMA Running ==
  ASSUME Exercising
  PROVE  /\ exercise \in Trips \cup {"spa", "status", "pool", "spaHeater"}
         /\ exercise \in Trips => InTrip /\ todo[1].do = "set"
         /\ exercise = "spa" => InSpa
         /\ exercise = "status" => InStatus /\ AtRest
         /\ exercise = "pool" => InPool
         /\ exercise = "spaHeater" => AtRest
         /\ begun = 1 /\ exercise \in Heating => InHeater(HeaterOf(exercise))
<1>1. exercise \in DOMAIN Program
  BY DEF Exercising, ColdInv
<1>2. Underway /\ Own(exercise, todo[1])
  BY ExercisingFacts
<1> QED
  BY <1>1, <1>2, Exercises DEF Underway, Own, InStatus

\* A request, whichever exercise it is of.
LEMMA SetsOn ==
  ASSUME Exercising, TripInv', SetDevice
  PROVE  IF todo' = <<>> THEN AtRest' ELSE Underway'
<1>1. /\ todo' = Tail(todo) /\ result' = (IF todo' = <<>> THEN "passed" ELSE "running")
      /\ UNCHANGED <<exercise, begun, touches>> /\ Alone'
  BY DEF SetDevice, Proceed, Exercising, Alone
<1>2. \A i \in DOMAIN todo' : Own(exercise, todo[i])'
  BY <1>1, OwnKept
<1>3. begun' = 1 /\ exercise' \in Heating => InHeater(HeaterOf(exercise))'
  BY <1>1, HeaterSteps
<1>4. CASE exercise \in Trips
  BY <1>1, <1>2, <1>4, TripSets, TripRests DEF Underway, Trips, Heating
<1>5. CASE exercise = "spa"
  BY <1>1, <1>2, <1>5, SpaSets DEF Underway, Trips, Heating
<1>6. CASE exercise = "status"
  BY <1>1, <1>2, <1>6, StatusSets DEF Underway, Trips, Heating, InStatus
<1>7. CASE exercise = "pool"
  BY <1>1, <1>2, <1>3, <1>7, PoolSets DEF Underway, Trips
<1>8. CASE exercise = "spaHeater"
  BY <1>1, <1>2, <1>3, <1>8, SpaHeaterSteps DEF Underway, Trips
<1> QED
  BY <1>4, <1>5, <1>6, <1>7, <1>8, Running

\* An adjustment, whichever exercise it is of.
LEMMA SetsPoint ==
  ASSUME Exercising, SetSetpoint
  PROVE  IF todo' = <<>> THEN AtRest' ELSE Underway'
<1>1. todo' = Tail(todo) /\ UNCHANGED <<exercise, begun, on, water, initial>>
  BY DEF SetSetpoint, Proceed
<1>2. \A i \in DOMAIN todo' : Own(exercise, todo[i])'
  BY <1>1, OwnKept
<1>3. begun' = 1 /\ exercise' \in Heating => InHeater(HeaterOf(exercise))'
  BY <1>1, HeaterSteps
<1>4. CASE exercise \in Trips
  BY <1>4, Running, SetpointFacts
<1>5. CASE exercise = "spa"
  <2>1. todo[1].device # "Pool_Heater"
    BY <1>5, ExercisingFacts, SetpointFacts DEF Own, Sends
  <2>2. setpoint'["Pool_Heater"] = setpoint["Pool_Heater"]
    BY <2>1, ExercisingFacts, SetpointFacts
  <2> QED
    BY <1>1, <1>2, <1>5, <2>2, SetpointFacts, SpaProceeds DEF Underway, Trips, Heating
<1>6. CASE exercise = "status"
  BY <1>1, <1>2, <1>6, StatusPoints DEF Underway, Trips, Heating, InStatus
<1>7. CASE exercise = "pool"
  <2>1. todo[1].device = "Pool_Heater"
    BY <1>7, ExercisingFacts, SetpointFacts DEF Own, Sends, Heating, HeaterOf
  <2> QED
    BY <1>1, <1>2, <1>3, <1>7, <2>1, SetpointFacts, PoolProceeds DEF Underway, Trips
<1>8. CASE exercise = "spaHeater"
  BY <1>1, <1>2, <1>3, <1>8, SpaHeaterSteps DEF Underway, Trips
<1> QED
  BY <1>4, <1>5, <1>6, <1>7, <1>8, Running

\* The steps that only wait or look.
LEMMA LooksOn ==
  ASSUME Exercising, Observe, todo' = Tail(todo),
         \/ todo[1].do \in {"wait", "heats", "inactive"}
         \/ todo[1].do = "poolWater" /\ water > Minimum
  PROVE  IF todo' = <<>> THEN AtRest' ELSE Underway'
<1>1. UNCHANGED <<exercise, begun, on, setpoint, water, initial>>
  BY DEF Observe, panelState
<1>2. \A i \in DOMAIN todo' : Own(exercise, todo[i])'
  BY <1>1, OwnKept
<1>3. begun' = 1 /\ exercise' \in Heating => InHeater(HeaterOf(exercise))'
  BY <1>1, HeaterSteps
<1>4. CASE exercise \in Trips
  BY <1>4, Running
<1>5. CASE exercise = "spa"
  BY <1>1, <1>2, <1>5, SpaProceeds DEF Underway, Trips, Heating
<1>6. CASE exercise = "status"
  BY <1>1, <1>2, <1>6, StatusObserves DEF Underway, Trips, Heating, InStatus
<1>7. CASE exercise = "pool"
  BY <1>1, <1>2, <1>3, <1>7, PoolProceeds DEF Underway, Trips
<1>8. CASE exercise = "spaHeater"
  <2>1. AtRest'
    BY <1>1, <1>8, Running DEF AtRest, SpaRests, PumpRuns, PointKept, PoolCold
  <2> QED
    BY <1>1, <1>2, <1>3, <1>8, <2>1 DEF Underway, Trips
<1> QED
  BY <1>4, <1>5, <1>6, <1>7, <1>8, Running

\* Requests and adjustments keep the invariant.
LEMMA ColdSets ==
  ASSUME ColdInv, TripInv', SetDevice \/ SetSetpoint
  PROVE  ColdInv'
<1>1. /\ UNCHANGED <<initial, exercise, begun, units, touches>> /\ result = "running"
      /\ result' = IF todo' = <<>> THEN "passed" ELSE "running"
  BY DEF SetDevice, SetSetpoint, Doing, Proceed
<1>2. Exercising => IF todo' = <<>> THEN AtRest' ELSE Underway'
  BY SetsOn, SetsPoint
<1> QED
  BY <1>1, <1>2, Assembled

\* Which exercise it is that has such a step.
LEMMA Whose ==
  ASSUME Exercising
  PROVE  /\ todo[1].do = "spaWater" => exercise = "spa"
         /\ todo[1].do \in {"poolWater", "settled", "verify"} => exercise = "status"
<1>1. Own(exercise, todo[1])
  BY ExercisingFacts
<1> QED
  BY <1>1, Running DEF Own, Heating

\* So do the steps that wait and look.
LEMMA ColdObserves ==
  ASSUME ColdInv, TripInv',
         \/ WaitForStable \/ SpaTemperature \/ SpaHeats \/ StaysInactive \/ PoolTemperature
         \/ SetupComplete \/ VerifyStatus
  PROVE  ColdInv'
<1>1. /\ Observe /\ result = "running"
      /\ result' = IF todo' = <<>> THEN "passed" ELSE "running"
  BY DEF WaitForStable, SpaTemperature, SpaHeats, StaysInactive, PoolTemperature,
         SetupComplete, VerifyStatus, Doing, Proceed
<1>2. UNCHANGED <<initial, exercise, begun, units, touches, on, setpoint, water>>
  BY <1>1 DEF Observe, panelState
<1>3. ASSUME Exercising PROVE IF todo' = <<>> THEN AtRest' ELSE Underway'
  <2>0. todo[1] = Head(todo)
    BY <1>3, ExercisingFacts
  <2>1. CASE WaitForStable \/ SpaHeats \/ StaysInactive
    <3>1. todo' = Tail(todo) /\ todo[1].do \in {"wait", "heats", "inactive"}
      BY <2>0, <2>1 DEF WaitForStable, SpaHeats, StaysInactive, Doing, Proceed
    <3> QED
      BY <1>1, <1>3, <3>1, LooksOn
  <2>2. CASE SpaTemperature
    <3>1. exercise = "spa"
      BY <1>3, <2>0, <2>2, Whose DEF SpaTemperature, Doing
    <3> QED
      BY <1>2, <1>3, <2>2, <3>1, SpaReads DEF Underway, Trips, Heating
  <2>3. CASE PoolTemperature
    <3>0. exercise = "status" /\ todo[1].do = "poolWater"
      BY <1>3, <2>0, <2>3, Whose DEF PoolTemperature, Doing
    <3>1. CASE Warm /\ todo' = Tail(todo)
      BY <1>1, <1>3, <3>0, <3>1, LooksOn DEF Warm
    <3>2. CASE todo' = SubSeq(todo, 3, Len(todo))
      BY <1>1, <1>2, <1>3, <3>0, <3>2, StatusSkips DEF Underway, Trips, Heating, InStatus
    <3> QED
      BY <2>3, <3>1, <3>2 DEF PoolTemperature, Proceed
  <2>4. CASE SetupComplete
    <3>0. exercise = "status"
      BY <1>3, <2>0, <2>4, Whose DEF SetupComplete, Doing
    <3>1. todo' \in Seq(Quiet)
      BY <2>4, EmergencyQuiet DEF SetupComplete, Proceed
    <3> QED
      BY <1>1, <1>2, <1>3, <3>0, <3>1, StatusSettles DEF Underway, Trips, Heating, InStatus
  <2>5. CASE VerifyStatus
    <3>0. exercise = "status" /\ todo' = <<>>
      BY <1>3, <2>0, <2>5, Whose DEF VerifyStatus, Doing, Proceed
    <3>1. AtRest
      BY <1>3, <3>0, Running
    <3> QED
      BY <1>2, <3>0, <3>1 DEF AtRest, SpaRests, PumpRuns, PointKept, PoolCold
  <2> QED
    BY <2>1, <2>2, <2>3, <2>4, <2>5
<1> QED
  BY <1>1, <1>2, <1>3, Assembled

\* A failure ends the session's exercises; somebody else at the panel ends what is
\* said of it.
LEMMA ColdEnds ==
  ASSUME ColdInv, TripInv', RequestOverdue \/ Abandon \/ Touch \/ UNCHANGED exerciseVars
  PROVE  ColdInv'
<1>1. CASE RequestOverdue \/ Abandon
  <2>1. /\ result = "running" /\ result' = "failed" /\ todo' = <<>>
        /\ UNCHANGED <<initial, begun, units, touches>>
    BY <1>1 DEF RequestOverdue, Abandon, Doing, Fail, Observe, panelState
  <2>2. begun # 0
    BY <2>1 DEF ColdInv
  <2> QED
    BY <2>1, <2>2 DEF ColdInv
<1>2. CASE Touch
  <2>1. /\ touches' = touches + 1 /\ touches \in Nat
        /\ UNCHANGED <<units, initial, exercise, todo, result, begun>>
    BY <1>2 DEF Touch, ColdInv, TripInv, TypeInv, ExercisesTypeOK
  <2>2. ~Alone'
    BY <2>1 DEF Alone
  <2>3. (DOMAIN Program)' = DOMAIN Program
    BY DEF Program
  <2> QED
    BY <2>1, <2>2, <2>3 DEF ColdInv
<1>3. CASE UNCHANGED exerciseVars
  <2>1. UNCHANGED <<on, setpoint, water, units, excluded, initial, exercise, todo, result, begun, touches, asked>>
    BY <1>3 DEF exerciseVars, panelState
  <2>2. (DOMAIN Program)' = DOMAIN Program
    BY DEF Program
  <2>3. AtRest' = AtRest /\ InTrip' = InTrip /\ InSpa' = InSpa /\ InPool' = InPool
    BY <2>1 DEF AtRest, InTrip, InSpa, InPool, SpaRests, PumpRuns, PointKept, PoolCold, IsSet, GoesBack
  <2>4. AtRest' = AtRest /\ InStatus' = InStatus
    <3>1. MayHeat' = MayHeat
      BY <2>1 DEF MayHeat, WasActive, Heats
    <3>2. /\ \A d : Never(todo, d)' = Never(todo, d)
          /\ LowersFirst(todo)' = LowersFirst(todo) /\ StopsFirst(todo)' = StopsFirst(todo)
          /\ LooksFirst(todo)' = LooksFirst(todo)
      BY <2>1 DEF Never, LowersFirst, StopsFirst, LooksFirst, IsSet
    <3> QED
      BY <2>1, <2>3, <3>1, <3>2 DEF InStatus
  <2>5. InHeater(HeaterOf(exercise))' = InHeater(HeaterOf(exercise))
    BY <2>1 DEF InHeater, HeaterOf, PointFirst, IsSet
  <2>6. \A i \in DOMAIN todo : Own(exercise, todo[i])' = Own(exercise, todo[i])
    BY <2>1 DEF Own, IsSet, Sends, HeaterOf, Heating
  <2>7. Underway => Underway'
    BY <2>1, <2>3, <2>4, <2>5, <2>6 DEF Underway
  <2> QED
    BY <2>1, <2>2, <2>3, <2>7 DEF ColdInv, Alone
<1> QED
  BY <1>1, <1>2, <1>3

LEMMA SixSteps ==
  ASSUME NEW X, NEW a \in X, NEW b \in X, NEW c \in X, NEW d \in X, NEW e \in X, NEW f \in X,
         NEW q, q = <<a, b, c, d, e, f>>
  PROVE  /\ q \in Seq(X) /\ q # <<>> /\ Len(q) = 6 /\ DOMAIN q = {1, 2, 3, 4, 5, 6}
         /\ q[1] = a /\ q[2] = b /\ q[3] = c /\ q[4] = d /\ q[5] = e /\ q[6] = f
OBVIOUS

\* Five steps after others: the last of them is the last.
LEMMA FiveLast ==
  ASSUME NEW X, NEW p \in Seq(X), NEW b \in X, NEW c \in X, NEW d \in X, NEW e \in X, NEW f \in X,
         NEW q, q = p \o <<b, c, d, e, f>>
  PROVE  q \in Seq(X) /\ q # <<>> /\ q[Len(q)] = f
<1> DEFINE r == <<b, c, d, e, f>>
<1>1. r \in Seq(X) /\ Len(r) = 5 /\ r[5] = f
  OBVIOUS
<1> HIDE DEF r
<1>2. q = p \o r
  BY DEF r
<1>3. q \in Seq(X) /\ Len(q) = Len(p) + 5 /\ q[Len(p) + 5] = f
  BY <1>1, <1>2
<1> QED
  BY <1>3

\* A step of the exercise of heater h.
HeaterStep(h, o) ==
  /\ o.do \in {"set", "setpoint", "inactive"}
  /\ Sends(o) => o.device = h
  /\ o.do = "setpoint" => o.temperature \in {Minimum, Minimum + 1}

StopsLast(p, h) == IsSet(p[Len(p)], h, FALSE)

\* The setpoint goes up and back, then the heater on and off.
LEMMA HeaterProgramIs ==
  ASSUME TypeInv, NEW h \in Range(Heaters), NEW p, p = HeaterProgram(h)
  PROVE  /\ p # <<>> /\ StopsLast(p, h) /\ GoesBack(p) /\ PointFirst(p, h)
         /\ \A i \in DOMAIN p : HeaterStep(h, p[i])
<1> DEFINE a == SetTo(h, Minimum)
           b == SetTo(h, Minimum + 1)
           d == Set(h, TRUE)
           e == Op("inactive")
           f == Set(h, FALSE)
           q == <<a, b, a, d, e, f>>
           X == {a, b, d, e, f}
<1>1. /\ q \in Seq(X) /\ q # <<>> /\ Len(q) = 6 /\ DOMAIN q = {1, 2, 3, 4, 5, 6}
      /\ q[1] = a /\ q[2] = b /\ q[3] = a /\ q[4] = d /\ q[5] = e /\ q[6] = f
  <2>1. a \in X /\ b \in X /\ d \in X /\ e \in X /\ f \in X
    OBVIOUS
  <2> HIDE DEF X, a, b, d, e, f
  <2> QED
    BY <2>1, SixSteps
<1>2. /\ a.do = "setpoint" /\ a.device = h /\ a.temperature = Minimum
      /\ b.do = "setpoint" /\ b.device = h /\ b.temperature = Minimum + 1
      /\ d.do = "set" /\ d.device = h /\ e.do = "inactive" /\ f.do = "set" /\ f.device = h
      /\ ~IsSet(f, h, TRUE) /\ IsSet(f, h, FALSE)
  BY DEF SetTo, Set, Op, IsSet
<1>3. \A o \in X : HeaterStep(h, o)
  BY <1>2 DEF Sends, HeaterStep
<1> HIDE DEF a, b, d, e, f
<1>4. GoesBack(q)
  <2>1. SUFFICES ASSUME NEW i \in DOMAIN q, q[i].do = "setpoint", q[i].temperature # Minimum
                 PROVE  i + 1 \in DOMAIN q /\ q[i + 1].do = "setpoint" /\ q[i + 1].temperature = Minimum
    BY DEF GoesBack
  <2> HIDE DEF q
  <2>2. i = 2
    BY <1>1, <1>2, <2>1
  <2> QED
    BY <1>1, <1>2, <2>2
<1>5. PointFirst(q, h)
  <2>1. SUFFICES ASSUME NEW i \in DOMAIN q, IsSet(q[i], h, TRUE)
                 PROVE  \E j \in DOMAIN q : j < i /\ q[j].do = "setpoint"
    BY DEF PointFirst
  <2> HIDE DEF q
  <2>2. i # 1
    BY <1>1, <1>2, <2>1 DEF IsSet
  <2>3. 1 \in DOMAIN q /\ 1 < i
    BY <1>1, <2>2
  <2> QED
    BY <1>1, <1>2, <2>3
<1> HIDE DEF q
<1>6. q[Len(q)] = f /\ \A i \in DOMAIN q : HeaterStep(h, q[i])
  BY <1>1, <1>3
<1>7. p = q \/ p = <<f>> \o q
  <2>1. p = If(initial.on[h], <<f>>) \o q
    BY DEF HeaterProgram, q, a, b, d, e, f
  <2>2. <<>> \o q = q
    BY <1>1
  <2> QED
    BY <2>1, <2>2 DEF If
<1>8. CASE p = q
  BY <1>1, <1>2, <1>4, <1>5, <1>6, <1>8 DEF StopsLast
<1>9. CASE p = <<f>> \o q
  <2>0. f \in X
    OBVIOUS
  <2> HIDE DEF X, q
  <2>1. /\ DOMAIN q = 1 .. 6 /\ DOMAIN p = 1 .. 7 /\ Len(p) = 7
        /\ p[1] = f /\ \A i \in 1 .. 6 : p[i + 1] = q[i]
    <3>1. q \in Seq(X) /\ Len(q) = 6
      BY <1>1
    <3> DEFINE g == <<f>>
    <3>2. g \in Seq(X) /\ Len(g) = 1 /\ g[1] = f
      BY <2>0
    <3>3. Joined(p, g, q)
      BY <1>9 DEF Joined
    <3> HIDE DEF g
    <3>4. /\ DOMAIN p = 1 .. Len(g) + Len(q) /\ Len(p) = Len(g) + Len(q)
          /\ \A i \in 1 .. Len(g) : p[i] = g[i]
          /\ \A i \in 1 .. Len(q) : p[Len(g) + i] = q[i]
      <4>1. g \in Seq(X)
        BY <3>2
      <4>2. q \in Seq(X)
        BY <3>1
      <4> QED
        BY <4>1, <4>2, <3>3, JoinedParts
    <3>5. DOMAIN p = 1 .. 7 /\ Len(p) = 7 /\ p[1] = f /\ \A i \in 1 .. 6 : p[1 + i] = q[i]
      BY <3>1, <3>2, <3>4
    <3>6. ASSUME NEW i \in 1 .. 6
          PROVE  p[i + 1] = q[i]
      <4>1. i + 1 = 1 + i
        OBVIOUS
      <4> HIDE DEF q
      <4> QED
        BY <3>5, <4>1
    <3>7. DOMAIN q = 1 .. 6
      BY <3>1
    <3> QED
      BY <3>5, <3>6, <3>7
  <2>2. p # <<>> /\ p[Len(p)] = f
    <3>1. p # <<>>
      BY <2>1
    <3>2. q[6] = f
      BY <1>1
    <3>3. p[6 + 1] = q[6]
      BY <2>1
    <3> QED
      BY <2>1, <3>1, <3>2, <3>3
  <2>3. \A i \in DOMAIN p : i # 1 => i - 1 \in DOMAIN q /\ p[i] = q[i - 1] /\ i - 1 + 1 = i
    BY <2>1
  <2>4. \A i \in DOMAIN q : i + 1 \in DOMAIN p /\ p[i + 1] = q[i]
    BY <2>1
  <2>5. \A i \in DOMAIN p : HeaterStep(h, p[i])
    BY <1>3, <1>6, <2>0, <2>1, <2>3 DEF X
  <2>6. GoesBack(p)
    <3>1. SUFFICES ASSUME NEW i \in DOMAIN p, p[i].do = "setpoint", p[i].temperature # Minimum
                   PROVE  i + 1 \in DOMAIN p /\ p[i + 1].do = "setpoint" /\ p[i + 1].temperature = Minimum
      BY DEF GoesBack
    <3>2. i # 1
      BY <1>2, <2>1, <3>1
    <3>3. i - 1 \in DOMAIN q /\ p[i] = q[i - 1] /\ i - 1 + 1 = i
      BY <2>3, <3>2
    <3>4. i \in DOMAIN q /\ q[i].do = "setpoint" /\ q[i].temperature = Minimum
      BY <1>4, <3>1, <3>3 DEF GoesBack
    <3> QED
      BY <2>4, <3>4
  <2>7. PointFirst(p, h)
    <3>1. SUFFICES ASSUME NEW i \in DOMAIN p, IsSet(p[i], h, TRUE)
                   PROVE  \E j \in DOMAIN p : j < i /\ p[j].do = "setpoint"
      BY DEF PointFirst
    <3>2. i # 1
      BY <1>2, <2>1, <3>1 DEF IsSet
    <3>3. i - 1 \in DOMAIN q /\ p[i] = q[i - 1]
      BY <2>3, <3>2
    <3>4. PICK j \in DOMAIN q : j < i - 1 /\ q[j].do = "setpoint"
      BY <1>5, <3>1, <3>3 DEF PointFirst, IsSet
    <3>5. j + 1 < i
      BY <2>1, <3>4
    <3> QED
      BY <2>4, <3>4, <3>5
  <2> QED
    BY <1>2, <2>2, <2>5, <2>6, <2>7 DEF StopsLast
<1> QED
  BY <1>7, <1>8, <1>9

-----------------------------------------------------------------------------
(* The beginning of an exercise.                                             *)

\* The session is at rest, and begins exercise name.
Begins(name) ==
  /\ ColdInv /\ TypeInv /\ units /\ Alone /\ AtRest /\ todo' # <<>> /\ todo' = Program[name]
  /\ asked' = {} /\ exercise' = name /\ begun' = begun + 1
  /\ UNCHANGED <<on, setpoint, water, units, excluded, initial, touches>>

LEMMA RestsOn == ASSUME NEW name, Begins(name) PROVE AtRest'
BY DEF Begins, AtRest, SpaRests, PumpRuns, PointKept, PoolCold

\* Each exercise begins as it has to be.
LEMMA TripUnderway ==
  ASSUME NEW name \in Trips, Begins(name)
  PROVE  Underway'
<1>1. TripInv /\ exercise' = name /\ asked' = {} /\ AtRest'
  BY RestsOn DEF Begins, ColdInv
<1>2. InTrip'
  BY <1>1 DEF InTrip, AtRest
<1>3. \A i \in DOMAIN todo' : todo'[i].do = "set" /\ todo'[i].device \in Range(Switches)
  <2>1. CASE name = "consecutive"
    <3>1. todo' = ConsecutiveProgram
      BY <2>1 DEF Begins, Program
    <3>2. ConsecutiveProgram \in Seq(Requests)
      BY <1>1, ConsecutiveGoes
    <3>3. \A i \in DOMAIN ConsecutiveProgram : ConsecutiveProgram[i].do = "set"
      <4> DEFINE q == ConsecutiveProgram
      <4>1. q \in Seq(Requests)
        BY <3>2
      <4> HIDE DEF q
      <4>2. \A i \in DOMAIN q : q[i] \in Requests
        BY <4>1
      <4>3. \A i \in DOMAIN q : q[i].do = "set"
        BY <4>2 DEF Requests
      <4> QED
        BY <4>3 DEF q
    <3> QED
      BY <1>1, <3>1, <3>3, ConsecutiveGoes
  <2>2. CASE name = "sleep"
    <3>1. todo' = SleepProgram
      BY <2>2 DEF Begins, Program
    <3>2. PICK d \in Range(Switches) : todo' = <<Set(d, ~initial.on[d]), Set(d, initial.on[d])>>
      BY <1>1, <3>1, SleepGoes DEF Begins
    <3>3. DOMAIN todo' = 1 .. 2 /\ todo'[1] = Set(d, ~initial.on[d]) /\ todo'[2] = Set(d, initial.on[d])
      BY <3>2
    <3> QED
      BY <3>3 DEF Set
  <2> QED
    BY <2>1, <2>2 DEF Trips
<1> QED
  BY <1>1, <1>2, <1>3 DEF Underway, Own, Trips, Heating

LEMMA SpaUnderway ==
  ASSUME Begins("spa")
  PROVE  Underway'
<1> DEFINE a == Set("Spa_Heater", FALSE)
           b == Set("Spa", FALSE)
           c == Set("Filter_Pump", TRUE)
           d == Op("wait")
           e == Set("Spa", TRUE)
           f == Op("spaWater")
           X == {a, b, c, d, e, f}
           first == If(on["Spa_Heater"], <<a>>)
<1>1. \A o \in X : Own("spa", o)
  BY DEF Own, Sends, Set, Op, IsSet, Trips, Heating
<1>2. f.do = "spaWater"
  BY DEF Op
<1>3. todo' = first \o <<b, c, d, e, f>>
  BY DEF Begins, Program, SpaProgram
<1>4. exercise' = "spa" /\ AtRest'
  BY RestsOn DEF Begins
<1>5. a \in X /\ b \in X /\ c \in X /\ d \in X /\ e \in X /\ f \in X
  OBVIOUS
<1> HIDE DEF X, a, b, c, d, e, f
<1>9. first \in Seq(X)
  <2>1. <<a>> \in Seq(X)
    BY <1>5
  <2> QED
    BY <2>1, IfType
<1> HIDE DEF first
<1>6. todo' \in Seq(X) /\ todo' # <<>> /\ todo'[Len(todo')] = f
  BY <1>3, <1>5, <1>9, FiveLast
<1>7. \A i \in DOMAIN todo' : Own("spa", todo'[i])
  BY <1>1, <1>6
<1>8. InSpa'
  BY <1>2, <1>4, <1>6 DEF InSpa, AtRest
<1> QED
  BY <1>4, <1>7, <1>8 DEF Underway, Trips, Heating, Own, Sends, IsSet

\* A heater is exercised where it cannot heat: the water is too warm for it, if it flows.
LEMMA HeaterUnderway ==
  ASSUME NEW name \in Heating, Begins(name)
  PROVE  Underway'
<1> DEFINE h == HeaterOf(name)
           p == todo'
<1>1. h \in Range(Heaters) /\ exercise' = name /\ HeaterOf(exercise)' = h
  BY HeaterNames DEF HeaterOf, Begins
<1>2. HeaterSafe(h) /\ p = HeaterProgram(h) /\ p # <<>>
  BY DEF Begins, Program, If, Heating, HeaterOf
<1> HIDE DEF p, h
<1>3. StopsLast(p, h) /\ GoesBack(p) /\ PointFirst(p, h) /\ \A i \in DOMAIN p : HeaterStep(h, p[i])
  <2>1. TypeInv
    BY DEF Begins
  <2> QED
    BY <1>1, <1>2, <2>1, HeaterProgramIs
<1>4. \A i \in DOMAIN p : Own(name, p[i])
  BY <1>3 DEF HeaterStep, Own, Heating, Trips, h
<1>5. \A i \in DOMAIN todo' : Own(exercise, todo[i])'
  BY <1>1, <1>4 DEF p, Own, Sends, IsSet, HeaterOf, Heating
<1>6. AtRest'
  BY RestsOn
<1>7. name = "pool" => InPool'
  <2>1. GoesBack(todo)'
    BY <1>3 DEF p, GoesBack
  <2>2. name = "pool" => IsSet(todo[Len(todo)], "Pool_Heater", FALSE)'
    BY <1>3 DEF p, h, HeaterOf, IsSet, StopsLast
  <2> QED
    BY <1>2, <1>6, <2>1, <2>2 DEF InPool, AtRest, p
<1>8. begun' = 1 => InHeater(HeaterOf(exercise))'
  <2>1. ASSUME begun' = 1 PROVE on'["Filter_Pump"] => water' > Minimum + 1
    <3>1. on = initial.on /\ on' = on /\ water' = water
      BY <2>1 DEF Begins, ColdInv, TypeInv, ExercisesTypeOK
    <3> QED
      BY <1>2, <3>1 DEF HeaterSafe
  <2>2. PointFirst(todo', h)
    BY <1>3 DEF p
  <2>3. PointFirst(todo, HeaterOf(exercise))'
    BY <1>1, <2>2 DEF PointFirst, IsSet
  <2> QED
    BY <2>1, <2>3 DEF InHeater
<1> QED
  BY <1>1, <1>5, <1>6, <1>7, <1>8 DEF Underway, Trips, Heating

\* The first heater is the pool heater, unless that may heat.
LEMMA PoolFirst ==
  ASSUME units, ~MayHeat
  PROVE  StatusHeaters = <<"Pool_Heater">> \/ StatusHeaters = <<"Pool_Heater", "Spa_Heater">>
<1> DEFINE S == {h \in Range(Heaters) \ excluded : ~WasActive(h)}
<1>1. StatusHeaters = Among(Heaters, S)
  BY DEF StatusHeaters, If, MayHeat
<1>2. Heaters \in Seq(Range(Heaters)) /\ "Pool_Heater" \in S
  BY HeaterNames DEF MayHeat
<1>3. Len(Heaters) = 2 /\ Heaters[1] = "Pool_Heater" /\ Heaters[2] = "Spa_Heater"
  BY DEF Heaters
<1> HIDE DEF S
<1>10. PICK k : /\ Among(Heaters, S) = k[Len(Heaters)] /\ k[0] = <<>>
                /\ \A i \in 1 .. Len(Heaters) :
                     k[i] = IF Heaters[i] \in S THEN Append(k[i - 1], Heaters[i]) ELSE k[i - 1]
  BY <1>2, AmongSteps
<1>4. /\ Among(Heaters, S) = k[2] /\ k[0] = <<>>
      /\ \A i \in 1 .. 2 : k[i] = IF Heaters[i] \in S THEN Append(k[i - 1], Heaters[i]) ELSE k[i - 1]
  BY <1>3, <1>10
<1>5. k[1] = Append(<<>>, "Pool_Heater")
  <2>1. 1 \in 1 .. 2 /\ 1 - 1 = 0
    OBVIOUS
  <2> QED
    BY <1>2, <1>3, <1>4, <2>1
<1>6. k[2] = k[1] \/ k[2] = Append(k[1], "Spa_Heater")
  <2>1. 2 \in 1 .. 2 /\ 2 - 1 = 1
    OBVIOUS
  <2> QED
    BY <1>3, <1>4, <2>1
<1>7. k[1] = <<"Pool_Heater">> /\ Append(<<"Pool_Heater">>, "Spa_Heater") = <<"Pool_Heater", "Spa_Heater">>
  <2>1. "Pool_Heater" \in Range(Heaters) /\ "Spa_Heater" \in Range(Heaters)
    BY HeaterNames
  <2> QED
    BY <1>5, <2>1, AppendIs
<1> QED
  BY <1>1, <1>4, <1>6, <1>7

\* q sets the setpoint of the pool heater; switches it off.
Lowers(q) == \E i \in DOMAIN q : q[i].do = "setpoint" /\ q[i].device = "Pool_Heater"
Stops(q) == \E i \in DOMAIN q : IsSet(q[i], "Pool_Heater", FALSE)

\* What two programs in a row have.
LEMMA InARow ==
  ASSUME NEW X, NEW a \in Seq(X), NEW b \in Seq(X)
  PROVE  /\ Lowers(a) \/ Lowers(b) => Lowers(a \o b)
         /\ Stops(a) \/ Stops(b) => Stops(a \o b)
         /\ Lowers(a) /\ LowersFirst(a) => LowersFirst(a \o b)
         /\ Stops(a) /\ StopsFirst(a) => StopsFirst(a \o b)
         /\ LooksFirst(a) /\ LooksFirst(b) => LooksFirst(a \o b)
<1> DEFINE c == a \o b
           m == Len(a)
           n == Len(b)
<1>1. /\ m \in Nat /\ n \in Nat /\ DOMAIN a = 1 .. m /\ DOMAIN b = 1 .. n /\ DOMAIN c = 1 .. m + n
      /\ \A i \in 1 .. m : c[i] = a[i]
      /\ \A i \in 1 .. n : c[m + i] = b[i]
  BY ConcatParts
<1> HIDE DEF c, m, n
<1>2. /\ \A i \in DOMAIN a : i \in DOMAIN c /\ c[i] = a[i]
      /\ \A i \in DOMAIN b : m + i \in DOMAIN c /\ c[m + i] = b[i]
      /\ \A i \in DOMAIN c : i \in DOMAIN a \/ (i > m /\ i - m \in DOMAIN b /\ c[i] = b[i - m])
  <2>1. ASSUME NEW i \in DOMAIN c PROVE i \in DOMAIN a \/ (i > m /\ i - m \in DOMAIN b /\ m + (i - m) = i)
    BY <1>1
  <2> QED
    BY <1>1, <2>1
<1>3. (Lowers(a) \/ Lowers(b) => Lowers(c)) /\ (Stops(a) \/ Stops(b) => Stops(c))
  <2>1. Lowers(a) => Lowers(c)
    BY <1>2 DEF Lowers
  <2>2. Lowers(b) => Lowers(c)
    BY <1>2 DEF Lowers
  <2>3. Stops(a) => Stops(c)
    BY <1>2 DEF Stops, IsSet
  <2>4. Stops(b) => Stops(c)
    BY <1>2 DEF Stops, IsSet
  <2> QED
    BY <2>1, <2>2, <2>3, <2>4
<1>4. ASSUME NEW i \in DOMAIN c, i \notin DOMAIN a, NEW j \in DOMAIN a PROVE j < i
  BY <1>1, <1>2, <1>4
<1>5. ASSUME Lowers(a), LowersFirst(a) PROVE LowersFirst(c)
  <2>1. SUFFICES ASSUME NEW i \in DOMAIN c, c[i].do = "set" /\ c[i].to
                 PROVE  \E j \in DOMAIN a : j < i /\ a[j].do = "setpoint" /\ a[j].device = "Pool_Heater"
    BY <1>2 DEF LowersFirst
  <2>2. CASE i \in DOMAIN a
    BY <1>2, <1>5, <2>1, <2>2 DEF LowersFirst
  <2>3. CASE i \notin DOMAIN a
    BY <1>4, <1>5, <2>3 DEF Lowers
  <2> QED
    BY <2>2, <2>3
<1>6. ASSUME Stops(a), StopsFirst(a) PROVE StopsFirst(c)
  <2>1. SUFFICES ASSUME NEW i \in DOMAIN c, c[i].do = "set" /\ c[i].to
                 PROVE  \E j \in DOMAIN c : j < i /\ IsSet(c[j], "Pool_Heater", FALSE)
    BY DEF StopsFirst, IsSet
  <2>2. CASE i \in DOMAIN a
    BY <1>2, <1>6, <2>1, <2>2 DEF StopsFirst, IsSet
  <2>3. CASE i \notin DOMAIN a
    BY <1>2, <1>4, <1>6, <2>3 DEF Stops, IsSet
  <2> QED
    BY <2>2, <2>3
<1>7. ASSUME LooksFirst(a), LooksFirst(b) PROVE LooksFirst(c)
  <2>1. ASSUME NEW i \in DOMAIN c, IsSet(c[i], "Pool_Heater", TRUE), ~(water > Minimum)
        PROVE  i - 1 \in DOMAIN c /\ c[i - 1].do = "poolWater"
    <3>1. CASE i \in DOMAIN a
      <4>1. i - 1 \in DOMAIN a /\ a[i - 1].do = "poolWater"
        BY <1>2, <1>7, <2>1, <3>1 DEF LooksFirst, IsSet
      <4> QED
        BY <1>2, <4>1
    <3>2. CASE i > m /\ i - m \in DOMAIN b /\ c[i] = b[i - m]
      <4>1. i - m - 1 \in DOMAIN b /\ b[i - m - 1].do = "poolWater"
        BY <1>7, <2>1, <3>2 DEF LooksFirst, IsSet
      <4>2. m + (i - m - 1) = i - 1
        BY <1>1, <2>1
      <4> QED
        BY <1>2, <4>1, <4>2
    <3> QED
      BY <1>2, <3>1, <3>2
  <2>2. ASSUME NEW i \in DOMAIN c, c[i].do = "poolWater"
        PROVE  i + 1 \in DOMAIN c /\ IsSet(c[i + 1], "Pool_Heater", TRUE)
    <3>1. CASE i \in DOMAIN a
      <4>1. i + 1 \in DOMAIN a /\ IsSet(a[i + 1], "Pool_Heater", TRUE)
        BY <1>2, <1>7, <2>2, <3>1 DEF LooksFirst, IsSet
      <4> QED
        BY <1>2, <4>1 DEF IsSet
    <3>2. CASE i > m /\ i - m \in DOMAIN b /\ c[i] = b[i - m]
      <4>1. i - m + 1 \in DOMAIN b /\ IsSet(b[i - m + 1], "Pool_Heater", TRUE)
        BY <1>7, <2>2, <3>2 DEF LooksFirst, IsSet
      <4>2. m + (i - m + 1) = i + 1
        BY <1>1, <2>2
      <4> QED
        BY <1>2, <4>1, <4>2 DEF IsSet
    <3> QED
      BY <1>2, <3>1, <3>2
  <2> QED
    BY <2>1, <2>2 DEF LooksFirst, IsSet
<1> QED
  BY <1>3, <1>5, <1>6, <1>7 DEF c

\* HeadOfTodo that neither switch anything on nor look at the water.
Lowering == {o \in Ops : o.do # "poolWater" /\ ~(o.do = "set" /\ o.to)}

\* Such steps keep every order.
LEMMA LoweringIs ==
  ASSUME NEW q \in Seq(Lowering)
  PROVE  LowersFirst(q) /\ StopsFirst(q) /\ LooksFirst(q)
<1>1. \A i \in DOMAIN q : q[i] \in Lowering
  OBVIOUS
<1> QED
  BY <1>1 DEF Lowering, LowersFirst, StopsFirst, LooksFirst, IsSet

\* What makes a heater nonheating.
LEMMA NonheatingIs ==
  ASSUME TypeInv, NEW h \in Range(Heaters), NEW Y, Set(h, FALSE) \in Y, SetTo(h, Minimum) \in Y
  PROVE  Nonheating(h) \in Seq(Y)
<1> DEFINE a == If(initial.on[h], <<Set(h, FALSE)>>)
           b == If(initial.setpoint[h] # Minimum, <<SetTo(h, Minimum)>>)
<1>1. <<Set(h, FALSE)>> \in Seq(Y) /\ <<SetTo(h, Minimum)>> \in Seq(Y)
  BY SixType
<1>2. a \in Seq(Y) /\ b \in Seq(Y)
  BY <1>1, IfType
<1>3. Nonheating(h) = a \o b
  BY DEF Nonheating
<1> HIDE DEF a, b
<1> QED
  BY <1>2, <1>3

\* The pool heater, when it was on or had another setpoint.
LEMMA NonheatingPool ==
  ASSUME TypeInv
  PROVE  /\ initial.setpoint["Pool_Heater"] # Minimum => Lowers(Nonheating("Pool_Heater"))
         /\ initial.on["Pool_Heater"] => Stops(Nonheating("Pool_Heater"))
<1> DEFINE h == "Pool_Heater"
           s == <<Set(h, FALSE)>>
           t == <<SetTo(h, Minimum)>>
           a == If(initial.on[h], s)
           b == If(initial.setpoint[h] # Minimum, t)
<1>1. s \in Seq(Ops) /\ t \in Seq(Ops)
  <2>0. Minimum \in Minimum .. Maximum
    BY ExerciseAssumption
  <2>1. Set(h, FALSE) \in Ops /\ SetTo(h, Minimum) \in Ops
    BY <2>0, OpTypes, HeaterNames
  <2> QED
    BY <2>1, SixType
<1>2. Stops(s)
  <2>1. 1 \in DOMAIN s /\ s[1] = Set(h, FALSE)
    OBVIOUS
  <2>2. IsSet(s[1], h, FALSE)
    BY <2>1 DEF IsSet, Set
  <2> HIDE DEF s
  <2> QED
    BY <2>1, <2>2 DEF Stops, IsSet
<1>3. Lowers(t)
  <2>1. 1 \in DOMAIN t /\ t[1] = SetTo(h, Minimum)
    OBVIOUS
  <2>2. t[1].do = "setpoint" /\ t[1].device = h
    BY <2>1 DEF SetTo
  <2> HIDE DEF t
  <2> QED
    BY <2>1, <2>2 DEF Lowers
<1> HIDE DEF s, t
<1>4. a \in Seq(Ops) /\ b \in Seq(Ops)
  BY <1>1, IfType
<1>5. (initial.on[h] => a = s) /\ (initial.setpoint[h] # Minimum => b = t)
  BY DEF If
<1>6. Nonheating(h) = a \o b
  BY DEF Nonheating, s, t
<1> HIDE DEF a, b
<1>7. (Stops(a) => Stops(a \o b)) /\ (Lowers(b) => Lowers(a \o b))
  BY <1>4, InARow
<1> QED
  BY <1>2, <1>3, <1>5, <1>6, <1>7

\* The first part of the program switches the pool heater off and lowers its setpoint.
LEMMA FirstIs ==
  ASSUME TypeInv, units
  PROVE  /\ LowersAll \in Seq(Lowering)
         /\ ~MayHeat /\ initial.setpoint["Pool_Heater"] # Minimum => Lowers(LowersAll)
         /\ ~MayHeat /\ initial.on["Pool_Heater"] => Stops(LowersAll)
<1>0. Seq(Lowering) \in SUBSET Seq(Ops)
  BY DEF Lowering
<1>1. \A h \in Range(Heaters) : Nonheating(h) \in Seq(Lowering)
  <2>0. Minimum \in Minimum .. Maximum
    BY ExerciseAssumption
  <2>1. \A h \in Range(Heaters) : Set(h, FALSE) \in Ops /\ SetTo(h, Minimum) \in Ops
    BY <2>0, OpTypes, HeaterNames
  <2>2. \A h \in Range(Heaters) : Set(h, FALSE) \in Lowering /\ SetTo(h, Minimum) \in Lowering
    BY <2>1 DEF Lowering, Set, SetTo
  <2> QED
    BY <2>2, NonheatingIs
<1>2. LowersAll \in Seq(Lowering)
  <2> DEFINE V == Seq(Lowering)
  <2>1. V \in SUBSET Seq(Ops) /\ <<>> \in V /\ \A a, b \in V : a \o b \in V
    BY <1>0
  <2>2. \A h \in IdleHeaters : Nonheating(h) \in V
    BY <1>1 DEF IdleHeaters
  <2> HIDE DEF V
  <2>3. LowersAll \in V
    BY <2>1, <2>2, PartsIn
  <2> QED
    BY <2>3 DEF V
<1>3. ASSUME ~MayHeat
      PROVE  \/ LowersAll = Nonheating("Pool_Heater")
             \/ LowersAll = Nonheating("Pool_Heater") \o Nonheating("Spa_Heater")
  <2> DEFINE q == Each(StatusHeaters, Nonheating)
  <2>1. LowersAll = FlattenSeq(q)
    BY DEF LowersAll, ForEach
  <2>2. Nonheating("Pool_Heater") \in Seq(Ops) /\ Nonheating("Spa_Heater") \in Seq(Ops)
    BY <1>0, <1>1, HeaterNames
  <2>3. CASE StatusHeaters = <<"Pool_Heater">>
    <3>1. q = [i \in 1 .. 1 |-> Nonheating(StatusHeaters[i])] /\ StatusHeaters[1] = "Pool_Heater"
      BY <2>3 DEF Each
    <3> HIDE DEF q
    <3>2. q \in Seq(Seq(Ops)) /\ Len(q) = 1 /\ q # <<>> /\ q[1] = Nonheating("Pool_Heater")
      BY <2>2, <3>1
    <3>3. FlattenSeq(q) = q[1]
      BY <3>2, FlattenSteps
    <3> QED
      BY <2>1, <3>2, <3>3
  <2>4. CASE StatusHeaters = <<"Pool_Heater", "Spa_Heater">>
    <3>1. /\ q = [i \in 1 .. 2 |-> Nonheating(StatusHeaters[i])] /\ StatusHeaters[1] = "Pool_Heater"
          /\ StatusHeaters[2] = "Spa_Heater"
      BY <2>4 DEF Each
    <3> HIDE DEF q
    <3>2. /\ q \in Seq(Seq(Ops)) /\ Len(q) = 2 /\ q # <<>> /\ q[1] = Nonheating("Pool_Heater")
          /\ q[2] = Nonheating("Spa_Heater")
      BY <2>2, <3>1
    <3>3. PICK k : FlattenSeq(q) = k[Len(q)]
                   /\ \A i \in 1 .. Len(q) : k[i] = IF i = 1 THEN q[i] ELSE k[i - 1] \o q[i]
      BY <3>2, FlattenSteps
    <3>4. k[1] = q[1] /\ k[2] = k[1] \o q[2]
      BY <3>2, <3>3
    <3> QED
      BY <2>1, <3>2, <3>3, <3>4
  <2> QED
    BY <1>3, <2>3, <2>4, PoolFirst
<1>4. /\ Lowers(Nonheating("Pool_Heater")) => Lowers(Nonheating("Pool_Heater") \o Nonheating("Spa_Heater"))
      /\ Stops(Nonheating("Pool_Heater")) => Stops(Nonheating("Pool_Heater") \o Nonheating("Spa_Heater"))
  <2>1. Nonheating("Pool_Heater") \in Seq(Ops) /\ Nonheating("Spa_Heater") \in Seq(Ops)
    BY <1>0, <1>1, HeaterNames
  <2> QED
    BY <2>1, InARow
<1> QED
  BY <1>2, <1>3, <1>4, NonheatingPool

\* Every step of the program is one that the status exercise may have before it.
Allowed ==
  {o \in Ops : /\ Own("status", o)
               /\ MayHeat => ~IsSet(o, "Pool_Heater", TRUE)
               /\ initial.on["Spa"] => ~IsSet(o, "Spa_Heater", TRUE)}

\* The parts of the program are of such steps.
LEMMA StatusStepsAllowed ==
  ASSUME TypeInv
  PROVE  /\ LowersAll \in Seq(Allowed) /\ Middle \in Seq(Allowed) /\ Raises \in Seq(Allowed)
         /\ Op("wait") \in Allowed /\ Op("settled") \in Allowed
<1>0. Seq(Allowed) \in SUBSET Seq(Ops) /\ <<>> \in Seq(Allowed) /\ \A a, b \in Seq(Allowed) : a \o b \in Seq(Allowed)
  <2>1. Allowed \subseteq Ops
    BY DEF Allowed
  <2> QED
    BY <2>1
<1>1. \A h \in IdleHeaters :
        /\ h \in Range(Heaters) /\ ~initial.on["Spa"]
        /\ MayHeat => h # "Pool_Heater"
  BY DEF IdleHeaters, MayHeat
<1>2. Op("wait") \in Allowed /\ Op("settled") \in Allowed /\ Op("poolWater") \in Allowed
  <2>1. Op("wait") \in Ops /\ Op("settled") \in Ops /\ Op("poolWater") \in Ops
    BY OpTypes DEF Others
  <2> QED
    BY <2>1 DEF Allowed, Own, Op, IsSet, Trips, Heating
<1>3. ASSUME NEW h \in IdleHeaters
      PROVE  Set(h, FALSE) \in Allowed /\ SetTo(h, Minimum) \in Allowed /\ Set(h, TRUE) \in Allowed
  <2>0. Minimum \in Minimum .. Maximum
    BY ExerciseAssumption
  <2>1. Set(h, FALSE) \in Ops /\ SetTo(h, Minimum) \in Ops /\ Set(h, TRUE) \in Ops
    BY <1>1, <2>0, OpTypes, HeaterNames
  <2> QED
    BY <1>1, <2>1 DEF Allowed, Own, Set, SetTo, IsSet, Trips, Heating
<1>4. LowersAll \in Seq(Allowed)
  <2>1. \A h \in IdleHeaters : Nonheating(h) \in Seq(Allowed)
    BY <1>1, <1>3, NonheatingIs
  <2> QED
    BY <1>0, <2>1, PartsIn
<1>5. Raises \in Seq(Allowed)
  <2>1. ASSUME NEW h \in IdleHeaters PROVE Raise(h) \in Seq(Allowed)
    <3>1. <<Op("poolWater")>> \in Seq(Allowed) /\ <<Set(h, TRUE)>> \in Seq(Allowed)
      BY <1>2, <1>3, SixType
    <3>2. If(h = "Pool_Heater", <<Op("poolWater")>>) \in Seq(Allowed)
      BY <3>1, IfType
    <3> QED
      BY <1>0, <3>1, <3>2 DEF Raise
  <2> QED
    BY <1>0, <2>1, PartsIn
<1>6. Middle \in Seq(Allowed)
  <2>1. ASSUME NEW d \in Dry PROVE Set(d, TRUE) \in Allowed
    <3>1. d \in Device /\ d # "Spa" /\ d \notin Range(Heaters)
      BY Constants, ExerciseAssumption DEF Dry, Hydraulic
    <3>2. Set(d, TRUE) \in Ops
      BY <3>1, OpTypes
    <3> QED
      BY <3>1, <3>2, HeaterNames DEF Allowed, Own, Set, IsSet, Trips, Heating
  <2> QED
    BY <2>1, MiddleIn
<1> QED
  BY <1>2, <1>4, <1>5, <1>6

\* Wherever it switches the pool heater on, it has just looked at the water.
LEMMA RaisesLook ==
  /\ Middle \in Seq(Ops) /\ LooksFirst(Middle)
  /\ Raises \in Seq(Ops) /\ LooksFirst(Raises)
<1> DEFINE V == {q \in Seq(Ops) : LooksFirst(q)}
<1>1. Middle \in Seq(Ops) /\ LooksFirst(Middle)
  <2> DEFINE Y == {o \in Ops : o.do # "poolWater" /\ ~IsSet(o, "Pool_Heater", TRUE)}
  <2>1. ASSUME NEW d \in Dry PROVE Set(d, TRUE) \in Y
    <3>1. d \in Device /\ d \notin Range(Heaters)
      BY Constants, ExerciseAssumption DEF Dry
    <3>2. Set(d, TRUE) \in Ops
      BY <3>1, OpTypes
    <3> QED
      BY <3>1, <3>2, HeaterNames DEF Set, IsSet
  <2>0. Y \subseteq Ops
    OBVIOUS
  <2> HIDE DEF Y
  <2>2. Middle \in Seq(Y)
    BY <2>1, MiddleIn
  <2>3. \A i \in DOMAIN Middle : Middle[i] \in Y
    BY <2>2
  <2>4. Middle \in Seq(Ops)
    BY <2>0, <2>2
  <2> QED
    BY <2>3, <2>4 DEF Y, LooksFirst, IsSet
<1>2. V \in SUBSET Seq(Ops) /\ <<>> \in V /\ \A a, b \in V : a \o b \in V
  <2>1. LooksFirst(<<>>)
    BY DEF LooksFirst
  <2> QED
    BY <2>1, InARow
<1>3. ASSUME NEW h \in IdleHeaters PROVE Raise(h) \in V
  <2> DEFINE a == Op("poolWater")
             b == Set(h, TRUE)
  <2>1. a \in Ops /\ b \in Ops /\ a.do = "poolWater" /\ b.do # "poolWater" /\ ~IsSet(a, "Pool_Heater", TRUE)
        /\ (h = "Pool_Heater" => IsSet(b, "Pool_Heater", TRUE))
        /\ (h # "Pool_Heater" => ~IsSet(b, "Pool_Heater", TRUE))
    BY OpTypes, HeaterNames DEF Others, IdleHeaters, Op, Set, IsSet
  <2> HIDE DEF a, b
  <2>2. CASE h = "Pool_Heater"
    <3> DEFINE r == <<a>> \o <<b>>
    <3>1. Raise(h) = r
      BY <2>2 DEF Raise, If, a, b
    <3>2. r \in Seq(Ops) /\ DOMAIN r = {1, 2} /\ r[1] = a /\ r[2] = b
      BY <2>1
    <3> HIDE DEF r
    <3>3. LooksFirst(r)
      BY <2>1, <2>2, <3>2 DEF LooksFirst, IsSet
    <3> QED
      BY <3>1, <3>2, <3>3
  <2>3. CASE h # "Pool_Heater"
    <3> DEFINE r == <<>> \o <<b>>
    <3>1. Raise(h) = r
      BY <2>3 DEF Raise, If, b
    <3>2. r \in Seq(Ops) /\ DOMAIN r = {1} /\ r[1] = b
      BY <2>1
    <3> HIDE DEF r
    <3>3. LooksFirst(r)
      BY <2>1, <2>3, <3>2 DEF LooksFirst, IsSet
    <3> QED
      BY <3>1, <3>2, <3>3
  <2> QED
    BY <2>2, <2>3
<1>4. Raises \in V
  <2> HIDE DEF V
  <2> QED
    BY <1>2, <1>3, PartsIn
<1> QED
  BY <1>1, <1>4

\* The status exercise begins with the first part, which is of the pool heater.
LEMMA StatusUnderway ==
  ASSUME Begins("status")
  PROVE  Underway'
<1> DEFINE w == <<Op("wait")>>
           s == <<Op("settled")>>
           a == LowersAll \o w
           b == a \o Middle
           c == b \o Raises
           p == c \o s
<1>1. TypeInv /\ units /\ AtRest /\ AtRest' /\ exercise' = "status"
      /\ UNCHANGED <<on, setpoint, water, excluded, initial>>
  BY RestsOn DEF Begins
<1>2. todo' = p
  <2>1. todo' = StatusProgram /\ todo' # <<>>
    BY DEF Begins, Program
  <2> QED
    BY <2>1, StatusProgramIs
<1>3. w \in Seq(Lowering) /\ w \in Seq(Allowed) /\ s \in Seq(Ops) /\ s \in Seq(Allowed) /\ s \in Seq(Lowering)
  <2>1. Op("wait") \in Ops /\ Op("settled") \in Ops
    BY OpTypes DEF Others
  <2>2. Op("wait") \in Lowering /\ Op("settled") \in Lowering
    BY <2>1 DEF Lowering, Op
  <2>3. Op("wait") \in Allowed /\ Op("settled") \in Allowed
    BY <1>1, StatusStepsAllowed
  <2> QED
    BY <2>1, <2>2, <2>3, SixType
<1> HIDE DEF w, s
<1>4. p \in Seq(Allowed)
  <2>1. LowersAll \in Seq(Allowed) /\ Middle \in Seq(Allowed) /\ Raises \in Seq(Allowed)
    BY <1>1, StatusStepsAllowed
  <2> QED
    BY <1>3, <2>1
<1>5. LowersAll \in Seq(Lowering) /\ a \in Seq(Lowering)
  <2>1. LowersAll \in Seq(Lowering)
    BY <1>1, FirstIs
  <2> QED
    BY <1>3, <2>1
<1>6. /\ LowersAll \in Seq(Ops) /\ w \in Seq(Ops) /\ a \in Seq(Ops) /\ Middle \in Seq(Ops)
      /\ Raises \in Seq(Ops) /\ s \in Seq(Ops)
  <2>1. Lowering \subseteq Ops
    BY DEF Lowering
  <2> QED
    BY <1>3, <1>5, <2>1, RaisesLook
<1>7. LowersFirst(a) /\ StopsFirst(a) /\ LooksFirst(a) /\ LooksFirst(s)
  BY <1>3, <1>5, LoweringIs
<1>8. (Lowers(LowersAll) => Lowers(a)) /\ (Stops(LowersAll) => Stops(a))
  BY <1>6, InARow
<1> HIDE DEF a
<1>9. b \in Seq(Ops) /\ c \in Seq(Ops)
  BY <1>6
<1> HIDE DEF b
<1>10. /\ LooksFirst(b)
       /\ Lowers(a) => LowersFirst(b) /\ Lowers(b)
       /\ Stops(a) => StopsFirst(b) /\ Stops(b)
  BY <1>6, <1>7, RaisesLook, InARow DEF b
<1> HIDE DEF c
<1>11. /\ LooksFirst(c)
       /\ Lowers(a) => LowersFirst(c) /\ Lowers(c)
       /\ Stops(a) => StopsFirst(c) /\ Stops(c)
  BY <1>6, <1>9, <1>10, RaisesLook, InARow DEF c
<1> HIDE DEF p
<1>12. /\ LooksFirst(p)
       /\ Lowers(a) => LowersFirst(p)
       /\ Stops(a) => StopsFirst(p)
  BY <1>6, <1>7, <1>9, <1>11, InARow DEF p
<1>13. ASSUME ~MayHeat
       PROVE  /\ setpoint["Pool_Heater"] = Minimum \/ LowersFirst(p)
              /\ ~on["Pool_Heater"] \/ water > Minimum \/ StopsFirst(p)
  <2>1. initial.setpoint["Pool_Heater"] # Minimum => Lowers(LowersAll)
    BY <1>1, <1>13, FirstIs
  <2>2. initial.on["Pool_Heater"] => Stops(LowersAll)
    BY <1>1, <1>13, FirstIs
  <2> QED
    BY <1>1, <1>8, <1>12, <2>1, <2>2 DEF AtRest, PointKept, PoolCold
<1>14. \A i \in DOMAIN p : p[i] \in Allowed
  BY <1>4
<1>15. MayHeat' = MayHeat
  BY <1>1 DEF MayHeat, WasActive, Heats
<1>16. InStatus'
  <2>1. /\ LooksFirst(p) => LooksFirst(todo)'
        /\ LowersFirst(p) => LowersFirst(todo)'
        /\ StopsFirst(p) => StopsFirst(todo)'
    BY <1>1, <1>2 DEF LooksFirst, LowersFirst, StopsFirst, IsSet
  <2>2. (MayHeat' => Never(todo, "Pool_Heater")') /\ (initial'.on["Spa"] => Never(todo, "Spa_Heater")')
    BY <1>1, <1>2, <1>14, <1>15 DEF Allowed, Never, IsSet
  <2> QED
    BY <1>1, <1>12, <1>13, <1>15, <2>1, <2>2 DEF InStatus
<1>17. \A i \in DOMAIN todo' : Own(exercise, todo[i])'
  <2>1. \A i \in DOMAIN todo' : Own("status", todo'[i])
    BY <1>2, <1>14 DEF Allowed
  <2> QED
    BY <1>1, <2>1 DEF Own, Sends, IsSet, HeaterOf, Heating
<1> QED
  BY <1>1, <1>16, <1>17 DEF Underway, Trips, Heating

LEMMA ColdBegins ==
  ASSUME ColdInv, TripInv', NEW name \in DOMAIN Program, BeginExercise(name)
  PROVE  ColdInv'
<1>1. /\ result \notin {"running", "failed"} /\ exercise' = name /\ todo' = Program[name]
      /\ result' = "running" <=> Program[name] # <<>>
      /\ begun' = begun + 1 /\ asked' = {} /\ begun \in Nat /\ TypeInv
      /\ UNCHANGED <<on, setpoint, water, units, excluded, initial, touches>>
  BY DEF BeginExercise, panelState, ColdInv, TripInv, TypeInv, ExercisesTypeOK
<1>2. exercise' \in (DOMAIN Program)'
  BY <1>1, Exercises DEF Program
<1>3. ASSUME units, Alone, result' = "running" PROVE Underway'
  <2>1. Begins(name)
    BY <1>1, <1>3 DEF Begins, ColdInv
  <2> QED
    BY <2>1, Exercises, TripUnderway, SpaUnderway, StatusUnderway, HeaterUnderway DEF Heating
<1>4. ASSUME units, Alone PROVE AtRest'
  BY <1>1, <1>4 DEF ColdInv, AtRest, SpaRests, PumpRuns, PointKept, PoolCold
<1>5. begun' # 0 /\ begun' > 0
  BY <1>1
<1> QED
  BY <1>1, <1>2, <1>3, <1>4, <1>5 DEF ColdInv, Alone

\* Every step keeps the invariant, and makes no heater heat that is to stay cold.
LEMMA ColdKept ==
  ASSUME ColdInv, [ExercisesNext]_exerciseVars
  PROVE  ColdInv'
<1>1. TripInv'
  BY TripKept DEF ColdInv
<1> QED
  BY <1>1, ColdSets, ColdObserves, ColdEnds, ColdBegins DEF ExercisesNext

LEMMA ColdStarts == ExercisesInit => ColdInv
<1> SUFFICES ASSUME ExercisesInit PROVE ColdInv
  OBVIOUS
<1>1. TripInv
  BY ExerciseTypesBegin DEF ExercisesInit, TripInv, RoundTrip, Trips
<1>2. initial.on = on /\ initial.setpoint = setpoint /\ (on["Spa"] => on["Filter_Pump"]) /\ todo = <<>>
      /\ result = "none"
  BY DEF ExercisesInit
<1>3. AtRest
  BY <1>2 DEF AtRest, SpaRests, PumpRuns, PointKept, PoolCold
<1> QED
  BY <1>1, <1>2, <1>3 DEF ColdInv

ColdStep ==
  NonheatingStep /\ units /\ Alone' =>
    \A h \in Range(Heaters) : Active(h)' => Active(h) \/ PassedOver(h)

LEMMA ColdActs ==
  ASSUME ColdInv, [ExercisesNext]_exerciseVars
  PROVE  [ColdStep]_exerciseVars
<1> SUFFICES ASSUME ExercisesNext, NonheatingStep, units, Alone', NEW h \in Range(Heaters),
                    ~PassedOver(h), Active(h)'
             PROVE  Active(h)
  BY DEF ColdStep
<1>1. CASE SetDevice \/ SetSetpoint \/ RequestOverdue
  <2>1. Exercising
    BY <1>1 DEF Exercising, Alone, SetDevice, SetSetpoint, RequestOverdue, Doing
  <2> QED
    BY <1>1, <2>1, StatusCold, HeaterCold DEF NonheatingStep, PassedOver, Heating
<1>2. CASE Touch
  <2>1. touches' = touches + 1 /\ touches \in Nat
    BY <1>2 DEF Touch, ColdInv, TripInv, TypeInv, ExercisesTypeOK
  <2> QED
    BY <2>1 DEF Alone
<1>3. ASSUME UNCHANGED <<on, setpoint, water>> PROVE Active(h)
  BY <1>3 DEF Active, Heats
<1> QED
  BY <1>1, <1>2, <1>3 DEF ExercisesNext, BeginExercise, Abandon, WaitForStable, SpaTemperature,
     SpaHeats, StaysInactive, PoolTemperature, SetupComplete, VerifyStatus, Observe, panelState

\* If the units are known and nobody else was at the panel, no step of the status
\* exercise (status_exercise.py) makes a heater heat, unless that is excluded and was on
\* already, and none of exercise_heater (keywords.py) that comes first, whichever
\* exercises went before it.
THEOREM NeverMadeToHeat == ExercisesSpec => StaysCold
<1>1. StaysCold <=> [][ColdStep]_exerciseVars
  BY DEF StaysCold, ColdStep
<1>2. ColdInv /\ [ExercisesNext]_exerciseVars => ColdInv'
  BY ColdKept
<1>3. ColdInv /\ [ExercisesNext]_exerciseVars => [ColdStep]_exerciseVars
  BY ColdActs
<1> QED
  BY <1>1, <1>2, <1>3, ColdStarts, PTL DEF ExercisesSpec

=============================================================================
