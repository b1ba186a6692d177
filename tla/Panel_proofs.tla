---------------------------- MODULE Panel_proofs ----------------------------
(***************************************************************************)
(* Proofs about the components at either end of a panel's line, for any    *)
(* screens, options, keys, payloads and bounds: the validator in the       *)
(* panel's place (PanelFree), the walk through the menus of one            *)
(* (MenuWalk), and the steps of a testcase that read and write the bytes   *)
(* of the line themselves (SerialLine, which implements SerialStream).     *)
(***************************************************************************)
EXTENDS MenuWalk, PanelFree, SerialLine, SequenceFacts, SequenceTheorems, TLAPS

-----------------------------------------------------------------------------
(* The keys that a sequence of ACKs carries.                                 *)

Ack == Key \cup {NoKey}

\* f counts the keys of s up to its n-th ACK.
Collects(f, s, n) ==
  f = [i \in 0 .. n |->
         IF i = 0 THEN <<>>
         ELSE IF s[i] = NoKey THEN f[i - 1] ELSE Append(f[i - 1], s[i])]

LEMMA Collected ==
  ASSUME NEW s \in Seq(Ack), NEW n \in 0 .. Len(s)
  PROVE  \E f : Collects(f, s, n)
<1> DEFINE S == {m \in 0 .. Len(s) : ~\E f : Collects(f, s, m)}
<1>1. SUFFICES ASSUME S # {} PROVE FALSE
  OBVIOUS
<1>2. PICK m \in S : \A e \in S : m <= e
  <2>1. S \subseteq Nat
    OBVIOUS
  <2> QED
    BY <1>1, <2>1, LeastNumber, Zenon
<1>3. m # 0
  <2>1. Collects([i \in 0 .. 0 |-> <<>>], s, 0)
    BY DEF Collects
  <2> QED
    BY <2>1
<1>4. m - 1 \in 0 .. Len(s) /\ ~(m <= m - 1)
  BY <1>3
<1>5. PICK f : Collects(f, s, m - 1)
  BY <1>2, <1>4
<1> DEFINE g == [i \in 0 .. m |->
                   IF i < m THEN f[i]
                   ELSE IF s[m] = NoKey THEN f[m - 1] ELSE Append(f[m - 1], s[m])]
<1>6. Collects(g, s, m)
  <2>1. ASSUME NEW i \in 0 .. m
        PROVE  g[i] = IF i = 0 THEN <<>>
                      ELSE IF s[i] = NoKey THEN g[i - 1] ELSE Append(g[i - 1], s[i])
    <3>1. CASE i = m
      BY <1>3, <3>1
    <3>2. CASE i # m
      <4>1. i \in 0 .. (m - 1) /\ i < m
        BY <3>2
      <4>2. f[i] = IF i = 0 THEN <<>>
                   ELSE IF s[i] = NoKey THEN f[i - 1] ELSE Append(f[i - 1], s[i])
        BY <1>5, <4>1 DEF Collects
      <4>3. i # 0 => i - 1 \in 0 .. m /\ i - 1 < m
        BY <4>1
      <4> QED
        BY <4>1, <4>2, <4>3
    <3> QED
      BY <3>1, <3>2
  <2>2. g = [i \in 0 .. m |-> g[i]]
    OBVIOUS
  <2> HIDE DEF g
  <2> QED
    BY <2>1, <2>2 DEF Collects
<1> QED
  BY <1>6

LEMMA CollectedSteps ==
  ASSUME NEW s \in Seq(Ack), NEW n \in 0 .. Len(s), NEW f, Collects(f, s, n)
  PROVE  /\ f[0] = <<>>
         /\ \A i \in 1 .. n :
              f[i] = IF s[i] = NoKey THEN f[i - 1] ELSE Append(f[i - 1], s[i])
<1>1. \A i \in 0 .. n : f[i] = IF i = 0 THEN <<>>
                     ELSE IF s[i] = NoKey THEN f[i - 1] ELSE Append(f[i - 1], s[i])
  BY DEF Collects
<1> QED
  BY <1>1

LEMMA AppendKey ==
  \A r, q \in Seq(Key), x \in Key : Append(r \o q, x) = r \o Append(q, x)
OBVIOUS

LEMMA ConcatConcat ==
  \A r, q, t \in Seq(Key) : r \o (q \o t) = (r \o q) \o t
OBVIOUS

LEMMA AppendsLast ==
  \A q \in Seq(Key), x \in Key : Append(q, x) = q \o <<x>> /\ <<x>> \in Seq(Key)
OBVIOUS

LEMMA ConcatType == \A r, q \in Seq(Key) : r \o q \in Seq(Key)
OBVIOUS

LEMMA KeyMoves ==
  \A r, q, t \in Seq(Key), x \in Key : r \o q \o (<<x>> \o t) = r \o Append(q, x) \o t
<1> SUFFICES ASSUME NEW r \in Seq(Key), NEW q \in Seq(Key), NEW t \in Seq(Key), NEW x \in Key
             PROVE  r \o q \o (<<x>> \o t) = r \o Append(q, x) \o t
  OBVIOUS
<1>1. r \o q \in Seq(Key) /\ <<x>> \in Seq(Key)
  OBVIOUS
<1>2. r \o q \o (<<x>> \o t) = ((r \o q) \o <<x>>) \o t
  BY <1>1, ConcatConcat, ZenonT(60)
<1>3. (r \o q) \o <<x>> = r \o (q \o <<x>>)
  <2>1. <<x>> \in Seq(Key)
    OBVIOUS
  <2> DEFINE y == <<x>>
  <2> HIDE DEF y
  <2>2. r \o (q \o y) = (r \o q) \o y
    BY <2>1, ConcatConcat DEF y
  <2> QED
    BY <2>2 DEF y
<1>4. q \o <<x>> = Append(q, x)
  BY AppendsLast, Zenon
<1> QED
  BY <1>2, <1>3, <1>4, Zenon

LEMMA KeyTaken ==
  \A r, q, t \in Seq(Key) : q # <<>> => r \o q \o t = Append(r, Head(q)) \o Tail(q) \o t
OBVIOUS

LEMMA CollectedType ==
  ASSUME NEW s \in Seq(Ack), NEW n \in 0 .. Len(s), NEW f, Collects(f, s, n)
  PROVE  \A i \in 0 .. n : f[i] \in Seq(Key)
<1> DEFINE S == {i \in 0 .. n : f[i] \notin Seq(Key)}
<1>1. SUFFICES ASSUME S # {} PROVE FALSE
  OBVIOUS
<1>2. PICK m \in S : \A e \in S : m <= e
  BY <1>1, S \subseteq Nat, LeastNumber, Zenon
<1>3. m # 0
  <2>1. f[0] = <<>>
    BY CollectedSteps
  <2>2. <<>> \in Seq(Key)
    OBVIOUS
  <2> QED
    BY <2>1, <2>2
<1>4. m \in 1 .. n /\ m - 1 \in 0 .. n /\ ~(m <= m - 1)
  BY <1>3
<1>5. f[m - 1] \in Seq(Key)
  BY <1>2, <1>4
<1>6. s[m] # NoKey => s[m] \in Key
  BY <1>4 DEF Ack
<1>7. f[m] = IF s[m] = NoKey THEN f[m - 1] ELSE Append(f[m - 1], s[m])
  BY <1>4, CollectedSteps
<1>8. s[m] # NoKey => Append(f[m - 1], s[m]) \in Seq(Key)
  BY <1>5, <1>6, AppendType
<1>9. f[m] \in Seq(Key)
  BY <1>5, <1>7, <1>8, Zenon
<1> QED
  BY <1>9

\* What two sequences have in common gives the same keys.
LEMMA CollectedAlike ==
  ASSUME NEW s \in Seq(Ack), NEW n \in 0 .. Len(s), NEW f, Collects(f, s, n),
         NEW t \in Seq(Ack), NEW m \in 0 .. Len(t), NEW g, Collects(g, t, m),
         NEW k \in 0 .. n, k <= m, \A i \in 1 .. k : s[i] = t[i]
  PROVE  f[k] = g[k]
<1> DEFINE S == {i \in 0 .. k : f[i] # g[i]}
<1>1. SUFFICES ASSUME S # {} PROVE FALSE
  OBVIOUS
<1>2. PICK d \in S : \A e \in S : d <= e
  BY <1>1, S \subseteq Nat, LeastNumber, Zenon
<1>3. d # 0
  BY CollectedSteps
<1>4. d \in 1 .. k /\ d \in 1 .. n /\ d \in 1 .. m /\ d - 1 \in 0 .. k /\ ~(d <= d - 1)
  BY <1>3
<1>5. f[d - 1] = g[d - 1]
  BY <1>2, <1>4
<1>6. f[d] = IF s[d] = NoKey THEN f[d - 1] ELSE Append(f[d - 1], s[d])
  BY <1>4, CollectedSteps
<1>7. g[d] = IF t[d] = NoKey THEN g[d - 1] ELSE Append(g[d - 1], t[d])
  BY <1>4, CollectedSteps
<1> QED
  BY <1>2, <1>4, <1>5, <1>6, <1>7

LEMMA KeysCollected ==
  ASSUME NEW s \in Seq(Ack)
  PROVE  \E f : Collects(f, s, Len(s)) /\ KeysIn(s) = f[Len(s)]
<1> DEFINE f == CHOOSE h : Collects(h, s, Len(s))
<1>1. Collects(f, s, Len(s))
  BY Collected
<1>2. KeysIn(s) = f[Len(s)]
  BY DEF KeysIn, Collects
<1> QED
  BY <1>1, <1>2

LEMMA KeysType == ASSUME NEW s \in Seq(Ack) PROVE KeysIn(s) \in Seq(Key)
BY KeysCollected, CollectedType, Len(s) \in 0 .. Len(s)

LEMMA KeysOfNone == KeysIn(<<>>) = <<>>
<1>1. <<>> \in Seq(Ack) /\ Len(<<>>) = 0
  OBVIOUS
<1>2. PICK f : Collects(f, <<>>, 0) /\ KeysIn(<<>>) = f[0]
  BY <1>1, KeysCollected
<1>3. 0 \in 0 .. 0
  OBVIOUS
<1>4. f[0] = <<>>
  BY ZenonT(40), <1>1, <1>2, <1>3, CollectedSteps
<1> QED
  BY <1>2, <1>4

\* One more ACK, one key more at the end if it carries one.
LEMMA KeysOfAppend ==
  ASSUME NEW s \in Seq(Ack), NEW k \in Ack
  PROVE  KeysIn(Append(s, k)) = IF k = NoKey THEN KeysIn(s) ELSE Append(KeysIn(s), k)
<1> DEFINE t == Append(s, k)
           n == Len(s)
<1>0. /\ t \in Seq(Ack) /\ Len(t) = n + 1 /\ n \in Nat
      /\ \A i \in 1 .. n : t[i] = s[i]
      /\ t[n + 1] = k
  OBVIOUS
<1> HIDE DEF t
<1>1. PICK f : Collects(f, s, n) /\ KeysIn(s) = f[n]
  BY KeysCollected
<1>2. PICK g : Collects(g, t, n + 1) /\ KeysIn(t) = g[n + 1]
  BY <1>0, KeysCollected
<1>3. n \in 0 .. n /\ n \in 0 .. n + 1 /\ n + 1 \in 0 .. n + 1 /\ n + 1 \in 1 .. n + 1
  BY <1>0
<1>4. g[n + 1] = IF t[n + 1] = NoKey THEN g[n + 1 - 1] ELSE Append(g[n + 1 - 1], t[n + 1])
  BY <1>0, <1>2, <1>3, CollectedSteps
<1>5. f[n] = g[n]
  BY <1>0, <1>1, <1>2, <1>3, CollectedAlike
<1>6. n + 1 - 1 = n
  BY <1>0
<1>7. KeysIn(t) = IF k = NoKey THEN KeysIn(s) ELSE Append(KeysIn(s), k)
  BY <1>0, <1>1, <1>2, <1>4, <1>5, <1>6
<1> QED
  BY <1>7 DEF t

\* Without the first n ACKs, of which only the first one may carry a key.
LEMMA KeysOfRest ==
  ASSUME NEW s \in Seq(Ack), NEW n \in 1 .. Len(s), \A i \in 2 .. n : s[i] = NoKey
  PROVE  KeysIn(s) = (IF s[1] = NoKey THEN <<>> ELSE <<s[1]>>)
                        \o KeysIn(SubSeq(s, n + 1, Len(s)))
<1> DEFINE t == SubSeq(s, n + 1, Len(s))
           first == IF s[1] = NoKey THEN <<>> ELSE <<s[1]>>
<1>0. /\ t \in Seq(Ack) /\ Len(t) = Len(s) - n /\ Len(t) \in Nat
      /\ \A i \in 1 .. Len(t) : t[i] = s[n + i]
  OBVIOUS
<1>first. first \in Seq(Key)
  BY DEF Ack
<1> HIDE DEF t
<1>1. PICK f : Collects(f, s, Len(s)) /\ KeysIn(s) = f[Len(s)]
  BY KeysCollected
<1>2. PICK g : Collects(g, t, Len(t)) /\ KeysIn(t) = g[Len(t)]
  BY <1>0, KeysCollected
<1>f. /\ f[0] = <<>>
      /\ \A i \in 1 .. Len(s) :
           f[i] = IF s[i] = NoKey THEN f[i - 1] ELSE Append(f[i - 1], s[i])
  BY <1>1, CollectedSteps, Len(s) \in 0 .. Len(s)
<1>g. /\ g[0] = <<>>
      /\ \A i \in 1 .. Len(t) :
           g[i] = IF t[i] = NoKey THEN g[i - 1] ELSE Append(g[i - 1], t[i])
  BY <1>0, <1>2, CollectedSteps, Len(t) \in 0 .. Len(t)
<1>t. \A i \in 0 .. Len(t) : g[i] \in Seq(Key)
  BY <1>0, <1>2, CollectedType, Len(t) \in 0 .. Len(t)
<1>3. f[1] = first
  <2>1. 1 \in 1 .. Len(s) /\ 1 - 1 = 0
    OBVIOUS
  <2>2. f[1] = IF s[1] = NoKey THEN f[0] ELSE Append(f[0], s[1])
    BY <1>f, <2>1
  <2>3. s[1] # NoKey => Append(<<>>, s[1]) = <<s[1]>>
    OBVIOUS
  <2> QED
    BY <1>f, <2>2, <2>3
<1> HIDE DEF first
<1>4. f[n] = first
  <2> DEFINE S == {i \in 1 .. n : f[i] # first}
  <2>1. SUFFICES ASSUME S # {} PROVE FALSE
    OBVIOUS
  <2>2. PICK d \in S : \A e \in S : d <= e
    BY <2>1, S \subseteq Nat, LeastNumber, Zenon
  <2>3. d # 1
    BY <1>3
  <2>4. d \in 2 .. n /\ d \in 1 .. Len(s) /\ d - 1 \in 1 .. n /\ ~(d <= d - 1)
    BY <2>3
  <2>5. f[d] = f[d - 1]
    BY <1>f, <2>4
  <2>6. f[d - 1] = first
    BY <2>2, <2>4
  <2> QED
    BY <2>2, <2>5, <2>6
<1>5. \A j \in 0 .. Len(t) : f[n + j] = first \o g[j]
  <2> DEFINE S == {j \in 0 .. Len(t) : f[n + j] # first \o g[j]}
  <2>1. SUFFICES ASSUME S # {} PROVE FALSE
    OBVIOUS
  <2>0. S \subseteq Nat
    BY <1>0
  <2>2. PICK d \in S : \A e \in S : d <= e
    BY <2>0, <2>1, LeastNumber
  <2>3. d # 0
    <3>1. f[n + 0] = first \o g[0]
      BY <1>4, <1>g, <1>first, n + 0 = n
    <3> QED
      BY <2>2, <3>1
  <2>4. /\ d \in 1 .. Len(t) /\ n + d \in 1 .. Len(s) /\ d - 1 \in 0 .. Len(t) /\ ~(d <= d - 1)
        /\ n + d - 1 = n + (d - 1)
    BY <1>0, <2>3
  <2>5. f[n + (d - 1)] = first \o g[d - 1]
    BY <2>2, <2>4
  <2>6. f[n + d] = IF s[n + d] = NoKey THEN f[n + d - 1] ELSE Append(f[n + d - 1], s[n + d])
    BY <1>f, <2>4
  <2>7. g[d] = IF s[n + d] = NoKey THEN g[d - 1] ELSE Append(g[d - 1], s[n + d])
    BY <1>0, <1>g, <2>4
  <2>8. s[n + d] # NoKey => s[n + d] \in Key
    BY <2>4 DEF Ack
  <2>9. g[d - 1] \in Seq(Key)
    BY <1>t, <2>4
  <2>10. ASSUME s[n + d] # NoKey
         PROVE  Append(first \o g[d - 1], s[n + d]) = first \o Append(g[d - 1], s[n + d])
    <3>1. s[n + d] \in Key
      BY <2>8, <2>10
    <3>2. first \in Seq(Key) /\ g[d - 1] \in Seq(Key)
      BY <1>first, <2>9
    <3> QED
      BY <3>1, <3>2, AppendKey
  <2>11. f[n + d] = first \o g[d]
    BY <2>4, <2>5, <2>6, <2>7, <2>10, Zenon
  <2> QED
    BY <2>2, <2>11
<1>6. f[n + Len(t)] = first \o g[Len(t)]
  BY <1>0, <1>5, Len(t) \in 0 .. Len(t)
<1>7. n + Len(t) = Len(s)
  BY <1>0
<1>8. KeysIn(s) = first \o KeysIn(t)
  BY <1>1, <1>2, <1>6, <1>7
<1> QED
  BY <1>8 DEF t, first
-----------------------------------------------------------------------------
(* The validator in the panel's place.                                       *)

FreeTypes ==
  FreeTypeOK /\ keysSent \in Seq(Key) /\ keysTaken \in Seq(Key) /\ dropped \in BOOLEAN

\* Each packet under way was sent after the ACK of an earlier one.
InFlight ==
  /\ Len(packets) + Len(acks) <= IF driver = "send" THEN 1 ELSE 2
  /\ driver = "off" => packets = <<>> /\ acks = <<>>

\* A scenario that is over has ended its driver, and cannot have passed by then if the
\* driver had failed.
EndedBoth ==
  /\ outcome # "none" => run = "over"
  /\ run = "over" => driver \in {"off", "stopped", "failed"}
  /\ DriverFailureNoticed

FreeInv == FreeTypes /\ InFlight /\ KeysInOrder /\ EndedBoth

LEMMA FreeInitially == FreeInit => FreeInv
<1> SUFFICES ASSUME FreeInit PROVE FreeInv
  OBVIOUS
<1>1. FreeTypes
  <2>1. /\ acks \in Seq(Key \cup {NoKey}) /\ pressed \in Seq(Key) /\ commands \in Seq(Key)
        /\ packets \in Seq([probe : BOOLEAN, pump : BOOLEAN])
        /\ keysSent \in Seq(Key) /\ keysTaken \in Seq(Key) /\ Len(packets) <= 2
    BY DEF FreeInit
  <2>2. stepsDone \in 0 .. MaxSteps
    BY KeyAssumption DEF FreeInit
  <2>3. /\ pump \in BOOLEAN /\ shown \in BOOLEAN /\ dropped \in BOOLEAN
        /\ driver \in {"off", "first", "send", "read", "failed", "stopped"}
        /\ run \in {"http", "startup", "steps", "expect", "poll", "request",
                   "stop", "cancelled", "over"}
        /\ outcome \in {"none", "passed", "failed", "cancelled", "raised"}
        /\ report \in {"none", "passed", "failed", "cancelled"}
    BY DEF FreeInit
  <2> QED
    BY <2>1, <2>2, <2>3 DEF FreeTypes, FreeTypeOK
<1>3. InFlight /\ EndedBoth
  BY DEF FreeInit, InFlight, EndedBoth, DriverFailureNoticed
<1>2. KeysInOrder
  BY KeysOfNone DEF FreeInit, KeysInOrder
<1> QED
  BY <1>1, <1>2, <1>3 DEF FreeInv

\* The steps that carry no key.
LEMMA KeysAtRest ==
  ASSUME KeysInOrder, UNCHANGED <<acks, commands, keysSent, keysTaken, dropped>>,
         driver = "failed" => driver' = "failed"
  PROVE  KeysInOrder'
BY DEF KeysInOrder

LEMMA PressStep == ASSUME FreeInv, Press PROVE FreeInv'
<1> USE DEF Press, driverVars, scenarioVars, keyHistory, wireVars
<1>1. FreeTypes'
  BY KeyAssumption DEF FreeInv, FreeTypes, FreeTypeOK
<1>2. InFlight' /\ EndedBoth'
  BY DEF FreeInv, InFlight, EndedBoth, DriverFailureNoticed
<1>3. KeysInOrder'
  BY KeysAtRest DEF FreeInv
<1> QED
  BY <1>1, <1>2, <1>3 DEF FreeInv

LEMMA AcknowledgeStep == ASSUME FreeInv, Acknowledge PROVE FreeInv'
<1> USE DEF Acknowledge, driverVars, scenarioVars
<1>0. /\ acks \in Seq(Ack) /\ pressed \in Seq(Key) /\ keysSent \in Seq(Key)
      /\ packets \in Seq([probe : BOOLEAN, pump : BOOLEAN]) /\ packets # <<>>
      /\ commands \in Seq(Key) /\ keysTaken \in Seq(Key) /\ shown \in BOOLEAN
  BY DEF FreeInv, FreeTypes, FreeTypeOK, Ack
<1>1. PICK k \in Ack :
         /\ acks' = acks \/ acks' = Append(acks, k)
         /\ acks' = acks => keysSent' = keysSent /\ pressed' = pressed
         /\ acks' # acks => IF k = NoKey THEN keysSent' = keysSent /\ pressed' = pressed
                            ELSE /\ pressed # <<>> /\ pressed' = Tail(pressed)
                                 /\ keysSent' = Append(keysSent, k)
  <2>1. CASE Head(packets).probe /\ ~probeAcked
    BY <2>1 DEF Ack
  <2>2. CASE ~(Head(packets).probe /\ ~probeAcked) /\ pressed = <<>>
    BY <2>2 DEF Ack
  <2>3. CASE ~(Head(packets).probe /\ ~probeAcked) /\ pressed # <<>>
    <3>1. Head(pressed) \in Key /\ NoKey \notin Key
      BY <1>0, <2>3, KeyAssumption
    <3>2. Append(acks, Head(pressed)) # acks
      BY <1>0, <3>1 DEF Ack
    <3> QED
      BY <2>3, <3>1, <3>2 DEF Ack
  <2> QED
    BY <2>1, <2>2, <2>3
<1>2. /\ packets' \in Seq([probe : BOOLEAN, pump : BOOLEAN])
      /\ Len(packets') = Len(packets) - 1 /\ Len(packets) \in Nat
      /\ shown' \in BOOLEAN
  <2>1. /\ Tail(packets) \in Seq([probe : BOOLEAN, pump : BOOLEAN])
        /\ Head(packets) \in [probe : BOOLEAN, pump : BOOLEAN]
        /\ Len(Tail(packets)) = Len(packets) - 1 /\ Len(packets) \in Nat
    BY <1>0, TailType, Zenon
  <2>2. Head(packets).pump \in BOOLEAN
    BY <2>1
  <2> QED
    BY <1>0, <2>1, <2>2
<1>3. /\ acks' \in Seq(Ack) /\ Len(acks') <= Len(acks) + 1
      /\ Len(acks') \in Nat /\ Len(acks) \in Nat
  <2>1. /\ Append(acks, k) \in Seq(Ack)
        /\ Len(Append(acks, k)) = Len(acks) + 1 /\ Len(acks) \in Nat
    BY <1>0, AppendType, AppendLength, Zenon
  <2>2. acks' = acks \/ acks' = Append(acks, k)
    BY <1>1, Zenon
  <2>3. CASE acks' = acks
    <3>1. Len(acks) <= Len(acks) + 1
      BY <2>1
    <3> QED
      BY <1>0, <2>1, <2>3, <3>1, Zenon
  <2>4. CASE acks' = Append(acks, k)
    <3>1. Len(acks) + 1 <= Len(acks) + 1 /\ Len(acks) + 1 \in Nat
      BY <2>1
    <3> QED
      BY <2>1, <2>4, <3>1, Zenon
  <2> QED
    BY <2>2, <2>3, <2>4
<1>4. pressed' \in Seq(Key) /\ keysSent' \in Seq(Key)
  <2>1. CASE k = NoKey \/ acks' = acks
    BY <1>0, <1>1, <2>1
  <2>2. CASE k # NoKey /\ acks' # acks
    <3>1. k \in Key /\ pressed # <<>>
      BY <1>1, <2>2 DEF Ack
    <3>2. Append(keysSent, k) \in Seq(Key) /\ Tail(pressed) \in Seq(Key)
      BY <1>0, <3>1, AppendType, TailType, Zenon
    <3> QED
      BY <1>1, <2>2, <3>2
  <2> QED
    BY <2>1, <2>2
<1>5. FreeTypes'
  BY <1>2, <1>3, <1>4 DEF FreeInv, FreeTypes, FreeTypeOK, Ack
<1>6. InFlight'
  BY <1>0, <1>2, <1>3 DEF FreeInv, InFlight
<1>7. EndedBoth'
  BY DEF FreeInv, EndedBoth, DriverFailureNoticed
<1>8. KeysInOrder'
  <2> SUFFICES ASSUME ~dropped, driver # "failed"
               PROVE  keysSent' = keysTaken \o commands \o KeysIn(acks')
    BY DEF KeysInOrder
  <2>1. keysSent = keysTaken \o commands \o KeysIn(acks)
    BY DEF FreeInv, KeysInOrder
  <2>2. KeysIn(acks) \in Seq(Key)
    BY <1>0, KeysType
  <2>3. CASE acks' = acks
    BY <1>1, <2>1, <2>3
  <2>4. CASE acks' # acks /\ k = NoKey
    BY <1>0, <1>1, <2>1, <2>4, KeysOfAppend
  <2>5. CASE acks' # acks /\ k # NoKey
    <3>1. k \in Key /\ keysTaken \o commands \in Seq(Key)
      BY <1>0, <2>5 DEF Ack
    <3>2. KeysIn(acks') = Append(KeysIn(acks), k)
      BY <1>0, <1>1, <2>5, KeysOfAppend
    <3>3. keysSent' = Append(keysSent, k)
      BY <1>1, <2>5
    <3> QED
      BY <2>1, <2>2, <3>1, <3>2, <3>3, AppendKey
  <2> QED
    BY <2>3, <2>4, <2>5
<1> QED
  BY <1>5, <1>6, <1>7, <1>8 DEF FreeInv

LEMMA ReadAckStep == ASSUME FreeInv, ReadAck PROVE FreeInv'
<1> USE DEF aqualinkdVars, scenarioVars
<1>0. /\ acks \in Seq(Ack) /\ commands \in Seq(Key) /\ keysTaken \in Seq(Key)
      /\ driver \in {"first", "read"} /\ pump \in BOOLEAN /\ dropped \in BOOLEAN
      /\ Len(packets) \in Nat
  BY DEF FreeInv, FreeTypes, FreeTypeOK, Ack, ReadAck
<1>1. PICK n \in DOMAIN acks :
        LET batch == SubSeq(acks, 1, n)
            key == IF driver = "first" THEN NoKey ELSE Frame(batch)
        IN  /\ acks' = SubSeq(acks, n + 1, Len(acks))
            /\ commands' = IF key = NoKey THEN commands ELSE Append(commands, key)
            /\ pump' = IF key = PumpKey THEN ~pump ELSE pump
            /\ dropped' = (dropped \/ (driver = "first" /\ batch[1] # NoKey)
                                   \/ \E i \in 2 .. n : batch[i] # NoKey)
  BY DEF ReadAck
<1>2. /\ n \in 1 .. Len(acks) /\ SubSeq(acks, 1, n)[1] = acks[1]
      /\ \A i \in 2 .. n : SubSeq(acks, 1, n)[i] = acks[i]
      /\ Head(SubSeq(acks, 1, n)) = acks[1] /\ acks[1] \in Ack
  BY <1>0
<1> DEFINE key == IF driver = "first" THEN NoKey ELSE acks[1]
<1>3. /\ acks' = SubSeq(acks, n + 1, Len(acks))
      /\ commands' = IF key = NoKey THEN commands ELSE Append(commands, key)
      /\ pump' = IF key = PumpKey THEN ~pump ELSE pump
      /\ ~dropped' => /\ ~dropped /\ \A i \in 2 .. n : acks[i] = NoKey
                      /\ driver = "first" => acks[1] = NoKey
      /\ dropped' \in BOOLEAN
  BY <1>0, <1>1, <1>2 DEF Frame
<1>4. driver' = "send" /\ UNCHANGED <<probeAcked, pressed, shown, packets, run, want,
                                     stepsDone, failing, outcome, report, keysSent, keysTaken>>
  BY DEF ReadAck
<1>5. key \in Ack
  BY <1>2 DEF Ack
<1> HIDE DEF key
<1>6. /\ acks' \in Seq(Ack) /\ Len(acks') + 1 <= Len(acks) /\ Len(acks') \in Nat
      /\ Len(acks) \in Nat
  <2>1. /\ SubSeq(acks, n + 1, Len(acks)) \in Seq(Ack)
        /\ Len(SubSeq(acks, n + 1, Len(acks))) = Len(acks) - n /\ Len(acks) \in Nat
    BY <1>0, <1>2, RestType, Zenon
  <2> QED
    BY SMTT(30), <1>2, <1>3, <2>1
<1>7. commands' \in Seq(Key) /\ pump' \in BOOLEAN
  <2>1. key # NoKey => key \in Key
    BY <1>5 DEF Ack
  <2>2. key # NoKey => Append(commands, key) \in Seq(Key)
    BY <1>0, <2>1, AppendType, Zenon
  <2> QED
    BY <1>0, <1>3, <2>2
<1>8. FreeTypes'
  BY <1>3, <1>4, <1>6, <1>7 DEF FreeInv, FreeTypes, FreeTypeOK, Ack
<1>9. InFlight'
  BY <1>0, <1>4, <1>6 DEF FreeInv, InFlight
<1>10. EndedBoth'
  BY <1>0, <1>4 DEF FreeInv, EndedBoth, DriverFailureNoticed
<1>11. KeysInOrder'
  <2> SUFFICES ASSUME ~dropped'
               PROVE  keysSent = keysTaken \o commands' \o KeysIn(acks')
    BY <1>4 DEF KeysInOrder
  <2>1. keysSent = keysTaken \o commands \o KeysIn(acks)
    BY <1>0, <1>3 DEF FreeInv, KeysInOrder
  <2>2. KeysIn(acks) = (IF key = NoKey THEN <<>> ELSE <<key>>) \o KeysIn(acks')
    <3>1. key = acks[1]
      BY <1>3 DEF key
    <3>2. \A i \in 2 .. n : acks[i] = NoKey
      BY <1>3
    <3> QED
      BY <1>0, <1>2, <1>3, <3>1, <3>2, KeysOfRest
  <2>3. KeysIn(acks') \in Seq(Key)
    BY <1>6, KeysType
  <2>4. CASE key = NoKey
    BY <1>0, <1>3, <2>1, <2>2, <2>3, <2>4
  <2>5. CASE key # NoKey
    <3>1. key \in Key
      BY <1>5, <2>5 DEF Ack
    <3>2. KeysIn(acks) = <<key>> \o KeysIn(acks') /\ commands' = Append(commands, key)
      BY <1>3, <2>2, <2>5
    <3>3. keysTaken \o commands \o (<<key>> \o KeysIn(acks'))
            = keysTaken \o Append(commands, key) \o KeysIn(acks')
      BY <1>0, <2>3, <3>1, KeyMoves, ZenonT(60)
    <3> QED
      BY <2>1, <3>2, <3>3, Zenon
  <2> QED
    BY <2>4, <2>5
<1> QED
  BY <1>8, <1>9, <1>10, <1>11 DEF FreeInv

LEMMA DriverSteps ==
  ASSUME FreeInv, SendProbe \/ SendStatus \/ DriverFails
  PROVE  FreeInv'
<1> USE DEF aqualinkdVars, wireVars, scenarioVars, keyHistory
<1>0. packets \in Seq([probe : BOOLEAN, pump : BOOLEAN]) /\ Status \in [probe : BOOLEAN, pump : BOOLEAN]
  BY DEF FreeInv, FreeTypes, FreeTypeOK, Status
<1>1. CASE SendProbe
  <2>1. /\ packets' \in Seq([probe : BOOLEAN, pump : BOOLEAN]) /\ Len(packets') = 2
    BY <1>0, <1>1 DEF SendProbe
  <2>2. acks = <<>> /\ Len(acks) = 0
    BY <1>1 DEF FreeInv, InFlight, SendProbe
  <2>3. FreeTypes' /\ InFlight'
    BY <1>1, <2>1, <2>2 DEF FreeInv, FreeTypes, FreeTypeOK, InFlight, SendProbe
  <2>4. EndedBoth' /\ KeysInOrder'
    BY <1>1, KeysAtRest DEF FreeInv, EndedBoth, DriverFailureNoticed, SendProbe
  <2> QED
    BY <2>3, <2>4 DEF FreeInv
<1>2. CASE SendStatus
  <2>1. /\ packets' \in Seq([probe : BOOLEAN, pump : BOOLEAN])
        /\ Len(packets') = Len(packets) + 1 /\ Len(packets) \in Nat
    BY <1>0, <1>2 DEF SendStatus
  <2>2. Len(acks) \in Nat
    BY DEF FreeInv, FreeTypes, FreeTypeOK
  <2>3. FreeTypes' /\ InFlight'
    BY <1>2, <2>1, <2>2 DEF FreeInv, FreeTypes, FreeTypeOK, InFlight, SendStatus
  <2>4. EndedBoth' /\ KeysInOrder'
    BY <1>2, KeysAtRest DEF FreeInv, EndedBoth, DriverFailureNoticed, SendStatus
  <2> QED
    BY <2>3, <2>4 DEF FreeInv
<1>3. CASE DriverFails
  <2>1. FreeTypes' /\ InFlight'
    BY <1>3, Len(packets) \in Nat, Len(acks) \in Nat
       DEF FreeInv, FreeTypes, FreeTypeOK, InFlight, DriverFails
  <2>2. EndedBoth' /\ KeysInOrder'
    BY <1>3, KeysAtRest DEF FreeInv, EndedBoth, DriverFailureNoticed, DriverFails
  <2> QED
    BY <2>1, <2>2 DEF FreeInv
<1> QED
  BY <1>1, <1>2, <1>3

\* The steps of the scenario that neither take a key nor end it.
LEMMA ScenarioSteps ==
  ASSUME FreeInv,
         \/ HttpReady \/ DriverReady \/ NextStep \/ Polled \/ StepsEnd \/ CancelRun
         \/ HttpRequest
  PROVE  FreeInv'
<1> USE DEF aqualinkdVars, wireVars, driverVars, keyHistory, Advance, EndStep
<1>1. /\ UNCHANGED <<shown, wireVars, driverVars, keyHistory, outcome, report>>
      /\ run \notin {"stop", "over"}
      /\ run' \in {"startup", "steps", "expect", "poll", "request", "stop", "cancelled"}
  BY DEF HttpReady, DriverReady, NextStep, Polled, StepsEnd, CancelRun, HttpRequest
<1>2. stepsDone' \in 0 .. MaxSteps
  <2>1. stepsDone \in 0 .. MaxSteps
    BY DEF FreeInv, FreeTypes, FreeTypeOK
  <2>2. CASE NextStep
    BY <2>1, <2>2, KeyAssumption DEF NextStep
  <2>3. CASE ~NextStep
    BY <2>1, <2>3 DEF HttpReady, DriverReady, Polled, StepsEnd, CancelRun, HttpRequest
  <2> QED
    BY <2>2, <2>3
<1>3. pressed' \in Seq(Key)
  <2>1. pressed \in Seq(Key)
    BY DEF FreeInv, FreeTypes, FreeTypeOK
  <2>2. pressed' = pressed \/ \E k \in Key : pressed' = Append(pressed, k)
    BY DEF HttpReady, DriverReady, NextStep, Polled, StepsEnd, CancelRun, HttpRequest
  <2> QED
    BY <2>1, <2>2, AppendType
<1>4. FreeTypes'
  BY <1>1, <1>2, <1>3 DEF FreeInv, FreeTypes, FreeTypeOK
<1>5. InFlight' /\ EndedBoth'
  BY <1>1 DEF FreeInv, InFlight, EndedBoth, DriverFailureNoticed
<1>6. KeysInOrder'
  BY <1>1, KeysAtRest DEF FreeInv
<1> QED
  BY <1>4, <1>5, <1>6 DEF FreeInv

LEMMA ExpectSteps == ASSUME FreeInv, ExpectCommand \/ ExpectFails PROVE FreeInv'
<1> USE DEF aqualinkdVars, wireVars, keyHistory, Advance, EndStep
<1>0. /\ commands \in Seq(Key) /\ keysTaken \in Seq(Key) /\ acks \in Seq(Ack)
  BY DEF FreeInv, FreeTypes, FreeTypeOK, Ack
<1>1. /\ UNCHANGED <<aqualinkdVars, wireVars, driver, pump, keysSent, dropped,
                     stepsDone, outcome, report>>
      /\ run = "expect" /\ run' = "steps"
  BY DEF ExpectCommand, ExpectFails
<1>2. \/ UNCHANGED <<commands, keysTaken>>
      \/ commands # <<>> /\ commands' = Tail(commands) /\ driver = "failed" /\ keysTaken' = keysTaken
      \/ commands # <<>> /\ commands' = Tail(commands) /\ keysTaken' = Append(keysTaken, Head(commands))
  BY DEF ExpectCommand, ExpectFails
<1>3. commands' \in Seq(Key) /\ keysTaken' \in Seq(Key)
  <2>1. commands # <<>> => /\ Head(commands) \in Key /\ Tail(commands) \in Seq(Key)
                           /\ Append(keysTaken, Head(commands)) \in Seq(Key)
    BY <1>0, TailType, AppendType, Zenon
  <2> QED
    BY <1>0, <1>2, <2>1
<1>4. FreeTypes'
  BY <1>1, <1>3 DEF FreeInv, FreeTypes, FreeTypeOK
<1>5. InFlight' /\ EndedBoth'
  BY <1>1 DEF FreeInv, InFlight, EndedBoth, DriverFailureNoticed
<1>6. KeysInOrder'
  <2> SUFFICES ASSUME ~dropped, driver # "failed"
               PROVE  keysSent = keysTaken' \o commands' \o KeysIn(acks)
    BY <1>1 DEF KeysInOrder
  <2>1. keysSent = keysTaken \o commands \o KeysIn(acks)
    BY DEF FreeInv, KeysInOrder
  <2>2. KeysIn(acks) \in Seq(Key)
    BY <1>0, KeysType
  <2>3. CASE UNCHANGED <<commands, keysTaken>>
    BY <2>1, <2>3
  <2>4. CASE /\ commands # <<>> /\ commands' = Tail(commands)
             /\ keysTaken' = Append(keysTaken, Head(commands))
    <3>1. keysTaken \o commands \o KeysIn(acks)
            = Append(keysTaken, Head(commands)) \o Tail(commands) \o KeysIn(acks)
      BY <1>0, <2>2, <2>4, KeyTaken, Zenon
    <3> QED
      BY <2>1, <2>4, <3>1
  <2> QED
    BY <1>2, <2>3, <2>4
<1> QED
  BY <1>4, <1>5, <1>6 DEF FreeInv

LEMMA StopDriverStep == ASSUME FreeInv, StopDriver PROVE FreeInv'
<1> USE DEF StopDriver, aqualinkdVars, wireVars, keyHistory
<1>1. Result \in {"passed", "failed", "cancelled"}
  BY DEF Result
<1>2. driver' \in {"off", "stopped", "failed"}
  BY DEF FreeInv, FreeTypes, FreeTypeOK
<1>3. FreeTypes'
  BY <1>1, <1>2 DEF FreeInv, FreeTypes, FreeTypeOK
<1>4. InFlight'
  BY <1>2, Len(packets) \in Nat, Len(acks) \in Nat DEF FreeInv, FreeTypes, FreeTypeOK, InFlight
<1>5. EndedBoth'
  BY <1>1, <1>2 DEF FreeInv, EndedBoth, DriverFailureNoticed
<1>6. KeysInOrder'
  BY KeysAtRest DEF FreeInv
<1> QED
  BY <1>3, <1>4, <1>5, <1>6 DEF FreeInv

LEMMA FreeSteps == FreeInv /\ [FreeNext]_freeVars => FreeInv'
<1> SUFFICES ASSUME FreeInv, [FreeNext]_freeVars PROVE FreeInv'
  OBVIOUS
<1>1. CASE Press
  BY <1>1, PressStep
<1>2. CASE Acknowledge
  BY <1>2, AcknowledgeStep
<1>3. CASE DriverStep
  BY <1>3, ReadAckStep, DriverSteps DEF DriverStep
<1>4. CASE ScenarioStep \/ CancelRun
  BY <1>4, ScenarioSteps, ExpectSteps, StopDriverStep DEF ScenarioStep
<1>5. CASE UNCHANGED freeVars
  BY <1>5, KeysAtRest
     DEF freeVars, aqualinkdVars, wireVars, driverVars, scenarioVars, keyHistory, FreeInv,
         FreeTypes, FreeTypeOK, InFlight, EndedBoth, DriverFailureNoticed
<1> QED
  BY <1>1, <1>2, <1>3, <1>4, <1>5 DEF FreeNext

LEMMA FreeInvariant == FreeSpec => []FreeInv
BY FreeInitially, FreeSteps, PTL DEF FreeSpec

\* The queues between AqualinkD, the line and the driver hold what they may; no more
\* than two packets are ever under way.
THEOREM FreeTypeCorrect == FreeSpec => []FreeTypeOK
<1>1. FreeInv => FreeTypeOK
  BY DEF FreeInv, FreeTypes
<1> QED
  BY <1>1, FreeInvariant, PTL

\* For any keys and any number of them, the keys of the ACKs reach expect_command in
\* their order and once each, whatever the lag of the ACKs behind the packets.
THEOREM KeysArriveInOrder == FreeSpec => []KeysInOrder
<1>1. FreeInv => KeysInOrder
  BY DEF FreeInv
<1> QED
  BY <1>1, FreeInvariant, PTL

\* stop() in the finally block of PanelFreeScenario.run lets no run pass whose driver
\* failed at any time, seen by a step or not.
THEOREM FailuresAreNoticed == FreeSpec => []DriverFailureNoticed
<1>1. FreeInv => DriverFailureNoticed
  BY DEF FreeInv, EndedBoth
<1> QED
  BY <1>1, FreeInvariant, PTL

-----------------------------------------------------------------------------
(* The walk through the menus.                                               *)

Clear == [kind |-> "clear"]
Text(s) == [kind |-> "text", of |-> s]
Bar(b) == [kind |-> "bar", on |-> b]

Packet == {Clear} \cup {Text(s) : s \in Screen} \cup {Bar(b) : b \in Nat}
KeyPress == [key : {"down", "select", "back"}, target : Label \cup {NoText}]

WalkTypes ==
  /\ at \in Screen /\ bar \in 0 .. Len(Options[at])
  /\ text \in Screen \cup {NoText} /\ mark \in Nat
  /\ keys \in Seq(KeyPress) /\ wire \in Seq(Packet)

\* The packets of w show nothing else than line b of screen s.
Fresh(w, s, b) == \A i \in DOMAIN w : w[i] \in {Text(s), Bar(b)}

\* Between two keys the client shows what the panel does.
Calm == keys = <<>> /\ text = at /\ mark = bar /\ Fresh(wire, at, bar)

\* After a key that the panel has not handled, nothing has changed.
Unhandled ==
  /\ text = at /\ mark = bar /\ Fresh(wire, at, bar) /\ Len(keys) = 1
  /\ before = [lines |-> text, highlight |-> Highlighted]
  /\ await = IF keys[1].key = "down" THEN "highlight" ELSE "screen"
  /\ keys[1].key = "select" /\ bar # 0 => keys[1].target = Options[at][bar]
  /\ task = "home" => at # Home /\ keys[1].key = "back"

\* The screen is right; the bar may have moved once, and may not be shown yet.
Catching ==
  /\ keys = <<>> /\ text = at
  /\ \A i \in DOMAIN wire : wire[i] \in {Text(at), Bar(mark), Bar(bar)}
  /\ mark # bar => \A i, j \in DOMAIN wire : i < j /\ wire[i] = Bar(bar) => wire[j] # Bar(mark)

\* A new screen is on its way, behind n - 1 packets of the one that the client shows;
\* the walk home always gets to another screen.
Redrawn ==
  /\ keys = <<>> /\ await = "screen" /\ text = before.lines /\ (task = "home" => text # at)
  /\ \E n \in DOMAIN wire :
       /\ Len(wire) = n + 2
       /\ wire[n] = Clear /\ wire[n + 1] = Text(at) /\ wire[n + 2] = Bar(bar)
       /\ \A i \in 1 .. n - 1 : wire[i] \in {Text(text), Bar(mark)}

Cleared == keys = <<>> /\ text = NoText /\ wire = <<Text(at), Bar(bar)>>

Opened == keys = <<>> /\ text = NoText /\ wire = <<Clear, Text(at), Bar(bar)>>

\* Nothing reaches the client any more.
Broken == keys = <<>> /\ wire = <<>> /\ reader # "on"

\* As long as every wait ended with the panel's answer.
Dialogue ==
  ~late /\ ~Over =>
    IF task = "connect"
    THEN IF await = "none" THEN Broken /\ text = NoText ELSE Opened \/ Cleared \/ Catching
    ELSE IF await = "none" THEN Calm
    ELSE Unhandled \/ Catching \/ Redrawn \/ Cleared \/ Broken

WalkInv == WalkTypes /\ Dialogue /\ SelectsIntended

LEMMA PacketKinds ==
  ASSUME NEW s, NEW b
  PROVE  /\ Text(s).kind = "text" /\ Text(s).of = s
         /\ Bar(b).kind = "bar" /\ Bar(b).on = b /\ Clear.kind = "clear"
BY DEF Text, Bar, Clear

LEMMA PacketTypes ==
  /\ Clear \in Packet
  /\ \A s \in Screen : Text(s) \in Packet
  /\ \A b \in Nat : Bar(b) \in Packet
BY DEF Packet

LEMMA DrawnPackets == \A s, b : Drawn(s, b) = <<Clear, Text(s), Bar(b)>>
BY DEF Drawn, Clear, Text, Bar

LEMMA FirstType == \A s \in Screen : First(s) \in 0 .. Len(Options[s]) /\ Len(Options[s]) \in Nat
<1> TAKE s \in Screen
<1>1. Options[s] \in Seq(Label)
  BY MenuAssumption
<1>2. Options[s] # <<>> => Len(Options[s]) \in Nat \ {0}
  BY <1>1, TailType, Zenon
<1>3. Len(Options[s]) \in Nat
  BY <1>1
<1> QED
  BY <1>2, <1>3 DEF First

LEMMA HighlightedType == WalkTypes => Highlighted \in Label \cup {NoText}
<1> SUFFICES ASSUME text \in Screen, mark \in DOMAIN Options[text]
             PROVE  Options[text][mark] \in Label
  BY DEF Highlighted
<1>1. Options[text] \in Seq(Label)
  BY MenuAssumption
<1> QED
  BY <1>1

-----------------------------------------------------------------------------
(* What the panel does with a key: it moves the bar, draws another screen,   *)
(* or stays where it is.                                                     *)

Shows(new) == wire' = IF reader = "on" THEN wire \o new ELSE <<>>

Moved ==
  /\ Head(keys).key = "down" /\ at' = at /\ bar' \in 0 .. Len(Options[at])
  /\ Shows(<<Bar(bar')>>)

Opens ==
  /\ Head(keys).key # "down" /\ at' \in Screen /\ bar' = First(at')
  /\ Shows(<<Clear, Text(at'), Bar(bar')>>)
  /\ Head(keys).key = "back" => at # Home /\ at' = Parent[at]

Stays ==
  /\ Head(keys).key # "down" /\ at' = at /\ bar' = bar
  /\ wire' = wire \/ Shows(<<Text(at)>>)

LEMMA Handled ==
  ASSUME WalkTypes, Handle
  PROVE  /\ keys # <<>> /\ keys' = Tail(keys)
         /\ Moved \/ Opens \/ Stays
         /\ \/ stray' = stray
            \/ /\ Head(keys).key = "select" /\ bar # 0
               /\ stray' = stray \cup ({Options[at][bar]} \ {Head(keys).target})
<1>0. /\ at \in Screen /\ bar \in 0 .. Len(Options[at]) /\ keys # <<>> /\ keys' = Tail(keys)
      /\ Len(Options[at]) \in Nat /\ First(at) \in 0 .. Len(Options[at])
  BY FirstType DEF WalkTypes, Handle
<1>1. CASE Down
  <2>1. bar' \in 0 .. Len(Options[at])
    BY <1>0, <1>1 DEF Down
  <2>2. Moved
    BY <1>1, <2>1 DEF Down, Moved, Emit, Shows, Bar
  <2> QED
    BY <1>0, <1>1, <2>2 DEF Down
<1>2. CASE Select
  <2>1. CASE bar # 0 /\ Options[at][bar] \in Structural
    <3>1. at' \in Screen /\ bar' = First(at') /\ Emit(<<Clear, Text(at'), Bar(bar')>>)
      BY <1>2, <2>1, MenuAssumption, DrawnPackets DEF Select
    <3> QED
      BY <1>0, <1>2, <3>1 DEF Select, Opens, Emit, Shows
  <2>2. CASE ~(bar # 0 /\ Options[at][bar] \in Structural)
    <3>1. at' = at /\ bar' = bar /\ Emit(<<Text(at)>>)
      BY <1>2, <2>2 DEF Select, Text
    <3> QED
      BY <1>0, <1>2, <3>1 DEF Select, Stays, Emit, Shows
  <2> QED
    BY <2>1, <2>2
<1>3. CASE Back
  <2>1. CASE at = Home
    BY <1>0, <1>3, <2>1 DEF Back, Stays
  <2>2. CASE at # Home
    <3>1. at' = Parent[at] /\ bar' = First(at') /\ Emit(<<Clear, Text(at'), Bar(bar')>>)
      BY <1>3, <2>2, DrawnPackets DEF Back
    <3>2. at' \in Screen
      BY <1>0, <3>1, MenuAssumption
    <3> QED
      BY <1>0, <1>3, <2>2, <3>1, <3>2 DEF Back, Opens, Emit, Shows
  <2> QED
    BY <2>1, <2>2
<1> QED
  BY <1>1, <1>2, <1>3 DEF Handle

-----------------------------------------------------------------------------
(* The types.                                                                *)

LEMMA WalkInitially == WalkInit => WalkInv
<1> SUFFICES ASSUME WalkInit PROVE WalkInv
  OBVIOUS
<1>1. WalkTypes
  <2>1. bar \in 0 .. Len(Options[at])
    BY FirstType DEF WalkInit
  <2> QED
    BY <2>1 DEF WalkInit, WalkTypes
<1>2. Dialogue
  BY DEF WalkInit, Dialogue, Broken
<1>3. SelectsIntended
  BY DEF WalkInit, SelectsIntended
<1> QED
  BY <1>1, <1>2, <1>3 DEF WalkInv

\* What a step leaves of what is under way, and what the client makes of a packet.
LEMMA SendTypes ==
  ASSUME WalkTypes, NEW key \in {"down", "select", "back"}, SendKey(key)
  PROVE  WalkTypes'
<1>1. [key |-> key, target |-> IF key = "select" THEN Highlighted ELSE NoText] \in KeyPress
  BY HighlightedType DEF KeyPress
<1>2. keys' \in Seq(KeyPress)
  BY <1>1, AppendType, Zenon DEF SendKey, WalkTypes
<1> QED
  BY <1>2 DEF SendKey, WalkTypes

LEMMA PanelTypes == ASSUME WalkTypes, PanelActs PROVE WalkTypes'
<1>1. UNCHANGED <<text, mark>>
  BY DEF PanelActs, clientSide
<1>2. CASE Handle
  <2>1. keys' \in Seq(KeyPress)
    <3>1. keys \in Seq(KeyPress) /\ keys # <<>> /\ keys' = Tail(keys)
      BY <1>2, Handled DEF WalkTypes
    <3> QED
      BY <3>1, TailType, Zenon
  <2>2. at' \in Screen /\ bar' \in 0 .. Len(Options[at']) /\ bar' \in Nat
    BY <1>2, Handled, FirstType DEF WalkTypes, Moved, Opens, Stays
  <2>3. wire' \in Seq(Packet)
    <3>1. /\ <<Bar(bar')>> \in Seq(Packet) /\ <<Text(at)>> \in Seq(Packet)
          /\ <<Clear, Text(at'), Bar(bar')>> \in Seq(Packet) /\ <<>> \in Seq(Packet)
      <4>1. Clear \in Packet /\ Text(at') \in Packet /\ Text(at) \in Packet /\ Bar(bar') \in Packet
        BY <2>2, PacketTypes, Zenon DEF WalkTypes
      <4> QED
        BY <4>1
    <3>2. ASSUME NEW v \in Seq(Packet), Shows(v) PROVE wire' \in Seq(Packet)
      BY <3>1, <3>2, ConcatParts, Zenon DEF Shows, WalkTypes
    <3> QED
      BY <1>2, <3>1, <3>2, Handled DEF Moved, Opens, Stays, WalkTypes
  <2> QED
    BY <1>1, <2>1, <2>2, <2>3 DEF WalkTypes
<1>3. CASE Refresh
  <2>1. wire' = <<Text(at)>> /\ UNCHANGED <<at, bar, keys>>
    BY <1>3 DEF Refresh, Text
  <2>2. Text(at) \in Packet
    BY PacketTypes DEF WalkTypes
  <2>3. wire' \in Seq(Packet)
    BY <2>1, <2>2
  <2> QED
    BY <1>1, <2>1, <2>3 DEF WalkTypes
<1> QED
  BY <1>2, <1>3 DEF PanelActs

\* PdaScreen.apply
LEMMA Applied ==
  ASSUME WalkTypes, Receive
  PROVE  /\ wire # <<>> /\ wire' = Tail(wire) /\ UNCHANGED <<reader, at, bar, keys, stray, walkSide>>
         /\ wire[1] = Clear => text' = NoText /\ mark' = 0
         /\ \A s : wire[1] = Text(s) => text' = s /\ mark' = mark
         /\ \A b : wire[1] = Bar(b) => text' = text /\ mark' = b
<1>1. Head(wire) = wire[1] /\ wire # <<>>
  BY TailType DEF WalkTypes, Receive
<1>2. /\ text' = CASE wire[1].kind = "clear" -> NoText
                   [] wire[1].kind = "text" -> wire[1].of
                   [] OTHER -> text
      /\ mark' = CASE wire[1].kind = "clear" -> 0
                   [] wire[1].kind = "bar" -> wire[1].on
                   [] OTHER -> mark
  BY <1>1 DEF Receive
<1>3. wire[1] = Clear => text' = NoText /\ mark' = 0
  BY <1>2, PacketKinds
<1>4. ASSUME NEW s, wire[1] = Text(s) PROVE text' = s /\ mark' = mark
  BY <1>2, <1>4, PacketKinds
<1>5. ASSUME NEW b, wire[1] = Bar(b) PROVE text' = text /\ mark' = b
  BY <1>2, <1>5, PacketKinds
<1> QED
  BY <1>1, <1>3, <1>4, <1>5 DEF Receive

LEMMA ReceiveTypes == ASSUME WalkTypes, Receive PROVE WalkTypes'
<1>1. wire[1] \in Packet /\ Tail(wire) \in Seq(Packet)
  BY Applied, TailType DEF WalkTypes
<1>2. text' \in Screen \cup {NoText} /\ mark' \in Nat
  <2>1. CASE wire[1] = Clear
    BY <2>1, Applied
  <2>2. CASE \E s \in Screen : wire[1] = Text(s)
    BY <2>2, Applied DEF WalkTypes
  <2>3. CASE \E b \in Nat : wire[1] = Bar(b)
    BY <2>3, Applied DEF WalkTypes
  <2> QED
    BY <1>1, <2>1, <2>2, <2>3 DEF Packet
<1> QED
  BY <1>1, <1>2, Applied DEF WalkTypes

LEMMA WalkerTypes == ASSUME WalkTypes, WalkStep \/ ReaderFails PROVE WalkTypes'
<1>1. CASE \E key \in {"down", "select", "back"} : SendKey(key)
  BY <1>1, SendTypes
<1>2. CASE UNCHANGED <<at, bar, keys, text, mark>> /\ (wire' = wire \/ wire' = <<>>)
  <2>1. wire \in Seq(Packet) /\ <<>> \in Seq(Packet)
    BY DEF WalkTypes
  <2>2. wire' \in Seq(Packet)
    BY <1>2, <2>1, Zenon
  <2> QED
    BY <1>2, <2>2 DEF WalkTypes
<1>3. CASE Connect
  <2>1. <<Clear, Text(at), Bar(bar)>> \in Seq(Packet)
    <3>1. Clear \in Packet /\ Text(at) \in Packet /\ Bar(bar) \in Packet
      BY PacketTypes, FirstType DEF WalkTypes
    <3> QED
      BY <3>1
  <2>2. wire' \in Seq(Packet)
    BY <1>3, <2>1, DrawnPackets DEF Connect, WalkTypes
  <2> QED
    BY <1>3, <2>2 DEF Connect, WalkTypes
<1> QED
  BY <1>1, <1>2, <1>3
     DEF WalkStep, ReaderFails, Homeward, Enter, NextOption, NewOption, Enumerated, Move, Leave,
         Walked, GiveUp, Noticed, Settled, WaitFails, Stay, panelSide, clientSide

-----------------------------------------------------------------------------
(* The dialogue.                                                             *)

LEMMA PacketsDiffer ==
  /\ \A s, b : Text(s) # Bar(b) /\ Clear # Bar(b) /\ Clear # Text(s)
  /\ \A b, c : Bar(b) = Bar(c) => b = c
<1>1. ASSUME NEW s, NEW b PROVE Text(s) # Bar(b) /\ Clear # Bar(b) /\ Clear # Text(s)
  BY PacketKinds
<1>2. ASSUME NEW b, NEW c, Bar(b) = Bar(c) PROVE b = c
  BY <1>2, PacketKinds
<1> QED
  BY <1>1, <1>2

\* Only a key of the walker's dialogue is there to be handled, and then all is as it was
\* when it was sent.
LEMMA OneKey ==
  ASSUME WalkInv, ~late, ~Over, keys # <<>>
  PROVE  Unhandled /\ task # "connect" /\ await # "none" /\ Tail(keys) = <<>>
         /\ Head(keys) = keys[1]
<1>1. Unhandled /\ task # "connect" /\ await # "none"
  BY DEF WalkInv, Dialogue, Broken, Opened, Cleared, Catching, Calm, Redrawn
<1>2. Len(keys) = 1 /\ keys \in Seq(KeyPress)
  BY <1>1 DEF Unhandled, WalkInv, WalkTypes
<1>3. /\ Tail(keys) \in Seq(KeyPress) /\ Len(Tail(keys)) = Len(keys) - 1
      /\ Head(keys) = keys[1]
  BY <1>2, TailType
<1>4. Tail(keys) = <<>>
  BY <1>2, <1>3, NoLength, 1 - 1 = 0
<1> QED
  BY <1>1, <1>3, <1>4

LEMMA HandleDialogue ==
  ASSUME WalkInv, PanelActs, Handle
  PROVE  Dialogue' /\ SelectsIntended'
<1>0. UNCHANGED <<text, mark, heard, reader, task, await, before, late>> /\ ~Over
  BY DEF PanelActs, clientSide, walkSide
<1>1. SUFFICES ASSUME ~late PROVE Dialogue' /\ SelectsIntended'
  BY <1>0 DEF Dialogue, SelectsIntended
<1>2. /\ Unhandled /\ task # "connect" /\ await # "none" /\ keys' = <<>>
      /\ Head(keys) = keys[1]
  BY <1>1, <1>0, OneKey, Handled DEF WalkInv
<1>3. /\ text = at /\ mark = bar /\ Fresh(wire, at, bar)
      /\ wire \in Seq(Packet) /\ at \in Screen /\ bar \in Nat
  BY <1>2, FirstType DEF Unhandled, WalkInv, WalkTypes
<1>4. stray' = {}
  <2>1. stray = {}
    BY <1>1 DEF WalkInv, SelectsIntended
  <2>2. keys[1].key = "select" /\ bar # 0 => keys[1].target = Options[at][bar]
    BY <1>2 DEF Unhandled
  <2> QED
    BY <1>2, <2>1, <2>2, Handled DEF WalkInv
<1>5. CASE Moved
  <2>1. at' = at /\ (wire' = <<>> \/ wire' = wire \o <<Bar(bar')>>)
    BY <1>5 DEF Moved, Shows
  <2>2. ASSUME wire' = <<>> PROVE Catching'
    <3>1. DOMAIN wire' = {} /\ keys' = <<>> /\ text' = at'
      BY <1>0, <1>2, <1>3, <2>1, <2>2
    <3> QED
      BY <3>1 DEF Catching
  <2>3. ASSUME wire' = wire \o <<Bar(bar')>> PROVE Catching'
    <3>1. bar' \in Nat /\ <<Bar(bar')>> \in Seq(Packet)
      BY <1>3, <1>5, FirstType, PacketTypes DEF Moved
    <3>2. /\ Len(wire') = Len(wire) + 1 /\ Len(wire) \in Nat /\ wire' \in Seq(Packet)
          /\ \A i \in 1 .. Len(wire) : wire'[i] = wire[i]
          /\ wire'[Len(wire) + 1] = Bar(bar')
      BY <1>3, <2>3, <3>1, ConcatParts
    <3>3. \A i \in 1 .. Len(wire) : wire'[i] \in {Text(at), Bar(bar)}
      BY <1>3, <3>2 DEF Fresh
    <3>4. \A i \in DOMAIN wire' : wire'[i] \in {Text(at), Bar(bar), Bar(bar')}
      BY <3>2, <3>3
    <3>5. ASSUME mark # bar', NEW i \in DOMAIN wire', NEW j \in DOMAIN wire', i < j,
                 wire'[i] = Bar(bar')
          PROVE  FALSE
      <4>1. i \in 1 .. Len(wire)
        BY <3>2, <3>5
      <4> QED
        BY <1>3, <3>3, <3>5, <4>1, PacketsDiffer
    <3>6. keys' = <<>> /\ text' = at' /\ mark' = mark /\ mark = bar /\ at' = at
      BY <1>0, <1>2, <1>3, <2>1
    <3>7. \A i \in DOMAIN wire' : wire'[i] \in {Text(at'), Bar(mark'), Bar(bar')}
      BY <3>4, <3>6
    <3>8. mark' # bar' => \A i, j \in DOMAIN wire' :
                            i < j /\ wire'[i] = Bar(bar') => wire'[j] # Bar(mark')
      BY <3>5, <3>6
    <3> QED
      BY <3>6, <3>7, <3>8 DEF Catching
  <2>4. Catching'
    BY <2>1, <2>2, <2>3
  <2> QED
    BY <1>0, <1>2, <1>4, <2>4 DEF Dialogue, SelectsIntended
<1>6. CASE Opens
  <2>1. CASE reader # "on"
    BY <1>0, <1>2, <1>4, <1>6, <2>1 DEF Opens, Shows, Broken, Dialogue, SelectsIntended
  <2>2. CASE reader = "on"
    <3>1. wire' = wire \o <<Clear, Text(at'), Bar(bar')>>
      BY <1>6, <2>2 DEF Opens, Shows
    <3>2. at' \in Screen /\ bar' \in Nat
      BY <1>6, FirstType DEF Opens
    <3>3. Clear \in Packet /\ Text(at') \in Packet /\ Bar(bar') \in Packet
      BY <3>2, PacketTypes
    <3>4. <<Clear, Text(at'), Bar(bar')>> \in Seq(Packet)
      BY <3>3
    <3>5. /\ Len(wire') = Len(wire) + 3 /\ Len(wire) \in Nat /\ wire' \in Seq(Packet)
          /\ \A i \in 1 .. Len(wire) : wire'[i] = wire[i]
          /\ wire'[Len(wire) + 1] = Clear /\ wire'[Len(wire) + 2] = Text(at')
          /\ wire'[Len(wire) + 3] = Bar(bar')
      <4>1. 1 \in 1 .. 3 /\ 2 \in 1 .. 3 /\ 3 \in 1 .. 3
        OBVIOUS
      <4> QED
        BY <1>3, <3>1, <3>4, <4>1, ConcatParts
    <3>6. await = "screen" /\ text = before.lines
      BY <1>2, <1>6 DEF Opens, Unhandled
    <3>7. task = "home" => text # at'
      BY <1>2, <1>3, <1>6, PanelAssumption DEF Opens, Unhandled
    <3>8. /\ Len(wire) + 1 \in DOMAIN wire' /\ Len(wire') = (Len(wire) + 1) + 2
          /\ wire'[Len(wire) + 1] = Clear /\ wire'[(Len(wire) + 1) + 1] = Text(at')
          /\ wire'[(Len(wire) + 1) + 2] = Bar(bar')
          /\ \A i \in 1 .. (Len(wire) + 1) - 1 : wire'[i] \in {Text(text), Bar(mark)}
      BY <1>3, <3>5 DEF Fresh
    <3>9. Redrawn'
      BY <1>0, <1>2, <3>6, <3>7, <3>8 DEF Redrawn
    <3> QED
      BY <1>0, <1>2, <1>4, <3>9 DEF Dialogue, SelectsIntended
  <2> QED
    BY <2>1, <2>2
<1>7. CASE Stays
  <2>1. at' = at /\ bar' = bar /\ (wire' = wire \/ wire' = <<>> \/ wire' = wire \o <<Text(at)>>)
    BY <1>7 DEF Stays, Shows
  <2>2. \A i \in DOMAIN wire' : wire'[i] \in {Text(at), Bar(bar)}
    <3>1. CASE wire' = wire \/ wire' = <<>>
      BY <1>3, <3>1 DEF Fresh
    <3>2. CASE wire' = wire \o <<Text(at)>>
      <4>1. <<Text(at)>> \in Seq(Packet)
        BY <1>3, PacketTypes
      <4>2. /\ Len(wire') = Len(wire) + 1 /\ Len(wire) \in Nat /\ wire' \in Seq(Packet)
            /\ \A i \in 1 .. Len(wire) : wire'[i] = wire[i]
            /\ wire'[Len(wire) + 1] = Text(at)
        BY <1>3, <3>2, <4>1, ConcatParts
      <4> QED
        BY <1>3, <4>2 DEF Fresh
    <3> QED
      BY <2>1, <3>1, <3>2
  <2>3. Catching'
    BY <1>0, <1>2, <1>3, <2>1, <2>2 DEF Catching
  <2> QED
    BY <1>0, <1>2, <1>4, <2>3 DEF Dialogue, SelectsIntended
<1> QED
  BY <1>5, <1>6, <1>7, Handled DEF WalkInv

LEMMA RefreshDialogue ==
  ASSUME WalkInv, PanelActs, Refresh
  PROVE  Dialogue' /\ SelectsIntended'
<1>0. /\ UNCHANGED <<text, mark, heard, reader, task, await, before, late, at, bar, keys, stray>>
      /\ ~Over /\ wire = <<>> /\ reader = "on" /\ wire' = <<Text(at)>>
  BY DEF PanelActs, clientSide, walkSide, Refresh, Text
<1>1. SUFFICES ASSUME ~late PROVE Dialogue'
  BY <1>0 DEF Dialogue, SelectsIntended, WalkInv
<1>2. \A i \in DOMAIN wire' : i = 1 /\ wire'[i] = Text(at)
  BY <1>0
<1>3. ~Redrawn /\ ~Cleared /\ ~Opened /\ ~Broken
  BY <1>0 DEF Redrawn, Cleared, Opened, Broken
<1>4. Calm => Calm'
  BY <1>0, <1>2 DEF Calm, Fresh
<1>5. Catching => Catching'
  BY <1>0, <1>2 DEF Catching
<1>6. Unhandled => Unhandled'
  BY <1>0, <1>2 DEF Unhandled, Fresh, Highlighted
<1> QED
  BY <1>0, <1>1, <1>3, <1>4, <1>5, <1>6 DEF WalkInv, Dialogue

LEMMA CalmReceives ==
  ASSUME WalkTypes, Receive, text = at, mark = bar, Fresh(wire, at, bar)
  PROVE  text' = text /\ mark' = mark /\ Fresh(wire', at, bar)
<1>1. /\ wire # <<>> /\ wire' = Tail(wire) /\ wire \in Seq(Packet)
      /\ Len(wire') = Len(wire) - 1 /\ Len(wire) \in Nat \ {0} /\ wire' \in Seq(Packet)
      /\ \A i \in 1 .. Len(wire) - 1 : wire'[i] = wire[i + 1]
  BY Applied, TailType DEF WalkTypes
<1>2. wire[1] \in {Text(at), Bar(bar)}
  BY <1>1 DEF Fresh
<1>3. Fresh(wire', at, bar)
  <2>1. ASSUME NEW i \in DOMAIN wire' PROVE wire'[i] \in {Text(at), Bar(bar)}
    <3>1. i \in 1 .. Len(wire) - 1 /\ i + 1 \in DOMAIN wire
      BY <1>1
    <3> QED
      BY <1>1, <3>1 DEF Fresh
  <2> QED
    BY <2>1 DEF Fresh
<1> QED
  BY <1>2, <1>3, Applied

LEMMA CatchingReceives == ASSUME WalkTypes, Receive, Catching PROVE Catching'
<1>1. /\ wire # <<>> /\ wire' = Tail(wire) /\ wire \in Seq(Packet)
      /\ Len(wire') = Len(wire) - 1 /\ Len(wire) \in Nat \ {0} /\ wire' \in Seq(Packet)
      /\ \A i \in 1 .. Len(wire) - 1 : wire'[i] = wire[i + 1]
      /\ UNCHANGED <<at, bar, keys>>
  BY Applied, TailType DEF WalkTypes
<1>2. \A i \in DOMAIN wire' : /\ i + 1 \in DOMAIN wire /\ 1 < i + 1 /\ 1 \in DOMAIN wire
                             /\ wire'[i] = wire[i + 1]
                             /\ wire'[i] \in {Text(at), Bar(mark), Bar(bar)}
  <2> TAKE i \in DOMAIN wire'
  <2>1. i \in 1 .. Len(wire) - 1 /\ i + 1 \in DOMAIN wire /\ 1 < i + 1 /\ 1 \in DOMAIN wire
    BY <1>1
  <2>2. wire[i + 1] \in {Text(at), Bar(mark), Bar(bar)}
    BY <2>1 DEF Catching
  <2> QED
    BY <1>1, <2>1, <2>2
<1>3. wire[1] \in {Text(at), Bar(mark), Bar(bar)}
  BY <1>1 DEF Catching
<1>4. keys' = <<>> /\ text' = at'
  BY <1>1, <1>3, Applied DEF Catching
<1>5. CASE mark' = mark
  <2>1. \A i \in DOMAIN wire' : wire'[i] \in {Text(at'), Bar(mark'), Bar(bar')}
    BY <1>1, <1>2, <1>5
  <2>2. ASSUME mark' # bar', NEW i \in DOMAIN wire', NEW j \in DOMAIN wire', i < j,
               wire'[i] = Bar(bar')
        PROVE  wire'[j] # Bar(mark')
    <3>1. i + 1 < j + 1
      BY <1>1, <2>2
    <3>2. wire[i + 1] = Bar(bar) => wire[j + 1] # Bar(mark)
      BY <1>1, <1>2, <1>5, <2>2, <3>1 DEF Catching
    <3> QED
      BY <1>1, <1>2, <1>5, <2>2, <3>2
  <2> QED
    BY <1>4, <2>1, <2>2 DEF Catching
<1>6. CASE mark' # mark
  <2>1. wire[1] = Bar(bar) /\ mark' = bar /\ mark # bar
    BY <1>3, <1>6, Applied
  <2>2. ASSUME NEW i \in DOMAIN wire' PROVE wire'[i] \in {Text(at), Bar(bar)}
    <3>1. wire[i + 1] # Bar(mark)
      BY <1>2, <2>1 DEF Catching
    <3> QED
      BY <1>2, <3>1
  <2> QED
    BY <1>1, <1>4, <2>1, <2>2 DEF Catching
<1> QED
  BY <1>5, <1>6

LEMMA RedrawnReceives == ASSUME WalkTypes, Receive, Redrawn PROVE Redrawn' \/ Cleared'
<1>1. /\ wire # <<>> /\ wire' = Tail(wire) /\ wire \in Seq(Packet)
      /\ Len(wire') = Len(wire) - 1 /\ Len(wire) \in Nat \ {0} /\ wire' \in Seq(Packet)
      /\ \A i \in 1 .. Len(wire) - 1 : wire'[i] = wire[i + 1]
      /\ UNCHANGED <<at, bar, keys, before, await, task>>
  BY Applied, TailType DEF WalkTypes, walkSide
<1>2. PICK n \in DOMAIN wire :
        /\ Len(wire) = n + 2
        /\ wire[n] = Clear /\ wire[n + 1] = Text(at) /\ wire[n + 2] = Bar(bar)
        /\ \A i \in 1 .. n - 1 : wire[i] \in {Text(text), Bar(mark)}
  BY DEF Redrawn
<1>3. n \in Nat \ {0}
  BY <1>1
<1>4. CASE n = 1
  <2>1. Len(wire') = 2 /\ wire'[1] = Text(at) /\ wire'[2] = Bar(bar)
    <3>1. 1 \in 1 .. Len(wire) - 1 /\ 2 \in 1 .. Len(wire) - 1 /\ Len(wire') = 2
      BY <1>1, <1>2, <1>4
    <3>2. wire'[1] = wire[1 + 1] /\ wire'[2] = wire[2 + 1]
      BY <1>1, <3>1
    <3> QED
      BY <1>2, <1>4, <3>1, <3>2
  <2>2. wire' = <<Text(at'), Bar(bar')>>
    BY <1>1, <2>1, TwoLong
  <2>3. text' = NoText
    BY <1>2, <1>4, Applied
  <2> QED
    BY <1>1, <2>2, <2>3 DEF Cleared, Redrawn
<1>5. CASE n # 1
  <2>1. 1 \in 1 .. n - 1 /\ n - 1 \in 1 .. Len(wire) - 1 /\ n - 1 \in DOMAIN wire'
        /\ n \in 1 .. Len(wire) - 1 /\ n + 1 \in 1 .. Len(wire) - 1
        /\ (n - 1) + 1 = n /\ (n - 1) + 2 = n + 1 /\ Len(wire') = (n - 1) + 2
    BY <1>1, <1>2, <1>3, <1>5
  <2>2. text' = text /\ mark' = mark
    BY <1>2, <2>1, Applied
  <2>3. wire'[n - 1] = Clear /\ wire'[(n - 1) + 1] = Text(at) /\ wire'[(n - 1) + 2] = Bar(bar)
    <3>1. wire'[n - 1] = wire[(n - 1) + 1] /\ wire'[n] = wire[n + 1] /\ wire'[n + 1] = wire[(n + 1) + 1]
      BY <1>1, <2>1
    <3>2. (n + 1) + 1 = n + 2
      BY <1>3
    <3> QED
      BY <1>2, <2>1, <3>1, <3>2
  <2>4. ASSUME NEW i \in 1 .. (n - 1) - 1 PROVE wire'[i] \in {Text(text), Bar(mark)}
    <3>1. i \in 1 .. Len(wire) - 1 /\ i + 1 \in 1 .. n - 1
      BY <1>2, <1>3
    <3> QED
      BY <1>1, <1>2, <3>1
  <2>5. Redrawn'
    <3>1. keys' = <<>> /\ await' = "screen" /\ text' = before'.lines /\ (task' = "home" => text' # at')
      BY <1>1, <2>2 DEF Redrawn
    <3> QED
      BY <1>1, <2>1, <2>2, <2>3, <2>4, <3>1 DEF Redrawn
  <2> QED
    BY <2>5
<1> QED
  BY <1>4, <1>5

LEMMA ClearedReceives == ASSUME WalkTypes, Receive, Cleared PROVE Catching'
<1>1. wire' = <<Bar(bar)>> /\ wire[1] = Text(at)
  BY Applied DEF Cleared
<1>2. text' = at /\ UNCHANGED <<at, bar, keys>>
  BY <1>1, Applied
<1>3. \A i \in DOMAIN wire' : i = 1 /\ wire'[i] = Bar(bar)
  BY <1>1
<1> QED
  BY <1>2, <1>3 DEF Catching, Cleared

LEMMA OpenedReceives == ASSUME WalkTypes, Receive, Opened PROVE Cleared'
<1>1. wire' = <<Text(at), Bar(bar)>> /\ wire[1] = Clear
  BY Applied DEF Opened
<1> QED
  BY <1>1, Applied DEF Opened, Cleared

LEMMA ReceiveDialogue == ASSUME WalkInv, Receive PROVE Dialogue' /\ SelectsIntended'
<1>0. /\ WalkTypes /\ Dialogue /\ ~Over
      /\ UNCHANGED <<reader, at, bar, keys, stray, task, await, before, late>>
      /\ wire # <<>>
  BY Applied DEF WalkInv, walkSide, Receive
<1>1. SUFFICES ASSUME ~late PROVE Dialogue'
  BY <1>0 DEF Dialogue, SelectsIntended, WalkInv
<1>2. ~Broken
  BY <1>0 DEF Broken
<1>3. Calm => Calm'
  BY <1>0, CalmReceives DEF Calm
<1>4. Unhandled => Unhandled'
  BY <1>0, CalmReceives DEF Unhandled, Highlighted
<1> QED
  BY <1>0, <1>1, <1>2, <1>3, <1>4, CatchingReceives, RedrawnReceives, ClearedReceives, OpenedReceives
     DEF Dialogue

LEMMA BreakDialogue == ASSUME WalkInv, ReaderFails PROVE Dialogue' /\ SelectsIntended'
<1>0. /\ Dialogue /\ ~Over /\ task # "connect" /\ wire' = <<>> /\ DOMAIN wire' = {} /\ reader' # "on"
      /\ UNCHANGED <<text, mark, at, bar, keys, stray, task, await, before, late>>
  BY DEF WalkInv, walkSide, ReaderFails
<1>1. SUFFICES ASSUME ~late PROVE Dialogue'
  BY <1>0 DEF Dialogue, SelectsIntended, WalkInv
<1>2. Calm => Calm'
  BY <1>0 DEF Calm, Fresh
<1>3. Unhandled => Unhandled'
  BY <1>0 DEF Unhandled, Highlighted, Fresh
<1>4. keys = <<>> => Broken'
  BY <1>0 DEF Broken
<1> QED
  BY <1>0, <1>1, <1>2, <1>3, <1>4 DEF Dialogue, Catching, Redrawn, Cleared, Broken

\* A step of the walker between two waits: it sends no key, or one that fits the screen.
LEMMA CalmSends ==
  ASSUME WalkTypes, Calm, NEW key \in {"down", "select", "back"}, SendKey(key),
         task' = "home" => at # Home /\ key = "back"
  PROVE  Unhandled' /\ await' # "none"
<1>1. keys' = <<[key |-> key, target |-> IF key = "select" THEN Highlighted ELSE NoText]>>
  BY DEF SendKey, Calm
<1>2. /\ UNCHANGED <<at, bar, wire, text, mark>>
      /\ before' = [lines |-> text, highlight |-> Highlighted]
      /\ await' = IF key = "down" THEN "highlight" ELSE "screen"
  BY DEF SendKey
<1>3. Len(keys') = 1 /\ keys'[1].key = key /\ (key = "select" => keys'[1].target = Highlighted)
  BY <1>1
<1>4. bar # 0 => Highlighted = Options[at][bar]
  <2>1. Options[at] \in Seq(Label) /\ bar \in 0 .. Len(Options[at])
    BY MenuAssumption DEF WalkTypes
  <2>2. bar # 0 => bar \in DOMAIN Options[at]
    BY <2>1
  <2> QED
    BY <2>2 DEF Calm, Highlighted, WalkTypes
<1> QED
  BY <1>2, <1>3, <1>4 DEF Unhandled, Calm, Fresh, Highlighted

LEMMA WalkerDialogue == ASSUME WalkInv, WalkStep PROVE Dialogue' /\ SelectsIntended'
<1>0. /\ WalkTypes /\ Dialogue /\ UNCHANGED stray /\ late' \in {late, late \/ Unanswered,
         late \/ Unanswered \/ (await # "settle" /\ heard /\ Changed)}
  BY DEF WalkInv, WalkStep, Connect, Homeward, Enter, NextOption, NewOption, Enumerated, Move,
         Leave, Walked, GiveUp, Noticed, Settled, WaitFails, Stay, panelSide, SendKey
<1>1. SUFFICES ASSUME ~late' PROVE Dialogue'
  BY <1>0 DEF Dialogue, SelectsIntended, WalkInv
<1>2. ~late
  BY <1>0, <1>1
<1>3. CASE Connect
  <2>1. CASE task' = "failed"
    BY <2>1 DEF Dialogue, Over
  <2>2. CASE task' # "failed"
    <3>1. Ready("connect") /\ Broken /\ text = NoText
      BY <1>0, <1>2, <1>3 DEF Connect, Ready, Dialogue, Over
    <3>2. wire' = <<Clear, Text(at), Bar(bar)>> /\ await' = "packets" /\ task' = task
          /\ UNCHANGED <<at, bar, keys, text>>
      BY <1>3, <2>2, DrawnPackets DEF Connect
    <3> QED
      BY <3>1, <3>2 DEF Dialogue, Opened, Broken, Ready
  <2> QED
    BY <2>1, <2>2
<1>4. ASSUME ~Over, task # "connect", await = "none" PROVE Calm
  BY <1>0, <1>2, <1>4 DEF Dialogue
<1>5. ASSUME Calm, UNCHANGED <<panelSide, clientSide>> PROVE Calm'
  BY <1>5 DEF Calm, Fresh, panelSide, clientSide
<1>6. CASE Homeward
  <2>1. Calm
    BY <1>4, <1>6 DEF Homeward, Ready, Over
  <2>2. CASE text = Home /\ task' = "enter" /\ Stay
    <3>1. await' = "none" /\ Calm'
      BY <1>5, <1>6, <2>1, <2>2 DEF Stay, Homeward, Ready
    <3> QED
      BY <2>2, <3>1 DEF Dialogue
  <2>3. CASE text # Home /\ SendKey("back") /\ task' = task
    <3>1. at # Home
      BY <2>1, <2>3 DEF Calm
    <3>2. Unhandled' /\ await' # "none"
      BY <1>0, <2>1, <2>3, <3>1, CalmSends
    <3> QED
      BY <1>6, <2>3, <3>2 DEF Homeward, Ready, Dialogue
  <2> QED
    BY <1>6, <2>2, <2>3 DEF Homeward
<1>7. CASE Enter \/ NewOption \/ Enumerated
  <2>1. task \in {"enter", "enumerate"} /\ await = "none" /\ Stay
        /\ task' \in {"enumerate", "move"}
    BY <1>7 DEF Enter, NewOption, Enumerated, Ready, Record
  <2>2. Calm'
    BY <1>4, <1>5, <2>1 DEF Over, Stay
  <2> QED
    BY <2>1, <2>2 DEF Stay, Dialogue
<1>8. CASE NextOption \/ Move \/ Leave
  <2>1. /\ task \in {"enumerate", "move"} /\ await = "none"
        /\ task' \in {"enumerate", "move", "enter"}
        /\ \E key \in {"down", "select", "back"} : SendKey(key)
    BY <1>8 DEF NextOption, Move, Leave, Ready
  <2>2. Unhandled' /\ await' # "none"
    BY <1>0, <1>4, <2>1, CalmSends DEF Over
  <2> QED
    BY <2>1, <2>2 DEF Dialogue
<1>9. CASE Walked \/ GiveUp
  <2>1. task' \in {"passed", "failed"}
    BY <1>9 DEF Walked, GiveUp
  <2> QED
    BY <2>1 DEF Dialogue, Over
<1>10. CASE Noticed
  <2>1. /\ await \in {"packets", "highlight", "screen"} /\ Changed /\ await' = "settle"
        /\ task' = task
        /\ UNCHANGED <<at, bar, keys, wire, text, mark, reader>>
    BY <1>10 DEF Noticed, panelSide, clientSide
  <2>2. CASE Over
    BY <2>1, <2>2 DEF Dialogue, Over
  <2>3. CASE ~Over
    <3>1. ~Unhandled
      BY <2>1 DEF Unhandled, Changed
    <3>2. ~Redrawn
      BY <2>1 DEF Redrawn, Changed
    <3>3. (Opened => Opened') /\ (Cleared => Cleared') /\ (Broken => Broken')
      BY <2>1 DEF Opened, Cleared, Broken
    <3>4. Catching => Catching'
      BY <2>1 DEF Catching
    <3> QED
      BY <1>0, <1>2, <2>1, <2>3, <3>1, <3>2, <3>3, <3>4 DEF Dialogue, Over
  <2> QED
    BY <2>2, <2>3
<1>11. ASSUME ~Over, ~Unanswered, await # "none", ~Redrawn PROVE Calm
  <2>1. keys = <<>> /\ text = at /\ mark = bar
    BY <1>11 DEF Unanswered
  <2>2. ~Unhandled
    BY <1>0, <2>1 DEF Unhandled
  <2>3. ~Opened /\ ~Cleared
    BY <1>0, <2>1, PanelAssumption DEF Opened, Cleared, WalkTypes
  <2>4. Catching \/ Broken
    BY <1>0, <1>2, <1>11, <2>2, <2>3 DEF Dialogue
  <2>5. CASE Catching
    BY <2>1, <2>5 DEF Catching, Calm, Fresh
  <2>6. CASE Broken
    BY <2>1, <2>6 DEF Broken, Calm, Fresh
  <2> QED
    BY <2>4, <2>5, <2>6
<1>12. CASE Settled
  <2>1. /\ await = "settle" /\ await' = "none" /\ ~Unanswered
        /\ UNCHANGED <<panelSide, clientSide>>
        /\ task' = IF task = "connect" THEN "home" ELSE task
    BY <1>1, <1>12 DEF Settled
  <2>2. CASE Over
    BY <2>1, <2>2 DEF Dialogue, Over
  <2>3. CASE ~Over
    <3>1. Calm'
      BY <1>5, <1>11, <2>1, <2>3 DEF Redrawn
    <3> QED
      BY <2>1, <3>1 DEF Dialogue
  <2> QED
    BY <2>2, <2>3
<1>13. CASE WaitFails
  <2>1. /\ await # "none" /\ await' = "none" /\ ~Unanswered
        /\ UNCHANGED <<panelSide, clientSide>>
    BY <1>1, <1>13 DEF WaitFails
  <2>2. CASE task' = "failed"
    BY <2>2 DEF Dialogue, Over
  <2>3. CASE task = "home" /\ task' = task
    <3>1. ~Redrawn
      BY <2>1, <2>3 DEF Redrawn, Unanswered
    <3>2. Calm'
      BY <1>5, <1>11, <2>1, <2>3, <3>1 DEF Over
    <3> QED
      BY <2>1, <2>3, <3>2 DEF Dialogue
  <2>4. CASE task = "enumerate" /\ await = "highlight" /\ task' = "move"
    <3>1. Calm'
      BY <1>5, <1>11, <2>1, <2>4 DEF Over, Redrawn
    <3> QED
      BY <2>1, <2>4, <3>1 DEF Dialogue
  <2> QED
    BY <1>13, <2>2, <2>3, <2>4 DEF WaitFails, Record
<1> QED
  BY <1>3, <1>6, <1>7, <1>8, <1>9, <1>10, <1>12, <1>13 DEF WalkInv, WalkStep

LEMMA WalkSteps == WalkInv /\ [WalkNext]_walkVars => WalkInv'
<1> SUFFICES ASSUME WalkInv, [WalkNext]_walkVars PROVE WalkInv'
  OBVIOUS
<1>1. CASE PanelActs
  BY <1>1, PanelTypes, HandleDialogue, RefreshDialogue DEF WalkInv, PanelActs
<1>2. CASE Receive
  BY <1>2, ReceiveTypes, ReceiveDialogue DEF WalkInv
<1>3. CASE ReaderFails
  BY <1>3, WalkerTypes, BreakDialogue DEF WalkInv
<1>4. CASE WalkStep
  BY <1>4, WalkerTypes, WalkerDialogue DEF WalkInv
<1>5. CASE UNCHANGED walkVars
  BY <1>5 DEF walkVars, panelSide, clientSide, walkSide, WalkInv, WalkTypes, SelectsIntended,
       Dialogue, Over, Calm, Unhandled, Catching, Redrawn, Cleared, Opened, Broken, Fresh,
       Highlighted
<1> QED
  BY <1>1, <1>2, <1>3, <1>4, <1>5 DEF WalkNext

\* For every menu and every order of keys, packets and timeouts: unless a wait of
\* AquaPdaMenuWalker ended without the panel's answer, no "select" changes a setting.
THEOREM OnlyMenusSelected == WalkSafety => []SelectsIntended
<1>1. WalkInv => SelectsIntended
  BY DEF WalkInv
<1> QED
  BY <1>1, WalkInitially, WalkSteps, PTL DEF WalkSafety

-----------------------------------------------------------------------------
(* The lines of a menu that lead to another.                                 *)

\* f keeps what of q is in S, up to its n-th element.
Keeps(f, q, n, S) ==
  f = [i \in 0 .. n |->
         IF i = 0 THEN <<>> ELSE IF q[i] \in S THEN Append(f[i - 1], q[i]) ELSE f[i - 1]]

LEMMA Kept ==
  ASSUME NEW X, NEW S, NEW q \in Seq(X), NEW n \in 0 .. Len(q)
  PROVE  \E f : Keeps(f, q, n, S)
<1> DEFINE T == {m \in 0 .. Len(q) : ~\E f : Keeps(f, q, m, S)}
<1>1. SUFFICES ASSUME T # {} PROVE FALSE
  OBVIOUS
<1>2. PICK m \in T : \A e \in T : m <= e
  <2>1. T \subseteq Nat
    OBVIOUS
  <2> QED
    BY <1>1, <2>1, LeastNumber, Zenon
<1>3. m # 0
  <2>1. Keeps([i \in 0 .. 0 |-> <<>>], q, 0, S)
    BY DEF Keeps
  <2> QED
    BY <2>1
<1>4. m - 1 \in 0 .. Len(q) /\ ~(m <= m - 1)
  BY <1>3
<1>5. PICK f : Keeps(f, q, m - 1, S)
  BY <1>2, <1>4
<1> DEFINE g == [i \in 0 .. m |->
                   IF i < m THEN f[i]
                   ELSE IF q[m] \in S THEN Append(f[m - 1], q[m]) ELSE f[m - 1]]
<1>6. Keeps(g, q, m, S)
  <2>1. ASSUME NEW i \in 0 .. m
        PROVE  g[i] = IF i = 0 THEN <<>>
                      ELSE IF q[i] \in S THEN Append(g[i - 1], q[i]) ELSE g[i - 1]
    <3>1. CASE i = m
      BY <1>3, <3>1
    <3>2. CASE i # m
      <4>1. i \in 0 .. (m - 1) /\ i < m
        BY <3>2
      <4>2. f[i] = IF i = 0 THEN <<>>
                   ELSE IF q[i] \in S THEN Append(f[i - 1], q[i]) ELSE f[i - 1]
        BY <1>5, <4>1 DEF Keeps
      <4>3. i # 0 => i - 1 \in 0 .. m /\ i - 1 < m
        BY <4>1
      <4> QED
        BY <4>1, <4>2, <4>3
    <3> QED
      BY <3>1, <3>2
  <2>2. g = [i \in 0 .. m |-> g[i]]
    OBVIOUS
  <2> HIDE DEF g
  <2> QED
    BY <2>1, <2>2 DEF Keeps
<1> QED
  BY <1>6

\* What is kept are the elements that are in S.
LEMMA KeptRange ==
  ASSUME NEW X, NEW S, NEW q \in Seq(X), NEW f, Keeps(f, q, Len(q), S)
  PROVE  /\ f[Len(q)] \in Seq(X)
         /\ ToSet(f[Len(q)]) = ToSet(q) \cap S
<1> DEFINE n == Len(q)
           Good(i) == f[i] \in Seq(X) /\ ToSet(f[i]) = {q[j] : j \in 1 .. i} \cap S
           T == {i \in 0 .. n : ~Good(i)}
<1>0. n \in Nat /\ (\A i \in 1 .. n : q[i] \in X) /\ ToSet(q) = {q[j] : j \in 1 .. n}
  BY DEF ToSet
<1>1. /\ f[0] = <<>>
      /\ \A i \in 1 .. n : f[i] = IF q[i] \in S THEN Append(f[i - 1], q[i]) ELSE f[i - 1]
  <2>1. \A i \in 0 .. n : f[i] = IF i = 0 THEN <<>>
                             ELSE IF q[i] \in S THEN Append(f[i - 1], q[i]) ELSE f[i - 1]
    BY DEF Keeps
  <2> QED
    BY <1>0, <2>1
<1>2. Good(0)
  <2>1. <<>> \in Seq(X) /\ ToSet(<<>>) = {} /\ {q[j] : j \in 1 .. 0} = {}
    BY DEF ToSet
  <2> QED
    BY <1>1, <2>1
<1>3. ASSUME NEW i \in 1 .. n, Good(i - 1) PROVE Good(i)
  <2>1. {q[j] : j \in 1 .. i} = {q[j] : j \in 1 .. (i - 1)} \cup {q[i]}
    BY <1>0
  <2>2. CASE q[i] \in S
    <3>1. f[i] = Append(f[i - 1], q[i])
      BY <1>1, <2>2
    <3>2. f[i] \in Seq(X) /\ ToSet(f[i]) = ToSet(f[i - 1]) \cup {q[i]}
      BY <1>0, <1>3, <3>1, AppendRange
    <3> QED
      BY <1>3, <2>1, <2>2, <3>2
  <2>3. CASE q[i] \notin S
    BY <1>1, <1>3, <2>1, <2>3
  <2> QED
    BY <2>2, <2>3
<1>4. Good(n)
  <2>1. SUFFICES ASSUME T # {} PROVE FALSE
    <3>1. n \in 0 .. n
      BY <1>0
    <3> HIDE DEF Good, n
    <3> QED
      BY <3>1
  <2>2. PICK m \in T : \A e \in T : m <= e
    <3>1. T \subseteq Nat
      BY <1>0
    <3> HIDE DEF T
    <3> QED
      BY <2>1, <3>1, LeastNumber
  <2>3. m # 0
    <3> HIDE DEF Good
    <3> QED
      BY <1>2, <2>2
  <2>4. m \in 1 .. n /\ m - 1 \in 0 .. n /\ ~(m <= m - 1)
    BY <2>3
  <2>5. Good(m - 1)
    BY <2>2, <2>4
  <2> QED
    BY <1>3, <2>2, <2>4, <2>5
<1> QED
  BY <1>0, <1>4

LEMMA VisitableParts ==
  ASSUME found \in Seq(Label)
  PROVE  Visitable \in Seq(Label) /\ ToSet(Visitable) = ToSet(found) \cap Structural
<1> DEFINE f == CHOOSE h : Keeps(h, found, Len(found), Structural)
<1>1. Keeps(f, found, Len(found), Structural)
  <2>1. \E h : Keeps(h, found, Len(found), Structural)
    BY Kept, Len(found) \in 0 .. Len(found)
  <2> QED
    BY <2>1
<1>2. Visitable = f[Len(found)]
  BY DEF Visitable, Keeps
<1> HIDE DEF f
<1> QED
  BY <1>1, <1>2, KeptRange

-----------------------------------------------------------------------------
(* The course of the walk.                                                   *)

\* The screen that the k-th active _walk_menus is about.
Level(k) == IF k = 1 THEN Home ELSE Below[Head(stack[k - 1])]
Depth == Len(stack)

\* The bar after "down" on line k; the panel has not handled the key yet.
NextLine(k) == IF k = Len(Options[at]) THEN First(at) ELSE k + 1
Pressed(key) == keys # <<>> /\ keys[1].key = key

AtStart ==
  /\ stack = <<>> /\ visited = <<>> /\ bar = First(at)
  /\ keys # <<>> => Pressed("back")

\* Each of the menus above has a candidate, the one that led here.
Entering ==
  /\ \A k \in DOMAIN stack : stack[k] # <<>>
  /\ keys = <<>> => at = Level(Depth + 1) /\ bar = First(at)
  /\ keys # <<>> =>
       /\ Pressed("select") /\ Depth > 0 /\ at = Level(Depth)
       /\ bar # 0 /\ Options[at][bar] = Head(stack[Depth])

\* The lines found are the first of the screen, and the bar is on the last of them, or on
\* the line after.
Enumerating ==
  /\ \A k \in DOMAIN stack : stack[k] # <<>>
  /\ at = Level(Depth + 1)
  /\ Len(found) <= Len(Options[at]) /\ \A i \in 1 .. Len(found) : found[i] = Options[at][i]
  /\ found = <<>> => Options[at] = <<>>
  /\ tries \in {Len(found) - 1, Len(found)}
  /\ tries # Len(found) => await = "none" /\ bar = Len(found)
  /\ tries = Len(found) => bar = IF keys = <<>> THEN NextLine(Len(found)) ELSE Len(found)
  /\ keys # <<>> => Pressed("down")
  /\ await # "none" =>
       /\ found # <<>> /\ before.highlight = found[Len(found)]
       /\ mark = Len(found) \/ heard

\* All menus above the last have the candidate that led here, or back to here.
Moving ==
  /\ Depth > 0 /\ visited # <<>>
  /\ \A k \in DOMAIN stack : k < Depth => stack[k] # <<>>
  /\ Pressed("back") => at # Home /\ Parent[at] = Level(Depth)
  /\ ~Pressed("back") => at = Level(Depth)
  /\ keys # <<>> => keys[1].key \in {"down", "back"}

Visit == [via : Label \cup {NoText}, screen : Screen, options : Seq(Label)]

WalkData ==
  /\ found \in Seq(Label) /\ tries \in Nat /\ stack \in Seq(Seq(Label)) /\ visited \in Seq(Visit)
  /\ visited = <<>> => stack = <<>>

Course ==
  /\ WalkData
  /\ task \in {"connect", "home"} => AtStart
  /\ task = "enter" => Entering
  /\ task = "enumerate" => Enumerating
  /\ task = "move" => Moving

\* Line o has been followed.
Followed(o) == \E j \in DOMAIN visited : visited[j].via = o /\ visited[j].screen = Below[o]

\* What the candidates are; what is seen is complete, but for the candidates.
Toured ==
  /\ \A k \in DOMAIN stack : ToSet(stack[k]) \subseteq ToSet(Options[Level(k)]) \cap Structural
  /\ \A k \in DOMAIN stack : k < Depth => Followed(Head(stack[k]))
  /\ visited # <<>> => visited[1].screen = Home
  /\ \A i \in DOMAIN visited :
       /\ ToSet(visited[i].options) = ToSet(Options[visited[i].screen])
       /\ \A o \in ToSet(Options[visited[i].screen]) \cap Structural :
            Followed(o) \/ \E k \in DOMAIN stack : o \in ToSet(stack[k])

\* The inductive invariant of VisitsAll.
VisitInv == WalkInv /\ VisitsAll /\ (~late /\ ~Over => Course /\ Toured)

LEMMA MenuParts ==
  ASSUME NEW s \in Screen
  PROVE  /\ Options[s] \in Seq(Label) /\ Len(Options[s]) \in Nat
         /\ DOMAIN Options[s] = 1 .. Len(Options[s])
         /\ First(s) = IF Len(Options[s]) = 0 THEN 0 ELSE 1
         /\ NoText \notin Label
         /\ \A i \in 1 .. Len(Options[s]) : Options[s][i] \in ToSet(Options[s]) /\ Options[s][i] \in Label
<1>1. Options[s] \in Seq(Label)
  BY MenuAssumption
<1>2. Options[s] = <<>> <=> Len(Options[s]) = 0
  BY <1>1
<1> QED
  BY <1>1, <1>2, PanelAssumption DEF First, ToSet

\* What the client highlights when it shows what the panel does.
LEMMA InStep ==
  ASSUME WalkTypes, text = at, mark = bar
  PROVE  Highlighted = IF bar = 0 THEN NoText ELSE Options[at][bar]
<1>1. bar \in 0 .. Len(Options[at]) /\ at \in Screen
  BY DEF WalkTypes
<1>2. bar \in DOMAIN Options[at] <=> bar # 0
  BY <1>1, MenuParts
<1> QED
  BY <1>1, <1>2 DEF Highlighted

\* A candidate leads to a screen below its own.
LEMMA LevelDown ==
  ASSUME MenusFit, WalkData, Toured, NEW k \in 1 .. Depth, stack[k] # <<>>,
         k > 1 => stack[k - 1] # <<>>
  PROVE  /\ Level(k) \in Screen /\ Level(k + 1) \in Screen /\ Level(k + 1) # Home
         /\ Level(k + 1) = Below[Head(stack[k])] /\ Parent[Level(k + 1)] = Level(k)
         /\ Head(stack[k]) \in Structural /\ Head(stack[k]) \in Label
<1>1. \A j \in 1 .. Depth : stack[j] \in Seq(Label) /\ j \in DOMAIN stack
  BY DEF WalkData, Depth
<1>2. ASSUME NEW j \in 1 .. Depth, stack[j] # <<>>
      PROVE  /\ Head(stack[j]) \in ToSet(Options[Level(j)]) \cap Structural
             /\ Head(stack[j]) \in Label /\ Below[Head(stack[j])] \in Screen
  <2>1. Head(stack[j]) \in ToSet(stack[j]) /\ Head(stack[j]) \in Label
    BY <1>1, <1>2, HeadParts
  <2>2. ToSet(stack[j]) \subseteq ToSet(Options[Level(j)]) \cap Structural
    BY <1>1 DEF Toured
  <2> QED
    BY <2>1, <2>2, MenuAssumption
<1>3. Level(k) \in Screen
  <2>1. CASE k = 1
    BY <2>1, MenuAssumption DEF Level
  <2>2. CASE k > 1
    <3>1. k - 1 \in 1 .. Depth /\ stack[k - 1] # <<>>
      BY <2>2 DEF Depth, WalkData
    <3> QED
      BY <1>2, <2>2, <3>1 DEF Level
  <2> QED
    BY <2>1, <2>2
<1>4. k + 1 # 1 /\ k + 1 - 1 = k
  OBVIOUS
<1>5. Level(k + 1) = Below[Head(stack[k])]
  BY <1>4 DEF Level
<1> QED
  BY <1>2, <1>3, <1>5 DEF MenusFit

-----------------------------------------------------------------------------
(* The steps of the walker. *)

\* Nothing happens to the walk; a packet may come.
StandsStill ==
  /\ UNCHANGED <<at, bar, keys, task, before, found, tries, stack, visited>>
  /\ await = "none" => await' = "none"
  /\ await' # "none" => await # "none"
  /\ UNCHANGED <<mark, heard>> \/ heard' = TRUE

LEMMA StillKeeps == ASSUME Course, Toured, StandsStill PROVE Course' /\ Toured'
<1>1. UNCHANGED <<at, bar, keys, task, before, found, tries, stack, visited>>
  BY DEF StandsStill
<1>2. \A k : Level(k)' = Level(k)
  BY <1>1 DEF Level
<1>3. Depth' = Depth /\ (\A k : NextLine(k)' = NextLine(k)) /\ \A k : Pressed(k)' = Pressed(k)
  BY <1>1 DEF Depth, NextLine, Pressed
<1>4. Toured'
  BY <1>1, <1>2, <1>3 DEF Toured, Followed
<1>5. WalkData'
  BY <1>1 DEF Course, WalkData
<1>6. AtStart => AtStart'
  BY <1>1, <1>3 DEF AtStart
<1>7. Entering => Entering'
  BY <1>1, <1>2, <1>3 DEF Entering
<1>8. Moving => Moving'
  BY <1>1, <1>2, <1>3 DEF Moving
<1>9. Enumerating => Enumerating'
  <2>1. SUFFICES ASSUME Enumerating PROVE Enumerating'
    OBVIOUS
  <2>2. \A k : Level(k)' = Level(k) /\ NextLine(k)' = NextLine(k)
    BY <1>2, <1>3
  <2>3. await' # "none" => mark' = Len(found) \/ heard'
    BY <2>1 DEF Enumerating, StandsStill
  <2> QED
    BY <1>1, <1>3, <2>1, <2>2, <2>3 DEF Enumerating, StandsStill
<1> QED
  BY <1>1, <1>4, <1>5, <1>6, <1>7, <1>8, <1>9 DEF Course

LEMMA EnterCourse ==
  ASSUME WalkTypes, Course, Toured, Calm, Enter PROVE Course' /\ Toured'
<1>1. /\ task = "enter" /\ await = "none" /\ task' = "enumerate" /\ tries' = 0
      /\ found' = IF Highlighted = NoText THEN <<>> ELSE <<Highlighted>>
      /\ UNCHANGED <<at, bar, keys, await, mark, heard, before, stack, visited>>
  BY DEF Enter, Ready, Stay, panelSide, clientSide
<1>2. /\ keys = <<>> /\ at = Level(Depth + 1) /\ bar = First(at)
      /\ \A k \in DOMAIN stack : stack[k] # <<>>
  BY <1>1 DEF Course, Entering, Calm
<1>3. Highlighted = IF bar = 0 THEN NoText ELSE Options[at][bar]
  BY InStep DEF Calm
<1>4. at \in Screen
  BY DEF WalkTypes
<1>5. \/ found' = <<>> /\ Len(Options[at]) = 0 /\ bar = 0
      \/ /\ found' = <<Options[at][1]>> /\ Len(Options[at]) > 0 /\ bar = 1
         /\ Options[at][1] \in Label
  BY <1>1, <1>2, <1>3, <1>4, MenuParts
<1>6. found' \in Seq(Label)
  <2>1. ASSUME NEW o \in Label, found' = <<o>> PROVE found' \in Seq(Label)
    BY <2>1
  <2>2. found' = <<>> => found' \in Seq(Label)
    OBVIOUS
  <2> QED
    BY <1>5, <2>1, <2>2, Zenon
<1>7. /\ Len(found') <= Len(Options[at]) /\ \A i \in 1 .. Len(found') : found'[i] = Options[at][i]
      /\ found' = <<>> => Options[at] = <<>>
      /\ Len(found') \in {0, 1} /\ bar = Len(found')
      /\ Len(found') = 0 => NextLine(0) = 0
  <2>1. CASE found' = <<>> /\ Len(Options[at]) = 0 /\ bar = 0
    <3>1. Options[at] = <<>> /\ First(at) = 0
      BY <1>4, <2>1, MenuParts
    <3> QED
      BY <2>1, <3>1 DEF NextLine
  <2>2. CASE found' = <<Options[at][1]>> /\ Len(Options[at]) > 0 /\ bar = 1
    <3>1. Len(found') = 1 /\ found'[1] = Options[at][1] /\ found' # <<>>
      BY <2>2
    <3> QED
      BY <1>4, <2>2, <3>1, MenuParts
  <2> QED
    BY <1>5, <2>1, <2>2
<1>8. Level(Depth + 1)' = Level(Depth + 1) /\ NextLine(0)' = NextLine(0)
  BY <1>1 DEF Level, Depth, NextLine
<1>9. Enumerating'
  BY <1>1, <1>2, <1>7, <1>8 DEF Enumerating
<1>10. WalkData'
  BY <1>1, <1>6 DEF Course, WalkData
<1>11. Toured'
  <2>1. \A k : Level(k)' = Level(k)
    BY <1>1 DEF Level
  <2> QED
    BY <1>1, <2>1 DEF Toured, Followed, Depth
<1> QED
  BY <1>1, <1>9, <1>10, <1>11 DEF Course

LEMMA NextOptionCourse ==
  ASSUME WalkTypes, Course, Toured, Calm, NextOption PROVE Course' /\ Toured'
<1>1. /\ task = "enumerate" /\ await = "none" /\ tries + 1 = Len(found) /\ tries' = tries + 1
      /\ keys' = Append(keys, [key |-> "down", target |-> NoText])
      /\ before' = [lines |-> text, highlight |-> Highlighted] /\ await' = "highlight"
      /\ UNCHANGED <<at, bar, mark, task, found, stack, visited>>
  BY DEF NextOption, Ready, SendKey
<1>2. Enumerating /\ WalkData
  BY <1>1 DEF Course
<1>3. keys = <<>> /\ mark = bar /\ Highlighted = IF bar = 0 THEN NoText ELSE Options[at][bar]
  BY InStep DEF Calm
<1>4. keys' = <<[key |-> "down", target |-> NoText]>>
  BY <1>1, <1>3
<1>5. keys' # <<>> /\ Pressed("down")'
  BY <1>4 DEF Pressed
<1>6. tries \in Nat /\ Len(found) \in Nat /\ bar = Len(found) /\ bar # 0 /\ tries' = Len(found)
  BY <1>1, <1>2 DEF Enumerating, WalkData
<1>7. before'.highlight = found[Len(found)] /\ found # <<>>
  BY <1>1, <1>2, <1>3, <1>6 DEF Enumerating
<1>8. Level(Depth + 1)' = Level(Depth + 1) /\ \A k : Level(k)' = Level(k)
  BY <1>1 DEF Level, Depth
<1>9. Enumerating'
  BY <1>1, <1>2, <1>3, <1>5, <1>6, <1>7, <1>8 DEF Enumerating
<1>10. WalkData'
  BY <1>1, <1>2, <1>6 DEF WalkData
<1>11. Toured'
  BY <1>1, <1>8 DEF Toured, Followed, Depth
<1> QED
  BY <1>1, <1>9, <1>10, <1>11 DEF Course

LEMMA NewOptionCourse ==
  ASSUME MenusFit, WalkTypes, Course, Toured, Calm, NewOption PROVE Course' /\ Toured'
<1>1. /\ task = "enumerate" /\ await = "none" /\ tries = Len(found) /\ found # <<>>
      /\ Highlighted \notin ToSet(found) \cup {NoText} /\ found' = Append(found, Highlighted)
      /\ UNCHANGED <<at, bar, keys, mark, heard, before, await, task, tries, stack, visited>>
  BY DEF NewOption, Ready, Stay, panelSide, clientSide
<1>2. Enumerating /\ WalkData /\ at \in Screen
  BY <1>1 DEF Course, WalkTypes
<1>3. keys = <<>> /\ mark = bar /\ Highlighted = IF bar = 0 THEN NoText ELSE Options[at][bar]
  BY InStep DEF Calm
<1>4. bar = NextLine(Len(found)) /\ Len(found) \in Nat \ {0} /\ Len(found) <= Len(Options[at])
      /\ \A i \in 1 .. Len(found) : found[i] = Options[at][i] /\ found[i] \in ToSet(found)
  BY <1>1, <1>2, <1>3 DEF Enumerating, WalkData, ToSet
<1>5. Len(found) # Len(Options[at])
  BY <1>1, <1>2, <1>3, <1>4, MenuParts DEF NextLine
<1>6. bar = Len(found) + 1 /\ bar \in 1 .. Len(Options[at])
  BY <1>2, <1>4, <1>5, MenuParts DEF NextLine
<1>7. Highlighted = Options[at][Len(found) + 1] /\ Highlighted \in Label
  BY <1>2, <1>3, <1>6, MenuParts
<1>8. /\ found' \in Seq(Label) /\ Len(found') = Len(found) + 1 /\ found' # <<>>
      /\ \A i \in 1 .. Len(found) : found'[i] = found[i]
      /\ found'[Len(found) + 1] = Highlighted
  BY <1>1, <1>2, <1>7 DEF WalkData
<1>9. \A i \in 1 .. Len(found') : found'[i] = Options[at][i]
  BY <1>4, <1>7, <1>8
<1>10. Level(Depth + 1)' = Level(Depth + 1) /\ \A k : Level(k)' = Level(k)
  BY <1>1 DEF Level, Depth
<1>11. Len(found') <= Len(Options[at]) /\ tries' = Len(found') - 1 /\ tries' # Len(found')
       /\ bar' = Len(found')
  BY <1>1, <1>4, <1>6, <1>8
<1>12. Enumerating'
  BY <1>1, <1>2, <1>3, <1>8, <1>9, <1>10, <1>11 DEF Enumerating
<1>13. WalkData'
  BY <1>1, <1>2, <1>8 DEF WalkData
<1>14. Toured'
  BY <1>1, <1>10 DEF Toured, Followed, Depth
<1> QED
  BY <1>1, <1>12, <1>13, <1>14 DEF Course

\* A menu has been enumerated.
LEMMA RecordCourse ==
  ASSUME MenusFit, WalkTypes, Course, Toured, task = "enumerate", text = at, keys = <<>>,
         Len(found) = Len(Options[at]), Record, UNCHANGED <<at, keys, found>>
  PROVE  Course' /\ Toured'
<1>1. Enumerating /\ WalkData /\ at \in Screen
  BY DEF Course, WalkTypes
<1> DEFINE v == [via |-> IF stack = <<>> THEN NoText ELSE Head(Last(stack)),
                 screen |-> text, options |-> found]
<1>2. /\ visited' = Append(visited, v) /\ stack' = Append(stack, Visitable)
      /\ task' = "move" /\ tries' = 0
  BY DEF Record
<1>3. Visitable \in Seq(Label) /\ ToSet(Visitable) = ToSet(found) \cap Structural
  BY <1>1, VisitableParts DEF WalkData
<1>4. ToSet(found) = ToSet(Options[at])
  BY <1>1, MenuParts, SameRange DEF Enumerating, WalkData
<1>5. /\ Depth \in Nat /\ DOMAIN stack = 1 .. Depth /\ Depth' = Depth + 1 /\ DOMAIN stack' = 1 .. Depth + 1
      /\ \A k \in 1 .. Depth : stack'[k] = stack[k]
      /\ stack'[Depth + 1] = Visitable /\ stack' \in Seq(Seq(Label))
      /\ stack' # <<>> /\ (Depth = 0 <=> stack = <<>>)
      /\ Depth > 0 => Last(stack) = stack[Depth]
  <2>1. stack \in Seq(Seq(Label))
    BY <1>1 DEF WalkData
  <2> QED
    BY <1>2, <1>3, <2>1, AppendParts DEF Depth, Last
<1>6. /\ at = Level(Depth + 1) /\ \A k \in 1 .. Depth : stack[k] # <<>>
  BY <1>1, <1>5 DEF Enumerating
<1>7. \A k \in 1 .. Depth + 1 : Level(k)' = Level(k)
  <2>1. ASSUME NEW k \in 1 .. Depth + 1 PROVE Level(k)' = Level(k)
    <3>1. k = 1 \/ k - 1 \in 1 .. Depth
      BY <1>5
    <3> QED
      BY <1>5, <3>1 DEF Level
  <2> QED
    BY <2>1
<1>8. Depth > 0 => v.via = Head(stack[Depth]) /\ at = Below[Head(stack[Depth])]
                   /\ Head(stack[Depth]) \in Label
  <2>1. SUFFICES ASSUME Depth > 0
                 PROVE  v.via = Head(stack[Depth]) /\ at = Below[Head(stack[Depth])]
                        /\ Head(stack[Depth]) \in Label
    OBVIOUS
  <2>2. Depth \in 1 .. Depth /\ Depth # 0 /\ (Depth > 1 => Depth - 1 \in 1 .. Depth)
    BY <1>5, <2>1
  <2> QED
    BY <1>1, <1>5, <1>6, <2>1, <2>2, LevelDown
<1>9. v \in Visit
  <2>1. v.via \in Label \cup {NoText}
    BY <1>5, <1>8
  <2>2. found \in Seq(Label)
    BY <1>1 DEF WalkData
  <2> QED
    BY <1>1, <2>1, <2>2 DEF Visit
<1> DEFINE m == Len(visited)
<1>10. /\ visited' \in Seq(Visit) /\ m \in Nat /\ DOMAIN visited = 1 .. m /\ DOMAIN visited' = 1 .. m + 1
       /\ \A i \in 1 .. m : visited'[i] = visited[i]
       /\ visited'[m + 1] = v /\ visited' # <<>> /\ (m = 0 <=> visited = <<>>)
  <2>1. visited \in Seq(Visit)
    BY <1>1 DEF WalkData
  <2> HIDE DEF v
  <2> QED
    BY <1>2, <1>9, <2>1
<1>11. v.screen = at /\ v.options = found
  OBVIOUS
<1> HIDE DEF v, m
<1>12. \A o : Followed(o) => Followed(o)'
  BY <1>10 DEF Followed
<1>13. \A k \in 1 .. Depth : \E j \in DOMAIN visited' :
         visited'[j].via = Head(stack[k]) /\ visited'[j].screen = Below[Head(stack[k])]
  <2>1. SUFFICES ASSUME NEW k \in 1 .. Depth
                 PROVE  \E j \in DOMAIN visited' :
                          /\ visited'[j].via = Head(stack[k])
                          /\ visited'[j].screen = Below[Head(stack[k])]
    OBVIOUS
  <2>2. CASE k = Depth
    <3>1. Depth > 0 /\ m + 1 \in DOMAIN visited'
      BY <1>5, <1>10, <2>2
    <3> QED
      BY <1>8, <1>10, <1>11, <2>2, <3>1
  <2>3. CASE k # Depth
    <3>1. k \in DOMAIN stack /\ k < Depth
      BY <1>5, <2>3
    <3>2. PICK j \in DOMAIN visited :
            visited[j].via = Head(stack[k]) /\ visited[j].screen = Below[Head(stack[k])]
      BY <3>1 DEF Toured, Followed
    <3>3. j \in DOMAIN visited' /\ visited'[j] = visited[j]
      BY <1>10
    <3> QED
      BY <3>2, <3>3
  <2> QED
    BY <2>2, <2>3
<1>14. Moving'
  <2>1. ~Pressed("back")' /\ keys' = <<>>
    BY DEF Pressed
  <2>2. at' = Level(Depth)'
    BY <1>5, <1>6, <1>7
  <2>3. \A k \in DOMAIN stack' : k < Depth' => stack'[k] # <<>>
    BY <1>5, <1>6
  <2> QED
    BY <1>5, <1>10, <2>1, <2>2, <2>3 DEF Moving
<1>15. WalkData'
  BY <1>1, <1>2, <1>5, <1>10 DEF WalkData
<1>16. Toured'
  <2>1. ASSUME NEW k \in DOMAIN stack'
        PROVE  /\ ToSet(stack'[k]) \subseteq ToSet(Options[Level(k)']) \cap Structural
               /\ k < Depth' => Followed(Head(stack[k]))'
    <3>1. CASE k = Depth + 1
      BY <1>3, <1>4, <1>5, <1>6, <1>7, <3>1
    <3>2. CASE k \in 1 .. Depth
      <4>1. stack'[k] = stack[k] /\ Level(k)' = Level(k)
        BY <1>5, <1>7, <3>2
      <4>2. Followed(Head(stack[k]))'
        BY <1>13, <3>2, <4>1 DEF Followed
      <4>3. ToSet(stack[k]) \subseteq ToSet(Options[Level(k)]) \cap Structural
        BY <1>5, <3>2 DEF Toured
      <4> QED
        BY <4>1, <4>2, <4>3
    <3> QED
      BY <1>5, <3>1, <3>2
  <2>2. visited'[1].screen = Home
    <3>1. CASE m = 0
      BY <1>1, <1>5, <1>6, <1>10, <1>11, <3>1 DEF WalkData, Level
    <3>2. CASE m # 0
      BY <1>10, <3>2 DEF Toured
    <3> QED
      BY <3>1, <3>2
  <2>3. ASSUME NEW i \in DOMAIN visited'
        PROVE  /\ ToSet(visited'[i].options) = ToSet(Options[visited'[i].screen])
               /\ \A o \in ToSet(Options[visited'[i].screen]) \cap Structural :
                    Followed(o)' \/ \E k \in DOMAIN stack' : o \in ToSet(stack'[k])
    <3>1. CASE i = m + 1
      BY <1>3, <1>4, <1>5, <1>10, <1>11, <3>1
    <3>2. CASE i \in 1 .. m
      <4>1. i \in DOMAIN visited /\ visited'[i] = visited[i]
        BY <1>10, <3>2
      <4>2. ToSet(visited[i].options) = ToSet(Options[visited[i].screen])
        BY <4>1 DEF Toured
      <4>3. ASSUME NEW o \in ToSet(Options[visited[i].screen]) \cap Structural
            PROVE  Followed(o)' \/ \E k \in DOMAIN stack' : o \in ToSet(stack'[k])
        <5>1. Followed(o) \/ \E k \in DOMAIN stack : o \in ToSet(stack[k])
          BY <4>1 DEF Toured
        <5>2. \A k \in DOMAIN stack : k \in DOMAIN stack' /\ stack'[k] = stack[k]
          BY <1>5
        <5> QED
          BY <1>12, <5>1, <5>2
      <4> QED
        BY <4>1, <4>2, <4>3
    <3> QED
      BY <1>10, <3>1, <3>2
  <2> QED
    BY <2>1, <2>2, <2>3 DEF Toured
<1> QED
  BY <1>2, <1>14, <1>15, <1>16 DEF Course

LEMMA EnumeratedCourse ==
  ASSUME MenusFit, WalkTypes, Course, Toured, Calm, Enumerated PROVE Course' /\ Toured'
<1>1. /\ task = "enumerate" /\ await = "none" /\ Record /\ UNCHANGED <<at, keys, found>>
      /\ \/ found = <<>>
         \/ tries + 1 = Len(found) /\ Len(found) >= MaxOptions
         \/ tries = Len(found) /\ Highlighted \in ToSet(found) \cup {NoText}
  BY DEF Enumerated, Ready, Stay, panelSide
<1>2. Enumerating /\ WalkData /\ at \in Screen /\ keys = <<>> /\ text = at
  BY <1>1 DEF Course, WalkTypes, Calm
<1>3. Highlighted = IF bar = 0 THEN NoText ELSE Options[at][bar]
  BY InStep DEF Calm
<1>4. /\ Len(found) \in Nat /\ Len(found) <= Len(Options[at]) /\ Len(Options[at]) \in Nat
      /\ \A i \in 1 .. Len(found) : found[i] = Options[at][i]
      /\ \A o \in ToSet(found) : \E i \in 1 .. Len(found) : found[i] = o
      /\ DOMAIN Options[at] = 1 .. Len(Options[at])
  BY <1>2, MenuParts DEF Enumerating, WalkData, ToSet
<1>5. Len(found) = Len(Options[at])
  <2>1. CASE found = <<>>
    BY <1>2, <2>1 DEF Enumerating
  <2>2. CASE tries + 1 = Len(found) /\ Len(found) >= MaxOptions
    <3>1. Len(Options[at]) <= MaxOptions /\ MaxOptions \in Nat
      BY <1>2, MenuAssumption DEF MenusFit
    <3> QED
      BY <1>4, <2>2, <3>1
  <2>3. CASE tries = Len(found) /\ Highlighted \in ToSet(found) \cup {NoText}
    <3>1. SUFFICES ASSUME Len(found) # Len(Options[at]) PROVE FALSE
      OBVIOUS
    <3>2. bar = Len(found) + 1 /\ bar \in 1 .. Len(Options[at])
      BY <1>2, <1>4, <2>3, <3>1 DEF Enumerating, NextLine
    <3>3. Highlighted = Options[at][bar] /\ Highlighted # NoText
      BY <1>2, <1>3, <3>2, MenuParts
    <3>4. PICK i \in 1 .. Len(found) : found[i] = Highlighted
      BY <1>4, <2>3, <3>3
    <3>5. i = bar
      BY <1>2, <1>4, <3>2, <3>3, <3>4 DEF MenusFit
    <3> QED
      BY <1>4, <3>2, <3>4, <3>5
  <2> QED
    BY <1>1, <2>1, <2>2, <2>3
<1> QED
  BY <1>1, <1>2, <1>5, RecordCourse

LEMMA OneKeySent ==
  ASSUME NEW key, keys = <<>>, SendKey(key)
  PROVE  /\ keys' # <<>> /\ keys'[1].key = key
         /\ \A other : other # key => ~Pressed(other)'
         /\ Pressed(key)'
         /\ UNCHANGED <<at, bar>>
<1>1. keys' = <<[key |-> key, target |-> IF key = "select" THEN Highlighted ELSE NoText]>>
  BY DEF SendKey
<1>2. keys' # <<>> /\ keys'[1].key = key
  BY <1>1
<1> QED
  BY <1>2 DEF Pressed, SendKey

LEMMA MoveCourse ==
  ASSUME WalkTypes, Course, Toured, Calm, Move PROVE Course' /\ Toured'
<1>1. /\ task = "move" /\ await = "none" /\ Last(stack) # <<>>
      /\ UNCHANGED <<at, bar, found, stack, visited>>
  BY DEF Move, Ready, SendKey
<1>2. Moving /\ WalkData /\ at \in Screen /\ keys = <<>>
  BY <1>1 DEF Course, WalkTypes, Calm
<1>3. Highlighted = IF bar = 0 THEN NoText ELSE Options[at][bar]
  BY InStep DEF Calm
<1>4. /\ Depth \in Nat \ {0} /\ DOMAIN stack = 1 .. Depth /\ Last(stack) = stack[Depth]
      /\ \A k \in 1 .. Depth : stack[k] # <<>>
  BY <1>1, <1>2 DEF Moving, WalkData, Depth, Last
<1>5. at = Level(Depth)
  BY <1>2 DEF Moving, Pressed
<1>6. \A k : Level(k)' = Level(k)
  BY <1>1 DEF Level
<1>7. Toured'
  BY <1>1, <1>6 DEF Toured, Followed, Depth
<1>8. CASE AtTarget /\ SendKey("select") /\ task' = "enter" /\ UNCHANGED tries
  <2>1. Head(stack[Depth]) \in Label
    <3>1. stack[Depth] \in Seq(Label) /\ stack[Depth] # <<>>
      BY <1>2, <1>4 DEF WalkData
    <3> QED
      BY <3>1, HeadParts
  <2>2. bar # 0 /\ Options[at][bar] = Head(stack[Depth])
    BY <1>2, <1>3, <1>4, <1>8, <2>1, MenuParts DEF AtTarget, Target
  <2>3. keys' # <<>> /\ Pressed("select")'
    BY <1>2, <1>8, OneKeySent
  <2>4. at = Level(Depth)'
    BY <1>1, <1>5 DEF Level, Depth
  <2>5. Entering'
    BY <1>1, <1>4, <2>2, <2>3, <2>4 DEF Entering, Depth
  <2>6. WalkData'
    BY <1>1, <1>2, <1>8 DEF WalkData
  <2> QED
    BY <1>7, <1>8, <2>5, <2>6 DEF Course
<1>9. CASE SendKey("down") /\ tries' = tries + 1 /\ UNCHANGED task
  <2>1. keys' # <<>> /\ keys'[1].key = "down" /\ ~Pressed("back")'
    BY <1>2, <1>9, OneKeySent
  <2>2. at = Level(Depth)' /\ Depth' = Depth
    BY <1>1, <1>5 DEF Level, Depth
  <2>3. Moving'
    BY <1>1, <1>2, <2>1, <2>2 DEF Moving
  <2>4. WalkData'
    BY <1>1, <1>2, <1>9 DEF WalkData
  <2> QED
    BY <1>1, <1>7, <1>9, <2>3, <2>4 DEF Course
<1> QED
  BY <1>8, <1>9 DEF Move

\* r is q without its last element, and without the head of the one before.
CutBack(r, q) == r = [Front(q) EXCEPT ![Len(q) - 1] = Tail(@)]

LEMMA FrontParts ==
  ASSUME NEW X, NEW q \in Seq(Seq(X)), Len(q) > 1, NEW r, CutBack(r, q), q[Len(q) - 1] # <<>>
  PROVE  /\ Len(q) \in Nat /\ DOMAIN q = 1 .. Len(q)
         /\ r \in Seq(Seq(X)) /\ Len(r) = Len(q) - 1 /\ DOMAIN r = 1 .. Len(q) - 1
         /\ \A k \in 1 .. Len(q) - 2 : r[k] = q[k]
         /\ r[Len(q) - 1] = Tail(q[Len(q) - 1])
<1> DEFINE f == Front(q)
           m == Len(q) - 1
           Y == Seq(X)
<1>1. /\ Len(q) \in Nat /\ DOMAIN q = 1 .. Len(q) /\ (\A k \in 1 .. Len(q) : q[k] \in Y)
      /\ m \in Nat /\ m > 0 /\ m \in 1 .. Len(q)
  <2>1. q \in Seq(Y)
    OBVIOUS
  <2> HIDE DEF Y
  <2>2. Len(q) \in Nat /\ DOMAIN q = 1 .. Len(q) /\ \A k \in 1 .. Len(q) : q[k] \in Y
    BY <2>1
  <2> QED
    BY <2>2
<1>2. f = [k \in 1 .. m |-> q[k]]
  BY <1>1 DEF Front
<1>3. f \in [1 .. m -> Y] /\ f[m] = q[m] /\ \A k \in 1 .. m : f[k] = q[k]
  <2> HIDE DEF f, Y
  <2> QED
    BY <1>1, <1>2
<1>4. Tail(f[m]) \in Y
  BY <1>1, <1>3, HeadParts
<1>5. r = [f EXCEPT ![m] = Tail(f[m])]
  BY DEF CutBack
<1> HIDE DEF f, Y
<1>6. /\ r \in Seq(Y) /\ Len(r) = m /\ DOMAIN r = 1 .. m /\ r[m] = Tail(f[m])
      /\ \A k \in 1 .. m - 1 : r[k] = f[k]
  <2>1. m \in Nat /\ m > 0 /\ f \in [1 .. m -> Y]
    BY <1>1, <1>3
  <2> DEFINE v == Tail(f[m])
  <2>2. v \in Y /\ r = [f EXCEPT ![m] = v]
    BY <1>4, <1>5
  <2> HIDE DEF m, v
  <2>3. /\ r \in Seq(Y) /\ Len(r) = m /\ DOMAIN r = 1 .. m /\ r[m] = v
        /\ \A k \in 1 .. m - 1 : r[k] = f[k]
    <3>1. f \in [1 .. m -> Y]
      BY <2>1
    <3>2. m \in Nat /\ m > 0
      BY <2>1
    <3>3. v \in Y
      BY <2>2
    <3>4. r = [f EXCEPT ![m] = v]
      BY <2>2
    <3> QED
      BY <3>1, <3>2, <3>3, <3>4, ReplacedLast
  <2> QED
    BY <2>3 DEF v
<1>7. m - 1 = Len(q) - 2
  BY <1>1
<1>8. \A k \in 1 .. m - 1 : r[k] = q[k]
  BY <1>1, <1>3, <1>6
<1> QED
  BY <1>1, <1>3, <1>6, <1>7, <1>8 DEF Y

\* A menu is left: the candidate that led there has been followed.
LEMMA LeaveCourse ==
  ASSUME MenusFit, WalkTypes, Course, Toured, Calm, Leave PROVE Course' /\ Toured'
<1>1. /\ task = "move" /\ await = "none" /\ Last(stack) = <<>> /\ Len(stack) > 1
      /\ stack' = [Front(stack) EXCEPT ![Len(stack) - 1] = Tail(@)]
      /\ tries' = 0 /\ SendKey("back") /\ UNCHANGED <<at, bar, task, found, visited>>
  BY DEF Leave, Ready, SendKey
<1>2. Moving /\ WalkData /\ keys = <<>>
  BY <1>1 DEF Course, Calm
<1>3. at = Level(Depth) /\ stack[Depth - 1] # <<>> /\ Depth \in Nat /\ Depth > 1 /\ Last(stack) = stack[Depth]
      /\ \A k \in 1 .. Depth - 1 : stack[k] # <<>>
  <2>1. stack \in Seq(Seq(Label)) /\ keys = <<>>
    BY <1>2 DEF WalkData
  <2>2. Depth \in Nat /\ Depth > 1 /\ DOMAIN stack = 1 .. Depth /\ Last(stack) = stack[Depth]
    BY <1>1, <2>1 DEF Depth, Last
  <2>3. \A k \in 1 .. Depth - 1 : stack[k] # <<>>
    BY <1>2, <2>2 DEF Moving
  <2>4. at = Level(Depth)
    BY <1>2, <2>1 DEF Moving, Pressed
  <2>5. Depth - 1 \in 1 .. Depth - 1
    BY <2>2
  <2> QED
    BY <2>2, <2>3, <2>4, <2>5
<1>4. /\ DOMAIN stack = 1 .. Depth /\ stack' \in Seq(Seq(Label)) /\ Depth' = Depth - 1
      /\ DOMAIN stack' = 1 .. Depth - 1
      /\ \A k \in 1 .. Depth - 2 : stack'[k] = stack[k]
      /\ stack'[Depth - 1] = Tail(stack[Depth - 1])
  <2>1. CutBack(stack', stack)
    BY <1>1 DEF CutBack
  <2>2. stack \in Seq(Seq(Label)) /\ Len(stack) > 1 /\ stack[Len(stack) - 1] # <<>>
    <3>1. stack \in Seq(Seq(Label))
      BY <1>2 DEF WalkData
    <3> QED
      BY <1>1, <1>3, <3>1 DEF Depth
  <2>3. /\ DOMAIN stack = 1 .. Len(stack)
        /\ stack' \in Seq(Seq(Label)) /\ Len(stack') = Len(stack) - 1
        /\ DOMAIN stack' = 1 .. Len(stack) - 1
        /\ \A k \in 1 .. Len(stack) - 2 : stack'[k] = stack[k]
        /\ stack'[Len(stack) - 1] = Tail(stack[Len(stack) - 1])
    BY <2>1, <2>2, FrontParts
  <2> QED
    BY <2>3 DEF Depth
<1>0. /\ Depth \in Nat /\ Depth > 1 /\ Depth - 1 \in 1 .. Depth - 1
      /\ \A k \in 1 .. Depth - 1 : k = Depth - 1 \/ k \in 1 .. Depth - 2
  <2>1. Depth \in Nat /\ Depth > 1
    BY <1>3
  <2> QED
    BY <2>1
<1>5. \A k \in 1 .. Depth - 1 : Level(k)' = Level(k)
  <2>1. ASSUME NEW k \in 1 .. Depth - 1 PROVE Level(k)' = Level(k)
    <3>1. k = 1 \/ k - 1 \in 1 .. Depth - 2
      BY <1>3
    <3> QED
      BY <1>4, <3>1 DEF Level
  <2> QED
    BY <2>1
<1>6. /\ at # Home /\ Parent[at] = Level(Depth - 1)
  <2>1. Depth - 1 \in 1 .. Depth /\ Depth - 1 + 1 = Depth
        /\ (Depth - 1 > 1 => stack[Depth - 1 - 1] # <<>>)
    BY <1>3
  <2> QED
    BY <1>2, <1>3, <2>1, LevelDown
<1>7. \A k \in 1 .. Depth - 1 :
         stack[k] \in Seq(Label) /\ ToSet(stack'[k]) \subseteq ToSet(stack[k])
  <2>1. \A k \in 1 .. Depth - 1 : stack[k] \in Seq(Label)
    BY <1>2, <1>3, <1>4 DEF WalkData
  <2>2. ToSet(Tail(stack[Depth - 1])) \subseteq ToSet(stack[Depth - 1])
    BY <1>0, <1>3, <2>1, HeadParts
  <2> QED
    BY <1>0, <1>4, <2>1, <2>2
<1>8. Moving'
  <2>1. keys' # <<>> /\ keys'[1].key = "back" /\ Pressed("back")'
    BY <1>1, <1>2, OneKeySent
  <2>2. Parent[at] = Level(Depth)'
    <3>1. Level(Depth)' = Level(Depth - 1)
      <4>1. Depth - 1 \in 1 .. Depth - 1
        BY <1>3
      <4>2. Depth - 1 = 1 \/ (Depth - 2 \in 1 .. Depth - 2 /\ stack'[Depth - 2] = stack[Depth - 2])
        <5>1. Depth - 1 = 1 \/ Depth - 2 \in 1 .. Depth - 2
          BY <1>0
        <5> QED
          BY <1>4, <5>1
      <4> QED
        BY <1>3, <1>4, <4>2 DEF Level
    <3> QED
      BY <1>6, <3>1
  <2>3. \A k \in DOMAIN stack' : k < Depth' => stack'[k] # <<>>
    BY <1>3, <1>4
  <2> QED
    BY <1>1, <1>2, <1>3, <1>4, <1>6, <2>1, <2>2, <2>3 DEF Moving
<1>9. WalkData'
  BY <1>1, <1>2, <1>4 DEF WalkData, Moving
<1>10. \A o : Followed(o) => Followed(o)'
  BY <1>1 DEF Followed
<1>11. Toured'
  <2>1. ASSUME NEW k \in DOMAIN stack'
        PROVE  /\ ToSet(stack'[k]) \subseteq ToSet(Options[Level(k)']) \cap Structural
               /\ k < Depth' => Followed(Head(stack[k]))'
    <3>1. k \in 1 .. Depth - 1 /\ k \in DOMAIN stack /\ Level(k)' = Level(k)
      BY <1>3, <1>4, <1>5
    <3>2. ToSet(stack'[k]) \subseteq ToSet(Options[Level(k)']) \cap Structural
      BY <1>7, <3>1 DEF Toured
    <3>3. ASSUME k < Depth' PROVE Followed(Head(stack[k]))'
      <4>1. k < Depth /\ stack'[k] = stack[k]
        BY <1>3, <1>4, <3>1, <3>3
      <4> QED
        BY <1>1, <3>1, <4>1 DEF Toured, Followed
    <3> QED
      BY <3>2, <3>3
  <2>2. ASSUME NEW i \in DOMAIN visited',
               NEW o \in ToSet(Options[visited'[i].screen]) \cap Structural
        PROVE  Followed(o)' \/ \E k \in DOMAIN stack' : o \in ToSet(stack'[k])
    <3>1. CASE Followed(o)
      BY <1>10, <3>1
    <3>2. CASE \E k \in DOMAIN stack : o \in ToSet(stack[k])
      <4>1. PICK k \in DOMAIN stack : o \in ToSet(stack[k])
        BY <3>2
      <4>2. k # Depth
        BY <1>1, <1>3, <4>1 DEF ToSet
      <4>3. CASE k \in 1 .. Depth - 2
        BY <1>3, <1>4, <4>1, <4>3
      <4>4. CASE k = Depth - 1
        <5>1. o = Head(stack[k]) \/ o \in ToSet(Tail(stack[k]))
          BY <1>3, <1>7, <4>1, <4>4, HeadParts
        <5>2. Followed(Head(stack[k]))
          BY <1>3, <4>4 DEF Toured
        <5>3. o \in ToSet(Tail(stack[k])) => k \in DOMAIN stack' /\ o \in ToSet(stack'[k])
          BY <1>0, <1>4, <4>4
        <5> QED
          BY <1>10, <5>1, <5>2, <5>3
      <4> QED
        BY <1>3, <1>4, <4>2, <4>3, <4>4
    <3> QED
      BY <1>1, <3>1, <3>2 DEF Toured
  <2>3. /\ visited' # <<>> => visited'[1].screen = Home
        /\ \A i \in DOMAIN visited' :
             ToSet(visited'[i].options) = ToSet(Options[visited'[i].screen])
    BY <1>1 DEF Toured
  <2> QED
    BY <2>1, <2>2, <2>3 DEF Toured
<1> QED
  BY <1>1, <1>8, <1>9, <1>11 DEF Course

LEMMA HomewardCourse ==
  ASSUME WalkTypes, Course, Toured, Calm, Homeward PROVE Course' /\ Toured'
<1>1. /\ task = "home" /\ await = "none" /\ AtStart /\ WalkData /\ keys = <<>> /\ text = at
      /\ UNCHANGED <<at, bar, found, stack, visited>>
  BY DEF Homeward, Ready, Course, Calm, Stay, panelSide, SendKey
<1>2. Toured' /\ Depth = 0 /\ Depth' = 0
  <2>1. \A k : Level(k)' = Level(k)
    BY <1>1 DEF Level
  <2> QED
    BY <1>1, <2>1 DEF Toured, Followed, Depth, AtStart
<1>3. CASE text = Home /\ task' = "enter" /\ tries' = 0 /\ Stay
  <2>1. at = Level(Depth + 1)' /\ keys' = <<>>
    BY <1>1, <1>2, <1>3 DEF Level, Stay, panelSide
  <2>2. Entering'
    <3>1. \A k \in DOMAIN stack' : stack'[k] # <<>>
      BY <1>1 DEF AtStart
    <3>2. bar' = First(at)' /\ at' = Level(Depth + 1)'
      BY <1>1, <2>1 DEF AtStart
    <3> QED
      BY <2>1, <3>1, <3>2 DEF Entering
  <2>3. WalkData'
    BY <1>1, <1>3 DEF WalkData
  <2> QED
    BY <1>2, <1>3, <2>2, <2>3 DEF Course
<1>4. CASE SendKey("back") /\ tries' = tries + 1 /\ UNCHANGED task
  <2>1. Pressed("back")'
    BY <1>1, <1>4, OneKeySent
  <2>2. AtStart'
    BY <1>1, <2>1 DEF AtStart
  <2>3. WalkData'
    BY <1>1, <1>4 DEF WalkData
  <2> QED
    BY <1>1, <1>2, <1>4, <2>2, <2>3 DEF Course
<1> QED
  BY <1>3, <1>4 DEF Homeward

\* The panel handles the key that the walk waits for.
LEMMA HandleCourse ==
  ASSUME WalkTypes, Course, Toured, Unhandled, PanelActs, Handle PROVE Course' /\ Toured'
<1>1. /\ keys # <<>> /\ Head(keys) = keys[1] /\ Len(keys) = 1 /\ keys' = <<>>
      /\ UNCHANGED <<mark, heard, task, await, before, found, tries, stack, visited>>
  BY DEF WalkTypes, Handle, Unhandled, PanelActs, clientSide, walkSide
<1>2. \A k : Level(k)' = Level(k) /\ ~Pressed("back")' /\ Depth' = Depth
  BY <1>1 DEF Level, Depth, Pressed
<1>3. Toured'
  BY <1>1, <1>2 DEF Toured, Followed
<1>4. WalkData' /\ WalkData
  BY <1>1 DEF Course, WalkData
<1>5. AtStart => AtStart'
  <2>1. SUFFICES ASSUME AtStart PROVE AtStart'
    OBVIOUS
  <2>2. Back
    BY <1>1, <2>1 DEF AtStart, Pressed, Handle, Down, Select
  <2>3. bar' = First(at')
    BY <2>1, <2>2 DEF AtStart, Back
  <2> QED
    BY <1>1, <2>1, <2>3 DEF AtStart
<1>6. Entering => Entering'
  <2>1. SUFFICES ASSUME Entering PROVE Entering'
    OBVIOUS
  <2>2. Select /\ at = Level(Depth) /\ bar # 0 /\ Options[at][bar] = Head(stack[Depth]) /\ Depth > 0
    BY <1>1, <2>1 DEF Entering, Pressed, Handle, Down, Back
  <2>3. Depth \in DOMAIN stack /\ Depth \in Nat /\ stack[Depth] \in Seq(Label) /\ stack[Depth] # <<>>
    BY <1>4, <2>1, <2>2 DEF WalkData, Depth, Entering
  <2>4. Options[at][bar] \in Structural
    <3>1. Head(stack[Depth]) \in ToSet(stack[Depth])
      BY <2>3, HeadParts
    <3> QED
      BY <2>2, <2>3, <3>1 DEF Toured
  <2>5. at' = Below[Options[at][bar]] /\ bar' = First(at')
    BY <2>2, <2>4 DEF Select
  <2>6. Level(Depth + 1) = Below[Head(stack[Depth])]
    <3>1. \A k \in Nat : k > 0 => k + 1 # 1 /\ k + 1 - 1 = k
      OBVIOUS
    <3>2. \A k \in Nat : k > 0 => Level(k + 1) = Below[Head(stack[k])]
      BY <3>1 DEF Level
    <3> QED
      BY <2>2, <2>3, <3>2
  <2>7. at' = Level(Depth + 1)'
    BY <1>2, <1>1, <2>2, <2>5, <2>6 DEF Level, Depth
  <2> QED
    BY <1>1, <2>1, <2>5, <2>7 DEF Entering
<1>7. Enumerating /\ task = "enumerate" => Enumerating'
  <2>1. SUFFICES ASSUME Enumerating, task = "enumerate" PROVE Enumerating'
    OBVIOUS
  <2>2. Down /\ await # "none"
    BY <1>1, <2>1 DEF Enumerating, Pressed, Handle, Select, Back, Unhandled
  <2>3. at' = at /\ tries = Len(found) /\ bar = Len(found) /\ bar' = NextLine(Len(found))
    BY <1>1, <2>1, <2>2 DEF Enumerating, Down, NextLine
  <2>4. Level(Depth + 1)' = Level(Depth + 1) /\ \A k : NextLine(k)' = NextLine(k)
    BY <1>1, <2>3 DEF Level, Depth, NextLine
  <2> QED
    BY <1>1, <2>1, <2>2, <2>3, <2>4 DEF Enumerating
<1>8. Moving => Moving'
  <2>1. SUFFICES ASSUME Moving PROVE Moving'
    OBVIOUS
  <2>2. Level(Depth)' = Level(Depth)
    BY <1>1 DEF Level, Depth
  <2>3. at' = Level(Depth)
    <3>1. CASE Pressed("back")
      <4>1. Back /\ at # Home /\ Parent[at] = Level(Depth)
        BY <1>1, <2>1, <3>1 DEF Moving, Pressed, Handle, Down, Select
      <4> QED
        BY <4>1 DEF Back
    <3>2. CASE ~Pressed("back")
      <4>1. Down /\ at = Level(Depth)
        BY <1>1, <2>1, <3>2 DEF Moving, Pressed, Handle, Select, Back
      <4> QED
        BY <4>1 DEF Down
    <3> QED
      BY <3>1, <3>2
  <2> QED
    BY <1>1, <1>2, <2>1, <2>2, <2>3 DEF Moving
<1> QED
  BY <1>1, <1>3, <1>4, <1>5, <1>6, <1>7, <1>8 DEF Course

\* A "down" that showed no effect in time, although it was handled: there is one line.
LEMMA UnmovedCourse ==
  ASSUME MenusFit, WalkTypes, Course, Toured, task = "enumerate", await = "highlight",
         ~Unanswered, ~(heard /\ Changed), Record, UNCHANGED <<panelSide, clientSide, before, found>>
  PROVE  Course' /\ Toured'
<1>1. Enumerating /\ WalkData /\ at \in Screen /\ keys = <<>> /\ text = at /\ mark = bar
  BY DEF Course, WalkTypes, Unanswered
<1>2. Highlighted = IF bar = 0 THEN NoText ELSE Options[at][bar]
  BY <1>1, InStep
<1>3. /\ Len(found) \in Nat \ {0} /\ Len(found) <= Len(Options[at]) /\ Len(Options[at]) \in Nat
      /\ before.highlight = Options[at][Len(found)] /\ (mark = Len(found) \/ heard)
      /\ bar = NextLine(Len(found)) /\ DOMAIN Options[at] = 1 .. Len(Options[at])
  <2>1. found # <<>> /\ Len(found) \in Nat \ {0}
    BY <1>1 DEF Enumerating, WalkData
  <2>2. tries = Len(found)
    BY <1>1 DEF Enumerating
  <2> QED
    BY <1>1, <2>1, <2>2, MenuParts DEF Enumerating
<1>4. Len(found) = Len(Options[at])
  <2>1. SUFFICES ASSUME Len(found) # Len(Options[at]) PROVE FALSE
    OBVIOUS
  <2>2. bar = Len(found) + 1 /\ bar \in 1 .. Len(Options[at]) /\ Len(found) \in 1 .. Len(Options[at])
    BY <1>3, <2>1 DEF NextLine
  <2>3. Highlighted = Options[at][bar] /\ Highlighted # NoText
    BY <1>1, <1>2, <2>2, MenuParts
  <2>4. Options[at][bar] # Options[at][Len(found)]
    BY <1>1, <1>3, <2>2 DEF MenusFit
  <2>5. heard /\ Changed
    BY <1>1, <1>3, <2>2, <2>3, <2>4 DEF Changed
  <2> QED
    BY <2>5
<1> QED
  BY <1>1, <1>4, RecordCourse DEF panelSide

LEMMA VisitInitially == WalkInit => VisitInv
<1> SUFFICES ASSUME WalkInit PROVE VisitInv
  OBVIOUS
<1>1. WalkData /\ AtStart /\ task = "connect"
  BY DEF WalkInit, WalkData, AtStart
<1>2. Toured
  BY DEF WalkInit, Toured
<1>3. VisitsAll
  BY <1>1 DEF VisitsAll
<1> QED
  BY <1>1, <1>2, <1>3, WalkInitially DEF VisitInv, Course

\* The steps between two waits.
LEMMA CalmCourse ==
  ASSUME MenusFit, WalkInv, Course, Toured, ~late, ~Over, ~Over',
         Homeward \/ Enter \/ NextOption \/ NewOption \/ Enumerated \/ Move \/ Leave \/ Walked \/ GiveUp
  PROVE  Course' /\ Toured'
<1>1. task # "connect" /\ await = "none"
  BY DEF Homeward, Enter, NextOption, NewOption, Enumerated, Move, Leave, Walked, GiveUp, Ready
<1>2. Calm /\ WalkTypes
  BY <1>1 DEF WalkInv, Dialogue
<1>3. ~Walked /\ ~GiveUp
  BY DEF Walked, GiveUp, Over
<1> QED
  BY <1>2, <1>3, HomewardCourse, EnterCourse, NextOptionCourse, NewOptionCourse, EnumeratedCourse,
     MoveCourse, LeaveCourse

LEMMA WaitCourse ==
  ASSUME MenusFit, WalkInv, Course, Toured, ~late', ~Over', Connect \/ Noticed \/ Settled \/ WaitFails
  PROVE  Course' /\ Toured'
<1>1. CASE Connect
  <2>1. task' # "failed"
    BY DEF Over
  <2>2. StandsStill \/ (UNCHANGED <<at, bar, keys, found, tries, stack, visited, task>> /\ task = "connect")
    BY <1>1, <2>1 DEF Connect, Ready
  <2>3. task = "connect" /\ task' = task /\ UNCHANGED <<at, bar, keys, found, tries, stack, visited>>
    BY <1>1, <2>1 DEF Connect, Ready
  <2>4. Toured'
    <3>1. \A k : Level(k)' = Level(k)
      BY <2>3 DEF Level
    <3> QED
      BY <2>3, <3>1 DEF Toured, Followed, Depth
  <2> QED
    BY <2>3, <2>4 DEF Course, WalkData, AtStart, Pressed
<1>2. CASE Noticed
  <2>1. StandsStill
    BY <1>2 DEF Noticed, StandsStill, panelSide, clientSide
  <2> QED
    BY <2>1, StillKeeps
<1>3. CASE Settled
  <2>1. /\ UNCHANGED <<at, bar, keys, before, found, tries, stack, visited, mark, heard>>
        /\ await' = "none" /\ task' = IF task = "connect" THEN "home" ELSE task
    BY <1>3 DEF Settled, panelSide, clientSide
  <2>2. CASE task # "connect"
    <3>1. StandsStill
      BY <2>1, <2>2 DEF StandsStill
    <3> QED
      BY <3>1, StillKeeps
  <2>3. CASE task = "connect"
    <3>1. \A k : Level(k)' = Level(k)
      BY <2>1 DEF Level
    <3>2. Toured'
      BY <2>1, <3>1 DEF Toured, Followed, Depth
    <3> QED
      BY <2>1, <2>3, <3>2 DEF Course, WalkData, AtStart, Pressed
  <2> QED
    BY <2>2, <2>3
<1>4. CASE WaitFails
  <2>1. /\ UNCHANGED <<panelSide, clientSide, before, found>> /\ await # "none" /\ await' = "none"
        /\ ~Unanswered /\ ~(await # "settle" /\ heard /\ Changed) /\ task' # "failed"
    BY <1>4 DEF WaitFails, Over
  <2>2. CASE task = "home" /\ UNCHANGED <<task, tries, stack, visited>>
    <3>1. StandsStill
      BY <2>1, <2>2 DEF StandsStill, panelSide, clientSide
    <3> QED
      BY <3>1, StillKeeps
  <2>3. CASE task = "enumerate" /\ await = "highlight" /\ Record
    BY <2>1, <2>3, UnmovedCourse DEF WalkInv
  <2> QED
    BY <1>4, <2>1, <2>2, <2>3 DEF WaitFails
<1> QED
  BY <1>1, <1>2, <1>3, <1>4

\* A walk that passes has nothing left to visit.
LEMMA PassedVisits ==
  ASSUME WalkInv, Course, Toured, ~late, ~Over, Walked
  PROVE  VisitsAll'
<1>1. task = "move" /\ await = "none" /\ Len(stack) = 1 /\ Last(stack) = <<>>
      /\ UNCHANGED <<at, visited>>
  BY DEF Walked, Ready, Stay, panelSide
<1>2. Moving /\ WalkData /\ keys = <<>>
  BY <1>1 DEF Course, WalkInv, Dialogue, Calm
<1>3. DOMAIN stack = {1} /\ stack[1] = <<>> /\ Depth = 1
  BY <1>1, <1>2 DEF WalkData, Depth, Last
<1>4. at = Home
  BY <1>2, <1>3 DEF Moving, Pressed, Level
<1>5. Head(visited) = visited[1] /\ visited[1].screen = Home
  BY <1>2 DEF Moving, Toured, WalkData
<1>6. \A k \in DOMAIN stack : ToSet(stack[k]) = {}
  BY <1>3 DEF ToSet
<1>7. UNCHANGED at /\ UNCHANGED visited
  BY <1>1
<1>8. /\ at = Home /\ Head(visited).screen = Home
      /\ \A i \in DOMAIN visited :
           /\ ToSet(visited[i].options) = ToSet(Options[visited[i].screen])
           /\ \A o \in ToSet(Options[visited[i].screen]) \cap Structural :
                \E j \in DOMAIN visited : visited[j].via = o /\ visited[j].screen = Below[o]
  BY <1>4, <1>5, <1>6 DEF Toured, Followed
<1> QED
  BY <1>7, <1>8 DEF VisitsAll

LEMMA VisitSteps ==
  ASSUME MenusFit, VisitInv, [WalkNext]_walkVars
  PROVE  VisitInv'
<1>1. WalkInv'
  BY WalkSteps DEF VisitInv
<1>2. (late => late') /\ (Over => Over' /\ (task' = "passed" => task = "passed" /\ UNCHANGED <<at, visited>>))
  <2>1. CASE Connect \/ Homeward \/ Enter \/ NextOption \/ NewOption \/ Enumerated \/ Move \/ Leave
             \/ Walked \/ GiveUp
    <3>1. late' = late
      BY <2>1 DEF Connect, Homeward, Enter, NextOption, NewOption, Enumerated, Move, Leave, Walked, GiveUp
    <3>2. ~Over
      BY <2>1 DEF Connect, Homeward, Enter, NextOption, NewOption, Enumerated, Move, Leave, Walked, GiveUp,
           Ready, Over
    <3> QED
      BY <3>1, <3>2
  <2>2. CASE Noticed \/ Settled \/ PanelActs \/ Receive \/ ReaderFails \/ UNCHANGED walkVars
    <3>1. late => late'
      BY <2>2 DEF Noticed, Settled, PanelActs, Receive, ReaderFails, walkVars, walkSide
    <3>2. Over => task' = task /\ UNCHANGED <<at, visited>>
      <4>1. Noticed \/ Settled => UNCHANGED <<at, visited>> /\ (Over => task' = task)
        BY DEF Noticed, Settled, panelSide, Over
      <4>2. Receive \/ UNCHANGED walkVars => UNCHANGED <<at, visited, task>>
        BY DEF Receive, walkVars, walkSide, panelSide
      <4>3. PanelActs \/ ReaderFails => ~Over
        BY DEF PanelActs, ReaderFails
      <4> QED
        BY <2>2, <4>1, <4>2, <4>3
    <3> QED
      BY <3>1, <3>2 DEF Over
  <2>3. CASE WaitFails
    BY <2>3 DEF WaitFails, Over
  <2> QED
    BY <2>1, <2>2, <2>3 DEF WalkNext, WalkStep
<1>3. ASSUME ~late', ~Over' PROVE Course' /\ Toured'
  <2>1. ~late /\ ~Over /\ Course /\ Toured /\ WalkInv
    BY <1>2, <1>3 DEF VisitInv
  <2>2. CASE PanelActs
    <3>1. CASE Handle
      <4>1. keys # <<>>
        BY <3>1 DEF Handle
      <4>2. Unhandled /\ WalkTypes
        BY <2>1, <4>1 DEF WalkInv, Dialogue, Broken, Opened, Cleared, Catching, Calm, Redrawn
      <4> QED
        BY <2>1, <2>2, <3>1, <4>2, HandleCourse
    <3>2. CASE Refresh
      <4>1. StandsStill
        BY <2>2, <3>2 DEF PanelActs, Refresh, StandsStill, clientSide, walkSide
      <4> QED
        BY <2>1, <4>1, StillKeeps
    <3> QED
      BY <2>2, <3>1, <3>2 DEF PanelActs
  <2>3. CASE Receive \/ ReaderFails \/ UNCHANGED walkVars
    <3>1. StandsStill
      BY <2>3 DEF Receive, ReaderFails, StandsStill, walkVars, panelSide, clientSide, walkSide
    <3> QED
      BY <2>1, <3>1, StillKeeps
  <2>4. CASE WalkStep
    <3>1. CASE Connect \/ Noticed \/ Settled \/ WaitFails
      BY <1>3, <2>1, <3>1, WaitCourse
    <3>2. CASE Homeward \/ Enter \/ NextOption \/ NewOption \/ Enumerated \/ Move \/ Leave \/ Walked
               \/ GiveUp
      BY <1>3, <2>1, <3>2, CalmCourse
    <3> QED
      BY <2>4, <3>1, <3>2 DEF WalkStep
  <2> QED
    BY <2>2, <2>3, <2>4 DEF WalkNext
<1>4. VisitsAll'
  <2>1. SUFFICES ASSUME task' = "passed", ~late' PROVE VisitsAll'
    BY DEF VisitsAll
  <2>2. CASE Over
    BY <1>2, <2>1, <2>2 DEF VisitInv, VisitsAll
  <2>3. CASE ~Over
    <3>1. Walked
      BY <2>1, <2>3 DEF WalkNext, WalkStep, Connect, Homeward, Enter, NextOption, NewOption,
           Enumerated, Move, Leave, GiveUp, Noticed, Settled, WaitFails, Record, PanelActs, Receive,
           ReaderFails, walkVars, walkSide, Over
    <3> QED
      BY <1>2, <2>1, <2>3, <3>1, PassedVisits DEF VisitInv
  <2> QED
    BY <2>2, <2>3
<1> QED
  BY <1>1, <1>3, <1>4 DEF VisitInv

\* For menus that fit the walk's bounds (maximum_options) and lead back to where they came from: a walk
\* that passes, and was always answered, has visited everything and is back home.
THEOREM EveryMenuVisited == ASSUME MenusFit PROVE WalkSafety => []VisitsAll
<1>1. VisitInv /\ [WalkNext]_walkVars => VisitInv'
  BY VisitSteps
<1>2. VisitInv => VisitsAll
  BY DEF VisitInv
<1> QED
  BY <1>1, <1>2, VisitInitially, PTL DEF WalkSafety

-----------------------------------------------------------------------------
(* The bounds of the walk.                                                   *)

\* What q is a sequence of is left open.
IsSequence(q) == \E X : q \in Seq(X)

\* The walker's own data, and the room that is left for the menu it enumerates.
WalkerBounds ==
  /\ task \in {"connect", "home", "enter", "enumerate", "move", "passed", "failed"}
  /\ await \in {"none", "packets", "highlight", "screen", "settle"}
  /\ found \in Seq(Label) /\ tries \in 0 .. Max({HomeAttempts, MaxOptions})
  /\ IsSequence(stack) /\ Len(stack) <= MaxDepth + 1
  /\ IsSequence(visited) /\ Len(visited) <= MaxScreens
  /\ task = "enumerate" => Len(stack) <= MaxDepth /\ Len(visited) < MaxScreens

ClientTypes == heard \in BOOLEAN /\ reader \in {"off", "on", "failed"}

LEMMA Lengthened ==
  ASSUME NEW q, IsSequence(q), NEW e
  PROVE  /\ IsSequence(Append(q, e)) /\ Len(q) \in Nat /\ Len(Append(q, e)) = Len(q) + 1
<1>1. PICK X : q \in Seq(X)
  BY DEF IsSequence
<1> DEFINE Y == X \cup {e}
<1>2. q \in Seq(Y) /\ e \in Y
  BY <1>1
<1> HIDE DEF Y
<1>3. Append(q, e) \in Seq(Y) /\ Len(q) \in Nat /\ Len(Append(q, e)) = Len(q) + 1
  BY <1>2
<1> QED
  BY <1>3 DEF IsSequence

LEMMA Shortened ==
  ASSUME NEW q, IsSequence(q), Len(q) > 1, NEW r, CutBack(r, q)
  PROVE  IsSequence(r) /\ Len(q) \in Nat /\ Len(r) = Len(q) - 1
<1>1. PICK X : q \in Seq(X)
  BY DEF IsSequence
<1> DEFINE m == Len(q) - 1
           f == Front(q)
           Y == X \cup {Tail(f[m])}
<1>2. Len(q) \in Nat /\ m \in Nat /\ m > 0
  BY <1>1
<1>3. \A k \in 1 .. m : q[k] \in X
  BY <1>1, <1>2
<1>4. f = [k \in 1 .. m |-> q[k]]
  BY <1>2 DEF Front
<1>5. f \in [1 .. m -> Y]
  BY <1>3, <1>4
<1>6. r = [f EXCEPT ![m] = Tail(f[m])] /\ Tail(f[m]) \in Y
  BY DEF CutBack
<1> HIDE DEF m, f, Y
<1>7. r \in [1 .. m -> Y]
  BY <1>5, <1>6
<1>8. r \in Seq(Y) /\ Len(r) = m
  BY <1>2, <1>7
<1> QED
  BY <1>2, <1>8 DEF IsSequence, m

LEMMA ClientTypesStep ==
  ASSUME ClientTypes, [WalkNext]_walkVars
  PROVE  ClientTypes'
<1>1. reader' \in {"off", "on", "failed"}
  BY DEF ClientTypes, WalkNext, walkVars, clientSide, PanelActs, Receive, ReaderFails, WalkStep,
         Connect, Homeward, Enter, NextOption, NewOption, Enumerated, Move, Leave, Walked, GiveUp,
         Noticed, Settled, WaitFails, SendKey, Stay
<1>2. heard' = heard \/ heard' = TRUE \/ heard' = FALSE
  BY Zenon DEF WalkNext, walkVars, clientSide, PanelActs, Receive, ReaderFails, WalkStep,
         Connect, Homeward, Enter, NextOption, NewOption, Enumerated, Move, Leave, Walked, GiveUp,
         Noticed, Settled, WaitFails, SendKey, Stay
<1>3. heard' \in BOOLEAN
  BY <1>2, Zenon DEF ClientTypes
<1> QED
  BY <1>1, <1>3 DEF ClientTypes

\* The menu's lines are reported, its candidates put on the stack.
LEMMA RecordBounds ==
  ASSUME WalkerBounds, task = "enumerate", Record, UNCHANGED found,
         await' \in {"none", "packets", "highlight", "screen", "settle"}
  PROVE  WalkerBounds'
<1>1. /\ MaxDepth \in Nat /\ MaxScreens \in Nat
      /\ 0 \in 0 .. Max({HomeAttempts, MaxOptions})
  BY MenuAssumption, MaxOfTwo
<1>2. PICK e : stack' = Append(stack, e)
  BY DEF Record
<1>3. PICK v : visited' = Append(visited, v)
  BY DEF Record
<1>4. /\ IsSequence(stack') /\ Len(stack) \in Nat /\ Len(stack') = Len(stack) + 1
  BY <1>2, Lengthened DEF WalkerBounds
<1>5. /\ IsSequence(visited') /\ Len(visited) \in Nat /\ Len(visited') = Len(visited) + 1
  BY <1>3, Lengthened DEF WalkerBounds
<1>6. task' = "move" /\ tries' = 0
  BY DEF Record
<1>7. /\ IsSequence(stack)' /\ IsSequence(visited)'
  BY <1>4, <1>5 DEF IsSequence
<1> QED
  BY <1>1, <1>4, <1>5, <1>6, <1>7 DEF WalkerBounds

LEMMA WalkerBoundsStep ==
  ASSUME WalkTypes, WalkerBounds, [WalkNext]_walkVars
  PROVE  WalkerBounds'
<1> DEFINE most == Max({HomeAttempts, MaxOptions})
<1>1. /\ HomeAttempts \in Nat /\ MaxOptions \in Nat /\ MaxDepth \in Nat /\ MaxScreens \in Nat
      /\ most \in Nat /\ HomeAttempts <= most /\ MaxOptions <= most
  BY MenuAssumption, MaxOfTwo
<1>2. /\ Len(found) \in Nat /\ Len(stack) \in Nat /\ Len(visited) \in Nat
  BY Lengthened DEF WalkerBounds
<1>3. WalkerBounds /\ tries \in 0 .. most
  BY DEF WalkerBounds
<1>4. ASSUME UNCHANGED <<found, stack, visited>>, tries' \in 0 .. most,
             task' \in {"connect", "home", "enter", "move", "passed", "failed", task},
             await' \in {"none", "packets", "highlight", "screen", "settle"}
      PROVE  WalkerBounds'
  BY <1>3, <1>4 DEF WalkerBounds, IsSequence
<1> HIDE DEF most
<1>5. CASE UNCHANGED walkSide \/ UNCHANGED walkVars
  BY <1>3, <1>4, <1>5 DEF walkSide, walkVars, WalkerBounds
<1>6. CASE Connect \/ Walked \/ GiveUp \/ Noticed \/ Settled
  <2>1. /\ UNCHANGED <<found, stack, visited, tries>>
        /\ task' \in {"connect", "home", "enter", "move", "passed", "failed", task}
        /\ await' \in {"none", "packets", "highlight", "screen", "settle", await}
    BY <1>6 DEF Connect, Walked, GiveUp, Noticed, Settled, Stay
  <2> QED
    BY <1>3, <1>4, <2>1 DEF WalkerBounds
<1>7. CASE Homeward \/ Move
  <2>1. /\ UNCHANGED <<found, stack, visited>>
        /\ task' \in {"enter", task}
        /\ await' \in {"highlight", "screen", await}
    BY <1>7 DEF Homeward, Move, Stay, SendKey
  <2>2. tries' \in 0 .. most
    BY <1>1, <1>3, <1>7 DEF Homeward, Move
  <2> QED
    BY <1>3, <1>4, <2>1, <2>2 DEF WalkerBounds
<1>8. CASE Enter
  <2>1. /\ Len(stack) <= MaxDepth /\ Len(visited) < MaxScreens /\ UNCHANGED <<stack, visited, await>>
        /\ task' = "enumerate" /\ tries' = 0
    BY <1>8 DEF Enter, Stay
  <2>2. Highlighted \in Label \cup {NoText}
    BY HighlightedType
  <2>3. found' \in Seq(Label)
    BY <1>8, <2>2 DEF Enter
  <2> QED
    BY <1>1, <1>3, <2>1, <2>3 DEF WalkerBounds, IsSequence, most
<1>9. CASE NextOption
  <2>1. /\ UNCHANGED <<found, stack, visited, task>> /\ await' = "highlight"
        /\ tries' = tries + 1 /\ tries + 1 = Len(found) /\ Len(found) < MaxOptions
    BY <1>9 DEF NextOption, SendKey
  <2>2. tries' \in 0 .. most
    BY <1>1, <1>2, <1>3, <2>1
  <2> QED
    BY <1>4, <2>1, <2>2
<1>10. CASE NewOption
  <2>1. /\ UNCHANGED <<task, tries, stack, visited, await>>
        /\ found' = Append(found, Highlighted) /\ Highlighted # NoText
    BY <1>10 DEF NewOption, Stay
  <2>2. found' \in Seq(Label)
    BY <1>3, <2>1, HighlightedType DEF WalkerBounds
  <2> QED
    BY <1>3, <2>1, <2>2 DEF WalkerBounds, IsSequence
<1>11. CASE Enumerated
  BY <1>3, <1>11, RecordBounds DEF Enumerated, Ready, Stay, WalkerBounds
<1>12. CASE Leave
  <2>1. /\ CutBack(stack', stack) /\ Len(stack) > 1 /\ UNCHANGED <<found, visited>>
        /\ task' = "move" /\ tries' = 0 /\ await' = "screen"
    BY <1>12 DEF Leave, SendKey, Ready, CutBack
  <2>2. IsSequence(stack') /\ Len(stack') = Len(stack) - 1
    BY <1>3, <2>1, Shortened DEF WalkerBounds
  <2>3. IsSequence(stack)' /\ IsSequence(visited)'
    BY <1>3, <2>1, <2>2 DEF WalkerBounds, IsSequence
  <2> QED
    BY <1>1, <1>2, <1>3, <2>1, <2>2, <2>3 DEF WalkerBounds, most
<1>13. CASE WaitFails
  <2>1. await' = "none" /\ UNCHANGED found
    BY <1>13 DEF WaitFails
  <2>2. CASE task = "enumerate" /\ Record
    BY <1>3, <2>1, <2>2, RecordBounds
  <2>3. CASE UNCHANGED <<tries, stack, visited>> /\ task' \in {"failed", task}
    BY <1>3, <1>4, <2>1, <2>3
  <2> QED
    BY <1>13, <2>2, <2>3 DEF WaitFails
<1> QED
  BY <1>5, <1>6, <1>7, <1>8, <1>9, <1>10, <1>11, <1>12, <1>13
     DEF WalkNext, WalkStep, PanelActs, Receive, ReaderFails

LEMMA WalkerBoundsInitially == WalkInit => ClientTypes /\ WalkerBounds
<1> SUFFICES ASSUME WalkInit PROVE ClientTypes /\ WalkerBounds
  OBVIOUS
<1>1. /\ MaxDepth \in Nat /\ MaxScreens \in Nat
      /\ 0 \in 0 .. Max({HomeAttempts, MaxOptions})
  <2>1. HomeAttempts \in Nat /\ MaxOptions \in Nat /\ MaxDepth \in Nat /\ MaxScreens \in Nat
    BY MenuAssumption
  <2>2. Max({HomeAttempts, MaxOptions}) \in Nat
    BY <2>1, MaxOfTwo
  <2> QED
    BY <2>1, <2>2
<1>2. <<>> \in Seq(Label) /\ IsSequence(<<>>) /\ Len(<<>>) = 0
  BY DEF IsSequence
<1>3. heard \in BOOLEAN
  BY Zenon DEF WalkInit
<1>4. IsSequence(stack) /\ IsSequence(visited) /\ Len(stack) = 0 /\ Len(visited) = 0
      /\ found \in Seq(Label)
  BY <1>2 DEF WalkInit
<1> QED
  BY <1>1, <1>3, <1>4 DEF WalkInit, ClientTypes, WalkerBounds

\* The walk keeps to its bounds -- the depth of the menus, the screens it visits, the
\* keys it tries -- whatever the panel shows it and whenever its answers come.
THEOREM WalkTypeCorrect == WalkSafety => []WalkTypeOK
<1>1. WalkInv /\ ClientTypes /\ WalkerBounds => WalkTypeOK
  <2> SUFFICES ASSUME WalkInv, ClientTypes, WalkerBounds PROVE WalkTypeOK
    OBVIOUS
  <2>1. heard \in BOOLEAN
    BY DEF ClientTypes
  <2> QED
    BY <2>1 DEF WalkInv, WalkTypes, ClientTypes, WalkerBounds, WalkTypeOK
<1>2. WalkInv => WalkTypes
  BY DEF WalkInv
<1> QED
  BY <1>1, <1>2, WalkerBoundsInitially, ClientTypesStep, WalkerBoundsStep, WalkInitially,
     WalkSteps, PTL DEF WalkSafety

-----------------------------------------------------------------------------
(* How a walk comes to its end: each step of the walker uses up some of what *)
(* its bounds allow, the most significant first -- screens still to visit,   *)
(* menus to go back from, phases of the walk, tries of a loop, a wait.       *)

PhaseLeft ==
  IF task = "connect" /\ await = "none" THEN 7
  ELSE [connect |-> 6, home |-> 5, move |-> 4, enter |-> 3, enumerate |-> 2,
        passed |-> 0, failed |-> 0][task]

\* Each line that _enumerate_options finds took a "down", but the first.
TriesLeft ==
  IF task = "home" THEN HomeAttempts - tries
  ELSE IF task = "enumerate" THEN 2 * (MaxOptions + 1) - tries - Len(found)
  ELSE IF task = "move" THEN MaxOptions - tries ELSE 0

WaitLeft == IF await = "none" THEN 0 ELSE IF await = "settle" THEN 1 ELSE 2

TryBound == HomeAttempts + 2 * (MaxOptions + 1) + 1

\* Five numbers as one: v counts most.
Ladder(v, s, p, t, a) == (((v * (MaxDepth + 2) + s) * 8 + p) * TryBound + t) * 3 + a

WalkLeft == Ladder(MaxScreens - Len(visited), Len(stack), PhaseLeft, TriesLeft, WaitLeft)

WalkLimit == (MaxScreens + 1) * (MaxDepth + 2) * 8 * TryBound * 3

\* The tries of a loop stay within its bound.
TriesBounded ==
  /\ task = "connect" => tries = 0
  /\ task = "home" => tries <= HomeAttempts
  /\ task = "move" => tries <= MaxOptions
  /\ task = "enumerate" =>
       /\ tries <= Len(found) /\ Len(found) <= MaxOptions + 1
       /\ tries = Len(found) => Len(found) <= MaxOptions

LEMMA BoundNumbers ==
  /\ {MaxDepth, MaxScreens, MaxOptions, HomeAttempts} \subseteq Nat
  /\ MaxDepth + 2 \in Nat /\ TryBound \in Nat
BY MenuAssumption DEF TryBound

\* One digit more: less in front is less, and a digit keeps below its base.
LEMMA DigitFalls ==
  ASSUME NEW w \in Nat, NEW a \in Nat, NEW c \in Nat, NEW b \in Nat, NEW d \in Nat,
         d < w, c < a \/ (c = a /\ d < b)
  PROVE  c * w + d < a * w + b
<1>1. CASE c = a /\ d < b
  <2>1. a * w \in Nat
    OBVIOUS
  <2> QED
    BY <1>1, <2>1
<1>2. CASE c < a
  <2> DEFINE m == a - c - 1
  <2>1. m \in Nat /\ a = c + 1 + m
    BY <1>2
  <2>2. a * w = c * w + w + m * w
    BY <2>1
  <2>3. c * w \in Nat /\ m * w \in Nat
    BY <2>1
  <2> QED
    BY <2>2, <2>3
<1> QED
  BY <1>1, <1>2

LEMMA DigitBound ==
  ASSUME NEW w \in Nat, NEW A \in Nat, NEW a \in Nat, NEW b \in Nat, a < A, b < w
  PROVE  a * w + b \in Nat /\ a * w + b < A * w
<1> DEFINE m == A - a - 1
<1>1. m \in Nat /\ A = a + 1 + m
  OBVIOUS
<1>2. A * w = a * w + w + m * w
  BY <1>1
<1>3. a * w \in Nat /\ m * w \in Nat
  BY <1>1
<1> QED
  BY <1>2, <1>3

LEMMA LadderBound ==
  ASSUME NEW v \in 0 .. MaxScreens, NEW s \in 0 .. MaxDepth + 1, NEW p \in 0 .. 7,
         NEW t \in 0 .. TryBound - 1, NEW a \in 0 .. 2
  PROVE  Ladder(v, s, p, t, a) \in 0 .. WalkLimit - 1
<1>0. /\ MaxDepth + 2 \in Nat /\ TryBound \in Nat /\ MaxScreens + 1 \in Nat
      /\ (MaxScreens + 1) * (MaxDepth + 2) \in Nat
      /\ (MaxScreens + 1) * (MaxDepth + 2) * 8 \in Nat
  BY BoundNumbers
<1>1. v * (MaxDepth + 2) + s \in Nat
      /\ v * (MaxDepth + 2) + s < (MaxScreens + 1) * (MaxDepth + 2)
  BY <1>0, BoundNumbers, DigitBound
<1>2. (v * (MaxDepth + 2) + s) * 8 + p \in Nat
      /\ (v * (MaxDepth + 2) + s) * 8 + p < (MaxScreens + 1) * (MaxDepth + 2) * 8
  BY <1>0, <1>1, DigitBound
<1> DEFINE n == (v * (MaxDepth + 2) + s) * 8 + p
           N == (MaxScreens + 1) * (MaxDepth + 2) * 8
<1>3. n \in Nat /\ N \in Nat /\ n < N
  BY <1>0, <1>2
<1> HIDE DEF n, N
<1>4. n * TryBound + t \in Nat /\ n * TryBound + t < N * TryBound
  BY <1>0, <1>3, DigitBound
<1>5. N * TryBound \in Nat
  BY <1>0, <1>3
<1>6. (n * TryBound + t) * 3 + a \in Nat /\ (n * TryBound + t) * 3 + a < N * TryBound * 3
  BY <1>4, <1>5, DigitBound
<1>7. N * TryBound * 3 \in Nat
  BY <1>5
<1> QED
  BY <1>6, <1>7 DEF Ladder, WalkLimit, n, N

LEMMA LadderFalls ==
  ASSUME NEW v \in 0 .. MaxScreens, NEW s \in 0 .. MaxDepth + 1, NEW p \in 0 .. 7,
         NEW t \in 0 .. TryBound - 1, NEW a \in 0 .. 2,
         NEW w \in 0 .. MaxScreens, NEW r \in 0 .. MaxDepth + 1, NEW q \in 0 .. 7,
         NEW u \in 0 .. TryBound - 1, NEW b \in 0 .. 2,
         \/ w < v
         \/ w = v /\ r < s
         \/ w = v /\ r = s /\ q < p
         \/ w = v /\ r = s /\ q = p /\ u < t
         \/ w = v /\ r = s /\ q = p /\ u = t /\ b < a
  PROVE  Ladder(w, r, q, u, b) < Ladder(v, s, p, t, a)
<1>0. MaxDepth + 2 \in Nat /\ TryBound \in Nat
  BY BoundNumbers
<1> DEFINE i == v * (MaxDepth + 2) + s
           j == w * (MaxDepth + 2) + r
<1>1. i \in Nat /\ j \in Nat /\ (w < v \/ (w = v /\ r < s) => j < i)
      /\ (w = v /\ r = s => j = i)
  <2>1. i \in Nat /\ j \in Nat
    BY <1>0, BoundNumbers, DigitBound
  <2>2. ASSUME w < v \/ (w = v /\ r < s) PROVE j < i
    BY <1>0, <2>2, BoundNumbers, DigitFalls
  <2> QED
    BY <2>1, <2>2
<1> DEFINE k == i * 8 + p
           l == j * 8 + q
<1> HIDE DEF i, j
<1>2. k \in Nat /\ l \in Nat /\ (j < i \/ (j = i /\ q < p) => l < k)
      /\ (j = i /\ q = p => l = k)
  BY <1>1
<1> DEFINE m == k * TryBound + t
           n == l * TryBound + u
<1> HIDE DEF k, l
<1>3. m \in Nat /\ n \in Nat /\ (l < k \/ (l = k /\ u < t) => n < m)
      /\ (l = k /\ u = t => n = m)
  <2>1. m \in Nat /\ n \in Nat
    BY <1>0, <1>2
  <2>2. ASSUME l < k \/ (l = k /\ u < t) PROVE n < m
    BY <1>0, <1>2, <2>2, DigitFalls
  <2> QED
    BY <2>1, <2>2
<1> HIDE DEF m, n
<1>4. n < m \/ (n = m /\ b < a)
  BY <1>1, <1>2, <1>3
<1>5. n * 3 + b < m * 3 + a
  BY <1>3, <1>4
<1> QED
  BY <1>5 DEF Ladder, i, j, k, l, m, n

WalkDigits ==
  /\ MaxScreens - Len(visited) \in 0 .. MaxScreens /\ Len(stack) \in 0 .. MaxDepth + 1
  /\ PhaseLeft \in 0 .. 7 /\ TriesLeft \in 0 .. TryBound - 1 /\ WaitLeft \in 0 .. 2

LEMMA DigitsInRange == WalkerBounds /\ TriesBounded => WalkDigits
<1> SUFFICES ASSUME WalkerBounds, TriesBounded PROVE WalkDigits
  OBVIOUS
<1>1. /\ HomeAttempts \in Nat /\ MaxOptions \in Nat /\ MaxDepth \in Nat /\ MaxScreens \in Nat
      /\ Max({HomeAttempts, MaxOptions}) \in Nat
  BY MenuAssumption, MaxOfTwo
<1>2. Len(stack) \in Nat /\ Len(visited) \in Nat /\ Len(found) \in Nat /\ tries \in Nat
  BY <1>1, Lengthened DEF WalkerBounds
<1>3. MaxScreens - Len(visited) \in 0 .. MaxScreens /\ Len(stack) \in 0 .. MaxDepth + 1
  BY <1>1, <1>2 DEF WalkerBounds
<1>4. PhaseLeft \in 0 .. 7
  BY DEF PhaseLeft, WalkerBounds
<1>5. TriesLeft \in 0 .. TryBound - 1
  BY <1>1, <1>2 DEF TriesLeft, TryBound, TriesBounded, WalkerBounds
<1> QED
  BY <1>3, <1>4, <1>5 DEF WalkDigits, WaitLeft

\* What the walker's step takes one off, everything that counts more being left alone.
LEMMA WalkFalls ==
  ASSUME WalkDigits, WalkDigits',
         \/ Len(visited)' > Len(visited)
         \/ Len(visited)' = Len(visited) /\ Len(stack)' < Len(stack)
         \/ UNCHANGED <<visited, stack>> /\ PhaseLeft' < PhaseLeft
         \/ UNCHANGED <<visited, stack>> /\ PhaseLeft' = PhaseLeft /\ TriesLeft' < TriesLeft
         \/ UNCHANGED <<visited, stack>> /\ PhaseLeft' = PhaseLeft /\ TriesLeft' = TriesLeft
            /\ WaitLeft' < WaitLeft
  PROVE  WalkLeft' < WalkLeft
<1> DEFINE v == MaxScreens - Len(visited)
           w == MaxScreens - Len(visited')
<1>1. v \in 0 .. MaxScreens /\ w \in 0 .. MaxScreens
  BY DEF WalkDigits
<1>2. \/ w < v
      \/ w = v /\ Len(stack') < Len(stack)
      \/ w = v /\ Len(stack') = Len(stack) /\ PhaseLeft' < PhaseLeft
      \/ w = v /\ Len(stack') = Len(stack) /\ PhaseLeft' = PhaseLeft /\ TriesLeft' < TriesLeft
      \/ w = v /\ Len(stack') = Len(stack) /\ PhaseLeft' = PhaseLeft /\ TriesLeft' = TriesLeft
         /\ WaitLeft' < WaitLeft
  BY <1>1, BoundNumbers
<1>3. WalkLeft = Ladder(v, Len(stack), PhaseLeft, TriesLeft, WaitLeft)
  BY DEF WalkLeft
<1>4. WalkLeft' = Ladder(w, Len(stack'), PhaseLeft', TriesLeft', WaitLeft')
  BY DEF WalkLeft, Ladder, TryBound
<1> HIDE DEF v, w
<1> QED
  BY <1>1, <1>2, <1>3, <1>4, LadderFalls DEF WalkDigits

LEMMA TriesStep ==
  ASSUME WalkerBounds, TriesBounded, [WalkNext]_walkVars
  PROVE  TriesBounded'
<1>1. HomeAttempts \in Nat /\ MaxOptions \in Nat /\ tries \in Nat /\ Len(found) \in Nat
  <2>1. Max({HomeAttempts, MaxOptions}) \in Nat /\ HomeAttempts \in Nat /\ MaxOptions \in Nat
    BY MenuAssumption, MaxOfTwo
  <2> QED
    BY <2>1 DEF WalkerBounds
<1> USE DEF TriesBounded
<1>2. CASE UNCHANGED walkSide \/ UNCHANGED walkVars
  BY <1>2 DEF walkSide, walkVars
<1>3. CASE Connect \/ Walked \/ GiveUp \/ Noticed \/ Settled
  BY <1>1, <1>3 DEF Connect, Walked, GiveUp, Noticed, Settled, Stay, Ready
<1>4. CASE Homeward
  BY <1>1, <1>4 DEF Homeward, Stay, SendKey, Ready
<1>5. CASE Enter
  <2> DEFINE n == Len(found')
             t == tries'
  <2>1. n \in Nat /\ n <= 1 /\ t = 0 /\ task' = "enumerate"
    BY <1>5 DEF Enter
  <2> HIDE DEF n, t
  <2>2. n <= MaxOptions + 1 /\ (t = n => n <= MaxOptions) /\ t <= n
    BY <1>1, <2>1
  <2> QED
    BY <2>1, <2>2 DEF n, t
<1>6. CASE NextOption
  BY <1>1, <1>6 DEF NextOption, Ready, SendKey
<1>7. CASE NewOption
  <2>1. Len(found') = Len(found) + 1 /\ tries = Len(found) /\ UNCHANGED <<task, tries, stack>>
        /\ task = "enumerate"
    BY <1>7, Lengthened DEF NewOption, Ready, Stay, WalkerBounds, IsSequence
  <2> QED
    BY <1>1, <2>1
<1>8. CASE Enumerated \/ (WaitFails /\ Record)
  <2>1. task' = "move" /\ tries' = 0
    BY <1>8 DEF Enumerated, Record
  <2> QED
    BY <1>1, <2>1
<1>9. CASE Move
  BY <1>1, <1>9 DEF Move, Ready, SendKey
<1>10. CASE Leave
  <2>1. task' = "move" /\ tries' = 0
    BY <1>10 DEF Leave, SendKey, Ready
  <2> QED
    BY <1>1, <2>1
<1>11. CASE WaitFails /\ ~Record
  BY <1>1, <1>11 DEF WaitFails
<1> QED
  BY <1>2, <1>3, <1>4, <1>5, <1>6, <1>7, <1>8, <1>9, <1>10, <1>11
     DEF WalkNext, WalkStep, PanelActs, Receive, ReaderFails

LEMMA WalkLeftFalls ==
  ASSUME WalkerBounds, TriesBounded, WalkerBounds', TriesBounded', WalkStep
  PROVE  WalkLeft' < WalkLeft
<1>1. /\ HomeAttempts \in Nat /\ MaxOptions \in Nat /\ tries \in Nat /\ Len(found) \in Nat
      /\ Len(visited) \in Nat /\ Len(stack) \in Nat
  <2>1. Max({HomeAttempts, MaxOptions}) \in Nat /\ HomeAttempts \in Nat /\ MaxOptions \in Nat
    BY MenuAssumption, MaxOfTwo
  <2> QED
    BY <2>1, Lengthened DEF WalkerBounds
<1>2. WalkDigits /\ WalkDigits'
  <2>1. WalkDigits
    BY DigitsInRange
  <2>2. WalkDigits'
    BY DigitsInRange, PTL
  <2> QED
    BY <2>1, <2>2
<1>3. CASE Connect \/ Enter \/ Walked \/ GiveUp
  <2>1. UNCHANGED <<visited, stack>> /\ PhaseLeft' < PhaseLeft
    BY <1>3 DEF Connect, Enter, Walked, GiveUp, Ready, Stay, PhaseLeft
  <2> QED
    BY <1>2, <2>1, WalkFalls
<1>4. CASE Noticed \/ Settled
  <2>1. UNCHANGED <<visited, stack, found, tries>> /\ WaitLeft' < WaitLeft
    BY <1>4 DEF Noticed, Settled, WaitLeft
  <2>2. \/ task' = task /\ (task = "connect" => await # "none" /\ await' # "none")
        \/ task = "connect" /\ task' = "home" /\ await # "none"
    BY <1>4 DEF Noticed, Settled
  <2>3. CASE task' = task /\ (task = "connect" => await # "none" /\ await' # "none")
    <3>1. PhaseLeft' = PhaseLeft /\ TriesLeft' = TriesLeft
      BY <2>1, <2>3 DEF PhaseLeft, TriesLeft
    <3> QED
      BY <1>2, <2>1, <3>1, WalkFalls
  <2>4. CASE task = "connect" /\ task' = "home" /\ await # "none"
    <3>1. PhaseLeft' < PhaseLeft
      BY <2>4 DEF PhaseLeft
    <3> QED
      BY <1>2, <2>1, <3>1, WalkFalls
  <2> QED
    BY <2>2, <2>3, <2>4
<1>5. CASE Homeward
  <2>1. CASE task' = "enter"
    <3>1. UNCHANGED <<visited, stack>> /\ PhaseLeft' < PhaseLeft
      BY <1>5, <2>1 DEF Homeward, Ready, PhaseLeft
    <3> QED
      BY <1>2, <3>1, WalkFalls
  <2>2. CASE UNCHANGED <<task, visited, stack>> /\ tries' = tries + 1 /\ task = "home"
    <3>1. PhaseLeft' = PhaseLeft /\ TriesLeft' < TriesLeft
      BY <1>1, <2>2 DEF PhaseLeft, TriesLeft
    <3> QED
      BY <1>2, <2>2, <3>1, WalkFalls
  <2> QED
    BY <1>5, <2>1, <2>2 DEF Homeward, Ready
<1>6. CASE NextOption \/ NewOption
  <2>1. /\ UNCHANGED <<task, visited, stack>> /\ task = "enumerate"
        /\ \/ tries' = tries + 1 /\ Len(found)' = Len(found)
           \/ tries' = tries /\ Len(found)' = Len(found) + 1
    BY <1>6, Lengthened DEF NextOption, NewOption, Ready, WalkerBounds, IsSequence
  <2>2. PhaseLeft' = PhaseLeft /\ TriesLeft' < TriesLeft
    BY <1>1, <2>1 DEF PhaseLeft, TriesLeft
  <2> QED
    BY <1>2, <2>1, <2>2, WalkFalls
<1>7. CASE Enumerated \/ (WaitFails /\ Record)
  <2>1. Len(visited)' > Len(visited)
    <3>1. PICK v : visited' = Append(visited, v)
      BY <1>7 DEF Enumerated, Record
    <3> QED
      BY <1>1, <3>1, Lengthened DEF WalkerBounds
  <2> QED
    BY <1>2, <2>1, WalkFalls
<1>8. CASE Move
  <2>1. CASE task' = "enter"
    <3>1. UNCHANGED <<visited, stack>> /\ PhaseLeft' < PhaseLeft
      BY <1>8, <2>1 DEF Move, Ready, PhaseLeft
    <3> QED
      BY <1>2, <3>1, WalkFalls
  <2>2. CASE UNCHANGED <<task, visited, stack>> /\ tries' = tries + 1 /\ task = "move"
    <3>1. PhaseLeft' = PhaseLeft /\ TriesLeft' < TriesLeft
      BY <1>1, <2>2 DEF PhaseLeft, TriesLeft
    <3> QED
      BY <1>2, <2>2, <3>1, WalkFalls
  <2> QED
    BY <1>8, <2>1, <2>2 DEF Move, Ready
<1>9. CASE Leave
  <2>1. CutBack(stack', stack) /\ Len(stack) > 1 /\ UNCHANGED visited
    BY <1>9 DEF Leave, CutBack
  <2>2. Len(stack)' < Len(stack)
    BY <1>1, <2>1, Shortened DEF WalkerBounds
  <2> QED
    BY <1>2, <2>1, <2>2, WalkFalls
<1>10. CASE WaitFails /\ ~Record
  <2>1. UNCHANGED <<visited, stack, found, tries>> /\ WaitLeft' < WaitLeft
    BY <1>10 DEF WaitFails, WaitLeft, WalkerBounds
  <2>2. (task = "home" /\ task' = "home") \/ (task # "home" /\ task' = "failed")
    BY <1>10 DEF WaitFails
  <2>3. CASE task = "home" /\ task' = "home"
    <3>1. PhaseLeft' = PhaseLeft /\ TriesLeft' = TriesLeft
      BY <2>1, <2>3 DEF PhaseLeft, TriesLeft
    <3> QED
      BY <1>2, <2>1, <3>1, WalkFalls
  <2>4. CASE task # "home" /\ task' = "failed"
    <3>1. \/ PhaseLeft' < PhaseLeft
          \/ PhaseLeft' = PhaseLeft /\ TriesLeft' = TriesLeft
      BY <2>4 DEF PhaseLeft, TriesLeft, WalkerBounds
    <3> QED
      BY <1>2, <2>1, <3>1, WalkFalls
  <2> QED
    BY <2>2, <2>3, <2>4
<1> QED
  BY <1>3, <1>4, <1>5, <1>6, <1>7, <1>8, <1>9, <1>10 DEF WalkStep

\* Every step of the walker uses up one of no more than WalkLimit, a number that the bounds
\* of its configuration fix: no key is pressed without end, whatever the panel shows.
THEOREM WalkRunsDown ==
  WalkSafety => [](WalkLeft \in 0 .. WalkLimit - 1) /\ [][WalkLeft' < WalkLeft]_walkSide
<1>1. WalkInit => TriesBounded
  BY DEF WalkInit, TriesBounded
<1>2. WalkerBounds /\ TriesBounded => WalkLeft \in 0 .. WalkLimit - 1
  BY DigitsInRange, LadderBound DEF WalkDigits, WalkLeft
<1>3. WalkerBounds /\ TriesBounded /\ WalkerBounds' /\ TriesBounded' /\ [WalkNext]_walkVars
        => [WalkLeft' < WalkLeft]_walkSide
  <2> SUFFICES ASSUME WalkerBounds, TriesBounded, WalkerBounds', TriesBounded',
                      [WalkNext]_walkVars, ~UNCHANGED walkSide
               PROVE  WalkLeft' < WalkLeft
    OBVIOUS
  <2>1. WalkStep
    BY DEF WalkNext, walkVars, PanelActs, Receive, ReaderFails
  <2> QED
    BY <2>1, WalkLeftFalls
<1>4. WalkInv => WalkTypes
  BY DEF WalkInv
<1> QED
  BY <1>1, <1>2, <1>3, <1>4, WalkerBoundsInitially, WalkerBoundsStep, TriesStep, WalkInitially,
     WalkSteps, PTL DEF WalkSafety

-----------------------------------------------------------------------------
(* The bytes of the line.                                                    *)

\* Nothing is lost and nothing is doubled between the PTY and the expectations.
Conserved == out = (taken \o received) \o unread

StepState == {"none", "reading", "matched", "failed", "sending", "sent", "closed"}

LineInv ==
  /\ out \in Seq(Byte) /\ unread \in Seq(Byte)
  /\ received \in Seq(Byte) /\ taken \in Seq(Byte)
  /\ step \in [state : StepState, want : Seq(Byte), got : Seq(Byte)]
  /\ step.state = "reading" => step.want \in Expected
  /\ Conserved

-----------------------------------------------------------------------------
(* Pieces of the stream.                                                     *)

LEMMA Cut ==
  ASSUME NEW s \in Seq(Byte), NEW n \in 0 .. Len(s)
  PROVE  /\ SubSeq(s, 1, n) \in Seq(Byte) /\ Len(SubSeq(s, 1, n)) = n
         /\ SubSeq(s, n + 1, Len(s)) \in Seq(Byte)
         /\ SubSeq(s, 1, n) \o SubSeq(s, n + 1, Len(s)) = s
<1>1. Len(s) \in Nat /\ \A i \in 1 .. Len(s) : s[i] \in Byte
  BY ElementOfSeq, LenProperties
<1>2. SubSeq(s, 1, n) \in Seq(Byte) /\ Len(SubSeq(s, 1, n)) = n
  BY <1>1, SubSeqProperties
<1>3. SubSeq(s, n + 1, Len(s)) \in Seq(Byte)
  BY <1>1, SubSeqProperties
<1>4. SubSeq(s, 1, n) \o SubSeq(s, n + 1, Len(s)) = SubSeq(s, 1, Len(s))
  <2>1. /\ 1 \in 1 .. Len(s) + 1 /\ n \in 1 - 1 .. Len(s) /\ Len(s) \in n .. Len(s)
    BY <1>1
  <2> QED
    BY <2>1, ConcatAdjacentSubSeq
<1> QED
  BY <1>2, <1>3, <1>4, SubSeqFull

LEMMA Beginning ==
  ASSUME NEW s \in Seq(Byte), NEW t \in Seq(Byte), s # <<>>
  PROVE  SubSeq(s \o t, 1, Len(s)) = s
<1>1. Len(s) \in Nat \ {0}
  BY EmptySeq, LenProperties
<1>2. SubSeq(s \o t, 1, Len(s)) = SubSeq(s, 1, Len(s))
  BY <1>1, SubSeqOfConcat1
<1> QED
  BY <1>2, SubSeqFull

\* s, then t, with the cut of t elsewhere.
LEMMA Regroup ==
  ASSUME NEW s \in Seq(Byte), NEW t \in Seq(Byte), NEW u \in Seq(Byte)
  PROVE  /\ s \o t \in Seq(Byte) /\ Len(s \o t) = Len(s) + Len(t)
         /\ (s \o t) \o u = s \o (t \o u)
BY ConcatProperties, ConcatAssociative

LEMMA Associative == \A s, t, u \in Seq(Byte) : (s \o t) \o u = s \o (t \o u)
<1>1. SUFFICES ASSUME NEW s \in Seq(Byte), NEW t \in Seq(Byte), NEW u \in Seq(Byte)
               PROVE  (s \o t) \o u = s \o (t \o u)
  OBVIOUS
<1> QED
  BY ConcatAssociative

-----------------------------------------------------------------------------
(* What an expectation hands over.                                           *)

\* bytes are those compared, rest those that stay in the PTY.
LEMMA HandsOver ==
  ASSUME LineInv, NEW bytes \in Seq(Byte), NEW rest \in Seq(Byte), NEW e \in Expected,
         Len(e) <= Len(bytes), Return(bytes, e),
         out = (taken \o bytes) \o rest, out' = out, unread' = rest
  PROVE  LineInv' /\ Stream!HandOver
<1> DEFINE first == SubSeq(bytes, 1, Len(e))
           left  == SubSeq(bytes, Len(e) + 1, Len(bytes))
<1>1. e \in Seq(Byte) /\ e # <<>>
  BY LineAssumption
<1>2. Len(e) \in Nat \ {0} /\ Len(e) \in 0 .. Len(bytes)
  BY <1>1, EmptySeq, LenProperties
<1>3. /\ first \in Seq(Byte) /\ Len(first) = Len(e) /\ left \in Seq(Byte)
      /\ first \o left = bytes
  BY <1>2, Cut
<1>4. taken' = taken \o first /\ received' = left /\ step' = [state |-> "matched", want |-> e, got |-> first]
  BY DEF Return
<1> HIDE DEF first, left
<1>5. /\ taken' \in Seq(Byte) /\ left \o rest \in Seq(Byte)
      /\ Len(taken') = Len(taken) + Len(first)
  BY <1>3, <1>4, Regroup DEF LineInv
<1>6. taken \o bytes = taken' \o left
  <2>1. taken \in Seq(Byte)
    BY DEF LineInv
  <2>2. (taken \o first) \o left = taken \o (first \o left)
    BY <1>3, <2>1, Associative, Zenon
  <2> QED
    BY <1>3, <1>4, <2>2
<1>7. out = (taken' \o left) \o rest
  BY <1>6
<1>8. LineInv'
  BY <1>1, <1>3, <1>4, <1>5, <1>7 DEF LineInv, Conserved, StepState
<1>9. out = taken' \o (left \o rest)
  <2>1. (taken' \o left) \o rest = taken' \o (left \o rest)
    <3>1. taken' \in Seq(Byte) /\ left \in Seq(Byte)
      BY <1>3, <1>5
    <3> QED
      BY <3>1, Associative, Zenon
  <2> QED
    BY <1>7, <2>1
<1>10. Len(taken) \in Nat /\ Len(out) = Len(taken') + Len(left \o rest)
       /\ Len(left \o rest) \in Nat
  <2>1. Len(taken' \o (left \o rest)) = Len(taken') + Len(left \o rest)
    BY <1>5, Regroup
  <2>2. Len(taken) \in Nat /\ Len(left \o rest) \in Nat
    BY <1>5, LenProperties DEF LineInv
  <2> QED
    BY <1>9, <2>1, <2>2
<1>11. Len(taken') \in Len(taken) + 1 .. Len(out)
  BY <1>2, <1>3, <1>5, <1>10
<1>12. taken' # <<>>
  BY <1>2, <1>3, <1>5, <1>10, EmptySeq
<1>13. taken' = SubSeq(out, 1, Len(taken'))
  BY <1>5, <1>9, <1>12, Beginning
<1>14. Stream!HandOver
  BY <1>11, <1>13 DEF Stream!HandOver
<1> QED
  BY <1>8, <1>14

-----------------------------------------------------------------------------
\* Every step of the line is one of the stream, or none.
StreamStep == [Stream!Arrive \/ Stream!HandOver]_(Stream!streamVars)

LEMMA LineStep ==
  ASSUME LineInv, [LineNext]_lineVars
  PROVE  LineInv' /\ StreamStep
<1>1. CASE Write
  <2>1. PICK b \in Byte : out' = Append(out, b) /\ unread' = Append(unread, b)
    BY <1>1 DEF Write
  <2>2. UNCHANGED <<received, step, taken>>
    BY <1>1 DEF Write
  <2>3. Stream!Arrive
    BY <2>1, <2>2 DEF Stream!Arrive
  <2>4. out' \in Seq(Byte) /\ unread' \in Seq(Byte)
    BY <2>1, AppendProperties DEF LineInv
  <2>5. <<b>> \in Seq(Byte) /\ out' = out \o <<b>> /\ unread' = unread \o <<b>>
    BY <2>1, AppendIsConcat DEF LineInv
  <2>6. taken \o received \in Seq(Byte)
    BY Regroup DEF LineInv
  <2>7. out' = (taken \o received) \o unread'
    <3>1. unread \in Seq(Byte)
      BY DEF LineInv
    <3>2. ((taken \o received) \o unread) \o <<b>> = (taken \o received) \o (unread \o <<b>>)
      BY <2>5, <2>6, <3>1, Regroup
    <3> QED
      BY <2>5, <3>2 DEF LineInv, Conserved
  <2> QED
    BY <2>2, <2>3, <2>4, <2>7 DEF LineInv, Conserved, StreamStep
<1>2. CASE Expect
  <2>1. PICK e \in Expected :
           IF Len(received) < Len(e)
           THEN step' = [state |-> "reading", want |-> e, got |-> <<>>]
                /\ UNCHANGED <<received, taken>>
           ELSE Return(received, e)
    BY <1>2 DEF Expect
  <2>2. UNCHANGED <<out, unread>>
    BY <1>2 DEF Expect
  <2>3. CASE Len(received) < Len(e)
    <3>1. step' \in [state : StepState, want : Seq(Byte), got : Seq(Byte)]
      <4>1. e \in Seq(Byte) /\ <<>> \in Seq(Byte)
        BY LineAssumption, EmptySeq
      <4>2. step' = [state |-> "reading", want |-> e, got |-> <<>>]
        BY <2>1, <2>3
      <4> QED
        BY <4>1, <4>2 DEF StepState
    <3> QED
      BY <2>1, <2>2, <2>3, <3>1 DEF LineInv, Conserved, StreamStep, Stream!streamVars
  <2>4. CASE ~(Len(received) < Len(e))
    <3>1. Len(e) <= Len(received)
      BY <2>4, LineAssumption, LenProperties DEF LineInv
    <3>2. LineInv' /\ Stream!HandOver
      BY <2>1, <2>2, <2>4, <3>1, HandsOver DEF LineInv, Conserved
    <3> QED
      BY <3>2 DEF StreamStep
  <2> QED
    BY <2>3, <2>4
<1>3. CASE Read
  <2>1. PICK n \in DOMAIN unread :
           LET bytes == received \o SubSeq(unread, 1, n) IN
           /\ unread' = SubSeq(unread, n + 1, Len(unread))
           /\ \/ /\ step' = [step EXCEPT !.state = "failed"]
                 /\ received' = bytes /\ UNCHANGED taken
              \/ received' = bytes /\ UNCHANGED <<step, taken>>
              \/ Len(bytes) >= Len(step.want) /\ Return(bytes, step.want)
    BY <1>3 DEF Read
  <2> DEFINE chunk == SubSeq(unread, 1, n)
             rest  == SubSeq(unread, n + 1, Len(unread))
             bytes == received \o chunk
  <2>2. UNCHANGED out /\ step.want \in Expected
    BY <1>3 DEF Read, LineInv
  <2>3. n \in 0 .. Len(unread)
    BY LenProperties DEF LineInv
  <2>4. chunk \in Seq(Byte) /\ rest \in Seq(Byte) /\ chunk \o rest = unread
    BY <2>3, Cut DEF LineInv
  <2> HIDE DEF chunk, rest
  <2>5. bytes \in Seq(Byte) /\ taken \o bytes \in Seq(Byte)
    BY <2>4, Regroup DEF LineInv
  <2>6. taken \o bytes = (taken \o received) \o chunk
    <3>1. taken \in Seq(Byte) /\ received \in Seq(Byte)
      BY DEF LineInv
    <3>2. (taken \o received) \o chunk = taken \o (received \o chunk)
      BY <2>4, <3>1, Associative, Zenon
    <3> QED
      BY <3>2, Zenon DEF bytes
  <2>7. out = (taken \o bytes) \o rest
    <3>1. taken \o received \in Seq(Byte)
      BY Regroup DEF LineInv
    <3>2. ((taken \o received) \o chunk) \o rest = (taken \o received) \o (chunk \o rest)
      BY <2>4, <3>1, Regroup
    <3> QED
      BY <2>4, <2>6, <3>2 DEF LineInv, Conserved
  <2> HIDE DEF bytes
  <2>8. CASE received' = bytes /\ UNCHANGED taken /\
             (UNCHANGED step \/ step' = [step EXCEPT !.state = "failed"])
    <3>1. unread' = rest
      BY <2>1 DEF rest
    <3>2. /\ step'.state = "reading" => step'.want \in Expected
          /\ step' \in [state : StepState, want : Seq(Byte), got : Seq(Byte)]
      BY <2>8 DEF LineInv, StepState
    <3> QED
      BY <2>2, <2>4, <2>5, <2>7, <2>8, <3>1, <3>2
         DEF LineInv, Conserved, StreamStep, Stream!streamVars
  <2>9. CASE Len(bytes) >= Len(step.want) /\ Return(bytes, step.want)
    <3>1. unread' = rest
      BY <2>1 DEF rest
    <3>2. Len(step.want) <= Len(bytes)
      BY <2>2, <2>5, <2>9, LineAssumption, LenProperties
    <3>3. LineInv' /\ Stream!HandOver
      BY <2>2, <2>4, <2>5, <2>7, <2>9, <3>1, <3>2, HandsOver
    <3> QED
      BY <3>3 DEF StreamStep
  <2> QED
    BY <2>1, <2>8, <2>9 DEF bytes, chunk
<1>4. CASE ExpectTimesOut \/ Send \/ WriteSome \/ SendTimesOut \/ Close
  <2>1. UNCHANGED <<out, unread, received, taken>>
    BY <1>4 DEF ExpectTimesOut, Send, WriteSome, SendTimesOut, Close
  <2>2. /\ step'.state # "reading" \/ UNCHANGED step
        /\ step' \in [state : StepState, want : Seq(Byte), got : Seq(Byte)]
    <3>1. CASE Send
      BY <3>1, EmptySeq DEF Send, NoStep, StepState
    <3>2. CASE ExpectTimesOut \/ SendTimesOut \/ Close
      BY <3>2 DEF ExpectTimesOut, SendTimesOut, Close, LineInv, StepState
    <3>3. CASE WriteSome
      <4>1. \E end \in {"sending", "sent"} : step' = [step EXCEPT !.state = end]
        BY <3>3 DEF WriteSome
      <4> QED
        BY <4>1 DEF LineInv, StepState
    <3> QED
      BY <1>4, <3>1, <3>2, <3>3
  <2> QED
    BY <2>1, <2>2 DEF LineInv, Conserved, StreamStep, Stream!streamVars
<1>5. CASE UNCHANGED lineVars
  BY <1>5 DEF lineVars, LineInv, Conserved, StreamStep, Stream!streamVars
<1> QED
  BY <1>1, <1>2, <1>3, <1>4, <1>5 DEF LineNext

\* What expectations return is what AqualinkD wrote, in order, none lost and none
\* twice, for payloads of any length, any number of steps and any cuts by the reads.
THEOREM LineIsStream == LineSpec => IsStream
<1>1. LineInit => LineInv
  BY EmptySeq, ConcatEmptySeq DEF LineInit, LineInv, Conserved, NoStep, StepState
<1>2. LineInit => Stream!StreamInit
  BY DEF LineInit, Stream!StreamInit
<1>3. LineInv /\ [LineNext]_lineVars => LineInv' /\ StreamStep
  BY LineStep
<1> QED
  BY <1>1, <1>2, <1>3, PTL DEF LineSpec, IsStream, Stream!StreamSpec, StreamStep

-----------------------------------------------------------------------------
(* The end of a frame.                                                       *)

\* f is the search of FrameEnd at position i of b.
Seeks(f, b, i) ==
  f[i] = IF i + 1 > Len(b) THEN 0
         ELSE IF b[i] # DLE THEN f[i + 1]
         ELSE IF b[i + 1] = DLE THEN f[i + 2]
         ELSE IF b[i + 1] = ETX THEN i + 1 ELSE f[i + 1]

LEMMA Sought ==
  ASSUME NEW b \in Seq(Byte)
  PROVE  \E f : /\ f = [i \in 1 .. Len(b) + 2 |-> f[i]]
                /\ \A i \in 1 .. Len(b) + 2 : Seeks(f, b, i)
<1> DEFINE n == Len(b) + 2
           Known(f, m) == \A i \in 1 .. n : i > n - m => Seeks(f, b, i)
           T == {m \in 0 .. n : ~\E f : Known(f, m)}
<1>0. Len(b) \in Nat /\ n \in Nat
  BY LenProperties
<1>1. SUFFICES ASSUME T # {} PROVE FALSE
  <2>1. SUFFICES ASSUME T = {}
                 PROVE  \E f : /\ f = [i \in 1 .. n |-> f[i]]
                               /\ \A i \in 1 .. n : Seeks(f, b, i)
    BY <1>1
  <2>2. PICK f : Known(f, n)
    <3>1. n \in 0 .. n
      BY <1>0
    <3> HIDE DEF Known, n
    <3> QED
      BY <2>1, <3>1
  <2> DEFINE g == [i \in 1 .. n |-> f[i]]
  <2>3. ASSUME NEW i \in 1 .. n PROVE Seeks(g, b, i)
    <3>1. Seeks(f, b, i) /\ g[i] = f[i]
      BY <1>0, <2>2
    <3>2. i + 1 <= Len(b) => g[i + 1] = f[i + 1] /\ g[i + 2] = f[i + 2]
      BY <1>0
    <3> HIDE DEF g
    <3> QED
      BY <1>0, <3>1, <3>2 DEF Seeks
  <2>4. g = [i \in 1 .. n |-> g[i]]
    OBVIOUS
  <2> HIDE DEF g
  <2> QED
    BY <2>3, <2>4
<1>2. PICK m \in T : \A e \in T : m <= e
  <2>1. T \subseteq Nat
    BY <1>0
  <2> HIDE DEF T
  <2> QED
    BY <1>1, <2>1, LeastNumber
<1>3. m # 0
  <2>1. Known(<<>>, 0)
    BY <1>0
  <2> HIDE DEF Known
  <2> QED
    BY <1>2, <2>1
<1>4. m - 1 \in 0 .. n /\ ~(m <= m - 1) /\ m \in 1 .. n
  BY <1>0, <1>2, <1>3
<1>5. PICK f : Known(f, m - 1)
  <2> HIDE DEF Known
  <2> QED
    BY <1>2, <1>4
<1> DEFINE k == n - (m - 1)
           new == IF k + 1 > Len(b) THEN 0
                  ELSE IF b[k] # DLE THEN f[k + 1]
                  ELSE IF b[k + 1] = DLE THEN f[k + 2]
                  ELSE IF b[k + 1] = ETX THEN k + 1 ELSE f[k + 1]
           g == [i \in 1 .. n |-> IF i = k THEN new ELSE f[i]]
<1>6. k \in 1 .. n
  BY <1>0, <1>4
<1>7. ASSUME NEW i \in 1 .. n, i > n - m PROVE Seeks(g, b, i)
  <2>1. i = k \/ i > k
    BY <1>0, <1>4, <1>7
  <2>2. i + 1 <= Len(b) => /\ g[i + 1] = f[i + 1] /\ g[i + 2] = f[i + 2]
    <3>1. SUFFICES ASSUME i + 1 <= Len(b) PROVE g[i + 1] = f[i + 1] /\ g[i + 2] = f[i + 2]
      OBVIOUS
    <3>2. i + 1 \in 1 .. n /\ i + 2 \in 1 .. n /\ i + 1 # k /\ i + 2 # k
      BY <1>0, <1>6, <2>1, <3>1
    <3> HIDE DEF k, new, n
    <3> QED
      BY <3>2
  <2>3. CASE i = k
    <3>1. g[i] = new
      BY <1>6, <2>3
    <3> HIDE DEF g, k, n
    <3> QED
      BY <1>0, <1>6, <2>2, <2>3, <3>1 DEF Seeks
  <2>4. CASE i > k
    <3>1. Seeks(f, b, i)
      BY <1>5, <2>4, <1>6, <1>0, <1>4
    <3>2. g[i] = f[i]
      BY <2>4, <1>6
    <3> HIDE DEF g, k, n, new
    <3> QED
      BY <1>0, <2>2, <3>1, <3>2 DEF Seeks
  <2> QED
    BY <2>1, <2>3, <2>4
<1>8. Known(g, m)
  <2> HIDE DEF g
  <2> QED
    BY <1>7
<1> HIDE DEF Known, g
<1> QED
  BY <1>2, <1>8

LEMMA EndSought ==
  ASSUME NEW b \in Seq(Byte), b # <<>>
  PROVE  \E f : FrameEnd(b) = f[3] /\ \A i \in 1 .. Len(b) + 2 : Seeks(f, b, i)
<1> DEFINE Whole(f) == f = [i \in 1 .. Len(b) + 2 |->
                             IF i + 1 > Len(b) THEN 0
                             ELSE IF b[i] # DLE THEN f[i + 1]
                             ELSE IF b[i + 1] = DLE THEN f[i + 2]
                             ELSE IF b[i + 1] = ETX THEN i + 1 ELSE f[i + 1]]
<1>1. PICK h : /\ h = [i \in 1 .. Len(b) + 2 |-> h[i]]
               /\ \A i \in 1 .. Len(b) + 2 : Seeks(h, b, i)
  BY Sought
<1>2. Whole(h)
  BY <1>1 DEF Seeks
<1>3. FrameEnd(b) = (CHOOSE f : Whole(f))[3]
  BY DEF FrameEnd
<1>4. Whole(CHOOSE f : Whole(f))
  <2> HIDE DEF Whole
  <2> QED
    BY <1>2
<1> DEFINE f == CHOOSE g : Whole(g)
<1>5. Whole(f)
  BY <1>4
<1> HIDE DEF f
<1>6. \A i \in 1 .. Len(b) + 2 : Seeks(f, b, i)
  BY <1>5 DEF Seeks
<1> QED
  BY <1>3, <1>6 DEF f

\* A frame ends behind its start, and what comes after it does not change that.
LEMMA EndStays ==
  ASSUME NEW b \in Seq(Byte), NEW c \in Seq(Byte), b # <<>>
  PROVE  /\ FrameEnd(b) \in Nat
         /\ FrameEnd(b) # 0 => /\ FrameEnd(b) \in 4 .. Len(b)
                               /\ FrameEnd(b \o c) = FrameEnd(b)
<1> DEFINE n == Len(b) + 2
           d == b \o c
<1>1. /\ Len(b) \in Nat /\ Len(b) > 0 /\ d \in Seq(Byte) /\ Len(d) \in Nat /\ Len(b) <= Len(d) /\ d # <<>>
      /\ \A i \in 1 .. Len(b) : d[i] = b[i]
  <2>1. Len(b) \in Nat /\ Len(b) # 0
    BY LenProperties, EmptySeq
  <2>2. d \in Seq(Byte) /\ Len(d) = Len(b) + Len(c) /\ Len(c) \in Nat
        /\ \A i \in 1 .. Len(b) : d[i] = b[i]
    BY ConcatParts
  <2> HIDE DEF d
  <2> QED
    BY <2>1, <2>2
<1> HIDE DEF d
<1>2. PICK f : FrameEnd(b) = f[3] /\ \A i \in 1 .. n : Seeks(f, b, i)
  BY EndSought
<1>3. PICK g : FrameEnd(d) = g[3] /\ \A i \in 1 .. Len(d) + 2 : Seeks(g, d, i)
  BY <1>1, EndSought
<1> DEFINE Good(i) == f[i] = 0 \/ (f[i] \in i + 1 .. Len(b) /\ g[i] = f[i])
           T == {k \in 0 .. n : n - k >= 1 /\ ~Good(n - k)}
<1>4. ASSUME NEW i \in 1 .. n, i + 1 <= n => Good(i + 1), i + 2 <= n => Good(i + 2)
      PROVE  Good(i)
  <2>1. CASE i + 1 > Len(b)
    BY <1>2, <2>1 DEF Seeks
  <2>2. CASE i + 1 <= Len(b)
    <3>1. d[i] = b[i] /\ d[i + 1] = b[i + 1] /\ i + 1 <= Len(d) /\ i \in 1 .. Len(d) + 2
          /\ i + 1 <= n /\ i + 2 <= n
      BY <1>1, <2>2
    <3>2. Seeks(f, b, i) /\ Seeks(g, d, i)
      BY <1>2, <1>3, <3>1
    <3>3. Good(i + 1) /\ Good(i + 2)
      BY <1>4, <3>1
    <3> QED
      BY <1>1, <2>2, <3>1, <3>2, <3>3 DEF Seeks
  <2> QED
    BY <1>1, <2>1, <2>2
<1>5. T = {}
  <2>1. SUFFICES ASSUME T # {} PROVE FALSE
    OBVIOUS
  <2>2. PICK k \in T : \A e \in T : k <= e
    <3>1. T \subseteq Nat
      OBVIOUS
    <3> HIDE DEF T
    <3> QED
      BY <2>1, <3>1, LeastNumber
  <2> DEFINE i == n - k
  <2>3. i \in 1 .. n /\ ~Good(i) /\ k \in 0 .. n
    <3> HIDE DEF Good
    <3> QED
      BY <1>1, <2>2
  <2>4. i + 1 <= n => Good(i + 1)
    <3>1. SUFFICES ASSUME i + 1 <= n PROVE Good(n - (k - 1))
      <4>1. i + 1 = n - (k - 1)
        BY <1>1, <2>3
      <4> QED
        BY <4>1
    <3>2. k - 1 \in 0 .. n /\ n - (k - 1) >= 1 /\ ~(k <= k - 1)
      BY <1>1, <2>3, <3>1
    <3> HIDE DEF Good
    <3> QED
      BY <2>2, <3>2
  <2>5. i + 2 <= n => Good(i + 2)
    <3>1. SUFFICES ASSUME i + 2 <= n PROVE Good(n - (k - 2))
      <4>1. i + 2 = n - (k - 2)
        BY <1>1, <2>3
      <4> QED
        BY <4>1
    <3>2. k - 2 \in 0 .. n /\ n - (k - 2) >= 1 /\ ~(k <= k - 2)
      BY <1>1, <2>3, <3>1
    <3> HIDE DEF Good
    <3> QED
      BY <2>2, <3>2
  <2> HIDE DEF i, Good, n
  <2> QED
    BY <1>4, <2>3, <2>4, <2>5
<1>6. Good(3)
  <2>1. n - 3 \in 0 .. n /\ n - (n - 3) = 3
    BY <1>1
  <2> HIDE DEF Good, n
  <2> QED
    BY <1>5, <2>1
<1> QED
  BY <1>1, <1>2, <1>3, <1>6 DEF d

-----------------------------------------------------------------------------
(* The recursion of feed.                                                    *)

FirstStart(b) == CHOOSE i \in Starts(b) : \A j \in Starts(b) : i <= j
This(b) == SubSeq(b, FirstStart(b), Len(b))
FirstFrame(b) == SubSeq(This(b), 1, FrameEnd(This(b)))
Beyond(b) == SubSeq(This(b), FrameEnd(This(b)) + 1, Len(This(b)))

HasFrame(b) == Starts(b) # {} /\ FrameEnd(This(b)) # 0

FrameThen(f, q) == <<f>> \o q

\* What feed does with b, if F is what it does with what is beyond the first frame.
Parse(F, b) ==
  IF Starts(b) = {}
  THEN [frames |-> <<>>, rest |-> IF b # <<>> /\ Last(b) = DLE THEN <<DLE>> ELSE <<>>]
  ELSE IF FrameEnd(This(b)) = 0 THEN [frames |-> <<>>, rest |-> This(b)]
  ELSE [frames |-> FrameThen(FirstFrame(b), F[Beyond(b)].frames), rest |-> F[Beyond(b)].rest]

LEMMA ParseAlike ==
  ASSUME NEW b, NEW F, NEW G, HasFrame(b) => F[Beyond(b)] = G[Beyond(b)]
  PROVE  Parse(F, b) = Parse(G, b)
BY DEF Parse, HasFrame

LEMMA ThisParts ==
  ASSUME NEW b \in Seq(Byte), Starts(b) # {}
  PROVE  /\ FirstStart(b) \in Starts(b) /\ \A j \in Starts(b) : FirstStart(b) <= j
         /\ FirstStart(b) \in 1 .. Len(b) - 1 /\ Len(b) \in Nat
         /\ This(b) \in Seq(Byte) /\ Len(This(b)) = Len(b) - FirstStart(b) + 1 /\ This(b) # <<>>
         /\ \A i \in 1 .. Len(This(b)) : This(b)[i] = b[FirstStart(b) + i - 1]
<1>1. Len(b) \in Nat /\ Starts(b) \subseteq 1 .. Len(b) - 1 /\ \A i \in 1 .. Len(b) : b[i] \in Byte
  BY ElementOfSeq, LenProperties DEF Starts
<1>2. FirstStart(b) \in Starts(b) /\ \A j \in Starts(b) : FirstStart(b) <= j
  <2>1. \E i \in Starts(b) : \A j \in Starts(b) : i <= j
    BY <1>1, LeastNumber
  <2> QED
    BY <2>1 DEF FirstStart
<1> DEFINE s == FirstStart(b)
<1>3. s \in 1 .. Len(b) - 1
  BY <1>1, <1>2
<1> HIDE DEF s
<1>4. /\ SubSeq(b, s, Len(b)) \in Seq(Byte) /\ Len(SubSeq(b, s, Len(b))) = Len(b) - s + 1
      /\ \A i \in 1 .. Len(b) - s + 1 : SubSeq(b, s, Len(b))[i] = b[s + i - 1]
  <2>1. \A i \in s .. Len(b) : b[i] \in Byte
    BY <1>1, <1>3
  <2> QED
    BY <1>1, <1>3, <2>1, SubSeqProperties
<1>5. This(b) = SubSeq(b, s, Len(b))
  BY DEF This, s
<1>6. This(b) # <<>>
  <2>1. Len(This(b)) # 0
    BY <1>1, <1>3, <1>4, <1>5
  <2> QED
    BY <2>1, EmptySeq
<1> QED
  BY <1>1, <1>2, <1>3, <1>4, <1>5, <1>6 DEF s

LEMMA BeyondShorter ==
  ASSUME NEW b \in Seq(Byte), HasFrame(b)
  PROVE  /\ Beyond(b) \in Seq(Byte) /\ Len(Beyond(b)) \in Nat /\ Len(Beyond(b)) < Len(b)
         /\ Len(b) \in Nat /\ FirstFrame(b) \in Seq(Byte)
         /\ FirstFrame(b) \o Beyond(b) = This(b)
         /\ FrameEnd(This(b)) \in 4 .. Len(This(b))
<1>1. Starts(b) # {} /\ FrameEnd(This(b)) # 0
  BY DEF HasFrame
<1>2. This(b) \in Seq(Byte) /\ This(b) # <<>> /\ Len(This(b)) \in Nat /\ Len(This(b)) <= Len(b) /\ Len(b) \in Nat
  BY <1>1, ThisParts
<1>3. FrameEnd(This(b)) \in 4 .. Len(This(b))
  <2>1. <<>> \in Seq(Byte)
    BY EmptySeq
  <2> QED
    BY <1>1, <1>2, <2>1, EndStays
<1> DEFINE t == This(b)
           e == FrameEnd(t)
<1>4. e \in 0 .. Len(t) /\ e \in 4 .. Len(t)
  BY <1>2, <1>3
<1>5. Len(Beyond(b)) = Len(t) - e
  BY <1>2, <1>4 DEF Beyond
<1>6. /\ FirstFrame(b) \in Seq(Byte) /\ Beyond(b) \in Seq(Byte)
      /\ FirstFrame(b) \o Beyond(b) = t
  BY <1>2, <1>4, Cut DEF FirstFrame, Beyond
<1> QED
  BY <1>2, <1>4, <1>5, <1>6

\* F satisfies the equation of Feed for what is shorter than n.
Feeds(F, n) == \A b \in Seq(Byte) : Len(b) < n => F[b] = Parse(F, b)

LEMMA FeedsExist == ASSUME NEW n \in Nat PROVE \E F : Feeds(F, n)
<1> DEFINE T == {m \in Nat : ~\E F : Feeds(F, m)}
<1>1. SUFFICES ASSUME T # {} PROVE FALSE
  OBVIOUS
<1>2. PICK m \in T : \A e \in T : m <= e
  BY <1>1, LeastNumber
<1>3. m # 0
  <2>1. Feeds(<<>>, 0)
    BY LenProperties DEF Feeds
  <2> QED
    BY <2>1
<1>4. m - 1 \in Nat /\ ~(m <= m - 1)
  BY <1>3
<1>5. PICK F : Feeds(F, m - 1)
  BY <1>2, <1>4
<1> DEFINE G == [b \in Seq(Byte) |-> IF Len(b) < m - 1 THEN F[b] ELSE Parse(F, b)]
<1>6. ASSUME NEW b \in Seq(Byte), Len(b) < m PROVE G[b] = Parse(G, b)
  <2>1. G[b] = Parse(F, b)
    BY <1>5 DEF Feeds
  <2>2. HasFrame(b) => F[Beyond(b)] = G[Beyond(b)]
    <3>1. HasFrame(b) => Beyond(b) \in Seq(Byte) /\ Len(Beyond(b)) < m - 1
      BY <1>6, BeyondShorter
    <3> QED
      BY <3>1
  <2> HIDE DEF G
  <2> QED
    BY <2>1, <2>2, ParseAlike
<1> HIDE DEF G
<1>7. Feeds(G, m)
  BY <1>6 DEF Feeds
<1> QED
  BY <1>2, <1>7

LEMMA FeedsAgree ==
  ASSUME NEW n \in Nat, NEW F, NEW G, Feeds(F, n), Feeds(G, n)
  PROVE  \A b \in Seq(Byte) : Len(b) < n => F[b] = G[b]
<1> DEFINE T == {k \in Nat : \E b \in Seq(Byte) : Len(b) = k /\ k < n /\ F[b] # G[b]}
<1>1. SUFFICES ASSUME T # {} PROVE FALSE
  <2>1. \A b \in Seq(Byte) : Len(b) \in Nat
    BY LenProperties
  <2> QED
    BY <1>1, <2>1
<1>2. PICK k \in T : \A e \in T : k <= e
  BY <1>1, LeastNumber
<1>3. PICK b \in Seq(Byte) : Len(b) = k /\ k < n /\ F[b] # G[b]
  BY <1>2
<1>4. ~(HasFrame(b) => F[Beyond(b)] = G[Beyond(b)])
  <2>1. F[b] = Parse(F, b) /\ G[b] = Parse(G, b)
    BY <1>3 DEF Feeds
  <2> QED
    BY <1>3, <2>1, ParseAlike
<1>5. Beyond(b) \in Seq(Byte) /\ Len(Beyond(b)) < k /\ Len(Beyond(b)) \in Nat
  BY <1>3, <1>4, BeyondShorter
<1>6. Len(Beyond(b)) \in T /\ k \in Nat
  BY <1>2, <1>3, <1>4, <1>5
<1> HIDE DEF T
<1> QED
  BY <1>2, <1>5, <1>6

\* Feed is well defined.
LEMMA FeedParses == ASSUME NEW b \in Seq(Byte) PROVE Feed[b] = Parse(Feed, b)
<1> DEFINE Whole(F) == F = [a \in Seq(Byte) |-> Parse(F, a)]
           Of(a) == CHOOSE F : Feeds(F, Len(a) + 1)
           H == [a \in Seq(Byte) |-> Of(a)[a]]
<1>1. ASSUME NEW a \in Seq(Byte) PROVE Feeds(Of(a), Len(a) + 1)
  <2>1. Len(a) + 1 \in Nat
    BY LenProperties
  <2> QED
    BY <2>1, FeedsExist
<1> HIDE DEF Of
<1>2. ASSUME NEW a \in Seq(Byte) PROVE H[a] = Parse(H, a)
  <2>1. H[a] = Parse(Of(a), a)
    BY <1>1, LenProperties DEF Feeds
  <2>2. HasFrame(a) => Of(a)[Beyond(a)] = H[Beyond(a)]
    <3>1. SUFFICES ASSUME HasFrame(a) PROVE Of(a)[Beyond(a)] = H[Beyond(a)]
      OBVIOUS
    <3> DEFINE c == Beyond(a)
    <3>2. c \in Seq(Byte) /\ Len(c) \in Nat /\ Len(a) \in Nat /\ Len(c) < Len(a)
      BY <3>1, BeyondShorter
    <3> HIDE DEF c
    <3>3. Feeds(Of(c), Len(c) + 1) /\ Feeds(Of(a), Len(c) + 1)
      <4>1. Feeds(Of(c), Len(c) + 1) /\ Feeds(Of(a), Len(a) + 1)
        BY <1>1, <3>2
      <4> QED
        BY <3>2, <4>1, LenProperties DEF Feeds
    <3>4. Of(a)[c] = Of(c)[c]
      BY <3>2, <3>3, FeedsAgree
    <3>5. H[c] = Of(c)[c]
      BY <3>2
    <3> QED
      BY <3>4, <3>5 DEF c
  <2> HIDE DEF H
  <2> QED
    BY <2>1, <2>2, ParseAlike
<1>3. Whole(H)
  <2>1. H = [a \in Seq(Byte) |-> H[a]]
    OBVIOUS
  <2> HIDE DEF H
  <2> QED
    BY <1>2, <2>1
<1>4. Feed = CHOOSE F : Whole(F)
  BY DEF Feed, Parse, FrameThen, This, FirstStart, FirstFrame, Beyond
<1>5. Whole(Feed)
  <2> HIDE DEF Whole
  <2> QED
    BY <1>3, <1>4
<1> QED
  BY <1>5

\* The two cases in which nothing is cut off, and the one in which a frame is.
LEMMA FeedCases ==
  ASSUME NEW b \in Seq(Byte)
  PROVE  /\ Starts(b) = {} =>
              /\ Feed[b].frames = <<>>
              /\ Feed[b].rest = IF b # <<>> /\ Last(b) = DLE THEN <<DLE>> ELSE <<>>
         /\ Starts(b) # {} /\ FrameEnd(This(b)) = 0 =>
              Feed[b].frames = <<>> /\ Feed[b].rest = This(b)
         /\ HasFrame(b) => /\ Feed[b].frames = FrameThen(FirstFrame(b), Feed[Beyond(b)].frames)
                           /\ Feed[b].rest = Feed[Beyond(b)].rest
<1>1. Feed[b] = Parse(Feed, b)
  BY FeedParses
<1>2. CASE Starts(b) = {}
  <2> DEFINE r == IF b # <<>> /\ Last(b) = DLE THEN <<DLE>> ELSE <<>>
  <2>1. Feed[b] = [frames |-> <<>>, rest |-> r]
    BY <1>1, <1>2 DEF Parse
  <2>2. ~HasFrame(b)
    BY <1>2 DEF HasFrame
  <2> HIDE DEF r
  <2>3. Feed[b].frames = <<>> /\ Feed[b].rest = r
    BY <2>1
  <2> QED
    BY <1>2, <2>2, <2>3 DEF r
<1>3. CASE Starts(b) # {} /\ FrameEnd(This(b)) = 0
  <2>1. Feed[b] = [frames |-> <<>>, rest |-> This(b)]
    BY <1>1, <1>3 DEF Parse
  <2>2. ~HasFrame(b)
    BY <1>3 DEF HasFrame
  <2>3. Feed[b].frames = <<>> /\ Feed[b].rest = This(b)
    BY <2>1
  <2> QED
    BY <1>3, <2>2, <2>3
<1>4. CASE HasFrame(b)
  <2> DEFINE fs == FrameThen(FirstFrame(b), Feed[Beyond(b)].frames)
             r == Feed[Beyond(b)].rest
  <2>1. Feed[b] = [frames |-> fs, rest |-> r]
    BY <1>1, <1>4 DEF Parse, HasFrame
  <2> HIDE DEF fs, r
  <2>2. Feed[b].frames = fs /\ Feed[b].rest = r
    BY <2>1
  <2> QED
    BY <1>4, <2>2 DEF HasFrame, fs, r
<1> QED
  BY <1>2, <1>3, <1>4 DEF HasFrame

LEMMA FeedType ==
  ASSUME NEW b \in Seq(Byte)
  PROVE  Feed[b].frames \in Seq(Seq(Byte)) /\ Feed[b].rest \in Seq(Byte)
<1> DEFINE Good(a) == Feed[a].frames \in Seq(Seq(Byte)) /\ Feed[a].rest \in Seq(Byte)
           T == {k \in Nat : \E a \in Seq(Byte) : Len(a) = k /\ ~Good(a)}
<1>1. SUFFICES ASSUME T # {} PROVE FALSE
  <2>1. Len(b) \in Nat
    BY LenProperties
  <2> QED
    BY <1>1, <2>1
<1>2. PICK k \in T : \A e \in T : k <= e
  <2> HIDE DEF T
  <2>1. T \subseteq Nat
    BY DEF T
  <2> QED
    BY <1>1, <2>1, LeastNumber
<1>3. PICK a \in Seq(Byte) : Len(a) = k /\ ~Good(a)
  BY <1>2
<1>4. HasFrame(a)
  <2>1. Starts(a) # {} => This(a) \in Seq(Byte)
    BY ThisParts
  <2>2. DLE \in Byte
    BY DEF Byte
  <2>3. <<>> \in Seq(Byte) /\ <<DLE>> \in Seq(Byte) /\ <<>> \in Seq(Seq(Byte))
    BY <2>2
  <2> QED
    BY <1>3, <2>1, <2>3, FeedCases DEF HasFrame
<1>5. Beyond(a) \in Seq(Byte) /\ Len(Beyond(a)) < k /\ Len(Beyond(a)) \in Nat /\ FirstFrame(a) \in Seq(Byte)
  BY <1>3, <1>4, BeyondShorter
<1>6. Good(Beyond(a))
  <2>1. k \in Nat
    BY <1>2
  <2> HIDE DEF Good
  <2> QED
    BY <1>2, <1>5, <2>1
<1>7. Good(a)
  <2>1. \A f \in Seq(Byte), q \in Seq(Seq(Byte)) : FrameThen(f, q) \in Seq(Seq(Byte))
    BY DEF FrameThen
  <2> QED
    BY <1>4, <1>5, <1>6, <2>1, FeedCases
<1> QED
  BY <1>3, <1>7

\* Two sequences with the same bytes from their first starts on are fed alike.
LEMMA SameThis ==
  ASSUME NEW a \in Seq(Byte), NEW b \in Seq(Byte), Starts(a) # {}, Starts(b) # {}, This(a) = This(b)
  PROVE  Feed[a].frames = Feed[b].frames /\ Feed[a].rest = Feed[b].rest
<1>1. FirstFrame(a) = FirstFrame(b) /\ Beyond(a) = Beyond(b)
  BY DEF FirstFrame, Beyond
<1> QED
  BY <1>1, FeedCases DEF HasFrame

\* What starts a frame in b \o c, and does not in b, starts at the last byte of b or later.
LEMMA StartsOfConcat ==
  ASSUME NEW b \in Seq(Byte), NEW c \in Seq(Byte)
  PROVE  /\ b \o c \in Seq(Byte) /\ Len(b \o c) = Len(b) + Len(c) /\ Len(b) \in Nat /\ Len(c) \in Nat
         /\ Starts(b) \subseteq Starts(b \o c)
         /\ \A i \in Starts(b \o c) : i < Len(b) => i \in Starts(b)
<1> DEFINE d == b \o c
<1>1. /\ d \in Seq(Byte) /\ Len(d) = Len(b) + Len(c) /\ Len(b) \in Nat /\ Len(c) \in Nat
      /\ \A i \in 1 .. Len(b) : d[i] = b[i]
  BY ConcatParts
<1> HIDE DEF d
<1>2. ASSUME NEW i \in 1 .. Len(b) - 1
      PROVE  i \in 1 .. Len(d) - 1 /\ d[i] = b[i] /\ d[i + 1] = b[i + 1]
  <2>1. i \in 1 .. Len(b) /\ i + 1 \in 1 .. Len(b) /\ i \in 1 .. Len(d) - 1
    BY <1>1
  <2> QED
    BY <1>1, <2>1
<1>3. Starts(b) \subseteq Starts(d)
  <2> SUFFICES ASSUME NEW i \in Starts(b)
               PROVE  i \in Starts(d)
    OBVIOUS
  <2>1. i \in 1 .. Len(b) - 1 /\ b[i] = DLE /\ b[i + 1] = STX
    BY DEF Starts
  <2>2. i \in 1 .. Len(d) - 1 /\ d[i] = DLE /\ d[i + 1] = STX
    BY <1>2, <2>1
  <2> QED
    BY <2>2 DEF Starts
<1>4. ASSUME NEW i \in Starts(d), i < Len(b)
      PROVE  i \in Starts(b)
  <2>1. i \in 1 .. Len(d) - 1 /\ d[i] = DLE /\ d[i + 1] = STX
    BY DEF Starts
  <2>2. i \in 1 .. Len(b) - 1
    BY <1>1, <1>4, <2>1
  <2>3. b[i] = DLE /\ b[i + 1] = STX
    BY <1>2, <2>1, <2>2
  <2> QED
    BY <2>2, <2>3 DEF Starts
<1> QED
  BY <1>1, <1>3, <1>4 DEF d

\* More bytes come after the first start.
LEMMA ThisGrows ==
  ASSUME NEW b \in Seq(Byte), NEW c \in Seq(Byte), Starts(b) # {}
  PROVE  Starts(b \o c) # {} /\ This(b \o c) = This(b) \o c
<1> DEFINE d == b \o c
           t == This(b) \o c
           s == FirstStart(b)
<1>1. /\ d \in Seq(Byte) /\ Len(d) = Len(b) + Len(c) /\ Len(b) \in Nat /\ Len(c) \in Nat
      /\ \A i \in 1 .. Len(b) : d[i] = b[i]
      /\ \A i \in 1 .. Len(c) : d[Len(b) + i] = c[i]
  BY ConcatParts
<1>2. Starts(b) \subseteq Starts(d) /\ \A i \in Starts(d) : i < Len(b) => i \in Starts(b)
  BY StartsOfConcat
<1>3. /\ s \in Starts(b) /\ \A j \in Starts(b) : s <= j
      /\ s \in 1 .. Len(b) - 1
      /\ This(b) \in Seq(Byte) /\ Len(This(b)) = Len(b) - s + 1
      /\ \A i \in 1 .. Len(This(b)) : This(b)[i] = b[s + i - 1]
  BY ThisParts
<1>4. /\ t \in Seq(Byte) /\ Len(t) = Len(This(b)) + Len(c)
      /\ \A i \in 1 .. Len(This(b)) : t[i] = This(b)[i]
      /\ \A i \in 1 .. Len(c) : t[Len(This(b)) + i] = c[i]
  <2>1. This(b) \in Seq(Byte)
    BY <1>3
  <2> QED
    BY <2>1, ConcatParts
<1> HIDE DEF d, t, s
<1>5. /\ Starts(d) # {} /\ FirstStart(d) \in Starts(d) /\ \A j \in Starts(d) : FirstStart(d) <= j
      /\ FirstStart(d) \in 1 .. Len(d) - 1
      /\ This(d) \in Seq(Byte) /\ Len(This(d)) = Len(d) - FirstStart(d) + 1
      /\ \A i \in 1 .. Len(This(d)) : This(d)[i] = d[FirstStart(d) + i - 1]
  <2>1. Starts(d) # {}
    BY <1>2, <1>3
  <2> QED
    BY <1>1, <2>1, ThisParts
<1>6. FirstStart(d) = s
  <2>1. FirstStart(d) <= s /\ s < Len(b)
    BY <1>1, <1>2, <1>3, <1>5
  <2>2. s <= FirstStart(d)
    BY <1>1, <1>2, <1>3, <1>5, <2>1
  <2> QED
    BY <1>3, <1>5, <2>1, <2>2
<1>7. Len(This(d)) = Len(t)
  BY <1>1, <1>3, <1>4, <1>5, <1>6
<1>8. ASSUME NEW i \in 1 .. Len(t) PROVE This(d)[i] = t[i]
  <2>1. This(d)[i] = d[s + i - 1]
    BY <1>5, <1>6, <1>7
  <2>2. CASE i <= Len(This(b))
    <3>1. i \in 1 .. Len(This(b)) /\ s + i - 1 \in 1 .. Len(b)
      BY <1>1, <1>3, <2>2
    <3> QED
      BY <1>1, <1>3, <1>4, <2>1, <3>1
  <2>3. CASE i > Len(This(b))
    <3>1. i - Len(This(b)) \in 1 .. Len(c) /\ s + i - 1 = Len(b) + (i - Len(This(b)))
          /\ i = Len(This(b)) + (i - Len(This(b)))
      BY <1>1, <1>3, <1>4, <2>3
    <3>2. d[Len(b) + (i - Len(This(b)))] = c[i - Len(This(b))]
          /\ t[Len(This(b)) + (i - Len(This(b)))] = c[i - Len(This(b))]
      BY <1>1, <1>4, <3>1
    <3> QED
      BY <2>1, <3>1, <3>2
  <2> QED
    BY <1>1, <1>3, <1>4, <2>2, <2>3
<1>9. This(d) = t
  BY <1>4, <1>5, <1>7, <1>8, EqualSeqs
<1> QED
  BY <1>5, <1>9 DEF d, t

\* The first start of what begins with a start.
LEMMA ThisOfThis ==
  ASSUME NEW b \in Seq(Byte), Starts(b) # {}
  PROVE  Starts(This(b)) # {} /\ This(This(b)) = This(b)
<1> DEFINE t == This(b)
           s == FirstStart(b)
<1>1. /\ s \in Starts(b) /\ s \in 1 .. Len(b) - 1 /\ Len(b) \in Nat
      /\ t \in Seq(Byte) /\ Len(t) = Len(b) - s + 1
      /\ \A i \in 1 .. Len(t) : t[i] = b[s + i - 1]
  BY ThisParts
<1> HIDE DEF t, s
<1>2. t[1] = b[s] /\ t[2] = b[s + 1] /\ 1 \in 1 .. Len(t) - 1
  <2>1. Len(t) \in Nat /\ Len(t) >= 2 /\ s \in Nat
    BY <1>1
  <2>2. 1 \in 1 .. Len(t) /\ 2 \in 1 .. Len(t) /\ 1 \in 1 .. Len(t) - 1
    BY <2>1
  <2>3. t[1] = b[s + 1 - 1] /\ t[2] = b[s + 2 - 1]
    BY <1>1, <2>2
  <2>4. s + 1 - 1 = s /\ s + 2 - 1 = s + 1
    BY <2>1
  <2> QED
    BY <2>2, <2>3, <2>4
<1>3. 1 \in Starts(t)
  BY <1>1, <1>2 DEF Starts
<1>4. FirstStart(t) = 1
  <2>1. FirstStart(t) <= 1 /\ FirstStart(t) \in 1 .. Len(t) - 1
    BY <1>1, <1>3, ThisParts
  <2> QED
    BY <1>1, <2>1
<1>5. This(t) = t
  BY <1>1, <1>4, SubSeqFull DEF This
<1> QED
  BY <1>3, <1>5 DEF t

LEMMA Ending ==
  ASSUME NEW s \in Seq(Byte), NEW t \in Seq(Byte)
  PROVE  SubSeq(s \o t, Len(s) + 1, Len(s \o t)) = t
<1> DEFINE d == s \o t
           u == SubSeq(d, Len(s) + 1, Len(d))
<1>1. /\ d \in Seq(Byte) /\ Len(d) = Len(s) + Len(t) /\ Len(s) \in Nat /\ Len(t) \in Nat
      /\ \A i \in 1 .. Len(t) : d[Len(s) + i] = t[i]
  BY ConcatParts
<1> HIDE DEF d
<1>2. u \in Seq(Byte) /\ Len(u) = Len(t) /\ \A i \in 1 .. Len(t) : u[i] = d[Len(s) + i]
  BY <1>1
<1> HIDE DEF u
<1>3. \A i \in 1 .. Len(u) : u[i] = t[i]
  BY <1>1, <1>2
<1>4. u = t
  BY <1>2, <1>3, EqualSeqs
<1> QED
  BY <1>4 DEF u, d

\* What is cut off in front of the first start does not matter, but for a DLE at the end.
LEMMA DropsUnstarted ==
  ASSUME NEW b \in Seq(Byte), NEW c \in Seq(Byte), Starts(b) = {}
  PROVE  /\ Feed[b \o c].frames = Feed[Feed[b].rest \o c].frames
         /\ Feed[b \o c].rest = Feed[Feed[b].rest \o c].rest
<1> DEFINE q == Feed[b].rest
           d == b \o c
           e == q \o c
           k == Len(b) - Len(q)
<1>1. q = IF b # <<>> /\ Last(b) = DLE THEN <<DLE>> ELSE <<>>
  BY FeedCases
<1>2. q \in Seq(Byte)
  BY FeedType
<1>3. /\ d \in Seq(Byte) /\ Len(d) = Len(b) + Len(c) /\ Len(b) \in Nat /\ Len(c) \in Nat
      /\ \A i \in 1 .. Len(b) : d[i] = b[i]
      /\ \A i \in 1 .. Len(c) : d[Len(b) + i] = c[i]
  BY ConcatParts
<1> HIDE DEF q
<1>4. /\ e \in Seq(Byte) /\ Len(e) = Len(q) + Len(c) /\ Len(q) \in Nat
      /\ \A i \in 1 .. Len(q) : e[i] = q[i]
      /\ \A i \in 1 .. Len(c) : e[Len(q) + i] = c[i]
  BY <1>2, ConcatParts
<1>5. \A i \in Starts(d) : i >= Len(b)
  <2>1. \A i \in Starts(b \o c) : i < Len(b) => i \in Starts(b)
    BY StartsOfConcat
  <2> HIDE DEF d
  <2>2. \A i \in Starts(d) : i \in Nat
    BY <1>3 DEF Starts
  <2> QED
    BY <1>3, <2>1, <2>2 DEF d
<1> HIDE DEF d, e
<1>6. \/ ~(Len(q) > 0) /\ ~(b # <<>> /\ Last(b) = DLE)
      \/ Len(q) = 1 /\ q[1] = DLE /\ Len(b) > 0 /\ b[Len(b)] = DLE
  <2>1. CASE b # <<>> /\ Last(b) = DLE
    <3>1. q = <<DLE>>
      BY <1>1, <2>1
    <3>2. Len(q) = 1 /\ q[1] = DLE
      BY <3>1
    <3>3. Len(b) # 0
      BY <2>1, EmptySeq
    <3> QED
      BY <1>3, <2>1, <3>2, <3>3 DEF Last
  <2>2. CASE ~(b # <<>> /\ Last(b) = DLE)
    <3>1. q = <<>>
      BY <1>1, <2>2
    <3> QED
      BY <2>2, <3>1, EmptySeq
  <2> QED
    BY <2>1, <2>2
<1>7. k \in Nat /\ Len(d) = k + Len(e) /\ k + Len(q) = Len(b)
      /\ Len(d) \in Nat /\ Len(e) \in Nat
  <2>1. Len(b) \in Nat /\ Len(c) \in Nat /\ Len(d) = Len(b) + Len(c)
    BY <1>3
  <2>2. Len(q) \in Nat /\ Len(e) = Len(q) + Len(c)
    BY <1>4
  <2>3. Len(q) <= Len(b)
    <3>1. CASE ~(Len(q) > 0)
      BY <2>1, <2>2, <3>1
    <3>2. CASE Len(q) = 1 /\ Len(b) > 0
      BY <2>1, <3>2
    <3> QED
      BY <1>6, <3>1, <3>2
  <2>4. \A x, y, z \in Nat : y <= x => /\ x - y \in Nat /\ (x - y) + y = x
                                      /\ x + z = (x - y) + (y + z)
    OBVIOUS
  <2> QED
    BY <2>1, <2>2, <2>3, <2>4 DEF k
<1>8. ASSUME NEW i \in 1 .. Len(e) PROVE e[i] = d[k + i]
  <2>1. CASE i <= Len(q)
    <3>1. Len(q) = 1 /\ i = 1 /\ k + i = Len(b)
      BY <1>4, <1>6, <1>7, <2>1
    <3>2. e[1] = q[1] /\ d[Len(b)] = b[Len(b)]
      BY <1>3, <1>4, <1>6, <3>1
    <3> QED
      BY <1>6, <3>1, <3>2
  <2>2. CASE i > Len(q)
    <3>1. i - Len(q) \in 1 .. Len(c) /\ k + i = Len(b) + (i - Len(q)) /\ i = Len(q) + (i - Len(q))
      BY <1>3, <1>4, <2>2
    <3>2. e[Len(q) + (i - Len(q))] = c[i - Len(q)] /\ d[Len(b) + (i - Len(q))] = c[i - Len(q)]
      BY <1>3, <1>4, <3>1
    <3> QED
      BY <3>1, <3>2
  <2> QED
    BY <1>4, <2>1, <2>2
<1> HIDE DEF k
<1>9. ASSUME NEW i \in Starts(e) PROVE k + i \in Starts(d)
  <2>1. i \in 1 .. Len(e) - 1 /\ e[i] = DLE /\ e[i + 1] = STX
    BY DEF Starts
  <2>2. d[k + i] = DLE /\ d[k + (i + 1)] = STX
    BY <1>4, <1>8, <2>1
  <2> QED
    BY <1>3, <1>4, <1>7, <2>1, <2>2 DEF Starts
<1>10. ASSUME NEW i \in Starts(d) PROVE i - k \in Starts(e)
  <2>1. i \in 1 .. Len(d) - 1 /\ d[i] = DLE /\ d[i + 1] = STX /\ i >= Len(b)
    BY <1>5 DEF Starts
  <2>2. i - k >= 1
    <3>1. CASE i = Len(b)
      <4>1. Len(b) > 0 /\ d[Len(b)] = b[Len(b)] /\ Len(b) # 0
        BY <1>3, <2>1, <3>1
      <4>2. b # <<>> /\ Last(b) = DLE
        BY <2>1, <3>1, <4>1, EmptySeq DEF Last
      <4> QED
        BY <1>3, <1>6, <3>1, <4>2 DEF k
    <3>2. CASE i # Len(b)
      BY <1>3, <1>4, <2>1, <3>2 DEF k
    <3> QED
      BY <3>1, <3>2
  <2>3. i - k \in 1 .. Len(e) - 1 /\ i - k + 1 \in 1 .. Len(e) /\ i - k \in 1 .. Len(e)
        /\ k + (i - k) = i /\ k + (i - k + 1) = i + 1
    BY <1>3, <1>4, <1>7, <2>1, <2>2
  <2>4. e[i - k] = d[k + (i - k)] /\ e[i - k + 1] = d[k + (i - k + 1)]
    BY <1>8, <2>3
  <2> QED
    BY <2>1, <2>3, <2>4 DEF Starts
<1>11. CASE Starts(e) = {}
  <2>1. Starts(d) = {}
    BY <1>10, <1>11
  <2>2. d # <<>> /\ Last(d) = DLE <=> e # <<>> /\ Last(e) = DLE
    <3>1. CASE Len(e) = 0
      <4>1. Len(q) = 0 /\ Len(c) = 0 /\ Len(d) = Len(b)
        BY <1>3, <1>4, <3>1
      <4>2. ~(b # <<>> /\ Last(b) = DLE)
        BY <1>6, <4>1
      <4>3. e = <<>>
        BY <1>4, <3>1, EmptySeq
      <4>4. d = b
        BY <1>3, <4>1, EqualSeqs
      <4> QED
        BY <4>2, <4>3, <4>4
    <3>2. CASE Len(e) # 0
      <4>1. e # <<>> /\ d # <<>> /\ e[Len(e)] = d[Len(d)]
        <5>1. Len(e) \in 1 .. Len(e) /\ Len(d) # 0
          BY <1>3, <1>4, <1>7, <3>2
        <5> QED
          BY <1>7, <1>8, <5>1, EmptySeq
      <4> QED
        BY <4>1 DEF Last
    <3> QED
      BY <3>1, <3>2
  <2>3. Feed[d].frames = Feed[e].frames /\ Feed[d].rest = Feed[e].rest
    BY <1>3, <1>4, <1>11, <2>1, <2>2, FeedCases
  <2> QED
    BY <2>3 DEF d, e, q
<1>12. CASE Starts(e) # {}
  <2>2. Starts(d) # {}
    BY <1>9, <1>12
  <2>3. /\ FirstStart(d) \in Starts(d) /\ \A j \in Starts(d) : FirstStart(d) <= j
        /\ FirstStart(d) \in 1 .. Len(d) - 1
        /\ This(d) \in Seq(Byte) /\ Len(This(d)) = Len(d) - FirstStart(d) + 1
        /\ \A i \in 1 .. Len(This(d)) : This(d)[i] = d[FirstStart(d) + i - 1]
    BY <1>3, <2>2, ThisParts
  <2>4. /\ FirstStart(e) \in Starts(e) /\ \A j \in Starts(e) : FirstStart(e) <= j
        /\ FirstStart(e) \in 1 .. Len(e) - 1
        /\ This(e) \in Seq(Byte) /\ Len(This(e)) = Len(e) - FirstStart(e) + 1
        /\ \A i \in 1 .. Len(This(e)) : This(e)[i] = e[FirstStart(e) + i - 1]
    BY <1>4, <1>12, ThisParts
  <2>5. FirstStart(d) = k + FirstStart(e)
    <3>1. FirstStart(d) <= k + FirstStart(e)
      <4>1. k + FirstStart(e) \in Starts(d)
        BY <1>9, <2>4
      <4> QED
        BY <2>3, <4>1
    <3>2. FirstStart(e) <= FirstStart(d) - k
      <4>1. FirstStart(d) - k \in Starts(e)
        BY <1>10, <2>3
      <4> QED
        BY <2>4, <4>1
    <3>3. FirstStart(d) \in Nat /\ FirstStart(e) \in Nat
      BY <1>7, <2>3, <2>4
    <3> QED
      BY <1>7, <3>1, <3>2, <3>3
  <2>6. Len(This(d)) = Len(This(e)) /\ Len(This(d)) \in Nat
        /\ FirstStart(e) \in Nat /\ Len(This(e)) = Len(e) - FirstStart(e) + 1
    <3>1. /\ Len(This(d)) = Len(d) - FirstStart(d) + 1
          /\ Len(This(e)) = Len(e) - FirstStart(e) + 1 /\ Len(This(d)) \in Nat
      BY <2>3, <2>4
    <3>2. FirstStart(e) \in Nat /\ FirstStart(d) = k + FirstStart(e)
      BY <1>7, <2>4, <2>5
    <3> QED
      BY <1>7, <3>1, <3>2
  <2>7. ASSUME NEW i \in 1 .. Len(This(d)) PROVE This(d)[i] = This(e)[i]
    <3>1. FirstStart(e) + i - 1 \in 1 .. Len(e) /\ k + (FirstStart(e) + i - 1) = FirstStart(d) + i - 1
      <4>1. FirstStart(e) >= 1 /\ i \in Nat
        BY <1>7, <2>4, <2>6
      <4> QED
        BY <1>7, <2>5, <2>6, <4>1
    <3>2. e[FirstStart(e) + i - 1] = d[k + (FirstStart(e) + i - 1)]
      BY <1>8, <3>1
    <3> QED
      BY <2>3, <2>4, <2>6, <3>1, <3>2
  <2>8. This(d) = This(e)
    BY <2>3, <2>4, <2>6, <2>7, EqualSeqs
  <2>9. Feed[d].frames = Feed[e].frames /\ Feed[d].rest = Feed[e].rest
    BY <1>3, <1>4, <1>12, <2>2, <2>8, SameThis
  <2> QED
    BY <2>9 DEF d, e, q
<1> QED
  BY <1>11, <1>12

\* The first frame of b stays the first, and what comes is put behind what is beyond it.
LEMMA FrameStays ==
  ASSUME NEW b \in Seq(Byte), NEW c \in Seq(Byte), HasFrame(b)
  PROVE  /\ HasFrame(b \o c) /\ FirstFrame(b \o c) = FirstFrame(b)
         /\ Beyond(b \o c) = Beyond(b) \o c
<1> DEFINE d == b \o c
           t == This(b)
           f == FirstFrame(b)
           r == Beyond(b)
           n == FrameEnd(t)
<1>1. Starts(b) # {} /\ n # 0
  BY DEF HasFrame
<1>2. /\ t \in Seq(Byte) /\ t # <<>> /\ Starts(d) # {} /\ This(d) = t \o c
  BY <1>1, ThisParts, ThisGrows
<1>3. FrameEnd(t \o c) = n
  BY <1>1, <1>2, EndStays
<1>4. HasFrame(d)
  BY <1>1, <1>2, <1>3 DEF HasFrame
<1>5. f \in Seq(Byte) /\ r \in Seq(Byte) /\ f \o r = t /\ n \in 4 .. Len(t)
  BY BeyondShorter
<1>6. Len(f) = n /\ f # <<>>
  <2>1. Len(f) = n
    BY <1>2, <1>5, Cut, LenProperties DEF FirstFrame
  <2> HIDE DEF f
  <2>2. n # 0
    BY <1>1
  <2> QED
    BY <2>1, <2>2, EmptySeq
<1> HIDE DEF d, t, f, r
<1>7. t \o c = f \o (r \o c) /\ r \o c \in Seq(Byte)
  <2>1. f \in Seq(Byte) /\ r \in Seq(Byte) /\ t = f \o r
    BY <1>5
  <2>2. (f \o r) \o c = f \o (r \o c)
    BY <2>1, Associative
  <2>3. r \o c \in Seq(Byte)
    BY <2>1, Regroup
  <2> QED
    BY <2>1, <2>2, <2>3
<1>8. SubSeq(f \o (r \o c), 1, Len(f)) = f
  BY <1>5, <1>6, <1>7, Beginning
<1>9. SubSeq(f \o (r \o c), Len(f) + 1, Len(f \o (r \o c))) = r \o c
  BY <1>5, <1>7, Ending
<1>10. FirstFrame(d) = f
  <2>1. FirstFrame(d) = SubSeq(This(d), 1, FrameEnd(This(d)))
    BY DEF FirstFrame
  <2> QED
    BY <1>2, <1>3, <1>6, <1>7, <1>8, <2>1
<1>11. Beyond(d) = r \o c
  <2>1. Beyond(d) = SubSeq(This(d), FrameEnd(This(d)) + 1, Len(This(d)))
    BY DEF Beyond
  <2> QED
    BY <1>2, <1>3, <1>6, <1>7, <1>9, <2>1
<1> QED
  BY <1>4, <1>10, <1>11 DEF d, f, r

\* After b, it makes no difference whether c is fed behind b, or behind what stayed of b.
FedAlike(b, c) ==
  /\ Feed[b \o c].frames = Feed[b].frames \o Feed[Feed[b].rest \o c].frames
  /\ Feed[b \o c].rest = Feed[Feed[b].rest \o c].rest

LEMMA FrameAssociative ==
  ASSUME NEW f \in Seq(Byte), NEW p \in Seq(Seq(Byte)), NEW q \in Seq(Seq(Byte))
  PROVE  FrameThen(f, p \o q) = FrameThen(f, p) \o q
<1>1. <<f>> \in Seq(Seq(Byte))
  OBVIOUS
<1> DEFINE o == <<f>>
<1> HIDE DEF o
<1>2. (o \o p) \o q = o \o (p \o q)
  BY <1>1, ConcatAssociative DEF o
<1> QED
  BY <1>2 DEF o, FrameThen

LEMMA NoFrames == \A q \in Seq(Seq(Byte)) : <<>> \o q = q
OBVIOUS

\* JandyFrameBuffer.feed in two parts does the same as in one, for all sequences of bytes.
THEOREM FeedInParts == ASSUME NEW b \in Seq(Byte), NEW c \in Seq(Byte) PROVE FedAlike(b, c)
<1> DEFINE T == {k \in Nat : \E a \in Seq(Byte) : Len(a) = k /\ ~FedAlike(a, c)}
<1>1. SUFFICES ASSUME T # {} PROVE FALSE
  <2>1. Len(b) \in Nat
    BY LenProperties
  <2> QED
    BY <1>1, <2>1
<1>2. PICK k \in T : \A e \in T : k <= e
  <2>1. T \subseteq Nat
    OBVIOUS
  <2> HIDE DEF T
  <2> QED
    BY <1>1, <2>1, LeastNumber
<1>3. PICK a \in Seq(Byte) : Len(a) = k /\ ~FedAlike(a, c)
  BY <1>2
<1>4. /\ Feed[a].rest \in Seq(Byte) /\ Feed[a].rest \o c \in Seq(Byte) /\ a \o c \in Seq(Byte)
      /\ Feed[Feed[a].rest \o c].frames \in Seq(Seq(Byte))
  BY FeedType, Regroup
<1>5. CASE Starts(a) = {}
  <2>1. Feed[a].frames = <<>>
    BY <1>5, FeedCases
  <2>2. <<>> \o Feed[Feed[a].rest \o c].frames = Feed[Feed[a].rest \o c].frames
    BY <1>4, NoFrames
  <2>3. FedAlike(a, c)
    BY <1>5, <2>1, <2>2, DropsUnstarted DEF FedAlike
  <2> QED
    BY <1>3, <2>3
<1>6. CASE Starts(a) # {} /\ FrameEnd(This(a)) = 0
  <2> DEFINE t == This(a)
  <2>1. Feed[a].frames = <<>> /\ Feed[a].rest = t
    BY <1>6, FeedCases
  <2>2. t \in Seq(Byte) /\ Starts(t) # {} /\ This(t) = t
    BY <1>6, ThisParts, ThisOfThis
  <2>3. Starts(a \o c) # {} /\ This(a \o c) = t \o c
    BY <1>6, ThisGrows
  <2> HIDE DEF t
  <2>4. Starts(t \o c) # {} /\ This(t \o c) = t \o c
    BY <2>2, ThisGrows
  <2>5. t \o c \in Seq(Byte)
    BY <1>4, <2>1
  <2>6. Feed[a \o c].frames = Feed[t \o c].frames /\ Feed[a \o c].rest = Feed[t \o c].rest
    BY <1>4, <2>3, <2>4, <2>5, SameThis
  <2>7. <<>> \o Feed[t \o c].frames = Feed[t \o c].frames
    BY <1>4, <2>1, NoFrames
  <2>8. FedAlike(a, c)
    BY <2>1, <2>6, <2>7 DEF FedAlike
  <2> QED
    BY <1>3, <2>8
<1>7. CASE HasFrame(a)
  <2> DEFINE r == Beyond(a)
             f == FirstFrame(a)
  <2>1. r \in Seq(Byte) /\ Len(r) \in Nat /\ Len(r) < k /\ f \in Seq(Byte)
    BY <1>3, <1>7, BeyondShorter
  <2>2. Feed[a].frames = FrameThen(f, Feed[r].frames) /\ Feed[a].rest = Feed[r].rest
    BY <1>7, FeedCases
  <2>3. HasFrame(a \o c) /\ FirstFrame(a \o c) = f /\ Beyond(a \o c) = r \o c
    BY <1>7, FrameStays
  <2> HIDE DEF r, f
  <2>4. FedAlike(r, c)
    <3>1. Len(r) \notin T
      BY <1>2, <2>1
    <3> QED
      BY <2>1, <3>1
  <2>5. Feed[a \o c].frames = FrameThen(f, Feed[r \o c].frames) /\ Feed[a \o c].rest = Feed[r \o c].rest
    BY <1>4, <2>3, FeedCases
  <2> DEFINE more == Feed[Feed[r].rest \o c].frames
             had == Feed[r].frames
  <2>6. more \in Seq(Seq(Byte)) /\ had \in Seq(Seq(Byte))
    BY <1>4, <2>1, <2>2, FeedType
  <2>7. Feed[r \o c].frames = had \o more /\ Feed[r \o c].rest = Feed[Feed[r].rest \o c].rest
    BY <2>4 DEF FedAlike
  <2>8. more = Feed[Feed[a].rest \o c].frames
    BY <2>2
  <2> HIDE DEF more
  <2>9. FrameThen(f, had \o more) = FrameThen(f, had) \o more
    <3> HIDE DEF had
    <3> QED
      BY <2>1, <2>6, FrameAssociative
  <2>10. FedAlike(a, c)
    <3>1. Feed[a \o c].frames = Feed[a].frames \o more
      BY <2>2, <2>5, <2>7, <2>9
    <3>2. Feed[a \o c].rest = Feed[Feed[a].rest \o c].rest
      BY <2>2, <2>5, <2>7
    <3> QED
      BY <2>8, <3>1, <3>2 DEF FedAlike
  <2> QED
    BY <1>3, <2>10
<1> QED
  BY <1>5, <1>6, <1>7 DEF HasFrame

-----------------------------------------------------------------------------
(* The capture.                                                              *)

\* The bytes read so far.
Taken == taken \o received

\* What is captured of the other direction lags behind by what the send under way has written.
SendCounts ==
  /\ toPanel \in [whole : Nat, left : Nat, sent : Nat, captured : Nat]
  /\ toPanel.left <= toPanel.whole /\ cut \in BOOLEAN
  /\ step.state # "sending" /\ ~cut => toPanel.captured = toPanel.sent
  /\ step.state = "sending" /\ ~cut =>
       toPanel.captured + toPanel.whole = toPanel.sent + toPanel.left

\* The capture is what feed makes of all that was read, in one piece.
CaptureInv ==
  /\ LineInv
  /\ step.state # "closed" => frames = Feed[Taken].frames /\ buffer = Feed[Taken].rest
  /\ step.state = "closed" =>
       frames = IF Feed[Taken].rest # <<>> THEN Append(Feed[Taken].frames, Feed[Taken].rest)
                ELSE Feed[Taken].frames
  /\ SendCounts

LEMMA TakenIsRead == ASSUME LineInv PROVE /\ Taken \in Seq(Byte) /\ out = Taken \o unread
                                          /\ SubSeq(out, 1, Len(out) - Len(unread)) = Taken
<1>1. Taken \in Seq(Byte) /\ out = Taken \o unread /\ unread \in Seq(Byte)
  BY Regroup DEF LineInv, Taken, Conserved
<1>2. Len(out) = Len(Taken) + Len(unread) /\ Len(Taken) \in Nat /\ Len(unread) \in Nat
  BY <1>1, Regroup, LenProperties
<1>3. Len(out) - Len(unread) = Len(Taken)
  BY <1>2
<1>4. SubSeq(Taken \o unread, 1, Len(Taken)) = Taken
  <2>1. CASE Taken = <<>>
    <3>1. Len(Taken) = 0
      BY <2>1, EmptySeq
    <3>2. SubSeq(out, 1, 0) = <<>>
      BY SubSeqEmpty
    <3> QED
      BY <1>1, <2>1, <3>1, <3>2
  <2>2. CASE Taken # <<>>
    BY <1>1, <2>2, Beginning
  <2> QED
    BY <2>1, <2>2
<1> QED
  BY <1>1, <1>3, <1>4

LEMMA SameFront ==
  ASSUME NEW s \in Seq(Byte), NEW r \in Seq(Byte), NEW t \in Seq(Byte), s \o t = r \o t
  PROVE  s = r
<1> DEFINE d == s \o t
           e == r \o t
<1>1. d \in Seq(Byte) /\ Len(d) = Len(s) + Len(t) /\ Len(s) \in Nat /\ Len(t) \in Nat
      /\ \A i \in 1 .. Len(s) : d[i] = s[i]
  BY ConcatParts
<1>2. e \in Seq(Byte) /\ Len(e) = Len(r) + Len(t) /\ Len(r) \in Nat
      /\ \A i \in 1 .. Len(r) : e[i] = r[i]
  BY ConcatParts
<1>3. d = e
  OBVIOUS
<1> HIDE DEF d, e
<1>4. Len(s) = Len(r)
  BY <1>1, <1>2, <1>3
<1>5. \A i \in 1 .. Len(s) : s[i] = r[i]
  BY <1>1, <1>2, <1>3, <1>4
<1> QED
  BY <1>4, <1>5, EqualSeqs

LEMMA CaptureInitially == LineInit => CaptureInv
<1> SUFFICES ASSUME LineInit PROVE CaptureInv
  OBVIOUS
<1>1. LineInv
  BY EmptySeq, ConcatEmptySeq DEF LineInit, LineInv, Conserved, NoStep, StepState
<1>2. Taken = <<>>
  BY DEF LineInit, Taken
<1>3. Feed[<<>>].frames = <<>> /\ Feed[<<>>].rest = <<>>
  <2>1. <<>> \in Seq(Byte) /\ Starts(<<>>) = {}
    BY DEF Starts
  <2> QED
    BY <2>1, FeedCases
<1>4. step.state = "none" /\ frames = <<>> /\ buffer = <<>>
      /\ toPanel = [whole |-> 0, left |-> 0, sent |-> 0, captured |-> 0] /\ cut = FALSE
  BY DEF LineInit, NoStep
<1> QED
  <2>1. SendCounts
    <3>1. /\ toPanel.whole = 0 /\ toPanel.left = 0 /\ toPanel.sent = 0 /\ toPanel.captured = 0
          /\ toPanel \in [whole : Nat, left : Nat, sent : Nat, captured : Nat]
      BY <1>4
    <3>2. step.state # "sending"
      BY <1>4
    <3>3. toPanel.left <= toPanel.whole /\ toPanel.captured = toPanel.sent
      BY <3>1
    <3>4. cut \in BOOLEAN
      BY <1>4, Zenon
    <3> QED
      BY <3>1, <3>2, <3>3, <3>4 DEF SendCounts
  <2> QED
    BY <1>1, <1>2, <1>3, <1>4, <2>1 DEF CaptureInv

\* What is read is captured.
LEMMA ReadCaptures ==
  ASSUME CaptureInv, LineInv', Read
  PROVE  frames' = Feed[Taken'].frames /\ buffer' = Feed[Taken'].rest
<1>1. PICK n \in DOMAIN unread :
         /\ unread' = SubSeq(unread, n + 1, Len(unread))
         /\ Capture(SubSeq(unread, 1, n))
  BY DEF Read
<1> DEFINE chunk == SubSeq(unread, 1, n)
           left  == SubSeq(unread, n + 1, Len(unread))
<1>2. out' = out /\ step.state # "closed" /\ LineInv
  BY DEF Read, CaptureInv
<1>3. chunk \in Seq(Byte) /\ left \in Seq(Byte) /\ chunk \o left = unread
  <2>1. n \in 0 .. Len(unread) /\ unread \in Seq(Byte)
    BY <1>2, LenProperties DEF LineInv
  <2> QED
    BY <2>1, Cut
<1>4. frames' = frames \o Feed[buffer \o chunk].frames /\ buffer' = Feed[buffer \o chunk].rest
      /\ unread' = left
  BY <1>1 DEF Capture
<1> HIDE DEF chunk, left
<1> DEFINE now == Taken'
<1>5. Taken \in Seq(Byte) /\ out = Taken \o unread
  BY <1>2, TakenIsRead
<1>6. now \in Seq(Byte) /\ out' = now \o unread'
  BY Regroup DEF LineInv, Taken, Conserved
<1>7. (Taken \o chunk) \o left = Taken \o unread /\ Taken \o chunk \in Seq(Byte)
  <2>1. (Taken \o chunk) \o left = Taken \o (chunk \o left)
    BY <1>3, <1>5, Associative
  <2> QED
    BY <1>3, <1>5, <2>1, Regroup
<1> HIDE DEF now
<1>8. now = Taken \o chunk
  <2> DEFINE then == Taken \o chunk
  <2>1. then \in Seq(Byte) /\ then \o left = now \o left
    BY <1>2, <1>4, <1>5, <1>6, <1>7
  <2> HIDE DEF then
  <2>2. then = now
    BY <1>3, <1>6, <2>1, SameFront
  <2> QED
    BY <2>2 DEF then
<1>9. frames = Feed[Taken].frames /\ buffer = Feed[Taken].rest
  BY <1>2 DEF CaptureInv
<1>10. FedAlike(Taken, chunk)
  BY <1>3, <1>5, FeedInParts
<1>11. frames' = Feed[now].frames /\ buffer' = Feed[now].rest
  BY <1>4, <1>8, <1>9, <1>10 DEF FedAlike
<1> QED
  BY <1>11 DEF now

LEMMA CaptureStep ==
  ASSUME CaptureInv, [LineNext]_lineVars
  PROVE  CaptureInv'
<1>1. LineInv /\ LineInv'
  BY LineStep DEF CaptureInv
<1>2. UNCHANGED <<out, unread>> => Taken' = Taken
  <2>1. SUFFICES ASSUME UNCHANGED <<out, unread>> PROVE Taken' = Taken
    OBVIOUS
  <2> DEFINE now == Taken'
  <2>2. Taken \in Seq(Byte) /\ out = Taken \o unread /\ unread \in Seq(Byte)
    BY <1>1, TakenIsRead DEF LineInv
  <2>3. now \in Seq(Byte) /\ out' = now \o unread'
    BY <1>1, Regroup DEF LineInv, Taken, Conserved
  <2> HIDE DEF now
  <2>4. now \o unread = Taken \o unread
    BY <2>1, <2>2, <2>3
  <2>5. now = Taken
    BY <2>2, <2>3, <2>4, SameFront
  <2> QED
    BY <2>5 DEF now
<1>3. CASE Read
  <2>1. frames' = Feed[Taken'].frames /\ buffer' = Feed[Taken'].rest
    BY <1>1, <1>3, ReadCaptures
  <2>2. step.state = "reading" /\ step'.state \in {"reading", "failed", "matched"}
        /\ UNCHANGED <<toPanel, cut>>
    BY <1>1, <1>3 DEF Read, Return, LineInv
  <2> QED
    BY <1>1, <2>1, <2>2 DEF CaptureInv, SendCounts
<1>4. CASE Write \/ UNCHANGED lineVars
  <2>1. UNCHANGED <<received, taken, step, frames, buffer, toPanel, cut>>
    BY <1>4 DEF Write, lineVars
  <2>2. Taken' = Taken
    BY <2>1 DEF Taken
  <2> QED
    BY <1>1, <2>1, <2>2 DEF CaptureInv, SendCounts
<1>5. CASE Expect \/ ExpectTimesOut
  <2>1. UNCHANGED <<out, unread, frames, buffer, toPanel, cut>>
        /\ step.state \notin {"sending", "closed"}
        /\ step'.state \in {"reading", "failed", "matched"}
    BY <1>1, <1>5 DEF Expect, ExpectTimesOut, Between, Return, LineInv
  <2> QED
    BY <1>1, <1>2, <2>1 DEF CaptureInv, SendCounts
<1>6. CASE Send \/ WriteSome \/ SendTimesOut
  <2>1. UNCHANGED <<out, unread, frames, buffer>> /\ step.state # "closed" /\ step'.state # "closed"
    BY <1>1, <1>6 DEF Send, WriteSome, SendTimesOut, Between, LineInv, NoStep
  <2>2. toPanel \in [whole : Nat, left : Nat, sent : Nat, captured : Nat] /\ toPanel.left <= toPanel.whole
        /\ cut \in BOOLEAN
    BY DEF CaptureInv, SendCounts
  <2>0. SendCounts
    BY DEF CaptureInv
  <2>3. SendCounts'
    <3>1. CASE Send
      <4>1. PICK n \in Payload : toPanel' = [toPanel EXCEPT !.whole = n, !.left = n]
        BY <3>1 DEF Send
      <4>2. step'.state = "sending" /\ UNCHANGED cut /\ step.state # "sending" /\ n \in Nat
        BY <3>1, LineAssumption DEF Send, NoStep, Between
      <4>3. /\ toPanel' \in [whole : Nat, left : Nat, sent : Nat, captured : Nat]
            /\ toPanel'.whole = n /\ toPanel'.left = n
            /\ toPanel'.sent = toPanel.sent /\ toPanel'.captured = toPanel.captured
        BY <2>2, <4>1, <4>2
      <4>4. ~cut => toPanel.captured = toPanel.sent
        BY <2>0, <4>2 DEF SendCounts
      <4> QED
        BY <2>2, <4>2, <4>3, <4>4 DEF SendCounts
    <3>2. CASE WriteSome
      <4>1. PICK n \in 1 .. toPanel.left :
              /\ toPanel' = [toPanel EXCEPT !.left = @ - n, !.sent = @ + n,
                               !.captured = IF n = toPanel.left THEN @ + toPanel.whole ELSE @]
              /\ step' = [step EXCEPT !.state = IF n = toPanel.left THEN "sent" ELSE @]
        BY <3>2 DEF WriteSome
      <4>2. UNCHANGED cut /\ step.state = "sending"
            /\ step'.state = IF n = toPanel.left THEN "sent" ELSE "sending"
        BY <1>1, <3>2, <4>1 DEF WriteSome, LineInv
      <4>3. /\ toPanel.left \in Nat /\ toPanel.whole \in Nat /\ toPanel.sent \in Nat
            /\ toPanel.captured \in Nat /\ toPanel.left <= toPanel.whole
            /\ n \in Nat /\ n <= toPanel.left
        BY <2>2
      <4>4. /\ toPanel'.whole = toPanel.whole /\ toPanel'.left = toPanel.left - n
            /\ toPanel'.sent = toPanel.sent + n
            /\ toPanel'.captured = IF n = toPanel.left THEN toPanel.captured + toPanel.whole
                                   ELSE toPanel.captured
        BY <2>2, <4>1
      <4>5. toPanel' \in [whole : Nat, left : Nat, sent : Nat, captured : Nat]
        <5>1. /\ toPanel.left - n \in Nat /\ toPanel.sent + n \in Nat
              /\ toPanel.captured + toPanel.whole \in Nat
          BY <4>3
        <5> QED
          BY <2>2, <4>1, <4>3, <5>1
      <4>6. ~cut => toPanel.captured + toPanel.whole = toPanel.sent + toPanel.left
        BY <2>0, <4>2 DEF SendCounts
      <4>7. toPanel'.left <= toPanel'.whole
        BY <4>3, <4>4
      <4>8. CASE n = toPanel.left
        BY <2>2, <4>2, <4>3, <4>4, <4>5, <4>6, <4>7, <4>8 DEF SendCounts
      <4>9. CASE n # toPanel.left
        BY <2>2, <4>2, <4>3, <4>4, <4>5, <4>6, <4>7, <4>9 DEF SendCounts
      <4> QED
        BY <4>8, <4>9
    <3>3. CASE SendTimesOut
      <4>1. UNCHANGED toPanel /\ cut' = (cut \/ toPanel.left < toPanel.whole)
            /\ step.state = "sending" /\ step'.state = "failed"
        BY <1>1, <3>3 DEF SendTimesOut, LineInv
      <4>2. ~cut => toPanel.captured + toPanel.whole = toPanel.sent + toPanel.left
        BY <2>0, <4>1 DEF SendCounts
      <4>3. ~cut' => ~cut /\ ~(toPanel.left < toPanel.whole)
        BY <4>1
      <4>4. ~cut' => toPanel.captured = toPanel.sent
        BY <2>2, <4>2, <4>3
      <4>5. cut' \in BOOLEAN
        BY <4>1
      <4> QED
        BY <2>2, <4>1, <4>4, <4>5 DEF SendCounts
    <3> QED
      BY <1>6, <3>1, <3>2, <3>3
  <2> QED
    BY <1>1, <1>2, <2>1, <2>3 DEF CaptureInv
<1>7. CASE Close
  <2>1. UNCHANGED <<out, unread, toPanel, cut>> /\ step.state \notin {"closed", "sending"}
        /\ step'.state = "closed"
        /\ frames' = IF buffer = <<>> THEN frames ELSE Append(frames, buffer)
    BY <1>1, <1>7 DEF Close, LineInv
  <2> QED
    BY <1>1, <1>2, <2>1 DEF CaptureInv, SendCounts
<1> QED
  BY <1>3, <1>4, <1>5, <1>6, <1>7 DEF LineNext

\* The capture holds the frames of all bytes read, as if they had been read at once, wherever the
\* reads cut them, and every byte that was sent, unless a send timed out in the middle.
THEOREM CaptureIsFaithful == LineSpec => []CaptureFaithful
<1>1. CaptureInv => CaptureFaithful
  <2>1. SUFFICES ASSUME CaptureInv PROVE CaptureFaithful
    OBVIOUS
  <2>2. SubSeq(out, 1, Len(out) - Len(unread)) = Taken
    BY <2>1, TakenIsRead DEF CaptureInv
  <2> QED
    BY <2>1, <2>2 DEF CaptureInv, SendCounts, CaptureFaithful
<1>2. CaptureInv /\ [LineNext]_lineVars => CaptureInv'
  BY CaptureStep
<1> QED
  BY <1>1, <1>2, CaptureInitially, PTL DEF LineSpec
=============================================================================
