---------------------------- MODULE Daemon_proofs ----------------------------
(***************************************************************************)
(* Proofs about the daemon, for every value of the bounds: when it starts  *)
(* in safe mode (DaemonBoot), how it is replaced by a new version          *)
(* (UpgradeHandoff) and what the callers of the control plane are told     *)
(* (ControlRpc).                                                           *)
(***************************************************************************)
EXTENDS DaemonBoot, UpgradeHandoff, ControlRpc, TLAPS

-----------------------------------------------------------------------------
(* Starts and crash loops                                                  *)

\* The last k starts are each within the window of the one before.
Row(s, k) ==
    /\ k <= Len(s)
    /\ \A i \in 1..(k - 1) : s[Len(s) - i + 1] - s[Len(s) - i] < CrashWindow

LEMMA AllInWindow ==
    ASSUME NEW s \in Seq(Nat), Len(s) <= CrashThreshold
    PROVE  Row(s, CrashThreshold) <=> Len(s) = CrashThreshold /\ InWindow(s)
<1> USE BootAssumption
<1>1. ASSUME Row(s, CrashThreshold) PROVE Len(s) = CrashThreshold /\ InWindow(s)
  <2>1. Len(s) = CrashThreshold
    BY <1>1 DEF Row
  <2>2. ASSUME NEW i \in 1..(Len(s) - 1) PROVE s[i + 1] - s[i] < CrashWindow
    <3>1. Len(s) - i \in 1..(CrashThreshold - 1)
      BY <2>1
    <3>2. Len(s) - (Len(s) - i) + 1 = i + 1 /\ Len(s) - (Len(s) - i) = i
      OBVIOUS
    <3> QED BY <1>1, <3>1, <3>2 DEF Row
  <2> QED BY <2>1, <2>2 DEF InWindow
<1>2. ASSUME Len(s) = CrashThreshold, InWindow(s) PROVE Row(s, CrashThreshold)
  <2>1. ASSUME NEW i \in 1..(CrashThreshold - 1)
        PROVE  s[Len(s) - i + 1] - s[Len(s) - i] < CrashWindow
    <3>1. Len(s) - i \in 1..(Len(s) - 1)
      BY <1>2
    <3> QED BY <1>2, <3>1 DEF InWindow
  <2> QED BY <1>2, <2>1 DEF Row
<1> QED BY <1>1, <1>2

\* What Recent keeps when a start is appended.
LEMMA RecentAppend ==
    ASSUME NEW s \in Seq(Nat), Len(s) <= CrashThreshold, NEW n \in Nat, NEW r,
           r = Recent(Append(s, n))
    PROVE  /\ r \in Seq(Nat) /\ Len(r) \in 1..CrashThreshold /\ r[Len(r)] = n
           /\ Len(r) = IF Len(s) = CrashThreshold THEN CrashThreshold ELSE Len(s) + 1
           /\ \A i \in 1..(Len(r) - 1) : r[Len(r) - i] = s[Len(s) - i + 1]
<1> USE BootAssumption
<1> DEFINE a == Append(s, n)
<1>1. /\ a \in Seq(Nat) /\ Len(a) = Len(s) + 1 /\ a[Len(a)] = n
      /\ \A i \in 1..Len(s) : a[i] = s[i]
  OBVIOUS
<1> HIDE DEF a
<1>2. CASE Len(s) < CrashThreshold
  <2>1. r = a
    BY <1>1, <1>2 DEF Recent, a
  <2>2. ASSUME NEW i \in 1..(Len(r) - 1) PROVE r[Len(r) - i] = s[Len(s) - i + 1]
    <3>1. Len(r) - i = Len(s) - i + 1 /\ Len(s) - i + 1 \in 1..Len(s)
      BY <1>1, <2>1
    <3> QED BY <1>1, <2>1, <3>1
  <2> QED BY <1>1, <1>2, <2>1, <2>2
<1>3. CASE Len(s) = CrashThreshold
  <2>1. r = SubSeq(a, 2, CrashThreshold + 1)
    BY <1>1, <1>3 DEF Recent, a
  <2>2. r \in Seq(Nat) /\ Len(r) = CrashThreshold /\ \A i \in 1..CrashThreshold : r[i] = a[i + 1]
    BY <1>1, <1>3, <2>1
  <2>3. ASSUME NEW i \in 1..(Len(r) - 1) PROVE r[Len(r) - i] = s[Len(s) - i + 1]
    BY <1>1, <1>3, <2>2
  <2> QED BY <1>1, <1>3, <2>2, <2>3
<1> QED BY <1>2, <1>3

\* A row grows by one with a start in the window of the one before.
LEMMA RowGrows ==
    ASSUME NEW s \in Seq(Nat), Len(s) <= CrashThreshold, NEW n \in Nat, NEW r,
           r = Recent(Append(s, n))
    PROVE  /\ Row(r, 1)
           /\ \A k \in 1..(CrashThreshold - 1) :
                Row(r, k + 1) <=> Row(s, k) /\ n - s[Len(s)] < CrashWindow
<1> USE BootAssumption
<1>1. /\ r \in Seq(Nat) /\ Len(r) \in 1..CrashThreshold /\ r[Len(r)] = n
      /\ Len(r) = IF Len(s) = CrashThreshold THEN CrashThreshold ELSE Len(s) + 1
      /\ \A i \in 1..(Len(r) - 1) : r[Len(r) - i] = s[Len(s) - i + 1]
  <2>1. r \in Seq(Nat) /\ Len(r) \in 1..CrashThreshold /\ r[Len(r)] = n
    BY RecentAppend
  <2>2. Len(r) = IF Len(s) = CrashThreshold THEN CrashThreshold ELSE Len(s) + 1
    BY RecentAppend
  <2>3. \A i \in 1..(Len(r) - 1) : r[Len(r) - i] = s[Len(s) - i + 1]
    BY RecentAppend
  <2> QED BY <2>1, <2>2, <2>3
<1>2. Len(r) \in Nat /\ Len(s) \in Nat
  BY <1>1
<1>3. Row(r, 1)
  BY <1>1 DEF Row
<1>4. ASSUME NEW k \in 1..(CrashThreshold - 1), Row(r, k + 1)
      PROVE  Row(s, k) /\ n - s[Len(s)] < CrashWindow
  <2>1. k + 1 <= Len(r) /\ k <= Len(s)
    BY <1>1, <1>4 DEF Row
  <2>2. n - s[Len(s)] < CrashWindow
    <3>1. PICK i \in 1..(k + 1 - 1) : i = 1
      OBVIOUS
    <3>2. r[Len(r) - i + 1] - r[Len(r) - i] < CrashWindow
      BY <1>4 DEF Row
    <3>3. Len(r) - i + 1 = Len(r) /\ Len(s) - i + 1 = Len(s) /\ i \in 1..(Len(r) - 1)
      BY <2>1, <1>2, <3>1
    <3>4. r[Len(r) - i] = s[Len(s) - i + 1]
      BY <1>1, <3>3
    <3> QED BY <1>1, <3>2, <3>3, <3>4
  <2>3. ASSUME NEW i \in 1..(k - 1) PROVE s[Len(s) - i + 1] - s[Len(s) - i] < CrashWindow
    <3>1. i + 1 \in 1..(k + 1 - 1) /\ i \in 1..(Len(r) - 1) /\ i + 1 \in 1..(Len(r) - 1)
      BY <2>1, <1>2
    <3>2. r[Len(r) - (i + 1) + 1] - r[Len(r) - (i + 1)] < CrashWindow
      BY <1>4, <3>1 DEF Row
    <3>3. r[Len(r) - i] = s[Len(s) - i + 1] /\ r[Len(r) - (i + 1)] = s[Len(s) - (i + 1) + 1]
      BY <1>1, <3>1
    <3>4. Len(r) - (i + 1) + 1 = Len(r) - i /\ Len(s) - (i + 1) + 1 = Len(s) - i
      BY <1>1
    <3> QED BY <3>2, <3>3, <3>4
  <2> QED BY <2>1, <2>2, <2>3 DEF Row
<1>5. ASSUME NEW k \in 1..(CrashThreshold - 1), Row(s, k), n - s[Len(s)] < CrashWindow
      PROVE  Row(r, k + 1)
  <2>1. k <= Len(s) /\ k + 1 <= Len(r)
    BY <1>1, <1>5 DEF Row
  <2>2. ASSUME NEW i \in 1..(k + 1 - 1) PROVE r[Len(r) - i + 1] - r[Len(r) - i] < CrashWindow
    <3>1. i \in 1..(Len(r) - 1)
      BY <1>2, <2>1
    <3>2. i \in 1..(Len(r) - 1) /\ r[Len(r) - i] = s[Len(s) - i + 1]
      BY <1>1, <3>1
    <3>3. CASE i = 1
      <4>1. Len(r) - i + 1 = Len(r) /\ Len(s) - i + 1 = Len(s)
        BY <1>1, <3>3
      <4> QED BY <1>1, <1>5, <3>2, <4>1
    <3>4. CASE i # 1
      <4>1. i - 1 \in 1..(k - 1) /\ i - 1 \in 1..(Len(r) - 1)
        BY <3>2, <3>4
      <4>2. s[Len(s) - (i - 1) + 1] - s[Len(s) - (i - 1)] < CrashWindow
        BY <1>5, <4>1 DEF Row
      <4>3. r[Len(r) - (i - 1)] = s[Len(s) - (i - 1) + 1]
        BY <1>1, <4>1
      <4>4. Len(r) - (i - 1) = Len(r) - i + 1 /\ Len(s) - (i - 1) = Len(s) - i + 1
        BY <1>1
      <4> QED BY <3>2, <4>2, <4>3, <4>4
    <3> QED BY <3>3, <3>4
  <2> QED BY <2>1, <2>2 DEF Row
<1> QED BY <1>3, <1>4, <1>5

BootTypes ==
    /\ now \in 0..MaxTime /\ nstarts \in 0..MaxStarts /\ bootFaults \in Nat
    /\ stage \in StageNames /\ safe \in BOOLEAN /\ forwarding \in BOOLEAN
    /\ panics \in BOOLEAN /\ rules \in {"none", "safe", "full"}
    /\ crashFile \in [count : Nat, last : (0..MaxTime) \cup {Never}]
    /\ timers \subseteq [due : Nat, last : 0..MaxTime]
    /\ starts \in Seq(Nat) /\ Len(starts) <= CrashThreshold

\* A start is counted once it reads the configuration; timers end with their
\* process.
CountBounded ==
    /\ \A t \in timers : t.due = t.last + CrashWindow
    /\ stage = "down" => timers = {}
    /\ crashFile.count <= nstarts /\ (stage = "start" => crashFile.count + 1 <= nstarts)

LastStart == starts[Len(starts)]

\* The count in crash.state never exceeds the starts in a row.
CountSound ==
    /\ \A k \in 1..CrashThreshold : k <= crashFile.count => Row(starts, k)
    /\ crashFile.count > 0 => crashFile.last = LastStart

\* Without restarts inside a process it misses none, unless the last start has
\* been stable for so long that the next one begins a row.
CountComplete ==
    ~panics =>
        /\ stage = "start" => timers = {}
        /\ \A t \in timers : starts # <<>> /\ t.last = LastStart
        /\ starts # <<>> => crashFile.last = LastStart
        /\ \A k \in 1..CrashThreshold : Row(starts, k) =>
             \/ crashFile.count >= k
             \/ crashFile.count = 0 /\ now >= LastStart + CrashWindow

Decided == stage = "config" \/ Booted

SafeDecided ==
    /\ NoFalseSafeMode /\ CrashLoopCaught
    /\ Booted /\ safe => ~forwarding

BootInv == BootTypes /\ CountBounded /\ CountSound /\ CountComplete /\ SafeDecided

\* What a step does that neither counts a start nor clears the count.
Quiet ==
    /\ UNCHANGED <<crashFile, starts>>
    /\ panics' \in BOOLEAN /\ (panics => panics')
    /\ now' \in 0..MaxTime /\ now' >= now
    /\ timers' \subseteq timers
    /\ stage' = "down" => timers' = {}
    /\ stage' = "start" => stage = "start" \/ timers' = {} \/ panics'
    /\ nstarts' \in 0..MaxStarts
    /\ \/ nstarts' = nstarts /\ (stage' = "start" => stage = "start")
       \/ nstarts' = nstarts + 1
    /\ bootFaults' \in Nat /\ stage' \in StageNames /\ safe' \in BOOLEAN
    /\ forwarding' \in BOOLEAN /\ rules' \in {"none", "safe", "full"}
    /\ safe' => safe
    /\ Decided' => Decided /\ (safe => safe')
    /\ Booted' /\ safe' => ~forwarding'

LEMMA QuietKeepsBootInv == BootInv /\ Quiet => BootInv'
<1> SUFFICES ASSUME BootInv, Quiet PROVE BootInv'
  OBVIOUS
<1> USE BootAssumption
<1>1. BootTypes'
  BY DEF BootInv, BootTypes, Quiet
<1>2. CountBounded'
  BY DEF BootInv, BootTypes, CountBounded, Quiet
<1>3. CountSound'
  BY DEF BootInv, CountSound, LastStart, Quiet
<1>4. CountComplete'
  <2> SUFFICES ASSUME ~panics' PROVE CountComplete'
    BY DEF CountComplete
  <2>1. ~panics /\ starts' = starts /\ crashFile' = crashFile /\ timers' \subseteq timers
    BY DEF Quiet
  <2>2. stage' = "start" => timers' = {}
    BY <2>1 DEF Quiet, BootInv, CountComplete
  <2>3. \A t \in timers' : starts # <<>> /\ t.last = LastStart
    BY <2>1 DEF BootInv, CountComplete
  <2>4. starts # <<>> => crashFile.last = LastStart
    BY <2>1 DEF BootInv, CountComplete
  <2>5. ASSUME NEW k \in 1..CrashThreshold, Row(starts, k)
        PROVE  \/ crashFile.count >= k
               \/ crashFile.count = 0 /\ now' >= LastStart + CrashWindow
    <3>1. \/ crashFile.count >= k
          \/ crashFile.count = 0 /\ now >= LastStart + CrashWindow
      BY <2>1, <2>5 DEF BootInv, CountComplete
    <3>2. LastStart \in Nat
      BY <2>5 DEF BootInv, BootTypes, LastStart, Row
    <3> QED BY <3>1, <3>2 DEF Quiet, BootInv, BootTypes
  <2> QED BY <2>1, <2>2, <2>3, <2>4, <2>5 DEF CountComplete, LastStart
<1>5. SafeDecided'
  BY DEF BootInv, SafeDecided, NoFalseSafeMode, CrashLoopCaught, Decided, Booted, Quiet
<1> QED BY <1>1, <1>2, <1>3, <1>4, <1>5 DEF BootInv

\* The steps that count no start and clear no count.
LEMMA QuietSteps ==
    ASSUME BootInv,
           \/ InitializeNetwork \/ InitializeCoreServices \/ StartServers \/ Crash \/ Panic
           \/ RestartInProcess \/ StartChild \/ StartByHand \/ ForwardSignal \/ Tick
           \/ (\E sig \in {"hup", "term"} : Signal(sig)) \/ UNCHANGED bootVars
    PROVE  BootInv'
<1> USE BootAssumption
<1>1. /\ now \in 0..MaxTime /\ nstarts \in 0..MaxStarts /\ bootFaults \in Nat
      /\ stage \in StageNames /\ rules \in {"none", "safe", "full"}
      /\ safe \in BOOLEAN /\ forwarding \in BOOLEAN /\ panics \in BOOLEAN
  BY DEF BootInv, BootTypes
<1>2. stage = "down" => timers = {}
  BY DEF BootInv, CountBounded
<1>3. Booted /\ safe => ~forwarding
  BY DEF BootInv, SafeDecided
<1> SUFFICES Quiet
  BY QuietKeepsBootInv
<1>4. CASE InitializeNetwork
  <2>1. forwarding' \in BOOLEAN /\ (safe => ~forwarding')
    BY <1>4, <1>1, Zenon DEF InitializeNetwork
  <2> QED BY <1>4, <1>1, <1>2, <1>3, <2>1
          DEF Quiet, InitializeNetwork, Goes, supervisor, history, Decided, Booted,
              StageNames, BootStages
<1>5. CASE InitializeCoreServices
  BY <1>5, <1>1, <1>2, <1>3
     DEF Quiet, InitializeCoreServices, Goes, supervisor, history, Decided, Booted, StageNames,
         BootStages
<1>6. CASE StartServers
  BY <1>6, <1>1, <1>2, <1>3
     DEF Quiet, StartServers, Goes, kernel, supervisor, history, Decided, Booted, StageNames,
         BootStages
<1>7. CASE Crash
  <2>1. safe' \in BOOLEAN /\ (safe' => safe)
    BY <1>7, <1>1, Zenon DEF Crash, ExitError
  <2> QED BY <1>7, <1>1, <1>2, <1>3, <2>1
          DEF Quiet, Crash, ExitError, kernel, history, Decided, Booted, StageNames, BootStages
<1>8. CASE Panic
  <2>1. safe' \in BOOLEAN /\ (safe' => safe)
    BY <1>8, <1>1, Zenon DEF Panic
  <2> QED BY <1>8, <1>1, <1>2, <1>3, <2>1
          DEF Quiet, Panic, kernel, supervisor, history, Decided, Booted, StageNames, BootStages
<1>9. CASE RestartInProcess
  BY <1>9, <1>1, <1>2, <1>3
     DEF Quiet, RestartInProcess, Goes, kernel, supervisor, Decided, Booted, StageNames, BootStages
<1>10. CASE StartChild
  BY <1>10, <1>1, <1>2, <1>3
     DEF Quiet, StartChild, Goes, kernel, Decided, Booted, StageNames, BootStages
<1>11. CASE StartByHand
  BY <1>11, <1>1, <1>2, <1>3
     DEF Quiet, StartByHand, kernel, history, Decided, Booted
<1>12. CASE ForwardSignal
  <2>1. safe' \in BOOLEAN /\ (safe' => safe)
    <3>1. safe' = FALSE \/ safe' = safe
      BY <1>12 DEF ForwardSignal
    <3>2. safe' \in BOOLEAN
      BY <1>1, <3>1, Zenon
    <3>3. safe' => safe
      BY <3>1
    <3> QED BY <3>2, <3>3
  <2> QED BY <1>12, <1>1, <1>2, <1>3, <2>1
          DEF Quiet, ForwardSignal, kernel, history, Decided, Booted, StageNames, BootStages
<1>13. CASE Tick
  BY <1>13, <1>1, <1>2, <1>3 DEF Quiet, Tick, kernel, supervisor, history, Decided, Booted
<1>14. CASE \E sig \in {"hup", "term"} : Signal(sig)
  BY <1>14, <1>1, <1>2, <1>3 DEF Quiet, Signal, kernel, history, Decided, Booted
<1>15. CASE UNCHANGED bootVars
  BY <1>15, <1>1, <1>2, <1>3 DEF Quiet, bootVars, Decided, Booted
<1> QED BY <1>4, <1>5, <1>6, <1>7, <1>8, <1>9, <1>10, <1>11, <1>12, <1>13, <1>14, <1>15

\* A start that reads the configuration counts itself.
LEMMA StartCounts == BootInv /\ LoadConfiguration => BootInv'
<1> SUFFICES ASSUME BootInv, LoadConfiguration PROVE BootInv'
  OBVIOUS
<1> USE BootAssumption
<1>1. /\ stage = "start" /\ stage' = "config" /\ now' = now /\ nstarts' = nstarts
      /\ bootFaults' = bootFaults /\ rules' = rules /\ starts' = Recent(Append(starts, now))
      /\ crashFile' = Checked /\ panics' = panics /\ forwarding' = forwarding
      /\ timers' \subseteq timers \cup {[due |-> now + CrashWindow, last |-> now]}
  BY DEF LoadConfiguration, Goes, kernel
<1>2. /\ safe' \in BOOLEAN /\ (safe' <=> crashFile'.count >= CrashThreshold)
  <2>1. crashFile' = Checked /\ safe' = (Checked.count >= CrashThreshold)
    BY Zenon DEF LoadConfiguration
  <2>2. safe' \in BOOLEAN
    <3> DEFINE reached == Checked.count >= CrashThreshold
    <3>1. reached \in BOOLEAN
      OBVIOUS
    <3>2. safe' = reached
      BY <2>1
    <3> HIDE DEF reached
    <3> QED BY <3>1, <3>2, Zenon
  <2> QED BY <2>1, <2>2
<1>3. /\ now \in 0..MaxTime /\ now \in Nat /\ starts \in Seq(Nat)
      /\ Len(starts) <= CrashThreshold /\ crashFile.count \in Nat
      /\ crashFile.last \in (0..MaxTime) \cup {Never}
  BY DEF BootInv, BootTypes
<1> DEFINE row == crashFile.last # Never /\ now - crashFile.last < CrashWindow
           count == IF row THEN crashFile.count + 1 ELSE 1
<1>4. crashFile' = [count |-> count, last |-> now]
  BY <1>1 DEF Checked
<1>5. count \in Nat /\ count >= 1 /\ count <= crashFile.count + 1
  BY <1>3
<1>6. /\ starts' \in Seq(Nat) /\ Len(starts') \in 1..CrashThreshold
      /\ starts'[Len(starts')] = now
  BY <1>1, <1>3, RecentAppend
<1>7. /\ Row(starts', 1)
      /\ \A k \in 1..(CrashThreshold - 1) :
           Row(starts', k + 1) <=> Row(starts, k) /\ now - starts[Len(starts)] < CrashWindow
  BY <1>1, <1>3, RowGrows
<1>8. \A k \in 1..CrashThreshold : k # 1 => k - 1 \in 1..(CrashThreshold - 1) /\ k - 1 + 1 = k
  OBVIOUS
<1>9. BootTypes'
  <2>1. crashFile' \in [count : Nat, last : (0..MaxTime) \cup {Never}]
    BY <1>3, <1>4, <1>5
  <2>2. timers' \subseteq [due : Nat, last : 0..MaxTime]
    <3>1. [due |-> now + CrashWindow, last |-> now] \in [due : Nat, last : 0..MaxTime]
      BY <1>3
    <3> QED BY <1>1, <3>1 DEF BootInv, BootTypes
  <2> QED BY <1>1, <1>2, <1>6, <2>1, <2>2 DEF BootInv, BootTypes, StageNames, BootStages
<1>10. CountBounded'
  BY <1>1, <1>3, <1>4, <1>5 DEF BootInv, BootTypes, CountBounded
<1>11. CountSound'
  <2>1. ASSUME NEW k \in 1..CrashThreshold, k <= count PROVE Row(starts', k)
    <3>1. CASE k = 1
      BY <1>7, <3>1
    <3>2. CASE k # 1
      <4>1. row /\ k - 1 <= crashFile.count /\ crashFile.count > 0
        BY <1>3, <2>1, <3>2
      <4>2. Row(starts, k - 1) /\ crashFile.last = starts[Len(starts)]
        BY <1>8, <3>2, <4>1 DEF BootInv, CountSound, LastStart
      <4> QED BY <1>7, <1>8, <3>2, <4>1, <4>2
    <3> QED BY <3>1, <3>2
  <2> HIDE DEF count
  <2> QED BY <1>4, <1>6, <2>1 DEF CountSound, LastStart
<1>12. ASSUME ~panics', NEW k \in 1..CrashThreshold, Row(starts', k) PROVE count >= k
  <2>1. CASE k = 1
    BY <1>5, <2>1
  <2>2. CASE k # 1
    <3>1. Row(starts, k - 1) /\ now - starts[Len(starts)] < CrashWindow
      BY <1>7, <1>8, <1>12, <2>2
    <3>2. starts # <<>> /\ starts[Len(starts)] \in Nat
      BY <1>3, <1>8, <2>2, <3>1 DEF Row
    <3>3. crashFile.last = starts[Len(starts)] /\ crashFile.last # Never
      BY <1>1, <1>12, <3>2 DEF BootInv, CountComplete, LastStart
    <3>4. crashFile.count >= k - 1
      BY <1>1, <1>3, <1>8, <1>12, <2>2, <3>1, <3>2 DEF BootInv, CountComplete, LastStart
    <3> QED BY <1>3, <3>1, <3>3, <3>4
  <2> QED BY <2>1, <2>2
<1>13. CountComplete'
  <2> SUFFICES ASSUME ~panics' PROVE CountComplete'
    BY DEF CountComplete
  <2>1. timers = {}
    BY <1>1 DEF BootInv, CountComplete
  <2> HIDE DEF count
  <2>2. \A t \in timers' : starts' # <<>> /\ t.last = now
    BY <1>1, <1>6, <2>1
  <2> QED BY <1>1, <1>4, <1>6, <1>12, <2>2 DEF CountComplete, LastStart
<1>14. SafeDecided'
  <2> HIDE DEF count
  <2>1. crashFile'.count = count
    BY <1>4
  <2>2. Row(starts', CrashThreshold) <=> Len(starts') = CrashThreshold /\ InWindow(starts')
    BY <1>6, AllInWindow
  <2>3. NoFalseSafeMode'
    BY <1>2, <1>4, <1>11, <2>1, <2>2 DEF NoFalseSafeMode, CountSound, InWindow
  <2>4. CrashLoopCaught'
    BY <1>2, <1>12, <2>1, <2>2 DEF CrashLoopCaught, InWindow
  <2> QED BY <1>1, <2>3, <2>4 DEF SafeDecided, Booted
<1> QED BY <1>9, <1>10, <1>11, <1>13, <1>14 DEF BootInv

\* A stability timer clears the count and a stop command forgets it.
LEMMA TimersClear ==
    ASSUME BootInv, NEW t \in timers, StabilityTimer(t)
    PROVE  BootInv'
<1> USE BootAssumption
<1>1. /\ UNCHANGED <<now, stage, safe, starts, panics, nstarts, bootFaults, forwarding, rules>>
      /\ timers' = timers \ {t} /\ crashFile' = [count |-> 0, last |-> t.last] /\ now >= t.due
  BY DEF StabilityTimer, kernel, history
<1>2. t \in [due : Nat, last : 0..MaxTime] /\ t.due = t.last + CrashWindow
  BY DEF BootInv, BootTypes, CountBounded
<1>3. BootTypes'
  BY <1>1, <1>2 DEF BootInv, BootTypes
<1>4. CountBounded'
  BY <1>1 DEF BootInv, BootTypes, CountBounded
<1>5. CountSound'
  BY <1>1 DEF CountSound
<1>6. CountComplete'
  <2> SUFFICES ASSUME ~panics' PROVE CountComplete'
    BY DEF CountComplete
  <2>1. t.last = LastStart /\ now >= LastStart + CrashWindow
    BY <1>1, <1>2 DEF BootInv, CountComplete
  <2> QED BY <1>1, <2>1 DEF BootInv, CountComplete, LastStart
<1>7. SafeDecided'
  BY <1>1 DEF BootInv, SafeDecided, NoFalseSafeMode, CrashLoopCaught, Booted
<1> QED BY <1>3, <1>4, <1>5, <1>6, <1>7 DEF BootInv

LEMMA StopsKeepBootInv ==
    ASSUME BootInv, NEW command \in BOOLEAN, Stop(command)
    PROVE  BootInv'
<1> USE BootAssumption
<1>1. CASE ~command
  <2>1. safe' = FALSE /\ panics' = panics
    BY <1>1 DEF Stop, BootInv, BootTypes
  <2>2. safe' \in BOOLEAN /\ (safe' => safe) /\ panics' \in BOOLEAN
    BY <2>1, Zenon DEF BootInv, BootTypes
  <2>3. Quiet
    BY <1>1, <2>1, <2>2 DEF Quiet, Stop, BootInv, BootTypes, SafeDecided, kernel, Decided,
                                 Booted, StageNames
  <2> QED BY <2>3, QuietKeepsBootInv
<1>2. CASE command
  <2>1. /\ stage' = "down" /\ timers' = {} /\ safe' = FALSE /\ panics' = FALSE
        /\ crashFile' = [count |-> 0, last |-> Never] /\ starts' = <<>>
        /\ UNCHANGED <<now, nstarts, bootFaults, forwarding, rules>>
    BY <1>2 DEF Stop, kernel, NoCrashState
  <2>2. BootTypes'
    <3>1. safe' \in BOOLEAN /\ panics' \in BOOLEAN
      BY <2>1, Zenon
    <3> QED BY <2>1, <3>1 DEF BootInv, BootTypes, StageNames
  <2>3. CountBounded'
    BY <2>1 DEF BootInv, BootTypes, CountBounded
  <2>4. CountSound'
    BY <2>1 DEF CountSound
  <2>5. CountComplete'
    BY <2>1 DEF CountComplete, Row
  <2>6. SafeDecided'
    BY <2>1 DEF SafeDecided, NoFalseSafeMode, CrashLoopCaught, Booted
  <2> QED BY <2>2, <2>3, <2>4, <2>5, <2>6 DEF BootInv
<1> QED BY <1>1, <1>2

\* The kernel has rules once the services are there, unless both attempts to
\* set them failed.
RulesSet == bootFaults \in Nat /\ (stage \in {"services", "up"} => rules # "none")

\* Safe mode is entered after CrashThreshold starts in a row, each within the
\* window of the one before, and only then, whatever the stability timers of
\* earlier starts write; and it keeps forwarding off.
THEOREM SafeModeForLoops ==
    BootSpec => [](/\ BootTypeOK /\ NoFalseSafeMode /\ CrashLoopCaught
                   /\ Booted /\ safe => ~forwarding)
<1> USE BootAssumption
<1>1. BootInit => BootInv
  <2> SUFFICES ASSUME BootInit PROVE BootInv
    OBVIOUS
  <2>1. safe \in BOOLEAN /\ panics \in BOOLEAN /\ forwarding \in BOOLEAN
    BY Zenon DEF BootInit
  <2>2. BootTypes
    BY <2>1 DEF BootInit, BootTypes, NoCrashState, StageNames
  <2>3. CountBounded /\ CountSound
    BY DEF BootInit, CountBounded, CountSound, NoCrashState
  <2>4. CountComplete
    BY DEF BootInit, CountComplete, Row
  <2>5. SafeDecided
    BY DEF BootInit, SafeDecided, NoFalseSafeMode, CrashLoopCaught, Booted
  <2> QED BY <2>2, <2>3, <2>4, <2>5 DEF BootInv
<1>2. BootInv /\ [BootNext]_bootVars => BootInv'
  BY QuietSteps, StartCounts, TimersClear, StopsKeepBootInv DEF BootNext, BootStep
<1>3. BootInv => BootTypeOK
  <2> SUFFICES ASSUME BootInv PROVE BootTypeOK
    OBVIOUS
  <2> USE DEF BootInv, BootTypes
  <2>1. crashFile.count \in 0..MaxStarts /\ crashFile.last \in 0..MaxTime \cup {Never}
    BY DEF CountBounded
  <2> QED BY <2>1 DEF CountBounded, BootTypeOK
<1>4. BootInv => NoFalseSafeMode /\ CrashLoopCaught /\ (Booted /\ safe => ~forwarding)
  BY DEF BootInv, SafeDecided
<1> QED BY <1>1, <1>2, <1>3, <1>4, PTL DEF BootSpec

\* If at most one nft command fails while the daemon starts, the kernel also
\* has rules once the services are there.
THEOREM SafeModeIsSound == ASSUME MaxBootFaults <= 1 PROVE BootSpec => []SafeModeSound
<1> USE BootAssumption
<1>1. BootInit => RulesSet
  BY DEF BootInit, RulesSet
<1>2. RulesSet /\ [BootNext]_bootVars => RulesSet'
  <2> SUFFICES ASSUME RulesSet, [BootNext]_bootVars PROVE RulesSet'
    OBVIOUS
  <2>1. CASE InitializeCoreServices
    BY <2>1 DEF InitializeCoreServices, RulesSet
  <2>2. CASE LoadConfiguration \/ InitializeNetwork \/ StartServers \/ RestartInProcess
    BY <2>2 DEF LoadConfiguration, InitializeNetwork, StartServers, RestartInProcess, Goes,
                RulesSet, kernel
  <2>3. CASE Crash \/ Panic \/ StartChild \/ StartByHand
    BY <2>3 DEF Crash, ExitError, Panic, StartChild, StartByHand, Goes, RulesSet, kernel
  <2>4. CASE ForwardSignal \/ Tick \/ UNCHANGED bootVars
    BY <2>4 DEF ForwardSignal, Tick, bootVars, RulesSet, kernel
  <2>5. ASSUME NEW t \in timers, StabilityTimer(t) PROVE RulesSet'
    BY <2>5 DEF StabilityTimer, RulesSet, kernel
  <2>6. ASSUME NEW command \in BOOLEAN, Stop(command) PROVE RulesSet'
    BY <2>6 DEF Stop, RulesSet, kernel
  <2>7. ASSUME NEW sig \in {"hup", "term"}, Signal(sig) PROVE RulesSet'
    BY <2>7 DEF Signal, RulesSet, kernel
  <2> QED BY <2>1, <2>2, <2>3, <2>4, <2>5, <2>6, <2>7 DEF BootNext, BootStep
<1>3. /\ RulesSet /\ (Booted /\ safe => ~forwarding) => SafeModeCloses
      /\ BootTypeOK /\ NoFalseSafeMode /\ CrashLoopCaught /\ SafeModeCloses => SafeModeSound
  BY DEF RulesSet, SafeModeCloses, SafeModeSound
<1> QED BY <1>1, <1>2, <1>3, SafeModeForLoops, PTL DEF BootSpec

-----------------------------------------------------------------------------
(* The upgrade                                                             *)

\* Where an upgrade stands that has not ended.
Running == {"accept1", "ready", "accept2"}

UpTypes ==
    /\ att \in [Upgrades -> {"none", "accept1", "ready", "accept2", "done", "failed"}]
    /\ proc \in [Upgrades -> {"none", "load", "ready", "dial2", "fds", "serving", "dead"}]
    /\ backlog \in [Upgrades -> Seq(Upgrades)]
    /\ sock \in Processes /\ peer \in [Upgrades -> Processes]
    /\ told \subseteq Upgrades /\ got \subseteq Upgrades
    /\ armed \subseteq Processes /\ api \subseteq Processes
    /\ pidFile \in Processes \cup {NoPid} /\ collecting \in BOOLEAN /\ alive \in BOOLEAN

\* One upgrade at a time: the socket path leads to the one that runs.
OneAtATime ==
    /\ \A j, k \in Upgrades :
         j # k /\ att[j] \notin {"none", "failed"} => att[k] \in {"none", "failed"}
    /\ \A k \in Upgrades : att[k] \in Running => sock = k
    /\ sock # 0 => att[sock] \in Running
    /\ ~alive => \E k \in Upgrades : att[k] = "done"

\* How far the new process can be, by where the old one is, and which of its
\* two connections is waiting.
Together(k) ==
    /\ att[k] = "none" => proc[k] = "none" /\ backlog[k] = <<>> /\ k \notin told /\ k \notin got
    /\ att[k] = "accept1" =>
         /\ k \notin told /\ k \notin got
         /\ \/ proc[k] = "load" /\ backlog[k] = <<>>
            \/ proc[k] = "ready" /\ backlog[k] = <<k>>
            \/ proc[k] = "dead" /\ backlog[k] \in {<<>>, <<k>>}
    /\ att[k] = "ready" =>
         /\ k \notin told /\ k \notin got
         /\ peer[k] = k /\ backlog[k] = <<>> /\ proc[k] \in {"ready", "dead"}
    /\ att[k] = "accept2" =>
         /\ k \in told /\ k \notin got
         /\ \/ proc[k] \in {"ready", "dial2"} /\ backlog[k] = <<>>
            \/ proc[k] = "fds" /\ backlog[k] = <<k>>
            \/ proc[k] = "dead" /\ backlog[k] \in {<<>>, <<k>>}
    /\ att[k] = "done" => k \in told /\ k \in got /\ proc[k] \in {"fds", "serving"}
    /\ att[k] = "failed" => proc[k] \in {"none", "dead"} /\ k \notin got

UpInv == UpTypes /\ OneAtATime /\ \A k \in Upgrades : Together(k)

\* What a step of one upgrade leaves alone.
LEMMA OthersTogether ==
    ASSUME NEW j \in Upgrades, Together(j),
           att'[j] = att[j], proc'[j] = proc[j], backlog'[j] = backlog[j], peer'[j] = peer[j],
           j \in told' <=> j \in told, j \in got' <=> j \in got
    PROVE  Together(j)'
BY DEF Together

\* The upgrade that runs ends: the socket path goes.
LEMMA ReturnKeepsOne ==
    ASSUME UpTypes, OneAtATime, NEW k \in Upgrades, att[k] \in Running, alive' = alive, alive,
           NEW result \in {"done", "failed"}, Return(k, result)
    PROVE  OneAtATime'
<1>1. \A j \in Upgrades : j # k => att[j] \in {"none", "failed"} /\ att'[j] = att[j]
  BY DEF UpTypes, OneAtATime, Return, Running
<1>2. att'[k] = result /\ sock' = 0
  BY DEF UpTypes, Return
<1> QED BY <1>1, <1>2 DEF OneAtATime, Running

\* The steps of InitiateUpgrade.
LEMMA OldKeepsUpInv ==
    ASSUME UpgradeAssumption, ~Overlap, UpInv, NEW k \in Upgrades,
           Upgrade(k) \/ OldStep(k)
    PROVE  UpInv'
<1> USE DEF UpInv
<1>1. k \in Nat /\ k # 0 /\ k \in Processes
  BY UpgradeAssumption DEF Upgrades, Processes
<1>2. CASE Upgrade(k)
  <2>1. /\ alive /\ att[k] = "none" /\ UNCHANGED <<backlog, peer, told, got, alive>>
        /\ \A j \in Upgrades : att[j] \in {"none", "failed"}
        /\ armed' \subseteq Processes /\ api' \subseteq Processes
    BY <1>2 DEF Upgrade, UpTypes
  <2>2. CASE /\ att' = [att EXCEPT ![k] = "accept1"] /\ proc' = [proc EXCEPT ![k] = "load"]
             /\ sock' = k /\ pidFile' = k /\ collecting' = TRUE
    <3>1. UpTypes'
      BY <1>1, <2>1, <2>2 DEF UpTypes
    <3>2. /\ att'[k] = "accept1" /\ proc'[k] = "load"
          /\ \A j \in Upgrades : j # k => att'[j] = att[j] /\ proc'[j] = proc[j]
      BY <2>2 DEF UpTypes
    <3>3. OneAtATime'
      BY <1>1, <2>1, <2>2, <3>2 DEF OneAtATime, Running
    <3>4. Together(k)'
      BY <2>1, <3>2 DEF Together
    <3> QED BY <2>1, <3>1, <3>2, <3>3, <3>4, OthersTogether
  <2>3. CASE Return(k, "failed") /\ collecting' = FALSE /\ UNCHANGED <<proc, pidFile>>
    <3>1. collecting' \in BOOLEAN /\ alive' \in BOOLEAN
      BY <2>1, <2>3, Zenon DEF UpTypes
    <3>2. UpTypes'
      BY <1>1, <2>1, <2>3, <3>1 DEF UpTypes, Return, Processes
    <3>3. /\ att'[k] = "failed" /\ sock' = 0
          /\ \A j \in Upgrades : j # k => att'[j] = att[j]
      BY <2>3 DEF UpTypes, Return
    <3>4. OneAtATime'
      BY <2>1, <3>3 DEF OneAtATime, Running
    <3>5. Together(k)'
      BY <2>1, <2>3, <3>3 DEF Together
    <3> QED BY <2>1, <2>3, <3>2, <3>3, <3>4, <3>5, OthersTogether
  <2> QED BY <1>2, <2>2, <2>3 DEF Upgrade
<1>3. CASE AcceptFirst(k)
  <2>1. /\ att[k] = "accept1" /\ backlog[k] = <<k>> /\ proc[k] \in {"ready", "dead"}
        /\ k \notin told /\ k \notin got
    BY <1>3 DEF AcceptFirst, Together
  <2>2. Head(backlog[k]) = k /\ Tail(backlog[k]) = <<>> /\ <<>> \in Seq(Upgrades)
    BY <2>1
  <2>3. /\ att' = [att EXCEPT ![k] = "ready"] /\ peer' = [peer EXCEPT ![k] = k]
        /\ backlog' = [backlog EXCEPT ![k] = <<>>]
        /\ UNCHANGED <<proc, sock, told, got, alive, armed, api, pidFile, collecting>>
    BY <1>3, <2>2 DEF AcceptFirst
  <2>4. UpTypes'
    BY <1>1, <2>2, <2>3 DEF UpTypes
  <2>5. /\ att'[k] = "ready" /\ peer'[k] = k /\ backlog'[k] = <<>>
        /\ \A j \in Upgrades : j # k =>
             att'[j] = att[j] /\ peer'[j] = peer[j] /\ backlog'[j] = backlog[j]
    BY <2>3 DEF UpTypes
  <2>6. OneAtATime'
    BY <2>1, <2>3, <2>5 DEF OneAtATime, Running
  <2>7. Together(k)'
    BY <2>1, <2>3, <2>5 DEF Together
  <2> QED BY <2>3, <2>4, <2>5, <2>6, <2>7, OthersTogether
<1>4. ASSUME alive, att[k] \in Running, k \notin got, Kill(k), Return(k, "failed"),
             backlog' \in [Upgrades -> Seq(Upgrades)],
             \A j \in Upgrades : j # k => backlog'[j] = backlog[j],
             UNCHANGED <<peer, told, got, alive, armed, api, pidFile>>,
             collecting' \in BOOLEAN
      PROVE  UpInv'
  <2>1. UpTypes'
    BY <1>4 DEF UpTypes, Kill, Return, Processes
  <2>2. /\ att'[k] = "failed" /\ proc'[k] = "dead"
        /\ \A j \in Upgrades : j # k => att'[j] = att[j] /\ proc'[j] = proc[j]
    BY <1>4 DEF UpTypes, Kill, Return
  <2>3. OneAtATime'
    BY <1>4, ReturnKeepsOne
  <2>4. Together(k)'
    BY <1>4, <2>2 DEF Together
  <2> QED BY <1>4, <2>1, <2>2, <2>3, <2>4, OthersTogether
<1>5. CASE FirstFails(k)
  BY <1>4, <1>5 DEF FirstFails, Running, Together, UpTypes
<1>6. CASE SyncDeltas(k)
  <2>1. /\ att[k] = "ready" /\ k \notin got /\ backlog[k] = <<>> /\ proc[k] = "ready"
        /\ att' = [att EXCEPT ![k] = "accept2"]
        /\ told' = told \cup {k} /\ collecting' = FALSE
        /\ UNCHANGED <<proc, sock, backlog, peer, got, alive, armed, api, pidFile>>
    BY <1>6 DEF SyncDeltas, Together
  <2>2. UpTypes'
    BY <2>1 DEF UpTypes
  <2>3. att'[k] = "accept2" /\ \A j \in Upgrades : j # k => att'[j] = att[j]
    BY <2>1 DEF UpTypes
  <2>4. OneAtATime'
    BY <2>1, <2>3 DEF OneAtATime, Running
  <2>5. Together(k)'
    BY <2>1, <2>3 DEF Together
  <2> QED BY <2>1, <2>2, <2>3, <2>4, <2>5, OthersTogether
<1>7. CASE SyncFails(k)
  BY <1>4, <1>7 DEF SyncFails, Running, Together, UpTypes
<1>8. CASE SecondFails(k)
  BY <1>4, <1>8 DEF SecondFails, Running, Together, UpTypes
<1>9. CASE HandoffListeners(k)
  <2>1. /\ alive /\ att[k] = "accept2" /\ backlog[k] = <<k>> /\ proc[k] \in {"fds", "dead"}
        /\ k \in told /\ k \notin got
    BY <1>9 DEF HandoffListeners, Together
  <2>2. Head(backlog[k]) = k /\ Tail(backlog[k]) = <<>> /\ <<>> \in Seq(Upgrades)
    BY <2>1
  <2>3. /\ backlog' = [backlog EXCEPT ![k] = <<>>]
        /\ UNCHANGED <<peer, told, alive, armed, api, pidFile, collecting>>
    BY <1>9, <2>2 DEF HandoffListeners
  <2>4. CASE proc[k] = "dead"
    <3>1. Kill(k) /\ Return(k, "failed") /\ UNCHANGED got
      BY <1>9, <2>2, <2>4 DEF HandoffListeners
    <3>2. collecting' \in BOOLEAN
      BY <2>3 DEF UpTypes
    <3>3. /\ backlog' \in [Upgrades -> Seq(Upgrades)]
          /\ \A j \in Upgrades : j # k => backlog'[j] = backlog[j]
      BY <2>2, <2>3 DEF UpTypes
    <3> QED BY <1>4, <2>1, <2>3, <3>1, <3>2, <3>3 DEF Running
  <2>5. CASE proc[k] = "fds"
    <3>1. got' = got \cup {k} /\ Return(k, "done") /\ UNCHANGED proc
      BY <1>9, <2>2, <2>5 DEF HandoffListeners
    <3>2. UpTypes'
      BY <2>2, <2>3, <3>1 DEF UpTypes, Return, Processes
    <3>3. /\ att'[k] = "done"
          /\ \A j \in Upgrades : j # k => att'[j] = att[j] /\ backlog'[j] = backlog[j]
      BY <2>3, <3>1 DEF UpTypes, Return
    <3>4. OneAtATime'
      BY <2>1, <2>3, <3>1, ReturnKeepsOne DEF Running
    <3>5. Together(k)'
      BY <2>1, <2>3, <2>5, <3>1, <3>3 DEF Together
    <3> QED BY <2>3, <3>1, <3>2, <3>3, <3>4, <3>5, OthersTogether
  <2> QED BY <2>1, <2>4, <2>5
<1> QED BY <1>2, <1>3, <1>5, <1>6, <1>7, <1>8, <1>9 DEF OldStep

\* The steps of the new process, and its death.
LEMMA NewKeepsUpInv ==
    ASSUME UpgradeAssumption, UpInv, NEW k \in Upgrades, NewStep(k) \/ StandbyDies(k)
    PROVE  UpInv'
<1> USE DEF UpInv
<1>1. k \in Nat /\ k # 0 /\ k \in Processes
  BY UpgradeAssumption DEF Upgrades, Processes
<1>2. att' = att /\ sock' = sock /\ UNCHANGED <<peer, told, got, alive, collecting>>
  BY DEF NewStep, ConnectReady, ReceiveDeltas, DialSecond, TakeOver, StandbyDies
<1>3. OneAtATime'
  BY <1>2 DEF OneAtATime
<1>4. ASSUME NEW p \in {"load", "ready", "dial2", "fds", "serving", "dead"},
             proc' = [proc EXCEPT ![k] = p],
             UNCHANGED <<backlog, armed, api, pidFile>>,
             att[k] \notin {"none", "failed"},
             Together(k)'
      PROVE  UpInv'
  <2>1. UpTypes'
    BY <1>2, <1>4 DEF UpTypes
  <2>2. \A j \in Upgrades : j # k => proc'[j] = proc[j]
    BY <1>4 DEF UpTypes
  <2> QED BY <1>2, <1>3, <1>4, <2>1, <2>2, OthersTogether
<1>5. ASSUME proc[k] \notin {"none", "dead", "serving"}
      PROVE  att[k] \in {"accept1", "ready", "accept2", "done"}
  BY <1>5 DEF Together, UpTypes
<1>6. ASSUME Dies(k), k \notin got, proc[k] \notin {"none", "dead", "serving"},
             UNCHANGED <<backlog, armed, api, pidFile>>
      PROVE  UpInv'
  <2>1. proc' = [proc EXCEPT ![k] = "dead"] /\ proc'[k] = "dead" /\ backlog'[k] = backlog[k]
    BY <1>6 DEF Dies, UpTypes
  <2>2. Together(k)'
    BY <1>2, <1>6, <2>1 DEF Together
  <2> QED BY <1>4, <1>5, <1>6, <2>1, <2>2
<1>7. ASSUME sock = k, NEW p \in {"ready", "fds", "dead"}, proc' = [proc EXCEPT ![k] = p],
             backlog' = [backlog EXCEPT ![sock] = Append(@, k)],
             UNCHANGED <<armed, api, pidFile>>, att[k] \in {"accept1", "accept2"},
             backlog[k] = <<>>,
             att[k] = "accept1" => p \in {"ready", "dead"},
             att[k] = "accept2" => p = "fds"
      PROVE  UpInv'
  <2>1. /\ Append(backlog[k], k) = <<k>> /\ <<k>> \in Seq(Upgrades)
    BY <1>7
  <2>2. /\ proc'[k] = p /\ backlog'[k] = <<k>>
        /\ \A j \in Upgrades : j # k => proc'[j] = proc[j] /\ backlog'[j] = backlog[j]
    BY <1>7, <2>1 DEF UpTypes
  <2>3. backlog' \in [Upgrades -> Seq(Upgrades)]
    BY <1>7, <2>1 DEF UpTypes
  <2>4. UpTypes'
    BY <1>2, <1>7, <2>3 DEF UpTypes
  <2>5. Together(k)'
    BY <1>2, <1>7, <2>2 DEF Together
  <2> QED BY <1>2, <1>3, <2>2, <2>4, <2>5, OthersTogether
<1>8. CASE ConnectReady(k)
  <2>1. /\ proc[k] = "load" /\ att[k] = "accept1" /\ sock = k /\ sock # 0
        /\ backlog[k] = <<>> /\ UNCHANGED <<armed, api, pidFile>>
    BY <1>1, <1>8 DEF ConnectReady, Together, OneAtATime, Running, UpTypes
  <2>2. PICK valid \in BOOLEAN :
            /\ backlog' = [backlog EXCEPT ![sock] = Append(@, k)]
            /\ IF valid THEN proc' = [proc EXCEPT ![k] = "ready"] ELSE Dies(k)
    BY <1>8, <2>1 DEF ConnectReady
  <2>3. CASE proc' = [proc EXCEPT ![k] = "ready"]
    BY <1>7, <2>1, <2>2, <2>3
  <2>4. CASE proc' = [proc EXCEPT ![k] = "dead"]
    BY <1>7, <2>1, <2>2, <2>4
  <2> QED BY <2>2, <2>3, <2>4 DEF Dies
<1>9. CASE ReceiveDeltas(k)
  <2>1. proc[k] = "ready" /\ UNCHANGED <<backlog, armed, api, pidFile>>
    BY <1>9 DEF ReceiveDeltas
  <2>2. CASE k \in told
    <3>1. proc' = [proc EXCEPT ![k] = "dial2"] /\ proc'[k] = "dial2"
      BY <1>9, <2>2 DEF ReceiveDeltas, UpTypes
    <3>2. Together(k)'
      BY <1>2, <2>1, <2>2, <3>1 DEF Together
    <3> QED BY <1>4, <1>5, <2>1, <3>1, <3>2
  <2>3. CASE k \notin told
    <3>1. Dies(k) /\ k \notin got
      BY <1>5, <1>9, <2>1, <2>3 DEF ReceiveDeltas, Together
    <3> QED BY <1>6, <2>1, <3>1
  <2> QED BY <2>2, <2>3
<1>10. CASE DialSecond(k)
  <2>1. /\ proc[k] = "dial2" /\ att[k] = "accept2" /\ sock = k /\ sock # 0
        /\ backlog[k] = <<>> /\ UNCHANGED <<armed, api, pidFile>>
    BY <1>1, <1>10, <1>5 DEF DialSecond, Together, OneAtATime, Running
  <2>2. /\ backlog' = [backlog EXCEPT ![sock] = Append(@, k)]
        /\ proc' = [proc EXCEPT ![k] = "fds"]
    BY <1>10, <2>1 DEF DialSecond
  <2> QED BY <1>7, <2>1, <2>2
<1>11. CASE TakeOver(k)
  <2>1. /\ proc[k] = "fds" /\ backlog' = backlog
        /\ proc' = [proc EXCEPT ![k] = "serving"]
        /\ armed' = armed \cup {k} /\ api' = api \cup {k} /\ pidFile' = k
        /\ k \in got \/ ~alive
    BY <1>11 DEF TakeOver
  <2>2. att[k] = "done"
    <3>1. att[k] \in {"accept1", "ready", "accept2", "done"}
      BY <1>5, <2>1
    <3>2. CASE k \in got
      BY <3>1, <3>2 DEF Together
    <3>3. CASE ~alive
      BY <3>1, <3>3 DEF OneAtATime
    <3> QED BY <2>1, <3>2, <3>3
  <2>3. UpTypes'
    BY <1>1, <1>2, <2>1 DEF UpTypes
  <2>4. proc'[k] = "serving" /\ \A j \in Upgrades : j # k => proc'[j] = proc[j]
    BY <2>1 DEF UpTypes
  <2>5. Together(k)'
    BY <1>2, <2>1, <2>2, <2>4 DEF Together
  <2> QED BY <1>2, <1>3, <2>1, <2>3, <2>4, <2>5, OthersTogether
<1>12. CASE StandbyDies(k)
  BY <1>6, <1>12 DEF StandbyDies, Standby
<1> QED BY <1>8, <1>9, <1>10, <1>11, <1>12 DEF NewStep

\* At every moment of an upgrade somebody owns the sockets, and a process whose
\* upgrade failed is not left behind, when no Upgrade RPC comes while another
\* one runs: whichever side fails or is late, at whatever step.
THEOREM HandoverCorrect ==
    ASSUME ~Overlap
    PROVE  UpgradeSpec => []HandoverSound
<1>1. UpgradeInit => UpInv
  <2> SUFFICES ASSUME UpgradeInit PROVE UpInv
    OBVIOUS
  <2>1. UpTypes
    <3>1. <<>> \in Seq(Upgrades) /\ 0 \in Processes
      BY UpgradeAssumption DEF Processes
    <3>2. alive \in BOOLEAN /\ collecting \in BOOLEAN
      BY Zenon DEF UpgradeInit
    <3>3. backlog \in [Upgrades -> Seq(Upgrades)]
      BY <3>1, Zenon DEF UpgradeInit
    <3> QED BY <3>1, <3>2, <3>3 DEF UpgradeInit, UpTypes
  <2>2. OneAtATime
    BY DEF UpgradeInit, OneAtATime, Running
  <2>3. \A k \in Upgrades : Together(k)
    BY DEF UpgradeInit, Together
  <2> QED BY <2>1, <2>2, <2>3 DEF UpInv
<1>2. UpInv /\ [UpgradeNext]_upgradeVars => UpInv'
  <2> SUFFICES ASSUME UpInv, [UpgradeNext]_upgradeVars PROVE UpInv'
    OBVIOUS
  <2>1. ASSUME NEW k \in Upgrades, Upgrade(k) \/ OldStep(k) PROVE UpInv'
    BY <2>1, UpgradeAssumption, OldKeepsUpInv
  <2>2. ASSUME NEW k \in Upgrades, NewStep(k) \/ StandbyDies(k) PROVE UpInv'
    BY <2>2, UpgradeAssumption, NewKeepsUpInv
  <2>3. ASSUME UNCHANGED <<att, proc, sock, backlog, peer, told, got, collecting>>,
               armed' \subseteq Processes, api' \subseteq Processes,
               pidFile' \in Processes \cup {NoPid}, alive' \in BOOLEAN,
               ~alive' => \E k \in Upgrades : att[k] = "done"
        PROVE  UpInv'
    <3>1. UpTypes'
      BY <2>3 DEF UpInv, UpTypes
    <3>2. OneAtATime'
      BY <2>3 DEF UpInv, OneAtATime
    <3>3. \A k \in Upgrades : Together(k)'
      BY <2>3 DEF UpInv, Together
    <3> QED BY <3>1, <3>2, <3>3 DEF UpInv
  <2>4. CASE Exit
    <3>1. alive' \in BOOLEAN
      BY <2>4, Zenon DEF Exit
    <3> QED BY <2>3, <2>4, <3>1 DEF Exit, UpInv, UpTypes
  <2>5. ASSUME NEW p \in Processes, PidWatchdog(p) \/ ApiDies(p) \/ SpawnAPI(p)
        PROVE  UpInv'
    <3>1. ~alive' => \E k \in Upgrades : att[k] = "done"
      BY <2>5 DEF PidWatchdog, ApiDies, SpawnAPI, UpInv, OneAtATime
    <3> QED BY <2>3, <2>5, <3>1 DEF PidWatchdog, ApiDies, SpawnAPI, UpInv, UpTypes
  <2>6. CASE UNCHANGED upgradeVars
    <3>1. ~alive' => \E k \in Upgrades : att[k] = "done"
      BY <2>6 DEF upgradeVars, UpInv, OneAtATime
    <3> QED BY <2>3, <2>6, <3>1 DEF upgradeVars, UpInv, UpTypes
  <2> QED BY <2>1, <2>2, <2>4, <2>5, <2>6 DEF UpgradeNext
<1>3. UpInv => HandoverSound
  <2> SUFFICES ASSUME UpInv PROVE HandoverSound
    OBVIOUS
  <2>1. got \subseteq told
    BY DEF UpInv, UpTypes, Together
  <2>2. UpgradeTypeOK
    BY <2>1 DEF UpInv, UpTypes, UpgradeTypeOK
  <2>3. NoGap
    BY DEF UpInv, OneAtATime, Together, NoGap
  <2>4. NoStray
    BY DEF UpInv, Together, NoStray
  <2> QED BY <2>2, <2>3, <2>4 DEF HandoverSound
<1> QED BY <1>1, <1>2, <1>3, PTL DEF UpgradeSpec

-----------------------------------------------------------------------------
(* Calls to the control plane                                              *)

\* Every failure a handler reports in its reply is looked at by somebody, but
\* for those listed as unheard.
Heard(m) ==
    \/ m \in Unheard
    \/ m \in ClientReads
    \/ m \in ClientPasses /\ m \in EditorReads \cup BackupHandlerReads

LEMMA RepliesHeard ==
    ASSUME NEW group \in HandlerGroups, NEW m \in DOMAIN group, group[m] = "reply"
    PROVE  Heard(m)
<1> USE DEF Heard, Unheard
<1>1. CASE group = StatusHandlers
  BY <1>1 DEF StatusHandlers
<1>2. CASE group = UpgradeHandlers
  BY <1>2 DEF UpgradeHandlers, ClientReads, UpgradeReads
<1>3. CASE group = ServiceHandlers
  BY <1>3 DEF ServiceHandlers
<1>4. CASE group = TopologyHandlers
  BY <1>4 DEF TopologyHandlers
<1>5. CASE group = DeviceHandlers
  BY <1>5 DEF DeviceHandlers, ClientReads, ScanReads
<1>6. CASE group = InterfaceHandlers
  BY <1>6 DEF InterfaceHandlers, ClientPasses, EditorReads, InterfacePasses
<1>7. CASE group = HCLHandlers
  BY <1>7 DEF HCLHandlers, ClientPasses, EditorReads, HCLPasses
<1>8. CASE group = SaveHandlers
  BY <1>8 DEF SaveHandlers, ClientReads, UpgradeReads, ClientPasses, EditorReads, HCLPasses
<1>9. CASE group = BackupHandlers
  BY <1>9 DEF BackupHandlers, ClientPasses, BackupHandlerReads, BackupPasses
<1>10. CASE group = RetentionHandlers
  BY <1>10 DEF RetentionHandlers, ClientPasses, BackupHandlerReads, BackupPasses
<1>11. CASE group = LearningHandlers
  BY <1>11 DEF LearningHandlers
<1>12. CASE group = IPSetHandlers
  BY <1>12 DEF IPSetHandlers, ClientReads, IPSetReads
<1>13. CASE group = SystemHandlers
  BY <1>13 DEF SystemHandlers
<1>14. CASE group = ScanHandlers
  BY <1>14 DEF ScanHandlers, ClientReads, ScanReads
<1>15. CASE group = ProbeHandlers
  BY <1>15 DEF ProbeHandlers, ClientReads, ScanReads, ClientPasses, BackupHandlerReads
<1>16. CASE group = SafeModeHandlers
  BY <1>16 DEF SafeModeHandlers
<1>17. CASE group = FlowHandlers
  BY <1>17 DEF FlowHandlers, ClientReads, FlowReads
<1>18. CASE group = UplinkHandlers
  BY <1>18 DEF UplinkHandlers, ClientReads, FlowReads
<1>19. CASE group = LogHandlers
  BY <1>19 DEF LogHandlers, ClientPasses, BackupHandlerReads, BackupPasses
<1>20. CASE group = RouteHandlers
  BY <1>20 DEF RouteHandlers
<1> QED BY <1>1, <1>2, <1>3, <1>4, <1>5, <1>6, <1>7, <1>8, <1>9, <1>10, <1>11, <1>12,
           <1>13, <1>14, <1>15, <1>16, <1>17, <1>18, <1>19, <1>20 DEF HandlerGroups

LEMMA HandlerKinds ==
    ASSUME NEW group \in HandlerGroups, NEW m \in DOMAIN group
    PROVE  group[m] \in {"never", "returns", "reply"}
<1>1. CASE group \in {StatusHandlers, UpgradeHandlers, ServiceHandlers, TopologyHandlers,
                      DeviceHandlers, InterfaceHandlers, HCLHandlers, SaveHandlers}
  BY <1>1 DEF StatusHandlers, UpgradeHandlers, ServiceHandlers, TopologyHandlers,
              DeviceHandlers, InterfaceHandlers, HCLHandlers, SaveHandlers
<1>2. CASE group \in {BackupHandlers, RetentionHandlers, LearningHandlers, IPSetHandlers,
                      SystemHandlers, ScanHandlers, ProbeHandlers}
  BY <1>2 DEF BackupHandlers, RetentionHandlers, LearningHandlers, IPSetHandlers,
              SystemHandlers, ScanHandlers, ProbeHandlers
<1>3. CASE group \in {SafeModeHandlers, FlowHandlers, UplinkHandlers, LogHandlers,
                      RouteHandlers}
  BY <1>3 DEF SafeModeHandlers, FlowHandlers, UplinkHandlers, LogHandlers, RouteHandlers
<1> QED BY <1>1, <1>2, <1>3 DEF HandlerGroups

\* A failure that a handler reports, in whichever way, is relayed.
LEMMA FailuresRelayed ==
    ASSUME NEW c \in Callers \ Unheard, Handlers[MethodOf(c)] # "never"
    PROVE  Relayed(c)
<1>1. c \in DOMAIN Handlers /\ MethodOf(c) = c
  BY DEF Callers, Unheard, MethodOf
<1>2. PICK group \in HandlerGroups : c \in DOMAIN group
  BY <1>1 DEF Handlers
<1>3. PICK g \in HandlerGroups : c \in DOMAIN g /\ Handlers[c] = g[c]
  BY <1>1, <1>2 DEF Handlers
<1>4. Handlers[c] = "returns" \/ Handlers[c] = "reply"
  BY <1>1, <1>3, HandlerKinds
<1>5. Handlers[c] = "reply" => Heard(c)
  BY <1>3, RepliesHeard
<1> QED BY <1>1, <1>4, <1>5 DEF Relayed, Heard

\* A call: where it is, and what is known of its executions.
Call ==
    [at : {"idle", "call", "executed", "reconnect", "told"}, caller : Callers \cup {""},
     on : Nat, try : Nat, runs : Nat, failed : BOOLEAN, crash : BOOLEAN,
     told : {"", "error", "ok"}]

\* Strengthening: a call was executed before its first attempt failed only if
\* a reply was under way; it reconnects only when its connection is gone; and
\* an execution failed only if its handler reports failures.
CallInv(t) ==
    LET c == thread[t]
    IN /\ c.at # "idle" => c.caller \in Callers
       /\ c.at \in {"idle", "call"} /\ c.try # 2 => c.runs = 0
       /\ c.at = "call" => c.try \in {1, 2}
       /\ c.at = "executed" => c.runs > 0
       /\ c.at = "reconnect" => c.on \in broken
       /\ c.failed => Handlers[MethodOf(c.caller)] # "never"
       /\ c.at \in {"executed", "reconnect"} /\ c.runs > 0 /\ c.on \in broken => c.crash
       /\ c.told = "ok" =>
            c.at = "told" /\ c.runs > 0 /\ (c.failed => ~Relayed(c.caller))

RpcInv == thread \in [Threads -> Call] /\ conn \in Nat /\ dialled \in Nat
              /\ broken \subseteq 1..dialled
              /\ \A t \in Threads : CallInv(t)

\* The updates the steps make to a call give a call.
LEMMA CallType ==
    ASSUME NEW c \in Call
    PROVE  /\ c.runs \in Nat /\ c.try \in Nat /\ c.on \in Nat
           /\ \A r \in Nat, f \in BOOLEAN :
                [c EXCEPT !.at = "executed", !.runs = r, !.failed = f, !.crash = FALSE] \in Call
           /\ \A answer \in {"ok", "error"} : [c EXCEPT !.at = "told", !.told = answer] \in Call
           /\ [c EXCEPT !.at = "reconnect"] \in Call
           /\ \A n \in Nat : [c EXCEPT !.at = "call", !.on = n, !.try = 2] \in Call
           /\ [c EXCEPT !.crash = TRUE] \in Call
<1>1. c.runs \in Nat /\ c.try \in Nat /\ c.on \in Nat
  BY DEF Call
<1>2. ASSUME NEW r \in Nat, NEW f \in BOOLEAN
      PROVE  [c EXCEPT !.at = "executed", !.runs = r, !.failed = f, !.crash = FALSE] \in Call
  BY DEF Call
<1>3. ASSUME NEW answer \in {"ok", "error"}
      PROVE  [c EXCEPT !.at = "told", !.told = answer] \in Call
  BY DEF Call
<1>4. [c EXCEPT !.at = "reconnect"] \in Call
  BY DEF Call
<1>5. ASSUME NEW n \in Nat PROVE [c EXCEPT !.at = "call", !.on = n, !.try = 2] \in Call
  BY DEF Call
<1>6. [c EXCEPT !.crash = TRUE] \in Call
  BY DEF Call
<1> QED BY <1>1, <1>2, <1>3, <1>4, <1>5, <1>6

\* A step of one call, on connections that stay as they are.
LEMMA OneCall ==
    ASSUME RpcInv, NEW t \in Threads, NEW c \in Call, thread' = [thread EXCEPT ![t] = c],
           broken' = broken, conn' \in Nat, dialled' \in Nat, dialled' >= dialled,
           CallInv(t)'
    PROVE  RpcInv'
<1>1. thread' \in [Threads -> Call]
  BY DEF RpcInv
<1>2. ASSUME NEW u \in Threads, u # t PROVE CallInv(u)'
  <2>1. thread'[u] = thread[u]
    BY <1>2 DEF RpcInv
  <2> QED BY <2>1 DEF RpcInv, CallInv
<1>3. broken' \subseteq 1..dialled'
  BY DEF RpcInv
<1> QED BY <1>1, <1>2, <1>3 DEF RpcInv

\* "ok" is never said of a call whose last execution failed, or that was not
\* executed, if its failures are heard of at all; and an answer is lost, and
\* the call executed again, only when the control plane died in between,
\* however many requests share the connection and reconnect it.
THEOREM CallsAreHonest == RpcSpec => []CallsHonest
<1>1. RpcInit => RpcInv
  <2> SUFFICES ASSUME RpcInit PROVE RpcInv
    OBVIOUS
  <2>1. IdleThread \in Call
    BY Zenon DEF IdleThread, Call
  <2>2. \A t \in Threads : CallInv(t)
    BY DEF RpcInit, CallInv, IdleThread
  <2> QED BY <2>1, <2>2 DEF RpcInit, RpcInv
<1>2. RpcInv /\ [RpcNext]_rpcVars => RpcInv'
  <2> SUFFICES ASSUME RpcInv, [RpcNext]_rpcVars PROVE RpcInv'
    OBVIOUS
  <2>1. ASSUME NEW t \in Threads, NEW c \in Called[t], Begin(t, c) PROVE RpcInv'
    BY <2>1, RpcAssumption DEF RpcInv, Begin, IdleThread, Call, CallInv
  <2>2. ASSUME NEW t \in Threads, Execute(t) PROVE RpcInv'
    <3>1. PICK c \in Call : c = thread[t]
      BY DEF RpcInv
    <3>2. /\ c.at = "call" /\ c.on \notin broken /\ CallInv(t)
          /\ broken' = broken /\ conn' = conn /\ dialled' = dialled
      BY <2>2, <3>1 DEF Execute, RpcInv
    <3>3. PICK f \in (IF Handlers[MethodOf(c.caller)] = "never" THEN {FALSE} ELSE BOOLEAN) :
            thread' = [thread EXCEPT ![t].at = "executed", ![t].runs = @ + 1, ![t].failed = f,
                                        ![t].crash = FALSE]
      BY <2>2, <3>1 DEF Execute
    <3>4. c.runs \in Nat
      BY CallType
    <3>5. PICK r \in Nat : r = c.runs + 1 /\ r > 0
      BY <3>4
    <3> DEFINE d == [c EXCEPT !.at = "executed", !.runs = r, !.failed = f, !.crash = FALSE]
    <3>6. d \in Call
      BY CallType
    <3>7. thread' = [thread EXCEPT ![t] = d] /\ thread'[t] = d
      BY <3>1, <3>3, <3>5 DEF RpcInv
    <3>8. /\ d.at = "executed" /\ d.on = c.on /\ d.caller = c.caller /\ d.try = c.try
          /\ d.runs = r /\ d.told = c.told
      BY DEF Call
    <3>9. d.failed => Handlers[MethodOf(d.caller)] # "never"
      BY <3>3, <3>8 DEF Call
    <3>10. CallInv(t)'
      <4> HIDE DEF d
      <4> QED BY <3>1, <3>2, <3>5, <3>7, <3>8, <3>9 DEF CallInv
    <3>11. conn' \in Nat /\ dialled' \in Nat /\ dialled' >= dialled
      BY <3>2 DEF RpcInv
    <3> HIDE DEF d
    <3> QED BY <3>2, <3>6, <3>7, <3>10, <3>11, OneCall
  <2>3. ASSUME NEW t \in Threads, Reply(t) PROVE RpcInv'
    <3>1. PICK c \in Call : c = thread[t]
      BY DEF RpcInv
    <3>2. /\ c.at = "executed" /\ CallInv(t)
          /\ broken' = broken /\ conn' = conn /\ dialled' = dialled
      BY <2>3, <3>1 DEF Reply, RpcInv
    <3>3. PICK answer \in {"ok", "error"} :
            /\ answer = "ok" => ~(c.failed /\ Relayed(c.caller))
            /\ thread' = [thread EXCEPT ![t] = [c EXCEPT !.at = "told", !.told = answer]]
      BY <2>3, <3>1 DEF Reply, RpcInv
    <3> DEFINE d == [c EXCEPT !.at = "told", !.told = answer]
    <3>4. d \in Call
      BY CallType
    <3>5. thread'[t] = d
      BY <3>3 DEF RpcInv
    <3>6. /\ d.at = "told" /\ d.on = c.on /\ d.caller = c.caller /\ d.runs = c.runs
          /\ d.told = answer
      BY DEF Call
    <3>7. d.failed <=> c.failed
      BY DEF Call
    <3>8. CallInv(t)'
      <4> HIDE DEF d
      <4> QED BY <3>1, <3>2, <3>3, <3>5, <3>6, <3>7 DEF CallInv
    <3>9. thread' = [thread EXCEPT ![t] = d]
      BY <3>3
    <3>10. conn' \in Nat /\ dialled' \in Nat /\ dialled' >= dialled
      BY <3>2 DEF RpcInv
    <3> HIDE DEF d
    <3> QED BY <3>2, <3>4, <3>8, <3>9, <3>10, OneCall
  <2>4. ASSUME NEW t \in Threads, NetworkError(t) PROVE RpcInv'
    <3>1. PICK c \in Call : c = thread[t]
      BY DEF RpcInv
    <3>2. /\ c.at \in {"call", "executed"} /\ c.on \in broken /\ CallInv(t)
          /\ broken' = broken /\ conn' = conn /\ dialled' = dialled
      BY <2>4, <3>1 DEF NetworkError, RpcInv
    <3>3. conn' \in Nat /\ dialled' \in Nat /\ dialled' >= dialled
      BY <3>2 DEF RpcInv
    <3>4. CASE c.try = 1
      <4> DEFINE d == [c EXCEPT !.at = "reconnect"]
      <4>1. thread' = [thread EXCEPT ![t] = d] /\ thread'[t] = d
        BY <2>4, <3>1, <3>4 DEF NetworkError, RpcInv
      <4>2. d \in Call
        BY CallType
      <4>3. /\ d.at = "reconnect" /\ d.on = c.on /\ d.caller = c.caller /\ d.runs = c.runs
            /\ d.told = c.told
        BY DEF Call
      <4>4. (d.failed <=> c.failed) /\ (d.crash <=> c.crash)
        BY DEF Call
      <4>5. /\ c.told = "ok" => c.at = "told"
            /\ c.caller \in Callers
            /\ c.failed => Handlers[MethodOf(c.caller)] # "never"
            /\ c.at = "call" => c.runs = 0
            /\ c.at = "executed" /\ c.runs > 0 => c.crash
        BY <3>1, <3>2, <3>4 DEF CallInv
      <4>6. c.runs > 0 => c.crash
        BY <3>2, <4>5
      <4>7. d.told # "ok"
        BY <3>2, <4>3, <4>5
      <4>8. CallInv(t)'
        <5> HIDE DEF d
        <5>1. broken' = broken
          BY <3>2
        <5> QED BY <5>1, <3>2, <4>1, <4>3, <4>4, <4>5, <4>6, <4>7 DEF CallInv
      <4> HIDE DEF d
      <4> QED BY <3>2, <3>3, <4>1, <4>2, <4>8, OneCall
    <3>5. CASE c.try # 1
      <4> DEFINE d == [c EXCEPT !.at = "told", !.told = "error"]
      <4>1. thread' = [thread EXCEPT ![t] = d] /\ thread'[t] = d
        BY <2>4, <3>1, <3>5 DEF NetworkError, RpcInv
      <4>2. d \in Call
        BY CallType
      <4>3. /\ d.at = "told" /\ d.caller = c.caller /\ d.told = "error"
        BY DEF Call
      <4>4. d.failed <=> c.failed
        BY DEF Call
      <4>5. CallInv(t)'
        <5> HIDE DEF d
        <5> QED BY <3>1, <3>2, <4>1, <4>3, <4>4 DEF CallInv
      <4> HIDE DEF d
      <4> QED BY <3>2, <3>3, <4>1, <4>2, <4>5, OneCall
    <3> QED BY <3>4, <3>5
  <2>5. ASSUME NEW t \in Threads, Reconnect(t) PROVE RpcInv'
    <3>1. PICK c \in Call : c = thread[t]
      BY DEF RpcInv
    <3>2. c.at = "reconnect" /\ c.on \in broken /\ CallInv(t) /\ conn \in Nat /\ dialled \in Nat
      BY <2>5, <3>1 DEF Reconnect, RpcInv, CallInv
    <3>3. dialled + 1 \in Nat /\ dialled + 1 >= dialled
      BY <3>2
    <3>4. broken' = broken \/ broken' = broken \cup {c.on}
      BY <2>5, <3>1 DEF Reconnect
    <3>5. broken' = broken /\ conn' \in Nat /\ dialled' \in Nat /\ dialled' >= dialled
      <4>1. broken' = broken
        BY <3>2, <3>4
      <4>2. CASE conn' = conn /\ dialled' = dialled
        BY <3>2, <4>1, <4>2
      <4>3. CASE conn' = dialled + 1 /\ dialled' = dialled + 1
        BY <3>3, <4>1, <4>3
      <4> QED BY <2>5, <4>2, <4>3 DEF Reconnect
    <3>6. CASE \E n \in Nat :
                thread' = [thread EXCEPT ![t] = [c EXCEPT !.at = "call", !.on = n, !.try = 2]]
      <4>1. PICK n \in Nat :
              thread' = [thread EXCEPT ![t] = [c EXCEPT !.at = "call", !.on = n, !.try = 2]]
        BY <3>6
      <4> DEFINE d == [c EXCEPT !.at = "call", !.on = n, !.try = 2]
      <4>2. d \in Call /\ thread'[t] = d
        BY <4>1, CallType DEF RpcInv
      <4>3. d.at = "call" /\ d.caller = c.caller /\ d.told = c.told /\ d.try = 2
        BY DEF Call
      <4>4. d.failed <=> c.failed
        BY DEF Call
      <4>5. CallInv(t)'
        <5> HIDE DEF d
        <5> QED BY <3>1, <3>2, <4>2, <4>3, <4>4 DEF CallInv
      <4> HIDE DEF d
      <4> QED BY <3>5, <4>1, <4>2, <4>5, OneCall DEF d
    <3>7. CASE thread' = [thread EXCEPT ![t] = [c EXCEPT !.at = "told", !.told = "error"]]
      <4> DEFINE d == [c EXCEPT !.at = "told", !.told = "error"]
      <4>1. d \in Call /\ thread'[t] = d
        BY <3>7, CallType DEF RpcInv
      <4>2. d.at = "told" /\ d.caller = c.caller /\ d.told = "error"
        BY DEF Call
      <4>3. d.failed <=> c.failed
        BY DEF Call
      <4>4. CallInv(t)'
        <5> HIDE DEF d
        <5> QED BY <3>1, <3>2, <4>1, <4>2, <4>3 DEF CallInv
      <4> HIDE DEF d
      <4> QED BY <3>5, <3>7, <4>1, <4>4, OneCall DEF d
    <3>8. PICK n \in Nat :
            \/ thread' = [thread EXCEPT ![t].at = "call", ![t].on = n, ![t].try = 2]
            \/ thread' = [thread EXCEPT ![t].at = "told", ![t].told = "error"]
      <4>1. CASE conn # c.on
        BY <2>5, <3>1, <3>2, <4>1 DEF Reconnect
      <4>2. CASE conn = c.on
        BY <2>5, <3>1, <3>3, <4>2 DEF Reconnect
      <4> QED BY <4>1, <4>2
    <3>9. \/ thread' = [thread EXCEPT ![t] = [c EXCEPT !.at = "call", !.on = n, !.try = 2]]
          \/ thread' = [thread EXCEPT ![t] = [c EXCEPT !.at = "told", !.told = "error"]]
      BY <3>1, <3>8 DEF RpcInv
    <3> QED BY <3>6, <3>7, <3>9
  <2>6. CASE ServerDies
    <3>1. /\ thread' = [t \in Threads |-> [thread[t] EXCEPT !.crash = TRUE]]
          /\ conn' = conn /\ dialled' = dialled /\ broken' = 1..dialled
      BY <2>6 DEF ServerDies
    <3>2. ASSUME NEW t \in Threads PROVE thread'[t] \in Call /\ CallInv(t)'
      <4>1. PICK c \in Call : c = thread[t]
        BY DEF RpcInv
      <4> DEFINE d == [c EXCEPT !.crash = TRUE]
      <4>2. d \in Call /\ thread'[t] = d
        BY <3>1, <4>1, CallType
      <4>3. /\ d.at = c.at /\ d.caller = c.caller /\ d.told = c.told /\ d.try = c.try
            /\ d.on = c.on /\ d.runs = c.runs
        BY DEF Call
      <4>4. (d.failed <=> c.failed) /\ d.crash
        BY DEF Call
      <4>5. /\ CallInv(t)
            /\ c.on \in broken => c.on \in broken'
        BY <3>1 DEF RpcInv
      <4> HIDE DEF d
      <4> QED BY <4>1, <4>2, <4>3, <4>4, <4>5 DEF CallInv
    <3>3. thread' \in [Threads -> Call]
      BY <3>1, <3>2
    <3> QED BY <3>1, <3>2, <3>3 DEF RpcInv
  <2>7. CASE ServerStarts
    BY <2>7 DEF RpcInv, ServerStarts, CallInv
  <2>8. CASE UNCHANGED rpcVars
    BY <2>8 DEF RpcInv, rpcVars, CallInv
  <2> QED BY <2>1, <2>2, <2>3, <2>4, <2>5, <2>6, <2>7, <2>8 DEF RpcNext, Progress
<1>3. RpcInv => CallsHonest
  BY FailuresRelayed DEF RpcInv, CallInv, CallsHonest, AnswerLostOnlyByDeath, FailuresAreHeard
<1> QED BY <1>1, <1>2, <1>3, PTL DEF RpcSpec
=============================================================================
