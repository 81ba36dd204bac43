------------------------ MODULE Connectivity_proofs ------------------------
(***************************************************************************)
(* Proofs about Connectivity, for every time a SIM check may take and with *)
(* or without resets.                                                      *)
(*                                                                         *)
(* The timing argument: a diagnostic task that is still busy has been so   *)
(* since the boot, at least as long as the diagnostic has (Elapsed).  The  *)
(* delay begins 60 s into the boot or after a window, so what is busy when *)
(* it ends has been so for 70 s: a SIM check, and 52 s of it are over.     *)
(***************************************************************************)
EXTENDS Connectivity, Integers, TLAPS

\* The diagnostic and the wake cycle are never under way together.
Phases ==
  /\ cpu = "diag" <=> diag # "off"
  /\ cpu = "diag" => doing["sync"] = "idle"

\* A bit belongs to a module that is online; until the diagnostic decides nobody switches
\* off a module that is, or may yet be.
BitsHold ==
  /\ diag # "off" => \A m \in bits : doing[m] = "online"
  /\ diag \in {"wait", "grace"} =>
       \A m \in Modules : doing[m] \in {"powering", "checking"} \/ m \in bits => On(m)
  /\ diag = "grace" => bits # {}

WindowHolds == diag = "window" => active \in Modules /\ WindowLinkHeld

\* Of the modules warmup has tried, only the one it is trying may be on.
TriedHolds ==
  /\ doing["sync"] \in {"powering", "checking"} =>
       /\ cpu = "awake"
       /\ \A m \in tried \ {module} : ~On(m)
  /\ TriedIsOff

AsleepHolds ==
  /\ AsleepAllOff
  /\ cpu = "asleep" => \A u \in Users : doing[u] \notin {"powering", "checking"}

IInv == TypeOK /\ Phases /\ BitsHold /\ WindowHolds /\ FailedIsOff /\ TriedHolds /\ AsleepHolds

-----------------------------------------------------------------------------
LEMMA InitHolds == Init => IInv
  BY DEF Init, IInv, TypeOK, Phases, BitsHold, WindowHolds, FailedIsOff, TriedHolds, TriedIsOff,
         AsleepHolds, AsleepAllOff, ColdDoing, AllOn, Level, On, Modules, Users, Clocks

LEMMA TickKeeps == IInv /\ Tick => IInv'
<1> SUFFICES ASSUME IInv, Tick PROVE IInv'
  OBVIOUS
<1>1. age' \in [Clocks -> Nat]
  BY DEF Tick, IInv, TypeOK
<1> QED
  BY <1>1 DEF Tick, IInv, TypeOK, Phases, BitsHold, WindowHolds, WindowLinkHeld, FailedIsOff,
              TriedHolds, TriedIsOff, AsleepHolds, AsleepAllOff, On

LEMMA AgesRestart == IInv => \A C : Restarted(C) \in [Clocks -> Nat]
  BY DEF Restarted, IInv, TypeOK

LEMMA PoweredKeeps == ASSUME IInv, NEW u \in Users, Powered(u) PROVE IInv'
<1>1. age' \in [Clocks -> Nat]
  BY AgesRestart DEF Powered
<1>2. doing[u] = "powering" /\ doing' = [doing EXCEPT ![u] = "checking"]
  BY DEF Powered, PoweredOk
<1>3. UNCHANGED <<cpu, line, bits, diag, active, module, tried>>
  BY DEF Powered
<1> QED
  BY <1>1, <1>2, <1>3
     DEF IInv, TypeOK, Phases, BitsHold, WindowHolds, WindowLinkHeld, FailedIsOff, TriedHolds,
         TriedIsOff, AsleepHolds, AsleepAllOff, On, Users, Modules

LEMMA TaskKeeps == ASSUME IInv, NEW m \in Modules, TaskFails(m) \/ TaskSucceeds(m) PROVE IInv'
<1>1. age' \in [Clocks -> Nat]
  BY AgesRestart DEF TaskFails, TaskSucceeds
<1>2. doing[m] \in {"powering", "checking"} /\ m \in Users
  BY DEF TaskFails, TaskSucceeds, PowerFails, CheckFails, Online, Users
<1>3. CASE TaskFails(m)
  <2>1. /\ doing' = [doing EXCEPT ![m] = "failed"]
        /\ line' \in [Modules -> {"LOW", "HIGH"}] /\ ~On(m)'
        /\ \A n \in Modules : n # m => line'[n] = line[n]
        /\ UNCHANGED <<cpu, bits, diag, active, module, tried>>
    BY <1>3 DEF TaskFails, SwitchOff, Level, On, IInv, TypeOK
  <2>2. TypeOK' /\ Phases'
    BY <1>1, <2>1 DEF IInv, TypeOK, Phases, Users, Modules
  <2>3. BitsHold' /\ FailedIsOff'
    <3>1. (diag # "off" => m \notin bits) /\ bits \subseteq Modules /\ doing'[m] = "failed"
      BY <1>2, <2>1 DEF IInv, TypeOK, BitsHold, Users
    <3>2. \A n \in Modules : n # m => doing'[n] = doing[n] /\ (On(n)' <=> On(n))
      BY <2>1 DEF IInv, TypeOK, On, Users
    <3>3. FailedIsOff'
      BY <2>1, <3>1, <3>2 DEF IInv, FailedIsOff
    <3>4. diag # "off" => \A n \in bits : doing'[n] = "online"
      BY <3>1, <3>2 DEF IInv, BitsHold
    <3>5. diag \in {"wait", "grace"} =>
            \A n \in Modules : doing'[n] \in {"powering", "checking"} \/ n \in bits => On(n)'
      BY <3>1, <3>2 DEF IInv, BitsHold
    <3> QED
      BY <2>1, <3>3, <3>4, <3>5 DEF IInv, BitsHold
  <2>4. WindowHolds'
    BY <1>2, <2>1 DEF IInv, TypeOK, WindowHolds, WindowLinkHeld, On, Users
  <2>5. doing'["sync"] = doing["sync"]
    BY <2>1 DEF IInv, TypeOK, Modules, Users
  <2>6. TriedHolds'
    BY <2>1, <2>5 DEF IInv, TypeOK, TriedHolds, TriedIsOff, On
  <2>7. AsleepHolds'
    BY <1>2, <2>1 DEF IInv, TypeOK, AsleepHolds, AsleepAllOff, On
  <2> QED
    BY <2>2, <2>3, <2>4, <2>6, <2>7 DEF IInv
<1>4. CASE TaskSucceeds(m)
  <2>1. /\ doing' = [doing EXCEPT ![m] = "online"]
        /\ bits' \in {bits, bits \cup {m}}
        /\ diag \in {"wait", "grace"} => On(m)'
        /\ UNCHANGED <<cpu, line, diag, active, module, tried>>
    BY <1>2, <1>4 DEF TaskSucceeds, IInv, BitsHold, On
  <2>2. /\ doing'[m] = "online" /\ \A u \in Users : u # m => doing'[u] = doing[u]
        /\ doing' \in [Users -> {"idle", "powering", "checking", "online", "failed", "over"}]
    BY <1>2, <2>1 DEF IInv, TypeOK
  <2>3. TypeOK' /\ Phases'
    BY <1>1, <1>2, <2>1, <2>2 DEF IInv, TypeOK, Phases, Users, Modules
  <2>4. BitsHold'
    BY <2>1, <2>2 DEF IInv, TypeOK, BitsHold, On, Users
  <2>5. WindowHolds'
    BY <2>1, <2>2 DEF IInv, WindowHolds, WindowLinkHeld, On, Users
  <2>6. FailedIsOff'
    BY <2>1, <2>2 DEF IInv, FailedIsOff, On, Users
  <2>7. doing'["sync"] = doing["sync"]
    BY <2>2 DEF Users, Modules
  <2>8. TriedHolds'
    BY <2>1, <2>7 DEF IInv, TriedHolds, TriedIsOff, On
  <2>9. AsleepHolds'
    BY <2>1, <2>2 DEF IInv, AsleepHolds, AsleepAllOff, On
  <2> QED
    BY <2>3, <2>4, <2>5, <2>6, <2>8, <2>9 DEF IInv
<1> QED
  BY <1>3, <1>4

LEMMA DecideKeeps == IInv /\ diag \in {"wait", "grace"} /\ Decide => IInv'
<1> SUFFICES ASSUME IInv, diag \in {"wait", "grace"}, Decide PROVE IInv'
  OBVIOUS
<1>1. age' \in [Clocks -> Nat]
  BY AgesRestart DEF Decide
<1>2. /\ line' \in [Modules -> {"LOW", "HIGH"}]
      /\ \A n \in Modules : line'[n] = line[n] \/ ~On(n)'
      /\ bits # Modules => \A n \in Modules : line'[n] = line[n]
      /\ line'["DCOM"] = line["DCOM"]
  BY DEF Decide, SwitchOff, Level, On, IInv, TypeOK, Modules
<1>3. UNCHANGED <<cpu, doing, bits, module, tried>>
  BY DEF Decide
<1>4. active' \in Modules \cup {"none"} /\ diag' \in {"window", "delay"}
  BY DEF Decide, Modules
<1>5. WindowHolds'
  BY <1>2, <1>3 DEF Decide, WindowHolds, WindowLinkHeld, IInv, TypeOK, BitsHold, On, Modules
<1> QED
  BY <1>1, <1>2, <1>3, <1>4, <1>5
     DEF IInv, TypeOK, Phases, BitsHold, FailedIsOff, TriedHolds, TriedIsOff, AsleepHolds,
         AsleepAllOff, On, Users, Modules

LEMMA DiagnosticKeeps == IInv /\ (WaitEnds \/ GraceEnds \/ WindowEnds \/ DelayEnds) => IInv'
<1>1. ASSUME IInv, WaitEnds PROVE IInv'
  <2>1. CASE bits = {} \/ bits = Modules
    BY <1>1, <2>1, DecideKeeps DEF WaitEnds
  <2>2. CASE bits # {} /\ bits # Modules
    <3>1. /\ age' \in [Clocks -> Nat] /\ diag = "wait" /\ diag' = "grace"
          /\ UNCHANGED <<cpu, line, doing, bits, active, module, tried>>
      BY <1>1, <2>2, AgesRestart DEF WaitEnds
    <3> QED
      BY <1>1, <2>2, <3>1
         DEF IInv, TypeOK, Phases, BitsHold, WindowHolds, WindowLinkHeld, FailedIsOff, TriedHolds,
         TriedIsOff, AsleepHolds, AsleepAllOff, On, Users, Modules
  <2> QED
    BY <2>1, <2>2
<1>2. ASSUME IInv, GraceEnds PROVE IInv'
  BY <1>2, DecideKeeps DEF GraceEnds
<1>3. ASSUME IInv, WindowEnds PROVE IInv'
  <2>1. /\ age' \in [Clocks -> Nat] /\ diag = "window" /\ diag' = "delay" /\ active' = "none"
        /\ line' \in [Modules -> {"LOW", "HIGH"}]
        /\ \A n \in Modules : line'[n] = line[n] \/ ~On(n)'
        /\ UNCHANGED <<cpu, doing, bits, module, tried>>
    BY <1>3, AgesRestart DEF WindowEnds, SwitchOff, Level, On, IInv, TypeOK
  <2> QED
    BY <1>3, <2>1
       DEF IInv, TypeOK, Phases, BitsHold, WindowHolds, WindowLinkHeld, FailedIsOff, TriedHolds,
         TriedIsOff, AsleepHolds, AsleepAllOff, On, Users, Modules
<1>4. ASSUME IInv, DelayEnds PROVE IInv'
  <2>1. /\ age' \in [Clocks -> Nat] /\ diag = "delay" /\ diag' = "off" /\ cpu' = "awake"
        /\ UNCHANGED <<line, doing, bits, active, module, tried>>
    BY <1>4, AgesRestart DEF DelayEnds
  <2> QED
    BY <1>4, <2>1
       DEF IInv, TypeOK, Phases, BitsHold, WindowHolds, WindowLinkHeld, FailedIsOff, TriedHolds,
         TriedIsOff, AsleepHolds, AsleepAllOff, On, Users, Modules
<1> QED
  BY <1>1, <1>2, <1>3, <1>4

-----------------------------------------------------------------------------
\* There are two modules.
LEMMA OtherModule ==
  \A m \in Modules : Other(m) \in Modules /\ Other(m) # m /\ Modules = {m, Other(m)}
  BY DEF Modules, Other

LEMMA WarmupKeeps ==
  ASSUME IInv, NEW p \in Modules, WarmupBegins(p) PROVE IInv'
<1>1. /\ age' \in [Clocks -> Nat] /\ cpu = "awake"
      /\ line' \in [Modules -> {"LOW", "HIGH"}]
      /\ doing' = [doing EXCEPT !["sync"] = "powering"]
      /\ module' = p /\ tried' = {p}
      /\ UNCHANGED <<cpu, bits, diag, active>>
  BY AgesRestart DEF WarmupBegins, PowerOnBegins, Level, IInv, TypeOK
<1> QED
  BY <1>1
     DEF IInv, TypeOK, Phases, BitsHold, WindowHolds, WindowLinkHeld, FailedIsOff, TriedHolds,
         TriedIsOff, AsleepHolds, AsleepAllOff, On, Users, Modules

LEMMA TryFailsKeeps == IInv /\ TryFails => IInv'
<1> SUFFICES ASSUME IInv, TryFails PROVE IInv'
  OBVIOUS
<1>1. /\ age' \in [Clocks -> Nat] /\ cpu = "awake" /\ diag = "off"
      /\ doing["sync"] \in {"powering", "checking"}
      /\ UNCHANGED <<cpu, bits, diag, active>>
  BY AgesRestart DEF TryFails, PowerFails, CheckFails, IInv, TriedHolds, Phases
<1>2. Other(module) \in Modules /\ Other(module) # module /\ Modules = {module, Other(module)}
  BY OtherModule DEF IInv, TypeOK
<1>3. CASE Other(module) \in tried
  <2>1. /\ line' \in [Modules -> {"LOW", "HIGH"}]
        /\ ~On(module)' /\ line'[Other(module)] = line[Other(module)]
        /\ doing' = [doing EXCEPT !["sync"] = "failed"]
        /\ UNCHANGED <<module, tried>>
    BY <1>2, <1>3 DEF TryFails, SwitchOff, Level, On, IInv, TypeOK
  <2>2. \A m \in Modules : m \in tried => ~On(m)'
    BY <1>1, <1>2, <2>1 DEF IInv, TriedHolds, On
  <2> QED
    BY <1>1, <2>1, <2>2
       DEF IInv, TypeOK, Phases, BitsHold, WindowHolds, WindowLinkHeld, FailedIsOff, TriedHolds,
         TriedIsOff, AsleepHolds, AsleepAllOff, On, Users, Modules
<1>4. CASE Other(module) \notin tried
  <2>1. /\ line' \in [Modules -> {"LOW", "HIGH"}] /\ line'[module] = "HIGH"
        /\ doing' = [doing EXCEPT !["sync"] = "powering"]
        /\ module' = Other(module) /\ tried' = tried \cup {Other(module)}
    BY <1>2, <1>4 DEF TryFails, Level, IInv, TypeOK
  <2>2. \A m \in tried' \ {module'} : ~On(m)'
    BY <1>2, <2>1 DEF IInv, TypeOK, On, Level
  <2> QED
    BY <1>1, <1>2, <2>1, <2>2
       DEF IInv, TypeOK, Phases, BitsHold, WindowHolds, WindowLinkHeld, FailedIsOff, TriedHolds,
         TriedIsOff, AsleepHolds, AsleepAllOff, On, Users, Modules
<1> QED
  BY <1>3, <1>4

LEMMA SessionKeeps == IInv /\ (TrySucceeds \/ SessionEnds) => IInv'
<1>1. ASSUME IInv, TrySucceeds PROVE IInv'
  <2>1. /\ age' \in [Clocks -> Nat] /\ doing["sync"] = "checking"
        /\ active' = module /\ doing' = [doing EXCEPT !["sync"] = "online"]
        /\ UNCHANGED <<cpu, line, bits, diag, module, tried>>
    BY <1>1, AgesRestart DEF TrySucceeds, Online
  <2> QED
    BY <1>1, <2>1
       DEF IInv, TypeOK, Phases, BitsHold, WindowHolds, WindowLinkHeld, FailedIsOff, TriedHolds,
         TriedIsOff, AsleepHolds, AsleepAllOff, On, Users, Modules
<1>2. ASSUME IInv, SessionEnds PROVE IInv'
  <2>1. /\ cpu = "awake"
        /\ line' \in [Modules -> {"LOW", "HIGH"}]
        /\ \A n \in Modules : line'[n] = line[n] \/ ~On(n)'
        /\ doing' = [doing EXCEPT !["sync"] = "over"]
        /\ UNCHANGED <<cpu, bits, diag, active, module, tried, age>>
    BY <1>2 DEF SessionEnds, SwitchOff, Level, On, IInv, TypeOK
  <2> QED
    BY <1>2, <2>1
       DEF IInv, TypeOK, Phases, BitsHold, WindowHolds, WindowLinkHeld, FailedIsOff, TriedHolds,
         TriedIsOff, AsleepHolds, AsleepAllOff, On, Users, Modules
<1> QED
  BY <1>1, <1>2

LEMMA SleepKeeps == IInv /\ (Sleep \/ WakeByAlarm \/ Reset) => IInv'
<1>1. ASSUME IInv, Sleep PROVE IInv'
  <2>1. line' \in [Modules -> {"LOW", "HIGH"}] /\ \A n \in Modules : ~On(n)'
    BY <1>1 DEF Sleep, SwitchOff, Level, On
  <2> QED
    <3>1. /\ cpu = "awake" /\ cpu' = "asleep" /\ diag = "off"
          /\ \A u \in Users : doing'[u] = "idle"
          /\ doing' \in [Users -> {"idle", "powering", "checking", "online", "failed", "over"}]
          /\ UNCHANGED <<bits, diag, active, module, tried, age>>
      BY <1>1 DEF Sleep, IInv, Phases
    <3>2. "sync" \in Users
      BY DEF Users
    <3>3. TriedHolds' /\ AsleepHolds'
      BY <1>1, <2>1, <3>1, <3>2
         DEF IInv, TypeOK, TriedHolds, TriedIsOff, AsleepHolds, AsleepAllOff
    <3>4. TypeOK' /\ Phases' /\ BitsHold' /\ WindowHolds' /\ FailedIsOff'
      BY <1>1, <2>1, <3>1 DEF IInv, TypeOK, Phases, BitsHold, WindowHolds, FailedIsOff
    <3> QED
      BY <3>3, <3>4 DEF IInv
<1>2. ASSUME IInv, WakeByAlarm PROVE IInv'
  BY <1>2 DEF WakeByAlarm, Forget, InitLine, IInv, TypeOK, Phases, BitsHold, WindowHolds,
              FailedIsOff, TriedHolds, TriedIsOff, AsleepHolds, AsleepAllOff, Users, Modules
<1>3. ASSUME IInv, Reset PROVE IInv'
  BY <1>3 DEF Reset, Forget, ColdDoing, AllOn, Level, On, IInv, TypeOK, Phases, BitsHold,
              WindowHolds, FailedIsOff, TriedHolds, TriedIsOff, AsleepHolds, AsleepAllOff,
              Users, Modules
<1> QED
  BY <1>1, <1>2, <1>3

LEMMA StepHolds == IInv /\ [Next]_vars => IInv'
<1> SUFFICES ASSUME IInv, [Next]_vars PROVE IInv'
  OBVIOUS
<1>1. CASE UNCHANGED vars
  BY <1>1 DEF vars, IInv, TypeOK, Phases, BitsHold, WindowHolds, WindowLinkHeld, FailedIsOff,
              TriedHolds, TriedIsOff, AsleepHolds, AsleepAllOff, On
<1> QED
  BY <1>1, TickKeeps, PoweredKeeps, TaskKeeps, DiagnosticKeeps, WarmupKeeps, TryFailsKeeps,
     SessionKeeps, SleepKeeps DEF Next, Run

LEMMA Invariance == Spec => []IInv
<1> QED
  BY InitHolds, StepHolds, PTL DEF Spec

\* However long a check may take and whenever the chip is reset, the state stays well formed.
THEOREM TypeCorrect == Spec => []TypeOK
<1>1. IInv => TypeOK
  BY DEF IInv
<1> QED
  BY <1>1, Invariance, PTL

-----------------------------------------------------------------------------
(* Time.                                                                   *)

Busy(m) == doing[m] \in {"powering", "checking"}

\* How long a busy diagnostic task has been at it, at most.
Spent(m) == IF doing[m] = "checking" THEN PowerMax(m) + age[m] ELSE age[m]

\* No task stays in a phase past its last second.
Bounded ==
  \A m \in Modules :
    /\ doing[m] = "powering" => age[m] <= PowerMax(m)
    /\ doing[m] = "checking" => age[m] <= IF m = "SIM4G" THEN SimCheckMax ELSE 65

\* A task that is still busy has been so since the boot.
Elapsed ==
  \A m \in Modules : Busy(m) =>
    /\ diag # "off" => age["diag"] <= Spent(m)
    /\ diag = "delay" => WaitS + age["diag"] <= Spent(m)

TimeInv == Bounded /\ Elapsed /\ LateTestsAreShort

\* A step that starts no test and lets no time pass for one.
LEMMA QuietKeeps ==
  ASSUME IInv, TimeInv,
         \A m \in Modules : Busy(m)' => doing'[m] = doing[m] /\ age'[m] = age[m],
         \/ diag' = diag /\ cpu' = cpu /\ age'["diag"] = age["diag"]
         \/ \A m \in Modules : ~Busy(m)'
  PROVE  TimeInv'
<1>1. Bounded'
  BY DEF TimeInv, Bounded, PowerMax, Busy
<1>2. Elapsed'
  BY DEF TimeInv, Elapsed, Spent, Busy, PowerMax
<1>3. LateTestsAreShort'
  BY DEF TimeInv, LateTestsAreShort, Busy
<1> QED
  BY <1>1, <1>2, <1>3 DEF TimeInv

LEMMA TimeTicks == ASSUME IInv, TimeInv, Tick PROVE TimeInv'
<1>2. /\ \A m \in Modules : Busy(m) => age'[m] = age[m] + 1
      /\ diag # "off" => age'["diag"] = age["diag"] + 1
  BY DEF Tick, Timed, Busy, Clocks, Users, Modules, IInv, Phases
<1>3. UNCHANGED <<cpu, doing, diag>> /\ \A m \in Modules : MayWait(m) /\ Target(m) = m
  BY DEF Tick, Users, Modules, Target
<1>4. \A c \in Clocks : age[c] \in Nat
  BY DEF IInv, TypeOK
<1>5. "diag" \in Clocks /\ Modules \subseteq Clocks /\ Modules = {"SIM4G", "DCOM"}
  BY DEF Clocks, Users, Modules
<1>6. Bounded'
  <2> SUFFICES ASSUME NEW m \in Modules, Busy(m)
               PROVE  /\ doing[m] = "powering" => age[m] + 1 <= PowerMax(m)
                      /\ doing[m] = "checking" =>
                           age[m] + 1 <= IF m = "SIM4G" THEN SimCheckMax ELSE 65
    BY <1>2, <1>3 DEF Bounded, Busy, PowerMax
  <2>1. MayWait(m) /\ Target(m) = m /\ age[m] \in Nat
    BY <1>3, <1>4, <1>5
  <2>2. CASE m = "SIM4G"
    BY <2>1, <2>2, ConnectivityAssumption DEF MayWait, PowerMax, FailMax, OkMax
  <2>3. CASE m = "DCOM"
    BY <2>1, <2>3, ConnectivityAssumption DEF MayWait, PowerMax, FailMax, OkMax
  <2> QED
    BY <1>5, <2>2, <2>3
<1>7. Elapsed'
  <2> SUFFICES ASSUME NEW m \in Modules, Busy(m)
               PROVE  /\ diag # "off" => age'["diag"] <= Spent(m)'
                      /\ diag = "delay" => WaitS + age'["diag"] <= Spent(m)'
    BY <1>3 DEF Elapsed, Busy
  <2>1. Spent(m)' = Spent(m) + 1 /\ Spent(m) \in Nat
    BY <1>2, <1>3, <1>4, <1>5 DEF Spent, PowerMax
  <2> QED
    BY <1>2, <1>4, <1>5, <2>1 DEF TimeInv, Elapsed, WaitS
<1>8. LateTestsAreShort'
  <2> SUFFICES ASSUME NEW m \in Modules, Busy(m), cpu # "diag"
               PROVE  m = "SIM4G" /\ doing[m] = "checking" /\ age[m] + 1 >= 52
    BY <1>2, <1>3 DEF LateTestsAreShort, Busy
  <2>1. m = "SIM4G" /\ doing[m] = "checking" /\ age[m] >= 52 /\ age[m] \in Nat
    BY <1>4, <1>5 DEF TimeInv, LateTestsAreShort, Busy
  <2> QED
    BY <2>1
<1> QED
  BY <1>6, <1>7, <1>8 DEF TimeInv

LEMMA TimePowered == ASSUME IInv, TimeInv, NEW u \in Users, Powered(u) PROVE TimeInv'
<1>1. /\ doing[u] = "powering" /\ doing' = [doing EXCEPT ![u] = "checking"]
      /\ age' = Restarted({u}) /\ UNCHANGED <<cpu, diag>>
  BY DEF Powered, PoweredOk
<1>2. age'["diag"] = age["diag"] /\ \A m \in Modules : m # u => age'[m] = age[m]
  BY <1>1 DEF Restarted, Clocks, Users, Modules
<1>3. /\ Modules = {"SIM4G", "DCOM"} /\ Modules \subseteq Users /\ Users \subseteq Clocks
      /\ "diag" \in Clocks
      /\ \A m \in Modules : PowerMax(m) \in Nat
  BY DEF Clocks, Users, Modules, PowerMax
<1>4. /\ doing'[u] = "checking" /\ age'[u] = 0
      /\ \A m \in Modules : m # u => doing'[m] = doing[m]
  BY <1>1, <1>3 DEF Restarted, IInv, TypeOK
<1>5. \A c \in Clocks : age[c] \in Nat
  BY DEF IInv, TypeOK
<1>6. Bounded'
  BY <1>2, <1>4, ConnectivityAssumption DEF TimeInv, Bounded, PowerMax
<1>7. Elapsed'
  <2> SUFFICES ASSUME NEW m \in Modules, Busy(m)'
               PROVE  /\ diag # "off" => age["diag"] <= Spent(m)'
                      /\ diag = "delay" => WaitS + age["diag"] <= Spent(m)'
    BY <1>1, <1>2 DEF Elapsed
  <2>1. CASE m = u
    <3>1. Spent(m)' = PowerMax(m) /\ Spent(m) = age[m] /\ age[m] <= PowerMax(m) /\ Busy(m)
      BY <1>1, <1>3, <1>4, <2>1 DEF Spent, Busy, TimeInv, Bounded, PowerMax
    <3> QED
      BY <1>3, <1>5, <3>1 DEF TimeInv, Elapsed, WaitS
  <2>2. CASE m # u
    <3>1. Spent(m)' = Spent(m) /\ Busy(m)
      BY <1>2, <1>4, <2>2 DEF Spent, Busy, PowerMax
    <3> QED
      BY <3>1 DEF TimeInv, Elapsed
  <2> QED
    BY <2>1, <2>2
<1>8. LateTestsAreShort'
  BY <1>1, <1>2, <1>4 DEF TimeInv, LateTestsAreShort
<1> QED
  BY <1>6, <1>7, <1>8 DEF TimeInv

\* test_connectivity returns: with no module online only after the whole wait.
LEMMA TimeDecides ==
  ASSUME IInv, TimeInv, Decide, diag \in {"wait", "grace"}, bits = {} => age["diag"] = WaitS
  PROVE  TimeInv'
<1>1. /\ UNCHANGED <<cpu, doing, bits>> /\ age'["diag"] = 0
      /\ \A m \in Modules : age'[m] = age[m]
  BY DEF Decide, Restarted, Clocks, Users, Modules
<1>2. diag' = IF bits = {} THEN "delay" ELSE "window"
  BY DEF Decide
<1>3. Elapsed'
  <2> SUFFICES ASSUME NEW m \in Modules, Busy(m)
               PROVE  0 <= Spent(m) /\ (diag' = "delay" => WaitS + 0 <= Spent(m))
    BY <1>1 DEF Elapsed, Busy, Spent, PowerMax
  <2>1. age[m] \in Nat /\ age["diag"] <= Spent(m)
    BY DEF IInv, TypeOK, Clocks, Users, TimeInv, Elapsed
  <2> QED
    BY <1>2, <2>1 DEF Spent, PowerMax, WaitS
<1>4. Bounded' /\ LateTestsAreShort'
  BY <1>1 DEF TimeInv, Bounded, LateTestsAreShort, PowerMax
<1> QED
  BY <1>3, <1>4 DEF TimeInv

LEMMA TimeWaits == ASSUME IInv, TimeInv, WaitEnds \/ GraceEnds PROVE TimeInv'
<1>1. CASE diag = "wait" /\ (bits = {} \/ bits = Modules)
  <2>1. Decide /\ (bits = {} => age["diag"] = WaitS)
    BY <1>1 DEF WaitEnds, GraceEnds
  <2> QED
    BY <1>1, <2>1, TimeDecides
<1>2. CASE GraceEnds
  <2>1. Decide /\ diag = "grace" /\ bits # {}
    BY <1>2 DEF GraceEnds, IInv, BitsHold
  <2> QED
    BY <2>1, TimeDecides
<1>3. CASE WaitEnds /\ bits # {} /\ bits # Modules
  <2>1. /\ diag' = "grace" /\ age'["diag"] = 0 /\ UNCHANGED <<cpu, doing>>
        /\ \A m \in Modules : age'[m] = age[m]
    BY <1>3 DEF WaitEnds, Restarted, Clocks, Users, Modules
  <2>2. \A m \in Modules : age[m] \in Nat
    BY DEF IInv, TypeOK, Clocks, Users
  <2>3. Elapsed'
    BY <2>1, <2>2 DEF Elapsed, Busy, Spent, PowerMax
  <2>4. Bounded' /\ LateTestsAreShort'
    BY <2>1 DEF TimeInv, Bounded, LateTestsAreShort, PowerMax
  <2> QED
    BY <2>3, <2>4 DEF TimeInv
<1> QED
  BY <1>1, <1>2, <1>3 DEF WaitEnds

LEMMA TimeEnds == ASSUME IInv, TimeInv, WindowEnds \/ DelayEnds PROVE TimeInv'
<1>1. /\ doing' = doing /\ age'["diag"] = 0 /\ \A m \in Modules : age'[m] = age[m]
      /\ \A m \in Modules : age[m] \in Nat /\ (m = "SIM4G" \/ m = "DCOM")
  BY DEF WindowEnds, DelayEnds, Restarted, IInv, TypeOK, Clocks, Users, Modules
<1>2. Bounded'
  BY <1>1 DEF TimeInv, Bounded, PowerMax
<1>3. CASE WindowEnds
  <2>1. UNCHANGED cpu /\ diag' = "delay" /\ age["diag"] = WindowS /\ diag = "window"
    BY <1>3 DEF WindowEnds
  <2>2. LateTestsAreShort'
    BY <1>1, <2>1 DEF TimeInv, LateTestsAreShort
  <2>3. Elapsed'
    <3> SUFFICES ASSUME NEW m \in Modules, Busy(m) PROVE 0 <= Spent(m) /\ WaitS + 0 <= Spent(m)
      BY <1>1 DEF Elapsed, Busy, Spent, PowerMax
    <3>1. WindowS <= Spent(m) /\ Spent(m) \in Nat
      BY <1>1, <2>1 DEF TimeInv, Elapsed, Spent, PowerMax
    <3> QED
      BY <3>1 DEF WindowS, WaitS
  <2> QED
    BY <1>2, <2>2, <2>3 DEF TimeInv
<1>4. CASE DelayEnds
  <2>1. cpu' = "awake" /\ diag' = "off" /\ age["diag"] = DelayS /\ diag = "delay"
    BY <1>4 DEF DelayEnds
  <2>2. Elapsed'
    BY <2>1 DEF Elapsed
  <2>3. LateTestsAreShort'
    <3> SUFFICES ASSUME NEW m \in Modules, Busy(m)
                 PROVE  m = "SIM4G" /\ doing[m] = "checking" /\ age[m] >= 52
      BY <1>1 DEF LateTestsAreShort, Busy
    <3>1. 70 <= Spent(m)
      BY <2>1 DEF TimeInv, Elapsed, WaitS, DelayS
    <3>2. /\ doing[m] = "powering" => age[m] <= PowerMax(m)
          /\ doing[m] = "checking" => age[m] <= IF m = "SIM4G" THEN SimCheckMax ELSE 65
      BY DEF TimeInv, Bounded
    <3> QED
      BY <1>1, <3>1, <3>2 DEF Spent, Busy, PowerMax
  <2> QED
    BY <1>2, <2>2, <2>3 DEF TimeInv
<1> QED
  BY <1>3, <1>4

LEMMA TimeTests == ASSUME IInv, TimeInv, NEW m \in Modules, TaskFails(m) \/ TaskSucceeds(m)
                   PROVE  TimeInv'
<1>1. /\ UNCHANGED <<cpu, diag>> /\ age' = Restarted({m})
      /\ doing' \in {[doing EXCEPT ![m] = "failed"], [doing EXCEPT ![m] = "online"]}
  BY DEF TaskFails, TaskSucceeds
<1>2. /\ m \in Users /\ m # "diag" /\ "diag" \in Clocks /\ Modules \subseteq Users
      /\ Modules \subseteq Clocks
  BY DEF Users, Clocks, Modules
<1>3. ~Busy(m)' /\ \A n \in Modules : n # m => doing'[n] = doing[n] /\ age'[n] = age[n]
  BY <1>1, <1>2 DEF Busy, Restarted, IInv, TypeOK
<1>4. age'["diag"] = age["diag"]
  BY <1>1, <1>2 DEF Restarted
<1> QED
  BY <1>1, <1>3, <1>4, QuietKeeps

LEMMA TimeSyncs ==
  ASSUME IInv, TimeInv,
         \/ \E p \in Modules : WarmupBegins(p)
         \/ TryFails \/ TrySucceeds \/ SessionEnds \/ Sleep
  PROVE  TimeInv'
<1>1. CASE Sleep
  <2>1. \A m \in Modules : ~Busy(m)'
    BY <1>1 DEF Sleep, Busy, Users
  <2> QED
    BY <2>1, QuietKeeps DEF Busy
<1>2. CASE (\E p \in Modules : WarmupBegins(p)) \/ TryFails \/ TrySucceeds \/ SessionEnds
  <2>1. \A m \in Modules : doing'[m] = doing[m]
    BY <1>2 DEF WarmupBegins, TryFails, TrySucceeds, SessionEnds, Users, Modules, IInv, TypeOK
  <2>2. age' = Restarted({"sync"}) \/ age' = age
    BY <1>2 DEF WarmupBegins, TryFails, TrySucceeds, SessionEnds
  <2>3. \A c \in Clocks \ {"sync"} : age'[c] = age[c]
    BY <2>2 DEF Restarted
  <2>4. UNCHANGED <<cpu, diag>>
    BY <1>2 DEF WarmupBegins, TryFails, TrySucceeds, SessionEnds
  <2>5. "diag" \in Clocks \ {"sync"} /\ Modules \subseteq Clocks \ {"sync"}
    BY DEF Clocks, Users, Modules
  <2> QED
    BY <2>1, <2>3, <2>4, <2>5, QuietKeeps
<1> QED
  BY <1>1, <1>2

LEMMA TimeBoots == ASSUME IInv, TimeInv, WakeByAlarm \/ Reset PROVE TimeInv'
<1>1. CASE WakeByAlarm
  <2>1. \A m \in Modules : ~Busy(m)'
    BY <1>1 DEF WakeByAlarm, Busy, Users
  <2> QED
    BY <2>1, QuietKeeps DEF Busy
<1>2. CASE Reset
  <2>1. /\ cpu' = "diag" /\ diag' = "wait" /\ age'["diag"] = 0
        /\ \A m \in Modules : doing'[m] = "powering" /\ age'[m] = 0
    BY <1>2 DEF Reset, Forget, ColdDoing, Users, Clocks, Modules
  <2> QED
    BY <2>1 DEF TimeInv, Bounded, Elapsed, LateTestsAreShort, Spent, PowerMax
<1> QED
  BY <1>1, <1>2

LEMMA TimeInit == Init => TimeInv
  BY DEF Init, ColdDoing, Users, Clocks, Modules, TimeInv, Bounded, Elapsed, LateTestsAreShort, Spent,
         PowerMax

LEMMA TimeStep == IInv /\ TimeInv /\ [Next]_vars => TimeInv'
<1> SUFFICES ASSUME IInv, TimeInv, [Next]_vars PROVE TimeInv'
  OBVIOUS
<1>1. CASE UNCHANGED vars
  BY <1>1, QuietKeeps DEF vars, Busy
<1>2. CASE Run
  BY <1>2, TimeTicks, TimePowered, TimeTests, TimeWaits, TimeEnds, TimeSyncs, TimeBoots DEF Run
<1>3. CASE Reset
  BY <1>3, TimeBoots
<1> QED
  BY <1>1, <1>2, <1>3 DEF Next

-----------------------------------------------------------------------------
\* While the diagnostic window sends over a module, nobody switches it off
\* (diagnostic_task.cpp:339-404).
THEOREM WindowKeepsItsLink == Spec => []WindowLinkHeld
<1>1. IInv => WindowLinkHeld
  BY DEF IInv, WindowHolds, WindowLinkHeld
<1> QED
  BY <1>1, Invariance, PTL

\* A module whose diagnostic test failed stays off until the sync powers it
\* (conn_module_task, diagnostic_task.cpp:90-109).
THEOREM FailedStaysOff == Spec => []FailedIsOff
<1>1. IInv => FailedIsOff
  BY DEF IInv
<1> QED
  BY <1>1, Invariance, PTL

\* When warmup has returned, of the modules it tried only the one it chose is on
\* (connectivity_manager.cpp:21-55).
THEOREM WarmupLeavesOneOn == Spec => []TriedIsOff
<1>1. IInv => TriedIsOff
  BY DEF IInv, TriedHolds
<1> QED
  BY <1>1, Invariance, PTL

\* The chip sleeps with both modules off, whatever was cut short or left on
\* (enterSafeMode, power_manager.cpp:10; scheduler_task.cpp:73).
THEOREM SleepsWithBothOff == Spec => []AsleepAllOff
<1>1. IInv => AsleepAllOff
  BY DEF IInv, AsleepHolds
<1> QED
  BY <1>1, Invariance, PTL

LEMMA TimeInvariance == Spec => [](IInv /\ TimeInv)
<1>1. Init => IInv /\ TimeInv
  BY InitHolds, TimeInit
<1>2. (IInv /\ TimeInv) /\ [Next]_vars => (IInv /\ TimeInv)'
  BY StepHolds, TimeStep
<1> QED
  BY <1>1, <1>2, PTL DEF Spec

\* Nobody joins the diagnostic's tests.  One that is not over when the main tasks start is the
\* SIM's, in its check, and 52 s of that check have passed: in every interleaving of the two
\* tests, whatever they find and however long a check may take (diagnostic_task.cpp:90-109,
\* 283-316, 408-412).
THEOREM LateTestsEndSoon == Spec => []LateTestsAreShort
<1>1. IInv /\ TimeInv => LateTestsAreShort
  BY DEF TimeInv
<1> QED
  BY <1>1, TimeInvariance, PTL
-----------------------------------------------------------------------------
(* How long it takes.  MainStarts and WarmupReturns rest on the fairness   *)
(* of Run; what is proved is what the code adds to it: a limit in seconds, *)
(* phases that only go down, and no state in which nothing may happen.     *)

Trying == doing["sync"] \in {"powering", "checking"}

UnderWay == cpu = "diag" \/ Trying

CheckMax(m) == IF m = "SIM4G" THEN SimCheckMax ELSE OkMax(m)
TryMax(m) == PowerMax(m) + CheckMax(m)

\* Nobody stays in a phase past its last second, and the module being tried counts as tried.
Punctual ==
  /\ \A u \in Users :
       /\ doing[u] = "powering" => age[u] <= PowerMax(Target(u))
       /\ doing[u] = "checking" => age[u] <= CheckMax(Target(u))
  /\ diag = "wait" => age["diag"] <= WaitS
  /\ diag = "grace" => age["diag"] <= GraceS
  /\ diag = "window" => age["diag"] <= WindowS
  /\ diag = "delay" => age["diag"] <= DelayS
  /\ Trying => module \in tried

\* The seconds that the diagnostic, and warmup, may still take.
DiagLeft ==
  CASE diag = "wait" -> WaitS + GraceS + WindowS + DelayS - age["diag"]
    [] diag = "grace" -> GraceS + WindowS + DelayS - age["diag"]
    [] diag = "window" -> WindowS + DelayS - age["diag"]
    [] diag = "delay" -> DelayS - age["diag"]
    [] OTHER -> 0

TryLeft ==
  CASE doing["sync"] = "powering" -> TryMax(module) - age["sync"]
    [] doing["sync"] = "checking" -> CheckMax(module) - age["sync"]
    [] OTHER -> 0

Untried == Trying /\ Other(module) \notin tried

WarmupLeft == TryLeft + IF Untried THEN TryMax(Other(module)) ELSE 0

SecondsLeft == DiagLeft + WarmupLeft

\* The phases that are left to the users of the modules and to the diagnostic.
TurnsLeft(u) == IF doing[u] = "powering" THEN 2 ELSE IF doing[u] = "checking" THEN 1 ELSE 0

DiagTurns ==
  IF diag = "wait" THEN 3 ELSE IF diag = "grace" THEN 2 ELSE IF diag = "window" THEN 1 ELSE 0

PhasesLeft ==
  DiagTurns + TurnsLeft("SIM4G") + TurnsLeft("DCOM") + TurnsLeft("sync") + IF Untried THEN 2 ELSE 0

\* Somebody's phase may end, or time may pass.
PhaseMayEnd ==
  \/ \E u \in Users : PoweredOk(u) \/ PowerFails(u) \/ Online(u) \/ CheckFails(u)
  \/ diag = "wait" /\ (bits # {} \/ age["diag"] = WaitS)
  \/ diag = "grace" /\ (bits = Modules \/ age["diag"] = GraceS)
  \/ diag = "window" /\ age["diag"] = WindowS
  \/ diag = "delay" /\ age["diag"] = DelayS

TimeMayPass ==
  (\E c \in Clocks : Timed(c)) /\ (\A u \in Users : MayWait(u)) /\ DiagMayWait

\* The DCOM module is on while it is being brought up.
DcomIsOn ==
  \A u \in Users : doing[u] \in {"powering", "checking"} /\ Target(u) = "DCOM" => On("DCOM")

LEMMA Limits ==
  /\ \A m \in Modules : PowerMax(m) \in Nat /\ CheckMax(m) \in Nat /\ TryMax(m) \in Nat
  /\ \A m \in Modules : TryMax(m) + TryMax(Other(m)) = 84 + SimCheckMax
  /\ \A m \in Modules : Other(m) \in Modules
  BY ConnectivityAssumption DEF PowerMax, CheckMax, TryMax, OkMax, Modules, Other

LEMMA TargetsAre == IInv => \A u \in Users : Target(u) \in Modules /\ age[u] \in Nat
  BY DEF IInv, TypeOK, Target, Users, Clocks

\* A step in which whoever is in a phase stays in it or begins it.
LEMMA NewPhases ==
  ASSUME IInv, IInv', Punctual,
         \A u \in Users : doing'[u] \in {"powering", "checking"} =>
           age'[u] = 0 \/ (doing'[u] = doing[u] /\ age'[u] = age[u] /\ Target(u)' = Target(u)),
         age'["diag"] = 0 \/ (age'["diag"] = age["diag"] /\ diag' = diag),
         Trying' => module' \in tried'
  PROVE  Punctual'
<1>1. ASSUME NEW u \in Users
      PROVE  /\ doing'[u] = "powering" => age'[u] <= PowerMax(Target(u)')
             /\ doing'[u] = "checking" => age'[u] <= CheckMax(Target(u)')
  <2>1. Target(u)' \in Modules
    BY TargetsAre DEF IInv, TypeOK, Target, Users
  <2>2. PowerMax(Target(u)') \in Nat /\ CheckMax(Target(u)') \in Nat
    BY <2>1, Limits
  <2>3. CASE age'[u] = 0
    BY <2>2, <2>3
  <2>4. CASE doing'[u] = doing[u] /\ age'[u] = age[u] /\ Target(u)' = Target(u)
    BY <2>4 DEF Punctual
  <2> QED
    BY <2>3, <2>4
<1>2. /\ diag' = "wait" => age'["diag"] <= WaitS
      /\ diag' = "grace" => age'["diag"] <= GraceS
      /\ diag' = "window" => age'["diag"] <= WindowS
      /\ diag' = "delay" => age'["diag"] <= DelayS
  BY DEF Punctual, WaitS, GraceS, WindowS, DelayS
<1> QED
  BY <1>1, <1>2 DEF Punctual, PowerMax, CheckMax, OkMax, WaitS, GraceS, WindowS, DelayS

LEMMA PunctualTicks == IInv /\ Punctual /\ Tick => Punctual'
<1> SUFFICES ASSUME IInv, Punctual, Tick PROVE Punctual'
  OBVIOUS
<1>1. /\ UNCHANGED <<doing, diag, module, tried, bits, cpu>>
      /\ \A c \in Clocks : age'[c] = IF Timed(c) THEN age[c] + 1 ELSE 0
      /\ \A c \in Clocks : age[c] \in Nat
  BY DEF Tick, IInv, TypeOK
<1>2. ASSUME NEW u \in Users
      PROVE  /\ doing[u] = "powering" => age'[u] <= PowerMax(Target(u))
             /\ doing[u] = "checking" => age'[u] <= CheckMax(Target(u))
  <2>1. u \in Clocks /\ u # "diag" /\ MayWait(u) /\ Target(u) \in {"SIM4G", "DCOM"}
    BY TargetsAre DEF Tick, Clocks, Users, Modules
  <2>2. doing[u] \in {"powering", "checking"} => age'[u] = age[u] + 1
    BY <1>1, <2>1 DEF Timed
  <2>3. CASE doing[u] = "powering"
    BY <1>1, <2>1, <2>2, <2>3 DEF MayWait, PowerMax
  <2>4. CASE doing[u] = "checking"
    <3>1. age[u] < FailMax(Target(u)) \/ age[u] < OkMax(Target(u))
      BY <2>1, <2>4 DEF MayWait
    <3> QED
      BY <1>1, <2>1, <2>2, <2>4, <3>1, ConnectivityAssumption DEF FailMax, OkMax, CheckMax
  <2> QED
    BY <2>3, <2>4
<1>3. /\ diag = "wait" => age'["diag"] <= WaitS
      /\ diag = "grace" => age'["diag"] <= GraceS
      /\ diag = "window" => age'["diag"] <= WindowS
      /\ diag = "delay" => age'["diag"] <= DelayS
  <2>1. "diag" \in Clocks /\ DiagMayWait
    BY DEF Clocks, Tick
  <2>2. age'["diag"] \in {0, age["diag"] + 1} /\ age["diag"] \in Nat
    BY <1>1, <2>1
  <2> QED
    BY <2>1, <2>2 DEF DiagMayWait, WaitS, GraceS, WindowS, DelayS
<1>4. \A u \in Users : Target(u)' = Target(u)
  BY <1>1 DEF Target
<1> QED
  BY <1>1, <1>2, <1>3, <1>4
     DEF Punctual, Trying, PowerMax, CheckMax, OkMax, WaitS, GraceS, WindowS, DelayS

LEMMA RestartIs ==
  ASSUME NEW c \in Clocks, age' = Restarted({c})
  PROVE  age'[c] = 0 /\ \A d \in Clocks \ {c} : age'[d] = age[d]
  BY DEF Restarted

LEMMA PunctualHolds ==
  /\ Init => Punctual
  /\ IInv /\ IInv' /\ Punctual /\ [Next]_vars => Punctual'
<1>1. Init => Punctual
  BY Limits DEF Init, ColdDoing, Punctual, Trying, Target, Users, Clocks, Modules, PowerMax,
                CheckMax, WaitS, GraceS, WindowS, DelayS
<1> SUFFICES ASSUME IInv, IInv', Punctual, [Next]_vars PROVE Punctual'
  BY <1>1
<1> DEFINE Kept(u) == /\ doing'[u] = doing[u] /\ age'[u] = age[u] /\ Target(u)' = Target(u)
           KeptDiag == diag' = diag /\ age'["diag"] = age["diag"]
<1>2. /\ Users \subseteq Clocks /\ "diag" \in Clocks \ Users
      /\ "sync" \in Users \ Modules /\ Modules \subseteq Users
  BY DEF Clocks, Users, Modules
<1>4. doing \in [Users -> {"idle", "powering", "checking", "online", "failed", "over"}]
  BY DEF IInv, TypeOK
<1>5. CASE Tick
  BY <1>5, PunctualTicks
<1>6. ASSUME NEW u \in Users, Powered(u) PROVE Punctual'
  <2>3. age'[u] = 0 /\ \A d \in Clocks \ {u} : age'[d] = age[d]
    BY <1>2, <1>6, RestartIs DEF Powered
  <2>1. age'[u] = 0 /\ KeptDiag /\ \A w \in Users \ {u} : Kept(w)
    BY <1>2, <1>4, <1>6, <2>3 DEF Powered, Target
  <2>2. Trying' => Trying /\ UNCHANGED <<module, tried>>
    BY <1>2, <1>4, <1>6 DEF Powered, PoweredOk, Trying
  <2> QED
    BY <2>1, <2>2, NewPhases DEF Punctual
<1>7. ASSUME NEW m \in Modules, TaskFails(m) \/ TaskSucceeds(m) PROVE Punctual'
  <2>3. age'[m] = 0 /\ \A d \in Clocks \ {m} : age'[d] = age[d]
    BY <1>2, <1>7, RestartIs DEF TaskFails, TaskSucceeds
  <2>1. age'[m] = 0 /\ KeptDiag /\ \A w \in Users \ {m} : Kept(w)
    BY <1>2, <1>4, <1>7, <2>3 DEF TaskFails, TaskSucceeds, Target
  <2>2. Trying' => Trying /\ UNCHANGED <<module, tried>>
    BY <1>2, <1>4, <1>7 DEF TaskFails, TaskSucceeds, Trying
  <2> QED
    BY <2>1, <2>2, NewPhases DEF Punctual
<1>8. CASE WaitEnds \/ GraceEnds \/ WindowEnds \/ DelayEnds
  <2>3. age' = Restarted({"diag"}) /\ UNCHANGED <<doing, module>>
    BY <1>8 DEF WaitEnds, GraceEnds, WindowEnds, DelayEnds, Decide
  <2>1. age'["diag"] = 0 /\ \A w \in Users : Kept(w)
    BY <1>2, <2>3, RestartIs DEF Target
  <2>2. UNCHANGED <<doing, module, tried>>
    BY <1>8 DEF WaitEnds, GraceEnds, WindowEnds, DelayEnds, Decide
  <2> QED
    BY <2>1, <2>2, NewPhases DEF Punctual, Trying
<1>9. ASSUME (\E p \in Modules : WarmupBegins(p)) \/ TryFails \/ TrySucceeds PROVE Punctual'
  <2>3. age' = Restarted({"sync"}) /\ diag' = diag
        /\ \A w \in Users \ {"sync"} : doing'[w] = doing[w]
    BY <1>2, <1>4, <1>9 DEF WarmupBegins, TryFails, TrySucceeds
  <2>1. age'["sync"] = 0 /\ KeptDiag /\ \A w \in Users \ {"sync"} : Kept(w)
    BY <1>2, <2>3, RestartIs DEF Target
  <2>2. Trying' => module' \in tried'
    BY <1>2, <1>4, <1>9 DEF WarmupBegins, TryFails, TrySucceeds, Trying
  <2> QED
    BY <2>1, <2>2, NewPhases
<1>10. ASSUME SessionEnds \/ Sleep \/ UNCHANGED vars PROVE Punctual'
  <2>1. KeptDiag /\ (\A w \in Users : doing'[w] \in {"powering", "checking"} => Kept(w))
    BY <1>2, <1>4, <1>10 DEF SessionEnds, Sleep, vars, Target
  <2>2. Trying' => Trying /\ UNCHANGED <<module, tried>>
    BY <1>2, <1>4, <1>10 DEF SessionEnds, Sleep, vars, Trying
  <2> QED
    BY <2>1, <2>2, NewPhases DEF Punctual
<1>11. CASE WakeByAlarm \/ Reset
  <2>1. age'["diag"] = 0 /\ (\A w \in Users : age'[w] = 0) /\ ~Trying'
    BY <1>2, <1>11 DEF WakeByAlarm, Reset, Forget, ColdDoing, Trying
  <2> QED
    BY <2>1, NewPhases
<1> QED
  BY <1>5, <1>6, <1>7, <1>8, <1>9, <1>10, <1>11 DEF Next, Run

-----------------------------------------------------------------------------
\* No negative rest, and the limits.
Rest ==
  /\ DiagLeft \in 0 .. 253 /\ WarmupLeft \in 0 .. 84 + SimCheckMax
  /\ cpu = "diag" => ~Trying /\ WarmupLeft = 0
  /\ Trying => DiagLeft = 0
  /\ PhasesLeft \in 0 .. 11
  /\ TryLeft \in Nat

LEMMA RestIs == IInv /\ Punctual => Rest
<1> SUFFICES ASSUME IInv, Punctual PROVE Rest
  OBVIOUS
<1>1. /\ module \in Modules /\ Other(module) \in Modules
      /\ "sync" \in Users /\ Target("sync") = module
      /\ age["sync"] \in Nat /\ age["diag"] \in Nat
  BY Limits DEF IInv, TypeOK, Users, Clocks, Target
<1>2. /\ TryMax(module) \in Nat /\ CheckMax(module) \in Nat /\ TryMax(Other(module)) \in Nat
      /\ PowerMax(module) \in Nat
      /\ TryMax(module) = PowerMax(module) + CheckMax(module)
      /\ TryMax(module) + TryMax(Other(module)) = 84 + SimCheckMax
  BY <1>1, Limits DEF TryMax
<1>3. DiagLeft \in 0 .. 253
  BY <1>1 DEF Punctual, DiagLeft, WaitS, GraceS, WindowS, DelayS
<1>4. TryLeft \in 0 .. TryMax(module)
  <2>1. /\ doing["sync"] = "powering" => age["sync"] <= PowerMax(module)
        /\ doing["sync"] = "checking" => age["sync"] <= CheckMax(module)
    BY <1>1 DEF Punctual
  <2> QED
    BY <1>1, <1>2, <2>1 DEF TryLeft
<1>5. WarmupLeft \in 0 .. 84 + SimCheckMax
  BY <1>2, <1>4 DEF WarmupLeft
<1>6. cpu = "diag" => ~Trying /\ WarmupLeft = 0
  BY DEF IInv, Phases, Trying, WarmupLeft, TryLeft, Untried
<1>7. Trying => DiagLeft = 0
  BY DEF IInv, Phases, TriedHolds, Trying, DiagLeft
<1>8. PhasesLeft \in 0 .. 11
  BY DEF PhasesLeft, DiagTurns, TurnsLeft
<1> QED
  BY <1>2, <1>3, <1>4, <1>5, <1>6, <1>7, <1>8 DEF Rest

LEMMA RestThen == (IInv /\ Punctual)' => Rest'
  BY RestIs, PTL

LEMMA SumLe == \A a, b, c, d \in Nat : a <= c /\ b <= d => a + b <= c + d
  OBVIOUS

LEMMA SecondsSum ==
  ASSUME DiagLeft \in Nat, DiagLeft' \in Nat, WarmupLeft \in Nat, WarmupLeft' \in Nat,
         DiagLeft' <= DiagLeft, WarmupLeft' <= WarmupLeft
  PROVE  SecondsLeft' <= SecondsLeft
  BY SumLe DEF SecondsLeft

\* Every step of what is under way ends it, or takes a phase or a second off what is left.
LEMMA StepsTakeOff ==
  ASSUME IInv, IInv', Punctual, Punctual', UnderWay, UnderWay', Run
  PROVE  /\ SecondsLeft' <= SecondsLeft /\ PhasesLeft' <= PhasesLeft
         /\ IF Tick THEN SecondsLeft' = SecondsLeft - 1 ELSE PhasesLeft' < PhasesLeft
<1>1. /\ Users \subseteq Clocks /\ "diag" \in Clocks \ Users
      /\ "sync" \in Users \ Modules /\ Modules \subseteq Users /\ Modules = {"SIM4G", "DCOM"}
      /\ Users = {"SIM4G", "DCOM", "sync"}
  BY DEF Clocks, Users, Modules
<1>2. doing \in [Users -> {"idle", "powering", "checking", "online", "failed", "over"}]
  BY DEF IInv, TypeOK
<1>3. /\ DiagLeft \in Nat /\ WarmupLeft \in Nat /\ PhasesLeft \in Nat
      /\ DiagLeft' \in Nat /\ WarmupLeft' \in Nat /\ PhasesLeft' \in Nat
      /\ TryLeft \in Nat /\ TryLeft' \in Nat
  BY RestIs, RestThen, ConnectivityAssumption DEF Rest
<1>0. /\ cpu = "diag" => ~Trying /\ WarmupLeft = 0
      /\ cpu' = "diag" => ~Trying' /\ WarmupLeft' = 0
      /\ Trying => DiagLeft = 0
      /\ Trying' => DiagLeft' = 0
  BY RestIs, RestThen DEF Rest
<1>4. /\ module \in Modules /\ age["sync"] \in Nat /\ age["diag"] \in Nat
      /\ \A u \in Users : Target(u) \in Modules /\ age[u] \in Nat
      /\ Trying => module \in tried /\ cpu = "awake" /\ diag = "off"
      /\ doing["sync"] = "powering" => age["sync"] <= PowerMax(module)
      /\ doing["sync"] = "checking" => age["sync"] <= CheckMax(module)
  BY <1>1, TargetsAre DEF IInv, TypeOK, Punctual, Target, Trying, TriedHolds, Phases
<1>5. /\ PowerMax(module) \in Nat /\ CheckMax(module) \in Nat /\ TryMax(Other(module)) \in Nat
      /\ TryMax(module) = PowerMax(module) + CheckMax(module)
  BY <1>4, Limits DEF TryMax
<1>6. CASE Tick
  <2>1. /\ UNCHANGED <<cpu, doing, diag, module, tried>>
        /\ \A c \in Clocks : Timed(c) => age'[c] = age[c] + 1
    BY <1>6 DEF Tick
  <2>2. PhasesLeft' = PhasesLeft
    BY <2>1 DEF PhasesLeft, DiagTurns, TurnsLeft, Untried, Trying
  <2>3. CASE cpu = "diag"
    <3>1. age'["diag"] = age["diag"] + 1
      BY <1>1, <2>1, <2>3 DEF Timed
    <3>2. diag \in {"wait", "grace", "window", "delay"}
      BY <2>3 DEF IInv, Phases, TypeOK
    <3>3. DiagLeft' = DiagLeft - 1
      BY <1>4, <2>1, <3>1, <3>2 DEF DiagLeft, WaitS, GraceS, WindowS, DelayS
    <3>4. WarmupLeft = 0 /\ WarmupLeft' = 0
      BY <1>0, <2>1, <2>3
    <3> QED
      BY <1>3, <1>6, <2>2, <3>3, <3>4 DEF SecondsLeft
  <2>4. CASE Trying
    <3>1. age'["sync"] = age["sync"] + 1 /\ Trying'
      BY <1>1, <2>1, <2>4 DEF Timed, Trying
    <3>2. TryLeft' = TryLeft - 1 /\ TryLeft \in Int
      <4>1. /\ TryMax(module)' = TryMax(module) /\ CheckMax(module)' = CheckMax(module)
            /\ TryMax(module) \in Nat /\ doing'["sync"] = doing["sync"]
        BY <1>5, <2>1 DEF TryMax, CheckMax, PowerMax, OkMax
      <4>2. CASE doing["sync"] = "powering"
        BY <1>4, <3>1, <4>1, <4>2 DEF TryLeft
      <4>3. CASE doing["sync"] = "checking"
        BY <1>4, <1>5, <3>1, <4>1, <4>3 DEF TryLeft
      <4> QED
        BY <2>4, <4>2, <4>3 DEF Trying
    <3>3. WarmupLeft' = WarmupLeft - 1
      BY <1>5, <2>1, <3>1, <3>2 DEF WarmupLeft, Untried, Trying, TryMax, CheckMax, PowerMax, OkMax
    <3> QED
      BY <1>0, <1>3, <1>6, <2>2, <2>4, <3>1, <3>3 DEF SecondsLeft
  <2> QED
    BY <2>3, <2>4 DEF UnderWay
<1>7. ASSUME NEW u \in Users, Powered(u)
      PROVE  PhasesLeft' < PhasesLeft /\ SecondsLeft' <= SecondsLeft
  <2>1. /\ doing[u] = "powering" /\ doing'[u] = "checking"
        /\ \A w \in Users : w # u => doing'[w] = doing[w]
        /\ UNCHANGED <<diag, module, tried>>
    BY <1>2, <1>7 DEF Powered, PoweredOk
  <2>2. age'[u] = 0 /\ \A d \in Clocks \ {u} : age'[d] = age[d]
    BY <1>1, <1>7, RestartIs DEF Powered
  <2>3. Untried' = Untried
    BY <1>1, <2>1 DEF Untried, Trying
  <2>4. PhasesLeft' < PhasesLeft
    BY <1>1, <2>1, <2>3 DEF PhasesLeft, DiagTurns, TurnsLeft
  <2>5. DiagLeft' <= DiagLeft
    BY <1>1, <1>3, <2>1, <2>2 DEF DiagLeft
  <2>6. TryLeft' <= TryLeft
    BY <1>1, <1>2, <1>4, <1>5, <2>1, <2>2
       DEF TryLeft, TryMax, CheckMax, PowerMax, OkMax
  <2>7. WarmupLeft' <= WarmupLeft
    <3> DEFINE more == IF Untried THEN TryMax(Other(module)) ELSE 0
    <3>1. more \in Nat /\ more' \in Nat /\ more' <= more
      BY <1>5, <2>1, <2>3 DEF TryMax, CheckMax, PowerMax, OkMax
    <3>2. WarmupLeft = TryLeft + more /\ WarmupLeft' = TryLeft' + more'
      BY DEF WarmupLeft
    <3> HIDE DEF more
    <3> QED
      BY <1>3, <2>6, <3>1, <3>2, SumLe
  <2> QED
    BY <1>3, <2>4, <2>5, <2>7, SecondsSum
<1>8. ASSUME NEW m \in Modules, TaskFails(m) \/ TaskSucceeds(m)
      PROVE  PhasesLeft' < PhasesLeft /\ SecondsLeft' <= SecondsLeft
  <2>1. /\ doing[m] \in {"powering", "checking"} /\ doing'[m] \in {"online", "failed"}
        /\ \A w \in Users : w # m => doing'[w] = doing[w]
        /\ UNCHANGED <<diag, module, tried>>
    BY <1>1, <1>2, <1>8 DEF TaskFails, TaskSucceeds, PowerFails, CheckFails, Online
  <2>2. age'[m] = 0 /\ \A d \in Clocks \ {m} : age'[d] = age[d]
    BY <1>1, <1>8, RestartIs DEF TaskFails, TaskSucceeds
  <2>3. Untried' = Untried
    BY <1>1, <2>1 DEF Untried, Trying
  <2>4. PhasesLeft' < PhasesLeft
    BY <1>1, <2>1, <2>3 DEF PhasesLeft, DiagTurns, TurnsLeft
  <2>5. DiagLeft' = DiagLeft /\ WarmupLeft' = WarmupLeft
    BY <1>1, <2>1, <2>2, <2>3
       DEF DiagLeft, WarmupLeft, TryLeft, TryMax, CheckMax, PowerMax, OkMax
  <2> QED
    BY <1>3, <2>4, <2>5 DEF SecondsLeft
<1>9. ASSUME WaitEnds \/ GraceEnds \/ WindowEnds \/ DelayEnds
      PROVE  PhasesLeft' < PhasesLeft /\ SecondsLeft' <= SecondsLeft
  <2>1. /\ age' = Restarted({"diag"}) /\ UNCHANGED <<doing, module, tried>>
        /\ diag # "off" /\ cpu = "diag"
    BY <1>9 DEF WaitEnds, GraceEnds, WindowEnds, DelayEnds, Decide, IInv, Phases
  <2>2. age'["diag"] = 0 /\ diag # "delay"
    <3>1. diag = "delay" => DelayEnds
      BY <1>9 DEF WaitEnds, GraceEnds, WindowEnds
    <3>2. DelayEnds => cpu' = "awake"
      BY DEF DelayEnds
    <3>3. ~Trying'
      BY <1>0, <2>1 DEF Trying
    <3> QED
      BY <1>1, <2>1, <3>1, <3>2, <3>3, RestartIs DEF UnderWay
  <2>3. \/ diag = "wait" /\ diag' \in {"grace", "window", "delay"}
        \/ diag = "grace" /\ diag' \in {"window", "delay"}
        \/ diag = "window" /\ diag' = "delay"
    BY <1>9, <2>2 DEF WaitEnds, GraceEnds, WindowEnds, DelayEnds, Decide
  <2>4. DiagLeft' <= DiagLeft
    BY <1>4, <2>2, <2>3 DEF DiagLeft, Punctual, WaitS, GraceS, WindowS, DelayS
  <2>5. WarmupLeft = 0 /\ WarmupLeft' = 0 /\ Untried' = Untried
    BY <1>0, <2>1 DEF WarmupLeft, TryLeft, Untried, Trying
  <2>6. PhasesLeft' < PhasesLeft
    BY <1>1, <2>1, <2>3, <2>5 DEF PhasesLeft, DiagTurns, TurnsLeft
  <2>7. WarmupLeft' <= WarmupLeft
    BY <2>5
  <2> QED
    BY <1>3, <2>4, <2>6, <2>7, SecondsSum
<1>10. ASSUME TryFails
       PROVE  PhasesLeft' < PhasesLeft /\ SecondsLeft' <= SecondsLeft
  <2>1. Trying
    BY <1>10 DEF TryFails, PowerFails, CheckFails, Trying
  <2>2. /\ diag' = diag /\ cpu' = cpu /\ age' = Restarted({"sync"})
        /\ \A m \in Modules : doing'[m] = doing[m]
    BY <1>1, <1>2, <1>10 DEF TryFails
  <2>3. Trying'
    BY <1>4, <2>1, <2>2 DEF UnderWay
  <2>4. /\ Other(module) \notin tried /\ doing'["sync"] = "powering"
        /\ module' = Other(module) /\ tried' = tried \cup {Other(module)}
    <3>1. ASSUME Other(module) \in tried PROVE FALSE
      <4>1. doing' = [doing EXCEPT !["sync"] = "failed"]
        BY <1>10, <3>1 DEF TryFails
      <4> QED
        BY <1>1, <1>2, <2>3, <4>1 DEF Trying
    <3> QED
      BY <1>1, <1>2, <1>10, <3>1 DEF TryFails
  <2>5. Other(module') = module /\ Untried /\ ~Untried'
    BY <1>1, <1>4, <2>1, <2>4 DEF Untried, Other
  <2>6. age'["sync"] = 0 /\ age'["diag"] = age["diag"]
    BY <1>1, <2>2, RestartIs
  <2>7. DiagLeft' <= DiagLeft
    BY <1>3, <2>2, <2>6 DEF DiagLeft
  <2>8. WarmupLeft' <= WarmupLeft
    <3>1. WarmupLeft' = TryMax(Other(module))
      BY <1>5, <2>4, <2>5, <2>6 DEF WarmupLeft, TryLeft, TryMax, CheckMax, PowerMax, OkMax
    <3>2. TryLeft \in Nat
      BY <1>4, <1>5, <2>1 DEF TryLeft, Trying
    <3>3. WarmupLeft = TryLeft + TryMax(Other(module))
      BY <2>5 DEF WarmupLeft
    <3> QED
      BY <1>5, <3>1, <3>2, <3>3
  <2>9. PhasesLeft' < PhasesLeft
    BY <1>1, <2>1, <2>2, <2>4, <2>5 DEF PhasesLeft, DiagTurns, TurnsLeft, Trying
  <2> QED
    BY <1>3, <2>7, <2>8, <2>9, SecondsSum
<1>11. ASSUME (\E p \in Modules : WarmupBegins(p)) \/ TrySucceeds \/ SessionEnds \/ Sleep
              \/ WakeByAlarm
       PROVE  FALSE
  <2>1. CASE TrySucceeds
    <3>1. Trying /\ ~Trying' /\ cpu' = cpu
      BY <1>1, <1>2, <2>1 DEF TrySucceeds, Online, Trying
    <3> QED
      BY <1>4, <3>1 DEF UnderWay
  <2>2. CASE (\E p \in Modules : WarmupBegins(p)) \/ SessionEnds \/ Sleep \/ WakeByAlarm
    <3>1. cpu # "diag"
      BY <2>2 DEF WarmupBegins, SessionEnds, Sleep, WakeByAlarm
    <3>2. ~Trying
      BY <1>1, <1>4, <2>2 DEF WarmupBegins, SessionEnds, Sleep, WakeByAlarm, Trying
    <3> QED
      BY <3>1, <3>2 DEF UnderWay
  <2> QED
    BY <1>11, <2>1, <2>2
<1> QED
  <2>1. CASE Tick
    <3>1. PhasesLeft' = PhasesLeft
      BY <2>1 DEF Tick, PhasesLeft, DiagTurns, TurnsLeft, Untried, Trying
    <3>2. SecondsLeft' = SecondsLeft - 1
      BY <1>6, <2>1
    <3>3. SecondsLeft \in Nat
      BY <1>3 DEF SecondsLeft
    <3> QED
      BY <1>3, <2>1, <3>1, <3>2, <3>3
  <2>2. CASE ~Tick
    <3>1. PhasesLeft' < PhasesLeft /\ SecondsLeft' <= SecondsLeft
      BY <1>7, <1>8, <1>9, <1>10, <1>11, <2>2 DEF Run
    <3> QED
      BY <1>3, <2>2, <3>1
  <2> QED
    BY <2>1, <2>2

-----------------------------------------------------------------------------
\* Once the diagnostic is over, nobody tests the DCOM module.
LEMMA OnlySimIsLate ==
  ASSUME IInv, TimeInv
  PROVE  /\ cpu # "diag" => ~Busy("DCOM") /\ (Busy("SIM4G") <=> LateTest)
         /\ Trying => cpu = "awake"
  BY DEF Trying, Busy, LateTest, IInv, TriedHolds, TimeInv, LateTestsAreShort, Modules

LEMMA DcomMeans ==
  ASSUME IInv
  PROVE  DcomIsOn <=> (Busy("DCOM") \/ (Trying /\ module = "DCOM") => On("DCOM"))
  BY DEF DcomIsOn, Busy, Trying, Target, Users, Modules

LEMMA DcomMeansThen ==
  IInv' => (DcomIsOn' <=> (Busy("DCOM")' \/ (Trying' /\ module' = "DCOM") => On("DCOM")'))
  BY DEF DcomIsOn, Busy, Trying, Target, Users, Modules

LEMMA DcomInit == Init => DcomIsOn
  BY DEF Init, DcomIsOn, ColdDoing, AllOn, On, Level, Target, Users, Modules

LEMMA DcomStep ==
  IInv /\ IInv' /\ TimeInv /\ DcomIsOn /\ [Next]_vars => DcomIsOn'
<1> SUFFICES ASSUME IInv, IInv', TimeInv, DcomIsOn, [Next]_vars,
                    Busy("DCOM")' \/ (Trying' /\ module' = "DCOM")
             PROVE  On("DCOM")'
  BY DcomMeansThen
<1>1. /\ "sync" \in Users \ Modules /\ Modules \subseteq Users /\ "DCOM" \in Modules
      /\ \A m \in Modules : Target(m) = m
      /\ Target("sync") = module
  BY DEF Users, Modules, Target
<1>2. /\ doing \in [Users -> {"idle", "powering", "checking", "online", "failed", "over"}]
      /\ line \in [Modules -> {"LOW", "HIGH"}] /\ module \in Modules
  BY DEF IInv, TypeOK
<1>3. /\ Busy("DCOM") \/ (Trying /\ module = "DCOM") => On("DCOM")
      /\ Trying => cpu = "awake"
      /\ cpu # "diag" => ~Busy("DCOM")
  BY DcomMeans, OnlySimIsLate
<1>4. CASE Tick \/ DelayEnds \/ UNCHANGED vars
  <2>1. UNCHANGED <<doing, line, module>>
    BY <1>4 DEF Tick, DelayEnds, vars
  <2> QED
    BY <1>3, <2>1 DEF On, Busy, Trying
<1>5. ASSUME NEW u \in Users, Powered(u) PROVE On("DCOM")'
  <2>1. /\ doing[u] = "powering" /\ \A w \in Users : w # u => doing'[w] = doing[w]
        /\ UNCHANGED <<line, module>>
    BY <1>2, <1>5 DEF Powered, PoweredOk
  <2> QED
    BY <1>1, <1>3, <2>1 DEF On, Busy, Trying
<1>6. ASSUME NEW m \in Modules, TaskFails(m) \/ TaskSucceeds(m) PROVE On("DCOM")'
  <2>1. /\ Busy(m) /\ ~Busy(m)' /\ \A w \in Users : w # m => doing'[w] = doing[w]
        /\ \A n \in Modules : n # m => line'[n] = line[n]
        /\ module' = module
    BY <1>1, <1>2, <1>6
       DEF TaskFails, TaskSucceeds, PowerFails, CheckFails, Online, SwitchOff, Busy
  <2>2. m # "DCOM"
    BY <1>1, <1>3, <2>1 DEF Trying, Busy
  <2> QED
    BY <1>1, <1>3, <2>1, <2>2 DEF On, Busy, Trying
<1>7. CASE WaitEnds \/ GraceEnds \/ WindowEnds
  <2>1. UNCHANGED <<doing, module>> /\ cpu = "diag"
    BY <1>7 DEF WaitEnds, GraceEnds, WindowEnds, Decide, IInv, Phases
  <2>2. ~Trying' /\ Busy("DCOM")
    BY <1>3, <2>1 DEF Trying, Busy
  <2>3. line'["DCOM"] = line["DCOM"]
    <3>1. CASE Decide
      BY <1>1, <1>2, <3>1 DEF Decide, SwitchOff
    <3>2. CASE WindowEnds
      BY <1>1, <1>2, <2>2, <3>2
         DEF WindowEnds, SwitchOff, Busy, IInv, WindowHolds, WindowLinkHeld
    <3>3. CASE UNCHANGED line
      BY <3>3
    <3> QED
      BY <1>7, <3>1, <3>2, <3>3 DEF WaitEnds, GraceEnds
  <2> QED
    BY <1>3, <2>2, <2>3 DEF On
<1>8. ASSUME NEW p \in Modules, WarmupBegins(p) PROVE On("DCOM")'
  <2>1. /\ module' = p /\ line'[p] = Level(TRUE) /\ doing'["DCOM"] = doing["DCOM"]
        /\ cpu = "awake"
    BY <1>1, <1>2, <1>8 DEF WarmupBegins, PowerOnBegins
  <2> QED
    BY <1>3, <2>1 DEF On, Busy
<1>9. CASE TryFails
  <2>1. Trying /\ doing'["DCOM"] = doing["DCOM"]
    BY <1>1, <1>2, <1>9 DEF TryFails, PowerFails, CheckFails, Trying
  <2>2. ~Busy("DCOM")'
    BY <1>3, <2>1 DEF Busy
  <2>3. Trying' => line'[module'] = Level(TRUE)
    <3>1. Other(module) \in Modules /\ Other(module) # module
      BY <1>2, OtherModule
    <3>2. Trying' => Other(module) \notin tried
      BY <1>1, <1>2, <1>9 DEF TryFails, Trying
    <3> QED
      BY <1>2, <1>9, <3>1, <3>2 DEF TryFails
  <2> QED
    BY <2>2, <2>3 DEF On
<1>10. CASE TrySucceeds \/ SessionEnds
  <2>1. /\ cpu # "diag" /\ doing'["DCOM"] = doing["DCOM"] /\ ~Trying'
    BY <1>1, <1>2, <1>3, <1>10 DEF TrySucceeds, Online, SessionEnds, Trying
  <2> QED
    BY <1>3, <2>1 DEF Busy
<1>11. CASE Sleep \/ WakeByAlarm
  BY <1>1, <1>11 DEF Sleep, WakeByAlarm, Busy, Trying
<1>12. CASE Reset
  BY <1>1, <1>12 DEF Reset, AllOn, On
<1> QED
  BY <1>4, <1>5, <1>6, <1>7, <1>8, <1>9, <1>10, <1>11, <1>12 DEF Next, Run

\* Who may switch a module off, and under whom.
LEMMA PowerStep == IInv /\ TimeInv /\ [Next]_vars => PowerKept
<1> SUFFICES ASSUME IInv, TimeInv, [Next]_vars, NEW u \in Users,
                    {doing[u], doing'[u]} \subseteq {"powering", "checking"},
                    Target(u)' = Target(u), On(Target(u)), ~On(Target(u))'
             PROVE  LateTest /\ Target(u) = "SIM4G"
  BY DEF PowerKept
<1>1. /\ "sync" \in Users \ Modules /\ Modules \subseteq Users /\ Users = Modules \cup {"sync"}
      /\ Modules = {"SIM4G", "DCOM"}
      /\ \A m \in Modules : Target(m) = m
      /\ Target("sync") = module
  BY DEF Users, Modules, Target
<1>2. /\ doing \in [Users -> {"idle", "powering", "checking", "online", "failed", "over"}]
      /\ line \in [Modules -> {"LOW", "HIGH"}] /\ module \in Modules /\ Target(u) \in Modules
  BY TargetsAre DEF IInv, TypeOK
<1>3. /\ cpu # "diag" => ~Busy("DCOM") /\ (Busy("SIM4G") <=> LateTest)
      /\ Trying => cpu = "awake"
  BY OnlySimIsLate
<1>4. line'[Target(u)] # line[Target(u)]
  BY DEF On
<1>5. u \in Modules => Busy(u) /\ Target(u) = u
  BY <1>1 DEF Busy
<1>6. u = "sync" => Trying /\ Trying' /\ module' = module
  BY <1>1 DEF Trying, Target
<1>7. ASSUME cpu # "diag", u \in Modules PROVE LateTest /\ Target(u) = "SIM4G"
  BY <1>1, <1>3, <1>5, <1>7
<1>8. ASSUME NEW m \in Modules, TaskFails(m) PROVE LateTest /\ Target(u) = "SIM4G"
  <2>1. /\ Busy(m) /\ doing'[m] = "failed" /\ \A n \in Modules : n # m => line'[n] = line[n]
    BY <1>1, <1>2, <1>8 DEF TaskFails, PowerFails, CheckFails, SwitchOff, Busy
  <2>2. Target(u) = m /\ u = "sync"
    BY <1>1, <1>2, <1>4, <2>1
  <2> QED
    BY <1>1, <1>3, <1>6, <2>1, <2>2
<1>9. CASE WaitEnds \/ GraceEnds \/ WindowEnds
  <2>1. cpu = "diag" /\ u \in Modules
    BY <1>1, <1>3, <1>6, <1>9 DEF WaitEnds, GraceEnds, WindowEnds, Decide, IInv, Phases
  <2>2. CASE Decide
    BY <1>2, <1>4, <1>5, <1>9, <2>1, <2>2
       DEF Decide, SwitchOff, Busy, IInv, BitsHold, Phases
  <2>3. CASE WindowEnds
    BY <1>2, <1>4, <1>5, <2>1, <2>3
       DEF WindowEnds, SwitchOff, Busy, IInv, WindowHolds, WindowLinkHeld
  <2>4. CASE UNCHANGED line
    BY <1>4, <2>4
  <2> QED
    BY <1>9, <2>2, <2>3, <2>4 DEF WaitEnds, GraceEnds
<1>10. CASE (\E p \in Modules : WarmupBegins(p)) \/ Reset
  <2>1. line[Target(u)] = Level(TRUE) /\ line'[Target(u)] # Level(TRUE)
    BY DEF On
  <2>2. line' \in {AllOn} \/ \E p \in Modules : PowerOnBegins({p})
    BY <1>10 DEF WarmupBegins, Reset
  <2>3. Target(u) \in Modules => line'[Target(u)] \in {Level(TRUE), line[Target(u)]}
    BY <2>2 DEF PowerOnBegins, AllOn
  <2> QED
    BY <1>2, <2>1, <2>3
<1>11. CASE TryFails \/ SessionEnds
  <2>1. cpu # "diag"
    BY <1>3, <1>11 DEF TryFails, SessionEnds, PowerFails, CheckFails, Trying
  <2>2. ~(Trying /\ Trying' /\ module' = module)
    <3>1. CASE SessionEnds
      BY <1>1, <1>2, <3>1 DEF SessionEnds, Trying
    <3>2. CASE TryFails
      <4>1. Other(module) # module
        BY <1>2, OtherModule
      <4>2. doing' = [doing EXCEPT !["sync"] = "failed"] \/ module' = Other(module)
        BY <3>2 DEF TryFails
      <4> QED
        BY <1>1, <1>2, <4>1, <4>2 DEF Trying
    <3> QED
      BY <1>11, <3>1, <3>2
  <2> QED
    BY <1>1, <1>6, <1>7, <2>1, <2>2
<1>12. CASE Sleep \/ WakeByAlarm
  BY <1>12 DEF Sleep, WakeByAlarm
<1>13. CASE Tick \/ DelayEnds \/ TrySucceeds \/ UNCHANGED vars
              \/ (\E w \in Users : Powered(w)) \/ (\E m \in Modules : TaskSucceeds(m))
  BY <1>4, <1>13 DEF Tick, DelayEnds, TrySucceeds, Powered, TaskSucceeds, vars
<1> QED
  BY <1>8, <1>9, <1>10, <1>11, <1>12, <1>13 DEF Next, Run

\* Time passes unless somebody's phase is over: no user waits for what does not come.
LEMMA GoesOn ==
  IInv /\ Punctual /\ DcomIsOn /\ UnderWay => PhaseMayEnd \/ TimeMayPass
<1> SUFFICES ASSUME IInv, Punctual, DcomIsOn, UnderWay, ~TimeMayPass PROVE PhaseMayEnd
  OBVIOUS
<1>1. \E c \in Clocks : Timed(c)
  <2>1. "diag" \in Clocks /\ "sync" \in Clocks
    BY DEF Clocks, Users
  <2> QED
    BY <2>1 DEF UnderWay, Trying, Timed
<1>2. CASE ~DiagMayWait
  <2>1. age["diag"] \in Nat
    BY DEF IInv, TypeOK, Clocks
  <2> QED
    BY <1>2, <2>1 DEF DiagMayWait, PhaseMayEnd, Punctual, WaitS, GraceS, WindowS, DelayS
<1>3. ASSUME NEW u \in Users, ~MayWait(u) PROVE PhaseMayEnd
  <2>1. /\ age[u] \in Nat /\ Target(u) \in {"SIM4G", "DCOM"}
        /\ doing[u] \in {"powering", "checking"} /\ Target(u) = "DCOM" => On(Target(u))
    BY TargetsAre DEF DcomIsOn, Modules
  <2>2. CASE doing[u] = "powering"
    <3>1. age[u] = PowerMax(Target(u))
      BY <1>3, <2>1, <2>2 DEF MayWait, Punctual, PowerMax
    <3>2. PoweredOk(u) \/ PowerFails(u)
      BY <2>1, <2>2, <3>1 DEF PoweredOk, PowerFails, PowerMin, PowerMax, HandshakeGivesUp
    <3> QED
      BY <3>2 DEF PhaseMayEnd
  <2>3. CASE doing[u] = "checking"
    <3>1. age[u] <= CheckMax(Target(u))
      BY <2>3 DEF Punctual
    <3>2. CASE Target(u) = "SIM4G"
      <4>1. CheckFails(u)
        BY <2>3, <3>1, <3>2 DEF CheckFails, CheckMax, FailMax
      <4> QED
        BY <4>1 DEF PhaseMayEnd
    <3>3. CASE Target(u) = "DCOM"
      <4>1. Reachable(u)
        BY <2>1, <2>3, <3>3 DEF Reachable
      <4>2. age[u] >= OkMax(Target(u))
        BY <1>3, <2>1, <2>3, <4>1 DEF MayWait, OkMax
      <4>3. Online(u)
        BY <2>1, <2>3, <3>1, <3>3, <4>1, <4>2 DEF Online, CheckMax, OkMin, OkMax
      <4> QED
        BY <4>3 DEF PhaseMayEnd
    <3> QED
      BY <2>1, <3>2, <3>3
  <2> QED
    BY <1>3, <2>2, <2>3 DEF MayWait
<1> QED
  BY <1>1, <1>2, <1>3 DEF TimeMayPass

LEMMA PunctualAlways == Spec => [](IInv /\ Punctual)
<1>1. Init => IInv /\ Punctual
  BY InitHolds, PunctualHolds
<1>2. (IInv /\ Punctual) /\ [Next]_vars => (IInv /\ Punctual)'
  BY StepHolds, PunctualHolds
<1> QED
  BY <1>1, <1>2, PTL DEF Spec

\* No step cuts the power under a user that is bringing its module up, though three parties
\* switch the two modules, at any second and after any reset: but for the SIM module, beside
\* a test of it that outlived the diagnostic (diagnostic_task.cpp:90-109, 339-404;
\* connectivity_manager.cpp:21-72).
THEOREM UsedStaysOn == Spec => PowerIsKept
<1>1. (IInv /\ TimeInv) /\ [Next]_vars => PowerKept
  BY PowerStep
<1>2. (IInv /\ TimeInv) /\ [Next]_vars => [PowerKept]_vars
  BY <1>1
<1> QED
  BY <1>2, TimeInvariance, PTL DEF Spec, PowerIsKept

LEMMA DcomAlways == Spec => []DcomIsOn
<1>1. (IInv /\ TimeInv) /\ (IInv /\ TimeInv)' /\ DcomIsOn /\ [Next]_vars => DcomIsOn'
  BY DcomStep
<1> QED
  BY <1>1, DcomInit, TimeInvariance, PTL DEF Spec

\* The waits of the diagnostic; the longest try of either module.
DiagnosticLimit == 253
WarmupLimit == 84 + SimCheckMax

WithinLimit ==
  /\ cpu = "diag" => SecondsLeft \in 0 .. DiagnosticLimit
  /\ Trying => SecondsLeft \in 0 .. WarmupLimit
  /\ PhasesLeft \in Nat

TakesOff ==
  /\ SecondsLeft' <= SecondsLeft /\ PhasesLeft' <= PhasesLeft
  /\ IF Tick THEN SecondsLeft' = SecondsLeft - 1 ELSE PhasesLeft' < PhasesLeft

\* The diagnostic releases app_main within 253 seconds of the power-on, and warmup returns within
\* 84 s and a SIM check, whatever the two modules do: a step of either ends it, or takes a second
\* or a phase off what is left of it, and raises neither (diagnostic_task.cpp:283-412,
\* connectivity_manager.cpp:21-55).  MainStarts and WarmupReturns rest on it.
THEOREM TestsAndTriesEnd ==
  Spec => []WithinLimit /\ [][UnderWay /\ UnderWay' /\ Run => TakesOff]_vars
<1>1. IInv /\ Punctual => WithinLimit
  <2> SUFFICES ASSUME IInv, Punctual PROVE WithinLimit
    OBVIOUS
  <2>1. Rest
    BY RestIs
  <2>2. cpu = "diag" => SecondsLeft = DiagLeft
    BY <2>1 DEF Rest, SecondsLeft
  <2>3. Trying => SecondsLeft = WarmupLeft
    BY <2>1, ConnectivityAssumption DEF Rest, SecondsLeft
  <2> QED
    BY <2>1, <2>2, <2>3 DEF Rest, WithinLimit, DiagnosticLimit, WarmupLimit
<1>2. (IInv /\ Punctual) /\ (IInv /\ Punctual)' /\ [Next]_vars =>
        [UnderWay /\ UnderWay' /\ Run => TakesOff]_vars
  BY StepsTakeOff DEF TakesOff
<1> QED
  BY <1>1, <1>2, PunctualAlways, PTL DEF Spec

\* No user of a module, nor the diagnostic, comes to wait for what does not come, however long
\* a SIM check takes and whoever cuts the power: somebody's phase may end, or time passes and
\* brings its time-out (diagnostic_task.cpp:283-316, connectivity_manager.cpp:57-72).
THEOREM NobodyWaitsForEver == Spec => [](UnderWay => PhaseMayEnd \/ TimeMayPass)
<1>1. (IInv /\ Punctual) /\ DcomIsOn => (UnderWay => PhaseMayEnd \/ TimeMayPass)
  BY GoesOn
<1> QED
  BY <1>1, PunctualAlways, DcomAlways, PTL
=============================================================================
