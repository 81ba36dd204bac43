---------------------------- MODULE Connectivity ----------------------------
(***************************************************************************)
(* Who powers the two communication modules, and when.  In a cold boot the *)
(* diagnostic brings both up in parallel, one FreeRTOS task each, and      *)
(* keeps the first; every hour sync_task brings them up one after the      *)
(* other through ConnectivityManager::warmup.  A module is used by at most *)
(* three parties: its diagnostic task, the diagnostic window, the sync.    *)
(*                                                                         *)
(* Time is counted in whole seconds: `age' is how long a party has been in *)
(* its phase, and nobody stays in a phase past its last second.            *)
(***************************************************************************)
EXTENDS Naturals

CONSTANTS
  SimCheckMax,   (* the longest a SIM check can take to fail, see CheckMax *)
  Resets         (* may the chip reset, or restart after an update?        *)

ASSUME ConnectivityAssumption == SimCheckMax \in Nat /\ SimCheckMax >= 46 /\ Resets \in BOOLEAN

Modules == {"SIM4G", "DCOM"}
Users == Modules \cup {"sync"}        (* a diagnostic task has its module's name *)
Clocks == Users \cup {"diag"}

VARIABLES
  cpu,      (* "diag": app_main waits for it; "awake": the tasks run; "asleep" *)
  line,     (* level of SIM_PWR and DCOM_PWR                               *)
  doing,    (* what each user of a module is doing                         *)
  bits,     (* the diagnostic's event group                                *)
  diag,     (* what diagnostic_task is doing                               *)
  active,   (* the module of the window, or of the sync; or "none"         *)
  module,   (* the module warmup is trying                                 *)
  tried,    (* history: modules the sync has powered in this boot          *)
  age

vars == <<cpu, line, doing, bits, diag, active, module, tried, age>>

Other(m) == IF m = "SIM4G" THEN "DCOM" ELSE "SIM4G"
Target(u) == IF u = "sync" THEN module ELSE u

\* setSimPower and setDcomPower write !on.
Level(on) == IF on THEN "LOW" ELSE "HIGH"
On(m) == line[m] = Level(TRUE)

\* IoController::init
InitLine == [m \in Modules |-> "LOW"]

\* A cold boot, once test_connectivity has started its two tasks: the tests before it
\* leave the modules alone.
ColdDoing == [u \in Users |-> IF u = "sync" THEN "idle" ELSE "powering"]
AllOn == [m \in Modules |-> Level(TRUE)]

Init ==
  /\ cpu = "diag" /\ diag = "wait" /\ doing = ColdDoing
  /\ line = AllOn
  /\ bits = {} /\ active = "none" /\ module = "SIM4G" /\ tried = {}
  /\ age = [c \in Clocks |-> 0]

-----------------------------------------------------------------------------
(* Durations, in seconds, from config.hpp and the timeouts of the calls.   *)

\* Power edge, boot delay and the AT handshake, which a modem may answer at the last try;
\* without a UART there is none.
PowerMin(m) == IF m = "SIM4G" THEN 5 ELSE 1
PowerMax(m) == IF m = "SIM4G" THEN 18 ELSE 1
HandshakeGivesUp == {5, 17, 18}

\* configureLteMode (6) and checkInternet: 40, and past its deadline AT+CSQ, AT+CIMI and
\* AT+COPS? if they go unanswered (9).  DCOM waits 60 for Wi-Fi and 5 more once it is up.
OkMin(m) == IF m = "SIM4G" THEN 1 ELSE 5
OkMax(m) == IF m = "SIM4G" THEN 46 ELSE 65
FailMax(m) == IF m = "SIM4G" THEN SimCheckMax ELSE 60

\* Mutated: half the delay after the diagnostic.
DelayS_Short == 5

WaitS == 60        (* kConnDiagTimeoutMs *)
GraceS == 3
WindowS == 180     (* kDiagWindowMs, at least: the last cycle may run over *)
DelayS == 10       (* kDiagnosticDelayMs *)

\* Only a module that is on answers; past FailMax the Wi-Fi is up and only settles.
Reachable(u) == On(Target(u)) \/ age[u] > FailMax(Target(u))

\* May user u stay in its phase for another second?
MayWait(u) ==
  CASE doing[u] = "powering" -> age[u] < PowerMax(Target(u))
    [] doing[u] = "checking" -> \/ age[u] < FailMax(Target(u))
                                \/ Reachable(u) /\ age[u] < OkMax(Target(u))
    [] OTHER -> TRUE

DiagMayWait ==
  CASE diag = "wait" -> bits = {} /\ age["diag"] < WaitS
    [] diag = "grace" -> bits # Modules /\ age["diag"] < GraceS
    [] diag = "window" -> age["diag"] < WindowS
    [] diag = "delay" -> age["diag"] < DelayS
    [] OTHER -> TRUE

Timed(c) == IF c = "diag" THEN cpu = "diag" ELSE doing[c] \in {"powering", "checking"}

Tick ==
  /\ \E c \in Clocks : Timed(c)
  /\ \A u \in Users : MayWait(u)
  /\ DiagMayWait
  /\ age' = [c \in Clocks |-> IF Timed(c) THEN age[c] + 1 ELSE 0]
  /\ UNCHANGED <<cpu, line, doing, bits, diag, active, module, tried>>

\* The age vector once the parties in C enter a new phase.
Restarted(C) == [c \in Clocks |-> IF c \in C THEN 0 ELSE age[c]]

-----------------------------------------------------------------------------
(* Power, as every user drives it.                                         *)

\* powerOnHardware and DcomModule::powerOn begin with an edge, off and on again.
PowerOnBegins(M) == line' = [m \in Modules |-> IF m \in M THEN Level(TRUE) ELSE line[m]]

SwitchOff(M) == line' = [m \in Modules |-> IF m \in M THEN Level(FALSE) ELSE line[m]]

\* What powerOn and checkInternet may return to user u, and when.
PoweredOk(u) ==
  doing[u] = "powering" /\ age[u] >= PowerMin(Target(u)) /\ On(Target(u))

PowerFails(u) ==
  doing[u] = "powering" /\ Target(u) = "SIM4G" /\ age[u] \in HandshakeGivesUp

Online(u) ==
  doing[u] = "checking" /\ age[u] \in OkMin(Target(u)) .. OkMax(Target(u)) /\ Reachable(u)

CheckFails(u) == doing[u] = "checking" /\ age[u] <= FailMax(Target(u))

\* powerOn succeeded: checkInternet begins.
Powered(u) ==
  /\ PoweredOk(u)
  /\ doing' = [doing EXCEPT ![u] = "checking"]
  /\ age' = Restarted({u})
  /\ UNCHANGED <<cpu, line, bits, diag, active, module, tried>>

-----------------------------------------------------------------------------
(* The diagnostic: conn_module_task, one per module, and diagnostic_task.  *)

\* Mutated: conn_module_task that sets its bit whatever checkInternet returned.
TaskFails_SetsBit(m) ==
  /\ PowerFails(m) \/ CheckFails(m)
  /\ doing' = [doing EXCEPT ![m] = "failed"]
  /\ bits' = IF diag \in {"wait", "grace"} THEN bits \cup {m} ELSE bits
  /\ SwitchOff({m})
  /\ age' = Restarted({m})
  /\ UNCHANGED <<cpu, diag, active, module, tried>>

\* A task whose module is offline leaves it switched off.
TaskFails(m) ==
  /\ PowerFails(m) \/ CheckFails(m)
  /\ doing' = [doing EXCEPT ![m] = "failed"]
  /\ SwitchOff({m})
  /\ age' = Restarted({m})
  /\ UNCHANGED <<cpu, bits, diag, active, module, tried>>

\* The event group may be gone by now: the bit then goes to freed memory, unseen.
TaskSucceeds(m) ==
  /\ Online(m)
  /\ doing' = [doing EXCEPT ![m] = "online"]
  /\ bits' = IF diag \in {"wait", "grace"} THEN bits \cup {m} ELSE bits
  /\ age' = Restarted({m})
  /\ UNCHANGED <<cpu, line, diag, active, module, tried>>

\* Mutated: the other module is switched off even if its test goes on.
Decide_OffOther ==
  /\ diag' = IF bits = {} THEN "delay" ELSE "window"
  /\ active' = IF "DCOM" \in bits THEN "DCOM" ELSE IF "SIM4G" \in bits THEN "SIM4G" ELSE "none"
  /\ SwitchOff(IF bits = {} THEN {} ELSE Modules \ {active'})
  /\ age' = Restarted({"diag"})
  /\ UNCHANGED <<cpu, doing, bits, module, tried>>

\* test_connectivity returns: Wi-Fi is preferred, and the other of two is switched off.
Decide ==
  /\ diag' = IF bits = {} THEN "delay" ELSE "window"
  /\ active' = IF "DCOM" \in bits THEN "DCOM" ELSE IF "SIM4G" \in bits THEN "SIM4G" ELSE "none"
  /\ SwitchOff(IF bits = Modules THEN {"SIM4G"} ELSE {})
  /\ age' = Restarted({"diag"})
  /\ UNCHANGED <<cpu, doing, bits, module, tried>>

\* Mutated: a wait for the first module without a time-out.
WaitEnds_NoTimeout ==
  /\ diag = "wait" /\ bits # {}
  /\ IF bits = Modules THEN Decide
     ELSE /\ diag' = "grace" /\ age' = Restarted({"diag"})
          /\ UNCHANGED <<cpu, line, doing, bits, active, module, tried>>

\* The wait for any module, and its time-out.
WaitEnds ==
  /\ diag = "wait" /\ (bits # {} \/ age["diag"] = WaitS)
  /\ IF bits = {} \/ bits = Modules THEN Decide
     ELSE /\ diag' = "grace" /\ age' = Restarted({"diag"})
          /\ UNCHANGED <<cpu, line, doing, bits, active, module, tried>>

GraceEnds ==
  /\ diag = "grace" /\ (bits = Modules \/ age["diag"] = GraceS)
  /\ Decide

WindowEnds ==
  /\ diag = "window" /\ age["diag"] = WindowS
  /\ diag' = "delay" /\ active' = "none"
  /\ SwitchOff({active})
  /\ age' = Restarted({"diag"})
  /\ UNCHANGED <<cpu, doing, bits, module, tried>>

\* diagnostic_task gives s_diag_done and app_main creates the tasks.
DelayEnds ==
  /\ diag = "delay" /\ age["diag"] = DelayS
  /\ diag' = "off" /\ cpu' = "awake"
  /\ age' = Restarted({"diag"})
  /\ UNCHANGED <<line, doing, bits, active, module, tried>>

-----------------------------------------------------------------------------
(* The wake cycle.                                                         *)

\* sync_task is notified at minute 0 and calls warmup, which begins with the module
\* last saved in NVS: any, since failover_task may have changed it.
WarmupBegins(preferred) ==
  /\ cpu = "awake" /\ doing["sync"] = "idle"
  /\ module' = preferred
  /\ tried' = {preferred} /\ PowerOnBegins({preferred})
  /\ doing' = [doing EXCEPT !["sync"] = "powering"]
  /\ age' = Restarted({"sync"})
  /\ UNCHANGED <<cpu, bits, diag, active>>

\* Mutated: tryModule that returns without switching the module off.
TryFails_LeavesOn ==
  /\ PowerFails("sync") \/ CheckFails("sync")
  /\ age' = Restarted({"sync"})
  /\ LET next == Other(module) IN
     IF next \in tried
     THEN /\ SwitchOff({module})
          /\ doing' = [doing EXCEPT !["sync"] = "failed"]
          /\ UNCHANGED <<module, tried>>
     ELSE /\ PowerOnBegins({next})
          /\ module' = next
          /\ tried' = tried \cup {next}
          /\ doing' = [doing EXCEPT !["sync"] = "powering"]
  /\ UNCHANGED <<cpu, bits, diag, active>>

\* Mutated: warmup that goes back to the first module when the second fails.
TryFails_Forever ==
  /\ PowerFails("sync") \/ CheckFails("sync")
  /\ age' = Restarted({"sync"})
  /\ LET next == Other(module) IN
     /\ line' = [line EXCEPT ![module] = Level(FALSE), ![next] = Level(TRUE)]
     /\ module' = next
     /\ tried' = tried \cup {next}
     /\ doing' = [doing EXCEPT !["sync"] = "powering"]
  /\ UNCHANGED <<cpu, bits, diag, active>>

\* tryModule fails: warmup tries the other module, or gives up.
TryFails ==
  /\ PowerFails("sync") \/ CheckFails("sync")
  /\ age' = Restarted({"sync"})
  /\ LET next == Other(module) IN
     IF next \in tried
     THEN /\ SwitchOff({module})
          /\ doing' = [doing EXCEPT !["sync"] = "failed"]
          /\ UNCHANGED <<module, tried>>
     ELSE /\ line' = [line EXCEPT ![module] = Level(FALSE), ![next] = Level(TRUE)]
          /\ module' = next
          /\ tried' = tried \cup {next}
          /\ doing' = [doing EXCEPT !["sync"] = "powering"]
  /\ UNCHANGED <<cpu, bits, diag, active>>

TrySucceeds ==
  /\ Online("sync")
  /\ active' = module
  /\ doing' = [doing EXCEPT !["sync"] = "online"]
  /\ age' = Restarted({"sync"})
  /\ UNCHANGED <<cpu, line, bits, diag, module, tried>>

\* The sync's time check, sends and OTA check are done.
SessionEnds ==
  /\ cpu = "awake" /\ doing["sync"] = "online"
  /\ SwitchOff({active})
  /\ doing' = [doing EXCEPT !["sync"] = "over"]
  /\ UNCHANGED <<cpu, bits, diag, active, module, tried, age>>

\* enterSafeMode and deep sleep, which ends every task.  A cycle without a sync only
\* measures; a warmup is far shorter than the awake budget, a session need not be;
\* nobody waits for a diagnostic task.
Sleep ==
  /\ cpu = "awake" /\ doing["sync"] \notin {"powering", "checking"}
  /\ cpu' = "asleep"
  /\ doing' = [u \in Users |-> "idle"]
  /\ SwitchOff(Modules)
  /\ UNCHANGED <<bits, diag, active, module, tried, age>>

Forget ==
  /\ bits' = {} /\ active' = "none" /\ tried' = {}
  /\ age' = [c \in Clocks |-> 0]
  /\ UNCHANGED module

\* The RTC woke the chip: no diagnostic.
WakeByAlarm ==
  /\ cpu = "asleep"
  /\ cpu' = "awake" /\ diag' = "off" /\ doing' = [u \in Users |-> "idle"]
  /\ line' = InitLine
  /\ Forget

\* A power failure, at any time; a restart after an update leaves from the window or
\* the session.  Neither is a wake-up, so the diagnostic runs.
Reset ==
  /\ Resets
  /\ cpu' = "diag" /\ diag' = "wait" /\ doing' = ColdDoing
  /\ line' = AllOn
  /\ Forget

-----------------------------------------------------------------------------
Run ==
  \/ Tick
  \/ \E u \in Users : Powered(u)
  \/ \E m \in Modules : TaskFails(m) \/ TaskSucceeds(m)
  \/ WaitEnds \/ GraceEnds \/ WindowEnds \/ DelayEnds
  \/ \E m \in Modules : WarmupBegins(m)
  \/ TryFails \/ TrySucceeds \/ SessionEnds
  \/ Sleep \/ WakeByAlarm

Next == Run \/ Reset

Spec == Init /\ [][Next]_vars

\* Every wait has a time-out, and the RTC wakes the chip from its sleep.
FairSpec == Spec /\ WF_vars(Run)
-----------------------------------------------------------------------------
TypeOK ==
  /\ cpu \in {"diag", "awake", "asleep"}
  /\ line \in [Modules -> {"LOW", "HIGH"}]
  /\ doing \in [Users -> {"idle", "powering", "checking", "online", "failed", "over"}]
  /\ bits \subseteq Modules /\ tried \subseteq Modules
  /\ diag \in {"wait", "grace", "window", "delay", "off"}
  /\ active \in Modules \cup {"none"} /\ module \in Modules
  /\ age \in [Clocks -> Nat]

\* While the diagnostic window sends over a module, that module is online and nobody
\* has switched it off: a task's bit is set only once the task is done with the module.
WindowLinkHeld == diag = "window" => doing[active] = "online" /\ On(active)

\* A module whose diagnostic task failed stays off until the sync powers it.
FailedIsOff == \A m \in Modules \ tried : cpu = "diag" /\ doing[m] = "failed" => ~On(m)

\* Once warmup has returned, every module it tried is off but the one it chose.
TriedIsOff ==
  doing["sync"] \in {"online", "failed"} =>
    \A m \in tried : On(m) => doing["sync"] = "online" /\ m = active

\* The chip sleeps with both modules off, whatever the awake budget cut short and
\* whatever a late diagnostic task left on.
AsleepAllOff == cpu = "asleep" => \A m \in Modules : ~On(m)

\* Nobody joins the diagnostic tasks.  One that still runs when sync_task may touch its
\* module is the SIM's, and the longest of its checks ends 3 s later: what the commands that
\* overrun a deadline take beyond the waits of diagnostic_task.
LateTest == cpu # "diag" /\ doing["SIM4G"] \in {"powering", "checking"}

LateTestsAreShort ==
  cpu # "diag" =>
    \A m \in Modules : doing[m] \in {"powering", "checking"} =>
      m = "SIM4G" /\ doing[m] = "checking" /\ age[m] >= 52

\* No step cuts the power under a user that is bringing its module up, but that of the SIM
\* module beside a late test.
PowerKept ==
  \A u \in Users :
    /\ {doing[u], doing'[u]} \subseteq {"powering", "checking"}
    /\ Target(u)' = Target(u) /\ On(Target(u)) /\ ~On(Target(u))'
    => LateTest /\ Target(u) = "SIM4G"

\* A module that somebody is bringing up keeps its power, though the diagnostic, its tasks
\* and warmup all switch the two of them; only a late test and sync_task may cut the SIM
\* module's power under each other.
PowerIsKept == [][PowerKept]_vars

\* However the tests of the two modules end, app_main is released from the diagnostic,
\* unless the power fails again and again.
MainStarts == []<><<Reset>>_vars \/ (cpu = "diag" ~> cpu = "awake")

\* warmup returns after at most two modules, unless the power fails meanwhile.
WarmupReturns ==
  doing["sync"] \in {"powering", "checking"} ~>
    cpu = "diag" \/ doing["sync"] \in {"online", "failed"}

-----------------------------------------------------------------------------
(* What the code's comments say of it.                                     *)

\* diagnostic_task.cpp:347, of the window: "the unused module is powered off to save
\* current".
UnusedIsOff ==
  diag = "window" => \A m \in Modules \ {active} : doing[m] = "online" => ~On(m)
=============================================================================
