-------------------------- MODULE SupervisorProofs --------------------------
(***************************************************************************)
(* Theorems about Supervisor, for every set of processes and callers and   *)
(* every delay.  Type correctness needs nothing more.  That crash loops    *)
(* are throttled assumes OneCaller; the safety theorems and the refinement *)
(* assume Serialised, and TLC's run MCSupervisorTwoCallers shows that they *)
(* fail without it.                                                        *)
(***************************************************************************)
EXTENDS SupervisorProps, TLAPS

USE SupervisorConstants DEF SupervisorConstants

-----------------------------------------------------------------------------
(* Type correctness.                                                       *)

LEMMA CallersWork == Caller \subseteq Worker /\ Main \in Worker
  BY DEF Worker

LEMMA StartLockedTyped ==
  ASSUME TypeOK, StartLocked
  PROVE  /\ (live \subseteq Proc)' /\ (proc \in Proc \cup {None})'
         /\ (desired \in BOOLEAN)' /\ (backoff \in BackoffInitial .. BackoffMax)'
         /\ (restartIn \in 0 .. BackoffMax)' /\ (upFor \in 0 .. HealthyReset + 1)'
         /\ (sinceLaunch \in 0 .. BackoffMax)'
  BY DEF TypeOK, StartLocked, Spawn, SpawnFails, Unused

LEMMA StopBeginsTyped ==
  ASSUME TypeOK, NEW w \in Worker, NEW next \in {"idle", "start", "shutdown"},
         StopBegins(w, next)
  PROVE  /\ (live \subseteq Proc)' /\ (proc \in Proc \cup {None})'
         /\ (desired \in BOOLEAN)' /\ (backoff \in BackoffInitial .. BackoffMax)'
         /\ (restartIn \in 0 .. BackoffMax)' /\ (upFor \in 0 .. HealthyReset + 1)'
         /\ (sinceLaunch \in 0 .. BackoffMax)'
         /\ (pc \in [Worker -> Stopping \cup {"idle", "start", "wait", "shutdown"}])'
         /\ (mine \in [Worker -> Proc \cup {None}])'
         /\ (then \in [Worker -> {"idle", "start", "shutdown"}])'
  BY DEF TypeOK, StopBegins, Stopping

LEMMA BackOffTyped ==
  ASSUME TypeOK, BackOff
  PROVE  restartIn' \in 0 .. BackoffMax /\ backoff' \in BackoffInitial .. BackoffMax
  BY DEF TypeOK, BackOff, Least

LEMMA TypeStep == ASSUME TypeOK, [Next]_vars PROVE TypeOK'
<1> SUFFICES ASSUME Next PROVE TypeOK'
  BY DEF TypeOK, vars
<1>1. ASSUME NEW c \in Caller, Start(c) PROVE TypeOK'
  BY <1>1, StartLockedTyped, CallersWork DEF TypeOK, Start, StartReturns
<1>2. ASSUME NEW c \in Caller, RestartStarts(c) PROVE TypeOK'
  BY <1>2, StartLockedTyped, CallersWork DEF TypeOK, RestartStarts, StartReturns
<1>10. ASSUME NEW c \in Caller, SocketWaited(c) PROVE TypeOK'
  BY <1>10, CallersWork DEF TypeOK, SocketWaited, manager
<1>3. ASSUME NEW c \in Caller, Stop(c) PROVE TypeOK'
  <2>1. c \in Worker /\ StopBegins(c, "idle") /\ agent' = agent
    BY <1>3 DEF Stop, Worker
  <2> QED BY <2>1, StopBeginsTyped DEF TypeOK
<1>4. ASSUME NEW c \in Caller, Restart(c) PROVE TypeOK'
  <2>1. c \in Worker /\ StopBegins(c, "start") /\ agent' = agent
    BY <1>4 DEF Restart, Worker
  <2> QED BY <2>1, StopBeginsTyped DEF TypeOK
<1>5. ASSUME NEW w \in Worker, StopSteps(w) PROVE TypeOK'
  <2>1. CASE SeesExit(w)
    BY <2>1 DEF TypeOK, SeesExit, Stopping, manager
  <2>2. CASE TimesOut(w)
    <3>1. NextResort(pc[w]) \subseteq Stopping
      BY <2>2 DEF TimesOut, NextResort, Stopping
    <3> QED BY <2>2, <3>1 DEF TypeOK, TimesOut, manager
  <2>3. CASE Clear(w)
    BY <2>3 DEF TypeOK, Clear
  <2> QED BY <1>5, <2>1, <2>2, <2>3 DEF StopSteps
<1>6. ASSUME Monitor PROVE TypeOK'
  <2>1. CASE MonitorSeesHealth
    BY <2>1 DEF TypeOK, MonitorSeesHealth, worker
  <2>2. CASE MonitorReaps
    BY <2>2, BackOffTyped DEF TypeOK, MonitorReaps, worker
  <2>3. CASE MonitorRelaunches
    BY <2>3 DEF TypeOK, MonitorRelaunches, Spawn, Unused, worker
  <2>4. CASE MonitorLaunchFails
    BY <2>4, BackOffTyped DEF TypeOK, MonitorLaunchFails, SpawnFails, worker
  <2> QED BY <1>6, <2>1, <2>2, <2>3, <2>4 DEF Monitor
<1>7. ASSUME Shutdown PROVE TypeOK'
  <2>1. CASE Terminated
    BY <2>1 DEF TypeOK, Terminated, manager, worker, Running
  <2>2. CASE CloseBegins
    <3>1. Main \in Worker /\ StopBegins(Main, "shutdown") /\ agent' = "closing"
      BY <2>2 DEF CloseBegins, Worker
    <3> QED BY <3>1, StopBeginsTyped DEF TypeOK, Running
  <2>3. CASE DrainTimesOut
    BY <2>3 DEF TypeOK, DrainTimesOut, manager, worker
  <2>4. CASE CloseEnds
    BY <2>4 DEF TypeOK, CloseEnds, manager
  <2> QED BY <1>7, <2>1, <2>2, <2>3, <2>4 DEF Shutdown
<1>8. ASSUME NEW p \in Proc, Exit(p) PROVE TypeOK'
  BY <1>8 DEF TypeOK, Exit, manager, worker
<1>9. ASSUME Second PROVE TypeOK'
  BY <1>9 DEF TypeOK, Second, Least, worker
<1> QED
  BY <1>1, <1>2, <1>3, <1>4, <1>5, <1>6, <1>7, <1>8, <1>9, <1>10 DEF Next, CallerSteps

LEMMA TypeInit == Init => TypeOK
<1> SUFFICES ASSUME Init PROVE TypeOK
  OBVIOUS
<1>1. /\ backoff \in BackoffInitial .. BackoffMax
      /\ restartIn \in 0 .. BackoffMax
      /\ upFor \in 0 .. HealthyReset + 1
      /\ sinceLaunch \in 0 .. BackoffMax
  BY DEF Init
<1>2. /\ pc \in [Worker -> Stopping \cup {"idle", "start", "wait", "shutdown"}]
      /\ mine \in [Worker -> Proc \cup {None}]
      /\ then \in [Worker -> {"idle", "start", "shutdown"}]
  BY DEF Init
<1> QED
  BY <1>1, <1>2 DEF Init, TypeOK, Running

\* Every variable of the supervisor keeps its type; in particular the delay
\* stays between its initial value and its cap, for any callers.
THEOREM TypeCorrect == Spec => []TypeOK
  BY TypeInit, TypeStep, PTL DEF Spec

-----------------------------------------------------------------------------
(* Crash loops are throttled, also when a killed mpv outlives its Stop.    *)

LEMMA PaceInit == Init => PaceInv
  BY TypeInit DEF Init, PaceInv, OneAtATime, MainWaits, StopUnwanted, DelayServed,
     Worker, Stopping

\* A wait of BackoffMax serves any delay.
LEMMA FullWait ==
  ASSUME NEW m \in Nat, NEW r \in Nat, NEW b \in Int, b <= m
  PROVE  2 * (m + r) >= b
  OBVIOUS

LEMMA DelayArmed ==
  ASSUME NEW w \in Nat, NEW b \in Nat, NEW m \in Nat
  PROVE  2 * (w + b) >= Least(2 * b, m)
  BY DEF Least

LEMMA BackOffServes ==
  ASSUME TypeOK, BackOff, sinceLaunch' \in Nat
  PROVE  DelayServed'
<1>1. backoff \in Nat
  BY DEF TypeOK
<1>2. 2 * (sinceLaunch' + backoff) >= Least(2 * backoff, BackoffMax)
  BY <1>1, DelayArmed
<1> QED BY <1>2 DEF BackOff, DelayServed

LEMMA SecondServes ==
  ASSUME NEW s \in Nat, NEW r \in Nat, NEW b \in Int, NEW m \in Nat,
         b <= m, 2 * (s + r) >= b
  PROVE  2 * (Least(s + 1, m) + (IF r = 0 THEN 0 ELSE r - 1)) >= b
  BY DEF Least

\* A caller that starts a call finds every other goroutine idle.
LEMMA CallersTakeTurns ==
  ASSUME OneCaller, PaceInv, agent = "up", NEW c \in Caller, pc[c] = "idle"
  PROVE  \A w \in Worker : pc[w] = "idle"
  BY DEF OneCaller, PaceInv, MainWaits, Worker

\* The same of Close, which the drain lets in once no request is left.
LEMMA CloseComesLast ==
  ASSUME OneCaller, PaceInv, CloseBegins
  PROVE  \A w \in Worker : pc[w] = "idle"
  BY DEF CloseBegins, Drained, OneCaller, PaceInv, MainWaits, Worker

LEMMA PaceStart ==
  ASSUME PaceInv, StartLocked, TypeOK', agent' = agent, agent \in {"up", "draining"},
         NEW c \in Caller, StartReturns(c), \A w \in Worker : w # c => pc[w] = "idle"
  PROVE  PaceInv'
<1>0. /\ \A w \in Worker : w # c => pc'[w] = "idle"
      /\ pc'[c] \in {"idle", "wait"} /\ c # Main
  BY CallersWork DEF StartReturns, PaceInv, TypeOK
<1>1. OneAtATime' /\ StopUnwanted' /\ MainWaits'
  BY <1>0 DEF OneAtATime, StopUnwanted, MainWaits, Stopping, Worker
<1>2. DelayServed'
  <2>1. restartIn' \in Nat /\ backoff' \in Int /\ backoff' <= BackoffMax
    BY DEF TypeOK
  <2>2. 2 * (BackoffMax + restartIn') >= backoff'
    BY <2>1, FullWait
  <2> QED BY <2>2 DEF DelayServed, StartLocked
<1> QED BY <1>1, <1>2 DEF PaceInv

LEMMA PaceStopBegins ==
  ASSUME PaceInv, TypeOK', NEW w \in Worker, NEW next \in {"idle", "start", "shutdown"},
         StopBegins(w, next), \A v \in Worker : pc[v] = "idle"
  PROVE  OneAtATime' /\ StopUnwanted' /\ DelayServed'
<1>1. \A v \in Worker : v # w => pc'[v] = "idle"
  BY DEF PaceInv, TypeOK, StopBegins
<1>2. ~desired'
  BY DEF StopBegins
<1> QED BY <1>1, <1>2 DEF OneAtATime, StopUnwanted, DelayServed

LEMMA PaceCaller ==
  ASSUME OneCaller, PaceInv, TypeOK', NEW c \in Caller, CallerSteps(c)
  PROVE  PaceInv'
<1>1. c \in Worker /\ Main \in Worker /\ c # Main
  BY DEF Worker
<1>2. ASSUME agent = "up", pc[c] = "idle" PROVE \A w \in Worker : pc[w] = "idle"
  BY <1>2, CallersTakeTurns
<1>3. CASE Start(c)
  BY <1>2, <1>3, PaceStart DEF Start
<1>4. CASE RestartStarts(c)
  <2>1. \A w \in Worker : w # c => pc[w] = "idle"
    BY <1>1, <1>4 DEF PaceInv, OneAtATime, RestartStarts
  <2>2. agent \in {"up", "draining"}
    BY <1>4 DEF PaceInv, MainWaits, RestartStarts, Running
  <2> QED BY <1>4, <2>1, <2>2, PaceStart DEF RestartStarts
<1>6. CASE SocketWaited(c)
  <2>1. /\ pc'[c] = "idle" /\ \A w \in Worker : w # c => pc'[w] = pc[w]
        /\ UNCHANGED <<agent, desired, proc, backoff, restartIn, sinceLaunch>>
    BY <1>1, <1>6 DEF PaceInv, TypeOK, SocketWaited, manager
  <2>2. OneAtATime' /\ StopUnwanted' /\ DelayServed'
    BY <2>1 DEF PaceInv, OneAtATime, StopUnwanted, DelayServed, Stopping
  <2>3. MainWaits'
    BY <1>1, <2>1 DEF PaceInv, MainWaits, Worker
  <2> QED BY <2>2, <2>3 DEF PaceInv
<1>5. ASSUME NEW next \in {"idle", "start", "shutdown"},
             agent = "up", StopBegins(c, next), agent' = agent
      PROVE  PaceInv'
  <2>1. \A w \in Worker : pc[w] = "idle"
    BY <1>2, <1>5 DEF StopBegins
  <2>2. pc'[Main] = "idle"
    BY <1>1, <1>5, <2>1 DEF PaceInv, TypeOK, StopBegins
  <2>3. MainWaits'
    BY <1>5, <2>2 DEF MainWaits
  <2> QED BY <1>1, <1>5, <2>1, <2>3, PaceStopBegins DEF PaceInv
<1> QED BY <1>3, <1>4, <1>5, <1>6 DEF CallerSteps, Stop, Restart

LEMMA PaceStop ==
  ASSUME PaceInv, TypeOK', NEW w \in Worker, StopSteps(w)
  PROVE  PaceInv'
<1>1. /\ pc[w] \in Stopping /\ pc[w] # "idle" /\ desired' = desired /\ agent' = agent
      /\ \A v \in Worker : v # w => pc'[v] = pc[v] /\ pc[v] = "idle"
  BY DEF StopSteps, SeesExit, TimesOut, Clear, manager, PaceInv, TypeOK, OneAtATime,
         Stopping
<1>2. ~desired
  BY <1>1 DEF PaceInv, StopUnwanted
<1>3. OneAtATime' /\ StopUnwanted' /\ DelayServed'
  BY <1>1, <1>2 DEF OneAtATime, StopUnwanted, DelayServed
<1>4. MainWaits'
  BY <1>1, <1>2 DEF PaceInv, MainWaits, Worker, StopSteps, SeesExit, TimesOut, Clear, Running
<1> QED BY <1>3, <1>4 DEF PaceInv

LEMMA PaceMonitor ==
  ASSUME PaceInv, TypeOK', Monitor
  PROVE  PaceInv'
<1>1. desired /\ desired' /\ agent' = agent /\ pc' = pc
  BY DEF Monitor, MonitorSeesHealth, MonitorReaps, MonitorRelaunches,
     MonitorLaunchFails, RestartDue, worker
<1>2. OneAtATime' /\ MainWaits' /\ StopUnwanted'
  BY <1>1 DEF PaceInv, OneAtATime, MainWaits, StopUnwanted
<1>3. DelayServed'
  <2>1. CASE MonitorSeesHealth
    BY <2>1 DEF MonitorSeesHealth, ChildAlive, PaceInv, TypeOK, DelayServed
  <2>2. CASE MonitorReaps \/ MonitorLaunchFails
    <3>1. sinceLaunch' \in Nat
      BY DEF TypeOK
    <3> QED BY <2>2, <3>1, BackOffServes DEF PaceInv, MonitorReaps, MonitorLaunchFails
  <2>3. CASE MonitorRelaunches
    BY <2>3 DEF MonitorRelaunches, Spawn, Unused, DelayServed
  <2> QED BY <2>1, <2>2, <2>3 DEF Monitor
<1> QED BY <1>2, <1>3 DEF PaceInv

LEMMA PaceShutdown ==
  ASSUME OneCaller, PaceInv, TypeOK', Shutdown
  PROVE  PaceInv'
<1>1. Main \in Worker
  BY DEF Worker
<1>2. CASE CloseBegins
  <2>1. \A w \in Worker : pc[w] = "idle"
    BY <1>2, CloseComesLast
  <2>2. agent' = "closing" /\ ~desired' /\ \A c \in Caller : pc'[c] = "idle"
    BY <1>1, <1>2, <2>1 DEF CloseBegins, StopBegins, PaceInv, TypeOK, Worker
  <2>3. MainWaits'
    BY <2>2 DEF MainWaits
  <2> QED BY <1>1, <1>2, <2>1, <2>3, PaceStopBegins DEF CloseBegins, PaceInv
<1>3. CASE Terminated \/ DrainTimesOut
  BY <1>3 DEF Terminated, DrainTimesOut, PaceInv, OneAtATime, MainWaits, StopUnwanted,
     DelayServed, manager, worker
<1>4. CASE CloseEnds
  <2>1. \A w \in Worker : pc'[w] = "idle"
    BY <1>4 DEF CloseEnds, PaceInv, TypeOK, MainWaits, Worker
  <2> QED BY <1>4, <2>1 DEF CloseEnds, PaceInv, OneAtATime, MainWaits, StopUnwanted,
             DelayServed, manager, Worker, Stopping
<1> QED BY <1>2, <1>3, <1>4 DEF Shutdown

LEMMA PaceSecond ==
  ASSUME PaceInv, TypeOK', Second
  PROVE  PaceInv'
<1>1. OneAtATime' /\ MainWaits' /\ StopUnwanted'
  BY DEF Second, PaceInv, OneAtATime, MainWaits, StopUnwanted, worker
<1>2. DelayServed'
  <2>1. /\ sinceLaunch \in Nat /\ restartIn \in Nat
        /\ backoff \in Int /\ backoff <= BackoffMax
    BY DEF PaceInv, TypeOK
  <2>2. (desired /\ proc = None) => 2 * (sinceLaunch + restartIn) >= backoff
    BY DEF PaceInv, DelayServed
  <2>3. (desired /\ proc = None) => 2 * (sinceLaunch' + restartIn') >= backoff
    BY <2>1, <2>2, SecondServes DEF Second
  <2> QED BY <2>3 DEF Second, DelayServed
<1> QED BY <1>1, <1>2 DEF PaceInv

LEMMA PaceStep == ASSUME OneCaller, PaceInv, [Next]_vars PROVE PaceInv'
<1>1. TypeOK'
  BY TypeStep DEF PaceInv
<1>2. CASE UNCHANGED vars
  BY <1>1, <1>2 DEF vars, PaceInv, OneAtATime, MainWaits, StopUnwanted, DelayServed
<1>3. ASSUME NEW p \in Proc, Exit(p) PROVE PaceInv'
  BY <1>1, <1>3 DEF Exit, PaceInv, OneAtATime, MainWaits, StopUnwanted, DelayServed,
     manager, worker
<1> QED
  BY <1>1, <1>2, <1>3, PaceCaller, PaceStop, PaceMonitor, PaceShutdown, PaceSecond DEF Next

\* Every launch the monitor makes has waited for the backoff, whatever crashed
\* or failed to start before, and however slowly a killed mpv goes.
THEOREM CrashLoopsAreThrottled == OneCaller => (Spec => Throttled)
<1> SUFFICES ASSUME OneCaller PROVE Spec => Throttled
  OBVIOUS
<1>1. PaceInv /\ [Next]_vars => PaceInv'
  BY PaceStep
<1>2. PaceInv /\ [Next]_vars =>
        [(MonitorRelaunches \/ MonitorLaunchFails) => 2 * sinceLaunch >= backoff]_vars
  <2> SUFFICES ASSUME PaceInv, MonitorRelaunches \/ MonitorLaunchFails
               PROVE  2 * sinceLaunch >= backoff
    OBVIOUS
  <2>1. desired /\ proc = None /\ restartIn = 0
    BY DEF MonitorRelaunches, MonitorLaunchFails, RestartDue
  <2>2. sinceLaunch \in Nat
    BY DEF PaceInv, TypeOK
  <2>3. sinceLaunch + restartIn = sinceLaunch
    BY <2>1, <2>2
  <2> QED BY <2>1, <2>3 DEF PaceInv, DelayServed
<1> QED BY <1>1, <1>2, PaceInit, PTL DEF Spec, Throttled

-----------------------------------------------------------------------------
(* Safety of the serialised supervisor.                                    *)

LEMMA InvInit == Init => IInv
  BY PaceInit DEF Init, IInv, StopOwns, Tracked, Worker, Stopping

LEMMA StartStep ==
  ASSUME IInv, StartLocked, \A w \in Worker : pc'[w] \notin Stopping
  PROVE  StopOwns' /\ Tracked'
<1>1. StopOwns'
  BY DEF StopOwns
<1>2. desired'
  BY DEF StartLocked
<1>3. Tracked'
  BY <1>2 DEF IInv, PaceInv, Tracked, TypeOK, StartLocked, ChildAlive, Spawn, SpawnFails,
     Unused
<1> QED BY <1>1, <1>3

LEMMA StopBeginsStep ==
  ASSUME IInv, NEW w \in Worker, NEW next \in {"idle", "start", "shutdown"},
         StopBegins(w, next), \A v \in Worker : pc[v] = "idle"
  PROVE  StopOwns' /\ Tracked'
<1>1. \A v \in Worker : v # w => pc'[v] = "idle"
  BY DEF IInv, PaceInv, TypeOK, StopBegins
<1>2. CASE proc = None
  <2>1. pc'[w] = next /\ next \notin Stopping
    BY <1>2 DEF IInv, PaceInv, TypeOK, StopBegins, Stopping
  <2>2. \A v \in Worker : pc'[v] \notin Stopping
    BY <1>1, <2>1 DEF Stopping
  <2> QED BY <1>2, <2>2 DEF StopOwns, IInv, Tracked, StopBegins
<1>3. CASE proc # None
  <2>1. pc'[w] = "grace" /\ mine'[w] = proc /\ proc' = proc /\ live' = live
    BY <1>3 DEF IInv, PaceInv, TypeOK, StopBegins
  <2>2. StopOwns'
    BY <1>1, <1>3, <2>1 DEF StopOwns, Stopping
  <2>3. Tracked'
    BY <2>1 DEF IInv, Tracked, Stopping
  <2> QED BY <2>2, <2>3
<1> QED BY <1>2, <1>3

LEMMA CallerStep ==
  ASSUME Serialised, IInv, NEW c \in Caller, CallerSteps(c)
  PROVE  StopOwns' /\ Tracked'
<1>1. c \in Worker /\ Main \in Worker
  BY DEF Worker
<1>2. ASSUME agent = "up", pc[c] = "idle" PROVE \A w \in Worker : pc[w] = "idle"
  BY <1>2, CallersTakeTurns DEF Serialised, IInv
<1>3. CASE Start(c)
  <2>1. \A w \in Worker : pc'[w] \notin Stopping
    BY <1>2, <1>3 DEF Start, StartReturns, IInv, PaceInv, TypeOK, Stopping
  <2> QED BY <1>3, <2>1, StartStep DEF Start
<1>4. CASE RestartStarts(c)
  <2>1. \A w \in Worker : w # c => pc[w] = "idle"
    BY <1>1, <1>4 DEF IInv, PaceInv, OneAtATime, RestartStarts
  <2>2. \A w \in Worker : pc'[w] \notin Stopping
    BY <1>4, <2>1 DEF IInv, PaceInv, TypeOK, RestartStarts, StartReturns, Stopping
  <2> QED BY <1>4, <2>2, StartStep DEF RestartStarts
<1>6. CASE SocketWaited(c)
  <2>1. /\ pc[c] = "wait" /\ pc'[c] = "idle"
        /\ \A w \in Worker : w # c => pc'[w] = pc[w]
    BY <1>1, <1>6 DEF IInv, PaceInv, TypeOK, SocketWaited
  <2> QED BY <1>6, <2>1 DEF SocketWaited, IInv, StopOwns, Tracked, Stopping, manager
<1>5. ASSUME NEW next \in {"idle", "start", "shutdown"}, agent = "up", StopBegins(c, next)
      PROVE  StopOwns' /\ Tracked'
  <2>1. \A w \in Worker : pc[w] = "idle"
    BY <1>2, <1>5 DEF StopBegins
  <2> QED BY <1>1, <1>5, <2>1, StopBeginsStep
<1> QED BY <1>3, <1>4, <1>5, <1>6 DEF CallerSteps, Stop, Restart

LEMMA StopStep ==
  ASSUME Serialised, IInv, NEW w \in Worker, StopSteps(w)
  PROVE  StopOwns' /\ Tracked'
<1>1. CASE SeesExit(w)
  <2>1. pc'[w] = "clear" /\ \A v \in Worker : v # w => pc'[v] = pc[v]
    BY <1>1 DEF IInv, PaceInv, TypeOK, SeesExit
  <2> QED BY <1>1, <2>1 DEF IInv, StopOwns, Tracked, SeesExit, Stopping, manager
<1>2. CASE TimesOut(w)
  <2>1. /\ pc'[w] \in {"term", "kill"}
        /\ \A v \in Worker : v # w => pc'[v] = pc[v]
    BY <1>2 DEF IInv, PaceInv, TypeOK, TimesOut, NextResort, Serialised
  <2> QED BY <1>2, <2>1 DEF IInv, StopOwns, Tracked, TimesOut, Stopping, manager
<1>3. CASE Clear(w)
  <2>1. /\ pc'[w] \notin Stopping
        /\ \A v \in Worker : v # w => pc'[v] = pc[v] /\ pc[v] = "idle"
    BY <1>3 DEF IInv, PaceInv, TypeOK, OneAtATime, Clear, Stopping
  <2>2. live' = {} /\ proc' = None
    BY <1>3 DEF IInv, StopOwns, Tracked, Clear, Stopping
  <2> QED BY <2>1, <2>2 DEF StopOwns, Tracked, Stopping
<1> QED BY <1>1, <1>2, <1>3 DEF StopSteps

LEMMA MonitorStep ==
  ASSUME IInv, Monitor
  PROVE  StopOwns' /\ Tracked'
<1>1. desired /\ desired' /\ pc' = pc
  BY DEF Monitor, MonitorSeesHealth, MonitorReaps, MonitorRelaunches,
     MonitorLaunchFails, RestartDue, worker
<1>2. StopOwns'
  BY <1>1 DEF IInv, PaceInv, StopUnwanted, StopOwns
<1>3. Tracked'
  <2>1. CASE MonitorSeesHealth \/ MonitorLaunchFails
    BY <1>1, <2>1 DEF MonitorSeesHealth, MonitorLaunchFails, SpawnFails, IInv, Tracked
  <2>2. CASE MonitorReaps
    BY <1>1, <2>2 DEF MonitorReaps, ChildAlive, IInv, Tracked
  <2>3. CASE MonitorRelaunches
    <3>1. live = {}
      BY <2>3 DEF MonitorRelaunches, RestartDue, IInv, PaceInv, Tracked, TypeOK
    <3>2. live' = {proc'}
      BY <2>3, <3>1 DEF MonitorRelaunches, Spawn, Unused
    <3> QED BY <1>1, <3>2 DEF Tracked
  <2> QED BY <2>1, <2>2, <2>3 DEF Monitor
<1> QED BY <1>2, <1>3

LEMMA ShutdownStep ==
  ASSUME Serialised, IInv, Shutdown
  PROVE  StopOwns' /\ Tracked'
<1>1. Main \in Worker
  BY DEF Worker
<1>2. CASE CloseBegins
  <2>1. \A w \in Worker : pc[w] = "idle"
    BY <1>2, CloseComesLast DEF Serialised, IInv
  <2> QED BY <1>1, <1>2, <2>1, StopBeginsStep DEF CloseBegins
<1>3. CASE Terminated \/ DrainTimesOut
  BY <1>3 DEF Terminated, DrainTimesOut, IInv, StopOwns, Tracked, manager, worker
<1>4. CASE CloseEnds
  <2>1. \A w \in Worker : pc[w] \notin Stopping /\ pc'[w] \notin Stopping
    BY <1>4 DEF CloseEnds, IInv, PaceInv, TypeOK, MainWaits, Worker, Stopping
  <2> QED BY <1>4, <2>1 DEF CloseEnds, IInv, StopOwns, Tracked, manager
<1> QED BY <1>2, <1>3, <1>4 DEF Shutdown

LEMMA InvStep == ASSUME Serialised, IInv, [Next]_vars PROVE IInv'
<1>1. PaceInv'
  BY PaceStep DEF Serialised, IInv
<1>2. CASE UNCHANGED vars \/ Second
  BY <1>1, <1>2 DEF vars, Second, worker, IInv, StopOwns, Tracked
<1>3. ASSUME NEW p \in Proc, Exit(p) PROVE IInv'
  BY <1>1, <1>3 DEF Exit, IInv, StopOwns, Tracked, manager, worker
<1> QED
  BY <1>1, <1>2, <1>3, CallerStep, StopStep, MonitorStep, ShutdownStep DEF IInv, Next

\* The inductive invariant holds of the serialised supervisor.
THEOREM Inductive == Serialised => (Spec => []IInv)
<1> SUFFICES ASSUME Serialised PROVE Spec => []IInv
  OBVIOUS
<1>1. IInv /\ [Next]_vars => IInv'
  BY InvStep
<1> QED BY <1>1, InvInit, PTL DEF Spec

\* While its callers take turns, the supervisor never has two mpv running
\* (manager.go: "The agent owns mpv exclusively on this socket").
THEOREM Exclusive == Serialised => (Spec => []ExclusiveMpv)
<1>1. IInv => ExclusiveMpv
  BY DEF IInv, Tracked, ExclusiveMpv
<1> QED BY <1>1, Inductive, PTL

\* Nothing runs after a Stop has returned, whatever the monitor was about to do.
THEOREM StopIsFinal == Serialised => (Spec => []StopHolds)
<1>1. IInv => StopHolds
  BY DEF IInv, PaceInv, TypeOK, Tracked, StopHolds
<1> QED BY <1>1, Inductive, PTL

\* An agent that ends through Close leaves no mpv behind.
THEOREM ExitIsOrderly == Serialised => (Spec => []OrderlyExit)
<1>1. IInv => OrderlyExit
  <2> SUFFICES ASSUME IInv, agent = "exited" PROVE live = {}
    BY DEF OrderlyExit
  <2>1. ~desired /\ \A w \in Worker : pc[w] = "idle"
    BY DEF IInv, PaceInv, MainWaits, Worker
  <2>2. \A w \in Worker : pc[w] \notin Stopping
    BY <2>1 DEF Stopping
  <2> QED BY <2>1, <2>2 DEF IInv, PaceInv, TypeOK, Tracked
<1> QED BY <1>1, Inductive, PTL

-----------------------------------------------------------------------------
(* Refinement.                                                             *)

LEMMA StartRefines ==
  ASSUME IInv, StartLocked
  PROVE  [Service!Next]_(Service!vars)
<1>1. CASE ChildAlive \/ SpawnFails
  <2>1. Service!Ask
    BY <1>1 DEF StartLocked, SpawnFails, Spawn, Service!Ask
  <2> QED BY <2>1 DEF Service!Next
<1>2. CASE ~ChildAlive /\ Spawn
  <2>1. live = {}
    BY <1>2 DEF IInv, Tracked, ChildAlive
  <2>2. PICK p \in Proc : live' = {p}
    BY <1>2, <2>1 DEF Spawn, Unused
  <2>3. Service!Launch(p)
    BY <2>1, <2>2 DEF StartLocked, Service!Launch
  <2> QED BY <2>3 DEF Service!Next
<1> QED BY <1>1, <1>2 DEF StartLocked

LEMMA StepRefines ==
  ASSUME IInv, [Next]_vars
  PROVE  [Service!Next]_(Service!vars)
<1>1. CASE UNCHANGED <<live, desired>>
  BY <1>1 DEF Service!vars
<1>2. ASSUME NEW c \in Caller, CallerSteps(c) PROVE [Service!Next]_(Service!vars)
  <2>1. CASE StartLocked
    BY <2>1, StartRefines
  <2>2. CASE \E next \in {"idle", "start"} : StopBegins(c, next)
    <3>1. Service!Release
      BY <2>2 DEF StopBegins, Service!Release
    <3> QED BY <3>1 DEF Service!Next
  <2> QED BY <1>1, <1>2, <2>1, <2>2
          DEF CallerSteps, Start, RestartStarts, SocketWaited, Stop, Restart, manager
<1>3. CASE Monitor
  <2>1. CASE MonitorRelaunches
    <3>1. live = {}
      BY <2>1 DEF MonitorRelaunches, RestartDue, IInv, PaceInv, Tracked, TypeOK
    <3>2. PICK p \in Proc : live' = {p}
      BY <2>1, <3>1 DEF MonitorRelaunches, Spawn, Unused
    <3>3. Service!Launch(p)
      BY <2>1, <3>1, <3>2 DEF MonitorRelaunches, RestartDue, Service!Launch
    <3> QED BY <3>3 DEF Service!Next
  <2> QED BY <1>1, <1>3, <2>1 DEF Monitor, MonitorSeesHealth, MonitorReaps,
             MonitorLaunchFails, SpawnFails
<1>4. CASE Shutdown
  <2>1. CASE CloseBegins
    <3>1. Service!Release
      BY <2>1 DEF CloseBegins, StopBegins, Service!Release
    <3> QED BY <3>1 DEF Service!Next
  <2> QED BY <1>1, <1>4, <2>1 DEF Shutdown, Terminated, DrainTimesOut, CloseEnds, manager
<1>5. ASSUME NEW p \in Proc, Exit(p) PROVE [Service!Next]_(Service!vars)
  <2>1. Service!Die(p)
    BY <1>5 DEF Exit, manager, Service!Die
  <2> QED BY <2>1 DEF Service!Next
<1>6. ASSUME NEW w \in Worker, StopSteps(w) PROVE UNCHANGED <<live, desired>>
  BY <1>6 DEF StopSteps, SeesExit, TimesOut, Clear, manager
<1>7. CASE Second
  BY <1>1, <1>7 DEF Second
<1> QED BY <1>1, <1>2, <1>3, <1>4, <1>5, <1>6, <1>7 DEF Next, vars

\* The serialised supervisor implements MpvService: it launches one mpv at a
\* time, and only one that is wanted.
THEOREM Implements == Serialised => (Spec => ImplementsService)
<1> SUFFICES ASSUME Serialised PROVE Spec => Service!Spec
  BY DEF ImplementsService
<1>1. Init => Service!Init
  BY DEF Init, Service!Init
<1>2. IInv /\ [Next]_vars => [Service!Next]_(Service!vars)
  BY StepRefines
<1> QED BY <1>1, <1>2, Inductive, PTL DEF Spec, Service!Spec
=============================================================================
