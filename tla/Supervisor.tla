----------------------------- MODULE Supervisor -----------------------------
(***************************************************************************)
(* internal/mpvproc.Manager: the supervised mpv child, the goroutines that *)
(* start, stop and restart it, the monitor that brings it back, and the    *)
(* agent's own shutdown (player.subprocess.Close from main).               *)
(*                                                                         *)
(* One action is one critical section under Manager.mu, or one wake-up of  *)
(* a goroutine waiting outside it.  Left out: the launch arguments, the    *)
(* log file and the exit code (only reported).                             *)
(***************************************************************************)
EXTENDS Integers, FiniteSets

CONSTANTS
    Proc,           \* identities an mpv process may have
    None,           \* no process
    Caller,         \* goroutines that call Start, Stop and Restart
    Detached,       \* the callers the HTTP shutdown does not wait for: the
                    \* tray, and the restart Unpair leaves behind
    Main,           \* the main goroutine, which runs Close at shutdown
    BackoffInitial, BackoffMax, HealthyReset,   \* seconds
    SlowDeath       \* whether a killed mpv may outlive Stop's last wait

ASSUME SupervisorConstants ==
    /\ None \notin Proc
    /\ Main \notin Caller
    /\ Detached \subseteq Caller
    /\ BackoffInitial \in Nat \ {0}
    /\ BackoffMax \in Nat
    /\ BackoffMax >= BackoffInitial
    /\ HealthyReset \in Nat
    /\ SlowDeath \in BOOLEAN

VARIABLES
    agent,       \* how far the agent's shutdown has come
    live,        \* the mpv processes that run, tracked or not
    proc,        \* Manager.proc; its waitCh is closed once it leaves live
    desired,     \* Manager.desiredRunning
    backoff,     \* Manager.backoff
    restartIn,   \* seconds until Manager.nextRestartAt, 0 when it is past
    upFor,       \* seconds since Manager.startedAt, up to HealthyReset + 1
    pc,          \* where each goroutine is
    mine,        \* the process each goroutine inside Stop has copied
    then,        \* where each goroutine goes when its Stop returns
    sinceLaunch  \* history: seconds since the monitor last tried a launch,
                 \* up to BackoffMax, the value a Start gives it

vars == <<agent, live, proc, desired, backoff, restartIn, upFor,
          pc, mine, then, sinceLaunch>>

manager == <<proc, desired, backoff, restartIn, upFor>>
worker  == <<pc, mine, then>>

Worker   == Caller \cup {Main}
Stopping == {"grace", "term", "kill", "clear"}
Running  == {"up", "draining", "closing"}

TypeOK ==
    /\ agent \in Running \cup {"exited", "aborted"}
    /\ live \subseteq Proc
    /\ proc \in Proc \cup {None}
    /\ desired \in BOOLEAN
    /\ backoff \in BackoffInitial .. BackoffMax
    /\ restartIn \in 0 .. BackoffMax
    /\ upFor \in 0 .. HealthyReset + 1
    /\ pc \in [Worker -> Stopping \cup {"idle", "start", "wait", "shutdown"}]
    /\ mine \in [Worker -> Proc \cup {None}]
    /\ then \in [Worker -> {"idle", "start", "shutdown"}]
    /\ sinceLaunch \in 0 .. BackoffMax

-----------------------------------------------------------------------------
Least(a, b) == IF a <= b THEN a ELSE b

ChildAlive == proc \in live

\* A process object nothing points at any more may stand for a new process.
Unused == {p \in Proc : p \notin live /\ p # proc /\ \A w \in Worker : mine[w] # p}

\* spawnLocked, when the launch succeeds and when it does not.
Spawn ==
    \E p \in Unused : /\ live' = live \cup {p}
                      /\ proc' = p
                      /\ upFor' = 0

SpawnFails == UNCHANGED <<live, proc, upFor>>

Init ==
    /\ agent = "up"
    /\ live = {}
    /\ proc = None
    /\ desired = FALSE
    /\ backoff = BackoffInitial
    /\ restartIn = 0
    /\ upFor = 0
    /\ pc = [w \in Worker |-> "idle"]
    /\ mine = [w \in Worker |-> None]
    /\ then = [w \in Worker |-> "idle"]
    /\ sinceLaunch = BackoffMax

-----------------------------------------------------------------------------
(* Start *)

\* Mutant: launches without looking for a child that is already there.
StartLockedUnchecked ==
    /\ desired' = TRUE
    /\ sinceLaunch' = BackoffMax
    /\ backoff' = BackoffInitial
    /\ Spawn \/ SpawnFails
    /\ UNCHANGED restartIn

StartLocked ==
    /\ desired' = TRUE
    /\ sinceLaunch' = BackoffMax
    /\ UNCHANGED restartIn
    /\ \/ ChildAlive /\ UNCHANGED <<live, proc, backoff, upFor>>
       \/ /\ ~ChildAlive
          /\ backoff' = BackoffInitial
          /\ Spawn \/ SpawnFails

\* The caller is done, or waits for the socket of the mpv it has launched.
StartReturns(c) ==
    /\ \/ pc' = [pc EXCEPT ![c] = "idle"]
       \/ proc' # proc /\ pc' = [pc EXCEPT ![c] = "wait"]
    /\ UNCHANGED <<mine, then>>

\* A call to Start: the API, the tray, or Autostart.
Start(c) ==
    /\ agent = "up"
    /\ pc[c] = "idle"
    /\ StartLocked
    /\ StartReturns(c)
    /\ UNCHANGED agent

\* The second half of Restart.
RestartStarts(c) ==
    /\ agent \in Running
    /\ pc[c] = "start"
    /\ StartLocked
    /\ StartReturns(c)
    /\ UNCHANGED agent

\* waitForSocket returns: the socket is there, or has not been for 15s.
SocketWaited(c) ==
    /\ agent \in Running
    /\ pc[c] = "wait"
    /\ pc' = [pc EXCEPT ![c] = "idle"]
    /\ UNCHANGED <<agent, live, manager, mine, then, sinceLaunch>>

-----------------------------------------------------------------------------
(* Stop *)

\* The first critical section of Stop; next is where the caller goes after.
\* Then the quit goes over IPC to whichever mpv answers on the socket: that
\* mpv may exit, which Exit allows of any process at any time.
StopBegins(w, next) ==
    /\ pc[w] = "idle"
    /\ desired' = FALSE
    /\ IF proc = None
         THEN pc' = [pc EXCEPT ![w] = next] /\ UNCHANGED <<mine, then>>
         ELSE /\ pc' = [pc EXCEPT ![w] = "grace"]
              /\ mine' = [mine EXCEPT ![w] = proc]
              /\ then' = [then EXCEPT ![w] = next]
    /\ UNCHANGED <<live, proc, backoff, restartIn, upFor, sinceLaunch>>

Stop(c)    == agent = "up" /\ StopBegins(c, "idle")  /\ UNCHANGED agent
Restart(c) == agent = "up" /\ StopBegins(c, "start") /\ UNCHANGED agent

\* waitFor returns because the process has exited ...
SeesExit(w) ==
    /\ agent \in Running
    /\ pc[w] \in {"grace", "term", "kill"}
    /\ mine[w] \notin live
    /\ pc' = [pc EXCEPT ![w] = "clear"]
    /\ UNCHANGED <<agent, live, manager, mine, then, sinceLaunch>>

\* Mutant: waits for ever after SIGTERM.
NextResortNoKill(stage) ==
    IF stage = "grace" THEN {"term"} ELSE {}

\* ... or it does not in time: terminate after quitGrace, kill 3s later, and
\* give up 2s after that.
NextResort(stage) ==
    CASE stage = "grace" -> {"term"}
      [] stage = "term"  -> {"kill"}
      [] stage = "kill"  -> IF SlowDeath THEN {"clear"} ELSE {}

TimesOut(w) ==
    /\ agent \in Running
    /\ pc[w] \in {"grace", "term", "kill"}
    /\ mine[w] \in live
    /\ \E stage \in NextResort(pc[w]) : pc' = [pc EXCEPT ![w] = stage]
    /\ UNCHANGED <<agent, live, manager, mine, then, sinceLaunch>>

\* The last critical section of Stop forgets the current child, whichever
\* process that is by now.
Clear(w) ==
    /\ agent \in Running
    /\ pc[w] = "clear"
    /\ proc' = None
    /\ upFor' = 0
    /\ pc' = [pc EXCEPT ![w] = then[w]]
    /\ mine' = [mine EXCEPT ![w] = None]
    /\ then' = [then EXCEPT ![w] = "idle"]
    /\ UNCHANGED <<agent, live, desired, backoff, restartIn, sinceLaunch>>

-----------------------------------------------------------------------------
(* monitorLoop: one iteration per tick, whichever branch applies.          *)

MonitorRuns == agent \in Running

\* Alive for long enough: the next crash starts from the shortest delay.
MonitorSeesHealth ==
    /\ MonitorRuns /\ desired /\ ChildAlive
    /\ upFor > HealthyReset
    /\ backoff' = BackoffInitial
    /\ UNCHANGED <<agent, live, proc, desired, restartIn, upFor, worker, sinceLaunch>>

\* Mutant: the delay grows without bound.
BackOffUncapped == /\ restartIn' = backoff
                   /\ backoff' = 2 * backoff

\* Delay the next launch, and double the delay after that.
BackOff == /\ restartIn' = backoff
           /\ backoff' = Least(2 * backoff, BackoffMax)

\* Mutant: the delay grows but is not waited for.
MonitorReapsUndelayed ==
    /\ MonitorRuns /\ desired /\ ~ChildAlive
    /\ proc # None
    /\ proc' = None
    /\ upFor' = 0
    /\ backoff' = Least(2 * backoff, BackoffMax)
    /\ UNCHANGED <<agent, live, desired, restartIn, worker, sinceLaunch>>

\* Mutant: the dead child stays in Manager.proc.
MonitorReapsNothing ==
    /\ MonitorRuns /\ desired /\ ~ChildAlive
    /\ proc # None
    /\ BackOff
    /\ UNCHANGED <<agent, live, proc, upFor, desired, worker, sinceLaunch>>

\* The child exited although it was wanted.
MonitorReaps ==
    /\ MonitorRuns /\ desired /\ ~ChildAlive
    /\ proc # None
    /\ proc' = None
    /\ upFor' = 0
    /\ BackOff
    /\ UNCHANGED <<agent, live, desired, worker, sinceLaunch>>

\* Mutant: does not ask whether mpv is still wanted.
RestartDueUnasked == MonitorRuns /\ proc = None /\ restartIn = 0

RestartDue == MonitorRuns /\ desired /\ proc = None /\ restartIn = 0

MonitorRelaunches ==
    /\ RestartDue
    /\ Spawn
    /\ sinceLaunch' = 0
    /\ UNCHANGED <<agent, desired, backoff, restartIn, worker>>

MonitorLaunchFails ==
    /\ RestartDue
    /\ SpawnFails
    /\ BackOff
    /\ sinceLaunch' = 0
    /\ UNCHANGED <<agent, desired, worker>>

-----------------------------------------------------------------------------
(* The agent's shutdown, and what happens around it.                       *)

\* SIGTERM or SIGINT: the context ends and the HTTP server drains.
Terminated ==
    /\ agent = "up"
    /\ agent' = "draining"
    /\ UNCHANGED <<live, manager, worker, sinceLaunch>>

Drained == \A c \in Caller \ Detached : pc[c] = "idle"

\* Mutant: Close tears down without stopping mpv first.
CloseBeginsNoStop ==
    /\ agent = "draining"
    /\ Drained
    /\ agent' = "closing"
    /\ pc' = [pc EXCEPT ![Main] = "shutdown"]
    /\ UNCHANGED <<live, manager, mine, then, sinceLaunch>>

\* Every request has finished: srv.Run returns nil and Close runs.
CloseBegins ==
    /\ agent = "draining"
    /\ Drained
    /\ agent' = "closing"
    /\ StopBegins(Main, "shutdown")

\* A request outlasts the 5s drain: srv.Run returns an error, log.Fatalf
\* ends the process and no deferred Close runs.
DrainTimesOut ==
    /\ agent = "draining"
    /\ ~Drained
    /\ agent' = "aborted"
    /\ UNCHANGED <<live, manager, worker, sinceLaunch>>

\* Close's Shutdown ends the monitor and the process follows.
CloseEnds ==
    /\ agent = "closing"
    /\ pc[Main] = "shutdown"
    /\ agent' = "exited"
    /\ pc' = [pc EXCEPT ![Main] = "idle"]
    /\ UNCHANGED <<live, manager, mine, then, sinceLaunch>>

\* mpv exits: a crash, a quit, a signal.  It is in a session of its own, so
\* the end of the agent does not end it.
Exit(p) ==
    /\ p \in live
    /\ live' = live \ {p}
    /\ UNCHANGED <<agent, manager, worker, sinceLaunch>>

Second ==
    /\ agent \in Running
    /\ restartIn' = IF restartIn = 0 THEN 0 ELSE restartIn - 1
    /\ upFor' = IF proc = None THEN 0 ELSE Least(upFor + 1, HealthyReset + 1)
    /\ sinceLaunch' = Least(sinceLaunch + 1, BackoffMax)
    /\ UNCHANGED <<agent, live, proc, desired, backoff, worker>>

-----------------------------------------------------------------------------
StopSteps(w) == SeesExit(w) \/ TimesOut(w) \/ Clear(w)

CallerSteps(c) == \/ Start(c) \/ SocketWaited(c) \/ Stop(c)
                  \/ Restart(c) \/ RestartStarts(c)

Monitor == MonitorSeesHealth \/ MonitorReaps \/ MonitorRelaunches \/ MonitorLaunchFails

Shutdown == Terminated \/ CloseBegins \/ DrainTimesOut \/ CloseEnds

Next ==
    \/ \E c \in Caller : CallerSteps(c)
    \/ \E w \in Worker : StopSteps(w)
    \/ Monitor
    \/ Shutdown
    \/ \E p \in Proc : Exit(p)
    \/ Second

Spec == Init /\ [][Next]_vars

\* Time passes, the scheduler runs every goroutine that can run, a killed
\* process goes, and a launch tried again and again succeeds in the end.
\* Nobody has to call anything, and mpv need not exit unless it is killed.
Fairness ==
    /\ WF_vars(Second)
    /\ WF_vars(MonitorReaps \/ MonitorRelaunches \/ MonitorLaunchFails)
    /\ SF_vars(MonitorRelaunches)
    /\ \A w \in Worker :
        /\ WF_vars(StopSteps(w))
        /\ WF_vars(pc[w] = "kill" /\ Exit(mine[w]))
    /\ \A c \in Caller : WF_vars(RestartStarts(c)) /\ WF_vars(SocketWaited(c))

FairSpec == Spec /\ Fairness
=============================================================================
