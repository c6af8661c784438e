-------------------------- MODULE SupervisorProps ---------------------------
(***************************************************************************)
(* What is asked of Supervisor.                                            *)
(***************************************************************************)
EXTENDS Supervisor

\* The callers take turns: at most one, and the shutdown waits for it.
OneCaller == /\ \A c, d \in Caller : c = d
             /\ Detached = {}

\* And a killed mpv is gone before the Stop that killed it gives up.
Serialised == OneCaller /\ ~SlowDeath

\* The agent owns mpv exclusively: no two mpv run at once, whatever mix of
\* starts, stops, restarts, crashes and monitor ticks came before
\* (manager.go's package comment).
ExclusiveMpv == \A p, q \in live : p = q

\* Once Stop has returned and nobody has called Start since, no mpv runs and
\* the monitor does not bring one back, also when the monitor was about to
\* relaunch a crashed mpv when Stop was called.
StopHolds ==
    (~desired /\ \A w \in Worker : pc[w] \notin Stopping) => live = {}

\* Close leaves no mpv behind: it would outlive the agent, in its own session.
OrderlyExit == agent = "exited" => live = {}

\* The same of every way the agent ends, the drain timeout included.
NoOrphanAtExit == agent \in {"exited", "aborted"} => live = {}

\* A crash loop is throttled: counted from the monitor's last attempt, or from
\* a Start, a launch by the monitor waits at least half of the delay that the
\* next one will wait.  This is exponential backoff seen from outside, over
\* any series of crashes, failed launches, stops and starts.
Throttled ==
    [][(MonitorRelaunches \/ MonitorLaunchFails) => 2 * sinceLaunch >= backoff]_vars

\* Stop comes back, from an mpv that ignores both quit and SIGTERM too.
StopReturns ==
    \A w \in Worker :
        pc[w] \in Stopping ~> (pc[w] \notin Stopping \/ agent \notin Running)

\* A wanted mpv that is down runs again, unless it is no longer wanted first.
Recovers == (desired /\ ~ChildAlive) ~> (ChildAlive \/ ~desired \/ agent \notin Running)

\* What callers that take turns are sure of, however slowly mpv dies.  At most
\* one goroutine is inside a call; nobody wants mpv while one is inside Stop.
OneAtATime == \A v, w \in Worker : pc[v] # "idle" /\ pc[w] # "idle" => v = w

MainWaits == /\ agent \in {"up", "draining"} => pc[Main] = "idle"
             /\ agent \in {"closing", "exited"} =>
                  ~desired /\ \A c \in Caller : pc[c] = "idle"
             /\ agent = "exited" => pc[Main] = "idle"

StopUnwanted == \A w \in Worker : pc[w] \in Stopping => ~desired

\* The wait that led up to now and the wait still to come make half a delay.
DelayServed == (desired /\ proc = None) => 2 * (sinceLaunch + restartIn) >= backoff

PaceInv == TypeOK /\ OneAtATime /\ MainWaits /\ StopUnwanted /\ DelayServed

\* The inductive invariant of the serialised supervisor.  A goroutine inside
\* Stop holds the manager's own child; every mpv that runs is that child, and
\* an mpv nobody wants is being stopped.
StopOwns == \A w \in Worker : pc[w] \in Stopping =>
               /\ mine[w] = proc /\ proc # None
               /\ pc[w] = "clear" => proc \notin live

Tracked == /\ \A p \in live : p = proc
           /\ (proc # None /\ ~desired) => \E w \in Worker : pc[w] \in Stopping

IInv == PaceInv /\ StopOwns /\ Tracked

\* The supervisor does what MpvService says.
Service == INSTANCE MpvService WITH want <- desired, running <- live
ImplementsService == Service!Spec
=============================================================================
