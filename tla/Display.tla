------------------------------- MODULE Display -------------------------------
(***************************************************************************)
(* Where mpv draws: the launch config (main.go, state.go, handlers_host),  *)
(* the launch (manager.go, spawn_unix.go), and the watcher that brings the *)
(* picture back when a display returns (hotplug_linux.go), against the     *)
(* displays, mpv, Cinefin and pairing.                                     *)
(*                                                                         *)
(* A launch that fails changes nothing here, and the stages of a stop and  *)
(* the delays between launches are those of Supervisor: a stop is one step *)
(* and a launch comes any time after.                                      *)
(***************************************************************************)
EXTENDS LaunchConfig

CONSTANTS
    Configs,        \* the launch configs Cinefin may send
    Machines,       \* the boxes and command lines the agent may run with
    NoConfig,       \* Cinefin has set no launch config
    Blinks,         \* whether a display may return before the watcher saw it
                    \* gone, or within one poll of the start of mpv
    Early           \* whether a PUT may ask for mpv while mpv starts

ASSUME DisplayConstants ==
    /\ Configs \subseteq HostConfig
    /\ NoConfig \notin HostConfig
    /\ Blinks \in BOOLEAN
    /\ Early \in BOOLEAN

\* What does not change while the box and the agent's command line stay: is
\* there a desktop; --display; --mode; the terminal of the agent (none, a
\* virtual terminal of its own, or one another session holds); mpv's files.
ASSUME MachineAssumption ==
    \A m \in Machines : /\ m.desktop \in BOOLEAN
                        /\ m.screen \in ScreenFlag
                        /\ m.mode \in Modes
                        /\ m.tty \in {"none", "own", "shared"}

\* The watcher has no reading of the connectors: no reading looks like this.
Unread == {NoScreen}

VARIABLES
    machine,     \* the machine and the agent's command line
    connected,   \* the connectors with a display attached (sysfs)
    unseen,      \* the disconnected ones no poll has looked at since they
                 \* went or mpv came up
    paired, launch,      \* state.Store: the token is set; the launch config
    desired,     \* Manager.desiredRunning
    phase,       \* "none", "starting" until mpv answers on its socket,
                 \* "answers" until it has opened its output, "up"
    conf,        \* the config mpv was launched from
    ctty,        \* mpv has a controlling terminal
    controlled,  \* Manager.drmControlled
    on, lit,     \* the connector mpv draws on, and whether its picture shows
    prev,        \* WatchDRM's last reading of the connectors
    watch,       \* where remodeset is
    target,      \* the process remodeset has copied is still the child
    owed,        \* Unpair's restart is to come
    put,         \* where a PUT /hostconfig is
    told,        \* restart_required of the last answer
    fresh        \* history: the config has not changed since mpv's launch

displays == <<connected, unseen>>
store    == <<paired, launch>>
child    == <<phase, conf, ctty, controlled, on, lit>>
watcher  == <<prev, watch, target>>
request  == <<put, told>>

vars == <<machine, displays, store, desired, child, watcher, owed, request, fresh>>

DisplaysOK == /\ connected \in SUBSET Connector
              /\ unseen \in SUBSET Connector
              /\ unseen \cap connected = {}

StoreOK == /\ paired \in BOOLEAN
           /\ launch \in Configs \cup {NoConfig}

ChildOK == /\ phase \in {"none", "starting", "answers", "up"}
           /\ conf \in HostConfig \cup {NoConfig}
           /\ phase # "none" => conf # NoConfig
           /\ ctty \in BOOLEAN
           /\ controlled \in BOOLEAN
           /\ on \in Connector \cup {NoScreen}
           /\ lit \in BOOLEAN

WatcherOK == /\ prev \in (SUBSET Connector) \cup {Unread}
             /\ watch \in {"poll", "usr1", "usr2"}
             /\ target \in BOOLEAN

AgentOK == /\ machine \in Machines
           /\ desired \in BOOLEAN
           /\ owed \in BOOLEAN
           /\ put \in {"idle", "saved"}
           /\ told \in BOOLEAN
           /\ fresh \in BOOLEAN

\* The picture shows only on a connected output, and remodeset's copy stands
\* for a process only between its signals.
Consistent == /\ lit => on \in connected
              /\ target => watch # "poll" /\ phase # "none"

TypeOK == DisplaysOK /\ StoreOK /\ ChildOK /\ WatcherOK /\ AgentOK /\ Consistent

-----------------------------------------------------------------------------
(* The launch config *)

\* Store.Launch and Store.HasLaunch.
Launch    == IF launch = NoConfig THEN Detect(machine.desktop) ELSE launch
HasLaunch == launch # NoConfig

\* The screen and mode of the command line hold until Cinefin has chosen.
FlagsApply == ~paired \/ ~HasLaunch

\* main's launchConfig, which every launch and every poll evaluates anew.  Its
\* reads of the store, an instant apart, are one here.
LaunchConfig ==
    LET base == IF paired THEN Launch ELSE PairingConfig(machine.desktop)
    IN  IF FlagsApply
        THEN PickMode(PickScreen(base, machine.screen, connected), machine.mode)
        ELSE base

\* Mutant: GET answers what the store has.
GetHostConfigStored == Launch

\* GET /hostconfig: a desktop screen picked by name is reported by index too.
GetHostConfig ==
    LET hc == LaunchConfig
    IN  IF hc.mode # "drm" /\ hc.screenName \in connected
        THEN [hc EXCEPT !.screen = Cardinality({d \in connected : d < hc.screenName})]
        ELSE hc

Init ==
    /\ machine \in Machines
    /\ connected \in SUBSET Connector
    /\ unseen = Connector \ connected
    /\ paired \in BOOLEAN
    /\ launch = NoConfig
    /\ desired = LaunchConfig.autostart
    /\ phase = "none" /\ conf = NoConfig
    /\ ctty = FALSE /\ controlled = FALSE
    /\ on = NoScreen /\ lit = FALSE
    /\ prev = Unread /\ watch = "poll" /\ target = FALSE
    /\ owed = FALSE
    /\ put = "idle" /\ told = FALSE
    /\ fresh = TRUE

-----------------------------------------------------------------------------
(* The displays *)

\* A projector is switched off: whatever mpv drew there is gone.
Unplug(c) ==
    /\ c \in connected
    /\ connected' = connected \ {c}
    /\ unseen' = unseen \cup {c}
    /\ lit' = (lit /\ on # c)
    /\ UNCHANGED <<machine, store, desired, phase, conf, ctty, controlled, on,
                   watcher, owed, request, fresh>>

\* It returns, and stays dark: mpv has to set its mode again.
Plug(c) ==
    /\ c \notin connected
    /\ Blinks \/ c \notin unseen
    /\ connected' = connected \cup {c}
    /\ unseen' = unseen \ {c}
    /\ UNCHANGED <<machine, store, desired, child, watcher, owed, request, fresh>>

-----------------------------------------------------------------------------
(* mpv *)

\* Mutant: the guard does not ask for a terminal.
HasVTHandlersAlways == TRUE

\* hasVTHandlers: /dev/tty can be opened, by the agent.
HasVTHandlers == machine.tty # "none"

\* spawn: in DRM mode with the terminal as mpv's own; when the claim is
\* refused, again without.
Spawn(hc) ==
    /\ phase' = "starting"
    /\ conf' = hc
    /\ ctty' = (hc.mode = "drm" /\ machine.tty = "own")
    /\ on' = NoScreen /\ lit' = FALSE

\* spawnLocked, by a start, a restart or the monitor.
SpawnLocked ==
    /\ desired /\ phase = "none"
    /\ Spawn(LaunchConfig)
    /\ controlled' = (LaunchConfig.mode = "drm" /\ HasVTHandlers)
    /\ fresh' = TRUE
    /\ UNCHANGED <<machine, displays, store, desired, watcher, owed, request>>

\* The connector mpv draws on: the one of its options, or the first connected.
Chosen(args) ==
    IF Setters(args, "drmConnector") # {} THEN Value(args, "drmConnector")
    ELSE IF Nth(0, connected) = {} THEN NoScreen
    ELSE CHOOSE c \in Nth(0, connected) : TRUE

\* mpv answers on its socket ...
Answers ==
    /\ phase = "starting"
    /\ phase' = "answers"
    /\ UNCHANGED <<machine, displays, store, desired, conf, ctty, controlled, on, lit,
                   watcher, owed, request, fresh>>

\* ... and opens its output.
ComesUp ==
    /\ phase = "answers"
    /\ phase' = "up"
    /\ on' = IF conf.mode = "drm" THEN Chosen(BuildMPVArgs(conf, machine.files)) ELSE NoScreen
    /\ lit' = (on' \in connected)
    /\ unseen' = Connector \ connected
    /\ UNCHANGED <<machine, connected, store, desired, conf, ctty, controlled,
                   watcher, owed, request, fresh>>

\* mpv switches its terminal on SIGUSR1 and SIGUSR2 once it has one and has
\* opened it; before that, or without, SIGUSR1 ends it.
SwitchesVT == phase = "up" /\ conf.mode = "drm" /\ ctty

\* The child is gone, and remodeset's copy of it stands for no process.
Gone ==
    /\ phase' = "none"
    /\ controlled' = FALSE
    /\ on' = NoScreen /\ lit' = FALSE
    /\ target' = FALSE
    /\ UNCHANGED <<conf, ctty>>

Exit ==
    /\ phase # "none"
    /\ Gone
    /\ UNCHANGED <<machine, displays, store, desired, prev, watch, owed, request, fresh>>

-----------------------------------------------------------------------------
(* WatchDRM *)

\* Mutant: the edge of a display that goes.
ConnectorEdgeFalling(before, now, c) == before # Unread /\ c \in before /\ c \notin now

\* Of two readings, the connector was not connected in the first and is now.
ConnectorEdge(before, now, c) == c \in now /\ before # Unread /\ c \notin before

\* One tick.  The first half of remodeset copies the child under the lock.
Poll ==
    /\ watch = "poll"
    /\ LET hc == LaunchConfig
       IN  IF hc.mode # "drm" \/ hc.connector = NoScreen
           THEN prev' = Unread /\ UNCHANGED <<unseen, watch, target>>
           ELSE /\ prev' = connected
                /\ unseen' = {}
                /\ IF /\ ConnectorEdge(prev, connected, hc.connector)
                      /\ controlled /\ phase # "none"
                   THEN watch' = "usr1" /\ target' = TRUE
                   ELSE UNCHANGED <<watch, target>>
    /\ UNCHANGED <<machine, connected, store, desired, child, owed, request, fresh>>

\* Outside the lock: release the terminal ...
Usr1 ==
    /\ watch = "usr1"
    /\ watch' = "usr2"
    /\ IF target /\ ~SwitchesVT
       THEN Gone
       ELSE /\ lit' = (lit /\ ~target)
            /\ UNCHANGED <<phase, conf, ctty, controlled, on, target>>
    /\ UNCHANGED <<machine, displays, store, desired, prev, owed, request, fresh>>

\* ... and 150ms later take it again, which sets the mode.
Usr2 ==
    /\ watch = "usr2"
    /\ watch' = "poll"
    /\ target' = FALSE
    /\ lit' = IF target THEN on \in connected ELSE lit
    /\ UNCHANGED <<machine, displays, store, desired, phase, conf, ctty, controlled, on,
                   prev, owed, request, fresh>>

-----------------------------------------------------------------------------
(* Cinefin *)

Stays == UNCHANGED <<machine, displays, prev, watch>>

Pair == /\ ~paired
        /\ paired' = TRUE
        /\ UNCHANGED <<machine, displays, launch, desired, child, watcher, owed, request, fresh>>

\* PUT /hostconfig: saved if valid ...
PutSaves(hc) ==
    /\ paired /\ put = "idle"
    /\ Valid(hc)
    /\ launch' = hc
    /\ put' = "saved"
    /\ fresh' = FALSE
    /\ UNCHANGED <<machine, displays, paired, desired, child, watcher, owed, told>>

\* Mutant: a restart is never called for.
MpvRunningNever == FALSE

\* mpvRunning: mpv answers on its socket.
MpvRunning == phase = "answers" \/ phase = "up"

\* ... and answered with whether mpv is up.
PutAnswers ==
    /\ put = "saved"
    /\ Early \/ phase # "starting"
    /\ put' = "idle"
    /\ told' = MpvRunning
    /\ UNCHANGED <<machine, displays, store, desired, child, watcher, owed, fresh>>

\* POST /mpv/start, /mpv/stop and /mpv/restart.
Start == /\ paired
         /\ desired' = TRUE
         /\ UNCHANGED <<machine, displays, store, child, watcher, owed, request, fresh>>

Stop == /\ paired
        /\ desired' = FALSE
        /\ Gone
        /\ Stays /\ UNCHANGED <<store, owed, request, fresh>>

Restart == /\ paired
           /\ desired' = TRUE
           /\ Gone
           /\ Stays /\ UNCHANGED <<store, owed, request, fresh>>

\* Mutant: unpairing leaves mpv as it is.
UnpairQuietly ==
    /\ paired
    /\ paired' = FALSE /\ launch' = NoConfig
    /\ fresh' = FALSE
    /\ UNCHANGED <<machine, displays, desired, child, watcher, owed, request>>

\* Unpair: Store.Reset, and a restart that nobody waits for.
Unpair ==
    /\ paired
    /\ paired' = FALSE /\ launch' = NoConfig
    /\ owed' = TRUE
    /\ fresh' = FALSE
    /\ UNCHANGED <<machine, displays, desired, child, watcher, request>>

UnpairRestarts ==
    /\ owed
    /\ owed' = FALSE
    /\ desired' = TRUE
    /\ Gone
    /\ Stays /\ UNCHANGED <<store, request, fresh>>

\* The agent stops, mpv with it, and starts again: the store is read, Autostart
\* launches or does not, and the watcher begins with no reading.
Boot ==
    /\ desired' = LaunchConfig.autostart
    /\ Gone
    /\ prev' = Unread /\ watch' = "poll"
    /\ unseen' = Connector \ connected
    /\ owed' = FALSE
    /\ put' = "idle"
    /\ UNCHANGED <<machine, connected, store, told, fresh>>

-----------------------------------------------------------------------------
Screens == \E c \in Connector : Plug(c) \/ Unplug(c)

Mpv == SpawnLocked \/ Answers \/ ComesUp \/ Exit

WatchDRM == Poll \/ Usr1 \/ Usr2

Cinefin ==
    \/ Pair \/ Unpair \/ UnpairRestarts
    \/ \E hc \in Configs : PutSaves(hc)
    \/ PutAnswers
    \/ Start \/ Stop \/ Restart

Next == Screens \/ Mpv \/ WatchDRM \/ Cinefin \/ Boot

Spec == Init /\ [][Next]_vars

\* The ticker ticks and the watcher goes on, a wanted mpv is launched, and one
\* launched again and again comes up in the end.
Fairness ==
    /\ WF_vars(Poll) /\ WF_vars(Usr1) /\ WF_vars(Usr2)
    /\ WF_vars(SpawnLocked) /\ SF_vars(Answers) /\ SF_vars(ComesUp)
    /\ WF_vars(UnpairRestarts)

FairSpec == Spec /\ Fairness
=============================================================================
