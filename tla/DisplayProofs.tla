--------------------------- MODULE DisplayProofs ---------------------------
(***************************************************************************)
(* What is proved of Display, for any outputs, machines and configs.       *)
(***************************************************************************)
EXTENDS DisplayProps, TLAPS

-----------------------------------------------------------------------------
(* The launch config *)

LEMMA DetectType == \A desktop \in BOOLEAN : /\ Detect(desktop) \in HostConfig
                                             /\ PairingConfig(desktop) \in HostConfig
BY DEF Detect, PairingConfig, Preset, HostConfig, Modes, NoScreen, NoMode

LEMMA PickScreenType ==
    ASSUME NEW hc \in HostConfig, NEW flag \in ScreenFlag, NEW seen \in SUBSET Connector
    PROVE  PickScreen(hc, flag, seen) \in HostConfig
<1>1. CASE flag.by = "nothing"
  BY <1>1 DEF PickScreen
<1>2. CASE flag.by = "name"
  <2>1. flag.of \in Connector
    BY <1>2 DEF ScreenFlag
  <2> QED BY <1>2, <2>1 DEF PickScreen, HostConfig
<1>3. CASE flag.by = "index"
  <2>1. flag.of \in Nat
    BY <1>3 DEF ScreenFlag
  <2>2. Nth(flag.of, seen) \subseteq Connector
    BY DEF Nth
  <2>3. Nth(flag.of, seen) # {} => (CHOOSE c \in Nth(flag.of, seen) : TRUE) \in Connector
    BY <2>2
  <2>4. CASE hc.mode = "drm"
    BY <1>3, <2>3, <2>4 DEF PickScreen, HostConfig
  <2>5. CASE hc.mode # "drm"
    BY <1>3, <2>1, <2>5 DEF PickScreen, HostConfig, NoScreen
  <2> QED BY <2>4, <2>5
<1> QED BY <1>1, <1>2, <1>3 DEF ScreenFlag

LEMMA PickModeType ==
    ASSUME NEW hc \in HostConfig, NEW mode \in Modes
    PROVE  PickMode(hc, mode) \in HostConfig
BY DEF PickMode, HostConfig

LEMMA LaunchConfigType == TypeOK => LaunchConfig \in HostConfig
<1> SUFFICES ASSUME TypeOK PROVE LaunchConfig \in HostConfig
  OBVIOUS
<1> DEFINE base == IF paired THEN Launch ELSE PairingConfig(machine.desktop)
<1>1. /\ machine.desktop \in BOOLEAN
      /\ machine.screen \in ScreenFlag
      /\ machine.mode \in Modes
      /\ connected \in SUBSET Connector
  BY MachineAssumption DEF TypeOK, AgentOK, DisplaysOK
<1>2. base \in HostConfig
  BY <1>1, DetectType, DisplayConstants DEF TypeOK, StoreOK, AgentOK, Launch
<1>3. PickMode(PickScreen(base, machine.screen, connected), machine.mode) \in HostConfig
  BY <1>1, <1>2, PickScreenType, PickModeType
<1> QED BY <1>2, <1>3 DEF LaunchConfig

-----------------------------------------------------------------------------
(* Types *)

\* The options only choose among the outputs: no file names another.
FilesNameOutputs ==
    \A m \in Machines : \A hc \in HostConfig :
        LET args == BuildMPVArgs(hc, m.files)
        IN  Setters(args, "drmConnector") # {} => Value(args, "drmConnector") \in Connector

LEMMA TypeInit == Init => TypeOK
<1> SUFFICES ASSUME Init PROVE TypeOK
  OBVIOUS
<1>1. LaunchConfig.autostart \in BOOLEAN
  <2>1. /\ machine.desktop \in BOOLEAN /\ machine.screen \in ScreenFlag
        /\ machine.mode \in Modes /\ connected \in SUBSET Connector
    BY MachineAssumption DEF Init
  <2>2. Launch \in HostConfig /\ PairingConfig(machine.desktop) \in HostConfig
    BY <2>1, DetectType DEF Init, Launch
  <2>3. LaunchConfig \in HostConfig
    BY <2>1, <2>2, PickScreenType, PickModeType DEF LaunchConfig
  <2> QED BY <2>3 DEF HostConfig
<1>2. DisplaysOK   BY DEF Init, DisplaysOK
<1>3. StoreOK      BY DEF Init, StoreOK
<1>4. ChildOK      BY DEF Init, ChildOK
<1>5. WatcherOK    BY DEF Init, WatcherOK
<1>6. AgentOK      BY <1>1 DEF Init, AgentOK
<1>7. Consistent   BY DEF Init, Consistent
<1> QED BY <1>2, <1>3, <1>4, <1>5, <1>6, <1>7 DEF TypeOK

\* A part of the state that stays keeps its type.
LEMMA Untouched ==
    /\ DisplaysOK /\ UNCHANGED displays => DisplaysOK'
    /\ StoreOK /\ UNCHANGED store => StoreOK'
    /\ ChildOK /\ UNCHANGED child => ChildOK'
    /\ WatcherOK /\ UNCHANGED watcher => WatcherOK'
    /\ Consistent /\ UNCHANGED <<displays, child, watcher>> => Consistent'
BY DEF DisplaysOK, StoreOK, ChildOK, WatcherOK, Consistent,
       displays, store, child, watcher

LEMMA GoneOK ==
    ASSUME ChildOK, WatcherOK, Gone, watch' \in {"poll", "usr1", "usr2"},
           prev' \in (SUBSET Connector) \cup {Unread}
    PROVE  ChildOK' /\ WatcherOK' /\ Consistent'
<1>1. ChildOK'    BY DEF ChildOK, Gone
<1>2. WatcherOK'  BY DEF WatcherOK, Gone
<1>3. Consistent' BY DEF Consistent, Gone
<1> QED BY <1>1, <1>2, <1>3

\* A membership has a truth value.
LEMMA InBoolean == \A x, S : (x \in S) \in BOOLEAN
<1> SUFFICES ASSUME NEW x, NEW S PROVE (x \in S) = TRUE \/ (x \in S) = FALSE
  OBVIOUS
<1>1. CASE x \in S    BY <1>1
<1>2. CASE x \notin S BY <1>2
<1> QED BY <1>1, <1>2

LEMMA ComesUpType == TypeOK /\ FilesNameOutputs /\ ComesUp => TypeOK'
<1> SUFFICES ASSUME TypeOK, FilesNameOutputs, ComesUp PROVE TypeOK'
  OBVIOUS
<1> DEFINE args == BuildMPVArgs(conf, machine.files)
<1>1. conf \in HostConfig /\ machine \in Machines
  BY DEF ComesUp, TypeOK, ChildOK, AgentOK
<1>2. Setters(args, "drmConnector") # {} => Value(args, "drmConnector") \in Connector
  BY <1>1 DEF FilesNameOutputs
<1>3. Nth(0, connected) # {} => (CHOOSE c \in Nth(0, connected) : TRUE) \in Connector
  BY DEF Nth, TypeOK, DisplaysOK
<1>4. on' \in Connector \cup {NoScreen}
  BY <1>2, <1>3 DEF ComesUp, Chosen
<1>5. /\ phase' = "up"
      /\ lit' = (on' \in connected)
      /\ unseen' = Connector \ connected
      /\ UNCHANGED <<machine, connected, store, desired, conf, ctty, controlled,
                     watcher, owed, request, fresh>>
  BY DEF ComesUp
<1>6. DisplaysOK' BY <1>5 DEF TypeOK, DisplaysOK
<1>7. ChildOK'
  <2>1. lit' = (on' \in connected)
    BY <1>5
  <2>2. lit' \in BOOLEAN
    BY <2>1, InBoolean
  <2>3. /\ phase' = "up" /\ conf' = conf
        /\ ctty' = ctty /\ controlled' = controlled
    BY <1>5
  <2> QED BY <1>1, <1>4, <2>2, <2>3, DisplayConstants DEF TypeOK, ChildOK
<1>8. AgentOK'    BY <1>5 DEF TypeOK, AgentOK, request
<1>9. Consistent' BY <1>5 DEF TypeOK, Consistent, watcher
<1> QED BY <1>5, <1>6, <1>7, <1>8, <1>9, Untouched DEF TypeOK

LEMMA TypeStep == TypeOK /\ FilesNameOutputs /\ [Next]_vars => TypeOK'
<1> SUFFICES ASSUME TypeOK, FilesNameOutputs, [Next]_vars PROVE TypeOK'
  OBVIOUS
<1> USE Untouched DEF TypeOK
<1>1. LaunchConfig \in HostConfig
  BY LaunchConfigType
<1>2. LaunchConfig.autostart \in BOOLEAN
  BY <1>1 DEF HostConfig
<1>3. ASSUME NEW c \in Connector, Plug(c) PROVE TypeOK'
  <2>1. DisplaysOK' BY <1>3 DEF Plug, DisplaysOK
  <2>2. AgentOK'    BY <1>3 DEF Plug, AgentOK, request
  <2>3. Consistent' BY <1>3 DEF Plug, Consistent, child, watcher
  <2> QED BY <1>3, <2>1, <2>2, <2>3 DEF Plug
<1>4. ASSUME NEW c \in Connector, Unplug(c) PROVE TypeOK'
  <2>1. DisplaysOK' BY <1>4 DEF Unplug, DisplaysOK
  <2>2. AgentOK'    BY <1>4 DEF Unplug, AgentOK, request
  <2>3. ChildOK'    BY <1>4 DEF Unplug, ChildOK
  <2>4. Consistent' BY <1>4 DEF Unplug, Consistent, ChildOK, watcher
  <2> QED BY <1>4, <2>1, <2>2, <2>3, <2>4 DEF Unplug
<1>5. CASE SpawnLocked
  <2>1. LaunchConfig # NoConfig
    BY <1>1, DisplayConstants
  <2>2. ChildOK'    BY <1>5, <1>1, <2>1 DEF SpawnLocked, Spawn, ChildOK, HasVTHandlers
  <2>3. AgentOK'    BY <1>5 DEF SpawnLocked, AgentOK, request
  <2>4. Consistent' BY <1>5 DEF SpawnLocked, Spawn, Consistent, watcher
  <2> QED BY <1>5, <2>2, <2>3, <2>4 DEF SpawnLocked
<1>6. CASE ComesUp BY <1>6, ComesUpType
<1>15. CASE Answers
  <2>1. ChildOK'    BY <1>15 DEF Answers, ChildOK
  <2>2. AgentOK'    BY <1>15 DEF Answers, AgentOK, request
  <2>3. Consistent' BY <1>15 DEF Answers, Consistent, displays, watcher
  <2> QED BY <1>15, <2>1, <2>2, <2>3 DEF Answers
<1>7. CASE Exit
  <2>1. AgentOK' BY <1>7 DEF Exit, AgentOK, request
  <2>2. watch' = watch /\ prev' = prev /\ Gone BY <1>7 DEF Exit
  <2>3. ChildOK' /\ WatcherOK' /\ Consistent' BY <2>2, GoneOK DEF WatcherOK
  <2> QED BY <1>7, <2>1, <2>3 DEF Exit
<1>8. CASE Poll
  <2>1. DisplaysOK' BY <1>8 DEF Poll, DisplaysOK
  <2>2. WatcherOK'
    <3>1. prev' = Unread \/ prev' = connected
      BY <1>8 DEF Poll
    <3>2. /\ watch' = watch \/ watch' = "usr1"
          /\ target' = target \/ target' = TRUE
      BY <1>8 DEF Poll
    <3> QED BY <3>1, <3>2 DEF WatcherOK, DisplaysOK
  <2>3. AgentOK'    BY <1>8 DEF Poll, AgentOK, request
  <2>4. Consistent' BY <1>8 DEF Poll, Consistent, child
  <2> QED BY <1>8, <2>1, <2>2, <2>3, <2>4 DEF Poll
<1>9. CASE Usr1
  <2>1. AgentOK' BY <1>9 DEF Usr1, AgentOK, request
  <2>2. CASE target /\ ~SwitchesVT
    <3>1. watch' = "usr2" /\ prev' = prev /\ Gone BY <1>9, <2>2 DEF Usr1
    <3>2. ChildOK' /\ WatcherOK' /\ Consistent' BY <3>1, GoneOK DEF WatcherOK
    <3> QED BY <1>9, <2>1, <3>2 DEF Usr1
  <2>3. CASE ~(target /\ ~SwitchesVT)
    <3>1. ChildOK'    BY <1>9, <2>3 DEF Usr1, ChildOK, WatcherOK
    <3>2. WatcherOK'  BY <1>9, <2>3 DEF Usr1, WatcherOK
    <3>3. Consistent' BY <1>9, <2>3 DEF Usr1, Consistent, displays, ChildOK
    <3> QED BY <1>9, <2>1, <3>1, <3>2, <3>3 DEF Usr1
  <2> QED BY <2>2, <2>3
<1>10. CASE Usr2
  <2>1. AgentOK'    BY <1>10 DEF Usr2, AgentOK, request
  <2>2. ChildOK'
    <3>1. lit' = (on \in connected) \/ lit' = lit
      BY <1>10, Zenon DEF Usr2
    <3>2. lit' \in BOOLEAN
      BY <3>1, InBoolean DEF ChildOK
    <3> QED BY <1>10, <3>2 DEF Usr2, ChildOK
  <2>3. WatcherOK'  BY <1>10 DEF Usr2, WatcherOK
  <2>4. Consistent' BY <1>10 DEF Usr2, Consistent, displays
  <2> QED BY <1>10, <2>1, <2>2, <2>3, <2>4 DEF Usr2
<1>11. CASE Pair \/ Unpair \/ PutAnswers \/ Start \/ \E hc \in Configs : PutSaves(hc)
  <2>1. AgentOK'
    BY <1>11 DEF Pair, Unpair, PutAnswers, Start, PutSaves, AgentOK, request, MpvRunning
  <2>2. StoreOK'
    BY <1>11 DEF Pair, Unpair, PutAnswers, Start, PutSaves, StoreOK, store
  <2>3. UNCHANGED <<displays, child, watcher>>
    BY <1>11 DEF Pair, Unpair, PutAnswers, Start, PutSaves
  <2> QED BY <2>1, <2>2, <2>3
<1>12. CASE UnpairRestarts \/ Stop \/ Restart
  <2>1. AgentOK'
    BY <1>12 DEF UnpairRestarts, Stop, Restart, Stays, AgentOK, request
  <2>2. Gone /\ UNCHANGED <<displays, store, prev, watch>>
    BY <1>12 DEF UnpairRestarts, Stop, Restart, Stays
  <2>3. ChildOK' /\ WatcherOK' /\ Consistent' BY <2>2, GoneOK DEF WatcherOK
  <2> QED BY <2>1, <2>2, <2>3
<1>13. CASE Boot
  <2>1. AgentOK'    BY <1>13, <1>2 DEF Boot, AgentOK
  <2>2. DisplaysOK' BY <1>13 DEF Boot, DisplaysOK
  <2>3. Gone /\ prev' = Unread /\ watch' = "poll" BY <1>13 DEF Boot
  <2>4. ChildOK' /\ WatcherOK' /\ Consistent' BY <2>3, GoneOK
  <2> QED BY <1>13, <2>1, <2>2, <2>4 DEF Boot
<1>14. CASE UNCHANGED vars
  <2>1. AgentOK' BY <1>14 DEF vars, AgentOK, request
  <2> QED BY <1>14, <2>1 DEF vars
<1> QED
  BY <1>3, <1>4, <1>5, <1>6, <1>7, <1>8, <1>9, <1>10, <1>11, <1>12, <1>13, <1>14, <1>15
     DEF Next, Screens, Mpv, WatchDRM, Cinefin

\* Whatever is plugged, set, launched and signalled, the state stays within its
\* types: mpv's picture shows only on a connected output, and remodeset's copy
\* stands for a process only between its signals.
THEOREM TypeCorrect == FilesNameOutputs => (Spec => []TypeOK)
<1> SUFFICES ASSUME FilesNameOutputs PROVE Spec => []TypeOK
  OBVIOUS
<1>1. TypeOK /\ [Next]_vars => TypeOK'
  BY TypeStep
<1> QED BY TypeInit, <1>1, PTL DEF Spec

-----------------------------------------------------------------------------
(* The signals *)

\* No agent shares its terminal with another session.
NoSharedTty == \A m \in Machines : m.tty # "shared"

\* A child the watcher may signal has the terminal the guard looked for, and
\* remodeset signals no other.
Guarded ==
    /\ machine \in Machines
    /\ controlled => phase # "none" /\ conf.mode = "drm" /\ ctty
    /\ (watch = "usr1" /\ target) => controlled

LEMMA GuardedStep == NoSharedTty /\ Guarded /\ [Next]_vars => Guarded'
<1> SUFFICES ASSUME NoSharedTty, Guarded, [Next]_vars PROVE Guarded'
  OBVIOUS
<1> USE DEF Guarded, store, request, watcher, displays, child
<1>1. ASSUME NEW c \in Connector, Plug(c) \/ Unplug(c) PROVE Guarded'
  BY <1>1 DEF Plug, Unplug
<1>2. CASE SpawnLocked
  <2>1. machine.tty # "none" => machine.tty = "own"
    BY MachineAssumption DEF NoSharedTty
  <2> QED BY <1>2, <2>1 DEF SpawnLocked, Spawn, HasVTHandlers
<1>3. CASE ComesUp \/ Answers BY <1>3 DEF ComesUp, Answers
<1>4. CASE Exit    BY <1>4 DEF Exit, Gone
<1>5. CASE Poll    BY <1>5 DEF Poll
<1>6. CASE Usr1    BY <1>6 DEF Usr1, Gone
<1>7. CASE Usr2    BY <1>7 DEF Usr2
<1>8. CASE Cinefin
  BY <1>8 DEF Cinefin, Pair, Unpair, UnpairRestarts, PutSaves, PutAnswers,
              Start, Stop, Restart, Gone, Stays
<1>9. CASE Boot BY <1>9 DEF Boot, Gone
<1>10. CASE UNCHANGED vars BY <1>10 DEF vars
<1> QED
  BY <1>1, <1>2, <1>3, <1>4, <1>5, <1>6, <1>7, <1>8, <1>9, <1>10
     DEF Next, Screens, Mpv, WatchDRM

\* When the agent's terminal is its own or there is none, no mpv that is up is
\* ended by the watcher's signals: not one that replaced the child they were
\* meant for, and not one launched in another mode since (hotplug_linux.go,
\* remodeset).
THEOREM NoSignalKills == NoSharedTty => (Spec => []SignalsAreHandled)
<1> SUFFICES ASSUME NoSharedTty PROVE Spec => []SignalsAreHandled
  OBVIOUS
<1>1. Init => Guarded
  BY DEF Init, Guarded
<1>2. Guarded /\ [Next]_vars => Guarded'
  BY GuardedStep
<1>3. Guarded => SignalsAreHandled
  BY DEF Guarded, SignalsAreHandled, SwitchesVT
<1> QED BY <1>1, <1>2, <1>3, PTL DEF Spec

-----------------------------------------------------------------------------
(* The command line *)

\* The last group that sets an option decides it.
LEMMA LastGroupWins ==
    ASSUME NEW args, DOMAIN args \subseteq Int,
           NEW i \in DOMAIN args, NEW o \in DOMAIN args[i],
           \A j \in DOMAIN args : o \in DOMAIN args[j] => j <= i
    PROVE  Value(args, o) = args[i][o]
<1> DEFINE last(k) == \A j \in Setters(args, o) : j <= k
<1>1. i \in Setters(args, o) /\ last(i)
  BY DEF Setters
<1>2. \A k \in Setters(args, o) : last(k) => k = i
  <2> SUFFICES ASSUME NEW k \in Setters(args, o), last(k) PROVE k = i
    OBVIOUS
  <2>1. k \in Int /\ i \in Int /\ k <= i /\ i <= k
    BY <1>1 DEF Setters
  <2> QED BY <2>1
<1>3. (CHOOSE k \in Setters(args, o) : last(k)) = i
  <2> HIDE DEF last
  <2> QED BY <1>1, <1>2
<1> QED BY <1>3 DEF Value

\* The domains of the groups after the files.
LEMMA GroupDomains ==
    ASSUME NEW hc
    PROVE  /\ DOMAIN Enforced = {"ipc", "idle", "forceWindow"}
           /\ DOMAIN Fullscreen(hc) \subseteq {"fullscreen"}
           /\ DOMAIN GpuApi(hc) \subseteq {"gpuApi"}
           /\ DOMAIN GpuContext(hc) \subseteq {"gpuContext"}
           /\ DOMAIN Pin(hc) \subseteq {"drmConnector"}
           /\ DOMAIN DrmMode(hc) \subseteq {"drmMode"}
           /\ DOMAIN Screen(hc) \subseteq {"screen", "screenName"}
BY DEF Enforced, Fullscreen, GpuApi, GpuContext, Pin, DrmMode, Screen, When, Nothing

\* Whatever the files say, the options the agent enforces win, and so does the
\* connector of the config.
LEMMA EnforcedWins ==
    ASSUME NEW hc, NEW files
    PROVE  LET args == BuildMPVArgs(hc, files)
           IN  /\ \A o \in DOMAIN Enforced : Value(args, o) = Enforced[o]
               /\ hc.mode = "drm" /\ hc.connector # NoScreen =>
                      Value(args, "drmConnector") = hc.connector
<1> DEFINE args == BuildMPVArgs(hc, files)
<1>1. /\ DOMAIN args = 1 .. 10
      /\ args[4] = Enforced /\ args[5] = Fullscreen(hc) /\ args[6] = GpuApi(hc)
      /\ args[7] = GpuContext(hc) /\ args[8] = Pin(hc) /\ args[9] = DrmMode(hc)
      /\ args[10] = Screen(hc)
  BY DEF BuildMPVArgs
<1> HIDE DEF args
<1>2. ASSUME NEW o \in DOMAIN Enforced
      PROVE  Value(args, o) = Enforced[o]
  <2>1. \A j \in 1 .. 10 : o \in DOMAIN args[j] => j <= 4
    <3>1. \A j \in 1 .. 10 : j <= 4 \/ j = 5 \/ j = 6 \/ j = 7 \/ j = 8 \/ j = 9 \/ j = 10
      OBVIOUS
    <3>2. o \in {"ipc", "idle", "forceWindow"}
      BY GroupDomains
    <3> QED BY <1>1, <3>1, <3>2, GroupDomains
  <2>2. o \in DOMAIN args[4] /\ 4 \in DOMAIN args /\ DOMAIN args \subseteq Int
    BY <1>1, <1>2
  <2> QED BY <2>1, <2>2, <1>1, LastGroupWins
<1>3. ASSUME hc.mode = "drm", hc.connector # NoScreen
      PROVE  Value(args, "drmConnector") = hc.connector
  <2>1. "drmConnector" \in DOMAIN Pin(hc) /\ Pin(hc)["drmConnector"] = hc.connector
    BY <1>3 DEF Pin, When
  <2>2. \A j \in 1 .. 10 : "drmConnector" \in DOMAIN args[j] => j <= 8
    <3>1. \A j \in 1 .. 10 : j <= 8 \/ j = 9 \/ j = 10
      OBVIOUS
    <3> QED BY <1>1, <3>1, GroupDomains
  <2>3. "drmConnector" \in DOMAIN args[8] /\ 8 \in DOMAIN args /\ DOMAIN args \subseteq Int
    BY <2>1, <1>1
  <2>4. Value(args, "drmConnector") = args[8]["drmConnector"]
    BY <2>2, <2>3, <1>1, LastGroupWins
  <2> QED BY <2>1, <2>4, <1>1
<1> QED BY <1>2, <1>3 DEF args

\* No launch, of any config and with any files of mpv, takes mpv out of the
\* agent's reach or to another connector (hostconfig.go, BuildMPVArgs).
THEOREM AlwaysControllable == Spec => []Controllable
<1>1. Controllable
  BY EnforcedWins DEF Controllable
<1> QED BY <1>1, PTL

-----------------------------------------------------------------------------
(* The launch config and the mpv that runs with it                         *)

\* Only the paired Cinefin sets a launch config, and unpairing takes it back.
SetByOwner ==
    /\ phase \in {"none", "starting", "answers", "up"}
    /\ HasLaunch => paired

LEMMA OwnerStep == SetByOwner /\ [Next]_vars => SetByOwner'
<1> SUFFICES ASSUME SetByOwner, [Next]_vars PROVE SetByOwner'
  OBVIOUS
<1> USE DEF SetByOwner, HasLaunch, store, child
<1>1. ASSUME NEW c \in Connector, Plug(c) \/ Unplug(c) PROVE SetByOwner'
  BY <1>1 DEF Plug, Unplug
<1>2. CASE SpawnLocked BY <1>2 DEF SpawnLocked, Spawn
<1>3. CASE ComesUp \/ Answers BY <1>3 DEF ComesUp, Answers
<1>4. CASE Exit    BY <1>4 DEF Exit, Gone
<1>5. CASE Poll    BY <1>5 DEF Poll
<1>6. CASE Usr1    BY <1>6 DEF Usr1, Gone
<1>7. CASE Usr2    BY <1>7 DEF Usr2
<1>8. CASE Cinefin
  BY <1>8 DEF Cinefin, Pair, Unpair, UnpairRestarts, PutSaves, PutAnswers,
              Start, Stop, Restart, Gone, Stays
<1>9. CASE Boot BY <1>9 DEF Boot, Gone
<1>10. CASE UNCHANGED vars BY <1>10 DEF vars
<1> QED
  BY <1>1, <1>2, <1>3, <1>4, <1>5, <1>6, <1>7, <1>8, <1>9, <1>10
     DEF Next, Screens, Mpv, WatchDRM

\* An mpv that runs, or is about to, with another config than the one saved: a
\* PUT is about to say so, or has, or Unpair's restart is to come.
ToldInv ==
    (phase # "none" /\ paired /\ HasLaunch /\ put = "idle" /\ conf # launch) => (told \/ owed)

LEMMA ToldStep == ~Early /\ SetByOwner /\ ToldInv /\ [Next]_vars => ToldInv'
<1> SUFFICES ASSUME ~Early, SetByOwner, ToldInv, [Next]_vars PROVE ToldInv'
  OBVIOUS
<1> USE DEF ToldInv, HasLaunch, store, child, request
<1>1. ASSUME NEW c \in Connector, Plug(c) \/ Unplug(c) PROVE ToldInv'
  BY <1>1 DEF Plug, Unplug
<1>2. CASE SpawnLocked
  <2>1. conf' = LaunchConfig /\ UNCHANGED <<paired, launch>>
    BY <1>2 DEF SpawnLocked, Spawn
  <2>2. paired /\ HasLaunch => LaunchConfig = launch
    BY DEF LaunchConfig, FlagsApply, Launch
  <2> QED BY <2>1, <2>2
<1>3. CASE ComesUp \/ Answers BY <1>3 DEF ComesUp, Answers
<1>4. CASE Exit    BY <1>4 DEF Exit, Gone
<1>5. CASE Poll    BY <1>5 DEF Poll
<1>6. CASE Usr1    BY <1>6 DEF Usr1, Gone
<1>7. CASE Usr2    BY <1>7 DEF Usr2
<1>8. CASE PutAnswers
  <2>1. phase # "none" => told'
    BY <1>8 DEF PutAnswers, MpvRunning, SetByOwner
  <2> QED BY <1>8, <2>1 DEF PutAnswers
<1>9. CASE Pair BY <1>9 DEF Pair, SetByOwner
<1>10. CASE Unpair
  BY <1>10 DEF Unpair
<1>11. ASSUME NEW hc \in Configs, PutSaves(hc) PROVE ToldInv'
  BY <1>11 DEF PutSaves
<1>12. CASE Start
  BY <1>12 DEF Start
<1>13. CASE UnpairRestarts \/ Stop \/ Restart \/ Boot
  BY <1>13 DEF UnpairRestarts, Stop, Restart, Boot, Gone
<1>14. CASE UNCHANGED vars BY <1>14 DEF vars
<1> QED
  BY <1>1, <1>2, <1>3, <1>4, <1>5, <1>6, <1>7, <1>8, <1>9, <1>10, <1>11, <1>12, <1>13, <1>14
     DEF Next, Screens, Mpv, WatchDRM, Cinefin

\* Cinefin is never left with an mpv that runs with another config than the one
\* it saved last, and the word that none has to be restarted, unless it asked
\* while mpv was starting (handlers_host.go, saveLaunch).
THEOREM StaleTold == ~Early => (Spec => []StaleIsTold)
<1> SUFFICES ASSUME ~Early PROVE Spec => []StaleIsTold
  OBVIOUS
<1>1. Init => SetByOwner /\ ToldInv
  BY DEF Init, SetByOwner, ToldInv, HasLaunch
<1>2. SetByOwner /\ ToldInv /\ [Next]_vars => SetByOwner' /\ ToldInv'
  BY OwnerStep, ToldStep
<1>3. ToldInv => StaleIsTold
  BY DEF ToldInv, StaleIsTold
<1> QED BY <1>1, <1>2, <1>3, PTL DEF Spec

\* No box that draws straight to a display is started with the index of a
\* screen, which names another one, or none, when a connector is unplugged.
ScreensByName ==
    \A m \in Machines :
        ~m.desktop /\ m.screen.by = "index" =>
            \A seen \in SUBSET Connector : Nth(m.screen.of, seen) = {}

\* Then the launch config depends on the machine and the store alone.
Settled(m) == PickMode(PickScreen(Detect(m.desktop), m.screen, {}), m.mode)

LEMMA PickIsSettled ==
    ASSUME ScreensByName, NEW m \in Machines, NEW seen \in SUBSET Connector
    PROVE  PickScreen(Detect(m.desktop), m.screen, seen)
           = PickScreen(Detect(m.desktop), m.screen, {})
<1>1. m.desktop \in BOOLEAN /\ m.screen \in ScreenFlag
  BY MachineAssumption
<1>2. (Detect(m.desktop).mode = "drm") <=> ~m.desktop
  BY <1>1 DEF Detect, Preset
<1>3. CASE m.screen.by = "index" /\ ~m.desktop
  <2>1. Nth(m.screen.of, seen) = {} /\ Nth(m.screen.of, {}) = {}
    BY <1>3 DEF ScreensByName
  <2> QED BY <1>2, <1>3, <2>1 DEF PickScreen
<1>4. CASE m.screen.by = "index" /\ m.desktop
  BY <1>2, <1>4 DEF PickScreen
<1>5. CASE m.screen.by # "index"
  BY <1>5 DEF PickScreen
<1> QED BY <1>1, <1>3, <1>4, <1>5

LEMMA SettledType == ASSUME NEW m \in Machines PROVE Settled(m) \in HostConfig
<1>1. Detect(m.desktop) \in HostConfig /\ m.screen \in ScreenFlag /\ m.mode \in Modes
  BY DetectType, MachineAssumption
<1>2. PickScreen(Detect(m.desktop), m.screen, {}) \in HostConfig
  BY <1>1, PickScreenType
<1> QED BY <1>1, <1>2, PickModeType DEF Settled

LEMMA LaunchIsSettled ==
    ASSUME ScreensByName, SetByOwner, machine \in Machines, connected \in SUBSET Connector
    PROVE  LaunchConfig = IF HasLaunch THEN launch ELSE Settled(machine)
<1>1. PairingConfig(machine.desktop) = Detect(machine.desktop)
  <2>1. Detect(machine.desktop) \in HostConfig
    BY MachineAssumption, DetectType
  <2>2. Detect(machine.desktop).autostart = TRUE
    BY DEF Detect, Preset
  <2>3. \A hc \in HostConfig : hc.autostart = TRUE => [hc EXCEPT !.autostart = TRUE] = hc
    BY DEF HostConfig
  <2> QED BY <2>1, <2>2, <2>3 DEF PairingConfig
<1>2. CASE HasLaunch
  BY <1>2 DEF LaunchConfig, FlagsApply, SetByOwner, Launch, HasLaunch
<1>3. CASE ~HasLaunch
  <2>1. LaunchConfig
        = PickMode(PickScreen(Detect(machine.desktop), machine.screen, connected), machine.mode)
    BY <1>1, <1>3 DEF LaunchConfig, FlagsApply, Launch, HasLaunch
  <2> QED BY <1>3, <2>1, PickIsSettled DEF Settled
<1> QED BY <1>2, <1>3

\* A child whose config has not changed since its launch runs with the config
\* that the next launch would take, and the next GET reports.
RunsAsSaved == (phase # "none" /\ fresh) => conf = IF HasLaunch THEN launch ELSE Settled(machine)

SavedInv ==
    /\ SetByOwner /\ RunsAsSaved
    /\ machine \in Machines /\ connected \in SUBSET Connector
    /\ launch \in Configs \cup {NoConfig}

LEMMA SavedStep == ScreensByName /\ SavedInv /\ [Next]_vars => SavedInv'
<1> SUFFICES ASSUME ScreensByName, SavedInv, [Next]_vars
             PROVE  /\ RunsAsSaved'
                    /\ machine' \in Machines /\ connected' \in SUBSET Connector
                    /\ launch' \in Configs \cup {NoConfig}
  BY OwnerStep DEF SavedInv
<1> USE DEF SavedInv, RunsAsSaved, HasLaunch, store, child, displays
<1>1. ASSUME NEW c \in Connector, Plug(c) \/ Unplug(c)
      PROVE  /\ RunsAsSaved'
             /\ machine' \in Machines /\ connected' \in SUBSET Connector
             /\ launch' \in Configs \cup {NoConfig}
  BY <1>1 DEF Plug, Unplug
<1>2. CASE SpawnLocked
  <2>1. conf' = IF HasLaunch THEN launch ELSE Settled(machine)
    BY <1>2, LaunchIsSettled DEF SpawnLocked, Spawn
  <2> QED BY <1>2, <2>1 DEF SpawnLocked
<1>3. CASE ComesUp \/ Answers BY <1>3 DEF ComesUp, Answers
<1>4. CASE Exit    BY <1>4 DEF Exit, Gone
<1>5. CASE Poll    BY <1>5 DEF Poll
<1>6. CASE Usr1    BY <1>6 DEF Usr1, Gone
<1>7. CASE Usr2    BY <1>7 DEF Usr2
<1>8. CASE Cinefin
  BY <1>8 DEF Cinefin, Pair, Unpair, UnpairRestarts, PutSaves, PutAnswers,
              Start, Stop, Restart, Gone, Stays
<1>9. CASE Boot BY <1>9 DEF Boot, Gone
<1>10. CASE UNCHANGED vars BY <1>10 DEF vars
<1> QED
  BY <1>1, <1>2, <1>3, <1>4, <1>5, <1>6, <1>7, <1>8, <1>9, <1>10
     DEF Next, Screens, Mpv, WatchDRM

\* What Cinefin is first shown is what mpv runs with, through launches, crashes,
\* displays that come and go, and a pairing in the middle (main.go,
\* launchConfig; handlers_host.go, handleGetHostConfig).
THEOREM ReportedShown == ScreensByName => (Spec => []ReportedIsShown)
<1> SUFFICES ASSUME ScreensByName PROVE Spec => []ReportedIsShown
  OBVIOUS
<1>1. Init => SavedInv
  BY DEF Init, SavedInv, RunsAsSaved, SetByOwner, HasLaunch
<1>2. SavedInv => ReportedIsShown
  <2> SUFFICES ASSUME SavedInv, phase # "none", fresh
               PROVE  /\ GetHostConfig.mode = conf.mode
                      /\ GetHostConfig.connector = conf.connector
                      /\ GetHostConfig.drmMode = conf.drmMode
                      /\ GetHostConfig.screenName = conf.screenName
    BY DEF ReportedIsShown
  <2>1. LaunchConfig = conf
    BY LaunchIsSettled DEF SavedInv, RunsAsSaved
  <2>2. LaunchConfig \in HostConfig
    BY LaunchIsSettled, SettledType, DisplayConstants DEF SavedInv, HasLaunch
  <2>3. CASE ~(LaunchConfig.mode # "drm" /\ LaunchConfig.screenName \in connected)
    BY <2>1, <2>3 DEF GetHostConfig
  <2>4. CASE LaunchConfig.mode # "drm" /\ LaunchConfig.screenName \in connected
    BY <2>1, <2>2, <2>4 DEF GetHostConfig, HostConfig
  <2> QED BY <2>3, <2>4
<1> QED BY <1>1, <1>2, SavedStep, PTL DEF Spec
=============================================================================
