---------------------------- MODULE DisplayProps ----------------------------
(***************************************************************************)
(* What is asked of Display.                                               *)
(***************************************************************************)
EXTENDS Display

\* Whatever mpv.conf and the --include file say, and whatever Cinefin sets, mpv
\* listens on the agent's socket, stays when nothing plays and keeps a window,
\* and draws on the connector of its config (hostconfig.go, BuildMPVArgs).
Controllable ==
    phase # "none" =>
        LET args == BuildMPVArgs(conf, machine.files)
        IN  /\ \A o \in DOMAIN Enforced : Value(args, o) = Enforced[o]
            /\ conf.mode = "drm" /\ conf.connector # NoScreen =>
                   Value(args, "drmConnector") = conf.connector

\* An mpv that is up is sent the signals only if it handles them: SIGUSR1 ends
\* any other (hotplug_linux.go, hasVTHandlers).
SignalsAreHandled == (watch = "usr1" /\ target /\ phase = "up") => SwitchesVT

\* Until Cinefin has saved a config, what it is given to edit is what mpv runs
\* with, so that its first save does not move the player to another output
\* (handlers_host.go, handleGetHostConfig).
ReportedIsShown ==
    (phase # "none" /\ fresh /\ paired) =>
        /\ GetHostConfig.mode = conf.mode
        /\ GetHostConfig.connector = conf.connector
        /\ GetHostConfig.drmMode = conf.drmMode
        /\ GetHostConfig.screenName = conf.screenName

\* When mpv runs with another config than the one saved, Cinefin has been told
\* that it takes a restart, however the save, the launch and the probe
\* interleave (handlers_host.go, saveLaunch).
StaleIsTold ==
    (phase \in {"answers", "up"} /\ paired /\ HasLaunch /\ put = "idle" /\ conf # launch)
        => (told \/ owed)

\* The display of a player that draws straight to it, on the connector of its
\* config and with a terminal of its own, is on and shows nothing.
Dark(c) ==
    /\ phase = "up" /\ fresh
    /\ conf.mode = "drm" /\ conf.connector = c
    /\ machine.tty = "own"
    /\ c \in connected
    /\ ~lit

\* A projector that returns gets its picture back, without a restart, unless it
\* goes again, mpv ends or the config changes (WatchDRM).
PowerCycle ==
    \A c \in Connector :
        Dark(c) ~> (lit \/ c \notin connected \/ phase # "up" \/ ~fresh)

\* After an unpairing the player comes back on the machine's own screen, even if
\* it was stopped, unless it is paired again (pair.go, Unpair).
UnpairedShows ==
    (~paired) ~> (paired \/ (phase = "up" /\ conf = PickMode(
        PickScreen(PairingConfig(machine.desktop), machine.screen, connected), machine.mode)))
=============================================================================
