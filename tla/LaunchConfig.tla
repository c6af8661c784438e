---------------------------- MODULE LaunchConfig ----------------------------
(***************************************************************************)
(* internal/hostconfig: the launch config of mpv, the defaults of the      *)
(* machine, the screen and mode of the command line, and the mpv options   *)
(* made of it.  A screen is its place in the sorted list of outputs, so    *)
(* that a number picks it as the code does.  Of the options only those     *)
(* that say where mpv draws and how it is reached are kept; codecs, audio, *)
(* HDR and the window's title are left out.                                *)
(***************************************************************************)
EXTENDS Integers, FiniteSets, Sequences

CONSTANT Connector      \* the outputs, numbered in the order of their names

ASSUME ConnectorAssumption == Connector \subseteq Nat \ {0}

NoScreen == 0           \* an empty drm_connector or screen_name
NoMode   == ""          \* an empty drm_mode

Modes == {NoMode, "preferred", "1080p"}

\* HostConfig, with the fields that decide where mpv draws.
HostConfig ==
    [mode: {"desktop", "drm"}, api: {"", "vulkan"}, context: {"", "drm", "displayvk"},
     fullscreen: BOOLEAN, connector: Connector \cup {NoScreen}, drmMode: Modes,
     screen: Nat, screenName: Connector \cup {NoScreen}, autostart: BOOLEAN]

\* What --display may name, when it names a screen.
ScreenFlag == [by: {"nothing"}, of: {0}]
         \cup [by: {"index"}, of: Nat]
         \cup [by: {"name"}, of: Connector]

-----------------------------------------------------------------------------
(* The defaults of the machine *)

\* Linux's preset; on Windows the API and the display differ.
Preset == [mode |-> "desktop", api |-> "", context |-> "", fullscreen |-> FALSE,
           connector |-> NoScreen, drmMode |-> NoMode,
           screen |-> 0, screenName |-> NoScreen, autostart |-> TRUE]

\* With no desktop session, straight to the screen on no particular connector.
Detect(desktop) ==
    IF desktop THEN Preset
    ELSE [Preset EXCEPT !.mode = "drm", !.context = "drm", !.fullscreen = TRUE]

\* hostconfig.Pairing: what an unpaired player starts from.
PairingConfig(desktop) == [Detect(desktop) EXCEPT !.autostart = TRUE]

-----------------------------------------------------------------------------
(* The command line *)

\* The connector that index n picks among those with a screen attached.
Nth(n, connected) ==
    {c \in connected : Cardinality({d \in connected : d < c}) = n}

\* Mutant: an index is taken for a connector without a look at what is there.
PickScreenUnchecked(hc, flag, connected) ==
    IF hc.mode = "drm" /\ flag.by # "nothing" THEN [hc EXCEPT !.connector = flag.of] ELSE hc

\* HostConfig.PickScreen.  An index beyond the connected screens is an error,
\* and the config stays as it is.
PickScreen(hc, flag, connected) ==
    CASE flag.by = "nothing" -> hc
      [] flag.by = "index" /\ hc.mode = "drm" ->
           IF Nth(flag.of, connected) = {} THEN hc
           ELSE [hc EXCEPT !.connector = CHOOSE c \in Nth(flag.of, connected) : TRUE]
      [] flag.by = "name" /\ hc.mode = "drm" -> [hc EXCEPT !.connector = flag.of]
      [] flag.by = "index" /\ hc.mode # "drm" ->
           [hc EXCEPT !.screen = flag.of, !.screenName = NoScreen]
      [] flag.by = "name" /\ hc.mode # "drm" -> [hc EXCEPT !.screenName = flag.of]

\* HostConfig.PickMode: a desktop sets its own resolution.
PickMode(hc, mode) ==
    IF mode # NoMode /\ hc.mode = "drm" THEN [hc EXCEPT !.drmMode = mode] ELSE hc

\* HostConfig.Validate, on Linux.
Valid(hc) == /\ hc.mode \in {"desktop", "drm"}
             /\ ~(hc.api = "vulkan" /\ hc.context = "drm")

-----------------------------------------------------------------------------
(* The mpv options.  A command line is a sequence of groups of options; a  *)
(* group is a function from the options it sets to their values.           *)

Setters(args, o) == {i \in DOMAIN args : o \in DOMAIN args[i]}

\* As mpv reads it: of two groups that set an option, the later wins.
Value(args, o) ==
    LET setters == Setters(args, o)
    IN  args[CHOOSE i \in setters : \A j \in setters : j <= i][o]

Nothing == [o \in {} |-> 0]

When(condition, options) == IF condition THEN options ELSE Nothing

\* What Cinefin relies on to reach mpv and to have a picture at any time.
Enforced == [ipc |-> "agent", idle |-> "yes", forceWindow |-> "yes"]

Fullscreen(hc) == When(hc.fullscreen, [fullscreen |-> "yes"])
GpuApi(hc)     == When(hc.api # "", [gpuApi |-> hc.api])
GpuContext(hc) == When(hc.context # "", [gpuContext |-> hc.context])
Pin(hc)        == When(hc.mode = "drm" /\ hc.connector # NoScreen, [drmConnector |-> hc.connector])
DrmMode(hc)    == When(hc.mode = "drm" /\ hc.drmMode # NoMode, [drmMode |-> hc.drmMode])
Screen(hc)     == When(hc.mode # "drm",
                       IF hc.screenName # NoScreen THEN [screenName |-> hc.screenName]
                                                   ELSE [screen |-> hc.screen])

\* Mutant: the --include file at the end of the command line.
BuildMPVArgsIncludeLast(hc, files) ==
    << files.conf, [loadScripts |-> "no"], Enforced,
       Fullscreen(hc), GpuApi(hc), GpuContext(hc), Pin(hc), DrmMode(hc), Screen(hc),
       files.include >>

\* BuildMPVArgs: mpv reads the mpv.conf of its folder before the command line,
\* and an --include file where it stands on it.
BuildMPVArgs(hc, files) ==
    << files.conf, [loadScripts |-> "no"], files.include, Enforced,
       Fullscreen(hc), GpuApi(hc), GpuContext(hc), Pin(hc), DrmMode(hc), Screen(hc) >>
=============================================================================
