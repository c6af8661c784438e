# TLA+ specifications of cinefin-playout

cinefin-playout is the agent that runs on a cinema's player. It supervises one
mpv, relays a Cinefin's commands to it over a websocket, is paired with that
Cinefin by a code on its screen, and shows a standby ident when Cinefin plays
nothing. The modules here model its core logic, check it with TLC on small
instances, and prove part of it with TLAPS for every value of the constants.

Source paths below are relative to `src/internal/`, unless they begin with `src/`.

## The system

| Component | State | Operations | Talks to |
|---|---|---|---|
| Supervisor: `mpvproc.Manager` | `proc`, `desiredRunning`, `backoff`, `nextRestartAt`, `startedAt` | Start, Stop, Restart, Autostart, the monitor's tick, Close | mpv (process, quit over IPC), HTTP handlers, tray, Unpair, main |
| Hotplug: `WatchDRM` | last connector states, `drmControlled` | poll, re-modeset | the Manager's child, the launch config, the connectors |
| Launch config: `hostconfig`, main's `launchConfig`, `/hostconfig` | the store's config; the command line and machine it falls back on | Detect, PickScreen, PickMode, Validate, BuildMPVArgs; GET and PUT | the store, every launch, the watcher, Cinefin |
| IPC client: `mpvipc.Client`, `player.subprocess` | `conn`, `sawDown` | dial and retry, read loop, Send | mpv, the bridge, mpvConnected |
| Control bridge: `server/control.go`, `serveControl` | `client`, each session's context and channel | attach, detach, disconnect, inbound, fromMPV, writer, keepalive | Cinefin, the IPC client |
| Standby: `server/standby.go` | `path`, `loaded`, `pending`, the download's `gen`, `cancel`, `err`; the ident directory | enterStandby, observed, fetchIdent, downloadIdent, resumeStandby | mpv, the store, the card |
| Test sound: `server/testsound.go` | `active`, `seen`, `gen` | start, tonePath, timeout, reset | mpv, standby |
| Card: `server/card*.go` | `shown`, `key`, `since`, `confirm`, link notice, test card | refresh, choose, forget, wake | mpv's overlay, everything it shows |
| Pairing codes: `pairing.Codes` | code, expiry, `failures`, `lockedUntil`, `lastTry` | Current, Check, Rotate, Run | handlePair, the card, the log |
| Store: `state.Store` | token, launch config, standby spec, address, in memory and in `state.json` | the setters, Reset, Open | everything |
| Pairing requests: `server/pair.go`, `server.auth` | none of their own | pair, unpair, every authorised request | codes, store, bridge, announcement, supervisor |
| Protocol gate: `server/protocol.go` | the last refusal and its time | note, forget, recent | every request of Cinefin, the card |
| Announcement: `discovery.Advertiser` | `srv`, TXT records | Run, Update | pairing |

Each request is a goroutine of its own; mpv's frames arrive on one goroutine,
the read loop of the IPC client; the monitor, the card's redraw, the code's
ticker, the downloads and the timers are goroutines too. Every component has a
mutex, and nearly every operation drops it before it calls the next component.
The hard behaviours are therefore
check-then-act across two locks, waiting outside a lock (Stop), reports of mpv
that arrive after the agent has moved on, crashes of mpv and of the agent, and
time limits that race the event they wait for.

What makes each component correct:

- **Supervisor**: one mpv; nothing runs after Stop; a crash loop is throttled;
  a wanted mpv comes back; nothing outlives the agent.
- **Pairing**: guesses are limited; a granted token stands until an unpairing, and one that was
  taken back never returns; nothing of the old Cinefin is left after an unpairing;
  the player has one owner, whatever crashes; the announced flag is current.
- **Bridge**: a session that lives is the one that hears mpv; nobody waits for the
  events of an mpv that is gone; the reader is never blocked for good; a
  command is answered.
- **Standby and test sound**: the agent knows when mpv is on standby; an ident
  that arrives while it is, or is about to be, is shown; the ident kept is the spec's; a test sound gives the screen back; a
  player left alone returns to standby; a programme is not cut into.
- **Card**: the agent knows what overlay a living mpv shows; no overlay stays over a
  programme; the box waits for the ident's intro again after a restart of mpv (it does not, `card_intro`); the test card and
  the confirmation end on time; one return of Cinefin earns one toast; a command hold ends
  when Cinefin stays away; a refused Cinefin is told about wherever a missing one would be.
- **Launch config and hotplug**: mpv can always be reached, and draws on the connector it was given;
  the watcher's signals never kill it; a display that returns has its picture again; Cinefin is
  shown what mpv runs with, and told when it does not; an unpaired player comes up with the defaults.

## Modules

| Module | Models |
|---|---|
| `MpvService` | the abstract supervisor: what its callers may rely on |
| `Supervisor` | `mpvproc/manager.go`, its callers, the monitor, the agent's shutdown |
| `PairingCodes` | `pairing/pairing.go` |
| `PairingService` | the abstract pairing: one owner, who gives the player up before another takes it |
| `Pairing` | extends `PairingCodes` with the store, `pair.go`, the token check, the control link, the announcement, crash and boot |
| `Standby` | `standby.go`, `testsound.go`, standbyWhenAway, and mpv as an external process with a command queue and late reports |
| `Link` | `mpvipc/client.go`, `subprocess.Run`, `control.go`, `serveControl` |
| `LaunchConfig` | `hostconfig.go`: the defaults, the command line's choices, mpv's options and which of them win |
| `Display` | extends `LaunchConfig` with `hotplug_linux.go`, the launch (`spawn_unix.go`), `handlers_host.go`, main's `launchConfig`, against displays that come and go |
| `Card` | `card.go` and its scenes, `protocol.go`, against mpv's screen, a connection's callback, Cinefin and pairing |

For each of `Supervisor`, `Pairing`, `Standby`, `Link`, `Card` and `Display` there is a `...Props`
module with its properties, a `...Proofs` module with its theorems, and an `MC...`
module with the configurations TLC runs. `CardTimeProofs` has the theorems of `Card` that depend on the
order of its times, `IdentProofs` the one about a new ident. Operators named "Mutant" in a comment are bugs
put in on purpose: each property is shown to fail when its mutant replaces the
operator of the code. Nothing else uses them.

### How the code becomes actions

*Supervisor.* An action is a critical section under `Manager.mu`. `Stop` is
`StopBegins` (copy `proc`), the wait in stages `grace`, `term`, `kill`
(`SeesExit`, `TimesOut`), and `Clear`, which forgets whatever `proc` is by then.
A caller that has launched an mpv may wait for its socket (`wait`, `SocketWaited`), and is a request the
drain waits for until it returns.
`Restart` is a `Stop` whose `then` is `start`. The monitor's tick is one of four
actions, by the branch it takes. Time is in seconds: `restartIn` is what is
left until `nextRestartAt`. `agent` follows main: `Terminated`, the drain of the
HTTP server, and either `Close` or the fatal exit of `DrainTimesOut`.

*Pairing.* A request is a program counter. A pair request is the check that the player
is unpaired, the check of the code, the token's save, and the announcement with the
reply. An authorised request is the token check and, later, the handler: a PUT's save, or a dial, which
saves Cinefin's address unless it is known and then attaches (`Dials`, `Attaches`). Codes are
abstracted to who knows the valid one. What a Cinefin leaves in the store is named
by its token. `mem` and `disk` are separate, so a failed save and a crash show. A start of the
agent is two steps, the read of the file (`Opens`) and the moment it answers requests (`Boot`), for
`reset` writes the file itself when nobody answers.

*Standby.* `enterStandby` is three steps (`Chooses`, `Records`, `Loads`) for five
callers. mpv takes commands from a queue, has no path while it changes files,
and puts its path on the wire when it notices a change, as its property observers do.
PUT /standby is the save and, later, the fetch. Downloads are the current one and the superseded
ones. A cancelled or finished test sound's timer does nothing, which is `gen`.

*Link.* `Connects` and `ConnUp` are the two halves of `Connect`: the socket is up,
and `onConnState(true)` has returned. `ReadEnds` and `ConnDown` are the end of the read loop and
its late report. `carry` is a frame the read loop holds for a client whose channel is
full. A frame is who it is for. An attach takes the place of the
client before under the lock (`Attach`) and closes that one after it (`ClosesPrev`).

*Card.* One redraw is two steps: `Refresh` chooses the scene and draws it under the
card's lock, `Sends` sends the frame, and mpv may die in between. `First` and `Scene` are
the passes of refresh's loop: a scene that has finished hands over to the next. What a
scene draws is named by what it tells (`TextOf`), and `NextOf` is how soon it wants drawing
again. `screen` is what mpv shows, `shown` what the agent remembers. The callback of a
connection is `Connect`, `Forget` (after a drop), `Observe` and `Enter`. `file` is what mpv
plays, `path` what it last reported; a programme looped with loop-file=inf is the file
"hold". A refusal is kept as the time it stays recent. `EnterStandby` is one step here, and three in `Standby`. Every time.Time is an age that `Tick` moves on.

*Display.* A machine (desktop or not, `--display`, `--mode`, the agent's terminal, mpv's files) is
chosen once. `LaunchConfig` is evaluated anew by every launch, poll and GET, as in the code.
An mpv is launched (`SpawnLocked`), answers on its socket (`Answers`), and is up with its output open (`ComesUp`); before
that a SIGUSR1 ends it. `Poll` copies the child under the lock, `Usr1` and `Usr2` signal the copy, which by then may
be no process any more. A PUT /hostconfig is the save and, later, the answer. `lit` is whether mpv's picture
is on the connector `on`: it goes out when the display does, and comes back only with a re-modeset
or a launch. mpv's command line is a sequence of groups of options, of which the last that sets one wins.

### Parameters that bound the environment

| Parameter | FALSE means |
|---|---|
| `Detached` (Supervisor, a set; empty) | every caller is an HTTP request the drain waits for, none the tray or the restart left by Unpair |
| `SlowDeath` (Supervisor) | a killed process goes within Stop's last 2s |
| `SaveFails` (Pairing) | the state file can be written |
| `Overlap` (Pairing) | no request that has passed the token check is still running when an unpairing starts, no handler is suspended for a second, and no reset falls on an agent that is starting |
| `Blinks` (Display) | a display that goes stays away until the watcher has looked, and none goes and comes within one poll of the start of mpv |
| `Early` (Display) | no PUT /hostconfig asks whether mpv runs while mpv is starting |
| `Overlap` (Standby) | a goroutine that enters standby while another holds the file it has chosen chooses after that one has loaded; requests, Cinefin's commands, the tone's timer and the redraw for an absent Cinefin come when the agent is done with what came before, which takes milliseconds. Downloads end or fail, mpv connects, dies or reaches the end of a file, the agent restarts, at any time, inside enterStandby or outside |

`Quick` (Card) TRUE says that a new connection's callback runs as far as forget before the loop
redraws. Forget wakes the loop, and from there on redraws fall between the steps of the callback as they may,
with FALSE also before. The clock of `Card` stands while a redraw is due, a frame is being
sent, or a callback or request is under way: these take milliseconds, and the properties are about seconds.

`OnePut` (Standby) TRUE says that Cinefin waits for the answer to a PUT /standby before it sends
another. `Prompt` (Link) TRUE says that the end of a connection is reported before the next one is
dialled, at least 200ms later. These are assumptions on times, not on the code: with the parameter the other
way the code's own interleavings appear, and the violation runs use them. The pass
runs show what holds otherwise.

## Runs

Passing:

| Run | Shows | Bounds |
|---|---|---|
| `supervisor` | ExclusiveMpv, StopHolds, OrderlyExit, Throttled, StopReturns, Recovers, and that Supervisor implements MpvService | one caller and main, two process identities (one dying, one new), delays 1 to 5s, so that the cap is not a power of the first delay, healthy after 6s |
| `pairing` | GrantStands, RevokedStays, NothingLeftBehind, GuessLimit, and that Pairing implements PairingService | three requests, three tokens, three failures, a lockout of 4s, codes of 2s; the lockout is longer than three attempts a second apart, so that guessing could be too fast, and longer than a code lives |
| `standby` | OnStandbyTruth, ProgrammeSafe, NewIdentSwitched, IdentKept, SoundGivesBack, AwayReturns | two idents (a superseded and a new one), one command and one report on their way |
| `link` | AttachedIsClient, NoDeafClient, Answered | two sessions (one displacing the other, each coming back), a channel of 2, two frames on their way |
| `display` | Controllable, SignalsAreHandled, ReportedIsShown, StaleIsTold, PowerCycle, UnpairedShows | two connectors, so that one may be pinned and the other not; four machines: two with a terminal of their own (an index that no screen has; a named screen, and files that set the agent's options), one without a terminal, one desktop; three configs: pinned to the second connector, on none and not started at boot, one that Validate refuses |
| `card` | ShownIsOnScreen, RefusalIsTold, ToastOnce, ScenesEnd, KeepsOffProgramme, HoldEnds | four events from outside (a death of mpv, an attach, a request...): enough for each property's mutant to be found; times of 1 to 5 ticks in the order of the code's (frame < idle < pairing redraw; the toast is longer than its fades; the grace is longer than a frame; the test card does not end on a redraw by chance) |

A bound on a queue (`MaxQueue`, `MaxAsked`, `Capacity`) delays the sender; the
interesting cases are a full and an empty queue, and both occur. `late < 2` in `Link`
bounds the read loops that have not reported.

Violations: each shows that a doc or a comment says more than the code does.
The entries under "findings" in `PROJECT.json` quote the sentence.

| Run | Property | What happens |
|---|---|---|
| `supervisor_two_callers` | ExclusiveMpv | a Stop waits, mpv exits, another caller starts a new one, the Stop forgets it, the next start makes a second |
| `supervisor_drain` | NoOrphanAtExit | a Start waits for the socket of the mpv it has launched, 5s drain over, `log.Fatalf`; a Stop that waits for mpv to go does the same |
| `pairing_announce` | AnnouncedCurrent | an Update while the announcement is being registered is lost |
| `standby_gap` | SoundLeavesProgramme | the empty path between the tone and Cinefin's programme is taken for the tone's end |
| `display_signals` | SignalsAreHandled | an agent started from an SSH shell: mpv cannot take the shell's terminal and goes without, the guard finds that terminal and takes it for mpv's, and the first display that returns gets mpv killed |
| `card_intro` | BoxWaitsAgain | mpv dies and returns, forget wakes the card before enterStandby has recorded the new load, the redraw takes the old load's intro for over and draws the box, and enterStandby starts the intro under it |

With `Quick` FALSE, ShownIsOnScreen, KeepsOffProgramme, RefusalIsTold and ScenesEnd do not hold either: when the redraw comes before
forget, what it draws on the new mpv is marked as blank, and the pass that should clear it when a
programme starts, or when the scene ends, takes the screen for blank already. HoldEnds and ToastOnce hold.

### What the other parameters show

Each of these is a run of the configuration above with one constant changed. They are not part of the
project's runs; a reader can repeat them.

- `pairing`, `SaveFails = TRUE`: NothingLeftBehind and RevokedStays fail. A setter whose save fails has changed
  memory already (`state.go:131`): a pair request answered with an error leaves the player paired with a token
  nobody has, and an unpairing answered with one is undone by a restart. GrantStands holds.
- `pairing`, `Overlap = TRUE`: a PUT or a dial that passed the token check before an unpairing acts after it
  (`server.go:136`; `src/docs/ARCHITECTURE.md:182` says what unpairing clears), so NothingLeftBehind fails; a
  reset that falls on a starting agent does nothing (`main.go:317`), so RevokedStays fails; and a handler
  suspended for a second lets a second code be looked at before the first token is stored, so
  GrantStands fails.
- `standby`, `Overlap = TRUE`: NewIdentSwitched fails. Two calls hold a file each, the one with the older ident loads
  last, and it stays on the screen.
- `standby`, `OnePut = FALSE`: IdentKept fails. Of two PUTs, one saves last and the other fetches last, and the
  ident of the saved spec is fetched only after a restart (`standby.go:411`).
- `display`, `Blinks = TRUE`: PowerCycle fails, since the watcher compares with the last poll
  (`hotplug_linux.go:59`).
- `display`, `Early = TRUE`: StaleIsTold fails. mpv that is starting does not answer yet, so a PUT is told that no
  restart is needed though mpv may have read the config before (`handlers_host.go:61`).
- `display` with `Machines <- ByIndex`: PowerCycle and ReportedIsShown fail. An index of `--display` is resolved
  anew at every launch, poll and GET (`main.go:207`): with the projector off it names nothing, the watcher
  forgets what it saw, and there is no edge when the projector returns (`src/README.md:238` says a power-cycle
  re-modesets).

NewIdentSwitched is about the decision the agent takes at the end of a download, by `showingStandby`.
The comment there (`standby.go:293`) says "On standby with the previous ident, or about to be: show the new one"
(`src/docs/ARCHITECTURE.md:299`: the agent "switches to it"), which promises more. In `Standby` as it is run, without
any overlap, a download may end and the older file still come to the screen, or stay there, until
standby is next entered:

- on a blank screen between enterStandby's choice of the file and its record (mpvConnected at the start): neither is
  `pending` set nor the path a standby file;
- while a second standby file replaces a first one that two calls asked for one after the other: the report of the first
  ends the wait, and with the empty path that follows nothing says that the second is coming;
- while a test sound that ended into Cinefin's programme has standby entered over it (`standby_gap`): the report
  of the programme, read after the record, ends the wait.

A reader can see the first with the invariant `(Quiet /\ playing \in StandbyFile /\ arrived # None) => playing = arrived`.

Met while reading, with no model of their own: a reply to a displaced client goes to the client that displaced
it, since the bridge remaps no request_id (`control.go:177`; `src/docs/ARCHITECTURE.md:54` says they are
"namespaced per client"); `--load-scripts=no` comes before `--include`, though a comment says the options that
follow the include win (`hostconfig.go:281`); a refusal noted while a good Cinefin is attached is
told of that Cinefin's absence after it leaves.

Deadlock is checked in all runs but the supervisor's, where the agent really ends.

### Fairness

- `Supervisor`: time passes, goroutines that can run do, a killed process goes, and
  a launch that is tried again and again succeeds in the end (`SF` of
  `MonitorRelaunches`; without it the property would promise that a missing
  binary runs). mpv need not exit unless killed; nobody has to call anything.
- `Standby`: mpv takes, opens and reports (it is one event loop that never
  blocks on the agent), the tone ends (it has a length), callers inside
  enterStandby go on, and the restart Unpair leaves behind kills mpv. `SF` of `PathChanged`, `ToneTimesOut` and
  `StandbyWhenAway`: they are a read loop, a timer and a redraw every second, each of which waits
  while another call is being made but comes again and again.
- `Display`: the watcher's timer fires and its signals follow, a wanted mpv is launched, and the
  restart Unpair leaves behind happens. `SF` of `Answers` and `ComesUp`: an mpv that is launched again and again comes up in the
  end, though any one may die first.
- `Link`: the read loop, the reports, the closing of a displaced session and the detaching go on; a session with frames
  to write writes one or is ended by its 10s limit.

## Proofs

| Theorem | Says | Assumes |
|---|---|---|
| `TypeCorrect` | the supervisor's types; the backoff stays within its bounds | |
| `CrashLoopsAreThrottled` | the throttle, also when a killed mpv outlives its Stop | `OneCaller` |
| `Inductive`, `Exclusive`, `StopIsFinal`, `ExitIsOrderly` | the supervisor's invariants | `Serialised` |
| `Implements` | `Spec => ImplementsService`, that is `Service!Spec` | `Serialised` |
| `CodesInvariant`, `GuessingIsLimited` | the limit on guesses, in the whole of `Pairing`, any overlap included | |
| `Pairing`'s `TypeCorrect` | the types, whichever saves fail and whatever overlaps | |
| `PairingStands` | `GrantStands`, for any number of requests and tokens, whichever saves fail | `Spaced` |
| `PairingInvariant`, `RevocationLasts`, `UnpairingIsComplete` | what memory, file, handlers and link agree on; RevokedStays, NothingLeftBehind, for any number of requests and tokens | `Serial` |
| `Pairing`'s `Implements` | `Spec => ImplementsService`, that is `Service!Spec` | `Serial` |
| `IdentIsKept` | `IdentKept`, for any overlap of other calls | `OnePut` |
| `Standby`'s `TypeCorrect` | the types, for any overlap: mpv is told to load files only, no queue overflows | |
| `StandbyIsTrue`, `ProgrammeIsSafe` | `OnStandbyTruth`, `ProgrammeSafe`, for any idents and any queues | `Serial` |
| `NewIdentIsSwitched` | `NewIdentSwitched`, for any idents and any queues | `Serial` |
| `Link`'s `TypeCorrect` | the types; no session's channel overflows, for any number of sessions and any capacity | |
| `LiveSessionIsClient` | `AttachedIsClient`, for any number of sessions | |
| `NoSessionIsDeaf` | `NoDeafClient` | `Prompt` |
| `Card`'s `TypeCorrect` | the types, for any timing and any `Quick`; no age outgrows its limit | |
| `OverlayIsKnown` | `ShownIsOnScreen`, for any timing | `Quick` |
| `OneToast` | `ToastOnce`, for any timing and any `Quick` | |
| `RefusalTold` | `RefusalIsTold`, for any timing | `Quick` |
| `HoldIsEnded` | `HoldEnds`, for any `Quick` | `RestingIsSlower`, `RetryInGrace` |
| `OverlayLeaves` | `KeepsOffProgramme` | `Quick`, `RestingIsSlower` |
| `ScenesAreOver` | `ScenesEnd` | `Quick`, `FrameIsTick` |
| `Display`'s `TypeCorrect` | the types; the picture shows only on a connected output | `FilesNameOutputs` |
| `NoSignalKills` | `SignalsAreHandled`, for any connectors, configs and machines | `NoSharedTty` |
| `AlwaysControllable` | `Controllable`, for any config and any files | |
| `StaleTold` | `StaleIsTold`, for any connectors, configs and machines | `~Early` |
| `ReportedShown` | `ReportedIsShown`, for any connectors and configs | `ScreensByName` |

`OneCaller` is one caller at a time, none detached, and `Serialised` that and no slow death. They are
necessary: `supervisor_two_callers` is what happens when callers overlap, and a slow death breaks ExclusiveMpv.
`Serial` of `Pairing` is the `pairing` run's `SaveFails` and `Overlap` FALSE, with codes looked at a moment apart; each
part is necessary, as shown above. `Spaced` is the same without `SaveFails`. `Serial` of `Standby` is `Overlap` FALSE, as
in the run: one call at a time holds a file, and requests come when the agent is done with what came before.
`FilesNameOutputs` is that mpv's files name no connector but the machine's. `NoSharedTty` is that no agent
runs in the terminal of another session: `display_signals` is what happens without it. `ScreensByName` is that no
machine that draws straight to a display is started with the index of a screen that comes to name another one; the run's
machine with an index satisfies it, its index naming none.

The order of `Card`'s times is the code's: `RestingIsSlower` is a frame (1/30s) no longer than the look at a resting
scene (1s), `RetryInGrace` is a hold that may be ended again (10s) before Cinefin counts as away (30s).
`FrameIsTick` is no fact about the code but the unit of the clock: nothing is drawn between two ticks.

*Supervisor.* ExclusiveMpv is not inductive: a launch looks at `proc`, not at
what runs. `PaceInv` says that at most one goroutine is inside a call (`OneAtATime`, `MainWaits`), that
nobody wants mpv while one is inside Stop (`StopUnwanted`), and that the wait served and still
to come make up half a delay (`DelayServed`); the throttle follows, for a slow death leaves all of that alone. `IInv` adds that every
mpv that runs is `proc` (`Tracked`), and that a goroutine inside Stop holds that same `proc` (`StopOwns`).

*Pairing codes.* The history `ages` records how long ago each wrong code was. `CountedOrLocked` says that
the wrong codes the counter no longer counts came before the last lockout began, so
they are as old as the lockout minus what is left of it.

*Pairing.* GrantStands is about two requests that race through four steps each. `OneRightCode` is what keeps them
apart: once one has given the right code, less than a second has gone by until its token is stored, so no
other is looked at (`sinceTry`), and one that comes later finds the player paired. None of that depends on the file: a save
that fails grants nothing, and an unpairing takes back what was granted whether or not it can write (`GrantInv`). `OnDisk` says that a running
agent acts on what the file holds, so a crash loses nothing and `RevokedStays` follows. `AuthorisedNow` says a
handler runs for the present owner with no unpairing beside it, and `LinkIsOurs` that a link of another is about to be
cut. The refinement maps the owner to the token in the file; under the invariant each step is one of
`PairingService` or changes nothing there.

*Standby.* `IdentKept` says nothing while a download goes on, or a PUT has yet to fetch; `FetchesSpec` and
`PutIsSpec` add that both are of the spec's ident, so that their end establishes it.

The truth about standby rests on four facts. One caller at a time holds a file it has not loaded, and one that has
recorded holds the file recorded last (`OneInside`). An mpv that is gone has nothing on its way (`DownIsEmpty`). When
nobody is about to load, any standby file on the way or on the screen is the one recorded last, or that one will
replace it (`LoadedIsLast`). And while the agent waits for standby although the last it heard of is a programme, no
programme comes behind the load it waits for, or none comes or plays at all (`PendingIsComing`): so it
never waits over a programme it knows of once mpv is still.

NewIdentSwitched starts at the end of a download, which may fall anywhere, also where another call holds the
older ident. `ArrivedInv` says that from then on either the download's own call is still to choose, which it does when
nobody else holds a file, or everybody inside enterStandby holds the new ident (`HoldsArrived`) and it is
on its way or on the screen with no other standby file after it (`ArrivedComes`). `SpecInv` says why whoever chooses
later chooses it too.

*Link.* A session that subscribed with an mpv that has gone is over, or what will end it is still to come: the end of
the stream (`broken`), its report (`late`), or the mark the next connection finds (`sawDown`).
`Phases` says which of them may be the case in which state of the connection. A session that a later attach has displaced
lives on until that attach closes it; `Live` leaves it out, and `NothingOwed` says that only a session that has attached
still has one to close.

*Card.* ShownIsOnScreen speaks of a living mpv whose callback is over. `MemoryInv` adds
what is true before: a dead mpv's screen is blank, a first connection has nothing to forget
(`shown` is blank until a connection is lost), and between a connection and its forget
nothing is drawn. `ToastInv` says that a toast has used up the notice that earned it. That a refusal is told is
an invariant of what a redraw under way draws and of what was drawn last: a refusal and its end wake the loop or
fall due with it.

The other three are about time: something is over a bounded while after its reason went. Each counts, from the moment
the reason goes, the time passed and the time the loop still sleeps (`due`), and says that the sum stays within the
bound (`HeldInv`, `CoveredInv`, `EndsInv`). For that the loop must not sleep long away from Cinefin (`DozesInv`) or over a
programme (`SleepsInv`), and the hold's last end must lie far enough back for another (`EndedInv`).

*Display.* `Guarded` says that a child the watcher may signal has the terminal its guard looked for, and that the
copy the watcher signals is still that child or no process. That the agent's options win is a fact about the order of
the groups (`LastGroupWins`, `EnforcedWins`).

`ToldInv` says that an mpv that runs with another config than the saved one has been answered so, is about to be, or is to be
restarted by Unpair. ReportedIsShown compares a GET with mpv's command line, two evaluations of the launch config at different
times: `RunsAsSaved` says that an mpv whose config has not changed runs with what an evaluation gives now, which with
`ScreensByName` depends on no connector (`Settled`).

SoundGivesBack lets a tone end without standby where the agent does not promise it: the file enterStandby chose may be pruned
before mpv opens it (it was shown, or opened), and a tone that is loaded after mpv's reconnection has reset the test sound
is no test sound the agent follows.

Every invariant and every action property of the passing runs is stated by a theorem. Only model-checked: the liveness
properties (StopReturns, Recovers, SoundGivesBack, AwayReturns, Answered, PowerCycle, UnpairedShows), as fairness and ENABLED are
out of the prover's reach; and what the violation runs refute. `Overlap`, `Blinks` and the other parameters are FALSE in
the passing runs where a theorem assumes them FALSE; the theorems that do not assume them hold for both values.

## Not modelled

- Of the Card: drawing and fades, the code on the box and its countdown, the output and
  the sounding channel on the test card, which side a refusal wants updated, and a control client that
  displaces another. The reported path and loop-file are one value, so `StandbyWhenAway` and `WhenAway` never
  fall into one redraw; in the code they can when the report of a loop's end is late, and the second then sets
  loop-file on an mpv that plays nothing.
- Of the hardware: how the connectors, screens and modes are read from `/sys`, `xrandr` and the like; they
  are what is connected. Windows: its screens, processes and pipes.
- Of the launch config: codecs, audio, HDR, titles, and the text of `--mode`; they are copied to the command line.
- Configuration, session probing, the single-instance lock, the log, the banner: reads of the machine or
  pure functions of their input.
- The tray branch of main, where Close does not wait for the drain.
- A half-written frame after the 5s write deadline; a state file that does not parse, which ends the agent.

## Plan

Done, in this order: Supervisor with MpvService, its proofs; PairingCodes and
Pairing, the proof of the limit; Standby, the proofs of IdentKept, OnStandbyTruth and ProgrammeSafe; Link, its proofs; Card,
its proofs; LaunchConfig and Display, their proofs; the protocol gate on the card;
the start of the agent and PUT /standby in two steps each; PairingService, and the proofs of Pairing; the proofs that a
new ident is switched to, of Card's times, of Display's reports; the waits for mpv's socket, a dial and an attach in their steps.

Next:

1. An abstract specification of the ident that is kept (wanted, had, being fetched, failed) that `Standby` implements.
2. An abstract specification of the standby screen (what is on it: standby, a programme, a test
   sound, nothing) that `Standby` implements.
3. `Standby` composed with `Link` where mpv's restart drops Cinefin.
