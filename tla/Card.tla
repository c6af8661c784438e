-------------------------------- MODULE Card --------------------------------
(***************************************************************************)
(* internal/server card*.go: the overlay the agent draws over mpv.  One    *)
(* goroutine redraws when its timer fires or it is woken, chooses a scene  *)
(* from the state of the whole agent and sends it to the mpv of the moment.*)
(*                                                                         *)
(* Time is a clock of ticks and every time.Time is an age.  The loop is on *)
(* time: the clock stands while a redraw is due or under way.              *)
(*                                                                         *)
(* mpv's files are "ident", "programme", "hold" (a programme looped with   *)
(* loop-file=inf) and "none"; the path and the loop-file that mpv reports  *)
(* are one value of these.                                                 *)
(*                                                                         *)
(* Left out: drawing and fades, the code on the box and its countdown, the *)
(* output and the sound on the test card, which side a refusal wants       *)
(* updated, and a new control client that displaces another.               *)
(***************************************************************************)
EXTENDS Integers, FiniteSetsExt

CONSTANTS
    Frame, Idle,            \* frameRedraw, idleRedraw
    PairingRedraw,          \* pairingRedraw
    Intro,                  \* ident.IntroEnd
    Grace,                  \* linkGrace
    ToastFor, ToastFade,    \* linkToastFor, linkToastFade
    Retry,                  \* linkStandbyRetry
    TestFor,                \* testCardFor
    ShowFor,                \* mismatchShowFor
    MinHold, MaxHold,       \* confirmMinHold, confirmMaxHold
    Draw, Stay, Exit,       \* from the end of the hold: the icon is drawn,
                            \* stays, and slides away
    MaxEvents,              \* bound: events from outside
    Quick                   \* whether a connection's callback marks the overlay
                            \* as gone before the loop redraws

ASSUME CardConstants ==
    /\ {Frame, Idle, PairingRedraw, Intro, Grace, ToastFor, ToastFade, Retry,
        TestFor, ShowFor, MinHold, MaxHold, Draw, Stay, Exit} \subseteq Nat \ {0}
    /\ MinHold <= MaxHold
    /\ MaxEvents \in Nat
    /\ Quick \in BOOLEAN

Window == 2 * Idle
Never == -1
Rest == Draw + Stay + Exit

VARIABLES
    up,         \* backend.Connected
    alive,      \* the mpv of the connection lives
    sawDown,    \* a connection was lost since the last callback
    callback,   \* where mpvConnected is
    screen,     \* the overlay on mpv's screen
    file,       \* what mpv plays
    path,       \* what the agent knows of it
    intro,      \* what is left of the ident's intro, by standby.intro
    attached, linkAge,      \* control.link; since when is read of an absence
    paired, request,        \* the store's token; a request that changes it
    showStatus,             \* the standby spec's show_status
    shown, key, age,        \* card.shown, key and since, which is read only of a
                            \* scene that ends by itself
    notice, gap, toast,     \* linkWatch; gap is notice when Cinefin attached
    standbyAge, holdAge,
    confirm,                \* confirmScene.holdEnd; Never without a confirmation
    testLeft,               \* what is left of the test card, 0 when it is off
    refusal,                \* protocolMismatch: for how long the last refusal is
                            \* recent, 0 when there is none
    kick, due,              \* the loop's channel and timer
    drawing,                \* the text of the redraw under way, which has the lock
    toasts,                 \* history: toasts since Cinefin attached
    covered,                \* history: ticks an overlay has been on this programme
    held,                   \* history: ticks a hold has outlasted linkGrace
    again,                  \* history: this connection came after a lost one
    events                  \* events from outside so far

mpv    == <<up, alive, sawDown, callback, file, path, intro>>
link   == <<attached, linkAge>>
store  == <<paired, request, showStatus>>
watch  == <<notice, gap, toast, standbyAge, holdAge, toasts>>
past   == <<covered, held, again>>
scene  == <<key, age, confirm, testLeft>>
loop   == <<kick, due, drawing>>
vars   == <<mpv, screen, link, store, shown, watch, scene, refusal, loop, past, events>>

File == {"none", "ident", "programme", "hold"}
Key == {"none", "pairing", "testcard", "confirm", "status", "link-offline", "link-online"}
Text == {"blank", "box", "testcard", "accepted", "paired", "ready", "connecting",
         "unreachable", "offline", "toast",
         "box, refused", "refused", "offline, refused"}
NoDraw == "no draw"

TypeOK ==
    /\ up \in BOOLEAN /\ alive \in BOOLEAN /\ sawDown \in BOOLEAN
    /\ callback \in {"forget", "observe", "enter", "done"}
    /\ screen \in Text /\ shown \in Text /\ drawing \in Text \cup {NoDraw}
    /\ file \in File /\ path \in File /\ intro \in 0..Intro
    /\ attached \in BOOLEAN /\ linkAge \in 0..Grace
    /\ paired \in BOOLEAN /\ request \in {"none", "pairing", "unpairing"}
    /\ showStatus \in BOOLEAN
    /\ key \in Key /\ age \in 0..(MaxHold + Rest + 1)
    /\ notice \in Never..(Window + 1) /\ gap \in Never..(Window + 1)
    /\ toast \in 0..ToastFor /\ standbyAge \in 0..Retry /\ holdAge \in 0..Retry
    /\ confirm \in Never..MaxHold /\ testLeft \in 0..TestFor /\ refusal \in 0..ShowFor
    /\ kick \in BOOLEAN /\ due \in Nat
    /\ toasts \in Nat /\ covered \in Nat /\ held \in Nat /\ again \in BOOLEAN /\ events \in 0..MaxEvents

Init ==
    /\ up = FALSE /\ alive = FALSE /\ sawDown = FALSE /\ callback = "done"
    /\ screen = "blank" /\ file = "none" /\ path = "none" /\ intro = 0
    /\ attached = FALSE /\ linkAge = 0
    /\ paired \in BOOLEAN /\ request = "none" /\ showStatus \in {paired, FALSE}
    /\ shown = "blank" /\ key = "none" /\ age = 0
    /\ notice = Never /\ gap = Never /\ toast = ToastFor
    /\ standbyAge = Retry /\ holdAge = Retry
    /\ confirm = Never /\ testLeft = 0 /\ refusal = 0
    /\ kick = FALSE /\ due = 0 /\ drawing = NoDraw
    /\ toasts = 0 /\ covered = 0 /\ held = 0 /\ again = FALSE /\ events = 0

\* card.mu is free.
Free == drawing = NoDraw

-----------------------------------------------------------------------------
(* The choice of a scene                                                   *)

\* testCardSceneLocked.
TestCardOn == testLeft > 0

\* linkWatch.choose, for the scene.
LinkKey ==
    IF ~attached
    THEN IF linkAge < Grace THEN "none" ELSE "link-offline"
    ELSE IF (notice # Never /\ gap <= Window) \/ toast < ToastFor
         THEN "link-online" ELSE "none"

\* Mutant: what mpv plays is not asked for.
ChooseOver(confirming) ==
    IF ~paired THEN "pairing"
    ELSE IF TestCardOn THEN "testcard"
    ELSE IF confirming THEN "confirm"
    ELSE IF showStatus THEN "status"
    ELSE LinkKey

\* choose, with the confirmation playing or not.
Choose(confirming) ==
    IF ~paired THEN "pairing"
    ELSE IF TestCardOn THEN "testcard"
    ELSE IF confirming THEN "confirm"
    ELSE IF path # "ident" THEN "none"
    ELSE IF showStatus THEN "status"
    ELSE LinkKey

\* The time a scene has been on when it is chosen with key k.
Since(k) == IF k = key THEN age ELSE 0

\* Mutant: a confirmation whose link never comes up is held for ever.
HoldForLink(t) ==
    IF confirm > 0 THEN confirm
    ELSE IF attached THEN Min({Max({t, MinHold}), MaxHold})
    ELSE 0

\* confirmScene.hold: 0 until known.
Hold(t) ==
    IF confirm > 0 THEN confirm
    ELSE IF attached THEN Min({Max({t, MinHold}), MaxHold})
    ELSE IF t >= MaxHold THEN MaxHold ELSE 0

Finished(k) ==
    \/ k = "confirm" /\ Hold(Since(k)) > 0 /\ Since(k) >= Hold(Since(k)) + Rest
    \/ k = "link-online" /\ Since(k) >= ToastFor

\* A scene that has finished hands over to the next one in the same pass.
First == Choose(confirm # Never)
Scene == IF Finished(First) THEN Choose(FALSE) ELSE First
SceneAge == IF Finished(First) THEN 0 ELSE Since(Scene)

\* protocolMismatch.recent.
Refused == refusal > 0

\* linkStateLocked and linkStateAt.
LinkState ==
    IF attached THEN "ready" ELSE IF Refused THEN "refused"
    ELSE IF linkAge < Grace THEN "connecting" ELSE "unreachable"

\* pairingScene.at: nothing until the ident's intro is over.
PairingText ==
    IF intro > 0 THEN "blank" ELSE IF Refused THEN "box, refused" ELSE "box"

\* confirmScene.frame: "Code accepted" during the hold, then "Paired".
ConfirmText(t) == IF Hold(t) = 0 \/ t < Hold(t) THEN "accepted" ELSE "paired"

\* What a scene k draws t after it started.
TextOf(k, t) ==
    CASE k = "none"         -> "blank"
      [] k = "pairing"      -> PairingText
      [] k = "testcard"     -> "testcard"
      [] k = "confirm"      -> ConfirmText(t)
      [] k = "status"       -> LinkState
      [] k = "link-offline" -> IF Refused THEN "offline, refused" ELSE "offline"
      [] k = "link-online"  -> "toast"

PairingNext == IF intro > 0 THEN intro ELSE PairingRedraw

\* At frame rate while anything moves or the hold waits for the link.
ConfirmNext(t) ==
    LET drawn == Hold(t) + Draw IN
    IF Hold(t) > 0 /\ t >= drawn /\ t < drawn + Stay THEN drawn + Stay - t ELSE Frame

\* linkToastScene.frame: it sleeps between its fades.
ToastNext(t) ==
    IF t >= ToastFade /\ t < ToastFor - ToastFade THEN ToastFor - ToastFade - t ELSE Frame

TestCardNext == Min({Idle, testLeft})

\* How soon the scene wants to be drawn again.
NextOf(k, t) ==
    CASE k = "pairing"     -> PairingNext
      [] k = "testcard"    -> TestCardNext
      [] k = "confirm"     -> ConfirmNext(t)
      [] k = "link-online" -> ToastNext(t)
      [] OTHER             -> Idle

-----------------------------------------------------------------------------
(* What choosing a scene does besides                                      *)

\* enterStandby.  The ident may not open; a cinema's own has no intro.
EnterStandby ==
    /\ intro' \in IF paired THEN {0, Intro} ELSE {Intro}
    /\ file' \in IF alive THEN {"ident", "none"} ELSE {file}

AwayLong == ~attached /\ linkAge >= Grace

\* standbyWhenAway.
StandbyWhenAway ==
    IF AwayLong /\ path = "none" /\ standbyAge = Retry
    THEN standbyAge' = 0 /\ EnterStandby /\ UNCHANGED holdAge
    ELSE UNCHANGED <<standbyAge, holdAge, intro, file>>

\* Mutant: a hold is ended only on a player with nothing loaded.
EndHoldWhenIdle ==
    IF AwayLong /\ path = "none" /\ holdAge = Retry
    THEN /\ holdAge' = 0
         /\ file' = IF alive /\ file = "hold" THEN "programme" ELSE file
         /\ UNCHANGED <<standbyAge, intro>>
    ELSE StandbyWhenAway

\* endHoldWhenAway, where mpv loops, else standbyWhenAway: not both can be due.
WhenAway ==
    IF AwayLong /\ path = "hold" /\ holdAge = Retry
    THEN /\ holdAge' = 0
         /\ file' = IF alive /\ file = "hold" THEN "programme" ELSE file
         /\ UNCHANGED <<standbyAge, intro>>
    ELSE StandbyWhenAway

\* Mutant: the notice is not forgotten when Cinefin is back.
WatchForgetsNothing ==
    IF ~attached
    THEN /\ notice' = IF linkAge < Grace THEN notice ELSE 0
         /\ UNCHANGED <<gap, toast, toasts>>
    ELSE LET starts == notice # Never /\ gap <= Window IN
         /\ toast' = IF starts THEN 0 ELSE toast
         /\ toasts' = IF starts THEN toasts + 1 ELSE toasts
         /\ UNCHANGED <<notice, gap>>

\* linkWatch.choose.
Watch ==
    IF ~attached
    THEN /\ notice' = IF linkAge < Grace THEN notice ELSE 0
         /\ UNCHANGED <<gap, toast, toasts>>
    ELSE LET starts == notice # Never /\ gap <= Window IN
         /\ toast' = IF starts THEN 0 ELSE toast
         /\ toasts' = IF starts THEN toasts + 1 ELSE toasts
         /\ notice' = Never /\ gap' = Never

\* Where choose gets to.
OnTheWay ==
    LET away  == Scene = "none" /\ path # "ident"
        looks == Scene \in {"none", "link-offline", "link-online"} /\ path = "ident"
    IN /\ IF away THEN WhenAway ELSE UNCHANGED <<standbyAge, holdAge, intro, file>>
       /\ IF looks THEN Watch ELSE UNCHANGED <<notice, gap, toast, toasts>>

-----------------------------------------------------------------------------
(* The loop                                                                *)

\* run: the timer fires, or the loop is woken.
Wakes == \/ due = 0 /\ UNCHANGED kick
         \/ kick /\ kick' = FALSE

\* With no mpv there is no overlay.
RefreshDown ==
    /\ Free /\ ~up /\ Wakes
    /\ shown' = "blank" /\ due' = Idle
    /\ UNCHANGED <<mpv, screen, link, store, watch, scene, refusal, drawing, past, events>>

\* refresh up to the frame, with the lock held until it is sent.
Refresh ==
    /\ Free /\ up /\ Wakes
    /\ Quick => callback # "forget"
    /\ OnTheWay
    /\ key' = Scene /\ age' = SceneAge
    /\ confirm' = IF First # "confirm" THEN confirm
                  ELSE IF Finished(First) THEN Never ELSE Hold(SceneAge)
    /\ drawing' = TextOf(Scene, SceneAge)
    /\ due' = Max({NextOf(Scene, SceneAge), Frame})
    /\ UNCHANGED <<up, alive, sawDown, callback, path, screen, link, store, shown,
                   testLeft, refusal, past, events>>

\* The frame is sent when it differs from the one shown.  A living mpv gets it;
\* sent to one that is gone it may seem to have arrived, or fail.
Sends ==
    /\ ~Free /\ drawing' = NoDraw
    /\ \/ up /\ alive /\ drawing # shown /\ shown' = drawing /\ screen' = drawing
       \/ up /\ ~alive /\ drawing # shown /\ shown' = drawing /\ UNCHANGED screen
       \/ (drawing = shown \/ ~alive) /\ UNCHANGED <<shown, screen>>
    /\ UNCHANGED <<mpv, link, store, watch, scene, refusal, kick, due, past, events>>

-----------------------------------------------------------------------------
(* mpv and its connection                                                  *)

Event == events < MaxEvents /\ events' = events + 1

\* mpvConnected is called: a connection after a drop forgets the one before.
Connect ==
    /\ ~up /\ (Quick => Free)
    /\ up' = TRUE /\ alive' = TRUE /\ sawDown' = FALSE
    /\ callback' = IF sawDown THEN "forget" ELSE "observe"
    /\ again' = sawDown
    /\ UNCHANGED <<screen, file, path, intro, link, store, shown, watch, scene, refusal, loop,
                   covered, held, events>>

\* Mutant: the overlay is taken to survive a restart of mpv.
ForgetNothing ==
    /\ callback = "forget" /\ Free
    /\ callback' = "observe" /\ kick' = TRUE
    /\ UNCHANGED <<up, alive, sawDown, screen, file, path, intro, link, store, shown, watch,
                   scene, refusal, due, drawing, past, events>>

Forget ==
    /\ callback = "forget" /\ Free
    /\ shown' = "blank" /\ kick' = TRUE
    /\ callback' = "observe"
    /\ UNCHANGED <<up, alive, sawDown, screen, file, path, intro, link, store, watch,
                   scene, refusal, due, drawing, past, events>>

\* What mpv reported before it restarted is void.
Observe ==
    /\ callback = "observe"
    /\ path' = "none" /\ callback' = "enter"
    /\ UNCHANGED <<up, alive, sawDown, screen, file, intro, link, store, shown, watch,
                   scene, refusal, loop, past, events>>

Enter ==
    /\ callback = "enter"
    /\ EnterStandby /\ callback' = "done"
    /\ UNCHANGED <<up, alive, sawDown, screen, path, link, store, shown, watch, scene, refusal, loop, past, events>>

\* mpv goes, and its overlay and file with it.
MpvDies ==
    /\ Event /\ alive
    /\ alive' = FALSE /\ screen' = "blank" /\ file' = "none"
    /\ UNCHANGED <<up, sawDown, callback, path, intro, link, store, shown, watch, scene, refusal, loop, past>>

\* The reader, which starts after the callback, finds the connection closed.
LostMpv ==
    /\ up /\ ~alive /\ callback = "done"
    /\ up' = FALSE /\ sawDown' = TRUE
    /\ UNCHANGED <<alive, callback, screen, file, path, intro, link, store, shown, watch, scene, refusal, loop, past, events>>

PathChanged ==
    /\ up /\ alive /\ callback = "done" /\ path # file
    /\ path' = file
    /\ covered' = 0 /\ held' = 0
    /\ UNCHANGED <<up, alive, sawDown, callback, screen, file, intro, link, store, shown,
                   watch, scene, refusal, loop, again, events>>

\* A programme that is not held comes to its end.
FileEnds ==
    /\ file = "programme"
    /\ file' = "none"
    /\ UNCHANGED <<up, alive, sawDown, callback, screen, path, intro, link, store, shown,
                   watch, scene, refusal, loop, past, events>>

-----------------------------------------------------------------------------
(* Cinefin                                                                 *)

Attach ==
    /\ Event /\ paired /\ ~attached
    /\ attached' = TRUE /\ linkAge' = 0 /\ gap' = notice /\ toasts' = 0 /\ refusal' = 0
    /\ kick' = TRUE
    /\ UNCHANGED <<mpv, screen, store, shown, notice, toast, standbyAge, holdAge,
                   scene, due, drawing, past>>

\* Cinefin goes, or is dropped after a restart of mpv or an unpairing.
Detach ==
    /\ Event /\ attached
    /\ attached' = FALSE /\ linkAge' = 0
    /\ kick' = TRUE
    /\ UNCHANGED <<mpv, screen, store, shown, watch, scene, refusal, due, drawing, past>>

\* Cinefin loads a programme, holds it, or lets it go on.
CinefinPlays(f) ==
    /\ Event /\ attached /\ up /\ alive
    /\ f = "hold" => file # "none" /\ file # "ident"
    /\ f # file /\ file' = f
    /\ UNCHANGED <<up, alive, sawDown, callback, screen, path, intro, link, store, shown,
                   watch, scene, refusal, loop, past>>

\* POST /standby.
PostStandby ==
    /\ Event /\ paired /\ up /\ callback = "done"
    /\ EnterStandby
    /\ UNCHANGED <<up, alive, sawDown, callback, path, screen, link, store, shown,
                   watch, scene, refusal, loop, past>>

\* PUT /standby: the loop finds out by itself.
PutStandby ==
    /\ Event /\ paired
    /\ showStatus' = ~showStatus
    /\ UNCHANGED <<mpv, screen, link, paired, request, shown, watch, scene, refusal, loop, past>>

\* Mutant: every request adds to the time the test card has left.
SetTestCardAdds(on) ==
    /\ Event /\ paired /\ Free
    /\ testLeft' = IF on THEN testLeft + TestFor ELSE 0
    /\ kick' = TRUE
    /\ UNCHANGED <<mpv, screen, link, store, shown, watch, key, age, confirm, refusal, due, drawing, past>>

\* setTestCard.
SetTestCard(on) ==
    /\ Event /\ paired /\ Free
    /\ testLeft' = IF on THEN TestFor ELSE 0
    /\ kick' = TRUE
    /\ UNCHANGED <<mpv, screen, link, store, shown, watch, key, age, confirm, refusal, due, drawing, past>>

\* Mutant: the screen is not redrawn for it.
RefuseQuietly ==
    /\ Event
    /\ refusal' = ShowFor
    /\ UNCHANGED <<mpv, screen, link, store, shown, watch, scene, loop, past>>

\* protocolGate: a request, with whatever token, in a protocol out of range.
Refuse ==
    /\ Event
    /\ refusal' = ShowFor
    /\ kick' = TRUE
    /\ UNCHANGED <<mpv, screen, link, store, shown, watch, scene, due, drawing, past>>

\* handlePair: the token, then the refusal is forgotten, and startConfirm.
Pair ==
    /\ Event /\ ~paired /\ request = "none"
    /\ paired' = TRUE /\ request' = "pairing"
    /\ UNCHANGED <<mpv, screen, link, showStatus, shown, watch, scene, refusal, loop, past>>

StartConfirm ==
    /\ request = "pairing" /\ Free
    /\ refusal' = 0 /\ confirm' = 0 /\ kick' = TRUE /\ request' = "none"
    /\ UNCHANGED <<mpv, screen, link, paired, showStatus, shown, watch, key, age, testLeft,
                   due, drawing, past, events>>

\* Unpair: the store, then the test card and the loop.  The restart of mpv is
\* a death like any other.
Unpair ==
    /\ Event /\ paired /\ request = "none"
    /\ paired' = FALSE /\ showStatus' = FALSE /\ request' = "unpairing"
    /\ UNCHANGED <<mpv, screen, link, shown, watch, scene, refusal, loop, past>>

UnpairGoesOn ==
    /\ request = "unpairing" /\ Free
    /\ testLeft' = 0 /\ kick' = TRUE /\ request' = "none"
    /\ UNCHANGED <<mpv, screen, link, paired, showStatus, shown, watch, key, age, confirm,
                   refusal, due, drawing, past, events>>

-----------------------------------------------------------------------------
Older(a, n) == IF a = Never THEN Never ELSE Min({a + 1, n})
Less(n) == IF n > 0 THEN n - 1 ELSE 0

\* Connected, and no scene but the programme's own place is called for.
Plain == up /\ alive /\ paired /\ testLeft = 0 /\ confirm = Never

Covers == Plain /\ path \in {"programme", "hold"} /\ screen # "blank"
Holds  == Plain /\ AwayLong /\ path = "hold" /\ file = "hold"

\* Nothing the agent does takes time, except to wait for mpv.
Tick ==
    /\ Free /\ due > 0 /\ ~kick /\ callback = "done" /\ request = "none"
    /\ due' = due - 1
    /\ age' = IF key \in {"confirm", "link-online"} THEN Older(age, MaxHold + Rest + 1) ELSE age
    /\ linkAge' = IF attached THEN linkAge ELSE Older(linkAge, Grace)
    /\ notice' = Older(notice, Window + 1) /\ toast' = Older(toast, ToastFor)
    /\ standbyAge' = Older(standbyAge, Retry) /\ holdAge' = Older(holdAge, Retry)
    /\ testLeft' = Less(testLeft) /\ intro' = Less(intro) /\ refusal' = Less(refusal)
    /\ covered' = IF Covers THEN covered + 1 ELSE 0
    /\ held' = IF Holds THEN held + 1 ELSE 0
    /\ UNCHANGED <<up, alive, sawDown, callback, file, path, screen, attached, store, shown,
                   gap, toasts, key, confirm, kick, drawing, again, events>>

Loop == RefreshDown \/ Refresh \/ Sends
Callback == Forget \/ Observe \/ Enter
Mpv == Connect \/ MpvDies \/ LostMpv \/ PathChanged \/ FileEnds
Cinefin ==
    \/ Attach \/ Detach \/ PostStandby \/ PutStandby \/ Refuse \/ Pair \/ Unpair
    \/ \E f \in {"programme", "hold"} : CinefinPlays(f)
    \/ \E on \in BOOLEAN : SetTestCard(on)

Next == Loop \/ Callback \/ Mpv \/ Cinefin \/ StartConfirm \/ UnpairGoesOn \/ Tick

Spec == Init /\ [][Next]_vars
=============================================================================
