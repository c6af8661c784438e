----------------------------- MODULE CardProps ------------------------------
(***************************************************************************)
(* What is asked of Card.                                                  *)
(***************************************************************************)
EXTENDS Card

\* What the agent remembers to have drawn is what a living mpv shows, across
\* crashes, reconnections and writes that fail: the overlay is cleared, and
\* left alone, by that memory (card.refresh, clearLocked).
ShownIsOnScreen == (up /\ alive /\ callback = "done") => screen = shown

\* The screen stands still, and the next redraw is some time away.
Still ==
    /\ up /\ alive /\ callback = "done"
    /\ Free /\ ~kick /\ due > 0 /\ request = "none"

\* "after mpv restarts (a restart reloads the ident, so the box waits for the
\* intro again)" (docs/ARCHITECTURE.md): once mpv has restarted no box stays on a
\* screen where the ident's intro runs.
BoxWaitsAgain == (Still /\ again /\ intro > 0) => screen \notin {"box", "box, refused"}

\* "the TV keeps saying which side needs updating" (protocol.go): nothing on the
\* screen says that Cinefin is missing, or asks for the code, without saying that
\* one was refused, however the refusal falls between redraws and scenes.
RefusalIsTold ==
    (Still /\ Refused) => screen \notin {"box", "connecting", "unreachable", "offline"}

\* One return of Cinefin earns one toast.
ToastOnce == toasts <= 1

\* What ends by itself is gone in time: the test card, also on unpair, and the
\* confirmation, which "moves on by now even without Cinefin's link", whenever
\* the link comes up (card_testcard.go, card_confirm.go).
ScenesEnd ==
    Still => /\ testLeft = 0 => screen # "testcard"
             /\ key = "confirm" => age < MaxHold + Rest

\* "Cinefin is showing something: keep off it" (card.go): an overlay that was up
\* when a programme starts is gone with the next redraw, which a toast puts off
\* the longest.
KeepsOffProgramme == covered <= Max({Idle, ToastFor - 2 * ToastFade})

\* "if Cinefin is away for linkGrace and [...] mpv is looping a command hold, the
\* agent ends the loop" (card_link.go), in the next redraw.
HoldEnds == held <= Idle
=============================================================================
