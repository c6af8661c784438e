---------------------------- MODULE StandbyProps ----------------------------
(***************************************************************************)
(* What is asked of Standby.                                               *)
(***************************************************************************)
EXTENDS Standby

\* Nothing is on its way to or from mpv, or about to be.
Quiet == up /\ Alone /\ Settled

\* The agent knows when mpv is on standby, and is not wrong about it: "The
\* agent is on standby when path is the file it last loaded for standby"
\* (docs/ARCHITECTURE.md), whichever goroutines loaded it.
OnStandbyTruth == Quiet => (OnStandby <=> playing \in StandbyFile)

\* Once mpv has reported a programme, the end of a download does not take the
\* player for being on standby, also when the programme followed a standby
\* file that mpv never reported.
ProgrammeSafe == (Quiet /\ playing = Programme) => ~ShowingStandby

\* "On standby with the previous ident, or about to be: show the new one"
\* (standby.go): an ident whose download ends while the agent shows standby, or
\* waits for it, is the one shown from then on, whatever mpv had reported and
\* whoever was inside enterStandby with another file at the time.
NewIdentSwitched == (Quiet /\ playing \in StandbyFile /\ switched) => playing = arrived

\* The ident directory holds the ident of the last spec, and only that, unless
\* it is about to be fetched, or its download goes on or has failed: no
\* superseded download, repeated spec or restart, between the save and the
\* download included, takes it away.
IdentKept == (spec # None /\ puts = {} /\ fetching = None /\ ~err) => files = {spec}

\* A test sound the agent follows gives the screen back: standby or what Cinefin
\* plays is shown next, or opened, however its end is told and whichever timer
\* is late (testsound.go).  A standby file may be pruned before mpv opens it.
SoundGivesBack ==
    (playing = Tone /\ active) ~>
        ({playing, opening} \cap (StandbyFile \cup {Programme}) # {} \/ ~up)

\* With Cinefin away for linkGrace, a player with nothing on its screen goes
\* to standby.
Away == up /\ paired /\ ~attached

AwayReturns == (Away /\ playing = Nothing) ~> (playing # Nothing \/ ~Away)

\* The end of a test sound does not take the screen from a programme: "another
\* file means Cinefin loaded something, and the agent leaves it alone"
\* (docs/ARCHITECTURE.md).
SoundLeavesProgramme ==
    [][(at["tone"] = "out" /\ at'["tone"] = "asked") => Programme \notin {playing, opening}]_vars
=============================================================================
