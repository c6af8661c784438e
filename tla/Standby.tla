------------------------------ MODULE Standby ------------------------------
(***************************************************************************)
(* internal/server standby.go and testsound.go, with the parts of card.go, *)
(* card_link.go and control.go that drive them: what the player shows when *)
(* Cinefin plays no programme, the download of the cinema's own ident, the *)
(* test sound, and mpv, which takes its commands from several goroutines   *)
(* and reports its path late.                                              *)
(*                                                                         *)
(* mpv itself is external.  It takes commands in order, has no path while  *)
(* it changes files, and puts its path on the wire when it notices that it *)
(* has changed, so that short-lived values may go unreported.              *)
(*                                                                         *)
(* Left out: the options and titles of a file, the test sound's position,  *)
(* and an ident.File that cannot write the bundled ident.                  *)
(***************************************************************************)
EXTENDS Integers, Sequences

CONSTANTS
    Ident,      \* the cinema's own idents, by checksum
    None,       \* no ident
    System,     \* the bundled System Ident
    Programme,  \* what Cinefin plays
    Tone,       \* the test sound's source
    Nothing,    \* the path while nothing is loaded
    MaxQueue,   \* bound: commands, or reports, on their way at once
    OnePut,     \* whether Cinefin sends one PUT /standby at a time
    Overlap     \* whether calls may overlap: one goroutine may be inside
                \* enterStandby with another, and Cinefin or the host may send
                \* something before the agent is done with what came before

StandbyFile == Ident \cup {System}
File == StandbyFile \cup {Programme, Tone}

ASSUME StandbyConstants ==
    /\ None \notin Ident
    /\ System \notin Ident
    /\ Nothing \notin File
    /\ Programme # Tone
    /\ {Programme, Tone} \cap StandbyFile = {}
    /\ MaxQueue \in Nat \ {0}
    /\ OnePut \in BOOLEAN
    /\ Overlap \in BOOLEAN

VARIABLES
    paired,     \* whether the store has a token
    spec,       \* the ident of the saved standby spec
    puts,       \* the idents PUT /standby has saved and not yet fetched
    files,      \* the idents in the ident directory
    fetching,   \* the ident the download of generation standby.gen fetches
    stale,      \* the idents downloads of earlier generations fetch
    err,        \* whether standby.err is set: the last download failed
    arrived,    \* history: the spec's ident if its download has completed
    switched,   \* history: whether its end found standby showing or about to
                \* show
    path, loaded, pending,   \* the fields of standby
    at, file,   \* where each caller is in enterStandby, and the file it chose
    active, seen,   \* the fields of testSound; seen is read, and kept, only
                \* while active
    claimed,    \* a test sound is being started: it is active, not yet loaded
    timer,      \* the timeout of this test sound is set; one of an earlier, or of
                \* one that has ended, does nothing
    attached,   \* whether Cinefin's control link is up
    up,         \* whether the link to mpv is
    cmds,       \* the files mpv has been told to load and has not taken yet
    playing,    \* mpv's path
    opening,    \* the file mpv is about to play
    reports,    \* the paths mpv has put on the wire
    restartDue  \* Unpair has left a goroutine behind that restarts mpv

store   == <<paired, spec, puts>>
fetch   == <<files, fetching, stale, err, arrived, switched>>
standby == <<path, loaded, pending>>
enter   == <<at, file>>
tone    == <<active, seen, claimed, timer>>
mpv     == <<up, cmds, playing, opening, reports>>
vars    == <<store, fetch, standby, enter, tone, attached, mpv, restartDue>>

\* Who calls enterStandby: mpvConnected, POST /standby, the end of a download,
\* the end of a test sound, and the card's standbyWhenAway.
Caller == {"connect", "post", "fetch", "tone", "card"}

TypeOK ==
    /\ paired \in BOOLEAN /\ spec \in Ident \cup {None} /\ puts \subseteq Ident
    /\ files \subseteq Ident /\ fetching \in Ident \cup {None} /\ stale \subseteq Ident
    /\ err \in BOOLEAN /\ arrived \in Ident \cup {None} /\ switched \in BOOLEAN
    /\ path \in File \cup {Nothing} /\ loaded \in StandbyFile \cup {Nothing}
    /\ pending \in BOOLEAN
    /\ at \in [Caller -> {"out", "asked", "chosen", "recorded"}]
    /\ file \in [Caller -> StandbyFile \cup {Nothing}]
    /\ active \in BOOLEAN /\ seen \in BOOLEAN /\ claimed \in BOOLEAN
    /\ timer \in BOOLEAN
    /\ attached \in BOOLEAN
    /\ up \in BOOLEAN /\ restartDue \in BOOLEAN
    /\ cmds \in Seq(File) /\ Len(cmds) <= MaxQueue
    /\ playing \in File \cup {Nothing} /\ opening \in File \cup {Nothing}
    /\ reports \in Seq(File \cup {Nothing}) /\ Len(reports) <= MaxQueue

Init ==
    /\ paired = FALSE /\ spec = None /\ puts = {}
    /\ files = {} /\ fetching = None /\ stale = {} /\ err = FALSE
    /\ arrived = None /\ switched = FALSE
    /\ path = Nothing /\ loaded = Nothing /\ pending = FALSE
    /\ at = [a \in Caller |-> "out"] /\ file = [a \in Caller |-> Nothing]
    /\ active = FALSE /\ seen = FALSE /\ claimed = FALSE /\ timer = FALSE
    /\ attached = FALSE /\ restartDue = FALSE
    /\ up = FALSE /\ cmds = <<>> /\ playing = Nothing /\ opening = Nothing
    /\ reports = <<>>

-----------------------------------------------------------------------------
OnStandby == path # Nothing /\ path = loaded

ShowingStandby == pending \/ OnStandby

\* Nobody is inside enterStandby or starting a test sound.
Alone == ~claimed /\ \A a \in Caller : at[a] = "out"

\* mpv has done what it was told, and the agent knows.
Settled == cmds = <<>> /\ opening = Nothing /\ reports = <<>> /\ path = playing

Calm == Overlap \/ (Alone /\ Settled)

\* Cinefin, or the host, may send something: no PUT waits for its fetch, no
\* superseded download or restart for its end.
Sends == Calm /\ (Overlap \/ (puts = {} /\ stale = {} /\ ~restartDue))

\* Where a caller holds a file it has not loaded yet.
Inside == {"chosen", "recorded"}

NobodyInside == \A a \in Caller : at[a] \notin Inside

\* Bound: the calls of one kind come one at a time.
Free(a) == at[a] = "out"

Ask(a) == at' = [at EXCEPT ![a] = "asked"] /\ UNCHANGED file

Room == Len(cmds) < MaxQueue

-----------------------------------------------------------------------------
(* enterStandby                                                            *)

\* standbyTarget.
StandbyTarget == IF paired /\ spec \in files THEN spec ELSE System

Chooses(a) ==
    /\ at[a] = "asked" /\ (Overlap \/ NobodyInside)
    /\ at' = [at EXCEPT ![a] = "chosen"]
    /\ file' = [file EXCEPT ![a] = StandbyTarget]
    /\ UNCHANGED <<store, fetch, standby, tone, attached, mpv, restartDue>>

\* Mutant: only the first file loaded is recorded.
RecordsOnce(a) ==
    /\ at[a] = "chosen"
    /\ loaded' = IF loaded = Nothing THEN file[a] ELSE loaded
    /\ pending' = TRUE
    /\ at' = [at EXCEPT ![a] = "recorded"]
    /\ UNCHANGED <<store, fetch, path, file, tone, attached, mpv, restartDue>>

\* Recorded before the loadfile, so mpv cannot report the file first.
Records(a) ==
    /\ at[a] = "chosen"
    /\ loaded' = file[a] /\ pending' = TRUE
    /\ at' = [at EXCEPT ![a] = "recorded"]
    /\ UNCHANGED <<store, fetch, path, file, tone, attached, mpv, restartDue>>

Loads(a) ==
    /\ at[a] = "recorded"
    /\ \/ up /\ Room /\ cmds' = Append(cmds, file[a]) /\ UNCHANGED pending
       \/ ~up /\ pending' = FALSE /\ UNCHANGED cmds
    /\ at' = [at EXCEPT ![a] = "out"]
    /\ file' = [file EXCEPT ![a] = Nothing]
    /\ UNCHANGED <<store, fetch, path, loaded, tone, attached,
                   up, playing, opening, reports, restartDue>>

EnterStandby(a) == Chooses(a) \/ Records(a) \/ Loads(a)

PostStandby ==
    /\ Sends /\ Free("post") /\ paired /\ up
    /\ Ask("post")
    /\ UNCHANGED <<store, fetch, standby, tone, attached, mpv, restartDue>>

-----------------------------------------------------------------------------
(* The ident's download                                                    *)

\* Mutant: its end is decided on mpv's path alone, which lags.
FetchCompletesOnPath(i) ==
    /\ fetching = i /\ i # None /\ Free("fetch")
    /\ files' = {i} /\ fetching' = None /\ err' = FALSE
    /\ arrived' = IF spec = i THEN i ELSE None
    /\ switched' = (spec = i /\ ShowingStandby)
    /\ IF OnStandby THEN Ask("fetch") ELSE UNCHANGED enter
    /\ UNCHANGED <<store, stale, standby, tone, attached, mpv, restartDue>>

\* Mutant: supersedes a download whether there is one or not.
FetchIdentUnchecked(i) ==
    /\ stale' = stale \cup {fetching}
    /\ err' = FALSE
    /\ IF i \in files THEN fetching' = None /\ files' = {i}
                      ELSE fetching' = i /\ UNCHANGED files

\* fetchIdent: the download in flight, if any, is superseded.
FetchIdent(i) ==
    /\ stale' = stale \cup ({fetching} \ {None})
    /\ err' = FALSE
    /\ IF i \in files THEN fetching' = None /\ files' = {i}
                      ELSE fetching' = i /\ UNCHANGED files

\* PUT /standby: the spec is saved ...
PutStandby(i) ==
    /\ Sends /\ paired
    /\ i \notin puts /\ (OnePut => puts = {})
    /\ puts' = puts \cup {i}
    /\ spec' = i /\ arrived' = None /\ switched' = FALSE
    /\ UNCHANGED <<paired, files, fetching, stale, err, standby, enter, tone,
                   attached, mpv, restartDue>>

\* ... and its ident is fetched.
PutFetches(i) ==
    /\ i \in puts
    /\ puts' = puts \ {i}
    /\ FetchIdent(i)
    /\ UNCHANGED <<paired, spec, arrived, switched, standby, enter, tone, attached, mpv,
                   restartDue>>

\* The download is renamed into place, and every other ident removed.
FetchCompletes(i) ==
    /\ fetching = i /\ i # None /\ Free("fetch")
    /\ files' = {i} /\ fetching' = None /\ err' = FALSE
    /\ arrived' = IF spec = i THEN i ELSE None
    /\ switched' = (spec = i /\ ShowingStandby)
    /\ IF ShowingStandby THEN Ask("fetch") ELSE UNCHANGED enter
    /\ UNCHANGED <<store, stale, standby, tone, attached, mpv, restartDue>>

\* No download, or a wrong checksum: what was there is kept.
FetchFails ==
    /\ fetching # None
    /\ fetching' = None /\ err' = TRUE
    /\ UNCHANGED <<store, files, stale, arrived, switched, standby, enter, tone,
                   attached, mpv, restartDue>>

\* Mutant: a superseded download is put in place like any other.
SupersededLands(i) ==
    /\ i \in stale
    /\ stale' = stale \ {i}
    /\ files' = {i} /\ fetching' = None /\ err' = FALSE
    /\ UNCHANGED <<store, arrived, switched, standby, enter, tone, attached, mpv, restartDue>>

\* A superseded download leaves no trace, whether it was cancelled in time or
\* not.
SupersededEnds(i) ==
    /\ i \in stale
    /\ stale' = stale \ {i}
    /\ UNCHANGED <<store, files, fetching, err, arrived, switched, standby, enter, tone,
                    attached, mpv, restartDue>>

-----------------------------------------------------------------------------
(* The test sound                                                          *)

\* reset: the generation moves on, so a timeout already set is an earlier one's.
ToneReset == active' = FALSE /\ seen' = FALSE /\ timer' = FALSE

\* POST /testsound, up to the first command.  The test card, which Cinefin turns
\* on and off as it likes, is on or it is not.
ToneClaims(testCard) ==
    /\ Sends /\ paired /\ up /\ ~claimed
    /\ OnStandby \/ testCard
    /\ ~active
    /\ active' = TRUE /\ seen' = FALSE /\ claimed' = TRUE
    /\ timer' = FALSE
    /\ UNCHANGED <<store, fetch, standby, enter, attached, mpv, restartDue>>

\* The tone is sent to mpv and its timeout set, or mpv is gone.
ToneLoads ==
    /\ claimed /\ claimed' = FALSE
    /\ \/ /\ up /\ Room
          /\ cmds' = Append(cmds, Tone)
          /\ timer' = active
          /\ UNCHANGED <<active, seen>>
       \/ ~up /\ ToneReset /\ UNCHANGED cmds
    /\ UNCHANGED <<store, fetch, standby, enter, attached,
                   up, playing, opening, reports, restartDue>>

\* Mutant: the test sound ends and standby is not entered.
TonePathForgets(p) ==
    /\ seen' = (active /\ p = Tone)
    /\ active' = (active /\ (p = Tone \/ ~seen))
    /\ timer' = (timer /\ active')
    /\ UNCHANGED enter

\* tonePath: the end of the tone returns to standby, another file does not.
TonePath(p) ==
    LET ends == active /\ seen /\ p # Tone IN
    /\ seen' = (active /\ p = Tone)
    /\ active' = (active /\ ~ends)
    /\ timer' = (timer /\ ~ends)
    /\ IF ends /\ p = Nothing THEN Free("tone") /\ Ask("tone") ELSE UNCHANGED enter

\* toneTimedOut.
ToneTimesOut ==
    /\ Calm /\ timer /\ Free("tone")
    /\ ToneReset
    /\ IF path \in {Nothing, Tone} THEN Ask("tone") ELSE UNCHANGED enter
    /\ UNCHANGED <<store, fetch, standby, claimed, attached, mpv, restartDue>>

-----------------------------------------------------------------------------
(* mpv                                                                     *)

\* mpvConnected: what is known of the mpv before is forgotten.  Whether
\* Cinefin is made to reconnect depends on this being a reconnection.
MpvConnects ==
    /\ ~up /\ Free("connect")
    /\ up' = TRUE
    /\ path' = Nothing
    /\ pending' = (pending /\ loaded # Nothing)
    /\ ToneReset
    /\ \/ UNCHANGED attached
       \/ attached' = FALSE
    /\ Ask("connect")
    /\ UNCHANGED <<store, fetch, loaded, claimed,
                   cmds, playing, opening, reports, restartDue>>

MpvDies ==
    /\ up /\ up' = FALSE
    /\ cmds' = <<>> /\ playing' = Nothing /\ opening' = Nothing
    /\ reports' = <<>> /\ restartDue' = FALSE
    /\ UNCHANGED <<store, fetch, standby, enter, tone, attached>>

MpvTakes ==
    /\ up /\ cmds # <<>> /\ opening = Nothing
    /\ opening' = Head(cmds) /\ cmds' = Tail(cmds) /\ playing' = Nothing
    /\ UNCHANGED <<store, fetch, standby, enter, tone, attached,
                   up, reports, restartDue>>

\* An ident removed since it was chosen cannot be opened.
MpvOpens ==
    /\ opening # Nothing
    /\ playing' = IF opening \in Ident \ files THEN Nothing ELSE opening
    /\ opening' = Nothing
    /\ UNCHANGED <<store, fetch, standby, enter, tone, attached,
                   up, cmds, reports, restartDue>>

\* An ident is held for ever.
FileEnds ==
    /\ playing \in {Tone, Programme}
    /\ playing' = Nothing
    /\ \/ UNCHANGED opening
       \/ playing = Programme /\ opening' = Programme
    /\ UNCHANGED <<store, fetch, standby, enter, tone, attached,
                   up, cmds, reports, restartDue>>

LastReport == IF reports = <<>> THEN path ELSE reports[Len(reports)]

MpvReports ==
    /\ up /\ LastReport # playing /\ Len(reports) < MaxQueue
    /\ reports' = Append(reports, playing)
    /\ UNCHANGED <<store, fetch, standby, enter, tone, attached,
                   up, cmds, playing, opening, restartDue>>

\* Mutant: only the standby file itself ends the wait for it.
StillPendingLonger(p) == pending /\ p # loaded

StillPending(p) == pending /\ p # loaded /\ p \in StandbyFile \cup {Nothing}

\* Mutant: no path at all is taken for no news.
PathChangedNullIgnored ==
    /\ reports # <<>> /\ at["connect"] = "out"
    /\ reports' = Tail(reports)
    /\ path' = IF Head(reports) = Nothing THEN path ELSE Head(reports)
    /\ pending' = StillPending(Head(reports))
    /\ TonePath(Head(reports))
    /\ UNCHANGED <<store, fetch, loaded, claimed, attached,
                   up, cmds, playing, opening, restartDue>>

\* pathChanged, on the goroutine that reads from mpv: mpvConnected runs
\* before it starts to read.
PathChanged ==
    /\ reports # <<>> /\ at["connect"] = "out"
    /\ reports' = Tail(reports)
    /\ path' = Head(reports)
    /\ pending' = StillPending(Head(reports))
    /\ TonePath(Head(reports))
    /\ UNCHANGED <<store, fetch, loaded, claimed, attached,
                   up, cmds, playing, opening, restartDue>>

-----------------------------------------------------------------------------
(* Cinefin, the card's redraw, and the process.                            *)

CinefinPlays ==
    /\ Sends /\ attached /\ up /\ Room
    /\ cmds' = Append(cmds, Programme)
    /\ UNCHANGED <<store, fetch, standby, enter, tone, attached,
                   up, playing, opening, reports, restartDue>>

\* Cinefin attaches or detaches.
LinkChanges ==
    /\ attached' = ~attached /\ (attached \/ paired)
    /\ UNCHANGED <<store, fetch, standby, enter, tone, mpv, restartDue>>

\* A redraw with the test card off, not on standby and Cinefin away for
\* linkGrace: time is not kept here, so any absence may have lasted as long.
RedrawAway == up /\ paired /\ ~OnStandby /\ ~attached

StandbyWhenAway ==
    /\ RedrawAway /\ Calm /\ Free("card")
    /\ path = Nothing
    /\ Ask("card")
    /\ UNCHANGED <<store, fetch, standby, tone, attached, mpv, restartDue>>

Pairs ==
    /\ ~paired /\ paired' = TRUE
    /\ UNCHANGED <<spec, puts, fetch, standby, enter, tone, attached, mpv, restartDue>>

\* Unpair; the restart it starts in the background follows.
Unpair ==
    /\ Sends /\ paired
    /\ paired' = FALSE /\ spec' = None /\ arrived' = None /\ switched' = FALSE
    /\ attached' = FALSE
    /\ ToneReset
    /\ restartDue' = up
    /\ UNCHANGED <<puts, files, fetching, stale, err, standby, enter, claimed, mpv>>

\* The agent starts again, and mpv with it; resumeStandby resumes the download.
AgentRestarts ==
    /\ up' = FALSE /\ cmds' = <<>> /\ playing' = Nothing /\ opening' = Nothing
    /\ reports' = <<>> /\ restartDue' = FALSE
    /\ path' = Nothing /\ loaded' = Nothing /\ pending' = FALSE
    /\ at' = [a \in Caller |-> "out"] /\ file' = [a \in Caller |-> Nothing]
    /\ active' = FALSE /\ seen' = FALSE /\ claimed' = FALSE /\ timer' = FALSE
    /\ attached' = FALSE
    /\ puts' = {}
    /\ stale' = {} /\ err' = FALSE
    /\ IF spec = None \/ spec \in files THEN fetching' = None ELSE fetching' = spec
    /\ files' = IF spec \in files THEN {spec} ELSE files
    /\ UNCHANGED <<paired, spec, arrived, switched>>

-----------------------------------------------------------------------------
Mpv == \/ MpvConnects \/ MpvDies \/ MpvTakes \/ MpvOpens \/ FileEnds
       \/ MpvReports \/ PathChanged

Downloads == \E i \in Ident : \/ PutStandby(i) \/ PutFetches(i)
                              \/ FetchCompletes(i) \/ SupersededEnds(i)

TestSound == (\E on \in BOOLEAN : ToneClaims(on)) \/ ToneLoads \/ ToneTimesOut

Next ==
    \/ \E a \in Caller : EnterStandby(a)
    \/ PostStandby
    \/ Downloads \/ FetchFails
    \/ TestSound
    \/ Mpv
    \/ StandbyWhenAway
    \/ CinefinPlays \/ LinkChanges
    \/ Pairs \/ Unpair \/ AgentRestarts

Spec == Init /\ [][Next]_vars

\* mpv does what it is told and reports it, goroutines that can run do, the
\* tone comes to its end, and the card is redrawn again and again.
Fairness ==
    /\ WF_vars(MpvTakes \/ MpvOpens \/ MpvReports)
    /\ SF_vars(PathChanged)
    /\ WF_vars(playing = Tone /\ FileEnds)
    /\ WF_vars(ToneLoads \/ \E a \in Caller : EnterStandby(a))
    /\ SF_vars(ToneTimesOut)
    /\ SF_vars(StandbyWhenAway)
    /\ WF_vars(restartDue /\ MpvDies)

FairSpec == Spec /\ Fairness
=============================================================================
