---------------------------- MODULE StandbyProofs ----------------------------
(***************************************************************************)
(* What is proved of Standby, for any set of idents and any number of      *)
(* commands and reports on their way.                                      *)
(***************************************************************************)
EXTENDS StandbyProps, SequenceTheorems, TLAPS

-----------------------------------------------------------------------------
(* The ident directory.                                                    *)

\* IdentKept says nothing of a download that goes on, nor of a PUT between its
\* save and its fetch; this does: each is about the ident of the spec, if there
\* is one, so its end establishes IdentKept.
FetchesSpec == spec # None /\ puts = {} /\ fetching # None => fetching = spec

PutIsSpec == \A i \in puts : puts = {i} /\ spec \in {i, None}

IdentInv == IdentKept /\ FetchesSpec /\ PutIsSpec

LEMMA IdentInit == Init => IdentInv
BY DEF Init, IdentInv, IdentKept, FetchesSpec, PutIsSpec

\* The steps that touch neither the spec nor the download.
IdentVars == <<spec, puts, fetching, files, err>>

LEMMA IdentUntouched == IdentInv /\ UNCHANGED IdentVars => IdentInv'
BY DEF IdentInv, IdentKept, FetchesSpec, PutIsSpec, IdentVars

LEMMA DownloadsKeepIdent ==
    ASSUME OnePut, IdentInv, Downloads \/ FetchFails
    PROVE  IdentInv'
<1> USE StandbyConstants DEF IdentInv, IdentKept, FetchesSpec, PutIsSpec, store
<1>1. ASSUME NEW i \in Ident, PutStandby(i) PROVE IdentInv'
  BY <1>1 DEF PutStandby
<1>2. ASSUME NEW i \in Ident, FetchCompletes(i) PROVE IdentInv'
  BY <1>2 DEF FetchCompletes
<1>3. ASSUME NEW i \in Ident, SupersededEnds(i) PROVE IdentInv'
  BY <1>3 DEF SupersededEnds
<1>4. CASE FetchFails
  BY <1>4 DEF FetchFails
<1>5. ASSUME NEW i \in Ident, PutFetches(i) PROVE IdentInv'
  BY <1>5 DEF PutFetches, FetchIdent
<1> QED BY <1>1, <1>2, <1>3, <1>4, <1>5 DEF Downloads

LEMMA RestartKeepsIdent == IdentInv /\ (Unpair \/ AgentRestarts) => IdentInv'
BY DEF IdentInv, IdentKept, FetchesSpec, PutIsSpec, Unpair, AgentRestarts, store

LEMMA OthersLeaveIdent ==
    ASSUME [Next]_vars, ~Downloads, ~FetchFails, ~Unpair, ~AgentRestarts
    PROVE  UNCHANGED IdentVars
<1> USE DEF IdentVars, store, fetch
<1>1. ASSUME NEW a \in Caller, EnterStandby(a) PROVE UNCHANGED IdentVars
  BY <1>1 DEF EnterStandby, Chooses, Records, Loads
<1>2. CASE PostStandby  BY <1>2 DEF PostStandby
<1>3. CASE TestSound
  BY <1>3 DEF TestSound, ToneClaims, ToneLoads, ToneTimesOut
<1>4. CASE Mpv
  BY <1>4 DEF Mpv, MpvConnects, MpvDies, MpvTakes, MpvOpens, FileEnds, MpvReports,
              PathChanged
<1>5. CASE StandbyWhenAway \/ CinefinPlays \/ LinkChanges \/ Pairs
  BY <1>5 DEF StandbyWhenAway, CinefinPlays, LinkChanges, Pairs
<1>6. CASE UNCHANGED vars  BY <1>6 DEF vars
<1> QED BY <1>1, <1>2, <1>3, <1>4, <1>5, <1>6 DEF Next

\* When Cinefin sends one PUT at a time, and whichever other calls overlap, no
\* superseded download, repeated spec or restart takes the ident of the last
\* spec away, or leaves another beside it (standby.go, fetchIdent,
\* downloadIdent, pruneIdents).
THEOREM IdentIsKept == OnePut => (Spec => []IdentKept)
<1> SUFFICES ASSUME OnePut PROVE Spec => []IdentKept
  OBVIOUS
<1>1. IdentInv /\ [Next]_vars => IdentInv'
  BY IdentUntouched, DownloadsKeepIdent, RestartKeepsIdent, OthersLeaveIdent
<1>2. IdentInv => IdentKept
  BY DEF IdentInv
<1> QED BY IdentInit, <1>1, <1>2, PTL DEF Spec

-----------------------------------------------------------------------------
(* Type correctness.  What mpv is told to load must be a file: the one a   *)
(* caller has chosen, until it has loaded it.                              *)

FileChosen == \A a \in Caller : at[a] \in {"chosen", "recorded"} => file[a] \in StandbyFile

FetchTyped ==
    /\ paired \in BOOLEAN /\ spec \in Ident \cup {None} /\ puts \subseteq Ident
    /\ files \subseteq Ident /\ fetching \in Ident \cup {None} /\ stale \subseteq Ident
    /\ err \in BOOLEAN /\ arrived \in Ident \cup {None} /\ switched \in BOOLEAN

ScreenTyped ==
    /\ path \in File \cup {Nothing} /\ loaded \in StandbyFile \cup {Nothing}
    /\ pending \in BOOLEAN

EnterTyped ==
    /\ at \in [Caller -> {"out", "asked", "chosen", "recorded"}]
    /\ file \in [Caller -> StandbyFile \cup {Nothing}]
    /\ FileChosen

ToneTyped ==
    /\ active \in BOOLEAN /\ seen \in BOOLEAN /\ claimed \in BOOLEAN
    /\ timer \in BOOLEAN

MpvTyped ==
    /\ attached \in BOOLEAN /\ up \in BOOLEAN /\ restartDue \in BOOLEAN
    /\ cmds \in Seq(File) /\ Len(cmds) <= MaxQueue
    /\ playing \in File \cup {Nothing} /\ opening \in File \cup {Nothing}
    /\ reports \in Seq(File \cup {Nothing}) /\ Len(reports) <= MaxQueue

TypeInv == FetchTyped /\ ScreenTyped /\ EnterTyped /\ ToneTyped /\ MpvTyped

MpvVars == <<attached, restartDue, mpv>>

LEMMA FetchSame == FetchTyped /\ UNCHANGED <<store, fetch>> => FetchTyped'
BY DEF FetchTyped, store, fetch

LEMMA ScreenSame == ScreenTyped /\ UNCHANGED standby => ScreenTyped'
BY DEF ScreenTyped, standby

LEMMA EnterSame == EnterTyped /\ UNCHANGED enter => EnterTyped'
BY DEF EnterTyped, FileChosen, enter

LEMMA ToneSame == ToneTyped /\ UNCHANGED tone => ToneTyped'
BY DEF ToneTyped, tone

LEMMA MpvSame == MpvTyped /\ UNCHANGED MpvVars => MpvTyped'
BY DEF MpvTyped, MpvVars, mpv

LEMMA AskTyped ==
    ASSUME EnterTyped, NEW a \in Caller, Ask(a)
    PROVE  EnterTyped'
BY DEF EnterTyped, FileChosen, Ask

\* A queue of commands or reports under its bound takes one more, and gives
\* its first.
LEMMA QueueTyped ==
    ASSUME NEW S, NEW q \in Seq(S), Len(q) <= MaxQueue
    PROVE  /\ \A x \in S : Len(q) < MaxQueue =>
                  Append(q, x) \in Seq(S) /\ Len(Append(q, x)) <= MaxQueue
           /\ q # <<>> => /\ Tail(q) \in Seq(S) /\ Len(Tail(q)) <= MaxQueue
                          /\ Head(q) \in S
<1> USE StandbyConstants
<1>1. \A x \in S : Len(q) < MaxQueue =>
          Append(q, x) \in Seq(S) /\ Len(Append(q, x)) <= MaxQueue
  OBVIOUS
<1>2. q # <<>> => /\ Tail(q) \in Seq(S) /\ Len(Tail(q)) <= MaxQueue
                  /\ Head(q) \in S
  OBVIOUS
<1> QED BY <1>1, <1>2

LEMMA EnterStandbyTyped ==
    ASSUME TypeInv, NEW a \in Caller, EnterStandby(a)
    PROVE  TypeInv'
<1> USE DEF TypeInv
<1>1. CASE Chooses(a)
  <2>1. EnterTyped'
    BY <1>1 DEF Chooses, StandbyTarget, EnterTyped, FetchTyped, FileChosen, StandbyFile
  <2> QED BY <1>1, <2>1, FetchSame, ScreenSame, ToneSame, MpvSame DEF Chooses, MpvVars
<1>2. CASE Records(a)
  <2>1. EnterTyped'
    BY <1>2 DEF Records, EnterTyped, FileChosen
  <2>2. ScreenTyped'
    BY <1>2 DEF Records, EnterTyped, ScreenTyped
  <2> QED BY <1>2, <2>1, <2>2, FetchSame, ToneSame, MpvSame DEF Records, MpvVars
<1>3. CASE Loads(a)
  <2>1. EnterTyped'
    BY <1>3 DEF Loads, EnterTyped, FileChosen
  <2>2. ScreenTyped'
    BY <1>3 DEF Loads, ScreenTyped
  <2>3. file[a] \in File
    BY <1>3 DEF Loads, EnterTyped, FileChosen, File
  <2>4. cmds' \in Seq(File) /\ Len(cmds') <= MaxQueue
    BY <1>3, <2>3, QueueTyped DEF Loads, Room, MpvTyped
  <2>5. MpvTyped'
    BY <1>3, <2>4 DEF Loads, MpvTyped
  <2> QED BY <1>3, <2>1, <2>2, <2>5, FetchSame, ToneSame DEF Loads
<1> QED BY <1>1, <1>2, <1>3 DEF EnterStandby

LEMMA DownloadsTyped ==
    ASSUME TypeInv, Downloads \/ FetchFails
    PROVE  TypeInv'
<1> USE DEF TypeInv
<1>1. ASSUME NEW i \in Ident, PutStandby(i) PROVE TypeInv'
  <2>1. FetchTyped'  BY <1>1 DEF PutStandby, FetchTyped
  <2> QED BY <1>1, <2>1, ScreenSame, EnterSame, ToneSame, MpvSame DEF PutStandby, MpvVars
<1>2. ASSUME NEW i \in Ident, PutFetches(i) PROVE TypeInv'
  <2>1. FetchTyped'  BY <1>2 DEF PutFetches, FetchIdent, FetchTyped
  <2> QED BY <1>2, <2>1, ScreenSame, EnterSame, ToneSame, MpvSame DEF PutFetches, MpvVars
<1>3. ASSUME NEW i \in Ident, FetchCompletes(i) PROVE TypeInv'
  <2>1. FetchTyped'  BY <1>3 DEF FetchCompletes, FetchTyped, store
  <2>2. EnterTyped'
    BY <1>3, AskTyped, EnterSame DEF FetchCompletes, Caller
  <2> QED BY <1>3, <2>1, <2>2, ScreenSame, ToneSame, MpvSame DEF FetchCompletes, MpvVars
<1>4. ASSUME NEW i \in Ident, SupersededEnds(i) PROVE TypeInv'
  <2>1. FetchTyped'  BY <1>4 DEF SupersededEnds, FetchTyped, store
  <2> QED BY <1>4, <2>1, ScreenSame, EnterSame, ToneSame, MpvSame DEF SupersededEnds, MpvVars
<1>5. CASE FetchFails
  <2>1. FetchTyped'  BY <1>5 DEF FetchFails, FetchTyped, store
  <2> QED BY <1>5, <2>1, ScreenSame, EnterSame, ToneSame, MpvSame DEF FetchFails, MpvVars
<1> QED BY <1>1, <1>2, <1>3, <1>4, <1>5 DEF Downloads

LEMMA TestSoundTyped ==
    ASSUME TypeInv, TestSound
    PROVE  TypeInv'
<1> USE DEF TypeInv
<1>1. ASSUME NEW on \in BOOLEAN, ToneClaims(on) PROVE TypeInv'
  <2>1. ToneTyped'  BY <1>1 DEF ToneClaims, ToneTyped
  <2> QED BY <1>1, <2>1, FetchSame, ScreenSame, EnterSame, MpvSame DEF ToneClaims, MpvVars
<1>2. CASE ToneLoads
  <2>1. ToneTyped'  BY <1>2 DEF ToneLoads, ToneReset, ToneTyped
  <2>2. cmds' \in Seq(File) /\ Len(cmds') <= MaxQueue
    <3>1. Tone \in File  BY DEF File
    <3> QED BY <1>2, <3>1, QueueTyped DEF ToneLoads, Room, MpvTyped
  <2>3. MpvTyped'  BY <1>2, <2>2 DEF ToneLoads, MpvTyped
  <2> QED BY <1>2, <2>1, <2>3, FetchSame, ScreenSame, EnterSame DEF ToneLoads
<1>3. CASE ToneTimesOut
  <2>1. ToneTyped'  BY <1>3 DEF ToneTimesOut, ToneReset, ToneTyped
  <2>2. EnterTyped'
    BY <1>3, AskTyped, EnterSame DEF ToneTimesOut, Caller
  <2> QED BY <1>3, <2>1, <2>2, FetchSame, ScreenSame, MpvSame DEF ToneTimesOut, MpvVars
<1> QED BY <1>1, <1>2, <1>3 DEF TestSound

LEMMA PathChangedTyped ==
    ASSUME TypeInv, PathChanged
    PROVE  TypeInv'
<1> USE DEF TypeInv
<1> DEFINE p == Head(reports)
<1>1. /\ reports' \in Seq(File \cup {Nothing}) /\ Len(reports') <= MaxQueue
      /\ p \in File \cup {Nothing}
  BY QueueTyped DEF PathChanged, MpvTyped
<1>2. MpvTyped'  BY <1>1 DEF PathChanged, MpvTyped
<1>3. pending' \in BOOLEAN
  <2>1. pending' = (pending /\ p # loaded /\ p \in StandbyFile \cup {Nothing})
    BY DEF PathChanged, StillPending
  <2> QED BY <2>1
<1>4. ScreenTyped'
  BY <1>1, <1>3 DEF PathChanged, ScreenTyped
<1>5. ToneTyped'
  <2>1. /\ seen' = (active /\ p = Tone)
        /\ active' = (active /\ ~(active /\ seen /\ p # Tone))
        /\ timer' = (timer /\ ~(active /\ seen /\ p # Tone))
        /\ claimed' = claimed
    BY DEF PathChanged, TonePath
  <2>2. seen' \in BOOLEAN /\ active' \in BOOLEAN /\ timer' \in BOOLEAN
    BY <2>1
  <2> QED BY <2>1, <2>2 DEF ToneTyped
<1>6. EnterTyped'
  <2>1. Ask("tone") \/ UNCHANGED enter
    BY DEF PathChanged, TonePath
  <2> QED BY <2>1, AskTyped, EnterSame DEF Caller
<1> QED BY <1>2, <1>4, <1>5, <1>6, FetchSame DEF PathChanged, fetch

LEMMA MpvStepTyped ==
    ASSUME TypeInv, Mpv
    PROVE  TypeInv'
<1> USE DEF TypeInv
<1>1. CASE MpvConnects
  <2>1. ScreenTyped'
    <3>1. pending' = (pending /\ loaded # Nothing)  BY <1>1 DEF MpvConnects
    <3>2. pending' \in BOOLEAN  BY <3>1
    <3> QED BY <1>1, <3>2 DEF MpvConnects, ScreenTyped
  <2>2. ToneTyped'  BY <1>1 DEF MpvConnects, ToneReset, ToneTyped
  <2>3. EnterTyped'  BY <1>1, AskTyped DEF MpvConnects, Caller
  <2>4. MpvTyped'  BY <1>1 DEF MpvConnects, MpvTyped
  <2> QED BY <1>1, <2>1, <2>2, <2>3, <2>4, FetchSame DEF MpvConnects
<1>2. CASE MpvDies
  <2>1. cmds' \in Seq(File) /\ reports' \in Seq(File \cup {Nothing})
    BY <1>2 DEF MpvDies
  <2>2. Len(cmds') <= MaxQueue /\ Len(reports') <= MaxQueue
    BY <1>2, StandbyConstants DEF MpvDies
  <2>3. up' \in BOOLEAN /\ restartDue' \in BOOLEAN
    BY <1>2 DEF MpvDies
  <2>4. MpvTyped'  BY <1>2, <2>1, <2>2, <2>3 DEF MpvDies, MpvTyped
  <2> QED BY <1>2, <2>4, FetchSame, ScreenSame, EnterSame, ToneSame DEF MpvDies
<1>3. CASE MpvTakes
  <2>1. /\ cmds' \in Seq(File) /\ Len(cmds') <= MaxQueue
        /\ opening' \in File
    BY <1>3, QueueTyped DEF MpvTakes, MpvTyped
  <2>2. MpvTyped'  BY <1>3, <2>1 DEF MpvTakes, MpvTyped
  <2> QED BY <1>3, <2>2, FetchSame, ScreenSame, EnterSame, ToneSame DEF MpvTakes
<1>4. CASE MpvOpens
  <2>1. MpvTyped'  BY <1>4 DEF MpvOpens, MpvTyped
  <2> QED BY <1>4, <2>1, FetchSame, ScreenSame, EnterSame, ToneSame DEF MpvOpens
<1>5. CASE FileEnds
  <2>1. MpvTyped'  BY <1>5 DEF FileEnds, MpvTyped, File
  <2> QED BY <1>5, <2>1, FetchSame, ScreenSame, EnterSame, ToneSame DEF FileEnds
<1>6. CASE MpvReports
  <2>1. reports' \in Seq(File \cup {Nothing}) /\ Len(reports') <= MaxQueue
    BY <1>6, QueueTyped DEF MpvReports, MpvTyped
  <2>2. MpvTyped'  BY <1>6, <2>1 DEF MpvReports, MpvTyped
  <2> QED BY <1>6, <2>2, FetchSame, ScreenSame, EnterSame, ToneSame DEF MpvReports
<1>7. CASE PathChanged  BY <1>7, PathChangedTyped
<1> QED BY <1>1, <1>2, <1>3, <1>4, <1>5, <1>6, <1>7 DEF Mpv

LEMMA CinefinTyped ==
    ASSUME TypeInv, PostStandby \/ StandbyWhenAway \/ CinefinPlays \/ LinkChanges \/ Pairs \/ Unpair
    PROVE  TypeInv'
<1> USE DEF TypeInv
<1>1. CASE PostStandby
  <2>1. EnterTyped'  BY <1>1, AskTyped DEF PostStandby, Caller
  <2> QED BY <1>1, <2>1, FetchSame, ScreenSame, ToneSame, MpvSame DEF PostStandby, MpvVars
<1>2. CASE StandbyWhenAway
  <2>1. EnterTyped'  BY <1>2, AskTyped DEF StandbyWhenAway, Caller
  <2> QED BY <1>2, <2>1, FetchSame, ScreenSame, ToneSame, MpvSame DEF StandbyWhenAway, MpvVars
<1>3. CASE CinefinPlays
  <2>1. cmds' \in Seq(File) /\ Len(cmds') <= MaxQueue
    <3>1. Programme \in File  BY DEF File
    <3> QED BY <1>3, <3>1, QueueTyped DEF CinefinPlays, Room, MpvTyped
  <2>2. MpvTyped'  BY <1>3, <2>1 DEF CinefinPlays, MpvTyped
  <2> QED BY <1>3, <2>2, FetchSame, ScreenSame, EnterSame, ToneSame DEF CinefinPlays
<1>4. CASE LinkChanges
  <2>1. attached' \in BOOLEAN  BY <1>4 DEF LinkChanges
  <2>2. MpvTyped'  BY <1>4, <2>1 DEF LinkChanges, MpvTyped, mpv
  <2> QED BY <1>4, <2>2, FetchSame, ScreenSame, EnterSame, ToneSame DEF LinkChanges
<1>5. CASE Pairs
  <2>1. FetchTyped'  BY <1>5 DEF Pairs, FetchTyped, fetch
  <2> QED BY <1>5, <2>1, ScreenSame, EnterSame, ToneSame, MpvSame DEF Pairs, MpvVars
<1>6. CASE Unpair
  <2>1. FetchTyped'  BY <1>6 DEF Unpair, FetchTyped
  <2>2. ToneTyped'  BY <1>6 DEF Unpair, ToneReset, ToneTyped
  <2>3. MpvTyped'  BY <1>6 DEF Unpair, MpvTyped, mpv
  <2> QED BY <1>6, <2>1, <2>2, <2>3, ScreenSame, EnterSame DEF Unpair
<1> QED BY <1>1, <1>2, <1>3, <1>4, <1>5, <1>6

\* A fresh agent has nothing under way and nothing on its queues.
Fresh ==
    /\ at = [a \in Caller |-> "out"] /\ file = [a \in Caller |-> Nothing]
    /\ cmds = <<>> /\ reports = <<>> /\ playing = Nothing /\ opening = Nothing
    /\ attached = FALSE /\ up = FALSE /\ restartDue = FALSE
    /\ path = Nothing /\ loaded = Nothing /\ pending = FALSE
    /\ active = FALSE /\ seen = FALSE /\ claimed = FALSE /\ timer = FALSE

LEMMA FreshTyped == Fresh => ScreenTyped /\ EnterTyped /\ ToneTyped /\ MpvTyped
<1> SUFFICES ASSUME Fresh PROVE ScreenTyped /\ EnterTyped /\ ToneTyped /\ MpvTyped
  OBVIOUS
<1>1. ScreenTyped  BY DEF Fresh, ScreenTyped
<1>2. EnterTyped  BY DEF Fresh, EnterTyped, FileChosen
<1>3. ToneTyped  BY DEF Fresh, ToneTyped
<1>4. MpvTyped
  <2>1. cmds \in Seq(File) /\ reports \in Seq(File \cup {Nothing})
    BY DEF Fresh
  <2>2. Len(cmds) <= MaxQueue /\ Len(reports) <= MaxQueue
    BY StandbyConstants DEF Fresh
  <2>3. attached \in BOOLEAN /\ up \in BOOLEAN /\ restartDue \in BOOLEAN
    BY DEF Fresh
  <2> QED BY <2>1, <2>2, <2>3 DEF Fresh, MpvTyped
<1> QED BY <1>1, <1>2, <1>3, <1>4

LEMMA RestartTyped ==
    ASSUME TypeInv, AgentRestarts
    PROVE  TypeInv'
<1>1. Fresh'  BY DEF AgentRestarts, Fresh
<1>2. (ScreenTyped /\ EnterTyped /\ ToneTyped /\ MpvTyped)'
  BY <1>1, FreshTyped, PTL
<1>3. FetchTyped'  BY DEF AgentRestarts, TypeInv, FetchTyped
<1> QED BY <1>2, <1>3 DEF TypeInv

LEMMA InitTyped == Init => TypeInv
<1>1. Init => Fresh  BY DEF Init, Fresh
<1>2. Init => FetchTyped  BY DEF Init, FetchTyped
<1> QED BY <1>1, <1>2, FreshTyped DEF TypeInv

LEMMA TypeStep == TypeInv /\ [Next]_vars => TypeInv'
<1> SUFFICES ASSUME TypeInv, [Next]_vars PROVE TypeInv'
  OBVIOUS
<1>1. CASE UNCHANGED vars
  BY <1>1, FetchSame, ScreenSame, EnterSame, ToneSame, MpvSame DEF vars, TypeInv, MpvVars
<1> QED
  BY <1>1, EnterStandbyTyped, DownloadsTyped, TestSoundTyped, MpvStepTyped, CinefinTyped,
     RestartTyped DEF Next

\* Whatever overlaps: what mpv is told to load is always a file, neither queue
\* overflows, and an ident directory, a spec and a download hold idents
\* (standby.go, testsound.go).
THEOREM TypeCorrect == Spec => []TypeOK
<1>1. TypeInv => TypeOK
  BY DEF TypeInv, FetchTyped, ScreenTyped, EnterTyped, ToneTyped, MpvTyped, TypeOK
<1> QED BY <1>1, InitTyped, TypeStep, PTL DEF Spec

-----------------------------------------------------------------------------
(* The standby file that mpv comes to.                                     *)

\* Of the standby files that wait in queue q, are opened (o) or play (p), the
\* last to come is f, or there is none.
LastIn(q, o, p, f) ==
    \/ \E k \in DOMAIN q :
          q[k] = f /\ \A j \in DOMAIN q : j > k => q[j] \notin StandbyFile
    \/ /\ \A j \in DOMAIN q : q[j] \notin StandbyFile
       /\ o \in StandbyFile => o = f
       /\ p \in StandbyFile => p = f

LEMMA AppendedQueue ==
    ASSUME NEW S, NEW q \in Seq(S), NEW x \in S
    PROVE  /\ DOMAIN Append(q, x) = DOMAIN q \cup {Len(q) + 1}
           /\ \A j \in DOMAIN q : Append(q, x)[j] = q[j] /\ j \in 1 .. Len(q)
           /\ Append(q, x)[Len(q) + 1] = x
           /\ Append(q, x) # <<>>
           /\ Len(q) \in Nat
OBVIOUS

LEMMA TailOfQueue ==
    ASSUME NEW S, NEW q \in Seq(S), q # <<>>
    PROVE  /\ \/ Tail(q) = <<>> /\ Head(q) = q[Len(q)]
              \/ Tail(q) # <<>> /\ Tail(q)[Len(Tail(q))] = q[Len(q)]
           /\ \A i \in DOMAIN Tail(q) : i + 1 \in DOMAIN q /\ Tail(q)[i] = q[i + 1]
           /\ 1 \in DOMAIN q /\ Head(q) = q[1]
<1>1. \A i \in DOMAIN Tail(q) : i + 1 \in DOMAIN q /\ Tail(q)[i] = q[i + 1]
  OBVIOUS
<1>2. 1 \in DOMAIN q /\ Head(q) = q[1]
  OBVIOUS
<1>3. /\ Len(q) \in Nat \ {0}
      /\ Tail(q) \in Seq(S) /\ Len(Tail(q)) = Len(q) - 1
  BY EmptySeq, HeadTailProperties
<1>4. CASE Len(q) = 1
  <2>1. Len(Tail(q)) = 0  BY <1>3, <1>4
  <2>2. Tail(q) # <<>> => Len(Tail(q)) \in Nat \ {0}  BY <1>3, EmptySeq, Zenon
  <2>3. Tail(q) = <<>>  BY <2>1, <2>2
  <2> QED BY <1>1, <1>2, <1>4, <2>3
<1>5. CASE Len(q) > 1
  <2>1. Len(Tail(q)) # 0  BY <1>3, <1>5
  <2>2. Len(<<>>) = 0  BY EmptySeq, Zenon
  <2>3. Tail(q) # <<>>  BY <2>1, <2>2, Zenon
  <2>4. Tail(q)[Len(Tail(q))] = q[Len(q)]  BY <1>3, <1>5
  <2> QED BY <1>1, <1>2, <2>3, <2>4
<1> QED BY <1>3, <1>4, <1>5

LEMMA LastLoaded ==
    ASSUME NEW q \in Seq(File), NEW o, NEW p, NEW f \in File
    PROVE  LastIn(Append(q, f), o, p, f)
<1> DEFINE k == Len(q) + 1
<1>1. k \in DOMAIN Append(q, f) /\ Append(q, f)[k] = f
  BY AppendedQueue
<1>2. \A j \in DOMAIN Append(q, f) : ~(j > k)
  BY AppendedQueue
<1> QED BY <1>1, <1>2 DEF LastIn

LEMMA LastBehind ==
    ASSUME NEW q \in Seq(File), NEW o, NEW p, NEW f, NEW x \in File, x \notin StandbyFile,
           LastIn(q, o, p, f)
    PROVE  LastIn(Append(q, x), o, p, f)
<1> DEFINE r == Append(q, x)
<1>1. /\ DOMAIN r = DOMAIN q \cup {Len(q) + 1} /\ r[Len(q) + 1] \notin StandbyFile
      /\ \A j \in DOMAIN q : r[j] = q[j]
  BY AppendedQueue
<1> HIDE DEF r
<1>2. CASE \E k \in DOMAIN q :
              q[k] = f /\ \A j \in DOMAIN q : j > k => q[j] \notin StandbyFile
  <2>1. PICK k \in DOMAIN q :
              q[k] = f /\ \A j \in DOMAIN q : j > k => q[j] \notin StandbyFile
    BY <1>2
  <2>2. k \in DOMAIN r /\ r[k] = f /\ \A j \in DOMAIN r : j > k => r[j] \notin StandbyFile
    BY <1>1, <2>1
  <2>3. LastIn(r, o, p, f)  BY <2>2 DEF LastIn
  <2> QED BY <2>3 DEF r
<1>3. CASE /\ \A j \in DOMAIN q : q[j] \notin StandbyFile
           /\ o \in StandbyFile => o = f
           /\ p \in StandbyFile => p = f
  <2>1. \A j \in DOMAIN r : r[j] \notin StandbyFile  BY <1>1, <1>3
  <2>2. LastIn(r, o, p, f)  BY <1>3, <2>1 DEF LastIn
  <2> QED BY <2>2 DEF r
<1> QED BY <1>2, <1>3 DEF LastIn

\* The queue without its first command, each command one place nearer.
LEMMA TakenQueue ==
    ASSUME NEW S, NEW q \in Seq(S), q # <<>>
    PROVE  /\ \A i \in DOMAIN Tail(q) : /\ i + 1 \in DOMAIN q /\ Tail(q)[i] = q[i + 1]
                                        /\ i \in Nat \ {0}
           /\ 1 \in DOMAIN q /\ Head(q) = q[1]
           /\ \A k \in DOMAIN q : k = 1 \/ (k - 1 \in DOMAIN Tail(q) /\ Tail(q)[k - 1] = q[k])
           /\ \A k \in DOMAIN q : k \in Nat \ {0}
<1> DEFINE t == Tail(q)
<1>1. /\ \A i \in DOMAIN t : i + 1 \in DOMAIN q /\ t[i] = q[i + 1]
      /\ 1 \in DOMAIN q /\ Head(q) = q[1]
  BY TailOfQueue
<1>2. /\ Len(t) = Len(q) - 1 /\ Len(q) \in Nat \ {0} /\ t \in Seq(S)
      /\ \A i \in 1 .. Len(t) : t[i] = q[i + 1]
  BY EmptySeq, HeadTailProperties
<1>3. DOMAIN t = 1 .. Len(t) /\ DOMAIN q = 1 .. Len(q)
  BY <1>2
<1>4. \A k \in DOMAIN q : k = 1 \/ (k - 1 \in 1 .. Len(t) /\ k = (k - 1) + 1)
  BY <1>2, <1>3
<1>5. \A k \in DOMAIN q : k = 1 \/ (k - 1 \in DOMAIN t /\ t[k - 1] = q[k])
  BY <1>2, <1>3, <1>4
<1>6. /\ \A k \in DOMAIN q : k \in Nat \ {0}
      /\ \A i \in DOMAIN t : i \in Nat \ {0}
  BY <1>2, <1>3
<1> QED BY <1>1, <1>5, <1>6

LEMMA LastTaken ==
    ASSUME NEW q \in Seq(File), q # <<>>, NEW o, NEW p, NEW f, LastIn(q, o, p, f)
    PROVE  LastIn(Tail(q), Head(q), Nothing, f)
<1>0. Nothing \notin StandbyFile  BY StandbyConstants DEF File
<1> DEFINE t == Tail(q)
<1>1. /\ \A i \in DOMAIN t : i + 1 \in DOMAIN q /\ t[i] = q[i + 1] /\ i \in Nat \ {0}
      /\ 1 \in DOMAIN q /\ Head(q) = q[1]
      /\ \A k \in DOMAIN q : k = 1 \/ (k - 1 \in DOMAIN t /\ t[k - 1] = q[k])
      /\ \A k \in DOMAIN q : k \in Nat \ {0}
  BY TakenQueue
<1> HIDE DEF t
<1>2. CASE \E k \in DOMAIN q :
              q[k] = f /\ \A j \in DOMAIN q : j > k => q[j] \notin StandbyFile
  <2>1. PICK k \in DOMAIN q :
              q[k] = f /\ \A j \in DOMAIN q : j > k => q[j] \notin StandbyFile
    BY <1>2
  <2>2. CASE k = 1
    <3>1. \A j \in DOMAIN t : j + 1 \in DOMAIN q /\ j + 1 > k /\ t[j] = q[j + 1]
      BY <1>1, <2>2
    <3>2. \A j \in DOMAIN t : t[j] \notin StandbyFile  BY <2>1, <3>1
    <3>3. Head(q) = f  BY <1>1, <2>1, <2>2
    <3>4. LastIn(t, Head(q), Nothing, f)  BY <1>0, <3>2, <3>3 DEF LastIn
    <3> QED BY <3>4 DEF t
  <2>3. CASE k # 1
    <3>1. k - 1 \in DOMAIN t /\ t[k - 1] = f  BY <1>1, <2>1, <2>3
    <3>2. \A j \in DOMAIN t : j > k - 1 => j + 1 > k /\ j + 1 \in DOMAIN q /\ t[j] = q[j + 1]
      BY <1>1
    <3>3. \A j \in DOMAIN t : j > k - 1 => t[j] \notin StandbyFile  BY <2>1, <3>2
    <3>4. LastIn(t, Head(q), Nothing, f)  BY <3>1, <3>3 DEF LastIn
    <3> QED BY <3>4 DEF t
  <2> QED BY <2>2, <2>3
<1>3. CASE \A j \in DOMAIN q : q[j] \notin StandbyFile
  <2>1. \A j \in DOMAIN t : t[j] \notin StandbyFile  BY <1>1, <1>3
  <2>2. Head(q) \notin StandbyFile  BY <1>1, <1>3
  <2>3. LastIn(t, Head(q), Nothing, f)  BY <1>0, <2>1, <2>2 DEF LastIn
  <2> QED BY <2>3 DEF t
<1> QED BY <1>2, <1>3 DEF LastIn

LEMMA NothingLast == ASSUME NEW f PROVE LastIn(<<>>, Nothing, Nothing, f)
BY StandbyConstants DEF LastIn, File

-----------------------------------------------------------------------------
(* What is on the screen.                                                  *)

\* One caller at a time holds a file it has not loaded, and what is to be loaded
\* is what was recorded.
OneInside ==
    /\ \A a, b \in Caller : at[a] \in Inside /\ at[b] \in Inside => a = b
    /\ \A a \in Caller : at[a] = "recorded" => file[a] = loaded

DownIsEmpty ==
    ~up => cmds = <<>> /\ playing = Nothing /\ opening = Nothing /\ reports = <<>>

NoneRecorded == \A a \in Caller : at[a] # "recorded"

\* Any other standby file than the one recorded last is about to be replaced by
\* it.
LoadedIsLast == NoneRecorded => LastIn(cmds, opening, playing, loaded)

\* No programme comes behind the last standby file, or at all.
NoProgramme(q, o, p) ==
    \/ \E k \in DOMAIN q : /\ q[k] \in StandbyFile
                           /\ \A j \in DOMAIN q : j > k => q[j] # Programme
    \/ /\ \A j \in DOMAIN q : q[j] # Programme
       /\ Programme \notin {o, p}

\* The agent waits for standby while mpv last reported a programme: then the
\* load it waits for is still to come, or the report of another file.
PendingIsComing ==
    NoneRecorded /\ pending /\ path = Programme /\ reports = <<>> =>
        NoProgramme(cmds, opening, playing)

ScreenInv == TypeInv /\ DownIsEmpty /\ OneInside /\ LoadedIsLast /\ PendingIsComing

ScreenVars == <<at, file, path, loaded, pending, up, cmds, playing, opening, reports>>

\* One caller at a time holds a file in enterStandby, and nothing is sent before
\* the agent is done with what came before.
Serial == ~Overlap

\* What is no standby file.
Foreign == {Programme, Tone}

LEMMA ForeignFiles ==
    /\ Foreign \cap (StandbyFile \cup {Nothing}) = {}
    /\ Foreign \subseteq File
BY StandbyConstants DEF Foreign, File

LEMMA ClearLoaded ==
    ASSUME NEW q \in Seq(File), NEW o, NEW p, NEW x \in StandbyFile
    PROVE  NoProgramme(Append(q, x), o, p)
<1> DEFINE k == Len(q) + 1
<1>1. k \in DOMAIN Append(q, x) /\ Append(q, x)[k] = x
  BY AppendedQueue DEF File
<1>2. \A j \in DOMAIN Append(q, x) : ~(j > k)
  BY AppendedQueue DEF File
<1> QED BY <1>1, <1>2 DEF NoProgramme

LEMMA ClearBehind ==
    ASSUME NEW q \in Seq(File), NEW o, NEW p, NEW x \in File, x # Programme,
           NoProgramme(q, o, p)
    PROVE  NoProgramme(Append(q, x), o, p)
<1> DEFINE r == Append(q, x)
<1>1. /\ DOMAIN r = DOMAIN q \cup {Len(q) + 1} /\ r[Len(q) + 1] # Programme
      /\ \A j \in DOMAIN q : r[j] = q[j]
  BY AppendedQueue
<1> HIDE DEF r
<1>2. CASE \E k \in DOMAIN q : /\ q[k] \in StandbyFile
                               /\ \A j \in DOMAIN q : j > k => q[j] # Programme
  <2>1. PICK k \in DOMAIN q : /\ q[k] \in StandbyFile
                              /\ \A j \in DOMAIN q : j > k => q[j] # Programme
    BY <1>2
  <2>2. /\ k \in DOMAIN r /\ r[k] \in StandbyFile
        /\ \A j \in DOMAIN r : j > k => r[j] # Programme
    BY <1>1, <2>1
  <2>3. NoProgramme(r, o, p)  BY <2>2 DEF NoProgramme
  <2> QED BY <2>3 DEF r
<1>3. CASE (\A j \in DOMAIN q : q[j] # Programme) /\ Programme \notin {o, p}
  <2>1. \A j \in DOMAIN r : r[j] # Programme  BY <1>1, <1>3
  <2>2. NoProgramme(r, o, p)  BY <1>3, <2>1 DEF NoProgramme
  <2> QED BY <2>2 DEF r
<1> QED BY <1>2, <1>3 DEF NoProgramme

LEMMA ClearTaken ==
    ASSUME NEW q \in Seq(File), q # <<>>, NEW o, NEW p, NoProgramme(q, o, p)
    PROVE  NoProgramme(Tail(q), Head(q), Nothing)
<1>0. Nothing # Programme /\ Programme \notin StandbyFile
  BY StandbyConstants DEF File
<1> DEFINE t == Tail(q)
<1>1. /\ \A i \in DOMAIN t : i + 1 \in DOMAIN q /\ t[i] = q[i + 1] /\ i \in Nat \ {0}
      /\ 1 \in DOMAIN q /\ Head(q) = q[1]
      /\ \A k \in DOMAIN q : k = 1 \/ (k - 1 \in DOMAIN t /\ t[k - 1] = q[k])
      /\ \A k \in DOMAIN q : k \in Nat \ {0}
  BY TakenQueue
<1> HIDE DEF t
<1>2. CASE \E k \in DOMAIN q : /\ q[k] \in StandbyFile
                               /\ \A j \in DOMAIN q : j > k => q[j] # Programme
  <2>1. PICK k \in DOMAIN q : /\ q[k] \in StandbyFile
                              /\ \A j \in DOMAIN q : j > k => q[j] # Programme
    BY <1>2
  <2>2. CASE k = 1
    <3>1. \A j \in DOMAIN t : j + 1 \in DOMAIN q /\ j + 1 > k /\ t[j] = q[j + 1]
      BY <1>1, <2>2
    <3>2. (\A j \in DOMAIN t : t[j] # Programme) /\ Head(q) # Programme
      BY <1>0, <1>1, <2>1, <2>2, <3>1
    <3>3. NoProgramme(t, Head(q), Nothing)  BY <1>0, <3>2 DEF NoProgramme
    <3> QED BY <3>3 DEF t
  <2>3. CASE k # 1
    <3>1. k - 1 \in DOMAIN t /\ t[k - 1] \in StandbyFile  BY <1>1, <2>1, <2>3
    <3>2. \A j \in DOMAIN t : j > k - 1 => j + 1 > k /\ j + 1 \in DOMAIN q /\ t[j] = q[j + 1]
      BY <1>1
    <3>3. \A j \in DOMAIN t : j > k - 1 => t[j] # Programme  BY <2>1, <3>2
    <3>4. NoProgramme(t, Head(q), Nothing)  BY <3>1, <3>3 DEF NoProgramme
    <3> QED BY <3>4 DEF t
  <2> QED BY <2>2, <2>3
<1>3. CASE \A j \in DOMAIN q : q[j] # Programme
  <2>1. (\A j \in DOMAIN t : t[j] # Programme) /\ Head(q) # Programme  BY <1>1, <1>3
  <2>2. NoProgramme(t, Head(q), Nothing)  BY <1>0, <2>1 DEF NoProgramme
  <2> QED BY <2>2 DEF t
<1> QED BY <1>2, <1>3 DEF NoProgramme

\* mpv goes on with what it was told, ends or dies.
Player == MpvDies \/ MpvTakes \/ MpvOpens \/ FileEnds

LEMMA PlayerKeepsLast ==
    ASSUME TypeInv, Player, NEW f, LastIn(cmds, opening, playing, f)
    PROVE  LastIn(cmds', opening', playing', f)
<1>0. /\ cmds \in Seq(File) /\ Nothing \notin StandbyFile
      /\ Programme \notin StandbyFile
  BY StandbyConstants DEF TypeInv, MpvTyped, File
<1>1. CASE MpvDies
  BY <1>1, NothingLast DEF MpvDies
<1>2. CASE MpvTakes
  BY <1>0, <1>2, LastTaken DEF MpvTakes
<1>3. CASE MpvOpens
  <2>1. cmds' = cmds /\ opening' = Nothing /\ playing' \in {Nothing, opening}
    BY <1>3 DEF MpvOpens
  <2> QED BY <1>0, <2>1 DEF LastIn
<1>4. CASE FileEnds
  <2>1. cmds' = cmds /\ opening' \in {opening, Programme} /\ playing' = Nothing
    BY <1>4 DEF FileEnds
  <2> QED BY <1>0, <2>1 DEF LastIn
<1> QED BY <1>1, <1>2, <1>3, <1>4 DEF Player

LEMMA PlayerKeepsClear ==
    ASSUME TypeInv, Player, NoProgramme(cmds, opening, playing)
    PROVE  NoProgramme(cmds', opening', playing')
<1>0. cmds \in Seq(File) /\ Nothing # Programme
  BY StandbyConstants DEF TypeInv, MpvTyped, File
<1>1. CASE MpvDies
  BY <1>0, <1>1 DEF MpvDies, NoProgramme
<1>2. CASE MpvTakes
  BY <1>0, <1>2, ClearTaken DEF MpvTakes
<1>3. CASE MpvOpens
  <2>1. cmds' = cmds /\ opening' = Nothing /\ playing' \in {Nothing, opening}
    BY <1>3 DEF MpvOpens
  <2> QED BY <1>0, <2>1 DEF NoProgramme
<1>4. CASE FileEnds
  <2>1. /\ cmds' = cmds /\ playing' = Nothing
        /\ opening' = opening \/ playing = Programme
    BY <1>4 DEF FileEnds
  <2> QED BY <1>0, <2>1 DEF NoProgramme
<1> QED BY <1>1, <1>2, <1>3, <1>4 DEF Player

LEMMA DownStep ==
    ASSUME TypeInv, DownIsEmpty, [Next]_vars
    PROVE  DownIsEmpty'
<1> USE DEF DownIsEmpty
<1>1. ASSUME NEW a \in Caller, EnterStandby(a) PROVE DownIsEmpty'
  BY <1>1 DEF EnterStandby, Chooses, Records, Loads, mpv
<1>2. CASE TestSound
  BY <1>2 DEF TestSound, ToneClaims, ToneLoads, ToneTimesOut, mpv
<1>3. CASE Mpv
  <2>1. CASE FileEnds
    <3>1. playing \in File /\ Nothing \notin File /\ UNCHANGED <<up, cmds, reports>>
      BY <2>1, StandbyConstants DEF FileEnds, File
    <3> QED BY <3>1
  <2>2. CASE MpvConnects \/ MpvDies \/ MpvTakes \/ MpvOpens \/ MpvReports \/ PathChanged
    BY <2>2 DEF MpvConnects, MpvDies, MpvTakes, MpvOpens, MpvReports, PathChanged
  <2> QED BY <1>3, <2>1, <2>2 DEF Mpv
<1>4. CASE PostStandby \/ FetchFails \/ StandbyWhenAway \/ LinkChanges \/ Pairs \/ Unpair
           \/ UNCHANGED vars
  BY <1>4 DEF PostStandby, FetchFails, StandbyWhenAway, LinkChanges, Pairs, Unpair, vars, mpv
<1>5. CASE Downloads
  BY <1>5 DEF Downloads, PutStandby, PutFetches, FetchCompletes, SupersededEnds, mpv
<1>6. CASE CinefinPlays \/ AgentRestarts
  BY <1>6 DEF CinefinPlays, AgentRestarts
<1> QED BY <1>1, <1>2, <1>3, <1>4, <1>5, <1>6 DEF Next

\* A step outside enterStandby: somebody may ask, and no file is chosen, recorded
\* or loaded.
Outside == UNCHANGED <<at, file>> \/ \E a \in Caller : Free(a) /\ Ask(a)

LEMMA OutsideLeaves ==
    ASSUME TypeInv, Outside
    PROVE  /\ \A b \in Caller : at'[b] \in Inside <=> at[b] \in Inside
           /\ \A b \in Caller : at'[b] = "recorded" <=> at[b] = "recorded"
           /\ \A b \in Caller : at[b] # "out" => at'[b] # "out"
           /\ file' = file
<1>1. CASE UNCHANGED <<at, file>>
  BY <1>1
<1>2. ASSUME NEW a \in Caller, Free(a), Ask(a)
      PROVE  /\ \A b \in Caller : at'[b] \in Inside <=> at[b] \in Inside
             /\ \A b \in Caller : at'[b] = "recorded" <=> at[b] = "recorded"
             /\ \A b \in Caller : at[b] # "out" => at'[b] # "out"
             /\ file' = file
  BY <1>2 DEF Free, Ask, Inside, TypeInv, EnterTyped
<1> QED BY <1>1, <1>2 DEF Outside

LEMMA OutsideKeepsScreen ==
    ASSUME ScreenInv, TypeInv', DownIsEmpty', Outside, loaded' = loaded,
           LastIn(cmds, opening, playing, loaded) => LastIn(cmds', opening', playing', loaded),
           NoProgramme(cmds, opening, playing) => NoProgramme(cmds', opening', playing'),
           \/ UNCHANGED <<pending, path>> /\ (reports' = <<>> => reports = <<>>)
           \/ path' # Programme
           \/ ~pending'
    PROVE  ScreenInv'
<1>1. /\ \A b \in Caller : at'[b] \in Inside <=> at[b] \in Inside
      /\ \A b \in Caller : at'[b] = "recorded" <=> at[b] = "recorded"
      /\ file' = file
  BY OutsideLeaves DEF ScreenInv
<1>2. OneInside'  BY <1>1 DEF ScreenInv, OneInside
<1>3. NoneRecorded' => NoneRecorded  BY <1>1 DEF NoneRecorded
<1>4. LoadedIsLast'  BY <1>3 DEF ScreenInv, LoadedIsLast
<1>5. PendingIsComing'  BY <1>3 DEF ScreenInv, PendingIsComing
<1> QED BY <1>2, <1>4, <1>5 DEF ScreenInv

LEMMA EnterKeepsScreen ==
    ASSUME ScreenInv, TypeInv', DownIsEmpty', Serial, NEW a \in Caller, EnterStandby(a)
    PROVE  ScreenInv'
<1> USE DEF ScreenInv
<1>0. /\ at \in [Caller -> {"out", "asked", "chosen", "recorded"}]
      /\ file \in [Caller -> StandbyFile \cup {Nothing}]
  BY DEF TypeInv, EnterTyped
<1>1. CASE Chooses(a)
  <2>1. /\ at[a] = "asked" /\ at' = [at EXCEPT ![a] = "chosen"] /\ NobodyInside
        /\ UNCHANGED <<path, loaded, pending, cmds, playing, opening, reports>>
        /\ \A b \in Caller : b # a => file'[b] = file[b]
    BY <1>0, <1>1 DEF Chooses, Serial, standby, mpv
  <2>2. OneInside'  BY <1>0, <2>1 DEF OneInside, NobodyInside, Inside
  <2>3. NoneRecorded /\ NoneRecorded'
    BY <1>0, <2>1 DEF NoneRecorded, NobodyInside, Inside
  <2>4. LoadedIsLast' /\ PendingIsComing'
    BY <2>1, <2>3 DEF LoadedIsLast, PendingIsComing
  <2> QED BY <2>2, <2>4
<1>2. CASE Records(a)
  <2>1. /\ at[a] = "chosen" /\ at' = [at EXCEPT ![a] = "recorded"]
        /\ loaded' = file[a] /\ file' = file
    BY <1>2 DEF Records
  <2>2. \A b \in Caller : b # a => at'[b] \notin Inside
    BY <1>0, <2>1 DEF OneInside, Inside
  <2>3. at'[a] = "recorded" /\ ~NoneRecorded'
    BY <1>0, <2>1 DEF NoneRecorded
  <2>4. OneInside'  BY <2>1, <2>2 DEF OneInside, Inside
  <2>5. LoadedIsLast' /\ PendingIsComing'
    BY <2>3 DEF LoadedIsLast, PendingIsComing
  <2> QED BY <2>4, <2>5
<1>3. CASE Loads(a)
  <2>1. /\ at[a] = "recorded" /\ at' = [at EXCEPT ![a] = "out"] /\ file[a] = loaded
        /\ loaded' = loaded /\ UNCHANGED <<playing, opening>>
        /\ \A b \in Caller : b # a => file'[b] = file[b]
        /\ \/ up /\ cmds' = Append(cmds, loaded)
           \/ ~up /\ cmds' = cmds /\ ~pending'
    BY <1>0, <1>3 DEF Loads, OneInside
  <2>2. OneInside'  BY <1>0, <2>1 DEF OneInside, Inside
  <2>3. loaded \in StandbyFile /\ loaded \in File /\ cmds \in Seq(File)
    BY <2>1 DEF TypeInv, EnterTyped, FileChosen, MpvTyped, File
  <2>4. CASE up
    <3>1. LastIn(cmds', opening', playing', loaded') /\ NoProgramme(cmds', opening', playing')
      BY <2>1, <2>3, <2>4, LastLoaded, ClearLoaded
    <3> QED BY <2>2, <3>1 DEF LoadedIsLast, PendingIsComing
  <2>5. CASE ~up
    <3>1. cmds' = <<>> /\ opening' = Nothing /\ playing' = Nothing
      BY <2>1, <2>5 DEF DownIsEmpty
    <3>2. LoadedIsLast'  BY <3>1, NothingLast DEF LoadedIsLast
    <3>3. PendingIsComing'  BY <2>1, <2>5 DEF PendingIsComing
    <3> QED BY <2>2, <3>2, <3>3
  <2> QED BY <2>4, <2>5
<1> QED BY <1>1, <1>2, <1>3 DEF EnterStandby

LEMMA MpvKeepsScreen ==
    ASSUME ScreenInv, TypeInv', DownIsEmpty', Mpv
    PROVE  ScreenInv'
<1> USE DEF ScreenInv
<1>1. CASE Player
  <2>1. /\ UNCHANGED <<at, file, loaded, path, pending>>
        /\ MpvDies \/ reports' = reports
    BY <1>1 DEF Player, MpvDies, MpvTakes, MpvOpens, FileEnds, enter, standby
  <2>2. CASE MpvDies
    <3>1. /\ cmds' = <<>> /\ opening' = Nothing /\ playing' = Nothing
      BY <2>2 DEF MpvDies
    <3>2. OneInside' /\ LoadedIsLast'
      BY <2>1, <3>1, NothingLast DEF OneInside, LoadedIsLast
    <3>3. Programme # Nothing  BY StandbyConstants DEF File
    <3>4. PendingIsComing'  BY <3>1, <3>3 DEF PendingIsComing, NoProgramme
    <3> QED BY <3>2, <3>4
  <2>3. CASE reports' = reports
    BY <1>1, <2>1, <2>3, PlayerKeepsLast, PlayerKeepsClear, OutsideKeepsScreen DEF Outside
  <2> QED BY <2>1, <2>2, <2>3
<1>2. CASE MpvConnects
  <2>1. /\ Free("connect") /\ Ask("connect") /\ path' = Nothing
        /\ UNCHANGED <<loaded, cmds, opening, playing>>
    BY <1>2 DEF MpvConnects
  <2>2. Outside /\ path' # Programme
    BY <2>1, StandbyConstants DEF Outside, Caller, File
  <2> QED BY <2>1, <2>2, OutsideKeepsScreen
<1>3. CASE MpvReports
  <2>1. /\ UNCHANGED <<at, file, path, loaded, pending, cmds, opening, playing>>
        /\ reports' = Append(reports, playing)
        /\ reports \in Seq(File \cup {Nothing}) /\ playing \in File \cup {Nothing}
    BY <1>3 DEF MpvReports, enter, standby, TypeInv, MpvTyped
  <2>2. reports' # <<>>  BY <2>1, AppendedQueue
  <2> QED BY <2>1, <2>2, OutsideKeepsScreen DEF Outside
<1>4. CASE PathChanged
  <2>1. /\ path' = Head(reports) /\ UNCHANGED <<loaded, cmds, opening, playing>>
        /\ pending' => Head(reports) \in StandbyFile \cup {Nothing}
        /\ UNCHANGED enter \/ (Free("tone") /\ Ask("tone"))
    BY <1>4 DEF PathChanged, StillPending, TonePath
  <2>2. Outside  BY <2>1 DEF Outside, Caller, enter
  <2>3. path' # Programme \/ ~pending'
    BY <2>1, ForeignFiles DEF Foreign
  <2> QED BY <2>1, <2>2, <2>3, OutsideKeepsScreen
<1> QED BY <1>1, <1>2, <1>3, <1>4 DEF Mpv, Player

LEMMA SoundKeepsScreen ==
    ASSUME ScreenInv, TypeInv', DownIsEmpty', TestSound
    PROVE  ScreenInv'
<1> USE DEF ScreenInv
<1>1. ASSUME NEW on \in BOOLEAN, ToneClaims(on) PROVE ScreenInv'
  BY <1>1, OutsideKeepsScreen DEF ToneClaims, Outside, enter, standby, mpv
<1>2. CASE ToneLoads
  <2>1. /\ UNCHANGED <<at, file, path, loaded, pending, playing, opening, reports>>
        /\ cmds' = cmds \/ cmds' = Append(cmds, Tone)
    BY <1>2 DEF ToneLoads, enter, standby
  <2>2. /\ Tone \in File /\ Tone \notin StandbyFile /\ Tone # Programme
        /\ cmds \in Seq(File)
    BY StandbyConstants DEF File, TypeInv, MpvTyped
  <2> QED BY <2>1, <2>2, LastBehind, ClearBehind, OutsideKeepsScreen DEF Outside
<1>3. CASE ToneTimesOut
  <2>1. /\ UNCHANGED <<path, loaded, pending, cmds, playing, opening, reports>>
        /\ UNCHANGED enter \/ (Free("tone") /\ Ask("tone"))
    BY <1>3 DEF ToneTimesOut, standby, mpv
  <2>2. Outside  BY <2>1 DEF Outside, Caller, enter
  <2> QED BY <2>1, <2>2, OutsideKeepsScreen
<1> QED BY <1>1, <1>2, <1>3 DEF TestSound

\* Cinefin sends a programme to a player that is done with what it was told:
\* then nothing is pending behind a programme.
LEMMA CinefinKeepsScreen ==
    ASSUME ScreenInv, TypeInv', DownIsEmpty', Serial, CinefinPlays
    PROVE  ScreenInv'
<1> USE DEF ScreenInv
<1>1. /\ Alone /\ cmds = <<>> /\ reports = <<>> /\ path = playing
      /\ UNCHANGED <<at, file, path, loaded, pending, playing, opening, reports>>
      /\ cmds' = Append(cmds, Programme)
  BY DEF CinefinPlays, Sends, Calm, Settled, Serial, enter, standby
<1>2. NoneRecorded /\ OneInside'
  BY <1>1 DEF Alone, NoneRecorded, OneInside
<1>3. LoadedIsLast'
  <2>1. Programme \in File /\ Programme \notin StandbyFile /\ cmds \in Seq(File)
    BY StandbyConstants DEF File, TypeInv, MpvTyped
  <2> QED BY <1>1, <1>2, <2>1, LastBehind DEF LoadedIsLast
<1>4. PendingIsComing'
  BY <1>1, <1>2 DEF PendingIsComing, NoProgramme
<1> QED BY <1>2, <1>3, <1>4

LEMMA FreshScreen == Fresh => DownIsEmpty /\ OneInside /\ LoadedIsLast /\ PendingIsComing
<1> SUFFICES ASSUME Fresh PROVE DownIsEmpty /\ OneInside /\ LoadedIsLast /\ PendingIsComing
  OBVIOUS
<1>1. DownIsEmpty /\ OneInside  BY DEF Fresh, DownIsEmpty, OneInside, Inside
<1>2. LoadedIsLast  BY NothingLast DEF Fresh, LoadedIsLast
<1>3. PendingIsComing  BY DEF Fresh, PendingIsComing
<1> QED BY <1>1, <1>2, <1>3

LEMMA ScreenStep ==
    ASSUME ScreenInv, TypeInv', Serial, [Next]_vars
    PROVE  ScreenInv'
<1>0. DownIsEmpty'  BY DownStep DEF ScreenInv
<1>1. ASSUME NEW a \in Caller, EnterStandby(a) PROVE ScreenInv'
  BY <1>0, <1>1, EnterKeepsScreen
<1>2. ASSUME NEW a \in Caller, Free(a), Ask(a),
             UNCHANGED <<path, loaded, pending, cmds, playing, opening, reports>>
      PROVE  ScreenInv'
  BY <1>0, <1>2, OutsideKeepsScreen DEF Outside
<1>3. ASSUME UNCHANGED <<at, file, path, loaded, pending, cmds, playing, opening, reports>>
      PROVE  ScreenInv'
  BY <1>0, <1>3, OutsideKeepsScreen DEF Outside
<1>4. CASE PostStandby \/ StandbyWhenAway
  BY <1>2, <1>4 DEF PostStandby, StandbyWhenAway, Caller, standby, mpv
<1>5. ASSUME NEW i \in Ident, FetchCompletes(i) PROVE ScreenInv'
  BY <1>2, <1>3, <1>5 DEF FetchCompletes, Caller, enter, standby, mpv
<1>6. ASSUME NEW i \in Ident, PutStandby(i) \/ PutFetches(i) \/ SupersededEnds(i)
      PROVE  ScreenInv'
  BY <1>3, <1>6 DEF PutStandby, PutFetches, SupersededEnds, enter, standby, mpv
<1>7. CASE FetchFails \/ LinkChanges \/ Pairs \/ Unpair \/ UNCHANGED vars
  BY <1>3, <1>7 DEF FetchFails, LinkChanges, Pairs, Unpair, vars, enter, standby, mpv
<1>8. CASE TestSound  BY <1>0, <1>8, SoundKeepsScreen
<1>9. CASE Mpv  BY <1>0, <1>9, MpvKeepsScreen
<1>10. CASE CinefinPlays  BY <1>0, <1>10, CinefinKeepsScreen
<1>11. CASE AgentRestarts
  <2>1. Fresh'  BY <1>11 DEF AgentRestarts, Fresh
  <2>2. (DownIsEmpty /\ OneInside /\ LoadedIsLast /\ PendingIsComing)'
    BY <2>1, FreshScreen, PTL
  <2> QED BY <2>2 DEF ScreenInv
<1> QED
  BY <1>1, <1>4, <1>5, <1>6, <1>7, <1>8, <1>9, <1>10, <1>11 DEF Next, Downloads

LEMMA ScreenInductive == Serial => (Spec => []ScreenInv)
<1> SUFFICES ASSUME Serial PROVE Spec => []ScreenInv
  OBVIOUS
<1>1. Init => ScreenInv
  <2>1. Init => Fresh  BY DEF Init, Fresh
  <2> QED BY <2>1, FreshScreen, InitTyped DEF ScreenInv
<1>2. ScreenInv /\ [Next]_vars => ScreenInv'
  BY TypeStep, ScreenStep DEF ScreenInv
<1> QED BY <1>1, <1>2, PTL DEF Spec

\* While one goroutine at a time is inside enterStandby, and whatever ends, fails,
\* arrives, dies or restarts meanwhile, the agent is right about whether mpv is on
\* standby once mpv has done what it was told (standby.go, onStandby,
\* enterStandby, pathChanged).
THEOREM StandbyIsTrue == Serial => (Spec => []OnStandbyTruth)
<1> SUFFICES ASSUME Serial PROVE Spec => []OnStandbyTruth
  OBVIOUS
<1>1. ScreenInv => OnStandbyTruth
  <2> SUFFICES ASSUME ScreenInv, Quiet PROVE OnStandby <=> playing \in StandbyFile
    BY DEF OnStandbyTruth
  <2>1. NoneRecorded /\ cmds = <<>> /\ path = playing
    BY DEF Quiet, Alone, Settled, NoneRecorded
  <2>2. playing \in StandbyFile => playing = loaded
    BY <2>1 DEF ScreenInv, LoadedIsLast, LastIn
  <2>3. loaded \in StandbyFile \cup {Nothing} /\ Nothing \notin StandbyFile
    BY StandbyConstants DEF ScreenInv, TypeInv, ScreenTyped, File
  <2> QED BY <2>1, <2>2, <2>3 DEF OnStandby
<1> QED BY <1>1, ScreenInductive, PTL

\* Under the same assumption, the end of a download does not take a player whose
\* programme mpv has reported for one on its way to standby (standby.go,
\* pathChanged, showingStandby).
THEOREM ProgrammeIsSafe == Serial => (Spec => []ProgrammeSafe)
<1> SUFFICES ASSUME Serial PROVE Spec => []ProgrammeSafe
  OBVIOUS
<1>1. ScreenInv => ProgrammeSafe
  <2> SUFFICES ASSUME ScreenInv, Quiet, playing = Programme PROVE ~pending /\ ~OnStandby
    BY DEF ProgrammeSafe, ShowingStandby
  <2>1. /\ NoneRecorded /\ cmds = <<>> /\ reports = <<>> /\ path = playing
        /\ Programme \in Foreign
    BY DEF Quiet, Alone, Settled, NoneRecorded, Foreign
  <2>2. ~pending
    BY <2>1 DEF ScreenInv, PendingIsComing, NoProgramme
  <2>3. loaded \in StandbyFile \cup {Nothing}
    BY DEF ScreenInv, TypeInv, ScreenTyped
  <2>4. ~OnStandby
    BY <2>1, <2>3, ForeignFiles DEF OnStandby
  <2> QED BY <2>2, <2>4
<1> QED BY <1>1, ScreenInductive, PTL
=============================================================================
