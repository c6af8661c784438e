----------------------------- MODULE IdentProofs -----------------------------
(***************************************************************************)
(* What is proved of Standby about an ident that arrives while the player  *)
(* is on standby, or on its way there: in whatever order Cinefin's PUTs    *)
(* reach their downloads, and whatever is inside enterStandby as one ends, *)
(* the ident is the one shown from then on.                                *)
(***************************************************************************)
EXTENDS StandbyProofs

-----------------------------------------------------------------------------
(* The spec, and the ident that has arrived for it                         *)

SpecInv ==
    /\ spec # None => paired
    /\ arrived # None => spec = arrived /\ files = {arrived}
    /\ switched => arrived # None

SpecVars == <<paired, spec, files, arrived, switched>>

LEMMA SpecStep == SpecInv /\ [Next]_vars => SpecInv'
<1> SUFFICES ASSUME SpecInv, [Next]_vars PROVE SpecInv'
  OBVIOUS
<1> USE StandbyConstants DEF SpecInv
<1>0. ASSUME UNCHANGED SpecVars PROVE SpecInv'
  BY <1>0 DEF SpecVars
<1>1. ASSUME NEW i \in Ident, PutStandby(i) PROVE SpecInv'
  BY <1>1 DEF PutStandby
<1>2. ASSUME NEW i \in Ident, PutFetches(i) PROVE SpecInv'
  BY <1>2 DEF PutFetches, FetchIdent
<1>3. ASSUME NEW i \in Ident, FetchCompletes(i) PROVE SpecInv'
  BY <1>3 DEF FetchCompletes, store
<1>4. ASSUME NEW i \in Ident, SupersededEnds(i) PROVE SpecInv'
  BY <1>0, <1>4 DEF SupersededEnds, SpecVars, store
<1>5. CASE FetchFails  BY <1>0, <1>5 DEF FetchFails, SpecVars, store
<1>6. CASE Pairs  BY <1>6 DEF Pairs, fetch
<1>7. CASE Unpair  BY <1>7 DEF Unpair
<1>8. CASE AgentRestarts  BY <1>8 DEF AgentRestarts
<1>9. ASSUME NEW a \in Caller, EnterStandby(a) PROVE SpecInv'
  BY <1>0, <1>9 DEF EnterStandby, Chooses, Records, Loads, SpecVars, store, fetch
<1>10. CASE PostStandby \/ StandbyWhenAway \/ CinefinPlays \/ LinkChanges
  BY <1>0, <1>10 DEF PostStandby, StandbyWhenAway, CinefinPlays, LinkChanges, SpecVars, store,
                     fetch
<1>11. CASE TestSound
  BY <1>0, <1>11 DEF TestSound, ToneClaims, ToneLoads, ToneTimesOut, SpecVars, store, fetch
<1>12. CASE Mpv
  BY <1>0, <1>12 DEF Mpv, MpvConnects, MpvDies, MpvTakes, MpvOpens, FileEnds, MpvReports,
                     PathChanged, SpecVars, store, fetch
<1>13. CASE UNCHANGED vars
  BY <1>0, <1>13 DEF vars, SpecVars, store, fetch
<1> QED
  BY <1>1, <1>2, <1>3, <1>4, <1>5, <1>6, <1>7, <1>8, <1>9, <1>10, <1>11, <1>12, <1>13
     DEF Next, Downloads

-----------------------------------------------------------------------------
(* What comes to the screen once it has arrived                            *)

\* Whoever is inside enterStandby holds the ident that arrived ...
HoldsArrived == \A a \in Caller : at[a] \in Inside => file[a] = arrived

\* ... and somebody is still to load it, or no standby file comes after it.
ArrivedComes ==
    (\E a \in Caller : at[a] # "out") \/ LastIn(cmds, opening, playing, arrived)

\* While the call of the download that ended has not chosen, others may still load
\* what they chose before: it will choose after them.
ArrivedInv == switched => at["fetch"] = "asked" \/ (HoldsArrived /\ ArrivedComes)

Inv == TypeInv /\ DownIsEmpty /\ SpecInv /\ ArrivedInv

\* A step outside enterStandby takes nothing of this away if no standby file is
\* sent.
LEMMA OutsideKeepsArrived ==
    ASSUME Inv, Outside, UNCHANGED <<arrived, switched>>,
           LastIn(cmds, opening, playing, arrived) => LastIn(cmds', opening', playing', arrived)
    PROVE  ArrivedInv'
<1>1. /\ \A b \in Caller : at'[b] \in Inside <=> at[b] \in Inside
      /\ \A b \in Caller : at[b] # "out" => at'[b] # "out"
      /\ file' = file
  BY OutsideLeaves DEF Inv
<1>2. HoldsArrived => HoldsArrived'  BY <1>1 DEF HoldsArrived
<1>3. ArrivedComes => ArrivedComes'  BY <1>1 DEF ArrivedComes
<1>4. at["fetch"] = "asked" => at'["fetch"] = "asked"
  <2>1. at \in [Caller -> {"out", "asked", "chosen", "recorded"}] /\ "fetch" \in Caller
    BY DEF Inv, TypeInv, EnterTyped, Caller
  <2> QED BY <2>1 DEF Outside, Free, Ask
<1> QED BY <1>2, <1>3, <1>4 DEF Inv, ArrivedInv

\* Who asked for it chooses when nobody else holds a file.
LEMMA EnterKeepsArrived ==
    ASSUME Serial, Inv, NEW a \in Caller, EnterStandby(a)
    PROVE  ArrivedInv'
<1> SUFFICES ASSUME switched', at'["fetch"] # "asked" PROVE HoldsArrived' /\ ArrivedComes'
  BY DEF ArrivedInv
<1>0. /\ at \in [Caller -> {"out", "asked", "chosen", "recorded"}] /\ "fetch" \in Caller
      /\ file \in [Caller -> StandbyFile \cup {Nothing}]
      /\ UNCHANGED <<arrived, switched>>
  BY DEF Inv, TypeInv, EnterTyped, EnterStandby, Chooses, Records, Loads, fetch, Caller
<1>1. arrived # None /\ spec = arrived /\ files = {arrived} /\ paired
  BY <1>0 DEF Inv, SpecInv
<1>2. CASE Chooses(a)
  <2>1. /\ NobodyInside
        /\ at' = [at EXCEPT ![a] = "chosen"] /\ file' = [file EXCEPT ![a] = arrived]
    BY <1>1, <1>2 DEF Chooses, StandbyTarget, Serial
  <2>2. at'[a] # "out" /\ file'[a] = arrived /\ \A b \in Caller \ {a} : at'[b] = at[b]
    BY <1>0, <2>1
  <2> QED BY <1>0, <2>1, <2>2 DEF HoldsArrived, ArrivedComes, NobodyInside
<1>3. CASE Records(a)
  <2>1. at[a] = "chosen" /\ at' = [at EXCEPT ![a] = "recorded"] /\ file' = file
    BY <1>3 DEF Records
  <2>2. at'[a] # "out" /\ at["fetch"] # "asked"  BY <1>0, <2>1
  <2>3. HoldsArrived  BY <1>0, <2>2 DEF Inv, ArrivedInv
  <2> QED BY <1>0, <2>1, <2>2, <2>3 DEF HoldsArrived, ArrivedComes, Inside
<1>4. CASE Loads(a)
  <2>1. /\ at[a] = "recorded" /\ at' = [at EXCEPT ![a] = "out"]
        /\ file' = [file EXCEPT ![a] = Nothing] /\ UNCHANGED <<playing, opening>>
        /\ (up /\ cmds' = Append(cmds, file[a])) \/ (~up /\ cmds' = cmds)
    BY <1>4 DEF Loads
  <2>2. HoldsArrived
    <3>1. at["fetch"] # "asked"  BY <1>0, <2>1
    <3> QED BY <1>0, <3>1 DEF Inv, ArrivedInv
  <2>3. HoldsArrived'  BY <1>0, <2>1, <2>2 DEF HoldsArrived, Inside
  <2>4. file[a] = arrived /\ arrived \in File /\ cmds \in Seq(File)
    BY <1>1, <2>1, <2>2 DEF HoldsArrived, Inside, Inv, TypeInv, FetchTyped, MpvTyped, File,
                            StandbyFile
  <2>5. CASE up
    <3>1. cmds' = Append(cmds, arrived) /\ arrived' = arrived  BY <1>0, <2>1, <2>4, <2>5
    <3>2. LastIn(Append(cmds, arrived), opening', playing', arrived)
      BY <2>4, LastLoaded
    <3>3. LastIn(cmds', opening', playing', arrived')  BY <3>1, <3>2
    <3> QED BY <2>3, <3>3 DEF ArrivedComes
  <2>6. CASE ~up
    <3>1. cmds' = <<>> /\ opening' = Nothing /\ playing' = Nothing
      BY <2>1, <2>6 DEF Inv, DownIsEmpty
    <3> QED BY <2>3, <3>1, NothingLast DEF ArrivedComes
  <2> QED BY <2>5, <2>6
<1> QED BY <1>2, <1>3, <1>4 DEF EnterStandby

\* A download that ends while standby shows, or is about to, asks for it.
LEMMA FetchKeepsArrived ==
    ASSUME Inv, NEW i \in Ident, FetchCompletes(i)
    PROVE  ArrivedInv'
<1> SUFFICES ASSUME switched' PROVE at'["fetch"] = "asked"
  BY DEF ArrivedInv
<1>1. ShowingStandby /\ Ask("fetch")
  BY DEF FetchCompletes
<1>2. at \in [Caller -> {"out", "asked", "chosen", "recorded"}] /\ "fetch" \in Caller
  BY DEF Inv, TypeInv, EnterTyped, Caller
<1> QED BY <1>1, <1>2 DEF Ask

LEMMA MpvKeepsArrived ==
    ASSUME Inv, Mpv
    PROVE  ArrivedInv'
<1>1. CASE Player
  <2>1. UNCHANGED <<at, file, arrived, switched>>
    BY <1>1 DEF Player, MpvDies, MpvTakes, MpvOpens, FileEnds, enter, fetch
  <2> QED BY <1>1, <2>1, PlayerKeepsLast, OutsideKeepsArrived DEF Outside, Inv
<1>2. CASE MpvConnects
  BY <1>2, OutsideKeepsArrived DEF MpvConnects, Outside, Caller, fetch
<1>3. CASE MpvReports
  BY <1>3, OutsideKeepsArrived DEF MpvReports, Outside, enter, fetch
<1>4. CASE PathChanged
  <2>1. /\ UNCHANGED <<arrived, switched, cmds, opening, playing>>
        /\ UNCHANGED enter \/ (Free("tone") /\ Ask("tone"))
    BY <1>4 DEF PathChanged, TonePath, fetch
  <2>2. Outside  BY <2>1 DEF Outside, Caller, enter
  <2> QED BY <2>1, <2>2, OutsideKeepsArrived
<1> QED BY <1>1, <1>2, <1>3, <1>4 DEF Mpv, Player

\* What is sent besides is no standby file.
LEMMA SentKeepsArrived ==
    ASSUME Inv, CinefinPlays \/ ToneLoads
    PROVE  ArrivedInv'
<1>1. PICK f \in Foreign : cmds' = cmds \/ cmds' = Append(cmds, f)
  BY DEF CinefinPlays, ToneLoads, Foreign
<1>2. f \in File /\ f \notin StandbyFile /\ cmds \in Seq(File)
  BY ForeignFiles DEF Inv, TypeInv, MpvTyped
<1>3. UNCHANGED <<at, file, arrived, switched, opening, playing>>
  BY DEF CinefinPlays, ToneLoads, enter, fetch
<1> QED BY <1>1, <1>2, <1>3, LastBehind, OutsideKeepsArrived DEF Outside

LEMMA ArrivedStep ==
    ASSUME Serial, Inv, [Next]_vars
    PROVE  ArrivedInv'
<1>1. ASSUME NEW a \in Caller, EnterStandby(a) PROVE ArrivedInv'
  BY <1>1, EnterKeepsArrived
<1>2. CASE PostStandby \/ StandbyWhenAway
  BY <1>2, OutsideKeepsArrived
     DEF PostStandby, StandbyWhenAway, Outside, Caller, fetch, mpv
<1>3. ASSUME NEW i \in Ident, FetchCompletes(i) PROVE ArrivedInv'
  BY <1>3, FetchKeepsArrived
<1>4. ASSUME NEW i \in Ident, PutStandby(i) PROVE ArrivedInv'
  BY <1>4 DEF PutStandby, ArrivedInv
<1>5. CASE Unpair
  BY <1>5 DEF Unpair, ArrivedInv
<1>6. ASSUME NEW i \in Ident, PutFetches(i) \/ SupersededEnds(i) PROVE ArrivedInv'
  BY <1>6, OutsideKeepsArrived DEF PutFetches, SupersededEnds, Outside, enter, mpv
<1>7. CASE FetchFails \/ LinkChanges \/ Pairs \/ UNCHANGED vars
  BY <1>7, OutsideKeepsArrived
     DEF FetchFails, LinkChanges, Pairs, vars, Outside, fetch, enter, mpv
<1>8. CASE TestSound
  <2>1. ASSUME NEW on \in BOOLEAN, ToneClaims(on) PROVE ArrivedInv'
    BY <2>1, OutsideKeepsArrived DEF ToneClaims, Outside, enter, fetch, mpv
  <2>2. CASE ToneTimesOut
    <3>1. /\ UNCHANGED <<arrived, switched, cmds, opening, playing>>
          /\ UNCHANGED enter \/ (Free("tone") /\ Ask("tone"))
      BY <2>2 DEF ToneTimesOut, fetch, mpv
    <3>2. Outside  BY <3>1 DEF Outside, Caller, enter
    <3> QED BY <3>1, <3>2, OutsideKeepsArrived
  <2> QED BY <1>8, <2>1, <2>2, SentKeepsArrived DEF TestSound
<1>9. CASE Mpv  BY <1>9, MpvKeepsArrived
<1>10. CASE CinefinPlays  BY <1>10, SentKeepsArrived
<1>11. CASE AgentRestarts
  <2>1. /\ \A a \in Caller : at'[a] = "out"
        /\ cmds' = <<>> /\ opening' = Nothing /\ playing' = Nothing
    BY <1>11 DEF AgentRestarts
  <2> QED BY <2>1, NothingLast DEF ArrivedInv, HoldsArrived, ArrivedComes, Inside
<1> QED
  BY <1>1, <1>2, <1>3, <1>4, <1>5, <1>6, <1>7, <1>8, <1>9, <1>10, <1>11
     DEF Next, Downloads

\* While one goroutine at a time holds a file in enterStandby: an ident whose
\* download ends while the agent shows standby, or waits for it, is the one shown
\* from then on, until another PUT or an unpairing, whoever was about to load
\* another (standby.go, downloadIdent, showingStandby, enterStandby).
THEOREM NewIdentIsSwitched == Serial => (Spec => []NewIdentSwitched)
<1> SUFFICES ASSUME Serial PROVE Spec => []NewIdentSwitched
  OBVIOUS
<1>1. Init => Inv
  <2> SUFFICES ASSUME Init PROVE Inv
    OBVIOUS
  <2>1. Fresh  BY DEF Init, Fresh
  <2>2. SpecInv /\ ArrivedInv  BY DEF Init, SpecInv, ArrivedInv
  <2> QED BY <2>1, <2>2, InitTyped, FreshScreen DEF Inv
<1>2. Inv /\ [Next]_vars => Inv'
  BY TypeStep, DownStep, SpecStep, ArrivedStep DEF Inv
<1>3. Inv => NewIdentSwitched
  <2> SUFFICES ASSUME Inv, Quiet, playing \in StandbyFile, switched
               PROVE  playing = arrived
    BY DEF NewIdentSwitched
  <2>1. cmds = <<>> /\ \A a \in Caller : at[a] = "out"
    BY DEF Quiet, Alone, Settled
  <2>2. LastIn(cmds, opening, playing, arrived)
    BY <2>1 DEF Inv, ArrivedInv, ArrivedComes, Caller
  <2> QED BY <2>1, <2>2 DEF LastIn
<1> QED BY <1>1, <1>2, <1>3, PTL DEF Spec
=============================================================================
