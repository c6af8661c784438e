--------------------------- MODULE CardTimeProofs ---------------------------
(***************************************************************************)
(* Proofs about the times of Card: its types, which bound every age, and   *)
(* how soon an overlay leaves a programme, a hold ends when Cinefin is     *)
(* away, and the test card and the confirmation go.                        *)
(***************************************************************************)
EXTENDS CardProofs

-----------------------------------------------------------------------------
(* The operators the times are made of                                     *)

LEMMA MinOfTwo == \A a, b \in Int : Min({a, b}) = IF a <= b THEN a ELSE b
BY DEF Min

LEMMA MaxOfTwo == \A a, b \in Int : Max({a, b}) = IF a >= b THEN a ELSE b
BY DEF Max

LEMMA OlderAge == \A n \in Nat : \A a \in 0..n : /\ Older(a, n) \in 0..n
                                                 /\ Older(a, n) = IF a < n THEN a + 1 ELSE n
BY MinOfTwo DEF Older, Never

LEMMA OlderNotice == \A n \in Nat : \A a \in Never..n : Older(a, n) \in Never..n
BY MinOfTwo DEF Older, Never

LEMMA LessIsLess == \A n \in Nat : \A a \in 0..n : Less(a) \in 0..n
BY DEF Less

\* A confirmation's hold is over by MaxHold.
LEMMA HoldType ==
    ASSUME confirm \in Never..MaxHold, NEW t \in Nat
    PROVE  /\ Hold(t) \in 0..MaxHold
           /\ Hold(t) = 0 => t < MaxHold
BY MinOfTwo, MaxOfTwo, CardConstants DEF Hold, Never

LEMMA AgeType ==
    ASSUME age \in 0..(MaxHold + Rest + 1)
    PROVE  SceneAge \in 0..(MaxHold + Rest + 1) /\ SceneAge \in Nat
<1>1. MaxHold + Rest + 1 \in Nat
  BY CardConstants DEF Rest
<1> QED BY <1>1 DEF Since, SceneAge

LEMMA TextType == ASSUME NEW k \in Key, NEW t PROVE TextOf(k, t) \in Text
BY DEF TextOf, Key, Text, PairingText, LinkState, ConfirmText

-----------------------------------------------------------------------------
(* Types                                                                   *)

MpvOK ==
    /\ up \in BOOLEAN /\ alive \in BOOLEAN /\ sawDown \in BOOLEAN
    /\ callback \in {"forget", "observe", "enter", "done"}
    /\ file \in File /\ path \in File /\ intro \in 0..Intro

ScreenOK == screen \in Text /\ shown \in Text

LinkOK == attached \in BOOLEAN /\ linkAge \in 0..Grace

StoreOK == /\ paired \in BOOLEAN /\ request \in {"none", "pairing", "unpairing"}
           /\ showStatus \in BOOLEAN

WatchOK ==
    /\ notice \in Never..(Window + 1) /\ gap \in Never..(Window + 1)
    /\ toast \in 0..ToastFor /\ standbyAge \in 0..Retry /\ holdAge \in 0..Retry
    /\ toasts \in Nat

SceneOK ==
    /\ key \in Key /\ age \in 0..(MaxHold + Rest + 1)
    /\ confirm \in Never..MaxHold /\ testLeft \in 0..TestFor

RefusalOK == refusal \in 0..ShowFor

LoopOK == kick \in BOOLEAN /\ due \in Nat /\ drawing \in Text \cup {NoDraw}

CountsOK == covered \in Nat /\ held \in Nat /\ again \in BOOLEAN /\ events \in 0..MaxEvents

LEMMA Parts ==
    TypeOK <=> /\ MpvOK /\ ScreenOK /\ LinkOK /\ StoreOK /\ WatchOK
               /\ SceneOK /\ RefusalOK /\ LoopOK /\ CountsOK
BY DEF TypeOK, MpvOK, ScreenOK, LinkOK, StoreOK, WatchOK, SceneOK, RefusalOK, LoopOK, CountsOK

LEMMA PartsNext ==
    TypeOK' <=> /\ MpvOK' /\ ScreenOK' /\ LinkOK' /\ StoreOK' /\ WatchOK'
                /\ SceneOK' /\ RefusalOK' /\ LoopOK' /\ CountsOK'
BY Parts, PTL

\* A part of the state that stays keeps its type.
LEMMA Untouched ==
    /\ MpvOK /\ UNCHANGED mpv => MpvOK'
    /\ ScreenOK /\ UNCHANGED <<screen, shown>> => ScreenOK'
    /\ LinkOK /\ UNCHANGED link => LinkOK'
    /\ StoreOK /\ UNCHANGED store => StoreOK'
    /\ WatchOK /\ UNCHANGED watch => WatchOK'
    /\ SceneOK /\ UNCHANGED scene => SceneOK'
    /\ RefusalOK /\ UNCHANGED refusal => RefusalOK'
    /\ LoopOK /\ UNCHANGED loop => LoopOK'
    /\ CountsOK /\ UNCHANGED <<past, events>> => CountsOK'
BY DEF MpvOK, ScreenOK, LinkOK, StoreOK, WatchOK, SceneOK, RefusalOK, LoopOK, CountsOK,
       mpv, link, store, watch, scene, loop, past

\* One event from outside more.
LEMMA EventOK == CountsOK /\ Event /\ UNCHANGED past => CountsOK'
BY CardConstants DEF CountsOK, Event, past

LEMMA EnterStandbyOK ==
    ASSUME EnterStandby, file \in File PROVE file' \in File /\ intro' \in 0..Intro
BY CardConstants DEF EnterStandby, File

LEMMA NextIsNat ==
    ASSUME SceneOK, MpvOK, NEW k \in Key, NEW t \in Nat
    PROVE  NextOf(k, t) \in Nat
<1>1. PairingNext \in Nat
  BY CardConstants DEF MpvOK, PairingNext
<1>2. TestCardNext \in Nat
  BY MinOfTwo, CardConstants DEF SceneOK, TestCardNext
<1>3. ConfirmNext(t) \in Nat
  BY HoldType, CardConstants DEF SceneOK, ConfirmNext
<1>4. ToastNext(t) \in Nat
  BY CardConstants DEF ToastNext
<1> QED
  BY <1>1, <1>2, <1>3, <1>4, CardConstants DEF NextOf

LEMMA RefreshType == TypeOK /\ Refresh => TypeOK'
<1> SUFFICES ASSUME TypeOK, Refresh PROVE TypeOK'
  OBVIOUS
<1>1. /\ MpvOK /\ ScreenOK /\ LinkOK /\ StoreOK /\ WatchOK
      /\ SceneOK /\ RefusalOK /\ LoopOK /\ CountsOK
  BY Parts
<1>2. MpvOK'
  <2>1. file' \in File /\ intro' \in 0..Intro
    BY <1>1, EnterStandbyOK DEF Refresh, OnTheWay, WhenAway, StandbyWhenAway, MpvOK, File
  <2> QED BY <1>1, <2>1 DEF Refresh, MpvOK
<1>3. WatchOK'
  <2>1. standbyAge' \in 0..Retry /\ holdAge' \in 0..Retry
    BY <1>1, CardConstants DEF Refresh, OnTheWay, WhenAway, StandbyWhenAway, WatchOK
  <2>2. notice' \in Never..(Window + 1) /\ toast' \in 0..ToastFor /\ toasts' \in Nat
    BY <1>1, CardConstants DEF Refresh, OnTheWay, Watch, WatchOK, Never, Window
  <2>3. gap' \in Never..(Window + 1)
    BY <1>1, CardConstants DEF Refresh, OnTheWay, Watch, WatchOK, Never, Window
  <2> QED BY <2>1, <2>2, <2>3 DEF WatchOK
<1>4. SceneAge \in 0..(MaxHold + Rest + 1) /\ SceneAge \in Nat
  BY <1>1, AgeType DEF SceneOK
<1>5. SceneOK'
  <2>1. confirm' \in Never..MaxHold
    BY <1>1, <1>4, HoldType, CardConstants DEF Refresh, SceneOK, Never
  <2> QED BY <1>1, <1>4, <2>1, SceneKey DEF Refresh, SceneOK
<1>6. LoopOK'
  <2>1. due' \in Nat
    <3>1. NextOf(Scene, SceneAge) \in Nat /\ Frame \in Nat
      BY <1>1, <1>4, SceneKey, NextIsNat, CardConstants
    <3>2. due' = Max({NextOf(Scene, SceneAge), Frame})
      BY DEF Refresh
    <3> QED BY <3>1, <3>2, MaxOfTwo
  <2>2. drawing' \in Text
    BY SceneKey, TextType DEF Refresh
  <2>3. kick' \in BOOLEAN
    BY <1>1 DEF Refresh, Wakes, LoopOK
  <2> QED BY <2>1, <2>2, <2>3 DEF LoopOK
<1>7. UNCHANGED <<screen, shown, link, store, refusal, past, events>>
  BY DEF Refresh
<1>8. ScreenOK' /\ LinkOK' /\ StoreOK' /\ RefusalOK' /\ CountsOK'
  BY <1>1, <1>7, Untouched
<1> QED
  BY <1>2, <1>3, <1>5, <1>6, <1>8, PartsNext

LEMMA TickType == TypeOK /\ Tick => TypeOK'
<1> SUFFICES ASSUME TypeOK, Tick PROVE TypeOK'
  OBVIOUS
<1>1. /\ MpvOK /\ ScreenOK /\ LinkOK /\ StoreOK /\ WatchOK
      /\ SceneOK /\ RefusalOK /\ LoopOK /\ CountsOK
  BY Parts
<1>2. UNCHANGED <<screen, shown, store>>
  BY DEF Tick
<1>3. MpvOK'
  BY <1>1, LessIsLess, CardConstants DEF Tick, MpvOK
<1>4. LinkOK'
  BY <1>1, OlderAge, CardConstants DEF Tick, LinkOK
<1>5. WatchOK'
  <2>1. Window + 1 \in Nat
    BY CardConstants DEF Window
  <2> QED BY <1>1, <2>1, OlderAge, OlderNotice, CardConstants DEF Tick, WatchOK
<1>6. SceneOK'
  <2>1. MaxHold + Rest + 1 \in Nat
    BY CardConstants DEF Rest
  <2> QED BY <1>1, <2>1, OlderAge, LessIsLess, CardConstants DEF Tick, SceneOK
<1>7. RefusalOK'
  BY <1>1, LessIsLess, CardConstants DEF Tick, RefusalOK
<1>8. LoopOK' /\ CountsOK'
  BY <1>1 DEF Tick, LoopOK, CountsOK
<1> QED
  BY <1>1, <1>2, <1>3, <1>4, <1>5, <1>6, <1>7, <1>8, PartsNext, Untouched

LEMMA TypeStep == TypeOK /\ [Next]_vars => TypeOK'
<1> SUFFICES ASSUME TypeOK, [Next]_vars PROVE TypeOK'
  OBVIOUS
<1>0. /\ MpvOK /\ ScreenOK /\ LinkOK /\ StoreOK /\ WatchOK
      /\ SceneOK /\ RefusalOK /\ LoopOK /\ CountsOK
  BY Parts
<1>1. CASE RefreshDown
  <2>1. ScreenOK' /\ LoopOK'
    BY <1>0, <1>1, CardConstants DEF RefreshDown, Wakes, ScreenOK, LoopOK, Text
  <2>2. UNCHANGED <<mpv, link, store, watch, scene, refusal, past, events>>
    BY <1>1 DEF RefreshDown
  <2> QED BY <1>0, <2>1, <2>2, PartsNext, Untouched
<1>2. CASE Sends
  <2>1. ScreenOK' /\ LoopOK'
    BY <1>0, <1>2 DEF Sends, Free, ScreenOK, LoopOK
  <2>2. UNCHANGED <<mpv, link, store, watch, scene, refusal, past, events>>
    BY <1>2 DEF Sends
  <2> QED BY <1>0, <2>1, <2>2, PartsNext, Untouched
<1>3. CASE Forget
  <2>1. MpvOK' /\ ScreenOK' /\ LoopOK'
    BY <1>0, <1>3 DEF Forget, MpvOK, ScreenOK, LoopOK, Text
  <2>2. UNCHANGED <<link, store, watch, scene, refusal, past, events>>
    BY <1>3 DEF Forget
  <2> QED BY <1>0, <2>1, <2>2, PartsNext, Untouched
<1>4. CASE Observe \/ Enter \/ LostMpv \/ FileEnds
  <2>1. MpvOK'
    <3>1. Enter => file' \in File /\ intro' \in 0..Intro
      BY <1>0, EnterStandbyOK DEF Enter, MpvOK
    <3> QED BY <1>0, <1>4, <3>1 DEF Observe, Enter, LostMpv, FileEnds, MpvOK, File
  <2>2. UNCHANGED <<screen, shown, link, store, watch, scene, refusal, loop, past, events>>
    BY <1>4 DEF Observe, Enter, LostMpv, FileEnds
  <2> QED BY <1>0, <2>1, <2>2, PartsNext, Untouched
<1>13. CASE Connect
  <2>1. MpvOK' /\ CountsOK'
    BY <1>0, <1>13 DEF Connect, MpvOK, CountsOK
  <2>2. UNCHANGED <<screen, shown, link, store, watch, scene, refusal, loop>>
    BY <1>13 DEF Connect
  <2> QED BY <1>0, <2>1, <2>2, PartsNext, Untouched
<1>5. CASE PathChanged
  <2>1. MpvOK' /\ CountsOK'
    BY <1>0, <1>5 DEF PathChanged, MpvOK, CountsOK
  <2>2. UNCHANGED <<screen, shown, link, store, watch, scene, refusal, loop>>
    BY <1>5 DEF PathChanged
  <2> QED BY <1>0, <2>1, <2>2, PartsNext, Untouched
<1>6. CASE MpvDies
  <2>1. MpvOK' /\ ScreenOK'
    BY <1>0, <1>6 DEF MpvDies, MpvOK, File, ScreenOK, Text
  <2>2. UNCHANGED <<link, store, watch, scene, refusal, loop>> /\ Event /\ UNCHANGED past
    BY <1>6 DEF MpvDies
  <2> QED BY <1>0, <2>1, <2>2, PartsNext, Untouched, EventOK
<1>7. CASE Attach \/ Detach
  <2>1. LoopOK'
    BY <1>0, <1>7 DEF Attach, Detach, LoopOK
  <2>4. LinkOK'
    <3>1. attached' \in BOOLEAN /\ linkAge' = 0
      BY <1>7 DEF Attach, Detach
    <3> QED BY <3>1, CardConstants DEF LinkOK
  <2>3. RefusalOK' /\ WatchOK'
    BY <1>0, <1>7, CardConstants DEF Attach, Detach, RefusalOK, WatchOK, watch
  <2>2. UNCHANGED <<mpv, screen, shown, store, scene>> /\ Event /\ UNCHANGED past
    BY <1>7 DEF Attach, Detach
  <2> QED BY <1>0, <2>1, <2>2, <2>3, <2>4, PartsNext, Untouched, EventOK
<1>8. CASE PostStandby \/ \E f \in {"programme", "hold"} : CinefinPlays(f)
  <2>1. MpvOK'
    BY <1>0, <1>8, EnterStandbyOK DEF PostStandby, CinefinPlays, MpvOK, File
  <2>2. /\ UNCHANGED <<screen, shown, link, store, watch, scene, refusal, loop>>
        /\ Event /\ UNCHANGED past
    BY <1>8 DEF PostStandby, CinefinPlays
  <2> QED BY <1>0, <2>1, <2>2, PartsNext, Untouched, EventOK
<1>9. CASE PutStandby \/ Pair \/ Unpair
  <2>1. StoreOK'
    BY <1>0, <1>9 DEF PutStandby, Pair, Unpair, StoreOK
  <2>2. /\ UNCHANGED <<mpv, screen, shown, link, watch, scene, refusal, loop>>
        /\ Event /\ UNCHANGED past
    BY <1>9 DEF PutStandby, Pair, Unpair
  <2> QED BY <1>0, <2>1, <2>2, PartsNext, Untouched, EventOK
<1>10. CASE Refuse \/ \E b \in BOOLEAN : SetTestCard(b)
  <2>1. LoopOK'
    BY <1>0, <1>10 DEF Refuse, SetTestCard, LoopOK
  <2>3. SceneOK' /\ RefusalOK'
    BY <1>0, <1>10, CardConstants DEF Refuse, SetTestCard, SceneOK, RefusalOK, scene
  <2>2. UNCHANGED <<mpv, screen, shown, link, store, watch>> /\ Event /\ UNCHANGED past
    BY <1>10 DEF Refuse, SetTestCard
  <2> QED BY <1>0, <2>1, <2>2, <2>3, PartsNext, Untouched, EventOK
<1>11. CASE StartConfirm \/ UnpairGoesOn
  <2>1. StoreOK' /\ LoopOK'
    BY <1>0, <1>11 DEF StartConfirm, UnpairGoesOn, StoreOK, LoopOK
  <2>3. SceneOK'
    BY <1>0, <1>11, CardConstants DEF StartConfirm, UnpairGoesOn, SceneOK, Never
  <2>4. RefusalOK'
    BY <1>0, <1>11, CardConstants DEF StartConfirm, UnpairGoesOn, RefusalOK
  <2>2. UNCHANGED <<mpv, screen, shown, link, watch, past, events>>
    BY <1>11 DEF StartConfirm, UnpairGoesOn
  <2> QED BY <1>0, <2>1, <2>2, <2>3, <2>4, PartsNext, Untouched
<1>12. CASE UNCHANGED vars
  <2>1. UNCHANGED <<mpv, screen, shown, link, store, watch, scene, refusal, loop, past, events>>
    BY <1>12 DEF vars
  <2> QED BY <1>0, <2>1, PartsNext, Untouched
<1> QED
  BY <1>1, <1>2, <1>3, <1>4, <1>5, <1>6, <1>7, <1>8, <1>9, <1>10, <1>11, <1>12, <1>13,
     RefreshType, TickType
  DEF Next, Loop, Callback, Mpv, Cinefin

LEMMA TypeInit == Init => TypeOK
<1> SUFFICES ASSUME Init PROVE TypeOK
  OBVIOUS
<1>1. MpvOK
  <2>1. /\ up \in BOOLEAN /\ alive \in BOOLEAN /\ sawDown \in BOOLEAN
        /\ callback = "done" /\ file = "none" /\ path = "none" /\ intro = 0
    BY DEF Init
  <2>2. 0 \in 0..Intro
    BY CardConstants
  <2> QED BY <2>1, <2>2 DEF MpvOK, File
<1>6. LinkOK
  <2>1. attached \in BOOLEAN /\ linkAge = 0
    BY DEF Init
  <2>2. 0 \in 0..Grace
    BY CardConstants
  <2> QED BY <2>1, <2>2 DEF LinkOK
<1>7. ScreenOK /\ StoreOK
  BY DEF Init, ScreenOK, StoreOK, Text
<1>2. WatchOK
  BY CardConstants DEF Init, WatchOK, Never, Window
<1>3. SceneOK
  <2>1. key = "none" /\ age = 0 /\ confirm = Never /\ testLeft = 0
    BY DEF Init
  <2>2. age \in 0..(MaxHold + Rest + 1) /\ confirm \in Never..MaxHold /\ testLeft \in 0..TestFor
    BY <2>1, CardConstants DEF Rest, Never
  <2> QED BY <2>1, <2>2 DEF SceneOK, Key
<1>4. LoopOK
  BY DEF Init, LoopOK
<1>5. RefusalOK /\ CountsOK
  <2>1. refusal = 0 /\ covered = 0 /\ held = 0 /\ events = 0 /\ again \in BOOLEAN
    BY DEF Init
  <2>2. 0 \in Nat /\ 0 \in 0..ShowFor /\ 0 \in 0..MaxEvents
    BY CardConstants
  <2> QED BY <2>1, <2>2 DEF RefusalOK, CountsOK
<1> QED
  BY <1>1, <1>2, <1>3, <1>4, <1>5, <1>6, <1>7, Parts

\* Every age and every count of Card is within the bounds its owner keeps it
\* to; no redraw is ever owed for a time that is over (card.go, card_*.go).
THEOREM TypeCorrect == Spec => []TypeOK
BY TypeInit, TypeStep, PTL DEF Spec
-----------------------------------------------------------------------------
(* A hold that Cinefin left behind                                         *)

\* The code's times: a scene at rest is looked at less often than a frame is
\* drawn, and a hold may be ended again by the time Cinefin has been away for
\* linkGrace once more.
RestingIsSlower == Frame <= Idle
RetryInGrace    == Retry <= Grace

\* Away from Cinefin, a paired player's next redraw is idleRedraw away at most;
\* only the confirmation sleeps longer.
DozesInv ==
    (paired /\ ~attached /\ ~kick /\ request = "none") =>
        (key = "confirm" /\ confirm # Never) \/ due <= Idle

\* A hold that mpv plays is as old as Cinefin's absence: none has been ended since.
EndedInv ==
    /\ ~up => ~alive
    /\ ~alive => file = "none"
    /\ (~attached /\ file = "hold") => (holdAge >= linkAge \/ holdAge = Retry)

LeftHeld == Plain /\ AwayLong /\ path = "hold" /\ file = "hold"

\* The redraw that ends the hold comes no later than idleRedraw after it fell due.
HeldInv ==
    /\ held <= Idle
    /\ (held > 0 /\ LeftHeld /\ ~kick /\ request = "none") => held + due <= Idle

\* The next redraw that Refresh asks for, by the scene it draws.
LEMMA RestingNext ==
    ASSUME RestingIsSlower, TypeOK, paired, ~attached, Scene # "confirm"
    PROVE  Max({NextOf(Scene, SceneAge), Frame}) <= Idle
<1>1. Scene \in {"testcard", "status", "none", "link-offline"}
  BY DEF Scene, First, Choose, LinkKey
<1>2. CASE Scene = "testcard"
  <2>1. TestCardNext \in Int /\ TestCardNext <= Idle
    BY MinOfTwo, CardConstants DEF TestCardNext, TypeOK
  <2> QED BY <1>2, <2>1, MaxOfTwo, CardConstants DEF NextOf, RestingIsSlower
<1>3. CASE Scene # "testcard"
  BY <1>1, <1>3, MaxOfTwo, CardConstants DEF NextOf, RestingIsSlower
<1> QED BY <1>2, <1>3

\* A confirmation that is drawn is under way.
LEMMA ConfirmGoesOn ==
    ASSUME Refresh, Scene = "confirm", TypeOK
    PROVE  confirm' # Never /\ First = "confirm" /\ ~Finished(First)
<1>1. First = "confirm" /\ ~Finished(First)
  BY DEF Scene, First, Choose, LinkKey
<1>2. Hold(SceneAge) \in 0..MaxHold
  BY AgeType, HoldType DEF TypeOK
<1> QED BY <1>1, <1>2, CardConstants DEF Refresh, Never

LEMMA DozesStep == RestingIsSlower /\ TypeOK /\ DozesInv /\ [Next]_vars => DozesInv'
<1> SUFFICES ASSUME RestingIsSlower, TypeOK, DozesInv, [Next]_vars PROVE DozesInv'
  OBVIOUS
<1> USE DEF DozesInv
<1>1. CASE RefreshDown
  BY <1>1, CardConstants DEF RefreshDown
<1>2. CASE Refresh
  <2>1. UNCHANGED <<paired, attached, request>> /\ key' = Scene
    BY <1>2 DEF Refresh, store, link
  <2>2. CASE Scene = "confirm"
    BY <1>2, <2>1, <2>2, ConfirmGoesOn
  <2>3. CASE Scene # "confirm" /\ paired /\ ~attached
    <3>1. due' <= Idle
      BY <1>2, <2>3, RestingNext DEF Refresh
    <3> QED BY <3>1
  <2> QED BY <2>1, <2>2, <2>3
<1>3. CASE Attach \/ Detach
  BY <1>3 DEF Attach, Detach
<1>4. CASE Pair \/ Unpair
  BY <1>4 DEF Pair, Unpair
<1>5. CASE StartConfirm \/ UnpairGoesOn
  BY <1>5 DEF StartConfirm, UnpairGoesOn
<1>6. CASE Tick
  <2>1. due' = due - 1 /\ UNCHANGED <<paired, attached, request, key, confirm, kick>>
    BY <1>6 DEF Tick, store
  <2>2. due \in Nat
    BY DEF TypeOK
  <2> QED BY <2>1, <2>2, CardConstants
<1>7. CASE Refuse \/ \E b \in BOOLEAN : SetTestCard(b)
  BY <1>7 DEF Refuse, SetTestCard
<1>8. CASE \/ Sends \/ Callback \/ Mpv \/ PostStandby \/ PutStandby
           \/ \E f \in {"programme", "hold"} : CinefinPlays(f)
  <2>1. UNCHANGED <<paired, attached, request, key, confirm, due>> /\ (kick' \/ kick' = kick)
    BY <1>8 DEF Sends, Callback, Forget, Observe, Enter, Mpv, Connect, MpvDies, LostMpv,
                PathChanged, FileEnds, PostStandby, PutStandby, CinefinPlays, store, link,
                scene, loop
  <2> QED BY <2>1
<1>9. CASE UNCHANGED vars
  BY <1>9 DEF vars, store, link, scene, loop
<1> QED
  BY <1>1, <1>2, <1>3, <1>4, <1>5, <1>6, <1>7, <1>8, <1>9 DEF Next, Loop, Cinefin

LEMMA EndedStep == TypeOK /\ EndedInv /\ [Next]_vars => EndedInv'
<1> SUFFICES ASSUME TypeOK, EndedInv, [Next]_vars PROVE EndedInv'
  OBVIOUS
<1> USE DEF EndedInv
<1>0. holdAge \in 0..Retry /\ linkAge \in 0..Grace /\ Retry \in Nat /\ Grace \in Nat
  BY CardConstants DEF TypeOK
<1>1. CASE Refresh
  <2>1. UNCHANGED <<up, alive, attached, linkAge>>
    BY <1>1 DEF Refresh, link
  <2>2. ~alive => file' = "none"
    BY <1>1 DEF Refresh, OnTheWay, WhenAway, StandbyWhenAway, EnterStandby
  <2>3. file' = "hold" => file = "hold" /\ holdAge' = holdAge
    BY <1>1, <2>2 DEF Refresh, OnTheWay, WhenAway, StandbyWhenAway, EnterStandby
  <2> QED BY <2>1, <2>2, <2>3
<1>2. CASE Enter \/ PostStandby
  <2>1. UNCHANGED <<up, alive, attached, linkAge, holdAge>>
    BY <1>2 DEF Enter, PostStandby, link, watch
  <2>2. file' \in {file, "ident", "none"} /\ (~alive => file' = file)
    BY <1>2 DEF Enter, PostStandby, EnterStandby
  <2> QED BY <2>1, <2>2
<1>3. CASE Connect \/ MpvDies \/ LostMpv
  BY <1>3 DEF Connect, MpvDies, LostMpv, link, watch
<1>4. CASE FileEnds
  BY <1>4 DEF FileEnds, link, watch
<1>5. CASE Attach \/ Detach
  BY <1>0, <1>5 DEF Attach, Detach, mpv, watch
<1>6. CASE \E f \in {"programme", "hold"} : CinefinPlays(f)
  BY <1>6 DEF CinefinPlays, link
<1>7. CASE Tick
  <2>1. UNCHANGED <<up, alive, attached, file>>
    BY <1>7 DEF Tick
  <2>2. ~attached => linkAge' = (IF linkAge < Grace THEN linkAge + 1 ELSE Grace)
    BY <1>0, <1>7, OlderAge DEF Tick
  <2>3. holdAge' = (IF holdAge < Retry THEN holdAge + 1 ELSE Retry)
    BY <1>0, <1>7, OlderAge DEF Tick
  <2>4. ~attached /\ (holdAge >= linkAge \/ holdAge = Retry) => (holdAge' >= linkAge' \/ holdAge' = Retry)
    BY <1>0, <2>2, <2>3
  <2> QED BY <2>1, <2>4
<1>8. CASE \/ RefreshDown \/ Sends \/ Forget \/ Observe \/ PathChanged \/ PutStandby \/ Refuse
           \/ Pair \/ Unpair \/ StartConfirm \/ UnpairGoesOn
           \/ \E b \in BOOLEAN : SetTestCard(b)
  <2>1. UNCHANGED <<up, alive, file, attached, linkAge, holdAge>>
    BY <1>8 DEF RefreshDown, Sends, Forget, Observe, PathChanged, PutStandby, Refuse, Pair,
                Unpair, StartConfirm, UnpairGoesOn, SetTestCard, mpv, link, watch
  <2> QED BY <2>1
<1>9. CASE UNCHANGED vars
  BY <1>9 DEF vars, mpv, link, watch
<1> QED
  BY <1>1, <1>2, <1>3, <1>4, <1>5, <1>6, <1>7, <1>8, <1>9
     DEF Next, Loop, Callback, Mpv, Cinefin

\* A redraw while Cinefin is away ends the hold it finds.
LEMMA RefreshEndsHold ==
    ASSUME RetryInGrace, TypeOK, EndedInv, Refresh PROVE ~LeftHeld'
<1> SUFFICES ASSUME LeftHeld' PROVE FALSE
  OBVIOUS
<1>1. /\ up /\ alive /\ paired /\ testLeft = 0 /\ ~attached /\ linkAge >= Grace
      /\ path = "hold" /\ confirm' = Never /\ file' = "hold"
  BY DEF Refresh, LeftHeld, Plain, AwayLong, link, store
<1>2. Scene # "confirm"
  BY <1>1, ConfirmGoesOn
<1>3. Scene = "none"
  BY <1>1, <1>2 DEF Scene, First, Choose, TestCardOn, TypeOK
<1>4. WhenAway
  BY <1>1, <1>3 DEF Refresh, OnTheWay
<1>5. file = "hold"
  BY <1>1, <1>4 DEF WhenAway, StandbyWhenAway, EnterStandby
<1>6. holdAge = Retry
  BY <1>1, <1>5, CardConstants DEF EndedInv, RetryInGrace, TypeOK
<1> QED BY <1>1, <1>4, <1>5, <1>6 DEF WhenAway, AwayLong

LEMMA HeldStep ==
    RestingIsSlower /\ RetryInGrace /\ TypeOK /\ DozesInv /\ EndedInv /\ HeldInv /\ [Next]_vars
        => HeldInv'
<1> SUFFICES ASSUME RestingIsSlower, RetryInGrace, TypeOK, DozesInv, EndedInv, HeldInv,
                    [Next]_vars
             PROVE  HeldInv'
  OBVIOUS
<1> USE DEF HeldInv
<1>0. held \in Nat /\ due \in Nat /\ Idle \in Nat /\ Grace \in Nat \ {0}
  BY CardConstants DEF TypeOK
<1>1. CASE Refresh
  <2>1. ~LeftHeld'
    BY <1>1, RefreshEndsHold
  <2>2. held' = held
    BY <1>1 DEF Refresh, past
  <2> QED BY <2>1, <2>2
<1>2. CASE RefreshDown
  <2>1. ~up' /\ held' = held
    BY <1>2 DEF RefreshDown, mpv, past
  <2> QED BY <2>1 DEF LeftHeld, Plain
<1>3. CASE Connect
  <2>1. file' = "none" /\ held' = held
    BY <1>3 DEF Connect, EndedInv, past
  <2> QED BY <2>1 DEF LeftHeld
<1>4. CASE PathChanged
  BY <1>4, <1>0 DEF PathChanged
<1>5. CASE \E f \in {"programme", "hold"} : CinefinPlays(f)
  <2>1. attached' /\ held' = held
    BY <1>5 DEF CinefinPlays, link, past
  <2> QED BY <2>1 DEF LeftHeld, AwayLong
<1>6. CASE Attach \/ Detach
  <2>1. (attached' \/ linkAge' = 0) /\ held' = held
    BY <1>6 DEF Attach, Detach, past
  <2> QED BY <1>0, <2>1 DEF LeftHeld, AwayLong, Attach, Detach
<1>7. CASE Pair \/ Unpair
  <2>1. request' # "none" /\ held' = held
    BY <1>7 DEF Pair, Unpair, past
  <2> QED BY <2>1
<1>8. CASE StartConfirm \/ UnpairGoesOn \/ Refuse \/ \E b \in BOOLEAN : SetTestCard(b)
  <2>1. kick' = TRUE /\ held' = held
    BY <1>8 DEF StartConfirm, UnpairGoesOn, Refuse, SetTestCard, past
  <2> QED BY <2>1
<1>9. CASE Tick
  <2>1. due' = due - 1 /\ due > 0 /\ ~kick /\ request = "none"
    BY <1>9 DEF Tick
  <2>2. CASE Holds
    <3>1. held' = held + 1
      BY <1>9, <2>2 DEF Tick
    <3>2. due <= Idle
      BY <2>1, <2>2 DEF DozesInv, Holds, Plain, AwayLong
    <3>3. held > 0 => held + due <= Idle
      BY <2>1, <2>2 DEF Holds, LeftHeld
    <3> QED BY <1>0, <2>1, <3>1, <3>2, <3>3
  <2>3. CASE ~Holds
    <3>1. held' = 0
      BY <1>9, <2>3 DEF Tick
    <3> QED BY <1>0, <3>1
  <2> QED BY <2>2, <2>3
<1>10. CASE Sends \/ Forget \/ Observe \/ Enter \/ MpvDies \/ LostMpv \/ FileEnds
           \/ PostStandby \/ PutStandby
  <2>1. UNCHANGED <<paired, request, testLeft, confirm, attached, linkAge, due, held>>
    BY <1>10 DEF Sends, Forget, Observe, Enter, MpvDies, LostMpv, FileEnds, PostStandby,
                 PutStandby, store, link, scene, loop, past
  <2>2. (kick' \/ kick' = kick) /\ (up' => up) /\ (alive' => alive)
    BY <1>10 DEF Sends, Forget, Observe, Enter, MpvDies, LostMpv, FileEnds, PostStandby,
                 PutStandby, mpv, loop
  <2>3. path' \in {path, "none"}
    BY <1>10 DEF Sends, Forget, Observe, Enter, MpvDies, LostMpv, FileEnds, PostStandby,
                 PutStandby, mpv, EnterStandby
  <2>4. file' \in {file, "none", "ident"}
    BY <1>10 DEF Sends, Forget, Observe, Enter, MpvDies, LostMpv, FileEnds, PostStandby,
                 PutStandby, mpv, EnterStandby
  <2>5. LeftHeld' => LeftHeld
    BY <2>1, <2>2, <2>3, <2>4 DEF LeftHeld, Plain, AwayLong
  <2> QED BY <2>1, <2>2, <2>5
<1>11. CASE UNCHANGED vars
  <2>1. /\ UNCHANGED <<up, alive, paired, request, testLeft, confirm, attached, linkAge>>
        /\ UNCHANGED <<path, file, kick, due, held>>
    BY <1>11 DEF vars, mpv, store, link, scene, loop, past
  <2> QED BY <2>1 DEF LeftHeld, Plain, AwayLong
<1> QED
  BY <1>1, <1>2, <1>3, <1>4, <1>5, <1>6, <1>7, <1>8, <1>9, <1>10, <1>11
     DEF Next, Loop, Callback, Mpv, Cinefin

\* A programme that Cinefin held and left is let go on by the first redraw after
\* linkGrace, whatever mpv, the loop and a pairing do in between (card_link.go,
\* endHoldWhenAway).
THEOREM HoldIsEnded == RestingIsSlower /\ RetryInGrace => (Spec => []HoldEnds)
<1> SUFFICES ASSUME RestingIsSlower, RetryInGrace PROVE Spec => []HoldEnds
  OBVIOUS
<1>1. Init => TypeOK /\ DozesInv /\ EndedInv /\ HeldInv
  <2> SUFFICES ASSUME Init PROVE DozesInv /\ EndedInv /\ HeldInv
    BY TypeInit
  <2>1. held = 0 /\ due = 0 /\ file = "none" /\ ~up /\ ~alive
    BY DEF Init
  <2>2. 0 <= Idle
    BY CardConstants
  <2> QED BY <2>1, <2>2 DEF DozesInv, EndedInv, HeldInv
<1>2. TypeOK /\ DozesInv /\ EndedInv /\ HeldInv /\ [Next]_vars
      => TypeOK' /\ DozesInv' /\ EndedInv' /\ HeldInv'
  BY TypeStep, DozesStep, EndedStep, HeldStep
<1>3. HeldInv => HoldEnds
  BY DEF HeldInv, HoldEnds
<1> QED BY <1>1, <1>2, <1>3, PTL DEF Spec

-----------------------------------------------------------------------------
(* An overlay that a programme finds on the screen                         *)

\* The longest that the loop sleeps, but for a confirmation and the pairing box:
\* idleRedraw, or a toast between its fades.
Sleep == Max({Idle, ToastFor - 2 * ToastFade})

SleepsInv ==
    (paired /\ ~kick /\ request = "none") => (key = "confirm" /\ confirm # Never) \/ due <= Sleep

Covering ==
    /\ paired /\ testLeft = 0 /\ confirm = Never
    /\ path \in {"programme", "hold"}
    /\ Settled /\ Overlay # "blank" /\ request = "none"

CoveredInv ==
    /\ covered <= Sleep
    /\ (covered > 0 /\ Covering) => covered + due <= Sleep

LEMMA SleepIsLongest ==
    /\ Sleep \in Int /\ Sleep >= Idle
    /\ Sleep >= ToastFor - 2 * ToastFade
    /\ Sleep > 0
<1>1. Idle \in Int /\ ToastFor - 2 * ToastFade \in Int /\ Idle > 0
  BY CardConstants
<1>2. Sleep = IF Idle >= ToastFor - 2 * ToastFade THEN Idle ELSE ToastFor - 2 * ToastFade
  BY <1>1, MaxOfTwo DEF Sleep
<1> QED BY <1>1, <1>2

LEMMA PairedNext ==
    ASSUME RestingIsSlower, TypeOK, paired, Scene # "confirm"
    PROVE  Max({NextOf(Scene, SceneAge), Frame}) <= Sleep
<1>1. Scene \in {"testcard", "status", "none", "link-offline", "link-online"}
  BY DEF Scene, First, Choose, LinkKey
<1>2. SceneAge \in Nat
  BY AgeType DEF TypeOK
<1>3. NextOf(Scene, SceneAge) \in Int /\ NextOf(Scene, SceneAge) <= Sleep
  <2>1. CASE Scene = "testcard"
    <3>1. TestCardNext \in Int /\ TestCardNext <= Idle
      BY MinOfTwo, CardConstants DEF TestCardNext, TypeOK
    <3> QED BY <2>1, <3>1, SleepIsLongest, CardConstants DEF NextOf
  <2>2. CASE Scene = "link-online"
    <3>1. ToastNext(SceneAge) \in Int /\ ToastNext(SceneAge) <= Sleep
      BY <1>2, SleepIsLongest, CardConstants DEF ToastNext, RestingIsSlower
    <3> QED BY <2>2, <3>1 DEF NextOf
  <2>3. CASE Scene \in {"status", "none", "link-offline"}
    BY <2>3, SleepIsLongest, CardConstants DEF NextOf
  <2> QED BY <1>1, <2>1, <2>2, <2>3
<1> QED BY <1>3, MaxOfTwo, SleepIsLongest, CardConstants DEF RestingIsSlower

LEMMA SleepsStep == RestingIsSlower /\ TypeOK /\ SleepsInv /\ [Next]_vars => SleepsInv'
<1> SUFFICES ASSUME RestingIsSlower, TypeOK, SleepsInv, [Next]_vars PROVE SleepsInv'
  OBVIOUS
<1>0. UNCHANGED Sleep
  BY DEF Sleep
<1> USE <1>0 DEF SleepsInv
<1>1. CASE RefreshDown
  BY <1>1, SleepIsLongest, CardConstants DEF RefreshDown
<1>2. CASE Refresh
  <2>1. UNCHANGED <<paired, request>> /\ key' = Scene
    BY <1>2 DEF Refresh, store
  <2>2. CASE Scene = "confirm"
    BY <1>2, <2>1, <2>2, ConfirmGoesOn
  <2>3. CASE Scene # "confirm" /\ paired
    <3>1. due' <= Sleep
      BY <1>2, <2>3, PairedNext DEF Refresh
    <3> QED BY <3>1
  <2> QED BY <2>1, <2>2, <2>3
<1>3. CASE Attach \/ Detach \/ Refuse \/ \E b \in BOOLEAN : SetTestCard(b)
  BY <1>3 DEF Attach, Detach, Refuse, SetTestCard
<1>4. CASE Pair \/ Unpair
  BY <1>4 DEF Pair, Unpair
<1>5. CASE StartConfirm \/ UnpairGoesOn
  BY <1>5 DEF StartConfirm, UnpairGoesOn
<1>6. CASE Tick
  <2>1. due' = due - 1 /\ UNCHANGED <<paired, request, key, confirm, kick>>
    BY <1>6 DEF Tick, store
  <2>2. due \in Nat
    BY DEF TypeOK
  <2> QED BY <2>1, <2>2, SleepIsLongest
<1>7. CASE \/ Sends \/ Callback \/ Mpv \/ PostStandby \/ PutStandby
           \/ \E f \in {"programme", "hold"} : CinefinPlays(f)
  <2>1. UNCHANGED <<paired, request, key, confirm, due>> /\ (kick' \/ kick' = kick)
    BY <1>7 DEF Sends, Callback, Forget, Observe, Enter, Mpv, Connect, MpvDies, LostMpv,
                PathChanged, FileEnds, PostStandby, PutStandby, CinefinPlays, store, link,
                scene, loop
  <2> QED BY <2>1
<1>8. CASE UNCHANGED vars
  BY <1>8 DEF vars, store, link, scene, loop
<1> QED
  BY <1>1, <1>2, <1>3, <1>4, <1>5, <1>6, <1>7, <1>8 DEF Next, Loop, Cinefin

\* Over a programme the loop draws nothing.
LEMMA RefreshUncovers == ASSUME TypeOK, Refresh PROVE ~Covering'
<1> SUFFICES ASSUME Covering' PROVE FALSE
  OBVIOUS
<1>1. paired /\ testLeft = 0 /\ confirm' = Never /\ path # "ident"
  BY DEF Refresh, Covering, store
<1>2. Scene # "confirm"
  BY <1>1, ConfirmGoesOn
<1>3. Scene = "none"
  BY <1>1, <1>2 DEF Scene, First, Choose, TestCardOn, TypeOK
<1>4. drawing' = "blank"
  BY <1>3 DEF Refresh, TextOf
<1> QED BY <1>4 DEF Covering, Overlay, Free, NoDraw

LEMMA CoveredStep ==
    Quick /\ RestingIsSlower /\ MemoryInv /\ TypeOK /\ SleepsInv /\ CoveredInv /\ [Next]_vars
        => CoveredInv'
<1> SUFFICES ASSUME Quick, RestingIsSlower, MemoryInv, TypeOK, SleepsInv, CoveredInv, [Next]_vars
             PROVE  CoveredInv'
  OBVIOUS
<1>0. covered \in Nat /\ due \in Nat /\ UNCHANGED Sleep
  BY DEF TypeOK, Sleep
<1> USE <1>0, SleepIsLongest DEF CoveredInv
<1>1. CASE Refresh
  <2>1. covered' = covered
    BY <1>1 DEF Refresh, past
  <2> QED BY <1>1, <2>1, RefreshUncovers
<1>2. CASE RefreshDown
  <2>1. Overlay' = "blank" /\ covered' = covered
    BY <1>2 DEF RefreshDown, Overlay, Free, NoDraw, past
  <2> QED BY <2>1 DEF Covering
<1>3. CASE Connect \/ Forget
  <2>1. covered' = covered
    BY <1>3 DEF Connect, Forget, past
  <2>2. callback' = "forget" \/ Overlay' = "blank"
    BY <1>3 DEF Connect, Forget, MemoryInv, Overlay, Free, loop
  <2> QED BY <2>1, <2>2 DEF Covering, Settled
<1>4. CASE PathChanged
  BY <1>4 DEF PathChanged
<1>5. CASE Pair \/ Unpair
  <2>1. request' # "none" /\ covered' = covered
    BY <1>5 DEF Pair, Unpair, past
  <2> QED BY <2>1 DEF Covering
<1>6. CASE \/ StartConfirm \/ UnpairGoesOn \/ Attach \/ Detach \/ Refuse
           \/ \E b \in BOOLEAN : SetTestCard(b)
  <2>1. kick' = TRUE /\ covered' = covered
    BY <1>6 DEF StartConfirm, UnpairGoesOn, Attach, Detach, Refuse, SetTestCard, past
  <2> QED BY <2>1 DEF Covering, Settled
<1>7. CASE Tick
  <2>1. due' = due - 1 /\ due > 0 /\ ~kick /\ request = "none" /\ callback = "done" /\ Free
    BY <1>7 DEF Tick
  <2>2. CASE Covers
    <3>1. covered' = covered + 1
      BY <1>7, <2>2 DEF Tick
    <3>2. due <= Sleep
      BY <2>1, <2>2 DEF SleepsInv, Covers, Plain
    <3>3. Covering
      BY <2>1, <2>2 DEF Covers, Plain, Covering, Settled, Overlay, MemoryInv
    <3> QED BY <2>1, <3>1, <3>2, <3>3
  <2>3. CASE ~Covers
    BY <1>7, <2>3 DEF Tick
  <2> QED BY <2>2, <2>3
<1>8. CASE Sends
  <2>1. UNCHANGED <<paired, request, testLeft, confirm, path, alive, callback, kick, due, covered>>
    BY <1>8 DEF Sends, store, scene, mpv, past
  <2>2. alive => Overlay' = Overlay
    BY <1>8 DEF Sends, Overlay, Free, MemoryInv
  <2> QED BY <2>1, <2>2 DEF Covering, Settled
<1>9. CASE \/ Observe \/ Enter \/ MpvDies \/ LostMpv \/ FileEnds \/ PostStandby \/ PutStandby
           \/ \E f \in {"programme", "hold"} : CinefinPlays(f)
  <2>1. UNCHANGED <<paired, request, testLeft, confirm, shown, drawing, kick, due, covered>>
    BY <1>9 DEF Observe, Enter, MpvDies, LostMpv, FileEnds, PostStandby, PutStandby,
                CinefinPlays, store, scene, loop, past
  <2>2. (alive' => alive) /\ (callback' # "forget" => callback # "forget")
    BY <1>9 DEF Observe, Enter, MpvDies, LostMpv, FileEnds, PostStandby, PutStandby,
                CinefinPlays, mpv
  <2>3. path' \in {path, "none"}
    BY <1>9 DEF Observe, Enter, MpvDies, LostMpv, FileEnds, PostStandby, PutStandby,
                CinefinPlays, mpv
  <2>4. Covering' => Covering
    BY <2>1, <2>2, <2>3 DEF Covering, Settled, Overlay, Free
  <2> QED BY <2>1, <2>4
<1>10. CASE UNCHANGED vars
  <2>1. /\ UNCHANGED <<paired, request, testLeft, confirm, shown, drawing, kick, due, covered>>
        /\ UNCHANGED <<alive, callback, path>>
    BY <1>10 DEF vars, mpv, store, scene, loop, past
  <2> QED BY <2>1 DEF Covering, Settled, Overlay, Free
<1> QED
  BY <1>1, <1>2, <1>3, <1>4, <1>5, <1>6, <1>7, <1>8, <1>9, <1>10
     DEF Next, Loop, Callback, Mpv, Cinefin

\* An overlay that a programme finds on the screen is gone with the next redraw,
\* whatever the scene was, however long it wanted to sleep, and whether mpv or
\* Cinefin goes in between (card.refresh, card.choose).
THEOREM OverlayLeaves == Quick /\ RestingIsSlower => (Spec => []KeepsOffProgramme)
<1> SUFFICES ASSUME Quick, RestingIsSlower PROVE Spec => []KeepsOffProgramme
  OBVIOUS
<1>1. Init => TypeOK /\ MemoryInv /\ SleepsInv /\ CoveredInv
  <2> SUFFICES ASSUME Init PROVE SleepsInv /\ CoveredInv
    BY TypeInit, MemoryInit
  <2>1. covered = 0 /\ due = 0
    BY DEF Init
  <2> QED BY <2>1, SleepIsLongest DEF SleepsInv, CoveredInv
<1>2. TypeOK /\ MemoryInv /\ SleepsInv /\ CoveredInv /\ [Next]_vars
      => TypeOK' /\ MemoryInv' /\ SleepsInv' /\ CoveredInv'
  BY TypeStep, MemoryStep, SleepsStep, CoveredStep
<1>3. CoveredInv => KeepsOffProgramme
  BY DEF CoveredInv, Sleep, KeepsOffProgramme
<1> QED BY <1>1, <1>2, <1>3, PTL DEF Spec

-----------------------------------------------------------------------------
(* What ends by itself                                                     *)

\* The clock ticks once a frame: the loop cannot redraw sooner.
FrameIsTick == Frame = 1

\* The redraw that ends the test card, and the one that ends the confirmation,
\* come before their time is over.
EndsInv ==
    /\ (Settled /\ Overlay = "testcard") => due <= testLeft
    /\ (~up /\ ~sawDown) => key = "none"
    /\ (Settled /\ key = "confirm") => age + due <= MaxHold + Rest

\* No scene but the test card draws it.
LEMMA TestCardText ==
    ASSUME NEW k \in Key, NEW t, TextOf(k, t) = "testcard" PROVE k = "testcard"
BY DEF TextOf, Key, PairingText, LinkState, ConfirmText

\* Once the hold is known the confirmation ends with its exit; until then it
\* waits no longer than MaxHold.
LEMMA ConfirmNextInTime ==
    ASSUME FrameIsTick, TypeOK, Scene = "confirm"
    PROVE  SceneAge + Max({NextOf(Scene, SceneAge), Frame}) <= MaxHold + Rest
<1>1. First = "confirm" /\ ~Finished(First) /\ SceneAge = Since(First)
  BY DEF Scene, SceneAge, First, Choose, LinkKey
<1>2. SceneAge \in Nat
  BY AgeType DEF TypeOK
<1>3. Hold(SceneAge) \in 0..MaxHold /\ (Hold(SceneAge) = 0 => SceneAge < MaxHold)
  BY <1>2, HoldType DEF TypeOK
<1>4. Hold(SceneAge) > 0 => SceneAge < Hold(SceneAge) + Rest
  BY <1>1, <1>2, <1>3, CardConstants DEF Finished, Rest
<1>5. ConfirmNext(SceneAge) \in Nat \ {0}
  BY <1>2, <1>3, CardConstants DEF ConfirmNext
<1>6. SceneAge + ConfirmNext(SceneAge) <= MaxHold + Rest
  BY <1>2, <1>3, <1>4, CardConstants DEF ConfirmNext, Rest, FrameIsTick
<1>7. Max({ConfirmNext(SceneAge), Frame}) = ConfirmNext(SceneAge)
  BY <1>5, MaxOfTwo DEF FrameIsTick
<1> QED BY <1>6, <1>7 DEF NextOf

LEMMA TestCardNextInTime ==
    ASSUME FrameIsTick, TypeOK, Scene = "testcard"
    PROVE  Max({NextOf(Scene, SceneAge), Frame}) <= testLeft
<1>1. testLeft > 0
  BY DEF Scene, First, Choose, LinkKey, TestCardOn
<1>2. TestCardNext \in Nat \ {0} /\ TestCardNext <= testLeft
  BY <1>1, MinOfTwo, CardConstants DEF TestCardNext, TypeOK
<1>3. Max({TestCardNext, Frame}) = TestCardNext
  BY <1>2, MaxOfTwo DEF FrameIsTick
<1> QED BY <1>2, <1>3 DEF NextOf

LEMMA EndsStep ==
    Quick /\ FrameIsTick /\ MemoryInv /\ TypeOK /\ EndsInv /\ [Next]_vars => EndsInv'
<1> SUFFICES ASSUME Quick, FrameIsTick, MemoryInv, TypeOK, EndsInv, [Next]_vars
             PROVE  EndsInv'
  OBVIOUS
<1>0. due \in Nat /\ age \in Nat /\ testLeft \in Nat /\ MaxHold + Rest \in Nat
  BY CardConstants DEF TypeOK, Rest
<1> USE <1>0 DEF EndsInv
<1>1. CASE Refresh
  <2>1. UNCHANGED <<up, testLeft>> /\ up /\ key' = Scene /\ age' = SceneAge
    BY <1>1 DEF Refresh
  <2>2. due' = Max({NextOf(Scene, SceneAge), Frame})
    BY <1>1 DEF Refresh
  <2>3. drawing' = TextOf(Scene, SceneAge) /\ drawing' # NoDraw
    BY <1>1, SceneKey DEF Refresh, NoDraw, TextOf, Key, PairingText, LinkState, ConfirmText
  <2>4. Overlay' = "testcard" => due' <= testLeft'
    BY <2>1, <2>2, <2>3, SceneKey, TestCardText, TestCardNextInTime DEF Overlay, Free
  <2>5. key' = "confirm" => age' + due' <= MaxHold + Rest
    BY <2>1, <2>2, ConfirmNextInTime
  <2> QED BY <2>1, <2>4, <2>5
<1>2. CASE RefreshDown
  <2>1. ~alive' /\ UNCHANGED <<up, sawDown, key>>
    BY <1>2 DEF RefreshDown, MemoryInv, mpv, scene
  <2> QED BY <2>1 DEF Settled
<1>3. CASE Connect
  <2>1. up' /\ UNCHANGED <<key, age, due, testLeft>>
    BY <1>3 DEF Connect, scene, loop
  <2>2. callback' = "forget" \/ (Overlay' = "blank" /\ key = "none")
    BY <1>3 DEF Connect, MemoryInv, Overlay, Free, loop
  <2> QED BY <2>1, <2>2 DEF Settled
<1>4. CASE Forget
  <2>1. kick' = TRUE /\ UNCHANGED <<up, sawDown, key>>
    BY <1>4 DEF Forget, scene
  <2> QED BY <2>1 DEF Settled
<1>5. CASE LostMpv
  <2>1. sawDown' /\ ~alive'
    BY <1>5 DEF LostMpv
  <2> QED BY <2>1 DEF Settled
<1>6. CASE Sends
  <2>1. UNCHANGED <<up, sawDown, alive, callback, kick, key, age, due, testLeft>>
    BY <1>6 DEF Sends, mpv, scene
  <2>2. alive => Overlay' = Overlay
    BY <1>6 DEF Sends, Overlay, Free, MemoryInv
  <2> QED BY <2>1, <2>2 DEF Settled
<1>7. CASE \/ StartConfirm \/ UnpairGoesOn \/ Attach \/ Detach \/ Refuse
           \/ \E b \in BOOLEAN : SetTestCard(b)
  <2>1. kick' = TRUE /\ UNCHANGED <<up, sawDown, key>>
    BY <1>7 DEF StartConfirm, UnpairGoesOn, Attach, Detach, Refuse, SetTestCard, mpv, scene
  <2> QED BY <2>1 DEF Settled
<1>8. CASE Tick
  <2>1. /\ due' = due - 1 /\ due > 0
        /\ UNCHANGED <<up, sawDown, alive, callback, kick, key, shown, drawing>>
    BY <1>8 DEF Tick
  <2>2. testLeft > 0 => testLeft' = testLeft - 1
    BY <1>8 DEF Tick, Less
  <2>3. age' <= age + 1
    <3>1. age \in 0..(MaxHold + Rest + 1) /\ MaxHold + Rest + 1 \in Nat
      BY <1>0 DEF TypeOK
    <3>2. age' \in {age, Older(age, MaxHold + Rest + 1)}
      BY <1>8 DEF Tick
    <3> QED BY <3>1, <3>2, OlderAge
  <2>4. age' \in Nat /\ testLeft' \in Nat
    BY TypeStep, CardConstants DEF TypeOK, Rest
  <2>5. UNCHANGED <<Settled, Overlay>>
    BY <2>1 DEF Settled, Overlay, Free
  <2> QED BY <2>1, <2>2, <2>3, <2>4, <2>5
<1>9. CASE \/ Observe \/ Enter \/ MpvDies \/ PathChanged \/ FileEnds \/ PostStandby \/ PutStandby
           \/ Pair \/ Unpair \/ \E f \in {"programme", "hold"} : CinefinPlays(f)
  <2>1. UNCHANGED <<up, sawDown, shown, drawing, kick, key, age, due, testLeft>>
    BY <1>9 DEF Observe, Enter, MpvDies, PathChanged, FileEnds, PostStandby, PutStandby,
                Pair, Unpair, CinefinPlays, mpv, scene, loop
  <2>2. (alive' => alive) /\ (callback' # "forget" => callback # "forget")
    BY <1>9 DEF Observe, Enter, MpvDies, PathChanged, FileEnds, PostStandby, PutStandby,
                Pair, Unpair, CinefinPlays, mpv
  <2>3. Settled' => Settled
    BY <2>1, <2>2 DEF Settled
  <2>4. Overlay' = Overlay
    BY <2>1 DEF Overlay, Free
  <2> QED BY <2>1, <2>3, <2>4
<1>10. CASE UNCHANGED vars
  <2>1. /\ UNCHANGED <<up, sawDown, shown, drawing, kick, key, age, due, testLeft>>
        /\ UNCHANGED <<alive, callback>>
    BY <1>10 DEF vars, mpv, scene, loop
  <2> QED BY <2>1 DEF Settled, Overlay, Free
<1> QED
  BY <1>1, <1>2, <1>3, <1>4, <1>5, <1>6, <1>7, <1>8, <1>9, <1>10
     DEF Next, Loop, Callback, Mpv, Cinefin

\* The test card is gone when its time is over, or it is switched off, or the
\* player is unpaired, and the confirmation when its exit is, with or without
\* Cinefin's link and across restarts of mpv (card_testcard.go, card_confirm.go).
THEOREM ScenesAreOver == Quick /\ FrameIsTick => (Spec => []ScenesEnd)
<1> SUFFICES ASSUME Quick, FrameIsTick PROVE Spec => []ScenesEnd
  OBVIOUS
<1>1. Init => TypeOK /\ MemoryInv /\ EndsInv
  <2> SUFFICES ASSUME Init PROVE EndsInv
    BY TypeInit, MemoryInit
  <2>1. ~alive /\ key = "none"
    BY DEF Init
  <2> QED BY <2>1 DEF EndsInv, Settled
<1>2. TypeOK /\ MemoryInv /\ EndsInv /\ [Next]_vars => TypeOK' /\ MemoryInv' /\ EndsInv'
  BY TypeStep, MemoryStep, EndsStep
<1>3. TypeOK /\ MemoryInv /\ EndsInv => ScenesEnd
  <2> SUFFICES ASSUME TypeOK, MemoryInv, EndsInv, Still
               PROVE  /\ testLeft = 0 => screen # "testcard"
                      /\ key = "confirm" => age < MaxHold + Rest
    BY DEF ScenesEnd
  <2>1. Settled /\ Overlay = screen /\ due \in Nat \ {0}
    BY DEF Still, Settled, Overlay, MemoryInv, TypeOK
  <2>2. age \in Nat /\ MaxHold + Rest \in Nat
    BY CardConstants DEF TypeOK, Rest
  <2> QED BY <2>1, <2>2 DEF EndsInv
<1> QED BY <1>1, <1>2, <1>3, PTL DEF Spec
=============================================================================
