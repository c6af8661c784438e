----------------------------- MODULE CardProofs -----------------------------
(***************************************************************************)
(* Proofs about Card, for all its constants: the agent's memory of the     *)
(* overlay is true where it is forgotten before the loop redraws on a new  *)
(* connection; there a refusal is told; a return of Cinefin earns one      *)
(* toast.                                                                  *)
(***************************************************************************)
EXTENDS CardProps, TLAPS

\* The memory of a new connection is wrong until it is forgotten, while nothing
\* is drawn; a first connection has nothing to forget.
MemoryInv ==
    /\ callback \in {"forget", "observe", "enter", "done"}
    /\ callback = "forget" => Free
    /\ ~up => ~alive
    /\ ~alive => screen = "blank"
    /\ (~up /\ ~sawDown) => shown = "blank"
    /\ (alive /\ callback = "forget") => screen = "blank"
    /\ (alive /\ callback # "forget") => screen = shown

\* The variables the memory is about.
Remembered == <<up, alive, sawDown, callback, screen, shown, drawing>>

\* A toast uses up the notice that earned it.
ToastInv ==
    /\ toasts \in {0, 1}
    /\ (attached /\ toasts = 1) => notice = Never

-----------------------------------------------------------------------------
LEMMA MemoryInit == Init => MemoryInv
BY DEF Init, MemoryInv, Free

LEMMA MemoryStep == Quick /\ MemoryInv /\ [Next]_vars => MemoryInv'
<1> SUFFICES ASSUME Quick, MemoryInv, [Next]_vars PROVE MemoryInv'
  OBVIOUS
<1> USE DEF MemoryInv, Free, NoDraw
<1>1. CASE RefreshDown
  BY <1>1 DEF RefreshDown, mpv
<1>2. CASE Refresh
  BY <1>2 DEF Refresh
<1>3. CASE Sends
  BY <1>3 DEF Sends, mpv
<1>4. CASE Connect
  BY <1>4 DEF Connect, loop
<1>5. CASE Forget
  BY <1>5 DEF Forget
<1>6. CASE Observe
  BY <1>6 DEF Observe, loop
<1>7. CASE Enter
  BY <1>7 DEF Enter, loop
<1>8. CASE MpvDies
  BY <1>8 DEF MpvDies, loop
<1>9. CASE LostMpv
  BY <1>9 DEF LostMpv, loop
<1>10. CASE PathChanged \/ FileEnds
  <2> SUFFICES ASSUME UNCHANGED Remembered PROVE MemoryInv'
    BY <1>10 DEF PathChanged, FileEnds, loop, Remembered
  <2> QED  BY DEF Remembered
<1>11. CASE Cinefin
  <2> SUFFICES ASSUME UNCHANGED Remembered PROVE MemoryInv'
    BY <1>11 DEF Cinefin, Attach, Detach, PostStandby, PutStandby, Refuse, Pair, Unpair,
                 CinefinPlays, SetTestCard, mpv, loop, Remembered
  <2> QED  BY DEF Remembered
<1>12. CASE StartConfirm \/ UnpairGoesOn
  <2> SUFFICES ASSUME UNCHANGED Remembered PROVE MemoryInv'
    BY <1>12 DEF StartConfirm, UnpairGoesOn, mpv, Remembered
  <2> QED  BY DEF Remembered
<1>13. CASE Tick
  BY <1>13 DEF Tick
<1>14. CASE UNCHANGED vars
  BY <1>14 DEF vars, mpv, loop
<1> QED
  BY <1>1, <1>2, <1>3, <1>4, <1>5, <1>6, <1>7, <1>8, <1>9, <1>10, <1>11, <1>12,
     <1>13, <1>14 DEF Next, Loop, Callback, Mpv

\* What the agent remembers to have drawn is on the screen of a living mpv,
\* whichever of mpv, Cinefin and the loop acts in between (card.refresh, forget).
THEOREM OverlayIsKnown == Quick => (Spec => []ShownIsOnScreen)
<1> SUFFICES ASSUME Quick PROVE Spec => []ShownIsOnScreen
  OBVIOUS
<1>1. MemoryInv /\ [Next]_vars => MemoryInv'
  BY MemoryStep
<1>2. MemoryInv => ShownIsOnScreen
  BY DEF MemoryInv, ShownIsOnScreen
<1> QED
  BY <1>1, <1>2, MemoryInit, PTL DEF Spec

-----------------------------------------------------------------------------
(* What is on the screen of a living mpv, or on its way there, when the loop has *)
(* nothing new to look at.                                                       *)

Overlay == IF Free THEN shown ELSE drawing

Settled == alive /\ callback # "forget" /\ ~kick

Untold == {"box", "connecting", "unreachable", "offline"}

RefusalInv ==
    /\ refusal \in Nat
    /\ (Settled /\ Refused) => Overlay \notin Untold

LEMMA ChosenKey == ASSUME NEW c \in BOOLEAN PROVE Choose(c) \in Key
BY DEF Choose, LinkKey, Key

LEMMA SceneKey == Scene \in Key
BY ChosenKey DEF Scene, First

\* A player with a refusal to tell draws nothing that leaves it out.
LEMMA RefusalText ==
    ASSUME Refused, NEW k \in Key, NEW t
    PROVE  TextOf(k, t) \notin Untold
BY DEF TextOf, Key, Untold, PairingText, LinkState, ConfirmText

LEMMA RefusalStep == Quick /\ MemoryInv /\ RefusalInv /\ [Next]_vars => RefusalInv'
<1> SUFFICES ASSUME Quick, MemoryInv, RefusalInv, [Next]_vars PROVE RefusalInv'
  OBVIOUS
<1> USE DEF MemoryInv, RefusalInv, Overlay, Settled, Refused
<1>0. "blank" \notin Untold
  BY DEF Untold
<1>1. CASE RefreshDown
  BY <1>1 DEF RefreshDown, mpv
<1>2. CASE Refresh
  <2>1. Refused => drawing' \notin Untold
    BY <1>2, RefusalText, SceneKey DEF Refresh
  <2>2. refusal' = refusal /\ ~Free'
    BY <1>2, SceneKey DEF Refresh, Free, NoDraw, TextOf, Key, PairingText, LinkState, ConfirmText
  <2> QED
    BY <2>1, <2>2
<1>3. CASE Sends
  BY <1>3 DEF Sends, mpv, Free
<1>4. CASE Connect
  BY <1>4, <1>0 DEF Connect, loop, Free
<1>5. CASE Forget
  BY <1>5 DEF Forget
<1>6. CASE Observe \/ Enter \/ MpvDies \/ LostMpv \/ PathChanged \/ FileEnds
  BY <1>6 DEF Observe, Enter, MpvDies, LostMpv, PathChanged, FileEnds, loop, Free
<1>7. CASE Refuse
  <2>1. kick' /\ refusal' = ShowFor
    BY <1>7 DEF Refuse
  <2> QED
    BY <2>1, CardConstants
<1>8. CASE Cinefin /\ ~Refuse
  <2>1. refusal' \in {refusal, 0} /\ (kick' \/ kick' = kick)
    BY <1>8 DEF Cinefin, Attach, Detach, PostStandby, PutStandby, Pair, Unpair, CinefinPlays,
               SetTestCard, loop
  <2>2. UNCHANGED <<alive, callback, shown, drawing>>
    BY <1>8 DEF Cinefin, Attach, Detach, PostStandby, PutStandby, Pair, Unpair, CinefinPlays,
               SetTestCard, loop, mpv
  <2> QED
    BY <2>1, <2>2 DEF Free
<1>9. CASE StartConfirm \/ UnpairGoesOn
  BY <1>9 DEF StartConfirm, UnpairGoesOn
<1>10. CASE Tick
  BY <1>10 DEF Tick, Less, Free
<1>11. CASE UNCHANGED vars
  BY <1>11 DEF vars, mpv, loop, Free
<1> QED
  BY <1>1, <1>2, <1>3, <1>4, <1>5, <1>6, <1>7, <1>8, <1>9, <1>10, <1>11
     DEF Next, Loop, Callback, Mpv

\* A Cinefin that was refused for its protocol is named in whatever the screen
\* says of Cinefin, wherever the refusal falls between redraws, scenes and
\* restarts of mpv (protocolGate, card.wake).
THEOREM RefusalTold == Quick => (Spec => []RefusalIsTold)
<1> SUFFICES ASSUME Quick PROVE Spec => []RefusalIsTold
  OBVIOUS
<1>1. Init => MemoryInv /\ RefusalInv
  <2>1. Init => refusal = 0 /\ ~alive
    BY DEF Init
  <2> QED
    BY <2>1, MemoryInit DEF RefusalInv, Settled, Refused
<1>2. MemoryInv /\ RefusalInv /\ [Next]_vars => MemoryInv' /\ RefusalInv'
  BY MemoryStep, RefusalStep
<1>3. MemoryInv /\ RefusalInv => RefusalIsTold
  BY DEF MemoryInv, RefusalInv, RefusalIsTold, Still, Settled, Overlay, Untold
<1> QED
  BY <1>1, <1>2, <1>3, PTL DEF Spec

-----------------------------------------------------------------------------
LEMMA ToastStep == ToastInv /\ [Next]_vars => ToastInv'
<1> SUFFICES ASSUME ToastInv, [Next]_vars PROVE ToastInv'
  OBVIOUS
<1> USE DEF ToastInv
<1>1. CASE Refresh
  <2>1. Watch \/ UNCHANGED <<notice, toast, toasts>>
    BY <1>1 DEF Refresh, OnTheWay
  <2>2. attached' = attached
    BY <1>1 DEF Refresh, link
  <2> QED
    BY <2>1, <2>2 DEF Watch, Never
<1>2. CASE Attach
  BY <1>2 DEF Attach
<1>3. CASE Detach
  BY <1>3 DEF Detach, watch
<1>4. CASE Tick
  BY <1>4 DEF Tick, Older
<1>5. CASE RefreshDown \/ Sends \/ Callback \/ Mpv \/ StartConfirm \/ UnpairGoesOn
  BY <1>5 DEF RefreshDown, Sends, Callback, Forget, Observe, Enter, Mpv, Connect, MpvDies,
             LostMpv, PathChanged, FileEnds, StartConfirm, UnpairGoesOn, link, watch
<1>6. CASE Cinefin /\ ~Attach /\ ~Detach
  BY <1>6 DEF Cinefin, PostStandby, PutStandby, Refuse, Pair, Unpair, CinefinPlays, SetTestCard,
             link, watch
<1>7. CASE UNCHANGED vars
  BY <1>7 DEF vars, link, watch
<1> QED
  BY <1>1, <1>2, <1>3, <1>4, <1>5, <1>6, <1>7 DEF Next, Loop

\* A return of Cinefin is greeted at most once, however the redraws fall
\* (linkWatch.choose).
THEOREM OneToast == Spec => []ToastOnce
<1>1. Init => ToastInv
  BY DEF Init, ToastInv
<1>2. ToastInv => ToastOnce
  BY DEF ToastInv, ToastOnce
<1> QED
  BY <1>1, <1>2, ToastStep, PTL DEF Spec
=============================================================================
