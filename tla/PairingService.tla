--------------------------- MODULE PairingService ---------------------------
(***************************************************************************)
(* What pairing promises, to the person at the screen and to each Cinefin: *)
(* the player belongs to one Cinefin or to none.  It changes hands only by *)
(* being given up first, it accepts its owner's token and no other, and    *)
(* nothing of an earlier owner outlives the giving up.  A stop of the      *)
(* agent, at any moment, changes none of this.                             *)
(***************************************************************************)
CONSTANTS
    Token,      \* the Cinefins, by their tokens
    NoToken

VARIABLES
    owner,      \* whose the player is
    settings,   \* whose launch config, standby spec and address it holds
    accepts     \* the token it accepts; NoToken also while the agent is down

serviceVars == <<owner, settings, accepts>>

Init == owner = NoToken /\ settings = NoToken /\ accepts = NoToken

\* The owner is given its token when it is kept for good.
Pair ==
    /\ owner = NoToken
    /\ owner' \in Token
    /\ accepts' = owner'
    /\ UNCHANGED settings

\* The owner leaves something.
Keep ==
    /\ accepts # NoToken
    /\ settings' = owner
    /\ UNCHANGED <<owner, accepts>>

GiveUp == owner' = NoToken /\ settings' = NoToken /\ accepts' = NoToken

\* The agent ends, and starts again.
Down == accepts' = NoToken /\ UNCHANGED <<owner, settings>>
Up   == accepts' = owner /\ UNCHANGED <<owner, settings>>

Next == Pair \/ Keep \/ GiveUp \/ Down \/ Up

Spec == Init /\ [][Next]_serviceVars
=============================================================================
