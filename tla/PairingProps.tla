---------------------------- MODULE PairingProps ----------------------------
(***************************************************************************)
(* What is asked of Pairing, besides the limit on guesses (GuessLimit).    *)
(***************************************************************************)
EXTENDS Pairing

\* A pairing that was given a token stands until it is undone: that token is
\* the one the player accepts and the one a restart will find.  Two requests that both
\* found the player unpaired do not overwrite each other's token: the second
\* code is looked at a second later, when the first pairing is complete.
GrantStands == \A t \in granted : t = disk.token /\ (up => t = mem.token)

\* A token that was taken back, by an unpairing or by a reset without an agent,
\* is not accepted again, not even by an agent that crashes and starts anew: what
\* was taken back in memory is off the disk too (state.go, Reset; main.go,
\* runReset).
RevokedStays == up => mem.token \in granted \cup {NoToken}

\* Once every request has finished, nothing a Cinefin left or holds belongs to
\* any other than the paired one: unpairing "clears the token, launch config
\* and standby spec, drops the control link" (docs/ARCHITECTURE.md).
Quiet == up /\ ~closing /\ \A r \in Req : pc[r] = "idle"

NothingLeftBehind == Quiet => /\ mem.left \in {NoToken, mem.token}
                              /\ link \in {NoToken, mem.token}

\* main.go: "keep the paired flag in the announcement current".
AnnouncedCurrent == (Quiet /\ adv = "serving") => txt = Paired

\* The requests, the store, the file and the restarts together do what
\* PairingService says in single steps.
Service == INSTANCE PairingService
    WITH owner <- disk.token, settings <- disk.left,
         accepts <- IF up THEN mem.token ELSE NoToken

ImplementsService == Service!Spec
=============================================================================
