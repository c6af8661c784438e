------------------------------ MODULE Pairing -------------------------------
(***************************************************************************)
(* Pairing and unpairing as concurrent requests: the pairing codes         *)
(* (PairingCodes), the persisted state (internal/state.Store), the control *)
(* link, the LAN announcement (internal/discovery.Advertiser), and a crash *)
(* with the restart that reloads state.json.                               *)
(*                                                                         *)
(* A request is one goroutine of the HTTP server; its steps are the        *)
(* critical sections it goes through.  A token is a model value; what a    *)
(* Cinefin leaves in the store (launch config, standby spec, address) is   *)
(* the token of the Cinefin that left it.                                  *)
(***************************************************************************)
EXTENDS PairingCodes, FiniteSets

CONSTANTS
    Token,      \* bearer tokens newToken may draw
    NoToken,    \* no token
    SaveFails,  \* whether writing state.json may fail
    Overlap     \* whether requests that passed the token check may still run
                \* when an unpairing starts, a handler may be suspended for a
                \* second or more, and a reset may fall on a starting agent

ASSUME PairingConstants ==
    /\ NoToken \notin Token
    /\ SaveFails \in BOOLEAN
    /\ Overlap \in BOOLEAN

VARIABLES
    up,        \* the agent serves its port
    opened,    \* it has read the state and does not serve yet
    mem,       \* Store.d: its token, and whose settings it holds
    disk,      \* state.json
    pc,        \* where each request is
    with,      \* the token a request was authorised with
    link,      \* the token the attached control client came with
    closing,   \* that client's context has been cancelled
    adv,       \* what Advertiser.Run is doing
    txt,       \* the paired flag of the announcement, made or being made
    granted    \* history: the tokens stored for a client since the last time
               \* the player was unpaired

pairingVars == <<up, opened, mem, disk, pc, with, link, closing, adv, txt, granted>>
store == <<mem, disk>>
control == <<link, closing>>
discovery == <<adv, txt>>

vars == <<codes, pairingVars>>

MaybeToken == Token \cup {NoToken}
StoreData  == [token : MaybeToken, left : MaybeToken]
EmptyStore == [token |-> NoToken, left |-> NoToken]

PairingTypeOK ==
    /\ up \in BOOLEAN
    /\ opened \in BOOLEAN
    /\ mem \in StoreData /\ disk \in StoreData
    /\ pc \in [Req -> {"idle", "check", "store", "announce",
                       "reset", "drop", "fresh", "write", "dial", "attach"}]
    /\ with \in [Req -> MaybeToken]
    /\ link \in MaybeToken
    /\ closing \in BOOLEAN
    /\ adv \in {"idle", "registering", "serving"}
    /\ txt \in BOOLEAN
    /\ granted \subseteq Token

TypeOK == CodesTypeOK /\ PairingTypeOK

Paired == mem.token # NoToken

Init ==
    /\ CodesInit
    /\ up = TRUE /\ opened = FALSE
    /\ mem = EmptyStore /\ disk = EmptyStore
    /\ pc = [r \in Req |-> "idle"]
    /\ with = [r \in Req |-> NoToken]
    /\ link = NoToken /\ closing = FALSE
    /\ adv = "idle" /\ txt = FALSE
    /\ granted = {}

-----------------------------------------------------------------------------
(* The store.                                                              *)

\* saveLocked, with a temporary file and a rename: the file holds the new
\* state, or still the old one.
Save(d) == mem' = d /\ disk' = d

\* SetToken, SetLaunch and Reset keep the new value in memory when the save
\* fails.
SaveFailsKeeping(d) == SaveFails /\ mem' = d /\ UNCHANGED disk

\* SetStandby and SetCinefinAddress go back to the old one.
SaveFailsRevert == SaveFails /\ UNCHANGED <<mem, disk>>

Goto(r, where) == pc' = [pc EXCEPT ![r] = where]

\* The request ends, and what it held is forgotten.
Done(r) == Goto(r, "idle") /\ with' = [with EXCEPT ![r] = NoToken]

InFlight(kinds) == {r \in Req : pc[r] \in kinds}

-----------------------------------------------------------------------------
(* POST /pair                                                              *)

\* handlePair finds the player unpaired; a paired one answers 409.
PairBegins(r) ==
    /\ up /\ pc[r] = "idle"
    /\ ~Paired
    /\ Goto(r, "check")
    /\ UNCHANGED <<codes, up, opened, store, with, control, discovery, granted>>

PairCodeRight(r) ==
    /\ up /\ pc[r] = "check"
    /\ CheckRight(r)
    /\ Goto(r, "store")
    /\ UNCHANGED <<up, opened, store, with, control, discovery, granted>>

PairCodeWrong(r) ==
    /\ up /\ pc[r] = "check"
    /\ CheckWrong
    /\ Goto(r, "idle")
    /\ UNCHANGED <<up, opened, store, with, control, discovery, granted>>

\* 429: locked, or too many attempts.
PairRefused(r) ==
    /\ up /\ pc[r] = "check"
    /\ ~MayTry
    /\ Goto(r, "idle")
    /\ UNCHANGED <<codes, up, opened, store, with, control, discovery, granted>>

\* A drawn token is none of those in use.
Fresh == Token \ ({mem.token, mem.left, disk.token, disk.left, link}
                  \cup granted \cup {with[r] : r \in Req})

\* newToken and SetToken.
PairStores(r) ==
    /\ up /\ pc[r] = "store"
    /\ \E t \in Fresh :
         \/ /\ Save([mem EXCEPT !.token = t])
            /\ granted' = granted \cup {t}
            /\ Goto(r, "announce")
         \/ /\ SaveFailsKeeping([mem EXCEPT !.token = t])
            /\ Goto(r, "idle")
            /\ UNCHANGED granted
    /\ UNCHANGED <<codes, up, opened, with, control, discovery>>

\* Advertiser.Update: there is nothing to update until a registration is up.
Update == /\ txt' = IF adv = "serving" THEN Paired ELSE txt
          /\ UNCHANGED adv

\* pairingChanged(true) and the reply.
PairAnswers(r) ==
    /\ up /\ pc[r] = "announce"
    /\ Update
    /\ Goto(r, "idle")
    /\ UNCHANGED <<codes, up, opened, store, with, control, granted>>

-----------------------------------------------------------------------------
(* Unpair: the API with a token, and the tray and reset without.           *)

Handlers  == {"write", "dial"}
AfterAuth == Handlers \cup {"attach"}
Suspendable == {"store", "announce"}

UnpairBegins(r) ==
    /\ up /\ pc[r] = "idle"
    /\ Overlap \/ InFlight(AfterAuth \cup Suspendable) = {}
    /\ Goto(r, "reset")
    /\ UNCHANGED <<codes, up, opened, store, with, control, discovery, granted>>

\* Mutant: the file keeps the token.
UnpairInMemory(r) ==
    /\ up /\ pc[r] = "reset"
    /\ granted' = {}
    /\ mem' = EmptyStore /\ Goto(r, "drop")
    /\ UNCHANGED <<codes, up, opened, disk, with, control, discovery>>

UnpairResets(r) ==
    /\ up /\ pc[r] = "reset"
    /\ granted' = {}
    /\ \/ Save(EmptyStore) /\ Goto(r, "drop")
       \/ SaveFailsKeeping(EmptyStore) /\ Goto(r, "idle")
    /\ UNCHANGED <<codes, up, opened, with, control, discovery>>

\* Mutant: the link is left alone.
UnpairKeepsLink(r) ==
    /\ up /\ pc[r] = "drop"
    /\ Goto(r, "fresh")
    /\ UNCHANGED <<codes, up, opened, store, with, control, discovery, granted>>

\* control.disconnect cancels the context of the client that is attached now.
UnpairDropsLink(r) ==
    /\ up /\ pc[r] = "drop"
    /\ closing' = (link # NoToken)
    /\ Goto(r, "fresh")
    /\ UNCHANGED <<codes, up, opened, store, with, link, discovery, granted>>

\* pairingChanged(false): the announcement, then a fresh code.
UnpairAnnounces(r) ==
    /\ up /\ pc[r] = "fresh"
    /\ Update
    /\ Rotate
    /\ Goto(r, "idle")
    /\ UNCHANGED <<up, opened, store, with, control, granted>>

-----------------------------------------------------------------------------
(* The requests of a paired Cinefin: the token is checked first, and the   *)
(* handler runs after.                                                     *)

\* auth: the client's token is compared with the stored one.
Authorised(r, handler) ==
    /\ up /\ pc[r] = "idle"
    /\ Paired
    /\ Overlap \/ InFlight({"reset", "drop", "fresh"}) = {}
    /\ with' = [with EXCEPT ![r] = mem.token]
    /\ Goto(r, handler)
    /\ UNCHANGED <<codes, up, opened, store, control, discovery, granted>>

\* PUT /standby; PUT /hostconfig keeps what it could not save.
Writes(r) ==
    /\ up /\ pc[r] = "write"
    /\ \/ Save([mem EXCEPT !.left = with[r]])
       \/ SaveFailsKeeping([mem EXCEPT !.left = with[r]])
       \/ SaveFailsRevert
    /\ Done(r)
    /\ UNCHANGED <<codes, up, opened, control, discovery, granted>>

\* serveControl: Cinefin's address is saved, unless it is the one the store
\* has ...
Dials(r) ==
    /\ up /\ pc[r] = "dial"
    /\ \/ Save([mem EXCEPT !.left = with[r]])
       \/ SaveFailsRevert
       \/ mem.left # NoToken /\ UNCHANGED store
    /\ Goto(r, "attach")
    /\ UNCHANGED <<codes, up, opened, with, control, discovery, granted>>

\* ... and the client attached, which displaces the one before.
Attaches(r) ==
    /\ up /\ pc[r] = "attach"
    /\ link' = with[r] /\ closing' = FALSE
    /\ Done(r)
    /\ UNCHANGED <<codes, up, opened, store, discovery, granted>>

\* The read loop ends and detaches: the context was cancelled, or the client
\* has gone.
LinkEnds ==
    /\ up /\ link # NoToken
    /\ link' = NoToken /\ closing' = FALSE
    /\ UNCHANGED <<codes, up, opened, store, pc, with, discovery, granted>>

-----------------------------------------------------------------------------
(* Advertiser.Run                                                          *)

\* The TXT records are built, and the registration takes its time.
AdvRegisters ==
    /\ up /\ adv = "idle"
    /\ adv' = "registering" /\ txt' = Paired
    /\ UNCHANGED <<codes, up, opened, store, pc, with, control, granted>>

AdvServes ==
    /\ up /\ adv = "registering"
    /\ adv' = "serving"
    /\ UNCHANGED <<codes, up, opened, store, pc, with, control, txt, granted>>

\* The registration failed, or the network has changed since.
AdvRenews ==
    /\ up /\ adv \in {"registering", "serving"}
    /\ adv' = "idle"
    /\ UNCHANGED <<codes, up, opened, store, pc, with, control, txt, granted>>

-----------------------------------------------------------------------------
(* The process.                                                            *)

\* A crash, a power cut or a stop: memory, requests, link and announcement go.
Crash ==
    /\ up \/ opened
    /\ up' = FALSE /\ opened' = FALSE
    /\ mem' = EmptyStore
    /\ pc' = [r \in Req |-> "idle"]
    /\ with' = [r \in Req |-> NoToken]
    /\ link' = NoToken /\ closing' = FALSE
    /\ adv' = "idle" /\ txt' = FALSE
    /\ UNCHANGED <<codes, disk, granted>>

\* Open reads state.json ...
Opens ==
    /\ ~up /\ ~opened
    /\ opened' = TRUE
    /\ mem' = disk
    /\ UNCHANGED <<codes, up, disk, pc, with, control, discovery, granted>>

\* ... and some time later the port is served.  The codes and their limits
\* start afresh.
Boot ==
    /\ opened
    /\ opened' = FALSE /\ up' = TRUE
    /\ knows' = {} /\ ttl' = Lifetime /\ failures' = 0 /\ lockedFor' = 0
    /\ sinceTry' = MinInterval /\ ages' = [i \in 1 .. MaxFailures |-> Lockout]
    /\ UNCHANGED <<store, pc, with, control, discovery, granted>>

\* `cinefin-playout reset` when no agent answers: the file is reset.
CliReset ==
    /\ ~up /\ (Overlap \/ ~opened)
    /\ disk' = EmptyStore
    /\ granted' = {}
    /\ UNCHANGED <<codes, up, opened, mem, pc, with, control, discovery>>

\* A person, or a client, reads the code off the screen, tray or log.
Reads(r) ==
    /\ up /\ ~Paired
    /\ ReadCode(r)
    /\ UNCHANGED pairingVars

CodeExpires == up /\ RunRotates /\ UNCHANGED pairingVars

\* Without Overlap no handler sits between the code and the reply for a
\* second.
Second ==
    /\ up
    /\ Overlap \/ InFlight({"check"} \cup Suspendable) = {}
    /\ CodesSecond
    /\ UNCHANGED pairingVars

-----------------------------------------------------------------------------
PairSteps(r) == \/ PairBegins(r) \/ PairCodeRight(r) \/ PairCodeWrong(r)
                \/ PairRefused(r) \/ PairStores(r) \/ PairAnswers(r)

UnpairSteps(r) == UnpairBegins(r) \/ UnpairResets(r) \/ UnpairDropsLink(r) \/ UnpairAnnounces(r)

CinefinSteps(r) == \/ \E handler \in Handlers : Authorised(r, handler)
                   \/ Writes(r) \/ Dials(r) \/ Attaches(r)

Advertiser == AdvRegisters \/ AdvServes \/ AdvRenews

Process == Crash \/ Opens \/ Boot \/ CliReset

Next ==
    \/ \E r \in Req : PairSteps(r) \/ UnpairSteps(r) \/ CinefinSteps(r) \/ Reads(r)
    \/ LinkEnds
    \/ Advertiser
    \/ Process
    \/ CodeExpires
    \/ Second

Spec == Init /\ [][Next]_vars
=============================================================================
