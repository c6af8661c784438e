--------------------------- MODULE PairingProofs ----------------------------
(***************************************************************************)
(* Theorems about Pairing, for any requests, tokens, limits and timing.    *)
(***************************************************************************)
EXTENDS PairingProps, TLAPS

USE CodesConstants, PairingConstants DEF CodesConstants, PairingConstants

CodesInv == CodesTypeOK /\ CountedOrLocked

-----------------------------------------------------------------------------
(* The pairing codes, whichever requests use them.                         *)

\* The state Codes starts in, and restarts in.
LEMMA FreshCodes ==
  ASSUME knows = {}, ttl = Lifetime, failures = 0, lockedFor = 0,
         sinceTry = MinInterval, ages = [i \in 1 .. MaxFailures |-> Lockout]
  PROVE  CodesInv
<1>1. CodesTypeOK
  BY DEF CodesTypeOK
<1>2. CountedOrLocked
  BY DEF CountedOrLocked
<1> QED BY <1>1, <1>2 DEF CodesInv

LEMMA ReadKeeps ==
  ASSUME CodesInv, NEW r \in Req, ReadCode(r)
  PROVE  CodesInv'
  BY DEF CodesInv, CodesTypeOK, CountedOrLocked, ReadCode

LEMMA RotateKeeps ==
  ASSUME CodesInv, Rotate
  PROVE  CodesInv'
  BY DEF CodesInv, CodesTypeOK, CountedOrLocked, Rotate, RotateLocked

LEMMA RightKeeps ==
  ASSUME CodesInv, NEW r \in Req, CheckRight(r)
  PROVE  CodesInv'
<1>1. CodesTypeOK'
  BY DEF CodesInv, CodesTypeOK, CheckRight, RotateLocked
<1>2. \A i \in 1 .. MaxFailures : ages'[i] = Lockout
  BY DEF CheckRight
<1>3. lockedFor' \in Nat
  BY <1>1 DEF CodesTypeOK
<1>4. CountedOrLocked'
  BY <1>2, <1>3 DEF CountedOrLocked
<1> QED BY <1>1, <1>4 DEF CodesInv

LEMMA WrongKeeps ==
  ASSUME CodesInv, CheckWrong
  PROVE  CodesInv'
<1>1. /\ failures \in 0 .. MaxFailures - 1 /\ lockedFor = 0
      /\ ages \in [1 .. MaxFailures -> 0 .. Lockout]
  BY DEF CodesInv, CodesTypeOK, CheckWrong, MayTry
<1>2. ages' \in [1 .. MaxFailures -> 0 .. Lockout]
  BY <1>1 DEF CheckWrong
<1>3. CASE failures + 1 >= MaxFailures
  <2>1. failures' = 0 /\ lockedFor' = Lockout
    BY <1>3 DEF CheckWrong, CountFailure
  <2>2. CodesTypeOK'
    BY <1>2, <2>1 DEF CodesInv, CodesTypeOK, CheckWrong, RotateLocked
  <2>3. \A i \in 1 .. MaxFailures : ages'[i] \in Nat
    BY <1>2
  <2>4. CountedOrLocked'
    BY <2>1, <2>3 DEF CountedOrLocked
  <2> QED BY <2>2, <2>4 DEF CodesInv
<1>4. CASE ~(failures + 1 >= MaxFailures)
  <2>1. failures' = failures + 1 /\ lockedFor' = lockedFor
    BY <1>4 DEF CheckWrong, CountFailure
  <2>2. CodesTypeOK'
    BY <1>1, <1>2, <1>4, <2>1 DEF CodesInv, CodesTypeOK, CheckWrong, RotateLocked
  <2>3. ASSUME NEW i \in 1 .. MaxFailures, i > failures + 1
        PROVE  ages'[i] + lockedFor >= Lockout
    <3>1. i - 1 \in 1 .. MaxFailures /\ i - 1 > failures /\ i # 1
      BY <1>1, <2>3
    <3>2. ages'[i] = ages[i - 1]
      BY <3>1 DEF CheckWrong
    <3> QED BY <3>1, <3>2 DEF CodesInv, CountedOrLocked
  <2>4. CountedOrLocked'
    BY <2>1, <2>3 DEF CountedOrLocked
  <2> QED BY <2>2, <2>4 DEF CodesInv
<1> QED BY <1>3, <1>4

LEMMA OlderKeeps ==
  ASSUME NEW a \in 0 .. Lockout, NEW l \in 0 .. Lockout, a + l >= Lockout
  PROVE  Older(a, Lockout) + Later(l) >= Lockout
  BY DEF Older, Later

LEMMA SecondKeeps ==
  ASSUME CodesInv, CodesSecond
  PROVE  CodesInv'
<1>1. CodesTypeOK'
  BY DEF CodesInv, CodesTypeOK, CodesSecond, Later, Older
<1>2. ASSUME NEW i \in 1 .. MaxFailures, i > failures
      PROVE  ages'[i] + lockedFor' >= Lockout
  <2>1. ages[i] \in 0 .. Lockout /\ lockedFor \in 0 .. Lockout
    BY DEF CodesInv, CodesTypeOK
  <2>2. ages[i] + lockedFor >= Lockout
    BY <1>2 DEF CodesInv, CountedOrLocked
  <2>3. ages'[i] = Older(ages[i], Lockout) /\ lockedFor' = Later(lockedFor)
    BY DEF CodesSecond
  <2> QED BY <2>1, <2>2, <2>3, OlderKeeps
<1>3. CountedOrLocked'
  BY <1>2 DEF CountedOrLocked, CodesSecond
<1> QED BY <1>1, <1>3 DEF CodesInv

\* Every step of Pairing is a step of the codes, or leaves them alone.
LEMMA CodesStep ==
  ASSUME [Next]_vars
  PROVE  \/ UNCHANGED codes
         \/ \E r \in Req : ReadCode(r) \/ CheckRight(r)
         \/ Rotate \/ CheckWrong \/ CodesSecond
         \/ Boot
<1>1. ASSUME NEW r \in Req, PairSteps(r)
      PROVE  UNCHANGED codes \/ CheckRight(r) \/ CheckWrong
  BY <1>1 DEF PairSteps, PairBegins, PairCodeRight, PairCodeWrong, PairRefused,
     PairStores, PairAnswers
<1>2. ASSUME NEW r \in Req, UnpairSteps(r)
      PROVE  UNCHANGED codes \/ Rotate
  BY <1>2 DEF UnpairSteps, UnpairBegins, UnpairResets, UnpairDropsLink, UnpairAnnounces
<1>3. ASSUME NEW r \in Req, CinefinSteps(r)
      PROVE  UNCHANGED codes
  BY <1>3 DEF CinefinSteps, Authorised, Writes, Dials, Attaches
<1>4. ASSUME Advertiser \/ LinkEnds \/ Crash \/ Opens \/ CliReset
      PROVE  UNCHANGED codes
  BY <1>4 DEF Advertiser, AdvRegisters, AdvServes, AdvRenews, LinkEnds, Crash, Opens, CliReset
<1> QED
  BY <1>1, <1>2, <1>3, <1>4
  DEF Next, vars, Process, Reads, CodeExpires, RunRotates, Second

LEMMA CodesInvStep == ASSUME CodesInv, [Next]_vars PROVE CodesInv'
<1>1. CASE UNCHANGED codes
  BY <1>1 DEF codes, CodesInv, CodesTypeOK, CountedOrLocked
<1>2. CASE Boot
  <2>1. /\ knows' = {} /\ ttl' = Lifetime /\ failures' = 0 /\ lockedFor' = 0
        /\ sinceTry' = MinInterval /\ ages' = [i \in 1 .. MaxFailures |-> Lockout]
    BY <1>2 DEF Boot
  <2>2. CodesTypeOK'
    BY <2>1 DEF CodesTypeOK
  <2>3. CountedOrLocked'
    BY <2>1 DEF CountedOrLocked
  <2> QED BY <2>2, <2>3 DEF CodesInv
<1> QED
  BY <1>1, <1>2, CodesStep, ReadKeeps, RightKeeps, RotateKeeps, WrongKeeps, SecondKeeps

\* The counter, the deadlines and the history keep their types, and every
\* wrong code not counted any more is older than the current lockout.
THEOREM CodesInvariant == Spec => []CodesInv
<1>1. Init => CodesInv
  BY FreshCodes DEF Init, CodesInit
<1>2. CodesInv /\ [Next]_vars => CodesInv'
  BY CodesInvStep
<1> QED BY <1>1, <1>2, PTL DEF Spec

\* Guessing is limited: MaxFailures + 1 wrong codes in a row take longer than
\* the lockout, whichever clients send them and whatever else goes on.
THEOREM GuessingIsLimited == Spec => GuessLimit
<1>1. CodesInv => (CheckWrong => ages[MaxFailures] >= Lockout)
  <2> SUFFICES ASSUME CodesInv, CheckWrong PROVE ages[MaxFailures] >= Lockout
    OBVIOUS
  <2>1. MaxFailures \in 1 .. MaxFailures /\ MaxFailures > failures /\ lockedFor = 0
    BY DEF CodesInv, CodesTypeOK, CheckWrong, MayTry
  <2>2. ages[MaxFailures] \in Nat
    BY <2>1 DEF CodesInv, CodesTypeOK
  <2>3. ages[MaxFailures] + lockedFor >= Lockout
    BY <2>1 DEF CodesInv, CountedOrLocked
  <2> QED BY <2>1, <2>2, <2>3
<1>2. CodesInv /\ [Next]_vars => [CheckWrong => ages[MaxFailures] >= Lockout]_codes
  BY <1>1
<1> QED BY <1>2, CodesInvariant, PTL DEF Spec, GuessLimit

-----------------------------------------------------------------------------
(* Types.                                                                  *)

LEMMA InBoolean == ASSUME NEW P \in BOOLEAN PROVE (P = TRUE) \/ (P = FALSE)
  OBVIOUS

LEMMA PairedIsBoolean == Paired \in BOOLEAN
  BY DEF Paired

LEMMA StoreTypes ==
  ASSUME mem \in StoreData, NEW t \in MaybeToken
  PROVE  /\ [mem EXCEPT !.token = t] \in StoreData
         /\ [mem EXCEPT !.left = t] \in StoreData
         /\ EmptyStore \in StoreData
  BY DEF StoreData, EmptyStore, MaybeToken

LEMMA PairTypes ==
  ASSUME PairingTypeOK, NEW r \in Req, PairSteps(r)
  PROVE  PairingTypeOK'
<1>1. CASE PairBegins(r) \/ PairCodeRight(r) \/ PairCodeWrong(r) \/ PairRefused(r)
  BY <1>1 DEF PairingTypeOK, PairBegins, PairCodeRight, PairCodeWrong, PairRefused, Goto,
     store, control, discovery
<1>2. CASE PairStores(r)
  <2>1. PICK t \in Fresh :
          \/ /\ Save([mem EXCEPT !.token = t])
             /\ granted' = granted \cup {t}
             /\ Goto(r, "announce")
          \/ /\ SaveFailsKeeping([mem EXCEPT !.token = t])
             /\ Goto(r, "idle")
             /\ UNCHANGED granted
    BY <1>2 DEF PairStores
  <2>2. t \in Token /\ t \in MaybeToken
    BY DEF Fresh, MaybeToken
  <2>3. [mem EXCEPT !.token = t] \in StoreData
    BY <2>2, StoreTypes DEF PairingTypeOK
  <2> QED
    BY <1>2, <2>1, <2>2, <2>3
    DEF PairStores, PairingTypeOK, Save, SaveFailsKeeping, Goto, control, discovery
<1>3. CASE PairAnswers(r)
  <2>1. txt' \in BOOLEAN
    BY <1>3, PairedIsBoolean DEF PairAnswers, Update, PairingTypeOK
  <2> QED BY <1>3, <2>1 DEF PairAnswers, Update, PairingTypeOK, Goto, store, control
<1> QED BY <1>1, <1>2, <1>3 DEF PairSteps

LEMMA UnpairTypes ==
  ASSUME PairingTypeOK, NEW r \in Req, UnpairSteps(r)
  PROVE  PairingTypeOK'
<1>1. CASE UnpairBegins(r)
  BY <1>1 DEF PairingTypeOK, UnpairBegins, Goto, store, control, discovery
<1>2. CASE UnpairResets(r)
  <2>1. EmptyStore \in StoreData
    BY DEF StoreData, EmptyStore, MaybeToken
  <2> QED
    BY <1>2, <2>1
    DEF UnpairResets, PairingTypeOK, Save, SaveFailsKeeping, Goto, control, discovery
<1>3. CASE UnpairDropsLink(r)
  <2>1. closing' \in BOOLEAN
    BY <1>3 DEF UnpairDropsLink
  <2> QED BY <1>3, <2>1 DEF UnpairDropsLink, PairingTypeOK, Goto, store, discovery
<1>4. CASE UnpairAnnounces(r)
  <2>1. txt' \in BOOLEAN
    BY <1>4, PairedIsBoolean DEF UnpairAnnounces, Update, PairingTypeOK
  <2> QED BY <1>4, <2>1 DEF UnpairAnnounces, Update, PairingTypeOK, Goto, store, control
<1> QED BY <1>1, <1>2, <1>3, <1>4 DEF UnpairSteps

LEMMA CinefinTypes ==
  ASSUME PairingTypeOK, NEW r \in Req, CinefinSteps(r)
  PROVE  PairingTypeOK'
<1>1. CASE \E handler \in Handlers : Authorised(r, handler)
  <2>1. PICK handler \in Handlers : Authorised(r, handler)
    BY <1>1
  <2>2. mem.token \in MaybeToken
    BY DEF PairingTypeOK, StoreData
  <2> QED
    BY <2>1, <2>2
    DEF Authorised, AfterAuth, Handlers, PairingTypeOK, Goto, store, control, discovery
<1>2. CASE Writes(r) \/ Dials(r)
  <2>1. with[r] \in MaybeToken
    BY DEF PairingTypeOK
  <2>2. [mem EXCEPT !.left = with[r]] \in StoreData
    BY <2>1, StoreTypes DEF PairingTypeOK
  <2>3. mem' \in StoreData /\ disk' \in StoreData
    BY <1>2, <2>2
    DEF Writes, Dials, Save, SaveFailsKeeping, SaveFailsRevert, PairingTypeOK, store
  <2>4. pc' \in [Req -> {"idle", "check", "store", "announce",
                         "reset", "drop", "fresh", "write", "dial", "attach"}]
        /\ with' \in [Req -> MaybeToken]
    BY <1>2 DEF Writes, Dials, Done, Goto, PairingTypeOK, MaybeToken
  <2> QED
    BY <1>2, <2>1, <2>3, <2>4 DEF Writes, Dials, PairingTypeOK, control, discovery
<1>3. CASE Attaches(r)
  BY <1>3 DEF Attaches, Done, Goto, PairingTypeOK, MaybeToken, store, discovery
<1> QED BY <1>1, <1>2, <1>3 DEF CinefinSteps

LEMMA OtherTypes ==
  ASSUME PairingTypeOK, LinkEnds \/ Advertiser \/ Process
  PROVE  PairingTypeOK'
<1>1. CASE LinkEnds
  BY <1>1 DEF LinkEnds, PairingTypeOK, MaybeToken, store, discovery
<1>2. CASE AdvRegisters
  <2>1. txt' \in BOOLEAN
    BY <1>2, PairedIsBoolean DEF AdvRegisters
  <2> QED BY <1>2, <2>1 DEF AdvRegisters, PairingTypeOK, store, control
<1>3. CASE AdvServes \/ AdvRenews
  BY <1>3 DEF AdvServes, AdvRenews, PairingTypeOK, store, control
<1>4. CASE Crash
  BY <1>4 DEF Crash, PairingTypeOK, StoreData, EmptyStore, MaybeToken
<1>5. CASE Opens \/ Boot
  BY <1>5 DEF Opens, Boot, PairingTypeOK, store, control, discovery
<1>6. CASE CliReset
  BY <1>6 DEF CliReset, PairingTypeOK, StoreData, EmptyStore, MaybeToken, control, discovery
<1> QED BY <1>1, <1>2, <1>3, <1>4, <1>5, <1>6 DEF Advertiser, Process

LEMMA TypesStep == ASSUME PairingTypeOK, [Next]_vars PROVE PairingTypeOK'
<1>1. CASE UNCHANGED pairingVars
  BY <1>1 DEF pairingVars, PairingTypeOK
<1> QED
  BY <1>1, PairTypes, UnpairTypes, CinefinTypes, OtherTypes
  DEF Next, vars, Reads, CodeExpires, Second

\* Every variable of Pairing keeps its type, whichever saves fail and whatever
\* overlaps.
THEOREM TypeCorrect == Spec => []TypeOK
<1>1. Init => PairingTypeOK
  <2> SUFFICES ASSUME Init PROVE PairingTypeOK
    OBVIOUS
  <2>1. mem \in StoreData /\ disk \in StoreData /\ NoToken \in MaybeToken
    BY DEF Init, StoreData, EmptyStore, MaybeToken
  <2> QED BY <2>1 DEF Init, PairingTypeOK
<1>2. PairingTypeOK /\ [Next]_vars => PairingTypeOK'
  BY TypesStep
<1>3. CodesInv /\ PairingTypeOK => TypeOK
  BY DEF CodesInv, TypeOK
<1> QED BY <1>1, <1>2, <1>3, CodesInvariant, PTL DEF Spec

-----------------------------------------------------------------------------
(* The pairing itself, when saves succeed and requests take turns.         *)

\* What the runs assume: state.json can be written, no request that passed the
\* token check is still running when an unpairing starts, and two codes are
\* looked at a moment apart.
Serial == ~SaveFails /\ ~Overlap /\ MinInterval > 0

\* The agent acts on what the file holds, and the file holds what was granted
\* and what that Cinefin left.
OnDisk == /\ up \/ opened => mem = disk
          /\ granted = {disk.token} \ {NoToken}
          /\ disk.left \in {NoToken, disk.token}

\* Nothing is in flight while the agent is down, or starts.
DownIsIdle == /\ opened => ~up
              /\ ~up => link = NoToken /\ \A r \in Req : pc[r] = "idle"

\* One right code is looked at, and until its token is stored, and while
\* others still wait for their check, too recently for a second one.
OneRightCode ==
    /\ \A r \in Req : pc[r] = "store" => sinceTry = 0 /\ ~Paired
    /\ \A r, s \in Req : pc[r] = "store" /\ pc[s] = "store" => r = s
    /\ Paired => \A r \in Req : pc[r] = "check" => sinceTry = 0

\* A handler that runs was authorised by the present pairing, and no unpairing
\* runs beside it.
AuthorisedNow ==
    \A r \in Req : pc[r] \in AfterAuth =>
        /\ Paired /\ with[r] = mem.token
        /\ \A s \in Req : pc[s] \notin {"reset", "drop", "fresh"}

\* A link of another Cinefin is about to be dropped.
LinkIsOurs == \/ link \in {NoToken, mem.token}
              \/ closing
              \/ \E r \in Req : pc[r] = "drop"

PairingInv == /\ OnDisk
              /\ DownIsIdle
              /\ OneRightCode
              /\ AuthorisedNow
              /\ LinkIsOurs

\* Pairing.
LEMMA PairKeeps ==
  ASSUME Serial, TypeOK, PairingInv, NEW r \in Req, PairSteps(r)
  PROVE  PairingInv'
<1> USE DEF TypeOK, PairingTypeOK, Goto, Paired
<1>1. CASE PairBegins(r)
  BY <1>1 DEF PairBegins, codes, store, control, PairingInv, OnDisk, DownIsIdle,
     OneRightCode, AuthorisedNow, AfterAuth, Handlers, LinkIsOurs
<1>2. CASE PairCodeRight(r)
  <2>1. sinceTry >= MinInterval /\ sinceTry' = 0 /\ sinceTry \in Nat
    BY <1>2 DEF PairCodeRight, CheckRight, MayTry, CodesTypeOK
  <2>2. ~Paired /\ \A s \in Req : pc[s] # "store"
    BY <1>2, <2>1 DEF Serial, PairCodeRight, PairingInv, OneRightCode
  <2> QED
    BY <1>2, <2>1, <2>2 DEF PairCodeRight, store, control, PairingInv, OnDisk, DownIsIdle,
       OneRightCode, AuthorisedNow, AfterAuth, Handlers, LinkIsOurs
<1>3. CASE PairCodeWrong(r)
  <2>1. sinceTry' = 0
    BY <1>3 DEF PairCodeWrong, CheckWrong
  <2> QED
    BY <1>3, <2>1 DEF PairCodeWrong, store, control, PairingInv, OnDisk, DownIsIdle,
       OneRightCode, AuthorisedNow, AfterAuth, Handlers, LinkIsOurs
<1>4. CASE PairRefused(r)
  BY <1>4 DEF PairRefused, codes, store, control, PairingInv, OnDisk, DownIsIdle,
     OneRightCode, AuthorisedNow, AfterAuth, Handlers, LinkIsOurs
<1>5. CASE PairStores(r)
  <2>1. PICK t \in Fresh : /\ Save([mem EXCEPT !.token = t])
                           /\ granted' = granted \cup {t}
                           /\ Goto(r, "announce")
    BY <1>5 DEF PairStores, SaveFailsKeeping, Serial
  <2>2. t \in Token /\ t # NoToken
    BY DEF Fresh
  <2>3. /\ pc[r] = "store" /\ up /\ ~Paired /\ sinceTry = 0
        /\ \A s \in Req \ {r} : pc[s] # "store"
        /\ mem = disk /\ granted = {} /\ mem.left = NoToken
    BY <1>5 DEF PairStores, PairingInv, OneRightCode, OnDisk
  <2>4. mem'.token = t /\ mem'.left = NoToken /\ disk' = mem'
    BY <2>1, <2>3 DEF Save, StoreData
  <2>5. OnDisk'
    BY <1>5, <2>1, <2>2, <2>3, <2>4 DEF OnDisk
  <2>6. DownIsIdle' /\ OneRightCode'
    BY <1>5, <2>1, <2>3 DEF PairStores, codes, DownIsIdle, OneRightCode, PairingInv
  <2>7. AuthorisedNow'
    BY <1>5, <2>1, <2>3 DEF PairStores, AuthorisedNow, AfterAuth, Handlers, PairingInv
  <2>8. LinkIsOurs'
    BY <1>5, <2>1, <2>3 DEF PairStores, control, LinkIsOurs, PairingInv
  <2> QED BY <2>5, <2>6, <2>7, <2>8 DEF PairingInv
<1>6. CASE PairAnswers(r)
  BY <1>6 DEF PairAnswers, codes, store, control, PairingInv, OnDisk, DownIsIdle,
     OneRightCode, AuthorisedNow, AfterAuth, Handlers, LinkIsOurs
<1> QED BY <1>1, <1>2, <1>3, <1>4, <1>5, <1>6 DEF PairSteps

\* Unpairing.
LEMMA UnpairKeeps ==
  ASSUME Serial, TypeOK, PairingInv, NEW r \in Req, UnpairSteps(r)
  PROVE  PairingInv'
<1> USE DEF TypeOK, PairingTypeOK, Goto, Paired
<1>1. CASE UnpairBegins(r)
  <2>1. \A s \in Req : pc[s] \notin AfterAuth
    BY <1>1 DEF UnpairBegins, Serial, InFlight
  <2> QED
    BY <1>1, <2>1 DEF UnpairBegins, codes, store, control, PairingInv, OnDisk, DownIsIdle,
       OneRightCode, AuthorisedNow, AfterAuth, Handlers, LinkIsOurs
<1>2. CASE UnpairResets(r)
  <2>1. Save(EmptyStore) /\ Goto(r, "drop") /\ granted' = {} /\ pc[r] = "reset"
    BY <1>2 DEF UnpairResets, SaveFailsKeeping, Serial
  <2>2. mem' = disk' /\ mem'.token = NoToken /\ mem'.left = NoToken
    BY <2>1 DEF Save, EmptyStore
  <2>3. OnDisk' /\ LinkIsOurs'
    <3>1. pc'[r] = "drop"
      BY <2>1
    <3>2. LinkIsOurs'
      BY <3>1 DEF LinkIsOurs
    <3>3. OnDisk'
      BY <2>1, <2>2 DEF OnDisk
    <3> QED BY <3>2, <3>3
  <2>4. DownIsIdle' /\ OneRightCode'
    BY <1>2, <2>1, <2>2 DEF UnpairResets, codes, DownIsIdle, OneRightCode, PairingInv
  <2>5. AuthorisedNow'
    BY <1>2, <2>1 DEF UnpairResets, AuthorisedNow, AfterAuth, Handlers, PairingInv
  <2> QED BY <2>3, <2>4, <2>5 DEF PairingInv
<1>3. CASE UnpairDropsLink(r)
  BY <1>3 DEF UnpairDropsLink, codes, store, discovery, PairingInv, OnDisk, DownIsIdle,
     OneRightCode, AuthorisedNow, AfterAuth, Handlers, LinkIsOurs
<1>4. CASE UnpairAnnounces(r)
  BY <1>4 DEF UnpairAnnounces, Rotate, store, control, PairingInv, OnDisk, DownIsIdle,
     OneRightCode, AuthorisedNow, AfterAuth, Handlers, LinkIsOurs
<1> QED BY <1>1, <1>2, <1>3, <1>4 DEF UnpairSteps

\* The requests of the paired Cinefin.
LEMMA CinefinKeeps ==
  ASSUME Serial, TypeOK, PairingInv, NEW r \in Req, CinefinSteps(r)
  PROVE  PairingInv'
<1> USE DEF TypeOK, PairingTypeOK, Goto, Paired
<1>1. CASE \E handler \in Handlers : Authorised(r, handler)
  <2>1. PICK handler \in Handlers : Authorised(r, handler)
    BY <1>1
  <2>2. \A s \in Req : pc[s] \notin {"reset", "drop", "fresh"}
    BY <2>1 DEF Authorised, Serial, InFlight
  <2> QED
    BY <2>1, <2>2 DEF Authorised, codes, store, control, PairingInv, OnDisk, DownIsIdle,
       OneRightCode, AuthorisedNow, AfterAuth, Handlers, LinkIsOurs
<1>2. CASE Writes(r) \/ Dials(r)
  <2>1. /\ up /\ pc[r] \in AfterAuth
        /\ Paired /\ with[r] = mem.token /\ mem = disk
    BY <1>2 DEF Writes, Dials, AfterAuth, Handlers, PairingInv, AuthorisedNow, OnDisk
  <2>2. /\ Done(r) \/ (Goto(r, "attach") /\ with' = with)
        /\ up' = up /\ opened' = opened /\ granted' = granted
        /\ UNCHANGED codes
    BY <1>2 DEF Writes, Dials
  <2>3. /\ mem' = disk' /\ mem'.token = mem.token
        /\ mem'.left \in {mem.left, mem.token}
    BY <1>2, <2>1
    DEF Writes, Dials, Save, SaveFailsKeeping, SaveFailsRevert, Serial, StoreData, store
  <2>4. OnDisk'
    BY <2>1, <2>2, <2>3 DEF PairingInv, OnDisk
  <2>5. \/ pc' = [pc EXCEPT ![r] = "idle"] /\ with' = [with EXCEPT ![r] = NoToken]
        \/ pc' = [pc EXCEPT ![r] = "attach"] /\ with' = with
    BY <2>2 DEF Done
  <2>6. DownIsIdle' /\ OneRightCode' /\ AuthorisedNow'
    BY <2>1, <2>2, <2>3, <2>5
    DEF codes, PairingInv, DownIsIdle, OneRightCode, AuthorisedNow, AfterAuth, Handlers
  <2>7. LinkIsOurs'
    BY <1>2, <2>1, <2>3, <2>5
    DEF Writes, Dials, control, PairingInv, AuthorisedNow, AfterAuth, Handlers, LinkIsOurs
  <2> QED BY <2>4, <2>6, <2>7 DEF PairingInv
<1>3. CASE Attaches(r)
  <2>1. with[r] = mem.token
    BY <1>3 DEF Attaches, PairingInv, AuthorisedNow, AfterAuth, Handlers
  <2> QED
    BY <1>3, <2>1 DEF Attaches, Done, codes, store, PairingInv, OnDisk, DownIsIdle,
       OneRightCode, AuthorisedNow, AfterAuth, Handlers, LinkIsOurs
<1> QED BY <1>1, <1>2, <1>3 DEF CinefinSteps

\* The announcement, the end of a link, the process, and time.
LEMMA OthersKeep ==
  ASSUME Serial, TypeOK, PairingInv,
         \/ LinkEnds \/ Advertiser \/ Process \/ CodeExpires \/ Second
         \/ \E r \in Req : Reads(r)
         \/ UNCHANGED vars
  PROVE  PairingInv'
<1> USE DEF TypeOK, PairingTypeOK, Paired
<1>1. CASE LinkEnds
  BY <1>1 DEF LinkEnds, codes, store, PairingInv, OnDisk, DownIsIdle,
     OneRightCode, AuthorisedNow, AfterAuth, Handlers, LinkIsOurs
<1>2. CASE \/ UNCHANGED <<sinceTry, pairingVars>>
           \/ /\ UNCHANGED <<sinceTry, up, opened, mem, disk, pc, with, link, closing>>
              /\ UNCHANGED granted
  BY <1>2 DEF pairingVars, PairingInv, OnDisk, DownIsIdle,
     OneRightCode, AuthorisedNow, AfterAuth, Handlers, LinkIsOurs
<1>3. CASE Advertiser
  BY <1>2, <1>3 DEF Advertiser, AdvRegisters, AdvServes, AdvRenews, codes, store, control
<1>4. CASE CodeExpires \/ UNCHANGED vars \/ \E r \in Req : Reads(r)
  BY <1>2, <1>4 DEF CodeExpires, RunRotates, Rotate, Reads, ReadCode, vars, codes
<1>5. CASE Second
  <2>1. \A r \in Req : pc[r] \notin {"check", "store"}
    BY <1>5 DEF Second, Serial, InFlight, Suspendable
  <2> QED
    BY <1>5, <2>1 DEF Second, pairingVars, PairingInv, OnDisk, DownIsIdle,
       OneRightCode, AuthorisedNow, AfterAuth, Handlers, LinkIsOurs
<1>6. CASE Crash
  BY <1>6 DEF Crash, codes, EmptyStore, PairingInv, OnDisk, DownIsIdle,
     OneRightCode, AuthorisedNow, AfterAuth, Handlers, LinkIsOurs
<1>7. CASE Opens \/ Boot
  <2>1. ~up /\ link = NoToken /\ \A r \in Req : pc[r] = "idle"
    BY <1>7 DEF Opens, Boot, PairingInv, DownIsIdle
  <2>2. CASE Opens
    BY <2>1, <2>2 DEF Opens, codes, control, PairingInv, OnDisk, DownIsIdle,
       OneRightCode, AuthorisedNow, AfterAuth, Handlers, LinkIsOurs
  <2>3. CASE Boot
    BY <2>1, <2>3 DEF Boot, store, control, PairingInv, OnDisk, DownIsIdle,
       OneRightCode, AuthorisedNow, AfterAuth, Handlers, LinkIsOurs
  <2> QED BY <1>7, <2>2, <2>3
<1>8. CASE CliReset
  BY <1>8 DEF CliReset, Serial, EmptyStore, codes, control, PairingInv, OnDisk, DownIsIdle,
     OneRightCode, AuthorisedNow, AfterAuth, Handlers, LinkIsOurs
<1> QED BY <1>1, <1>3, <1>4, <1>5, <1>6, <1>7, <1>8 DEF Process

LEMMA PairingStep ==
  ASSUME Serial, TypeOK, PairingInv, [Next]_vars
  PROVE  PairingInv'
  BY PairKeeps, UnpairKeeps, CinefinKeeps, OthersKeep DEF Next

\* The agent and its file agree on who is paired, on what that Cinefin left and
\* on the link it holds, in every state between the steps of its requests.
THEOREM PairingInvariant == Serial => (Spec => []PairingInv)
<1> SUFFICES ASSUME Serial PROVE Spec => []PairingInv
  OBVIOUS
<1>1. Init => PairingInv
  BY DEF Init, EmptyStore, PairingInv, OnDisk, DownIsIdle, OneRightCode, Paired,
     AuthorisedNow, AfterAuth, Handlers, LinkIsOurs
<1>2. TypeOK /\ PairingInv /\ [Next]_vars => PairingInv'
  BY PairingStep
<1> QED BY <1>1, <1>2, TypeCorrect, PTL DEF Spec

\* A token that was taken back is not accepted again, whatever crashes and
\* restarts come between.
THEOREM RevocationLasts == Serial => (Spec => []RevokedStays)
<1> SUFFICES ASSUME Serial PROVE Spec => []RevokedStays
  OBVIOUS
<1>1. PairingInv => RevokedStays
  BY DEF PairingInv, OnDisk, RevokedStays
<1> QED BY <1>1, PairingInvariant, PTL

\* Unpairing leaves nothing of the Cinefin that was forgotten.
THEOREM UnpairingIsComplete == Serial => (Spec => []NothingLeftBehind)
<1> SUFFICES ASSUME Serial PROVE Spec => []NothingLeftBehind
  OBVIOUS
<1>1. PairingInv => NothingLeftBehind
  BY DEF PairingInv, OnDisk, LinkIsOurs, NothingLeftBehind, Quiet
<1> QED BY <1>1, PairingInvariant, PTL

-----------------------------------------------------------------------------
(* A pairing stands, whichever saves fail.                                 *)

\* Handlers are not suspended for a second, and codes are looked at a moment
\* apart.
Spaced == ~Overlap /\ MinInterval > 0

\* GrantStands, of an agent that starts too.
GrantKept == \A t \in granted : t = disk.token /\ (up \/ opened => t = mem.token)

GrantInv == GrantKept /\ DownIsIdle /\ OneRightCode

LEMMA GrantPairs ==
  ASSUME Spaced, TypeOK, GrantInv, NEW r \in Req, PairSteps(r)
  PROVE  GrantInv'
<1> USE DEF TypeOK, PairingTypeOK, Goto, Paired, GrantInv
<1>1. CASE PairBegins(r)
  BY <1>1 DEF PairBegins, codes, store, control, GrantKept, DownIsIdle, OneRightCode
<1>2. CASE PairCodeRight(r)
  <2>1. sinceTry >= MinInterval /\ sinceTry' = 0 /\ sinceTry \in Nat
    BY <1>2 DEF PairCodeRight, CheckRight, MayTry, CodesTypeOK
  <2>2. ~Paired /\ \A s \in Req : pc[s] # "store"
    BY <1>2, <2>1 DEF Spaced, PairCodeRight, OneRightCode
  <2> QED
    BY <1>2, <2>1, <2>2 DEF PairCodeRight, store, control, GrantKept, DownIsIdle, OneRightCode
<1>3. CASE PairCodeWrong(r)
  <2>1. sinceTry' = 0
    BY <1>3 DEF PairCodeWrong, CheckWrong
  <2> QED
    BY <1>3, <2>1 DEF PairCodeWrong, store, control, GrantKept, DownIsIdle, OneRightCode
<1>4. CASE PairRefused(r)
  BY <1>4 DEF PairRefused, codes, store, control, GrantKept, DownIsIdle, OneRightCode
<1>5. CASE PairStores(r)
  <2>1. PICK t \in Fresh :
          \/ /\ Save([mem EXCEPT !.token = t])
             /\ granted' = granted \cup {t} /\ Goto(r, "announce")
          \/ /\ mem' = [mem EXCEPT !.token = t] /\ UNCHANGED disk
             /\ Goto(r, "idle") /\ UNCHANGED granted
    BY <1>5 DEF PairStores, SaveFailsKeeping
  <2>2. t \in Token /\ t # NoToken
    BY DEF Fresh
  <2>3. /\ pc[r] = "store" /\ up /\ ~Paired /\ sinceTry = 0
        /\ \A s \in Req \ {r} : pc[s] # "store"
        /\ UNCHANGED <<sinceTry, up, opened, link>>
    BY <1>5 DEF PairStores, OneRightCode, codes, control
  <2>4. granted = {}
    BY <2>3, PairingConstants DEF GrantKept
  <2>5. mem'.token = t /\ (granted' # {} => granted' = {t} /\ disk'.token = t)
    BY <2>1, <2>4 DEF Save, StoreData
  <2>6. GrantKept'
    BY <2>5 DEF GrantKept
  <2>7. DownIsIdle' /\ OneRightCode'
    BY <2>1, <2>3 DEF DownIsIdle, OneRightCode
  <2> QED BY <2>6, <2>7
<1>6. CASE PairAnswers(r)
  BY <1>6 DEF PairAnswers, codes, store, control, GrantKept, DownIsIdle, OneRightCode
<1> QED BY <1>1, <1>2, <1>3, <1>4, <1>5, <1>6 DEF PairSteps

LEMMA GrantUnpairs ==
  ASSUME TypeOK, GrantInv, NEW r \in Req, UnpairSteps(r)
  PROVE  GrantInv'
<1> USE DEF TypeOK, PairingTypeOK, Goto, Paired, GrantInv
<1>1. CASE UnpairBegins(r)
  BY <1>1 DEF UnpairBegins, codes, store, control, GrantKept, DownIsIdle, OneRightCode
<1>2. CASE UnpairResets(r)
  <2>1. /\ up /\ granted' = {} /\ mem'.token = NoToken
        /\ pc' \in {[pc EXCEPT ![r] = "drop"], [pc EXCEPT ![r] = "idle"]}
        /\ UNCHANGED <<sinceTry, up, opened, link>>
    BY <1>2 DEF UnpairResets, Save, SaveFailsKeeping, EmptyStore, codes, control
  <2>2. GrantKept'  BY <2>1 DEF GrantKept
  <2>3. DownIsIdle' /\ OneRightCode'
    BY <2>1 DEF DownIsIdle, OneRightCode
  <2> QED BY <2>2, <2>3
<1>3. CASE UnpairDropsLink(r)
  BY <1>3 DEF UnpairDropsLink, codes, store, GrantKept, DownIsIdle, OneRightCode
<1>4. CASE UnpairAnnounces(r)
  BY <1>4 DEF UnpairAnnounces, Rotate, store, control, GrantKept, DownIsIdle, OneRightCode
<1> QED BY <1>1, <1>2, <1>3, <1>4 DEF UnpairSteps

LEMMA GrantOwns ==
  ASSUME TypeOK, GrantInv, NEW r \in Req, CinefinSteps(r)
  PROVE  GrantInv'
<1> USE DEF TypeOK, PairingTypeOK, Goto, Paired, GrantInv
<1>1. CASE \E handler \in Handlers : Authorised(r, handler)
  BY <1>1 DEF Authorised, AfterAuth, Handlers, codes, store, control, GrantKept, DownIsIdle, OneRightCode
<1>2. CASE Writes(r) \/ Dials(r)
  <2>1. /\ up /\ UNCHANGED <<sinceTry, up, opened, granted>>
        /\ pc' = [pc EXCEPT ![r] = "idle"] \/ pc' = [pc EXCEPT ![r] = "attach"]
    BY <1>2 DEF Writes, Dials, Done, codes
  <2>2. /\ mem'.token = mem.token
        /\ disk'.token \in {disk.token, mem.token}
    BY <1>2 DEF Writes, Dials, Save, SaveFailsKeeping, SaveFailsRevert, StoreData, store
  <2>3. GrantKept'  BY <2>1, <2>2 DEF GrantKept
  <2>4. DownIsIdle' /\ OneRightCode'
    BY <2>1, <2>2 DEF DownIsIdle, OneRightCode
  <2> QED BY <2>3, <2>4
<1>3. CASE Attaches(r)
  BY <1>3 DEF Attaches, Done, codes, store, GrantKept, DownIsIdle, OneRightCode
<1> QED BY <1>1, <1>2, <1>3 DEF CinefinSteps

LEMMA GrantOthers ==
  ASSUME Spaced, TypeOK, GrantInv,
         \/ LinkEnds \/ Advertiser \/ Process \/ CodeExpires \/ Second
         \/ \E r \in Req : Reads(r)
         \/ UNCHANGED vars
  PROVE  GrantInv'
<1> USE DEF TypeOK, PairingTypeOK, Paired, GrantInv
<1>1. CASE LinkEnds
  BY <1>1 DEF LinkEnds, codes, store, GrantKept, DownIsIdle, OneRightCode
<1>2. CASE UNCHANGED <<sinceTry, up, opened, mem, disk, pc, link, granted>>
  BY <1>2 DEF GrantKept, DownIsIdle, OneRightCode
<1>3. CASE Advertiser
  BY <1>2, <1>3 DEF Advertiser, AdvRegisters, AdvServes, AdvRenews, codes, store, control
<1>4. CASE CodeExpires \/ UNCHANGED vars \/ \E r \in Req : Reads(r)
  BY <1>2, <1>4 DEF CodeExpires, RunRotates, Rotate, Reads, ReadCode, vars, codes, pairingVars
<1>5. CASE Second
  <2>1. \A r \in Req : pc[r] \notin {"check", "store"}
    BY <1>5 DEF Second, Spaced, InFlight, Suspendable
  <2> QED
    BY <1>5, <2>1 DEF Second, pairingVars, GrantKept, DownIsIdle, OneRightCode
<1>6. CASE Crash
  BY <1>6 DEF Crash, codes, GrantKept, DownIsIdle, OneRightCode
<1>7. CASE Opens \/ Boot
  <2>1. ~up /\ link = NoToken /\ \A r \in Req : pc[r] = "idle"
    BY <1>7 DEF Opens, Boot, DownIsIdle
  <2>2. CASE Opens
    BY <2>1, <2>2 DEF Opens, codes, control, GrantKept, DownIsIdle, OneRightCode
  <2>3. CASE Boot
    BY <2>1, <2>3 DEF Boot, store, control, GrantKept, DownIsIdle, OneRightCode
  <2> QED BY <1>7, <2>2, <2>3
<1>8. CASE CliReset
  BY <1>8 DEF CliReset, codes, control, GrantKept, DownIsIdle, OneRightCode
<1> QED BY <1>1, <1>3, <1>4, <1>5, <1>6, <1>7, <1>8 DEF Process

\* A pairing that was given a token stands, in memory and on disk, for any
\* number of clients that try at once and whichever writes of the file fail
\* (pair.go, handlePair; state.go, SetToken).
THEOREM PairingStands == Spaced => (Spec => []GrantStands)
<1> SUFFICES ASSUME Spaced PROVE Spec => []GrantStands
  OBVIOUS
<1>1. Init => GrantInv
  BY DEF Init, EmptyStore, GrantInv, GrantKept, DownIsIdle, OneRightCode, Paired
<1>2. TypeOK /\ GrantInv /\ [Next]_vars => GrantInv'
  BY GrantPairs, GrantUnpairs, GrantOwns, GrantOthers DEF Next
<1>3. GrantInv => GrantStands
  BY DEF GrantInv, GrantKept, GrantStands
<1> QED BY <1>1, <1>2, <1>3, TypeCorrect, PTL DEF Spec

-----------------------------------------------------------------------------
(* Pairing implements PairingService.                                      *)

\* A step that changes neither the file nor what is accepted.
LEMMA ServiceStutters ==
  ASSUME UNCHANGED <<up, mem, disk>>
  PROVE  UNCHANGED Service!serviceVars
  BY DEF Service!serviceVars

LEMMA ServicePairs ==
  ASSUME Serial, TypeOK, PairingInv, NEW r \in Req, PairStores(r)
  PROVE  Service!Pair
<1>1. PICK t \in Fresh : Save([mem EXCEPT !.token = t])
  BY DEF PairStores, SaveFailsKeeping, Serial
<1>2. /\ up /\ up' = up /\ mem = disk /\ mem.token = NoToken
      /\ mem \in StoreData /\ t \in Token
  BY DEF PairStores, PairingInv, OneRightCode, Paired, OnDisk, TypeOK, PairingTypeOK, Fresh
<1>3. mem'.token = t /\ disk'.token = t /\ disk'.left = disk.left
  BY <1>1, <1>2 DEF Save, StoreData
<1> QED BY <1>2, <1>3 DEF Service!Pair

LEMMA ServiceKeeps ==
  ASSUME Serial, TypeOK, PairingInv, NEW r \in Req, Writes(r) \/ Dials(r)
  PROVE  Service!Keep \/ UNCHANGED Service!serviceVars
<1>1. /\ up /\ up' = up /\ mem = disk /\ with[r] = mem.token /\ mem.token # NoToken
      /\ mem \in StoreData
  BY DEF Writes, Dials, PairingInv, AuthorisedNow, AfterAuth, Handlers, Paired, OnDisk, TypeOK, PairingTypeOK
<1>2. CASE Save([mem EXCEPT !.left = with[r]])
  <2>1. mem'.token = mem.token /\ disk'.token = mem.token /\ disk'.left = mem.token
    BY <1>1, <1>2 DEF Save, StoreData
  <2> QED BY <1>1, <2>1 DEF Service!Keep
<1>3. CASE ~Save([mem EXCEPT !.left = with[r]])
  BY <1>1, <1>3 DEF Writes, Dials, SaveFailsKeeping, SaveFailsRevert, Serial, store,
     Service!serviceVars
<1> QED BY <1>2, <1>3

LEMMA ServiceStep ==
  ASSUME Serial, TypeOK, PairingInv, [Next]_vars
  PROVE  [Service!Next]_(Service!serviceVars)
<1> USE ServiceStutters DEF Service!Next
<1>1. ASSUME NEW r \in Req, PairSteps(r) PROVE [Service!Next]_(Service!serviceVars)
  <2>1. CASE PairStores(r)  BY <2>1, ServicePairs
  <2>2. CASE ~PairStores(r)
    BY <1>1, <2>2 DEF PairSteps, PairBegins, PairCodeRight, PairCodeWrong, PairRefused,
       PairAnswers, store
  <2> QED BY <2>1, <2>2
<1>2. ASSUME NEW r \in Req, UnpairSteps(r) PROVE [Service!Next]_(Service!serviceVars)
  <2>1. CASE UnpairResets(r)
    <3>1. Save(EmptyStore) /\ up' = up
      BY <2>1 DEF UnpairResets, SaveFailsKeeping, Serial
    <3>2. Service!GiveUp
      BY <3>1 DEF Save, EmptyStore, Service!GiveUp
    <3> QED BY <3>2
  <2>2. CASE ~UnpairResets(r)
    BY <1>2, <2>2 DEF UnpairSteps, UnpairBegins, UnpairDropsLink, UnpairAnnounces, store
  <2> QED BY <2>1, <2>2
<1>3. ASSUME NEW r \in Req, CinefinSteps(r) PROVE [Service!Next]_(Service!serviceVars)
  BY <1>3, ServiceKeeps DEF CinefinSteps, Authorised, Attaches, store
<1>4. CASE Crash
  BY <1>4 DEF Crash, Service!Down
<1>5. CASE Opens
  BY <1>5 DEF Opens, Service!serviceVars
<1>6. CASE Boot
  <2>1. Service!Up
    BY <1>6 DEF Boot, store, PairingInv, OnDisk, Service!Up
  <2> QED BY <2>1
<1>7. CASE CliReset
  <2>1. Service!GiveUp
    BY <1>7 DEF CliReset, EmptyStore, Service!GiveUp
  <2> QED BY <2>1
<1>8. CASE LinkEnds \/ Advertiser
  BY <1>8 DEF LinkEnds, Advertiser, AdvRegisters, AdvServes, AdvRenews, store
<1>9. CASE CodeExpires \/ Second \/ (\E r \in Req : Reads(r)) \/ UNCHANGED vars
  BY <1>9 DEF CodeExpires, Second, Reads, vars, pairingVars
<1> QED
  BY <1>1, <1>2, <1>3, <1>4, <1>5, <1>6, <1>7, <1>8, <1>9 DEF Next, Process

\* When saves succeed and requests take turns, the player changes hands, and
\* keeps what its owner leaves, in single steps that no crash can divide.
THEOREM Implements == Serial => (Spec => ImplementsService)
<1> SUFFICES ASSUME Serial PROVE Spec => ImplementsService
  OBVIOUS
<1>1. Init => Service!Init
  BY DEF Init, EmptyStore, Service!Init
<1>2. TypeOK /\ PairingInv /\ [Next]_vars => [Service!Next]_(Service!serviceVars)
  BY ServiceStep
<1> QED BY <1>1, <1>2, TypeCorrect, PairingInvariant, PTL DEF Spec, ImplementsService, Service!Spec
=============================================================================
