---------------------------- MODULE PairingCodes ----------------------------
(***************************************************************************)
(* internal/pairing.Codes: the short code a person reads off the screen,   *)
(* its expiry, and the limits on attempts.  Every method holds Codes.mu    *)
(* throughout, so each is one action.                                      *)
(*                                                                         *)
(* A code is a random number, so the model keeps only who knows the one    *)
(* that is valid now: a code nobody has read is taken not to be guessed.   *)
(* Time is in seconds, and each deadline is kept as the time left to it.   *)
(***************************************************************************)
EXTENDS Integers

CONSTANTS
    Req,           \* the requests a client may have in flight, and the client
    Lifetime,      \* CodeLifetime
    MaxFailures,   \* maxFailures
    Lockout,       \* lockout
    MinInterval    \* minInterval

ASSUME CodesConstants ==
    /\ Lifetime \in Nat \ {0}
    /\ MaxFailures \in Nat \ {0}
    /\ Lockout \in Nat
    /\ MinInterval \in Nat

VARIABLES
    knows,      \* the clients that have read the valid code
    ttl,        \* seconds until Codes.expires, 0 when it is past
    failures,   \* Codes.failures
    lockedFor,  \* seconds until Codes.lockedUntil, 0 when it is past
    sinceTry,   \* seconds since Codes.lastTry, up to MinInterval
    ages        \* history: ages[i] is how long ago the i-th last wrong code
                \* since the last right one was, up to Lockout

codes == <<knows, ttl, failures, lockedFor, sinceTry, ages>>

CodesTypeOK ==
    /\ knows \subseteq Req
    /\ ttl \in 0 .. Lifetime
    /\ failures \in 0 .. MaxFailures - 1
    /\ lockedFor \in 0 .. Lockout
    /\ sinceTry \in 0 .. MinInterval
    /\ ages \in [1 .. MaxFailures -> 0 .. Lockout]

CodesInit ==
    /\ knows = {}
    /\ ttl = Lifetime
    /\ failures = 0
    /\ lockedFor = 0
    /\ sinceTry = MinInterval
    /\ ages = [i \in 1 .. MaxFailures |-> Lockout]

-----------------------------------------------------------------------------
\* rotateLocked: a new code, which nobody knows yet.
RotateLocked == knows' = {} /\ ttl' = Lifetime

\* Current, asked by client r: the code it is shown is valid.
ReadCode(r) ==
    /\ knows' = (IF ttl = 0 THEN {} ELSE knows) \cup {r}
    /\ ttl' = IF ttl = 0 THEN Lifetime ELSE ttl
    /\ UNCHANGED <<failures, lockedFor, sinceTry, ages>>

\* Rotate, and Current when the ticker of Run finds the code expired.
Rotate == RotateLocked /\ UNCHANGED <<failures, lockedFor, sinceTry, ages>>

RunRotates == ttl = 0 /\ Rotate

\* Mutant: looks at the lockout only.
MayTryAnytime == lockedFor = 0

\* Check refuses to look at the code while locked, or too soon.
MayTry == lockedFor = 0 /\ sinceTry >= MinInterval

\* Check, with the code that is valid now.
CheckRight(r) ==
    /\ MayTry
    /\ r \in knows /\ ttl > 0
    /\ failures' = 0
    /\ sinceTry' = 0
    /\ ages' = [i \in 1 .. MaxFailures |-> Lockout]
    /\ RotateLocked
    /\ UNCHANGED lockedFor

\* Mutant: one failure too many before the lockout.
CountFailureLate ==
    IF failures >= MaxFailures
      THEN failures' = 0 /\ lockedFor' = Lockout
      ELSE failures' = failures + 1 /\ UNCHANGED lockedFor

CountFailure ==
    IF failures + 1 >= MaxFailures
      THEN failures' = 0 /\ lockedFor' = Lockout
      ELSE failures' = failures + 1 /\ UNCHANGED lockedFor

\* Check, with any other code, an expired one included.
CheckWrong ==
    /\ MayTry
    /\ CountFailure
    /\ sinceTry' = 0
    /\ ages' = [i \in 1 .. MaxFailures |-> IF i = 1 THEN 0 ELSE ages[i - 1]]
    /\ RotateLocked

Later(t) == IF t = 0 THEN 0 ELSE t - 1
Older(t, most) == IF t < most THEN t + 1 ELSE most

CodesSecond ==
    /\ ttl' = Later(ttl)
    /\ lockedFor' = Later(lockedFor)
    /\ sinceTry' = Older(sinceTry, MinInterval)
    /\ ages' = [i \in 1 .. MaxFailures |-> Older(ages[i], Lockout)]
    /\ UNCHANGED <<knows, failures>>

-----------------------------------------------------------------------------
\* However the attempts are spread over clients, code rotations and time,
\* MaxFailures + 1 wrong codes in a row take longer than the lockout: when a
\* wrong code is looked at, the MaxFailures-th last one is Lockout ago.
GuessLimit == [][CheckWrong => ages[MaxFailures] >= Lockout]_codes

\* What makes it so: the wrong codes not counted in failures came before the
\* last lockout began.
CountedOrLocked ==
    \A i \in 1 .. MaxFailures : i > failures => ages[i] + lockedFor >= Lockout
=============================================================================
