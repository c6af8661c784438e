----------------------------- MODULE MpvService -----------------------------
(***************************************************************************)
(* What the mpv supervisor promises its callers, with no timers, backoff   *)
(* or signals: "The agent owns mpv exclusively on this socket"             *)
(* (internal/mpvproc/manager.go).  At most one mpv runs, a launch happens  *)
(* only while one is wanted, and an mpv may die at any moment.  Supervisor *)
(* is the detailed specification; it refines this one when its callers are *)
(* serialised.                                                             *)
(***************************************************************************)
CONSTANT Proc

VARIABLES want,     \* somebody asked for mpv to run and nobody has stopped it
          running   \* the mpv processes that are alive

vars == <<want, running>>

Init == want = FALSE /\ running = {}

\* A start is asked for; the launch may come with it, later, or fail.
Ask == want' = TRUE /\ UNCHANGED running

\* The supervisor launches when it is asked to, and on its own only while mpv
\* is still wanted.
Launch(p) == /\ running = {}
             /\ want' = TRUE
             /\ running' = {p}

\* mpv is no longer wanted; the process goes down in its own time.
Release == want' = FALSE /\ UNCHANGED running

Die(p) == /\ p \in running
          /\ running' = running \ {p}
          /\ UNCHANGED want

Next == Ask \/ Release \/ \E p \in Proc : Launch(p) \/ Die(p)

Spec == Init /\ [][Next]_vars
=============================================================================
