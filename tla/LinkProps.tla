----------------------------- MODULE LinkProps ------------------------------
(***************************************************************************)
(* What is asked of Link.                                                  *)
(***************************************************************************)
EXTENDS Link

\* A session whose context is alive, and which no attach is about to close.
Live(c) == ctx[c] = "on" /\ \A d \in Client : prev[d] # c

\* A live session is the one mpv's frames go to, after any series of attaches,
\* displacements, drops and late detaches: nobody believes to be connected and
\* hears nothing (control.go, attach and detach).
AttachedIsClient == \A c \in Client : Live(c) => client = c

\* Once a connection to mpv is up, no session goes on that subscribed with an
\* mpv before it: it would wait for ever for events (player.go, OnMPVConnect).
NoDeafClient ==
    (conn = "serving" /\ ~broken) =>
        \A c \in Client : Live(c) => heard[c] # "before"

\* A command that reached mpv is answered, or its session is over, or mpv has
\* gone: the goroutine that reads from mpv is never blocked for good on a client
\* that does not read, or has left (server.go, serveControl).
Answered == \A c \in Client : Waiting(c) ~> (~Waiting(c) \/ ctx[c] # "on" \/ ~alive)
=============================================================================
