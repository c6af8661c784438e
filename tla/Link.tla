-------------------------------- MODULE Link --------------------------------
(***************************************************************************)
(* The control link: mpvipc.Client, the part of player.subprocess that     *)
(* tells a first connection to mpv from a later one, and the server's      *)
(* bridge between the websocket of one Cinefin and mpv (control.go and     *)
(* serveControl).                                                          *)
(*                                                                         *)
(* mpv and the websocket's peer are external.  A frame is who it is for: a *)
(* client, for the reply to its command, or Everyone, for an event.  Left  *)
(* out: the agent's own commands and observers (Standby), a write that     *)
(* fails on a connection still up, and the end of the agent.               *)
(***************************************************************************)
EXTENDS Integers, Sequences, FiniteSets

CONSTANTS
    Client,    \* the sessions of /ws/control
    None,      \* no client, no frame
    Everyone,  \* whom an event is for
    Capacity,  \* the length of a session's out channel
    MaxAsked,  \* bound: commands mpv has not answered
    Prompt     \* whether the end of a connection is reported before the next
               \* one is made, at least 200ms later

ASSUME LinkConstants ==
    /\ {None, Everyone} \cap Client = {} /\ None # Everyone
    /\ Capacity \in Nat \ {0}
    /\ MaxAsked \in Nat \ {0}
    /\ Prompt \in BOOLEAN

VARIABLES
    alive,     \* whether an mpv answers on the socket
    conn,      \* Client.conn: down, connected (onConnState(true) has not
               \* returned), or serving (the read loop runs)
    broken,    \* whether the mpv at the other end of conn has gone
    late,      \* read loops that have ended and not reported it
    sawDown,   \* subprocess.sawDown
    asked,     \* the frames mpv is to send, in order
    carry,     \* the frame the read loop is handing to a client, and which
    client,    \* control.client
    ctx,       \* each session's context: not there, on, or cancelled
    prev,      \* whom each session has displaced in attach and not closed yet
    out,       \* the frames in each session's out channel
    heard      \* when each session's subscription reached an mpv: never, from
               \* the mpv there is now, or from one before

ipc     == <<alive, conn, broken, late, sawDown>>
session == <<client, ctx, prev, out, heard>>
vars    == <<ipc, asked, carry, session>>

Frame   == Client \cup {Everyone}
NoCarry == [frame |-> None, to |-> None]

TypeOK ==
    /\ alive \in BOOLEAN /\ broken \in BOOLEAN /\ sawDown \in BOOLEAN
    /\ conn \in {"down", "connected", "serving"}
    /\ late \in 0 .. 2
    /\ asked \in Seq(Frame) /\ Len(asked) <= MaxAsked
    /\ carry \in [frame : Frame, to : Client] \cup {NoCarry}
    /\ client \in Client \cup {None}
    /\ ctx \in [Client -> {"off", "on", "cancelled"}]
    /\ prev \in [Client -> Client \cup {None}]
    /\ out \in [Client -> 0 .. Capacity]
    /\ heard \in [Client -> {"never", "now", "before"}]

Init ==
    /\ alive = FALSE /\ conn = "down" /\ broken = FALSE /\ late = 0 /\ sawDown = FALSE
    /\ asked = <<>> /\ carry = NoCarry
    /\ client = None
    /\ ctx = [c \in Client |-> "off"]
    /\ prev = [c \in Client |-> None]
    /\ out = [c \in Client |-> 0]
    /\ heard = [c \in Client |-> "never"]

-----------------------------------------------------------------------------
(* mpv comes and goes.                                                     *)

MpvStarts ==
    /\ ~alive /\ alive' = TRUE
    /\ UNCHANGED <<conn, broken, late, sawDown, asked, carry, session>>

\* What it has sent can still be read, the rest is lost, and so are its
\* observers.
MpvDies ==
    /\ alive /\ alive' = FALSE
    /\ broken' = (conn # "down")
    /\ asked' \in {SubSeq(asked, 1, n) : n \in 0 .. Len(asked)}
    /\ heard' = [c \in Client |-> IF heard[c] = "now" THEN "before" ELSE heard[c]]
    /\ UNCHANGED <<conn, late, sawDown, carry, client, ctx, prev, out>>

-----------------------------------------------------------------------------
(* mpvipc.Client and subprocess.Run                                        *)

\* Connect, as far as c.conn: Run dials when waitClosed has found it down.
Connects ==
    /\ alive /\ conn = "down"
    /\ Prompt => late = 0
    /\ conn' = "connected" /\ broken' = FALSE
    /\ UNCHANGED <<alive, late, sawDown, asked, carry, session>>

Cancel(c) == ctx' = [ctx EXCEPT ![c] = IF @ = "on" THEN "cancelled" ELSE @]

\* Mutant: a later connection to mpv is like the first.
ConnUpAlike ==
    /\ conn = "connected" /\ conn' = "serving"
    /\ UNCHANGED <<alive, broken, late, sawDown, asked, carry, session>>

\* onConnState(true): after a drop the client must reconnect, because this mpv
\* knows none of its observers.  Then the read loop starts.
ConnUp ==
    /\ conn = "connected" /\ conn' = "serving"
    /\ sawDown' = FALSE
    /\ IF sawDown /\ client # None THEN Cancel(client) ELSE UNCHANGED ctx
    /\ UNCHANGED <<alive, broken, late, asked, carry, client, prev, out, heard>>

\* readLoop reaches the end of the stream.
ReadEnds ==
    /\ conn = "serving" /\ broken
    /\ asked = <<>> /\ carry = NoCarry
    /\ late < 2
    /\ conn' = "down" /\ broken' = FALSE /\ late' = late + 1
    /\ UNCHANGED <<alive, sawDown, asked, carry, session>>

\* onConnState(false).
ConnDown ==
    /\ late > 0 /\ late' = late - 1
    /\ sawDown' = TRUE
    /\ UNCHANGED <<alive, conn, broken, asked, carry, session>>

-----------------------------------------------------------------------------
(* From mpv to the client                                                  *)

MpvEvent ==
    /\ alive /\ conn # "down" /\ ~broken /\ Len(asked) < MaxAsked
    /\ asked' = Append(asked, Everyone)
    /\ UNCHANGED <<ipc, carry, session>>

\* fromMPV and toClient: the frame is for whoever is the client now.
FromMPV ==
    /\ conn = "serving" /\ carry = NoCarry
    /\ asked # <<>>
    /\ asked' = Tail(asked)
    /\ carry' = IF client = None THEN NoCarry
                                 ELSE [frame |-> Head(asked), to |-> client]
    /\ UNCHANGED <<ipc, session>>

\* Mutant: a list that grows in place of the channel.
SendGrows ==
    /\ carry # NoCarry /\ carry' = NoCarry
    /\ out' = [out EXCEPT ![carry.to] = @ + 1]
    /\ UNCHANGED <<ipc, asked, client, ctx, prev, heard>>

\* Mutant: waits for room in the channel, whatever becomes of the session.
SendWaits ==
    /\ carry # NoCarry /\ carry' = NoCarry
    /\ out[carry.to] < Capacity
    /\ out' = [out EXCEPT ![carry.to] = @ + 1]
    /\ UNCHANGED <<ipc, asked, client, ctx, prev, heard>>

\* The client's send: the frame goes into the channel, or the session is over.
Send ==
    /\ carry # NoCarry /\ carry' = NoCarry
    /\ \/ /\ out[carry.to] < Capacity
          /\ out' = [out EXCEPT ![carry.to] = @ + 1]
       \/ ctx[carry.to] # "on" /\ UNCHANGED out
    /\ UNCHANGED <<ipc, asked, client, ctx, prev, heard>>

\* serveControl is past attach: the writer, the pings and the read loop run.
Serves(c) == ctx[c] # "off" /\ prev[c] = None

\* The writer: a frame has gone to the peer ...
Writes(c) ==
    /\ Serves(c) /\ ctx[c] = "on" /\ out[c] > 0
    /\ out' = [out EXCEPT ![c] = @ - 1]
    /\ UNCHANGED <<ipc, asked, carry, client, ctx, prev, heard>>

\* ... or could not within 10s, or a ping went unanswered, or the peer left.
PeerGone(c) ==
    /\ Serves(c) /\ ctx[c] = "on"
    /\ Cancel(c)
    /\ UNCHANGED <<ipc, asked, carry, client, prev, out, heard>>

-----------------------------------------------------------------------------
(* From the client to mpv                                                  *)

\* serveControl attaches the session: under the lock it takes the place of the
\* one before ...
Attach(c) ==
    /\ ctx[c] = "off" /\ carry.to # c
    /\ client' = c
    /\ ctx' = [ctx EXCEPT ![c] = "on"]
    /\ prev' = [prev EXCEPT ![c] = client]
    /\ out' = [out EXCEPT ![c] = 0]
    /\ heard' = [heard EXCEPT ![c] = "never"]
    /\ UNCHANGED <<ipc, asked, carry>>

\* ... and after it, closes that one.
ClosesPrev(c) ==
    /\ prev[c] # None
    /\ prev' = [prev EXCEPT ![c] = None]
    /\ Cancel(prev[c])
    /\ UNCHANGED <<ipc, asked, carry, client, out, heard>>

\* Cinefin's command() waits for the reply before it sends the next.
Waiting(c) == carry.frame = c \/ \E i \in DOMAIN asked : asked[i] = c

\* inbound, while mpv is connected: a command, which may be a subscription,
\* and which a cancelled session's read loop may still bring.
Inbound(c) ==
    /\ Serves(c) /\ conn # "down"
    /\ ~Waiting(c) /\ Len(asked) < MaxAsked
    /\ asked' = IF broken THEN asked ELSE Append(asked, c)
    /\ heard' \in {heard, [heard EXCEPT ![c] = IF broken THEN "before" ELSE "now"]}
    /\ UNCHANGED <<ipc, carry, client, ctx, prev, out>>

\* inbound, while it is not, or the write to it fails: an error goes to whoever
\* is the client now.
InboundError(c) ==
    /\ Serves(c) /\ (conn = "down" \/ broken)
    /\ ~Waiting(c)
    /\ client # None
    /\ \/ /\ out[client] < Capacity
          /\ out' = [out EXCEPT ![client] = @ + 1]
       \/ ctx[client] # "on" /\ UNCHANGED out
    /\ UNCHANGED <<ipc, asked, carry, client, ctx, prev, heard>>

\* A session that is over need not be closed any more.
Forgotten(c) == [d \in Client |-> IF prev[d] = c THEN None ELSE prev[d]]

\* Mutant: whoever detaches, the client is gone.
DetachAny(c) ==
    /\ Serves(c) /\ ctx[c] = "cancelled"
    /\ client' = None
    /\ ctx' = [ctx EXCEPT ![c] = "off"]
    /\ prev' = Forgotten(c)
    /\ heard' = [heard EXCEPT ![c] = "never"]
    /\ UNCHANGED <<ipc, asked, carry, out>>

\* The read loop has ended, the writer too: detach, unless displaced.  What is
\* in the channel stays there, with nobody to read it.
Detach(c) ==
    /\ Serves(c) /\ ctx[c] = "cancelled"
    /\ client' = IF client = c THEN None ELSE client
    /\ ctx' = [ctx EXCEPT ![c] = "off"]
    /\ prev' = Forgotten(c)
    /\ heard' = [heard EXCEPT ![c] = "never"]
    /\ UNCHANGED <<ipc, asked, carry, out>>

-----------------------------------------------------------------------------
Mpv == MpvStarts \/ MpvDies \/ MpvEvent

Ipc == Connects \/ ConnUp \/ ReadEnds \/ ConnDown \/ FromMPV \/ Send

Session(c) == \/ Attach(c) \/ ClosesPrev(c) \/ Inbound(c) \/ InboundError(c)
              \/ Writes(c) \/ PeerGone(c) \/ Detach(c)

Next == Mpv \/ Ipc \/ \E c \in Client : Session(c)

Spec == Init /\ [][Next]_vars

\* Goroutines that can run do.  A writer writes, or its 10s are over.
Fairness ==
    /\ WF_vars(ConnUp) /\ WF_vars(ReadEnds) /\ WF_vars(ConnDown)
    /\ WF_vars(FromMPV) /\ WF_vars(Send)
    /\ \A c \in Client : /\ WF_vars(ClosesPrev(c)) /\ WF_vars(Detach(c))
                         /\ WF_vars(Writes(c) \/ (out[c] > 0 /\ PeerGone(c)))

FairSpec == Spec /\ Fairness
=============================================================================
