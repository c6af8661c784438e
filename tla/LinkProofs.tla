----------------------------- MODULE LinkProofs -----------------------------
(***************************************************************************)
(* What is proved of Link, for any number of sessions and any channel.     *)
(***************************************************************************)
EXTENDS LinkProps, TLAPS

-----------------------------------------------------------------------------
(* Type correctness.                                                       *)

\* What mpv still sends stays within the bound, whatever is added, taken from
\* the front or lost at the end.
LEMMA AskedTyped ==
    ASSUME NEW s \in Seq(Frame), Len(s) <= MaxAsked
    PROVE  /\ \A f \in Frame : Len(s) < MaxAsked =>
                  Append(s, f) \in Seq(Frame) /\ Len(Append(s, f)) <= MaxAsked
           /\ s # <<>> => /\ Tail(s) \in Seq(Frame) /\ Len(Tail(s)) <= MaxAsked
                          /\ Head(s) \in Frame
           /\ \A n \in 0 .. Len(s) : /\ SubSeq(s, 1, n) \in Seq(Frame)
                                     /\ Len(SubSeq(s, 1, n)) <= MaxAsked
<1> USE LinkConstants
<1>1. \A f \in Frame : Len(s) < MaxAsked =>
          Append(s, f) \in Seq(Frame) /\ Len(Append(s, f)) <= MaxAsked
  OBVIOUS
<1>2. s # <<>> => /\ Tail(s) \in Seq(Frame) /\ Len(Tail(s)) <= MaxAsked
                  /\ Head(s) \in Frame
  OBVIOUS
<1>3. \A n \in 0 .. Len(s) : /\ SubSeq(s, 1, n) \in Seq(Frame)
                            /\ Len(SubSeq(s, 1, n)) <= MaxAsked
  OBVIOUS
<1> QED BY <1>1, <1>2, <1>3

LEMMA TypeStep == TypeOK /\ [Next]_vars => TypeOK'
<1> SUFFICES ASSUME TypeOK, [Next]_vars PROVE TypeOK'
  OBVIOUS
<1> USE LinkConstants DEF TypeOK, ipc, session, vars
<1>0. carry # NoCarry => carry.to \in Client
  OBVIOUS
<1>1. CASE MpvStarts  BY <1>1 DEF MpvStarts
<1>2. CASE MpvDies
  <2>1. PICK n \in 0 .. Len(asked) : asked' = SubSeq(asked, 1, n)
    BY <1>2 DEF MpvDies
  <2>2. asked' \in Seq(Frame) /\ Len(asked') <= MaxAsked
    BY <2>1, AskedTyped
  <2> QED BY <1>2, <2>2 DEF MpvDies
<1>3. CASE MpvEvent
  <2>1. asked' \in Seq(Frame) /\ Len(asked') <= MaxAsked
    BY <1>3, AskedTyped DEF MpvEvent, Frame
  <2> QED BY <1>3, <2>1 DEF MpvEvent
<1>4. CASE Connects   BY <1>4 DEF Connects
<1>5. CASE ConnUp     BY <1>5 DEF ConnUp, Cancel
<1>6. CASE ReadEnds
  <2>1. late' \in 0 .. 2
    <3>1. late < 2 /\ late' = late + 1 /\ late \in 0 .. 2
      BY <1>6 DEF ReadEnds
    <3> QED BY <3>1
  <2>2. UNCHANGED <<asked, carry>>
    BY <1>6 DEF ReadEnds
  <2> QED BY <1>6, <2>1, <2>2 DEF ReadEnds
<1>7. CASE ConnDown   BY <1>7 DEF ConnDown
<1>8. CASE FromMPV
  <2>1. /\ asked' \in Seq(Frame) /\ Len(asked') <= MaxAsked
        /\ Head(asked) \in Frame
    BY <1>8, AskedTyped DEF FromMPV
  <2>2. carry' \in [frame : Frame, to : Client] \cup {NoCarry}
    BY <1>8, <2>1 DEF FromMPV
  <2> QED BY <1>8, <2>1, <2>2 DEF FromMPV
<1>9. CASE Send
  <2>1. out' \in [Client -> 0 .. Capacity]
    BY <1>0, <1>9 DEF Send
  <2> QED BY <1>9, <2>1 DEF Send
<1>10. ASSUME NEW c \in Client, Session(c) PROVE TypeOK'
  <2>1. CASE Attach(c)       BY <2>1 DEF Attach
  <2>2. CASE Inbound(c)
    <3>1. asked' \in Seq(Frame) /\ Len(asked') <= MaxAsked
      BY <2>2, AskedTyped DEF Inbound, Frame
    <3> QED BY <2>2, <3>1 DEF Inbound
  <2>3. CASE InboundError(c) BY <2>3 DEF InboundError
  <2>4. CASE Writes(c)       BY <2>4 DEF Writes
  <2>5. CASE PeerGone(c)     BY <2>5 DEF PeerGone, Cancel
  <2>6. CASE Detach(c)       BY <2>6 DEF Detach, Serves, Forgotten
  <2>7. CASE ClosesPrev(c)   BY <2>7 DEF ClosesPrev, Cancel
  <2> QED BY <1>10, <2>1, <2>2, <2>3, <2>4, <2>5, <2>6, <2>7 DEF Session
<1>11. CASE UNCHANGED vars BY <1>11
<1> QED
  BY <1>1, <1>2, <1>3, <1>4, <1>5, <1>6, <1>7, <1>8, <1>9, <1>10, <1>11
     DEF Next, Mpv, Ipc

\* The channel of a session never overflows, at most two ends of a connection
\* wait to be reported, and every frame is for a session or for everyone
\* (mpvipc/client.go, server.go).
THEOREM TypeCorrect == Spec => []TypeOK
<1>1. ASSUME Init PROVE TypeOK
  <2>1. asked = <<>> BY <1>1 DEF Init
  <2>2. asked \in Seq(Frame) /\ Len(asked) = 0 BY <2>1
  <2>3. Len(asked) <= MaxAsked BY <2>2, LinkConstants
  <2>4. /\ out \in [Client -> 0 .. Capacity]
        /\ ctx \in [Client -> {"off", "on", "cancelled"}]
        /\ prev \in [Client -> Client \cup {None}]
        /\ heard \in [Client -> {"never", "now", "before"}]
    BY <1>1, LinkConstants DEF Init
  <2>5. alive \in BOOLEAN /\ broken \in BOOLEAN /\ sawDown \in BOOLEAN
    BY <1>1 DEF Init
  <2>6. conn \in {"down", "connected", "serving"} /\ late \in 0 .. 2
    BY <1>1 DEF Init
  <2>7. carry \in [frame : Frame, to : Client] \cup {NoCarry}
    BY <1>1 DEF Init
  <2>8. client \in Client \cup {None}
    BY <1>1 DEF Init
  <2> QED BY <2>2, <2>3, <2>4, <2>5, <2>6, <2>7, <2>8 DEF TypeOK
<1> QED BY <1>1, TypeStep, PTL DEF Spec

-----------------------------------------------------------------------------
(* Who is attached.                                                        *)

\* The part of TypeOK that the proofs need.
Typed ==
    /\ conn \in {"down", "connected", "serving"}
    /\ late \in Nat
    /\ client \in Client \cup {None}
    /\ ctx \in [Client -> {"off", "on", "cancelled"}]
    /\ prev \in [Client -> Client \cup {None}]
    /\ heard \in [Client -> {"never", "now", "before"}]

\* A session that is over, or has not begun, owes nobody a close.
NothingOwed == \A c \in Client : ctx[c] = "off" => prev[c] = None

\* The invariant that makes AttachedIsClient inductive.
LinkInv == Typed /\ NothingOwed /\ AttachedIsClient

LEMMA LinkInit == Init => LinkInv
BY DEF Init, LinkInv, Typed, NothingOwed, AttachedIsClient, Live

LEMMA LinkStep == LinkInv /\ [Next]_vars => LinkInv'
<1> SUFFICES ASSUME LinkInv, [Next]_vars PROVE LinkInv'
  OBVIOUS
<1> USE LinkConstants
    DEF LinkInv, Typed, NothingOwed, AttachedIsClient, Live, ipc, session, vars
<1>1. CASE MpvStarts  BY <1>1 DEF MpvStarts
<1>2. CASE MpvDies    BY <1>2 DEF MpvDies
<1>3. CASE MpvEvent   BY <1>3 DEF MpvEvent
<1>4. CASE Connects   BY <1>4 DEF Connects
<1>5. CASE ConnUp     BY <1>5 DEF ConnUp, Cancel
<1>6. CASE ReadEnds   BY <1>6 DEF ReadEnds
<1>7. CASE ConnDown   BY <1>7 DEF ConnDown
<1>8. CASE FromMPV    BY <1>8 DEF FromMPV
<1>9. CASE Send       BY <1>9 DEF Send
<1>10. ASSUME NEW c \in Client, Session(c) PROVE LinkInv'
  <2>1. CASE Attach(c)       BY <2>1 DEF Attach
  <2>2. CASE Inbound(c)      BY <2>2 DEF Inbound
  <2>3. CASE InboundError(c) BY <2>3 DEF InboundError
  <2>4. CASE Writes(c)       BY <2>4 DEF Writes
  <2>5. CASE PeerGone(c)     BY <2>5 DEF PeerGone, Cancel
  <2>6. CASE Detach(c)       BY <2>6 DEF Detach, Serves, Forgotten
  <2>7. CASE ClosesPrev(c)   BY <2>7 DEF ClosesPrev, Cancel
  <2> QED BY <1>10, <2>1, <2>2, <2>3, <2>4, <2>5, <2>6, <2>7 DEF Session
<1>11. CASE UNCHANGED vars BY <1>11
<1> QED
  BY <1>1, <1>2, <1>3, <1>4, <1>5, <1>6, <1>7, <1>8, <1>9, <1>10, <1>11
     DEF Next, Mpv, Ipc

LEMMA LinkInductive == Spec => []LinkInv
BY LinkInit, LinkStep, PTL DEF Spec

\* Nobody believes to be connected and hears nothing: whatever the order of
\* attaches, displacements and late detaches, a live session is the client
\* (control.go, attach and detach).
THEOREM LiveSessionIsClient == Spec => []AttachedIsClient
<1>1. LinkInv => AttachedIsClient
  BY DEF LinkInv
<1> QED BY <1>1, LinkInductive, PTL

-----------------------------------------------------------------------------
(* A session that subscribed with an mpv that is gone is either over, or   *)
(* there is still something to come that ends it: the read loop reaches    *)
(* the end of the stream, reports it, and the next connection finds the    *)
(* mark it left.                                                           *)

Remembered ==
    \A c \in Client : heard[c] = "before" => \/ broken \/ late > 0 \/ sawDown
                                             \/ ~Live(c)

\* Which of the three it is follows the connection; a report is never still
\* to come once the next connection is made, which Prompt says of the times.
Phases ==
    /\ \A c \in Client : heard[c] = "now" => conn # "down" /\ ~broken
    /\ broken => conn # "down"
    /\ conn # "down" => late = 0
    /\ conn = "serving" => ~sawDown

DeafInv == LinkInv /\ Remembered /\ Phases

LEMMA DeafInit == Init => DeafInv
BY LinkInit DEF Init, DeafInv, Remembered, Phases

LEMMA DeafStep ==
    ASSUME Prompt
    PROVE  DeafInv /\ [Next]_vars => DeafInv'
<1> SUFFICES ASSUME DeafInv, [Next]_vars PROVE Remembered' /\ Phases'
  BY LinkStep DEF DeafInv
<1> USE LinkConstants
    DEF DeafInv, LinkInv, Typed, NothingOwed, AttachedIsClient, Live, Remembered, Phases,
        ipc, session, vars
<1>1. CASE MpvStarts  BY <1>1 DEF MpvStarts
<1>2. CASE MpvDies    BY <1>2 DEF MpvDies
<1>3. CASE MpvEvent   BY <1>3 DEF MpvEvent
<1>4. CASE Connects   BY <1>4 DEF Connects
<1>5. CASE ConnUp     BY <1>5 DEF ConnUp, Cancel
<1>6. CASE ReadEnds   BY <1>6 DEF ReadEnds
<1>7. CASE ConnDown   BY <1>7 DEF ConnDown
<1>8. CASE FromMPV    BY <1>8 DEF FromMPV
<1>9. CASE Send       BY <1>9 DEF Send
<1>10. ASSUME NEW c \in Client, Session(c) PROVE Remembered' /\ Phases'
  <2>1. CASE Attach(c)       BY <2>1 DEF Attach
  <2>2. CASE Inbound(c)      BY <2>2 DEF Inbound
  <2>3. CASE InboundError(c) BY <2>3 DEF InboundError
  <2>4. CASE Writes(c)       BY <2>4 DEF Writes
  <2>5. CASE PeerGone(c)     BY <2>5 DEF PeerGone, Cancel
  <2>6. CASE Detach(c)       BY <2>6 DEF Detach, Serves, Forgotten
  <2>7. CASE ClosesPrev(c)   BY <2>7 DEF ClosesPrev, Cancel
  <2> QED BY <1>10, <2>1, <2>2, <2>3, <2>4, <2>5, <2>6, <2>7 DEF Session
<1>11. CASE UNCHANGED vars BY <1>11
<1> QED
  BY <1>1, <1>2, <1>3, <1>4, <1>5, <1>6, <1>7, <1>8, <1>9, <1>10, <1>11
     DEF Next, Mpv, Ipc

\* After mpv has come back, no session goes on that waits for the events of the
\* one before (player.go, OnMPVConnect; control.disconnect), if the end of a
\* connection is reported before the next one is made.
THEOREM NoSessionIsDeaf ==
    ASSUME Prompt
    PROVE  Spec => []NoDeafClient
<1>1. DeafInv => NoDeafClient
  BY DEF DeafInv, LinkInv, Typed, Remembered, Phases, NoDeafClient
<1> QED BY <1>1, DeafInit, DeafStep, PTL DEF Spec
=============================================================================
