----------------------------- MODULE WebSocket -----------------------------
(* The event stream of the API (api/websocket.rs): a broadcast channel that  *)
(* keeps the last WsCapacity events, and one handle_socket loop per client   *)
(* that selects between the channel and the socket.                          *)
(*                                                                           *)
(* A select! branch whose pattern does not match is out for that round.  So  *)
(* after a Lagged error the loop listens to the socket only, until the       *)
(* client says something; and after the socket has ended it listens to the   *)
(* channel only, until an event cannot be sent.  While the loop writes to    *)
(* the socket it listens to neither, and a client that does not read can     *)
(* keep it there.                                                            *)
EXTENDS Integers, Sequences

CONSTANTS
  Clients,
  WsCapacity,   \* 1000 in bin/api.rs, which tokio rounds up to 1024
  MaxEvents     \* bound on events

ASSUME WsConfig == WsCapacity \in Nat \ {0} /\ MaxEvents \in Nat

VARIABLES
  sent,     \* events sent, numbered from 1
  next,     \* client -> number of the event it receives next
  loop,     \* client -> what its loop waits for
  out,      \* client -> the event being written, or 0: a welcome or a pong
  socket,   \* client -> whether its connection is up
  got,      \* client -> events written to its socket
  stalled,  \* clients that may never read again
  lagged    \* observer: clients that missed events

wsVars == <<sent, next, loop, out, socket, got, stalled, lagged>>

WsTypeOK ==
  /\ sent \in 0..MaxEvents /\ next \in [Clients -> 1..(MaxEvents + 1)]
  /\ loop \in [Clients -> {"closed", "both", "socket", "channel", "sending"}]
  /\ out \in [Clients -> 0..MaxEvents]
  /\ socket \in [Clients -> BOOLEAN] /\ stalled \subseteq Clients /\ lagged \subseteq Clients

WsInit ==
  /\ sent = 0 /\ next = [c \in Clients |-> 1]
  /\ loop = [c \in Clients |-> "closed"] /\ out = [c \in Clients |-> 0]
  /\ socket = [c \in Clients |-> FALSE]
  /\ got = [c \in Clients |-> <<>>] /\ stalled = {} /\ lagged = {}

Oldest == IF sent > WsCapacity THEN sent - WsCapacity + 1 ELSE 1

\* WsState::send: never waits, and is lost if nobody listens.
SendEvent ==
  /\ sent < MaxEvents /\ sent' = sent + 1
  /\ UNCHANGED <<next, loop, out, socket, got, stalled, lagged>>

\* ws_handler: subscribe, and write the welcome; the client sees what is sent from
\* now on.
Connect(c) ==
  /\ loop[c] = "closed" /\ ~socket[c] /\ got[c] = <<>> /\ c \notin stalled
  /\ loop' = [loop EXCEPT ![c] = "sending"] /\ socket' = [socket EXCEPT ![c] = TRUE]
  /\ next' = [next EXCEPT ![c] = sent + 1]
  /\ UNCHANGED <<sent, out, got, stalled, lagged>>

HearsChannel(c) == loop[c] \in {"both", "channel"} /\ next[c] <= sent
HearsSocket(c) == loop[c] \in {"both", "socket"}

\* A variant whose write is one of the futures of the select!, and is dropped when
\* the next event is there first.
ReceiveCancelling(c) ==
  /\ HearsChannel(c) \/ (loop[c] = "sending" /\ next[c] <= sent)
  /\ next[c] >= Oldest
  /\ next' = [next EXCEPT ![c] = @ + 1]
  /\ loop' = [loop EXCEPT ![c] = "sending"] /\ out' = [out EXCEPT ![c] = next[c]]
  /\ UNCHANGED <<sent, socket, got, stalled, lagged>>

\* The next event is there: the loop starts to write it.
Receive(c) ==
  /\ HearsChannel(c) /\ next[c] >= Oldest
  /\ next' = [next EXCEPT ![c] = @ + 1]
  /\ loop' = [loop EXCEPT ![c] = "sending"] /\ out' = [out EXCEPT ![c] = next[c]]
  /\ UNCHANGED <<sent, socket, got, stalled, lagged>>

\* RecvError::Lagged: the receiver moves up, and the branch is out.
Lag(c) ==
  /\ HearsChannel(c) /\ next[c] < Oldest
  /\ next' = [next EXCEPT ![c] = Oldest] /\ lagged' = lagged \cup {c}
  /\ loop' = [loop EXCEPT ![c] = IF @ = "both" THEN "socket" ELSE "closed"]
  /\ UNCHANGED <<sent, out, socket, got, stalled>>

\* The socket takes what is being written; it may still do so, into its buffers,
\* when the client has stopped reading.
Write(c) ==
  /\ loop[c] = "sending" /\ socket[c]
  /\ got' = IF out[c] = 0 THEN got ELSE [got EXCEPT ![c] = Append(@, out[c])]
  /\ loop' = [loop EXCEPT ![c] = "both"] /\ out' = [out EXCEPT ![c] = 0]
  /\ UNCHANGED <<sent, next, socket, stalled, lagged>>

\* The write fails: the loop ends for an event, and goes on for a welcome or a
\* pong.
WriteFails(c) ==
  /\ loop[c] = "sending" /\ ~socket[c]
  /\ loop' = [loop EXCEPT ![c] = IF out[c] = 0 THEN "both" ELSE "closed"]
  /\ out' = [out EXCEPT ![c] = 0]
  /\ UNCHANGED <<sent, next, socket, got, stalled, lagged>>

\* The client stops reading, with its connection up.
Stall(c) ==
  /\ socket[c] /\ c \notin stalled /\ stalled' = stalled \cup {c}
  /\ UNCHANGED <<sent, next, loop, out, socket, got, lagged>>

\* A variant whose loop does not come back to the channel.
HearDeaf(c, ping) ==
  /\ HearsSocket(c) /\ socket[c]
  /\ loop' = [loop EXCEPT ![c] = IF ping THEN "sending" ELSE "socket"]
  /\ UNCHANGED <<sent, next, out, socket, got, stalled, lagged>>

\* A ping, which is answered, or any other message: the next round listens to
\* both.
Hear(c, ping) ==
  /\ HearsSocket(c) /\ socket[c]
  /\ loop' = [loop EXCEPT ![c] = IF ping THEN "sending" ELSE "both"]
  /\ UNCHANGED <<sent, next, out, socket, got, stalled, lagged>>

\* A close frame.
HearClose(c) ==
  /\ HearsSocket(c) /\ socket[c]
  /\ loop' = [loop EXCEPT ![c] = "closed"] /\ socket' = [socket EXCEPT ![c] = FALSE]
  /\ UNCHANGED <<sent, next, out, got, stalled, lagged>>

\* The connection breaks.
Break(c) ==
  /\ loop[c] # "closed" /\ socket[c] /\ socket' = [socket EXCEPT ![c] = FALSE]
  /\ UNCHANGED <<sent, next, loop, out, got, stalled, lagged>>

\* A variant that takes the end of the stream for silence.
SeeBrokenAsSilence(c) ==
  /\ HearsSocket(c) /\ ~socket[c]
  /\ loop' = [loop EXCEPT ![c] = "both"]
  /\ UNCHANGED <<sent, next, out, socket, got, stalled, lagged>>

\* The loop sees the end of the stream: that branch is out.
SeeBroken(c) ==
  /\ HearsSocket(c) /\ ~socket[c]
  /\ loop' = [loop EXCEPT ![c] = IF @ = "both" THEN "channel" ELSE "closed"]
  /\ UNCHANGED <<sent, next, out, socket, got, stalled, lagged>>

WsNext ==
  \/ SendEvent
  \/ \E c \in Clients :
       \/ Connect(c) \/ Receive(c) \/ Lag(c) \/ Write(c) \/ WriteFails(c)
       \/ Stall(c) \/ (\E ping \in BOOLEAN : Hear(c, ping))
       \/ HearClose(c) \/ Break(c) \/ SeeBroken(c)

\* The runtime polls every loop; a write ends if the client reads or the connection
\* breaks.  Clients need not say anything; if one talks all the time, its events
\* still have their turn, since select! starts with a branch at random.
WsFairness ==
  \A c \in Clients :
    /\ SF_wsVars(Receive(c)) /\ SF_wsVars(Lag(c))
    /\ WF_wsVars(c \notin stalled /\ Write(c)) /\ WF_wsVars(WriteFails(c))
    /\ WF_wsVars(SeeBroken(c))

(***************************************************************************)
(* Properties                                                              *)
(***************************************************************************)

\* Whatever else its loop does between and during two writes, a client gets
\* events in the order they were sent, none twice, and none is left out unless
\* the channel overtook the loop.
EventsInOrder ==
  \A c \in Clients : \A i \in 2..Len(got[c]) :
    IF c \in lagged THEN got[c][i] > got[c][i - 1] ELSE got[c][i] = got[c][i - 1] + 1

\* A client that keeps up is served: an event sent while it is connected is
\* written to it, without its saying a word, unless the channel overtakes it, it
\* stops reading, or its connection ends.
EventsReachClients ==
  \A c \in Clients, e \in 1..MaxEvents :
    (socket[c] /\ loop[c] # "closed" /\ next[c] <= e /\ e <= sent)
      ~> ((\E i \in DOMAIN got[c] : got[c][i] = e) \/ c \in lagged \cup stalled \/ ~socket[c])

\* A broken connection is noticed, also in the middle of a write: its loop ends, or
\* waits for the next event to end at.
BrokenLoopsEnd ==
  \A c \in Clients :
    (loop[c] # "closed" /\ ~socket[c])
      ~> (loop[c] = "closed" \/ (loop[c] = "channel" /\ next[c] > sent))
=============================================================================
