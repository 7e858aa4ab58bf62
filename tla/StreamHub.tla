------------------------------ MODULE StreamHub ------------------------------
(***************************************************************************)
(* stream.Hub (internal/stream/hub.go) and the WebSocket connections of    *)
(* one task that it serves (internal/api/websocket.go).  The event loop of *)
(* the hub takes commands from a channel; every agent has a goroutine, the *)
(* pump, that takes its output, keeps it in the agent's buffer and offers  *)
(* it to every subscribed client; every connection has a reader and a      *)
(* writer.                                                                 *)
(*                                                                         *)
(* The list of clients is a Go slice, and modelled as one: a length and an *)
(* array that other slices may share.  A pump reads the slice under the    *)
(* lock and goes through it afterwards, while an Unsubscribe moves the     *)
(* elements of the same array down.                                        *)
(*                                                                         *)
(* Output comes in chunks, numbered for each agent.  What a buffer forgets *)
(* when it is full is left to RingBuffer.                                  *)
(***************************************************************************)
EXTENDS Integers, Sequences, FiniteSets, GoSlices

CONSTANTS
  Agents,
  Clients,
  Wants,       \* the agents each client asks for: one, or all of the task's
  MaxChunks,   \* bounds: chunks of output of an agent,
  MaxBreaks,   \* and connections that break
  CommandCap,  \* capacities of the channels Hub.msgCh,
  OutputCap,   \* AgentStream.OutputCh
  SendCap      \* and Client.Send

ASSUME HubAssumption ==
  /\ Wants \in [Clients -> SUBSET Agents] /\ MaxChunks \in Nat /\ MaxBreaks \in Nat
  /\ CommandCap \in Nat \ {0} /\ OutputCap \in Nat \ {0} /\ SendCap \in Nat \ {0}

VARIABLES
  commands,    \* msgCh
  hub,         \* the event loop: in its loop, about to close a client's Done, or shut down
  arrays,      \* the arrays slices of clients have been given, with their full length
  list,        \* clients[task]: which array (0: no entry in the map), and the length
  stream,      \* of each agent: not asked for, asked, active, finished
  agentDone,   \* AgentStream.Done is closed
  produced,    \* chunks its container has put out
  output,      \* OutputCh
  buffer,      \* AgentStream.Buffer
  pump,        \* how far its pump has come
  chunk,       \* the chunk in the pump's hands
  view,        \* the slice the pump goes through
  pos,         \* where in it
  conn,        \* how far the handler of each connection has come, and its writer
  reader,      \* and its reader
  broken,      \* the connection is no more
  clientDone,  \* Client.Done is closed
  frames,      \* everything put into Client.Send so far...
  taken,       \* ...and how much of it the writer took out
  backfill,    \* what the client was sent first
  panicked,    \* a closed channel was closed: the process is gone
  \* history, which no action reads:
  dropped,     \* frames a client lost as its channel was full
  early,       \* clients that were sent the backfill before the hub knew them
  shifted      \* clients whose list moved under a pump going through it

loop == <<commands, hub>>
slices == <<arrays, list>>
agents == <<stream, agentDone, produced, output, buffer>>
pumps == <<pump, chunk, view, pos>>
sockets == <<conn, reader, broken, clientDone>>
sending == <<frames, taken, backfill>>
history == <<dropped, early, shifted>>
vars == <<loop, slices, agents, pumps, sockets, sending, panicked, history>>

Init ==
  /\ commands = <<>> /\ hub = "loop"
  /\ arrays = <<>> /\ list = NoSlice
  /\ stream = [a \in Agents |-> "none"]
  /\ agentDone = [a \in Agents |-> FALSE]
  /\ produced = [a \in Agents |-> 0]
  /\ output = [a \in Agents |-> <<>>]
  /\ buffer = [a \in Agents |-> <<>>]
  /\ pump = [a \in Agents |-> "none"]
  /\ chunk = [a \in Agents |-> 0]
  /\ view = [a \in Agents |-> NoSlice]
  /\ pos = [a \in Agents |-> 1]
  /\ conn = [c \in Clients |-> "none"]
  /\ reader = [c \in Clients |-> "none"]
  /\ broken = [c \in Clients |-> FALSE]
  /\ clientDone = [c \in Clients |-> FALSE]
  /\ frames = [c \in Clients |-> <<>>]
  /\ taken = [c \in Clients |-> 0]
  /\ backfill = [c \in Clients |-> {}]
  /\ panicked = FALSE
  /\ dropped = [c \in Clients |-> {}]
  /\ early = {} /\ shifted = {}

Send(command, who) ==
  /\ Len(commands) < CommandCap
  /\ commands' = Append(commands, [cmd |-> command, who |-> who])
  /\ UNCHANGED hub

Take(command, who) ==
  /\ hub = "loop" /\ commands # <<>>
  /\ Head(commands) = [cmd |-> command, who |-> who]
  /\ commands' = Tail(commands)

Subscribers == Members(arrays, list)
-----------------------------------------------------------------------------
(***************************************************************************)
(* Agents                                                                  *)
(***************************************************************************)
RegisterAgent(a) ==
  /\ stream[a] = "none"
  /\ Send("register", a)
  /\ stream' = [stream EXCEPT ![a] = "asked"]
  /\ UNCHANGED <<slices, agentDone, produced, output, buffer, pumps, sockets, sending, panicked, history>>

DoRegisterAgent(a) ==
  /\ Take("register", a)
  /\ stream' = [stream EXCEPT ![a] = "active"]
  /\ pump' = [pump EXCEPT ![a] = "select"]
  /\ UNCHANGED <<hub, slices, agentDone, produced, output, buffer, chunk, view, pos, sockets, sending,
                 panicked, history>>

\* The goroutine attached to the container: a chunk that does not fit is dropped.
Output(a) ==
  /\ stream[a] \in {"active", "leaving"} /\ produced[a] < MaxChunks
  /\ produced' = [produced EXCEPT ![a] = @ + 1]
  /\ output' = IF Len(output[a]) < OutputCap
               THEN [output EXCEPT ![a] = Append(@, produced'[a])]
               ELSE output
  /\ UNCHANGED <<loop, slices, stream, agentDone, buffer, pumps, sockets, sending, panicked, history>>

UnregisterAgent(a) ==
  /\ stream[a] = "active"
  /\ Send("unregister", a)
  /\ stream' = [stream EXCEPT ![a] = "leaving"]
  /\ UNCHANGED <<slices, agentDone, produced, output, buffer, pumps, sockets, sending, panicked, history>>

\* The buffer is kept for clients still to come.
DoUnregisterAgent(a) ==
  /\ Take("unregister", a)
  /\ stream' = [stream EXCEPT ![a] = "finished"]
  /\ agentDone' = [agentDone EXCEPT ![a] = TRUE]
  /\ UNCHANGED <<hub, slices, produced, output, buffer, pumps, sockets, sending, panicked, history>>
-----------------------------------------------------------------------------
(***************************************************************************)
(* The pump of an agent                                                    *)
(***************************************************************************)
PumpTake(a) ==
  /\ pump[a] = "select" /\ output[a] # <<>>
  /\ chunk' = [chunk EXCEPT ![a] = Head(output[a])]
  /\ output' = [output EXCEPT ![a] = Tail(@)]
  /\ buffer' = [buffer EXCEPT ![a] = Append(@, Head(output[a]))]
  /\ pump' = [pump EXCEPT ![a] = "took"]
  /\ UNCHANGED <<loop, slices, stream, agentDone, produced, view, pos, sockets, sending, panicked, history>>

PumpLook(a) ==
  /\ pump[a] = "took"
  /\ view' = [view EXCEPT ![a] = list]
  /\ pos' = [pos EXCEPT ![a] = 1]
  /\ pump' = [pump EXCEPT ![a] = "sending"]
  /\ UNCHANGED <<loop, slices, agents, chunk, sockets, sending, panicked, history>>

\* As if the pump went through the new list when the list changed under it.
PumpSendAnew(a) ==
  /\ pump[a] = "sending" /\ pos[a] <= view[a].len
  /\ LET c == ElementAt(arrays, view[a], pos[a])
     IN  frames' = IF a \in Wants[c] /\ conn[c] # "over"
                   THEN [frames EXCEPT ![c] = Append(@, <<a, chunk[a]>>)] ELSE frames
  /\ view' = [view EXCEPT ![a] = list]
  /\ pos' = [pos EXCEPT ![a] = IF list = view[a] THEN @ + 1 ELSE 1]
  /\ UNCHANGED <<loop, slices, agents, pump, chunk, sockets, taken, backfill, panicked, history>>

\* The next client of the slice, as its array is now: a frame that does not fit is dropped.
\* Nobody reads the channel of a connection that is over.
PumpSend(a) ==
  /\ pump[a] = "sending" /\ pos[a] <= view[a].len
  /\ LET c == ElementAt(arrays, view[a], pos[a])
         frame == <<a, chunk[a]>>
     IN  IF a \notin Wants[c] \/ conn[c] = "over"
         THEN UNCHANGED <<frames, dropped>>
         ELSE IF Len(frames[c]) - taken[c] < SendCap
         THEN frames' = [frames EXCEPT ![c] = Append(@, frame)] /\ UNCHANGED dropped
         ELSE dropped' = [dropped EXCEPT ![c] = @ \cup {frame}] /\ UNCHANGED frames
  /\ pos' = [pos EXCEPT ![a] = @ + 1]
  /\ UNCHANGED <<loop, slices, agents, pump, chunk, view, sockets, taken, backfill, panicked, early, shifted>>

PumpAgain(a) ==
  /\ pump[a] = "sending" /\ pos[a] > view[a].len
  /\ pump' = [pump EXCEPT ![a] = "select"]
  /\ chunk' = [chunk EXCEPT ![a] = 0]
  /\ view' = [view EXCEPT ![a] = NoSlice]
  /\ pos' = [pos EXCEPT ![a] = 1]
  /\ UNCHANGED <<loop, slices, agents, sockets, sending, panicked, history>>

\* What is left in OutputCh is lost.
PumpStop(a) ==
  /\ pump[a] = "select" /\ agentDone[a]
  /\ pump' = [pump EXCEPT ![a] = "stopped"]
  /\ UNCHANGED <<loop, slices, agents, chunk, view, pos, sockets, sending, panicked, history>>
-----------------------------------------------------------------------------
(***************************************************************************)
(* Clients                                                                 *)
(***************************************************************************)
Subscribe(c) ==
  /\ conn[c] = "none"
  /\ Send("subscribe", c)
  /\ conn' = [conn EXCEPT ![c] = "subscribed"]
  /\ UNCHANGED <<slices, agents, pumps, reader, broken, clientDone, sending, panicked, history>>

DoSubscribe(c) ==
  /\ Take("subscribe", c)
  /\ LET appended == AppendTo(arrays, list, c) IN
       arrays' = appended.arrays /\ list' = appended.slice
  /\ UNCHANGED <<hub, agents, pumps, sockets, sending, panicked, history>>

\* As if the buffers of finished agents were not looked at.
BackfillOfActive(c) ==
  /\ conn[c] = "subscribed"
  /\ backfill' = [backfill EXCEPT ![c] =
                   UNION {{<<a, buffer[a][i]>> : i \in DOMAIN buffer[a]} :
                            a \in {b \in Wants[c] : stream[b] # "finished"}}]
  /\ early' = IF c \in Subscribers THEN early ELSE early \cup {c}
  /\ conn' = [conn EXCEPT ![c] = "pumping"]
  /\ reader' = [reader EXCEPT ![c] = "reading"]
  /\ UNCHANGED <<loop, slices, agents, pumps, broken, clientDone, frames, taken, panicked, dropped, shifted>>

\* GetBackfill reads the buffers without waiting for the command to be carried out.
Backfill(c) ==
  /\ conn[c] = "subscribed"
  /\ backfill' = [backfill EXCEPT ![c] =
                   UNION {{<<a, buffer[a][i]>> : i \in DOMAIN buffer[a]} : a \in Wants[c]}]
  /\ early' = IF c \in Subscribers THEN early ELSE early \cup {c}
  /\ conn' = [conn EXCEPT ![c] = "pumping"]
  /\ reader' = [reader EXCEPT ![c] = "reading"]
  /\ UNCHANGED <<loop, slices, agents, pumps, broken, clientDone, frames, taken, panicked, dropped, shifted>>

Write(c) ==
  /\ conn[c] = "pumping" /\ taken[c] < Len(frames[c]) /\ ~broken[c]
  /\ taken' = [taken EXCEPT ![c] = @ + 1]
  /\ UNCHANGED <<loop, slices, agents, pumps, sockets, frames, backfill, panicked, history>>

\* The browser goes away, or does not answer for a minute.
Break(c) ==
  /\ conn[c] = "pumping" /\ ~broken[c]
  /\ Cardinality({d \in Clients : broken[d]}) < MaxBreaks
  /\ broken' = [broken EXCEPT ![c] = TRUE]
  /\ UNCHANGED <<loop, slices, agents, pumps, conn, reader, clientDone, sending, panicked, history>>

\* ReadMessage fails: the deferred function looks whether Done is closed...
ReaderEnds(c) ==
  /\ reader[c] = "reading" /\ (broken[c] \/ conn[c] = "over")
  /\ reader' = [reader EXCEPT ![c] = IF clientDone[c] THEN "over" ELSE "closing"]
  /\ UNCHANGED <<loop, slices, agents, pumps, conn, broken, clientDone, sending, panicked, history>>

\* ...and closes it.
ReaderCloses(c) ==
  /\ reader[c] = "closing"
  /\ reader' = [reader EXCEPT ![c] = "over"]
  /\ clientDone' = [clientDone EXCEPT ![c] = TRUE]
  /\ panicked' = clientDone[c]
  /\ UNCHANGED <<loop, slices, agents, pumps, conn, broken, sending, history>>

\* Writing a frame or a ping fails, or Done is closed.
WriterEnds(c) ==
  /\ conn[c] = "pumping" /\ (broken[c] \/ clientDone[c])
  /\ conn' = [conn EXCEPT ![c] = "leaving"]
  /\ UNCHANGED <<loop, slices, agents, pumps, reader, broken, clientDone, sending, panicked, history>>

\* The handler ends; with the connection closed, ReadMessage fails if it has not yet.
Unsubscribe(c) ==
  /\ conn[c] = "leaving"
  /\ Send("unsubscribe", c)
  /\ conn' = [conn EXCEPT ![c] = "over"]
  /\ frames' = [frames EXCEPT ![c] = <<>>]
  /\ taken' = [taken EXCEPT ![c] = 0]
  /\ backfill' = [backfill EXCEPT ![c] = {}]
  /\ dropped' = [dropped EXCEPT ![c] = {}]
  /\ early' = early \ {c}
  /\ UNCHANGED <<slices, agents, pumps, reader, broken, clientDone, panicked, shifted>>

RemoveClient(c) ==
  LET removed == RemoveFrom(arrays, list, c) IN
    arrays' = removed.arrays /\ list' = removed.slice

\* As if a client whose Done is closed had to have been removed already.
DoUnsubscribeOnce(c) ==
  /\ Take("unsubscribe", c)
  /\ IF clientDone[c] THEN UNCHANGED slices ELSE RemoveClient(c)
  /\ hub' = IF clientDone[c] THEN "loop" ELSE c
  /\ UNCHANGED <<agents, pumps, sockets, sending, panicked, history>>

\* The client is taken off the list; then the hub looks whether its Done is closed.
DoUnsubscribe(c) ==
  /\ Take("unsubscribe", c)
  /\ RemoveClient(c)
  /\ shifted' = IF \E a \in Agents : pump[a] = "sending" /\ view[a].array = list.array
                THEN shifted \cup Subscribers ELSE shifted
  /\ hub' = IF clientDone[c] THEN "loop" ELSE c
  /\ UNCHANGED <<agents, pumps, sockets, sending, panicked, dropped, early>>

HubCloses(c) ==
  /\ hub = c
  /\ hub' = "loop"
  /\ clientDone' = [clientDone EXCEPT ![c] = TRUE]
  /\ panicked' = clientDone[c]
  /\ UNCHANGED <<commands, slices, agents, pumps, conn, reader, broken, sending, history>>
-----------------------------------------------------------------------------
CleanupAll ==
  /\ agentDone' = [a \in Agents |-> agentDone[a] \/ stream[a] \in {"active", "leaving"}]
  /\ clientDone' = [c \in Clients |-> clientDone[c] \/ c \in Subscribers]
  /\ list' = NoSlice

\* Hub.Shutdown closes the channel of that name, and the event loop takes notice.
Shutdown ==
  /\ hub = "loop"
  /\ hub' = "shut down"
  /\ CleanupAll
  /\ UNCHANGED <<commands, arrays, stream, produced, output, buffer, pumps, conn, reader, broken,
                 sending, panicked, history>>
-----------------------------------------------------------------------------
Pump(a) == PumpTake(a) \/ PumpLook(a) \/ PumpSend(a) \/ PumpAgain(a) \/ PumpStop(a)

EventLoop ==
  \/ \E a \in Agents : DoRegisterAgent(a) \/ DoUnregisterAgent(a)
  \/ \E c \in Clients : DoSubscribe(c) \/ DoUnsubscribe(c) \/ HubCloses(c)

Handler(c) == Backfill(c) \/ WriterEnds(c) \/ Unsubscribe(c)
Reader(c) == ReaderEnds(c) \/ ReaderCloses(c)

Next ==
  /\ ~panicked /\ hub # "shut down"
  /\ \/ \E a \in Agents : RegisterAgent(a) \/ Output(a) \/ UnregisterAgent(a) \/ Pump(a)
     \/ EventLoop
     \/ \E c \in Clients : Subscribe(c) \/ Handler(c) \/ Write(c) \/ Break(c) \/ Reader(c)
     \/ Shutdown

\* Goroutines go on.  A handler that is blocked on the full channel of commands gets its
\* turn (Go serves the senders of a channel in order).
Fairness ==
  /\ WF_vars(~panicked /\ EventLoop)
  /\ \A c \in Clients : /\ WF_vars(~panicked /\ (Backfill(c) \/ WriterEnds(c)))
                        /\ SF_vars(~panicked /\ Unsubscribe(c))
                        /\ WF_vars(~panicked /\ Reader(c))

Spec == Init /\ [][Next]_vars
FairSpec == Spec /\ Fairness
-----------------------------------------------------------------------------
(***************************************************************************)
(* Properties                                                              *)
(***************************************************************************)
Buffered(a) == {<<a, buffer[a][i]>> : i \in DOMAIN buffer[a]}
Framed(c) == {frames[c][i] : i \in DOMAIN frames[c]}

\* The pump has the chunk in its hands, and has the client still to come.
OnTheWay(frame, c) ==
  LET a == frame[1] IN
    /\ chunk[a] = frame[2]
    /\ \/ pump[a] = "took"
       \/ pump[a] = "sending" /\ \E i \in pos[a] .. view[a].len : ElementAt(arrays, view[a], i) = c

\* A connected client has been sent everything that was ever buffered of what it asked
\* for, in the backfill or since, but for frames dropped because it is too slow.  It takes
\* the hub to have carried out the Subscribe before GetBackfill looked, which the handler
\* does not wait for, and nobody to have unsubscribed under a pump (hub.go:156-181,
\* websocket.go:53-56).
NothingIsMissed ==
  \A c \in Clients : conn[c] = "pumping" /\ ~clientDone[c] /\ c \notin early \cup shifted =>
    \A a \in Wants[c] : \A frame \in Buffered(a) :
      frame \in backfill[c] \cup Framed(c) \cup dropped[c] \/ OnTheWay(frame, c)

\* The live frames of an agent reach a client in the order they were put out, and none
\* twice, unless another client was removed from the slice a pump was going through:
\* that pump then meets the last client again (hub.go:170-181, 250-256).
FramesInOrder ==
  \A c \in Clients \ shifted : \A i, j \in DOMAIN frames[c] :
    i < j /\ frames[c][i][1] = frames[c][j][1] => frames[c][i][2] < frames[c][j][2]

\* A connection that breaks is left by its reader, its writer and the hub, whoever notices
\* it first and however full the channels are, unless the hub is shut down or the process
\* panics (websocket.go:72-91, 129-163; hub.go:247-270).
BrokenClientsLeave ==
  \A c \in Clients :
    broken[c] ~> \/ conn[c] = "over" /\ reader[c] = "over" /\ c \notin Subscribers
                 \/ hub = "shut down" \/ panicked

\* Done of a client is closed once: "All mutations go through a single event loop
\* goroutine" (hub.go:39).  It does not hold (README, section 5).
DoneIsClosedOnce == ~panicked
=============================================================================
