--------------------------- MODULE MessageStreams ---------------------------
(***************************************************************************)
(* The messages of one task between its agents and the browsers that watch *)
(* them: the handler that takes a message in (internal/api/teams.go), the  *)
(* table it is kept in (internal/db/queries.go), the bus it is published   *)
(* on (internal/stream/msgbus.go) and the WebSocket connections that show  *)
(* it (internal/api/ws_messages.go).                                       *)
(*                                                                         *)
(* Handlers and connections have goroutines of their own.  The bus has a   *)
(* lock around its list of channels, but Publish goes through a copy of    *)
(* the slice after it has let go of the lock (see GoSlices).               *)
(*                                                                         *)
(* A message is the number of its time stamp: the handlers read the clock  *)
(* one after the other, and insert in any order.                           *)
(*                                                                         *)
(* No name here is one of StreamHub, so that StreamProofs can extend both. *)
(***************************************************************************)
EXTENDS Integers, Sequences, FiniteSets, SequencesExt, GoSlices

CONSTANTS
  Posters,        \* handlers that may be at work at the same time
  Browsers,       \* connections
  Fragile,        \* those that may break
  MaxMessages,    \* bounds: messages
  MaxFaults,      \* and statements that fail
  ChannelCap,     \* capacity of a subscriber's channel, 64
  BackfillLimit   \* messages a new connection is sent, 500

ASSUME MessageStreamsAssumption ==
  /\ Fragile \subseteq Browsers /\ MaxMessages \in Nat /\ MaxFaults \in Nat
  /\ ChannelCap \in Nat \ {0} /\ BackfillLimit \in Nat \ {0}

VARIABLES
  clock,      \* messages that were given their time stamp
  rows,       \* agent_messages, in the order of the ids
  post,       \* how far each handler has come
  message,    \* what it is posting
  busArrays,  \* the bus: the arrays of channels (see GoSlices)
  subs,       \* and MessageBus.subs of the task
  copied,     \* the slice a handler goes through in Publish
  reached,    \* and where in it
  socket,     \* how far the handler of each connection has come
  readPump,   \* its read pump
  gone,       \* the connection is no more
  channel,    \* what is in its channel
  shown,      \* what the browser was sent, in the backfill or the stream
  faults,
  \* history, which no action reads:
  lost,       \* messages a client lost as its channel was full
  passedOver  \* clients whose list moved under a Publish going through it

table == <<clock, rows>>
posting == <<post, message, copied, reached>>
bus == <<busArrays, subs>>
connections == <<socket, readPump, gone>>
busHistory == <<lost, passedOver>>
busVars == <<table, posting, bus, connections, channel, shown, faults, busHistory>>

Listeners == Members(busArrays, subs)

BusInit ==
  /\ clock = 0 /\ rows = <<>>
  /\ post = [p \in Posters |-> "idle"]
  /\ message = [p \in Posters |-> 0]
  /\ busArrays = <<>> /\ subs = NoSlice
  /\ copied = [p \in Posters |-> NoSlice]
  /\ reached = [p \in Posters |-> 1]
  /\ socket = [c \in Browsers |-> "none"]
  /\ readPump = [c \in Browsers |-> "none"]
  /\ gone = [c \in Browsers |-> FALSE]
  /\ channel = [c \in Browsers |-> <<>>]
  /\ shown = [c \in Browsers |-> {}]
  /\ faults = 0
  /\ lost = [c \in Browsers |-> {}]
  /\ passedOver = {}

Fault == faults < MaxFaults /\ faults' = faults + 1
-----------------------------------------------------------------------------
(***************************************************************************)
(* SendAgentMessage: insert, then publish                                  *)
(***************************************************************************)
\* The handler answers the agent and is ready for the next message.
Answer(p) ==
  /\ post' = [post EXCEPT ![p] = "idle"]
  /\ message' = [message EXCEPT ![p] = 0]
  /\ copied' = [copied EXCEPT ![p] = NoSlice]
  /\ reached' = [reached EXCEPT ![p] = 1]

SendAgentMessage(p) ==
  /\ post[p] = "idle" /\ clock < MaxMessages
  /\ clock' = clock + 1
  /\ message' = [message EXCEPT ![p] = clock']
  /\ post' = [post EXCEPT ![p] = "stamped"]
  /\ UNCHANGED <<rows, copied, reached, bus, connections, channel, shown, faults, busHistory>>

CreateAgentMessage(p) ==
  /\ post[p] = "stamped"
  /\ rows' = Append(rows, message[p])
  /\ post' = [post EXCEPT ![p] = "inserted"]
  /\ UNCHANGED <<clock, message, copied, reached, bus, connections, channel, shown, faults, busHistory>>

\* The agent is answered with an error, and nobody is told of the message.
CreateAgentMessageFails(p) ==
  /\ post[p] = "stamped"
  /\ Fault
  /\ Answer(p)
  /\ UNCHANGED <<table, bus, connections, channel, shown, busHistory>>

Look(p) ==
  /\ post[p] = "inserted"
  /\ IF subs = NoSlice THEN Answer(p)
     ELSE /\ copied' = [copied EXCEPT ![p] = subs]
          /\ post' = [post EXCEPT ![p] = "publishing"]
          /\ UNCHANGED <<message, reached>>
  /\ UNCHANGED <<table, bus, connections, channel, shown, faults, busHistory>>

\* The next channel of the slice, as its array is now: a message that does not fit is
\* dropped.  Nobody reads the channel of a connection that is over.
Publish(p) ==
  /\ post[p] = "publishing"
  /\ LET c == ElementAt(busArrays, copied[p], reached[p]) IN
       IF socket[c] = "over" THEN UNCHANGED <<channel, lost>>
       ELSE IF Len(channel[c]) < ChannelCap
       THEN channel' = [channel EXCEPT ![c] = Append(@, message[p])] /\ UNCHANGED lost
       ELSE lost' = [lost EXCEPT ![c] = @ \cup {message[p]}] /\ UNCHANGED channel
  /\ IF reached[p] < copied[p].len
     THEN reached' = [reached EXCEPT ![p] = @ + 1] /\ UNCHANGED <<post, message, copied>>
     ELSE Answer(p)
  /\ UNCHANGED <<table, bus, connections, shown, faults, passedOver>>
-----------------------------------------------------------------------------
(***************************************************************************)
(* HandleMessageStream: subscribe, backfill, stream                        *)
(***************************************************************************)
\* As if the list of a task held its last subscriber only.
BusSubscribeAlone(c) ==
  /\ socket[c] = "none"
  /\ busArrays' = Append(busArrays, <<c>>)
  /\ subs' = [array |-> Len(busArrays'), len |-> 1]
  /\ socket' = [socket EXCEPT ![c] = "subscribed"]
  /\ UNCHANGED <<table, posting, readPump, gone, channel, shown, faults, busHistory>>

BusSubscribe(c) ==
  /\ socket[c] = "none"
  /\ LET appended == AppendTo(busArrays, subs, c) IN
       busArrays' = appended.arrays /\ subs' = appended.slice
  /\ socket' = [socket EXCEPT ![c] = "subscribed"]
  /\ UNCHANGED <<table, posting, readPump, gone, channel, shown, faults, busHistory>>

\* The first of the messages by their time stamps, not by their ids.
ListAgentMessages ==
  {m \in ToSet(rows) : Cardinality({older \in ToSet(rows) : older < m}) < BackfillLimit}

StartPumps(c) ==
  /\ socket' = [socket EXCEPT ![c] = "pumping"]
  /\ readPump' = [readPump EXCEPT ![c] = "reading"]

\* As if a write that fails ended the handler before it has deferred its Unsubscribe.
SendMessageBackfillOrLeave(c) ==
  /\ socket[c] = "subscribed"
  /\ IF gone[c]
     THEN socket' = [socket EXCEPT ![c] = "over"] /\ UNCHANGED <<readPump, shown>>
     ELSE shown' = [shown EXCEPT ![c] = ListAgentMessages] /\ StartPumps(c)
  /\ UNCHANGED <<table, posting, bus, gone, channel, faults, busHistory>>

\* A write that fails ends the backfill, and nothing else.
SendMessageBackfill(c) ==
  /\ socket[c] = "subscribed"
  /\ shown' = IF gone[c] THEN shown ELSE [shown EXCEPT ![c] = ListAgentMessages]
  /\ StartPumps(c)
  /\ UNCHANGED <<table, posting, bus, gone, channel, faults, busHistory>>

\* The browser is shown the stream only, and is not told.
SendMessageBackfillFails(c) ==
  /\ socket[c] = "subscribed"
  /\ Fault
  /\ StartPumps(c)
  /\ lost' = [lost EXCEPT ![c] = @ \cup ToSet(rows)]
  /\ UNCHANGED <<table, posting, bus, gone, channel, shown, passedOver>>

\* The write pump: a message that cannot be written ends it.
WriteMessage(c) ==
  /\ socket[c] = "pumping" /\ channel[c] # <<>>
  /\ channel' = [channel EXCEPT ![c] = Tail(@)]
  /\ shown' = IF gone[c] THEN shown ELSE [shown EXCEPT ![c] = @ \cup {Head(channel[c])}]
  /\ socket' = IF gone[c] THEN [socket EXCEPT ![c] = "leaving"] ELSE socket
  /\ UNCHANGED <<table, posting, bus, readPump, gone, faults, busHistory>>

\* The browser goes away, or does not answer for a minute.
GoAway(c) ==
  /\ c \in Fragile
  /\ socket[c] \in {"subscribed", "pumping"} /\ ~gone[c]
  /\ gone' = [gone EXCEPT ![c] = TRUE]
  /\ UNCHANGED <<table, posting, bus, socket, readPump, channel, shown, faults, busHistory>>

\* ReadMessage fails, and done is closed.
ReadPumpEnds(c) ==
  /\ readPump[c] = "reading" /\ (gone[c] \/ socket[c] = "over")
  /\ readPump' = [readPump EXCEPT ![c] = "over"]
  /\ UNCHANGED <<table, posting, bus, socket, gone, channel, shown, faults, busHistory>>

\* done is closed, or a ping cannot be written.
WritePumpEnds(c) ==
  /\ socket[c] = "pumping" /\ (readPump[c] = "over" \/ gone[c])
  /\ socket' = [socket EXCEPT ![c] = "leaving"]
  /\ UNCHANGED <<table, posting, bus, readPump, gone, channel, shown, faults, busHistory>>

\* The deferred calls: the connection is closed and forgotten with its channel.
BusUnsubscribe(c) ==
  /\ socket[c] = "leaving"
  /\ LET removed == RemoveFrom(busArrays, subs, c) IN
       busArrays' = removed.arrays /\ subs' = removed.slice
  /\ socket' = [socket EXCEPT ![c] = "over"]
  /\ channel' = [channel EXCEPT ![c] = <<>>]
  /\ passedOver' = IF \E p \in Posters : post[p] = "publishing" /\ copied[p].array = subs.array
                   THEN passedOver \cup Listeners ELSE passedOver
  /\ shown' = [shown EXCEPT ![c] = {}]
  /\ lost' = [lost EXCEPT ![c] = {}]
  /\ UNCHANGED <<table, posting, readPump, gone, faults>>
-----------------------------------------------------------------------------
Poster(p) ==
  \/ CreateAgentMessage(p) \/ CreateAgentMessageFails(p) \/ Look(p) \/ Publish(p)

Connection(c) ==
  \/ SendMessageBackfill(c) \/ SendMessageBackfillFails(c) \/ WriteMessage(c) \/ WritePumpEnds(c) \/ BusUnsubscribe(c)

BusNext ==
  \/ \E p \in Posters : SendAgentMessage(p) \/ Poster(p)
  \/ \E c \in Browsers : BusSubscribe(c) \/ Connection(c) \/ GoAway(c) \/ ReadPumpEnds(c)

\* The goroutines of a connection go on; agents, browsers and the network do as they like.
BusFairness ==
  \A c \in Browsers : WF_busVars(Connection(c)) /\ WF_busVars(ReadPumpEnds(c))

BusSpec == BusInit /\ [][BusNext]_busVars
FairBusSpec == BusSpec /\ BusFairness
-----------------------------------------------------------------------------
(***************************************************************************)
(* Properties                                                              *)
(***************************************************************************)

\* The handler that inserted the message has yet to look for subscribers, or has the
\* client still to come.
UnderWay(m, c) ==
  \E p \in Posters :
    /\ message[p] = m
    /\ \/ post[p] = "inserted"
       \/ post[p] = "publishing" /\ \E i \in reached[p] .. copied[p].len : ElementAt(busArrays, copied[p], i) = c

\* What a browser has been shown, what is in its channel and what is on its way are all
\* the messages of the task: the subscription comes before the backfill, and the insertion
\* before the publication (ws_messages.go:42-47, teams.go:285-307).  Excepted are messages
\* dropped for a slow browser, those beyond the limit of the backfill, and those a Publish
\* missed because somebody else left the slice it was going through (msgbus.go:52-57,
\* 67-79).
StreamsAreComplete ==
  \A c \in Browsers :
    socket[c] = "pumping" /\ ~gone[c] /\ c \notin passedOver /\ Len(rows) <= BackfillLimit =>
      \A m \in ToSet(rows) : m \in shown[c] \cup ToSet(channel[c]) \cup lost[c] \/ UnderWay(m, c)

\* A connection that breaks is noticed by its reader or its writer, in the middle of the
\* backfill too, and its channel leaves the bus, wherever it is in the list by then
\* (ws_messages.go:42-103, msgbus.go:47-63).
BrokenStreamsLeave ==
  \A c \in Fragile : gone[c] ~> socket[c] = "over" /\ readPump[c] = "over" /\ c \notin Listeners

\* "Publish sends an agent message event to all subscribers of the given task"
\* (msgbus.go:65), if they have room: nobody misses one because somebody else leaves.
\* It does not hold (README, section 5): the slice Publish goes through is changed in place.
StayersMissNothing ==
  \A c \in Browsers :
    socket[c] = "pumping" /\ ~gone[c] /\ Len(rows) <= BackfillLimit =>
      \A m \in ToSet(rows) : m \in shown[c] \cup ToSet(channel[c]) \cup lost[c] \/ UnderWay(m, c)
=============================================================================
