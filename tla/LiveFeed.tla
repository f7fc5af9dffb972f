------------------------------ MODULE LiveFeed ------------------------------
(***************************************************************************)
(* The live feed of one API instance: requests that have appended an event *)
(* fan it out to the subscribers' bounded channels under a read lock,      *)
(* streams subscribe and cancel under the write lock, and each stream      *)
(* forwards its own tenant's events.  A stream is opened with an API key,  *)
(* or with a ticket that any instance can check and that is not used up.   *)
(* An event is its number, its place in the order of fanouts.              *)
(***************************************************************************)
EXTENDS Requests, Naturals, Sequences, FiniteSets, Functions

CONSTANTS
  Streams,       \* connections
  FeedTenants,
  Buffer,        \* capacity of a subscriber's channel
  TicketLife,    \* lifetime of a ticket in seconds
  Second,        \* ticks of the clock in a second
  MaxTickets,    \* bound on tickets
  MaxEvents,     \* bound on events
  LastTick       \* bound on the clock

ASSUME FeedAssumption ==
  /\ Buffer \in Nat /\ TicketLife \in Nat /\ Second \in Nat \ {0}
  /\ MaxTickets \in Nat /\ MaxEvents \in Nat /\ LastTick \in Nat
  /\ NoOne \notin Streams \cup FeedTenants

VARIABLES
  tick,
  tickets,    \* signed tickets in circulation, with the time of their issue
  stream,     \* the tenant of each connection, NoOne before it opens
  subs,       \* Service.subs
  channel,    \* what waits in each subscriber's channel
  closed,     \* channels that were closed
  fan,        \* the fanout each caller is in: its event and who is still to come
  written,    \* the tenant of every event that was fanned out
  due,        \* events that were fanned out while a stream was subscribed
  dropped,    \* events that a full channel did not take
  taken,      \* events that a stream took from its channel
  forwarded,  \* those of them that it forwarded
  broken      \* a send met a closed channel

feedHistory == <<due, dropped, taken, forwarded, broken>>
feedVars == <<tick, tickets, stream, subs, channel, closed, fan, written, feedHistory>>

NoFan == [event |-> 0, left |-> {}]

FeedInit ==
  /\ tick = 0 /\ tickets = {}
  /\ stream = [s \in Streams |-> NoOne]
  /\ subs = {} /\ channel = [s \in Streams |-> <<>>] /\ closed = {}
  /\ fan = [c \in Callers |-> NoFan] /\ written = <<>>
  /\ due = [s \in Streams |-> {}] /\ dropped = [s \in Streams |-> {}]
  /\ taken = [s \in Streams |-> {}] /\ forwarded = [s \in Streams |-> <<>>]
  /\ broken = FALSE

(***************************************************************************)
(* Tickets: the expiry is in whole seconds.                                *)
(***************************************************************************)

Unix(t) == t \div Second

\* Issue signs the tenant and the expiry.
Issue(t) == [tenant |-> t, issued |-> tick, exp |-> Unix(tick + TicketLife * Second)]

IssueSSETicket(t) ==
  /\ Cardinality(tickets) < MaxTickets
  /\ tickets' = tickets \cup {Issue(t)}
  /\ UNCHANGED <<tick, stream, subs, channel, closed, fan, written, feedHistory>>

\* Consume: nothing is removed.
Consume(k) == ~(Unix(tick) > k.exp)

FeedTick ==
  /\ tick < LastTick
  /\ tick' = tick + 1
  /\ UNCHANGED <<tickets, stream, subs, channel, closed, fan, written, feedHistory>>

(***************************************************************************)
(* Streams.                                                                *)
(***************************************************************************)

\* subsMu: no fanout holds the read lock.
WriterEnters == \A c \in Callers : fan[c] = NoFan

\* SSEAuth, then streamEvents up to its loop.
Subscribe(s, t) ==
  /\ stream[s] = NoOne /\ WriterEnters
  /\ stream' = [stream EXCEPT ![s] = t]
  /\ subs' = subs \cup {s}
  /\ UNCHANGED <<tick, tickets, channel, closed, fan, written, feedHistory>>

OpenWithKey(s, t) == Subscribe(s, t)

OpenWithTicket(s) == \E k \in tickets : Consume(k) /\ Subscribe(s, k.tenant)

\* One turn of streamEvents: an event of another tenant is passed over.
Forward(s) ==
  /\ s \in subs /\ channel[s] # <<>>
  /\ LET e == Head(channel[s]) IN
     /\ taken' = [taken EXCEPT ![s] = @ \cup {e}]
     /\ forwarded' = IF written[e] = stream[s]
                     THEN [forwarded EXCEPT ![s] = @ \o <<e>>] ELSE forwarded
  /\ channel' = [channel EXCEPT ![s] = Tail(@)]
  /\ UNCHANGED <<tick, tickets, stream, subs, closed, fan, written, due, dropped, broken>>

\* The client is gone or a write fails: cancel removes and closes the channel.
Cancel(s) ==
  /\ s \in subs /\ WriterEnters
  /\ subs' = subs \ {s} /\ closed' = closed \cup {s}
  /\ UNCHANGED <<tick, tickets, stream, channel, fan, written, feedHistory>>

(***************************************************************************)
(* fanout: the read lock is held from the first send to the last.          *)
(***************************************************************************)

Fanout(c, t) ==
  /\ fan[c] = NoFan /\ Len(written) < MaxEvents
  /\ written' = written \o <<t>>
  /\ LET e == Len(written) + 1 IN
     /\ fan' = IF subs = {} THEN fan ELSE [fan EXCEPT ![c] = [event |-> e, left |-> subs]]
     /\ due' = [s \in Streams |-> IF s \in subs THEN due[s] \cup {e} ELSE due[s]]
  /\ UNCHANGED <<tick, tickets, stream, subs, channel, closed, dropped, taken, forwarded, broken>>

Full(s) == Len(channel[s]) >= Buffer

\* Mutant: a full channel ends the loop.
LeftUnlessFull(c, s) == IF Full(s) THEN {} ELSE fan[c].left \ {s}

\* A full channel is passed over; the loop goes on.
Left(c, s) == fan[c].left \ {s}

\* A send never blocks.
Send(c, s) ==
  /\ s \in fan[c].left
  /\ \/ /\ s \in closed
        /\ broken' = TRUE
        /\ UNCHANGED <<channel, dropped>>
     \/ /\ s \notin closed /\ ~Full(s)
        /\ channel' = [channel EXCEPT ![s] = @ \o <<fan[c].event>>]
        /\ UNCHANGED <<dropped, broken>>
     \/ /\ s \notin closed /\ Full(s)
        /\ dropped' = [dropped EXCEPT ![s] = @ \cup {fan[c].event}]
        /\ UNCHANGED <<channel, broken>>
  /\ fan' = [fan EXCEPT ![c] = IF Left(c, s) = {} THEN NoFan ELSE [@ EXCEPT !.left = Left(c, s)]]
  /\ UNCHANGED <<tick, tickets, stream, subs, closed, written, due, taken, forwarded>>

FeedNext ==
  \/ \E s \in Streams :
       Forward(s) \/ Cancel(s) \/ \E t \in FeedTenants : OpenWithKey(s, t)
  \/ \E c \in Callers :
       \/ \E t \in FeedTenants : Fanout(c, t)
       \/ \E s \in Streams : Send(c, s)

TicketNext ==
  \/ FeedTick
  \/ \E t \in FeedTenants : IssueSSETicket(t)
  \/ \E s \in Streams : OpenWithTicket(s) \/ Cancel(s)

FeedSpec == FeedInit /\ [][FeedNext \/ TicketNext]_feedVars

-----------------------------------------------------------------------------

\* Type correctness; a channel holds no more than its capacity.
FeedTypeOK ==
  /\ tick \in 0..LastTick
  /\ stream \in [Streams -> FeedTenants \cup {NoOne}]
  /\ subs \cup closed = {s \in Streams : stream[s] # NoOne}
  /\ \A s \in Streams : Len(channel[s]) <= Buffer /\ dropped[s] \subseteq due[s]

\* audit/service.go: cancel closes a channel that fanout sends to, and a send on
\* a closed channel ends the process.  However fanouts of several requests and
\* the ends of streams interleave, no send meets a closed channel.
NoSendOnClosed == ~broken

\* audit/service.go: "receives every successfully written event.  Slow consumers
\* drop messages".  An event that was fanned out while a stream was subscribed
\* is on its way, in the channel, taken, or dropped because the channel was full,
\* and in one of these places only; and the stream's own events are forwarded once.
FeedIsComplete ==
  \A s \in subs :
    LET onTheWay == {fan[c].event : c \in {d \in Callers : s \in fan[d].left}}
        places == <<onTheWay, Range(channel[s]), taken[s], dropped[s]>> IN
    /\ due[s] = UNION {places[i] : i \in 1..4}
    /\ \A i, j \in 1..4 : i # j => places[i] \cap places[j] = {}
    /\ Cardinality(Range(forwarded[s])) = Len(forwarded[s])
    /\ Range(forwarded[s]) = {e \in taken[s] : written[e] = stream[s]}

\* me_handler.go answers with expires_in of the ticket's lifetime.  Although the
\* expiry is cut to whole seconds, a ticket is accepted for at least the time
\* announced, and for less than a second longer.
TicketsLastAsAnnounced ==
  \A k \in tickets :
    /\ tick - k.issued <= TicketLife * Second => Consume(k)
    /\ tick - k.issued >= (TicketLife + 1) * Second => ~Consume(k)

\* A stream that was opened gets what it is due: no fanout ends the process, no
\* event is lost but those dropped for a full channel, and a ticket opens a
\* stream for as long as it was announced.
FeedDelivers == FeedTypeOK /\ NoSendOnClosed /\ FeedIsComplete /\ TicketsLastAsAnnounced

=============================================================================
