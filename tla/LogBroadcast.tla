---------------------------- MODULE LogBroadcast ----------------------------
(***************************************************************************)
(* The log fan-out of one handle (broadcast.go) with the goroutines that   *)
(* use it: the two pipe readers and the waiter of Spawn (handle.go), and   *)
(* the handlers that stream logs to a client (daemon.go, CmdStreamLogs,    *)
(* and server.go, handleSSELogs).  A line is the pair of the pipe it came  *)
(* from and its number there.                                              *)
(***************************************************************************)
EXTENDS Naturals, Sequences

CONSTANTS
    Pipes,        \* stdout and stderr
    Subscribers,  \* log stream handlers
    SseHandlers,  \* those of the HTTP API, the others are IPC connections
    Reading,      \* those whose client keeps reading
    Capacity,     \* of a subscriber's channel: 512
    MaxLines      \* bound: the lines the process writes to a pipe

ASSUME BroadcastAssumption ==
    /\ Capacity \in Nat \ {0} /\ MaxLines \in Nat
    /\ SseHandlers \subseteq Subscribers /\ Reading \subseteq Subscribers

VARIABLES
    process,   \* the Java process and its waiter
    written,   \* written[w]: lines the process has written to w
    reader,    \* the pipe readers: lines read from the pipe, and the place
    subs,      \* broadcast.subs
    closed,    \* broadcast.closed
    chan,      \* the channel of each subscriber
    handler,   \* the place of each stream handler
    received,  \* the lines each handler has passed on
    log,       \* history: the lines sent before close, in the order of b.mu
    from,      \* history: Len(log) when the channel was subscribed
    dropped    \* history: a line was dropped because the channel was full

brVars == <<subs, closed>>
history == <<log, from, dropped>>
vars == <<process, written, reader, brVars, chan, handler, received, history>>

Line == Pipes \X (1 .. MaxLines)

TypeOK ==
    /\ process \in {"up", "exited", "closing", "done"}
    /\ written \in [Pipes -> 0 .. MaxLines]
    /\ reader \in [Pipes -> [read : 0 .. MaxLines, pc : {"scan", "send", "eof"}]]
    /\ subs \in SUBSET Subscribers
    /\ closed \in BOOLEAN
    /\ chan \in [Subscribers -> [buf : Seq(Line), open : BOOLEAN]]
    /\ \A s \in Subscribers : Len(chan[s].buf) <= Capacity
    /\ handler \in [Subscribers -> {"none", "streaming", "writing", "ended"}]
    /\ received \in [Subscribers -> Seq(Line)]
    /\ log \in Seq(Line)
    /\ from \in [Subscribers -> Nat]
    /\ dropped \in [Subscribers -> BOOLEAN]

-----------------------------------------------------------------------------
(***************************************************************************)
(* The process, its pipe readers and its waiter                            *)
(***************************************************************************)
WriteLine(w) ==
    /\ process = "up"
    /\ written[w] < MaxLines
    /\ written' = [written EXCEPT ![w] = @ + 1]
    /\ UNCHANGED <<process, reader, brVars, chan, handler, received, history>>

\* scanner.Scan returns a line.
Scan(w) ==
    /\ reader[w].pc = "scan"
    /\ reader[w].read < written[w]
    /\ reader' = [reader EXCEPT ![w] = [read |-> @.read + 1, pc |-> "send"]]
    /\ UNCHANGED <<process, written, brVars, chan, handler, received, history>>

\* The pipe is at its end, or cmd.Wait has closed it with lines still in it.
ScanEnds(w) ==
    /\ reader[w].pc = "scan"
    /\ \/ process = "exited" /\ reader[w].read = written[w]
       \/ process \in {"closing", "done"}
    /\ reader' = [reader EXCEPT ![w].pc = "eof"]
    /\ UNCHANGED <<process, written, brVars, chan, handler, received, history>>

Full(s) == Len(chan[s].buf) = Capacity

\* Mutant of Send: a channel without room for more than one line.
SendUnbuffered(w) ==
    /\ reader[w].pc = "send"
    /\ LET line == <<w, reader[w].read>> IN
         /\ chan' = [s \in Subscribers |->
                       IF s \in subs /\ chan[s].buf = <<>>
                       THEN [chan[s] EXCEPT !.buf = Append(@, line)]
                       ELSE chan[s]]
         /\ log' = IF closed THEN log ELSE Append(log, line)
    /\ dropped' = [s \in Subscribers |-> dropped[s] \/ (s \in subs /\ Full(s))]
    /\ reader' = [reader EXCEPT ![w].pc = "scan"]
    /\ UNCHANGED <<process, written, brVars, handler, received, from>>

\* Mutant of Send: a line may be sent a second time.
SendAgain(w) ==
    /\ reader[w].pc = "send"
    /\ LET line == <<w, reader[w].read>> IN
         /\ chan' = [s \in Subscribers |->
                       IF s \in subs /\ ~Full(s)
                       THEN [chan[s] EXCEPT !.buf = Append(@, line)]
                       ELSE chan[s]]
         /\ log' = IF closed THEN log ELSE Append(log, line)
    /\ dropped' = [s \in Subscribers |-> dropped[s] \/ (s \in subs /\ Full(s))]
    /\ reader' = reader
    /\ UNCHANGED <<process, written, brVars, handler, received, from>>

\* Mutant of Send: nothing is ever dropped.
SendUnbounded(w) ==
    /\ reader[w].pc = "send"
    /\ LET line == <<w, reader[w].read>> IN
         /\ chan' = [s \in Subscribers |->
                       IF s \in subs
                       THEN [chan[s] EXCEPT !.buf = Append(@, line)]
                       ELSE chan[s]]
         /\ log' = IF closed THEN log ELSE Append(log, line)
    /\ dropped' = [s \in Subscribers |-> dropped[s] \/ (s \in subs /\ Full(s))]
    /\ reader' = [reader EXCEPT ![w].pc = "scan"]
    /\ UNCHANGED <<process, written, brVars, handler, received, from>>

\* Mutant of Send: wait for room instead of dropping.  The wait holds b.mu, so
\* that close does not take the full channel out of the way.
SendBlocks(w) ==
    /\ reader[w].pc = "send"
    /\ \A s \in Subscribers : ~Full(s)
    /\ LET line == <<w, reader[w].read>> IN
         /\ chan' = [s \in Subscribers |->
                       IF s \in subs
                       THEN [chan[s] EXCEPT !.buf = Append(@, line)]
                       ELSE chan[s]]
         /\ log' = IF closed THEN log ELSE Append(log, line)
    /\ dropped' = [s \in Subscribers |-> dropped[s] \/ (s \in subs /\ Full(s))]
    /\ reader' = [reader EXCEPT ![w].pc = "scan"]
    /\ UNCHANGED <<process, written, brVars, handler, received, from>>

\* broadcast.send: to every subscriber whose channel has room.
Send(w) ==
    /\ reader[w].pc = "send"
    /\ LET line == <<w, reader[w].read>> IN
         /\ chan' = [s \in Subscribers |->
                       IF s \in subs /\ ~Full(s)
                       THEN [chan[s] EXCEPT !.buf = Append(@, line)]
                       ELSE chan[s]]
         /\ log' = IF closed THEN log ELSE Append(log, line)
    /\ dropped' = [s \in Subscribers |-> dropped[s] \/ (s \in subs /\ Full(s))]
    /\ reader' = [reader EXCEPT ![w].pc = "scan"]
    /\ UNCHANGED <<process, written, brVars, handler, received, from>>

ProcessExits ==
    /\ process = "up"
    /\ process' = "exited"
    /\ UNCHANGED <<written, reader, brVars, chan, handler, received, history>>

\* cmd.Wait returns.  It closes the pipes without waiting for the readers.
WaitReturns ==
    /\ process = "exited"
    /\ process' = "closing"
    /\ UNCHANGED <<written, reader, brVars, chan, handler, received, history>>

\* Mutant of Close: the channels stay open.
CloseForgetsChannels ==
    /\ process = "closing"
    /\ process' = "done"
    /\ closed' = TRUE
    /\ subs' = {}
    /\ UNCHANGED <<written, reader, chan, handler, received, history>>

\* broadcast.close
Close ==
    /\ process = "closing"
    /\ process' = "done"
    /\ closed' = TRUE
    /\ chan' = [s \in Subscribers |->
                  IF s \in subs THEN [chan[s] EXCEPT !.open = FALSE]
                                ELSE chan[s]]
    /\ subs' = {}
    /\ UNCHANGED <<written, reader, handler, received, history>>

-----------------------------------------------------------------------------
(***************************************************************************)
(* The log stream handlers                                                 *)
(***************************************************************************)
\* Mutant of Subscribe: no test of closed.
SubscribeLate(s) ==
    /\ handler[s] = "none"
    /\ handler' = [handler EXCEPT ![s] = "streaming"]
    /\ chan' = [chan EXCEPT ![s].open = TRUE]
    /\ subs' = subs \union {s}
    /\ from' = [from EXCEPT ![s] = Len(log)]
    /\ UNCHANGED <<process, written, reader, closed, received, log, dropped>>

\* broadcast.subscribe: after close, the channel is closed already.
Subscribe(s) ==
    /\ handler[s] = "none"
    /\ handler' = [handler EXCEPT ![s] = "streaming"]
    /\ chan' = [chan EXCEPT ![s].open = ~closed]
    /\ subs' = IF closed THEN subs ELSE subs \union {s}
    /\ from' = [from EXCEPT ![s] = Len(log)]
    /\ UNCHANGED <<process, written, reader, closed, received, log, dropped>>

\* range ch: take the next line.
Receive(s) ==
    /\ handler[s] = "streaming"
    /\ chan[s].buf # <<>>
    /\ received' = [received EXCEPT ![s] = Append(@, Head(chan[s].buf))]
    /\ chan' = [chan EXCEPT ![s].buf = Tail(@)]
    /\ handler' = [handler EXCEPT ![s] = "writing"]
    /\ UNCHANGED <<process, written, reader, brVars, history>>

\* The connection accepts the line; it blocks while the client does not read.
Accepted(s) ==
    /\ handler[s] = "writing"
    /\ handler' = [handler EXCEPT ![s] = "streaming"]
    /\ UNCHANGED <<process, written, reader, brVars, chan, received, history>>

\* The channel is closed and drained.
StreamEnds(s) ==
    /\ handler[s] = "streaming"
    /\ chan[s].buf = <<>> /\ ~chan[s].open
    /\ handler' = [handler EXCEPT ![s] = "ended"]
    /\ UNCHANGED <<process, written, reader, brVars, chan, received, history>>

\* The client has gone.  The IPC handler learns it from a failed write, the SSE
\* handler also from its request's context.  The channel stays in subs.
Disconnect(s) ==
    /\ \/ handler[s] = "writing"
       \/ handler[s] = "streaming" /\ s \in SseHandlers
    /\ handler' = [handler EXCEPT ![s] = "ended"]
    /\ UNCHANGED <<process, written, reader, brVars, chan, received, history>>

-----------------------------------------------------------------------------
Init ==
    /\ process = "up"
    /\ written = [w \in Pipes |-> 0]
    /\ reader = [w \in Pipes |-> [read |-> 0, pc |-> "scan"]]
    /\ subs = {}
    /\ closed = FALSE
    /\ chan = [s \in Subscribers |-> [buf |-> <<>>, open |-> FALSE]]
    /\ handler = [s \in Subscribers |-> "none"]
    /\ received = [s \in Subscribers |-> <<>>]
    /\ log = <<>>
    /\ from = [s \in Subscribers |-> 0]
    /\ dropped = [s \in Subscribers |-> FALSE]

ReaderStep(w) == Scan(w) \/ Send(w) \/ ScanEnds(w)
WaiterStep == WaitReturns \/ Close
HandlerStep(s) == Receive(s) \/ StreamEnds(s)

Next ==
    \/ \E w \in Pipes : WriteLine(w) \/ ReaderStep(w)
    \/ ProcessExits \/ WaiterStep
    \/ \E s \in Subscribers :
          Subscribe(s) \/ HandlerStep(s) \/ Accepted(s) \/ Disconnect(s)

Spec == Init /\ [][Next]_vars

\* Goroutines that can run do run.  A client may always leave, and one that is
\* not in Reading may leave the handler blocked in a write for ever.
Fairness ==
    /\ \A w \in Pipes : WF_vars(ReaderStep(w))
    /\ WF_vars(WaiterStep)
    /\ \A s \in Subscribers : WF_vars(HandlerStep(s))
    /\ \A s \in Reading : WF_vars(Accepted(s))

FairSpec == Spec /\ Fairness

-----------------------------------------------------------------------------
(***************************************************************************)
(* Properties                                                              *)
(***************************************************************************)
\* A channel is in subs exactly while it is open: a pipe reader that is late
\* (cmd.Wait does not wait for it) never sends on a closed channel, no channel
\* is closed twice, and a handler that subscribes late is not left waiting.
OpenIffSubscribed ==
    /\ \A s \in Subscribers : chan[s].open <=> s \in subs
    /\ closed => subs = {}

\* Slow subscribers drop lines, others miss none: as long as the channel of s
\* has never been full, s has got or will get every line sent between its
\* subscription and close, in the order sent.  (What a reader sends after close
\* reaches nobody: cmd.Wait does not wait for the readers.)
NothingLostUnlessFull ==
    \A s \in Subscribers :
        handler[s] \in {"streaming", "writing"} /\ ~dropped[s] =>
            received[s] \o chan[s].buf =
                SubSeq(log, from[s] + 1, Len(log))

\* A stream has no duplicates and keeps the order of each pipe, whatever was
\* dropped in between and whichever reader was faster.
OrderKept ==
    \A s \in Subscribers : LET out == received[s] \o chan[s].buf IN
        \A i, j \in 1 .. Len(out) :
            i < j /\ out[i][1] = out[j][1] => out[i][2] < out[j][2]

\* Once the process has exited, the stream of a client that keeps reading comes
\* to its end, however slow or stuck the other clients are, and also when it
\* subscribed during or after close.
StreamsEnd ==
    \A s \in Reading :
        (process # "up" /\ handler[s] = "streaming") ~> handler[s] = "ended"

\* A pipe reader is never blocked by a subscriber.
ReadersEnd == process # "up" ~> \A w \in Pipes : reader[w].pc = "eof"
=============================================================================
