------------------------- MODULE LogBroadcastProofs -------------------------
(***************************************************************************)
(* Proofs about LogBroadcast, for every set of pipes and of subscribers,   *)
(* every capacity of a channel and every number of lines.  What a stream   *)
(* has got and what is still in its channel are one sequence, Out(s):      *)
(* a Receive leaves it as it is, a Send adds one line to it or nothing.    *)
(***************************************************************************)
EXTENDS LogBroadcast, SequenceTheorems, TLAPS

Out(s) == received[s] \o chan[s].buf

\* OrderKept of one stream.
Ordered(out) ==
    \A i, j \in 1 .. Len(out) :
        i < j /\ out[i][1] = out[j][1] => out[i][2] < out[j][2]

\* A reader that has a line to send has read one.
ReadersOK == \A w \in Pipes : reader[w].pc = "send" => reader[w].read > 0

\* A handler that has not subscribed has nothing, one that streams from a
\* broadcast that is still open is one of its subscribers.
StreamsOK ==
    \A s \in Subscribers :
        /\ from[s] <= Len(log)
        /\ handler[s] = "none" =>
             received[s] = <<>> /\ chan[s].buf = <<>> /\ s \notin subs
        /\ handler[s] \in {"streaming", "writing"} /\ ~closed => s \in subs

\* A line in a stream has been read before the line its reader is about to send.
LinesOK ==
    \A s \in Subscribers : \A i \in 1 .. Len(Out(s)) :
        LET r == reader[Out(s)[i][1]] IN
        /\ Out(s)[i][2] <= r.read
        /\ r.pc = "send" => Out(s)[i][2] < r.read

IInv ==
    /\ TypeOK /\ ReadersOK /\ StreamsOK /\ LinesOK
    /\ OpenIffSubscribed /\ NothingLostUnlessFull /\ OrderKept

-----------------------------------------------------------------------------
(***************************************************************************)
(* Sequences                                                               *)
(***************************************************************************)
\* A line that is added to the channel is added to the stream.
LEMMA AppendToConcat ==
    ASSUME NEW a \in Seq(Line), NEW b \in Seq(Line), NEW x \in Line
    PROVE  a \o Append(b, x) = Append(a \o b, x)
<1>1. <<x>> \in Seq(Line)
  OBVIOUS
<1>2. a \o b \in Seq(Line)
  BY ConcatProperties
<1>3. Append(b, x) = b \o <<x>> /\ Append(a \o b, x) = (a \o b) \o <<x>>
  BY <1>2, AppendIsConcat
<1> QED
  BY <1>1, <1>3, ConcatAssociative

\* A line that is taken from the channel stays in the stream.
LEMMA MoveHead ==
    ASSUME NEW S, NEW a \in Seq(S), NEW b \in Seq(S), b # <<>>
    PROVE  Append(a, Head(b)) \o Tail(b) = a \o b
<1>1. Head(b) \in S /\ Tail(b) \in Seq(S) /\ <<Head(b)>> \in Seq(S)
  BY HeadTailProperties
<1>2. Append(a, Head(b)) = a \o <<Head(b)>>
  BY <1>1, AppendIsConcat
<1>3. b = <<Head(b)>> \o Tail(b)
  OBVIOUS
<1>4. (a \o <<Head(b)>>) \o Tail(b) = a \o (<<Head(b)>> \o Tail(b))
  BY <1>1, ConcatAssociative
<1> QED
  BY <1>2, <1>3, <1>4

\* The end of a log that grows.
LEMMA SubSeqAppend ==
    ASSUME NEW S, NEW l \in Seq(S), NEW x \in S, NEW f \in 0 .. Len(l)
    PROVE  SubSeq(Append(l, x), f + 1, Len(Append(l, x)))
             = Append(SubSeq(l, f + 1, Len(l)), x)
<1> DEFINE m == Append(l, x)
           a == SubSeq(m, f + 1, Len(m))
           b == SubSeq(l, f + 1, Len(l))
<1>1. Len(l) \in Nat /\ Len(m) = Len(l) + 1 /\ m \in Seq(S)
  BY LenProperties, AppendProperties
<1>2. /\ a \in Seq(S) /\ Len(a) = Len(m) - f
      /\ \A i \in 1 .. Len(a) : a[i] = m[f + i]
  <2>1. f + 1 \in Int /\ Len(m) \in Int /\ f + 1 <= Len(m)
    BY <1>1
  <2>2. \A i \in f + 1 .. Len(m) : m[i] \in S
    BY <1>1, ElementOfSeq
  <2>3. /\ a \in Seq(S) /\ Len(a) = Len(m) - (f + 1) + 1
        /\ \A i \in 1 .. Len(m) - (f + 1) + 1 : a[i] = m[f + 1 + i - 1]
    BY <2>1, <2>2, SubSeqProperties
  <2> QED  BY <1>1, <2>3
<1>3. /\ b \in Seq(S) /\ Len(b) = Len(l) - f
      /\ \A i \in 1 .. Len(b) : b[i] = l[f + i]
  <2>1. f + 1 \in Int /\ Len(l) \in Int /\ f <= Len(l)
    BY <1>1
  <2>2. \A i \in f + 1 .. Len(l) : l[i] \in S
    BY <1>1, ElementOfSeq
  <2>3. /\ b \in Seq(S) /\ Len(b) = IF f + 1 <= Len(l) THEN Len(l) - (f + 1) + 1 ELSE 0
        /\ \A i \in 1 .. Len(l) - (f + 1) + 1 : b[i] = l[f + 1 + i - 1]
    BY <2>1, <2>2, SubSeqProperties
  <2> QED  BY <1>1, <2>3
<1> HIDE DEF a, b
<1>4. /\ Append(b, x) \in Seq(S) /\ Len(Append(b, x)) = Len(b) + 1
      /\ \A i \in 1 .. Len(b) : Append(b, x)[i] = b[i]
      /\ Append(b, x)[Len(b) + 1] = x
  BY <1>3, AppendProperties
<1>5. /\ \A i \in 1 .. Len(l) : m[i] = l[i]
      /\ m[Len(l) + 1] = x
  BY AppendProperties
<1> HIDE DEF m
<1>6. ASSUME NEW i \in 1 .. Len(a)  PROVE a[i] = Append(b, x)[i]
  <2>1. CASE i \in 1 .. Len(b)
    <3>1. f + i \in 1 .. Len(l)
      BY <1>1, <1>3, <2>1
    <3> QED  BY <1>2, <1>3, <1>4, <1>5, <2>1, <3>1
  <2>2. CASE i = Len(b) + 1
    <3>1. f + i = Len(l) + 1
      BY <1>1, <1>3, <2>2
    <3> QED  BY <1>2, <1>4, <1>5, <2>2, <3>1
  <2>3. Len(b) \in Nat /\ Len(a) = Len(b) + 1
    BY <1>1, <1>2, <1>3
  <2>4. i \in 1 .. Len(b) \/ i = Len(b) + 1
    BY <2>3
  <2> QED  BY <2>1, <2>2, <2>4
<1>7. a = Append(b, x)
  BY <1>1, <1>2, <1>3, <1>4, <1>6, SeqEqual
<1> QED
  BY <1>7 DEF a, b, m

-----------------------------------------------------------------------------
(***************************************************************************)
(* Invariance                                                              *)
(***************************************************************************)
\* The property, stream by stream.
LEMMA OrderKeptOfStreams ==
    /\ OrderKept <=> \A s \in Subscribers : Ordered(Out(s))
    /\ OrderKept' <=> \A s \in Subscribers : Ordered(Out(s)')
BY Zenon DEF OrderKept, Ordered, Out

\* A process that is starting, and nobody who listens.
LEMMA InitIInv == Init => IInv
<1> SUFFICES ASSUME Init  PROVE IInv
  OBVIOUS
<1>1. \A s \in Subscribers : Out(s) = <<>> /\ Len(Out(s)) = 0
  BY DEF Init, Out
<1>2. TypeOK
  <2>1. <<>> \in Seq(Line) /\ Len(<<>>) = 0
    BY EmptySeq
  <2>2. /\ chan \in [Subscribers -> [buf : Seq(Line), open : BOOLEAN]]
        /\ received \in [Subscribers -> Seq(Line)] /\ log \in Seq(Line)
        /\ \A s \in Subscribers : Len(chan[s].buf) <= Capacity
    BY <2>1, BroadcastAssumption DEF Init
  <2>3. /\ written \in [Pipes -> 0 .. MaxLines]
        /\ reader \in [Pipes -> [read : 0 .. MaxLines, pc : {"scan", "send", "eof"}]]
    BY BroadcastAssumption DEF Init
  <2>4. /\ process \in {"up", "exited", "closing", "done"}
        /\ subs \in SUBSET Subscribers /\ closed \in BOOLEAN
        /\ handler \in [Subscribers -> {"none", "streaming", "writing", "ended"}]
        /\ from \in [Subscribers -> Nat] /\ dropped \in [Subscribers -> BOOLEAN]
    BY DEF Init
  <2> QED  BY <2>2, <2>3, <2>4 DEF TypeOK
<1>3. ReadersOK /\ StreamsOK /\ OpenIffSubscribed
  <2>1. Len(log) = 0
    BY EmptySeq DEF Init
  <2> QED  BY <2>1 DEF Init, ReadersOK, StreamsOK, OpenIffSubscribed
<1>4. LinesOK
  BY <1>1 DEF LinesOK
<1>5. OrderKept
  <2>1. \A s \in Subscribers : Ordered(Out(s))
    BY <1>1 DEF Ordered
  <2> QED  BY <2>1, OrderKeptOfStreams
<1>6. NothingLostUnlessFull
  BY DEF Init, NothingLostUnlessFull
<1> QED
  BY <1>2, <1>3, <1>4, <1>5, <1>6 DEF IInv

\* What the type invariant says of the streams and of the log.
LEMMA StreamTypes ==
    ASSUME TypeOK
    PROVE  /\ Len(log) \in Nat
           /\ \A s \in Subscribers :
                /\ received[s] \in Seq(Line) /\ chan[s].buf \in Seq(Line)
                /\ Out(s) \in Seq(Line) /\ Len(Out(s)) \in Nat
                /\ \A i \in 1 .. Len(Out(s)) :
                     Out(s)[i][1] \in Pipes /\ Out(s)[i][2] \in Nat
<1>1. Len(log) \in Nat
  BY LenProperties DEF TypeOK
<1>2. ASSUME NEW s \in Subscribers
      PROVE  /\ received[s] \in Seq(Line) /\ chan[s].buf \in Seq(Line)
             /\ Out(s) \in Seq(Line) /\ Len(Out(s)) \in Nat
             /\ \A i \in 1 .. Len(Out(s)) :
                  Out(s)[i][1] \in Pipes /\ Out(s)[i][2] \in Nat
  <2>1. received[s] \in Seq(Line) /\ chan[s].buf \in Seq(Line)
    BY DEF TypeOK
  <2>2. Out(s) \in Seq(Line) /\ Len(Out(s)) \in Nat
    BY <2>1, ConcatProperties, LenProperties DEF Out
  <2>3. \A i \in 1 .. Len(Out(s)) : Out(s)[i] \in Line
    BY <2>2, ElementOfSeq
  <2>4. MaxLines \in Nat /\ \A l \in Line : l[1] \in Pipes /\ l[2] \in Nat
    BY BroadcastAssumption DEF Line
  <2> QED
    BY <2>1, <2>2, <2>3, <2>4
<1> QED
  BY <1>1, <1>2

\* A reader that goes on keeps what is in the streams behind it.
LEMMA LinesStayBehind ==
    ASSUME TypeOK, LinesOK, TypeOK',
           NEW s \in Subscribers, Out(s)' = Out(s),
           \A w \in Pipes : \/ reader'[w] = reader[w]
                            \/ reader'[w].read > reader[w].read
                            \/ /\ reader'[w].read = reader[w].read
                               /\ reader'[w].pc # "send",
           NEW i \in 1 .. Len(Out(s)')
    PROVE  LET r == reader'[Out(s)'[i][1]] IN
           /\ Out(s)'[i][2] <= r.read
           /\ r.pc = "send" => Out(s)'[i][2] < r.read
<1> DEFINE w == Out(s)[i][1]
           n == Out(s)[i][2]
<1>1. w \in Pipes /\ n \in Nat
  BY StreamTypes
<1>2. n <= reader[w].read /\ (reader[w].pc = "send" => n < reader[w].read)
  BY DEF LinesOK
<1> HIDE DEF w, n
<1>3. reader[w].read \in Nat /\ reader'[w].read \in Nat
  <2>1. /\ reader \in [Pipes -> [read : 0 .. MaxLines, pc : {"scan", "send", "eof"}]]
        /\ reader' \in [Pipes -> [read : 0 .. MaxLines, pc : {"scan", "send", "eof"}]]
    BY DEF TypeOK
  <2> QED  BY <1>1, <2>1, BroadcastAssumption
<1>4. n <= reader'[w].read /\ (reader'[w].pc = "send" => n < reader'[w].read)
  BY <1>1, <1>2, <1>3
<1> QED
  BY <1>4 DEF w, n

\* A step that leaves the broadcast, the channels and the history alone keeps
\* the invariant, if its readers only go on and its handlers only take part in
\* a stream they have taken part in.
LEMMA StreamsUntouched ==
    ASSUME IInv, TypeOK', ReadersOK',
           UNCHANGED <<brVars, chan, received, history>>,
           \A w \in Pipes : \/ reader'[w] = reader[w]
                            \/ reader'[w].read > reader[w].read
                            \/ /\ reader'[w].read = reader[w].read
                               /\ reader'[w].pc # "send",
           \A s \in Subscribers :
               \/ handler'[s] = handler[s]
               \/ handler[s] \in {"streaming", "writing"} /\ handler'[s] # "none"
    PROVE  IInv'
<1> USE DEF brVars, history
<1>1. \A s \in Subscribers : Out(s)' = Out(s)
  BY DEF Out
<1>2. StreamsOK'
  BY DEF IInv, StreamsOK
<1>3. LinesOK'
  BY <1>1, LinesStayBehind DEF IInv, LinesOK
<1>4. OpenIffSubscribed'
  BY DEF IInv, OpenIffSubscribed
<1>5. NothingLostUnlessFull'
  BY DEF IInv, NothingLostUnlessFull
<1>6. OrderKept'
  BY <1>1, OrderKeptOfStreams DEF IInv
<1> QED
  BY <1>2, <1>3, <1>4, <1>5, <1>6 DEF IInv

\* The steps of the process, of its waiter before it closes the broadcast, and
\* those of a reader except Send.
LEMMA ProcessKeeps ==
    ASSUME IInv,
           \/ ProcessExits \/ WaitReturns
           \/ \E w \in Pipes : WriteLine(w) \/ Scan(w) \/ ScanEnds(w)
    PROVE  IInv'
<1> USE BroadcastAssumption
<1> DEFINE GoesOn(w) == \/ reader'[w] = reader[w]
                        \/ reader'[w].read > reader[w].read
                        \/ /\ reader'[w].read = reader[w].read
                           /\ reader'[w].pc # "send"
<1>1. CASE ProcessExits \/ WaitReturns
  <2>1. TypeOK' /\ ReadersOK'
    BY <1>1 DEF ProcessExits, WaitReturns, IInv, TypeOK, ReadersOK, brVars, history
  <2>2. UNCHANGED <<reader, brVars, chan, handler, received, history>>
    BY <1>1 DEF ProcessExits, WaitReturns
  <2> QED  BY <2>1, <2>2, StreamsUntouched
<1>2. ASSUME NEW w \in Pipes, WriteLine(w)  PROVE IInv'
  <2>1. TypeOK' /\ ReadersOK'
    BY <1>2 DEF WriteLine, IInv, TypeOK, ReadersOK, brVars, history
  <2>2. UNCHANGED <<reader, brVars, chan, handler, received, history>>
    BY <1>2 DEF WriteLine
  <2> QED  BY <2>1, <2>2, StreamsUntouched
<1>3. ASSUME NEW w \in Pipes, Scan(w)  PROVE IInv'
  <2>1. TypeOK' /\ ReadersOK'
    BY <1>3 DEF Scan, IInv, TypeOK, ReadersOK, brVars, history
  <2>2. UNCHANGED <<brVars, chan, handler, received, history>>
    BY <1>3 DEF Scan
  <2>3. \A v \in Pipes : GoesOn(v)
    BY <1>3 DEF Scan, IInv, TypeOK
  <2> QED  BY <2>1, <2>2, <2>3, StreamsUntouched
<1>4. ASSUME NEW w \in Pipes, ScanEnds(w)  PROVE IInv'
  <2>1. TypeOK' /\ ReadersOK'
    BY <1>4 DEF ScanEnds, IInv, TypeOK, ReadersOK, brVars, history
  <2>2. UNCHANGED <<brVars, chan, handler, received, history>>
    BY <1>4 DEF ScanEnds
  <2>3. \A v \in Pipes : GoesOn(v)
    BY <1>4 DEF ScanEnds, IInv, TypeOK
  <2> QED  BY <2>1, <2>2, <2>3, StreamsUntouched
<1> QED
  BY <1>1, <1>2, <1>3, <1>4

\* The steps of a handler that take nothing from its channel.
LEMMA HandlerKeeps ==
    ASSUME IInv, NEW s \in Subscribers,
           Accepted(s) \/ StreamEnds(s) \/ Disconnect(s)
    PROVE  IInv'
<1> USE DEF Accepted, StreamEnds, Disconnect
<1>1. TypeOK' /\ ReadersOK'
  BY DEF IInv, TypeOK, ReadersOK, brVars, history
<1>2. UNCHANGED <<reader, brVars, chan, received, history>>
  OBVIOUS
<1>3. \A u \in Subscribers :
        \/ handler'[u] = handler[u]
        \/ handler[u] \in {"streaming", "writing"} /\ handler'[u] # "none"
  BY DEF IInv, TypeOK
<1> HIDE DEF Accepted, StreamEnds, Disconnect
<1> QED
  BY <1>1, <1>2, <1>3, StreamsUntouched

\* broadcast.subscribe: a stream starts empty, at the end of the log.
LEMMA SubscribeKeeps ==
    ASSUME IInv, NEW s \in Subscribers, Subscribe(s)
    PROVE  IInv'
<1>1. TypeOK' /\ ReadersOK'
  <2>1. Len(log) \in Nat
    BY StreamTypes DEF IInv
  <2>2. chan' \in [Subscribers -> [buf : Seq(Line), open : BOOLEAN]]
    BY DEF Subscribe, IInv, TypeOK
  <2>3. \A u \in Subscribers : chan'[u].buf = chan[u].buf
    BY DEF Subscribe, IInv, TypeOK
  <2>4. from' \in [Subscribers -> Nat] /\ subs' \in SUBSET Subscribers
    BY <2>1 DEF Subscribe, IInv, TypeOK
  <2>5. handler' \in [Subscribers -> {"none", "streaming", "writing", "ended"}]
    BY DEF Subscribe, IInv, TypeOK
  <2>6. UNCHANGED <<process, written, reader, closed, received, log, dropped>>
    BY DEF Subscribe
  <2> QED
    BY <2>2, <2>3, <2>4, <2>5, <2>6 DEF IInv, TypeOK, ReadersOK
<1>2. /\ received[s] = <<>> /\ chan[s].buf = <<>> /\ s \notin subs
      /\ handler[s] = "none"
  BY DEF Subscribe, IInv, StreamsOK
<1>3. /\ \A u \in Subscribers : /\ received'[u] = received[u]
                                /\ chan'[u].buf = chan[u].buf
      /\ \A u \in Subscribers \ {s} : /\ chan'[u] = chan[u]
                                      /\ handler'[u] = handler[u]
                                      /\ from'[u] = from[u]
                                      /\ u \in subs' <=> u \in subs
      /\ chan'[s].open = ~closed /\ handler'[s] = "streaming"
      /\ from'[s] = Len(log)
      /\ subs' = IF closed THEN subs ELSE subs \union {s}
      /\ UNCHANGED <<process, written, reader, closed, received, log, dropped>>
  BY DEF Subscribe, IInv, TypeOK
<1>4. \A u \in Subscribers : Out(u)' = Out(u)
  BY <1>3 DEF Out
<1>5. Len(log) \in Nat /\ log \in Seq(Line)
  BY StreamTypes DEF IInv, TypeOK
<1>6. StreamsOK'
  BY <1>2, <1>3, <1>5 DEF IInv, StreamsOK
<1>7. LinesOK'
  BY <1>1, <1>3, <1>4, LinesStayBehind DEF IInv, LinesOK
<1>8. OpenIffSubscribed'
  BY <1>2, <1>3 DEF IInv, OpenIffSubscribed
<1>9. NothingLostUnlessFull'
  <2> SUFFICES ASSUME NEW u \in Subscribers,
                      handler'[u] \in {"streaming", "writing"}, ~dropped'[u]
               PROVE  Out(u)' = SubSeq(log', from'[u] + 1, Len(log'))
    BY Zenon DEF NothingLostUnlessFull, Out
  <2>1. CASE u = s
    <3>1. SubSeq(log, Len(log) + 1, Len(log)) = <<>>
      BY <1>5, SubSeqEmpty
    <3>2. Out(s) = <<>>
      BY <1>2 DEF Out
    <3> QED  BY <1>3, <1>4, <2>1, <3>1, <3>2
  <2>2. CASE u # s
    <3>1. Out(u) = SubSeq(log, from[u] + 1, Len(log))
      BY <1>3, <2>2 DEF IInv, NothingLostUnlessFull, Out
    <3> QED  BY <1>3, <1>4, <2>2, <3>1
  <2> QED  BY <2>1, <2>2
<1>10. OrderKept'
  BY <1>4, OrderKeptOfStreams DEF IInv
<1> QED
  BY <1>1, <1>6, <1>7, <1>8, <1>9, <1>10 DEF IInv

\* range ch: the line goes from the channel to the client.
LEMMA ReceiveKeeps ==
    ASSUME IInv, NEW s \in Subscribers, Receive(s)
    PROVE  IInv'
<1>1. /\ received[s] \in Seq(Line) /\ chan[s].buf \in Seq(Line)
      /\ chan[s].buf # <<>>
  BY StreamTypes DEF Receive, IInv
<1>2. /\ Head(chan[s].buf) \in Line /\ Tail(chan[s].buf) \in Seq(Line)
      /\ Len(Tail(chan[s].buf)) = Len(chan[s].buf) - 1
      /\ Append(received[s], Head(chan[s].buf)) \in Seq(Line)
  BY <1>1, HeadTailProperties, AppendProperties
<1>3. /\ received' = [received EXCEPT ![s] = Append(@, Head(chan[s].buf))]
      /\ chan' = [chan EXCEPT ![s].buf = Tail(@)]
      /\ handler' = [handler EXCEPT ![s] = "writing"]
      /\ handler[s] = "streaming"
      /\ UNCHANGED <<process, written, reader, subs, closed, log, from, dropped>>
  BY DEF Receive, brVars, history
<1>4. TypeOK' /\ ReadersOK'
  <2>1. chan' \in [Subscribers -> [buf : Seq(Line), open : BOOLEAN]]
    BY <1>2, <1>3 DEF IInv, TypeOK
  <2>2. received' \in [Subscribers -> Seq(Line)]
    BY <1>2, <1>3 DEF IInv, TypeOK
  <2>3. \A u \in Subscribers : Len(chan'[u].buf) <= Capacity
    <3>1. Len(chan[s].buf) \in Nat /\ Len(chan[s].buf) <= Capacity
      BY <1>1, LenProperties DEF IInv, TypeOK
    <3> QED  BY <1>2, <1>3, <3>1, BroadcastAssumption DEF IInv, TypeOK
  <2> QED  BY <1>3, <2>1, <2>2, <2>3 DEF IInv, TypeOK, ReadersOK
<1>5. /\ \A u \in Subscribers \ {s} : /\ chan'[u] = chan[u]
                                      /\ handler'[u] = handler[u]
                                      /\ received'[u] = received[u]
      /\ chan'[s].open = chan[s].open /\ chan'[s].buf = Tail(chan[s].buf)
      /\ handler'[s] = "writing"
      /\ received'[s] = Append(received[s], Head(chan[s].buf))
  BY <1>3 DEF IInv, TypeOK
<1>6. \A u \in Subscribers : Out(u)' = Out(u)
  <2>1. Out(s)' = Out(s)
    BY <1>1, <1>5, MoveHead DEF Out
  <2>2. \A u \in Subscribers \ {s} : Out(u)' = Out(u)
    BY <1>5 DEF Out
  <2> QED  BY <2>1, <2>2
<1>7. StreamsOK'
  BY <1>3, <1>5 DEF IInv, StreamsOK
<1>8. LinesOK'
  BY <1>3, <1>4, <1>6, LinesStayBehind DEF IInv, LinesOK
<1>9. OpenIffSubscribed'
  BY <1>3, <1>5 DEF IInv, OpenIffSubscribed
<1>10. NothingLostUnlessFull'
  <2> SUFFICES ASSUME NEW u \in Subscribers,
                      handler'[u] \in {"streaming", "writing"}, ~dropped'[u]
               PROVE  Out(u)' = SubSeq(log', from'[u] + 1, Len(log'))
    BY Zenon DEF NothingLostUnlessFull, Out
  <2>1. handler[u] \in {"streaming", "writing"} /\ ~dropped[u]
    BY <1>3, <1>5
  <2>2. Out(u) = SubSeq(log, from[u] + 1, Len(log))
    BY <2>1 DEF IInv, NothingLostUnlessFull, Out
  <2> QED  BY <1>3, <1>6, <2>2
<1>11. OrderKept'
  BY <1>6, OrderKeptOfStreams DEF IInv
<1> QED
  BY <1>4, <1>7, <1>8, <1>9, <1>10, <1>11 DEF IInv

\* broadcast.close: no channel gets a line any more.
LEMMA CloseKeeps ==
    ASSUME IInv, Close
    PROVE  IInv'
<1>1. /\ UNCHANGED <<written, reader, handler, received, log, from, dropped>>
      /\ process' = "done" /\ closed' = TRUE /\ subs' = {}
      /\ \A u \in Subscribers : /\ chan'[u].buf = chan[u].buf
                                /\ ~chan'[u].open
      /\ chan' \in [Subscribers -> [buf : Seq(Line), open : BOOLEAN]]
  BY DEF Close, IInv, TypeOK, OpenIffSubscribed, history
<1>2. TypeOK' /\ ReadersOK'
  BY <1>1 DEF IInv, TypeOK, ReadersOK
<1>3. \A u \in Subscribers : Out(u)' = Out(u)
  BY <1>1 DEF Out
<1>4. StreamsOK'
  BY <1>1 DEF IInv, StreamsOK
<1>5. LinesOK'
  BY <1>1, <1>2, <1>3, LinesStayBehind DEF IInv, LinesOK
<1>6. OpenIffSubscribed'
  BY <1>1 DEF OpenIffSubscribed
<1>7. NothingLostUnlessFull'
  <2> SUFFICES ASSUME NEW u \in Subscribers,
                      handler'[u] \in {"streaming", "writing"}, ~dropped'[u]
               PROVE  Out(u)' = SubSeq(log', from'[u] + 1, Len(log'))
    BY Zenon DEF NothingLostUnlessFull, Out
  <2>1. Out(u) = SubSeq(log, from[u] + 1, Len(log))
    BY <1>1 DEF IInv, NothingLostUnlessFull, Out
  <2> QED  BY <1>1, <1>3, <2>1
<1>8. OrderKept'
  BY <1>3, OrderKeptOfStreams DEF IInv
<1> QED
  BY <1>2, <1>4, <1>5, <1>6, <1>7, <1>8 DEF IInv

\* broadcast.send: one more line at the end of the log, and of every stream
\* whose channel is in subs and not full.  The line is newer than those of its
\* pipe in the streams (LinesOK).
LEMMA SendKeeps ==
    ASSUME IInv, NEW w \in Pipes, Send(w)
    PROVE  IInv'
<1> DEFINE line == <<w, reader[w].read>>
           Gets(u) == u \in subs /\ ~Full(u)
<1>1. /\ reader[w].pc = "send" /\ reader[w].read \in 1 .. MaxLines
      /\ line \in Line /\ log \in Seq(Line) /\ Len(log) \in Nat
  BY BroadcastAssumption, StreamTypes DEF Send, IInv, TypeOK, ReadersOK, Line
<1>2. /\ \A u \in Subscribers :
           /\ chan'[u].open = chan[u].open
           /\ Gets(u) => chan'[u].buf = Append(chan[u].buf, line)
           /\ ~Gets(u) => chan'[u].buf = chan[u].buf
           /\ dropped'[u] = (dropped[u] \/ (u \in subs /\ Full(u)))
      /\ log' = IF closed THEN log ELSE Append(log, line)
      /\ reader' = [reader EXCEPT ![w].pc = "scan"]
      /\ dropped' \in [Subscribers -> BOOLEAN]
      /\ UNCHANGED <<process, written, subs, closed, handler, received, from>>
  BY DEF Send, IInv, TypeOK, brVars
<1>3. \A u \in Subscribers : Append(chan[u].buf, line) \in Seq(Line)
                             /\ Len(Append(chan[u].buf, line)) = Len(chan[u].buf) + 1
  BY <1>1, StreamTypes, AppendProperties DEF IInv
<1>4. Append(log, line) \in Seq(Line) /\ Len(Append(log, line)) = Len(log) + 1
  BY <1>1, AppendProperties
<1>5. TypeOK' /\ ReadersOK'
  <2>1. chan' \in [Subscribers -> [buf : Seq(Line), open : BOOLEAN]]
    BY <1>3 DEF Send, IInv, TypeOK
  <2>2. \A u \in Subscribers : Len(chan'[u].buf) <= Capacity
    <3> SUFFICES ASSUME NEW u \in Subscribers
                 PROVE  Len(chan'[u].buf) <= Capacity
      OBVIOUS
    <3>1. Len(chan[u].buf) \in Nat /\ Len(chan[u].buf) <= Capacity
      BY StreamTypes, LenProperties DEF IInv, TypeOK
    <3> QED  BY <1>2, <1>3, <3>1, BroadcastAssumption DEF Full
  <2>3. reader' \in [Pipes -> [read : 0 .. MaxLines, pc : {"scan", "send", "eof"}]]
        /\ ReadersOK'
    BY <1>2 DEF IInv, TypeOK, ReadersOK
  <2> HIDE DEF line
  <2> QED  BY <1>1, <1>2, <1>4, <2>1, <2>2, <2>3 DEF IInv, TypeOK
<1>6. \A u \in Subscribers : /\ Gets(u) => Out(u)' = Append(Out(u), line)
                             /\ ~Gets(u) => Out(u)' = Out(u)
  <2> SUFFICES ASSUME NEW u \in Subscribers
               PROVE  /\ Gets(u) => Out(u)' = Append(Out(u), line)
                      /\ ~Gets(u) => Out(u)' = Out(u)
    OBVIOUS
  <2>1. received[u] \in Seq(Line) /\ chan[u].buf \in Seq(Line)
    BY StreamTypes DEF IInv
  <2>0. line \in Line
    BY <1>1
  <2> HIDE DEF line, Gets
  <2>2. received[u] \o Append(chan[u].buf, line)
          = Append(received[u] \o chan[u].buf, line)
    BY Zenon, <2>0, <2>1, AppendToConcat
  <2> QED  BY <1>2, <2>2 DEF Out
<1>7. \A u \in Subscribers :
        /\ Out(u) \in Seq(Line) /\ Len(Out(u)) \in Nat
        /\ Len(Append(Out(u), line)) = Len(Out(u)) + 1
        /\ \A i \in 1 .. Len(Out(u)) : Append(Out(u), line)[i] = Out(u)[i]
        /\ Append(Out(u), line)[Len(Out(u)) + 1] = line
  BY <1>1, StreamTypes, AppendProperties DEF IInv
<1>8. StreamsOK'
  <2> SUFFICES ASSUME NEW u \in Subscribers
               PROVE  /\ from'[u] <= Len(log')
                      /\ handler'[u] = "none" =>
                           received'[u] = <<>> /\ chan'[u].buf = <<>> /\ u \notin subs'
                      /\ handler'[u] \in {"streaming", "writing"} /\ ~closed'
                           => u \in subs'
    BY DEF StreamsOK
  <2>1. from'[u] <= Len(log')
    <3>1. from[u] \in Nat /\ from[u] <= Len(log)
      BY DEF IInv, TypeOK, StreamsOK
    <3> QED  BY <1>1, <1>2, <1>4, <3>1
  <2>2. handler'[u] = "none" =>
           received'[u] = <<>> /\ chan'[u].buf = <<>> /\ u \notin subs'
    BY <1>2 DEF IInv, StreamsOK
  <2> QED  BY <1>2, <2>1, <2>2 DEF IInv, StreamsOK
<1>9. OpenIffSubscribed'
  BY <1>2 DEF IInv, OpenIffSubscribed
<1>10. NothingLostUnlessFull'
  <2> SUFFICES ASSUME NEW u \in Subscribers,
                      handler'[u] \in {"streaming", "writing"}, ~dropped'[u]
               PROVE  Out(u)' = SubSeq(log', from'[u] + 1, Len(log'))
    BY Zenon DEF NothingLostUnlessFull, Out
  <2>1. /\ handler[u] \in {"streaming", "writing"} /\ ~dropped[u]
        /\ u \in subs => ~Full(u)
    BY <1>2
  <2>2. Out(u) = SubSeq(log, from[u] + 1, Len(log))
    BY <2>1 DEF IInv, NothingLostUnlessFull, Out
  <2>3. CASE closed
    <3>1. ~Gets(u) /\ log' = log
      BY <1>2, <2>3 DEF IInv, OpenIffSubscribed
    <3> QED  BY <1>2, <1>6, <2>2, <3>1
  <2>4. CASE ~closed
    <3>1. Gets(u) /\ log' = Append(log, line)
      BY <1>2, <2>1, <2>4 DEF IInv, StreamsOK
    <3>2. from[u] \in 0 .. Len(log)
      BY <1>1 DEF IInv, TypeOK, StreamsOK
    <3>3. SubSeq(Append(log, line), from[u] + 1, Len(Append(log, line)))
            = Append(SubSeq(log, from[u] + 1, Len(log)), line)
      BY <1>1, <3>2, SubSeqAppend
    <3> HIDE DEF line
    <3> QED  BY <1>2, <1>6, <2>2, <3>1, <3>3
  <2> QED  BY <2>3, <2>4
<1> HIDE DEF Gets
<1>11. LinesOK'
  <2> SUFFICES ASSUME NEW u \in Subscribers, NEW i \in 1 .. Len(Out(u)')
               PROVE  LET r == reader'[Out(u)'[i][1]] IN
                      /\ Out(u)'[i][2] <= r.read
                      /\ r.pc = "send" => Out(u)'[i][2] < r.read
    BY DEF LinesOK
  <2>1. \A v \in Pipes : \/ reader'[v] = reader[v]
                         \/ /\ reader'[v].read = reader[v].read
                            /\ reader'[v].pc # "send"
    BY <1>2 DEF IInv, TypeOK
  <2>2. CASE Gets(u) /\ i = Len(Out(u)) + 1
    <3>1. Out(u)'[i] = line
      BY <1>6, <1>7, <2>2
    <3>2. reader'[w].read = reader[w].read /\ reader'[w].pc = "scan"
      BY <1>2 DEF IInv, TypeOK
    <3>3. reader[w].read <= reader[w].read
      BY <1>1, BroadcastAssumption
    <3> QED  BY <3>1, <3>2, <3>3
  <2>3. CASE i \in 1 .. Len(Out(u)) /\ Out(u)'[i] = Out(u)[i]
    <3> DEFINE v == Out(u)[i][1]
               n == Out(u)[i][2]
    <3>1. v \in Pipes /\ n \in Nat
      BY <2>3, StreamTypes DEF IInv
    <3>2. n <= reader[v].read /\ (reader[v].pc = "send" => n < reader[v].read)
      BY <2>3 DEF IInv, LinesOK
    <3> HIDE DEF v, n
    <3>3. n <= reader'[v].read /\ (reader'[v].pc = "send" => n < reader'[v].read)
      BY <2>1, <3>1, <3>2
    <3> QED  BY <2>3, <3>3 DEF v, n
  <2>4. \/ Gets(u) /\ i = Len(Out(u)) + 1
        \/ i \in 1 .. Len(Out(u)) /\ Out(u)'[i] = Out(u)[i]
    <3>1. CASE Gets(u)
      <4>1. Out(u)' = Append(Out(u), line) /\ Len(Out(u)') = Len(Out(u)) + 1
        BY <1>6, <1>7, <3>1
      <4>2. i \in 1 .. Len(Out(u)) \/ i = Len(Out(u)) + 1
        BY <1>7, <4>1
      <4> QED  BY <1>7, <3>1, <4>1, <4>2
    <3>2. CASE ~Gets(u)
      BY <1>6, <3>2
    <3> QED  BY <3>1, <3>2
  <2> QED  BY <2>2, <2>3, <2>4
<1>12. OrderKept'
  <2> SUFFICES ASSUME NEW u \in Subscribers  PROVE Ordered(Out(u)')
    BY OrderKeptOfStreams
  <2>1. Ordered(Out(u))
    BY OrderKeptOfStreams DEF IInv
  <2>2. CASE ~Gets(u)
    BY <1>6, <2>1, <2>2
  <2>3. CASE Gets(u)
    <3> DEFINE old == Out(u)
               new == Append(Out(u), line)
    <3>1. Out(u)' = new
      BY <1>6, <2>3
    <3>2. \A i \in 1 .. Len(old) : old[i][1] = w => old[i][2] < reader[w].read
      BY <1>1 DEF IInv, LinesOK
    <3>3. /\ Len(old) \in Nat /\ Len(new) = Len(old) + 1
          /\ \A i \in 1 .. Len(old) : new[i] = old[i]
          /\ new[Len(old) + 1] = line
      BY <1>7
    <3> HIDE DEF old, new
    <3>4. ASSUME NEW i \in 1 .. Len(new), NEW j \in 1 .. Len(new),
                 i < j, new[i][1] = new[j][1]
          PROVE  new[i][2] < new[j][2]
      <4>1. i \in 1 .. Len(old)
        BY <3>3, <3>4
      <4>2. CASE j \in 1 .. Len(old)
        <5>1. old[i][2] < old[j][2]
          BY <2>1, <3>3, <3>4, <4>1, <4>2 DEF Ordered, old
        <5> QED  BY <3>3, <4>1, <4>2, <5>1
      <4>3. CASE j = Len(old) + 1
        <5>1. new[j][1] = w /\ new[j][2] = reader[w].read
          BY <3>3, <4>3
        <5> QED  BY <3>2, <3>3, <3>4, <4>1, <5>1
      <4> QED  BY <3>3, <4>2, <4>3
    <3>5. Ordered(new)
      BY <3>4 DEF Ordered
    <3> QED  BY <3>1, <3>5
  <2> QED  BY <2>2, <2>3
<1> QED
  BY <1>5, <1>8, <1>9, <1>10, <1>11, <1>12 DEF IInv

-----------------------------------------------------------------------------
(***************************************************************************)
(* Theorems                                                                *)
(***************************************************************************)
\* In every reachable state.
THEOREM LogInvariance == Spec => []IInv
<1>1. Init => IInv
  BY InitIInv
<1>2. IInv /\ [Next]_vars => IInv'
  <2> SUFFICES ASSUME IInv, [Next]_vars  PROVE IInv'
    OBVIOUS
  <2>1. ASSUME NEW w \in Pipes, WriteLine(w) \/ ReaderStep(w)  PROVE IInv'
    BY <2>1, ProcessKeeps, SendKeeps DEF ReaderStep
  <2>2. CASE ProcessExits \/ WaiterStep
    BY <2>2, ProcessKeeps, CloseKeeps DEF WaiterStep
  <2>3. ASSUME NEW s \in Subscribers,
               Subscribe(s) \/ HandlerStep(s) \/ Accepted(s) \/ Disconnect(s)
        PROVE  IInv'
    BY <2>3, SubscribeKeeps, ReceiveKeeps, HandlerKeeps DEF HandlerStep
  <2>4. CASE UNCHANGED vars
    <3>1. TypeOK' /\ ReadersOK'
      BY <2>4 DEF vars, brVars, history, IInv, TypeOK, ReadersOK
    <3> QED  BY <2>4, <3>1, StreamsUntouched DEF vars
  <2> QED
    BY <2>1, <2>2, <2>3, <2>4 DEF Next
<1> QED
  BY <1>1, <1>2, PTL DEF Spec

\* The type invariant; a channel never holds more lines than its capacity.
THEOREM LogTypeCorrect == Spec => []TypeOK
BY LogInvariance, PTL DEF IInv

\* A channel is in subs exactly while it is open, so that no reader sends on a
\* closed channel and none is closed twice (broadcast.go).
THEOREM ChannelsOpenIffSubscribed == Spec => []OpenIffSubscribed
BY LogInvariance, PTL DEF IInv

\* A subscriber whose channel has never been full has got or will get every
\* line sent since it subscribed, in order (broadcast.go, send).
THEOREM NothingIsLost == Spec => []NothingLostUnlessFull
BY LogInvariance, PTL DEF IInv

\* No stream has duplicates, and each keeps the order of each pipe.
THEOREM OrderIsKept == Spec => []OrderKept
BY LogInvariance, PTL DEF IInv
=============================================================================
