----------------------------- MODULE TuiProofs -----------------------------
(***************************************************************************)
(* Proofs about Tui, for every set of servers, of streams and of commands, *)
(* and every capacity.  Refreshes may bring any rows at any time, so each  *)
(* property says what the handlers of Update keep whatever has changed     *)
(* under the view they were written for.                                   *)
(***************************************************************************)
EXTENDS Tui, FiniteSetTheorems, TLAPS

Cmd == [op : {"none", "act", "create", "update"}, id : Ids \union {None},
        pc : {"free", "sent", "answered"}]

\* A command that is not on its way has no operation.
CmdOK ==
    /\ cmd \in [Slots -> Cmd]
    /\ \A c \in Slots : cmd[c].pc = "free" => cmd[c] = Free

\* The server that the settings go to is the one whose row filled the form.
FormOK == curView = "settings" => activeServer = setFields

\* While a stream connects, none is registered and no other connects, unless
\* one was started too early.
DialOK ==
    \A k \in Streams : stream[k].pump = "dial" =>
        /\ logCancel # None => overlap
        /\ \A j \in Streams \ {k} : stream[j].pump = "dial" => overlap

IInv ==
    /\ TypeOK /\ CmdOK /\ FormOK /\ DialOK
    /\ CursorOnARow /\ NeverStranded /\ NoStreamForgotten

-----------------------------------------------------------------------------
\* A list of rows is a sequence.
LEMMA RowsAreSequences ==
    ASSUME NEW r \in Rows
    PROVE  /\ r \in Seq(Ids) /\ Len(r) \in Nat
           /\ r # <<>> <=> Len(r) > 0
<1>1. PICK n \in 0 .. Cardinality(Ids) : r \in [1 .. n -> Ids]
  BY DEF Rows
<1>2. Cardinality(Ids) \in Nat
  BY TuiAssumption, FS_CardinalityType
<1>3. n \in Nat
  BY <1>2
<1> QED
  BY <1>1, <1>3

\* No rows are rows.
LEMMA NoRows == <<>> \in Rows
<1>1. Cardinality(Ids) \in Nat
  BY TuiAssumption, FS_CardinalityType
<1>2. 0 \in 0 .. Cardinality(Ids) /\ <<>> \in [1 .. 0 -> Ids]
  BY <1>1
<1> QED
  BY <1>2 DEF Rows

\* The row the cursor is on names a server.
LEMMA SelectedType ==
    ASSUME servers \in Rows, cursor \in Nat
    PROVE  selectedID \in Ids \union {None}
<1>1. servers \in Seq(Ids) /\ Len(servers) \in Nat
  BY RowsAreSequences
<1>2. cursor < Len(servers) => cursor + 1 \in 1 .. Len(servers)
  BY <1>1
<1> QED
  BY <1>1, <1>2 DEF selectedID

\* An empty list, and nothing on its way.
LEMMA InitIInv == Init => IInv
<1> SUFFICES ASSUME Init  PROVE IInv
  OBVIOUS
<1> USE TuiAssumption DEF Init, Free, Unused
<1>1. TypeOK
  <2>1. stream \in [Streams -> Stream]
    BY DEF Stream
  <2> QED  BY <2>1, NoRows DEF TypeOK, Views
<1>2. CmdOK
  BY DEF CmdOK, Cmd
<1>3. FormOK /\ DialOK /\ CursorOnARow /\ NeverStranded /\ NoStreamForgotten
  BY DEF FormOK, DialOK, CursorOnARow, NeverStranded, NoStreamForgotten
<1> QED
  BY <1>1, <1>2, <1>3 DEF IInv

-----------------------------------------------------------------------------
(***************************************************************************)
(* The view                                                                *)
(***************************************************************************)
\* What the view is made of, and the cursor on it, stays well formed.
ViewOK ==
    /\ servers \in Rows /\ cursor \in Nat
    /\ curTab \in {"servers", "other"} /\ curView \in Views
    /\ {activeServer, setFields} \subseteq Ids \union {None}
    /\ FormOK /\ CursorOnARow /\ NeverStranded

\* Every key and every message keeps cursor, view and form together.
LEMMA ViewKeeps ==
    ASSUME ViewOK, Next
    PROVE  ViewOK'
<1> USE DEF ViewOK, FormOK, CursorOnARow, NeverStranded
<1>0. /\ Len(servers) \in Nat
      /\ servers # <<>> <=> Len(servers) > 0
      /\ selectedID \in Ids \union {None}
      /\ <<>> \in Rows
  BY RowsAreSequences, NoRows, SelectedType
<1>1. CASE Quit
  BY <1>0, <1>1 DEF Quit, Views
<1>2. CASE SwitchTab
  BY <1>2 DEF SwitchTab, form, streams
<1>3. CASE Move
  BY <1>0, <1>3 DEF Move, InView, form, streams
<1>4. ASSUME NEW v \in Views, Open(v)  PROVE ViewOK'
  BY <1>4 DEF Open, InView, list, form
<1>5. CASE Back
  BY <1>5 DEF Back, list, Views
<1>6. CASE Act \/ SendCommand \/ SubmitAdd \/ SubmitSettings
  BY <1>6 DEF Act, SendCommand, SubmitAdd, SubmitSettings, ui
<1>7. CASE OpenStream
  BY <1>0, <1>7 DEF OpenStream, InView, list, Views
<1>8. CASE LeaveStream
  BY <1>8 DEF LeaveStream, list, Views
<1>9. CASE EditSettings
  BY <1>0, <1>9 DEF EditSettings, InView, list, Views
<1>10. CASE ConfirmDelete
  BY <1>10 DEF ConfirmDelete, list, form, Views
<1>11. CASE ServersMsg
  <2>1. /\ servers' \in Rows /\ Len(servers') \in Nat
        /\ servers' # <<>> <=> Len(servers') > 0
    BY <1>11, RowsAreSequences DEF ServersMsg
  <2>2. cursor' \in Nat /\ CursorOnARow'
    BY <1>11, <2>1 DEF ServersMsg
  <2> QED  BY <1>11, <2>1, <2>2 DEF ServersMsg, form
<1>12. ASSUME NEW c \in Slots, Answered(c)  PROVE ViewOK'
  BY <1>12 DEF Answered, ui
<1>13. ASSUME NEW c \in Slots, DoneMsg(c)  PROVE ViewOK'
  BY <1>13 DEF DoneMsg, list, form, Views
<1>14. ASSUME NEW k \in Streams,
              Connecting(k) \/ StreamStep(k) \/ HandlerWrites(k) \/ HandlerEnds(k)
       PROVE  ViewOK'
  BY <1>14 DEF Connecting, StreamStep, HandlerWrites, HandlerEnds, Connects,
               DialFails, ReaderMoves, PumpSends, PumpEnds, ui
<1>15. CASE StopAll \/ ConnWgWait
  BY <1>15 DEF StopAll, ConnWgWait, ui
<1> HIDE DEF ViewOK
<1> QED
  BY <1>1, <1>2, <1>3, <1>4, <1>5, <1>6, <1>7, <1>8, <1>9, <1>10, <1>11, <1>12,
     <1>13, <1>14, <1>15 DEF Next, Key

-----------------------------------------------------------------------------
(***************************************************************************)
(* The commands                                                            *)
(***************************************************************************)
\* A slot that is given a command gets one operation on one server.
LEMMA IssueKeeps ==
    ASSUME CmdOK, NEW op \in {"act", "update", "create"},
           NEW id \in Ids \union {None}, Issue(op, id)
    PROVE  /\ CmdOK'
           /\ op = "update" => \A c \in Slots :
                cmd'[c].op = "update" /\ cmd[c].pc = "free" => cmd'[c].id = id
           /\ op # "update" => \A c \in Slots :
                cmd[c].pc = "free" => cmd'[c].op # "update"
<1>1. PICK c \in Slots :
        /\ cmd[c].pc = "free"
        /\ cmd' = [cmd EXCEPT ![c] = [op |-> op, id |-> id, pc |-> "sent"]]
  BY DEF Issue
<1> QED
  BY <1>1, SMTT(60) DEF CmdOK, Cmd, Free

\* The commands stay well formed, and settings are sent for the server whose row
\* filled the form.
LEMMA CmdKeeps ==
    ASSUME ViewOK, CmdOK, [Next]_vars
    PROVE  /\ CmdOK'
           /\ \A c \in Slots : cmd'[c].op = "update" /\ cmd[c].pc = "free"
                                 => cmd'[c].id = setFields
<1> DEFINE Goal == /\ CmdOK'
                   /\ \A c \in Slots : cmd'[c].op = "update" /\ cmd[c].pc = "free"
                                         => cmd'[c].id = setFields
<1>0. \A c \in Slots : cmd[c].pc = "free" => cmd[c].op # "update"
  BY DEF CmdOK, Free
<1>1. CASE UNCHANGED cmd
  BY <1>0, <1>1 DEF CmdOK
<1>2. CASE Act \/ SendCommand \/ SubmitAdd \/ ConfirmDelete
  <2>1. Issue("act", None) \/ Issue("create", None)
    BY <1>2 DEF Act, SendCommand, SubmitAdd, ConfirmDelete
  <2> QED  BY <2>1, IssueKeeps
<1>3. CASE SubmitSettings
  <2>1. /\ Issue("update", activeServer)
        /\ activeServer = setFields /\ activeServer \in Ids \union {None}
    BY <1>3 DEF SubmitSettings, InView, ViewOK, FormOK
  <2> QED  BY <2>1, IssueKeeps
<1>4. ASSUME NEW c \in Slots, Answered(c) \/ DoneMsg(c)  PROVE Goal
  <2>1. \/ cmd' = [cmd EXCEPT ![c].pc = "answered"] /\ cmd[c].pc = "sent"
        \/ cmd' = [cmd EXCEPT ![c] = Free]
    BY <1>4 DEF Answered, DoneMsg
  <2> QED  BY <1>0, <2>1, SMTT(60) DEF CmdOK, Cmd, Free
<1>5. CASE UNCHANGED vars
  BY <1>1, <1>5 DEF vars
<1>6. CASE \/ Quit \/ SwitchTab \/ Move \/ Back \/ OpenStream \/ LeaveStream
           \/ EditSettings \/ ServersMsg \/ StopAll \/ ConnWgWait
           \/ \E v \in Views : Open(v)
  <2>1. UNCHANGED cmd
    BY <1>6 DEF Quit, SwitchTab, Move, Back, OpenStream, LeaveStream,
                EditSettings, ServersMsg, StopAll, ConnWgWait, Open
  <2> QED  BY <1>1, <2>1
<1>7. ASSUME NEW k \in Streams,
             Connecting(k) \/ StreamStep(k) \/ HandlerWrites(k) \/ HandlerEnds(k)
      PROVE  Goal
  <2>1. UNCHANGED cmd
    BY <1>7 DEF Connecting, StreamStep, HandlerWrites, HandlerEnds, Connects,
                DialFails, ReaderMoves, PumpSends, PumpEnds
  <2> QED  BY <1>1, <2>1
<1> HIDE DEF Goal
<1>8. ASSUME Key  PROVE Goal
  BY <1>2, <1>3, <1>6, <1>8 DEF Key, Goal
<1>9. ASSUME Next  PROVE Goal
  BY <1>4, <1>6, <1>7, <1>8, <1>9 DEF Next, Goal
<1> QED
  BY <1>5, <1>9 DEF Goal

-----------------------------------------------------------------------------
(***************************************************************************)
(* The log streams                                                         *)
(***************************************************************************)
\* What the streams are made of, and that each can be cancelled.
StreamsOK ==
    /\ stream \in [Streams -> Stream] /\ logCancel \in Streams \union {None}
    /\ phase \in {"run", "quit", "stopped", "down"} /\ overlap \in BOOLEAN
    /\ DialOK /\ NoStreamForgotten

\* cancelLogStream cancels the stream that is registered and nothing else.
LEMMA Cancelling ==
    ASSUME StreamsOK
    PROVE  /\ cancelLogStream \in [Streams -> Stream]
           /\ \A k \in Streams :
                /\ cancelLogStream[k].pump = stream[k].pump
                /\ k # logCancel => cancelLogStream[k] = stream[k]
                /\ k = logCancel => cancelLogStream[k].cancelled
BY TuiAssumption DEF StreamsOK, cancelLogStream, Stream

\* A step of one stream that does not let it dial, connect or forget a cancel.
LEMMA OneStreamMoves ==
    ASSUME StreamsOK, NEW k \in Streams, NEW new \in Stream,
           stream' = [stream EXCEPT ![k] = new],
           new.pump \in {stream[k].pump, "over"},
           new.cancelled = stream[k].cancelled,
           UNCHANGED <<logCancel, overlap, phase>>
    PROVE  StreamsOK'
<1>1. /\ stream' \in [Streams -> Stream] /\ stream'[k] = new
      /\ \A j \in Streams \ {k} : stream'[j] = stream[j]
  BY DEF StreamsOK
<1>2. DialOK'
  BY <1>1 DEF StreamsOK, DialOK
<1>3. NoStreamForgotten'
  BY <1>1 DEF StreamsOK, NoStreamForgotten
<1> QED
  BY <1>1, <1>2, <1>3 DEF StreamsOK

\* Every step keeps the streams well formed and reachable.
LEMMA StreamsKeep ==
    ASSUME StreamsOK, [Next]_vars
    PROVE  StreamsOK'
<1>1. CASE UNCHANGED <<streams, phase>>
  BY <1>1 DEF streams, StreamsOK, DialOK, NoStreamForgotten
<1>2. CASE Quit \/ LeaveStream
  <2>1. /\ stream' = cancelLogStream /\ logCancel' = None /\ overlap' = overlap
        /\ phase' \in {"run", "quit", "stopped", "down"}
    BY <1>2 DEF Quit, LeaveStream, StreamsOK
  <2>2. DialOK'
    BY <2>1, Cancelling DEF StreamsOK, DialOK
  <2>3. NoStreamForgotten'
    BY <2>1, Cancelling DEF StreamsOK, NoStreamForgotten
  <2> QED  BY <2>1, <2>2, <2>3, Cancelling DEF StreamsOK
<1>3. CASE OpenStream
  <2>1. PICK k \in Streams :
          stream' = [cancelLogStream EXCEPT ![k] = [Unused EXCEPT !.pump = "dial"]]
    BY <1>3 DEF OpenStream
  <2>2. /\ logCancel' = None /\ phase' = phase
        /\ overlap' = (overlap \/ Overlapping)
    BY <1>3 DEF OpenStream
  <2> DEFINE new == [Unused EXCEPT !.pump = "dial"]
  <2>a. new \in Stream /\ new.pump = "dial"
    <3>1. Unused \in Stream
      BY TuiAssumption DEF Unused, Stream
    <3> QED  BY <3>1 DEF Stream
  <2>b. stream' = [cancelLogStream EXCEPT ![k] = new]
    BY <2>1
  <2> HIDE DEF new
  <2>3. /\ stream' \in [Streams -> Stream] /\ stream'[k].pump = "dial"
        /\ \A j \in Streams \ {k} : stream'[j] = cancelLogStream[j]
    BY <2>a, <2>b, Cancelling
  <2>4. DialOK'
    BY <2>2, <2>3, Cancelling DEF DialOK, Overlapping
  <2>5. ASSUME NEW j \in Streams, stream'[j].pump = "on", ~stream'[j].cancelled
        PROVE  overlap'
    <3>1. j # k /\ stream'[j] = cancelLogStream[j]
      BY <2>3, <2>5
    <3>2. j # logCancel /\ stream'[j] = stream[j]
      BY <2>5, <3>1, Cancelling
    <3> QED  BY <2>2, <2>5, <3>2 DEF StreamsOK, NoStreamForgotten
  <2>6. NoStreamForgotten'
    BY <2>5 DEF NoStreamForgotten
  <2> QED  BY <2>2, <2>3, <2>4, <2>6 DEF StreamsOK
<1>4. ASSUME NEW k \in Streams, Connects(k)  PROVE StreamsOK'
  <2>1. PICK answer \in {"open", "done"} :
          stream' = [stream EXCEPT ![k].pump = "on", ![k].handler = answer,
                                   ![k].missed = (phase = "stopped")]
    BY <1>4 DEF Connects
  <2>2. /\ stream[k].pump = "dial" /\ logCancel' = k
        /\ UNCHANGED <<overlap, phase>>
    BY <1>4 DEF Connects
  <2>3. /\ stream' \in [Streams -> Stream] /\ stream'[k].pump = "on"
        /\ \A j \in Streams \ {k} : stream'[j] = stream[j]
    <3> DEFINE was == phase = "stopped"
    <3>1. was \in BOOLEAN
      OBVIOUS
    <3>2. stream' = [stream EXCEPT ![k].pump = "on", ![k].handler = answer,
                                   ![k].missed = was]
      BY <2>1
    <3> HIDE DEF was
    <3> QED  BY <3>1, <3>2 DEF StreamsOK, Stream
  <2>4. DialOK'
    BY <2>2, <2>3 DEF StreamsOK, DialOK
  <2>5. NoStreamForgotten'
    BY <2>2, <2>3, TuiAssumption DEF StreamsOK, DialOK, NoStreamForgotten
  <2> QED  BY <2>2, <2>3, <2>4, <2>5 DEF StreamsOK
<1>5. ASSUME NEW k \in Streams,
             DialFails(k) \/ StreamStep(k) \/ HandlerWrites(k) \/ HandlerEnds(k)
      PROVE  StreamsOK'
  <2>1. /\ stream[k] \in Stream
        /\ Cap \in Nat /\ NetCap \in Nat
        /\ UNCHANGED <<logCancel, overlap, phase>>
    BY <1>5, TuiAssumption
       DEF StreamsOK, DialFails, StreamStep, HandlerWrites, HandlerEnds,
           ReaderMoves, PumpSends, PumpEnds
  <2>2. CASE DialFails(k) \/ PumpEnds(k)
    <3>1. stream' = [stream EXCEPT ![k] = [stream[k] EXCEPT !.pump = "over"]]
      BY <2>2 DEF DialFails, PumpEnds
    <3> QED  BY <2>1, <3>1, OneStreamMoves DEF Stream
  <2>3. CASE HandlerWrites(k)
    <3>1. stream' = [stream EXCEPT ![k] = [stream[k] EXCEPT !.net = @ + 1]]
      BY <2>3 DEF HandlerWrites
    <3>2. [stream[k] EXCEPT !.net = @ + 1] \in Stream
      BY <2>1, <2>3 DEF HandlerWrites, Stream
    <3> QED  BY <2>1, <3>1, <3>2, OneStreamMoves DEF Stream
  <2>4. CASE HandlerEnds(k)
    <3>1. stream' = [stream EXCEPT ![k] = [stream[k] EXCEPT !.handler = "done"]]
      BY <2>4 DEF HandlerEnds
    <3> QED  BY <2>1, <3>1, OneStreamMoves DEF Stream
  <2>5. CASE ReaderMoves(k)
    <3> DEFINE old == stream[k]
               new == [pump |-> old.pump, cancelled |-> old.cancelled,
                       ch |-> old.ch + 1, net |-> old.net - 1,
                       handler |-> old.handler, missed |-> old.missed]
    <3>1. [old EXCEPT !.net = @ - 1, !.ch = @ + 1] = new
      <4> DEFINE mid == [old EXCEPT !.net = old.net - 1]
      <4>1. mid = [pump |-> old.pump, cancelled |-> old.cancelled,
                   ch |-> old.ch, net |-> old.net - 1,
                   handler |-> old.handler, missed |-> old.missed]
        BY <2>1 DEF Stream
      <4>2. [old EXCEPT !.net = @ - 1, !.ch = @ + 1]
              = [mid EXCEPT !.ch = mid.ch + 1]
        BY <4>1
      <4> HIDE DEF mid
      <4>3. [mid EXCEPT !.ch = mid.ch + 1] = new
        BY <4>1
      <4> QED  BY <4>2, <4>3
    <3>2. stream' = [stream EXCEPT ![k] = new]
      BY <2>5, <3>1 DEF ReaderMoves, StreamsOK
    <3>3. new \in Stream
      BY <2>1, <2>5 DEF ReaderMoves, Stream
    <3>4. new.pump = stream[k].pump /\ new.cancelled = stream[k].cancelled
      OBVIOUS
    <3> HIDE DEF new
    <3> QED  BY <2>1, <3>2, <3>3, <3>4, OneStreamMoves
  <2>6. CASE PumpSends(k)
    <3>1. stream' = [stream EXCEPT ![k] = [stream[k] EXCEPT !.ch = @ - 1]]
      BY <2>6 DEF PumpSends
    <3>2. [stream[k] EXCEPT !.ch = @ - 1] \in Stream
      BY <2>1, <2>6 DEF PumpSends, Stream
    <3> QED  BY <2>1, <3>1, <3>2, OneStreamMoves DEF Stream
  <2> QED  BY <1>5, <2>2, <2>3, <2>4, <2>5, <2>6 DEF StreamStep
<1>6. CASE StopAll
  <2>1. PICK M \in SUBSET Streams :
          stream' = [k \in Streams |-> [stream[k] EXCEPT !.missed = k \in M]]
    BY <1>6 DEF StopAll
  <2>2. phase' = "stopped" /\ UNCHANGED <<logCancel, overlap>>
    BY <1>6 DEF StopAll
  <2>3. ASSUME NEW k \in Streams
        PROVE  /\ stream'[k] \in Stream
               /\ stream'[k].pump = stream[k].pump
               /\ stream'[k].cancelled = stream[k].cancelled
    <3> DEFINE in == k \in M
    <3>1. in \in BOOLEAN /\ stream[k] \in Stream
      BY DEF StreamsOK
    <3>2. stream'[k] = [stream[k] EXCEPT !.missed = in]
      BY <2>1
    <3> HIDE DEF in
    <3> QED  BY <3>1, <3>2 DEF Stream
  <2>4. stream' \in [Streams -> Stream]
    BY <2>1, <2>3
  <2> QED  BY <2>2, <2>3, <2>4 DEF StreamsOK, DialOK, NoStreamForgotten
<1>11. CASE ConnWgWait
  BY <1>11 DEF ConnWgWait, streams, StreamsOK, DialOK, NoStreamForgotten
<1>7. ASSUME NEW c \in Slots, Answered(c) \/ DoneMsg(c)  PROVE StreamsOK'
  BY <1>1, <1>7 DEF Answered, DoneMsg
<1>8. ASSUME NEW v \in Views, Open(v)  PROVE StreamsOK'
  BY <1>1, <1>8 DEF Open
<1>9. CASE \/ SwitchTab \/ Move \/ Back \/ Act \/ SendCommand \/ SubmitAdd
           \/ EditSettings \/ SubmitSettings \/ ConfirmDelete \/ ServersMsg
  BY <1>1, <1>9 DEF SwitchTab, Move, Back, Act, SendCommand, SubmitAdd,
                    EditSettings, SubmitSettings, ConfirmDelete, ServersMsg
<1>10. CASE UNCHANGED vars
  BY <1>1, <1>10 DEF vars
<1> QED
  BY <1>2, <1>3, <1>4, <1>5, <1>6, <1>7, <1>8, <1>9, <1>10, <1>11
     DEF Next, Key, Connecting

-----------------------------------------------------------------------------
(***************************************************************************)
(* Theorems                                                                *)
(***************************************************************************)
\* The three parts together are the invariant.
LEMMA Parts == IInv <=> ViewOK /\ CmdOK /\ StreamsOK
BY DEF IInv, ViewOK, StreamsOK, TypeOK, CmdOK, Cmd

\* In every reachable state.
THEOREM TuiInvariance == Spec => []IInv
<1>1. Init => IInv
  BY InitIInv
<1>2. IInv /\ [Next]_vars => IInv'
  <2> SUFFICES ASSUME IInv, [Next]_vars  PROVE IInv'
    OBVIOUS
  <2>1. ViewOK /\ CmdOK /\ StreamsOK
    BY Parts
  <2>2. ViewOK'
    <3>1. CASE UNCHANGED vars
      BY <2>1, <3>1 DEF vars, ui, ViewOK, FormOK, CursorOnARow, NeverStranded
    <3> QED  BY <2>1, <3>1, ViewKeeps
  <2>3. CmdOK' /\ StreamsOK'
    BY <2>1, CmdKeeps, StreamsKeep
  <2>4. TypeOK'
    BY <2>2, <2>3 DEF TypeOK, ViewOK, CmdOK, Cmd, StreamsOK
  <2> QED
    BY <2>2, <2>3, <2>4 DEF IInv, ViewOK, StreamsOK
<1> QED
  BY <1>1, <1>2, PTL DEF Spec

\* The type invariant; neither a channel of lines nor a connection ever holds
\* more than its capacity.
THEOREM TuiTypeCorrect == Spec => []TypeOK
BY TuiInvariance, PTL DEF IInv

\* The cursor is on a row of the list, whatever rows a refresh brings
\* (model.go, serversMsg).
THEOREM CursorAlwaysOnARow == Spec => []CursorOnARow
BY TuiInvariance, PTL DEF IInv

\* No view that takes input is hidden behind another tab (model.go, handleKey).
THEOREM NeverEverStranded == Spec => []NeverStranded
BY TuiInvariance, PTL DEF IInv

\* Every stream that still feeds the view can be cancelled, unless two were
\* opened at once (model.go, startLogStream and cancelLogStream).
THEOREM StreamsAreReachable == Spec => []NoStreamForgotten
BY TuiInvariance, PTL DEF IInv

\* Settings are sent for the server whose row filled the form (model.go,
\* submitSettings).
THEOREM SettingsGoWhereShown == Spec => SavesWhatItShows
<1>1. IInv /\ [Next]_vars =>
        [\A c \in Slots :
           cmd'[c].op = "update" /\ cmd[c].pc = "free" => cmd'[c].id = setFields]_vars
  BY Parts, CmdKeeps
<1> QED
  BY <1>1, TuiInvariance, PTL DEF Spec, SavesWhatItShows
=============================================================================
