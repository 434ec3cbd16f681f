-------------------------------- MODULE Tui --------------------------------
(***************************************************************************)
(* The terminal interface (tui/model.go) over the IPC client (client.go)   *)
(* and the daemon embedded in its process (cmd/tui.go, daemon.go).         *)
(* Update handles one message at a time, while the commands it returned,   *)
(* the goroutines of the log streams and the daemon's connections run.     *)
(* What the daemon answers to a list request is up to its other clients    *)
(* and to the iteration order of a map: any rows in any order.             *)
(***************************************************************************)
EXTENDS Integers, Sequences, FiniteSets

CONSTANTS
    Ids,       \* servers
    Streams,   \* log streams that may be open at once
    Slots,     \* commands that may be on their way at once
    Cap,       \* capacity of the client's channel of lines (512)
    NetCap,    \* lines on their way in a connection; the last one does not
               \* fit into its buffers, and the daemon hangs in the write
    None

ASSUME TuiAssumption ==
    /\ Cap \in Nat \ {0} /\ NetCap \in Nat \ {0}
    /\ IsFiniteSet(Ids) /\ None \notin Streams

VARIABLES
    servers,  \* rows of the list, as of the last serversMsg
    cursor,   \* row the cursor is on, from 0
    curTab,   \* the tab of the servers, or another
    curView,  \* stream is both the logs and the console
    activeServer, \* as long as the view reads it
    setFields,    \* the server whose row filled the settings form
    cmd,      \* commands that Update returned, until their message is handled
    stream,   \* log streams: pump of startLogStream, channel, connection
    logCancel,    \* the stream whose context is registered
    phase,    \* run, quit, and the steps of Shutdown
    overlap   \* history: a stream was started while another was connecting

ui == <<servers, cursor, curTab, curView, activeServer, setFields>>
form == <<activeServer, setFields>>
list == <<servers, cursor, curTab>>
streams == <<stream, logCancel, overlap>>
vars == <<ui, cmd, streams, phase>>

Views == {"list", "detail", "stream", "add", "settings", "delete"}

Rows == {r \in UNION {[1..n -> Ids] : n \in 0..Cardinality(Ids)} :
           \A i, j \in DOMAIN r : i # j => r[i] # r[j]}

Free == [op |-> "none", id |-> None, pc |-> "free"]

Stream == [pump : {"none", "dial", "on", "over"}, cancelled : BOOLEAN,
           ch : 0..Cap, net : 0..NetCap, handler : {"off", "open", "done"},
           missed : BOOLEAN] \* StopAll does not stop the handle it is of

Unused == [pump |-> "none", cancelled |-> FALSE, ch |-> 0, net |-> 0,
           handler |-> "off", missed |-> FALSE]

\* A stream of which nothing is left but lines nobody will read.
Over(k) == /\ stream[k].pump \in {"none", "over"}
           /\ stream[k].handler \in {"off", "done"} /\ stream[k].net = 0

selectedID == IF cursor < Len(servers) THEN servers[cursor + 1] ELSE None

InView(v) == phase = "run" /\ curTab = "servers" /\ curView = v

Issue(op, id) ==
    \E c \in Slots : /\ cmd[c].pc = "free"
                     /\ cmd' = [cmd EXCEPT ![c] = [op |-> op, id |-> id,
                                                   pc |-> "sent"]]

cancelLogStream == IF logCancel = None THEN stream
                   ELSE [stream EXCEPT ![logCancel].cancelled = TRUE]

-----------------------------------------------------------------------------
(***************************************************************************)
(* Keys                                                                    *)
(***************************************************************************)
\* ctrl+c anywhere, q in the list.  The model is gone when Run returns.
Quit ==
    /\ phase = "run"
    /\ phase' = "quit"
    /\ stream' = cancelLogStream /\ logCancel' = None
    /\ servers' = <<>> /\ cursor' = 0 /\ curTab' = "servers"
    /\ curView' = "list" /\ activeServer' = None /\ setFields' = None
    /\ UNCHANGED <<cmd, overlap>>

\* Mutant of SwitchTab: in any view.
SwitchAnywhere ==
    /\ phase = "run"
    /\ curTab' \in {"servers", "other"}
    /\ UNCHANGED <<servers, cursor, curView, form, cmd, streams, phase>>

SwitchTab ==
    /\ phase = "run" /\ curView \in {"list", "detail"}
    /\ curTab' \in {"servers", "other"}
    /\ UNCHANGED <<servers, cursor, curView, form, cmd, streams, phase>>

\* Mutant of Move: no test at the first row.
MoveUnbounded ==
    /\ InView("list")
    /\ \/ cursor' = cursor - 1
       \/ cursor < Len(servers) - 1 /\ cursor' = cursor + 1
    /\ UNCHANGED <<servers, curTab, curView, form, cmd, streams, phase>>

Move ==
    /\ InView("list")
    /\ \/ cursor > 0 /\ cursor' = cursor - 1
       \/ cursor < Len(servers) - 1 /\ cursor' = cursor + 1
    /\ UNCHANGED <<servers, curTab, curView, form, cmd, streams, phase>>

\* Enter, a and d in the list.
Open(v) ==
    /\ InView("list") /\ v \in {"add", "detail", "delete"}
    /\ v # "add" => selectedID # None
    /\ curView' = v
    /\ UNCHANGED <<list, form, cmd, streams, phase>>

\* esc and q in the details, n in the confirmation, esc in the forms.
Back ==
    /\ \E v \in {"detail", "add", "settings", "delete"} : InView(v)
    /\ curView' = "list" /\ activeServer' = None /\ setFields' = None
    /\ UNCHANGED <<list, cmd, streams, phase>>

\* s, x and r in the list and in the details.
Act ==
    /\ InView("list") \/ InView("detail")
    /\ selectedID # None
    /\ Issue("act", None)
    /\ UNCHANGED <<ui, streams, phase>>

Overlapping == \E k \in Streams : stream[k].pump = "dial"

\* Mutant of OpenStream: cancelLogStream is left out.
OpenUncancelled ==
    /\ InView("list") \/ InView("detail")
    /\ selectedID # None
    /\ \E k \in Streams \ {logCancel} :
         Over(k) /\ stream' = [stream EXCEPT ![k] = [Unused EXCEPT !.pump = "dial"]]
    /\ overlap' = (overlap \/ Overlapping)
    /\ curView' = "stream" /\ activeServer' = selectedID
    /\ UNCHANGED <<list, setFields, cmd, logCancel, phase>>

\* l and c in the list and in the details.
OpenStream ==
    /\ InView("list") \/ InView("detail")
    /\ selectedID # None
    /\ \E k \in Streams :
         /\ Over(k)
         /\ stream' = [cancelLogStream EXCEPT
                         ![k] = [Unused EXCEPT !.pump = "dial"]]
    /\ logCancel' = None
    /\ overlap' = (overlap \/ Overlapping)
    /\ curView' = "stream" /\ activeServer' = selectedID
    /\ UNCHANGED <<list, setFields, cmd, phase>>

\* q and esc in the logs and the console.
LeaveStream ==
    /\ InView("stream")
    /\ stream' = cancelLogStream /\ logCancel' = None
    /\ curView' = "list" /\ activeServer' = None
    /\ UNCHANGED <<list, setFields, cmd, overlap, phase>>

\* Enter in the console.
SendCommand ==
    /\ InView("stream") /\ activeServer # None
    /\ Issue("act", None)
    /\ UNCHANGED <<ui, streams, phase>>

\* submitAddForm; the form stays open until createDoneMsg.
SubmitAdd ==
    /\ InView("add")
    /\ Issue("create", None)
    /\ UNCHANGED <<ui, streams, phase>>

EditSettings ==
    /\ InView("list") /\ selectedID # None
    /\ setFields' = selectedID /\ activeServer' = selectedID
    /\ curView' = "settings"
    /\ UNCHANGED <<list, cmd, streams, phase>>

\* Mutant of SubmitSettings: for the server the cursor is on.
SubmitSelected ==
    /\ InView("settings") /\ selectedID # None
    /\ Issue("update", selectedID)
    /\ UNCHANGED <<ui, streams, phase>>

\* The form stays open until settingsSavedMsg.
SubmitSettings ==
    /\ InView("settings")
    /\ Issue("update", activeServer)
    /\ UNCHANGED <<ui, streams, phase>>

\* y in the confirmation: whatever the cursor is on by now.
ConfirmDelete ==
    /\ InView("delete") /\ selectedID # None
    /\ curView' = "list"
    /\ Issue("act", None)
    /\ UNCHANGED <<list, form, streams, phase>>

-----------------------------------------------------------------------------
(***************************************************************************)
(* Messages                                                                *)
(***************************************************************************)
\* Mutant of ServersMsg: the cursor is only reset when the list is empty.
ServersMsgUnclamped ==
    /\ phase = "run"
    /\ servers' \in Rows
    /\ cursor' = IF servers' = <<>> THEN 0 ELSE cursor
    /\ UNCHANGED <<curTab, curView, form, cmd, streams, phase>>

\* fetchServers, after a tick and after each of the other messages.  A failed
\* request is an empty list.
ServersMsg ==
    /\ phase = "run"
    /\ servers' \in Rows
    /\ cursor' = IF servers' = <<>> THEN 0
                 ELSE IF cursor >= Len(servers') THEN Len(servers') - 1
                 ELSE cursor
    /\ UNCHANGED <<curTab, curView, form, cmd, streams, phase>>

\* client.send returns: the daemon has answered, or the connection failed.
Answered(c) ==
    /\ cmd[c].pc = "sent"
    /\ cmd' = [cmd EXCEPT ![c].pc = "answered"]
    /\ UNCHANGED <<ui, streams, phase>>

\* actionDoneMsg, createDoneMsg, settingsSavedMsg.  When they report success
\* the last two go back to the list, from whatever is shown by now.
DoneMsg(c) ==
    /\ phase = "run" /\ cmd[c].pc = "answered"
    /\ \/ UNCHANGED <<curView, form>>
       \/ /\ cmd[c].op \in {"create", "update"}
          /\ curView' = "list" /\ activeServer' = None /\ setFields' = None
    /\ cmd' = [cmd EXCEPT ![c] = Free]
    /\ UNCHANGED <<list, streams, phase>>

-----------------------------------------------------------------------------
(***************************************************************************)
(* A log stream: startLogStream and its goroutine, StreamLogs and its      *)
(* reader, the daemon's handler                                            *)
(***************************************************************************)
\* The handler answers an error if the server is not registered.  A connection
\* accepted before the listener was closed may subscribe after StopAll, to a
\* handle that a watcher or a Restart has registered since.
Connects(k) ==
    /\ stream[k].pump = "dial" /\ phase # "down"
    /\ \E answer \in {"open", "done"} :
         stream' = [stream EXCEPT ![k].pump = "on", ![k].handler = answer,
                                  ![k].missed = (phase = "stopped")]
    /\ logCancel' = k
    /\ UNCHANGED <<ui, cmd, overlap, phase>>

DialFails(k) ==
    /\ stream[k].pump = "dial"
    /\ stream' = [stream EXCEPT ![k].pump = "over"]
    /\ UNCHANGED <<ui, cmd, logCancel, overlap, phase>>

\* The daemon takes a line from its subscription and encodes it.
HandlerWrites(k) ==
    /\ stream[k].handler = "open" /\ stream[k].net < NetCap
    /\ phase \in {"run", "quit"} \/ stream[k].missed
    /\ stream' = [stream EXCEPT ![k].net = @ + 1]
    /\ UNCHANGED <<ui, cmd, logCancel, overlap, phase>>

\* Mutant of HandlerEnds: it stays subscribed while the daemon serves nobody.
HandlerOutlives(k) ==
    /\ stream[k].handler = "open" /\ stream[k].net < NetCap
    /\ phase # "stopped"
    /\ stream' = [stream EXCEPT ![k].handler = "done"]
    /\ UNCHANGED <<ui, cmd, logCancel, overlap, phase>>

\* The process has ended and the broadcast has closed the channel (see
\* LogBroadcast); the handler notices when it is not in a write.
HandlerEnds(k) ==
    /\ stream[k].handler = "open" /\ stream[k].net < NetCap
    /\ stream' = [stream EXCEPT ![k].handler = "done"]
    /\ UNCHANGED <<ui, cmd, logCancel, overlap, phase>>

ReaderMoves(k) ==
    /\ stream[k].net > 0 /\ stream[k].ch < Cap
    /\ stream' = [stream EXCEPT ![k].net = @ - 1, ![k].ch = @ + 1]
    /\ UNCHANGED <<ui, cmd, logCancel, overlap, phase>>

\* Also after a cancel: select chooses among what is ready.  program.Send
\* returns when the line is handled or the program is over.
PumpSends(k) ==
    /\ stream[k].pump = "on" /\ stream[k].ch > 0
    /\ stream' = [stream EXCEPT ![k].ch = @ - 1]
    /\ UNCHANGED <<ui, cmd, logCancel, overlap, phase>>

\* The context is cancelled, or the channel is closed and empty.
PumpEnds(k) ==
    /\ stream[k].pump = "on"
    /\ \/ stream[k].cancelled
       \/ stream[k].handler = "done" /\ stream[k].net = 0 /\ stream[k].ch = 0
    /\ stream' = [stream EXCEPT ![k].pump = "over"]
    /\ UNCHANGED <<ui, cmd, logCancel, overlap, phase>>

-----------------------------------------------------------------------------
\* cmd/tui.go: Shutdown closes the listener, StopAll stops the handle the map has
\* for each id of its snapshot.  It misses the handle of a stream if a watcher or
\* a Restart has registered another one over it (after a Start during the
\* backoff, supervisor.go:276), or if the handle is newer than the snapshot.
StopAll ==
    /\ phase = "quit"
    /\ phase' = "stopped"
    /\ \E M \in SUBSET {k \in Streams : stream[k].handler = "open"} :
         stream' = [k \in Streams |-> [stream[k] EXCEPT !.missed = k \in M]]
    /\ UNCHANGED <<ui, cmd, logCancel, overlap>>

\* connWg.Wait, then the process ends.
ConnWgWait ==
    /\ phase = "stopped"
    /\ \A c \in Slots : cmd[c].pc # "sent"
    /\ \A k \in Streams : stream[k].handler \in {"off", "done"}
    /\ phase' = "down"
    /\ UNCHANGED <<ui, cmd, streams>>

Init ==
    /\ servers = <<>> /\ cursor = 0 /\ curTab = "servers" /\ curView = "list"
    /\ activeServer = None /\ setFields = None
    /\ cmd = [c \in Slots |-> Free]
    /\ stream = [k \in Streams |-> Unused] /\ logCancel = None
    /\ phase = "run" /\ overlap = FALSE

Key ==
    \/ Quit \/ SwitchTab \/ Move \/ Back \/ Act \/ OpenStream \/ LeaveStream
    \/ SendCommand \/ SubmitAdd \/ EditSettings \/ SubmitSettings
    \/ ConfirmDelete
    \/ \E v \in Views : Open(v)

Connecting(k) == Connects(k) \/ DialFails(k)

StreamStep(k) == ReaderMoves(k) \/ PumpSends(k) \/ PumpEnds(k)

Next ==
    \/ Key \/ ServersMsg \/ StopAll \/ ConnWgWait
    \/ \E c \in Slots : Answered(c) \/ DoneMsg(c)
    \/ \E k \in Streams : \/ Connecting(k) \/ StreamStep(k)
                          \/ HandlerWrites(k) \/ HandlerEnds(k)

Spec == Init /\ [][Next]_vars

\* Goroutines run; a request is answered (Supervisor); the processes that
\* StopAll has stopped end their streams, the ones it has missed may run for
\* ever.  Nobody has to press a key or print a line.
FairSpec ==
    /\ Spec
    /\ \A c \in Slots : WF_vars(Answered(c))
    /\ \A k \in Streams : WF_vars(Connecting(k)) /\ WF_vars(StreamStep(k))
    /\ \A k \in Streams : WF_vars(/\ phase = "stopped" /\ ~stream[k].missed
                                  /\ HandlerEnds(k))
    /\ WF_vars(StopAll) /\ WF_vars(ConnWgWait)

-----------------------------------------------------------------------------
(***************************************************************************)
(* Properties                                                              *)
(***************************************************************************)
TypeOK ==
    /\ servers \in Rows /\ cursor \in Nat
    /\ curTab \in {"servers", "other"} /\ curView \in Views
    /\ {activeServer, setFields} \subseteq Ids \union {None}
    /\ \A c \in Slots : cmd[c].pc \in {"free", "sent", "answered"}
    /\ stream \in [Streams -> Stream]
    /\ logCancel \in Streams \union {None}
    /\ phase \in {"run", "quit", "stopped", "down"} /\ overlap \in BOOLEAN

\* However the list shrinks and is reordered by refreshes, the cursor is on a
\* row of it, so a key that acts on the selected server has one.
CursorOnARow == IF servers = <<>> THEN cursor = 0 ELSE cursor < Len(servers)

\* A view that takes input or confirms is never hidden behind another tab,
\* where its keys, also the one that leaves it, would be dropped.
NeverStranded == curView \in {"list", "detail"} \/ curTab = "servers"

\* Settings are sent for the server whose row filled the form, although rows
\* and cursor move under it and late answers change the view.
SavesWhatItShows ==
    [][\A c \in Slots :
         cmd'[c].op = "update" /\ cmd[c].pc = "free" => cmd'[c].id = setFields]_vars

\* Every stream that still feeds the view can be cancelled: none is running
\* that logCancel does not reach, whichever way the view was left - unless a
\* second stream was started while the first was connecting.
NoStreamForgotten ==
    \A k \in Streams :
      stream[k].pump = "on" /\ ~stream[k].cancelled /\ k # logCancel => overlap

\* The channel of a stream that nobody reads any more is full, and the
\* daemon's handler hangs in a write to the connection.
Stuck(k) ==
    /\ stream[k].pump = "over" /\ stream[k].ch = Cap
    /\ stream[k].net = NetCap /\ stream[k].handler = "open"

\* The stream is of a process that StopAll has not stopped.
Missed(k) == stream[k].handler = "open" /\ stream[k].missed

\* After quit the process ends: Shutdown waits for every connection, and only
\* two things can keep one open: a stream that was left with a full channel,
\* and a stream of a handle that StopAll has missed.
QuitEnds ==
    phase = "quit" ~> \/ phase = "down"
                      \/ \E k \in Streams : Stuck(k) \/ Missed(k)
=============================================================================
