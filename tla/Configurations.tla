--------------------------- MODULE Configurations ---------------------------
(***************************************************************************)
(* The files of the servers and everything that writes them: config.go,    *)
(* and the handlers of the daemon's two interfaces (daemon.go,             *)
(* httpapi/server.go), none of which takes a lock.  A handler is split     *)
(* where it makes a system call; os.Create truncates, the text of a        *)
(* configuration is written by one later call, an uploaded jar by several, *)
(* each at the offset of its own descriptor.  Of Start only what it reads  *)
(* is modelled here, the rest is in Supervisor.                            *)
(***************************************************************************)
EXTENDS Naturals, FiniteSets

CONSTANTS
    DefaultRoot, \* DefaultServersRoot()
    Tasks,      \* requests that may be open at once, over IPC or HTTP
    Ids,        \* server ids
    Roots,      \* the values of servers_root that clients choose
    Torn,       \* a path that is half of one root and half of another
    Names,      \* values of the fields a settings request sets if not zero
    Flags,      \* values of java_flags and auto_restart
    Default,    \* what a create stores in java_flags and auto_restart
    Keep,       \* the field is not in the body
    Jars, Long, \* the jars clients upload, and those io.Copy writes in two
                \* calls (in how many does not matter: the last, and the rest)
    Absent, Empty, None,
    MaxCalls,   \* bounds the requests of a behaviour
    MaxFaults   \* bounds the failed writes and crashes of a behaviour

ASSUME ConfigurationsAssumption ==
    /\ Default \in Flags /\ Keep \notin Names \union Flags
    /\ DefaultRoot \in Roots /\ Torn \notin Roots
    /\ Absent # Empty
    /\ {Absent, Empty} \intersect [name : Names, flags : Flags] = {}
    /\ None \notin Jars /\ Long \subseteq Jars
    /\ {Absent, Empty} \intersect
         [head : Jars \union {None}, tail : Jars \union {None}] = {}
    /\ MaxCalls \in Nat /\ MaxFaults \in Nat

VARIABLES
    root,     \* config.ServersRoot, read and assigned without a lock
    saved,    \* servers_root in the global config.json
    dirs,     \* server directories that exist: pairs of a root and an id
    file,     \* opd.json in each
    plugins,  \* the plugins directory in each, and the one jar in it
    on,       \* the server's process: off, on, or down in its backoff
    home,     \* the directory it was started in
    task,     \* the request each handler goroutine is in
    calls, faults,
    hurt,     \* history: paths at which a write was cut short
    met,      \* history: paths where two uploads had one jar open
    solo      \* history: the last request, if nothing else ran during it

world == <<root, saved, dirs, file, plugins, on, home>>
history == <<calls, faults, hurt>>
vars == <<world, task, history, met, solo>>

Paths == (Roots \union {Torn}) \X Ids

Config == [name : Names, flags : Flags]

\* Every request that reads or changes the files of one server.
Edits == {"update", "put"}
Creates == {"create", "httpCreate"}
OnPlugins == {"plugins", "upload", "unplug"}
Ops == Edits \union Creates \union OnPlugins \union
       {"get", "start", "remove", "setRoot"}

\* What a client may send: CmdUpdateSettings always carries the flags.
Bodies(op) ==
    [name : IF op \in Creates THEN Names
            ELSE IF op \in Edits THEN Names \union {Keep} ELSE {Keep},
     jar : IF op = "upload" THEN Jars ELSE {Keep},
     flags : CASE op \in Creates -> {Default}
               [] op = "update" -> Flags
               [] op = "put" -> Flags \union {Keep}
               [] OTHER -> {Keep}]

\* servers_root in the body: a must for setRoot, optional for httpCreate.
BodyRoots(op) == CASE op = "setRoot" -> Roots
                   [] op = "httpCreate" -> Roots \union {None}
                   [] OTHER -> {None}

Patched(cfg, body) ==
    [name  |-> IF body.name = Keep THEN cfg.name ELSE body.name,
     flags |-> IF body.flags = Keep THEN cfg.flags ELSE body.flags]

\* A jar: whose bytes its first part is made of, and whose the rest.  None is
\* nothing, or a hole: bytes that were never written, before some that were.
JarFiles == [head : Jars \union {None}, tail : Jars \union {None}]

Truncated == [head |-> None, tail |-> None]
Whole(j)  == [head |-> j, tail |-> IF j \in Long THEN j ELSE None]

Idle == [op |-> "get", pc |-> "idle", id |-> None, path |-> None,
         body |-> None, to |-> None, cfg |-> None, fd |-> "shut"]

\* ServersRoot is a string of two words: a read that overlaps an assignment
\* sees the old one, the new one, or a word of each.
SeenRoots ==
    {root} \union UNION {{task[t].to, Torn} :
                           t \in {u \in Tasks : task[u].pc = "assign"}}

SeenPaths(t) == {<<r, task[t].id>> : r \in SeenRoots}

At(t, pc) == task[t].pc = pc

Goto(t, pc) == task' = [task EXCEPT ![t].pc = pc]

Return(t) == task' = [task EXCEPT ![t] = Idle]

\* The supervisor's mutex, which Start holds from its check to its end.
Locked == \E t \in Tasks : task[t].op = "start" /\ task[t].pc = "loaded"

\* The open files of path p lose their directory entry.
Unlinked(p, ops) ==
    [u \in Tasks |->
       IF task[u].path = p /\ task[u].fd = "open" /\ task[u].op \in ops
       THEN [task[u] EXCEPT !.fd = "lost"] ELSE task[u]]

-----------------------------------------------------------------------------
(***************************************************************************)
(* Load, and the requests that start with it                               *)
(***************************************************************************)
\* Mutant of Load: a file that cannot be opened counts as a default one.
LoadOrDefault(t) ==
    /\ At(t, "called") /\ task[t].op \notin Creates \union {"remove", "setRoot"}
    /\ task[t].op = "start" => ~Locked /\ on[task[t].id] # "on"
    /\ \E p \in SeenPaths(t), n \in Names :
         task' = [task EXCEPT ![t].pc = "loaded", ![t].path = p,
                    ![t].cfg = Patched(IF file[p] \in Config THEN file[p]
                                       ELSE [name |-> n, flags |-> Default],
                                       task[t].body)]
    /\ UNCHANGED world

Load(t) ==
    /\ At(t, "called") /\ task[t].op \notin Creates \union {"remove", "setRoot"}
    /\ task[t].op = "start" => ~Locked /\ on[task[t].id] # "on"
    /\ \E p \in SeenPaths(t) :
         /\ file[p] \in Config
         /\ task' = [task EXCEPT ![t].pc = "loaded", ![t].path = p,
                                 ![t].cfg = Patched(file[p], task[t].body)]
    /\ UNCHANGED world

LoadFails(t) ==
    /\ At(t, "called") /\ task[t].op \notin Creates \union {"remove", "setRoot"}
    /\ \/ \E p \in SeenPaths(t) : file[p] \notin Config
       \/ task[t].op = "start" /\ ~Locked /\ on[task[t].id] = "on"
    /\ Return(t)
    /\ UNCHANGED world

\* handleGetServer, handleFiles and the other readers only answer.
Answer(t) ==
    /\ At(t, "loaded") /\ task[t].op = "get"
    /\ Return(t)
    /\ UNCHANGED world

\* process.Spawn runs in the directory of the configuration.
Spawn(t) ==
    /\ At(t, "loaded") /\ task[t].op = "start"
    /\ IF task[t].path \in dirs
       THEN /\ on' = [on EXCEPT ![task[t].id] = "on"]
            /\ home' = [home EXCEPT ![task[t].id] = task[t].path]
       ELSE UNCHANGED <<on, home>>
    /\ Return(t)
    /\ UNCHANGED <<root, saved, dirs, file, plugins>>

-----------------------------------------------------------------------------
(***************************************************************************)
(* Create: config.Create tests the directory, handleCreateServer the file  *)
(***************************************************************************)
Exists(t, p) == IF task[t].op = "create" THEN p \in dirs ELSE file[p] # Absent

\* Mutant of CreateTests: the configuration is not filled in.
CreateBare(t) ==
    /\ At(t, "called") /\ task[t].op \in Creates
    /\ \E p \in SeenPaths(t) :
         task' = [task EXCEPT ![t].pc = "tested", ![t].path = p]
    /\ UNCHANGED world

CreateTests(t) ==
    /\ At(t, "called") /\ task[t].op \in Creates
    /\ \E p \in IF task[t].to = None THEN SeenPaths(t)
                                     ELSE {<<task[t].to, task[t].id>>} :
         task' = [task EXCEPT ![t] =
                    IF Exists(t, p) THEN Idle
                    ELSE [@ EXCEPT !.pc = "tested", !.path = p,
                            !.cfg = [name |-> task[t].body.name,
                                     flags |-> Default]]]
    /\ UNCHANGED world

CreateMakesDir(t) ==
    /\ At(t, "tested")
    /\ dirs' = dirs \union {task[t].path}
    /\ plugins' = IF task[t].op = "create" \/ plugins[task[t].path] # Absent
                  THEN plugins
                  ELSE [plugins EXCEPT ![task[t].path] = Empty]
    /\ Goto(t, "loaded")
    /\ UNCHANGED <<root, saved, file, on, home>>

-----------------------------------------------------------------------------
(***************************************************************************)
(* Save, for a settings request and for a create.  It joins ServersRoot    *)
(* and the id again; handleCreateServer uses the path it has.              *)
(***************************************************************************)
SavePaths(t) == IF task[t].op = "httpCreate" THEN {task[t].path} ELSE SeenPaths(t)

SaveCreates(t) ==
    /\ At(t, "loaded") /\ task[t].op \in Edits \union Creates
    /\ \E p \in SavePaths(t) \intersect dirs :
         /\ file' = [file EXCEPT ![p] = Empty]
         /\ task' = [task EXCEPT ![t].pc = "open", ![t].path = p,
                                 ![t].fd = "open"]
    /\ UNCHANGED <<root, saved, dirs, plugins, on, home>>

SaveFindsNoDir(t) ==
    /\ At(t, "loaded") /\ task[t].op \in Edits \union Creates
    /\ SavePaths(t) \ dirs # {}
    /\ Return(t)
    /\ UNCHANGED world

\* Mutant of SaveEncodes: the encoder is never run.
SaveForgets(t) ==
    /\ At(t, "open") /\ task[t].op \in Edits \union Creates
    /\ Return(t)
    /\ UNCHANGED world

\* enc.Encode; a create over HTTP may go on to SetServersRoot.
SaveEncodes(t) ==
    /\ At(t, "open") /\ task[t].op \in Edits \union Creates
    /\ file' = IF task[t].fd = "open"
               THEN [file EXCEPT ![task[t].path] = task[t].cfg] ELSE file
    /\ \E r \in SeenRoots :
         IF task[t].to \in {None, r}
         THEN Return(t)
         ELSE task' = [task EXCEPT ![t].pc = "assign", ![t].fd = "shut"]
    /\ UNCHANGED <<root, saved, dirs, plugins, on, home>>

-----------------------------------------------------------------------------
(***************************************************************************)
(* Remove                                                                  *)
(***************************************************************************)
\* Mutant of RemoveChecks: no "stop it first".
RemoveUnchecked(t) ==
    /\ At(t, "called") /\ task[t].op = "remove" /\ ~Locked
    /\ Goto(t, "checked")
    /\ UNCHANGED world

\* CmdRemove, before anything is deleted: IsRunning waits for the mutex.
RemoveChecks(t) ==
    /\ At(t, "called") /\ task[t].op = "remove" /\ ~Locked
    /\ IF on[task[t].id] = "on" THEN Return(t) ELSE Goto(t, "checked")
    /\ UNCHANGED world

RemoveFinds(t) ==
    /\ At(t, "checked")
    /\ \E p \in SeenPaths(t) :
         task' = [task EXCEPT ![t] = IF p \notin dirs THEN Idle
                                     ELSE [@ EXCEPT !.pc = "found", !.path = p]]
    /\ UNCHANGED world

\* os.RemoveAll deletes what the directory holds, then the directory.
RemoveEmpties(t) ==
    /\ At(t, "found")
    /\ file' = [file EXCEPT ![task[t].path] = Absent]
    /\ plugins' = [plugins EXCEPT ![task[t].path] = Absent]
    /\ task' = [Unlinked(task[t].path, Ops) EXCEPT ![t].pc = "emptied"]
    /\ UNCHANGED <<root, saved, dirs, on, home>>

\* It fails if something was put there meanwhile.
RemoveDir(t) ==
    /\ At(t, "emptied")
    /\ dirs' = IF /\ file[task[t].path] = Absent
                  /\ plugins[task[t].path] = Absent
               THEN dirs \ {task[t].path} ELSE dirs
    /\ Return(t)
    /\ UNCHANGED <<root, saved, file, plugins, on, home>>

-----------------------------------------------------------------------------
(***************************************************************************)
(* handlePlugins: every method first makes the plugins directory, and the  *)
(* server's directory with it                                              *)
(***************************************************************************)
PluginsMakesDir(t) ==
    /\ At(t, "loaded") /\ task[t].op \in OnPlugins
    /\ dirs' = dirs \union {task[t].path}
    /\ plugins' = IF plugins[task[t].path] = Absent
                  THEN [plugins EXCEPT ![task[t].path] = Empty] ELSE plugins
    /\ IF task[t].op = "plugins" THEN Return(t) ELSE Goto(t, "made")
    /\ UNCHANGED <<root, saved, file, on, home>>

UploadCreates(t) ==
    /\ At(t, "made") /\ task[t].op = "upload"
    /\ IF plugins[task[t].path] = Absent
       THEN Return(t) /\ UNCHANGED plugins
       ELSE /\ plugins' = [plugins EXCEPT ![task[t].path] = Truncated]
            /\ task' = [task EXCEPT ![t].pc = "open", ![t].fd = "open"]
    /\ UNCHANGED <<root, saved, dirs, file, on, home>>

\* io.Copy: the first write, at offset 0, and the last.  Whatever another upload
\* does to the jar meanwhile, the offset is this descriptor's own.
UploadCopies(t) ==
    /\ task[t].op = "upload"
    /\ \/ /\ At(t, "open")
          /\ plugins' = IF task[t].fd = "open"
                        THEN [plugins EXCEPT ![task[t].path].head = task[t].body.jar]
                        ELSE plugins
          /\ IF task[t].body.jar \in Long THEN Goto(t, "half") ELSE Return(t)
       \/ /\ At(t, "half")
          /\ plugins' = IF task[t].fd = "open"
                        THEN [plugins EXCEPT ![task[t].path].tail = task[t].body.jar]
                        ELSE plugins
          /\ Return(t)
    /\ UNCHANGED <<root, saved, dirs, file, on, home>>

PluginRemoved(t) ==
    /\ At(t, "made") /\ task[t].op = "unplug"
    /\ IF plugins[task[t].path] \in JarFiles
       THEN /\ plugins' = [plugins EXCEPT ![task[t].path] = Empty]
            /\ task' = [Unlinked(task[t].path, {"upload"}) EXCEPT ![t] = Idle]
       ELSE Return(t) /\ UNCHANGED plugins
    /\ UNCHANGED <<root, saved, dirs, file, on, home>>

-----------------------------------------------------------------------------
(***************************************************************************)
(* SetServersRoot                                                          *)
(***************************************************************************)
RootMade(t) ==
    /\ At(t, "called") /\ task[t].op = "setRoot"
    /\ Goto(t, "assign")
    /\ UNCHANGED world

\* Two assignments at once may leave a word of each.
RootAssigned(t) ==
    /\ At(t, "assign")
    /\ root' \in {task[t].to} \union
                 {Torn : u \in {v \in Tasks \ {t} : At(v, "assign")}}
    /\ Goto(t, "assigned")
    /\ UNCHANGED <<saved, dirs, file, plugins, on, home>>

GlobalCreates(t) ==
    /\ At(t, "assigned")
    /\ saved' = Empty
    /\ Goto(t, "global")
    /\ UNCHANGED <<root, dirs, file, plugins, on, home>>

\* The struct to encode is filled from ServersRoot as it is now.
GlobalReads(t) ==
    /\ At(t, "global")
    /\ \E r \in SeenRoots :
         task' = [task EXCEPT ![t].pc = "encode", ![t].to = r]
    /\ UNCHANGED world

GlobalEncodes(t) ==
    /\ At(t, "encode")
    /\ saved' = task[t].to
    /\ Return(t)
    /\ UNCHANGED <<root, dirs, file, plugins, on, home>>

-----------------------------------------------------------------------------
(***************************************************************************)
(* Failures, and the processes                                             *)
(***************************************************************************)
\* The paths at which a request of these kinds has an open file, which has not
\* got its contents yet.
OpenBy(ops) == {task[t].path : t \in {u \in Tasks : /\ task[u].fd = "open"
                                                    /\ task[u].op \in ops}}

\* The paths at which two uploads have the jar open.
Meeting == {p \in Paths : \E t, u \in Tasks :
              /\ t # u /\ task[t].path = p /\ task[u].path = p
              /\ task[t].op = "upload" /\ task[u].op = "upload"
              /\ task[t].fd = "open" /\ task[u].fd = "open"}

\* A system call of the handler returns an error: the directory, the open
\* or the write of Save, io.Copy; the directory of a new root, or a call of
\* saveGlobalConfig; for Start, no jar or no process.
IoFails(t) ==
    /\ faults < MaxFaults
    /\ \/ task[t].pc \in {"tested", "loaded", "open", "half", "assigned", "encode"}
       \/ At(t, "called") /\ task[t].op = "setRoot"
    /\ faults' = faults + 1
    /\ hurt' = IF task[t].fd = "open" THEN hurt \union {task[t].path} ELSE hurt
    /\ solo' = None
    /\ Return(t)
    /\ UNCHANGED <<world, calls, met>>

\* The daemon dies and boots: LoadGlobalConfig.  What the system calls have
\* done is done.  RestoreState is a number of start requests.
Reboot ==
    /\ faults < MaxFaults
    /\ faults' = faults + 1
    /\ hurt' = hurt \union OpenBy(Ops)
    /\ task' = [t \in Tasks |-> Idle]
    /\ root' = IF saved \in Roots \union {Torn} THEN saved ELSE DefaultRoot
    /\ on' = [id \in Ids |-> "off"]
    /\ solo' = None
    /\ UNCHANGED <<saved, dirs, file, plugins, home, calls, met>>

Exits(id) ==
    /\ on[id] = "on"
    /\ on' = [on EXCEPT ![id] = IF home[id] \in dirs THEN "down" ELSE "off"]
    /\ solo' = None
    /\ UNCHANGED <<root, saved, dirs, file, plugins, home, task, history, met>>

\* watch respawns with the configuration of the last Start; without its
\* directory the process cannot be started.
Respawns(id) ==
    /\ on[id] = "down"
    /\ on' = [on EXCEPT ![id] = IF home[id] \in dirs THEN "on" ELSE "off"]
    /\ solo' = None
    /\ UNCHANGED <<root, saved, dirs, file, plugins, home, task, history, met>>

-----------------------------------------------------------------------------
World == [root |-> root, saved |-> saved, dirs |-> dirs, file |-> file,
          plugins |-> plugins, on |-> on, home |-> home]

AllIdle == \A t \in Tasks : At(t, "idle")

\* handleServerRouter, handleConn: a request has been read.
Call(t) ==
    /\ At(t, "idle") /\ calls < MaxCalls
    /\ \E op \in Ops, id \in Ids :
         \E body \in Bodies(op), to \in BodyRoots(op) :
           LET req == [Idle EXCEPT !.op = op, !.pc = "called", !.id = id,
                                   !.body = body, !.to = to]
           IN /\ task' = [task EXCEPT ![t] = req]
              /\ solo' = IF AllIdle THEN [was |-> World, req |-> req] ELSE None
    /\ calls' = calls + 1
    /\ UNCHANGED <<world, faults, hurt, met>>

Handler(t) ==
    \/ Load(t) \/ LoadFails(t) \/ Answer(t) \/ Spawn(t)
    \/ CreateTests(t) \/ CreateMakesDir(t)
    \/ SaveCreates(t) \/ SaveFindsNoDir(t) \/ SaveEncodes(t)
    \/ RemoveChecks(t) \/ RemoveFinds(t) \/ RemoveEmpties(t) \/ RemoveDir(t)
    \/ PluginsMakesDir(t) \/ UploadCreates(t) \/ UploadCopies(t)
    \/ PluginRemoved(t)
    \/ RootMade(t) \/ RootAssigned(t) \/ GlobalCreates(t) \/ GlobalReads(t)
    \/ GlobalEncodes(t)

Step(t) ==
    /\ Handler(t)
    /\ met' = met \union Meeting'
    /\ UNCHANGED <<history, solo>>

\* A new installation, with some servers under the default root.
Init ==
    /\ root = DefaultRoot /\ saved = Absent
    /\ \E old \in SUBSET Ids, n \in Names :
         /\ dirs = {DefaultRoot} \X old
         /\ file = [p \in Paths |-> IF p \in dirs
                      THEN [name |-> n, flags |-> Default] ELSE Absent]
    /\ plugins = [p \in Paths |-> Absent]
    /\ on = [id \in Ids |-> "off"] /\ home = [id \in Ids |-> None]
    /\ task = [t \in Tasks |-> Idle]
    /\ calls = 0 /\ faults = 0 /\ hurt = {} /\ met = {} /\ solo = None

Next ==
    \/ \E t \in Tasks : Call(t) \/ Step(t) \/ IoFails(t)
    \/ \E id \in Ids : Exits(id) \/ Respawns(id)
    \/ Reboot

Spec == Init /\ [][Next]_vars

-----------------------------------------------------------------------------
(***************************************************************************)
(* What one request does, in one step, if nothing fails                    *)
(***************************************************************************)
CreateAlone(w, k, p) ==
    IF \/ k.op = "create" /\ p \in w.dirs
       \/ w.file[p] # Absent
    THEN w
    ELSE [w EXCEPT
            !.dirs = @ \union {p},
            !.file[p] = [name |-> k.body.name, flags |-> Default],
            !.plugins[p] = IF k.op = "create" \/ @ # Absent THEN @ ELSE Empty,
            !.root = IF k.to = None THEN @ ELSE k.to,
            !.saved = IF k.to \in {None, w.root} THEN @ ELSE k.to]

PluginsAlone(w, k, p) ==
    LET jar == w.plugins[p]
    IN [w EXCEPT
          !.dirs = @ \union {p},
          !.plugins[p] = CASE k.op = "upload" -> Whole(k.body.jar)
                           [] k.op = "plugins" /\ jar # Absent -> jar
                           [] OTHER -> Empty]

Alone(w, k) ==
    LET p == <<IF k.op = "httpCreate" /\ k.to # None THEN k.to ELSE w.root, k.id>>
    IN CASE k.op \in Creates -> CreateAlone(w, k, p)
         [] k.op = "setRoot" -> [w EXCEPT !.root = k.to, !.saved = k.to]
         [] k.op = "remove" /\ w.on[k.id] # "on" ->
              [w EXCEPT !.dirs = @ \ {p}, !.file[p] = Absent,
                        !.plugins[p] = Absent]
         [] k.op \in Edits /\ w.file[p] \in Config ->
              [w EXCEPT !.file[p] = Patched(@, k.body)]
         [] k.op \in OnPlugins /\ w.file[p] \in Config -> PluginsAlone(w, k, p)
         [] k.op = "start" /\ w.file[p] \in Config /\ w.on[k.id] # "on" ->
              [w EXCEPT !.on[k.id] = "on", !.home[k.id] = p]
         [] OTHER -> w

-----------------------------------------------------------------------------
(***************************************************************************)
(* Properties                                                              *)
(***************************************************************************)
TypeOK ==
    /\ root \in Roots \union {Torn}
    /\ saved \in Roots \union {Torn, Absent, Empty}
    /\ dirs \in SUBSET Paths
    /\ file \in [Paths -> Config \union {Absent, Empty}]
    /\ plugins \in [Paths -> {Absent, Empty} \union JarFiles]
    /\ on \in [Ids -> {"off", "on", "down"}]
    /\ home \in [Ids -> Paths \union {None}]
    /\ \A t \in Tasks : /\ task[t].op \in Ops
                        /\ task[t].path \in Paths \union {None}
                        /\ task[t].fd \in {"shut", "open", "lost"}

\* A request that had the daemon to itself has done to the files, the root
\* and the processes what it promises, whatever its calls were in between:
\* only races and failures can lose an update, remove a running server or
\* overwrite a configuration.
AloneAsPromised ==
    AllIdle /\ solo # None => World = Alone(solo.was, solo.req)

\* Not the bytes of one upload; and bytes that no upload has written: a hole,
\* or the first part of a jar that is longer.
Mixed(jar) == jar \in JarFiles /\ \A j \in Jars : jar # Whole(j)
Holed(jar) == /\ jar \in JarFiles
              /\ jar.head = None \/ (jar.head \in Long /\ jar.tail = None)

\* An unreadable opd.json, or a jar with bytes missing, is either being written
\* at this moment or was cut off by a failed write or a crash: concurrent saves,
\* uploads, removals and creates never leave one behind.  A jar that nobody
\* writes is that of one upload, unless two had it open at once: those may leave
\* the head of one and the tail of the other.
PartialIsBeingWritten ==
    \A p \in Paths :
      /\ file[p] = Empty => p \in hurt \union OpenBy(Edits \union Creates)
      /\ Holed(plugins[p]) => p \in hurt \union OpenBy({"upload"})
      /\ Mixed(plugins[p]) => p \in hurt \union OpenBy({"upload"}) \union met

\* No file of the server, and nobody who may still write it.
Gone(id) ==
    /\ \A p \in Paths : p[2] = id => file[p] = Absent
    /\ \A t \in Tasks : task[t].id = id =>
          /\ task[t].op \notin Creates
          /\ task[t].op \in Edits => task[t].pc = "called"

\* One step: what is gone stays gone unless a create is under way.
OnlyCreateRevives ==
    \A id \in Ids : Gone(id) => Gone(id)' \/ \E t \in Tasks : task'[t].op \in Creates

\* Once the configuration of a removed server is gone and the requests that
\* had loaded it are over, only a create brings it back, however often the
\* directory is made again by a plugins request.
GoneUntilCreated == [][OnlyCreateRevives]_vars
=============================================================================
