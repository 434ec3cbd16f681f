------------------------ MODULE ConfigurationsProofs ------------------------
(***************************************************************************)
(* Proofs about Configurations, for every set of servers, of roots and of  *)
(* requests.  They rest on what each handler holds at each of its steps,   *)
(* on a file or a plugins directory never being without its server's       *)
(* directory, and on an open file having its directory entry until it is   *)
(* unlinked.                                                               *)
(***************************************************************************)
EXTENDS Configurations, TLAPS

Pcs == {"idle", "called", "loaded", "tested", "open", "half", "checked", "found",
        "emptied", "made", "assign", "assigned", "global", "encode"}

AnyBody == [name : Names \union {Keep}, jar : Jars \union {Keep},
            flags : Flags \union {Keep}]

Requests == [op : Ops, pc : Pcs, id : Ids \union {None},
             path : Paths \union {None}, body : AnyBody \union {None},
             to : Roots \union {Torn, None}, cfg : Config \union {None},
             fd : {"shut", "open", "lost"}]

Saves == Edits \union Creates

\* What a request holds at each of its steps.
HandOK(k) ==
    /\ k.pc # "idle" => k.id \in Ids /\ k.body \in AnyBody
    /\ k.pc # "idle" /\ k.op \in Creates =>
         k.body.name \in Names /\ k.body.flags = Default
    /\ k.pc \in {"tested", "loaded", "open", "half", "found", "emptied", "made"} =>
         k.path \in Paths /\ k.path[2] = k.id
    /\ k.op \in Saves /\ k.pc \in {"tested", "loaded", "open"} => k.cfg \in Config
    /\ k.op = "setRoot" \/ k.pc \in {"assign", "assigned", "global", "encode"} =>
         k.to \in Roots \union {Torn}
    /\ k.op \notin {"setRoot", "httpCreate"} => k.to = None
    /\ k.pc # "idle" /\ k.op = "upload" => k.body.jar \in Jars
    /\ k.fd # "shut" => k.pc \in {"open", "half"}

\* Which requests come to which steps.
WhereOK(k) ==
    /\ k.pc = "tested" => k.op \in Creates
    /\ k.pc = "loaded" => k.op \notin {"remove", "setRoot"}
    /\ k.pc = "open" => k.op \in Saves \union {"upload"}
    /\ k.pc = "half" => k.op = "upload" /\ k.body.jar \in Long
    /\ k.pc \in {"checked", "found", "emptied"} => k.op = "remove"
    /\ k.pc = "made" => k.op \in {"upload", "unplug"}
    /\ k.pc \in {"assign", "assigned", "global", "encode"} =>
         k.op \in {"setRoot", "httpCreate"}

TasksOK ==
    /\ task \in [Tasks -> Requests]
    /\ \A t \in Tasks : HandOK(task[t]) /\ WhereOK(task[t])

\* The request of t has p open, and what it writes will be found there.
Writes(t, p) == task[t].op \in Saves /\ task[t].fd = "open" /\ task[t].path = p

Uploads(t, p) ==
    task[t].op = "upload" /\ task[t].fd = "open" /\ task[t].path = p

\* A server's files are in its directory; an open file is one of them.
EntriesOK ==
    /\ \A p \in Paths :
         file[p] # Absent \/ plugins[p] # Absent => p \in dirs
    /\ \A t \in Tasks, p \in Paths :
         /\ Writes(t, p) => file[p] # Absent
         /\ Uploads(t, p) => plugins[p] \in JarFiles

\* The first part of PartialIsBeingWritten.
PartialOK ==
    \A p \in Paths :
        file[p] = Empty => p \in hurt \/ \E t \in Tasks : Writes(t, p)

\* A jar in which one part has been written.
WithHead(jar, j) == [jar EXCEPT !.head = j]
WithTail(jar, j) == [jar EXCEPT !.tail = j]

\* A jar without its head, and one that has no more than its head.
Headless(jar) == jar \in JarFiles /\ jar.head = None
Tailless(jar) == jar \in JarFiles /\ jar.head \in Long /\ jar.tail = None

\* What an upload that has had the jar to itself has made of it.
CopiedSoFar(t) == IF At(t, "open") THEN Truncated
                  ELSE WithHead(Truncated, task[t].body.jar)

\* The rest of it: which upload a part of a jar that is missing waits for, and
\* what becomes of a jar that no two uploads have had open at once.
JarOK(p) ==
    /\ Headless(plugins[p]) =>
         p \in hurt \/ \E t \in Tasks : Uploads(t, p) /\ At(t, "open")
    /\ Tailless(plugins[p]) =>
         p \in hurt \/ \E t \in Tasks : Uploads(t, p) /\ At(t, "half")
    /\ p \notin met =>
         /\ \A t, u \in Tasks : Uploads(t, p) /\ Uploads(u, p) => t = u
         /\ \A t \in Tasks : Uploads(t, p) => plugins[p] = CopiedSoFar(t)
         /\ plugins[p] \in JarFiles =>
              \/ p \in hurt
              \/ \E t \in Tasks : Uploads(t, p)
              \/ \E j \in Jars : plugins[p] = Whole(j)

JarsOK == \A p \in Paths : JarOK(p)

FilesOK == EntriesOK /\ PartialOK /\ JarsOK

-----------------------------------------------------------------------------
Worlds == [root : Roots \union {Torn}, saved : Roots \union {Torn, Absent, Empty},
           dirs : SUBSET Paths, file : [Paths -> Config \union {Absent, Empty}],
           plugins : [Paths -> {Absent, Empty} \union JarFiles],
           on : [Ids -> {"off", "on", "down"}], home : [Ids -> Paths \union {None}]]

\* Where the request k finds its server if it has the daemon w to itself.
Target(w, k) ==
    <<IF k.op = "httpCreate" /\ k.to # None THEN k.to ELSE w.root, k.id>>

\* What a request that had the daemon to itself began with.
BegunOK(w, k) ==
    /\ w \in Worlds /\ k \in Requests
    /\ \A p \in Paths : w.file[p] # Absent \/ w.plugins[p] # Absent => p \in w.dirs
    /\ k.pc = "called" /\ k.id \in Ids
    /\ k.op \notin {"setRoot", "httpCreate"} => k.to = None
    /\ k.op = "setRoot" => k.to \in Roots

\* What it found out on its way to the step n.pc.
FoundOK(w, k, n, p) ==
    /\ n.op = k.op /\ n.id = k.id /\ n.body = k.body /\ n.to = k.to
    /\ n.pc \in {"tested", "loaded", "open", "half", "found", "emptied", "made"} => n.path = p
    /\ n.pc # "called" /\ n.op = "remove" => w.on[k.id] # "on"
    /\ n.pc # "called" /\ n.op \in Creates =>
         /\ w.file[p] = Absent
         /\ n.op = "create" => p \notin w.dirs
         /\ n.pc \in {"tested", "loaded", "open"} =>
              n.cfg = [name |-> k.body.name, flags |-> Default]
    /\ n.pc # "called" /\ n.op \in Edits =>
         w.file[p] \in Config /\ n.cfg = Patched(w.file[p], k.body)
    /\ n.pc # "called" /\ n.op \in OnPlugins => w.file[p] \in Config
    /\ n.pc # "called" /\ n.op = "start" =>
         w.file[p] \in Config /\ w.on[k.id] # "on"
    /\ n.pc \in {"assign", "assigned", "global", "encode"} /\ n.op = "httpCreate" =>
         k.to \notin {None, w.root}
    /\ n.pc \in {"open", "half"} => n.fd = "open"

\* The steps of a create after its first, and of a plugins request after the
\* one that makes the directory.
Made(n) == \/ n.op \in Creates /\ n.pc \notin {"called", "tested"}
           \/ n.op \in OnPlugins /\ n.pc \in {"made", "open", "half"}

\* What it has done to the world w by the step n.pc.
DoneOK(w, k, n, p) ==
    /\ root = IF n.pc \in {"assigned", "global", "encode"} THEN k.to ELSE w.root
    /\ saved = IF n.pc \in {"global", "encode"} THEN Empty ELSE w.saved
    /\ dirs = IF Made(n) THEN w.dirs \union {p} ELSE w.dirs
    /\ file = CASE n.op \in Saves /\ n.pc = "open" -> [w.file EXCEPT ![p] = Empty]
                [] n.pc = "emptied" -> [w.file EXCEPT ![p] = Absent]
                [] n.op = "httpCreate"
                   /\ n.pc \in {"assign", "assigned", "global", "encode"} ->
                     [w.file EXCEPT ![p] = [name |-> k.body.name, flags |-> Default]]
                [] OTHER -> w.file
    /\ plugins = IF n.op = "upload" /\ n.pc \in {"open", "half"}
                 THEN [w.plugins EXCEPT ![p] =
                         IF n.pc = "open" THEN Truncated
                         ELSE WithHead(Truncated, k.body.jar)]
                 ELSE IF n.pc = "emptied" THEN [w.plugins EXCEPT ![p] = Absent]
                 ELSE IF Made(n) /\ n.op # "create" /\ w.plugins[p] = Absent
                 THEN [w.plugins EXCEPT ![p] = Empty] ELSE w.plugins
    /\ on = w.on /\ home = w.home

OthersIdle(t) == \A u \in Tasks \ {t} : At(u, "idle")

\* The request k, handled by t, is the only one since the world was w, and it
\* is halfway.
Halfway(t, w, k) ==
    /\ OthersIdle(t) /\ ~At(t, "idle")
    /\ FoundOK(w, k, task[t], Target(w, k))
    /\ DoneOK(w, k, task[t], Target(w, k))

Over(w, k) == AllIdle /\ World = Alone(w, k)

SoloOK ==
    solo # None =>
        /\ BegunOK(solo.was, solo.req)
        /\ \/ Over(solo.was, solo.req)
           \/ \E t \in Tasks : Halfway(t, solo.was, solo.req)

IInv == TypeOK /\ TasksOK /\ FilesOK /\ SoloOK

-----------------------------------------------------------------------------
(***************************************************************************)
(* Lemmas                                                                  *)
(***************************************************************************)
\* No file and an empty file are no configuration.
LEMMA AbsentIsNoConfig ==
    /\ Absent \notin Config /\ Empty \notin Config /\ Absent # Empty
    /\ {Absent, Empty} \intersect JarFiles = {}
BY ConfigurationsAssumption DEF Config, JarFiles

\* What uploads make of a jar are jars; the end of one that had it to itself
\* makes it whole, and nothing but a longer jar is missing a part after its head.
LEMMA JarParts ==
    /\ Truncated \in JarFiles /\ ~Tailless(Truncated)
    /\ \A j \in Jars :
         /\ Whole(j) \in JarFiles /\ j # None
         /\ WithHead(Truncated, j) \in JarFiles
         /\ j \notin Long => WithHead(Truncated, j) = Whole(j)
         /\ j \in Long => WithTail(WithHead(Truncated, j), j) = Whole(j)
         /\ ~Headless(Whole(j)) /\ ~Tailless(Whole(j))
         /\ \A x \in JarFiles :
              /\ WithHead(x, j) \in JarFiles
              /\ ~Headless(WithHead(x, j))
              /\ Tailless(WithHead(x, j)) => j \in Long
              /\ WithTail(x, j) \in JarFiles
              /\ ~Tailless(WithTail(x, j))
              /\ Headless(WithTail(x, j)) => Headless(x)
<1> DEFINE P == Jars \union {None}
           R(h, u) == [head |-> h, tail |-> u]
<1>1. None \notin Jars /\ Long \subseteq Jars
  BY ConfigurationsAssumption
<1>2. /\ \A h, u : R(h, u).head = h /\ R(h, u).tail = u
      /\ \A h \in P, u \in P : R(h, u) \in JarFiles
  BY DEF JarFiles
<1>3. \A x \in JarFiles : x.head \in P /\ x.tail \in P
  BY DEF JarFiles
<1>4. \A x \in JarFiles, j \in Jars : /\ WithHead(x, j) = R(j, x.tail)
                                      /\ WithTail(x, j) = R(x.head, j)
  BY DEF JarFiles, WithHead, WithTail
<1>5. /\ Truncated = R(None, None)
      /\ \A j \in Jars : Whole(j) = R(j, IF j \in Long THEN j ELSE None)
  BY DEF Truncated, Whole
<1> HIDE DEF R
<1>6. Truncated \in JarFiles /\ Truncated.head = None /\ Truncated.tail = None
  BY <1>2, <1>5
<1>7. ~Tailless(Truncated)
  BY <1>1, <1>6 DEF Tailless
<1>8. ASSUME NEW j \in Jars
      PROVE  /\ Whole(j) \in JarFiles /\ j # None
             /\ WithHead(Truncated, j) \in JarFiles
             /\ j \notin Long => WithHead(Truncated, j) = Whole(j)
             /\ j \in Long => WithTail(WithHead(Truncated, j), j) = Whole(j)
  <2>1. j \in P /\ None \in P /\ j # None
    BY <1>1
  <2>2. WithHead(Truncated, j) = R(j, None)
    BY <1>4, <1>6
  <2>3. R(j, None) \in JarFiles /\ R(j, None).head = j
    BY <1>2, <2>1
  <2>4. WithTail(R(j, None), j) = R(j, j)
    BY <1>4, <2>3
  <2>5. Whole(j) = R(j, IF j \in Long THEN j ELSE None)
    BY <1>5
  <2>6. CASE j \in Long
    <3>1. Whole(j) = R(j, j) /\ R(j, j) \in JarFiles
      BY <1>2, <2>1, <2>5, <2>6
    <3> QED
      BY <2>1, <2>2, <2>3, <2>4, <2>6, <3>1, Zenon
  <2>7. CASE j \notin Long
    <3>1. Whole(j) = R(j, None)
      BY <2>5, <2>7
    <3> QED
      BY <2>1, <2>2, <2>3, <2>7, <3>1, Zenon
  <2> QED
    BY <2>6, <2>7
<1>9. ASSUME NEW j \in Jars
      PROVE  ~Headless(Whole(j)) /\ ~Tailless(Whole(j))
  BY <1>1, <1>2, <1>5 DEF Headless, Tailless
<1>10. ASSUME NEW j \in Jars, NEW x \in JarFiles
       PROVE  /\ WithHead(x, j) \in JarFiles
              /\ ~Headless(WithHead(x, j))
              /\ Tailless(WithHead(x, j)) => j \in Long
              /\ WithTail(x, j) \in JarFiles
              /\ ~Tailless(WithTail(x, j))
              /\ Headless(WithTail(x, j)) => Headless(x)
  BY <1>1, <1>2, <1>3, <1>4 DEF Headless, Tailless
<1> QED
  BY <1>6, <1>7, <1>8, <1>9, <1>10

\* A configuration with some of its fields replaced is one.
LEMMA PatchedType ==
    ASSUME NEW cfg \in Config, NEW body \in AnyBody
    PROVE  Patched(cfg, body) \in Config
BY DEF Patched, Config, AnyBody

\* What a client sends has fields of their types, a create all of them.
LEMMA BodiesType ==
    ASSUME NEW op \in Ops, NEW body \in Bodies(op)
    PROVE  /\ body \in AnyBody
           /\ op \in Creates => body.name \in Names /\ body.flags = Default
           /\ op = "upload" => body.jar \in Jars
<1>1. Default \in Flags
  BY ConfigurationsAssumption
<1>2. CASE op \in Creates
  BY <1>1, <1>2 DEF Bodies, AnyBody, Creates
<1>3. CASE op \in Edits
  BY <1>1, <1>3 DEF Bodies, AnyBody, Creates, Edits
<1>4. CASE op \notin Creates \union Edits
  BY <1>1, <1>4 DEF Bodies, AnyBody, Creates, Edits
<1> QED
  BY <1>2, <1>3, <1>4

\* Whatever a request sees of the root, it is a root or a torn one.
LEMMA SeenType ==
    ASSUME TypeOK, TasksOK, NEW t \in Tasks, ~At(t, "idle")
    PROVE  /\ SeenRoots \subseteq Roots \union {Torn}
           /\ SeenPaths(t) \subseteq Paths
           /\ \A p \in SeenPaths(t) : p[2] = task[t].id
<1>1. \A u \in Tasks : task[u].pc = "assign" => task[u].to \in Roots \union {Torn}
  BY DEF TasksOK, HandOK
<1>2. SeenRoots \subseteq Roots \union {Torn}
  BY <1>1 DEF SeenRoots, TypeOK
<1>3. task[t].id \in Ids
  BY DEF TasksOK, HandOK, At
<1> QED
  BY <1>2, <1>3 DEF SeenPaths, Paths

\* A request that waits for its turn holds nothing.
LEMMA IdleOK == Idle \in Requests /\ HandOK(Idle) /\ WhereOK(Idle)
BY DEF Idle, Requests, HandOK, WhereOK, Ops, Edits, Creates, OnPlugins, Saves, Pcs

\* The others are where they were.
OthersStay(t) == \A u \in Tasks \ {t} : task'[u] = task[u]

\* The request of t keeps what it is.
Same(t) ==
    /\ task'[t].op = task[t].op /\ task'[t].id = task[t].id
    /\ task'[t].body = task[t].body

\* A request that returns leaves the others as they are.
LEMMA Returns ==
    ASSUME TasksOK, NEW t \in Tasks, Return(t)
    PROVE  /\ task' \in [Tasks -> Requests]
           /\ task'[t] = Idle /\ OthersStay(t) /\ TasksOK'
<1>1. task' \in [Tasks -> Requests] /\ task'[t] = Idle /\ OthersStay(t)
  BY IdleOK DEF Return, OthersStay, TasksOK
<1> QED
  BY <1>1, IdleOK DEF OthersStay, TasksOK

\* If one request is in order and the others stay, all are.
LEMMA TasksKeep ==
    ASSUME TasksOK, NEW t \in Tasks, OthersStay(t), task' \in [Tasks -> Requests],
           HandOK(task'[t]), WhereOK(task'[t])
    PROVE  TasksOK'
BY DEF TasksOK, OthersStay

\* The fields of a request that goes on to pc and keeps the rest.
LEMMA Goes ==
    ASSUME TasksOK, NEW t \in Tasks, NEW pc \in Pcs, Goto(t, pc)
    PROVE  /\ task' \in [Tasks -> Requests] /\ OthersStay(t)
           /\ task'[t].pc = pc
           /\ task'[t].op = task[t].op /\ task'[t].id = task[t].id
           /\ task'[t].path = task[t].path /\ task'[t].body = task[t].body
           /\ task'[t].to = task[t].to /\ task'[t].cfg = task[t].cfg
           /\ task'[t].fd = task[t].fd
BY DEF Goto, TasksOK, Requests, OthersStay

\* One request changes as a whole.
LEMMA StepsTo ==
    ASSUME TasksOK, NEW t \in Tasks, NEW n \in Requests,
           task' = [task EXCEPT ![t] = n]
    PROVE  task' \in [Tasks -> Requests] /\ OthersStay(t) /\ task'[t] = n
BY DEF TasksOK, OthersStay

\* The fields of one that has found the directory p.
LEMMA Finds ==
    ASSUME TasksOK, NEW t \in Tasks, NEW pc \in Pcs, NEW p \in Paths,
           task' = [task EXCEPT ![t].pc = pc, ![t].path = p]
    PROVE  /\ task' \in [Tasks -> Requests] /\ Same(t)
           /\ task'[t].pc = pc /\ task'[t].path = p
           /\ task'[t].to = task[t].to /\ task'[t].fd = task[t].fd
<1> DEFINE k == task[t]
           n == [k EXCEPT !.pc = pc, !.path = p]
<1>1. k \in Requests /\ task \in [Tasks -> Requests] /\ task' = [task EXCEPT ![t] = n]
  BY DEF TasksOK
<1> HIDE DEF k
<1>2. /\ n \in Requests /\ n.pc = pc /\ n.path = p
      /\ n.op = k.op /\ n.id = k.id /\ n.body = k.body
      /\ n.to = k.to /\ n.fd = k.fd
  BY <1>1 DEF Requests
<1> HIDE DEF n
<1>3. task'[t] = n /\ task' \in [Tasks -> Requests]
  BY <1>1, <1>2
<1> QED
  BY <1>2, <1>3 DEF Same, k

\* The fields of one that has read the root r.
LEMMA ReadsRoot ==
    ASSUME TasksOK, NEW t \in Tasks, NEW pc \in Pcs, NEW r \in Roots \union {Torn},
           task' = [task EXCEPT ![t].pc = pc, ![t].to = r]
    PROVE  /\ task' \in [Tasks -> Requests] /\ Same(t)
           /\ task'[t].pc = pc /\ task'[t].to = r /\ task'[t].fd = task[t].fd
<1> DEFINE k == task[t]
           n == [k EXCEPT !.pc = pc, !.to = r]
<1>1. k \in Requests /\ task \in [Tasks -> Requests] /\ task' = [task EXCEPT ![t] = n]
  BY DEF TasksOK
<1> HIDE DEF k
<1>2. /\ n \in Requests /\ n.pc = pc /\ n.to = r
      /\ n.op = k.op /\ n.id = k.id /\ n.body = k.body /\ n.fd = k.fd
  BY <1>1 DEF Requests
<1> HIDE DEF n
<1>3. task'[t] = n /\ task' \in [Tasks -> Requests]
  BY <1>1, <1>2
<1> QED
  BY <1>2, <1>3 DEF Same, k

\* To unlink files of p changes nothing in a request but that its open file
\* may be lost.
LEMMA UnlinkedType ==
    ASSUME task \in [Tasks -> Requests], NEW p, NEW ops,
           NEW U, U = Unlinked(p, ops)
    PROVE  /\ U \in [Tasks -> Requests]
           /\ \A u \in Tasks :
                /\ U[u].op = task[u].op /\ U[u].id = task[u].id
                /\ U[u].pc = task[u].pc /\ U[u].body = task[u].body
                /\ U[u].to = task[u].to /\ U[u].cfg = task[u].cfg
                /\ U[u].path = task[u].path
                /\ U[u].fd # "open" => U[u].fd = "shut" <=> task[u].fd = "shut"
                /\ U[u].fd = "open" =>
                     /\ task[u].fd = "open"
                     /\ ~(task[u].path = p /\ task[u].op \in ops)
                /\ task[u].fd = "open" /\ U[u].fd # "open" =>
                     task[u].path = p /\ task[u].op \in ops
<1> DEFINE Loses(u) == task[u].path = p /\ task[u].fd = "open" /\ task[u].op \in ops
           Lost(u)  == [task[u] EXCEPT !.fd = "lost"]
<1>1. \A u \in Tasks : U[u] = IF Loses(u) THEN Lost(u) ELSE task[u]
  BY DEF Unlinked
<1> HIDE DEF Loses, Lost
<1>2. ASSUME NEW u \in Tasks, Loses(u)
      PROVE  U[u] = Lost(u) /\ task[u] \in Requests
  BY <1>1, <1>2
<1>3. ASSUME NEW u \in Tasks, ~Loses(u)
      PROVE  U[u] = task[u] /\ task[u] \in Requests
  BY <1>1, <1>3
<1>4. \A u \in Tasks : U[u] \in Requests
  <2>1. \A u \in Tasks : Lost(u) \in Requests
    BY DEF Requests, Lost
  <2> QED  BY <1>2, <1>3, <2>1
<1>5. U \in [Tasks -> Requests]
  BY <1>4 DEF Unlinked
<1> QED
  BY <1>2, <1>3, <1>5 DEF Requests, Loses, Lost

-----------------------------------------------------------------------------
(***************************************************************************)
(* Types, and what requests hold                                           *)
(***************************************************************************)
\* The daemon starts in a state of the invariant.
LEMMA InitIInv == Init => IInv
<1> SUFFICES ASSUME Init  PROVE IInv
  OBVIOUS
<1> USE ConfigurationsAssumption DEF Init
<1>1. TypeOK
  <2>1. dirs \subseteq Paths /\ dirs \in SUBSET Paths
    BY DEF Paths
  <2>2. file \in [Paths -> Config \union {Absent, Empty}]
    BY DEF Config
  <2>3. task \in [Tasks -> Requests]
    BY IdleOK
  <2> QED  BY <2>1, <2>2, <2>3 DEF TypeOK, Requests
<1>2. TasksOK
  BY IdleOK DEF TasksOK
<1>3. EntriesOK
  BY AbsentIsNoConfig DEF EntriesOK, Writes, Uploads, Idle
<1>4. PartialOK
  <2>1. PICK n \in Names : file = [p \in Paths |-> IF p \in dirs
                   THEN [name |-> n, flags |-> Default] ELSE Absent]
    OBVIOUS
  <2>2. [name |-> n, flags |-> Default] \in Config
    BY DEF Config
  <2>3. \A p \in Paths : file[p] # Empty
    BY <2>1, <2>2, AbsentIsNoConfig
  <2> QED  BY <2>3 DEF PartialOK
<1>5. JarsOK
  <2>1. \A p \in Paths : plugins[p] \notin JarFiles
    BY AbsentIsNoConfig
  <2>2. \A t \in Tasks, p \in Paths : ~Uploads(t, p)
    BY DEF Uploads, Idle
  <2> QED  BY <2>1, <2>2 DEF JarsOK, JarOK, Headless, Tailless
<1>6. SoloOK
  BY DEF SoloOK
<1> QED
  BY <1>1, <1>2, <1>3, <1>4, <1>5, <1>6 DEF IInv, FilesOK

\* What the handlers that take a step of their own make of their request.
LEMMA LoadMoves ==
    ASSUME TypeOK, TasksOK, NEW t \in Tasks, Load(t)
    PROVE  /\ task' \in [Tasks -> Requests] /\ OthersStay(t) /\ Same(t)
           /\ task'[t].pc = "loaded" /\ task'[t].path \in SeenPaths(t)
           /\ file[task'[t].path] \in Config
           /\ task'[t].cfg = Patched(file[task'[t].path], task[t].body)
           /\ task'[t].to = task[t].to /\ task'[t].fd = task[t].fd
           /\ TasksOK'
<1>1. PICK p \in SeenPaths(t) :
        /\ file[p] \in Config
        /\ task' = [task EXCEPT ![t].pc = "loaded", ![t].path = p,
                                ![t].cfg = Patched(file[p], task[t].body)]
  BY DEF Load
<1>2. task[t].pc = "called" /\ task[t].op \notin Creates \union {"remove", "setRoot"}
  BY DEF Load, At
<1>3. task[t] \in Requests /\ HandOK(task[t]) /\ WhereOK(task[t])
  BY DEF TasksOK
<1>4. p \in Paths /\ p[2] = task[t].id
  BY <1>2, SeenType DEF At
<1>5. PICK c \in Config : c = Patched(file[p], task[t].body)
  BY <1>1, <1>2, <1>3, PatchedType DEF HandOK
<1>6. "loaded" \in Pcs
  BY DEF Pcs
<1>7. /\ task' \in [Tasks -> Requests] /\ OthersStay(t) /\ Same(t)
      /\ task'[t].pc = "loaded" /\ task'[t].path = p /\ task'[t].cfg = c
      /\ task'[t].to = task[t].to /\ task'[t].fd = task[t].fd
  <2>1. PICK n : n = [task[t] EXCEPT !.pc = "loaded", !.path = p, !.cfg = c]
    OBVIOUS
  <2>2. /\ n \in Requests /\ n.pc = "loaded" /\ n.path = p /\ n.cfg = c
        /\ n.op = task[t].op /\ n.id = task[t].id /\ n.body = task[t].body
        /\ n.to = task[t].to /\ n.fd = task[t].fd
    <3>1. PICK k \in Requests : k = task[t]
      BY <1>3
    <3>2. n = [k EXCEPT !.pc = "loaded", !.path = p, !.cfg = c]
      BY <2>1, <3>1
    <3>3. /\ n \in Requests /\ n.pc = "loaded" /\ n.path = p /\ n.cfg = c
          /\ n.op = k.op /\ n.id = k.id /\ n.body = k.body
          /\ n.to = k.to /\ n.fd = k.fd
      BY <1>4, <1>6, <3>2 DEF Requests
    <3> QED  BY <3>1, <3>3
  <2>3. task' = [task EXCEPT ![t] = n]
    BY <1>1, <1>5, <2>1
  <2>4. task' \in [Tasks -> Requests] /\ OthersStay(t) /\ task'[t] = n
    BY <2>2, <2>3, StepsTo
  <2> QED  BY <2>2, <2>4 DEF Same
<1>8. HandOK(task'[t]) /\ WhereOK(task'[t])
  BY <1>2, <1>3, <1>4, <1>5, <1>7 DEF HandOK, WhereOK, Same
<1>9. TasksOK'
  BY <1>7, <1>8, TasksKeep
<1> QED
  BY <1>1, <1>5, <1>7, <1>9

\* A create that found no configuration goes on to make one, or returns.
LEMMA CreateMoves ==
    ASSUME TypeOK, TasksOK, NEW t \in Tasks, CreateTests(t)
    PROVE  /\ task' \in [Tasks -> Requests] /\ OthersStay(t) /\ TasksOK'
           /\ \E p \in IF task[t].to = None THEN SeenPaths(t)
                                            ELSE {<<task[t].to, task[t].id>>} :
                \/ Exists(t, p) /\ task'[t] = Idle
                \/ /\ ~Exists(t, p) /\ Same(t)
                   /\ task'[t].pc = "tested" /\ task'[t].path = p
                   /\ task'[t].cfg = [name |-> task[t].body.name, flags |-> Default]
                   /\ task'[t].to = task[t].to /\ task'[t].fd = task[t].fd
<1> DEFINE Where == IF task[t].to = None THEN SeenPaths(t)
                                         ELSE {<<task[t].to, task[t].id>>}
<1>1. PICK p \in Where :
        task' = [task EXCEPT ![t] =
                   IF Exists(t, p) THEN Idle
                   ELSE [@ EXCEPT !.pc = "tested", !.path = p,
                           !.cfg = [name |-> task[t].body.name, flags |-> Default]]]
  BY DEF CreateTests
<1>2. task[t].pc = "called" /\ task[t].op \in Creates
  BY DEF CreateTests, At
<1>3. task[t] \in Requests /\ HandOK(task[t]) /\ WhereOK(task[t])
  BY DEF TasksOK
<1>4. p \in Paths /\ p[2] = task[t].id
  <2>1. CASE task[t].to = None
    BY <1>2, <2>1, SeenType DEF At
  <2>2. CASE task[t].to # None
    BY <1>2, <1>3, <2>2 DEF HandOK, Requests, Paths
  <2> QED  BY <2>1, <2>2
<1>5. [name |-> task[t].body.name, flags |-> Default] \in Config
  BY <1>2, <1>3, ConfigurationsAssumption DEF HandOK, Config
<1>6. OthersStay(t)
  BY <1>1 DEF OthersStay, TasksOK
<1>7. CASE Exists(t, p)
  <2>1. task' \in [Tasks -> Requests] /\ task'[t] = Idle
    BY <1>1, <1>7, IdleOK DEF TasksOK
  <2>2. TasksOK'
    BY <1>6, <2>1, IdleOK, TasksKeep
  <2> QED  BY <1>1, <1>6, <1>7, <2>1, <2>2
<1>8. CASE ~Exists(t, p)
  <2>1. PICK c \in Config : c = [name |-> task[t].body.name, flags |-> Default]
    BY <1>5
  <2>2. PICK n : n = [task[t] EXCEPT !.pc = "tested", !.path = p, !.cfg = c]
    OBVIOUS
  <2>3. /\ n \in Requests /\ n.pc = "tested" /\ n.path = p /\ n.cfg = c
        /\ n.op = task[t].op /\ n.id = task[t].id /\ n.body = task[t].body
        /\ n.to = task[t].to /\ n.fd = task[t].fd
    <3>1. PICK k \in Requests : k = task[t]
      BY <1>3
    <3>2. n = [k EXCEPT !.pc = "tested", !.path = p, !.cfg = c] /\ "tested" \in Pcs
      BY <2>2, <3>1 DEF Pcs
    <3>3. /\ n \in Requests /\ n.pc = "tested" /\ n.path = p /\ n.cfg = c
          /\ n.op = k.op /\ n.id = k.id /\ n.body = k.body
          /\ n.to = k.to /\ n.fd = k.fd
      BY <1>4, <3>2 DEF Requests
    <3> QED  BY <3>1, <3>3
  <2>4. /\ task' \in [Tasks -> Requests] /\ Same(t)
        /\ task'[t].pc = "tested" /\ task'[t].path = p /\ task'[t].cfg = c
        /\ task'[t].to = task[t].to /\ task'[t].fd = task[t].fd
    <3>1. task' = [task EXCEPT ![t] = n]
      BY <1>1, <1>8, <2>1, <2>2
    <3>2. task' \in [Tasks -> Requests] /\ task'[t] = n
      BY <2>3, <3>1, StepsTo
    <3> QED  BY <2>3, <3>2 DEF Same
  <2>5. HandOK(task'[t]) /\ WhereOK(task'[t])
    BY <1>2, <1>3, <1>4, <2>4 DEF HandOK, WhereOK, Same, Creates
  <2>6. TasksOK'
    BY <1>6, <2>4, <2>5, TasksKeep
  <2> QED  BY <1>6, <1>8, <2>1, <2>4, <2>6
<1> QED
  BY <1>7, <1>8

\* A save goes to a path of the server it is for.
LEMMA SavePathsType ==
    ASSUME TypeOK, TasksOK, NEW t \in Tasks, At(t, "loaded")
    PROVE  /\ SavePaths(t) \subseteq Paths
           /\ \A p \in SavePaths(t) : p[2] = task[t].id
<1>1. task[t].path \in Paths /\ task[t].path[2] = task[t].id
  BY DEF TasksOK, HandOK, At
<1>2. SeenPaths(t) \subseteq Paths /\ \A p \in SeenPaths(t) : p[2] = task[t].id
  BY SeenType DEF At
<1> QED
  BY <1>1, <1>2 DEF SavePaths

\* A request with a file open at p.
LEMMA Opened ==
    ASSUME NEW k \in Requests, NEW p \in Paths
    PROVE  LET n == [k EXCEPT !.pc = "open", !.path = p, !.fd = "open"]
           IN /\ n \in Requests /\ n.pc = "open" /\ n.path = p /\ n.fd = "open"
              /\ n.op = k.op /\ n.id = k.id /\ n.body = k.body
              /\ n.cfg = k.cfg /\ n.to = k.to
<1>1. "open" \in Pcs
  BY DEF Pcs
<1> QED
  BY <1>1 DEF Requests

\* os.Create of a save opens the file at one path, or none.
LEMMA SaveMoves ==
    ASSUME TypeOK, TasksOK, NEW t \in Tasks, SaveCreates(t)
    PROVE  \E p \in SavePaths(t) \intersect dirs :
             /\ file' = [file EXCEPT ![p] = Empty] /\ p \in Paths
             /\ task' \in [Tasks -> Requests] /\ OthersStay(t) /\ Same(t)
             /\ task'[t].pc = "open" /\ task'[t].path = p
             /\ task'[t].fd = "open" /\ task'[t].cfg = task[t].cfg
             /\ task'[t].to = task[t].to /\ TasksOK'
<1>1. PICK p \in SavePaths(t) \intersect dirs :
        /\ file' = [file EXCEPT ![p] = Empty]
        /\ task' = [task EXCEPT ![t].pc = "open", ![t].path = p, ![t].fd = "open"]
  BY DEF SaveCreates
<1>2. task[t].pc = "loaded" /\ task[t].op \in Saves
  BY DEF SaveCreates, At, Saves
<1>3. p \in Paths /\ p[2] = task[t].id
  BY <1>2, SavePathsType DEF At
<1>4. OthersStay(t)
  BY <1>1 DEF OthersStay, TasksOK
<1>5. "open" \in Pcs
  BY DEF Pcs
<1>6. /\ task' \in [Tasks -> Requests] /\ Same(t)
      /\ task'[t].pc = "open" /\ task'[t].path = p
      /\ task'[t].fd = "open" /\ task'[t].cfg = task[t].cfg
      /\ task'[t].to = task[t].to
  <2>1. task[t] \in Requests /\ task \in [Tasks -> Requests]
    BY DEF TasksOK
  <2>2. PICK k : k = [task[t] EXCEPT !.pc = "open", !.path = p, !.fd = "open"]
    OBVIOUS
  <2>3. /\ k \in Requests /\ k.pc = "open" /\ k.path = p /\ k.fd = "open"
        /\ k.op = task[t].op /\ k.id = task[t].id /\ k.body = task[t].body
        /\ k.cfg = task[t].cfg /\ k.to = task[t].to
    BY <1>3, <2>1, <2>2, Opened
  <2>4. task' = [task EXCEPT ![t] = k]
    BY <1>1, <2>1, <2>2
  <2> QED  BY <2>1, <2>3, <2>4 DEF Same
<1>7. task[t] \in Requests /\ HandOK(task[t]) /\ WhereOK(task[t])
  BY DEF TasksOK
<1>8. HandOK(task'[t]) /\ WhereOK(task'[t])
  BY <1>2, <1>3, <1>6, <1>7 DEF HandOK, WhereOK, Same
<1>9. TasksOK'
  BY <1>4, <1>6, <1>8, TasksKeep
<1> QED
  BY <1>1, <1>3, <1>4, <1>6, <1>9

\* A save is over, or SetServersRoot follows it.
LEMMA EncodeMoves ==
    ASSUME TypeOK, TasksOK, NEW t \in Tasks, SaveEncodes(t)
    PROVE  /\ task' \in [Tasks -> Requests] /\ OthersStay(t) /\ TasksOK'
           /\ \E r \in SeenRoots :
                \/ task[t].to \in {None, r} /\ task'[t] = Idle
                \/ /\ task[t].to \notin {None, r} /\ Same(t)
                   /\ task'[t].pc = "assign" /\ task'[t].fd = "shut"
                   /\ task'[t].to = task[t].to
<1>1. PICK r \in SeenRoots :
        IF task[t].to \in {None, r} THEN Return(t)
        ELSE task' = [task EXCEPT ![t].pc = "assign", ![t].fd = "shut"]
  BY DEF SaveEncodes
<1>2. task[t].pc = "open" /\ task[t].op \in Saves
  BY DEF SaveEncodes, At, Saves
<1>3. CASE task[t].to \in {None, r}
  BY <1>1, <1>3, Returns
<1>4. CASE task[t].to \notin {None, r}
  <2>1. OthersStay(t)
    BY <1>1, <1>4 DEF OthersStay, TasksOK
  <2>2. "assign" \in Pcs
    BY DEF Pcs
  <2>3. /\ task' \in [Tasks -> Requests] /\ Same(t)
        /\ task'[t].pc = "assign" /\ task'[t].fd = "shut"
        /\ task'[t].to = task[t].to
    BY <1>1, <1>4, <2>2 DEF TasksOK, Requests, Same
  <2>4. task[t] \in Requests /\ HandOK(task[t]) /\ WhereOK(task[t])
    BY DEF TasksOK
  <2>5. task[t].op \in {"setRoot", "httpCreate"}
    BY <1>2, <1>4, <2>4 DEF HandOK, Saves
  <2>6. HandOK(task'[t]) /\ WhereOK(task'[t])
    BY <1>2, <1>4, <2>3, <2>4, <2>5 DEF HandOK, WhereOK, Same, Requests
  <2>7. TasksOK'
    BY <2>1, <2>3, <2>6, TasksKeep
  <2> QED  BY <1>4, <2>1, <2>3, <2>7
<1> QED
  BY <1>3, <1>4

\* A Remove holds the directory it has found.
LEMMA FindMoves ==
    ASSUME TypeOK, TasksOK, NEW t \in Tasks, RemoveFinds(t)
    PROVE  /\ task' \in [Tasks -> Requests] /\ OthersStay(t) /\ TasksOK'
           /\ \E p \in SeenPaths(t) :
                \/ p \notin dirs /\ task'[t] = Idle
                \/ /\ p \in dirs /\ Same(t)
                   /\ task'[t].pc = "found" /\ task'[t].path = p
                   /\ task'[t].to = task[t].to
<1>1. PICK p \in SeenPaths(t) :
        task' = [task EXCEPT ![t] = IF p \notin dirs THEN Idle
                                    ELSE [@ EXCEPT !.pc = "found", !.path = p]]
  BY DEF RemoveFinds
<1>2. task[t].pc = "checked"
  BY DEF RemoveFinds, At
<1>3. task[t] \in Requests /\ HandOK(task[t]) /\ WhereOK(task[t])
  BY DEF TasksOK
<1>4. p \in Paths /\ p[2] = task[t].id
  BY <1>2, SeenType DEF At
<1>5. OthersStay(t)
  BY <1>1 DEF OthersStay, TasksOK
<1>6. CASE p \notin dirs
  <2>1. task' \in [Tasks -> Requests] /\ task'[t] = Idle
    BY <1>1, <1>6, IdleOK DEF TasksOK
  <2>2. TasksOK'
    BY <1>5, <2>1, IdleOK, TasksKeep
  <2> QED  BY <1>5, <1>6, <2>1, <2>2
<1>7. CASE p \in dirs
  <2>1. "found" \in Pcs
    BY DEF Pcs
  <2>2. task' = [task EXCEPT ![t].pc = "found", ![t].path = p]
    BY <1>1, <1>7 DEF TasksOK
  <2>3. /\ task' \in [Tasks -> Requests] /\ Same(t)
        /\ task'[t].pc = "found" /\ task'[t].path = p
        /\ task'[t].to = task[t].to /\ task'[t].fd = task[t].fd
    BY <1>4, <2>1, <2>2, Finds
  <2>4. HandOK(task'[t]) /\ WhereOK(task'[t])
    BY <1>2, <1>3, <1>4, <2>3 DEF HandOK, WhereOK, Same, Creates, Saves, Edits
  <2>5. TasksOK'
    BY <1>5, <2>3, <2>4, TasksKeep
  <2> QED  BY <1>5, <1>7, <2>3, <2>5
<1> QED
  BY <1>6, <1>7

\* An upload opens its jar, or returns.
LEMMA UploadMoves ==
    ASSUME TypeOK, TasksOK, NEW t \in Tasks, UploadCreates(t)
    PROVE  /\ task' \in [Tasks -> Requests] /\ OthersStay(t) /\ TasksOK'
           /\ task[t].path \in Paths
           /\ \/ /\ plugins[task[t].path] = Absent /\ plugins' = plugins
                 /\ task'[t] = Idle
              \/ /\ plugins[task[t].path] # Absent
                 /\ plugins' = [plugins EXCEPT ![task[t].path] = Truncated]
                 /\ Same(t) /\ task'[t].pc = "open" /\ task'[t].fd = "open"
                 /\ task'[t].path = task[t].path /\ task'[t].to = task[t].to
<1>1. task[t].pc = "made" /\ task[t].op = "upload"
  BY DEF UploadCreates, At
<1>2. task[t] \in Requests /\ HandOK(task[t]) /\ WhereOK(task[t])
  BY DEF TasksOK
<1>3. task[t].path \in Paths
  BY <1>1, <1>2 DEF HandOK
<1>4. CASE plugins[task[t].path] = Absent
  BY <1>3, <1>4, Returns DEF UploadCreates
<1>5. CASE plugins[task[t].path] # Absent
  <2>1. /\ plugins' = [plugins EXCEPT ![task[t].path] = Truncated]
        /\ task' = [task EXCEPT ![t].pc = "open", ![t].fd = "open"]
    BY <1>5 DEF UploadCreates
  <2>2. OthersStay(t)
    BY <2>1 DEF OthersStay, TasksOK
  <2>3. "open" \in Pcs
    BY DEF Pcs
  <2>4. /\ task' \in [Tasks -> Requests] /\ Same(t)
        /\ task'[t].pc = "open" /\ task'[t].fd = "open"
        /\ task'[t].path = task[t].path /\ task'[t].to = task[t].to
    BY <2>1, <2>3 DEF TasksOK, Requests, Same
  <2>5. HandOK(task'[t]) /\ WhereOK(task'[t])
    BY <1>1, <1>2, <2>4 DEF HandOK, WhereOK, Same, Creates, Saves, Edits
  <2>6. TasksOK'
    BY <2>2, <2>4, <2>5, TasksKeep
  <2> QED  BY <1>3, <1>5, <2>1, <2>2, <2>4, <2>6
<1> QED
  BY <1>4, <1>5

\* What a call of the copy makes of the request and of the jar.
LEMMA CopyMoves ==
    ASSUME TypeOK, TasksOK, NEW t \in Tasks, UploadCopies(t)
    PROVE  /\ task[t].op = "upload" /\ task[t].path \in Paths
           /\ task[t].body.jar \in Jars /\ task[t].pc \in {"open", "half"}
           /\ task' \in [Tasks -> Requests] /\ OthersStay(t) /\ TasksOK'
           /\ dirs' = dirs /\ file' = file
           /\ plugins' = IF task[t].fd # "open" THEN plugins
                         ELSE IF task[t].pc = "open"
                         THEN [plugins EXCEPT ![task[t].path] = WithHead(@, task[t].body.jar)]
                         ELSE [plugins EXCEPT ![task[t].path] = WithTail(@, task[t].body.jar)]
           /\ \/ /\ task[t].pc = "open" /\ task[t].body.jar \in Long
                 /\ Same(t) /\ task'[t].pc = "half" /\ task'[t].path = task[t].path
                 /\ task'[t].to = task[t].to /\ task'[t].fd = task[t].fd
              \/ /\ task[t].pc = "open" => task[t].body.jar \notin Long
                 /\ Return(t) /\ task'[t] = Idle
<1>1. /\ task[t].op = "upload" /\ task[t].pc \in {"open", "half"}
      /\ dirs' = dirs /\ file' = file
  BY DEF UploadCopies, At
<1>2. task[t] \in Requests /\ HandOK(task[t]) /\ WhereOK(task[t])
  BY DEF TasksOK
<1>3. task[t].path \in Paths /\ task[t].body.jar \in Jars
  BY <1>1, <1>2 DEF HandOK
<1>4. plugins' = IF task[t].fd # "open" THEN plugins
                 ELSE IF task[t].pc = "open"
                 THEN [plugins EXCEPT ![task[t].path] = WithHead(@, task[t].body.jar)]
                 ELSE [plugins EXCEPT ![task[t].path] = WithTail(@, task[t].body.jar)]
  BY DEF UploadCopies, At, WithHead, WithTail
<1>5. \/ task[t].pc = "open" /\ task[t].body.jar \in Long /\ Goto(t, "half")
      \/ (task[t].pc = "open" => task[t].body.jar \notin Long) /\ Return(t)
  BY DEF UploadCopies, At
<1>6. CASE task[t].pc = "open" /\ task[t].body.jar \in Long /\ Goto(t, "half")
  <2>1. "half" \in Pcs
    BY DEF Pcs
  <2>2. /\ task' \in [Tasks -> Requests] /\ OthersStay(t) /\ task'[t].pc = "half"
        /\ task'[t].op = task[t].op /\ task'[t].id = task[t].id
        /\ task'[t].path = task[t].path /\ task'[t].body = task[t].body
        /\ task'[t].to = task[t].to /\ task'[t].cfg = task[t].cfg
        /\ task'[t].fd = task[t].fd
    BY <1>6, <2>1, Goes
  <2>3. HandOK(task'[t]) /\ WhereOK(task'[t])
    BY <1>1, <1>2, <1>6, <2>2 DEF HandOK, WhereOK, Creates, Saves, Edits
  <2>4. TasksOK'
    BY <2>2, <2>3, TasksKeep
  <2> QED  BY <1>1, <1>3, <1>4, <1>6, <2>2, <2>4 DEF Same
<1>7. CASE (task[t].pc = "open" => task[t].body.jar \notin Long) /\ Return(t)
  BY <1>1, <1>3, <1>4, <1>7, Returns
<1> QED
  BY <1>5, <1>6, <1>7

\* The save of the root goes on with the root it has read.
LEMMA GlobalMoves ==
    ASSUME TypeOK, TasksOK, NEW t \in Tasks, GlobalReads(t)
    PROVE  /\ task' \in [Tasks -> Requests] /\ OthersStay(t) /\ TasksOK'
           /\ Same(t) /\ task'[t].pc = "encode" /\ task'[t].to \in SeenRoots
           /\ task'[t].fd = task[t].fd
<1>1. PICK r \in SeenRoots : task' = [task EXCEPT ![t].pc = "encode", ![t].to = r]
  BY DEF GlobalReads
<1>2. task[t].pc = "global"
  BY DEF GlobalReads, At
<1>3. task[t] \in Requests /\ HandOK(task[t]) /\ WhereOK(task[t])
  BY DEF TasksOK
<1>4. r \in Roots \union {Torn}
  BY <1>2, SeenType DEF At
<1>5. OthersStay(t)
  BY <1>1 DEF OthersStay, TasksOK
<1>6. "encode" \in Pcs
  BY DEF Pcs
<1>7. /\ task' \in [Tasks -> Requests] /\ Same(t)
      /\ task'[t].pc = "encode" /\ task'[t].to = r /\ task'[t].fd = task[t].fd
  BY <1>1, <1>4, <1>6, ReadsRoot
<1>8. HandOK(task'[t]) /\ WhereOK(task'[t])
  BY <1>2, <1>3, <1>4, <1>7 DEF HandOK, WhereOK, Same
<1>9. TasksOK'
  BY <1>5, <1>7, <1>8, TasksKeep
<1> QED
  BY <1>5, <1>7, <1>9

\* The others stay where they are, but for files of p they have open.
OthersUnlinked(t, p, ops) ==
    \A u \in Tasks \ {t} :
        /\ task'[u].op = task[u].op /\ task'[u].id = task[u].id
        /\ task'[u].pc = task[u].pc /\ task'[u].body = task[u].body
        /\ task'[u].to = task[u].to /\ task'[u].cfg = task[u].cfg
        /\ task'[u].path = task[u].path
        /\ task'[u].fd # "open" => task'[u].fd = "shut" <=> task[u].fd = "shut"
        /\ task'[u].fd = "open" =>
             task[u].fd = "open" /\ ~(task[u].path = p /\ task[u].op \in ops)
        /\ task[u].fd = "open" /\ task'[u].fd # "open" =>
             task[u].path = p /\ task[u].op \in ops

\* Files that are removed under the others leave their requests in order.
LEMMA OthersKeep ==
    ASSUME TasksOK, NEW t \in Tasks, NEW p, NEW ops, OthersUnlinked(t, p, ops),
           task' \in [Tasks -> Requests], HandOK(task'[t]), WhereOK(task'[t])
    PROVE  TasksOK'
<1>1. ASSUME NEW u \in Tasks, u # t
      PROVE  HandOK(task'[u]) /\ WhereOK(task'[u])
  <2>1. HandOK(task[u]) /\ WhereOK(task[u]) /\ task'[u] \in Requests
    BY DEF TasksOK
  <2>2. /\ task'[u].op = task[u].op /\ task'[u].id = task[u].id
        /\ task'[u].pc = task[u].pc /\ task'[u].body = task[u].body
        /\ task'[u].to = task[u].to /\ task'[u].cfg = task[u].cfg
        /\ task'[u].path = task[u].path
        /\ task'[u].fd # "shut" => task[u].fd # "shut"
    BY <1>1 DEF OthersUnlinked
  <2>3. HandOK(task'[u])
    BY <2>1, <2>2 DEF HandOK
  <2>4. WhereOK(task'[u])
    BY <2>1, <2>2 DEF WhereOK
  <2> QED  BY <2>3, <2>4
<1> QED
  BY <1>1 DEF TasksOK

\* A Remove that empties a directory goes on to take it away, or fails.
LEMMA EmptyMoves ==
    ASSUME TasksOK, NEW t \in Tasks, RemoveEmpties(t)
    PROVE  /\ task' \in [Tasks -> Requests] /\ TasksOK'
           /\ task[t].path \in Paths /\ OthersUnlinked(t, task[t].path, Ops)
           /\ Same(t) /\ task'[t].pc = "emptied" /\ task'[t].fd = "shut"
           /\ task'[t].path = task[t].path /\ task'[t].to = task[t].to
<1>1. task[t].pc = "found"
  BY DEF RemoveEmpties, At
<1>2. task[t] \in Requests /\ HandOK(task[t]) /\ WhereOK(task[t])
  BY DEF TasksOK
<1>3. task[t].path \in Paths /\ task[t].fd = "shut" /\ task[t].op = "remove"
  BY <1>1, <1>2 DEF HandOK, WhereOK
<1>4. PICK U : U = Unlinked(task[t].path, Ops)
  OBVIOUS
<1>5. task' = [U EXCEPT ![t].pc = "emptied"]
  BY <1>4 DEF RemoveEmpties
<1>6. /\ U \in [Tasks -> Requests]
      /\ \A u \in Tasks :
           /\ U[u].op = task[u].op /\ U[u].id = task[u].id
           /\ U[u].pc = task[u].pc /\ U[u].body = task[u].body
           /\ U[u].to = task[u].to /\ U[u].cfg = task[u].cfg
           /\ U[u].path = task[u].path
           /\ U[u].fd # "open" => U[u].fd = "shut" <=> task[u].fd = "shut"
           /\ U[u].fd = "open" =>
                task[u].fd = "open" /\ ~(task[u].path = task[t].path /\ task[u].op \in Ops)
           /\ task[u].fd = "open" /\ U[u].fd # "open" =>
                task[u].path = task[t].path /\ task[u].op \in Ops
  BY <1>4, UnlinkedType DEF TasksOK
<1>7. \A u \in Tasks \ {t} : task'[u] = U[u]
  BY <1>5, <1>6
<1>8. OthersUnlinked(t, task[t].path, Ops)
  BY <1>6, <1>7 DEF OthersUnlinked
<1>9. "emptied" \in Pcs
  BY DEF Pcs
<1>10. /\ task' \in [Tasks -> Requests]
       /\ task'[t].pc = "emptied" /\ task'[t].fd = U[t].fd
       /\ task'[t].op = U[t].op /\ task'[t].id = U[t].id
       /\ task'[t].body = U[t].body /\ task'[t].path = U[t].path
       /\ task'[t].to = U[t].to
  BY <1>5, <1>6, <1>9 DEF Requests
<1>11. U[t].fd = "shut"
  BY <1>3, <1>6
<1>12. HandOK(task'[t]) /\ WhereOK(task'[t])
  BY <1>1, <1>2, <1>3, <1>6, <1>10, <1>11 DEF HandOK, WhereOK, Saves, Edits, Creates
<1>13. TasksOK'
  BY <1>8, <1>10, <1>12, OthersKeep
<1> QED
  BY <1>3, <1>6, <1>8, <1>10, <1>11, <1>13 DEF Same

\* The end of a request to delete a plugin.
LEMMA UnplugMoves ==
    ASSUME TasksOK, NEW t \in Tasks, PluginRemoved(t)
    PROVE  /\ task' \in [Tasks -> Requests] /\ TasksOK'
           /\ task[t].path \in Paths /\ task'[t] = Idle
           /\ \/ /\ plugins[task[t].path] \in JarFiles
                 /\ plugins' = [plugins EXCEPT ![task[t].path] = Empty]
                 /\ OthersUnlinked(t, task[t].path, {"upload"})
              \/ /\ plugins[task[t].path] \notin JarFiles
                 /\ plugins' = plugins /\ OthersStay(t)
<1>1. task[t].path \in Paths
  BY DEF PluginRemoved, At, TasksOK, HandOK
<1>2. CASE plugins[task[t].path] \notin JarFiles
  BY <1>1, <1>2, Returns DEF PluginRemoved
<1>3. CASE plugins[task[t].path] \in JarFiles
  <2>1. PICK U : U = Unlinked(task[t].path, {"upload"})
    OBVIOUS
  <2>2. task' = [U EXCEPT ![t] = Idle]
    BY <1>3, <2>1 DEF PluginRemoved
  <2>3. /\ U \in [Tasks -> Requests]
        /\ \A u \in Tasks :
             /\ U[u].op = task[u].op /\ U[u].id = task[u].id
             /\ U[u].pc = task[u].pc /\ U[u].body = task[u].body
             /\ U[u].to = task[u].to /\ U[u].cfg = task[u].cfg
             /\ U[u].path = task[u].path
             /\ U[u].fd # "open" => U[u].fd = "shut" <=> task[u].fd = "shut"
             /\ U[u].fd = "open" =>
                  /\ task[u].fd = "open"
                  /\ ~(task[u].path = task[t].path /\ task[u].op \in {"upload"})
             /\ task[u].fd = "open" /\ U[u].fd # "open" =>
                  task[u].path = task[t].path /\ task[u].op \in {"upload"}
    BY <2>1, UnlinkedType DEF TasksOK
  <2>4. \A u \in Tasks \ {t} : task'[u] = U[u]
    BY <2>2, <2>3
  <2>5. OthersUnlinked(t, task[t].path, {"upload"})
    BY <2>3, <2>4 DEF OthersUnlinked
  <2>6. task' \in [Tasks -> Requests] /\ task'[t] = Idle
    BY <2>2, <2>3, IdleOK
  <2>7. TasksOK'
    BY <2>5, <2>6, IdleOK, OthersKeep
  <2> QED  BY <1>1, <1>3, <2>5, <2>6, <2>7 DEF PluginRemoved
<1> QED
  BY <1>2, <1>3

\* TypeOK, of what is outside the daemon's goroutines.
WorldOK ==
    /\ root \in Roots \union {Torn}
    /\ saved \in Roots \union {Torn, Absent, Empty}
    /\ dirs \in SUBSET Paths
    /\ file \in [Paths -> Config \union {Absent, Empty}]
    /\ plugins \in [Paths -> {Absent, Empty} \union JarFiles]
    /\ on \in [Ids -> {"off", "on", "down"}]
    /\ home \in [Ids -> Paths \union {None}]

\* The requests' part of the types is known separately.
LEMMA TypeParts == TasksOK => (TypeOK <=> WorldOK)
BY DEF TypeOK, TasksOK, WorldOK, Requests

\* A request holds a server and, past its first step, a path of it.
LEMMA Holds ==
    ASSUME TasksOK, NEW t \in Tasks
    PROVE  /\ task[t] \in Requests /\ HandOK(task[t]) /\ WhereOK(task[t])
           /\ task[t].pc # "idle" => task[t].id \in Ids
           /\ task[t].pc \in {"tested", "loaded", "open", "half", "found", "emptied", "made"} =>
                task[t].path \in Paths
           /\ task[t].op \in Saves /\ task[t].pc \in {"tested", "loaded", "open"} =>
                task[t].cfg \in Config
           /\ task[t].pc \in {"assign", "assigned", "global", "encode"} =>
                task[t].to \in Roots \union {Torn}
BY DEF TasksOK, HandOK

\* Every step of a handler keeps the types and the requests.
LEMMA HandlerTypes ==
    ASSUME TypeOK, TasksOK, FilesOK, NEW t \in Tasks, Handler(t)
    PROVE  TypeOK' /\ TasksOK'
<1>0. WorldOK
  BY TypeParts
<1> SUFFICES WorldOK' /\ TasksOK'
  BY TypeParts, PTL
<1>h. /\ task[t] \in Requests /\ HandOK(task[t]) /\ WhereOK(task[t])
      /\ task[t].pc # "idle" => task[t].id \in Ids
      /\ task[t].pc \in {"tested", "loaded", "open", "half", "found", "emptied", "made"} =>
           task[t].path \in Paths
      /\ task[t].op \in Saves /\ task[t].pc \in {"tested", "loaded", "open"} =>
           task[t].cfg \in Config
      /\ task[t].pc \in {"assign", "assigned", "global", "encode"} =>
           task[t].to \in Roots \union {Torn}
  BY Holds
<1>1. CASE Load(t)
  BY <1>0, <1>1, LoadMoves DEF Load, WorldOK, world
<1>2. CASE LoadFails(t) \/ Answer(t) \/ SaveFindsNoDir(t)
  <2>1. Return(t) /\ UNCHANGED world
    BY <1>2 DEF LoadFails, Answer, SaveFindsNoDir
  <2> QED  BY <1>0, <2>1, Returns DEF WorldOK, world
<1>3. CASE Spawn(t)
  <2>1. TasksOK'
    BY <1>3, Returns DEF Spawn
  <2>2. on' \in [Ids -> {"off", "on", "down"}] /\ home' \in [Ids -> Paths \union {None}]
    BY <1>0, <1>3, <1>h DEF Spawn, WorldOK, At
  <2> QED  BY <1>0, <1>3, <2>1, <2>2 DEF Spawn, WorldOK
<1>4. CASE CreateTests(t)
  BY <1>0, <1>4, CreateMoves DEF CreateTests, WorldOK, world
<1>5. CASE CreateMakesDir(t)
  <2>1. task[t].pc = "tested" /\ Goto(t, "loaded") /\ "loaded" \in Pcs
    BY <1>5 DEF CreateMakesDir, At, Pcs
  <2>2. /\ task' \in [Tasks -> Requests] /\ OthersStay(t) /\ task'[t].pc = "loaded"
        /\ task'[t].op = task[t].op /\ task'[t].id = task[t].id
        /\ task'[t].path = task[t].path /\ task'[t].body = task[t].body
        /\ task'[t].to = task[t].to /\ task'[t].cfg = task[t].cfg
        /\ task'[t].fd = task[t].fd
    BY <2>1, Goes
  <2>3. HandOK(task'[t]) /\ WhereOK(task'[t])
    BY <1>h, <2>1, <2>2 DEF HandOK, WhereOK, Creates
  <2>4. TasksOK'
    BY <2>2, <2>3, TasksKeep
  <2>5. dirs' \in SUBSET Paths
        /\ plugins' \in [Paths -> {Absent, Empty} \union JarFiles]
    BY <1>0, <1>5, <1>h, <2>1 DEF CreateMakesDir, WorldOK
  <2> QED  BY <1>0, <1>5, <2>4, <2>5 DEF CreateMakesDir, WorldOK
<1>6. CASE SaveCreates(t)
  <2>1. TasksOK' /\ file' \in [Paths -> Config \union {Absent, Empty}]
    BY <1>0, <1>6, SaveMoves DEF WorldOK
  <2> QED  BY <1>0, <1>6, <2>1 DEF SaveCreates, WorldOK
<1>7. CASE SaveEncodes(t)
  <2>1. TasksOK'
    BY <1>7, EncodeMoves
  <2>2. task[t].path \in Paths /\ task[t].cfg \in Config
    BY <1>7, <1>h DEF SaveEncodes, At, Saves
  <2>3. file' \in [Paths -> Config \union {Absent, Empty}]
    BY <1>0, <1>7, <2>2 DEF SaveEncodes, WorldOK
  <2> QED  BY <1>0, <1>7, <2>1, <2>3 DEF SaveEncodes, WorldOK
<1>8. CASE RemoveChecks(t)
  <2>1. task[t].pc = "called" /\ task[t].op = "remove" /\ "checked" \in Pcs
    BY <1>8 DEF RemoveChecks, At, Pcs
  <2>2. CASE Return(t)
    BY <1>0, <1>8, <2>2, Returns DEF RemoveChecks, WorldOK, world
  <2>3. CASE Goto(t, "checked")
    <3>1. /\ task' \in [Tasks -> Requests] /\ OthersStay(t) /\ task'[t].pc = "checked"
          /\ task'[t].op = task[t].op /\ task'[t].id = task[t].id
          /\ task'[t].path = task[t].path /\ task'[t].body = task[t].body
          /\ task'[t].to = task[t].to /\ task'[t].cfg = task[t].cfg
          /\ task'[t].fd = task[t].fd
      BY <2>1, <2>3, Goes
    <3>2. HandOK(task'[t]) /\ WhereOK(task'[t])
      BY <1>h, <2>1, <3>1 DEF HandOK, WhereOK, Creates, Saves, Edits
    <3>3. TasksOK'
      BY <3>1, <3>2, TasksKeep
    <3> QED  BY <1>0, <1>8, <3>3 DEF RemoveChecks, WorldOK, world
  <2> QED  BY <1>8, <2>2, <2>3 DEF RemoveChecks
<1>9. CASE RemoveFinds(t)
  BY <1>0, <1>9, FindMoves DEF RemoveFinds, WorldOK, world
<1>10. CASE RemoveEmpties(t)
  <2>1. TasksOK' /\ task[t].path \in Paths
    BY <1>10, EmptyMoves
  <2>2. /\ file' \in [Paths -> Config \union {Absent, Empty}]
        /\ plugins' \in [Paths -> {Absent, Empty} \union JarFiles]
    BY <1>0, <1>10, <2>1 DEF RemoveEmpties, WorldOK
  <2> QED  BY <1>0, <1>10, <2>1, <2>2 DEF RemoveEmpties, WorldOK
<1>11. CASE RemoveDir(t)
  <2>1. TasksOK'
    BY <1>11, Returns DEF RemoveDir
  <2> QED  BY <1>0, <1>11, <2>1 DEF RemoveDir, WorldOK
<1>12. CASE PluginsMakesDir(t)
  <2>1. task[t].pc = "loaded" /\ task[t].op \in OnPlugins /\ "made" \in Pcs
    BY <1>12 DEF PluginsMakesDir, At, Pcs
  <2>2. dirs' \in SUBSET Paths
        /\ plugins' \in [Paths -> {Absent, Empty} \union JarFiles]
    BY <1>0, <1>12, <1>h, <2>1 DEF PluginsMakesDir, WorldOK
  <2>3. CASE task[t].op = "plugins"
    BY <1>0, <1>12, <2>2, <2>3, Returns DEF PluginsMakesDir, WorldOK
  <2>4. CASE task[t].op # "plugins"
    <3>1. /\ task' \in [Tasks -> Requests] /\ OthersStay(t) /\ task'[t].pc = "made"
          /\ task'[t].op = task[t].op /\ task'[t].id = task[t].id
          /\ task'[t].path = task[t].path /\ task'[t].body = task[t].body
          /\ task'[t].to = task[t].to /\ task'[t].cfg = task[t].cfg
          /\ task'[t].fd = task[t].fd
      BY <1>12, <2>1, <2>4, Goes DEF PluginsMakesDir
    <3>2. HandOK(task'[t]) /\ WhereOK(task'[t])
      BY <1>h, <2>1, <2>4, <3>1 DEF HandOK, WhereOK, Creates, Saves, Edits, OnPlugins
    <3>3. TasksOK'
      BY <3>1, <3>2, TasksKeep
    <3> QED  BY <1>0, <1>12, <2>2, <3>3 DEF PluginsMakesDir, WorldOK
  <2> QED  BY <2>3, <2>4
<1>13. CASE UploadCreates(t)
  <2>1. TasksOK' /\ plugins' \in [Paths -> {Absent, Empty} \union JarFiles]
    BY <1>0, <1>13, UploadMoves, JarParts DEF WorldOK
  <2> QED  BY <1>0, <1>13, <2>1 DEF UploadCreates, WorldOK
<1>14. CASE UploadCopies(t)
  <2>1. TasksOK' /\ task[t].path \in Paths /\ task[t].body.jar \in Jars
    BY <1>14, CopyMoves
  <2>2. plugins' \in [Paths -> {Absent, Empty} \union JarFiles]
    <3>1. CASE task[t].fd # "open"
      BY <1>0, <1>14, <3>1, CopyMoves DEF WorldOK
    <3>2. CASE task[t].fd = "open"
      <4>1. plugins[task[t].path] \in JarFiles
        BY <1>14, <2>1, <3>2, CopyMoves DEF FilesOK, EntriesOK, Uploads
      <4>2. PICK jar \in JarFiles : plugins' = [plugins EXCEPT ![task[t].path] = jar]
        BY <1>14, <2>1, <3>2, <4>1, CopyMoves, JarParts
      <4> QED  BY <1>0, <4>2 DEF WorldOK
    <3> QED  BY <3>1, <3>2
  <2> QED  BY <1>0, <1>14, <2>1, <2>2 DEF UploadCopies, WorldOK
<1>15. CASE PluginRemoved(t)
  <2>1. TasksOK' /\ plugins' \in [Paths -> {Absent, Empty} \union JarFiles]
    BY <1>0, <1>15, UnplugMoves DEF WorldOK
  <2> QED  BY <1>0, <1>15, <2>1 DEF PluginRemoved, WorldOK
<1>16. ASSUME NEW pc \in {"assign", "assigned", "global"}, Goto(t, pc),
              task[t].op = "setRoot" \/ task[t].pc \in {"assign", "assigned"},
              task[t].fd = "shut", task[t].pc # "idle"
       PROVE  TasksOK'
  <2>1. pc \in Pcs
    BY DEF Pcs
  <2>2. /\ task' \in [Tasks -> Requests] /\ OthersStay(t) /\ task'[t].pc = pc
        /\ task'[t].op = task[t].op /\ task'[t].id = task[t].id
        /\ task'[t].path = task[t].path /\ task'[t].body = task[t].body
        /\ task'[t].to = task[t].to /\ task'[t].cfg = task[t].cfg
        /\ task'[t].fd = task[t].fd
    BY <1>16, <2>1, Goes
  <2>3. HandOK(task'[t]) /\ WhereOK(task'[t])
    BY <1>h, <1>16, <2>2 DEF HandOK, WhereOK
  <2> QED  BY <1>16, <2>2, <2>3, TasksKeep
<1>17. CASE RootMade(t)
  <2>1. task[t].pc = "called" /\ task[t].op = "setRoot" /\ task[t].fd = "shut"
    BY <1>17, <1>h DEF RootMade, At, HandOK, Requests
  <2> QED  BY <1>0, <1>16, <1>17, <2>1 DEF RootMade, WorldOK, world
<1>18. CASE RootAssigned(t)
  <2>1. task[t].pc = "assign" /\ task[t].fd = "shut" /\ task[t].to \in Roots \union {Torn}
    BY <1>18, <1>h DEF RootAssigned, At, HandOK, Requests
  <2>2. TasksOK' /\ root' \in Roots \union {Torn}
    BY <1>16, <1>18, <2>1 DEF RootAssigned
  <2> QED  BY <1>0, <1>18, <2>2 DEF RootAssigned, WorldOK
<1>19. CASE GlobalCreates(t)
  <2>1. task[t].pc = "assigned" /\ task[t].fd = "shut"
    BY <1>19, <1>h DEF GlobalCreates, At, HandOK, Requests
  <2> QED  BY <1>0, <1>16, <1>19, <2>1 DEF GlobalCreates, WorldOK
<1>20. CASE GlobalReads(t)
  BY <1>0, <1>20, GlobalMoves DEF GlobalReads, WorldOK, world
<1>21. CASE GlobalEncodes(t)
  BY <1>0, <1>21, <1>h, Returns DEF GlobalEncodes, WorldOK, At
<1> QED
  BY <1>1, <1>2, <1>3, <1>4, <1>5, <1>6, <1>7, <1>8, <1>9, <1>10, <1>11, <1>12,
     <1>13, <1>14, <1>15, <1>17, <1>18, <1>19, <1>20, <1>21 DEF Handler

-----------------------------------------------------------------------------
(***************************************************************************)
(* Failures, processes and requests                                        *)
(***************************************************************************)
\* So do calls, faults, the ends of processes and a reboot.
LEMMA RestTypes ==
    ASSUME TypeOK, TasksOK,
           \/ \E t \in Tasks : Call(t) \/ IoFails(t)
           \/ \E id \in Ids : Exits(id) \/ Respawns(id)
           \/ Reboot
    PROVE  TypeOK' /\ TasksOK'
<1>0. WorldOK
  BY TypeParts
<1> SUFFICES WorldOK' /\ TasksOK'
  BY TypeParts, PTL
<1>1. ASSUME NEW t \in Tasks, Call(t)  PROVE WorldOK' /\ TasksOK'
  <2>0. PICK op \in Ops, id \in Ids : \E body \in Bodies(op), to \in BodyRoots(op) :
          task' = [task EXCEPT ![t] = [Idle EXCEPT !.op = op, !.pc = "called", !.id = id,
                                                   !.body = body, !.to = to]]
    BY <1>1 DEF Call
  <2>1. PICK body \in Bodies(op), to \in BodyRoots(op) :
          task' = [task EXCEPT ![t] = [Idle EXCEPT !.op = op, !.pc = "called", !.id = id,
                                                   !.body = body, !.to = to]]
    BY <2>0
  <2>2. /\ body \in AnyBody
        /\ op \in Creates => body.name \in Names /\ body.flags = Default
        /\ op = "upload" => body.jar \in Jars
    BY BodiesType
  <2>3. /\ to \in Roots \union {None}
        /\ op = "setRoot" => to \in Roots
        /\ op \notin {"setRoot", "httpCreate"} => to = None
    BY DEF BodyRoots
  <2>4. PICK k : k = [Idle EXCEPT !.op = op, !.pc = "called", !.id = id,
                                  !.body = body, !.to = to]
    OBVIOUS
  <2>5. "called" \in Pcs
    BY DEF Pcs
  <2>6. /\ k.op = op /\ k.pc = "called" /\ k.id = id /\ k.body = body
        /\ k.to = to /\ k.fd = "shut" /\ k.path = None /\ k.cfg = None
    BY <2>4 DEF Idle
  <2>7. k \in Requests
    BY <2>2, <2>3, <2>4, <2>5 DEF Idle, Requests
  <2>8. HandOK(k) /\ WhereOK(k)
    BY <2>2, <2>3, <2>6 DEF HandOK, WhereOK
  <2>9. task' \in [Tasks -> Requests] /\ task'[t] = k /\ OthersStay(t)
    BY <2>1, <2>4, <2>7 DEF OthersStay, TasksOK
  <2>10. TasksOK'
    BY <2>8, <2>9, TasksKeep
  <2> QED  BY <1>0, <1>1, <2>10 DEF Call, WorldOK, world
<1>2. ASSUME NEW t \in Tasks, IoFails(t)  PROVE WorldOK' /\ TasksOK'
  BY <1>0, <1>2, Returns DEF IoFails, WorldOK, world
<1>3. ASSUME NEW id \in Ids, Exits(id) \/ Respawns(id)  PROVE WorldOK' /\ TasksOK'
  <2>1. task' = task
    BY <1>3 DEF Exits, Respawns
  <2>2. TasksOK'
    BY <2>1 DEF TasksOK
  <2>3. on' \in [Ids -> {"off", "on", "down"}]
    BY <1>0, <1>3 DEF Exits, Respawns, WorldOK
  <2> QED  BY <1>0, <1>3, <2>2, <2>3 DEF Exits, Respawns, WorldOK
<1>4. CASE Reboot
  <2>1. task' \in [Tasks -> Requests] /\ \A t \in Tasks : task'[t] = Idle
    BY <1>4, IdleOK DEF Reboot
  <2>2. TasksOK'
    BY <2>1, IdleOK DEF TasksOK
  <2>3. root' \in Roots \union {Torn} /\ on' \in [Ids -> {"off", "on", "down"}]
    BY <1>4, ConfigurationsAssumption DEF Reboot
  <2> QED  BY <1>0, <1>4, <2>2, <2>3 DEF Reboot, WorldOK
<1> QED
  BY <1>1, <1>2, <1>3, <1>4

-----------------------------------------------------------------------------
(***************************************************************************)
(* Open files and their entries                                            *)
(***************************************************************************)
\* A step of a request that neither had a file open nor has leaves it to the
\* others who writes what.
LEMMA Steady ==
    ASSUME NEW t \in Tasks, OthersStay(t),
           task[t].fd # "open", task'[t].fd # "open"
    PROVE  \A u \in Tasks, p \in Paths :
             /\ Writes(u, p)' <=> Writes(u, p)
             /\ Uploads(u, p)' <=> Uploads(u, p)
BY DEF OthersStay, Writes, Uploads

\* Of the jar at p: where there still is one it is as it was, and so are those
\* who write it, or one of them was cut short.
Kept(p) ==
    /\ plugins'[p] \in JarFiles => plugins'[p] = plugins[p]
    /\ \A u \in Tasks :
         /\ Uploads(u, p)' =>
              /\ Uploads(u, p) /\ task'[u].pc = task[u].pc
              /\ task'[u].body = task[u].body
         /\ Uploads(u, p) /\ ~Uploads(u, p)' =>
              p \in hurt' \/ plugins'[p] \notin JarFiles

\* Such a step keeps the account of the jars.
LEMMA JarsKeep ==
    ASSUME JarsOK, EntriesOK', hurt \subseteq hurt', met \subseteq met',
           \A p \in Paths : Kept(p)
    PROVE  JarsOK'
<1> SUFFICES ASSUME NEW p \in Paths
             PROVE  JarOK(p)'
  BY DEF JarsOK
<1>1. CASE plugins'[p] \in JarFiles
  <2>1. /\ plugins'[p] = plugins[p]
        /\ \A u \in Tasks : /\ Uploads(u, p)' => Uploads(u, p)
                            /\ Uploads(u, p) => p \in hurt' \/ Uploads(u, p)'
                            /\ Uploads(u, p)' => /\ At(u, "open")' <=> At(u, "open")
                                                 /\ At(u, "half")' <=> At(u, "half")
                                                 /\ CopiedSoFar(u)' = CopiedSoFar(u)
    BY <1>1 DEF Kept, At, CopiedSoFar
  <2> QED  BY <2>1 DEF JarsOK, JarOK
<1>2. CASE plugins'[p] \notin JarFiles
  <2>1. \A u \in Tasks : ~Uploads(u, p)'
    BY <1>2 DEF EntriesOK
  <2> QED  BY <1>2, <2>1 DEF JarOK, Headless, Tailless
<1> QED
  BY <1>1, <1>2

\* Such a step keeps what is there, or makes a directory.
LEMMA SteadyFiles ==
    ASSUME FilesOK, WorldOK, NEW t \in Tasks, OthersStay(t),
           task[t].fd # "open", task'[t].fd # "open",
           file' = file, hurt' = hurt, met \subseteq met',
           \/ plugins' = plugins /\ dirs' = dirs
           \/ \E p \in Paths :
                /\ dirs' = dirs \union {p}
                /\ plugins' = IF plugins[p] = Absent
                              THEN [plugins EXCEPT ![p] = Empty] ELSE plugins
           \/ \E p \in Paths : plugins' = plugins /\ dirs' = dirs \union {p}
    PROVE  FilesOK'
<1>1. \A u \in Tasks, p \in Paths :
        /\ Writes(u, p)' <=> Writes(u, p)
        /\ Uploads(u, p)' <=> Uploads(u, p)
  BY Steady
<1>2. \A p \in Paths :
        /\ plugins[p] \in JarFiles => plugins'[p] = plugins[p]
        /\ plugins'[p] \in JarFiles => plugins'[p] = plugins[p]
        /\ plugins'[p] # Absent => plugins[p] # Absent \/ p \in dirs'
        /\ p \in dirs => p \in dirs'
  BY AbsentIsNoConfig DEF WorldOK
<1>3. EntriesOK'
  BY <1>1, <1>2 DEF FilesOK, EntriesOK
<1>4. PartialOK'
  BY <1>1, <1>2 DEF FilesOK, PartialOK
<1>5. JarsOK'
  <2>1. \A p \in Paths : Kept(p)
    BY <1>1, <1>2 DEF Kept, OthersStay, Uploads
  <2> QED  BY <1>3, <2>1, JarsKeep DEF FilesOK
<1> QED
  BY <1>3, <1>4, <1>5 DEF FilesOK

\* A request that is not in the middle of a write has nothing open.
LEMMA ShutUnlessOpen ==
    ASSUME TasksOK, NEW t \in Tasks
    PROVE  task[t].pc \notin {"open", "half"} => task[t].fd = "shut"
BY DEF TasksOK, HandOK, Requests

\* os.Create of a save leaves an empty file with its writer.
LEMMA SaveCreatesFiles ==
    ASSUME TypeOK, TasksOK, FilesOK, NEW t \in Tasks, SaveCreates(t),
           hurt' = hurt, met \subseteq met'
    PROVE  FilesOK'
<1>1. PICK p \in SavePaths(t) \intersect dirs :
        /\ file' = [file EXCEPT ![p] = Empty] /\ p \in Paths
        /\ task' \in [Tasks -> Requests] /\ OthersStay(t) /\ Same(t)
        /\ task'[t].pc = "open" /\ task'[t].path = p /\ task'[t].fd = "open"
  BY SaveMoves
<1>2. /\ task[t].op \in Saves /\ task[t].fd = "shut"
      /\ dirs' = dirs /\ plugins' = plugins
  BY ShutUnlessOpen DEF SaveCreates, At, Saves
<1>3. \A q \in Paths : file'[q] = IF q = p THEN Empty ELSE file[q]
  BY <1>1 DEF TypeOK
<1>4. \A u \in Tasks, q \in Paths :
        /\ Writes(u, q)' <=> Writes(u, q) \/ (u = t /\ q = p)
        /\ Uploads(u, q)' <=> Uploads(u, q)
  <2>1. task[t].op # "upload"
    BY <1>2 DEF Saves, Edits, Creates
  <2> QED  BY <1>1, <1>2, <2>1 DEF OthersStay, Writes, Uploads, Same
<1>5. EntriesOK'
  BY <1>1, <1>2, <1>3, <1>4, AbsentIsNoConfig DEF FilesOK, EntriesOK
<1>6. PartialOK'
  BY <1>2, <1>3, <1>4 DEF FilesOK, PartialOK
<1>7. JarsOK'
  <2>1. \A q \in Paths : Kept(q)
    BY <1>1, <1>2, <1>4 DEF Kept, OthersStay, Uploads, Saves, Edits, Creates
  <2> QED  BY <1>5, <2>1, JarsKeep DEF FilesOK
<1> QED
  BY <1>5, <1>6, <1>7 DEF FilesOK

\* The encoder completes the file it has open.
LEMMA SaveEncodesFiles ==
    ASSUME TypeOK, TasksOK, FilesOK, NEW t \in Tasks, SaveEncodes(t),
           hurt' = hurt, met \subseteq met'
    PROVE  FilesOK'
<1>1. OthersStay(t) /\ task'[t].fd # "open"
  BY EncodeMoves DEF Idle
<1>2. /\ task[t].op \in Saves /\ task[t].op # "upload"
      /\ dirs' = dirs /\ plugins' = plugins
  BY DEF SaveEncodes, At, Saves, Edits, Creates
<1>3. task[t].path \in Paths /\ task[t].cfg \in Config
  BY <1>2, Holds DEF SaveEncodes, At
<1>4. \A q \in Paths : /\ file'[q] # file[q] => Writes(t, q)
                       /\ Writes(t, q) => file'[q] \in Config
  BY <1>2, <1>3 DEF SaveEncodes, Writes, TypeOK
<1>5. \A u \in Tasks, q \in Paths :
        /\ Writes(u, q)' <=> Writes(u, q) /\ u # t
        /\ Uploads(u, q)' <=> Uploads(u, q)
  BY <1>1, <1>2 DEF OthersStay, Writes, Uploads
<1>6. EntriesOK'
  BY <1>2, <1>4, <1>5, AbsentIsNoConfig DEF FilesOK, EntriesOK
<1>7. PartialOK'
  BY <1>2, <1>4, <1>5, AbsentIsNoConfig DEF FilesOK, PartialOK
<1>8. JarsOK'
  <2>1. \A q \in Paths : Kept(q)
    BY <1>1, <1>2, <1>5 DEF Kept, OthersStay, Uploads
  <2> QED  BY <1>6, <2>1, JarsKeep DEF FilesOK
<1> QED
  BY <1>6, <1>7, <1>8 DEF FilesOK

\* What a Remove unlinks is absent; its writers have lost it.
LEMMA RemoveEmptiesFiles ==
    ASSUME TypeOK, TasksOK, FilesOK, NEW t \in Tasks, RemoveEmpties(t),
           hurt' = hurt, met \subseteq met'
    PROVE  FilesOK'
<1>1. /\ task' \in [Tasks -> Requests]
      /\ task[t].path \in Paths /\ OthersUnlinked(t, task[t].path, Ops)
      /\ task'[t].fd = "shut"
  BY EmptyMoves
<1>2. task[t].fd = "shut" /\ dirs' = dirs
  BY ShutUnlessOpen DEF RemoveEmpties, At
<1>3. \A q \in Paths :
        /\ file'[q] = IF q = task[t].path THEN Absent ELSE file[q]
        /\ plugins'[q] = IF q = task[t].path THEN Absent ELSE plugins[q]
  BY <1>1 DEF RemoveEmpties, TypeOK
<1>4. \A u \in Tasks : task[u].op \in Ops
  BY DEF TypeOK
<1>5. \A u \in Tasks, q \in Paths :
        /\ Writes(u, q)' <=> Writes(u, q) /\ q # task[t].path
        /\ Uploads(u, q)' <=> Uploads(u, q) /\ q # task[t].path
  BY <1>1, <1>2, <1>4 DEF OthersUnlinked, Writes, Uploads
<1>6. EntriesOK'
  BY <1>2, <1>3, <1>5 DEF FilesOK, EntriesOK
<1>7. PartialOK'
  BY <1>3, <1>5, AbsentIsNoConfig DEF FilesOK, PartialOK
<1>8. JarsOK'
  <2>1. \A q \in Paths : Kept(q)
    BY <1>1, <1>2, <1>3, <1>5, AbsentIsNoConfig DEF Kept, OthersUnlinked, Uploads
  <2> QED  BY <1>6, <2>1, JarsKeep DEF FilesOK
<1> QED
  BY <1>6, <1>7, <1>8 DEF FilesOK

\* A jar that is opened is partial, and its uploader writes it.
LEMMA UploadCreatesFiles ==
    ASSUME TypeOK, TasksOK, FilesOK, NEW t \in Tasks, UploadCreates(t),
           hurt' = hurt, met' = met \union Meeting'
    PROVE  FilesOK'
<1>1. /\ task[t].fd = "shut" /\ task[t].op = "upload"
      /\ dirs' = dirs /\ file' = file
  BY ShutUnlessOpen DEF UploadCreates, At
<1>2. OthersStay(t) /\ task[t].path \in Paths
  BY UploadMoves
<1>3. CASE plugins[task[t].path] = Absent
  <2>1. plugins' = plugins /\ task'[t].fd # "open"
    BY <1>3, UploadMoves DEF Idle
  <2>2. WorldOK
    BY TypeParts
  <2> QED  BY <1>1, <1>2, <2>1, <2>2, SteadyFiles
<1>4. CASE plugins[task[t].path] # Absent
  <2>1. /\ plugins' = [plugins EXCEPT ![task[t].path] = Truncated]
        /\ Same(t) /\ task'[t].pc = "open" /\ task'[t].fd = "open"
        /\ task'[t].path = task[t].path
    BY <1>4, UploadMoves
  <2>2. \A q \in Paths : plugins'[q] = IF q = task[t].path THEN Truncated ELSE plugins[q]
    BY <2>1 DEF TypeOK
  <2>3. \A u \in Tasks, q \in Paths :
          /\ Writes(u, q)' <=> Writes(u, q)
          /\ Uploads(u, q)' <=> Uploads(u, q) \/ (u = t /\ q = task[t].path)
    <3>1. "upload" \notin Saves
      BY DEF Saves, Edits, Creates
    <3> QED  BY <1>1, <1>2, <2>1, <3>1 DEF OthersStay, Writes, Uploads, Same
  <2>4. EntriesOK'
    BY <1>1, <1>2, <1>4, <2>2, <2>3, JarParts DEF FilesOK, EntriesOK
  <2>5. PartialOK'
    BY <1>1, <1>2, <2>2, <2>3 DEF FilesOK, PartialOK
  <2>6. JarsOK'
    <3>0. PICK p \in Paths : p = task[t].path
      BY <1>2
    <3>1. \A u \in Tasks \ {t}, q \in Paths :
            /\ At(u, "open")' <=> At(u, "open")
            /\ At(u, "half")' <=> At(u, "half")
            /\ CopiedSoFar(u)' = CopiedSoFar(u)
      BY <1>2 DEF OthersStay, At, CopiedSoFar
    <3>2. At(t, "open")' /\ CopiedSoFar(t)' = Truncated /\ Uploads(t, p)'
      BY <1>2, <2>1, <2>3, <3>0 DEF At, CopiedSoFar
    <3>3. p \notin met' =>
            \A u \in Tasks : Uploads(u, p)' => u = t
      <4> SUFFICES ASSUME NEW u \in Tasks, Uploads(u, p)', u # t
                   PROVE  p \in Meeting'
        OBVIOUS
      <4> QED  BY <1>2, <3>2, <3>0 DEF Meeting, Uploads
    <3>4. met \subseteq met'
      OBVIOUS
    <3>5. ASSUME NEW q \in Paths, q # p
          PROVE  plugins'[q] = plugins[q] /\ ~Uploads(t, q) /\ ~Uploads(t, q)'
      BY <1>1, <2>1, <2>2, <3>0, <3>5 DEF Uploads
    <3> QED
      BY <1>1, <1>2, <2>2, <2>3, <3>0, <3>1, <3>2, <3>3, <3>4, <3>5, JarParts
         DEF FilesOK, JarsOK, JarOK
  <2> QED  BY <2>4, <2>5, <2>6 DEF FilesOK
<1> QED
  BY <1>3, <1>4

\* The first call of a copy gives the jar its head, the second its tail.
LEMMA UploadCopiesFiles ==
    ASSUME TypeOK, TasksOK, FilesOK, NEW t \in Tasks, UploadCopies(t),
           hurt' = hurt, met \subseteq met'
    PROVE  FilesOK'
<1>0. PICK path \in Paths, jar \in Jars :
        path = task[t].path /\ jar = task[t].body.jar
  BY CopyMoves
<1>a. PICK old : old = plugins[path]
  OBVIOUS
<1>1. /\ task[t].op = "upload" /\ task[t].op \notin Saves
      /\ dirs' = dirs /\ file' = file /\ OthersStay(t)
      /\ path = task[t].path /\ jar = task[t].body.jar /\ old = plugins[path]
  BY <1>0, <1>a, CopyMoves DEF Saves, Edits, Creates
<1>2. \A u \in Tasks \ {t} :
        /\ \A q \in Paths : Uploads(u, q)' <=> Uploads(u, q)
        /\ At(u, "open")' <=> At(u, "open")
        /\ At(u, "half")' <=> At(u, "half")
        /\ CopiedSoFar(u)' = CopiedSoFar(u)
  BY <1>1 DEF OthersStay, Uploads, At, CopiedSoFar
<1>3. \A q \in Paths : /\ Uploads(t, q) => q = path
                       /\ Uploads(t, q)' => Uploads(t, q)
  BY <1>1, CopyMoves DEF Uploads, Same, Idle
<1>4. \A u \in Tasks, q \in Paths : Writes(u, q)' <=> Writes(u, q)
  <2>1. (Idle.fd = "shut" /\ task'[t] = Idle) \/ task'[t].op = task[t].op
    BY CopyMoves DEF Same, Idle
  <2> QED  BY <1>1, <2>1 DEF OthersStay, Writes
<1>5. \A q \in Paths \ {path} : plugins'[q] = plugins[q]
  BY <1>1, CopyMoves DEF TypeOK
<1>6. PartialOK'
  BY <1>1, <1>4 DEF FilesOK, PartialOK
<1>7. CASE task[t].fd # "open"
  <2>1. plugins' = plugins /\ \A q \in Paths : ~Uploads(t, q) /\ ~Uploads(t, q)'
    BY <1>3, <1>7, CopyMoves DEF Uploads
  <2>2. EntriesOK'
    BY <1>1, <1>2, <1>4, <2>1 DEF FilesOK, EntriesOK
  <2>3. \A q \in Paths : Kept(q)
    BY <1>1, <1>2, <2>1 DEF Kept, OthersStay
  <2> QED  BY <1>6, <2>2, <2>3, JarsKeep DEF FilesOK
<1>8. CASE task[t].fd = "open"
  <2>1. Uploads(t, path) /\ old \in JarFiles
    BY <1>1, <1>8 DEF Uploads, FilesOK, EntriesOK
  <2>2. plugins'[path] = IF task[t].pc = "open" THEN WithHead(old, jar)
                                               ELSE WithTail(old, jar)
    BY <1>1, <1>8, CopyMoves DEF TypeOK
  <2>3. plugins'[path] \in JarFiles
    BY <1>1, <2>1, <2>2, JarParts
  <2>4. EntriesOK'
    <3>1. \A q \in Paths : plugins'[q] # Absent => plugins[q] # Absent
      BY <1>1, <1>5, <2>1, AbsentIsNoConfig
    <3>2. \A q \in Paths, u \in Tasks : Uploads(u, q)' => plugins'[q] \in JarFiles
      BY <1>2, <1>3, <1>5, <2>3 DEF FilesOK, EntriesOK
    <3> QED  BY <1>1, <1>4, <3>1, <3>2 DEF FilesOK, EntriesOK
  <2>5. JarsOK'
    <3>1. ASSUME NEW q \in Paths, q # path  PROVE JarOK(q)'
      <4>1. plugins'[q] = plugins[q] /\ ~Uploads(t, q) /\ ~Uploads(t, q)'
        BY <1>3, <1>5, <3>1
      <4> QED  BY <1>2, <4>1 DEF FilesOK, JarsOK, JarOK
    <3>2. Headless(plugins'[path]) =>
            path \in hurt \/ \E u \in Tasks : Uploads(u, path)' /\ At(u, "open")'
      <4> SUFFICES ASSUME Headless(plugins'[path]), path \notin hurt
                   PROVE  \E u \in Tasks : Uploads(u, path)' /\ At(u, "open")'
        OBVIOUS
      <4>1. task[t].pc = "half" /\ Headless(old)
        BY <1>1, <2>1, <2>2, CopyMoves, JarParts
      <4>2. PICK u \in Tasks : Uploads(u, path) /\ At(u, "open")
        BY <1>1, <4>1 DEF FilesOK, JarsOK, JarOK
      <4>3. u # t
        BY <4>1, <4>2 DEF At
      <4> QED  BY <1>1, <1>2, <4>2, <4>3
    <3>3. Tailless(plugins'[path]) => Uploads(t, path)' /\ At(t, "half")'
      <4>1. Tailless(plugins'[path]) => task[t].pc = "open" /\ jar \in Long
        BY <1>1, <2>1, <2>2, CopyMoves, JarParts
      <4> QED  BY <1>1, <1>8, <4>1, CopyMoves DEF Uploads, At, Same
    <3>4. ASSUME path \notin met, NEW u \in Tasks, Uploads(u, path)'
          PROVE  u = t
      BY <1>1, <1>2, <2>1, <3>4 DEF FilesOK, JarsOK, JarOK
    <3>5. ASSUME path \notin met
          PROVE  old = CopiedSoFar(t)
      BY <1>1, <2>1, <3>5 DEF FilesOK, JarsOK, JarOK
    <3>6. ASSUME path \notin met, Uploads(t, path)'
          PROVE  plugins'[path] = CopiedSoFar(t)'
      <4>1. task[t].pc = "open" /\ task'[t].pc = "half" /\ task'[t].body = task[t].body
        BY <3>6, CopyMoves DEF Uploads, Idle, Same
      <4>2. plugins'[path] = WithHead(Truncated, jar)
        BY <2>2, <3>5, <3>6, <4>1 DEF CopiedSoFar, At
      <4> QED  BY <1>1, <4>1, <4>2 DEF CopiedSoFar, At
    <3>7. ASSUME path \notin met, ~Uploads(t, path)'
          PROVE  plugins'[path] = Whole(jar)
      <4>1. CASE task[t].pc = "open"
        <5>1. jar \notin Long
          BY <1>1, <1>8, <3>7, <4>1, CopyMoves DEF Uploads, Same
        <5> QED  BY <1>1, <2>2, <3>5, <3>7, <4>1, <5>1, JarParts DEF CopiedSoFar, At
      <4>2. CASE task[t].pc = "half"
        <5>1. jar \in Long
          BY <1>1, <4>2 DEF TasksOK, WhereOK
        <5> QED  BY <1>1, <2>2, <3>5, <3>7, <4>2, <5>1, JarParts DEF CopiedSoFar, At
      <4> QED  BY <4>1, <4>2, CopyMoves
    <3>8. JarOK(path)'
      BY <1>1, <3>2, <3>3, <3>4, <3>6, <3>7 DEF JarOK
    <3> QED  BY <3>1, <3>8 DEF JarsOK
  <2> QED  BY <1>6, <2>4, <2>5 DEF FilesOK
<1> QED
  BY <1>7, <1>8

\* No jar is left in the directory; its uploaders have lost the file.
LEMMA PluginRemovedFiles ==
    ASSUME TypeOK, TasksOK, FilesOK, NEW t \in Tasks, PluginRemoved(t),
           hurt' = hurt, met \subseteq met'
    PROVE  FilesOK'
<1>1. /\ task[t].fd = "shut" /\ task'[t].fd = "shut"
      /\ dirs' = dirs /\ file' = file /\ task[t].path \in Paths
  BY ShutUnlessOpen, UnplugMoves DEF PluginRemoved, At, Idle
<1>2. CASE plugins[task[t].path] \notin JarFiles
  <2>1. WorldOK /\ plugins' = plugins /\ OthersStay(t)
    BY <1>2, TypeParts, UnplugMoves
  <2> QED  BY <1>1, <2>1, SteadyFiles
<1>3. CASE plugins[task[t].path] \in JarFiles
  <2>1. /\ plugins' = [plugins EXCEPT ![task[t].path] = Empty]
        /\ OthersUnlinked(t, task[t].path, {"upload"})
        /\ task' \in [Tasks -> Requests]
    BY <1>3, UnplugMoves
  <2>2. \A q \in Paths : plugins'[q] = IF q = task[t].path THEN Empty ELSE plugins[q]
    BY <2>1 DEF TypeOK
  <2>3. "upload" \notin Saves
    BY DEF Saves, Edits, Creates
  <2>4. \A u \in Tasks, q \in Paths :
          /\ Writes(u, q)' <=> Writes(u, q)
          /\ Uploads(u, q)' <=> Uploads(u, q) /\ q # task[t].path
    BY <1>1, <2>1, <2>3 DEF OthersUnlinked, Writes, Uploads
  <2>5. EntriesOK'
    BY <1>1, <1>3, <2>2, <2>4, AbsentIsNoConfig DEF FilesOK, EntriesOK
  <2>6. PartialOK'
    BY <1>1, <2>2, <2>4, AbsentIsNoConfig DEF FilesOK, PartialOK
  <2>7. JarsOK'
    <3>1. \A q \in Paths : Kept(q)
      BY <1>1, <2>1, <2>2, <2>4, AbsentIsNoConfig DEF Kept, OthersUnlinked, Uploads
    <3> QED  BY <2>5, <3>1, JarsKeep DEF FilesOK
  <2> QED  BY <2>5, <2>6, <2>7 DEF FilesOK
<1> QED
  BY <1>2, <1>3

\* The last step of a Remove takes a directory with nothing in it.
LEMMA RemoveDirFiles ==
    ASSUME TypeOK, TasksOK, FilesOK, NEW t \in Tasks, RemoveDir(t),
           hurt' = hurt, met \subseteq met'
    PROVE  FilesOK'
<1>1. OthersStay(t) /\ task[t].fd # "open" /\ task'[t].fd # "open"
  BY Returns, ShutUnlessOpen DEF RemoveDir, At, Idle
<1>2. \A u \in Tasks, p \in Paths :
        /\ Writes(u, p)' <=> Writes(u, p)
        /\ Uploads(u, p)' <=> Uploads(u, p)
  BY <1>1, Steady
<1>3. /\ file' = file /\ plugins' = plugins
      /\ \A p \in dirs : p \in dirs' \/ (file[p] = Absent /\ plugins[p] = Absent)
  BY DEF RemoveDir
<1>4. EntriesOK'
  BY <1>2, <1>3 DEF FilesOK, EntriesOK
<1>5. PartialOK'
  BY <1>2, <1>3 DEF FilesOK, PartialOK
<1>6. JarsOK'
  <2>1. \A p \in Paths : Kept(p)
    BY <1>1, <1>2, <1>3 DEF Kept, OthersStay, Uploads
  <2> QED  BY <1>4, <2>1, JarsKeep DEF FilesOK
<1> QED
  BY <1>4, <1>5, <1>6 DEF FilesOK

\* Every step of a handler keeps the entries and accounts for the partial files.
LEMMA HandlerFiles ==
    ASSUME TypeOK, TasksOK, FilesOK, NEW t \in Tasks, Handler(t),
           hurt' = hurt, met' = met \union Meeting'
    PROVE  FilesOK'
<1>0. WorldOK /\ (task[t].pc \notin {"open", "half"} => task[t].fd = "shut")
  BY TypeParts, ShutUnlessOpen
<1>1. CASE \/ Load(t) \/ LoadFails(t) \/ Answer(t) \/ Spawn(t) \/ CreateTests(t)
           \/ SaveFindsNoDir(t) \/ RemoveChecks(t) \/ RemoveFinds(t)
           \/ RootMade(t) \/ RootAssigned(t) \/ GlobalCreates(t) \/ GlobalReads(t)
           \/ GlobalEncodes(t)
  <2>1. file' = file /\ plugins' = plugins /\ dirs' = dirs
    BY <1>1 DEF Load, LoadFails, Answer, Spawn, CreateTests, SaveFindsNoDir,
                RemoveChecks, RemoveFinds, RootMade, RootAssigned, GlobalCreates,
                GlobalReads, GlobalEncodes, world
  <2>2. task[t].pc \notin {"open", "half"}
    BY <1>1 DEF Load, LoadFails, Answer, Spawn, CreateTests, SaveFindsNoDir,
                RemoveChecks, RemoveFinds, RootMade, RootAssigned, GlobalCreates,
                GlobalReads, GlobalEncodes, At
  <2>3. OthersStay(t) /\ task'[t].fd # "open"
    <3>1. CASE Return(t)
      BY <3>1, Returns DEF Idle
    <3>2. ASSUME NEW pc \in {"checked", "assign", "assigned", "global"}, Goto(t, pc)
          PROVE  OthersStay(t) /\ task'[t].fd # "open"
      <4>1. pc \in Pcs
        BY DEF Pcs
      <4>2. OthersStay(t) /\ task'[t].fd = task[t].fd
        BY <3>2, <4>1, Goes
      <4>3. task[t].fd # "open"
        BY <1>0, <2>2
      <4> QED  BY <4>2, <4>3
    <3>3. CASE Load(t)
      BY <1>0, <2>2, <3>3, LoadMoves
    <3>4. CASE CreateTests(t)
      <4>1. OthersStay(t) /\ (task'[t] = Idle \/ task'[t].fd = task[t].fd)
        BY <3>4, CreateMoves
      <4>2. task[t].fd # "open" /\ Idle.fd = "shut"
        BY <1>0, <2>2 DEF Idle
      <4> QED  BY <4>1, <4>2
    <3>5. CASE RemoveFinds(t)
      <4>1. OthersStay(t) /\ TasksOK' /\ task'[t].pc \in {"idle", "found"}
        BY <3>5, FindMoves DEF Idle
      <4>2. task'[t].fd = "open" => task'[t].pc = "open"
        BY <4>1 DEF TasksOK, HandOK
      <4> QED  BY <4>1, <4>2
    <3>6. CASE GlobalReads(t)
      BY <1>0, <2>2, <3>6, GlobalMoves
    <3> QED
      BY <1>1, <3>1, <3>2, <3>3, <3>4, <3>5, <3>6
         DEF LoadFails, Answer, Spawn, SaveFindsNoDir, RemoveChecks, RootMade,
             RootAssigned, GlobalCreates, GlobalEncodes
  <2> QED  BY <1>0, <2>1, <2>2, <2>3, SteadyFiles
<1>2. CASE CreateMakesDir(t)
  <2>1. /\ task[t].pc = "tested" /\ Goto(t, "loaded") /\ "loaded" \in Pcs
        /\ file' = file /\ task[t].path \in Paths
    BY <1>2, Holds DEF CreateMakesDir, At, Pcs
  <2>2. OthersStay(t) /\ task'[t].fd = task[t].fd
    BY <2>1, Goes
  <2>3. \E p \in Paths :
          /\ dirs' = dirs \union {p}
          /\ \/ plugins' = plugins
             \/ plugins' = IF plugins[p] = Absent
                           THEN [plugins EXCEPT ![p] = Empty] ELSE plugins
    BY <1>2, <2>1 DEF CreateMakesDir
  <2> QED  BY <1>0, <2>1, <2>2, <2>3, SteadyFiles
<1>3. CASE PluginsMakesDir(t)
  <2>1. /\ task[t].pc = "loaded" /\ file' = file /\ task[t].path \in Paths
    BY <1>3, Holds DEF PluginsMakesDir, At
  <2>2. OthersStay(t) /\ task'[t].fd # "open"
    <3>1. "made" \in Pcs
      BY DEF Pcs
    <3> QED  BY <1>0, <1>3, <2>1, <3>1, Goes, Returns DEF PluginsMakesDir, Idle
  <2>3. \E p \in Paths :
          /\ dirs' = dirs \union {p}
          /\ plugins' = IF plugins[p] = Absent
                        THEN [plugins EXCEPT ![p] = Empty] ELSE plugins
    BY <1>3, <2>1 DEF PluginsMakesDir
  <2> QED  BY <1>0, <2>1, <2>2, <2>3, SteadyFiles
<1> QED
  BY <1>1, <1>2, <1>3, SaveCreatesFiles, SaveEncodesFiles, RemoveEmptiesFiles,
     RemoveDirFiles, UploadCreatesFiles, UploadCopiesFiles, PluginRemovedFiles
     DEF Handler

\* A failed write and a crash hurt what was being written.
LEMMA RestFiles ==
    ASSUME TypeOK, TasksOK, FilesOK,
           \/ \E t \in Tasks : Call(t) \/ IoFails(t)
           \/ \E id \in Ids : Exits(id) \/ Respawns(id)
           \/ Reboot
    PROVE  FilesOK'
<1>0. WorldOK
  BY TypeParts
<1>1. ASSUME NEW t \in Tasks, Call(t)  PROVE FilesOK'
  <2>1. /\ file' = file /\ plugins' = plugins /\ dirs' = dirs /\ hurt' = hurt
        /\ met' = met
    BY <1>1 DEF Call, world
  <2>2. task[t].fd # "open"
    BY <1>1, ShutUnlessOpen DEF Call, At
  <2>3. PICK op, id, body, to :
          task' = [task EXCEPT ![t] = [Idle EXCEPT !.op = op, !.pc = "called", !.id = id,
                                                   !.body = body, !.to = to]]
    BY <1>1 DEF Call
  <2>4. OthersStay(t) /\ task'[t].fd # "open"
    BY <2>3 DEF OthersStay, TasksOK, Idle
  <2> QED  BY <1>0, <2>1, <2>2, <2>4, SteadyFiles
<1>2. ASSUME NEW t \in Tasks, IoFails(t)  PROVE FilesOK'
  <2>1. /\ file' = file /\ plugins' = plugins /\ dirs' = dirs
        /\ hurt' = IF task[t].fd = "open" THEN hurt \union {task[t].path} ELSE hurt
    BY <1>2 DEF IoFails, world
  <2>2. OthersStay(t) /\ task'[t].fd # "open"
    BY <1>2, Returns DEF IoFails, Idle
  <2>3. \A u \in Tasks, p \in Paths :
          /\ Writes(u, p)' => Writes(u, p)
          /\ Uploads(u, p)' => Uploads(u, p)
          /\ Writes(u, p) \/ Uploads(u, p) => u # t \/ p \in hurt'
          /\ u # t => (Writes(u, p) => Writes(u, p)') /\ (Uploads(u, p) => Uploads(u, p)')
    BY <2>1, <2>2 DEF OthersStay, Writes, Uploads
  <2>4. EntriesOK'
    BY <2>1, <2>3 DEF FilesOK, EntriesOK
  <2>5. hurt \subseteq hurt'
    BY <2>1
  <2>6. PartialOK'
    BY <2>1, <2>3, <2>5 DEF FilesOK, PartialOK
  <2>7. JarsOK'
    <3>1. \A p \in Paths : Kept(p)
      BY <2>1, <2>2, <2>3 DEF Kept, OthersStay, Uploads
    <3>2. met' = met
      BY <1>2 DEF IoFails
    <3> QED  BY <2>4, <2>5, <3>1, <3>2, JarsKeep DEF FilesOK
  <2> QED  BY <2>4, <2>6, <2>7 DEF FilesOK
<1>3. ASSUME NEW id \in Ids, Exits(id) \/ Respawns(id)  PROVE FilesOK'
  <2>1. /\ file' = file /\ plugins' = plugins /\ dirs' = dirs /\ hurt' = hurt
        /\ task' = task /\ met' = met
    BY <1>3 DEF Exits, Respawns, history
  <2>2. EntriesOK'
    BY <2>1 DEF FilesOK, EntriesOK, Writes, Uploads
  <2>3. PartialOK'
    BY <2>1 DEF FilesOK, PartialOK, Writes, Uploads
  <2>4. JarsOK'
    <3>1. \A p \in Paths : Kept(p)
      BY <2>1 DEF Kept, Uploads
    <3> QED  BY <2>1, <2>2, <3>1, JarsKeep DEF FilesOK
  <2> QED  BY <2>2, <2>3, <2>4 DEF FilesOK
<1>4. CASE Reboot
  <2>1. /\ file' = file /\ plugins' = plugins /\ dirs' = dirs
        /\ hurt' = hurt \union OpenBy(Ops) /\ met' = met
        /\ \A t \in Tasks : task'[t].fd = "shut"
    BY <1>4 DEF Reboot, Idle
  <2>2. \A u \in Tasks, p \in Paths :
          /\ ~Writes(u, p)' /\ ~Uploads(u, p)'
          /\ Writes(u, p) \/ Uploads(u, p) => p \in hurt'
    <3>1. \A u \in Tasks : task[u].op \in Ops
      BY DEF TypeOK
    <3> QED  BY <2>1, <3>1 DEF Writes, Uploads, OpenBy
  <2>3. EntriesOK'
    BY <2>1, <2>2 DEF FilesOK, EntriesOK
  <2>4. PartialOK'
    BY <2>1, <2>2 DEF FilesOK, PartialOK
  <2>5. JarsOK'
    <3>1. \A p \in Paths : Kept(p)
      BY <2>1, <2>2 DEF Kept
    <3> QED  BY <2>1, <2>3, <3>1, JarsKeep DEF FilesOK
  <2> QED  BY <2>3, <2>4, <2>5 DEF FilesOK
<1> QED
  BY <1>1, <1>2, <1>3, <1>4

-----------------------------------------------------------------------------
(***************************************************************************)
(* What a request does that has the daemon to itself                       *)
(***************************************************************************)
\* The world before and after a step.
LEMMA WorldIs ==
    ASSUME NEW x \in Worlds,
           root = x.root, saved = x.saved, dirs = x.dirs, file = x.file,
           plugins = x.plugins, on = x.on, home = x.home
    PROVE  World = x
BY DEF World, Worlds

\* What Alone makes of a create, by cases.
LEMMA AloneCreate ==
    ASSUME NEW w \in Worlds, NEW k \in Requests, k.op \in Creates, k.body.name \in Names,
           NEW p \in Paths, p = Target(w, k), k.id \in Ids,
           ~((k.op = "create" /\ p \in w.dirs) \/ w.file[p] # Absent)
    PROVE  LET x == Alone(w, k)
           IN /\ x \in Worlds
              /\ x.root = IF k.to = None THEN w.root ELSE k.to
              /\ x.saved = IF k.to \in {None, w.root} THEN w.saved ELSE k.to
              /\ x.dirs = w.dirs \union {p}
              /\ x.file = [w.file EXCEPT ![p] = [name |-> k.body.name, flags |-> Default]]
              /\ x.plugins = IF k.op = "create" \/ w.plugins[p] # Absent THEN w.plugins
                             ELSE [w.plugins EXCEPT ![p] = Empty]
              /\ x.on = w.on /\ x.home = w.home
<1> DEFINE x == Alone(w, k)
<1>1. x = CreateAlone(w, k, p)
  BY DEF Alone, Target, Creates, Edits, OnPlugins
<1>2. PICK F \in [Paths -> Config \union {Absent, Empty}] :
        F = [w.file EXCEPT ![p] = [name |-> k.body.name, flags |-> Default]]
  BY ConfigurationsAssumption DEF Worlds, Config
<1>3. PICK P \in [Paths -> {Absent, Empty} \union JarFiles] :
        P = IF k.op = "create" \/ w.plugins[p] # Absent THEN w.plugins
            ELSE [w.plugins EXCEPT ![p] = Empty]
  BY DEF Worlds
<1>4. PICK R \in Roots \union {Torn} : R = IF k.to = None THEN w.root ELSE k.to
  BY DEF Worlds, Requests
<1>5. PICK S \in Roots \union {Torn, Absent, Empty} :
        S = IF k.to \in {None, w.root} THEN w.saved ELSE k.to
  BY DEF Worlds, Requests
<1>6. PICK D \in SUBSET Paths : D = w.dirs \union {p}
  BY DEF Worlds
<1>7. x = [w EXCEPT !.dirs = D, !.file = F, !.plugins = P, !.root = R, !.saved = S]
  <2>1. CreateAlone(w, k, p) =
          [w EXCEPT
             !.dirs = w.dirs \union {p},
             !.file = [w.file EXCEPT ![p] = [name |-> k.body.name, flags |-> Default]],
             !.plugins = [w.plugins EXCEPT ![p] =
                            IF k.op = "create" \/ w.plugins[p] # Absent
                            THEN w.plugins[p] ELSE Empty],
             !.root = IF k.to = None THEN w.root ELSE k.to,
             !.saved = IF k.to \in {None, w.root} THEN w.saved ELSE k.to]
    BY DEF CreateAlone, Worlds
  <2>2. P = [w.plugins EXCEPT ![p] = IF k.op = "create" \/ w.plugins[p] # Absent
                                     THEN w.plugins[p] ELSE Empty]
    BY <1>3 DEF Worlds
  <2> QED  BY <1>1, <1>2, <1>4, <1>5, <1>6, <2>1, <2>2
<1>8. /\ x \in Worlds
      /\ x.root = R /\ x.saved = S /\ x.dirs = D /\ x.file = F /\ x.plugins = P
      /\ x.on = w.on /\ x.home = w.home
  <2> HIDE DEF x
  <2> QED  BY <1>7 DEF Worlds
<1> QED
  BY <1>2, <1>3, <1>4, <1>5, <1>6, <1>8

\* What Alone makes of a change of the root.
LEMMA AloneSetRoot ==
    ASSUME NEW w \in Worlds, NEW k \in Requests, k.op = "setRoot",
           k.to \in Roots \union {Torn}
    PROVE  LET x == Alone(w, k)
           IN /\ x \in Worlds /\ x.root = k.to /\ x.saved = k.to
              /\ x.dirs = w.dirs /\ x.file = w.file /\ x.plugins = w.plugins
              /\ x.on = w.on /\ x.home = w.home
<1> DEFINE x == Alone(w, k)
<1>1. x = [w EXCEPT !.root = k.to, !.saved = k.to]
  BY DEF Alone, Creates, Edits, OnPlugins
<1> HIDE DEF x
<1>2. /\ x \in Worlds /\ x.root = k.to /\ x.saved = k.to
      /\ x.dirs = w.dirs /\ x.file = w.file /\ x.plugins = w.plugins
      /\ x.on = w.on /\ x.home = w.home
  BY <1>1 DEF Worlds
<1> QED
  BY <1>2 DEF x

\* What Alone makes of a Remove.
LEMMA AloneRemove ==
    ASSUME NEW w \in Worlds, NEW k \in Requests, k.op = "remove", w.on[k.id] # "on",
           NEW p \in Paths, p = Target(w, k)
    PROVE  LET x == Alone(w, k)
           IN /\ x \in Worlds /\ x.root = w.root /\ x.saved = w.saved
              /\ x.dirs = w.dirs \ {p}
              /\ x.file = [w.file EXCEPT ![p] = Absent]
              /\ x.plugins = [w.plugins EXCEPT ![p] = Absent]
              /\ x.on = w.on /\ x.home = w.home
<1> DEFINE x == Alone(w, k)
<1>1. PICK F \in [Paths -> Config \union {Absent, Empty}] : F = [w.file EXCEPT ![p] = Absent]
  BY DEF Worlds
<1>2. PICK P \in [Paths -> {Absent, Empty} \union JarFiles] :
        P = [w.plugins EXCEPT ![p] = Absent]
  BY DEF Worlds
<1>3. PICK D \in SUBSET Paths : D = w.dirs \ {p}
  BY DEF Worlds
<1>4. x = [w EXCEPT !.dirs = w.dirs \ {p}, !.file = [w.file EXCEPT ![p] = Absent],
                    !.plugins = [w.plugins EXCEPT ![p] = Absent]]
  BY DEF Alone, Target, Creates, Edits, OnPlugins, Worlds
<1>5. x = [w EXCEPT !.dirs = D, !.file = F, !.plugins = P]
  BY <1>1, <1>2, <1>3, <1>4
<1> HIDE DEF x
<1>6. /\ x \in Worlds /\ x.root = w.root /\ x.saved = w.saved
      /\ x.dirs = D /\ x.file = F /\ x.plugins = P
      /\ x.on = w.on /\ x.home = w.home
  BY <1>5 DEF Worlds
<1> QED
  BY <1>1, <1>2, <1>3, <1>6 DEF x

\* What Alone makes of a settings request.
LEMMA AloneEdit ==
    ASSUME NEW w \in Worlds, NEW k \in Requests, k.op \in Edits, k.body \in AnyBody,
           NEW p \in Paths, p = Target(w, k), w.file[p] \in Config
    PROVE  LET x == Alone(w, k)
           IN /\ x \in Worlds /\ x.root = w.root /\ x.saved = w.saved
              /\ x.dirs = w.dirs /\ x.plugins = w.plugins
              /\ x.file = [w.file EXCEPT ![p] = Patched(w.file[p], k.body)]
              /\ x.on = w.on /\ x.home = w.home
<1> DEFINE x == Alone(w, k)
<1>1. PICK c \in Config : c = Patched(w.file[p], k.body)
  BY PatchedType
<1>2. PICK F \in [Paths -> Config \union {Absent, Empty}] : F = [w.file EXCEPT ![p] = c]
  BY DEF Worlds
<1>3. x = [w EXCEPT !.file = [w.file EXCEPT ![p] = Patched(w.file[p], k.body)]]
  BY DEF Alone, Target, Creates, Edits, OnPlugins, Worlds
<1>4. x = [w EXCEPT !.file = F]
  BY <1>1, <1>2, <1>3
<1> HIDE DEF x
<1>5. /\ x \in Worlds /\ x.root = w.root /\ x.saved = w.saved
      /\ x.dirs = w.dirs /\ x.file = F /\ x.plugins = w.plugins
      /\ x.on = w.on /\ x.home = w.home
  BY <1>4 DEF Worlds
<1> QED
  BY <1>1, <1>2, <1>5 DEF x

\* What Alone makes of a plugins request.
LEMMA AlonePlugins ==
    ASSUME NEW w \in Worlds, NEW k \in Requests, k.op \in OnPlugins,
           k.op = "upload" => k.body.jar \in Jars,
           NEW p \in Paths, p = Target(w, k), w.file[p] \in Config
    PROVE  LET x == Alone(w, k)
           IN /\ x \in Worlds /\ x.root = w.root /\ x.saved = w.saved
              /\ x.dirs = w.dirs \union {p} /\ x.file = w.file
              /\ x.plugins = [w.plugins EXCEPT ![p] =
                                CASE k.op = "upload" -> Whole(k.body.jar)
                                  [] k.op = "plugins" /\ w.plugins[p] # Absent -> w.plugins[p]
                                  [] OTHER -> Empty]
              /\ x.on = w.on /\ x.home = w.home
<1> DEFINE x == Alone(w, k)
           jar == CASE k.op = "upload" -> Whole(k.body.jar)
                    [] k.op = "plugins" /\ w.plugins[p] # Absent -> w.plugins[p]
                    [] OTHER -> Empty
<1>1. PICK j \in {Absent, Empty} \union JarFiles : j = jar
  BY JarParts DEF Worlds
<1>2. PICK P \in [Paths -> {Absent, Empty} \union JarFiles] : P = [w.plugins EXCEPT ![p] = j]
  BY DEF Worlds
<1>3. PICK D \in SUBSET Paths : D = w.dirs \union {p}
  BY DEF Worlds
<1>4. x = PluginsAlone(w, k, p)
  BY DEF Alone, Target, Creates, Edits, OnPlugins
<1>5. PluginsAlone(w, k, p) =
        [w EXCEPT !.dirs = w.dirs \union {p}, !.plugins = [w.plugins EXCEPT ![p] = jar]]
  BY DEF PluginsAlone, Worlds
<1>6. x = [w EXCEPT !.dirs = D, !.plugins = P]
  BY <1>1, <1>2, <1>3, <1>4, <1>5
<1> HIDE DEF x
<1>7. /\ x \in Worlds /\ x.root = w.root /\ x.saved = w.saved
      /\ x.dirs = D /\ x.file = w.file /\ x.plugins = P
      /\ x.on = w.on /\ x.home = w.home
  BY <1>6 DEF Worlds
<1> QED
  BY <1>1, <1>2, <1>3, <1>7 DEF x

\* What Alone makes of a Start.
LEMMA AloneStart ==
    ASSUME NEW w \in Worlds, NEW k \in Requests, k.op = "start", k.id \in Ids,
           NEW p \in Paths, p = Target(w, k), w.file[p] \in Config, w.on[k.id] # "on"
    PROVE  LET x == Alone(w, k)
           IN /\ x \in Worlds /\ x.root = w.root /\ x.saved = w.saved
              /\ x.dirs = w.dirs /\ x.file = w.file /\ x.plugins = w.plugins
              /\ x.on = [w.on EXCEPT ![k.id] = "on"]
              /\ x.home = [w.home EXCEPT ![k.id] = p]
<1> DEFINE x == Alone(w, k)
<1>1. PICK N \in [Ids -> {"off", "on", "down"}] : N = [w.on EXCEPT ![k.id] = "on"]
  BY DEF Worlds
<1>2. PICK H \in [Ids -> Paths \union {None}] : H = [w.home EXCEPT ![k.id] = p]
  BY DEF Worlds
<1>3. x = [w EXCEPT !.on = [w.on EXCEPT ![k.id] = "on"],
                    !.home = [w.home EXCEPT ![k.id] = p]]
  BY DEF Alone, Target, Creates, Edits, OnPlugins, Worlds
<1>4. x = [w EXCEPT !.on = N, !.home = H]
  BY <1>1, <1>2, <1>3
<1> HIDE DEF x
<1>5. /\ x \in Worlds /\ x.root = w.root /\ x.saved = w.saved
      /\ x.dirs = w.dirs /\ x.file = w.file /\ x.plugins = w.plugins
      /\ x.on = N /\ x.home = H
  BY <1>4 DEF Worlds
<1> QED
  BY <1>1, <1>2, <1>5 DEF x

\* A request that is refused changes nothing.
LEMMA AloneRefused ==
    ASSUME NEW w \in Worlds, NEW k \in Requests,
           \/ k.op = "get"
           \/ k.op = "remove" /\ w.on[k.id] = "on"
           \/ k.op \in Edits \union OnPlugins /\ w.file[Target(w, k)] \notin Config
           \/ k.op = "start" /\ (w.file[Target(w, k)] \notin Config \/ w.on[k.id] = "on")
           \/ /\ k.op \in Creates
              /\ \/ k.op = "create" /\ Target(w, k) \in w.dirs
                 \/ w.file[Target(w, k)] # Absent
    PROVE  Alone(w, k) = w
<1>1. CASE k.op = "get"
  BY <1>1 DEF Alone, Creates, Edits, OnPlugins
<1>2. CASE k.op = "remove" /\ w.on[k.id] = "on"
  BY <1>2 DEF Alone, Creates, Edits, OnPlugins
<1>3. CASE k.op \in Edits \union OnPlugins /\ w.file[Target(w, k)] \notin Config
  BY <1>3 DEF Alone, Target, Creates, Edits, OnPlugins
<1>4. CASE k.op = "start" /\ (w.file[Target(w, k)] \notin Config \/ w.on[k.id] = "on")
  BY <1>4 DEF Alone, Target, Creates, Edits, OnPlugins
<1>5. CASE /\ k.op \in Creates
           /\ \/ k.op = "create" /\ Target(w, k) \in w.dirs
              \/ w.file[Target(w, k)] # Absent
  <2>1. Alone(w, k) = CreateAlone(w, k, Target(w, k))
    BY <1>5 DEF Alone, Target, Creates, Edits, OnPlugins
  <2> QED  BY <1>5, <2>1 DEF CreateAlone
<1> QED
  BY <1>1, <1>2, <1>3, <1>4, <1>5

-----------------------------------------------------------------------------
(***************************************************************************)
(* A request that has the daemon to itself, step by step                   *)
(***************************************************************************)
\* It finds its server where the root says.
LEMMA AloneSees ==
    ASSUME NEW t \in Tasks, OthersIdle(t), task[t].pc # "assign"
    PROVE  SeenRoots = {root} /\ SeenPaths(t) = {<<root, task[t].id>>}
<1>1. \A u \in Tasks : task[u].pc # "assign"
  BY DEF OthersIdle, At
<1>2. {u \in Tasks : task[u].pc = "assign"} = {}
  BY <1>1
<1>3. SeenRoots = {root}
  BY <1>2 DEF SeenRoots
<1> QED
  BY <1>3 DEF SeenPaths

\* The path a request alone is about is a path of its server.
LEMMA TargetType ==
    ASSUME NEW w, NEW k, BegunOK(w, k)
    PROVE  Target(w, k) \in Paths
BY DEF BegunOK, Target, Worlds, Requests, Paths

\* It is over when it has returned and the world is x.
LEMMA Finishes ==
    ASSUME NEW t \in Tasks, OthersIdle(t), OthersStay(t), task'[t] = Idle,
           NEW w, NEW k, NEW x \in Worlds, x = Alone(w, k),
           root' = x.root, saved' = x.saved, dirs' = x.dirs, file' = x.file,
           plugins' = x.plugins, on' = x.on, home' = x.home
    PROVE  Over(w, k)'
<1>1. World' = x
  BY DEF World, Worlds
<1>2. AllIdle'
  BY DEF AllIdle, OthersIdle, OthersStay, At, Idle
<1> QED
  BY <1>1, <1>2 DEF Over

\* A request on its way stays on its way if what it knows still holds.
LEMMA GoesOn ==
    ASSUME NEW t \in Tasks, OthersIdle(t), OthersStay(t), NEW n, task'[t] = n,
           n.pc # "idle", NEW w, NEW k,
           FoundOK(w, k, n, Target(w, k)), DoneOK(w, k, n, Target(w, k))'
    PROVE  Halfway(t, w, k)'
<1>1. OthersIdle(t)' /\ ~At(t, "idle")'
  BY DEF OthersIdle, OthersStay, At
<1>2. FoundOK(w, k, task[t], Target(w, k))'
  BY DEF FoundOK
<1>3. DoneOK(w, k, task[t], Target(w, k))'
  BY DEF DoneOK, Made
<1> QED
  BY <1>1, <1>2, <1>3 DEF Halfway

\* What is known of a request on its way, with the target by name.
LEMMA Halfways ==
    ASSUME TasksOK, NEW t \in Tasks, NEW w, NEW k, BegunOK(w, k), Halfway(t, w, k)
    PROVE  /\ w \in Worlds /\ k \in Requests /\ Target(w, k) \in Paths
           /\ OthersIdle(t) /\ task[t].pc # "idle"
           /\ task[t] \in Requests /\ HandOK(task[t]) /\ WhereOK(task[t])
           /\ FoundOK(w, k, task[t], Target(w, k))
           /\ DoneOK(w, k, task[t], Target(w, k))
           /\ k.op = task[t].op /\ k.id = task[t].id /\ k.body = task[t].body
           /\ k.to = task[t].to /\ k.id \in Ids
           /\ k.op = "upload" => k.body.jar \in Jars
           /\ task[t].pc # "assign" => SeenRoots = {root}
           /\ task[t].pc # "assign" /\ root = w.root
              /\ (k.op # "httpCreate" \/ k.to = None) => SeenPaths(t) = {Target(w, k)}
<1>1. /\ w \in Worlds /\ k \in Requests /\ k.id \in Ids
      /\ OthersIdle(t) /\ task[t].pc # "idle"
      /\ FoundOK(w, k, task[t], Target(w, k))
      /\ DoneOK(w, k, task[t], Target(w, k))
      /\ k.op = task[t].op /\ k.id = task[t].id /\ k.body = task[t].body
      /\ k.to = task[t].to
  BY DEF BegunOK, Halfway, FoundOK, At
<1>2. Target(w, k) \in Paths
  BY TargetType
<1>3. task[t] \in Requests /\ HandOK(task[t]) /\ WhereOK(task[t])
  BY DEF TasksOK
<1>4. task[t].pc # "assign" =>
        SeenRoots = {root} /\ SeenPaths(t) = {<<root, task[t].id>>}
  BY <1>1, AloneSees
<1>5. root = w.root /\ (k.op # "httpCreate" \/ k.to = None) =>
        Target(w, k) = <<root, task[t].id>>
  BY <1>1 DEF Target
<1>6. k.op = "upload" => k.body.jar \in Jars
  BY <1>1, <1>3 DEF HandOK
<1> QED
  BY <1>1, <1>2, <1>3, <1>4, <1>5, <1>6

\* Loading alone: the configuration found is the one of the target.
LEMMA AloneLoad ==
    ASSUME TypeOK, TasksOK, NEW t \in Tasks, NEW w, NEW k, BegunOK(w, k),
           Halfway(t, w, k), Load(t)
    PROVE  Halfway(t, w, k)'
<1>1. PICK p \in Paths : p = Target(w, k)
  BY Halfways
<1>2. /\ FoundOK(w, k, task[t], p) /\ DoneOK(w, k, task[t], p)
      /\ k.op = task[t].op /\ k.id = task[t].id /\ k.body = task[t].body
      /\ k.to = task[t].to /\ task[t] \in Requests
  BY <1>1, Halfways
<1>3. /\ task[t].pc = "called" /\ task[t].op \notin Creates \union {"remove", "setRoot"}
      /\ UNCHANGED world
      /\ task[t].op = "start" => on[task[t].id] # "on"
  BY DEF Load, At
<1>4. /\ root = w.root /\ saved = w.saved /\ dirs = w.dirs /\ file = w.file
      /\ plugins = w.plugins /\ on = w.on /\ home = w.home
  BY <1>2, <1>3 DEF DoneOK, Made
<1>5. SeenPaths(t) = {p}
  BY <1>1, <1>2, <1>3, <1>4, Halfways DEF Creates
<1>6. PICK n : n = task'[t]
  OBVIOUS
<1>7. /\ OthersStay(t) /\ n.pc = "loaded" /\ n.path = p /\ file[p] \in Config
      /\ n.cfg = Patched(file[p], k.body) /\ n.to = k.to /\ n.op = k.op
      /\ n.id = k.id /\ n.body = k.body
  BY <1>2, <1>5, <1>6, LoadMoves DEF Same
<1>8. FoundOK(w, k, n, p)
  BY <1>2, <1>3, <1>4, <1>7 DEF FoundOK
<1>9. DoneOK(w, k, n, p)'
  BY <1>2, <1>3, <1>4, <1>7 DEF DoneOK, Made, world
<1>10. OthersIdle(t)
  BY Halfways
<1> QED
  BY <1>1, <1>6, <1>7, <1>8, <1>9, <1>10, GoesOn

\* Nothing has changed before the first step that changes anything.
LEMMA NothingYet ==
    ASSUME NEW w, NEW k, NEW n, NEW p, DoneOK(w, k, n, p), WhereOK(n),
           \/ n.pc \in {"called", "tested", "checked", "found"}
           \/ n.pc = "loaded" /\ n.op \notin Creates
    PROVE  /\ root = w.root /\ saved = w.saved /\ dirs = w.dirs /\ file = w.file
           /\ plugins = w.plugins /\ on = w.on /\ home = w.home
BY DEF DoneOK, Made, WhereOK, Creates, OnPlugins

\* A request that returns before it has changed anything was refused.
LEMMA AloneReturns ==
    ASSUME TypeOK, TasksOK, NEW t \in Tasks, NEW w, NEW k, BegunOK(w, k),
           Halfway(t, w, k), OthersStay(t), task'[t] = Idle, UNCHANGED world,
           \/ task[t].pc \in {"called", "tested", "checked", "found"}
           \/ task[t].pc = "loaded" /\ task[t].op \notin Creates,
           Alone(w, k) = w
    PROVE  Over(w, k)'
<1>1. w \in Worlds /\ OthersIdle(t) /\ DoneOK(w, k, task[t], Target(w, k))
  BY Halfways
<1>2. /\ root = w.root /\ saved = w.saved /\ dirs = w.dirs /\ file = w.file
      /\ plugins = w.plugins /\ on = w.on /\ home = w.home
  BY <1>1, NothingYet DEF TasksOK
<1> QED
  BY <1>1, <1>2, Finishes DEF world

\* Loading alone fails for a server that is missing, or a start of one that runs.
LEMMA AloneLoadFails ==
    ASSUME TypeOK, TasksOK, NEW t \in Tasks, NEW w, NEW k, BegunOK(w, k),
           Halfway(t, w, k), LoadFails(t)
    PROVE  Over(w, k)'
<1>1. PICK p \in Paths : p = Target(w, k)
  BY Halfways
<1>2. /\ DoneOK(w, k, task[t], p) /\ k \in Requests /\ w \in Worlds
      /\ k.op = task[t].op /\ k.id = task[t].id
  BY <1>1, Halfways
<1>3. /\ task[t].pc = "called" /\ task[t].op \notin Creates \union {"remove", "setRoot"}
      /\ UNCHANGED world /\ Return(t)
      /\ \/ \E q \in SeenPaths(t) : file[q] \notin Config
         \/ task[t].op = "start" /\ on[task[t].id] = "on"
  BY DEF LoadFails, At
<1>4. root = w.root /\ file = w.file /\ on = w.on
  BY <1>2, <1>3, NothingYet DEF TasksOK
<1>5. SeenPaths(t) = {p}
  BY <1>1, <1>2, <1>3, <1>4, Halfways DEF Creates
<1>6. k.op \in Edits \union OnPlugins \union {"get", "start"}
  BY <1>2, <1>3 DEF Requests, Ops
<1>7. Alone(w, k) = w
  BY <1>1, <1>2, <1>3, <1>4, <1>5, <1>6, AloneRefused
<1>8. OthersStay(t) /\ task'[t] = Idle
  BY <1>3, Returns
<1> QED
  BY <1>3, <1>7, <1>8, AloneReturns

\* A listing alone has changed nothing.
LEMMA AloneAnswer ==
    ASSUME TypeOK, TasksOK, NEW t \in Tasks, NEW w, NEW k, BegunOK(w, k),
           Halfway(t, w, k), Answer(t)
    PROVE  Over(w, k)'
<1>1. /\ task[t].pc = "loaded" /\ task[t].op = "get" /\ Return(t) /\ UNCHANGED world
      /\ task[t].op \notin Creates
  BY DEF Answer, At, Creates
<1>2. k.op = "get" /\ w \in Worlds /\ k \in Requests
  BY <1>1, Halfways
<1>3. Alone(w, k) = w
  BY <1>2, AloneRefused
<1>4. OthersStay(t) /\ task'[t] = Idle
  BY <1>1, Returns
<1> QED
  BY <1>1, <1>3, <1>4, AloneReturns

\* The configuration of a start is in its directory, so there is one.
LEMMA AloneSpawn ==
    ASSUME TypeOK, TasksOK, NEW t \in Tasks, NEW w, NEW k, BegunOK(w, k),
           Halfway(t, w, k), Spawn(t)
    PROVE  Over(w, k)'
<1>1. PICK p \in Paths : p = Target(w, k)
  BY Halfways
<1>2. /\ FoundOK(w, k, task[t], p) /\ DoneOK(w, k, task[t], p)
      /\ k.op = task[t].op /\ k.id = task[t].id /\ k \in Requests
      /\ OthersIdle(t) /\ w \in Worlds /\ k.id \in Ids
  BY <1>1, Halfways
<1>3. /\ task[t].pc = "loaded" /\ task[t].op = "start" /\ Return(t)
      /\ task[t].op \notin Creates
      /\ UNCHANGED <<root, saved, dirs, file, plugins>>
  BY DEF Spawn, At, Creates
<1>4. /\ root = w.root /\ saved = w.saved /\ dirs = w.dirs /\ file = w.file
      /\ plugins = w.plugins /\ on = w.on /\ home = w.home
  BY <1>2, <1>3, NothingYet DEF TasksOK
<1>5. task[t].path = p /\ w.file[p] \in Config /\ w.on[k.id] # "on"
  BY <1>2, <1>3 DEF FoundOK
<1>6. p \in dirs
  BY <1>1, <1>4, <1>5, AbsentIsNoConfig DEF BegunOK
<1>7. on' = [w.on EXCEPT ![k.id] = "on"] /\ home' = [w.home EXCEPT ![k.id] = p]
  BY <1>2, <1>4, <1>5, <1>6 DEF Spawn
<1>8. PICK x : x = Alone(w, k)
  OBVIOUS
<1>9. /\ x \in Worlds /\ x.root = w.root /\ x.saved = w.saved
      /\ x.dirs = w.dirs /\ x.file = w.file /\ x.plugins = w.plugins
      /\ x.on = [w.on EXCEPT ![k.id] = "on"]
      /\ x.home = [w.home EXCEPT ![k.id] = p]
  BY <1>1, <1>2, <1>3, <1>5, <1>8, AloneStart
<1>10. OthersStay(t) /\ task'[t] = Idle
  BY <1>3, Returns
<1> QED
  BY <1>2, <1>3, <1>4, <1>7, <1>8, <1>9, <1>10, Finishes

\* A create alone finds out whether its server exists.
LEMMA AloneCreateTests ==
    ASSUME TypeOK, TasksOK, NEW t \in Tasks, NEW w, NEW k, BegunOK(w, k),
           Halfway(t, w, k), CreateTests(t)
    PROVE  Over(w, k)' \/ Halfway(t, w, k)'
<1>1. PICK p \in Paths : p = Target(w, k)
  BY Halfways
<1>2. /\ FoundOK(w, k, task[t], p) /\ DoneOK(w, k, task[t], p)
      /\ k.op = task[t].op /\ k.id = task[t].id /\ k.body = task[t].body
      /\ k.to = task[t].to /\ k \in Requests /\ w \in Worlds /\ OthersIdle(t)
  BY <1>1, Halfways
<1>3. /\ task[t].pc = "called" /\ task[t].op \in Creates /\ UNCHANGED world
  BY DEF CreateTests, At
<1>4. /\ root = w.root /\ saved = w.saved /\ dirs = w.dirs /\ file = w.file
      /\ plugins = w.plugins /\ on = w.on /\ home = w.home
  BY <1>2, <1>3, NothingYet DEF TasksOK
<1>5. (IF task[t].to = None THEN SeenPaths(t) ELSE {<<task[t].to, task[t].id>>}) = {p}
  <2>1. CASE k.to = None
    BY <1>1, <1>2, <1>3, <1>4, <2>1, Halfways
  <2>2. CASE k.to # None
    <3>1. k.op = "httpCreate"
      BY <1>2, <1>3, <2>2 DEF TasksOK, HandOK, Creates
    <3> QED  BY <1>1, <1>2, <2>2, <3>1 DEF Target
  <2> QED  BY <2>1, <2>2
<1>6. PICK n : n = task'[t]
  OBVIOUS
<1>7. /\ OthersStay(t)
      /\ \/ Exists(t, p) /\ n = Idle
         \/ /\ ~Exists(t, p) /\ n.op = k.op /\ n.id = k.id /\ n.body = k.body
            /\ n.pc = "tested" /\ n.path = p /\ n.to = k.to
            /\ n.cfg = [name |-> k.body.name, flags |-> Default]
  BY <1>2, <1>5, <1>6, CreateMoves DEF Same
<1>8. CASE Exists(t, p) /\ n = Idle
  <2>1. Alone(w, k) = w
    BY <1>1, <1>2, <1>3, <1>4, <1>8, AloneRefused DEF Exists
  <2> QED  BY <1>3, <1>6, <1>7, <1>8, <2>1, AloneReturns
<1>9. CASE ~Exists(t, p) /\ n.pc = "tested"
  <2>1. /\ n.op = k.op /\ n.id = k.id /\ n.body = k.body /\ n.path = p
        /\ n.to = k.to /\ n.cfg = [name |-> k.body.name, flags |-> Default]
    BY <1>7, <1>9 DEF Idle
  <2>2. w.file[p] = Absent /\ (k.op = "create" => p \notin w.dirs)
    BY <1>1, <1>2, <1>4, <1>9 DEF Exists, BegunOK
  <2>3. n.op \notin Edits \union OnPlugins \union {"remove", "start"}
    BY <1>2, <1>3, <2>1 DEF Creates, Edits, OnPlugins
  <2>4. FoundOK(w, k, n, p)
    BY <1>9, <2>1, <2>2, <2>3 DEF FoundOK
  <2>5. DoneOK(w, k, n, p)'
    BY <1>3, <1>4, <1>9, <2>3 DEF DoneOK, Made, world
  <2> QED  BY <1>1, <1>2, <1>6, <1>7, <1>9, <2>4, <2>5, GoesOn
<1> QED
  BY <1>7, <1>8, <1>9

\* A create alone makes its directory under the root.
LEMMA AloneMakesDir ==
    ASSUME TypeOK, TasksOK, NEW t \in Tasks, NEW w, NEW k, BegunOK(w, k),
           Halfway(t, w, k), CreateMakesDir(t)
    PROVE  Halfway(t, w, k)'
<1>1. PICK p \in Paths : p = Target(w, k)
  BY Halfways
<1>2. /\ FoundOK(w, k, task[t], p) /\ DoneOK(w, k, task[t], p)
      /\ WhereOK(task[t]) /\ w \in Worlds /\ OthersIdle(t)
  BY <1>1, Halfways
<1>3. /\ task[t].pc = "tested" /\ Goto(t, "loaded") /\ "loaded" \in Pcs
      /\ UNCHANGED <<root, saved, file, on, home>>
  BY DEF CreateMakesDir, At, Pcs
<1>4. /\ root = w.root /\ saved = w.saved /\ dirs = w.dirs /\ file = w.file
      /\ plugins = w.plugins /\ on = w.on /\ home = w.home
  BY <1>2, <1>3, NothingYet
<1>5. /\ task[t].op \in Creates /\ task[t].path = p
      /\ task[t].op \notin Edits \union OnPlugins \union {"remove", "start"}
  BY <1>2, <1>3 DEF FoundOK, WhereOK, Creates, Edits, OnPlugins
<1>6. PICK n : n = task'[t]
  OBVIOUS
<1>7. /\ OthersStay(t) /\ n.pc = "loaded"
      /\ n.op = task[t].op /\ n.id = task[t].id /\ n.path = task[t].path
      /\ n.body = task[t].body /\ n.to = task[t].to /\ n.cfg = task[t].cfg
  BY <1>3, <1>6, Goes
<1>8. FoundOK(w, k, n, p)
  BY <1>2, <1>3, <1>5, <1>7 DEF FoundOK
<1>9. /\ dirs' = w.dirs \union {p}
      /\ plugins' = IF task[t].op = "create" \/ w.plugins[p] # Absent
                    THEN w.plugins ELSE [w.plugins EXCEPT ![p] = Empty]
  BY <1>4, <1>5 DEF CreateMakesDir
<1>10. DoneOK(w, k, n, p)'
  BY <1>3, <1>4, <1>5, <1>7, <1>9 DEF DoneOK, Made
<1> QED
  BY <1>1, <1>2, <1>6, <1>7, <1>8, <1>10, GoesOn

\* At its first look at the disk a save finds the directory it has made, or
\* the one its configuration was in.
LEMMA AloneSavePath ==
    ASSUME TypeOK, TasksOK, NEW t \in Tasks, NEW w, NEW k, BegunOK(w, k),
           Halfway(t, w, k), task[t].pc = "loaded", task[t].op \in Saves
    PROVE  SavePaths(t) = {Target(w, k)} /\ Target(w, k) \in dirs
<1>1. PICK p \in Paths : p = Target(w, k)
  BY Halfways
<1>2. /\ FoundOK(w, k, task[t], p) /\ DoneOK(w, k, task[t], p)
      /\ k.op = task[t].op /\ k.id = task[t].id
  BY <1>1, Halfways
<1>3. root = w.root /\ task[t].path = p
  BY <1>2 DEF DoneOK, FoundOK
<1>4. SavePaths(t) = {p}
  BY <1>1, <1>2, <1>3, Halfways DEF SavePaths
<1>5. CASE task[t].op \in Creates
  BY <1>1, <1>2, <1>4, <1>5 DEF DoneOK, Made
<1>6. CASE task[t].op \in Edits
  <2>1. w.file[p] \in Config /\ task[t].op \notin Creates
    BY <1>2, <1>6 DEF FoundOK, Creates, Edits
  <2>2. dirs = w.dirs /\ p \in w.dirs
    BY <1>1, <1>2, <2>1, AbsentIsNoConfig, NothingYet DEF BegunOK, TasksOK
  <2> QED  BY <1>1, <1>4, <2>2
<1> QED
  BY <1>5, <1>6 DEF Saves

\* A save alone truncates the file of its target, and nothing else.
LEMMA AloneSaveCreates ==
    ASSUME TypeOK, TasksOK, NEW t \in Tasks, NEW w, NEW k, BegunOK(w, k),
           Halfway(t, w, k), SaveCreates(t)
    PROVE  Halfway(t, w, k)'
<1>1. PICK p \in Paths : p = Target(w, k)
  BY Halfways
<1>2. /\ FoundOK(w, k, task[t], p) /\ DoneOK(w, k, task[t], p)
      /\ w \in Worlds /\ OthersIdle(t)
  BY <1>1, Halfways
<1>3. /\ task[t].pc = "loaded" /\ task[t].op \in Saves
      /\ UNCHANGED <<root, saved, dirs, plugins, on, home>>
  BY DEF SaveCreates, At, Saves
<1>4. SavePaths(t) = {p}
  BY <1>1, <1>3, AloneSavePath
<1>5. PICK n : n = task'[t]
  OBVIOUS
<1>6. /\ file' = [file EXCEPT ![p] = Empty]
      /\ OthersStay(t) /\ n.op = task[t].op /\ n.id = task[t].id
      /\ n.body = task[t].body /\ n.pc = "open" /\ n.path = p /\ n.fd = "open"
      /\ n.cfg = task[t].cfg /\ n.to = task[t].to
  BY <1>4, <1>5, SaveMoves DEF Same
<1>7. task[t].op \notin OnPlugins \union {"remove", "start", "upload"}
  BY <1>3 DEF Saves, Creates, Edits, OnPlugins
<1>8. FoundOK(w, k, n, p)
  BY <1>2, <1>3, <1>6, <1>7 DEF FoundOK
<1>9. file = w.file
  BY <1>2, <1>3 DEF DoneOK
<1>10. DoneOK(w, k, n, p)'
  BY <1>2, <1>3, <1>6, <1>7, <1>9 DEF DoneOK, Made
<1> QED
  BY <1>1, <1>2, <1>5, <1>6, <1>8, <1>10, GoesOn

\* The configuration goes into the file that was truncated; a create over HTTP
\* goes on if it was given another root.
LEMMA AloneSaveEncodes ==
    ASSUME TypeOK, TasksOK, NEW t \in Tasks, NEW w, NEW k, BegunOK(w, k),
           Halfway(t, w, k), SaveEncodes(t)
    PROVE  Over(w, k)' \/ Halfway(t, w, k)'
<1>1. PICK p \in Paths : p = Target(w, k)
  BY Halfways
<1>2. /\ FoundOK(w, k, task[t], p) /\ DoneOK(w, k, task[t], p)
      /\ k.op = task[t].op /\ k.id = task[t].id /\ k.body = task[t].body
      /\ k.to = task[t].to /\ k.id \in Ids /\ k \in Requests /\ w \in Worlds
      /\ OthersIdle(t) /\ HandOK(task[t]) /\ WhereOK(task[t])
  BY <1>1, Halfways
<1>3. /\ task[t].pc = "open" /\ task[t].op \in Saves
      /\ UNCHANGED <<root, saved, dirs, plugins, on, home>>
  BY DEF SaveEncodes, At, Saves
<1>4. /\ root = w.root /\ saved = w.saved /\ on = w.on /\ home = w.home
      /\ file = [w.file EXCEPT ![p] = Empty]
  BY <1>2, <1>3 DEF DoneOK
<1>5. task[t].fd = "open" /\ task[t].path = p
  BY <1>2, <1>3 DEF FoundOK
<1>6. file' = [w.file EXCEPT ![p] = task[t].cfg]
  BY <1>1, <1>2, <1>4, <1>5 DEF SaveEncodes, Worlds
<1>7. SeenRoots = {w.root}
  BY <1>3, <1>4, Halfways
<1>8. PICK n : n = task'[t]
  OBVIOUS
<1>9. /\ OthersStay(t)
      /\ \/ k.to \in {None, w.root} /\ n = Idle
         \/ /\ k.to \notin {None, w.root} /\ n.pc = "assign"
            /\ n.op = k.op /\ n.id = k.id /\ n.body = k.body
            /\ n.fd = "shut" /\ n.to = k.to
  BY <1>2, <1>7, <1>8, EncodeMoves DEF Same
<1>10. CASE task[t].op \in Edits
  <2>1. /\ w.file[p] \in Config /\ task[t].cfg = Patched(w.file[p], k.body)
    BY <1>2, <1>3, <1>10 DEF FoundOK
  <2>2. /\ task[t].op \notin Creates \union OnPlugins \union {"upload"}
        /\ k.to = None /\ k.body \in AnyBody
    BY <1>2, <1>3, <1>10 DEF HandOK, Creates, Edits, OnPlugins
  <2>3. dirs = w.dirs /\ plugins = w.plugins
    BY <1>2, <1>3, <2>2 DEF DoneOK, Made
  <2>4. PICK x : x = Alone(w, k)
    OBVIOUS
  <2>5. /\ x \in Worlds /\ x.root = w.root /\ x.saved = w.saved
        /\ x.dirs = w.dirs /\ x.plugins = w.plugins
        /\ x.file = [w.file EXCEPT ![p] = Patched(w.file[p], k.body)]
        /\ x.on = w.on /\ x.home = w.home
    BY <1>1, <1>2, <1>10, <2>1, <2>2, <2>4, AloneEdit
  <2> QED
    BY <1>2, <1>3, <1>4, <1>6, <1>8, <1>9, <2>1, <2>2, <2>3, <2>4, <2>5, Finishes
<1>11. CASE task[t].op \in Creates
  <2>1. /\ w.file[p] = Absent /\ (k.op = "create" => p \notin w.dirs)
        /\ task[t].cfg = [name |-> k.body.name, flags |-> Default]
    BY <1>2, <1>3, <1>11 DEF FoundOK
  <2>2. task[t].op \notin Edits \union OnPlugins \union {"upload", "remove", "start"}
    BY <1>11 DEF Creates, Edits, OnPlugins
  <2>3. /\ dirs = w.dirs \union {p}
        /\ plugins = IF k.op = "create" \/ w.plugins[p] # Absent THEN w.plugins
                     ELSE [w.plugins EXCEPT ![p] = Empty]
    BY <1>2, <1>3, <1>11, <2>2 DEF DoneOK, Made
  <2>4. CASE k.to \in {None, w.root} /\ n = Idle
    <3>1. k.body.name \in Names
      BY <1>2, <1>3, <1>11 DEF HandOK
    <3>2. PICK x : x = Alone(w, k)
      OBVIOUS
    <3>3. /\ x \in Worlds
          /\ x.root = IF k.to = None THEN w.root ELSE k.to
          /\ x.saved = IF k.to \in {None, w.root} THEN w.saved ELSE k.to
          /\ x.dirs = w.dirs \union {p}
          /\ x.file = [w.file EXCEPT ![p] = [name |-> k.body.name, flags |-> Default]]
          /\ x.plugins = IF k.op = "create" \/ w.plugins[p] # Absent THEN w.plugins
                         ELSE [w.plugins EXCEPT ![p] = Empty]
          /\ x.on = w.on /\ x.home = w.home
      BY <1>1, <1>2, <1>11, <2>1, <3>1, <3>2, AloneCreate
    <3>4. x.root = w.root /\ x.saved = w.saved
      BY <2>4, <3>3
    <3> QED
      BY <1>2, <1>3, <1>4, <1>6, <1>8, <1>9, <2>1, <2>3, <2>4, <3>2, <3>3, <3>4, Finishes
  <2>5. CASE k.to \notin {None, w.root} /\ n.pc = "assign"
    <3>1. /\ n.op = k.op /\ n.id = k.id /\ n.body = k.body
          /\ n.fd = "shut" /\ n.to = k.to
      BY <1>9, <2>5
    <3>2. k.op = "httpCreate"
      BY <1>2, <1>11, <2>5 DEF HandOK, Creates
    <3>3. FoundOK(w, k, n, p)
      BY <1>2, <2>1, <2>2, <2>5, <3>1 DEF FoundOK
    <3>4. DoneOK(w, k, n, p)'
      BY <1>2, <1>3, <1>4, <1>6, <1>11, <2>1, <2>2, <2>3, <2>5, <3>1, <3>2 DEF DoneOK, Made
    <3> QED  BY <1>1, <1>2, <1>8, <1>9, <2>5, <3>3, <3>4, GoesOn
  <2> QED  BY <1>9, <2>4, <2>5
<1> QED
  BY <1>3, <1>10, <1>11 DEF Saves

\* A Remove alone refuses a running server.
LEMMA AloneRemoveChecks ==
    ASSUME TypeOK, TasksOK, NEW t \in Tasks, NEW w, NEW k, BegunOK(w, k),
           Halfway(t, w, k), RemoveChecks(t)
    PROVE  Over(w, k)' \/ Halfway(t, w, k)'
<1>1. PICK p \in Paths : p = Target(w, k)
  BY Halfways
<1>2. /\ FoundOK(w, k, task[t], p) /\ DoneOK(w, k, task[t], p)
      /\ k.op = task[t].op /\ k.id = task[t].id /\ k \in Requests
      /\ w \in Worlds /\ OthersIdle(t)
  BY <1>1, Halfways
<1>3. /\ task[t].pc = "called" /\ task[t].op = "remove" /\ UNCHANGED world
      /\ IF on[task[t].id] = "on" THEN Return(t) ELSE Goto(t, "checked")
      /\ "checked" \in Pcs
  BY DEF RemoveChecks, At, Pcs
<1>4. /\ root = w.root /\ saved = w.saved /\ dirs = w.dirs /\ file = w.file
      /\ plugins = w.plugins /\ on = w.on /\ home = w.home
  BY <1>2, <1>3, NothingYet DEF TasksOK
<1>5. CASE on[task[t].id] = "on"
  <2>1. Alone(w, k) = w
    BY <1>2, <1>3, <1>4, <1>5, AloneRefused
  <2>2. OthersStay(t) /\ task'[t] = Idle
    BY <1>3, <1>5, Returns
  <2> QED  BY <1>3, <2>1, <2>2, AloneReturns
<1>6. CASE on[task[t].id] # "on"
  <2>1. PICK n : n = task'[t]
    OBVIOUS
  <2>2. /\ OthersStay(t) /\ n.pc = "checked"
        /\ n.op = task[t].op /\ n.id = task[t].id /\ n.body = task[t].body
        /\ n.to = task[t].to
    BY <1>3, <1>6, <2>1, Goes
  <2>3. n.op \notin Creates \union Edits \union OnPlugins \union {"start"}
    BY <1>3, <2>2 DEF Creates, Edits, OnPlugins
  <2>4. FoundOK(w, k, n, p)
    BY <1>2, <1>4, <1>6, <2>2, <2>3 DEF FoundOK
  <2>5. DoneOK(w, k, n, p)'
    BY <1>3, <1>4, <2>2, <2>3 DEF DoneOK, Made, world
  <2> QED  BY <1>1, <1>2, <2>1, <2>2, <2>4, <2>5, GoesOn
<1> QED
  BY <1>5, <1>6

\* A server without a directory has no files that could be removed.
LEMMA AloneRemoveFinds ==
    ASSUME TypeOK, TasksOK, NEW t \in Tasks, NEW w, NEW k, BegunOK(w, k),
           Halfway(t, w, k), RemoveFinds(t)
    PROVE  Over(w, k)' \/ Halfway(t, w, k)'
<1>1. PICK p \in Paths : p = Target(w, k)
  BY Halfways
<1>2. /\ FoundOK(w, k, task[t], p) /\ DoneOK(w, k, task[t], p)
      /\ k.op = task[t].op /\ k.id = task[t].id /\ k.body = task[t].body
      /\ k.to = task[t].to /\ k \in Requests
      /\ w \in Worlds /\ OthersIdle(t) /\ WhereOK(task[t])
  BY <1>1, Halfways
<1>3. task[t].pc = "checked" /\ UNCHANGED world
  BY DEF RemoveFinds, At
<1>4. /\ root = w.root /\ saved = w.saved /\ dirs = w.dirs /\ file = w.file
      /\ plugins = w.plugins /\ on = w.on /\ home = w.home
  BY <1>2, <1>3, NothingYet
<1>5. k.op = "remove" /\ w.on[k.id] # "on"
  BY <1>2, <1>3 DEF WhereOK, FoundOK
<1>6. SeenPaths(t) = {p}
  BY <1>1, <1>3, <1>4, <1>5, Halfways
<1>7. PICK n : n = task'[t]
  OBVIOUS
<1>8. /\ OthersStay(t)
      /\ \/ p \notin dirs /\ n = Idle
         \/ /\ p \in dirs /\ n.pc = "found" /\ n.path = p
            /\ n.op = k.op /\ n.id = k.id /\ n.body = k.body /\ n.to = k.to
  BY <1>2, <1>6, <1>7, FindMoves DEF Same
<1>9. CASE p \notin dirs /\ n = Idle
  <2>1. PICK x : x = Alone(w, k)
    OBVIOUS
  <2>2. /\ x \in Worlds /\ x.root = w.root /\ x.saved = w.saved
        /\ x.dirs = w.dirs \ {p}
        /\ x.file = [w.file EXCEPT ![p] = Absent]
        /\ x.plugins = [w.plugins EXCEPT ![p] = Absent]
        /\ x.on = w.on /\ x.home = w.home
    BY <1>1, <1>2, <1>5, <2>1, AloneRemove
  <2>3. w.file[p] = Absent /\ w.plugins[p] = Absent
    BY <1>1, <1>4, <1>9 DEF BegunOK
  <2>4. x.dirs = w.dirs
    BY <1>4, <1>9, <2>2
  <2>5. x.file = w.file /\ x.plugins = w.plugins
    BY <1>2, <2>2, <2>3 DEF Worlds
  <2> QED
    BY <1>2, <1>3, <1>4, <1>7, <1>8, <1>9, <2>1, <2>2, <2>4, <2>5, Finishes DEF world
<1>10. CASE n.pc = "found"
  <2>1. n.path = p /\ n.op = k.op /\ n.id = k.id /\ n.body = k.body /\ n.to = k.to
    BY <1>8, <1>10 DEF Idle
  <2>2. n.op \notin Creates \union Edits \union OnPlugins \union {"start"}
    BY <1>5, <2>1 DEF Creates, Edits, OnPlugins
  <2>3. FoundOK(w, k, n, p)
    BY <1>5, <1>10, <2>1, <2>2 DEF FoundOK
  <2>4. DoneOK(w, k, n, p)'
    BY <1>3, <1>4, <1>10, <2>2 DEF DoneOK, Made, world
  <2> QED  BY <1>1, <1>2, <1>7, <1>8, <1>10, <2>3, <2>4, GoesOn
<1> QED
  BY <1>8, <1>9, <1>10

\* Those that wait for their turn have no files open.
LEMMA IdleStay ==
    ASSUME NEW t \in Tasks, OthersIdle(t), NEW p, NEW ops,
           OthersUnlinked(t, p, ops)
    PROVE  OthersIdle(t)'
BY DEF OthersIdle, OthersUnlinked, At

\* A Remove alone unlinks all its server has.
LEMMA AloneEmpties ==
    ASSUME TypeOK, TasksOK, NEW t \in Tasks, NEW w, NEW k, BegunOK(w, k),
           Halfway(t, w, k), RemoveEmpties(t)
    PROVE  Halfway(t, w, k)'
<1>1. PICK p \in Paths : p = Target(w, k)
  BY Halfways
<1>2. /\ FoundOK(w, k, task[t], p) /\ DoneOK(w, k, task[t], p)
      /\ w \in Worlds /\ OthersIdle(t) /\ WhereOK(task[t])
  BY <1>1, Halfways
<1>3. /\ task[t].pc = "found" /\ UNCHANGED <<root, saved, dirs, on, home>>
  BY DEF RemoveEmpties, At
<1>4. /\ root = w.root /\ saved = w.saved /\ dirs = w.dirs /\ file = w.file
      /\ plugins = w.plugins /\ on = w.on /\ home = w.home
  BY <1>2, <1>3, NothingYet
<1>5. task[t].op = "remove" /\ task[t].path = p
  BY <1>2, <1>3 DEF WhereOK, FoundOK
<1>6. /\ file' = [w.file EXCEPT ![p] = Absent]
      /\ plugins' = [w.plugins EXCEPT ![p] = Absent]
  BY <1>4, <1>5 DEF RemoveEmpties
<1>7. PICK n : n = task'[t]
  OBVIOUS
<1>8. /\ OthersUnlinked(t, task[t].path, Ops) /\ n.pc = "emptied"
      /\ n.op = task[t].op /\ n.id = task[t].id /\ n.body = task[t].body
      /\ n.path = task[t].path /\ n.to = task[t].to
  BY <1>7, EmptyMoves DEF Same
<1>9. n.op \notin Creates \union Edits \union OnPlugins \union {"start"}
  BY <1>5, <1>8 DEF Creates, Edits, OnPlugins
<1>10. FoundOK(w, k, n, p)
  BY <1>2, <1>3, <1>5, <1>8, <1>9 DEF FoundOK
<1>11. DoneOK(w, k, n, p)'
  BY <1>3, <1>4, <1>6, <1>8, <1>9 DEF DoneOK, Made, Saves
<1>12. OthersIdle(t)' /\ ~At(t, "idle")'
  BY <1>2, <1>7, <1>8, IdleStay DEF At
<1>13. FoundOK(w, k, task[t], Target(w, k))'
  BY <1>1, <1>7, <1>10 DEF FoundOK
<1>14. DoneOK(w, k, task[t], Target(w, k))'
  BY <1>1, <1>7, <1>11 DEF DoneOK, Made
<1> QED
  BY <1>12, <1>13, <1>14 DEF Halfway

\* The directory is empty then, so that it goes too.
LEMMA AloneRemoveDir ==
    ASSUME TypeOK, TasksOK, NEW t \in Tasks, NEW w, NEW k, BegunOK(w, k),
           Halfway(t, w, k), RemoveDir(t)
    PROVE  Over(w, k)'
<1>1. PICK p \in Paths : p = Target(w, k)
  BY Halfways
<1>2. /\ FoundOK(w, k, task[t], p) /\ DoneOK(w, k, task[t], p)
      /\ k.op = task[t].op /\ k \in Requests
      /\ w \in Worlds /\ OthersIdle(t) /\ WhereOK(task[t])
  BY <1>1, Halfways
<1>3. /\ task[t].pc = "emptied" /\ Return(t)
      /\ UNCHANGED <<root, saved, file, plugins, on, home>>
  BY DEF RemoveDir, At
<1>4. k.op = "remove" /\ task[t].path = p /\ w.on[k.id] # "on"
  BY <1>2, <1>3 DEF WhereOK, FoundOK
<1>5. k.op \notin Creates \union Edits \union OnPlugins /\ k.op # "httpCreate"
  BY <1>4 DEF Creates, Edits, OnPlugins
<1>6. /\ root = w.root /\ saved = w.saved /\ dirs = w.dirs
      /\ file = [w.file EXCEPT ![p] = Absent]
      /\ plugins = [w.plugins EXCEPT ![p] = Absent]
      /\ on = w.on /\ home = w.home
  BY <1>2, <1>3, <1>5 DEF DoneOK, Made, Saves
<1>7. file[p] = Absent /\ plugins[p] = Absent
  BY <1>1, <1>2, <1>6 DEF Worlds
<1>8. dirs' = w.dirs \ {p}
  BY <1>4, <1>6, <1>7 DEF RemoveDir
<1>9. PICK x : x = Alone(w, k)
  OBVIOUS
<1>10. /\ x \in Worlds /\ x.root = w.root /\ x.saved = w.saved
       /\ x.dirs = w.dirs \ {p}
       /\ x.file = [w.file EXCEPT ![p] = Absent]
       /\ x.plugins = [w.plugins EXCEPT ![p] = Absent]
       /\ x.on = w.on /\ x.home = w.home
  BY <1>1, <1>2, <1>4, <1>9, AloneRemove
<1>11. OthersStay(t) /\ task'[t] = Idle
  BY <1>3, Returns
<1> QED
  BY <1>2, <1>3, <1>6, <1>8, <1>9, <1>10, <1>11, Finishes

\* What a plugins request knows, and what it has done, at each of its steps.
LEMMA PluginsSoFar ==
    ASSUME TasksOK, NEW t \in Tasks, NEW w, NEW k, BegunOK(w, k),
           Halfway(t, w, k), task[t].op \in OnPlugins,
           task[t].pc \in {"loaded", "made", "open", "half"}
    PROVE  LET p == Target(w, k)
           IN /\ task[t].path = p /\ w.file[p] \in Config /\ k.op \in OnPlugins
              /\ root = w.root /\ saved = w.saved /\ file = w.file
              /\ on = w.on /\ home = w.home
              /\ dirs = IF task[t].pc = "loaded" THEN w.dirs ELSE w.dirs \union {p}
              /\ plugins = IF task[t].pc \in {"open", "half"}
                           THEN [w.plugins EXCEPT ![p] =
                                   IF task[t].pc = "open" THEN Truncated
                                   ELSE WithHead(Truncated, k.body.jar)]
                           ELSE IF task[t].pc = "made" /\ w.plugins[p] = Absent
                                THEN [w.plugins EXCEPT ![p] = Empty] ELSE w.plugins
              /\ task[t].pc \in {"open", "half"} => task[t].fd = "open"
<1>1. /\ FoundOK(w, k, task[t], Target(w, k)) /\ DoneOK(w, k, task[t], Target(w, k))
      /\ k.op = task[t].op /\ WhereOK(task[t])
  BY Halfways
<1>2. /\ task[t].op \notin Creates \union Edits \union Saves /\ task[t].op # "httpCreate"
      /\ task[t].op # "create"
  BY DEF Creates, Edits, OnPlugins, Saves
<1>3. task[t].pc \in {"open", "half"} => task[t].op = "upload"
  BY <1>1, <1>2 DEF WhereOK
<1>4. task[t].path = Target(w, k) /\ w.file[Target(w, k)] \in Config
      /\ (task[t].pc \in {"open", "half"} => task[t].fd = "open")
  BY <1>1 DEF FoundOK
<1>5. /\ root = w.root /\ saved = w.saved /\ file = w.file
      /\ on = w.on /\ home = w.home
      /\ dirs = IF task[t].pc = "loaded" THEN w.dirs ELSE w.dirs \union {Target(w, k)}
  BY <1>1, <1>2 DEF DoneOK, Made
<1>6. plugins = IF task[t].pc \in {"open", "half"}
                THEN [w.plugins EXCEPT ![Target(w, k)] =
                        IF task[t].pc = "open" THEN Truncated
                        ELSE WithHead(Truncated, k.body.jar)]
                ELSE IF task[t].pc = "made" /\ w.plugins[Target(w, k)] = Absent
                     THEN [w.plugins EXCEPT ![Target(w, k)] = Empty] ELSE w.plugins
  BY <1>1, <1>2, <1>3 DEF DoneOK, Made
<1> QED
  BY <1>1, <1>4, <1>5, <1>6

\* A plugins request alone makes its directory first.
LEMMA AlonePluginsMakes ==
    ASSUME TypeOK, TasksOK, NEW t \in Tasks, NEW w, NEW k, BegunOK(w, k),
           Halfway(t, w, k), PluginsMakesDir(t)
    PROVE  Over(w, k)' \/ Halfway(t, w, k)'
<1>1. PICK p \in Paths : p = Target(w, k)
  BY Halfways
<1>2. /\ FoundOK(w, k, task[t], p) /\ (k.op = "upload" => k.body.jar \in Jars)
      /\ k.op = task[t].op /\ k \in Requests /\ w \in Worlds /\ OthersIdle(t)
  BY <1>1, Halfways
<1>3. /\ task[t].pc = "loaded" /\ task[t].op \in OnPlugins
      /\ UNCHANGED <<root, saved, file, on, home>> /\ "made" \in Pcs
  BY DEF PluginsMakesDir, At, Pcs
<1>4. /\ task[t].path = p /\ w.file[p] \in Config
      /\ root = w.root /\ saved = w.saved /\ file = w.file
      /\ on = w.on /\ home = w.home /\ dirs = w.dirs /\ plugins = w.plugins
  BY <1>1, <1>3, PluginsSoFar
<1>5. /\ dirs' = w.dirs \union {p}
      /\ plugins' = IF w.plugins[p] = Absent
                    THEN [w.plugins EXCEPT ![p] = Empty] ELSE w.plugins
  BY <1>4 DEF PluginsMakesDir
<1>6. CASE task[t].op = "plugins"
  <2>1. PICK x : x = Alone(w, k)
    OBVIOUS
  <2>2. /\ x \in Worlds /\ x.root = w.root /\ x.saved = w.saved
        /\ x.dirs = w.dirs \union {p} /\ x.file = w.file
        /\ x.plugins = [w.plugins EXCEPT ![p] =
                          CASE k.op = "upload" -> Whole(k.body.jar)
                            [] k.op = "plugins" /\ w.plugins[p] # Absent -> w.plugins[p]
                            [] OTHER -> Empty]
        /\ x.on = w.on /\ x.home = w.home
    BY <1>1, <1>2, <1>3, <1>4, <2>1, AlonePlugins
  <2>3. plugins' = x.plugins
    <3>1. CASE w.plugins[p] = Absent
      BY <1>2, <1>5, <1>6, <2>2, <3>1
    <3>2. CASE w.plugins[p] # Absent
      <4>1. x.plugins = [w.plugins EXCEPT ![p] = w.plugins[p]]
        BY <1>2, <1>6, <2>2, <3>2
      <4>2. [w.plugins EXCEPT ![p] = w.plugins[p]] = w.plugins
        BY <1>2 DEF Worlds
      <4> QED  BY <1>5, <3>2, <4>1, <4>2
    <3> QED  BY <3>1, <3>2
  <2>4. OthersStay(t) /\ task'[t] = Idle
    BY <1>6, Returns DEF PluginsMakesDir
  <2> QED  BY <1>2, <1>3, <1>4, <1>5, <2>1, <2>2, <2>3, <2>4, Finishes
<1>7. CASE task[t].op # "plugins"
  <2>1. PICK n : n = task'[t]
    OBVIOUS
  <2>2. /\ OthersStay(t) /\ n.pc = "made"
        /\ n.op = task[t].op /\ n.id = task[t].id /\ n.path = task[t].path
        /\ n.body = task[t].body /\ n.to = task[t].to
    BY <1>3, <1>7, <2>1, Goes DEF PluginsMakesDir
  <2>3. n.op \notin Creates \union Edits \union Saves \union {"create", "start", "remove"}
        /\ n.op \in OnPlugins
    BY <1>3, <2>2 DEF Creates, Edits, OnPlugins, Saves
  <2>4. FoundOK(w, k, n, p)
    BY <1>2, <1>4, <2>2, <2>3 DEF FoundOK
  <2>5. DoneOK(w, k, n, p)'
    BY <1>3, <1>4, <1>5, <2>2, <2>3 DEF DoneOK, Made
  <2> QED  BY <1>1, <1>2, <2>1, <2>2, <2>4, <2>5, GoesOn
<1> QED
  BY <1>6, <1>7

\* An upload alone opens a new jar.
LEMMA AloneUploadCreates ==
    ASSUME TypeOK, TasksOK, NEW t \in Tasks, NEW w, NEW k, BegunOK(w, k),
           Halfway(t, w, k), UploadCreates(t)
    PROVE  Halfway(t, w, k)'
<1>1. PICK p \in Paths : p = Target(w, k)
  BY Halfways
<1>2. FoundOK(w, k, task[t], p) /\ w \in Worlds /\ OthersIdle(t)
  BY <1>1, Halfways
<1>3. /\ task[t].pc = "made" /\ task[t].op = "upload" /\ task[t].op \in OnPlugins
      /\ UNCHANGED <<root, saved, dirs, file, on, home>>
  BY DEF UploadCreates, At, OnPlugins
<1>4. /\ task[t].path = p /\ w.file[p] \in Config
      /\ root = w.root /\ saved = w.saved /\ file = w.file
      /\ on = w.on /\ home = w.home /\ dirs = w.dirs \union {p}
      /\ plugins = IF w.plugins[p] = Absent
                   THEN [w.plugins EXCEPT ![p] = Empty] ELSE w.plugins
  BY <1>1, <1>3, PluginsSoFar
<1>5. plugins[p] # Absent
  BY <1>1, <1>2, <1>4, AbsentIsNoConfig DEF Worlds
<1>6. PICK n : n = task'[t]
  OBVIOUS
<1>7. /\ OthersStay(t) /\ plugins' = [plugins EXCEPT ![p] = Truncated]
      /\ n.op = task[t].op /\ n.id = task[t].id /\ n.body = task[t].body
      /\ n.pc = "open" /\ n.fd = "open" /\ n.path = p /\ n.to = task[t].to
  BY <1>4, <1>5, <1>6, UploadMoves DEF Same
<1>8. plugins' = [w.plugins EXCEPT ![p] = Truncated]
  BY <1>2, <1>4, <1>7 DEF Worlds
<1>9. n.op \notin Creates \union Edits \union Saves \union {"create", "start", "remove"}
      /\ n.op \in OnPlugins
  BY <1>3, <1>7 DEF Creates, Edits, OnPlugins, Saves
<1>10. FoundOK(w, k, n, p)
  BY <1>2, <1>4, <1>7, <1>9 DEF FoundOK
<1>11. DoneOK(w, k, n, p)'
  BY <1>3, <1>4, <1>7, <1>8, <1>9 DEF DoneOK, Made
<1> QED
  BY <1>1, <1>2, <1>6, <1>7, <1>10, <1>11, GoesOn

\* An upload alone makes its jar whole, in one call or in two.
LEMMA AloneUploadCopies ==
    ASSUME TypeOK, TasksOK, NEW t \in Tasks, NEW w, NEW k, BegunOK(w, k),
           Halfway(t, w, k), UploadCopies(t)
    PROVE  Over(w, k)' \/ Halfway(t, w, k)'
<1>1. PICK p \in Paths : p = Target(w, k)
  BY Halfways
<1>2. /\ k.op = task[t].op /\ k.body = task[t].body /\ k \in Requests /\ w \in Worlds
      /\ OthersIdle(t) /\ FoundOK(w, k, task[t], p) /\ WhereOK(task[t])
  BY <1>1, Halfways
<1>3. /\ task[t].pc \in {"open", "half"} /\ task[t].op = "upload"
      /\ task[t].op \in OnPlugins /\ k.body.jar \in Jars
      /\ UNCHANGED <<root, saved, dirs, file, on, home>> /\ OthersStay(t)
  BY <1>2, CopyMoves DEF UploadCopies, OnPlugins
<1>4. /\ task[t].path = p /\ w.file[p] \in Config /\ task[t].fd = "open"
      /\ root = w.root /\ saved = w.saved /\ file = w.file
      /\ on = w.on /\ home = w.home /\ dirs = w.dirs \union {p}
      /\ plugins = [w.plugins EXCEPT ![p] =
                      IF task[t].pc = "open" THEN Truncated
                      ELSE WithHead(Truncated, k.body.jar)]
  BY <1>1, <1>3, PluginsSoFar
<1>5. plugins[p] = IF task[t].pc = "open" THEN Truncated
                   ELSE WithHead(Truncated, k.body.jar)
  BY <1>2, <1>4 DEF Worlds
<1>6. plugins' = [w.plugins EXCEPT ![p] =
                    IF task[t].pc = "open" THEN WithHead(Truncated, k.body.jar)
                    ELSE Whole(k.body.jar)]
  <2>1. CASE task[t].pc = "open"
    <3>1. plugins' = [plugins EXCEPT ![p] = WithHead(Truncated, k.body.jar)]
      BY <1>2, <1>4, <1>5, <2>1, CopyMoves
    <3> QED  BY <1>2, <1>4, <2>1, <3>1 DEF Worlds
  <2>2. CASE task[t].pc = "half"
    <3>1. k.body.jar \in Long
      BY <1>2, <2>2 DEF WhereOK
    <3>2. plugins' = [plugins EXCEPT ![p] = Whole(k.body.jar)]
      BY <1>2, <1>3, <1>4, <1>5, <2>2, <3>1, CopyMoves, JarParts
    <3> QED  BY <1>2, <1>4, <2>2, <3>2 DEF Worlds
  <2> QED  BY <1>3, <2>1, <2>2
<1>7. CASE task'[t] = Idle
  <2>1. PICK x : x = Alone(w, k)
    OBVIOUS
  <2>2. /\ x \in Worlds /\ x.root = w.root /\ x.saved = w.saved
        /\ x.dirs = w.dirs \union {p} /\ x.file = w.file
        /\ x.plugins = [w.plugins EXCEPT ![p] =
                          CASE k.op = "upload" -> Whole(k.body.jar)
                            [] k.op = "plugins" /\ w.plugins[p] # Absent -> w.plugins[p]
                            [] OTHER -> Empty]
        /\ x.on = w.on /\ x.home = w.home
    BY <1>1, <1>2, <1>3, <1>4, <2>1, AlonePlugins
  <2>3. x.plugins = [w.plugins EXCEPT ![p] = Whole(k.body.jar)]
    BY <1>2, <1>3, <2>2
  <2>4. task[t].pc = "open" => k.body.jar \notin Long
    BY <1>2, <1>7, CopyMoves DEF Idle
  <2>5. plugins' = x.plugins
    BY <1>3, <1>6, <2>3, <2>4, JarParts
  <2> QED  BY <1>2, <1>3, <1>4, <1>7, <2>1, <2>2, <2>5, Finishes
<1>8. CASE task'[t] # Idle
  <2>1. PICK n : n = task'[t]
    OBVIOUS
  <2>2. /\ task[t].pc = "open" /\ n.pc = "half" /\ n.op = task[t].op
        /\ n.id = task[t].id /\ n.body = task[t].body /\ n.path = p
        /\ n.to = task[t].to /\ n.fd = "open"
    BY <1>4, <1>8, <2>1, CopyMoves DEF Same
  <2>3. n.op \notin Creates \union Edits \union Saves \union {"create", "start", "remove"}
        /\ n.op \in OnPlugins
    BY <1>3, <2>2 DEF Creates, Edits, OnPlugins, Saves
  <2>4. FoundOK(w, k, n, p)
    BY <1>2, <1>4, <2>2, <2>3 DEF FoundOK
  <2>5. DoneOK(w, k, n, p)'
    BY <1>3, <1>4, <1>6, <2>2, <2>3 DEF DoneOK, Made
  <2> QED  BY <1>1, <1>2, <1>3, <2>1, <2>2, <2>4, <2>5, GoesOn
<1> QED
  BY <1>7, <1>8

\* A deletion alone takes the jar, or finds none.
LEMMA AlonePluginRemoved ==
    ASSUME TypeOK, TasksOK, NEW t \in Tasks, NEW w, NEW k, BegunOK(w, k),
           Halfway(t, w, k), PluginRemoved(t)
    PROVE  Over(w, k)'
<1>1. PICK p \in Paths : p = Target(w, k)
  BY Halfways
<1>2. k.op = task[t].op /\ k \in Requests /\ w \in Worlds /\ OthersIdle(t)
  BY <1>1, Halfways
<1>3. /\ task[t].pc = "made" /\ task[t].op = "unplug" /\ task[t].op \in OnPlugins
      /\ UNCHANGED <<root, saved, dirs, file, on, home>>
  BY DEF PluginRemoved, At, OnPlugins
<1>4. /\ task[t].path = p /\ w.file[p] \in Config
      /\ root = w.root /\ saved = w.saved /\ file = w.file
      /\ on = w.on /\ home = w.home /\ dirs = w.dirs \union {p}
      /\ plugins = IF w.plugins[p] = Absent
                   THEN [w.plugins EXCEPT ![p] = Empty] ELSE w.plugins
  BY <1>1, <1>3, PluginsSoFar
<1>5. plugins' = [w.plugins EXCEPT ![p] = Empty]
  <2>1. CASE w.plugins[p] = Absent
    <3>1. plugins[p] = Empty /\ plugins[p] \notin JarFiles
      BY <1>1, <1>2, <1>4, <2>1, AbsentIsNoConfig DEF Worlds
    <3>2. plugins' = plugins
      BY <1>4, <3>1, UnplugMoves
    <3> QED  BY <1>4, <2>1, <3>2
  <2>2. CASE w.plugins[p] = Empty
    <3>1. plugins = w.plugins /\ plugins[p] \notin JarFiles
      BY <1>4, <2>2, AbsentIsNoConfig
    <3>2. plugins' = plugins
      BY <1>4, <3>1, UnplugMoves
    <3>3. [w.plugins EXCEPT ![p] = Empty] = w.plugins
      BY <1>2, <2>2 DEF Worlds
    <3> QED  BY <3>1, <3>2, <3>3
  <2>3. CASE w.plugins[p] \in JarFiles
    <3>1. plugins = w.plugins
      BY <1>4, <2>3, AbsentIsNoConfig
    <3> QED  BY <1>4, <2>3, <3>1, UnplugMoves
  <2> QED  BY <1>1, <1>2, <2>1, <2>2, <2>3 DEF Worlds
<1>6. PICK x : x = Alone(w, k)
  OBVIOUS
<1>7. /\ x \in Worlds /\ x.root = w.root /\ x.saved = w.saved
      /\ x.dirs = w.dirs \union {p} /\ x.file = w.file
      /\ x.plugins = [w.plugins EXCEPT ![p] =
                        CASE k.op = "upload" -> Whole(k.body.jar)
                          [] k.op = "plugins" /\ w.plugins[p] # Absent -> w.plugins[p]
                          [] OTHER -> Empty]
      /\ x.on = w.on /\ x.home = w.home
  BY <1>1, <1>2, <1>3, <1>4, <1>6, AlonePlugins
<1>8. x.plugins = [w.plugins EXCEPT ![p] = Empty]
  BY <1>2, <1>3, <1>7
<1>9. World' = x
  BY <1>3, <1>4, <1>5, <1>7, <1>8 DEF World, Worlds
<1>10. AllIdle'
  <2>1. task'[t] = Idle
    BY UnplugMoves
  <2>2. OthersStay(t) \/ OthersUnlinked(t, p, {"upload"})
    BY <1>4, UnplugMoves
  <2>3. OthersIdle(t)'
    BY <1>2, <2>2, IdleStay DEF OthersIdle, OthersStay, At
  <2> QED  BY <2>1, <2>3 DEF AllIdle, OthersIdle, At, Idle
<1> QED
  BY <1>6, <1>9, <1>10 DEF Over

\* The steps of SetServersRoot touch the root and the global file only.
LEMMA RootSoFar ==
    ASSUME TasksOK, NEW t \in Tasks, NEW w, NEW k, BegunOK(w, k), Halfway(t, w, k),
           task[t].pc \in {"assign", "assigned", "global", "encode"}
    PROVE  /\ k.op \in {"setRoot", "httpCreate"} /\ task[t].fd = "shut"
           /\ k.to \in Roots \union {Torn}
           /\ k.op = "httpCreate" => k.to \notin {None, w.root}
           /\ on = w.on /\ home = w.home
           /\ root = IF task[t].pc = "assign" THEN w.root ELSE k.to
           /\ saved = IF task[t].pc \in {"global", "encode"} THEN Empty ELSE w.saved
<1>1. /\ FoundOK(w, k, task[t], Target(w, k)) /\ DoneOK(w, k, task[t], Target(w, k))
      /\ k.op = task[t].op /\ k.to = task[t].to
      /\ WhereOK(task[t]) /\ HandOK(task[t]) /\ task[t] \in Requests
  BY Halfways
<1>2. /\ k.op \in {"setRoot", "httpCreate"} /\ task[t].fd = "shut"
      /\ k.to \in Roots \union {Torn}
  BY <1>1 DEF WhereOK, HandOK, Requests
<1>3. k.op = "httpCreate" => k.to \notin {None, w.root}
  BY <1>1 DEF FoundOK
<1>4. /\ on = w.on /\ home = w.home
      /\ root = IF task[t].pc = "assign" THEN w.root ELSE k.to
      /\ saved = IF task[t].pc \in {"global", "encode"} THEN Empty ELSE w.saved
  BY <1>1 DEF DoneOK
<1> QED
  BY <1>2, <1>3, <1>4

\* One of them after another.
LEMMA RootGoesOn ==
    ASSUME TasksOK, NEW t \in Tasks, NEW w, NEW k, BegunOK(w, k), Halfway(t, w, k),
           NEW pc \in {"assign", "assigned", "global", "encode"},
           \/ task[t].pc = "called" /\ task[t].op = "setRoot" /\ pc = "assign"
           \/ task[t].pc \in {"assign", "assigned", "global"},
           OthersStay(t), Same(t), task'[t].pc = pc, task'[t].to = task[t].to,
           UNCHANGED <<dirs, file, plugins, on, home>>,
           root' = IF pc = "assign" THEN w.root ELSE k.to,
           saved' = IF pc \in {"global", "encode"} THEN Empty ELSE w.saved
    PROVE  Halfway(t, w, k)'
<1>1. PICK p : p = Target(w, k)
  OBVIOUS
<1>2. /\ FoundOK(w, k, task[t], p) /\ DoneOK(w, k, task[t], p)
      /\ k.op = task[t].op /\ OthersIdle(t) /\ WhereOK(task[t])
  BY <1>1, Halfways
<1>3. PICK n : n = task'[t]
  OBVIOUS
<1>4. /\ n.op = task[t].op /\ n.id = task[t].id /\ n.body = task[t].body
      /\ n.to = task[t].to /\ n.pc = pc
  BY <1>3 DEF Same
<1>5. task[t].op \in {"setRoot", "httpCreate"}
  BY <1>2 DEF WhereOK
<1>6. n.op \notin Edits \union OnPlugins \union {"create", "upload", "start", "remove"}
  BY <1>4, <1>5 DEF Edits, OnPlugins
<1>7. n.op \in Creates <=> n.op = "httpCreate"
  BY <1>6 DEF Creates
<1>8. FoundOK(w, k, n, p)
  BY <1>2, <1>4, <1>5, <1>6, <1>7 DEF FoundOK
<1>9. Made(n) <=> Made(task[t])
  BY <1>4, <1>5, <1>6, <1>7 DEF Made
<1>10. /\ dirs = IF Made(n) THEN w.dirs \union {p} ELSE w.dirs
       /\ file = IF n.op = "httpCreate"
                 THEN [w.file EXCEPT ![p] = [name |-> k.body.name, flags |-> Default]]
                 ELSE w.file
       /\ plugins = IF Made(n) /\ w.plugins[p] = Absent
                    THEN [w.plugins EXCEPT ![p] = Empty] ELSE w.plugins
       /\ on = w.on /\ home = w.home
  BY <1>2, <1>4, <1>5, <1>6, <1>7, <1>9 DEF DoneOK
<1>11. DoneOK(w, k, n, p)'
  BY <1>4, <1>6, <1>10 DEF DoneOK, Made
<1> QED
  BY <1>1, <1>2, <1>3, <1>4, <1>8, <1>11, GoesOn

\* SetServersRoot alone: the directory of the new root.
LEMMA AloneRootMade ==
    ASSUME TasksOK, NEW t \in Tasks, NEW w, NEW k, BegunOK(w, k), Halfway(t, w, k),
           RootMade(t)
    PROVE  Halfway(t, w, k)'
<1>1. /\ task[t].pc = "called" /\ task[t].op = "setRoot" /\ Goto(t, "assign")
      /\ UNCHANGED world /\ "assign" \in Pcs
  BY DEF RootMade, At, Pcs
<1>2. OthersStay(t) /\ Same(t) /\ task'[t].pc = "assign" /\ task'[t].to = task[t].to
  BY <1>1, Goes DEF Same
<1>3. root = w.root /\ saved = w.saved
  BY <1>1, Halfways, NothingYet
<1> QED
  BY <1>1, <1>2, <1>3, RootGoesOn DEF world

\* SetServersRoot alone: the assignment.
LEMMA AloneRootAssigned ==
    ASSUME TasksOK, NEW t \in Tasks, NEW w, NEW k, BegunOK(w, k), Halfway(t, w, k),
           RootAssigned(t)
    PROVE  Halfway(t, w, k)'
<1>1. /\ task[t].pc = "assign" /\ Goto(t, "assigned") /\ "assigned" \in Pcs
      /\ UNCHANGED <<saved, dirs, file, plugins, on, home>>
  BY DEF RootAssigned, At, Pcs
<1>2. OthersStay(t) /\ Same(t) /\ task'[t].pc = "assigned" /\ task'[t].to = task[t].to
  BY <1>1, Goes DEF Same
<1>3. {u \in Tasks \ {t} : At(u, "assign")} = {}
  BY Halfways DEF OthersIdle, At
<1>4. root' = k.to /\ saved = w.saved
  BY <1>1, <1>3, Halfways, RootSoFar DEF RootAssigned
<1> QED
  BY <1>1, <1>2, <1>4, RootGoesOn

\* SetServersRoot alone: config.json is truncated.
LEMMA AloneGlobalCreates ==
    ASSUME TasksOK, NEW t \in Tasks, NEW w, NEW k, BegunOK(w, k), Halfway(t, w, k),
           GlobalCreates(t)
    PROVE  Halfway(t, w, k)'
<1>1. /\ task[t].pc = "assigned" /\ Goto(t, "global") /\ "global" \in Pcs
      /\ saved' = Empty /\ UNCHANGED <<root, dirs, file, plugins, on, home>>
  BY DEF GlobalCreates, At, Pcs
<1>2. OthersStay(t) /\ Same(t) /\ task'[t].pc = "global" /\ task'[t].to = task[t].to
  BY <1>1, Goes DEF Same
<1>3. root = k.to
  BY <1>1, RootSoFar
<1> QED
  BY <1>1, <1>2, <1>3, RootGoesOn

\* SetServersRoot alone: the root that is read is the one assigned.
LEMMA AloneGlobalReads ==
    ASSUME TypeOK, TasksOK, NEW t \in Tasks, NEW w, NEW k, BegunOK(w, k),
           Halfway(t, w, k), GlobalReads(t)
    PROVE  Halfway(t, w, k)'
<1>1. task[t].pc = "global" /\ UNCHANGED world
  BY DEF GlobalReads, At
<1>2. OthersStay(t) /\ Same(t) /\ task'[t].pc = "encode" /\ task'[t].to \in SeenRoots
  BY GlobalMoves
<1>3. root = k.to /\ saved = Empty
  BY <1>1, RootSoFar
<1>4. task'[t].to = task[t].to
  BY <1>1, <1>2, <1>3, Halfways
<1> QED
  BY <1>1, <1>2, <1>3, <1>4, RootGoesOn DEF world

\* SetServersRoot alone: config.json has the root when it is over.
LEMMA AloneGlobalEncodes ==
    ASSUME TypeOK, TasksOK, NEW t \in Tasks, NEW w, NEW k, BegunOK(w, k),
           Halfway(t, w, k), GlobalEncodes(t)
    PROVE  Over(w, k)'
<1>1. PICK p \in Paths : p = Target(w, k)
  BY Halfways
<1>2. /\ FoundOK(w, k, task[t], p) /\ DoneOK(w, k, task[t], p)
      /\ k.op = task[t].op /\ k.id = task[t].id /\ k.body = task[t].body
      /\ k.to = task[t].to /\ k \in Requests /\ w \in Worlds /\ OthersIdle(t)
      /\ HandOK(task[t]) /\ k.id \in Ids
  BY <1>1, Halfways
<1>3. /\ task[t].pc = "encode" /\ saved' = k.to /\ Return(t)
      /\ UNCHANGED <<root, dirs, file, plugins, on, home>>
  BY <1>2 DEF GlobalEncodes, At
<1>4. /\ k.op \in {"setRoot", "httpCreate"} /\ k.to \in Roots \union {Torn}
      /\ k.op = "httpCreate" => k.to \notin {None, w.root}
      /\ root = k.to /\ on = w.on /\ home = w.home
  BY <1>3, RootSoFar
<1>5. PICK x : x = Alone(w, k)
  OBVIOUS
<1>6. OthersStay(t) /\ task'[t] = Idle
  BY <1>3, Returns
<1>7. CASE k.op = "setRoot"
  <2>1. task[t].op \notin Creates \union Saves \union OnPlugins
        /\ task[t].op \notin {"upload", "httpCreate"}
    BY <1>2, <1>7 DEF Creates, Saves, Edits, OnPlugins
  <2>2. dirs = w.dirs /\ file = w.file /\ plugins = w.plugins
    BY <1>2, <1>3, <2>1 DEF DoneOK, Made
  <2>3. /\ x \in Worlds /\ x.root = k.to /\ x.saved = k.to
        /\ x.dirs = w.dirs /\ x.file = w.file /\ x.plugins = w.plugins
        /\ x.on = w.on /\ x.home = w.home
    BY <1>2, <1>4, <1>5, <1>7, AloneSetRoot
  <2> QED  BY <1>2, <1>3, <1>4, <1>5, <1>6, <2>2, <2>3, Finishes
<1>8. CASE k.op = "httpCreate"
  <2>1. task[t].op \in Creates /\ task[t].op \notin OnPlugins
    BY <1>2, <1>8 DEF Creates, OnPlugins
  <2>2. /\ dirs = w.dirs \union {p}
        /\ file = [w.file EXCEPT ![p] = [name |-> k.body.name, flags |-> Default]]
        /\ plugins = IF w.plugins[p] # Absent THEN w.plugins
                     ELSE [w.plugins EXCEPT ![p] = Empty]
    BY <1>2, <1>3, <1>8, <2>1 DEF DoneOK, Made
  <2>3. w.file[p] = Absent /\ k.body.name \in Names /\ k.op \in Creates
    BY <1>2, <1>3, <2>1 DEF FoundOK, HandOK
  <2>4. /\ x \in Worlds
        /\ x.root = IF k.to = None THEN w.root ELSE k.to
        /\ x.saved = IF k.to \in {None, w.root} THEN w.saved ELSE k.to
        /\ x.dirs = w.dirs \union {p}
        /\ x.file = [w.file EXCEPT ![p] = [name |-> k.body.name, flags |-> Default]]
        /\ x.plugins = IF k.op = "create" \/ w.plugins[p] # Absent THEN w.plugins
                       ELSE [w.plugins EXCEPT ![p] = Empty]
        /\ x.on = w.on /\ x.home = w.home
    BY <1>1, <1>2, <1>5, <1>8, <2>3, AloneCreate, SMTT(30)
  <2>5. x.root = k.to /\ x.saved = k.to /\ x.plugins = plugins
    BY <1>4, <1>8, <2>2, <2>4
  <2> QED  BY <1>2, <1>3, <1>4, <1>5, <1>6, <2>2, <2>4, <2>5, Finishes
<1> QED
  BY <1>4, <1>7, <1>8

\* Every step of a handler alone leads on to what it promises.
LEMMA AloneStep ==
    ASSUME TypeOK, TasksOK, NEW t \in Tasks, NEW w, NEW k, BegunOK(w, k),
           Halfway(t, w, k), Handler(t)
    PROVE  Over(w, k)' \/ Halfway(t, w, k)'
<1>1. ~SaveFindsNoDir(t)
  <2> SUFFICES ASSUME SaveFindsNoDir(t)  PROVE FALSE
    OBVIOUS
  <2>1. task[t].pc = "loaded" /\ task[t].op \in Saves /\ SavePaths(t) \ dirs # {}
    BY DEF SaveFindsNoDir, At, Saves
  <2> QED  BY <2>1, AloneSavePath
<1> QED
  BY <1>1, AloneLoad, AloneLoadFails, AloneAnswer, AloneSpawn, AloneCreateTests,
     AloneMakesDir, AloneSaveCreates, AloneSaveEncodes, AloneRemoveChecks,
     AloneRemoveFinds, AloneEmpties, AloneRemoveDir, AlonePluginsMakes,
     AloneUploadCreates, AloneUploadCopies, AlonePluginRemoved, AloneRootMade,
     AloneRootAssigned, AloneGlobalCreates, AloneGlobalReads, AloneGlobalEncodes,
     SMTT(30) DEF Handler

\* A handler's step keeps the account of the request that runs alone.
LEMMA HandlerSolo ==
    ASSUME TypeOK, TasksOK, SoloOK, NEW t \in Tasks, Handler(t), solo' = solo
    PROVE  SoloOK'
<1> SUFFICES ASSUME solo # None  PROVE SoloOK'
  BY SMTT(40) DEF SoloOK
<1>1. task[t].pc # "idle"
  BY DEF Handler, Load, LoadFails, Answer, Spawn, CreateTests, CreateMakesDir,
         SaveCreates, SaveFindsNoDir, SaveEncodes, RemoveChecks, RemoveFinds,
         RemoveEmpties, RemoveDir, PluginsMakesDir, UploadCreates, UploadCopies,
         PluginRemoved, RootMade, RootAssigned, GlobalCreates, GlobalReads,
         GlobalEncodes, At
<1>2. PICK w, k : w = solo.was /\ k = solo.req
  OBVIOUS
<1>3. BegunOK(w, k) /\ (Over(w, k) \/ \E u \in Tasks : Halfway(u, w, k))
  BY <1>2 DEF SoloOK
<1>4. ~Over(w, k)
  BY <1>1 DEF Over, AllIdle, At
<1>5. PICK u \in Tasks : Halfway(u, w, k)
  BY <1>3, <1>4
<1>6. u = t
  BY <1>1, <1>5 DEF Halfway, OthersIdle, At
<1>7. Over(w, k)' \/ Halfway(t, w, k)'
  BY <1>3, <1>5, <1>6, AloneStep
<1>8. w = solo'.was /\ k = solo'.req
  BY <1>2
<1>9. BegunOK(w, k)'
  BY <1>3 DEF BegunOK
<1>10. BegunOK(solo.was, solo.req)'
  BY <1>8, <1>9 DEF BegunOK
<1>11. Over(w, k)' => Over(solo.was, solo.req)'
  BY <1>8 DEF Over
<1>12. Halfway(t, w, k)' => Halfway(t, solo.was, solo.req)'
  BY <1>8 DEF Halfway
<1> QED
  BY <1>7, <1>10, <1>11, <1>12 DEF SoloOK

\* A call that finds the daemon idle has it to itself until something else
\* happens.
LEMMA CallSolo ==
    ASSUME TypeOK, TasksOK, EntriesOK, NEW t \in Tasks, Call(t)
    PROVE  SoloOK'
<1> SUFFICES ASSUME AllIdle  PROVE SoloOK'
  <2>1. ~AllIdle => solo' = None
    BY DEF Call
  <2> QED  BY <2>1 DEF SoloOK
<1>1. PICK op \in Ops, id \in Ids : \E body \in Bodies(op), to \in BodyRoots(op) :
        LET req == [Idle EXCEPT !.op = op, !.pc = "called", !.id = id,
                                !.body = body, !.to = to]
        IN /\ task' = [task EXCEPT ![t] = req]
           /\ solo' = IF AllIdle THEN [was |-> World, req |-> req] ELSE None
  BY DEF Call
<1>2. PICK body \in Bodies(op), to \in BodyRoots(op) :
        LET req == [Idle EXCEPT !.op = op, !.pc = "called", !.id = id,
                                !.body = body, !.to = to]
        IN task' = [task EXCEPT ![t] = req] /\ solo' = [was |-> World, req |-> req]
  BY <1>1
<1>3. PICK k : k = [Idle EXCEPT !.op = op, !.pc = "called", !.id = id,
                                !.body = body, !.to = to]
  OBVIOUS
<1>4. /\ k.op = op /\ k.pc = "called" /\ k.id = id /\ k.body = body
      /\ k.to = to /\ k.fd = "shut"
  BY <1>3 DEF Idle
<1>5. PICK w : w = World
  OBVIOUS
<1>6. task' = [task EXCEPT ![t] = k] /\ solo' = [was |-> w, req |-> k] /\ UNCHANGED world
  BY <1>2, <1>3, <1>5 DEF Call
<1>7. /\ w \in Worlds /\ w.root = root /\ w.saved = saved /\ w.dirs = dirs
      /\ w.file = file /\ w.plugins = plugins /\ w.on = on /\ w.home = home
  BY <1>5 DEF World, Worlds, TypeOK
<1>8. /\ to \in Roots \union {None}
      /\ op = "setRoot" => to \in Roots
      /\ op \notin {"setRoot", "httpCreate"} => to = None
  BY DEF BodyRoots
<1>9. k \in Requests
  <2>1. "called" \in Pcs
    BY DEF Pcs
  <2>2. body \in AnyBody
    BY BodiesType
  <2> QED  BY <1>3, <1>8, <2>1, <2>2 DEF Idle, Requests
<1>10. task'[t] = k /\ OthersStay(t) /\ OthersIdle(t)
  BY <1>6 DEF TasksOK, OthersStay, OthersIdle, AllIdle
<1>11. \A p \in Paths : w.file[p] # Absent \/ w.plugins[p] # Absent => p \in w.dirs
  BY <1>7 DEF EntriesOK
<1>12. BegunOK(w, k)
  BY <1>4, <1>7, <1>8, <1>9, <1>11 DEF BegunOK
<1>13. FoundOK(w, k, k, Target(w, k))
  BY <1>4 DEF FoundOK
<1>14. DoneOK(w, k, k, Target(w, k))'
  BY <1>4, <1>6, <1>7 DEF DoneOK, Made, world
<1>15. Halfway(t, w, k)'
  BY <1>4, <1>10, <1>13, <1>14, GoesOn
<1>16. solo'.was = w /\ solo'.req = k
  BY <1>6
<1>17. BegunOK(solo.was, solo.req)' /\ Halfway(t, solo.was, solo.req)'
  BY <1>12, <1>15, <1>16 DEF BegunOK, Halfway
<1> QED
  BY <1>17 DEF SoloOK

-----------------------------------------------------------------------------
(***************************************************************************)
(* The theorems                                                            *)
(***************************************************************************)
\* Every step keeps the invariant.
LEMMA NextKeeps == IInv /\ [Next]_vars => IInv'
<1> SUFFICES ASSUME IInv, [Next]_vars  PROVE IInv'
  OBVIOUS
<1>0. TypeOK /\ TasksOK /\ EntriesOK /\ FilesOK /\ SoloOK
  BY DEF IInv, FilesOK
<1>1. ASSUME NEW t \in Tasks, Step(t)  PROVE IInv'
  <2>1. Handler(t) /\ hurt' = hurt /\ solo' = solo /\ met' = met \union Meeting'
    BY <1>1 DEF Step, history
  <2>2. TypeOK' /\ TasksOK'
    BY <1>0, <2>1, HandlerTypes
  <2>3. FilesOK'
    BY <1>0, <2>1, HandlerFiles
  <2>4. SoloOK'
    BY <1>0, <2>1, HandlerSolo
  <2> QED  BY <2>2, <2>3, <2>4 DEF IInv
<1>2. CASE \/ \E t \in Tasks : Call(t) \/ IoFails(t)
           \/ \E id \in Ids : Exits(id) \/ Respawns(id)
           \/ Reboot
  <2>1. TypeOK' /\ TasksOK'
    BY <1>0, <1>2, RestTypes
  <2>2. FilesOK'
    BY <1>0, <1>2, RestFiles
  <2>3. SoloOK'
    <3>1. ASSUME NEW t \in Tasks, Call(t)  PROVE SoloOK'
      BY <1>0, <3>1, CallSolo
    <3>2. CASE solo' = None
      BY <3>2 DEF SoloOK
    <3> QED  BY <1>2, <3>1, <3>2 DEF IoFails, Exits, Respawns, Reboot
  <2> QED  BY <2>1, <2>2, <2>3 DEF IInv
<1>3. CASE UNCHANGED vars
  <2>1. /\ UNCHANGED world /\ task' = task /\ hurt' = hurt /\ solo' = solo
        /\ met' = met
    BY <1>3 DEF vars, history
  <2>2. TypeOK' /\ TasksOK'
    BY <1>0, <2>1, SMTT(30) DEF TypeOK, TasksOK, world
  <2>3. FilesOK'
    <3>1. EntriesOK' /\ PartialOK'
      BY <1>0, <2>1, SMTT(30) DEF FilesOK, EntriesOK, PartialOK, Writes, Uploads, world
    <3>2. \A p \in Paths : Kept(p)
      BY <2>1 DEF Kept, Uploads, world
    <3>3. JarsOK'
      BY <1>0, <2>1, <3>1, <3>2, JarsKeep DEF FilesOK
    <3> QED  BY <3>1, <3>3 DEF FilesOK
  <2>4. SoloOK'
    BY <1>0, <2>1, SMTT(30) DEF SoloOK, Over, AllIdle, At, World, Halfway, OthersIdle, DoneOK, world
  <2> QED  BY <2>2, <2>3, <2>4 DEF IInv
<1> QED
  BY <1>1, <1>2, <1>3 DEF Next

\* The inductive invariant holds in every reachable state, for any number of
\* servers, roots, requests and faults.
THEOREM ConfigurationsInvariance == Spec => []IInv
BY InitIInv, NextKeeps, PTL DEF Spec

\* The types of the daemon's files and of its requests.
THEOREM ConfigurationsTypeCorrect == Spec => []TypeOK
<1>1. IInv => TypeOK
  BY DEF IInv
<1> QED
  BY <1>1, ConfigurationsInvariance, PTL

\* An unreadable configuration, or a jar with bytes missing, is being written
\* or its write was cut off; a jar that is not one upload's, and that nobody
\* writes, was cut off or had two uploads at it at once.
THEOREM NothingIsLeftHalf == Spec => []PartialIsBeingWritten
<1>1. IInv => PartialIsBeingWritten
  <2> SUFFICES ASSUME IInv, NEW p \in Paths
               PROVE  /\ file[p] = Empty => p \in hurt \union OpenBy(Edits \union Creates)
                      /\ Holed(plugins[p]) => p \in hurt \union OpenBy({"upload"})
                      /\ Mixed(plugins[p]) =>
                           p \in hurt \union OpenBy({"upload"}) \union met
    BY DEF PartialIsBeingWritten
  <2>1. \A t \in Tasks :
          /\ Writes(t, p) => p \in OpenBy(Edits \union Creates)
          /\ Uploads(t, p) => p \in OpenBy({"upload"})
    BY DEF Writes, Uploads, OpenBy, Saves
  <2>2. file[p] = Empty => p \in hurt \/ \E t \in Tasks : Writes(t, p)
    BY DEF IInv, FilesOK, PartialOK
  <2>3. Holed(plugins[p]) => Headless(plugins[p]) \/ Tailless(plugins[p])
    BY DEF Holed, Headless, Tailless
  <2>4. Headless(plugins[p]) \/ Tailless(plugins[p]) =>
          p \in hurt \/ \E t \in Tasks : Uploads(t, p)
    BY DEF IInv, FilesOK, JarsOK, JarOK
  <2>5. Mixed(plugins[p]) =>
          p \in hurt \union met \/ \E t \in Tasks : Uploads(t, p)
    BY DEF IInv, FilesOK, JarsOK, JarOK, Mixed
  <2> QED  BY <2>1, <2>2, <2>3, <2>4, <2>5
<1> QED
  BY <1>1, ConfigurationsInvariance, PTL

\* A request nothing interferes with does what it promises.
THEOREM AlonePromisesAreKept == Spec => []AloneAsPromised
<1>1. IInv => AloneAsPromised
  <2> SUFFICES ASSUME IInv, AllIdle, solo # None
               PROVE  World = Alone(solo.was, solo.req)
    BY DEF AloneAsPromised
  <2>1. \A t \in Tasks : ~Halfway(t, solo.was, solo.req)
    BY DEF Halfway, AllIdle
  <2> QED  BY <2>1 DEF IInv, SoloOK, Over
<1> QED
  BY <1>1, ConfigurationsInvariance, PTL

-----------------------------------------------------------------------------
(***************************************************************************)
(* A removed server                                                        *)
(***************************************************************************)
\* A handler goes on with its own request, or ends it; the others stay at the
\* step they are.
LEMMA HandlerStays ==
    ASSUME TypeOK, TasksOK, NEW t \in Tasks, Handler(t)
    PROVE  /\ task'[t] = Idle \/ Same(t)
           /\ \A u \in Tasks \ {t} : /\ task'[u].op = task[u].op
                                     /\ task'[u].id = task[u].id
                                     /\ task'[u].pc = task[u].pc
<1> DEFINE Stays == /\ task'[t] = Idle \/ Same(t)
                    /\ OthersStay(t) \/ \E ops : OthersUnlinked(t, task[t].path, ops)
<1>1. ASSUME Return(t)  PROVE Stays
  BY <1>1, Returns
<1>2. ASSUME NEW pc \in Pcs, Goto(t, pc)  PROVE Stays
  BY <1>2, Goes DEF Same
<1>3. {"loaded", "checked", "made", "assign", "assigned", "global"} \subseteq Pcs
  BY DEF Pcs
<1>4. Stays
  <2>1. CASE Load(t)
    BY <2>1, LoadMoves
  <2>2. CASE CreateTests(t)
    BY <2>2, CreateMoves
  <2>3. CASE SaveCreates(t)
    BY <2>3, SaveMoves
  <2>4. CASE SaveEncodes(t)
    BY <2>4, EncodeMoves
  <2>5. CASE RemoveFinds(t)
    BY <2>5, FindMoves
  <2>6. CASE RemoveEmpties(t)
    BY <2>6, EmptyMoves
  <2>7. CASE UploadCreates(t)
    BY <2>7, UploadMoves
  <2>8. CASE PluginRemoved(t)
    BY <2>8, UnplugMoves
  <2>9. CASE GlobalReads(t)
    BY <2>9, GlobalMoves
  <2>10. CASE \/ LoadFails(t) \/ Answer(t) \/ Spawn(t) \/ SaveFindsNoDir(t)
              \/ RemoveDir(t) \/ GlobalEncodes(t)
    BY <1>1, <2>10, Returns DEF LoadFails, Answer, Spawn, SaveFindsNoDir, RemoveDir,
                       GlobalEncodes
  <2>11. CASE \/ CreateMakesDir(t) \/ RemoveChecks(t) \/ PluginsMakesDir(t)
              \/ RootMade(t) \/ RootAssigned(t) \/ GlobalCreates(t)
    <3>1. Return(t) \/ \E pc \in Pcs : Goto(t, pc)
      BY <1>3, <2>11 DEF CreateMakesDir, RemoveChecks, PluginsMakesDir, RootMade,
                         RootAssigned, GlobalCreates
    <3> QED  BY <1>2, <3>1, Returns
  <2>12. CASE UploadCopies(t)
    BY <2>12, CopyMoves
  <2> QED
    BY <2>1, <2>2, <2>3, <2>4, <2>5, <2>6, <2>7, <2>8, <2>9, <2>10, <2>11, <2>12
       DEF Handler
<1>5. task'[t] = Idle \/ Same(t)
  BY <1>4
<1>6. OthersStay(t) \/ \E ops : OthersUnlinked(t, task[t].path, ops)
  BY <1>4
<1> HIDE DEF Stays
<1>7. ASSUME NEW u \in Tasks \ {t}
      PROVE  /\ task'[u].op = task[u].op
             /\ task'[u].id = task[u].id
             /\ task'[u].pc = task[u].pc
  <2>1. CASE OthersStay(t)
    BY <1>7, <2>1 DEF OthersStay
  <2>2. CASE \E ops : OthersUnlinked(t, task[t].path, ops)
    <3>1. PICK ops : OthersUnlinked(t, task[t].path, ops)
      BY <2>2
    <3> QED  BY <1>7, <3>1 DEF OthersUnlinked
  <2> QED  BY <1>6, <2>1, <2>2
<1> QED
  BY <1>5, <1>7

\* No handler but a create's brings a configuration back that is gone.
LEMMA HandlerKeepsGone ==
    ASSUME TypeOK, TasksOK, NEW t \in Tasks, Handler(t),
           NEW id \in Ids, Gone(id),
           \A u \in Tasks : task'[u].op \notin Creates
    PROVE  Gone(id)'
<1>1. /\ \A p \in Paths : p[2] = id => file[p] = Absent
      /\ \A u \in Tasks : task[u].id = id =>
            task[u].op \notin Creates /\ (task[u].op \in Edits => task[u].pc = "called")
  BY DEF Gone
<1>2. /\ task[t] \in Requests /\ HandOK(task[t]) /\ WhereOK(task[t])
  BY DEF TasksOK
<1>3. /\ task'[t] = Idle \/ Same(t)
      /\ \A u \in Tasks \ {t} : /\ task'[u].op = task[u].op
                                /\ task'[u].id = task[u].id
                                /\ task'[u].pc = task[u].pc
  BY HandlerStays
<1>4. ASSUME NEW p \in Paths, p[2] = id  PROVE file'[p] = Absent
  <2>1. CASE SaveCreates(t)
    <3>1. task[t].pc = "loaded" /\ task[t].op \in Edits \union Creates
      BY <2>1 DEF SaveCreates, At
    <3>2. task[t].id # id
      BY <1>1, <3>1
    <3>3. PICK q \in SavePaths(t) \intersect dirs : file' = [file EXCEPT ![q] = Empty]
      BY <2>1, SaveMoves
    <3>4. q[2] = task[t].id
      BY <3>1, <3>3, SavePathsType DEF At
    <3> QED  BY <1>1, <1>4, <3>2, <3>3, <3>4 DEF TypeOK
  <2>2. CASE SaveEncodes(t)
    <3>1. task[t].pc = "open" /\ task[t].op \in Edits \union Creates
      BY <2>2 DEF SaveEncodes, At
    <3>2. task[t].id # id
      BY <1>1, <3>1
    <3>3. task[t].path[2] = task[t].id
      BY <1>2, <3>1 DEF HandOK
    <3>4. p # task[t].path
      BY <1>4, <3>2, <3>3
    <3>5. file'[p] = file[p]
      BY <2>2, <3>4 DEF SaveEncodes, TypeOK
    <3> QED  BY <1>1, <1>4, <3>5
  <2>3. CASE RemoveEmpties(t)
    BY <1>1, <1>4, <2>3 DEF RemoveEmpties, TypeOK
  <2>4. CASE ~SaveCreates(t) /\ ~SaveEncodes(t) /\ ~RemoveEmpties(t)
    <3>1. file' = file
      BY <2>4 DEF Handler, Load, LoadFails, Answer, Spawn, CreateTests, CreateMakesDir,
         SaveFindsNoDir, RemoveChecks, RemoveFinds, RemoveDir, PluginsMakesDir,
         UploadCreates, UploadCopies, PluginRemoved, RootMade, RootAssigned,
         GlobalCreates, GlobalReads, GlobalEncodes, world
    <3> QED  BY <1>1, <1>4, <3>1
  <2> QED  BY <2>1, <2>2, <2>3, <2>4
<1>5. ASSUME NEW u \in Tasks, task'[u].id = id, task'[u].op \in Edits
      PROVE  task'[u].pc = "called"
  <2>1. CASE u # t
    BY <1>1, <1>3, <1>5, <2>1
  <2>2. CASE u = t
    <3>1. task'[t] # Idle
      BY <1>5, <2>2 DEF Idle, Edits
    <3>2. task[t].id = id /\ task[t].op \in Edits /\ task[t].pc = "called"
      BY <1>1, <1>3, <1>5, <2>2, <3>1 DEF Same
    <3>3. task[t].op \notin Creates \union {"remove", "setRoot"}
      BY <3>2 DEF Creates, Edits
    <3>4. Load(t) \/ LoadFails(t)
      BY <3>2, <3>3 DEF Handler, Load, LoadFails, Answer, Spawn, CreateTests,
         CreateMakesDir, SaveCreates, SaveFindsNoDir, SaveEncodes, RemoveChecks,
         RemoveFinds, RemoveEmpties, RemoveDir, PluginsMakesDir, UploadCreates,
         UploadCopies, PluginRemoved, RootMade, RootAssigned, GlobalCreates,
         GlobalReads, GlobalEncodes, At
    <3>5. ~LoadFails(t)
      BY <3>1, Returns DEF LoadFails
    <3>6. ~Load(t)
      <4> SUFFICES ASSUME Load(t)  PROVE FALSE
        OBVIOUS
      <4>1. PICK p \in SeenPaths(t) : file[p] \in Config
        BY DEF Load
      <4>2. p \in Paths /\ p[2] = id
        BY <3>2, SeenType DEF At
      <4> QED  BY <1>1, <4>1, <4>2, AbsentIsNoConfig
    <3> QED  BY <3>4, <3>5, <3>6
  <2> QED  BY <2>1, <2>2
<1> QED
  BY <1>4, <1>5 DEF Gone

\* A removed server stays removed until it is created again.
THEOREM TheRemovedStayRemoved == Spec => GoneUntilCreated
<1>1. ASSUME IInv, [Next]_vars, NEW id \in Ids, Gone(id),
             \A u \in Tasks : task'[u].op \notin Creates
      PROVE  Gone(id)'
  <2>0. TypeOK /\ TasksOK
    BY <1>1 DEF IInv
  <2>1. ASSUME NEW t \in Tasks, Step(t)  PROVE Gone(id)'
    BY <1>1, <2>0, <2>1, HandlerKeepsGone DEF Step
  <2>2. ASSUME NEW t \in Tasks, Call(t)  PROVE Gone(id)'
    <3>1. PICK op, i, body, to :
            task' = [task EXCEPT ![t] = [Idle EXCEPT !.op = op, !.pc = "called", !.id = i,
                                                     !.body = body, !.to = to]]
      BY <2>2 DEF Call
    <3>2. /\ task'[t].pc = "called" /\ \A u \in Tasks \ {t} : task'[u] = task[u]
      BY <2>0, <3>1 DEF TasksOK, Idle
    <3>3. file' = file
      BY <2>2 DEF Call, world
    <3> QED  BY <1>1, <3>2, <3>3 DEF Gone
  <2>3. ASSUME NEW t \in Tasks, IoFails(t)  PROVE Gone(id)'
    <3>1. file' = file /\ task'[t] = Idle /\ \A u \in Tasks \ {t} : task'[u] = task[u]
      BY <2>0, <2>3, Returns DEF IoFails, world, OthersStay
    <3>2. Idle.op \notin Creates \union Edits
      BY DEF Idle, Creates, Edits
    <3> QED  BY <1>1, <3>1, <3>2 DEF Gone
  <2>4. CASE UNCHANGED <<file, task>>
    BY <1>1, <2>4 DEF Gone
  <2>5. CASE Reboot
    <3>1. file' = file /\ \A u \in Tasks : task'[u] = Idle
      BY <2>5 DEF Reboot
    <3>2. Idle.op \notin Creates \union Edits
      BY DEF Idle, Creates, Edits
    <3> QED  BY <1>1, <3>1, <3>2 DEF Gone
  <2> QED
    BY <1>1, <2>1, <2>2, <2>3, <2>4, <2>5 DEF Next, Exits, Respawns, vars, world
<1>2. IInv /\ [Next]_vars => [OnlyCreateRevives]_vars
  BY <1>1 DEF OnlyCreateRevives
<1> QED
  BY <1>2, ConfigurationsInvariance, PTL DEF Spec, GoneUntilCreated
=============================================================================
