--------------------------- MODULE PanelResources ---------------------------
(***************************************************************************)
(* Ports, subusers and MySQL databases of the panel: the use cases network *)
(* (network.go), subuser (subuser.go) and database (database.go).  The     *)
(* MySQL server keeps the databases, the users and what each was granted.  *)
(* Databases and users are named after the first eight characters of the   *)
(* game server's id: servers whose ids begin alike share one user.  None   *)
(* of the three use cases checks that the game server exists.              *)
(***************************************************************************)
EXTENDS PanelRequests

CONSTANTS
  LastPort,    \* ports are 1..LastPort
  Owners,      \* ids of game servers the requests name
  Short,       \* Short[s]: the first eight characters of id s
  Emails,      \* e-mail addresses of subusers
  Slots        \* the seconds, modulo 10000, a database can be named after

ASSUME ResourcesAssumption == LastPort \in Nat /\ Owners \subseteq Ids

VARIABLES
  allocations, \* rows [id, port]
  subusers,    \* rows [id, server, email, perms]
  records,     \* rows [id, server, db, pass] of server_databases
  mysqlDBs,    \* databases of the MySQL server: [short, slot]
  mysqlUsers,  \* mysqlUsers[x]: the password of the user named after x, 0: none
  grants,      \* databases granted to the user named like them
  tried,       \* history: tried[x], passwords CREATE USER offered for x
  dropped      \* history: the shorts one of whose databases was dropped

resourceVars == <<allocations, subusers, records, mysqlDBs, mysqlUsers, grants,
                  tried, dropped>>
mysqlVars    == <<records, mysqlDBs, mysqlUsers, grants, tried, dropped>>

Ports   == 1..LastPort
Shorts  == {Short[s] : s \in Owners}
DBNames == [short : Shorts, slot : Slots]

(***************************************************************************)
(* Ports.  Assign reads every port, takes the first free one and inserts   *)
(* it: the column is UNIQUE.  No code makes an allocation primary.         *)
(***************************************************************************)
FreePortsFromZero(used) == 0..LastPort \ used
FreePorts(used) == Ports \ used
FirstFree(used) == CHOOSE p \in FreePorts(used) : \A q \in FreePorts(used) : p <= q
SamePort(a) == {b \in allocations : b.port = a.port}

CallAssign(t) == Arrive(t, "allocation", Request("assign", "look", 0, {}))
CallFree(t)   ==
  \E id \in 1..calls : Arrive(t, "allocation", Request("free", "get", id, {}))

\* The errors of Scan and of the end of the rows are dropped: a port whose row
\* was not read counts as free.
GetFreePort(t) ==
  /\ At(t, "assign", "look")
  /\ \E read \in SUBSET allocations :
       LET used == {a.port : a \in read} IN
       /\ IF read = allocations THEN UNCHANGED faults ELSE Fault
       /\ IF FreePorts(used) = {} THEN Answer(t)
          ELSE Holds(t, "insert", {[id |-> task[t].n, port |-> FirstFree(used)]})
  /\ UNCHANGED allocations

InsertAllocation(t) ==
  /\ At(t, "assign", "insert")
  /\ allocations' = Insert(allocations, Row(t), SamePort(Row(t)))
  /\ Answer(t)

Free(t) ==
  \/ /\ At(t, "free", "get")
     /\ LooksUp(t, allocations, "delete")
     /\ UNCHANGED allocations
  \/ /\ At(t, "free", "delete")
     /\ allocations' = Delete(allocations, task[t].key)
     /\ Answer(t)

AllocationStep(t) ==
  /\ \/ GetFreePort(t)
     \/ (InsertAllocation(t) \/ Free(t)) /\ UNCHANGED faults
  /\ UNCHANGED <<calls, subusers, mysqlVars>>

(***************************************************************************)
(* Subusers.  Without the column user_id every statement but the DELETE    *)
(* is an error; Add ignores the error of its look-up.                      *)
(***************************************************************************)
SameAccess(u) == {v \in subusers : v.server = u.server /\ v.email = u.email}

CallAdd(t) ==
  \E s \in Owners, e \in Emails, p \in BOOLEAN :
     Arrive(t, "subuser", Request("add", "look", 0,
       {[id |-> calls + 1, server |-> s, email |-> e, perms |-> p]}))
CallSetPermissions(t) ==
  \E id \in 1..calls, p \in BOOLEAN :
     Arrive(t, "subuser", Request("permit", "get", id, {[perms |-> p]}))
CallRemove(t) ==
  \E id \in 1..calls : Arrive(t, "subuser", Request("unsub", "delete", id, {}))

Add(t) ==
  \/ /\ At(t, "add", "look")
     /\ IF HasColumns /\ SameAccess(Row(t)) # {}
          THEN Answer(t) ELSE Goes(t, "insert")
     /\ UNCHANGED subusers
  \/ /\ At(t, "add", "insert")
     /\ subusers' = IF HasColumns THEN Insert(subusers, Row(t), SameAccess(Row(t)))
                    ELSE subusers
     /\ Answer(t)

UpdatePermissions(t) ==
  \/ /\ At(t, "permit", "get")
     /\ LET rows == {[u EXCEPT !.perms = Row(t).perms] :
                       u \in Select(subusers, task[t].key)}
        IN  IF HasColumns /\ rows # {} THEN Holds(t, "write", rows) ELSE Answer(t)
     /\ UNCHANGED subusers
  \/ /\ At(t, "permit", "write")
     /\ subusers' = Update(subusers, Row(t))
     /\ Answer(t)

Remove(t) ==
  /\ At(t, "unsub", "delete")
  /\ subusers' = Delete(subusers, task[t].key)
  /\ Answer(t)

SubuserStep(t) ==
  /\ Add(t) \/ UpdatePermissions(t) \/ Remove(t)
  /\ UNCHANGED <<calls, faults, allocations, mysqlVars>>

(***************************************************************************)
(* Databases.  Create sends four statements to MySQL and then inserts the  *)
(* record; nothing undoes them when a later one fails, and a statement     *)
(* whose answer is lost (~ok) was carried out all the same.  CREATE USER   *)
(* IF NOT EXISTS keeps the password of a user that exists.  Delete drops   *)
(* the database and the user, which every other database named after the   *)
(* same characters needs, and ignores the errors of both.                  *)
(***************************************************************************)
SameDB(d) == {e \in records : e.db = d.db}

CallCreateDB(t) ==
  \E s \in Owners, k \in Slots :
     Arrive(t, "database", Request("mkdb", "mkdb", s,
       {[id |-> calls + 1, server |-> s, db |-> [short |-> Short[s], slot |-> k],
         pass |-> calls + 1]}))
CallDeleteDB(t) ==
  \E id \in 1..calls : Arrive(t, "database", Request("rmdb", "get", id, {}))

CreateDatabaseUnchecked(t, ok) ==
  /\ At(t, "mkdb", "mkdb")
  /\ mysqlDBs' \in {mysqlDBs, mysqlDBs \cup {Row(t).db}}
  /\ Goes(t, "mkuser")
  /\ UNCHANGED <<records, mysqlUsers, grants, tried, dropped>>

Answered(t, ok, pc) == IF ok THEN Goes(t, pc) ELSE Answer(t)

CreateDatabase(t, ok) ==
  /\ At(t, "mkdb", "mkdb")
  /\ mysqlDBs' = mysqlDBs \cup {Row(t).db}
  /\ Answered(t, ok, "mkuser")
  /\ UNCHANGED <<records, mysqlUsers, grants, tried, dropped>>

CreateUser(t, ok) ==
  /\ At(t, "mkdb", "mkuser")
  /\ LET x == Row(t).db.short IN
       /\ mysqlUsers' = [mysqlUsers EXCEPT ![x] = IF @ = 0 THEN Row(t).pass ELSE @]
       /\ tried' = [tried EXCEPT ![x] = @ \cup {Row(t).pass}]
  /\ Answered(t, ok, "grant")
  /\ UNCHANGED <<records, mysqlDBs, grants, dropped>>

\* GRANT does not create a user: when a Delete dropped it, it is an error.
Grant(t, ok) ==
  /\ At(t, "mkdb", "grant")
  /\ IF mysqlUsers[Row(t).db.short] = 0
       THEN Answer(t) /\ UNCHANGED grants
       ELSE Answered(t, ok, "flush") /\ grants' = grants \cup {Row(t).db}
  /\ UNCHANGED <<records, mysqlDBs, mysqlUsers, tried, dropped>>

FlushPrivileges(t) ==
  /\ At(t, "mkdb", "flush")
  /\ Goes(t, "insert")
  /\ UNCHANGED mysqlVars

InsertRecord(t) ==
  /\ At(t, "mkdb", "insert")
  /\ records' = IF HasColumns THEN Insert(records, Row(t), SameDB(Row(t))) ELSE records
  /\ Answer(t)
  /\ UNCHANGED <<mysqlDBs, mysqlUsers, grants, tried, dropped>>

Sends(t, ok) == CreateDatabase(t, ok) \/ CreateUser(t, ok) \/ Grant(t, ok)

CreateDB(t) == Sends(t, TRUE) \/ FlushPrivileges(t) \/ InsertRecord(t)

GetRecord(t) ==
  /\ At(t, "rmdb", "get")
  /\ IF HasColumns THEN LooksUp(t, records, "drop") ELSE Answer(t)
  /\ UNCHANGED mysqlVars

\* ok: whether MySQL executes the statement; the handler goes on either way.
DropDatabase(t, ok) ==
  /\ At(t, "rmdb", "drop")
  /\ mysqlDBs' = IF ok THEN mysqlDBs \ {Row(t).db} ELSE mysqlDBs
  /\ dropped' = dropped \cup {Row(t).db.short}
  /\ Goes(t, "dropuser")
  /\ UNCHANGED <<records, mysqlUsers, grants, tried>>

DropUser(t, ok) ==
  /\ At(t, "rmdb", "dropuser")
  /\ IF ok THEN /\ mysqlUsers' = [mysqlUsers EXCEPT ![Row(t).db.short] = 0]
                /\ grants' = {g \in grants : g.short # Row(t).db.short}
           ELSE UNCHANGED <<mysqlUsers, grants>>
  /\ Goes(t, "delete")
  /\ UNCHANGED <<records, mysqlDBs, tried, dropped>>

DeleteRecord(t) ==
  /\ At(t, "rmdb", "delete")
  /\ records' = Delete(records, task[t].key)
  /\ Answer(t)
  /\ UNCHANGED <<mysqlDBs, mysqlUsers, grants, tried, dropped>>

DatabaseStep(t) ==
  /\ \/ (CreateDB(t) \/ GetRecord(t) \/ DeleteRecord(t)) /\ UNCHANGED faults
     \/ (DropDatabase(t, TRUE) \/ DropUser(t, TRUE)) /\ UNCHANGED faults
     \/ (Sends(t, FALSE) \/ DropDatabase(t, FALSE) \/ DropUser(t, FALSE)) /\ Fault
  /\ UNCHANGED <<calls, allocations, subusers>>

(***************************************************************************)
(* The part of the specification, and what it promises.                    *)
(***************************************************************************)
CallResource(t) ==
  \/ CallAssign(t) \/ CallFree(t)
  \/ CallAdd(t) \/ CallSetPermissions(t) \/ CallRemove(t)
  \/ CallCreateDB(t) \/ CallDeleteDB(t)

ResourceStep(t) == AllocationStep(t) \/ SubuserStep(t) \/ DatabaseStep(t)

ResourcesInit ==
  /\ allocations = {} /\ subusers = {} /\ records = {}
  /\ mysqlDBs = {} /\ grants = {}
  /\ mysqlUsers = [x \in Shorts |-> 0]
  /\ tried = [x \in Shorts |-> {}]
  /\ dropped = {}

ResourcesTypeOK ==
  /\ allocations \subseteq [id : Ids, port : Ports]
  /\ subusers \subseteq [id : Ids, server : Owners, email : Emails, perms : BOOLEAN]
  /\ records \subseteq [id : Ids, server : Owners, db : DBNames, pass : Ids]
  /\ mysqlDBs \subseteq DBNames
  /\ mysqlUsers \in [Shorts -> 0..MaxCalls]
  /\ grants \subseteq DBNames
  /\ tried \in [Shorts -> SUBSET Ids]
  /\ dropped \subseteq Shorts

\* What a record promises (database.go Create): as long as no Delete ran on a
\* database named after the same eight characters, be it of this server or of
\* another whose id begins alike, the database of every record exists in MySQL,
\* and so does its user, who was granted it; and if this Create was the only one
\* to offer a password, the stored password is the user's.  The record must be
\* written last: a Create may fail or be cut off at any statement, and a
\* statement may be carried out although its answer is lost.
RecordUsable ==
  \A r \in records : LET x == Short[r.server] IN x \notin dropped =>
    /\ r.db \in mysqlDBs
    /\ mysqlUsers[x] # 0
    /\ r.db \in grants
    /\ tried[x] = {r.pass} => mysqlUsers[x] = r.pass
=============================================================================
