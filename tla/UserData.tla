------------------------------ MODULE UserData ------------------------------
(***************************************************************************)
(* What belongs to a user and what becomes of it: uploaded files, which    *)
(* are on disk and in a table, workspaces with their projects, memories,   *)
(* the export of all of it and the deletion of the account.                *)
(*                                                                         *)
(* Every request authenticates in a transaction of its own and then runs   *)
(* the round trips of its handler; the account may be gone by then.  Two   *)
(* services fall back to dictionaries of the process: a memory when its    *)
(* statement raises, a file when the first look for its table failed.      *)
(***************************************************************************)
EXTENDS Integers, FiniteSets

CONSTANTS Users,        \* users that exist at the start
          Slots,        \* threads, each serving a request at a time
          Workers,      \* processes
          WorkerOf,     \* the process of a thread
          MaxRequests,  \* bound on requests, which also number what they create
          MaxFaults,    \* bound on statements and file operations that fail
          MaxCrashes    \* bound on processes that die

ASSUME UserDataConstants ==
    /\ WorkerOf \in [Slots -> Workers]
    /\ MaxRequests \in Nat /\ MaxFaults \in Nat /\ MaxCrashes \in Nat

VARIABLES users,     \* rows of table users
          rows,      \* rows of user_files, workspaces, projects and memories
          disk,      \* files in the storage directory, labelled with who sent them
          store,     \* memory_engine._store of each process: the request whose value it holds
          kept,      \* file_service._mem_files of each process
          cached,    \* file_service._db_available of each process
          audited,   \* deletions logged and acknowledged, per user
          req,       \* the request each thread serves
          asked, faults, crashes

vars == <<users, rows, disk, store, kept, cached, audited, req, asked, faults, crashes>>

Ids == 0..MaxRequests
None == 0

\* Operations and the table each works on.
KindOf == [upload |-> "file", removeFile |-> "file",
           createWorkspace |-> "workspace", dropWorkspace |-> "workspace",
           createProject |-> "project", dropProject |-> "project",
           remember |-> "memory", forget |-> "memory",
           export |-> "account", deleteAccount |-> "account"]
Ops == DOMAIN KindOf

\* The round trip that follows authentication.
FirstStep == [upload |-> "save", removeFile |-> "check",
              createWorkspace |-> "insert", dropWorkspace |-> "delete",
              createProject |-> "own", dropProject |-> "delete",
              remember |-> "upsert", forget |-> "forget",
              export |-> "collect", deleteAccount |-> "clear"]
Steps == {"idle", "save", "check", "insert", "select", "delete", "unlink", "own",
          "upsert", "forget", "collect", "recall", "exported", "clear", "cascade"}

Rows == [kind : {"file", "workspace", "project", "memory"}, id : Ids, owner : Users, home : Ids]
Files == [id : Ids, owner : Users]
Requests == [pc : Steps, op : Ops, user : Users, id : Ids, target : Ids, seen : SUBSET Rows]
Free == [pc |-> "idle"]

RowsOf(u) == {r \in rows : r.owner = u}
RowsNamed(kind, id) == {r \in rows : r.kind = kind /\ r.id = id}
MemoryOf(u) == {r \in RowsOf(u) : r.kind = "memory"}

\* The row a request inserts; a project remembers its workspace.
NewRow(r) == [kind |-> KindOf[r.op], id |-> r.id, owner |-> r.user, home |-> r.target]

\* What ON DELETE CASCADE removes with the rows in S.
WithProjects(S) ==
    S \cup {p \in rows : p.kind = "project" /\ \E w \in S : w.kind = "workspace" /\ w.id = p.home}

\* What a foreign key on users and on workspaces lets in.
KeysHold(r) ==
    /\ r.user \in users
    /\ r.op = "createProject" => RowsNamed("workspace", r.target) # {}

TypeOK ==
    /\ users \subseteq Users
    /\ rows \subseteq Rows
    /\ disk \subseteq Files
    /\ store \in [Workers -> [Users -> Ids]]
    /\ kept \in [Workers -> SUBSET Files]
    /\ cached \in [Workers -> {"unknown", "yes", "no"}]
    /\ audited \in [Users -> Nat]
    /\ req \in [Slots -> Requests \cup {Free}]
    /\ asked \in Ids /\ faults \in 0..MaxFaults /\ crashes \in 0..MaxCrashes

Init ==
    /\ users = Users
    /\ rows = {} /\ disk = {}
    /\ store = [w \in Workers |-> [u \in Users |-> None]]
    /\ kept = [w \in Workers |-> {}]
    /\ cached = [w \in Workers |-> "unknown"]
    /\ audited = [u \in Users |-> 0]
    /\ req = [s \in Slots |-> Free]
    /\ asked = 0 /\ faults = 0 /\ crashes = 0

At(s, pc) == req[s].pc = pc
Goto(s, pc) == req' = [req EXCEPT ![s].pc = pc]
Answer(s) == req' = [req EXCEPT ![s] = Free]
Fault == faults < MaxFaults /\ faults' = faults + 1
FileOf(r) == [id |-> r.id, owner |-> r.user]
Target(r) == [id |-> r.target, owner |-> r.user]

-----------------------------------------------------------------------------
(* A request arrives and is authenticated.  A request for a row that does   *)
(* not exist is left out; one for a row of somebody else is not.            *)

Targets(op) ==
    CASE op = "removeFile" -> {r.id : r \in {q \in rows : q.kind = "file"}}
                              \cup {f.id : f \in UNION {kept[w] : w \in Workers}}
      [] op \in {"dropWorkspace", "createProject"} -> {r.id : r \in {q \in rows : q.kind = "workspace"}}
      [] op = "dropProject" -> {r.id : r \in {q \in rows : q.kind = "project"}}
      [] OTHER -> {None}

Ask(s) ==
    /\ req[s].pc \in {"idle", "exported"}
    /\ asked < MaxRequests
    /\ asked' = asked + 1
    /\ \E u \in users, op \in Ops : \E t \in Targets(op) :
           req' = [req EXCEPT ![s] = [pc |-> FirstStep[op], op |-> op, user |-> u,
                                      id |-> asked + 1, target |-> t, seen |-> {}]]
    /\ UNCHANGED <<users, rows, disk, store, kept, cached, audited, faults, crashes>>

-----------------------------------------------------------------------------
(* Files: disk first, then the row; the row first, then the disk.           *)

SaveFile(s) ==
    /\ At(s, "save")
    /\ disk' = disk \cup {FileOf(req[s])}
    /\ Goto(s, "check")
    /\ UNCHANGED <<users, rows, store, kept, cached, audited, asked, faults, crashes>>

\* Mutant: the error is swallowed.
SaveFailureIgnored(s) ==
    /\ At(s, "save") /\ Fault
    /\ Goto(s, "check")
    /\ UNCHANGED <<users, rows, disk, store, kept, cached, audited, asked, crashes>>

\* The write raises, with or without a partial file left behind.
SaveFails(s) ==
    /\ At(s, "save") /\ Fault
    /\ disk' \in {disk, disk \cup {FileOf(req[s])}}
    /\ Answer(s)
    /\ UNCHANGED <<users, rows, store, kept, cached, audited, asked, crashes>>

\* _is_db_available: asked once per process, whatever the answer.
ProbeTable(w) ==
    \/ cached[w] # "unknown" /\ UNCHANGED <<cached, faults>>
    \/ cached[w] = "unknown" /\ cached' = [cached EXCEPT ![w] = "yes"] /\ UNCHANGED faults
    \/ cached[w] = "unknown" /\ cached' = [cached EXCEPT ![w] = "no"] /\ Fault

CheckTable(s) ==
    LET w == WorkerOf[s] IN
    /\ At(s, "check")
    /\ ProbeTable(w) /\ cached'[w] = "yes"
    /\ Goto(s, IF req[s].op = "upload" THEN "insert" ELSE "select")
    /\ UNCHANGED <<users, rows, disk, store, kept, audited, asked, crashes>>

\* Without the table: an upload goes to the dictionary, and a removal of what
\* is not in there finds nothing.
UseDictionary(s) ==
    LET w == WorkerOf[s] IN
    /\ At(s, "check")
    /\ ProbeTable(w) /\ cached'[w] = "no"
    /\ \/ /\ req[s].op = "upload"
          /\ kept' = [kept EXCEPT ![w] = @ \cup {FileOf(req[s])}]
       \/ /\ req[s].op = "removeFile" /\ Target(req[s]) \notin kept[w]
          /\ UNCHANGED kept
    /\ Answer(s)
    /\ UNCHANGED <<users, rows, disk, store, audited, asked, crashes>>

\* A removal of what is: the entry goes even if os.remove fails.
RemoveKept(s) ==
    LET w == WorkerOf[s] IN
    /\ At(s, "check") /\ cached[w] = "no"
    /\ req[s].op = "removeFile" /\ Target(req[s]) \in kept[w]
    /\ kept' = [kept EXCEPT ![w] = @ \ {Target(req[s])}]
    /\ \/ disk' = disk \ {Target(req[s])} /\ UNCHANGED faults
       \/ UNCHANGED disk /\ Fault
    /\ Answer(s)
    /\ UNCHANGED <<users, rows, store, cached, audited, asked, crashes>>

SelectFile(s) ==
    /\ At(s, "select")
    /\ IF \E r \in RowsNamed("file", req[s].target) : r.owner = req[s].user
       THEN Goto(s, "delete")
       ELSE Answer(s)
    /\ UNCHANGED <<users, rows, disk, store, kept, cached, audited, asked, faults, crashes>>

\* os.remove; a file that is not there is fine.
Unlink(s) ==
    /\ At(s, "unlink")
    /\ disk' = disk \ {Target(req[s])}
    /\ Answer(s)
    /\ UNCHANGED <<users, rows, store, kept, cached, audited, asked, faults, crashes>>

UnlinkFails(s) ==
    /\ At(s, "unlink") /\ Fault
    /\ Answer(s)
    /\ UNCHANGED <<users, rows, disk, store, kept, cached, audited, asked, crashes>>

-----------------------------------------------------------------------------
(* Rows of one owner: inserted, deleted; a project after a look at its      *)
(* workspace.                                                               *)

\* Mutant: whoever owns the workspace.
CheckAnyHome(s) ==
    /\ At(s, "own")
    /\ IF RowsNamed("workspace", req[s].target) # {} THEN Goto(s, "insert") ELSE Answer(s)
    /\ UNCHANGED <<users, rows, disk, store, kept, cached, audited, asked, faults, crashes>>

CheckHome(s) ==
    /\ At(s, "own")
    /\ IF \E w \in RowsNamed("workspace", req[s].target) : w.owner = req[s].user
       THEN Goto(s, "insert")
       ELSE Answer(s)
    /\ UNCHANGED <<users, rows, disk, store, kept, cached, audited, asked, faults, crashes>>

Insert(s) ==
    /\ At(s, "insert")
    /\ rows' = IF KeysHold(req[s]) THEN rows \cup {NewRow(req[s])} ELSE rows
    /\ Answer(s)
    /\ UNCHANGED <<users, disk, store, kept, cached, audited, asked, faults, crashes>>

\* Mutant: the row only.
DeleteKeepingFile(s) ==
    LET gone == {r \in RowsNamed(KindOf[req[s].op], req[s].target) : r.owner = req[s].user} IN
    /\ At(s, "delete")
    /\ rows' = rows \ WithProjects(gone)
    /\ Answer(s)
    /\ UNCHANGED <<users, disk, store, kept, cached, audited, asked, faults, crashes>>

Delete(s) ==
    LET gone == {r \in RowsNamed(KindOf[req[s].op], req[s].target) : r.owner = req[s].user} IN
    /\ At(s, "delete")
    /\ rows' = rows \ WithProjects(gone)
    /\ IF req[s].op = "removeFile" THEN Goto(s, "unlink") ELSE Answer(s)
    /\ UNCHANGED <<users, disk, store, kept, cached, audited, asked, faults, crashes>>

\* A statement raises: rolled back, answered with 500; a deletion with 404.
Raises(s) ==
    /\ req[s].pc \in {"insert", "select", "delete", "own", "cascade"} /\ Fault
    /\ Answer(s)
    /\ UNCHANGED <<users, rows, disk, store, kept, cached, audited, asked, crashes>>

-----------------------------------------------------------------------------
(* Memories: one key of each user.                                          *)

Upsert(s) ==
    LET r == req[s] IN
    /\ At(s, "upsert") /\ r.user \in users
    /\ rows' = (rows \ MemoryOf(r.user)) \cup {NewRow(r)}
    /\ Answer(s)
    /\ UNCHANGED <<users, disk, store, kept, cached, audited, asked, faults, crashes>>

\* Mutant: no fallback, and the failure only logged.
RememberNowhere(s) ==
    /\ At(s, "upsert") /\ IF req[s].user \in users THEN Fault ELSE UNCHANGED faults
    /\ Answer(s)
    /\ UNCHANGED <<users, rows, disk, store, kept, cached, audited, asked, crashes>>

\* set_memory after its statement raised, as it does for a user who is gone.
RememberInProcess(s) ==
    LET r == req[s] IN
    /\ At(s, "upsert")
    /\ \/ r.user \notin users /\ UNCHANGED faults
       \/ r.user \in users /\ Fault
    /\ store' = [store EXCEPT ![WorkerOf[s]][r.user] = r.id]
    /\ Answer(s)
    /\ UNCHANGED <<users, rows, disk, kept, cached, audited, asked, crashes>>

Forget(s) ==
    /\ At(s, "forget")
    /\ rows' = rows \ MemoryOf(req[s].user)
    /\ Answer(s)
    /\ UNCHANGED <<users, disk, store, kept, cached, audited, asked, faults, crashes>>

ForgetInProcess(s) ==
    /\ At(s, "forget") /\ Fault
    /\ store' = [store EXCEPT ![WorkerOf[s]][req[s].user] = None]
    /\ Answer(s)
    /\ UNCHANGED <<users, rows, disk, kept, cached, audited, asked, crashes>>

-----------------------------------------------------------------------------
(* Export: one transaction for profile, tasks, appointments and files, one  *)
(* for memories.  A failure of the first leaves its part empty.             *)

Collect(s) ==
    /\ At(s, "collect")
    /\ req' = [req EXCEPT ![s].pc = "recall",
                          ![s].seen = {r \in RowsOf(req[s].user) : r.kind = "file"}]
    /\ UNCHANGED <<users, rows, disk, store, kept, cached, audited, asked, faults, crashes>>

CollectFails(s) ==
    /\ At(s, "collect") /\ Fault
    /\ Goto(s, "recall")
    /\ UNCHANGED <<users, rows, disk, store, kept, cached, audited, asked, crashes>>

\* Mutant: list_memories without its connection.
RecallWithoutTable(s) ==
    /\ At(s, "recall")
    /\ Goto(s, "exported")
    /\ UNCHANGED <<users, rows, disk, store, kept, cached, audited, asked, faults, crashes>>

Recall(s) ==
    LET r == req[s] IN
    /\ At(s, "recall")
    /\ req' = [req EXCEPT ![s].pc = "exported", ![s].seen = @ \cup MemoryOf(r.user)]
    /\ UNCHANGED <<users, rows, disk, store, kept, cached, audited, asked, faults, crashes>>

\* list_memories falls back to the dictionary of the process.
RecallFromProcess(s) ==
    LET r == req[s]
        held == store[WorkerOf[s]][r.user]
    IN
    /\ At(s, "recall") /\ Fault
    /\ req' = [req EXCEPT ![s].pc = "exported",
                          ![s].seen = @ \cup {[kind |-> "memory", id |-> i, owner |-> r.user, home |-> None] :
                                              i \in {held} \ {None}}]
    /\ UNCHANGED <<users, rows, disk, store, kept, cached, audited, asked, crashes>>

-----------------------------------------------------------------------------
(* Deleting the account: the dictionary of this process, then one           *)
(* transaction whose last statement deletes the user and all rows with him. *)

\* Mutant: the dictionary is left alone.
ClearNothing(s) ==
    /\ At(s, "clear")
    /\ Goto(s, "cascade")
    /\ UNCHANGED <<users, rows, disk, store, kept, cached, audited, asked, faults, crashes>>

ClearMemory(s) ==
    /\ At(s, "clear")
    /\ store' = [store EXCEPT ![WorkerOf[s]][req[s].user] = None]
    /\ Goto(s, "cascade")
    /\ UNCHANGED <<users, rows, disk, kept, cached, audited, asked, faults, crashes>>

DeleteUser(s) ==
    LET u == req[s].user IN
    /\ At(s, "cascade")
    /\ users' = users \ {u}
    /\ rows' = rows \ RowsOf(u)
    /\ audited' = IF u \in users THEN [audited EXCEPT ![u] = @ + 1] ELSE audited
    /\ Answer(s)
    /\ UNCHANGED <<disk, store, kept, cached, asked, faults, crashes>>

-----------------------------------------------------------------------------
Crash(w) ==
    /\ crashes < MaxCrashes
    /\ crashes' = crashes + 1
    /\ store' = [store EXCEPT ![w] = [u \in Users |-> None]]
    /\ kept' = [kept EXCEPT ![w] = {}]
    /\ cached' = [cached EXCEPT ![w] = "unknown"]
    /\ req' = [s \in Slots |-> IF WorkerOf[s] = w THEN Free ELSE req[s]]
    /\ UNCHANGED <<users, rows, disk, audited, asked, faults>>

Serve(s) ==
    \/ SaveFile(s) \/ SaveFails(s) \/ CheckTable(s) \/ UseDictionary(s) \/ RemoveKept(s)
    \/ SelectFile(s) \/ Unlink(s) \/ UnlinkFails(s)
    \/ CheckHome(s) \/ Insert(s) \/ Delete(s) \/ Raises(s)
    \/ Upsert(s) \/ RememberInProcess(s) \/ Forget(s) \/ ForgetInProcess(s)
    \/ Collect(s) \/ CollectFails(s) \/ Recall(s) \/ RecallFromProcess(s)
    \/ ClearMemory(s) \/ DeleteUser(s)

\* Nobody calls any more.
Quiet ==
    /\ asked = MaxRequests \/ users = {}
    /\ \A s \in Slots : req[s].pc \in {"idle", "exported"}
    /\ UNCHANGED vars

Next ==
    \/ \E s \in Slots : Ask(s) \/ Serve(s)
    \/ \E w \in Workers : Crash(w)
    \/ Quiet

Spec == Init /\ [][Next]_vars

-----------------------------------------------------------------------------
(* Whoever lists a file can still have it: a row of user_files, or an entry *)
(* of the dictionary, has its file on disk, whatever fails or dies between  *)
(* the two stores and however many requests delete the same file.           *)
RowHasFile ==
    /\ \A r \in rows : r.kind = "file" => [id |-> r.id, owner |-> r.owner] \in disk
    /\ \A w \in Workers : kept[w] \subseteq disk

(* No row outlives what it belongs to: its owner has an account, and the    *)
(* workspace of a project is there and has the same owner, although         *)
(* create_project looks at the workspace in one transaction and inserts in  *)
(* another.                                                                 *)
NothingDangles ==
    \A r \in rows :
        /\ r.owner \in users
        /\ r.kind = "project" =>
               \E w \in RowsNamed("workspace", r.home) : w.owner = r.owner

(* An account ends once: of several deletions under way one is acknowledged *)
(* and logged, and only when the user is gone.                              *)
DeletedOnce ==
    \A u \in Users : audited[u] = IF u \in users THEN 0 ELSE 1
=============================================================================
