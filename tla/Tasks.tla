------------------------------- MODULE Tasks -------------------------------
(***************************************************************************)
(* Tasks, appointments and the reminders made of them, over the tables     *)
(* tasks and appointments.  Each request reads and writes in a transaction *)
(* of its own at READ COMMITTED; a change reads the row, fills in what the *)
(* request does not name, and writes all of it back.  The title stands for *)
(* every text field, and its value for the request that asked for it.      *)
(***************************************************************************)
EXTENDS Integers, FiniteSets

CONSTANTS Users,
          Slots,        \* threads, each serving a request at a time
          Window,       \* hours=1 of the reminders
          Wanted,       \* the changes that clients ask for
          LastHour,      \* bound on the clock
          MaxRequests   \* bound on requests

NoTime == -1              \* no due date; an appointment needs its time
Times == 0..LastHour + Window
Statuses == {"open", "closed"}   \* pending or scheduled; done or cancelled

\* What a request asks for: "keep" is a field it does not name.
Keep == "keep"
Changes == [title : {"set", Keep}, status : {"open", "closed", "unlisted", Keep},
            at : {"set", "null", Keep}, time : Times]

ASSUME TasksConstants ==
    /\ Window \in Nat /\ LastHour \in Nat /\ MaxRequests \in Nat
    /\ Wanted \subseteq Changes

VARIABLES users,    \* rows of table users
          rows,     \* rows of tables tasks and appointments
          req,      \* the request each thread serves
          asked, now

tasksVars == <<users, rows, req, asked, now>>

Numbers == 1..MaxRequests
Kinds == {"task", "appointment"}

Rows == [kind : Kinds, id : Numbers, owner : Users, title : Numbers,
         status : Statuses, at : Times \cup {NoTime}]

Steps == {"idle", "post", "select", "update", "delete", "tasks", "appointments",
          "shown", "clear"}
Requests == [pc : Steps, n : Numbers, user : Users, id : Numbers, kind : Kinds,
             change : Changes, seen : SUBSET Rows, from : 0..LastHour]
Idle == [pc |-> "idle"]

At(s, pc) == req[s].pc = pc
Answer(s) == req' = [req EXCEPT ![s] = Idle]
Named(kind, id) == {r \in rows : r.kind = kind /\ r.id = id}

\* WHERE id = %s AND user_id = %s
Mine(s) == {r \in Named(req[s].kind, req[s].id) : r.owner = req[s].user}

-----------------------------------------------------------------------------

(* The status is normalised, an unknown one to the initial one. *)
Normalized(status) == IF status = "unlisted" THEN "open" ELSE status

TimeAsked(c) == IF c.at = "set" THEN c.time ELSE NoTime

(* Mutant: nothing is required. *)
AnyTime(r) == TRUE

(* The title is required, and so is the time of an appointment. *)
Timed(r) == r.kind = "appointment" => r.at # NoTime

(* Mutant: what the request does not name is reset. *)
FilledAnew(r, old) ==
    LET c == r.change
    IN  [old EXCEPT !.title = r.n,
                    !.status = IF c.status = Keep THEN "open" ELSE Normalized(c.status),
                    !.at = TimeAsked(c)]

(* build_task_payload, build_appointment_payload: what the request names,  *)
(* and the row that was read for the rest.                                 *)
Filled(r, old) ==
    LET c == r.change
    IN  [old EXCEPT !.title = IF c.title = Keep THEN @ ELSE r.n,
                    !.status = IF c.status = Keep THEN @ ELSE Normalized(c.status),
                    !.at = IF c.at = Keep THEN @ ELSE TimeAsked(c)]

(* The row a POST inserts; a status that is not named is the initial one. *)
NewRow(r) ==
    [kind |-> r.kind, id |-> r.n, owner |-> r.user, title |-> r.n,
     status |-> IF r.change.status = Keep THEN "open" ELSE Normalized(r.change.status),
     at |-> TimeAsked(r.change)]

-----------------------------------------------------------------------------
(* A request arrives and is authenticated.  One for an id that no row has  *)
(* is left out; one for a row of somebody else is not.                     *)

Start(s, r) ==
    /\ req[s].pc \in {"idle", "shown"}
    /\ asked < MaxRequests
    /\ asked' = asked + 1
    /\ req' = [req EXCEPT ![s] = r]
    /\ UNCHANGED <<users, rows, now>>

Nothing == [title |-> Keep, status |-> Keep, at |-> Keep, time |-> 0]
Request(pc, u, kind, id, c) ==
    [pc |-> pc, n |-> asked + 1, user |-> u, id |-> id, kind |-> kind,
     change |-> c, seen |-> {}, from |-> now]

AskPost(s) ==
    \E u \in users, kind \in Kinds, c \in Wanted :
        /\ c.title = "set" /\ c.at # Keep
        /\ Start(s, Request("post", u, kind, asked + 1, c))

AskPut(s) ==
    \E u \in users, r \in rows, c \in Wanted :
        Start(s, Request("select", u, r.kind, r.id, c))

AskDelete(s) ==
    \E u \in users, r \in rows : Start(s, Request("delete", u, r.kind, r.id, Nothing))

(* GET /reminders computes its window before it reads. *)
AskReminders(s) == \E u \in users : Start(s, Request("tasks", u, "task", asked + 1, Nothing))

AskDeleteAccount(s) == \E u \in users : Start(s, Request("clear", u, "task", asked + 1, Nothing))

-----------------------------------------------------------------------------

(* POST: the INSERT is committed; or it is refused, for want of a time, by *)
(* a user who is gone, or by a database that raises.                       *)
Post(s) ==
    /\ At(s, "post")
    /\ \/ /\ Timed(NewRow(req[s])) /\ req[s].user \in users
          /\ rows' = rows \cup {NewRow(req[s])}
       \/ UNCHANGED rows
    /\ Answer(s)
    /\ UNCHANGED <<users, asked, now>>

(* PUT: the row is read, or the request ends: not found, a time that does  *)
(* not parse, an appointment without one.                                  *)
Select(s) ==
    /\ At(s, "select")
    /\ \/ \E r \in Mine(s) :
             /\ Timed(Filled(req[s], r))
             /\ req' = [req EXCEPT ![s].pc = "update", ![s].seen = {r}]
       \/ Answer(s)
    /\ UNCHANGED <<users, rows, asked, now>>

(* Mutant: the write is an upsert. *)
Upsert(s) ==
    /\ At(s, "update")
    /\ rows' = (rows \ Mine(s)) \cup {Filled(req[s], r) : r \in req[s].seen}
    /\ Answer(s)
    /\ UNCHANGED <<users, asked, now>>

(* The UPDATE writes every field and is committed.  It takes no notice of  *)
(* what was written since, and finds no row when it was deleted since: the *)
(* handler then fails on the row it did not get back.                      *)
Update(s) ==
    /\ At(s, "update")
    /\ \/ \E r \in Mine(s), old \in req[s].seen :
             rows' = (rows \ {r}) \cup {Filled(req[s], old)}
       \/ UNCHANGED rows
    /\ Answer(s)
    /\ UNCHANGED <<users, asked, now>>

(* DELETE ... RETURNING, or nothing: not found, or the database raises. *)
Delete(s) ==
    /\ At(s, "delete")
    /\ rows' = rows \ Mine(s) \/ UNCHANGED rows
    /\ Answer(s)
    /\ UNCHANGED <<users, asked, now>>

(* Mutant: each query reads the clock for its window. *)
DueNow(s, kind) ==
    {r \in rows : /\ r.kind = kind /\ r.owner = req[s].user /\ r.status = "open"
                  /\ r.at \in now..now + Window}

(* The rows one query of the reminders selects. *)
Due(s, kind) ==
    {r \in rows : /\ r.kind = kind /\ r.owner = req[s].user /\ r.status = "open"
                  /\ r.at \in req[s].from..req[s].from + Window}

ReadTasks(s) ==
    /\ At(s, "tasks")
    /\ req' = [req EXCEPT ![s].pc = "appointments", ![s].seen = Due(s, "task")]
    /\ UNCHANGED <<users, rows, asked, now>>

(* The second query sees what was committed since the first. *)
ReadAppointments(s) ==
    /\ At(s, "appointments")
    /\ req' = [req EXCEPT ![s].pc = "shown", ![s].seen = @ \cup Due(s, "appointment")]
    /\ UNCHANGED <<users, rows, asked, now>>

(* Account deletion takes the rows with it. *)
DeleteAccount(s) ==
    /\ At(s, "clear")
    /\ users' = users \ {req[s].user}
    /\ rows' = {r \in rows : r.owner # req[s].user}
    /\ Answer(s)
    /\ UNCHANGED <<asked, now>>

(* The process of a thread dies: an open transaction is rolled back. *)
Crash(s) ==
    /\ req[s].pc \notin {"idle", "shown"}
    /\ Answer(s)
    /\ UNCHANGED <<users, rows, asked, now>>

HourPasses ==
    /\ now < LastHour
    /\ now' = now + 1
    /\ UNCHANGED <<users, rows, req, asked>>

-----------------------------------------------------------------------------

TasksInit ==
    /\ users = Users /\ rows = {}
    /\ req = [s \in Slots |-> Idle]
    /\ asked = 0 /\ now = 0

AskSomething(s) == AskPost(s) \/ AskPut(s) \/ AskDelete(s) \/ AskReminders(s) \/ AskDeleteAccount(s)
Serve(s) ==
    \/ Post(s) \/ Select(s) \/ Update(s) \/ Delete(s)
    \/ ReadTasks(s) \/ ReadAppointments(s) \/ DeleteAccount(s)

(* The bound on requests is reached, or nobody is left, and none is under  *)
(* way.                                                                    *)
NobodyAsks ==
    /\ asked = MaxRequests \/ users = {}
    /\ \A s \in Slots : req[s].pc \in {"idle", "shown"}
    /\ UNCHANGED tasksVars

TasksNext == (\E s \in Slots : AskSomething(s) \/ Serve(s) \/ Crash(s)) \/ HourPasses \/ NobodyAsks

TasksSpec == TasksInit /\ [][TasksNext]_tasksVars

-----------------------------------------------------------------------------
(* Properties. *)

(* Every variable has its type. *)
TasksTypeOK ==
    /\ users \subseteq Users
    /\ rows \subseteq Rows
    /\ req \in [Slots -> Requests \cup {Idle}]
    /\ asked \in 0..MaxRequests /\ now \in 0..LastHour

(* An id names one row, of a user who exists, and an appointment has a     *)
(* time, although changes fill in what they read earlier, clients send     *)
(* "no time", and deletions of rows and accounts come between.             *)
RowsSound ==
    /\ \A r \in rows : r.owner \in users /\ (r.kind = "appointment" => r.at # NoTime)
    /\ \A q, r \in rows : q.id = r.id => q = r

(* A row that is gone is not brought back by a request that had read it.   *)
GoneStaysGone ==
    [][\A r \in rows' : \/ \E q \in rows : q.id = r.id
                        \/ \E s \in Slots : At(s, "post") /\ req[s].n = r.id]_tasksVars
=============================================================================
