----------------------------- MODULE AIRequests -----------------------------
(***************************************************************************)
(* The AI routes: chat, ai-to-task, smart-ai, transcription, voice-to-task *)
(* and its confirmation.  A request passes the gates, takes a unit of the  *)
(* daily quota, and only then spends money: one transcription, and one or  *)
(* two completions of up to MaxAttempts calls each.  A recording waits in  *)
(* a temporary file.  What the model answers is a free choice.             *)
(***************************************************************************)
EXTENDS Integers, FiniteSets

CONSTANTS Users,
          Slots,        \* threads, each serving a request at a time
          Workers,      \* processes
          WorkerOf,     \* the process of a thread
          Limit,        \* AI_DAILY_QUOTA_PER_USER, where it is not 0
          MaxAttempts,  \* max_retries of the provider
          MaxRequests,  \* bound on requests
          MaxCrashes    \* bound on processes that die

ASSUME AIRequestsConstants ==
    /\ WorkerOf \in [Slots -> Workers]
    /\ Limit \in Nat \ {0} /\ MaxAttempts \in Nat \ {0}
    /\ MaxRequests \in Nat /\ MaxCrashes \in Nat

VARIABLES used,     \* ai_usage_events.ai_calls of today, by user
          files,    \* temporary files, each named by the request that wrote it
          tasks,    \* rows of table tasks, each named by the request that inserted it
          req,      \* the request each thread serves
          log,      \* what is known of each request, by number
          asked, crashes

vars == <<used, files, tasks, req, log, asked, crashes>>

Numbers == 1..MaxRequests
Ops == {"chat", "totask", "smart", "transcribe", "voicetask", "confirm"}
Voice == {"transcribe", "voicetask"}
Steps == {"gate", "count", "audio", "record", "whisper", "remove", "call", "insert"}

\* tries: failed attempts of the completion under way; again: it is the second one;
\* heard: how the transcription ended.
Requests == [pc : Steps, n : Numbers, tries : 0..MaxAttempts - 1, again : BOOLEAN,
             heard : {"text", "empty", "raised"}]
Idle == [pc |-> "idle"]

\* fault: its quota check, a file operation or a commit of it raised after the fact.
Answers == {"none", "ok", "refused", "error", "lost"}
Entries == [user : Users, op : Ops, counted : BOOLEAN, calls : Nat, fault : BOOLEAN,
            answer : Answers]

Entry(s) == log[req[s].n]
Goto(s, pc) == req' = [req EXCEPT ![s].pc = pc]
Record(s, e) == log' = [log EXCEPT ![req[s].n] = e]
Answer(s, e, a) ==
    /\ req' = [req EXCEPT ![s] = Idle]
    /\ Record(s, [e EXCEPT !.answer = a])

-----------------------------------------------------------------------------

(* A request arrives.  A confirmation costs nothing and is not gated. *)
Ask(s, u, op) ==
    /\ req[s] = Idle
    /\ asked < MaxRequests
    /\ asked' = asked + 1
    /\ log' = [n \in 1..asked + 1 |->
                  IF n <= asked THEN log[n]
                  ELSE [user |-> u, op |-> op, counted |-> FALSE, calls |-> 0,
                        fault |-> FALSE, answer |-> "none"]]
    /\ req' = [req EXCEPT ![s] =
                  [pc |-> IF op = "confirm" THEN "insert" ELSE "gate", n |-> asked + 1,
                   tries |-> 0, again |-> FALSE, heard |-> "raised"]]
    /\ UNCHANGED <<used, files, tasks, crashes>>

(* The limiter, the body, the plan or a missing provider key refuse it:    *)
(* all of these come before the quota.                                     *)
Gate(s) ==
    /\ req[s].pc = "gate"
    /\ \/ Goto(s, "count") /\ UNCHANGED log
       \/ Answer(s, Entry(s), "refused")
    /\ UNCHANGED <<used, files, tasks, asked, crashes>>

(* Mutant: the answer of check_and_increment is not looked at. *)
CountUnchecked(s) ==
    LET u == Entry(s).user
    IN  /\ req[s].pc = "count"
        /\ used' = [used EXCEPT ![u] = @ + 1]
        /\ Record(s, [Entry(s) EXCEPT !.counted = TRUE])
        /\ Goto(s, IF Entry(s).op \in Voice THEN "audio" ELSE "call")
        /\ UNCHANGED <<files, tasks, asked, crashes>>

(* Mutant: a request without a unit waits for one instead of being refused. *)
CountWaits(s) ==
    LET u == Entry(s).user
    IN  /\ req[s].pc = "count"
        /\ IF used[u] < Limit
           THEN /\ used' = [used EXCEPT ![u] = @ + 1]
                /\ Record(s, [Entry(s) EXCEPT !.counted = TRUE])
                /\ Goto(s, IF Entry(s).op \in Voice THEN "audio" ELSE "call")
           ELSE UNCHANGED <<used, log, req>>
        /\ UNCHANGED <<files, tasks, asked, crashes>>

(* check_and_increment: one statement that counts whatever it answers.  It *)
(* may also fail, which refuses the request, and have counted it by then.  *)
Count(s) ==
    LET u == Entry(s).user
    IN  /\ req[s].pc = "count"
        /\ \/ /\ used' = [used EXCEPT ![u] = @ + 1]
              /\ IF used[u] < Limit
                 THEN /\ Record(s, [Entry(s) EXCEPT !.counted = TRUE])
                      /\ Goto(s, IF Entry(s).op \in Voice THEN "audio" ELSE "call")
                 ELSE Answer(s, Entry(s), "refused")
           \/ UNCHANGED used /\ Answer(s, Entry(s), "refused")
           \/ /\ used' = [used EXCEPT ![u] = @ + 1]
              /\ Answer(s, [Entry(s) EXCEPT !.fault = TRUE], "refused")
        /\ UNCHANGED <<files, tasks, asked, crashes>>

(* smart-ai answers a few plain questions without a call. *)
ShortCircuit(s) ==
    /\ req[s].pc = "call" /\ Entry(s).op = "smart"
    /\ Entry(s).calls = 0
    /\ Answer(s, Entry(s), "ok")
    /\ UNCHANGED <<used, files, tasks, asked, crashes>>

(* The recording is validated after the unit was taken. *)
Audio(s) ==
    /\ req[s].pc = "audio"
    /\ \/ Goto(s, "record") /\ UNCHANGED log
       \/ Answer(s, Entry(s), "refused")
    /\ UNCHANGED <<used, files, tasks, asked, crashes>>

(* The temporary file is created and written.  When the write raises, the  *)
(* file is there and its path has not been assigned, so that it is kept.   *)
Write(s) ==
    /\ req[s].pc = "record"
    /\ \/ files' = files \cup {req[s].n} /\ Goto(s, "whisper") /\ UNCHANGED log
       \/ /\ files' = files \cup {req[s].n}
          /\ Answer(s, [Entry(s) EXCEPT !.fault = TRUE], "error")
       \/ UNCHANGED files /\ Answer(s, Entry(s), "error")
    /\ UNCHANGED <<used, tasks, asked, crashes>>

(* One call to the transcription service, whatever it returns or raises. *)
Whisper(s) ==
    /\ req[s].pc = "whisper"
    /\ \E heard \in {"text", "empty", "raised"} :
          req' = [req EXCEPT ![s].pc = "remove", ![s].heard = heard]
    /\ Record(s, [Entry(s) EXCEPT !.calls = @ + 1])
    /\ UNCHANGED <<used, files, tasks, asked, crashes>>

(* What follows the removal of the file. *)
Heard(s, e) ==
    LET heard == req[s].heard
    IN  IF heard = "text" /\ e.op = "voicetask"
        THEN Goto(s, "call") /\ Record(s, e)
        ELSE Answer(s, e, IF heard = "raised" THEN "error"
                          ELSE IF e.op = "voicetask" THEN "refused" ELSE "ok")

(* Mutant: the file is removed at the end of the try block, and not in     *)
(* finally: not when the call raised.                                      *)
RemoveOnSuccess(s) ==
    /\ req[s].pc = "remove"
    /\ \/ /\ files' = IF req[s].heard = "raised" THEN files ELSE files \ {req[s].n}
          /\ Heard(s, Entry(s))
       \/ UNCHANGED files /\ Heard(s, [Entry(s) EXCEPT !.fault = TRUE])
    /\ UNCHANGED <<used, tasks, asked, crashes>>

(* finally: the file is removed, and a removal that raises is ignored. *)
Remove(s) ==
    /\ req[s].pc = "remove"
    /\ \/ files' = files \ {req[s].n} /\ Heard(s, Entry(s))
       \/ UNCHANGED files /\ Heard(s, [Entry(s) EXCEPT !.fault = TRUE])
    /\ UNCHANGED <<used, tasks, asked, crashes>>

-----------------------------------------------------------------------------
(* A completion. *)

(* What a completion that returned, good or garbled, leads to: the text to *)
(* the client, a task to insert, or a reply that was left empty and is     *)
(* asked for anew.                                                         *)
Outcomes(op, again) ==
    CASE op = "totask" -> {"insert"}
      [] op = "smart" /\ ~again -> {"insert", "again", "ok"}
      [] OTHER -> {"ok"}

(* Every failure has a fallback: a task made of the message, or an apology. *)
Fallback(op) == IF op = "totask" THEN "insert" ELSE "ok"

Continue(s, e, next) ==
    CASE next = "ok" -> Answer(s, e, "ok")
      [] next = "insert" -> Goto(s, "insert") /\ Record(s, e)
      [] next = "again" -> /\ req' = [req EXCEPT ![s].again = TRUE, ![s].tries = 0]
                           /\ Record(s, e)
      [] next = "retry" -> req' = [req EXCEPT ![s].tries = @ + 1] /\ Record(s, e)

(* chat_completion: one attempt. *)
Call(s) ==
    LET e == [Entry(s) EXCEPT !.calls = @ + 1]
        again == req[s].again
    IN  /\ req[s].pc = "call"
        /\ \/ \E next \in Outcomes(e.op, again) : Continue(s, e, next)
           \/ req[s].tries < MaxAttempts - 1 /\ Continue(s, e, "retry")
           \/ req[s].tries = MaxAttempts - 1 /\ Continue(s, e, Fallback(e.op))
        /\ UNCHANGED <<used, files, tasks, asked, crashes>>

(* Mutant: the exception of the INSERT is swallowed. *)
InsertSwallows(s) ==
    /\ req[s].pc = "insert"
    /\ \/ tasks' = tasks \cup {req[s].n} /\ Answer(s, Entry(s), "ok")
       \/ UNCHANGED tasks /\ Answer(s, Entry(s), "ok")
    /\ UNCHANGED <<used, files, asked, crashes>>

(* insert_task: committed, or refused for its title or by the database     *)
(* (the date is the model's own text), or committed without the answer.    *)
Insert(s) ==
    /\ req[s].pc = "insert"
    /\ \/ tasks' = tasks \cup {req[s].n} /\ Answer(s, Entry(s), "ok")
       \/ UNCHANGED tasks /\ \E a \in {"refused", "error"} : Answer(s, Entry(s), a)
       \/ /\ tasks' = tasks \cup {req[s].n}
          /\ Answer(s, [Entry(s) EXCEPT !.fault = TRUE], "error")
    /\ UNCHANGED <<used, files, asked, crashes>>

-----------------------------------------------------------------------------

(* A process dies, or its master kills it at the timeout: its requests are *)
(* lost, its files stay.                                                   *)
Crash(w) ==
    LET hit == {s \in Slots : WorkerOf[s] = w /\ req[s] # Idle}
    IN  /\ crashes < MaxCrashes
        /\ crashes' = crashes + 1
        /\ req' = [s \in Slots |-> IF s \in hit THEN Idle ELSE req[s]]
        /\ log' = [n \in 1..asked |->
                      IF \E s \in hit : req[s].n = n
                      THEN [log[n] EXCEPT !.answer = "lost"] ELSE log[n]]
        /\ UNCHANGED <<used, files, tasks, asked>>

Init ==
    /\ used = [u \in Users |-> 0]
    /\ files = {} /\ tasks = {}
    /\ req = [s \in Slots |-> Idle]
    /\ log = [n \in {} |-> {}]
    /\ asked = 0 /\ crashes = 0

Serve(s) ==
    \/ Gate(s) \/ Count(s) \/ ShortCircuit(s) \/ Audio(s) \/ Write(s)
    \/ Whisper(s) \/ Remove(s) \/ Call(s) \/ Insert(s)

(* The bound on requests is reached and none is under way. *)
Quiet == asked = MaxRequests /\ (\A s \in Slots : req[s] = Idle) /\ UNCHANGED vars

Next ==
    \/ \E s \in Slots : Serve(s) \/ \E u \in Users, op \in Ops : Ask(s, u, op)
    \/ \E w \in Workers : Crash(w)
    \/ Quiet

Spec == Init /\ [][Next]_vars

(* The calls have timeouts, and the master restarts a stuck process. *)
FairSpec == Spec /\ \A s \in Slots : WF_vars(Serve(s))

-----------------------------------------------------------------------------
(* Properties. *)

(* Every variable has its type. *)
TypeOK ==
    /\ used \in [Users -> Nat]
    /\ files \subseteq Numbers /\ tasks \subseteq Numbers
    /\ req \in [Slots -> Requests \cup {Idle}]
    /\ asked \in 0..MaxRequests
    /\ log \in [1..asked -> Entries]
    /\ crashes \in 0..MaxCrashes

(* However requests overlap, processes die and calls fail: a request that  *)
(* calls the provider has taken a unit of the quota, a user takes at most  *)
(* Limit of them, and a unit buys a bounded number of calls.               *)
CallsPerUnit ==
    [chat |-> MaxAttempts, totask |-> MaxAttempts, smart |-> 2 * MaxAttempts,
     transcribe |-> 1, voicetask |-> 1 + MaxAttempts, confirm |-> 0]
Units(u) == {n \in 1..asked : log[n].user = u /\ log[n].counted}
CallsArePaid ==
    /\ \A n \in 1..asked : /\ log[n].calls > 0 => log[n].counted
                           /\ log[n].calls <= CallsPerUnit[log[n].op]
    /\ \A u \in Users : Cardinality(Units(u)) <= Limit

(* The one step that takes a unit here is the ledger that the processes    *)
(* and pools of Quota implement, a failure being a request with a fault.   *)
Granted == [u \in Users |-> Cardinality(Units(u))]
Faulty == {n \in 1..asked : log[n].fault}
Counter == INSTANCE Ledger WITH Accounts <- Users, counted <- used, granted <- Granted,
                                failed <- Cardinality(Faulty)
ImplementsLedger == Counter!Spec

(* "Temporary file processing - deleted immediately after transcription":  *)
(* a recording is on disk only while its request is at work, or after the  *)
(* process died on it, or a write or a removal of its file raised.         *)
RecordingsRemoved ==
    \A n \in files :
        \/ \E s \in Slots : req[s] # Idle /\ req[s].n = n /\ req[s].pc \in {"whisper", "remove"}
        \/ log[n].answer = "lost" \/ log[n].fault

(* A client told that its task exists finds it, and one told that it does  *)
(* not may ask again without ending up with two, unless the answer of the  *)
(* commit was lost.                                                        *)
AnswersTellTasks ==
    \A n \in 1..asked :
        /\ log[n].op \in {"totask", "confirm"} /\ log[n].answer = "ok" => n \in tasks
        /\ n \in tasks /\ log[n].answer \in {"refused", "error"} => log[n].fault

(* Every request is answered, unless its process dies: no sequence of      *)
(* failing calls, retries and second calls keeps a thread for ever.        *)
EveryoneAnswered ==
    \A n \in Numbers : n <= asked ~> (n <= asked /\ log[n].answer # "none")
=============================================================================
