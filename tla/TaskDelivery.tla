---------------------------- MODULE TaskDelivery ----------------------------
(***************************************************************************)
(* What the panel asks for by an event is carried out in a goroutine of    *)
(* its own and answered to the panel: server/task.go and server/mining.go, *)
(* the answers of server/files.go, and the connection of ws/safaConn.go.   *)
(*                                                                         *)
(* Commands run in a shell with a pipe for its output, which a process it  *)
(* leaves behind may hold open.  Only mining controls have a deadline.     *)
(* The output is left out but for whether all of it was read.  What a file *)
(* operation does is FileTree's and FileUpload's, whether an event is      *)
(* executed once is EventChannel's.                                        *)
(***************************************************************************)
EXTENDS Integers, FiniteSets

CONSTANTS
  Tasks,      \* the requests
  Conns,      \* the WebSocket connections they may come over
  Latencies,  \* what a measurement may yield
  High,       \* highLatencyThreshold
  Drop,       \* retryDropThresholdTcping
  Unix,       \* is there task_unix.go, or task_windows.go?
  NoConn      \* the request came in an answer to a POST

Failed == -1
Other == 1  \* any exit code of a command that is not 0
None == -2  \* no answer, no measurement yet

ASSUME TaskConstants ==
  /\ Latencies \subseteq Nat /\ High \in Nat /\ Drop \in Nat
  /\ Unix \in BOOLEAN /\ NoConn \notin Conns

VARIABLES
  task,        \* the goroutine of each request and the process it runs
  up,          \* the connections: "open", "lost" when the peer is gone, or "closed"
  copies,      \* how many times the panel has got each answer
  unanswered   \* history: how many of these times the agent did not learn it

taskVars == <<task, up, copies, unanswered>>

Commands == {"exec", "mining"}
Kinds == Commands \cup {"file", "ping", "tcp"}

\* A POST may not come to the panel; the panel may refuse it, with a status or
\* inside a good response; and its response may be lost.
Outcomes == {"unsent", "refused", "rpc error", "unanswered", "ok"}

NoTask == [kind |-> "none", pc |-> "idle", sh |-> "none", kid |-> "none", expired |-> FALSE,
          killed |-> FALSE, reaped |-> FALSE, cut |-> FALSE, first |-> None, tries |-> 0,
          value |-> None, conn |-> NoConn, attempt |-> 0, reply |-> "none"]

TaskType ==
  [kind : Kinds \cup {"none"},
   pc : {"idle", "running", "measure", "send", "ended", "dropped", "crashed"},
   sh : {"none", "running", "zero", "other", "killed"},
   kid : {"none", "group", "apart", "gone"},
   expired : BOOLEAN, killed : BOOLEAN, reaped : BOOLEAN, cut : BOOLEAN,
   first : Latencies \cup {None}, tries : 0 .. 3,
   value : Latencies \cup {None, Failed, 0, Other}, conn : Conns \cup {NoConn}, attempt : 0 .. 4,
   reply : Outcomes \cup {"none"}]

TaskTypeOK ==
  /\ task \in [Tasks -> TaskType]
  /\ up \in [Conns -> {"open", "lost", "closed"}]
  /\ copies \in [Tasks -> Nat] /\ unanswered \in [Tasks -> Nat]

TaskInit ==
  /\ task = [j \in Tasks |-> NoTask]
  /\ up = [c \in Conns |-> "open"]
  /\ copies = [j \in Tasks |-> 0] /\ unanswered = [j \in Tasks |-> 0]

Set(j, r) == task' = [task EXCEPT ![j] = r]
Unsent == UNCHANGED <<up, copies, unanswered>>

\* The answer is known and is to be sent.
Answer(j, r, value) == Set(j, [r EXCEPT !.pc = "send", !.value = value])

Come(j, kind) == [task[j] EXCEPT !.kind = kind]

(***************************************************************************)
(* Requests, as processV2Event starts them.                                *)
(***************************************************************************)
Requests == [id : BOOLEAN, blank : BOOLEAN, disabled : BOOLEAN]

\* runTaskCommandWithTimeout: the script or the shell may not come about.
runTaskCommand(j, kind) ==
  \/ Set(j, [Come(j, kind) EXCEPT !.pc = "running", !.sh = "running"])
  \/ Answer(j, Come(j, kind), Failed)

Ignore(j, kind) == Set(j, [Come(j, kind) EXCEPT !.pc = "dropped"])

NewTask(j, r) ==
  /\ task[j].pc = "idle" /\ Unsent
  /\ \/ ~r.id /\ Ignore(j, "exec")
     \/ r.id /\ r.blank /\ Answer(j, Come(j, "exec"), 0)
     \/ r.id /\ ~r.blank /\ r.disabled /\ Answer(j, Come(j, "exec"), Failed)
     \/ r.id /\ ~r.blank /\ ~r.disabled /\ runTaskCommand(j, "exec")

\* blank: no such action, or no template with a place for the action.
renderMiningControlCommand(r) == ~r.blank /\ ~r.disabled

NewMiningControlTask(j, r) ==
  /\ task[j].pc = "idle" /\ Unsent
  /\ \/ ~r.id /\ Ignore(j, "mining")
     \/ r.id /\ ~renderMiningControlCommand(r) /\ Answer(j, Come(j, "mining"), Failed)
     \/ r.id /\ renderMiningControlCommand(r) /\ runTaskCommand(j, "mining")

\* The operation is carried out, or refused, and ends with a result or an error.
handleFileOperation(j) ==
  /\ task[j].pc = "idle" /\ Unsent
  /\ \E value \in {0, Failed} : Answer(j, Come(j, "file"), value)

NewPingTask(j, r, kind, c) ==
  /\ task[j].pc = "idle" /\ Unsent
  /\ c # NoConn => up[c] # "closed"
  /\ \/ ~r.id /\ Ignore(j, kind)
     \/ r.id /\ Set(j, [Come(j, kind) EXCEPT !.pc = "measure", !.conn = c])

(***************************************************************************)
(* The command and its process group.                                      *)
(***************************************************************************)
Holding(r) == r.kid \in {"group", "apart"}

\* The shell starts a process that holds its output open, in its group or apart.
Fork(j) ==
  /\ task[j].pc = "running" /\ task[j].sh = "running" /\ task[j].kid = "none"
  /\ \E kid \in {"group", "apart"} : Set(j, [task[j] EXCEPT !.kid = kid])
  /\ Unsent

ShellExits(j) ==
  /\ task[j].sh = "running"
  /\ \E sh \in {"zero", "other", "killed"} : Set(j, [task[j] EXCEPT !.sh = sh])
  /\ Unsent

KidExits(j) ==
  /\ Holding(task[j])
  /\ Set(j, [task[j] EXCEPT !.kid = "gone"])
  /\ Unsent

\* miningControlTimeout is over.
Deadline(j) ==
  /\ task[j].pc = "running" /\ task[j].kind = "mining" /\ ~task[j].expired
  /\ Set(j, [task[j] EXCEPT !.expired = TRUE])
  /\ Unsent

\* Mutant: only the shell is killed, which configureTaskCommand is there to avoid.
KillShell(j) ==
  /\ task[j].pc = "running" /\ task[j].expired /\ ~task[j].reaped /\ ~task[j].killed
  /\ Set(j, [task[j] EXCEPT !.killed = TRUE, !.sh = IF @ = "running" THEN "killed" ELSE @])
  /\ Unsent

\* cmd.Cancel, unless Wait has been there before.
Kill(j) ==
  /\ task[j].pc = "running" /\ task[j].expired /\ ~task[j].reaped /\ ~task[j].killed
  /\ Set(j, [task[j] EXCEPT !.killed = TRUE,
                           !.sh = IF @ = "running" THEN "killed" ELSE @,
                           !.kid = IF Unix /\ @ = "group" THEN "gone" ELSE @])
  /\ Unsent

Reap(j) ==
  /\ task[j].pc = "running" /\ task[j].sh # "running" /\ ~task[j].reaped
  /\ Set(j, [task[j] EXCEPT !.reaped = TRUE])
  /\ Unsent

\* Mutant: any error but an exit code is taken for success.
exitCodeLax(r) ==
  IF r.expired THEN Failed
  ELSE IF r.sh = "zero" THEN 0
  ELSE IF r.sh = "other" THEN Other ELSE Failed

\* A deadline that has passed counts even if the command was done before.
exitCode(r) ==
  IF r.expired THEN Failed
  ELSE IF r.sh = "zero" THEN IF r.cut THEN Failed ELSE 0
  ELSE IF r.sh = "other" THEN Other ELSE Failed

\* All of the output has been read.
Return(j) ==
  /\ task[j].pc = "running" /\ task[j].reaped /\ ~Holding(task[j])
  /\ Answer(j, task[j], exitCode(task[j]))
  /\ Unsent

\* Mutant: the agent waits for whoever holds the output open.
WaitForKid(j) == FALSE /\ Holding(task[j]) /\ UNCHANGED taskVars

\* cmd.WaitDelay is over: the pipe is closed and exec.ErrWaitDelay takes the
\* place of no error.
WaitDelay(j) ==
  /\ task[j].pc = "running" /\ task[j].reaped /\ Holding(task[j])
  /\ LET r == [task[j] EXCEPT !.cut = TRUE] IN Answer(j, r, exitCode(r))
  /\ Unsent

(***************************************************************************)
(* The measurements of a ping.  A connection that took long is tried again *)
(* up to three times.                                                      *)
(***************************************************************************)
measure(j) ==
  /\ task[j].pc = "measure" /\ task[j].first = None /\ Unsent
  /\ \/ Answer(j, task[j], Failed)
     \/ \E m \in Latencies : m <= High /\ Answer(j, task[j], m)
     \/ \E m \in Latencies : m > High /\ Set(j, [task[j] EXCEPT !.first = m])

Suspicious(r, m) == r.kind = "tcp" /\ r.first - m > Drop

measureAgain(j) ==
  /\ task[j].pc = "measure" /\ task[j].first # None /\ Unsent
  /\ LET r == [task[j] EXCEPT !.tries = @ + 1] IN
     \/ Answer(j, r, Failed)
     \/ \E m \in Latencies : m <= High /\ ~Suspicious(r, m) /\ Answer(j, r, m)
     \/ \E m \in Latencies : m <= High /\ Suspicious(r, m) /\ Answer(j, r, Failed)
     \/ \E m \in Latencies : m > High /\ r.tries < 3 /\ Set(j, r)
     \/ \E m \in Latencies : m > High /\ r.tries = 3 /\ Answer(j, r, Failed)

(***************************************************************************)
(* Answers.                                                                *)
(***************************************************************************)
\* maxRetries, maxAttempts; a ping's POST is not repeated.
Attempts(kind) == IF kind \in Commands THEN 3 ELSE IF kind = "file" THEN 4 ELSE 1

\* postFileResult looks at the status alone, postV2RPC at the response too.
Accepted(kind, outcome) == outcome = "ok" \/ (kind = "file" /\ outcome = "rpc error")

\* Mutant: an answer is sent again although the panel took it.
GivesUpAlways(r, outcome) == r.attempt = Attempts(r.kind)

\* The loop ends.
GivesUp(r, outcome) ==
  \/ Accepted(r.kind, outcome) \/ r.attempt = Attempts(r.kind)
  \/ r.kind = "file" /\ outcome = "refused"

Post(j) ==
  /\ task[j].pc = "send" /\ (task[j].kind \in {"ping", "tcp"} => task[j].conn = NoConn)
  /\ UNCHANGED up
  /\ \E outcome \in Outcomes :
       LET r == [task[j] EXCEPT !.attempt = @ + 1, !.reply = outcome]
       IN  /\ Set(j, IF GivesUp(r, outcome) THEN [r EXCEPT !.pc = "ended"] ELSE r)
           /\ copies' = [copies EXCEPT ![j] = IF outcome \in {"ok", "unanswered"} THEN @ + 1 ELSE @]
           /\ unanswered' = [unanswered EXCEPT ![j] = IF outcome = "unanswered" THEN @ + 1 ELSE @]

\* A ping is answered over the connection it came by, even if there is a new one;
\* what is on its way is lost with the connection.
WriteJSON(j) ==
  /\ task[j].pc = "send" /\ task[j].kind \in {"ping", "tcp"} /\ task[j].conn # NoConn
  /\ Set(j, [task[j] EXCEPT !.pc = "ended"])
  /\ \/ up[task[j].conn] = "open" /\ copies' = [copies EXCEPT ![j] = @ + 1] /\ UNCHANGED up
     \/ up[task[j].conn] = "open" /\ up' = [up EXCEPT ![task[j].conn] = "lost"] /\ UNCHANGED copies
     \/ up[task[j].conn] # "open" /\ UNCHANGED <<up, copies>>
  /\ UNCHANGED unanswered

Lose(c) ==
  /\ up[c] = "open"
  /\ up' = [up EXCEPT ![c] = "lost"]
  /\ UNCHANGED <<task, copies, unanswered>>

Close(c) ==
  /\ up[c] # "closed"
  /\ up' = [up EXCEPT ![c] = "closed"]
  /\ UNCHANGED <<task, copies, unanswered>>

\* The agent ends; the commands go on.
Active == {j \in Tasks : task[j].pc \in {"running", "measure", "send"}}

TaskCrash ==
  /\ Active # {}
  /\ task' = [j \in Tasks |-> IF j \in Active THEN [task[j] EXCEPT !.pc = "crashed"] ELSE task[j]]
  /\ Unsent

Receive(j) ==
  \/ \E r \in Requests : NewTask(j, r) \/ NewMiningControlTask(j, r)
  \/ handleFileOperation(j)
  \/ \E r \in Requests, kind \in {"ping", "tcp"}, c \in Conns \cup {NoConn} : NewPingTask(j, r, kind, c)

Work(j) == Kill(j) \/ Reap(j) \/ Return(j) \/ WaitDelay(j) \/ Post(j) \/ WriteJSON(j)

TaskNext ==
  \/ \E j \in Tasks :
       \/ Receive(j) \/ Fork(j) \/ ShellExits(j) \/ KidExits(j) \/ Deadline(j)
       \/ Work(j) \/ measure(j) \/ measureAgain(j)
  \/ \E c \in Conns : Lose(c) \/ Close(c)
  \/ TaskCrash

TaskSpec == TaskInit /\ [][TaskNext]_taskVars

\* Goroutines go on and timers fire; nothing is assumed of the command.
TaskFairness == \A j \in Tasks : WF_taskVars(Work(j)) /\ WF_taskVars(Deadline(j))
TaskFairSpec == TaskSpec /\ TaskFairness

-----------------------------------------------------------------------------
\* The panel gets an answer again only if the agent did not learn that it had
\* it; and an answer it never got failed in every attempt, was refused (a file
\* result is not sent again then), or was lost with the connection that the
\* ping came by (uploadTaskResult, postFileResult, NewPingTask).
DeliveryAccounted ==
  \A j \in Tasks :
    /\ copies[j] <= unanswered[j] + 1
    /\ task[j].pc = "send" => copies[j] = unanswered[j]
    /\ (task[j].pc = "ended" /\ copies[j] = 0) =>
          \/ task[j].attempt = Attempts(task[j].kind)
          \/ task[j].kind = "file" /\ task[j].reply \in {"refused", "rpc error"}
          \/ task[j].conn # NoConn /\ up[task[j].conn] # "open"

Known(j) == task[j].pc \in {"send", "ended"}

\* An answer of 0 means that the shell succeeded and all of its output is there;
\* a control that was stopped has stopped, with every process of its group; and a
\* latency is one that was measured without a lost handshake.
AnswerMatchesProcess ==
  \A j \in Tasks : Known(j) =>
    LET r == task[j] IN
    /\ (r.kind \in Commands /\ r.value = 0 /\ r.sh # "none") => r.sh = "zero" /\ ~Holding(r)
    /\ (r.kind = "mining" /\ r.value = 0) => r.sh = "zero"
    /\ (Unix /\ r.killed) => r.sh # "running" /\ r.kid # "group"
    /\ (r.kind \in {"ping", "tcp"} /\ r.value # Failed) =>
         r.value <= High /\ ~(r.first # None /\ Suspicious(r, r.value))

\* A mining control is answered even if its command hangs: "systemctl/nssm
\* 卡住时必须回传 -1" (mining.go).
MiningAnswered ==
  \A j \in Tasks :
    (task[j].kind = "mining" /\ task[j].pc \in {"running", "send"}) ~> task[j].pc \in {"ended", "crashed"}
=============================================================================
