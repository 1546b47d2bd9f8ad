----------------------------- MODULE KanbanAgent -----------------------------
(***************************************************************************)
(* The path a Card takes through the resident agent agy-gen: the Kanban    *)
(* tick that claims a Card and later applies its result (kanban.py), the   *)
(* durable task store with its one work claim, queue and results           *)
(* (agent_runtime.py), the tmux worker that executes queued tasks          *)
(* (agent_secure_runtime.py), and the Owner who moves Cards meanwhile.     *)
(*                                                                         *)
(* A tick runs in the worker service's loop, in a Product API thread or in *)
(* the CLI, so there may be several; other clients (MCP tool, Agent page,  *)
(* CLI) queue tasks of their own. Each of them is an actor with a program  *)
(* counter: every file or database operation is a step, and any actor may  *)
(* stop between two steps. Tasks are numbers: a fresh uuid4 is any number  *)
(* not issued yet, so the order of queue files is arbitrary but fixed.     *)
(***************************************************************************)
EXTENDS Integers, FiniteSets

CONSTANTS
  MaxCard,      \* bound: Cards created; Cards are numbered in created_at order
  AgyCards,     \* the Cards whose assignee_agent_id is "agy-gen"
  MaxTask,      \* bound: task ids issued
  Tickers,      \* processes that run KanbanSystem.agent_tick
  Clients,      \* other processes that call AgentRuntimeStore.queue_task
  Limit         \* bound, by kind: "moves" of the Owner, "submits" of Clients,
                \* "faults" (failed writes and statements, provider losses),
                \* "stops" of actors half-way, "deaths" of worker windows

Kind == {"moves", "submits", "faults", "stops", "deaths"}

ASSUME BoundsAssumption ==
  /\ MaxCard \in Nat /\ MaxTask \in Nat
  /\ Limit \in [Kind -> Nat]
ASSUME ActorsAssumption == Tickers \cap Clients = {}

VARIABLES
  status, mover, ended,   \* the board, see CardLifecycle
  bound,      \* column card.agent_task_id
  outputs,    \* <<card, task>> of every OUTPUT artifact row
  claim,      \* the task whose claimant created active-claim.json, if it exists
  written,    \* the claim file has its content
  queue,      \* tasks with a file in tasks/queued
  prompt,     \* what an issued task asks for: a Card, other work, or nothing
  result,     \* content of tasks/results/<task>.json
  issued,     \* task ids generated so far
  provider,   \* provider.json says ACTIVE
  pc, listed, card, task, seen,   \* per actor: next step, local variables
  wpc, wtask,             \* the same for the worker
  abandoned,  \* tasks some tick has queued and then given up on
  used        \* how much of each Limit is used up

board == <<status, mover, ended, bound, outputs>>
files == <<claim, written, queue, result>>
locals == <<listed, card, task, seen>>
worker == <<wpc, wtask>>
vars == <<board, files, prompt, issued, provider, pc, locals, worker,
          abandoned, used>>

Task == 1 .. MaxTask
Actors == Tickers \cup Clients
NoTask == 0
NoCard == 0
OtherWork == 0      \* a prompt that belongs to no Card
Nothing == -1       \* an empty prompt

Board == INSTANCE CardLifecycle

Card == Board!Card
Outcome == Board!Outcome

ActorSteps == {"idle", "scan", "record", "apply", "pick", "check", "create",
               "write", "enqueue", "bind", "move", "log", "release", "unlink"}
WorkerSteps == {"down", "idle", "run", "dequeue", "release", "unlink"}

WorkerAt(step, t) == wpc' = step /\ wtask' = t
Spend(k) == used[k] < Limit[k] /\ used' = [used EXCEPT ![k] = @ + 1]
Goto(a, step) == pc' = [pc EXCEPT ![a] = step]
Proceed(a, step) == Goto(a, step) /\ UNCHANGED locals
Return(a) ==   \* the call returns or raises: its local variables are gone
  /\ Goto(a, "idle")
  /\ listed' = [listed EXCEPT ![a] = {}]
  /\ card' = [card EXCEPT ![a] = NoCard]
  /\ task' = [task EXCEPT ![a] = NoTask]
  /\ seen' = [seen EXCEPT ![a] = "NONE"]
First(S, x) == x \in S /\ \A y \in S : x <= y   \* x is the oldest of S

Init ==
  /\ Board!Init
  /\ bound = [c \in Card |-> NoTask]
  /\ outputs = {}
  /\ claim = NoTask /\ written = FALSE
  /\ queue = {}
  /\ prompt = [t \in Task |-> OtherWork]
  /\ result = [t \in Task |-> "NONE"]
  /\ issued = {}
  /\ provider = FALSE
  /\ pc = [a \in Actors |-> "idle"]
  /\ listed = [a \in Actors |-> {}]
  /\ card = [a \in Actors |-> NoCard]
  /\ task = [a \in Actors |-> NoTask]
  /\ seen = [a \in Actors |-> "NONE"]
  /\ wpc = "down" /\ wtask = NoTask
  /\ abandoned = {}
  /\ used = [k \in Kind |-> 0]

-----------------------------------------------------------------------------
(* The Owner, and everything else that changes Cards or the provider.      *)

\* Cards appear in created_at order, from the Owner or from the Drive inbox.
CreateCard(c) ==
  /\ \A d \in Card : d < c => status[d] # "NONE"
  /\ Board!Create(c)
  /\ UNCHANGED <<bound, outputs, files, prompt, issued, provider, pc, locals,
                 worker, abandoned, used>>

\* KanbanSystem.transition. It reads the state, looks the edge up and then
\* updates the row only WHERE status is still the one it read; one that comes
\* too late changes nothing, so the read and the update are a single step.
OwnerTransition(c, to) ==
  /\ Spend("moves")
  /\ Board!Move(c, to, "OWNER")
  /\ UNCHANGED <<bound, outputs, files, prompt, issued, provider, pc, locals,
                 worker, abandoned>>

\* A model round trip, run by the reconcile loop or by hand, found the
\* provider working, or a later probe found that it no longer is.
ProviderActive ==
  /\ ~provider
  /\ provider' = TRUE
  /\ UNCHANGED <<board, files, prompt, issued, pc, locals, worker, abandoned,
                 used>>

ProviderLost ==
  /\ provider
  /\ Spend("faults")
  /\ provider' = FALSE
  /\ UNCHANGED <<board, files, prompt, issued, pc, locals, worker, abandoned>>

-----------------------------------------------------------------------------
(* KanbanSystem.agent_tick, first half: apply one result.                  *)

\* One query lists the Cards in PROCESS with the tasks they are bound to.
TickList(a) ==
  /\ pc[a] = "idle"
  /\ listed' = [listed EXCEPT ![a] =
       {<<c, bound[c]>> : c \in {d \in Card : /\ status[d] = "PROCESS"
                                            /\ bound[d] # NoTask}}]
  /\ Goto(a, "scan")
  /\ UNCHANGED <<board, files, prompt, issued, provider, card, task, seen,
                 worker, abandoned, used>>

\* The listed Cards one by one, until one of them has a result file.
TickScan(a) ==
  /\ pc[a] = "scan"
  /\ \/ /\ listed[a] = {}
        /\ Proceed(a, "pick")
     \/ \E p \in listed[a] :
          /\ \A q \in listed[a] : p[1] <= q[1]
          /\ IF result[p[2]] = "NONE"
               THEN /\ listed' = [listed EXCEPT ![a] = @ \ {p}]
                    /\ UNCHANGED <<pc, card, task, seen>>
               ELSE /\ listed' = [listed EXCEPT ![a] = {}]
                    /\ card' = [card EXCEPT ![a] = p[1]]
                    /\ task' = [task EXCEPT ![a] = p[2]]
                    /\ seen' = [seen EXCEPT ![a] = result[p[2]]]
                    /\ Goto(a, "record")
  /\ UNCHANGED <<board, files, prompt, issued, provider, worker, abandoned,
                 used>>

\* Mutant: the output is dropped when the Card has been bound anew meanwhile.
TickRecordIfCurrent(a) ==
  /\ pc[a] = "record"
  /\ outputs' = outputs \cup
       (IF seen[a] = "SUCCEEDED" /\ bound[card[a]] = task[a]
          THEN {<<card[a], task[a]>>} ELSE {})
  /\ Proceed(a, "apply")
  /\ UNCHANGED <<status, mover, ended, bound, files, prompt, issued, provider,
                 worker, abandoned, used>>

\* The AGENT_RESULT event, and the output as a file and an artifact row.
TickRecord(a) ==
  /\ pc[a] = "record"
  /\ outputs' = outputs \cup
       (IF seen[a] = "SUCCEEDED" THEN {<<card[a], task[a]>>} ELSE {})
  /\ Proceed(a, "apply")
  /\ UNCHANGED <<status, mover, ended, bound, files, prompt, issued, provider,
                 worker, abandoned, used>>

\* Mutant: an UPDATE without "AND status = expected_state".
AgentMoveBlindly(c, from, to) ==
  /\ status' = [status EXCEPT ![c] = to]
  /\ mover' = [mover EXCEPT ![c] = "AGENT"]

\* The store's compare-and-set on card.status, made by the agent.
AgentMove(c, from, to) ==
  IF status[c] = from
    THEN /\ status' = [status EXCEPT ![c] = to]
         /\ mover' = [mover EXCEPT ![c] = "AGENT"]
    ELSE UNCHANGED <<status, mover>>

\* Applied, or CardConflict because somebody else moved the Card.
TickApply(a) ==
  /\ pc[a] = "apply"
  /\ AgentMove(card[a], "PROCESS",
               IF seen[a] = "FAILED" THEN "FAILED" ELSE "VERIFY")
  /\ Return(a)
  /\ UNCHANGED <<ended, bound, outputs, files, prompt, issued, provider,
                 worker, abandoned, used>>

-----------------------------------------------------------------------------
(* agent_tick, second half: choose a Card for the agent.                   *)

Backlog == {c \in Card \cap AgyCards : status[c] = "BACKLOG"}

\* BUSY or IDLE, or a backlog Card and its prompt (or no task id is left).
TickPick(a) ==
  /\ pc[a] = "pick"
  /\ \/ /\ claim # NoTask \/ Backlog = {} \/ issued = Task
        /\ Return(a)
     \/ /\ claim = NoTask /\ issued # Task
        /\ \E c \in Card :
             /\ First(Backlog, c)
             /\ card' = [card EXCEPT ![a] = c]
        /\ Goto(a, "check")
        /\ UNCHANGED <<listed, task, seen>>
  /\ UNCHANGED <<board, files, prompt, issued, provider, worker, abandoned,
                 used>>

-----------------------------------------------------------------------------
(* AgentRuntimeStore.queue_task, called by a tick or by another client.    *)

\* The MCP tool, the Agent page or the CLI submits work, maybe an empty prompt.
Submit(a, what) ==
  /\ pc[a] = "idle"
  /\ Spend("submits")
  /\ issued # Task
  /\ card' = [card EXCEPT ![a] = what]
  /\ Goto(a, "check")
  /\ UNCHANGED <<board, files, prompt, issued, provider, listed, task, seen,
                 worker, abandoned>>

\* AgentNeedsAction unless the provider is ACTIVE at this moment.
ProviderCheck(a) ==
  /\ pc[a] = "check"
  /\ IF provider THEN Proceed(a, "create") ELSE Return(a)
  /\ UNCHANGED <<board, files, prompt, issued, provider, worker, abandoned,
                 used>>

\* AgentBusyError (or no task id left): nothing has happened.
ClaimRefused(a) ==
  /\ pc[a] = "create"
  /\ claim # NoTask \/ issued = Task
  /\ Return(a)
  /\ UNCHANGED <<board, files, prompt, issued, provider, worker, abandoned,
                 used>>

\* claim_work: O_CREAT|O_EXCL creates the claim file, empty as yet.
ClaimCreate(a, t) ==
  /\ pc[a] = "create"
  /\ claim = NoTask
  /\ t \in Task \ issued
  /\ issued' = issued \cup {t}
  /\ prompt' = [prompt EXCEPT ![t] = card[a]]
  /\ claim' = t /\ written' = FALSE
  /\ task' = [task EXCEPT ![a] = t]
  /\ Goto(a, "write")
  /\ UNCHANGED <<board, queue, result, provider, listed, card, seen, worker,
                 abandoned, used>>

ClaimWrite(a) ==
  /\ pc[a] = "write"
  /\ written' = (written \/ claim = task[a])   \* lost if the file is gone
  /\ Proceed(a, "enqueue")
  /\ UNCHANGED <<board, claim, queue, prompt, result, issued, provider, worker,
                 abandoned, used>>

\* The write failed: claim_work unlinks the path and raises.
ClaimWriteFails(a) ==
  /\ pc[a] = "write"
  /\ Spend("faults")
  /\ claim' = NoTask /\ written' = FALSE
  /\ Return(a)
  /\ UNCHANGED <<board, queue, prompt, result, issued, provider, worker,
                 abandoned>>

\* The queue file appears in one rename; a client is done, a tick goes on.
Enqueue(a) ==
  /\ pc[a] = "enqueue"
  /\ queue' = queue \cup {task[a]}
  /\ IF a \in Tickers THEN Proceed(a, "bind") ELSE Return(a)
  /\ UNCHANGED <<board, claim, written, prompt, result, issued, provider,
                 worker, abandoned, used>>

\* Mutant: the failure comes after the rename, and the file stays.
EnqueueFailsLate(a) ==
  /\ pc[a] = "enqueue"
  /\ Spend("faults")
  /\ queue' = queue \cup {task[a]}
  /\ Proceed(a, "release")
  /\ UNCHANGED <<board, claim, written, result, prompt, issued, provider,
                 worker, abandoned>>

EnqueueFails(a) ==
  /\ pc[a] = "enqueue"
  /\ Spend("faults")
  /\ Proceed(a, "release")
  /\ UNCHANGED <<board, files, prompt, issued, provider, worker, abandoned>>

-----------------------------------------------------------------------------
(* agent_tick after queue_task: bind the task to the Card.                 *)

\* Mutant: the Card is bound to whatever task holds the claim by now.
TickBindClaim(a) ==
  /\ pc[a] = "bind"
  /\ bound' = [bound EXCEPT ![card[a]] = claim]
  /\ Proceed(a, "move")
  /\ UNCHANGED <<status, mover, ended, outputs, files, prompt, issued, provider,
                 worker, abandoned, used>>

\* set_agent_task, whatever the Card's state is by now.
TickBind(a) ==
  /\ pc[a] = "bind"
  /\ bound' = [bound EXCEPT ![card[a]] = task[a]]
  /\ Proceed(a, "move")
  /\ UNCHANGED <<status, mover, ended, outputs, files, prompt, issued,
                 provider, worker, abandoned, used>>

\* BACKLOG -> PROCESS. On CardConflict the except clause gives the task up: it
\* releases the claim and leaves the queue file where it is.
TickMove(a) ==
  /\ pc[a] = "move"
  /\ AgentMove(card[a], "BACKLOG", "PROCESS")
  /\ IF status[card[a]] = "BACKLOG"
       THEN Proceed(a, "log") /\ UNCHANGED abandoned
       ELSE Proceed(a, "release") /\ abandoned' = abandoned \cup {task[a]}
  /\ UNCHANGED <<ended, bound, outputs, files, prompt, issued, provider,
                 worker, used>>

\* The events that follow the move, and the Drive projection, which touches
\* only the mirror columns of the Card.
TickLog(a) ==
  /\ pc[a] = "log"
  /\ Return(a)
  /\ UNCHANGED <<board, files, prompt, issued, provider, worker, abandoned,
                 used>>

\* A statement raised, with its effect or (taken one step earlier) without.
TickGivesUp(a) ==
  /\ pc[a] \in {"bind", "move", "log"}
  /\ Spend("faults")
  /\ abandoned' = abandoned \cup {task[a]}
  /\ Proceed(a, "release")
  /\ UNCHANGED <<board, files, prompt, issued, provider, worker>>

-----------------------------------------------------------------------------
(* release_work reads the claim and then unlinks the path: two steps.      *)

Mine(t) == claim = t /\ written   \* an unwritten claim does not even parse

ReleaseCheck(a) ==
  /\ pc[a] = "release"
  /\ IF Mine(task[a]) THEN Proceed(a, "unlink") ELSE Return(a)
  /\ UNCHANGED <<board, files, prompt, issued, provider, worker, abandoned,
                 used>>

ReleaseUnlink(a) ==
  /\ pc[a] = "unlink"
  /\ claim' = NoTask /\ written' = FALSE
  /\ Return(a)
  /\ UNCHANGED <<board, queue, prompt, result, issued, provider, worker,
                 abandoned, used>>

\* The process is killed, or raises where the code has no handler: only its
\* local state is lost, and the next tick or call starts afresh.
Stop(a) ==
  /\ pc[a] # "idle"
  /\ Spend("stops")
  /\ Return(a)
  /\ UNCHANGED <<board, files, prompt, issued, provider, worker, abandoned>>

-----------------------------------------------------------------------------
(* worker_loop in the tmux runtime window.                                 *)

\* Mutant: the window is opened only while no claim is held.
WorkerStartIdle ==
  /\ wpc = "down"
  /\ provider
  /\ claim = NoTask
  /\ WorkerAt("idle", NoTask)
  /\ UNCHANGED <<board, files, prompt, issued, provider, pc, locals, abandoned,
                 used>>

\* ensure_worker_session, called by the reconcile loop: it needs an ACTIVE
\* provider, and store.status() before it raises on a claim without content.
WorkerStart ==
  /\ wpc = "down"
  /\ provider
  /\ claim # NoTask => written
  /\ WorkerAt("idle", NoTask)
  /\ UNCHANGED <<board, files, prompt, issued, provider, pc, locals, abandoned,
                 used>>

\* Mutant: the queue file is dropped as the task is taken.
WorkerTakeAndDrop ==
  /\ wpc = "idle"
  /\ \E t \in Task :
       /\ First(queue, t)
       /\ WorkerAt(IF prompt[t] # Nothing THEN "run" ELSE "release", t)
       /\ queue' = queue \ {t}
  /\ UNCHANGED <<board, claim, written, prompt, result, issued, provider, pc,
                 locals, abandoned, used>>

\* Mutant: a task without a prompt is dropped and its claim forgotten.
WorkerTakeForgets ==
  /\ wpc = "idle"
  /\ \E t \in Task :
       /\ First(queue, t)
       /\ \/ /\ prompt[t] # Nothing
             /\ WorkerAt("run", t)
             /\ UNCHANGED queue
          \/ /\ prompt[t] = Nothing
             /\ WorkerAt("idle", NoTask)
             /\ queue' = queue \ {t}
  /\ UNCHANGED <<board, claim, written, prompt, result, issued, provider, pc,
                 locals, abandoned, used>>

\* The first queue file in name order; an empty prompt is dropped at once.
WorkerTake ==
  /\ wpc = "idle"
  /\ \E t \in Task :
       /\ First(queue, t)
       /\ \/ /\ prompt[t] # Nothing
             /\ WorkerAt("run", t)
             /\ UNCHANGED queue
          \/ /\ prompt[t] = Nothing
             /\ WorkerAt("release", t)
             /\ queue' = queue \ {t}
  /\ UNCHANGED <<board, claim, written, prompt, result, issued, provider, pc,
                 locals, abandoned, used>>

\* The CLI returns, fails or times out, and the result file is renamed into
\* place, over the result of an earlier run if there was one.
WorkerResult(o) ==
  /\ wpc = "run"
  /\ result' = [result EXCEPT ![wtask] = o]
  /\ ended' = ended \cup ({<<prompt[wtask], o>>} \cap (Card \X Outcome))
  /\ WorkerAt("dequeue", wtask)
  /\ UNCHANGED <<status, mover, bound, outputs, claim, written, queue, prompt,
                 issued, provider, pc, locals, abandoned, used>>

WorkerDequeue ==
  /\ wpc = "dequeue"
  /\ queue' = queue \ {wtask}
  /\ WorkerAt("release", wtask)
  /\ UNCHANGED <<board, claim, written, prompt, result, issued, provider, pc,
                 locals, abandoned, used>>

\* release_work again; here nothing catches what it raises, so a claim that is
\* unreadable or belongs to another task ends the worker.
WorkerReleaseCheck ==
  /\ wpc = "release"
  /\ \/ claim = NoTask /\ WorkerAt("idle", NoTask)
     \/ Mine(wtask) /\ WorkerAt("unlink", wtask)
     \/ claim # NoTask /\ ~Mine(wtask) /\ WorkerAt("down", NoTask)
  /\ UNCHANGED <<board, files, prompt, issued, provider, pc, locals, abandoned,
                 used>>

WorkerReleaseUnlink ==
  /\ wpc = "unlink"
  /\ claim' = NoTask /\ written' = FALSE
  /\ WorkerAt("idle", NoTask)
  /\ UNCHANGED <<board, queue, prompt, result, issued, provider, pc, locals,
                 abandoned, used>>

\* The window is killed (restart_worker_session, reboot), or OSError.
WorkerDies ==
  /\ wpc # "down"
  /\ Spend("deaths")
  /\ WorkerAt("down", NoTask)
  /\ UNCHANGED <<board, files, prompt, issued, provider, pc, locals,
                 abandoned>>

-----------------------------------------------------------------------------
TickStep(a) ==
  \/ TickList(a) \/ TickScan(a) \/ TickRecord(a) \/ TickApply(a)
  \/ TickPick(a) \/ TickBind(a) \/ TickMove(a) \/ TickLog(a)

QueueStep(a) ==
  \/ ProviderCheck(a) \/ ClaimRefused(a) \/ (\E t \in Task : ClaimCreate(a, t))
  \/ ClaimWrite(a) \/ Enqueue(a) \/ ReleaseCheck(a) \/ ReleaseUnlink(a)

FaultStep(a) ==
  \/ ClaimWriteFails(a) \/ EnqueueFails(a) \/ TickGivesUp(a) \/ Stop(a)

WorkerStep ==
  \/ WorkerStart \/ WorkerTake \/ (\E o \in Outcome : WorkerResult(o))
  \/ WorkerDequeue \/ WorkerReleaseCheck \/ WorkerReleaseUnlink

Next ==
  \/ \E c \in Card : CreateCard(c)
  \/ \E c \in Card, to \in Board!CardState : OwnerTransition(c, to)
  \/ ProviderActive \/ ProviderLost
  \/ \E a \in Tickers : TickStep(a)
  \/ \E a \in Clients, what \in {OtherWork, Nothing} : Submit(a, what)
  \/ \E a \in Actors : QueueStep(a) \/ FaultStep(a)
  \/ WorkerStep \/ WorkerDies

Spec == Init /\ [][Next]_vars

\* The worker service ticks every few seconds and reconciles the tmux window
\* first; a call in progress runs on. Nobody has to submit, move or fail.
Fairness ==
  /\ WF_vars(ProviderActive)
  /\ \A a \in Tickers : WF_vars(TickStep(a))
  /\ \A a \in Actors : WF_vars(QueueStep(a))
  /\ WF_vars(WorkerStep)

FairSpec == Spec /\ Fairness

-----------------------------------------------------------------------------
(* What must hold.                                                         *)

\* Every variable keeps to its set; a claim has content only if it exists.
TypeOK ==
  /\ status \in [Card -> Board!CardState \cup {"NONE"}]
  /\ mover \in [Card -> {"OWNER", "AGENT"}]
  /\ ended \subseteq Card \X Outcome
  /\ bound \in [Card -> Task \cup {NoTask}]
  /\ outputs \subseteq Card \X Task
  /\ claim \in Task \cup {NoTask}
  /\ written \in BOOLEAN
  /\ queue \subseteq Task
  /\ prompt \in [Task -> Card \cup {OtherWork, Nothing}]
  /\ result \in [Task -> Outcome \cup {"NONE"}]
  /\ issued \subseteq Task
  /\ provider \in BOOLEAN
  /\ pc \in [Actors -> ActorSteps]
  /\ listed \in [Actors -> SUBSET (Card \X Task)]
  /\ card \in [Actors -> Card \cup {OtherWork, Nothing}]
  /\ task \in [Actors -> Task \cup {NoTask}]
  /\ seen \in [Actors -> Outcome \cup {"NONE"}]
  /\ wpc \in WorkerSteps
  /\ wtask \in Task \cup {NoTask}
  /\ abandoned \subseteq Task
  /\ used \in [Kind -> Nat]

\* A Card that is bound to a task can still get its result: agent_tick queues
\* before it binds and worker_loop writes the result before it drops the queue
\* file, so no crash, failure or race loses the work of a bound Card.
NoLostWork ==
  \A c \in Card :
    bound[c] # NoTask => bound[c] \in queue \/ result[bound[c]] # "NONE"

\* The task a Card is bound to asks for that Card: agent_tick never stores the
\* id of another Card's task, nor of other work, however ticks interleave.
BoundToOwnCard == \A c \in Card : bound[c] # NoTask => prompt[bound[c]] = c

\* The agent's hand-over to VERIFY has something to verify: TickRecord's OUTPUT
\* row of a task that asked for this Card, or a run that printed nothing.
VerifyHasEvidence ==
  \A c \in Card : status[c] = "VERIFY" /\ mover[c] = "AGENT" =>
    \/ \E t \in Task : <<c, t>> \in outputs /\ prompt[t] = c
    \/ <<c, "EMPTY">> \in ended

\* Tasks the agent has on its hands: queued, or taken and not yet dequeued.
InFlight == queue \cup (IF wpc \in {"run", "dequeue"} THEN {wtask} ELSE {})

\* The identity's "concurrency": 1 as the code keeps it: as long as no tick has
\* given a queued task up, each task in flight holds the one claim, in spite of
\* killed workers and actors and failing writes.
ConcurrencyOne == abandoned = {} => \A t \in InFlight : claim = t /\ written

\* The identity's "concurrency": 1 as it reads: never two tasks in flight.
AtMostOneInFlight == Cardinality(InFlight) <= 1

\* The board, whoever moves it, only takes the steps of CardLifecycle.
LifecycleSpec == Board!Spec

\* A queued task that asks for something gets a result, also when the worker
\* window is killed half-way: worker_loop starts over from the queue.
QueuedTaskGetsResult ==
  \A t \in Task : (t \in queue /\ prompt[t] # Nothing) ~> (result[t] # "NONE")

WorkerKilled == used["deaths"] > 0

\* A claim does not last: whoever holds it or takes its task over frees it,
\* unless the worker is killed.
ClaimReleased == claim # NoTask ~> claim = NoTask \/ WorkerKilled

\* The agent gets round to each Card assigned to it: no Card stays in BACKLOG
\* for good, unless the worker is killed, which may leave an orphan claim.
BacklogServed ==
  \A c \in Card \cap AgyCards :
    status[c] = "BACKLOG" ~> status[c] # "BACKLOG" \/ WorkerKilled

=============================================================================
