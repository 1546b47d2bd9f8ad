------------------------- MODULE KanbanAgent_proofs -------------------------
(***************************************************************************)
(* Proofs about KanbanAgent, for any number of Cards, tasks, tickers and   *)
(* clients and whatever the Limits: no work of a bound Card is lost, a     *)
(* Card is bound to its own task only, what the agent hands over can be    *)
(* verified, tasks do not overlap before a tick gives one up, and the      *)
(* board refines CardLifecycle.                                            *)
(***************************************************************************)
EXTENDS KanbanAgent, TLAPS

Queueing == {"check", "create", "write", "enqueue", "bind", "move", "log"}
Owning == {"write", "enqueue", "release", "unlink"}
Working == {"run", "dequeue", "release", "unlink"}

\* Only tickers take the steps of a tick; a tick past its pick has a Card.
TicksAreTickers ==
  \A a \in Actors :
    /\ pc[a] \in {"record", "apply", "bind", "move", "log"} => a \in Tickers
    /\ a \in Tickers /\ pc[a] \in Queueing => card[a] \in Card

\* A task id that is in use anywhere was issued, so a new id is in use nowhere.
UsedIsIssued ==
  /\ queue \subseteq issued
  /\ \A c \in Card : bound[c] # NoTask => bound[c] \in issued
  /\ \A a \in Actors : task[a] # NoTask => task[a] \in issued
  /\ \A a \in Actors : \A p \in listed[a] : p[2] \in issued
  /\ \A t \in Task : result[t] # "NONE" => t \in issued
  /\ \A p \in outputs : p[2] \in issued
  /\ wpc \in Working => wtask \in issued

\* Wherever a tick holds a task together with a Card, the task asks for it.
TaskAsksForCard ==
  /\ BoundToOwnCard
  /\ \A a \in Actors :
       /\ pc[a] \in {"record", "apply", "bind", "move", "log"}
            => task[a] \in Task /\ prompt[task[a]] = card[a] /\ card[a]
                 \in Card
       /\ pc[a] \in Owning => task[a] \in Task
       /\ pc[a] \in {"write", "enqueue"} => prompt[task[a]] = card[a]
       /\ \A p \in listed[a] : prompt[p[2]] = p[1]

\* A task about to be bound, and one about to be dequeued, is accounted for.
WorkIsSafe ==
  /\ NoLostWork
  /\ \A a \in Actors :
       pc[a] = "bind" => task[a] \in queue \/ result[task[a]] # "NONE"
  /\ wpc \in Working => wtask \in Task
  /\ wpc = "run" => prompt[wtask] # Nothing
  /\ wpc = "dequeue" => result[wtask] # "NONE"

\* Results, on file and as read by a tick, are of runs that have ended, and a
\* tick that is about to apply one has recorded its output.
ResultsAreReal ==
  /\ \A t \in Task : result[t] # "NONE" /\ prompt[t] \in Card
       => <<prompt[t], result[t]>> \in ended
  /\ \A a \in Actors :
       /\ pc[a] \in {"record", "apply"}
            => seen[a] \in Outcome /\ <<card[a], seen[a]>> \in ended
       /\ pc[a] = "apply" /\ seen[a] = "SUCCEEDED"
            => <<card[a], task[a]>> \in outputs

\* The claim belongs to the one actor that is queueing its task, or to the one
\* task that is queued or worked on; then nothing else is under way.
OneHolder ==
  abandoned = {} =>
    /\ \A t \in queue : claim = t /\ written
    /\ wpc \in Working => claim = wtask /\ written
    /\ wpc \in {"release", "unlink"} => wtask \notin queue
    /\ \A a \in Actors : pc[a] \in Owning =>
         /\ claim = task[a] /\ queue = {} /\ wpc \notin Working
         /\ written <=> pc[a] # "write"
         /\ \A b \in Actors \ {a} : pc[b] \notin Owning

IInv ==
  /\ TypeOK
  /\ TicksAreTickers
  /\ UsedIsIssued
  /\ TaskAsksForCard
  /\ WorkIsSafe
  /\ ResultsAreReal
  /\ VerifyHasEvidence
  /\ OneHolder

LEMMA Constants ==
  /\ NoTask \notin Task /\ OtherWork \notin Card /\ Nothing \notin Card
  /\ OtherWork # Nothing /\ NoCard = OtherWork
  /\ Card = Board!Card
  BY BoundsAssumption DEF Task, NoTask, Card, Board!Card, OtherWork,
       Nothing, NoCard

LEMMA States ==
  /\ {"BACKLOG", "PROCESS", "VERIFY", "FAILED"} \subseteq Board!CardState
  /\ "NONE" \notin Board!CardState
  /\ "NONE" \notin Outcome
  /\ Outcome = Board!Outcome
  BY DEF Board!CardState, Outcome, Board!Outcome

LEMMA SpendType ==
  ASSUME used \in [Kind -> Nat], NEW k \in Kind, Spend(k)
  PROVE  used' \in [Kind -> Nat]
  BY DEF Spend

LEMMA Kinds == {"moves", "submits", "faults", "stops", "deaths"} \subseteq Kind
  BY DEF Kind

\* Every action keeps every variable in its set.
LEMMA TypeStep ==
  ASSUME TypeOK, TicksAreTickers, TaskAsksForCard, [Next]_vars
  PROVE  TypeOK'
  <1> USE Constants, States, SpendType, Kinds DEF TypeOK, vars, board,
       files, locals, worker, Goto, Proceed, Return, WorkerAt, AgentMove,
       Board!Create, Board!Move, ActorSteps, WorkerSteps, Actors,
       TicksAreTickers, TaskAsksForCard, Owning, Queueing
  <1>1. ASSUME NEW c \in Card, CreateCard(c) PROVE TypeOK'
    BY <1>1 DEF CreateCard
  <1>2. ASSUME NEW c \in Card, NEW to \in Board!CardState, OwnerTransition(c, to)
        PROVE  TypeOK'
    BY <1>2 DEF OwnerTransition
  <1>3. CASE ProviderActive
    BY <1>3 DEF ProviderActive
  <1>4. CASE ProviderLost
    BY <1>4 DEF ProviderLost
  <1>5. ASSUME NEW a \in Tickers, TickList(a) PROVE TypeOK'
    BY <1>5 DEF TickList
  <1>6. ASSUME NEW a \in Tickers, TickScan(a) PROVE TypeOK'
    BY <1>6 DEF TickScan
  <1>7. ASSUME NEW a \in Tickers, TickRecord(a) PROVE TypeOK'
    BY <1>7 DEF TickRecord
  <1>8. ASSUME NEW a \in Tickers, TickApply(a) PROVE TypeOK'
    BY <1>8 DEF TickApply
  <1>9. ASSUME NEW a \in Tickers, TickPick(a) PROVE TypeOK'
    BY <1>9 DEF TickPick
  <1>10. ASSUME NEW a \in Tickers, TickBind(a) PROVE TypeOK'
    BY <1>10 DEF TickBind
  <1>11. ASSUME NEW a \in Tickers, TickMove(a) PROVE TypeOK'
    BY <1>11 DEF TickMove
  <1>12. ASSUME NEW a \in Tickers, TickLog(a) PROVE TypeOK'
    BY <1>12 DEF TickLog
  <1>13. ASSUME NEW a \in Clients, NEW what \in {OtherWork, Nothing}, Submit(a, what)
         PROVE  TypeOK'
    BY <1>13 DEF Submit
  <1>14. ASSUME NEW a \in Actors, ProviderCheck(a) PROVE TypeOK'
    BY <1>14 DEF ProviderCheck
  <1>15. ASSUME NEW a \in Actors, ClaimRefused(a) PROVE TypeOK'
    BY <1>15 DEF ClaimRefused
  <1>16. ASSUME NEW a \in Actors, NEW t \in Task, ClaimCreate(a, t)
         PROVE  TypeOK'
    BY <1>16 DEF ClaimCreate
  <1>17. ASSUME NEW a \in Actors, ClaimWrite(a) PROVE TypeOK'
    BY <1>17 DEF ClaimWrite
  <1>18. ASSUME NEW a \in Actors, Enqueue(a) PROVE TypeOK'
    BY <1>18 DEF Enqueue
  <1>19. ASSUME NEW a \in Actors, ReleaseCheck(a) PROVE TypeOK'
    BY <1>19 DEF ReleaseCheck
  <1>20. ASSUME NEW a \in Actors, ReleaseUnlink(a) PROVE TypeOK'
    BY <1>20 DEF ReleaseUnlink
  <1>21. ASSUME NEW a \in Actors, ClaimWriteFails(a) PROVE TypeOK'
    BY <1>21 DEF ClaimWriteFails
  <1>22. ASSUME NEW a \in Actors, EnqueueFails(a) PROVE TypeOK'
    BY <1>22 DEF EnqueueFails
  <1>23. ASSUME NEW a \in Actors, TickGivesUp(a) PROVE TypeOK'
    BY <1>23 DEF TickGivesUp
  <1>24. ASSUME NEW a \in Actors, Stop(a) PROVE TypeOK'
    BY <1>24 DEF Stop
  <1>25. CASE WorkerStart
    BY <1>25 DEF WorkerStart
  <1>26. CASE WorkerTake
    BY <1>26 DEF WorkerTake
  <1>27. ASSUME NEW o \in Outcome, WorkerResult(o) PROVE TypeOK'
    BY <1>27 DEF WorkerResult
  <1>28. CASE WorkerDequeue
    BY <1>28 DEF WorkerDequeue
  <1>29. CASE WorkerReleaseCheck
    BY <1>29 DEF WorkerReleaseCheck
  <1>30. CASE WorkerReleaseUnlink
    BY <1>30 DEF WorkerReleaseUnlink
  <1>31. CASE WorkerDies
    BY <1>31 DEF WorkerDies
  <1>32. CASE UNCHANGED vars
    BY <1>32
  <1> HIDE DEF TypeOK, vars, board, files, locals, worker, Goto, Proceed,
       Return, WorkerAt, AgentMove, Board!Create, Board!Move, ActorSteps,
       WorkerSteps, Actors, TicksAreTickers, TaskAsksForCard, Owning, Queueing
  <1>33. QED
    BY <1>1, <1>2, <1>3, <1>4, <1>5, <1>6, <1>7, <1>8, <1>9, <1>10, <1>11,
         <1>12, <1>13, <1>14, <1>15, <1>16, <1>17, <1>18, <1>19, <1>20, <1>21,
         <1>22, <1>23, <1>24, <1>25, <1>26, <1>27, <1>28, <1>29, <1>30, <1>31,
         <1>32
    DEF Next, TickStep, QueueStep, FaultStep, WorkerStep

\* A client never gets to a step of a tick.
LEMMA TickersStep ==
  ASSUME TypeOK, TicksAreTickers, [Next]_vars
  PROVE  TicksAreTickers'
  <1> USE Constants, States, ActorsAssumption DEF TypeOK, TicksAreTickers,
       vars, board, files, locals, worker, Goto, Proceed, Return, WorkerAt,
       Actors, Queueing, Backlog, First
  <1>1. ASSUME NEW c \in Card, CreateCard(c) PROVE TicksAreTickers'
    BY <1>1 DEF CreateCard
  <1>2. ASSUME NEW c \in Card, NEW to \in Board!CardState, OwnerTransition(c, to)
        PROVE  TicksAreTickers'
    BY <1>2 DEF OwnerTransition
  <1>3. CASE ProviderActive
    BY <1>3 DEF ProviderActive
  <1>4. CASE ProviderLost
    BY <1>4 DEF ProviderLost
  <1>5. ASSUME NEW a \in Tickers, TickList(a) PROVE TicksAreTickers'
    BY <1>5 DEF TickList
  <1>6. ASSUME NEW a \in Tickers, TickScan(a) PROVE TicksAreTickers'
    BY <1>6 DEF TickScan
  <1>7. ASSUME NEW a \in Tickers, TickRecord(a) PROVE TicksAreTickers'
    BY <1>7 DEF TickRecord
  <1>8. ASSUME NEW a \in Tickers, TickApply(a) PROVE TicksAreTickers'
    BY <1>8 DEF TickApply
  <1>9. ASSUME NEW a \in Tickers, TickPick(a) PROVE TicksAreTickers'
    BY <1>9 DEF TickPick
  <1>10. ASSUME NEW a \in Tickers, TickBind(a) PROVE TicksAreTickers'
    BY <1>10 DEF TickBind
  <1>11. ASSUME NEW a \in Tickers, TickMove(a) PROVE TicksAreTickers'
    BY <1>11 DEF TickMove
  <1>12. ASSUME NEW a \in Tickers, TickLog(a) PROVE TicksAreTickers'
    BY <1>12 DEF TickLog
  <1>13. ASSUME NEW a \in Clients, NEW what \in {OtherWork, Nothing}, Submit(a, what)
         PROVE  TicksAreTickers'
    BY <1>13 DEF Submit
  <1>14. ASSUME NEW a \in Actors, ProviderCheck(a) PROVE TicksAreTickers'
    BY <1>14 DEF ProviderCheck
  <1>15. ASSUME NEW a \in Actors, ClaimRefused(a) PROVE TicksAreTickers'
    BY <1>15 DEF ClaimRefused
  <1>16. ASSUME NEW a \in Actors, NEW t \in Task, ClaimCreate(a, t)
         PROVE  TicksAreTickers'
    BY <1>16 DEF ClaimCreate
  <1>17. ASSUME NEW a \in Actors, ClaimWrite(a) PROVE TicksAreTickers'
    BY <1>17 DEF ClaimWrite
  <1>18. ASSUME NEW a \in Actors, Enqueue(a) PROVE TicksAreTickers'
    BY <1>18 DEF Enqueue
  <1>19. ASSUME NEW a \in Actors, ReleaseCheck(a) PROVE TicksAreTickers'
    BY <1>19 DEF ReleaseCheck
  <1>20. ASSUME NEW a \in Actors, ReleaseUnlink(a) PROVE TicksAreTickers'
    BY <1>20 DEF ReleaseUnlink
  <1>21. ASSUME NEW a \in Actors, ClaimWriteFails(a) PROVE TicksAreTickers'
    BY <1>21 DEF ClaimWriteFails
  <1>22. ASSUME NEW a \in Actors, EnqueueFails(a) PROVE TicksAreTickers'
    BY <1>22 DEF EnqueueFails
  <1>23. ASSUME NEW a \in Actors, TickGivesUp(a) PROVE TicksAreTickers'
    BY <1>23 DEF TickGivesUp
  <1>24. ASSUME NEW a \in Actors, Stop(a) PROVE TicksAreTickers'
    BY <1>24 DEF Stop
  <1>25. CASE WorkerStart
    BY <1>25 DEF WorkerStart
  <1>26. CASE WorkerTake
    BY <1>26 DEF WorkerTake
  <1>27. ASSUME NEW o \in Outcome, WorkerResult(o) PROVE TicksAreTickers'
    BY <1>27 DEF WorkerResult
  <1>28. CASE WorkerDequeue
    BY <1>28 DEF WorkerDequeue
  <1>29. CASE WorkerReleaseCheck
    BY <1>29 DEF WorkerReleaseCheck
  <1>30. CASE WorkerReleaseUnlink
    BY <1>30 DEF WorkerReleaseUnlink
  <1>31. CASE WorkerDies
    BY <1>31 DEF WorkerDies
  <1>32. CASE UNCHANGED vars
    BY <1>32
  <1> HIDE DEF TypeOK, TicksAreTickers, vars, board, files, locals,
       worker, Goto, Proceed, Return, WorkerAt, Actors, Queueing, Backlog,
       First
  <1>33. QED
    BY <1>1, <1>2, <1>3, <1>4, <1>5, <1>6, <1>7, <1>8, <1>9, <1>10, <1>11,
         <1>12, <1>13, <1>14, <1>15, <1>16, <1>17, <1>18, <1>19, <1>20, <1>21,
         <1>22, <1>23, <1>24, <1>25, <1>26, <1>27, <1>28, <1>29, <1>30, <1>31,
         <1>32
    DEF Next, TickStep, QueueStep, FaultStep, WorkerStep

\* Ids come into use only when they are issued.
LEMMA UsedStep ==
  ASSUME TypeOK, TicksAreTickers, TaskAsksForCard, WorkIsSafe, UsedIsIssued,
         [Next]_vars
  PROVE  UsedIsIssued'
  <1> USE Constants, States DEF TypeOK, UsedIsIssued, TicksAreTickers,
       TaskAsksForCard, Owning, Working, WorkIsSafe, vars, board, files,
       locals, worker, Goto, Proceed, Return, WorkerAt, Actors, First
  <1>1. ASSUME NEW c \in Card, CreateCard(c) PROVE UsedIsIssued'
    BY <1>1 DEF CreateCard
  <1>2. ASSUME NEW c \in Card, NEW to \in Board!CardState, OwnerTransition(c, to)
        PROVE  UsedIsIssued'
    BY <1>2 DEF OwnerTransition
  <1>3. CASE ProviderActive
    BY <1>3 DEF ProviderActive
  <1>4. CASE ProviderLost
    BY <1>4 DEF ProviderLost
  <1>5. ASSUME NEW a \in Tickers, TickList(a) PROVE UsedIsIssued'
    BY <1>5 DEF TickList
  <1>6. ASSUME NEW a \in Tickers, TickScan(a) PROVE UsedIsIssued'
    BY <1>6 DEF TickScan
  <1>7. ASSUME NEW a \in Tickers, TickRecord(a) PROVE UsedIsIssued'
    BY <1>7 DEF TickRecord
  <1>8. ASSUME NEW a \in Tickers, TickApply(a) PROVE UsedIsIssued'
    BY <1>8 DEF TickApply
  <1>9. ASSUME NEW a \in Tickers, TickPick(a) PROVE UsedIsIssued'
    BY <1>9 DEF TickPick
  <1>10. ASSUME NEW a \in Tickers, TickBind(a) PROVE UsedIsIssued'
    BY <1>10 DEF TickBind
  <1>11. ASSUME NEW a \in Tickers, TickMove(a) PROVE UsedIsIssued'
    BY <1>11 DEF TickMove
  <1>12. ASSUME NEW a \in Tickers, TickLog(a) PROVE UsedIsIssued'
    BY <1>12 DEF TickLog
  <1>13. ASSUME NEW a \in Clients, NEW what \in {OtherWork, Nothing}, Submit(a, what)
         PROVE  UsedIsIssued'
    BY <1>13 DEF Submit
  <1>14. ASSUME NEW a \in Actors, ProviderCheck(a) PROVE UsedIsIssued'
    BY <1>14 DEF ProviderCheck
  <1>15. ASSUME NEW a \in Actors, ClaimRefused(a) PROVE UsedIsIssued'
    BY <1>15 DEF ClaimRefused
  <1>16. ASSUME NEW a \in Actors, NEW t \in Task, ClaimCreate(a, t)
         PROVE  UsedIsIssued'
    BY <1>16 DEF ClaimCreate
  <1>17. ASSUME NEW a \in Actors, ClaimWrite(a) PROVE UsedIsIssued'
    BY <1>17 DEF ClaimWrite
  <1>18. ASSUME NEW a \in Actors, Enqueue(a) PROVE UsedIsIssued'
    BY <1>18 DEF Enqueue
  <1>19. ASSUME NEW a \in Actors, ReleaseCheck(a) PROVE UsedIsIssued'
    BY <1>19 DEF ReleaseCheck
  <1>20. ASSUME NEW a \in Actors, ReleaseUnlink(a) PROVE UsedIsIssued'
    BY <1>20 DEF ReleaseUnlink
  <1>21. ASSUME NEW a \in Actors, ClaimWriteFails(a) PROVE UsedIsIssued'
    BY <1>21 DEF ClaimWriteFails
  <1>22. ASSUME NEW a \in Actors, EnqueueFails(a) PROVE UsedIsIssued'
    BY <1>22 DEF EnqueueFails
  <1>23. ASSUME NEW a \in Actors, TickGivesUp(a) PROVE UsedIsIssued'
    BY <1>23 DEF TickGivesUp
  <1>24. ASSUME NEW a \in Actors, Stop(a) PROVE UsedIsIssued'
    BY <1>24 DEF Stop
  <1>25. CASE WorkerStart
    BY <1>25 DEF WorkerStart
  <1>26. CASE WorkerTake
    BY <1>26 DEF WorkerTake
  <1>27. ASSUME NEW o \in Outcome, WorkerResult(o) PROVE UsedIsIssued'
    BY <1>27 DEF WorkerResult
  <1>28. CASE WorkerDequeue
    BY <1>28 DEF WorkerDequeue
  <1>29. CASE WorkerReleaseCheck
    BY <1>29 DEF WorkerReleaseCheck
  <1>30. CASE WorkerReleaseUnlink
    BY <1>30 DEF WorkerReleaseUnlink
  <1>31. CASE WorkerDies
    BY <1>31 DEF WorkerDies
  <1>32. CASE UNCHANGED vars
    BY <1>32
  <1> HIDE DEF TypeOK, UsedIsIssued, TicksAreTickers, TaskAsksForCard,
       Owning, Working, WorkIsSafe, vars, board, files, locals, worker, Goto,
       Proceed, Return, WorkerAt, Actors, First
  <1>33. QED
    BY <1>1, <1>2, <1>3, <1>4, <1>5, <1>6, <1>7, <1>8, <1>9, <1>10, <1>11,
         <1>12, <1>13, <1>14, <1>15, <1>16, <1>17, <1>18, <1>19, <1>20, <1>21,
         <1>22, <1>23, <1>24, <1>25, <1>26, <1>27, <1>28, <1>29, <1>30, <1>31,
         <1>32
    DEF Next, TickStep, QueueStep, FaultStep, WorkerStep

\* A Card and a task that meet in an actor or in a row belong together.
LEMMA AsksStep ==
  ASSUME TypeOK, TicksAreTickers, UsedIsIssued, TaskAsksForCard, [Next]_vars
  PROVE  TaskAsksForCard'
  <1> USE Constants, States DEF TypeOK, UsedIsIssued, TicksAreTickers,
       TaskAsksForCard, BoundToOwnCard, Owning, Queueing, vars, board, files,
       locals, worker, Goto, Proceed, Return, WorkerAt, Actors
  <1>1. ASSUME NEW c \in Card, CreateCard(c) PROVE TaskAsksForCard'
    BY <1>1 DEF CreateCard
  <1>2. ASSUME NEW c \in Card, NEW to \in Board!CardState, OwnerTransition(c, to)
        PROVE  TaskAsksForCard'
    BY <1>2 DEF OwnerTransition
  <1>3. CASE ProviderActive
    BY <1>3 DEF ProviderActive
  <1>4. CASE ProviderLost
    BY <1>4 DEF ProviderLost
  <1>5. ASSUME NEW a \in Tickers, TickList(a) PROVE TaskAsksForCard'
    BY <1>5 DEF TickList
  <1>6. ASSUME NEW a \in Tickers, TickScan(a) PROVE TaskAsksForCard'
    BY <1>6 DEF TickScan
  <1>7. ASSUME NEW a \in Tickers, TickRecord(a) PROVE TaskAsksForCard'
    BY <1>7 DEF TickRecord
  <1>8. ASSUME NEW a \in Tickers, TickApply(a) PROVE TaskAsksForCard'
    BY <1>8 DEF TickApply
  <1>9. ASSUME NEW a \in Tickers, TickPick(a) PROVE TaskAsksForCard'
    BY <1>9 DEF TickPick
  <1>10. ASSUME NEW a \in Tickers, TickBind(a) PROVE TaskAsksForCard'
    BY <1>10 DEF TickBind
  <1>11. ASSUME NEW a \in Tickers, TickMove(a) PROVE TaskAsksForCard'
    BY <1>11 DEF TickMove
  <1>12. ASSUME NEW a \in Tickers, TickLog(a) PROVE TaskAsksForCard'
    BY <1>12 DEF TickLog
  <1>13. ASSUME NEW a \in Clients, NEW what \in {OtherWork, Nothing}, Submit(a, what)
         PROVE  TaskAsksForCard'
    BY <1>13 DEF Submit
  <1>14. ASSUME NEW a \in Actors, ProviderCheck(a) PROVE TaskAsksForCard'
    BY <1>14 DEF ProviderCheck
  <1>15. ASSUME NEW a \in Actors, ClaimRefused(a) PROVE TaskAsksForCard'
    BY <1>15 DEF ClaimRefused
  <1>16. ASSUME NEW a \in Actors, NEW t \in Task, ClaimCreate(a, t)
         PROVE  TaskAsksForCard'
    BY <1>16 DEF ClaimCreate
  <1>17. ASSUME NEW a \in Actors, ClaimWrite(a) PROVE TaskAsksForCard'
    BY <1>17 DEF ClaimWrite
  <1>18. ASSUME NEW a \in Actors, Enqueue(a) PROVE TaskAsksForCard'
    BY <1>18 DEF Enqueue
  <1>19. ASSUME NEW a \in Actors, ReleaseCheck(a) PROVE TaskAsksForCard'
    BY <1>19 DEF ReleaseCheck
  <1>20. ASSUME NEW a \in Actors, ReleaseUnlink(a) PROVE TaskAsksForCard'
    BY <1>20 DEF ReleaseUnlink
  <1>21. ASSUME NEW a \in Actors, ClaimWriteFails(a) PROVE TaskAsksForCard'
    BY <1>21 DEF ClaimWriteFails
  <1>22. ASSUME NEW a \in Actors, EnqueueFails(a) PROVE TaskAsksForCard'
    BY <1>22 DEF EnqueueFails
  <1>23. ASSUME NEW a \in Actors, TickGivesUp(a) PROVE TaskAsksForCard'
    BY <1>23 DEF TickGivesUp
  <1>24. ASSUME NEW a \in Actors, Stop(a) PROVE TaskAsksForCard'
    BY <1>24 DEF Stop
  <1>25. CASE WorkerStart
    BY <1>25 DEF WorkerStart
  <1>26. CASE WorkerTake
    BY <1>26 DEF WorkerTake
  <1>27. ASSUME NEW o \in Outcome, WorkerResult(o) PROVE TaskAsksForCard'
    BY <1>27 DEF WorkerResult
  <1>28. CASE WorkerDequeue
    BY <1>28 DEF WorkerDequeue
  <1>29. CASE WorkerReleaseCheck
    BY <1>29 DEF WorkerReleaseCheck
  <1>30. CASE WorkerReleaseUnlink
    BY <1>30 DEF WorkerReleaseUnlink
  <1>31. CASE WorkerDies
    BY <1>31 DEF WorkerDies
  <1>32. CASE UNCHANGED vars
    BY <1>32
  <1> HIDE DEF TypeOK, UsedIsIssued, TicksAreTickers, TaskAsksForCard,
       BoundToOwnCard, Owning, Queueing, vars, board, files, locals, worker,
       Goto, Proceed, Return, WorkerAt, Actors
  <1>33. QED
    BY <1>1, <1>2, <1>3, <1>4, <1>5, <1>6, <1>7, <1>8, <1>9, <1>10, <1>11,
         <1>12, <1>13, <1>14, <1>15, <1>16, <1>17, <1>18, <1>19, <1>20, <1>21,
         <1>22, <1>23, <1>24, <1>25, <1>26, <1>27, <1>28, <1>29, <1>30, <1>31,
         <1>32
    DEF Next, TickStep, QueueStep, FaultStep, WorkerStep

\* A queue file is dropped only for a result, or for an empty prompt, which no
\* Card has; a Card is bound only to a task that is queued by then.
LEMMA SafeStep ==
  ASSUME TypeOK, TicksAreTickers, UsedIsIssued, TaskAsksForCard, WorkIsSafe,
         [Next]_vars
  PROVE  WorkIsSafe'
  <1> USE Constants, States DEF TypeOK, UsedIsIssued, TicksAreTickers,
       TaskAsksForCard, BoundToOwnCard, WorkIsSafe, NoLostWork, Owning,
       Working, vars, board, files, locals, worker, Goto, Proceed, Return,
       WorkerAt, Actors, First
  <1>1. ASSUME NEW c \in Card, CreateCard(c) PROVE WorkIsSafe'
    BY <1>1 DEF CreateCard
  <1>2. ASSUME NEW c \in Card, NEW to \in Board!CardState, OwnerTransition(c, to)
        PROVE  WorkIsSafe'
    BY <1>2 DEF OwnerTransition
  <1>3. CASE ProviderActive
    BY <1>3 DEF ProviderActive
  <1>4. CASE ProviderLost
    BY <1>4 DEF ProviderLost
  <1>5. ASSUME NEW a \in Tickers, TickList(a) PROVE WorkIsSafe'
    BY <1>5 DEF TickList
  <1>6. ASSUME NEW a \in Tickers, TickScan(a) PROVE WorkIsSafe'
    BY <1>6 DEF TickScan
  <1>7. ASSUME NEW a \in Tickers, TickRecord(a) PROVE WorkIsSafe'
    BY <1>7 DEF TickRecord
  <1>8. ASSUME NEW a \in Tickers, TickApply(a) PROVE WorkIsSafe'
    BY <1>8 DEF TickApply
  <1>9. ASSUME NEW a \in Tickers, TickPick(a) PROVE WorkIsSafe'
    BY <1>9 DEF TickPick
  <1>10. ASSUME NEW a \in Tickers, TickBind(a) PROVE WorkIsSafe'
    BY <1>10 DEF TickBind
  <1>11. ASSUME NEW a \in Tickers, TickMove(a) PROVE WorkIsSafe'
    BY <1>11 DEF TickMove
  <1>12. ASSUME NEW a \in Tickers, TickLog(a) PROVE WorkIsSafe'
    BY <1>12 DEF TickLog
  <1>13. ASSUME NEW a \in Clients, NEW what \in {OtherWork, Nothing}, Submit(a, what)
         PROVE  WorkIsSafe'
    BY <1>13 DEF Submit
  <1>14. ASSUME NEW a \in Actors, ProviderCheck(a) PROVE WorkIsSafe'
    BY <1>14 DEF ProviderCheck
  <1>15. ASSUME NEW a \in Actors, ClaimRefused(a) PROVE WorkIsSafe'
    BY <1>15 DEF ClaimRefused
  <1>16. ASSUME NEW a \in Actors, NEW t \in Task, ClaimCreate(a, t)
         PROVE  WorkIsSafe'
    BY <1>16 DEF ClaimCreate
  <1>17. ASSUME NEW a \in Actors, ClaimWrite(a) PROVE WorkIsSafe'
    BY <1>17 DEF ClaimWrite
  <1>18. ASSUME NEW a \in Actors, Enqueue(a) PROVE WorkIsSafe'
    BY <1>18 DEF Enqueue
  <1>19. ASSUME NEW a \in Actors, ReleaseCheck(a) PROVE WorkIsSafe'
    BY <1>19 DEF ReleaseCheck
  <1>20. ASSUME NEW a \in Actors, ReleaseUnlink(a) PROVE WorkIsSafe'
    BY <1>20 DEF ReleaseUnlink
  <1>21. ASSUME NEW a \in Actors, ClaimWriteFails(a) PROVE WorkIsSafe'
    BY <1>21 DEF ClaimWriteFails
  <1>22. ASSUME NEW a \in Actors, EnqueueFails(a) PROVE WorkIsSafe'
    BY <1>22 DEF EnqueueFails
  <1>23. ASSUME NEW a \in Actors, TickGivesUp(a) PROVE WorkIsSafe'
    BY <1>23 DEF TickGivesUp
  <1>24. ASSUME NEW a \in Actors, Stop(a) PROVE WorkIsSafe'
    BY <1>24 DEF Stop
  <1>25. CASE WorkerStart
    BY <1>25 DEF WorkerStart
  <1>26. CASE WorkerTake
    BY <1>26 DEF WorkerTake
  <1>27. ASSUME NEW o \in Outcome, WorkerResult(o) PROVE WorkIsSafe'
    BY <1>27 DEF WorkerResult
  <1>28. CASE WorkerDequeue
    BY <1>28 DEF WorkerDequeue
  <1>29. CASE WorkerReleaseCheck
    BY <1>29 DEF WorkerReleaseCheck
  <1>30. CASE WorkerReleaseUnlink
    BY <1>30 DEF WorkerReleaseUnlink
  <1>31. CASE WorkerDies
    BY <1>31 DEF WorkerDies
  <1>32. CASE UNCHANGED vars
    BY <1>32
  <1> HIDE DEF TypeOK, UsedIsIssued, TicksAreTickers, TaskAsksForCard,
       BoundToOwnCard, WorkIsSafe, NoLostWork, Owning, Working, vars, board,
       files, locals, worker, Goto, Proceed, Return, WorkerAt, Actors, First
  <1>33. QED
    BY <1>1, <1>2, <1>3, <1>4, <1>5, <1>6, <1>7, <1>8, <1>9, <1>10, <1>11,
         <1>12, <1>13, <1>14, <1>15, <1>16, <1>17, <1>18, <1>19, <1>20, <1>21,
         <1>22, <1>23, <1>24, <1>25, <1>26, <1>27, <1>28, <1>29, <1>30, <1>31,
         <1>32
    DEF Next, TickStep, QueueStep, FaultStep, WorkerStep

\* A result file says how a run ended, and is recorded before it is applied.
LEMMA RealStep ==
  ASSUME TypeOK, TicksAreTickers, UsedIsIssued, TaskAsksForCard, WorkIsSafe,
         ResultsAreReal, [Next]_vars
  PROVE  ResultsAreReal'
  <1> USE Constants, States DEF TypeOK, UsedIsIssued, TicksAreTickers,
       TaskAsksForCard, BoundToOwnCard, WorkIsSafe, ResultsAreReal, Owning,
       Working, vars, board, files, locals, worker, Goto, Proceed, Return,
       WorkerAt, Actors, First
  <1>1. ASSUME NEW c \in Card, CreateCard(c) PROVE ResultsAreReal'
    BY <1>1 DEF CreateCard, Board!Create
  <1>2. ASSUME NEW c \in Card, NEW to \in Board!CardState, OwnerTransition(c, to)
        PROVE  ResultsAreReal'
    BY <1>2 DEF OwnerTransition, Board!Move
  <1>3. CASE ProviderActive
    BY <1>3 DEF ProviderActive
  <1>4. CASE ProviderLost
    BY <1>4 DEF ProviderLost
  <1>5. ASSUME NEW a \in Tickers, TickList(a) PROVE ResultsAreReal'
    BY <1>5 DEF TickList
  <1>6. ASSUME NEW a \in Tickers, TickScan(a) PROVE ResultsAreReal'
    BY <1>6 DEF TickScan
  <1>7. ASSUME NEW a \in Tickers, TickRecord(a) PROVE ResultsAreReal'
    BY <1>7 DEF TickRecord
  <1>8. ASSUME NEW a \in Tickers, TickApply(a) PROVE ResultsAreReal'
    BY <1>8 DEF TickApply
  <1>9. ASSUME NEW a \in Tickers, TickPick(a) PROVE ResultsAreReal'
    BY <1>9 DEF TickPick
  <1>10. ASSUME NEW a \in Tickers, TickBind(a) PROVE ResultsAreReal'
    BY <1>10 DEF TickBind
  <1>11. ASSUME NEW a \in Tickers, TickMove(a) PROVE ResultsAreReal'
    BY <1>11 DEF TickMove
  <1>12. ASSUME NEW a \in Tickers, TickLog(a) PROVE ResultsAreReal'
    BY <1>12 DEF TickLog
  <1>13. ASSUME NEW a \in Clients, NEW what \in {OtherWork, Nothing}, Submit(a, what)
         PROVE  ResultsAreReal'
    BY <1>13 DEF Submit
  <1>14. ASSUME NEW a \in Actors, ProviderCheck(a) PROVE ResultsAreReal'
    BY <1>14 DEF ProviderCheck
  <1>15. ASSUME NEW a \in Actors, ClaimRefused(a) PROVE ResultsAreReal'
    BY <1>15 DEF ClaimRefused
  <1>16. ASSUME NEW a \in Actors, NEW t \in Task, ClaimCreate(a, t)
         PROVE  ResultsAreReal'
    BY <1>16 DEF ClaimCreate
  <1>17. ASSUME NEW a \in Actors, ClaimWrite(a) PROVE ResultsAreReal'
    BY <1>17 DEF ClaimWrite
  <1>18. ASSUME NEW a \in Actors, Enqueue(a) PROVE ResultsAreReal'
    BY <1>18 DEF Enqueue
  <1>19. ASSUME NEW a \in Actors, ReleaseCheck(a) PROVE ResultsAreReal'
    BY <1>19 DEF ReleaseCheck
  <1>20. ASSUME NEW a \in Actors, ReleaseUnlink(a) PROVE ResultsAreReal'
    BY <1>20 DEF ReleaseUnlink
  <1>21. ASSUME NEW a \in Actors, ClaimWriteFails(a) PROVE ResultsAreReal'
    BY <1>21 DEF ClaimWriteFails
  <1>22. ASSUME NEW a \in Actors, EnqueueFails(a) PROVE ResultsAreReal'
    BY <1>22 DEF EnqueueFails
  <1>23. ASSUME NEW a \in Actors, TickGivesUp(a) PROVE ResultsAreReal'
    BY <1>23 DEF TickGivesUp
  <1>24. ASSUME NEW a \in Actors, Stop(a) PROVE ResultsAreReal'
    BY <1>24 DEF Stop
  <1>25. CASE WorkerStart
    BY <1>25 DEF WorkerStart
  <1>26. CASE WorkerTake
    BY <1>26 DEF WorkerTake
  <1>27. ASSUME NEW o \in Outcome, WorkerResult(o) PROVE ResultsAreReal'
    BY <1>27 DEF WorkerResult
  <1>28. CASE WorkerDequeue
    BY <1>28 DEF WorkerDequeue
  <1>29. CASE WorkerReleaseCheck
    BY <1>29 DEF WorkerReleaseCheck
  <1>30. CASE WorkerReleaseUnlink
    BY <1>30 DEF WorkerReleaseUnlink
  <1>31. CASE WorkerDies
    BY <1>31 DEF WorkerDies
  <1>32. CASE UNCHANGED vars
    BY <1>32
  <1> HIDE DEF TypeOK, UsedIsIssued, TicksAreTickers, TaskAsksForCard,
       BoundToOwnCard, WorkIsSafe, ResultsAreReal, Owning, Working, vars,
       board, files, locals, worker, Goto, Proceed, Return, WorkerAt, Actors,
       First
  <1>33. QED
    BY <1>1, <1>2, <1>3, <1>4, <1>5, <1>6, <1>7, <1>8, <1>9, <1>10, <1>11,
         <1>12, <1>13, <1>14, <1>15, <1>16, <1>17, <1>18, <1>19, <1>20, <1>21,
         <1>22, <1>23, <1>24, <1>25, <1>26, <1>27, <1>28, <1>29, <1>30, <1>31,
         <1>32
    DEF Next, TickStep, QueueStep, FaultStep, WorkerStep

\* The agent moves a Card to VERIFY with its output recorded.
LEMMA VerifyStep ==
  ASSUME TypeOK, TicksAreTickers, UsedIsIssued, TaskAsksForCard,
         ResultsAreReal, VerifyHasEvidence, [Next]_vars
  PROVE  VerifyHasEvidence'
  <1> USE Constants, States DEF TypeOK, UsedIsIssued, TicksAreTickers,
       TaskAsksForCard, ResultsAreReal, VerifyHasEvidence, vars, board, files,
       locals, worker, Goto, Proceed, Return, WorkerAt, Actors, AgentMove,
       Board!Create, Board!Move
  <1>1. ASSUME NEW c \in Card, CreateCard(c) PROVE VerifyHasEvidence'
    BY <1>1 DEF CreateCard
  <1>2. ASSUME NEW c \in Card, NEW to \in Board!CardState, OwnerTransition(c, to)
        PROVE  VerifyHasEvidence'
    BY <1>2 DEF OwnerTransition
  <1>3. CASE ProviderActive
    BY <1>3 DEF ProviderActive
  <1>4. CASE ProviderLost
    BY <1>4 DEF ProviderLost
  <1>5. ASSUME NEW a \in Tickers, TickList(a) PROVE VerifyHasEvidence'
    BY <1>5 DEF TickList
  <1>6. ASSUME NEW a \in Tickers, TickScan(a) PROVE VerifyHasEvidence'
    BY <1>6 DEF TickScan
  <1>7. ASSUME NEW a \in Tickers, TickRecord(a) PROVE VerifyHasEvidence'
    BY <1>7 DEF TickRecord
  <1>8. ASSUME NEW a \in Tickers, TickApply(a) PROVE VerifyHasEvidence'
    <2> DEFINE c == card[a]
    <2>1. c \in Card /\ seen[a] \in {"SUCCEEDED", "EMPTY", "FAILED"}
      BY <1>8 DEF TickApply, Outcome, Board!Outcome
    <2>2. ASSUME NEW d \in Card, d # c
          PROVE  status'[d] = status[d] /\ mover'[d] = mover[d]
      BY <1>8, <2>1, <2>2 DEF TickApply
    <2>3. CASE status[c] # "PROCESS"
      BY <1>8, <2>3 DEF TickApply
    <2>4. CASE status[c] = "PROCESS" /\ seen[a] = "FAILED"
      <3>1. status'[c] = "FAILED"
        BY <1>8, <2>1, <2>4 DEF TickApply
      <3>2. QED
        BY <1>8, <2>1, <2>2, <3>1 DEF TickApply
    <2>5. CASE seen[a] = "SUCCEEDED"
      <3>1. <<c, task[a]>> \in outputs /\ prompt[task[a]] = c /\ task[a]
           \in Task
        BY <1>8, <2>5 DEF TickApply
      <3>2. QED
        BY <1>8, <2>1, <2>2, <3>1 DEF TickApply
    <2>6. CASE seen[a] = "EMPTY"
      <3>1. <<c, "EMPTY">> \in ended
        BY <1>8, <2>6 DEF TickApply
      <3>2. QED
        BY <1>8, <2>1, <2>2, <3>1 DEF TickApply
    <2>7. QED
      BY <2>1, <2>3, <2>4, <2>5, <2>6
  <1>9. ASSUME NEW a \in Tickers, TickPick(a) PROVE VerifyHasEvidence'
    BY <1>9 DEF TickPick
  <1>10. ASSUME NEW a \in Tickers, TickBind(a) PROVE VerifyHasEvidence'
    BY <1>10 DEF TickBind
  <1>11. ASSUME NEW a \in Tickers, TickMove(a) PROVE VerifyHasEvidence'
    <2>1. CASE status[card[a]] = "BACKLOG"
      <3>1. card[a] \in Card
        BY <1>11 DEF TickMove
      <3>2. status' = [status EXCEPT ![card[a]] = "PROCESS"]
        BY <1>11, <2>1 DEF TickMove
      <3>3. \A c \in Card : c # card[a] =>
              status'[c] = status[c] /\ mover'[c] = mover[c]
        BY <1>11, <2>1, <3>1 DEF TickMove
      <3>4. status'[card[a]] # "VERIFY"
        BY <3>1, <3>2
      <3>5. QED
        BY <1>11, <3>3, <3>4 DEF TickMove
    <2>2. CASE status[card[a]] # "BACKLOG"
      BY <1>11, <2>2 DEF TickMove
    <2>3. QED
      BY <2>1, <2>2
  <1>12. ASSUME NEW a \in Tickers, TickLog(a) PROVE VerifyHasEvidence'
    BY <1>12 DEF TickLog
  <1>13. ASSUME NEW a \in Clients, NEW what \in {OtherWork, Nothing}, Submit(a, what)
         PROVE  VerifyHasEvidence'
    BY <1>13 DEF Submit
  <1>14. ASSUME NEW a \in Actors, ProviderCheck(a) PROVE VerifyHasEvidence'
    BY <1>14 DEF ProviderCheck
  <1>15. ASSUME NEW a \in Actors, ClaimRefused(a) PROVE VerifyHasEvidence'
    BY <1>15 DEF ClaimRefused
  <1>16. ASSUME NEW a \in Actors, NEW t \in Task, ClaimCreate(a, t)
         PROVE  VerifyHasEvidence'
    <2>1. ASSUME NEW c \in Card, NEW u \in Task, <<c, u>> \in outputs
          PROVE  prompt'[u] = prompt[u]
      <3>1. <<c, u>>[2] \in issued
        BY <2>1
      <3>2. QED
        BY <1>16, <3>1 DEF ClaimCreate
    <2>2. UNCHANGED board
      BY <1>16 DEF ClaimCreate
    <2>3. ASSUME NEW c \in Card, status[c] = "VERIFY" /\ mover[c] = "AGENT"
          PROVE  \/ \E u \in Task : <<c, u>> \in outputs /\ prompt'[u] = c
                 \/ <<c, "EMPTY">> \in ended
      BY <2>1, <2>3
    <2>4. QED
      BY <2>2, <2>3
  <1>17. ASSUME NEW a \in Actors, ClaimWrite(a) PROVE VerifyHasEvidence'
    BY <1>17 DEF ClaimWrite
  <1>18. ASSUME NEW a \in Actors, Enqueue(a) PROVE VerifyHasEvidence'
    BY <1>18 DEF Enqueue
  <1>19. ASSUME NEW a \in Actors, ReleaseCheck(a) PROVE VerifyHasEvidence'
    BY <1>19 DEF ReleaseCheck
  <1>20. ASSUME NEW a \in Actors, ReleaseUnlink(a) PROVE VerifyHasEvidence'
    BY <1>20 DEF ReleaseUnlink
  <1>21. ASSUME NEW a \in Actors, ClaimWriteFails(a) PROVE VerifyHasEvidence'
    BY <1>21 DEF ClaimWriteFails
  <1>22. ASSUME NEW a \in Actors, EnqueueFails(a) PROVE VerifyHasEvidence'
    BY <1>22 DEF EnqueueFails
  <1>23. ASSUME NEW a \in Actors, TickGivesUp(a) PROVE VerifyHasEvidence'
    BY <1>23 DEF TickGivesUp
  <1>24. ASSUME NEW a \in Actors, Stop(a) PROVE VerifyHasEvidence'
    BY <1>24 DEF Stop
  <1>25. CASE WorkerStart
    BY <1>25 DEF WorkerStart
  <1>26. CASE WorkerTake
    BY <1>26 DEF WorkerTake
  <1>27. ASSUME NEW o \in Outcome, WorkerResult(o) PROVE VerifyHasEvidence'
    BY <1>27 DEF WorkerResult
  <1>28. CASE WorkerDequeue
    BY <1>28 DEF WorkerDequeue
  <1>29. CASE WorkerReleaseCheck
    BY <1>29 DEF WorkerReleaseCheck
  <1>30. CASE WorkerReleaseUnlink
    BY <1>30 DEF WorkerReleaseUnlink
  <1>31. CASE WorkerDies
    BY <1>31 DEF WorkerDies
  <1>32. CASE UNCHANGED vars
    BY <1>32
  <1> HIDE DEF TypeOK, UsedIsIssued, TicksAreTickers, TaskAsksForCard,
       ResultsAreReal, VerifyHasEvidence, vars, board, files, locals, worker,
       Goto, Proceed, Return, WorkerAt, Actors, AgentMove, Board!Create,
       Board!Move
  <1>33. QED
    BY <1>1, <1>2, <1>3, <1>4, <1>5, <1>6, <1>7, <1>8, <1>9, <1>10, <1>11,
         <1>12, <1>13, <1>14, <1>15, <1>16, <1>17, <1>18, <1>19, <1>20, <1>21,
         <1>22, <1>23, <1>24, <1>25, <1>26, <1>27, <1>28, <1>29, <1>30, <1>31,
         <1>32
    DEF Next, TickStep, QueueStep, FaultStep, WorkerStep

\* O_EXCL lets one actor at a time from the claim to the queue file, and the
\* worker releases the claim only after that file is gone.
LEMMA HolderStep ==
  ASSUME TypeOK, TicksAreTickers, TaskAsksForCard, WorkIsSafe, OneHolder,
         [Next]_vars
  PROVE  OneHolder'
  <1> USE Constants, States DEF TypeOK, TicksAreTickers, TaskAsksForCard,
       WorkIsSafe, OneHolder, Owning, Working, vars, board, files, locals,
       worker, Goto, Proceed, Return, WorkerAt, Actors, First, Mine
  <1>1. ASSUME NEW c \in Card, CreateCard(c) PROVE OneHolder'
    BY <1>1 DEF CreateCard
  <1>2. ASSUME NEW c \in Card, NEW to \in Board!CardState, OwnerTransition(c, to)
        PROVE  OneHolder'
    BY <1>2 DEF OwnerTransition
  <1>3. CASE ProviderActive
    BY <1>3 DEF ProviderActive
  <1>4. CASE ProviderLost
    BY <1>4 DEF ProviderLost
  <1>5. ASSUME NEW a \in Tickers, TickList(a) PROVE OneHolder'
    BY <1>5 DEF TickList
  <1>6. ASSUME NEW a \in Tickers, TickScan(a) PROVE OneHolder'
    BY <1>6 DEF TickScan
  <1>7. ASSUME NEW a \in Tickers, TickRecord(a) PROVE OneHolder'
    BY <1>7 DEF TickRecord
  <1>8. ASSUME NEW a \in Tickers, TickApply(a) PROVE OneHolder'
    BY <1>8 DEF TickApply
  <1>9. ASSUME NEW a \in Tickers, TickPick(a) PROVE OneHolder'
    BY <1>9 DEF TickPick
  <1>10. ASSUME NEW a \in Tickers, TickBind(a) PROVE OneHolder'
    BY <1>10 DEF TickBind
  <1>11. ASSUME NEW a \in Tickers, TickMove(a) PROVE OneHolder'
    BY <1>11 DEF TickMove
  <1>12. ASSUME NEW a \in Tickers, TickLog(a) PROVE OneHolder'
    BY <1>12 DEF TickLog
  <1>13. ASSUME NEW a \in Clients, NEW what \in {OtherWork, Nothing}, Submit(a, what)
         PROVE  OneHolder'
    BY <1>13 DEF Submit
  <1>14. ASSUME NEW a \in Actors, ProviderCheck(a) PROVE OneHolder'
    BY <1>14 DEF ProviderCheck
  <1>15. ASSUME NEW a \in Actors, ClaimRefused(a) PROVE OneHolder'
    BY <1>15 DEF ClaimRefused
  <1>16. ASSUME NEW a \in Actors, NEW t \in Task, ClaimCreate(a, t)
         PROVE  OneHolder'
    BY <1>16 DEF ClaimCreate
  <1>17. ASSUME NEW a \in Actors, ClaimWrite(a) PROVE OneHolder'
    BY <1>17 DEF ClaimWrite
  <1>18. ASSUME NEW a \in Actors, Enqueue(a) PROVE OneHolder'
    BY <1>18 DEF Enqueue
  <1>19. ASSUME NEW a \in Actors, ReleaseCheck(a) PROVE OneHolder'
    BY <1>19 DEF ReleaseCheck
  <1>20. ASSUME NEW a \in Actors, ReleaseUnlink(a) PROVE OneHolder'
    BY <1>20 DEF ReleaseUnlink
  <1>21. ASSUME NEW a \in Actors, ClaimWriteFails(a) PROVE OneHolder'
    BY <1>21 DEF ClaimWriteFails
  <1>22. ASSUME NEW a \in Actors, EnqueueFails(a) PROVE OneHolder'
    BY <1>22 DEF EnqueueFails
  <1>23. ASSUME NEW a \in Actors, TickGivesUp(a) PROVE OneHolder'
    BY <1>23 DEF TickGivesUp
  <1>24. ASSUME NEW a \in Actors, Stop(a) PROVE OneHolder'
    BY <1>24 DEF Stop
  <1>25. CASE WorkerStart
    BY <1>25 DEF WorkerStart
  <1>26. CASE WorkerTake
    BY <1>26 DEF WorkerTake
  <1>27. ASSUME NEW o \in Outcome, WorkerResult(o) PROVE OneHolder'
    BY <1>27 DEF WorkerResult
  <1>28. CASE WorkerDequeue
    BY <1>28 DEF WorkerDequeue
  <1>29. CASE WorkerReleaseCheck
    BY <1>29 DEF WorkerReleaseCheck
  <1>30. CASE WorkerReleaseUnlink
    BY <1>30 DEF WorkerReleaseUnlink
  <1>31. CASE WorkerDies
    BY <1>31 DEF WorkerDies
  <1>32. CASE UNCHANGED vars
    BY <1>32
  <1> HIDE DEF TypeOK, TicksAreTickers, TaskAsksForCard, WorkIsSafe,
       OneHolder, Owning, Working, vars, board, files, locals, worker, Goto,
       Proceed, Return, WorkerAt, Actors, First, Mine
  <1>33. QED
    BY <1>1, <1>2, <1>3, <1>4, <1>5, <1>6, <1>7, <1>8, <1>9, <1>10, <1>11,
         <1>12, <1>13, <1>14, <1>15, <1>16, <1>17, <1>18, <1>19, <1>20, <1>21,
         <1>22, <1>23, <1>24, <1>25, <1>26, <1>27, <1>28, <1>29, <1>30, <1>31,
         <1>32
    DEF Next, TickStep, QueueStep, FaultStep, WorkerStep

-----------------------------------------------------------------------------
LEMMA IInvInit == Init => IInv
  <1> SUFFICES ASSUME Init PROVE IInv
    OBVIOUS
  <1> USE Constants, States DEF Init, Board!Init, Actors
  <1>1. TypeOK
    BY BoundsAssumption DEF TypeOK, ActorSteps, WorkerSteps, Kind
  <1>2. TicksAreTickers /\ UsedIsIssued /\ OneHolder
    BY DEF TicksAreTickers, UsedIsIssued, OneHolder, Queueing, Owning, Working
  <1>3. TaskAsksForCard /\ WorkIsSafe
    BY DEF TaskAsksForCard, BoundToOwnCard, WorkIsSafe, NoLostWork, Owning,
           Working
  <1>4. ResultsAreReal /\ VerifyHasEvidence
    BY DEF ResultsAreReal, VerifyHasEvidence
  <1>5. QED
    BY <1>1, <1>2, <1>3, <1>4 DEF IInv

LEMMA IInvStep == IInv /\ [Next]_vars => IInv'
  BY TypeStep, TickersStep, UsedStep, AsksStep, SafeStep, RealStep, VerifyStep,
     HolderStep DEF IInv

THEOREM Invariance == Spec => []IInv
  BY IInvInit, IInvStep, PTL DEF Spec

\* Every variable keeps to its set, for all values of the constants.
THEOREM TypeCorrect == Spec => []TypeOK
  <1>1. IInv => TypeOK
    BY DEF IInv
  <1>2. QED
    BY Invariance, <1>1, PTL

\* No crash, failing write or race loses the task of a bound Card: agent_tick
\* queues before it binds, worker_loop writes the result before it dequeues.
THEOREM BoundWorkIsNeverLost == Spec => []NoLostWork
  <1>1. IInv => NoLostWork
    BY DEF IInv, WorkIsSafe
  <1>2. QED
    BY Invariance, <1>1, PTL

\* agent_tick never binds a Card to a task that asks for something else.
THEOREM CardsBoundToOwnTasks == Spec => []BoundToOwnCard
  <1>1. IInv => BoundToOwnCard
    BY DEF IInv, TaskAsksForCard
  <1>2. QED
    BY Invariance, <1>1, PTL

\* What agent_tick puts into VERIFY has its output recorded, or had none.
THEOREM HandOverHasEvidence == Spec => []VerifyHasEvidence
  <1>1. IInv => VerifyHasEvidence
    BY DEF IInv
  <1>2. QED
    BY Invariance, <1>1, PTL

\* claim_work's O_EXCL keeps the tasks in flight to the one holding the claim,
\* until the except clause of agent_tick gives a queued task up.
THEOREM ClaimKeepsConcurrencyOne == Spec => []ConcurrencyOne
  <1>1. IInv => ConcurrencyOne
    BY DEF IInv, OneHolder, ConcurrencyOne, InFlight, Working
  <1>2. QED
    BY Invariance, <1>1, PTL

-----------------------------------------------------------------------------
\* A step of KanbanAgent is a step of CardLifecycle or leaves the board alone.
LEMMA LifecycleStep ==
  ASSUME IInv, [Next]_vars
  PROVE  [Board!Next]_(Board!vars)
  <1> USE Constants, States DEF Board!vars
  <1>1. ASSUME NEW c \in Card, CreateCard(c) PROVE Board!Next
    BY <1>1 DEF CreateCard, Board!Next
  <1>2. ASSUME NEW c \in Card, NEW to \in Board!CardState,
       OwnerTransition(c, to)
        PROVE  Board!Next
    BY <1>2 DEF OwnerTransition, Board!Next
  <1>3. ASSUME NEW a \in Tickers, TickApply(a) PROVE [Board!Next]_(Board!vars)
    <2> DEFINE c == card[a]
               o == seen[a]
               to == IF o = "FAILED" THEN "FAILED" ELSE "VERIFY"
    <2>1. c \in Card /\ o \in Outcome /\ <<c, o>> \in ended
      BY <1>3 DEF TickApply, IInv, TaskAsksForCard, ResultsAreReal, Actors
    <2>2. CASE status[c] = "PROCESS"
      <3>1. to \in Board!TRANSITIONS["PROCESS"] /\ "PROCESS" \in
           Board!CardState
        BY DEF Board!TRANSITIONS, Board!CardState
      <3>2. Board!Move(c, to, "AGENT")
        BY <1>3, <2>2, <3>1 DEF TickApply, AgentMove, Board!Move
      <3>3. Board!AgentFinish(c, o)
        BY <2>1, <2>2, <3>2 DEF Board!AgentFinish
      <3>4. QED
        BY <2>1, <3>3 DEF Board!Next
    <2>3. CASE status[c] # "PROCESS"
      BY <1>3, <2>3 DEF TickApply, AgentMove
    <2>4. QED
      BY <2>2, <2>3
  <1>4. ASSUME NEW a \in Tickers, TickMove(a) PROVE [Board!Next]_(Board!vars)
    <2> DEFINE c == card[a]
    <2>1. c \in Card
      BY <1>4 DEF TickMove, IInv, TaskAsksForCard, Actors
    <2>2. CASE status[c] = "BACKLOG"
      <3>1. "PROCESS" \in Board!TRANSITIONS["BACKLOG"]
        BY DEF Board!TRANSITIONS, Board!CardState
      <3>2. Board!Move(c, "PROCESS", "AGENT")
        BY <1>4, <2>2, <3>1 DEF TickMove, AgentMove, Board!Move
      <3>3. Board!AgentClaim(c)
        BY <2>2, <3>2 DEF Board!AgentClaim
      <3>4. QED
        BY <2>1, <3>3 DEF Board!Next
    <2>3. CASE status[c] # "BACKLOG"
      BY <1>4, <2>3 DEF TickMove, AgentMove
    <2>4. QED
      BY <2>2, <2>3
  <1>5. ASSUME NEW o \in Outcome, WorkerResult(o)
        PROVE  [Board!Next]_(Board!vars)
    <2>1. CASE prompt[wtask] \in Card
      <3>1. Board!WorkEnds(prompt[wtask], o)
        BY <1>5, <2>1 DEF WorkerResult, Board!WorkEnds
      <3>2. QED
        BY <2>1, <3>1 DEF Board!Next
    <2>2. CASE prompt[wtask] \notin Card
      BY <1>5, <2>2 DEF WorkerResult
    <2>3. QED
      BY <2>1, <2>2
  <1>6. CASE UNCHANGED <<status, mover, ended>>
    BY <1>6
  <1>7. QED
    <2> USE DEF board
    <2>1. ASSUME NEW a \in Tickers, TickStep(a), ~TickApply(a), ~TickMove(a)
          PROVE  UNCHANGED <<status, mover, ended>>
      BY <2>1 DEF TickStep, TickList, TickScan, TickRecord, TickPick, TickBind,
                  TickLog
    <2>2. ASSUME NEW a \in Actors, QueueStep(a) \/ FaultStep(a)
          PROVE  UNCHANGED <<status, mover, ended>>
      BY <2>2 DEF QueueStep, FaultStep, ProviderCheck, ClaimRefused,
           ClaimCreate,
                  ClaimWrite, Enqueue, ReleaseCheck, ReleaseUnlink,
                  ClaimWriteFails, EnqueueFails, TickGivesUp, Stop
    <2>3. ASSUME WorkerStep \/ WorkerDies, \A o \in Outcome : ~WorkerResult(o)
          PROVE  UNCHANGED <<status, mover, ended>>
      BY <2>3 DEF WorkerStep, WorkerStart, WorkerTake, WorkerDequeue,
                  WorkerReleaseCheck, WorkerReleaseUnlink, WorkerDies
    <2>4. ASSUME \/ ProviderActive \/ ProviderLost \/ UNCHANGED vars
                 \/ \E a \in Clients, what \in {OtherWork, Nothing} :
                      Submit(a, what)
          PROVE  UNCHANGED <<status, mover, ended>>
      BY <2>4 DEF ProviderActive, ProviderLost, Submit, vars
    <2>5. QED
      BY <1>1, <1>2, <1>3, <1>4, <1>5, <1>6, <2>1, <2>2, <2>3, <2>4 DEF Next

\* Whatever the ticks, clients, crashes and failures, the board behaves as the
\* abstract specification CardLifecycle promises.
THEOREM RefinesLifecycle == Spec => LifecycleSpec
  <1>1. Init => Board!Init
    BY DEF Init
  <1>2. QED
    BY <1>1, Invariance, LifecycleStep, PTL DEF Spec, LifecycleSpec, Board!Spec
=============================================================================
