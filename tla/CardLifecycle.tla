---------------------------- MODULE CardLifecycle ----------------------------
(***************************************************************************)
(* What the Kanban system promises about a Card, whoever races on it: a    *)
(* Card only moves along the TRANSITIONS table of src/genos/kanban.py, the *)
(* agent takes three edges of the table and no other, and it hands a Card  *)
(* on only when a run of that Card's own task has ended that way.          *)
(* KanbanAgent refines this specification.                                 *)
(***************************************************************************)
EXTENDS Integers

CONSTANT MaxCard   \* bound: how many Cards are ever created

VARIABLES
  status,   \* column card.status, "NONE" for a Card that does not exist yet
  mover,    \* who made the last status change: the Owner or the agent
  ended     \* <<card, outcome>> of every run of a Card's task that ended

vars == <<status, mover, ended>>

Card == 1 .. MaxCard
Outcome == {"SUCCEEDED", "EMPTY", "FAILED"}   \* EMPTY: succeeded, no output
CardState == {"BACKLOG", "PROCESS", "WAITING_INPUT", "WAITING_APPROVAL",
              "VERIFY", "FAILED", "CANCELLED", "DONE"}

TRANSITIONS ==
  [s \in CardState |->
     CASE s = "BACKLOG"          -> {"PROCESS", "CANCELLED"}
       [] s = "PROCESS"          -> {"WAITING_INPUT", "WAITING_APPROVAL",
                                     "VERIFY", "FAILED", "CANCELLED"}
       [] s = "WAITING_INPUT"    -> {"PROCESS", "CANCELLED"}
       [] s = "WAITING_APPROVAL" -> {"PROCESS", "VERIFY", "CANCELLED"}
       [] s = "VERIFY"           -> {"DONE", "PROCESS", "FAILED", "CANCELLED"}
       [] s = "FAILED"           -> {"BACKLOG", "CANCELLED"}
       [] s = "CANCELLED"        -> {"BACKLOG"}
       [] s = "DONE"             -> {}]

Init ==
  /\ status = [c \in Card |-> "NONE"]
  /\ mover = [c \in Card |-> "OWNER"]
  /\ ended = {}

Create(c) ==
  /\ status[c] = "NONE"
  /\ status' = [status EXCEPT ![c] = "BACKLOG"]
  /\ UNCHANGED <<mover, ended>>

Move(c, to, who) ==
  /\ status[c] \in CardState
  /\ to \in TRANSITIONS[status[c]]
  /\ status' = [status EXCEPT ![c] = to]
  /\ mover' = [mover EXCEPT ![c] = who]
  /\ UNCHANGED ended

\* The agent takes a Card from the backlog, ...
AgentClaim(c) == status[c] = "BACKLOG" /\ Move(c, "PROCESS", "AGENT")

\* ... and hands it on only as a run of its task has ended.
AgentFinish(c, o) ==
  /\ status[c] = "PROCESS"
  /\ <<c, o>> \in ended
  /\ Move(c, IF o = "FAILED" THEN "FAILED" ELSE "VERIFY", "AGENT")

WorkEnds(c, o) ==
  /\ ended' = ended \cup {<<c, o>>}
  /\ UNCHANGED <<status, mover>>

Next ==
  \E c \in Card :
    \/ Create(c)
    \/ \E to \in CardState : Move(c, to, "OWNER")
    \/ AgentClaim(c)
    \/ \E o \in Outcome : AgentFinish(c, o) \/ WorkEnds(c, o)

Spec == Init /\ [][Next]_vars
=============================================================================
