----------------------------- MODULE DriveBinding -----------------------------
(***************************************************************************)
(* The binding of GenOS to a Google Drive (drive_bridge.py,                *)
(* drive_system.py): one row of the product database, which every          *)
(* operation reads, works on for many calls to Google, and writes back     *)
(* whole. The threads of the API server and the worker's scheduled scan    *)
(* do so without a lock. report_bridge.py publishes the system report      *)
(* through it, drive_oauth.py obtains the credential, a refresh token that *)
(* every use exchanges for an access token.                                *)
(***************************************************************************)
EXTENDS Naturals, Sequences

CONSTANTS
  Secret,    \* ids of Drive credentials
  Stored,    \* those that have been put into the store beforehand
  Root,      \* names of root folders; also stand for the folders' ids
  Fingerprint,  \* fingerprints of the local state, and reports with them
  Owners,    \* threads of the API server
  Worker,    \* the worker, which scans every 30 minutes
  None,      \* SQL NULL, or no such file
  Limit      \* bound on failed calls to Google, killed processes, revoked
             \* grants and changes of the local state, together

Callers == Owners \cup {Worker}

ASSUME DriveAssumption ==
  /\ Worker \notin Owners
  /\ Stored \subseteq Secret
  /\ None \notin Secret \cup Root \cup Fingerprint
  /\ Limit \in Nat

\* The states that connect saves, one after the other.
Ladder == <<"NEEDS_AUTH", "AUTHENTICATED", "FOLDER_BOUND", "WRITE_VERIFIED",
            "READ_VERIFIED", "UPDATE_VERIFIED", "INSTANCE_BOUND", "READY",
            "MCP_GRANT_TESTED", "READY">>
Top == 10
States == {Ladder[k] : k \in 1 .. Top}
            \cup {"READY", "UNCONFIGURED", "NEEDS_ACTION", "DEGRADED", "DISCONNECTED"}

\* A row of drive_binding: tree, proto and report are the root under which the
\* folders, PROTOCOL.json and the report files with the saved ids lie.
Rows == [state : States, secret : Secret \cup {None}, root : Root \cup {None},
         tree : Root \cup {None}, proto : Root \cup {None},
         report : Root \cup {None}, print : Fingerprint \cup {None}]
Blank == [state |-> "UNCONFIGURED", secret |-> None, root |-> None,
          tree |-> None, proto |-> None, report |-> None, print |-> None]

VARIABLES
  binding,                     \* the row
  status, revoked,             \* of credentials, here and at Google
  copies, protocol,            \* Drive: root folders, what PROTOCOL.json says
  markdown, json,              \* and the two files of the report
  world,                       \* fingerprint of the local state
  oauth,                       \* device authorization, in the API process
  pc, rung, mine, manual, seen,  \* per caller: next step, local variables
  lone,      \* running calls that no other call has overlapped with
  sound,     \* no overlap and no crash since the last lone connect
  whole,     \* nor a failed report, since the last lone report
  used       \* how much of Limit is used up

drive == <<copies, protocol, markdown, json>>
locals == <<rung, mine, manual, seen, lone>>
ghosts == <<sound, whole>>
vars == <<binding, status, revoked, drive, world, oauth, pc, locals, ghosts,
          used>>

Spend == used < Limit /\ used' = used + 1

\* No authorization is waiting: none was started, or it ended.
NoSession == [state |-> "NONE", secret |-> None, root |-> None]

Init ==
  /\ binding = Blank
  /\ status = [s \in Secret |-> IF s \in Stored THEN "ACTIVE" ELSE "NONE"]
  /\ revoked = {}
  /\ copies = [r \in Root |-> 0]
  /\ protocol = [r \in Root |-> None]
  /\ markdown = [r \in Root |-> None] /\ json = [r \in Root |-> None]
  /\ world \in Fingerprint
  /\ oauth = NoSession
  /\ pc = [c \in Callers |-> "idle"]
  /\ rung = [c \in Callers |-> 1]
  /\ mine = [c \in Callers |-> Blank]
  /\ manual = [c \in Callers |-> FALSE]
  /\ seen = [c \in Callers |-> None]
  /\ lone = {} /\ sound = TRUE /\ whole = TRUE
  /\ used = 0

-----------------------------------------------------------------------------
(* Steps of a caller.                                                      *)

Goto(c, step) == pc' = [pc EXCEPT ![c] = step]
Hold(c, row) == mine' = [mine EXCEPT ![c] = row]
Idle(c) == pc[c] = "idle"
Quiet(c) == \A d \in Callers \ {c} : Idle(d)

\* Local variables are reset when a call ends.
Return(c) ==
  /\ Goto(c, "idle")
  /\ Hold(c, Blank)
  /\ rung' = [rung EXCEPT ![c] = 1]
  /\ manual' = [manual EXCEPT ![c] = FALSE]
  /\ seen' = [seen EXCEPT ![c] = None]
  /\ lone' = lone \ {c}

\* A call begins, with a secret and a root as its arguments.
Enter(c, step, s, r, flag) ==
  /\ Idle(c)
  /\ Goto(c, step)
  /\ Hold(c, [Blank EXCEPT !.secret = s, !.root = r])
  /\ manual' = [manual EXCEPT ![c] = flag]
  /\ lone' = IF Quiet(c) THEN {c} ELSE {}
  /\ sound' = (sound /\ Quiet(c))
  /\ whole' = (whole /\ Quiet(c))
  /\ UNCHANGED <<rung, seen>>

Usable(s) == s # None /\ status[s] = "ACTIVE" /\ s \notin revoked

-----------------------------------------------------------------------------
(* connect.                                                                *)

\* A READY binding is not given another credential.
MayBind(s) ==
  ~(binding.state = "READY" /\ binding.secret \notin {None, s})

\* Mutant: any credential will do.
ConnectReadAny(c) ==
  /\ pc[c] = "connect"
  /\ Hold(c, [binding EXCEPT !.secret = mine[c].secret, !.root = mine[c].root])
  /\ Goto(c, "climb")
  /\ UNCHANGED <<binding, status, revoked, drive, world, oauth, rung, manual,
                 seen, lone, ghosts, used>>

\* The first checkpoint keeps every id of the row.
ConnectRead(c) ==
  /\ pc[c] = "connect"
  /\ IF MayBind(mine[c].secret)
       THEN /\ Hold(c, [binding EXCEPT !.secret = mine[c].secret,
                                       !.root = mine[c].root])
            /\ Goto(c, "climb")
            /\ UNCHANGED <<rung, manual, seen, lone>>
       ELSE Return(c)
  /\ UNCHANGED <<binding, status, revoked, drive, world, oauth, ghosts, used>>

At(c, k) == pc[c] = "climb" /\ rung[c] = k

\* _checkpoint, and after the last one the first report. A call to Google and
\* the checkpoint that follows are one step.
Climb(c, row) ==
  LET next == [row EXCEPT !.state = Ladder[rung[c]]]
      done == rung[c] = Top
  IN  /\ binding' = next
      /\ Hold(c, IF done THEN Blank ELSE next)
      /\ Goto(c, IF done THEN "publish" ELSE "climb")
      /\ rung' = [rung EXCEPT ![c] = IF done THEN 1 ELSE @ + 1]
      /\ manual' = [manual EXCEPT ![c] = done]
      /\ sound' = (sound \/ (done /\ c \in lone))
      /\ UNCHANGED <<seen, lone, whole>>

\* The last checkpoint of a call that has failed.
Fall(c, st) ==
  /\ binding' = [mine[c] EXCEPT !.state = st]
  /\ Return(c)
  /\ UNCHANGED ghosts

\* The rungs without a call to Google; the grant probe is not configured.
Certify(c) ==
  /\ \E k \in {1} \cup 7 .. Top : At(c, k)
  /\ Climb(c, mine[c])
  /\ UNCHANGED <<status, revoked, drive, world, oauth, used>>

\* The credential and the identity of the account.
Authenticate(c) ==
  /\ At(c, 2)
  /\ IF Usable(mine[c].secret) THEN Climb(c, mine[c]) ELSE Fall(c, "NEEDS_ACTION")
  /\ UNCHANGED <<status, revoked, drive, world, oauth, used>>

\* Mutant: one of several folders will do.
FindRootAny(c) ==
  /\ At(c, 3)
  /\ \/ /\ copies[mine[c].root] = 0
        /\ Goto(c, "create") /\ UNCHANGED <<binding, locals, ghosts>>
     \/ /\ copies[mine[c].root] > 0
        /\ Climb(c, [mine[c] EXCEPT !.tree = mine[c].root])
  /\ UNCHANGED <<status, revoked, drive, world, oauth, used>>

\* ensure_folder looks for the folder, and creates it in a second call.
FindRoot(c) ==
  /\ At(c, 3)
  /\ \/ /\ copies[mine[c].root] = 0
        /\ Goto(c, "create") /\ UNCHANGED <<binding, locals, ghosts>>
     \/ /\ copies[mine[c].root] = 1
        /\ Climb(c, [mine[c] EXCEPT !.tree = mine[c].root])
     \/ /\ copies[mine[c].root] > 1
        /\ Fall(c, "NEEDS_ACTION")
  /\ UNCHANGED <<status, revoked, drive, world, oauth, used>>

CreateRoot(c) ==
  /\ pc[c] = "create"
  /\ copies' = [copies EXCEPT ![mine[c].root] = @ + 1]
  /\ Climb(c, [mine[c] EXCEPT !.tree = mine[c].root])
  /\ UNCHANGED <<status, revoked, protocol, markdown, json, world, oauth, used>>

\* Where a file is written: under the saved id, or in the tree.
Target(row, id) == IF id # None THEN id ELSE row.tree

\* Reports, Kanban, PROTOCOL.json and INDEX.md.
WriteProtocol(c) ==
  /\ At(c, 4)
  /\ LET p == Target(mine[c], mine[c].proto)
     IN  /\ protocol' = [protocol EXCEPT ![p] = mine[c].tree]
         /\ Climb(c, [mine[c] EXCEPT !.proto = p])
  /\ UNCHANGED <<status, revoked, copies, markdown, json, world, oauth, used>>

\* They are read back.
ReadProtocol(c) ==
  /\ At(c, 5)
  /\ IF protocol[mine[c].proto] = mine[c].tree THEN Climb(c, mine[c])
                                               ELSE Fall(c, "DEGRADED")
  /\ UNCHANGED <<status, revoked, drive, world, oauth, used>>

\* PROTOCOL.json is written once more, and read back.
UpdateProtocol(c) ==
  /\ At(c, 6)
  /\ protocol' = [protocol EXCEPT ![mine[c].proto] = mine[c].tree]
  /\ Climb(c, mine[c])
  /\ UNCHANGED <<status, revoked, copies, markdown, json, world, oauth, used>>

\* A call to Google fails, with AUTH_REJECTED if the grant is revoked.
ConnectFails(c) ==
  /\ (\E k \in 2 .. 6 : At(c, k)) \/ pc[c] = "create"
  /\ \/ /\ mine[c].secret \in revoked
        /\ Fall(c, "NEEDS_ACTION") /\ UNCHANGED used
     \/ /\ mine[c].secret \notin revoked
        /\ Spend /\ Fall(c, "DEGRADED")
  /\ UNCHANGED <<status, revoked, drive, world, oauth>>

ConnectStep(c) ==
  \/ ConnectRead(c) \/ Certify(c) \/ Authenticate(c) \/ FindRoot(c)
  \/ CreateRoot(c) \/ WriteProtocol(c) \/ ReadProtocol(c) \/ UpdateProtocol(c)
  \/ ConnectFails(c)

-----------------------------------------------------------------------------
(* publish and verify.                                                     *)

\* Mutant: a scan publishes the first report only.
PublishReadOnce(c) ==
  /\ pc[c] = "publish"
  /\ IF binding.state = "READY" /\ (manual[c] \/ binding.print = None)
       THEN /\ Hold(c, binding)
            /\ seen' = [seen EXCEPT ![c] = world]
            /\ Goto(c, "credential")
            /\ UNCHANGED <<rung, manual, lone>>
       ELSE Return(c)
  /\ UNCHANGED <<binding, status, revoked, drive, world, oauth, ghosts, used>>

\* The row and the report; a scan writes nothing if the report is the last one.
PublishRead(c) ==
  /\ pc[c] = "publish"
  /\ IF binding.state = "READY" /\ (manual[c] \/ binding.print # world)
       THEN /\ Hold(c, binding)
            /\ seen' = [seen EXCEPT ![c] = world]
            /\ Goto(c, "credential")
            /\ UNCHANGED <<rung, manual, lone>>
       ELSE Return(c)
  /\ UNCHANGED <<binding, status, revoked, drive, world, oauth, ghosts, used>>

\* Without a usable credential publish raises, and the row stays as it is.
PublishCredential(c) ==
  /\ pc[c] = "credential"
  /\ \/ /\ Usable(mine[c].secret)
        /\ Goto(c, "markdown")
        /\ UNCHANGED <<locals, used>>
     \/ ~Usable(mine[c].secret) /\ Return(c) /\ UNCHANGED used
     \/ Spend /\ Return(c)
  /\ UNCHANGED <<binding, status, revoked, drive, world, oauth, ghosts>>

WriteMarkdown(c) ==
  /\ pc[c] = "markdown"
  /\ markdown' = [markdown EXCEPT ![Target(mine[c], mine[c].report)] = seen[c]]
  /\ Goto(c, "json")
  /\ UNCHANGED <<binding, status, revoked, copies, protocol, json, world,
                 oauth, locals, ghosts, used>>

WriteJson(c) ==
  /\ pc[c] = "json"
  /\ json' = [json EXCEPT ![Target(mine[c], mine[c].report)] = seen[c]]
  /\ Goto(c, "published")
  /\ UNCHANGED <<binding, status, revoked, copies, protocol, markdown, world,
                 oauth, locals, ghosts, used>>

\* Mutant: the fingerprint is taken anew.
PublishSaveNow(c) ==
  /\ pc[c] = "published"
  /\ binding' = [mine[c] EXCEPT !.report = Target(mine[c], @), !.print = world]
  /\ Return(c)
  /\ whole' = (whole \/ c \in lone)
  /\ UNCHANGED <<status, revoked, drive, world, oauth, sound, used>>

\* The row as it was read, with the ids and the fingerprint of the report.
PublishSave(c) ==
  /\ pc[c] = "published"
  /\ binding' = [mine[c] EXCEPT !.report = Target(mine[c], @), !.print = seen[c]]
  /\ Return(c)
  /\ whole' = (whole \/ c \in lone)
  /\ UNCHANGED <<status, revoked, drive, world, oauth, sound, used>>

PublishFails(c) ==
  /\ pc[c] \in {"markdown", "json"}
  /\ Spend
  /\ binding' = [mine[c] EXCEPT !.state = "DEGRADED"]
  /\ Return(c)
  /\ whole' = FALSE
  /\ UNCHANGED <<status, revoked, drive, world, oauth, sound>>

\* verify raises without a usable credential, and the row stays as it is.
VerifyRead(c) ==
  /\ pc[c] = "verify"
  /\ IF binding.state = "READY" /\ Usable(binding.secret)
       THEN /\ Hold(c, binding) /\ Goto(c, "check")
            /\ UNCHANGED <<rung, manual, seen, lone>>
       ELSE Return(c)
  /\ UNCHANGED <<binding, status, revoked, drive, world, oauth, ghosts, used>>

VerifyCheck(c) ==
  /\ pc[c] = "check"
  /\ \/ Fall(c, "READY") /\ UNCHANGED used
     \/ Fall(c, "DEGRADED") /\ Spend
  /\ UNCHANGED <<status, revoked, drive, world, oauth>>

ReportStep(c) ==
  \/ PublishRead(c) \/ PublishCredential(c) \/ WriteMarkdown(c)
  \/ WriteJson(c) \/ PublishSave(c) \/ PublishFails(c)
  \/ VerifyRead(c) \/ VerifyCheck(c)

-----------------------------------------------------------------------------
(* disconnect, reauthorize and the device authorization.                   *)

\* `manual` says whether an authorization follows (reauthorize).
DisconnectRead(c) ==
  /\ pc[c] = "disconnect"
  /\ Hold(c, [mine[c] EXCEPT !.secret = binding.secret,
                             !.root = IF @ = None THEN binding.root ELSE @])
  /\ Goto(c, IF binding.secret = None THEN "unbind" ELSE "disable")
  /\ UNCHANGED <<binding, status, revoked, drive, world, oauth, rung, manual,
                 seen, lone, ghosts, used>>

DisableSecret(c) ==
  /\ pc[c] = "disable"
  /\ status' = [status EXCEPT ![mine[c].secret] = "DISABLED"]
  /\ Goto(c, "unbind")
  /\ UNCHANGED <<binding, revoked, drive, world, oauth, locals, ghosts, used>>

Unbind(c) ==
  /\ pc[c] = "unbind"
  /\ binding' = [Blank EXCEPT !.state = "DISCONNECTED", !.root = mine[c].root]
  /\ Goto(c, "clear")
  /\ UNCHANGED <<status, revoked, drive, world, oauth, locals, ghosts, used>>

\* The session is the API server's; a disconnect of the CLI leaves it.
ClearSession(c) ==
  /\ pc[c] = "clear"
  /\ oauth' \in {oauth, NoSession}
  /\ IF manual[c] THEN Goto(c, "authorize") /\ UNCHANGED locals ELSE Return(c)
  /\ UNCHANGED <<binding, status, revoked, drive, world, ghosts, used>>

\* oauth_start refuses a READY binding, then asks Google for a device code.
AuthorizeCheck(c) ==
  /\ pc[c] = "authorize"
  /\ IF binding.state = "READY" THEN Return(c)
                                ELSE Goto(c, "start") /\ UNCHANGED locals
  /\ UNCHANGED <<binding, status, revoked, drive, world, oauth, ghosts, used>>

AuthorizeStart(c) ==
  /\ pc[c] = "start"
  /\ oauth' = [state |-> "WAITING_USER", secret |-> None, root |-> mine[c].root]
  /\ Return(c)
  /\ UNCHANGED <<binding, status, revoked, drive, world, ghosts, used>>

\* The device code is denied or expires.
PollEnds ==
  /\ oauth.state = "WAITING_USER"
  /\ oauth' = NoSession
  /\ UNCHANGED <<binding, status, revoked, drive, world, pc, locals, ghosts,
                 used>>

\* The grant becomes a new credential; the lock is held all along.
PollGranted(c, s) ==
  /\ oauth.state = "WAITING_USER"
  /\ status[s] = "NONE"
  /\ status' = [status EXCEPT ![s] = "ACTIVE"]
  /\ oauth' = [oauth EXCEPT !.state = "AUTHORIZED", !.secret = s]
  /\ Enter(c, "polled", s, oauth.root, FALSE)
  /\ UNCHANGED <<binding, revoked, drive, world, used>>

PollAgain(c) ==
  /\ oauth.state = "AUTHORIZED"
  /\ Enter(c, "polled", oauth.secret, oauth.root, FALSE)
  /\ UNCHANGED <<binding, status, revoked, drive, world, oauth, used>>

Polled(c) ==
  /\ pc[c] = "polled"
  /\ IF binding.state = "READY" /\ binding.secret = mine[c].secret
       THEN Return(c)
       ELSE Goto(c, "connect") /\ UNCHANGED locals
  /\ UNCHANGED <<binding, status, revoked, drive, world, oauth, ghosts, used>>

BindStep(c) ==
  \/ DisconnectRead(c) \/ DisableSecret(c) \/ Unbind(c) \/ ClearSession(c)
  \/ AuthorizeCheck(c) \/ AuthorizeStart(c) \/ Polled(c)

-----------------------------------------------------------------------------
(* The calls.                                                              *)

Begin(c, step, s, r, flag) ==
  /\ Enter(c, step, s, r, flag)
  /\ UNCHANGED <<binding, status, revoked, drive, world, oauth, used>>

Connect(c, s, r) == status[s] # "NONE" /\ Begin(c, "connect", s, r, FALSE)
Publish(c) == Begin(c, "publish", None, None, TRUE)
VerifyNow(c) == Begin(c, "verify", None, None, FALSE)
Disconnect(c) == Begin(c, "disconnect", None, None, FALSE)
Reauthorize(c, r) == Begin(c, "disconnect", None, r, TRUE)
Authorize(c, r) == Begin(c, "authorize", None, r, FALSE)

\* reconnect does what the state of the row asks for, under a root that is
\* given, saved, or the default one.
Reconnect(c, r) ==
  LET bound == binding.secret # None
  IN  \/ /\ binding.state = "DEGRADED" /\ bound
         /\ Begin(c, "connect", binding.secret, r, FALSE)
      \/ /\ binding.state = "NEEDS_ACTION" /\ bound
         /\ Reauthorize(c, r)
      \/ /\ binding.state \notin {"READY", "DEGRADED", "NEEDS_ACTION"} \/ ~bound
         /\ Authorize(c, r)

\* Mutant: a scan leaves a DEGRADED binding alone.
ScanReadyOnly ==
  /\ binding.state = "READY"
  /\ Begin(Worker, "publish", None, None, FALSE)

\* scheduled_scan connects again what is DEGRADED, and publishes if READY.
Scan ==
  \/ /\ binding.state = "DEGRADED"
     /\ Begin(Worker, "connect", binding.secret, binding.root, FALSE)
  \/ /\ binding.state = "READY"
     /\ Begin(Worker, "publish", None, None, FALSE)

OwnerCall(c) ==
  \/ \E s \in Secret, r \in Root : Connect(c, s, r)
  \/ Publish(c) \/ VerifyNow(c) \/ Disconnect(c)
  \/ \E r \in Root : Reauthorize(c, r) \/ Authorize(c, r) \/ Reconnect(c, r)
  \/ \E s \in Secret : PollGranted(c, s)
  \/ PollAgain(c)

\* A process is killed; the API server loses its session and all its calls.
Crash(c) ==
  /\ ~Idle(c)
  /\ Spend
  /\ LET dead == IF c \in Owners THEN Owners ELSE {Worker}
     IN  /\ pc' = [d \in Callers |-> IF d \in dead THEN "idle" ELSE pc[d]]
         /\ mine' = [d \in Callers |-> IF d \in dead THEN Blank ELSE mine[d]]
         /\ rung' = [d \in Callers |-> IF d \in dead THEN 1 ELSE rung[d]]
         /\ manual' = [d \in Callers |-> d \notin dead /\ manual[d]]
         /\ seen' = [d \in Callers |-> IF d \in dead THEN None ELSE seen[d]]
         /\ lone' = lone \ dead
  /\ oauth' = IF c \in Owners THEN NoSession ELSE oauth
  /\ sound' = FALSE /\ whole' = FALSE
  /\ UNCHANGED <<binding, status, revoked, drive, world>>

\* The Owner revokes the grant at Google.
Revoke(s) ==
  /\ status[s] = "ACTIVE" /\ s \notin revoked
  /\ Spend
  /\ revoked' = revoked \cup {s}
  /\ UNCHANGED <<binding, status, drive, world, oauth, pc, locals, ghosts>>

Change(p) ==
  /\ p # world
  /\ Spend
  /\ world' = p
  /\ UNCHANGED <<binding, status, revoked, drive, oauth, pc, locals, ghosts>>

Proceed(c) == ConnectStep(c) \/ ReportStep(c) \/ BindStep(c)

Next ==
  \/ \E c \in Callers : Proceed(c) \/ Crash(c)
  \/ \E c \in Owners : OwnerCall(c)
  \/ Scan \/ PollEnds
  \/ \E s \in Secret : Revoke(s)
  \/ \E p \in Fingerprint : Change(p)

\* A call that has begun goes on, and the worker scans again and again.
Fairness ==
  /\ \A c \in Callers : WF_vars(Proceed(c))
  /\ WF_vars(Scan)

Spec == Init /\ [][Next]_vars
FairSpec == Spec /\ Fairness

-----------------------------------------------------------------------------
(* What must hold.                                                         *)

Steps == {"idle", "connect", "climb", "create", "publish", "credential",
          "markdown", "json", "published", "verify", "check", "disconnect",
          "disable", "unbind", "clear", "authorize", "start", "polled"}

\* Every variable keeps to its set.
TypeOK ==
  /\ binding \in Rows
  /\ status \in [Secret -> {"NONE", "ACTIVE", "DISABLED"}]
  /\ revoked \subseteq Secret
  /\ copies \in [Root -> Nat]
  /\ protocol \in [Root -> Root \cup {None}]
  /\ markdown \in [Root -> Fingerprint \cup {None}]
  /\ json \in [Root -> Fingerprint \cup {None}]
  /\ world \in Fingerprint
  /\ oauth \in [state : {"NONE", "WAITING_USER", "AUTHORIZED"},
                secret : Secret \cup {None}, root : Root \cup {None}]
  /\ pc \in [Callers -> Steps]
  /\ rung \in [Callers -> 1 .. Top]
  /\ mine \in [Callers -> Rows]
  /\ manual \in [Callers -> BOOLEAN]
  /\ seen \in [Callers -> Fingerprint \cup {None}]
  /\ lone \subseteq Callers /\ sound \in BOOLEAN /\ whole \in BOOLEAN
  /\ used \in Nat

\* READY is not said of less than what connect has verified: unless calls
\* overlap or a process is killed, a READY row has a credential that GenOS has
\* not disabled, one root folder, and a PROTOCOL.json that names it. A single
\* undisturbed connect establishes that again, whatever there was before.
ReadyIsBacked ==
  sound /\ binding.state = "READY" /\ (\A c \in Callers : pc[c] # "unbind")
    => /\ binding.secret # None /\ status[binding.secret] = "ACTIVE"
       /\ binding.tree = binding.root /\ copies[binding.tree] = 1
       /\ protocol[binding.proto] = binding.tree

\* A scan that finds no change leaves a report that says so: the fingerprint in
\* the row is that of both files, unless a report was cut short, whatever
\* connects, disconnects and failures there have been.
PrintIsPublished ==
  whole /\ binding.print # None
        /\ (\A c \in Callers : pc[c] \notin {"json", "published"})
    => /\ markdown[binding.report] = binding.print
       /\ json[binding.report] = binding.print

\* A READY binding gets another credential only by way of a disconnect, unless
\* calls overlap.
RebindIsExplicit ==
  [][lone # {} /\ binding.state = "READY"
       => binding'.secret = binding.secret \/ binding'.state = "DISCONNECTED"]_vars

\* A connect was killed between two checkpoints.
Interrupted ==
  /\ \E k \in 1 .. Top : binding.state = Ladder[k]
  /\ binding.state # "READY"
  /\ \A c \in Callers : pc[c] \notin {"climb", "create"}

\* A binding that is DEGRADED does not stay so: the scans connect it again, or
\* find that the Owner has to act, unless a connect is killed on its way.
DegradedRecovers ==
  binding.state = "DEGRADED"
    ~> \/ binding.state \in {"READY", "NEEDS_ACTION", "DISCONNECTED"}
       \/ Interrupted

\* A changed state of the system gets into a report, if the binding stays READY
\* and its credential valid.
ReportCatchesUp ==
  binding.state = "READY" /\ binding.print # world
    ~> \/ binding.print = world
       \/ binding.state # "READY"
       \/ ~Usable(binding.secret)
=============================================================================
