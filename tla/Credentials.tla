----------------------------- MODULE Credentials -----------------------------
(***************************************************************************)
(* Credentials (auth_service.py): the product database keeps, per secret,  *)
(* the active revision, its status and the history of revisions; the       *)
(* secret provider (secret_provider.py) keeps the material of a revision   *)
(* in a file. The threads of the API server, the CLI, the edge and the     *)
(* agent add, rotate, disable, test and read: every access to the database *)
(* or to a file is a step.                                                 *)
(***************************************************************************)
EXTENDS Integers

CONSTANTS
  Secret,     \* secret ids, uuid4
  Name,       \* names of credentials
  Material,   \* what a secret may say; a fingerprint stands for it
  Callers,    \* threads and processes that use CredentialService
  MaxRev,     \* bound: revisions of a secret
  NoFile,     \* no such file
  Limit       \* bound, by kind: "faults" that change nothing, "lost" answers
              \* of the database, "kills" of callers, "disables"

Rev == 1 .. MaxRev
Kind == {"faults", "lost", "kills", "disables"}

ASSUME CredentialAssumption ==
  /\ MaxRev \in Nat \ {0}
  /\ NoFile \notin Material
  /\ Limit \in [Kind -> Nat]

VARIABLES
  status, label, active, print,   \* secret_ref: "NONE" has no row
  history,      \* credential_revision: secret, revision, material
  file,         \* content of <secret>/<revision>.secret
  issued,       \* secret ids that add has used
  pc, doing, secret, rev, mat,    \* per caller: next step, local variables
  disturbed,    \* secrets that two callers rotated at once, or about which
                \* the database did not answer
  killed,       \* secrets whose caller was killed
  used          \* how much of each Limit is used up

rows == <<status, label, active, print, history>>
locals == <<doing, secret, rev, mat>>
ghosts == <<disturbed, killed>>
vars == <<rows, file, issued, pc, locals, ghosts, used>>

Spend(k) ==
  /\ used[k] < Limit[k]
  /\ used' = [used EXCEPT ![k] = @ + 1]
Goto(c, step) == pc' = [pc EXCEPT ![c] = step]

\* A call with its arguments and what it read of the row.
Enter(c, op, step, s, r, m) ==
  /\ Goto(c, step)
  /\ doing' = [doing EXCEPT ![c] = op]
  /\ secret' = [secret EXCEPT ![c] = s]
  /\ rev' = [rev EXCEPT ![c] = r]
  /\ mat' = [mat EXCEPT ![c] = m]
Proceed(c, step) == Goto(c, step) /\ UNCHANGED locals
Return(c) == Proceed(c, "idle")

Writing(c) == pc[c] \in {"check", "write", "commit", "delete"}
Path(c) == <<secret[c], rev[c]>>

Init ==
  /\ status = [s \in Secret |-> "NONE"]
  /\ label \in [Secret -> Name]
  /\ active = [s \in Secret |-> 0]
  /\ print = [s \in Secret |-> NoFile]
  /\ history = {}
  /\ file = [p \in Secret \X Rev |-> NoFile]
  /\ issued = {}
  /\ pc = [c \in Callers |-> "idle"]
  /\ doing = [c \in Callers |-> "READ"]
  /\ secret \in [Callers -> Secret]
  /\ rev = [c \in Callers |-> 1]
  /\ mat = [c \in Callers |-> NoFile]
  /\ disturbed = {} /\ killed = {}
  /\ used = [k \in Kind |-> 0]

-----------------------------------------------------------------------------
(* add and rotate up to the database.                                      *)

AddBegin(c, s, m) ==
  /\ pc[c] = "idle"
  /\ s \notin issued
  /\ issued' = issued \cup {s}
  /\ Enter(c, "ADD", "check", s, 1, m)
  /\ UNCHANGED <<rows, file, ghosts, used>>

\* rotate reads the row, whatever its status.
RotateBegin(c, s, m) ==
  /\ pc[c] = "idle"
  /\ status[s] # "NONE" /\ active[s] < MaxRev
  /\ Enter(c, "ROTATE", "check", s, active[s] + 1, m)
  /\ disturbed' = IF \E d \in Callers : Writing(d) /\ secret[d] = s
                    THEN disturbed \cup {s} ELSE disturbed
  /\ UNCHANGED <<rows, file, issued, killed, used>>

\* store_revision takes a file that is there already for its own if it has the
\* same content, and raises otherwise.
CheckFile(c) ==
  /\ pc[c] = "check"
  /\ Proceed(c, IF file[Path(c)] = NoFile THEN "write"
                ELSE IF file[Path(c)] = mat[c] THEN "commit" ELSE "idle")
  /\ UNCHANGED <<rows, file, issued, ghosts, used>>

WriteFile(c) ==
  /\ pc[c] = "write"
  /\ file' = [file EXCEPT ![Path(c)] = mat[c]]
  /\ Proceed(c, "commit")
  /\ UNCHANGED <<rows, issued, ghosts, used>>

\* An OSError before the rename: the temporary file is removed.
WriteFails(c) ==
  /\ pc[c] = "write"
  /\ Spend("faults")
  /\ Return(c)
  /\ UNCHANGED <<rows, file, issued, ghosts>>

-----------------------------------------------------------------------------
(* The statement of the database, and its undoing.                         *)

NameIsFree(n) == \A s \in Secret : status[s] # "NONE" => label[s] # n

\* insert_credential, one transaction.
InsertRow(s, n, m) ==
  /\ NameIsFree(n)
  /\ status' = [status EXCEPT ![s] = "ACTIVE"]
  /\ label' = [label EXCEPT ![s] = n]
  /\ active' = [active EXCEPT ![s] = 1]
  /\ print' = [print EXCEPT ![s] = m]
  /\ history' = history \cup {<<s, 1, m>>}

\* Mutant: the row is updated whatever its revision is by now.
UpdateRowBlindly(s, r, m) ==
  /\ active' = [active EXCEPT ![s] = r]
  /\ print' = [print EXCEPT ![s] = m]
  /\ status' = [status EXCEPT ![s] = "ACTIVE"]
  /\ history' = history \cup {<<s, r, m>>}
  /\ UNCHANGED label

\* rotate_credential, one statement, if the revision read is still the active
\* one; it makes a disabled credential ACTIVE again.
UpdateRow(s, r, m) ==
  /\ active[s] = r - 1
  /\ active' = [active EXCEPT ![s] = r]
  /\ print' = [print EXCEPT ![s] = m]
  /\ status' = [status EXCEPT ![s] = "ACTIVE"]
  /\ history' = history \cup {<<s, r, m>>}
  /\ UNCHANGED label

Statement(c) ==
  \/ /\ doing[c] = "ADD"
     /\ \E n \in Name : InsertRow(secret[c], n, mat[c])
  \/ doing[c] = "ROTATE" /\ UpdateRow(secret[c], rev[c], mat[c])

Commit(c) ==
  /\ pc[c] = "commit"
  /\ Statement(c)
  /\ Return(c)
  /\ UNCHANGED <<file, issued, ghosts, used>>

\* The name is taken, or the revision has moved on.
Conflict(c) ==
  /\ pc[c] = "commit"
  /\ \/ doing[c] = "ADD" /\ \E n \in Name : ~NameIsFree(n)
     \/ doing[c] = "ROTATE" /\ active[secret[c]] # rev[c] - 1
  /\ Proceed(c, "delete")
  /\ UNCHANGED <<rows, file, issued, ghosts, used>>

\* The statement fails and changes nothing.
CommitFails(c) ==
  /\ pc[c] = "commit"
  /\ Spend("faults")
  /\ Proceed(c, "delete")
  /\ UNCHANGED <<rows, file, issued, ghosts>>

\* psql times out after the commit, or the row cannot be read back.
AnswerLost(c) ==
  /\ pc[c] = "commit"
  /\ Spend("lost")
  /\ Statement(c)
  /\ disturbed' = disturbed \cup {secret[c]}
  /\ Proceed(c, "delete")
  /\ UNCHANGED <<file, issued, killed>>

\* Mutant: the previous revision is removed.
DeletePrevious(c) ==
  /\ pc[c] = "delete"
  /\ file' = [file EXCEPT ![<<secret[c], IF rev[c] = 1 THEN 1 ELSE rev[c] - 1>>]
                            = NoFile]
  /\ Return(c)
  /\ UNCHANGED <<rows, issued, ghosts, used>>

DeleteFile(c) ==
  /\ pc[c] = "delete"
  /\ file' = [file EXCEPT ![Path(c)] = NoFile]
  /\ Return(c)
  /\ UNCHANGED <<rows, issued, ghosts, used>>

-----------------------------------------------------------------------------
(* disable, test and get_secret_for_consumer.                              *)

Disable(s) ==
  /\ status[s] # "NONE"
  /\ Spend("disables")
  /\ status' = [status EXCEPT ![s] = "DISABLED"]
  /\ UNCHANGED <<label, active, print, history, file, issued, pc, locals,
                 ghosts>>

\* Mutant: a consumer is given the next revision.
ReadBeginNext(c, s) ==
  /\ pc[c] = "idle"
  /\ status[s] = "ACTIVE"
  /\ Enter(c, "READ", "read", s, IF active[s] < MaxRev THEN active[s] + 1
                                 ELSE active[s], print[s])
  /\ UNCHANGED <<rows, file, issued, ghosts, used>>

\* The row has to be ACTIVE, and the consumer in its scopes.
ReadBegin(c, s) ==
  /\ pc[c] = "idle"
  /\ status[s] = "ACTIVE"
  /\ Enter(c, "READ", "read", s, active[s], print[s])
  /\ UNCHANGED <<rows, file, issued, ghosts, used>>

\* read_secret or verify_revision, of the revision read from the row.
ReadFile(c) ==
  /\ pc[c] = "read"
  /\ Return(c)
  /\ UNCHANGED <<rows, file, issued, ghosts, used>>

\* The process of the caller is killed.
Kill(c) ==
  /\ pc[c] # "idle"
  /\ Spend("kills")
  /\ killed' = killed \cup {secret[c]}
  /\ Return(c)
  /\ UNCHANGED <<rows, file, issued, disturbed>>

-----------------------------------------------------------------------------
WriterStep(c) ==
  \/ \E s \in Secret, m \in Material : AddBegin(c, s, m) \/ RotateBegin(c, s, m)
  \/ CheckFile(c) \/ WriteFile(c) \/ WriteFails(c)
  \/ Commit(c) \/ Conflict(c) \/ CommitFails(c) \/ AnswerLost(c)
  \/ DeleteFile(c)

ReaderStep(c) == (\E s \in Secret : ReadBegin(c, s)) \/ ReadFile(c)

Next ==
  \/ \E c \in Callers : WriterStep(c) \/ ReaderStep(c) \/ Kill(c)
  \/ \E s \in Secret : Disable(s)

Spec == Init /\ [][Next]_vars

-----------------------------------------------------------------------------
(* What must hold.                                                         *)

\* Every variable keeps to its set.
TypeOK ==
  /\ status \in [Secret -> {"NONE", "ACTIVE", "DISABLED"}]
  /\ label \in [Secret -> Name]
  /\ active \in [Secret -> 0 .. MaxRev]
  /\ print \in [Secret -> Material \cup {NoFile}]
  /\ history \subseteq Secret \X Rev \X Material
  /\ file \in [Secret \X Rev -> Material \cup {NoFile}]
  /\ issued \subseteq Secret
  /\ pc \in [Callers ->
               {"idle", "check", "write", "commit", "delete", "read"}]
  /\ doing \in [Callers -> {"ADD", "ROTATE", "READ"}]
  /\ secret \in [Callers -> Secret]
  /\ rev \in [Callers -> Rev]
  /\ mat \in [Callers -> Material \cup {NoFile}]
  /\ disturbed \subseteq Secret /\ killed \subseteq Secret
  /\ used \in [Kind -> Nat]

\* The material of a credential's active revision is on file, whoever adds,
\* rotates and is killed: add and rotate store it before the row names it, and
\* what they remove on a failure is never what the row names.
ActiveHasMaterial ==
  \A s \in Secret : status[s] # "NONE" => file[<<s, active[s]>>] = print[s]

\* The same, unless rotations of the secret overlap or an answer is lost.
UndisturbedHasMaterial ==
  \A s \in Secret \ disturbed :
    status[s] # "NONE" => file[<<s, active[s]>>] = print[s]

\* A consumer gets the very material the row named when it was looked up, also
\* if the credential is rotated or disabled in between; `test` passes.
ReadsWhatTheRowNamed ==
  [][\A c \in Callers : ReadFile(c) /\ secret[c] \notin disturbed
       => file[Path(c)] = mat[c]]_vars

\* The history of a credential is one chain that ends in its active revision:
\* of overlapping rotations the database lets one through.
HistoryIsChain ==
  \A s \in Secret :
    /\ \A r \in Rev :
         r <= active[s] <=> \E m \in Material : <<s, r, m>> \in history
    /\ \A r \in Rev, m, n \in Material :
         <<s, r, m>> \in history /\ <<s, r, n>> \in history => m = n
    /\ status[s] # "NONE" => <<s, active[s], print[s]>> \in history

\* Refused and failed calls leave no material of theirs behind, which would
\* stand in the way of the next rotation.
NoLeftovers ==
  \A s \in Secret \ (disturbed \cup killed), r \in Rev :
    (\A c \in Callers : secret[c] = s => pc[c] \in {"idle", "read"})
      => (file[<<s, r>>] # NoFile <=> r <= active[s])
=============================================================================
