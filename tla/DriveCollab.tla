------------------------------ MODULE DriveCollab ------------------------------
(***************************************************************************)
(* Drive collaboration (drive_collab.py, kanban_store.py): sync_inbox      *)
(* turns request folders of the Drive into Cards, sync_card projects a     *)
(* Card into the Drive after every local change. Both are called from      *)
(* threads of the API server, the MCP hub, the worker's tick and the       *)
(* command line, and share the Card rows and the Drive without a lock.     *)
(***************************************************************************)
EXTENDS Naturals, FiniteSets

CONSTANTS
  Caller,      \* threads and processes
  Card,        \* ids that uuid4 may yield
  Folder,      \* request folders in the Inbox, by id
  Attachment,  \* the attachments of a request
  Allowed,     \* those of a size and type that are accepted
  MaxRevision, MaxVersion,  \* bounds on changes of a request, of a Card
  None,        \* SQL NULL
  Limit        \* bound on failures, kills and changes of the binding, together

ASSUME CollabAssumption ==
  /\ Allowed \subseteq Attachment
  /\ None \notin Card \cup Folder
  /\ MaxRevision \in Nat /\ MaxVersion \in Nat \ {0} /\ Limit \in Nat

Marks == {"NONE", "SYNCED", "RETRY", "CONFLICT"}   \* last_sync_state

Steps == {"idle", "list", "next", "lookup", "conflict", "mark", "create", "attach",
          "open", "find", "folder", "card", "write card", "status",
          "write status", "artifacts", "upload", "retry"}

VARIABLES
  ready,                      \* drive_binding is READY
  revision,                   \* Drive: of each request, 0 before it is there
  copies,                     \* Drive: folders named CARD-<id>
  cardFile, statusFile, uploads,  \* Drive: versions shown, artifacts
  version, origin, source, mark,  \* rows of card: source is the revision hash
  rows,                       \* rows of card_artifact
  noted,                      \* REMOTE_REVISION_CONFLICT events
  pc, todo, folder, seen, card, text, left,  \* per caller: next step, locals
  importing, \* the caller is in sync_inbox
  lone,      \* calls about a Card that no other one has overlapped with
  astray,    \* Cards about which calls have overlapped or were killed
             \* since their last lone projection
  broken,    \* Cards whose import has failed or was killed
  used       \* how much of Limit is used up

remote == <<revision, copies, cardFile, statusFile, uploads>>
board == <<version, origin, source, mark, rows, noted>>
locals == <<todo, folder, seen, card, text, left, importing>>
ghosts == <<lone, astray, broken>>
vars == <<ready, remote, board, pc, locals, ghosts, used>>

Init ==
  /\ ready = TRUE
  /\ revision = [f \in Folder |-> 0]
  /\ copies = [k \in Card |-> 0]
  /\ cardFile = [k \in Card |-> 0] /\ statusFile = [k \in Card |-> 0]
  /\ uploads = [k \in Card |-> {}]
  /\ version = [k \in Card |-> 0]
  /\ origin = [k \in Card |-> None] /\ source = [k \in Card |-> 0]
  /\ mark = [k \in Card |-> "NONE"]
  /\ rows = [k \in Card |-> {}] /\ noted = [k \in Card |-> {}]
  /\ pc = [c \in Caller |-> "idle"]
  /\ todo = [c \in Caller |-> {}] /\ folder = [c \in Caller |-> None]
  /\ seen = [c \in Caller |-> 0] /\ card = [c \in Caller |-> None]
  /\ text = [c \in Caller |-> 0] /\ left = [c \in Caller |-> {}]
  /\ importing = [c \in Caller |-> FALSE]
  /\ lone = {} /\ astray = {} /\ broken = {}
  /\ used = 0

-----------------------------------------------------------------------------
(* Helpers.                                                                *)

Spend == used < Limit /\ used' = used + 1
Idle(c) == pc[c] = "idle"
Goto(c, step) == pc' = [pc EXCEPT ![c] = step]

\* The Card that was made from a request folder: card_remote_identity_unique.
Exists(k) == version[k] > 0
ByRemote(f) == {k \in Card : Exists(k) /\ origin[k] = f}

\* A call takes up a Card, perhaps while others are at work on it.
Others(c, k) == {d \in Caller \ {c} : card[d] = k /\ pc[d] \notin {"conflict", "mark"}}
Take(c, k) ==
  /\ card' = [card EXCEPT ![c] = k]
  /\ IF Others(c, k) = {}
       THEN lone' = lone \cup {c} /\ UNCHANGED astray
       ELSE lone' = lone \ Others(c, k) /\ astray' = astray \cup {k}

\* The call, or in sync_inbox the item, ends.
Leave(c) ==
  /\ Goto(c, IF importing[c] THEN "next" ELSE "idle")
  /\ folder' = [folder EXCEPT ![c] = None]
  /\ seen' = [seen EXCEPT ![c] = 0]
  /\ card' = [card EXCEPT ![c] = None]
  /\ text' = [text EXCEPT ![c] = 0]
  /\ left' = [left EXCEPT ![c] = {}]
  /\ lone' = lone \ {c}
  /\ UNCHANGED <<todo, importing>>

-----------------------------------------------------------------------------
(* Local changes.                                                          *)

\* KanbanSystem.create_card does not project the Card.
CreateLocal(k) ==
  /\ ~Exists(k)
  /\ version' = [version EXCEPT ![k] = 1]
  /\ UNCHANGED <<ready, remote, origin, source, mark, rows, noted, pc, locals,
                 ghosts, used>>

\* A transition, a comment, a claim or a result: committed, then projected.
Change(c, k) ==
  /\ Idle(c)
  /\ Exists(k) /\ version[k] < MaxVersion
  /\ version' = [version EXCEPT ![k] = @ + 1]
  /\ Take(c, k)
  /\ Goto(c, "open")
  /\ UNCHANGED <<ready, remote, origin, source, mark, rows, noted, todo, folder,
                 seen, text, left, importing, broken, used>>

-----------------------------------------------------------------------------
(* sync_inbox.                                                             *)

SyncInbox(c) ==
  /\ Idle(c)
  /\ ready
  /\ importing' = [importing EXCEPT ![c] = TRUE]
  /\ Goto(c, "list")
  /\ UNCHANGED <<ready, remote, board, todo, folder, seen, card, text, left,
                 ghosts, used>>

ListInbox(c) ==
  /\ pc[c] = "list"
  /\ todo' = [todo EXCEPT ![c] = {f \in Folder : revision[f] > 0}]
  /\ Goto(c, "next")
  /\ UNCHANGED <<ready, remote, board, folder, seen, card, text, left, importing,
                 ghosts, used>>

\* _load_request: the folder as it is now.
LoadRequest(c) ==
  /\ pc[c] = "next"
  /\ \E f \in todo[c] :
       /\ todo' = [todo EXCEPT ![c] = @ \ {f}]
       /\ folder' = [folder EXCEPT ![c] = f]
       /\ seen' = [seen EXCEPT ![c] = revision[f]]
  /\ Goto(c, "lookup")
  /\ UNCHANGED <<ready, remote, board, card, text, left, importing, ghosts, used>>

SyncDone(c) ==
  /\ pc[c] = "next" /\ todo[c] = {}
  /\ importing' = [importing EXCEPT ![c] = FALSE]
  /\ Goto(c, "idle")
  /\ UNCHANGED <<ready, remote, board, todo, folder, seen, card, text, left,
                 ghosts, used>>

\* get_by_remote: no Card yet, an unchanged request, or another revision.
Lookup(c) ==
  /\ pc[c] = "lookup"
  /\ \/ /\ ByRemote(folder[c]) = {}
        /\ Goto(c, "create") /\ UNCHANGED <<locals, lone>>
     \/ /\ \E k \in ByRemote(folder[c]) : source[k] = seen[c]
        /\ Leave(c)
     \/ \E k \in ByRemote(folder[c]) :
          /\ source[k] # seen[c]
          /\ card' = [card EXCEPT ![c] = k]
          /\ Goto(c, "conflict")
          /\ UNCHANGED <<todo, folder, seen, text, left, importing, lone>>
  /\ UNCHANGED <<ready, remote, board, astray, broken, used>>

NoteConflict(c) ==
  /\ pc[c] = "conflict"
  /\ noted' = [noted EXCEPT ![card[c]] = @ \cup {seen[c]}]
  /\ Goto(c, "mark")
  /\ UNCHANGED <<ready, remote, version, origin, source, mark, rows, locals,
                 ghosts, used>>

\* Mutant: the remote revision replaces the Card.
MarkConflictAdopts(c) ==
  /\ pc[c] = "mark"
  /\ mark' = [mark EXCEPT ![card[c]] = "CONFLICT"]
  /\ source' = [source EXCEPT ![card[c]] = seen[c]]
  /\ version' = [version EXCEPT ![card[c]] = 1]
  /\ Leave(c)
  /\ UNCHANGED <<ready, remote, origin, rows, noted, astray, broken, used>>

MarkConflict(c) ==
  /\ pc[c] = "mark"
  /\ mark' = [mark EXCEPT ![card[c]] = "CONFLICT"]
  /\ Leave(c)
  /\ UNCHANGED <<ready, remote, version, origin, source, rows, noted, astray,
                 broken, used>>

\* Mutant: no unique index.
CreateCardTwice(c) ==
  /\ pc[c] = "create"
  /\ \E k \in Card :
       /\ ~Exists(k)
       /\ version' = [version EXCEPT ![k] = 1]
       /\ origin' = [origin EXCEPT ![k] = folder[c]]
       /\ source' = [source EXCEPT ![k] = seen[c]]
       /\ Take(c, k)
  /\ left' = [left EXCEPT ![c] = Attachment]
  /\ Goto(c, "attach")
  /\ UNCHANGED <<ready, remote, mark, rows, noted, todo, folder, seen, text,
                 importing, broken, used>>

\* Mutant: the next item is begun when the first attachment is there.
ImportedEarly(c) ==
  /\ pc[c] = "attach" /\ left[c] # Attachment
  /\ left' = [left EXCEPT ![c] = {}]
  /\ Goto(c, "open")
  /\ UNCHANGED <<ready, remote, board, todo, folder, seen, card, text, importing,
                 ghosts, used>>

\* create_card: the unique index refuses a second Card for a request.
CreateCard(c) ==
  /\ pc[c] = "create"
  /\ \/ /\ ByRemote(folder[c]) # {}
        /\ Leave(c)
        /\ UNCHANGED <<version, origin, source, astray>>
     \/ /\ ByRemote(folder[c]) = {}
        /\ \E k \in Card :
             /\ ~Exists(k)
             /\ version' = [version EXCEPT ![k] = 1]
             /\ origin' = [origin EXCEPT ![k] = folder[c]]
             /\ source' = [source EXCEPT ![k] = seen[c]]
             /\ Take(c, k)
        /\ left' = [left EXCEPT ![c] = Attachment]
        /\ Goto(c, "attach")
        /\ UNCHANGED <<todo, folder, seen, text, importing>>
  /\ UNCHANGED <<ready, remote, mark, rows, noted, broken, used>>

\* ingest writes the file, add_artifact the row; a file alone is never read.
Attach(c) ==
  /\ pc[c] = "attach"
  /\ \E a \in left[c] :
       /\ left' = [left EXCEPT ![c] = @ \ {a}]
       /\ rows' = [rows EXCEPT ![card[c]] = @ \cup {a}]
  /\ UNCHANGED <<ready, remote, version, origin, source, mark, noted, pc, todo,
                 folder, seen, card, text, importing, ghosts, used>>

Imported(c) ==
  /\ pc[c] = "attach" /\ left[c] = {}
  /\ Goto(c, "open")
  /\ UNCHANGED <<ready, remote, board, locals, ghosts, used>>

\* An item fails while it is loaded, or after its Card has been created.
ItemFails(c) ==
  /\ pc[c] \in {"lookup", "create", "attach"}
  /\ Spend
  /\ broken' = IF pc[c] = "attach" THEN broken \cup {card[c]} ELSE broken
  /\ Leave(c)
  /\ UNCHANGED <<ready, remote, board, astray>>

-----------------------------------------------------------------------------
(* sync_card, called by project_after_local_change or by sync_inbox.       *)

\* _ready_remote, unless the caller brings the remote along.
Open(c) ==
  /\ pc[c] = "open"
  /\ Goto(c, IF ready \/ importing[c] THEN "find" ELSE "retry")
  /\ UNCHANGED <<ready, remote, board, locals, ghosts, used>>

\* ensure_folder: duplicates are left to the Owner.
FindFolder(c) ==
  /\ pc[c] = "find"
  /\ Goto(c, CASE copies[card[c]] = 0 -> "folder"
               [] copies[card[c]] = 1 -> "card"
               [] OTHER -> "retry")
  /\ UNCHANGED <<ready, remote, board, locals, ghosts, used>>

CreateFolder(c) ==
  /\ pc[c] = "folder"
  /\ copies' = [copies EXCEPT ![card[c]] = @ + 1]
  /\ Goto(c, "card")
  /\ UNCHANGED <<ready, revision, cardFile, statusFile, uploads, board, locals,
                 ghosts, used>>

\* _card_markdown and _status_projection read the row again.
Read(c, step) ==
  /\ text' = [text EXCEPT ![c] = version[card[c]]]
  /\ Goto(c, step)
  /\ UNCHANGED <<ready, remote, board, todo, folder, seen, card, left, importing,
                 ghosts, used>>

ReadCard(c) == pc[c] = "card" /\ Read(c, "write card")
ReadStatus(c) == pc[c] = "status" /\ Read(c, "write status")

WriteCard(c) ==
  /\ pc[c] = "write card"
  /\ cardFile' = [cardFile EXCEPT ![card[c]] = text[c]]
  /\ Goto(c, "status")
  /\ UNCHANGED <<ready, revision, copies, statusFile, uploads, board, locals,
                 ghosts, used>>

WriteStatus(c) ==
  /\ pc[c] = "write status"
  /\ statusFile' = [statusFile EXCEPT ![card[c]] = text[c]]
  /\ Goto(c, "artifacts")
  /\ UNCHANGED <<ready, revision, copies, cardFile, uploads, board, locals,
                 ghosts, used>>

\* Mutant: quarantined ones are copied as well.
ListAllArtifacts(c) ==
  /\ pc[c] = "artifacts"
  /\ left' = [left EXCEPT ![c] = rows[card[c]]]
  /\ Goto(c, "upload")
  /\ UNCHANGED <<ready, remote, board, todo, folder, seen, card, text, importing,
                 ghosts, used>>

\* list_artifacts; only accepted ones are copied.
ListArtifacts(c) ==
  /\ pc[c] = "artifacts"
  /\ left' = [left EXCEPT ![c] = rows[card[c]] \cap Allowed]
  /\ Goto(c, "upload")
  /\ UNCHANGED <<ready, remote, board, todo, folder, seen, card, text, importing,
                 ghosts, used>>

Upload(c) ==
  /\ pc[c] = "upload"
  /\ \E a \in left[c] :
       /\ left' = [left EXCEPT ![c] = @ \ {a}]
       /\ uploads' = [uploads EXCEPT ![card[c]] = @ \cup {a}]
  /\ UNCHANGED <<ready, revision, copies, cardFile, statusFile, board, pc, todo,
                 folder, seen, card, text, importing, ghosts, used>>

\* set_mirror says SYNCED, whatever the row says meanwhile.
SetMirror(c) ==
  /\ pc[c] = "upload" /\ left[c] = {}
  /\ mark' = [mark EXCEPT ![card[c]] = "SYNCED"]
  /\ astray' = IF c \in lone THEN astray \ {card[c]} ELSE astray
  /\ Leave(c)
  /\ UNCHANGED <<ready, remote, version, origin, source, rows, noted, broken, used>>

\* Mutant: what cannot be written is skipped.
ProjectionGoesOn(c) ==
  /\ pc[c] \in {"find", "folder", "write card", "write status", "upload"}
  /\ Spend
  /\ Goto(c, "artifacts")
  /\ UNCHANGED <<ready, remote, board, locals, ghosts>>

\* A call to Google or a local read fails on the way.
ProjectionFails(c) ==
  /\ pc[c] \in {"find", "folder", "write card", "write status", "upload"}
  /\ Spend
  /\ Goto(c, "retry")
  /\ UNCHANGED <<ready, remote, board, locals, ghosts>>

\* Mutant: the failure is not recorded.
SetRetryForgotten(c) ==
  /\ pc[c] = "retry"
  /\ Leave(c)
  /\ UNCHANGED <<ready, remote, board, astray, broken, used>>

SetRetry(c) ==
  /\ pc[c] = "retry"
  /\ mark' = [mark EXCEPT ![card[c]] = "RETRY"]
  /\ Leave(c)
  /\ UNCHANGED <<ready, remote, version, origin, source, rows, noted, astray,
                 broken, used>>

-----------------------------------------------------------------------------
(* The outside.                                                            *)

\* Somebody puts a request into the Inbox, or edits it.
Revise(f) ==
  /\ revision[f] < MaxRevision
  /\ revision' = [revision EXCEPT ![f] = @ + 1]
  /\ UNCHANGED <<ready, copies, cardFile, statusFile, uploads, board, pc, locals,
                 ghosts, used>>

\* The binding gets READY or stops being it.
Rebind ==
  /\ Spend
  /\ ready' = ~ready
  /\ UNCHANGED <<remote, board, pc, locals, ghosts>>

Kill(c) ==
  /\ ~Idle(c)
  /\ Spend
  /\ Goto(c, "idle")
  /\ todo' = [todo EXCEPT ![c] = {}] /\ folder' = [folder EXCEPT ![c] = None]
  /\ seen' = [seen EXCEPT ![c] = 0] /\ card' = [card EXCEPT ![c] = None]
  /\ text' = [text EXCEPT ![c] = 0] /\ left' = [left EXCEPT ![c] = {}]
  /\ importing' = [importing EXCEPT ![c] = FALSE]
  /\ lone' = lone \ {c}
  /\ astray' = astray \cup ({card[c]} \ {None})
  /\ broken' = IF pc[c] = "attach" THEN broken \cup {card[c]} ELSE broken
  /\ UNCHANGED <<ready, remote, board>>

-----------------------------------------------------------------------------
Step(c) ==
  \/ ListInbox(c) \/ LoadRequest(c) \/ SyncDone(c) \/ Lookup(c)
  \/ NoteConflict(c) \/ MarkConflict(c) \/ CreateCard(c) \/ Attach(c)
  \/ Imported(c) \/ Open(c) \/ FindFolder(c) \/ CreateFolder(c)
  \/ ReadCard(c) \/ WriteCard(c) \/ ReadStatus(c) \/ WriteStatus(c)
  \/ ListArtifacts(c) \/ Upload(c) \/ SetMirror(c) \/ SetRetry(c)

Next ==
  \/ \E c \in Caller : Step(c)
  \/ \E k \in Card : CreateLocal(k) \/ \E c \in Caller : Change(c, k)
  \/ \E c \in Caller : SyncInbox(c) \/ ItemFails(c) \/ ProjectionFails(c) \/ Kill(c)
  \/ \E f \in Folder : Revise(f)
  \/ Rebind

Spec == Init /\ [][Next]_vars

\* A call that has begun goes on. Nobody is obliged to begin one.
FairSpec == Spec /\ \A c \in Caller : WF_vars(Step(c))

-----------------------------------------------------------------------------
(* Properties.                                                             *)

\* Every variable holds a value of its kind.
TypeOK ==
  /\ ready \in BOOLEAN
  /\ revision \in [Folder -> 0 .. MaxRevision]
  /\ copies \in [Card -> Nat]
  /\ cardFile \in [Card -> 0 .. MaxVersion] /\ statusFile \in [Card -> 0 .. MaxVersion]
  /\ uploads \in [Card -> SUBSET Allowed]
  /\ version \in [Card -> 0 .. MaxVersion]
  /\ origin \in [Card -> Folder \cup {None}] /\ source \in [Card -> 0 .. MaxRevision]
  /\ mark \in [Card -> Marks]
  /\ rows \in [Card -> SUBSET Attachment]
  /\ noted \in [Card -> SUBSET (0 .. MaxRevision)]
  /\ pc \in [Caller -> Steps]
  /\ todo \in [Caller -> SUBSET Folder] /\ folder \in [Caller -> Folder \cup {None}]
  /\ seen \in [Caller -> 0 .. MaxRevision] /\ card \in [Caller -> Card \cup {None}]
  /\ text \in [Caller -> 0 .. MaxVersion] /\ left \in [Caller -> SUBSET Attachment]
  /\ importing \in [Caller -> BOOLEAN]
  /\ lone \subseteq Caller /\ astray \subseteq Card /\ broken \subseteq Card
  /\ used \in 0 .. Limit

\* However many calls of sync_inbox run at once, a request becomes one Card
\* (test_mvp07.py: "creates exactly one card").
OneCardPerRequest ==
  \A f \in Folder : Cardinality(ByRemote(f)) <= 1

\* A Card from the Inbox has all the attachments of its request once its
\* importer has got past them, unless the import has failed on the way.
ImportsAreWhole ==
  \A k \in Card \ broken :
    (origin[k] # None /\ ~\E c \in Caller : card[c] = k /\ pc[c] = "attach")
      => rows[k] = Attachment

\* A Card that is marked SYNCED, and that no call is at work on, is shown as it
\* is, in CARD.md, STATUS.json and the artifacts, unless calls about it have
\* overlapped or were killed since its last undisturbed projection.
SyncedIsShown ==
  \A k \in Card \ (astray \cup broken) :
    (mark[k] = "SYNCED" /\ ~\E c \in Caller : card[c] = k)
      => /\ cardFile[k] = version[k] /\ statusFile[k] = version[k]
         /\ uploads[k] = rows[k] \cap Allowed

\* The Drive is a replica: nothing committed here is rolled back, and nothing
\* is shown that was not here first.
Replica == INSTANCE DriveReplica WITH
  Artifact <- Attachment, truth <- version, kept <- rows,
  shown <- cardFile, copied <- uploads
ReplicaSpec == Replica!Spec

\* A change that CARD.md does not show, of a Card whose mark does not admit it,
\* gets there or gets a mark, unless calls about the Card overlap or are killed.
ChangesAreShownOrMarked ==
  \A k \in Card :
    (version[k] > 1 /\ cardFile[k] # version[k])
      ~> (cardFile[k] = version[k] \/ mark[k] \in {"RETRY", "CONFLICT"} \/ k \in astray)
=============================================================================
