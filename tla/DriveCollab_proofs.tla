-------------------------- MODULE DriveCollab_proofs --------------------------
(***************************************************************************)
(* Proofs about DriveCollab, for any number of callers, Cards, requests,   *)
(* attachments and failures: a request becomes one Card, an import that    *)
(* did not fail has all its attachments, the Drive is a replica, and what  *)
(* is marked SYNCED is shown.                                              *)
(***************************************************************************)
EXTENDS DriveCollab, FiniteSetTheorems, TLAPS

\* The steps of a call that is about a Card.
Working == Steps \ {"idle", "list", "next", "lookup", "create"}

RemoteTyped ==
  /\ ready \in BOOLEAN
  /\ revision \in [Folder -> 0 .. MaxRevision]
  /\ copies \in [Card -> Nat]
  /\ cardFile \in [Card -> 0 .. MaxVersion] /\ statusFile \in [Card -> 0 .. MaxVersion]
  /\ uploads \in [Card -> SUBSET Allowed]
BoardTyped ==
  /\ version \in [Card -> 0 .. MaxVersion]
  /\ origin \in [Card -> Folder \cup {None}] /\ source \in [Card -> 0 .. MaxRevision]
  /\ mark \in [Card -> Marks]
  /\ rows \in [Card -> SUBSET Attachment]
  /\ noted \in [Card -> SUBSET (0 .. MaxRevision)]
CallsTyped ==
  /\ pc \in [Caller -> Steps]
  /\ todo \in [Caller -> SUBSET Folder] /\ folder \in [Caller -> Folder \cup {None}]
  /\ seen \in [Caller -> 0 .. MaxRevision] /\ card \in [Caller -> Card \cup {None}]
  /\ text \in [Caller -> 0 .. MaxVersion] /\ left \in [Caller -> SUBSET Attachment]
  /\ importing \in [Caller -> BOOLEAN]
RestTyped ==
  /\ lone \subseteq Caller /\ astray \subseteq Card /\ broken \subseteq Card
  /\ used \in 0 .. Limit

Typed == RemoteTyped /\ BoardTyped /\ CallsTyped /\ RestTyped

\* What a call holds in its locals fits the Card it is about.
CallSound(c) ==
  /\ pc[c] \in Working => card[c] # None
  /\ pc[c] \in {"lookup", "create"} => folder[c] # None
  /\ pc[c] \notin Working => text[c] = 0
  /\ card[c] # None => Exists(card[c]) /\ text[c] <= version[card[c]]
  /\ pc[c] = "write card" => text[c] > 0
  /\ pc[c] = "attach" => rows[card[c]] \cup left[c] = Attachment
  /\ pc[c] = "upload" => left[c] \subseteq rows[card[c]] \cap Allowed
CallsSound == \A c \in Caller : CallSound(c)

\* Cards are told apart by their requests; the Drive is behind the board.
Distinct == \A j, k \in Card : origin[j] = origin[k] /\ origin[j] # None => j = k
Behind ==
  \A k \in Card : /\ cardFile[k] <= version[k] /\ uploads[k] \subseteq rows[k]
                  /\ ~Exists(k) => origin[k] = None

\* Nobody else attaches to the Card of an import.
OneImporter ==
  \A c, d \in Caller : pc[c] = "attach" /\ pc[d] = "attach" /\ card[c] = card[d] => c = d

IInv == Typed /\ CallsSound /\ Distinct /\ Behind /\ OneImporter /\ ImportsAreWhole

\* What a step of c does not touch, and what no step takes back.
Still(d) ==
  /\ pc'[d] = pc[d] /\ folder'[d] = folder[d]
  /\ card'[d] = card[d] /\ text'[d] = text[d] /\ left'[d] = left[d]
Aside(c) == \A d \in Caller \ {c} : Still(d)
Grows == \A k \in Card : version[k] <= version'[k] /\ rows[k] \subseteq rows'[k]

\* What callers do.
Acts(c) ==
  \/ Step(c) \/ SyncInbox(c) \/ ItemFails(c) \/ ProjectionFails(c) \/ Kill(c)
  \/ \E k \in Card : Change(c, k)

-----------------------------------------------------------------------------
(* Types.                                                                  *)

LEMMA TypeParts == Typed => TypeOK
  BY DEF Typed, TypeOK, RemoteTyped, BoardTyped, CallsTyped, RestTyped

LEMMA SpendTypes ==
  ASSUME used \in 0 .. Limit, Spend
  PROVE  used' \in 0 .. Limit
  BY CollabAssumption DEF Spend

LEMMA LeaveTypes ==
  ASSUME CallsTyped, NEW c \in Caller, Leave(c)
  PROVE  CallsTyped'
  <1> USE CollabAssumption DEF CallsTyped, Leave
  <1>1. pc' \in [Caller -> Steps]
    BY DEF Goto, Steps
  <1>2. folder' \in [Caller -> Folder \cup {None}] /\ card' \in [Caller -> Card \cup {None}]
    OBVIOUS
  <1>3. seen' \in [Caller -> 0 .. MaxRevision] /\ text' \in [Caller -> 0 .. MaxVersion]
    OBVIOUS
  <1>4. left' \in [Caller -> SUBSET Attachment]
    OBVIOUS
  <1>5. QED
    BY <1>1, <1>2, <1>3, <1>4

LEMMA LookupTypes ==
  ASSUME CallsTyped, NEW c \in Caller, Lookup(c)
  PROVE  CallsTyped'
  <1>1. CASE Leave(c)
    BY <1>1, LeaveTypes
  <1>2. CASE UNCHANGED locals /\ Goto(c, "create")
    BY <1>2 DEF CallsTyped, Goto, Steps, locals
  <1>3. CASE \E k \in Card : /\ card' = [card EXCEPT ![c] = k]
          /\ Goto(c, "conflict")
          /\ UNCHANGED <<todo, folder, seen, text, left, importing, lone>>
    BY <1>3 DEF CallsTyped, Goto, Steps
  <1>4. QED
    BY <1>1, <1>2, <1>3 DEF Lookup, ByRemote

LEMMA LoadTypes ==
  ASSUME RemoteTyped, CallsTyped, NEW c \in Caller, LoadRequest(c)
  PROVE  CallsTyped'
  <1>1. PICK f \in todo[c] :
       /\ todo' = [todo EXCEPT ![c] = @ \ {f}]
       /\ folder' = [folder EXCEPT ![c] = f]
       /\ seen' = [seen EXCEPT ![c] = revision[f]]
    BY DEF LoadRequest
  <1>2. f \in Folder /\ revision[f] \in 0 .. MaxRevision
    BY DEF CallsTyped, RemoteTyped
  <1>3. todo' \in [Caller -> SUBSET Folder]
    BY <1>1 DEF CallsTyped
  <1>4. folder' \in [Caller -> Folder \cup {None}] /\ seen' \in [Caller -> 0 .. MaxRevision]
    BY <1>1, <1>2 DEF CallsTyped
  <1>5. pc' \in [Caller -> Steps]
    BY DEF LoadRequest, Goto, CallsTyped, Steps
  <1>6. QED
    BY <1>3, <1>4, <1>5 DEF LoadRequest, CallsTyped

LEMMA AttachTypes ==
  ASSUME BoardTyped, CallsTyped, NEW c \in Caller, Attach(c), card[c] # None
  PROVE  BoardTyped' /\ CallsTyped'
  <1>1. PICK a \in left[c] :
          /\ left' = [left EXCEPT ![c] = @ \ {a}]
          /\ rows' = [rows EXCEPT ![card[c]] = @ \cup {a}]
    BY DEF Attach
  <1>2. card[c] \in Card /\ left[c] \in SUBSET Attachment
    BY DEF CallsTyped
  <1>3. left[c] \ {a} \in SUBSET Attachment /\ rows[card[c]] \cup {a} \in SUBSET Attachment
    BY <1>2 DEF BoardTyped
  <1>4. left' \in [Caller -> SUBSET Attachment]
    BY <1>1, <1>3 DEF CallsTyped
  <1>5. rows' \in [Card -> SUBSET Attachment]
    BY <1>1, <1>2, <1>3 DEF BoardTyped
  <1>6. QED
    BY <1>4, <1>5 DEF Attach, BoardTyped, CallsTyped

LEMMA CreateTypes ==
  ASSUME RemoteTyped, BoardTyped, CallsTyped, RestTyped, NEW c \in Caller, CreateCard(c), folder[c]
         # None
  PROVE  BoardTyped' /\ CallsTyped' /\ RestTyped'
  <1>1. CASE ByRemote(folder[c]) # {}
    BY <1>1, LeaveTypes DEF CreateCard, BoardTyped, RestTyped, Leave
  <1>2. ASSUME ByRemote(folder[c]) = {}, NEW k \in Card,
             ~Exists(k),
             version' = [version EXCEPT ![k] = 1],
             origin' = [origin EXCEPT ![k] = folder[c]],
             source' = [source EXCEPT ![k] = seen[c]],
             Take(c, k),
        left' = [left EXCEPT ![c] = Attachment],
        Goto(c, "attach"),
        UNCHANGED <<todo, folder, seen, text, importing>>,
        UNCHANGED <<ready, remote, mark, rows, noted, broken, used>>
        PROVE BoardTyped' /\ CallsTyped' /\ RestTyped'
    <2>1. folder[c] \in Folder /\ seen[c] \in 0 .. MaxRevision /\ 1 \in 0 .. MaxVersion
      BY CollabAssumption DEF CallsTyped
    <2>2. version' \in [Card -> 0 .. MaxVersion]
      BY <1>2, <2>1 DEF BoardTyped
    <2>3. origin' \in [Card -> Folder \cup {None}] /\ source' \in [Card -> 0 .. MaxRevision]
      BY <1>2, <2>1 DEF BoardTyped
    <2>4. BoardTyped'
      BY <1>2, <2>2, <2>3 DEF BoardTyped
    <2>5. pc' \in [Caller -> Steps] /\ card' \in [Caller -> Card \cup {None}]
      BY <1>2 DEF CallsTyped, Goto, Take, Steps
    <2>6. left' \in [Caller -> SUBSET Attachment]
      BY <1>2 DEF CallsTyped
    <2>7. CallsTyped'
      BY <1>2, <2>5, <2>6 DEF CallsTyped
    <2>8. RestTyped'
      BY <1>2 DEF RestTyped, Take, Others
    <2>9. QED
      BY <2>4, <2>7, <2>8
  <1>3. QED
    BY <1>1, <1>2 DEF CreateCard

LEMMA FolderTypes ==
  ASSUME RemoteTyped, CallsTyped, NEW c \in Caller, CreateFolder(c), card[c] # None
  PROVE  RemoteTyped'
  <1>1. card[c] \in Card
    BY DEF CallsTyped
  <1>2. copies' \in [Card -> Nat]
    BY <1>1 DEF CreateFolder, RemoteTyped
  <1>3. QED
    BY <1>2 DEF CreateFolder, RemoteTyped

LEMMA UploadTypes ==
  ASSUME RemoteTyped, CallsTyped, NEW c \in Caller, Upload(c), card[c] # None, left[c] \subseteq
         Allowed
  PROVE  RemoteTyped' /\ CallsTyped'
  <1>1. PICK a \in left[c] :
          /\ left' = [left EXCEPT ![c] = @ \ {a}]
          /\ uploads' = [uploads EXCEPT ![card[c]] = @ \cup {a}]
    BY DEF Upload
  <1>2. card[c] \in Card /\ left[c] \in SUBSET Attachment
    BY DEF CallsTyped
  <1>3. left[c] \ {a} \in SUBSET Attachment /\ uploads[card[c]] \cup {a} \in SUBSET Allowed
    BY <1>2 DEF RemoteTyped
  <1>4. left' \in [Caller -> SUBSET Attachment]
    BY <1>1, <1>3 DEF CallsTyped
  <1>5. uploads' \in [Card -> SUBSET Allowed]
    BY <1>1, <1>2, <1>3 DEF RemoteTyped
  <1>6. QED
    BY <1>4, <1>5 DEF Upload, RemoteTyped, CallsTyped

LEMMA KillTypes ==
  ASSUME CallsTyped, RestTyped, NEW c \in Caller, Kill(c), pc[c] \in Working => card[c] # None
  PROVE  CallsTyped' /\ RestTyped'
  <1> USE CollabAssumption DEF CallsTyped, Kill
  <1>1. pc' \in [Caller -> Steps] /\ todo' \in [Caller -> SUBSET Folder]
    BY DEF Goto, Steps
  <1>2. folder' \in [Caller -> Folder \cup {None}] /\ card' \in [Caller -> Card \cup {None}]
    OBVIOUS
  <1>3. seen' \in [Caller -> 0 .. MaxRevision] /\ text' \in [Caller -> 0 .. MaxVersion]
    OBVIOUS
  <1>4. left' \in [Caller -> SUBSET Attachment] /\ importing' \in [Caller -> BOOLEAN]
    OBVIOUS
  <1>5. pc[c] = "attach" => card[c] \in Card
    BY DEF Working, Steps
  <1>6. RestTyped'
    BY <1>5, SpendTypes DEF RestTyped
  <1>7. QED
    BY <1>1, <1>2, <1>3, <1>4, <1>6

LEMMA ChangeTypes ==
  ASSUME Typed, NEW c \in Caller, NEW k \in Card, Change(c, k)
  PROVE  Typed'
  <1> USE DEF Typed, Change
  <1>1. version' \in [Card -> 0 .. MaxVersion]
    BY CollabAssumption DEF BoardTyped
  <1>2. BoardTyped' /\ RemoteTyped'
    BY <1>1 DEF BoardTyped, RemoteTyped, remote
  <1>3. pc' \in [Caller -> Steps] /\ card' \in [Caller -> Card \cup {None}]
    BY DEF CallsTyped, Goto, Take, Steps
  <1>4. CallsTyped'
    BY <1>3 DEF CallsTyped
  <1>5. RestTyped'
    BY DEF RestTyped, Take, Others
  <1>6. QED
    BY <1>2, <1>4, <1>5

LEMMA TypeStep ==
  ASSUME Typed, NEW c \in Caller, CallSound(c), Acts(c)
  PROVE  Typed'
  <1> USE CollabAssumption DEF Typed
  <1>0. /\ pc[c] \in Working => card[c] \in Card
        /\ pc[c] \in {"lookup", "create"} => folder[c] # None
        /\ pc[c] = "upload" => left[c] \subseteq Allowed
    BY DEF CallSound, CallsTyped, Working
  <1>1. CASE ListInbox(c)
    <2> USE <1>0, <1>1 DEF ListInbox, Working, Steps
    <2>1. RemoteTyped'
      BY DEF RemoteTyped, BoardTyped, CallsTyped, Goto, remote, board
    <2>2. BoardTyped'
      BY DEF BoardTyped, CallsTyped, Marks, board
    <2>3. CallsTyped'
      BY LeaveTypes DEF CallsTyped, RemoteTyped, BoardTyped, Goto, locals
    <2>4. RestTyped'
      BY SpendTypes DEF RestTyped, CallsTyped, Leave, ghosts, locals
    <2>5. QED
      BY <2>1, <2>2, <2>3, <2>4
  <1>2. CASE LoadRequest(c)
    <2> USE <1>0, <1>2 DEF LoadRequest, Working, Steps
    <2>1. RemoteTyped'
      BY DEF RemoteTyped, BoardTyped, CallsTyped, Goto, remote, board
    <2>2. BoardTyped'
      BY DEF BoardTyped, CallsTyped, Marks, board
    <2>3. CallsTyped'
      BY LoadTypes
    <2>4. RestTyped'
      BY SpendTypes DEF RestTyped, CallsTyped, Leave, ghosts, locals
    <2>5. QED
      BY <2>1, <2>2, <2>3, <2>4
  <1>3. CASE SyncDone(c)
    <2> USE <1>0, <1>3 DEF SyncDone, Working, Steps
    <2>1. RemoteTyped'
      BY DEF RemoteTyped, BoardTyped, CallsTyped, Goto, remote, board
    <2>2. BoardTyped'
      BY DEF BoardTyped, CallsTyped, Marks, board
    <2>3. CallsTyped'
      BY LeaveTypes DEF CallsTyped, RemoteTyped, BoardTyped, Goto, locals
    <2>4. RestTyped'
      BY SpendTypes DEF RestTyped, CallsTyped, Leave, ghosts, locals
    <2>5. QED
      BY <2>1, <2>2, <2>3, <2>4
  <1>4. CASE Lookup(c)
    <2> USE <1>0, <1>4 DEF Lookup, Working, Steps
    <2>1. RemoteTyped'
      BY DEF RemoteTyped, BoardTyped, CallsTyped, Goto, remote, board
    <2>2. BoardTyped'
      BY DEF BoardTyped, CallsTyped, Marks, board
    <2>3. CallsTyped'
      BY LookupTypes
    <2>4. RestTyped'
      BY SpendTypes DEF RestTyped, CallsTyped, Leave, ghosts, locals
    <2>5. QED
      BY <2>1, <2>2, <2>3, <2>4
  <1>5. CASE NoteConflict(c)
    <2> USE <1>0, <1>5 DEF NoteConflict, Working, Steps
    <2>1. RemoteTyped'
      BY DEF RemoteTyped, BoardTyped, CallsTyped, Goto, remote, board
    <2>2. BoardTyped'
      BY DEF BoardTyped, CallsTyped, Marks, board
    <2>3. CallsTyped'
      BY LeaveTypes DEF CallsTyped, RemoteTyped, BoardTyped, Goto, locals
    <2>4. RestTyped'
      BY SpendTypes DEF RestTyped, CallsTyped, Leave, ghosts, locals
    <2>5. QED
      BY <2>1, <2>2, <2>3, <2>4
  <1>6. CASE MarkConflict(c)
    <2> USE <1>0, <1>6 DEF MarkConflict, Working, Steps
    <2>1. RemoteTyped'
      BY DEF RemoteTyped, BoardTyped, CallsTyped, Goto, remote, board
    <2>2. BoardTyped'
      BY DEF BoardTyped, CallsTyped, Marks, board
    <2>3. CallsTyped'
      BY LeaveTypes DEF CallsTyped, RemoteTyped, BoardTyped, Goto, locals
    <2>4. RestTyped'
      BY SpendTypes DEF RestTyped, CallsTyped, Leave, ghosts, locals
    <2>5. QED
      BY <2>1, <2>2, <2>3, <2>4
  <1>7. CASE CreateCard(c)
    <2> USE <1>0, <1>7 DEF CreateCard, Working, Steps
    <2>1. RemoteTyped'
      BY DEF RemoteTyped, BoardTyped, CallsTyped, Goto, remote, board
    <2>2. BoardTyped'
      BY CreateTypes
    <2>3. CallsTyped'
      BY CreateTypes
    <2>4. RestTyped'
      BY CreateTypes
    <2>5. QED
      BY <2>1, <2>2, <2>3, <2>4
  <1>8. CASE Attach(c)
    <2> USE <1>0, <1>8 DEF Attach, Working, Steps
    <2>1. RemoteTyped'
      BY DEF RemoteTyped, BoardTyped, CallsTyped, Goto, remote, board
    <2>2. BoardTyped'
      BY AttachTypes
    <2>3. CallsTyped'
      BY AttachTypes
    <2>4. RestTyped'
      BY SpendTypes DEF RestTyped, CallsTyped, Leave, ghosts, locals
    <2>5. QED
      BY <2>1, <2>2, <2>3, <2>4
  <1>9. CASE Imported(c)
    <2> USE <1>0, <1>9 DEF Imported, Working, Steps
    <2>1. RemoteTyped'
      BY DEF RemoteTyped, BoardTyped, CallsTyped, Goto, remote, board
    <2>2. BoardTyped'
      BY DEF BoardTyped, CallsTyped, Marks, board
    <2>3. CallsTyped'
      BY LeaveTypes DEF CallsTyped, RemoteTyped, BoardTyped, Goto, locals
    <2>4. RestTyped'
      BY SpendTypes DEF RestTyped, CallsTyped, Leave, ghosts, locals
    <2>5. QED
      BY <2>1, <2>2, <2>3, <2>4
  <1>10. CASE Open(c)
    <2> USE <1>0, <1>10 DEF Open, Working, Steps
    <2>1. RemoteTyped'
      BY DEF RemoteTyped, BoardTyped, CallsTyped, Goto, remote, board
    <2>2. BoardTyped'
      BY DEF BoardTyped, CallsTyped, Marks, board
    <2>3. CallsTyped'
      BY LeaveTypes DEF CallsTyped, RemoteTyped, BoardTyped, Goto, locals
    <2>4. RestTyped'
      BY SpendTypes DEF RestTyped, CallsTyped, Leave, ghosts, locals
    <2>5. QED
      BY <2>1, <2>2, <2>3, <2>4
  <1>11. CASE FindFolder(c)
    <2> USE <1>0, <1>11 DEF FindFolder, Working, Steps
    <2>1. RemoteTyped'
      BY DEF RemoteTyped, BoardTyped, CallsTyped, Goto, remote, board
    <2>2. BoardTyped'
      BY DEF BoardTyped, CallsTyped, Marks, board
    <2>3. CallsTyped'
      BY LeaveTypes DEF CallsTyped, RemoteTyped, BoardTyped, Goto, locals
    <2>4. RestTyped'
      BY SpendTypes DEF RestTyped, CallsTyped, Leave, ghosts, locals
    <2>5. QED
      BY <2>1, <2>2, <2>3, <2>4
  <1>12. CASE CreateFolder(c)
    <2> USE <1>0, <1>12 DEF CreateFolder, Working, Steps
    <2>1. RemoteTyped'
      BY FolderTypes
    <2>2. BoardTyped'
      BY DEF BoardTyped, CallsTyped, Marks, board
    <2>3. CallsTyped'
      BY LeaveTypes DEF CallsTyped, RemoteTyped, BoardTyped, Goto, locals
    <2>4. RestTyped'
      BY SpendTypes DEF RestTyped, CallsTyped, Leave, ghosts, locals
    <2>5. QED
      BY <2>1, <2>2, <2>3, <2>4
  <1>13. CASE ReadCard(c)
    <2> USE <1>0, <1>13 DEF ReadCard, Read, Working, Steps
    <2>1. RemoteTyped'
      BY DEF RemoteTyped, BoardTyped, CallsTyped, Goto, remote, board
    <2>2. BoardTyped'
      BY DEF BoardTyped, CallsTyped, Marks, board
    <2>3. CallsTyped'
      BY LeaveTypes DEF CallsTyped, RemoteTyped, BoardTyped, Goto, locals
    <2>4. RestTyped'
      BY SpendTypes DEF RestTyped, CallsTyped, Leave, ghosts, locals
    <2>5. QED
      BY <2>1, <2>2, <2>3, <2>4
  <1>14. CASE WriteCard(c)
    <2> USE <1>0, <1>14 DEF WriteCard, Working, Steps
    <2>1. RemoteTyped'
      BY DEF RemoteTyped, BoardTyped, CallsTyped, Goto, remote, board
    <2>2. BoardTyped'
      BY DEF BoardTyped, CallsTyped, Marks, board
    <2>3. CallsTyped'
      BY LeaveTypes DEF CallsTyped, RemoteTyped, BoardTyped, Goto, locals
    <2>4. RestTyped'
      BY SpendTypes DEF RestTyped, CallsTyped, Leave, ghosts, locals
    <2>5. QED
      BY <2>1, <2>2, <2>3, <2>4
  <1>15. CASE ReadStatus(c)
    <2> USE <1>0, <1>15 DEF ReadStatus, Read, Working, Steps
    <2>1. RemoteTyped'
      BY DEF RemoteTyped, BoardTyped, CallsTyped, Goto, remote, board
    <2>2. BoardTyped'
      BY DEF BoardTyped, CallsTyped, Marks, board
    <2>3. CallsTyped'
      BY LeaveTypes DEF CallsTyped, RemoteTyped, BoardTyped, Goto, locals
    <2>4. RestTyped'
      BY SpendTypes DEF RestTyped, CallsTyped, Leave, ghosts, locals
    <2>5. QED
      BY <2>1, <2>2, <2>3, <2>4
  <1>16. CASE WriteStatus(c)
    <2> USE <1>0, <1>16 DEF WriteStatus, Working, Steps
    <2>1. RemoteTyped'
      BY DEF RemoteTyped, BoardTyped, CallsTyped, Goto, remote, board
    <2>2. BoardTyped'
      BY DEF BoardTyped, CallsTyped, Marks, board
    <2>3. CallsTyped'
      BY LeaveTypes DEF CallsTyped, RemoteTyped, BoardTyped, Goto, locals
    <2>4. RestTyped'
      BY SpendTypes DEF RestTyped, CallsTyped, Leave, ghosts, locals
    <2>5. QED
      BY <2>1, <2>2, <2>3, <2>4
  <1>17. CASE ListArtifacts(c)
    <2> USE <1>0, <1>17 DEF ListArtifacts, Working, Steps
    <2>1. RemoteTyped'
      BY DEF RemoteTyped, BoardTyped, CallsTyped, Goto, remote, board
    <2>2. BoardTyped'
      BY DEF BoardTyped, CallsTyped, Marks, board
    <2>3. CallsTyped'
      BY LeaveTypes DEF CallsTyped, RemoteTyped, BoardTyped, Goto, locals
    <2>4. RestTyped'
      BY SpendTypes DEF RestTyped, CallsTyped, Leave, ghosts, locals
    <2>5. QED
      BY <2>1, <2>2, <2>3, <2>4
  <1>18. CASE Upload(c)
    <2> USE <1>0, <1>18 DEF Upload, Working, Steps
    <2>1. RemoteTyped'
      BY UploadTypes
    <2>2. BoardTyped'
      BY DEF BoardTyped, CallsTyped, Marks, board
    <2>3. CallsTyped'
      BY UploadTypes
    <2>4. RestTyped'
      BY SpendTypes DEF RestTyped, CallsTyped, Leave, ghosts, locals
    <2>5. QED
      BY <2>1, <2>2, <2>3, <2>4
  <1>19. CASE SetMirror(c)
    <2> USE <1>0, <1>19 DEF SetMirror, Working, Steps
    <2>1. RemoteTyped'
      BY DEF RemoteTyped, BoardTyped, CallsTyped, Goto, remote, board
    <2>2. BoardTyped'
      BY DEF BoardTyped, CallsTyped, Marks, board
    <2>3. CallsTyped'
      BY LeaveTypes DEF CallsTyped, RemoteTyped, BoardTyped, Goto, locals
    <2>4. RestTyped'
      BY SpendTypes DEF RestTyped, CallsTyped, Leave, ghosts, locals
    <2>5. QED
      BY <2>1, <2>2, <2>3, <2>4
  <1>20. CASE SetRetry(c)
    <2> USE <1>0, <1>20 DEF SetRetry, Working, Steps
    <2>1. RemoteTyped'
      BY DEF RemoteTyped, BoardTyped, CallsTyped, Goto, remote, board
    <2>2. BoardTyped'
      BY DEF BoardTyped, CallsTyped, Marks, board
    <2>3. CallsTyped'
      BY LeaveTypes DEF CallsTyped, RemoteTyped, BoardTyped, Goto, locals
    <2>4. RestTyped'
      BY SpendTypes DEF RestTyped, CallsTyped, Leave, ghosts, locals
    <2>5. QED
      BY <2>1, <2>2, <2>3, <2>4
  <1>21. CASE SyncInbox(c)
    <2> USE <1>0, <1>21 DEF SyncInbox, Working, Steps
    <2>1. RemoteTyped'
      BY DEF RemoteTyped, BoardTyped, CallsTyped, Goto, remote, board
    <2>2. BoardTyped'
      BY DEF BoardTyped, CallsTyped, Marks, board
    <2>3. CallsTyped'
      BY LeaveTypes DEF CallsTyped, RemoteTyped, BoardTyped, Goto, locals
    <2>4. RestTyped'
      BY SpendTypes DEF RestTyped, CallsTyped, Leave, ghosts, locals
    <2>5. QED
      BY <2>1, <2>2, <2>3, <2>4
  <1>22. CASE ItemFails(c)
    <2> USE <1>0, <1>22 DEF ItemFails, Working, Steps
    <2>1. RemoteTyped'
      BY DEF RemoteTyped, BoardTyped, CallsTyped, Goto, remote, board
    <2>2. BoardTyped'
      BY DEF BoardTyped, CallsTyped, Marks, board
    <2>3. CallsTyped'
      BY LeaveTypes DEF CallsTyped, RemoteTyped, BoardTyped, Goto, locals
    <2>4. RestTyped'
      BY SpendTypes DEF RestTyped, CallsTyped, Leave, ghosts, locals
    <2>5. QED
      BY <2>1, <2>2, <2>3, <2>4
  <1>23. CASE ProjectionFails(c)
    <2> USE <1>0, <1>23 DEF ProjectionFails, Working, Steps
    <2>1. RemoteTyped'
      BY DEF RemoteTyped, BoardTyped, CallsTyped, Goto, remote, board
    <2>2. BoardTyped'
      BY DEF BoardTyped, CallsTyped, Marks, board
    <2>3. CallsTyped'
      BY LeaveTypes DEF CallsTyped, RemoteTyped, BoardTyped, Goto, locals
    <2>4. RestTyped'
      BY SpendTypes DEF RestTyped, CallsTyped, Leave, ghosts, locals
    <2>5. QED
      BY <2>1, <2>2, <2>3, <2>4
  <1>24. CASE Kill(c)
    <2> USE <1>0, <1>24 DEF Kill, Working, Steps
    <2>1. RemoteTyped'
      BY DEF RemoteTyped, BoardTyped, CallsTyped, Goto, remote, board
    <2>2. BoardTyped'
      BY DEF BoardTyped, CallsTyped, Marks, board
    <2>3. CallsTyped'
      BY KillTypes
    <2>4. RestTyped'
      BY KillTypes
    <2>5. QED
      BY <2>1, <2>2, <2>3, <2>4
  <1>25. QED
    BY ChangeTypes, <1>1, <1>2, <1>3, <1>4, <1>5, <1>6, <1>7, <1>8, <1>9, <1>10, <1>11, <1>12,
       <1>13, <1>14, <1>15, <1>16, <1>17, <1>18, <1>19, <1>20, <1>21, <1>22, <1>23, <1>24 DEF Acts,
       Step

-----------------------------------------------------------------------------
(* Calls.                                                                  *)

\* A step of c leaves the locals of the others alone, and takes nothing back.
LEMMA Shapes ==
  ASSUME Typed, NEW c \in Caller, CallSound(c), Acts(c)
  PROVE  Aside(c) /\ Grows
  <1> USE DEF Typed, Aside, Still
  <1>a. /\ \A k \in Card : version[k] \in Nat
        /\ UNCHANGED <<version, rows>> => Grows
    BY CollabAssumption DEF BoardTyped, Grows
  <1>1. CASE ListInbox(c)
    BY <1>a, <1>1 DEF ListInbox, Leave, Goto, CallsTyped, board, locals
  <1>2. CASE LoadRequest(c)
    BY <1>a, <1>2 DEF LoadRequest, Leave, Goto, CallsTyped, board, locals
  <1>3. CASE SyncDone(c)
    BY <1>a, <1>3 DEF SyncDone, Leave, Goto, CallsTyped, board, locals
  <1>4. CASE Lookup(c)
    BY <1>a, <1>4 DEF Lookup, Leave, Goto, CallsTyped, board, locals
  <1>5. CASE NoteConflict(c)
    BY <1>a, <1>5 DEF NoteConflict, Leave, Goto, CallsTyped, board, locals
  <1>6. CASE MarkConflict(c)
    BY <1>a, <1>6 DEF MarkConflict, Leave, Goto, CallsTyped, board, locals
  <1>7. CASE CreateCard(c)
    <2>1. Aside(c)
      BY <1>7 DEF CreateCard, Leave, Take, Goto, CallsTyped
    <2>2. Grows
      BY <1>a, <1>7 DEF CreateCard, Grows, BoardTyped, Exists
    <2>3. QED
      BY <2>1, <2>2
  <1>8. CASE Attach(c)
    <2>1. Aside(c)
      BY <1>8 DEF Attach, CallsTyped
    <2>2. Grows
      BY <1>a, <1>8 DEF Attach, Grows, BoardTyped
    <2>3. QED
      BY <2>1, <2>2
  <1>9. CASE Imported(c)
    BY <1>a, <1>9 DEF Imported, Leave, Goto, CallsTyped, board, locals
  <1>10. CASE Open(c)
    BY <1>a, <1>10 DEF Open, Leave, Goto, CallsTyped, board, locals
  <1>11. CASE FindFolder(c)
    BY <1>a, <1>11 DEF FindFolder, Leave, Goto, CallsTyped, board, locals
  <1>12. CASE CreateFolder(c)
    BY <1>a, <1>12 DEF CreateFolder, Leave, Goto, CallsTyped, board, locals
  <1>13. CASE ReadCard(c)
    BY <1>a, <1>13 DEF ReadCard, Read, Leave, Goto, CallsTyped, board, locals
  <1>14. CASE WriteCard(c)
    BY <1>a, <1>14 DEF WriteCard, Leave, Goto, CallsTyped, board, locals
  <1>15. CASE ReadStatus(c)
    BY <1>a, <1>15 DEF ReadStatus, Read, Leave, Goto, CallsTyped, board, locals
  <1>16. CASE WriteStatus(c)
    BY <1>a, <1>16 DEF WriteStatus, Leave, Goto, CallsTyped, board, locals
  <1>17. CASE ListArtifacts(c)
    BY <1>a, <1>17 DEF ListArtifacts, Leave, Goto, CallsTyped, board, locals
  <1>18. CASE Upload(c)
    BY <1>a, <1>18 DEF Upload, Leave, Goto, CallsTyped, board, locals
  <1>19. CASE SetMirror(c)
    BY <1>a, <1>19 DEF SetMirror, Leave, Goto, CallsTyped, board, locals
  <1>20. CASE SetRetry(c)
    BY <1>a, <1>20 DEF SetRetry, Leave, Goto, CallsTyped, board, locals
  <1>21. CASE SyncInbox(c)
    BY <1>a, <1>21 DEF SyncInbox, Leave, Goto, CallsTyped, board, locals
  <1>22. CASE ItemFails(c)
    BY <1>a, <1>22 DEF ItemFails, Leave, Goto, CallsTyped, board, locals
  <1>23. CASE ProjectionFails(c)
    BY <1>a, <1>23 DEF ProjectionFails, Leave, Goto, CallsTyped, board, locals
  <1>24. CASE Kill(c)
    BY <1>a, <1>24 DEF Kill, Leave, Goto, CallsTyped, board, locals
  <1>25. ASSUME NEW k \in Card, Change(c, k)
        PROVE  Aside(c) /\ Grows
    <2>1. Aside(c)
      BY <1>25 DEF Change, Take, Goto, CallsTyped
    <2>2. Grows
      BY <1>a, <1>25 DEF Change, Grows, BoardTyped
    <2>3. QED
      BY <2>1, <2>2
  <1>26. QED
    BY <1>1, <1>2, <1>3, <1>4, <1>5, <1>6, <1>7, <1>8, <1>9, <1>10, <1>11, <1>12, <1>13, <1>14,
       <1>15, <1>16, <1>17, <1>18, <1>19, <1>20, <1>21, <1>22, <1>23, <1>24, <1>25 DEF Acts, Step

LEMMA AtMost ==
  ASSUME NEW l \in Nat, NEW m \in Nat, NEW n \in Nat, l <= m, m <= n
  PROVE  l <= n
  OBVIOUS

LEMMA StillSound ==
  ASSUME Typed, Typed', Grows, NEW d \in Caller, Still(d), CallSound(d)
  PROVE  CallSound(d)'
  <1>1. CASE card[d] = None
    BY <1>1 DEF CallSound, Still, Working, Steps
  <1>2. CASE card[d] # None
    <2>1. card[d] \in Card
      BY <1>2 DEF Typed, CallsTyped
    <2>2. /\ version[card[d]] \in Nat /\ version'[card[d]] \in Nat
          /\ version[card[d]] <= version'[card[d]] /\ text[d] \in Nat
      BY <2>1, CollabAssumption DEF Typed, BoardTyped, CallsTyped, Grows
    <2>3. rows[card[d]] \subseteq rows'[card[d]] /\ rows'[card[d]] \subseteq Attachment
      BY <2>1 DEF Typed, BoardTyped, Grows
    <2>4. card'[d] = card[d] /\ text'[d] = text[d] /\ left'[d] = left[d] /\ pc'[d] = pc[d]
          /\ folder'[d] = folder[d] /\ left[d] \subseteq Attachment
      BY DEF Still, Typed, CallsTyped
    <2>5. Exists(card[d]) => Exists(card[d])'
      BY <2>2, <2>4 DEF Exists
    <2>6. /\ pc[d] = "attach" => rows'[card[d]] \cup left[d] = Attachment
          /\ pc[d] = "upload" => left[d] \subseteq rows'[card[d]] \cap Allowed
      BY <2>3, <2>4 DEF CallSound
    <2>7. /\ Exists(card[d])'
          /\ text[d] <= version[card[d]]
      BY <1>2, <2>2, <2>5 DEF CallSound
    <2>8. text[d] <= version'[card[d]]
      BY <2>2, <2>7, AtMost
    <2>9. QED
      BY <1>2, <2>4, <2>6, <2>7, <2>8 DEF CallSound, Exists
  <1>3. QED
    BY <1>1, <1>2

LEMMA Same ==
  ASSUME NEW n \in Nat, NEW m, m = n
  PROVE  m <= n
  OBVIOUS

\* A call that has taken up a Card which exists.
LEMMA TakenUp ==
  ASSUME NEW c \in Caller, pc'[c] \in {"conflict", "attach", "open"},
         card'[c] # None, text'[c] = 0,
         version'[card'[c]] \in Nat, version'[card'[c]] > 0,
         pc'[c] = "attach" => rows'[card'[c]] \cup left'[c] = Attachment
  PROVE  CallSound(c)'
  <1>1. text'[c] <= version'[card'[c]] /\ Exists(card[c])'
    BY DEF Exists
  <1>2. pc'[c] \in Working
    BY DEF Working, Steps
  <1>3. QED
    BY <1>1, <1>2 DEF CallSound

\* A call that has read its Card.
LEMMA HasRead ==
  ASSUME NEW c \in Caller, pc'[c] \in {"write card", "write status"}, card'[c] # None,
         text'[c] = version'[card'[c]], version'[card'[c]] \in Nat, version'[card'[c]] > 0
  PROVE  CallSound(c)'
  <1>1. text'[c] <= version'[card'[c]] /\ text'[c] > 0 /\ Exists(card[c])'
    BY Same DEF Exists
  <1>2. pc'[c] \in Working
    BY DEF Working, Steps
  <1>3. QED
    BY <1>1, <1>2 DEF CallSound

LEMMA LeaveSound ==
  ASSUME CallsTyped, NEW c \in Caller, Leave(c)
  PROVE  CallSound(c)'
  BY DEF Leave, Goto, CallSound, CallsTyped, Working, Steps

LEMMA OwnSound ==
  ASSUME Typed, NEW c \in Caller, CallSound(c), Acts(c)
  PROVE  CallSound(c)'
  <1> USE DEF Typed
  <1>a. /\ pc[c] \in Working => card[c] \in Card
        /\ \A k \in Card : version[k] \in Nat
        /\ text[c] \in Nat
    <2>1. pc[c] \in Working => card[c] \in Card
      BY DEF CallSound, CallsTyped
    <2>2. \A k \in Card : version[k] \in Nat
      BY CollabAssumption DEF BoardTyped
    <2>3. text[c] \in Nat
      BY CollabAssumption DEF CallsTyped
    <2>4. QED
      BY <2>1, <2>2, <2>3
  <1>1. CASE ListInbox(c)
    BY <1>a, <1>1 DEF ListInbox, Goto, CallSound, CallsTyped, BoardTyped, Working, Steps, Exists,
       board, locals
  <1>2. CASE LoadRequest(c)
    <2>1. PICK f \in todo[c] : folder' = [folder EXCEPT ![c] = f]
      BY <1>2 DEF LoadRequest
    <2>2. /\ pc'[c] = "lookup" /\ folder'[c] # None /\ pc[c] \notin Working
          /\ UNCHANGED <<card, text, version>>
      BY <1>2, <2>1, CollabAssumption DEF LoadRequest, Goto, CallsTyped, Working, board
    <2>3. QED
      BY <2>2 DEF CallSound, Working, Exists
  <1>3. CASE SyncDone(c)
    BY <1>a, <1>3 DEF SyncDone, Goto, CallSound, CallsTyped, BoardTyped, Working, Steps, Exists,
       board, locals
  <1>4. CASE Lookup(c)
    <2>1. CASE UNCHANGED locals /\ Goto(c, "create")
      BY <1>a, <1>4, <2>1 DEF Lookup, Goto, locals, board, CallSound, CallsTyped, Working, Steps,
         Exists
    <2>2. CASE Leave(c)
      BY <2>2, LeaveSound
    <2>3. ASSUME NEW k \in ByRemote(folder[c]), card' = [card EXCEPT ![c] = k],
                 Goto(c, "conflict"), UNCHANGED <<text, left, version, rows>>
          PROVE  CallSound(c)'
      <3>1. /\ pc[c] = "lookup" /\ pc'[c] = "conflict" /\ card'[c] = k /\ text'[c] = 0
            /\ version'[k] > 0 /\ version'[k] \in Nat /\ k # None
        BY <1>a, <1>4, <2>3, CollabAssumption
        DEF Lookup, Goto, ByRemote, CallSound, CallsTyped, Working, Exists
      <3>2. QED
        BY <3>1 DEF CallSound, Working, Steps, Exists
    <2>4. QED
      BY <1>4, <2>1, <2>2, <2>3 DEF Lookup, board
  <1>5. CASE NoteConflict(c)
    BY <1>a, <1>5 DEF NoteConflict, Goto, CallSound, CallsTyped, BoardTyped, Working, Steps, Exists,
       board, locals
  <1>6. CASE MarkConflict(c)
    BY <1>6, LeaveSound DEF MarkConflict
  <1>7. CASE CreateCard(c)
    <2>1. CASE Leave(c)
      BY <2>1, LeaveSound
    <2>2. ASSUME NEW k \in Card, version' = [version EXCEPT ![k] = 1], Take(c, k),
                 left' = [left EXCEPT ![c] = Attachment], Goto(c, "attach"),
                 UNCHANGED <<text, rows, folder>>
          PROVE  CallSound(c)'
      <3>1. /\ pc'[c] = "attach" /\ card'[c] = k /\ text'[c] = 0 /\ left'[c] = Attachment
            /\ version'[k] = 1 /\ rows'[k] \subseteq Attachment /\ k # None
        BY <1>7, <2>2, CollabAssumption
        DEF CreateCard, Goto, Take, CallSound, CallsTyped, BoardTyped, Working
      <3>2. version'[k] \in Nat /\ version'[k] > 0 /\ rows'[k] \cup left'[c] = Attachment
        BY <3>1
      <3>3. QED
        BY <3>1, <3>2, TakenUp
    <2>3. QED
      BY <1>7, <2>1, <2>2 DEF CreateCard
  <1>8. CASE Attach(c)
    <2>1. PICK b \in left[c] : /\ left' = [left EXCEPT ![c] = @ \ {b}]
                               /\ rows' = [rows EXCEPT ![card[c]] = @ \cup {b}]
      BY <1>8 DEF Attach
    <2>2. /\ pc[c] = "attach" /\ UNCHANGED <<pc, card, text, folder, version>>
          /\ card[c] \in Card /\ left[c] \subseteq Attachment
      BY <1>a, <1>8 DEF Attach, Working, Steps, CallsTyped
    <2>3. left'[c] = left[c] \ {b} /\ rows'[card[c]] = rows[card[c]] \cup {b}
      BY <2>1, <2>2 DEF CallsTyped, BoardTyped
    <2>4. rows'[card[c]] \cup left'[c] = Attachment
      BY <2>1, <2>2, <2>3 DEF CallSound
    <2>5. QED
      BY <2>2, <2>4 DEF CallSound, Working, Exists
  <1>9. CASE Imported(c)
    BY <1>a, <1>9 DEF Imported, Goto, CallSound, CallsTyped, BoardTyped, Working, Steps, Exists,
       board, locals
  <1>10. CASE Open(c)
    BY <1>a, <1>10 DEF Open, Goto, CallSound, CallsTyped, BoardTyped, Working, Steps, Exists, board,
       locals
  <1>11. CASE FindFolder(c)
    BY <1>a, <1>11 DEF FindFolder, Goto, CallSound, CallsTyped, BoardTyped, Working, Steps, Exists,
       board, locals
  <1>12. CASE CreateFolder(c)
    BY <1>a, <1>12 DEF CreateFolder, Goto, CallSound, CallsTyped, BoardTyped, Working, Steps,
       Exists, board, locals
  <1>13. CASE ReadCard(c)
    <2>1. /\ pc'[c] = "write card" /\ text'[c] = version[card[c]] /\ card[c] # None
          /\ UNCHANGED <<card, version>> /\ version[card[c]] > 0 /\ version[card[c]] \in Nat
      BY <1>a, <1>13 DEF ReadCard, Read, Goto, CallSound, CallsTyped, Working, Steps, Exists, board
    <2>2. QED
      BY <2>1, HasRead
  <1>14. CASE WriteCard(c)
    BY <1>a, <1>14 DEF WriteCard, Goto, CallSound, CallsTyped, BoardTyped, Working, Steps, Exists,
       board, locals
  <1>15. CASE ReadStatus(c)
    <2>1. /\ pc'[c] = "write status" /\ text'[c] = version[card[c]] /\ card[c] # None
          /\ UNCHANGED <<card, version>> /\ version[card[c]] > 0 /\ version[card[c]] \in Nat
      BY <1>a, <1>15 DEF ReadStatus, Read, Goto, CallSound, CallsTyped, Working, Steps, Exists,
         board
    <2>2. QED
      BY <2>1, HasRead
  <1>16. CASE WriteStatus(c)
    BY <1>a, <1>16 DEF WriteStatus, Goto, CallSound, CallsTyped, BoardTyped, Working, Steps, Exists,
       board, locals
  <1>17. CASE ListArtifacts(c)
    BY <1>a, <1>17 DEF ListArtifacts, Goto, CallSound, CallsTyped, BoardTyped, Working, Steps,
       Exists, board, locals
  <1>18. CASE Upload(c)
    <2>1. PICK b \in left[c] : left' = [left EXCEPT ![c] = @ \ {b}]
      BY <1>18 DEF Upload
    <2>2. pc[c] = "upload" /\ UNCHANGED <<pc, card, text, folder, version, rows>>
      BY <1>18 DEF Upload, board
    <2>3. left'[c] = left[c] \ {b}
      BY <2>1 DEF CallsTyped
    <2>4. QED
      BY <2>2, <2>3 DEF CallSound, Working, Exists
  <1>19. CASE SetMirror(c)
    BY <1>19, LeaveSound DEF SetMirror
  <1>20. CASE SetRetry(c)
    BY <1>20, LeaveSound DEF SetRetry
  <1>21. CASE SyncInbox(c)
    <2>1. /\ pc'[c] = "list" /\ pc[c] = "idle" /\ UNCHANGED <<card, text, version>>
      BY <1>21 DEF SyncInbox, Idle, Goto, CallsTyped, board
    <2>2. QED
      BY <2>1 DEF CallSound, Working, Steps, Exists
  <1>22. CASE ItemFails(c)
    BY <1>22, LeaveSound DEF ItemFails
  <1>23. CASE ProjectionFails(c)
    BY <1>a, <1>23 DEF ProjectionFails, Goto, CallSound, CallsTyped, BoardTyped, Working, Steps,
       Exists, board, locals
  <1>24. CASE Kill(c)
    BY <1>a, <1>24 DEF Kill, Goto, CallSound, CallsTyped, BoardTyped, Working, Steps, Exists, board,
       locals
  <1>25. ASSUME NEW k \in Card, Change(c, k)
        PROVE  CallSound(c)'
    <2>1. /\ pc'[c] = "open" /\ card'[c] = k /\ text'[c] = 0
          /\ version'[k] = version[k] + 1 /\ k # None
      BY <1>25, CollabAssumption
      DEF Change, Goto, Take, Idle, CallSound, CallsTyped, BoardTyped, Working
    <2>2. QED
      <3>1. version'[k] > 0
        BY <1>25, <1>a, <2>1 DEF Change, Exists
      <3>2. QED
        BY <1>a, <2>1, <3>1, TakenUp
  <1>26. QED
    BY <1>1, <1>2, <1>3, <1>4, <1>5, <1>6, <1>7, <1>8, <1>9, <1>10, <1>11, <1>12, <1>13, <1>14,
       <1>15, <1>16, <1>17, <1>18, <1>19, <1>20, <1>21, <1>22, <1>23, <1>24, <1>25 DEF Acts, Step

LEMMA CallsStep ==
  ASSUME Typed, CallsSound, NEW c \in Caller, Acts(c)
  PROVE  CallsSound'
  <1>1. CallSound(c) /\ CallSound(c)'
    BY OwnSound DEF CallsSound
  <1>2. Typed' /\ Aside(c) /\ Grows
    BY <1>1, TypeStep, Shapes
  <1>3. ASSUME NEW d \in Caller \ {c}
        PROVE  CallSound(d)'
    BY <1>2, StillSound DEF CallsSound, Aside
  <1>4. QED
    BY <1>1, <1>3 DEF CallsSound

-----------------------------------------------------------------------------
(* The board and the Drive.                                                *)

\* What a step does to Cards, attachments and the Drive.
Creates(c) ==
  /\ pc[c] = "create" /\ pc'[c] = "attach" /\ ByRemote(folder[c]) = {}
  /\ \E k \in Card : /\ ~Exists(k) /\ card'[c] = k
                     /\ version' = [version EXCEPT ![k] = 1]
                     /\ origin' = [origin EXCEPT ![k] = folder[c]]
  /\ UNCHANGED <<rows, cardFile, uploads, broken>>
Changes ==
  /\ \E k \in Card : Exists(k) /\ version' = [version EXCEPT ![k] = @ + 1]
  /\ UNCHANGED <<origin, rows, cardFile, uploads>>
Attaches(c) ==
  /\ card[c] \in Card
  /\ \E a \in Attachment : rows' = [rows EXCEPT ![card[c]] = @ \cup {a}]
  /\ UNCHANGED <<version, origin, cardFile, uploads>>
Shows(c) ==
  /\ card[c] \in Card
  /\ text[c] > 0 /\ cardFile' = [cardFile EXCEPT ![card[c]] = text[c]]
  /\ UNCHANGED <<version, origin, rows, uploads>>
Copies(c) ==
  /\ card[c] \in Card
  /\ \E a \in rows[card[c]] : uploads' = [uploads EXCEPT ![card[c]] = @ \cup {a}]
  /\ UNCHANGED <<version, origin, rows, cardFile>>
Nothing == UNCHANGED <<version, origin, rows, cardFile, uploads>>

LEMMA CreateEffect ==
  ASSUME Typed, NEW c \in Caller, CreateCard(c)
  PROVE  \/ Creates(c)
         \/ pc[c] = "create" /\ Leave(c) /\ Nothing /\ UNCHANGED broken
  <1>1. CASE ByRemote(folder[c]) # {}
    BY <1>1 DEF CreateCard, Nothing, remote
  <1>2. CASE ByRemote(folder[c]) = {}
    <2>1. PICK k \in Card :
            /\ ~Exists(k)
            /\ version' = [version EXCEPT ![k] = 1]
            /\ origin' = [origin EXCEPT ![k] = folder[c]]
            /\ Take(c, k)
      BY <1>2 DEF CreateCard
    <2>2. pc[c] = "create" /\ pc'[c] = "attach" /\ card'[c] = k
      BY <1>2, <2>1 DEF CreateCard, Take, Goto, Typed, CallsTyped
    <2>3. UNCHANGED <<rows, cardFile, uploads, broken>>
      BY DEF CreateCard, remote
    <2>4. QED
      BY <1>2, <2>1, <2>2, <2>3 DEF Creates
  <1>3. QED
    BY <1>1, <1>2

LEMMA Effects ==
  ASSUME Typed, NEW c \in Caller, CallSound(c), Acts(c)
  PROVE  Creates(c) \/ Changes \/ Attaches(c) \/ Shows(c) \/ Copies(c) \/ Nothing
  <1>a. pc[c] \in Working => card[c] \in Card
    BY DEF CallSound, Typed, CallsTyped
  <1>1. CASE ListInbox(c)
    BY <1>1 DEF ListInbox, Nothing, remote, board
  <1>2. CASE LoadRequest(c)
    BY <1>2 DEF LoadRequest, Nothing, remote, board
  <1>3. CASE SyncDone(c)
    BY <1>3 DEF SyncDone, Nothing, remote, board
  <1>4. CASE Lookup(c)
    BY <1>4 DEF Lookup, Nothing, remote, board
  <1>5. CASE NoteConflict(c)
    BY <1>5 DEF NoteConflict, Nothing, remote, board
  <1>6. CASE MarkConflict(c)
    BY <1>6 DEF MarkConflict, Nothing, remote, board
  <1>7. CASE CreateCard(c)
    BY <1>7, CreateEffect
  <1>8. CASE Attach(c)
    BY <1>a, <1>8 DEF Attach, Attaches, Working, Steps, remote, Typed, CallsTyped
  <1>9. CASE Imported(c)
    BY <1>9 DEF Imported, Nothing, remote, board
  <1>10. CASE Open(c)
    BY <1>10 DEF Open, Nothing, remote, board
  <1>11. CASE FindFolder(c)
    BY <1>11 DEF FindFolder, Nothing, remote, board
  <1>12. CASE CreateFolder(c)
    BY <1>12 DEF CreateFolder, Nothing, remote, board
  <1>13. CASE ReadCard(c)
    BY <1>13 DEF ReadCard, Read, Nothing, remote, board
  <1>14. CASE WriteCard(c)
    BY <1>a, <1>14 DEF WriteCard, Shows, Working, Steps, CallSound, board
  <1>15. CASE ReadStatus(c)
    BY <1>15 DEF ReadStatus, Read, Nothing, remote, board
  <1>16. CASE WriteStatus(c)
    BY <1>16 DEF WriteStatus, Nothing, remote, board
  <1>17. CASE ListArtifacts(c)
    BY <1>17 DEF ListArtifacts, Nothing, remote, board
  <1>18. CASE Upload(c)
    BY <1>a, <1>18 DEF Upload, Copies, Working, Steps, CallSound, board
  <1>19. CASE SetMirror(c)
    BY <1>19 DEF SetMirror, Nothing, remote, board
  <1>20. CASE SetRetry(c)
    BY <1>20 DEF SetRetry, Nothing, remote, board
  <1>21. CASE SyncInbox(c)
    BY <1>21 DEF SyncInbox, Nothing, remote, board
  <1>22. CASE ItemFails(c)
    BY <1>22 DEF ItemFails, Nothing, remote, board
  <1>23. CASE ProjectionFails(c)
    BY <1>23 DEF ProjectionFails, Nothing, remote, board
  <1>24. CASE Kill(c)
    BY <1>24 DEF Kill, Nothing, remote, board
  <1>25. ASSUME NEW k \in Card, Change(c, k)
        PROVE  Changes
    BY <1>25 DEF Change, Changes, remote
  <1>26. QED
    BY <1>1, <1>2, <1>3, <1>4, <1>5, <1>6, <1>7, <1>8, <1>9, <1>10, <1>11, <1>12, <1>13, <1>14,
       <1>15, <1>16, <1>17, <1>18, <1>19, <1>20, <1>21, <1>22, <1>23, <1>24, <1>25 DEF Acts, Step

LEMMA DistinctStep ==
  ASSUME Typed, CallsSound, Distinct, Behind, NEW c \in Caller, Acts(c)
  PROVE  Distinct'
  <1>1. CASE UNCHANGED origin
    BY <1>1 DEF Distinct
  <1>2. CASE Creates(c)
    <2>1. PICK k \in Card : ~Exists(k) /\ origin' = [origin EXCEPT ![k] = folder[c]]
      BY <1>2 DEF Creates
    <2>2. \A j \in Card : j # k => origin'[j] = origin[j]
      BY <2>1 DEF Typed, BoardTyped
    <2>3. \A j \in Card : j # k /\ origin[j] # None => origin[j] # folder[c]
      BY <1>2 DEF Creates, ByRemote, Behind
    <2>4. origin'[k] = folder[c]
      BY <2>1 DEF Typed, BoardTyped
    <2>5. QED
      BY <2>2, <2>3, <2>4 DEF Distinct
  <1>3. QED
    BY <1>1, <1>2, Effects DEF CallsSound, Changes, Attaches, Shows, Copies, Nothing

LEMMA BehindStep ==
  ASSUME Typed, CallsSound, Behind, NEW c \in Caller, Acts(c)
  PROVE  Behind'
  <1>a. CallSound(c)
    BY DEF CallsSound
  <1>b. \A k \in Card : version[k] \in Nat /\ cardFile[k] \in Nat
    BY CollabAssumption DEF Typed, BoardTyped, RemoteTyped
  <1>1. CASE Nothing
    BY <1>1 DEF Nothing, Behind, Exists
  <1>2. CASE Creates(c)
    <2>1. PICK k \in Card : /\ ~Exists(k) /\ version' = [version EXCEPT ![k] = 1]
                           /\ origin' = [origin EXCEPT ![k] = folder[c]]
      BY <1>2 DEF Creates
    <2>2. \A j \in Card : j # k => version'[j] = version[j] /\ origin'[j] = origin[j]
      BY <2>1 DEF Typed, BoardTyped
    <2>3. version'[k] = 1 /\ version[k] = 0
      BY <1>b, <2>1 DEF Typed, BoardTyped, Exists
    <2>4. UNCHANGED <<rows, cardFile, uploads>>
      BY <1>2 DEF Creates
    <2>5. \A j \in Card : cardFile'[j] <= version'[j]
      BY <1>b, <2>2, <2>3, <2>4 DEF Behind
    <2>6. \A j \in Card : ~Exists(j)' => origin'[j] = None
      BY <2>2, <2>3 DEF Behind, Exists
    <2>7. QED
      BY <2>4, <2>5, <2>6 DEF Behind
  <1>3. CASE Changes
    <2>1. PICK k \in Card : Exists(k) /\ version' = [version EXCEPT ![k] = @ + 1]
      BY <1>3 DEF Changes
    <2>2. \A j \in Card : version'[j] = IF j = k THEN version[j] + 1 ELSE version[j]
      BY <2>1 DEF Typed, BoardTyped
    <2>3. UNCHANGED <<origin, rows, cardFile, uploads>>
      BY <1>3 DEF Changes
    <2>4. \A j \in Card : cardFile[j] <= version'[j] /\ (Exists(j) => version'[j] > 0)
      BY <1>b, <2>2 DEF Behind, Exists
    <2>5. QED
      BY <2>3, <2>4 DEF Behind, Exists
  <1>4. CASE Attaches(c)
    <2>1. \A k \in Card : rows[k] \subseteq rows'[k]
      BY <1>4 DEF Attaches, Typed, BoardTyped
    <2>2. QED
      BY <1>4, <2>1 DEF Attaches, Behind, Exists
  <1>5. CASE Shows(c)
    <2>1. \A k \in Card : cardFile'[k] <= version[k]
      BY <1>a, <1>5, CollabAssumption DEF Shows, CallSound, Behind, Typed, RemoteTyped
    <2>2. QED
      BY <1>5, <2>1 DEF Shows, Behind, Exists
  <1>6. CASE Copies(c)
    <2>1. \A k \in Card : uploads'[k] \subseteq rows[k]
      BY <1>6 DEF Copies, Behind, Typed, RemoteTyped
    <2>2. QED
      BY <1>6, <2>1 DEF Copies, Behind, Exists
  <1>7. QED
    BY <1>a, <1>1, <1>2, <1>3, <1>4, <1>5, <1>6, Effects

-----------------------------------------------------------------------------
(* Imports.                                                                *)

\* A call gets to attachments by creating a Card only, and past them when all
\* are there or the import is broken.
Attending(c) ==
  /\ pc'[c] = "attach" => Creates(c) \/ (pc[c] = "attach" /\ card'[c] = card[c])
  /\ pc[c] = "attach" /\ pc'[c] # "attach" => left[c] = {} \/ card[c] \in broken'
  /\ broken \subseteq broken'
  /\ UNCHANGED origin \/ Creates(c)

LEMMA Attendance ==
  ASSUME Typed, NEW c \in Caller, CallSound(c), Acts(c)
  PROVE  Attending(c)
  <1> USE DEF Typed, CallsTyped
  <1>1. CASE ListInbox(c)
    BY <1>1 DEF ListInbox, Attending, Leave, Goto, Idle, board, locals, ghosts
  <1>2. CASE LoadRequest(c)
    BY <1>2 DEF LoadRequest, Attending, Leave, Goto, Idle, board, locals, ghosts
  <1>3. CASE SyncDone(c)
    BY <1>3 DEF SyncDone, Attending, Leave, Goto, Idle, board, locals, ghosts
  <1>4. CASE Lookup(c)
    BY <1>4 DEF Lookup, Attending, Leave, Goto, Idle, board, locals, ghosts
  <1>5. CASE NoteConflict(c)
    BY <1>5 DEF NoteConflict, Attending, Leave, Goto, Idle, board, locals, ghosts
  <1>6. CASE MarkConflict(c)
    BY <1>6 DEF MarkConflict, Attending, Leave, Goto, Idle, board, locals, ghosts
  <1>7. CASE CreateCard(c)
    <2>1. CASE pc[c] = "create" /\ Leave(c) /\ Nothing /\ UNCHANGED broken
      BY <2>1 DEF Leave, Goto, Nothing, Attending
    <2>2. CASE Creates(c)
      BY <2>2 DEF Creates, Attending
    <2>3. QED
      BY <1>7, <2>1, <2>2, CreateEffect
  <1>8. CASE Attach(c)
    BY <1>8 DEF Attach, Attending, Leave, Goto, Idle, board, locals, ghosts
  <1>9. CASE Imported(c)
    BY <1>9 DEF Imported, Attending, Leave, Goto, Idle, board, locals, ghosts
  <1>10. CASE Open(c)
    BY <1>10 DEF Open, Attending, Leave, Goto, Idle, board, locals, ghosts
  <1>11. CASE FindFolder(c)
    BY <1>11 DEF FindFolder, Attending, Leave, Goto, Idle, board, locals, ghosts
  <1>12. CASE CreateFolder(c)
    BY <1>12 DEF CreateFolder, Attending, Leave, Goto, Idle, board, locals, ghosts
  <1>13. CASE ReadCard(c)
    BY <1>13 DEF ReadCard, Read, Attending, Leave, Goto, Idle, board, locals, ghosts
  <1>14. CASE WriteCard(c)
    BY <1>14 DEF WriteCard, Attending, Leave, Goto, Idle, board, locals, ghosts
  <1>15. CASE ReadStatus(c)
    BY <1>15 DEF ReadStatus, Read, Attending, Leave, Goto, Idle, board, locals, ghosts
  <1>16. CASE WriteStatus(c)
    BY <1>16 DEF WriteStatus, Attending, Leave, Goto, Idle, board, locals, ghosts
  <1>17. CASE ListArtifacts(c)
    BY <1>17 DEF ListArtifacts, Attending, Leave, Goto, Idle, board, locals, ghosts
  <1>18. CASE Upload(c)
    BY <1>18 DEF Upload, Attending, Leave, Goto, Idle, board, locals, ghosts
  <1>19. CASE SetMirror(c)
    BY <1>19 DEF SetMirror, Attending, Leave, Goto, Idle, board, locals, ghosts
  <1>20. CASE SetRetry(c)
    BY <1>20 DEF SetRetry, Attending, Leave, Goto, Idle, board, locals, ghosts
  <1>21. CASE SyncInbox(c)
    BY <1>21 DEF SyncInbox, Attending, Leave, Goto, Idle, board, locals, ghosts
  <1>22. CASE ItemFails(c)
    BY <1>22 DEF ItemFails, Attending, Leave, Goto, Idle, board, locals, ghosts
  <1>23. CASE ProjectionFails(c)
    BY <1>23 DEF ProjectionFails, Attending, Leave, Goto, Idle, board, locals, ghosts
  <1>24. CASE Kill(c)
    BY <1>24 DEF Kill, Attending, Leave, Goto, Idle, board, locals, ghosts
  <1>25. ASSUME NEW k \in Card, Change(c, k)
        PROVE  Attending(c)
    BY <1>25 DEF Change, Attending, Goto, Idle
  <1>26. QED
    BY <1>1, <1>2, <1>3, <1>4, <1>5, <1>6, <1>7, <1>8, <1>9, <1>10, <1>11, <1>12, <1>13, <1>14,
       <1>15, <1>16, <1>17, <1>18, <1>19, <1>20, <1>21, <1>22, <1>23, <1>24, <1>25 DEF Acts, Step

LEMMA ImporterStep ==
  ASSUME Typed, CallsSound, OneImporter, NEW c \in Caller, Acts(c)
  PROVE  OneImporter'
  <1>1. Aside(c) /\ Attending(c)
    BY Shapes, Attendance DEF CallsSound
  <1>2. ASSUME NEW d \in Caller \ {c}, pc'[c] = "attach", pc'[d] = "attach", card'[c] = card'[d]
        PROVE  FALSE
    <2>1. pc[d] = "attach" /\ card'[d] = card[d]
      BY <1>1, <1>2 DEF Aside, Still
    <2>2. Exists(card[d])
      BY <2>1 DEF CallsSound, CallSound, Working, Steps
    <2>3. CASE Creates(c)
      BY <1>2, <2>1, <2>2, <2>3 DEF Creates
    <2>4. CASE pc[c] = "attach" /\ card'[c] = card[c]
      BY <1>2, <2>1, <2>4 DEF OneImporter
    <2>5. QED
      BY <1>1, <1>2, <2>3, <2>4 DEF Attending
  <1>3. ASSUME NEW d \in Caller \ {c}, NEW e \in Caller \ {c},
               pc'[d] = "attach", pc'[e] = "attach", card'[d] = card'[e]
        PROVE  d = e
    BY <1>1, <1>3 DEF Aside, Still, OneImporter
  <1>4. QED
    BY <1>2, <1>3 DEF OneImporter

LEMMA ImportStep ==
  ASSUME Typed, CallsSound, OneImporter, ImportsAreWhole, NEW c \in Caller, Acts(c)
  PROVE  ImportsAreWhole'
  <1>1. Aside(c) /\ Grows /\ Attending(c) /\ Typed'
    BY Shapes, Attendance, TypeStep DEF CallsSound
  <1>2. SUFFICES ASSUME NEW k \in Card, k \notin broken', origin'[k] # None,
                        ~\E d \in Caller : card'[d] = k /\ pc'[d] = "attach"
                 PROVE  rows'[k] = Attachment
    BY DEF ImportsAreWhole
  <1>3. rows[k] \subseteq rows'[k] /\ rows'[k] \subseteq Attachment /\ k \notin broken
    BY <1>1, <1>2 DEF Grows, Typed, BoardTyped, Attending
  <1>4. origin[k] # None
    <2>1. CASE Creates(c)
      BY <1>2, <2>1 DEF Creates, Typed, BoardTyped
    <2>2. QED
      BY <1>1, <1>2, <2>1 DEF Attending
  <1>5. CASE \E d \in Caller : card[d] = k /\ pc[d] = "attach"
    <2>1. card[c] = k /\ pc[c] = "attach"
      BY <1>1, <1>2, <1>5 DEF Aside, Still
    <2>2. pc'[c] # "attach"
      BY <1>1, <1>2, <2>1 DEF Attending, Creates
    <2>3. left[c] = {}
      BY <1>1, <1>2, <2>1, <2>2 DEF Attending
    <2>4. rows[k] = Attachment
      BY <2>1, <2>3 DEF CallsSound, CallSound
    <2>5. QED
      BY <1>3, <2>4
  <1>6. CASE ~\E d \in Caller : card[d] = k /\ pc[d] = "attach"
    <2>1. rows[k] = Attachment
      BY <1>3, <1>4, <1>6 DEF ImportsAreWhole
    <2>2. QED
      BY <1>3, <2>1
  <1>7. QED
    BY <1>5, <1>6

-----------------------------------------------------------------------------
(* The invariant.                                                          *)

LEMMA IInvInit == Init => IInv
  <1> SUFFICES ASSUME Init PROVE IInv
    OBVIOUS
  <1> USE CollabAssumption DEF Init
  <1>1. Typed
    BY DEF Typed, RemoteTyped, BoardTyped, CallsTyped, RestTyped, Marks, Steps
  <1>2. CallsSound
    BY DEF CallsSound, CallSound, Working, Steps
  <1>3. Distinct /\ OneImporter
    BY DEF Distinct, OneImporter
  <1>4. Behind
    BY DEF Behind, Exists
  <1>5. ImportsAreWhole
    BY DEF ImportsAreWhole
  <1>6. QED
    BY <1>1, <1>2, <1>3, <1>4, <1>5 DEF IInv

LEMMA ActsStep ==
  ASSUME IInv, NEW c \in Caller, Acts(c)
  PROVE  IInv'
  <1> USE DEF IInv
  <1>1. CallSound(c)
    BY DEF CallsSound
  <1>2. Typed' /\ CallsSound'
    BY <1>1, TypeStep, CallsStep
  <1>3. Distinct' /\ Behind'
    BY DistinctStep, BehindStep
  <1>4. OneImporter' /\ ImportsAreWhole'
    BY ImporterStep, ImportStep
  <1>5. QED
    BY <1>2, <1>3, <1>4

\* What happens while no caller takes a step.
LEMMA AllStill ==
  ASSUME IInv, Typed', Grows, UNCHANGED <<pc, locals, origin, rows, broken>>
  PROVE  CallsSound' /\ Distinct' /\ OneImporter' /\ ImportsAreWhole'
  <1> USE DEF IInv
  <1>1. ASSUME NEW d \in Caller
        PROVE  CallSound(d)'
    <2>1. Still(d) /\ CallSound(d)
      BY DEF Still, locals, CallsSound
    <2>2. QED
      BY <2>1, StillSound
  <1>2. Distinct' /\ OneImporter' /\ ImportsAreWhole'
    BY DEF Distinct, OneImporter, ImportsAreWhole, locals
  <1>3. QED
    BY <1>1, <1>2 DEF CallsSound

LEMMA OutsideStep ==
  ASSUME IInv, (\E k \in Card : CreateLocal(k)) \/ (\E f \in Folder : Revise(f)) \/ Rebind
  PROVE  IInv'
  <1>a. \A k \in Card : version[k] \in Nat /\ cardFile[k] \in Nat
    BY CollabAssumption DEF IInv, Typed, BoardTyped, RemoteTyped
  <1>1. ASSUME NEW k \in Card, CreateLocal(k)
        PROVE  IInv'
    <2>1. version' = [version EXCEPT ![k] = 1] /\ version[k] = 0
      BY <1>1, <1>a DEF CreateLocal, Exists
    <2>2. \A j \in Card : version'[j] = IF j = k THEN 1 ELSE version[j]
      BY <2>1 DEF IInv, Typed, BoardTyped
    <2>3. Typed'
      <3>1. version' \in [Card -> 0 .. MaxVersion]
        BY <2>1, CollabAssumption DEF IInv, Typed, BoardTyped
      <3>2. RemoteTyped' /\ BoardTyped'
        BY <1>1, <3>1 DEF CreateLocal, IInv, Typed, RemoteTyped, BoardTyped, remote
      <3>3. CallsTyped' /\ RestTyped'
        BY <1>1 DEF CreateLocal, IInv, Typed, CallsTyped, RestTyped, locals, ghosts
      <3>4. QED
        BY <3>2, <3>3 DEF Typed
    <2>4. Grows
      BY <1>1, <1>a, <2>1, <2>2 DEF Grows, CreateLocal
    <2>5. CallsSound' /\ Distinct' /\ OneImporter' /\ ImportsAreWhole'
      BY <1>1, <2>3, <2>4, AllStill DEF CreateLocal, ghosts
    <2>6. Behind'
      <3>1. \A j \in Card : cardFile[j] <= version'[j] /\ (~Exists(j)' => ~Exists(j))
        BY <1>a, <2>1, <2>2 DEF IInv, Behind, Exists
      <3>2. UNCHANGED <<cardFile, uploads, rows, origin>>
        BY <1>1 DEF CreateLocal, remote
      <3>3. QED
        BY <3>1, <3>2 DEF IInv, Behind, Exists
    <2>7. QED
      BY <2>3, <2>5, <2>6 DEF IInv
  <1>2. CASE (\E f \in Folder : Revise(f)) \/ Rebind
    <2>1. UNCHANGED <<version, origin, source, mark, rows, noted, pc, locals, ghosts>>
      BY <1>2 DEF Revise, Rebind, board
    <2>2. UNCHANGED <<cardFile, statusFile, copies, uploads>>
      BY <1>2 DEF Revise, Rebind, remote
    <2>3. revision' \in [Folder -> 0 .. MaxRevision]
      BY <1>2, CollabAssumption DEF Revise, Rebind, remote, IInv, Typed, RemoteTyped
    <2>4. RestTyped'
      BY <1>2, SpendTypes DEF Revise, Rebind, ghosts, IInv, Typed, RestTyped
    <2>5. Typed'
      <3>1. RemoteTyped'
        BY <1>2, <2>2, <2>3 DEF Revise, Rebind, remote, IInv, Typed, RemoteTyped
      <3>2. BoardTyped'
        BY <2>1 DEF IInv, Typed, BoardTyped
      <3>3. CallsTyped'
        BY <2>1 DEF IInv, Typed, CallsTyped, locals
      <3>4. QED
        BY <2>4, <3>1, <3>2, <3>3 DEF Typed
    <2>6. Grows
      BY <1>a, <2>1 DEF Grows
    <2>7. CallsSound' /\ Distinct' /\ OneImporter' /\ ImportsAreWhole'
      BY <2>1, <2>5, <2>6, AllStill DEF ghosts
    <2>8. Behind'
      BY <2>1, <2>2 DEF IInv, Behind, Exists
    <2>9. QED
      BY <2>5, <2>7, <2>8 DEF IInv
  <1>3. QED
    BY <1>1, <1>2

\* Every step is one of a caller or from outside.
LEMMA NextParts ==
  ASSUME Next
  PROVE  \/ \E c \in Caller : Acts(c)
         \/ (\E k \in Card : CreateLocal(k)) \/ (\E f \in Folder : Revise(f)) \/ Rebind
  BY DEF Next, Acts

LEMMA StutterStep ==
  ASSUME IInv, UNCHANGED vars
  PROVE  IInv'
  <1> USE DEF vars, remote, board, locals, ghosts
  <1>1. Typed'
    BY DEF IInv, Typed, RemoteTyped, BoardTyped, CallsTyped, RestTyped
  <1>2. CallsSound' /\ Distinct' /\ Behind'
    BY DEF IInv, CallsSound, CallSound, Distinct, Behind, Exists
  <1>3. OneImporter' /\ ImportsAreWhole'
    BY DEF IInv, OneImporter, ImportsAreWhole
  <1>4. QED
    BY <1>1, <1>2, <1>3 DEF IInv

LEMMA IInvStep == IInv /\ [Next]_vars => IInv'
  BY NextParts, ActsStep, OutsideStep, StutterStep

\* What callers rely on between their steps holds of every reachable state:
\* the inductive invariant from which the others follow.
THEOREM Invariance == Spec => []IInv
  BY IInvInit, IInvStep, PTL DEF Spec

\* Every variable holds a value of its kind, whatever calls overlap, fail or
\* are killed.
THEOREM TypeCorrect == Spec => []TypeOK
  <1>1. IInv => TypeOK
    BY TypeParts DEF IInv
  <1>2. QED
    BY <1>1, Invariance, PTL

-----------------------------------------------------------------------------
(* The results.                                                            *)

LEMMA DistinctCounts == Distinct => OneCardPerRequest
  <1> SUFFICES ASSUME Distinct, NEW f \in Folder PROVE Cardinality(ByRemote(f)) <= 1
    BY DEF OneCardPerRequest
  <1>1. f # None
    BY CollabAssumption
  <1>2. CASE ByRemote(f) = {}
    BY <1>2, FS_EmptySet
  <1>3. CASE ByRemote(f) # {}
    <2>1. PICK k \in ByRemote(f) : TRUE
      BY <1>3
    <2>2. ByRemote(f) = {k}
      BY <1>1, <2>1 DEF ByRemote, Distinct
    <2>3. QED
      BY <2>2, FS_Singleton
  <1>4. QED
    BY <1>2, <1>3

\* However many calls of sync_inbox run at once, a request becomes one Card.
THEOREM OneCard == Spec => []OneCardPerRequest
  <1>1. IInv => OneCardPerRequest
    BY DistinctCounts DEF IInv
  <1>2. QED
    BY <1>1, Invariance, PTL

\* A Card whose import has not failed has all the attachments of its request
\* once its importer has got past them, however many attachments there are.
THEOREM WholeImports == Spec => []ImportsAreWhole
  <1>1. IInv => ImportsAreWhole
    BY DEF IInv
  <1>2. QED
    BY <1>1, Invariance, PTL

LEMMA ReplicaInit == Init => Replica!Init
  BY DEF Init, Replica!Init

LEMMA ReplicaStep == IInv /\ [Next]_vars => [Replica!Next]_(Replica!vars)
  <1> SUFFICES ASSUME IInv, [Next]_vars
               PROVE  Replica!Next \/ UNCHANGED <<version, rows, cardFile, uploads>>
    BY DEF Replica!vars
  <1>a. \A k \in Card : version[k] \in Nat
    BY CollabAssumption DEF IInv, Typed, BoardTyped
  <1>1. ASSUME NEW c \in Caller, Acts(c)
        PROVE  Replica!Next \/ UNCHANGED <<version, rows, cardFile, uploads>>
    <2>1. CallSound(c) /\ Typed
      BY DEF IInv, CallsSound
    <2>2. CASE Creates(c)
      <3>1. PICK k \in Card : ~Exists(k) /\ version' = [version EXCEPT ![k] = 1]
        BY <2>2 DEF Creates
      <3>2. version[k] + 1 = 1
        BY <1>a, <3>1 DEF Exists
      <3>3. version' = [version EXCEPT ![k] = @ + 1]
        BY <3>1, <3>2
      <3>4. Replica!Commit(k)
        BY <2>2, <3>3 DEF Creates, Replica!Commit
      <3>5. QED
        BY <3>4 DEF Replica!Next
    <2>3. CASE Changes
      BY <2>3 DEF Changes, Replica!Commit, Replica!Next
    <2>4. CASE Attaches(c)
      <3>1. version[card[c]] > 0
        BY <2>1, <2>4, CollabAssumption DEF Attaches, CallSound, Exists
      <3>2. PICK a \in Attachment : rows' = [rows EXCEPT ![card[c]] = @ \cup {a}]
        BY <2>4 DEF Attaches
      <3>3. Replica!Keep(card[c], a)
        BY <2>4, <3>1, <3>2 DEF Attaches, Replica!Keep
      <3>4. QED
        BY <2>4, <3>3 DEF Attaches, Replica!Next
    <2>5. CASE Shows(c)
      <3>1. text[c] \in Nat /\ text[c] > 0 /\ text[c] <= version[card[c]]
        <4>1. card[c] # None /\ text[c] > 0
          BY <2>5, CollabAssumption DEF Shows
        <4>2. text[c] \in Nat
          BY <2>1, CollabAssumption DEF Typed, CallsTyped
        <4>3. QED
          BY <2>1, <4>1, <4>2 DEF CallSound
      <3>2. text[c] \in 1 .. version[card[c]]
        BY <1>a, <2>5, <3>1 DEF Shows
      <3>3. Replica!Show(card[c])
        BY <2>5, <3>2 DEF Shows, Replica!Show
      <3>4. QED
        BY <2>5, <3>3 DEF Shows, Replica!Next
    <2>6. CASE Copies(c)
      <3>1. Replica!Copy(card[c])
        BY <2>6 DEF Copies, Replica!Copy
      <3>2. QED
        BY <2>6, <3>1 DEF Copies, Replica!Next
    <2>7. CASE Nothing
      BY <2>7 DEF Nothing
    <2>8. QED
      BY <1>1, <2>1, <2>2, <2>3, <2>4, <2>5, <2>6, <2>7, Effects
  <1>2. ASSUME NEW k \in Card, CreateLocal(k)
        PROVE  Replica!Next
    <2>1. version[k] = 0
      BY <1>2, <1>a DEF CreateLocal, Exists
    <2>2. Replica!Commit(k)
      BY <1>2, <2>1 DEF CreateLocal, Replica!Commit, remote
    <2>3. QED
      BY <2>2 DEF Replica!Next
  <1>3. CASE (\E f \in Folder : Revise(f)) \/ Rebind
    BY <1>3 DEF Revise, Rebind, remote, board
  <1>4. CASE UNCHANGED vars
    BY <1>4 DEF vars, remote, board
  <1>5. QED
    BY <1>1, <1>2, <1>3, <1>4, NextParts

\* The Drive is a replica of the board: whatever is revised there, fails on the
\* way, overlaps or is killed, no version and no attachment of a Card is lost,
\* and the Drive shows nothing that was not committed here first.
THEOREM Replicates == Spec => ReplicaSpec
  <1>1. Spec => []IInv
    BY Invariance
  <1>2. QED
    BY <1>1, ReplicaInit, ReplicaStep, PTL DEF Spec, ReplicaSpec, Replica!Spec

-----------------------------------------------------------------------------
(* The mirror.                                                             *)

\* The steps of a call that is at work on its Card, and that `Others` counts.
Busy == Working \ {"conflict", "mark"}

\* A call has a Card while it is about one, and only then can be undisturbed.
Placed(c) ==
  /\ pc[c] \notin Working => card[c] = None
  /\ c \in lone => pc[c] \in Busy

\* What a projection that nobody disturbs has brought to the Drive, step by step.
Told(c) ==
  /\ pc[c] \in {"write card", "write status"} => text[c] = version[card[c]]
  /\ pc[c] \in {"status", "write status", "artifacts", "upload"}
       => cardFile[card[c]] = version[card[c]]
  /\ pc[c] \in {"artifacts", "upload"} => statusFile[card[c]] = version[card[c]]
  /\ pc[c] = "upload" => rows[card[c]] \cap Allowed \subseteq uploads[card[c]] \cup left[c]

\* An undisturbed call is the only one at work on its Card; others are at work on
\* Cards that have gone astray.
Alone == \A c \in lone, d \in Caller : pc[d] \in Busy /\ card[d] = card[c] => d = c
Watched == \A c \in Caller : pc[c] \in Busy => c \in lone \/ card[c] \in astray

\* The Card is shown as it is; a call is at work on it.
Shown(k) ==
  /\ cardFile[k] = version[k] /\ statusFile[k] = version[k]
  /\ rows[k] \cap Allowed \subseteq uploads[k]
On(k) == \E c \in Caller : pc[c] \in Busy /\ card[c] = k
Mirrored(k) ==
  mark[k] = "SYNCED"
    => Exists(k) /\ (On(k) \/ k \in astray \cup broken \/ Shown(k))

\* What set_mirror relies on: the inductive invariant, beside IInv, of the mirror.
MInv ==
  /\ \A c \in Caller : Placed(c)
  /\ \A c \in lone : Told(c)
  /\ Alone /\ Watched
  /\ \A k \in Card : Mirrored(k)

\* What the Drive shows of a Card, and what the step of a call does to the Cards.
Alike(k) == /\ cardFile'[k] = cardFile[k] /\ statusFile'[k] = statusFile[k]
            /\ uploads'[k] = uploads[k] /\ rows'[k] = rows[k]
Showing == <<version, rows, cardFile, statusFile, uploads>>
Astray(k) == k \in astray \cup broken
Takes(c) ==
  /\ pc[c] \notin Working /\ pc'[c] \in {"open", "attach"}
  /\ \E k \in Card : Take(c, k) /\ \A j \in Card \ {k} : version'[j] = version[j]
  /\ UNCHANGED <<rows, cardFile, statusFile, uploads, mark, broken>>
Proceeds(c) ==
  /\ pc[c] \in Busy /\ pc'[c] \in Busy /\ card'[c] = card[c]
  /\ \A k \in Card \ {card[c]} : Alike(k)
  /\ c \in lone => Told(c)'
  /\ UNCHANGED <<version, mark, lone, astray, broken>>
Settles(c) ==
  /\ pc[c] \in Busy /\ pc'[c] \notin Working /\ card'[c] = None
  /\ lone' = lone \ {c}
  /\ \A k \in Card \ {card[c]} : mark'[k] = mark[k] /\ (k \in astray => k \in astray')
                                 /\ (Astray(k) => Astray(k)')
  /\ mark'[card[c]] = "SYNCED" => /\ card[c] \in astray' \cup broken' \/ Shown(card[c])
                                  /\ Exists(card[c])
  /\ c \notin lone /\ card[c] \in astray => card[c] \in astray'
  /\ UNCHANGED Showing
Elsewhere(c) ==
  /\ pc[c] \notin Busy /\ pc'[c] \notin Busy
  /\ pc'[c] \notin Working => card'[c] = None
  /\ lone' \in {lone, lone \ {c}} /\ astray \subseteq astray' /\ broken \subseteq broken'
  /\ \A k \in Card : mark'[k] \in {mark[k], "CONFLICT"}
  /\ UNCHANGED Showing

LEMMA LeavesCard ==
  ASSUME Typed, NEW c \in Caller, Leave(c)
  PROVE  pc'[c] \in {"next", "idle"} /\ card'[c] = None /\ lone' = lone \ {c}
  BY DEF Leave, Goto, Typed, CallsTyped

LEMMA CreateTakes ==
  ASSUME Typed, NEW c \in Caller, CallSound(c), Placed(c), CreateCard(c)
  PROVE  Takes(c) \/ Elsewhere(c)
  <1>a. pc[c] = "create" /\ pc[c] \notin Working
    BY DEF CreateCard, Working
  <1>1. CASE ByRemote(folder[c]) # {}
    <2>1. Leave(c) /\ UNCHANGED <<version, astray, broken, mark, rows, remote>>
      BY <1>1 DEF CreateCard
    <2>2. QED
      BY <1>a, <2>1, LeavesCard DEF Elsewhere, Showing, Busy, Working, remote
  <1>2. CASE ByRemote(folder[c]) = {}
    <2>1. PICK k \in Card : version' = [version EXCEPT ![k] = 1] /\ Take(c, k)
      BY <1>2 DEF CreateCard
    <2>2. \A j \in Card \ {k} : version'[j] = version[j]
      BY <2>1 DEF Typed, BoardTyped
    <2>3. pc'[c] = "attach" /\ UNCHANGED <<rows, remote, mark, broken>>
      BY <1>2 DEF CreateCard, Goto, Typed, CallsTyped
    <2>4. QED
      BY <1>a, <2>1, <2>2, <2>3 DEF Takes, remote
  <1>3. QED
    BY <1>1, <1>2

LEMMA ChangeTakes ==
  ASSUME Typed, NEW c \in Caller, NEW k \in Card, Change(c, k)
  PROVE  Takes(c)
  <1>1. pc[c] \notin Working /\ pc'[c] = "open"
    BY DEF Change, Idle, Goto, Working, Typed, CallsTyped
  <1>2. \A j \in Card \ {k} : version'[j] = version[j]
    BY DEF Change, Typed, BoardTyped
  <1>3. QED
    BY <1>1, <1>2 DEF Takes, Change, remote

\* A step of a projection that writes nothing to the Drive.
LEMMA Carries ==
  ASSUME Typed, NEW c \in Caller, pc[c] \in Busy, pc'[c] \in Busy,
         UNCHANGED <<remote, board, lone, astray, broken>>, card'[c] = card[c],
         c \in lone => Told(c)'
  PROVE  Proceeds(c)
  BY DEF Proceeds, Alike, remote, board

LEMMA AttachProceeds ==
  ASSUME Typed, NEW c \in Caller, card[c] \in Card, Attach(c)
  PROVE  Proceeds(c)
  <1>1. pc[c] = "attach" /\ pc'[c] = "attach" /\ card'[c] = card[c]
    BY DEF Attach
  <1>2. \A k \in Card \ {card[c]} : Alike(k)
    BY DEF Attach, Alike, remote, Typed, BoardTyped
  <1>3. Told(c)'
    BY <1>1 DEF Told
  <1>4. UNCHANGED <<version, mark, lone, astray, broken>>
    BY DEF Attach, ghosts
  <1>5. QED
    BY <1>1, <1>2, <1>3, <1>4 DEF Proceeds, Busy, Working, Steps

LEMMA OpenProceeds ==
  ASSUME Typed, NEW c \in Caller, Imported(c) \/ Open(c) \/ FindFolder(c) \/ ProjectionFails(c)
  PROVE  Proceeds(c)
  <1>1. pc[c] \in Busy /\ pc'[c] \in {"open", "find", "folder", "card", "retry"}
    BY DEF Imported, Open, FindFolder, ProjectionFails, Goto, Busy, Working, Steps, Typed,
       CallsTyped
  <1>2. UNCHANGED <<remote, board, locals, ghosts>>
    BY DEF Imported, Open, FindFolder, ProjectionFails
  <1>3. Told(c)'
    BY <1>1 DEF Told
  <1>4. pc'[c] \in Busy
    BY <1>1 DEF Busy, Working, Steps
  <1>5. QED
    BY <1>1, <1>2, <1>3, <1>4, Carries DEF locals, ghosts

LEMMA FolderProceeds ==
  ASSUME Typed, NEW c \in Caller, CreateFolder(c)
  PROVE  Proceeds(c)
  <1>1. pc[c] = "folder" /\ pc'[c] = "card"
    BY DEF CreateFolder, Goto, Typed, CallsTyped
  <1>2. UNCHANGED <<cardFile, statusFile, uploads, board, locals, ghosts>>
    BY DEF CreateFolder
  <1>3. Told(c)'
    BY <1>1 DEF Told
  <1>4. QED
    BY <1>1, <1>2, <1>3 DEF Proceeds, Alike, Busy, Working, Steps, locals, ghosts, board

LEMMA ReadProceeds ==
  ASSUME Typed, NEW c \in Caller, c \in lone => Told(c), ReadCard(c) \/ ReadStatus(c)
  PROVE  Proceeds(c)
  <1>1. \/ pc[c] = "card" /\ pc'[c] = "write card"
        \/ pc[c] = "status" /\ pc'[c] = "write status"
    BY DEF ReadCard, ReadStatus, Read, Goto, Typed, CallsTyped
  <1>2. text'[c] = version[card[c]] /\ UNCHANGED <<remote, board, card, ghosts>>
    BY DEF ReadCard, ReadStatus, Read, Typed, CallsTyped
  <1>3. c \in lone => Told(c)'
    BY <1>1, <1>2 DEF Told, remote, board
  <1>4. pc[c] \in Busy /\ pc'[c] \in Busy
    BY <1>1 DEF Busy, Working, Steps
  <1>5. QED
    BY <1>2, <1>3, <1>4, Carries DEF ghosts

LEMMA WriteProceeds ==
  ASSUME Typed, NEW c \in Caller, c \in lone => Told(c), card[c] \in Card,
         WriteCard(c) \/ WriteStatus(c)
  PROVE  Proceeds(c)
  <1>1. UNCHANGED <<uploads, board, locals, ghosts>>
    BY DEF WriteCard, WriteStatus
  <1>2. CASE WriteCard(c)
    <2>1. pc[c] = "write card" /\ pc'[c] = "status"
      BY <1>2 DEF WriteCard, Goto, Typed, CallsTyped
    <2>2. cardFile'[card[c]] = text[c] /\ statusFile' = statusFile
          /\ \A k \in Card \ {card[c]} : cardFile'[k] = cardFile[k]
      BY <1>2 DEF WriteCard, Typed, RemoteTyped
    <2>3. c \in lone => Told(c)'
      BY <1>1, <2>1, <2>2 DEF Told, board, locals
    <2>4. QED
      BY <1>1, <2>1, <2>2, <2>3
      DEF Proceeds, Alike, Busy, Working, Steps, locals, ghosts, board
  <1>3. CASE WriteStatus(c)
    <2>1. pc[c] = "write status" /\ pc'[c] = "artifacts"
      BY <1>3 DEF WriteStatus, Goto, Typed, CallsTyped
    <2>2. statusFile'[card[c]] = text[c] /\ cardFile' = cardFile
          /\ \A k \in Card \ {card[c]} : statusFile'[k] = statusFile[k]
      BY <1>3 DEF WriteStatus, Typed, RemoteTyped
    <2>3. c \in lone => Told(c)'
      BY <1>1, <2>1, <2>2 DEF Told, board, locals
    <2>4. QED
      BY <1>1, <2>1, <2>2, <2>3
      DEF Proceeds, Alike, Busy, Working, Steps, locals, ghosts, board
  <1>4. QED
    BY <1>2, <1>3

LEMMA ListProceeds ==
  ASSUME Typed, NEW c \in Caller, c \in lone => Told(c), ListArtifacts(c)
  PROVE  Proceeds(c)
  <1>1. pc[c] = "artifacts" /\ pc'[c] = "upload"
    BY DEF ListArtifacts, Goto, Typed, CallsTyped
  <1>2. left'[c] = rows[card[c]] \cap Allowed /\ UNCHANGED <<remote, board, card, ghosts>>
    BY DEF ListArtifacts, Typed, CallsTyped
  <1>3. c \in lone => Told(c)'
    BY <1>1, <1>2 DEF Told, remote, board
  <1>4. pc[c] \in Busy /\ pc'[c] \in Busy
    BY <1>1 DEF Busy, Working, Steps
  <1>5. QED
    BY <1>2, <1>3, <1>4, Carries DEF ghosts

LEMMA UploadProceeds ==
  ASSUME Typed, NEW c \in Caller, c \in lone => Told(c), card[c] \in Card, Upload(c)
  PROVE  Proceeds(c)
  <1>1. PICK a \in left[c] : /\ left' = [left EXCEPT ![c] = @ \ {a}]
                             /\ uploads' = [uploads EXCEPT ![card[c]] = @ \cup {a}]
    BY DEF Upload
  <1>2. left'[c] = left[c] \ {a} /\ uploads'[card[c]] = uploads[card[c]] \cup {a}
        /\ \A k \in Card \ {card[c]} : uploads'[k] = uploads[k]
    BY <1>1 DEF Typed, RemoteTyped, CallsTyped
  <1>3. pc[c] = "upload" /\ UNCHANGED <<pc, cardFile, statusFile, board, card, ghosts>>
    BY DEF Upload
  <1>4. c \in lone => Told(c)'
    <2>1. SUFFICES ASSUME c \in lone PROVE Told(c)'
      OBVIOUS
    <2>2. cardFile[card[c]] = version[card[c]] /\ statusFile[card[c]] = version[card[c]]
          /\ rows[card[c]] \cap Allowed \subseteq uploads[card[c]] \cup left[c]
      BY <1>3, <2>1 DEF Told
    <2>3. rows[card[c]] \cap Allowed \subseteq uploads'[card[c]] \cup left'[c]
      BY <1>2, <2>2
    <2>4. QED
      BY <1>3, <2>2, <2>3 DEF Told, board
  <1>5. QED
    BY <1>2, <1>3, <1>4 DEF Proceeds, Alike, Busy, Working, Steps, board, ghosts

LEMMA MirrorSettles ==
  ASSUME Typed, NEW c \in Caller, c \in lone => Told(c), c \in lone \/ card[c] \in astray,
         card[c] \in Card, Exists(card[c]), SetMirror(c)
  PROVE  Settles(c)
  <1>1. pc[c] = "upload" /\ left[c] = {} /\ Leave(c) /\ UNCHANGED <<Showing, broken>>
    BY DEF SetMirror, Showing, remote
  <1>2. pc'[c] \in {"next", "idle"} /\ card'[c] = None /\ lone' = lone \ {c}
    BY <1>1, LeavesCard
  <1>3. astray' = IF c \in lone THEN astray \ {card[c]} ELSE astray
    BY DEF SetMirror
  <1>4. \A k \in Card \ {card[c]} : mark'[k] = mark[k]
    BY DEF SetMirror, Typed, BoardTyped
  <1>5. card[c] \in astray' \cup broken' \/ Shown(card[c])
    <2>1. CASE c \in lone
      BY <1>1, <2>1 DEF Told, Shown
    <2>2. CASE c \notin lone
      BY <1>3, <2>2
    <2>3. QED
      BY <2>1, <2>2
  <1>6. pc[c] \in Busy /\ pc'[c] \notin Working
    BY <1>1, <1>2 DEF Busy, Working, Steps
  <1>7. \A k \in Card \ {card[c]} : k \in astray => k \in astray'
    BY <1>3
  <1>8. \A k \in Card \ {card[c]} : Astray(k) => Astray(k)'
    BY <1>1, <1>3 DEF Astray
  <1>9. c \notin lone /\ card[c] \in astray => card[c] \in astray'
    BY <1>3
  <1>10. QED
    BY <1>1, <1>2, <1>4, <1>5, <1>6, <1>7, <1>8, <1>9 DEF Settles

LEMMA RetrySettles ==
  ASSUME Typed, NEW c \in Caller, card[c] \in Card, SetRetry(c)
  PROVE  Settles(c)
  <1>1. pc[c] = "retry" /\ Leave(c) /\ UNCHANGED <<Showing, astray, broken>>
    BY DEF SetRetry, Showing, remote
  <1>2. pc'[c] \in {"next", "idle"} /\ card'[c] = None /\ lone' = lone \ {c}
    BY <1>1, LeavesCard
  <1>3. mark'[card[c]] = "RETRY" /\ \A k \in Card \ {card[c]} : mark'[k] = mark[k]
    BY DEF SetRetry, Typed, BoardTyped
  <1>4. pc[c] \in Busy /\ pc'[c] \notin Working
    BY <1>1, <1>2 DEF Busy, Working, Steps
  <1>5. QED
    BY <1>1, <1>2, <1>3, <1>4 DEF Settles, Astray

LEMMA FailureSettles ==
  ASSUME Typed, NEW c \in Caller, CallSound(c), Placed(c), ItemFails(c) \/ Kill(c)
  PROVE  Settles(c) \/ Elsewhere(c)
  <1>1. UNCHANGED <<Showing, mark>> /\ astray \subseteq astray' /\ broken \subseteq broken'
    BY DEF ItemFails, Kill, Showing, remote, board
  <1>2. pc'[c] \in {"next", "idle"} /\ card'[c] = None /\ lone' = lone \ {c}
    BY LeavesCard DEF ItemFails, Kill, Goto, Typed, CallsTyped
  <1>3. pc'[c] \notin Working /\ pc'[c] \notin Busy
    BY <1>2 DEF Busy, Working
  <1>4. CASE pc[c] \notin Busy
    BY <1>1, <1>2, <1>3, <1>4 DEF Elsewhere
  <1>5. CASE pc[c] \in Busy
    <2>1. card[c] # None
      BY <1>5 DEF CallSound, Busy
    <2>2. card[c] \in astray' \cup broken' /\ Exists(card[c])
      BY <1>5, <2>1 DEF ItemFails, Kill, CallSound, Busy, Working
    <2>3. QED
      BY <1>1, <1>2, <1>3, <1>5, <2>2 DEF Settles, Astray
  <1>6. QED
    BY <1>4, <1>5

LEMMA InboxElsewhere ==
  ASSUME Typed, NEW c \in Caller, Placed(c),
         SyncInbox(c) \/ ListInbox(c) \/ LoadRequest(c) \/ SyncDone(c)
  PROVE  Elsewhere(c)
  <1>1. pc[c] \in {"idle", "list", "next"} /\ pc'[c] \in {"list", "next", "lookup", "idle"}
    BY DEF SyncInbox, ListInbox, LoadRequest, SyncDone, Idle, Goto, Typed, CallsTyped
  <1>2. UNCHANGED <<remote, board, card, ghosts>>
    BY DEF SyncInbox, ListInbox, LoadRequest, SyncDone
  <1>3. card[c] = None
    BY <1>1 DEF Placed, Working
  <1>4. QED
    BY <1>1, <1>2, <1>3 DEF Elsewhere, Busy, Working, Showing, remote, board, ghosts

LEMMA LookupElsewhere ==
  ASSUME Typed, NEW c \in Caller, Placed(c), Lookup(c)
  PROVE  Elsewhere(c)
  <1>1. pc[c] = "lookup" /\ UNCHANGED <<remote, board, astray, broken>>
    BY DEF Lookup
  <1>2. pc'[c] \in {"create", "conflict", "next", "idle"} /\ lone' \in {lone, lone \ {c}}
    BY LeavesCard DEF Lookup, Goto, Typed, CallsTyped
  <1>3. pc'[c] # "conflict" => card'[c] = None
    BY <1>1, LeavesCard DEF Lookup, Goto, locals, Placed, Working, Typed, CallsTyped
  <1>4. QED
    BY <1>1, <1>2, <1>3 DEF Elsewhere, Busy, Working, Steps, Showing, remote, board

LEMMA ConflictElsewhere ==
  ASSUME Typed, NEW c \in Caller, NoteConflict(c) \/ MarkConflict(c)
  PROVE  Elsewhere(c)
  <1>1. CASE NoteConflict(c)
    <2>1. pc[c] = "conflict" /\ pc'[c] = "mark" /\ UNCHANGED <<remote, version, rows, mark, ghosts>>
      BY <1>1 DEF NoteConflict, Goto, Typed, CallsTyped
    <2>2. QED
      BY <2>1 DEF Elsewhere, Busy, Working, Steps, Showing, remote, ghosts
  <1>2. CASE MarkConflict(c)
    <2>1. pc[c] = "mark" /\ Leave(c) /\ UNCHANGED <<Showing, astray, broken>>
      BY <1>2 DEF MarkConflict, Showing, remote
    <2>2. \A k \in Card : mark'[k] \in {mark[k], "CONFLICT"}
      BY <1>2 DEF MarkConflict, Typed, BoardTyped
    <2>3. QED
      BY <2>1, <2>2, LeavesCard DEF Elsewhere, Busy, Working
  <1>3. QED
    BY <1>1, <1>2

LEMMA MirrorSteps ==
  ASSUME Typed, NEW c \in Caller, CallSound(c), MInv, Acts(c)
  PROVE  Takes(c) \/ Proceeds(c) \/ Settles(c) \/ Elsewhere(c)
  <1>1. Placed(c) /\ (c \in lone => Told(c)) /\ (pc[c] \in Busy => c \in lone \/ card[c] \in astray)
    BY DEF MInv, Watched
  <1>2. pc[c] \in Working => card[c] \in Card /\ Exists(card[c])
    BY DEF CallSound, Typed, CallsTyped
  <1>3. CASE CreateCard(c) \/ \E k \in Card : Change(c, k)
    BY <1>1, <1>3, CreateTakes, ChangeTakes
  <1>4. CASE Attach(c)
    BY <1>2, <1>4, AttachProceeds DEF Attach, Working, Steps
  <1>5. CASE Imported(c) \/ Open(c) \/ FindFolder(c) \/ ProjectionFails(c) \/ CreateFolder(c)
    BY <1>5, OpenProceeds, FolderProceeds
  <1>6. CASE ReadCard(c) \/ ReadStatus(c) \/ ListArtifacts(c)
    BY <1>1, <1>6, ReadProceeds, ListProceeds
  <1>7. CASE WriteCard(c) \/ WriteStatus(c)
    BY <1>1, <1>2, <1>7, WriteProceeds DEF WriteCard, WriteStatus, Working, Steps
  <1>8. CASE Upload(c)
    BY <1>1, <1>2, <1>8, UploadProceeds DEF Upload, Working, Steps
  <1>9. CASE SetMirror(c)
    BY <1>1, <1>2, <1>9, MirrorSettles DEF SetMirror, Busy, Working, Steps
  <1>10. CASE SetRetry(c)
    BY <1>2, <1>10, RetrySettles DEF SetRetry, Working, Steps
  <1>11. CASE ItemFails(c) \/ Kill(c)
    BY <1>1, <1>11, FailureSettles
  <1>12. CASE SyncInbox(c) \/ ListInbox(c) \/ LoadRequest(c) \/ SyncDone(c) \/ Lookup(c)
    BY <1>1, <1>12, InboxElsewhere, LookupElsewhere
  <1>13. CASE NoteConflict(c) \/ MarkConflict(c)
    BY <1>13, ConflictElsewhere
  <1>14. QED
    BY <1>3, <1>4, <1>5, <1>6, <1>7, <1>8, <1>9, <1>10, <1>11, <1>12, <1>13 DEF Acts, Step

\* A call that took no step still knows what it has shown.
LEMMA StillTold ==
  ASSUME NEW d \in Caller, Still(d), Told(d), Alike(card[d]),
         version'[card[d]] = version[card[d]]
  PROVE  Told(d)'
  BY DEF Still, Told, Alike

\* What was shown still is, and who was at work on it still is.
LEMMA StillMirrored ==
  ASSUME NEW k \in Card, Mirrored(k), mark'[k] \in {mark[k], "CONFLICT"}, Alike(k),
         version'[k] = version[k], On(k) => On(k)', Astray(k) => Astray(k)'
  PROVE  Mirrored(k)'
  BY DEF Mirrored, Alike, Exists, Astray, Shown

LEMMA TakesMirror ==
  ASSUME Typed, MInv, NEW c \in Caller, Takes(c), Aside(c), CallsSound'
  PROVE  MInv'
  <1>1. PICK k \in Card : Take(c, k) /\ \A j \in Card \ {k} : version'[j] = version[j]
    BY DEF Takes
  <1>2. pc[c] \notin Working /\ pc'[c] \in {"open", "attach"} /\ c \notin lone
        /\ pc[c] \notin Busy /\ pc'[c] \in Working /\ pc'[c] \in Busy
    BY DEF Takes, MInv, Placed, Busy, Working, Steps
  <1>3. card'[c] = k
    BY <1>1 DEF Take, Typed, CallsTyped
  <1>4. \A j \in Card : Alike(j)
    BY DEF Takes, Alike
  <1>5. \A d \in Caller \ {c} : pc'[d] = pc[d] /\ card'[d] = card[d]
    BY DEF Aside, Still
  <1>6. \/ Others(c, k) = {} /\ lone' = lone \cup {c} /\ astray' = astray
        \/ c \notin lone' /\ lone' = lone \ Others(c, k) /\ astray' = astray \cup {k}
    BY <1>1, <1>2 DEF Take
  <1>7. \A d \in lone' \ {c} : d \in lone /\ d \in Caller /\ pc[d] \in Busy /\ card[d] # k
    <2>1. TAKE d \in lone' \ {c}
    <2>2. d \in lone /\ d \notin Others(c, k) /\ d \in Caller
      BY <1>6 DEF Typed, RestTyped
    <2>3. pc[d] \in Busy
      BY <2>2 DEF MInv, Placed
    <2>4. QED
      BY <2>2, <2>3 DEF Others, Busy
  <1>8. \A d \in Caller : Placed(d)'
    BY <1>2, <1>3, <1>5, <1>7 DEF Placed, MInv
  <1>9. \A d \in lone' : Told(d)'
    <2>1. Told(c)'
      BY <1>2 DEF Told
    <2>2. ASSUME NEW d \in lone' \ {c} PROVE Told(d)'
      <3>1. d \in lone /\ d \in Caller /\ (card[d] \in Card \ {k} \/ card[d] = None)
        BY <1>7 DEF Typed, CallsTyped
      <3>2. card[d] # None
        <4>1. card'[d] # None
          BY <1>5, <1>7 DEF CallsSound, CallSound, Busy
        <4>2. QED
          BY <1>5, <1>7, <4>1
      <3>3. Told(d) /\ Still(d)
        BY <1>7 DEF MInv, Aside
      <3>4. QED
        BY <1>1, <1>4, <1>7, <3>1, <3>2, <3>3, StillTold
    <2>3. QED
      BY <2>1, <2>2
  <1>10. Alone'
    <2>1. SUFFICES ASSUME NEW e \in lone', NEW d \in Caller, pc'[d] \in Busy, card'[d] = card'[e]
                   PROVE  d = e
      BY DEF Alone
    <2>2. CASE e = c
      <3>1. Others(c, k) = {}
        BY <1>6, <2>2
      <3>2. QED
        BY <1>3, <1>5, <2>1, <2>2, <3>1 DEF Others, Busy
    <2>3. CASE e # c
      <3>1. e \in lone /\ e \in Caller /\ card[e] # k /\ card'[e] = card[e]
        BY <1>5, <1>7, <2>3
      <3>2. d # c
        BY <1>3, <2>1, <3>1
      <3>3. pc[d] \in Busy /\ card[d] = card[e]
        BY <1>5, <2>1, <3>1, <3>2
      <3>4. QED
        BY <3>1, <3>3 DEF MInv, Alone
    <2>4. QED
      BY <2>2, <2>3
  <1>11. Watched'
    <2>1. SUFFICES ASSUME NEW d \in Caller, pc'[d] \in Busy, d \notin lone'
                   PROVE  card'[d] \in astray'
      BY DEF Watched
    <2>2. CASE d = c
      BY <1>3, <1>6, <2>1, <2>2
    <2>3. CASE d # c
      <3>1. pc[d] \in Busy /\ card'[d] = card[d]
        BY <1>5, <2>1, <2>3
      <3>2. d \in lone \/ card[d] \in astray
        BY <3>1 DEF MInv, Watched
      <3>3. QED
        BY <1>6, <2>1, <3>1, <3>2 DEF Others
    <2>4. QED
      BY <2>2, <2>3
  <1>12. \A j \in Card : Mirrored(j)'
    <2>1. Mirrored(k)'
      <3>1. On(k)'
        BY <1>2, <1>3 DEF On
      <3>2. Exists(k)'
        <4>1. CallSound(c)' /\ card'[c] # None
          BY <1>3, CollabAssumption DEF CallsSound
        <4>2. QED
          BY <1>3, <4>1 DEF CallSound
      <3>3. QED
        BY <3>1, <3>2 DEF Mirrored
    <2>2. ASSUME NEW j \in Card, j # k PROVE Mirrored(j)'
      <3>1. On(j) => On(j)'
        BY <1>2, <1>5 DEF On
      <3>2. Astray(j) => Astray(j)'
        BY <1>6 DEF Astray, Takes
      <3>3. mark'[j] = mark[j] /\ Mirrored(j)
        BY DEF Takes, MInv
      <3>4. QED
        BY <1>1, <1>4, <2>2, <3>1, <3>2, <3>3, StillMirrored
    <2>3. QED
      BY <2>1, <2>2
  <1>13. QED
    BY <1>8, <1>9, <1>10, <1>11, <1>12 DEF MInv

LEMMA ProceedsMirror ==
  ASSUME Typed, CallsSound, MInv, NEW c \in Caller, Proceeds(c), Aside(c)
  PROVE  MInv'
  <1>1. pc[c] \in Busy /\ pc'[c] \in Busy /\ card'[c] = card[c]
        /\ UNCHANGED <<version, mark, lone, astray, broken>>
    BY DEF Proceeds
  <1>2. \A d \in Caller : card'[d] = card[d] /\ (pc'[d] \in Busy <=> pc[d] \in Busy)
                          /\ (pc'[d] \notin Working => pc[d] \notin Working)
    BY <1>1 DEF Aside, Still, Busy
  <1>3. card[c] \in Card
    BY <1>1 DEF CallsSound, CallSound, Busy, Typed, CallsTyped
  <1>4. \A d \in Caller : Placed(d)'
    BY <1>1, <1>2 DEF MInv, Placed
  <1>5. \A d \in lone' : Told(d)'
    <2>1. SUFFICES ASSUME NEW d \in lone PROVE Told(d)'
      BY <1>1
    <2>2. CASE d = c
      BY <2>2 DEF Proceeds
    <2>3. CASE d # c
      <3>1. d \in Caller /\ pc[d] \in Busy /\ Told(d)
        BY DEF MInv, Placed, Typed, RestTyped
      <3>2. card[d] # card[c]
        BY <1>1, <2>3 DEF MInv, Alone
      <3>3. card[d] \in Card
        BY <3>1 DEF CallsSound, CallSound, Busy, Typed, CallsTyped
      <3>4. Alike(card[d]) /\ Still(d)
        BY <2>3, <3>1, <3>2, <3>3 DEF Proceeds, Aside
      <3>5. QED
        BY <1>1, <3>1, <3>4, StillTold
    <2>4. QED
      BY <2>2, <2>3
  <1>6. Alone' /\ Watched'
    BY <1>1, <1>2 DEF MInv, Alone, Watched, Typed, RestTyped
  <1>7. ASSUME NEW k \in Card PROVE Mirrored(k)'
    <2>1. On(k) => On(k)'
      BY <1>2 DEF On
    <2>2. CASE k = card[c]
      <3>1. On(k)' /\ (mark'[k] = "SYNCED" => Exists(k)')
        BY <1>1, <2>1, <2>2 DEF On, MInv, Mirrored, Exists
      <3>2. QED
        BY <3>1 DEF Mirrored
    <2>3. CASE k # card[c]
      <3>1. Alike(k) /\ Mirrored(k)
        BY <2>3 DEF Proceeds, MInv
      <3>2. QED
        BY <1>1, <2>1, <3>1, StillMirrored DEF Astray
    <2>4. QED
      BY <2>2, <2>3
  <1>8. QED
    BY <1>4, <1>5, <1>6, <1>7 DEF MInv

LEMMA SettlesMirror ==
  ASSUME Typed, CallsSound, MInv, NEW c \in Caller, Settles(c), Aside(c)
  PROVE  MInv'
  <1>1. pc[c] \in Busy /\ pc'[c] \notin Working /\ card'[c] = None /\ lone' = lone \ {c}
        /\ UNCHANGED Showing
    BY DEF Settles
  <1>2. \A d \in Caller \ {c} : pc'[d] = pc[d] /\ card'[d] = card[d]
    BY DEF Aside, Still
  <1>3. card[c] \in Card /\ pc'[c] \notin Busy
    BY <1>1 DEF CallsSound, CallSound, Busy, Typed, CallsTyped
  <1>4. \A k \in Card : Alike(k)
    BY <1>1 DEF Showing, Alike
  <1>5. \A d \in Caller : Placed(d)'
    BY <1>1, <1>2 DEF MInv, Placed
  <1>6. \A d \in lone' : Told(d)'
    <2>1. SUFFICES ASSUME NEW d \in lone, d # c PROVE Told(d)'
      BY <1>1
    <2>2. d \in Caller /\ pc[d] \in Busy /\ Told(d) /\ Still(d)
      BY <2>1 DEF MInv, Placed, Typed, RestTyped, Aside
    <2>3. card[d] \in Card
      BY <2>2 DEF CallsSound, CallSound, Busy, Typed, CallsTyped
    <2>4. QED
      BY <1>1, <1>4, <2>2, <2>3, StillTold DEF Showing
  <1>7. Alone'
    BY <1>1, <1>2, <1>3 DEF MInv, Alone, Typed, RestTyped
  <1>8. Watched'
    <2>1. SUFFICES ASSUME NEW d \in Caller, pc'[d] \in Busy, d \notin lone'
                   PROVE  card'[d] \in astray'
      BY DEF Watched
    <2>2. d # c
      BY <1>3, <2>1
    <2>3. pc[d] \in Busy /\ card'[d] = card[d] /\ d \notin lone
      BY <1>1, <1>2, <2>1, <2>2
    <2>4. card[d] \in astray /\ card[d] \in Card
      BY <2>3 DEF MInv, Watched, CallsSound, CallSound, Busy, Typed, CallsTyped
    <2>5. CASE card[d] = card[c]
      <3>1. c \notin lone
        BY <2>2, <2>3, <2>5 DEF MInv, Alone
      <3>2. QED
        BY <2>3, <2>4, <2>5, <3>1 DEF Settles
    <2>6. CASE card[d] # card[c]
      BY <2>3, <2>4, <2>6 DEF Settles
    <2>7. QED
      BY <2>5, <2>6
  <1>9. ASSUME NEW k \in Card PROVE Mirrored(k)'
    <2>1. CASE k = card[c]
      <3>1. mark'[k] = "SYNCED" => Exists(k) /\ (Astray(k)' \/ Shown(k))
        BY <2>1 DEF Settles, Astray
      <3>2. (Exists(k) => Exists(k)') /\ (Shown(k) => Shown(k)')
        BY <1>1 DEF Showing, Exists, Shown
      <3>3. QED
        BY <3>1, <3>2 DEF Mirrored, Astray
    <2>2. CASE k # card[c]
      <3>1. On(k) => On(k)'
        BY <1>2, <2>2 DEF On
      <3>2. mark'[k] = mark[k] /\ (Astray(k) => Astray(k)') /\ Mirrored(k)
        BY <2>2 DEF Settles, MInv
      <3>3. QED
        BY <1>1, <1>4, <3>1, <3>2, StillMirrored DEF Showing
    <2>3. QED
      BY <2>1, <2>2
  <1>10. QED
    BY <1>5, <1>6, <1>7, <1>8, <1>9 DEF MInv

LEMMA ElsewhereMirror ==
  ASSUME Typed, CallsSound, MInv, NEW c \in Caller, Elsewhere(c), Aside(c)
  PROVE  MInv'
  <1>1. pc[c] \notin Busy /\ pc'[c] \notin Busy /\ UNCHANGED Showing
        /\ astray \subseteq astray' /\ broken \subseteq broken'
    BY DEF Elsewhere
  <1>2. \A d \in Caller \ {c} : pc'[d] = pc[d] /\ card'[d] = card[d]
    BY DEF Aside, Still
  <1>3. lone' = lone /\ c \notin lone
    BY <1>1 DEF Elsewhere, MInv, Placed
  <1>4. \A k \in Card : Alike(k)
    BY <1>1 DEF Showing, Alike
  <1>5. \A d \in Caller : Placed(d)'
    BY <1>1, <1>2, <1>3 DEF MInv, Placed, Elsewhere
  <1>6. \A d \in lone' : Told(d)'
    <2>1. SUFFICES ASSUME NEW d \in lone PROVE Told(d)'
      BY <1>3
    <2>2. d \in Caller /\ d # c /\ pc[d] \in Busy /\ Told(d)
      BY <1>3 DEF MInv, Placed, Typed, RestTyped
    <2>3. card[d] \in Card /\ Still(d)
      BY <2>2 DEF CallsSound, CallSound, Busy, Typed, CallsTyped, Aside
    <2>4. QED
      BY <1>1, <1>4, <2>2, <2>3, StillTold DEF Showing
  <1>7. Alone' /\ Watched'
    BY <1>1, <1>2, <1>3 DEF MInv, Alone, Watched, Typed, RestTyped
  <1>8. ASSUME NEW k \in Card PROVE Mirrored(k)'
    <2>1. On(k) => On(k)'
      BY <1>1, <1>2 DEF On
    <2>2. mark'[k] \in {mark[k], "CONFLICT"} /\ (Astray(k) => Astray(k)') /\ Mirrored(k)
      BY <1>1 DEF Elsewhere, MInv, Astray
    <2>3. QED
      BY <1>1, <1>4, <2>1, <2>2, StillMirrored DEF Showing
  <1>9. QED
    BY <1>5, <1>6, <1>7, <1>8 DEF MInv

LEMMA MInvInit == Init => MInv
  <1> SUFFICES ASSUME Init PROVE MInv
    OBVIOUS
  <1>1. \A c \in Caller : Placed(c)
    BY DEF Init, Placed
  <1>2. \A c \in lone : Told(c)
    BY DEF Init
  <1>3. Alone /\ Watched
    BY DEF Init, Alone, Watched, Busy, Working
  <1>4. \A k \in Card : Mirrored(k)
    BY DEF Init, Mirrored
  <1>5. QED
    BY <1>1, <1>2, <1>3, <1>4 DEF MInv

\* Nobody takes a step, and at most a Card is created that nobody is about.
LEMMA OutsideMirror ==
  ASSUME Typed, CallsSound, MInv, Typed', Grows,
         UNCHANGED <<pc, locals, ghosts, mark, rows, cardFile, statusFile, uploads>>,
         \A k \in Card : Exists(k) => version'[k] = version[k]
  PROVE  MInv'
  <1>1. \A d \in Caller : Still(d)
    BY DEF Still, locals
  <1>2. \A k \in Card : Alike(k)
    BY DEF Alike
  <1>3. \A d \in Caller : Placed(d)'
    BY DEF MInv, Placed, locals, ghosts
  <1>4. ASSUME NEW d \in lone PROVE Told(d)'
    <2>1. d \in Caller /\ pc[d] \in Busy /\ Told(d)
      BY <1>4 DEF MInv, Placed, Typed, RestTyped
    <2>2. card[d] \in Card /\ Exists(card[d])
      BY <2>1 DEF CallsSound, CallSound, Busy, Typed, CallsTyped
    <2>3. QED
      BY <1>1, <1>2, <2>1, <2>2, StillTold
  <1>5. Alone' /\ Watched'
    BY DEF MInv, Alone, Watched, locals, ghosts
  <1>6. ASSUME NEW k \in Card PROVE Mirrored(k)'
    <2>1. On(k) => On(k)'
      BY DEF On, locals
    <2>2. CASE Exists(k)
      <3>1. mark'[k] \in {mark[k], "CONFLICT"} /\ (Astray(k) => Astray(k)') /\ Mirrored(k)
        BY DEF MInv, Astray, ghosts
      <3>2. QED
        BY <1>2, <2>1, <2>2, <3>1, StillMirrored
    <2>3. CASE ~Exists(k)
      BY <2>3 DEF MInv, Mirrored
    <2>4. QED
      BY <2>2, <2>3
  <1>7. QED
    BY <1>3, <1>4, <1>5, <1>6 DEF MInv, ghosts

LEMMA MInvStep ==
  ASSUME IInv, MInv, [Next]_vars
  PROVE  MInv'
  <1>1. IInv' /\ Typed /\ CallsSound /\ Typed' /\ CallsSound'
    BY IInvStep DEF IInv
  <1>2. ASSUME NEW c \in Caller, Acts(c) PROVE MInv'
    <2>1. CallSound(c)
      BY <1>1 DEF CallsSound
    <2>2. Aside(c)
      BY <1>1, <1>2, <2>1, Shapes
    <2>3. QED
      BY <1>1, <1>2, <2>1, <2>2, MirrorSteps, TakesMirror, ProceedsMirror, SettlesMirror,
         ElsewhereMirror
  <1>3. \A k \in Card : version[k] \in Nat
    BY <1>1, CollabAssumption DEF Typed, BoardTyped
  <1>4. ASSUME NEW k \in Card, CreateLocal(k) PROVE MInv'
    <2>1. ~Exists(k) /\ \A j \in Card \ {k} : version'[j] = version[j]
      BY <1>1, <1>4 DEF CreateLocal, Typed, BoardTyped
    <2>2. UNCHANGED <<pc, locals, ghosts, mark, rows, cardFile, statusFile, uploads>>
      BY <1>4 DEF CreateLocal, remote
    <2>3. version'[k] = 1 /\ version[k] = 0
      BY <1>1, <1>3, <1>4 DEF CreateLocal, Exists, Typed, BoardTyped
    <2>4. Grows
      BY <1>3, <2>1, <2>2, <2>3 DEF Grows
    <2>5. QED
      BY <1>1, <2>1, <2>2, <2>4, OutsideMirror
  <1>5. CASE (\E f \in Folder : Revise(f)) \/ Rebind \/ UNCHANGED vars
    <2>1. UNCHANGED <<pc, locals, ghosts, version, mark, rows, cardFile, statusFile, uploads>>
      BY <1>5 DEF Revise, Rebind, vars, remote, board
    <2>2. Grows
      BY <1>3, <2>1 DEF Grows
    <2>3. QED
      BY <1>1, <2>1, <2>2, OutsideMirror
  <1>6. QED
    BY <1>2, <1>4, <1>5, NextParts

\* A Card that is marked SYNCED, that no call is at work on and about which no
\* calls have overlapped or were killed since its last undisturbed projection,
\* is on the Drive as it is here: set_mirror says the truth.
THEOREM SyncedShows == Spec => []SyncedIsShown
  <1>1. IInv /\ MInv => SyncedIsShown
    <2>1. SUFFICES ASSUME IInv, MInv, NEW k \in Card, k \notin astray \cup broken,
                          mark[k] = "SYNCED", ~\E c \in Caller : card[c] = k
                   PROVE  /\ cardFile[k] = version[k] /\ statusFile[k] = version[k]
                          /\ uploads[k] = rows[k] \cap Allowed
      BY DEF SyncedIsShown
    <2>2. ~On(k)
      BY <2>1 DEF On
    <2>3. Shown(k)
      BY <2>1, <2>2 DEF MInv, Mirrored
    <2>4. uploads[k] \subseteq rows[k] \cap Allowed
      BY <2>1 DEF IInv, Behind, Typed, RemoteTyped
    <2>5. QED
      BY <2>3, <2>4 DEF Shown
  <1>2. Init => IInv /\ MInv
    BY IInvInit, MInvInit
  <1>3. IInv /\ MInv /\ [Next]_vars => IInv' /\ MInv'
    BY IInvStep, MInvStep
  <1>4. QED
    BY <1>1, <1>2, <1>3, PTL DEF Spec
=============================================================================
