------------------------ MODULE DriveBinding_proofs -------------------------
(***************************************************************************)
(* Proofs about DriveBinding, for any number of credentials, roots,        *)
(* threads and failures: what the row says of the Drive is so after an     *)
(* undisturbed connect or report and until calls overlap, and only a       *)
(* disconnect takes a READY binding from its credential.                   *)
(***************************************************************************)
EXTENDS DriveBinding, TLAPS

Connecting(c) == pc[c] \in {"climb", "create"}
Copying(c) ==
  pc[c] \in {"credential", "markdown", "json", "published", "check"}

\* A lone call is the only one, and while the ghosts hold each call is lone.
LoneIsAlone ==
  /\ \A c \in lone : ~Idle(c)
  /\ \A c \in lone : Quiet(c)
  /\ sound \/ whole => \A c \in Callers : ~Idle(c) => c \in lone

\* What the next step of a call needs is there when it is taken.
Needed(c) ==
  /\ pc[c] \in {"polled", "connect", "climb", "create"} =>
       mine[c].secret # None /\ mine[c].root # None
  /\ pc[c] \in {"authorize", "start"} => mine[c].root # None
  /\ pc[c] \in {"disconnect", "disable", "unbind", "clear"} /\ manual[c] =>
       mine[c].root # None
  /\ pc[c] = "disable" => mine[c].secret # None
  /\ pc[c] = "climb" /\ rung[c] >= 4 => mine[c].tree # None
  /\ pc[c] = "create" => rung[c] = 3
  /\ ~Connecting(c) => rung[c] = 1
  /\ Copying(c) => /\ mine[c].state = "READY"
                   /\ mine[c].secret # None /\ mine[c].root # None
                   /\ mine[c].tree # None
                   /\ pc[c] # "check" => seen[c] # None

RowHasIds ==
  /\ binding.state \in {"READY", "DEGRADED"} =>
       binding.secret # None /\ binding.root # None
  /\ binding.state = "READY" => binding.tree # None

SessionHasIds ==
  /\ oauth.state # "NONE" => oauth.root # None
  /\ oauth.state = "AUTHORIZED" => oauth.secret # None

HasIds == RowHasIds /\ SessionHasIds /\ \A c \in Callers : Needed(c)

\* The copy of the row that a lone call works on is not stale.
Fresh(c) ==
  /\ Connecting(c) =>
       /\ mine[c].report = binding.report /\ mine[c].print = binding.print
       /\ binding.state = "READY" => mine[c].secret = binding.secret
  /\ Copying(c) => mine[c] = binding

\* How far a lone connect has come.
Achieved(c) ==
  Connecting(c) =>
    /\ rung[c] >= 3 => status[mine[c].secret] = "ACTIVE"
    /\ pc[c] = "create" => copies[mine[c].root] = 0
    /\ rung[c] >= 4 => mine[c].tree = mine[c].root /\ copies[mine[c].tree] = 1
    /\ rung[c] >= 5 => mine[c].proto # None
    /\ rung[c] >= 6 => protocol[mine[c].proto] = mine[c].tree

\* And how far a lone report.
Reported(c) ==
  LET t == Target(mine[c], mine[c].report)
  IN  /\ pc[c] \in {"json", "published"} => markdown[t] = seen[c]
      /\ pc[c] = "published" => json[t] = seen[c]

Progress == \A c \in lone : Fresh(c) /\ Achieved(c) /\ Reported(c)

IInv ==
  /\ TypeOK /\ LoneIsAlone /\ HasIds /\ Progress
  /\ ReadyIsBacked /\ PrintIsPublished

\* What a call begins with.
CallOf(c, step, s, r, flag) ==
  /\ Enter(c, step, s, r, flag)
  /\ step \in {"connect", "polled"} => s # None /\ r # None
  /\ step = "authorize" \/ (step = "disconnect" /\ flag) => r # None
  /\ UNCHANGED <<binding, revoked, drive, world, used>>
  /\ status' \in [Secret -> {"NONE", "ACTIVE", "DISABLED"}]
  /\ \A d \in Secret : status[d] # "NONE" => status'[d] = status[d]
  /\ \/ UNCHANGED oauth
     \/ /\ oauth' = [oauth EXCEPT !.state = "AUTHORIZED", !.secret = s]
        /\ oauth.state = "WAITING_USER" /\ s # None

FirstSteps ==
  {"connect", "publish", "verify", "disconnect", "authorize", "polled"}

Called(c) ==
  \E step \in FirstSteps, s \in Secret \cup {None}, r \in Root \cup {None},
     flag \in BOOLEAN : CallOf(c, step, s, r, flag)

LEMMA Constants ==
  /\ None \notin Secret /\ None \notin Root /\ None \notin Fingerprint
  /\ Worker \in Callers /\ Owners \subseteq Callers
  /\ Blank \in Rows /\ NoSession \in [state : {"NONE", "WAITING_USER",
        "AUTHORIZED"}, secret : Secret \cup {None}, root : Root \cup {None}]
  BY DriveAssumption DEF Callers, Blank, Rows, States, NoSession

LEMMA LadderFacts ==
  /\ Top = 10 /\ Top \in Nat
  /\ \A k \in 1 .. Top :
       /\ k \in Nat /\ k >= 1 /\ k <= 10
       /\ Ladder[k] \in States /\ Ladder[k] # "DEGRADED"
       /\ Ladder[k] = "READY" => k >= 8
  /\ {"READY", "NEEDS_ACTION", "DEGRADED", "DISCONNECTED"} \subseteq States
  <1>1. Top = 10
    BY DEF Top
  <1>2. ASSUME NEW k \in 1 .. Top
        PROVE  Ladder[k] # "DEGRADED" /\ (Ladder[k] = "READY" => k >= 8)
    <2>1. k \in {1, 2, 3, 4, 5, 6, 7, 8, 9, 10}
      BY <1>1
    <2>2. QED
      BY <2>1 DEF Ladder
  <1>3. QED
    BY <1>1, <1>2 DEF States

LEMMA SpendType ==
  ASSUME used \in Nat, Spend
  PROVE  used' \in Nat
  BY DEF Spend

\* An operation that is asked for begins a call.
LEMMA CallEffect ==
  ASSUME TypeOK, HasIds, NEW c \in Callers,
         OwnerCall(c) \/ (c = Worker /\ Scan)
  PROVE  Called(c)
  <1> USE Constants DEF TypeOK, Called, CallOf, FirstSteps, Begin, drive
  <1>1. ASSUME NEW s \in Secret, NEW r \in Root, Connect(c, s, r)
        PROVE  Called(c)
    BY <1>1 DEF Connect
  <1>2. CASE Publish(c) \/ VerifyNow(c) \/ Disconnect(c)
    BY <1>2 DEF Publish, VerifyNow, Disconnect
  <1>3. ASSUME NEW r \in Root, Reauthorize(c, r) \/ Authorize(c, r)
        PROVE  Called(c)
    BY <1>3 DEF Reauthorize, Authorize
  <1>4. ASSUME NEW r \in Root, binding.secret # None,
               Begin(c, "connect", binding.secret, r, FALSE)
        PROVE  Called(c)
    <2>1. binding.secret \in Secret
      BY <1>4 DEF Rows
    <2>2. QED
      BY <1>4, <2>1
  <1>5. ASSUME NEW r \in Root, Reconnect(c, r) PROVE Called(c)
    BY <1>3, <1>4, <1>5 DEF Reconnect
  <1>6. ASSUME NEW s \in Secret, PollGranted(c, s) PROVE Called(c)
    <2>1. oauth.root # None /\ oauth.root \in Root \cup {None}
      BY <1>6 DEF PollGranted, HasIds, SessionHasIds
    <2>2. status' \in [Secret -> {"NONE", "ACTIVE", "DISABLED"}]
      BY <1>6 DEF PollGranted
    <2>3. \A d \in Secret : status[d] # "NONE" => status'[d] = status[d]
      BY <1>6 DEF PollGranted
    <2>4. QED
      BY <1>6, <2>1, <2>2, <2>3 DEF PollGranted
  <1>7. CASE PollAgain(c)
    <2>1. /\ oauth.root # None /\ oauth.root \in Root \cup {None}
          /\ oauth.secret # None /\ oauth.secret \in Secret \cup {None}
      BY <1>7 DEF PollAgain, HasIds, SessionHasIds
    <2>2. QED
      BY <1>7, <2>1 DEF PollAgain
  <1>8. CASE c = Worker /\ Scan
    <2>1. CASE Begin(c, "publish", None, None, FALSE)
      BY <2>1
    <2>2. CASE binding.state = "DEGRADED"
                 /\ Begin(c, "connect", binding.secret, binding.root, FALSE)
      <3>1. /\ binding.secret # None /\ binding.root # None
            /\ binding.secret \in Secret /\ binding.root \in Root
        BY <2>2 DEF HasIds, RowHasIds, Rows
      <3>2. QED
        BY <2>2, <3>1
    <2>3. QED
      BY <1>8, <2>1, <2>2 DEF Scan
  <1> HIDE DEF Called, CallOf, FirstSteps, Begin
  <1>9. QED
    BY <1>1, <1>2, <1>3, <1>5, <1>6, <1>7, <1>8 DEF OwnerCall

LEMMA NextCases ==
  ASSUME TypeOK, HasIds, [Next]_vars
  PROVE  \/ \E c \in Callers : Proceed(c) \/ Crash(c) \/ Called(c)
         \/ PollEnds \/ UNCHANGED vars
         \/ \E s \in Secret : Revoke(s)
         \/ \E p \in Fingerprint : Change(p)
  BY CallEffect, Constants DEF Next

\* TypeOK in three parts.
CallTypes ==
  /\ pc \in [Callers -> Steps]
  /\ rung \in [Callers -> 1 .. Top]
  /\ mine \in [Callers -> Rows]
  /\ manual \in [Callers -> BOOLEAN]
  /\ seen \in [Callers -> Fingerprint \cup {None}]
  /\ lone \subseteq Callers

GhostTypes == sound \in BOOLEAN /\ whole \in BOOLEAN

SharedTypes ==
  /\ binding \in Rows
  /\ status \in [Secret -> {"NONE", "ACTIVE", "DISABLED"}]
  /\ revoked \subseteq Secret
  /\ copies \in [Root -> Nat]
  /\ protocol \in [Root -> Root \cup {None}]
  /\ markdown \in [Root -> Fingerprint \cup {None}]
  /\ json \in [Root -> Fingerprint \cup {None}]
  /\ world \in Fingerprint
  /\ oauth \in [state : {"NONE", "WAITING_USER", "AUTHORIZED"},
                secret : Secret \cup {None}, root : Root \cup {None}]
  /\ used \in Nat

Typed == CallTypes /\ GhostTypes /\ SharedTypes

LEMMA TypeParts == TypeOK => Typed
  BY DEF TypeOK, Typed, CallTypes, GhostTypes, SharedTypes

LEMMA IdsOf ==
  ASSUME HasIds, NEW c \in Callers
  PROVE  RowHasIds /\ SessionHasIds /\ Needed(c)
  BY DEF HasIds

LEMMA RowTypes ==
  ASSUME NEW row \in Rows
  PROVE  /\ row.state \in States /\ row.secret \in Secret \cup {None}
         /\ row.root \in Root \cup {None} /\ row.tree \in Root \cup {None}
         /\ row.proto \in Root \cup {None} /\ row.report \in Root \cup {None}
         /\ row.print \in Fingerprint \cup {None}
         /\ \A st \in States : [row EXCEPT !.state = st] \in Rows
         /\ \A s \in Secret \cup {None}, r \in Root \cup {None} :
              [row EXCEPT !.secret = s, !.root = r] \in Rows
         /\ \A r \in Root \cup {None} : [row EXCEPT !.tree = r] \in Rows
         /\ \A r \in Root \cup {None} : [row EXCEPT !.proto = r] \in Rows
         /\ \A r \in Root \cup {None}, p \in Fingerprint \cup {None} :
              [row EXCEPT !.report = r, !.print = p] \in Rows
         /\ \A id \in Root \cup {None} : Target(row, id) \in Root \cup {None}
         /\ \A id \in Root \cup {None} :
              row.tree # None => Target(row, id) \in Root
  BY Constants DEF Rows, Target

LEMMA ReturnTypes ==
  ASSUME CallTypes, NEW c \in Callers, Return(c)
  PROVE  CallTypes'
  BY Constants, LadderFacts DEF CallTypes, Return, Goto, Hold, Steps

LEMMA ClimbTypes ==
  ASSUME CallTypes, GhostTypes, NEW c \in Callers, NEW row \in Rows,
         Climb(c, row)
  PROVE  CallTypes' /\ GhostTypes' /\ binding' \in Rows
  <1>1. rung[c] \in 1 .. Top /\ [row EXCEPT !.state = Ladder[rung[c]]] \in Rows
    BY RowTypes, LadderFacts DEF CallTypes
  <1>2. rung' \in [Callers -> 1 .. Top]
    BY <1>1, LadderFacts DEF CallTypes, Climb
  <1>3. mine' \in [Callers -> Rows] /\ binding' \in Rows
    BY <1>1, Constants DEF CallTypes, Climb, Hold
  <1>4. pc' \in [Callers -> Steps] /\ manual' \in [Callers -> BOOLEAN]
    BY DEF CallTypes, Climb, Goto, Steps
  <1>5. seen' = seen /\ lone' = lone /\ GhostTypes'
    BY DEF Climb, GhostTypes
  <1>6. QED
    BY <1>2, <1>3, <1>4, <1>5 DEF CallTypes

LEMMA FallTypes ==
  ASSUME CallTypes, GhostTypes, NEW c \in Callers, NEW st \in States,
         Fall(c, st)
  PROVE  CallTypes' /\ GhostTypes' /\ binding' \in Rows
  <1>1. mine[c] \in Rows
    BY DEF CallTypes
  <1>2. QED
    BY <1>1, ReturnTypes, RowTypes DEF Fall, GhostTypes, ghosts

LEMMA EnterTypes ==
  ASSUME CallTypes, GhostTypes, NEW c \in Callers, NEW step \in Steps,
         NEW s \in Secret \cup {None}, NEW r \in Root \cup {None},
         NEW flag \in BOOLEAN, Enter(c, step, s, r, flag)
  PROVE  CallTypes' /\ GhostTypes'
  <1>1. [Blank EXCEPT !.secret = s, !.root = r] \in Rows
    BY Constants, RowTypes
  <1>2. QED
    BY <1>1 DEF CallTypes, GhostTypes, Enter, Goto, Hold

\* What the next step of a call may use.
LEMMA Arguments ==
  ASSUME TypeOK, HasIds, NEW c \in Callers
  PROVE  /\ mine[c] \in Rows /\ rung[c] \in 1 .. Top
         /\ pc[c] \in {"climb", "create"} =>
              mine[c].root \in Root /\ mine[c].secret \in Secret
         /\ pc[c] = "climb" /\ rung[c] >= 4 => mine[c].tree \in Root
         /\ pc[c] = "disable" => mine[c].secret \in Secret
         /\ Copying(c) => mine[c].tree \in Root /\ mine[c].secret \in Secret
         /\ seen[c] \in Fingerprint \cup {None}
  <1>1. mine[c] \in Rows /\ rung[c] \in 1 .. Top
        /\ seen[c] \in Fingerprint \cup {None}
    BY DEF TypeOK
  <1>2. Needed(c)
    BY DEF HasIds
  <1>3. QED
    BY <1>1, <1>2, RowTypes DEF Needed

\* What every step of connect does that climbs, falls or looks for the folder.
Climbs(c) ==
  /\ pc[c] \in {"climb", "create"}
  /\ UNCHANGED <<status, revoked, markdown, json, world, oauth>>
  /\ copies' \in [Root -> Nat] /\ protocol' \in [Root -> Root \cup {None}]
  /\ used' \in Nat
  /\ \/ \E row \in Rows :
          /\ Climb(c, row)
          /\ row.secret = mine[c].secret /\ row.root = mine[c].root
          /\ row.report = mine[c].report /\ row.print = mine[c].print
          /\ rung[c] >= 3 => row.tree # None
          /\ rung[c] >= 7 => row = mine[c] /\ UNCHANGED <<copies, protocol>>
     \/ \E st \in {"NEEDS_ACTION", "DEGRADED"} : Fall(c, st)
     \/ /\ pc[c] = "climb" /\ rung[c] = 3 /\ Goto(c, "create")
        /\ UNCHANGED <<binding, copies, protocol, locals, ghosts>>

LEMMA ClimbsEffect ==
  ASSUME TypeOK, Typed, HasIds, NEW c \in Callers, ConnectStep(c),
      ~ConnectRead(c)
  PROVE  Climbs(c)
  <1> USE DEF drive, locals, ghosts, Typed
  <1>1. CASE Certify(c)
    <2>1. /\ pc[c] = "climb" /\ mine[c] \in Rows /\ Climb(c, mine[c])
          /\ rung[c] >= 3 => mine[c].tree # None
      BY <1>1, Arguments, LadderFacts, Constants DEF Certify, At
    <2>2. QED
      BY <1>1, <2>1 DEF Certify, Climbs, SharedTypes
  <1>2. CASE Authenticate(c)
    <2>1. /\ pc[c] = "climb" /\ mine[c] \in Rows
          /\ rung[c] >= 3 => mine[c].tree # None
      BY <1>2, Arguments, LadderFacts, Constants DEF Authenticate, At
    <2>2. QED
      BY <1>2, <2>1 DEF Authenticate, Climbs, SharedTypes
  <1>3. CASE FindRoot(c)
    <2> DEFINE row == [mine[c] EXCEPT !.tree = mine[c].root]
    <2>1. /\ pc[c] = "climb" /\ rung[c] = 3
          /\ mine[c] \in Rows /\ mine[c].root \in Root
      BY <1>3, Arguments DEF FindRoot, At
    <2>2. /\ row \in Rows /\ row.tree # None
          /\ row.secret = mine[c].secret /\ row.root = mine[c].root
          /\ row.report = mine[c].report /\ row.print = mine[c].print
      BY <2>1, Constants DEF Rows
    <2>3. \/ Climb(c, row) \/ Fall(c, "NEEDS_ACTION")
          \/ Goto(c, "create") /\ UNCHANGED <<binding, locals, ghosts>>
      BY <1>3 DEF FindRoot
    <2>4. /\ UNCHANGED <<status, revoked, copies, protocol, markdown, json,
                         world, oauth, used>>
      BY <1>3 DEF FindRoot
    <2> HIDE DEF row
    <2>5. QED
      BY <2>1, <2>2, <2>3, <2>4 DEF Climbs, SharedTypes
  <1>4. CASE CreateRoot(c)
    <2> DEFINE row == [mine[c] EXCEPT !.tree = mine[c].root]
    <2>1. /\ pc[c] = "create" /\ rung[c] = 3
          /\ mine[c] \in Rows /\ mine[c].root \in Root
      BY <1>4, IdsOf, Arguments DEF CreateRoot, Needed
    <2>2. /\ row \in Rows /\ row.tree # None
          /\ row.secret = mine[c].secret /\ row.root = mine[c].root
          /\ row.report = mine[c].report /\ row.print = mine[c].print
      BY <2>1, Constants DEF Rows
    <2>3. Climb(c, row) /\ UNCHANGED <<status, revoked, protocol, markdown,
                                      json, world, oauth, used>>
      BY <1>4 DEF CreateRoot
    <2>4. copies' \in [Root -> Nat]
      <3>1. copies[mine[c].root] \in Nat
        BY <2>1 DEF SharedTypes
      <3>2. QED
        BY <1>4, <2>1, <3>1 DEF CreateRoot, SharedTypes
    <2> HIDE DEF row
    <2>5. QED
      BY <2>1, <2>2, <2>3, <2>4 DEF Climbs, SharedTypes
  <1>5. CASE WriteProtocol(c)
    <2> DEFINE p == Target(mine[c], mine[c].proto)
               row == [mine[c] EXCEPT !.proto = p]
    <2>1. /\ pc[c] = "climb" /\ rung[c] = 4
          /\ mine[c] \in Rows /\ mine[c].tree \in Root
      BY <1>5, Arguments, LadderFacts DEF WriteProtocol, At
    <2>2. p \in Root \cup {None}
      BY <2>1, RowTypes
    <2>3. /\ row \in Rows /\ row.tree # None
          /\ row.secret = mine[c].secret /\ row.root = mine[c].root
          /\ row.report = mine[c].report /\ row.print = mine[c].print
      BY <2>1, <2>2, Constants DEF Rows
    <2>4. Climb(c, row) /\ UNCHANGED <<status, revoked, copies, markdown,
                                      json, world, oauth, used>>
      BY <1>5 DEF WriteProtocol
    <2>5. protocol' \in [Root -> Root \cup {None}]
      BY <1>5, <2>1 DEF WriteProtocol, SharedTypes
    <2> HIDE DEF row
    <2>6. QED
      BY <2>1, <2>3, <2>4, <2>5 DEF Climbs, SharedTypes
  <1>6. CASE ReadProtocol(c)
    <2>1. /\ pc[c] = "climb" /\ mine[c] \in Rows
          /\ rung[c] >= 3 => mine[c].tree # None
      BY <1>6, Arguments, LadderFacts, Constants DEF ReadProtocol, At
    <2>2. QED
      BY <1>6, <2>1 DEF ReadProtocol, Climbs, SharedTypes
  <1>7. CASE UpdateProtocol(c)
    <2>1. /\ pc[c] = "climb" /\ rung[c] = 6
          /\ mine[c] \in Rows /\ mine[c].tree \in Root
      BY <1>7, Arguments, LadderFacts DEF UpdateProtocol, At
    <2>2. protocol' \in [Root -> Root \cup {None}]
      BY <1>7, <2>1 DEF UpdateProtocol, SharedTypes
    <2>3. QED
      BY <1>7, <2>1, <2>2, Constants DEF UpdateProtocol, Climbs, SharedTypes
  <1>8. CASE ConnectFails(c)
    BY <1>8, SpendType DEF ConnectFails, At, Climbs, SharedTypes
  <1> HIDE DEF drive, locals, ghosts, Typed
  <1>9. QED
    BY <1>1, <1>2, <1>3, <1>4, <1>5, <1>6, <1>7, <1>8
    DEF ConnectStep

\* Every action keeps every variable in its set.
LEMMA TypedStep ==
  ASSUME TypeOK, Typed, HasIds, [Next]_vars
  PROVE  Typed'
  <1> USE Constants DEF drive, locals, ghosts, vars, Typed
  <1>1. ASSUME NEW c \in Callers, ConnectRead(c) PROVE Typed'
    <2>1. mine[c] \in Rows /\ binding \in Rows
      BY <1>1, Arguments DEF SharedTypes
    <2>2. CASE Return(c)
      BY <1>1, <2>2, ReturnTypes DEF ConnectRead, SharedTypes, GhostTypes
    <2>3. CASE ~Return(c)
      <3>1. mine' \in [Callers -> Rows]
        <4>1. PICK row \in Rows : Hold(c, row)
          BY <1>1, <2>1, <2>3, RowTypes DEF ConnectRead
        <4>2. QED
          BY <4>1 DEF Hold, CallTypes
      <3>2. pc' \in [Callers -> Steps] /\ UNCHANGED <<rung, manual, lone>>
        BY <1>1, <2>3 DEF ConnectRead, CallTypes, Goto, Steps
      <3>3. seen' \in [Callers -> Fingerprint \cup {None}]
        BY <1>1, <2>3 DEF ConnectRead, CallTypes, SharedTypes
      <3>4. QED
        BY <1>1, <3>1, <3>2, <3>3 DEF ConnectRead, SharedTypes, GhostTypes,
            CallTypes
    <2>4. QED
      BY <2>2, <2>3
  <1>2. ASSUME NEW c \in Callers, Climbs(c) PROVE Typed'
    <2>1. CallTypes' /\ GhostTypes' /\ binding' \in Rows
      <3>1. CASE Goto(c, "create") /\ UNCHANGED <<binding, locals, ghosts>>
        BY <3>1 DEF Goto, Steps, CallTypes, GhostTypes, SharedTypes
      <3>2. QED
        BY <1>2, <3>1, ClimbTypes, FallTypes DEF Climbs, States
    <2>2. QED
      BY <1>2, <2>1 DEF Climbs, SharedTypes
  <1>3. ASSUME NEW c \in Callers, PublishRead(c) PROVE Typed'
    <2>1. mine[c] \in Rows /\ binding \in Rows
      BY <1>3, Arguments DEF SharedTypes
    <2>2. CASE Return(c)
      BY <1>3, <2>2, ReturnTypes DEF PublishRead, SharedTypes, GhostTypes
    <2>3. CASE ~Return(c)
      <3>1. mine' \in [Callers -> Rows]
        <4>1. PICK row \in Rows : Hold(c, row)
          BY <1>3, <2>1, <2>3, RowTypes DEF PublishRead
        <4>2. QED
          BY <4>1 DEF Hold, CallTypes
      <3>2. pc' \in [Callers -> Steps] /\ UNCHANGED <<rung, manual, lone>>
        BY <1>3, <2>3 DEF PublishRead, CallTypes, Goto, Steps
      <3>3. seen' \in [Callers -> Fingerprint \cup {None}]
        BY <1>3, <2>3 DEF PublishRead, CallTypes, SharedTypes
      <3>4. QED
        BY <1>3, <3>1, <3>2, <3>3 DEF PublishRead, SharedTypes, GhostTypes,
            CallTypes
    <2>4. QED
      BY <2>2, <2>3
  <1>4. ASSUME NEW c \in Callers, PublishCredential(c) PROVE Typed'
    <2>1. used' \in Nat
      BY <1>4, SpendType DEF PublishCredential, SharedTypes
    <2>2. CallTypes'
      BY <1>4, ReturnTypes DEF PublishCredential, CallTypes, Goto, Steps
    <2>3. QED
      BY <1>4, <2>1, <2>2 DEF PublishCredential, SharedTypes, GhostTypes
  <1>5. ASSUME NEW c \in Callers, WriteMarkdown(c) PROVE Typed'
    <2>1. markdown' \in [Root -> Fingerprint \cup {None}]
      BY <1>5, Arguments DEF WriteMarkdown, SharedTypes
    <2>2. CallTypes'
      BY <1>5 DEF WriteMarkdown, CallTypes, Goto, Steps
    <2>3. QED
      BY <1>5, <2>1, <2>2 DEF WriteMarkdown, SharedTypes, GhostTypes
  <1>6. ASSUME NEW c \in Callers, WriteJson(c) PROVE Typed'
    <2>1. json' \in [Root -> Fingerprint \cup {None}]
      BY <1>6, Arguments DEF WriteJson, SharedTypes
    <2>2. CallTypes'
      BY <1>6 DEF WriteJson, CallTypes, Goto, Steps
    <2>3. QED
      BY <1>6, <2>1, <2>2 DEF WriteJson, SharedTypes, GhostTypes
  <1>7. ASSUME NEW c \in Callers, PublishSave(c) PROVE Typed'
    <2>1. mine[c] \in Rows /\ seen[c] \in Fingerprint \cup {None}
      BY <1>7, Arguments
    <2>2. binding' \in Rows
      BY <1>7, <2>1, RowTypes DEF PublishSave
    <2>3. QED
      BY <1>7, <2>2, ReturnTypes DEF PublishSave, SharedTypes, GhostTypes
  <1>8. ASSUME NEW c \in Callers, PublishFails(c) PROVE Typed'
    <2>1. binding' \in Rows
      BY <1>8, Arguments, RowTypes, LadderFacts DEF PublishFails
    <2>2. QED
      BY <1>8, <2>1, ReturnTypes, SpendType DEF PublishFails, SharedTypes,
         GhostTypes
  <1>9. ASSUME NEW c \in Callers, VerifyRead(c) PROVE Typed'
    <2>1. mine[c] \in Rows /\ binding \in Rows
      BY <1>9, Arguments DEF SharedTypes
    <2>2. CASE Return(c)
      BY <1>9, <2>2, ReturnTypes DEF VerifyRead, SharedTypes, GhostTypes
    <2>3. CASE ~Return(c)
      <3>1. mine' \in [Callers -> Rows]
        <4>1. PICK row \in Rows : Hold(c, row)
          BY <1>9, <2>1, <2>3, RowTypes DEF VerifyRead
        <4>2. QED
          BY <4>1 DEF Hold, CallTypes
      <3>2. pc' \in [Callers -> Steps] /\ UNCHANGED <<rung, manual, lone>>
        BY <1>9, <2>3 DEF VerifyRead, CallTypes, Goto, Steps
      <3>3. seen' \in [Callers -> Fingerprint \cup {None}]
        BY <1>9, <2>3 DEF VerifyRead, CallTypes, SharedTypes
      <3>4. QED
        BY <1>9, <3>1, <3>2, <3>3 DEF VerifyRead, SharedTypes, GhostTypes,
            CallTypes
    <2>4. QED
      BY <2>2, <2>3
  <1>10. ASSUME NEW c \in Callers, VerifyCheck(c) PROVE Typed'
    <2>1. CallTypes' /\ GhostTypes' /\ binding' \in Rows
      BY <1>10, FallTypes, LadderFacts DEF VerifyCheck
    <2>2. used' \in Nat
      BY <1>10, SpendType DEF VerifyCheck, SharedTypes
    <2>3. QED
      BY <1>10, <2>1, <2>2 DEF VerifyCheck, SharedTypes
  <1>11. ASSUME NEW c \in Callers, DisconnectRead(c) PROVE Typed'
    <2>1. mine[c] \in Rows /\ binding \in Rows
      BY <1>11, Arguments DEF SharedTypes
    <2>2. CASE Return(c)
      BY <1>11, <2>2, ReturnTypes DEF DisconnectRead, SharedTypes, GhostTypes
    <2>3. CASE ~Return(c)
      <3>1. mine' \in [Callers -> Rows]
        <4>1. PICK row \in Rows : Hold(c, row)
          BY <1>11, <2>1, <2>3, RowTypes DEF DisconnectRead
        <4>2. QED
          BY <4>1 DEF Hold, CallTypes
      <3>2. pc' \in [Callers -> Steps] /\ UNCHANGED <<rung, manual, lone>>
        BY <1>11, <2>3 DEF DisconnectRead, CallTypes, Goto, Steps
      <3>3. seen' \in [Callers -> Fingerprint \cup {None}]
        BY <1>11, <2>3 DEF DisconnectRead, CallTypes, SharedTypes
      <3>4. QED
        BY <1>11, <3>1, <3>2, <3>3 DEF DisconnectRead, SharedTypes, GhostTypes,
            CallTypes
    <2>4. QED
      BY <2>2, <2>3
  <1>12. ASSUME NEW c \in Callers, DisableSecret(c) PROVE Typed'
    <2>1. status' \in [Secret -> {"NONE", "ACTIVE", "DISABLED"}]
      BY <1>12 DEF DisableSecret, SharedTypes
    <2>2. QED
      BY <1>12, <2>1 DEF DisableSecret, SharedTypes, CallTypes, GhostTypes,
          Goto,
         Steps
  <1>13. ASSUME NEW c \in Callers, Unbind(c) PROVE Typed'
    <2>1. mine[c].root \in Root \cup {None}
      BY <1>13, Arguments, RowTypes
    <2>2. binding' \in Rows
      BY <1>13, <2>1, LadderFacts, Constants DEF Unbind, Rows, Blank
    <2>3. QED
      BY <1>13, <2>2 DEF Unbind, SharedTypes, CallTypes, GhostTypes, Goto,
          Steps
  <1>14. ASSUME NEW c \in Callers, ClearSession(c) PROVE Typed'
    <2>1. CallTypes'
      BY <1>14, ReturnTypes DEF ClearSession, CallTypes, Goto, Steps
    <2>2. QED
      BY <1>14, <2>1 DEF ClearSession, SharedTypes, GhostTypes
  <1>15. ASSUME NEW c \in Callers, AuthorizeCheck(c) PROVE Typed'
    <2>1. CallTypes'
      BY <1>15, ReturnTypes DEF AuthorizeCheck, CallTypes, Goto, Steps
    <2>2. QED
      BY <1>15, <2>1 DEF AuthorizeCheck, SharedTypes, GhostTypes
  <1>16. ASSUME NEW c \in Callers, AuthorizeStart(c) PROVE Typed'
    <2>1. mine[c].root \in Root \cup {None}
      BY <1>16, Arguments, RowTypes
    <2>2. QED
      BY <1>16, <2>1, ReturnTypes DEF AuthorizeStart, SharedTypes, GhostTypes
  <1>17. ASSUME NEW c \in Callers, Polled(c) PROVE Typed'
    <2>1. CallTypes'
      BY <1>17, ReturnTypes DEF Polled, CallTypes, Goto, Steps
    <2>2. QED
      BY <1>17, <2>1 DEF Polled, SharedTypes, GhostTypes
  <1>18. ASSUME NEW c \in Callers, Crash(c) PROVE Typed'
    <2>1. CallTypes'
      BY <1>18, Constants, LadderFacts DEF Crash, CallTypes, Steps
    <2>2. QED
      BY <1>18, <2>1, SpendType DEF Crash, SharedTypes, GhostTypes
  <1>19. ASSUME NEW c \in Callers, Called(c) PROVE Typed'
    <2>1. CallTypes' /\ GhostTypes'
      BY <1>19, EnterTypes DEF Called, CallOf, FirstSteps, Steps
    <2>2. oauth' \in [state : {"NONE", "WAITING_USER", "AUTHORIZED"},
                      secret : Secret \cup {None}, root : Root \cup {None}]
      BY <1>19 DEF Called, CallOf, SharedTypes
    <2>3. QED
      BY <1>19, <2>1, <2>2 DEF Called, CallOf, SharedTypes
  <1>20. CASE PollEnds
    BY <1>20 DEF PollEnds, SharedTypes, CallTypes, GhostTypes
  <1>21. ASSUME NEW s \in Secret, Revoke(s) PROVE Typed'
    BY <1>21, SpendType DEF Revoke, SharedTypes, CallTypes, GhostTypes
  <1>22. ASSUME NEW p \in Fingerprint, Change(p) PROVE Typed'
    BY <1>22, SpendType DEF Change, SharedTypes, CallTypes, GhostTypes
  <1>23. CASE UNCHANGED vars
    BY <1>23 DEF SharedTypes, CallTypes, GhostTypes
  <1> HIDE DEF drive, locals, ghosts, vars, Typed
  <1>24. QED
    BY <1>1, <1>2, <1>3, <1>4, <1>5, <1>6, <1>7, <1>8, <1>9, <1>10, <1>11,
        <1>12, <1>13, <1>14, <1>15, <1>16, <1>17, <1>18, <1>19, <1>20, <1>21,
        <1>22, <1>23, NextCases, ClimbsEffect
    DEF Proceed, ConnectStep, ReportStep, BindStep

LEMMA TypeStep ==
  ASSUME TypeOK, HasIds, [Next]_vars
  PROVE  TypeOK'
  <1>1. Typed'
    BY TypeParts, TypedStep
  <1>2. QED
    BY <1>1 DEF Typed, TypeOK, CallTypes, GhostTypes, SharedTypes

\* What any step of a call leaves alone, and how the call counts as lone.
StepShape(c) ==
  /\ ~Idle(c)
  /\ \A d \in Callers \ {c} :
       /\ pc'[d] = pc[d] /\ rung'[d] = rung[d] /\ mine'[d] = mine[d]
       /\ manual'[d] = manual[d] /\ seen'[d] = seen[d]
  /\ \/ pc'[c] # "idle" /\ lone' = lone
     \/ pc'[c] = "idle" /\ lone' = lone \ {c}
  /\ sound' => sound \/ c \in lone
  /\ whole' => whole \/ c \in lone

LEMMA ReturnShape ==
  ASSUME CallTypes, NEW c \in Callers, Return(c), ~Idle(c),
         sound' => sound \/ c \in lone, whole' => whole \/ c \in lone
  PROVE  StepShape(c)
  BY DEF CallTypes, Return, Goto, Hold, StepShape

LEMMA ClimbShape ==
  ASSUME CallTypes, NEW c \in Callers, NEW row \in Rows, Climb(c, row),
      ~Idle(c)
  PROVE  StepShape(c)
  BY DEF CallTypes, Climb, Goto, Hold, StepShape

LEMMA FallShape ==
  ASSUME CallTypes, NEW c \in Callers, NEW st \in States, Fall(c, st), ~Idle(c)
  PROVE  StepShape(c)
  BY ReturnShape DEF Fall, ghosts

LEMMA MoveShape ==
  ASSUME CallTypes, NEW c \in Callers, NEW step \in Steps \ {"idle"},
         Goto(c, step), UNCHANGED <<rung, lone, ghosts>>,
         mine' = mine \/ \E row \in Rows : Hold(c, row),
         \A d \in Callers \ {c} : seen'[d] = seen[d] /\ manual'[d] = manual[d],
         ~Idle(c)
  PROVE  StepShape(c)
  BY DEF CallTypes, Goto, Hold, ghosts, StepShape

LEMMA Shapes ==
  ASSUME TypeOK, Typed, HasIds, NEW c \in Callers, Proceed(c)
  PROVE  StepShape(c)
  <1> USE DEF locals, ghosts, Typed
  <1>1. CASE ConnectRead(c)
    <2>1. ~Idle(c)
      BY <1>1 DEF ConnectRead, Idle
    <2>2. \/ Return(c) /\ UNCHANGED ghosts
          \/ /\ \E step \in Steps \ {"idle"} : Goto(c, step)
             /\ mine' = mine \/ \E row \in Rows : Hold(c, row)
             /\ \A d \in Callers \ {c} :
                  seen'[d] = seen[d] /\ manual'[d] = manual[d]
             /\ UNCHANGED <<rung, lone, ghosts>>
      BY <1>1, Arguments, RowTypes DEF ConnectRead, CallTypes, SharedTypes,
          Steps
    <2>3. QED
      BY <2>1, <2>2, ReturnShape, MoveShape
  <1>2. CASE Climbs(c)
    BY <1>2, ClimbShape, FallShape, MoveShape DEF Climbs, Idle, Steps, States
  <1>3. CASE PublishRead(c)
    <2>1. ~Idle(c)
      BY <1>3 DEF PublishRead, Idle
    <2>2. \/ Return(c) /\ UNCHANGED ghosts
          \/ /\ \E step \in Steps \ {"idle"} : Goto(c, step)
             /\ mine' = mine \/ \E row \in Rows : Hold(c, row)
             /\ \A d \in Callers \ {c} :
                  seen'[d] = seen[d] /\ manual'[d] = manual[d]
             /\ UNCHANGED <<rung, lone, ghosts>>
      BY <1>3, Arguments, RowTypes DEF PublishRead, CallTypes, SharedTypes,
          Steps
    <2>3. QED
      BY <2>1, <2>2, ReturnShape, MoveShape
  <1>4. CASE PublishCredential(c)
    <2>1. ~Idle(c)
      BY <1>4 DEF PublishCredential, Idle
    <2>2. \/ Return(c) /\ UNCHANGED ghosts
          \/ /\ \E step \in Steps \ {"idle"} : Goto(c, step)
             /\ mine' = mine \/ \E row \in Rows : Hold(c, row)
             /\ \A d \in Callers \ {c} :
                  seen'[d] = seen[d] /\ manual'[d] = manual[d]
             /\ UNCHANGED <<rung, lone, ghosts>>
      BY <1>4, Arguments, RowTypes DEF PublishCredential, CallTypes,
          SharedTypes, Steps
    <2>3. QED
      BY <2>1, <2>2, ReturnShape, MoveShape
  <1>5. CASE WriteMarkdown(c)
    <2>1. ~Idle(c)
      BY <1>5 DEF WriteMarkdown, Idle
    <2>2. \/ Return(c) /\ UNCHANGED ghosts
          \/ /\ \E step \in Steps \ {"idle"} : Goto(c, step)
             /\ mine' = mine \/ \E row \in Rows : Hold(c, row)
             /\ \A d \in Callers \ {c} :
                  seen'[d] = seen[d] /\ manual'[d] = manual[d]
             /\ UNCHANGED <<rung, lone, ghosts>>
      BY <1>5, Arguments, RowTypes DEF WriteMarkdown, CallTypes, SharedTypes,
          Steps
    <2>3. QED
      BY <2>1, <2>2, ReturnShape, MoveShape
  <1>6. CASE WriteJson(c)
    <2>1. ~Idle(c)
      BY <1>6 DEF WriteJson, Idle
    <2>2. \/ Return(c) /\ UNCHANGED ghosts
          \/ /\ \E step \in Steps \ {"idle"} : Goto(c, step)
             /\ mine' = mine \/ \E row \in Rows : Hold(c, row)
             /\ \A d \in Callers \ {c} :
                  seen'[d] = seen[d] /\ manual'[d] = manual[d]
             /\ UNCHANGED <<rung, lone, ghosts>>
      BY <1>6, Arguments, RowTypes DEF WriteJson, CallTypes, SharedTypes, Steps
    <2>3. QED
      BY <2>1, <2>2, ReturnShape, MoveShape
  <1>7. CASE PublishSave(c)
    BY <1>7, ReturnShape DEF PublishSave, Idle
  <1>8. CASE PublishFails(c)
    BY <1>8, ReturnShape DEF PublishFails, Idle
  <1>9. CASE VerifyRead(c)
    <2>1. ~Idle(c)
      BY <1>9 DEF VerifyRead, Idle
    <2>2. \/ Return(c) /\ UNCHANGED ghosts
          \/ /\ \E step \in Steps \ {"idle"} : Goto(c, step)
             /\ mine' = mine \/ \E row \in Rows : Hold(c, row)
             /\ \A d \in Callers \ {c} :
                  seen'[d] = seen[d] /\ manual'[d] = manual[d]
             /\ UNCHANGED <<rung, lone, ghosts>>
      BY <1>9, Arguments, RowTypes DEF VerifyRead, CallTypes, SharedTypes,
          Steps
    <2>3. QED
      BY <2>1, <2>2, ReturnShape, MoveShape
  <1>10. CASE VerifyCheck(c)
    BY <1>10, FallShape, LadderFacts DEF VerifyCheck, Idle
  <1>11. CASE DisconnectRead(c)
    <2>1. ~Idle(c)
      BY <1>11 DEF DisconnectRead, Idle
    <2>2. \/ Return(c) /\ UNCHANGED ghosts
          \/ /\ \E step \in Steps \ {"idle"} : Goto(c, step)
             /\ mine' = mine \/ \E row \in Rows : Hold(c, row)
             /\ \A d \in Callers \ {c} :
                  seen'[d] = seen[d] /\ manual'[d] = manual[d]
             /\ UNCHANGED <<rung, lone, ghosts>>
      BY <1>11, Arguments, RowTypes DEF DisconnectRead, CallTypes, SharedTypes,
          Steps
    <2>3. QED
      BY <2>1, <2>2, ReturnShape, MoveShape
  <1>12. CASE DisableSecret(c)
    <2>1. ~Idle(c)
      BY <1>12 DEF DisableSecret, Idle
    <2>2. \/ Return(c) /\ UNCHANGED ghosts
          \/ /\ \E step \in Steps \ {"idle"} : Goto(c, step)
             /\ mine' = mine \/ \E row \in Rows : Hold(c, row)
             /\ \A d \in Callers \ {c} :
                  seen'[d] = seen[d] /\ manual'[d] = manual[d]
             /\ UNCHANGED <<rung, lone, ghosts>>
      BY <1>12, Arguments, RowTypes DEF DisableSecret, CallTypes, SharedTypes,
          Steps
    <2>3. QED
      BY <2>1, <2>2, ReturnShape, MoveShape
  <1>13. CASE Unbind(c)
    <2>1. ~Idle(c)
      BY <1>13 DEF Unbind, Idle
    <2>2. \/ Return(c) /\ UNCHANGED ghosts
          \/ /\ \E step \in Steps \ {"idle"} : Goto(c, step)
             /\ mine' = mine \/ \E row \in Rows : Hold(c, row)
             /\ \A d \in Callers \ {c} :
                  seen'[d] = seen[d] /\ manual'[d] = manual[d]
             /\ UNCHANGED <<rung, lone, ghosts>>
      BY <1>13, Arguments, RowTypes DEF Unbind, CallTypes, SharedTypes, Steps
    <2>3. QED
      BY <2>1, <2>2, ReturnShape, MoveShape
  <1>14. CASE ClearSession(c)
    <2>1. ~Idle(c)
      BY <1>14 DEF ClearSession, Idle
    <2>2. \/ Return(c) /\ UNCHANGED ghosts
          \/ /\ \E step \in Steps \ {"idle"} : Goto(c, step)
             /\ mine' = mine \/ \E row \in Rows : Hold(c, row)
             /\ \A d \in Callers \ {c} :
                  seen'[d] = seen[d] /\ manual'[d] = manual[d]
             /\ UNCHANGED <<rung, lone, ghosts>>
      BY <1>14, Arguments, RowTypes DEF ClearSession, CallTypes, SharedTypes,
          Steps
    <2>3. QED
      BY <2>1, <2>2, ReturnShape, MoveShape
  <1>15. CASE AuthorizeCheck(c)
    <2>1. ~Idle(c)
      BY <1>15 DEF AuthorizeCheck, Idle
    <2>2. \/ Return(c) /\ UNCHANGED ghosts
          \/ /\ \E step \in Steps \ {"idle"} : Goto(c, step)
             /\ mine' = mine \/ \E row \in Rows : Hold(c, row)
             /\ \A d \in Callers \ {c} :
                  seen'[d] = seen[d] /\ manual'[d] = manual[d]
             /\ UNCHANGED <<rung, lone, ghosts>>
      BY <1>15, Arguments, RowTypes DEF AuthorizeCheck, CallTypes, SharedTypes,
          Steps
    <2>3. QED
      BY <2>1, <2>2, ReturnShape, MoveShape
  <1>16. CASE AuthorizeStart(c)
    <2>1. ~Idle(c)
      BY <1>16 DEF AuthorizeStart, Idle
    <2>2. \/ Return(c) /\ UNCHANGED ghosts
          \/ /\ \E step \in Steps \ {"idle"} : Goto(c, step)
             /\ mine' = mine \/ \E row \in Rows : Hold(c, row)
             /\ \A d \in Callers \ {c} :
                  seen'[d] = seen[d] /\ manual'[d] = manual[d]
             /\ UNCHANGED <<rung, lone, ghosts>>
      BY <1>16, Arguments, RowTypes DEF AuthorizeStart, CallTypes, SharedTypes,
          Steps
    <2>3. QED
      BY <2>1, <2>2, ReturnShape, MoveShape
  <1>17. CASE Polled(c)
    <2>1. ~Idle(c)
      BY <1>17 DEF Polled, Idle
    <2>2. \/ Return(c) /\ UNCHANGED ghosts
          \/ /\ \E step \in Steps \ {"idle"} : Goto(c, step)
             /\ mine' = mine \/ \E row \in Rows : Hold(c, row)
             /\ \A d \in Callers \ {c} :
                  seen'[d] = seen[d] /\ manual'[d] = manual[d]
             /\ UNCHANGED <<rung, lone, ghosts>>
      BY <1>17, Arguments, RowTypes DEF Polled, CallTypes, SharedTypes, Steps
    <2>3. QED
      BY <2>1, <2>2, ReturnShape, MoveShape
  <1> HIDE DEF locals, ghosts, Typed
  <1>18. QED
    BY <1>1, <1>2, <1>3, <1>4, <1>5, <1>6, <1>7, <1>8, <1>9, <1>10, <1>11,
        <1>12, <1>13, <1>14, <1>15, <1>16, <1>17, ClimbsEffect
    DEF Proceed, ConnectStep, ReportStep, BindStep

\* Who is lone after a step was so before, and took the step himself.
LEMMA LoneMoved ==
  ASSUME TypeOK, Typed, HasIds, LoneIsAlone, NEW c \in Callers, Proceed(c),
         NEW d \in lone'
  PROVE  d = c /\ c \in lone
  <1>1. d \in lone /\ (d # c => Quiet(d)) /\ d \in Callers /\ ~Idle(c)
    BY Shapes DEF StepShape, LoneIsAlone, Typed, CallTypes
  <1>2. QED
    BY <1>1 DEF Quiet

LEMMA AloneStep ==
  ASSUME TypeOK, Typed, HasIds, LoneIsAlone, [Next]_vars
  PROVE  LoneIsAlone'
  <1> USE DEF Idle, Quiet, LoneIsAlone
  <1>1. ASSUME NEW c \in Callers, Proceed(c) PROVE LoneIsAlone'
    <2>1. StepShape(c)
      BY <1>1, Shapes
    <2>2. lone' \subseteq Callers /\ lone \subseteq Callers
      BY <2>1 DEF StepShape, Typed, CallTypes
    <2>3. QED
      BY <2>1, <2>2 DEF StepShape
  <1>2. ASSUME NEW c \in Callers, Crash(c) PROVE LoneIsAlone'
    BY <1>2 DEF Crash, Typed, CallTypes
  <1>3. ASSUME NEW c \in Callers, Called(c) PROVE LoneIsAlone'
    <2>1. PICK step \in FirstSteps,
               s \in Secret \cup {None}, r \in Root \cup {None},
               flag \in BOOLEAN :
            CallOf(c, step, s, r, flag)
      BY <1>3 DEF Called
    <2>2. pc' = [pc EXCEPT ![c] = step] /\ step # "idle" /\ Idle(c)
      BY <2>1 DEF CallOf, FirstSteps, Enter, Goto
    <2>3. QED
      BY <2>1, <2>2 DEF CallOf, Enter, Typed, CallTypes
  <1>4. CASE UNCHANGED <<pc, lone, sound, whole>>
    BY <1>4
  <1> HIDE DEF LoneIsAlone
  <1>5. QED
    BY <1>1, <1>2, <1>3, <1>4, NextCases DEF PollEnds, Revoke, Change, vars,
      locals, ghosts

\* The row and the local variables of c keep what the next steps need.
StillHasIds(c) == RowHasIds' /\ SessionHasIds' /\ Needed(c)'

LEMMA ClimbIds ==
  ASSUME CallTypes, NEW c \in Callers, NEW row \in Rows, Climb(c, row),
         row.secret # None, row.root # None,
         rung[c] >= 3 => row.tree # None
  PROVE  RowHasIds' /\ Needed(c)'
  <1> DEFINE next == [row EXCEPT !.state = Ladder[rung[c]]]
  <1>1. rung[c] \in 1 .. Top
    BY DEF CallTypes
  <1>2. /\ next.secret # None /\ next.root # None
        /\ rung[c] >= 3 => next.tree # None
        /\ next.state = Ladder[rung[c]]
    BY DEF Rows
  <1>3. binding' = next
    BY DEF Climb
  <1>4. CASE rung[c] = Top
    <2>1. pc'[c] = "publish" /\ rung'[c] = 1
      BY <1>4 DEF Climb, Goto, CallTypes
    <2>2. Needed(c)'
      BY <2>1 DEF Needed, Connecting, Copying
    <2>3. QED
      BY <1>1, <1>2, <1>3, <1>4, <2>2, LadderFacts DEF RowHasIds
  <1>5. CASE rung[c] # Top
    <2>1. pc'[c] = "climb" /\ rung'[c] = rung[c] + 1 /\ mine'[c] = next
      BY <1>5 DEF Climb, Goto, Hold, CallTypes
    <2>2. rung'[c] >= 4 => rung[c] >= 3
      BY <1>1, <2>1, LadderFacts
    <2>3. Needed(c)'
      BY <1>2, <2>1, <2>2 DEF Needed, Connecting, Copying
    <2>4. RowHasIds'
      <3>1. binding'.state # "DEGRADED"
              /\ (binding'.state = "READY" => rung[c] >= 3)
        BY <1>1, <1>2, <1>3, LadderFacts
      <3>2. QED
        BY <1>2, <1>3, <3>1 DEF RowHasIds
    <2>5. QED
      BY <2>3, <2>4
  <1>6. QED
    BY <1>4, <1>5

LEMMA ReturnIds ==
  ASSUME CallTypes, NEW c \in Callers, Return(c)
  PROVE  Needed(c)'
  <1>1. pc'[c] = "idle" /\ rung'[c] = 1
    BY DEF CallTypes, Return, Goto
  <1>2. QED
    BY <1>1 DEF Needed, Connecting, Copying

LEMMA FallIds ==
  ASSUME CallTypes, NEW c \in Callers, NEW st \in States, Fall(c, st),
         st \in {"READY", "DEGRADED"} =>
           mine[c].secret # None /\ mine[c].root # None,
         st = "READY" => mine[c].tree # None
  PROVE  RowHasIds' /\ Needed(c)'
  <1>1. mine[c] \in Rows
    BY DEF CallTypes
  <1>2. binding' = [mine[c] EXCEPT !.state = st] /\ Needed(c)'
    BY ReturnIds DEF Fall
  <1>3. QED
    BY <1>1, <1>2 DEF RowHasIds, Rows

LEMMA IdsOfCaller ==
  ASSUME TypeOK, Typed, HasIds, NEW c \in Callers, Proceed(c)
  PROVE  StillHasIds(c)
  <1> USE IdsOf DEF locals, ghosts, Typed, StillHasIds
  <1>1. CASE ConnectRead(c)
    <2>1. CASE Return(c)
      BY <1>1, <2>1, ReturnIds DEF ConnectRead, RowHasIds, SessionHasIds
    <2>2. CASE ~Return(c)
      <3>1. mine[c].secret # None /\ mine[c].root # None /\ rung[c] = 1
              /\ binding \in Rows
        BY <1>1 DEF ConnectRead, Needed, SharedTypes, Connecting
      <3>2. /\ pc'[c] = "climb" /\ rung'[c] = 1
            /\ mine'[c] = [binding EXCEPT !.secret = mine[c].secret,
                                          !.root = mine[c].root]
        BY <1>1, <2>2, <3>1 DEF ConnectRead, Goto, Hold, CallTypes
      <3>3. mine'[c].secret # None /\ mine'[c].root # None
        BY <3>1, <3>2 DEF Rows
      <3>4. QED
        BY <1>1, <3>2, <3>3 DEF ConnectRead, RowHasIds, SessionHasIds, Needed,
            Connecting,
           Copying
    <2>3. QED
      BY <2>1, <2>2
  <1>2. CASE Climbs(c)
    <2>1. mine[c].secret # None /\ mine[c].root # None
      BY <1>2 DEF Climbs, Needed
    <2>2. CASE Goto(c, "create") /\ UNCHANGED <<binding, locals, ghosts>>
                 /\ rung[c] = 3
      BY <1>2, <2>1, <2>2 DEF Climbs, RowHasIds, SessionHasIds, Needed,
          Connecting,
         Copying, Goto, CallTypes
    <2>3. ASSUME NEW row \in Rows, Climb(c, row),
                 row.secret = mine[c].secret, row.root = mine[c].root,
                 rung[c] >= 3 => row.tree # None
          PROVE  StillHasIds(c)
      BY <1>2, <2>1, <2>3, ClimbIds DEF Climbs, SessionHasIds
    <2>4. CASE \E st \in {"NEEDS_ACTION", "DEGRADED"} : Fall(c, st)
      BY <1>2, <2>1, <2>4, FallIds, LadderFacts DEF Climbs, SessionHasIds
    <2>5. QED
      BY <1>2, <2>2, <2>3, <2>4 DEF Climbs
  <1>3. CASE PublishRead(c)
    <2>1. CASE Return(c)
      BY <1>3, <2>1, ReturnIds DEF PublishRead, RowHasIds, SessionHasIds
    <2>2. CASE ~Return(c)
      <3>1. /\ binding.state = "READY" /\ mine'[c] = binding
            /\ rung'[c] = rung[c] /\ ~Connecting(c)
            /\ ~Connecting(c)' /\ pc'[c] \in {"credential", "check"}
        BY <1>3, <2>2 DEF PublishRead, Goto, Hold, CallTypes, Connecting
      <3>2. pc'[c] = "credential" => seen'[c] # None
        BY <1>3, <2>2, Constants DEF PublishRead, CallTypes, SharedTypes, Goto
      <3>3. QED
        BY <1>3, <3>1, <3>2 DEF PublishRead, RowHasIds, SessionHasIds, Needed,
            Copying
    <2>3. QED
      BY <2>1, <2>2
  <1>4. CASE PublishCredential(c)
    <2>1. CASE Return(c)
      BY <1>4, <2>1, ReturnIds DEF PublishCredential, RowHasIds, SessionHasIds
    <2>2. CASE Goto(c, "markdown") /\ UNCHANGED locals
      BY <1>4, <2>2 DEF PublishCredential, RowHasIds, SessionHasIds, Needed,
          Connecting,
         Copying, Goto, CallTypes
    <2>3. QED
      BY <1>4, <2>1, <2>2 DEF PublishCredential
  <1>5. CASE WriteMarkdown(c)
    BY <1>5, ReturnIds DEF WriteMarkdown, RowHasIds, SessionHasIds, Needed,
        Connecting,
       Copying, Goto, Hold, CallTypes
  <1>6. CASE WriteJson(c)
    BY <1>6, ReturnIds DEF WriteJson, RowHasIds, SessionHasIds, Needed,
        Connecting,
       Copying, Goto, Hold, CallTypes
  <1>7. CASE PublishSave(c)
    <2>1. mine[c] \in Rows /\ mine[c].secret # None
          /\ mine[c].root # None /\ mine[c].tree # None
          /\ mine[c].state = "READY"
      BY <1>7, Arguments DEF PublishSave, Needed, Copying
    <2>2. RowHasIds'
      BY <1>7, <2>1 DEF PublishSave, RowHasIds, Rows
    <2>3. QED
      BY <1>7, <2>2, ReturnIds DEF PublishSave, SessionHasIds
  <1>8. CASE PublishFails(c)
    <2>1. mine[c] \in Rows /\ mine[c].secret # None
          /\ mine[c].root # None /\ mine[c].tree # None
          /\ mine[c].state = "READY"
      BY <1>8, Arguments DEF PublishFails, Needed, Copying
    <2>2. RowHasIds'
      BY <1>8, <2>1 DEF PublishFails, RowHasIds, Rows
    <2>3. QED
      BY <1>8, <2>2, ReturnIds DEF PublishFails, SessionHasIds
  <1>9. CASE VerifyRead(c)
    <2>1. CASE Return(c)
      BY <1>9, <2>1, ReturnIds DEF VerifyRead, RowHasIds, SessionHasIds
    <2>2. CASE ~Return(c)
      <3>1. /\ binding.state = "READY" /\ mine'[c] = binding
            /\ rung'[c] = rung[c] /\ ~Connecting(c)
            /\ ~Connecting(c)' /\ pc'[c] \in {"credential", "check"}
        BY <1>9, <2>2 DEF VerifyRead, Goto, Hold, CallTypes, Connecting
      <3>2. pc'[c] = "credential" => seen'[c] # None
        BY <1>9, <2>2, Constants DEF VerifyRead, CallTypes, SharedTypes, Goto
      <3>3. QED
        BY <1>9, <3>1, <3>2 DEF VerifyRead, RowHasIds, SessionHasIds, Needed,
            Copying
    <2>3. QED
      BY <2>1, <2>2
  <1>10. CASE VerifyCheck(c)
    <2>1. /\ mine[c].secret # None /\ mine[c].root # None
          /\ mine[c].tree # None
      BY <1>10 DEF VerifyCheck, Needed, Copying
    <2>2. RowHasIds' /\ Needed(c)'
      BY <1>10, <2>1, FallIds, LadderFacts DEF VerifyCheck
    <2>3. QED
      BY <1>10, <2>2 DEF VerifyCheck, SessionHasIds
  <1>11. CASE DisconnectRead(c)
    <2>1. mine[c] \in Rows /\ binding \in Rows
      BY Arguments DEF SharedTypes
    <2>2. /\ pc'[c] = IF binding.secret = None THEN "unbind" ELSE "disable"
          /\ mine'[c].secret = binding.secret
          /\ mine[c].root # None => mine'[c].root = mine[c].root
          /\ UNCHANGED <<rung, manual>>
      BY <1>11, <2>1 DEF DisconnectRead, Goto, Hold, CallTypes, Rows
    <2>3. QED
      BY <1>11, <2>2 DEF DisconnectRead, RowHasIds, SessionHasIds, Needed,
          Connecting,
         Copying
  <1>12. CASE DisableSecret(c)
    BY <1>12, ReturnIds DEF DisableSecret, RowHasIds, SessionHasIds, Needed,
        Connecting,
       Copying, Goto, Hold, CallTypes
  <1>13. CASE Unbind(c)
    <2>1. RowHasIds'
      BY <1>13 DEF Unbind, Blank, RowHasIds
    <2>2. QED
      BY <1>13, <2>1 DEF Unbind, SessionHasIds, Needed, Connecting, Copying,
          Goto,
         CallTypes
  <1>14. CASE ClearSession(c)
    <2>1. RowHasIds' /\ SessionHasIds'
      BY <1>14 DEF ClearSession, NoSession, RowHasIds, SessionHasIds
    <2>2. CASE Return(c)
      BY <1>14, <2>1, <2>2, ReturnIds
    <2>3. CASE ~Return(c)
      BY <1>14, <2>1, <2>3 DEF ClearSession, Needed, Connecting, Copying, Goto,
          CallTypes
    <2>4. QED
      BY <2>2, <2>3
  <1>15. CASE AuthorizeCheck(c)
    BY <1>15, ReturnIds DEF AuthorizeCheck, RowHasIds, SessionHasIds, Needed,
        Connecting,
       Copying, Goto, Hold, CallTypes
  <1>16. CASE AuthorizeStart(c)
    <2>1. mine[c].root # None
      BY <1>16 DEF AuthorizeStart, Needed
    <2>2. QED
      BY <1>16, <2>1, ReturnIds DEF AuthorizeStart, RowHasIds, SessionHasIds
  <1>17. CASE Polled(c)
    BY <1>17, ReturnIds DEF Polled, RowHasIds, SessionHasIds, Needed,
        Connecting,
       Copying, Goto, Hold, CallTypes
  <1> HIDE DEF locals, ghosts, Typed, StillHasIds
  <1>18. QED
    BY <1>1, <1>2, <1>3, <1>4, <1>5, <1>6, <1>7, <1>8, <1>9, <1>10, <1>11,
        <1>12, <1>13, <1>14, <1>15, <1>16, <1>17, ClimbsEffect
    DEF Proceed, ConnectStep, ReportStep, BindStep

LEMMA IdsStep ==
  ASSUME TypeOK, Typed, HasIds, [Next]_vars
  PROVE  HasIds'
  <1>1. ASSUME NEW c \in Callers, Proceed(c) PROVE HasIds'
    <2>1. StillHasIds(c)
      BY <1>1, IdsOfCaller
    <2>2. ASSUME NEW d \in Callers \ {c} PROVE Needed(d)'
      <3>1. /\ pc'[d] = pc[d] /\ rung'[d] = rung[d] /\ mine'[d] = mine[d]
            /\ manual'[d] = manual[d] /\ seen'[d] = seen[d]
        BY <1>1, Shapes DEF StepShape
      <3>2. QED
        BY <3>1 DEF HasIds, Needed, Connecting, Copying
    <2>3. QED
      BY <2>1, <2>2 DEF HasIds, StillHasIds
  <1>2. ASSUME NEW c \in Callers, Crash(c) PROVE HasIds'
    <2>1. ASSUME NEW d \in Callers PROVE Needed(d)'
      <3>1. \/ pc'[d] = "idle" /\ rung'[d] = 1
            \/ /\ pc'[d] = pc[d] /\ rung'[d] = rung[d] /\ mine'[d] = mine[d]
               /\ manual'[d] = manual[d] /\ seen'[d] = seen[d]
        BY <1>2 DEF Crash, Typed, CallTypes
      <3>2. QED
        BY <3>1 DEF HasIds, Needed, Connecting, Copying
    <2>2. RowHasIds' /\ SessionHasIds'
      BY <1>2 DEF Crash, HasIds, RowHasIds, SessionHasIds, NoSession
    <2>3. QED
      BY <2>1, <2>2 DEF HasIds
  <1>3. ASSUME NEW c \in Callers, Called(c) PROVE HasIds'
    <2>1. PICK step \in FirstSteps,
               s \in Secret \cup {None}, r \in Root \cup {None},
               flag \in BOOLEAN :
            CallOf(c, step, s, r, flag)
      BY <1>3 DEF Called
    <2>2. RowHasIds' /\ SessionHasIds'
      BY <2>1 DEF CallOf, HasIds, RowHasIds, SessionHasIds, Typed,
         SharedTypes
    <2>3. Needed(c)'
      <3>1. /\ pc'[c] = step /\ manual'[c] = flag /\ rung'[c] = 1
            /\ mine'[c].secret = s /\ mine'[c].root = r
        BY <2>1 DEF CallOf, Enter, Goto, Hold, Typed, CallTypes, HasIds,
            Needed,
           Connecting, Idle, Blank
      <3>2. QED
        BY <2>1, <3>1 DEF CallOf, FirstSteps, Needed, Connecting,
           Copying
    <2>4. ASSUME NEW d \in Callers \ {c} PROVE Needed(d)'
      <3>1. /\ pc'[d] = pc[d] /\ rung'[d] = rung[d] /\ mine'[d] = mine[d]
            /\ manual'[d] = manual[d] /\ seen'[d] = seen[d]
        BY <2>1 DEF CallOf, Enter, Goto, Hold, Typed, CallTypes
      <3>2. QED
        BY <3>1 DEF HasIds, Needed, Connecting, Copying
    <2>5. QED
      BY <2>2, <2>3, <2>4 DEF HasIds
  <1>4. CASE UNCHANGED <<binding, pc, locals>> /\ oauth' \in {oauth, NoSession}
    BY <1>4 DEF HasIds, RowHasIds, SessionHasIds, NoSession, Needed, locals,
       Connecting, Copying
  <1>5. QED
    BY <1>1, <1>2, <1>3, <1>4, NextCases DEF PollEnds, Revoke, Change, vars,
      locals

\* A lone call is still on the way to what it will say.
OnItsWay(c) == Fresh(c)' /\ Achieved(c)' /\ Reported(c)'

LEMMA OffTheWay ==
  ASSUME NEW c \in Callers, ~Connecting(c)', ~Copying(c)'
  PROVE  OnItsWay(c)
  BY DEF OnItsWay, Fresh, Achieved, Reported, Connecting, Copying

LEMMA ReturnProgress ==
  ASSUME CallTypes, NEW c \in Callers, Return(c)
  PROVE  OnItsWay(c)
  <1>1. pc'[c] = "idle"
    BY DEF CallTypes, Return, Goto
  <1>2. QED
    BY <1>1, OffTheWay DEF Connecting, Copying

LEMMA FallProgress ==
  ASSUME CallTypes, NEW c \in Callers, NEW st \in States, Fall(c, st)
  PROVE  OnItsWay(c)
  BY ReturnProgress DEF Fall

LEMMA ClimbProgress ==
  ASSUME CallTypes, NEW c \in Callers, NEW row \in Rows, Climb(c, row),
         rung[c] >= 2 => status'[row.secret] = "ACTIVE",
         rung[c] >= 3 => row.tree = row.root /\ copies'[row.tree] = 1,
         rung[c] >= 4 => row.proto # None,
         rung[c] >= 5 => protocol'[row.proto] = row.tree
  PROVE  OnItsWay(c)
  <1> DEFINE next == [row EXCEPT !.state = Ladder[rung[c]]]
  <1>1. rung[c] \in 1 .. Top
    BY DEF CallTypes
  <1>2. CASE rung[c] = Top
    <2>1. pc'[c] = "publish"
      BY <1>2 DEF Climb, Goto, CallTypes
    <2>2. QED
      BY <2>1, OffTheWay DEF Connecting, Copying
  <1>3. CASE rung[c] # Top
    <2>1. /\ pc'[c] = "climb" /\ rung'[c] = rung[c] + 1
          /\ mine'[c] = next /\ binding' = next
      BY <1>3 DEF Climb, Goto, Hold, CallTypes
    <2>2. /\ next.secret = row.secret /\ next.root = row.root
          /\ next.tree = row.tree /\ next.proto = row.proto
      BY DEF Rows
    <2>3. /\ rung'[c] >= 3 => rung[c] >= 2
          /\ rung'[c] >= 4 => rung[c] >= 3
          /\ rung'[c] >= 5 => rung[c] >= 4
          /\ rung'[c] >= 6 => rung[c] >= 5
      BY <1>1, <2>1, LadderFacts
    <2>4. Fresh(c)' /\ Reported(c)'
      BY <2>1 DEF Fresh, Reported, Connecting, Copying
    <2>5. Achieved(c)'
      BY <2>1, <2>2, <2>3 DEF Achieved
    <2>6. QED
      BY <2>4, <2>5 DEF OnItsWay
  <1>4. QED
    BY <1>2, <1>3

\* What a lone connect knows when it is about to climb.
LEMMA Known ==
  ASSUME CallTypes, HasIds, NEW c \in Callers, Achieved(c), pc[c] = "climb"
  PROVE  /\ rung[c] \in 1 .. Top /\ mine[c] \in Rows
         /\ rung[c] >= 3 => status[mine[c].secret] = "ACTIVE"
         /\ rung[c] >= 4 =>
              mine[c].tree = mine[c].root /\ copies[mine[c].tree] = 1
         /\ rung[c] >= 5 => mine[c].proto # None
         /\ rung[c] >= 6 => protocol[mine[c].proto] = mine[c].tree
  BY DEF Achieved, Connecting, CallTypes

LEMMA ProgressOfConnect ==
  ASSUME TypeOK, Typed, HasIds, Progress, NEW c \in Callers, ConnectStep(c)
  PROVE  c \in lone => OnItsWay(c)
  <1> SUFFICES ASSUME c \in lone, Fresh(c), Achieved(c), Reported(c)
               PROVE  OnItsWay(c)
    BY DEF Progress
  <1> USE IdsOf DEF drive, locals, ghosts, Typed
  <1>1. CASE ConnectRead(c)
    <2>1. CASE Return(c)
      BY <2>1, ReturnProgress
    <2>2. CASE ~Return(c)
      <3>1. /\ binding \in Rows /\ rung[c] = 1 /\ mine[c] \in Rows
            /\ binding.state = "READY" => binding.secret = mine[c].secret
        BY <1>1, <2>2, Arguments DEF ConnectRead, MayBind, RowHasIds, Needed,
            Connecting,
           SharedTypes
      <3>2. /\ pc'[c] = "climb" /\ rung'[c] = 1 /\ binding' = binding
            /\ mine'[c] = [binding EXCEPT !.secret = mine[c].secret,
                                          !.root = mine[c].root]
        BY <1>1, <2>2, <3>1 DEF ConnectRead, Goto, Hold, CallTypes
      <3>3. Fresh(c)'
        BY <3>1, <3>2 DEF Fresh, Copying, Rows
      <3>4. Achieved(c)' /\ Reported(c)'
        BY <3>2 DEF Achieved, Reported
      <3>5. QED
        BY <3>3, <3>4 DEF OnItsWay
    <2>3. QED
      BY <2>1, <2>2
  <1>2. CASE Certify(c)
    <2>1. rung[c] = 1 \/ rung[c] >= 7
      BY <1>2, LadderFacts DEF Certify, At
    <2>2. /\ rung[c] >= 2 => rung[c] >= 3 /\ rung[c] >= 4
          /\ rung[c] >= 3 => rung[c] >= 4 /\ rung[c] >= 5
          /\ rung[c] >= 4 => rung[c] >= 5 /\ rung[c] >= 6
          /\ rung[c] >= 5 => rung[c] >= 6
      BY <2>1, LadderFacts DEF Typed, CallTypes
    <2>3. UNCHANGED <<status, copies, protocol>> /\ Climb(c, mine[c])
      BY <1>2 DEF Certify
    <2>4. QED
      BY <1>2, <2>2, <2>3, Known, ClimbProgress DEF Certify, At
  <1>3. CASE Authenticate(c)
    <2>1. rung[c] = 2
      BY <1>3 DEF Authenticate, At
    <2>2. CASE Fall(c, "NEEDS_ACTION")
      BY <2>2, FallProgress, LadderFacts
    <2>3. CASE Usable(mine[c].secret) /\ Climb(c, mine[c])
      BY <1>3, <2>1, <2>3, Known, ClimbProgress DEF Authenticate, At, Usable
    <2>4. QED
      BY <1>3, <2>2, <2>3 DEF Authenticate
  <1>4. CASE FindRoot(c)
    <2>1. /\ rung[c] = 3 /\ mine[c] \in Rows /\ mine[c].root \in Root
          /\ status[mine[c].secret] = "ACTIVE"
      BY <1>4, Arguments DEF FindRoot, At, Needed, Achieved, Connecting
    <2> DEFINE row == [mine[c] EXCEPT !.tree = mine[c].root]
    <2>2. /\ row \in Rows /\ row.tree = mine[c].root /\ row.root = mine[c].root
          /\ row.secret = mine[c].secret
      BY <2>1 DEF Rows
    <2>3. CASE /\ copies[mine[c].root] = 0 /\ Goto(c, "create")
               /\ UNCHANGED <<binding, locals, ghosts>>
      <3>1. pc'[c] = "create" /\ rung'[c] = 3 /\ mine'[c] = mine[c]
        BY <2>1, <2>3 DEF Goto, CallTypes
      <3>2. Fresh(c)' /\ Reported(c)'
        BY <1>4, <2>3, <3>1 DEF FindRoot, At, Fresh, Reported, Connecting,
            Copying
      <3>3. UNCHANGED <<status, copies, protocol>>
        BY <1>4 DEF FindRoot
      <3>4. Achieved(c)'
        BY <2>1, <2>3, <3>1, <3>3 DEF Achieved
      <3>5. QED
        BY <3>2, <3>4 DEF OnItsWay
    <2>4. CASE copies[mine[c].root] = 1 /\ Climb(c, row)
      <3>1. UNCHANGED <<status, copies, protocol>>
        BY <1>4 DEF FindRoot
      <3> HIDE DEF row
      <3>2. QED
        BY <2>1, <2>2, <2>4, <3>1, ClimbProgress
    <2>5. CASE Fall(c, "NEEDS_ACTION")
      BY <2>5, FallProgress, LadderFacts
    <2>6. QED
      BY <1>4, <2>3, <2>4, <2>5 DEF FindRoot
  <1>5. CASE CreateRoot(c)
    <2>1. /\ rung[c] = 3 /\ mine[c] \in Rows /\ mine[c].root \in Root
          /\ status[mine[c].secret] = "ACTIVE"
      BY <1>5, Arguments DEF CreateRoot, At, Needed, Achieved, Connecting
    <2> DEFINE row == [mine[c] EXCEPT !.tree = mine[c].root]
    <2>2. /\ row \in Rows /\ row.tree = mine[c].root /\ row.root = mine[c].root
          /\ row.secret = mine[c].secret
      BY <2>1 DEF Rows
    <2>3. copies[mine[c].root] = 0
      BY <1>5 DEF CreateRoot, Achieved, Connecting
    <2>4. copies'[mine[c].root] = 1 /\ Climb(c, row) /\ status' = status
      BY <1>5, <2>1, <2>3 DEF CreateRoot, SharedTypes
    <2> HIDE DEF row
    <2>5. QED
      BY <2>1, <2>2, <2>4, ClimbProgress
  <1>6. CASE WriteProtocol(c)
    <2> DEFINE p == Target(mine[c], mine[c].proto)
               row == [mine[c] EXCEPT !.proto = p]
    <2>1. rung[c] = 4 /\ pc[c] = "climb"
      BY <1>6 DEF WriteProtocol, At
    <2>2. /\ mine[c] \in Rows /\ mine[c].tree \in Root
          /\ status[mine[c].secret] = "ACTIVE"
          /\ mine[c].tree = mine[c].root /\ copies[mine[c].tree] = 1
      BY <2>1, Known, Arguments
    <2>3. p \in Root
      BY <2>2, Constants, RowTypes DEF Target
    <2>4. /\ row \in Rows /\ row.proto = p /\ row.tree = mine[c].tree
          /\ row.root = mine[c].root /\ row.secret = mine[c].secret
      BY <2>2, <2>3 DEF Rows
    <2>5. Climb(c, row) /\ UNCHANGED <<status, copies>>
      BY <1>6 DEF WriteProtocol
    <2>6. p # None
      BY <2>3, Constants
    <2> HIDE DEF row
    <2>7. QED
      BY <2>1, <2>2, <2>4, <2>5, <2>6, ClimbProgress
  <1>7. CASE ReadProtocol(c)
    <2>1. rung[c] = 5 /\ pc[c] = "climb"
      BY <1>7 DEF ReadProtocol, At
    <2>2. CASE protocol[mine[c].proto] = mine[c].tree /\ Climb(c, mine[c])
      <3>1. UNCHANGED <<status, copies, protocol>>
        BY <1>7 DEF ReadProtocol
      <3>2. QED
        BY <2>1, <2>2, <3>1, Known, ClimbProgress
    <2>3. CASE Fall(c, "DEGRADED")
      BY <2>3, FallProgress, LadderFacts
    <2>4. QED
      BY <1>7, <2>2, <2>3 DEF ReadProtocol
  <1>8. CASE UpdateProtocol(c)
    <2>1. rung[c] = 6 /\ pc[c] = "climb"
      BY <1>8 DEF UpdateProtocol, At
    <2>2. /\ mine[c] \in Rows /\ status[mine[c].secret] = "ACTIVE"
          /\ mine[c].tree = mine[c].root /\ copies[mine[c].tree] = 1
          /\ mine[c].proto # None
      BY <2>1, Known
    <2>3. mine[c].proto \in Root
      BY <2>2, RowTypes
    <2>4. /\ protocol'[mine[c].proto] = mine[c].tree
          /\ Climb(c, mine[c]) /\ UNCHANGED <<status, copies>>
      BY <1>8, <2>3 DEF UpdateProtocol, SharedTypes
    <2>5. QED
      BY <2>1, <2>2, <2>4, ClimbProgress
  <1>9. CASE ConnectFails(c)
    BY <1>9, FallProgress, LadderFacts DEF ConnectFails
  <1> HIDE DEF drive, locals, ghosts, Typed
  <1>10. QED
    BY <1>1, <1>2, <1>3, <1>4, <1>5, <1>6, <1>7, <1>8, <1>9
    DEF ConnectStep

LEMMA ProgressOfCaller ==
  ASSUME TypeOK, Typed, HasIds, Progress, NEW c \in Callers, Proceed(c)
  PROVE  c \in lone => OnItsWay(c)
  <1> SUFFICES ASSUME c \in lone, Fresh(c), Achieved(c), Reported(c)
               PROVE  OnItsWay(c)
    BY DEF Progress
  <1> USE IdsOf DEF drive, locals, ghosts, Typed
  <1>1. CASE PublishRead(c)
    <2>1. CASE Return(c)
      BY <2>1, ReturnProgress
    <2>2. CASE ~Return(c)
      <3>1. /\ pc'[c] \in {"credential", "check"}
            /\ mine'[c] = binding /\ binding' = binding
        BY <1>1, <2>2 DEF PublishRead, Goto, Hold, CallTypes
      <3>2. QED
        BY <3>1 DEF OnItsWay, Fresh, Achieved, Reported, Connecting, Copying
    <2>3. QED
      BY <2>1, <2>2
  <1>2. CASE PublishCredential(c)
    <2>1. CASE Return(c)
      BY <2>1, ReturnProgress
    <2>2. CASE Goto(c, "markdown") /\ UNCHANGED locals
      <3>1. /\ pc'[c] = "markdown" /\ Copying(c)
            /\ mine'[c] = mine[c] /\ binding' = binding
        BY <1>2, <2>2 DEF PublishCredential, Goto, CallTypes, Copying
      <3>2. QED
        BY <3>1 DEF OnItsWay, Fresh, Achieved, Reported, Connecting, Copying
    <2>3. QED
      BY <1>2, <2>1, <2>2 DEF PublishCredential
  <1>3. CASE WriteMarkdown(c)
    <2> DEFINE t == Target(mine[c], mine[c].report)
    <2>1. t \in Root
      <3>1. mine[c] \in Rows /\ mine[c].tree # None
        BY <1>3, Arguments DEF WriteMarkdown, Copying, Needed
      <3>2. QED
        BY <3>1, RowTypes
    <2>2. /\ pc'[c] = "json" /\ Copying(c) /\ mine'[c] = mine[c]
          /\ binding' = binding /\ seen'[c] = seen[c]
      BY <1>3 DEF WriteMarkdown, Goto, CallTypes, Copying
    <2>3. Fresh(c)' /\ Achieved(c)'
      BY <2>2 DEF Fresh, Achieved, Connecting, Copying
    <2>4. markdown'[t] = seen[c]
      BY <1>3, <2>1 DEF WriteMarkdown, SharedTypes
    <2>5. Reported(c)'
      BY <1>3, <2>2, <2>4 DEF WriteMarkdown, Reported
    <2>6. QED
      BY <2>3, <2>5 DEF OnItsWay
  <1>4. CASE WriteJson(c)
    <2> DEFINE t == Target(mine[c], mine[c].report)
    <2>1. t \in Root
      <3>1. mine[c] \in Rows /\ mine[c].tree # None
        BY <1>4, Arguments DEF WriteJson, Copying, Needed
      <3>2. QED
        BY <3>1, RowTypes
    <2>2. /\ pc'[c] = "published" /\ Copying(c) /\ mine'[c] = mine[c]
          /\ binding' = binding /\ seen'[c] = seen[c]
      BY <1>4 DEF WriteJson, Goto, CallTypes, Copying
    <2>3. Fresh(c)' /\ Achieved(c)'
      BY <2>2 DEF Fresh, Achieved, Connecting, Copying
    <2>4. json'[t] = seen[c]
      BY <1>4, <2>1 DEF WriteJson, SharedTypes
    <2>5. Reported(c)'
      BY <1>4, <2>2, <2>4 DEF WriteJson, Reported
    <2>6. QED
      BY <2>3, <2>5 DEF OnItsWay
  <1>5. CASE PublishSave(c)
    BY <1>5, ReturnProgress DEF PublishSave
  <1>6. CASE PublishFails(c)
    BY <1>6, ReturnProgress DEF PublishFails
  <1>7. CASE VerifyRead(c)
    <2>1. CASE Return(c)
      BY <2>1, ReturnProgress
    <2>2. CASE ~Return(c)
      <3>1. /\ pc'[c] \in {"credential", "check"}
            /\ mine'[c] = binding /\ binding' = binding
        BY <1>7, <2>2 DEF VerifyRead, Goto, Hold, CallTypes
      <3>2. QED
        BY <3>1 DEF OnItsWay, Fresh, Achieved, Reported, Connecting, Copying
    <2>3. QED
      BY <2>1, <2>2
  <1>8. CASE VerifyCheck(c)
    BY <1>8, FallProgress, LadderFacts DEF VerifyCheck
  <1>9. CASE DisconnectRead(c)
    BY <1>9, ReturnProgress, OffTheWay DEF DisconnectRead, Goto, CallTypes,
        Connecting,
       Copying
  <1>10. CASE DisableSecret(c)
    BY <1>10, ReturnProgress, OffTheWay DEF DisableSecret, Goto, CallTypes,
        Connecting,
       Copying
  <1>11. CASE Unbind(c)
    BY <1>11, OffTheWay DEF Unbind, Goto, CallTypes, Connecting, Copying
  <1>12. CASE ClearSession(c)
    BY <1>12, ReturnProgress, OffTheWay DEF ClearSession, Goto, CallTypes,
        Connecting,
       Copying
  <1>13. CASE AuthorizeCheck(c)
    BY <1>13, ReturnProgress, OffTheWay DEF AuthorizeCheck, Goto, CallTypes,
        Connecting,
       Copying
  <1>14. CASE AuthorizeStart(c)
    BY <1>14, ReturnProgress, OffTheWay DEF AuthorizeStart, Goto, CallTypes,
        Connecting,
       Copying
  <1>15. CASE Polled(c)
    BY <1>15, ReturnProgress, OffTheWay DEF Polled, Goto, CallTypes,
        Connecting,
       Copying
  <1> HIDE DEF drive, locals, ghosts, Typed
  <1>16. QED
    BY <1>1, <1>2, <1>3, <1>4, <1>5, <1>6, <1>7, <1>8, <1>9, <1>10, <1>11,
        <1>12, <1>13, <1>14, <1>15, ProgressOfConnect
    DEF Proceed, ReportStep, BindStep

LEMMA ProgressStep ==
  ASSUME TypeOK, Typed, HasIds, LoneIsAlone, Progress, [Next]_vars
  PROVE  Progress'
  <1>1. ASSUME NEW c \in Callers, Proceed(c) PROVE Progress'
    BY <1>1, LoneMoved, ProgressOfCaller DEF Progress, OnItsWay
  <1>2. ASSUME NEW c \in Callers, Crash(c) PROVE Progress'
    <2>1. lone' = {}
      BY <1>2 DEF Crash, LoneIsAlone, Quiet, Idle, Callers, Typed, CallTypes
    <2>2. QED
      BY <2>1 DEF Progress
  <1>3. ASSUME NEW c \in Callers, Called(c) PROVE Progress'
    <2>1. lone' \subseteq {c} /\ pc'[c] \in FirstSteps
      BY <1>3 DEF Called, CallOf, Enter, Goto, Typed, CallTypes
    <2>2. OnItsWay(c)
      BY <2>1, OffTheWay DEF FirstSteps, Connecting, Copying
    <2>3. QED
      BY <2>1, <2>2 DEF Progress, OnItsWay
  <1>4. CASE UNCHANGED <<binding, status, drive, pc, locals>>
    BY <1>4 DEF Progress, Fresh, Achieved, Reported, Connecting, Copying,
       drive, locals
  <1>5. QED
    BY <1>1, <1>2, <1>3, <1>4, NextCases DEF PollEnds, Revoke, Change, vars

Backed ==
  /\ binding.secret # None /\ status[binding.secret] = "ACTIVE"
  /\ binding.tree = binding.root /\ copies[binding.tree] = 1
  /\ protocol[binding.proto] = binding.tree

Published ==
  /\ markdown[binding.report] = binding.print
  /\ json[binding.report] = binding.print

\* A row that is not READY is nothing to be backed.
LEMMA NotReady ==
  ASSUME binding'.state # "READY"
  PROVE  ReadyIsBacked'
  BY DEF ReadyIsBacked

LEMMA LowClimb ==
  ASSUME CallTypes, NEW c \in Callers, NEW row \in Rows, Climb(c, row),
         rung[c] < 8
  PROVE  ReadyIsBacked'
  <1>1. rung[c] \in 1 .. Top /\ binding'.state = Ladder[rung[c]]
    BY DEF CallTypes, Climb, Rows
  <1>2. QED
    BY <1>1, NotReady, LadderFacts

\* What the invariants say when the step is a lone call's.
LoneStep(c) ==
  /\ c \in lone /\ Quiet(c) /\ Fresh(c) /\ Achieved(c) /\ Reported(c)
  /\ Needed(c) /\ RowHasIds

LEMMA GhostsMeanLone ==
  ASSUME TypeOK, Typed, HasIds, LoneIsAlone, Progress, NEW c \in Callers,
         Proceed(c), sound' \/ whole' \/ lone # {}
  PROVE  LoneStep(c)
  <1>1. StepShape(c)
    BY Shapes
  <1>2. lone \subseteq Callers
    BY DEF Typed, CallTypes
  <1>3. c \in lone
    BY <1>1, <1>2 DEF StepShape, LoneIsAlone, Quiet
  <1>4. QED
    BY <1>3, IdsOf DEF LoneStep, LoneIsAlone, Progress

LEMMA BackedByCaller ==
  ASSUME TypeOK, Typed, HasIds, LoneIsAlone, Progress, ReadyIsBacked, NEW c \in
      Callers, Proceed(c)
  PROVE  ReadyIsBacked'
  <1> DEFINE Stays ==
               sound /\ binding.state = "READY" /\ pc[c] # "unbind" => Backed
  <1> SUFFICES ASSUME sound', LoneStep(c), Stays
               PROVE  ReadyIsBacked'
    BY GhostsMeanLone DEF ReadyIsBacked, Backed, LoneStep, Quiet, Idle
  <1> USE DEF drive, locals, ghosts, Typed
  <1>1. CASE ConnectRead(c)
    BY <1>1 DEF ConnectRead, Stays, Backed, ReadyIsBacked
  <1>2. CASE Climbs(c)
    <2>1. CASE /\ Goto(c, "create") /\ pc[c] = "climb"
               /\ UNCHANGED <<binding, copies, protocol, locals, ghosts>>
      BY <1>2, <2>1 DEF Climbs, Stays, Backed, ReadyIsBacked
    <2>2. ASSUME NEW row \in Rows, Climb(c, row),
                 rung[c] >= 7 => row = mine[c] /\ UNCHANGED <<copies,
                     protocol>>
          PROVE  ReadyIsBacked'
      <3>1. CASE rung[c] < 8
        BY <2>2, <3>1, LowClimb
      <3>2. CASE rung[c] >= 8
        <4>1. rung[c] >= 3 /\ rung[c] >= 4 /\ rung[c] >= 6 /\ rung[c] >= 7
          BY <3>2, LadderFacts DEF CallTypes
        <4>2. /\ mine[c].secret # None /\ status[mine[c].secret] = "ACTIVE"
              /\ mine[c].tree = mine[c].root /\ copies[mine[c].tree] = 1
              /\ protocol[mine[c].proto] = mine[c].tree
          BY <1>2, <4>1 DEF Climbs, LoneStep, Achieved, Needed, Connecting
        <4>3. /\ binding'.secret = mine[c].secret
              /\ binding'.tree = mine[c].tree
              /\ binding'.root = mine[c].root
              /\ binding'.proto = mine[c].proto
          BY <2>2, <4>1 DEF Climb, Rows
        <4>4. UNCHANGED <<status, copies, protocol>>
          BY <1>2, <2>2, <4>1 DEF Climbs
        <4>5. QED
          BY <4>2, <4>3, <4>4 DEF ReadyIsBacked
      <3>3. QED
        BY <3>1, <3>2, LadderFacts DEF CallTypes
    <2>3. CASE \E st \in {"NEEDS_ACTION", "DEGRADED"} : Fall(c, st)
      BY <2>3, NotReady DEF Fall, CallTypes, Rows
    <2>4. QED
      BY <1>2, <2>1, <2>2, <2>3 DEF Climbs
  <1>3. CASE PublishRead(c)
    BY <1>3 DEF PublishRead, Stays, Backed, ReadyIsBacked
  <1>4. CASE PublishCredential(c)
    BY <1>4 DEF PublishCredential, Stays, Backed, ReadyIsBacked
  <1>5. CASE WriteMarkdown(c)
    BY <1>5 DEF WriteMarkdown, Stays, Backed, ReadyIsBacked
  <1>6. CASE WriteJson(c)
    BY <1>6 DEF WriteJson, Stays, Backed, ReadyIsBacked
  <1>7. CASE PublishSave(c)
    <2>1. mine[c] \in Rows /\ mine[c] = binding /\ binding.state = "READY"
      BY <1>7, Arguments DEF PublishSave, LoneStep, Fresh, Needed, Copying
    <2>2. /\ binding'.secret = binding.secret /\ binding'.tree = binding.tree
          /\ binding'.root = binding.root /\ binding'.proto = binding.proto
          /\ UNCHANGED <<status, copies, protocol, sound>>
      BY <1>7, <2>1 DEF PublishSave, Rows
    <2>3. QED
      BY <1>7, <2>1, <2>2 DEF PublishSave, Stays, Backed, ReadyIsBacked
  <1>8. CASE PublishFails(c)
    <2>1. binding'.state = "DEGRADED"
      BY <1>8, Arguments DEF PublishFails, Rows
    <2>2. QED
      BY <2>1, NotReady
  <1>9. CASE VerifyRead(c)
    BY <1>9 DEF VerifyRead, Stays, Backed, ReadyIsBacked
  <1>10. CASE VerifyCheck(c)
    <2>1. mine[c] \in Rows /\ mine[c] = binding /\ binding.state = "READY"
      BY <1>10, Arguments DEF VerifyCheck, LoneStep, Fresh, Needed, Copying
    <2>2. /\ binding'.secret = binding.secret /\ binding'.tree = binding.tree
          /\ binding'.root = binding.root /\ binding'.proto = binding.proto
          /\ UNCHANGED <<status, copies, protocol, sound>>
      BY <1>10, <2>1 DEF VerifyCheck, Fall, Rows
    <2>3. QED
      BY <1>10, <2>1, <2>2 DEF VerifyCheck, Stays, Backed, ReadyIsBacked
  <1>11. CASE DisconnectRead(c)
    BY <1>11 DEF DisconnectRead, Stays, Backed, ReadyIsBacked
  <1>12. CASE DisableSecret(c)
    BY <1>12 DEF DisableSecret, ReadyIsBacked, Goto, CallTypes
  <1>13. CASE Unbind(c)
    BY <1>13, NotReady DEF Unbind, Blank
  <1>14. CASE ClearSession(c)
    BY <1>14 DEF ClearSession, Stays, Backed, ReadyIsBacked
  <1>15. CASE AuthorizeCheck(c)
    BY <1>15 DEF AuthorizeCheck, Stays, Backed, ReadyIsBacked
  <1>16. CASE AuthorizeStart(c)
    BY <1>16 DEF AuthorizeStart, Stays, Backed, ReadyIsBacked
  <1>17. CASE Polled(c)
    BY <1>17 DEF Polled, Stays, Backed, ReadyIsBacked
  <1> HIDE DEF drive, locals, ghosts, Typed
  <1>18. QED
    BY <1>1, <1>2, <1>3, <1>4, <1>5, <1>6, <1>7, <1>8, <1>9, <1>10, <1>11,
        <1>12, <1>13, <1>14, <1>15, <1>16, <1>17, ClimbsEffect
    DEF Proceed, ConnectStep, ReportStep, BindStep

LEMMA BackedStep ==
  ASSUME TypeOK, Typed, HasIds, LoneIsAlone, Progress, ReadyIsBacked,
         [Next]_vars
  PROVE  ReadyIsBacked'
  <1>1. ASSUME NEW c \in Callers, Crash(c) PROVE ReadyIsBacked'
    BY <1>1 DEF Crash, ReadyIsBacked
  <1>2. ASSUME NEW c \in Callers, Called(c) PROVE ReadyIsBacked'
    <2>1. PICK step \in FirstSteps, s \in Secret \cup {None},
               r \in Root \cup {None}, flag \in BOOLEAN :
            CallOf(c, step, s, r, flag)
      BY <1>2 DEF Called
    <2>2. /\ UNCHANGED <<binding, copies, protocol>>
          /\ sound' => sound
          /\ \A d \in Callers : pc[d] = "unbind" => pc'[d] = "unbind"
      BY <2>1 DEF CallOf, Enter, Goto, Idle, drive, Typed, CallTypes
    <2>3. binding.secret # None /\ status[binding.secret] = "ACTIVE"
            => status'[binding.secret] = "ACTIVE"
      <3>1. binding.secret \in Secret \cup {None}
        BY RowTypes DEF Typed, SharedTypes
      <3>2. QED
        BY <2>1, <3>1 DEF CallOf
    <2>4. QED
      BY <2>2, <2>3 DEF ReadyIsBacked
  <1>3. CASE UNCHANGED <<binding, status, drive, pc, ghosts>>
    BY <1>3 DEF ReadyIsBacked, drive, ghosts
  <1>4. QED
    BY <1>1, <1>2, <1>3, BackedByCaller, NextCases DEF PollEnds, Revoke,
      Change, vars

LEMMA PrintByCaller ==
  ASSUME TypeOK, Typed, HasIds, LoneIsAlone, Progress, PrintIsPublished, NEW c
      \in Callers, Proceed(c)
  PROVE  PrintIsPublished'
  <1> DEFINE Stays ==
               whole /\ binding.print # None
                 /\ pc[c] \notin {"json", "published"} => Published
  <1> SUFFICES ASSUME whole', LoneStep(c), Stays
               PROVE  PrintIsPublished'
    BY GhostsMeanLone DEF PrintIsPublished, Published, LoneStep, Quiet, Idle
  <1> USE DEF drive, locals, ghosts, Typed
  <1>1. CASE ConnectRead(c)
    BY <1>1 DEF ConnectRead, Stays, Published, PrintIsPublished
  <1>2. CASE Climbs(c)
    <2>1. /\ mine[c] \in Rows /\ pc[c] \notin {"json", "published"}
          /\ mine[c].report = binding.report /\ mine[c].print = binding.print
      BY <1>2, Arguments DEF Climbs, LoneStep, Fresh, Connecting
    <2>2. ASSUME NEW row \in Rows, row.report = mine[c].report,
                 row.print = mine[c].print, Climb(c, row)
          PROVE  /\ binding'.report = binding.report
                 /\ binding'.print = binding.print /\ whole' = whole
      BY <2>1, <2>2 DEF Climb, Rows
    <2>3. /\ binding'.report = binding.report
          /\ binding'.print = binding.print /\ whole' = whole
      <3>1. CASE \E st \in {"NEEDS_ACTION", "DEGRADED"} : Fall(c, st)
        BY <2>1, <3>1 DEF Fall, Rows
      <3>2. QED
        BY <1>2, <2>2, <3>1 DEF Climbs
    <2>4. UNCHANGED <<markdown, json>>
      BY <1>2 DEF Climbs
    <2>5. QED
      BY <2>1, <2>3, <2>4 DEF Stays, Published, PrintIsPublished
  <1>3. CASE PublishRead(c)
    BY <1>3 DEF PublishRead, Stays, Published, PrintIsPublished
  <1>4. CASE PublishCredential(c)
    BY <1>4 DEF PublishCredential, Stays, Published, PrintIsPublished
  <1>5. CASE WriteMarkdown(c)
    BY <1>5 DEF WriteMarkdown, PrintIsPublished, Goto, CallTypes
  <1>6. CASE WriteJson(c)
    BY <1>6 DEF WriteJson, PrintIsPublished, Goto, CallTypes
  <1>7. CASE PublishSave(c)
    <2> DEFINE t == Target(mine[c], mine[c].report)
    <2>1. markdown[t] = seen[c] /\ json[t] = seen[c] /\ mine[c] \in Rows
      BY <1>7, Arguments DEF PublishSave, LoneStep, Reported
    <2>2. binding'.report = t /\ binding'.print = seen[c]
      BY <1>7, <2>1 DEF PublishSave, Rows
    <2>3. UNCHANGED <<markdown, json>>
      BY <1>7 DEF PublishSave
    <2>4. QED
      BY <2>1, <2>2, <2>3 DEF PrintIsPublished
  <1>8. CASE PublishFails(c)
    BY <1>8 DEF PublishFails, PrintIsPublished
  <1>9. CASE VerifyRead(c)
    BY <1>9 DEF VerifyRead, Stays, Published, PrintIsPublished
  <1>10. CASE VerifyCheck(c)
    <2>1. mine[c] \in Rows /\ mine[c] = binding
      BY <1>10, Arguments DEF VerifyCheck, LoneStep, Fresh, Copying
    <2>2. /\ binding'.report = binding.report
          /\ binding'.print = binding.print
          /\ UNCHANGED <<markdown, json, whole>>
      BY <1>10, <2>1 DEF VerifyCheck, Fall, Rows
    <2>3. QED
      BY <1>10, <2>2 DEF VerifyCheck, Stays, Published, PrintIsPublished
  <1>11. CASE DisconnectRead(c)
    BY <1>11 DEF DisconnectRead, Stays, Published, PrintIsPublished
  <1>12. CASE DisableSecret(c)
    BY <1>12 DEF DisableSecret, Stays, Published, PrintIsPublished
  <1>13. CASE Unbind(c)
    BY <1>13 DEF Unbind, Blank, PrintIsPublished
  <1>14. CASE ClearSession(c)
    BY <1>14 DEF ClearSession, Stays, Published, PrintIsPublished
  <1>15. CASE AuthorizeCheck(c)
    BY <1>15 DEF AuthorizeCheck, Stays, Published, PrintIsPublished
  <1>16. CASE AuthorizeStart(c)
    BY <1>16 DEF AuthorizeStart, Stays, Published, PrintIsPublished
  <1>17. CASE Polled(c)
    BY <1>17 DEF Polled, Stays, Published, PrintIsPublished
  <1> HIDE DEF drive, locals, ghosts, Typed
  <1>18. QED
    BY <1>1, <1>2, <1>3, <1>4, <1>5, <1>6, <1>7, <1>8, <1>9, <1>10, <1>11,
        <1>12, <1>13, <1>14, <1>15, <1>16, <1>17, ClimbsEffect
    DEF Proceed, ConnectStep, ReportStep, BindStep

LEMMA PrintStep ==
  ASSUME TypeOK, Typed, HasIds, LoneIsAlone, Progress, PrintIsPublished,
         [Next]_vars
  PROVE  PrintIsPublished'
  <1>1. ASSUME NEW c \in Callers, Crash(c) PROVE PrintIsPublished'
    BY <1>1 DEF Crash, PrintIsPublished
  <1>2. ASSUME NEW c \in Callers, Called(c) PROVE PrintIsPublished'
    <2>1. /\ UNCHANGED <<binding, markdown, json>>
          /\ whole' => whole
          /\ \A d \in Callers :
               pc[d] \in {"json", "published"} => pc'[d] = pc[d]
      BY <1>2 DEF Called, CallOf, Enter, Goto, Idle, drive, Typed, CallTypes
    <2>2. QED
      BY <2>1 DEF PrintIsPublished
  <1>3. CASE UNCHANGED <<binding, drive, pc, ghosts>>
    BY <1>3 DEF PrintIsPublished, drive, ghosts
  <1>4. QED
    BY <1>1, <1>2, <1>3, PrintByCaller, NextCases DEF PollEnds, Revoke,
      Change, vars

LEMMA IInvInit == Init => IInv
  <1> SUFFICES ASSUME Init PROVE IInv
    OBVIOUS
  <1> USE Constants, LadderFacts DEF Init
  <1>1. TypeOK
    <2>1. status \in [Secret -> {"NONE", "ACTIVE", "DISABLED"}]
      OBVIOUS
    <2>2. pc \in [Callers -> Steps]
      BY DEF Steps
    <2>3. QED
      BY <2>1, <2>2 DEF TypeOK, NoSession
  <1>2. LoneIsAlone /\ Progress
    BY DEF LoneIsAlone, Progress, Idle
  <1>3. HasIds
    BY DEF HasIds, RowHasIds, SessionHasIds, Needed, Connecting, Copying,
       Blank, NoSession
  <1>4. ReadyIsBacked /\ PrintIsPublished
    BY DEF ReadyIsBacked, PrintIsPublished, Blank
  <1>5. QED
    BY <1>1, <1>2, <1>3, <1>4 DEF IInv

LEMMA IInvStep == IInv /\ [Next]_vars => IInv'
  BY TypeParts, TypeStep, AloneStep, IdsStep, ProgressStep, BackedStep,
     PrintStep DEF IInv

THEOREM Invariance == Spec => []IInv
  BY IInvInit, IInvStep, PTL DEF Spec

\* Every variable keeps to its set, for all values of the constants.
THEOREM TypeCorrect == Spec => []TypeOK
  <1>1. IInv => TypeOK
    BY DEF IInv
  <1>2. QED
    BY Invariance, <1>1, PTL

\* What connect verifies is so when it says READY, and stays so until calls
\* overlap or a process is killed: GenOS itself breaks none of it.
THEOREM ReadyBindingsAreBacked == Spec => []ReadyIsBacked
  <1>1. IInv => ReadyIsBacked
    BY DEF IInv
  <1>2. QED
    BY Invariance, <1>1, PTL

\* publish records a fingerprint only of a report that it has written, so that
\* a scan which finds it unchanged may leave the report alone.
THEOREM PrintsArePublished == Spec => []PrintIsPublished
  <1>1. IInv => PrintIsPublished
    BY DEF IInv
  <1>2. QED
    BY Invariance, <1>1, PTL

LEMMA RebindOfCaller ==
  ASSUME TypeOK, Typed, HasIds, LoneIsAlone, Progress, lone # {}, binding.state
      = "READY", NEW c \in Callers, Proceed(c)
  PROVE  binding'.secret = binding.secret \/ binding'.state = "DISCONNECTED"
  <1> LoneStep(c)
    BY GhostsMeanLone
  <1> USE DEF locals, ghosts, Typed
  <1>1. CASE ConnectRead(c)
    BY <1>1 DEF ConnectRead
  <1>2. CASE Climbs(c)
    <2>1. mine[c] \in Rows /\ mine[c].secret = binding.secret
      BY <1>2, Arguments DEF Climbs, LoneStep, Fresh, Connecting
    <2>2. \A row \in Rows : Climb(c, row) => binding'.secret = row.secret
      BY DEF Climb, Rows
    <2>3. \A st \in States : Fall(c, st) => binding'.secret = mine[c].secret
      BY <2>1 DEF Fall, Rows
    <2>4. QED
      BY <1>2, <2>1, <2>2, <2>3, LadderFacts DEF Climbs
  <1>3. CASE PublishRead(c)
    BY <1>3 DEF PublishRead
  <1>4. CASE PublishCredential(c)
    BY <1>4 DEF PublishCredential
  <1>5. CASE WriteMarkdown(c)
    BY <1>5 DEF WriteMarkdown
  <1>6. CASE WriteJson(c)
    BY <1>6 DEF WriteJson
  <1>7. CASE PublishSave(c)
    <2>1. mine[c] \in Rows /\ mine[c].secret = binding.secret
      BY <1>7, Arguments DEF PublishSave, LoneStep, Fresh, Copying
    <2>2. QED
      BY <1>7, <2>1 DEF PublishSave, Rows
  <1>8. CASE PublishFails(c)
    <2>1. mine[c] \in Rows /\ mine[c].secret = binding.secret
      BY <1>8, Arguments DEF PublishFails, LoneStep, Fresh, Copying
    <2>2. QED
      BY <1>8, <2>1 DEF PublishFails, Rows
  <1>9. CASE VerifyRead(c)
    BY <1>9 DEF VerifyRead
  <1>10. CASE VerifyCheck(c)
    <2>1. mine[c] \in Rows /\ mine[c].secret = binding.secret
      BY <1>10, Arguments DEF VerifyCheck, LoneStep, Fresh, Copying
    <2>2. QED
      BY <1>10, <2>1 DEF VerifyCheck, Fall, Rows
  <1>11. CASE DisconnectRead(c)
    BY <1>11 DEF DisconnectRead
  <1>12. CASE DisableSecret(c)
    BY <1>12 DEF DisableSecret
  <1>13. CASE Unbind(c)
    BY <1>13 DEF Unbind, Blank
  <1>14. CASE ClearSession(c)
    BY <1>14 DEF ClearSession
  <1>15. CASE AuthorizeCheck(c)
    BY <1>15 DEF AuthorizeCheck
  <1>16. CASE AuthorizeStart(c)
    BY <1>16 DEF AuthorizeStart
  <1>17. CASE Polled(c)
    BY <1>17 DEF Polled
  <1> HIDE DEF locals, ghosts, Typed
  <1>18. QED
    BY <1>1, <1>2, <1>3, <1>4, <1>5, <1>6, <1>7, <1>8, <1>9, <1>10, <1>11,
        <1>12, <1>13, <1>14, <1>15, <1>16, <1>17, ClimbsEffect
    DEF Proceed, ConnectStep, ReportStep, BindStep

\* connect refuses a READY binding another credential, and no other operation
\* writes one without the checkpoints of connect or the row of disconnect.
THEOREM RebindingIsExplicit == Spec => RebindIsExplicit
  <1>1. IInv /\ [Next]_vars =>
          [lone # {} /\ binding.state = "READY"
             => binding'.secret = binding.secret
                  \/ binding'.state = "DISCONNECTED"]_vars
    <2> SUFFICES ASSUME IInv, [Next]_vars, lone # {}, binding.state = "READY"
                 PROVE  binding'.secret = binding.secret
                          \/ binding'.state = "DISCONNECTED"
      OBVIOUS
    <2>1. TypeOK /\ Typed /\ HasIds /\ LoneIsAlone /\ Progress
      BY TypeParts DEF IInv
    <2>2. ASSUME NEW c \in Callers, Called(c) PROVE binding' = binding
      BY <2>2 DEF Called, CallOf
    <2>3. QED
      BY <2>1, <2>2, RebindOfCaller, NextCases DEF Crash, PollEnds, Revoke,
        Change, vars
  <1>2. QED
    BY Invariance, <1>1, PTL DEF RebindIsExplicit, Spec

=============================================================================
