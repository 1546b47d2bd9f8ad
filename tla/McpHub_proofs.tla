----------------------------- MODULE McpHub_proofs -----------------------------
(***************************************************************************)
(* Proofs about McpHub, for any number of threads, principals, upstreams   *)
(* and tools, and any sequence of changes, expiries and restarts: what is  *)
(* run is audited, a handle is spent once and by its owner, schemas stay   *)
(* with their credential and a request has the authority of the row.       *)
(***************************************************************************)
EXTENDS McpHub, FiniteSetTheorems, TLAPS

RowsTyped ==
  /\ status \in [Principal -> {"NONE", "ACTIVE", "REVOKED"}]
  /\ token \in [Principal -> 0 .. MaxToken] /\ scopes \in [Principal -> SUBSET Tool]
  /\ registered \in [Upstream -> {"NONE", "ACTIVE", "DISABLED"}]
  /\ secret \in [Upstream -> Secret]
MemoryTyped ==
  /\ window \in [Principal -> 0 .. Window]
  /\ cache \subseteq Entry /\ stale \subseteq cache
  /\ conts \in [Handle -> Record \cup {None}]
  /\ issued \in 0 .. MaxHandle /\ past \in 0 .. issued
RequestTyped ==
  /\ pc \in [Thread -> Steps]
  /\ who \in [Thread -> Principal \cup {None}] /\ gen \in [Thread -> 0 .. MaxToken]
  /\ granted \in [Thread -> SUBSET Tool]
  /\ tool \in [Thread -> Tool \cup {None}] /\ given \in [Thread -> 0 .. MaxHandle]
WorkTyped ==
  /\ todo \in [Thread -> SUBSET Upstream] /\ up \in [Thread -> Upstream \cup {None}]
  /\ cred \in [Thread -> {0} \cup Secret] /\ state \in [Thread -> 0 .. MaxHandle]
  /\ schema \in [Thread -> Entry \cup {None}]
  /\ listing \in [Thread -> [ctx : Context, tools : SUBSET Name]]
  /\ asks \in [Thread -> BOOLEAN]
CountsTyped ==
  /\ rows \in [Thread -> SUBSET {"DISPATCH"}] /\ sent \in [Thread -> Nat]
  /\ replays \in [Handle -> Nat] /\ owner \in [Handle -> Record \cup {None}]
  /\ retired \subseteq Principal \X (1 .. MaxToken) /\ early \subseteq Thread
  /\ used \in 0 .. Limit

Typed == RowsTyped /\ MemoryTyped /\ RequestTyped /\ WorkTyped /\ CountsTyped

\* Every handle that a call may still ask for can be issued.
Room == issued + Promised <= MaxHandle

\* A principal has a token from its creation on.
Tokens == \A p \in Principal : status[p] # "NONE" => token[p] > 0

Spending == {"secret", "lookup", "fetch", "install", "again", "dispatch", "send"}
Calling == {"rate", "local", "run", "route", "take", "lookup", "again", "dispatch",
            "send", "keep"}

\* What a thread holds at each step of its request.
Shape(r) ==
  /\ pc[r] # "idle" => who[r] # None
  /\ pc[r] \in Calling => tool[r] # None
  /\ pc[r] \in {"idle", "next"} => tool[r] = None
  /\ pc[r] \in Spending \cup {"route", "take", "keep"} => tool[r] \in Remote \cup {None}
  /\ pc[r] \in Spending \cup {"take", "keep"} => up[r] # None
  /\ pc[r] \in Spending \ {"secret"} => cred[r] # 0
  /\ pc[r] = "take" => given[r] # 0
  /\ pc[r] \notin Spending \/ tool[r] = None => state[r] = 0
  /\ pc[r] \notin {"dispatch", "send"} => schema[r] = None
  /\ asks[r] <=> pc[r] = "keep"
  /\ pc[r] \in {"run", "send", "keep", "close"} => "DISPATCH" \in rows[r]
  /\ sent[r] = IF pc[r] \in {"keep", "close"} THEN 1 ELSE 0
Shapes == \A r \in Thread : Shape(r)

Base == Typed /\ Room /\ Tokens /\ Shapes

-----------------------------------------------------------------------------
(* Types.                                                                  *)

LEMMA TypeParts == Typed => TypeOK
  BY DEF Typed, TypeOK, RowsTyped, MemoryTyped, RequestTyped, WorkTyped, CountsTyped

LEMMA SpendTypes ==
  ASSUME used \in 0 .. Limit, Spend
  PROVE  used' \in 0 .. Limit
  BY HubAssumption DEF Spend

LEMMA ReturnTypes ==
  ASSUME RequestTyped, WorkTyped, CountsTyped, NEW r \in Thread, Return(r)
  PROVE  /\ RequestTyped' /\ WorkTyped'
         /\ rows' \in [Thread -> SUBSET {"DISPATCH"}] /\ sent' \in [Thread -> Nat]
         /\ early' \subseteq Thread
  <1> USE HubAssumption DEF Return, Goto
  <1>1. RequestTyped'
    BY DEF RequestTyped, Steps
  <1>2. WorkTyped'
    <2>1. NoListing \in [ctx : Context, tools : SUBSET Name]
      BY DEF NoListing, Context, Public
    <2>2. listing' \in [Thread -> [ctx : Context, tools : SUBSET Name]]
      BY <2>1 DEF WorkTyped
    <2>3. QED
      BY <2>2 DEF WorkTyped
  <1>3. QED
    BY <1>1, <1>2 DEF CountsTyped

LEMMA AnsweredTypes ==
  ASSUME Typed, NEW r \in Thread, Answered(r)
  PROVE  RowsTyped' /\ RequestTyped' /\ WorkTyped' /\ CountsTyped'
  <1>1. RowsTyped'
    BY DEF Answered, Elsewhere, Typed, RowsTyped, principals, upstreams
  <1>2. UNCHANGED <<replays, owner, retired, used>> /\ Return(r)
    BY DEF Answered, Elsewhere
  <1>3. QED
    BY <1>1, <1>2, ReturnTypes DEF Typed, CountsTyped

LEMMA MemorySame ==
  ASSUME MemoryTyped, UNCHANGED <<memory, issued>>
  PROVE  MemoryTyped'
  BY DEF MemoryTyped, memory

LEMMA ElsewhereTypes ==
  ASSUME Typed, Elsewhere
  PROVE  RowsTyped' /\ UNCHANGED <<issued, replays, owner, retired, used>>
  BY DEF Elsewhere, Typed, RowsTyped, principals, upstreams

LEMMA ProceedTypes ==
  ASSUME Typed, NEW r \in Thread, NEW step \in Steps, Proceed(r, step)
  PROVE  RequestTyped'
  BY DEF Proceed, Goto, authority, Typed, RequestTyped

\* What goes on elsewhere in the types.
LEMMA OnwardTypes ==
  ASSUME Typed, NEW r \in Thread, NEW step \in Steps, Proceed(r, step), Elsewhere
  PROVE  RowsTyped' /\ RequestTyped' /\ CountsTyped'
  <1>1. RowsTyped' /\ UNCHANGED <<replays, owner, retired, used>>
    BY ElsewhereTypes
  <1>2. UNCHANGED <<rows, sent, early>>
    BY DEF Proceed
  <1>3. QED
    BY <1>1, <1>2, ProceedTypes DEF Typed, CountsTyped

LEMMA RateTypes ==
  ASSUME Typed, NEW r \in Thread, Shape(r), Rate(r)
  PROVE  Typed'
  <1> USE DEF Typed
  <1>1. MemoryTyped'
    <2>1. who[r] \in Principal
      BY DEF Rate, At, Shape, RequestTyped
    <2>2. window' \in [Principal -> 0 .. Window]
      BY <2>1, HubAssumption DEF Rate, MemoryTyped, memory
    <2>3. UNCHANGED <<cache, stale, conts, issued, past>>
      BY DEF Rate, memory, Answered, Elsewhere
    <2>4. QED
      BY <2>2, <2>3 DEF MemoryTyped
  <1>2. CASE Answered(r)
    BY <1>1, <1>2, AnsweredTypes
  <1>3. ASSUME NEW step \in {"local", "route"}, Proceed(r, step), Elsewhere, UNCHANGED work
        PROVE  Typed'
    BY <1>1, <1>3, OnwardTypes DEF Steps, WorkTyped, work
  <1>4. QED
    BY <1>2, <1>3 DEF Rate
LEMMA LocalDispatchTypes ==
  ASSUME Typed, NEW r \in Thread, Shape(r), LocalDispatch(r)
  PROVE  Typed'
  <1> USE DEF Typed
  <1>1. MemoryTyped'
    BY MemorySame DEF LocalDispatch, Answered, Elsewhere
  <1>2. CASE Answered(r)
    BY <1>1, <1>2, AnsweredTypes
  <1>3. CASE Audit(r, "DISPATCH") /\ Goto(r, "run") /\ Elsewhere
             /\ UNCHANGED <<authority, work, sent, early>>
    <2>1. RowsTyped' /\ RequestTyped'
      BY <1>3, ElsewhereTypes DEF Goto, RequestTyped, authority, Steps
    <2>2. WorkTyped' /\ CountsTyped'
      BY <1>3, ElsewhereTypes DEF WorkTyped, work, CountsTyped, Audit
    <2>3. QED
      BY <1>1, <2>1, <2>2
  <1>4. QED
    BY <1>2, <1>3 DEF LocalDispatch
LEMMA RunLocalTypes ==
  ASSUME Typed, NEW r \in Thread, Shape(r), RunLocal(r)
  PROVE  Typed'
  <1> USE DEF Typed
  <1>1. MemoryTyped'
    BY MemorySame DEF RunLocal, Elsewhere
  <1>2. RowsTyped' /\ RequestTyped'
    BY ElsewhereTypes DEF RunLocal, Goto, RequestTyped, authority, Steps
  <1>3. WorkTyped' /\ CountsTyped'
    BY ElsewhereTypes DEF RunLocal, WorkTyped, work, CountsTyped
  <1>4. QED
    BY <1>1, <1>2, <1>3
LEMMA RouteTypes ==
  ASSUME Typed, NEW r \in Thread, Shape(r), Route(r)
  PROVE  Typed'
  <1> USE DEF Typed
  <1>1. MemoryTyped'
    BY MemorySame DEF Route, Answered, Elsewhere
  <1>2. CASE Answered(r)
    BY <1>1, <1>2, AnsweredTypes
  <1>3. ASSUME ~Answered(r)
        PROVE  Typed'
    <2>1. /\ Proceed(r, IF given[r] = 0 THEN "secret" ELSE "take") /\ Elsewhere
          /\ up' = [up EXCEPT ![r] = Upper(tool[r])]
          /\ UNCHANGED <<todo, cred, state, schema, listing, asks>>
      BY <1>3 DEF Route
    <2>2. Upper(tool[r]) \in Upstream
      BY HubAssumption DEF Route, At, Shape, Upper, Calling
    <2>3. WorkTyped'
      BY <2>1, <2>2 DEF WorkTyped
    <2>4. QED
      BY <1>1, <2>1, <2>3, OnwardTypes DEF Steps
  <1>4. QED
    BY <1>2, <1>3
LEMMA TakeContinuationTypes ==
  ASSUME Typed, NEW r \in Thread, Shape(r), TakeContinuation(r)
  PROVE  Typed'
  <1> USE DEF Typed
  <1>1. MemoryTyped'
    <2>1. conts' \in [Handle -> Record \cup {None}]
      BY DEF TakeContinuation, MemoryTyped
    <2>2. UNCHANGED <<window, cache, stale, past, issued>>
      BY DEF TakeContinuation, Taken, Answered, Elsewhere
    <2>3. QED
      BY <2>1, <2>2 DEF MemoryTyped
  <1>2. CASE Answered(r)
    BY <1>1, <1>2, AnsweredTypes
  <1>3. CASE Taken(r, given[r])
    <2>1. RowsTyped' /\ CountsTyped'
      BY <1>3, ElsewhereTypes DEF Taken, CountsTyped
    <2>2. RequestTyped'
      BY <1>3, HubAssumption DEF Taken, RequestTyped, Goto, Steps
    <2>3. WorkTyped'
      BY <1>3 DEF Taken, WorkTyped, RequestTyped
    <2>4. QED
      BY <1>1, <2>1, <2>2, <2>3
  <1>4. QED
    BY <1>2, <1>3 DEF TakeContinuation
LEMMA DegradedTypes ==
  ASSUME Typed, NEW r \in Thread, Degraded(r), UNCHANGED memory
  PROVE  Typed'
  <1> USE DEF Typed
  <1>1. MemoryTyped'
    BY MemorySame DEF Degraded, Answered, Elsewhere
  <1>2. CASE Listing(r)
    <2>1. Proceed(r, "next") /\ Elsewhere
      BY <1>2 DEF Degraded
    <2>2. WorkTyped'
      BY <1>2 DEF Degraded, WorkTyped
    <2>3. QED
      BY <1>1, <2>1, <2>2, OnwardTypes DEF Steps
  <1>3. CASE ~Listing(r)
    BY <1>1, <1>3, AnsweredTypes DEF Degraded
  <1>4. QED
    BY <1>2, <1>3

LEMMA GetSecretTypes ==
  ASSUME Typed, NEW r \in Thread, Shape(r), GetSecret(r)
  PROVE  Typed'
  <1> USE DEF Typed
  <1>1. CASE Degraded(r)
    BY <1>1, DegradedTypes DEF GetSecret
  <1>2. CASE ~Degraded(r)
    <2>1. /\ Proceed(r, IF Listing(r) THEN "fetch" ELSE "lookup") /\ Elsewhere
          /\ cred' = [cred EXCEPT ![r] = secret[up[r]]]
          /\ UNCHANGED <<todo, up, state, schema, listing, asks>>
      BY <1>2 DEF GetSecret
    <2>2. secret[up[r]] \in Secret
      BY DEF GetSecret, At, Shape, Spending, WorkTyped, RowsTyped
    <2>3. WorkTyped'
      BY <2>1, <2>2 DEF WorkTyped
    <2>4. MemoryTyped'
      BY <2>1, MemorySame DEF GetSecret, Elsewhere
    <2>5. QED
      BY <2>1, <2>3, <2>4, OnwardTypes DEF Steps
  <1>3. QED
    BY <1>1, <1>2
LEMMA UseSchemaTypes ==
  ASSUME Typed, NEW r \in Thread, NEW found \in SUBSET cache, UseSchema(r, found), UNCHANGED memory
  PROVE  Typed'
  <1> USE DEF Typed
  <1>1. MemoryTyped'
    BY MemorySame DEF UseSchema, Inadmissible, Answered, Elsewhere
  <1>2. CASE Answered(r)
    BY <1>1, <1>2, AnsweredTypes
  <1>3. CASE Proceed(r, "dispatch") /\ Elsewhere
             /\ (\E e \in found : schema' = [schema EXCEPT ![r] = e])
             /\ UNCHANGED <<todo, up, cred, state, listing, asks>>
    <2>1. WorkTyped'
      BY <1>3 DEF WorkTyped, MemoryTyped
    <2>2. QED
      BY <1>1, <1>3, <2>1, OnwardTypes DEF Steps
  <1>4. QED
    BY <1>2, <1>3 DEF UseSchema, Inadmissible

LEMMA FoundCached == \A r : Found(r) \subseteq cache
  BY DEF Found, Cached

LEMMA LookupTypes ==
  ASSUME Typed, NEW r \in Thread, Shape(r), Lookup(r)
  PROVE  Typed'
  <1> USE DEF Typed
  <1>1. CASE UseSchema(r, Found(r) \ stale)
    BY <1>1, UseSchemaTypes, FoundCached DEF Lookup
  <1>2. CASE Proceed(r, "fetch") /\ Elsewhere /\ UNCHANGED work
    <2>1. MemoryTyped' /\ WorkTyped'
      BY <1>2, MemorySame DEF Lookup, Elsewhere, WorkTyped, work
    <2>2. QED
      BY <1>2, <2>1, OnwardTypes DEF Steps
  <1>3. QED
    BY <1>1, <1>2 DEF Lookup
LEMMA FetchTypes ==
  ASSUME Typed, NEW r \in Thread, Shape(r), Fetch(r)
  PROVE  Typed'
  <1> USE DEF Typed
  <1>1. CASE Degraded(r)
    BY <1>1, DegradedTypes DEF Fetch
  <1>2. CASE ~Degraded(r)
    <2>1. /\ Proceed(r, "install") /\ Elsewhere
          /\ UNCHANGED <<todo, up, cred, state, schema, asks>>
      BY <1>2 DEF Fetch
    <2>2. PICK ctx \in {Public, cred[r]}, ts \in SUBSET Name :
            listing' = [listing EXCEPT ![r] = [ctx |-> ctx, tools |-> ts]]
      BY <1>2 DEF Fetch
    <2>3. [ctx |-> ctx, tools |-> ts] \in [ctx : Context, tools : SUBSET Name]
      BY DEF Context, Public, WorkTyped
    <2>4. WorkTyped'
      BY <2>1, <2>2, <2>3 DEF WorkTyped
    <2>5. MemoryTyped'
      BY <2>1, MemorySame DEF Fetch, Elsewhere
    <2>6. QED
      BY <2>1, <2>4, <2>5, OnwardTypes DEF Steps
  <1>3. QED
    BY <1>1, <1>2
LEMMA InstallTypes ==
  ASSUME Typed, NEW r \in Thread, Shape(r), Install(r)
  PROVE  Typed'
  <1> USE DEF Typed
  <1> DEFINE fresh == {[up |-> up[r], ctx |-> listing[r].ctx, tool |-> n, by |-> cred[r]]
                        : n \in listing[r].tools}
  <1>1. up[r] \in Upstream /\ cred[r] \in Secret
    BY DEF Install, At, Shape, Spending, WorkTyped
  <1>2. listing[r].ctx \in Context /\ listing[r].tools \subseteq Name
    BY DEF WorkTyped
  <1>3. fresh \subseteq Entry
    BY <1>1, <1>2 DEF Entry
  <1>4. /\ cache' = {e \in cache : e.up # up[r]} \cup fresh
        /\ stale' = {e \in stale : e.up # up[r]}
    BY DEF Install
  <1>5. MemoryTyped'
    BY <1>3, <1>4 DEF Install, MemoryTyped, Elsewhere
  <1>6. listing' \in [Thread -> [ctx : Context, tools : SUBSET Name]]
    BY DEF Install, WorkTyped, NoListing, Context, Public
  <1>7. WorkTyped'
    BY <1>6 DEF Install, WorkTyped
  <1>8. Proceed(r, IF Listing(r) THEN "next" ELSE "again") /\ Elsewhere
    BY DEF Install
  <1>9. QED
    BY <1>5, <1>7, <1>8, OnwardTypes DEF Steps
LEMMA LookupAgainTypes ==
  ASSUME Typed, NEW r \in Thread, Shape(r), LookupAgain(r)
  PROVE  Typed'
  <1> USE DEF Typed
  <1>1. CASE UseSchema(r, Found(r))
    BY <1>1, UseSchemaTypes, FoundCached DEF LookupAgain
  <1>2. CASE Answered(r)
    <2>1. MemoryTyped'
      BY <1>2, MemorySame DEF LookupAgain, Answered, Elsewhere
    <2>2. QED
      BY <1>2, <2>1, AnsweredTypes
  <1>3. QED
    BY <1>1, <1>2 DEF LookupAgain
LEMMA AuditDispatchTypes ==
  ASSUME Typed, NEW r \in Thread, Shape(r), AuditDispatch(r)
  PROVE  Typed'
  <1> USE DEF Typed
  <1>1. MemoryTyped'
    BY MemorySame DEF AuditDispatch, Answered, Elsewhere
  <1>2. CASE Answered(r)
    BY <1>1, <1>2, AnsweredTypes
  <1>3. CASE Audit(r, "DISPATCH") /\ Goto(r, "send") /\ Elsewhere
             /\ UNCHANGED <<authority, work, sent, early>>
    <2>1. RowsTyped' /\ RequestTyped'
      BY <1>3, ElsewhereTypes DEF Goto, RequestTyped, authority, Steps
    <2>2. WorkTyped' /\ CountsTyped'
      BY <1>3, ElsewhereTypes DEF WorkTyped, work, CountsTyped, Audit
    <2>3. QED
      BY <1>1, <2>1, <2>2
  <1>4. QED
    BY <1>2, <1>3 DEF AuditDispatch
LEMMA SendTypes ==
  ASSUME Typed, NEW r \in Thread, Shape(r), Send(r)
  PROVE  Typed'
  <1> USE DEF Typed
  <1>1. RowsTyped' /\ MemoryTyped'
    BY DEF Send, RowsTyped, MemoryTyped, principals, upstreams, memory
  <1>2. RequestTyped'
    BY DEF Send, RequestTyped, Ends, AsksForInput, Goto, authority, Steps
  <1>3. WorkTyped'
    <2>1. asks' \in [Thread -> BOOLEAN]
      BY DEF Send, WorkTyped, Ends, AsksForInput
    <2>2. /\ cred' = [cred EXCEPT ![r] = 0] /\ state' = [state EXCEPT ![r] = 0]
          /\ schema' = [schema EXCEPT ![r] = None] /\ UNCHANGED <<todo, up, listing>>
      BY DEF Send
    <2>3. QED
      BY <2>1, <2>2, HubAssumption DEF WorkTyped
  <1>4. replays' \in [Handle -> Nat]
    <2>1. CASE state[r] = 0
      BY <2>1 DEF Send, CountsTyped
    <2>2. CASE state[r] # 0
      <3>1. state[r] \in Handle
        BY <2>2, HubAssumption DEF WorkTyped, Handle
      <3>2. replays' = [replays EXCEPT ![state[r]] = @ + 1]
        BY <2>2 DEF Send
      <3>3. QED
        BY <3>1, <3>2 DEF CountsTyped
    <2>3. QED
      BY <2>1, <2>2
  <1>5. CountsTyped'
    BY <1>4 DEF Send, CountsTyped
  <1>6. QED
    BY <1>1, <1>2, <1>3, <1>5
LEMMA StoreContinuationTypes ==
  ASSUME Typed, NEW r \in Thread, Shape(r), issued < MaxHandle, StoreContinuation(r)
  PROVE  Typed'
  <1> USE DEF Typed
  <1> DEFINE record == [who |-> who[r], up |-> up[r], tool |-> tool[r]]
  <1>1. issued + 1 \in Handle
    BY HubAssumption DEF MemoryTyped, Handle
  <1>2. record \in Record
    BY DEF StoreContinuation, At, Shape, Calling, RequestTyped, WorkTyped, Record
  <1>3. /\ conts' \in [Handle -> Record \cup {None}]
        /\ owner' \in [Handle -> Record \cup {None}]
    <2>1. CASE UNCHANGED <<conts, issued, owner>>
      BY <2>1 DEF MemoryTyped, CountsTyped
    <2>2. CASE ~UNCHANGED <<conts, issued, owner>>
      <3> DEFINE live == {i \in Handle : conts[i] # None /\ i > past}
                 oldest == IF Cardinality(live) < Kept THEN {}
                           ELSE {i \in live : \A j \in live : i <= j}
      <3>1. /\ conts' = [i \in Handle |-> IF i = issued + 1 THEN record
                                          ELSE IF i \in live \ oldest THEN conts[i] ELSE None]
            /\ owner' = [owner EXCEPT ![issued + 1] = record]
        BY <2>2 DEF StoreContinuation
      <3>2. \A i \in Handle : conts'[i] \in Record \cup {None}
        BY <1>2, <3>1 DEF MemoryTyped
      <3>3. conts' \in [Handle -> Record \cup {None}]
        <4> HIDE DEF live, oldest, record
        <4>1. QED
          BY <3>1, <3>2
      <3>4. QED
        BY <1>1, <1>2, <3>1, <3>3 DEF CountsTyped
    <2>3. QED
      BY <2>1, <2>2
  <1>4. issued' \in 0 .. MaxHandle /\ past' \in 0 .. issued'
    BY <1>1 DEF StoreContinuation, MemoryTyped, Handle
  <1>5. RowsTyped' /\ MemoryTyped'
    BY <1>3, <1>4 DEF StoreContinuation, RowsTyped, MemoryTyped, principals, upstreams
  <1>6. RequestTyped'
    BY ProceedTypes DEF StoreContinuation, Steps
  <1>7. WorkTyped' /\ CountsTyped'
    BY <1>3 DEF StoreContinuation, WorkTyped, CountsTyped, Proceed
  <1>8. QED
    BY <1>5, <1>6, <1>7

LEMMA CloseTypes ==
  ASSUME Typed, NEW r \in Thread, Shape(r), Close(r)
  PROVE  Typed'
  <1>1. MemoryTyped'
    BY MemorySame DEF Close, Answered, Elsewhere, Typed
  <1>2. QED
    BY <1>1, AnsweredTypes DEF Close, Typed
LEMMA NextUpstreamTypes ==
  ASSUME Typed, NEW r \in Thread, Shape(r), NextUpstream(r)
  PROVE  Typed'
  <1> USE DEF Typed
  <1>1. MemoryTyped'
    BY MemorySame DEF NextUpstream, Answered, Elsewhere
  <1>2. CASE Answered(r)
    BY <1>1, <1>2, AnsweredTypes
  <1>3. CASE ~Answered(r)
    <2>1. Proceed(r, "secret") /\ Elsewhere
      BY <1>3 DEF NextUpstream
    <2>2. WorkTyped'
      BY <1>3 DEF NextUpstream, WorkTyped
    <2>3. QED
      BY <1>1, <2>1, <2>2, OnwardTypes DEF Steps
  <1>4. QED
    BY <1>2, <1>3
\* Requests begin.
LEMMA ToolsCallTypes ==
  ASSUME Typed, NEW r \in Thread, NEW p \in Principal, NEW g \in 1 .. MaxToken,
         NEW t \in Tool, NEW h \in 0 .. issued, ToolsCall(r, p, g, t, h)
  PROVE  Typed'
  <1> USE DEF Typed, ToolsCall
  <1>1. RowsTyped' /\ MemoryTyped'
    BY ElsewhereTypes, MemorySame
  <1>2. pc' \in [Thread -> Steps] /\ given' \in [Thread -> 0 .. MaxHandle]
    <2>1. h \in 0 .. MaxHandle
      BY HubAssumption DEF MemoryTyped
    <2>2. QED
      BY <2>1 DEF RequestTyped, Goto, Steps
  <1>3. RequestTyped'
    BY <1>2 DEF RequestTyped, RowsTyped, Authenticate
  <1>4. WorkTyped' /\ CountsTyped'
    BY ElsewhereTypes DEF WorkTyped, CountsTyped, work
  <1>5. QED
    BY <1>1, <1>3, <1>4

LEMMA ToolsListTypes ==
  ASSUME Typed, NEW r \in Thread, NEW p \in Principal, NEW g \in 1 .. MaxToken,
         ToolsList(r, p, g)
  PROVE  Typed'
  <1> USE DEF Typed, ToolsList
  <1>1. RowsTyped' /\ MemoryTyped'
    BY ElsewhereTypes, MemorySame
  <1>2. RequestTyped'
    BY DEF RequestTyped, RowsTyped, Authenticate, Goto, Steps
  <1>3. WorkTyped' /\ CountsTyped'
    BY ElsewhereTypes DEF WorkTyped, CountsTyped
  <1>4. QED
    BY <1>1, <1>2, <1>3

\* The Owner's changes of the rows.
Owners ==
  \/ \E p \in Principal : CreatePrincipal(p) \/ RotatePrincipal(p) \/ RevokePrincipal(p)
                          \/ ReplaceScopes(p)
  \/ \E u \in Upstream : RegisterUpstream(u) \/ DisableUpstream(u) \/ RotateSecret(u)

LEMMA OwnerTypes ==
  ASSUME Typed, Tokens, Owners
  PROVE  Typed'
  <1> USE DEF Typed
  <1>1. MemoryTyped' /\ RequestTyped'
    BY MemorySame DEF Owners, CreatePrincipal, RotatePrincipal, RevokePrincipal, ReplaceScopes,
       RegisterUpstream, DisableUpstream, RotateSecret, Rows, RequestTyped, authority
  <1>2. WorkTyped' /\ UNCHANGED <<rows, sent, replays, owner>>
    BY DEF Owners, CreatePrincipal, RotatePrincipal, RevokePrincipal, ReplaceScopes,
       RegisterUpstream, DisableUpstream, RotateSecret, Rows, WorkTyped, work
  <1>3. ASSUME NEW p \in Principal,
               CreatePrincipal(p) \/ RotatePrincipal(p) \/ RevokePrincipal(p) \/ ReplaceScopes(p)
        PROVE  RowsTyped' /\ CountsTyped'
    <2>1. Busy(p) \subseteq Thread
      BY DEF Busy
    <2>2. CASE CreatePrincipal(p)
      BY <1>2, <2>2, HubAssumption
      DEF CreatePrincipal, RowsTyped, CountsTyped, upstreams, Tool
    <2>3. CASE RotatePrincipal(p)
      <3>1. token[p] \in 1 .. MaxToken /\ token[p] + 1 \in 0 .. MaxToken
        BY <2>3, HubAssumption DEF RotatePrincipal, Tokens, RowsTyped
      <3>2. RowsTyped'
        BY <2>3, <3>1 DEF RotatePrincipal, RowsTyped, upstreams
      <3>3. CountsTyped'
        BY <1>2, <2>1, <2>3, <3>1, SpendTypes DEF RotatePrincipal, CountsTyped
      <3>4. QED
        BY <3>2, <3>3
    <2>4. CASE RevokePrincipal(p)
      <3>1. token[p] \in 1 .. MaxToken
        BY <2>4, HubAssumption DEF RevokePrincipal, Tokens, RowsTyped
      <3>2. QED
        BY <1>2, <2>1, <2>4, <3>1 DEF RevokePrincipal, RowsTyped, CountsTyped, upstreams
    <2>5. CASE ReplaceScopes(p)
      BY <1>2, <2>1, <2>5, SpendTypes, HubAssumption
      DEF ReplaceScopes, RowsTyped, CountsTyped, upstreams, Tool
    <2>6. QED
      BY <1>3, <2>2, <2>3, <2>4, <2>5
  <1>4. ASSUME NEW u \in Upstream,
               RegisterUpstream(u) \/ DisableUpstream(u) \/ RotateSecret(u)
        PROVE  RowsTyped' /\ CountsTyped'
    <2>1. RowsTyped'
      BY <1>4, HubAssumption
      DEF RegisterUpstream, DisableUpstream, RotateSecret, RowsTyped, principals, Secret
    <2>2. CountsTyped'
      BY <1>2, <1>4, SpendTypes
      DEF RegisterUpstream, DisableUpstream, RotateSecret, CountsTyped
    <2>3. QED
      BY <2>1, <2>2
  <1>5. QED
    BY <1>1, <1>2, <1>3, <1>4 DEF Owners

\* Time.
Ages == (\E p \in Principal : WindowMoves(p)) \/ CacheAges \/ HandleExpires

LEMMA AgesTypes ==
  ASSUME Typed, Ages
  PROVE  Typed'
  <1> USE DEF Typed
  <1>1. RowsTyped' /\ RequestTyped' /\ WorkTyped'
    BY DEF Ages, WindowMoves, CacheAges, HandleExpires, Outside, RowsTyped, RequestTyped,
       WorkTyped, principals, upstreams, authority, work
  <1>2. CountsTyped'
    BY SpendTypes DEF Ages, WindowMoves, CacheAges, HandleExpires, Outside, CountsTyped, ghosts
  <1>3. MemoryTyped'
    <2>1. CASE \E p \in Principal : WindowMoves(p)
      BY <2>1, HubAssumption DEF WindowMoves, Outside, MemoryTyped
    <2>2. CASE CacheAges
      BY <2>2 DEF CacheAges, Outside, MemoryTyped
    <2>3. CASE HandleExpires
      BY <2>3, HubAssumption DEF HandleExpires, Outside, MemoryTyped
    <2>4. QED
      BY <2>1, <2>2, <2>3 DEF Ages
  <1>4. QED
    BY <1>1, <1>2, <1>3

LEMMA RestartTypes ==
  ASSUME Typed, Restart
  PROVE  Typed'
  <1> USE HubAssumption DEF Typed, Restart
  <1>1. RowsTyped' /\ CountsTyped'
    BY SpendTypes DEF RowsTyped, CountsTyped, principals, upstreams
  <1>2. MemoryTyped'
    BY DEF MemoryTyped
  <1>3. RequestTyped'
    BY DEF RequestTyped, Steps
  <1>4. WorkTyped'
    BY DEF WorkTyped, NoListing, Context, Public
  <1>5. QED
    BY <1>1, <1>2, <1>3, <1>4


-----------------------------------------------------------------------------
(* Requests.                                                               *)

\* What a step of another thread leaves alone.
Still(d) ==
  /\ pc'[d] = pc[d] /\ who'[d] = who[d] /\ gen'[d] = gen[d] /\ granted'[d] = granted[d]
  /\ tool'[d] = tool[d] /\ given'[d] = given[d]
  /\ up'[d] = up[d] /\ cred'[d] = cred[d] /\ state'[d] = state[d]
  /\ schema'[d] = schema[d] /\ listing'[d] = listing[d] /\ asks'[d] = asks[d]
  /\ rows'[d] = rows[d] /\ sent'[d] = sent[d]
Aside(r) == \A d \in Thread \ {r} : Still(d)

\* What threads do.
Begins(r) ==
  \E p \in Principal, g \in 1 .. MaxToken :
    \/ ToolsList(r, p, g)
    \/ \E t \in Tool, h \in 0 .. issued : ToolsCall(r, p, g, t, h)
Acts(r) == Step(r) \/ Begins(r)

LEMMA StillShape ==
  ASSUME NEW d \in Thread, Still(d), Shape(d)
  PROVE  Shape(d)'
  BY DEF Still, Shape

LEMMA AnsweredAside ==
  ASSUME Typed, NEW r \in Thread, Answered(r)
  PROVE  Aside(r)
  <1> USE DEF Typed, Answered, Return, Goto
  <1>1. ASSUME NEW d \in Thread \ {r}
        PROVE  Still(d)
    <2>1. /\ pc'[d] = pc[d] /\ who'[d] = who[d] /\ gen'[d] = gen[d]
          /\ granted'[d] = granted[d] /\ tool'[d] = tool[d] /\ given'[d] = given[d]
      BY DEF RequestTyped
    <2>2. /\ up'[d] = up[d] /\ cred'[d] = cred[d] /\ state'[d] = state[d]
          /\ schema'[d] = schema[d] /\ listing'[d] = listing[d] /\ asks'[d] = asks[d]
      BY DEF WorkTyped
    <2>3. rows'[d] = rows[d] /\ sent'[d] = sent[d]
      BY DEF CountsTyped
    <2>4. QED
      BY <2>1, <2>2, <2>3 DEF Still
  <1>2. QED
    BY <1>1 DEF Aside

LEMMA AnsweredShape ==
  ASSUME Typed, NEW r \in Thread, Answered(r)
  PROVE  Shape(r)' /\ pc'[r] = "idle"
  <1>1. /\ pc'[r] = "idle" /\ tool'[r] = None /\ state'[r] = 0 /\ schema'[r] = None
        /\ asks'[r] = FALSE /\ sent'[r] = 0
    BY DEF Answered, Return, Goto, Typed, RequestTyped, WorkTyped, CountsTyped
  <1>2. QED
    BY <1>1 DEF Shape, Calling, Spending

\* A thread that goes on.
LEMMA ProceedAside ==
  ASSUME Typed, NEW r \in Thread, NEW step, Proceed(r, step)
  PROVE  /\ \A d \in Thread \ {r} :
              /\ pc'[d] = pc[d] /\ who'[d] = who[d] /\ gen'[d] = gen[d]
              /\ granted'[d] = granted[d] /\ tool'[d] = tool[d] /\ given'[d] = given[d]
              /\ rows'[d] = rows[d] /\ sent'[d] = sent[d]
         /\ pc'[r] = step /\ who'[r] = who[r] /\ gen'[r] = gen[r] /\ tool'[r] = tool[r]
         /\ granted'[r] = granted[r]
         /\ given'[r] = given[r] /\ rows'[r] = rows[r] /\ sent'[r] = sent[r]
  BY DEF Proceed, Goto, authority, Typed, RequestTyped

LEMMA RateGoes ==
  ASSUME Typed, NEW r \in Thread, Shape(r), Rate(r)
  PROVE  Aside(r) /\ Shape(r)'
  <1>1. CASE Answered(r)
    BY <1>1, AnsweredAside, AnsweredShape
  <1>2. ASSUME NEW step \in {"local", "route"}, Proceed(r, step), UNCHANGED work,
               step = "route" => tool[r] \in Remote
        PROVE  Aside(r) /\ Shape(r)'
    <2>1. Aside(r)
      BY <1>2, ProceedAside DEF Aside, Still, work
    <2>2. Shape(r)'
      BY <1>2, ProceedAside DEF Rate, At, Shape, Calling, Spending, work
    <2>3. QED
      BY <2>1, <2>2
  <1>3. QED
    BY <1>1, <1>2 DEF Rate

LEMMA LocalDispatchGoes ==
  ASSUME Typed, NEW r \in Thread, Shape(r), LocalDispatch(r)
  PROVE  Aside(r) /\ Shape(r)'
  <1>1. CASE Answered(r)
    BY <1>1, AnsweredAside, AnsweredShape
  <1>2. CASE Audit(r, "DISPATCH") /\ Goto(r, "run") /\ UNCHANGED <<authority, work, sent>>
    <2>1. Aside(r)
      BY <1>2 DEF Audit, Goto, Aside, Still, authority, work, Typed, RequestTyped, CountsTyped
    <2>2. pc'[r] = "run" /\ rows'[r] = rows[r] \cup {"DISPATCH"}
      BY <1>2 DEF Audit, Goto, Typed, RequestTyped, CountsTyped
    <2>3. Shape(r)'
      BY <1>2, <2>2 DEF LocalDispatch, At, Shape, Calling, Spending, authority, work
    <2>4. QED
      BY <2>1, <2>3
  <1>3. QED
    BY <1>1, <1>2 DEF LocalDispatch

LEMMA AuditDispatchGoes ==
  ASSUME Typed, NEW r \in Thread, Shape(r), AuditDispatch(r)
  PROVE  Aside(r) /\ Shape(r)'
  <1>1. CASE Answered(r)
    BY <1>1, AnsweredAside, AnsweredShape
  <1>2. CASE Audit(r, "DISPATCH") /\ Goto(r, "send") /\ UNCHANGED <<authority, work, sent>>
    <2>1. Aside(r)
      BY <1>2 DEF Audit, Goto, Aside, Still, authority, work, Typed, RequestTyped, CountsTyped
    <2>2. pc'[r] = "send" /\ rows'[r] = rows[r] \cup {"DISPATCH"}
      BY <1>2 DEF Audit, Goto, Typed, RequestTyped, CountsTyped
    <2>3. Shape(r)'
      BY <1>2, <2>2 DEF AuditDispatch, At, Shape, Calling, Spending, authority, work
    <2>4. QED
      BY <2>1, <2>3
  <1>3. QED
    BY <1>1, <1>2 DEF AuditDispatch

LEMMA RunLocalGoes ==
  ASSUME Typed, NEW r \in Thread, Shape(r), RunLocal(r)
  PROVE  Aside(r) /\ Shape(r)'
  <1>1. Aside(r)
    BY DEF RunLocal, Goto, Aside, Still, authority, work, Typed, RequestTyped, CountsTyped
  <1>2. pc'[r] = "close" /\ sent'[r] = 1
    BY DEF RunLocal, At, Goto, Shape, Typed, RequestTyped, CountsTyped
  <1>3. Shape(r)'
    BY <1>2 DEF RunLocal, At, Shape, Calling, Spending, authority, work
  <1>4. QED
    BY <1>1, <1>3

LEMMA RouteGoes ==
  ASSUME Typed, NEW r \in Thread, Shape(r), Route(r)
  PROVE  Aside(r) /\ Shape(r)'
  <1>1. CASE Answered(r)
    BY <1>1, AnsweredAside, AnsweredShape
  <1>2. CASE ~Answered(r)
    <2> DEFINE step == IF given[r] = 0 THEN "secret" ELSE "take"
    <2>1. /\ Proceed(r, step) /\ up' = [up EXCEPT ![r] = Upper(tool[r])]
          /\ UNCHANGED <<todo, cred, state, schema, listing, asks>>
      BY <1>2 DEF Route
    <2>2. Aside(r)
      BY <2>1, ProceedAside DEF Aside, Still, Typed, WorkTyped
    <2>3. Upper(tool[r]) # None
      BY HubAssumption DEF Route, At, Shape, Upper, Calling
    <2>4. up'[r] # None
      BY <2>1, <2>3 DEF Typed, WorkTyped
    <2>5. /\ pc'[r] = step /\ who'[r] = who[r] /\ tool'[r] = tool[r] /\ given'[r] = given[r]
          /\ rows'[r] = rows[r] /\ sent'[r] = sent[r]
      BY <2>1, ProceedAside
    <2>6. Shape(r)'
      BY <2>1, <2>4, <2>5 DEF Route, At, Shape, Calling, Spending
    <2>7. QED
      BY <2>2, <2>6
  <1>3. QED
    BY <1>1, <1>2

LEMMA TakeContinuationGoes ==
  ASSUME Typed, NEW r \in Thread, Shape(r), TakeContinuation(r)
  PROVE  Aside(r) /\ Shape(r)'
  <1>1. CASE Answered(r)
    BY <1>1, AnsweredAside, AnsweredShape
  <1>2. CASE Taken(r, given[r])
    <2>1. Aside(r)
      BY <1>2 DEF Taken, Goto, Aside, Still, Typed, RequestTyped, WorkTyped
    <2>2. pc'[r] = "secret"
      BY <1>2 DEF Taken, Goto, Typed, RequestTyped
    <2>3. Shape(r)'
      BY <1>2, <2>2 DEF Taken, TakeContinuation, At, Shape, Calling, Spending
    <2>4. QED
      BY <2>1, <2>3
  <1>3. QED
    BY <1>1, <1>2 DEF TakeContinuation

LEMMA DegradedGoes ==
  ASSUME Typed, NEW r \in Thread, Shape(r), pc[r] \in {"secret", "fetch"}, Degraded(r)
  PROVE  Aside(r) /\ Shape(r)'
  <1>1. CASE Answered(r)
    BY <1>1, AnsweredAside, AnsweredShape
  <1>2. CASE ~Answered(r)
    <2>1. /\ Proceed(r, "next") /\ Listing(r) /\ cred' = [cred EXCEPT ![r] = 0]
          /\ up' = [up EXCEPT ![r] = None]
          /\ UNCHANGED <<todo, state, schema, listing, asks>>
      BY <1>2 DEF Degraded
    <2>2. Aside(r)
      BY <2>1, ProceedAside DEF Aside, Still, Typed, WorkTyped
    <2>3. /\ pc'[r] = "next" /\ who'[r] = who[r] /\ tool'[r] = tool[r] /\ given'[r] = given[r]
          /\ rows'[r] = rows[r] /\ sent'[r] = sent[r]
      BY <2>1, ProceedAside
    <2>4. Shape(r)'
      BY <2>1, <2>3 DEF Listing, Shape, Calling, Spending
    <2>5. QED
      BY <2>2, <2>4
  <1>3. QED
    BY <1>1, <1>2

LEMMA GetSecretGoes ==
  ASSUME Typed, NEW r \in Thread, Shape(r), GetSecret(r)
  PROVE  Aside(r) /\ Shape(r)'
  <1>1. CASE Degraded(r)
    BY <1>1, DegradedGoes DEF GetSecret, At
  <1>2. CASE ~Degraded(r)
    <2> DEFINE step == IF Listing(r) THEN "fetch" ELSE "lookup"
    <2>1. /\ Proceed(r, step) /\ cred' = [cred EXCEPT ![r] = secret[up[r]]]
          /\ UNCHANGED <<todo, up, state, schema, listing, asks>>
      BY <1>2 DEF GetSecret
    <2>2. Aside(r)
      BY <2>1, ProceedAside DEF Aside, Still, Typed, WorkTyped
    <2>3. cred'[r] # 0
      BY <2>1, HubAssumption
      DEF GetSecret, At, Shape, Spending, Typed, WorkTyped, RowsTyped, Secret
    <2>4. /\ pc'[r] = step /\ who'[r] = who[r] /\ tool'[r] = tool[r] /\ given'[r] = given[r]
          /\ rows'[r] = rows[r] /\ sent'[r] = sent[r]
      BY <2>1, ProceedAside
    <2>5. Shape(r)'
      BY <2>1, <2>3, <2>4 DEF GetSecret, At, Listing, Shape, Calling, Spending
    <2>6. QED
      BY <2>2, <2>5
  <1>3. QED
    BY <1>1, <1>2

LEMMA UseSchemaGoes ==
  ASSUME Typed, NEW r \in Thread, Shape(r), pc[r] \in {"lookup", "again"},
         NEW found, UseSchema(r, found)
  PROVE  Aside(r) /\ Shape(r)'
  <1>1. CASE Answered(r)
    BY <1>1, AnsweredAside, AnsweredShape
  <1>2. CASE ~Answered(r)
    <2>1. /\ Proceed(r, "dispatch") /\ \E e \in found : schema' = [schema EXCEPT ![r] = e]
          /\ UNCHANGED <<todo, up, cred, state, listing, asks>>
      BY <1>2 DEF UseSchema, Inadmissible
    <2>2. Aside(r)
      BY <2>1, ProceedAside DEF Aside, Still, Typed, WorkTyped
    <2>3. /\ pc'[r] = "dispatch" /\ who'[r] = who[r] /\ tool'[r] = tool[r]
          /\ given'[r] = given[r] /\ rows'[r] = rows[r] /\ sent'[r] = sent[r]
      BY <2>1, ProceedAside
    <2>4. Shape(r)'
      BY <2>1, <2>3 DEF Shape, Calling, Spending
    <2>5. QED
      BY <2>2, <2>4
  <1>3. QED
    BY <1>1, <1>2

LEMMA LookupGoes ==
  ASSUME Typed, NEW r \in Thread, Shape(r), Lookup(r)
  PROVE  Aside(r) /\ Shape(r)'
  <1>1. CASE UseSchema(r, Found(r) \ stale)
    BY <1>1, UseSchemaGoes DEF Lookup, At
  <1>2. CASE Proceed(r, "fetch") /\ UNCHANGED work
    <2>1. Aside(r)
      BY <1>2, ProceedAside DEF Aside, Still, work
    <2>2. Shape(r)'
      BY <1>2, ProceedAside DEF Lookup, At, Shape, Calling, Spending, work
    <2>3. QED
      BY <2>1, <2>2
  <1>3. QED
    BY <1>1, <1>2 DEF Lookup

LEMMA FetchGoes ==
  ASSUME Typed, NEW r \in Thread, Shape(r), Fetch(r)
  PROVE  Aside(r) /\ Shape(r)'
  <1>1. CASE Degraded(r)
    BY <1>1, DegradedGoes DEF Fetch, At
  <1>2. CASE ~Degraded(r)
    <2>1. /\ Proceed(r, "install") /\ UNCHANGED <<todo, up, cred, state, schema, asks>>
          /\ \E l : listing' = [listing EXCEPT ![r] = l]
      BY <1>2 DEF Fetch
    <2>2. Aside(r)
      BY <2>1, ProceedAside DEF Aside, Still, Typed, WorkTyped
    <2>3. Shape(r)'
      BY <2>1, ProceedAside DEF Fetch, At, Shape, Calling, Spending
    <2>4. QED
      BY <2>2, <2>3
  <1>3. QED
    BY <1>1, <1>2

LEMMA InstallGoes ==
  ASSUME Typed, NEW r \in Thread, Shape(r), Install(r)
  PROVE  Aside(r) /\ Shape(r)'
  <1> DEFINE step == IF Listing(r) THEN "next" ELSE "again"
  <1>1. /\ Proceed(r, step) /\ UNCHANGED <<todo, up, cred, state, schema, asks>>
        /\ listing' = [listing EXCEPT ![r] = NoListing]
    BY DEF Install
  <1>2. Aside(r)
    BY <1>1, ProceedAside DEF Aside, Still, Typed, WorkTyped
  <1>3. /\ pc'[r] = step /\ who'[r] = who[r] /\ tool'[r] = tool[r]
        /\ given'[r] = given[r] /\ rows'[r] = rows[r] /\ sent'[r] = sent[r]
    BY <1>1, ProceedAside
  <1>4. Shape(r)'
    BY <1>1, <1>3 DEF Install, At, Listing, Shape, Calling, Spending
  <1>5. QED
    BY <1>2, <1>4

LEMMA LookupAgainGoes ==
  ASSUME Typed, NEW r \in Thread, Shape(r), LookupAgain(r)
  PROVE  Aside(r) /\ Shape(r)'
  BY UseSchemaGoes, AnsweredAside, AnsweredShape DEF LookupAgain, At

LEMMA SendGoes ==
  ASSUME Typed, NEW r \in Thread, Shape(r), Send(r)
  PROVE  Aside(r) /\ Shape(r)'
  <1>1. /\ cred' = [cred EXCEPT ![r] = 0] /\ state' = [state EXCEPT ![r] = 0]
        /\ schema' = [schema EXCEPT ![r] = None] /\ sent' = [sent EXCEPT ![r] = @ + 1]
        /\ UNCHANGED <<authority, todo, up, listing, rows>>
        /\ pc[r] = "send"
    BY DEF Send, At
  <1>2. \/ Goto(r, "close") /\ UNCHANGED asks
        \/ Goto(r, "keep") /\ asks' = [asks EXCEPT ![r] = TRUE]
    BY DEF Send, Ends, AsksForInput
  <1>3. Aside(r)
    BY <1>1, <1>2 DEF Goto, Aside, Still, authority, Typed, RequestTyped, WorkTyped, CountsTyped
  <1>4. /\ state'[r] = 0 /\ schema'[r] = None /\ sent'[r] = sent[r] + 1
        /\ pc'[r] \in {"close", "keep"} /\ (asks'[r] <=> pc'[r] = "keep")
    BY <1>1, <1>2 DEF Goto, Shape, Typed, RequestTyped, WorkTyped, CountsTyped
  <1>5. Shape(r)'
    BY <1>1, <1>4 DEF Shape, Calling, Spending, authority
  <1>6. QED
    BY <1>3, <1>5

LEMMA StoreContinuationGoes ==
  ASSUME Typed, NEW r \in Thread, Shape(r), StoreContinuation(r)
  PROVE  Aside(r) /\ Shape(r)'
  <1>1. /\ Proceed(r, "close") /\ asks' = [asks EXCEPT ![r] = FALSE]
        /\ UNCHANGED <<todo, up, cred, state, schema, listing>> /\ pc[r] = "keep"
    BY DEF StoreContinuation, At
  <1>2. Aside(r)
    BY <1>1, ProceedAside DEF Aside, Still, Typed, WorkTyped
  <1>3. asks'[r] = FALSE
    BY <1>1 DEF Typed, WorkTyped
  <1>4. Shape(r)'
    BY <1>1, <1>3, ProceedAside DEF Shape, Calling, Spending
  <1>5. QED
    BY <1>2, <1>4

LEMMA NextUpstreamGoes ==
  ASSUME Typed, NEW r \in Thread, Shape(r), NextUpstream(r)
  PROVE  Aside(r) /\ Shape(r)'
  <1>1. CASE Answered(r)
    BY <1>1, AnsweredAside, AnsweredShape
  <1>2. CASE ~Answered(r)
    <2>1. PICK u \in todo[r] :
            /\ Proceed(r, "secret") /\ up' = [up EXCEPT ![r] = u]
            /\ UNCHANGED <<cred, state, schema, listing, asks>>
      BY <1>2 DEF NextUpstream
    <2>2. Aside(r)
      BY <2>1, ProceedAside DEF Aside, Still, Typed, WorkTyped
    <2>3. up'[r] # None
      BY <2>1, HubAssumption DEF Typed, WorkTyped
    <2>4. Shape(r)'
      BY <2>1, <2>3, ProceedAside DEF NextUpstream, At, Shape, Calling, Spending
    <2>5. QED
      BY <2>2, <2>4
  <1>3. QED
    BY <1>1, <1>2

LEMMA BeginsGoes ==
  ASSUME Typed, NEW r \in Thread, Shape(r), Begins(r)
  PROVE  Aside(r) /\ Shape(r)' /\ pc[r] = "idle" /\ UNCHANGED asks
  <1>1. PICK p \in Principal, g \in 1 .. MaxToken :
          ToolsList(r, p, g) \/ \E t \in Tool, h \in 0 .. issued : ToolsCall(r, p, g, t, h)
    BY DEF Begins
  <1>2. p # None
    BY HubAssumption
  <1>3. CASE ToolsList(r, p, g)
    <2>1. Aside(r)
      BY <1>3 DEF ToolsList, Authenticate, Goto, Aside, Still, Typed, RequestTyped, WorkTyped
    <2>2. pc'[r] = "next" /\ who'[r] = p /\ pc[r] = "idle"
      BY <1>3 DEF ToolsList, Authenticate, At, Goto, Typed, RequestTyped
    <2>3. Shape(r)' /\ UNCHANGED asks
      BY <1>2, <1>3, <2>2 DEF ToolsList, Shape, Calling, Spending
    <2>4. QED
      BY <2>1, <2>2, <2>3
  <1>4. ASSUME NEW t \in Tool, NEW h \in 0 .. issued, ToolsCall(r, p, g, t, h)
        PROVE  Aside(r) /\ Shape(r)' /\ pc[r] = "idle" /\ UNCHANGED asks
    <2>1. Aside(r)
      BY <1>4 DEF ToolsCall, Authenticate, Goto, Aside, Still, work, Typed, RequestTyped
    <2>2. pc'[r] = "rate" /\ who'[r] = p /\ tool'[r] = t /\ pc[r] = "idle"
      BY <1>4 DEF ToolsCall, Authenticate, At, Goto, Typed, RequestTyped
    <2>3. t # None
      BY HubAssumption DEF Tool
    <2>4. Shape(r)' /\ UNCHANGED asks
      BY <1>2, <1>4, <2>2, <2>3 DEF ToolsCall, Shape, Calling, Spending, work
    <2>5. QED
      BY <2>1, <2>2, <2>4
  <1>5. QED
    BY <1>1, <1>3, <1>4

LEMMA StepGoes ==
  ASSUME Typed, NEW r \in Thread, Shape(r), Step(r)
  PROVE  Aside(r) /\ Shape(r)'
  BY RateGoes, LocalDispatchGoes, RunLocalGoes, RouteGoes, TakeContinuationGoes,
     GetSecretGoes, LookupGoes, FetchGoes, InstallGoes, LookupAgainGoes, AuditDispatchGoes,
     SendGoes, StoreContinuationGoes, NextUpstreamGoes, AnsweredAside, AnsweredShape
  DEF Step, Close


-----------------------------------------------------------------------------
(* Handles are issued to those who asked.                                  *)

AsksStay(r) == (UNCHANGED asks \/ asks' = [asks EXCEPT ![r] = FALSE]) /\ UNCHANGED issued
AsksMore(r) ==
  asks' = [asks EXCEPT ![r] = TRUE] /\ issued + Promised < MaxHandle /\ UNCHANGED issued
Issues(r) == asks[r] /\ asks' = [asks EXCEPT ![r] = FALSE] /\ issued' = issued + 1

LEMMA AnsweredAsks ==
  ASSUME NEW r \in Thread, Answered(r)
  PROVE  AsksStay(r)
  BY DEF Answered, Elsewhere, Return, AsksStay

LEMMA Asked ==
  ASSUME NEW r \in Thread, Shape(r), Acts(r), Typed
  PROVE  AsksStay(r) \/ AsksMore(r) \/ Issues(r)
  <1>1. CASE Rate(r)
    BY <1>1, AnsweredAsks DEF Rate, Elsewhere, work, AsksStay
  <1>2. CASE LocalDispatch(r)
    BY <1>2, AnsweredAsks DEF LocalDispatch, Audit, Elsewhere, work, AsksStay
  <1>3. CASE RunLocal(r)
    BY <1>3, AnsweredAsks DEF RunLocal, Elsewhere, work, AsksStay
  <1>4. CASE Route(r)
    BY <1>4, AnsweredAsks DEF Route, Elsewhere, work, AsksStay
  <1>5. CASE TakeContinuation(r)
    BY <1>5, AnsweredAsks DEF TakeContinuation, Taken, Elsewhere, work, AsksStay
  <1>6. CASE GetSecret(r)
    BY <1>6, AnsweredAsks DEF GetSecret, Degraded, Elsewhere, work, AsksStay
  <1>7. CASE Lookup(r)
    BY <1>7, AnsweredAsks DEF Lookup, UseSchema, Inadmissible, Elsewhere, work, AsksStay
  <1>8. CASE Fetch(r)
    BY <1>8, AnsweredAsks DEF Fetch, Degraded, Elsewhere, work, AsksStay
  <1>9. CASE Install(r)
    BY <1>9, AnsweredAsks DEF Install, Elsewhere, work, AsksStay
  <1>10. CASE LookupAgain(r)
    BY <1>10, AnsweredAsks DEF LookupAgain, UseSchema, Inadmissible, Elsewhere, work, AsksStay
  <1>11. CASE AuditDispatch(r)
    BY <1>11, AnsweredAsks DEF AuditDispatch, Audit, Elsewhere, work, AsksStay
  <1>12. CASE Send(r)
    BY <1>12 DEF Send, Ends, AsksForInput, AsksStay, AsksMore
  <1>13. CASE StoreContinuation(r)
    BY <1>13 DEF StoreContinuation, At, Shape, AsksStay, Issues
  <1>14. CASE Close(r)
    BY <1>14, AnsweredAsks DEF Close, Elsewhere, work, AsksStay
  <1>15. CASE NextUpstream(r)
    BY <1>15, AnsweredAsks DEF NextUpstream, Elsewhere, work, AsksStay
  <1>16. CASE Begins(r)
    BY <1>16, BeginsGoes DEF Begins, ToolsCall, ToolsList, Elsewhere, AsksStay
  <1>17. QED
    BY <1>1, <1>2, <1>3, <1>4, <1>5, <1>6, <1>7, <1>8, <1>9, <1>10, <1>11, <1>12, <1>13, <1>14,
       <1>15, <1>16 DEF Acts, Step

LEMMA IssuesFit ==
  ASSUME Typed, Room, NEW r \in Thread, asks[r]
  PROVE  issued < MaxHandle
  <1> DEFINE A == {d \in Thread : asks[d]}
  <1>1. IsFiniteSet(A) /\ r \in A
    BY HubAssumption, FS_Subset
  <1>2. Cardinality(A) \in Nat /\ Cardinality(A) # 0
    BY <1>1, FS_CardinalityType, FS_EmptySet
  <1>3. QED
    BY <1>2, HubAssumption DEF Room, Promised, Typed, MemoryTyped

LEMMA RoomStep ==
  ASSUME Typed, Room, NEW r \in Thread, AsksStay(r) \/ AsksMore(r) \/ Issues(r)
  PROVE  Room'
  <1> DEFINE A == {d \in Thread : asks[d]}
             B == {d \in Thread : asks'[d]}
  <1>a. /\ IsFiniteSet(A) /\ Cardinality(A) \in Nat /\ Promised = Cardinality(A)
        /\ Promised' = Cardinality(B) /\ issued \in Nat /\ MaxHandle \in Nat
    BY HubAssumption, FS_Subset, FS_CardinalityType DEF Promised, Typed, MemoryTyped
  <1>1. CASE AsksStay(r)
    <2>1. B \subseteq A
      BY <1>1 DEF AsksStay, Typed, WorkTyped
    <2>2. Cardinality(B) \in Nat /\ Cardinality(B) <= Cardinality(A)
      BY <1>a, <2>1, FS_Subset, FS_CardinalityType
    <2>3. QED
      BY <1>1, <1>a, <2>2 DEF AsksStay, Room
  <1>2. CASE AsksMore(r)
    <2>1. B \subseteq A \cup {r}
      BY <1>2 DEF AsksMore, Typed, WorkTyped
    <2>2. IsFiniteSet(A \cup {r}) /\ Cardinality(A \cup {r}) <= Cardinality(A) + 1
      BY <1>a, FS_AddElement
    <2>3. Cardinality(B) \in Nat /\ Cardinality(B) <= Cardinality(A \cup {r})
      BY <2>1, <2>2, FS_Subset, FS_CardinalityType
    <2>4. Cardinality(A \cup {r}) \in Nat
      BY <2>2, FS_CardinalityType
    <2>5. QED
      BY <1>2, <1>a, <2>2, <2>3, <2>4 DEF AsksMore, Room
  <1>3. CASE Issues(r)
    <2>1. B = A \ {r} /\ r \in A
      BY <1>3 DEF Issues, Typed, WorkTyped
    <2>2. Cardinality(B) = Cardinality(A) - 1
      BY <1>a, <2>1, FS_RemoveElement
    <2>3. QED
      BY <1>3, <1>a, <2>2 DEF Issues, Room
  <1>4. QED
    BY <1>1, <1>2, <1>3

LEMMA StepTypes ==
  ASSUME Base, NEW r \in Thread, Acts(r)
  PROVE  Typed'
  <1>1. Typed /\ Shape(r)
    BY DEF Base, Shapes
  <1>2. CASE Begins(r)
    BY <1>1, <1>2, ToolsCallTypes, ToolsListTypes DEF Begins
  <1>3. CASE StoreContinuation(r)
    <2>1. issued < MaxHandle
      BY <1>1, <1>3, IssuesFit DEF StoreContinuation, At, Shape, Base
    <2>2. QED
      BY <1>1, <1>3, <2>1, StoreContinuationTypes
  <1>4. CASE Step(r) /\ ~StoreContinuation(r)
    BY <1>1, <1>4, RateTypes, LocalDispatchTypes, RunLocalTypes, RouteTypes,
       TakeContinuationTypes, GetSecretTypes, LookupTypes, FetchTypes, InstallTypes,
       LookupAgainTypes, AuditDispatchTypes, SendTypes, CloseTypes, NextUpstreamTypes
    DEF Step
  <1>5. QED
    BY <1>2, <1>3, <1>4 DEF Acts

\* What a thread does has its effects on its own request only, and keeps it in shape.
LEMMA BaseStep ==
  ASSUME Base, NEW r \in Thread, Acts(r)
  PROVE  Base' /\ Aside(r)
  <1>1. Typed /\ Shape(r) /\ Room
    BY DEF Base, Shapes
  <1>2. Aside(r) /\ Shape(r)'
    BY <1>1, StepGoes, BeginsGoes DEF Acts
  <1>3. Typed' /\ Room'
    BY <1>1, StepTypes, RoomStep, Asked
  <1>4. Shapes'
    BY <1>2, StillShape DEF Aside, Base, Shapes
  <1>5. Tokens'
    <2>1. UNCHANGED <<status, token>>
      BY DEF Acts, Step, Begins, ToolsCall, ToolsList, Rate, LocalDispatch, Audit, RunLocal, Route,
         TakeContinuation, Taken, GetSecret, Degraded, Lookup, UseSchema, Inadmissible, Fetch,
         Install, LookupAgain, AuditDispatch, Audit, Send, Ends, AsksForInput, StoreContinuation,
         Close, NextUpstream,
         Answered, Elsewhere, principals
    <2>2. QED
      BY <2>1 DEF Tokens, Base
  <1>6. QED
    BY <1>2, <1>3, <1>4, <1>5 DEF Base

\* While the Owner changes rows or time passes, requests stand still.
Calm == UNCHANGED <<pc, authority, work, rows, sent>>

LEMMA CalmStill ==
  ASSUME Calm
  PROVE  \A d \in Thread : Still(d)
  BY DEF Calm, authority, work, Still

LEMMA OwnersCalm ==
  ASSUME Owners
  PROVE  Calm /\ UNCHANGED <<memory, issued, replays, owner>>
  BY DEF Owners, CreatePrincipal, RotatePrincipal, RevokePrincipal, ReplaceScopes,
     RegisterUpstream, DisableUpstream, RotateSecret, Rows, Calm

LEMMA AgesCalm ==
  ASSUME Ages
  PROVE  Calm /\ UNCHANGED <<principals, upstreams, issued, conts, cache, ghosts>>
  BY DEF Ages, WindowMoves, CacheAges, HandleExpires, Outside, Calm

LEMMA CalmBase ==
  ASSUME Base, Owners \/ Ages
  PROVE  Base'
  <1>1. Typed' /\ Calm /\ issued' = issued
    BY OwnerTypes, AgesTypes, OwnersCalm, AgesCalm DEF Base
  <1>2. Shapes'
    BY <1>1, CalmStill, StillShape DEF Base, Shapes
  <1>3. Room'
    BY <1>1 DEF Base, Room, Promised, Calm, work
  <1>4. Tokens'
    <2>1. CASE Ages
      BY <2>1, AgesCalm DEF Base, Tokens, principals
    <2>2. CASE Owners
      BY <2>2, HubAssumption DEF Owners, CreatePrincipal, RotatePrincipal, RevokePrincipal,
         ReplaceScopes, RegisterUpstream, DisableUpstream, RotateSecret, principals,
         Base, Tokens, Typed, RowsTyped
    <2>3. QED
      BY <2>1, <2>2
  <1>5. QED
    BY <1>1, <1>2, <1>3, <1>4 DEF Base

LEMMA RestartBase ==
  ASSUME Base, Restart
  PROVE  Base'
  <1>1. Typed'
    BY RestartTypes DEF Base
  <1>2. Shapes'
    BY DEF Restart, Shapes, Shape, Calling, Spending
  <1>3. Tokens'
    BY DEF Restart, principals, Base, Tokens
  <1>4. Room'
    <2>1. Promised' = Cardinality({})
      <3>1. {d \in Thread : asks'[d]} = {}
        BY DEF Restart
      <3>2. QED
        BY <3>1 DEF Promised
    <2>2. Promised' = 0
      BY <2>1, FS_EmptySet
    <2>3. issued' = issued /\ issued \in 0 .. MaxHandle
      BY DEF Restart, Base, Typed, MemoryTyped
    <2>4. QED
      BY <2>2, <2>3, HubAssumption DEF Room
  <1>5. QED
    BY <1>1, <1>2, <1>3, <1>4 DEF Base


-----------------------------------------------------------------------------
(* Continuations.                                                          *)

\* A record is its handle's, which has not been replayed yet.
HandleSound(h) ==
  /\ h > issued => conts[h] = None /\ replays[h] = 0
  /\ conts[h] # None => owner[h] = conts[h] /\ replays[h] = 0
  /\ replays[h] <= 1
\* A state that was taken out is held by one call, that it was issued for.
StateSound(r) ==
  state[r] # 0 =>
    /\ state[r] <= issued /\ conts[state[r]] = None /\ replays[state[r]] = 0
    /\ owner[state[r]] = [who |-> who[r], up |-> up[r], tool |-> tool[r]]
Apart == \A r, s \in Thread : state[r] # 0 /\ state[r] = state[s] => r = s
Spent ==
  /\ \A h \in Handle : HandleSound(h)
  /\ \A r \in Thread : StateSound(r)
  /\ Apart

\* A step that takes no state out, sends none and issues no handle.
Quiet(r) ==
  /\ UNCHANGED <<issued, owner, replays>>
  /\ \A h \in Handle : conts'[h] \in {conts[h], None}
  /\ state'[r] # 0 => /\ state'[r] = state[r] /\ who'[r] = who[r]
                      /\ up'[r] = up[r] /\ tool'[r] = tool[r]

LEMMA QuietSpent ==
  ASSUME Typed, Typed', Spent, NEW r \in Thread, Aside(r), Quiet(r)
  PROVE  Spent'
  <1>1. ASSUME NEW h \in Handle
        PROVE  HandleSound(h)'
    <2>1. conts'[h] \in {conts[h], None} /\ HandleSound(h)
      BY DEF Quiet, Spent
    <2>2. QED
      BY <2>1 DEF Quiet, HandleSound
  <1>2. ASSUME NEW d \in Thread, state'[d] # 0
        PROVE  /\ state'[d] = state[d] /\ who'[d] = who[d]
               /\ up'[d] = up[d] /\ tool'[d] = tool[d]
    BY <1>2 DEF Aside, Still, Quiet
  <1>3. ASSUME NEW d \in Thread
        PROVE  StateSound(d)'
    <2>1. SUFFICES ASSUME state'[d] # 0
                   PROVE  StateSound(d)'
      BY DEF StateSound
    <2>2. state[d] \in Handle /\ state'[d] = state[d]
      BY <1>2, <2>1, HubAssumption DEF Typed, WorkTyped, Handle
    <2>3. conts'[state[d]] = None
      BY <2>1, <2>2 DEF Quiet, Spent, StateSound
    <2>4. QED
      BY <1>2, <2>1, <2>2, <2>3 DEF Quiet, Spent, StateSound
  <1>4. Apart'
    BY <1>2 DEF Apart, Spent
  <1>5. QED
    BY <1>1, <1>3, <1>4 DEF Spent

LEMMA AnsweredQuiet ==
  ASSUME Typed, NEW r \in Thread, Answered(r), \A h \in Handle : conts'[h] \in {conts[h], None}
  PROVE  Quiet(r)
  BY DEF Answered, Return, Elsewhere, Quiet, Typed, WorkTyped

\* A thread that goes on keeps what its state was issued for.
LEMMA OnwardQuiet ==
  ASSUME NEW r \in Thread, state[r] # 0 => up'[r] = up[r],
         UNCHANGED <<issued, owner, replays, conts, state, who, tool>>
  PROVE  Quiet(r)
  BY DEF Quiet

LEMMA StepQuiet ==
  ASSUME Base, NEW r \in Thread, Step(r),
         ~(TakeContinuation(r) /\ Taken(r, given[r])), ~Send(r), ~Issues(r)
  PROVE  Quiet(r)
  <1> USE DEF Base
  <1>a. Typed /\ Shape(r)
    BY DEF Shapes
  <1>1. CASE Rate(r)
    <2>1. UNCHANGED conts
      BY <1>1 DEF Rate, memory
    <2>2. QED
      BY <1>1, <1>a, <2>1, AnsweredQuiet, OnwardQuiet
      DEF Rate, Proceed, Elsewhere, authority, work
  <1>2. CASE LocalDispatch(r)
    <2>1. UNCHANGED conts
      BY <1>2 DEF LocalDispatch, memory
    <2>2. QED
      BY <1>2, <1>a, <2>1, AnsweredQuiet, OnwardQuiet
      DEF LocalDispatch, Audit, Proceed, Elsewhere, authority, work
  <1>3. CASE RunLocal(r)
    <2>1. UNCHANGED conts
      BY <1>3 DEF RunLocal, memory
    <2>2. QED
      BY <1>3, <1>a, <2>1, AnsweredQuiet, OnwardQuiet
      DEF RunLocal, Proceed, Elsewhere, authority, work
  <1>4. CASE Route(r)
    <2>1. state[r] = 0 /\ UNCHANGED conts
      BY <1>4, <1>a DEF Route, At, Shape, Spending, memory
    <2>2. QED
      BY <1>4, <1>a, <2>1, AnsweredQuiet, OnwardQuiet DEF Route, Proceed, Elsewhere, authority
  <1>5. CASE TakeContinuation(r)
    <2>1. \A h \in Handle : conts'[h] \in {conts[h], None}
      BY <1>5 DEF TakeContinuation, Typed, MemoryTyped
    <2>2. Answered(r)
      BY <1>5 DEF TakeContinuation
    <2>3. QED
      BY <1>a, <2>1, <2>2, AnsweredQuiet
  <1>6. CASE GetSecret(r)
    <2>1. UNCHANGED conts
      BY <1>6 DEF GetSecret, memory
    <2>2. CASE Listing(r) /\ Degraded(r)
      <3>1. state[r] = 0
        BY <1>a, <2>2 DEF Listing, Shape
      <3>2. QED
        BY <2>1, <2>2, <3>1, OnwardQuiet DEF Degraded, Proceed, Elsewhere, authority
    <2>3. QED
      BY <1>6, <1>a, <2>1, <2>2, AnsweredQuiet, OnwardQuiet
      DEF GetSecret, Degraded, Proceed, Elsewhere, authority
  <1>7. CASE Lookup(r)
    <2>1. UNCHANGED conts
      BY <1>7 DEF Lookup, memory
    <2>2. QED
      BY <1>7, <1>a, <2>1, AnsweredQuiet, OnwardQuiet
      DEF Lookup, UseSchema, Inadmissible, Proceed, Elsewhere, authority, work
  <1>8. CASE Fetch(r)
    <2>1. UNCHANGED conts
      BY <1>8 DEF Fetch, memory
    <2>2. CASE Listing(r) /\ Degraded(r)
      <3>1. state[r] = 0
        BY <1>a, <2>2 DEF Listing, Shape
      <3>2. QED
        BY <2>1, <2>2, <3>1, OnwardQuiet DEF Degraded, Proceed, Elsewhere, authority
    <2>3. QED
      BY <1>8, <1>a, <2>1, <2>2, AnsweredQuiet, OnwardQuiet
      DEF Fetch, Degraded, Proceed, Elsewhere, authority
  <1>9. CASE Install(r)
    <2>1. UNCHANGED conts
      BY <1>9 DEF Install, memory
    <2>2. QED
      BY <1>9, <1>a, <2>1, AnsweredQuiet, OnwardQuiet
      DEF Install, Proceed, Elsewhere, authority, work
  <1>10. CASE LookupAgain(r)
    <2>1. UNCHANGED conts
      BY <1>10 DEF LookupAgain, memory
    <2>2. QED
      BY <1>10, <1>a, <2>1, AnsweredQuiet, OnwardQuiet
      DEF LookupAgain, UseSchema, Inadmissible, Proceed, Elsewhere, authority, work
  <1>11. CASE AuditDispatch(r)
    <2>1. UNCHANGED conts
      BY <1>11 DEF AuditDispatch, memory
    <2>2. QED
      BY <1>11, <1>a, <2>1, AnsweredQuiet, OnwardQuiet
      DEF AuditDispatch, Audit, Proceed, Elsewhere, authority, work
  <1>12. CASE StoreContinuation(r)
    <2>1. UNCHANGED <<issued, conts, owner>>
      BY <1>12, <1>a DEF StoreContinuation, At, Shape, Issues
    <2>2. QED
      BY <1>12, <2>1, OnwardQuiet DEF StoreContinuation, Proceed, authority
  <1>13. CASE Close(r)
    <2>1. UNCHANGED conts
      BY <1>13 DEF Close, memory
    <2>2. QED
      BY <1>13, <1>a, <2>1, AnsweredQuiet, OnwardQuiet
      DEF Close, Proceed, Elsewhere, authority, work
  <1>14. CASE NextUpstream(r)
    <2>1. state[r] = 0 /\ UNCHANGED conts
      BY <1>14, <1>a DEF NextUpstream, At, Shape, Spending, memory
    <2>2. QED
      BY <1>14, <1>a, <2>1, AnsweredQuiet, OnwardQuiet
      DEF NextUpstream, Proceed, Elsewhere, authority
  <1>15. QED
    BY <1>1, <1>2, <1>3, <1>4, <1>5, <1>6, <1>7, <1>8, <1>9, <1>10, <1>11, <1>12, <1>13, <1>14 DEF
       Step

LEMMA BeginsQuiet ==
  ASSUME Base, NEW r \in Thread, Begins(r)
  PROVE  Quiet(r)
  <1>1. UNCHANGED <<state, conts, issued, owner, replays>>
    BY DEF Begins, ToolsList, ToolsCall, Elsewhere, memory, work
  <1>2. state[r] = 0
    BY BeginsGoes DEF Base, Shapes, Shape, Spending
  <1>3. QED
    BY <1>1, <1>2 DEF Quiet

LEMMA TakenSpent ==
  ASSUME Base, Spent, NEW r \in Thread, TakeContinuation(r), Taken(r, given[r])
  PROVE  Spent'
  <1> DEFINE h == given[r]
             record == [who |-> who[r], up |-> up[r], tool |-> tool[r]]
  <1>1. Aside(r) /\ Typed /\ Shape(r)
    BY TakeContinuationGoes DEF Base, Shapes
  <1>2. pc[r] = "take" /\ h \in Handle
    BY <1>1, HubAssumption DEF TakeContinuation, At, Shape, Typed, RequestTyped, Handle
  <1>3. record \in Record
    BY <1>1, <1>2 DEF Shape, Calling, Typed, RequestTyped, WorkTyped, Record
  <1>4. /\ state' = [state EXCEPT ![r] = h]
        /\ UNCHANGED <<issued, owner, replays, who, up, tool>>
    BY DEF Taken, Elsewhere
  <1>5. conts[h] = record /\ conts' = [conts EXCEPT ![h] = None]
    <2>1. ~Answered(r)
      <3>1. pc'[r] = "secret"
        BY <1>1 DEF Taken, Goto, Typed, RequestTyped
      <3>2. QED
        BY <1>1, <3>1, AnsweredShape
    <2>2. QED
      BY <2>1 DEF TakeContinuation
  <1>6. conts[h] # None
    BY <1>3, <1>5, RecordAssumption
  <1>7. /\ h <= issued /\ owner[h] = record /\ replays[h] = 0
    <2>1. HandleSound(h)
      BY <1>2 DEF Spent
    <2>2. ~(h > issued)
      BY <1>6, <2>1 DEF HandleSound
    <2>3. h <= issued
      BY <1>1, <1>2, <2>2, HubAssumption DEF Handle, Typed, MemoryTyped
    <2>4. QED
      BY <1>5, <1>6, <2>1, <2>3 DEF HandleSound
  <1>8. ASSUME NEW d \in Thread
        PROVE  state[d] # h /\ state'[d] = IF d = r THEN h ELSE state[d]
    <2>1. h # 0
      BY <1>2 DEF Handle
    <2>2. QED
      BY <1>1, <1>4, <1>6, <2>1 DEF Spent, StateSound, Typed, WorkTyped
  <1>9. ASSUME NEW i \in Handle
        PROVE  HandleSound(i)' /\ (i # h => conts'[i] = conts[i]) /\ conts'[h] = None
    BY <1>1, <1>2, <1>4, <1>5 DEF Spent, HandleSound, Typed, MemoryTyped
  <1>10. ASSUME NEW d \in Thread
         PROVE  StateSound(d)'
    <2>1. CASE d = r
      BY <1>2, <1>4, <1>7, <1>8, <1>9, <2>1 DEF StateSound
    <2>2. CASE d # r
      <3>1. SUFFICES ASSUME state[d] # 0
                     PROVE  StateSound(d)'
        BY <1>8, <2>2 DEF StateSound
      <3>2. state[d] \in Handle
        BY <1>1, <3>1, HubAssumption DEF Typed, WorkTyped, Handle
      <3>3. QED
        BY <1>4, <1>8, <1>9, <2>2, <3>1, <3>2 DEF Spent, StateSound
    <2>3. QED
      BY <2>1, <2>2
  <1>11. Apart'
    BY <1>8 DEF Spent, Apart
  <1>12. QED
    BY <1>9, <1>10, <1>11 DEF Spent

LEMMA SendSpent ==
  ASSUME Base, Spent, NEW r \in Thread, Send(r)
  PROVE  Spent'
  <1>1. Aside(r) /\ Typed
    BY SendGoes DEF Base, Shapes
  <1>2. /\ state' = [state EXCEPT ![r] = 0]
        /\ UNCHANGED <<issued, owner, conts, who, up, tool>>
    BY DEF Send, memory, authority
  <1>3. ASSUME NEW d \in Thread
        PROVE  state'[d] = IF d = r THEN 0 ELSE state[d]
    BY <1>1, <1>2 DEF Typed, WorkTyped
  <1>4. CASE state[r] = 0
    <2>1. replays' = replays
      BY <1>4 DEF Send
    <2>2. Quiet(r)
      BY <1>2, <1>3, <2>1 DEF Quiet
    <2>3. Typed'
      BY SendTypes DEF Base, Shapes
    <2>4. QED
      BY <1>1, <2>2, <2>3, QuietSpent
  <1>5. CASE state[r] # 0
    <2>1. state[r] \in Handle
      BY <1>1, <1>5, HubAssumption DEF Typed, WorkTyped, Handle
    <2>2. replays' = [replays EXCEPT ![state[r]] = @ + 1]
      BY <1>5 DEF Send
    <2>3. /\ replays[state[r]] = 0 /\ conts[state[r]] = None /\ ~(state[r] > issued)
      <3>1. /\ replays[state[r]] = 0 /\ conts[state[r]] = None /\ state[r] <= issued
        BY <1>5 DEF Spent, StateSound
      <3>2. state[r] \in Nat /\ issued \in Nat
        BY <1>1, <2>1, HubAssumption DEF Typed, MemoryTyped, Handle
      <3>3. QED
        BY <3>1, <3>2
    <2>4. ASSUME NEW h \in Handle
          PROVE  replays'[h] = IF h = state[r] THEN 1 ELSE replays[h]
      BY <1>1, <2>1, <2>2, <2>3 DEF Typed, CountsTyped
    <2>5. ASSUME NEW h \in Handle
          PROVE  HandleSound(h)'
      BY <1>2, <2>3, <2>4 DEF Spent, HandleSound
    <2>6. ASSUME NEW d \in Thread
          PROVE  StateSound(d)'
      <3>1. SUFFICES ASSUME state'[d] # 0
                     PROVE  StateSound(d)'
        BY DEF StateSound
      <3>2. d # r /\ state'[d] = state[d] /\ state[d] \in Handle
        BY <1>1, <1>3, <3>1, HubAssumption DEF Typed, WorkTyped, Handle
      <3>3. state[d] # state[r]
        BY <1>5, <3>2 DEF Spent, Apart
      <3>4. QED
        BY <1>2, <2>4, <3>1, <3>2, <3>3 DEF Spent, StateSound
    <2>7. Apart'
      BY <1>3 DEF Spent, Apart
    <2>8. QED
      BY <2>5, <2>6, <2>7 DEF Spent
  <1>6. QED
    BY <1>4, <1>5

LEMMA IssueSpent ==
  ASSUME Base, Spent, NEW r \in Thread, StoreContinuation(r), Issues(r)
  PROVE  Spent'
  <1> DEFINE n == issued + 1
             record == [who |-> who[r], up |-> up[r], tool |-> tool[r]]
             live == {i \in Handle : conts[i] # None /\ i > past}
             oldest == IF Cardinality(live) < Kept THEN {}
                       ELSE {i \in live : \A j \in live : i <= j}
  <1>1. Aside(r) /\ Typed /\ Shape(r) /\ issued \in Nat
    BY StoreContinuationGoes, HubAssumption DEF Base, Shapes, Typed, MemoryTyped
  <1>2. /\ conts' = [i \in Handle |-> IF i = n THEN record
                                      ELSE IF i \in live \ oldest THEN conts[i] ELSE None]
        /\ issued' = n /\ owner' = [owner EXCEPT ![n] = record]
    <2>1. issued' # issued
      BY <1>1 DEF Issues
    <2>2. QED
      BY <2>1 DEF StoreContinuation
  <1>3. UNCHANGED <<replays, state, who, up, tool>>
    BY DEF StoreContinuation, Proceed, authority
  <1>4. ASSUME NEW i \in Handle
        PROVE  IF i = n THEN conts'[i] = record ELSE conts'[i] \in {conts[i], None}
    <2> HIDE DEF live, oldest, record
    <2>1. QED
      BY <1>2
  <1>5. ASSUME NEW i \in Handle
        PROVE  owner'[i] = IF i = n THEN record ELSE owner[i]
    BY <1>1, <1>2 DEF Typed, CountsTyped
  <1>6. ASSUME NEW i \in Handle
        PROVE  HandleSound(i)'
    <2>1. i \in Nat /\ HandleSound(i)
      BY DEF Handle, Spent
    <2>2. CASE i = n
      <3>1. replays[i] = 0
        BY <1>1, <2>1, <2>2 DEF HandleSound
      <3>2. QED
        BY <1>1, <1>2, <1>3, <1>4, <1>5, <2>2, <3>1 DEF HandleSound
    <2>3. CASE i # n
      <3>1. i > n => i > issued
        BY <1>1, <2>1
      <3>2. QED
        BY <1>2, <1>3, <1>4, <1>5, <2>1, <2>3, <3>1 DEF HandleSound
    <2>4. QED
      BY <2>2, <2>3
  <1>7. ASSUME NEW d \in Thread
        PROVE  StateSound(d)'
    <2>1. SUFFICES ASSUME state[d] # 0
                   PROVE  StateSound(d)'
      BY <1>3 DEF StateSound
    <2>2. state[d] \in Handle /\ state[d] <= issued
      <3>1. state[d] \in Handle
        BY <1>1, <2>1, HubAssumption DEF Typed, WorkTyped, Handle
      <3>2. QED
        BY <2>1, <3>1 DEF Spent, StateSound
    <2>3. state[d] # n /\ state[d] <= n
      BY <1>1, <2>2 DEF Handle
    <2>4. conts'[state[d]] = None /\ owner'[state[d]] = owner[state[d]]
      BY <1>4, <1>5, <2>1, <2>2, <2>3 DEF Spent, StateSound
    <2>5. QED
      BY <1>2, <1>3, <2>1, <2>3, <2>4 DEF Spent, StateSound
  <1>8. Apart'
    BY <1>3 DEF Spent, Apart
  <1>9. QED
    BY <1>6, <1>7, <1>8 DEF Spent

LEMMA IssuesOnlyThere ==
  ASSUME Base, NEW r \in Thread, Step(r), Issues(r)
  PROVE  StoreContinuation(r)
  <1>1. pc[r] = "keep"
    BY DEF Base, Shapes, Shape, Issues
  <1>2. QED
    BY <1>1 DEF Step, At, Rate, LocalDispatch, RunLocal, Route, TakeContinuation, GetSecret, Lookup,
       Fetch, Install, LookupAgain, AuditDispatch, Send, Close, NextUpstream

LEMMA SpentStep ==
  ASSUME Base, Spent, NEW r \in Thread, Acts(r)
  PROVE  Spent'
  <1>1. Typed /\ Typed' /\ Aside(r)
    BY BaseStep DEF Base
  <1>2. CASE Quiet(r)
    BY <1>1, <1>2, QuietSpent
  <1>3. CASE ~Quiet(r)
    <2>1. Step(r)
      BY <1>3, BeginsQuiet DEF Acts
    <2>2. Issues(r) => StoreContinuation(r)
      BY <2>1, IssuesOnlyThere
    <2>3. QED
      BY <1>3, <2>1, <2>2, StepQuiet, TakenSpent, SendSpent, IssueSpent
  <1>4. QED
    BY <1>2, <1>3

LEMMA CalmSpent ==
  ASSUME Spent, Calm, UNCHANGED <<conts, issued, replays, owner>>
  PROVE  Spent'
  BY DEF Spent, HandleSound, StateSound, Apart, Calm, authority, work

LEMMA RestartSpent ==
  ASSUME Spent, Restart
  PROVE  Spent'
  BY DEF Spent, HandleSound, StateSound, Apart, Restart


-----------------------------------------------------------------------------
(* Schemas and authority.                                                  *)

\* A private listing is cached under the credential that it was made with.
CacheSound ==
  /\ \A e \in cache : e.ctx = Public \/ e.ctx = e.by
  /\ \A d, e \in cache : d.up = e.up => d.ctx = e.ctx /\ d.by = e.by
SchemaSound(r) ==
  /\ schema[r] # None => schema[r].ctx = Public \/ schema[r].by = cred[r]
  /\ pc[r] = "install" => listing[r].ctx \in {Public, cred[r]}
InContext == CacheSound /\ \A r \in Thread : SchemaSound(r)

\* The steps for which a tool must have been granted.
Granted == Steps \ {"idle", "rate", "next", "close"}

\* A token that was retired never is the one of an ACTIVE row again.
Retired ==
  /\ \A p \in Principal, g \in 1 .. MaxToken :
       <<p, g>> \in retired => g <= token[p] /\ status[p] # "NONE"
  /\ \A p \in Principal : status[p] = "ACTIVE" => <<p, token[p]>> \notin retired
AuthoritySound(r) ==
  /\ pc[r] # "idle" => status[who[r]] # "NONE"
  /\ pc[r] # "idle" /\ r \notin early =>
       /\ granted[r] = scopes[who[r]] /\ <<who[r], gen[r]>> \notin retired
       /\ pc[r] \in Granted => tool[r] \in granted[r] \cup {None}
Authorized == Retired /\ \A r \in Thread : AuthoritySound(r)

\* What a step of a request does for the next ones.
Way(r) ==
  /\ pc'[r] = "install" => Fetch(r) /\ ~Degraded(r)
  /\ pc'[r] = "dispatch" => \E found \in SUBSET Found(r) : UseSchema(r, found)
  /\ pc'[r] = "send" => UNCHANGED <<schema, cred>>
  /\ ~Install(r) => UNCHANGED cache
  /\ pc'[r] # "idle" => /\ who'[r] = who[r] /\ gen'[r] = gen[r] /\ granted'[r] = granted[r]
                        /\ tool'[r] = tool[r] /\ early' = early
  /\ pc'[r] \in Granted => pc[r] \in Granted \/ tool[r] \in granted[r] \cup {None}
  /\ early \subseteq early' \cup {r} /\ pc[r] # "idle"
  /\ UNCHANGED <<status, token, scopes, retired>>

\* A step that answers, or goes on without deciding on a schema or a tool.
LEMMA AnsweredWay ==
  ASSUME Typed, NEW r \in Thread, Answered(r), UNCHANGED cache, pc[r] # "idle"
  PROVE  Way(r)
  <1>1. pc'[r] = "idle"
    BY DEF Answered, Return, Goto, Typed, RequestTyped
  <1>2. early \subseteq early' \cup {r}
    BY DEF Answered, Return
  <1>3. UNCHANGED <<status, token, scopes, retired>>
    BY DEF Answered, Elsewhere, principals
  <1>4. QED
    BY <1>1, <1>2, <1>3 DEF Way, Granted

LEMMA PlainWay ==
  ASSUME Typed, NEW r \in Thread, NEW step \in Steps \ {"idle", "install", "dispatch", "send"},
         Proceed(r, step), Elsewhere, ~Install(r) => UNCHANGED cache, pc[r] # "idle",
         step \in Granted => pc[r] \in Granted \/ tool[r] \in granted[r] \cup {None}
  PROVE  Way(r)
  <1>1. /\ pc'[r] = step /\ who'[r] = who[r] /\ gen'[r] = gen[r] /\ tool'[r] = tool[r]
        /\ granted'[r] = granted[r]
    BY ProceedAside
  <1>2. UNCHANGED <<status, token, scopes, retired, early>>
    BY DEF Elsewhere, Proceed, principals
  <1>3. QED
    BY <1>1, <1>2 DEF Way

\* A step that keeps its authority under a new step number.
LEMMA GotoWay ==
  ASSUME Typed, NEW r \in Thread, NEW step \in Steps \ {"idle", "install", "dispatch"},
         Goto(r, step), step = "send" => UNCHANGED <<schema, cred>>,
         UNCHANGED <<who, gen, granted, tool, early, cache, status, token, scopes, retired>>,
         pc[r] \in Granted
  PROVE  Way(r)
  <1>1. pc'[r] = step
    BY DEF Goto, Typed, RequestTyped
  <1>2. QED
    BY <1>1 DEF Way, Granted

LEMMA UseSchemaWay ==
  ASSUME Typed, NEW r \in Thread, NEW found \in SUBSET Found(r), UseSchema(r, found),
         UNCHANGED cache, pc[r] \in {"lookup", "again"}
  PROVE  Way(r)
  <1>1. CASE Answered(r)
    BY <1>1, AnsweredWay
  <1>2. CASE Proceed(r, "dispatch") /\ Elsewhere
    <2>1. /\ pc'[r] = "dispatch" /\ who'[r] = who[r] /\ gen'[r] = gen[r]
          /\ tool'[r] = tool[r] /\ granted'[r] = granted[r]
      BY <1>2, ProceedAside
    <2>2. UNCHANGED <<status, token, scopes, retired, early>>
      BY <1>2 DEF Elsewhere, Proceed, principals
    <2>3. QED
      BY <2>1, <2>2 DEF Way, Granted, Steps
  <1>3. QED
    BY <1>1, <1>2 DEF UseSchema, Inadmissible

LEMMA DegradedWay ==
  ASSUME Typed, NEW r \in Thread, Degraded(r), UNCHANGED cache, pc[r] # "idle"
  PROVE  Way(r)
  BY AnsweredWay, PlainWay DEF Degraded, Granted, Steps

LEMMA StepWay ==
  ASSUME Base, NEW r \in Thread, Step(r)
  PROVE  Way(r)
  <1>a. Typed /\ Shape(r)
    BY DEF Base, Shapes
  <1>1. CASE Rate(r)
    <2>1. UNCHANGED cache /\ pc[r] = "rate"
      BY <1>1 DEF Rate, At, memory
    <2>2. QED
      BY <1>1, <1>a, <2>1, AnsweredWay, PlainWay DEF Rate, Steps
  <1>2. CASE LocalDispatch(r)
    <2>1. UNCHANGED cache /\ pc[r] = "local"
      BY <1>2 DEF LocalDispatch, At, memory
    <2>2. QED
      BY <1>2, <1>a, <2>1, AnsweredWay, GotoWay
      DEF LocalDispatch, Elsewhere, principals, authority, Steps, Granted
  <1>3. CASE RunLocal(r)
    BY <1>3, <1>a, GotoWay
    DEF RunLocal, At, Elsewhere, principals, authority, memory, Steps, Granted
  <1>4. CASE Route(r)
    <2>1. UNCHANGED cache /\ pc[r] = "route"
      BY <1>4 DEF Route, At, memory
    <2>2. QED
      BY <1>4, <1>a, <2>1, AnsweredWay, PlainWay DEF Route, Steps, Granted
  <1>5. CASE TakeContinuation(r)
    <2>1. UNCHANGED cache /\ pc[r] = "take"
      BY <1>5 DEF TakeContinuation, At
    <2>2. CASE Answered(r)
      BY <1>a, <2>1, <2>2, AnsweredWay
    <2>3. CASE Taken(r, given[r])
      BY <1>a, <2>1, <2>3, GotoWay DEF Taken, Elsewhere, principals, Steps, Granted
    <2>4. QED
      BY <1>5, <2>2, <2>3 DEF TakeContinuation
  <1>6. CASE GetSecret(r)
    <2>1. UNCHANGED cache /\ pc[r] = "secret"
      BY <1>6 DEF GetSecret, At, memory
    <2>2. QED
      BY <1>6, <1>a, <2>1, DegradedWay, PlainWay DEF GetSecret, Steps, Granted
  <1>7. CASE Lookup(r)
    <2>1. UNCHANGED cache /\ pc[r] = "lookup"
      BY <1>7 DEF Lookup, At, memory
    <2>2. CASE UseSchema(r, Found(r) \ stale)
      BY <1>a, <2>1, <2>2, UseSchemaWay
    <2>3. CASE Proceed(r, "fetch") /\ Elsewhere
      BY <1>a, <2>1, <2>3, PlainWay DEF Steps, Granted
    <2>4. QED
      BY <1>7, <2>2, <2>3 DEF Lookup
  <1>8. CASE Fetch(r)
    <2>1. UNCHANGED cache /\ pc[r] = "fetch"
      BY <1>8 DEF Fetch, At, memory
    <2>2. CASE Degraded(r)
      BY <1>a, <2>1, <2>2, DegradedWay
    <2>3. CASE ~Degraded(r)
      <3>1. Proceed(r, "install") /\ Elsewhere
        BY <1>8, <2>3 DEF Fetch
      <3>2. /\ pc'[r] = "install" /\ who'[r] = who[r] /\ gen'[r] = gen[r]
            /\ tool'[r] = tool[r] /\ granted'[r] = granted[r]
        BY <1>a, <3>1, ProceedAside
      <3>3. UNCHANGED <<status, token, scopes, retired, early>>
        BY <3>1 DEF Elsewhere, Proceed, principals
      <3>4. QED
        BY <1>8, <2>1, <2>3, <3>2, <3>3 DEF Way, Granted, Steps
    <2>4. QED
      BY <2>2, <2>3
  <1>9. CASE Install(r)
    <2>1. pc[r] = "install"
      BY <1>9 DEF Install, At
    <2>2. QED
      BY <1>9, <1>a, <2>1, PlainWay DEF Install, Steps, Granted
  <1>10. CASE LookupAgain(r)
    <2>1. UNCHANGED cache /\ pc[r] = "again"
      BY <1>10 DEF LookupAgain, At, memory
    <2>2. QED
      BY <1>10, <1>a, <2>1, AnsweredWay, UseSchemaWay DEF LookupAgain
  <1>11. CASE AuditDispatch(r)
    <2>1. UNCHANGED cache /\ pc[r] = "dispatch"
      BY <1>11 DEF AuditDispatch, At, memory
    <2>2. QED
      BY <1>11, <1>a, <2>1, AnsweredWay, GotoWay
      DEF AuditDispatch, Elsewhere, principals, authority, work, Steps, Granted
  <1>12. CASE Send(r)
    <2>1. Goto(r, "close") \/ Goto(r, "keep")
      BY <1>12 DEF Send, Ends, AsksForInput
    <2>2. /\ pc[r] \in Granted
          /\ UNCHANGED <<who, gen, granted, tool, early, cache, status, token, scopes, retired>>
      BY <1>12 DEF Send, At, Steps, Granted, authority, memory, principals
    <2>3. QED
      BY <1>a, <2>1, <2>2, GotoWay DEF Steps
  <1>13. CASE StoreContinuation(r)
    BY <1>13, <1>a, GotoWay
    DEF StoreContinuation, At, Proceed, authority, principals, Steps, Granted
  <1>14. CASE Close(r)
    BY <1>14, <1>a, AnsweredWay DEF Close, At, memory
  <1>15. CASE NextUpstream(r)
    <2>1. UNCHANGED cache /\ pc[r] = "next" /\ tool[r] = None
      BY <1>15, <1>a DEF NextUpstream, At, Shape, memory
    <2>2. QED
      BY <1>15, <1>a, <2>1, AnsweredWay, PlainWay DEF NextUpstream, Steps
  <1>16. QED
    BY <1>1, <1>2, <1>3, <1>4, <1>5, <1>6, <1>7, <1>8, <1>9, <1>10, <1>11, <1>12, <1>13,
       <1>14, <1>15 DEF Step

LEMMA StillSchema ==
  ASSUME NEW d \in Thread, Still(d), SchemaSound(d)
  PROVE  SchemaSound(d)'
  BY DEF Still, SchemaSound

LEMMA ContextStep ==
  ASSUME Base, InContext, NEW r \in Thread, Acts(r)
  PROVE  InContext'
  <1>1. Typed /\ Typed' /\ Aside(r) /\ Shape(r)' /\ Shape(r)
    BY BaseStep DEF Base, Shapes
  <1>2. CASE Begins(r)
    <2>1. UNCHANGED <<cache, schema, cred>> /\ pc[r] = "idle" /\ pc'[r] # "install"
      BY <1>1, <1>2, BeginsGoes
      DEF Begins, ToolsList, ToolsCall, memory, work, Goto, Typed, RequestTyped
    <2>2. SchemaSound(r)'
      BY <1>1, <2>1 DEF SchemaSound, Shape
    <2>3. QED
      BY <1>1, <2>1, <2>2, StillSchema DEF InContext, CacheSound, Aside
  <1>3. CASE Step(r)
    <2>1. Way(r)
      BY <1>3, StepWay
    <2>2. CacheSound'
      <3>1. CASE ~Install(r)
        BY <2>1, <3>1 DEF Way, InContext, CacheSound
      <3>2. CASE Install(r)
        <4>1. listing[r].ctx \in {Public, cred[r]}
          BY <3>2 DEF Install, At, InContext, SchemaSound
        <4>2. ASSUME NEW e \in cache'
              PROVE  \/ e \in cache /\ e.up # up[r]
                     \/ e.up = up[r] /\ e.ctx = listing[r].ctx /\ e.by = cred[r]
          BY <3>2 DEF Install
        <4>3. QED
          BY <4>1, <4>2 DEF InContext, CacheSound
      <3>3. QED
        BY <3>1, <3>2
    <2>3. SchemaSound(r)'
      <3>1. CASE pc'[r] = "install"
        <4>1. PICK ctx \in {Public, cred[r]}, ts \in SUBSET Name :
                listing' = [listing EXCEPT ![r] = [ctx |-> ctx, tools |-> ts]]
          BY <2>1, <3>1 DEF Way, Fetch
        <4>2. listing'[r].ctx = ctx /\ UNCHANGED cred
          BY <1>1, <2>1, <3>1, <4>1 DEF Way, Fetch, Typed, WorkTyped
        <4>3. schema'[r] = None
          BY <1>1, <3>1 DEF Shape
        <4>4. QED
          BY <4>2, <4>3 DEF SchemaSound
      <3>2. CASE pc'[r] = "dispatch"
        <4>1. PICK found \in SUBSET Found(r) : UseSchema(r, found)
          BY <2>1, <3>2 DEF Way
        <4>2. ~Answered(r)
          BY <1>1, <3>2, AnsweredShape
        <4>3. PICK e \in found : schema' = [schema EXCEPT ![r] = e] /\ UNCHANGED cred
          BY <4>1, <4>2 DEF UseSchema, Inadmissible
        <4>4. e.ctx = Public \/ e.by = cred[r]
          BY <4>1 DEF Found, Cached, InContext, CacheSound
        <4>5. schema'[r] = e
          BY <1>1, <4>3 DEF Typed, WorkTyped
        <4>6. QED
          BY <3>2, <4>3, <4>4, <4>5 DEF SchemaSound
      <3>3. CASE pc'[r] = "send"
        BY <2>1, <3>3 DEF Way, InContext, SchemaSound
      <3>4. CASE pc'[r] \notin {"install", "dispatch", "send"}
        BY <1>1, <3>4 DEF Shape, SchemaSound
      <3>5. QED
        BY <3>1, <3>2, <3>3, <3>4
    <2>4. QED
      BY <1>1, <2>2, <2>3, StillSchema DEF InContext, Aside
  <1>4. QED
    BY <1>2, <1>3 DEF Acts

LEMMA AuthorityStep ==
  ASSUME Base, Authorized, NEW r \in Thread, Acts(r)
  PROVE  Authorized'
  <1>1. Typed /\ Aside(r)
    BY BaseStep DEF Base
  <1>2. /\ UNCHANGED <<status, token, scopes, retired>>
        /\ early \subseteq early' \cup {r}
    <2>1. CASE Begins(r)
      BY <2>1 DEF Begins, ToolsList, ToolsCall, Elsewhere, principals
    <2>2. CASE Step(r)
      BY <2>2, StepWay DEF Way
    <2>3. QED
      BY <2>1, <2>2 DEF Acts
  <1>3. Retired'
    BY <1>2 DEF Authorized, Retired
  <1>4. ASSUME NEW d \in Thread \ {r}
        PROVE  AuthoritySound(d)'
    <2>1. Still(d) /\ AuthoritySound(d) /\ (d \in early => d \in early')
      BY <1>1, <1>2 DEF Aside, Authorized
    <2>2. QED
      BY <1>2, <2>1 DEF Still, AuthoritySound
  <1>5. CASE Step(r)
    <2>1. Way(r) /\ AuthoritySound(r)
      BY <1>5, StepWay DEF Authorized
    <2>2. AuthoritySound(r)'
      <3>1. CASE pc'[r] = "idle"
        BY <3>1 DEF AuthoritySound
      <3>2. CASE pc'[r] # "idle"
        <4>1. /\ who'[r] = who[r] /\ gen'[r] = gen[r] /\ granted'[r] = granted[r]
              /\ tool'[r] = tool[r] /\ early' = early /\ pc[r] # "idle"
              /\ pc'[r] \in Granted => pc[r] \in Granted \/ tool[r] \in granted[r] \cup {None}
          BY <2>1, <3>2 DEF Way
        <4>2. QED
          BY <1>2, <2>1, <4>1 DEF AuthoritySound
      <3>3. QED
        BY <3>1, <3>2
    <2>3. QED
      BY <1>3, <1>4, <2>2 DEF Authorized
  <1>6. CASE Begins(r)
    <2>1. PICK p \in Principal, g \in 1 .. MaxToken :
            ToolsList(r, p, g) \/ \E t \in Tool, h \in 0 .. issued : ToolsCall(r, p, g, t, h)
      BY <1>6 DEF Begins
    <2>2. /\ who'[r] = p /\ gen'[r] = g /\ granted'[r] = scopes[p]
          /\ status[p] = "ACTIVE" /\ token[p] = g /\ pc'[r] \in {"rate", "next"}
      BY <1>1, <2>1 DEF ToolsList, ToolsCall, Authenticate, Goto, Typed, RequestTyped
    <2>3. <<p, g>> \notin retired
      BY <2>2 DEF Authorized, Retired
    <2>4. AuthoritySound(r)'
      BY <1>2, <2>2, <2>3 DEF AuthoritySound, Granted
    <2>5. QED
      BY <1>3, <1>4, <2>4 DEF Authorized
  <1>7. QED
    BY <1>5, <1>6 DEF Acts

LEMMA OwnerAuthority ==
  ASSUME Base, Authorized, Owners
  PROVE  Authorized'
  <1>1. Calm /\ Typed /\ Tokens
    BY OwnersCalm DEF Base
  <1>a. \A p \in Principal : token[p] \in Nat
    BY <1>1, HubAssumption DEF Typed, RowsTyped
  <1>b. /\ \A d \in Thread : AuthoritySound(d) /\ (pc[d] # "idle" => who[d] \in Principal)
        /\ UNCHANGED <<pc, who, gen, granted, tool>>
    BY <1>1 DEF Authorized, Calm, authority, Base, Shapes, Shape, Typed, RequestTyped
  <1>2. ASSUME NEW p \in Principal, CreatePrincipal(p)
        PROVE  Authorized'
    <2>1. /\ status[p] = "NONE" /\ UNCHANGED <<retired, early>>
          /\ status' = [status EXCEPT ![p] = "ACTIVE"] /\ token' = [token EXCEPT ![p] = 1]
          /\ \E g \in Grants : scopes' = [scopes EXCEPT ![p] = g]
      BY <1>2 DEF CreatePrincipal
    <2>2. \A q \in Principal : q # p => /\ status'[q] = status[q] /\ token'[q] = token[q]
                                       /\ scopes'[q] = scopes[q]
      BY <1>1, <2>1 DEF Typed, RowsTyped
    <2>3. \A g \in 1 .. MaxToken : <<p, g>> \notin retired
      BY <2>1 DEF Authorized, Retired
    <2>4. token'[p] = 1 /\ status'[p] = "ACTIVE" /\ 1 \in 1 .. MaxToken
      BY <1>1, <2>1, HubAssumption DEF Typed, RowsTyped
    <2>5. Retired'
      BY <2>1, <2>2, <2>3, <2>4 DEF Authorized, Retired
    <2>6. ASSUME NEW d \in Thread
          PROVE  AuthoritySound(d)'
      BY <1>b, <2>1, <2>2 DEF AuthoritySound
    <2>7. QED
      BY <2>5, <2>6 DEF Authorized
  <1>3. ASSUME NEW p \in Principal, RotatePrincipal(p) \/ RevokePrincipal(p) \/ ReplaceScopes(p)
        PROVE  Authorized'
    <2>1. /\ status[p] # "NONE" /\ early' = early \cup Busy(p)
          /\ retired' \subseteq retired \cup {<<p, token[p]>>}
      BY <1>3 DEF RotatePrincipal, RevokePrincipal, ReplaceScopes
    <2>2. \A q \in Principal : q # p => /\ status'[q] = status[q] /\ token'[q] = token[q]
                                       /\ scopes'[q] = scopes[q]
      BY <1>1, <1>3 DEF RotatePrincipal, RevokePrincipal, ReplaceScopes, Typed, RowsTyped
    <2>3. status'[p] # "NONE"
      BY <1>1, <1>3, <2>1 DEF RotatePrincipal, RevokePrincipal, ReplaceScopes, Typed, RowsTyped
    <2>4. ASSUME NEW d \in Thread
          PROVE  AuthoritySound(d)'
      BY <1>b, <2>1, <2>2, <2>3 DEF AuthoritySound, Busy
    <2>5. Retired'
      <3>1. CASE RotatePrincipal(p)
        <4>1. /\ token' = [token EXCEPT ![p] = @ + 1] /\ retired' = retired \cup {<<p, token[p]>>}
          BY <3>1 DEF RotatePrincipal
        <4>2. token'[p] = token[p] + 1
          BY <1>1, <4>1 DEF Typed, RowsTyped
        <4>3. \A g \in 1 .. MaxToken : <<p, g>> \in retired' => g <= token[p]
          BY <1>a, <4>1 DEF Authorized, Retired
        <4>4. /\ \A g \in 1 .. MaxToken : <<p, g>> \in retired' => g <= token'[p]
              /\ <<p, token'[p]>> \notin retired'
          <5>1. token'[p] \in 1 .. MaxToken
            BY <1>a, <3>1, <4>2, HubAssumption DEF RotatePrincipal
          <5>2. QED
            BY <1>a, <4>2, <4>3, <5>1, HubAssumption
        <4>5. QED
          BY <2>1, <2>2, <2>3, <4>4 DEF Authorized, Retired
      <3>2. CASE RevokePrincipal(p)
        <4>1. status'[p] = "REVOKED" /\ UNCHANGED token
          BY <1>1, <3>2 DEF RevokePrincipal, Typed, RowsTyped
        <4>2. QED
          BY <1>a, <2>1, <2>2, <4>1 DEF Authorized, Retired
      <3>3. CASE ReplaceScopes(p)
        BY <3>3 DEF ReplaceScopes, Authorized, Retired
      <3>4. QED
        BY <1>3, <3>1, <3>2, <3>3
    <2>6. QED
      BY <2>4, <2>5 DEF Authorized
  <1>4. ASSUME NEW u \in Upstream,
               RegisterUpstream(u) \/ DisableUpstream(u) \/ RotateSecret(u)
        PROVE  Authorized'
    BY <1>b, <1>4 DEF RegisterUpstream, DisableUpstream, RotateSecret, principals,
       Authorized, Retired, AuthoritySound
  <1>5. QED
    BY <1>2, <1>3, <1>4 DEF Owners

LEMMA RestartContext ==
  ASSUME Restart
  PROVE  InContext' /\ (Authorized => Authorized')
  BY DEF Restart, InContext, CacheSound, SchemaSound, Authorized, Retired, AuthoritySound,
     principals

LEMMA CalmContext ==
  ASSUME InContext, Calm, UNCHANGED cache
  PROVE  InContext'
  BY DEF InContext, CacheSound, SchemaSound, Calm, work

LEMMA AgesAuthority ==
  ASSUME Authorized, Ages
  PROVE  Authorized'
  BY AgesCalm DEF Calm, Authorized, Retired, AuthoritySound, principals, authority, ghosts

-----------------------------------------------------------------------------
(* The invariant and the results.                                          *)

IInv == Base /\ Spent /\ InContext /\ Authorized

LEMMA IInvInit == Init => IInv
  <1> SUFFICES ASSUME Init PROVE IInv
    OBVIOUS
  <1> USE HubAssumption DEF Init
  <1>1. RowsTyped /\ MemoryTyped /\ CountsTyped
    BY DEF RowsTyped, MemoryTyped, CountsTyped, Secret, Handle
  <1>2. RequestTyped /\ WorkTyped
    BY DEF RequestTyped, WorkTyped, Steps, NoListing, Context, Public
  <1>3. Room
    <2>1. {d \in Thread : asks[d]} = {}
      OBVIOUS
    <2>2. Promised = 0
      BY <2>1, FS_EmptySet DEF Promised
    <2>3. QED
      BY <2>2 DEF Room
  <1>4. Tokens /\ Shapes
    BY DEF Tokens, Shapes, Shape, Calling, Spending
  <1>5. Spent
    BY DEF Spent, HandleSound, StateSound, Apart
  <1>6. InContext /\ Authorized
    BY DEF InContext, CacheSound, SchemaSound, Authorized, Retired, AuthoritySound
  <1>7. QED
    BY <1>1, <1>2, <1>3, <1>4, <1>5, <1>6 DEF IInv, Base, Typed

LEMMA StutterStep ==
  ASSUME IInv, UNCHANGED vars
  PROVE  IInv'
  <1>1. Calm /\ UNCHANGED <<principals, upstreams, memory, issued, ghosts, used>>
    BY DEF vars, Calm
  <1>2. Typed'
    BY <1>1 DEF IInv, Base, Typed, RowsTyped, MemoryTyped, RequestTyped, WorkTyped,
       CountsTyped, Calm, principals, upstreams, memory, authority, work, ghosts
  <1>3. Shapes' /\ Room' /\ Tokens'
    BY <1>1, CalmStill, StillShape
    DEF IInv, Base, Shapes, Room, Promised, Tokens, principals, Calm, work
  <1>4. Spent' /\ InContext'
    BY <1>1, CalmSpent, CalmContext DEF IInv, memory, ghosts
  <1>5. Authorized'
    BY <1>1 DEF IInv, Authorized, Retired, AuthoritySound, Calm, authority, principals, ghosts
  <1>6. QED
    BY <1>2, <1>3, <1>4, <1>5 DEF IInv, Base

LEMMA NextParts ==
  ASSUME Next
  PROVE  (\E r \in Thread : Acts(r)) \/ Owners \/ Ages \/ Restart
  BY DEF Next, Acts, Begins, Owners, Ages

LEMMA IInvStep == IInv /\ [Next]_vars => IInv'
  <1> SUFFICES ASSUME IInv, [Next]_vars PROVE IInv'
    OBVIOUS
  <1> USE DEF IInv
  <1>1. ASSUME NEW r \in Thread, Acts(r)
        PROVE  IInv'
    BY <1>1, BaseStep, SpentStep, ContextStep, AuthorityStep
  <1>2. CASE Owners
    <2>1. Base' /\ Authorized'
      BY <1>2, CalmBase, OwnerAuthority
    <2>2. Spent' /\ InContext'
      BY <1>2, OwnersCalm, CalmSpent, CalmContext DEF memory
    <2>3. QED
      BY <2>1, <2>2
  <1>3. CASE Ages
    <2>1. Base' /\ Authorized'
      BY <1>3, CalmBase, AgesAuthority
    <2>2. Spent' /\ InContext'
      BY <1>3, AgesCalm, CalmSpent, CalmContext DEF ghosts
    <2>3. QED
      BY <2>1, <2>2
  <1>4. CASE Restart
    BY <1>4, RestartBase, RestartSpent, RestartContext
  <1>5. QED
    BY <1>1, <1>2, <1>3, <1>4, NextParts, StutterStep

\* What a request holds fits the rows, the memory and its step in every
\* reachable state: the inductive invariant from which the others follow.
THEOREM Invariance == Spec => []IInv
  BY IInvInit, IInvStep, PTL DEF Spec

\* Every variable holds a value of its kind; in particular no rate window is
\* overdrawn and no handle is issued beyond the last.
THEOREM TypeCorrect == Spec => []TypeOK
  <1>1. IInv => TypeOK
    BY TypeParts DEF IInv, Base
  <1>2. QED
    BY <1>1, Invariance, PTL

\* A request runs a tool at most once and with its DISPATCH row written,
\* whatever fails and whenever the service is restarted.
THEOREM AuditedDispatches == Spec => []DispatchesAreAudited
  <1>1. IInv => DispatchesAreAudited
    <2>1. ASSUME NEW r \in Thread, Shape(r)
          PROVE  sent[r] <= 1 /\ (sent[r] = 1 => "DISPATCH" \in rows[r])
      BY <2>1 DEF Shape
    <2>2. QED
      BY <2>1 DEF IInv, Base, Shapes, DispatchesAreAudited
  <1>2. QED
    BY <1>1, Invariance, PTL

\* However many threads present a handle at once, its state is sent once, in a
\* call of the principal, to the tool, with the arguments it was issued for.
THEOREM SpentOnce == Spec => []ContinuationsAreSpentOnce
  <1>1. IInv => ContinuationsAreSpentOnce
    BY DEF IInv, Spent, HandleSound, StateSound, ContinuationsAreSpentOnce
  <1>2. QED
    BY <1>1, Invariance, PTL

\* A call is made under a schema that its own credential was shown or that is
\* public, and the cache never mixes the listings of two credentials.
THEOREM ContextsAreKept == Spec => []SchemasStayInContext
  <1>1. IInv => SchemasStayInContext
    BY DEF IInv, InContext, CacheSound, SchemaSound, SchemasStayInContext
  <1>2. QED
    BY <1>1, Invariance, PTL

\* Unless its principal is changed while it is under way, a request has the
\* scopes of the row, by a token that was neither revoked nor replaced.
THEOREM CurrentAuthority == Spec => []AuthorityIsCurrent
  <1>1. IInv => AuthorityIsCurrent
    <2>1. ASSUME NEW r \in Thread, Shape(r), AuthoritySound(r), pc[r] # "idle", r \notin early
          PROVE  /\ granted[r] = scopes[who[r]] /\ <<who[r], gen[r]>> \notin retired
                 /\ pc[r] \in {"run", "send"} => tool[r] \in granted[r]
      BY <2>1 DEF Shape, AuthoritySound, Granted, Steps, Calling
    <2>2. QED
      BY <2>1 DEF IInv, Base, Shapes, Authorized, AuthorityIsCurrent
  <1>2. QED
    BY <1>1, Invariance, PTL
=============================================================================
