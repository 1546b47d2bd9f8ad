-------------------------------- MODULE McpHub --------------------------------
(***************************************************************************)
(* The MCP hub (mcp_hub.py, mcp_transport.py, mcp_store.py). A thread of   *)
(* the HTTP server takes one request: it authenticates a principal, checks *)
(* its rate and scopes, and runs a local tool or passes the call on to an  *)
(* upstream. Threads share the rows of PostgreSQL and, in memory, the rate *)
(* windows, the schema cache and the continuations, each under a lock that *)
(* is held for one access only. The Owner changes the rows meanwhile.      *)
(***************************************************************************)
EXTENDS Integers, FiniteSets

CONSTANTS
  Thread, Principal, Upstream,
  Local, Remote,  \* calls of local and of remote tools: names with arguments
  Name, Named,    \* the names of remote tools, and the one of each call
  Home,           \* the upstream in whose namespace a name is
  Grants,         \* scopes, as the sets of tools they allow
  Window,         \* tool_rate_limit_per_minute
  Kept,           \* continuations kept: 4096
  MaxHandle, MaxToken, MaxSecret,  \* bounds on issues and rotations
  None,
  Limit           \* bound on other changes of the Owner, expiries and restarts

ASSUME HubAssumption ==
  /\ IsFiniteSet(Thread) /\ Local \cap Remote = {}
  /\ Named \in [Remote -> Name] /\ Home \in [Name -> Upstream]
  /\ Grants \subseteq SUBSET (Local \cup Remote)
  /\ Window \in Nat /\ Kept \in Nat \ {0}
  /\ MaxHandle \in Nat /\ MaxToken \in Nat \ {0} /\ MaxSecret \in Nat \ {0}
  /\ Limit \in Nat
  /\ None \notin Principal \cup Upstream \cup Local \cup Remote

Tool == Local \cup Remote
Upper(t) == Home[Named[t]]
Handle == 1 .. MaxHandle       \* in the order of issue; 0 is none
Secret == 1 .. MaxSecret       \* generations of an upstream's credential
Public == 0                    \* cache contexts are 0 and the private ones
Context == {Public} \cup Secret
\* A cache key; by is the credential the listing was made with.
Entry == [up : Upstream, ctx : Context, tool : Name, by : Secret]
\* A continuation record; the upstream's state is named as its handle.
Record == [who : Principal, up : Upstream, tool : Remote]
ASSUME RecordAssumption == None \notin Record

Steps == {"idle", "rate", "local", "run", "route", "take", "secret", "lookup",
          "fetch", "install", "again", "dispatch", "send", "keep", "close", "next"}

VARIABLES
  status, token, scopes,   \* rows of mcp_principal; token is its generation
  registered,              \* rows of mcp_upstream: status; last_state is left out
  secret,                  \* generation of the upstream's credential
  window,                  \* calls in the last minute
  cache, stale,            \* the schema cache, and the entries past their time
  conts, issued, past,     \* continuations; handles issued; handles expired
  pc, who, gen, granted, tool, given,  \* per thread: request and authority
  todo, up, cred, state, schema, listing, asks,  \* per thread: locals
  rows, sent,              \* per thread: audit rows written, tool runs begun
  replays,                 \* times an upstream was sent the state of a handle
  owner,                   \* whom a handle was issued to, for what
  retired,                 \* tokens that were revoked or replaced
  early,                   \* threads whose principal was changed meanwhile
  used                     \* how much of Limit is used up

principals == <<status, token, scopes>>
upstreams == <<registered, secret>>
memory == <<window, cache, stale, conts, past>>
authority == <<who, gen, granted, tool, given>>
work == <<todo, up, cred, state, schema, listing, asks>>
ghosts == <<replays, owner, retired, early>>
vars == <<principals, upstreams, memory, issued, pc, authority, work, rows, sent,
          ghosts, used>>

NoListing == [ctx |-> Public, tools |-> {}]

Init ==
  /\ status = [p \in Principal |-> "NONE"]
  /\ token = [p \in Principal |-> 0]
  /\ scopes = [p \in Principal |-> {}]
  /\ registered = [u \in Upstream |-> "NONE"]
  /\ secret = [u \in Upstream |-> 1]
  /\ window = [p \in Principal |-> 0]
  /\ cache = {} /\ stale = {}
  /\ conts = [h \in Handle |-> None] /\ issued = 0 /\ past = 0
  /\ pc = [r \in Thread |-> "idle"]
  /\ who = [r \in Thread |-> None] /\ gen = [r \in Thread |-> 0]
  /\ granted = [r \in Thread |-> {}]
  /\ tool = [r \in Thread |-> None] /\ given = [r \in Thread |-> 0]
  /\ todo = [r \in Thread |-> {}] /\ up = [r \in Thread |-> None]
  /\ cred = [r \in Thread |-> 0] /\ state = [r \in Thread |-> 0]
  /\ schema = [r \in Thread |-> None]
  /\ listing = [r \in Thread |-> NoListing]
  /\ asks = [r \in Thread |-> FALSE]
  /\ rows = [r \in Thread |-> {}] /\ sent = [r \in Thread |-> 0]
  /\ replays = [h \in Handle |-> 0] /\ owner = [h \in Handle |-> None]
  /\ retired = {} /\ early = {} /\ used = 0

-----------------------------------------------------------------------------
(* Helpers.                                                                *)

At(r, step) == pc[r] = step
Goto(r, step) == pc' = [pc EXCEPT ![r] = step]
Busy(p) == {r \in Thread : pc[r] # "idle" /\ who[r] = p}
Listing(r) == tool[r] = None       \* tools/list

Spend == used < Limit /\ used' = used + 1

\* The request has been answered.
Return(r) ==
  /\ Goto(r, "idle")
  /\ who' = [who EXCEPT ![r] = None] /\ gen' = [gen EXCEPT ![r] = 0]
  /\ granted' = [granted EXCEPT ![r] = {}]
  /\ tool' = [tool EXCEPT ![r] = None] /\ given' = [given EXCEPT ![r] = 0]
  /\ todo' = [todo EXCEPT ![r] = {}] /\ up' = [up EXCEPT ![r] = None]
  /\ cred' = [cred EXCEPT ![r] = 0] /\ state' = [state EXCEPT ![r] = 0]
  /\ schema' = [schema EXCEPT ![r] = None]
  /\ listing' = [listing EXCEPT ![r] = NoListing]
  /\ asks' = [asks EXCEPT ![r] = FALSE]
  /\ rows' = [rows EXCEPT ![r] = {}] /\ sent' = [sent EXCEPT ![r] = 0]
  /\ early' = early \ {r}

\* What a request leaves alone when it goes on, and when it is answered.
Elsewhere == UNCHANGED <<principals, upstreams, issued, replays, owner, retired, used>>
Proceed(r, step) == Goto(r, step) /\ UNCHANGED <<authority, rows, sent, early>>
Answered(r) == Return(r) /\ Elsewhere

-----------------------------------------------------------------------------
(* What the Owner does to the rows.                                        *)

Rows == UNCHANGED <<memory, issued, pc, authority, work, rows, sent, replays, owner>>

CreatePrincipal(p) ==
  /\ status[p] = "NONE"
  /\ status' = [status EXCEPT ![p] = "ACTIVE"]
  /\ token' = [token EXCEPT ![p] = 1]
  /\ \E g \in Grants : scopes' = [scopes EXCEPT ![p] = g]
  /\ Rows /\ UNCHANGED <<used, upstreams, retired, early>>

\* Mutant: the token stays, only the status is set.
RotatePrincipalKeeps(p) ==
  /\ Spend
  /\ status[p] # "NONE" /\ token[p] < MaxToken
  /\ status' = [status EXCEPT ![p] = "ACTIVE"]
  /\ early' = early \cup Busy(p)
  /\ Rows /\ UNCHANGED <<token, scopes, upstreams, retired>>

\* Whatever the status was, it becomes ACTIVE.
RotatePrincipal(p) ==
  /\ Spend
  /\ status[p] # "NONE" /\ token[p] < MaxToken
  /\ status' = [status EXCEPT ![p] = "ACTIVE"]
  /\ token' = [token EXCEPT ![p] = @ + 1]
  /\ retired' = retired \cup {<<p, token[p]>>}
  /\ early' = early \cup Busy(p)
  /\ Rows /\ UNCHANGED <<scopes, upstreams>>

RevokePrincipal(p) ==
  /\ status[p] # "NONE"
  /\ status' = [status EXCEPT ![p] = "REVOKED"]
  /\ retired' = retired \cup {<<p, token[p]>>}
  /\ early' = early \cup Busy(p)
  /\ Rows /\ UNCHANGED <<token, scopes, upstreams, used>>

ReplaceScopes(p) ==
  /\ Spend
  /\ status[p] # "NONE"
  /\ \E g \in Grants \ {scopes[p]} : scopes' = [scopes EXCEPT ![p] = g]
  /\ early' = early \cup Busy(p)
  /\ Rows /\ UNCHANGED <<status, token, upstreams, retired>>

\* A namespace is registered once; a disabled upstream keeps it.
RegisterUpstream(u) ==
  /\ registered[u] = "NONE"
  /\ registered' = [registered EXCEPT ![u] = "ACTIVE"]
  /\ Rows /\ UNCHANGED <<used, principals, secret, retired, early>>

DisableUpstream(u) ==
  /\ Spend
  /\ registered[u] = "ACTIVE"
  /\ registered' = [registered EXCEPT ![u] = "DISABLED"]
  /\ Rows /\ UNCHANGED <<principals, secret, retired, early>>

\* The credential behind the SecretRef is rotated.
RotateSecret(u) ==
  /\ Spend
  /\ secret[u] < MaxSecret
  /\ secret' = [secret EXCEPT ![u] = @ + 1]
  /\ Rows /\ UNCHANGED <<principals, registered, retired, early>>

-----------------------------------------------------------------------------
(* A request up to its tool.                                               *)

\* authenticate: an ACTIVE row with the hash of the token that is presented.
Authenticate(r, p, g) ==
  /\ At(r, "idle")
  /\ status[p] = "ACTIVE" /\ token[p] = g
  /\ who' = [who EXCEPT ![r] = p] /\ gen' = [gen EXCEPT ![r] = g]
  /\ granted' = [granted EXCEPT ![r] = scopes[p]]

ToolsCall(r, p, g, t, h) ==
  /\ Authenticate(r, p, g)
  /\ tool' = [tool EXCEPT ![r] = t] /\ given' = [given EXCEPT ![r] = h]
  /\ Goto(r, "rate")
  /\ Elsewhere /\ UNCHANGED <<memory, work, rows, sent, early>>

\* list_upstreams(active_only=True), of those in whose namespace a scope is.
ToolsList(r, p, g) ==
  /\ Authenticate(r, p, g)
  /\ todo' = [todo EXCEPT ![r] =
                {u \in Upstream : /\ registered[u] = "ACTIVE"
                                  /\ \E t \in scopes[p] \cap Remote : Upper(t) = u}]
  /\ Goto(r, "next")
  /\ Elsewhere
  /\ UNCHANGED <<memory, tool, given, up, cred, state, schema, listing, asks, rows,
                 sent, early>>

\* Mutant: one call too many.
RateOffByOne(r) ==
  /\ At(r, "rate")
  /\ \/ /\ window[who[r]] > Window
        /\ Answered(r) /\ UNCHANGED memory
     \/ /\ window[who[r]] <= Window
        /\ window' = [window EXCEPT ![who[r]] = @ + 1]
        /\ \/ (tool[r] \notin granted[r] \/ tool[r] \in Local) /\ Answered(r)
           \/ /\ tool[r] \in granted[r] \cap Local /\ given[r] = 0
              /\ Proceed(r, "local") /\ Elsewhere /\ UNCHANGED work
           \/ /\ tool[r] \in granted[r] \cap Remote
              /\ Proceed(r, "route") /\ Elsewhere /\ UNCHANGED work
        /\ UNCHANGED <<cache, stale, conts, past>>

\* _consume_tool_rate_limit, then scope_allows; a local tool takes no continuation
\* and may refuse the arguments.
Rate(r) ==
  /\ At(r, "rate")
  /\ \/ /\ window[who[r]] >= Window
        /\ Answered(r) /\ UNCHANGED memory
     \/ /\ window[who[r]] < Window
        /\ window' = [window EXCEPT ![who[r]] = @ + 1]
        /\ \/ (tool[r] \notin granted[r] \/ tool[r] \in Local) /\ Answered(r)
           \/ /\ tool[r] \in granted[r] \cap Local /\ given[r] = 0
              /\ Proceed(r, "local") /\ Elsewhere /\ UNCHANGED work
           \/ /\ tool[r] \in granted[r] \cap Remote
              /\ Proceed(r, "route") /\ Elsewhere /\ UNCHANGED work
        /\ UNCHANGED <<cache, stale, conts, past>>

\* The DISPATCH row: without it nothing is run.
Audit(r, row) == rows' = [rows EXCEPT ![r] = @ \cup {row}]

LocalDispatch(r) ==
  /\ At(r, "local")
  /\ \/ Audit(r, "DISPATCH") /\ Goto(r, "run") /\ Elsewhere
        /\ UNCHANGED <<authority, work, sent, early>>
     \/ Answered(r)
  /\ UNCHANGED memory

RunLocal(r) ==
  /\ At(r, "run")
  /\ sent' = [sent EXCEPT ![r] = @ + 1]
  /\ Goto(r, "close")
  /\ Elsewhere /\ UNCHANGED <<memory, authority, work, rows, early>>

\* The upstream of the namespace, if it is ACTIVE.
Route(r) ==
  /\ At(r, "route")
  /\ \/ registered[Upper(tool[r])] # "ACTIVE" /\ Answered(r)
     \/ /\ registered[Upper(tool[r])] = "ACTIVE"
        /\ up' = [up EXCEPT ![r] = Upper(tool[r])]
        /\ Proceed(r, IF given[r] = 0 THEN "secret" ELSE "take")
        /\ Elsewhere /\ UNCHANGED <<todo, cred, state, schema, listing, asks>>
  /\ UNCHANGED memory

\* The call goes on with the upstream's state in the place of the handle.
Taken(r, h) ==
  /\ state' = [state EXCEPT ![r] = h] /\ given' = [given EXCEPT ![r] = 0]
  /\ Goto(r, "secret")
  /\ Elsewhere
  /\ UNCHANGED <<who, gen, granted, tool, todo, up, cred, schema, listing, asks, rows,
                 sent, early>>

\* Mutant: the record stays until it expires.
TakeContinuationKeeps(r) ==
  LET h == given[r] IN
  /\ At(r, "take")
  /\ \/ /\ conts[h] # [who |-> who[r], up |-> up[r], tool |-> tool[r]] \/ h <= past
        /\ Answered(r) /\ UNCHANGED conts
     \/ /\ conts[h] = [who |-> who[r], up |-> up[r], tool |-> tool[r]] /\ h > past
        /\ UNCHANGED conts
        /\ Taken(r, h)
  /\ UNCHANGED <<window, cache, stale, past>>

\* _take_continuation: taken out if it is live and was issued for this call.
TakeContinuation(r) ==
  LET h == given[r]
      mine == conts[h] = [who |-> who[r], up |-> up[r], tool |-> tool[r]] IN
  /\ At(r, "take")
  /\ \/ /\ ~mine \/ h <= past
        /\ conts' = IF h <= past THEN [conts EXCEPT ![h] = None] ELSE conts
        /\ Answered(r)
     \/ /\ mine /\ h > past
        /\ conts' = [conts EXCEPT ![h] = None]
        /\ Taken(r, h)
  /\ UNCHANGED <<window, cache, stale, past>>

-----------------------------------------------------------------------------
(* Upstream calls.                                                         *)

\* A call fails; a listing goes on with the next upstream.
Degraded(r) ==
  IF Listing(r) THEN /\ Proceed(r, "next")
                     /\ cred' = [cred EXCEPT ![r] = 0] /\ up' = [up EXCEPT ![r] = None]
                     /\ Elsewhere /\ UNCHANGED <<todo, state, schema, listing, asks>>
                ELSE Answered(r)

\* get_secret_for_consumer, which may fail.
GetSecret(r) ==
  /\ At(r, "secret")
  /\ \/ Degraded(r)
     \/ /\ cred' = [cred EXCEPT ![r] = secret[up[r]]]
        /\ Proceed(r, IF Listing(r) THEN "fetch" ELSE "lookup")
        /\ Elsewhere /\ UNCHANGED <<todo, up, state, schema, listing, asks>>
  /\ UNCHANGED memory

\* _cached_schema: of the private context, else of the public one.
Cached(r, ctx) ==
  {e \in cache : e.up = up[r] /\ e.tool = Named[tool[r]] /\ e.ctx = ctx}
Found(r) == IF Cached(r, cred[r]) # {} THEN Cached(r, cred[r]) ELSE Cached(r, Public)

\* Arguments that the schema does not admit, or that cannot be mirrored in the
\* headers it asks for, end the call undispatched.
Inadmissible(r, found) == found # {} /\ Answered(r)

UseSchema(r, found) ==
  \/ Inadmissible(r, found)
  \/ /\ \E e \in found : schema' = [schema EXCEPT ![r] = e]
     /\ Proceed(r, "dispatch")
     /\ Elsewhere /\ UNCHANGED <<todo, up, cred, state, listing, asks>>

Lookup(r) ==
  /\ At(r, "lookup")
  /\ \/ UseSchema(r, Found(r) \ stale)
     \/ Found(r) \ stale = {} /\ Proceed(r, "fetch") /\ Elsewhere /\ UNCHANGED work
  /\ UNCHANGED memory

\* The pages of tools/list, with the tools that are valid, or a failure. The
\* context of a listing without tools makes no difference.
Fetch(r) ==
  /\ At(r, "fetch")
  /\ \/ Degraded(r)
     \/ /\ \E ctx \in {Public, cred[r]}, ts \in SUBSET {n \in Name : Home[n] = up[r]} :
             /\ ts = {} => ctx = Public
             /\ listing' = [listing EXCEPT ![r] = [ctx |-> ctx, tools |-> ts]]
        /\ Proceed(r, "install")
        /\ Elsewhere /\ UNCHANGED <<todo, up, cred, state, schema, asks>>
  /\ UNCHANGED memory

\* Mutant: older contexts of the upstream stay.
InstallAdds(r) ==
  /\ At(r, "install")
  /\ LET fresh == {[up |-> up[r], ctx |-> listing[r].ctx, tool |-> n, by |-> cred[r]]
                      : n \in listing[r].tools} IN
     /\ cache' = cache \cup fresh
     /\ stale' = stale \ fresh
  /\ listing' = [listing EXCEPT ![r] = NoListing]
  /\ Proceed(r, IF Listing(r) THEN "next" ELSE "again")
  /\ Elsewhere /\ UNCHANGED <<window, conts, past, todo, up, cred, state, schema, asks>>

\* All that was cached for the upstream gives way to the listing.
Install(r) ==
  /\ At(r, "install")
  /\ LET fresh == {[up |-> up[r], ctx |-> listing[r].ctx, tool |-> n, by |-> cred[r]]
                      : n \in listing[r].tools} IN
     /\ cache' = {e \in cache : e.up # up[r]} \cup fresh
     /\ stale' = {e \in stale : e.up # up[r]}
  /\ listing' = [listing EXCEPT ![r] = NoListing]
  /\ Proceed(r, IF Listing(r) THEN "next" ELSE "again")
  /\ Elsewhere /\ UNCHANGED <<window, conts, past, todo, up, cred, state, schema, asks>>

\* Another thread's listing may have come in between.
LookupAgain(r) ==
  /\ At(r, "again")
  /\ UseSchema(r, Found(r)) \/ (Found(r) = {} /\ Answered(r))
  /\ UNCHANGED memory

\* Mutant: as the terminal row, whose failure is overlooked.
AuditDispatchNonblocking(r) ==
  /\ At(r, "dispatch")
  /\ Audit(r, "DISPATCH") \/ UNCHANGED rows
  /\ Goto(r, "send")
  /\ Elsewhere /\ UNCHANGED <<memory, authority, work, sent, early>>

AuditDispatch(r) ==
  /\ At(r, "dispatch")
  /\ \/ Audit(r, "DISPATCH") /\ Goto(r, "send") /\ Elsewhere
        /\ UNCHANGED <<authority, work, sent, early>>
     \/ Answered(r)
  /\ UNCHANGED memory

\* Handles that calls under way may still ask for.
Promised == Cardinality({r \in Thread : asks[r]})

\* The answer does not decode, is an error or a complete result, ...
Ends(r) == Goto(r, "close") /\ UNCHANGED asks

\* ... or asks for input of a kind that the hub passes on.
AsksForInput(r) ==
  /\ issued + Promised < MaxHandle
  /\ asks' = [asks EXCEPT ![r] = TRUE] /\ Goto(r, "keep")

\* tools/call, with the state of the handle that was given.
Send(r) ==
  /\ At(r, "send")
  /\ sent' = [sent EXCEPT ![r] = @ + 1]
  /\ replays' = IF state[r] = 0 THEN replays ELSE [replays EXCEPT ![state[r]] = @ + 1]
  /\ Ends(r) \/ AsksForInput(r)
  /\ cred' = [cred EXCEPT ![r] = 0] /\ state' = [state EXCEPT ![r] = 0]
  /\ schema' = [schema EXCEPT ![r] = None]
  /\ UNCHANGED <<principals, upstreams, memory, issued, authority, todo, up, listing,
                 rows, owner, retired, early, used>>

\* _store_continuation: expired ones go, and the oldest if there are too many.
\* Without a state to file the call fails.
StoreContinuation(r) ==
  LET h == issued + 1
      record == [who |-> who[r], up |-> up[r], tool |-> tool[r]]
      live == {i \in Handle : conts[i] # None /\ i > past}
      oldest == IF Cardinality(live) < Kept THEN {}
                ELSE {i \in live : \A j \in live : i <= j} IN
  /\ At(r, "keep")
  /\ \/ /\ conts' = [i \in Handle |-> IF i = h THEN record
                                      ELSE IF i \in live \ oldest THEN conts[i] ELSE None]
        /\ issued' = h /\ owner' = [owner EXCEPT ![h] = record]
     \/ UNCHANGED <<conts, issued, owner>>
  /\ asks' = [asks EXCEPT ![r] = FALSE]
  /\ Proceed(r, "close")
  /\ UNCHANGED <<principals, upstreams, window, cache, stale, past, todo, up, cred, state,
                 schema, listing, replays, retired, used>>

\* The terminal row, whose failure is overlooked, and the answer.
Close(r) == At(r, "close") /\ Answered(r) /\ UNCHANGED memory

\* list_tools: the next upstream, or the answer.
NextUpstream(r) ==
  /\ At(r, "next")
  /\ \/ \E u \in todo[r] :
          /\ up' = [up EXCEPT ![r] = u] /\ todo' = [todo EXCEPT ![r] = @ \ {u}]
          /\ Proceed(r, "secret")
          /\ Elsewhere /\ UNCHANGED <<cred, state, schema, listing, asks>>
     \/ todo[r] = {} /\ Answered(r)
  /\ UNCHANGED memory

-----------------------------------------------------------------------------
(* Time and restarts.                                                      *)

Outside == UNCHANGED <<principals, upstreams, issued, pc, authority, work, rows, sent,
                       ghosts>>

WindowMoves(p) ==
  /\ window[p] > 0 /\ window' = [window EXCEPT ![p] = @ - 1]
  /\ Outside /\ UNCHANGED <<used, cache, stale, conts, past>>

CacheAges ==
  /\ Spend
  /\ stale' = cache
  /\ Outside /\ UNCHANGED <<window, cache, conts, past>>

HandleExpires ==
  /\ Spend
  /\ past < issued /\ past' = past + 1
  /\ Outside /\ UNCHANGED <<window, cache, stale, conts>>

\* The service is restarted: what is in memory, and every request, is gone.
Restart ==
  /\ Spend
  /\ window' = [p \in Principal |-> 0]
  /\ cache' = {} /\ stale' = {}
  /\ conts' = [h \in Handle |-> None] /\ past' = issued
  /\ pc' = [r \in Thread |-> "idle"]
  /\ who' = [r \in Thread |-> None] /\ gen' = [r \in Thread |-> 0]
  /\ granted' = [r \in Thread |-> {}]
  /\ tool' = [r \in Thread |-> None] /\ given' = [r \in Thread |-> 0]
  /\ todo' = [r \in Thread |-> {}] /\ up' = [r \in Thread |-> None]
  /\ cred' = [r \in Thread |-> 0] /\ state' = [r \in Thread |-> 0]
  /\ schema' = [r \in Thread |-> None] /\ listing' = [r \in Thread |-> NoListing]
  /\ asks' = [r \in Thread |-> FALSE]
  /\ rows' = [r \in Thread |-> {}] /\ sent' = [r \in Thread |-> 0]
  /\ early' = {}
  /\ UNCHANGED <<principals, upstreams, issued, replays, owner, retired>>

-----------------------------------------------------------------------------
Step(r) ==
  \/ Rate(r) \/ LocalDispatch(r) \/ RunLocal(r) \/ Route(r)
  \/ TakeContinuation(r) \/ GetSecret(r) \/ Lookup(r) \/ Fetch(r) \/ Install(r)
  \/ LookupAgain(r) \/ AuditDispatch(r) \/ Send(r)
  \/ StoreContinuation(r) \/ Close(r) \/ NextUpstream(r)

Next ==
  \/ \E r \in Thread :
       \/ Step(r)
       \/ \E p \in Principal, g \in 1 .. MaxToken :
            \/ ToolsList(r, p, g)
            \/ \E t \in Tool, h \in 0 .. issued : ToolsCall(r, p, g, t, h)
  \/ \E p \in Principal :
       \/ CreatePrincipal(p) \/ RotatePrincipal(p) \/ RevokePrincipal(p)
       \/ ReplaceScopes(p) \/ WindowMoves(p)
  \/ \E u \in Upstream : RegisterUpstream(u) \/ DisableUpstream(u) \/ RotateSecret(u)
  \/ CacheAges \/ HandleExpires \/ Restart

Spec == Init /\ [][Next]_vars

-----------------------------------------------------------------------------
(* Properties.                                                             *)

\* Every variable holds a value of its kind.
TypeOK ==
  /\ status \in [Principal -> {"NONE", "ACTIVE", "REVOKED"}]
  /\ token \in [Principal -> 0 .. MaxToken] /\ scopes \in [Principal -> SUBSET Tool]
  /\ registered \in [Upstream -> {"NONE", "ACTIVE", "DISABLED"}]
  /\ secret \in [Upstream -> Secret]
  /\ window \in [Principal -> 0 .. Window]
  /\ cache \subseteq Entry /\ stale \subseteq cache
  /\ conts \in [Handle -> Record \cup {None}]
  /\ issued \in 0 .. MaxHandle /\ past \in 0 .. issued
  /\ pc \in [Thread -> Steps]
  /\ who \in [Thread -> Principal \cup {None}] /\ gen \in [Thread -> 0 .. MaxToken]
  /\ granted \in [Thread -> SUBSET Tool]
  /\ tool \in [Thread -> Tool \cup {None}] /\ given \in [Thread -> 0 .. MaxHandle]
  /\ todo \in [Thread -> SUBSET Upstream] /\ up \in [Thread -> Upstream \cup {None}]
  /\ cred \in [Thread -> {0} \cup Secret] /\ state \in [Thread -> 0 .. MaxHandle]
  /\ schema \in [Thread -> Entry \cup {None}]
  /\ listing \in [Thread -> [ctx : Context, tools : SUBSET Name]]
  /\ asks \in [Thread -> BOOLEAN]
  /\ rows \in [Thread -> SUBSET {"DISPATCH"}] /\ sent \in [Thread -> Nat]
  /\ replays \in [Handle -> Nat] /\ owner \in [Handle -> Record \cup {None}]
  /\ retired \subseteq Principal \X (1 .. MaxToken) /\ early \subseteq Thread
  /\ used \in 0 .. Limit

\* A request runs a tool at most once, and only with its DISPATCH row in the
\* audit table, whatever fails.
DispatchesAreAudited ==
  \A r \in Thread : sent[r] <= 1 /\ (sent[r] = 1 => "DISPATCH" \in rows[r])

\* However many calls present a handle at once, the upstream is sent its state
\* at most once, in a call of the principal, to the tool, with the arguments it
\* was issued for.
ContinuationsAreSpentOnce ==
  /\ \A h \in Handle : replays[h] <= 1
  /\ \A r \in Thread :
       state[r] # 0 => owner[state[r]] = [who |-> who[r], up |-> up[r], tool |-> tool[r]]

\* A call is made under a schema that its own credential was shown, or that the
\* upstream calls public; after a rotation none of the old credential is left
\* beside those of the new one.
SchemasStayInContext ==
  /\ \A r \in Thread :
       schema[r] # None => schema[r].ctx = Public \/ schema[r].by = cred[r]
  /\ \A d, e \in cache : d.up = e.up => d.ctx = e.ctx /\ d.by = e.by

\* Unless its principal is changed while it is under way, a request has the
\* scopes of the row, by a token that has been neither revoked nor replaced:
\* a token once revoked is not revived by a rotation.
AuthorityIsCurrent ==
  \A r \in Thread :
    (pc[r] # "idle" /\ r \notin early)
      => /\ granted[r] = scopes[who[r]] /\ <<who[r], gen[r]>> \notin retired
         /\ pc[r] \in {"run", "send"} => tool[r] \in granted[r]
=============================================================================
