--------------------------------- MODULE Edge ---------------------------------
(***************************************************************************)
(* The optional Cloudflare edge (edge.py, edge_cli.py, edge_runtime.py).   *)
(* The commands of genos-edge change tunnels, DNS records and a SecretRef, *)
(* and at last the file binding.json, of which each holds the copy it read *)
(* at its beginning; nothing keeps two commands from running at once. The  *)
(* service genos-edge follows the file with a cloudflared process.         *)
(***************************************************************************)
EXTENDS Naturals, FiniteSets

CONSTANTS
  Caller,     \* commands that run at once
  Api,        \* SecretRefs of API tokens, each of an account
  Host,       \* hostnames, each of a zone
  MaxTunnel, MaxRecord, MaxSave,  \* bounds on what is created and saved
  None,
  Limit       \* bound on failures, kills and changes by others, together

ASSUME EdgeAssumption ==
  /\ IsFiniteSet(Caller)
  /\ None \notin Api \cup Host
  /\ MaxTunnel \in Nat /\ MaxRecord \in Nat /\ MaxSave \in Nat /\ Limit \in Nat

Tunnel == 1 .. MaxTunnel   \* 0 is none; the SecretRef of a tunnel's token,
                           \* cloudflare-tunnel-<id>, goes by the same number
Route == [host : Host \cup {None}, api : Api \cup {None}, tunnel : 0 .. MaxTunnel,
          secret : 0 .. MaxTunnel, dns : 0 .. MaxRecord]
NoRoute == [host |-> None, api |-> None, tunnel |-> 0, secret |-> 0, dns |-> 0]
Binding == [mode : {"LOCAL", "DOMAIN"},
            state : {"LOCAL_ONLY", "NEEDS_ACTION", "CONFIGURED", "DEGRADED", "READY",
                     "DISABLED"},
            route : Route, rollback : Route \cup {None}, stamp : 0 .. MaxSave]
LocalOnly == [mode |-> "LOCAL", state |-> "LOCAL_ONLY", route |-> NoRoute,
              rollback |-> None, stamp |-> 0]
Record == [id : 1 .. MaxRecord, to : 0 .. MaxTunnel, ours : BOOLEAN]
ASSUME RecordAssumption == None \notin Record

Steps == {"idle", "create", "ingress", "list", "dns", "token", "save", "preserve",
          "verify", "save verified", "save disabled",
          "undo ingress", "undo list", "undo dns", "save undone"}

VARIABLES
  binding,           \* binding.json
  secrets,           \* tunnels whose token is in a SecretRef
  ingress,           \* Cloudflare: of each tunnel, 0 before it is created
  record,            \* Cloudflare: the CNAME of each host
  nextRecord,
  pc, prev, route, made, put, restoring,  \* per caller: next step, locals
  seen, process,     \* genos-edge: the binding it read; cloudflared's signature
  lone,              \* calls that nobody has overlapped with
  astray,            \* calls have overlapped, or were killed or failed half-way
                     \* with nobody to undo it, since the last undisturbed one
  used               \* how much of Limit is used up

provider == <<ingress, record, nextRecord>>
locals == <<prev, route, made, put, restoring>>
runtime == <<seen, process>>
vars == <<binding, secrets, provider, pc, locals, runtime, lone, astray, used>>

Init ==
  /\ binding = LocalOnly
  /\ secrets = {}
  /\ ingress = [t \in Tunnel |-> 0]
  /\ record = [h \in Host |-> None] /\ nextRecord = 1
  /\ pc = [c \in Caller |-> "idle"]
  /\ prev = [c \in Caller |-> LocalOnly] /\ route = [c \in Caller |-> NoRoute]
  /\ made = [c \in Caller |-> FALSE] /\ put = [c \in Caller |-> 0]
  /\ restoring = [c \in Caller |-> FALSE]
  /\ seen = LocalOnly /\ process = None
  /\ lone = {} /\ astray = FALSE /\ used = 0

-----------------------------------------------------------------------------
(* Helpers.                                                                *)

Spend == used < Limit /\ used' = used + 1
At(c, step) == pc[c] = step
Goto(c, step) == pc' = [pc EXCEPT ![c] = step]
Busy == {c \in Caller : pc[c] # "idle"}
Created == {t \in Tunnel : ingress[t] # 0}

\* A command reads the binding; every one saves it at most once.
Begin(c, step) ==
  /\ At(c, "idle")
  /\ binding.stamp + Cardinality(Busy) < MaxSave
  /\ prev' = [prev EXCEPT ![c] = binding]
  /\ IF Busy = {} THEN lone' = {c} /\ UNCHANGED astray ELSE lone' = {} /\ astray' = TRUE
  /\ Goto(c, step)
  /\ UNCHANGED <<binding, secrets, provider, made, put, runtime, used>>

\* The command ends.
End(c) ==
  /\ Goto(c, "idle")
  /\ prev' = [prev EXCEPT ![c] = LocalOnly] /\ route' = [route EXCEPT ![c] = NoRoute]
  /\ made' = [made EXCEPT ![c] = FALSE] /\ put' = [put EXCEPT ![c] = 0]
  /\ restoring' = [restoring EXCEPT ![c] = FALSE]
  /\ lone' = lone \ {c}

Save(c, b) ==
  /\ binding' = [b EXCEPT !.stamp = binding.stamp + 1]
  /\ End(c)
  /\ UNCHANGED <<secrets, provider, runtime>>

\* What a step leaves alone that is local to its command, and that fails.
Locally == UNCHANGED <<binding, secrets, provider, runtime, lone, astray>>

-----------------------------------------------------------------------------
(* configure.                                                              *)

\* The tunnel is kept if the binding has one of the same API credential.
Configure(c, a, h) ==
  LET kept == IF binding.route.api = a THEN binding.route.tunnel ELSE 0 IN
  /\ route' = [route EXCEPT ![c] = [NoRoute EXCEPT !.host = h, !.api = a, !.tunnel = kept]]
  /\ Begin(c, IF kept = 0 THEN "create" ELSE "ingress")
  /\ UNCHANGED restoring

CreateTunnel(c) ==
  /\ At(c, "create")
  /\ \E t \in Tunnel \ Created :
       /\ \A u \in Tunnel \ Created : t <= u
       /\ ingress' = [ingress EXCEPT ![t] = None]
       /\ route' = [route EXCEPT ![c].tunnel = t]
  /\ made' = [made EXCEPT ![c] = TRUE]
  /\ Goto(c, "ingress")
  /\ UNCHANGED <<binding, secrets, record, nextRecord, prev, put, restoring, runtime, lone,
                 astray, used>>

\* configure_tunnel, for a new route and for one that is restored.
SetIngress(c, from, to) ==
  /\ At(c, from)
  /\ ingress' = [ingress EXCEPT ![route[c].tunnel] = route[c].host]
  /\ Goto(c, to)
  /\ UNCHANGED <<binding, secrets, record, nextRecord, locals, runtime, lone, astray, used>>

\* upsert_dns_cname: only a record with the id that is expected, or else with
\* this tunnel as its target and the mark of GenOS, is replaced.
Expected(c) ==
  IF At(c, "undo list") THEN route[c].dns
  ELSE IF prev[c].route.host = route[c].host THEN prev[c].route.dns ELSE 0

\* Mutant: whatever is there is replaced.
MayWriteAny(c) == Expected(c) = 0 \/ record[route[c].host] # None

MayWrite(c) ==
  LET r == record[route[c].host] IN
  IF r = None THEN Expected(c) = 0
  ELSE IF Expected(c) # 0 THEN r.id = Expected(c)
  ELSE r.ours /\ r.to = route[c].tunnel

ListRecords(c, from, to) ==
  /\ At(c, from)
  /\ MayWrite(c)
  /\ put' = [put EXCEPT ![c] = IF record[route[c].host] = None THEN 0
                               ELSE record[route[c].host].id]
  /\ Goto(c, to)
  /\ Locally /\ UNCHANGED <<prev, route, made, restoring, used>>

\* The provider takes a PUT of an id that is there, a POST of a name that is not.
Writable(c) ==
  LET r == record[route[c].host] IN
  IF put[c] = 0 THEN r = None /\ nextRecord <= MaxRecord ELSE r # None /\ r.id = put[c]

WriteRecord(c, from, to) ==
  LET id == IF put[c] = 0 THEN nextRecord ELSE put[c] IN
  /\ At(c, from)
  /\ Writable(c)
  /\ record' = [record EXCEPT ![route[c].host] =
                  [id |-> id, to |-> route[c].tunnel, ours |-> TRUE]]
  /\ nextRecord' = IF put[c] = 0 THEN nextRecord + 1 ELSE nextRecord
  /\ route' = [route EXCEPT ![c].dns = id]
  /\ Goto(c, to)
  /\ UNCHANGED <<binding, secrets, ingress, prev, made, put, restoring, runtime, lone, astray,
                 used>>

\* tunnel_token and _persist_tunnel_token: the SecretRef of the binding gets a
\* revision, or one is added, whose name must be new.
KnownSecret(c) ==
  IF prev[c].route.tunnel = route[c].tunnel THEN prev[c].route.secret ELSE 0
PersistToken(c) ==
  LET t == route[c].tunnel IN
  /\ At(c, "token")
  /\ KnownSecret(c) # 0 \/ t \notin secrets
  /\ secrets' = secrets \cup {t}
  /\ route' = [route EXCEPT ![c].secret = t]
  /\ Goto(c, "save")
  /\ UNCHANGED <<binding, provider, prev, made, put, restoring, runtime, lone, astray, used>>

\* _rollback_projection of a binding in DOMAIN mode.
SaveConfigured(c) ==
  /\ At(c, "save")
  /\ Save(c, [mode |-> "DOMAIN", state |-> "CONFIGURED", route |-> route[c],
              rollback |-> IF prev[c].mode = "DOMAIN" THEN prev[c].route ELSE None,
              stamp |-> 0])
  /\ astray' = IF c \in lone THEN FALSE ELSE astray
  /\ UNCHANGED used

\* Mutant: a route that was only reconfigured is not restored.
ConfigureFailsForward(c) ==
  /\ pc[c] \in {"ingress", "list", "dns", "token"}
  /\ \/ /\ prev[c].mode = "DOMAIN" /\ made[c]
        /\ route' = [route EXCEPT ![c] = prev[c].route]
        /\ restoring' = [restoring EXCEPT ![c] = TRUE]
        /\ Goto(c, "undo ingress")
        /\ UNCHANGED <<prev, made, put, lone>>
     \/ ~made[c] /\ End(c)
     \/ /\ prev[c].mode = "LOCAL" /\ made[c]
        /\ Goto(c, "preserve") /\ UNCHANGED <<locals, lone>>
  /\ UNCHANGED <<binding, secrets, provider, runtime, astray>>

\* A call to the provider fails or is refused: the previous route is restored;
\* without one, a tunnel that was created is put on record.
ConfigureFails(c) ==
  /\ pc[c] \in {"create", "ingress", "list", "dns", "token"}
  /\ \/ /\ prev[c].mode = "DOMAIN" /\ ~At(c, "create")
        /\ route' = [route EXCEPT ![c] = prev[c].route]
        /\ restoring' = [restoring EXCEPT ![c] = TRUE]
        /\ Goto(c, "undo ingress")
        /\ UNCHANGED <<prev, made, put, lone>>
     \/ (At(c, "create") \/ (prev[c].mode = "LOCAL" /\ ~made[c])) /\ End(c)
     \/ /\ prev[c].mode = "LOCAL" /\ made[c]
        /\ Goto(c, "preserve") /\ UNCHANGED <<locals, lone>>
  /\ UNCHANGED <<binding, secrets, provider, runtime, astray>>

SavePreserved(c) ==
  /\ At(c, "preserve")
  /\ Save(c, [LocalOnly EXCEPT !.state = "NEEDS_ACTION", !.route.api = route[c].api,
                               !.route.tunnel = route[c].tunnel])
  /\ UNCHANGED <<astray, used>>

\* The provider refuses, or cannot do what it is asked for.
Refused(c) ==
  \/ At(c, "list") /\ ~MayWrite(c)
  \/ At(c, "dns") /\ ~Writable(c)
  \/ At(c, "token") /\ KnownSecret(c) = 0 /\ route[c].tunnel \in secrets
  \/ At(c, "undo list") /\ ~MayWrite(c)
  \/ At(c, "undo dns") /\ ~Writable(c)

-----------------------------------------------------------------------------
(* rollback, and the restoration of a configure that failed.               *)

Rollback(c) ==
  /\ binding.rollback # None
  /\ route' = [route EXCEPT ![c] = binding.rollback]
  /\ Begin(c, "undo ingress")
  /\ UNCHANGED restoring

\* A restoration leaves the binding as it was; a rollback gets CONFIGURED.
SaveUndone(c) ==
  /\ At(c, "save undone")
  /\ Save(c, IF restoring[c] THEN prev[c]
             ELSE [mode |-> "DOMAIN", state |-> "CONFIGURED", route |-> route[c],
                   rollback |-> None, stamp |-> 0])
  /\ astray' = IF c \in lone /\ ~restoring[c] THEN FALSE ELSE astray
  /\ UNCHANGED used

\* RECONFIGURE_ROLLBACK_NEEDS_ACTION is noted; a rollback leaves no note.
UndoFails(c) ==
  /\ pc[c] \in {"undo ingress", "undo list", "undo dns"}
  /\ astray' = TRUE
  /\ IF restoring[c] THEN Save(c, prev[c])
     ELSE End(c) /\ UNCHANGED <<binding, secrets, provider, runtime>>

-----------------------------------------------------------------------------
(* verify and disable.                                                     *)

\* A tunnel that is not healthy makes the binding DEGRADED, a target that
\* cannot be probed leaves it alone.
Verify(c) ==
  /\ binding.mode = "DOMAIN"
  /\ Begin(c, "verify")
  /\ UNCHANGED <<route, restoring>>

Probe(c) ==
  /\ At(c, "verify")
  /\ \/ \E s \in {"READY", "DEGRADED"} :
          /\ prev' = [prev EXCEPT ![c].state = s]
          /\ Goto(c, "save verified")
          /\ UNCHANGED <<route, made, put, restoring, lone>>
     \/ End(c)
  /\ UNCHANGED <<binding, secrets, provider, runtime, astray, used>>

SaveVerified(c) == At(c, "save verified") /\ Save(c, prev[c]) /\ UNCHANGED <<astray, used>>

Disable(c) ==
  /\ Begin(c, "save disabled")
  /\ UNCHANGED <<route, restoring>>

\* Mutant: the mode stays.
SaveDisabledKeepsMode(c) ==
  /\ At(c, "save disabled")
  /\ Save(c, [prev[c] EXCEPT !.state = "DISABLED"])
  /\ UNCHANGED <<astray, used>>

SaveDisabled(c) ==
  /\ At(c, "save disabled")
  /\ Save(c, [prev[c] EXCEPT !.state = "DISABLED", !.mode = "LOCAL"])
  /\ UNCHANGED <<astray, used>>

-----------------------------------------------------------------------------
(* genos-edge.                                                             *)

ShouldRun(b) ==
  /\ b.mode = "DOMAIN" /\ b.state \in {"CONFIGURED", "READY", "DEGRADED"}
  /\ b.route.secret # 0
Signature(b) == [stamp |-> b.stamp, tunnel |-> b.route.secret]

Look ==
  /\ seen # binding
  /\ seen' = binding
  /\ UNCHANGED <<binding, secrets, provider, pc, locals, process, lone, astray, used>>

\* Mutant: a process that is alive is left alone.
FollowOnce ==
  /\ ShouldRun(seen) => process = None
  /\ process # (IF ShouldRun(seen) THEN Signature(seen) ELSE None)
  /\ process' = IF ShouldRun(seen) THEN Signature(seen) ELSE None
  /\ UNCHANGED <<binding, secrets, provider, pc, locals, seen, lone, astray, used>>

\* A process of another signature is stopped; one is started if there is a token.
Wanted(b) == IF ShouldRun(b) /\ b.route.secret \in secrets THEN Signature(b) ELSE None
Follow ==
  /\ process # Wanted(seen)
  /\ process' = Wanted(seen)
  /\ UNCHANGED <<binding, secrets, provider, pc, locals, seen, lone, astray, used>>

-----------------------------------------------------------------------------
(* The outside.                                                            *)

\* The process ends, or genos-edge is restarted and takes it along.
ProcessDies ==
  /\ process # None
  /\ Spend
  /\ process' = None
  /\ UNCHANGED <<binding, secrets, provider, pc, locals, seen, lone, astray>>

\* Somebody else makes a CNAME of the name, or removes the one that is there.
ForeignRecord(h) ==
  /\ Spend
  /\ \/ /\ record[h] = None /\ nextRecord <= MaxRecord
        /\ record' = [record EXCEPT ![h] = [id |-> nextRecord, to |-> 0, ours |-> FALSE]]
        /\ nextRecord' = nextRecord + 1
        /\ UNCHANGED <<lone, astray>>
     \/ /\ record[h] # None
        /\ record' = [record EXCEPT ![h] = None]
        /\ lone' = {} /\ astray' = TRUE
        /\ UNCHANGED nextRecord
  /\ UNCHANGED <<binding, secrets, ingress, pc, locals, runtime>>

Kill(c) ==
  /\ c \in Busy
  /\ Spend
  /\ astray' = (astray \/ pc[c] \notin {"verify", "save verified", "save disabled"})
  /\ End(c)
  /\ UNCHANGED <<binding, secrets, provider, runtime>>

-----------------------------------------------------------------------------
Step(c) ==
  \/ CreateTunnel(c) \/ SetIngress(c, "ingress", "list")
  \/ ListRecords(c, "list", "dns") \/ WriteRecord(c, "dns", "token")
  \/ PersistToken(c) \/ SaveConfigured(c) \/ SavePreserved(c)
  \/ SetIngress(c, "undo ingress", "undo list")
  \/ ListRecords(c, "undo list", "undo dns") \/ WriteRecord(c, "undo dns", "save undone")
  \/ SaveUndone(c) \/ Probe(c) \/ SaveVerified(c) \/ SaveDisabled(c)

Fail(c) ==
  /\ ConfigureFails(c) \/ UndoFails(c)
  /\ IF Refused(c) THEN UNCHANGED used ELSE Spend

Next ==
  \/ \E c \in Caller :
       \/ \E a \in Api, h \in Host : Configure(c, a, h)
       \/ Verify(c) \/ Disable(c) \/ Rollback(c) \/ Step(c) \/ Fail(c) \/ Kill(c)
  \/ Look \/ Follow \/ ProcessDies
  \/ \E h \in Host : ForeignRecord(h)

Spec == Init /\ [][Next]_vars

\* The loop of genos-edge goes on. Nobody is obliged to run a command.
FairSpec == Spec /\ WF_vars(Look) /\ WF_vars(Follow)

-----------------------------------------------------------------------------
(* Properties.                                                             *)

\* Every variable holds a value of its kind, and the binding is one that its
\* readers know: a mode that fits the state, a token's SecretRef in DOMAIN mode.
TypeOK ==
  /\ binding \in Binding
  /\ binding.mode = "DOMAIN" <=> binding.state \in {"CONFIGURED", "DEGRADED", "READY"}
  /\ binding.mode = "DOMAIN" => binding.route.secret \in Tunnel
  /\ secrets \subseteq Tunnel
  /\ ingress \in [Tunnel -> {0, None} \cup Host]
  /\ record \in [Host -> Record \cup {None}] /\ nextRecord \in 1 .. MaxRecord + 1
  /\ pc \in [Caller -> Steps] /\ prev \in [Caller -> Binding]
  /\ route \in [Caller -> Route] /\ made \in [Caller -> BOOLEAN]
  /\ put \in [Caller -> 0 .. MaxRecord] /\ restoring \in [Caller -> BOOLEAN]
  /\ seen \in Binding
  /\ process \in [stamp : 0 .. MaxSave, tunnel : Tunnel] \cup {None}
  /\ lone \subseteq Caller /\ astray \in BOOLEAN /\ used \in 0 .. Limit

\* Between commands the provider has the route that the binding names, with
\* the token of its tunnel at hand: after a configure, after one that failed
\* and was undone, and after a rollback, unless commands have overlapped or
\* one was killed or failed to undo.
RouteIsTheBinding ==
  LET r == binding.route IN
  (Busy = {} /\ ~astray /\ binding.mode = "DOMAIN")
    => /\ ingress[r.tunnel] = r.host
       /\ record[r.host] = [id |-> r.dns, to |-> r.tunnel, ours |-> TRUE]
       /\ r.secret = r.tunnel /\ r.secret \in secrets

\* A CNAME that GenOS did not make is never overwritten, whatever happens
\* between the listing and the write.
ForeignRecordsAreKept ==
  [][\A h \in Host :
       (record[h] # None /\ ~record[h].ours) => record'[h] \in {record[h], None}]_vars

\* When changes cease, the tunnel that runs is the one of the binding, with the
\* token of the last save, and none runs when the edge is disabled.
TunnelFollowsBinding == <>[](process = Wanted(binding))
=============================================================================
