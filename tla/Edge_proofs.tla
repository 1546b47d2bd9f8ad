------------------------------ MODULE Edge_proofs ------------------------------
(***************************************************************************)
(* Proofs about Edge, for any number of commands, credentials, hosts,      *)
(* failures and kills: a binding is one that its readers know, records of  *)
(* others are never overwritten, and between commands the provider has the *)
(* route of the binding unless something went wrong that nobody undid.     *)
(***************************************************************************)
EXTENDS Edge, FiniteSetTheorems, TLAPS

Configuring == {"create", "ingress", "list", "dns", "token", "save"}
Undoing == {"undo ingress", "undo list", "undo dns", "save undone"}
\* The steps of calls that have not touched the provider's route.
Quiet == {"idle", "create", "verify", "save verified", "save disabled"}

WorldTyped ==
  /\ binding \in Binding
  /\ secrets \subseteq Tunnel
  /\ ingress \in [Tunnel -> {0, None} \cup Host]
  /\ record \in [Host -> Record \cup {None}] /\ nextRecord \in 1 .. MaxRecord + 1
CallsTyped ==
  /\ pc \in [Caller -> Steps] /\ prev \in [Caller -> Binding]
  /\ route \in [Caller -> Route] /\ made \in [Caller -> BOOLEAN]
  /\ put \in [Caller -> 0 .. MaxRecord] /\ restoring \in [Caller -> BOOLEAN]
RestTyped ==
  /\ seen \in Binding
  /\ process \in [stamp : 0 .. MaxSave, tunnel : Tunnel] \cup {None}
  /\ lone \subseteq Caller /\ astray \in BOOLEAN /\ used \in 0 .. Limit
Typed == WorldTyped /\ CallsTyped /\ RestTyped

\* A route that can be served, if S are the tunnels whose token is stored, and
\* a binding whose routes can be.
Whole(r, S) ==
  /\ r \in Route /\ r.host \in Host /\ r.api \in Api
  /\ r.tunnel \in S /\ r.secret = r.tunnel /\ r.dns # 0
Good(b, S) ==
  /\ b \in Binding
  /\ b.mode = "DOMAIN" <=> b.state \in {"CONFIGURED", "DEGRADED", "READY"}
  /\ b.mode = "DOMAIN" => Whole(b.route, S)
  /\ b.rollback # None => Whole(b.rollback, S)

\* An id that a record has only if GenOS made it: R are the records, and ids
\* from n on are free.
Ours(id, R, n) ==
  /\ id < n
  /\ \A h \in Host : (R[h] # None /\ R[h].id = id) => R[h].ours
Known(b, R, n) ==
  /\ Ours(b.route.dns, R, n)
  /\ b.rollback # None => Ours(b.rollback.dns, R, n)
Numbered(R, n) ==
  /\ \A h \in Host : R[h] # None => R[h].id < n
  /\ \A g, h \in Host : (R[g] # None /\ R[h] # None /\ R[g].id = R[h].id) => g = h

\* What a command holds at each of its steps.
Sound(c) ==
  /\ Good(prev[c], secrets)
  /\ pc[c] \in Configuring \cup {"preserve"} => route[c].host \in Host /\ route[c].api \in Api
  /\ pc[c] \in {"ingress", "list", "dns", "token", "save", "preserve"}
       => route[c].tunnel \in Tunnel
  /\ pc[c] \in {"token", "save"} => route[c].dns # 0
  /\ pc[c] \in {"save"} \cup Undoing => Whole(route[c], secrets)
  /\ pc[c] = "undo dns" => put[c] = route[c].dns
  /\ restoring[c] => /\ pc[c] \in Undoing /\ prev[c].mode = "DOMAIN"
                     /\ route[c] = prev[c].route
  /\ pc[c] \in {"verify", "save verified"} => prev[c].mode = "DOMAIN"
  /\ made[c] => pc[c] \notin {"idle", "create"}
Ids(c) ==
  /\ Known(prev[c], record, nextRecord)
  /\ Ours(route[c].dns, record, nextRecord) /\ Ours(put[c], record, nextRecord)

\* Each command saves once at most.
Room == binding.stamp + Cardinality(Busy) <= MaxSave

\* Who is alone, and whose copy of the binding is the binding.
Alone ==
  /\ \A c \in lone : pc[c] # "idle" /\ \A d \in Caller : pc[d] # "idle" => d = c
  /\ ~astray => \A c \in Caller : pc[c] # "idle" => c \in lone
  /\ \A c \in lone : prev[c].mode = binding.mode /\ prev[c].route = binding.route

\* What a lone command has done at the provider.
Achieved(c) ==
  /\ pc[c] \in {"list", "dns", "token", "save", "undo list", "undo dns", "save undone"}
       => ingress[route[c].tunnel] = route[c].host
  /\ pc[c] \in {"token", "save", "save undone"}
       => record[route[c].host] = [id |-> route[c].dns, to |-> route[c].tunnel, ours |-> TRUE]
Matches(r) ==
  /\ ingress[r.tunnel] = r.host
  /\ record[r.host] = [id |-> r.dns, to |-> r.tunnel, ours |-> TRUE]
Settled ==
  (~astray /\ binding.mode = "DOMAIN" /\ \A c \in Caller : pc[c] \in Quiet)
    => Matches(binding.route)

Names == Good(binding, secrets) /\ Known(binding, record, nextRecord)
         /\ Numbered(record, nextRecord)
Base == Typed /\ Names /\ (\A c \in Caller : Sound(c) /\ Ids(c)) /\ Room
Routes == Alone /\ (\A c \in lone : Achieved(c)) /\ Settled
IInv == Base /\ Routes

\* What a step of c leaves alone, and what no step takes back.
Still(d) ==
  /\ pc'[d] = pc[d] /\ prev'[d] = prev[d] /\ route'[d] = route[d]
  /\ made'[d] = made[d] /\ put'[d] = put[d] /\ restoring'[d] = restoring[d]
Aside(c) == \A d \in Caller \ {c} : Still(d)
\* Records change only into none, into one of GenOS, or into one with a new id.
Grows ==
  /\ secrets \subseteq secrets'
  /\ nextRecord <= nextRecord'
  /\ \A h \in Host : \/ record'[h] \in {record[h], None}
                     \/ record'[h].ours \/ record'[h].id >= nextRecord

Begins(c) ==
  \/ \E a \in Api, h \in Host : Configure(c, a, h)
  \/ Verify(c) \/ Disable(c) \/ Rollback(c)
Acts(c) == Begins(c) \/ Step(c) \/ ConfigureFails(c) \/ UndoFails(c) \/ Kill(c)

-----------------------------------------------------------------------------
(* Types.                                                                  *)

LEMMA TypeParts == Typed /\ Names => TypeOK
  BY DEF Typed, Names, Good, Whole, TypeOK, WorldTyped, CallsTyped, RestTyped, Route

LEMMA Constants ==
  /\ LocalOnly \in Binding /\ NoRoute \in Route /\ "idle" \in Steps
  /\ Undoing \subseteq Steps /\ Configuring \subseteq Steps
  BY EdgeAssumption DEF LocalOnly, NoRoute, Binding, Route, Steps, Undoing, Configuring

LEMMA Bounds ==
  /\ 0 \in 0 .. MaxRecord
  /\ \A n \in 1 .. MaxRecord : n \in 0 .. MaxRecord /\ n # 0 /\ n \in Nat
  /\ \A n \in 1 .. MaxRecord, m \in 1 .. MaxRecord + 1 : n < m => n # m
  /\ \A t \in Tunnel : t \in 0 .. MaxTunnel /\ t # 0
  BY EdgeAssumption DEF Tunnel

\* The id that a write uses, of a record that is replaced or a new one.
LEMMA IdRange ==
  ASSUME NEW p \in 0 .. MaxRecord, NEW n \in 1 .. MaxRecord + 1, p = 0 => n <= MaxRecord,
         p # 0 => p < n
  PROVE  LET id == IF p = 0 THEN n ELSE p
             next == IF p = 0 THEN n + 1 ELSE n
         IN  /\ id \in 1 .. MaxRecord /\ next \in 1 .. MaxRecord + 1
             /\ id < next /\ n <= next /\ \A m \in Nat : m < n => m < next
  BY EdgeAssumption

LEMMA SpendTypes ==
  ASSUME used \in 0 .. Limit, Spend
  PROVE  used' \in 0 .. Limit
  BY EdgeAssumption DEF Spend

LEMMA EndTypes ==
  ASSUME CallsTyped, NEW c \in Caller, End(c)
  PROVE  CallsTyped' /\ Aside(c)
  <1> USE DEF CallsTyped, End, Goto
  <1>1. pc' \in [Caller -> Steps] /\ prev' \in [Caller -> Binding]
    BY Constants
  <1>2. route' \in [Caller -> Route] /\ put' \in [Caller -> 0 .. MaxRecord]
    BY Constants, EdgeAssumption
  <1>3. made' \in [Caller -> BOOLEAN] /\ restoring' \in [Caller -> BOOLEAN]
    OBVIOUS
  <1>4. Aside(c)
    BY DEF Aside, Still
  <1>5. QED
    BY <1>1, <1>2, <1>3, <1>4

LEMMA EndResets ==
  ASSUME CallsTyped, NEW c \in Caller, End(c)
  PROVE  /\ pc'[c] = "idle" /\ prev'[c] = LocalOnly /\ route'[c] = NoRoute
         /\ put'[c] = 0 /\ restoring'[c] = FALSE /\ made'[c] = FALSE /\ lone' = lone \ {c}
  BY DEF CallsTyped, End, Goto

LEMMA CardBusy ==
  /\ IsFiniteSet(Busy) /\ Cardinality(Busy) \in Nat
  /\ \A c \in Busy : Cardinality(Busy \ {c}) = Cardinality(Busy) - 1 /\ Cardinality(Busy) > 0
  /\ \A c \in Caller \ Busy : Cardinality(Busy \cup {c}) = Cardinality(Busy) + 1
  <1>1. IsFiniteSet(Busy)
    BY EdgeAssumption, FS_Subset DEF Busy
  <1>2. Cardinality(Busy) \in Nat
    BY <1>1, FS_CardinalityType
  <1>3. ASSUME NEW c \in Busy
        PROVE  Cardinality(Busy \ {c}) = Cardinality(Busy) - 1 /\ Cardinality(Busy) > 0
    <2>1. Cardinality(Busy \ {c}) = Cardinality(Busy) - 1
      BY <1>1, <1>3, FS_RemoveElement
    <2>2. Cardinality(Busy) # 0
      BY <1>1, <1>3, FS_EmptySet
    <2>3. QED
      BY <1>2, <2>1, <2>2
  <1>4. ASSUME NEW c \in Caller \ Busy
        PROVE  Cardinality(Busy \cup {c}) = Cardinality(Busy) + 1
    BY <1>1, <1>4, FS_AddElement
  <1>5. QED
    BY <1>1, <1>2, <1>3, <1>4

-----------------------------------------------------------------------------
(* What a step leaves true of routes, ids and other commands.              *)

LEMMA GoodMore ==
  ASSUME NEW b, NEW S, NEW T, S \subseteq T, Good(b, S)
  PROVE  Good(b, T)
  BY DEF Good, Whole

LEMMA LocalIsGood == \A S : Good(LocalOnly, S)
  BY Constants, EdgeAssumption DEF Good, LocalOnly

\* The counter of saves is no part of what makes a binding good.
LEMMA Stamped ==
  ASSUME NEW S, NEW R, NEW n, NEW b, Good(b, S), Known(b, R, n), NEW m \in 0 .. MaxSave
  PROVE  Good([b EXCEPT !.stamp = m], S) /\ Known([b EXCEPT !.stamp = m], R, n)
  <1> DEFINE e == [b EXCEPT !.stamp = m]
  <1>1. /\ e \in Binding /\ e.mode = b.mode /\ e.state = b.state
        /\ e.route = b.route /\ e.rollback = b.rollback
    BY DEF Good, Binding
  <1> HIDE DEF e
  <1>2. Good(e, S) /\ Known(e, R, n)
    BY <1>1 DEF Good, Known
  <1>3. QED
    BY <1>2 DEF e

LEMMA OursKept ==
  ASSUME WorldTyped, WorldTyped', Grows, NEW id \in 0 .. MaxRecord,
         Ours(id, record, nextRecord)
  PROVE  Ours(id, record', nextRecord')
  <1>1. id < nextRecord'
    BY EdgeAssumption DEF WorldTyped, Grows, Ours
  <1>2. ASSUME NEW h \in Host, record'[h] # None, record'[h].id = id
        PROVE  record'[h].ours
    <2>1. id < nextRecord /\ nextRecord \in Nat /\ id \in Nat
      BY EdgeAssumption DEF Ours, WorldTyped
    <2>2. record'[h] = record[h] \/ record'[h].ours
      BY <1>2, <2>1 DEF Grows
    <2>3. QED
      BY <1>2, <2>2 DEF Ours
  <1>3. QED
    BY <1>1, <1>2 DEF Ours

LEMMA KnownKept ==
  ASSUME WorldTyped, WorldTyped', Grows, NEW b, b \in Binding, Known(b, record, nextRecord)
  PROVE  Known(b, record', nextRecord')
  <1>1. b.route.dns \in 0 .. MaxRecord /\ (b.rollback # None => b.rollback.dns \in 0 .. MaxRecord)
    BY DEF Binding, Route
  <1>2. QED
    BY <1>1, OursKept DEF Known

LEMMA ZeroIsOurs ==
  ASSUME WorldTyped
  PROVE  Ours(0, record, nextRecord) /\ Known(LocalOnly, record, nextRecord)
  <1>1. ASSUME NEW h \in Host, record[h] # None PROVE record[h].id # 0
    BY <1>1, EdgeAssumption DEF WorldTyped, Record
  <1>2. 0 < nextRecord
    BY EdgeAssumption DEF WorldTyped
  <1>3. Ours(0, record, nextRecord)
    BY <1>1, <1>2 DEF Ours
  <1>4. QED
    BY <1>3 DEF Known, LocalOnly, NoRoute

LEMMA OthersKeep ==
  ASSUME WorldTyped, WorldTyped', CallsTyped, Grows, NEW d \in Caller, Sound(d), Ids(d), Still(d)
  PROVE  Sound(d)' /\ Ids(d)'
  <1>1. Good(prev[d], secrets')
    BY GoodMore DEF Grows, Sound
  <1>2. \A r : Whole(r, secrets) => Whole(r, secrets')
    BY DEF Grows, Whole
  <1>3. Sound(d)'
    <2> USE DEF Sound, Still
    <2>1. Good(prev'[d], secrets')
      BY <1>1
    <2>2. /\ pc'[d] \in Configuring \cup {"preserve"}
               => route'[d].host \in Host /\ route'[d].api \in Api
          /\ pc'[d] \in {"ingress", "list", "dns", "token", "save", "preserve"}
               => route'[d].tunnel \in Tunnel
          /\ pc'[d] \in {"token", "save"} => route'[d].dns # 0
      OBVIOUS
    <2>3. pc'[d] \in {"save"} \cup Undoing => Whole(route'[d], secrets')
      BY <1>2
    <2>4. /\ pc'[d] = "undo dns" => put'[d] = route'[d].dns
          /\ restoring'[d] => /\ pc'[d] \in Undoing /\ prev'[d].mode = "DOMAIN"
                              /\ route'[d] = prev'[d].route
          /\ pc'[d] \in {"verify", "save verified"} => prev'[d].mode = "DOMAIN"
          /\ made'[d] => pc'[d] \notin {"idle", "create"}
      OBVIOUS
    <2>5. QED
      BY <2>1, <2>2, <2>3, <2>4
  <1>4. Known(prev[d], record', nextRecord')
    BY KnownKept DEF CallsTyped, Ids
  <1>5. route[d].dns \in 0 .. MaxRecord /\ put[d] \in 0 .. MaxRecord
    BY DEF CallsTyped, Route
  <1>6. Ours(route[d].dns, record', nextRecord') /\ Ours(put[d], record', nextRecord')
    BY <1>5, OursKept DEF Ids
  <1>7. Ids(d)'
    BY <1>4, <1>6 DEF Ids, Still
  <1>8. QED
    BY <1>3, <1>7

\* The provider is as it was.
LEMMA SameProvider ==
  ASSUME WorldTyped, secrets' = secrets, UNCHANGED provider
  PROVE  Grows
  BY EdgeAssumption DEF provider, Grows, WorldTyped

LEMMA SameRecords ==
  ASSUME WorldTyped, secrets' = secrets, record' = record, nextRecord' = nextRecord
  PROVE  Grows
  BY EdgeAssumption DEF Grows, WorldTyped

\* Nobody but c is at another step, and c goes on.
LEMMA InBase ==
  ASSUME Base, NEW c \in Caller, pc[c] # "idle", pc'[c] # "idle", binding' = binding,
         Typed', Aside(c), Grows, Numbered(record', nextRecord'), Sound(c)', Ids(c)'
  PROVE  Base'
  <1>1. \A d \in Caller : Sound(d)' /\ Ids(d)'
    <2> TAKE d \in Caller
    <2>1. CASE d = c
      BY <2>1
    <2>2. CASE d # c
      BY <2>2, OthersKeep DEF Base, Typed, Aside
    <2>3. QED
      BY <2>1, <2>2
  <1>2. Names'
    <2>1. Good(binding, secrets')
      BY GoodMore DEF Base, Names, Grows
    <2>2. Known(binding, record', nextRecord')
      BY KnownKept DEF Base, Names, Typed, WorldTyped
    <2>3. QED
      BY <2>1, <2>2 DEF Names
  <1>3. Busy' = Busy
    BY DEF Aside, Still, Busy
  <1>4. Room'
    BY <1>3 DEF Base, Room
  <1>5. QED
    BY <1>1, <1>2, <1>4 DEF Base

LEMMA EndBusy ==
  ASSUME CallsTyped, NEW c \in Caller, End(c)
  PROVE  Busy' = Busy \ {c}
  BY EndTypes, EndResets DEF Busy, Aside, Still

\* The command has ended, and with it what it held.
LEMMA EndCalls ==
  ASSUME Base, NEW c \in Caller, End(c), secrets' = secrets, UNCHANGED provider,
         binding' \in Binding
  PROVE  /\ CallsTyped' /\ WorldTyped' /\ Grows
         /\ \A d \in Caller : Sound(d)' /\ Ids(d)'
  <1>1. WorldTyped' /\ Grows /\ CallsTyped' /\ Aside(c)
    BY EndTypes, SameProvider DEF Base, Typed, WorldTyped, provider
  <1>2. Sound(c)'
    <2>1. Good(prev'[c], secrets')
      BY EndResets, LocalIsGood DEF Base, Typed
    <2>2. pc'[c] = "idle" /\ restoring'[c] = FALSE /\ made'[c] = FALSE
      BY EndResets DEF Base, Typed
    <2>3. QED
      BY <2>1, <2>2 DEF Sound, Configuring, Undoing
  <1>3. Ids(c)'
    <2>1. Ours(0, record', nextRecord') /\ Known(LocalOnly, record', nextRecord')
      BY <1>1, ZeroIsOurs DEF Base, Typed, provider
    <2>2. prev'[c] = LocalOnly /\ route'[c] = NoRoute /\ put'[c] = 0
      BY EndResets DEF Base, Typed
    <2>3. NoRoute.dns = 0
      BY DEF NoRoute
    <2>4. QED
      BY <2>1, <2>2, <2>3 DEF Ids
  <1>4. \A d \in Caller : Sound(d)' /\ Ids(d)'
    <2> TAKE d \in Caller
    <2>1. CASE d = c
      BY <2>1, <1>2, <1>3
    <2>2. CASE d # c
      BY <2>2, <1>1, OthersKeep DEF Base, Typed, Aside
    <2>3. QED
      BY <2>1, <2>2
  <1>5. QED
    BY <1>1, <1>4

LEMMA RestTypes ==
  ASSUME RestTyped, lone' \subseteq lone, astray' \in BOOLEAN, used' \in 0 .. Limit,
         UNCHANGED runtime
  PROVE  RestTyped'
  BY DEF RestTyped, runtime

LEMMA EndBase ==
  ASSUME Base, NEW c \in Caller, pc[c] # "idle", End(c), astray' \in BOOLEAN, used' \in 0 .. Limit,
         UNCHANGED <<binding, secrets, provider, runtime>>
  PROVE  Base'
  <1>1. /\ CallsTyped' /\ WorldTyped' /\ RestTyped'
        /\ \A d \in Caller : Sound(d)' /\ Ids(d)'
    BY EndCalls, RestTypes DEF Base, Typed, WorldTyped, End
  <1>2. Names'
    BY DEF Base, Names, provider
  <1>3. Room'
    <2>1. Busy' = Busy \ {c} /\ c \in Busy
      BY EndBusy DEF Base, Typed, Busy
    <2>2. Cardinality(Busy') = Cardinality(Busy) - 1
      BY <2>1, CardBusy
    <2>3. binding.stamp \in Nat /\ MaxSave \in Nat /\ Cardinality(Busy) \in Nat
      BY CardBusy, EdgeAssumption DEF Base, Typed, WorldTyped, Binding
    <2>4. QED
      BY <2>2, <2>3 DEF Base, Room
  <1>4. QED
    BY <1>1, <1>2, <1>3 DEF Base, Typed

LEMMA SaveBase ==
  ASSUME Base, NEW c \in Caller, pc[c] # "idle", NEW b, Good(b, secrets),
         Known(b, record, nextRecord), Save(c, b), astray' \in BOOLEAN, used' \in 0 .. Limit
  PROVE  Base'
  <1>1. Busy' = Busy \ {c} /\ c \in Busy
    BY EndBusy DEF Base, Typed, Busy, Save
  <1>2. /\ Cardinality(Busy') = Cardinality(Busy) - 1
        /\ Cardinality(Busy) > 0 /\ Cardinality(Busy) \in Nat
    BY <1>1, CardBusy
  <1>3. binding.stamp \in Nat /\ MaxSave \in Nat
    BY EdgeAssumption DEF Base, Typed, WorldTyped, Binding
  <1>4. binding.stamp + 1 \in 0 .. MaxSave
    BY <1>2, <1>3 DEF Base, Room
  <1>5. binding' = [b EXCEPT !.stamp = binding.stamp + 1]
    BY DEF Save
  <1>6. Good(binding', secrets) /\ Known(binding', record, nextRecord)
    BY <1>4, <1>5, Stamped
  <1>7. binding' \in Binding /\ binding'.stamp = binding.stamp + 1
    BY <1>5, <1>6 DEF Good, Binding
  <1>8. Names'
    BY <1>6 DEF Base, Names, Save, provider
  <1>9. /\ CallsTyped' /\ WorldTyped' /\ RestTyped'
        /\ \A d \in Caller : Sound(d)' /\ Ids(d)'
    BY <1>7, EndCalls, RestTypes DEF Base, Typed, Save, End
  <1>10. Room'
    BY <1>2, <1>3, <1>7 DEF Base, Room
  <1>11. QED
    BY <1>8, <1>9, <1>10 DEF Base, Typed

-----------------------------------------------------------------------------
(* The steps of a command.                                                 *)

\* A step of c from one step to another, with a route, an id and a copy of the
\* binding that it may have changed.
Goes(c, s, p, r, i) ==
  /\ pc' = [pc EXCEPT ![c] = s] /\ prev' = [prev EXCEPT ![c] = p]
  /\ route' = [route EXCEPT ![c] = r] /\ put' = [put EXCEPT ![c] = i]
  /\ made' \in [Caller -> BOOLEAN] /\ \A d \in Caller \ {c} : made'[d] = made[d]
  /\ restoring' \in [Caller -> BOOLEAN]
  /\ \A d \in Caller \ {c} : restoring'[d] = restoring[d]

LEMMA Around ==
  ASSUME CallsTyped, NEW c \in Caller, NEW s \in Steps, NEW p \in Binding, NEW r \in Route,
         NEW i \in 0 .. MaxRecord, Goes(c, s, p, r, i)
  PROVE  /\ CallsTyped' /\ Aside(c)
         /\ pc'[c] = s /\ prev'[c] = p /\ route'[c] = r /\ put'[c] = i
  BY DEF CallsTyped, Aside, Still, Goes

\* An EXCEPT that puts back what is there changes nothing.
LEMMA Unchanged ==
  ASSUME CallsTyped, NEW c \in Caller
  PROVE  /\ prev = [prev EXCEPT ![c] = prev[c]] /\ route = [route EXCEPT ![c] = route[c]]
         /\ put = [put EXCEPT ![c] = put[c]] /\ made = [made EXCEPT ![c] = made[c]]
         /\ restoring = [restoring EXCEPT ![c] = restoring[c]]
         /\ prev[c] \in Binding /\ route[c] \in Route /\ put[c] \in 0 .. MaxRecord
         /\ made[c] \in BOOLEAN /\ restoring[c] \in BOOLEAN /\ pc[c] \in Steps
  BY DEF CallsTyped

LEMMA CreateBase ==
  ASSUME Base, NEW c \in Caller, CreateTunnel(c)
  PROVE  Base' /\ Aside(c)
  <1> USE DEF CreateTunnel, At, Goto
  <1>1. PICK t \in Tunnel : /\ ingress' = [ingress EXCEPT ![t] = None]
                            /\ route' = [route EXCEPT ![c].tunnel = t]
    BY DEF Created
  <1>2. CallsTyped /\ Sound(c) /\ Ids(c) /\ pc[c] = "create"
    BY DEF Base, Typed
  <1> DEFINE r == [route[c] EXCEPT !.tunnel = t]
  <1>3. /\ r \in Route /\ r.host = route[c].host /\ r.api = route[c].api /\ r.tunnel = t
        /\ r.dns = route[c].dns
    BY <1>2, Unchanged DEF Route, Tunnel
  <1>4. route' = [route EXCEPT ![c] = r]
    BY <1>1
  <1> HIDE DEF r
  <1>5. /\ CallsTyped' /\ Aside(c) /\ pc'[c] = "ingress" /\ prev'[c] = prev[c] /\ route'[c] = r
        /\ put'[c] = put[c] /\ restoring'[c] = restoring[c]
    <2>1. "ingress" \in Steps
      BY DEF Steps
    <2>2. Goes(c, "ingress", prev[c], r, put[c])
      BY <1>2, <1>4 DEF Goes, CallsTyped
    <2>3. QED
      BY <1>2, <1>3, <2>1, <2>2, Unchanged, Around
  <1>6. WorldTyped' /\ RestTyped'
    BY <1>1 DEF Base, Typed, WorldTyped, RestTyped, runtime
  <1>7. Grows /\ Numbered(record', nextRecord')
    BY EdgeAssumption DEF Grows, Base, Names, Typed, WorldTyped
  <1>8. Sound(c)'
    <2>1. Good(prev'[c], secrets') /\ restoring'[c] = FALSE
      BY <1>2, <1>5 DEF Sound, Undoing, CallsTyped
    <2>2. route'[c].host \in Host /\ route'[c].api \in Api /\ route'[c].tunnel \in Tunnel
      BY <1>2, <1>3, <1>5 DEF Sound, Configuring
    <2>3. QED
      BY <1>5, <2>1, <2>2 DEF Sound, Undoing, Configuring
  <1>9. Ids(c)'
    BY <1>2, <1>3, <1>5 DEF Ids
  <1>10. QED
    BY <1>2, <1>5, <1>6, <1>7, <1>8, <1>9, InBase DEF Typed

LEMMA IngressBase ==
  ASSUME Base, NEW c \in Caller, NEW from, NEW to,
         \/ from = "ingress" /\ to = "list"
         \/ from = "undo ingress" /\ to = "undo list",
         SetIngress(c, from, to)
  PROVE  Base' /\ Aside(c) /\ pc'[c] = to /\ route' = route
  <1> USE DEF SetIngress, At, Goto
  <1>1. CallsTyped /\ Sound(c) /\ Ids(c) /\ pc[c] = from
    BY DEF Base, Typed
  <1>2. to \in Steps
    BY DEF Steps
  <1>3. /\ CallsTyped' /\ Aside(c) /\ pc'[c] = to /\ prev'[c] = prev[c] /\ route'[c] = route[c]
        /\ put'[c] = put[c] /\ restoring'[c] = restoring[c]
    <2>1. Goes(c, to, prev[c], route[c], put[c])
      BY <1>1 DEF Goes, CallsTyped, locals
    <2>2. QED
      BY <1>1, <1>2, <2>1, Unchanged, Around DEF locals
  <1>4. route[c].host \in Host
    BY <1>1 DEF Sound, Whole, Configuring, Undoing
  <1>5. WorldTyped' /\ RestTyped'
    BY <1>4 DEF Base, Typed, WorldTyped, RestTyped, runtime
  <1>6. Grows /\ Numbered(record', nextRecord')
    <2>1. WorldTyped /\ Numbered(record, nextRecord)
      BY DEF Base, Names, Typed
    <2>2. secrets' = secrets /\ record' = record /\ nextRecord' = nextRecord
      OBVIOUS
    <2>3. QED
      BY <2>1, <2>2, SameRecords
  <1>7. Sound(c)' /\ Ids(c)'
    BY <1>1, <1>3 DEF Sound, Ids, Configuring, Undoing
  <1>8. QED
    BY <1>1, <1>3, <1>5, <1>6, <1>7, InBase DEF Typed, locals

\* MayWrite lets only records of GenOS through.
LEMMA ListedIsOurs ==
  ASSUME Base, NEW c \in Caller, pc[c] \in {"list", "undo list"}, MayWrite(c),
         record[route[c].host] # None
  PROVE  Ours(record[route[c].host].id, record, nextRecord)
  <1> DEFINE r == record[route[c].host]
  <1>1. route[c].host \in Host /\ Sound(c) /\ Ids(c) /\ Numbered(record, nextRecord)
    BY DEF Base, Names, Sound, Whole, Configuring, Undoing
  <1>2. CASE Expected(c) # 0
    <2>1. r.id = Expected(c)
      BY <1>2 DEF MayWrite
    <2>2. Ours(Expected(c), record, nextRecord)
      BY <1>1, <1>2 DEF Expected, Ids, Known
    <2>3. QED
      BY <2>1, <2>2
  <1>3. CASE Expected(c) = 0
    <2>1. r.ours
      BY <1>3 DEF MayWrite
    <2>2. QED
      BY <1>1, <2>1 DEF Numbered, Ours
  <1>4. QED
    BY <1>2, <1>3

LEMMA ListBase ==
  ASSUME Base, NEW c \in Caller, NEW from, NEW to,
         \/ from = "list" /\ to = "dns"
         \/ from = "undo list" /\ to = "undo dns",
         ListRecords(c, from, to)
  PROVE  Base' /\ Aside(c) /\ pc'[c] = to /\ route' = route
  <1> USE DEF ListRecords, At, Goto, Locally
  <1>1. CallsTyped /\ Sound(c) /\ Ids(c) /\ pc[c] = from /\ WorldTyped
    BY DEF Base, Typed
  <1> DEFINE i == IF record[route[c].host] = None THEN 0 ELSE record[route[c].host].id
  <1>2. route[c].host \in Host
    BY <1>1 DEF Sound, Whole, Configuring, Undoing
  <1>3. i \in 0 .. MaxRecord
    <2>1. record[route[c].host] # None => record[route[c].host].id \in 1 .. MaxRecord
      BY <1>1, <1>2 DEF WorldTyped, Record
    <2>2. QED
      BY <2>1, Bounds
  <1>4. Ours(i, record, nextRecord)
    BY <1>1, ListedIsOurs, ZeroIsOurs
  <1>5. from = "undo list" => i = route[c].dns
    <2> SUFFICES ASSUME from = "undo list" PROVE i = route[c].dns
      OBVIOUS
    <2>1. route[c].dns # 0 /\ Expected(c) = route[c].dns
      BY <1>1 DEF Sound, Whole, Undoing, Expected
    <2>2. QED
      BY <2>1 DEF MayWrite
  <1>6. put' = [put EXCEPT ![c] = i]
    OBVIOUS
  <1> HIDE DEF i
  <1>7. to \in Steps
    BY DEF Steps
  <1>8. /\ CallsTyped' /\ Aside(c) /\ pc'[c] = to /\ prev'[c] = prev[c] /\ route'[c] = route[c]
        /\ put'[c] = i /\ restoring'[c] = restoring[c]
    <2>1. Goes(c, to, prev[c], route[c], put'[c]) /\ put'[c] = i
      BY <1>1, <1>6 DEF Goes, CallsTyped
    <2>2. QED
      BY <1>1, <1>3, <1>7, <2>1, Unchanged, Around
  <1>9. WorldTyped' /\ RestTyped' /\ Numbered(record', nextRecord')
    BY DEF Base, Names, Typed, WorldTyped, RestTyped, runtime, provider
  <1>10. Grows
    BY <1>1, SameProvider
  <1>11. Sound(c)'
    BY <1>1, <1>5, <1>8 DEF Sound, Configuring, Undoing
  <1>12. Ids(c)'
    BY <1>1, <1>4, <1>8 DEF Ids, provider
  <1>13. QED
    BY <1>1, <1>8, <1>9, <1>10, <1>11, <1>12, InBase DEF Typed

\* The id that a command writes.
Id(c) == IF put[c] = 0 THEN nextRecord ELSE put[c]

\* A record is written.
Written(c) ==
  /\ pc[c] \in {"dns", "undo dns"} /\ Writable(c)
  /\ record' = [record EXCEPT ![route[c].host] =
                  [id |-> Id(c), to |-> route[c].tunnel, ours |-> TRUE]]
  /\ nextRecord' = IF put[c] = 0 THEN nextRecord + 1 ELSE nextRecord
  /\ binding' = binding /\ secrets' = secrets /\ ingress' = ingress

\* What the provider takes is a new record, or one in the place of ours.
LEMMA WriteRecords ==
  ASSUME Base, NEW c \in Caller, Written(c)
  PROVE  /\ WorldTyped' /\ Grows /\ Numbered(record', nextRecord')
         /\ Id(c) \in 1 .. MaxRecord /\ Ours(Id(c), record', nextRecord')
         /\ \A h \in Host : (record[h] # None /\ ~record[h].ours) => record'[h] = record[h]
         /\ record'[route[c].host] = [id |-> Id(c), to |-> route[c].tunnel, ours |-> TRUE]
         /\ \A h \in Host \ {route[c].host} : record'[h] = record[h]
  <1> DEFINE id == Id(c)
             new == [id |-> id, to |-> route[c].tunnel, ours |-> TRUE]
             g == route[c].host
  <1>1. CallsTyped /\ WorldTyped /\ Sound(c) /\ Ids(c) /\ Numbered(record, nextRecord)
    BY DEF Base, Typed, Names
  <1>a. /\ pc[c] \in {"dns", "undo dns"} /\ Writable(c) /\ record' = [record EXCEPT ![g] = new]
        /\ nextRecord' = IF put[c] = 0 THEN nextRecord + 1 ELSE nextRecord
        /\ binding' = binding /\ secrets' = secrets /\ ingress' = ingress
    BY DEF Written
  <1>2. g \in Host /\ route[c].tunnel \in Tunnel
    BY <1>1, <1>a DEF Sound, Whole, Configuring, Undoing, WorldTyped
  <1>3. put[c] \in 0 .. MaxRecord /\ nextRecord \in 1 .. MaxRecord + 1 /\ MaxRecord \in Nat
    BY <1>1, EdgeAssumption DEF CallsTyped, WorldTyped
  <1>4. put[c] = 0 => record[g] = None /\ nextRecord <= MaxRecord
    BY <1>a DEF Writable
  <1>5. put[c] # 0 => /\ record[g] # None /\ record[g].id = put[c] /\ record[g].ours
                      /\ put[c] < nextRecord
    BY <1>1, <1>2, <1>a DEF Writable, Ids, Ours
  <1>b. /\ id \in 1 .. MaxRecord /\ nextRecord' \in 1 .. MaxRecord + 1
        /\ id < nextRecord' /\ nextRecord <= nextRecord'
        /\ \A m \in Nat : m < nextRecord => m < nextRecord'
    BY <1>3, <1>4, <1>5, <1>a, IdRange DEF Id
  <1>c. put[c] = 0 => id = nextRecord
    BY DEF Id
  <1>d. put[c] # 0 => id = put[c]
    BY DEF Id
  <1> HIDE DEF id
  <1>6. new \in Record /\ new.ours /\ new.id = id /\ new # None
    <2>1. route[c].tunnel \in 0 .. MaxTunnel
      BY <1>2, Bounds
    <2>2. new \in Record
      BY <1>b, <2>1 DEF Record
    <2>3. QED
      BY <2>2, RecordAssumption
  <1>7. record'[g] = new /\ \A h \in Host \ {g} : record'[h] = record[h]
    BY <1>1, <1>2, <1>a DEF WorldTyped
  <1>9. WorldTyped'
    <2>1. record' \in [Host -> Record \cup {None}]
      BY <1>1, <1>2, <1>6, <1>a DEF WorldTyped
    <2>2. QED
      BY <1>1, <1>b, <1>a, <2>1 DEF WorldTyped
  <1>10. Grows
    BY <1>6, <1>7, <1>4, <1>5, <1>b, <1>c, <1>a DEF Grows
  <1>11. \A h \in Host \ {g} : record[h] # None => record[h].id # id
    <2> TAKE h \in Host \ {g}
    <2>1. CASE put[c] = 0
      <3>1. record[h] # None => record[h].id < nextRecord /\ record[h].id \in 1 .. MaxRecord
        BY <1>1 DEF Numbered, WorldTyped, Record
      <3>2. QED
        BY <2>1, <3>1, <1>3, <1>c, Bounds
    <2>2. CASE put[c] # 0
      BY <2>2, <1>1, <1>2, <1>5, <1>d DEF Numbered
    <2>3. QED
      BY <2>1, <2>2
  <1> HIDE DEF new
  <1>12. Numbered(record', nextRecord')
    <2>1. ASSUME NEW h \in Host, record'[h] # None PROVE record'[h].id < nextRecord'
      <3>1. CASE h = g
        BY <3>1, <1>6, <1>7, <1>b
      <3>2. CASE h # g
        <4>1. record'[h] = record[h]
          BY <3>2, <1>7
        <4>2. record[h].id \in 1 .. MaxRecord /\ record[h].id < nextRecord
          BY <4>1, <2>1, <1>1 DEF Numbered, WorldTyped, Record
        <4>3. QED
          BY <4>1, <4>2, <1>b, Bounds
      <3>3. QED
        BY <3>1, <3>2
    <2>2. ASSUME NEW h \in Host, NEW k \in Host, record'[h] # None, record'[k] # None,
                 record'[h].id = record'[k].id
          PROVE  h = k
      <3>1. CASE h # g /\ k # g
        BY <3>1, <2>2, <1>1, <1>7 DEF Numbered
      <3>2. CASE h = g /\ k # g
        BY <3>2, <2>2, <1>6, <1>7, <1>11
      <3>3. CASE h # g /\ k = g
        BY <3>3, <2>2, <1>6, <1>7, <1>11
      <3>4. QED
        BY <3>1, <3>2, <3>3
    <2>3. QED
      BY <2>1, <2>2 DEF Numbered
  <1>13. Ours(id, record', nextRecord')
    BY <1>6, <1>7, <1>b, <1>11 DEF Ours
  <1>14. \A h \in Host : (record[h] # None /\ ~record[h].ours) => record'[h] = record[h]
    BY <1>4, <1>5, <1>7
  <1>15. QED
    BY <1>b, <1>7, <1>9, <1>10, <1>12, <1>13, <1>14 DEF new, id

LEMMA WriteBase ==
  ASSUME Base, NEW c \in Caller, NEW from, NEW to,
         \/ from = "dns" /\ to = "token"
         \/ from = "undo dns" /\ to = "save undone",
         WriteRecord(c, from, to)
  PROVE  /\ Base' /\ Aside(c) /\ pc'[c] = to
         /\ from = "undo dns" => route' = route
         /\ route'[c].host = route[c].host /\ route'[c].tunnel = route[c].tunnel
  <1> DEFINE id == Id(c)
             r == [route[c] EXCEPT !.dns = id]
  <1>1. CallsTyped /\ Sound(c) /\ Ids(c) /\ pc[c] = from /\ Written(c)
    BY DEF Base, Typed, WriteRecord, At, Written, Id
  <1>2. /\ WorldTyped' /\ Grows /\ Numbered(record', nextRecord')
        /\ id \in 1 .. MaxRecord /\ Ours(id, record', nextRecord')
    <2> HIDE DEF r
    <2>1. WorldTyped' /\ Grows /\ Numbered(record', nextRecord')
      BY <1>1, WriteRecords
    <2>2. id \in 1 .. MaxRecord /\ Ours(id, record', nextRecord')
      BY <1>1, WriteRecords
    <2>3. QED
      BY <2>1, <2>2
  <1> HIDE DEF id
  <1>3. /\ r \in Route /\ r.host = route[c].host /\ r.api = route[c].api
        /\ r.tunnel = route[c].tunnel /\ r.secret = route[c].secret /\ r.dns = id /\ id # 0
    BY <1>1, <1>2, Bounds, Unchanged DEF Route
  <1>4. from = "undo dns" => r = route[c]
    <2> SUFFICES ASSUME from = "undo dns" PROVE r = route[c]
      OBVIOUS
    <2>1. route[c].dns = put[c] /\ route[c].dns # 0
      BY <1>1 DEF Sound, Whole, Undoing
    <2>2. id = route[c].dns
      BY <2>1 DEF Id, id
    <2>3. QED
      BY <2>2, <1>1, Unchanged DEF Route
  <1>5. route' = [route EXCEPT ![c] = r] /\ to \in Steps
    BY DEF WriteRecord, Steps, Id, id
  <1> HIDE DEF r
  <1>6. /\ CallsTyped' /\ Aside(c) /\ pc'[c] = to /\ prev'[c] = prev[c] /\ route'[c] = r
        /\ put'[c] = put[c] /\ restoring'[c] = restoring[c]
    <2>1. Goes(c, to, prev[c], r, put[c])
      BY <1>1, <1>5 DEF Goes, CallsTyped, WriteRecord, Goto
    <2>2. /\ prev[c] \in Binding /\ put[c] \in 0 .. MaxRecord
          /\ r \in Route /\ to \in Steps /\ CallsTyped
      BY <1>1, <1>3, <1>5, Unchanged
    <2>3. /\ CallsTyped' /\ Aside(c)
          /\ pc'[c] = to /\ prev'[c] = prev[c] /\ route'[c] = r /\ put'[c] = put[c]
      BY <2>1, <2>2, Around
    <2>4. restoring'[c] = restoring[c]
      BY DEF WriteRecord
    <2>5. QED
      BY <2>3, <2>4
  <1>7. RestTyped'
    BY DEF Base, Typed, RestTyped, runtime, WriteRecord
  <1>8. Sound(c)'
    <2>1. Good(prev'[c], secrets')
      BY <1>1, <1>6 DEF Sound, WriteRecord
    <2>2. CASE from = "dns"
      <3>1. route'[c].host \in Host /\ route'[c].api \in Api /\ route'[c].tunnel \in Tunnel
            /\ route'[c].dns # 0 /\ restoring'[c] = FALSE
        BY <2>2, <1>1, <1>3, <1>6 DEF Sound, Configuring, Undoing, CallsTyped
      <3>2. pc'[c] = "token"
        BY <2>2, <1>6
      <3>3. QED
        BY <3>1, <3>2, <2>1 DEF Sound, Undoing
    <2>3. CASE from = "undo dns"
      <3>1. pc'[c] = "save undone" /\ route'[c] = route[c] /\ secrets' = secrets
        BY <2>3, <1>4, <1>6 DEF WriteRecord
      <3>2. QED
        BY <2>1, <2>3, <3>1, <1>1, <1>6 DEF Sound, Configuring, Undoing
    <2>4. QED
      BY <2>2, <2>3
  <1>9. Ids(c)'
    <2>1. Known(prev[c], record', nextRecord')
      BY <1>1, <1>2, KnownKept, Unchanged DEF Base, Typed, Ids
    <2>2. Ours(put[c], record', nextRecord')
      BY <1>1, <1>2, OursKept, Unchanged DEF Base, Typed, Ids
    <2>3. QED
      BY <2>1, <2>2, <1>2, <1>3, <1>6 DEF Ids
  <1>10. Base'
    BY <1>1, <1>2, <1>6, <1>7, <1>8, <1>9, InBase DEF Typed, WriteRecord
  <1>11. route = [route EXCEPT ![c] = route[c]]
    BY <1>1, Unchanged
  <1>12. QED
    BY <1>3, <1>4, <1>5, <1>6, <1>10, <1>11

LEMMA TokenBase ==
  ASSUME Base, NEW c \in Caller, PersistToken(c)
  PROVE  /\ Base' /\ Aside(c) /\ pc'[c] = "save"
         /\ route'[c].host = route[c].host /\ route'[c].tunnel = route[c].tunnel
         /\ route'[c].dns = route[c].dns
  <1> USE DEF PersistToken, At, Goto
  <1> DEFINE r == [route[c] EXCEPT !.secret = route[c].tunnel]
  <1>1. CallsTyped /\ Sound(c) /\ Ids(c) /\ pc[c] = "token" /\ WorldTyped
    BY DEF Base, Typed
  <1>2. route[c].tunnel \in Tunnel /\ route[c].host \in Host /\ route[c].api \in Api
        /\ route[c].dns # 0
    BY <1>1 DEF Sound, Configuring
  <1>3. /\ r \in Route /\ r.host = route[c].host /\ r.api = route[c].api
        /\ r.tunnel = route[c].tunnel /\ r.secret = route[c].tunnel /\ r.dns = route[c].dns
    BY <1>1, <1>2, Unchanged DEF Route, Tunnel
  <1>4. route' = [route EXCEPT ![c] = r] /\ "save" \in Steps
    BY DEF Steps
  <1> HIDE DEF r
  <1>5. /\ CallsTyped' /\ Aside(c) /\ pc'[c] = "save" /\ prev'[c] = prev[c] /\ route'[c] = r
        /\ put'[c] = put[c] /\ restoring'[c] = restoring[c]
    <2>1. Goes(c, "save", prev[c], r, put[c])
      BY <1>1, <1>4 DEF Goes, CallsTyped
    <2>2. QED
      BY <1>1, <1>3, <1>4, <2>1, Unchanged, Around
  <1>6. WorldTyped' /\ RestTyped' /\ Numbered(record', nextRecord')
    BY <1>2 DEF Base, Names, Typed, WorldTyped, RestTyped, runtime, provider
  <1>7. Grows
    BY EdgeAssumption DEF Grows, provider, Base, Typed, WorldTyped
  <1>8. Sound(c)'
    <2>1. Good(prev'[c], secrets') /\ restoring'[c] = FALSE
      BY <1>1, <1>5, GoodMore DEF Sound, Undoing, CallsTyped
    <2>2. Whole(route'[c], secrets')
      BY <1>2, <1>3, <1>5 DEF Whole
    <2>3. QED
      BY <1>2, <1>3, <1>5, <2>1, <2>2 DEF Sound, Undoing, Configuring
  <1>9. Ids(c)'
    BY <1>1, <1>3, <1>5 DEF Ids, provider
  <1>10. QED
    BY <1>1, <1>3, <1>5, <1>6, <1>7, <1>8, <1>9, InBase DEF Typed

-----------------------------------------------------------------------------
(* The beginning, the end and the saves of a command.                      *)

\* The beginning of a command at step s with route r, and what it takes.
Starts(c, s, r) ==
  Begin(c, s) /\ restoring' = restoring /\ route' = [route EXCEPT ![c] = r]

MayStart(s, r) ==
  /\ s \in {"create", "ingress", "undo ingress", "verify", "save disabled"}
  /\ r \in Route /\ Ours(r.dns, record, nextRecord)
  /\ s \in {"create", "ingress"} => r.host \in Host /\ r.api \in Api
  /\ s = "ingress" => r.tunnel \in Tunnel
  /\ s = "undo ingress" => Whole(r, secrets)
  /\ s = "verify" => binding.mode = "DOMAIN"

LEMMA RoomToBegin ==
  ASSUME Base, NEW c \in Caller, NEW s, Begin(c, s), pc[c] = "idle", Busy' = Busy \cup {c}
  PROVE  Room'
  <1>1. Cardinality(Busy') = Cardinality(Busy) + 1 /\ Cardinality(Busy) \in Nat
    BY CardBusy DEF Busy
  <1>2. binding.stamp \in Nat /\ MaxSave \in Nat
    BY EdgeAssumption DEF Base, Typed, WorldTyped, Binding
  <1>3. binding.stamp + Cardinality(Busy) < MaxSave /\ binding' = binding
    BY DEF Begin
  <1>4. binding.stamp + Cardinality(Busy') <= MaxSave
    BY <1>1, <1>2, <1>3
  <1>5. QED
    BY <1>3, <1>4 DEF Room

LEMMA BeginBase ==
  ASSUME Base, NEW c \in Caller, NEW s, NEW r,
         Starts(c, s, r), MayStart(s, r)
  PROVE  /\ Base' /\ Aside(c)
         /\ pc[c] = "idle" /\ pc'[c] = s /\ prev'[c] = binding /\ route'[c] = r
  <1>1. /\ CallsTyped /\ Sound(c) /\ Ids(c) /\ pc[c] = "idle" /\ WorldTyped /\ RestTyped
        /\ Names /\ binding \in Binding /\ s \in Steps
    BY DEF Base, Typed, WorldTyped, Steps, Starts, Begin, At, MayStart
  <1>2. /\ binding' = binding /\ secrets' = secrets /\ provider' = provider /\ put' = put
        /\ made' = made /\ restoring' = restoring /\ runtime' = runtime /\ used' = used
        /\ lone' \subseteq Caller /\ astray' \in BOOLEAN
        /\ pc' = [pc EXCEPT ![c] = s] /\ prev' = [prev EXCEPT ![c] = binding]
        /\ route' = [route EXCEPT ![c] = r]
    BY <1>1 DEF RestTyped, Starts, Begin, Goto
  <1>3. CallsTyped' /\ Aside(c) /\ pc'[c] = s /\ prev'[c] = binding /\ route'[c] = r
    <2>1. Goes(c, s, binding, r, put[c]) /\ put[c] \in 0 .. MaxRecord
      BY <1>1, <1>2, Unchanged DEF Goes, CallsTyped
    <2>2. QED
      BY <1>1, <2>1, Around DEF MayStart
  <1>4. WorldTyped' /\ RestTyped' /\ Numbered(record', nextRecord')
    BY <1>1, <1>2 DEF Names, WorldTyped, RestTyped, runtime, provider
  <1>5. Grows
    BY <1>1, <1>2, SameProvider
  <1>6. Sound(c)'
    <2>1. Good(prev'[c], secrets') /\ restoring'[c] = FALSE /\ made'[c] = FALSE
      BY <1>1, <1>2, <1>3 DEF Names, Sound, Undoing, CallsTyped
    <2>2. s = "undo ingress" => Whole(route'[c], secrets')
      BY <1>2, <1>3 DEF MayStart
    <2>3. QED
      BY <1>3, <2>1, <2>2 DEF MayStart, Sound, Undoing, Configuring
  <1>7. Ids(c)'
    BY <1>1, <1>2, <1>3 DEF MayStart, Names, Ids, provider
  <1>8. \A d \in Caller : Sound(d)' /\ Ids(d)'
    <2> TAKE d \in Caller
    <2>1. CASE d = c
      BY <2>1, <1>6, <1>7
    <2>2. CASE d # c
      BY <2>2, <1>1, <1>3, <1>4, <1>5, OthersKeep DEF Base, Aside
    <2>3. QED
      BY <2>1, <2>2
  <1>9. Room'
    <2>1. Busy' = Busy \cup {c} /\ c \notin Busy
      BY <1>1, <1>3 DEF Busy, Aside, Still, MayStart
    <2>2. QED
      BY <1>1, <2>1, RoomToBegin DEF Starts
  <1>10. Names'
    BY <1>1, <1>2 DEF Names, provider
  <1>11. QED
    BY <1>1, <1>3, <1>4, <1>8, <1>9, <1>10 DEF Base, Typed

LEMMA BeginsBase ==
  ASSUME Base, NEW c \in Caller, Begins(c)
  PROVE  /\ Base' /\ Aside(c) /\ pc[c] = "idle" /\ prev'[c] = binding
         /\ pc'[c] \in {"create", "ingress", "undo ingress", "verify", "save disabled"}
  <1>1. /\ CallsTyped /\ Names /\ WorldTyped /\ Ids(c)
        /\ Good(binding, secrets) /\ Known(binding, record, nextRecord) /\ binding \in Binding
    BY DEF Base, Typed, Names, Good
  <1>2. ASSUME NEW a \in Api, NEW h \in Host, Configure(c, a, h)
        PROVE  /\ Base' /\ Aside(c) /\ pc[c] = "idle" /\ prev'[c] = binding
               /\ pc'[c] \in {"create", "ingress"}
    <2> DEFINE kept == IF binding.route.api = a THEN binding.route.tunnel ELSE 0
               r == [NoRoute EXCEPT !.host = h, !.api = a, !.tunnel = kept]
               s == IF kept = 0 THEN "create" ELSE "ingress"
    <2>1. kept \in 0 .. MaxTunnel /\ (kept # 0 => kept \in Tunnel)
      BY <1>1, EdgeAssumption DEF Binding, Route, Tunnel
    <2>2. Starts(c, s, r)
      BY <1>2 DEF Configure, Starts
    <2>3. s \in {"create", "ingress"} /\ (s = "ingress" => kept # 0)
      OBVIOUS
    <2> HIDE DEF kept, s
    <2>4. /\ r \in Route /\ r.host = h /\ r.api = a /\ r.tunnel = kept /\ r.dns = 0
      <3>1. /\ r \in Route /\ r.host = h /\ r.api = a /\ r.tunnel = kept /\ r.dns = NoRoute.dns
        BY <2>1, Constants DEF Route
      <3>2. NoRoute.dns = 0
        BY DEF NoRoute
      <3>3. QED
        BY <3>1, <3>2
    <2> HIDE DEF r
    <2>5. Ours(r.dns, record, nextRecord)
      BY <1>1, <2>4, ZeroIsOurs
    <2>6. MayStart(s, r)
      BY <2>1, <2>3, <2>4, <2>5 DEF MayStart
    <2>7. QED
      BY <2>2, <2>3, <2>6, BeginBase
  <1>3. ASSUME Verify(c)
        PROVE  Base' /\ Aside(c) /\ pc[c] = "idle" /\ prev'[c] = binding /\ pc'[c] = "verify"
    <2>1. Starts(c, "verify", route[c])
      BY <1>1, <1>3, Unchanged DEF Verify, Starts
    <2>2. route[c] \in Route /\ Ours(route[c].dns, record, nextRecord)
      BY <1>1, Unchanged DEF Ids
    <2>3. MayStart("verify", route[c])
      BY <1>3, <2>2 DEF Verify, MayStart
    <2>4. QED
      BY <2>1, <2>3, BeginBase
  <1>4. ASSUME Disable(c)
        PROVE  Base' /\ Aside(c) /\ pc[c] = "idle" /\ prev'[c] = binding
               /\ pc'[c] = "save disabled"
    <2>1. Starts(c, "save disabled", route[c])
      BY <1>1, <1>4, Unchanged DEF Disable, Starts
    <2>2. route[c] \in Route /\ Ours(route[c].dns, record, nextRecord)
      BY <1>1, Unchanged DEF Ids
    <2>3. MayStart("save disabled", route[c])
      BY <2>2 DEF MayStart
    <2>4. QED
      BY <2>1, <2>3, BeginBase
  <1>5. ASSUME Rollback(c)
        PROVE  Base' /\ Aside(c) /\ pc[c] = "idle" /\ prev'[c] = binding
               /\ pc'[c] = "undo ingress"
    <2>1. Whole(binding.rollback, secrets) /\ Ours(binding.rollback.dns, record, nextRecord)
      BY <1>1, <1>5 DEF Rollback, Good, Known
    <2>2. Starts(c, "undo ingress", binding.rollback) /\ binding.rollback \in Route
      BY <1>5, <2>1 DEF Rollback, Starts, Whole
    <2>3. MayStart("undo ingress", binding.rollback)
      BY <2>1, <2>2 DEF MayStart
    <2>4. QED
      BY <2>2, <2>3, BeginBase
  <1>6. QED
    BY <1>2, <1>3, <1>4, <1>5 DEF Begins

\* The tunnel has been probed.
Probed(c, s) ==
  /\ prev' = [prev EXCEPT ![c].state = s] /\ Goto(c, "save verified")
  /\ UNCHANGED <<route, made, put, restoring, lone>>
  /\ UNCHANGED <<binding, secrets, provider, runtime, astray, used>>

LEMMA ProbeBase ==
  ASSUME Base, NEW c \in Caller, Probe(c)
  PROVE  Base'
  <1> USE DEF At, Goto
  <1>1. CallsTyped /\ Sound(c) /\ Ids(c) /\ pc[c] = "verify" /\ RestTyped
    BY DEF Base, Typed, Probe
  <1>2. ASSUME NEW s \in {"READY", "DEGRADED"}, Probed(c, s)
        PROVE  Base'
    <2> DEFINE p == [prev[c] EXCEPT !.state = s]
    <2>1. /\ p \in Binding /\ p.mode = prev[c].mode /\ p.route = prev[c].route
          /\ p.rollback = prev[c].rollback /\ p.state = s
      BY <1>1, Unchanged DEF Binding
    <2>2. prev' = [prev EXCEPT ![c] = p] /\ pc' = [pc EXCEPT ![c] = "save verified"]
      BY <1>2 DEF Probed
    <2>a. /\ UNCHANGED <<route, made, put, restoring, lone>>
          /\ UNCHANGED <<binding, secrets, provider, runtime, astray, used>>
      BY <1>2 DEF Probed
    <2> HIDE DEF p
    <2>3. Good(p, secrets) /\ Known(p, record, nextRecord) /\ p.mode = "DOMAIN"
      BY <1>1, <2>1 DEF Sound, Ids, Good, Known
    <2>4. /\ CallsTyped' /\ Aside(c) /\ pc'[c] = "save verified" /\ prev'[c] = p
          /\ route'[c] = route[c] /\ put'[c] = put[c]
      <3>1. Goes(c, "save verified", p, route[c], put[c])
        BY <1>1, <2>a, <2>2 DEF Goes, CallsTyped
      <3>2. /\ "save verified" \in Steps /\ route[c] \in Route /\ put[c] \in 0 .. MaxRecord
            /\ p \in Binding /\ CallsTyped
        BY <1>1, <2>1, Unchanged DEF Steps
      <3>3. QED
        BY <3>1, <3>2, Around
    <2>5. WorldTyped' /\ RestTyped' /\ Numbered(record', nextRecord')
      BY <2>a DEF Base, Names, Typed, WorldTyped, RestTyped, runtime, provider
    <2>6. Grows
      BY <2>a, SameProvider DEF Base, Typed
    <2>7. Sound(c)'
      <3>1. Good(prev'[c], secrets')
        BY <2>a, <2>3, <2>4
      <3>2. restoring'[c] = FALSE
        BY <1>1, <2>a DEF Sound, Undoing, CallsTyped
      <3>3. QED
        BY <2>3, <2>4, <3>1, <3>2 DEF Sound, Undoing, Configuring
    <2>8. Ids(c)'
      BY <1>1, <2>a, <2>3, <2>4 DEF Ids, provider
    <2>9. QED
      BY <1>1, <2>a, <2>4, <2>5, <2>6, <2>7, <2>8, InBase DEF Typed
  <1>3. ASSUME End(c), UNCHANGED <<binding, secrets, provider, runtime, astray, used>>
        PROVE  Base'
    BY <1>1, <1>3, EndBase DEF RestTyped
  <1>4. QED
    BY <1>2, <1>3 DEF Probe, Probed

\* A binding that is switched off.
LEMMA ModeChanged ==
  ASSUME NEW b, NEW S, NEW R, NEW n, NEW t, Good(b, S), Known(b, R, n), t = "DISABLED"
  PROVE  LET e == [b EXCEPT !.state = t, !.mode = "LOCAL"]
         IN  Good(e, S) /\ Known(e, R, n)
  <1> DEFINE e == [b EXCEPT !.state = t, !.mode = "LOCAL"]
  <1>1. /\ e \in Binding /\ e.mode = "LOCAL" /\ e.state = "DISABLED"
        /\ e.route = b.route /\ e.rollback = b.rollback
    BY DEF Good, Binding
  <1> HIDE DEF e
  <1>2. Good(e, S) /\ Known(e, R, n)
    BY <1>1 DEF Good, Known
  <1>3. QED
    BY <1>2 DEF e

\* A binding of a route that works.
LEMMA NewBinding ==
  ASSUME NEW S, NEW R, NEW n, NEW r, Whole(r, S), Ours(r.dns, R, n), NEW u,
         u # None => Whole(u, S) /\ Ours(u.dns, R, n)
  PROVE  LET e == [mode |-> "DOMAIN", state |-> "CONFIGURED", route |-> r, rollback |-> u,
                   stamp |-> 0]
         IN  Good(e, S) /\ Known(e, R, n)
  <1> DEFINE e == [mode |-> "DOMAIN", state |-> "CONFIGURED", route |-> r, rollback |-> u,
                   stamp |-> 0]
  <1>1. 0 \in 0 .. MaxSave /\ r \in Route /\ u \in Route \cup {None}
    BY EdgeAssumption DEF Whole
  <1>2. /\ e \in Binding /\ e.mode = "DOMAIN" /\ e.state = "CONFIGURED"
        /\ e.route = r /\ e.rollback = u
    BY <1>1 DEF Binding
  <1> HIDE DEF e
  <1>3. Good(e, S) /\ Known(e, R, n)
    BY <1>2 DEF Good, Known
  <1>4. QED
    BY <1>3 DEF e

LEMMA ConfiguredBase ==
  ASSUME Base, NEW c \in Caller, SaveConfigured(c)
  PROVE  Base'
  <1> DEFINE u == IF prev[c].mode = "DOMAIN" THEN prev[c].route ELSE None
             b == [mode |-> "DOMAIN", state |-> "CONFIGURED", route |-> route[c],
                   rollback |-> u, stamp |-> 0]
  <1>1. /\ Sound(c) /\ Ids(c) /\ RestTyped /\ pc[c] = "save" /\ Save(c, b)
        /\ astray' = (IF c \in lone THEN FALSE ELSE astray) /\ used' = used
    BY DEF Base, Typed, SaveConfigured, At
  <1> HIDE DEF b
  <1>2. u # None => Whole(u, secrets) /\ Ours(u.dns, record, nextRecord)
    BY <1>1 DEF Sound, Ids, Good, Known
  <1> HIDE DEF u
  <1>3. Whole(route[c], secrets) /\ Ours(route[c].dns, record, nextRecord)
    BY <1>1 DEF Sound, Ids
  <1>4. Good(b, secrets) /\ Known(b, record, nextRecord)
    BY <1>2, <1>3, NewBinding DEF b
  <1>5. astray' \in BOOLEAN /\ used' \in 0 .. Limit /\ pc[c] # "idle"
    BY <1>1 DEF RestTyped
  <1>6. QED
    BY <1>1, <1>4, <1>5, SaveBase

LEMMA PreservedBase ==
  ASSUME Base, NEW c \in Caller, SavePreserved(c)
  PROVE  Base'
  <1> DEFINE b == [LocalOnly EXCEPT !.state = "NEEDS_ACTION", !.route.api = route[c].api,
                                    !.route.tunnel = route[c].tunnel]
  <1>1. /\ CallsTyped /\ WorldTyped /\ RestTyped /\ pc[c] = "preserve" /\ Save(c, b)
        /\ astray' = astray /\ used' = used
    BY DEF Base, Typed, SavePreserved, At
  <1>2. /\ route[c].api \in Api \cup {None} /\ route[c].tunnel \in 0 .. MaxTunnel
        /\ LocalOnly.mode = "LOCAL" /\ LocalOnly.rollback = None /\ LocalOnly.route.dns = 0
    BY <1>1, Unchanged DEF Route, LocalOnly, NoRoute
  <1>3. b \in Binding /\ b.mode = LocalOnly.mode /\ b.state = "NEEDS_ACTION"
        /\ b.rollback = LocalOnly.rollback /\ b.route.dns = LocalOnly.route.dns
    BY <1>2, Constants DEF Binding, Route
  <1> HIDE DEF b
  <1>4. Good(b, secrets)
    BY <1>2, <1>3 DEF Good
  <1>5. Known(b, record, nextRecord)
    BY <1>1, <1>2, <1>3, ZeroIsOurs DEF Known
  <1>6. astray' \in BOOLEAN /\ used' \in 0 .. Limit /\ pc[c] # "idle"
    BY <1>1 DEF RestTyped
  <1>7. QED
    BY <1>1, <1>4, <1>5, <1>6, SaveBase

LEMMA UndoneBase ==
  ASSUME Base, NEW c \in Caller, SaveUndone(c)
  PROVE  Base'
  <1> DEFINE b == [mode |-> "DOMAIN", state |-> "CONFIGURED", route |-> route[c],
                   rollback |-> None, stamp |-> 0]
  <1>1. /\ Sound(c) /\ Ids(c) /\ RestTyped /\ pc[c] = "save undone"
        /\ Save(c, IF restoring[c] THEN prev[c] ELSE b) /\ used' = used
        /\ astray' = (IF c \in lone /\ ~restoring[c] THEN FALSE ELSE astray)
    BY DEF Base, Typed, SaveUndone, At
  <1> HIDE DEF b
  <1>2. Good(b, secrets) /\ Known(b, record, nextRecord)
    <2>1. Whole(route[c], secrets) /\ Ours(route[c].dns, record, nextRecord)
      BY <1>1 DEF Sound, Ids, Undoing
    <2>2. QED
      BY <2>1, NewBinding DEF b
  <1>3. Good(prev[c], secrets) /\ Known(prev[c], record, nextRecord)
    BY <1>1 DEF Sound, Ids
  <1>4. astray' \in BOOLEAN /\ used' \in 0 .. Limit /\ pc[c] # "idle"
    BY <1>1 DEF RestTyped
  <1>5. CASE restoring[c]
    BY <1>1, <1>3, <1>4, <1>5, SaveBase
  <1>6. CASE ~restoring[c]
    BY <1>1, <1>2, <1>4, <1>6, SaveBase
  <1>7. QED
    BY <1>5, <1>6

LEMMA VerifiedBase ==
  ASSUME Base, NEW c \in Caller, SaveVerified(c)
  PROVE  Base'
  <1>1. /\ Sound(c) /\ Ids(c) /\ RestTyped /\ pc[c] # "idle" /\ Save(c, prev[c])
        /\ astray' = astray /\ used' = used
    BY DEF Base, Typed, SaveVerified, At
  <1>2. Good(prev[c], secrets) /\ Known(prev[c], record, nextRecord)
    BY <1>1 DEF Sound, Ids
  <1>3. QED
    BY <1>1, <1>2, SaveBase DEF RestTyped

LEMMA DisabledBase ==
  ASSUME Base, NEW c \in Caller, SaveDisabled(c)
  PROVE  Base'
  <1> DEFINE b == [prev[c] EXCEPT !.state = "DISABLED", !.mode = "LOCAL"]
  <1>1. /\ Sound(c) /\ Ids(c) /\ RestTyped /\ pc[c] # "idle" /\ Save(c, b)
        /\ astray' = astray /\ used' = used
    BY DEF Base, Typed, SaveDisabled, At
  <1> HIDE DEF b
  <1>2. Good(b, secrets) /\ Known(b, record, nextRecord)
    <2>1. Good(prev[c], secrets) /\ Known(prev[c], record, nextRecord)
      BY <1>1 DEF Sound, Ids
    <2>2. QED
      BY <2>1, ModeChanged DEF b
  <1>3. QED
    BY <1>1, <1>2, SaveBase DEF RestTyped

-----------------------------------------------------------------------------
(* What goes wrong, and the outside.                                       *)

LEMMA FailsSpend ==
  ASSUME RestTyped, NEW c \in Caller, Fail(c)
  PROVE  used' \in 0 .. Limit
  BY SpendTypes DEF RestTyped, Fail

\* The restoration begins.
Restores(c) ==
  /\ pc[c] # "idle" /\ prev[c].mode = "DOMAIN"
  /\ route' = [route EXCEPT ![c] = prev[c].route]
  /\ restoring' = [restoring EXCEPT ![c] = TRUE]
  /\ pc' = [pc EXCEPT ![c] = "undo ingress"]
  /\ UNCHANGED <<prev, made, put, lone>>
  /\ UNCHANGED <<binding, secrets, provider, runtime, astray>>
Preserves(c) ==
  /\ pc[c] \in {"ingress", "list", "dns", "token"}
  /\ pc' = [pc EXCEPT ![c] = "preserve"] /\ UNCHANGED <<locals, lone>>
  /\ UNCHANGED <<binding, secrets, provider, runtime, astray>>

LEMMA FailureCases ==
  ASSUME NEW c \in Caller, ConfigureFails(c), Sound(c)
  PROVE  \/ Restores(c)
         \/ Preserves(c)
         \/ /\ pc[c] = "create" \/ prev[c].mode = "LOCAL"
            /\ End(c) /\ pc[c] # "idle"
            /\ UNCHANGED <<binding, secrets, provider, runtime, astray>>
  BY DEF ConfigureFails, Restores, Preserves, At, Goto, Sound

LEMMA RestoresBase ==
  ASSUME Base, NEW c \in Caller, Restores(c), used' \in 0 .. Limit
  PROVE  Base' /\ Aside(c) /\ pc'[c] = "undo ingress" /\ prev'[c] = prev[c]
  <1>1. CallsTyped /\ WorldTyped /\ RestTyped /\ Sound(c) /\ Ids(c) /\ pc[c] # "idle"
    BY DEF Base, Typed, Restores
  <1>2. Whole(prev[c].route, secrets) /\ Ours(prev[c].route.dns, record, nextRecord)
        /\ prev[c].route \in Route
    BY <1>1 DEF Restores, Sound, Ids, Good, Known, Whole
  <1>3. /\ CallsTyped' /\ Aside(c) /\ pc'[c] = "undo ingress" /\ prev'[c] = prev[c]
        /\ route'[c] = prev[c].route /\ put'[c] = put[c]
    <2> DEFINE r == prev[c].route
    <2>1. Goes(c, "undo ingress", prev[c], r, put[c])
      BY <1>1 DEF Restores, Goes, CallsTyped
    <2> HIDE DEF r
    <2>2. /\ CallsTyped /\ "undo ingress" \in Steps /\ prev[c] \in Binding
          /\ r \in Route /\ put[c] \in 0 .. MaxRecord
      BY <1>1, <1>2, Unchanged DEF Steps, r
    <2>3. /\ CallsTyped' /\ Aside(c) /\ pc'[c] = "undo ingress" /\ prev'[c] = prev[c]
          /\ route'[c] = r /\ put'[c] = put[c]
      BY <2>1, <2>2, Around
    <2>4. QED
      BY <2>3 DEF r
  <1>4. WorldTyped' /\ RestTyped' /\ Numbered(record', nextRecord')
    BY <1>1 DEF Restores, Base, Names, WorldTyped, RestTyped, runtime, provider
  <1>5. Grows
    BY <1>1, SameProvider DEF Restores
  <1>6. Sound(c)'
    <2>1. Good(prev'[c], secrets') /\ Whole(route'[c], secrets')
      BY <1>1, <1>2, <1>3 DEF Restores, Sound
    <2>2. /\ restoring'[c] = TRUE /\ route'[c] = prev'[c].route /\ prev'[c].mode = "DOMAIN"
      BY <1>1, <1>3 DEF Restores, CallsTyped
    <2>3. QED
      BY <1>3, <2>1, <2>2 DEF Sound, Undoing, Configuring
  <1>7. Ids(c)'
    BY <1>1, <1>2, <1>3 DEF Restores, Ids, provider
  <1>8. binding' = binding
    BY DEF Restores
  <1>9. QED
    BY <1>1, <1>3, <1>4, <1>5, <1>6, <1>7, <1>8, InBase DEF Typed

LEMMA PreservesBase ==
  ASSUME Base, NEW c \in Caller, Preserves(c), used' \in 0 .. Limit
  PROVE  Base' /\ Aside(c) /\ pc'[c] = "preserve" /\ prev'[c] = prev[c]
  <1>1. /\ CallsTyped /\ WorldTyped /\ RestTyped /\ Sound(c) /\ Ids(c)
        /\ pc[c] \in {"ingress", "list", "dns", "token"}
    BY DEF Base, Typed, Preserves
  <1>2. prev' = prev /\ route' = route /\ put' = put /\ made' = made /\ restoring' = restoring
    BY DEF Preserves, locals
  <1>3. /\ CallsTyped' /\ Aside(c) /\ pc'[c] = "preserve" /\ prev'[c] = prev[c]
        /\ route'[c] = route[c] /\ put'[c] = put[c]
    <2>1. Goes(c, "preserve", prev[c], route[c], put[c])
      BY <1>1, <1>2, Unchanged DEF Preserves, Goes, CallsTyped
    <2>2. /\ CallsTyped /\ "preserve" \in Steps /\ prev[c] \in Binding
          /\ route[c] \in Route /\ put[c] \in 0 .. MaxRecord
      BY <1>1, Unchanged DEF Steps
    <2>3. QED
      BY <2>1, <2>2, Around
  <1>4. WorldTyped' /\ RestTyped' /\ Numbered(record', nextRecord')
    BY <1>1 DEF Preserves, Base, Names, WorldTyped, RestTyped, runtime, provider
  <1>5. Grows
    BY <1>1, SameProvider DEF Preserves
  <1>6. Sound(c)'
    <2>1. Good(prev'[c], secrets') /\ restoring'[c] = FALSE
      BY <1>1, <1>2, <1>3 DEF Preserves, Sound, Undoing, CallsTyped
    <2>2. /\ route'[c].host \in Host /\ route'[c].api \in Api /\ route'[c].tunnel \in Tunnel
      BY <1>1, <1>3 DEF Sound, Configuring
    <2>3. QED
      BY <1>3, <2>1, <2>2 DEF Sound, Undoing, Configuring
  <1>7. Ids(c)'
    BY <1>1, <1>3 DEF Preserves, Ids, provider
  <1>8. binding' = binding
    BY DEF Preserves
  <1>9. QED
    BY <1>1, <1>3, <1>4, <1>5, <1>6, <1>7, <1>8, InBase DEF Typed

LEMMA ConfigureFailsBase ==
  ASSUME Base, NEW c \in Caller, ConfigureFails(c), used' \in 0 .. Limit
  PROVE  Base'
  <1>1. Sound(c) /\ astray \in BOOLEAN
    BY DEF Base, Typed, RestTyped
  <1>2. CASE Restores(c)
    BY <1>2, RestoresBase
  <1>3. CASE Preserves(c)
    BY <1>3, PreservesBase
  <1>4. ASSUME End(c), pc[c] # "idle", UNCHANGED <<binding, secrets, provider, runtime, astray>>
        PROVE  Base'
    BY <1>1, <1>4, EndBase
  <1>5. QED
    BY <1>1, <1>2, <1>3, <1>4, FailureCases

LEMMA UndoFailsBase ==
  ASSUME Base, NEW c \in Caller, UndoFails(c), used' \in 0 .. Limit
  PROVE  Base'
  <1>1. Good(prev[c], secrets) /\ Known(prev[c], record, nextRecord)
    BY DEF Base, Sound, Ids
  <1>2. pc[c] # "idle" /\ astray' \in BOOLEAN
    BY DEF UndoFails
  <1>3. CASE restoring[c]
    <2>1. Save(c, prev[c])
      BY <1>3 DEF UndoFails
    <2>2. QED
      BY <1>1, <1>2, <2>1, SaveBase
  <1>4. CASE ~restoring[c]
    <2>1. End(c) /\ UNCHANGED <<binding, secrets, provider, runtime>>
      BY <1>4 DEF UndoFails
    <2>2. QED
      BY <1>2, <2>1, EndBase
  <1>5. QED
    BY <1>3, <1>4

LEMMA KillBase ==
  ASSUME Base, NEW c \in Caller, Kill(c)
  PROVE  Base'
  <1>1. /\ pc[c] # "idle" /\ End(c) /\ UNCHANGED <<binding, secrets, provider, runtime>>
        /\ Spend /\ astray' = (astray \/ pc[c] \notin {"verify", "save verified", "save disabled"})
    BY DEF Kill, Busy
  <1>2. astray' \in BOOLEAN /\ used' \in 0 .. Limit
    BY <1>1, SpendTypes DEF Base, Typed, RestTyped
  <1>3. QED
    BY <1>1, <1>2, EndBase

\* Nothing that a command holds changes.
LEMMA OutsideBase ==
  ASSUME Base, Typed', UNCHANGED <<binding, pc, locals>>, Grows, Numbered(record', nextRecord')
  PROVE  Base'
  <1>1. \A d \in Caller : Sound(d)' /\ Ids(d)'
    <2> TAKE d \in Caller
    <2>1. Still(d)
      BY DEF Still, locals
    <2>2. QED
      BY <2>1, OthersKeep DEF Base, Typed
  <1>2. Names'
    <2>1. Good(binding, secrets')
      BY GoodMore DEF Base, Names, Grows
    <2>2. Known(binding, record', nextRecord')
      BY KnownKept DEF Base, Names, Typed, WorldTyped
    <2>3. QED
      BY <2>1, <2>2 DEF Names
  <1>3. Room'
    BY DEF Base, Room, Busy
  <1>4. QED
    BY <1>1, <1>2, <1>3 DEF Base

LEMMA RuntimeBase ==
  ASSUME Base, Look \/ Follow \/ ProcessDies
  PROVE  Base' /\ UNCHANGED <<binding, secrets, provider, pc, locals, lone, astray>>
  <1>1. UNCHANGED <<binding, secrets, provider, pc, locals, lone, astray>>
    BY DEF Look, Follow, ProcessDies
  <1>2. CallsTyped' /\ WorldTyped' /\ Numbered(record', nextRecord')
    BY <1>1 DEF Base, Names, Typed, CallsTyped, WorldTyped, locals, provider
  <1>3. seen' \in Binding
    BY DEF Base, Typed, WorldTyped, RestTyped, Look, Follow, ProcessDies
  <1>4. process' \in [stamp : 0 .. MaxSave, tunnel : Tunnel] \cup {None}
    <2>1. Wanted(seen) \in [stamp : 0 .. MaxSave, tunnel : Tunnel] \cup {None}
      <3>1. seen.stamp \in 0 .. MaxSave /\ seen.route.secret \in 0 .. MaxTunnel
        BY DEF Base, Typed, RestTyped, Binding, Route
      <3>2. seen.route.secret # 0 => seen.route.secret \in Tunnel
        BY <3>1, EdgeAssumption DEF Tunnel
      <3>3. QED
        BY <3>1, <3>2 DEF Wanted, ShouldRun, Signature
    <2>2. process' \in {process, Wanted(seen), None}
      BY DEF Look, Follow, ProcessDies
    <2>3. QED
      BY <2>1, <2>2 DEF Base, Typed, RestTyped
  <1>5. used' \in 0 .. Limit
    BY SpendTypes DEF Base, Typed, RestTyped, Look, Follow, ProcessDies
  <1>6. RestTyped'
    BY <1>1, <1>3, <1>4, <1>5 DEF Base, Typed, RestTyped
  <1>7. Grows
    BY <1>1, SameProvider DEF Base, Typed
  <1>8. QED
    BY <1>1, <1>2, <1>6, <1>7, OutsideBase DEF Typed

LEMMA ForeignBase ==
  ASSUME Base, NEW h \in Host, ForeignRecord(h)
  PROVE  Base' /\ UNCHANGED <<binding, secrets, ingress, pc, locals, runtime>>
  <1>1. /\ UNCHANGED <<binding, secrets, ingress, pc, locals, runtime>> /\ Spend
    BY DEF ForeignRecord
  <1>2. WorldTyped /\ CallsTyped /\ RestTyped /\ Numbered(record, nextRecord)
    BY DEF Base, Typed, Names
  <1> DEFINE new == [id |-> nextRecord, to |-> 0, ours |-> FALSE]
  <1>3. \/ /\ record[h] = None /\ nextRecord \in 1 .. MaxRecord
           /\ record' = [record EXCEPT ![h] = new] /\ nextRecord' = nextRecord + 1
           /\ UNCHANGED <<lone, astray>>
        \/ /\ record' = [record EXCEPT ![h] = None] /\ nextRecord' = nextRecord
           /\ lone' = {} /\ astray' = TRUE
    BY <1>2, EdgeAssumption DEF ForeignRecord, WorldTyped
  <1>4. nextRecord \in 1 .. MaxRecord => /\ new \in Record /\ new.id = nextRecord
                                         /\ nextRecord + 1 \in 1 .. MaxRecord + 1
    BY EdgeAssumption DEF Record
  <1> HIDE DEF new
  <1>5. record' \in [Host -> Record \cup {None}] /\ nextRecord' \in 1 .. MaxRecord + 1
    BY <1>2, <1>3, <1>4 DEF WorldTyped
  <1>6. WorldTyped' /\ CallsTyped'
    BY <1>1, <1>2, <1>5 DEF WorldTyped, CallsTyped, locals
  <1>7. RestTyped'
    BY <1>1, <1>2, <1>3, SpendTypes DEF RestTyped, runtime
  <1>8. /\ nextRecord <= nextRecord' /\ \A g \in Host \ {h} : record'[g] = record[g]
        /\ \/ record'[h] = None
           \/ record'[h] = new /\ nextRecord' = nextRecord + 1 /\ new.id = nextRecord
    BY <1>2, <1>3, <1>4, EdgeAssumption DEF WorldTyped
  <1>9. nextRecord \in Nat /\ \A g \in Host : record[g] # None => record[g].id \in Nat
    BY <1>2, EdgeAssumption DEF WorldTyped, Record
  <1>10. Grows
    <2>1. \A g \in Host : \/ record'[g] \in {record[g], None}
                          \/ record'[g].ours \/ record'[g].id >= nextRecord
      BY <1>8, <1>9
    <2>2. QED
      BY <1>1, <1>8, <2>1 DEF Grows
  <1>11. Numbered(record', nextRecord')
    <2>1. \A g \in Host : record'[g] # None => record'[g].id < nextRecord'
      BY <1>2, <1>8, <1>9, <1>3 DEF Numbered
    <2>2. \A g \in Host \ {h} : (record'[h] # None /\ record'[g] # None)
            => record'[g].id # record'[h].id
      BY <1>2, <1>8, <1>9 DEF Numbered
    <2>3. ASSUME NEW g \in Host, NEW k \in Host, record'[g] # None, record'[k] # None,
                 record'[g].id = record'[k].id
          PROVE  g = k
      BY <1>2, <1>8, <2>2, <2>3 DEF Numbered
    <2>4. QED
      BY <2>1, <2>3 DEF Numbered
  <1>12. QED
    BY <1>1, <1>6, <1>7, <1>10, <1>11, OutsideBase DEF Typed

-----------------------------------------------------------------------------
(* The first part of the invariant holds.                                  *)

LEMMA InitBase == Init => Base
  <1> SUFFICES ASSUME Init PROVE Base
    OBVIOUS
  <1> USE DEF Init
  <1>1. 0 \in 0 .. MaxRecord /\ 0 \in 0 .. Limit /\ 1 \in 1 .. MaxRecord + 1
    BY EdgeAssumption
  <1>2. WorldTyped
    <2>1. ingress \in [Tunnel -> {0, None} \cup Host] /\ record \in [Host -> Record \cup {None}]
      OBVIOUS
    <2>2. QED
      BY <1>1, <2>1, Constants DEF WorldTyped
  <1>3. CallsTyped
    BY <1>1, Constants DEF CallsTyped
  <1>4. RestTyped
    BY <1>1, Constants DEF RestTyped
  <1>5. Names
    BY <1>2, ZeroIsOurs, LocalIsGood DEF Names, Numbered
  <1>6. ASSUME NEW c \in Caller PROVE Sound(c) /\ Ids(c)
    <2>1. /\ pc[c] = "idle" /\ prev[c] = LocalOnly /\ route[c] = NoRoute /\ put[c] = 0
          /\ ~made[c] /\ ~restoring[c]
      OBVIOUS
    <2>2. Sound(c)
      BY <2>1, LocalIsGood DEF Sound, Configuring, Undoing
    <2>3. Ids(c)
      BY <1>2, <2>1, ZeroIsOurs DEF Ids, NoRoute
    <2>4. QED
      BY <2>2, <2>3
  <1>7. Room
    <2>1. Busy = {}
      BY DEF Busy
    <2>2. binding.stamp = 0
      BY DEF LocalOnly
    <2>3. QED
      BY <2>1, <2>2, FS_EmptySet, EdgeAssumption DEF Room
  <1>8. QED
    BY <1>2, <1>3, <1>4, <1>5, <1>6, <1>7 DEF Base, Typed

LEMMA StepBase ==
  ASSUME Base, [Next]_vars
  PROVE  Base'
  <1>1. ASSUME NEW c \in Caller, Begins(c) PROVE Base'
    BY <1>1, BeginsBase
  <1>2. ASSUME NEW c \in Caller, Step(c) PROVE Base'
    <2>1. CASE CreateTunnel(c)
      BY <2>1, CreateBase
    <2>2. CASE SetIngress(c, "ingress", "list")
      BY <2>2, IngressBase
    <2>3. CASE ListRecords(c, "list", "dns")
      BY <2>3, ListBase
    <2>4. CASE WriteRecord(c, "dns", "token")
      BY <2>4, WriteBase
    <2>5. CASE PersistToken(c)
      BY <2>5, TokenBase
    <2>6. CASE SaveConfigured(c)
      BY <2>6, ConfiguredBase
    <2>7. CASE SavePreserved(c)
      BY <2>7, PreservedBase
    <2>8. CASE SetIngress(c, "undo ingress", "undo list")
      BY <2>8, IngressBase
    <2>9. CASE ListRecords(c, "undo list", "undo dns")
      BY <2>9, ListBase
    <2>10. CASE WriteRecord(c, "undo dns", "save undone")
      BY <2>10, WriteBase
    <2>11. CASE SaveUndone(c)
      BY <2>11, UndoneBase
    <2>12. CASE Probe(c)
      BY <2>12, ProbeBase
    <2>13. CASE SaveVerified(c)
      BY <2>13, VerifiedBase
    <2>14. CASE SaveDisabled(c)
      BY <2>14, DisabledBase
    <2>15. QED
      BY <1>2, <2>1, <2>2, <2>3, <2>4, <2>5, <2>6, <2>7, <2>8, <2>9, <2>10, <2>11, <2>12,
         <2>13, <2>14 DEF Step
  <1>3. ASSUME NEW c \in Caller, Fail(c) PROVE Base'
    <2>1. used' \in 0 .. Limit
      BY <1>3, FailsSpend DEF Base, Typed
    <2>2. CASE ConfigureFails(c)
      BY <2>1, <2>2, ConfigureFailsBase
    <2>3. CASE UndoFails(c)
      BY <2>1, <2>3, UndoFailsBase
    <2>4. QED
      BY <1>3, <2>2, <2>3 DEF Fail
  <1>4. ASSUME NEW c \in Caller, Kill(c) PROVE Base'
    BY <1>4, KillBase
  <1>5. CASE Look \/ Follow \/ ProcessDies
    BY <1>5, RuntimeBase
  <1>6. ASSUME NEW h \in Host, ForeignRecord(h) PROVE Base'
    BY <1>6, ForeignBase
  <1>7. CASE UNCHANGED vars
    <2>1. UNCHANGED <<binding, secrets, record, nextRecord, ingress, pc, locals, runtime, lone,
                      astray, used>>
      BY <1>7 DEF vars, provider
    <2>2. Typed' /\ Numbered(record', nextRecord')
      BY <2>1 DEF Base, Names, Typed, WorldTyped, CallsTyped, RestTyped, locals, runtime
    <2>3. Grows
      BY <2>1, SameRecords DEF Base, Typed
    <2>4. QED
      BY <2>1, <2>2, <2>3, OutsideBase
  <1>8. QED
    BY <1>1, <1>2, <1>3, <1>4, <1>5, <1>6, <1>7 DEF Next, Begins

-----------------------------------------------------------------------------
(* The route of the provider is that of the binding.                       *)

LEMMA LoneNow ==
  ASSUME Alone, NEW c \in Caller, pc[c] # "idle"
  PROVE  /\ \A d \in lone : d = c
         /\ ~astray => c \in lone
         /\ c \in lone => /\ \A d \in Caller : d # c => pc[d] = "idle"
                          /\ prev[c].mode = binding.mode /\ prev[c].route = binding.route
  BY DEF Alone

\* A command goes on and has touched the provider.
LEMMA WorkRoutes ==
  ASSUME Base, Routes, NEW c \in Caller, pc[c] # "idle", pc'[c] \notin Quiet, Aside(c),
         lone' = lone, astray' = astray, binding' = binding, prev'[c] = prev[c],
         Achieved(c) => Achieved(c)'
  PROVE  Routes'
  <1>1. /\ Alone /\ \A d \in lone : d = c
        /\ ~astray => c \in lone
        /\ c \in lone => Achieved(c)
    BY LoneNow DEF Routes
  <1>2. pc'[c] # "idle"
    BY DEF Quiet
  <1>3. \A d \in Caller : d # c => pc'[d] = pc[d]
    BY DEF Aside, Still
  <1>4. Alone'
    <2>1. \A d \in lone' : pc'[d] # "idle" /\ \A e \in Caller : pc'[e] # "idle" => e = d
      BY <1>1, <1>2, <1>3 DEF Alone
    <2>2. ~astray' => \A d \in Caller : pc'[d] # "idle" => d \in lone'
      BY <1>1, <1>3 DEF Alone
    <2>3. \A d \in lone' : prev'[d].mode = binding'.mode /\ prev'[d].route = binding'.route
      BY <1>1 DEF Alone
    <2>4. QED
      BY <2>1, <2>2, <2>3 DEF Alone
  <1>5. \A d \in lone' : Achieved(d)'
    BY <1>1
  <1>6. Settled'
    BY DEF Settled
  <1>7. QED
    BY <1>4, <1>5, <1>6 DEF Routes

\* A command ends.
LEMMA EndRoutes ==
  ASSUME Base, Routes, NEW c \in Caller, pc[c] # "idle", End(c),
         (astray => astray') \/ c \in lone, Settled'
  PROVE  Routes'
  <1>1. /\ Alone /\ \A d \in lone : d = c
        /\ c \in lone => \A d \in Caller : d # c => pc[d] = "idle"
        /\ ~astray => c \in lone
    BY LoneNow DEF Routes
  <1>2. /\ lone' = lone \ {c} /\ pc'[c] = "idle" /\ \A d \in Caller : d # c => pc'[d] = pc[d]
    BY EndResets, EndTypes DEF Base, Typed, Aside, Still
  <1>3. lone' = {}
    BY <1>1, <1>2
  <1>4. ~astray' => \A d \in Caller : pc'[d] = "idle"
    BY <1>1, <1>2
  <1>5. Alone'
    BY <1>3, <1>4 DEF Alone
  <1>6. QED
    BY <1>3, <1>5 DEF Routes

\* Between commands, or with one that has touched nothing yet.
LEMMA QuietMatches ==
  ASSUME Routes, NEW c \in Caller, pc[c] # "idle", pc[c] \in Quiet, ~astray,
         binding.mode = "DOMAIN"
  PROVE  Matches(binding.route)
  <1>1. \A d \in Caller : d # c => pc[d] = "idle"
    BY LoneNow DEF Routes
  <1>2. \A d \in Caller : pc[d] \in Quiet
    BY <1>1 DEF Quiet
  <1>3. QED
    BY <1>2 DEF Routes, Settled

LEMMA MatchesKept ==
  ASSUME UNCHANGED provider, NEW r, Matches(r), binding'.route = r
  PROVE  Matches(binding.route)'
  BY DEF Matches, provider

LEMMA Saved ==
  ASSUME NEW c, NEW b, Save(c, b), b \in Binding
  PROVE  /\ binding'.mode = b.mode /\ binding'.route = b.route
         /\ End(c) /\ UNCHANGED provider
  BY DEF Save, Binding

LEMMA BeginRoutes ==
  ASSUME Base, Routes, NEW c \in Caller, Begins(c)
  PROVE  Routes'
  <1>1. /\ Aside(c) /\ pc[c] = "idle" /\ prev'[c] = binding
        /\ pc'[c] \in {"create", "ingress", "undo ingress", "verify", "save disabled"}
    BY BeginsBase
  <1>2. /\ binding' = binding /\ UNCHANGED provider
        /\ \/ Busy = {} /\ lone' = {c} /\ astray' = astray
           \/ lone' = {} /\ astray' = TRUE
    BY DEF Begins, Configure, Verify, Disable, Rollback, Begin
  <1>3. CASE Busy = {} /\ lone' = {c} /\ astray' = astray
    <2>1. \A d \in Caller : pc[d] = "idle"
      BY <1>3 DEF Busy
    <2>2. \A d \in Caller : d # c => pc'[d] = "idle"
      BY <1>1, <2>1 DEF Aside, Still
    <2>3. Alone'
      BY <1>1, <1>2, <1>3, <2>2 DEF Alone
    <2>4. \A d \in lone' : Achieved(d)'
      BY <1>1, <1>3 DEF Achieved
    <2>5. Settled'
      <3>1. \A d \in Caller : pc[d] \in Quiet
        BY <2>1 DEF Quiet
      <3>2. ASSUME ~astray', binding'.mode = "DOMAIN" PROVE Matches(binding.route)'
        <4>1. Matches(binding.route)
          BY <1>2, <1>3, <3>1, <3>2 DEF Routes, Settled
        <4>2. QED
          BY <1>2, <4>1 DEF Matches, provider
      <3>3. QED
        BY <3>2 DEF Settled
    <2>6. QED
      BY <2>3, <2>4, <2>5 DEF Routes
  <1>4. CASE lone' = {} /\ astray' = TRUE
    BY <1>4 DEF Routes, Alone, Settled
  <1>5. QED
    BY <1>2, <1>3, <1>4

\* The steps of a command that works at the provider.
LEMMA CreateRoutes ==
  ASSUME Base, Routes, NEW c \in Caller, CreateTunnel(c)
  PROVE  Routes'
  <1>1. Aside(c) /\ CallsTyped
    BY CreateBase DEF Base, Typed
  <1>2. /\ pc[c] # "idle" /\ pc'[c] = "ingress" /\ lone' = lone /\ astray' = astray
        /\ binding' = binding /\ prev' = prev
    BY <1>1 DEF CreateTunnel, At, Goto, CallsTyped
  <1>3. pc'[c] \notin Quiet /\ Achieved(c)'
    BY <1>2 DEF Quiet, Achieved
  <1>4. QED
    BY <1>1, <1>2, <1>3, WorkRoutes

LEMMA IngressRoutes ==
  ASSUME Base, Routes, NEW c \in Caller, NEW from, NEW to,
         \/ from = "ingress" /\ to = "list"
         \/ from = "undo ingress" /\ to = "undo list",
         SetIngress(c, from, to)
  PROVE  Routes'
  <1>1. Aside(c) /\ pc'[c] = to /\ route' = route
    BY IngressBase
  <1>2. /\ pc[c] # "idle" /\ lone' = lone /\ astray' = astray /\ binding' = binding
        /\ prev' = prev /\ ingress' = [ingress EXCEPT ![route[c].tunnel] = route[c].host]
    BY DEF SetIngress, At, Goto, locals
  <1>3. route[c].tunnel \in Tunnel
    BY DEF Base, Typed, WorldTyped, Sound, Whole, Undoing, SetIngress, At
  <1>4. ingress'[route[c].tunnel] = route[c].host
    BY <1>2, <1>3 DEF Base, Typed, WorldTyped
  <1>5. pc'[c] \notin Quiet /\ Achieved(c)'
    BY <1>1, <1>4 DEF Quiet, Achieved
  <1>6. QED
    BY <1>1, <1>2, <1>5, WorkRoutes

LEMMA ListRoutes ==
  ASSUME Base, Routes, NEW c \in Caller, NEW from, NEW to,
         \/ from = "list" /\ to = "dns"
         \/ from = "undo list" /\ to = "undo dns",
         ListRecords(c, from, to)
  PROVE  Routes'
  <1>1. Aside(c) /\ pc'[c] = to /\ route' = route
    BY ListBase
  <1>2. /\ pc[c] = from /\ pc[c] # "idle" /\ lone' = lone /\ astray' = astray
        /\ binding' = binding /\ prev' = prev /\ UNCHANGED provider
    BY DEF ListRecords, At, Goto, Locally
  <1>3. pc'[c] \notin Quiet /\ (Achieved(c) => Achieved(c)')
    BY <1>1, <1>2 DEF Quiet, Achieved, provider
  <1>4. QED
    BY <1>1, <1>2, <1>3, WorkRoutes

LEMMA WriteRoutes ==
  ASSUME Base, Routes, NEW c \in Caller, NEW from, NEW to,
         \/ from = "dns" /\ to = "token"
         \/ from = "undo dns" /\ to = "save undone",
         WriteRecord(c, from, to)
  PROVE  Routes'
  <1>1. /\ Aside(c) /\ pc'[c] = to
        /\ route'[c].host = route[c].host /\ route'[c].tunnel = route[c].tunnel
    BY WriteBase
  <1>2. /\ pc[c] = from /\ pc[c] # "idle" /\ lone' = lone /\ astray' = astray
        /\ binding' = binding /\ prev' = prev /\ ingress' = ingress
        /\ route' = [route EXCEPT ![c].dns = Id(c)] /\ Written(c)
    BY DEF WriteRecord, Written, At, Goto, Id
  <1>3. route'[c].dns = Id(c)
    BY <1>2 DEF Base, Typed, CallsTyped, Route
  <1>4. record'[route[c].host] = [id |-> Id(c), to |-> route[c].tunnel, ours |-> TRUE]
    BY <1>2, WriteRecords
  <1>5. Achieved(c) => ingress[route[c].tunnel] = route[c].host
    BY <1>2 DEF Achieved
  <1>6. pc'[c] \notin Quiet /\ (Achieved(c) => Achieved(c)')
    BY <1>1, <1>2, <1>3, <1>4, <1>5 DEF Quiet, Achieved
  <1>7. prev'[c] = prev[c]
    BY <1>2
  <1>8. QED
    BY <1>1, <1>2, <1>6, <1>7, WorkRoutes

LEMMA TokenRoutes ==
  ASSUME Base, Routes, NEW c \in Caller, PersistToken(c)
  PROVE  Routes'
  <1>1. /\ Aside(c) /\ pc'[c] = "save"
        /\ route'[c].host = route[c].host /\ route'[c].tunnel = route[c].tunnel
        /\ route'[c].dns = route[c].dns
    BY TokenBase
  <1>2. /\ pc[c] = "token" /\ lone' = lone /\ astray' = astray
        /\ binding' = binding /\ prev' = prev /\ ingress' = ingress /\ record' = record
    BY DEF PersistToken, At, Goto, provider
  <1>3. pc'[c] \notin Quiet /\ (Achieved(c) => Achieved(c)')
    BY <1>1, <1>2 DEF Quiet, Achieved
  <1>4. QED
    BY <1>1, <1>2, <1>3, WorkRoutes

-----------------------------------------------------------------------------
(* The ends.                                                               *)

LEMMA ConfiguredRoutes ==
  ASSUME Base, Routes, NEW c \in Caller, SaveConfigured(c)
  PROVE  Routes'
  <1> DEFINE b == [mode |-> "DOMAIN", state |-> "CONFIGURED", route |-> route[c],
                   rollback |-> IF prev[c].mode = "DOMAIN" THEN prev[c].route ELSE None,
                   stamp |-> 0]
  <1>1. /\ pc[c] = "save" /\ Save(c, b)
        /\ astray' = (IF c \in lone THEN FALSE ELSE astray)
    BY DEF SaveConfigured, At
  <1>2. /\ binding'.route = route[c] /\ End(c) /\ UNCHANGED provider
    BY <1>1 DEF Save
  <1>3. Settled'
    <2>1. SUFFICES ASSUME ~astray' PROVE Matches(binding.route)'
      BY DEF Settled
    <2>2. c \in lone
      BY <1>1, <2>1, LoneNow DEF Routes
    <2>3. Matches(route[c])
      BY <1>1, <2>2 DEF Routes, Achieved, Matches
    <2>4. QED
      BY <1>2, <2>3, MatchesKept
  <1>4. QED
    BY <1>1, <1>2, <1>3, EndRoutes

LEMMA PreservedRoutes ==
  ASSUME Base, Routes, NEW c \in Caller, SavePreserved(c)
  PROVE  Routes'
  <1> DEFINE b == [LocalOnly EXCEPT !.state = "NEEDS_ACTION", !.route.api = route[c].api,
                                    !.route.tunnel = route[c].tunnel]
  <1>1. pc[c] # "idle" /\ Save(c, b) /\ astray' = astray
    BY DEF SavePreserved, At
  <1>2. b.mode = LocalOnly.mode /\ LocalOnly.mode = "LOCAL"
    BY DEF LocalOnly
  <1>3. binding'.mode = b.mode /\ End(c)
    BY <1>1 DEF Save
  <1>4. Settled'
    BY <1>2, <1>3 DEF Settled
  <1>5. QED
    BY <1>1, <1>3, <1>4, EndRoutes

LEMMA UndoneRoutes ==
  ASSUME Base, Routes, NEW c \in Caller, SaveUndone(c)
  PROVE  Routes'
  <1> DEFINE b == [mode |-> "DOMAIN", state |-> "CONFIGURED", route |-> route[c],
                   rollback |-> None, stamp |-> 0]
  <1>1. /\ pc[c] = "save undone" /\ Save(c, IF restoring[c] THEN prev[c] ELSE b)
        /\ astray' = (IF c \in lone /\ ~restoring[c] THEN FALSE ELSE astray) /\ Sound(c)
    BY DEF SaveUndone, At, Base
  <1>2. b.route = route[c]
    OBVIOUS
  <1> HIDE DEF b
  <1>3. binding'.route = route[c] /\ End(c) /\ UNCHANGED provider
    <2>1. CASE restoring[c]
      <3>1. Save(c, prev[c]) /\ prev[c] \in Binding /\ prev[c].route = route[c]
        BY <1>1, <2>1 DEF Sound, Good
      <3>2. QED
        BY <3>1, Saved
    <2>2. CASE ~restoring[c]
      <3>1. Save(c, b)
        BY <1>1, <2>2
      <3>2. QED
        BY <3>1 DEF Save, b
    <2>3. QED
      BY <2>1, <2>2
  <1>4. Settled'
    <2>1. SUFFICES ASSUME ~astray' PROVE Matches(binding.route)'
      BY DEF Settled
    <2>2. c \in lone
      BY <1>1, <2>1, LoneNow DEF Routes
    <2>3. Matches(route[c])
      BY <1>1, <2>2 DEF Routes, Achieved, Matches
    <2>4. QED
      BY <1>3, <2>3, MatchesKept
  <1>5. QED
    BY <1>1, <1>3, <1>4, EndRoutes

LEMMA VerifiedRoutes ==
  ASSUME Base, Routes, NEW c \in Caller, SaveVerified(c)
  PROVE  Routes'
  <1>1. pc[c] = "save verified" /\ Save(c, prev[c]) /\ astray' = astray /\ prev[c] \in Binding
    BY DEF SaveVerified, At, Base, Sound, Good
  <1>2. /\ binding'.mode = prev[c].mode /\ binding'.route = prev[c].route
        /\ End(c) /\ UNCHANGED provider
    BY <1>1, Saved
  <1>3. Settled'
    <2>1. SUFFICES ASSUME ~astray', binding'.mode = "DOMAIN" PROVE Matches(binding.route)'
      BY DEF Settled
    <2>2. prev[c].mode = binding.mode /\ prev[c].route = binding.route
      BY <1>1, <2>1, LoneNow DEF Routes
    <2>3. Matches(binding.route)
      BY <1>1, <1>2, <2>1, <2>2, QuietMatches DEF Quiet
    <2>4. QED
      BY <1>2, <2>2, <2>3, MatchesKept
  <1>4. QED
    BY <1>1, <1>2, <1>3, EndRoutes

LEMMA DisabledRoutes ==
  ASSUME Base, Routes, NEW c \in Caller, SaveDisabled(c)
  PROVE  Routes'
  <1> DEFINE b == [prev[c] EXCEPT !.state = "DISABLED", !.mode = "LOCAL"]
  <1>1. pc[c] # "idle" /\ Save(c, b) /\ astray' = astray /\ prev[c] \in Binding
    BY DEF SaveDisabled, At, Base, Sound, Good
  <1>2. b \in Binding /\ b.mode = "LOCAL"
    BY <1>1 DEF Binding
  <1> HIDE DEF b
  <1>3. binding'.mode = "LOCAL" /\ End(c)
    BY <1>1, <1>2, Saved
  <1>4. Settled'
    BY <1>3 DEF Settled
  <1>5. QED
    BY <1>1, <1>3, <1>4, EndRoutes

\* A command that has touched nothing, or stands for no route, ends.
LEMMA QuietEnd ==
  ASSUME Base, Routes, NEW c \in Caller, pc[c] # "idle", End(c), binding' = binding,
         UNCHANGED provider, astray => astray',
         ~astray' => pc[c] \in Quiet \/ binding.mode = "LOCAL"
  PROVE  Routes'
  <1>1. Settled'
    <2>1. SUFFICES ASSUME ~astray', binding.mode = "DOMAIN" PROVE Matches(binding.route)'
      BY DEF Settled
    <2>2. Matches(binding.route)
      BY <2>1, QuietMatches
    <2>3. QED
      BY <2>2, MatchesKept
  <1>2. QED
    BY <1>1, EndRoutes

LEMMA ProbeRoutes ==
  ASSUME Base, Routes, NEW c \in Caller, Probe(c)
  PROVE  Routes'
  <1>1. pc[c] = "verify" /\ CallsTyped
    BY DEF Probe, At, Base, Typed
  <1>2. ASSUME NEW s \in {"READY", "DEGRADED"}, Probed(c, s)
        PROVE  Routes'
    <2>1. /\ pc' = [pc EXCEPT ![c] = "save verified"] /\ prev' = [prev EXCEPT ![c].state = s]
          /\ lone' = lone /\ astray' = astray /\ binding' = binding /\ UNCHANGED provider
      BY <1>2 DEF Probed, Goto
    <2>2. /\ pc'[c] = "save verified" /\ \A d \in Caller : d # c => pc'[d] = pc[d]
          /\ prev'[c].mode = prev[c].mode /\ prev'[c].route = prev[c].route
          /\ \A d \in Caller : d # c => prev'[d] = prev[d]
      BY <1>1, <2>1 DEF CallsTyped, Binding
    <2>3. \A d \in lone : d = c /\ d \in Caller
      BY <1>1, LoneNow DEF Routes, Base, Typed, RestTyped
    <2>4. \A d \in Caller : pc[d] # "idle" <=> pc'[d] # "idle"
      BY <1>1, <2>2
    <2>5. Alone'
      <3>1. \A d \in lone' : pc'[d] # "idle" /\ \A e \in Caller : pc'[e] # "idle" => e = d
        BY <2>1, <2>3, <2>4 DEF Routes, Alone
      <3>2. ~astray' => \A d \in Caller : pc'[d] # "idle" => d \in lone'
        BY <2>1, <2>4 DEF Routes, Alone
      <3>3. \A d \in lone' : prev'[d].mode = binding'.mode /\ prev'[d].route = binding'.route
        BY <2>1, <2>2, <2>3 DEF Routes, Alone
      <3>4. QED
        BY <3>1, <3>2, <3>3 DEF Alone
    <2>6. \A d \in lone' : Achieved(d)'
      BY <2>1, <2>2, <2>3 DEF Achieved
    <2>7. Settled'
      <3>1. SUFFICES ASSUME ~astray', binding'.mode = "DOMAIN" PROVE Matches(binding.route)'
        BY DEF Settled
      <3>2. Matches(binding.route)
        BY <1>1, <2>1, <3>1, QuietMatches DEF Quiet
      <3>3. QED
        BY <2>1, <3>2, MatchesKept
    <2>8. QED
      BY <2>5, <2>6, <2>7 DEF Routes
  <1>3. ASSUME End(c), UNCHANGED <<binding, secrets, provider, runtime, astray, used>>
        PROVE  Routes'
    BY <1>1, <1>3, QuietEnd DEF Quiet
  <1>4. QED
    BY <1>2, <1>3 DEF Probe, Probed

LEMMA FailRoutes ==
  ASSUME Base, Routes, NEW c \in Caller, Fail(c)
  PROVE  Routes'
  <1>1. Sound(c) /\ used' \in 0 .. Limit /\ CallsTyped
    BY FailsSpend DEF Base, Typed
  <1>2. CASE Restores(c)
    <2>1. Aside(c) /\ pc'[c] = "undo ingress" /\ prev'[c] = prev[c]
      BY <1>1, <1>2, RestoresBase
    <2>2. pc[c] # "idle" /\ lone' = lone /\ astray' = astray /\ binding' = binding
      BY <1>2 DEF Restores
    <2>3. pc'[c] \notin Quiet /\ Achieved(c)'
      BY <2>1 DEF Quiet, Achieved
    <2>4. QED
      BY <2>1, <2>2, <2>3, WorkRoutes
  <1>3. CASE Preserves(c)
    <2>1. Aside(c) /\ pc'[c] = "preserve" /\ prev'[c] = prev[c]
      BY <1>1, <1>3, PreservesBase
    <2>2. pc[c] # "idle" /\ lone' = lone /\ astray' = astray /\ binding' = binding
      BY <1>3 DEF Preserves
    <2>3. pc'[c] \notin Quiet /\ Achieved(c)'
      BY <2>1 DEF Quiet, Achieved
    <2>4. QED
      BY <2>1, <2>2, <2>3, WorkRoutes
  <1>4. ASSUME pc[c] = "create" \/ prev[c].mode = "LOCAL", End(c), pc[c] # "idle",
               UNCHANGED <<binding, secrets, provider, runtime, astray>>
        PROVE  Routes'
    <2>1. ~astray' => pc[c] \in Quiet \/ binding.mode = "LOCAL"
      BY <1>4, LoneNow DEF Routes, Quiet
    <2>2. QED
      BY <1>4, <2>1, QuietEnd
  <1>5. CASE UndoFails(c)
    <2>1. astray' = TRUE /\ End(c) /\ pc[c] # "idle"
      BY <1>5 DEF UndoFails, Save
    <2>2. Settled'
      BY <2>1 DEF Settled
    <2>3. QED
      BY <2>1, <2>2, EndRoutes
  <1>6. QED
    BY <1>1, <1>2, <1>3, <1>4, <1>5, FailureCases DEF Fail

LEMMA KillRoutes ==
  ASSUME Base, Routes, NEW c \in Caller, Kill(c)
  PROVE  Routes'
  <1>1. /\ pc[c] # "idle" /\ End(c) /\ binding' = binding /\ UNCHANGED provider
        /\ astray' = (astray \/ pc[c] \notin {"verify", "save verified", "save disabled"})
    BY DEF Kill, Busy
  <1>2. /\ astray => astray'
        /\ ~astray' => pc[c] \in Quiet
    BY <1>1 DEF Quiet
  <1>3. QED
    BY <1>1, <1>2, QuietEnd

-----------------------------------------------------------------------------
(* The outside.                                                            *)

LEMMA SameRoutes ==
  ASSUME Routes, UNCHANGED <<binding, provider, pc, locals, lone, astray>>
  PROVE  Routes'
  <1>1. Alone'
    BY DEF Routes, Alone, locals
  <1>2. \A d \in lone' : Achieved(d)'
    BY DEF Routes, Achieved, locals, provider
  <1>3. Settled'
    BY DEF Routes, Settled, Matches, provider
  <1>4. QED
    BY <1>1, <1>2, <1>3 DEF Routes

LEMMA OursIsRecord ==
  ASSUME NEW r, r \in Route, r.tunnel \in Tunnel, r.dns # 0
  PROVE  [id |-> r.dns, to |-> r.tunnel, ours |-> TRUE] # None
  <1>1. r.dns \in 1 .. MaxRecord /\ r.tunnel \in 0 .. MaxTunnel
    BY EdgeAssumption, Bounds DEF Route
  <1>2. [id |-> r.dns, to |-> r.tunnel, ours |-> TRUE] \in Record
    BY <1>1 DEF Record
  <1>3. QED
    BY <1>2, RecordAssumption

LEMMA ForeignRoutes ==
  ASSUME Base, Routes, NEW h \in Host, ForeignRecord(h)
  PROVE  Routes'
  <1>1. UNCHANGED <<binding, secrets, ingress, pc, locals, runtime>>
    BY DEF ForeignRecord
  <1>2. CASE record[h] # None
    <2>1. lone' = {} /\ astray' = TRUE
      BY <1>2 DEF ForeignRecord
    <2>2. QED
      BY <2>1 DEF Routes, Alone, Settled
  <1>3. CASE record[h] = None
    <2>1. /\ lone' = lone /\ astray' = astray
          /\ record' = [record EXCEPT ![h] = [id |-> nextRecord, to |-> 0, ours |-> FALSE]]
      BY <1>3 DEF ForeignRecord
    <2>2. \A g \in Host : record[g] # None => record'[g] = record[g]
      BY <1>3, <2>1 DEF Base, Typed, WorldTyped
    <2>3. ASSUME NEW r, r \in Route, r.host \in Host, r.tunnel \in Tunnel, r.dns # 0,
                 record[r.host] = [id |-> r.dns, to |-> r.tunnel, ours |-> TRUE]
          PROVE  record'[r.host] = [id |-> r.dns, to |-> r.tunnel, ours |-> TRUE]
      BY <2>2, <2>3, OursIsRecord
    <2>4. Alone'
      BY <1>1, <2>1 DEF Routes, Alone, locals
    <2>5. ASSUME NEW d \in lone PROVE Achieved(d)'
      <3>1. /\ d \in Caller /\ Sound(d) /\ Achieved(d)
            /\ route[d] \in Route /\ secrets \subseteq Tunnel
        BY DEF Base, Typed, RestTyped, CallsTyped, WorldTyped, Routes
      <3>2. pc[d] \in {"token", "save", "save undone"}
              => /\ route[d].host \in Host /\ route[d].tunnel \in Tunnel /\ route[d].dns # 0
                 /\ record[route[d].host]
                      = [id |-> route[d].dns, to |-> route[d].tunnel, ours |-> TRUE]
        BY <3>1 DEF Sound, Achieved, Whole, Configuring, Undoing
      <3>3. pc[d] \in {"token", "save", "save undone"}
              => record'[route[d].host]
                   = [id |-> route[d].dns, to |-> route[d].tunnel, ours |-> TRUE]
        BY <3>1, <3>2, <2>3
      <3>4. QED
        BY <1>1, <3>1, <3>3 DEF Achieved, locals
    <2>6. Settled'
      <3>1. SUFFICES ASSUME ~astray, binding.mode = "DOMAIN", \A c \in Caller : pc[c] \in Quiet
                     PROVE  Matches(binding.route)'
        BY <1>1, <2>1 DEF Settled
      <3>2. Matches(binding.route) /\ Whole(binding.route, secrets) /\ secrets \subseteq Tunnel
        BY <3>1 DEF Routes, Settled, Base, Names, Good, Typed, WorldTyped
      <3>3. /\ binding.route \in Route /\ binding.route.host \in Host
            /\ binding.route.tunnel \in Tunnel /\ binding.route.dns # 0
        BY <3>2 DEF Whole
      <3>4. QED
        BY <1>1, <2>3, <3>2, <3>3 DEF Matches
    <2>7. QED
      BY <2>1, <2>4, <2>5, <2>6 DEF Routes
  <1>4. QED
    BY <1>2, <1>3

LEMMA StepRoutes ==
  ASSUME IInv, [Next]_vars
  PROVE  Routes'
  <1>0. Base /\ Routes
    BY DEF IInv
  <1>1. ASSUME NEW c \in Caller, Begins(c) PROVE Routes'
    BY <1>0, <1>1, BeginRoutes
  <1>2. ASSUME NEW c \in Caller, Step(c) PROVE Routes'
    <2>1. CASE CreateTunnel(c)
      BY <1>0, <2>1, CreateRoutes
    <2>2. CASE SetIngress(c, "ingress", "list")
      BY <1>0, <2>2, IngressRoutes
    <2>3. CASE ListRecords(c, "list", "dns")
      BY <1>0, <2>3, ListRoutes
    <2>4. CASE WriteRecord(c, "dns", "token")
      BY <1>0, <2>4, WriteRoutes
    <2>5. CASE PersistToken(c)
      BY <1>0, <2>5, TokenRoutes
    <2>6. CASE SaveConfigured(c)
      BY <1>0, <2>6, ConfiguredRoutes
    <2>7. CASE SavePreserved(c)
      BY <1>0, <2>7, PreservedRoutes
    <2>8. CASE SetIngress(c, "undo ingress", "undo list")
      BY <1>0, <2>8, IngressRoutes
    <2>9. CASE ListRecords(c, "undo list", "undo dns")
      BY <1>0, <2>9, ListRoutes
    <2>10. CASE WriteRecord(c, "undo dns", "save undone")
      BY <1>0, <2>10, WriteRoutes
    <2>11. CASE SaveUndone(c)
      BY <1>0, <2>11, UndoneRoutes
    <2>12. CASE Probe(c)
      BY <1>0, <2>12, ProbeRoutes
    <2>13. CASE SaveVerified(c)
      BY <1>0, <2>13, VerifiedRoutes
    <2>14. CASE SaveDisabled(c)
      BY <1>0, <2>14, DisabledRoutes
    <2>15. QED
      BY <1>2, <2>1, <2>2, <2>3, <2>4, <2>5, <2>6, <2>7, <2>8, <2>9, <2>10, <2>11, <2>12,
         <2>13, <2>14 DEF Step
  <1>3. ASSUME NEW c \in Caller, Fail(c) PROVE Routes'
    BY <1>0, <1>3, FailRoutes
  <1>4. ASSUME NEW c \in Caller, Kill(c) PROVE Routes'
    BY <1>0, <1>4, KillRoutes
  <1>5. CASE Look \/ Follow \/ ProcessDies
    <2>1. UNCHANGED <<binding, secrets, provider, pc, locals, lone, astray>>
      BY <1>0, <1>5, RuntimeBase
    <2>2. QED
      BY <1>0, <2>1, SameRoutes
  <1>6. ASSUME NEW h \in Host, ForeignRecord(h) PROVE Routes'
    BY <1>0, <1>6, ForeignRoutes
  <1>7. CASE UNCHANGED vars
    <2>1. UNCHANGED <<binding, provider, pc, locals, lone, astray>>
      BY <1>7 DEF vars
    <2>2. QED
      BY <1>0, <2>1, SameRoutes
  <1>8. QED
    BY <1>1, <1>2, <1>3, <1>4, <1>5, <1>6, <1>7 DEF Next, Begins

-----------------------------------------------------------------------------
(* The theorems.                                                           *)

LEMMA InitIInv == Init => IInv
  <1> SUFFICES ASSUME Init PROVE IInv
    OBVIOUS
  <1>1. lone = {} /\ \A c \in Caller : pc[c] = "idle"
    BY DEF Init
  <1>2. binding.mode = "LOCAL"
    BY DEF Init, LocalOnly
  <1>3. Routes
    BY <1>1, <1>2 DEF Routes, Alone, Settled
  <1>4. QED
    BY <1>3, InitBase DEF IInv

LEMMA Inductive == IInv /\ [Next]_vars => IInv'
  BY StepBase, StepRoutes DEF IInv

THEOREM Invariance == Spec => []IInv
  BY InitIInv, Inductive, PTL DEF Spec

\* Every variable holds a value of its kind, and binding.json is always one
\* that its readers know: a DOMAIN binding has a state of its own and the
\* SecretRef of a tunnel's token (EdgeBinding, edge.py).
THEOREM TypeCorrect == Spec => []TypeOK
  <1>1. IInv => TypeOK
    BY TypeParts DEF IInv, Base
  <1>2. QED
    BY <1>1, Invariance, PTL

\* Between commands the provider has the binding's route and its token is
\* stored, unless commands have overlapped, or one was killed or could not
\* undo what it had begun (configure, rollback, edge.py).
THEOREM RouteStaysTheBinding == Spec => []RouteIsTheBinding
  <1>1. IInv => RouteIsTheBinding
    <2> SUFFICES ASSUME IInv, Busy = {}, ~astray, binding.mode = "DOMAIN"
                 PROVE  /\ Matches(binding.route)
                        /\ binding.route.secret = binding.route.tunnel
                        /\ binding.route.secret \in secrets
      BY DEF RouteIsTheBinding, Matches
    <2>1. \A c \in Caller : pc[c] \in Quiet
      BY DEF Busy, Quiet
    <2>2. Matches(binding.route)
      BY <2>1 DEF IInv, Routes, Settled
    <2>3. Whole(binding.route, secrets)
      BY DEF IInv, Base, Names, Good
    <2>4. QED
      BY <2>2, <2>3 DEF Whole
  <1>2. QED
    BY <1>1, Invariance, PTL

\* No step overwrites a CNAME that GenOS did not make, although it may have
\* appeared after the names were listed (upsert_dns_cname, edge.py).
THEOREM ForeignRecordsStay == Spec => ForeignRecordsAreKept
  <1> DEFINE Kept == \A h \in Host :
                       (record[h] # None /\ ~record[h].ours) => record'[h] \in {record[h], None}
  <1>1. ASSUME IInv, [Next]_vars PROVE [Kept]_vars
    <2>0. Base /\ WorldTyped
      BY <1>1 DEF IInv, Base, Typed
    <2>1. ASSUME NEW c \in Caller, NEW from, NEW to,
                 \/ from = "dns" /\ to = "token"
                 \/ from = "undo dns" /\ to = "save undone",
                 WriteRecord(c, from, to)
          PROVE  Kept
      <3>1. Written(c)
        BY <2>1 DEF WriteRecord, Written, At, Id
      <3>2. QED
        BY <2>0, <3>1, WriteRecords
    <2>2. ASSUME NEW h \in Host, ForeignRecord(h) PROVE Kept
      BY <2>0, <2>2 DEF ForeignRecord, WorldTyped
    <2>3. ASSUME record' = record PROVE Kept
      BY <2>3
    <2>4. ASSUME NEW c \in Caller, Begins(c) \/ Fail(c) \/ Kill(c) PROVE record' = record
      BY <2>4 DEF Begins, Configure, Verify, Disable, Rollback, Begin, Fail, ConfigureFails,
                  UndoFails, Kill, Save, provider
    <2>5. ASSUME NEW c \in Caller, Step(c)
          PROVE  \/ WriteRecord(c, "dns", "token") \/ WriteRecord(c, "undo dns", "save undone")
                 \/ record' = record
      BY <2>5 DEF Step, CreateTunnel, SetIngress, ListRecords, Locally, PersistToken,
                  SaveConfigured, SavePreserved, SaveUndone, Probe, SaveVerified,
                  SaveDisabled, Save, provider
    <2>6. ASSUME Look \/ Follow \/ ProcessDies PROVE record' = record
      BY <2>6 DEF Look, Follow, ProcessDies, provider
    <2> HIDE DEF Kept
    <2>7. CASE Next
      BY <2>1, <2>2, <2>3, <2>4, <2>5, <2>6, <2>7 DEF Next, Begins
    <2>8. QED
      BY <1>1, <2>7
  <1>2. QED
    BY <1>1, Invariance, PTL DEF Spec, ForeignRecordsAreKept

===============================================================================
