-------------------------- MODULE LogDelivery_proofs --------------------------
(***************************************************************************)
(* Proofs about the delivery of log events, for any plugins, sizes of      *)
(* queue, batch and files, and any number of events and troubles.          *)
(***************************************************************************)
EXTENDS LogDelivery, Selection_proofs, FiniteSetTheorems

(* The types, with the domains and the fields.                             *)
Requests == [method : {"append", "renew"}, items : Seq(Events), token : Fresh..Dead, late : Nat]
LineType == [seq : Nat, event : Events] \cup {Partial, Glued}

LogType(l) ==
    /\ l \in [files : [Numbers -> Seq(LineType)], next : Nat]
    /\ \A i \in Numbers : Len(l.files[i]) <= FileSize

ClientTypes ==
    /\ queue \in Seq(Events) /\ dropped \in Nat /\ timer \in BOOLEAN
    /\ call \in [at : Calls, items : Seq(Events)] /\ Len(call.items) <= BatchSize
    /\ backoff \in BOOLEAN /\ warned \in BOOLEAN /\ token \in Fresh..Dead
    /\ emitted \in 0..MaxEvents /\ warnings \in Nat /\ lost \subseteq Ids

CoreTypes ==
    /\ up \in BOOLEAN /\ plan \subseteq Plugins /\ used \in 0..Rate
    /\ stored \in Seq(Events) /\ troubles \in 0..MaxTroubles /\ illFormed \in Nat
    /\ broken \subseteq Failures

WireTypes == wire \subseteq Requests /\ IsFiniteSet(wire)

Types == ClientTypes /\ CoreTypes /\ WireTypes

(* No timer is set during a delivery, and the request somebody waits for   *)
(* is that of the delivery under way.                                      *)
IdleIff == (call.at = "idle" <=> call.items = <<>>) /\ (timer => call.at = "idle")

OneAwaited ==
    /\ IdleIff
    /\ \A r \in wire : Awaited(r) =>
          /\ call.at \in Waiting /\ r.items = call.items
          /\ r.method = "renew" <=> call.at \in {"renewing", "forcing"}
          /\ r.method = "renew" => r.token = token
    /\ \A r, s \in wire : Awaited(r) /\ Awaited(s) => r = s

(* A warning follows a trouble of its own, and so does a notice.           *)
Flag(b) == IF b THEN 1 ELSE 0
WarningsAccounted == warnings + Flag(~warned /\ (~up \/ token = Dead)) <= troubles
LengthAccounted == Len(queue) + Flag(dropped > 0) <= QueueSize + emitted + warnings

(* Events that were emitted, wherever they are.                            *)
Batches == {call.items} \cup {r.items : r \in wire}
Around == ToSet(queue) \cup ToSet(stored) \cup UNION {ToSet(b) : b \in Batches}
Real(e) == e.id \in 1..emitted

KnownIds ==
    /\ \A e \in Around : Real(e) \/ e.id = 0 \/ e.id > MaxEvents
    /\ \A e, f \in Around : Real(e) /\ e.id = f.id => e = f

InOrder(q) ==
    \A i, k \in 1..Len(q) : i < k /\ Real(q[i]) /\ Real(q[k]) => q[i].id < q[k].id

Accounted == \A id \in 1..emitted : Queued(id) \/ id \in lost \/ Written(id) # {}

(* Of what a batch overtakes nothing is still to be written.               *)
Covers(b) ==
    \A j \in 1..Len(b) : \A e \in Around : Overtaken(b[j], e) =>
        \/ e.id \in lost \/ Written(e.id) # {}
        \/ \E h \in 1..Len(b) : h < j /\ b[h].id = e.id
BatchesCover == \A b \in Batches : InOrder(b) /\ Covers(b)
StoredCovers ==
    \A i \in 1..Len(stored) : \A e \in Around : Overtaken(stored[i], e) =>
        e.id \in lost \/ \E first \in Written(e.id) : first < i

(* The copies of an event: written, in requests that nobody waits for, and *)
(* what the client may still send.                                         *)
Has(b, id) == \E j \in 1..Len(b) : b[j].id = id
Stray(id) == {r \in wire : ~Awaited(r) /\ r.method = "append" /\ Has(r.items, id)}
Live(id) == Queued(id) \/ Has(call.items, id)
Copies ==
    \A id \in 1..emitted :
        Cardinality(Written(id)) + Cardinality(Stray(id)) + Flag(Live(id)) <= 1 + troubles

Control == Types /\ OneAwaited /\ WarningsAccounted /\ LengthAccounted
-------------------------------------------------------------------------------
(* The operators on the queue.                                             *)
LEMMA Constants ==
    /\ QueueSize \in Nat /\ QueueSize # 0 /\ BatchSize \in Nat /\ BatchSize # 0
    /\ Rate \in Nat /\ MaxEvents \in Nat /\ MaxTroubles \in Nat
    /\ Fresh = 0 /\ DueAge = 1 /\ Expired = 2 /\ Dead = 3
    /\ Notice \in Events
  BY DeliveryAssumption
     DEF Fresh, DueAge, Expired, Dead, Notice, Events, Ids, Sources

LEMMA TroubleIs ==
  ASSUME CoreTypes, Trouble
  PROVE  troubles' = troubles + 1 /\ troubles < MaxTroubles /\ illFormed' = illFormed
  BY Constants DEF CoreTypes, Trouble

LEMMA EventHas ==
    \A e \in Events : e.id \in Ids /\ e.id \in Nat /\ e.from \in Sources
                      /\ e = [id |-> e.id, from |-> e.from, form |-> e.form]
  BY Constants DEF Events, Ids

(* An event comes to the end, and pushes out the first of a full queue.    *)
PushedIs(q, e, p, d) ==
    /\ p \in Seq(Events) /\ Len(p) = Len(q) + 1 - d
    /\ \A i \in 1..Len(q) - d : p[i] = q[i + d]
    /\ p[Len(q) + 1 - d] = e
    /\ d = Flag(Len(q) >= QueueSize)
    /\ d = 1 => Len(q) >= 1 /\ Head(q) = q[1]

LEMMA PushedResult ==
  ASSUME NEW q \in Seq(Events), NEW e \in Events
  PROVE  \E d \in {0, 1} : PushedIs(q, e, Pushed(q, e), d)
  <1>0. Len(q) \in Nat /\ QueueSize \in Nat /\ QueueSize # 0
    BY Constants
  <1>1. CASE Len(q) >= QueueSize
    <2>1. q # <<>> /\ Len(q) >= 1
      BY <1>0, <1>1
    <2>2. /\ Tail(q) \in Seq(Events) /\ Len(Tail(q)) = Len(q) - 1
          /\ \A i \in 1..Len(q) - 1 : Tail(q)[i] = q[i + 1]
      BY <2>1, HeadTailProperties
    <2>3. Pushed(q, e) = Append(Tail(q), e)
      BY <1>1 DEF Pushed
    <2> DEFINE t == Tail(q)
    <2>4. Head(q) = q[1]
      BY <2>1
    <2> HIDE DEF t
    <2>5. PushedIs(q, e, Append(t, e), 1)
      BY <1>0, <1>1, <2>1, <2>2, <2>4 DEF PushedIs, Flag, t
    <2> QED  BY <2>3, <2>5 DEF t
  <1>2. CASE ~(Len(q) >= QueueSize)
    <2>1. Pushed(q, e) = Append(q, e)
      BY <1>2 DEF Pushed
    <2>2. PushedIs(q, e, Append(q, e), 0)
      BY <1>0, <1>2 DEF PushedIs, Flag
    <2> QED  BY <2>1, <2>2
  <1> QED  BY <1>1, <1>2

(* A filter takes some places of the queue, in their order.                *)
Places(f, t, q) ==
    /\ f \in [1..Len(t) -> 1..Len(q)]
    /\ \A k \in 1..Len(t) : t[k] = q[f[k]]
    /\ \A k, l \in 1..Len(t) : k < l => f[k] < f[l]

LEMMA PlacesShorter ==
  ASSUME NEW t \in Seq(Events), NEW q \in Seq(Events), NEW f, Places(f, t, q)
  PROVE  Len(t) <= Len(q)
  <1> DEFINE S == 1..Len(t)
             T == 1..Len(q)
  <1>1. f \in Injection(S, T)
    <2>1. \A k, l \in S : f[k] = f[l] => k = l
      <3> SUFFICES ASSUME NEW k \in S, NEW l \in S, k # l
                   PROVE  f[k] # f[l]
        OBVIOUS
      <3>1. f[k] \in Nat /\ f[l] \in Nat
        BY DEF Places
      <3>2. k < l \/ l < k
        OBVIOUS
      <3> QED  BY <3>1, <3>2 DEF Places
    <2> QED  BY <2>1 DEF Places, Injection, IsInjective
  <1>2. /\ IsFiniteSet(S) /\ Cardinality(S) = Len(t)
        /\ IsFiniteSet(T) /\ Cardinality(T) = Len(q)
    <2>1. Len(t) \in Nat /\ Len(q) \in Nat
      OBVIOUS
    <2>2. \A n \in Nat : IsFiniteSet(1..n) /\ Cardinality(1..n) = n
      <3> SUFFICES ASSUME NEW n \in Nat PROVE IsFiniteSet(1..n) /\ Cardinality(1..n) = n
        OBVIOUS
      <3>1. /\ IsFiniteSet(1..n)
            /\ Cardinality(1..n) = IF 1 > n THEN 0 ELSE n - 1 + 1
        BY FS_Interval
      <3> QED  BY <3>1
    <2> QED  BY <2>1, <2>2
  <1>3. Len(t) \in Nat /\ Len(q) \in Nat
    OBVIOUS
  <1> HIDE DEF S, T
  <1>4. Cardinality(S) <= Cardinality(T)
    BY <1>1, <1>2, FS_Injection
  <1> QED  BY <1>2, <1>3, <1>4

(* What is left of the queue when the events of a batch are taken out, with *)
(* the notice in front of it or not.                                       *)
LeftIs(q, b, n, left) ==
    /\ left \in Seq(Events) /\ n \in {0, 1} /\ Len(left) <= Len(q) + n /\ Len(left) >= n
    /\ n = 1 => left[1] = Notice
    /\ \E f : /\ f \in [n + 1..Len(left) -> 1..Len(q)]
              /\ \A k \in n + 1..Len(left) : left[k] = q[f[k]] /\ left[k] \notin ToSet(b)
              /\ \A k, l \in n + 1..Len(left) : k < l => f[k] < f[l]
              /\ \A i \in 1..Len(q) : q[i] \notin ToSet(b) => \E k \in n + 1..Len(left) : f[k] = i

LEMMA AcceptedResult ==
  ASSUME queue \in Seq(Events), dropped \in Nat, Accepted
  PROVE  /\ LeftIs(queue, call.items, Flag(dropped > 0), queue')
         /\ call' = [at |-> "idle", items |-> <<>>] /\ dropped' = 0
         /\ timer' \in BOOLEAN /\ lost' = lost
  <1> DEFINE S == Events \ ToSet(call.items)
             t == Kept(queue, S)
  <1>1. /\ queue' = IF dropped > 0 THEN <<Notice>> \o t ELSE t
        /\ call' = [at |-> "idle", items |-> <<>>] /\ dropped' = 0
        /\ timer' \in BOOLEAN /\ lost' = lost
    BY DEF Accepted
  <1> HIDE DEF t
  <1>2. t \in Seq(Events)
    BY KeptProperties DEF t
  <1>3. PICK f : Lists(f, t, queue, S, Len(queue))
    BY KeptProperties DEF t
  <1>4. Places(f, t, queue) /\ \A k \in 1..Len(t) : t[k] \notin ToSet(call.items)
    BY <1>3 DEF Lists, Places
  <1>5. Len(t) <= Len(queue)
    BY <1>2, <1>4, PlacesShorter
  <1>6. \A i \in 1..Len(queue) : queue[i] \notin ToSet(call.items) => \E k \in 1..Len(t) : f[k] = i
    BY <1>3 DEF Lists
  <1>7. CASE dropped > 0
    <2> DEFINE u == <<Notice>> \o t
               g == [k \in 2..Len(u) |-> f[k - 1]]
    <2>1. /\ u \in Seq(Events) /\ Len(u) = Len(t) + 1 /\ u[1] = Notice
          /\ \A k \in 2..Len(u) : u[k] = t[k - 1]
      <3>1. <<Notice>> \in Seq(Events) /\ Len(<<Notice>>) = 1 /\ <<Notice>>[1] = Notice
        BY Constants
      <3> QED  BY <1>2, <3>1, ConcatProperties
    <2> HIDE DEF u
    <2>2. \A k \in 2..Len(u) : k - 1 \in 1..Len(t)
      BY <1>2, <2>1
    <2>3. /\ g \in [2..Len(u) -> 1..Len(queue)]
          /\ \A k \in 2..Len(u) : u[k] = queue[g[k]] /\ u[k] \notin ToSet(call.items)
      BY <1>4, <2>1, <2>2 DEF Places
    <2>4. \A k, l \in 2..Len(u) : k < l => g[k] < g[l]
      <3> SUFFICES ASSUME NEW k \in 2..Len(u), NEW l \in 2..Len(u), k < l
                   PROVE  g[k] < g[l]
        OBVIOUS
      <3>1. k - 1 < l - 1
        OBVIOUS
      <3> QED  BY <1>4, <2>2, <3>1 DEF Places
    <2>5. \A i \in 1..Len(queue) : queue[i] \notin ToSet(call.items) => \E k \in 2..Len(u) : g[k] = i
      <3> SUFFICES ASSUME NEW i \in 1..Len(queue), queue[i] \notin ToSet(call.items)
                   PROVE  \E k \in 2..Len(u) : g[k] = i
        OBVIOUS
      <3>1. PICK k \in 1..Len(t) : f[k] = i
        BY <1>6
      <3>2. k + 1 \in 2..Len(u) /\ (k + 1) - 1 = k
        BY <1>2, <2>1
      <3> QED  BY <3>1, <3>2
    <2> HIDE DEF g
    <2>6. 1 + 1 = 2 /\ Len(u) <= Len(queue) + 1 /\ Len(u) >= 1
      BY <1>2, <1>5, <2>1
    <2>7. LeftIs(queue, call.items, 1, u)
      <3>1. \E h : /\ h \in [1 + 1..Len(u) -> 1..Len(queue)]
                   /\ \A k \in 1 + 1..Len(u) : u[k] = queue[h[k]] /\ u[k] \notin ToSet(call.items)
                   /\ \A k, l \in 1 + 1..Len(u) : k < l => h[k] < h[l]
                   /\ \A i \in 1..Len(queue) : queue[i] \notin ToSet(call.items)
                        => \E k \in 1 + 1..Len(u) : h[k] = i
        BY <2>3, <2>4, <2>5, <2>6
      <3> QED  BY <2>1, <2>6, <3>1 DEF LeftIs
    <2> QED  BY <1>1, <1>7, <2>7 DEF u, Flag
  <1>8. CASE ~(dropped > 0)
    <2>1. 0 + 1 = 1 /\ Len(queue) + 0 = Len(queue) /\ Len(t) >= 0
      BY <1>2
    <2>2. /\ f \in [0 + 1..Len(t) -> 1..Len(queue)]
          /\ \A k \in 0 + 1..Len(t) : t[k] = queue[f[k]] /\ t[k] \notin ToSet(call.items)
          /\ \A k, l \in 0 + 1..Len(t) : k < l => f[k] < f[l]
      BY <1>4, <2>1 DEF Places
    <2>3. \A i \in 1..Len(queue) :
             queue[i] \notin ToSet(call.items) => \E k \in 0 + 1..Len(t) : f[k] = i
      BY <1>6, <2>1
    <2>4. LeftIs(queue, call.items, 0, t)
      BY <1>2, <1>5, <2>1, <2>2, <2>3 DEF LeftIs
    <2> QED  BY <1>1, <1>8, <2>4 DEF Flag
  <1> QED  BY <1>7, <1>8

(* A batch: events of one stream, and all that come before them.           *)
BatchIs(b, q) ==
    /\ b \in Seq(Events) /\ b # <<>> /\ Len(b) <= BatchSize
    /\ \E f : /\ Places(f, b, q)
              /\ \A i \in 1..Len(q), k \in 1..Len(b) :
                   Stream(q[i]) = Stream(b[k]) /\ i < f[k] =>
                     \E h \in 1..Len(b) : h < k /\ f[h] = i

LEMMA SelectedResult ==
  ASSUME queue \in Seq(Events), queue # <<>>
  PROVE  BatchIs(Selected, queue)
  <1> DEFINE S == {e \in Events : Stream(e) = Stream(Head(queue))}
             t == Kept(queue, S)
             m == IF Len(t) < BatchSize THEN Len(t) ELSE BatchSize
             b == SubSeq(t, 1, m)
  <1>1. Selected = b
    BY DEF Selected
  <1> HIDE DEF t
  <1>2. t \in Seq(Events)
    BY KeptProperties DEF t
  <1>3. PICK f : Lists(f, t, queue, S, Len(queue))
    BY KeptProperties DEF t
  <1>4. Len(queue) >= 1 /\ Head(queue) = queue[1] /\ queue[1] \in Events
    <2>1. Len(queue) \in Nat \ {0}
      BY EmptySeq
    <2> QED  BY <2>1, HeadTailProperties
  <1>5. PICK k0 \in 1..Len(t) : f[k0] = 1
    BY <1>3, <1>4 DEF Lists
  <1>6. Len(t) \in Nat /\ m \in Nat /\ m >= 1 /\ m <= Len(t) /\ m <= BatchSize
    BY <1>2, <1>5, Constants
  <1>7. b \in Seq(Events) /\ Len(b) = m /\ \A k \in 1..m : b[k] = t[k]
    <2>1. \A i \in 1..m : t[i] \in Events
      BY <1>2, <1>6
    <2> HIDE DEF m
    <2>2. /\ Len(b) = IF 1 <= m THEN m - 1 + 1 ELSE 0
          /\ \A i \in 1..m - 1 + 1 : b[i] = t[1 + i - 1]
          /\ b \in Seq(Events)
      BY <1>6, <2>1, SubSeqProperties
    <2> QED  BY <1>6, <2>2
  <1> DEFINE g == [k \in 1..m |-> f[k]]
  <1> HIDE DEF m
  <1> HIDE DEF b
  <1>8. Places(g, b, queue)
    BY <1>3, <1>6, <1>7 DEF Places, Lists
  <1>9. ASSUME NEW i \in 1..Len(queue), NEW k \in 1..Len(b),
               Stream(queue[i]) = Stream(b[k]), i < g[k]
        PROVE  \E h \in 1..Len(b) : h < k /\ g[h] = i
    <2>1. k \in 1..Len(t) /\ g[k] = f[k] /\ b[k] = t[k] /\ t[k] = queue[f[k]] /\ t[k] \in S
      BY <1>3, <1>6, <1>7, <1>9 DEF Lists
    <2>2. queue[i] \in S
      BY <1>9, <2>1
    <2>3. PICK h \in 1..Len(t) : f[h] = i
      BY <1>3, <2>2 DEF Lists
    <2>4. h < k
      <3>1. f[k] \in Nat /\ f[h] \in Nat /\ f[h] < f[k]
        BY <1>3, <1>9, <2>1, <2>3 DEF Lists
      <3>2. k < h => f[k] < f[h]
        BY <1>3, <2>1 DEF Lists
      <3> QED  BY <2>1, <3>1, <3>2
    <2> QED  BY <1>6, <1>7, <2>3, <2>4
  <1> HIDE DEF g
  <1>10. BatchIs(b, queue)
    BY <1>6, <1>7, <1>8, <1>9 DEF BatchIs
  <1> QED  BY <1>1, <1>10
-------------------------------------------------------------------------------
(* What a step does to the queue: nothing, a new event, or a batch taken.  *)
Quiet == UNCHANGED <<queue, dropped, lost, emitted, warnings>>

Pushes(e) ==
    \E d \in {0, 1} :
        /\ PushedIs(queue, e, queue', d) /\ dropped' = dropped + d
        /\ lost' = lost \cup IF d = 1 THEN {queue[1].id} ELSE {}

Emits(e) ==
    /\ Pushes(e) /\ e \in Events /\ e.id = emitted + 1
    /\ emitted' = emitted + 1 /\ emitted' <= MaxEvents /\ warnings' = warnings

Warns ==
    /\ \E e \in Events : e.id > MaxEvents /\ Pushes(e)
    /\ ~warned /\ emitted' = emitted /\ warnings' = warnings + 1

Takes ==
    /\ LeftIs(queue, call.items, Flag(dropped > 0), queue')
    /\ dropped' = 0 /\ lost' = lost /\ emitted' = emitted /\ warnings' = warnings

LEMMA PushEffect ==
  ASSUME queue \in Seq(Events), NEW e \in Events, queue' = Pushed(queue, e),
         dropped' = dropped + IF Len(queue) >= QueueSize THEN 1 ELSE 0,
         lost' = lost \cup IF Len(queue) >= QueueSize THEN {Head(queue).id} ELSE {}
  PROVE  Pushes(e)
  <1>1. PICK d \in {0, 1} : PushedIs(queue, e, Pushed(queue, e), d)
    BY PushedResult
  <1>2. d = (IF Len(queue) >= QueueSize THEN 1 ELSE 0) /\ (d = 1 => Head(queue) = queue[1])
    BY <1>1 DEF PushedIs, Flag
  <1>3. dropped' = dropped + d /\ lost' = lost \cup IF d = 1 THEN {queue[1].id} ELSE {}
    BY <1>2
  <1> QED  BY <1>1, <1>3 DEF Pushes

LEMMA EmitEffect ==
  ASSUME Types, NEW source \in Sources, NEW form \in Forms, Emit(source, form)
  PROVE  /\ Emits([id |-> emitted + 1, from |-> source, form |-> form])
         /\ timer' \in BOOLEAN /\ illFormed' \in Nat
         /\ UNCHANGED <<call, token, backoff, warned, wire, coreVars, troubles, broken>>
  <1> DEFINE e == [id |-> emitted + 1, from |-> source, form |-> form]
  <1>1. emitted \in Nat /\ emitted + 1 <= MaxEvents /\ e \in Events /\ e.id = emitted + 1
    BY Constants DEF Types, ClientTypes, Emit, Events, Ids
  <1>2. queue \in Seq(Events)
    BY DEF Types, ClientTypes
  <1>3. /\ queue' = Pushed(queue, e)
        /\ dropped' = dropped + IF Len(queue) >= QueueSize THEN 1 ELSE 0
        /\ lost' = lost \cup IF Len(queue) >= QueueSize THEN {Head(queue).id} ELSE {}
        /\ timer' \in BOOLEAN
    BY DEF Emit, Enqueue, Types, ClientTypes
  <1> HIDE DEF e
  <1>4. Pushes(e)
    BY <1>1, <1>2, <1>3, PushEffect
  <1>5. illFormed' \in Nat
    BY DEF Emit, Types, CoreTypes
  <1> QED  BY <1>1, <1>3, <1>4, <1>5 DEF e, Emits, Emit

(* A renewal that fails: one warning, unless it has been given.            *)
Complains == warned' = TRUE /\ backoff' = TRUE /\ (Warns \/ (warned /\ Quiet))

LEMMA RenewalFailsEffect ==
  ASSUME Types, WarningsAccounted, RenewalFails, emitted' = emitted
  PROVE  Complains
  <1>1. CASE warned
    BY <1>1 DEF RenewalFails, Complains, Quiet
  <1>2. CASE ~warned
    <2> DEFINE e == Warning(warnings + 1)
    <2>1. warnings \in Nat /\ warnings <= MaxTroubles
      BY Constants DEF Types, ClientTypes, CoreTypes, WarningsAccounted, Flag
    <2>2. e \in Events /\ e.id > MaxEvents
      <3>1. MaxEvents + warnings + 1 \in Ids /\ MaxEvents + warnings + 1 > MaxEvents
        BY <2>1, Constants DEF Ids
      <3> QED  BY <2>1, <3>1, DeliveryAssumption, Constants DEF Events, Sources, Warning
    <2>3. /\ queue' = Pushed(queue, e) /\ warnings' = warnings + 1
          /\ dropped' = dropped + IF Len(queue) >= QueueSize THEN 1 ELSE 0
          /\ lost' = lost \cup IF Len(queue) >= QueueSize THEN {Head(queue).id} ELSE {}
          /\ warned' = TRUE /\ backoff' = TRUE
      BY <1>2 DEF RenewalFails
    <2>4. queue \in Seq(Events)
      BY DEF Types, ClientTypes
    <2> HIDE DEF e
    <2>5. Pushes(e)
      BY <2>2, <2>3, <2>4, PushEffect
    <2>6. Warns
      BY <1>2, <2>2, <2>3, <2>5, Zenon DEF Warns
    <2> QED  BY <2>3, <2>6 DEF Complains
  <1> QED  BY <1>1, <1>2 DEF Types, ClientTypes

(* Every such step keeps the types and the length of the queue.            *)
Keeping == Quiet \/ Warns \/ \E e \in Events : Emits(e)
QueueStep == Keeping \/ Takes

LEMMA QueueStepControl ==
  ASSUME Types, LengthAccounted, QueueStep
  PROVE  /\ queue' \in Seq(Events) /\ dropped' \in Nat /\ lost' \subseteq Ids
         /\ emitted' \in 0..MaxEvents /\ warnings' \in Nat
         /\ LengthAccounted'
  <1> USE Constants
  <1>0. /\ queue \in Seq(Events) /\ dropped \in Nat /\ lost \subseteq Ids
        /\ emitted \in 0..MaxEvents /\ warnings \in Nat /\ Len(queue) \in Nat
    BY DEF Types, ClientTypes
  <1>1. ASSUME NEW e \in Events, Pushes(e)
        PROVE  /\ queue' \in Seq(Events) /\ dropped' \in Nat /\ lost' \subseteq Ids
               /\ Len(queue') + Flag(dropped' > 0) <= Len(queue) + Flag(dropped > 0) + 1
    <2>1. PICK d \in {0, 1} :
             /\ PushedIs(queue, e, queue', d) /\ dropped' = dropped + d
             /\ lost' = lost \cup IF d = 1 THEN {queue[1].id} ELSE {}
      BY <1>1 DEF Pushes
    <2>2. queue' \in Seq(Events) /\ Len(queue') = Len(queue) + 1 - d
      BY <2>1 DEF PushedIs
    <2>3. d = 1 => queue[1].id \in Ids
      <3>1. d = 1 => queue[1] \in Events
        BY <1>0, <2>1 DEF PushedIs
      <3> QED  BY <3>1, EventHas
    <2>4. Len(queue') + Flag(dropped' > 0) <= Len(queue) + Flag(dropped > 0) + 1
      BY <1>0, <2>1, <2>2 DEF Flag
    <2> QED  BY <1>0, <2>1, <2>2, <2>3, <2>4
  <1>2. CASE Quiet
    BY <1>0, <1>2 DEF Quiet, LengthAccounted
  <1>3. CASE Warns
    <2>1. PICK e \in Events : Pushes(e)
      BY <1>3 DEF Warns
    <2>2. Len(queue') \in Nat
      BY <1>1, <2>1
    <2>3. LengthAccounted'
      BY <1>0, <1>1, <1>3, <2>1, <2>2 DEF Warns, LengthAccounted, Flag
    <2> QED  BY <1>0, <1>1, <1>3, <2>1, <2>3 DEF Warns
  <1>4. CASE Takes
    <2>1. queue' \in Seq(Events) /\ Len(queue') <= Len(queue) + Flag(dropped > 0)
      BY <1>4 DEF Takes, LeftIs
    <2>2. LengthAccounted'
      <3>1. Len(queue') \in Nat /\ dropped' = 0 /\ emitted' = emitted /\ warnings' = warnings
        BY <1>4, <2>1 DEF Takes
      <3> QED  BY <1>0, <2>1, <3>1 DEF LengthAccounted, Flag
    <2> QED  BY <1>0, <1>4, <2>1, <2>2 DEF Takes
  <1>5. CASE \E e \in Events : Emits(e)
    <2>1. PICK e \in Events : Emits(e)
      BY <1>5
    <2>2. Len(queue') \in Nat
      BY <1>1, <2>1 DEF Emits
    <2>3. LengthAccounted'
      BY <1>0, <1>1, <2>1, <2>2 DEF Emits, LengthAccounted, Flag
    <2> QED  BY <1>0, <1>1, <2>1, <2>3 DEF Emits
  <1> QED  BY <1>2, <1>3, <1>4, <1>5 DEF QueueStep, Keeping
-------------------------------------------------------------------------------
(* What a delivery does when it hears of the request it waits for.         *)
Settled == /\ timer' \in BOOLEAN /\ backoff' \in BOOLEAN
           /\ call' \in [at : Calls \ Waiting, items : {call.items, <<>>}]
           /\ IdleIff'

Heard(r, what) ==
    /\ Settled
    /\ \/ r.method = "renew" /\ what = "ok" /\ Quiet /\ token' = Fresh /\ warned' = FALSE
       \/ r.method = "renew" /\ what # "ok" /\ token' = token /\ Complains
       \/ r.method = "append" /\ what = "ok" /\ Takes /\ UNCHANGED <<token, warned>>
                              /\ call'.items = <<>>
       \/ r.method = "append" /\ what # "ok" /\ Quiet /\ UNCHANGED <<token, warned>>

LEMMA IdleIsSettled ==
  ASSUME call' = [at |-> "idle", items |-> <<>>], timer' \in BOOLEAN, backoff' \in BOOLEAN
  PROVE  Settled
  BY DEF Settled, IdleIff, Calls, Waiting

LEMMA AtIsSettled ==
  ASSUME Types, OneAwaited, call.at # "idle", timer' = timer, backoff' \in BOOLEAN,
         NEW place \in {"send", "resend", "force"}, At(place)
  PROVE  Settled
  <1>1. call \in [at : Calls, items : Seq(Events)] /\ call.items # <<>> /\ timer = FALSE
    BY DEF Types, ClientTypes, OneAwaited, IdleIff
  <1>2. call' = [at |-> place, items |-> call.items]
    BY <1>1 DEF At
  <1> QED  BY <1>1, <1>2 DEF Settled, IdleIff, Calls, Waiting

LEMMA AfterRenewalIsSettled ==
  ASSUME Types, OneAwaited, call.at # "idle", NEW renewed \in BOOLEAN, backoff' \in BOOLEAN,
         AfterRenewal(renewed)
  PROVE  Settled
  <1>1. timer \in BOOLEAN
    BY DEF Types, ClientTypes
  <1>2. CASE call.at = "renewing"
    BY <1>1, <1>2, AtIsSettled DEF AfterRenewal
  <1>3. CASE call.at # "renewing" /\ renewed
    BY <1>1, <1>3, AtIsSettled DEF AfterRenewal
  <1>4. CASE call.at # "renewing" /\ ~renewed
    BY <1>4, IdleIsSettled DEF AfterRenewal
  <1> QED  BY <1>2, <1>3, <1>4

LEMMA AnswerHeard ==
  ASSUME Types, OneAwaited, WarningsAccounted,
         NEW r \in wire, Awaited(r), NEW what, Answer(r, what)
  PROVE  Heard(r, what)
  <1>0. /\ r \in Requests /\ call.at \in Waiting /\ call.at # "idle"
        /\ timer \in BOOLEAN /\ backoff \in BOOLEAN
        /\ queue \in Seq(Events) /\ dropped \in Nat
    BY DEF Types, ClientTypes, WireTypes, OneAwaited, Waiting
  <1>1. emitted' = emitted
    BY DEF Answer
  <1>2. CASE r.method = "renew" /\ what = "ok"
    <2>1. RenewalSucceeds /\ AfterRenewal(TRUE)
      BY <1>2 DEF Answer
    <2>2. Quiet /\ token' = Fresh /\ warned' = FALSE /\ backoff' = FALSE
      BY <1>1, <2>1 DEF RenewalSucceeds, Quiet
    <2>3. Settled
      BY <1>0, <2>1, <2>2, AfterRenewalIsSettled
    <2> QED  BY <1>2, <2>2, <2>3 DEF Heard
  <1>3. CASE r.method = "renew" /\ what # "ok"
    <2>1. RenewalFails /\ token' = token /\ AfterRenewal(FALSE)
      BY <1>3 DEF Answer
    <2>2. Complains
      BY <1>1, <2>1, RenewalFailsEffect
    <2>3. Settled
      BY <1>0, <2>1, <2>2, AfterRenewalIsSettled DEF Complains
    <2> QED  BY <1>3, <2>1, <2>2, <2>3 DEF Heard
  <1>4. CASE r.method = "append" /\ what = "ok"
    <2>1. Accepted /\ UNCHANGED <<token, backoff, warned, warnings>>
      BY <1>4 DEF Answer
    <2>2. /\ LeftIs(queue, call.items, Flag(dropped > 0), queue')
          /\ call' = [at |-> "idle", items |-> <<>>] /\ dropped' = 0
          /\ timer' \in BOOLEAN /\ lost' = lost
      BY <1>0, <2>1, AcceptedResult
    <2>3. Takes /\ call'.items = <<>>
      BY <1>1, <2>1, <2>2 DEF Takes
    <2>4. Settled
      BY <1>0, <2>1, <2>2, IdleIsSettled
    <2> QED  BY <1>4, <2>1, <2>3, <2>4 DEF Heard
  <1>5. CASE r.method = "append" /\ what # "ok"
    <2>1. /\ UNCHANGED <<token, backoff, warned, warnings>>
          /\ \/ At("force") /\ UNCHANGED <<queue, dropped, timer, lost>>
             \/ Failed
      BY <1>5 DEF Answer
    <2>2. Quiet
      BY <1>1, <2>1 DEF Failed, Quiet
    <2>3. Settled
      <3>1. CASE At("force") /\ UNCHANGED timer
        BY <1>0, <2>1, <3>1, AtIsSettled
      <3>2. CASE Failed
        BY <1>0, <2>1, <3>2, IdleIsSettled DEF Failed
      <3> QED  BY <2>1, <3>1, <3>2
    <2> QED  BY <1>5, <2>1, <2>2, <2>3 DEF Heard
  <1> QED  BY <1>0, <1>2, <1>3, <1>4, <1>5 DEF Requests
-------------------------------------------------------------------------------
(* What is written: some of a batch, from its first event on.              *)
Extends(b, m) ==
    /\ m \in 0..Len(b) /\ stored' \in Seq(Events) /\ Len(stored') = Len(stored) + m
    /\ \A i \in 1..Len(stored) : stored'[i] = stored[i]
    /\ \A j \in 1..m : stored'[Len(stored) + j] = b[j]

LEMMA ConcatHas ==
  ASSUME NEW T, NEW u \in Seq(T), NEW v \in Seq(T)
  PROVE  /\ u \o v \in Seq(T) /\ Len(u \o v) = Len(u) + Len(v)
         /\ \A i \in 1..Len(u) : (u \o v)[i] = u[i]
         /\ \A j \in 1..Len(v) : (u \o v)[Len(u) + j] = v[j]
  BY ConcatProperties

LEMMA ExtendsCases ==
  ASSUME stored \in Seq(Events), NEW b \in Seq(Events)
  PROVE  /\ stored' = stored => Extends(b, 0)
         /\ stored' = stored \o b => Extends(b, Len(b))
         /\ \A n \in 0..Len(b) : stored' = stored \o SubSeq(b, 1, n) => Extends(b, n)
         /\ \A n \in 0..Len(b) - 1 :
               stored' = (stored \o SubSeq(b, 1, n)) \o <<b[n + 1]>> => Extends(b, n + 1)
  <1>0. Len(b) \in Nat /\ Len(stored) \in Nat
    OBVIOUS
  <1>1. stored' = stored => Extends(b, 0)
    BY <1>0 DEF Extends
  <1>2. stored' = stored \o b => Extends(b, Len(b))
    BY <1>0, ConcatHas DEF Extends
  <1>3. ASSUME NEW n \in 0..Len(b)
        PROVE  /\ SubSeq(b, 1, n) \in Seq(Events) /\ Len(SubSeq(b, 1, n)) = n
               /\ \A j \in 1..n : SubSeq(b, 1, n)[j] = b[j]
    <2>1. \A j \in 1..n : b[j] \in Events
      BY <1>0
    <2>2. /\ Len(SubSeq(b, 1, n)) = IF 1 <= n THEN n - 1 + 1 ELSE 0
          /\ \A j \in 1..n - 1 + 1 : SubSeq(b, 1, n)[j] = b[1 + j - 1]
          /\ SubSeq(b, 1, n) \in Seq(Events)
      BY <2>1, SubSeqProperties
    <2>3. n - 1 + 1 = n /\ \A j \in 1..n : 1 + j - 1 = j
      OBVIOUS
    <2> QED  BY <2>2, <2>3
  <1> DEFINE Joined(v) == /\ stored \o v \in Seq(Events)
                          /\ Len(stored \o v) = Len(stored) + Len(v)
                          /\ \A i \in 1..Len(stored) : (stored \o v)[i] = stored[i]
                          /\ \A j \in 1..Len(v) : (stored \o v)[Len(stored) + j] = v[j]
  <1>6. \A v \in Seq(Events) : Joined(v)
    BY ConcatHas
  <1> HIDE DEF Joined
  <1>4. ASSUME NEW n \in 0..Len(b), stored' = stored \o SubSeq(b, 1, n)
        PROVE  Extends(b, n)
    <2> DEFINE s == SubSeq(b, 1, n)
               t == stored \o s
    <2>1. s \in Seq(Events) /\ Len(s) = n /\ \A j \in 1..n : s[j] = b[j]
      BY <1>3
    <2>2. stored' = t
      BY <1>4
    <2> HIDE DEF s
    <2>3. /\ t \in Seq(Events) /\ Len(t) = Len(stored) + Len(s)
          /\ \A i \in 1..Len(stored) : t[i] = stored[i]
          /\ \A j \in 1..Len(s) : t[Len(stored) + j] = s[j]
      BY <2>1, <1>6 DEF Joined, t
    <2> HIDE DEF t
    <2> QED  BY <2>1, <2>2, <2>3 DEF Extends
  <1>5. ASSUME NEW n \in 0..Len(b) - 1,
               stored' = (stored \o SubSeq(b, 1, n)) \o <<b[n + 1]>>
        PROVE  Extends(b, n + 1)
    <2> DEFINE s == SubSeq(b, 1, n)
               t == stored \o s
    <2>0. n \in 0..Len(b) /\ n \in Nat /\ n + 1 \in 0..Len(b) /\ b[n + 1] \in Events
      BY <1>0
    <2>1. s \in Seq(Events) /\ Len(s) = n /\ \A j \in 1..n : s[j] = b[j]
      BY <1>3, <2>0
    <2> HIDE DEF s
    <2>2. /\ t \in Seq(Events) /\ Len(t) = Len(stored) + n
          /\ \A i \in 1..Len(stored) : t[i] = stored[i]
          /\ \A j \in 1..n : t[Len(stored) + j] = b[j]
      <3>1. /\ t \in Seq(Events) /\ Len(t) = Len(stored) + Len(s)
            /\ \A i \in 1..Len(stored) : t[i] = stored[i]
            /\ \A j \in 1..Len(s) : t[Len(stored) + j] = s[j]
        BY <2>1, <1>6 DEF Joined, t
      <3> HIDE DEF t
      <3> QED  BY <2>1, <3>1, Zenon
    <2>3. stored' = Append(t, b[n + 1])
      <3>1. stored' = t \o <<b[n + 1]>>
        BY <1>5 DEF s
      <3> HIDE DEF t
      <3> QED  BY <2>0, <2>2, <3>1, AppendIsConcat
    <2> HIDE DEF t
    <2>4. /\ stored' \in Seq(Events) /\ Len(stored') = (Len(stored) + n) + 1
          /\ \A i \in 1..Len(stored) + n : stored'[i] = t[i]
          /\ stored'[(Len(stored) + n) + 1] = b[n + 1]
      BY <2>0, <2>2, <2>3, AppendProperties
    <2>5. \A i \in 1..Len(stored) : i \in 1..Len(stored) + n
      BY <1>0, <2>0
    <2>6. \A j \in 1..n + 1 : stored'[Len(stored) + j] = b[j]
      <3> SUFFICES ASSUME NEW j \in 1..n + 1 PROVE stored'[Len(stored) + j] = b[j]
        OBVIOUS
      <3>1. CASE j = n + 1
        BY <1>0, <2>0, <2>4, <3>1
      <3>2. CASE j # n + 1
        <4>1. j \in 1..n /\ Len(stored) + j \in 1..Len(stored) + n
          BY <1>0, <2>0, <3>2
        <4> QED  BY <2>2, <2>4, <4>1
      <3> QED  BY <3>1, <3>2
    <2> QED  BY <1>0, <2>0, <2>2, <2>4, <2>5, <2>6 DEF Extends
  <1> QED  BY <1>1, <1>2, <1>4, <1>5
-------------------------------------------------------------------------------
(* The control part, one action after the other.                           *)
LEMMA ClientKept ==
  ASSUME Control, QueueStep, timer' \in BOOLEAN, backoff' \in BOOLEAN, warned' \in BOOLEAN,
         token' \in Fresh..Dead, call'.items \in {call.items, <<>>}, call' \in [at : Calls, items : Seq(Events)]
  PROVE  ClientTypes' /\ LengthAccounted'
  <1>1. /\ queue' \in Seq(Events) /\ dropped' \in Nat /\ lost' \subseteq Ids
        /\ emitted' \in 0..MaxEvents /\ warnings' \in Nat /\ LengthAccounted'
    BY QueueStepControl DEF Control
  <1>2. Len(call'.items) <= BatchSize
    BY Constants DEF Control, Types, ClientTypes
  <1> QED  BY <1>1, <1>2 DEF ClientTypes

LEMMA ClientSame ==
  ASSUME Control, UNCHANGED clientVars
  PROVE  ClientTypes' /\ LengthAccounted' /\ IdleIff'
  BY DEF Control, Types, ClientTypes, clientVars, LengthAccounted, OneAwaited, IdleIff

LEMMA NobodyWaits ==
  ASSUME \A r \in wire' : ~Awaited(r), IdleIff'
  PROVE  OneAwaited'
  BY DEF OneAwaited, IdleIff

LEMMA FewerRequests ==
  ASSUME OneAwaited, wire' \subseteq wire, call' = call, token' = token, IdleIff'
  PROVE  OneAwaited'
  BY DEF OneAwaited

LEMMA NobodyYet ==
  ASSUME OneAwaited, call.at \notin Waiting
  PROVE  \A r \in wire : ~Awaited(r)
  BY DEF OneAwaited

(* A request is sent by a delivery that waits for none.                    *)
LEMMA RequestMade ==
  ASSUME Control, NEW method \in {"append", "renew"},
         NEW place \in Waiting, method = "renew" <=> place \in {"renewing", "forcing"},
         call.at \notin Waiting, call.at # "idle", At(place), timer' = timer,
         wire' = wire \cup {Request(method)}, token' = token
  PROVE  /\ OneAwaited' /\ WireTypes' /\ IdleIff'
         /\ call' \in [at : Calls, items : Seq(Events)] /\ call'.items = call.items
  <1>1. call \in [at : Calls, items : Seq(Events)] /\ token \in Fresh..Dead /\ call.items # <<>> /\ timer = FALSE
    BY DEF Control, Types, ClientTypes, OneAwaited, IdleIff
  <1>2. call' = [at |-> place, items |-> call.items] /\ call'.at = place /\ call'.items = call.items
    BY <1>1 DEF At
  <1>3. /\ Request(method) \in Requests /\ Awaited(Request(method))
        /\ Request(method).method = method /\ Request(method).items = call.items
        /\ Request(method).token = token
    BY <1>1 DEF Request, Requests, Awaited
  <1>4. \A r \in wire : ~Awaited(r)
    BY NobodyYet DEF Control
  <1>5. place # "idle" /\ place \in Calls
    BY DEF Waiting, Calls
  <1>6. WireTypes'
    BY <1>3, FS_AddElement DEF Control, Types, WireTypes
  <1> DEFINE new == Request(method)
  <1>7. \A r \in wire' : Awaited(r) => r = new
    BY <1>4
  <1> HIDE DEF new
  <1>8. OneAwaited'
    <2>1. IdleIff'
      BY <1>1, <1>2, <1>5 DEF IdleIff
    <2>2. \A r \in wire' : Awaited(r) =>
             /\ call'.at \in Waiting /\ r.items = call'.items
             /\ r.method = "renew" <=> call'.at \in {"renewing", "forcing"}
             /\ r.method = "renew" => r.token = token'
      BY <1>2, <1>3, <1>7 DEF new
    <2> QED  BY <1>7, <2>1, <2>2 DEF OneAwaited
  <1> QED  BY <1>1, <1>2, <1>5, <1>6, <1>8 DEF OneAwaited

LEMMA EmitControl ==
  ASSUME Control, NEW source \in Sources, NEW form \in Forms, Emit(source, form)
  PROVE  Control'
  <1>1. \E e \in Events : Emits(e)
    BY EmitEffect DEF Control, Emits
  <1>2. /\ timer' \in BOOLEAN /\ illFormed' \in Nat
        /\ UNCHANGED <<call, token, backoff, warned, wire, coreVars, troubles, broken>>
    BY EmitEffect DEF Control
  <1>3. ClientTypes' /\ LengthAccounted'
    BY <1>1, <1>2, ClientKept DEF QueueStep, Keeping, Control, Types, ClientTypes
  <1>4. CoreTypes' /\ WireTypes'
    BY <1>2 DEF Control, Types, CoreTypes, WireTypes, coreVars
  <1>5. OneAwaited'
    <2>1. IdleIff'
      BY <1>2 DEF Control, OneAwaited, IdleIff, Emit, Enqueue
    <2> QED  BY <1>2, <2>1, FewerRequests DEF Control
  <1>6. WarningsAccounted'
    <2>1. warnings' = warnings
      BY <1>1 DEF Emits
    <2> QED  BY <1>2, <2>1 DEF Control, WarningsAccounted, coreVars
  <1> QED  BY <1>3, <1>4, <1>5, <1>6 DEF Control, Types
LEMMA TimerControl ==
  ASSUME Control, TimerFires
  PROVE  Control'
  <1>0. /\ queue \in Seq(Events) /\ call.at = "idle" /\ timer' = FALSE
        /\ call \in [at : Calls, items : Seq(Events)]
    BY DEF Control, Types, ClientTypes, OneAwaited, IdleIff, TimerFires
  <1>1. /\ call' \in [at : Calls, items : Seq(Events)] /\ Len(call'.items) <= BatchSize
        /\ IdleIff'
    <2>1. CASE queue = <<>>
      BY <1>0, <2>1 DEF TimerFires, Control, Types, ClientTypes, OneAwaited, IdleIff
    <2>2. CASE queue # <<>>
      <3>1. BatchIs(Selected, queue)
        BY <1>0, <2>2, SelectedResult
      <3>2. call' = [at |-> "ensure", items |-> Selected]
        BY <2>2 DEF TimerFires
      <3>3. Selected \in Seq(Events) /\ Selected # <<>> /\ Len(Selected) <= BatchSize
        BY <3>1 DEF BatchIs
      <3> QED  BY <1>0, <3>2, <3>3 DEF Calls, IdleIff
    <2> QED  BY <2>1, <2>2
  <1>2. UNCHANGED <<queue, dropped, token, backoff, warned, emitted, warnings, lost, wire, coreVars, bounds>>
    BY DEF TimerFires
  <1>3. ClientTypes' /\ LengthAccounted'
    BY <1>0, <1>1, <1>2 DEF Control, Types, ClientTypes, LengthAccounted
  <1>4. CoreTypes' /\ WireTypes' /\ WarningsAccounted'
    BY <1>2 DEF Control, Types, CoreTypes, WireTypes, coreVars, bounds, WarningsAccounted
  <1>5. \A r \in wire' : ~Awaited(r)
    BY <1>0, <1>2, NobodyYet DEF Control, Waiting
  <1> QED  BY <1>1, <1>3, <1>4, <1>5, NobodyWaits DEF Control, Types

(* A step that changes nothing of Core's, and raises no warning.           *)
LEMMA CoreSame ==
  ASSUME Control, UNCHANGED <<coreVars, bounds>>, warnings' = warnings, warned' = warned,
         token' = token
  PROVE  CoreTypes' /\ WarningsAccounted'
  BY DEF Control, Types, CoreTypes, coreVars, bounds, WarningsAccounted

LEMMA WireSame ==
  ASSUME Control, wire' = wire
  PROVE  WireTypes'
  BY DEF Control, Types, WireTypes

LEMMA EnsureControl ==
  ASSUME Control, Ensure
  PROVE  Control'
  <1>1. /\ call.at = "ensure" /\ At("renewing") /\ wire' = wire \cup {Request("renew")}
        /\ UNCHANGED <<queue, dropped, timer, token, backoff, warned, emitted, warnings, lost, coreVars, bounds>>
    BY DEF Ensure
  <1>2. /\ OneAwaited' /\ WireTypes' /\ IdleIff'
        /\ call' \in [at : Calls, items : Seq(Events)] /\ call'.items = call.items
    BY <1>1, RequestMade DEF Waiting
  <1>3. ClientTypes' /\ LengthAccounted'
    BY <1>1, <1>2, ClientKept DEF QueueStep, Keeping, Quiet, Control, Types, ClientTypes
  <1>4. CoreTypes' /\ WarningsAccounted'
    BY <1>1, CoreSame
  <1> QED  BY <1>2, <1>3, <1>4 DEF Control, Types

(* A delivery that has not been answered settles without an answer.        *)
LEMMA FailedIsSettled ==
  ASSUME Control, Failed, backoff' \in BOOLEAN, UNCHANGED <<emitted, warnings>>
  PROVE  Settled /\ Quiet
  BY IdleIsSettled DEF Failed, Quiet

LEMMA SettledControl ==
  ASSUME Control, Settled, QueueStep, warned' \in BOOLEAN, token' \in Fresh..Dead,
         wire' = wire, call.at \notin Waiting
  PROVE  ClientTypes' /\ LengthAccounted' /\ OneAwaited' /\ WireTypes'
  <1>1. /\ call' \in [at : Calls, items : Seq(Events)]
        /\ call'.items \in {call.items, <<>>}
        /\ timer' \in BOOLEAN /\ backoff' \in BOOLEAN /\ IdleIff'
    <2>1. {call.items, <<>>} \subseteq Seq(Events) /\ Calls \ Waiting \subseteq Calls
      BY DEF Control, Types, ClientTypes
    <2> HIDE DEF Calls, Waiting
    <2> QED  BY <2>1 DEF Settled
  <1>2. ClientTypes' /\ LengthAccounted'
    BY <1>1, ClientKept
  <1>3. OneAwaited'
    BY <1>1, NobodyYet, NobodyWaits DEF Control
  <1> QED  BY <1>2, <1>3, WireSame

LEMMA ForceControl ==
  ASSUME Control, ForceRenewal
  PROVE  Control'
  <1>1. /\ call.at = "force" /\ call.at # "idle" /\ call.at \notin Waiting
        /\ UNCHANGED <<token, backoff, warned, emitted, warnings, coreVars, bounds>>
        /\ warned \in BOOLEAN /\ backoff \in BOOLEAN /\ token \in Fresh..Dead
    BY DEF ForceRenewal, Waiting, Control, Types, ClientTypes
  <1>2. CoreTypes' /\ WarningsAccounted'
    BY <1>1, CoreSame
  <1>3. CASE backoff
    <2>1. Failed /\ wire' = wire
      BY <1>3 DEF ForceRenewal
    <2>2. Settled /\ Quiet
      BY <1>1, <2>1, FailedIsSettled
    <2> QED  BY <1>1, <1>2, <2>1, <2>2, SettledControl DEF QueueStep, Keeping, Control, Types
  <1>4. CASE ~backoff
    <2>1. /\ At("forcing") /\ wire' = wire \cup {Request("renew")}
          /\ UNCHANGED <<queue, dropped, timer, lost>>
      BY <1>4 DEF ForceRenewal
    <2>2. /\ OneAwaited' /\ WireTypes' /\ IdleIff'
          /\ call' \in [at : Calls, items : Seq(Events)] /\ call'.items = call.items
      BY <1>1, <2>1, RequestMade DEF Waiting
    <2>3. ClientTypes' /\ LengthAccounted'
      BY <1>1, <2>1, <2>2, ClientKept DEF QueueStep, Keeping, Quiet, Control, Types, ClientTypes
    <2> QED  BY <1>2, <2>2, <2>3 DEF Control, Types
  <1> QED  BY <1>3, <1>4

LEMMA SendControl ==
  ASSUME Control, Send
  PROVE  Control'
  <1>1. /\ call.at \in {"send", "resend", "ensure"} /\ call.at # "idle" /\ call.at \notin Waiting
        /\ UNCHANGED <<token, backoff, warned, emitted, warnings, coreVars, bounds>>
        /\ warned \in BOOLEAN /\ backoff \in BOOLEAN /\ token \in Fresh..Dead
    BY DEF Send, Waiting, Control, Types, ClientTypes
  <1>2. CoreTypes' /\ WarningsAccounted'
    BY <1>1, CoreSame
  <1>3. CASE ~up
    <2>1. Failed /\ wire' = wire
      BY <1>3 DEF Send
    <2>2. Settled /\ Quiet
      BY <1>1, <2>1, FailedIsSettled
    <2> QED  BY <1>1, <1>2, <2>1, <2>2, SettledControl DEF QueueStep, Keeping, Control, Types
  <1>4. CASE up
    <2>0. PICK place \in {"sent", "resent"} : At(place)
      BY <1>4 DEF Send
    <2>1. /\ wire' = wire \cup {Request("append")}
          /\ UNCHANGED <<queue, dropped, timer, lost>>
      BY <1>4 DEF Send
    <2>2. /\ OneAwaited' /\ WireTypes' /\ IdleIff'
          /\ call' \in [at : Calls, items : Seq(Events)] /\ call'.items = call.items
      BY <1>1, <2>0, <2>1, RequestMade DEF Waiting
    <2>3. ClientTypes' /\ LengthAccounted'
      BY <1>1, <2>1, <2>2, ClientKept DEF QueueStep, Keeping, Quiet, Control, Types, ClientTypes
    <2> QED  BY <1>2, <2>2, <2>3 DEF Control, Types
  <1> QED  BY <1>3, <1>4

(* What becomes of the warnings when a renewal fails.                      *)
LEMMA ComplainsControl ==
  ASSUME Control, Complains, ~up \/ token = Dead, token' = token, UNCHANGED <<coreVars, bounds>>
  PROVE  CoreTypes' /\ WarningsAccounted' /\ QueueStep
  <1>1. warnings \in Nat /\ troubles \in Nat
    BY Constants DEF Control, Types, ClientTypes, CoreTypes
  <1>2. CoreTypes' /\ troubles' = troubles
    BY DEF Control, Types, CoreTypes, coreVars, bounds
  <1>3. WarningsAccounted'
    <2>1. CASE Warns
      <3>1. ~warned /\ warnings' = warnings + 1 /\ warned' = TRUE
        BY <2>1 DEF Warns, Complains
      <3>2. warnings + 1 <= troubles
        BY <3>1 DEF Control, WarningsAccounted, Flag
      <3>3. Flag(~warned' /\ (~up' \/ token' = Dead)) = 0
        BY <3>1 DEF Flag
      <3> QED  BY <1>1, <1>2, <3>1, <3>2, <3>3 DEF WarningsAccounted
    <2>2. CASE warned /\ Quiet
      <3>1. warnings <= troubles
        BY <1>1, <2>2 DEF Control, WarningsAccounted, Flag
      <3>2. warnings' = warnings /\ warned' = TRUE
        BY <2>2 DEF Quiet, Complains
      <3>3. Flag(~warned' /\ (~up' \/ token' = Dead)) = 0
        BY <3>2 DEF Flag
      <3> QED  BY <1>1, <1>2, <3>1, <3>2, <3>3 DEF WarningsAccounted
    <2> QED  BY <2>1, <2>2 DEF Complains
  <1> QED  BY <1>2, <1>3 DEF Complains, QueueStep, Keeping

LEMMA RefusedControl ==
  ASSUME Control, RenewalRefused
  PROVE  Control' /\ Complains /\ Settled
  <1>1. /\ call.at \in {"ensure", "force"} /\ call.at # "idle" /\ call.at \notin Waiting
        /\ UNCHANGED <<token, emitted, wire, coreVars, bounds>>
        /\ token \in Fresh..Dead /\ ~up /\ RenewalFails
    BY DEF RenewalRefused, Waiting, Control, Types, ClientTypes
  <1>2. Complains
    BY <1>1, RenewalFailsEffect DEF Control
  <1>3. CoreTypes' /\ WarningsAccounted' /\ QueueStep
    BY <1>1, <1>2, ComplainsControl
  <1>4. Settled
    <2>1. CASE call.at = "ensure"
      BY <1>1, <1>2, <2>1, AtIsSettled DEF RenewalRefused, Control, Complains
    <2>2. CASE call.at = "force"
      BY <1>1, <1>2, <2>2, AfterRenewalIsSettled DEF RenewalRefused, Control, Complains
    <2> QED  BY <1>1, <2>1, <2>2
  <1>5. ClientTypes' /\ LengthAccounted' /\ OneAwaited' /\ WireTypes'
    BY <1>1, <1>2, <1>3, <1>4, SettledControl DEF Complains
  <1> QED  BY <1>2, <1>3, <1>4, <1>5 DEF Control, Types

LEMMA OtherRenewalControl ==
  ASSUME Control, OtherRenewal
  PROVE  Control' /\ QueueStep
  <1>1. /\ call.at \notin {"renewing", "forcing"} /\ token \in Fresh..Dead
        /\ timer \in BOOLEAN /\ backoff \in BOOLEAN
        /\ UNCHANGED <<call, emitted, wire, coreVars, bounds>>
        /\ call \in [at : Calls, items : Seq(Events)]
    BY DEF OtherRenewal, Control, Types, ClientTypes
  <1>2. /\ CoreTypes' /\ WarningsAccounted' /\ QueueStep
        /\ timer' \in BOOLEAN /\ backoff' \in BOOLEAN /\ warned' \in BOOLEAN /\ token' \in Fresh..Dead
        /\ IdleIff'
    <2>1. CASE up /\ token # Dead
      <3>1. RenewalSucceeds /\ timer' = timer
        BY <2>1 DEF OtherRenewal
      <3>2. Quiet /\ token' = Fresh /\ warned' = FALSE /\ backoff' = FALSE
        BY <1>1, <3>1 DEF RenewalSucceeds, Quiet
      <3>3. WarningsAccounted' /\ CoreTypes'
        <4>1. up' = TRUE /\ token' # Dead /\ warnings' = warnings /\ troubles' = troubles
          BY <1>1, <2>1, <3>2, Constants DEF Quiet, coreVars, bounds, Control, Types, CoreTypes
        <4>2. warnings <= troubles
          BY Constants DEF Control, WarningsAccounted, Flag, Types, CoreTypes, ClientTypes
        <4>3. Flag(~warned' /\ (~up' \/ token' = Dead)) = 0
          BY <4>1 DEF Flag
        <4>4. CoreTypes'
          BY <1>1 DEF Control, Types, CoreTypes, coreVars, bounds
        <4>5. warnings \in Nat /\ troubles \in Nat
          BY Constants DEF Control, Types, ClientTypes, CoreTypes
        <4> QED  BY <4>1, <4>2, <4>3, <4>4, <4>5 DEF WarningsAccounted
      <3>4. IdleIff'
        BY <1>1, <3>1, Zenon DEF Control, OneAwaited, IdleIff
      <3>5. QueueStep
        BY <3>2 DEF QueueStep, Keeping
      <3>6. token' \in Fresh..Dead
        BY <3>2, Constants
      <3>7. timer' \in BOOLEAN /\ backoff' \in BOOLEAN /\ warned' \in BOOLEAN
        BY <1>1, <3>1, <3>2, Zenon
      <3> QED  BY <3>3, <3>4, <3>5, <3>6, <3>7, Zenon
    <2>2. CASE ~(up /\ token # Dead)
      <3>1. RenewalFails /\ token' = token /\ timer' = (timer \/ call.at = "idle")
        BY <2>2 DEF OtherRenewal
      <3>2. Complains
        BY <1>1, <3>1, RenewalFailsEffect DEF Control
      <3>3. CoreTypes' /\ WarningsAccounted' /\ QueueStep
        BY <1>1, <2>2, <3>1, <3>2, ComplainsControl
      <3>4. IdleIff'
        BY <1>1, <3>1, Zenon DEF Control, OneAwaited, IdleIff
      <3>5. timer' \in BOOLEAN
        BY <3>1
      <3> QED  BY <1>1, <3>1, <3>2, <3>3, <3>4, <3>5, Zenon DEF Complains
    <2> QED  BY <2>1, <2>2
  <1>3. ClientTypes' /\ LengthAccounted'
    BY <1>1, <1>2, ClientKept
  <1>4. OneAwaited'
    <2>1. \A r \in wire : Awaited(r) => r.method # "renew"
      BY <1>1 DEF Control, OneAwaited
    <2> QED  BY <1>1, <1>2, <2>1 DEF Control, OneAwaited
  <1>5. WireTypes'
    BY <1>1, WireSame
  <1> QED  BY <1>2, <1>3, <1>4, <1>5 DEF Control, Types

LEMMA BackoffControl ==
  ASSUME Control, BackoffEnds
  PROVE  Control'
  <1>1. /\ backoff' = FALSE
        /\ UNCHANGED <<queue, dropped, timer, call, token, warned, emitted, warnings, lost, wire, coreVars, bounds>>
    BY DEF BackoffEnds
  <1>2. ClientTypes' /\ LengthAccounted' /\ IdleIff'
    BY <1>1 DEF Control, Types, ClientTypes, LengthAccounted, OneAwaited, IdleIff
  <1> QED  BY <1>1, <1>2, CoreSame, WireSame, FewerRequests DEF Control, Types

LEMMA OlderIs ==
  ASSUME NEW age \in Fresh..Dead, NEW by \in 1..Dead
  PROVE  Older(age, by) \in Fresh..Dead
  BY Constants DEF Older

LEMMA ImageIsSmaller ==
  ASSUME NEW S, NEW T, IsFiniteSet(S), NEW f \in [S -> T]
  PROVE  IsFiniteSet({f[x] : x \in S}) /\ Cardinality({f[x] : x \in S}) <= Cardinality(S)
  <1> DEFINE U == {f[x] : x \in S}
  <1>1. f \in Surjection(S, U)
    <2>1. f \in [S -> U]
      OBVIOUS
    <2>2. \A u \in U : \E x \in S : f[x] = u
      OBVIOUS
    <2> HIDE DEF U
    <2> QED  BY <2>1, <2>2 DEF Surjection
  <1> HIDE DEF U
  <1>2. IsFiniteSet(U) /\ Cardinality(U) <= Cardinality(S)
    BY <1>1, FS_Surjection
  <1> QED  BY <1>2 DEF U

LEMMA AgeControl ==
  ASSUME Control, Age
  PROVE  Control'
  <1>1. PICK by \in 1..Dead :
           token' = Older(token, by) /\ wire' = {[r EXCEPT !.token = Older(@, by)] : r \in wire}
    BY DEF Age
  <1>2. /\ troubles' = troubles + 1 /\ troubles < MaxTroubles /\ illFormed' = illFormed
        /\ UNCHANGED <<queue, dropped, timer, call, backoff, warned, emitted, warnings, lost, coreVars, broken>>
    BY TroubleIs DEF Age, Control, Types
  <1>3. token \in Fresh..Dead /\ token' \in Fresh..Dead
    BY <1>1, OlderIs DEF Control, Types, ClientTypes
  <1>4. ClientTypes' /\ LengthAccounted' /\ IdleIff'
    BY <1>2, <1>3 DEF Control, Types, ClientTypes, LengthAccounted, OneAwaited, IdleIff
  <1>5. CoreTypes'
    BY <1>2, Constants DEF Control, Types, CoreTypes, coreVars
  <1> DEFINE Aged(r) == [r EXCEPT !.token = Older(@, by)]
  <1>6. \A r \in wire : /\ Aged(r) \in Requests /\ Aged(r).late = r.late /\ Aged(r).items = r.items
                        /\ Aged(r).method = r.method /\ Aged(r).token = Older(r.token, by)
    <2> SUFFICES ASSUME NEW r \in wire
                 PROVE  /\ Aged(r) \in Requests /\ Aged(r).late = r.late /\ Aged(r).items = r.items
                        /\ Aged(r).method = r.method /\ Aged(r).token = Older(r.token, by)
      OBVIOUS
    <2>1. r \in Requests /\ r.token \in Fresh..Dead
      BY DEF Control, Types, WireTypes, Requests
    <2>2. Older(r.token, by) \in Fresh..Dead
      BY <2>1, OlderIs
    <2> QED  BY <2>1, <2>2 DEF Requests
  <1>7. wire' = {Aged(r) : r \in wire}
    BY <1>1
  <1> HIDE DEF Aged
  <1>8. WireTypes'
    <2> DEFINE f == [r \in wire |-> Aged(r)]
    <2>1. f \in [wire -> Requests] /\ wire' = {f[r] : r \in wire}
      BY <1>6, <1>7
    <2> HIDE DEF f
    <2>2. IsFiniteSet(wire) /\ IsFiniteSet({f[r] : r \in wire})
      BY <2>1, ImageIsSmaller DEF Control, Types, WireTypes
    <2> QED  BY <2>1, <2>2 DEF WireTypes
  <1>9. OneAwaited'
    <2>1. \A q \in wire' : Awaited(q) => \E r \in wire : Awaited(r) /\ q = Aged(r)
      <3> SUFFICES ASSUME NEW q \in wire', Awaited(q)
                   PROVE  \E r \in wire : Awaited(r) /\ q = Aged(r)
        OBVIOUS
      <3>1. PICK r \in wire : q = Aged(r)
        BY <1>7
      <3>2. Aged(r).late = r.late
        BY <1>6
      <3> QED  BY <3>1, <3>2 DEF Awaited
    <2>2. ASSUME NEW q \in wire', Awaited(q)
          PROVE  /\ call'.at \in Waiting /\ q.items = call'.items
                 /\ q.method = "renew" <=> call'.at \in {"renewing", "forcing"}
                 /\ q.method = "renew" => q.token = token'
      <3>1. PICK r \in wire : Awaited(r) /\ q = Aged(r)
        BY <2>1, <2>2
      <3>2. call' = call
        BY <1>2
      <3> QED  BY <1>1, <1>6, <3>1, <3>2 DEF Control, OneAwaited
    <2>3. \A q, s \in wire' : Awaited(q) /\ Awaited(s) => q = s
      BY <2>1 DEF Control, OneAwaited
    <2> QED  BY <1>4, <2>2, <2>3 DEF OneAwaited
  <1>10. WarningsAccounted'
    <2>1. warnings \in Nat /\ troubles \in Nat
      BY Constants DEF Control, Types, ClientTypes, CoreTypes
    <2>2. warnings <= troubles
      BY <2>1 DEF Control, WarningsAccounted, Flag
    <2> QED  BY <1>2, <2>1, <2>2 DEF WarningsAccounted, Flag
  <1> QED  BY <1>4, <1>5, <1>8, <1>9, <1>10 DEF Control, Types

(* What an answer means for the warnings.                                  *)
WarnChange(r, what) ==
    \/ warnings' = warnings /\ warned' = warned /\ token' = token
    \/ warnings' = warnings /\ warned' = FALSE /\ token' = Fresh /\ what = "ok"
    \/ /\ ~warned /\ warned' = TRUE /\ warnings' = warnings + 1 /\ token' = token
       /\ r.method = "renew" /\ what # "ok" /\ Awaited(r)

LEMMA AnswerControl ==
  ASSUME Control, NEW r \in wire, NEW what, Answer(r, what)
  PROVE  /\ ClientTypes' /\ LengthAccounted' /\ IdleIff' /\ WarnChange(r, what)
         /\ ~Awaited(r) => UNCHANGED clientVars
         /\ emitted' = emitted
  <1>1. CASE ~Awaited(r)
    <2>1. UNCHANGED clientVars
      BY <1>1 DEF Answer
    <2>2. WarnChange(r, what) /\ emitted' = emitted
      BY <2>1 DEF WarnChange, clientVars
    <2> QED  BY <2>1, <2>2, ClientSame
  <1>2. CASE Awaited(r)
    <2>1. Heard(r, what)
      BY <1>2, AnswerHeard DEF Control
    <2>2. Settled /\ token \in Fresh..Dead /\ warned \in BOOLEAN
      BY <2>1 DEF Heard, Control, Types, ClientTypes
    <2>3. QueueStep /\ emitted' = emitted
      BY <2>1 DEF Heard, Complains, QueueStep, Keeping, Quiet, Takes, Warns
    <2>4. WarnChange(r, what)
      <3>1. CASE r.method = "renew" /\ what = "ok" /\ Quiet /\ token' = Fresh /\ warned' = FALSE
        BY <3>1 DEF WarnChange, Quiet
      <3>2. CASE r.method = "renew" /\ what # "ok" /\ token' = token /\ Complains
        <4>1. warned' = TRUE /\ (Warns \/ (warned /\ Quiet))
          BY <3>2 DEF Complains
        <4>2. CASE Warns
          BY <1>2, <3>2, <4>1, <4>2, Zenon DEF Warns, WarnChange
        <4>3. CASE warned /\ Quiet
          BY <2>2, <3>2, <4>1, <4>3 DEF Quiet, WarnChange
        <4> QED  BY <4>1, <4>2, <4>3
      <3>3. CASE UNCHANGED <<token, warned>> /\ (Takes \/ Quiet)
        BY <3>3 DEF Takes, Quiet, WarnChange
      <3> QED  BY <2>1, <3>1, <3>2, <3>3 DEF Heard
    <2>5. warned' \in BOOLEAN /\ token' \in Fresh..Dead
      <3>1. Fresh \in Fresh..Dead
        BY Constants
      <3>2. warned' \in BOOLEAN
        BY <2>2, <2>4, Zenon DEF WarnChange
      <3>3. token' \in Fresh..Dead
        BY <2>2, <2>4, <3>1, Zenon DEF WarnChange
      <3> QED  BY <3>2, <3>3
    <2>6. /\ call' \in [at : Calls, items : Seq(Events)]
          /\ call'.items \in {call.items, <<>>}
          /\ timer' \in BOOLEAN /\ backoff' \in BOOLEAN /\ IdleIff'
      <3>1. {call.items, <<>>} \subseteq Seq(Events) /\ Calls \ Waiting \subseteq Calls
        BY DEF Control, Types, ClientTypes
      <3> HIDE DEF Calls, Waiting
      <3> QED  BY <2>2, <3>1 DEF Settled
    <2>7. ClientTypes' /\ LengthAccounted'
      BY <2>3, <2>5, <2>6, ClientKept
    <2> QED  BY <1>2, <2>3, <2>4, <2>6, <2>7
  <1> QED  BY <1>1, <1>2

LEMMA HandledControl ==
  ASSUME Control, NEW r \in wire, NEW what, Answer(r, what), wire' = wire \ {r}
  PROVE  OneAwaited' /\ WireTypes'
  <1>1. IdleIff' /\ (~Awaited(r) => UNCHANGED clientVars)
    BY AnswerControl
  <1>2. WireTypes'
    BY FS_RemoveElement DEF Control, Types, WireTypes
  <1>3. CASE Awaited(r)
    <2>1. \A q \in wire' : ~Awaited(q)
      BY <1>3 DEF Control, OneAwaited
    <2> QED  BY <1>1, <1>2, <2>1, NobodyWaits
  <1>4. CASE ~Awaited(r)
    <2>1. call' = call /\ token' = token
      BY <1>1, <1>4 DEF clientVars
    <2> QED  BY <1>1, <1>2, <2>1, FewerRequests DEF Control
  <1> QED  BY <1>3, <1>4

LEMMA WarnedInTime ==
  ASSUME Control, NEW r \in wire, NEW what, WarnChange(r, what), up, up' = up,
         troubles' = troubles,
         r.method = "renew" /\ what # "ok" => r.token = Dead
  PROVE  WarningsAccounted'
  <1>0. warnings \in Nat /\ troubles \in Nat /\ warnings <= troubles /\ token \in Fresh..Dead
    BY Constants DEF Control, Types, ClientTypes, CoreTypes, WarningsAccounted, Flag
  <1>1. CASE warnings' = warnings /\ warned' = warned /\ token' = token
    BY <1>1 DEF Control, WarningsAccounted
  <1>2. CASE warnings' = warnings /\ warned' = FALSE /\ token' = Fresh
    <2>1. Flag(~warned' /\ (~up' \/ token' = Dead)) = 0
      BY <1>2, Constants DEF Flag
    <2> QED  BY <1>0, <1>2, <2>1 DEF WarningsAccounted
  <1>3. CASE /\ ~warned /\ warned' = TRUE /\ warnings' = warnings + 1 /\ token' = token
             /\ r.method = "renew" /\ what # "ok" /\ Awaited(r)
    <2>1. token = Dead
      BY <1>3 DEF Control, OneAwaited
    <2>2. warnings + 1 <= troubles
      BY <1>3, <2>1 DEF Control, WarningsAccounted, Flag
    <2>3. Flag(~warned' /\ (~up' \/ token' = Dead)) = 0
      BY <1>3 DEF Flag
    <2> QED  BY <1>0, <1>3, <2>2, <2>3 DEF WarningsAccounted
  <1> QED  BY <1>1, <1>2, <1>3 DEF WarnChange

LEMMA WarnedInTrouble ==
  ASSUME Control, NEW r \in wire, NEW what, WarnChange(r, what), troubles' = troubles + 1
  PROVE  WarningsAccounted'
  <1>0. warnings \in Nat /\ troubles \in Nat /\ warnings <= troubles
    BY Constants DEF Control, Types, ClientTypes, CoreTypes, WarningsAccounted, Flag
  <1>1. CASE warnings' = warnings
    BY <1>0, <1>1 DEF WarningsAccounted, Flag
  <1>2. CASE warned' = TRUE /\ warnings' = warnings + 1
    <2>1. Flag(~warned' /\ (~up' \/ token' = Dead)) = 0
      BY <1>2 DEF Flag
    <2> QED  BY <1>0, <1>2, <2>1 DEF WarningsAccounted
  <1> QED  BY <1>1, <1>2 DEF WarnChange

LEMMA RenewControl ==
  ASSUME Control, NEW r \in wire, Renew(r)
  PROVE  Control'
  <1> DEFINE what == IF r.token # Dead THEN "ok" ELSE "unauthorized"
  <1>1. /\ Answer(r, what) /\ wire' = wire \ {r} /\ up
        /\ UNCHANGED <<coreVars, bounds>>
    BY DEF Renew, Handled
  <1>2. what # "ok" => r.token = Dead
    OBVIOUS
  <1> HIDE DEF what
  <1>3. ClientTypes' /\ LengthAccounted' /\ WarnChange(r, what)
    BY <1>1, AnswerControl
  <1>4. OneAwaited' /\ WireTypes'
    BY <1>1, HandledControl
  <1>5. CoreTypes' /\ up' = up /\ troubles' = troubles
    BY <1>1 DEF Control, Types, CoreTypes, coreVars, bounds
  <1>6. WarningsAccounted'
    BY <1>1, <1>2, <1>3, <1>5, WarnedInTime
  <1> QED  BY <1>3, <1>4, <1>5, <1>6 DEF Control, Types

LEMMA RejectControl ==
  ASSUME Control, NEW r \in wire, Reject(r)
  PROVE  Control'
  <1>1. PICK what \in {"error", "unauthorized"} : Answer(r, what)
    BY DEF Reject
  <1>2. wire' = wire \ {r} /\ up /\ r.method = "append" /\ UNCHANGED <<coreVars, bounds>>
    BY DEF Reject, Handled
  <1>3. ClientTypes' /\ LengthAccounted' /\ WarnChange(r, what)
    BY <1>1, AnswerControl
  <1>4. OneAwaited' /\ WireTypes'
    BY <1>1, <1>2, HandledControl
  <1>5. CoreTypes' /\ up' = up /\ troubles' = troubles
    BY <1>2 DEF Control, Types, CoreTypes, coreVars, bounds
  <1>6. WarningsAccounted'
    BY <1>2, <1>3, <1>5, WarnedInTime
  <1> QED  BY <1>3, <1>4, <1>5, <1>6 DEF Control, Types

LEMMA AppendControl ==
  ASSUME Control, NEW r \in wire, AppendBatch(r)
  PROVE  Control' /\ Extends(r.items, Len(r.items))
  <1>0. /\ stored \in Seq(Events) /\ r.items \in Seq(Events) /\ Len(r.items) \in Nat
        /\ used \in 0..Rate /\ Rate \in Nat
    BY Constants DEF Control, Types, CoreTypes, WireTypes, Requests
  <1>1. /\ Answer(r, "ok") /\ wire' = wire \ {r} /\ up /\ r.method = "append"
        /\ stored' = stored \o r.items /\ used' = used + Len(r.items) /\ UNCHANGED <<up, plan, bounds>>
        /\ used + Len(r.items) <= Rate
    BY DEF AppendBatch, Handled, Acceptable, WithinRate
  <1>2. ClientTypes' /\ LengthAccounted' /\ WarnChange(r, "ok")
    BY <1>1, AnswerControl
  <1>3. OneAwaited' /\ WireTypes'
    BY <1>1, HandledControl
  <1>4. Extends(r.items, Len(r.items))
    BY <1>0, <1>1, ExtendsCases
  <1>5. CoreTypes' /\ up' = up /\ troubles' = troubles
    <2>1. stored' \in Seq(Events) /\ used' \in 0..Rate
      BY <1>0, <1>1, <1>4 DEF Extends
    <2> QED  BY <1>1, <2>1 DEF Control, Types, CoreTypes, bounds
  <1>6. WarningsAccounted'
    BY <1>1, <1>2, <1>5, WarnedInTime
  <1> QED  BY <1>2, <1>3, <1>4, <1>5, <1>6 DEF Control, Types

LEMMA BreaksControl ==
  ASSUME Control, NEW r \in wire, AppendBreaks(r)
  PROVE  Control' /\ \E m \in 0..Len(r.items) : Extends(r.items, m)
  <1>0. stored \in Seq(Events) /\ r.items \in Seq(Events) /\ Len(r.items) \in Nat
    BY DEF Control, Types, CoreTypes, WireTypes, Requests
  <1>1. /\ Answer(r, "error") /\ wire' = wire \ {r} /\ up /\ r.method = "append"
        /\ UNCHANGED <<up, plan, used>>
    BY DEF AppendBreaks, Handled
  <1>2. PICK n \in 0..Len(r.items) - 1, failure \in Failures :
           /\ stored' = stored \o SubSeq(r.items, 1, n)
                        \o IF failure = "unsynced" THEN <<r.items[n + 1]>> ELSE <<>>
           /\ Trouble /\ broken' = broken \cup {failure}
    BY Zenon DEF AppendBreaks
  <1>3. ClientTypes' /\ LengthAccounted' /\ WarnChange(r, "error")
    BY <1>1, AnswerControl
  <1>4. OneAwaited' /\ WireTypes'
    BY <1>1, HandledControl
  <1>5. PICK m \in 0..Len(r.items) : Extends(r.items, m)
    <2> DEFINE s == SubSeq(r.items, 1, n)
               t == stored \o s
    <2>0. n \in 0..Len(r.items)
      BY <1>0
    <2>1. CASE failure = "unsynced"
      <3>1. stored' = (stored \o SubSeq(r.items, 1, n)) \o <<r.items[n + 1]>>
        BY <1>2, <2>1
      <3> DEFINE b == r.items
      <3>2. b \in Seq(Events) /\ stored' = (stored \o SubSeq(b, 1, n)) \o <<b[n + 1]>>
        BY <1>0, <3>1
      <3> HIDE DEF b
      <3>3. \A k \in 0..Len(b) - 1 :
               stored' = (stored \o SubSeq(b, 1, k)) \o <<b[k + 1]>> => Extends(b, k + 1)
        BY <1>0, <3>2, ExtendsCases
      <3>4. Extends(b, n + 1)
        BY <3>2, <3>3, Zenon DEF b
      <3>5. n + 1 \in 0..Len(r.items)
        BY <1>0
      <3> QED  BY <3>4, <3>5 DEF b
    <2>2. CASE failure # "unsynced"
      <3>1. stored' = t \o <<>>
        BY <1>2, <2>2
      <3>2. t \in Seq(Events)
        <4>1. s \in Seq(Events)
          BY <1>0, SubSeqProperties
        <4> HIDE DEF s
        <4> QED  BY <1>0, <4>1, ConcatProperties
      <3> HIDE DEF t
      <3>3. stored' = t
        BY <3>1, <3>2, ConcatEmptySeq
      <3>4. Extends(r.items, n)
        BY <1>0, <2>0, <3>3, ExtendsCases DEF t
      <3> QED  BY <2>0, <3>4
    <2> QED  BY <2>1, <2>2
  <1>6. CoreTypes' /\ troubles' = troubles + 1
    <2>1. stored' \in Seq(Events)
      BY <1>5 DEF Extends
    <2>2. troubles' = troubles + 1 /\ troubles < MaxTroubles /\ illFormed' = illFormed
      BY <1>2, TroubleIs DEF Control, Types
    <2>3. broken' \subseteq Failures
      BY <1>2 DEF Control, Types, CoreTypes
    <2> QED  BY <1>1, <2>1, <2>2, <2>3, Constants DEF Control, Types, CoreTypes
  <1>7. WarningsAccounted'
    BY <1>3, <1>6, WarnedInTrouble
  <1> QED  BY <1>3, <1>4, <1>5, <1>6, <1>7 DEF Control, Types

LEMMA GivesUpControl ==
  ASSUME Control, NEW r \in wire, GivesUp(r)
  PROVE  Control' /\ Awaited(r)
  <1>1. /\ Awaited(r) /\ Answer(r, "error")
        /\ troubles' = troubles + 1 /\ troubles < MaxTroubles /\ illFormed' = illFormed
        /\ wire' = (wire \ {r}) \cup {[r EXCEPT !.late = troubles']}
        /\ UNCHANGED <<coreVars, broken>>
    BY TroubleIs DEF GivesUp, Awaiting, Control, Types
  <1>2. ClientTypes' /\ LengthAccounted' /\ IdleIff' /\ WarnChange(r, "error")
    BY <1>1, AnswerControl
  <1>3. CoreTypes'
    BY <1>1, Constants DEF Control, Types, CoreTypes, coreVars
  <1> DEFINE gone == [r EXCEPT !.late = troubles']
  <1>4. gone \in Requests /\ ~Awaited(gone)
    <2>1. troubles' \in Nat /\ troubles' # 0 /\ r \in Requests
      BY <1>1, Constants DEF Control, Types, CoreTypes, WireTypes
    <2>2. gone.late = troubles'
      BY <2>1 DEF Requests
    <2>3. gone \in Requests
      BY <2>1 DEF Requests
    <2> QED  BY <2>1, <2>2, <2>3 DEF Awaited
  <1>5. wire' = (wire \ {r}) \cup {gone}
    BY <1>1
  <1> HIDE DEF gone
  <1>6. WireTypes'
    <2>1. IsFiniteSet(wire \ {r})
      BY FS_RemoveElement DEF Control, Types, WireTypes
    <2>2. IsFiniteSet(wire')
      BY <1>5, <2>1, FS_AddElement
    <2> QED  BY <1>4, <1>5, <2>2 DEF Control, Types, WireTypes
  <1>7. OneAwaited'
    <2>1. \A q \in wire' : ~Awaited(q)
      BY <1>1, <1>4, <1>5 DEF Control, OneAwaited
    <2> QED  BY <1>2, <2>1, NobodyWaits
  <1>8. WarningsAccounted'
    BY <1>1, <1>2, WarnedInTrouble
  <1> QED  BY <1>1, <1>2, <1>3, <1>6, <1>7, <1>8 DEF Control, Types

LEMMA CrashControl ==
  ASSUME Control, Crash
  PROVE  /\ Control' /\ wire' = {} /\ troubles' = troubles + 1
         /\ \/ stored' = stored
            \/ \E r \in wire : r.method = "append" /\ \E m \in 0..Len(r.items) : Extends(r.items, m)
         /\ UNCHANGED clientVars \/ \E r \in Awaiting : Answer(r, "error")
  <1>1. /\ up' = FALSE /\ Trouble /\ wire' = {} /\ UNCHANGED <<plan, used, broken>>
        /\ UNCHANGED clientVars \/ \E r \in Awaiting : Answer(r, "error")
    BY DEF Crash
  <1>2. \/ stored' = stored
        \/ \E r \in wire : r.method = "append" /\
              \E n \in 0..Len(r.items) : stored' = stored \o SubSeq(r.items, 1, n)
    <2>1. CASE UNCHANGED <<log, stored>>
      BY <2>1
    <2>2. CASE ~UNCHANGED <<log, stored>>
      BY <2>2, Zenon DEF Crash
    <2> QED  BY <2>1, <2>2
  <1>3. /\ stored' \in Seq(Events)
        /\ \/ stored' = stored
           \/ \E r \in wire : r.method = "append" /\ \E m \in 0..Len(r.items) : Extends(r.items, m)
    <2>0. stored \in Seq(Events)
      BY DEF Control, Types, CoreTypes
    <2>1. CASE stored' = stored
      BY <2>0, <2>1
    <2>2. CASE stored' # stored
      <3>0. PICK r \in wire :
               r.method = "append" /\ \E n \in 0..Len(r.items) : stored' = stored \o SubSeq(r.items, 1, n)
        BY <1>2, <2>2, Zenon
      <3>1. PICK n \in 0..Len(r.items) : stored' = stored \o SubSeq(r.items, 1, n)
        BY <3>0
      <3> DEFINE b == r.items
      <3>2. b \in Seq(Events) /\ n \in 0..Len(b) /\ stored' = stored \o SubSeq(b, 1, n)
        BY <3>1 DEF Control, Types, WireTypes, Requests
      <3> HIDE DEF b
      <3>3. Extends(b, n)
        BY <2>0, <3>2, ExtendsCases
      <3>4. stored' \in Seq(Events)
        BY <3>3 DEF Extends
      <3> QED  BY <3>0, <3>1, <3>3, <3>4 DEF b
    <2> QED  BY <2>1, <2>2
  <1>4. CoreTypes' /\ troubles' = troubles + 1
    <2>1. troubles' = troubles + 1 /\ troubles < MaxTroubles /\ illFormed' = illFormed
      BY <1>1, TroubleIs DEF Control, Types
    <2>2. troubles' \in 0..MaxTroubles
      BY <2>1, Constants DEF Control, Types, CoreTypes
    <2>3. /\ plan' \subseteq Plugins /\ used' \in 0..Rate /\ broken' \subseteq Failures
          /\ up' \in BOOLEAN /\ illFormed' \in Nat
      BY <1>1, <2>1 DEF Control, Types, CoreTypes
    <2> QED  BY <1>3, <2>1, <2>2, <2>3 DEF CoreTypes
  <1>5. ClientTypes' /\ LengthAccounted' /\ IdleIff' /\ WarningsAccounted'
    <2>1. CASE UNCHANGED clientVars
      <3>1. warnings \in Nat /\ troubles \in Nat /\ warnings <= troubles /\ warnings' = warnings
        BY <2>1, Constants DEF Control, Types, ClientTypes, CoreTypes, WarningsAccounted, Flag, clientVars
      <3>2. WarningsAccounted'
        BY <1>4, <3>1 DEF WarningsAccounted, Flag
      <3> QED  BY <2>1, <3>2, ClientSame
    <2>2. CASE \E r \in Awaiting : Answer(r, "error")
      <3>1. PICK r \in wire : Answer(r, "error")
        BY <2>2 DEF Awaiting
      <3>2. ClientTypes' /\ LengthAccounted' /\ IdleIff' /\ WarnChange(r, "error")
        BY <3>1, AnswerControl
      <3> QED  BY <1>4, <3>2, WarnedInTrouble
    <2> QED  BY <1>1, <2>1, <2>2
  <1>6. WireTypes' /\ OneAwaited'
    <2>1. IsFiniteSet({})
      BY FS_EmptySet
    <2> QED  BY <1>1, <1>5, <2>1, NobodyWaits DEF WireTypes
  <1> QED  BY <1>1, <1>3, <1>4, <1>5, <1>6 DEF Control, Types

(* A step that leaves the client, its requests and what is written alone.  *)
CoreAlone ==
    /\ UNCHANGED <<clientVars, wire, stored>>
    /\ up => up'
    /\ troubles' \in {troubles, troubles + 1} /\ troubles' <= MaxTroubles

LEMMA CoreAloneControl ==
  ASSUME Control, CoreAlone, CoreTypes'
  PROVE  Control'
  <1>1. ClientTypes' /\ LengthAccounted' /\ IdleIff'
    BY ClientSame DEF CoreAlone
  <1>2. WireTypes' /\ OneAwaited'
    BY <1>1, WireSame, FewerRequests DEF CoreAlone, clientVars, Control
  <1>3. WarningsAccounted'
    <2>1. warnings \in Nat /\ troubles \in Nat /\ warnings' = warnings /\ warned' = warned /\ token' = token
      BY Constants DEF CoreAlone, clientVars, Control, Types, ClientTypes, CoreTypes
    <2>2. CASE up' \/ warned \/ token # Dead \/ ~up
      <3>0. ~warned' /\ (~up' \/ token' = Dead) => ~warned /\ (~up \/ token = Dead)
        BY <2>1, Zenon DEF CoreAlone
      <3> DEFINE now == ~warned /\ (~up \/ token = Dead)
                 then == ~warned' /\ (~up' \/ token' = Dead)
      <3>1. Flag(~warned' /\ (~up' \/ token' = Dead)) <= Flag(~warned /\ (~up \/ token = Dead))
        <4>1. then => now
          BY <3>0
        <4> HIDE DEF now, then
        <4>2. Flag(then) <= Flag(now)
          BY <4>1 DEF Flag
        <4> QED  BY <4>2 DEF now, then
      <3>2. Flag(~warned' /\ (~up' \/ token' = Dead)) \in Nat
            /\ Flag(~warned /\ (~up \/ token = Dead)) \in Nat
        BY DEF Flag
      <3>3. troubles' \in Nat /\ troubles <= troubles'
        BY <2>1 DEF CoreAlone
      <3> QED  BY <2>1, <3>1, <3>2, <3>3 DEF Control, WarningsAccounted
    <2> QED  BY <2>2 DEF CoreAlone
  <1> QED  BY <1>1, <1>2, <1>3 DEF Control, Types

LEMMA RestartControl ==
  ASSUME Control, Restart \/ WindowPasses \/ PlanChanges
  PROVE  Control' /\ CoreAlone
  <1>1. CoreAlone /\ CoreTypes'
    <2>1. CASE Restart
      BY <2>1, Constants DEF Restart, CoreAlone, CoreTypes, Control, Types, bounds
    <2>2. CASE WindowPasses
      BY <2>2, Constants DEF WindowPasses, CoreAlone, CoreTypes, Control, Types, bounds
    <2>3. CASE PlanChanges
      BY <2>3, TroubleIs, Constants DEF PlanChanges, CoreAlone, CoreTypes, Control, Types
    <2> QED  BY <2>1, <2>2, <2>3
  <1> QED  BY <1>1, CoreAloneControl

LEMMA ControlInit ==
  ASSUME Init
  PROVE  Control
  <1>1. Types
    <2>1. IsFiniteSet({})
      BY FS_EmptySet
    <2>2. CoreTypes /\ WireTypes
      BY <2>1, Constants DEF Init, CoreTypes, WireTypes
    <2>3. /\ queue = <<>> /\ dropped = 0 /\ call = [at |-> "idle", items |-> <<>>]
          /\ token = 0 /\ emitted = 0 /\ warnings = 0 /\ lost = {}
          /\ timer = FALSE /\ backoff = FALSE /\ warned = FALSE
      BY Constants DEF Init
    <2>4. call \in [at : Calls, items : Seq(Events)] /\ Len(call.items) <= BatchSize
      BY <2>3, Constants DEF Calls
    <2>5. ClientTypes
      <3>1. timer \in BOOLEAN /\ backoff \in BOOLEAN /\ warned \in BOOLEAN
        BY <2>3, Zenon
      <3>2. /\ queue \in Seq(Events) /\ dropped \in Nat /\ token \in Fresh..Dead
            /\ emitted \in 0..MaxEvents /\ warnings \in Nat /\ lost \subseteq Ids
        BY <2>3, Constants
      <3> QED  BY <2>4, <3>1, <3>2, Zenon DEF ClientTypes
    <2> QED  BY <2>2, <2>5 DEF Types
  <1>2. OneAwaited /\ WarningsAccounted /\ LengthAccounted
    BY Constants DEF Init, OneAwaited, IdleIff, WarningsAccounted, LengthAccounted, Flag
  <1> QED  BY <1>1, <1>2 DEF Control

LEMMA ControlSame ==
  ASSUME Control, UNCHANGED vars
  PROVE  Control'
  BY DEF Control, Types, ClientTypes, CoreTypes, WireTypes, OneAwaited, IdleIff, WarningsAccounted,
         LengthAccounted, vars, clientVars, coreVars, bounds

LEMMA ControlNext ==
  ASSUME Control, Next
  PROVE  Control'
  <1>1. CASE \E source \in Sources, form \in Forms : Emit(source, form)
    BY <1>1, EmitControl
  <1>2. CASE TimerFires
    BY <1>2, TimerControl
  <1>3. CASE Ensure
    BY <1>3, EnsureControl
  <1>4. CASE ForceRenewal
    BY <1>4, ForceControl
  <1>5. CASE RenewalRefused
    BY <1>5, RefusedControl
  <1>6. CASE Send
    BY <1>6, SendControl
  <1>7. CASE OtherRenewal
    BY <1>7, OtherRenewalControl
  <1>8. CASE BackoffEnds
    BY <1>8, BackoffControl
  <1>9. CASE Age
    BY <1>9, AgeControl
  <1>10. CASE \E r \in wire : \/ Renew(r) \/ Reject(r) \/ AppendBatch(r) \/ AppendBreaks(r)
                              \/ GivesUp(r)
    BY <1>10, RenewControl, RejectControl, AppendControl, BreaksControl, GivesUpControl
  <1>11. CASE Crash
    BY <1>11, CrashControl
  <1>12. CASE Restart \/ WindowPasses \/ PlanChanges
    BY <1>12, RestartControl
  <1> QED  BY <1>1, <1>2, <1>3, <1>4, <1>5, <1>6, <1>7, <1>8, <1>9, <1>10, <1>11, <1>12 DEF Next
-------------------------------------------------------------------------------
(* The data part.  First the events that are around.                       *)
LEMMA Members ==
  ASSUME NEW s \in Seq(Events), NEW e
  PROVE  e \in ToSet(s) <=> \E i \in 1..Len(s) : s[i] = e
  BY DEF ToSet

LEMMA AroundIsEvents ==
  ASSUME Control
  PROVE  /\ Around \subseteq Events /\ \A b \in Batches : b \in Seq(Events)
         /\ \A i \in 1..Len(queue) : queue[i] \in Around /\ queue[i] \in Events
         /\ \A i \in 1..Len(stored) : stored[i] \in Around /\ stored[i] \in Events
         /\ \A b \in Batches : \A i \in 1..Len(b) : b[i] \in Around /\ b[i] \in Events
  <1>1. \A b \in Batches : b \in Seq(Events)
    BY DEF Control, Types, ClientTypes, WireTypes, Requests, Batches
  <1>2. queue \in Seq(Events) /\ stored \in Seq(Events)
    BY DEF Control, Types, ClientTypes, CoreTypes
  <1> HIDE DEF Batches
  <1>3. \A i \in 1..Len(queue) : queue[i] \in Around /\ queue[i] \in Events
    BY <1>2, Members DEF Around
  <1>4. \A i \in 1..Len(stored) : stored[i] \in Around /\ stored[i] \in Events
    BY <1>2, Members DEF Around
  <1>5. ASSUME NEW b \in Batches, NEW i \in 1..Len(b)
        PROVE  b[i] \in Around /\ b[i] \in Events
    <2>1. b[i] \in ToSet(b)
      BY <1>1, Members
    <2> QED  BY <1>1, <2>1 DEF Around
  <1>6. Around \subseteq Events
    <2> SUFFICES ASSUME NEW e \in Around PROVE e \in Events
      OBVIOUS
    <2>1. CASE e \in ToSet(queue)
      BY <1>2, <2>1, Members
    <2>2. CASE e \in ToSet(stored)
      BY <1>2, <2>2, Members
    <2>3. CASE \E b \in Batches : e \in ToSet(b)
      <3>1. PICK b \in Batches : e \in ToSet(b)
        BY <2>3
      <3>2. PICK i \in 1..Len(b) : b[i] = e
        BY <1>1, <3>1, Members
      <3> QED  BY <1>5, <3>2
    <2> QED  BY <2>1, <2>2, <2>3 DEF Around
  <1> QED  BY <1>1, <1>3, <1>4, <1>5, <1>6

LEMMA AroundHas ==
  ASSUME Control, NEW e
  PROVE  e \in Around <=> \/ \E i \in 1..Len(queue) : queue[i] = e
                          \/ \E i \in 1..Len(stored) : stored[i] = e
                          \/ \E b \in Batches : \E i \in 1..Len(b) : b[i] = e
  <1>1. queue \in Seq(Events) /\ stored \in Seq(Events) /\ \A b \in Batches : b \in Seq(Events)
    BY AroundIsEvents DEF Control, Types, ClientTypes, CoreTypes
  <1>2. \A b \in Batches : e \in ToSet(b) <=> \E i \in 1..Len(b) : b[i] = e
    BY <1>1, Members
  <1> HIDE DEF Batches
  <1> QED  BY <1>1, <1>2, Members DEF Around

(* The queue.                                                              *)
LEMMA QueuedIs ==
  ASSUME queue \in Seq(Events), NEW id
  PROVE  Queued(id) <=> Has(queue, id)
  BY DEF Queued, Has

(* An event is pushed: it is the last, the others keep their order, and    *)
(* the one that has gone is counted as lost.                               *)
LEMMA PushedKeeps ==
  ASSUME queue \in Seq(Events), NEW e \in Events, Pushes(e)
  PROVE  /\ queue' \in Seq(Events) /\ lost \subseteq lost'
         /\ Len(queue') \in 1..Len(queue) + 1 /\ queue'[Len(queue')] = e
         /\ \A i \in 1..Len(queue') - 1 : \E k \in 1..Len(queue) : k >= i /\ queue'[i] = queue[k]
         /\ \A i, j \in 1..Len(queue') - 1 : i < j =>
               \E k, l \in 1..Len(queue) : k < l /\ queue'[i] = queue[k] /\ queue'[j] = queue[l]
         /\ \A k \in 1..Len(queue) :
               queue[k].id \in lost' \/ \E i \in 1..Len(queue') : queue'[i] = queue[k]
  <1>1. PICK d \in {0, 1} :
           /\ PushedIs(queue, e, queue', d) /\ dropped' = dropped + d
           /\ lost' = lost \cup IF d = 1 THEN {queue[1].id} ELSE {}
    BY DEF Pushes
  <1>2. /\ queue' \in Seq(Events) /\ Len(queue') = Len(queue) + 1 - d /\ Len(queue) \in Nat
        /\ \A i \in 1..Len(queue) - d : queue'[i] = queue[i + d]
        /\ queue'[Len(queue) + 1 - d] = e
        /\ d = 1 => Len(queue) >= 1
    BY <1>1 DEF PushedIs
  <1>3. Len(queue') - 1 = Len(queue) - d /\ Len(queue') \in 1..Len(queue) + 1 /\ queue'[Len(queue')] = e
    BY <1>2
  <1>4. \A i \in 1..Len(queue') - 1 : i + d \in 1..Len(queue) /\ i + d >= i /\ queue'[i] = queue[i + d]
    BY <1>2, <1>3
  <1>5. \A i, j \in 1..Len(queue') - 1 : i < j =>
               \E k, l \in 1..Len(queue) : k < l /\ queue'[i] = queue[k] /\ queue'[j] = queue[l]
    <2> SUFFICES ASSUME NEW i \in 1..Len(queue') - 1, NEW j \in 1..Len(queue') - 1, i < j
                 PROVE  \E k, l \in 1..Len(queue) : k < l /\ queue'[i] = queue[k] /\ queue'[j] = queue[l]
      OBVIOUS
    <2>1. i + d < j + d
      BY <1>2, <1>3
    <2> QED  BY <1>4, <2>1
  <1>6. ASSUME NEW k \in 1..Len(queue)
        PROVE  queue[k].id \in lost' \/ \E i \in 1..Len(queue') : queue'[i] = queue[k]
    <2>1. CASE d = 1 /\ k = 1
      BY <1>1, <2>1
    <2>2. CASE ~(d = 1 /\ k = 1)
      <3>1. k - d \in 1..Len(queue) - d /\ (k - d) + d = k /\ k - d \in 1..Len(queue')
        BY <1>2, <2>2
      <3>2. queue'[k - d] = queue[k]
        BY <1>2, <3>1
      <3> QED  BY <3>1, <3>2
    <2> QED  BY <2>1, <2>2
  <1>7. lost \subseteq lost'
    BY <1>1
  <1> QED  BY <1>2, <1>3, <1>4, <1>5, <1>6, <1>7

(* What a step on the queue means for the events that were emitted.        *)
Known(e) == Real(e) \/ e.id = 0 \/ e.id > MaxEvents

QueueData ==
    /\ \A id \in 1..emitted : Has(queue', id) => Has(queue, id)
    /\ InOrder(queue)' /\ lost \subseteq lost'
    /\ \A i \in 1..Len(queue') :
          \/ \E k \in 1..Len(queue) : queue'[i] = queue[k]
          \/ queue'[i].id = 0 \/ queue'[i].id > MaxEvents
          \/ Emits(queue'[i])
    /\ \A id \in 1..emitted :
          Has(queue, id) => Has(queue', id) \/ id \in lost' \/ (Has(call.items, id) /\ ~Keeping)
    /\ emitted' # emitted => Has(queue', emitted')

LEMMA QuietData ==
  ASSUME InOrder(queue), Quiet
  PROVE  QueueData
  <1>1. queue' = queue /\ emitted' = emitted /\ lost' = lost
    BY DEF Quiet
  <1>2. InOrder(queue)'
    BY <1>1 DEF InOrder, Real
  <1> QED  BY <1>1, <1>2 DEF QueueData

LEMMA PushesData ==
  ASSUME Control, KnownIds, InOrder(queue), NEW e \in Events, Pushes(e),
         (emitted' = emitted /\ e.id > MaxEvents) \/ Emits(e)
  PROVE  QueueData
  <1>0. /\ queue \in Seq(Events) /\ emitted \in Nat /\ emitted <= MaxEvents /\ MaxEvents \in Nat
        /\ e.id \in Nat /\ emitted' \in {emitted, emitted + 1}
        /\ e.id > emitted /\ (emitted' # emitted => Emits(e) /\ e.id = emitted')
        /\ (e.id <= emitted' => emitted' = emitted + 1)
    BY Constants, EventHas DEF Control, Types, ClientTypes, Emits
  <1>1. /\ queue' \in Seq(Events) /\ lost \subseteq lost'
        /\ Len(queue') \in 1..Len(queue) + 1 /\ queue'[Len(queue')] = e
        /\ \A i \in 1..Len(queue') - 1 : \E k \in 1..Len(queue) : k >= i /\ queue'[i] = queue[k]
        /\ \A i, j \in 1..Len(queue') - 1 : i < j =>
               \E k, l \in 1..Len(queue) : k < l /\ queue'[i] = queue[k] /\ queue'[j] = queue[l]
        /\ \A k \in 1..Len(queue) :
               queue[k].id \in lost' \/ \E i \in 1..Len(queue') : queue'[i] = queue[k]
    BY <1>0, PushedKeeps
  <1>2. \A i \in 1..Len(queue') : i = Len(queue') \/ i \in 1..Len(queue') - 1
    BY <1>1
  <1>3. \A k \in 1..Len(queue) : /\ queue[k].id \in Nat
                                 /\ queue[k].id \in 1..emitted' => Real(queue[k])
    <2> SUFFICES ASSUME NEW k \in 1..Len(queue)
                 PROVE  queue[k].id \in Nat /\ (queue[k].id \in 1..emitted' => Real(queue[k]))
      OBVIOUS
    <2>1. queue[k] \in Around /\ queue[k] \in Events
      BY AroundIsEvents
    <2>2. queue[k].id \in Nat
      BY <2>1, EventHas
    <2>3. Real(queue[k]) \/ queue[k].id = 0 \/ queue[k].id > MaxEvents
      BY <2>1 DEF KnownIds
    <2>4. emitted' <= MaxEvents
      BY <1>0 DEF Emits
    <2> QED  BY <1>0, <2>2, <2>3, <2>4
  <1>4. \A id \in 1..emitted : Has(queue', id) => Has(queue, id)
    <2> SUFFICES ASSUME NEW id \in 1..emitted, NEW i \in 1..Len(queue'), queue'[i].id = id
                 PROVE  \E k \in 1..Len(queue) : queue[k].id = id
      BY DEF Has
    <2>1. i # Len(queue')
      BY <1>0, <1>1
    <2> QED  BY <1>1, <1>2, <2>1
  <1>5. InOrder(queue)'
    <2> SUFFICES ASSUME NEW i \in 1..Len(queue'), NEW j \in 1..Len(queue'), i < j,
                        queue'[i].id \in 1..emitted', queue'[j].id \in 1..emitted'
                 PROVE  queue'[i].id < queue'[j].id
      BY DEF InOrder, Real
    <2>1. i \in 1..Len(queue') - 1
      BY <1>1, <1>2
    <2>2. CASE j = Len(queue')
      <3>1. PICK k \in 1..Len(queue) : queue'[i] = queue[k]
        BY <1>1, <2>1
      <3>2. queue[k].id \in 1..emitted
        BY <1>3, <3>1 DEF Real
      <3> QED  BY <1>0, <1>1, <2>2, <3>1, <3>2
    <2>3. CASE j \in 1..Len(queue') - 1
      <3>1. PICK k, l \in 1..Len(queue) : k < l /\ queue'[i] = queue[k] /\ queue'[j] = queue[l]
        BY <1>1, <2>1, <2>3
      <3>2. Real(queue[k]) /\ Real(queue[l])
        BY <1>3, <3>1
      <3> QED  BY <3>1, <3>2 DEF InOrder
    <2> QED  BY <1>2, <2>2, <2>3
  <1>6. \A i \in 1..Len(queue') :
          \/ \E k \in 1..Len(queue) : queue'[i] = queue[k]
          \/ queue'[i].id = 0 \/ queue'[i].id > MaxEvents
          \/ Emits(queue'[i])
    <2> SUFFICES ASSUME NEW i \in 1..Len(queue')
                 PROVE  \/ \E k \in 1..Len(queue) : queue'[i] = queue[k]
                        \/ queue'[i].id > MaxEvents
                        \/ Emits(queue'[i])
      OBVIOUS
    <2>1. CASE i = Len(queue')
      BY <1>1, <2>1
    <2>2. CASE i \in 1..Len(queue') - 1
      BY <1>1, <2>2
    <2> QED  BY <1>2, <2>1, <2>2
  <1>7. \A id \in 1..emitted : Has(queue, id) => Has(queue', id) \/ id \in lost'
    BY <1>1 DEF Has
  <1>8. emitted' # emitted => Has(queue', emitted')
    <2>1. Len(queue') \in 1..Len(queue')
      BY <1>1
    <2> QED  BY <1>0, <1>1, <2>1 DEF Has
  <1> QED  BY <1>1, <1>4, <1>5, <1>6, <1>7, <1>8 DEF QueueData

LEMMA TakesData ==
  ASSUME Control, KnownIds, InOrder(queue), Takes
  PROVE  /\ ~Keeping => QueueData
         /\ \A id \in 1..emitted : Has(call.items, id) => ~Has(queue', id)
  <1> DEFINE n == Flag(dropped > 0)
  <1>0. /\ queue \in Seq(Events) /\ call.items \in Seq(Events) /\ emitted' = emitted /\ lost' = lost
        /\ Notice.id = 0 /\ n \in {0, 1}
    BY DEF Control, Types, ClientTypes, Takes, Notice, Flag
  <1>1. /\ queue' \in Seq(Events) /\ Len(queue') >= n /\ (n = 1 => queue'[1] = Notice)
        /\ \E f : /\ f \in [n + 1..Len(queue') -> 1..Len(queue)]
                  /\ \A k \in n + 1..Len(queue') : queue'[k] = queue[f[k]] /\ queue'[k] \notin ToSet(call.items)
                  /\ \A k, l \in n + 1..Len(queue') : k < l => f[k] < f[l]
                  /\ \A i \in 1..Len(queue) : queue[i] \notin ToSet(call.items)
                       => \E k \in n + 1..Len(queue') : f[k] = i
    BY DEF Takes, LeftIs
  <1> HIDE DEF n
  <1>2. PICK f : /\ f \in [n + 1..Len(queue') -> 1..Len(queue)]
                 /\ \A k \in n + 1..Len(queue') : queue'[k] = queue[f[k]] /\ queue'[k] \notin ToSet(call.items)
                 /\ \A k, l \in n + 1..Len(queue') : k < l => f[k] < f[l]
                 /\ \A i \in 1..Len(queue) : queue[i] \notin ToSet(call.items)
                      => \E k \in n + 1..Len(queue') : f[k] = i
    BY <1>1
  <1>3. \A i \in 1..Len(queue') : (i = 1 /\ queue'[i].id = 0) \/ i \in n + 1..Len(queue')
    BY <1>0, <1>1
  <1>4. n + 1..Len(queue') \subseteq 1..Len(queue')
    BY <1>0, <1>1
  <1>5. \A i \in n + 1..Len(queue') : f[i] \in 1..Len(queue) /\ queue'[i] = queue[f[i]]
    BY <1>2
  <1>6. \A id \in 1..emitted : Has(queue', id) => Has(queue, id)
    <2> SUFFICES ASSUME NEW id \in 1..emitted, NEW i \in 1..Len(queue'), queue'[i].id = id
                 PROVE  \E k \in 1..Len(queue) : queue[k].id = id
      BY DEF Has
    <2>1. i \in n + 1..Len(queue')
      BY <1>3
    <2> QED  BY <1>5, <2>1
  <1>7. InOrder(queue)'
    <2> SUFFICES ASSUME NEW i \in 1..Len(queue'), NEW j \in 1..Len(queue'), i < j,
                        queue'[i].id \in 1..emitted, queue'[j].id \in 1..emitted
                 PROVE  queue'[i].id < queue'[j].id
      BY <1>0 DEF InOrder, Real
    <2>1. i \in n + 1..Len(queue') /\ j \in n + 1..Len(queue')
      BY <1>3
    <2>2. /\ f[i] \in 1..Len(queue) /\ f[j] \in 1..Len(queue) /\ f[i] < f[j]
          /\ queue'[i] = queue[f[i]] /\ queue'[j] = queue[f[j]]
      BY <1>2, <1>5, <2>1
    <2> QED  BY <2>2 DEF InOrder, Real
  <1>8. ASSUME NEW id \in 1..emitted, Has(queue, id)
        PROVE  Has(queue', id) \/ Has(call.items, id)
    <2>1. PICK i \in 1..Len(queue) : queue[i].id = id
      BY <1>8 DEF Has
    <2>2. CASE queue[i] \in ToSet(call.items)
      BY <1>0, <2>1, <2>2, Members DEF Has
    <2>3. CASE queue[i] \notin ToSet(call.items)
      <3>1. PICK k \in n + 1..Len(queue') : f[k] = i
        BY <1>2, <2>3
      <3>2. k \in 1..Len(queue') /\ queue'[k].id = id
        BY <1>4, <1>5, <2>1, <3>1
      <3> QED  BY <3>2 DEF Has
    <2> QED  BY <2>2, <2>3
  <1>9. ASSUME NEW id \in 1..emitted, Has(call.items, id), Has(queue', id)
        PROVE  FALSE
    <2>1. PICK j \in 1..Len(call.items) : call.items[j].id = id
      BY <1>9 DEF Has
    <2>2. PICK i \in 1..Len(queue') : queue'[i].id = id
      BY <1>9 DEF Has
    <2>3. i \in n + 1..Len(queue')
      BY <1>3, <2>2
    <2>4. queue'[i] = queue[f[i]] /\ f[i] \in 1..Len(queue) /\ queue'[i] \notin ToSet(call.items)
      BY <1>2, <1>5, <2>3
    <2>5. queue[f[i]] \in Around
      BY <2>4, AroundIsEvents
    <2>6. call.items[j] \in Around
      <3>1. call.items \in Batches
        BY DEF Batches
      <3> HIDE DEF Batches
      <3> QED  BY <3>1, AroundIsEvents
    <2>7. call.items[j] = queue[f[i]]
      BY <2>1, <2>2, <2>4, <2>5, <2>6 DEF KnownIds, Real
    <2>8. call.items[j] \in ToSet(call.items)
      BY <1>0, Members
    <2> QED  BY <2>4, <2>7, <2>8
  <1>10. \A i \in 1..Len(queue') : \/ \E k \in 1..Len(queue) : queue'[i] = queue[k]
                                   \/ queue'[i].id = 0
    BY <1>3, <1>5
  <1> QED  BY <1>0, <1>6, <1>7, <1>8, <1>9, <1>10 DEF QueueData

LEMMA QueueStepData ==
  ASSUME Control, KnownIds, InOrder(queue), QueueStep
  PROVE  QueueData
  <1>1. CASE Quiet
    BY <1>1, QuietData
  <1>2. CASE Warns
    <2>1. PICK e \in Events : e.id > MaxEvents /\ Pushes(e)
      BY <1>2 DEF Warns
    <2> QED  BY <1>2, <2>1, PushesData DEF Warns
  <1>3. CASE Takes /\ ~Keeping
    BY <1>3, TakesData
  <1>4. CASE \E e \in Events : Emits(e)
    <2>1. PICK e \in Events : Emits(e)
      BY <1>4
    <2> QED  BY <2>1, PushesData DEF Emits
  <1> QED  BY <1>1, <1>2, <1>3, <1>4 DEF QueueStep, Keeping
-------------------------------------------------------------------------------
(* What any step does to the events that are around.                       *)
Appends == \E b \in Batches : \E m \in 0..Len(b) : Extends(b, m)
Covering(b) == InOrder(b) /\ Covers(b) /\ \A i \in 1..Len(b) : b[i] \in Around
NewBatches == \A b \in Batches' : b \in Batches \/ Covering(b)
Delivered == Extends(call.items, Len(call.items))
DataStep == (Keeping \/ (Takes /\ Delivered)) /\ Appends /\ NewBatches
Data == KnownIds /\ InOrder(queue) /\ Accounted /\ BatchesCover /\ StoredCovers

LEMMA OneEmitted ==
  ASSUME queue \in Seq(Events), NEW e, NEW f, Emits(e), Emits(f)
  PROVE  e = f
  <1>1. queue'[Len(queue')] = e
    BY PushedKeeps DEF Emits
  <1>2. queue'[Len(queue')] = f
    BY PushedKeeps DEF Emits
  <1> QED  BY <1>1, <1>2

LEMMA WrittenIs ==
  ASSUME NEW id
  PROVE  /\ stored \in Seq(Events) => Written(id) = {i \in 1..Len(stored) : stored[i].id = id}
         /\ stored' \in Seq(Events) => Written(id)' = {i \in 1..Len(stored') : stored'[i].id = id}
  BY DEF Written

LEMMA NewAround ==
  ASSUME Control, Control', KnownIds, InOrder(queue), DataStep, NEW e \in Around'
  PROVE  e \in Around \/ e.id = 0 \/ e.id > MaxEvents \/ Emits(e)
  <1>0. /\ queue' \in Seq(Events) /\ stored' \in Seq(Events) /\ stored \in Seq(Events)
        /\ Len(stored) \in Nat
    BY DEF Control, Types, ClientTypes, CoreTypes
  <1>1. CASE e \in ToSet(queue')
    <2>1. PICK i \in 1..Len(queue') : queue'[i] = e
      BY <1>0, <1>1, Members
    <2>2. QueueData
      BY QueueStepData DEF QueueStep, DataStep
    <2>3. \/ \E k \in 1..Len(queue) : queue'[i] = queue[k]
          \/ queue'[i].id = 0 \/ queue'[i].id > MaxEvents
          \/ Emits(queue'[i])
      BY <2>2 DEF QueueData
    <2>4. \A k \in 1..Len(queue) : queue[k] \in Around
      BY AroundIsEvents
    <2> QED  BY <2>1, <2>3, <2>4
  <1>2. CASE e \in ToSet(stored')
    <2>1. PICK i \in 1..Len(stored') : stored'[i] = e
      BY <1>0, <1>2, Members
    <2>2. PICK b \in Batches : \E m \in 0..Len(b) : Extends(b, m)
      BY DEF DataStep, Appends
    <2>3. b \in Seq(Events) /\ Len(b) \in Nat /\ \A j \in 1..Len(b) : b[j] \in Around
      BY AroundIsEvents
    <2>4. PICK m \in 0..Len(b) : Extends(b, m)
      BY <2>2
    <2>5. CASE i \in 1..Len(stored)
      <3>1. stored'[i] = stored[i]
        BY <2>4, <2>5 DEF Extends
      <3> QED  BY <2>1, <2>5, <3>1, AroundIsEvents
    <2>6. CASE i \notin 1..Len(stored)
      <3>1. i - Len(stored) \in 1..m /\ Len(stored) + (i - Len(stored)) = i
        BY <1>0, <2>1, <2>3, <2>4, <2>6 DEF Extends
      <3>2. stored'[i] = b[i - Len(stored)] /\ i - Len(stored) \in 1..Len(b)
        BY <2>3, <2>4, <3>1 DEF Extends
      <3> QED  BY <2>1, <2>3, <3>2
    <2> QED  BY <2>5, <2>6
  <1>3. CASE \E b \in Batches' : e \in ToSet(b)
    <2>1. PICK b \in Batches' : e \in ToSet(b)
      BY <1>3
    <2>2. b \in Seq(Events)
      BY <2>1 DEF Control, Types, ClientTypes, WireTypes, Requests, Batches
    <2>3. PICK i \in 1..Len(b) : b[i] = e
      BY <2>1, <2>2, Members
    <2>4. b \in Batches \/ Covering(b)
      BY <2>1 DEF DataStep, NewBatches
    <2>5. \A j \in 1..Len(b) : b[j] \in Around
      BY <2>4, AroundIsEvents, Zenon DEF Covering
    <2> QED  BY <2>3, <2>5
  <1> HIDE DEF Batches
  <1> QED  BY <1>1, <1>2, <1>3 DEF Around

LEMMA Numbering ==
  ASSUME Control, Control', KnownIds, DataStep
  PROVE  /\ emitted \in Nat /\ MaxEvents \in Nat /\ emitted' \in {emitted, emitted + 1}
         /\ emitted' <= MaxEvents
         /\ \A e \in Around : e.id \in Nat /\ (e.id \in 1..emitted' => Real(e))
         /\ \A e : Emits(e) => e.id = emitted + 1 /\ emitted' = emitted + 1
  <1>1. /\ emitted \in Nat /\ MaxEvents \in Nat /\ emitted' \in {emitted, emitted + 1}
        /\ emitted' <= MaxEvents
    BY Constants DEF DataStep, QueueStep, Keeping, Quiet, Warns, Takes, Emits, Control, Types, ClientTypes
  <1>2. ASSUME NEW e \in Around
        PROVE  e.id \in Nat /\ (e.id \in 1..emitted' => Real(e))
    <2>1. e \in Events /\ e.id \in Nat
      BY AroundIsEvents, EventHas
    <2>2. Real(e) \/ e.id = 0 \/ e.id > MaxEvents
      BY DEF KnownIds
    <2> QED  BY <1>1, <2>1, <2>2
  <1>3. \A e : Emits(e) => e.id = emitted + 1 /\ emitted' = emitted + 1
    BY DEF Emits
  <1> QED  BY <1>1, <1>2, <1>3

LEMMA KnownIdsKept ==
  ASSUME Control, Control', KnownIds, InOrder(queue), DataStep
  PROVE  KnownIds'
  <1>1. queue \in Seq(Events)
    BY DEF Control, Types, ClientTypes
  <1>2. ASSUME NEW e \in Around'
        PROVE  /\ Real(e)' \/ e.id = 0 \/ e.id > MaxEvents
               /\ Real(e)' => (e \in Around /\ Real(e)) \/ Emits(e)
    <2>1. e \in Around \/ e.id = 0 \/ e.id > MaxEvents \/ Emits(e)
      BY <1>2, NewAround
    <2>2. CASE e \in Around
      <3>1. Real(e) \/ e.id = 0 \/ e.id > MaxEvents
        BY <2>2 DEF KnownIds
      <3> QED  BY <2>2, <3>1, Numbering DEF Real
    <2>3. CASE e.id = 0 \/ e.id > MaxEvents
      BY <2>3, Numbering DEF Real
    <2>4. CASE Emits(e)
      BY <2>4, Numbering DEF Real
    <2> QED  BY <2>1, <2>2, <2>3, <2>4
  <1>3. ASSUME NEW e \in Around', NEW f \in Around', Real(e)', e.id = f.id
        PROVE  e = f
    <2>1. Real(f)'
      BY <1>3 DEF Real
    <2>2. ((e \in Around /\ Real(e)) \/ Emits(e)) /\ ((f \in Around /\ Real(f)) \/ Emits(f))
      BY <1>2, <1>3, <2>1
    <2>3. CASE Emits(e) /\ Emits(f)
      BY <1>1, <2>3, OneEmitted
    <2>4. CASE e \in Around /\ f \in Around
      BY <1>3, <2>2, <2>4, Numbering DEF KnownIds, Real
    <2>5. ~(Emits(e) /\ f \in Around /\ Real(f)) /\ ~(Emits(f) /\ e \in Around /\ Real(e))
      BY <1>3, Numbering DEF Real
    <2> QED  BY <2>2, <2>3, <2>4, <2>5
  <1> HIDE DEF Around
  <1> QED  BY <1>2, <1>3, Zenon DEF KnownIds
LEMMA NewAroundIsEvents ==
  ASSUME Control'
  PROVE  /\ Around' \subseteq Events
         /\ \A b \in Batches' : b \in Seq(Events) /\ \A i \in 1..Len(b) : b[i] \in Around'
         /\ \A i \in 1..Len(stored') : stored'[i] \in Around'
  <1>1. \A b \in Batches' : b \in Seq(Events)
    BY DEF Control, Types, ClientTypes, WireTypes, Requests, Batches
  <1>2. queue' \in Seq(Events) /\ stored' \in Seq(Events)
    BY DEF Control, Types, ClientTypes, CoreTypes
  <1> HIDE DEF Batches
  <1>3. \A b \in Batches' : \A i \in 1..Len(b) : b[i] \in Around'
    <2> SUFFICES ASSUME NEW b \in Batches', NEW i \in 1..Len(b) PROVE b[i] \in Around'
      OBVIOUS
    <2>1. b[i] \in ToSet(b)
      BY <1>1, Members
    <2> QED  BY <2>1 DEF Around
  <1>4. \A s \in Seq(Events) : ToSet(s) \subseteq Events
    BY Members
  <1>5. \A i \in 1..Len(stored') : stored'[i] \in Around'
    <2>1. \A i \in 1..Len(stored') : stored'[i] \in ToSet(stored')
      BY <1>2, Members
    <2> QED  BY <2>1 DEF Around
  <1>6. Around' \subseteq Events
    BY <1>1, <1>2, <1>4 DEF Around
  <1> QED  BY <1>1, <1>3, <1>5, <1>6

Passes(x, y, last) == Stream(x) = Stream(y) /\ 0 < y.id /\ y.id < x.id /\ x.id <= last

LEMMA OvertakenOld ==
  ASSUME Control, Control', KnownIds, InOrder(queue), DataStep,
         NEW x \in Around, NEW y \in Around', Passes(x, y, emitted')
  PROVE  y \in Around /\ Overtaken(x, y)
  <1>1. Stream(x) = Stream(y) /\ 0 < y.id /\ y.id < x.id /\ x.id <= emitted'
    BY DEF Passes
  <1>2. x.id \in Nat /\ y.id \in Nat /\ emitted \in Nat /\ emitted' \in Nat /\ MaxEvents \in Nat
    BY Numbering, NewAroundIsEvents, EventHas
  <1>3. x.id <= emitted
    BY <1>1, <1>2, Numbering DEF Real
  <1>4. y.id # 0 /\ ~(y.id > MaxEvents) /\ ~Emits(y)
    BY <1>1, <1>2, <1>3, Numbering
  <1>5. y \in Around
    BY <1>4, NewAround
  <1> QED  BY <1>1, <1>3, <1>5 DEF Overtaken

LEMMA WrittenGrows ==
  ASSUME Control, DataStep, NEW id
  PROVE  Written(id) \subseteq Written(id)'
  <1>1. PICK b \in Batches : \E m \in 0..Len(b) : Extends(b, m)
    BY DEF DataStep, Appends
  <1>2. PICK m \in 0..Len(b) : Extends(b, m)
    BY <1>1
  <1>3. /\ Len(b) \in Nat /\ stored \in Seq(Events) /\ stored' \in Seq(Events)
        /\ Len(stored') = Len(stored) + m /\ \A i \in 1..Len(stored) : stored'[i] = stored[i]
    BY <1>2, AroundIsEvents DEF Extends, Control, Types, CoreTypes
  <1>4. \A i \in 1..Len(stored) : i \in 1..Len(stored')
    BY <1>3
  <1>5. /\ Written(id) = {i \in 1..Len(stored) : stored[i].id = id}
        /\ Written(id)' = {i \in 1..Len(stored') : stored'[i].id = id}
    BY <1>3, WrittenIs, Zenon
  <1>6. \A i \in 1..Len(stored) : i \in 1..Len(stored') /\ stored'[i] = stored[i]
    BY <1>3, <1>4, Zenon
  <1> QED  BY <1>5, <1>6, Zenon

LEMMA BatchesKept ==
  ASSUME Control, Control', Data, DataStep
  PROVE  BatchesCover'
  <1> SUFFICES ASSUME NEW b \in Batches'
               PROVE  InOrder(b)' /\ Covers(b)'
    BY DEF BatchesCover
  <1> USE DEF Data
  <1>1. InOrder(b) /\ Covers(b) /\ \A i \in 1..Len(b) : b[i] \in Around
    <2>1. CASE b \in Batches
      BY <2>1, AroundIsEvents, Zenon DEF BatchesCover
    <2>2. CASE Covering(b)
      BY <2>2 DEF Covering
    <2> QED  BY <2>1, <2>2 DEF DataStep, NewBatches
  <1>2. InOrder(b)'
    <2>1. \A i \in 1..Len(b) : Real(b[i])' => Real(b[i])
      BY <1>1, Numbering DEF Real
    <2> QED  BY <1>1, <2>1 DEF InOrder
  <1>3. Covers(b)'
    <2> SUFFICES ASSUME NEW j \in 1..Len(b), NEW e \in Around', Passes(b[j], e, emitted')
                 PROVE  \/ e.id \in lost' \/ Written(e.id)' # {}
                        \/ \E h \in 1..Len(b) : h < j /\ b[h].id = e.id
      BY DEF Covers, Overtaken, Passes
    <2>1. e \in Around /\ Overtaken(b[j], e)
      BY <1>1, OvertakenOld
    <2>2. \/ e.id \in lost \/ Written(e.id) # {}
          \/ \E h \in 1..Len(b) : h < j /\ b[h].id = e.id
      BY <1>1, <2>1 DEF Covers
    <2>3. lost \subseteq lost'
      BY QueueStepData DEF QueueStep, DataStep, QueueData
    <2>4. Written(e.id) \subseteq Written(e.id)'
      BY WrittenGrows
    <2> QED  BY <2>2, <2>3, <2>4
  <1> QED  BY <1>2, <1>3

LEMMA StoredKept ==
  ASSUME Control, Control', Data, DataStep
  PROVE  StoredCovers'
  <1> USE DEF Data
  <1> SUFFICES ASSUME NEW i \in 1..Len(stored'), NEW e \in Around', Passes(stored'[i], e, emitted')
               PROVE  e.id \in lost' \/ \E first \in Written(e.id)' : first < i
    BY DEF StoredCovers, Overtaken, Passes
  <1>1. PICK b \in Batches : \E m \in 0..Len(b) : Extends(b, m)
    BY DEF DataStep, Appends
  <1>2. PICK m \in 0..Len(b) : Extends(b, m)
    BY <1>1
  <1>3. /\ Len(b) \in Nat /\ stored \in Seq(Events) /\ stored' \in Seq(Events) /\ Len(stored) \in Nat
        /\ m \in 0..Len(b)
        /\ Len(stored') = Len(stored) + m /\ \A k \in 1..Len(stored) : stored'[k] = stored[k]
        /\ \A j \in 1..m : stored'[Len(stored) + j] = b[j]
        /\ \A j \in 1..Len(b) : b[j] \in Around
        /\ \A k \in 1..Len(stored) : stored[k] \in Around
    BY <1>2, AroundIsEvents DEF Extends, Control, Types, CoreTypes
  <1>4. lost \subseteq lost' /\ Written(e.id) \subseteq Written(e.id)'
    BY WrittenGrows, QueueStepData DEF QueueStep, DataStep, QueueData
  <1>5. CASE i \in 1..Len(stored)
    <2>1. e \in Around /\ Overtaken(stored[i], e)
      BY <1>3, <1>5, OvertakenOld
    <2>2. e.id \in lost \/ \E first \in Written(e.id) : first < i
      BY <1>5, <2>1 DEF StoredCovers
    <2> QED  BY <1>4, <2>2
  <1>6. CASE i \notin 1..Len(stored)
    <2> DEFINE j == i - Len(stored)
    <2>1. j \in 1..m /\ j \in 1..Len(b) /\ Len(stored) + j = i
      BY <1>3, <1>6
    <2> HIDE DEF j
    <2>2. stored'[i] = b[j]
      BY <1>3, <2>1
    <2>3. e \in Around /\ Overtaken(b[j], e)
      BY <1>3, <2>1, <2>2, OvertakenOld
    <2>4. \/ e.id \in lost \/ Written(e.id) # {}
          \/ \E h \in 1..Len(b) : h < j /\ b[h].id = e.id
      BY <2>1, <2>3 DEF BatchesCover, Covers
    <2>5. CASE Written(e.id) # {}
      <3>1. PICK first \in Written(e.id) : TRUE
        BY <2>5
      <3>2. first \in 1..Len(stored) /\ first < i
        BY <1>3, <1>6, <3>1, WrittenIs
      <3> QED  BY <1>4, <3>2
    <2>6. CASE \E h \in 1..Len(b) : h < j /\ b[h].id = e.id
      <3>1. PICK h \in 1..Len(b) : h < j /\ b[h].id = e.id
        BY <2>6
      <3>2. h \in 1..m /\ Len(stored) + h \in 1..Len(stored') /\ Len(stored) + h < i
        BY <1>3, <2>1, <3>1
      <3>3. stored'[Len(stored) + h].id = e.id
        BY <1>3, <3>1, <3>2
      <3>4. Len(stored) + h \in Written(e.id)'
        BY <1>3, <3>2, <3>3, WrittenIs
      <3> QED  BY <3>2, <3>4
    <2> QED  BY <1>4, <2>4, <2>5, <2>6
  <1> QED  BY <1>5, <1>6

LEMMA DeliveredIsWritten ==
  ASSUME Control, Delivered, NEW id, Has(call.items, id)
  PROVE  Written(id)' # {}
  <1>1. PICK j \in 1..Len(call.items) : call.items[j].id = id
    BY DEF Has
  <1>2. /\ stored' \in Seq(Events) /\ Len(stored') = Len(stored) + Len(call.items)
        /\ Len(stored) \in Nat /\ Len(call.items) \in Nat
        /\ stored'[Len(stored) + j] = call.items[j]
    BY <1>1 DEF Delivered, Extends, Control, Types, ClientTypes, CoreTypes
  <1>3. Len(stored) + j \in 1..Len(stored')
    BY <1>2
  <1>4. Len(stored) + j \in Written(id)'
    BY <1>1, <1>2, <1>3, WrittenIs
  <1> QED  BY <1>4

LEMMA AccountedKept ==
  ASSUME Control, Control', Data, DataStep
  PROVE  Accounted'
  <1> USE DEF Data
  <1>0. queue \in Seq(Events) /\ queue' \in Seq(Events) /\ QueueData
    BY QueueStepData DEF QueueStep, DataStep, Control, Types, ClientTypes
  <1>1. \A id : (Queued(id) <=> Has(queue, id)) /\ (Queued(id)' <=> Has(queue', id))
    BY <1>0 DEF Queued, Has
  <1> SUFFICES ASSUME NEW id \in 1..emitted'
               PROVE  Queued(id)' \/ id \in lost' \/ Written(id)' # {}
    BY DEF Accounted
  <1>2. CASE id \in 1..emitted
    <2>1. Has(queue, id) \/ id \in lost \/ Written(id) # {}
      BY <1>1, <1>2 DEF Accounted
    <2>2. CASE Has(queue, id)
      <3>1. Has(queue', id) \/ id \in lost' \/ (Has(call.items, id) /\ ~Keeping)
        BY <1>0, <1>2, <2>2 DEF QueueData
      <3> QED  BY <1>1, <3>1, DeliveredIsWritten DEF DataStep
    <2>3. lost \subseteq lost' /\ Written(id) \subseteq Written(id)'
      BY <1>0, WrittenGrows DEF QueueData
    <2> QED  BY <2>1, <2>2, <2>3
  <1>3. CASE id \notin 1..emitted
    <2>1. id = emitted' /\ emitted' # emitted
      BY <1>3, Numbering
    <2> QED  BY <1>0, <1>1, <2>1 DEF QueueData
  <1> QED  BY <1>2, <1>3

LEMMA DataKept ==
  ASSUME Control, Control', Data, DataStep
  PROVE  Data'
  <1>1. InOrder(queue)'
    BY QueueStepData DEF QueueStep, Data, DataStep, QueueData
  <1> QED  BY <1>1, KnownIdsKept, AccountedKept, BatchesKept, StoredKept DEF Data
-------------------------------------------------------------------------------
(* How often an event is written, or may still be.                         *)
LEMMA CopiesAreFinite ==
  ASSUME Control, NEW id
  PROVE  /\ IsFiniteSet(Written(id)) /\ Cardinality(Written(id)) \in Nat
         /\ IsFiniteSet(Stray(id)) /\ Cardinality(Stray(id)) \in Nat
  <1>1. stored \in Seq(Events) /\ Len(stored) \in Nat /\ IsFiniteSet(wire)
    BY DEF Control, Types, CoreTypes, WireTypes
  <1>2. IsFiniteSet(1..Len(stored))
    BY <1>1, FS_Interval
  <1>3. Written(id) \subseteq 1..Len(stored) /\ Stray(id) \subseteq wire
    BY <1>1, WrittenIs DEF Stray
  <1>4. IsFiniteSet(Written(id)) /\ IsFiniteSet(Stray(id))
    BY <1>1, <1>2, <1>3, FS_Subset
  <1> QED  BY <1>4, FS_CardinalityType

LEMMA WrittenOnceMore ==
  ASSUME Control, Data, NEW b \in Batches, NEW m \in 0..Len(b), Extends(b, m), NEW id \in 1..emitted
  PROVE  /\ Cardinality(Written(id)') \in Nat
         /\ Cardinality(Written(id)') <= Cardinality(Written(id)) + 1
         /\ ~Has(b, id) => Written(id)' = Written(id)
  <1>1. /\ Len(b) \in Nat /\ stored \in Seq(Events) /\ stored' \in Seq(Events) /\ Len(stored) \in Nat
        /\ Len(stored') = Len(stored) + m /\ \A k \in 1..Len(stored) : stored'[k] = stored[k]
        /\ \A j \in 1..m : stored'[Len(stored) + j] = b[j]
    BY AroundIsEvents DEF Extends, Control, Types, CoreTypes
  <1>2. \A i \in 1..Len(stored') : i \in 1..Len(stored) \/ \E j \in 1..m : i = Len(stored) + j
    <2> SUFFICES ASSUME NEW i \in 1..Len(stored'), i \notin 1..Len(stored)
                 PROVE  \E j \in 1..m : i = Len(stored) + j
      OBVIOUS
    <2>1. i - Len(stored) \in 1..m /\ i = Len(stored) + (i - Len(stored))
      BY <1>1
    <2> QED  BY <2>1
  <1>3. \A i \in 1..Len(stored) : i \in 1..Len(stored')
    BY <1>1
  <1>4. \A i \in Written(id)' : i \in Written(id) \/ \E j \in 1..m : i = Len(stored) + j /\ b[j].id = id
    <2> SUFFICES ASSUME NEW i \in Written(id)', i \notin Written(id)
                 PROVE  \E j \in 1..m : i = Len(stored) + j /\ b[j].id = id
      OBVIOUS
    <2>1. i \in 1..Len(stored') /\ stored'[i].id = id
      BY <1>1, WrittenIs
    <2>2. i \notin 1..Len(stored)
      BY <1>1, <2>1, WrittenIs
    <2>3. PICK j \in 1..m : i = Len(stored) + j
      BY <1>2, <2>1, <2>2
    <2> QED  BY <1>1, <2>1, <2>3
  <1>5. Written(id) \subseteq Written(id)'
    <2>1. /\ Written(id) = {i \in 1..Len(stored) : stored[i].id = id}
          /\ Written(id)' = {i \in 1..Len(stored') : stored'[i].id = id}
      BY <1>1, WrittenIs, Zenon
    <2>2. \A i \in 1..Len(stored) : i \in 1..Len(stored') /\ stored'[i] = stored[i]
      BY <1>1, <1>3, Zenon
    <2> QED  BY <2>1, <2>2, Zenon
  <1>6. m \in Nat /\ \A j \in 1..m : j \in 1..Len(b)
    BY <1>1
  <1>7. CASE ~Has(b, id)
    <2>1. Written(id)' = Written(id)
      BY <1>4, <1>5, <1>6, <1>7 DEF Has
    <2> QED  BY <2>1, CopiesAreFinite
  <1>8. CASE Has(b, id)
    <2>1. PICK j \in 1..Len(b) : b[j].id = id
      BY <1>8 DEF Has
    <2>2. \A k \in 1..Len(b) : b[k].id = id => k = j
      <3> SUFFICES ASSUME NEW k \in 1..Len(b), b[k].id = id, k # j
                   PROVE  FALSE
        OBVIOUS
      <3>1. k < j \/ j < k
        OBVIOUS
      <3>2. Real(b[k]) /\ Real(b[j]) /\ id \in Nat
        BY <2>1, Constants DEF Real, Control, Types, ClientTypes
      <3>3. InOrder(b)
        BY DEF Data, BatchesCover
      <3> QED  BY <2>1, <3>1, <3>2, <3>3 DEF InOrder
    <2> DEFINE S == Written(id) \cup {Len(stored) + j}
    <2>3. Written(id)' \subseteq S
      BY <1>4, <1>6, <2>2
    <2>4. IsFiniteSet(S) /\ Cardinality(S) <= Cardinality(Written(id)) + 1
      <3> DEFINE W == Written(id)
                 x == Len(stored) + j
      <3>1. IsFiniteSet(W) /\ Cardinality(W) \in Nat
        BY CopiesAreFinite
      <3> HIDE DEF W, x
      <3>2. /\ IsFiniteSet(W \cup {x})
            /\ Cardinality(W \cup {x}) = IF x \in W THEN Cardinality(W) ELSE Cardinality(W) + 1
        BY <3>1, FS_AddElement
      <3>3. Cardinality(W \cup {x}) <= Cardinality(W) + 1
        BY <3>1, <3>2
      <3> QED  BY <3>2, <3>3 DEF W, x
    <2> HIDE DEF S
    <2>5. /\ IsFiniteSet(Written(id)') /\ Cardinality(Written(id)') <= Cardinality(S)
          /\ Cardinality(Written(id)') \in Nat /\ Cardinality(S) \in Nat
      BY <2>3, <2>4, FS_Subset, FS_CardinalityType
    <2> QED  BY <1>8, <2>4, <2>5, CopiesAreFinite
  <1> QED  BY <1>7, <1>8

(* Nothing comes back into the queue or the delivery.                      *)
LEMMA LiveShrinks ==
  ASSUME Control, Control', QueueData, call'.items \in {call.items, <<>>}, NEW id \in 1..emitted
  PROVE  Live(id)' => Live(id)
  <1>1. queue \in Seq(Events) /\ queue' \in Seq(Events)
    BY DEF Control, Types, ClientTypes
  <1>2. (Queued(id) <=> Has(queue, id)) /\ (Queued(id)' <=> Has(queue', id))
    BY <1>1 DEF Queued, Has
  <1>3. ~Has(<<>>, id)
    BY DEF Has
  <1>4. Has(call'.items, id) => Has(call.items, id)
    BY <1>3
  <1> QED  BY <1>2, <1>4 DEF Live, QueueData

LEMMA CopiesByParts ==
  ASSUME Control, Copies, emitted' = emitted, troubles' \in Nat, troubles \in Nat,
         \A id \in 1..emitted :
            /\ Cardinality(Written(id)') \in Nat /\ Cardinality(Stray(id)') \in Nat
            /\ Cardinality(Written(id)') + Cardinality(Stray(id)') + Flag(Live(id)')
                 <= Cardinality(Written(id)) + Cardinality(Stray(id)) + Flag(Live(id))
                    + (troubles' - troubles)
  PROVE  Copies'
  <1> SUFFICES ASSUME NEW id \in 1..emitted
               PROVE  Cardinality(Written(id)') + Cardinality(Stray(id)') + Flag(Live(id)') <= 1 + troubles'
    BY DEF Copies, Flag
  <1>1. /\ Cardinality(Written(id)) \in Nat /\ Cardinality(Stray(id)) \in Nat
        /\ Flag(Live(id)) \in Nat /\ Flag(Live(id)') \in Nat
    BY CopiesAreFinite DEF Flag
  <1>2. Cardinality(Written(id)) + Cardinality(Stray(id)) + Flag(Live(id)) <= 1 + troubles
    BY DEF Copies
  <1> QED  BY <1>1, <1>2

LEMMA FlagMonotone ==
  ASSUME NEW p, NEW q, p => q
  PROVE  Flag(p) <= Flag(q) /\ Flag(p) \in {0, 1} /\ Flag(q) \in {0, 1}
  BY DEF Flag

LEMMA StrayFewer ==
  ASSUME Control, NEW id, Stray(id)' \subseteq Stray(id)
  PROVE  Cardinality(Stray(id)') \in Nat /\ Cardinality(Stray(id)') <= Cardinality(Stray(id))
  BY CopiesAreFinite, FS_Subset, FS_CardinalityType

(* What is covered by the empty batch.                                     *)
LEMMA EmptyCovers ==
  Covering(<<>>)
  BY DEF Covering, InOrder, Covers

(* A step that sends what the client has, and writes nothing.              *)
Plain ==
    /\ Keeping /\ stored' = stored /\ emitted' = emitted /\ troubles <= troubles'
    /\ call'.items \in {call.items, <<>>}
    /\ \A r \in wire' : r \in wire \/ (Awaited(r) /\ r.items = call.items)

LEMMA NothingAppended ==
  ASSUME Control, stored' = stored
  PROVE  Appends
  <1>1. call.items \in Seq(Events) /\ stored \in Seq(Events) /\ 0 \in 0..Len(call.items)
    BY DEF Control, Types, ClientTypes, CoreTypes
  <1>2. Extends(call.items, 0)
    BY <1>1, ExtendsCases
  <1>3. call.items \in Batches
    BY DEF Batches
  <1> QED  BY <1>1, <1>2, <1>3 DEF Appends

LEMMA OldBatches ==
  ASSUME call'.items \in {call.items, <<>>}, \A r \in wire' : r.items \in Batches
  PROVE  NewBatches
  <1> SUFFICES ASSUME NEW b \in Batches' PROVE b \in Batches \/ Covering(b)
    BY DEF NewBatches
  <1>1. b = call'.items \/ \E r \in wire' : b = r.items
    BY DEF Batches
  <1>2. call.items \in Batches
    BY DEF Batches
  <1> HIDE DEF Batches
  <1> QED  BY <1>1, <1>2, EmptyCovers, Zenon

LEMMA PlainData ==
  ASSUME Control, Control', Data, Copies, Plain
  PROVE  Data' /\ Copies'
  <1>1. \A r \in wire' : r.items \in Batches
    BY DEF Plain, Batches
  <1>2. DataStep
    BY <1>1, NothingAppended, OldBatches DEF Plain, DataStep
  <1>3. QueueData
    BY <1>2, QueueStepData DEF DataStep, QueueStep, Data
  <1>4. ASSUME NEW id \in 1..emitted
        PROVE  /\ Cardinality(Written(id)') \in Nat /\ Cardinality(Stray(id)') \in Nat
               /\ Cardinality(Written(id)') + Cardinality(Stray(id)') + Flag(Live(id)')
                    <= Cardinality(Written(id)) + Cardinality(Stray(id)) + Flag(Live(id))
                       + (troubles' - troubles)
    <2>1. Written(id)' = Written(id)
      BY DEF Plain, Written
    <2>2. Stray(id)' \subseteq Stray(id)
      BY DEF Plain, Stray
    <2>3. Flag(Live(id)') <= Flag(Live(id)) /\ Flag(Live(id)') \in {0, 1} /\ Flag(Live(id)) \in {0, 1}
      BY <1>3, LiveShrinks, FlagMonotone DEF Plain
    <2>4. Cardinality(Stray(id)') \in Nat /\ Cardinality(Stray(id)') <= Cardinality(Stray(id))
      BY <2>2, StrayFewer
    <2>5. Cardinality(Written(id)) \in Nat /\ Cardinality(Stray(id)) \in Nat
      BY CopiesAreFinite
    <2>6. troubles \in Nat /\ troubles' \in Nat /\ troubles <= troubles'
      BY Constants DEF Control, Types, CoreTypes, Plain
    <2> QED  BY <2>1, <2>3, <2>4, <2>5, <2>6
  <1>5. Copies'
    <2>1. troubles \in Nat /\ troubles' \in Nat /\ emitted' = emitted
      BY Constants DEF Control, Types, CoreTypes, Plain
    <2> QED  BY <1>4, <2>1, CopiesByParts
  <1> QED  BY <1>2, <1>5, DataKept
-------------------------------------------------------------------------------
(* The data part, one action after the other.                              *)
LEMMA EmitData ==
  ASSUME Control, Control', Data, Copies, NEW source \in Sources, NEW form \in Forms, Emit(source, form)
  PROVE  Data' /\ Copies'
  <1>1. PICK e : Emits(e)
    BY EmitEffect DEF Control
  <1>2. UNCHANGED <<call, wire>> /\ stored' = stored /\ troubles' = troubles
    BY EmitEffect DEF Control, coreVars, bounds
  <1>3. Keeping /\ emitted' = emitted + 1 /\ emitted \in Nat
    BY <1>1, Constants DEF Keeping, Emits, Control, Types, ClientTypes
  <1>4. NewBatches
    BY <1>2 DEF NewBatches, Batches
  <1>5. DataStep
    BY <1>2, <1>3, <1>4, NothingAppended DEF DataStep
  <1>6. QueueData
    BY <1>5, QueueStepData DEF DataStep, QueueStep, Data
  <1>7. ASSUME NEW id \in 1..emitted'
        PROVE  Cardinality(Written(id)') + Cardinality(Stray(id)') + Flag(Live(id)') <= 1 + troubles'
    <2>1. Written(id)' = Written(id) /\ Stray(id)' = Stray(id)
      BY <1>2 DEF Written, Stray
    <2>2. Cardinality(Written(id)) \in Nat /\ Cardinality(Stray(id)) \in Nat /\ troubles \in Nat
      BY CopiesAreFinite, Constants DEF Control, Types, CoreTypes
    <2>3. CASE id \in 1..emitted
      <3>1. Flag(Live(id)') <= Flag(Live(id)) /\ Flag(Live(id)') \in {0, 1} /\ Flag(Live(id)) \in {0, 1}
        BY <1>2, <1>6, <2>3, LiveShrinks, FlagMonotone
      <3>2. Cardinality(Written(id)) + Cardinality(Stray(id)) + Flag(Live(id)) <= 1 + troubles
        BY <2>3 DEF Copies
      <3> QED  BY <1>2, <2>1, <2>2, <3>1, <3>2
    <2>4. CASE id \notin 1..emitted
      <3>1. \A f \in Around : f.id # id
        <4> SUFFICES ASSUME NEW f \in Around, f.id = id PROVE FALSE
          OBVIOUS
        <4> QED  BY <1>5, <2>4, Numbering DEF Data, Real
      <3>2. Written(id) = {}
        <4>1. \A i \in 1..Len(stored) : stored[i] \in Around
          BY AroundIsEvents
        <4> QED  BY <3>1, <4>1, WrittenIs DEF Control, Types, CoreTypes
      <3>3. Stray(id) = {}
        <4> SUFFICES ASSUME NEW r \in Stray(id) PROVE FALSE
          OBVIOUS
        <4>1. r \in wire /\ Has(r.items, id) /\ r.items \in Batches
          BY DEF Stray, Batches
        <4>2. PICK j \in 1..Len(r.items) : r.items[j].id = id
          BY <4>1 DEF Has
        <4> HIDE DEF Batches
        <4> QED  BY <3>1, <4>1, <4>2, AroundIsEvents
      <3>4. Cardinality(Written(id)') = 0 /\ Cardinality(Stray(id)') = 0
        BY <2>1, <3>2, <3>3, FS_EmptySet
      <3> QED  BY <1>2, <2>2, <3>4 DEF Flag
    <2> QED  BY <2>3, <2>4
  <1>8. Copies'
    BY <1>7 DEF Copies, Flag
  <1> QED  BY <1>5, <1>8, DataKept

(* The batch that is selected is covered: what is in front of it in its    *)
(* stream is in it.                                                        *)
LEMMA SelectedCovers ==
  ASSUME Control, Data, queue # <<>>
  PROVE  Covering(Selected) /\ \A id : Has(Selected, id) => Has(queue, id)
  <1> DEFINE b == Selected
  <1>1. queue \in Seq(Events) /\ BatchIs(b, queue)
    BY SelectedResult DEF Control, Types, ClientTypes
  <1> HIDE DEF b
  <1>2. PICK f : /\ Places(f, b, queue)
                 /\ \A i \in 1..Len(queue), k \in 1..Len(b) :
                      Stream(queue[i]) = Stream(b[k]) /\ i < f[k] =>
                        \E h \in 1..Len(b) : h < k /\ f[h] = i
    BY <1>1 DEF BatchIs
  <1>3. \A k \in 1..Len(b) : f[k] \in 1..Len(queue) /\ b[k] = queue[f[k]]
    BY <1>2 DEF Places
  <1>4. \A i \in 1..Len(b) : b[i] \in Around
    BY <1>3, AroundIsEvents
  <1>5. InOrder(b)
    <2> SUFFICES ASSUME NEW i \in 1..Len(b), NEW k \in 1..Len(b), i < k, Real(b[i]), Real(b[k])
                 PROVE  b[i].id < b[k].id
      BY DEF InOrder
    <2>1. f[i] < f[k]
      BY <1>2 DEF Places
    <2> QED  BY <1>3, <2>1 DEF Data, InOrder
  <1>6. ASSUME NEW j \in 1..Len(b), NEW e \in Around, Overtaken(b[j], e)
        PROVE  \/ e.id \in lost \/ Written(e.id) # {}
               \/ \E h \in 1..Len(b) : h < j /\ b[h].id = e.id
    <2>1. Stream(b[j]) = Stream(e) /\ 0 < e.id /\ e.id < b[j].id /\ b[j].id <= emitted
      BY <1>6 DEF Overtaken
    <2>2. e.id \in Nat /\ b[j].id \in Nat /\ emitted \in Nat
      BY <1>4, AroundIsEvents, EventHas, Constants DEF Control, Types, ClientTypes
    <2>3. Real(e) /\ Real(b[j])
      BY <2>1, <2>2 DEF Real
    <2>4. Queued(e.id) \/ e.id \in lost \/ Written(e.id) # {}
      BY <2>3 DEF Data, Accounted, Real
    <2>5. ASSUME Queued(e.id)
          PROVE  \E h \in 1..Len(b) : h < j /\ b[h].id = e.id
      <3>1. PICK k \in 1..Len(queue) : queue[k].id = e.id
        BY <1>1, <2>5, QueuedIs DEF Has
      <3>2. queue[k] = e
        BY <2>3, <3>1, AroundIsEvents DEF Data, KnownIds
      <3>3. k < f[j]
        <4>1. f[j] \in 1..Len(queue) /\ queue[f[j]] = b[j]
          BY <1>3
        <4>2. ~(f[j] < k)
          BY <2>1, <2>2, <2>3, <3>2, <4>1 DEF Data, InOrder
        <4>3. f[j] # k
          BY <2>1, <2>2, <3>2, <4>1
        <4> QED  BY <4>1, <4>2, <4>3
      <3>4. Stream(queue[k]) = Stream(b[j])
        BY <2>1, <3>2
      <3>5. PICK h \in 1..Len(b) : h < j /\ f[h] = k
        BY <1>2, <3>3, <3>4
      <3> QED  BY <1>3, <3>2, <3>5
    <2> QED  BY <2>4, <2>5
  <1>7. Covers(b)
    BY <1>6 DEF Covers
  <1>8. \A id : Has(b, id) => Has(queue, id)
    BY <1>3 DEF Has
  <1> QED  BY <1>4, <1>5, <1>7, <1>8 DEF Covering, b

LEMMA TimerData ==
  ASSUME Control, Control', Data, Copies, TimerFires
  PROVE  Data' /\ Copies'
  <1>1. /\ UNCHANGED <<queue, wire>> /\ stored' = stored /\ troubles' = troubles /\ emitted' = emitted
        /\ Quiet
    BY DEF TimerFires, coreVars, bounds, Quiet
  <1>2. CASE queue = <<>>
    <2>1. Plain
      BY <1>1, <1>2, Constants DEF Plain, TimerFires, Keeping, Control, Types, CoreTypes
    <2> QED  BY <2>1, PlainData
  <1>3. CASE queue # <<>>
    <2>1. call'.items = Selected
      BY <1>3 DEF TimerFires
    <2>2. Covering(Selected) /\ \A id : Has(Selected, id) => Has(queue, id)
      BY <1>3, SelectedCovers
    <2>3. NewBatches
      <3> SUFFICES ASSUME NEW b \in Batches' PROVE b \in Batches \/ Covering(b)
        BY DEF NewBatches
      <3>1. b = call'.items \/ b \in Batches
        BY <1>1 DEF Batches
      <3> HIDE DEF Batches
      <3> QED  BY <2>1, <2>2, <3>1, Zenon
    <2>4. DataStep
      BY <1>1, <2>3, NothingAppended DEF DataStep, Keeping
    <2>5. ASSUME NEW id \in 1..emitted
          PROVE  /\ Cardinality(Written(id)') \in Nat /\ Cardinality(Stray(id)') \in Nat
                 /\ Cardinality(Written(id)') + Cardinality(Stray(id)') + Flag(Live(id)')
                      <= Cardinality(Written(id)) + Cardinality(Stray(id)) + Flag(Live(id))
                         + (troubles' - troubles)
      <3>1. Written(id)' = Written(id) /\ Stray(id)' = Stray(id)
        BY <1>1 DEF Written, Stray
      <3>2. Live(id)' => Live(id)
        <4>1. queue \in Seq(Events) /\ queue' = queue
          BY <1>1 DEF Control, Types, ClientTypes
        <4>2. Queued(id)' <=> Queued(id)
          BY <4>1 DEF Queued
        <4>3. Has(call'.items, id) => Queued(id)
          BY <2>1, <2>2, <4>1, QueuedIs
        <4> QED  BY <4>2, <4>3 DEF Live
      <3>3. Flag(Live(id)') <= Flag(Live(id)) /\ Flag(Live(id)') \in {0, 1} /\ Flag(Live(id)) \in {0, 1}
        BY <3>2, FlagMonotone
      <3>4. Cardinality(Written(id)) \in Nat /\ Cardinality(Stray(id)) \in Nat
        BY CopiesAreFinite
      <3>5. troubles \in Nat
        BY Constants DEF Control, Types, CoreTypes
      <3> QED  BY <1>1, <3>1, <3>3, <3>4, <3>5
    <2>6. troubles \in Nat /\ troubles' \in Nat
      BY Constants DEF Control, Types, CoreTypes
    <2>7. Copies'
      BY <1>1, <2>5, <2>6, CopiesByParts
    <2> QED  BY <2>4, <2>7, DataKept
  <1> QED  BY <1>2, <1>3

LEMMA RequestPlain ==
  ASSUME Control, NEW place, At(place), NEW method, wire' = wire \cup {Request(method)},
         UNCHANGED <<queue, dropped, lost, emitted, warnings, stored, troubles>>
  PROVE  Plain
  <1>1. call \in [at : Calls, items : Seq(Events)] /\ troubles \in Nat
    BY Constants DEF Control, Types, ClientTypes, CoreTypes
  <1>2. call'.items = call.items
    BY <1>1 DEF At
  <1>3. Awaited(Request(method)) /\ Request(method).items = call.items
    BY DEF Awaited, Request
  <1>4. Keeping
    BY DEF Keeping, Quiet
  <1> QED  BY <1>1, <1>2, <1>3, <1>4 DEF Plain

LEMMA SettledPlain ==
  ASSUME Control, Settled, Keeping, wire' = wire, UNCHANGED <<stored, troubles, emitted>>
  PROVE  Plain
  <1>1. call'.items \in {call.items, <<>>}
    BY DEF Settled
  <1>2. troubles \in Nat
    BY Constants DEF Control, Types, CoreTypes
  <1> QED  BY <1>1, <1>2 DEF Plain

LEMMA ClientPlain ==
  ASSUME Control,
         Ensure \/ ForceRenewal \/ RenewalRefused \/ Send \/ OtherRenewal \/ BackoffEnds
  PROVE  Plain
  <1>1. CASE Ensure
    <2>1. /\ At("renewing") /\ wire' = wire \cup {Request("renew")}
          /\ UNCHANGED <<queue, dropped, lost, emitted, warnings, stored, troubles>>
      BY <1>1 DEF Ensure, coreVars, bounds
    <2> QED  BY <2>1, RequestPlain
  <1>2. CASE ForceRenewal
    <2>1. /\ UNCHANGED <<emitted, warnings, stored, troubles>> /\ backoff' \in BOOLEAN
      BY <1>2 DEF ForceRenewal, coreVars, bounds, Control, Types, ClientTypes
    <2>2. CASE Failed /\ wire' = wire
      <3>1. Settled /\ Quiet
        BY <2>1, <2>2, FailedIsSettled
      <3> QED  BY <2>1, <2>2, <3>1, SettledPlain DEF Keeping
    <2>3. CASE At("forcing") /\ wire' = wire \cup {Request("renew")} /\ UNCHANGED <<queue, dropped, lost>>
      BY <2>1, <2>3, RequestPlain
    <2> QED  BY <1>2, <2>2, <2>3 DEF ForceRenewal
  <1>3. CASE RenewalRefused
    <2>1. Complains /\ Settled
      BY <1>3, RefusedControl
    <2>2. wire' = wire /\ UNCHANGED <<stored, troubles, emitted>>
      BY <1>3 DEF RenewalRefused, coreVars, bounds
    <2> QED  BY <2>1, <2>2, SettledPlain DEF Complains, Keeping
  <1>4. CASE Send
    <2>1. /\ UNCHANGED <<emitted, warnings, stored, troubles>> /\ backoff' \in BOOLEAN
      BY <1>4 DEF Send, coreVars, bounds, Control, Types, ClientTypes
    <2>2. CASE Failed /\ wire' = wire
      <3>1. Settled /\ Quiet
        BY <2>1, <2>2, FailedIsSettled
      <3> QED  BY <2>1, <2>2, <3>1, SettledPlain DEF Keeping
    <2>3. CASE wire' = wire \cup {Request("append")} /\ UNCHANGED <<queue, dropped, lost>>
                /\ At(IF call.at = "resend" THEN "resent" ELSE "sent")
      BY <2>1, <2>3, RequestPlain
    <2> QED  BY <1>4, <2>2, <2>3 DEF Send
  <1>5. CASE OtherRenewal
    <2>1. UNCHANGED <<call, emitted, wire, stored, troubles>>
      BY <1>5 DEF OtherRenewal, coreVars, bounds
    <2>2. Keeping
      <3>1. CASE RenewalSucceeds
        BY <2>1, <3>1 DEF RenewalSucceeds, Keeping, Quiet
      <3>2. CASE RenewalFails
        BY <2>1, <3>2, RenewalFailsEffect DEF Control, Complains, Keeping
      <3> QED  BY <1>5, <3>1, <3>2 DEF OtherRenewal
    <2> QED  BY <2>1, <2>2, Constants DEF Plain, Control, Types, CoreTypes
  <1>6. CASE BackoffEnds
    <2>1. /\ UNCHANGED <<call, wire, stored, troubles>> /\ emitted' = emitted /\ Quiet
      BY <1>6 DEF BackoffEnds, coreVars, bounds, Quiet
    <2> QED  BY <2>1, Constants DEF Plain, Keeping, Control, Types, CoreTypes
  <1> QED  BY <1>1, <1>2, <1>3, <1>4, <1>5, <1>6

(* An answer that is no success keeps what is in the queue.                *)
LEMMA AnswerKeeps ==
  ASSUME Control, NEW r \in wire, NEW what, Answer(r, what), r.method = "renew" \/ what # "ok"
  PROVE  Keeping /\ call'.items \in {call.items, <<>>} /\ emitted' = emitted
  <1>1. CASE Awaited(r)
    <2>1. Heard(r, what)
      BY <1>1, AnswerHeard DEF Control
    <2>2. Settled /\ (Quiet \/ Complains)
      BY <2>1 DEF Heard
    <2>3. Keeping
      BY <2>2 DEF Complains, Keeping
    <2>4. emitted' = emitted
      BY <1>1 DEF Answer
    <2> QED  BY <2>2, <2>3, <2>4 DEF Settled
  <1>2. CASE ~Awaited(r)
    <2>1. UNCHANGED clientVars
      BY <1>2 DEF Answer
    <2> QED  BY <2>1 DEF clientVars, Keeping, Quiet
  <1> QED  BY <1>1, <1>2

LEMMA AnsweredPlain ==
  ASSUME Control, NEW r \in wire, Renew(r) \/ Reject(r)
  PROVE  Plain
  <1>1. wire' = wire \ {r} /\ stored' = stored /\ troubles' = troubles /\ troubles \in Nat
    BY Constants DEF Renew, Reject, Handled, coreVars, bounds, Control, Types, CoreTypes
  <1>2. PICK what : Answer(r, what) /\ (r.method = "renew" \/ what # "ok")
    <2>1. CASE Renew(r)
      BY <2>1 DEF Renew
    <2>2. CASE Reject(r)
      <3>1. Answer(r, "error") \/ Answer(r, "unauthorized")
        BY <2>2 DEF Reject
      <3> QED  BY <3>1
    <2> QED  BY <2>1, <2>2
  <1>3. Keeping /\ call'.items \in {call.items, <<>>} /\ emitted' = emitted
    BY <1>2, AnswerKeeps
  <1> QED  BY <1>1, <1>3 DEF Plain

LEMMA CorePlain ==
  ASSUME Control, CoreAlone
  PROVE  Plain
  <1>1. Quiet /\ UNCHANGED <<call, wire, stored>> /\ emitted' = emitted
    BY DEF CoreAlone, clientVars, Quiet
  <1>2. troubles <= troubles'
    BY Constants DEF CoreAlone, Control, Types, CoreTypes
  <1> QED  BY <1>1, <1>2 DEF Plain, Keeping

(* A step with a trouble may leave one copy more.                          *)
LEMMA TroubledData ==
  ASSUME Control, Control', Data, Copies, Keeping, emitted' = emitted, troubles' = troubles + 1,
         call'.items \in {call.items, <<>>}, \A r \in wire' : r.items \in Batches, Appends,
         \A id \in 1..emitted :
            /\ Cardinality(Written(id)') \in Nat /\ Cardinality(Stray(id)') \in Nat
            /\ Cardinality(Written(id)') + Cardinality(Stray(id)')
                 <= Cardinality(Written(id)) + Cardinality(Stray(id)) + 1
  PROVE  Data' /\ Copies'
  <1>1. DataStep
    BY OldBatches DEF DataStep
  <1>2. QueueData
    BY <1>1, QueueStepData DEF DataStep, QueueStep, Data
  <1>3. troubles \in Nat /\ troubles' \in Nat /\ troubles' - troubles = 1
    BY Constants DEF Control, Types, CoreTypes
  <1>4. ASSUME NEW id \in 1..emitted
        PROVE  /\ Cardinality(Written(id)') \in Nat /\ Cardinality(Stray(id)') \in Nat
               /\ Cardinality(Written(id)') + Cardinality(Stray(id)') + Flag(Live(id)')
                    <= Cardinality(Written(id)) + Cardinality(Stray(id)) + Flag(Live(id))
                       + (troubles' - troubles)
    <2>1. Flag(Live(id)') <= Flag(Live(id)) /\ Flag(Live(id)') \in {0, 1} /\ Flag(Live(id)) \in {0, 1}
      BY <1>2, LiveShrinks, FlagMonotone
    <2>2. Cardinality(Written(id)) \in Nat /\ Cardinality(Stray(id)) \in Nat
      BY CopiesAreFinite
    <2> QED  BY <1>3, <2>1, <2>2
  <1>5. Copies'
    BY <1>3, <1>4, CopiesByParts
  <1> QED  BY <1>1, <1>5, DataKept

LEMMA AgeData ==
  ASSUME Control, Control', Data, Copies, Age
  PROVE  Data' /\ Copies'
  <1>1. PICK by \in 1..Dead : wire' = {[r EXCEPT !.token = Older(@, by)] : r \in wire}
    BY DEF Age
  <1>2. /\ Quiet /\ UNCHANGED <<call, stored>> /\ emitted' = emitted /\ troubles' = troubles + 1
    BY DEF Age, Trouble, Quiet, coreVars
  <1> DEFINE Aged(r) == [r EXCEPT !.token = Older(@, by)]
  <1>3. \A r \in wire : Aged(r).late = r.late /\ Aged(r).items = r.items /\ Aged(r).method = r.method
    BY DEF Control, Types, WireTypes, Requests
  <1>4. wire' = {Aged(r) : r \in wire}
    BY <1>1
  <1> HIDE DEF Aged
  <1>5. \A r \in wire' : r.items \in Batches
    BY <1>3, <1>4 DEF Batches
  <1>6. ASSUME NEW id \in 1..emitted
        PROVE  /\ Cardinality(Written(id)') \in Nat /\ Cardinality(Stray(id)') \in Nat
               /\ Cardinality(Written(id)') + Cardinality(Stray(id)')
                    <= Cardinality(Written(id)) + Cardinality(Stray(id)) + 1
    <2> DEFINE f == [r \in Stray(id) |-> Aged(r)]
               T == {f[r] : r \in Stray(id)}
    <2>1. Written(id)' = Written(id)
      BY <1>2 DEF Written
    <2>2. Stray(id)' \subseteq T
      <3> SUFFICES ASSUME NEW q \in Stray(id)' PROVE \E r \in Stray(id) : q = Aged(r)
        OBVIOUS
      <3>1. q \in wire' /\ ~Awaited(q) /\ q.method = "append" /\ Has(q.items, id)
        BY DEF Stray
      <3>2. PICK r \in wire : q = Aged(r)
        BY <1>4, <3>1
      <3>3. r \in Stray(id)
        BY <1>3, <3>1, <3>2 DEF Stray, Awaited
      <3> QED  BY <3>2, <3>3
    <2>3. IsFiniteSet(Stray(id)) /\ Cardinality(Stray(id)) \in Nat /\ Cardinality(Written(id)) \in Nat
      BY CopiesAreFinite
    <2>4. f \in [Stray(id) -> {Aged(r) : r \in Stray(id)}]
      OBVIOUS
    <2> HIDE DEF f
    <2>5. IsFiniteSet(T) /\ Cardinality(T) <= Cardinality(Stray(id))
      BY <2>3, <2>4, ImageIsSmaller
    <2> HIDE DEF T
    <2>6. Cardinality(Stray(id)') \in Nat /\ Cardinality(Stray(id)') <= Cardinality(T) /\ Cardinality(T) \in Nat
      BY <2>2, <2>5, FS_Subset, FS_CardinalityType
    <2> QED  BY <2>1, <2>3, <2>5, <2>6
  <1>7. Keeping /\ call'.items \in {call.items, <<>>} /\ Appends
    BY <1>2, NothingAppended DEF Keeping
  <1> QED  BY <1>2, <1>5, <1>6, <1>7, TroubledData

LEMMA GivesUpData ==
  ASSUME Control, Control', Data, Copies, NEW r \in wire, GivesUp(r)
  PROVE  Data' /\ Copies'
  <1>1. /\ Awaited(r) /\ Answer(r, "error") /\ troubles' = troubles + 1 /\ stored' = stored
        /\ wire' = (wire \ {r}) \cup {[r EXCEPT !.late = troubles']}
    BY DEF GivesUp, Awaiting, Trouble, coreVars
  <1>2. Keeping /\ call'.items \in {call.items, <<>>} /\ emitted' = emitted
    BY <1>1, AnswerKeeps
  <1> DEFINE gone == [r EXCEPT !.late = troubles']
  <1>3. gone.items = r.items
    BY DEF Control, Types, WireTypes, Requests
  <1>4. wire' = (wire \ {r}) \cup {gone}
    BY <1>1
  <1> HIDE DEF gone
  <1>5. \A q \in wire' : q.items \in Batches
    BY <1>3, <1>4 DEF Batches
  <1>6. ASSUME NEW id \in 1..emitted
        PROVE  /\ Cardinality(Written(id)') \in Nat /\ Cardinality(Stray(id)') \in Nat
               /\ Cardinality(Written(id)') + Cardinality(Stray(id)')
                    <= Cardinality(Written(id)) + Cardinality(Stray(id)) + 1
    <2> DEFINE S == Stray(id)
    <2>1. Written(id)' = Written(id)
      BY <1>1 DEF Written
    <2>2. Stray(id)' \subseteq S \cup {gone}
      BY <1>4 DEF Stray
    <2>3. IsFiniteSet(S) /\ Cardinality(S) \in Nat /\ Cardinality(Written(id)) \in Nat
      BY CopiesAreFinite
    <2> HIDE DEF S
    <2>4. /\ IsFiniteSet(S \cup {gone})
          /\ Cardinality(S \cup {gone}) = IF gone \in S THEN Cardinality(S) ELSE Cardinality(S) + 1
      BY <2>3, FS_AddElement
    <2>5. /\ Cardinality(Stray(id)') \in Nat /\ Cardinality(Stray(id)') <= Cardinality(S \cup {gone})
      BY <2>2, <2>4, FS_Subset, FS_CardinalityType
    <2>6. Cardinality(Stray(id)') <= Cardinality(S) + 1
      BY <2>3, <2>4, <2>5
    <2> QED  BY <2>1, <2>3, <2>5, <2>6 DEF S
  <1>7. Appends
    BY <1>1, NothingAppended
  <1> QED  BY <1>1, <1>2, <1>5, <1>6, <1>7, TroubledData

LEMMA BreaksData ==
  ASSUME Control, Control', Data, Copies, NEW r \in wire, AppendBreaks(r)
  PROVE  Data' /\ Copies'
  <1>1. /\ Answer(r, "error") /\ wire' = wire \ {r} /\ r.method = "append"
    BY DEF AppendBreaks, Handled
  <1>2. troubles' = troubles + 1
    BY Zenon DEF AppendBreaks, Trouble
  <1>3. Keeping /\ call'.items \in {call.items, <<>>} /\ emitted' = emitted
    BY <1>1, AnswerKeeps
  <1>4. PICK m \in 0..Len(r.items) : Extends(r.items, m)
    BY BreaksControl
  <1>5. r.items \in Batches /\ \A q \in wire' : q.items \in Batches
    BY <1>1 DEF Batches
  <1> HIDE DEF Batches
  <1>6. Appends
    BY <1>4, <1>5 DEF Appends
  <1>7. ASSUME NEW id \in 1..emitted
        PROVE  /\ Cardinality(Written(id)') \in Nat /\ Cardinality(Stray(id)') \in Nat
               /\ Cardinality(Written(id)') + Cardinality(Stray(id)')
                    <= Cardinality(Written(id)) + Cardinality(Stray(id)) + 1
    <2>1. /\ Cardinality(Written(id)') \in Nat
          /\ Cardinality(Written(id)') <= Cardinality(Written(id)) + 1
      BY <1>4, <1>5, WrittenOnceMore
    <2>2. Stray(id)' \subseteq Stray(id)
      BY <1>1 DEF Stray
    <2>3. Cardinality(Stray(id)') \in Nat /\ Cardinality(Stray(id)') <= Cardinality(Stray(id))
      BY <2>2, StrayFewer
    <2> QED  BY <2>1, <2>3, CopiesAreFinite
  <1> QED  BY <1>2, <1>3, <1>5, <1>6, <1>7, TroubledData

LEMMA CrashData ==
  ASSUME Control, Control', Data, Copies, Crash
  PROVE  Data' /\ Copies'
  <1>1. /\ wire' = {} /\ troubles' = troubles + 1
        /\ \/ stored' = stored
           \/ \E r \in wire : r.method = "append" /\ \E m \in 0..Len(r.items) : Extends(r.items, m)
        /\ UNCHANGED clientVars \/ \E r \in Awaiting : Answer(r, "error")
    BY CrashControl
  <1>2. Keeping /\ call'.items \in {call.items, <<>>} /\ emitted' = emitted
    <2>1. CASE UNCHANGED clientVars
      BY <2>1 DEF clientVars, Keeping, Quiet
    <2>2. CASE \E r \in Awaiting : Answer(r, "error")
      <3>1. PICK r \in wire : Answer(r, "error")
        BY <2>2 DEF Awaiting
      <3> QED  BY <3>1, AnswerKeeps
    <2> QED  BY <1>1, <2>1, <2>2
  <1>3. PICK b \in Batches : \E m \in 0..Len(b) : Extends(b, m)
    <2>1. CASE stored' = stored
      BY <2>1, NothingAppended DEF Appends
    <2>2. CASE stored' # stored
      BY <1>1, <2>2 DEF Batches
    <2> QED  BY <2>1, <2>2
  <1>4. PICK m \in 0..Len(b) : Extends(b, m)
    BY <1>3
  <1> HIDE DEF Batches
  <1>5. Appends /\ \A r \in wire' : r.items \in Batches
    BY <1>1, <1>4 DEF Appends
  <1>6. ASSUME NEW id \in 1..emitted
        PROVE  /\ Cardinality(Written(id)') \in Nat /\ Cardinality(Stray(id)') \in Nat
               /\ Cardinality(Written(id)') + Cardinality(Stray(id)')
                    <= Cardinality(Written(id)) + Cardinality(Stray(id)) + 1
    <2>1. /\ Cardinality(Written(id)') \in Nat
          /\ Cardinality(Written(id)') <= Cardinality(Written(id)) + 1
      BY <1>4, WrittenOnceMore
    <2>2. Stray(id)' = {}
      BY <1>1 DEF Stray
    <2>3. Cardinality(Stray(id)') = 0
      BY <2>2, FS_EmptySet
    <2> QED  BY <2>1, <2>3, CopiesAreFinite
  <1> QED  BY <1>1, <1>2, <1>5, <1>6, TroubledData

(* A batch is written: if the client hears of it, its events leave the     *)
(* queue; if not, the request was one of the copies.                       *)
LEMMA AppendData ==
  ASSUME Control, Control', Data, Copies, NEW r \in wire, AppendBatch(r)
  PROVE  Data' /\ Copies'
  <1>1. /\ Answer(r, "ok") /\ wire' = wire \ {r} /\ r.method = "append" /\ troubles' = troubles
    BY DEF AppendBatch, Handled, bounds
  <1>2. Extends(r.items, Len(r.items))
    BY AppendControl
  <1>3. /\ r.items \in Batches /\ r.items \in Seq(Events) /\ Len(r.items) \in 0..Len(r.items)
        /\ \A q \in wire' : q.items \in Batches
    BY <1>1 DEF Batches, Control, Types, WireTypes, Requests
  <1>4. troubles \in Nat
    BY Constants DEF Control, Types, CoreTypes
  <1> HIDE DEF Batches
  <1>5. Appends
    BY <1>2, <1>3 DEF Appends
  <1>6. \A id \in 1..emitted :
           /\ Cardinality(Written(id)') \in Nat
           /\ Cardinality(Written(id)') <= Cardinality(Written(id)) + 1
           /\ ~Has(r.items, id) => Written(id)' = Written(id)
    BY <1>2, <1>3, WrittenOnceMore
  <1>7. CASE Awaited(r)
    <2>1. Heard(r, "ok")
      BY <1>1, <1>7, AnswerHeard DEF Control
    <2>2. Takes /\ call'.items = <<>> /\ r.items = call.items /\ emitted' = emitted
      BY <1>1, <1>7, <2>1 DEF Heard, Takes, Control, OneAwaited
    <2>3. DataStep
      BY <1>2, <1>3, <1>5, <2>2, OldBatches DEF DataStep, Delivered
    <2>4. QueueData
      BY <2>3, QueueStepData DEF DataStep, QueueStep, Data
    <2>5. ASSUME NEW id \in 1..emitted
          PROVE  /\ Cardinality(Written(id)') \in Nat /\ Cardinality(Stray(id)') \in Nat
                 /\ Cardinality(Written(id)') + Cardinality(Stray(id)') + Flag(Live(id)')
                      <= Cardinality(Written(id)) + Cardinality(Stray(id)) + Flag(Live(id))
                         + (troubles' - troubles)
      <3>1. Stray(id)' \subseteq Stray(id)
        BY <1>1 DEF Stray
      <3>2. Cardinality(Stray(id)') \in Nat /\ Cardinality(Stray(id)') <= Cardinality(Stray(id))
        BY <3>1, StrayFewer
      <3>3. Cardinality(Written(id)) \in Nat /\ Cardinality(Stray(id)) \in Nat
        BY CopiesAreFinite
      <3>4. Live(id)' => Live(id)
        BY <2>2, <2>4, LiveShrinks
      <3>5. CASE Has(call.items, id)
        <4>1. Live(id)
          BY <3>5 DEF Live
        <4>2. ~Has(queue', id)
          BY <2>2, <3>5, TakesData DEF Data
        <4>3. queue' \in Seq(Events) /\ ~Has(<<>>, id)
          BY DEF Control, Types, ClientTypes, Has
        <4>4. ~Live(id)'
          BY <2>2, <4>2, <4>3 DEF Live, Queued, Has
        <4>5. Flag(Live(id)) = 1 /\ Flag(Live(id)') = 0
          BY <4>1, <4>4 DEF Flag
        <4> QED  BY <1>1, <1>4, <1>6, <3>2, <3>3, <4>5
      <3>6. CASE ~Has(call.items, id)
        <4>1. Written(id)' = Written(id)
          BY <1>6, <2>2, <3>6
        <4>2. Flag(Live(id)') <= Flag(Live(id)) /\ Flag(Live(id)') \in {0, 1} /\ Flag(Live(id)) \in {0, 1}
          BY <3>4, FlagMonotone
        <4> QED  BY <1>1, <1>4, <3>2, <3>3, <4>1, <4>2
      <3> QED  BY <3>5, <3>6
    <2>6. Copies'
      BY <1>1, <1>4, <2>2, <2>5, CopiesByParts
    <2> QED  BY <2>3, <2>6, DataKept
  <1>8. CASE ~Awaited(r)
    <2>1. UNCHANGED clientVars
      BY <1>1, <1>8 DEF Answer
    <2>2. Keeping /\ call'.items \in {call.items, <<>>} /\ emitted' = emitted
      BY <2>1 DEF clientVars, Keeping, Quiet
    <2>3. DataStep
      BY <1>3, <1>5, <2>2, OldBatches DEF DataStep
    <2>4. ASSUME NEW id \in 1..emitted
          PROVE  /\ Cardinality(Written(id)') \in Nat /\ Cardinality(Stray(id)') \in Nat
                 /\ Cardinality(Written(id)') + Cardinality(Stray(id)') + Flag(Live(id)')
                      <= Cardinality(Written(id)) + Cardinality(Stray(id)) + Flag(Live(id))
                         + (troubles' - troubles)
      <3>1. Live(id)' <=> Live(id)
        BY <2>1 DEF clientVars, Live, Queued, Has
      <3>2. Flag(Live(id)') = Flag(Live(id)) /\ Flag(Live(id)) \in {0, 1}
        BY <3>1 DEF Flag
      <3>3. /\ IsFiniteSet(Stray(id)) /\ Cardinality(Stray(id)) \in Nat /\ Cardinality(Written(id)) \in Nat
        BY CopiesAreFinite
      <3>4. CASE Has(r.items, id)
        <4>1. r \in Stray(id) /\ Stray(id)' = Stray(id) \ {r}
          BY <1>1, <1>8, <3>4 DEF Stray
        <4>2. Cardinality(Stray(id)') = Cardinality(Stray(id)) - 1
          BY <3>3, <4>1, FS_RemoveElement
        <4>3. Cardinality(Stray(id)') \in Nat
          BY <3>3, <4>1, FS_RemoveElement, FS_CardinalityType
        <4> QED  BY <1>1, <1>4, <1>6, <3>2, <3>3, <4>2, <4>3
      <3>5. CASE ~Has(r.items, id)
        <4>1. Written(id)' = Written(id)
          BY <1>6, <3>5
        <4>2. Stray(id)' \subseteq Stray(id)
          BY <1>1 DEF Stray
        <4>3. Cardinality(Stray(id)') \in Nat /\ Cardinality(Stray(id)') <= Cardinality(Stray(id))
          BY <4>2, StrayFewer
        <4> QED  BY <1>1, <1>4, <3>2, <3>3, <4>1, <4>3
      <3> QED  BY <3>4, <3>5
    <2>5. Copies'
      BY <1>1, <1>4, <2>2, <2>4, CopiesByParts
    <2> QED  BY <2>3, <2>5, DataKept
  <1> QED  BY <1>7, <1>8

LEMMA DataInit ==
  ASSUME Init
  PROVE  Data /\ Copies
  <1>1. /\ queue = <<>> /\ stored = <<>> /\ call = [at |-> "idle", items |-> <<>>] /\ wire = {}
        /\ emitted = 0
    BY DEF Init
  <1>2. Data
    <2>1. Batches = {<<>>}
      BY <1>1 DEF Batches
    <2>2. Around = {}
      BY <1>1, <2>1 DEF Around, ToSet
    <2>3. Covers(<<>>) /\ InOrder(<<>>)
      BY DEF Covers, InOrder
    <2>4. 1..emitted = {} /\ InOrder(queue) /\ Len(stored) = 0
      BY <1>1, <2>3
    <2> QED  BY <2>1, <2>2, <2>3, <2>4 DEF Data, KnownIds, Accounted, BatchesCover, StoredCovers
  <1>3. Copies
    <2>1. 1..emitted = {}
      BY <1>1
    <2> QED  BY <2>1 DEF Copies
  <1> QED  BY <1>2, <1>3

LEMMA DataSame ==
  ASSUME Control, Data, Copies, UNCHANGED vars
  PROVE  Data' /\ Copies'
  <1>1. Plain /\ Control'
    BY ControlSame, Constants
    DEF Plain, Keeping, Quiet, vars, clientVars, coreVars, bounds, Control, Types, CoreTypes
  <1> QED  BY <1>1, PlainData

LEMMA DataNext ==
  ASSUME Control, Control', Data, Copies, Next
  PROVE  Data' /\ Copies'
  <1>1. CASE \E source \in Sources, form \in Forms : Emit(source, form)
    BY <1>1, EmitData
  <1>2. CASE TimerFires
    BY <1>2, TimerData
  <1>3. CASE Ensure \/ ForceRenewal \/ RenewalRefused \/ Send \/ OtherRenewal \/ BackoffEnds
    BY <1>3, ClientPlain, PlainData
  <1>4. CASE Age
    BY <1>4, AgeData
  <1>5. CASE \E r \in wire : Renew(r) \/ Reject(r)
    BY <1>5, AnsweredPlain, PlainData
  <1>6. CASE \E r \in wire : AppendBatch(r) \/ AppendBreaks(r) \/ GivesUp(r)
    BY <1>6, AppendData, BreaksData, GivesUpData
  <1>7. CASE Crash
    BY <1>7, CrashData
  <1>8. CASE Restart \/ WindowPasses \/ PlanChanges
    BY <1>8, RestartControl, CorePlain, PlainData
  <1> QED  BY <1>1, <1>2, <1>3, <1>4, <1>5, <1>6, <1>7, <1>8 DEF Next
-------------------------------------------------------------------------------
LEMMA DeliveryInv ==
  Spec => [](Control /\ Data /\ Copies)
  <1>1. Init => Control /\ Data /\ Copies
    BY ControlInit, DataInit
  <1>2. Control /\ Data /\ Copies /\ [Next]_vars => (Control /\ Data /\ Copies)'
    <2> SUFFICES ASSUME Control, Data, Copies, [Next]_vars
                 PROVE  Control' /\ Data' /\ Copies'
      OBVIOUS
    <2>1. CASE Next
      BY <2>1, ControlNext, DataNext
    <2>2. CASE UNCHANGED vars
      BY <2>2, ControlSame, DataSame
    <2> QED  BY <2>1, <2>2
  <1> QED  BY <1>1, <1>2, PTL DEF Spec

(* Events reach Core's log or are counted as dropped, in the order of      *)
(* their streams, and are written twice only after a trouble.              *)
THEOREM InOrderAndOnce ==
  Spec => []DeliveredInOrder
  <1>1. Control /\ Data /\ Copies => DeliveredInOrder
    <2> SUFFICES ASSUME Control, Data, Copies PROVE DeliveredInOrder
      OBVIOUS
    <2>1. \A id \in 1..emitted : Queued(id) \/ id \in lost \/ Written(id) # {}
      BY DEF Data, Accounted
    <2>2. \A i, k \in DOMAIN stored :
            i < k /\ Overtaken(stored[i], stored[k]) =>
               \/ stored[k].id \in lost
               \/ \E first \in Written(stored[k].id) : first < i
      <3>1. DOMAIN stored = 1..Len(stored)
        BY DEF Control, Types, CoreTypes
      <3>2. \A k \in 1..Len(stored) : stored[k] \in Around
        BY AroundIsEvents
      <3> QED  BY <3>1, <3>2 DEF Data, StoredCovers
    <2>3. \A id \in 1..emitted : Cardinality(Written(id)) <= 1 + troubles
      <3> SUFFICES ASSUME NEW id \in 1..emitted PROVE Cardinality(Written(id)) <= 1 + troubles
        OBVIOUS
      <3>1. /\ Cardinality(Written(id)) \in Nat /\ Cardinality(Stray(id)) \in Nat /\ troubles \in Nat
            /\ Flag(Live(id)) \in {0, 1}
        BY CopiesAreFinite, Constants DEF Flag, Control, Types, CoreTypes
      <3>2. Cardinality(Written(id)) + Cardinality(Stray(id)) + Flag(Live(id)) <= 1 + troubles
        BY DEF Copies
      <3> QED  BY <3>1, <3>2
    <2> QED  BY <2>1, <2>2, <2>3 DEF DeliveredInOrder
  <1> QED  BY <1>1, DeliveryInv, PTL
-------------------------------------------------------------------------------
(* The log: its files, and their lines from the oldest to the newest.      *)
Lines == Seq(LineType)
Files == [Numbers -> Lines]
Fitting(files) == files \in Files /\ \A i \in Numbers : Len(files[i]) <= FileSize

LEMMA LogConstants ==
    /\ FileSize \in Nat /\ FileSize # 0 /\ Archives \in Nat /\ Archives # 0
    /\ 0 \in Numbers /\ Archives \in Numbers
    /\ Partial \in LineType /\ Glued \in LineType /\ Partial # Glued
    /\ \A line \in LineType : IsRecord(line) <=> line \in [seq : Nat, event : Events]
  BY LogStoreAssumption, LineAssumption DEF Numbers, LineType, IsRecord

(* Rotation keeps the sizes; when it is complete the active file is empty. *)
LEMMA ShiftedFits ==
  ASSUME NEW files, Fitting(files), NEW steps \in 0..Archives + 1
  PROVE  /\ Fitting(Shifted(files, steps))
         /\ steps = Archives + 1 => Shifted(files, steps)[0] = <<>>
  <1>1. <<>> \in Lines /\ Len(<<>>) = 0 /\ Archives \in Nat /\ FileSize \in Nat
    BY LogConstants, EmptySeq DEF Lines
  <1> DEFINE empty == Archives + 1 - steps
             new == [i \in Numbers |-> CASE i = empty -> <<>>
                                         [] i > empty -> files[i - 1]
                                         [] OTHER -> files[i]]
  <1>2. Shifted(files, steps) = new
    BY DEF Shifted
  <1>3. empty \in Nat /\ (steps = Archives + 1 => empty = 0)
    BY <1>1
  <1>4. ASSUME NEW i \in Numbers
        PROVE  new[i] \in Lines /\ Len(new[i]) <= FileSize
    <2>1. i > empty => i - 1 \in Numbers
      BY <1>1, <1>3 DEF Numbers
    <2>2. new[i] = CASE i = empty -> <<>> [] i > empty -> files[i - 1] [] OTHER -> files[i]
      OBVIOUS
    <2>3. CASE i = empty
      BY <1>1, <2>2, <2>3
    <2>4. CASE i > empty
      <3>1. new[i] = files[i - 1]
        BY <1>3, <2>2, <2>4 DEF Numbers
      <3> QED  BY <2>1, <2>4, <3>1 DEF Fitting, Files
    <2>5. CASE ~(i = empty) /\ ~(i > empty)
      <3>1. new[i] = files[i]
        BY <2>2, <2>5
      <3> QED  BY <3>1 DEF Fitting, Files
    <2> QED  BY <2>3, <2>4, <2>5
  <1>5. new \in Files
    BY <1>4 DEF Files
  <1>6. steps = Archives + 1 => new[0] = <<>>
    BY <1>3, LogConstants
  <1> HIDE DEF new
  <1> QED  BY <1>2, <1>4, <1>5, <1>6 DEF Fitting

LEMMA RoomFits ==
  ASSUME NEW files, Fitting(files)
  PROVE  Fitting(Room(files)) /\ Len(Room(files)[0]) < FileSize
  <1>1. Archives + 1 \in 0..Archives + 1 /\ FileSize > 0 /\ 0 \in Numbers
    BY LogConstants
  <1>2. CASE MustRotate(files)
    <2>1. Room(files) = Shifted(files, Archives + 1) /\ Len(<<>>) = 0
      BY <1>2 DEF Room
    <2> QED  BY <1>1, <2>1, ShiftedFits
  <1>3. CASE ~MustRotate(files)
    <2>1. Room(files) = files /\ files[0] \in Lines
      BY <1>1, <1>3 DEF Room, Fitting, Files
    <2>2. Len(files[0]) \in Nat
      BY <2>1 DEF Lines
    <2> QED  BY <1>3, <2>1, <2>2, LogConstants DEF MustRotate
  <1> QED  BY <1>2, <1>3

(* A line at the end of a file.                                            *)
LEMMA WithLineFits ==
  ASSUME NEW lines \in Lines, NEW line \in LineType
  PROVE  /\ WithLine(lines, line) \in Lines /\ Len(WithLine(lines, line)) <= Len(lines) + 1
         /\ Sound(lines) => WithLine(lines, line) = Append(lines, line)
  <1>1. Len(lines) \in Nat /\ (lines = <<>> \/ Len(lines) \in 1..Len(lines))
    BY DEF Lines
  <1>2. CASE lines # <<>> /\ Last(lines) = Partial
    <2> DEFINE new == IF line = Partial THEN Partial ELSE Glued
               end == [lines EXCEPT ![Len(lines)] = new]
    <2>1. WithLine(lines, line) = end
      BY <1>2 DEF WithLine
    <2>2. new \in LineType /\ Len(lines) \in 1..Len(lines) /\ Len(lines) \in Nat
      BY <1>1, <1>2, LogConstants DEF Lines
    <2> HIDE DEF new
    <2>3. end \in Lines /\ Len(end) = Len(lines)
      BY <2>2, ExceptSeq DEF Lines
    <2>4. ~Sound(lines)
      BY <1>2, <2>2 DEF Sound, IsRecord, Last, Lines
    <2> HIDE DEF end
    <2> QED  BY <2>1, <2>2, <2>3, <2>4
  <1>3. CASE ~(lines # <<>> /\ Last(lines) = Partial)
    <2>1. WithLine(lines, line) = Append(lines, line)
      BY <1>3 DEF WithLine
    <2>2. Append(lines, line) \in Lines /\ Len(Append(lines, line)) = Len(lines) + 1
      BY AppendProperties DEF Lines
    <2> QED  BY <2>1, <2>2 DEF Lines
  <1> QED  BY <1>2, <1>3

LEMMA WritesType ==
  ASSUME NEW l, LogType(l), Len(l.files[0]) < FileSize, NEW line \in LineType
  PROVE  LogType(Writes(l, line)) /\ Writes(l, line).next = l.next
  <1>1. /\ 0 \in Numbers /\ FileSize \in Nat
        /\ l \in [files : Files, next : Nat] /\ Fitting(l.files)
    BY LogConstants DEF LogType, Files, Fitting, Lines
  <1>2. l.files[0] \in Lines
    BY <1>1 DEF Files
  <1> DEFINE new == WithLine(l.files[0], line)
             files == [l.files EXCEPT ![0] = new]
  <1>3. new \in Lines /\ Len(new) <= Len(l.files[0]) + 1
    BY <1>2, WithLineFits
  <1>4. Len(new) \in Nat /\ Len(l.files[0]) \in Nat
    BY <1>2, <1>3 DEF Lines
  <1>5. Len(new) <= FileSize
    BY <1>1, <1>3, <1>4
  <1>6. Writes(l, line) = [l EXCEPT !.files = files]
    BY DEF Writes
  <1> HIDE DEF new
  <1>7. files \in Files /\ \A i \in Numbers : Len(files[i]) <= FileSize
    BY <1>1, <1>3, <1>5 DEF Files, Fitting
  <1> HIDE DEF files
  <1> QED  BY <1>1, <1>6, <1>7 DEF LogType, Files, Lines

(* Appending, which may fail.                                              *)
Record(l, e) == [seq |-> l.next, event |-> e]
Roomy(l) == [l EXCEPT !.files = Room(@)]

LEMMA RecordType ==
  ASSUME NEW l, LogType(l), NEW e \in Events
  PROVE  Record(l, e) \in LineType /\ IsRecord(Record(l, e)) /\ Record(l, e).event = e
  <1>1. l.next \in Nat
    BY DEF LogType
  <1>2. Record(l, e) \in [seq : Nat, event : Events]
    BY <1>1 DEF Record
  <1> QED  BY <1>2, LogConstants DEF LineType, Record

LEMMA RoomyType ==
  ASSUME NEW l, LogType(l)
  PROVE  /\ LogType(Roomy(l)) /\ Len(Roomy(l).files[0]) < FileSize
         /\ Roomy(l).files = Room(l.files) /\ Roomy(l).next = l.next
  <1>1. l \in [files : Files, next : Nat] /\ Fitting(l.files)
    BY DEF LogType, Files, Fitting, Lines
  <1>2. Roomy(l) = [l EXCEPT !.files = Room(l.files)]
    BY DEF Roomy
  <1>3. Fitting(Room(l.files)) /\ Len(Room(l.files)[0]) < FileSize
    BY <1>1, RoomFits
  <1> QED  BY <1>1, <1>2, <1>3 DEF LogType, Files, Fitting, Lines

LEMMA AppendedType ==
  ASSUME NEW l, LogType(l), NEW e \in Events
  PROVE  /\ LogType(Appended(l, e)) /\ Appended(l, e).next = l.next + 1
         /\ Appended(l, e).files = Writes(Roomy(l), Record(l, e)).files
  <1> DEFINE w == Writes(Roomy(l), Record(l, e))
  <1>1. Appended(l, e) = [w EXCEPT !.next = w.next + 1]
    BY DEF Appended, Roomy, Record
  <1>2. LogType(w) /\ w.next = l.next
    BY RoomyType, RecordType, WritesType
  <1> HIDE DEF w
  <1>3. w.next + 1 \in Nat
    BY <1>2 DEF LogType
  <1> QED  BY <1>1, <1>2, <1>3 DEF LogType, w

LEMMA AppendedAllDefined ==
  ASSUME NEW l, NEW events, Len(events) \in Nat
  PROVE  \E f : /\ f[0] = l
                /\ \A n \in Nat : n + 1 <= Len(events) => f[n + 1] = Appended(f[n], events[n + 1])
                /\ AppendedAll(l, events) = f[Len(events)]
  <1> DEFINE At1(f, n) == IF n = 0 THEN l ELSE Appended(f[n - 1], events[n])
             Defined == {n \in Nat : \E f : f = [i \in 0..n |-> At1(f, i)]}
  <1>1. 0 \in Defined
    <2>1. [i \in 0..0 |-> l] = [i \in 0..0 |-> At1([k \in 0..0 |-> l], i)]
      OBVIOUS
    <2> QED  BY <2>1
  <1>2. ASSUME NEW n \in Nat, n \in Defined
        PROVE  n + 1 \in Defined
    <2>1. PICK f : f = [i \in 0..n |-> At1(f, i)]
      BY <1>2
    <2> DEFINE g == [i \in 0..n + 1 |-> IF i = n + 1 THEN At1(f, i) ELSE f[i]]
    <2>2. \A i \in 0..n + 1 : g[i] = At1(g, i)
      <3> SUFFICES ASSUME NEW i \in 0..n + 1 PROVE g[i] = At1(g, i)
        OBVIOUS
      <3>1. i # 0 => g[i - 1] = f[i - 1]
        OBVIOUS
      <3>2. g[i] = At1(f, i)
        BY <2>1
      <3> QED  BY <3>1, <3>2
    <2>3. g = [i \in 0..n + 1 |-> At1(g, i)]
      BY <2>2
    <2> HIDE DEF g
    <2>4. \E h : h = [i \in 0..n + 1 |-> At1(h, i)]
      BY <2>3
    <2> QED  BY <2>4
  <1> HIDE DEF Defined
  <1>3. Len(events) \in Defined
    BY <1>1, <1>2, NatSetInduction
  <1>4. PICK f : f = [i \in 0..Len(events) |-> At1(f, i)]
    BY <1>3 DEF Defined
  <1> DEFINE after == CHOOSE g : g = [i \in 0..Len(events) |-> At1(g, i)]
  <1>5. after = [i \in 0..Len(events) |-> At1(after, i)]
    BY <1>4
  <1>6. AppendedAll(l, events) = after[Len(events)]
    BY DEF AppendedAll
  <1> HIDE DEF after
  <1>7. after[0] = l
    BY <1>5
  <1>8. ASSUME NEW n \in Nat, n + 1 <= Len(events)
        PROVE  after[n + 1] = Appended(after[n], events[n + 1])
    <2>1. n + 1 \in 0..Len(events) /\ n + 1 # 0 /\ (n + 1) - 1 = n
      BY <1>8
    <2>2. after[n + 1] = At1(after, n + 1)
      BY <1>5, <2>1
    <2> QED  BY <2>1, <2>2
  <1> QED  BY <1>6, <1>7, <1>8

LEMMA AppendedAllType ==
  ASSUME NEW l, LogType(l), NEW events \in Seq(Events)
  PROVE  LogType(AppendedAll(l, events))
  <1>0. Len(events) \in Nat
    OBVIOUS
  <1>1. PICK f :
          /\ f[0] = l
          /\ \A n \in Nat : n + 1 <= Len(events) => f[n + 1] = Appended(f[n], events[n + 1])
          /\ AppendedAll(l, events) = f[Len(events)]
    BY <1>0, AppendedAllDefined
  <1> DEFINE Typed == {n \in Nat : n <= Len(events) => LogType(f[n])}
  <1>2. 0 \in Typed
    BY <1>1
  <1>3. ASSUME NEW n \in Nat, n \in Typed
        PROVE  n + 1 \in Typed
    <2> SUFFICES ASSUME n + 1 <= Len(events) PROVE LogType(f[n + 1])
      OBVIOUS
    <2>1. LogType(f[n]) /\ events[n + 1] \in Events /\ f[n + 1] = Appended(f[n], events[n + 1])
      BY <1>0, <1>1, <1>3
    <2> QED  BY <2>1, AppendedType
  <1> HIDE DEF Typed
  <1>4. Len(events) \in Typed
    BY <1>0, <1>2, <1>3, NatSetInduction
  <1> QED  BY <1>0, <1>1, <1>4 DEF Typed

LEMMA AppendFailedType ==
  ASSUME NEW l, LogType(l), NEW e \in Events, NEW failure \in Failures,
         NEW steps \in 0..Archives + 1
  PROVE  LogType(AppendFailed(l, e, failure, steps))
  <1>1. CASE failure = "rotation"
    <2>1. l \in [files : Files, next : Nat] /\ Fitting(l.files)
      BY DEF LogType, Files, Fitting, Lines
    <2>2. AppendFailed(l, e, failure, steps) = [l EXCEPT !.files = Shifted(l.files, steps)]
      BY <1>1 DEF AppendFailed
    <2>3. Fitting(Shifted(l.files, steps))
      BY <2>1, ShiftedFits
    <2> QED  BY <2>1, <2>2, <2>3 DEF LogType, Files, Fitting, Lines
  <1>2. CASE failure = "partial"
    <2>1. AppendFailed(l, e, failure, steps) = Writes(Roomy(l), Partial)
      BY <1>2 DEF AppendFailed, Roomy
    <2> QED  BY <2>1, RoomyType, WritesType, LogConstants
  <1>3. CASE failure = "unsynced"
    <2>1. AppendFailed(l, e, failure, steps) = Writes(Roomy(l), Record(l, e))
      BY <1>3 DEF AppendFailed, Roomy, Record
    <2> QED  BY <2>1, RoomyType, WritesType, RecordType
  <1> QED  BY <1>1, <1>2, <1>3 DEF Failures

(* The greatest of some numbers.                                           *)
LEMMA Greatest ==
  ASSUME NEW S \in SUBSET Nat, S # {}, NEW b \in Nat, \A x \in S : x <= b
  PROVE  Max(S) \in S /\ \A x \in S : x <= Max(S)
  <1> DEFINE U == {m \in Nat : \A x \in S : x <= m}
  <1>1. PICK n \in U : \A m \in U : n <= m
    <2>1. b \in U /\ U \in SUBSET Nat
      OBVIOUS
    <2> QED  BY <2>1, LeastNatural
  <1>2. n \in S
    <2> SUFFICES ASSUME n \notin S PROVE FALSE
      OBVIOUS
    <2>1. \A x \in S : x < n
      BY <1>1
    <2>2. n # 0 /\ n - 1 \in Nat
      <3>1. PICK x \in S : x < n
        BY <2>1
      <3>2. x \in Nat /\ n \in Nat
        OBVIOUS
      <3> QED  BY <3>1, <3>2
    <2>3. n - 1 \in U
      BY <1>1, <2>1, <2>2
    <2> QED  BY <1>1, <2>3
  <1>3. n \in S /\ \A y \in S : n >= y
    BY <1>1, <1>2
  <1> HIDE DEF U
  <1>4. Max(S) \in S /\ \A y \in S : Max(S) >= y
    BY <1>3 DEF Max
  <1> QED  BY <1>4

LEMMA Bounded ==
  ASSUME NEW n \in Nat, NEW f, \A i \in 1..n : f[i] \in Nat
  PROVE  \E b \in Nat : \A i \in 1..n : f[i] <= b
  <1> DEFINE G == {k \in Nat : k <= n => \E b \in Nat : \A i \in 1..k : f[i] <= b}
  <1>1. 0 \in G
    OBVIOUS
  <1>2. ASSUME NEW k \in Nat, k \in G
        PROVE  k + 1 \in G
    <2> SUFFICES ASSUME k + 1 <= n PROVE \E b \in Nat : \A i \in 1..k + 1 : f[i] <= b
      OBVIOUS
    <2>1. PICK b \in Nat : \A i \in 1..k : f[i] <= b
      BY <1>2
    <2>2. f[k + 1] \in Nat
      OBVIOUS
    <2>3. \A i \in 1..k + 1 : i = k + 1 \/ i \in 1..k
      OBVIOUS
    <2>4. CASE f[k + 1] <= b
      BY <2>1, <2>3, <2>4
    <2>5. CASE ~(f[k + 1] <= b)
      <3>1. \A i \in 1..k + 1 : f[i] <= f[k + 1]
        BY <2>1, <2>2, <2>3, <2>5
      <3> QED  BY <2>2, <3>1
    <2> QED  BY <2>4, <2>5
  <1> HIDE DEF G
  <1>3. n \in G
    BY <1>1, <1>2, NatSetInduction
  <1> QED  BY <1>3 DEF G

(* The first n lines of a file.                                            *)
LEMMA FirstLines ==
  ASSUME NEW T, NEW lines \in Seq(T), NEW n \in 0..Len(lines)
  PROVE  /\ SubSeq(lines, 1, n) \in Seq(T) /\ Len(SubSeq(lines, 1, n)) = n
         /\ \A j \in 1..n : SubSeq(lines, 1, n)[j] = lines[j]
  <1>0. Len(lines) \in Nat
    OBVIOUS
  <1>1. \A j \in 1..n : lines[j] \in T
    BY <1>0
  <1>2. /\ Len(SubSeq(lines, 1, n)) = IF 1 <= n THEN n - 1 + 1 ELSE 0
        /\ \A j \in 1..n - 1 + 1 : SubSeq(lines, 1, n)[j] = lines[1 + j - 1]
        /\ SubSeq(lines, 1, n) \in Seq(T)
    BY <1>1, SubSeqProperties
  <1>3. n - 1 + 1 = n /\ \A j \in 1..n : 1 + j - 1 = j
    OBVIOUS
  <1> QED  BY <1>2, <1>3

SoundTo(lines, n) == \A j \in 1..n : IsRecord(lines[j])

LEMMA SoundLines ==
  ASSUME NEW lines \in Lines
  PROVE  /\ Sound(lines) <=> SoundTo(lines, Len(lines))
         /\ \A n \in 0..Len(lines) : Sound(SubSeq(lines, 1, n)) <=> SoundTo(lines, n)
  <1>1. \A s \in Lines : DOMAIN s = 1..Len(s)
    BY DEF Lines
  <1>2. Sound(lines) <=> SoundTo(lines, Len(lines))
    BY <1>1 DEF Sound, SoundTo
  <1>3. ASSUME NEW n \in 0..Len(lines)
        PROVE  Sound(SubSeq(lines, 1, n)) <=> SoundTo(lines, n)
    <2> DEFINE s == SubSeq(lines, 1, n)
    <2>1. s \in Lines /\ Len(s) = n /\ \A j \in 1..n : s[j] = lines[j]
      BY FirstLines DEF Lines
    <2> HIDE DEF s
    <2>2. Sound(s) <=> SoundTo(lines, n)
      BY <1>1, <2>1 DEF Sound, SoundTo
    <2> QED  BY <2>2 DEF s
  <1> QED  BY <1>2, <1>3

(* What is left of a file by recovery: all of it, if it is sound, and all   *)
(* but the last line if the other ones are.                                *)
LEMMA PrefixIs ==
  ASSUME NEW lines \in Lines
  PROVE  /\ SoundPrefix(lines) \in Lines /\ Len(SoundPrefix(lines)) <= Len(lines)
         /\ Sound(SoundPrefix(lines))
         /\ Sound(lines) => SoundPrefix(lines) = lines
         /\ \A good \in Lines : Sound(good) /\ lines = Append(good, Partial) => SoundPrefix(lines) = good
  <1> DEFINE S == {n \in 0..Len(lines) : Sound(SubSeq(lines, 1, n))}
             m == Max(S)
  <1>0. Len(lines) \in Nat
    BY DEF Lines
  <1>1. SoundPrefix(lines) = SubSeq(lines, 1, m)
    BY DEF SoundPrefix
  <1>2. S \in SUBSET Nat /\ (\A n \in S : n <= Len(lines)) /\ 0 \in S
    <2>1. 0 \in 0..Len(lines) /\ SoundTo(lines, 0)
      BY <1>0 DEF SoundTo
    <2> QED  BY <1>0, <2>1, SoundLines
  <1>3. S # {}
    BY <1>2
  <1>4. \A n : n \in S <=> n \in 0..Len(lines) /\ SoundTo(lines, n)
    BY SoundLines
  <1> HIDE DEF S
  <1>5. m \in S /\ \A n \in S : n <= m
    BY <1>0, <1>2, <1>3, Greatest
  <1> HIDE DEF m
  <1>6. m \in 0..Len(lines) /\ SoundTo(lines, m)
    BY <1>4, <1>5
  <1> DEFINE p == SubSeq(lines, 1, m)
  <1>7. p \in Lines /\ Len(p) = m /\ \A j \in 1..m : p[j] = lines[j]
    BY <1>6, FirstLines DEF Lines
  <1>8. Sound(p)
    BY <1>6, SoundLines
  <1>9. ASSUME Sound(lines) PROVE p = lines
    <2>1. Len(lines) \in S
      BY <1>0, <1>4, <1>9, SoundLines
    <2>2. m = Len(lines)
      BY <1>0, <1>5, <1>6, <2>1
    <2> QED  BY <2>2, SubSeqFull DEF Lines
  <1>10. ASSUME NEW good \in Lines, Sound(good), lines = Append(good, Partial)
         PROVE  p = good
    <2>0. Len(good) \in Nat
      BY DEF Lines
    <2>1. /\ Len(lines) = Len(good) + 1 /\ lines[Len(good) + 1] = Partial
          /\ \A j \in 1..Len(good) : lines[j] = good[j]
      BY <1>10, LogConstants, AppendProperties DEF Lines
    <2>2. SoundTo(lines, Len(good)) /\ Len(good) \in 0..Len(lines)
      BY <1>10, <2>0, <2>1, SoundLines DEF SoundTo
    <2>3. Len(good) <= m
      BY <1>4, <1>5, <2>2
    <2>4. m # Len(good) + 1
      <3>1. ~IsRecord(lines[Len(good) + 1])
        BY <2>1 DEF IsRecord
      <3>2. ~SoundTo(lines, Len(good) + 1)
        BY <2>0, <3>1 DEF SoundTo
      <3> QED  BY <1>6, <3>2
    <2>5. m = Len(good)
      BY <1>6, <2>0, <2>1, <2>3, <2>4
    <2> HIDE DEF p
    <2> QED  BY <1>7, <2>0, <2>1, <2>5, SeqEqual DEF Lines
  <1> HIDE DEF p
  <1>11. Len(p) <= Len(lines)
    BY <1>0, <1>6, <1>7
  <1> QED  BY <1>1, <1>7, <1>8, <1>9, <1>10, <1>11 DEF p

(* The next sequence is above those of all files.                          *)
SeqsIn(files) == UNION {SeqsOf(files[i]) : i \in {n \in Numbers : Sound(files[n])}}

LEMMA AfterAll ==
  ASSUME NEW files \in Files
  PROVE  /\ After(SeqsIn(files)) \in Nat
         /\ \A i \in Numbers : Sound(files[i]) =>
               \A k \in 1..Len(files[i]) : files[i][k].seq \in Nat /\ files[i][k].seq < After(SeqsIn(files))
  <1> DEFINE S == SeqsIn(files)
  <1>1. ASSUME NEW i \in Numbers
        PROVE  /\ DOMAIN files[i] = 1..Len(files[i]) /\ Len(files[i]) \in Nat
               /\ Sound(files[i]) => \A k \in 1..Len(files[i]) : files[i][k].seq \in Nat
    <2>1. files[i] \in Lines
      BY DEF Files
    <2>2. DOMAIN files[i] = 1..Len(files[i]) /\ Len(files[i]) \in Nat
      BY <2>1 DEF Lines
    <2>3. ASSUME Sound(files[i]), NEW k \in 1..Len(files[i])
          PROVE  files[i][k].seq \in Nat
      <3>1. files[i][k] \in LineType
        BY <2>1 DEF Lines
      <3>2. IsRecord(files[i][k])
        BY <2>2, <2>3 DEF Sound
      <3>3. files[i][k] \in [seq : Nat, event : Events]
        BY <3>1, <3>2, LogConstants
      <3> QED  BY <3>3
    <2> QED  BY <2>2, <2>3
  <1>2. S \in SUBSET Nat
    BY <1>1 DEF SeqsIn, SeqsOf
  <1>3. ASSUME NEW i \in Numbers, Sound(files[i])
        PROVE  \A k \in 1..Len(files[i]) : files[i][k].seq \in S
    BY <1>1, <1>3 DEF SeqsIn, SeqsOf
  <1>4. \E b \in Nat : \A x \in S : x <= b
    <2> DEFINE Bound(i, b) == Sound(files[i]) => \A k \in 1..Len(files[i]) : files[i][k].seq <= b
               g == [j \in 1..Archives + 1 |-> CHOOSE b \in Nat : Bound(j - 1, b)]
    <2>1. ASSUME NEW i \in Numbers
          PROVE  \E b \in Nat : Bound(i, b)
      <3>1. CASE ~Sound(files[i])
        <4>1. Bound(i, 0)
          BY <3>1
        <4> QED  BY <4>1
      <3>2. CASE Sound(files[i])
        <4> DEFINE f == [k \in 1..Len(files[i]) |-> files[i][k].seq]
        <4>1. \A k \in 1..Len(files[i]) : f[k] \in Nat
          BY <1>1, <3>2
        <4>2. Len(files[i]) \in Nat
          BY <1>1
        <4> HIDE DEF f
        <4>3. PICK b \in Nat : \A k \in 1..Len(files[i]) : f[k] <= b
          BY <4>1, <4>2, Bounded
        <4>4. Bound(i, b)
          BY <4>3 DEF f
        <4> QED  BY <4>4
      <3> QED  BY <3>1, <3>2
    <2>2. Archives + 1 \in Nat /\ \A j \in 1..Archives + 1 : j - 1 \in Numbers
      BY LogConstants DEF Numbers
    <2> HIDE DEF Bound
    <2>3. \A j \in 1..Archives + 1 : g[j] \in Nat /\ Bound(j - 1, g[j])
      BY <2>1, <2>2
    <2> HIDE DEF g
    <2>4. PICK b \in Nat : \A j \in 1..Archives + 1 : g[j] <= b
      BY <2>2, <2>3, Bounded
    <2>5. ASSUME NEW x \in S PROVE x <= b
      <3>1. PICK i \in Numbers : Sound(files[i]) /\ x \in SeqsOf(files[i])
        BY DEF SeqsIn
      <3>2. PICK k \in 1..Len(files[i]) : x = files[i][k].seq
        BY <1>1, <3>1 DEF SeqsOf
      <3>3. i + 1 \in 1..Archives + 1 /\ (i + 1) - 1 = i
        BY LogConstants DEF Numbers
      <3>4. x <= g[i + 1] /\ g[i + 1] \in Nat
        BY <2>3, <3>1, <3>2, <3>3 DEF Bound
      <3>5. g[i + 1] <= b
        BY <2>4, <3>3
      <3> QED  BY <1>2, <3>4, <3>5
    <2> QED  BY <2>5
  <1> HIDE DEF S
  <1>5. After(S) \in Nat /\ \A x \in S : x < After(S)
    <2>1. CASE S = {}
      BY <2>1 DEF After
    <2>2. CASE S # {}
      <3>1. After(S) = Max(S) + 1
        BY <2>2 DEF After
      <3>2. Max(S) \in S /\ \A x \in S : x <= Max(S)
        BY <1>2, <1>4, <2>2, Greatest
      <3> DEFINE m == Max(S)
      <3>3. m \in Nat /\ (\A x \in S : x \in Nat /\ x <= m) /\ After(S) = m + 1
        BY <1>2, <3>1, <3>2
      <3> HIDE DEF m
      <3> QED  BY <3>3
    <2> QED  BY <2>1, <2>2
  <1>6. \A i \in Numbers : Sound(files[i]) =>
           \A k \in 1..Len(files[i]) : files[i][k].seq \in Nat /\ files[i][k].seq < After(S)
    BY <1>2, <1>3, <1>5
  <1> QED  BY <1>5, <1>6 DEF S

LEMMA RecoveredType ==
  ASSUME NEW l, LogType(l), NEW kept
  PROVE  /\ LogType(Recovered(l, kept)) /\ Recovered(l, kept).files = RecoveredFiles(l, kept)
         /\ Recovered(l, kept).next = After(SeqsIn(RecoveredFiles(l, kept)))
  <1> DEFINE files == RecoveredFiles(l, kept)
  <1>1. Recovered(l, kept) = [files |-> files, next |-> After(SeqsIn(files))]
    BY DEF Recovered, SeqsIn
  <1>2. Fitting(files)
    <2>1. l.files \in Files /\ \A i \in Numbers : Len(l.files[i]) <= FileSize
      BY DEF LogType, Files, Lines
    <2>2. files = [i \in Numbers |-> CASE i = 0 -> SoundPrefix(l.files[0])
                                       [] i > 0 /\ (Sound(l.files[i]) \/ i \in kept) -> l.files[i]
                                       [] OTHER -> <<>>]
      BY DEF RecoveredFiles
    <2> HIDE DEF files
    <2>3. ASSUME NEW i \in Numbers
          PROVE  files[i] \in Lines /\ Len(files[i]) <= FileSize
      <3>1. CASE i = 0
        <4>1. files[i] = SoundPrefix(l.files[0]) /\ l.files[0] \in Lines /\ Len(l.files[0]) <= FileSize
          BY <2>1, <2>2, <3>1 DEF Files
        <4>2. SoundPrefix(l.files[0]) \in Lines /\ Len(SoundPrefix(l.files[0])) <= Len(l.files[0])
          BY <4>1, PrefixIs
        <4>3. \A s \in Lines : Len(s) \in Nat
          BY DEF Lines
        <4> QED  BY <4>1, <4>2, <4>3, LogConstants
      <3>2. CASE i > 0 /\ (Sound(l.files[i]) \/ i \in kept)
        <4>1. files[i] = l.files[i]
          BY <2>2, <3>2
        <4> QED  BY <2>1, <4>1 DEF Files
      <3>3. CASE ~(i = 0) /\ ~(i > 0 /\ (Sound(l.files[i]) \/ i \in kept))
        <4>1. files[i] = <<>>
          BY <2>2, <3>3
        <4> QED  BY <4>1, LogConstants, EmptySeq DEF Lines
      <3> QED  BY <3>1, <3>2, <3>3
    <2>4. files \in [Numbers -> Lines]
      BY <2>2, <2>3
    <2> QED  BY <2>3, <2>4 DEF Fitting, Files
  <1> HIDE DEF files
  <1>3. After(SeqsIn(files)) \in Nat
    BY <1>2, AfterAll DEF Fitting
  <1> QED  BY <1>1, <1>2, <1>3 DEF LogType, Fitting, Files, Lines, files

(* The steps that write to the log.                                        *)
Elsewhere ==
    \/ \E source \in Sources, form \in Forms : Emit(source, form)
    \/ TimerFires \/ Ensure \/ ForceRenewal \/ RenewalRefused \/ Send
    \/ OtherRenewal \/ BackoffEnds \/ Age
    \/ \E r \in wire : Renew(r) \/ Reject(r) \/ GivesUp(r)
    \/ WindowPasses \/ PlanChanges

LEMMA LogSteps ==
  ASSUME Next
  PROVE  Elsewhere \/ Crash \/ Restart \/ \E r \in wire : AppendBatch(r) \/ AppendBreaks(r)
  BY DEF Next, Elsewhere

LEMMA ElsewhereKeeps ==
  ASSUME Elsewhere
  PROVE  UNCHANGED <<log, stored, up, broken>>
  BY DEF Elsewhere, Emit, TimerFires, Ensure, ForceRenewal, RenewalRefused, Send, OtherRenewal,
         BackoffEnds, Age, Renew, Reject, GivesUp, WindowPasses, PlanChanges, coreVars, bounds

(* What a request, in whole or in part, adds to the log.                   *)
LEMMA BatchType ==
  ASSUME Control, LogType(log), NEW r \in wire
  PROVE  /\ r.items \in Seq(Events) /\ LogType(AppendedAll(log, r.items))
         /\ \A n \in 0..Len(r.items) : LogType(AppendedAll(log, SubSeq(r.items, 1, n)))
  <1>1. r.items \in Seq(Events)
    BY DEF Control, Types, WireTypes, Requests
  <1>2. \A n \in 0..Len(r.items) : SubSeq(r.items, 1, n) \in Seq(Events)
    BY <1>1, FirstLines
  <1> QED  BY <1>1, <1>2, AppendedAllType

LEMMA LogTypeNext ==
  ASSUME Control, LogType(log), Next
  PROVE  LogType(log')
  <1>1. CASE Elsewhere
    BY <1>1, ElsewhereKeeps
  <1>2. ASSUME NEW r \in wire, AppendBatch(r) PROVE LogType(log')
    <2>1. log' = AppendedAll(log, r.items)
      BY <1>2 DEF AppendBatch
    <2> QED  BY <2>1, BatchType
  <1>3. ASSUME NEW r \in wire, AppendBreaks(r) PROVE LogType(log')
    <2>1. PICK n \in 0..Len(r.items) - 1, failure \in Failures, steps \in 0..Archives + 1 :
             log' = AppendFailed(AppendedAll(log, SubSeq(r.items, 1, n)), r.items[n + 1],
                                 failure, steps)
      BY <1>3, Zenon DEF AppendBreaks
    <2>2. r.items \in Seq(Events) /\ LogType(AppendedAll(log, SubSeq(r.items, 1, n)))
      BY BatchType
    <2>3. r.items[n + 1] \in Events
      BY <2>2
    <2> QED  BY <2>1, <2>2, <2>3, AppendFailedType
  <1>4. ASSUME Crash PROVE LogType(log')
    <2>1. CASE log' = log
      BY <2>1
    <2>2. CASE log' # log
      <3>1. PICK r \in wire : \E n \in 0..Len(r.items), line \in BOOLEAN :
               LET whole == AppendedAll(log, SubSeq(r.items, 1, n))
               IN  log' = IF line /\ n < Len(r.items) THEN Writes(Roomy(whole), Partial) ELSE whole
        BY <1>4, <2>2 DEF Crash, Roomy
      <3>2. PICK n \in 0..Len(r.items) :
               LET whole == AppendedAll(log, SubSeq(r.items, 1, n))
               IN  log' = whole \/ log' = Writes(Roomy(whole), Partial)
        BY <3>1
      <3>3. LogType(AppendedAll(log, SubSeq(r.items, 1, n)))
        BY BatchType
      <3> QED  BY <3>2, <3>3, RoomyType, WritesType, LogConstants
    <2> QED  BY <2>1, <2>2
  <1>5. ASSUME Restart PROVE LogType(log')
    BY <1>5, RecoveredType DEF Restart
  <1> QED  BY <1>1, <1>2, <1>3, <1>4, <1>5, LogSteps

LEMMA LogTypeInit ==
  ASSUME Init
  PROVE  LogType(log) /\ log.files = NoFiles /\ \A i \in Numbers : NoFiles[i] = <<>>
  <1>1. log = [files |-> NoFiles, next |-> 1]
    BY DEF Init
  <1>2. NoFiles \in [Numbers -> Seq(LineType)] /\ \A i \in Numbers : NoFiles[i] = <<>>
    BY EmptySeq DEF NoFiles
  <1>3. Len(<<>>) = 0 /\ FileSize \in Nat
    BY LogConstants
  <1> QED  BY <1>1, <1>2, <1>3 DEF LogType

(* No queue, batch or file of the log outgrows its limit, and nobody but   *)
(* the delivery under way is waited for.                                   *)
THEOREM TypeCorrect ==
  Spec => []TypeOK
  <1>1. Init => LogType(log)
    BY LogTypeInit
  <1>2. Control /\ LogType(log) /\ [Next]_vars => LogType(log)'
    <2> SUFFICES ASSUME Control, LogType(log), [Next]_vars PROVE LogType(log')
      BY DEF LogType
    <2> QED  BY LogTypeNext DEF vars, coreVars
  <1>3. Control /\ LogType(log) => TypeOK
    <2> SUFFICES ASSUME Control, LogType(log) PROVE TypeOK
      OBVIOUS
    <2>1. Types /\ OneAwaited /\ LengthAccounted
      BY DEF Control
    <2>2. Len(queue) <= QueueSize + emitted + warnings
      <3>1. Len(queue) \in Nat /\ emitted \in Nat /\ warnings \in Nat /\ QueueSize \in Nat
        BY <2>1, Constants DEF Types, ClientTypes
      <3>2. Flag(dropped > 0) \in {0, 1}
        BY DEF Flag
      <3> QED  BY <2>1, <3>1, <3>2 DEF LengthAccounted
    <2>3. ToSet(queue) \subseteq Events /\ ToSet(call.items) \subseteq Events
      BY <2>1, Members DEF Types, ClientTypes
    <2>4. dropped \in Nat /\ call.at \in Calls /\ Len(call.items) <= BatchSize /\ token \in Fresh..Dead
      BY <2>1 DEF Types, ClientTypes
    <2>5. timer \in BOOLEAN /\ backoff \in BOOLEAN /\ warned \in BOOLEAN
      BY <2>1, Zenon DEF Types, ClientTypes
    <2>6. (call.at = "idle") = (call.items = <<>>)
      BY <2>1 DEF OneAwaited, IdleIff
    <2>7. \A r \in wire : /\ r.method \in {"append", "renew"} /\ r.token \in Fresh..Dead
                          /\ Awaited(r) => call.at \in Waiting
      BY <2>1 DEF OneAwaited, Types, WireTypes, Requests
    <2>8. up \in BOOLEAN /\ plan \subseteq Plugins /\ used \in 0..Rate
      BY <2>1, Zenon DEF Types, CoreTypes
    <2>9. \A i \in Numbers : Len(log.files[i]) <= FileSize
      BY DEF LogType
    <2> QED  BY <2>2, <2>3, <2>4, <2>5, <2>6, <2>7, <2>8, <2>9, Zenon DEF TypeOK
  <1> QED  BY <1>1, <1>2, <1>3, DeliveryInv, PTL DEF Spec

(* The lines of all files: those of the oldest archive first.              *)
Flat(files) == FlattenSeq(Reverse([i \in 1..Archives + 1 |-> files[i - 1]]))

LEMMA FlatDefined ==
  ASSUME NEW files \in Files
  PROVE  \E g : /\ g[0] = files[Archives]
                /\ \A n \in Nat : n + 1 <= Archives => g[n + 1] = g[n] \o files[Archives - (n + 1)]
                /\ Flat(files) = g[Archives]
  <1> DEFINE N == Archives + 1
             ordered == [i \in 1..N |-> files[i - 1]]
             seqs == Reverse(ordered)
  <1>0. Archives \in Nat /\ Archives # 0 /\ N \in Nat /\ N # 0
    BY LogConstants
  <1>1. Len(ordered) = N /\ \A i \in 1..N : ordered[i] = files[i - 1]
    BY <1>0
  <1> HIDE DEF ordered
  <1>2. seqs = [j \in 1..N |-> ordered[(N - j) + 1]]
    BY <1>1 DEF Reverse
  <1>3. Len(seqs) = N /\ \A j \in 1..N : seqs[j] = files[N - j]
    <2>1. Len(seqs) = N
      BY <1>0, <1>2
    <2>2. \A j \in 1..N : (N - j) + 1 \in 1..N /\ ((N - j) + 1) - 1 = N - j
      BY <1>0
    <2> QED  BY <1>1, <1>2, <2>1, <2>2
  <1>4. Flat(files) = FlattenSeq(seqs)
    BY DEF Flat, ordered
  <1> HIDE DEF seqs
  <1> DEFINE Linked(f, i) == IF i = 1 THEN seqs[i] ELSE f[i - 1] \o seqs[i]
             Defined == {n \in Nat : \E f : f = [i \in 1..n + 1 |-> Linked(f, i)]}
  <1>5. 0 \in Defined
    <2>1. [i \in 1..0 + 1 |-> seqs[1]] = [i \in 1..0 + 1 |-> Linked([k \in 1..0 + 1 |-> seqs[1]], i)]
      OBVIOUS
    <2> QED  BY <2>1
  <1> HIDE DEF Linked
  <1>6. ASSUME NEW n \in Nat, n \in Defined
        PROVE  n + 1 \in Defined
    <2>1. PICK f : f = [i \in 1..n + 1 |-> Linked(f, i)]
      BY <1>6
    <2> DEFINE g == [i \in 1..(n + 1) + 1 |-> IF i = (n + 1) + 1 THEN Linked(f, i) ELSE f[i]]
    <2>2. \A i \in 1..(n + 1) + 1 : g[i] = Linked(g, i)
      <3> SUFFICES ASSUME NEW i \in 1..(n + 1) + 1 PROVE g[i] = Linked(g, i)
        OBVIOUS
      <3>1. i # 1 => g[i - 1] = f[i - 1]
        OBVIOUS
      <3>2. g[i] = Linked(f, i)
        BY <2>1
      <3> QED  BY <3>1, <3>2 DEF Linked
    <2>3. g = [i \in 1..(n + 1) + 1 |-> Linked(g, i)]
      BY <2>2
    <2> HIDE DEF g
    <2>4. \E h : h = [i \in 1..(n + 1) + 1 |-> Linked(h, i)]
      BY <2>3
    <2> QED  BY <2>4
  <1> HIDE DEF Defined
  <1>7. Archives \in Defined
    BY <1>0, <1>5, <1>6, NatSetInduction
  <1>8. PICK f : f = [i \in 1..N |-> Linked(f, i)]
    BY <1>7 DEF Defined
  <1> DEFINE flatten == CHOOSE h : h = [i \in 1..N |-> Linked(h, i)]
  <1>9. flatten = [i \in 1..N |-> Linked(flatten, i)]
    BY <1>8
  <1>10. FlattenSeq(seqs) = flatten[N]
    BY <1>0, <1>3 DEF FlattenSeq, Linked
  <1> HIDE DEF flatten
  <1> DEFINE g == [n \in 0..Archives |-> flatten[n + 1]]
  <1>11. g[0] = files[Archives]
    <2>1. 1 \in 1..N /\ N - 1 = Archives /\ 0 \in 0..Archives /\ 0 + 1 = 1
      BY <1>0
    <2>2. flatten[1] = seqs[1]
      BY <1>9, <2>1 DEF Linked
    <2> QED  BY <1>3, <2>1, <2>2
  <1>12. ASSUME NEW n \in Nat, n + 1 <= Archives
         PROVE  g[n + 1] = g[n] \o files[Archives - (n + 1)]
    <2>1. /\ (n + 1) + 1 \in 1..N /\ (n + 1) + 1 # 1 /\ ((n + 1) + 1) - 1 = n + 1
          /\ N - ((n + 1) + 1) = Archives - (n + 1) /\ n + 1 \in 0..Archives /\ n \in 0..Archives
      BY <1>0, <1>12
    <2>2. flatten[(n + 1) + 1] = Linked(flatten, (n + 1) + 1)
      BY <1>9, <2>1
    <2>3. flatten[(n + 1) + 1] = flatten[n + 1] \o seqs[(n + 1) + 1]
      BY <2>1, <2>2 DEF Linked
    <2>4. seqs[(n + 1) + 1] = files[Archives - (n + 1)]
      BY <1>3, <2>1
    <2>5. g[n + 1] = flatten[(n + 1) + 1] /\ g[n] = flatten[n + 1]
      BY <2>1
    <2> QED  BY <2>3, <2>4, <2>5
  <1>13. Flat(files) = g[Archives]
    BY <1>0, <1>4, <1>10
  <1> HIDE DEF g
  <1> QED  BY <1>11, <1>12, <1>13

(* The parts of which the lines are put together.                          *)
Joined(s, t) == s \o t

LEMMA JoinedLines ==
  /\ \A s, t \in Lines : Joined(s, t) \in Lines
  /\ \A s, t, u \in Lines : Joined(s, Joined(t, u)) = Joined(Joined(s, t), u)
  /\ \A s \in Lines : Joined(s, <<>>) = s /\ Joined(<<>>, s) = s
  /\ <<>> \in Lines
  BY ConcatProperties, ConcatAssociative, ConcatEmptySeq, EmptySeq DEF Joined, Lines

Parts(g, files) ==
    /\ g[0] = files[Archives]
    /\ \A n \in Nat : n + 1 <= Archives => g[n + 1] = Joined(g[n], files[Archives - (n + 1)])
    /\ Flat(files) = g[Archives]
    /\ \A n \in 0..Archives : g[n] \in Lines

LEMMA FlatParts ==
  ASSUME NEW files \in Files
  PROVE  (\E g : Parts(g, files)) /\ Flat(files) \in Lines
  <1>0. Archives \in Nat
    BY LogConstants
  <1>1. PICK g : /\ g[0] = files[Archives]
                 /\ \A n \in Nat : n + 1 <= Archives => g[n + 1] = Joined(g[n], files[Archives - (n + 1)])
                 /\ Flat(files) = g[Archives]
    BY FlatDefined DEF Joined
  <1>2. \A i \in 0..Archives : files[i] \in Lines
    BY DEF Files, Numbers
  <1> DEFINE Typed == {n \in Nat : n <= Archives => g[n] \in Lines}
  <1>3. 0 \in Typed
    BY <1>0, <1>1, <1>2
  <1>4. ASSUME NEW n \in Nat, n \in Typed
        PROVE  n + 1 \in Typed
    <2> SUFFICES ASSUME n + 1 <= Archives PROVE g[n + 1] \in Lines
      OBVIOUS
    <2>1. g[n] \in Lines /\ Archives - (n + 1) \in 0..Archives
      BY <1>0, <1>4
    <2>2. g[n + 1] = Joined(g[n], files[Archives - (n + 1)]) /\ files[Archives - (n + 1)] \in Lines
      BY <1>1, <1>2, <2>1
    <2> QED  BY <2>1, <2>2, JoinedLines
  <1> HIDE DEF Typed
  <1>5. \A n \in Nat : n \in Typed
    BY <1>3, <1>4, NatSetInduction
  <1>6. \A n \in 0..Archives : g[n] \in Lines
    BY <1>0, <1>5 DEF Typed
  <1>7. Parts(g, files)
    BY <1>1, <1>6 DEF Parts
  <1> QED  BY <1>0, <1>1, <1>6, <1>7

(* Each of them is a line of a file.                                       *)
LEMMA FlatFrom ==
  ASSUME NEW files \in Files
  PROVE  \A k \in 1..Len(Flat(files)) :
            \E i \in Numbers : \E j \in 1..Len(files[i]) : Flat(files)[k] = files[i][j]
  <1>0. Archives \in Nat
    BY LogConstants
  <1>1. PICK g : Parts(g, files)
    BY FlatParts
  <1> DEFINE From(s) == \A k \in 1..Len(s) :
                           \E i \in Numbers : \E j \in 1..Len(files[i]) : s[k] = files[i][j]
             Good == {n \in Nat : n <= Archives => From(g[n])}
  <1>2. ASSUME NEW i \in Numbers PROVE From(files[i])
    OBVIOUS
  <1>3. \A i \in 0..Archives : files[i] \in Lines /\ i \in Numbers
    BY DEF Files, Numbers
  <1>4. ASSUME NEW s \in Lines, NEW t \in Lines, From(s), From(t)
        PROVE  From(Joined(s, t))
    <2> DEFINE u == Joined(s, t)
    <2>1. /\ Len(s) \in Nat /\ Len(t) \in Nat /\ Len(u) = Len(s) + Len(t)
          /\ \A k \in 1..Len(s) + Len(t) : u[k] = IF k <= Len(s) THEN s[k] ELSE t[k - Len(s)]
      BY ConcatProperties DEF Lines, Joined
    <2> HIDE DEF u
    <2>2. ASSUME NEW k \in 1..Len(u)
          PROVE  \E i \in Numbers : \E j \in 1..Len(files[i]) : u[k] = files[i][j]
      <3>1. CASE k <= Len(s)
        <4>1. k \in 1..Len(s) /\ u[k] = s[k]
          BY <2>1, <3>1
        <4> QED  BY <1>4, <4>1
      <3>2. CASE ~(k <= Len(s))
        <4>1. k - Len(s) \in 1..Len(t) /\ u[k] = t[k - Len(s)]
          BY <2>1, <3>2
        <4> QED  BY <1>4, <4>1
      <3> QED  BY <3>1, <3>2
    <2> QED  BY <2>2 DEF u
  <1> HIDE DEF From
  <1>5. 0 \in Good
    BY <1>0, <1>1, <1>2, <1>3 DEF Parts
  <1>6. ASSUME NEW n \in Nat, n \in Good
        PROVE  n + 1 \in Good
    <2> SUFFICES ASSUME n + 1 <= Archives PROVE From(g[n + 1])
      OBVIOUS
    <2>1. n \in 0..Archives /\ Archives - (n + 1) \in 0..Archives
      BY <1>0
    <2>2. g[n + 1] = Joined(g[n], files[Archives - (n + 1)]) /\ g[n] \in Lines
      BY <1>1, <2>1 DEF Parts
    <2>3. From(g[n])
      BY <1>0, <1>6, <2>1
    <2>4. files[Archives - (n + 1)] \in Lines /\ From(files[Archives - (n + 1)])
      BY <1>2, <1>3, <2>1
    <2> QED  BY <1>4, <2>2, <2>3, <2>4
  <1> HIDE DEF Good
  <1>7. Archives \in Good
    BY <1>0, <1>5, <1>6, NatSetInduction
  <1>8. From(Flat(files))
    BY <1>0, <1>1, <1>7 DEF Good, Parts
  <1> QED  BY <1>8 DEF From

(* The active file comes last.                                             *)
LEMMA FlatActive ==
  ASSUME NEW files \in Files
  PROVE  \E u \in Lines : /\ Flat(files) = Joined(u, files[0])
                          /\ \A x \in Lines : Flat([files EXCEPT ![0] = x]) = Joined(u, x)
  <1>0. Archives \in Nat /\ Archives # 0 /\ Archives - 1 \in Nat /\ (Archives - 1) + 1 = Archives
    BY LogConstants
  <1>1. PICK g : Parts(g, files)
    BY FlatParts
  <1>2. g[Archives - 1] \in Lines /\ Flat(files) = Joined(g[Archives - 1], files[0])
    <2>1. Archives - 1 \in 0..Archives /\ Archives - ((Archives - 1) + 1) = 0
      BY <1>0
    <2> DEFINE n == Archives - 1
    <2>2. n \in Nat /\ n + 1 = Archives /\ n \in 0..Archives /\ Archives - (n + 1) = 0
      BY <1>0, <2>1
    <2> HIDE DEF n
    <2>3. g[n + 1] = Joined(g[n], files[Archives - (n + 1)]) /\ g[n] \in Lines /\ Flat(files) = g[n + 1]
      BY <1>0, <1>1, <2>2 DEF Parts
    <2>4. g[n] \in Lines /\ Flat(files) = Joined(g[n], files[0])
      BY <2>2, <2>3
    <2> QED  BY <2>4 DEF n
  <1>3. ASSUME NEW x \in Lines
        PROVE  Flat([files EXCEPT ![0] = x]) = Joined(g[Archives - 1], x)
    <2> DEFINE new == [files EXCEPT ![0] = x]
    <2>1. /\ new \in Files /\ new[0] = x
          /\ \A i \in 1..Archives : new[i] = files[i]
      BY <1>0 DEF Files, Numbers
    <2> HIDE DEF new
    <2>2. PICK h : Parts(h, new)
      BY <2>1, FlatParts
    <2> DEFINE Same == {n \in Nat : n < Archives => h[n] = g[n]}
    <2>3. 0 \in Same
      <3>1. Archives \in 1..Archives
        BY <1>0
      <3> QED  BY <1>1, <2>1, <2>2, <3>1 DEF Parts
    <2>4. ASSUME NEW n \in Nat, n \in Same
          PROVE  n + 1 \in Same
      <3> SUFFICES ASSUME n + 1 < Archives PROVE h[n + 1] = g[n + 1]
        OBVIOUS
      <3>1. n + 1 <= Archives /\ n < Archives /\ Archives - (n + 1) \in 1..Archives
        BY <1>0
      <3>2. h[n + 1] = Joined(h[n], new[Archives - (n + 1)])
        BY <2>2, <3>1 DEF Parts
      <3>3. g[n + 1] = Joined(g[n], files[Archives - (n + 1)])
        BY <1>1, <3>1 DEF Parts
      <3> QED  BY <2>1, <2>4, <3>1, <3>2, <3>3
    <2> HIDE DEF Same
    <2> DEFINE m == Archives - 1
    <2>5. m \in Same
      BY <1>0, <2>3, <2>4, NatSetInduction
    <2>6. m \in Nat /\ m < Archives /\ m + 1 = Archives /\ Archives - (m + 1) = 0
      BY <1>0
    <2> HIDE DEF m
    <2>7. h[m] = g[m]
      BY <2>5, <2>6 DEF Same
    <2>8. h[m + 1] = Joined(h[m], new[Archives - (m + 1)]) /\ Flat(new) = h[m + 1]
      BY <1>0, <2>2, <2>6 DEF Parts
    <2>9. Flat(new) = Joined(g[m], x)
      BY <2>1, <2>6, <2>7, <2>8
    <2> QED  BY <2>9 DEF new, m
  <1> QED  BY <1>2, <1>3

(* Rotation, complete or not, loses nothing but the oldest lines.          *)
LEMMA FlatShifted ==
  ASSUME NEW files, Fitting(files), NEW steps \in 0..Archives + 1
  PROVE  \E u \in Lines : Flat(files) = Joined(u, Flat(Shifted(files, steps)))
  <1> DEFINE new == Shifted(files, steps)
             empty == Archives + 1 - steps
             a == files[Archives]
  <1>0. Archives \in Nat /\ Archives # 0 /\ files \in Files /\ new \in Files
    BY LogConstants, ShiftedFits DEF Fitting
  <1>1. new = [i \in Numbers |-> CASE i = empty -> <<>>
                                   [] i > empty -> files[i - 1]
                                   [] OTHER -> files[i]]
    BY DEF Shifted
  <1>2. PICK g : Parts(g, files)
    BY <1>0, FlatParts
  <1>3. PICK h : Parts(h, new)
    BY <1>0, FlatParts
  <1> HIDE DEF new
  <1>4. \A i \in 0..Archives : /\ i = empty => new[i] = <<>>
                               /\ i > empty => new[i] = files[i - 1]
                               /\ i < empty => new[i] = files[i]
    BY <1>0, <1>1 DEF Numbers
  <1>5. a \in Lines /\ \A i \in 0..Archives : files[i] \in Lines /\ new[i] \in Lines
    BY <1>0, LogConstants DEF Files, Numbers
  <1>6. CASE steps = 0
    <2>1. \A i \in Numbers : new[i] = files[i]
      BY <1>0, <1>4, <1>6 DEF Numbers
    <2>2. new = files
      BY <1>0, <2>1 DEF Files
    <2>3. Flat(files) \in Lines
      BY <1>0, FlatParts
    <2>4. <<>> \in Lines /\ Flat(files) = Joined(<<>>, Flat(files))
      BY <2>3, JoinedLines
    <2>5. \E u \in Lines : Flat(files) = Joined(u, Flat(new))
      BY <2>2, <2>4
    <2> QED  BY <2>5 DEF new
  <1>7. CASE steps # 0
    <2> DEFINE Moved == {n \in Nat : n <= Archives =>
                           /\ n < steps - 1 => Joined(a, h[n]) = g[n + 1]
                           /\ n >= steps - 1 => Joined(a, h[n]) = g[n]}
    <2>0. Joined(a, <<>>) = a
      BY <1>5, JoinedLines
    <2>1. 0 \in Moved
      <3>1. h[0] = new[Archives] /\ g[0] = a /\ Archives \in 0..Archives
        BY <1>0, <1>2, <1>3 DEF Parts
      <3>2. CASE steps = 1
        <4>1. h[0] = <<>>
          BY <1>0, <1>4, <3>1, <3>2
        <4> QED  BY <2>0, <3>1, <3>2, <4>1
      <3>3. CASE steps # 1
        <4>1. steps > 1 /\ Archives > empty
          BY <1>0, <1>7, <3>3
        <4>2. h[0] = files[Archives - 1]
          BY <1>4, <3>1, <4>1
        <4>3. g[0 + 1] = Joined(g[0], files[Archives - (0 + 1)])
          <5>1. 0 \in Nat /\ 0 + 1 <= Archives
            BY <1>0
          <5> QED  BY <1>2, <5>1 DEF Parts
        <4>4. Joined(a, h[0]) = g[0 + 1]
          BY <3>1, <4>2, <4>3
        <4>5. ~(0 >= steps - 1)
          BY <4>1
        <4> QED  BY <4>4, <4>5
      <3> QED  BY <3>2, <3>3
    <2>2. ASSUME NEW n \in Nat, n \in Moved
          PROVE  n + 1 \in Moved
      <3> DEFINE i == Archives - (n + 1)
      <3> SUFFICES ASSUME n + 1 <= Archives
                   PROVE  /\ n + 1 < steps - 1 => Joined(a, h[n + 1]) = g[(n + 1) + 1]
                          /\ n + 1 >= steps - 1 => Joined(a, h[n + 1]) = g[n + 1]
        OBVIOUS
      <3>1. n \in 0..Archives /\ n <= Archives /\ i \in 0..Archives /\ steps \in Nat
        BY <1>0
      <3>2. h[n + 1] = Joined(h[n], new[i]) /\ g[n + 1] = Joined(g[n], files[i])
        BY <1>2, <1>3 DEF Parts
      <3>3. h[n] \in Lines /\ new[i] \in Lines
        BY <1>3, <1>5, <3>1 DEF Parts
      <3>4. Joined(a, h[n + 1]) = Joined(Joined(a, h[n]), new[i])
        <4>1. \A s, t, u \in Lines : Joined(s, Joined(t, u)) = Joined(Joined(s, t), u)
          BY JoinedLines
        <4> HIDE DEF a, i
        <4>2. Joined(a, Joined(h[n], new[i])) = Joined(Joined(a, h[n]), new[i])
          BY <1>5, <3>3, <4>1, Zenon
        <4> QED  BY <3>2, <4>2, Zenon
      <3>5. CASE n + 1 < steps - 1
        <4>1. n < steps - 1 /\ i > empty /\ (n + 1) + 1 <= Archives /\ i - 1 = Archives - ((n + 1) + 1)
          BY <1>0, <3>1, <3>5
        <4>2. new[i] = files[i - 1]
          BY <1>4, <3>1, <4>1
        <4>3. Joined(a, h[n]) = g[n + 1]
          BY <2>2, <3>1, <4>1
        <4>4. g[(n + 1) + 1] = Joined(g[n + 1], files[Archives - ((n + 1) + 1)])
          BY <1>2, <4>1 DEF Parts
        <4>5. Joined(a, h[n + 1]) = g[(n + 1) + 1]
          BY <3>4, <4>1, <4>2, <4>3, <4>4
        <4> QED  BY <3>1, <3>5, <4>5
      <3>6. CASE n + 1 = steps - 1
        <4>1. n < steps - 1 /\ i = empty
          BY <1>0, <3>1, <3>6
        <4>2. new[i] = <<>>
          BY <1>4, <3>1, <4>1
        <4>3. Joined(a, h[n]) = g[n + 1]
          BY <2>2, <3>1, <4>1
        <4>4. h[n + 1] = h[n]
          BY <3>2, <3>3, <4>2, JoinedLines
        <4> QED  BY <3>1, <3>6, <4>3, <4>4
      <3>7. CASE n + 1 > steps - 1
        <4>1. n >= steps - 1 /\ i < empty
          BY <1>0, <3>1, <3>7
        <4>2. new[i] = files[i]
          BY <1>4, <3>1, <4>1
        <4>3. Joined(a, h[n]) = g[n]
          BY <2>2, <3>1, <4>1
        <4> QED  BY <3>1, <3>2, <3>4, <3>7, <4>2, <4>3
      <3> QED  BY <3>1, <3>5, <3>6, <3>7
    <2> HIDE DEF Moved
    <2>3. Archives \in Moved
      BY <1>0, <2>1, <2>2, NatSetInduction
    <2>4. Archives >= steps - 1 /\ Archives <= Archives
      BY <1>0
    <2>5. Joined(a, h[Archives]) = g[Archives]
      BY <2>3, <2>4 DEF Moved
    <2>6. \E u \in Lines : Flat(files) = Joined(u, Flat(new))
      BY <1>2, <1>3, <1>5, <2>5 DEF Parts
    <2> QED  BY <2>6 DEF new
  <1> QED  BY <1>6, <1>7

(* The lines record the last of some events, under increasing numbers.     *)
LastOf(lines, events) ==
    /\ Len(lines) <= Len(events)
    /\ \A k \in 1..Len(lines) : lines[k].event = events[Len(events) - Len(lines) + k]

Ascends(lines, next) ==
    /\ \A k \in 1..Len(lines) : lines[k].seq \in Nat /\ lines[k].seq < next
    /\ \A i, k \in 1..Len(lines) : i < k => lines[i].seq < lines[k].seq

LEMMA FewerLines ==
  ASSUME NEW u \in Lines, NEW v \in Lines, NEW events \in Seq(Events), NEW next \in Nat
  PROVE  /\ LastOf(Joined(u, v), events) => LastOf(v, events)
         /\ Ascends(Joined(u, v), next) => Ascends(v, next)
  <1> DEFINE w == Joined(u, v)
             n == Len(u)
  <1>1. /\ n \in Nat /\ Len(v) \in Nat /\ Len(events) \in Nat /\ Len(w) = n + Len(v)
        /\ \A k \in 1..Len(v) : n + k \in 1..Len(w) /\ w[n + k] = v[k]
    BY ConcatHas DEF Lines, Joined
  <1> HIDE DEF w, n
  <1>2. ASSUME LastOf(w, events) PROVE LastOf(v, events)
    <2>1. Len(v) <= Len(events)
      BY <1>1, <1>2 DEF LastOf
    <2>2. ASSUME NEW k \in 1..Len(v)
          PROVE  v[k].event = events[Len(events) - Len(v) + k]
      <3>1. Len(events) - Len(w) + (n + k) = Len(events) - Len(v) + k
        BY <1>1
      <3>2. w[n + k].event = events[Len(events) - Len(w) + (n + k)]
        BY <1>1, <1>2 DEF LastOf
      <3> QED  BY <1>1, <3>1, <3>2
    <2> QED  BY <2>1, <2>2 DEF LastOf
  <1>3. ASSUME Ascends(w, next) PROVE Ascends(v, next)
    <2>1. \A k \in 1..Len(v) : v[k].seq \in Nat /\ v[k].seq < next
      BY <1>1, <1>3 DEF Ascends
    <2>2. \A i, k \in 1..Len(v) : i < k => v[i].seq < v[k].seq
      <3> SUFFICES ASSUME NEW i \in 1..Len(v), NEW k \in 1..Len(v), i < k
                   PROVE  v[i].seq < v[k].seq
        OBVIOUS
      <3>1. n + i < n + k
        BY <1>1
      <3>2. w[n + i].seq < w[n + k].seq
        BY <1>1, <1>3, <3>1 DEF Ascends
      <3> QED  BY <1>1, <3>2
    <2> QED  BY <2>1, <2>2 DEF Ascends
  <1> QED  BY <1>2, <1>3 DEF w

LEMMA OneMoreLine ==
  ASSUME NEW lines \in Lines, NEW events \in Seq(Events), NEW next \in Nat, NEW e \in Events,
         NEW line \in LineType, line.event = e, line.seq = next
  PROVE  /\ LastOf(lines, events) => LastOf(Append(lines, line), Append(events, e))
         /\ Ascends(lines, next) => Ascends(Append(lines, line), next + 1)
  <1> DEFINE w == Append(lines, line)
             n == Len(lines)
             more == Append(events, e)
             m == Len(events)
  <1>1. /\ n \in Nat /\ Len(w) = n + 1 /\ w[n + 1] = line
        /\ \A k \in 1..n : w[k] = lines[k]
    BY AppendProperties DEF Lines
  <1>2. /\ m \in Nat /\ Len(more) = m + 1 /\ more[m + 1] = e
        /\ \A k \in 1..m : more[k] = events[k]
    BY AppendProperties
  <1> HIDE DEF w, more
  <1>3. ASSUME LastOf(lines, events) PROVE LastOf(w, more)
    <2>0. n <= m
      BY <1>3 DEF LastOf
    <2>1. ASSUME NEW k \in 1..n + 1
          PROVE  w[k].event = more[(m + 1) - (n + 1) + k]
      <3>1. CASE k = n + 1
        <4>1. (m + 1) - (n + 1) + k = m + 1
          BY <1>1, <1>2, <3>1
        <4> QED  BY <1>1, <1>2, <3>1, <4>1
      <3>2. CASE k # n + 1
        <4>1. k \in 1..n /\ (m + 1) - (n + 1) + k = m - n + k /\ m - n + k \in 1..m
          BY <1>1, <1>2, <2>0, <3>2
        <4>2. lines[k].event = events[m - n + k]
          BY <1>3, <4>1 DEF LastOf
        <4> QED  BY <1>1, <1>2, <4>1, <4>2
      <3> QED  BY <3>1, <3>2
    <2>2. n + 1 <= m + 1
      BY <1>1, <1>2, <2>0
    <2> HIDE DEF n, m
    <2> QED  BY <1>1, <1>2, <2>1, <2>2 DEF LastOf
  <1>4. ASSUME Ascends(lines, next) PROVE Ascends(w, next + 1)
    <2>1. \A k \in 1..n : lines[k].seq \in Nat /\ lines[k].seq < next
      BY <1>4 DEF Ascends
    <2>2. \A k \in 1..n + 1 : k = n + 1 \/ k \in 1..n
      BY <1>1
    <2>3. \A k \in 1..n + 1 : w[k].seq \in Nat /\ w[k].seq < next + 1
      BY <1>1, <2>1, <2>2
    <2>4. \A i, k \in 1..n + 1 : i < k => w[i].seq < w[k].seq
      <3> SUFFICES ASSUME NEW i \in 1..n + 1, NEW k \in 1..n + 1, i < k
                   PROVE  w[i].seq < w[k].seq
        OBVIOUS
      <3>1. i \in 1..n /\ w[i] = lines[i]
        BY <1>1
      <3>2. CASE k = n + 1
        BY <1>1, <2>1, <3>1, <3>2
      <3>3. CASE k \in 1..n
        <4>1. lines[i].seq < lines[k].seq /\ w[k] = lines[k]
          BY <1>1, <1>4, <3>1, <3>3 DEF Ascends
        <4> QED  BY <3>1, <4>1
      <3> QED  BY <2>2, <3>2, <3>3
    <2> HIDE DEF n
    <2> QED  BY <1>1, <2>3, <2>4 DEF Ascends
  <1> QED  BY <1>3, <1>4 DEF w, more

(* A log all of whose lines are records, of the last of some events.       *)
AllRecords(files) == \A i \in Numbers : Sound(files[i])


Keeps(l, events, numbered) ==
    /\ LogType(l) /\ AllRecords(l.files)
    /\ LastOf(Flat(l.files), events)
    /\ numbered => Ascends(Flat(l.files), l.next)

LEMMA FilesOf ==
  ASSUME NEW l, LogType(l)
  PROVE  /\ l \in [files : Files, next : Nat] /\ Fitting(l.files) /\ l.files \in Files
         /\ l.next \in Nat /\ Flat(l.files) \in Lines /\ l.files[0] \in Lines
  <1>1. l \in [files : Files, next : Nat] /\ Fitting(l.files) /\ l.files \in Files
    BY DEF LogType, Files, Fitting, Lines
  <1>2. l.files[0] \in Lines
    BY <1>1, LogConstants DEF Files
  <1> QED  BY <1>1, <1>2, FlatParts

LEMMA ShiftedKeeps ==
  ASSUME NEW l, NEW events \in Seq(Events), NEW numbered \in BOOLEAN, Keeps(l, events, numbered),
         NEW steps \in 0..Archives + 1
  PROVE  Keeps([l EXCEPT !.files = Shifted(l.files, steps)], events, numbered)
  <1> DEFINE files == Shifted(l.files, steps)
             new == [l EXCEPT !.files = files]
             empty == Archives + 1 - steps
  <1>1. /\ l \in [files : Files, next : Nat] /\ Fitting(l.files) /\ l.next \in Nat
        /\ AllRecords(l.files) /\ LastOf(Flat(l.files), events)
        /\ numbered => Ascends(Flat(l.files), l.next)
    BY FilesOf DEF Keeps
  <1>2. Fitting(files)
    BY <1>1, ShiftedFits
  <1>3. files = [i \in Numbers |-> CASE i = empty -> <<>>
                                     [] i > empty -> l.files[i - 1]
                                     [] OTHER -> l.files[i]]
    BY DEF Shifted
  <1>4. PICK u \in Lines : Flat(l.files) = Joined(u, Flat(files))
    BY <1>1, FlatShifted
  <1> HIDE DEF files
  <1>5. new.files = files /\ new.next = l.next /\ LogType(new)
    BY <1>1, <1>2 DEF LogType, Fitting, Files, Lines
  <1>6. AllRecords(files)
    <2> SUFFICES ASSUME NEW i \in Numbers PROVE Sound(files[i])
      BY DEF AllRecords
    <2>0. empty \in Nat /\ Archives \in Nat
      BY LogConstants
    <2>1. CASE i = empty
      <3>1. files[i] = <<>>
        BY <1>3, <2>1
      <3> QED  BY <3>1 DEF Sound
    <2>2. CASE i > empty
      <3>1. files[i] = l.files[i - 1] /\ i - 1 \in Numbers
        BY <1>3, <2>0, <2>2 DEF Numbers
      <3> QED  BY <1>1, <3>1 DEF AllRecords
    <2>3. CASE ~(i = empty) /\ ~(i > empty)
      <3>1. files[i] = l.files[i]
        BY <1>3, <2>3
      <3> QED  BY <1>1, <3>1 DEF AllRecords
    <2> QED  BY <2>1, <2>2, <2>3
  <1>7. Flat(files) \in Lines
    BY <1>2, FlatParts DEF Fitting
  <1>8. LastOf(Flat(files), events) /\ (numbered => Ascends(Flat(files), l.next))
    BY <1>1, <1>4, <1>7, FewerLines
  <1> HIDE DEF new
  <1>9. Keeps(new, events, numbered)
    BY <1>5, <1>6, <1>8 DEF Keeps
  <1> QED  BY <1>9 DEF new, files

LEMMA RoomyKeeps ==
  ASSUME NEW l, NEW events \in Seq(Events), NEW numbered \in BOOLEAN, Keeps(l, events, numbered)
  PROVE  Keeps(Roomy(l), events, numbered)
  <1>1. CASE MustRotate(l.files)
    <2>1. Roomy(l) = [l EXCEPT !.files = Shifted(l.files, Archives + 1)]
      BY <1>1 DEF Roomy, Room
    <2>2. Archives + 1 \in 0..Archives + 1
      BY LogConstants
    <2> QED  BY <2>1, <2>2, ShiftedKeeps
  <1>2. CASE ~MustRotate(l.files)
    <2>1. l \in [files : Files, next : Nat]
      BY FilesOf DEF Keeps
    <2>2. Roomy(l) = l
      BY <1>2, <2>1 DEF Roomy, Room
    <2> QED  BY <2>2
  <1> QED  BY <1>1, <1>2

(* A record at the end of the active file, which is sound and has room.    *)
LEMMA WriteKeeps ==
  ASSUME NEW l, NEW events \in Seq(Events), NEW numbered \in BOOLEAN, Keeps(l, events, numbered),
         Len(l.files[0]) < FileSize, NEW e \in Events
  PROVE  LET w == Writes(l, Record(l, e)) IN
         /\ LogType(w) /\ w.next = l.next /\ AllRecords(w.files)
         /\ LastOf(Flat(w.files), Append(events, e))
         /\ numbered => Ascends(Flat(w.files), l.next + 1)
  <1> DEFINE line == Record(l, e)
             w == Writes(l, line)
             end == Append(l.files[0], line)
  <1>1. /\ LogType(l) /\ l \in [files : Files, next : Nat] /\ l.files \in Files /\ l.next \in Nat
        /\ Flat(l.files) \in Lines /\ l.files[0] \in Lines /\ AllRecords(l.files)
        /\ LastOf(Flat(l.files), events) /\ (numbered => Ascends(Flat(l.files), l.next))
    BY FilesOf DEF Keeps
  <1>2. line \in LineType /\ IsRecord(line) /\ line.event = e /\ line.seq = l.next
    BY <1>1, RecordType DEF Record
  <1> HIDE DEF line
  <1>3. LogType(w) /\ w.next = l.next
    BY <1>1, <1>2, WritesType
  <1>4. Sound(l.files[0]) /\ 0 \in Numbers
    BY <1>1, LogConstants DEF AllRecords
  <1>5. WithLine(l.files[0], line) = end
    BY <1>1, <1>2, <1>4, WithLineFits
  <1>6. end \in Lines /\ Sound(end) /\ end = Joined(l.files[0], <<line>>)
    <2> DEFINE s == l.files[0]
    <2>0. s \in Lines /\ Sound(s) /\ end = Append(s, line) /\ Len(s) \in Nat
      BY <1>1, <1>4 DEF Lines
    <2> HIDE DEF s, end
    <2>1. /\ end \in Lines /\ Len(end) = Len(s) + 1 /\ end[Len(s) + 1] = line
          /\ \A k \in 1..Len(s) : end[k] = s[k]
      BY <1>2, <2>0, AppendProperties DEF Lines
    <2>2. SoundTo(s, Len(s))
      BY <2>0, SoundLines
    <2>3. \A k \in 1..Len(s) + 1 : k = Len(s) + 1 \/ k \in 1..Len(s)
      BY <2>0
    <2>4. SoundTo(end, Len(end))
      BY <1>2, <2>1, <2>2, <2>3 DEF SoundTo
    <2>5. Sound(end)
      BY <2>1, <2>4, SoundLines
    <2>6. end = Joined(s, <<line>>)
      BY <1>2, <2>0, AppendIsConcat DEF Joined, Lines
    <2> QED  BY <2>1, <2>5, <2>6 DEF s
  <1> HIDE DEF end
  <1>7. w.files = [l.files EXCEPT ![0] = end]
    BY <1>1, <1>5 DEF Writes
  <1>8. AllRecords(w.files)
    BY <1>1, <1>6, <1>7 DEF AllRecords, Files
  <1>9. Flat(w.files) = Append(Flat(l.files), line)
    <2>1. PICK u \in Lines : /\ Flat(l.files) = Joined(u, l.files[0])
                             /\ \A x \in Lines : Flat([l.files EXCEPT ![0] = x]) = Joined(u, x)
      BY <1>1, FlatActive
    <2>2. <<line>> \in Lines
      BY <1>2 DEF Lines
    <2>3. Flat(w.files) = Joined(u, Joined(l.files[0], <<line>>))
      BY <1>6, <1>7, <2>1
    <2>4. Flat(w.files) = Joined(Flat(l.files), <<line>>)
      <3> DEFINE a == l.files[0]
                 b == <<line>>
      <3>1. a \in Lines /\ b \in Lines /\ Flat(l.files) = Joined(u, a)
        BY <1>1, <2>1, <2>2
      <3>2. Flat(w.files) = Joined(u, Joined(a, b))
        BY <2>3
      <3> HIDE DEF a, b, w
      <3>3. Joined(u, Joined(a, b)) = Joined(Joined(u, a), b)
        BY <3>1, JoinedLines
      <3>4. Flat(w.files) = Joined(Flat(l.files), b)
        BY <3>1, <3>2, <3>3, Zenon
      <3> QED  BY <3>4 DEF b
    <2> DEFINE s == Flat(l.files)
    <2> HIDE DEF s
    <2>5. s \in Seq(LineType) /\ Flat(w.files) = s \o <<line>>
      BY <1>1, <2>4 DEF s, Lines, Joined
    <2>6. Flat(w.files) = Append(s, line)
      BY <1>2, <2>5, AppendIsConcat
    <2> QED  BY <2>6 DEF s
  <1>10. LastOf(Flat(w.files), Append(events, e)) /\ (numbered => Ascends(Flat(w.files), l.next + 1))
    BY <1>1, <1>2, <1>9, OneMoreLine
  <1> HIDE DEF w
  <1>11. /\ LogType(w) /\ w.next = l.next /\ AllRecords(w.files)
         /\ LastOf(Flat(w.files), Append(events, e))
         /\ numbered => Ascends(Flat(w.files), l.next + 1)
    BY <1>3, <1>8, <1>10
  <1> QED  BY <1>11 DEF w, line

LEMMA AppendedKeeps ==
  ASSUME NEW l, NEW events \in Seq(Events), NEW numbered \in BOOLEAN, Keeps(l, events, numbered),
         NEW e \in Events
  PROVE  /\ Keeps(Appended(l, e), Append(events, e), numbered)
         /\ Keeps(Writes(Roomy(l), Record(l, e)), Append(events, e), FALSE)
  <1> DEFINE roomy == Roomy(l)
             w == Writes(roomy, Record(roomy, e))
  <1>1. LogType(l)
    BY DEF Keeps
  <1>2. Keeps(roomy, events, numbered) /\ Len(roomy.files[0]) < FileSize /\ roomy.next = l.next
    BY <1>1, RoomyKeeps, RoomyType
  <1>3. w = Writes(Roomy(l), Record(l, e))
    BY <1>2 DEF Record
  <1> HIDE DEF roomy
  <1>4. /\ LogType(w) /\ w.next = roomy.next /\ AllRecords(w.files)
        /\ LastOf(Flat(w.files), Append(events, e))
        /\ numbered => Ascends(Flat(w.files), roomy.next + 1)
    BY <1>2, WriteKeeps
  <1> HIDE DEF w
  <1>5. Keeps(w, Append(events, e), FALSE)
    BY <1>4 DEF Keeps
  <1>6. /\ LogType(Appended(l, e)) /\ Appended(l, e).next = l.next + 1
        /\ Appended(l, e).files = w.files
    BY <1>1, <1>3, AppendedType
  <1>7. Keeps(Appended(l, e), Append(events, e), numbered)
    BY <1>2, <1>4, <1>6 DEF Keeps
  <1> QED  BY <1>3, <1>5, <1>7

LEMMA AppendedAllKeeps ==
  ASSUME NEW l, NEW events \in Seq(Events), NEW numbered \in BOOLEAN, Keeps(l, events, numbered),
         NEW more \in Seq(Events)
  PROVE  Keeps(AppendedAll(l, more), events \o more, numbered)
  <1>0. Len(more) \in Nat
    OBVIOUS
  <1>1. PICK f :
          /\ f[0] = l
          /\ \A n \in Nat : n + 1 <= Len(more) => f[n + 1] = Appended(f[n], more[n + 1])
          /\ AppendedAll(l, more) = f[Len(more)]
    BY <1>0, AppendedAllDefined
  <1> DEFINE First(n) == events \o SubSeq(more, 1, n)
             Kept1 == {n \in Nat : n <= Len(more) => Keeps(f[n], First(n), numbered)}
  <1>2. \A n \in 0..Len(more) : First(n) \in Seq(Events)
    <2> SUFFICES ASSUME NEW n \in 0..Len(more) PROVE First(n) \in Seq(Events)
      OBVIOUS
    <2> DEFINE s == SubSeq(more, 1, n)
    <2>1. s \in Seq(Events)
      BY FirstLines
    <2> HIDE DEF s
    <2>2. events \o s \in Seq(Events)
      BY <2>1, ConcatProperties
    <2> QED  BY <2>2 DEF s
  <1>3. First(0) = events
    <2>1. SubSeq(more, 1, 0) = <<>>
      BY SubSeqEmpty
    <2> QED  BY <2>1, ConcatEmptySeq
  <1>4. First(Len(more)) = events \o more
    BY SubSeqFull
  <1>5. ASSUME NEW n \in Nat, n + 1 <= Len(more)
        PROVE  First(n + 1) = Append(First(n), more[n + 1])
    <2> DEFINE s == SubSeq(more, 1, n)
               e == more[n + 1]
    <2>1. n + 1 \in 1..Len(more) /\ (n + 1) - 1 = n /\ 1 \in 1..Len(more) /\ 1 \in 1..n + 1
      BY <1>0, <1>5
    <2>2. e \in Events /\ s \in Seq(Events)
      BY <1>0, <1>5, FirstLines
    <2>3. SubSeq(more, 1, n + 1) = s \o <<e>>
      <3>1. n + 1 \in 1..Len(more) /\ 1 \in 1..Len(more) /\ n + 1 \in 1..Len(more) /\ n + 1 \in 1..Len(more)
        BY <2>1
      <3>2. SubSeq(more, 1, n + 1) = SubSeq(more, 1, (n + 1) - 1) \o <<more[n + 1]>>
        BY <1>0, <1>5, SubSeqRecursiveSecond
      <3> QED  BY <2>1, <3>2
    <2>4. First(n + 1) = events \o (s \o <<e>>)
      BY <2>3
    <2> HIDE DEF s, e
    <2>5. events \o (s \o <<e>>) = (events \o s) \o <<e>>
      BY <2>2, ConcatAssociative
    <2>6. (events \o s) \o <<e>> = Append(events \o s, e)
      BY <2>2, ConcatProperties, AppendIsConcat
    <2>7. First(n + 1) = Append(events \o s, e)
      BY <2>4, <2>5, <2>6
    <2> QED  BY <2>7 DEF s, e
  <1> HIDE DEF First
  <1>6. 0 \in Kept1
    BY <1>1, <1>3
  <1>7. ASSUME NEW n \in Nat, n \in Kept1
        PROVE  n + 1 \in Kept1
    <2> SUFFICES ASSUME n + 1 <= Len(more) PROVE Keeps(f[n + 1], First(n + 1), numbered)
      OBVIOUS
    <2>1. n <= Len(more) /\ n \in 0..Len(more) /\ more[n + 1] \in Events
      BY <1>0
    <2>2. Keeps(f[n], First(n), numbered) /\ f[n + 1] = Appended(f[n], more[n + 1])
      BY <1>1, <1>7, <2>1
    <2>3. Keeps(f[n + 1], Append(First(n), more[n + 1]), numbered)
      BY <1>2, <2>1, <2>2, AppendedKeeps
    <2> QED  BY <1>5, <2>3
  <1> HIDE DEF Kept1
  <1>8. Len(more) \in Kept1
    BY <1>0, <1>6, <1>7, NatSetInduction
  <1>9. Keeps(f[Len(more)], First(Len(more)), numbered)
    BY <1>0, <1>8 DEF Kept1
  <1> QED  BY <1>1, <1>4, <1>9

(* While Core runs all lines are records; it may die within the last one.  *)
TornOf(l, whole) ==
    LogType(l) /\ l.files = [whole.files EXCEPT ![0] = Append(whole.files[0], Partial)]
LeftOf(l, whole) == l = whole \/ TornOf(l, whole)

LogSound ==
    "partial" \notin broken =>
        \E whole : /\ Keeps(whole, stored, "unsynced" \notin broken)
                   /\ log = whole \/ (~up /\ TornOf(log, whole))

LEMMA TornWrite ==
  ASSUME NEW l, NEW events \in Seq(Events), NEW numbered \in BOOLEAN, Keeps(l, events, numbered)
  PROVE  TornOf(Writes(Roomy(l), Partial), Roomy(l)) /\ Keeps(Roomy(l), events, numbered)
  <1> DEFINE roomy == Roomy(l)
             torn == Writes(roomy, Partial)
  <1>1. Keeps(roomy, events, numbered) /\ Len(roomy.files[0]) < FileSize
    BY RoomyKeeps, RoomyType DEF Keeps
  <1> HIDE DEF roomy
  <1>2. /\ LogType(roomy) /\ roomy \in [files : Files, next : Nat] /\ roomy.files[0] \in Lines
        /\ Sound(roomy.files[0])
    BY <1>1, FilesOf, LogConstants DEF Keeps, AllRecords
  <1>3. LogType(torn)
    BY <1>1, <1>2, WritesType, LogConstants
  <1>4. WithLine(roomy.files[0], Partial) = Append(roomy.files[0], Partial)
    BY <1>2, WithLineFits, LogConstants
  <1>5. torn.files = [roomy.files EXCEPT ![0] = Append(roomy.files[0], Partial)]
    BY <1>2, <1>4 DEF Writes
  <1> QED  BY <1>1, <1>3, <1>5 DEF TornOf, roomy

(* Recovery leaves what a crash left whole.                                *)
LEMMA RecoveredKeeps ==
  ASSUME NEW l, NEW whole, NEW events \in Seq(Events), NEW numbered \in BOOLEAN,
         Keeps(whole, events, numbered), LeftOf(l, whole), NEW kept
  PROVE  Keeps(Recovered(l, kept), events, numbered)
  <1> DEFINE new == Recovered(l, kept)
             files == whole.files
  <1>1. /\ LogType(whole) /\ files \in Files /\ AllRecords(files) /\ LastOf(Flat(files), events)
        /\ whole.next \in Nat /\ (numbered => Ascends(Flat(files), whole.next)) /\ LogType(l)
        /\ files[0] \in Lines /\ Flat(files) \in Lines
    BY FilesOf DEF Keeps, LeftOf, TornOf
  <1> HIDE DEF files
  <1>2. l.files[0] = files[0] \/ l.files[0] = Append(files[0], Partial)
    BY <1>1, LogConstants DEF LeftOf, TornOf, Files, files
  <1>3. \A i \in Numbers \ {0} : l.files[i] = files[i] /\ Sound(l.files[i])
    BY <1>1 DEF LeftOf, TornOf, Files, AllRecords, files
  <1>4. SoundPrefix(l.files[0]) = files[0]
    <2>1. Sound(files[0]) /\ l.files[0] \in Lines
      BY <1>1, FilesOf, LogConstants DEF AllRecords
    <2> QED  BY <1>1, <1>2, <2>1, PrefixIs
  <1>5. RecoveredFiles(l, kept) = files
    <2> DEFINE r == RecoveredFiles(l, kept)
    <2>1. r = [i \in Numbers |-> CASE i = 0 -> SoundPrefix(l.files[0])
                                   [] i > 0 /\ (Sound(l.files[i]) \/ i \in kept) -> l.files[i]
                                   [] OTHER -> <<>>]
      BY DEF RecoveredFiles
    <2> HIDE DEF r
    <2>2. ASSUME NEW i \in Numbers PROVE r[i] = files[i]
      <3>1. CASE i = 0
        <4>1. r[i] = SoundPrefix(l.files[0])
          BY <2>1, <3>1
        <4> QED  BY <1>4, <3>1, <4>1
      <3>2. CASE i # 0
        <4>1. i > 0 /\ Sound(l.files[i]) /\ l.files[i] = files[i]
          BY <1>3, <3>2 DEF Numbers
        <4>2. r[i] = l.files[i]
          BY <2>1, <3>2, <4>1
        <4> QED  BY <4>1, <4>2
      <3> QED  BY <3>1, <3>2
    <2>3. r = files
      BY <1>1, <2>1, <2>2 DEF Files
    <2> QED  BY <2>3 DEF r
  <1>6. LogType(new) /\ new.files = files /\ new.next = After(SeqsIn(files))
    BY <1>1, <1>5, RecoveredType
  <1> HIDE DEF new
  <1>7. ASSUME numbered PROVE Ascends(Flat(files), new.next)
    <2>1. \A i, k \in 1..Len(Flat(files)) : i < k => Flat(files)[i].seq < Flat(files)[k].seq
      BY <1>1, <1>7 DEF Ascends
    <2>2. ASSUME NEW k \in 1..Len(Flat(files))
          PROVE  Flat(files)[k].seq \in Nat /\ Flat(files)[k].seq < new.next
      <3>0. PICK i \in Numbers : \E j \in 1..Len(files[i]) : Flat(files)[k] = files[i][j]
        BY <1>1, FlatFrom
      <3>1. PICK j \in 1..Len(files[i]) : Flat(files)[k] = files[i][j]
        BY <3>0
      <3>2. Sound(files[i])
        BY <1>1 DEF AllRecords
      <3>3. files[i][j].seq \in Nat /\ files[i][j].seq < After(SeqsIn(files))
        BY <1>1, <3>2, AfterAll
      <3> QED  BY <1>6, <3>1, <3>3
    <2> QED  BY <2>1, <2>2 DEF Ascends
  <1>8. Keeps(new, events, numbered)
    BY <1>1, <1>6, <1>7 DEF Keeps
  <1> QED  BY <1>8 DEF new

LEMMA LogSoundSame ==
  ASSUME LogSound, UNCHANGED <<log, stored, broken>>, up' => up
  PROVE  LogSound'
  BY DEF LogSound

(* Events of a request after what is written.                              *)
LEMMA BatchKeeps ==
  ASSUME Control, NEW numbered \in BOOLEAN, Keeps(log, stored, numbered), NEW r \in wire
  PROVE  /\ stored \in Seq(Events) /\ r.items \in Seq(Events)
         /\ Keeps(AppendedAll(log, r.items), stored \o r.items, numbered)
         /\ \A n \in 0..Len(r.items) :
               /\ stored \o SubSeq(r.items, 1, n) \in Seq(Events)
               /\ Keeps(AppendedAll(log, SubSeq(r.items, 1, n)), stored \o SubSeq(r.items, 1, n),
                        numbered)
  <1>1. r.items \in Seq(Events) /\ stored \in Seq(Events)
    BY DEF Control, Types, WireTypes, Requests, CoreTypes
  <1>2. ASSUME NEW n \in 0..Len(r.items)
        PROVE  /\ stored \o SubSeq(r.items, 1, n) \in Seq(Events)
               /\ Keeps(AppendedAll(log, SubSeq(r.items, 1, n)), stored \o SubSeq(r.items, 1, n),
                        numbered)
    <2> DEFINE s == SubSeq(r.items, 1, n)
    <2>1. s \in Seq(Events)
      BY <1>1, FirstLines
    <2> HIDE DEF s
    <2>2. stored \o s \in Seq(Events)
      BY <1>1, <2>1, ConcatProperties
    <2>3. Keeps(AppendedAll(log, s), stored \o s, numbered)
      BY <1>1, <2>1, AppendedAllKeeps
    <2> QED  BY <2>2, <2>3 DEF s
  <1>3. Keeps(AppendedAll(log, r.items), stored \o r.items, numbered)
    BY <1>1, AppendedAllKeeps
  <1> QED  BY <1>1, <1>2, <1>3

LEMMA AppendSound ==
  ASSUME Control, LogSound, NEW r \in wire, AppendBatch(r)
  PROVE  LogSound'
  <1>1. /\ up /\ log' = AppendedAll(log, r.items) /\ stored' = stored \o r.items /\ broken' = broken
    BY DEF AppendBatch, bounds
  <1> SUFFICES ASSUME "partial" \notin broken
               PROVE  Keeps(log', stored', "unsynced" \notin broken)
    BY <1>1 DEF LogSound
  <1>2. Keeps(log, stored, "unsynced" \notin broken)
    BY <1>1 DEF LogSound
  <1> DEFINE numbered == "unsynced" \notin broken
  <1>3. numbered \in BOOLEAN
    OBVIOUS
  <1> HIDE DEF numbered
  <1>4. Keeps(log, stored, numbered)
    BY <1>2 DEF numbered
  <1>5. Keeps(log', stored', numbered)
    BY <1>1, <1>3, <1>4, BatchKeeps
  <1> QED  BY <1>5 DEF numbered

LEMMA BreaksSound ==
  ASSUME Control, LogSound, NEW r \in wire, AppendBreaks(r)
  PROVE  LogSound'
  <1>1. PICK n \in 0..Len(r.items) - 1, failure \in Failures, steps \in 0..Archives + 1 :
           /\ log' = AppendFailed(AppendedAll(log, SubSeq(r.items, 1, n)), r.items[n + 1],
                                  failure, steps)
           /\ stored' = stored \o SubSeq(r.items, 1, n)
                        \o IF failure = "unsynced" THEN <<r.items[n + 1]>> ELSE <<>>
           /\ broken' = broken \cup {failure}
    BY Zenon DEF AppendBreaks
  <1>2. up
    BY DEF AppendBreaks
  <1> SUFFICES ASSUME "partial" \notin broken'
               PROVE  Keeps(log', stored', "unsynced" \notin broken')
    BY DEF LogSound
  <1> DEFINE numbered == "unsynced" \notin broken
             l == AppendedAll(log, SubSeq(r.items, 1, n))
             events == stored \o SubSeq(r.items, 1, n)
             e == r.items[n + 1]
  <1>3. numbered \in BOOLEAN /\ "partial" \notin broken /\ failure # "partial"
    BY <1>1
  <1>4. Keeps(log, stored, numbered)
    BY <1>2, <1>3 DEF LogSound
  <1> HIDE DEF numbered
  <1>5. r.items \in Seq(Events) /\ Len(r.items) \in Nat /\ n \in 0..Len(r.items)
    BY DEF Control, Types, WireTypes, Requests
  <1>6. Keeps(l, events, numbered) /\ events \in Seq(Events) /\ e \in Events
    BY <1>3, <1>4, <1>5, BatchKeeps
  <1>7. /\ log' = AppendFailed(l, e, failure, steps)
        /\ stored' = events \o IF failure = "unsynced" THEN <<e>> ELSE <<>>
    BY <1>1
  <1> HIDE DEF l, events, e
  <1>8. CASE failure = "rotation"
    <2>1. log' = [l EXCEPT !.files = Shifted(l.files, steps)]
      BY <1>7, <1>8 DEF AppendFailed
    <2>2. stored' = events
      BY <1>6, <1>7, <1>8, ConcatEmptySeq
    <2>3. Keeps(log', stored', numbered)
      BY <1>3, <1>6, <2>1, <2>2, ShiftedKeeps
    <2>4. ("unsynced" \notin broken') = numbered
      BY <1>1, <1>8 DEF numbered
    <2> QED  BY <2>3, <2>4
  <1>9. CASE failure = "unsynced"
    <2>1. log' = Writes(Roomy(l), Record(l, e))
      BY <1>7, <1>9 DEF AppendFailed, Roomy, Record
    <2>2. stored' = Append(events, e)
      BY <1>6, <1>7, <1>9, AppendIsConcat
    <2>3. Keeps(log', stored', FALSE)
      BY <1>3, <1>6, <2>1, <2>2, AppendedKeeps
    <2>4. ("unsynced" \notin broken') = FALSE
      BY <1>1, <1>9
    <2> QED  BY <2>3, <2>4
  <1> QED  BY <1>3, <1>8, <1>9 DEF Failures

LEMMA CrashSound ==
  ASSUME Control, LogSound, Crash
  PROVE  LogSound'
  <1>1. up /\ ~up' /\ broken' = broken
    BY DEF Crash
  <1>2. CASE UNCHANGED <<log, stored>>
    BY <1>1, <1>2, LogSoundSame
  <1>3. CASE \E r \in wire : \E n \in 0..Len(r.items) :
               LET before == SubSeq(r.items, 1, n)
                   whole == AppendedAll(log, before)
               IN  /\ log' = whole \/ log' = Writes(Roomy(whole), Partial)
                   /\ stored' = stored \o before
    <2> SUFFICES ASSUME "partial" \notin broken
                 PROVE  \E whole : /\ Keeps(whole, stored', "unsynced" \notin broken)
                                   /\ log' = whole \/ TornOf(log', whole)
      BY <1>1 DEF LogSound
    <2> DEFINE numbered == "unsynced" \notin broken
    <2>1. numbered \in BOOLEAN
      OBVIOUS
    <2>2. Keeps(log, stored, numbered)
      BY <1>1 DEF LogSound
    <2> HIDE DEF numbered
    <2>3. PICK r \in wire : \E n \in 0..Len(r.items) :
             LET before == SubSeq(r.items, 1, n)
                 whole == AppendedAll(log, before)
             IN  /\ log' = whole \/ log' = Writes(Roomy(whole), Partial)
                 /\ stored' = stored \o before
      BY <1>3
    <2>4. PICK n \in 0..Len(r.items) :
             LET before == SubSeq(r.items, 1, n)
                 whole == AppendedAll(log, before)
             IN  /\ log' = whole \/ log' = Writes(Roomy(whole), Partial)
                 /\ stored' = stored \o before
      BY <2>3
    <2> DEFINE l == AppendedAll(log, SubSeq(r.items, 1, n))
    <2>5. stored' \in Seq(Events) /\ Keeps(l, stored', numbered)
      BY <2>1, <2>2, <2>4, BatchKeeps
    <2>6. log' = l \/ log' = Writes(Roomy(l), Partial)
      BY <2>4
    <2> HIDE DEF l
    <2>7. CASE log' = l
      BY <2>5, <2>7 DEF numbered
    <2>8. CASE log' = Writes(Roomy(l), Partial)
      <3>1. TornOf(log', Roomy(l)) /\ Keeps(Roomy(l), stored', numbered)
        BY <2>1, <2>5, <2>8, TornWrite
      <3> QED  BY <3>1 DEF numbered
    <2> QED  BY <2>6, <2>7, <2>8
  <1>4. UNCHANGED <<log, stored>> \/
        \E r \in wire : \E n \in 0..Len(r.items) :
           LET before == SubSeq(r.items, 1, n)
               whole == AppendedAll(log, before)
           IN  /\ log' = whole \/ log' = Writes(Roomy(whole), Partial)
               /\ stored' = stored \o before
    <2>1. CASE UNCHANGED <<log, stored>>
      BY <2>1
    <2>2. CASE ~UNCHANGED <<log, stored>>
      <3>1. PICK r \in wire : \E n \in 0..Len(r.items), line \in BOOLEAN :
               LET before == SubSeq(r.items, 1, n)
                   whole == AppendedAll(log, before)
               IN  /\ log' = IF line /\ n < Len(r.items) THEN Writes(Roomy(whole), Partial) ELSE whole
                   /\ stored' = stored \o before
        BY <2>2 DEF Crash, Roomy
      <3>2. \E n \in 0..Len(r.items) :
               LET before == SubSeq(r.items, 1, n)
                   whole == AppendedAll(log, before)
               IN  /\ log' = whole \/ log' = Writes(Roomy(whole), Partial)
                   /\ stored' = stored \o before
        BY <3>1
      <3> QED  BY <3>2
    <2> QED  BY <2>1, <2>2
  <1> QED  BY <1>2, <1>3, <1>4

LEMMA RestartSound ==
  ASSUME Control, LogSound, Restart
  PROVE  LogSound'
  <1>1. /\ stored' = stored /\ broken' = broken
        /\ \E kept : log' = Recovered(log, kept)
    BY DEF Restart, bounds
  <1> SUFFICES ASSUME "partial" \notin broken
               PROVE  Keeps(log', stored', "unsynced" \notin broken)
    BY <1>1 DEF LogSound
  <1> DEFINE numbered == "unsynced" \notin broken
  <1>2. PICK whole : Keeps(whole, stored, numbered) /\ LeftOf(log, whole)
    BY DEF LogSound, LeftOf
  <1>3. numbered \in BOOLEAN /\ stored \in Seq(Events)
    BY DEF Control, Types, CoreTypes
  <1> HIDE DEF numbered
  <1>4. PICK kept : log' = Recovered(log, kept)
    BY <1>1
  <1>5. Keeps(Recovered(log, kept), stored, numbered)
    BY <1>2, <1>3, RecoveredKeeps
  <1>6. Keeps(log', stored', numbered)
    BY <1>1, <1>4, <1>5
  <1> QED  BY <1>6 DEF numbered

LEMMA LogSoundNext ==
  ASSUME Control, LogSound, Next
  PROVE  LogSound'
  <1>1. CASE Elsewhere
    BY <1>1, ElsewhereKeeps, LogSoundSame
  <1> QED  BY <1>1, LogSteps, AppendSound, BreaksSound, CrashSound, RestartSound

LEMMA LogSoundInit ==
  ASSUME Init
  PROVE  LogSound
  <1>1. LogType(log) /\ log.files = NoFiles /\ \A i \in Numbers : NoFiles[i] = <<>>
    BY LogTypeInit
  <1>2. log.files \in Files /\ Flat(log.files) \in Lines
    BY <1>1, FilesOf
  <1>3. AllRecords(log.files)
    BY <1>1 DEF AllRecords, Sound
  <1>4. Len(Flat(log.files)) = 0
    <2>1. \A i \in Numbers : Len(log.files[i]) = 0
      BY <1>1
    <2>2. 1..Len(Flat(log.files)) = {}
      BY <1>2, <2>1, FlatFrom
    <2>3. Len(Flat(log.files)) \in Nat
      BY <1>2 DEF Lines
    <2> DEFINE n == Len(Flat(log.files))
    <2>4. n \in Nat /\ 1..n = {}
      BY <2>2, <2>3
    <2> HIDE DEF n
    <2>5. n = 0
      <3>1. n >= 1 => 1 \in 1..n
        BY <2>4
      <3> QED  BY <2>4, <3>1
    <2> QED  BY <2>5 DEF n
  <1>5. stored = <<>> /\ Len(stored) = 0
    BY DEF Init
  <1>6. LastOf(Flat(log.files), stored) /\ Ascends(Flat(log.files), log.next)
    BY <1>4, <1>5 DEF LastOf, Ascends
  <1>7. Keeps(log, stored, "unsynced" \notin broken)
    BY <1>1, <1>3, <1>6 DEF Keeps
  <1> QED  BY <1>7 DEF LogSound

(* The records that a query finds.                                         *)
LEMMA KeptFirst ==
  ASSUME NEW T, NEW seq \in Seq(T), NEW S, NEW m \in 0..Len(seq),
         \A k \in 1..Len(seq) : seq[k] \in S <=> k <= m
  PROVE  Kept(seq, S) = SubSeq(seq, 1, m)
  <1>0. Len(seq) \in Nat /\ m \in Nat
    OBVIOUS
  <1>1. PICK kept :
          /\ kept[0] = << >>
          /\ \A n \in Nat : n + 1 <= Len(seq) =>
               kept[n + 1] = IF seq[n + 1] \in S THEN Append(kept[n], seq[n + 1]) ELSE kept[n]
          /\ Kept(seq, S) = kept[Len(seq)]
    BY <1>0, KeptDefined
  <1> DEFINE First(n) == SubSeq(seq, 1, IF n <= m THEN n ELSE m)
             Good == {n \in Nat : n <= Len(seq) => kept[n] = First(n)}
  <1>2. First(0) = <<>> /\ First(Len(seq)) = SubSeq(seq, 1, m)
    <2>1. (IF 0 <= m THEN 0 ELSE m) = 0 /\ (IF Len(seq) <= m THEN Len(seq) ELSE m) = m
      BY <1>0
    <2>2. SubSeq(seq, 1, 0) = <<>>
      BY SubSeqEmpty
    <2> QED  BY <2>1, <2>2
  <1>3. ASSUME NEW n \in Nat, n + 1 <= Len(seq)
        PROVE  /\ n + 1 <= m => First(n + 1) = Append(First(n), seq[n + 1])
               /\ ~(n + 1 <= m) => First(n + 1) = First(n)
    <2>1. CASE n + 1 <= m
      <3>1. (IF n <= m THEN n ELSE m) = n /\ (IF n + 1 <= m THEN n + 1 ELSE m) = n + 1
        BY <1>0, <2>1
      <3>2. SubSeq(seq, 1, n + 1) = SubSeq(seq, 1, (n + 1) - 1) \o <<seq[n + 1]>>
        <4>1. 1 \in 1..Len(seq) /\ n + 1 \in 1..Len(seq)
          BY <1>0, <1>3
        <4> QED  BY <1>0, <1>3, <4>1, SubSeqRecursiveSecond
      <3> DEFINE s == SubSeq(seq, 1, n)
                 x == seq[n + 1]
      <3>3. s \in Seq(T) /\ x \in T
        BY <1>0, <1>3, FirstLines
      <3>4. (n + 1) - 1 = n
        OBVIOUS
      <3>5. SubSeq(seq, 1, n + 1) = s \o <<x>>
        BY <3>2, <3>4
      <3> HIDE DEF s, x
      <3>6. SubSeq(seq, 1, n + 1) = Append(s, x)
        BY <3>3, <3>5, AppendIsConcat
      <3>7. First(n + 1) = Append(First(n), seq[n + 1])
        BY <3>1, <3>6 DEF s, x
      <3> QED  BY <2>1, <3>7
    <2>2. CASE ~(n + 1 <= m)
      <3>1. (IF n <= m THEN n ELSE m) = m /\ (IF n + 1 <= m THEN n + 1 ELSE m) = m
        BY <1>0, <2>2
      <3> QED  BY <2>2, <3>1
    <2> QED  BY <2>1, <2>2
  <1> HIDE DEF First
  <1>4. 0 \in Good
    BY <1>1, <1>2
  <1>5. ASSUME NEW n \in Nat, n \in Good
        PROVE  n + 1 \in Good
    <2> SUFFICES ASSUME n + 1 <= Len(seq) PROVE kept[n + 1] = First(n + 1)
      OBVIOUS
    <2>1. kept[n] = First(n)
      BY <1>0, <1>5
    <2>2. seq[n + 1] \in S <=> n + 1 <= m
      BY <1>0
    <2>3. kept[n + 1] = IF seq[n + 1] \in S THEN Append(kept[n], seq[n + 1]) ELSE kept[n]
      BY <1>1
    <2> QED  BY <1>3, <2>1, <2>2, <2>3
  <1> HIDE DEF Good
  <1>6. Len(seq) \in Good
    BY <1>0, <1>4, <1>5, NatSetInduction
  <1>7. kept[Len(seq)] = First(Len(seq))
    BY <1>0, <1>6 DEF Good
  <1> QED  BY <1>1, <1>2, <1>7

LEMMA RecordsAre ==
  ASSUME NEW whole, NEW events \in Seq(Events), NEW numbered \in BOOLEAN,
         Keeps(whole, events, numbered), LeftOf(log, whole)
  PROVE  Records(log) = Flat(whole.files) /\ Queryable(log)
  <1> DEFINE lines == Flat(log.files)
             good == Flat(whole.files)
             S == {line \in ToSet(lines) : IsRecord(line)}
             m == Len(good)
  <1>1. /\ LogType(log) /\ LogType(whole) /\ AllRecords(whole.files) /\ good \in Lines /\ lines \in Lines
        /\ log.files \in Files /\ whole.files \in Files /\ whole.files[0] \in Lines
    BY FilesOf DEF Keeps, LeftOf, TornOf
  <1>2. Records(log) = Kept(lines, S)
    BY DEF Records, Flat
  <1>3. Sound(good) /\ m \in Nat /\ DOMAIN lines = 1..Len(lines)
    <2>1. ASSUME NEW k \in 1..Len(good) PROVE IsRecord(good[k])
      <3>1. PICK i \in Numbers : \E j \in 1..Len(whole.files[i]) : good[k] = whole.files[i][j]
        BY <1>1, FlatFrom
      <3>2. whole.files[i] \in Lines /\ Sound(whole.files[i])
        BY <1>1 DEF Files, AllRecords
      <3>3. SoundTo(whole.files[i], Len(whole.files[i]))
        BY <3>2, SoundLines
      <3> QED  BY <3>1, <3>3 DEF SoundTo
    <2>2. SoundTo(good, Len(good))
      BY <2>1 DEF SoundTo
    <2>3. Sound(good)
      BY <1>1, <2>2, SoundLines
    <2> QED  BY <1>1, <2>3 DEF Lines
  <1>4. lines = good \/ lines = Append(good, Partial)
    <2>1. CASE log = whole
      BY <2>1
    <2>2. CASE TornOf(log, whole)
      <3> DEFINE end == Append(whole.files[0], Partial)
      <3>1. PICK u \in Lines : /\ good = Joined(u, whole.files[0])
                               /\ \A x \in Lines : Flat([whole.files EXCEPT ![0] = x]) = Joined(u, x)
        BY <1>1, FlatActive
      <3> DEFINE s == whole.files[0]
                 b == <<Partial>>
      <3>2. s \in Lines /\ b \in Lines /\ end = Joined(s, b) /\ end \in Lines
        <4>1. s \in Seq(LineType) /\ Partial \in LineType /\ end = Append(s, Partial)
          BY <1>1, LogConstants DEF Lines
        <4> HIDE DEF s, end
        <4>2. end = s \o <<Partial>> /\ end \in Seq(LineType) /\ <<Partial>> \in Seq(LineType)
          BY <4>1, AppendIsConcat, AppendProperties
        <4> QED  BY <4>1, <4>2 DEF Joined, Lines
      <3>3. log.files = [whole.files EXCEPT ![0] = end]
        BY <2>2 DEF TornOf
      <3> HIDE DEF end
      <3>4. lines = Joined(u, end)
        BY <3>1, <3>2, <3>3
      <3>5. good = Joined(u, s)
        BY <3>1
      <3> HIDE DEF lines, good, s, b
      <3>6. lines = Joined(good, b)
        BY <3>2, <3>4, <3>5, JoinedLines
      <3>7. lines = Append(good, Partial)
        BY <1>1, <3>6, LogConstants, AppendIsConcat DEF Joined, Lines, b
      <3> QED  BY <3>7
    <2> QED  BY <2>1, <2>2 DEF LeftOf
  <1> HIDE DEF lines, good
  <1>5. SoundTo(good, m)
    BY <1>1, <1>3, SoundLines
  <1>6. /\ m \in 0..Len(lines) /\ \A k \in 1..m : lines[k] = good[k]
        /\ \A k \in 1..Len(lines) : k <= m \/ lines[k] = Partial
    <2>1. CASE lines = good
      BY <1>3, <2>1
    <2>2. CASE lines = Append(good, Partial)
      <3>1. /\ Len(lines) = m + 1 /\ lines[m + 1] = Partial
            /\ \A k \in 1..m : lines[k] = good[k]
        BY <1>1, <2>2, LogConstants, AppendProperties DEF Lines
      <3> QED  BY <1>3, <3>1
    <2> QED  BY <1>4, <2>1, <2>2
  <1>7. \A k \in 1..Len(lines) : lines[k] \in S <=> k <= m
    <2> SUFFICES ASSUME NEW k \in 1..Len(lines) PROVE lines[k] \in S <=> k <= m
      OBVIOUS
    <2>1. lines[k] \in S <=> IsRecord(lines[k])
      BY <1>3 DEF ToSet
    <2>2. k <= m => IsRecord(lines[k])
      <3>1. k <= m => k \in 1..m
        BY <1>3
      <3> QED  BY <1>5, <1>6, <3>1 DEF SoundTo
    <2>3. ~(k <= m) => ~IsRecord(lines[k])
      BY <1>6 DEF IsRecord
    <2> QED  BY <2>1, <2>2, <2>3
  <1> HIDE DEF S
  <1>8. Kept(lines, S) = SubSeq(lines, 1, m)
    BY <1>1, <1>6, <1>7, KeptFirst DEF Lines
  <1>9. SubSeq(lines, 1, m) = good
    <2> DEFINE s == SubSeq(lines, 1, m)
    <2>1. s \in Seq(LineType) /\ Len(s) = m /\ \A k \in 1..m : s[k] = lines[k]
      BY <1>1, <1>6, FirstLines DEF Lines
    <2> HIDE DEF s
    <2>2. s = good
      BY <1>1, <1>6, <2>1, SeqEqual DEF Lines
    <2> QED  BY <2>2 DEF s
  <1>10. Queryable(log)
    <2> SUFFICES ASSUME NEW i \in Numbers PROVE Glued \notin ToSet(log.files[i])
      BY DEF Queryable
    <2>1. Sound(whole.files[i]) /\ whole.files[i] \in Lines
      BY <1>1 DEF AllRecords, Files
    <2>2. log.files[i] = whole.files[i] \/ (i = 0 /\ log.files[0] = Append(whole.files[0], Partial))
      BY <1>1 DEF LeftOf, TornOf, Files
    <2>3. CASE log.files[i] = whole.files[i]
      BY <2>1, <2>3 DEF Sound, IsRecord, ToSet
    <2>4. CASE i = 0 /\ log.files[0] = Append(whole.files[0], Partial)
      <3> DEFINE s == whole.files[0]
                 end == Append(s, Partial)
      <3>1. /\ end \in Lines /\ Len(end) = Len(s) + 1 /\ end[Len(s) + 1] = Partial
            /\ (\A k \in 1..Len(s) : end[k] = s[k]) /\ Len(s) \in Nat
        BY <1>1, LogConstants, AppendProperties DEF Lines
      <3>2. SoundTo(s, Len(s))
        BY <1>1, <2>1, <2>4, SoundLines
      <3> HIDE DEF s, end
      <3>3. \A k \in 1..Len(end) : end[k] # Glued
        <4>1. \A k \in 1..Len(s) + 1 : k = Len(s) + 1 \/ k \in 1..Len(s)
          BY <3>1
        <4> QED  BY <3>1, <3>2, <4>1, LogConstants DEF SoundTo, IsRecord
      <3>4. DOMAIN end = 1..Len(end)
        BY <3>1 DEF Lines
      <3>5. Glued \notin ToSet(end)
        BY <3>3, <3>4 DEF ToSet
      <3> QED  BY <2>4, <3>5 DEF end, s
    <2> QED  BY <2>2, <2>3, <2>4
  <1> QED  BY <1>2, <1>8, <1>9, <1>10 DEF good, lines

LEMMA SuffixIs ==
  ASSUME NEW s \in Seq(Events), NEW t \in Seq(Events), Len(s) <= Len(t),
         \A k \in 1..Len(s) : s[k] = t[Len(t) - Len(s) + k]
  PROVE  IsSuffix(s, t)
  <1> DEFINE p == Reverse(s)
             q == Reverse(t)
             n == Len(s)
             m == Len(t)
  <1>0. n \in Nat /\ m \in Nat /\ n <= m
    OBVIOUS
  <1>1. /\ p \in Seq(Events) /\ Len(p) = n /\ \A k \in 1..n : p[k] = s[(n - k) + 1]
        /\ q \in Seq(Events) /\ Len(q) = m /\ \A k \in 1..m : q[k] = t[(m - k) + 1]
    <2>1. \A k \in 1..n : (n - k) + 1 \in 1..n
      BY <1>0
    <2>2. \A k \in 1..m : (m - k) + 1 \in 1..m
      BY <1>0
    <2> QED  BY <1>0, <2>1, <2>2 DEF Reverse
  <1>2. ASSUME NEW k \in 1..n PROVE p[k] = q[k]
    <2>1. (n - k) + 1 \in 1..n /\ m - n + ((n - k) + 1) = (m - k) + 1 /\ k \in 1..m
      BY <1>0
    <2>2. s[(n - k) + 1] = t[m - n + ((n - k) + 1)]
      BY <2>1
    <2> QED  BY <1>1, <2>1, <2>2
  <1> HIDE DEF p, q, n, m
  <1>3. SubSeq(p, 1, n) = p
    BY <1>1, SubSeqFull
  <1>4. /\ SubSeq(q, 1, n) \in Seq(Events) /\ Len(SubSeq(q, 1, n)) = n
        /\ \A k \in 1..n : SubSeq(q, 1, n)[k] = q[k]
    BY <1>0, <1>1, FirstLines
  <1>5. SubSeq(q, 1, n) = p
    BY <1>1, <1>2, <1>4, SeqEqual
  <1>6. IsPrefix(p, q)
    BY <1>0, <1>1, <1>3, <1>5 DEF IsPrefix
  <1> QED  BY <1>6 DEF IsSuffix, p, q

(* What was written stays in the log, in its order, until it is rotated    *)
(* away, through crashes, restarts and appends that fail.                  *)
THEOREM LogAlwaysKept ==
  Spec => []LogKept
  <1>1. Init => LogSound
    BY LogSoundInit
  <1>2. Control /\ LogSound /\ [Next]_vars => LogSound'
    <2> SUFFICES ASSUME Control, LogSound, [Next]_vars PROVE LogSound'
      OBVIOUS
    <2>1. CASE Next
      BY <2>1, LogSoundNext
    <2>2. CASE UNCHANGED vars
      BY <2>2, LogSoundSame DEF vars, coreVars, bounds
    <2> QED  BY <2>1, <2>2
  <1>3. Control /\ LogSound => LogKept
    <2> SUFFICES ASSUME Control, LogSound, "partial" \notin broken PROVE LogKept
      BY DEF LogKept
    <2> DEFINE numbered == "unsynced" \notin broken
               lines == Records(log)
               recorded == [i \in DOMAIN lines |-> lines[i].event]
    <2>1. PICK whole : Keeps(whole, stored, numbered) /\ LeftOf(log, whole)
      BY DEF LogSound, LeftOf
    <2>2. numbered \in BOOLEAN /\ stored \in Seq(Events)
      BY DEF Control, Types, CoreTypes
    <2> HIDE DEF numbered
    <2>3. lines = Flat(whole.files) /\ Queryable(log)
      BY <2>1, <2>2, RecordsAre
    <2>4. /\ lines \in Lines /\ LastOf(lines, stored)
          /\ numbered => \A i, k \in 1..Len(lines) : i < k => lines[i].seq < lines[k].seq
      BY <2>1, <2>3, FilesOf DEF Keeps, Ascends
    <2> HIDE DEF lines
    <2>5. DOMAIN lines = 1..Len(lines) /\ Len(lines) \in Nat
      BY <2>4 DEF Lines
    <2>6. Len(lines) <= Len(stored) /\ Len(stored) \in Nat
      BY <2>2, <2>4 DEF LastOf
    <2>7. ASSUME NEW k \in 1..Len(lines)
          PROVE  /\ lines[k].event = stored[Len(stored) - Len(lines) + k]
                 /\ lines[k].event \in Events
      <3>1. Len(stored) - Len(lines) + k \in 1..Len(stored)
        BY <2>5, <2>6
      <3>2. lines[k].event = stored[Len(stored) - Len(lines) + k]
        BY <2>4 DEF LastOf
      <3> QED  BY <2>2, <3>1, <3>2
    <2>8. recorded \in Seq(Events) /\ Len(recorded) = Len(lines)
          /\ \A k \in 1..Len(lines) : recorded[k] = lines[k].event
      BY <2>5, <2>7
    <2> HIDE DEF recorded
    <2>9. IsSuffix(recorded, stored)
      BY <2>2, <2>6, <2>7, <2>8, SuffixIs
    <2>10. broken \cap {"partial", "unsynced"} = {} => numbered
      BY DEF numbered
    <2> QED  BY <2>3, <2>4, <2>5, <2>9, <2>10 DEF LogKept, recorded, lines
  <1> QED  BY <1>1, <1>2, <1>3, DeliveryInv, PTL DEF Spec
===============================================================================
