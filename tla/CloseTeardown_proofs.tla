-------------------------- MODULE CloseTeardown_proofs --------------------------
(***************************************************************************)
(* Proofs about the background close path, for any windows, plugins,       *)
(* rosters and subscribers.                                                *)
(***************************************************************************)
EXTENDS CloseTeardown, Selection_proofs

\* What a batch of the queue says of its window: the slices before the cursor have been
\* started, the plugins behind it are untouched, and every other VM is gone but that of the
\* slice in flight.
Before(b) == {b.snaps[k] : k \in 1..b.cursor}
Ahead(b) == {b.snaps[k] : k \in b.cursor + 1..Len(b.snaps)}

BatchOK(b, cast, told, ran, gone) ==
  /\ b.cursor \in 0..Len(b.snaps)
  /\ b.inFlight # NoSlice => b.cursor > 0 /\ b.snaps[b.cursor] = b.inFlight
  /\ b.inFlight \notin RawPlugins
  /\ \A k, l \in 1..Len(b.snaps) : b.snaps[k] = b.snaps[l] => k = l
  /\ \A k \in 1..Len(b.snaps) : b.snaps[k] \in cast
  /\ \A p \in cast \cap RawPlugins : \E k \in 1..Len(b.snaps) : b.snaps[k] = p
  /\ b.unload = told
  /\ \A p \in Plugins :
       /\ ran[p] = IF p \in Before(b) THEN 1 ELSE 0
       /\ gone[p] = IF p \in cast \ (RawPlugins \cup Ahead(b) \cup {b.inFlight}) THEN 1 ELSE 0

\* A queue holds one such batch of each closing window.
QueueOK(queue, state, cast, told, ran, gone) ==
  /\ queue \in Seq(Batch)
  /\ \A i, j \in 1..Len(queue) : queue[i].w = queue[j].w => i = j
  /\ \A i \in 1..Len(queue) : state[queue[i].w] = "closing"
  /\ \A w \in Windows : state[w] = "closing" => \E i \in 1..Len(queue) : queue[i].w = w
  /\ \A i \in 1..Len(queue) : LET w == queue[i].w
                              IN BatchOK(queue[i], cast[w], told[w], ran[w], gone[w])

QueueInv == QueueOK(closeQueue, window, roster, audience, deactivated, disposed)

\* Nothing has happened to an open window.
OpenUntouched ==
  \A w \in Windows : window[w] = "open" =>
    /\ \A p \in Plugins : deactivated[w][p] = 0 /\ disposed[w][p] = 0
    /\ overtaken[w] = {} /\ roster[w] = {}

\* A window that has been overtaken is ahead, in the queue, of those that overtook it.
Queued(queue, over) ==
  \A w \in Windows : \A v \in over[w] : \A i, j \in 1..Len(queue) :
    queue[i].w = w /\ queue[j].w = v => i < j
OvertakenWait ==
  \A w \in Windows : \A v \in overtaken[w] : window[w] = "closing" /\ window[v] # "open" /\ v # w

\* Whoever is to be told of a window has subscribed.
Subscribed == \A w \in Windows : \A s \in audience[w] : subscription[s] # "none"

Inv ==
  /\ TypeOK
  /\ QueueInv
  /\ OpenUntouched
  /\ TeardownInOrder
  /\ Subscribed
  /\ OvertakenWait /\ Queued(closeQueue, overtaken)

-----------------------------------------------------------------------------
\* The operators on queues.
LEMMA BatchHas ==
  ASSUME NEW b \in Batch
  PROVE  /\ b.w \in Windows /\ b.snaps \in Seq(Plugins) /\ b.unload \subseteq Subscribers
         /\ b.cursor \in Nat /\ b.inFlight \in Plugins \cup {NoSlice}
  BY DEF Batch

\* Rotate takes the i-th place out and puts b last.
LEMMA RotateProperties ==
  ASSUME NEW T, NEW q \in Seq(T), NEW i \in 1..Len(q), NEW b \in T
  PROVE  /\ Rotate(q, i, b) \in Seq(T)
         /\ Len(Rotate(q, i, b)) = Len(q)
         /\ \A k \in 1..Len(q) : Rotate(q, i, b)[k] =
              IF k < i THEN q[k] ELSE IF k < Len(q) THEN q[k + 1] ELSE b
<1> DEFINE front == SubSeq(q, 1, i - 1)
           back == SubSeq(q, i + 1, Len(q))
<1>0. Len(q) \in Nat /\ i \in Nat /\ 1 <= i /\ i <= Len(q)
  OBVIOUS
<1>1. /\ front \in Seq(T) /\ Len(front) = i - 1
      /\ \A k \in 1..i - 1 : front[k] = q[k]
  <2>1. \A k \in 1..i - 1 : q[k] \in T
    BY <1>0
  <2>2. /\ front \in Seq(T) /\ Len(front) = IF 1 <= i - 1 THEN (i - 1) - 1 + 1 ELSE 0
        /\ \A k \in 1..(i - 1) - 1 + 1 : front[k] = q[1 + k - 1]
    BY <1>0, <2>1, SubSeqProperties
  <2> QED
    BY <1>0, <2>2
<1>2. /\ back \in Seq(T) /\ Len(back) = Len(q) - i
      /\ \A k \in 1..Len(q) - i : back[k] = q[i + k]
  <2>1. \A k \in i + 1..Len(q) : q[k] \in T
    BY <1>0
  <2>2. /\ back \in Seq(T)
        /\ Len(back) = IF i + 1 <= Len(q) THEN Len(q) - (i + 1) + 1 ELSE 0
        /\ \A k \in 1..Len(q) - (i + 1) + 1 : back[k] = q[(i + 1) + k - 1]
    BY <1>0, <2>1, SubSeqProperties
  <2> QED
    BY <1>0, <2>2
<1> HIDE DEF front, back
<1>3. /\ front \o back \in Seq(T) /\ Len(front \o back) = Len(q) - 1
      /\ \A k \in 1..Len(q) - 1 : (front \o back)[k] = IF k < i THEN q[k] ELSE q[k + 1]
  <2>1. /\ front \o back \in Seq(T)
        /\ Len(front \o back) = Len(front) + Len(back)
        /\ \A k \in 1..Len(front) + Len(back) :
             (front \o back)[k] = IF k <= Len(front) THEN front[k] ELSE back[k - Len(front)]
    BY <1>1, <1>2, ConcatProperties
  <2> QED
    BY <1>0, <1>1, <1>2, <2>1
<1> DEFINE r == Append(front \o back, b)
<1>4. Rotate(q, i, b) = r
  BY DEF Rotate, RemoveAt, front, back
<1>5. /\ r \in Seq(T) /\ Len(r) = Len(q)
      /\ \A k \in 1..Len(q) - 1 : r[k] = (front \o back)[k]
      /\ r[Len(q)] = b
  BY <1>0, <1>3, AppendProperties
<1> HIDE DEF r
<1>6. \A k \in 1..Len(q) : r[k] = IF k < i THEN q[k] ELSE IF k < Len(q) THEN q[k + 1] ELSE b
  <2> SUFFICES ASSUME NEW k \in 1..Len(q)
               PROVE  r[k] = IF k < i THEN q[k] ELSE IF k < Len(q) THEN q[k + 1] ELSE b
    OBVIOUS
  <2>1. CASE k = Len(q)
    BY <1>0, <1>5, <2>1
  <2>2. CASE k # Len(q)
    <3>1. k \in 1..Len(q) - 1 /\ k < Len(q)
      BY <1>0, <2>2
    <3> QED
      BY <1>3, <1>5, <3>1
  <2> QED
    BY <2>1, <2>2
<1> QED
  BY <1>4, <1>5, <1>6

\* What TypeOK says of the queue.
LEMMA QueueTypes ==
  ASSUME NEW q, NEW state, NEW cast, NEW told, NEW ran, NEW gone,
         QueueOK(q, state, cast, told, ran, gone)
  PROVE  /\ q \in Seq(Batch)
         /\ \A i \in DOMAIN q :
              LET b == q[i]
              IN b.cursor <= Len(b.snaps) /\ (b.inFlight # NoSlice => b.snaps[b.cursor] = b.inFlight)
         /\ \A i, j \in DOMAIN q : q[i].w = q[j].w => i = j
         /\ {q[i].w : i \in DOMAIN q} = {w \in Windows : state[w] = "closing"}
<1>1. q \in Seq(Batch) /\ DOMAIN q = 1..Len(q)
  BY DEF QueueOK
<1>2. \A i \in DOMAIN q :
        LET b == q[i]
        IN b.cursor <= Len(b.snaps) /\ (b.inFlight # NoSlice => b.snaps[b.cursor] = b.inFlight)
  BY <1>1 DEF QueueOK, BatchOK
<1>3. \A i \in 1..Len(q) : q[i].w \in Windows
  BY <1>1, BatchHas
<1>4. {q[i].w : i \in DOMAIN q} = {w \in Windows : state[w] = "closing"}
  BY <1>1, <1>3 DEF QueueOK
<1> QED
  BY <1>1, <1>2, <1>4 DEF QueueOK

-----------------------------------------------------------------------------
LEMMA InitHasInv == Init => Inv
<1> SUFFICES ASSUME Init
             PROVE  Inv
  OBVIOUS
<1>1. /\ closeQueue = << >> /\ closeQueue \in Seq(Batch)
      /\ DOMAIN closeQueue = {} /\ 1..Len(closeQueue) = {}
  BY EmptySeq DEF Init
<1>2. TypeOK
  BY <1>1 DEF Init, TypeOK
<1>3. QueueInv
  BY <1>1 DEF Init, QueueInv, QueueOK
<1>4. OpenUntouched /\ TeardownInOrder /\ Subscribed
  BY DEF Init, OpenUntouched, TeardownInOrder, Subscribed
<1>5. OvertakenWait /\ Queued(closeQueue, overtaken)
  BY <1>1 DEF Init, OvertakenWait, Queued
<1> QED
  BY <1>2, <1>3, <1>4, <1>5 DEF Inv

LEMMA SubscribeKeeps ==
  ASSUME Inv, NEW s \in Subscribers, Subscribe(s) \/ Revoke(s)
  PROVE  Inv'
<1> DEFINE to == IF subscription[s] = "none" THEN "live" ELSE "gone"
<1>1. /\ subscription[s] \in {"none", "live"}
      /\ subscription' = [subscription EXCEPT ![s] = to]
      /\ UNCHANGED <<window, closeQueue, scheduled, roster, audience, deactivated, disposed,
                     unloaded, overtaken>>
  BY DEF Subscribe, Revoke, historyVars
<1>2. /\ subscription \in [Subscribers -> {"none", "live", "gone"}]
      /\ subscription' \in [Subscribers -> {"none", "live", "gone"}]
      /\ \A t \in Subscribers : subscription'[t] = IF t = s THEN to ELSE subscription[t]
  BY <1>1 DEF Inv, TypeOK
<1>3. TypeOK'
  BY <1>1, <1>2 DEF Inv, TypeOK
<1>4. QueueInv'
  BY <1>1 DEF Inv, QueueInv
<1>5. (OpenUntouched /\ OvertakenWait /\ Queued(closeQueue, overtaken))'
  BY <1>1 DEF Inv, OpenUntouched, OvertakenWait, Queued
<1>6. \A w \in Windows : \A t \in audience[w] : t \in Subscribers /\ subscription[t] # "none"
  <2>1. audience \in [Windows -> SUBSET Subscribers]
    BY DEF Inv, TypeOK
  <2>2. Subscribed
    BY DEF Inv
  <2> QED
    BY <2>1, <2>2 DEF Subscribed
<1>7. Subscribed'
  BY <1>1, <1>2, <1>6 DEF Subscribed
<1>8. TeardownInOrder'
  BY <1>1, <1>2, <1>6 DEF Inv, TeardownInOrder
<1> QED
  BY <1>3, <1>4, <1>5, <1>7, <1>8 DEF Inv

LEMMA DestroyedKeeps ==
  ASSUME Inv, NEW w \in Windows, Destroyed(w)
  PROVE  Inv'
<1>1. PICK r \in Rosters :
        /\ closeQueue' = Append(closeQueue, [w |-> w, snaps |-> r, unload |-> Live,
                                             cursor |-> 0, inFlight |-> NoSlice])
        /\ roster' = [roster EXCEPT ![w] = ToSet(r)]
  BY DEF Destroyed
<1>2. /\ window[w] = "open" /\ window' = [window EXCEPT ![w] = "closing"]
      /\ audience' = [audience EXCEPT ![w] = Live] /\ scheduled' = TRUE
      /\ UNCHANGED <<subscription, deactivated, disposed, unloaded, overtaken>>
  BY DEF Destroyed
<1>3. /\ r \in Seq(Plugins) /\ \A k, l \in 1..Len(r) : r[k] = r[l] => k = l
      /\ ToSet(r) = {r[k] : k \in 1..Len(r)} /\ ToSet(r) \subseteq Plugins
      /\ Len(r) \in Nat
  BY RostersAssumption DEF IsInjective, ToSet
<1>4. Live \subseteq Subscribers /\ \A s \in Live : subscription[s] = "live"
  BY DEF Live
<1> DEFINE b == [w |-> w, snaps |-> r, unload |-> Live, cursor |-> 0, inFlight |-> NoSlice]
           n == Len(closeQueue)
<1>5. b \in Batch
  BY <1>3, <1>4 DEF Batch
<1>6. /\ b.w = w /\ b.snaps = r /\ b.unload = Live /\ b.cursor = 0 /\ b.inFlight = NoSlice
  OBVIOUS
<1>7. /\ TypeOK /\ QueueInv /\ OpenUntouched /\ TeardownInOrder /\ Subscribed
      /\ OvertakenWait /\ Queued(closeQueue, overtaken)
  BY DEF Inv
<1>8. closeQueue \in Seq(Batch) /\ n \in Nat
  BY <1>7 DEF TypeOK
<1>9. closeQueue' = Append(closeQueue, b)
  BY <1>1
<1> HIDE DEF b
<1>10. /\ closeQueue' \in Seq(Batch) /\ Len(closeQueue') = n + 1
       /\ \A i \in 1..n : closeQueue'[i] = closeQueue[i] /\ closeQueue[i] \in Batch
       /\ closeQueue'[n + 1] = b
  BY <1>5, <1>8, <1>9, AppendProperties
<1> HIDE DEF n
<1>11. \A i \in 1..n + 1 : i \in 1..n \/ i = n + 1
  BY <1>8
<1>12. \A i \in 1..n : closeQueue[i].w \in Windows /\ closeQueue[i].w # w
  BY <1>2, <1>7, <1>10, BatchHas DEF QueueInv, QueueOK, n
<1>13. /\ window \in [Windows -> {"open", "closing", "unloaded"}]
       /\ roster \in [Windows -> SUBSET Plugins] /\ audience \in [Windows -> SUBSET Subscribers]
  BY <1>7 DEF TypeOK
<1>14. /\ window' \in [Windows -> {"open", "closing", "unloaded"}] /\ window'[w] = "closing"
       /\ roster' \in [Windows -> SUBSET Plugins] /\ roster'[w] = ToSet(r)
       /\ audience' \in [Windows -> SUBSET Subscribers] /\ audience'[w] = Live
       /\ \A v \in Windows \ {w} :
            window'[v] = window[v] /\ roster'[v] = roster[v] /\ audience'[v] = audience[v]
  BY <1>1, <1>2, <1>3, <1>4, <1>13
<1>15. QueueInv'
  <2>1. BatchOK(b, ToSet(r), Live, deactivated[w], disposed[w])
    <3>1. \A p \in Plugins : deactivated[w][p] = 0 /\ disposed[w][p] = 0
      BY <1>2, <1>7 DEF OpenUntouched
    <3>2. Before(b) = {} /\ Ahead(b) = ToSet(r)
      BY <1>3, <1>6 DEF Before, Ahead
    <3>3. NoSlice \notin RawPlugins
      BY RawAssumption, NoSliceAssumption
    <3> QED
      BY <1>3, <1>6, <3>1, <3>2, <3>3 DEF BatchOK
  <2>2. \A i, j \in 1..n + 1 : closeQueue'[i].w = closeQueue'[j].w => i = j
    BY <1>6, <1>7, <1>10, <1>11, <1>12 DEF QueueInv, QueueOK, n
  <2>3. \A i \in 1..n + 1 : window'[closeQueue'[i].w] = "closing"
    BY <1>6, <1>7, <1>10, <1>11, <1>12, <1>14 DEF QueueInv, QueueOK, n
  <2>4. \A v \in Windows : window'[v] = "closing" => \E i \in 1..n + 1 : closeQueue'[i].w = v
    <3> SUFFICES ASSUME NEW v \in Windows, window'[v] = "closing"
                 PROVE  \E i \in 1..n + 1 : closeQueue'[i].w = v
      OBVIOUS
    <3>1. CASE v = w
      BY <1>6, <1>8, <1>10, <3>1
    <3>2. CASE v # w
      <4>1. PICK i \in 1..n : closeQueue[i].w = v
        BY <1>7, <1>14, <3>2 DEF QueueInv, QueueOK, n
      <4>2. i \in 1..n + 1
        BY <1>8
      <4> QED
        BY <1>10, <4>1, <4>2
    <3> QED
      BY <3>1, <3>2
  <2>5. \A i \in 1..n + 1 : LET v == closeQueue'[i].w
          IN BatchOK(closeQueue'[i], roster'[v], audience'[v], deactivated'[v], disposed'[v])
    <3>1. \A i \in 1..n : LET v == closeQueue[i].w
            IN BatchOK(closeQueue[i], roster[v], audience[v], deactivated[v], disposed[v])
      BY <1>7 DEF QueueInv, QueueOK, n
    <3> QED
      BY <1>2, <1>6, <1>10, <1>11, <1>12, <1>14, <2>1, <3>1
  <2> QED
    BY <1>10, <2>2, <2>3, <2>4, <2>5 DEF QueueInv, QueueOK
<1>16. TypeOK'
  <2>1. QueueOK(closeQueue', window', roster', audience', deactivated', disposed')
    BY <1>15 DEF QueueInv
  <2>2. /\ closeQueue' \in Seq(Batch)
        /\ \A i \in DOMAIN closeQueue' :
             LET c == closeQueue'[i]
             IN c.cursor <= Len(c.snaps) /\ (c.inFlight # NoSlice => c.snaps[c.cursor] = c.inFlight)
        /\ \A i, j \in DOMAIN closeQueue' : closeQueue'[i].w = closeQueue'[j].w => i = j
        /\ {closeQueue'[i].w : i \in DOMAIN closeQueue'} = {v \in Windows : window'[v] = "closing"}
    BY <2>1, QueueTypes
  <2> QED
    BY <1>2, <1>7, <1>14, <2>2 DEF TypeOK
<1>17. OpenUntouched'
  BY <1>2, <1>7, <1>14 DEF OpenUntouched
<1>18. Subscribed'
  BY <1>2, <1>4, <1>7, <1>14 DEF Subscribed
<1>19. TeardownInOrder'
  BY <1>2, <1>7, <1>14 DEF TeardownInOrder
<1>20. OvertakenWait'
  BY <1>2, <1>7, <1>14 DEF OvertakenWait
<1>21. Queued(closeQueue', overtaken')
  <2> SUFFICES ASSUME NEW u \in Windows, NEW v \in overtaken[u],
                      NEW i \in 1..n + 1, NEW j \in 1..n + 1,
                      closeQueue'[i].w = u, closeQueue'[j].w = v
               PROVE  i < j
    BY <1>2, <1>10 DEF Queued
  <2>1. u # w /\ v # w
    BY <1>2, <1>7 DEF OvertakenWait
  <2>2. i \in 1..n /\ j \in 1..n
    BY <1>6, <1>10, <1>11, <2>1
  <2> QED
    BY <1>7, <1>10, <2>2 DEF Queued, n
<1> QED
  BY <1>15, <1>16, <1>17, <1>18, <1>19, <1>20, <1>21 DEF Inv

\* A step that only moves the plugins of some closing windows on, or takes them off the
\* queue, keeps the rest if it keeps QueueInv.
LEMMA SameQueueKeeps ==
  ASSUME Inv, QueueInv', Len(closeQueue') = Len(closeQueue),
         \A i \in 1..Len(closeQueue) : closeQueue'[i].w = closeQueue[i].w,
         UNCHANGED <<window, subscription, roster, audience, unloaded, overtaken>>,
         scheduled' \in BOOLEAN,
         deactivated' \in [Windows -> [Plugins -> Nat]],
         disposed' \in [Windows -> [Plugins -> Nat]],
         \A w \in Windows : window[w] # "closing" =>
            deactivated'[w] = deactivated[w] /\ disposed'[w] = disposed[w]
  PROVE  Inv'
<1>1. /\ TypeOK /\ QueueInv /\ OpenUntouched /\ TeardownInOrder /\ Subscribed
      /\ OvertakenWait /\ Queued(closeQueue, overtaken)
  BY DEF Inv
<1>2. TypeOK'
  <2>1. QueueOK(closeQueue', window', roster', audience', deactivated', disposed')
    BY DEF QueueInv
  <2>2. /\ closeQueue' \in Seq(Batch)
        /\ \A i \in DOMAIN closeQueue' :
             LET c == closeQueue'[i]
             IN c.cursor <= Len(c.snaps) /\ (c.inFlight # NoSlice => c.snaps[c.cursor] = c.inFlight)
        /\ \A i, j \in DOMAIN closeQueue' : closeQueue'[i].w = closeQueue'[j].w => i = j
        /\ {closeQueue'[i].w : i \in DOMAIN closeQueue'} = {v \in Windows : window'[v] = "closing"}
    BY <2>1, QueueTypes
  <2> QED
    BY <1>1, <2>2 DEF TypeOK
<1>3. OpenUntouched'
  <2> SUFFICES ASSUME NEW w \in Windows, window[w] = "open"
               PROVE  /\ \A p \in Plugins : deactivated'[w][p] = 0 /\ disposed'[w][p] = 0
                      /\ overtaken[w] = {} /\ roster[w] = {}
    BY DEF OpenUntouched
  <2>1. deactivated'[w] = deactivated[w] /\ disposed'[w] = disposed[w]
    OBVIOUS
  <2> QED
    BY <1>1, <2>1 DEF OpenUntouched
<1>6. Subscribed' /\ OvertakenWait'
  BY <1>1 DEF Subscribed, OvertakenWait
<1>4. Queued(closeQueue', overtaken')
  <2> SUFFICES ASSUME NEW w \in Windows, NEW v \in overtaken[w],
                      NEW i \in 1..Len(closeQueue), NEW j \in 1..Len(closeQueue),
                      closeQueue'[i].w = w, closeQueue'[j].w = v
               PROVE  i < j
    BY DEF Queued
  <2> QED
    BY <1>1 DEF Queued
<1>5. TeardownInOrder'
  <2>1. \A w \in Windows, p \in Plugins : deactivated'[w][p] <= 1 /\ disposed'[w][p] <= 1
    <3> SUFFICES ASSUME NEW w \in Windows, NEW p \in Plugins
                 PROVE  deactivated'[w][p] <= 1 /\ disposed'[w][p] <= 1
      OBVIOUS
    <3>1. CASE window[w] # "closing"
      BY <1>1, <3>1 DEF TeardownInOrder
    <3>2. CASE window[w] = "closing"
      <4>1. PICK i \in 1..Len(closeQueue') : closeQueue'[i].w = w
        BY <3>2 DEF QueueInv, QueueOK
      <4>2. BatchOK(closeQueue'[i], roster'[w], audience'[w], deactivated'[w], disposed'[w])
        BY <4>1 DEF QueueInv, QueueOK
      <4>3. deactivated'[w][p] \in {0, 1} /\ disposed'[w][p] \in {0, 1}
        BY <4>2 DEF BatchOK
      <4> QED
        BY <4>3
    <3> QED
      BY <3>1, <3>2
  <2>2. \A w \in Windows : window[w] = "unloaded" =>
          deactivated'[w] = deactivated[w] /\ disposed'[w] = disposed[w]
    OBVIOUS
  <2> QED
    BY <1>1, <2>1, <2>2 DEF TeardownInOrder
<1> QED
  BY <1>1, <1>2, <1>3, <1>4, <1>5, <1>6 DEF Inv

LEMMA SliceEndsKeeps ==
  ASSUME Inv, NEW w \in Windows, SliceEnds(w)
  PROVE  Inv'
<1> DEFINE n == Len(closeQueue)
<1>1. /\ TypeOK /\ QueueInv
      /\ closeQueue \in Seq(Batch) /\ n \in Nat /\ DOMAIN closeQueue = 1..n
  BY DEF Inv, TypeOK
<1>2. PICK i \in 1..n :
        /\ closeQueue[i].w = w /\ closeQueue[i].inFlight # NoSlice
        /\ closeQueue' = ReplaceAt(closeQueue, i, [closeQueue[i] EXCEPT !.inFlight = NoSlice])
        /\ disposed' = [disposed EXCEPT ![w][closeQueue[i].inFlight] = @ + 1]
        /\ scheduled' = Wakes([closeQueue[i] EXCEPT !.inFlight = NoSlice])
        /\ UNCHANGED <<window, subscription, roster, audience, deactivated, unloaded, overtaken>>
  BY <1>1 DEF SliceEnds
<1> DEFINE b == closeQueue[i]
           ended == [b EXCEPT !.inFlight = NoSlice]
           p == b.inFlight
<1>3. b \in Batch /\ b.w = w /\ p \in Plugins /\ b.snaps \in Seq(Plugins) /\ b.cursor \in Nat
  BY <1>1, <1>2, BatchHas
<1>4. /\ ended \in Batch /\ ended.w = w /\ ended.snaps = b.snaps /\ ended.unload = b.unload
      /\ ended.cursor = b.cursor /\ ended.inFlight = NoSlice
  BY <1>2, <1>3 DEF Batch
<1>5. BatchOK(b, roster[w], audience[w], deactivated[w], disposed[w])
  BY <1>1, <1>2 DEF QueueInv, QueueOK
<1>6. /\ Len(closeQueue') = n /\ closeQueue' \in Seq(Batch)
      /\ \A k \in 1..n : closeQueue'[k] = IF k = i THEN ended ELSE closeQueue[k]
  BY <1>1, <1>2, <1>4, ExceptSeq DEF ReplaceAt
<1>7. /\ disposed \in [Windows -> [Plugins -> Nat]]
      /\ disposed' \in [Windows -> [Plugins -> Nat]]
      /\ \A v \in Windows : v # w => disposed'[v] = disposed[v]
      /\ \A q \in Plugins : disposed'[w][q] = IF q = p THEN disposed[w][p] + 1 ELSE disposed[w][q]
  BY <1>1, <1>2, <1>3 DEF TypeOK
<1> HIDE DEF ended
<1>8. BatchOK(ended, roster[w], audience[w], deactivated[w], disposed'[w])
  <2>1. Before(ended) = Before(b) /\ Ahead(ended) = Ahead(b)
    BY <1>4 DEF Before, Ahead
  <2>2. /\ b.cursor \in 1..Len(b.snaps) /\ b.snaps[b.cursor] = p
        /\ p \in roster[w] /\ p \notin RawPlugins
    BY <1>2, <1>3, <1>5 DEF BatchOK
  <2>3. p \notin Ahead(b)
    <3> SUFFICES ASSUME NEW k \in b.cursor + 1..Len(b.snaps), b.snaps[k] = p
                 PROVE  FALSE
      BY DEF Ahead
    <3>1. k \in 1..Len(b.snaps) /\ k # b.cursor
      BY <1>3
    <3> QED
      BY <1>5, <2>2, <3>1 DEF BatchOK
  <2>4. \A q \in Plugins :
          disposed'[w][q] = IF q \in roster[w] \ (RawPlugins \cup Ahead(b) \cup {NoSlice})
                            THEN 1 ELSE 0
    BY <1>5, <1>7, <2>2, <2>3, NoSliceAssumption DEF BatchOK
  <2>5. NoSlice \notin RawPlugins
    BY NoSliceAssumption, RawAssumption
  <2> QED
    BY <1>4, <1>5, <2>1, <2>4, <2>5 DEF BatchOK
<1>9. QueueInv'
  <2>1. \A k \in 1..n : closeQueue'[k].w = closeQueue[k].w
    BY <1>2, <1>4, <1>6
  <2>2. \A k \in 1..n : k # i => closeQueue[k].w # w /\ closeQueue[k].w \in Windows
    BY <1>1, <1>2, BatchHas DEF QueueInv, QueueOK
  <2>3. \A k \in 1..n : LET v == closeQueue'[k].w
          IN BatchOK(closeQueue'[k], roster'[v], audience'[v], deactivated'[v], disposed'[v])
    <3> SUFFICES ASSUME NEW k \in 1..n
                 PROVE  LET v == closeQueue'[k].w
                        IN BatchOK(closeQueue'[k], roster[v], audience[v], deactivated[v], disposed'[v])
      BY <1>2
    <3>1. CASE k = i
      BY <1>4, <1>6, <1>8, <3>1
    <3>2. CASE k # i
      BY <1>1, <1>6, <1>7, <2>2, <3>2 DEF QueueInv, QueueOK
    <3> QED
      BY <3>1, <3>2
  <2>4. /\ \A j, k \in 1..n : closeQueue'[j].w = closeQueue'[k].w => j = k
        /\ \A k \in 1..n : window'[closeQueue'[k].w] = "closing"
        /\ \A v \in Windows : window'[v] = "closing" => \E k \in 1..n : closeQueue'[k].w = v
    BY <1>1, <1>2, <2>1 DEF QueueInv, QueueOK
  <2> QED
    BY <1>6, <2>3, <2>4 DEF QueueInv, QueueOK
<1>10. scheduled' \in BOOLEAN
  BY <1>2 DEF Wakes
<1>11. window[w] = "closing"
  BY <1>1, <1>2 DEF QueueInv, QueueOK
<1>12. \A k \in 1..n : closeQueue'[k].w = closeQueue[k].w
  BY <1>2, <1>4, <1>6
<1> QED
  BY <1>1, <1>2, <1>6, <1>7, <1>9, <1>10, <1>11, <1>12, SameQueueKeeps DEF TypeOK

\* Of the plugins not started, Unswept keeps the raw ones.
LEMMA UnsweptProperties ==
  ASSUME NEW s \in Seq(Plugins), NEW c \in 0..Len(s),
         \A k, l \in 1..Len(s) : s[k] = s[l] => k = l
  PROVE  LET r == Unswept(s, c) IN
         /\ r \in Seq(Plugins) /\ c <= Len(r)
         /\ \A k \in 1..c : r[k] = s[k]
         /\ \A k \in c + 1..Len(r) : \E l \in c + 1..Len(s) : r[k] = s[l] /\ s[l] \in RawPlugins
         /\ \A l \in c + 1..Len(s) : s[l] \in RawPlugins => \E k \in c + 1..Len(r) : r[k] = s[l]
         /\ \A k, l \in 1..Len(r) : r[k] = r[l] => k = l
<1> DEFINE front == SubSeq(s, 1, c)
           tail == SubSeq(s, c + 1, Len(s))
           raw == Kept(tail, RawPlugins)
           r == Unswept(s, c)
<1>0. Len(s) \in Nat /\ c \in Nat /\ c <= Len(s)
  OBVIOUS
<1>1. /\ front \in Seq(Plugins) /\ Len(front) = c /\ \A k \in 1..c : front[k] = s[k]
  <2>1. \A k \in 1..c : s[k] \in Plugins
    BY <1>0
  <2>2. /\ front \in Seq(Plugins) /\ Len(front) = IF 1 <= c THEN c - 1 + 1 ELSE 0
        /\ \A k \in 1..c - 1 + 1 : front[k] = s[1 + k - 1]
    BY <1>0, <2>1, SubSeqProperties
  <2> QED
    BY <1>0, <2>2
<1>2. /\ tail \in Seq(Plugins) /\ Len(tail) = Len(s) - c
      /\ \A k \in 1..Len(s) - c : tail[k] = s[c + k]
  <2>1. \A k \in c + 1..Len(s) : s[k] \in Plugins
    BY <1>0
  <2>2. /\ tail \in Seq(Plugins)
        /\ Len(tail) = IF c + 1 <= Len(s) THEN Len(s) - (c + 1) + 1 ELSE 0
        /\ \A k \in 1..Len(s) - (c + 1) + 1 : tail[k] = s[(c + 1) + k - 1]
    BY <1>0, <2>1, SubSeqProperties
  <2> QED
    BY <1>0, <2>2
<1> HIDE DEF front, tail
<1>3. raw \in Seq(Plugins) /\ \E f : Lists(f, raw, tail, RawPlugins, Len(tail))
  BY <1>2, KeptProperties
<1>4. PICK f : Lists(f, raw, tail, RawPlugins, Len(tail))
  BY <1>3
<1> HIDE DEF raw
<1>5. Len(raw) \in Nat
  BY <1>3
<1>6. /\ \A k \in 1..Len(raw) : /\ f[k] \in 1..Len(s) - c /\ raw[k] = s[c + f[k]]
                               /\ raw[k] \in RawPlugins
      /\ \A k, l \in 1..Len(raw) : k < l => f[k] < f[l]
      /\ \A i \in 1..Len(s) - c : s[c + i] \in RawPlugins => \E k \in 1..Len(raw) : f[k] = i
  BY <1>2, <1>4 DEF Lists
<1>7. /\ r \in Seq(Plugins) /\ Len(r) = c + Len(raw)
      /\ \A k \in 1..c + Len(raw) : r[k] = IF k <= c THEN s[k] ELSE raw[k - c]
  <2>1. r = front \o raw
    BY DEF Unswept, front, tail, raw
  <2>2. /\ front \o raw \in Seq(Plugins) /\ Len(front \o raw) = Len(front) + Len(raw)
        /\ \A k \in 1..Len(front) + Len(raw) :
             (front \o raw)[k] = IF k <= Len(front) THEN front[k] ELSE raw[k - Len(front)]
    BY <1>1, <1>3, ConcatProperties
  <2> QED
    BY <1>0, <1>1, <1>5, <2>1, <2>2
<1> HIDE DEF r
<1>8. \A k \in 1..c : r[k] = s[k]
  BY <1>0, <1>5, <1>7
\* The place in s of the k-th element of r.
<1> DEFINE place == [k \in 1..Len(r) |-> IF k <= c THEN k ELSE c + f[k - c]]
<1>9. \A k \in 1..Len(r) : place[k] = IF k <= c THEN k ELSE c + f[k - c]
  OBVIOUS
<1> HIDE DEF place
<1>10. Len(r) \in Nat
  BY <1>7
<1>11. ASSUME NEW k \in 1..Len(r)
      PROVE  /\ place[k] \in 1..Len(s) /\ r[k] = s[place[k]]
             /\ k > c => place[k] \in c + 1..Len(s) /\ r[k] \in RawPlugins
  <2>1. CASE k <= c
    BY <1>0, <1>7, <1>8, <1>9, <2>1
  <2>2. CASE k > c
    <3>1. k - c \in 1..Len(raw) /\ r[k] = raw[k - c]
      BY <1>0, <1>5, <1>7, <2>2
    <3>2. f[k - c] \in 1..Len(s) - c /\ raw[k - c] = s[c + f[k - c]] /\ raw[k - c] \in RawPlugins
      BY <1>6, <3>1
    <3> QED
      BY <1>0, <1>9, <2>2, <3>1, <3>2
  <2> QED
    BY <1>0, <2>1, <2>2
<1>12. \A k \in 1..Len(r) : k > c => place[k] \in c + 1..Len(s) /\ r[k] \in RawPlugins
  BY <1>11
<1>13. \A k \in 1..Len(r) : place[k] \in 1..Len(s) /\ r[k] = s[place[k]]
  BY <1>11
<1>14. \A k, l \in 1..Len(r) : k < l => place[k] < place[l]
  <2> SUFFICES ASSUME NEW k \in 1..Len(r), NEW l \in 1..Len(r), k < l
               PROVE  place[k] < place[l]
    OBVIOUS
  <2>1. CASE l <= c
    BY <1>0, <1>9, <2>1
  <2>2. CASE k <= c /\ c < l
    <3>1. place[k] = k /\ place[l] \in c + 1..Len(s)
      BY <1>0, <1>12, <1>9, <1>10, <2>2
    <3> QED
      BY <1>0, <2>2, <3>1
  <2>3. CASE c < k
    <3>1. k - c \in 1..Len(raw) /\ l - c \in 1..Len(raw) /\ k - c < l - c
      BY <1>0, <1>5, <1>7, <2>3
    <3>2. f[k - c] < f[l - c] /\ f[k - c] \in Nat /\ f[l - c] \in Nat
      BY <1>0, <1>6, <3>1
    <3> QED
      BY <1>0, <1>9, <2>3, <3>2
  <2> QED
    BY <1>0, <1>5, <1>7, <2>1, <2>2, <2>3
<1>15. \A l \in c + 1..Len(s) : s[l] \in RawPlugins => \E k \in c + 1..Len(r) : r[k] = s[l]
  <2> SUFFICES ASSUME NEW l \in c + 1..Len(s), s[l] \in RawPlugins
               PROVE  \E k \in c + 1..Len(r) : r[k] = s[l]
    OBVIOUS
  <2>1. l - c \in 1..Len(s) - c /\ c + (l - c) = l
    BY <1>0
  <2>2. PICK k \in 1..Len(raw) : f[k] = l - c
    BY <1>6, <2>1
  <2>3. raw[k] = s[l]
    BY <1>6, <2>1, <2>2
  <2>4. c + k \in c + 1..Len(r) /\ c + k \in 1..c + Len(raw) /\ ~(c + k <= c) /\ (c + k) - c = k
    BY <1>0, <1>5, <1>7
  <2>5. r[c + k] = raw[k]
    BY <1>7, <2>4
  <2> QED
    BY <2>3, <2>4, <2>5
<1>16. \A k, l \in 1..Len(r) : r[k] = r[l] => k = l
  <2> SUFFICES ASSUME NEW k \in 1..Len(r), NEW l \in 1..Len(r), r[k] = r[l]
               PROVE  k = l
    OBVIOUS
  <2>1. place[k] = place[l]
    BY <1>13
  <2>2. place[k] \in Nat /\ ~(k < l) /\ ~(l < k)
    BY <1>0, <1>13, <1>14, <1>10, <2>1
  <2> QED
    BY <1>0, <1>5, <1>7, <2>2
<1>17. \A k \in c + 1..Len(r) : \E l \in c + 1..Len(s) : r[k] = s[l] /\ s[l] \in RawPlugins
  <2> SUFFICES ASSUME NEW k \in c + 1..Len(r)
               PROVE  \E l \in c + 1..Len(s) : r[k] = s[l] /\ s[l] \in RawPlugins
    OBVIOUS
  <2>1. k \in 1..Len(r) /\ k > c
    BY <1>0, <1>5, <1>7
  <2>2. place[k] \in c + 1..Len(s) /\ r[k] = s[place[k]] /\ r[k] \in RawPlugins
    BY <1>0, <1>12, <1>13, <1>10, <2>1
  <2> QED
    BY <2>2
<1>18. c <= Len(r)
  BY <1>0, <1>5, <1>7
<1> QED
  BY <1>7, <1>8, <1>15, <1>16, <1>17, <1>18 DEF r

\* The sweep of one batch disposes of exactly the VMs it takes out of it.
LEMMA SweptBatch ==
  ASSUME NEW b \in Batch, NEW cast, NEW told, NEW ran, NEW gone, NEW less,
         BatchOK(b, cast, told, ran, gone),
         \A p \in Plugins : less[p] = gone[p] + (IF p \in Ahead(b) \ RawPlugins THEN 1 ELSE 0)
  PROVE  LET c == [b EXCEPT !.snaps = Unswept(@, b.cursor)]
         IN c \in Batch /\ c.w = b.w /\ BatchOK(c, cast, told, ran, less)
<1> DEFINE c == [b EXCEPT !.snaps = Unswept(@, b.cursor)]
           r == Unswept(b.snaps, b.cursor)
           s == b.snaps
           n == b.cursor
<1>1. s \in Seq(Plugins) /\ n \in 0..Len(s) /\ \A k, l \in 1..Len(s) : s[k] = s[l] => k = l
  BY BatchHas DEF BatchOK
<1>2. /\ r \in Seq(Plugins) /\ n <= Len(r)
      /\ \A k \in 1..n : r[k] = s[k]
      /\ \A k \in n + 1..Len(r) : \E l \in n + 1..Len(s) : r[k] = s[l] /\ s[l] \in RawPlugins
      /\ \A l \in n + 1..Len(s) : s[l] \in RawPlugins => \E k \in n + 1..Len(r) : r[k] = s[l]
      /\ \A k, l \in 1..Len(r) : r[k] = r[l] => k = l
  BY <1>1, UnsweptProperties
<1>3. /\ c \in Batch /\ c.w = b.w /\ c.snaps = r /\ c.unload = b.unload
      /\ c.cursor = n /\ c.inFlight = b.inFlight
  BY <1>2 DEF Batch
<1> HIDE DEF c, r
<1>4. Len(s) \in Nat /\ Len(r) \in Nat /\ n \in Nat
  BY <1>1, <1>2
<1>5. Before(c) = Before(b)
  BY <1>2, <1>3 DEF Before
<1>6. Ahead(c) = Ahead(b) \cap RawPlugins
  <2>1. ASSUME NEW p \in Ahead(c)
        PROVE  p \in Ahead(b) \cap RawPlugins
    BY <1>2, <1>3 DEF Ahead
  <2>2. ASSUME NEW p \in Ahead(b) \cap RawPlugins
        PROVE  p \in Ahead(c)
    <3>1. PICK l \in n + 1..Len(s) : p = s[l]
      BY DEF Ahead
    <3>2. PICK k \in n + 1..Len(r) : r[k] = s[l]
      BY <1>2, <3>1
    <3> QED
      BY <1>3, <3>1, <3>2 DEF Ahead
  <2> QED
    BY <2>1, <2>2
<1>7. \A k \in 1..Len(r) : r[k] \in cast
  <2>1. \A k \in 1..Len(r) : k \in 1..n \/ k \in n + 1..Len(r)
    BY <1>4
  <2>2. 1..n \subseteq 1..Len(s) /\ n + 1..Len(s) \subseteq 1..Len(s)
    BY <1>1, <1>4
  <2>3. \A l \in 1..Len(s) : s[l] \in cast
    BY DEF BatchOK
  <2> QED
    BY <1>2, <2>1, <2>2, <2>3
<1>8. \A p \in cast \cap RawPlugins : \E k \in 1..Len(r) : r[k] = p
  <2> SUFFICES ASSUME NEW p \in cast \cap RawPlugins
               PROVE  \E k \in 1..Len(r) : r[k] = p
    OBVIOUS
  <2>1. PICK l \in 1..Len(s) : s[l] = p
    BY DEF BatchOK
  <2>2. CASE l <= n
    <3>1. l \in 1..n /\ l \in 1..Len(r)
      BY <1>1, <1>2, <1>4, <2>2
    <3> QED
      BY <1>2, <2>1, <3>1
  <2>3. CASE l > n
    <3>1. l \in n + 1..Len(s)
      BY <1>4, <2>3
    <3>2. PICK k \in n + 1..Len(r) : r[k] = s[l]
      BY <1>2, <2>1, <3>1
    <3>3. k \in 1..Len(r)
      BY <1>4
    <3> QED
      BY <2>1, <3>2, <3>3
  <2> QED
    BY <1>4, <2>2, <2>3
<1>9. b.inFlight # NoSlice => b.cursor > 0 /\ r[n] = b.inFlight
  <2> SUFFICES ASSUME b.inFlight # NoSlice
               PROVE  n > 0 /\ r[n] = b.inFlight
    OBVIOUS
  <2>1. n > 0 /\ s[n] = b.inFlight
    BY DEF BatchOK
  <2>2. n \in 1..n
    BY <1>4, <2>1
  <2> QED
    BY <1>2, <2>1, <2>2
<1>10. \A p \in Plugins :
         less[p] = IF p \in cast \ (RawPlugins \cup Ahead(c) \cup {b.inFlight}) THEN 1 ELSE 0
  <2> SUFFICES ASSUME NEW p \in Plugins
               PROVE  less[p] = IF p \in cast \ (RawPlugins \cup Ahead(c) \cup {b.inFlight})
                                THEN 1 ELSE 0
    OBVIOUS
  <2>1. gone[p] = IF p \in cast \ (RawPlugins \cup Ahead(b) \cup {b.inFlight}) THEN 1 ELSE 0
    BY DEF BatchOK
  <2>2. p \in Ahead(b) => p \in cast /\ p # b.inFlight
    <3> SUFFICES ASSUME NEW k \in n + 1..Len(s), p = s[k]
                 PROVE  p \in cast /\ p # b.inFlight
      BY DEF Ahead
    <3>1. k \in 1..Len(s) /\ k # n
      BY <1>1, <1>4
    <3>2. p \in cast
      BY <3>1 DEF BatchOK
    <3>3. CASE b.inFlight = NoSlice
      BY <3>2, <3>3, NoSliceAssumption
    <3>4. CASE b.inFlight # NoSlice
      <4>1. s[n] = b.inFlight /\ n \in 1..Len(s)
        BY <1>1, <1>4, <3>4 DEF BatchOK
      <4> QED
        BY <1>1, <3>1, <3>2, <4>1
    <3> QED
      BY <3>3, <3>4
  <2> QED
    BY <1>6, <2>1, <2>2
<1>11. BatchOK(c, cast, told, ran, less)
  <2>1. /\ n \in 0..Len(r) /\ b.inFlight \notin RawPlugins /\ b.unload = told
        /\ \A p \in Plugins : ran[p] = IF p \in Before(b) THEN 1 ELSE 0
    BY <1>2, <1>4 DEF BatchOK
  <2> QED
    BY <1>2, <1>3, <1>5, <1>7, <1>8, <1>9, <1>10, <2>1 DEF BatchOK
<1> QED
  BY <1>3, <1>11 DEF c

LEMMA WillQuitKeeps ==
  ASSUME Inv, WillQuit
  PROVE  Inv'
<1> DEFINE n == Len(closeQueue)
           SweptOf(w) == UNION {{b.snaps[k] : k \in Swept(b)} : b \in {x \in ToSet(closeQueue) : x.w = w}}
<1>1. /\ TypeOK /\ QueueInv
      /\ closeQueue \in Seq(Batch) /\ n \in Nat /\ DOMAIN closeQueue = 1..n
  BY DEF Inv, TypeOK
<1>2. /\ closeQueue' = [i \in 1..n |->
                         [closeQueue[i] EXCEPT !.snaps = Unswept(@, closeQueue[i].cursor)]]
      /\ disposed' = [w \in Windows |-> [p \in Plugins |->
                        disposed[w][p] + (IF p \in SweptOf(w) THEN 1 ELSE 0)]]
      /\ scheduled' \in BOOLEAN
      /\ UNCHANGED <<window, subscription, roster, audience, deactivated, unloaded, overtaken>>
  BY <1>1 DEF WillQuit, TypeOK
<1>3. \A i \in 1..n : closeQueue[i] \in Batch /\ closeQueue[i].w \in Windows
  BY <1>1, BatchHas
<1>4. \A i \in 1..n : SweptOf(closeQueue[i].w) = Ahead(closeQueue[i]) \ RawPlugins
  <2> SUFFICES ASSUME NEW i \in 1..n
               PROVE  SweptOf(closeQueue[i].w) = Ahead(closeQueue[i]) \ RawPlugins
    OBVIOUS
  <2>1. {x \in ToSet(closeQueue) : x.w = closeQueue[i].w} = {closeQueue[i]}
    BY <1>1 DEF ToSet, QueueInv, QueueOK
  <2>2. SweptOf(closeQueue[i].w) = {closeQueue[i].snaps[k] : k \in Swept(closeQueue[i])}
    BY <2>1
  <2>3. /\ closeQueue[i].snaps \in Seq(Plugins) /\ closeQueue[i].cursor \in Nat
        /\ DOMAIN closeQueue[i].snaps = 1..Len(closeQueue[i].snaps)
    BY <1>3, BatchHas
  <2>4. \A k : k \in Swept(closeQueue[i]) <=>
                /\ k \in closeQueue[i].cursor + 1..Len(closeQueue[i].snaps)
                /\ closeQueue[i].snaps[k] \notin RawPlugins
    BY <2>3 DEF Swept
  <2> QED
    BY <2>2, <2>4 DEF Ahead
<1>5. \A w \in Windows : window[w] # "closing" => SweptOf(w) = {}
  BY <1>1 DEF ToSet, QueueInv, QueueOK
<1> HIDE DEF SweptOf
<1>6. /\ disposed \in [Windows -> [Plugins -> Nat]]
      /\ disposed' \in [Windows -> [Plugins -> Nat]]
      /\ \A w \in Windows, p \in Plugins :
           disposed'[w][p] = disposed[w][p] + (IF p \in SweptOf(w) THEN 1 ELSE 0)
  BY <1>1, <1>2 DEF TypeOK
<1>7. \A w \in Windows : window[w] # "closing" => disposed'[w] = disposed[w]
  BY <1>5, <1>6
<1>8. \A i \in 1..n : LET c == closeQueue'[i] IN
         /\ c \in Batch /\ c.w = closeQueue[i].w
         /\ BatchOK(c, roster[c.w], audience[c.w], deactivated[c.w], disposed'[c.w])
  <2> SUFFICES ASSUME NEW i \in 1..n
               PROVE  LET c == closeQueue'[i] IN
                      /\ c \in Batch /\ c.w = closeQueue[i].w
                      /\ BatchOK(c, roster[c.w], audience[c.w], deactivated[c.w], disposed'[c.w])
    OBVIOUS
  <2> DEFINE b == closeQueue[i]
             w == b.w
             c == [b EXCEPT !.snaps = Unswept(@, b.cursor)]
  <2>1. /\ b \in Batch /\ w \in Windows
        /\ BatchOK(b, roster[w], audience[w], deactivated[w], disposed[w])
    BY <1>1, <1>3 DEF QueueInv, QueueOK
  <2>2. \A p \in Plugins :
          disposed'[w][p] = disposed[w][p] + (IF p \in Ahead(b) \ RawPlugins THEN 1 ELSE 0)
    BY <1>4, <1>6, <2>1
  <2>3. c \in Batch /\ c.w = w /\ BatchOK(c, roster[w], audience[w], deactivated[w], disposed'[w])
    BY <2>1, <2>2, SweptBatch
  <2>4. closeQueue'[i] = c
    BY <1>2
  <2> HIDE DEF c
  <2> QED
    BY <2>3, <2>4
<1>9. closeQueue' \in Seq(Batch) /\ Len(closeQueue') = n
  <2>1. \A i \in 1..n : closeQueue'[i] \in Batch
    BY <1>8
  <2>2. closeQueue' \in [1..n -> Batch]
    BY <1>2, <2>1
  <2> QED
    BY <1>1, <2>2
<1>10. QueueInv'
  <2>0. \A i \in 1..n : closeQueue'[i].w = closeQueue[i].w
    BY <1>8
  <2>1. /\ \A i, j \in 1..n : closeQueue'[i].w = closeQueue'[j].w => i = j
        /\ \A i \in 1..n : window'[closeQueue'[i].w] = "closing"
        /\ \A v \in Windows : window'[v] = "closing" => \E i \in 1..n : closeQueue'[i].w = v
    BY <1>1, <1>2, <2>0 DEF QueueInv, QueueOK
  <2> QED
    BY <1>2, <1>8, <1>9, <2>1 DEF QueueInv, QueueOK
<1> QED
  BY <1>1, <1>2, <1>6, <1>7, <1>8, <1>9, <1>10, SameQueueKeeps DEF TypeOK

-----------------------------------------------------------------------------
\* What the second loop of the pump does to windows and subscribers, `leaving` being the
\* windows that are unloaded.
Unloads(leaving, queue, ran, gone) ==
  /\ \A w \in leaving : /\ window[w] = "closing"
                       /\ \A p \in roster[w] : IF p \in RawPlugins THEN ran[w][p] = 1 ELSE gone[w][p] = 1
  /\ window' = [w \in Windows |-> IF w \in leaving THEN "unloaded" ELSE window[w]]
  /\ QueueOK(closeQueue', window', roster, audience, ran, gone)
  /\ \A i, j \in 1..Len(closeQueue') : i < j =>
       \E k, l \in 1..Len(queue) : k < l /\ queue[k] = closeQueue'[i] /\ queue[l] = closeQueue'[j]
  /\ subscription' \in [Subscribers -> {"none", "live", "gone"}]
  /\ \A s \in Subscribers : subscription'[s] \in {subscription[s], "gone"}
  /\ unloaded' \in [Windows -> [Subscribers -> Nat]]
  /\ \A w \in Windows, s \in Subscribers :
       \/ unloaded'[w][s] = unloaded[w][s]
       \/ w \in leaving /\ s \in audience[w] /\ unloaded'[w][s] = unloaded[w][s] + 1
  /\ \A w \in leaving, s \in Subscribers :
       s \in audience[w] /\ subscription'[s] = "live" => unloaded'[w][s] = unloaded[w][s] + 1

LEMMA FireUnloadsUnloads ==
  ASSUME TypeOK, NEW queue, NEW now, NEW ran, NEW gone,
         QueueOK(queue, window, roster, audience, ran, gone), FireUnloads(queue, now)
  PROVE  \E leaving \in SUBSET Windows : Unloads(leaving, queue, ran, gone) /\ leaving \cap now = {}
<1> DEFINE n == Len(queue)
           done == {i \in DOMAIN queue : Serviced(queue[i]) /\ queue[i].w \notin now}
           called == [i \in done |-> Receivers(queue[i], Live)]
           leaving == {queue[i].w : i \in done}
           stay == {b \in ToSet(queue) : b.w \notin leaving}
<1>1. /\ queue \in Seq(Batch) /\ n \in Nat /\ DOMAIN queue = 1..n
      /\ \A i, j \in 1..n : queue[i].w = queue[j].w => i = j
      /\ \A i \in 1..n : window[queue[i].w] = "closing"
      /\ \A w \in Windows : window[w] = "closing" => \E i \in 1..n : queue[i].w = w
      /\ \A i \in 1..n : LET w == queue[i].w
                        IN BatchOK(queue[i], roster[w], audience[w], ran[w], gone[w])
  BY DEF QueueOK
<1>2. \A i \in 1..n : queue[i] \in Batch /\ queue[i].w \in Windows
  BY <1>1, BatchHas
<1> DEFINE Hears(failing, i, s) == /\ s \in called[i]
                                   /\ s \in failing => \A j \in done : j > i => s \notin called[j]
           Told(failing, w, s) == \E i \in done : queue[i].w = w /\ Hears(failing, i, s)
<1>3. PICK failing \in SUBSET UNION {called[i] : i \in done} :
        /\ closeQueue' = Kept(queue, stay)
        /\ window' = [w \in Windows |-> IF w \in leaving THEN "unloaded" ELSE window[w]]
        /\ unloaded' = [w \in Windows |-> [s \in Subscribers |->
                           unloaded[w][s] + (IF Told(failing, w, s) THEN 1 ELSE 0)]]
        /\ subscription' = [s \in Subscribers |->
                               IF s \in failing THEN "gone" ELSE subscription[s]]
  BY DEF FireUnloads
<1>4. leaving \in SUBSET Windows /\ leaving \cap now = {}
  BY <1>1, <1>2
<1>5. \A i \in done : i \in 1..n /\ Serviced(queue[i])
  BY <1>1
<1>6. \A i \in done : called[i] = queue[i].unload \cap Live
  BY DEF Receivers
\* Where the sequence that stays came from.
<1>7. closeQueue' \in Seq(Batch) /\ \E f : Lists(f, closeQueue', queue, stay, n)
  BY <1>1, <1>3, KeptProperties
<1>8. PICK f : Lists(f, closeQueue', queue, stay, n)
  BY <1>7
<1> DEFINE m == Len(closeQueue')
<1>9. m \in Nat
  BY <1>7
<1>10. \A i \in 1..n : queue[i] \in stay <=> queue[i].w \notin leaving
  BY <1>1 DEF ToSet
<1> HIDE DEF stay, Hears
<1>11. /\ \A k \in 1..m : /\ f[k] \in 1..n /\ closeQueue'[k] = queue[f[k]]
                          /\ queue[f[k]].w \notin leaving
       /\ \A k, l \in 1..m : k < l => f[k] < f[l]
       /\ \A i \in 1..n : queue[i].w \notin leaving => \E k \in 1..m : f[k] = i
  BY <1>8, <1>10 DEF Lists
<1> HIDE DEF leaving, done, called, m, n
<1>12. \A w \in leaving : \E i \in done : queue[i].w = w
  BY DEF leaving
<1>13. ASSUME NEW w \in leaving
       PROVE  /\ window[w] = "closing"
              /\ \A p \in roster[w] : IF p \in RawPlugins THEN ran[w][p] = 1 ELSE gone[w][p] = 1
  <2>1. PICK i \in done : queue[i].w = w
    BY <1>12
  <2> DEFINE b == queue[i]
  <2>2. /\ b \in Batch /\ window[w] = "closing"
        /\ BatchOK(b, roster[w], audience[w], ran[w], gone[w])
        /\ b.inFlight = NoSlice /\ b.cursor >= Len(b.snaps)
    BY <1>1, <1>2, <1>5, <2>1 DEF Serviced
  <2>3. b.snaps \in Seq(Plugins) /\ b.cursor = Len(b.snaps)
    BY <2>2, BatchHas DEF BatchOK
  <2> HIDE DEF b
  <2>4. Ahead(b) = {}
    BY <2>3 DEF Ahead
  <2>5. roster[w] \subseteq Plugins
    BY <1>4 DEF TypeOK
  <2>6. ASSUME NEW p \in roster[w], p \in RawPlugins
        PROVE  ran[w][p] = 1
    <3>1. PICK k \in 1..Len(b.snaps) : b.snaps[k] = p
      BY <2>2, <2>6 DEF BatchOK
    <3>2. p \in Before(b)
      BY <2>3, <3>1 DEF Before
    <3> QED
      BY <2>2, <2>5, <3>2 DEF BatchOK
  <2>7. ASSUME NEW p \in roster[w], p \notin RawPlugins
        PROVE  gone[w][p] = 1
    BY <2>2, <2>4, <2>5, <2>7, NoSliceAssumption DEF BatchOK
  <2> QED
    BY <2>2, <2>6, <2>7
<1>14. QueueOK(closeQueue', window', roster, audience, ran, gone)
  <2>1. \A k, l \in 1..m : closeQueue'[k].w = closeQueue'[l].w => k = l
    <3> SUFFICES ASSUME NEW k \in 1..m, NEW l \in 1..m, closeQueue'[k].w = closeQueue'[l].w
                 PROVE  k = l
      OBVIOUS
    <3>1. f[k] = f[l] /\ f[k] \in 1..n
      BY <1>1, <1>11 DEF n
    <3>2. ~(k < l) /\ ~(l < k)
      BY <1>1, <1>11, <3>1 DEF n
    <3> QED
      BY <1>9, <3>2 DEF m
  <2>2. \A k \in 1..m : window'[closeQueue'[k].w] = "closing"
    BY <1>1, <1>2, <1>3, <1>11 DEF n
  <2>3. \A w \in Windows : window'[w] = "closing" => \E k \in 1..m : closeQueue'[k].w = w
    <3> SUFFICES ASSUME NEW w \in Windows, window'[w] = "closing"
                 PROVE  \E k \in 1..m : closeQueue'[k].w = w
      OBVIOUS
    <3>1. w \notin leaving /\ window[w] = "closing"
      BY <1>3
    <3>2. PICK i \in 1..n : queue[i].w = w
      BY <1>1, <3>1 DEF n
    <3> QED
      BY <1>11, <3>1, <3>2
  <2>4. \A k \in 1..m : LET w == closeQueue'[k].w
                      IN BatchOK(closeQueue'[k], roster[w], audience[w], ran[w], gone[w])
    BY <1>1, <1>11 DEF n
  <2> QED
    BY <1>7, <2>1, <2>2, <2>3, <2>4 DEF QueueOK, m
<1>15. \A i, j \in 1..Len(closeQueue') : i < j =>
         \E k, l \in 1..Len(queue) : k < l /\ queue[k] = closeQueue'[i] /\ queue[l] = closeQueue'[j]
  BY <1>11 DEF m, n
<1>16. /\ subscription' \in [Subscribers -> {"none", "live", "gone"}]
       /\ \A s \in Subscribers : subscription'[s] = IF s \in failing THEN "gone" ELSE subscription[s]
  BY <1>3 DEF TypeOK
<1>17. /\ unloaded' \in [Windows -> [Subscribers -> Nat]]
       /\ \A w \in Windows, s \in Subscribers :
            unloaded'[w][s] = unloaded[w][s] + (IF Told(failing, w, s) THEN 1 ELSE 0)
  <2>1. unloaded \in [Windows -> [Subscribers -> Nat]]
    BY DEF TypeOK
  <2> HIDE DEF Told
  <2> QED
    BY <1>3, <2>1
<1>18. \A i \in done : queue[i].unload = audience[queue[i].w] /\ queue[i].w \in leaving
  BY <1>1, <1>5 DEF BatchOK, leaving, n
<1>19. \A w \in Windows, s \in Subscribers : Told(failing, w, s) => w \in leaving /\ s \in audience[w]
  BY <1>6, <1>18 DEF Hears
<1>20. ASSUME NEW w \in leaving, NEW s \in Subscribers, s \in audience[w], subscription'[s] = "live"
       PROVE  Told(failing, w, s)
  <2>1. PICK i \in done : queue[i].w = w
    BY <1>12
  <2>2. s \notin failing /\ s \in Live
    BY <1>16, <1>20 DEF Live
  <2>3. s \in called[i]
    BY <1>6, <1>18, <1>20, <2>1, <2>2
  <2> QED
    BY <2>1, <2>2, <2>3 DEF Hears
<1>21. \A w \in Windows, s \in Subscribers :
         \/ unloaded'[w][s] = unloaded[w][s]
         \/ w \in leaving /\ s \in audience[w] /\ unloaded'[w][s] = unloaded[w][s] + 1
  <2>1. unloaded \in [Windows -> [Subscribers -> Nat]]
    BY DEF TypeOK
  <2> HIDE DEF Told
  <2> QED
    BY <1>17, <1>19, <2>1
<1>22. \A w \in leaving, s \in Subscribers :
         s \in audience[w] /\ subscription'[s] = "live" => unloaded'[w][s] = unloaded[w][s] + 1
  <2> HIDE DEF Told
  <2> QED
    BY <1>4, <1>17, <1>20
<1>23. Unloads(leaving, queue, ran, gone)
  BY <1>3, <1>13, <1>14, <1>15, <1>16, <1>17, <1>21, <1>22 DEF Unloads
<1> QED
  BY <1>4, <1>23
-----------------------------------------------------------------------------
LEMMA MinIsLeast ==
  ASSUME NEW S \in SUBSET Nat, S # {}
  PROVE  Min(S) \in S /\ \A k \in S : Min(S) <= k
<1>1. \E x \in S : \A y \in S : x <= y
  BY LeastNatural
<1> QED
  BY <1>1 DEF Min

\* The batch the pump has served.
ServedBatch(b, async) ==
  [b EXCEPT !.cursor = @ + 1, !.inFlight = IF async THEN b.snaps[b.cursor + 1] ELSE NoSlice]

\* What a slice of p does to the counts of its window.
Started(p, async, ran, gone, more, less) ==
  /\ \A q \in Plugins : more[q] = IF q = p THEN ran[q] + 1 ELSE ran[q]
  /\ \A q \in Plugins : less[q] = IF q = p /\ ~(async \/ q \in RawPlugins)
                                  THEN gone[q] + 1 ELSE gone[q]

LEMMA ServedBatchOK ==
  ASSUME NEW b \in Batch, NEW cast, NEW told, NEW ran, NEW gone, NEW async \in BOOLEAN,
         BatchOK(b, cast, told, ran, gone), Eligible(b),
         NEW p, p = b.snaps[b.cursor + 1], async => p \notin RawPlugins,
         NEW more, NEW less, Started(p, async, ran, gone, more, less),
         NEW c, c = ServedBatch(b, async)
  PROVE  /\ c \in Batch /\ c.w = b.w /\ p \in Plugins
         /\ BatchOK(c, cast, told, more, less)
<1> DEFINE n == b.cursor
<1>1. /\ b.snaps \in Seq(Plugins) /\ Len(b.snaps) \in Nat /\ n \in Nat
      /\ n < Len(b.snaps) /\ b.inFlight = NoSlice
  BY BatchHas DEF Eligible
<1>2. n + 1 \in 1..Len(b.snaps) /\ p \in Plugins
  BY <1>1
<1>3. /\ c \in Batch /\ c.w = b.w /\ c.snaps = b.snaps /\ c.unload = b.unload
      /\ c.cursor = n + 1 /\ c.inFlight = IF async THEN p ELSE NoSlice
  <2> DEFINE x == IF async THEN p ELSE NoSlice
  <2>1. x \in Plugins \cup {NoSlice} /\ n + 1 \in Nat
    BY <1>1, <1>2
  <2>2. c = [b EXCEPT !.cursor = n + 1, !.inFlight = x]
    BY DEF ServedBatch
  <2> HIDE DEF x
  <2>3. /\ c \in Batch /\ c.w = b.w /\ c.snaps = b.snaps /\ c.unload = b.unload
        /\ c.cursor = n + 1 /\ c.inFlight = x
    BY <2>1, <2>2 DEF Batch
  <2> QED
    BY <2>3 DEF x
<1>4. /\ \A k, l \in 1..Len(b.snaps) : b.snaps[k] = b.snaps[l] => k = l
      /\ \A k \in 1..Len(b.snaps) : b.snaps[k] \in cast
      /\ \A q \in cast \cap RawPlugins : \E k \in 1..Len(b.snaps) : b.snaps[k] = q
      /\ b.unload = told
  BY DEF BatchOK
<1>5. /\ \A q \in Plugins : ran[q] = IF q \in Before(b) THEN 1 ELSE 0
      /\ \A q \in Plugins :
           gone[q] = IF q \in cast \ (RawPlugins \cup Ahead(b) \cup {NoSlice}) THEN 1 ELSE 0
  BY <1>1 DEF BatchOK
<1>6. Before(c) = Before(b) \cup {p} /\ p \notin Before(b)
  <2>1. \A k \in 1..n : k \in 1..Len(b.snaps) /\ k # n + 1
    BY <1>1
  <2>2. \A k : k \in 1..n + 1 <=> k \in 1..n \/ k = n + 1
    BY <1>1
  <2> QED
    BY <1>2, <1>3, <1>4, <2>1, <2>2 DEF Before
<1>7. p \in Ahead(b) /\ Ahead(c) = Ahead(b) \ {p}
  <2>1. \A k \in n + 2..Len(b.snaps) : k \in 1..Len(b.snaps) /\ k # n + 1
    BY <1>1
  <2>2. \A k : k \in n + 1..Len(b.snaps) <=> k = n + 1 \/ k \in n + 2..Len(b.snaps)
    BY <1>1
  <2>3. c.cursor + 1 = n + 2
    BY <1>1, <1>3
  <2>4. Ahead(c) = {b.snaps[k] : k \in n + 2..Len(b.snaps)}
    BY <1>3, <2>3 DEF Ahead
  <2>5. Ahead(b) = {b.snaps[k] : k \in n + 1..Len(b.snaps)}
    BY DEF Ahead
  <2>6. Ahead(b) = {p} \cup Ahead(c)
    BY <2>2, <2>4, <2>5
  <2>7. p \notin Ahead(c)
    BY <1>2, <1>4, <2>1, <2>4
  <2> QED
    BY <2>6, <2>7
<1>8. p \in cast
  BY <1>2, <1>4
<1>9. \A q \in Plugins : more[q] = IF q \in Before(c) THEN 1 ELSE 0
  BY <1>5, <1>6 DEF Started
<1>10. \A q \in Plugins :
         less[q] = IF q \in cast \ (RawPlugins \cup Ahead(c) \cup {c.inFlight}) THEN 1 ELSE 0
  <2> SUFFICES ASSUME NEW q \in Plugins
               PROVE  less[q] = IF q \in cast \ (RawPlugins \cup Ahead(c) \cup {c.inFlight})
                                THEN 1 ELSE 0
    OBVIOUS
  <2>1. q # NoSlice
    BY NoSliceAssumption
  <2>2. CASE q = p
    <3>1. gone[p] = 0
      BY <1>2, <1>5, <1>7
    <3>2. less[p] = IF ~(async \/ p \in RawPlugins) THEN 1 ELSE 0
      BY <1>2, <3>1 DEF Started
    <3>3. p \in cast \ (RawPlugins \cup Ahead(c) \cup {c.inFlight}) <=> ~(async \/ p \in RawPlugins)
      BY <1>3, <1>7, <1>8, <2>1, <2>2
    <3> QED
      BY <2>2, <3>2, <3>3
  <2>3. CASE q # p
    <3>1. less[q] = gone[q]
      BY <2>3 DEF Started
    <3>2. q \in Ahead(c) <=> q \in Ahead(b)
      BY <1>7, <2>3
    <3>3. q # c.inFlight
      BY <1>3, <2>1, <2>3
    <3> QED
      BY <1>5, <2>1, <3>1, <3>2, <3>3
  <2> QED
    BY <2>2, <2>3
<1>11. /\ c.cursor \in 0..Len(c.snaps)
       /\ c.inFlight # NoSlice => c.cursor > 0 /\ c.snaps[c.cursor] = c.inFlight
       /\ c.inFlight \notin RawPlugins
  BY <1>1, <1>2, <1>3, NoSliceAssumption, RawAssumption
<1>12. BatchOK(c, cast, told, more, less)
  BY <1>3, <1>4, <1>9, <1>10, <1>11 DEF BatchOK
<1> QED
  BY <1>2, <1>3, <1>12

\* Moving a batch behind the others keeps the queue, if what became of the batch matches
\* what became of its window.
LEMMA RotatedQueueOK ==
  ASSUME NEW q, NEW state, NEW cast, NEW told, NEW ran, NEW gone, NEW more, NEW less,
         QueueOK(q, state, cast, told, ran, gone), NEW i \in 1..Len(q),
         NEW w, w = q[i].w, NEW c \in Batch, c.w = w,
         BatchOK(c, cast[w], told[w], more[w], less[w]),
         \A v \in Windows : v # w => more[v] = ran[v] /\ less[v] = gone[v]
  PROVE  QueueOK(Rotate(q, i, c), state, cast, told, more, less)
<1> DEFINE n == Len(q)
           r == Rotate(q, i, c)
\* Where the k-th place of the rotated queue was.
           from(k) == IF k < i THEN k ELSE IF k < n THEN k + 1 ELSE i
<1>1. q \in Seq(Batch) /\ n \in Nat /\ i \in 1..n
  BY DEF QueueOK
<1>2. /\ \A k, l \in 1..n : q[k].w = q[l].w => k = l
      /\ \A k \in 1..n : state[q[k].w] = "closing"
      /\ \A v \in Windows : state[v] = "closing" => \E k \in 1..n : q[k].w = v
      /\ \A k \in 1..n : LET v == q[k].w IN BatchOK(q[k], cast[v], told[v], ran[v], gone[v])
  BY DEF QueueOK
<1>3. \A k \in 1..n : q[k] \in Batch /\ q[k].w \in Windows
  BY <1>1, BatchHas
<1>4. /\ r \in Seq(Batch) /\ Len(r) = n
      /\ \A k \in 1..n : r[k] = IF k < i THEN q[k] ELSE IF k < n THEN q[k + 1] ELSE c
  BY <1>1, RotateProperties
<1> HIDE DEF r, n
<1>5. /\ \A k \in 1..n : from(k) \in 1..n /\ (from(k) = i <=> k = n)
      /\ \A k, l \in 1..n : from(k) = from(l) => k = l
  BY <1>1
<1>6. \A l \in 1..n : \E k \in 1..n : from(k) = l
  <2> SUFFICES ASSUME NEW l \in 1..n
               PROVE  \E k \in 1..n : from(k) = l
    OBVIOUS
  <2>1. CASE l < i
    <3>1. l \in 1..n /\ from(l) = l
      BY <2>1
    <3> QED
      BY <3>1
  <2>2. CASE l = i
    <3>1. n \in 1..n /\ from(n) = l
      BY <1>1, <2>2
    <3> QED
      BY <3>1
  <2>3. CASE l > i
    <3>1. l - 1 \in 1..n /\ from(l - 1) = l
      BY <1>1, <2>3
    <3> QED
      BY <3>1
  <2> QED
    BY <1>1, <2>1, <2>2, <2>3
<1>7. \A k \in 1..n : IF k = n THEN r[k] = c ELSE r[k] = q[from(k)]
  BY <1>1, <1>4
<1> HIDE DEF from
<1>8. \A k \in 1..n : r[k].w = q[from(k)].w
  BY <1>5, <1>7
<1>9. ASSUME NEW k \in 1..n
      PROVE  LET v == r[k].w IN BatchOK(r[k], cast[v], told[v], more[v], less[v])
  <2>1. CASE k = n
    BY <1>7, <2>1
  <2>2. CASE k # n
    <3>1. r[k] = q[from(k)] /\ from(k) \in 1..n /\ from(k) # i
      BY <1>5, <1>7, <2>2
    <3>2. q[from(k)].w # w /\ q[from(k)].w \in Windows
      BY <1>1, <1>2, <1>3, <3>1
    <3> DEFINE v == q[from(k)].w
    <3>3. BatchOK(q[from(k)], cast[v], told[v], ran[v], gone[v])
      BY <1>2, <3>1
    <3>4. more[v] = ran[v] /\ less[v] = gone[v]
      BY <3>2
    <3> QED
      BY <3>1, <3>3, <3>4
  <2> QED
    BY <2>1, <2>2
<1>10. ASSUME NEW k \in 1..n, NEW l \in 1..n, r[k].w = r[l].w
       PROVE  k = l
  <2>1. from(k) \in 1..n /\ from(l) \in 1..n /\ q[from(k)].w = q[from(l)].w
    BY <1>5, <1>8, <1>10
  <2>2. from(k) = from(l)
    BY <1>2, <2>1
  <2> QED
    BY <1>5, <2>2
<1>11. \A k \in 1..n : state[r[k].w] = "closing"
  BY <1>2, <1>5, <1>8
<1>12. \A v \in Windows : state[v] = "closing" => \E k \in 1..n : r[k].w = v
  <2> SUFFICES ASSUME NEW v \in Windows, state[v] = "closing"
               PROVE  \E k \in 1..n : r[k].w = v
    OBVIOUS
  <2>1. PICK l \in 1..n : q[l].w = v
    BY <1>2
  <2>2. PICK k \in 1..n : from(k) = l
    BY <1>6
  <2> QED
    BY <1>8, <2>1, <2>2
<1> QED
  BY <1>4, <1>9, <1>10, <1>11, <1>12 DEF QueueOK, r

\* The queue the pump leaves before it looks at what is complete.
LEMMA ServeRotates ==
  ASSUME Inv, NEW i \in 1..Len(closeQueue), Eligible(closeQueue[i]), NEW async \in BOOLEAN,
         Serve(i, async), NEW queue,
         queue = Rotate(closeQueue, i, ServedBatch(closeQueue[i], async))
  PROVE  /\ QueueOK(queue, window, roster, audience, deactivated', disposed')
         /\ FireUnloads(queue, {closeQueue[i].w})
         /\ deactivated' \in [Windows -> [Plugins -> Nat]]
         /\ disposed' \in [Windows -> [Plugins -> Nat]]
         /\ \A w \in Windows : w # closeQueue[i].w =>
              deactivated'[w] = deactivated[w] /\ disposed'[w] = disposed[w]
         /\ window[closeQueue[i].w] = "closing" /\ closeQueue[i].w \in Windows
         /\ scheduled' \in BOOLEAN
<1> DEFINE b == closeQueue[i]
           w0 == b.w
           p == b.snaps[b.cursor + 1]
           c == ServedBatch(b, async)
<1>1. /\ TypeOK /\ QueueInv
      /\ closeQueue \in Seq(Batch) /\ Len(closeQueue) \in Nat
  BY DEF Inv, TypeOK
<1>2. /\ async => p \notin RawPlugins
      /\ deactivated' = [deactivated EXCEPT ![w0][p] = @ + 1]
      /\ disposed' = [disposed EXCEPT ![w0][p] = @ + (IF async \/ p \in RawPlugins THEN 0 ELSE 1)]
      /\ scheduled' = ~async
      /\ FireUnloads(queue, {w0})
  BY DEF Serve, ServedBatch
<1>3. /\ b \in Batch /\ w0 \in Windows /\ window[w0] = "closing"
      /\ Eligible(b) /\ queue = Rotate(closeQueue, i, c)
      /\ BatchOK(b, roster[w0], audience[w0], deactivated[w0], disposed[w0])
  BY <1>1, BatchHas DEF QueueInv, QueueOK
<1> DEFINE d == IF async \/ p \in RawPlugins THEN 0 ELSE 1
<1>4. w0 = b.w /\ p = b.snaps[b.cursor + 1] /\ c = ServedBatch(b, async)
  OBVIOUS
<1>5. d \in Nat /\ disposed' = [disposed EXCEPT ![w0][p] = @ + d]
  BY <1>2
<1>6. b = closeQueue[i]
  OBVIOUS
<1> HIDE DEF b, w0, p, c, d
<1>7. p \in Plugins
  BY <1>3, <1>4, BatchHas DEF Eligible
<1>8. /\ deactivated' \in [Windows -> [Plugins -> Nat]]
      /\ \A w \in Windows : w # w0 => deactivated'[w] = deactivated[w]
      /\ \A q \in Plugins :
           deactivated'[w0][q] = IF q = p THEN deactivated[w0][q] + 1 ELSE deactivated[w0][q]
  <2>1. deactivated \in [Windows -> [Plugins -> Nat]]
    BY <1>1 DEF TypeOK
  <2> QED
    BY <1>2, <1>3, <1>7, <2>1
<1>9. /\ disposed' \in [Windows -> [Plugins -> Nat]]
      /\ \A w \in Windows : w # w0 => disposed'[w] = disposed[w]
      /\ \A q \in Plugins :
           disposed'[w0][q] = IF q = p THEN disposed[w0][q] + d ELSE disposed[w0][q]
      /\ \A q \in Plugins : disposed[w0][q] \in Nat
  <2>1. disposed \in [Windows -> [Plugins -> Nat]]
    BY <1>1 DEF TypeOK
  <2> QED
    BY <1>3, <1>5, <1>7, <2>1
<1>10. \A q \in Plugins : disposed'[w0][q] = IF q = p /\ ~(async \/ q \in RawPlugins)
                                             THEN disposed[w0][q] + 1 ELSE disposed[w0][q]
  BY <1>9 DEF d
<1>11. /\ c \in Batch /\ c.w = w0
       /\ BatchOK(c, roster[w0], audience[w0], deactivated'[w0], disposed'[w0])
  <2> DEFINE cast == roster[w0]
             told == audience[w0]
             ran == deactivated[w0]
             gone == disposed[w0]
             more == deactivated'[w0]
             less == disposed'[w0]
  <2>1. BatchOK(b, cast, told, ran, gone) /\ Eligible(b) /\ b \in Batch
    BY <1>3
  <2>2. Started(p, async, ran, gone, more, less)
    BY <1>8, <1>10 DEF Started
  <2>4. async => p \notin RawPlugins
    BY <1>2
  <2> HIDE DEF cast, told, ran, gone, more, less
  <2>5. c \in Batch /\ c.w = b.w /\ BatchOK(c, cast, told, more, less)
    BY <1>4, <2>1, <2>2, <2>4, ServedBatchOK
  <2> QED
    BY <1>4, <2>5 DEF cast, told, more, less
<1>12. QueueOK(closeQueue, window, roster, audience, deactivated, disposed)
  BY <1>1 DEF QueueInv
<1>13. \A v \in Windows : v # w0 => deactivated'[v] = deactivated[v] /\ disposed'[v] = disposed[v]
  BY <1>8, <1>9
<1>14. w0 = closeQueue[i].w
  BY <1>4, <1>6
<1>15. QueueOK(Rotate(closeQueue, i, c), window, roster, audience, deactivated', disposed')
  BY <1>11, <1>12, <1>13, <1>14, RotatedQueueOK
<1>16. QueueOK(queue, window, roster, audience, deactivated', disposed')
  BY <1>3, <1>15
<1>17. scheduled' \in BOOLEAN /\ deactivated' \in [Windows -> [Plugins -> Nat]]
       /\ disposed' \in [Windows -> [Plugins -> Nat]]
       /\ FireUnloads(queue, {w0}) /\ w0 \in Windows /\ window[w0] = "closing"
  BY <1>2, <1>3, <1>8, <1>9
<1> QED
  BY <1>13, <1>14, <1>16, <1>17

LEMMA NoneOrOne == \A k \in Nat : k <= 1 /\ k # 1 => k = 0
  OBVIOUS

\* A turn of the pump keeps what is said of windows and subscribers.
LEMMA UnloadsKeeps ==
  ASSUME Inv, NEW queue, NEW leaving \in SUBSET Windows,
         QueueOK(queue, window, roster, audience, deactivated', disposed'),
         Unloads(leaving, queue, deactivated', disposed'),
         UNCHANGED <<roster, audience>>, scheduled' \in BOOLEAN,
         deactivated' \in [Windows -> [Plugins -> Nat]],
         disposed' \in [Windows -> [Plugins -> Nat]],
         \A w \in Windows : window[w] # "closing" =>
            deactivated'[w] = deactivated[w] /\ disposed'[w] = disposed[w],
         overtaken' \in [Windows -> SUBSET Windows],
         \A w \in Windows : window'[w] # "closing" => overtaken'[w] = {}
  PROVE  TypeOK' /\ QueueInv' /\ OpenUntouched' /\ TeardownInOrder' /\ Subscribed'
<1>1. TypeOK /\ QueueInv /\ OpenUntouched /\ TeardownInOrder /\ Subscribed
  BY DEF Inv
<1>2. /\ window \in [Windows -> {"open", "closing", "unloaded"}]
      /\ roster \in [Windows -> SUBSET Plugins] /\ audience \in [Windows -> SUBSET Subscribers]
      /\ unloaded \in [Windows -> [Subscribers -> Nat]]
      /\ subscription \in [Subscribers -> {"none", "live", "gone"}]
  BY <1>1 DEF TypeOK
<1>3. QueueOK(closeQueue', window', roster, audience, deactivated', disposed')
  BY DEF Unloads
<1>4. QueueInv'
  BY <1>3 DEF QueueInv
<1>5. /\ \A w \in leaving : window[w] = "closing"
      /\ \A w \in leaving : \A p \in roster[w] :
           IF p \in RawPlugins THEN deactivated'[w][p] = 1 ELSE disposed'[w][p] = 1
      /\ window' = [w \in Windows |-> IF w \in leaving THEN "unloaded" ELSE window[w]]
  BY DEF Unloads
<1>6. /\ subscription' \in [Subscribers -> {"none", "live", "gone"}]
      /\ \A s \in Subscribers : subscription'[s] \in {subscription[s], "gone"}
      /\ unloaded' \in [Windows -> [Subscribers -> Nat]]
      /\ \A w \in Windows, s \in Subscribers :
           \/ unloaded'[w][s] = unloaded[w][s]
           \/ w \in leaving /\ s \in audience[w] /\ unloaded'[w][s] = unloaded[w][s] + 1
      /\ \A w \in leaving, s \in Subscribers :
           s \in audience[w] /\ subscription'[s] = "live" => unloaded'[w][s] = unloaded[w][s] + 1
  BY DEF Unloads
<1>7. /\ window' \in [Windows -> {"open", "closing", "unloaded"}]
      /\ \A w \in Windows : window'[w] = IF w \in leaving THEN "unloaded" ELSE window[w]
  BY <1>2, <1>5
<1>8. TypeOK'
  <2>1. /\ closeQueue' \in Seq(Batch)
        /\ \A i \in DOMAIN closeQueue' :
             LET c == closeQueue'[i]
             IN c.cursor <= Len(c.snaps) /\ (c.inFlight # NoSlice => c.snaps[c.cursor] = c.inFlight)
        /\ \A i, j \in DOMAIN closeQueue' : closeQueue'[i].w = closeQueue'[j].w => i = j
        /\ {closeQueue'[i].w : i \in DOMAIN closeQueue'} = {v \in Windows : window'[v] = "closing"}
    BY <1>3, QueueTypes
  <2>2. roster' \in [Windows -> SUBSET Plugins] /\ audience' \in [Windows -> SUBSET Subscribers]
    BY <1>2
  <2> QED
    BY <1>6, <1>7, <2>1, <2>2 DEF TypeOK
<1>9. OpenUntouched'
  <2> SUFFICES ASSUME NEW w \in Windows, window'[w] = "open"
               PROVE  /\ \A p \in Plugins : deactivated'[w][p] = 0 /\ disposed'[w][p] = 0
                      /\ overtaken'[w] = {} /\ roster[w] = {}
    BY DEF OpenUntouched
  <2>1. window[w] = "open"
    BY <1>7
  <2>2. deactivated'[w] = deactivated[w] /\ disposed'[w] = disposed[w] /\ overtaken'[w] = {}
    BY <2>1
  <2> QED
    BY <1>1, <2>1, <2>2 DEF OpenUntouched
<1>10. Subscribed'
  <2> SUFFICES ASSUME NEW w \in Windows, NEW s \in audience[w]
               PROVE  subscription'[s] # "none"
    BY DEF Subscribed
  <2>1. s \in Subscribers /\ subscription[s] # "none"
    BY <1>1, <1>2 DEF Subscribed
  <2> QED
    BY <1>6, <2>1
<1>11. \A w \in Windows, p \in Plugins : deactivated'[w][p] <= 1 /\ disposed'[w][p] <= 1
  <2> SUFFICES ASSUME NEW w \in Windows, NEW p \in Plugins
               PROVE  deactivated'[w][p] <= 1 /\ disposed'[w][p] <= 1
    OBVIOUS
  <2>1. CASE window[w] # "closing"
    <3>1. deactivated'[w] = deactivated[w] /\ disposed'[w] = disposed[w]
      BY <2>1
    <3> QED
      BY <1>1, <3>1 DEF TeardownInOrder
  <2>2. CASE window[w] = "closing"
    <3>1. PICK i \in 1..Len(queue) : queue[i].w = w
      BY <2>2 DEF QueueOK
    <3>2. BatchOK(queue[i], roster[w], audience[w], deactivated'[w], disposed'[w])
      BY <3>1 DEF QueueOK
    <3>3. deactivated'[w][p] \in {0, 1} /\ disposed'[w][p] \in {0, 1}
      BY <3>2 DEF BatchOK
    <3> QED
      BY <3>3
  <2> QED
    BY <2>1, <2>2
<1>12. \A w \in Windows : window'[w] = "unloaded" =>
         \A p \in roster'[w] :
           IF p \in RawPlugins THEN deactivated'[w][p] = 1 ELSE disposed'[w][p] = 1
  <2> SUFFICES ASSUME NEW w \in Windows, window'[w] = "unloaded", NEW p \in roster[w]
               PROVE  IF p \in RawPlugins THEN deactivated'[w][p] = 1 ELSE disposed'[w][p] = 1
    OBVIOUS
  <2>1. CASE w \in leaving
    BY <1>5, <2>1
  <2>2. CASE w \notin leaving
    <3>1. window[w] = "unloaded"
      BY <1>7, <2>2
    <3>2. deactivated'[w] = deactivated[w] /\ disposed'[w] = disposed[w]
      BY <3>1
    <3> QED
      BY <1>1, <3>1, <3>2 DEF TeardownInOrder
  <2> QED
    BY <2>1, <2>2
<1>13. ASSUME NEW w \in Windows, NEW s \in Subscribers
       PROVE  /\ unloaded'[w][s] <= 1
              /\ unloaded'[w][s] = 1 => s \in audience'[w] /\ window'[w] = "unloaded"
              /\ s \in audience'[w] /\ window'[w] = "unloaded" /\ subscription'[s] = "live"
                   => unloaded'[w][s] = 1
  <2>1. /\ unloaded[w][s] \in Nat /\ unloaded[w][s] <= 1
        /\ unloaded[w][s] = 1 => s \in audience[w] /\ window[w] = "unloaded"
        /\ s \in audience[w] /\ window[w] = "unloaded" /\ subscription[s] = "live"
                   => unloaded[w][s] = 1
    BY <1>1, <1>2 DEF TeardownInOrder
  <2>2. subscription'[s] = "live" => subscription[s] = "live"
    BY <1>6
  <2>3. CASE w \in leaving
    <3>1. unloaded[w][s] = 0 /\ window'[w] = "unloaded"
      <4>1. window[w] = "closing" /\ window'[w] = "unloaded"
        BY <1>5, <1>7, <2>3
      <4>2. unloaded[w][s] # 1
        BY <2>1, <4>1
      <4> QED
        BY <2>1, <4>1, <4>2, NoneOrOne
    <3>2. unloaded'[w][s] \in {0, 1} /\ (unloaded'[w][s] = 1 => s \in audience[w])
      <4>1. \/ unloaded'[w][s] = unloaded[w][s]
            \/ s \in audience[w] /\ unloaded'[w][s] = unloaded[w][s] + 1
        BY <1>6
      <4> QED
        BY <3>1, <4>1
    <3>3. s \in audience[w] /\ subscription'[s] = "live" => unloaded'[w][s] = 1
      BY <1>6, <2>3, <3>1
    <3> QED
      BY <3>1, <3>2, <3>3
  <2>4. CASE w \notin leaving
    <3>1. unloaded'[w][s] = unloaded[w][s] /\ window'[w] = window[w]
      BY <1>6, <1>7, <2>4
    <3> QED
      BY <2>1, <2>2, <3>1
  <2> QED
    BY <2>3, <2>4
<1> QED
  BY <1>4, <1>8, <1>9, <1>10, <1>11, <1>12, <1>13 DEF TeardownInOrder

\* So does it keep the order in which windows wait.
LEMMA QueuedKeeps ==
  ASSUME NEW queue, NEW over, Queued(queue, over),
         NEW rest, NEW after,
         \A i, j \in 1..Len(rest) : i < j =>
           \E k, l \in 1..Len(queue) : k < l /\ queue[k] = rest[i] /\ queue[l] = rest[j],
         Len(rest) \in Nat,
         \A w \in Windows : after[w] \subseteq over[w] /\ w \notin after[w],
         Len(queue) \in Nat
  PROVE  Queued(rest, after)
<1> SUFFICES ASSUME NEW w \in Windows, NEW v \in after[w],
                    NEW i \in 1..Len(rest), NEW j \in 1..Len(rest),
                    rest[i].w = w, rest[j].w = v, ~(i < j)
             PROVE  FALSE
  BY DEF Queued
<1>1. v \in over[w] /\ v # w
  OBVIOUS
<1>2. j < i
  BY <1>1
<1>3. PICK k \in 1..Len(queue), l \in 1..Len(queue) :
        k < l /\ queue[k] = rest[j] /\ queue[l] = rest[i]
  BY <1>2
<1>4. l < k
  BY <1>1, <1>3 DEF Queued
<1> QED
  BY <1>3, <1>4

LEMMA QueuedRotates ==
  ASSUME NEW q \in Seq(Batch), NEW over, Queued(q, over), NEW i \in 1..Len(q),
         \A j, k \in 1..Len(q) : q[j].w = q[k].w => j = k,
         NEW c \in Batch, c.w = q[i].w,
         NEW after, \A w \in Windows : \A v \in after[w] : w # c.w /\ (v \in over[w] \/ v = c.w)
  PROVE  Queued(Rotate(q, i, c), after)
<1> DEFINE n == Len(q)
           r == Rotate(q, i, c)
<1>1. /\ n \in Nat /\ Len(r) = n
      /\ \A k \in 1..n : r[k] = IF k < i THEN q[k] ELSE IF k < n THEN q[k + 1] ELSE c
  BY RotateProperties
<1> SUFFICES ASSUME NEW w \in Windows, NEW v \in after[w], NEW j \in 1..n, NEW k \in 1..n,
                    r[j].w = w, r[k].w = v
             PROVE  j < k
  BY <1>1 DEF Queued
<1> HIDE DEF r
<1>2. w # c.w
  OBVIOUS
<1> DEFINE from(m) == IF m < i THEN m ELSE m + 1
<1>3. \A m \in 1..n : r[m].w # c.w => m # n /\ from(m) \in 1..n /\ r[m] = q[from(m)]
  BY <1>1
<1>4. j # n /\ from(j) \in 1..n /\ r[j] = q[from(j)]
  BY <1>2, <1>3
<1>5. CASE v = c.w
  <2>1. k = n
    <3> SUFFICES ASSUME k # n
                 PROVE  FALSE
      OBVIOUS
    <3>1. r[k] = q[from(k)] /\ from(k) \in 1..n /\ from(k) # i
      BY <1>1
    <3> QED
      BY <1>5, <3>1
  <2> QED
    BY <1>1, <1>4, <2>1
<1>6. CASE v # c.w
  <2>1. k # n /\ from(k) \in 1..n /\ r[k] = q[from(k)]
    BY <1>3, <1>6
  <2>2. v \in over[w]
    BY <1>6
  <2>3. from(j) < from(k)
    <3> HIDE DEF from
    <3> QED
      BY <1>4, <2>1, <2>2 DEF Queued
  <2> QED
    BY <1>1, <2>3
<1> QED
  BY <1>5, <1>6

\* What a turn of the pump that serves a batch does to the windows that wait.
LEMMA ServeOvertakes ==
  ASSUME Inv, NEW i \in 1..Len(closeQueue), NEW async \in BOOLEAN, Serve(i, async),
         NEW x, x = closeQueue[i].w, x \in Windows
  PROVE  /\ overtaken' \in [Windows -> SUBSET Windows]
         /\ \A w \in Windows : w = x \/ window'[w] # "closing" => overtaken'[w] = {}
         /\ \A w \in Windows : overtaken'[w] \subseteq overtaken[w] \cup {x}
<1> DEFINE could == {j \in DOMAIN closeQueue \ {i} : Eligible(closeQueue[j])}
           waits(w) == \E j \in could : closeQueue[j].w = w
<1>1. overtaken' = [w \in Windows |->
        IF w = x \/ window'[w] # "closing" THEN {}
        ELSE IF waits(w) THEN overtaken[w] \cup {x} ELSE overtaken[w]]
  BY DEF Serve
<1>2. overtaken \in [Windows -> SUBSET Windows]
  BY DEF Inv, TypeOK
<1> HIDE DEF waits
<1> QED
  BY <1>1, <1>2

LEMMA ServeKeeps ==
  ASSUME Inv, NEW i \in 1..Len(closeQueue), Eligible(closeQueue[i]), NEW async \in BOOLEAN,
         Serve(i, async), UNCHANGED <<roster, audience>>
  PROVE  Inv'
<1> DEFINE b == closeQueue[i]
           x == b.w
           c == ServedBatch(b, async)
           queue == Rotate(closeQueue, i, c)
<1>1. TypeOK /\ QueueInv /\ OvertakenWait /\ Queued(closeQueue, overtaken)
  BY DEF Inv
<1>2. /\ QueueOK(queue, window, roster, audience, deactivated', disposed')
      /\ FireUnloads(queue, {x})
      /\ deactivated' \in [Windows -> [Plugins -> Nat]]
      /\ disposed' \in [Windows -> [Plugins -> Nat]]
      /\ \A w \in Windows : w # x =>
           deactivated'[w] = deactivated[w] /\ disposed'[w] = disposed[w]
      /\ window[x] = "closing" /\ x \in Windows
      /\ scheduled' \in BOOLEAN
  BY ServeRotates
<1>3. /\ overtaken' \in [Windows -> SUBSET Windows]
      /\ \A w \in Windows : w = x \/ window'[w] # "closing" => overtaken'[w] = {}
      /\ \A w \in Windows : overtaken'[w] \subseteq overtaken[w] \cup {x}
  BY <1>2, ServeOvertakes
<1>4. closeQueue \in Seq(Batch) /\ \A j, k \in 1..Len(closeQueue) : closeQueue[j].w = closeQueue[k].w => j = k
  BY <1>1 DEF QueueInv, QueueOK
<1>5. c \in Batch /\ c.w = x
  <2>1. b \in Batch /\ Eligible(b)
    BY <1>4
  <2> HIDE DEF b
  <2>2. b.snaps[b.cursor + 1] \in Plugins /\ b.cursor + 1 \in Nat
    BY <2>1, BatchHas DEF Eligible
  <2> QED
    BY <2>1, <2>2 DEF ServedBatch, Batch
<1>6. x = closeQueue[i].w
  OBVIOUS
<1> HIDE DEF b, x, c
<1>7. Queued(queue, overtaken')
  <2>1. \A w \in Windows : \A v \in overtaken'[w] : w # c.w /\ (v \in overtaken[w] \/ v = c.w)
    BY <1>3, <1>5
  <2> QED
    BY <1>1, <1>4, <1>5, <1>6, <2>1, QueuedRotates
<1>8. queue \in Seq(Batch)
  BY <1>2 DEF QueueOK
<1> HIDE DEF queue
<1>9. PICK leaving \in SUBSET Windows : Unloads(leaving, queue, deactivated', disposed')
  BY <1>1, <1>2, FireUnloadsUnloads
<1>10. \A w \in Windows : window[w] # "closing" =>
         deactivated'[w] = deactivated[w] /\ disposed'[w] = disposed[w]
  BY <1>2
<1>11. \A w \in Windows : window'[w] # "closing" => overtaken'[w] = {}
  BY <1>3
<1>12. TypeOK' /\ QueueInv' /\ OpenUntouched' /\ TeardownInOrder' /\ Subscribed'
  BY <1>2, <1>3, <1>9, <1>10, <1>11, UnloadsKeeps
<1>13. OvertakenWait'
  <2> SUFFICES ASSUME NEW w \in Windows, NEW v \in overtaken'[w]
               PROVE  window'[w] = "closing" /\ window'[v] # "open" /\ v # w
    BY DEF OvertakenWait
  <2>1. window'[w] = "closing" /\ w # x /\ v \in Windows /\ (v \in overtaken[w] \/ v = x)
    BY <1>3
  <2>2. window[v] # "open" /\ v # w
    BY <1>1, <1>2, <2>1 DEF OvertakenWait
  <2>3. window'[v] = IF v \in leaving THEN "unloaded" ELSE window[v]
    BY <1>9, <2>1 DEF Unloads
  <2> QED
    BY <2>1, <2>2, <2>3
<1>14. Queued(closeQueue', overtaken')
  <2>1. \A k, l \in 1..Len(closeQueue') : k < l =>
          \E m, n \in 1..Len(queue) : m < n /\ queue[m] = closeQueue'[k] /\ queue[n] = closeQueue'[l]
    BY <1>9 DEF Unloads
  <2>2. Len(closeQueue') \in Nat /\ Len(queue) \in Nat
    BY <1>8, <1>12 DEF TypeOK
  <2>3. \A w \in Windows : overtaken'[w] \subseteq overtaken'[w] /\ w \notin overtaken'[w]
    BY <1>13 DEF OvertakenWait
  <2> QED
    BY <1>7, <2>1, <2>2, <2>3, QueuedKeeps
<1> QED
  BY <1>12, <1>13, <1>14 DEF Inv

\* A turn that finds nothing to serve.
Idle ==
  /\ FireUnloads(closeQueue, {})
  /\ scheduled' = FALSE
  /\ overtaken' = [w \in Windows |-> IF window'[w] = "closing" THEN overtaken[w] ELSE {}]
  /\ UNCHANGED <<deactivated, disposed, roster, audience>>

LEMMA IdleKeeps ==
  ASSUME Inv, Idle
  PROVE  Inv'
<1>1. TypeOK /\ QueueInv /\ OvertakenWait /\ Queued(closeQueue, overtaken)
  BY DEF Inv
<1>2. /\ QueueOK(closeQueue, window, roster, audience, deactivated', disposed')
      /\ FireUnloads(closeQueue, {})
      /\ deactivated' \in [Windows -> [Plugins -> Nat]]
      /\ disposed' \in [Windows -> [Plugins -> Nat]]
      /\ UNCHANGED <<deactivated, disposed, roster, audience>>
      /\ scheduled' \in BOOLEAN
  BY <1>1 DEF Idle, QueueInv, TypeOK
<1>3. /\ overtaken' \in [Windows -> SUBSET Windows]
      /\ \A w \in Windows : window'[w] # "closing" => overtaken'[w] = {}
      /\ \A w \in Windows : overtaken'[w] \subseteq overtaken[w]
  <2>1. overtaken \in [Windows -> SUBSET Windows]
    BY <1>1 DEF TypeOK
  <2>2. overtaken' = [w \in Windows |-> IF window'[w] = "closing" THEN overtaken[w] ELSE {}]
    BY DEF Idle
  <2> QED
    BY <2>1, <2>2
<1>4. PICK leaving \in SUBSET Windows : Unloads(leaving, closeQueue, deactivated', disposed')
  BY <1>1, <1>2, FireUnloadsUnloads
<1>5. \A w \in Windows : window[w] # "closing" =>
         deactivated'[w] = deactivated[w] /\ disposed'[w] = disposed[w]
  BY <1>2
<1>6. TypeOK' /\ QueueInv' /\ OpenUntouched' /\ TeardownInOrder' /\ Subscribed'
  BY <1>2, <1>3, <1>4, <1>5, UnloadsKeeps
<1>7. OvertakenWait'
  <2> SUFFICES ASSUME NEW w \in Windows, NEW v \in overtaken'[w]
               PROVE  window'[w] = "closing" /\ window'[v] # "open" /\ v # w
    BY DEF OvertakenWait
  <2>1. window'[w] = "closing" /\ v \in Windows /\ v \in overtaken[w]
    BY <1>3
  <2>2. window[v] # "open" /\ v # w
    BY <1>1, <2>1 DEF OvertakenWait
  <2>3. window'[v] = IF v \in leaving THEN "unloaded" ELSE window[v]
    BY <1>4, <2>1 DEF Unloads
  <2> QED
    BY <2>1, <2>2, <2>3
<1>8. Queued(closeQueue', overtaken')
  <2>1. \A k, l \in 1..Len(closeQueue') : k < l =>
          \E m, n \in 1..Len(closeQueue) :
             m < n /\ closeQueue[m] = closeQueue'[k] /\ closeQueue[n] = closeQueue'[l]
    BY <1>4 DEF Unloads
  <2>2. Len(closeQueue') \in Nat /\ Len(closeQueue) \in Nat
    BY <1>1, <1>6 DEF TypeOK
  <2>3. \A w \in Windows : overtaken'[w] \subseteq overtaken[w] /\ w \notin overtaken'[w]
    BY <1>3, <1>7 DEF OvertakenWait
  <2> QED
    BY <1>1, <2>1, <2>2, <2>3, QueuedKeeps
<1> QED
  BY <1>6, <1>7, <1>8 DEF Inv

LEMMA PumpCases ==
  ASSUME Inv, Pump
  PROVE  /\ UNCHANGED <<roster, audience>>
         /\ \/ Idle
            \/ \E i \in 1..Len(closeQueue), async \in BOOLEAN :
                 /\ Eligible(closeQueue[i]) /\ Serve(i, async)
                 /\ \A k \in 1..Len(closeQueue) : Eligible(closeQueue[k]) => i <= k
<1> DEFINE eligible == {i \in DOMAIN closeQueue : Eligible(closeQueue[i])}
<1>1. DOMAIN closeQueue = 1..Len(closeQueue) /\ eligible \subseteq Nat
  BY DEF Inv, TypeOK
<1>2. CASE eligible = {}
  BY <1>2 DEF Pump, Idle
<1>3. CASE eligible # {}
  <2>1. Min(eligible) \in eligible /\ \A k \in eligible : Min(eligible) <= k
    BY <1>1, <1>3, MinIsLeast
  <2>2. PICK async \in BOOLEAN : Serve(Min(eligible), async)
    BY <1>3 DEF Pump
  <2>3. Min(eligible) \in 1..Len(closeQueue) /\ Eligible(closeQueue[Min(eligible)])
    BY <1>1, <2>1
  <2>4. \A k \in 1..Len(closeQueue) : Eligible(closeQueue[k]) => Min(eligible) <= k
    BY <1>1, <2>1
  <2>5. UNCHANGED <<roster, audience>>
    BY DEF Pump
  <2> HIDE DEF eligible
  <2> QED
    BY <2>2, <2>3, <2>4, <2>5
<1> QED
  BY <1>2, <1>3

-----------------------------------------------------------------------------
LEMMA NextKeepsInv ==
  ASSUME Inv, Next
  PROVE  Inv'
<1>1. CASE \E w \in Windows : Destroyed(w)
  BY <1>1, DestroyedKeeps
<1>2. CASE \E s \in Subscribers : Subscribe(s) \/ Revoke(s)
  BY <1>2, SubscribeKeeps
<1>3. CASE Pump
  <2>1. CASE Idle
    BY <2>1, IdleKeeps
  <2>2. CASE \E i \in 1..Len(closeQueue), async \in BOOLEAN :
               Eligible(closeQueue[i]) /\ Serve(i, async)
    BY <1>3, <2>2, ServeKeeps, PumpCases
  <2> QED
    BY <1>3, <2>1, <2>2, PumpCases
<1>4. CASE \E w \in Windows : SliceEnds(w)
  BY <1>4, SliceEndsKeeps
<1>5. CASE WillQuit
  BY <1>5, WillQuitKeeps
<1> QED
  BY <1>1, <1>2, <1>3, <1>4, <1>5 DEF Next

LEMMA StutterKeepsInv ==
  ASSUME Inv, UNCHANGED vars
  PROVE  Inv'
<1>1. UNCHANGED <<window, closeQueue, scheduled, subscription, roster, audience, deactivated,
                  disposed, unloaded, overtaken>>
  BY DEF vars, pumpVars, historyVars
<1> QED
  BY <1>1 DEF Inv, TypeOK, QueueInv, OpenUntouched, TeardownInOrder, Subscribed, OvertakenWait,
              Queued

LEMMA Invariance == Spec => []Inv
<1>1. Inv /\ [Next]_vars => Inv'
  BY NextKeepsInv, StutterKeepsInv
<1> QED
  BY InitHasInv, <1>1, PTL DEF Spec

\* TypeOK of the background close path: in particular a batch's cursor never leaves its list,
\* the slice in flight is the one before the cursor, and the queue holds exactly one batch
\* for each window that is closing.
THEOREM TypeCorrect == Spec => []TypeOK
<1>1. Inv => TypeOK
  BY DEF Inv
<1> QED
  BY Invariance, <1>1, PTL

\* Each deactivate, each disposal and each onUnload happens at most once, and a window is
\* unloaded only after all its plugins are done (pumpCloseQueue, sweepUndisposedSync), for
\* any number of windows, any rosters and any subscribers.
THEOREM TeardownAlwaysInOrder == Spec => []TeardownInOrder
<1>1. Inv => TeardownInOrder
  BY DEF Inv
<1> QED
  BY Invariance, <1>1, PTL

\* Only a turn of the pump starts a deactivate, and it serves the first batch it can.
LEMMA ServesTheFirst ==
  ASSUME Inv, Next, NEW v \in Windows, deactivated'[v] # deactivated[v]
  PROVE  \E i \in 1..Len(closeQueue) :
           /\ closeQueue[i].w = v
           /\ \A k \in 1..Len(closeQueue) : Eligible(closeQueue[k]) => i <= k
<1>1. Pump /\ ~Idle
  BY DEF Next, Destroyed, Subscribe, Revoke, SliceEnds, WillQuit, Idle, historyVars
<1>2. PICK i \in 1..Len(closeQueue), async \in BOOLEAN :
        /\ Eligible(closeQueue[i]) /\ Serve(i, async)
        /\ \A k \in 1..Len(closeQueue) : Eligible(closeQueue[k]) => i <= k
  BY <1>1, PumpCases
<1>3. closeQueue[i].w = v
  BY <1>2, ServeRotates
<1> QED
  BY <1>2, <1>3

\* While a batch could be served, the pump serves no other window twice: it takes the first
\* batch it can and puts it behind all the others.
THEOREM PumpIsRoundRobin == Spec => RoundRobin
<1> DEFINE Fair ==
      \A v, w \in Windows :
        deactivated'[v] # deactivated[v] /\ v \in overtaken[w] =>
          \A i \in DOMAIN closeQueue : closeQueue[i].w = w => ~Eligible(closeQueue[i])
<1>1. Inv /\ [Next]_vars => [Fair]_vars
  <2> SUFFICES ASSUME Inv, Next, NEW v \in Windows, NEW w \in Windows,
                      deactivated'[v] # deactivated[v], v \in overtaken[w],
                      NEW i \in DOMAIN closeQueue, closeQueue[i].w = w, Eligible(closeQueue[i])
               PROVE  FALSE
    OBVIOUS
  <2>1. i \in 1..Len(closeQueue) /\ Queued(closeQueue, overtaken)
    BY DEF Inv, TypeOK
  <2>2. PICK j \in 1..Len(closeQueue) :
          /\ closeQueue[j].w = v
          /\ \A k \in 1..Len(closeQueue) : Eligible(closeQueue[k]) => j <= k
    BY ServesTheFirst
  <2>3. j <= i
    BY <2>1, <2>2
  <2>4. i < j
    BY <2>1, <2>2 DEF Queued
  <2> QED
    BY <2>1, <2>3, <2>4
<1> HIDE DEF Fair
<1>2. Spec => [][Fair]_vars
  BY Invariance, <1>1, PTL DEF Spec
<1> QED
  BY <1>2 DEF RoundRobin, Fair

\* What will-quit leaves of a batch are slices already started, and raw plugins.
LEMMA SweptAhead ==
  ASSUME Inv, WillQuit, NEW i \in 1..Len(closeQueue)
  PROVE  /\ closeQueue'[i].inFlight = closeQueue[i].inFlight
         /\ closeQueue'[i].w = closeQueue[i].w
         /\ Ahead(closeQueue'[i]) \subseteq RawPlugins
         /\ Len(closeQueue') = Len(closeQueue)
<1> DEFINE b == closeQueue[i]
           r == Unswept(b.snaps, b.cursor)
           c == [b EXCEPT !.snaps = r]
<1>1. /\ closeQueue \in Seq(Batch) /\ DOMAIN closeQueue = 1..Len(closeQueue)
      /\ Len(closeQueue) \in Nat
      /\ BatchOK(b, roster[b.w], audience[b.w], deactivated[b.w], disposed[b.w])
  BY DEF Inv, TypeOK, QueueInv, QueueOK
<1>2. /\ closeQueue' = [k \in 1..Len(closeQueue) |->
                          [closeQueue[k] EXCEPT !.snaps = Unswept(@, closeQueue[k].cursor)]]
  BY <1>1 DEF WillQuit
<1>3. closeQueue'[i] = c /\ Len(closeQueue') = Len(closeQueue) /\ b \in Batch
  BY <1>1, <1>2
<1>4. /\ b.snaps \in Seq(Plugins) /\ b.cursor \in 0..Len(b.snaps)
      /\ \A k, l \in 1..Len(b.snaps) : b.snaps[k] = b.snaps[l] => k = l
  BY <1>1, <1>3, BatchHas DEF BatchOK
<1> HIDE DEF b
<1>5. \A k \in b.cursor + 1..Len(r) : r[k] \in RawPlugins
  <2> DEFINE s == b.snaps
             n == b.cursor
  <2>1. s \in Seq(Plugins) /\ n \in 0..Len(s) /\ \A k, l \in 1..Len(s) : s[k] = s[l] => k = l
    BY <1>4
  <2> HIDE DEF s, n
  <2>2. \A k \in n + 1..Len(Unswept(s, n)) :
          \E l \in n + 1..Len(s) : Unswept(s, n)[k] = s[l] /\ s[l] \in RawPlugins
    BY <2>1, UnsweptProperties
  <2> QED
    BY <2>2 DEF s, n
<1> HIDE DEF r
<1>6. c.snaps = r /\ c.cursor = b.cursor /\ c.inFlight = b.inFlight /\ c.w = b.w
  BY <1>3 DEF Batch
<1>7. Ahead(c) \subseteq RawPlugins
  BY <1>5, <1>6 DEF Ahead
<1> QED
  BY <1>3, <1>6, <1>7 DEF b

\* When will-quit has swept the queue, the only VMs left in closed windows are those whose
\* deactivate is still running.
THEOREM SweepSparesOnlySlices == Spec => SweepLeavesOnlySlices
<1> DEFINE Spared ==
      WillQuit => \A w \in Windows, p \in Plugins \ RawPlugins :
        p \in roster[w] /\ disposed'[w][p] = 0 =>
          \E i \in DOMAIN closeQueue : closeQueue[i].w = w /\ closeQueue[i].inFlight = p
<1>1. Inv /\ [Next]_vars => [Spared]_vars
  <2> SUFFICES ASSUME Inv, Next, WillQuit, NEW w \in Windows, NEW p \in Plugins \ RawPlugins,
                      p \in roster[w], disposed'[w][p] = 0
               PROVE  \E i \in DOMAIN closeQueue :
                        closeQueue[i].w = w /\ closeQueue[i].inFlight = p
    OBVIOUS
  <2>1. TypeOK' /\ OpenUntouched' /\ TeardownInOrder' /\ QueueInv'
    BY NextKeepsInv DEF Inv
  <2>2. roster' = roster
    BY DEF WillQuit
  <2>3. window'[w] = "closing"
    <3>1. window'[w] \in {"open", "closing", "unloaded"}
      BY <2>1 DEF TypeOK
    <3>2. window'[w] # "open"
      BY <2>1, <2>2 DEF OpenUntouched
    <3>3. window'[w] # "unloaded"
      BY <2>1, <2>2 DEF TeardownInOrder
    <3> QED
      BY <3>1, <3>2, <3>3
  <2>4. PICK i \in 1..Len(closeQueue') :
          /\ closeQueue'[i].w = w
          /\ BatchOK(closeQueue'[i], roster'[w], audience'[w], deactivated'[w], disposed'[w])
    BY <2>1, <2>3 DEF QueueInv, QueueOK
  <2>5. p \in Ahead(closeQueue'[i]) \cup {closeQueue'[i].inFlight}
    BY <2>2, <2>4 DEF BatchOK
  <2>6. Len(closeQueue') = Len(closeQueue) /\ DOMAIN closeQueue = 1..Len(closeQueue)
    <3>1. /\ closeQueue \in Seq(Batch) /\ DOMAIN closeQueue = 1..Len(closeQueue)
          /\ Len(closeQueue) \in Nat
      BY DEF Inv, TypeOK
    <3>2. DOMAIN closeQueue' = 1..Len(closeQueue)
      BY <3>1 DEF WillQuit
    <3>3. closeQueue' \in Seq(Batch)
      BY <2>1 DEF TypeOK
    <3> QED
      BY <3>1, <3>2, <3>3
  <2>7. /\ closeQueue'[i].inFlight = closeQueue[i].inFlight
        /\ closeQueue'[i].w = closeQueue[i].w
        /\ Ahead(closeQueue'[i]) \subseteq RawPlugins
    BY <2>6, SweptAhead
  <2> QED
    BY <2>4, <2>5, <2>6, <2>7
<1> HIDE DEF Spared
<1>2. Spec => [][Spared]_vars
  BY Invariance, <1>1, PTL DEF Spec
<1> QED
  BY <1>2 DEF SweepLeavesOnlySlices, Spared

-----------------------------------------------------------------------------
(***************************************************************************)
(* The pump implements the promise of WindowTeardown.  Every window takes  *)
(* a step of its own of the promise: it closes, its plugins are cleaned    *)
(* up, it is unloaded, or it rests.                                        *)
(***************************************************************************)
Owed == [w \in Windows |-> {p \in roster[w] :
           IF p \in RawPlugins THEN deactivated[w][p] = 0 ELSE disposed[w][p] = 0}]
HaveHeard == [w \in Windows |-> {s \in Subscribers : unloaded[w][s] > 0}]

LEMMA NobodyHeard ==
  ASSUME TypeOK, TeardownInOrder, NEW w \in Windows, window[w] # "unloaded"
  PROVE  HaveHeard[w] = {}
<1>1. \A s \in Subscribers : unloaded[w][s] = 0
  <2> SUFFICES ASSUME NEW s \in Subscribers
               PROVE  unloaded[w][s] = 0
    OBVIOUS
  <2>1. unloaded[w][s] \in Nat /\ unloaded[w][s] <= 1
    BY DEF TypeOK, TeardownInOrder
  <2>2. unloaded[w][s] # 1
    BY DEF TeardownInOrder
  <2> QED
    BY <2>1, <2>2, NoneOrOne
<1> QED
  BY <1>1 DEF HaveHeard

LEMMA RestsIf ==
  ASSUME NEW w \in Windows, window'[w] = window[w], roster'[w] = roster[w],
         audience'[w] = audience[w], deactivated'[w] = deactivated[w],
         disposed'[w] = disposed[w],
         \A s \in Subscribers : unloaded'[w][s] = unloaded[w][s]
  PROVE  Promise!Rest(w)
<1>1. Owed'[w] = Owed[w]
  BY DEF Owed
<1>2. HaveHeard'[w] = HaveHeard[w]
  BY DEF HaveHeard
<1> QED
  BY <1>1, <1>2 DEF Promise!Rest, Owed, HaveHeard

LEMMA CleansUpIf ==
  ASSUME NEW w \in Windows, Inv, Inv', window[w] = "closing", window'[w] = "closing",
         roster'[w] = roster[w], audience'[w] = audience[w],
         \A p \in Plugins : /\ deactivated'[w][p] = 0 => deactivated[w][p] = 0
                            /\ disposed'[w][p] = 0 => disposed[w][p] = 0
  PROVE  Promise!CleanUp(w)
<1>1. roster[w] \subseteq Plugins
  BY DEF Inv, TypeOK
<1>2. Owed'[w] \subseteq Owed[w]
  BY <1>1 DEF Owed
<1>3. HaveHeard'[w] = {}
  <2>1. ASSUME TypeOK', TeardownInOrder', window'[w] # "unloaded"
        PROVE  HaveHeard'[w] = {}
    <3>1. \A s \in Subscribers : unloaded'[w][s] = 0
      <4> SUFFICES ASSUME NEW s \in Subscribers
                   PROVE  unloaded'[w][s] = 0
        OBVIOUS
      <4>1. unloaded'[w][s] \in Nat /\ unloaded'[w][s] <= 1
        BY <2>1 DEF TypeOK, TeardownInOrder
      <4>2. unloaded'[w][s] # 1
        BY <2>1 DEF TeardownInOrder
      <4> QED
        BY <4>1, <4>2, NoneOrOne
    <3> QED
      BY <3>1 DEF HaveHeard
  <2> QED
    BY <2>1 DEF Inv
<1> QED
  BY <1>2, <1>3 DEF Promise!CleanUp, Owed, HaveHeard

\* Nothing is undone: a deactivate that was started and a VM that is gone stay so.
LEMMA CountsGrow ==
  ASSUME Inv, Next, NEW w \in Windows, NEW p \in Plugins
  PROVE  /\ deactivated'[w][p] = 0 => deactivated[w][p] = 0
         /\ disposed'[w][p] = 0 => disposed[w][p] = 0
<1>1. /\ deactivated \in [Windows -> [Plugins -> Nat]]
      /\ disposed \in [Windows -> [Plugins -> Nat]]
  BY DEF Inv, TypeOK
<1>2. CASE UNCHANGED <<deactivated, disposed>>
  BY <1>2
<1>3. ASSUME NEW i \in 1..Len(closeQueue), NEW async \in BOOLEAN, Serve(i, async)
      PROVE  /\ deactivated'[w][p] = 0 => deactivated[w][p] = 0
             /\ disposed'[w][p] = 0 => disposed[w][p] = 0
  <2> DEFINE v == closeQueue[i].w
             q == closeQueue[i].snaps[closeQueue[i].cursor + 1]
             d == IF async \/ q \in RawPlugins THEN 0 ELSE 1
  <2>1. /\ deactivated' = [deactivated EXCEPT ![v][q] = @ + 1]
        /\ disposed' = [disposed EXCEPT ![v][q] = @ + d] /\ d \in Nat
    BY <1>3 DEF Serve
  <2> HIDE DEF v, q, d
  <2> QED
    BY <1>1, <2>1
<1>4. ASSUME NEW v \in Windows, SliceEnds(v)
      PROVE  /\ deactivated'[w][p] = 0 => deactivated[w][p] = 0
             /\ disposed'[w][p] = 0 => disposed[w][p] = 0
  <2>1. PICK q : disposed' = [disposed EXCEPT ![v][q] = @ + 1] /\ deactivated' = deactivated
    BY <1>4 DEF SliceEnds
  <2> QED
    BY <1>1, <2>1
<1>5. ASSUME WillQuit
      PROVE  /\ deactivated'[w][p] = 0 => deactivated[w][p] = 0
             /\ disposed'[w][p] = 0 => disposed[w][p] = 0
  <2>1. \E d \in Nat : disposed'[w][p] = disposed[w][p] + d
    BY <1>5 DEF WillQuit
  <2>2. deactivated' = deactivated
    BY <1>5 DEF WillQuit
  <2> QED
    BY <1>1, <2>1, <2>2
<1>6. CASE Pump
  BY <1>2, <1>3, <1>6, PumpCases DEF Idle
<1> QED
  BY <1>2, <1>4, <1>5, <1>6 DEF Next, Destroyed, Subscribe, Revoke, historyVars

LEMMA PumpImplements ==
  ASSUME Inv, Inv', Next, Pump
  PROVE  Promise!Next
<1>1. UNCHANGED <<roster, audience>>
  BY PumpCases
<1>2. PICK x, queue, leaving :
        /\ leaving \in SUBSET Windows
        /\ Unloads(leaving, queue, deactivated', disposed')
        /\ \A w \in Windows : w # x => deactivated'[w] = deactivated[w] /\ disposed'[w] = disposed[w]
        /\ x \in Windows => window[x] = "closing"
        /\ x \notin leaving
  <2>1. CASE Idle
    <3>1. /\ QueueOK(closeQueue, window, roster, audience, deactivated', disposed')
          /\ FireUnloads(closeQueue, {}) /\ TypeOK
          /\ UNCHANGED <<deactivated, disposed>>
      BY <2>1 DEF Inv, QueueInv, Idle
    <3>2. PICK leaving \in SUBSET Windows : Unloads(leaving, closeQueue, deactivated', disposed')
      BY <3>1, FireUnloadsUnloads
    <3>3. PICK x : x \notin Windows
      BY NoSetContainsEverything
    <3> QED
      BY <3>1, <3>2, <3>3
  <2>2. CASE \E i \in 1..Len(closeQueue), async \in BOOLEAN :
               Eligible(closeQueue[i]) /\ Serve(i, async)
    <3>1. PICK i \in 1..Len(closeQueue), async \in BOOLEAN :
            Eligible(closeQueue[i]) /\ Serve(i, async)
      BY <2>2
    <3> DEFINE x == closeQueue[i].w
               queue == Rotate(closeQueue, i, ServedBatch(closeQueue[i], async))
    <3>2. /\ QueueOK(queue, window, roster, audience, deactivated', disposed')
          /\ FireUnloads(queue, {x}) /\ TypeOK
          /\ \A w \in Windows : w # x => deactivated'[w] = deactivated[w] /\ disposed'[w] = disposed[w]
          /\ window[x] = "closing" /\ x \in Windows
      BY <3>1, ServeRotates DEF Inv
    <3> HIDE DEF x, queue
    <3>3. PICK leaving \in SUBSET Windows :
            Unloads(leaving, queue, deactivated', disposed') /\ leaving \cap {x} = {}
      BY <3>2, FireUnloadsUnloads
    <3> QED
      BY <3>2, <3>3
  <2> QED
    BY <2>1, <2>2, PumpCases
<1>3. /\ \A w \in Windows : window'[w] = IF w \in leaving THEN "unloaded" ELSE window[w]
      /\ \A w \in leaving : window[w] = "closing"
      /\ \A w \in leaving : \A p \in roster[w] :
           IF p \in RawPlugins THEN deactivated'[w][p] = 1 ELSE disposed'[w][p] = 1
      /\ \A w \in Windows, s \in Subscribers :
           \/ unloaded'[w][s] = unloaded[w][s]
           \/ w \in leaving /\ s \in audience[w] /\ unloaded'[w][s] = unloaded[w][s] + 1
  BY <1>2 DEF Unloads
<1>4. ASSUME NEW w \in leaving
      PROVE  Promise!Unload(w)
  <2>1. w \in Windows /\ window[w] = "closing" /\ window'[w] = "unloaded"
    BY <1>2, <1>3
  <2>2. deactivated'[w] = deactivated[w] /\ disposed'[w] = disposed[w]
    BY <1>2
  <2>3. roster'[w] = roster[w] /\ audience'[w] = audience[w]
    BY <1>1
  <2>4. \A p \in roster[w] :
          IF p \in RawPlugins THEN deactivated[w][p] = 1 ELSE disposed[w][p] = 1
    BY <1>3, <2>2
  <2>5. Owed[w] = {} /\ Owed'[w] = {}
    BY <2>1, <2>2, <2>3, <2>4 DEF Owed
  <2>6. HaveHeard[w] = {}
    BY <2>1, NobodyHeard DEF Inv
  <2>7. HaveHeard'[w] \subseteq audience[w]
    <3> SUFFICES ASSUME NEW s \in Subscribers, unloaded'[w][s] > 0
                 PROVE  s \in audience[w]
      BY <2>1 DEF HaveHeard
    <3>1. ~(unloaded[w][s] > 0)
      BY <2>1, <2>6 DEF HaveHeard
    <3>2. unloaded'[w][s] # unloaded[w][s]
      BY <3>1
    <3> QED
      BY <1>3, <2>1, <3>2
  <2> QED
    BY <2>1, <2>3, <2>5, <2>7 DEF Promise!Unload, Owed, HaveHeard
<1>5. ASSUME NEW w \in Windows, w \notin leaving, window[w] = "closing"
      PROVE  Promise!CleanUp(w)
  <2>1. window'[w] = "closing" /\ roster'[w] = roster[w] /\ audience'[w] = audience[w]
    BY <1>1, <1>3, <1>5
  <2>2. \A p \in Plugins : /\ deactivated'[w][p] = 0 => deactivated[w][p] = 0
                           /\ disposed'[w][p] = 0 => disposed[w][p] = 0
    BY CountsGrow
  <2> QED
    BY <1>5, <2>1, <2>2, CleansUpIf
<1>6. ASSUME NEW w \in Windows, w \notin leaving, window[w] # "closing"
      PROVE  Promise!Rest(w)
  <2>1. window'[w] = window[w] /\ roster'[w] = roster[w] /\ audience'[w] = audience[w]
    BY <1>1, <1>3, <1>6
  <2>2. deactivated'[w] = deactivated[w] /\ disposed'[w] = disposed[w]
    BY <1>2, <1>6
  <2>3. \A s \in Subscribers : unloaded'[w][s] = unloaded[w][s]
    BY <1>3, <1>6
  <2> QED
    BY <2>1, <2>2, <2>3, RestsIf
<1> QED
  BY <1>4, <1>5, <1>6 DEF Promise!Next

LEMMA DestroyedImplements ==
  ASSUME Inv, NEW v \in Windows, Destroyed(v)
  PROVE  Promise!Next
<1>1. PICK r \in Rosters : roster' = [roster EXCEPT ![v] = ToSet(r)]
  BY DEF Destroyed
<1>2. /\ window[v] = "open" /\ window' = [window EXCEPT ![v] = "closing"]
      /\ audience' = [audience EXCEPT ![v] = Live]
      /\ UNCHANGED <<deactivated, disposed, unloaded>>
  BY DEF Destroyed
<1>3. /\ window \in [Windows -> {"open", "closing", "unloaded"}]
      /\ roster \in [Windows -> SUBSET Plugins] /\ audience \in [Windows -> SUBSET Subscribers]
  BY DEF Inv, TypeOK
<1>4. /\ window'[v] = "closing" /\ roster'[v] = ToSet(r) /\ audience'[v] = Live
      /\ \A w \in Windows : w # v =>
           window'[w] = window[w] /\ roster'[w] = roster[w] /\ audience'[w] = audience[w]
  BY <1>1, <1>2, <1>3
<1>5. ToSet(r) \subseteq Plugins /\ Live \subseteq Subscribers
  BY RostersAssumption DEF ToSet, Live
<1>6. Promise!Close(v)
  <2>1. Owed'[v] \subseteq Plugins
    BY <1>4, <1>5 DEF Owed
  <2>2. HaveHeard[v] = {} /\ HaveHeard' = HaveHeard
    BY <1>2, NobodyHeard DEF Inv, HaveHeard
  <2>3. HaveHeard'[v] = {}
    BY <2>2
  <2> QED
    BY <1>2, <1>4, <1>5, <2>1, <2>3 DEF Promise!Close, Owed, HaveHeard
<1>7. \A w \in Windows : w # v => Promise!Rest(w)
  BY <1>2, <1>4, RestsIf
<1> QED
  BY <1>6, <1>7 DEF Promise!Next

LEMMA OthersImplement ==
  ASSUME Inv, Inv', Next,
         \/ \E s \in Subscribers : Subscribe(s) \/ Revoke(s)
         \/ \E w \in Windows : SliceEnds(w)
         \/ WillQuit
  PROVE  Promise!Next
<1>1. UNCHANGED <<window, roster, audience, unloaded>>
  BY DEF Subscribe, Revoke, SliceEnds, WillQuit, historyVars
<1>2. ASSUME NEW w \in Windows, window[w] # "closing"
      PROVE  deactivated'[w] = deactivated[w] /\ disposed'[w] = disposed[w]
  <2>1. /\ TypeOK /\ QueueInv /\ disposed \in [Windows -> [Plugins -> Nat]]
        /\ DOMAIN closeQueue = 1..Len(closeQueue)
    BY DEF Inv, TypeOK
  <2>2. CASE \E s \in Subscribers : Subscribe(s) \/ Revoke(s)
    BY <2>2 DEF Subscribe, Revoke, historyVars
  <2>3. CASE \E u \in Windows : SliceEnds(u)
    <3>0. PICK u \in Windows, i \in 1..Len(closeQueue) :
            /\ closeQueue[i].w = u /\ deactivated' = deactivated
            /\ disposed' = [disposed EXCEPT ![u][closeQueue[i].inFlight] = @ + 1]
      BY <2>1, <2>3 DEF SliceEnds
    <3> DEFINE q == closeQueue[i].inFlight
    <3>1. /\ closeQueue[i].w = u /\ deactivated' = deactivated
          /\ disposed' = [disposed EXCEPT ![u][q] = @ + 1]
      BY <3>0
    <3> HIDE DEF q
    <3>2. u # w
      BY <1>2, <2>1, <3>1 DEF QueueInv, QueueOK
    <3> QED
      BY <2>1, <3>1, <3>2
  <2>4. CASE WillQuit
    <3> DEFINE SweptOf(u) == UNION {{b.snaps[k] : k \in Swept(b)} :
                                      b \in {x \in ToSet(closeQueue) : x.w = u}}
    <3>1. disposed' = [u \in Windows |-> [p \in Plugins |->
                         disposed[u][p] + (IF p \in SweptOf(u) THEN 1 ELSE 0)]]
      BY <2>4 DEF WillQuit
    <3>2. SweptOf(w) = {}
      BY <1>2, <2>1 DEF ToSet, QueueInv, QueueOK
    <3> HIDE DEF SweptOf
    <3>3. disposed'[w] = disposed[w]
      BY <2>1, <3>1, <3>2
    <3> QED
      BY <2>4, <3>3 DEF WillQuit
  <2> QED
    BY <2>2, <2>3, <2>4
<1>3. ASSUME NEW w \in Windows
      PROVE  Promise!CleanUp(w) \/ Promise!Rest(w)
  <2>1. CASE window[w] = "closing"
    BY <1>1, <2>1, CountsGrow, CleansUpIf
  <2>2. CASE window[w] # "closing"
    BY <1>1, <1>2, <2>2, RestsIf
  <2> QED
    BY <2>1, <2>2
<1> QED
  BY <1>3 DEF Promise!Next

LEMMA NextImplements ==
  ASSUME Inv, Inv', [Next]_vars
  PROVE  [Promise!Next]_Promise!vars
<1>1. CASE \E w \in Windows : Destroyed(w)
  BY <1>1, DestroyedImplements
<1>2. CASE Pump
  BY <1>2, PumpImplements DEF Next
<1>3. CASE \/ \E s \in Subscribers : Subscribe(s) \/ Revoke(s)
           \/ \E w \in Windows : SliceEnds(w)
           \/ WillQuit
  <2>1. Next
    BY <1>3 DEF Next
  <2> QED
    BY <1>3, <2>1, OthersImplement
<1>4. CASE UNCHANGED vars
  BY <1>4 DEF vars, pumpVars, historyVars, Promise!vars
<1> QED
  BY <1>1, <1>2, <1>3, <1>4 DEF Next

\* Whatever the pump, its timeouts and will-quit do, they implement the promise that closing
\* a window makes (docs/SPEC.md:182-191): a window is released at once, what is owed to it
\* only shrinks, and its subscribers are told when nothing is owed any more, and once.
THEOREM PumpKeepsThePromise == Spec => ImplementsPromise
<1>1. Init => Promise!Init
  BY DEF Init, Promise!Init
<1>2. Inv /\ Inv' /\ [Next]_vars => [Promise!Next]_Promise!vars
  BY NextImplements
<1>3. Spec => Promise!Spec
  BY Invariance, <1>1, <1>2, PTL DEF Spec, Promise!Spec
<1> QED
  BY <1>3 DEF ImplementsPromise
=============================================================================
