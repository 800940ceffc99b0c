------------------------- MODULE HandoffQueueProofs -------------------------
(***************************************************************************)
(* For any number of threads, items and enqueues: HandoffQueue keeps its   *)
(* types, serves first come first served, implements TicketQueue, and its  *)
(* counters count what they should and never drop below zero.              *)
(***************************************************************************)
EXTENDS HandoffQueue, CommonLemmas

(* A program that has not called initQueue has all types right.            *)
LEMMA TypeInit == Init => TypeOK
<1> SUFFICES ASSUME Init PROVE TypeOK
  OBVIOUS
<1>1. nodes \in Seq(Items) /\ threadNodes \in Seq(Threads) /\ accepted \in Seq(Items)
  BY EmptySeq DEF Init
<1>2. inUse \in BOOLEAN /\ noLock \in [Threads -> BOOLEAN]
  BY Zenon DEF Init
<1>3. /\ queueLock \in Threads \cup {Nothing}
      /\ qSize \in Int /\ dqWaiting \in Int /\ passingCounter \in Nat
      /\ requests \in Nat /\ ticket \in [Threads -> Nat]
  BY DEF Init
<1>4. /\ pc \in [Threads -> {"idle", "inserted", "waiting", "signalled",
                             "took", "counted", "leaving"}]
      /\ threadNode \in [Threads -> {"none", "live", "freed"}]
  BY DEF Init
<1>5. /\ data \in [Threads -> Items \cup {Nothing, Garbage}]
      /\ local \in [Threads -> Items \cup {Nothing, Garbage}]
      /\ ret \in [Threads -> Items \cup {Nothing, Garbage}]
  BY DEF Init
<1> QED BY <1>1, <1>2, <1>3, <1>4, <1>5, Zenon DEF TypeOK

(* Every operation of the queue keeps the types.                           *)
LEMMA TypeStep == TypeOK /\ [Next]_vars => TypeOK'
<1> SUFFICES ASSUME TypeOK, [Next]_vars PROVE TypeOK'
  OBVIOUS
<1> USE DEF TypeOK
<1>1. ASSUME NEW t \in Threads, initQueue(t) PROVE TypeOK'
  BY <1>1, EmptySeq DEF initQueue, memory
<1>2. ASSUME NEW t \in Threads, destroyQueue(t) PROVE TypeOK'
  BY <1>2, EmptySeq DEF destroyQueue, keepCounters, counters
<1>3. ASSUME NEW t \in Threads, NEW d \in Items, enqueue(t, d) PROVE TypeOK'
  <2>1. accepted' \in Seq(Items) /\ Append(nodes, d) \in Seq(Items)
    BY <1>3, AppendElements DEF enqueue
  <2>2. CASE threadNodes # <<>> /\ handOver(t, Head(threadNodes), d)
    <3>1. Head(threadNodes) \in Threads /\ Tail(threadNodes) \in Seq(Threads)
      BY <2>2, TailElements
    <3> QED BY <1>3, <2>1, <2>2, <3>1
            DEF enqueue, Lock, handOver, popThread, fillNode, counters
  <2>3. CASE threadNodes = <<>> /\ appendItem(t, d)
    BY <1>3, <2>1, <2>3 DEF enqueue, Lock, appendItem, counters
  <2> QED BY <1>3, <2>2, <2>3 DEF enqueue
<1>4. ASSUME NEW t \in Threads, enqueueCount(t) PROVE TypeOK'
  BY <1>4 DEF enqueueCount, Unlock, memory, history
<1>5. ASSUME NEW t \in Threads, takeHead(t) PROVE TypeOK'
  <2>1. Head(nodes) \in Items /\ Tail(nodes) \in Seq(Items)
    BY <1>5, TailElements DEF takeHead
  <2> QED BY <1>5, <2>1 DEF takeHead, Lock, NewTicket, counters, memory
<1>6. ASSUME NEW t \in Threads, dequeueWait(t) PROVE TypeOK'
  <2>1. Append(threadNodes, t) \in Seq(Threads)
    BY AppendElements
  <2> QED BY <1>6, <2>1 DEF dequeueWait, addThread, NewTicket
<1>7. ASSUME NEW t \in Threads, dequeueResume(t) PROVE TypeOK'
  BY <1>7 DEF dequeueResume, backFromWait, Lock, history
<1>8. ASSUME NEW t \in Threads, dequeueVisit(t) PROVE TypeOK'
  BY <1>8 DEF dequeueVisit, countVisit, memory, history
<1>9. ASSUME NEW t \in Threads, dequeueReturn(t) PROVE TypeOK'
  BY <1>9 DEF dequeueReturn, Unlock, memory
<1>10. ASSUME NEW t \in Threads, tryDequeueRefuse(t) PROVE TypeOK'
  BY <1>10 DEF tryDequeueRefuse, counters, memory
<1>11. CASE UNCHANGED vars
  BY <1>11 DEF vars, counters, memory, history
<1> QED BY <1>1, <1>2, <1>3, <1>4, <1>5, <1>6, <1>7, <1>8, <1>9, <1>10, <1>11
        DEF Next, Step

(* Every variable keeps its type, for any number of threads and items.     *)
THEOREM TypeCorrect == Spec => []TypeOK
BY TypeInit, TypeStep, PTL DEF Spec

-----------------------------------------------------------------------------
(* The inductive invariant.  Its first part is about one list and the      *)
(* other: the mutex excludes, and nodes that are linked are alive.         *)
Holding == {"inserted", "took", "counted", "leaving"}

Mutex == \A t \in Threads : pc[t] \in Holding => queueLock = t

Linked == Mutex /\ NoItemPassesAWaiter /\ NodesAlive

(* Its second part numbers items and requests.  In a queue that is in use  *)
(* the linked items are those after the last request, the linked threads   *)
(* have the numbers after the last item, and a request that is no longer   *)
(* linked has the item with its own number in hand.                        *)
NumbersMatch ==
  /\ Len(accepted) + Len(threadNodes) = requests + Len(nodes)
  /\ \A i \in 1 .. Len(nodes) : nodes[i] = accepted[requests + i]
  /\ \A i \in 1 .. Len(threadNodes) :
       ticket[threadNodes[i]] = Len(accepted) + i

HasItem(t, d) == ticket[t] \in 1 .. Len(accepted) /\ d = accepted[ticket[t]]

InHand(t) ==
  /\ pc[t] \in {"idle", "inserted"} => ticket[t] = 0 /\ threadNode[t] = "none"
  /\ pc[t] = "waiting" =>
       t \in Range(threadNodes) \/ (ticket[t] = 0 /\ threadNode[t] = "freed")
  /\ pc[t] = "signalled" => HasItem(t, data[t]) /\ noLock[t] = TRUE
  /\ pc[t] \in {"took", "counted"} =>
       HasItem(t, local[t]) /\ threadNode[t] = "none"
  /\ pc[t] # "leaving"

Numbered ==
  /\ inUse => NumbersMatch
  /\ ~ inUse => nodes = <<>> /\ threadNodes = <<>>
  /\ \A t \in Threads : InHand(t)

-----------------------------------------------------------------------------
(* At the start nobody holds the mutex and nothing is linked.              *)
LEMMA LinkedInit == Init => Linked
<1> SUFFICES ASSUME Init PROVE Linked
  OBVIOUS
<1>1. Range(threadNodes) = {} /\ Len(threadNodes) = 0
  BY EmptySeq DEF Init, Range
<1> QED BY <1>1 DEF Init, Linked, Mutex, Holding, NoItemPassesAWaiter,
                     NodesAlive, In

(* Every operation keeps the mutex exclusive, the two lists from being     *)
(* filled at once, and the linked nodes alive.                             *)
LEMMA LinkedStep == TypeOK /\ Linked /\ [Next]_vars => Linked'
<1> SUFFICES ASSUME TypeOK, Linked, [Next]_vars PROVE Linked'
  OBVIOUS
<1> USE DEF TypeOK, Linked
<1>0. TypeOK' /\ Nothing \notin Threads
  BY TypeStep, ConstantsAssumption
<1>1. ASSUME NEW t \in Threads, initQueue(t) PROVE Linked'
  <2>1. Range(threadNodes') = {} /\ Len(threadNodes') = 0
    BY <1>1, EmptySeq DEF initQueue, Range
  <2>2. \A u \in Threads : pc'[u] \in {"idle", "waiting"}
    BY <1>1 DEF initQueue, Joined
  <2>3. Mutex' /\ NoItemPassesAWaiter'
    BY <1>1, <2>2 DEF initQueue, Mutex, Holding, NoItemPassesAWaiter
  <2>4. /\ \A u \in Range(threadNodes') : pc'[u] = "waiting" /\ threadNode'[u] = "live"
        /\ \A i, j \in 1 .. Len(threadNodes') :
             threadNodes'[i] = threadNodes'[j] => i = j
    BY <2>1
  <2>5. \A u \in Threads : pc'[u] # "signalled"
    BY <2>2
  <2>6. NodesAlive'
    BY <2>4, <2>5, Zenon DEF NodesAlive, In
  <2> QED BY <2>3, <2>6
<1>2. ASSUME NEW t \in Threads, destroyQueue(t) PROVE Linked'
  <2>1. Range(threadNodes') = {} /\ Len(threadNodes') = 0
    BY <1>2, EmptySeq DEF destroyQueue, Range
  <2>2. Mutex' /\ NoItemPassesAWaiter'
    BY <1>2 DEF destroyQueue, Mutex, NoItemPassesAWaiter
  <2>3. \A u \in In({"signalled"}) : u \notin Range(threadNodes)
    BY DEF NodesAlive, In
  <2>4. NodesAlive'
    BY <1>2, <2>1, <2>3 DEF destroyQueue, NodesAlive, In
  <2> QED BY <2>2, <2>4
<1>3. ASSUME NEW t \in Threads, NEW d \in Items, enqueue(t, d) PROVE Linked'
  <2>1. \A u \in Threads : pc[u] \notin Holding
    BY <1>0, <1>3 DEF enqueue, Lock, Mutex
  <2>2. CASE threadNodes # <<>> /\ handOver(t, Head(threadNodes), d)
    <3> DEFINE w == Head(threadNodes)
    <3>0. \A i, j \in 1 .. Len(threadNodes) :
             threadNodes[i] = threadNodes[j] => i = j
      BY DEF NodesAlive
    <3>1. /\ w \in Threads /\ w = threadNodes[1]
          /\ Len(threadNodes) \in Nat \ {0}
          /\ Len(threadNodes') = Len(threadNodes) - 1
          /\ \A i \in 1 .. Len(threadNodes') : threadNodes'[i] = threadNodes[i + 1]
          /\ Range(threadNodes) = Range(threadNodes') \cup {w}
      BY <2>2, TailElements DEF handOver, popThread
    <3>2. pc[w] = "waiting" /\ threadNode[w] = "live" /\ t # w
      BY <1>3, <3>1 DEF NodesAlive, enqueue
    <3>3. pc' = [pc EXCEPT ![w] = "signalled", ![t] = "inserted"]
      BY <2>2 DEF handOver
    <3>4. Mutex'
      BY <1>3, <2>1, <3>1, <3>3 DEF Mutex, Holding, enqueue, Lock
    <3>5. NoItemPassesAWaiter'
      BY <2>2 DEF NoItemPassesAWaiter, handOver
    <3>6. w \notin Range(threadNodes')
      <4> SUFFICES ASSUME w \in Range(threadNodes') PROVE FALSE
        OBVIOUS
      <4>1. threadNodes' \in Seq(Threads)
        BY <1>0 DEF TypeOK
      <4>2. Range(threadNodes') =
              {threadNodes'[i] : i \in 1 .. Len(threadNodes')}
        BY <4>1, RangeEquality
      <4>3. PICK i \in 1 .. Len(threadNodes') : threadNodes'[i] = w
        BY <4>2, Zenon
      <4>4. i + 1 \in 1 .. Len(threadNodes) /\ 1 \in 1 .. Len(threadNodes)
        BY <3>1
      <4>5. threadNodes[i + 1] = threadNodes[1]
        BY <3>1, <4>3
      <4> QED BY <3>0, <4>4, <4>5
    <3>7. \A u \in Range(threadNodes') : pc'[u] = "waiting" /\ threadNode'[u] = "live"
      <4> SUFFICES ASSUME NEW u \in Range(threadNodes')
                   PROVE  pc'[u] = "waiting" /\ threadNode'[u] = "live"
        OBVIOUS
      <4>1. u \in Threads /\ pc[u] = "waiting" /\ threadNode[u] = "live" /\ u # w
        BY <1>0, <3>1, <3>6, RangeOfSeq DEF NodesAlive
      <4> QED BY <1>3, <3>3, <4>1 DEF enqueue
    <3>8. \A i, j \in 1 .. Len(threadNodes') :
             threadNodes'[i] = threadNodes'[j] => i = j
      <4> SUFFICES ASSUME NEW i \in 1 .. Len(threadNodes'),
                          NEW j \in 1 .. Len(threadNodes'),
                          threadNodes'[i] = threadNodes'[j]
                   PROVE  i = j
        OBVIOUS
      <4>1. i + 1 \in 1 .. Len(threadNodes) /\ j + 1 \in 1 .. Len(threadNodes)
        BY <3>1
      <4>2. threadNodes[i + 1] = threadNodes[j + 1]
        BY <3>1
      <4> QED BY <3>0, <4>1, <4>2
    <3>9. \A u \in Threads : pc'[u] = "signalled" => threadNode'[u] = "live"
      BY <1>3, <3>1, <3>2, <3>3 DEF enqueue, NodesAlive, In
    <3> QED BY <3>4, <3>5, <3>7, <3>8, <3>9 DEF NodesAlive, In
  <2>3. CASE threadNodes = <<>> /\ appendItem(t, d)
    <3>1. Range(threadNodes') = {} /\ Len(threadNodes') = 0
      BY <2>3, EmptySeq DEF appendItem, Range
    <3>2. Mutex'
      BY <1>3, <2>1, <2>3 DEF Mutex, Holding, appendItem, enqueue, Lock
    <3>3. NodesAlive'
      BY <1>3, <2>3, <3>1 DEF NodesAlive, In, appendItem, enqueue
    <3> QED BY <2>3, <3>2, <3>3 DEF NoItemPassesAWaiter, appendItem
  <2> QED BY <1>3, <2>2, <2>3 DEF enqueue
<1>4. ASSUME NEW t \in Threads, enqueueCount(t) PROVE Linked'
  <2>1. Mutex'
    BY <1>0, <1>4 DEF Mutex, Holding, enqueueCount, Unlock
  <2>2. NodesAlive'
    BY <1>4 DEF NodesAlive, In, enqueueCount, memory
  <2> QED BY <1>4, <2>1, <2>2 DEF NoItemPassesAWaiter, enqueueCount
<1>5. ASSUME NEW t \in Threads, takeHead(t) PROVE Linked'
  <2>1. Mutex'
    BY <1>0, <1>5 DEF Mutex, Holding, takeHead, Lock
  <2>2. threadNodes = <<>> /\ threadNodes' = threadNodes
    BY <1>5 DEF NoItemPassesAWaiter, takeHead
  <2>3. NodesAlive'
    BY <1>5 DEF NodesAlive, In, takeHead, memory
  <2> QED BY <2>1, <2>2, <2>3 DEF NoItemPassesAWaiter
<1>6. ASSUME NEW t \in Threads, dequeueWait(t) PROVE Linked'
  <2>1. Mutex' /\ NoItemPassesAWaiter'
    BY <1>6 DEF Mutex, Holding, NoItemPassesAWaiter, dequeueWait
  <2>2. /\ Len(threadNodes) \in Nat
        /\ Len(threadNodes') = Len(threadNodes) + 1
        /\ \A i \in 1 .. Len(threadNodes) : threadNodes'[i] = threadNodes[i]
        /\ threadNodes'[Len(threadNodes) + 1] = t
        /\ Range(threadNodes') = Range(threadNodes) \cup {t}
    BY <1>6, AppendElements, LenProperties DEF dequeueWait, addThread
  <2>3. Range(threadNodes) \subseteq Threads /\ t \notin Range(threadNodes)
    BY <1>6, RangeOfSeq DEF NodesAlive, dequeueWait
  <2>4. \A i \in 1 .. Len(threadNodes) : threadNodes[i] # t
    BY <2>3, LenProperties DEF Range
  <2>5. \A i, j \in 1 .. Len(threadNodes') :
           threadNodes'[i] = threadNodes'[j] => i = j
    <3>1. \A i, j \in 1 .. Len(threadNodes) :
             threadNodes[i] = threadNodes[j] => i = j
      BY DEF NodesAlive
    <3> SUFFICES ASSUME NEW i \in 1 .. Len(threadNodes) + 1,
                        NEW j \in 1 .. Len(threadNodes) + 1,
                        threadNodes'[i] = threadNodes'[j]
                 PROVE  i = j
      BY <2>2
    <3>2. CASE i \in 1 .. Len(threadNodes) /\ j \in 1 .. Len(threadNodes)
      <4>1. threadNodes[i] = threadNodes[j]
        BY <2>2, <3>2
      <4> QED BY <3>1, <3>2, <4>1
    <3>3. \A k \in 1 .. Len(threadNodes) : threadNodes'[k] # t
      BY <2>2, <2>4
    <3>4. CASE i = Len(threadNodes) + 1 /\ j \in 1 .. Len(threadNodes)
      BY <2>2, <3>3, <3>4
    <3>5. CASE j = Len(threadNodes) + 1 /\ i \in 1 .. Len(threadNodes)
      BY <2>2, <3>3, <3>5
    <3> QED BY <2>2, <3>2, <3>4, <3>5
  <2>6. \A u \in Range(threadNodes') : pc'[u] = "waiting" /\ threadNode'[u] = "live"
    BY <1>6, <2>2, <2>3 DEF NodesAlive, dequeueWait
  <2>7. \A u \in Threads : pc'[u] = "signalled" => threadNode'[u] = "live"
    BY <1>6 DEF NodesAlive, In, dequeueWait
  <2> QED BY <2>1, <2>5, <2>6, <2>7 DEF NodesAlive, In
<1>7. ASSUME NEW t \in Threads, dequeueResume(t) PROVE Linked'
  <2>1. Mutex'
    BY <1>0, <1>7 DEF Mutex, Holding, dequeueResume, backFromWait, Lock
  <2>2. NodesAlive'
    BY <1>7, RangeOfSeq DEF NodesAlive, In, dequeueResume, backFromWait
  <2> QED BY <1>7, <2>1, <2>2
          DEF NoItemPassesAWaiter, dequeueResume, backFromWait
<1>8. ASSUME NEW t \in Threads, dequeueVisit(t) PROVE Linked'
  BY <1>8, RangeOfSeq DEF Mutex, Holding, NoItemPassesAWaiter, NodesAlive, In,
                          dequeueVisit, memory
<1>9. ASSUME NEW t \in Threads, dequeueReturn(t) PROVE Linked'
  BY <1>0, <1>9, RangeOfSeq DEF Mutex, Holding, NoItemPassesAWaiter,
                                NodesAlive, In, dequeueReturn, Unlock, memory
<1>10. ASSUME NEW t \in Threads, tryDequeueRefuse(t) PROVE Linked'
  BY <1>10 DEF Mutex, NoItemPassesAWaiter, NodesAlive, In,
               tryDequeueRefuse, memory
<1>11. CASE UNCHANGED vars
  BY <1>11 DEF vars, memory, Mutex, NoItemPassesAWaiter, NodesAlive, In
<1> QED BY <1>1, <1>2, <1>3, <1>4, <1>5, <1>6, <1>7, <1>8, <1>9, <1>10, <1>11
        DEF Next, Step

-----------------------------------------------------------------------------
(* The threads that are linked wait, and are the threadNodes[i].           *)
LEMMA LinkedThreads ==
  ASSUME TypeOK, NodesAlive
  PROVE  /\ Len(threadNodes) \in Nat
         /\ Range(threadNodes) = {threadNodes[i] : i \in 1 .. Len(threadNodes)}
         /\ \A i \in 1 .. Len(threadNodes) :
              /\ threadNodes[i] \in Threads
              /\ pc[threadNodes[i]] = "waiting"
              /\ threadNode[threadNodes[i]] = "live"
<1>1. threadNodes \in Seq(Threads)
  BY DEF TypeOK
<1>2. /\ Len(threadNodes) \in Nat
      /\ Range(threadNodes) = {threadNodes[i] : i \in 1 .. Len(threadNodes)}
      /\ Range(threadNodes) \subseteq Threads
  BY <1>1, LenProperties, RangeEquality, RangeOfSeq
<1> QED BY <1>2 DEF NodesAlive

(* At the start there are no items, no requests and no tickets.            *)
LEMMA NumberedInit == Init => Numbered
<1> SUFFICES ASSUME Init PROVE Numbered
  OBVIOUS
<1>1. \A t \in Threads : InHand(t)
  BY DEF Init, InHand
<1>2. inUse = FALSE /\ nodes = <<>> /\ threadNodes = <<>>
  BY DEF Init
<1> QED BY <1>1, <1>2, Zenon DEF Numbered

(* A step that leaves the lists, the history and the nodes alone.          *)
LEMMA NumbersUnchanged ==
  ASSUME TypeOK, NodesAlive, Numbered, NEW t \in Threads, pc[t] # "waiting",
         UNCHANGED <<inUse, nodes, threadNodes, accepted, requests>>,
         \A u \in Threads : u # t => ticket'[u] = ticket[u]
  PROVE  /\ inUse' => NumbersMatch'
         /\ ~ inUse' => nodes' = <<>> /\ threadNodes' = <<>>
<1>1. \A i \in 1 .. Len(threadNodes) : ticket'[threadNodes[i]] = ticket[threadNodes[i]]
  BY LinkedThreads
<1> QED BY <1>1 DEF Numbered, NumbersMatch

(* enqueue keeps the numbers: its item gets the next one, which is that of *)
(* the thread it unlinks, if there is one.                                 *)
LEMMA NumberedEnqueue ==
  ASSUME TypeOK, TypeOK', Linked, Numbered,
         NEW t \in Threads, NEW d \in Items, enqueue(t, d)
  PROVE  Numbered'
<1>0. /\ Len(nodes) \in Nat /\ Len(threadNodes) \in Nat /\ Len(accepted) \in Nat
      /\ requests \in Nat
      /\ ticket \in [Threads -> Nat]
      /\ DOMAIN pc = Threads /\ DOMAIN data = Threads /\ DOMAIN noLock = Threads
  BY LenProperties DEF TypeOK
<1>1. /\ accepted' = Append(accepted, d)
      /\ inUse /\ inUse' = inUse
      /\ threadNode' = threadNode /\ local' = local
      /\ requests' = requests /\ ticket' = ticket
      /\ pc[t] = "idle"
      /\ Len(accepted) + Len(threadNodes) = requests + Len(nodes)
      /\ NumbersMatch
  BY DEF enqueue, Numbered, NumbersMatch
<1>2. /\ Len(accepted) \in Nat /\ Len(accepted') = Len(accepted) + 1
      /\ \A i \in 1 .. Len(accepted) : accepted'[i] = accepted[i]
      /\ accepted'[Len(accepted) + 1] = d
  BY <1>1, AppendElements, LenProperties DEF TypeOK
<1>3. CASE threadNodes # <<>> /\ handOver(t, Head(threadNodes), d)
  <2> DEFINE w == Head(threadNodes)
  <2>1. /\ w \in Threads /\ w = threadNodes[1]
        /\ Len(threadNodes) \in Nat \ {0}
        /\ Len(threadNodes') = Len(threadNodes) - 1
        /\ \A i \in 1 .. Len(threadNodes') : threadNodes'[i] = threadNodes[i + 1]
        /\ Range(threadNodes) = Range(threadNodes') \cup {w}
    BY <1>3, TailElements DEF handOver, popThread, TypeOK
  <2>2. /\ nodes' = nodes /\ Len(nodes) = 0
        /\ pc' = [pc EXCEPT ![w] = "signalled", ![t] = "inserted"]
        /\ data' = [data EXCEPT ![w] = d]
        /\ noLock' = [noLock EXCEPT ![w] = TRUE]
    BY <1>3, EmptySeq DEF handOver, fillNode, Linked, NoItemPassesAWaiter
  <2>3. pc[w] = "waiting" /\ w # t /\ ticket[w] = Len(accepted) + 1
    <3>1. 1 \in 1 .. Len(threadNodes)
      BY <2>1
    <3>2. pc[w] = "waiting"
      BY <2>1, <3>1, LinkedThreads DEF Linked
    <3> QED BY <1>1, <2>1, <3>1, <3>2 DEF NumbersMatch
  <2>4. NumbersMatch'
    <3>1. Len(accepted') + Len(threadNodes') = requests' + Len(nodes')
      <4>1. Len(threadNodes') = Len(threadNodes) - 1
        BY <2>1
      <4>2. Len(accepted') = Len(accepted) + 1
        BY <1>2
      <4>3. requests' = requests /\ Len(nodes') = Len(nodes)
        BY <1>1, <2>2
      <4>4. Len(accepted) + Len(threadNodes) = requests + Len(nodes)
        BY <1>1
      <4>5. /\ Len(threadNodes) \in Int /\ Len(accepted) \in Int
            /\ Len(nodes) \in Int /\ requests \in Int
        BY <1>0
      <4> QED BY <4>1, <4>2, <4>3, <4>4, <4>5
    <3>2. ASSUME NEW i \in 1 .. Len(threadNodes')
          PROVE  ticket'[threadNodes'[i]] = Len(accepted') + i
      <4>1. i + 1 \in 1 .. Len(threadNodes) /\ threadNodes'[i] = threadNodes[i + 1]
        BY <2>1
      <4> QED BY <1>0, <1>1, <1>2, <4>1 DEF NumbersMatch
    <3> QED BY <2>2, <3>1, <3>2 DEF NumbersMatch
  <2>5. ASSUME NEW u \in Threads PROVE InHand(u)'
    <3>1. CASE u = w
      <4>1. ticket'[w] \in 1 .. Len(accepted') /\ d = accepted'[ticket'[w]]
        BY <1>0, <1>1, <1>2, <2>3
      <4>2. pc'[w] = "signalled" /\ data'[w] = d /\ noLock'[w] = TRUE
        BY <1>0, <2>1, <2>2, <2>3
      <4> QED BY <3>1, <4>1, <4>2 DEF InHand, HasItem
    <3>2. CASE u = t
      BY <1>0, <1>1, <2>1, <2>2, <2>3, <3>2 DEF InHand, Numbered
    <3>3. CASE u # w /\ u # t
      <4>1. pc'[u] = pc[u] /\ data'[u] = data[u] /\ noLock'[u] = noLock[u]
        BY <1>0, <2>1, <2>2, <3>3
      <4>2. InHand(u) /\ (u \in Range(threadNodes) => u \in Range(threadNodes'))
        BY <2>1, <3>3 DEF Numbered
      <4>3. /\ HasItem(u, data[u]) => HasItem(u, data[u])'
            /\ HasItem(u, local[u]) => HasItem(u, local[u])'
        BY <1>0, <1>1, <1>2, <4>1 DEF HasItem
      <4> QED BY <1>0, <1>1, <4>1, <4>2, <4>3 DEF InHand
    <3> QED BY <3>1, <3>2, <3>3
  <2> QED BY <1>1, <2>4, <2>5 DEF Numbered
<1>4. CASE threadNodes = <<>> /\ appendItem(t, d)
  <2>1. /\ threadNodes' = threadNodes /\ Len(threadNodes) = 0
        /\ pc' = [pc EXCEPT ![t] = "inserted"]
        /\ data' = data /\ noLock' = noLock
    BY <1>4, EmptySeq DEF appendItem
  <2>2. /\ Len(nodes) \in Nat /\ Len(nodes') = Len(nodes) + 1
        /\ \A i \in 1 .. Len(nodes) : nodes'[i] = nodes[i]
        /\ nodes'[Len(nodes) + 1] = d
    BY <1>4, AppendElements, LenProperties DEF appendItem, TypeOK
  <2>3. Len(accepted) = requests + Len(nodes) /\ requests \in Nat
    BY <1>0, <1>1, <2>1
  <2>4. ASSUME NEW i \in 1 .. Len(nodes')
        PROVE  nodes'[i] = accepted'[requests + i]
    <3>1. CASE i \in 1 .. Len(nodes)
      <4>1. requests + i \in 1 .. Len(accepted)
        BY <1>0, <2>2, <2>3, <3>1
      <4> QED BY <1>1, <1>2, <2>2, <3>1, <4>1 DEF NumbersMatch
    <3>2. CASE i = Len(nodes) + 1
      BY <1>2, <2>2, <2>3, <3>2
    <3> QED BY <2>2, <3>1, <3>2
  <2>5. NumbersMatch'
    BY <1>0, <1>1, <1>2, <2>1, <2>2, <2>3, <2>4 DEF NumbersMatch
  <2>6. ASSUME NEW u \in Threads PROVE InHand(u)'
    <3>1. InHand(u)
      BY DEF Numbered
    <3>2. /\ HasItem(u, data[u]) => HasItem(u, data[u])'
          /\ HasItem(u, local[u]) => HasItem(u, local[u])'
      BY <1>1, <1>2, <2>1 DEF HasItem
    <3>3. CASE u = t
      BY <1>0, <1>1, <2>1, <3>1, <3>3 DEF InHand
    <3>4. CASE u # t
      BY <1>0, <1>1, <2>1, <3>1, <3>2, <3>4 DEF InHand
    <3> QED BY <3>3, <3>4
  <2> QED BY <1>1, <2>5, <2>6 DEF Numbered
<1> QED BY <1>3, <1>4 DEF enqueue

(* A new request keeps the numbers: it takes the item that has its own, or *)
(* is linked behind all the others.                                        *)
LEMMA NumberedDequeue ==
  ASSUME TypeOK, Linked, Numbered,
         NEW t \in Threads, takeHead(t) \/ dequeueWait(t)
  PROVE  Numbered'
<1>0. /\ Len(nodes) \in Nat /\ Len(threadNodes) \in Nat /\ Len(accepted) \in Nat
      /\ requests \in Nat
  BY LenProperties DEF TypeOK
<1>1. /\ inUse /\ inUse' = inUse
      /\ accepted' = accepted
      /\ requests' = requests + 1
      /\ ticket' = [ticket EXCEPT ![t] = requests + 1]
      /\ ticket'[t] = requests + 1
      /\ \A u \in Threads \ {t} : ticket'[u] = ticket[u]
      /\ pc[t] = "idle"
  BY DEF takeHead, dequeueWait, NewTicket, TypeOK
<1>2. /\ NumbersMatch
      /\ Len(accepted) + Len(threadNodes) = requests + Len(nodes)
  BY <1>1 DEF Numbered, NumbersMatch
<1>3. CASE takeHead(t)
  <2>1. /\ threadNodes = <<>> /\ threadNodes' = threadNodes /\ Len(threadNodes) = 0
        /\ \A u \in Threads : data'[u] = data[u] /\ noLock'[u] = noLock[u]
        /\ \A u \in Threads : threadNode'[u] = threadNode[u]
    BY <1>3, EmptySeq DEF takeHead, memory, Linked, NoItemPassesAWaiter
  <2>2. /\ Len(nodes) >= 1
        /\ Len(nodes') = Len(nodes) - 1
        /\ Head(nodes) = nodes[1]
        /\ \A i \in 1 .. Len(nodes') : nodes'[i] = nodes[i + 1]
    BY <1>3, TailElements DEF takeHead, TypeOK
  <2>3. /\ local'[t] = Head(nodes) /\ pc'[t] = "took"
        /\ \A u \in Threads \ {t} : local'[u] = local[u] /\ pc'[u] = pc[u]
    BY <1>3 DEF takeHead, TypeOK
  <2>4. Len(accepted) = requests + Len(nodes)
    BY <1>0, <1>2, <2>1
  <2>5. ASSUME NEW i \in 1 .. Len(nodes')
        PROVE  nodes'[i] = accepted'[requests' + i]
    <3>1. i + 1 \in 1 .. Len(nodes) /\ requests + (i + 1) = (requests + 1) + i
      BY <1>0, <2>2
    <3>2. nodes[i + 1] = accepted[requests + (i + 1)]
      BY <1>2, <3>1 DEF NumbersMatch
    <3> QED BY <1>1, <2>2, <3>1, <3>2
  <2>6. Len(accepted') + Len(threadNodes') = requests' + Len(nodes')
    BY <1>0, <1>1, <2>1, <2>2, <2>4
  <2>7. NumbersMatch'
    BY <2>1, <2>5, <2>6 DEF NumbersMatch
  <2>8. HasItem(t, local[t])'
    <3>1. 1 \in 1 .. Len(nodes) /\ requests + 1 \in 1 .. Len(accepted)
      BY <1>0, <2>2, <2>4
    <3>2. nodes[1] = accepted[requests + 1]
      BY <1>2, <3>1 DEF NumbersMatch
    <3> QED BY <1>1, <2>2, <2>3, <3>1, <3>2 DEF HasItem
  <2>9. ASSUME NEW u \in Threads PROVE InHand(u)'
    <3>1. InHand(u)
      BY DEF Numbered
    <3>2. CASE u = t
      BY <1>1, <2>1, <2>3, <2>8, <3>1, <3>2 DEF InHand
    <3>3. CASE u # t
      BY <1>1, <2>1, <2>3, <3>1, <3>3 DEF InHand, HasItem
    <3> QED BY <3>2, <3>3
  <2> QED BY <1>1, <2>7, <2>9 DEF Numbered
<1>4. CASE dequeueWait(t)
  <2>1. /\ nodes = <<>> /\ nodes' = nodes /\ Len(nodes) = 0
        /\ pc'[t] = "waiting"
        /\ \A u \in Threads \ {t} :
             /\ pc'[u] = pc[u] /\ data'[u] = data[u] /\ local'[u] = local[u]
             /\ noLock'[u] = noLock[u] /\ threadNode'[u] = threadNode[u]
    BY <1>4, EmptySeq DEF dequeueWait, TypeOK
  <2>2. /\ Len(threadNodes') = Len(threadNodes) + 1
        /\ \A i \in 1 .. Len(threadNodes) : threadNodes'[i] = threadNodes[i]
        /\ threadNodes'[Len(threadNodes) + 1] = t
        /\ Range(threadNodes') = Range(threadNodes) \cup {t}
    BY <1>4, AppendElements DEF dequeueWait, addThread, TypeOK
  <2>3. requests = Len(accepted) + Len(threadNodes)
    BY <1>0, <1>2, <2>1
  <2>4. ASSUME NEW i \in 1 .. Len(threadNodes')
        PROVE  ticket'[threadNodes'[i]] = Len(accepted') + i
    <3>1. CASE i = Len(threadNodes) + 1
      BY <1>0, <1>1, <2>2, <2>3, <3>1
    <3>2. CASE i \in 1 .. Len(threadNodes)
      <4>1. threadNodes[i] \in Threads \ {t}
        BY <1>1, <3>2, LinkedThreads DEF Linked
      <4>2. ticket[threadNodes[i]] = Len(accepted) + i
        BY <1>2, <3>2 DEF NumbersMatch
      <4> QED BY <1>1, <2>2, <3>2, <4>1, <4>2
    <3> QED BY <1>0, <2>2, <3>1, <3>2
  <2>5. Len(accepted') + Len(threadNodes') = requests' + Len(nodes')
    BY <1>0, <1>1, <2>1, <2>2, <2>3
  <2>6. NumbersMatch'
    BY <2>1, <2>4, <2>5 DEF NumbersMatch
  <2>7. ASSUME NEW u \in Threads PROVE InHand(u)'
    <3>1. InHand(u)
      BY DEF Numbered
    <3>2. CASE u = t
      BY <2>1, <2>2, <3>2 DEF InHand
    <3>3. CASE u # t
      BY <1>1, <2>1, <2>2, <3>1, <3>3 DEF InHand, HasItem
    <3> QED BY <3>2, <3>3
  <2> QED BY <1>1, <2>6, <2>7 DEF Numbered
<1> QED BY <1>3, <1>4

(* Every operation keeps the numbering.                                    *)
LEMMA NumberedStep == TypeOK /\ Linked /\ Numbered /\ [Next]_vars => Numbered'
<1> SUFFICES ASSUME TypeOK, Linked, Numbered, [Next]_vars PROVE Numbered'
  OBVIOUS
<1>0. TypeOK' /\ (\A u \in Threads : InHand(u))
  BY TypeStep DEF Numbered
<1>1. ASSUME NEW t \in Threads, initQueue(t) PROVE Numbered'
  <2>1. /\ inUse' /\ nodes' = <<>> /\ threadNodes' = <<>> /\ accepted' = <<>>
        /\ requests' = 0 /\ ticket' = ticket /\ threadNode' = threadNode
        /\ pc' = pc /\ ~ inUse
        /\ \A u \in Threads : pc[u] \in {"idle", "waiting"}
    BY <1>1 DEF initQueue, Joined, memory
  <2>2. Len(nodes') = 0 /\ Len(threadNodes') = 0 /\ Len(accepted') = 0
    BY <2>1, EmptySeq
  <2>3. NumbersMatch'
    BY <2>1, <2>2 DEF NumbersMatch
  <2>4. Range(threadNodes) = {}
    BY <2>1, EmptySeq DEF Numbered, Range
  <2>5. \A u \in Threads : InHand(u)'
    BY <1>0, <2>1, <2>4 DEF InHand
  <2> QED BY <2>1, <2>3, <2>5 DEF Numbered
<1>2. ASSUME NEW t \in Threads, destroyQueue(t) PROVE Numbered'
  <2>1. /\ ~ inUse' /\ nodes' = <<>> /\ threadNodes' = <<>>
        /\ accepted' = accepted /\ pc' = pc /\ data' = data
        /\ local' = local /\ noLock' = noLock
        /\ \A u \in Threads :
             IF u \in Range(threadNodes)
             THEN threadNode'[u] = "freed" /\ ticket'[u] = 0
             ELSE threadNode'[u] = threadNode[u] /\ ticket'[u] = ticket[u]
    BY <1>2 DEF destroyQueue
  <2>2. \A u \in Range(threadNodes) : pc[u] = "waiting"
    BY DEF Linked, NodesAlive
  <2>3. ASSUME NEW u \in Threads PROVE InHand(u)'
    <3>1. InHand(u)
      BY <1>0
    <3>2. CASE u \in Range(threadNodes)
      BY <2>1, <2>2, <3>2 DEF InHand
    <3>3. CASE u \notin Range(threadNodes)
      BY <2>1, <3>1, <3>3 DEF InHand, HasItem
    <3> QED BY <3>2, <3>3
  <2> QED BY <2>1, <2>3 DEF Numbered
<1>3. ASSUME NEW t \in Threads, NEW d \in Items, enqueue(t, d) PROVE Numbered'
  BY <1>0, <1>3, NumberedEnqueue
<1>4. ASSUME NEW t \in Threads, enqueueCount(t) PROVE Numbered'
  <2>1. /\ UNCHANGED <<inUse, nodes, threadNodes, accepted, requests>>
        /\ pc[t] = "inserted" /\ ticket' = ticket /\ threadNode' = threadNode
        /\ data' = data /\ noLock' = noLock /\ local' = local
        /\ pc' = [pc EXCEPT ![t] = "idle"]
    BY <1>4 DEF enqueueCount, memory, history
  <2>2. \A u \in Threads : InHand(u)'
    BY <1>0, <2>1 DEF InHand, HasItem, TypeOK
  <2> QED BY <2>1, <2>2, NumbersUnchanged DEF Numbered, Linked
<1>5. ASSUME NEW t \in Threads, takeHead(t) \/ dequeueWait(t) PROVE Numbered'
  BY <1>5, NumberedDequeue
<1>6. ASSUME NEW t \in Threads, dequeueResume(t) PROVE Numbered'
  <2>1. /\ UNCHANGED <<inUse, nodes, threadNodes, accepted, requests>>
        /\ pc[t] = "signalled" /\ ticket' = ticket
        /\ noLock[t] = TRUE
    BY <1>0, <1>6 DEF dequeueResume, backFromWait, history, InHand
  <2>2. /\ pc'[t] = "took" /\ local'[t] = data[t] /\ threadNode'[t] = "none"
        /\ \A u \in Threads \ {t} :
             /\ pc'[u] = pc[u] /\ local'[u] = local[u] /\ data'[u] = data[u]
             /\ noLock'[u] = noLock[u] /\ threadNode'[u] = threadNode[u]
    BY <1>6, <2>1 DEF dequeueResume, backFromWait, TypeOK
  <2>3. ASSUME NEW u \in Threads PROVE InHand(u)'
    <3>1. InHand(u)
      BY <1>0
    <3>2. CASE u = t
      BY <2>1, <2>2, <3>1, <3>2 DEF InHand, HasItem
    <3>3. CASE u # t
      BY <2>1, <2>2, <3>1, <3>3 DEF InHand, HasItem
    <3> QED BY <3>2, <3>3
  <2> QED BY <2>1, <2>3, NumbersUnchanged DEF Numbered, Linked
<1>7. ASSUME NEW t \in Threads, dequeueVisit(t) PROVE Numbered'
  <2>1. /\ UNCHANGED <<inUse, nodes, threadNodes, accepted, requests>>
        /\ pc[t] = "took" /\ ticket' = ticket /\ threadNode' = threadNode
        /\ data' = data /\ noLock' = noLock /\ local' = local
        /\ pc' = [pc EXCEPT ![t] = "counted"]
    BY <1>7 DEF dequeueVisit, memory, history
  <2>2. \A u \in Threads : InHand(u)'
    BY <1>0, <2>1 DEF InHand, HasItem, TypeOK
  <2> QED BY <2>1, <2>2, NumbersUnchanged DEF Numbered, Linked
<1>8. ASSUME NEW t \in Threads, dequeueReturn(t) PROVE Numbered'
  <2>1. /\ UNCHANGED <<inUse, nodes, threadNodes, accepted, requests>>
        /\ pc[t] = "counted" /\ threadNode' = threadNode
        /\ data' = data /\ noLock' = noLock
        /\ pc'[t] = "idle" /\ ticket'[t] = 0
        /\ \A u \in Threads \ {t} :
             pc'[u] = pc[u] /\ ticket'[u] = ticket[u] /\ local'[u] = local[u]
    BY <1>0, <1>8 DEF dequeueReturn, memory, InHand, TypeOK
  <2>2. ASSUME NEW u \in Threads PROVE InHand(u)'
    <3>1. InHand(u)
      BY <1>0
    <3>2. CASE u = t
      BY <2>1, <3>1, <3>2 DEF InHand
    <3>3. CASE u # t
      BY <2>1, <3>1, <3>3 DEF InHand, HasItem
    <3> QED BY <3>2, <3>3
  <2> QED BY <2>1, <2>2, NumbersUnchanged DEF Numbered, Linked
<1>9. CASE (\E t \in Threads : tryDequeueRefuse(t)) \/ UNCHANGED vars
  <2>1. UNCHANGED <<inUse, nodes, threadNodes, accepted, requests, ticket, pc,
                    data, noLock, local, threadNode>>
    BY <1>9 DEF tryDequeueRefuse, vars, memory, history
  <2> QED BY <2>1 DEF Numbered, NumbersMatch, InHand, HasItem
<1> QED BY <1>1, <1>2, <1>3, <1>4, <1>5, <1>6, <1>7, <1>8, <1>9
        DEF Next, Step

-----------------------------------------------------------------------------
IInv == TypeOK /\ Linked /\ Numbered

(* The inductive invariant holds in every reachable state.                 *)
LEMMA IInvHolds == Spec => []IInv
<1>1. Init => IInv
  BY TypeInit, LinkedInit, NumberedInit DEF IInv
<1>2. IInv /\ [Next]_vars => IInv'
  BY TypeStep, LinkedStep, NumberedStep DEF IInv
<1> QED BY <1>1, <1>2, PTL DEF Spec

(* Items and waiting threads are never queued at the same time, so that an *)
(* item never overtakes a thread that waits for one.                       *)
THEOREM NoItemPasses == Spec => []NoItemPassesAWaiter
<1>1. IInv => NoItemPassesAWaiter
  BY DEF IInv, Linked
<1> QED BY <1>1, IInvHolds, PTL

(* The nodes that enqueue and destroyQueue reach through the thread list   *)
(* belong to threads that still wait, and a signalled thread still has     *)
(* its own: no node is used after it was freed.                            *)
THEOREM NodesStayAlive == Spec => []NodesAlive
<1>1. IInv => NodesAlive
  BY DEF IInv, Linked
<1> QED BY <1>1, IInvHolds, PTL

-----------------------------------------------------------------------------
(* The mapping to TicketQueue.  A stranded thread is one whose node        *)
(* destroyQueue freed; it is not free for a new request.                   *)
Stranded == {t \in Threads : threadNode[t] = "freed"}

(* Where a thread is tells whether its request has its item.               *)
LEMMA WhoIsServed ==
  ASSUME IInv, NEW t \in Threads
  PROVE  /\ pc[t] = "idle" => Tickets!Free(t)
         /\ inUse /\ t \in Range(threadNodes) => ticket[t] > Len(accepted)
         /\ t \notin Range(threadNodes) =>
              ticket[t] = 0 \/ ticket[t] \in 1 .. Len(accepted)
<1>0. /\ InHand(t) /\ ticket[t] \in Nat /\ Len(accepted) \in Nat
      /\ pc[t] \in {"idle", "inserted", "waiting", "signalled",
                    "took", "counted", "leaving"}
  BY LenProperties DEF IInv, Numbered, TypeOK
<1>1. pc[t] = "idle" => Tickets!Free(t)
  BY <1>0 DEF InHand, Tickets!Free
<1>2. ASSUME inUse, t \in Range(threadNodes) PROVE ticket[t] > Len(accepted)
  <2>1. PICK i \in 1 .. Len(threadNodes) : t = threadNodes[i]
    BY <1>2, LinkedThreads DEF IInv, Linked
  <2>2. ticket[threadNodes[i]] = Len(accepted) + i /\ i >= 1
    BY <1>2, LinkedThreads DEF IInv, Linked, Numbered, NumbersMatch
  <2>3. i \in Nat
    BY LinkedThreads DEF IInv, Linked
  <2> QED BY <1>0, <2>1, <2>2, <2>3
<1>3. ASSUME t \notin Range(threadNodes)
      PROVE  ticket[t] = 0 \/ ticket[t] \in 1 .. Len(accepted)
  BY <1>0, <1>3 DEF InHand, HasItem
<1> QED BY <1>1, <1>2, <1>3

(* Every step of the queue is a step of TicketQueue or changes nothing     *)
(* there.                                                                  *)
LEMMA StepImplementsTickets ==
  IInv /\ IInv' /\ [Next]_vars => [Tickets!Next]_(Tickets!vars)
<1> SUFFICES ASSUME IInv, IInv', [Next]_vars
             PROVE  Tickets!Next \/ UNCHANGED Tickets!vars
  OBVIOUS
<1>1. ASSUME NEW t \in Threads, initQueue(t) PROVE Tickets!Open
  <2>1. \A u \in Threads : ticket[u] = 0
    <3> TAKE u \in Threads
    <3>1. InHand(u) /\ pc[u] \in {"idle", "waiting"} /\ threadNodes = <<>>
      BY <1>1 DEF initQueue, Joined, IInv, Numbered
    <3>2. u \notin Range(threadNodes)
      BY <3>1, EmptySeq DEF Range
    <3> QED BY <3>1, <3>2 DEF InHand
  <2> QED BY <1>1, <2>1 DEF initQueue, memory, Tickets!Open
<1>2. ASSUME NEW t \in Threads, destroyQueue(t) PROVE Tickets!Close
  <2>1. /\ inUse /\ inUse' = FALSE
        /\ accepted' = accepted /\ requests' = requests /\ ret' = ret
        /\ threadNode' = [u \in Threads |-> IF u \in Range(threadNodes)
                                           THEN "freed" ELSE threadNode[u]]
        /\ ticket' = [u \in Threads |-> IF u \in Range(threadNodes)
                                       THEN 0 ELSE ticket[u]]
    BY <1>2 DEF destroyQueue
  <2>2. /\ Len(accepted) \in Nat
        /\ \A u \in Threads : ticket[u] \in Nat
    BY LenProperties DEF IInv, TypeOK
  <2>3. \A u \in Threads :
           u \in Range(threadNodes) <=> ticket[u] > Len(accepted)
    BY <2>1, <2>2, WhoIsServed
  <2>4. \A u \in Threads : u \notin Range(threadNodes) =>
           ticket[u] = 0 \/ Tickets!Served(u)
    BY WhoIsServed DEF Tickets!Served
  <2>5. \A u \in Threads : u \in Range(threadNodes) => ~ Tickets!Served(u)
    BY <2>2, <2>3 DEF Tickets!Served
  <2>6. Stranded' = Stranded \cup {u \in Threads : ticket[u] > Len(accepted)}
    BY <2>1, <2>3 DEF Stranded
  <2>7. ticket' = [u \in Threads |-> IF Tickets!Served(u) THEN ticket[u] ELSE 0]
    BY <2>1, <2>4, <2>5
  <2> QED BY <2>1, <2>6, <2>7 DEF Stranded, Tickets!Close
<1>3. ASSUME NEW t \in Threads, NEW d \in Items, enqueue(t, d)
      PROVE  Tickets!Put(d)
  BY <1>3 DEF enqueue, Tickets!Put
<1>4. ASSUME NEW t \in Threads, takeHead(t) PROVE Tickets!Ask(t)
  BY <1>4, WhoIsServed DEF takeHead, NewTicket, memory, Tickets!Ask
<1>5. ASSUME NEW t \in Threads, dequeueWait(t) PROVE Tickets!Ask(t)
  <2>1. pc[t] = "idle" /\ inUse
        /\ threadNode' = [threadNode EXCEPT ![t] = "live"]
    BY <1>5 DEF dequeueWait
  <2>2. InHand(t) /\ threadNode \in [Threads -> {"none", "live", "freed"}]
    BY DEF IInv, Numbered, TypeOK
  <2>3. Stranded' = Stranded
    BY <2>1, <2>2 DEF Stranded, InHand
  <2> QED BY <1>5, <2>1, <2>3, WhoIsServed
          DEF dequeueWait, NewTicket, Stranded, Tickets!Ask
<1>6. ASSUME NEW t \in Threads, dequeueReturn(t) PROVE Tickets!Return(t)
  <2>1. /\ ret' = [ret EXCEPT ![t] = local[t]]
        /\ ticket' = [ticket EXCEPT ![t] = 0]
        /\ UNCHANGED <<inUse, accepted, requests, threadNode>>
    BY <1>6 DEF dequeueReturn, memory
  <2>2. HasItem(t, local[t])
    BY <1>6 DEF dequeueReturn, IInv, Numbered, InHand
  <2> QED BY <2>1, <2>2 DEF HasItem, Tickets!Return, Tickets!Served
<1>7. ASSUME NEW t \in Threads, tryDequeueRefuse(t) PROVE Tickets!Refuse(t)
  <2>1. /\ inUse /\ pc[t] = "idle" /\ Len(nodes) = 0
        /\ ret' = [ret EXCEPT ![t] = Nothing]
        /\ UNCHANGED <<inUse, accepted, requests, ticket, threadNode>>
    BY <1>7, EmptySeq DEF tryDequeueRefuse, memory
  <2>2. requests >= Len(accepted)
    <3>1. /\ Len(accepted) \in Nat /\ Len(threadNodes) \in Nat
          /\ requests \in Nat
      BY LenProperties DEF IInv, TypeOK
    <3>2. Len(accepted) + Len(threadNodes) = requests + Len(nodes)
      BY <2>1 DEF IInv, Numbered, NumbersMatch
    <3> QED BY <2>1, <3>1, <3>2
  <2> QED BY <2>1, <2>2, WhoIsServed DEF Tickets!Refuse
<1>8. ASSUME NEW t \in Threads,
             enqueueCount(t) \/ dequeueVisit(t) \/ dequeueResume(t)
      PROVE  UNCHANGED Tickets!vars
  <2>1. UNCHANGED <<inUse, accepted, requests, ticket, ret>>
    BY <1>8 DEF enqueueCount, dequeueVisit, dequeueResume, backFromWait, history
  <2>2. Stranded' = Stranded
    <3>1. threadNode \in [Threads -> {"none", "live", "freed"}]
      BY DEF IInv, TypeOK
    <3>2. CASE enqueueCount(t) \/ dequeueVisit(t)
      BY <3>2 DEF enqueueCount, dequeueVisit, memory, Stranded
    <3>3. CASE dequeueResume(t)
      <4>1. threadNode[t] = "live"
        BY <3>3 DEF dequeueResume, IInv, Linked, NodesAlive, In
      <4>2. threadNode' = [threadNode EXCEPT ![t] = "none"]
        BY <3>3 DEF dequeueResume, backFromWait
      <4> QED BY <3>1, <4>1, <4>2 DEF Stranded
    <3> QED BY <1>8, <3>2, <3>3
  <2> QED BY <2>1, <2>2 DEF Stranded, Tickets!vars
<1>9. CASE UNCHANGED vars
  BY <1>9 DEF vars, memory, history, Tickets!vars
<1> QED BY <1>1, <1>2, <1>3, <1>4, <1>5, <1>6, <1>7, <1>8, <1>9
        DEF Next, Step, Tickets!Next

(* The queue of 4/queue.c implements TicketQueue: the k-th request returns *)
(* the k-th item, whoever waits, returns or destroys the queue meanwhile.  *)
THEOREM ImplementsTickets == Spec => FifoService
<1>1. Init => Tickets!Init
  BY DEF Init, Tickets!Init
<1>2. IInv /\ IInv' /\ [Next]_vars => [Tickets!Next]_(Tickets!vars)
  BY StepImplementsTickets
<1> QED BY <1>1, <1>2, IInvHolds, PTL DEF Spec, FifoService, Tickets!Spec

-----------------------------------------------------------------------------
(* The counters behind size(), waiting() and visited(): what they count at *)
(* every step, and that none drops below zero.                             *)
(* How many of the threads are at the places L, and one that goes to l.    *)
Count(f, L) == CountIn(Threads, f, L)

Moves(f, g, t, l) == g[t] = l /\ \A u \in Threads \ {t} : g[u] = f[u]

(* How the number of threads at a set of places changes when one of them   *)
(* moves.                                                                  *)
LEMMA OneThreadMoves ==
  ASSUME NEW f, NEW g, NEW t \in Threads, NEW l, Moves(f, g, t, l)
  PROVE  \A L : /\ Count(f, L) \in Nat /\ Count(g, L) \in Nat
                /\ Count(g, L) + OneIf(f[t], L) = Count(f, L) + OneIf(l, L)
                /\ Count(f, L) >= OneIf(f[t], L)
<1> SUFFICES ASSUME NEW L
             PROVE  /\ Count(f, L) \in Nat /\ Count(g, L) \in Nat
                    /\ Count(g, L) + OneIf(f[t], L) = Count(f, L) + OneIf(l, L)
                    /\ Count(f, L) >= OneIf(f[t], L)
  OBVIOUS
<1>1. IsFiniteSet(Threads) /\ g[t] = l /\ \A u \in Threads \ {t} : g[u] = f[u]
  BY ConstantsAssumption DEF Moves
<1>2. /\ CountIn(Threads, g, L) + OneIf(f[t], L)
           = CountIn(Threads, f, L) + OneIf(g[t], L)
      /\ CountIn(Threads, f, L) >= OneIf(f[t], L)
  BY <1>1, OneMoves
<1>3. CountIn(Threads, f, L) \in Nat /\ CountIn(Threads, g, L) \in Nat
  BY <1>1, CountInNat
<1> QED BY <1>1, <1>2, <1>3 DEF Count

-----------------------------------------------------------------------------
(* Counting is inductive together with IInv.  SizeExact and WaitingExact   *)
(* hold in a queue that is in use; what remains true after destroyQueue,   *)
(* which forgets the items but not their number, are the lower bounds.     *)
Inserting == {"inserted"}
Signalled == {"signalled"}
Counted   == {"counted"}
Owing     == {"signalled", "took", "counted"}

(* The row of a place: whether it is in each of the four sets.             *)
Row(l, i, s, c, o) ==
  /\ OneIf(l, Inserting) = i /\ OneIf(l, Signalled) = s
  /\ OneIf(l, Counted) = c /\ OneIf(l, Owing) = o

(* Which of the four counted sets each place of a thread belongs to.       *)
LEMMA Places ==
  /\ Row("idle", 0, 0, 0, 0)
  /\ Row("inserted", 1, 0, 0, 0)
  /\ Row("waiting", 0, 0, 0, 0)
  /\ Row("signalled", 0, 1, 0, 1)
  /\ Row("took", 0, 0, 0, 1)
  /\ Row("counted", 0, 0, 1, 1)
BY DEF Row, OneIf, Inserting, Signalled, Counted, Owing

Shift(f, g, i, s, c, o) ==
  /\ Count(g, Inserting) = Count(f, Inserting) + i
  /\ Count(g, Signalled) = Count(f, Signalled) + s
  /\ Count(g, Counted) = Count(f, Counted) + c
  /\ Count(g, Owing) = Count(f, Owing) + o

(* How the four numbers shift when one thread moves between two places of  *)
(* known rows.                                                             *)
LEMMA CountsMove ==
  ASSUME NEW f, NEW g, NEW t \in Threads, NEW l, Moves(f, g, t, l),
         NEW i \in Int, NEW s \in Int, NEW c \in Int, NEW o \in Int,
         NEW ii \in Int, NEW ss \in Int, NEW cc \in Int, NEW oo \in Int,
         Row(f[t], i, s, c, o), Row(l, ii, ss, cc, oo)
  PROVE  Shift(f, g, ii - i, ss - s, cc - c, oo - o) /\ Count(f, Owing) >= o
<1>1. \A L : /\ Count(f, L) \in Nat /\ Count(g, L) \in Nat
             /\ Count(g, L) + OneIf(f[t], L) = Count(f, L) + OneIf(l, L)
             /\ Count(f, L) >= OneIf(f[t], L)
  BY OneThreadMoves
<1>2. Count(g, Inserting) = Count(f, Inserting) + (ii - i)
  BY <1>1 DEF Row
<1>3. Count(g, Signalled) = Count(f, Signalled) + (ss - s)
  BY <1>1 DEF Row
<1>4. Count(g, Counted) = Count(f, Counted) + (cc - c)
  BY <1>1 DEF Row
<1>5. Count(g, Owing) = Count(f, Owing) + (oo - o) /\ Count(f, Owing) >= o
  BY <1>1 DEF Row
<1> QED BY <1>2, <1>3, <1>4, <1>5 DEF Shift

(* The shifts of the moves that the operations make.                       *)
LEMMA EveryMove ==
  ASSUME NEW f, NEW g, NEW t \in Threads, NEW l, Moves(f, g, t, l)
  PROVE  /\ f[t] = "idle" /\ l = "inserted" => Shift(f, g, 1, 0, 0, 0)
         /\ f[t] = "inserted" /\ l = "idle" => Shift(f, g, -1, 0, 0, 0)
         /\ f[t] = "idle" /\ l = "took" => Shift(f, g, 0, 0, 0, 1)
         /\ f[t] = "idle" /\ l = "waiting" => Shift(f, g, 0, 0, 0, 0)
         /\ f[t] = "waiting" /\ l = "signalled" => Shift(f, g, 0, 1, 0, 1)
         /\ f[t] = "signalled" /\ l = "took" => Shift(f, g, 0, -1, 0, 0)
         /\ f[t] = "took" /\ l = "counted" => Shift(f, g, 0, 0, 1, 0)
         /\ f[t] = "counted" /\ l = "idle" =>
              Shift(f, g, 0, 0, -1, -1) /\ Count(f, Owing) >= 1
<1>1. ASSUME NEW i \in Int, NEW s \in Int, NEW c \in Int, NEW o \in Int,
             NEW ii \in Int, NEW ss \in Int, NEW cc \in Int, NEW oo \in Int,
             Row(f[t], i, s, c, o), Row(l, ii, ss, cc, oo)
      PROVE  Shift(f, g, ii - i, ss - s, cc - c, oo - o) /\ Count(f, Owing) >= o
  BY <1>1, CountsMove
<1>2. f[t] = "idle" /\ l = "inserted" => Shift(f, g, 1 - 0, 0 - 0, 0 - 0, 0 - 0)
  BY <1>1, Places
<1>3. f[t] = "inserted" /\ l = "idle" => Shift(f, g, 0 - 1, 0 - 0, 0 - 0, 0 - 0)
  BY <1>1, Places
<1>4. f[t] = "idle" /\ l = "took" => Shift(f, g, 0 - 0, 0 - 0, 0 - 0, 1 - 0)
  BY <1>1, Places
<1>5. f[t] = "idle" /\ l = "waiting" => Shift(f, g, 0 - 0, 0 - 0, 0 - 0, 0 - 0)
  BY <1>1, Places
<1>6. f[t] = "waiting" /\ l = "signalled" => Shift(f, g, 0 - 0, 1 - 0, 0 - 0, 1 - 0)
  BY <1>1, Places
<1>7. f[t] = "signalled" /\ l = "took" => Shift(f, g, 0 - 0, 0 - 1, 0 - 0, 1 - 1)
  BY <1>1, Places
<1>8. f[t] = "took" /\ l = "counted" => Shift(f, g, 0 - 0, 0 - 0, 1 - 0, 1 - 1)
  BY <1>1, Places
<1>9. f[t] = "counted" /\ l = "idle" =>
        Shift(f, g, 0 - 0, 0 - 0, 0 - 1, 0 - 1) /\ Count(f, Owing) >= 1
  BY <1>1, Places
<1> QED BY <1>2, <1>3, <1>4, <1>5, <1>6, <1>7, <1>8, <1>9
Counting ==
  /\ inUse => qSize + Count(pc, Inserting) = Len(nodes) + Count(pc, Owing)
  /\ inUse => dqWaiting = Len(threadNodes) + Count(pc, Signalled)
  /\ inUse => qSize + passingCounter + Count(pc, Inserting)
                = Len(accepted) + Count(pc, Counted)
  /\ qSize + Count(pc, Inserting) >= Count(pc, Owing)
  /\ dqWaiting >= Count(pc, Signalled)
  /\ qSize >= 0

(* The number of threads at a set of places is a number, because there are *)
(* finitely many threads.                                                  *)
LEMMA CountsAreNumbers == \A f, L : Count(f, L) \in Nat
BY CountInNat, ConstantsAssumption DEF Count

(* The types of everything that the counting adds up.                      *)
LEMMA NumbersAreNumbers ==
  ASSUME TypeOK
  PROVE  /\ qSize \in Int /\ dqWaiting \in Int /\ passingCounter \in Int
         /\ Len(nodes) \in Nat /\ Len(threadNodes) \in Nat /\ Len(accepted) \in Nat
         /\ Count(pc, Inserting) \in Nat /\ Count(pc, Signalled) \in Nat
         /\ Count(pc, Counted) \in Nat /\ Count(pc, Owing) \in Nat
BY CountsAreNumbers, LenProperties DEF TypeOK

(* Where there is no thread the count is 0.                                *)
LEMMA NobodyThere ==
  ASSUME NEW f
  PROVE  /\ (\A u \in Threads : f[u] # "inserted") => Count(f, Inserting) = 0
         /\ (\A u \in Threads : f[u] # "signalled") => Count(f, Signalled) = 0
         /\ (\A u \in Threads : f[u] # "counted") => Count(f, Counted) = 0
         /\ (\A u \in Threads : f[u] \in {"idle", "waiting"}) =>
              Count(f, Owing) = 0
<1>1. ASSUME NEW L, \A u \in Threads : f[u] \notin L PROVE Count(f, L) = 0
  BY <1>1, CountInNat, ConstantsAssumption DEF Count
<1>2. (\A u \in Threads : f[u] # "inserted") => Count(f, {"inserted"}) = 0
  BY <1>1
<1>3. (\A u \in Threads : f[u] # "signalled") => Count(f, {"signalled"}) = 0
  BY <1>1
<1>4. (\A u \in Threads : f[u] # "counted") => Count(f, {"counted"}) = 0
  BY <1>1
<1>5. ASSUME \A u \in Threads : f[u] \in {"idle", "waiting"}
      PROVE  Count(f, {"signalled", "took", "counted"}) = 0
  <2>1. \A u \in Threads : f[u] \notin {"signalled", "took", "counted"}
    BY <1>5
  <2> QED BY <1>1, <2>1
<1> QED BY <1>2, <1>3, <1>4, <1>5 DEF Inserting, Signalled, Counted, Owing

(* A step that changes what is counted and the counters alike.             *)
Change(q, w, v, n, h, e) ==
  /\ qSize' = qSize + q
  /\ dqWaiting' = dqWaiting + w
  /\ passingCounter' = passingCounter + v
  /\ Len(nodes') = Len(nodes) + n
  /\ Len(threadNodes') = Len(threadNodes) + h
  /\ Len(accepted') = Len(accepted) + e

(* Adding two balanced changes to a balanced sum.                          *)
LEMMA Balance ==
  ASSUME NEW x \in Int, NEW y \in Int, NEW k \in Int, NEW l \in Int,
         NEW dx \in Int, NEW dy \in Int, NEW dk \in Int, NEW dl \in Int,
         dx + dy = dk + dl
  PROVE  /\ x + y = k + l => (x + dx) + (y + dy) = (k + dk) + (l + dl)
         /\ x + y >= l /\ dk >= 0 => (x + dx) + (y + dy) >= l + dl
OBVIOUS

(* A step whose changes of counters and of counted things balance keeps    *)
(* Counting.                                                               *)
LEMMA CountingKept ==
  ASSUME TypeOK, TypeOK', Counting, inUse' => inUse, qSize' >= 0,
         NEW i \in Int, NEW s \in Int, NEW c \in Int, NEW o \in Int,
         NEW q \in Int, NEW w \in Int, NEW v \in Int,
         NEW n \in Int, NEW h \in Int, NEW e \in Int,
         Shift(pc, pc', i, s, c, o), Change(q, w, v, n, h, e),
         q + i = n + o, w = h + s, (q + v) + i = e + c,
         inUse' \/ (n >= 0 /\ h >= 0)
  PROVE  Counting'
<1>1. /\ qSize \in Int /\ dqWaiting \in Int /\ passingCounter \in Int
      /\ Len(nodes) \in Nat /\ Len(threadNodes) \in Nat /\ Len(accepted) \in Nat
      /\ Count(pc, Inserting) \in Nat /\ Count(pc, Signalled) \in Nat
      /\ Count(pc, Counted) \in Nat /\ Count(pc, Owing) \in Nat
  BY NumbersAreNumbers
<1>2. Len(nodes') \in Nat /\ Len(threadNodes') \in Nat
  BY LenProperties DEF TypeOK
<1>3. /\ qSize' = qSize + q /\ dqWaiting' = dqWaiting + w
      /\ passingCounter' = passingCounter + v
      /\ Len(nodes') = Len(nodes) + n
      /\ Len(threadNodes') = Len(threadNodes) + h
      /\ Len(accepted') = Len(accepted) + e
      /\ Count(pc', Inserting) = Count(pc, Inserting) + i
      /\ Count(pc', Signalled) = Count(pc, Signalled) + s
      /\ Count(pc', Counted) = Count(pc, Counted) + c
      /\ Count(pc', Owing) = Count(pc, Owing) + o
  BY DEF Shift, Change
<1> DEFINE A == qSize  B == Count(pc, Inserting)  K == Len(nodes)  O == Count(pc, Owing)
           D == dqWaiting  H == Len(threadNodes)  S == Count(pc, Signalled)
           P == passingCounter  E == Len(accepted)  C == Count(pc, Counted)
<1>4. /\ A \in Int /\ B \in Int /\ K \in Int /\ O \in Int /\ D \in Int /\ H \in Int
      /\ S \in Int /\ P \in Int /\ E \in Int /\ C \in Int
  BY <1>1
<1> HIDE DEF A, B, K, O, D, H, S, P, E, C
<1>5. /\ A + B = K + O => (A + q) + (B + i) = (K + n) + (O + o)
      /\ A + B >= O /\ n >= 0 => (A + q) + (B + i) >= O + o
  BY <1>4, Balance
<1>6. /\ D = H + S => D + w = (H + h) + (S + s)
      /\ D >= S /\ h >= 0 => D + w >= S + s
  BY <1>4
<1>7. (A + P) + B = E + C => ((A + q) + (P + v)) + (B + i) = (E + e) + (C + c)
  BY <1>4
<1> USE DEF A, B, K, O, D, H, S, P, E, C
<1>8. /\ qSize + Count(pc, Inserting) = Len(nodes) + Count(pc, Owing) =>
           qSize' + Count(pc', Inserting) = Len(nodes') + Count(pc', Owing)
      /\ qSize + Count(pc, Inserting) >= Count(pc, Owing) /\ n >= 0 =>
           qSize' + Count(pc', Inserting) >= Count(pc', Owing)
  BY <1>3, <1>5, Zenon
<1>9. /\ dqWaiting = Len(threadNodes) + Count(pc, Signalled) =>
           dqWaiting' = Len(threadNodes') + Count(pc', Signalled)
      /\ dqWaiting >= Count(pc, Signalled) /\ h >= 0 =>
           dqWaiting' >= Count(pc', Signalled)
  BY <1>3, <1>6, Zenon
<1>10. qSize + passingCounter + Count(pc, Inserting)
         = Len(accepted) + Count(pc, Counted) =>
       qSize' + passingCounter' + Count(pc', Inserting)
         = Len(accepted') + Count(pc', Counted)
  BY <1>3, <1>7, Zenon
<1> HIDE DEF A, B, K, O, D, H, S, P, E, C
<1>11. CASE inUse'
  <2>1. /\ qSize' + Count(pc', Inserting) = Len(nodes') + Count(pc', Owing)
        /\ dqWaiting' = Len(threadNodes') + Count(pc', Signalled)
        /\ qSize' + passingCounter' + Count(pc', Inserting)
             = Len(accepted') + Count(pc', Counted)
    BY <1>8, <1>9, <1>10, <1>11 DEF Counting
  <2>2. Count(pc', Owing) \in Nat /\ Count(pc', Signalled) \in Nat
    BY CountsAreNumbers
  <2>3. /\ Len(nodes') + Count(pc', Owing) >= Count(pc', Owing)
        /\ Len(threadNodes') + Count(pc', Signalled) >= Count(pc', Signalled)
    BY <1>2, <2>2
  <2> QED BY <2>1, <2>3 DEF Counting
<1>12. CASE ~ inUse' /\ n >= 0 /\ h >= 0
  BY <1>8, <1>9, <1>12 DEF Counting
<1> QED BY <1>11, <1>12

(* At the start everything counted is 0.                                   *)
LEMMA CountingInit == Init => Counting
<1> SUFFICES ASSUME Init PROVE Counting
  OBVIOUS
<1>1. \A u \in Threads : pc[u] = "idle"
  BY DEF Init
<1>2. /\ Count(pc, Inserting) = 0 /\ Count(pc, Signalled) = 0
      /\ Count(pc, Counted) = 0 /\ Count(pc, Owing) = 0
  BY <1>1, NobodyThere
<1>3. inUse = FALSE /\ qSize = 0 /\ dqWaiting = 0
  BY DEF Init
<1> QED BY <1>2, <1>3 DEF Counting

(* enqueue keeps Counting: its item is linked, or handed over, before it   *)
(* is counted.                                                             *)
LEMMA CountingEnqueue ==
  ASSUME TypeOK, TypeOK', Linked, Counting,
         NEW t \in Threads, NEW d \in Items, enqueue(t, d)
  PROVE  Counting'
<1>1. inUse /\ inUse' = inUse /\ pc[t] = "idle" /\ qSize' >= 0
  BY DEF enqueue, counters, Counting
<1>2. /\ qSize' = qSize /\ dqWaiting' = dqWaiting
      /\ passingCounter' = passingCounter
      /\ Len(accepted') = Len(accepted) + 1
  BY AppendElements DEF enqueue, counters, TypeOK
<1>3. CASE threadNodes # <<>> /\ handOver(t, Head(threadNodes), d)
  <2> DEFINE w == Head(threadNodes)
             f == [pc EXCEPT ![w] = "signalled"]
  <2>1. /\ w \in Threads /\ w = threadNodes[1] /\ 1 \in 1 .. Len(threadNodes)
        /\ Len(threadNodes') = Len(threadNodes) - 1
        /\ nodes' = nodes
    BY <1>3, TailElements DEF handOver, popThread, TypeOK
  <2>2. pc[w] = "waiting" /\ w # t
    BY <1>1, <2>1, LinkedThreads DEF Linked
  <2>3. pc \in [Threads -> {"idle", "inserted", "waiting", "signalled",
                            "took", "counted", "leaving"}]
    BY DEF TypeOK
  <2>4. pc' = [pc EXCEPT ![w] = "signalled", ![t] = "inserted"]
    BY <1>3 DEF handOver
  <2>5. /\ Moves(pc, f, w, "signalled") /\ Moves(f, pc', t, "inserted")
        /\ f[t] = "idle"
    BY <1>1, <2>1, <2>2, <2>3, <2>4 DEF Moves
  <2> HIDE DEF f
  <2>6. Shift(pc, f, 0, 1, 0, 1)
    BY <2>1, <2>2, <2>5, EveryMove
  <2>7. Shift(f, pc', 1, 0, 0, 0)
    BY <2>5, EveryMove
  <2>8. Shift(pc, pc', 1, 1, 0, 1)
    BY <2>6, <2>7, NumbersAreNumbers DEF Shift
  <2>9. Change(0, 0, 0, 0, -1, 1)
    BY <1>2, <2>1, NumbersAreNumbers DEF Change
  <2> QED BY <1>1, <2>8, <2>9, CountingKept
<1>4. CASE threadNodes = <<>> /\ appendItem(t, d)
  <2>1. threadNodes' = threadNodes /\ Len(nodes') = Len(nodes) + 1
    BY <1>4, AppendElements DEF appendItem, TypeOK
  <2>2. Moves(pc, pc', t, "inserted")
    BY <1>4 DEF appendItem, TypeOK, Moves
  <2>3. Shift(pc, pc', 1, 0, 0, 0)
    BY <1>1, <2>2, EveryMove
  <2>4. Change(0, 0, 0, 1, 0, 1)
    BY <1>2, <2>1, NumbersAreNumbers DEF Change
  <2> QED BY <1>1, <2>3, <2>4, CountingKept
<1> QED BY <1>3, <1>4 DEF enqueue

(* Every operation keeps Counting.                                         *)
LEMMA CountingStep == IInv /\ Counting /\ [Next]_vars => Counting'
<1> SUFFICES ASSUME IInv, Counting, [Next]_vars PROVE Counting'
  OBVIOUS
<1>0. TypeOK /\ TypeOK' /\ Linked /\ Numbered
  BY TypeStep DEF IInv
<1>a. qSize \in Int /\ qSize >= 0
  BY <1>0, NumbersAreNumbers DEF Counting
<1>1. ASSUME NEW t \in Threads, initQueue(t) PROVE Counting'
  <2>1. /\ inUse' /\ qSize' = 0 /\ dqWaiting' = 0 /\ passingCounter' = 0
        /\ nodes' = <<>> /\ threadNodes' = <<>> /\ accepted' = <<>>
    BY <1>1 DEF initQueue
  <2>2. \A u \in Threads : pc'[u] \in {"idle", "waiting"}
    BY <1>1 DEF initQueue, Joined
  <2>3. Len(nodes') = 0 /\ Len(threadNodes') = 0 /\ Len(accepted') = 0
    BY <2>1, EmptySeq
  <2>4. /\ Count(pc', Inserting) = 0 /\ Count(pc', Signalled) = 0
        /\ Count(pc', Counted) = 0 /\ Count(pc', Owing) = 0
    BY <2>2, NobodyThere
  <2> QED BY <2>1, <2>3, <2>4 DEF Counting
<1>2. ASSUME NEW t \in Threads, destroyQueue(t) PROVE Counting'
  <2>1. /\ inUse' = FALSE /\ qSize' = qSize /\ dqWaiting' = dqWaiting /\ pc' = pc
    BY <1>2 DEF destroyQueue, keepCounters, counters
  <2> QED BY <2>1 DEF Counting
<1>3. ASSUME NEW t \in Threads, NEW d \in Items, enqueue(t, d) PROVE Counting'
  BY <1>0, <1>3, CountingEnqueue
<1>4. ASSUME NEW t \in Threads, enqueueCount(t) PROVE Counting'
  <2>1. /\ inUse' = inUse /\ nodes' = nodes /\ threadNodes' = threadNodes
        /\ accepted' = accepted /\ qSize' = qSize + 1
        /\ dqWaiting' = dqWaiting /\ passingCounter' = passingCounter
    BY <1>4 DEF enqueueCount, history
  <2>2. pc[t] = "inserted" /\ Moves(pc, pc', t, "idle")
    BY <1>0, <1>4 DEF enqueueCount, Moves, TypeOK
  <2>3. Shift(pc, pc', -1, 0, 0, 0)
    BY <2>2, EveryMove
  <2>4. Change(1, 0, 0, 0, 0, 0)
    BY <1>0, <2>1, NumbersAreNumbers DEF Change
  <2> QED BY <1>0, <1>a, <2>1, <2>3, <2>4, CountingKept
<1>5. ASSUME NEW t \in Threads, takeHead(t) PROVE Counting'
  <2>1. /\ inUse /\ inUse' = inUse /\ threadNodes' = threadNodes
        /\ accepted' = accepted /\ qSize' = qSize
        /\ dqWaiting' = dqWaiting /\ passingCounter' = passingCounter
    BY <1>5 DEF takeHead, counters, NewTicket
  <2>2. Len(nodes') = Len(nodes) - 1
    BY <1>0, <1>5, TailElements DEF takeHead, TypeOK
  <2>3. pc[t] = "idle" /\ Moves(pc, pc', t, "took")
    BY <1>0, <1>5 DEF takeHead, Moves, TypeOK
  <2>4. Shift(pc, pc', 0, 0, 0, 1)
    BY <2>3, EveryMove
  <2>5. Change(0, 0, 0, -1, 0, 0)
    BY <1>0, <2>1, <2>2, NumbersAreNumbers DEF Change
  <2> QED BY <1>0, <1>a, <2>1, <2>4, <2>5, CountingKept
<1>6. ASSUME NEW t \in Threads, dequeueWait(t) PROVE Counting'
  <2>1. /\ inUse /\ inUse' = inUse /\ nodes' = nodes
        /\ accepted' = accepted /\ qSize' = qSize
        /\ dqWaiting' = dqWaiting + 1 /\ passingCounter' = passingCounter
    BY <1>6 DEF dequeueWait, NewTicket
  <2>2. Len(threadNodes') = Len(threadNodes) + 1
    BY <1>0, <1>6, AppendElements DEF dequeueWait, addThread, TypeOK
  <2>3. pc[t] = "idle" /\ Moves(pc, pc', t, "waiting")
    BY <1>0, <1>6 DEF dequeueWait, Moves, TypeOK
  <2>4. Shift(pc, pc', 0, 0, 0, 0)
    BY <2>3, EveryMove
  <2>5. Change(0, 1, 0, 0, 1, 0)
    BY <1>0, <2>1, <2>2, NumbersAreNumbers DEF Change
  <2> QED BY <1>0, <1>a, <2>1, <2>4, <2>5, CountingKept
<1>7. ASSUME NEW t \in Threads, dequeueResume(t) PROVE Counting'
  <2>1. pc[t] = "signalled" /\ noLock[t] = TRUE
    BY <1>0, <1>7 DEF dequeueResume, Numbered, InHand
  <2>2. /\ inUse' = inUse /\ nodes' = nodes /\ threadNodes' = threadNodes
        /\ accepted' = accepted /\ qSize' = qSize
        /\ dqWaiting' = dqWaiting - 1 /\ passingCounter' = passingCounter
    BY <1>7, <2>1 DEF dequeueResume, backFromWait, history
  <2>3. Moves(pc, pc', t, "took")
    BY <1>0, <1>7, <2>1 DEF dequeueResume, backFromWait, Moves, TypeOK
  <2>4. Shift(pc, pc', 0, -1, 0, 0)
    BY <2>1, <2>3, EveryMove
  <2>5. Change(0, -1, 0, 0, 0, 0)
    BY <1>0, <2>2, NumbersAreNumbers DEF Change
  <2> QED BY <1>0, <1>a, <2>2, <2>4, <2>5, CountingKept
<1>8. ASSUME NEW t \in Threads, dequeueVisit(t) PROVE Counting'
  <2>1. /\ inUse' = inUse /\ nodes' = nodes /\ threadNodes' = threadNodes
        /\ accepted' = accepted /\ qSize' = qSize
        /\ dqWaiting' = dqWaiting /\ passingCounter' = passingCounter + 1
    BY <1>8 DEF dequeueVisit, countVisit, history
  <2>2. pc[t] = "took" /\ Moves(pc, pc', t, "counted")
    BY <1>0, <1>8 DEF dequeueVisit, Moves, TypeOK
  <2>3. Shift(pc, pc', 0, 0, 1, 0)
    BY <2>2, EveryMove
  <2>4. Change(0, 0, 1, 0, 0, 0)
    BY <1>0, <2>1, NumbersAreNumbers DEF Change
  <2> QED BY <1>0, <1>a, <2>1, <2>3, <2>4, CountingKept
<1>9. ASSUME NEW t \in Threads, dequeueReturn(t) PROVE Counting'
  <2>1. pc[t] = "counted" /\ queueLock = t
    BY <1>0, <1>9 DEF dequeueReturn, Unlock, Numbered, InHand
  <2>2. /\ inUse' = inUse /\ nodes' = nodes /\ threadNodes' = threadNodes
        /\ accepted' = accepted /\ qSize' = qSize - 1
        /\ dqWaiting' = dqWaiting /\ passingCounter' = passingCounter
    BY <1>9, <2>1 DEF dequeueReturn
  <2>3. Moves(pc, pc', t, "idle")
    BY <1>0, <1>9, <2>1 DEF dequeueReturn, Moves, TypeOK
  <2>4. Shift(pc, pc', 0, 0, -1, -1) /\ Count(pc, Owing) >= 1
    BY <2>1, <2>3, EveryMove
  <2>5. Count(pc, Inserting) = 0
    <3>1. \A u \in Threads : pc[u] # "inserted"
      BY <1>0, <2>1 DEF Linked, Mutex, Holding
    <3> QED BY <3>1, NobodyThere
  <2>6. qSize >= 1
    <3>1. qSize + Count(pc, Inserting) >= Count(pc, Owing)
      BY DEF Counting
    <3>2. Count(pc, Owing) \in Int
      BY <1>0, NumbersAreNumbers
    <3> QED BY <1>a, <2>4, <2>5, <3>1, <3>2
  <2>7. Change(-1, 0, 0, 0, 0, 0)
    BY <1>0, <2>2, NumbersAreNumbers DEF Change
  <2>8. qSize' >= 0
    BY <1>a, <2>2, <2>6
  <2> QED BY <1>0, <2>2, <2>4, <2>7, <2>8, CountingKept
<1>10. CASE (\E t \in Threads : tryDequeueRefuse(t)) \/ UNCHANGED vars
  <2>1. /\ inUse' = inUse /\ nodes' = nodes /\ threadNodes' = threadNodes
        /\ accepted' = accepted /\ qSize' = qSize /\ dqWaiting' = dqWaiting
        /\ passingCounter' = passingCounter /\ pc' = pc
    BY <1>10 DEF tryDequeueRefuse, vars, counters, history
  <2> QED BY <2>1 DEF Counting
<1> QED BY <1>1, <1>2, <1>3, <1>4, <1>5, <1>6, <1>7, <1>8, <1>9, <1>10
        DEF Next, Step

(* Counting holds in every reachable state.                                *)
LEMMA CountingHolds == Spec => [](IInv /\ Counting)
<1>1. Init => Counting
  BY CountingInit
<1>2. IInv /\ Counting /\ [Next]_vars => Counting'
  BY CountingStep
<1> QED BY <1>1, <1>2, IInvHolds, PTL DEF Spec

-----------------------------------------------------------------------------
(* size(), waiting() and visited() count what they should while a queue is *)
(* in use: size() the items linked or on their way out, waiting() the      *)
(* threads linked or about to run, and with the lock free every item once. *)
THEOREM CountersAreExact == Spec => []CountersExact
<1>1. IInv /\ Counting => CountersExact
  <2> SUFFICES ASSUME IInv, Counting, inUse
               PROVE  SizeExact /\ WaitingExact /\ ItemsCountedOnce
    BY DEF CountersExact
  <2>1. TypeOK /\ Linked
    BY DEF IInv
  <2>2. /\ Count(pc, Inserting) = Cardinality(In({"inserted"}))
        /\ Count(pc, Signalled) = Cardinality(In({"signalled"}))
        /\ Count(pc, Owing) = Cardinality(In({"signalled", "took", "counted"}))
    BY DEF Count, CountIn, In, Owing, Inserting, Signalled
  <2>3. SizeExact
    <3>1. qSize + Count(pc, Inserting) = Len(nodes) + Count(pc, Owing)
      BY DEF Counting
    <3>2. qSize = Len(nodes) - Count(pc, Inserting) + Count(pc, Owing)
      BY <2>1, <3>1, NumbersAreNumbers
    <3> QED BY <2>2, <3>2 DEF SizeExact
  <2>4. WaitingExact
    <3>1. dqWaiting = Len(threadNodes) + Count(pc, Signalled)
      BY DEF Counting
    <3> QED BY <2>2, <3>1 DEF WaitingExact
  <2>5. ASSUME queueLock = Nothing PROVE qSize + passingCounter = Len(accepted)
    <3>1. \A u \in Threads : pc[u] # "inserted" /\ pc[u] # "counted"
      BY <2>1, <2>5, ConstantsAssumption DEF Linked, Mutex, Holding
    <3>2. Count(pc, Inserting) = 0 /\ Count(pc, Counted) = 0
      BY <3>1, NobodyThere
    <3>3. qSize + passingCounter + Count(pc, Inserting)
            = Len(accepted) + Count(pc, Counted)
      BY DEF Counting
    <3> QED BY <2>1, <3>2, <3>3, NumbersAreNumbers
  <2> QED BY <2>3, <2>4, <2>5 DEF ItemsCountedOnce
<1> QED BY <1>1, CountingHolds, PTL

(* The size_t that size() and waiting() return never wraps, not even in    *)
(* the threads that leave dequeue after destroyQueue.                      *)
THEOREM CountersNeverWrap == Spec => []NoCounterWraps
<1>1. ASSUME IInv, Counting PROVE NoCounterWraps
  <2>1. TypeOK
    BY <1>1 DEF IInv
  <2>2. qSize >= 0 /\ dqWaiting >= Count(pc, Signalled)
    BY <1>1 DEF Counting
  <2> QED BY <2>1, <2>2, NumbersAreNumbers DEF NoCounterWraps
<1> QED BY <1>1, CountingHolds, PTL
=============================================================================
