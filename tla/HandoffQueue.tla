---------------------------- MODULE HandoffQueue ----------------------------
(***************************************************************************)
(* The concurrent queue of 4/queue.c.  dequeue() on an empty queue links a *)
(* threadNode of its own and waits on the condition variable inside it;    *)
(* enqueue() hands its item straight to the oldest such node, and only     *)
(* without one does it append to the list of items.                        *)
(*                                                                         *)
(* A step is what a thread does while it keeps queueLock, cut where the    *)
(* lock is released and where one of the counters that size(), waiting()   *)
(* and visited() read WITHOUT the lock changes again.                      *)
(***************************************************************************)
EXTENDS Integers, Sequences, FiniteSets, Functions

CONSTANTS
  Threads,      (* the threads that share the queue                        *)
  Items,        (* the pointers passed through it                          *)
  Nothing,      (* no value, an empty variable                             *)
  Garbage,      (* the content of memory nobody has written                *)
  MaxEnqueues   (* bound: enqueues between initQueue and destroyQueue      *)

ASSUME ConstantsAssumption ==
  /\ Nothing \notin Items \cup Threads
  /\ Garbage \notin Items \cup {Nothing}
  /\ MaxEnqueues \in Nat
  /\ IsFiniteSet(Threads)

VARIABLES
  inUse,           (* between initQueue and destroyQueue                   *)
  queueLock,       (* the holder of the mutex, Nothing when it is free     *)
  nodes,           (* head .. tail: the data of the linked Nodes           *)
  threadNodes,     (* threadHead .. threadTail: the owners of the nodes    *)
  qSize, dqWaiting, passingCounter,
  pc,              (* where each thread is                                 *)
  threadNode,      (* a thread's own threadNode: none, live or freed       *)
  data, noLock,    (* the two fields of that node                          *)
  local            (* dequeue's local variable data                        *)

(* History, read by no action: the items enqueued and the number of        *)
(* requests since initQueue, the number of a thread's outstanding request, *)
(* and what its last completed request returned.                           *)
VARIABLES accepted, requests, ticket, ret

counters == <<qSize, dqWaiting, passingCounter>>
memory   == <<threadNode, data, noLock>>
history  == <<accepted, requests, ticket, ret>>
vars     == <<inUse, queueLock, nodes, threadNodes, counters, pc, memory,
              local, history>>

TypeOK ==
  /\ inUse \in BOOLEAN
  /\ queueLock \in Threads \cup {Nothing}
  /\ nodes \in Seq(Items)
  /\ threadNodes \in Seq(Threads)
  /\ qSize \in Int
  /\ dqWaiting \in Int
  /\ passingCounter \in Nat
  /\ pc \in [Threads -> {"idle", "inserted", "waiting", "signalled",
                         "took", "counted", "leaving"}]
  /\ threadNode \in [Threads -> {"none", "live", "freed"}]
  /\ data \in [Threads -> Items \cup {Nothing, Garbage}]
  /\ noLock \in [Threads -> BOOLEAN]
  /\ local \in [Threads -> Items \cup {Nothing, Garbage}]
  /\ accepted \in Seq(Items)
  /\ requests \in Nat
  /\ ticket \in [Threads -> Nat]
  /\ ret \in [Threads -> Items \cup {Nothing, Garbage}]

(* The static variables of a program that has not called initQueue yet.    *)
Init ==
  /\ inUse = FALSE
  /\ queueLock = Nothing
  /\ nodes = <<>>
  /\ threadNodes = <<>>
  /\ qSize = 0 /\ dqWaiting = 0 /\ passingCounter = 0
  /\ pc = [t \in Threads |-> "idle"]
  /\ threadNode = [t \in Threads |-> "none"]
  /\ data = [t \in Threads |-> Nothing]
  /\ noLock = [t \in Threads |-> FALSE]
  /\ local = [t \in Threads |-> Nothing]
  /\ accepted = <<>>
  /\ requests = 0
  /\ ticket = [t \in Threads |-> 0]
  /\ ret = [t \in Threads |-> Nothing]

-----------------------------------------------------------------------------
(* mtx_lock(&queueLock) succeeding for t; mtx_unlock; the two ends of the  *)
(* thread list; the fields enqueue writes into a waiter's node; the        *)
(* counter of dequeues.  A definition called "...Bug" is not part of the   *)
(* model: it is the operator below it as a mistake would have left it.     *)
Lock(t) == queueLock = Nothing /\ queueLock' = t

UnlockForgottenBug(t) == queueLock = t /\ UNCHANGED queueLock
Unlock(t) == queueLock = t /\ queueLock' = Nothing

AddThreadInFrontBug(t) == threadNodes' = <<t>> \o threadNodes
addThread(t) == threadNodes' = Append(threadNodes, t)

PopKeepsNodeLinkedBug == UNCHANGED threadNodes
popThread == threadNodes' = Tail(threadNodes)

NoLockNotSetBug(w, d) == data' = [data EXCEPT ![w] = d] /\ UNCHANGED noLock
fillNode(w, d) ==
  /\ data' = [data EXCEPT ![w] = d]
  /\ noLock' = [noLock EXCEPT ![w] = TRUE]

VisitedCountsDownBug == passingCounter' = passingCounter - 1
countVisit == passingCounter' = passingCounter + 1

-----------------------------------------------------------------------------
(* initQueue sets every static variable again, so its callers run it when  *)
(* no other thread is inside the queue: only threads that an earlier       *)
(* destroyQueue left in cnd_wait may remain.                               *)
Joined == \A u \in Threads : pc[u] \in {"idle", "waiting"}

initQueue(t) ==
  /\ ~ inUse /\ pc[t] = "idle" /\ Joined
  /\ inUse' = TRUE
  /\ nodes' = <<>> /\ threadNodes' = <<>>
  /\ passingCounter' = 0 /\ dqWaiting' = 0 /\ qSize' = 0
  /\ queueLock' = Nothing
  /\ accepted' = <<>> /\ requests' = 0
  /\ UNCHANGED <<pc, memory, local, ticket, ret>>

(* Both lists are freed under the lock.  The threads whose nodes are freed *)
(* are not woken, and no counter is reset: a thread that was handed its    *)
(* item before still counts itself out.                                    *)
ResetCountersBug == qSize' = 0 /\ dqWaiting' = 0 /\ passingCounter' = 0
keepCounters == UNCHANGED counters

destroyQueue(t) ==
  /\ inUse /\ pc[t] = "idle" /\ queueLock = Nothing
  /\ inUse' = FALSE
  /\ nodes' = <<>> /\ threadNodes' = <<>>
  /\ threadNode' = [u \in Threads |-> IF u \in Range(threadNodes)
                                      THEN "freed" ELSE threadNode[u]]
  /\ ticket' = [u \in Threads |-> IF u \in Range(threadNodes)
                                  THEN 0 ELSE ticket[u]]
  /\ keepCounters
  /\ UNCHANGED <<queueLock, pc, data, noLock, local, accepted, requests, ret>>

-----------------------------------------------------------------------------
(* enqueue: with a thread waiting, the item goes into the node of the      *)
(* oldest one, which is unlinked and signalled ...                         *)
HandOverWithoutSignalBug(t, w, d) ==
  /\ popThread /\ fillNode(w, d) /\ UNCHANGED nodes
  /\ pc' = [pc EXCEPT ![t] = "inserted"]

HandOverWithoutElseBug(t, w, d) ==
  /\ popThread /\ fillNode(w, d) /\ nodes' = Append(nodes, d)
  /\ pc' = [pc EXCEPT ![w] = "signalled", ![t] = "inserted"]

handOver(t, w, d) ==
  /\ popThread /\ fillNode(w, d) /\ UNCHANGED nodes
  /\ pc' = [pc EXCEPT ![w] = "signalled", ![t] = "inserted"]

(* ... and otherwise the item is appended to the list.                     *)
appendItem(t, d) ==
  /\ nodes' = Append(nodes, d)
  /\ pc' = [pc EXCEPT ![t] = "inserted"]
  /\ UNCHANGED <<threadNodes, data, noLock>>

enqueue(t, d) ==
  /\ inUse /\ pc[t] = "idle" /\ Len(accepted) < MaxEnqueues
  /\ Lock(t)
  /\ \/ threadNodes # <<>> /\ handOver(t, Head(threadNodes), d)
     \/ threadNodes = <<>> /\ appendItem(t, d)
  /\ accepted' = Append(accepted, d)
  /\ UNCHANGED <<inUse, counters, threadNode, local, requests, ticket, ret>>

enqueueCount(t) ==
  /\ pc[t] = "inserted"
  /\ qSize' = qSize + 1
  /\ pc' = [pc EXCEPT ![t] = "idle"]
  /\ Unlock(t)
  /\ UNCHANGED <<inUse, nodes, threadNodes, dqWaiting, passingCounter, memory,
                 local, history>>

-----------------------------------------------------------------------------
NewTicket(t) ==
  /\ requests' = requests + 1
  /\ ticket' = [ticket EXCEPT ![t] = requests + 1]
  /\ UNCHANGED <<accepted, ret>>

(* The head of the item list: dequeue's else branch, and tryDequeue.       *)
takeHead(t) ==
  /\ inUse /\ pc[t] = "idle" /\ nodes # <<>>
  /\ Lock(t)
  /\ local' = [local EXCEPT ![t] = Head(nodes)]
  /\ nodes' = Tail(nodes)
  /\ pc' = [pc EXCEPT ![t] = "took"]
  /\ NewTicket(t)
  /\ UNCHANGED <<inUse, threadNodes, counters, memory>>

(* dequeue of an empty list.  The node comes from malloc: its fields hold  *)
(* whatever was there before.  cnd_wait gives the lock back at once.       *)
dequeueWait(t) ==
  /\ inUse /\ pc[t] = "idle" /\ nodes = <<>> /\ queueLock = Nothing
  /\ threadNode' = [threadNode EXCEPT ![t] = "live"]
  /\ data' = [data EXCEPT ![t] = Garbage]
  /\ \E b \in BOOLEAN : noLock' = [noLock EXCEPT ![t] = b]
  /\ addThread(t)
  /\ dqWaiting' = dqWaiting + 1
  /\ pc' = [pc EXCEPT ![t] = "waiting"]
  /\ NewTicket(t)
  /\ UNCHANGED <<inUse, queueLock, nodes, qSize, passingCounter, local>>

(* cnd_wait has the lock again: the node is read and freed.                *)
backFromWait(t) ==
  /\ Lock(t)
  /\ local' = [local EXCEPT ![t] = data[t]]
  /\ dqWaiting' = IF noLock[t] THEN dqWaiting - 1 ELSE dqWaiting
  /\ pc' = [pc EXCEPT ![t] = IF noLock[t] THEN "took" ELSE "leaving"]
  /\ threadNode' = [threadNode EXCEPT ![t] = "none"]
  /\ data' = [data EXCEPT ![t] = Nothing]
  /\ noLock' = [noLock EXCEPT ![t] = FALSE]
  /\ UNCHANGED <<inUse, nodes, threadNodes, qSize, passingCounter, history>>

dequeueResume(t) == pc[t] = "signalled" /\ backFromWait(t)

dequeueVisit(t) ==
  /\ pc[t] = "took"
  /\ countVisit
  /\ pc' = [pc EXCEPT ![t] = "counted"]
  /\ UNCHANGED <<inUse, queueLock, nodes, threadNodes, qSize, dqWaiting,
                 memory, local, history>>

(* The end of dequeue and of a tryDequeue that found an item.              *)
dequeueReturn(t) ==
  /\ pc[t] \in {"counted", "leaving"}
  /\ qSize' = IF pc[t] = "counted" THEN qSize - 1 ELSE qSize
  /\ Unlock(t)
  /\ pc' = [pc EXCEPT ![t] = "idle"]
  /\ local' = [local EXCEPT ![t] = Nothing]
  /\ ret' = [ret EXCEPT ![t] = local[t]]
  /\ ticket' = [ticket EXCEPT ![t] = 0]
  /\ UNCHANGED <<inUse, nodes, threadNodes, dqWaiting, passingCounter, memory,
                 accepted, requests>>

tryDequeueRefuse(t) ==
  /\ inUse /\ pc[t] = "idle" /\ nodes = <<>> /\ queueLock = Nothing
  /\ ret' = [ret EXCEPT ![t] = Nothing]
  /\ UNCHANGED <<inUse, queueLock, nodes, threadNodes, counters, pc, memory,
                 local, accepted, requests, ticket>>

-----------------------------------------------------------------------------
Step(t) ==
  \/ initQueue(t)
  \/ destroyQueue(t)
  \/ \E d \in Items : enqueue(t, d)
  \/ enqueueCount(t)
  \/ takeHead(t)
  \/ dequeueWait(t)
  \/ dequeueResume(t)
  \/ dequeueVisit(t)
  \/ dequeueReturn(t)
  \/ tryDequeueRefuse(t)

Next == \E t \in Threads : Step(t)

Spec == Init /\ [][Next]_vars

(* A thread that holds the mutex keeps running; one that competes for the  *)
(* mutex gets it sooner or later, although others may overtake it.         *)
Fairness ==
  \A t \in Threads :
    /\ WF_vars(enqueueCount(t))
    /\ WF_vars(dequeueVisit(t))
    /\ WF_vars(dequeueReturn(t))
    /\ SF_vars(dequeueResume(t))

FairSpec == Spec /\ Fairness

-----------------------------------------------------------------------------
In(labels) == {t \in Threads : pc[t] \in labels}

(* The counters are right while a queue is in use, and not only when it is *)
(* quiet: size() counts the linked items and those already handed to a     *)
(* thread that has not returned yet, waiting() the linked threads and the  *)
(* signalled ones that do not run yet, and every accepted item is counted  *)
(* once, in size() or in visited(), whenever the lock is free.             *)
SizeExact ==
  qSize = Len(nodes) - Cardinality(In({"inserted"}))
          + Cardinality(In({"signalled", "took", "counted"}))
WaitingExact == dqWaiting = Len(threadNodes) + Cardinality(In({"signalled"}))
ItemsCountedOnce ==
  queueLock = Nothing => qSize + passingCounter = Len(accepted)
CountersExact == inUse => SizeExact /\ WaitingExact /\ ItemsCountedOnce

(* size() and waiting() convert an int to size_t: neither is ever below    *)
(* zero, not even while a consumer that was handed an item before          *)
(* destroyQueue is still on its way out.                                   *)
NoCounterWraps == qSize >= 0 /\ dqWaiting >= 0

(* dequeue tests only whether there is an item, never whether others wait  *)
(* already.  That is first come, first served only because items and       *)
(* waiting threads are never queued at the same time.                      *)
NoItemPassesAWaiter == threadNodes # <<>> => nodes = <<>>

(* enqueue and destroyQueue follow pointers into nodes that belong to      *)
(* other threads.  A linked node is the node of a thread that waits, and   *)
(* is linked once; a thread that was signalled finds its node not freed.   *)
NodesAlive ==
  /\ \A t \in Range(threadNodes) : pc[t] = "waiting" /\ threadNode[t] = "live"
  /\ \A i, j \in 1 .. Len(threadNodes) :
       threadNodes[i] = threadNodes[j] => i = j
  /\ \A t \in In({"signalled"}) : threadNode[t] = "live"

(* The queue is the abstract one: the k-th request since initQueue returns *)
(* the k-th item since initQueue, and tryDequeue fails only when every     *)
(* item belongs to an earlier request.                                     *)
Tickets == INSTANCE TicketQueue WITH
             open <- inUse, taken <- requests,
             stranded <- {t \in Threads : threadNode[t] = "freed"}
FifoService == Tickets!Spec

(* No wakeup is lost: once the item with a request's number was enqueued,  *)
(* the request returns, even when destroyQueue runs in between.            *)
ServedRequestReturns == Tickets!ServedRequestReturns
=============================================================================
