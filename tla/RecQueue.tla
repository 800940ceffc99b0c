------------------------------ MODULE RecQueue ------------------------------
(***************************************************************************)
(* The queue of 4/rec09_mutex/queue.c.  It hands elements over like the    *)
(* one of 4/queue.c, but destroyQueue wakes every thread that waits, and   *)
(* the three counters are atomics.                                         *)
(*                                                                         *)
(* A step runs up to the next change of a counter, which any thread may    *)
(* read without q_lock, or to the release of q_lock.                       *)
(***************************************************************************)
EXTENDS Integers, Sequences, FiniteSets, Functions

CONSTANTS
  Threads, Elems,
  NULL,
  Garbage,      (* the content of memory nobody has written                *)
  MaxEnqueues   (* bound: enqueues between initQueue and destroyQueue      *)

ASSUME RecAssumption ==
  /\ NULL \notin Elems \cup Threads
  /\ Garbage \notin Elems \cup {NULL}
  /\ MaxEnqueues \in Nat
  /\ IsFiniteSet(Threads)

VARIABLES
  inUse,               (* between initQueue and destroyQueue               *)
  q_lock,              (* the holder of the mutex, NULL when it is free    *)
  main_q,              (* the elements, head first                         *)
  waiting_threads_q,   (* the owners of the thread_nodes, head first       *)
  full_size, visited_elements_num, waiting_threads_num,
  pc,                  (* where each thread is                             *)
  elem, legal,         (* the fields of a thread's own thread_node         *)
  dequeued_elem        (* the local variable of dequeue and tryDequeue     *)

(* History, read by no action: as in HandoffQueue.                         *)
VARIABLES accepted, requests, ticket, ret

queues   == <<main_q, waiting_threads_q>>
counters == <<full_size, visited_elements_num, waiting_threads_num>>
node     == <<elem, legal>>
history  == <<accepted, requests, ticket, ret>>
vars     == <<inUse, q_lock, queues, counters, pc, node, dequeued_elem,
              history>>

TypeOK ==
  /\ inUse \in BOOLEAN
  /\ q_lock \in Threads \cup {NULL}
  /\ main_q \in Seq(Elems) /\ waiting_threads_q \in Seq(Threads)
  /\ full_size \in Nat
  /\ visited_elements_num \in Nat
  /\ waiting_threads_num \in Nat
  /\ pc \in [Threads -> {"idle", "waiting", "signalled", "took", "visited",
                         "tried"}]
  /\ elem \in [Threads -> Elems \cup {NULL, Garbage}]
  /\ legal \in [Threads -> BOOLEAN]
  /\ dequeued_elem \in [Threads -> Elems \cup {NULL}]
  /\ ret \in [Threads -> Elems \cup {NULL}]

Init ==
  /\ inUse = FALSE /\ q_lock = NULL
  /\ main_q = <<>> /\ waiting_threads_q = <<>>
  /\ full_size = 0 /\ visited_elements_num = 0 /\ waiting_threads_num = 0
  /\ pc = [t \in Threads |-> "idle"]
  /\ elem = [t \in Threads |-> NULL]
  /\ legal = [t \in Threads |-> FALSE]
  /\ dequeued_elem = [t \in Threads |-> NULL]
  /\ accepted = <<>> /\ requests = 0
  /\ ticket = [t \in Threads |-> 0]
  /\ ret = [t \in Threads |-> NULL]

-----------------------------------------------------------------------------
Free == q_lock = NULL
Lock(t) == Free /\ q_lock' = t
UnlockForgottenBug(t) == q_lock = t /\ UNCHANGED q_lock
Unlock(t) == q_lock = t /\ q_lock' = NULL

Goto(t, from, to) == pc[t] \in from /\ pc' = [pc EXCEPT ![t] = to]
Enter(t) == inUse /\ pc[t] = "idle" /\ Free

InsertAtHeadBug(t) == waiting_threads_q' = <<t>> \o waiting_threads_q
insert_to_threads_q(t) == waiting_threads_q' = Append(waiting_threads_q, t)

ForgetsVisitBug == UNCHANGED visited_elements_num
countVisit == visited_elements_num' = visited_elements_num + 1

(* initQueue makes the mutex and every counter anew: its callers have      *)
(* joined their threads.                                                   *)
initQueue(t) ==
  /\ ~ inUse /\ \A u \in Threads : pc[u] = "idle"
  /\ inUse' = TRUE /\ q_lock' = NULL
  /\ main_q' = <<>> /\ waiting_threads_q' = <<>>
  /\ full_size' = 0 /\ visited_elements_num' = 0 /\ waiting_threads_num' = 0
  /\ accepted' = <<>> /\ requests' = 0
  /\ UNCHANGED <<pc, node, dequeued_elem, ticket, ret>>

(* free_threads_q: every waiting thread is signalled with legal = false.   *)
Waiters == Range(waiting_threads_q)

SignalsOnlyTheHeadBug ==
  pc' = [u \in Threads |-> IF Waiters # {} /\ u = Head(waiting_threads_q)
                           THEN "signalled" ELSE pc[u]]
signalWaiters ==
  pc' = [u \in Threads |-> IF u \in Waiters THEN "signalled" ELSE pc[u]]

destroyQueue(t) ==
  /\ Enter(t)
  /\ inUse' = FALSE
  /\ main_q' = <<>> /\ waiting_threads_q' = <<>>
  /\ signalWaiters
  /\ legal' = [u \in Threads |-> u \notin Waiters /\ legal[u]]
  /\ elem' = [u \in Threads |-> IF u \in Waiters THEN NULL ELSE elem[u]]
  /\ ticket' = [u \in Threads |-> IF u \in Waiters THEN 0 ELSE ticket[u]]
  /\ UNCHANGED <<q_lock, counters, dequeued_elem, accepted, requests, ret>>

-----------------------------------------------------------------------------
NewTicket(t) ==
  /\ requests' = requests + 1
  /\ ticket' = [ticket EXCEPT ![t] = requests + 1]
  /\ UNCHANGED <<accepted, ret>>

Result(t, e) ==
  /\ ret' = [ret EXCEPT ![t] = e]
  /\ ticket' = [ticket EXCEPT ![t] = 0]
  /\ dequeued_elem' = [dequeued_elem EXCEPT ![t] = NULL]
  /\ UNCHANGED <<accepted, requests>>

enqueue(t, e) ==
  /\ Enter(t) /\ Len(accepted) < MaxEnqueues
  /\ \/ /\ waiting_threads_q # <<>>
        /\ LET t_node == Head(waiting_threads_q) IN
             /\ elem' = [elem EXCEPT ![t_node] = e]
             /\ legal' = [legal EXCEPT ![t_node] = TRUE]
             /\ Goto(t_node, {"waiting"}, "signalled")
        /\ waiting_threads_q' = Tail(waiting_threads_q)
        /\ UNCHANGED main_q
     \/ /\ waiting_threads_q = <<>>
        /\ main_q' = Append(main_q, e)
        /\ UNCHANGED <<waiting_threads_q, pc, node>>
  /\ full_size' = full_size + 1
  /\ accepted' = Append(accepted, e)
  /\ UNCHANGED <<inUse, q_lock, visited_elements_num, waiting_threads_num,
                 dequeued_elem, requests, ticket, ret>>

pop_from_main_q(t) ==
  /\ main_q # <<>>
  /\ main_q' = Tail(main_q)
  /\ dequeued_elem' = [dequeued_elem EXCEPT ![t] = Head(main_q)]

(* dequeue of an element that is there counts the visit first ...          *)
dequeueTake(t) ==
  /\ Enter(t) /\ Lock(t) /\ pop_from_main_q(t)
  /\ countVisit
  /\ Goto(t, {"idle"}, "visited")
  /\ NewTicket(t)
  /\ UNCHANGED <<inUse, waiting_threads_q, full_size, waiting_threads_num,
                 node>>

(* ... and otherwise waits with a thread_node from malloc.                 *)
dequeueWait(t) ==
  /\ Enter(t) /\ main_q = <<>>
  /\ elem' = [elem EXCEPT ![t] = Garbage]
  /\ \E b \in BOOLEAN : legal' = [legal EXCEPT ![t] = b]
  /\ insert_to_threads_q(t)
  /\ waiting_threads_num' = waiting_threads_num + 1
  /\ Goto(t, {"idle"}, "waiting")
  /\ NewTicket(t)
  /\ UNCHANGED <<inUse, q_lock, main_q, full_size, visited_elements_num,
                 dequeued_elem>>

resumeLegal(t) ==
  /\ legal[t] /\ Goto(t, {"signalled"}, "took") /\ Lock(t)
  /\ waiting_threads_num' = waiting_threads_num - 1
  /\ dequeued_elem' = [dequeued_elem EXCEPT ![t] = elem[t]]
  /\ elem' = [elem EXCEPT ![t] = NULL]
  /\ legal' = [legal EXCEPT ![t] = FALSE]
  /\ UNCHANGED <<inUse, queues, full_size, visited_elements_num, history>>

(* The queue was destroyed: nothing is counted, NULL is returned.          *)
CancelledIsCountedBug == full_size' = full_size - 1
cancelledCount == UNCHANGED full_size

resumeCancelled(t) ==
  /\ ~ legal[t] /\ Goto(t, {"signalled"}, "idle") /\ Free
  /\ cancelledCount
  /\ Result(t, elem[t])
  /\ UNCHANGED <<inUse, q_lock, queues, visited_elements_num,
                 waiting_threads_num, node>>

dequeueVisit(t) ==
  /\ Goto(t, {"took"}, "visited")
  /\ countVisit
  /\ UNCHANGED <<inUse, q_lock, queues, full_size, waiting_threads_num, node,
                 dequeued_elem, history>>

dequeueEnd(t) ==
  /\ Goto(t, {"visited"}, "idle") /\ Unlock(t)
  /\ full_size' = full_size - 1
  /\ Result(t, dequeued_elem[t])
  /\ UNCHANGED <<inUse, queues, visited_elements_num, waiting_threads_num,
                 node>>

(* tryDequeue changes the same two counters in the other order.            *)
tryTake(t) ==
  /\ Enter(t) /\ Lock(t) /\ pop_from_main_q(t)
  /\ full_size' = full_size - 1
  /\ Goto(t, {"idle"}, "tried")
  /\ NewTicket(t)
  /\ UNCHANGED <<inUse, waiting_threads_q, visited_elements_num,
                 waiting_threads_num, node>>

tryEnd(t) ==
  /\ Goto(t, {"tried"}, "idle") /\ Unlock(t)
  /\ countVisit
  /\ Result(t, dequeued_elem[t])
  /\ UNCHANGED <<inUse, queues, full_size, waiting_threads_num, node>>

tryRefuse(t) ==
  /\ Enter(t) /\ main_q = <<>>
  /\ ret' = [ret EXCEPT ![t] = NULL]
  /\ UNCHANGED <<inUse, q_lock, queues, counters, pc, node, dequeued_elem,
                 accepted, requests, ticket>>

-----------------------------------------------------------------------------
Inside(t) ==
  \/ resumeLegal(t) \/ resumeCancelled(t) \/ dequeueVisit(t) \/ dequeueEnd(t)
  \/ tryEnd(t)

Step(t) ==
  \/ initQueue(t) \/ destroyQueue(t)
  \/ \E e \in Elems : enqueue(t, e)
  \/ dequeueTake(t) \/ dequeueWait(t) \/ tryTake(t) \/ tryRefuse(t)
  \/ Inside(t)

Next == \E t \in Threads : Step(t)

Spec == Init /\ [][Next]_vars

-----------------------------------------------------------------------------
In(labels) == {t \in Threads : pc[t] \in labels}
Handed == {t \in In({"signalled"}) : legal[t]}

(* While a queue is in use the atomics are exact at any moment, whichever  *)
(* of the two orders an operation changes them in: size() counts a handed  *)
(* element until its thread has left, waiting() the threads that were not  *)
(* back from cnd_wait, and no element is in neither size() nor visited(),  *)
(* except one of the tryDequeue that is running.                           *)
CountersExact ==
  inUse =>
    /\ full_size =
         Len(main_q) + Cardinality(Handed \cup In({"took", "visited"}))
    /\ waiting_threads_num = Len(waiting_threads_q) + Cardinality(Handed)
    /\ full_size + visited_elements_num =
         Len(accepted) + Cardinality(In({"visited"}))
         - Cardinality(In({"tried"}))

(* The queue is the abstract one: first come, first served, and requests   *)
(* that destroyQueue finds waiting return nothing and lose no element.     *)
Cancels == INSTANCE CancelQueue WITH
  Items <- Elems, Nothing <- NULL, open <- inUse, taken <- requests,
  stranded <- {t \in Threads : pc[t] = "signalled" /\ ~ legal[t]}
FifoOrCancelled == Cancels!CancelSpec
=============================================================================
