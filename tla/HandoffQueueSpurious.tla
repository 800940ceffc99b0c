------------------------ MODULE HandoffQueueSpurious ------------------------
(***************************************************************************)
(* HandoffQueue under the full contract of cnd_wait, which may return      *)
(* without a signal ("unblocked due to an unspecified reason", C17         *)
(* 7.26.3.6).  dequeue() of 4/queue.c calls it once, outside any loop, so  *)
(* such a return makes it read fields that nobody wrote and free a node    *)
(* that is still linked.  A later step that follows the dangling link is   *)
(* undefined: the behaviours modelled here end before it.                  *)
(***************************************************************************)
EXTENDS HandoffQueue

spuriousWakeup(t) == pc[t] = "waiting" /\ backFromWait(t)

Dangling == \E t \in Range(threadNodes) : threadNode[t] # "live"

NextSpurious ==
  \/ Next /\ (Dangling => UNCHANGED threadNodes)
  \/ \E t \in Threads : threadNode[t] = "live" /\ spuriousWakeup(t)

SpuriousSpec == Init /\ [][NextSpurious]_vars

(* "We are blocking while head is empty" (4/queue.c:129), "Should block    *)
(* until an item is enqueued" (4/test.c:453): while the item with the      *)
(* number of a request was not enqueued, the request is in cnd_wait.       *)
BlocksUntilEnqueued ==
  \A t \in Threads : ticket[t] > Len(accepted) => pc[t] = "waiting"
=============================================================================
