---------------------------- MODULE TicketQueue ----------------------------
(***************************************************************************)
(* What the blocking queue of 4/queue.c promises to its callers, without   *)
(* its lists, condition variables and counters.  Every enqueued item and   *)
(* every dequeue request takes the next number of its own kind, and the    *)
(* request with number k returns the item with number k: items leave in    *)
(* the order they came in, and threads are served in the order they asked. *)
(* Destroying the queue drops the items nobody asked for and strands the   *)
(* requests whose item never came.                                         *)
(***************************************************************************)
EXTENDS Naturals, Sequences

CONSTANTS Threads,  (* the threads that call the queue                     *)
          Items,    (* the pointers they pass through it                   *)
          Nothing   (* no value: what a refused tryDequeue leaves          *)

VARIABLES
  open,      (* between initQueue and destroyQueue                         *)
  accepted,  (* the items enqueued since initQueue, in order               *)
  taken,     (* how many requests were made since initQueue                *)
  ticket,    (* the number of a thread's outstanding request, 0 if none    *)
  stranded,  (* threads whose request was outstanding at a destroyQueue    *)
  ret        (* what a thread's last completed request returned            *)

vars == <<open, accepted, taken, ticket, stranded, ret>>

TypeOK ==
  /\ open \in BOOLEAN
  /\ accepted \in Seq(Items)
  /\ taken \in Nat
  /\ ticket \in [Threads -> Nat]
  /\ stranded \in SUBSET Threads
  /\ ret \in [Threads -> Items \cup {Nothing}]

Init ==
  /\ open = FALSE
  /\ accepted = <<>>
  /\ taken = 0
  /\ ticket = [t \in Threads |-> 0]
  /\ stranded = {}
  /\ ret = [t \in Threads |-> Nothing]

Free(t) == ticket[t] = 0 /\ t \notin stranded

Served(t) == ticket[t] \in 1 .. Len(accepted)

Open ==
  /\ ~ open
  /\ \A t \in Threads : ticket[t] = 0
  /\ open' = TRUE
  /\ accepted' = <<>>
  /\ taken' = 0
  /\ UNCHANGED <<ticket, stranded, ret>>

Put(d) ==
  /\ open
  /\ accepted' = Append(accepted, d)
  /\ UNCHANGED <<open, taken, ticket, stranded, ret>>

Ask(t) ==
  /\ open
  /\ Free(t)
  /\ taken' = taken + 1
  /\ ticket' = [ticket EXCEPT ![t] = taken + 1]
  /\ UNCHANGED <<open, accepted, stranded, ret>>

Return(t) ==
  /\ Served(t)
  /\ ret' = [ret EXCEPT ![t] = accepted[ticket[t]]]
  /\ ticket' = [ticket EXCEPT ![t] = 0]
  /\ UNCHANGED <<open, accepted, taken, stranded>>

(* A request that does not wait is refused exactly when every item that    *)
(* was enqueued already belongs to an earlier request.                     *)
Refuse(t) ==
  /\ open
  /\ Free(t)
  /\ taken >= Len(accepted)
  /\ ret' = [ret EXCEPT ![t] = Nothing]
  /\ UNCHANGED <<open, accepted, taken, ticket, stranded>>

Close ==
  /\ open
  /\ open' = FALSE
  /\ stranded' = stranded \cup {t \in Threads : ticket[t] > Len(accepted)}
  /\ ticket' = [t \in Threads |-> IF Served(t) THEN ticket[t] ELSE 0]
  /\ UNCHANGED <<accepted, taken, ret>>

Next ==
  \/ Open
  \/ Close
  \/ \E d \in Items : Put(d)
  \/ \E t \in Threads : Ask(t) \/ Return(t) \/ Refuse(t)

Spec == Init /\ [][Next]_vars

(* A request whose item has arrived is not left waiting for ever.          *)
ServedRequestReturns == \A t \in Threads : Served(t) ~> ticket[t] = 0
=============================================================================
