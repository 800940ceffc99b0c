---------------------------- MODULE CancelQueue ----------------------------
(***************************************************************************)
(* What the blocking queue of 4/rec09_mutex promises: the ticket queue,    *)
(* but a request that is outstanding when the queue is destroyed comes     *)
(* back with nothing, sooner or later, instead of waiting for ever.        *)
(***************************************************************************)
EXTENDS TicketQueue

Cancel(t) ==
  /\ t \in stranded
  /\ stranded' = stranded \ {t}
  /\ ret' = [ret EXCEPT ![t] = Nothing]
  /\ UNCHANGED <<open, accepted, taken, ticket>>

CancelSpec == Init /\ [][Next \/ \E t \in Threads : Cancel(t)]_vars
=============================================================================
