----------------------------- MODULE TestCalls -----------------------------
(***************************************************************************)
(* The vocabulary of the scripts in which QueueTests and RecQueueTests     *)
(* write down the tests of the two queues.  A script has the calls of the  *)
(* main thread and those of each thread it creates; a call is a pair of    *)
(* what is called and its argument.  "create" and "join" are thrd_create   *)
(* and thrd_join; "size", "visited", "waiting" and "returned" are checks   *)
(* of a counter or of what the thread's last call returned.  A sleep is no *)
(* call: it makes no order of the threads impossible.                      *)
(***************************************************************************)
EXTENDS Naturals, Sequences

(* The same call with the arguments 1 .. n.                                *)
Each(op, n) == [i \in 1 .. n |-> <<op, i>>]

Times(op, n) == [i \in 1 .. n |-> <<op, 0>>]

(* n calls of op, each of which is checked to return the next number.      *)
InOrder(op, n) ==
  [i \in 1 .. 2 * n |->
     IF i % 2 = 1 THEN <<op, 0>> ELSE <<"returned", i \div 2>>]

Between(calls) == <<<<"initQueue", 0>>>> \o calls \o <<<<"destroyQueue", 0>>>>

Alone(calls) == [main |-> Between(calls), threads |-> <<>>]

(* The main thread makes some calls, creates all the threads, makes some   *)
(* more, joins the threads and goes on alone.                              *)
Threaded(before, threads, during, after) ==
  [main |-> Between(before \o Each("create", Len(threads)) \o during
                    \o Each("join", Len(threads)) \o after),
   threads |-> threads]
=============================================================================
